---------------------------- MODULE ControlChannel ----------------------------
(***************************************************************************)
(* The way from a desktop or a command to the worker: the process lock     *)
(* (execution/process_lock.py), the start and the end of worker processes  *)
(* (worker_process.py), their credential and control channel               *)
(* (worker_ipc.py), and the commands that use it (worker_cli.py), with the *)
(* fence a Stop writes by itself (worker_status.py).                       *)
(*                                                                         *)
(* What a worker does with a session is SessionWorker's; here a Start makes*)
(* the saved intent running and a Stop fences it.  posix tells the two     *)
(* builds apart: there the channel is a file that outlives its process, on *)
(* Windows a pipe that does not.                                           *)
(***************************************************************************)
EXTENDS Naturals

CONSTANTS
    Client,     \* desktops and commands
    MaxWorkers, \* bound: worker processes
    MaxCalls    \* bound: commands

Process == 1..MaxWorkers

VARIABLES
    posix,
    lock,       \* the process that holds app.lock, or 0
    channel,    \* the process whose address is there, or 0
    token,      \* the credential: "absent", "empty" or "written"
    intent,     \* the saved intent: running, its fences, and who started it
    worker,     \* where each process is
    client,     \* where each client is
    calls

vars == <<posix, lock, channel, token, intent, worker, client, calls>>

Idle == [op |-> "none", pc |-> "idle", peer |-> 0, since |-> 0]

Init ==
    /\ posix \in BOOLEAN
    /\ lock = 0 /\ channel = 0 /\ token = "absent"
    /\ intent \in [running : BOOLEAN, fences : {0}, by : {0}]
    /\ worker = [i \in Process |-> [pc |-> "none", recovers |-> FALSE, exit |-> 0]]
    /\ client = [c \in Client |-> Idle]
    /\ calls = 0

Goes(i, from, to) == worker[i].pc = from /\ worker' = [worker EXCEPT ![i].pc = to]

Exits(i, code) == worker' = [worker EXCEPT ![i].pc = "exited", ![i].exit = code]

-----------------------------------------------------------------------------
(* A worker process: serve() *)

(* Mutant: the intent is looked at before the lock is held. *)
AcquireAfterCheck(i) ==
    /\ worker[i].pc = "spawned"
    /\ IF lock = 0
       THEN lock' = i /\ worker' = [worker EXCEPT ![i].pc = "clear"]
       ELSE Exits(i, 2) /\ UNCHANGED lock
    /\ UNCHANGED <<posix, channel, token, intent, client, calls>>

(* Whoever finds the lock taken leaves with code 2. *)
Acquire(i) ==
    /\ worker[i].pc = "spawned"
    /\ IF lock = 0
       THEN lock' = i /\ worker' = [worker EXCEPT ![i].pc = "locked"]
       ELSE Exits(i, 2) /\ UNCHANGED lock
    /\ UNCHANGED <<posix, channel, token, intent, client, calls>>

(* A start that must not recover refuses saved intent, under the lock. *)
Examine(i) ==
    /\ worker[i].pc = "locked"
    /\ IF intent.running /\ ~worker[i].recovers
       THEN Exits(i, 3) /\ lock' = 0
       ELSE Goes(i, "locked", "clear") /\ UNCHANGED lock
    /\ UNCHANGED <<posix, channel, token, intent, client, calls>>

(* On posix the credential is a file, created first and written then. *)
CreateToken(i) ==
    /\ worker[i].pc = "clear" /\ token = "absent"
    /\ token' = IF posix THEN "empty" ELSE "written"
    /\ Goes(i, "clear", IF posix THEN "writing" ELSE "ready")
    /\ UNCHANGED <<posix, lock, channel, intent, client, calls>>

WriteToken(i) ==
    /\ Goes(i, "writing", "ready") /\ token' = "written"
    /\ UNCHANGED <<posix, lock, channel, intent, client, calls>>

(* A credential that is there is read; one that was never written is refused
   for good. *)
ReadToken(i) ==
    /\ worker[i].pc = "clear" /\ token # "absent"
    /\ IF token = "written"
       THEN Goes(i, "clear", "ready") /\ UNCHANGED lock
       ELSE Exits(i, 1) /\ lock' = 0
    /\ UNCHANGED <<posix, channel, token, intent, client, calls>>

(* An address that is there is refused, whoever left it. *)
Bind(i) ==
    /\ worker[i].pc = "ready"
    /\ IF channel = 0
       THEN Goes(i, "ready", "serving") /\ channel' = i /\ UNCHANGED lock
       ELSE Exits(i, 1) /\ lock' = 0 /\ UNCHANGED channel
    /\ UNCHANGED <<posix, token, intent, client, calls>>

(* The end: the channel is closed first and the lock released last. *)
Unbind(i) ==
    /\ Goes(i, "stopping", "closing") /\ channel' = 0
    /\ UNCHANGED <<posix, lock, token, intent, client, calls>>

Release(i) ==
    /\ worker[i].pc = "closing" /\ Exits(i, 0) /\ lock' = 0
    /\ UNCHANGED <<posix, channel, token, intent, client, calls>>

(* The system releases the lock of a process that dies, and on Windows its
   pipe. *)
Crash(i) ==
    /\ worker[i].pc \notin {"none", "exited"}
    /\ Exits(i, 9)
    /\ lock' = IF lock = i THEN 0 ELSE lock
    /\ channel' = IF channel = i /\ ~posix THEN 0 ELSE channel
    /\ UNCHANGED <<posix, token, intent, client, calls>>

-----------------------------------------------------------------------------
(* Clients *)

Serving(i) == i # 0 /\ worker[i].pc \in {"serving", "stopping"}

Reached == Serving(channel) /\ token = "written"

To(c, pc) == client' = [client EXCEPT ![c].pc = pc]

(* A command is begun; one that launches probes first. *)
Call(c) ==
    /\ client[c].pc = "idle" /\ calls < MaxCalls
    /\ calls' = calls + 1
    /\ \E op \in {"start", "stop", "shutdown", "launch"} :
          client' = [client EXCEPT ![c] = [Idle EXCEPT !.op = op, !.pc = "calling", !.since = intent.fences]]
    /\ UNCHANGED <<posix, lock, channel, token, intent, worker>>

(* The request arrives, if anyone listens. *)
Send(c) ==
    /\ client[c].pc = "calling"
    /\ client' = [client EXCEPT ![c].pc = IF Reached THEN "sent" ELSE "unreached",
                                ![c].peer = IF Reached THEN channel ELSE 0]
    /\ UNCHANGED <<posix, lock, channel, token, intent, worker, calls>>

(* launch_worker starts a process, with recovery or without. *)
Spawn(c) ==
    /\ client[c].pc = "unreached" /\ client[c].op = "launch"
    /\ \E i \in Process, recovers \in BOOLEAN :
          /\ worker[i].pc = "none" /\ \A j \in Process : j < i => worker[j].pc # "none"
          /\ worker' = [worker EXCEPT ![i] = [@ EXCEPT !.pc = "spawned", !.recovers = recovers]]
          /\ client' = [client EXCEPT ![c].pc = "polling", ![c].peer = i]
    /\ UNCHANGED <<posix, lock, channel, token, intent, calls>>

(* It polls until some worker answers, its own process refuses, or it has
   waited long enough; code 2 only says that another one holds the lock. *)
Poll(c) ==
    /\ client[c].pc = "polling"
    /\ \/ Reached /\ To(c, "done")
       \/ worker[client[c].peer].exit \notin {0, 2} /\ To(c, "refused")
       \/ ~Reached /\ To(c, "failed")
    /\ UNCHANGED <<posix, lock, channel, token, intent, worker, calls>>

(* The worker takes the command, before its deadline. *)
Handle(c) ==
    /\ client[c].pc = "sent" /\ Serving(client[c].peer)
    /\ LET i == client[c].peer IN
       /\ intent' =
            CASE client[c].op = "start" /\ worker[i].pc = "serving" /\ intent.fences = client[c].since ->
                   [intent EXCEPT !.running = TRUE, !.by = i]
              [] client[c].op \in {"stop", "shutdown"} ->
                   [intent EXCEPT !.running = FALSE, !.fences = @ + 1]
              [] OTHER -> intent
       /\ worker' = [worker EXCEPT ![i].pc = IF client[c].op = "shutdown" THEN "stopping" ELSE @]
    /\ To(c, "handled")
    /\ UNCHANGED <<posix, lock, channel, token, calls>>

Answer(c) ==
    /\ client[c].pc = "handled" /\ Serving(client[c].peer) /\ To(c, "done")
    /\ UNCHANGED <<posix, lock, channel, token, intent, worker, calls>>

(* No answer in time, a refusal or a broken connection: what became of the
   command is not known. *)
NoAnswer(c) ==
    /\ client[c].pc \in {"sent", "handled"} /\ To(c, "uncertain")
    /\ UNCHANGED <<posix, lock, channel, token, intent, worker, calls>>

(* Mutant: a Stop that was sent counts as done. *)
FenceUnsent(c) ==
    /\ client[c].op = "stop" /\ client[c].pc \in {"unreached", "uncertain"}
    /\ intent' = IF client[c].pc = "unreached"
                 THEN [intent EXCEPT !.running = FALSE, !.fences = @ + 1] ELSE intent
    /\ To(c, "done")
    /\ UNCHANGED <<posix, lock, channel, token, worker, calls>>

(* A Stop without an answer writes its own fence into the record. *)
Fence(c) ==
    /\ client[c].op = "stop" /\ client[c].pc \in {"unreached", "uncertain"}
    /\ intent' = [intent EXCEPT !.running = FALSE, !.fences = @ + 1]
    /\ To(c, "done")
    /\ UNCHANGED <<posix, lock, channel, token, worker, calls>>

(* Every other command reports the error; the next one may follow. *)
Return(c) ==
    /\ \/ client[c].pc \in {"done", "failed", "refused"}
       \/ client[c].pc \in {"unreached", "uncertain"} /\ client[c].op \in {"start", "shutdown"}
       \/ client[c].pc = "uncertain" /\ client[c].op = "launch"
    /\ client' = [client EXCEPT ![c] = Idle]
    /\ UNCHANGED <<posix, lock, channel, token, intent, worker, calls>>

-----------------------------------------------------------------------------
Next ==
    \/ \E i \in Process :
          \/ Acquire(i) \/ Examine(i) \/ CreateToken(i) \/ WriteToken(i) \/ ReadToken(i)
          \/ Bind(i) \/ Unbind(i) \/ Release(i) \/ Crash(i)
    \/ \E c \in Client :
          \/ Call(c) \/ Send(c) \/ Spawn(c) \/ Poll(c) \/ Handle(c) \/ Answer(c) \/ NoAnswer(c)
          \/ Fence(c) \/ Return(c)

Spec == Init /\ [][Next]_vars

-----------------------------------------------------------------------------
(* However processes start, end and die, one worker at a time answers, it
   holds the lock, and the address that clients use is its own
   (worker_process.py:25, worker_ipc.py:147). *)
OneServer == \A i \in Process : worker[i].pc \in {"serving", "stopping"} => lock = i /\ channel = i

(* A Stop that reports success has fenced the record after it was asked for,
   whatever happened to its request (worker_cli.py:171). *)
StopIsRecorded ==
    \A c \in Client : client[c].pc = "done" /\ client[c].op = "stop" => intent.fences > client[c].since

(* A worker that was started without recovery trades on no intent but its
   own (worker_process.py:32). *)
NoInheritance ==
    \A i \in Process :
        worker[i].pc = "serving" /\ ~worker[i].recovers => (intent.running => intent.by = i)

ChannelKept == OneServer /\ StopIsRecorded /\ NoInheritance
=============================================================================
