---------------------------- MODULE SessionWorker ----------------------------
(***************************************************************************)
(* The session worker (execution/session_worker.py) in its process         *)
(* (execution/worker_process.py serve), commanded by clients over the      *)
(* local socket (execution/worker_ipc.py _dispatch) and fenced from other  *)
(* processes (execution/worker_status.py).                                 *)
(*                                                                         *)
(* The process runs one event loop, so a step is what a handler does       *)
(* between two awaits; handlers of different clients interleave at the     *)
(* awaits, the request deadline can cancel a handler there, and a crash or *)
(* an emergency fence can fall between any two steps.  Control record and  *)
(* user permits are durable.                                               *)
(***************************************************************************)
EXTENDS WorkerControl, FiniteSets

CONSTANTS
    Client,         \* concurrent connections to the control server
    Main,           \* serve() itself, which closes the worker at the end
    Requests,       \* bound: client requests and emergency fences in all
    Restarts        \* bound: worker processes in all

ASSUME MainAssumption == Main \notin Client
ASSUME RequestsAssumption == Requests \in Nat
ASSUME RestartsAssumption == Restarts \in Nat

VARIABLES
    control,        \* the durable record
    permit,         \* the user permit file of each scope
    process,        \* the worker process
    runners,        \* live runner tasks
    cancelled,      \* those asked to end
    ended,          \* tasks whose done callback has not run yet
    task,           \* self._task, or NoTask
    handler,        \* what each client's request, and serve() itself, is doing
    exiting,        \* self.shutdown_requested
    shuttingDown,   \* self._shutting_down
    budget,         \* requests left
    restarts        \* process starts left

durable == <<control, permit>>
tasks == <<runners, cancelled, ended, task>>
lifetime == <<process, exiting, shuttingDown>>
bounds == <<budget, restarts>>
vars == <<durable, tasks, lifetime, handler, bounds>>

(* A start launches a generation of its own and recovery runs once in a
   process, so these two tell the tasks of one process apart. *)
Runner == [generation : Nat, recovered : BOOLEAN]

NoTask == [generation |-> 0, recovered |-> FALSE]

Actor == Client \cup {Main}

Idle == [op |-> "none", pc |-> "idle", scope |-> NoScope, expected |-> 0, joins |-> NoTask]

Handler == [op : {"none", "review", "start", "stop", "revoke", "shutdown", "close"},
            pc : {"idle", "reviewing", "starting", "fenced", "joining", "reporting"},
            scope : Scope \cup {NoScope}, expected : Nat, joins : Runner]

Init ==
    /\ control = InitialControl
    /\ permit = [s \in Scope |-> "missing"]
    /\ process = "down"
    /\ runners = {} /\ cancelled = {} /\ ended = {} /\ task = NoTask
    /\ handler = [a \in Actor |-> Idle]
    /\ exiting = FALSE /\ shuttingDown = FALSE
    /\ budget = Requests /\ restarts = Restarts

-----------------------------------------------------------------------------
Up == process \in {"serving", "ready"}

(* Mutant: a stop counts only until research has stopped. *)
StoppingResearch == \E a \in Actor : handler[a].pc = "fenced"

(* self._stopping counts the stop() calls in progress, close()'s included. *)
Stopping == \E a \in Actor : handler[a].pc \in {"fenced", "joining"}

Permitted(s) == s \in Scope /\ permit[s] = "granted"

(* _launch, which a live runner makes raise. *)
Launch(g, recovered) ==
    LET runner == [generation |-> g, recovered |-> recovered] IN
    IF task \in runners
    THEN UNCHANGED <<runners, task>>
    ELSE runners' = runners \cup {runner} /\ task' = runner

(* The server takes commands until serve() closes it. *)
Accept(c) ==
    /\ Up /\ handler[Main] = Idle
    /\ handler[c] = Idle
    /\ budget > 0
    /\ budget' = budget - 1

Hold(a, op, pc, s) ==
    handler' = [handler EXCEPT ![a] =
        [op |-> op, pc |-> pc, scope |-> s, expected |-> control.generation, joins |-> task]]

Reply(a) == handler' = [handler EXCEPT ![a] = Idle]

-----------------------------------------------------------------------------
(* Commands *)

BeginReview(c, s) ==
    /\ Accept(c)
    /\ ~Stopping /\ ~shuttingDown
    /\ Reviewable(control)
    /\ Hold(c, "review", "reviewing", s)
    /\ UNCHANGED <<durable, tasks, lifetime, restarts>>

(* Research is stopped and the broker has verified the account; the record
   is replaced unless a session was started meanwhile. *)
EndReview(c) ==
    /\ handler[c].pc = "reviewing"
    /\ control' = IF Reviewable(control) THEN Reviewed(control, handler[c].scope) ELSE control
    /\ Reply(c)
    /\ UNCHANGED <<permit, tasks, lifetime, bounds>>

(* Approves a scope whose permit file does not exist yet; a revoked permit
   makes permit() raise something other than FileNotFoundError. *)
Authorize(c) ==
    /\ Accept(c)
    /\ ~Stopping /\ ~shuttingDown
    /\ ~control.running /\ control.scope # NoScope
    /\ permit[control.scope] = "missing"
    /\ permit' = [permit EXCEPT ![control.scope] = "granted"]
    /\ UNCHANGED <<control, tasks, lifetime, handler, restarts>>

BeginStart(c) ==
    /\ Accept(c)
    /\ ~Stopping /\ ~shuttingDown
    /\ task \notin runners
    /\ Permitted(control.scope)
    /\ Hold(c, "start", "starting", control.scope)
    /\ UNCHANGED <<durable, tasks, lifetime, restarts>>

StartRefused(c) ==
    /\ handler[c].pc = "starting"
    /\ Stopping \/ shuttingDown \/ ~Startable(control, handler[c].scope, handler[c].expected)
    /\ Reply(c)
    /\ UNCHANGED <<durable, tasks, lifetime, bounds>>

(* Research is stopped: the start is recorded and its runner launched with
   the record read back, which another process may have fenced in between. *)
EndStart(c) ==
    /\ handler[c].pc = "starting"
    /\ ~Stopping /\ ~shuttingDown
    /\ Startable(control, handler[c].scope, handler[c].expected)
    /\ \/ control' = Started(control) /\ UNCHANGED budget
       \/ /\ budget > 0
          /\ budget' = budget - 1
          /\ control' = Stopped(Started(control))
    /\ Launch(control'.generation, FALSE)
    /\ Reply(c)
    /\ UNCHANGED <<permit, cancelled, ended, lifetime, restarts>>

(* stop, revoke and shutdown first fence the record, then stop research. *)
BeginStop(c, op) ==
    /\ Accept(c)
    /\ control' = Stopped(control)
    /\ shuttingDown' = (shuttingDown \/ op = "shutdown")
    /\ Hold(c, op, "fenced", control.scope)
    /\ UNCHANGED <<permit, tasks, process, exiting, restarts>>

(* Research is stopped: the runner there was at the fence is cancelled, and
   waited for if it is not done. *)
JoinRunner(a) ==
    LET live == handler[a].joins \in runners IN
    /\ handler[a].pc = "fenced"
    /\ cancelled' = IF live THEN cancelled \cup {handler[a].joins} ELSE cancelled
    /\ handler' = [handler EXCEPT ![a].pc = "joining",
                                  ![a].joins = IF live THEN @ ELSE NoTask]
    /\ UNCHANGED <<durable, runners, ended, task, lifetime, bounds>>

(* wait_for returns only when the cancelled task is done, also after its
   five seconds. *)
Joined(c) == handler[c].pc = "joining" /\ handler[c].joins \notin runners

(* stop() swallows the runner's cancellation and the time-out; any other error
   the awaited runner ended with comes out of it and ends the command. *)
MayRaise(c) == handler[c].joins # NoTask

(* The command does what remains of it, unless stop() raised. *)
EndStop(c) ==
    /\ Joined(c)
    /\ handler[c].op \in {"stop", "revoke"}
    /\ \/ permit' = IF handler[c].op = "revoke" /\ Permitted(handler[c].scope)
                    THEN [permit EXCEPT ![handler[c].scope] = "revoked"]
                    ELSE permit
       \/ MayRaise(c) /\ UNCHANGED permit
    /\ Reply(c)
    /\ UNCHANGED <<control, tasks, lifetime, bounds>>

EndShutdownStop(c) ==
    /\ Joined(c)
    /\ handler[c].op = "shutdown"
    /\ handler' = [handler EXCEPT ![c].pc = "reporting"]
    /\ UNCHANGED <<durable, tasks, lifetime, bounds>>

(* The cleanup report is done, whatever it found, or stop() raised before it:
   serve() may leave. *)
RequestExit(c) ==
    /\ handler[c].op = "shutdown"
    /\ handler[c].pc = "reporting" \/ (Joined(c) /\ MayRaise(c))
    /\ exiting' = TRUE
    /\ Reply(c)
    /\ UNCHANGED <<durable, tasks, process, shuttingDown, bounds>>

(* Mutant: the exit is requested only when the shutdown ran to its end. *)
DeadlineDropsShutdown(c) ==
    /\ handler[c].pc \in {"reviewing", "starting", "fenced", "reporting"}
    /\ Reply(c)
    /\ UNCHANGED <<durable, tasks, lifetime, bounds>>

(* The request's deadline cancels the handler at an await.  A stop that was
   stopping research keeps its fence but never reaches the runner; one that
   waits for the runner keeps waiting; a shutdown still requests the exit. *)
Deadline(c) ==
    /\ handler[c].pc \in {"reviewing", "starting", "fenced", "reporting"}
    /\ exiting' = (exiting \/ handler[c].op = "shutdown")
    /\ Reply(c)
    /\ UNCHANGED <<durable, tasks, process, shuttingDown, bounds>>

-----------------------------------------------------------------------------
(* The runner task *)

(* run() returns or raises: an error, a cancellation, a failed check. *)
RunnerEnds(r) ==
    /\ runners' = runners \ {r}
    /\ cancelled' = cancelled \ {r}
    /\ ended' = ended \cup {r}
    /\ UNCHANGED <<durable, task, lifetime, handler, bounds>>

(* Mutant: the callback leaves the record to somebody else. *)
FinishedUnrecorded(r) ==
    /\ ended' = ended \ {r}
    /\ task' = IF task = r THEN NoTask ELSE task
    /\ UNCHANGED <<durable, runners, cancelled, lifetime, handler, bounds>>

(* Mutant: the callback stops the session without naming its generation. *)
FinishedStopsAny(r) ==
    /\ ended' = ended \ {r}
    /\ IF task = r
       THEN task' = NoTask /\ control' = Stopped(control)
       ELSE UNCHANGED <<task, control>>
    /\ UNCHANGED <<permit, runners, cancelled, lifetime, handler, bounds>>

(* _finished, the done callback. *)
Finished(r) ==
    /\ ended' = ended \ {r}
    /\ IF task = r
       THEN task' = NoTask /\ control' = StoppedBy(control, r.generation)
       ELSE UNCHANGED <<task, control>>
    /\ UNCHANGED <<permit, runners, cancelled, lifetime, handler, bounds>>

-----------------------------------------------------------------------------
(* The process and its surroundings *)

(* serve() with the process lock: without recovery a saved session makes it
   refuse.  On Windows the pipe thread accepts commands before recover() has
   run. *)
Boot(recovering) ==
    /\ process = "down" /\ restarts > 0
    /\ recovering \/ ~control.running
    /\ process' = IF recovering THEN "serving" ELSE "ready"
    /\ restarts' = restarts - 1
    /\ UNCHANGED <<durable, tasks, exiting, shuttingDown, handler, budget>>

(* recover(): a session that cannot be taken over is fenced. *)
Recover ==
    /\ process = "serving"
    /\ process' = "ready"
    /\ IF ~control.running \/ Stopping \/ shuttingDown
       THEN UNCHANGED <<control, runners, task>>
       ELSE IF Permitted(control.scope) /\ task \notin runners
            THEN Launch(control.generation, TRUE) /\ UNCHANGED control
            ELSE control' = Stopped(control) /\ UNCHANGED <<runners, task>>
    /\ UNCHANGED <<permit, cancelled, ended, exiting, shuttingDown, handler, bounds>>

(* serve()'s finally clause closes the server and stops once more. *)
BeginExit ==
    /\ process = "ready" /\ exiting
    /\ handler[Main] = Idle
    /\ control' = Stopped(control)
    /\ Hold(Main, "close", "fenced", NoScope)
    /\ UNCHANGED <<permit, tasks, lifetime, bounds>>

(* Everything but the durable record and the permits is lost. *)
Gone ==
    /\ process' = "down"
    /\ runners' = {} /\ cancelled' = {} /\ ended' = {} /\ task' = NoTask
    /\ handler' = [a \in Actor |-> Idle]
    /\ exiting' = FALSE /\ shuttingDown' = FALSE
    /\ UNCHANGED <<durable, bounds>>

ExitEnds == Joined(Main) /\ Gone

Crash == Up /\ Gone

(* Another process finds the worker unreachable and fences the record. *)
EmergencyStop ==
    /\ budget > 0
    /\ budget' = budget - 1
    /\ control' = Stopped(control)
    /\ UNCHANGED <<permit, tasks, lifetime, handler, restarts>>

-----------------------------------------------------------------------------
Command(c) ==
    \/ \E s \in Scope : BeginReview(c, s)
    \/ Authorize(c)
    \/ BeginStart(c)
    \/ \E op \in {"stop", "revoke", "shutdown"} : BeginStop(c, op)

Continue(c) ==
    EndReview(c) \/ EndStart(c) \/ StartRefused(c) \/ EndStop(c) \/ EndShutdownStop(c) \/ RequestExit(c)

Next ==
    \/ \E c \in Client : Command(c) \/ Continue(c) \/ Deadline(c)
    \/ \E a \in Actor : JoinRunner(a)
    \/ \E r \in runners : RunnerEnds(r)
    \/ \E r \in ended : Finished(r)
    \/ \E recovering \in BOOLEAN : Boot(recovering)
    \/ Recover \/ BeginExit \/ ExitEnds \/ Crash \/ EmergencyStop

Spec == Init /\ [][Next]_vars

(* Mutant: the gate asks for the user's permit only. *)
PermitOnly(r) == Permitted(control.scope)

(* WorkerPermission: the current generation and the user's permit. *)
GateOpen(r) == MaySubmit(control, r.generation, control.scope) /\ Permitted(control.scope)

(* A runner ends when it was cancelled, and when its permission is gone: its
   engine checks that every tenth of a second (MixedEngine, FencedEnginesEnd). *)
RunnerMustEnd ==
    \E r \in runners :
        /\ r \in cancelled \/ ~GateOpen(r)
        /\ RunnerEnds(r)

(* The event loop resumes a handler whose await is over and runs callbacks. *)
Fairness ==
    /\ \A c \in Client : WF_vars(Continue(c))
    /\ \A a \in Actor : WF_vars(JoinRunner(a))
    /\ WF_vars(RunnerMustEnd)
    /\ WF_vars(\E r \in ended : Finished(r))
    /\ WF_vars(Recover) /\ WF_vars(BeginExit) /\ WF_vars(ExitEnds)

FairSpec == Spec /\ Fairness

-----------------------------------------------------------------------------
(* Properties *)

(* Every variable holds a value of its kind. *)
TypeOK ==
    /\ control \in Control
    /\ permit \in [Scope -> {"missing", "granted", "revoked"}]
    /\ process \in {"down", "serving", "ready"}
    /\ runners \subseteq Runner /\ cancelled \subseteq runners
    /\ ended \subseteq Runner /\ task \in Runner
    /\ handler \in [Actor -> Handler]
    /\ exiting \in BOOLEAN /\ shuttingDown \in BOOLEAN
    /\ budget \in 0..Requests /\ restarts \in 0..Restarts

(* A recorded session is never orphaned: once the process has recovered, the
   record says running only if the worker's task is a runner of that very
   generation, alive or about to run the callback that fences it. *)
RunningHasRunner ==
    process = "ready" /\ control.running =>
        task.generation = control.generation /\ task \in runners \cup ended

(* At most one runner lives, and it is the one the worker would cancel. *)
OneRunner == runners \subseteq {task}

(* A session only ever runs under a scope the user approved, even when
   reviews, approvals and starts of several clients interleave. *)
RunningScopeApproved ==
    control.running => control.scope \in Scope /\ permit[control.scope] # "missing"

(* Stop and shutdown exclude a launch: no runner appears while one of them is
   in progress, also not from a start that was approved before. *)
StopExcludesLaunch == [][shuttingDown \/ (\E a \in Actor : handler[a].pc \in {"fenced", "joining"})
          => runners' \subseteq runners]_vars

(* A start takes effect only if nothing, not a stop, a review nor another
   start, changed the record since the user approved it. *)
StartIsExact ==
    [][\A r \in runners' \ runners : ~r.recovered =>
          \E c \in Client :
              /\ handler[c].pc = "starting"
              /\ handler[c].expected = control.generation
              /\ handler[c].scope = control.scope]_vars

(* The callback of a superseded runner changes nothing: when a runner is done,
   the record changes only if it still was that runner's session. *)
SupersededRunnerIsHarmless ==
    [][\A r \in ended \ ended' :
          process' # "down" /\ control' # control => control.running /\ control.generation = r.generation]_vars

(* A runner whose session is not the one on record as running comes to an end:
   also when the stop that fenced it was cut off by its deadline before it
   reached the runner, and when it was launched for a record that another
   process had fenced already. *)
Fenced(r) == ~control.running \/ control.generation # r.generation
FencedRunnersEnd == (\E r \in runners : Fenced(r)) ~> (\A r \in runners : ~Fenced(r))

(* An accepted shutdown ends the process, also when its request was cut off by
   its deadline at any point. *)
ShutdownCompletes == shuttingDown ~> process = "down"
=============================================================================
