----------------------------- MODULE ResearchHost -----------------------------
(***************************************************************************)
(* Research beside trading in the worker process: the research half of     *)
(* execution/session_runtime.py, research/worker_research.py and the run   *)
(* control of research/agent_runtime.py, driven by the commands of         *)
(* execution/session_worker.py and by requests of the mailbox.             *)
(*                                                                         *)
(* One event loop: a step is what happens between two awaits, and handlers *)
(* interleave there.  The runner's done callback, which SessionWorker      *)
(* keeps apart, is part of the runner's last step.  One account and one    *)
(* approved scope; their checks are in SessionWorker.                      *)
(***************************************************************************)
EXTENDS AgentBridge, WorkerControl

CONSTANTS
    Client,     \* concurrent connections to the control server
    Runner,     \* the live runner's task, as an actor of the event loop
    Commands,   \* bound: commands, fences and restarts in all
    Runs        \* bound: research runs

ASSUME RunnerAssumption == Runner \notin Client
ASSUME CommandsAssumption == Commands \in Nat
ASSUME RunsAssumption == Runs \in Nat

VARIABLES
    control,    \* the durable record
    connected,  \* the broker session is up and verified
    agent,      \* the run of the desk's AgentRuntime
    runs,       \* research runs started so far: the latest run's identity
    actor,      \* what each handler, and the runner, is doing
    budget      \* commands left

desk == <<agent, runs>>
vars == <<mailbox, control, connected, desk, actor, budget>>

Actor == Client \cup {Runner}

Idle == [op |-> "none", pc |-> "idle", generation |-> 0, joins |-> 0, current |-> FALSE]

(* joins is the research run awaited; current says that no research revision
   was counted since the handler noted it. *)
ActorRecord ==
    [op : {"none", "run", "start", "stop", "disable", "enable", "paper", "paper_stop", "connect"},
     pc : {"idle", "launched", "polling", "joining", "ready", "accounts", "connecting", "trading"},
     generation : Nat, joins : 0..Runs, current : BOOLEAN]

Init ==
    /\ BridgeInit
    /\ \E s \in Scope : control = Reviewed(InitialControl, s)
    /\ connected \in BOOLEAN
    /\ agent = "idle" /\ runs = 0
    /\ actor = [a \in Actor |-> Idle]
    /\ budget = Commands

-----------------------------------------------------------------------------
Trading == actor[Runner].pc = "trading"

Stopping == \E a \in Client : actor[a].op = "stop"

(* What research is refused under, in the runtime and in the desk. *)
ExecutionActive == Trading \/ control.running

(* No handler runs while a poll holds the event loop. *)
Accept(c) ==
    /\ ~poll.open
    /\ actor[c] = Idle
    /\ budget > 0
    /\ budget' = budget - 1

Resumes(a, pc) == ~poll.open /\ actor[a].pc = pc

Waiting(op, pc, g) == [op |-> op, pc |-> pc, generation |-> g, joins |-> runs, current |-> TRUE]

(* The waiting handlers when a has gone on to `step` and a revision has been
   counted that the operations in ops compare. *)
Counted(a, step, ops) ==
    [b \in Actor |-> IF b = a THEN step
                     ELSE IF actor[b].op \in ops THEN [actor[b] EXCEPT !.current = FALSE]
                     ELSE actor[b]]

-----------------------------------------------------------------------------
(* The agent: start, stop and the end of its task *)

(* _start refuses while a run is on or its task has not ended. *)
Free(source) ==
    /\ agent = "idle"
    /\ source = "broker" => connected
    /\ runs < Runs

StartAgent == agent' = "running" /\ runs' = runs + 1

(* stop(): nothing runs for the desk any more; the cancelled task unwinds. *)
StoppedAgent == IF agent = "running" THEN "unwinding" ELSE agent

(* A complete demo, a lost broker or an error ends the run as well. *)
AgentStops ==
    /\ ~poll.open
    /\ agent = "running" /\ agent' = "unwinding"
    /\ UNCHANGED <<mailbox, control, connected, runs, actor, budget>>

AgentEnds ==
    /\ ~poll.open
    /\ agent = "unwinding" /\ agent' = "idle"
    /\ UNCHANGED <<mailbox, control, connected, runs, actor, budget>>

-----------------------------------------------------------------------------
(* Stopping research: revoke the mailbox, cancel the agent, wait for both *)

Revised == {"enable", "paper"}

(* disable(), which every stop begins with, before its first await. *)
Disable == DisableBridge /\ agent' = StoppedAgent /\ UNCHANGED runs

(* stop_research(): the poll task is awaited if there was one. *)
StopResearch(a, op, g) ==
    /\ Disable /\ UNCHANGED poll
    /\ actor' = Counted(a, Waiting(op, IF bridge # 0 THEN "polling" ELSE "joining", g), Revised)

(* stop_and_wait(): the agent is stopped once more, then its task awaited. *)
PollEnded(a) ==
    /\ Resumes(a, "polling")
    /\ agent' = StoppedAgent
    /\ actor' = [actor EXCEPT ![a].pc = "joining", ![a].joins = runs]
    /\ UNCHANGED <<mailbox, control, connected, runs, budget>>

Joined(a) ==
    /\ Resumes(a, "joining")
    /\ actor[a].joins # runs \/ agent = "idle"
    /\ actor' = [actor EXCEPT ![a].pc = "ready"]
    /\ UNCHANGED <<mailbox, control, connected, desk, budget>>

-----------------------------------------------------------------------------
(* Commands of the worker *)

Start(c) ==
    /\ Accept(c)
    /\ ~Stopping
    /\ actor[Runner] = Idle
    /\ StopResearch(c, "start", control.generation)
    /\ UNCHANGED <<control, connected>>

(* Research has stopped: the session is recorded and its runner made. *)
Launch(c) ==
    /\ Resumes(c, "ready") /\ actor[c].op = "start"
    /\ IF ~Stopping /\ Startable(control, control.scope, actor[c].generation)
       THEN /\ control' = Started(control)
            /\ actor' = [actor EXCEPT ![c] = Idle,
                            ![Runner] = [Idle EXCEPT !.op = "run", !.pc = "launched",
                                                     !.generation = control'.generation]]
       ELSE UNCHANGED control /\ actor' = [actor EXCEPT ![c] = Idle]
    /\ UNCHANGED <<mailbox, connected, desk, budget>>

Stop(c) ==
    /\ Accept(c)
    /\ control' = Stopped(control)
    /\ StopResearch(c, "stop", control.generation)
    /\ UNCHANGED connected

DisableResearch(c) ==
    /\ Accept(c)
    /\ StopResearch(c, "disable", control.generation)
    /\ UNCHANGED <<control, connected>>

(* stop() goes on to cancel its runner and waits up to five seconds for it. *)
Reply(c) ==
    /\ Resumes(c, "ready") /\ actor[c].op \in {"stop", "disable", "paper_stop"}
    /\ actor' = [actor EXCEPT ![c] = Idle]
    /\ UNCHANGED <<mailbox, control, connected, desk, budget>>

(* research_enable: one at a time, and nothing to do when it is enabled. *)
Enable(c) ==
    /\ Accept(c)
    /\ ~Stopping /\ ~ExecutionActive /\ connected /\ bridge = 0
    /\ \A a \in Client : actor[a].op # "enable"
    /\ actor' = [actor EXCEPT ![c] = Waiting("enable", "accounts", control.generation)]
    /\ UNCHANGED <<mailbox, control, connected, desk>>

Enabled(c) ==
    /\ Resumes(c, "accounts") /\ actor[c].op = "enable"
    /\ IF actor[c].current THEN EnableBridge ELSE UNCHANGED mailbox
    /\ actor' = [actor EXCEPT ![c] = Idle]
    /\ UNCHANGED <<control, connected, desk, budget>>

(* research_paper_start: a demo begins at once, broker quotes await the
   accounts first. *)
StartDemo(c) ==
    /\ Accept(c)
    /\ ~Stopping /\ ~ExecutionActive /\ Free("demo")
    /\ StartAgent
    /\ UNCHANGED <<mailbox, control, connected, actor>>

StartPaper(c) ==
    /\ Accept(c)
    /\ ~Stopping /\ ~ExecutionActive /\ Free("broker")
    /\ actor' = [actor EXCEPT ![c] = Waiting("paper", "accounts", control.generation)]
    /\ UNCHANGED <<mailbox, control, connected, desk>>

PaperStarted(c) ==
    /\ Resumes(c, "accounts") /\ actor[c].op = "paper"
    /\ IF actor[c].current /\ control.generation = actor[c].generation
          /\ ~ExecutionActive /\ Free("broker")
       THEN StartAgent
       ELSE UNCHANGED desk
    /\ actor' = [actor EXCEPT ![c] = Idle]
    /\ UNCHANGED <<mailbox, control, connected, budget>>

StopPaper(c) ==
    /\ Accept(c)
    /\ agent' = StoppedAgent
    /\ actor' = Counted(c, Waiting("paper_stop", "joining", control.generation), {"paper"})
    /\ UNCHANGED <<mailbox, control, connected, runs>>

(* connect, when the broker is not connected: the desk is closed with the old
   broker object before a new one is made, and waits for its last run, which
   is not followed here.  One connect at a time. *)
Connecting == \E a \in Actor : actor[a].pc = "connecting"

CloseResearch(a, g) ==
    /\ ~connected /\ ~Connecting
    /\ DisableBridge /\ UNCHANGED poll
    /\ agent' = "idle"
    /\ actor' = Counted(a, Waiting(IF a = Runner THEN "run" ELSE "connect", "connecting", g), Revised)
    /\ UNCHANGED <<control, connected, runs>>

Connect(c) ==
    /\ Accept(c)
    /\ ~Stopping
    /\ CloseResearch(c, control.generation)

(* The accounts are read.  A connect that fails ends as one out of time does,
   and a runner's ends the runner. *)
Connected(a) ==
    /\ Resumes(a, "connecting")
    /\ connected' = TRUE
    /\ actor' = [actor EXCEPT ![a] = IF a = Runner THEN [@ EXCEPT !.pc = "ready"] ELSE Idle]
    /\ UNCHANGED <<mailbox, control, desk, budget>>

(* The request's deadline cancels a handler wherever it waits. *)
Deadline(c) ==
    /\ ~poll.open
    /\ actor[c] # Idle
    /\ actor' = [actor EXCEPT ![c] = Idle]
    /\ UNCHANGED <<mailbox, control, connected, desk, budget>>

-----------------------------------------------------------------------------
(* The runner: run() of the runtime *)

(* Mutant: the runner relies on the research that start has stopped. *)
RunGoesOn ==
    /\ Resumes(Runner, "launched")
    /\ actor' = [actor EXCEPT ![Runner].pc = "ready"]
    /\ UNCHANGED <<mailbox, control, connected, desk, budget>>

(* Research is stopped again, now that the record says running. *)
RunStopsResearch ==
    /\ Resumes(Runner, "launched")
    /\ StopResearch(Runner, "run", actor[Runner].generation)
    /\ UNCHANGED <<control, connected, budget>>

RunConnects ==
    /\ Resumes(Runner, "ready")
    /\ CloseResearch(Runner, actor[Runner].generation)
    /\ UNCHANGED budget

(* The engine is armed, or recovered, under the permission of the record. *)
RunTrades ==
    /\ Resumes(Runner, "ready")
    /\ connected
    /\ MaySubmit(control, actor[Runner].generation, control.scope)
    /\ actor' = [actor EXCEPT ![Runner].pc = "trading"]
    /\ UNCHANGED <<mailbox, control, connected, desk, budget>>

(* Cancelled, refused or failed, at any await, with its done callback: its own
   session is fenced, and research revoked unless a newer one has begun. *)
RunEnds ==
    /\ ~poll.open
    /\ actor[Runner] # Idle
    /\ control' = StoppedBy(control, actor[Runner].generation)
    /\ IF ~control'.running /\ control'.generation = actor[Runner].generation + 1
       THEN Disable /\ UNCHANGED poll /\ actor' = Counted(Runner, Idle, Revised)
       ELSE UNCHANGED <<mailbox, desk>> /\ actor' = [actor EXCEPT ![Runner] = Idle]
    /\ UNCHANGED <<connected, budget>>

-----------------------------------------------------------------------------
(* The mailbox's owner: _poll and _command *)

Poll ==
    /\ ~poll.open
    /\ BeginPoll
    /\ UNCHANGED <<control, connected, desk, actor, budget>>

(* A request starts or stops research, changes a setting, or is refused. *)
HandleRequest(q) ==
    /\ Handled(q)
    /\ \/ UNCHANGED desk
       \/ connected /\ ~ExecutionActive /\ Free("demo") /\ StartAgent
       \/ connected /\ agent' = StoppedAgent /\ UNCHANGED runs
    /\ UNCHANGED <<control, connected, actor, budget>>

PollDone ==
    /\ CommitPoll
    /\ UNCHANGED <<control, connected, desk, actor, budget>>

(* Mutant: a failed transaction is tried again with the next poll. *)
PollFailsOnce ==
    /\ poll.open /\ poll' = NoPoll
    /\ UNCHANGED <<bridge, file, senders, minted, handled, control, connected, desk, actor, budget>>

(* The session in the file is another one, or the transaction is rolled back:
   the mailbox is revoked, not tried again. *)
PollFails ==
    /\ poll.open \/ (bridge # 0 /\ session # bridge)
    /\ poll' = NoPoll
    /\ Disable
    /\ actor' = [a \in Actor |-> IF actor[a].op \in Revised THEN [actor[a] EXCEPT !.current = FALSE]
                                 ELSE actor[a]]
    /\ UNCHANGED <<control, connected, budget>>

-----------------------------------------------------------------------------
(* What happens to the process *)

LoseBroker ==
    /\ ~poll.open
    /\ connected /\ connected' = FALSE
    /\ UNCHANGED <<mailbox, control, desk, actor, budget>>

(* Another process records a stop (worker_status.py). *)
Fence ==
    /\ budget > 0 /\ budget' = budget - 1
    /\ control' = Stopped(control)
    /\ UNCHANGED <<mailbox, connected, desk, actor>>

(* The process dies, perhaps in a poll, and the next one recovers a session
   that was running, or fences it. *)
Restart ==
    /\ budget > 0 /\ budget' = budget - 1
    /\ bridge' = 0 /\ poll' = NoPoll
    /\ connected' = FALSE
    /\ agent' = "idle"
    /\ \/ /\ control.running
          /\ actor' = [a \in Actor |-> IF a = Runner
                          THEN [Idle EXCEPT !.op = "run", !.pc = "launched", !.generation = control.generation]
                          ELSE Idle]
          /\ UNCHANGED control
       \/ /\ control' = IF control.running THEN Stopped(control) ELSE control
          /\ actor' = [a \in Actor |-> Idle]
    /\ UNCHANGED <<file, senders, minted, handled, runs>>

-----------------------------------------------------------------------------
Outside == UNCHANGED <<control, connected, desk, actor, budget>>

Next ==
    \/ \E q \in Request : (Sender(q) /\ Outside) \/ HandleRequest(q)
    \/ (HeartbeatLapses /\ Outside)
    \/ \E c \in Client :
          \/ Start(c) \/ Launch(c) \/ Stop(c) \/ DisableResearch(c) \/ Reply(c)
          \/ Enable(c) \/ Enabled(c) \/ StartDemo(c) \/ StartPaper(c) \/ PaperStarted(c)
          \/ StopPaper(c) \/ Connect(c) \/ Deadline(c)
    \/ \E a \in Actor : PollEnded(a) \/ Joined(a) \/ Connected(a)
    \/ RunStopsResearch \/ RunConnects \/ RunTrades \/ RunEnds
    \/ AgentStops \/ AgentEnds
    \/ Poll \/ PollDone \/ PollFails
    \/ LoseBroker \/ Fence \/ Restart

Spec == Init /\ [][Next]_vars

-----------------------------------------------------------------------------
(* Properties *)

(* Every variable holds a value of its kind. *)
TypeOK ==
    /\ BridgeTypeOK
    /\ control \in Control
    /\ connected \in BOOLEAN
    /\ agent \in {"idle", "running", "unwinding"}
    /\ runs \in 0..Runs
    /\ actor \in [Actor -> ActorRecord]
    /\ budget \in 0..Commands

(* docs/RESEARCH.md: "Paper research is stopped before a live mixed session
   starts and cannot run alongside that session."  No research run, not even
   one that is unwinding, and no open mailbox while the engine trades. *)
ResearchYields == Trading => bridge = 0 /\ agent = "idle"

(* A request takes effect at most once, under the session that was valid when
   it was sent, and never after its sender was told that it is discarded;
   whatever fails, crashes or is enabled again between sending and answer. *)
HandledOnce ==
    [][\A q \in Request :
          handled'[q] # handled[q] =>
              /\ handled[q] = 0
              /\ session = joined[q] /\ bridge = joined[q]
              /\ sender[q] # "discarded"]_vars

=============================================================================
