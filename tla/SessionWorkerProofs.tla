------------------------- MODULE SessionWorkerProofs -------------------------
(***************************************************************************)
(* The safety properties of SessionWorker for every set of clients and     *)
(* scopes and any number of requests and restarts.  None of the invariants *)
(* of the runs is inductive alone: that a start never meets a live runner, *)
(* for instance, needs that the record it was approved under has not       *)
(* changed.  WorkerInv adds the three facts that make them inductive.      *)
(***************************************************************************)
EXTENDS SessionWorker, TLAPS

(* A task is never newer than the record, and a task that is done is not
   alive.  Recovery has launched nothing before the process is ready. *)
TasksIdentified ==
    /\ \A r \in runners \cup ended \cup {task} : r.generation <= control.generation
    /\ runners \cap ended = {}
    /\ process # "ready" => \A r \in runners \cup ended : ~r.recovered

(* While a stop or a shutdown is in progress the record says stopped. *)
StopsFence == Stopping \/ shuttingDown => ~control.running

(* A start in progress was approved, and as long as its record is current no
   runner is alive. *)
StartsCurrent ==
    \A c \in Client : handler[c].pc = "starting" =>
        /\ handler[c].expected <= control.generation
        /\ handler[c].expected = control.generation /\ ~control.running => task \notin runners
        /\ handler[c].scope \in Scope /\ permit[handler[c].scope] # "missing"

WorkerInv ==
    /\ TypeOK
    /\ OneRunner
    /\ RunningHasRunner
    /\ RunningScopeApproved
    /\ TasksIdentified
    /\ StopsFence
    /\ StartsCurrent

-----------------------------------------------------------------------------
(* The record operators of WorkerControl. *)

LEMMA ControlOperators ==
    ASSUME NEW c \in Control
    PROVE  /\ Stopped(c) \in Control
           /\ Stopped(c).generation = c.generation + 1 /\ ~Stopped(c).running
           /\ Stopped(c).scope = c.scope
           /\ Started(c) \in Control
           /\ Started(c).generation = c.generation + 1 /\ Started(c).running
           /\ Started(c).scope = c.scope
           /\ \A g \in Nat : StoppedBy(c, g) \in Control
           /\ \A s \in Scope : /\ Reviewed(c, s) \in Control
                               /\ Reviewed(c, s).generation = c.generation + 1
                               /\ ~Reviewed(c, s).running
<1>1. c.generation + 1 \in Nat
  BY DEF Control
<1>2. /\ Stopped(c) \in Control
      /\ Stopped(c).generation = c.generation + 1 /\ ~Stopped(c).running
      /\ Stopped(c).scope = c.scope
  <2>1. PICK n \in Nat : n = c.generation + 1
    BY <1>1
  <2>2. Stopped(c) = [c EXCEPT !.generation = n, !.running = FALSE]
    BY <2>1 DEF Stopped
  <2> QED
    BY <2>1, <2>2 DEF Control
<1>3. /\ Started(c) \in Control
      /\ Started(c).generation = c.generation + 1 /\ Started(c).running
      /\ Started(c).scope = c.scope
  <2>1. PICK n \in Nat : n = c.generation + 1
    BY <1>1
  <2>2. Started(c) = [c EXCEPT !.generation = n, !.running = TRUE]
    BY <2>1 DEF Started
  <2> QED
    BY <2>1, <2>2 DEF Control
<1>4. \A g \in Nat : StoppedBy(c, g) \in Control
  BY <1>2 DEF StoppedBy
<1>5. \A s \in Scope : /\ Reviewed(c, s) \in Control
                       /\ Reviewed(c, s).generation = c.generation + 1
                       /\ ~Reviewed(c, s).running
  BY <1>1 DEF Reviewed, Control
<1> QED
  BY <1>2, <1>3, <1>4, <1>5

-----------------------------------------------------------------------------
(* Type correctness *)

LEMMA InitType == Init => TypeOK
<1> SUFFICES ASSUME Init PROVE TypeOK
  OBVIOUS
<1>1. control \in Control
  BY DEF Init, InitialControl, Control
<1>2. Idle \in Handler
  BY DEF Idle, Handler, NoTask, Runner
<1>3. handler \in [Actor -> Handler]
  BY <1>2 DEF Init
<1>4. permit \in [Scope -> {"missing", "granted", "revoked"}] /\ task \in Runner
  BY DEF Init, NoTask, Runner
<1>5. budget \in 0..Requests /\ restarts \in 0..Restarts
  BY RequestsAssumption, RestartsAssumption DEF Init
<1> QED
  BY <1>1, <1>3, <1>4, <1>5 DEF Init, TypeOK

LEMMA HoldType ==
    ASSUME TypeOK, NEW a \in Actor, NEW op \in {"review", "start", "stop", "revoke", "shutdown", "close"},
           NEW pc \in {"reviewing", "starting", "fenced"}, NEW s \in Scope \cup {NoScope},
           Hold(a, op, pc, s)
    PROVE  handler' \in [Actor -> Handler]
  BY DEF TypeOK, Hold, Handler, Control, Runner

LEMMA ReplyType ==
    ASSUME TypeOK, NEW a \in Actor, Reply(a)
    PROVE  handler' \in [Actor -> Handler]
<1>1. Idle \in Handler
  BY DEF Idle, Handler, NoTask, Runner
<1> QED
  BY <1>1 DEF TypeOK, Reply

LEMMA LaunchType ==
    ASSUME TypeOK, NEW g \in Nat, NEW recovered \in BOOLEAN, Launch(g, recovered)
    PROVE  runners' \subseteq Runner /\ runners \subseteq runners' /\ task' \in Runner
  BY DEF TypeOK, Launch, Runner

LEMMA ClientType ==
    ASSUME TypeOK, NEW c \in Client, Command(c) \/ Continue(c) \/ Deadline(c)
    PROVE  TypeOK'
<1> USE DEF durable, tasks, lifetime, bounds, Actor
<1>0. /\ control \in Control /\ control.scope \in Scope \cup {NoScope} /\ control.generation \in Nat
      /\ \A n \in 0..Requests : n > 0 => n - 1 \in 0..Requests
  BY RequestsAssumption DEF TypeOK, Control
<1>1. ASSUME NEW s \in Scope, BeginReview(c, s) PROVE TypeOK'
  <2>1. handler' \in [Actor -> Handler]
    BY <1>1, HoldType DEF BeginReview
  <2> QED
    BY <1>0, <1>1, <2>1 DEF TypeOK, BeginReview, Accept
<1>2. CASE Authorize(c)
  BY <1>0, <1>2 DEF TypeOK, Authorize, Accept
<1>3. CASE BeginStart(c)
  <2>1. handler' \in [Actor -> Handler]
    BY <1>0, <1>3, HoldType DEF BeginStart
  <2> QED
    BY <1>0, <1>3, <2>1 DEF TypeOK, BeginStart, Accept
<1>4. ASSUME NEW op \in {"stop", "revoke", "shutdown"}, BeginStop(c, op) PROVE TypeOK'
  <2>1. handler' \in [Actor -> Handler]
    BY <1>0, <1>4, HoldType DEF BeginStop
  <2>2. control' \in Control
    BY <1>0, <1>4, ControlOperators DEF BeginStop
  <2> QED
    BY <1>0, <1>4, <2>1, <2>2 DEF TypeOK, BeginStop, Accept
<1>5. CASE EndReview(c)
  <2>1. handler' \in [Actor -> Handler]
    BY <1>5, ReplyType DEF EndReview
  <2>2. control' \in Control
    BY <1>0, <1>5 DEF EndReview, TypeOK, Handler, Reviewed, Control
  <2> QED
    BY <1>5, <2>1, <2>2 DEF TypeOK, EndReview
<1>6. CASE EndStart(c)
  <2>1. handler' \in [Actor -> Handler]
    BY <1>6, ReplyType DEF EndStart
  <2>2. control' \in Control /\ control'.generation \in Nat
    BY <1>0, <1>6, ControlOperators DEF EndStart, Control
  <2>3. runners' \subseteq Runner /\ runners \subseteq runners' /\ task' \in Runner
    BY <1>6, <2>2, LaunchType DEF EndStart
  <2>4. budget' \in 0..Requests
    BY <1>0, <1>6 DEF EndStart, TypeOK
  <2> QED
    BY <1>6, <2>1, <2>2, <2>3, <2>4 DEF TypeOK, EndStart
<1>7. CASE StartRefused(c)
  BY <1>7, ReplyType DEF TypeOK, StartRefused
<1>8. CASE EndStop(c)
  <2>1. handler' \in [Actor -> Handler]
    BY <1>8, ReplyType DEF EndStop
  <2>2. permit' \in [Scope -> {"missing", "granted", "revoked"}]
    BY <1>8 DEF TypeOK, EndStop, Permitted
  <2> QED
    BY <1>8, <2>1, <2>2 DEF TypeOK, EndStop
<1>9. CASE EndShutdownStop(c)
  BY <1>9 DEF TypeOK, EndShutdownStop, Handler
<1>10. CASE RequestExit(c)
  BY <1>10, ReplyType DEF TypeOK, RequestExit
<1>11. CASE Deadline(c)
  BY <1>11, ReplyType DEF TypeOK, Deadline
<1> QED
  BY <1>1, <1>2, <1>3, <1>4, <1>5, <1>6, <1>7, <1>8, <1>9, <1>10, <1>11 DEF Command, Continue

LEMMA NextType == TypeOK /\ [Next]_vars => TypeOK'
<1> SUFFICES ASSUME TypeOK, [Next]_vars PROVE TypeOK'
  OBVIOUS
<1> USE DEF durable, tasks, lifetime, bounds
<1>0. /\ control \in Control /\ control.scope \in Scope \cup {NoScope} /\ control.generation \in Nat
      /\ \A n \in 0..Requests : n > 0 => n - 1 \in 0..Requests
      /\ \A n \in 0..Restarts : n > 0 => n - 1 \in 0..Restarts
  BY RequestsAssumption, RestartsAssumption DEF TypeOK, Control
<1>1. CASE \E c \in Client : Command(c) \/ Continue(c) \/ Deadline(c)
  BY <1>1, ClientType
<1>2. ASSUME NEW a \in Actor, JoinRunner(a) PROVE TypeOK'
  <2>1. handler' \in [Actor -> Handler]
    <3> DEFINE joined == IF handler[a].joins \in runners THEN handler[a].joins ELSE NoTask
    <3>1. joined \in Runner /\ handler[a] \in Handler
      BY DEF TypeOK, Handler, NoTask, Runner
    <3>2. handler' = [handler EXCEPT ![a] = [handler[a] EXCEPT !.pc = "joining", !.joins = joined]]
      BY <1>2 DEF TypeOK, JoinRunner
    <3>3. [handler[a] EXCEPT !.pc = "joining", !.joins = joined] \in Handler
      BY <3>1 DEF Handler
    <3> QED
      BY <3>2, <3>3 DEF TypeOK
  <2> QED
    BY <1>2, <2>1 DEF TypeOK, JoinRunner
<1>3. ASSUME NEW r \in runners, RunnerEnds(r) PROVE TypeOK'
  BY <1>3 DEF TypeOK, RunnerEnds
<1>4. ASSUME NEW r \in ended, Finished(r) PROVE TypeOK'
  <2>1. control' \in Control
    BY <1>4, ControlOperators DEF Finished, TypeOK, Runner
  <2>2. task' \in Runner
    <3>1. NoTask \in Runner /\ task \in Runner
      BY DEF TypeOK, NoTask, Runner
    <3>2. task' = NoTask \/ task' = task
      BY <1>4 DEF Finished
    <3> QED
      BY <3>1, <3>2
  <2> QED
    BY <1>4, <2>1, <2>2 DEF TypeOK, Finished
<1>5. ASSUME NEW recovering \in BOOLEAN, Boot(recovering) PROVE TypeOK'
  BY <1>0, <1>5 DEF TypeOK, Boot
<1>6. CASE Recover
  <2>1. control' \in Control
    BY <1>0, <1>6, ControlOperators DEF Recover
  <2>2. runners' \subseteq Runner /\ runners \subseteq runners' /\ task' \in Runner
    <3>1. CASE UNCHANGED <<runners, task>>
      BY <3>1 DEF TypeOK
    <3>2. CASE Launch(control.generation, TRUE)
      BY <1>0, <3>2, LaunchType
    <3> QED
      BY <1>6, <3>1, <3>2 DEF Recover
  <2> QED
    BY <1>6, <2>1, <2>2 DEF TypeOK, Recover
<1>7. CASE BeginExit
  <2>1. handler' \in [Actor -> Handler]
    BY <1>7, HoldType DEF BeginExit, Actor
  <2>2. control' \in Control
    BY <1>0, <1>7, ControlOperators DEF BeginExit
  <2> QED
    BY <1>7, <2>1, <2>2 DEF TypeOK, BeginExit
<1>8. CASE Gone
  <2>1. Idle \in Handler /\ NoTask \in Runner
    BY DEF Idle, Handler, NoTask, Runner
  <2> QED
    BY <1>8, <2>1 DEF TypeOK, Gone
<1>9. CASE EmergencyStop
  BY <1>0, <1>9, ControlOperators DEF TypeOK, EmergencyStop
<1>10. CASE UNCHANGED vars
  BY <1>10 DEF TypeOK, vars
<1> QED
  BY <1>1, <1>2, <1>3, <1>4, <1>5, <1>6, <1>7, <1>8, <1>9, <1>10 DEF Next, ExitEnds, Crash

(* Type correctness of the worker for every value of its constants. *)
THEOREM WorkerTypeCorrect == Spec => []TypeOK
  BY InitType, NextType, PTL DEF Spec

-----------------------------------------------------------------------------
(* Steps as the record, the tasks and the process see them. *)

(* The record stays or is replaced by one that does not run. *)
Fencing == control' = control \/ (control'.generation = control.generation + 1 /\ ~control'.running)

PermitsStay == \A s \in Scope : permit[s] # "missing" => permit'[s] # "missing"

Quiet == UNCHANGED <<runners, ended, task, process>> /\ Fencing /\ PermitsStay

StepShape ==
    \/ Quiet
    \/ \E c \in Client : EndStart(c)
    \/ \E r \in runners : RunnerEnds(r)
    \/ \E r \in ended : Finished(r)
    \/ \E recovering \in BOOLEAN : Boot(recovering)
    \/ Recover
    \/ Gone

LEMMA ShapeOfStep == TypeOK /\ [Next]_vars => StepShape
<1> SUFFICES ASSUME TypeOK, [Next]_vars PROVE StepShape
  OBVIOUS
<1> USE DEF durable, tasks, lifetime, bounds
<1>0. control \in Control
  BY DEF TypeOK
<1>1. ASSUME NEW c \in Client, Command(c) \/ EndReview(c) \/ StartRefused(c) \/ EndStop(c)
                                 \/ EndShutdownStop(c) \/ RequestExit(c) \/ Deadline(c)
      PROVE  Quiet
  <2>1. ASSUME NEW s \in Scope, BeginReview(c, s) PROVE Quiet
    BY <2>1 DEF BeginReview, Quiet, Fencing, PermitsStay
  <2>2. CASE Authorize(c)
    BY <2>2 DEF Authorize, Quiet, Fencing, PermitsStay, TypeOK
  <2>3. CASE BeginStart(c)
    BY <2>3 DEF BeginStart, Quiet, Fencing, PermitsStay
  <2>4. ASSUME NEW op \in {"stop", "revoke", "shutdown"}, BeginStop(c, op) PROVE Quiet
    BY <1>0, <2>4, ControlOperators DEF BeginStop, Quiet, Fencing, PermitsStay
  <2>5. CASE EndReview(c)
    <3>1. control' = control \/ control' = Reviewed(control, handler[c].scope)
      BY <2>5 DEF EndReview
    <3>2. Fencing
      BY <1>0, <3>1 DEF Fencing, Reviewed
    <3> QED
      BY <2>5, <3>2 DEF EndReview, Quiet, PermitsStay
  <2>6. CASE StartRefused(c) \/ EndShutdownStop(c) \/ RequestExit(c) \/ Deadline(c)
    BY <2>6 DEF StartRefused, EndShutdownStop, RequestExit, Deadline, Quiet, Fencing, PermitsStay
  <2>7. CASE EndStop(c)
    <3>1. PermitsStay
      BY <2>7 DEF EndStop, PermitsStay, TypeOK
    <3> QED
      BY <2>7, <3>1 DEF EndStop, Quiet, Fencing
  <2> QED
    BY <1>1, <2>1, <2>2, <2>3, <2>4, <2>5, <2>6, <2>7 DEF Command
<1>2. ASSUME NEW a \in Actor, JoinRunner(a) PROVE Quiet
  BY <1>2 DEF JoinRunner, Quiet, Fencing, PermitsStay
<1>3. ASSUME BeginExit \/ EmergencyStop PROVE Quiet
  BY <1>0, <1>3, ControlOperators DEF BeginExit, EmergencyStop, Quiet, Fencing, PermitsStay
<1>4. ASSUME UNCHANGED vars PROVE Quiet
  BY <1>4 DEF vars, Quiet, Fencing, PermitsStay
<1> QED
  BY <1>1, <1>2, <1>3, <1>4 DEF Next, Continue, ExitEnds, Crash, StepShape

LEMMA LaunchEffect ==
    ASSUME OneRunner, NEW g, NEW recovered, Launch(g, recovered)
    PROVE  \/ task \in runners /\ UNCHANGED <<runners, task>>
           \/ /\ task \notin runners /\ runners = {}
              /\ task' = [generation |-> g, recovered |-> recovered]
              /\ runners' = {task'}
  BY DEF OneRunner, Launch

LEMMA StartEffect ==
    ASSUME TypeOK, OneRunner, NEW c \in Client, EndStart(c)
    PROVE  /\ control'.generation \in Nat /\ control'.generation > control.generation
           /\ control'.running => control'.generation = control.generation + 1
           /\ control'.scope = control.scope
           /\ Launch(control'.generation, FALSE)
           /\ UNCHANGED <<permit, ended, process, shuttingDown>>
<1>1. control \in Control
  BY DEF TypeOK
<1>2. control' = Started(control) \/ control' = Stopped(Started(control))
  BY DEF EndStart
<1>3. Started(control) \in Control
  BY <1>1, ControlOperators
<1>4. control.generation \in Nat /\ Started(control).generation = control.generation + 1
      /\ Started(control).scope = control.scope
  BY <1>1, ControlOperators DEF Control
<1>5. Stopped(Started(control)).generation = Started(control).generation + 1
      /\ ~Stopped(Started(control)).running
      /\ Stopped(Started(control)).scope = Started(control).scope
  BY <1>3, ControlOperators
<1>6. /\ control'.generation \in Nat /\ control'.generation > control.generation
      /\ control'.running => control'.generation = control.generation + 1
      /\ control'.scope = control.scope
  BY <1>2, <1>4, <1>5
<1>7. Launch(control'.generation, FALSE) /\ UNCHANGED <<permit, ended, process, shuttingDown>>
  BY DEF EndStart, lifetime
<1> QED
  BY <1>6, <1>7

-----------------------------------------------------------------------------
(* The inductive steps *)

LEMMA RunnerStep ==
    ASSUME TypeOK, OneRunner, TasksIdentified, StepShape
    PROVE  OneRunner' /\ TasksIdentified'
<1> USE DEF OneRunner, TasksIdentified
<1>0. /\ control.generation \in Nat /\ task.generation \in Nat
      /\ \A r \in runners \cup ended : r.generation \in Nat
  BY DEF TypeOK, Control, Runner
<1>1. CASE Quiet
  <2>1. control'.generation >= control.generation /\ control'.generation \in Nat
    BY <1>0, <1>1 DEF Quiet, Fencing
  <2> QED
    BY <1>0, <1>1, <2>1 DEF Quiet
<1>2. ASSUME NEW c \in Client, EndStart(c) PROVE OneRunner' /\ TasksIdentified'
  <2>1. control'.generation \in Nat /\ control'.generation > control.generation
        /\ UNCHANGED <<ended, process>>
    BY <1>2, StartEffect
  <2>2. CASE task \in runners /\ UNCHANGED <<runners, task>>
    BY <1>0, <2>1, <2>2
  <2>3. CASE task' = [generation |-> control'.generation, recovered |-> FALSE] /\ runners' = {task'}
    <3>1. task' \notin ended
      BY <1>0, <2>1, <2>3
    <3>2. \A r \in ended : r.generation <= control'.generation
      BY <1>0, <2>1
    <3>3. task'.generation <= control'.generation /\ ~task'.recovered
      BY <2>1, <2>3
    <3> QED
      BY <2>1, <2>3, <3>1, <3>2, <3>3
  <2> QED
    BY <1>2, <2>2, <2>3, StartEffect, LaunchEffect
<1>3. ASSUME NEW r \in runners, RunnerEnds(r) PROVE OneRunner' /\ TasksIdentified'
  BY <1>3 DEF RunnerEnds, durable, lifetime
<1>4. ASSUME NEW r \in ended, Finished(r) PROVE OneRunner' /\ TasksIdentified'
  <2>1. control'.generation >= control.generation /\ control'.generation \in Nat
    <3>1. control' = control \/ control' = Stopped(control)
      BY <1>4 DEF Finished, StoppedBy
    <3> QED
      BY <1>0, <3>1, ControlOperators DEF TypeOK
  <2>2. task' = task \/ (task = r /\ task' = NoTask)
    BY <1>4 DEF Finished
  <2>3. task'.generation <= control'.generation
    BY <1>0, <2>1, <2>2 DEF NoTask
  <2>4. runners' = runners /\ ended' = ended \ {r} /\ process' = process
    BY <1>4 DEF Finished, lifetime
  <2>5. \A q \in runners \cup ended : q.generation <= control'.generation
    BY <1>0, <2>1
  <2>6. runners' \subseteq {task'}
    BY <2>2, <2>4
  <2> QED
    BY <2>3, <2>4, <2>5, <2>6
<1>5. ASSUME NEW recovering \in BOOLEAN, Boot(recovering) PROVE OneRunner' /\ TasksIdentified'
  BY <1>5 DEF Boot, durable, tasks
<1>6. CASE Recover
  <2>1. process = "serving" /\ process' = "ready" /\ ended' = ended
    BY <1>6 DEF Recover
  <2>2. CASE UNCHANGED <<runners, task>>
    <3>1. control'.generation >= control.generation /\ control'.generation \in Nat
      <4>1. control' = control \/ control' = Stopped(control)
        BY <1>6 DEF Recover
      <4> QED
        BY <1>0, <4>1, ControlOperators DEF TypeOK
    <3>2. \A q \in runners \cup ended \cup {task} : q.generation <= control'.generation
      BY <1>0, <3>1
    <3> QED
      BY <2>1, <2>2, <3>2
  <2>3. CASE Launch(control.generation, TRUE) /\ UNCHANGED control
    <3>1. CASE task \in runners /\ UNCHANGED <<runners, task>>
      BY <2>1, <2>3, <3>1
    <3>2. CASE task' = [generation |-> control.generation, recovered |-> TRUE] /\ runners' = {task'}
      BY <1>0, <2>1, <2>3, <3>2
    <3> QED
      BY <2>3, <3>1, <3>2, LaunchEffect
  <2> QED
    BY <1>6, <2>2, <2>3 DEF Recover
<1>7. CASE Gone
  BY <1>0, <1>7 DEF Gone, NoTask, durable
<1> QED
  BY <1>1, <1>2, <1>3, <1>4, <1>5, <1>6, <1>7 DEF StepShape

LEMMA FenceStep ==
    ASSUME TypeOK, OneRunner, StopsFence, [Next]_vars
    PROVE  StopsFence'
<1> USE DEF StopsFence, durable, tasks, lifetime, bounds
<1>0. /\ control \in Control /\ ~Stopped(control).running
      /\ handler \in [Actor -> Handler] /\ Client \subseteq Actor /\ Main \in Actor
      /\ Idle.pc = "idle"
  BY ControlOperators DEF TypeOK, Actor, Idle
<1>1. ASSUME NEW c \in Client, EndStart(c) PROVE StopsFence'
  <2>1. ~Stopping /\ ~shuttingDown /\ shuttingDown' = shuttingDown
    BY <1>1 DEF EndStart
  <2>2. ~Stopping'
    BY <1>0, <1>1, <2>1 DEF EndStart, Reply, Stopping
  <2> QED
    BY <2>1, <2>2
<1>2. ASSUME NEW c \in Client, NEW op \in {"stop", "revoke", "shutdown"}, BeginStop(c, op)
      PROVE  StopsFence'
  BY <1>0, <1>2 DEF BeginStop
<1>3. CASE BeginExit \/ EmergencyStop
  BY <1>0, <1>3 DEF BeginExit, EmergencyStop
<1>6. ASSUME NEW c \in Client, NEW s \in Scope, BeginReview(c, s) PROVE StopsFence'
  BY <1>0, <1>6 DEF BeginReview, Hold, Stopping
<1>7. ASSUME NEW c \in Client, BeginStart(c) PROVE StopsFence'
  BY <1>0, <1>7 DEF BeginStart, Hold, Stopping
<1>8. ASSUME NEW c \in Client, Authorize(c) PROVE StopsFence'
  BY <1>8 DEF Authorize, Stopping
<1>9. ASSUME NEW c \in Client, EndReview(c) PROVE StopsFence'
  <2>1. ~control'.running \/ control' = control
    BY <1>9 DEF EndReview, Reviewed
  <2>2. Stopping' => Stopping
    BY <1>0, <1>9 DEF EndReview, Reply, Stopping
  <2> QED
    BY <1>9, <2>1, <2>2 DEF EndReview
<1>10. ASSUME NEW c \in Client,
              StartRefused(c) \/ EndStop(c) \/ EndShutdownStop(c) \/ RequestExit(c) \/ Deadline(c)
       PROVE  StopsFence'
  <2>1. Stopping' => Stopping
    <3>1. CASE Reply(c)
      BY <1>0, <3>1 DEF Reply, Stopping
    <3>2. CASE EndShutdownStop(c)
      BY <1>0, <3>2 DEF EndShutdownStop, Joined, Stopping
    <3> QED
      BY <1>10, <3>1, <3>2 DEF StartRefused, EndStop, RequestExit, Deadline
  <2> QED
    BY <1>10, <2>1 DEF StartRefused, EndStop, EndShutdownStop, RequestExit, Deadline
<1>11. ASSUME NEW a \in Actor, JoinRunner(a) PROVE StopsFence'
  <2>1. Stopping
    BY <1>11 DEF JoinRunner, Stopping
  <2> QED
    BY <1>11, <2>1 DEF JoinRunner
<1>12. ASSUME NEW r \in runners, RunnerEnds(r) PROVE StopsFence'
  BY <1>12 DEF RunnerEnds, Stopping
<1>13. ASSUME NEW r \in ended, Finished(r) PROVE StopsFence'
  <2>1. control' = control \/ control' = Stopped(control)
    BY <1>13 DEF Finished, StoppedBy
  <2> QED
    BY <1>0, <1>13, <2>1 DEF Finished, Stopping
<1>14. ASSUME NEW recovering \in BOOLEAN, Boot(recovering) PROVE StopsFence'
  BY <1>14 DEF Boot, Stopping
<1>15. CASE Recover
  <2>1. control' = control \/ control' = Stopped(control)
    BY <1>15 DEF Recover
  <2> QED
    BY <1>0, <1>15, <2>1 DEF Recover, Stopping
<1>16. CASE Gone
  BY <1>0, <1>16 DEF Gone, Stopping
<1>17. CASE UNCHANGED vars
  BY <1>17 DEF vars, Stopping
<1> QED
  BY <1>1, <1>2, <1>3, <1>6, <1>7, <1>8, <1>9, <1>10, <1>11, <1>12, <1>13, <1>14, <1>15, <1>16, <1>17
  DEF Next, Command, Continue, ExitEnds, Crash

(* A start in progress keeps what it was approved for, and no other client's
   start is disturbed by a step that leaves the record running. *)
LEMMA StartsStep ==
    ASSUME TypeOK, OneRunner, TasksIdentified, StartsCurrent, [Next]_vars
    PROVE  StartsCurrent'
<1> USE DEF durable, tasks, lifetime, bounds
<1> DEFINE Kept(c) == handler[c].pc = "starting" /\ handler'[c] = handler[c]
           Sound(c) ==
               /\ handler[c].expected <= control.generation
               /\ handler[c].expected = control.generation /\ ~control.running => task \notin runners
               /\ handler[c].scope \in Scope /\ permit[handler[c].scope] # "missing"
<1>0. /\ control \in Control /\ control.generation \in Nat
      /\ handler \in [Actor -> Handler] /\ Client \subseteq Actor /\ Main \in Actor /\ Main \notin Client
      /\ \A c \in Client : handler[c].expected \in Nat
      /\ Idle.pc = "idle"
  BY MainAssumption DEF TypeOK, Actor, Idle, Control, Handler
<1>1. \A c \in Client : handler[c].pc = "starting" => Sound(c)
  BY DEF StartsCurrent
<1>2. ASSUME Quiet, NEW c \in Client, Kept(c) PROVE Sound(c)'
  <2>1. control'.generation \in Nat /\ control'.generation >= control.generation
        /\ (control'.generation = control.generation => control' = control)
    BY <1>0, <1>2 DEF Quiet, Fencing
  <2>2. permit'[handler[c].scope] # "missing"
    BY <1>1, <1>2 DEF Quiet, PermitsStay
  <2> QED
    BY <1>0, <1>1, <1>2, <2>1, <2>2 DEF Quiet
<1>3. ASSUME Quiet, \A c \in Client : handler'[c].pc = "starting" => Kept(c) PROVE StartsCurrent'
  BY <1>2, <1>3 DEF StartsCurrent
<1>4. ASSUME NEW d \in Client, EndStart(d) PROVE StartsCurrent'
  <2>1. /\ control'.generation \in Nat /\ control'.generation > control.generation
        /\ UNCHANGED permit
    BY <1>4, StartEffect
  <2>2. \A c \in Client : handler'[c].pc = "starting" => Kept(c)
    BY <1>0, <1>4 DEF EndStart, Reply
  <2> QED
    BY <1>0, <1>1, <2>1, <2>2 DEF StartsCurrent
<1>5. ASSUME NEW r \in runners, RunnerEnds(r) PROVE StartsCurrent'
  BY <1>5 DEF RunnerEnds, StartsCurrent
<1>6. ASSUME NEW r \in ended, Finished(r) PROVE StartsCurrent'
  <2>1. control' = control \/ control' = Stopped(control)
    BY <1>6 DEF Finished, StoppedBy
  <2>2. control'.generation \in Nat /\ control'.generation >= control.generation
        /\ (control'.generation = control.generation => control' = control)
    BY <1>0, <2>1, ControlOperators
  <2>3. task' \in runners => task \in runners
    BY <1>6 DEF Finished, OneRunner, TasksIdentified
  <2>4. runners' = runners /\ permit' = permit /\ handler' = handler
    BY <1>6 DEF Finished
  <2> QED
    BY <1>0, <1>1, <2>2, <2>3, <2>4 DEF StartsCurrent
<1>7. ASSUME NEW recovering \in BOOLEAN, Boot(recovering) PROVE StartsCurrent'
  BY <1>7 DEF Boot, StartsCurrent
<1>8. CASE Recover
  <2>1. permit' = permit /\ handler' = handler
    BY <1>8 DEF Recover
  <2>2. \/ control' = control /\ (UNCHANGED <<runners, task>> \/ control.running)
        \/ control' = Stopped(control) /\ UNCHANGED <<runners, task>>
    BY <1>8 DEF Recover
  <2>3. control'.generation \in Nat /\ control'.generation >= control.generation
        /\ (control'.generation = control.generation => control' = control)
    BY <1>0, <2>2, ControlOperators
  <2>4. control' = control /\ ~control'.running => UNCHANGED <<runners, task>>
    BY <2>2
  <2> QED
    BY <1>0, <1>1, <2>1, <2>3, <2>4 DEF StartsCurrent
<1>9. CASE Gone
  BY <1>0, <1>9 DEF Gone, StartsCurrent
<1>10. ASSUME NEW d \in Client, BeginStart(d) PROVE StartsCurrent'
  <2>1. /\ handler'[d].pc = "starting" /\ handler'[d].expected = control.generation
        /\ handler'[d].scope = control.scope
    BY <1>0, <1>10 DEF BeginStart, Hold
  <2>2. \A c \in Client \ {d} : handler'[c] = handler[c]
    BY <1>0, <1>10 DEF BeginStart, Hold
  <2>3. UNCHANGED <<control, permit, runners, task>> /\ task \notin runners
        /\ control.scope \in Scope /\ permit[control.scope] # "missing"
    BY <1>10 DEF BeginStart, Permitted
  <2> QED
    BY <1>0, <1>1, <2>1, <2>2, <2>3 DEF StartsCurrent
<1>11. ASSUME NEW d \in Client,
              \/ \E s \in Scope : BeginReview(d, s)
              \/ Authorize(d)
              \/ \E op \in {"stop", "revoke", "shutdown"} : BeginStop(d, op)
              \/ EndReview(d) \/ StartRefused(d) \/ EndStop(d) \/ EndShutdownStop(d)
              \/ RequestExit(d) \/ Deadline(d)
       PROVE  \A c \in Client : handler'[c].pc = "starting" => Kept(c)
  <2>1. ASSUME NEW op, NEW pc \in {"reviewing", "fenced"}, NEW s, Hold(d, op, pc, s)
        PROVE  \A c \in Client : handler'[c].pc = "starting" => Kept(c)
    BY <1>0, <2>1 DEF Hold
  <2>2. ASSUME Reply(d) PROVE \A c \in Client : handler'[c].pc = "starting" => Kept(c)
    BY <1>0, <2>2 DEF Reply
  <2>3. CASE EndShutdownStop(d)
    BY <1>0, <2>3 DEF EndShutdownStop
  <2>4. CASE Authorize(d)
    BY <2>4 DEF Authorize
  <2> QED
    BY <1>11, <2>1, <2>2, <2>3, <2>4
    DEF BeginReview, BeginStop, EndReview, StartRefused, EndStop, RequestExit, Deadline
<1>12. ASSUME \/ \E a \in Actor : JoinRunner(a)
              \/ BeginExit \/ EmergencyStop \/ UNCHANGED vars
       PROVE  \A c \in Client : handler'[c].pc = "starting" => Kept(c)
  <2>1. CASE \E a \in Actor : JoinRunner(a)
    BY <1>0, <2>1 DEF JoinRunner
  <2>2. CASE BeginExit
    BY <1>0, <2>2 DEF BeginExit, Hold
  <2>3. CASE EmergencyStop \/ UNCHANGED vars
    BY <2>3 DEF EmergencyStop, vars
  <2> QED
    BY <1>12, <2>1, <2>2, <2>3
<1>13. CASE Quiet
  <2>1. CASE \E d \in Client : BeginStart(d)
    BY <1>10, <2>1
  <2>2. CASE \E d \in Client : EndStart(d)
    BY <1>4, <2>2
  <2>3. CASE \E r \in runners : RunnerEnds(r)
    BY <1>5, <2>3
  <2>4. CASE \E r \in ended : Finished(r)
    BY <1>6, <2>4
  <2>5. CASE (\E recovering \in BOOLEAN : Boot(recovering)) \/ Recover \/ Gone
    BY <1>7, <1>8, <1>9, <2>5
  <2> QED
    BY <1>3, <1>11, <1>12, <1>13, <2>1, <2>2, <2>3, <2>4, <2>5
    DEF Next, Command, Continue, ExitEnds, Crash
<1> QED
  BY <1>4, <1>5, <1>6, <1>7, <1>8, <1>9, <1>13, ShapeOfStep DEF StepShape

LEMMA ApprovedStep ==
    ASSUME TypeOK, OneRunner, StartsCurrent, RunningScopeApproved, StepShape
    PROVE  RunningScopeApproved'
<1> USE DEF RunningScopeApproved, durable, tasks, lifetime, bounds
<1>0. control \in Control
  BY DEF TypeOK
<1>1. CASE Quiet
  BY <1>1 DEF Quiet, Fencing, PermitsStay
<1>2. ASSUME NEW c \in Client, EndStart(c) PROVE RunningScopeApproved'
  <2>1. control'.scope = control.scope /\ permit' = permit
    BY <1>2, StartEffect
  <2>2. control.scope \in Scope /\ permit[control.scope] # "missing"
    BY <1>2 DEF EndStart, StartsCurrent, Startable
  <2> QED
    BY <2>1, <2>2
<1>3. ASSUME NEW r \in runners, RunnerEnds(r) PROVE RunningScopeApproved'
  BY <1>3 DEF RunnerEnds
<1>4. ASSUME NEW r \in ended, Finished(r) PROVE RunningScopeApproved'
  BY <1>0, <1>4, ControlOperators DEF Finished, StoppedBy
<1>5. ASSUME NEW recovering \in BOOLEAN, Boot(recovering) PROVE RunningScopeApproved'
  BY <1>5 DEF Boot
<1>6. CASE Recover
  BY <1>0, <1>6, ControlOperators DEF Recover
<1>7. CASE Gone
  BY <1>7 DEF Gone
<1> QED
  BY <1>1, <1>2, <1>3, <1>4, <1>5, <1>6, <1>7 DEF StepShape

LEMMA RunningStep ==
    ASSUME TypeOK, OneRunner, TasksIdentified, StopsFence, StartsCurrent, RunningHasRunner, StepShape
    PROVE  RunningHasRunner'
<1> USE DEF RunningHasRunner, durable, tasks, lifetime, bounds
<1>0. control \in Control
  BY DEF TypeOK
<1>1. CASE Quiet
  BY <1>1 DEF Quiet, Fencing
<1>2. ASSUME NEW c \in Client, EndStart(c) PROVE RunningHasRunner'
  <2>1. task \notin runners
    BY <1>2 DEF EndStart, Startable, StartsCurrent
  <2>2. task' = [generation |-> control'.generation, recovered |-> FALSE] /\ runners' = {task'}
    BY <1>2, <2>1, StartEffect, LaunchEffect
  <2> QED
    BY <2>2
<1>3. ASSUME NEW r \in runners, RunnerEnds(r) PROVE RunningHasRunner'
  BY <1>3 DEF RunnerEnds
<1>4. ASSUME NEW r \in ended, Finished(r) PROVE RunningHasRunner'
  <2>1. CASE task = r
    <3>1. control' = StoppedBy(control, task.generation) /\ process' = process
      BY <1>4, <2>1 DEF Finished
    <3> QED
      BY <1>0, <3>1, ControlOperators DEF StoppedBy
  <2>2. CASE task # r
    BY <1>4, <2>2 DEF Finished
  <2> QED
    BY <2>1, <2>2
<1>5. ASSUME NEW recovering \in BOOLEAN, Boot(recovering) PROVE RunningHasRunner'
  BY <1>5 DEF Boot
<1>6. CASE Recover
  <2>1. CASE ~control.running \/ Stopping \/ shuttingDown
    BY <1>6, <2>1 DEF Recover, StopsFence
  <2>2. CASE Launch(control.generation, TRUE) /\ UNCHANGED control /\ task \notin runners
    <3>1. task' = [generation |-> control.generation, recovered |-> TRUE] /\ runners' = {task'}
      BY <2>2, LaunchEffect
    <3> QED
      BY <2>2, <3>1
  <2>3. CASE control' = Stopped(control)
    BY <1>0, <2>3, ControlOperators
  <2> QED
    BY <1>6, <2>1, <2>2, <2>3 DEF Recover
<1>7. CASE Gone
  BY <1>7 DEF Gone
<1> QED
  BY <1>1, <1>2, <1>3, <1>4, <1>5, <1>6, <1>7 DEF StepShape

-----------------------------------------------------------------------------
(* Main theorems *)

LEMMA InvariantInit == Init => WorkerInv
<1> SUFFICES ASSUME Init PROVE WorkerInv
  OBVIOUS
<1>1. \A a \in Actor : handler[a].pc = "idle"
  BY DEF Init, Idle
<1>2. ~control.running /\ control.generation = 0 /\ task.generation = 0
  BY DEF Init, InitialControl, NoTask
<1>3. ~Stopping /\ Client \subseteq Actor
  BY <1>1 DEF Stopping, Actor
<1>4. StopsFence /\ RunningHasRunner /\ RunningScopeApproved
  BY <1>2 DEF StopsFence, RunningHasRunner, RunningScopeApproved
<1>5. StartsCurrent
  BY <1>1, <1>3 DEF StartsCurrent
<1>6. OneRunner /\ TasksIdentified
  BY <1>2 DEF Init, OneRunner, TasksIdentified
<1> QED
  BY <1>4, <1>5, <1>6, InitType DEF WorkerInv

LEMMA InvariantStep == WorkerInv /\ [Next]_vars => WorkerInv'
  BY NextType, ShapeOfStep, RunnerStep, FenceStep, StartsStep, ApprovedStep, RunningStep DEF WorkerInv

(* The inductive invariant holds in every reachable state of the worker. *)
THEOREM WorkerInvariant == Spec => []WorkerInv
  BY InvariantInit, InvariantStep, PTL DEF Spec

(* A recorded session always has its own runner: whatever clients command,
   whatever is cut off by a deadline and whenever processes crash, boot or
   fence the record from outside. *)
THEOREM RunningSessionHasRunner == Spec => []RunningHasRunner
<1>1. WorkerInv => RunningHasRunner
  BY DEF WorkerInv
<1> QED
  BY <1>1, WorkerInvariant, PTL

(* There is never a second runner, and never one that Stop cannot reach. *)
THEOREM OneRunnerAtATime == Spec => []OneRunner
<1>1. WorkerInv => OneRunner
  BY DEF WorkerInv
<1> QED
  BY <1>1, WorkerInvariant, PTL

(* Only a scope the user approved is ever run. *)
THEOREM ScopeIsApproved == Spec => []RunningScopeApproved
<1>1. WorkerInv => RunningScopeApproved
  BY DEF WorkerInv
<1> QED
  BY <1>1, WorkerInvariant, PTL

(* No runner is launched while a stop or a shutdown is in progress. *)
THEOREM StopExcludes == Spec => StopExcludesLaunch
<1>1. ASSUME WorkerInv, [Next]_vars
      PROVE  [shuttingDown \/ (\E a \in Actor : handler[a].pc \in {"fenced", "joining"})
                => runners' \subseteq runners]_vars
  <2> SUFFICES ASSUME Stopping \/ shuttingDown PROVE runners' \subseteq runners
    BY DEF Stopping
  <2>0. StepShape /\ TypeOK
    BY <1>1, ShapeOfStep DEF WorkerInv
  <2>1. ~\E c \in Client : EndStart(c)
    BY DEF EndStart
  <2>2. CASE Recover
    BY <1>1, <2>2 DEF Recover
  <2> QED
    BY <2>0, <2>1, <2>2 DEF StepShape, Quiet, RunnerEnds, Finished, Boot, Gone, tasks
<1> QED
  BY <1>1, WorkerInvariant, PTL DEF Spec, StopExcludesLaunch

(* A runner appears only by the recovery of its process, or by a start whose
   record is still exactly the one the user approved. *)
THEOREM StartsAreExact == Spec => StartIsExact
<1> DEFINE Exact ==
        \A r \in runners' \ runners : ~r.recovered =>
            \E c \in Client : /\ handler[c].pc = "starting"
                              /\ handler[c].expected = control.generation
                              /\ handler[c].scope = control.scope
<1>1. ASSUME WorkerInv, [Next]_vars PROVE [Exact]_vars
  <2>0. StepShape /\ TypeOK /\ OneRunner
    BY <1>1, ShapeOfStep DEF WorkerInv
  <2>1. ASSUME NEW c \in Client, EndStart(c) PROVE Exact
    BY <2>1 DEF EndStart, Startable
  <2>2. CASE Recover
    <3>1. CASE UNCHANGED runners
      BY <3>1
    <3>2. CASE Launch(control.generation, TRUE)
      <4>1. \A r \in runners' \ runners : r.recovered
        BY <3>2 DEF Launch
      <4> QED
        BY <4>1
    <3> QED
      BY <2>2, <3>1, <3>2 DEF Recover
  <2> QED
    BY <2>0, <2>1, <2>2 DEF StepShape, Quiet, RunnerEnds, Finished, Boot, Gone, tasks
<1> QED
  BY <1>1, WorkerInvariant, PTL DEF Spec, StartIsExact

(* The callback of a finished runner fences that runner's session only. *)
THEOREM SupersededIsHarmless == Spec => SupersededRunnerIsHarmless
<1> DEFINE Harmless ==
        \A r \in ended \ ended' : process' # "down" /\ control' # control
            => control.running /\ control.generation = r.generation
<1>1. ASSUME TypeOK, OneRunner, [Next]_vars PROVE [Harmless]_vars
  <2>0. StepShape
    BY <1>1, ShapeOfStep
  <2>1. ASSUME NEW r \in ended, Finished(r) PROVE Harmless
    BY <2>1 DEF Finished, StoppedBy
  <2>2. ASSUME NEW c \in Client, EndStart(c) PROVE Harmless
    BY <2>2 DEF EndStart
  <2> QED
    BY <2>0, <2>1, <2>2 DEF StepShape, Quiet, RunnerEnds, Boot, Recover, Gone, tasks
<1>2. WorkerInv => TypeOK /\ OneRunner
  BY DEF WorkerInv
<1> QED
  BY <1>1, <1>2, WorkerInvariant, PTL DEF Spec, SupersededRunnerIsHarmless
=============================================================================
