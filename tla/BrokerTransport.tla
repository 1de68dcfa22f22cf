--------------------------- MODULE BrokerTransport ---------------------------
(***************************************************************************)
(* The owner of a broker session (broker/robinhood_transport.py).  One     *)
(* task, the owner, enters the session's contexts, takes requests from a   *)
(* queue, sends them one at a time and leaves the contexts.  Callers wait  *)
(* on a future of their own.  Connect and disconnect hold the lifecycle    *)
(* lock, so that one of them runs at a time, but both await, and can be    *)
(* cancelled wherever they do.  A step ends at an await.                   *)
(*                                                                         *)
(* Requests have priorities; here the owner takes any of them, but its own *)
(* stop marker before all.                                                 *)
(***************************************************************************)
EXTENDS Naturals, FiniteSets

CONSTANTS
    Call,       \* requests
    Gen,        \* owner tasks, in the order in which connect creates them
    None

ASSUME GenAssumption == Gen \subseteq Nat
ASSUME NullAssumption == None \notin Gen /\ None \notin Call /\ \A calls \in SUBSET Call : None # calls

VARIABLES
    owner,      \* the owner tasks
    ready,      \* each owner's readiness future
    worker,     \* self._worker
    connected, accepting,   \* self._connected, self._accepting_calls
    queue,      \* self._requests: the requests in it, or None
    marker,     \* whether a stop marker is in it
    op,         \* the connect or disconnect that holds the lifecycle lock
    future,     \* what each caller was told
    sent        \* history: the requests handed to session.call_tool

vars == <<owner, ready, worker, connected, accepting, queue, marker, op, future, sent>>

Alive == {"opening", "serving", "calling", "closing"}
OwnerTask == [pc : Alive \cup {"none", "done"}, active : Call \cup {None},
              cancelled : BOOLEAN, broken : BOOLEAN]
Told == {"answered", "unknown", "unsent", "refused", "cancelled"}
Waits == {"grace", "cancelling"}
Op == [pc : Waits \cup {"none", "ready", "abandon"}, connects : BOOLEAN, failing : BOOLEAN]

NoOp == [pc |-> "none", connects |-> FALSE, failing |-> FALSE]
NoTask == [pc |-> "none", active |-> None, cancelled |-> FALSE, broken |-> FALSE]

Init ==
    /\ owner = [g \in Gen |-> NoTask]
    /\ ready = [g \in Gen |-> "pending"]
    /\ worker = None
    /\ connected = FALSE /\ accepting = FALSE
    /\ queue = None /\ marker = FALSE
    /\ op = NoOp
    /\ future = [r \in Call |-> "new"]
    /\ sent = {}

Queued == IF queue = None THEN {} ELSE queue
Living == {g \in Gen : owner[g].pc \in Alive}
Running == worker # None /\ owner[worker].pc \in Alive
Connected == connected /\ Running

-----------------------------------------------------------------------------
(* Callers *)

(* _call: refused unless the session takes requests. *)
Submit(r) ==
    /\ future[r] = "new"
    /\ IF Connected /\ accepting /\ queue # None
       THEN /\ future' = [future EXCEPT ![r] = "waiting"]
            /\ queue' = queue \cup {r}
       ELSE /\ future' = [future EXCEPT ![r] = "refused"]
            /\ UNCHANGED queue
    /\ UNCHANGED <<owner, ready, worker, connected, accepting, marker, op, sent>>

(* The caller's task is cancelled, and its future with it. *)
GiveUp(r) ==
    /\ future[r] = "waiting"
    /\ future' = [future EXCEPT ![r] = "cancelled"]
    /\ UNCHANGED <<owner, ready, worker, connected, accepting, queue, marker, op, sent>>

(* set_exception on every future of a set that is not done yet. *)
Tell(calls, verdict) ==
    [r \in Call |-> IF r \in calls /\ future[r] = "waiting" THEN verdict ELSE future[r]]

-----------------------------------------------------------------------------
(* The owner task *)

Become(g, pc) == owner' = [owner EXCEPT ![g].pc = pc]

(* The contexts are entered and the tools listed.  A connect that was
   cancelled meanwhile has cancelled the future: set_result raises. *)
Opened(g) ==
    /\ owner[g].pc = "opening" /\ ~owner[g].cancelled
    /\ connected' = TRUE /\ accepting' = TRUE
    /\ IF ready[g] = "pending"
       THEN /\ ready' = [ready EXCEPT ![g] = "set"]
            /\ Become(g, "serving")
       ELSE /\ owner' = [owner EXCEPT ![g].pc = "closing", ![g].broken = TRUE]
            /\ UNCHANGED ready
    /\ UNCHANGED <<worker, queue, marker, op, future, sent>>

(* The stop marker is next: leave the contexts. *)
TakeMarker(g) ==
    /\ owner[g].pc = "serving" /\ queue # None /\ marker
    /\ marker' = FALSE
    /\ Become(g, "closing")
    /\ UNCHANGED <<ready, worker, connected, accepting, queue, op, future, sent>>

(* A request is next: skipped when its caller gave up. *)
Take(g, r) ==
    /\ owner[g].pc = "serving" /\ ~marker /\ r \in Queued
    /\ queue' = queue \ {r}
    /\ IF future[r] = "cancelled"
       THEN UNCHANGED <<owner, sent>>
       ELSE /\ owner' = [owner EXCEPT ![g].pc = "calling", ![g].active = r]
            /\ sent' = sent \cup {r}
    /\ UNCHANGED <<ready, worker, connected, accepting, marker, op, future>>

(* The tool answers or fails, or its read timeout passes. *)
CallEnds(g) ==
    /\ owner[g].pc = "calling"
    /\ \E verdict \in {"answered", "unknown"} : future' = Tell({owner[g].active}, verdict)
    /\ owner' = [owner EXCEPT ![g].pc = "serving", ![g].active = None]
    /\ UNCHANGED <<ready, worker, connected, accepting, queue, marker, op, sent>>

(* The caller of the call in progress is not told. *)
InterruptedUntold(g) ==
    /\ owner[g].pc \in Alive \ {"closing"}
    /\ owner' = [owner EXCEPT ![g] = [pc |-> "closing", active |-> None, cancelled |-> FALSE,
                                      broken |-> ~owner[g].cancelled]]
    /\ UNCHANGED <<ready, worker, connected, accepting, queue, marker, op, future, sent>>

(* The caller of the call in progress is told that it was not sent. *)
InterruptedUnsent(g) ==
    /\ owner[g].pc \in Alive \ {"closing"}
    /\ future' = Tell({owner[g].active}, "unsent")
    /\ owner' = [owner EXCEPT ![g] = [pc |-> "closing", active |-> None, cancelled |-> FALSE,
                                      broken |-> ~owner[g].cancelled]]
    /\ UNCHANGED <<ready, worker, connected, accepting, queue, marker, op, sent>>

(* The owner is cancelled, by connect or disconnect, or by the transport
   when the streams fail; opening may also fail by itself.  A call in
   progress is told that its outcome is unknown. *)
Interrupted(g) ==
    /\ owner[g].pc \in Alive \ {"closing"}
    /\ future' = Tell({owner[g].active}, "unknown")
    /\ owner' = [owner EXCEPT ![g] = [pc |-> "closing", active |-> None, cancelled |-> FALSE,
                                      broken |-> ~owner[g].cancelled]]
    /\ UNCHANGED <<ready, worker, connected, accepting, queue, marker, op, sent>>

(* The owner goes without failing what is still queued. *)
ClosedQuietly(g) ==
    /\ owner[g].pc = "closing"
    /\ \E broken \in {owner[g].broken /\ ~owner[g].cancelled, TRUE} :
          owner' = [owner EXCEPT ![g].pc = "done", ![g].broken = broken]
    /\ ready' = IF ready[g] = "pending" THEN [ready EXCEPT ![g] = "failed"] ELSE ready
    /\ connected' = FALSE /\ accepting' = FALSE
    /\ UNCHANGED <<worker, op, sent, future, queue, marker>>

(* The contexts are left, which may fail or be cancelled too; the owner's
   finally block. *)
Closed(g) ==
    /\ owner[g].pc = "closing"
    /\ \E broken \in {owner[g].broken /\ ~owner[g].cancelled, TRUE} :
          owner' = [owner EXCEPT ![g].pc = "done", ![g].broken = broken]
    /\ ready' = IF ready[g] = "pending" THEN [ready EXCEPT ![g] = "failed"] ELSE ready
    /\ connected' = FALSE /\ accepting' = FALSE
    /\ future' = Tell(Queued, "unsent")
    /\ queue' = IF queue = None THEN None ELSE {}
    /\ marker' = FALSE
    /\ UNCHANGED <<worker, op, sent>>

-----------------------------------------------------------------------------
(* Connect and disconnect *)

NextOwner(g) == owner[g].pc = "none" /\ \A h \in Gen : h < g => owner[h].pc # "none"

Goto(pc) == op' = [op EXCEPT !.pc = pc]

(* Connect creates the next owner and waits until it is ready. *)
Create(kind) ==
    \E g \in Gen :
        /\ NextOwner(g)
        /\ owner' = [owner EXCEPT ![g].pc = "opening"]
        /\ worker' = g
        /\ queue' = {} /\ marker' = FALSE
        /\ op' = [kind EXCEPT !.pc = "ready"]
        /\ UNCHANGED <<ready, connected, accepting, future, sent>>

(* The first half of _stop_worker, up to its first await. *)
StopWorker(kind) ==
    /\ accepting' = FALSE
    /\ future' = Tell(Queued, "unsent")
    /\ queue' = IF queue = None THEN None ELSE {}
    /\ marker' = (queue # None /\ Running)
    /\ op' = [kind EXCEPT !.pc = "grace"]

(* Nothing to do while connected.  Gen bounds the number of owners. *)
Connect ==
    /\ op.pc = "none" /\ ~Connected
    /\ \E g \in Gen : NextOwner(g)
    /\ LET kind == [NoOp EXCEPT !.connects = TRUE]
       IN \/ /\ worker # None
             /\ StopWorker(kind)
             /\ UNCHANGED <<owner, ready, worker, connected, sent>>
          \/ worker = None /\ Create(kind)

Disconnect ==
    /\ op.pc = "none"
    /\ IF worker = None
       THEN /\ connected' = FALSE /\ accepting' = FALSE
            /\ UNCHANGED <<owner, ready, worker, queue, marker, op, future, sent>>
       ELSE /\ StopWorker(NoOp)
            /\ UNCHANGED <<owner, ready, worker, connected, sent>>

(* The owner is cancelled, and the wait begins again. *)
GraceOverAgain ==
    /\ op.pc = "grace" /\ Running
    /\ owner' = [owner EXCEPT ![worker].cancelled = TRUE]
    /\ UNCHANGED <<ready, worker, connected, accepting, queue, marker, op, future, sent>>

(* A grace period passes: the owner is cancelled, or at last left alone. *)
GraceOver ==
    /\ op.pc = "grace" /\ Running
    /\ owner' = [owner EXCEPT ![worker].cancelled = TRUE]
    /\ Goto("cancelling")
    /\ UNCHANGED <<ready, worker, connected, accepting, queue, marker, future, sent>>

(* An owner that does not end in time is forgotten. *)
CancelOverForgetting ==
    /\ op.pc = "cancelling" /\ Running
    /\ op' = NoOp
    /\ worker' = None
    /\ UNCHANGED <<owner, ready, connected, accepting, queue, marker, future, sent>>

CancelOver ==
    /\ op.pc = "cancelling" /\ Running
    /\ op' = NoOp
    /\ UNCHANGED <<owner, ready, worker, connected, accepting, queue, marker, future, sent>>

(* _finish_worker, once the owner is done.  If it ended in an error that
   error is raised; otherwise connect goes on and creates the next owner. *)
Finish ==
    /\ op.pc \in Waits /\ ~Running
    /\ connected' = FALSE /\ accepting' = FALSE
    /\ IF op.connects /\ ~op.failing /\ ~owner[worker].broken
       THEN /\ Goto("ready")
            /\ \E g \in Gen :
                  /\ NextOwner(g)
                  /\ owner' = [owner EXCEPT ![g].pc = "opening"]
                  /\ worker' = g
            /\ queue' = {}
       ELSE /\ op' = NoOp
            /\ worker' = None /\ queue' = None
            /\ UNCHANGED owner
    /\ marker' = FALSE
    /\ UNCHANGED <<ready, future, sent>>

(* Connect learns that its owner is ready, or why it is not. *)
ReadyKnown ==
    /\ op.pc = "ready" /\ ready[worker] \in {"set", "failed"}
    /\ IF ready[worker] = "set"
       THEN op' = NoOp /\ UNCHANGED <<accepting, queue, marker, future>>
       ELSE StopWorker([op EXCEPT !.failing = TRUE])
    /\ UNCHANGED <<owner, ready, worker, connected, sent>>

(* Connect or disconnect is cancelled at its await: by a deadline of its
   caller or because the runtime closes.  Connect at its readiness cancels
   the future and cleans up in a later step; elsewhere the operation ends and
   the owner stays. *)
CancelOp ==
    \/ /\ op.pc = "ready"
       /\ ready' = IF ready[worker] = "pending" THEN [ready EXCEPT ![worker] = "cancelled"] ELSE ready
       /\ Goto("abandon")
       /\ UNCHANGED <<owner, worker, connected, accepting, queue, marker, future, sent>>
    \/ /\ op.pc \in Waits
       /\ op' = NoOp
       /\ UNCHANGED <<owner, ready, worker, connected, accepting, queue, marker, future, sent>>

Abandon ==
    /\ op.pc = "abandon"
    /\ owner' = IF Running THEN [owner EXCEPT ![worker].cancelled = TRUE] ELSE owner
    /\ StopWorker([op EXCEPT !.failing = TRUE])
    /\ UNCHANGED <<ready, worker, connected, sent>>

-----------------------------------------------------------------------------
OwnerStep(g) ==
    \/ Opened(g)
    \/ TakeMarker(g)
    \/ \E r \in Call : Take(g, r)
    \/ CallEnds(g)
    \/ Interrupted(g)
    \/ Closed(g)

OpStep == GraceOver \/ CancelOver \/ Finish \/ ReadyKnown \/ Abandon

Next ==
    \/ \E r \in Call : Submit(r) \/ GiveUp(r)
    \/ \E g \in Gen : OwnerStep(g)
    \/ Connect \/ Disconnect \/ CancelOp
    \/ OpStep

Spec == Init /\ [][Next]_vars

(* The event loop resumes what it can resume, a call has a read timeout, and
   grace periods pass.  Nothing is assumed of opening, which may wait for the
   user, or of leaving the contexts, which is the library's. *)
Fairness ==
    /\ WF_vars(OpStep)
    /\ \A g \in Gen :
          /\ WF_vars(TakeMarker(g) \/ \E r \in Call : Take(g, r))
          /\ WF_vars(CallEnds(g))
          /\ WF_vars(owner[g].cancelled /\ Interrupted(g))

FairSpec == Spec /\ Fairness

-----------------------------------------------------------------------------
(* Type invariant. *)
TypeOK ==
    /\ owner \in [Gen -> OwnerTask]
    /\ ready \in [Gen -> {"pending", "set", "failed", "cancelled"}]
    /\ worker \in Gen \cup {None}
    /\ connected \in BOOLEAN /\ accepting \in BOOLEAN
    /\ queue \in (SUBSET Call) \cup {None} /\ marker \in BOOLEAN
    /\ op \in Op
    /\ future \in [Call -> Told \cup {"new", "waiting"}]
    /\ sent \subseteq Call

(* A second owner of the session never starts while one is still opening,
   serving or closing, whatever was cancelled or ran out of time ("reconnect
   cannot start a second owner"). *)
OneOwner == \A g \in Living : g = worker

(* A caller that waits is waited for: its request is in the queue of a
   living owner, or that owner is sending it.  No teardown, cancellation or
   failure leaves a future that nobody will complete. *)
NoOrphans ==
    \A r \in Call :
        future[r] = "waiting" =>
            \/ r \in Queued /\ Living # {}
            \/ \E g \in Living : owner[g].active = r

(* A caller that was told its request was not sent can rely on it, then and
   later. *)
UnsentIsTrue == \A r \in sent : future[r] \notin {"unsent", "refused", "new"}

(* Once disconnect has torn a session down, nothing of it is left: no living
   owner, nobody waiting, and no request can be sent before the next
   connect. *)
SeveredIsQuiet ==
    worker = None => /\ Living = {} /\ Queued = {}
                     /\ \A r \in Call : future[r] # "waiting"

(* There is one session owner at most, and none after a teardown
   (broker/robinhood_transport.py:298). *)
OneQuietOwner == OneOwner /\ SeveredIsQuiet

(* Every caller is answered, also when its session is torn down or fails,
   unless the library hangs while the session's contexts are left. *)
Closing == \E g \in Gen : owner[g].pc = "closing"
EveryCallEnds ==
    []<>~Closing => \A r \in Call : (future[r] = "waiting") ~> (future[r] # "waiting")

(* A teardown ends within its grace periods, although the owner may hang in
   its contexts for ever. *)
TeardownEnds == (op.pc \in Waits) ~> (op.pc \notin Waits)

=============================================================================
