----------------------------- MODULE BrokerSession -----------------------------
(***************************************************************************)
(* The broker object of a worker (execution/session_runtime.py): connects  *)
(* asked for by several commands, the task that makes one connection, the  *)
(* teardown of the object it replaces, the readers of its accounts and the *)
(* close of the runtime.                                                   *)
(*                                                                         *)
(* One event loop: a step is what happens between two awaits.  A teardown  *)
(* that raises keeps its object, whose transport still owns the cleanup;   *)
(* what a transport does inside is BrokerTransport's.                      *)
(***************************************************************************)
EXTENDS Naturals, FiniteSets

CONSTANTS
    Command,    \* commands that may be at work at once
    Nobody,     \* not a command, nor an object: the lock is free, nothing is there
    Closer,     \* not a command: close() holds the lock
    MaxBrokers  \* bound: broker objects made

BrokerSessionAssumption == {Nobody, Closer} \cap Command = {} /\ Nobody # Closer /\ MaxBrokers \in Nat

VARIABLES
    made,       \* broker objects made so far; the last one's name
    broker,     \* the runtime's object, or 0
    unavailable,\* it may not be used: being made, or being torn down
    open,       \* objects whose transport is not torn down
    up,         \* objects whose transport is connected
    verified,   \* objects whose contract and accounts were checked
    desk,       \* the object the research desk was made with, or Nobody
    engine,     \* the object a live engine was built on, or Nobody
    task,       \* where the connection's task is
    cancelled,  \* its cancellation has not been delivered yet
    lock,       \* who holds the connect lock
    at,         \* what each command is doing, and the object it reads
    closing,
    close       \* where close() is

objects == <<made, broker, unavailable, open, up, verified>>
vars == <<objects, desk, engine, task, cancelled, lock, at, closing, close>>

Idle == [op |-> "none", pc |-> "idle", reads |-> 0]

Init ==
    /\ made = 0 /\ broker = 0 /\ unavailable = FALSE
    /\ open = {} /\ up = {} /\ verified = {}
    /\ desk = Nobody /\ engine = Nobody
    /\ task = "none" /\ cancelled = FALSE /\ lock = Nobody
    /\ at = [c \in Command |-> Idle]
    /\ closing = FALSE /\ close = "no"

Connected == ~closing /\ ~unavailable /\ broker \in up

(* The outcomes of _disconnect_broker on the current object. *)
TornDown ==
    /\ open' = open \ {broker} /\ up' = up \ {broker}
    /\ broker' = 0 /\ unavailable' = FALSE
    /\ UNCHANGED <<made, verified>>

(* Mutant: an object whose teardown raised is forgotten. *)
TeardownForgets ==
    /\ broker' = 0 /\ unavailable' = FALSE
    /\ UNCHANGED <<made, open, up, verified>>

TeardownFails ==
    /\ up' \in {up, up \ {broker}}
    /\ unavailable' = (unavailable \/ broker # 0)
    /\ UNCHANGED <<made, broker, open, verified>>

-----------------------------------------------------------------------------
(* The commands *)

(* connect, review and run begin alike when the session is not connected;
   review and run go on to read the accounts. *)
Ask(c, op) ==
    /\ at[c] = Idle /\ ~closing
    /\ at' = [at EXCEPT ![c] = IF Connected /\ op # "connect"
                               THEN [op |-> op, pc |-> "reading", reads |-> broker]
                               ELSE [op |-> op, pc |-> "waiting", reads |-> 0]]
    /\ UNCHANGED <<objects, desk, engine, task, cancelled, lock, closing, close>>

(* The lock is taken and, unless the runtime is closing, the task made. *)
Locked(c) ==
    /\ at[c].pc = "waiting" /\ lock = Nobody
    /\ IF closing
       THEN at' = [at EXCEPT ![c] = Idle] /\ UNCHANGED <<lock, task>>
       ELSE /\ at' = [at EXCEPT ![c].pc = "connecting"]
            /\ lock' = c /\ task' = "made"
    /\ UNCHANGED <<objects, desk, engine, cancelled, closing, close>>

(* Where a command goes when its connect has returned. *)
Onward(c) ==
    IF at[c].op # "connect" /\ broker # 0
    THEN [at[c] EXCEPT !.pc = "reading", !.reads = broker]
    ELSE Idle

(* The task has ended: its result is passed on, but not into a closing
   runtime, which drops the object first. *)
Returned(c) ==
    /\ lock = c /\ at[c].pc \in {"connecting", "given up"} /\ task \in {"done", "failed"}
    /\ IF task = "done" /\ closing /\ at[c].pc = "connecting" /\ broker # 0
       THEN /\ at' = [at EXCEPT ![c].pc = "dropping"]
            /\ unavailable' = TRUE /\ UNCHANGED <<made, broker, open, up, verified, lock>>
       ELSE /\ at' = [at EXCEPT ![c] = IF task = "done" /\ at[c].pc = "connecting" /\ ~closing
                                       THEN Onward(c) ELSE Idle]
            /\ lock' = Nobody /\ UNCHANGED objects
    /\ task' = "none" /\ cancelled' = FALSE
    /\ UNCHANGED <<desk, engine, closing, close>>

Dropped(c) ==
    /\ at[c].pc = "dropping"
    /\ TornDown \/ TeardownFails
    /\ at' = [at EXCEPT ![c] = Idle] /\ lock' = Nobody
    /\ UNCHANGED <<desk, engine, task, cancelled, closing, close>>

(* The accounts were read through the object the command began with. *)
Read(c) ==
    /\ at[c].pc = "reading" /\ at[c].reads \in up
    /\ IF at[c].op = "run" /\ engine = Nobody /\ ~closing
       THEN engine' = broker ELSE UNCHANGED engine
    /\ at' = [at EXCEPT ![c] = Idle]
    /\ UNCHANGED <<objects, desk, task, cancelled, lock, closing, close>>

(* A read that fails for good, or the request's deadline: a handler is
   cancelled where it waits, and with it the task it waits for. *)
Deadline(c) ==
    /\ at[c].pc \in {"waiting", "connecting", "dropping", "reading"}
    /\ CASE at[c].pc = "connecting" ->
                /\ at' = [at EXCEPT ![c].pc = "given up"]
                /\ cancelled' = (task \notin {"done", "failed"})
                /\ UNCHANGED <<objects, lock>>
         [] at[c].pc = "dropping" ->
                /\ at' = [at EXCEPT ![c] = Idle] /\ lock' = Nobody
                /\ TeardownFails /\ UNCHANGED cancelled
         [] OTHER -> at' = [at EXCEPT ![c] = Idle] /\ UNCHANGED <<objects, lock, cancelled>>
    /\ UNCHANGED <<desk, engine, task, closing, close>>

(* A demo of the research desk needs no connection; it begins at once. *)
Demo ==
    /\ ~closing /\ desk = Nobody /\ engine = Nobody
    /\ desk' = broker
    /\ UNCHANGED <<objects, engine, task, cancelled, lock, at, closing, close>>

EngineEnds ==
    /\ engine # Nobody /\ engine' = Nobody
    /\ UNCHANGED <<objects, desk, task, cancelled, lock, at, closing, close>>

TransportLost ==
    /\ broker \in up /\ up' = up \ {broker}
    /\ UNCHANGED <<made, broker, unavailable, open, verified, desk, engine, task, cancelled, lock,
                   at, closing, close>>

-----------------------------------------------------------------------------
(* The connection's task *)

Goes(from, to) == task = from /\ task' = to /\ UNCHANGED <<lock, at, closing, close, engine>>

(* The factory's object replaces nothing: the old one is gone. *)
MakeBroker ==
    /\ made < MaxBrokers
    /\ made' = made + 1 /\ broker' = made' /\ open' = (open \ {broker}) \cup {made'}
    /\ up' = up \ {broker} /\ unavailable' = TRUE /\ UNCHANGED verified

DropOrMake ==
    IF broker = 0
    THEN MakeBroker /\ task' = "connecting"
    ELSE unavailable' = TRUE /\ task' = "replacing" /\ UNCHANGED <<made, broker, open, up, verified>>

Begin ==
    /\ task = "made"
    /\ \/ Connected /\ task' = "rereading" /\ UNCHANGED <<objects, desk>>
       \/ ~Connected /\ desk # Nobody /\ desk' = Nobody /\ task' = "quieting" /\ UNCHANGED objects
       \/ ~Connected /\ desk = Nobody /\ DropOrMake /\ UNCHANGED desk
    /\ UNCHANGED <<cancelled, lock, at, closing, close, engine>>

(* The accounts of a session that is up are read again; that can fail. *)
Reread ==
    /\ Goes("rereading", "done") \/ Goes("rereading", "failed")
    /\ UNCHANGED <<objects, desk, cancelled>>

(* The research desk of the old object has closed. *)
Quieted ==
    /\ task = "quieting" /\ DropOrMake
    /\ UNCHANGED <<desk, engine, cancelled, lock, at, closing, close>>

Replaced ==
    /\ \/ Goes("replacing", "connecting") /\ MakeBroker
       \/ Goes("replacing", "failed") /\ TeardownFails
    /\ UNCHANGED <<desk, cancelled>>

TransportUp ==
    /\ \/ Goes("connecting", "checking") /\ up' = up \cup {broker}
       \/ Goes("connecting", "undoing") /\ UNCHANGED up
    /\ UNCHANGED <<made, broker, unavailable, open, verified, desk, cancelled>>

(* The contract and the accounts were checked, over a transport that is up. *)
Checked ==
    /\ \/ /\ Goes("checking", "done") /\ broker \in up
          /\ verified' = verified \cup {broker} /\ unavailable' = FALSE
       \/ Goes("checking", "undoing") /\ UNCHANGED <<verified, unavailable>>
    /\ UNCHANGED <<made, broker, open, up, desk, cancelled>>

Undone ==
    /\ Goes("undoing", "failed")
    /\ TornDown \/ TeardownFails
    /\ UNCHANGED <<desk, cancelled>>

(* The cancellation reaches the task at its await: a connection under way is
   undone first, everything else just ends. *)
Interrupted ==
    /\ cancelled /\ cancelled' = FALSE
    /\ \/ \E from \in {"made", "rereading", "quieting"} : Goes(from, "failed") /\ UNCHANGED objects
       \/ \E from \in {"connecting", "checking"} : Goes(from, "undoing") /\ UNCHANGED objects
       \/ \E from \in {"replacing", "undoing"} : Goes(from, "failed") /\ TeardownFails
    /\ UNCHANGED desk

-----------------------------------------------------------------------------
(* close(): cancel the connection, wait a while for it, then take the lock *)

Close ==
    /\ close \in {"no", "refused"}
    /\ closing' = TRUE
    /\ IF task \in {"none", "done", "failed"}
       THEN close' = "locking" /\ UNCHANGED cancelled
       ELSE close' = "waiting" /\ cancelled' = TRUE
    /\ UNCHANGED <<objects, desk, engine, task, lock, at>>

CloseWaited ==
    /\ close = "waiting"
    /\ close' = IF task \in {"none", "done", "failed"} THEN "locking" ELSE "refused"
    /\ UNCHANGED <<objects, desk, engine, task, cancelled, lock, at, closing>>

CloseLocks ==
    /\ close = "locking"
    /\ \/ /\ lock = Nobody
          /\ lock' = Closer /\ close' = "dropping" /\ desk' = Nobody
       \/ close' = "refused" /\ UNCHANGED <<lock, desk>>                \* out of time
    /\ UNCHANGED <<objects, engine, task, cancelled, at, closing>>

CloseDrops ==
    /\ close = "dropping" /\ lock' = Nobody
    /\ \/ (TornDown \/ (broker # 0 /\ TeardownFails)) /\ close' = "done"
       \/ close' = "refused" /\ UNCHANGED objects                      \* out of time
    /\ UNCHANGED <<desk, engine, task, cancelled, at, closing>>

-----------------------------------------------------------------------------
Next ==
    \/ \E c \in Command :
          \/ \E op \in {"connect", "review", "run"} : Ask(c, op)
          \/ Locked(c) \/ Returned(c) \/ Dropped(c) \/ Read(c) \/ Deadline(c)
    \/ Demo \/ EngineEnds \/ TransportLost
    \/ Begin \/ Reread \/ Quieted \/ Replaced \/ TransportUp \/ Checked \/ Undone \/ Interrupted
    \/ Close \/ CloseWaited \/ CloseLocks \/ CloseDrops

Spec == Init /\ [][Next]_vars

-----------------------------------------------------------------------------
(* However connects, failures, deadlines and close interleave, at most one
   broker object has a transport that is not torn down
   (session_runtime.py:131). *)
OneTransport == Cardinality(open) <= 1

(* What is offered as connected has had its contract and accounts checked,
   and an engine is only ever built on such an object
   (session_runtime.py:109). *)
CheckedBeforeUse ==
    /\ Connected => broker \in verified
    /\ engine # Nobody => engine \in verified

(* The research desk reads through no transport but the session's: an object
   that is replaced takes its desk with it (session_runtime.py:103). *)
DeskFollowsBroker == desk \in up => desk = broker

(* Once close() has returned nothing connects again; what it could not tear
   down is fenced (session_runtime.py:419). *)
ClosedForGood == close = "done" => task = "none" /\ (broker = 0 \/ unavailable)

BrokerSessionKept == OneTransport /\ CheckedBeforeUse /\ DeskFollowsBroker /\ ClosedForGood
=============================================================================
