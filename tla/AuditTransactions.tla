-------------------------- MODULE AuditTransactions --------------------------
(***************************************************************************)
(* The one connection of an AuditStore (persistence/transactions.py), with *)
(* the receipts that warn the user (persistence/receipts.py): nested       *)
(* savepoints, callbacks that wait for the outermost commit, and threads   *)
(* that take turns under one lock but run their callbacks outside it.      *)
(* Every receipt here is one that notifies.                                *)
(***************************************************************************)
EXTENDS Naturals, Sequences, FiniteSets, SequencesExt

CONSTANTS
    Thread,
    Alert,      \* receipts, each recorded once
    MaxDepth,   \* bound: open transactions
    Nobody

NobodyAssumption == Nobody \notin Thread

VARIABLES
    db,         \* table receipts
    work,       \* the same as the connection sees it
    owner,      \* the thread that holds the lock
    stack,      \* its open transactions, each with what it began with
    callbacks,  \* alerts that wait for the outermost commit
    due,        \* what each thread has still to show, the lock released
    shown,      \* alerts the notification sink was given
    lost        \* history: alerts a failing sink or the end of the process dropped

vars == <<db, work, owner, stack, callbacks, due, shown, lost>>

Init ==
    /\ db = {} /\ work = {} /\ owner = Nobody /\ stack = <<>> /\ callbacks = <<>>
    /\ due = [t \in Thread |-> <<>>]
    /\ shown = {} /\ lost = {}

Depth == Len(stack)
Fresh == {a \in Alert : a \notin db \cup work \cup lost \cup shown \cup ToSet(callbacks)}

(* BEGIN IMMEDIATE or SAVEPOINT. *)
Begin(t) ==
    /\ due[t] = <<>>
    /\ owner \in {Nobody, t} /\ Depth < MaxDepth
    /\ owner' = t
    /\ stack' = Append(stack, [rows |-> work, mark |-> Len(callbacks)])
    /\ UNCHANGED <<db, work, callbacks, due, shown, lost>>

(* receipt inside a transaction: its own savepoint is released at once, and
   the alert is left for after the commit. *)
ReceiptInside(t, a) ==
    /\ owner = t /\ a \in Fresh
    /\ work' = work \cup {a}
    /\ callbacks' = Append(callbacks, a)
    /\ UNCHANGED <<db, owner, stack, due, shown, lost>>

(* receipt alone: committed first, shown by the caller itself. *)
ReceiptAlone(t, a) ==
    /\ owner = Nobody /\ due[t] = <<>> /\ a \in Fresh
    /\ db' = db \cup {a} /\ work' = db'
    /\ due' = [due EXCEPT ![t] = <<a>>]
    /\ UNCHANGED <<owner, stack, callbacks, shown, lost>>

Release(t) ==
    /\ owner = t /\ Depth > 1
    /\ stack' = Front(stack)
    /\ UNCHANGED <<db, work, owner, callbacks, due, shown, lost>>

Commit(t) ==
    /\ owner = t /\ Depth = 1
    /\ db' = work
    /\ stack' = <<>> /\ owner' = Nobody
    /\ due' = [due EXCEPT ![t] = callbacks] /\ callbacks' = <<>>
    /\ UNCHANGED <<work, shown, lost>>

(* Mutant: callbacks of a transaction that failed are kept. *)
KeptAll == callbacks

(* del self._callbacks[mark:] *)
KeptCallbacks == SubSeq(callbacks, 1, Last(stack).mark)

(* The block raises, or its COMMIT does: rolled back to where it began.  The
   caller of a nested one may catch that and go on. *)
Fail(t) ==
    /\ owner = t
    /\ work' = Last(stack).rows
    /\ callbacks' = KeptCallbacks
    /\ stack' = Front(stack)
    /\ owner' = IF Depth = 1 THEN Nobody ELSE t
    /\ UNCHANGED <<db, due, shown, lost>>

(* The next callback, outside the lock; one that raises ends the loop. *)
Show(t) ==
    /\ due[t] # <<>>
    /\ \/ /\ shown' = shown \cup {Head(due[t])}
          /\ due' = [due EXCEPT ![t] = Tail(@)]
          /\ UNCHANGED lost
       \/ /\ lost' = lost \cup ToSet(due[t])
          /\ due' = [due EXCEPT ![t] = <<>>]
          /\ UNCHANGED shown
    /\ UNCHANGED <<db, work, owner, stack, callbacks>>

(* The process ends: what was not committed never was. *)
Crash ==
    /\ work' = db /\ owner' = Nobody /\ stack' = <<>> /\ callbacks' = <<>>
    /\ lost' = lost \cup UNION {ToSet(due[t]) : t \in Thread}
    /\ due' = [t \in Thread |-> <<>>]
    /\ UNCHANGED <<db, shown>>

Next ==
    \/ \E t \in Thread :
          \/ Begin(t) \/ Release(t) \/ Commit(t) \/ Fail(t) \/ Show(t)
          \/ \E a \in Alert : ReceiptInside(t, a) \/ ReceiptAlone(t, a)
    \/ Crash

Spec == Init /\ [][Next]_vars

-----------------------------------------------------------------------------
(* An alert and its receipt belong together, whichever transactions around it
   fail and whoever catches that: what is shown is on record, and what is on
   record was shown, is about to be, or was dropped by a failing display or
   the end of the process (persistence/receipts.py:29). *)
AlertsFollowCommits ==
    /\ shown \subseteq db
    /\ \A a \in db :
          \/ a \in shown \cup lost
          \/ \E t \in Thread : a \in ToSet(due[t])
    /\ \A a \in work \ db : a \in ToSet(callbacks)

=============================================================================
