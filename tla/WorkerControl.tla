---------------------------- MODULE WorkerControl ----------------------------
(***************************************************************************)
(* The durable control record of the worker (execution/worker_control.py): *)
(* one row that says whether a trading session is wanted, under which      *)
(* reviewed scope, and which generation of that wish is current.  Each     *)
(* operation is one SQLite transaction that either replaces the row or     *)
(* raises; an operator here gives the row after the transaction, and the   *)
(* operator with the suffix "able" says when it does not raise.            *)
(***************************************************************************)
EXTENDS Naturals

CONSTANTS
    Scope,      \* digests of candidates a user can review
    NoScope     \* the empty digest of a record that was never reviewed

ASSUME NoScopeAssumption == NoScope \notin Scope

Control == [generation : Nat, running : BOOLEAN, scope : Scope \cup {NoScope}]

InitialControl == [generation |-> 0, running |-> FALSE, scope |-> NoScope]

Reviewable(c) == ~c.running

Reviewed(c, s) == [generation |-> c.generation + 1, running |-> FALSE, scope |-> s]

(* Mutant: the record is not compared with what was approved. *)
StartableUncompared(c, s, expected) == ~c.running /\ s # NoScope

(* Mutant: the generation is not compared. *)
StartableScopeOnly(c, s, expected) ==
    /\ ~c.running
    /\ s = c.scope /\ s # NoScope

Startable(c, s, expected) ==
    /\ ~c.running
    /\ c.generation = expected
    /\ s = c.scope /\ s # NoScope

Started(c) == [c EXCEPT !.generation = @ + 1, !.running = TRUE]

(* stop() without an expected generation, and the emergency fence that
   another process writes (worker_status.py stop_existing_worker). *)
Stopped(c) == [c EXCEPT !.generation = @ + 1, !.running = FALSE]

(* stop(expected_generation=g): a runner fences only its own session. *)
StoppedBy(c, g) == IF c.running /\ c.generation = g THEN Stopped(c) ELSE c

MaySubmit(c, g, s) == c.running /\ c.generation = g /\ c.scope = s
=============================================================================
