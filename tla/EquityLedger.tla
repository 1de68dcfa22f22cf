---------------------------- MODULE EquityLedger ----------------------------
(***************************************************************************)
(* The durable intent, fill and lease tables of the mixed engine           *)
(* (execution/equity_ledger.py, with the snapshot validation it calls in   *)
(* domain/order_models.py).  Every operation is one SQLite transaction, so *)
(* each is one action.  An operation that raises changes nothing: its      *)
(* action is simply not enabled, and a client that must react to the       *)
(* refusal tests the operator with the operation's name ending in "able".  *)
(*                                                                         *)
(* A payload stands for what observe() compares with the provider's row:   *)
(* symbol, side, amount, route and creation time.  Time is relative: a     *)
(* lease holds the number of ticks it has left, so no clock is needed.     *)
(***************************************************************************)
EXTENDS Naturals, FiniteSets, TLC

CONSTANTS
    Account,    \* brokerage accounts
    Ref,        \* the uuid4 references an intent can carry
    OrderId,    \* provider order identities
    Exec,       \* provider execution identities
    Qty,        \* executed quantities a snapshot can carry
    Payload,    \* what was asked for: symbol, side, amount and route
    Owner,      \* lease owners, a fresh uuid4 per engine
    None,       \* SQL NULL, a missing row, or a row that echoes no reference
    TTL         \* ticks a lease lasts after it was acquired or renewed

ASSUME QtyAssumption == Qty \subseteq Nat \ {0}
ASSUME TTLAssumption == TTL \in Nat \ {0}
ASSUME NullAssumption == None \notin Account \cup Ref \cup OrderId \cup Payload \cup Owner

VARIABLES
    intents,    \* table equity_v1_intents
    dispatched, \* table equity_v1_dispatch: references that crossed the boundary
    fills,      \* table equity_v1_fills
    lease       \* table equity_v1_engine_lease

ledgerVars == <<intents, dispatched, fills, lease>>

States == {"absent", "reserved", "submitting", "unknown", "open", "terminal", "abandoned"}

(* Mutant: a ticket of unknown fate does not count as pending. *)
PendingWithoutUnknown == {"reserved", "submitting", "open"}

PendingStates == {"reserved", "submitting", "unknown", "open"}
AttemptedStates == {"submitting", "unknown", "open", "terminal"}

Intent == [state : States, account : Account \cup {None}, payload : Payload \cup {None},
           order : OrderId \cup {None}]
FillRow == [account : Account, exec : Exec, ref : Ref, qty : Qty]
Execution == [exec : Exec, qty : Qty]
Lease == [owner : Owner \cup {None}, left : 0..TTL]

(* A provider row: its identity, the reference it echoes, whether its state
   is one of TERMINAL_ORDER_STATES, and the executions it lists. *)
Snapshot == [order : OrderId, ref : Ref \cup {None}, payload : Payload,
             terminal : BOOLEAN, executions : SUBSET Execution]

Absent == [state |-> "absent", account |-> None, payload |-> None, order |-> None]
NoLease == [owner |-> None, left |-> 0]

Unresolved(a) == {r \in Ref : intents[r].state \in PendingStates /\ intents[r].account = a}
FillsOf(r) == {f \in fills : f.ref = r}
Attempted(a) == {r \in Ref : intents[r].account = a /\ intents[r].state \in AttemptedStates}

(* daily_usage raises as long as one attempted ticket has no dispatch row. *)
UsageKnown(a) == Attempted(a) \subseteq dispatched

(* What daily_usage counts, and what orders_since counts. *)
UsedToday(a) == Attempted(a) \cap dispatched
OrdersSince(a) == {r \in dispatched : intents[r].account = a}

LedgerInit ==
    /\ intents = [r \in Ref |-> Absent]
    /\ dispatched = {}
    /\ fills = {}
    /\ lease = [a \in Account |-> NoLease]

-----------------------------------------------------------------------------
(* Lease operations *)

LeaseActive(a, o) == lease[a].owner = o /\ lease[a].left > 0
(* Mutant: the comparison with the expiry time is off by one tick. *)
AcquirableEarly(a, o) == lease[a].owner \in {None, o} \/ lease[a].left <= 1

Acquirable(a, o) == lease[a].owner \in {None, o} \/ lease[a].left = 0

AcquireLease(a, o) ==
    /\ Acquirable(a, o)
    /\ lease' = [lease EXCEPT ![a] = [owner |-> o, left |-> TTL]]
    /\ UNCHANGED <<intents, dispatched, fills>>

RenewLease(a, o) ==
    /\ LeaseActive(a, o)
    /\ lease' = [lease EXCEPT ![a].left = TTL]
    /\ UNCHANGED <<intents, dispatched, fills>>

ReleaseLease(a, o) ==
    /\ lease' = [lease EXCEPT ![a] = IF @.owner = o THEN NoLease ELSE @]
    /\ UNCHANGED <<intents, dispatched, fills>>

(* One unit of wall-clock time: every unexpired lease gets closer to expiry. *)
Tick ==
    /\ \E a \in Account : lease[a].left > 0
    /\ lease' = [a \in Account |->
                    [lease[a] EXCEPT !.left = IF @ > 0 THEN @ - 1 ELSE 0]]
    /\ UNCHANGED <<intents, dispatched, fills>>

-----------------------------------------------------------------------------
(* Intent operations *)

(* Mutant: there is no partial unique index. *)
ReservableTwice(a, r) == intents[r].state = "absent"

(* The primary key and the partial unique index equity_v1_one_pending. *)
Reservable(a, r) == intents[r].state = "absent" /\ Unresolved(a) = {}

Reserve(a, r, p) ==
    /\ Reservable(a, r)
    /\ intents' = [intents EXCEPT ![r] =
                      [state |-> "reserved", account |-> a, payload |-> p, order |-> None]]
    /\ UNCHANGED <<dispatched, fills, lease>>

(* Mutant: the row count of the UPDATE is not looked at. *)
MarkSubmittingUnchecked(r, counted) ==
    /\ intents[r].state # "absent" /\ r \notin dispatched
    /\ intents' = [intents EXCEPT ![r].state = IF @ = "reserved" THEN "submitting" ELSE @]
    /\ dispatched' = IF counted THEN dispatched \cup {r} ELSE dispatched
    /\ UNCHANGED <<fills, lease>>

(* counted: the caller supplied the dispatch time and the notional. *)
MarkSubmitting(r, counted) ==
    /\ intents[r].state = "reserved"
    /\ intents' = [intents EXCEPT ![r].state = "submitting"]
    /\ dispatched' = IF counted THEN dispatched \cup {r} ELSE dispatched
    /\ UNCHANGED <<fills, lease>>

MarkUnknown(r) ==
    /\ intents[r].state = "submitting"
    /\ intents' = [intents EXCEPT ![r].state = "unknown"]
    /\ UNCHANGED <<dispatched, fills, lease>>

(* Mutant: an attempted ticket can be abandoned too. *)
AbandonAny(r) ==
    /\ intents[r].state \in {"reserved", "submitting"}
    /\ intents' = [intents EXCEPT ![r].state = "abandoned"]
    /\ UNCHANGED <<dispatched, fills, lease>>

AbandonReserved(r) ==
    /\ intents[r].state = "reserved"
    /\ intents' = [intents EXCEPT ![r].state = "abandoned"]
    /\ UNCHANGED <<dispatched, fills, lease>>

-----------------------------------------------------------------------------
(* Reconciliation of one provider row with one intent *)

ValidSnapshot(s) == \A x, y \in s.executions : x.exec = y.exec => x = y

RowsOf(a, r, s) == {[account |-> a, exec |-> x.exec, ref |-> r, qty |-> x.qty] : x \in s.executions}

(* Mutant: the reference alone identifies the order, also once it is bound. *)
SameReference(a, r, s) ==
    /\ intents[r].state \in AttemptedStates
    /\ intents[r].account = a
    /\ s.ref = r
    /\ s.payload = intents[r].payload

SameTicket(a, r, s) ==
    /\ intents[r].state \in AttemptedStates
    /\ intents[r].account = a
    /\ IF intents[r].order = None
       THEN s.ref = r
       ELSE s.order = intents[r].order /\ s.ref \in {r, None}
    /\ s.payload = intents[r].payload

(* Mutant: the index covers open orders only. *)
OrderUnclaimedWhileOpen(a, r, s) ==
    \A q \in Ref \ {r} :
        intents[q].account = a /\ intents[q].state = "open" => intents[q].order # s.order

(* The unique index equity_v1_order_identity. *)
OrderUnclaimed(a, r, s) ==
    \A q \in Ref \ {r} : intents[q].account = a => intents[q].order # s.order

KeepsFills(a, r, s) ==
    /\ {f.exec : f \in FillsOf(r)} \subseteq {x.exec : x \in s.executions}
    /\ \A f \in fills, x \in RowsOf(a, r, s) :
          f.account = x.account /\ f.exec = x.exec => f = x

Observable(a, r, s) ==
    /\ ValidSnapshot(s)
    /\ SameTicket(a, r, s)
    /\ OrderUnclaimed(a, r, s)
    /\ KeepsFills(a, r, s)
    /\ intents[r].state = "terminal" => s.terminal

Observe(a, r, s) ==
    /\ Observable(a, r, s)
    /\ fills' = fills \cup RowsOf(a, r, s)
    /\ intents' = [intents EXCEPT ![r].order = s.order,
                                  ![r].state = IF s.terminal THEN "terminal" ELSE "open"]
    /\ UNCHANGED <<dispatched, lease>>

-----------------------------------------------------------------------------
(* The tables under any client and any provider: every call in any order,
   and every row a provider could send. *)

LedgerNext ==
    \/ \E a \in Account, o \in Owner : AcquireLease(a, o)
    \/ \E a \in Account, o \in Owner : RenewLease(a, o)
    \/ \E a \in Account, o \in Owner : ReleaseLease(a, o)
    \/ Tick
    \/ \E a \in Account, r \in Ref, p \in Payload : Reserve(a, r, p)
    \/ \E r \in Ref, counted \in BOOLEAN : MarkSubmitting(r, counted)
    \/ \E r \in Ref : MarkUnknown(r)
    \/ \E r \in Ref : AbandonReserved(r)
    \/ \E a \in Account, r \in Ref, s \in Snapshot : Observe(a, r, s)

LedgerSpec == LedgerInit /\ [][LedgerNext]_ledgerVars

-----------------------------------------------------------------------------
(* Properties *)

(* Every table holds rows of its schema. *)
LedgerTypeOK ==
    /\ intents \in [Ref -> Intent]
    /\ dispatched \subseteq Ref
    /\ fills \subseteq FillRow
    /\ lease \in [Account -> Lease]

(* An account never carries two tickets whose fate is open at once, whatever
   clients reserve, reconcile or abandon in between. *)
OnePendingPerAccount ==
    \A a \in Account : \A q, r \in Unresolved(a) : q = r

(* A ticket is bound to a provider order exactly when it was reconciled, and
   no two tickets of an account claim the same provider order. *)
OrderIdentity ==
    /\ \A r \in Ref : intents[r].order # None <=> intents[r].state \in {"open", "terminal"}
    /\ \A q, r \in Ref :
          /\ q # r
          /\ intents[q].account = intents[r].account
          /\ intents[q].order # None
          => intents[q].order # intents[r].order

(* A provider execution is counted once per account, for one ticket of that
   account that was really attempted and bound: repeated, reordered and
   mixed-up provider rows never double a fill. *)
FillIdentity ==
    /\ \A f, g \in fills : f.account = g.account /\ f.exec = g.exec => f = g
    /\ \A f \in fills :
          /\ intents[f.ref].account = f.account
          /\ intents[f.ref].state \in {"open", "terminal"}

(* Nothing is counted twice: neither an order for two tickets nor an
   execution for two orders (execution/equity_ledger.py:247). *)
CountedOnce == OrderIdentity /\ FillIdentity

(* While daily_usage answers, no ticket attempted before is missing from its
   count, and orders_since counts the same tickets.  Once a ticket was
   attempted without provenance it refuses for good: no later call makes it
   answer with that ticket left out (execution/equity_ledger.py:166). *)
UsageComplete ==
    [][\A a \in Account :
          UsageKnown(a)' => /\ UsageKnown(a)
                            /\ Attempted(a) \subseteq UsedToday(a)'
                            /\ OrdersSince(a)' = UsedToday(a)'
      ]_ledgerVars

(* Recorded fills are never rewritten or lost, a bound order never changes,
   and a terminal ticket stays terminal. *)
HistoryFinal ==
    [][/\ fills \subseteq fills'
       /\ \A r \in Ref :
             /\ intents[r].order # None => intents'[r].order = intents[r].order
             /\ intents[r].state \in {"terminal", "abandoned"} => intents'[r].state = intents[r].state
      ]_ledgerVars

(* A ticket that may have reached the provider stops being pending only when
   a provider row says that it is finished: no other operation frees the
   account for another ticket. *)
OnlyEvidenceResolves ==
    [][\A r \in Ref :
          intents[r].state \in {"submitting", "unknown", "open"}
             /\ intents'[r].state \notin {"submitting", "unknown", "open"}
          => intents'[r].state = "terminal" /\ intents'[r].order # None
      ]_ledgerVars

(* A live lease passes from one engine to another only after its owner gave
   it up or its time ran out. *)
LeaseHandover ==
    [][\A a \in Account :
          lease[a].left > 0 /\ lease'[a].owner # lease[a].owner => lease'[a] = NoLease
      ]_ledgerVars

(* Checked alone: every call in any order and every provider row.  No
   operation tells two members of one of these sets apart. *)
LedgerSymmetry ==
    Permutations(Account) \cup Permutations(Ref) \cup Permutations(OrderId)
        \cup Permutations(Exec) \cup Permutations(Payload) \cup Permutations(Owner)
=============================================================================
