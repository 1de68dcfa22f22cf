----------------------------- MODULE LegacyOrders -----------------------------
(***************************************************************************)
(* The order records of the retired route (persistence/execution_orders.py)*)
(* and what the risk rules read out of them (persistence/execution_risk.py)*)
(*                                                                         *)
(* One account and one fund.  An intent is recorded, marked before its     *)
(* order leaves, and told what became of it; the provider's reports come   *)
(* late, twice, cut short or altered, name any intent and list executions  *)
(* under any order.  Its clock counts its executions, and an execution is  *)
(* known by its instant.                                                   *)
(***************************************************************************)
EXTENDS Integers, Sequences, SequencesExt, FiniteSetsExt

CONSTANTS
    Ref,            \* references of intents
    Nobody,         \* no order
    Price,          \* of an execution
    Size,           \* shares of an order
    Authorized,     \* what an order may cost
    MaxFills        \* bound: executions

LegacyAssumption == Price \subseteq Nat \ {0} /\ Size \in Nat \ {0} /\ Authorized \in Nat /\ MaxFills \in Nat

VARIABLES
    intents,        \* table order_intents
    executions,     \* table broker_executions
    orders,         \* the provider's orders, by their ids
    filled          \* how many executions the provider has made

vars == <<intents, executions, orders, filled>>

Unwritten == [side |-> "none", state |-> "none", order |-> Nobody, submitted |-> -1]

Id == 1..Cardinality(Ref)

Init ==
    /\ intents = [r \in Ref |-> Unwritten]
    /\ executions = {} /\ orders = <<>> /\ filled = 0

-----------------------------------------------------------------------------
(* Writes *)

RecordIntent(r) ==
    /\ intents[r] = Unwritten
    /\ \E side \in {"buy", "sell"} :
          intents' = [intents EXCEPT ![r].side = side, ![r].state = "recorded"]
    /\ UNCHANGED <<executions, orders, filled>>

Submitted(r) == intents[r].submitted # -1

(* Once, before anything is sent; the order may reach the provider or not.
   Submitting and uncertain intents are unresolved alike. *)
MarkSubmitting(r) ==
    /\ intents[r] # Unwritten /\ ~Submitted(r)
    /\ intents' = [intents EXCEPT ![r].state = "unresolved", ![r].submitted = filled]
    /\ \/ orders' = Append(orders, [ref |-> r, side |-> intents[r].side, created |-> filled, fills |-> <<>>])
       \/ UNCHANGED orders
    /\ UNCHANGED <<executions, filled>>

(* An order id belongs to one intent; an update may also say none. *)
Bindable(r, id) == Submitted(r) /\ \A s \in Ref \ {r} : intents[s].order # id

UpdateIntent(r, id, state) ==
    /\ intents[r] # Unwritten
    /\ id # Nobody => Bindable(r, id)
    /\ intents' = [intents EXCEPT ![r].order = id, ![r].state = state]
    /\ UNCHANGED <<executions, orders, filled>>

(* What the route learns: the id and state of an order, its own or one that
   was taken for it, or that it cannot tell. *)
Answered(r) ==
    \/ Submitted(r) /\ UpdateIntent(r, Nobody, "unresolved")
    \/ \E id \in DOMAIN orders :
          UpdateIntent(r, id, IF orders[id].fills = <<>> THEN "open" ELSE "filled")

Cost(fills) == FoldLeft(LAMBDA sum, f : sum + f.quantity * f.price, 0, fills)

Shares(fills) == FoldLeft(LAMBDA sum, f : sum + f.quantity, 0, fills)

Rows(id, side, fills) ==
    {[order |-> id, side |-> side, fill |-> fills[n]] : n \in DOMAIN fills}

(* Mutant: an execution is looked up within its order. *)
ConflictsInOrder(rows) ==
    \E row \in rows, known \in executions :
        row.order = known.order /\ (row.side # known.side \/ (row.fill.at = known.fill.at /\ row # known))

(* An order keeps its side, an execution all of its facts, its order included. *)
Conflicts(rows) ==
    \E row \in rows, known \in executions :
        \/ row.order = known.order /\ row.side # known.side
        \/ row.fill.at = known.fill.at /\ row # known

(* The intents an order is bound to, and the one it names. *)
Owners(id, named) == {r \in Ref : intents[r].order = id} \cup named

Admissible(r, id, side, fills) ==
    /\ Submitted(r) /\ intents[r].order \in {Nobody, id}
    /\ orders[id].created >= intents[r].submitted
    /\ intents[r].side = side
    /\ Cost(fills) <= Authorized

(* record_broker_order_executions of one report: an order that names its
   intent is bound to it, one that names none may still be one of ours. *)
Record(id, named, side, fills) ==
    /\ Shares(fills) <= Size
    /\ Cardinality(Owners(id, named)) <= 1
    /\ \A r \in Owners(id, named) : Admissible(r, id, side, fills)
    /\ ~Conflicts(Rows(id, side, fills))
    /\ executions' = executions \cup Rows(id, side, fills)
    /\ intents' = [r \in Ref |-> IF r \in named THEN [intents[r] EXCEPT !.order = id] ELSE intents[r]]
    /\ UNCHANGED <<orders, filled>>

(* A report of an order: what it has filled, or had filled before, with the
   reference of one of our intents or without, with another price for what
   was filled, or with an execution of another order. *)
Report(id) ==
    \E n \in 0..Len(orders[id].fills), price \in Price,
       named \in {{}} \cup {{r} : r \in {s \in Ref : intents[s] # Unwritten}},
       moved \in {<<>>} \cup {<<f>> : f \in UNION {Range(orders[o].fills) : o \in DOMAIN orders \ {id}}} :
        LET told == SubSeq(orders[id].fills, 1, n)
        IN Record(id, named, orders[id].side,
                  (IF n > 0 THEN [told EXCEPT ![n].price = price] ELSE told) \o moved)

Traded(side) ==
    FoldLeft(LAMBDA sum, o : sum + (IF o.side = side THEN Shares(o.fills) ELSE 0), 0, orders)

(* The provider fills some of an order, and sells no more than is held. *)
Fill(id) ==
    /\ filled < MaxFills
    /\ \E price \in Price, quantity \in 1..Size :
          LET fills == Append(orders[id].fills, [quantity |-> quantity, price |-> price, at |-> filled])
          IN /\ Shares(fills) <= Size /\ Cost(fills) <= Authorized
             /\ orders[id].side = "sell" => Traded("sell") + quantity <= Traded("buy")
             /\ orders' = [orders EXCEPT ![id].fills = fills]
    /\ filled' = filled + 1
    /\ UNCHANGED <<intents, executions>>

Next ==
    \/ \E r \in Ref : RecordIntent(r) \/ MarkSubmitting(r) \/ Answered(r)
    \/ \E id \in DOMAIN orders : Report(id) \/ Fill(id)

Spec == Init /\ [][Next]_vars

-----------------------------------------------------------------------------
(* Reads *)

InTime(rows) == SetToSortSeq(rows, LAMBDA a, b : a.fill.at < b.fill.at)

(* active_holding_start: what is held, and since when. *)
NoHistory == [held |-> 0, start |-> -1, valid |-> TRUE]

Bought(h, f) ==
    [h EXCEPT !.held = @ + f.quantity, !.start = IF h.held = 0 THEN f.at ELSE @]

Sold(h, f) ==
    IF h.held < f.quantity THEN [h EXCEPT !.valid = FALSE]
    ELSE [h EXCEPT !.held = @ - f.quantity, !.start = IF h.held = f.quantity THEN -1 ELSE @]

(* A history with a sale of what was never bought is refused. *)
History(rows) ==
    FoldLeft(LAMBDA h, row : IF ~h.valid THEN h
                             ELSE IF row.side = "buy" THEN Bought(h, row.fill) ELSE Sold(h, row.fill),
             NoHistory, InTime(rows))

RowsOf(rows, id) == {row \in rows : row.order = id}

(* incomplete_execution_provenance: fills that were claimed and never seen. *)
Gaps ==
    {r \in Ref : /\ Submitted(r) /\ intents[r].side = "buy" /\ intents[r].state = "filled"
                 /\ (intents[r].order = Nobody \/ RowsOf(executions, intents[r].order) = {})}

(* Every purchase the provider has filled was noted as filled. *)
Claimed ==
    \A id \in DOMAIN orders : orders[id].side = "buy" /\ orders[id].fills # <<>>
        => intents[orders[id].ref].state = "filled"

(* What the provider would answer now. *)
Provided == UNION {Rows(id, orders[id].side, orders[id].fills) : id \in DOMAIN orders}

(* validate_execution_inventory *)
Reconciled == History(executions).valid /\ History(executions).held = History(Provided).held

-----------------------------------------------------------------------------
(* An order has at most one intent, whichever intent its reports name, and
   whatever ids the route was told and took back before
   (execution_orders.py:55, execution_orders.py:237). *)
OneIntentPerOrder ==
    \A r, s \in Ref : intents[r].order # Nobody /\ intents[s].order = intents[r].order => s = r

(* An execution is counted once, for one order and on one side, and keeps its
   facts: no report moves it to another order (execution_orders.py:347). *)
ExecutionsCountedOnce ==
    /\ \A x, y \in executions : x.fill.at = y.fill.at => x = y
    /\ \A x, y \in executions : x.order = y.order => x.side = y.side

(* Of each step: no execution is forgotten, and the report that adds one
   leaves every binding there was. *)
ReportsOnlyAdd ==
    /\ executions \subseteq executions'
    /\ executions' # executions =>
          \A r \in Ref : intents[r].order # Nobody => intents'[r].order = intents[r].order

(* What is recorded for an order of ours costs no more than was authorized
   for it, over all its reports, the altered ones included, as long as they
   list nothing of another order (execution_orders.py:309).  Of each step. *)
WithinAuthorized ==
    \A r \in Ref :
        LET id == intents'[r].order
            rows == RowsOf(executions', id)
        IN /\ id # Nobody /\ rows # RowsOf(executions, id)
           /\ \A row \in rows : \E f \in Range(orders[id].fills) : f.at = row.fill.at
           => MapThenSumSet(LAMBDA row : row.fill.quantity * row.fill.price, rows) <= Authorized

(* Inventory that reconciles, with no claimed fill missing and every order and
   execution where it belongs, is held since its first share was bought
   (execution_risk.py:112). *)
Attributed ==
    /\ \A row \in executions : \E true \in Provided :
          true.order = row.order /\ true.fill.at = row.fill.at
    /\ \A r \in Ref : intents[r].order # Nobody => orders[intents[r].order].ref = r

HoldingStartKnown ==
    Claimed /\ Gaps = {} /\ Reconciled /\ Attributed
        => History(executions).start <= History(Provided).start
=============================================================================
