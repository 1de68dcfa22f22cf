------------------------- MODULE EquityLedgerProofs -------------------------
(***************************************************************************)
(* The safety properties of EquityLedger for every set of accounts,        *)
(* references, orders, executions and owners and for every lease time.     *)
(* The invariants of the model-checked runs are inductive together, so     *)
(* LedgerInv is their conjunction; each operation is one lemma, and the    *)
(* theorems follow from them.                                              *)
(***************************************************************************)
EXTENDS EquityLedger, TLAPS

(* A dispatch row belongs to a ticket that was attempted. *)
DispatchedAttempted == \A r \in dispatched : intents[r].state \in AttemptedStates

LedgerInv ==
    /\ LedgerTypeOK
    /\ OnePendingPerAccount
    /\ OrderIdentity
    /\ FillIdentity
    /\ DispatchedAttempted

-----------------------------------------------------------------------------
(* Type correctness, operation by operation. *)

LEMMA InitType == LedgerInit => LedgerTypeOK
  BY TTLAssumption DEF LedgerInit, LedgerTypeOK, Absent, NoLease, Intent, Lease, States

LEMMA LeaseType ==
    ASSUME LedgerTypeOK, NEW a \in Account, NEW o \in Owner,
           AcquireLease(a, o) \/ RenewLease(a, o) \/ ReleaseLease(a, o)
    PROVE  LedgerTypeOK'
<1>1. TTL \in 0..TTL
  BY TTLAssumption
<1>2. NoLease \in Lease
  BY TTLAssumption DEF NoLease, Lease
<1>3. lease' \in [Account -> Lease]
  BY <1>1, <1>2 DEF LedgerTypeOK, AcquireLease, RenewLease, ReleaseLease, Lease
<1> QED
  BY <1>3 DEF LedgerTypeOK, AcquireLease, RenewLease, ReleaseLease

LEMMA TickType == LedgerTypeOK /\ Tick => LedgerTypeOK'
<1> SUFFICES ASSUME LedgerTypeOK, Tick PROVE LedgerTypeOK'
  OBVIOUS
<1>1. ASSUME NEW a \in Account
      PROVE  [lease[a] EXCEPT !.left = IF @ > 0 THEN @ - 1 ELSE 0] \in Lease
  <2>1. lease[a] \in Lease
    BY DEF LedgerTypeOK
  <2>2. (IF lease[a].left > 0 THEN lease[a].left - 1 ELSE 0) \in 0..TTL
    BY <2>1, TTLAssumption DEF Lease
  <2> QED
    BY <2>1, <2>2 DEF Lease
<1> QED
  BY <1>1 DEF LedgerTypeOK, Tick

LEMMA TicketType ==
    ASSUME LedgerTypeOK, NEW a \in Account, NEW r \in Ref, NEW p \in Payload,
           NEW counted \in BOOLEAN,
           Reserve(a, r, p) \/ MarkSubmitting(r, counted) \/ MarkUnknown(r) \/ AbandonReserved(r)
    PROVE  LedgerTypeOK'
<1>1. intents' \in [Ref -> Intent]
  BY DEF LedgerTypeOK, Reserve, MarkSubmitting, MarkUnknown, AbandonReserved, Intent, States
<1> QED
  BY <1>1 DEF LedgerTypeOK, Reserve, MarkSubmitting, MarkUnknown, AbandonReserved

LEMMA ObserveType ==
    ASSUME LedgerTypeOK, NEW a \in Account, NEW r \in Ref, NEW s \in Snapshot, Observe(a, r, s)
    PROVE  LedgerTypeOK'
<1>1. intents' \in [Ref -> Intent]
  <2>1. s.order \in OrderId
    BY DEF Snapshot
  <2>2. intents[r] \in Intent
    BY DEF LedgerTypeOK
  <2>3. [intents[r] EXCEPT !.order = s.order, !.state = IF s.terminal THEN "terminal" ELSE "open"] \in Intent
    BY <2>1, <2>2 DEF Intent, States
  <2>4. intents' = [intents EXCEPT ![r] =
           [intents[r] EXCEPT !.order = s.order, !.state = IF s.terminal THEN "terminal" ELSE "open"]]
    BY DEF Observe, LedgerTypeOK
  <2> QED
    BY <2>3, <2>4 DEF LedgerTypeOK
<1>2. RowsOf(a, r, s) \subseteq FillRow
  BY DEF RowsOf, FillRow, Snapshot, Execution
<1> QED
  BY <1>1, <1>2 DEF LedgerTypeOK, Observe

LEMMA NextType == LedgerTypeOK /\ [LedgerNext]_ledgerVars => LedgerTypeOK'
<1> SUFFICES ASSUME LedgerTypeOK, [LedgerNext]_ledgerVars PROVE LedgerTypeOK'
  OBVIOUS
<1>1. CASE UNCHANGED ledgerVars
  BY <1>1 DEF LedgerTypeOK, ledgerVars
<1>2. CASE LedgerNext
  <2>1. CASE \E a \in Account, o \in Owner : AcquireLease(a, o) \/ RenewLease(a, o) \/ ReleaseLease(a, o)
    BY <2>1, LeaseType
  <2>2. CASE Tick
    BY <2>2, TickType
  <2>3. CASE \E a \in Account, r \in Ref, p \in Payload : Reserve(a, r, p)
    BY <2>3, TicketType
  <2>4. CASE \E r \in Ref, counted \in BOOLEAN : MarkSubmitting(r, counted)
    BY <2>4 DEF LedgerTypeOK, MarkSubmitting, Intent, States
  <2>5. CASE \E r \in Ref : MarkUnknown(r)
    BY <2>5 DEF LedgerTypeOK, MarkUnknown, Intent, States
  <2>6. CASE \E r \in Ref : AbandonReserved(r)
    BY <2>6 DEF LedgerTypeOK, AbandonReserved, Intent, States
  <2>7. CASE \E a \in Account, r \in Ref, s \in Snapshot : Observe(a, r, s)
    BY <2>7, ObserveType
  <2> QED
    BY <1>2, <2>1, <2>2, <2>3, <2>4, <2>5, <2>6, <2>7 DEF LedgerNext
<1> QED
  BY <1>1, <1>2

(* Type correctness of the ledger for every value of its constants: the
   tables hold only rows of the schema, and no lease outlives its TTL. *)
THEOREM LedgerTypeCorrect == LedgerSpec => []LedgerTypeOK
<1>1. LedgerInit => LedgerTypeOK
  BY InitType
<1>2. LedgerTypeOK /\ [LedgerNext]_ledgerVars => LedgerTypeOK'
  BY NextType
<1> QED
  BY <1>1, <1>2, PTL DEF LedgerSpec

-----------------------------------------------------------------------------
(* What the ticket operations do to the intents. *)

LEMMA OrderIsNotNull == \A s \in Snapshot : s.order # None
  BY NullAssumption DEF Snapshot

LEMMA AccountIsNotNull == \A a \in Account : a # None
  BY NullAssumption

LEMMA ReserveEffect ==
    ASSUME LedgerTypeOK, NEW a \in Account, NEW r \in Ref, NEW p \in Payload, Reserve(a, r, p)
    PROVE  /\ intents[r].state = "absent" /\ Unresolved(a) = {}
           /\ intents'[r].state = "reserved" /\ intents'[r].account = a
           /\ intents'[r].order = None
           /\ \A q \in Ref \ {r} : intents'[q] = intents[q]
           /\ UNCHANGED <<dispatched, fills>>
  BY DEF LedgerTypeOK, Reserve, Reservable

(* mark_submitting, mark_unknown and abandon_reserved change one state. *)
Moves(r, from, to) ==
    /\ intents[r].state = from
    /\ intents'[r].state = to
    /\ intents'[r].account = intents[r].account
    /\ intents'[r].order = intents[r].order
    /\ \A q \in Ref \ {r} : intents'[q] = intents[q]
    /\ UNCHANGED fills

(* At most a dispatch row of this ticket is written. *)
Counts(r) == dispatched' \in {dispatched, dispatched \cup {r}}

LEMMA MoveEffect ==
    ASSUME LedgerTypeOK, NEW r \in Ref, NEW counted \in BOOLEAN
    PROVE  /\ MarkSubmitting(r, counted) => Moves(r, "reserved", "submitting") /\ Counts(r)
           /\ MarkUnknown(r) => Moves(r, "submitting", "unknown") /\ UNCHANGED dispatched
           /\ AbandonReserved(r) => Moves(r, "reserved", "abandoned") /\ UNCHANGED dispatched
<1>1. intents \in [Ref -> Intent]
  BY DEF LedgerTypeOK
<1>2. \A t \in States : [intents[r] EXCEPT !.state = t].account = intents[r].account
                     /\ [intents[r] EXCEPT !.state = t].order = intents[r].order
                     /\ [intents[r] EXCEPT !.state = t].state = t
  BY <1>1 DEF Intent
<1>3. ASSUME MarkSubmitting(r, counted)
      PROVE  Moves(r, "reserved", "submitting") /\ Counts(r)
  BY <1>1, <1>2, <1>3 DEF MarkSubmitting, Moves, Counts, States
<1>4. ASSUME MarkUnknown(r) PROVE Moves(r, "submitting", "unknown") /\ UNCHANGED dispatched
  BY <1>1, <1>2, <1>4 DEF MarkUnknown, Moves, States
<1>5. ASSUME AbandonReserved(r) PROVE Moves(r, "reserved", "abandoned") /\ UNCHANGED dispatched
  BY <1>1, <1>2, <1>5 DEF AbandonReserved, Moves, States
<1> QED
  BY <1>3, <1>4, <1>5

LEMMA ObserveEffect ==
    ASSUME LedgerTypeOK, NEW a \in Account, NEW r \in Ref, NEW s \in Snapshot, Observe(a, r, s)
    PROVE  /\ intents[r].state \in AttemptedStates /\ intents[r].account = a
           /\ intents[r].state = "terminal" => s.terminal
           /\ intents[r].order # None => intents[r].order = s.order
           /\ intents'[r].state = IF s.terminal THEN "terminal" ELSE "open"
           /\ intents'[r].account = a
           /\ intents'[r].order = s.order
           /\ \A q \in Ref \ {r} : intents'[q] = intents[q]
           /\ fills' = fills \cup RowsOf(a, r, s)
           /\ UNCHANGED dispatched
<1>1. intents \in [Ref -> Intent] /\ intents[r] \in Intent
  BY DEF LedgerTypeOK
<1>2. PICK new \in Intent :
         new = [intents[r] EXCEPT !.order = s.order, !.state = IF s.terminal THEN "terminal" ELSE "open"]
  BY <1>1 DEF Intent, Snapshot, States
<1>3. /\ new.state = (IF s.terminal THEN "terminal" ELSE "open")
      /\ new.account = intents[r].account /\ new.order = s.order
  BY <1>1, <1>2 DEF Intent
<1>4. intents' = [intents EXCEPT ![r] = new]
  BY <1>1, <1>2 DEF Observe
<1>5. SameTicket(a, r, s) /\ (intents[r].state = "terminal" => s.terminal)
  BY DEF Observe, Observable
<1> QED
  BY <1>1, <1>3, <1>4, <1>5 DEF SameTicket, Observe

(* Lease operations leave every other table alone. *)
LEMMA LeaseFrame ==
    ASSUME \/ \E a \in Account, o \in Owner : AcquireLease(a, o) \/ RenewLease(a, o) \/ ReleaseLease(a, o)
           \/ Tick
           \/ UNCHANGED ledgerVars
    PROVE  UNCHANGED <<intents, dispatched, fills>>
  BY DEF AcquireLease, RenewLease, ReleaseLease, Tick, ledgerVars

-----------------------------------------------------------------------------
(* Every step of the ledger, by what it does to intents and fills. *)

IntentStep ==
    \/ UNCHANGED <<intents, dispatched, fills>>
    \/ \E a \in Account, r \in Ref, p \in Payload : Reserve(a, r, p)
    \/ \E r \in Ref : Moves(r, "reserved", "submitting") /\ Counts(r)
    \/ \E r \in Ref : Moves(r, "submitting", "unknown") /\ UNCHANGED dispatched
    \/ \E r \in Ref : Moves(r, "reserved", "abandoned") /\ UNCHANGED dispatched
    \/ \E a \in Account, r \in Ref, s \in Snapshot : Observe(a, r, s)

LEMMA StepShape == LedgerTypeOK /\ [LedgerNext]_ledgerVars => IntentStep
  BY LeaseFrame, MoveEffect DEF LedgerNext, IntentStep

LEMMA PendingStep ==
    ASSUME LedgerTypeOK, OnePendingPerAccount, IntentStep
    PROVE  OnePendingPerAccount'
<1> USE DEF Unresolved, PendingStates
<1>1. CASE UNCHANGED <<intents, dispatched, fills>>
  BY <1>1 DEF OnePendingPerAccount
<1>2. ASSUME NEW a \in Account, NEW r \in Ref, NEW p \in Payload, Reserve(a, r, p)
      PROVE  OnePendingPerAccount'
  <2>1. \A q \in Ref \ {r} : intents'[q] = intents[q]
    BY <1>2, ReserveEffect
  <2>2. \A q \in Ref : ~(intents[q].state \in PendingStates /\ intents[q].account = a)
    BY <1>2, ReserveEffect
  <2>3. intents'[r].account = a
    BY <1>2, ReserveEffect
  <2> QED
    BY <2>1, <2>2, <2>3 DEF OnePendingPerAccount
<1>3. ASSUME NEW r \in Ref, Moves(r, "reserved", "submitting") \/ Moves(r, "submitting", "unknown")
                            \/ Moves(r, "reserved", "abandoned")
      PROVE  OnePendingPerAccount'
  <2>1. \A q \in Ref : intents'[q].account = intents[q].account
                    /\ (intents'[q].state \in PendingStates => intents[q].state \in PendingStates)
    BY <1>3 DEF Moves
  <2> QED
    BY <2>1 DEF OnePendingPerAccount
<1>4. ASSUME NEW a \in Account, NEW r \in Ref, NEW s \in Snapshot, Observe(a, r, s)
      PROVE  OnePendingPerAccount'
  <2>1. \A q \in Ref : intents'[q].account = intents[q].account
                    /\ (intents'[q].state \in PendingStates => intents[q].state \in PendingStates)
    BY <1>4, ObserveEffect DEF AttemptedStates
  <2> QED
    BY <2>1 DEF OnePendingPerAccount
<1> QED
  BY <1>1, <1>2, <1>3, <1>4 DEF IntentStep

LEMMA IdentityStep ==
    ASSUME LedgerTypeOK, OrderIdentity, IntentStep
    PROVE  OrderIdentity'
<1>1. CASE UNCHANGED <<intents, dispatched, fills>>
  BY <1>1 DEF OrderIdentity
<1>2. ASSUME NEW a \in Account, NEW r \in Ref, NEW p \in Payload, Reserve(a, r, p)
      PROVE  OrderIdentity'
  BY <1>2, ReserveEffect DEF OrderIdentity
<1>3. ASSUME NEW r \in Ref, Moves(r, "reserved", "submitting") \/ Moves(r, "submitting", "unknown")
                            \/ Moves(r, "reserved", "abandoned")
      PROVE  OrderIdentity'
  <2>1. \A q \in Ref : /\ intents'[q].account = intents[q].account
                       /\ intents'[q].order = intents[q].order
                       /\ intents'[q].state \in {"open", "terminal"} <=> intents[q].state \in {"open", "terminal"}
    BY <1>3 DEF Moves
  <2> QED
    BY <2>1 DEF OrderIdentity
<1>4. ASSUME NEW a \in Account, NEW r \in Ref, NEW s \in Snapshot, Observe(a, r, s)
      PROVE  OrderIdentity'
  <2>1. \A q \in Ref \ {r} : intents[q].account = a => intents[q].order # s.order
    BY <1>4 DEF Observe, Observable, OrderUnclaimed
  <2>2. intents'[r].state \in {"open", "terminal"} /\ intents'[r].order = s.order /\ intents'[r].account = a
    BY <1>4, ObserveEffect
  <2>3. \A q \in Ref \ {r} : intents'[q] = intents[q]
    BY <1>4, ObserveEffect
  <2> QED
    BY <2>1, <2>2, <2>3, OrderIsNotNull DEF OrderIdentity
<1> QED
  BY <1>1, <1>2, <1>3, <1>4 DEF IntentStep

LEMMA FillStep ==
    ASSUME LedgerTypeOK, FillIdentity, IntentStep
    PROVE  FillIdentity'
<1> DEFINE Bound(f) == intents[f.ref].account = f.account /\ intents[f.ref].state \in {"open", "terminal"}
<1>0. \A f \in fills : f.ref \in Ref /\ Bound(f)
  BY DEF LedgerTypeOK, FillRow, FillIdentity
<1>1. CASE UNCHANGED <<intents, dispatched, fills>>
  BY <1>1 DEF FillIdentity
<1>2. ASSUME NEW a \in Account, NEW r \in Ref, NEW p \in Payload, Reserve(a, r, p)
      PROVE  FillIdentity'
  BY <1>0, <1>2, ReserveEffect DEF FillIdentity
<1>3. ASSUME NEW r \in Ref, Moves(r, "reserved", "submitting") \/ Moves(r, "submitting", "unknown")
                            \/ Moves(r, "reserved", "abandoned")
      PROVE  FillIdentity'
  <2>1. \A f \in fills : intents'[f.ref] = intents[f.ref]
    BY <1>0, <1>3 DEF Moves
  <2> QED
    BY <1>3, <2>1 DEF FillIdentity, Moves
<1>4. ASSUME NEW a \in Account, NEW r \in Ref, NEW s \in Snapshot, Observe(a, r, s)
      PROVE  FillIdentity'
  <2>1. fills' = fills \cup RowsOf(a, r, s)
    BY <1>4, ObserveEffect
  <2>2. \A f \in RowsOf(a, r, s) : f.account = a /\ f.ref = r
    BY DEF RowsOf
  <2>3. \A f, g \in RowsOf(a, r, s) : f.exec = g.exec => f = g
    BY <1>4 DEF Observe, Observable, ValidSnapshot, RowsOf
  <2>4. \A f \in fills, g \in RowsOf(a, r, s) : f.account = g.account /\ f.exec = g.exec => f = g
    BY <1>4 DEF Observe, Observable, KeepsFills
  <2>5. \A f, g \in fills' : f.account = g.account /\ f.exec = g.exec => f = g
    BY <2>1, <2>3, <2>4 DEF FillIdentity
  <2>6. /\ intents'[r].account = a /\ intents'[r].state \in {"open", "terminal"}
        /\ \A q \in Ref \ {r} : intents'[q] = intents[q]
        /\ intents[r].account = a
    BY <1>4, ObserveEffect
  <2>7. \A f \in fills' : intents'[f.ref].account = f.account /\ intents'[f.ref].state \in {"open", "terminal"}
    BY <1>0, <2>1, <2>2, <2>6
  <2> QED
    BY <2>5, <2>7 DEF FillIdentity
<1> QED
  BY <1>1, <1>2, <1>3, <1>4 DEF IntentStep

LEMMA DispatchStep ==
    ASSUME LedgerTypeOK, DispatchedAttempted, IntentStep
    PROVE  DispatchedAttempted'
<1> USE DEF DispatchedAttempted, AttemptedStates
<1>0. dispatched \subseteq Ref
  BY DEF LedgerTypeOK
<1>1. CASE UNCHANGED <<intents, dispatched, fills>>
  BY <1>1
<1>2. ASSUME NEW a \in Account, NEW r \in Ref, NEW p \in Payload, Reserve(a, r, p)
      PROVE  DispatchedAttempted'
  BY <1>0, <1>2, ReserveEffect
<1>3. ASSUME NEW r \in Ref, Moves(r, "reserved", "submitting"), Counts(r)
      PROVE  DispatchedAttempted'
  BY <1>0, <1>3 DEF Moves, Counts
<1>4. ASSUME NEW r \in Ref, Moves(r, "submitting", "unknown") \/ Moves(r, "reserved", "abandoned"),
             UNCHANGED dispatched
      PROVE  DispatchedAttempted'
  BY <1>0, <1>4 DEF Moves
<1>5. ASSUME NEW a \in Account, NEW r \in Ref, NEW s \in Snapshot, Observe(a, r, s)
      PROVE  DispatchedAttempted'
  <2>1. \A q \in Ref : intents'[q].state \in AttemptedStates <=> intents[q].state \in AttemptedStates
    BY <1>5, ObserveEffect
  <2> QED
    BY <1>0, <1>5, <2>1, ObserveEffect
<1> QED
  BY <1>1, <1>2, <1>3, <1>4, <1>5 DEF IntentStep

(* A ticket that was attempted stays attempted and keeps its account; a
   dispatch row is never deleted; and only the step that attempts a ticket
   writes one. *)
LEMMA AttemptStep ==
    ASSUME LedgerTypeOK, DispatchedAttempted, IntentStep
    PROVE  /\ \A a \in Account : Attempted(a) \subseteq Attempted(a)'
           /\ \A a \in Account : Attempted(a) \cap dispatched' \subseteq dispatched
<1> USE DEF Attempted, AttemptedStates
<1>1. CASE UNCHANGED <<intents, dispatched, fills>>
  BY <1>1
<1>2. ASSUME NEW a \in Account, NEW r \in Ref, NEW p \in Payload, Reserve(a, r, p)
      PROVE  \A b \in Account : Attempted(b) \subseteq Attempted(b)' /\ UNCHANGED dispatched
  BY <1>2, ReserveEffect
<1>3. ASSUME NEW r \in Ref, Moves(r, "reserved", "submitting"), Counts(r)
      PROVE  \A b \in Account : /\ Attempted(b) \subseteq Attempted(b)'
                               /\ Attempted(b) \cap dispatched' \subseteq dispatched
  <2>1. \A b \in Account : r \notin Attempted(b)
    BY <1>3 DEF Moves
  <2>2. \A b \in Account : Attempted(b) \subseteq Attempted(b)'
    BY <1>3 DEF Moves
  <2> QED
    BY <1>3, <2>1, <2>2 DEF Counts
<1>4. ASSUME NEW r \in Ref, Moves(r, "submitting", "unknown") \/ Moves(r, "reserved", "abandoned"),
             UNCHANGED dispatched
      PROVE  \A b \in Account : Attempted(b) \subseteq Attempted(b)'
  BY <1>4 DEF Moves
<1>5. ASSUME NEW a \in Account, NEW r \in Ref, NEW s \in Snapshot, Observe(a, r, s)
      PROVE  \A b \in Account : Attempted(b) \subseteq Attempted(b)' /\ UNCHANGED dispatched
  BY <1>5, ObserveEffect
<1> QED
  BY <1>1, <1>2, <1>3, <1>4, <1>5 DEF IntentStep

-----------------------------------------------------------------------------
(* Main theorems *)

LEMMA InvariantInit == LedgerInit => LedgerInv
<1> SUFFICES ASSUME LedgerInit PROVE LedgerInv
  OBVIOUS
<1>1. \A r \in Ref : intents[r] = Absent
  BY DEF LedgerInit
<1>2. OnePendingPerAccount
  BY <1>1 DEF OnePendingPerAccount, Unresolved, PendingStates, Absent
<1>3. OrderIdentity
  BY <1>1 DEF OrderIdentity, Absent
<1>4. FillIdentity /\ DispatchedAttempted
  BY <1>1 DEF FillIdentity, DispatchedAttempted, LedgerInit
<1> QED
  BY <1>2, <1>3, <1>4, InitType DEF LedgerInv

LEMMA InvariantStep == LedgerInv /\ [LedgerNext]_ledgerVars => LedgerInv'
  BY NextType, StepShape, PendingStep, IdentityStep, FillStep, DispatchStep DEF LedgerInv

(* The inductive invariant holds in every reachable state of the ledger. *)
THEOREM LedgerInvariant == LedgerSpec => []LedgerInv
  BY InvariantInit, InvariantStep, PTL DEF LedgerSpec

(* However many accounts, engines and provider rows there are, no account
   ever has two tickets whose fate is open (the index equity_v1_one_pending
   together with every state change of the intents). *)
THEOREM OnePending == LedgerSpec => []OnePendingPerAccount
<1>1. LedgerInv => OnePendingPerAccount
  BY DEF LedgerInv
<1> QED
  BY <1>1, LedgerInvariant, PTL

(* A provider order is never claimed by two tickets of an account. *)
THEOREM OrdersIdentified == LedgerSpec => []OrderIdentity
<1>1. LedgerInv => OrderIdentity
  BY DEF LedgerInv
<1> QED
  BY <1>1, LedgerInvariant, PTL

(* Whatever rows the provider sends, and however often, an execution is
   counted once and for one attempted ticket of its account. *)
THEOREM FillsIdentified == LedgerSpec => []FillIdentity
<1>1. LedgerInv => FillIdentity
  BY DEF LedgerInv
<1> QED
  BY <1>1, LedgerInvariant, PTL

(* Orders and executions are counted once. *)
THEOREM IdentitiesHold == LedgerSpec => []CountedOnce
<1>1. LedgerInv => CountedOnce
  BY DEF LedgerInv, CountedOnce
<1> QED
  BY <1>1, LedgerInvariant, PTL

(* Whatever calls are made, with or without provenance: a daily usage that is
   answered counts every ticket attempted so far, the order rate counts the
   same tickets, and a usage that was once refused is never answered again. *)
THEOREM UsageCounted == LedgerSpec => UsageComplete
<1> DEFINE Complete == \A a \in Account :
                          UsageKnown(a)' => /\ UsageKnown(a)
                                            /\ Attempted(a) \subseteq UsedToday(a)'
                                            /\ OrdersSince(a)' = UsedToday(a)'
<1>1. ASSUME LedgerInv, [LedgerNext]_ledgerVars PROVE Complete
  <2>0. LedgerTypeOK /\ DispatchedAttempted /\ IntentStep
    BY <1>1, StepShape DEF LedgerInv
  <2>1. DispatchedAttempted' /\ LedgerTypeOK'
    BY <1>1, InvariantStep DEF LedgerInv
  <2>2. ASSUME NEW a \in Account, UsageKnown(a)'
        PROVE  /\ UsageKnown(a)
               /\ Attempted(a) \subseteq UsedToday(a)'
               /\ OrdersSince(a)' = UsedToday(a)'
    <3>1. /\ Attempted(a) \subseteq Attempted(a)'
          /\ Attempted(a) \cap dispatched' \subseteq dispatched
      BY <2>0, AttemptStep
    <3>2. Attempted(a)' \subseteq dispatched'
      BY <2>2 DEF UsageKnown
    <3>3. OrdersSince(a)' \subseteq Attempted(a)'
      BY <2>1 DEF OrdersSince, Attempted, DispatchedAttempted, LedgerTypeOK
    <3>4. Attempted(a)' \cap dispatched' \subseteq OrdersSince(a)'
      BY DEF OrdersSince, Attempted
    <3> QED
      BY <3>1, <3>2, <3>3, <3>4 DEF UsageKnown, UsedToday, OrdersSince
  <2> QED
    BY <2>2
<1> QED
  BY <1>1, LedgerInvariant, PTL DEF LedgerSpec, UsageComplete

(* Recorded history is final: no fill is lost or rewritten, no bound order is
   rebound and no terminal or abandoned ticket comes back. *)
THEOREM HistoryIsFinal == LedgerSpec => HistoryFinal
<1> DEFINE Final == /\ fills \subseteq fills'
                    /\ \A r \in Ref :
                          /\ intents[r].order # None => intents'[r].order = intents[r].order
                          /\ intents[r].state \in {"terminal", "abandoned"}
                                => intents'[r].state = intents[r].state
<1>1. ASSUME LedgerInv, [LedgerNext]_ledgerVars PROVE [Final]_ledgerVars
  <2>0. LedgerTypeOK /\ OrderIdentity /\ IntentStep
    BY <1>1, StepShape DEF LedgerInv
  <2>1. CASE UNCHANGED <<intents, dispatched, fills>>
    BY <2>1
  <2>2. ASSUME NEW a \in Account, NEW r \in Ref, NEW p \in Payload, Reserve(a, r, p)
        PROVE  Final
    BY <2>0, <2>2, ReserveEffect DEF OrderIdentity
  <2>3. ASSUME NEW r \in Ref, Moves(r, "reserved", "submitting") \/ Moves(r, "submitting", "unknown")
                              \/ Moves(r, "reserved", "abandoned")
        PROVE  Final
    BY <2>3 DEF Moves
  <2>4. ASSUME NEW a \in Account, NEW r \in Ref, NEW s \in Snapshot, Observe(a, r, s)
        PROVE  Final
    BY <2>0, <2>4, ObserveEffect DEF AttemptedStates
  <2> QED
    BY <2>0, <2>1, <2>2, <2>3, <2>4 DEF IntentStep
<1> QED
  BY <1>1, LedgerInvariant, PTL DEF LedgerSpec, HistoryFinal

(* Only a provider row that shows a finished order frees an account from a
   ticket that may have reached the provider. *)
THEOREM EvidenceResolves == LedgerSpec => OnlyEvidenceResolves
<1> DEFINE Live == {"submitting", "unknown", "open"}
           Evident == \A r \in Ref : intents[r].state \in Live /\ intents'[r].state \notin Live
                                       => intents'[r].state = "terminal" /\ intents'[r].order # None
<1>1. ASSUME LedgerInv, [LedgerNext]_ledgerVars PROVE [Evident]_ledgerVars
  <2>0. LedgerTypeOK /\ IntentStep
    BY <1>1, StepShape DEF LedgerInv
  <2>1. CASE UNCHANGED <<intents, dispatched, fills>>
    BY <2>1
  <2>2. ASSUME NEW a \in Account, NEW r \in Ref, NEW p \in Payload, Reserve(a, r, p)
        PROVE  Evident
    BY <2>0, <2>2, ReserveEffect
  <2>3. ASSUME NEW r \in Ref, Moves(r, "reserved", "submitting") \/ Moves(r, "submitting", "unknown")
                              \/ Moves(r, "reserved", "abandoned")
        PROVE  Evident
    BY <2>3 DEF Moves
  <2>4. ASSUME NEW a \in Account, NEW r \in Ref, NEW s \in Snapshot, Observe(a, r, s)
        PROVE  Evident
    BY <2>0, <2>4, ObserveEffect, OrderIsNotNull
  <2> QED
    BY <2>0, <2>1, <2>2, <2>3, <2>4 DEF IntentStep
<1> QED
  BY <1>1, LedgerInvariant, PTL DEF LedgerSpec, OnlyEvidenceResolves


(* A row of the lease table has an owner as long as it is running. *)
LeaseOwned == \A a \in Account : lease[a].owner = None => lease[a].left = 0

LEMMA OwnedInvariant == LedgerSpec => [](LedgerTypeOK /\ LeaseOwned)
<1>1. LedgerInit => LeaseOwned
  BY DEF LedgerInit, LeaseOwned, NoLease
<1>2. ASSUME LedgerTypeOK, LeaseOwned, [LedgerNext]_ledgerVars PROVE LeaseOwned'
  <2>0. lease \in [Account -> Lease]
    BY <1>2 DEF LedgerTypeOK
  <2>1. CASE UNCHANGED lease
    BY <1>2, <2>1 DEF LeaseOwned
  <2>2. ASSUME NEW b \in Account, NEW o \in Owner,
               AcquireLease(b, o) \/ RenewLease(b, o) \/ ReleaseLease(b, o)
        PROVE  LeaseOwned'
    <3>1. o # None
      BY NullAssumption
    <3>2. CASE AcquireLease(b, o)
      BY <1>2, <2>0, <3>1, <3>2 DEF AcquireLease, LeaseOwned
    <3>3. CASE RenewLease(b, o)
      BY <1>2, <2>0, <3>1, <3>3 DEF RenewLease, LeaseActive, LeaseOwned, Lease
    <3>4. CASE ReleaseLease(b, o)
      BY <1>2, <2>0, <3>4 DEF ReleaseLease, LeaseOwned, NoLease
    <3> QED
      BY <2>2, <3>2, <3>3, <3>4
  <2>3. CASE Tick
    <3>1. \A a \in Account : lease'[a] = [lease[a] EXCEPT !.left = IF @ > 0 THEN @ - 1 ELSE 0]
      BY <2>0, <2>3 DEF Tick
    <3>2. ASSUME NEW a \in Account
          PROVE  lease'[a].owner = lease[a].owner /\ (lease[a].left = 0 => lease'[a].left = 0)
      <4>1. lease[a] \in Lease
        BY <2>0
      <4>2. PICK n : n = IF lease[a].left > 0 THEN lease[a].left - 1 ELSE 0
        OBVIOUS
      <4>3. lease'[a] = [lease[a] EXCEPT !.left = n]
        BY <3>1, <4>2
      <4>4. lease'[a].owner = lease[a].owner /\ lease'[a].left = n
        BY <4>1, <4>3 DEF Lease
      <4> QED
        BY <4>2, <4>4
    <3> QED
      BY <1>2, <3>2 DEF LeaseOwned
  <2> QED
    BY <1>2, <2>1, <2>2, <2>3
    DEF LedgerNext, Reserve, MarkSubmitting, MarkUnknown, AbandonReserved, Observe, ledgerVars
<1> QED
  BY <1>1, <1>2, InitType, NextType, PTL DEF LedgerSpec

(* A lease that is still running changes hands only through its release. *)
THEOREM LeaseHandedOver == LedgerSpec => LeaseHandover
<1> DEFINE Handover == \A a \in Account :
                          lease[a].left > 0 /\ lease'[a].owner # lease[a].owner => lease'[a] = NoLease
<1>1. ASSUME LedgerTypeOK, LeaseOwned, [LedgerNext]_ledgerVars PROVE [Handover]_ledgerVars
  <2>0. lease \in [Account -> Lease]
    BY <1>1 DEF LedgerTypeOK
  <2>1. CASE UNCHANGED lease
    BY <2>1
  <2>2. ASSUME NEW b \in Account, NEW o \in Owner,
               AcquireLease(b, o) \/ RenewLease(b, o) \/ ReleaseLease(b, o)
        PROVE  Handover
    <3>1. CASE AcquireLease(b, o)
      BY <1>1, <2>0, <3>1 DEF AcquireLease, Acquirable, LeaseOwned, Lease
    <3>2. CASE RenewLease(b, o)
      BY <2>0, <3>2 DEF RenewLease, Lease
    <3>3. CASE ReleaseLease(b, o)
      BY <2>0, <3>3 DEF ReleaseLease
    <3> QED
      BY <2>2, <3>1, <3>2, <3>3
  <2>3. CASE Tick
    <3>1. \A a \in Account : lease'[a].owner = lease[a].owner
      BY <2>0, <2>3 DEF Tick, Lease
    <3> QED
      BY <3>1
  <2> QED
    BY <1>1, <2>1, <2>2, <2>3
    DEF LedgerNext, Reserve, MarkSubmitting, MarkUnknown, AbandonReserved, Observe, ledgerVars
<1> QED
  BY <1>1, OwnedInvariant, PTL DEF LedgerSpec, LeaseHandover
=============================================================================
