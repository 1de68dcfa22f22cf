-------------------------- MODULE MixedEngineProofs --------------------------
(***************************************************************************)
(* What holds of the mixed execution engine for any number of engines,     *)
(* references, lots and lease ticks.  Everything rests on SafetyInv: the   *)
(* ledger's rows are sound (LedgerRows), no request is on its way without  *)
(* one (WireAgrees), and what an engine carries from one await to the next *)
(* agrees with the tables and the provider (EnginesFit, RefsOwned).  The   *)
(* daily count, the fills and the position each add an invariant of their  *)
(* own on top of it.                                                       *)
(***************************************************************************)
EXTENDS MixedEngine, TLAPS, FiniteSetTheorems, WellFoundedInduction

-----------------------------------------------------------------------------
(* The inductive invariant *)

(* A row that an engine read is never ahead of the provider's order. *)
Agrees(row, order) ==
    /\ row.state = "absent" => row.executed = 0
    /\ row.state # "absent" => order.state # "absent"
    /\ row.state = "done" => order = row
    /\ row.executed <= order.executed

(* The tables: at most one ticket is pending, and the dispatch table counts
   exactly the attempted ones. *)
LedgerRows ==
    /\ \A r \in Ref :
        /\ intents[r].state # "absent" => intents[r].account = Acct /\ intents[r].payload \in Ticket
        /\ intents[r].order \in {None, r}
    /\ \A q, r \in Unresolved(Acct) : q = r
    /\ dispatched = {r \in Ref : intents[r].state \in AttemptedStates}
    /\ IsFiniteSet(dispatched) /\ IsFiniteSet(fills)

(* A request that left belongs to an attempted ticket, and a terminal ticket
   to a finished order. *)
WireAgrees ==
    \A r \in Ref :
        /\ wire[r] # "idle" => intents[r].state \in AttemptedStates
        /\ broker[r].state # "absent" => wire[r] = "sent"
        /\ broker[r].state = "absent" => broker[r].executed = 0
        /\ intents[r].state = "terminal" => broker[r].state = "done"

(* What an engine's record says about the ledger, the wire and the provider. *)
Fits(x) ==
    /\ \A r \in Ref : Agrees(x.rows[r], broker[r])
    /\ x.pc \in Selected \cup {"settling"} => x.ref # None
    /\ x.pc \notin Selected \cup Stopping => x.ref = None
    /\ x.pc \in {"eligibility", "ticket"} => x.ticket # None /\ intents[x.ref].state = "absent"
    /\ x.pc \in {"reserved", "cleared"} =>
          intents[x.ref].state = "reserved" /\ intents[x.ref].payload = x.ticket
    /\ x.pc \in {"marked", "placing"} => intents[x.ref].state = "submitting" /\ wire[x.ref] = "idle"
    /\ x.pc = "waiting" => wire[x.ref] \in {"queued", "sent"}
    /\ x.pc = "answered" => x.rows[x.ref].state # "absent"

EnginesFit == \A e \in Engine : Fits(engine[e])

(* No two engines hold the same reference. *)
RefsOwned == \A d, e \in Engine : engine[d].ref = engine[e].ref => d = e \/ engine[e].ref = None

SafetyInv == TypeOK /\ LedgerRows /\ WireAgrees /\ EnginesFit /\ RefsOwned

-----------------------------------------------------------------------------
(* Sums over finite sets.  SumFunctionOnSet folds over a set by taking out an
   element at a time.  Its laws are proved from a smallest set that breaks
   them, which the well-founded order of Nat provides. *)

(* The element that the folds of the library take next. *)
Next1(S) == CHOOSE x \in S : TRUE

(* g adds up f over every part of S, the way the library's fold does it. *)
Adds(g, f, S) ==
    g = [s \in SUBSET S |-> IF s = {} THEN 0 ELSE f[Next1(s)] + g[s \ {Next1(s)}]]

(* Among finite sets there is a smallest one. *)
LEMMA SmallestSet ==
    ASSUME NEW Bad, Bad # {}, \A T \in Bad : IsFiniteSet(T)
    PROVE  \E T \in Bad : \A U \in Bad : Cardinality(U) >= Cardinality(T)
<1> DEFINE less == {ss \in Nat \X Nat : ss[1] < ss[2]}
<1> DEFINE sizes == {n \in Nat : \E T \in Bad : n = Cardinality(T)}
<1>1. IsWellFoundedOn(less, Nat)
  BY NatLessThanWellFounded DEF OpToRel
<1>2. \A T \in Bad : Cardinality(T) \in sizes
  BY FS_CardinalityType
<1>3. sizes \subseteq Nat /\ sizes # {}
  BY <1>2
<1>4. PICK n \in sizes : \A m \in sizes : <<m, n>> \notin less
  <2> HIDE DEF less, sizes
  <2> QED
    BY <1>1, <1>3, WFMin
<1>5. PICK T \in Bad : n = Cardinality(T)
  OBVIOUS
<1>6. ASSUME NEW U \in Bad PROVE Cardinality(U) >= Cardinality(T)
  <2>1. Cardinality(U) \in sizes /\ Cardinality(U) \in Nat
    BY <1>2
  <2>2. ~(Cardinality(U) < n)
    BY <1>4, <2>1
  <2> QED
    BY <1>5, <2>1, <2>2
<1> QED
  BY <1>6

LEMMA TakenOut ==
    ASSUME NEW S, IsFiniteSet(S), NEW x \in S
    PROVE  IsFiniteSet(S \ {x}) /\ ~(Cardinality(S \ {x}) >= Cardinality(S))
<1>1. IsFiniteSet(S \ {x}) /\ Cardinality(S \ {x}) = Cardinality(S) - 1
  BY FS_RemoveElement
<1>2. Cardinality(S) \in Nat
  BY FS_CardinalityType
<1> QED
  BY <1>1, <1>2

LEMMA NextIn ==
    ASSUME NEW S, S # {}
    PROVE  Next1(S) \in S
  BY DEF Next1

(* Two such functions agree on every set that both add up. *)
LEMMA AddsOneWay ==
    ASSUME NEW f, NEW A, NEW B, NEW g, NEW h, Adds(g, f, A), Adds(h, f, B),
           NEW S, S \subseteq A, S \subseteq B, IsFiniteSet(S)
    PROVE  g[S] = h[S]
<1> DEFINE Bad == {s \in SUBSET S : g[s] # h[s]}
<1>1. SUFFICES ASSUME Bad # {} PROVE FALSE
  OBVIOUS
<1>2. PICK T \in Bad : \A U \in Bad : Cardinality(U) >= Cardinality(T)
  BY <1>1, SmallestSet, FS_Subset
<1>3. IsFiniteSet(T) /\ T \subseteq A /\ T \subseteq B
  BY FS_Subset
<1>4. T # {}
  BY <1>3 DEF Adds
<1>5. Next1(T) \in T
  BY <1>4, NextIn
<1>6. g[T \ {Next1(T)}] = h[T \ {Next1(T)}]
  BY <1>2, <1>3, <1>5, TakenOut
<1>7. g[T] = f[Next1(T)] + g[T \ {Next1(T)}] /\ h[T] = f[Next1(T)] + h[T \ {Next1(T)}]
  BY <1>3, <1>4 DEF Adds
<1> QED
  BY <1>6, <1>7

(* Such a function exists, so the fold's CHOOSE denotes it. *)
LEMMA AddsExists ==
    ASSUME NEW f, NEW S, IsFiniteSet(S)
    PROVE  \E g : Adds(g, f, S)
<1> DEFINE Bad == {s \in SUBSET S : \A g : ~Adds(g, f, s)}
<1>1. SUFFICES ASSUME Bad # {} PROVE FALSE
  OBVIOUS
<1>2. PICK T \in Bad : \A U \in Bad : Cardinality(U) >= Cardinality(T)
  <2>1. \A U \in Bad : IsFiniteSet(U)
    BY FS_Subset
  <2> QED
    BY <1>1, <2>1, SmallestSet
<1>3. IsFiniteSet(T) /\ T \subseteq S
  BY FS_Subset
<1> DEFINE sum(s) == CHOOSE g : Adds(g, f, s)
<1>4. ASSUME NEW s, s \subseteq T, s # T PROVE Adds(sum(s), f, s)
  <2>1. IsFiniteSet(s) /\ Cardinality(s) <= Cardinality(T) /\ Cardinality(s) # Cardinality(T)
    BY <1>3, <1>4, FS_Subset
  <2>2. ~(Cardinality(s) >= Cardinality(T))
    BY <1>3, <2>1, FS_CardinalityType
  <2>3. s \notin Bad /\ s \subseteq S
    BY <1>2, <1>3, <1>4, <2>2
  <2>4. \E g : Adds(g, f, s)
    BY <2>3
  <2> QED
    BY <2>4
<1> DEFINE whole == [s \in SUBSET T |->
                        IF s = {} THEN 0
                        ELSE f[Next1(s)] + sum(s \ {Next1(s)})[s \ {Next1(s)}]]
<1>5. ASSUME NEW s, s \subseteq T, s # {}
      PROVE  whole[s \ {Next1(s)}] = sum(s \ {Next1(s)})[s \ {Next1(s)}]
  <2> DEFINE u == s \ {Next1(s)}
  <2>1. Next1(s) \in s /\ u \subseteq T /\ u # T
    BY <1>5, NextIn
  <2>2. Adds(sum(u), f, u)
    BY <2>1, <1>4
  <2>3. CASE u = {}
    BY <2>1, <2>2, <2>3 DEF Adds
  <2>4. CASE u # {}
    <3> DEFINE v == u \ {Next1(u)}
    <3>1. Next1(u) \in u /\ v \subseteq u /\ v \subseteq T /\ v # T /\ IsFiniteSet(v)
      BY <1>3, <2>1, <2>4, NextIn, FS_Subset
    <3>2. Adds(sum(v), f, v)
      BY <3>1, <1>4
    <3> HIDE DEF sum
    <3>3. sum(u)[u] = f[Next1(u)] + sum(u)[v]
      BY <2>2, <2>4 DEF Adds
    <3>4. sum(u)[v] = sum(v)[v]
      <4> HIDE DEF v, u
      <4> QED
        BY <2>2, <3>1, <3>2, AddsOneWay
    <3>5. whole[u] = f[Next1(u)] + sum(v)[v]
      BY <2>1, <2>4
    <3> QED
      BY <3>3, <3>4, <3>5
  <2> QED
    BY <2>3, <2>4
<1>6. Adds(whole, f, T)
  <2>1. \A s \in SUBSET T :
           whole[s] = IF s = {} THEN 0 ELSE f[Next1(s)] + whole[s \ {Next1(s)}]
    <3> HIDE DEF sum
    <3> QED
      BY <1>5
  <2>2. whole = [s \in SUBSET T |-> whole[s]]
    <3> HIDE DEF sum
    <3> QED
      OBVIOUS
  <2> HIDE DEF whole
  <2> QED
    BY <2>1, <2>2 DEF Adds
<1> QED
  BY <1>2, <1>6

(* One step of the fold. *)
LEMMA SumUnfold ==
    ASSUME NEW f, NEW S, IsFiniteSet(S)
    PROVE  SumFunctionOnSet(f, S) =
              IF S = {} THEN 0
              ELSE f[Next1(S)] + SumFunctionOnSet(f, S \ {Next1(S)})
<1> DEFINE sum(s) == CHOOSE g : Adds(g, f, s)
<1>1. \A s : SumFunctionOnSet(f, s) = sum(s)[s]
  BY DEF SumFunctionOnSet, FoldFunctionOnSet, MapThenFoldSet, Adds, Next1
<1>2. \A s : IsFiniteSet(s) => Adds(sum(s), f, s)
  BY AddsExists
<1> HIDE DEF sum
<1>3. CASE S = {}
  BY <1>1, <1>2, <1>3 DEF Adds
<1>4. CASE S # {}
  <2> DEFINE u == S \ {Next1(S)}
  <2>1. IsFiniteSet(u) /\ u \subseteq S
    BY FS_Subset
  <2>2. sum(S)[S] = f[Next1(S)] + sum(S)[u]
    BY <1>2, <1>4 DEF Adds
  <2>3. sum(S)[u] = sum(u)[u]
    <3>1. Adds(sum(S), f, S) /\ Adds(sum(u), f, u)
      BY <1>2, <2>1
    <3> HIDE DEF u
    <3> QED
      BY <2>1, <3>1, AddsOneWay
  <2> QED
    BY <1>1, <1>4, <2>2, <2>3
<1> QED
  BY <1>3, <1>4

LEMMA SumType ==
    ASSUME NEW f, NEW S, IsFiniteSet(S), \A x \in S : f[x] \in Int
    PROVE  SumFunctionOnSet(f, S) \in Int
<1> DEFINE Bad == {s \in SUBSET S : SumFunctionOnSet(f, s) \notin Int}
<1>1. SUFFICES ASSUME Bad # {} PROVE FALSE
  OBVIOUS
<1>2. PICK T \in Bad : \A U \in Bad : Cardinality(U) >= Cardinality(T)
  BY <1>1, SmallestSet, FS_Subset
<1>3. IsFiniteSet(T) /\ T \subseteq S
  BY FS_Subset
<1>4. T # {} /\ SumFunctionOnSet(f, T) = f[Next1(T)] + SumFunctionOnSet(f, T \ {Next1(T)})
  BY <1>3, SumUnfold
<1>5. Next1(T) \in T
  BY <1>4, NextIn
<1>6. SumFunctionOnSet(f, T \ {Next1(T)}) \in Int
  BY <1>2, <1>3, <1>5, TakenOut
<1> QED
  BY <1>3, <1>4, <1>5, <1>6

(* Any element may be taken out first. *)
LEMMA SumTakeOut ==
    ASSUME NEW f, NEW S, IsFiniteSet(S), \A x \in S : f[x] \in Int, NEW x \in S
    PROVE  SumFunctionOnSet(f, S) = f[x] + SumFunctionOnSet(f, S \ {x})
<1> DEFINE Bad == {s \in SUBSET S : \E y \in s :
                      SumFunctionOnSet(f, s) # f[y] + SumFunctionOnSet(f, s \ {y})}
<1>1. SUFFICES ASSUME Bad # {} PROVE FALSE
  OBVIOUS
<1>2. PICK T \in Bad : \A U \in Bad : Cardinality(U) >= Cardinality(T)
  <2>1. \A U \in Bad : IsFiniteSet(U)
    BY FS_Subset
  <2> QED
    BY <1>1, <2>1, SmallestSet
<1>3. IsFiniteSet(T) /\ T \subseteq S
  BY FS_Subset
<1>4. PICK y \in T : SumFunctionOnSet(f, T) # f[y] + SumFunctionOnSet(f, T \ {y})
  OBVIOUS
<1> DEFINE p == Next1(T)
<1>5. p \in T /\ SumFunctionOnSet(f, T) = f[p] + SumFunctionOnSet(f, T \ {p})
  BY <1>3, SumUnfold, NextIn
<1>6. y # p
  BY <1>4, <1>5
<1>7. ASSUME NEW z \in T, NEW w \in T \ {z}
      PROVE  SumFunctionOnSet(f, T \ {z}) = f[w] + SumFunctionOnSet(f, (T \ {z}) \ {w})
  <2>1. T \ {z} \notin Bad
    BY <1>2, <1>3, TakenOut
  <2> QED
    BY <1>3, <2>1
<1>8. /\ SumFunctionOnSet(f, T \ {p}) = f[y] + SumFunctionOnSet(f, (T \ {p}) \ {y})
      /\ SumFunctionOnSet(f, T \ {y}) = f[p] + SumFunctionOnSet(f, (T \ {y}) \ {p})
  <2> HIDE DEF p
  <2> QED
    BY <1>5, <1>6, <1>7
<1>9. (T \ {p}) \ {y} = (T \ {y}) \ {p}
  OBVIOUS
<1>10. SumFunctionOnSet(f, (T \ {y}) \ {p}) \in Int /\ f[p] \in Int /\ f[y] \in Int
  <2>1. IsFiniteSet((T \ {y}) \ {p})
    BY <1>3, FS_Subset
  <2> QED
    BY <1>3, <1>5, <2>1, SumType
<1> HIDE DEF p, Bad
<1>11. SumFunctionOnSet(f, T) = f[p] + (f[y] + SumFunctionOnSet(f, (T \ {y}) \ {p}))
  BY <1>5, <1>8, <1>9
<1>12. f[y] + SumFunctionOnSet(f, T \ {y}) = f[y] + (f[p] + SumFunctionOnSet(f, (T \ {y}) \ {p}))
  BY <1>8
<1> DEFINE rest == SumFunctionOnSet(f, (T \ {y}) \ {p})
<1>13. f[p] + (f[y] + rest) = f[y] + (f[p] + rest)
  <2> HIDE DEF rest
  <2> QED
    BY <1>10 DEF rest
<1> QED
  BY <1>4, <1>11, <1>12, <1>13

(* Only the values on the set count. *)
LEMMA SumSame ==
    ASSUME NEW f, NEW g, NEW S, IsFiniteSet(S), \A x \in S : f[x] = g[x]
    PROVE  SumFunctionOnSet(f, S) = SumFunctionOnSet(g, S)
<1> DEFINE Bad == {s \in SUBSET S : SumFunctionOnSet(f, s) # SumFunctionOnSet(g, s)}
<1>1. SUFFICES ASSUME Bad # {} PROVE FALSE
  OBVIOUS
<1>2. PICK T \in Bad : \A U \in Bad : Cardinality(U) >= Cardinality(T)
  BY <1>1, SmallestSet, FS_Subset
<1>3. IsFiniteSet(T) /\ T \subseteq S
  BY FS_Subset
<1>4. /\ T # {}
      /\ SumFunctionOnSet(f, T) = f[Next1(T)] + SumFunctionOnSet(f, T \ {Next1(T)})
      /\ SumFunctionOnSet(g, T) = g[Next1(T)] + SumFunctionOnSet(g, T \ {Next1(T)})
  BY <1>3, SumUnfold
<1>5. Next1(T) \in T
  BY <1>4, NextIn
<1>6. SumFunctionOnSet(f, T \ {Next1(T)}) = SumFunctionOnSet(g, T \ {Next1(T)})
  BY <1>2, <1>3, <1>5, TakenOut
<1> QED
  BY <1>3, <1>4, <1>5, <1>6

-----------------------------------------------------------------------------
(* Types *)

(* The points an engine can be at. *)
PC == {"off", "idle", "verify"} \cup Reading \cup Selected \cup Stopping \cup Starting \cup Over

LEMMA FieldType ==
    ASSUME NEW x \in EngineRecord
    PROVE  /\ \A pc \in PC : [x EXCEPT !.pc = pc] \in EngineRecord
           /\ \A a \in Engine \cup {None} : [x EXCEPT !.authority = a] \in EngineRecord
           /\ \A n \in 1..2 : [x EXCEPT !.round = n] \in EngineRecord
           /\ \A n \in Int : [x EXCEPT !.position = n] \in EngineRecord
           /\ \A rows \in [Ref -> OrderRow] : [x EXCEPT !.rows = rows] \in EngineRecord
           /\ \A r \in Ref \cup {None} : [x EXCEPT !.ref = r] \in EngineRecord
           /\ \A t \in Ticket \cup {None} : [x EXCEPT !.ticket = t] \in EngineRecord
  BY DEF EngineRecord, PC

LEMMA EmptyType ==
    ASSUME NEW pc \in PC, NEW a \in Engine \cup {None}, NEW r \in Ref \cup {None}
    PROVE  Empty(pc, a, r) \in EngineRecord
<1>1. NoRows \in [Ref -> OrderRow]
  BY LotAssumption DEF NoRows, Fresh, OrderRow
<1> QED
  BY <1>1 DEF EngineRecord, PC, Empty

LEMMA ControlType ==
    ASSUME engine \in [Engine -> EngineRecord], NEW e \in Engine
    PROVE  /\ \A pc \in PC : Goto(e, pc) => engine' \in [Engine -> EngineRecord]
           /\ Idle(e) => engine' \in [Engine -> EngineRecord]
           /\ Raise(e) => engine' \in [Engine -> EngineRecord]
           /\ \A pc \in PC : End(e, pc) => engine' \in [Engine -> EngineRecord]
<1>1. engine[e] \in EngineRecord
  OBVIOUS
<1>2. ASSUME NEW pc \in PC, Goto(e, pc) PROVE engine' \in [Engine -> EngineRecord]
  BY <1>1, <1>2, FieldType DEF Goto
<1>3. engine[e].authority \in Engine \cup {None} /\ engine[e].ref \in Ref \cup {None}
  BY <1>1 DEF EngineRecord
<1>4. "idle" \in PC /\ "failed" \in PC
  BY DEF PC, Stopping
<1>5. /\ Idle(e) => engine' \in [Engine -> EngineRecord]
      /\ Raise(e) => engine' \in [Engine -> EngineRecord]
  BY <1>3, <1>4, EmptyType DEF Idle, Raise
<1>6. ASSUME NEW pc \in PC, End(e, pc) PROVE engine' \in [Engine -> EngineRecord]
  BY <1>6, EmptyType DEF End
<1> QED
  BY <1>2, <1>5, <1>6

LEMMA LeaseRowType ==
    /\ TTL \in 0..TTL /\ 0 \in 0..TTL
    /\ \A n \in 0..TTL : (IF n > 0 THEN n - 1 ELSE 0) \in 0..TTL
    /\ \A o \in Engine \cup {None}, n \in 0..TTL : [owner |-> o, left |-> n] \in Lease
    /\ \A l \in Lease, n \in 0..TTL : [l EXCEPT !.left = n] \in Lease
    /\ \A l \in Lease : l.left \in 0..TTL
    /\ NoLease \in Lease
<1>1. /\ TTL \in 0..TTL /\ 0 \in 0..TTL
      /\ \A n \in 0..TTL : (IF n > 0 THEN n - 1 ELSE 0) \in 0..TTL
  BY TermAssumption
<1> QED
  BY <1>1 DEF Lease, NoLease

LEMMA TickType == LedgerTypeOK /\ Tick => LedgerTypeOK'
  BY LeaseRowType DEF LedgerTypeOK, Tick

LEMMA LeaseType ==
    ASSUME LedgerTypeOK, NEW e \in Engine
    PROVE  /\ AcquireLease(Acct, e) => LedgerTypeOK'
           /\ RenewLease(Acct, e) => LedgerTypeOK'
           /\ ReleaseLease(Acct, e) => LedgerTypeOK'
<1>1. AcquireLease(Acct, e) => LedgerTypeOK'
  BY LeaseRowType DEF LedgerTypeOK, AcquireLease
<1>2. RenewLease(Acct, e) => LedgerTypeOK'
  BY LeaseRowType DEF LedgerTypeOK, RenewLease
<1>3. ReleaseLease(Acct, e) => LedgerTypeOK'
  BY LeaseRowType DEF LedgerTypeOK, ReleaseLease
<1> QED
  BY <1>1, <1>2, <1>3

LEMMA IntentType ==
    ASSUME LedgerTypeOK, NEW r \in Ref
    PROVE  /\ \A t \in Ticket : Reserve(Acct, r, t) => LedgerTypeOK'
           /\ MarkSubmitting(r, TRUE) => LedgerTypeOK'
           /\ MarkUnknown(r) => LedgerTypeOK'
           /\ AbandonReserved(r) => LedgerTypeOK'
<1>1. /\ \A i \in Intent, s \in States : [i EXCEPT !.state = s] \in Intent
      /\ \A t \in Ticket : [state |-> "reserved", account |-> Acct, payload |-> t, order |-> None] \in Intent
  BY DEF Intent, States
<1>2. {"reserved", "submitting", "unknown", "abandoned"} \subseteq States
  BY DEF States
<1> QED
  BY <1>1, <1>2 DEF LedgerTypeOK, Reserve, MarkSubmitting, MarkUnknown, AbandonReserved

LEMMA ObserveType ==
    ASSUME LedgerTypeOK, NEW r \in Ref, NEW row \in OrderRow, Observe(Acct, r, RowOf(r, row))
    PROVE  LedgerTypeOK'
<1>1. RowsOf(Acct, r, RowOf(r, row)) \subseteq FillRow
  BY LotAssumption DEF RowsOf, RowOf, FillRow, OrderRow
<1>2. [[intents[r] EXCEPT !.order = r] EXCEPT !.state = "terminal"] \in Intent
  BY DEF LedgerTypeOK, Intent, States
<1>3. [[intents[r] EXCEPT !.order = r] EXCEPT !.state = "open"] \in Intent
  BY DEF LedgerTypeOK, Intent, States
<1>4. intents' \in [Ref -> Intent]
  BY <1>2, <1>3 DEF LedgerTypeOK, Observe, RowOf
<1> QED
  BY <1>1, <1>4 DEF LedgerTypeOK, Observe

(* The steps that change nothing but the engine and the lease table. *)
LEMMA EngineType ==
    ASSUME TypeOK, Position \in Int, NEW e \in Engine
    PROVE  /\ ReadPositions(e) => engine' \in [Engine -> EngineRecord]
           /\ ReadOrders(e) => engine' \in [Engine -> EngineRecord]
           /\ Verify(e) => engine' \in [Engine -> EngineRecord]
           /\ FirstSnapshotDone(e) => engine' \in [Engine -> EngineRecord]
           /\ SelectTicket(e) => engine' \in [Engine -> EngineRecord]
           /\ Respond(e) => engine' \in [Engine -> EngineRecord]
<1> DEFINE x == engine[e]
<1>1. engine \in [Engine -> EngineRecord] /\ x \in EngineRecord
  BY DEF TypeOK
<1>2. {"positions", "orders", "reconcile", "quotes", "eligibility", "answered"} \subseteq PC
  BY DEF PC, Reading, Selected
<1>3. broker \in [Ref -> OrderRow] /\ NoRows \in [Ref -> OrderRow]
  BY LotAssumption DEF TypeOK, NoRows, Fresh, OrderRow
<1> HIDE DEF x
<1>4. ASSUME ReadOrders(e) PROVE engine' \in [Engine -> EngineRecord]
  <2>1. [x EXCEPT !.pc = "reconcile"] \in EngineRecord
    BY <1>1, <1>2, FieldType
  <2>2. [[x EXCEPT !.pc = "reconcile"] EXCEPT !.rows = broker] \in EngineRecord
    BY <2>1, <1>3, FieldType
  <2> QED
    BY <1>1, <1>4, <2>2 DEF ReadOrders, x
<1>5. ASSUME FirstSnapshotDone(e) PROVE engine' \in [Engine -> EngineRecord]
  <2>1. [x EXCEPT !.pc = "positions"] \in EngineRecord
    BY <1>1, <1>2, FieldType
  <2>2. [[x EXCEPT !.pc = "positions"] EXCEPT !.round = 2] \in EngineRecord
    BY <2>1, 2 \in 1..2, FieldType
  <2>3. [[[x EXCEPT !.pc = "positions"] EXCEPT !.round = 2] EXCEPT !.position = 0] \in EngineRecord
    BY <2>2, 0 \in Int, FieldType
  <2> QED
    BY <1>1, <1>5, <2>3 DEF FirstSnapshotDone, x
<1>6. ASSUME SelectTicket(e) PROVE engine' \in [Engine -> EngineRecord]
  <2>1. PICK r \in Ref \ UsedRefs, t \in Ticket :
           engine' = [engine EXCEPT ![e].pc = "eligibility", ![e].position = 0,
                                    ![e].ref = r, ![e].ticket = t]
    BY <1>6 DEF SelectTicket
  <2>2. [x EXCEPT !.pc = "eligibility"] \in EngineRecord
    BY <1>1, <1>2, FieldType
  <2>3. [[x EXCEPT !.pc = "eligibility"] EXCEPT !.position = 0] \in EngineRecord
    BY <2>2, 0 \in Int, FieldType
  <2>4. [[[x EXCEPT !.pc = "eligibility"] EXCEPT !.position = 0] EXCEPT !.ref = r] \in EngineRecord
    BY <2>3, FieldType
  <2>5. [[[[x EXCEPT !.pc = "eligibility"] EXCEPT !.position = 0] EXCEPT !.ref = r]
            EXCEPT !.ticket = t] \in EngineRecord
    BY <2>4, FieldType
  <2> QED
    BY <1>1, <2>1, <2>5 DEF x
<1>7. ASSUME Verify(e) PROVE engine' \in [Engine -> EngineRecord]
  <2>1. [x EXCEPT !.pc = "quotes"] \in EngineRecord
    BY <1>1, <1>2, FieldType
  <2>2. [[x EXCEPT !.pc = "quotes"] EXCEPT !.rows = NoRows] \in EngineRecord
    BY <2>1, <1>3, FieldType
  <2>3. Raise(e) => engine' \in [Engine -> EngineRecord]
    BY <1>1, ControlType
  <2> QED
    BY <1>1, <1>7, <2>2, <2>3 DEF Verify, x
<1>8. ASSUME Respond(e) PROVE engine' \in [Engine -> EngineRecord]
  <2> DEFINE answer == [NoRows EXCEPT ![x.ref] = broker[x.ref]]
  <2>1. answer \in [Ref -> OrderRow]
    BY <1>1, <1>3 DEF EngineRecord
  <2> HIDE DEF answer
  <2>2. [x EXCEPT !.pc = "answered"] \in EngineRecord
    BY <1>1, <1>2, FieldType
  <2>3. [[x EXCEPT !.pc = "answered"] EXCEPT !.ticket = None] \in EngineRecord
    BY <2>2, FieldType
  <2>4. [[[x EXCEPT !.pc = "answered"] EXCEPT !.ticket = None] EXCEPT !.rows = answer] \in EngineRecord
    BY <2>1, <2>3, FieldType
  <2> QED
    BY <1>1, <1>8, <2>4 DEF Respond, x, answer
<1>9. ASSUME ReadPositions(e) PROVE engine' \in [Engine -> EngineRecord]
  <2>1. [x EXCEPT !.pc = "orders"] \in EngineRecord
    BY <1>1, <1>2, FieldType
  <2>3. [[x EXCEPT !.pc = "orders"] EXCEPT !.position = Position] \in EngineRecord
    BY <2>1, FieldType
  <2> QED
    BY <1>1, <1>9, <2>3 DEF ReadPositions, x
<1> QED
  BY <1>4, <1>5, <1>6, <1>7, <1>8, <1>9

(* The orders that executed something were dispatched, so there are finitely
   many of them and each has a ticket. *)
LEMMA Held ==
    ASSUME SafetyInv
    PROVE  LET held == {r \in Ref : broker[r].executed > 0}
           IN  /\ IsFiniteSet(held)
               /\ \A r \in held : /\ intents[r].payload \in Ticket
                                  /\ Signed(intents[r].payload, broker[r].executed) \in Int
<1> DEFINE held == {r \in Ref : broker[r].executed > 0}
<1>1. ASSUME NEW r \in held
      PROVE  intents[r].state \in AttemptedStates /\ broker[r].executed \in Int
  BY LotAssumption DEF SafetyInv, TypeOK, OrderRow, WireAgrees
<1>2. held \subseteq dispatched
  BY <1>1 DEF SafetyInv, LedgerRows
<1>3. \A r \in held : intents[r].payload \in Ticket
  BY <1>1 DEF SafetyInv, LedgerRows, AttemptedStates
<1>4. IsFiniteSet(held)
  BY <1>2, FS_Subset DEF SafetyInv, LedgerRows
<1> QED
  BY <1>1, <1>3, <1>4 DEF Signed

LEMMA PositionType == SafetyInv => Position \in Int
<1> DEFINE held == {r \in Ref : broker[r].executed > 0}
<1> DEFINE amount == [r \in held |-> Signed(intents[r].payload, broker[r].executed)]
<1>1. SUFFICES ASSUME SafetyInv PROVE Position \in Int
  OBVIOUS
<1>2. IsFiniteSet(held) /\ \A r \in held : amount[r] \in Int
  BY <1>1, Held
<1>3. Position = SumFunctionOnSet(amount, held)
  BY DEF Position, SumFunction
<1> QED
  <2> HIDE DEF held, amount
  <2> QED
    BY <1>2, <1>3, SumType

(* The cap of the reviewed scope never changes. *)
LEMMA CapFixed ==
    ASSUME [Next]_vars
    PROVE  maxOrders' = maxOrders
<1>1. ASSUME NEW e \in Engine, Advance(e) PROVE maxOrders' = maxOrders
  BY <1>1 DEF Advance, ArmLease, Register, Recover, ReadPositions, ReadOrders, Reconcile,
     Verify, FirstSnapshotDone, SelectTicket, NoTicketDue, CheckFails, RiskBlocked, Assess, ReserveTicket,
     CheckReserved, MarkTicket, CheckMarked, Place, RecordResponse, StopStanding, GiveUpLease,
     SettleTicket, outside
<1>2. ASSUME NEW e \in Engine, Disturb(e) PROVE maxOrders' = maxOrders
  BY <1>2 DEF Disturb, Launch, LaunchRecovery, RegisterFails, RecoverTimeout, Heartbeat, BeginCycle,
     LeaveCycles, ReadUnavailable, Interrupt, Respond, Crash, Fence, outside
<1> QED
  BY <1>1, <1>2 DEF Next, Provider, Send, Arrive, Execute, Finish, LeaseTime, vars, outside

LEMMA TypeStep == SafetyInv /\ [Next]_vars => TypeOK'
<1> SUFFICES ASSUME SafetyInv, [Next]_vars PROVE TypeOK'
  OBVIOUS
<1> USE DEF tables, outside
<1>1. /\ TypeOK /\ LedgerTypeOK /\ engine \in [Engine -> EngineRecord]
      /\ maxOrders' \in 1..MaxOrders
  BY CapFixed DEF SafetyInv, TypeOK
<1>2. ASSUME NEW e \in Engine, Advance(e) PROVE TypeOK'
  <2>1. /\ engine[e] \in EngineRecord
        /\ engine[e].ref \in Ref \cup {None} /\ engine[e].ticket \in Ticket \cup {None}
        /\ engine[e].authority \in Engine \cup {None} /\ engine[e].rows \in [Ref -> OrderRow]
    BY <1>1 DEF EngineRecord
  <2>2. engine[e].pc \in Selected => engine[e].ref \in Ref
    BY <2>1 DEF SafetyInv, EnginesFit, Fits
  <2> DEFINE Moved == engine' \in [Engine -> EngineRecord]
  <2> DEFINE Ledger == LedgerTypeOK'
  <2> DEFINE Rest == UNCHANGED <<standing, granted, wire, broker>>
  <2>3. ASSUME Moved, Ledger, Rest PROVE TypeOK'
    BY <1>1, <2>3 DEF TypeOK
  <2>4. UNCHANGED <<intents, dispatched, fills, lease>> => Ledger
    BY <1>1 DEF LedgerTypeOK, Intent, Lease, FillRow
  <2>5. /\ \A pc \in PC : Goto(e, pc) => Moved
        /\ Idle(e) => Moved
        /\ Raise(e) => Moved
        /\ \A pc \in PC : End(e, pc) => Moved
    BY <1>1, ControlType
  <2>6. /\ AcquireLease(Acct, e) => Ledger
        /\ ReleaseLease(Acct, e) => Ledger
    BY <1>1, LeaseType
  <2> USE DEF PC, Reading, Selected, Stopping, Starting, Over
  <2> HIDE DEF Moved, Ledger
  <2>10. CASE ArmLease(e)
    BY <2>10, <2>3, <2>4, <2>5, <2>6 DEF ArmLease
  <2>11. CASE Register(e)
    <3>1. [engine[e] EXCEPT !.pc = "idle"] \in EngineRecord
      BY <1>1, FieldType
    <3>2. [[engine[e] EXCEPT !.pc = "idle"] EXCEPT !.authority = e] \in EngineRecord
      BY <3>1, FieldType
    <3>3. Moved /\ Ledger
      BY <1>1, <2>11, <3>2, <2>4 DEF Register, Moved
    <3> QED
      BY <1>1, <2>11, <3>3 DEF Register, TypeOK, Moved, Ledger
  <2>12. CASE Recover(e)
    BY <2>12, <2>3, <2>4, <2>5, <2>6 DEF Recover
  <2>13. CASE ReadPositions(e)
    BY <2>13, <2>3, <2>4, <1>1, PositionType, EngineType DEF ReadPositions, Moved
  <2>14. CASE ReadOrders(e)
    BY <2>14, <2>3, <2>4, <1>1, PositionType, EngineType DEF ReadOrders, Moved
  <2>15. CASE Reconcile(e)
    <3>1. ASSUME NEW r \in Listed(e), Observe(Acct, r, RowOf(r, engine[e].rows[r])) PROVE Ledger
      BY <1>1, <2>1, <3>1, ObserveType DEF Listed, Unresolved, Ledger
    <3> QED
      BY <2>15, <3>1, <2>3, <2>4, <2>5 DEF Reconcile
  <2>16. CASE Verify(e)
    BY <2>16, <2>3, <2>4, <1>1, PositionType, EngineType DEF Verify, Moved
  <2>17. CASE FirstSnapshotDone(e)
    BY <2>17, <2>3, <2>4, <1>1, PositionType, EngineType DEF FirstSnapshotDone, Moved
  <2>18. CASE SelectTicket(e)
    BY <2>18, <2>3, <2>4, <1>1, PositionType, EngineType DEF SelectTicket, Moved
  <2>19. CASE NoTicketDue(e) \/ RiskBlocked(e)
    BY <2>19, <2>3, <2>4, <2>5 DEF NoTicketDue, RiskBlocked
  <2>20. CASE CheckFails(e)
    BY <2>20, <2>3, <2>4, <2>5 DEF CheckFails
  <2>21. CASE Assess(e)
    BY <2>21, <2>3, <2>4, <2>5 DEF Assess
  <2>22. CASE ReserveTicket(e)
    <3>1. engine[e].ref \in Ref /\ engine[e].ticket \in Ticket
      BY <2>22, <2>1, <2>2 DEF ReserveTicket, SafetyInv, EnginesFit, Fits
    <3>2. Reserve(Acct, engine[e].ref, engine[e].ticket) => Ledger
      BY <1>1, <3>1, IntentType DEF Ledger
    <3> QED
      BY <2>22, <3>2, <2>3, <2>4, <2>5 DEF ReserveTicket
  <2>23. CASE CheckReserved(e) \/ CheckMarked(e)
    BY <2>23, <2>3, <2>4, <2>5 DEF CheckReserved, CheckMarked
  <2>24. CASE MarkTicket(e)
    <3>1. MarkSubmitting(engine[e].ref, TRUE) => Ledger
      BY <1>1, <2>2, <2>24, IntentType DEF Ledger, MarkTicket
    <3> QED
      BY <2>24, <3>1, <2>3, <2>4, <2>5 DEF MarkTicket
  <2>25. CASE Place(e)
    <3>1. Moved /\ Ledger
      BY <2>25, <2>4, <2>5 DEF Place
    <3> QED
      BY <1>1, <2>25, <3>1 DEF Place, TypeOK, Moved, Ledger
  <2>26. CASE RecordResponse(e)
    <3>1. Observe(Acct, engine[e].ref, RowOf(engine[e].ref, engine[e].rows[engine[e].ref])) => Ledger
      BY <1>1, <2>1, <2>2, <2>26, ObserveType DEF RecordResponse, Ledger
    <3> QED
      BY <2>26, <3>1, <2>3, <2>4, <2>5 DEF RecordResponse
  <2>27. CASE StopStanding(e)
    <3>1. Moved /\ Ledger
      BY <2>27, <2>4, <2>5 DEF StopStanding
    <3> QED
      BY <1>1, <2>1, <2>27, <3>1 DEF StopStanding, TypeOK, Moved, Ledger
  <2>28. CASE GiveUpLease(e)
    BY <2>28, <2>3, <2>5, <2>6 DEF GiveUpLease
  <2>29. CASE SettleTicket(e)
    <3>1. engine[e].ref \in Ref
      BY <2>1, <2>29 DEF SettleTicket, SafetyInv, EnginesFit, Fits
    <3>2. MarkUnknown(engine[e].ref) \/ AbandonReserved(engine[e].ref) => Ledger
      BY <1>1, <3>1, IntentType DEF Ledger
    <3> QED
      BY <2>29, <3>2, <2>3, <2>4, <2>5 DEF SettleTicket
  <2> QED
    BY <1>2, <2>10, <2>11, <2>12, <2>13, <2>14, <2>15, <2>16, <2>17, <2>18, <2>19, <2>20, <2>21,
       <2>22, <2>23, <2>24, <2>25, <2>26, <2>27, <2>28, <2>29 DEF Advance
<1>3. ASSUME NEW e \in Engine, Disturb(e) PROVE TypeOK'
  <2>1. /\ engine[e] \in EngineRecord
        /\ engine[e].ref \in Ref \cup {None} /\ engine[e].authority \in Engine \cup {None}
    BY <1>1 DEF EngineRecord
  <2> DEFINE Moved == engine' \in [Engine -> EngineRecord]
  <2> DEFINE Ledger == LedgerTypeOK'
  <2>2. UNCHANGED <<intents, dispatched, fills, lease>> => Ledger
    BY <1>1 DEF LedgerTypeOK, Intent, Lease, FillRow
  <2>3. /\ \A pc \in PC : Goto(e, pc) => Moved
        /\ Idle(e) => Moved
        /\ Raise(e) => Moved
        /\ \A pc \in PC : End(e, pc) => Moved
    BY <1>1, ControlType
  <2>4. /\ RenewLease(Acct, e) => Ledger
        /\ ReleaseLease(Acct, e) => Ledger
    BY <1>1, LeaseType
  <2>5. /\ standing \in [Engine -> {"none", "active", "stopped"}] /\ granted \subseteq Engine
        /\ wire \in [Ref -> {"idle", "queued", "sent", "dropped"}] /\ broker \in [Ref -> OrderRow]
    BY <1>1 DEF TypeOK
  <2>6. \A r \in Ref : Unqueue(r) \in [Ref -> {"idle", "queued", "sent", "dropped"}]
    BY <2>5 DEF Unqueue
  <2>7. ASSUME Moved, Ledger, standing' \in [Engine -> {"none", "active", "stopped"}],
               granted' \subseteq Engine, wire' \in [Ref -> {"idle", "queued", "sent", "dropped"}],
               broker' = broker
        PROVE  TypeOK'
    BY <1>1, <2>5, <2>7 DEF TypeOK
  <2> USE DEF PC, Reading, Selected, Stopping, Starting, Over, Awaiting
  <2> HIDE DEF Moved, Ledger
  <2>10. CASE Launch(e)
    BY <2>10, <2>2, <2>3, <2>5, <2>7 DEF Launch
  <2>11. CASE LaunchRecovery(e)
    <3> DEFINE a == CHOOSE a \in ActiveStandings : TRUE
    <3>1. ActiveStandings # {}
      BY <2>11, FS_EmptySet DEF LaunchRecovery
    <3>2. a \in Engine
      BY <3>1 DEF ActiveStandings
    <3> HIDE DEF a
    <3>3. [engine[e] EXCEPT !.pc = "recovering"] \in EngineRecord
      BY <1>1, FieldType
    <3>4. [[engine[e] EXCEPT !.pc = "recovering"] EXCEPT !.authority = a] \in EngineRecord
      BY <3>2, <3>3, FieldType
    <3>5. Moved
      BY <1>1, <2>11, <3>4 DEF LaunchRecovery, Moved, a
    <3> QED
      BY <2>11, <3>5, <2>2, <2>5, <2>7 DEF LaunchRecovery
  <2>12. CASE RegisterFails(e) \/ RecoverTimeout(e)
    BY <2>12, <2>2, <2>3, <2>4, <2>5, <2>7 DEF RegisterFails, RecoverTimeout
  <2>13. CASE Heartbeat(e)
    <3>1. Moved
      BY <1>1, <2>13 DEF Heartbeat, Moved
    <3> QED
      BY <2>13, <3>1, <2>4, <2>5, <2>7 DEF Heartbeat
  <2>14. CASE BeginCycle(e) \/ LeaveCycles(e) \/ ReadUnavailable(e)
    BY <2>14, <2>2, <2>3, <2>5, <2>7 DEF BeginCycle, LeaveCycles, ReadUnavailable
  <2>15. CASE Interrupt(e)
    BY <2>15, <2>1, <2>2, <2>3, <2>5, <2>6, <2>7 DEF Interrupt
  <2>16. CASE Crash(e)
    BY <2>16, <2>1, <2>2, <2>3, <2>5, <2>6, <2>7 DEF Crash
  <2>17. CASE Respond(e)
    BY <1>1, <2>17, <2>2, <2>5, <2>7, PositionType, EngineType DEF Respond, Moved
  <2>18. CASE Fence(e)
    <3>1. Moved
      BY <1>1, <2>18 DEF Fence, Moved
    <3> QED
      BY <2>18, <3>1, <2>2, <2>5, <2>7 DEF Fence
  <2> QED
    BY <1>3, <2>10, <2>11, <2>12, <2>13, <2>14, <2>15, <2>16, <2>17, <2>18 DEF Disturb
<1>4. ASSUME NEW r \in Ref, Provider(r) PROVE TypeOK'
  <2>1. \A row \in OrderRow :
           /\ [row EXCEPT !.state = "open"] \in OrderRow /\ [row EXCEPT !.state = "done"] \in OrderRow
           /\ row.executed < Lot => [row EXCEPT !.executed = row.executed + 1] \in OrderRow
    BY LotAssumption DEF OrderRow
  <2>2. ASSUME Execute(r) PROVE broker[r].executed < Lot
    <3>1. r \in Ref /\ broker[r].state = "open"
      BY <2>2 DEF Execute
    <3>2. intents[r].payload \in Ticket
      BY <3>1 DEF SafetyInv, WireAgrees, LedgerRows, AttemptedStates
    <3> QED
      BY <1>1, <2>2, <3>2, LotAssumption DEF Execute, Ticket, TypeOK, OrderRow
  <2>3. UNCHANGED <<intents, dispatched, fills, lease>> => LedgerTypeOK'
    BY <1>1 DEF LedgerTypeOK, Intent, Lease, FillRow
  <2>4. ASSUME broker' \in [Ref -> OrderRow], wire' \in [Ref -> {"idle", "queued", "sent", "dropped"}],
               UNCHANGED <<intents, dispatched, fills, lease, standing, granted, engine>>
        PROVE  TypeOK'
    BY <2>3, <2>4, <1>1 DEF TypeOK
  <2>5. broker \in [Ref -> OrderRow] /\ wire \in [Ref -> {"idle", "queued", "sent", "dropped"}]
    BY <1>1 DEF TypeOK
  <2>6. CASE Send(r)
    BY <2>4, <2>5, <2>6 DEF Send
  <2>7. CASE Arrive(r)
    BY <2>1, <2>4, <2>5, <2>7 DEF Arrive
  <2>8. CASE Execute(r)
    BY <2>1, <2>2, <2>4, <2>5, <2>8 DEF Execute
  <2>9. CASE Finish(r)
    BY <2>1, <2>4, <2>5, <2>9 DEF Finish
  <2> QED
    BY <1>4, <2>6, <2>7, <2>8, <2>9 DEF Provider
<1>5. ASSUME LeaseTime PROVE TypeOK'
  <2>1. LedgerTypeOK'
    BY <1>1, <1>5, TickType DEF LeaseTime
  <2> QED
    BY <1>1, <1>5, <2>1 DEF LeaseTime, TypeOK
<1>6. ASSUME UNCHANGED vars PROVE TypeOK'
  BY <1>1, <1>6 DEF vars, TypeOK, LedgerTypeOK, Intent, Lease, FillRow
<1> QED
  BY <1>2, <1>3, <1>4, <1>5, <1>6 DEF Next

-----------------------------------------------------------------------------
(* Safety, step by step *)

(* An engine with nothing read fits, at a point that asks nothing of it. *)
LEMMA FitsEmpty ==
    ASSUME TypeOK, NEW pc, pc \notin Selected, pc # "settling",
           NEW a, NEW r, pc \in Stopping \/ r = None
    PROVE  Fits(Empty(pc, a, r))
<1>1. \A q \in Ref : Agrees(NoRows[q], broker[q])
  BY LotAssumption DEF Agrees, NoRows, Fresh, TypeOK, OrderRow
<1> QED
  BY <1>1 DEF Fits, Empty, Selected, Stopping

(* A step of one engine that leaves the tables, the wire and the provider as
   they are is safe when the engine's new record fits and takes nobody's
   reference. *)
LEMMA ControlSafe ==
    ASSUME SafetyInv, TypeOK', UNCHANGED <<intents, dispatched, fills, wire, broker>>,
           NEW e \in Engine, NEW x, engine' = [engine EXCEPT ![e] = x], Fits(x),
           x.ref \in {None, engine[e].ref} \/ \A d \in Engine : engine[d].ref # x.ref
    PROVE  SafetyInv'
<1>1. LedgerRows' /\ WireAgrees'
  BY DEF SafetyInv, LedgerRows, WireAgrees, Unresolved
<1>2. engine'[e] = x /\ \A d \in Engine \ {e} : engine'[d] = engine[d]
  BY DEF SafetyInv, TypeOK
<1>3. ASSUME NEW d \in Engine PROVE Fits(engine[d])'
  <2>1. Fits(engine'[d])
    BY <1>2 DEF SafetyInv, EnginesFit
  <2> QED
    BY <2>1 DEF Fits
<1>4. RefsOwned'
  BY <1>2 DEF SafetyInv, RefsOwned
<1> QED
  BY <1>1, <1>3, <1>4 DEF SafetyInv, EnginesFit

LEMMA GotoSafe ==
    ASSUME SafetyInv, TypeOK', UNCHANGED <<intents, dispatched, fills, wire, broker>>,
           NEW e \in Engine, NEW pc, Goto(e, pc), Fits([engine[e] EXCEPT !.pc = pc])
    PROVE  SafetyInv'
<1>1. [engine[e] EXCEPT !.pc = pc].ref = engine[e].ref
  BY DEF SafetyInv, TypeOK, EngineRecord
<1>2. engine' = [engine EXCEPT ![e] = [engine[e] EXCEPT !.pc = pc]]
  BY DEF Goto
<1> QED
  BY <1>1, <1>2, ControlSafe

LEMMA EmptySafe ==
    ASSUME SafetyInv, TypeOK', UNCHANGED <<intents, dispatched, fills, wire, broker>>, NEW e \in Engine
    PROVE  /\ Idle(e) => SafetyInv'
           /\ Raise(e) => SafetyInv'
           /\ \A pc \in Over : End(e, pc) => SafetyInv'
<1>1. \A pc, a, r : Empty(pc, a, r).ref = r
  BY DEF Empty
<1>2. TypeOK
  BY DEF SafetyInv
<1>3. ASSUME NEW y, engine' = [engine EXCEPT ![e] = y], Fits(y), y.ref \in {None, engine[e].ref}
      PROVE  SafetyInv'
  BY <1>3, ControlSafe
<1>4. ASSUME Idle(e) PROVE SafetyInv'
  <2> DEFINE y == Empty("idle", engine[e].authority, None)
  <2>1. Fits(y) /\ y.ref = None
    BY <1>1, <1>2, FitsEmpty DEF Selected
  <2>2. engine' = [engine EXCEPT ![e] = y]
    BY <1>4 DEF Idle
  <2> HIDE DEF y
  <2> QED
    BY <1>3, <2>1, <2>2
<1>5. ASSUME Raise(e) PROVE SafetyInv'
  <2> DEFINE y == Empty("failed", engine[e].authority, engine[e].ref)
  <2>1. Fits(y) /\ y.ref = engine[e].ref
    BY <1>1, <1>2, FitsEmpty DEF Selected, Stopping
  <2>2. engine' = [engine EXCEPT ![e] = y]
    BY <1>5 DEF Raise
  <2> HIDE DEF y
  <2> QED
    BY <1>3, <2>1, <2>2
<1>6. ASSUME NEW pc \in Over, End(e, pc) PROVE SafetyInv'
  <2> DEFINE y == Empty(pc, None, None)
  <2>1. Fits(y) /\ y.ref = None
    BY <1>1, <1>2, FitsEmpty DEF Selected, Over
  <2>2. engine' = [engine EXCEPT ![e] = y]
    BY <1>6 DEF End
  <2> HIDE DEF y
  <2> QED
    BY <1>3, <2>1, <2>2
<1> QED
  BY <1>4, <1>5, <1>6

(* The steps of an engine that touch neither intents nor requests. *)
LEMMA ControlStep ==
    ASSUME SafetyInv, TypeOK', NEW e \in Engine
    PROVE  /\ Launch(e) \/ Register(e) \/ LaunchRecovery(e) => SafetyInv'
           /\ ArmLease(e) \/ RegisterFails(e) \/ Recover(e) \/ RecoverTimeout(e) => SafetyInv'
           /\ Heartbeat(e) \/ BeginCycle(e) \/ LeaveCycles(e) \/ ReadUnavailable(e) => SafetyInv'
           /\ ReadPositions(e) \/ ReadOrders(e) \/ Verify(e) \/ FirstSnapshotDone(e) => SafetyInv'
           /\ SelectTicket(e) \/ NoTicketDue(e) \/ CheckFails(e) => SafetyInv'
           /\ RiskBlocked(e) \/ Assess(e) \/ CheckReserved(e) \/ CheckMarked(e) => SafetyInv'
           /\ Respond(e) \/ StopStanding(e) \/ GiveUpLease(e) \/ Fence(e) => SafetyInv'
<1> DEFINE x == engine[e]
<1> DEFINE Quiet == UNCHANGED <<intents, dispatched, fills, wire, broker>>
<1>1. TypeOK /\ x \in EngineRecord /\ Fits(x)
  BY DEF SafetyInv, TypeOK, EnginesFit
<1>2. AcquireLease(Acct, e) \/ RenewLease(Acct, e) \/ ReleaseLease(Acct, e)
         => UNCHANGED <<intents, dispatched, fills>>
  BY DEF AcquireLease, RenewLease, ReleaseLease
<1>3. ASSUME Quiet PROVE /\ Idle(e) => SafetyInv'
                         /\ Raise(e) => SafetyInv'
                         /\ End(e, "done") => SafetyInv'
  BY <1>3, EmptySafe DEF Over
<1> DEFINE To(pc) == [x EXCEPT !.pc = pc]
<1>4. ASSUME Quiet, NEW pc, Goto(e, pc), Fits(To(pc)) PROVE SafetyInv'
  BY <1>4, GotoSafe
<1>5. ASSUME Quiet, engine' = engine PROVE SafetyInv'
  <2>1. engine' = [engine EXCEPT ![e] = x]
    BY <1>5 DEF SafetyInv, TypeOK
  <2> QED
    BY <1>1, <1>5, <2>1, ControlSafe
<1> USE DEF tables, outside
<1>6. ASSUME x.pc \notin Selected \cup Stopping,
             NEW pc, pc \notin Selected \cup Stopping
      PROVE  Fits(To(pc))
  BY <1>1, <1>6 DEF Fits, EngineRecord, Selected, Stopping
<1> USE DEF Reading, Selected, Stopping, Starting, Over
<1>10. CASE Launch(e)
  BY <1>10, <1>4, <1>6 DEF Launch
<1>11. CASE Register(e)
  <2> DEFINE y == [[x EXCEPT !.pc = "idle"] EXCEPT !.authority = e]
  <2>1. engine' = [engine EXCEPT ![e] = y]
    BY <1>11 DEF Register
  <2>2. y.ref = x.ref /\ Fits(y)
    BY <1>1, <1>11 DEF Register, EngineRecord, Fits
  <2> HIDE DEF y
  <2> QED
    BY <1>11, <2>1, <2>2, ControlSafe DEF Register
<1>12. CASE LaunchRecovery(e)
  <2> DEFINE a == CHOOSE a \in ActiveStandings : TRUE
  <2> HIDE DEF a
  <2> DEFINE y == [[x EXCEPT !.pc = "recovering"] EXCEPT !.authority = a]
  <2>0. engine' = [engine EXCEPT ![e].pc = "recovering", ![e].authority = a]
    BY <1>12 DEF LaunchRecovery, a
  <2>1. engine' = [engine EXCEPT ![e] = y]
    BY <2>0
  <2>2. y.ref = x.ref /\ Fits(y)
    BY <1>1, <1>12 DEF LaunchRecovery, EngineRecord, Fits
  <2> HIDE DEF y
  <2> QED
    BY <1>12, <2>1, <2>2, ControlSafe DEF LaunchRecovery
<1>13. CASE ArmLease(e)
  BY <1>13, <1>2, <1>3, <1>4, <1>6 DEF ArmLease
<1>14. CASE RegisterFails(e) \/ RecoverTimeout(e)
  BY <1>14, <1>2, <1>3 DEF RegisterFails, RecoverTimeout
<1>15. CASE Recover(e)
  BY <1>15, <1>2, <1>3, <1>4, <1>6 DEF Recover
<1>16. CASE Heartbeat(e)
  BY <1>16, <1>2, <1>5 DEF Heartbeat
<1>17. CASE BeginCycle(e)
  BY <1>17, <1>4, <1>6 DEF BeginCycle
<1>18. CASE LeaveCycles(e) \/ ReadUnavailable(e)
  BY <1>18, <1>3 DEF LeaveCycles, ReadUnavailable
<1>19. CASE ReadPositions(e)
  <2> DEFINE p == Position
  <2> HIDE DEF p
  <2> DEFINE y == [[x EXCEPT !.pc = "orders"] EXCEPT !.position = p]
  <2>1. engine' = [engine EXCEPT ![e] = y]
    BY <1>19 DEF ReadPositions, p
  <2>2. y.ref = x.ref /\ Fits(y)
    BY <1>1, <1>19 DEF ReadPositions, EngineRecord, Fits
  <2> HIDE DEF y
  <2> QED
    BY <1>19, <2>1, <2>2, ControlSafe DEF ReadPositions
<1>20. CASE ReadOrders(e)
  <2> DEFINE y == [[x EXCEPT !.pc = "reconcile"] EXCEPT !.rows = broker]
  <2>1. engine' = [engine EXCEPT ![e] = y]
    BY <1>20 DEF ReadOrders
  <2>2. \A r \in Ref : Agrees(broker[r], broker[r])
    BY <1>1 DEF SafetyInv, WireAgrees, Agrees, TypeOK, OrderRow
  <2>3. y.ref = x.ref /\ Fits(y)
    BY <1>1, <1>20, <2>2 DEF ReadOrders, EngineRecord, Fits
  <2> HIDE DEF y
  <2> QED
    BY <1>20, <2>1, <2>3, ControlSafe DEF ReadOrders
<1>21. CASE Verify(e)
  <2> DEFINE y == [[x EXCEPT !.pc = "quotes"] EXCEPT !.rows = NoRows]
  <2>1. \A r \in Ref : Agrees(NoRows[r], broker[r])
    BY <1>1, FitsEmpty DEF Fits, Empty
  <2>2. ASSUME x.pc = "verify" PROVE y.ref = x.ref /\ Fits(y)
    BY <1>1, <2>1, <2>2 DEF EngineRecord, Fits
  <2>3. CASE engine' = [engine EXCEPT ![e] = y]
    <3> HIDE DEF y
    <3> QED
      BY <1>21, <2>2, <2>3, ControlSafe DEF Verify
  <2> QED
    BY <1>3, <1>21, <2>3 DEF Verify
<1>22. CASE FirstSnapshotDone(e)
  <2> DEFINE y == [[[x EXCEPT !.pc = "positions"] EXCEPT !.round = 2] EXCEPT !.position = 0]
  <2>1. engine' = [engine EXCEPT ![e] = y]
    BY <1>22 DEF FirstSnapshotDone
  <2>2. y.ref = x.ref /\ Fits(y)
    BY <1>1, <1>22 DEF FirstSnapshotDone, EngineRecord, Fits
  <2> HIDE DEF y
  <2> QED
    BY <1>22, <2>1, <2>2, ControlSafe DEF FirstSnapshotDone
<1>23. CASE SelectTicket(e)
  <2>1. PICK r \in Ref \ UsedRefs, t \in Ticket :
           engine' = [engine EXCEPT ![e].pc = "eligibility", ![e].position = 0,
                                    ![e].ref = r, ![e].ticket = t]
    BY <1>23 DEF SelectTicket
  <2> DEFINE y == [[[[x EXCEPT !.pc = "eligibility"] EXCEPT !.position = 0] EXCEPT !.ref = r]
                      EXCEPT !.ticket = t]
  <2>2. engine' = [engine EXCEPT ![e] = y]
    BY <2>1
  <2>3. intents[r].state = "absent" /\ \A d \in Engine : engine[d].ref # r
    BY DEF UsedRefs
  <2>4. y.ref = r /\ Fits(y)
    <3>1. r # None /\ t # None
      BY AbsentAssumption
    <3> QED
      BY <1>1, <1>23, <2>3, <3>1 DEF SelectTicket, EngineRecord, Fits
  <2> HIDE DEF y
  <2> QED
    BY <1>23, <2>2, <2>3, <2>4, ControlSafe DEF SelectTicket
<1>24. CASE NoTicketDue(e) \/ RiskBlocked(e) \/ CheckFails(e)
  BY <1>24, <1>3 DEF NoTicketDue, RiskBlocked, CheckFails
<1>25. CASE Assess(e)
  <2>1. Fits(To("ticket"))
    BY <1>1, <1>25 DEF Assess, Fits, EngineRecord
  <2> QED
    BY <1>3, <1>4, <1>25, <2>1 DEF Assess
<1>26. CASE CheckReserved(e)
  <2>1. Fits(To("cleared"))
    BY <1>1, <1>26 DEF CheckReserved, Fits, EngineRecord
  <2> QED
    BY <1>4, <1>26, <2>1 DEF CheckReserved
<1>27. CASE CheckMarked(e)
  <2>1. Fits(To("placing"))
    BY <1>1, <1>27 DEF CheckMarked, Fits, EngineRecord
  <2> QED
    BY <1>4, <1>27, <2>1 DEF CheckMarked
<1>28. CASE Respond(e)
  <2> DEFINE answer == [NoRows EXCEPT ![x.ref] = broker[x.ref]]
  <2> DEFINE y == [[[x EXCEPT !.pc = "answered"] EXCEPT !.ticket = None] EXCEPT !.rows = answer]
  <2>1. engine' = [engine EXCEPT ![e] = y]
    BY <1>28 DEF Respond
  <2>2. x.ref \in Ref /\ broker[x.ref].state # "absent"
    BY <1>1, <1>28 DEF Respond, Fits, EngineRecord
  <2>3. \A r \in Ref : Agrees(NoRows[r], broker[r]) /\ Agrees(broker[r], broker[r])
    <3>1. \A r \in Ref : Agrees(NoRows[r], broker[r])
      BY <1>1, FitsEmpty DEF Fits, Empty
    <3> QED
      BY <1>1, <3>1 DEF SafetyInv, WireAgrees, Agrees, TypeOK, OrderRow
  <2>4. /\ \A r \in Ref : Agrees(answer[r], broker[r])
        /\ answer[x.ref].state # "absent"
    BY <2>2, <2>3 DEF NoRows
  <2> HIDE DEF answer
  <2>5. y.ref = x.ref /\ Fits(y)
    BY <1>1, <1>28, <2>2, <2>4 DEF Respond, EngineRecord, Fits
  <2> HIDE DEF y
  <2> QED
    BY <1>28, <2>1, <2>5, ControlSafe DEF Respond
<1>29. CASE StopStanding(e)
  <2>1. Fits(To("releasing"))
    BY <1>1, <1>29 DEF StopStanding, Fits, EngineRecord
  <2> QED
    BY <1>4, <1>29, <2>1 DEF StopStanding
<1>30. CASE GiveUpLease(e)
  <2>1. x.ref # None => Fits(To("settling"))
    BY <1>1, <1>30 DEF GiveUpLease, Fits, EngineRecord
  <2> QED
    BY <1>2, <1>3, <1>4, <1>30, <2>1 DEF GiveUpLease
<1>31. CASE Fence(e)
  BY <1>5, <1>31 DEF Fence
<1> QED
  BY <1>10, <1>11, <1>12, <1>13, <1>14, <1>15, <1>16, <1>17, <1>18, <1>19, <1>20, <1>21, <1>22,
     <1>23, <1>24, <1>25, <1>26, <1>27, <1>28, <1>29, <1>30, <1>31

(* An engine that did not move still fits when one intent changed, unless it
   is the holder's: an intent that its holder has not dispatched yet is out of
   everybody else's reach. *)
LEMMA OthersFit ==
    ASSUME SafetyInv, NEW d \in Engine, engine'[d] = engine[d], UNCHANGED <<wire, broker>>,
           NEW r \in Ref, \A q \in Ref \ {r} : intents'[q] = intents[q],
           engine[d].ref # r \/ (wire[r] = "sent" /\ intents'[r].state \notin {"absent", "reserved"})
    PROVE  Fits(engine[d])'
<1>1. Fits(engine[d]) /\ engine[d] \in EngineRecord
  BY DEF SafetyInv, EnginesFit, TypeOK
<1>2. wire[r] = "sent" => intents[r].state \in AttemptedStates
  BY DEF SafetyInv, WireAgrees
<1> QED
  BY <1>1, <1>2 DEF Fits, Selected, EngineRecord, AttemptedStates

LEMMA FillsFinite ==
    ASSUME NEW r \in Ref, NEW row \in OrderRow, IsFiniteSet(fills)
    PROVE  IsFiniteSet(fills \cup RowsOf(Acct, r, RowOf(r, row)))
<1> DEFINE rows == RowsOf(Acct, r, RowOf(r, row))
<1> DEFINE fill(k) == [account |-> Acct, exec |-> <<r, k>>, ref |-> r, qty |-> 1]
<1>1. rows = {fill(k) : k \in 1..row.executed}
  <2> DEFINE listed == {[exec |-> <<r, k>>, qty |-> 1] : k \in 1..row.executed}
  <2>1. rows = {[account |-> Acct, exec |-> x.exec, ref |-> r, qty |-> x.qty] : x \in listed}
    BY DEF RowsOf, RowOf
  <2>2. rows \subseteq {fill(k) : k \in 1..row.executed}
    BY <2>1
  <2>3. ASSUME NEW k \in 1..row.executed PROVE fill(k) \in rows
    <3>1. [exec |-> <<r, k>>, qty |-> 1] \in listed
      OBVIOUS
    <3> QED
      BY <2>1, <3>1
  <2> QED
    BY <2>2, <2>3
<1>2. [k \in 1..row.executed |-> fill(k)] \in Surjection(1..row.executed, rows)
  BY <1>1 DEF Surjection
<1>3. IsFiniteSet(1..row.executed)
  BY LotAssumption, FS_Interval DEF OrderRow
<1>4. IsFiniteSet(rows)
  <2> HIDE DEF rows, fill
  <2> QED
    BY <1>2, <1>3, FS_Surjection
<1> QED
  BY <1>4, FS_Union

(* A row that is not ahead of the provider is observed: the ticket stays
   attempted, and it is terminal only when the provider's order is. *)
LEMMA ObserveKeeps ==
    ASSUME SafetyInv, NEW r \in Ref, NEW row \in OrderRow, Agrees(row, broker[r]),
           row.state # "absent", UNCHANGED <<wire, broker>>, Observe(Acct, r, RowOf(r, row))
    PROVE  /\ LedgerRows' /\ WireAgrees'
           /\ \A q \in Ref \ {r} : intents'[q] = intents[q]
           /\ wire[r] = "sent" /\ intents'[r].state \in {"open", "terminal"}
<1>1. intents \in [Ref -> Intent]
  BY DEF SafetyInv, TypeOK, LedgerTypeOK
<1>2. /\ intents[r].state \in AttemptedStates /\ intents[r].account = Acct
      /\ intents[r].state = "terminal" => row.state = "done"
      /\ dispatched' = dispatched
      /\ fills' = fills \cup RowsOf(Acct, r, RowOf(r, row))
  BY DEF Observe, Observable, SameTicket, RowOf
<1>3. /\ \A q \in Ref \ {r} : intents'[q] = intents[q]
      /\ intents'[r].account = Acct /\ intents'[r].payload = intents[r].payload
      /\ intents'[r].order = r
      /\ intents'[r].state = IF row.state = "done" THEN "terminal" ELSE "open"
  <2> DEFINE s == IF row.state = "done" THEN "terminal" ELSE "open"
  <2>1. RowOf(r, row).order = r /\ RowOf(r, row).terminal = (row.state = "done")
    BY DEF RowOf
  <2>2. intents' = [intents EXCEPT ![r].order = r, ![r].state = s]
    BY <2>1 DEF Observe
  <2> HIDE DEF s
  <2>3. intents[r] \in Intent
    BY <1>1
  <2>4. /\ \A q \in Ref \ {r} : intents'[q] = intents[q]
        /\ intents'[r].account = intents[r].account /\ intents'[r].payload = intents[r].payload
        /\ intents'[r].order = r /\ intents'[r].state = s
    BY <1>1, <2>2, <2>3 DEF Intent
  <2> QED
    BY <1>2, <2>4 DEF s
<1>4. Unresolved(Acct)' \subseteq Unresolved(Acct)
  BY <1>2, <1>3 DEF Unresolved, AttemptedStates, PendingStates
<1>5. {q \in Ref : intents'[q].state \in AttemptedStates} = {q \in Ref : intents[q].state \in AttemptedStates}
  BY <1>2, <1>3 DEF AttemptedStates
<1>6. IsFiniteSet(fills')
  BY <1>2, FillsFinite DEF SafetyInv, LedgerRows
<1>7. LedgerRows'
  BY <1>2, <1>3, <1>4, <1>5, <1>6 DEF SafetyInv, LedgerRows, AttemptedStates
<1>8. broker[r].state # "absent" /\ (row.state = "done" => broker[r].state = "done")
  BY DEF Agrees
<1>9. WireAgrees'
  BY <1>2, <1>3, <1>8 DEF SafetyInv, WireAgrees, AttemptedStates
<1> QED
  BY <1>3, <1>7, <1>8, <1>9 DEF SafetyInv, WireAgrees

LEMMA ReconcileStep ==
    ASSUME SafetyInv, TypeOK', NEW e \in Engine, Reconcile(e)
    PROVE  SafetyInv'
<1> DEFINE x == engine[e]
<1>1. TypeOK /\ x \in EngineRecord /\ Fits(x)
  BY DEF SafetyInv, TypeOK, EnginesFit
<1>2. Fits([x EXCEPT !.pc = "verify"])
  BY <1>1 DEF Reconcile, Fits, EngineRecord, Selected, Stopping
<1>3. CASE UNCHANGED tables
  BY <1>2, <1>3, GotoSafe, EmptySafe DEF Reconcile, tables, outside
<1>4. CASE Goto(e, "verify") /\ \E r \in Listed(e) : Observe(Acct, r, RowOf(r, x.rows[r]))
  <2>1. PICK r \in Listed(e) : Observe(Acct, r, RowOf(r, x.rows[r]))
    BY <1>4
  <2>2. r \in Ref /\ x.rows[r] \in OrderRow /\ x.rows[r].state # "absent" /\ Agrees(x.rows[r], broker[r])
    BY <1>1 DEF Listed, Unresolved, EngineRecord, Fits
  <2>3. UNCHANGED <<wire, broker>>
    BY DEF Reconcile, outside
  <2>4. /\ LedgerRows' /\ WireAgrees'
        /\ \A q \in Ref \ {r} : intents'[q] = intents[q]
        /\ wire[r] = "sent" /\ intents'[r].state \in {"open", "terminal"}
    BY <2>1, <2>2, <2>3, ObserveKeeps
  <2>5. /\ engine'[e] = [x EXCEPT !.pc = "verify"] /\ engine'[e].ref = x.ref
        /\ \A d \in Engine \ {e} : engine'[d] = engine[d]
    BY <1>1, <1>4 DEF Goto, TypeOK, EngineRecord
  <2>6. ASSUME NEW d \in Engine \ {e} PROVE Fits(engine[d])'
    BY <2>2, <2>3, <2>4, <2>5, OthersFit
  <2>7. Fits(engine[e])'
    BY <1>1, <1>2, <2>3, <2>5 DEF Fits, EngineRecord, Selected, Stopping
  <2>8. RefsOwned'
    BY <2>5 DEF SafetyInv, RefsOwned
  <2> QED
    BY <2>4, <2>6, <2>7, <2>8 DEF SafetyInv, EnginesFit
<1> QED
  BY <1>3, <1>4 DEF Reconcile

(* A step of the holder of a reference that changes that one intent only. *)
LEMMA HolderSafe ==
    ASSUME SafetyInv, TypeOK', LedgerRows', WireAgrees', UNCHANGED <<wire, broker>>,
           NEW e \in Engine, NEW x, engine' = [engine EXCEPT ![e] = x],
           x.ref \in {None, engine[e].ref}, Fits(x)',
           engine[e].ref \in Ref, \A q \in Ref \ {engine[e].ref} : intents'[q] = intents[q]
    PROVE  SafetyInv'
<1>1. engine'[e] = x /\ \A d \in Engine \ {e} : engine'[d] = engine[d]
  BY DEF SafetyInv, TypeOK
<1>2. ASSUME NEW d \in Engine \ {e} PROVE Fits(engine[d])'
  <2>1. engine[d].ref # engine[e].ref
    BY AbsentAssumption DEF SafetyInv, RefsOwned
  <2> QED
    BY <1>1, <2>1, OthersFit
<1>3. Fits(engine[e])'
  BY <1>1 DEF Fits
<1>4. RefsOwned'
  BY <1>1 DEF SafetyInv, RefsOwned
<1> QED
  BY <1>2, <1>3, <1>4 DEF SafetyInv, EnginesFit

LEMMA ReserveStep ==
    ASSUME SafetyInv, TypeOK', NEW e \in Engine, ReserveTicket(e)
    PROVE  SafetyInv'
<1> DEFINE x == engine[e]
<1> DEFINE r == x.ref
<1>1. TypeOK /\ x \in EngineRecord /\ Fits(x) /\ intents \in [Ref -> Intent]
  BY DEF SafetyInv, TypeOK, LedgerTypeOK, EnginesFit
<1>2. x.pc = "ticket" /\ r \in Ref /\ x.ticket \in Ticket /\ intents[r].state = "absent"
  BY <1>1 DEF ReserveTicket, Fits, EngineRecord, Selected
<1>3. CASE Raise(e) /\ UNCHANGED tables
  BY <1>3, EmptySafe DEF ReserveTicket, tables, outside
<1>4. CASE Reserve(Acct, r, x.ticket) /\ Goto(e, "reserved")
  <2>1. /\ Unresolved(Acct) = {} /\ UNCHANGED <<dispatched, fills>>
        /\ intents'[r] = [state |-> "reserved", account |-> Acct, payload |-> x.ticket, order |-> None]
        /\ \A q \in Ref \ {r} : intents'[q] = intents[q]
    BY <1>1, <1>2, <1>4 DEF Reserve, Reservable
  <2>2. Unresolved(Acct)' = {r}
    BY <1>2, <2>1 DEF Unresolved, PendingStates
  <2>3. {q \in Ref : intents'[q].state \in AttemptedStates} = {q \in Ref : intents[q].state \in AttemptedStates}
    BY <1>2, <2>1 DEF AttemptedStates
  <2>4. LedgerRows'
    BY <1>2, <2>1, <2>2, <2>3 DEF SafetyInv, LedgerRows
  <2>5. UNCHANGED <<wire, broker>>
    BY DEF ReserveTicket, outside
  <2>6. WireAgrees'
    BY <1>2, <2>1, <2>5 DEF SafetyInv, WireAgrees, AttemptedStates
  <2>. PICK y : y = [x EXCEPT !.pc = "reserved"]
    OBVIOUS
  <2>7. y.ref = r /\ Fits(y)'
    BY <1>1, <1>2, <2>1, <2>5 DEF Fits, EngineRecord, Selected, Stopping
  <2>8. engine' = [engine EXCEPT ![e] = y]
    BY <1>4 DEF Goto
  <2> QED
    BY <1>2, <2>1, <2>4, <2>5, <2>6, <2>7, <2>8, HolderSafe
<1> QED
  BY <1>3, <1>4 DEF ReserveTicket

LEMMA MarkStep ==
    ASSUME SafetyInv, TypeOK', NEW e \in Engine, MarkTicket(e)
    PROVE  SafetyInv'
<1> DEFINE x == engine[e]
<1> DEFINE r == x.ref
<1>1. TypeOK /\ x \in EngineRecord /\ Fits(x) /\ intents \in [Ref -> Intent]
  BY DEF SafetyInv, TypeOK, LedgerTypeOK, EnginesFit
<1>2. x.pc = "cleared" /\ r \in Ref /\ intents[r].state = "reserved" /\ intents[r] \in Intent
  BY <1>1 DEF MarkTicket, Fits, EngineRecord, Selected
<1>3. /\ dispatched' = dispatched \cup {r} /\ fills' = fills
      /\ intents'[r].state = "submitting" /\ intents'[r].account = intents[r].account
      /\ intents'[r].payload = intents[r].payload /\ intents'[r].order = intents[r].order
      /\ \A q \in Ref \ {r} : intents'[q] = intents[q]
  BY <1>1, <1>2 DEF MarkTicket, MarkSubmitting, Intent
<1>4. Unresolved(Acct)' = Unresolved(Acct)
  BY <1>2, <1>3 DEF Unresolved, PendingStates
<1>5. {q \in Ref : intents'[q].state \in AttemptedStates}
         = {q \in Ref : intents[q].state \in AttemptedStates} \cup {r}
  BY <1>2, <1>3 DEF AttemptedStates
<1>6. LedgerRows'
  <2>1. IsFiniteSet(dispatched \cup {r})
    BY FS_AddElement DEF SafetyInv, LedgerRows
  <2>2. dispatched' = {q \in Ref : intents'[q].state \in AttemptedStates}
    BY <1>3, <1>5 DEF SafetyInv, LedgerRows
  <2>3. \A q \in Ref :
          /\ intents'[q].state # "absent" => intents'[q].account = Acct /\ intents'[q].payload \in Ticket
          /\ intents'[q].order \in {None, q}
    BY <1>2, <1>3 DEF SafetyInv, LedgerRows
  <2> QED
    BY <1>3, <1>4, <2>1, <2>2, <2>3 DEF SafetyInv, LedgerRows
<1>7. UNCHANGED <<wire, broker>>
  BY DEF MarkTicket, outside
<1>8. WireAgrees'
  BY <1>2, <1>3, <1>7 DEF SafetyInv, WireAgrees, AttemptedStates
<1>. PICK y : y = [x EXCEPT !.pc = "marked"]
  OBVIOUS
<1>9. wire[r] = "idle"
  BY <1>2 DEF SafetyInv, WireAgrees, AttemptedStates
<1>10. y.ref = r /\ Fits(y)'
  BY <1>1, <1>2, <1>3, <1>7, <1>9 DEF Fits, EngineRecord, Selected, Stopping
<1>11. engine' = [engine EXCEPT ![e] = y]
  BY DEF MarkTicket, Goto
<1> QED
  BY <1>2, <1>3, <1>6, <1>7, <1>8, <1>10, <1>11, HolderSafe

LEMMA ResponseStep ==
    ASSUME SafetyInv, TypeOK', NEW e \in Engine, RecordResponse(e)
    PROVE  SafetyInv'
<1> DEFINE x == engine[e]
<1> DEFINE r == x.ref
<1>1. TypeOK /\ x \in EngineRecord /\ Fits(x)
  BY DEF SafetyInv, TypeOK, EnginesFit
<1>2. r \in Ref /\ x.rows[r] \in OrderRow /\ x.rows[r].state # "absent" /\ Agrees(x.rows[r], broker[r])
  BY <1>1 DEF RecordResponse, Fits, EngineRecord, Selected
<1>3. UNCHANGED <<wire, broker>>
  BY DEF RecordResponse, outside
<1>4. CASE UNCHANGED tables
  BY <1>3, <1>4, EmptySafe DEF RecordResponse, tables
<1>5. CASE Observe(Acct, r, RowOf(r, x.rows[r])) /\ Idle(e)
  <2>1. /\ LedgerRows' /\ WireAgrees'
        /\ \A q \in Ref \ {r} : intents'[q] = intents[q]
    BY <1>2, <1>3, <1>5, ObserveKeeps
  <2>. PICK y : y = Empty("idle", x.authority, None)
    OBVIOUS
  <2>2. Fits(y) /\ y.ref = None /\ y.pc = "idle"
    BY <1>1, FitsEmpty DEF Selected, Empty
  <2>3. Fits(y)'
    BY <1>3, <2>2 DEF Fits, Selected
  <2>4. engine' = [engine EXCEPT ![e] = y]
    BY <1>5 DEF Idle
  <2> QED
    BY <1>2, <1>3, <2>1, <2>2, <2>3, <2>4, HolderSafe
<1> QED
  BY <1>4, <1>5 DEF RecordResponse

LEMMA SettleStep ==
    ASSUME SafetyInv, TypeOK', NEW e \in Engine, SettleTicket(e)
    PROVE  SafetyInv'
<1> DEFINE x == engine[e]
<1> DEFINE r == x.ref
<1>1. TypeOK /\ x \in EngineRecord /\ Fits(x) /\ intents \in [Ref -> Intent]
  BY DEF SafetyInv, TypeOK, LedgerTypeOK, EnginesFit
<1>2. r \in Ref /\ intents[r] \in Intent
  BY <1>1 DEF SettleTicket, Fits, EngineRecord
<1>3. UNCHANGED <<wire, broker>> /\ End(e, "done")
  BY DEF SettleTicket, outside
<1>4. CASE UNCHANGED tables
  BY <1>3, <1>4, EmptySafe DEF tables, Over
<1>5. CASE MarkUnknown(r) \/ AbandonReserved(r)
  <2>1. /\ UNCHANGED <<dispatched, fills>>
        /\ \/ intents[r].state = "submitting" /\ intents'[r].state = "unknown"
           \/ intents[r].state = "reserved" /\ intents'[r].state = "abandoned"
        /\ intents'[r].account = intents[r].account
        /\ intents'[r].payload = intents[r].payload /\ intents'[r].order = intents[r].order
        /\ \A q \in Ref \ {r} : intents'[q] = intents[q]
    BY <1>1, <1>2, <1>5 DEF MarkUnknown, AbandonReserved, Intent
  <2>2. Unresolved(Acct)' \subseteq Unresolved(Acct)
    BY <1>2, <2>1 DEF Unresolved, PendingStates
  <2>3. {q \in Ref : intents'[q].state \in AttemptedStates} = {q \in Ref : intents[q].state \in AttemptedStates}
    BY <1>2, <2>1 DEF AttemptedStates
  <2>4. LedgerRows'
    BY <1>2, <2>1, <2>2, <2>3 DEF SafetyInv, LedgerRows
  <2>5. WireAgrees'
    BY <1>2, <1>3, <2>1 DEF SafetyInv, WireAgrees, AttemptedStates
  <2>. PICK y : y = Empty("done", None, None)
    OBVIOUS
  <2>6. Fits(y) /\ y.ref = None /\ y.pc = "done"
    BY <1>1, FitsEmpty DEF Selected, Empty
  <2>7. Fits(y)'
    BY <1>3, <2>6 DEF Fits, Selected
  <2>8. engine' = [engine EXCEPT ![e] = y]
    BY <1>3 DEF End
  <2> QED
    BY <1>2, <1>3, <2>1, <2>4, <2>5, <2>6, <2>7, <2>8, HolderSafe
<1> QED
  BY <1>4, <1>5 DEF SettleTicket

(* A step of the holder that changes its reference's request only. *)
LEMMA WireSafe ==
    ASSUME SafetyInv, TypeOK', WireAgrees', UNCHANGED <<intents, dispatched, fills, broker>>,
           NEW e \in Engine, NEW x, engine' = [engine EXCEPT ![e] = x],
           x.ref \in {None, engine[e].ref}, Fits(x)',
           \A q \in Ref \ {engine[e].ref} : wire'[q] = wire[q]
    PROVE  SafetyInv'
<1>1. engine'[e] = x /\ \A d \in Engine \ {e} : engine'[d] = engine[d]
  BY DEF SafetyInv, TypeOK
<1>2. LedgerRows'
  BY DEF SafetyInv, LedgerRows, Unresolved
<1>3. ASSUME NEW d \in Engine \ {e} PROVE Fits(engine[d])'
  <2>1. Fits(engine[d]) /\ engine[d] \in EngineRecord /\ engine'[d] = engine[d]
    BY <1>1 DEF SafetyInv, EnginesFit, TypeOK
  <2>2. engine[d].ref # None => engine[d].ref # engine[e].ref
    BY DEF SafetyInv, RefsOwned
  <2> QED
    BY <2>1, <2>2 DEF Fits, Selected, EngineRecord
<1>4. Fits(engine[e])'
  BY <1>1 DEF Fits
<1>5. RefsOwned'
  BY <1>1 DEF SafetyInv, RefsOwned
<1> QED
  BY <1>2, <1>3, <1>4, <1>5 DEF SafetyInv, EnginesFit

LEMMA PlaceStep ==
    ASSUME SafetyInv, TypeOK', NEW e \in Engine, Place(e)
    PROVE  SafetyInv'
<1> DEFINE x == engine[e]
<1> DEFINE r == x.ref
<1>1. TypeOK /\ x \in EngineRecord /\ Fits(x) /\ wire \in [Ref -> {"idle", "queued", "sent", "dropped"}]
  BY DEF SafetyInv, TypeOK, EnginesFit
<1>2. x.pc = "placing" /\ r \in Ref /\ intents[r].state = "submitting" /\ wire[r] = "idle"
  BY <1>1 DEF Place, Fits, EngineRecord, Selected
<1>3. wire'[r] = "queued" /\ \A q \in Ref \ {r} : wire'[q] = wire[q]
  BY <1>1, <1>2 DEF Place
<1>4. UNCHANGED <<intents, dispatched, fills, broker>>
  BY DEF Place, tables
<1>5. WireAgrees'
  BY <1>2, <1>3, <1>4 DEF SafetyInv, WireAgrees, AttemptedStates
<1>. PICK y : y = [x EXCEPT !.pc = "waiting"]
  OBVIOUS
<1>6. y.ref = r /\ Fits(y)'
  BY <1>1, <1>2, <1>3, <1>4 DEF Fits, EngineRecord, Selected, Stopping
<1>7. engine' = [engine EXCEPT ![e] = y]
  BY DEF Place, Goto
<1> QED
  BY <1>3, <1>4, <1>5, <1>6, <1>7, WireSafe

LEMMA UnqueueStep ==
    ASSUME SafetyInv, TypeOK', NEW e \in Engine, Interrupt(e) \/ Crash(e)
    PROVE  SafetyInv'
<1> DEFINE x == engine[e]
<1> DEFINE r == x.ref
<1>1. TypeOK /\ x \in EngineRecord /\ Fits(x) /\ wire \in [Ref -> {"idle", "queued", "sent", "dropped"}]
  BY DEF SafetyInv, TypeOK, EnginesFit
<1>2. UNCHANGED <<intents, dispatched, fills, broker>>
  BY DEF Interrupt, Crash, tables
<1>3. \A q \in Ref : wire'[q] = wire[q] \/ (q = r /\ wire[q] = "queued" /\ wire'[q] = "dropped")
  BY <1>1 DEF Interrupt, Crash, Unqueue
<1>4. WireAgrees'
  BY <1>2, <1>3 DEF SafetyInv, WireAgrees
<1>5. ASSUME NEW y, Fits(y), y.pc \notin Selected, y.ref \in {None, r}, engine' = [engine EXCEPT ![e] = y]
      PROVE  SafetyInv'
  <2>1. Fits(y)'
    BY <1>2, <1>5 DEF Fits, Selected
  <2> QED
    BY <1>2, <1>3, <1>4, <1>5, <2>1, WireSafe
<1>6. CASE Interrupt(e)
  <2>. PICK y : y = Empty("failed", x.authority, x.ref)
    OBVIOUS
  <2>1. Fits(y) /\ y.ref = r /\ y.pc \notin Selected
    BY <1>1, FitsEmpty DEF Selected, Stopping, Empty
  <2>2. engine' = [engine EXCEPT ![e] = y]
    BY <1>6 DEF Interrupt, Raise
  <2> QED
    BY <1>5, <2>1, <2>2
<1>7. CASE Crash(e)
  <2>. PICK y : y = Empty("crashed", None, None)
    OBVIOUS
  <2>1. Fits(y) /\ y.ref = None /\ y.pc \notin Selected
    BY <1>1, FitsEmpty DEF Selected, Empty
  <2>2. engine' = [engine EXCEPT ![e] = y]
    BY <1>7 DEF Crash, End
  <2> QED
    BY <1>5, <2>1, <2>2
<1> QED
  BY <1>6, <1>7

LEMMA ProviderStep ==
    ASSUME SafetyInv, TypeOK', NEW r \in Ref, Provider(r)
    PROVE  SafetyInv'
<1>1. TypeOK /\ broker \in [Ref -> OrderRow] /\ wire \in [Ref -> {"idle", "queued", "sent", "dropped"}]
  BY DEF SafetyInv, TypeOK
<1>2. UNCHANGED <<intents, dispatched, fills, engine>>
  BY DEF Provider, Send, Arrive, Execute, Finish, tables
<1>3. \A q \in Ref \ {r} : wire'[q] = wire[q] /\ broker'[q] = broker[q]
  BY <1>1 DEF Provider, Send, Arrive, Execute, Finish
<1>4. \/ wire[r] = "queued" /\ wire'[r] = "sent" /\ broker'[r] = broker[r]
      \/ wire[r] = "sent" /\ wire'[r] = "sent"
            /\ broker[r].state # "done" /\ broker'[r].state # "absent"
            /\ broker'[r].executed >= broker[r].executed
  <2>1. broker[r] \in OrderRow /\ (broker[r].state # "absent" => wire[r] = "sent")
    BY <1>1 DEF SafetyInv, WireAgrees
  <2>2. CASE Send(r)
    BY <1>1, <2>2 DEF Send
  <2>3. CASE Arrive(r) \/ Execute(r) \/ Finish(r)
    BY <1>1, <2>1, <2>3, LotAssumption DEF Arrive, Execute, Finish, OrderRow
  <2> QED
    BY <2>2, <2>3 DEF Provider
<1>5. LedgerRows'
  BY <1>2 DEF SafetyInv, LedgerRows, Unresolved
<1>6. WireAgrees'
  BY <1>2, <1>3, <1>4 DEF SafetyInv, WireAgrees
<1>7. ASSUME NEW d \in Engine PROVE Fits(engine[d])'
  <2>1. Fits(engine[d]) /\ engine[d] \in EngineRecord
    BY <1>1 DEF SafetyInv, EnginesFit, TypeOK
  <2>2. ASSUME NEW q \in Ref PROVE Agrees(engine[d].rows[q], broker'[q])
    <3>1. Agrees(engine[d].rows[q], broker[q]) /\ engine[d].rows[q] \in OrderRow
             /\ broker[q] \in OrderRow /\ broker'[q] \in OrderRow
      BY <1>1, <2>1 DEF Fits, EngineRecord, TypeOK
    <3> QED
      BY <1>3, <1>4, <3>1, LotAssumption DEF Agrees, OrderRow
  <2> QED
    BY <1>2, <1>3, <1>4, <2>1, <2>2 DEF Fits, Selected, EngineRecord
<1>8. RefsOwned'
  BY <1>2 DEF SafetyInv, RefsOwned
<1> QED
  BY <1>5, <1>6, <1>7, <1>8, <1>2 DEF SafetyInv, EnginesFit

LEMMA SafetyInit == Init => SafetyInv
<1> SUFFICES ASSUME Init PROVE SafetyInv
  OBVIOUS
<1> USE DEF Init, LedgerInit
<1>1. \A r \in Ref : intents[r] = Absent /\ Absent \in Intent /\ Absent.state = "absent" /\ Absent.order = None
  BY DEF Absent, Intent, States
<1>2. Off \in EngineRecord /\ NoRows \in [Ref -> OrderRow]
  <2>1. Off \in EngineRecord
    BY EmptyType DEF Off, PC
  <2> QED
    BY <2>1, LotAssumption DEF NoRows, Fresh, OrderRow
<1>3. TypeOK
  BY <1>1, <1>2, LeaseRowType DEF TypeOK, LedgerTypeOK
<1>4. LedgerRows
  BY <1>1, FS_EmptySet DEF LedgerRows, Unresolved, PendingStates, AttemptedStates
<1>5. WireAgrees
  BY <1>1 DEF WireAgrees, NoRows, Fresh
<1>6. EnginesFit
  BY <1>3, FitsEmpty DEF EnginesFit, Off, Selected
<1>7. RefsOwned
  BY DEF RefsOwned, Off, Empty
<1> QED
  BY <1>3, <1>4, <1>5, <1>6, <1>7 DEF SafetyInv

LEMMA SafetyStep == SafetyInv /\ [Next]_vars => SafetyInv'
<1> SUFFICES ASSUME SafetyInv, [Next]_vars PROVE SafetyInv'
  OBVIOUS
<1>1. TypeOK'
  BY TypeStep
<1>2. ASSUME NEW e \in Engine, Advance(e) PROVE SafetyInv'
  BY <1>1, <1>2, ControlStep, ReconcileStep, ReserveStep, MarkStep, ResponseStep, SettleStep, PlaceStep
     DEF Advance
<1>3. ASSUME NEW e \in Engine, Disturb(e) PROVE SafetyInv'
  BY <1>1, <1>3, ControlStep, UnqueueStep DEF Disturb
<1>4. ASSUME NEW r \in Ref, Provider(r) PROVE SafetyInv'
  BY <1>1, <1>4, ProviderStep
<1>5. ASSUME UNCHANGED <<intents, dispatched, fills, wire, broker, engine>> PROVE SafetyInv'
  BY <1>1, <1>5 DEF SafetyInv, LedgerRows, Unresolved, WireAgrees, EnginesFit, Fits, RefsOwned
<1>6. CASE LeaseTime \/ UNCHANGED vars
  BY <1>5, <1>6 DEF LeaseTime, Tick, vars, outside
<1> QED
  BY <1>2, <1>3, <1>4, <1>6 DEF Next

(* The inductive invariant: whatever engines overlap, crash, time out or are
   cancelled, the tables, the requests and what every engine carries agree. *)
THEOREM EngineSafe == Spec => []SafetyInv
<1> QED
  BY SafetyInit, SafetyStep, PTL DEF Spec

(* Every variable holds a value of its kind; an execution never takes an
   order past its quantity. *)
THEOREM EngineTypes == Spec => []TypeOK
<1>1. SafetyInv => TypeOK
  BY DEF SafetyInv
<1> QED
  BY <1>1, EngineSafe, PTL

(* An order that can still change the account is a pending ticket. *)
LEMMA ExposedIsPending == SafetyInv => Exposed \subseteq Unresolved(Acct)
<1> SUFFICES ASSUME SafetyInv, NEW r \in Exposed PROVE r \in Unresolved(Acct)
  OBVIOUS
<1>1. r \in Ref /\ wire[r] # "idle"
  BY DEF Exposed
<1>2. intents[r].state \in AttemptedStates /\ intents[r].account = Acct
  BY <1>1 DEF SafetyInv, WireAgrees, LedgerRows, AttemptedStates
<1>3. intents[r].state # "terminal"
  BY <1>1 DEF SafetyInv, WireAgrees, Exposed
<1> QED
  BY <1>1, <1>2, <1>3 DEF Unresolved, AttemptedStates, PendingStates

(* At most one order of the account is on the queue, on the network or open,
   however many engines run and fail: the unique index on pending intents is
   enough without the process lock. *)
THEOREM OneOrderExposed == Spec => []SingleExposure
<1>1. SafetyInv => SingleExposure
  <2> SUFFICES ASSUME SafetyInv PROVE Cardinality(Exposed) <= 1
    BY DEF SingleExposure
  <2>1. \A q, r \in Exposed : q = r
    BY ExposedIsPending DEF SafetyInv, LedgerRows
  <2>2. CASE Exposed = {}
    BY <2>2, FS_EmptySet
  <2>3. CASE Exposed # {}
    <3>1. PICK r \in Exposed : Exposed = {r}
      BY <2>1, <2>3
    <3>2. Cardinality({r}) = 1
      BY FS_Singleton
    <3> QED
      BY <3>1, <3>2
  <2> QED
    BY <2>2, <2>3
<1> QED
  BY <1>1, EngineSafe, PTL

-----------------------------------------------------------------------------
(* The engine implements OrderFate *)

(* The refinement mapping names the pending ticket. *)
LEMMA TicketIs ==
    ASSUME SafetyInv
    PROVE  /\ Unresolved(Acct) = {} => TicketInProgress = None
           /\ \A r \in Unresolved(Acct) : Unresolved(Acct) = {r} /\ TicketInProgress = r
<1>1. ASSUME NEW r \in Unresolved(Acct) PROVE Unresolved(Acct) = {r} /\ TicketInProgress = r
  <2>1. Unresolved(Acct) = {r}
    BY DEF SafetyInv, LedgerRows
  <2> QED
    BY <2>1 DEF TicketInProgress
<1> QED
  BY <1>1 DEF TicketInProgress

(* What a step can do to the tables, the wire and the provider. *)
LEMMA StepKinds ==
    ASSUME SafetyInv, [Next]_vars
    PROVE  \/ UNCHANGED <<intents, dispatched, fills, wire, broker>>
           \/ \E e \in Engine : ReserveTicket(e) /\ Reserve(Acct, engine[e].ref, engine[e].ticket)
           \/ \E e \in Engine : MarkTicket(e)
           \/ \E e \in Engine : /\ SettleTicket(e)
                                /\ MarkUnknown(engine[e].ref) \/ AbandonReserved(engine[e].ref)
           \/ \E e \in Engine, r \in Ref : /\ engine[e].rows[r].state # "absent"
                                           /\ Observe(Acct, r, RowOf(r, engine[e].rows[r]))
                                           /\ UNCHANGED <<wire, broker>>
           \/ \E e \in Engine : Place(e) \/ Interrupt(e) \/ Crash(e)
           \/ \E r \in Ref : Provider(r)
<1> USE DEF tables, outside
<1>1. ASSUME NEW e \in Engine, Advance(e)
      PROVE  \/ UNCHANGED <<intents, dispatched, fills, wire, broker>>
             \/ ReserveTicket(e) /\ Reserve(Acct, engine[e].ref, engine[e].ticket)
             \/ MarkTicket(e)
             \/ SettleTicket(e) /\ (MarkUnknown(engine[e].ref) \/ AbandonReserved(engine[e].ref))
             \/ \E r \in Ref : /\ engine[e].rows[r].state # "absent"
                               /\ Observe(Acct, r, RowOf(r, engine[e].rows[r]))
                               /\ UNCHANGED <<wire, broker>>
             \/ Place(e)
  <2>1. CASE Reconcile(e)
    BY <2>1 DEF Reconcile, Listed, Unresolved
  <2>2. CASE ReserveTicket(e)
    BY <2>2 DEF ReserveTicket
  <2>3. CASE SettleTicket(e)
    BY <2>3 DEF SettleTicket
  <2>4. CASE RecordResponse(e)
    <3>1. engine[e].ref \in Ref /\ engine[e].rows[engine[e].ref].state # "absent"
      BY <2>4 DEF RecordResponse, SafetyInv, EnginesFit, Fits, Selected, TypeOK, EngineRecord
    <3> QED
      BY <2>4, <3>1 DEF RecordResponse
  <2>5. CASE ArmLease(e) \/ Recover(e) \/ GiveUpLease(e)
    BY <2>5 DEF ArmLease, Recover, GiveUpLease, AcquireLease, ReleaseLease
  <2>6. CASE \/ Register(e) \/ ReadPositions(e) \/ ReadOrders(e) \/ Verify(e)
             \/ FirstSnapshotDone(e) \/ SelectTicket(e) \/ NoTicketDue(e) \/ CheckFails(e)
             \/ RiskBlocked(e) \/ Assess(e) \/ CheckReserved(e) \/ CheckMarked(e) \/ StopStanding(e)
    BY <2>6 DEF Register, ReadPositions, ReadOrders, Verify, FirstSnapshotDone, SelectTicket,
                NoTicketDue, CheckFails, RiskBlocked, Assess, CheckReserved, CheckMarked, StopStanding
  <2> QED
    BY <1>1, <2>1, <2>2, <2>3, <2>4, <2>5, <2>6 DEF Advance
<1>2. ASSUME NEW e \in Engine, Disturb(e)
      PROVE  \/ UNCHANGED <<intents, dispatched, fills, wire, broker>>
             \/ Interrupt(e) \/ Crash(e)
  BY <1>2 DEF Disturb, Launch, LaunchRecovery, RegisterFails, RecoverTimeout, Heartbeat, BeginCycle,
              LeaveCycles, ReadUnavailable, Respond, Fence, RenewLease, ReleaseLease
<1>3. CASE LeaseTime \/ UNCHANGED vars
  BY <1>3 DEF LeaseTime, Tick, vars
<1> QED
  BY <1>1, <1>2, <1>3 DEF Next

LEMMA FateInit == Init => Fate!Init
  BY FS_EmptySet DEF Init, LedgerInit, Fate!Init, TicketInProgress, Unresolved, PendingStates, Absent,
                     NoRows, Fresh

(* A step of the engines is a step of OrderFate or changes nothing of it. *)
LEMMA FateStep == SafetyInv /\ [Next]_vars => [Fate!Next]_(Fate!fateVars)
<1> SUFFICES ASSUME SafetyInv, [Next]_vars PROVE [Fate!Next]_(Fate!fateVars)
  OBVIOUS
<1> DEFINE pending == Unresolved(Acct)
<1> DEFINE taken == {r \in Ref : intents[r].state # "absent"}
<1> DEFINE sent == {r \in Ref : wire[r] = "sent"}
<1> DEFINE finished == {r \in Ref : broker[r].state = "done"}
<1>1. SafetyInv'
  BY SafetyStep
<1>2. /\ intents \in [Ref -> Intent] /\ wire \in [Ref -> {"idle", "queued", "sent", "dropped"}]
      /\ broker \in [Ref -> OrderRow] /\ engine \in [Engine -> EngineRecord]
  BY DEF SafetyInv, TypeOK, LedgerTypeOK
<1>3. ASSUME UNCHANGED <<pending, taken, sent, finished>> PROVE UNCHANGED Fate!fateVars
  BY <1>3 DEF Fate!fateVars, TicketInProgress
<1>4. CASE UNCHANGED <<intents, dispatched, fills, wire, broker>>
  BY <1>3, <1>4 DEF Unresolved
<1>5. ASSUME NEW r \in Ref, pending = {r}, pending' = {}, taken' = taken, sent' = sent, finished' = finished,
             r \notin sent \/ r \in finished
      PROVE  Fate!Next
  <2>1. TicketInProgress = r /\ TicketInProgress' = None
    BY <1>1, <1>5, TicketIs DEF TicketInProgress
  <2>2. Fate!Resolve(r)
    BY <1>5, <2>1 DEF Fate!Resolve
  <2> QED
    BY <2>2 DEF Fate!Next
<1>6. CASE \E e \in Engine : ReserveTicket(e) /\ Reserve(Acct, engine[e].ref, engine[e].ticket)
  <2>1. PICK e \in Engine : ReserveTicket(e) /\ Reserve(Acct, engine[e].ref, engine[e].ticket)
    BY <1>6
  <2>. PICK r : r = engine[e].ref
    OBVIOUS
  <2>2. r \in Ref /\ UNCHANGED <<wire, broker>>
    BY <1>2, <2>1 DEF ReserveTicket, SafetyInv, EnginesFit, Fits, Selected, EngineRecord, outside
  <2>3. /\ intents[r].state = "absent" /\ pending = {}
        /\ intents'[r].state = "reserved" /\ intents'[r].account = Acct
        /\ \A q \in Ref \ {r} : intents'[q] = intents[q]
    BY <1>2, <2>1, <2>2 DEF Reserve, Reservable
  <2>4. pending' = {r} /\ taken' = taken \cup {r}
    BY <2>2, <2>3 DEF Unresolved, PendingStates
  <2>5. TicketInProgress = None /\ TicketInProgress' = r
    BY <1>1, <2>3, <2>4, TicketIs DEF TicketInProgress
  <2>6. Fate!Take(r)
    BY <2>2, <2>3, <2>4, <2>5 DEF Fate!Take
  <2> QED
    BY <2>2, <2>6 DEF Fate!Next
<1>7. CASE \E e \in Engine : MarkTicket(e)
  <2>1. PICK e \in Engine : MarkTicket(e)
    BY <1>7
  <2> DEFINE r == engine[e].ref
  <2>2. r \in Ref /\ UNCHANGED <<wire, broker>>
    BY <1>2, <2>1 DEF MarkTicket, SafetyInv, EnginesFit, Fits, Selected, EngineRecord, outside
  <2> HIDE DEF r
  <2>3. /\ intents[r].state = "reserved" /\ intents'[r].state = "submitting"
        /\ intents'[r].account = intents[r].account
        /\ \A q \in Ref \ {r} : intents'[q] = intents[q]
    BY <1>2, <2>1, <2>2 DEF MarkTicket, MarkSubmitting, Intent, r
  <2>4. pending' = pending /\ taken' = taken
    BY <2>2, <2>3 DEF Unresolved, PendingStates
  <2> QED
    BY <1>3, <2>2, <2>4
<1>8. CASE \E e \in Engine : SettleTicket(e) /\ (MarkUnknown(engine[e].ref) \/ AbandonReserved(engine[e].ref))
  <2>1. PICK e \in Engine : /\ SettleTicket(e)
                            /\ MarkUnknown(engine[e].ref) \/ AbandonReserved(engine[e].ref)
    BY <1>8
  <2> DEFINE r == engine[e].ref
  <2>2. r \in Ref /\ UNCHANGED <<wire, broker>>
    BY <1>2, <2>1 DEF SettleTicket, SafetyInv, EnginesFit, Fits, EngineRecord, outside
  <2> HIDE DEF r
  <2>3. /\ \/ intents[r].state = "submitting" /\ intents'[r].state = "unknown"
           \/ intents[r].state = "reserved" /\ intents'[r].state = "abandoned"
        /\ intents'[r].account = intents[r].account
        /\ \A q \in Ref \ {r} : intents'[q] = intents[q]
    BY <1>2, <2>1, <2>2 DEF MarkUnknown, AbandonReserved, Intent, r
  <2>4. taken' = taken /\ sent' = sent /\ finished' = finished
    BY <2>2, <2>3
  <2>5. CASE intents'[r].state = "unknown"
    <3>1. pending' = pending
      BY <2>2, <2>3, <2>5 DEF Unresolved, PendingStates
    <3> QED
      BY <1>3, <2>4, <3>1
  <2>6. CASE intents'[r].state = "abandoned"
    <3>1. r \in pending /\ r \notin sent
      BY <2>2, <2>3, <2>6 DEF SafetyInv, WireAgrees, LedgerRows, Unresolved, PendingStates, AttemptedStates
    <3>2. pending = {r} /\ pending' = {}
      <4>1. pending = {r}
        BY <3>1, TicketIs
      <4> QED
        BY <2>2, <2>3, <2>6, <4>1 DEF Unresolved, PendingStates
    <3> HIDE DEF pending, sent
    <3> QED
      BY <1>5, <2>2, <2>4, <3>1, <3>2
  <2> QED
    BY <2>3, <2>5, <2>6
<1>9. CASE \E e \in Engine, r \in Ref : /\ engine[e].rows[r].state # "absent"
                                       /\ Observe(Acct, r, RowOf(r, engine[e].rows[r]))
                                       /\ UNCHANGED <<wire, broker>>
  <2>1. PICK e \in Engine, r \in Ref : /\ engine[e].rows[r].state # "absent"
                                      /\ Observe(Acct, r, RowOf(r, engine[e].rows[r]))
                                      /\ UNCHANGED <<wire, broker>>
    BY <1>9
  <2>2. Agrees(engine[e].rows[r], broker[r]) /\ engine[e].rows[r] \in OrderRow
    BY <1>2 DEF SafetyInv, EnginesFit, Fits, EngineRecord
  <2>3. /\ \A q \in Ref \ {r} : intents'[q] = intents[q]
        /\ intents'[r].state \in {"open", "terminal"}
    BY <2>1, <2>2, ObserveKeeps
  <2>4. /\ intents[r].state \in AttemptedStates /\ intents[r].account = Acct
        /\ intents'[r].account = Acct
        /\ intents[r].state = "terminal" => intents'[r].state = "terminal"
    <3>1. intents[r].state \in AttemptedStates /\ intents[r].account = Acct
      BY <2>1 DEF Observe, Observable, SameTicket
    <3>2. intents'[r].account = Acct
      BY <1>1, <2>3 DEF SafetyInv, LedgerRows
    <3>3. intents[r].state = "terminal" => intents'[r].state = "terminal"
      BY <1>2, <2>1 DEF Observe, Observable, Intent
    <3> QED
      BY <3>1, <3>2, <3>3
  <2>5. taken' = taken /\ sent' = sent /\ finished' = finished
    BY <2>1, <2>3, <2>4 DEF AttemptedStates
  <2>6. CASE intents'[r].state = "open" \/ intents[r].state = "terminal"
    <3>1. pending' = pending
      BY <2>3, <2>4, <2>6 DEF Unresolved, PendingStates, AttemptedStates
    <3> QED
      BY <1>3, <2>5, <3>1
  <2>7. CASE intents'[r].state = "terminal" /\ intents[r].state # "terminal"
    <3>1. r \in pending /\ r \in finished
      BY <1>1, <2>1, <2>4, <2>7 DEF SafetyInv, WireAgrees, Unresolved, PendingStates, AttemptedStates
    <3>2. pending = {r} /\ pending' = {}
      <4>1. pending = {r}
        BY <3>1, TicketIs
      <4> QED
        BY <2>3, <2>7, <4>1 DEF Unresolved, PendingStates
    <3> HIDE DEF pending, finished
    <3> QED
      BY <1>5, <2>5, <3>1, <3>2
  <2> QED
    BY <2>3, <2>6, <2>7
<1>10. CASE \E e \in Engine : Place(e) \/ Interrupt(e) \/ Crash(e)
  <2>1. PICK e \in Engine : Place(e) \/ Interrupt(e) \/ Crash(e)
    BY <1>10
  <2>2. UNCHANGED <<intents, broker>>
    BY <2>1 DEF Place, Interrupt, Crash, tables
  <2>3. sent' = sent
    <3>1. CASE Place(e)
      <4>1. wire[engine[e].ref] = "idle"
        BY <3>1 DEF Place, SafetyInv, EnginesFit, Fits
      <4> QED
        BY <1>2, <3>1, <4>1 DEF Place
    <3>2. CASE Interrupt(e) \/ Crash(e)
      BY <1>2, <3>2 DEF Interrupt, Crash, Unqueue
    <3> QED
      BY <2>1, <3>1, <3>2
  <2> QED
    BY <1>3, <2>2, <2>3 DEF Unresolved
<1>11. CASE \E r \in Ref : Provider(r)
  <2>1. PICK r \in Ref : Provider(r)
    BY <1>11
  <2>2. pending' = pending /\ taken' = taken /\ TicketInProgress' = TicketInProgress
    <3>1. intents' = intents
      BY <2>1 DEF Provider, Send, Arrive, Execute, Finish, tables
    <3> QED
      BY <3>1 DEF Unresolved, TicketInProgress
  <2>3. CASE Send(r)
    <3>1. r \notin sent /\ sent' = sent \cup {r} /\ finished' = finished
      BY <1>2, <2>3 DEF Send
    <3>2. r \in pending
      BY <2>3, ExposedIsPending DEF Exposed, Send
    <3>3. TicketInProgress = r
      BY <3>2, TicketIs
    <3>4. Fate!Send(r)
      BY <2>2, <3>1, <3>3 DEF Fate!Send
    <3> QED
      BY <3>4 DEF Fate!Next
  <2>4. CASE Arrive(r) \/ Execute(r)
    <3>1. sent' = sent /\ finished' = finished
      BY <1>2, <2>4 DEF Arrive, Execute, OrderRow
    <3> QED
      BY <1>3, <2>2, <3>1
  <2>5. CASE Finish(r)
    <3>1. sent' = sent /\ r \in sent \ finished /\ finished' = finished \cup {r}
      BY <1>2, <2>5 DEF Finish, OrderRow, SafetyInv, WireAgrees
    <3>2. Fate!Finish(r)
      BY <2>2, <3>1 DEF Fate!Finish
    <3> QED
      BY <3>2 DEF Fate!Next
  <2> QED
    BY <2>1, <2>3, <2>4, <2>5 DEF Provider
<1> QED
  BY <1>4, <1>6, <1>7, <1>8, <1>9, <1>10, <1>11, StepKinds

(* The engines, the ledger and the provider together implement OrderFate: a
   reference is taken once, sent at most once while it is the ticket in
   progress, and given up only unsent or finished. *)
THEOREM EngineImplementsFate == Spec => ImplementsOrderFate
<1> QED
  BY EngineSafe, FateInit, FateStep, PTL DEF Spec, ImplementsOrderFate, Fate!Spec

-----------------------------------------------------------------------------
(* Where the records that matter come from *)

(* The points of a cycle from the second snapshot's verification to the
   placement. *)
Deciding == {"quotes", "eligibility", "ticket", "reserved", "cleared", "marked", "placing"}

(* Only an engine's own steps bring it to such a point. *)
LEMMA EngineMoves ==
    ASSUME SafetyInv, [Next]_vars, NEW d \in Engine, engine'[d].pc \in Deciding
    PROVE  \/ engine'[d] = engine[d]
           \/ Verify(d) \/ SelectTicket(d) \/ Assess(d) \/ ReserveTicket(d) \/ CheckReserved(d)
           \/ MarkTicket(d) \/ CheckMarked(d)
<1>1. engine \in [Engine -> EngineRecord]
  BY DEF SafetyInv, TypeOK
<1> DEFINE Result == \/ engine'[d] = engine[d]
                     \/ Verify(d) \/ SelectTicket(d) \/ Assess(d) \/ ReserveTicket(d) \/ CheckReserved(d)
                     \/ MarkTicket(d) \/ CheckMarked(d)
<1> SUFFICES ASSUME ~Result PROVE FALSE
  OBVIOUS
<1>2. ASSUME NEW e \in Engine, NEW pc, pc \notin Deciding, engine' = [engine EXCEPT ![e].pc = pc] PROVE FALSE
  <2>1. CASE d = e
    BY <1>1, <1>2, <2>1 DEF EngineRecord
  <2>2. CASE d # e
    BY <1>1, <1>2, <2>2
  <2> QED
    BY <2>1, <2>2
<1>3. ASSUME NEW e \in Engine, NEW pc, pc \notin Deciding, Goto(e, pc) PROVE FALSE
  BY <1>2, <1>3 DEF Goto
<1>4. ASSUME NEW e \in Engine, NEW pc, NEW a, NEW r, pc \notin Deciding,
             engine' = [engine EXCEPT ![e] = Empty(pc, a, r)]
      PROVE  FALSE
  <2>1. Empty(pc, a, r).pc = pc
    BY DEF Empty
  <2> QED
    BY <1>1, <1>4, <2>1
<1>5. ASSUME NEW e \in Engine PROVE /\ ~Idle(e) /\ ~Raise(e)
                                    /\ \A pc \in {"done", "crashed"} : ~End(e, pc)
  BY <1>4 DEF Idle, Raise, End, Deciding
<1>6. ASSUME NEW e \in Engine,
             \/ Verify(e) \/ SelectTicket(e) \/ Assess(e) \/ ReserveTicket(e) \/ CheckReserved(e)
             \/ MarkTicket(e) \/ CheckMarked(e)
      PROVE  FALSE
  <2>1. d # e
    BY <1>6
  <2>2. ASSUME NEW pc, Goto(e, pc) PROVE FALSE
    BY <1>1, <2>1, <2>2 DEF Goto
  <2>3. ~Verify(e) /\ ~SelectTicket(e)
    BY <1>1, <1>5, <2>1 DEF Verify, SelectTicket
  <2> QED
    BY <1>5, <1>6, <2>2, <2>3 DEF Assess, ReserveTicket, CheckReserved, MarkTicket, CheckMarked
<1>7. ASSUME NEW e \in Engine, Advance(e) PROVE FALSE
  <2>1. CASE ArmLease(e) \/ Recover(e)
    BY <1>3, <1>5, <2>1 DEF ArmLease, Recover, Deciding
  <2>2. CASE Register(e)
    BY <1>1, <2>2 DEF Register, Deciding, EngineRecord
  <2>3. CASE ReadPositions(e) \/ ReadOrders(e) \/ FirstSnapshotDone(e)
    BY <1>1, <2>3 DEF ReadPositions, ReadOrders, FirstSnapshotDone, Deciding, EngineRecord
  <2>4. CASE Reconcile(e)
    BY <1>3, <1>5, <2>4 DEF Reconcile, Deciding
  <2>5. CASE NoTicketDue(e) \/ CheckFails(e) \/ RiskBlocked(e) \/ RecordResponse(e)
    BY <1>5, <2>5 DEF NoTicketDue, CheckFails, RiskBlocked, RecordResponse
  <2>6. CASE Place(e) \/ StopStanding(e)
    BY <1>3, <2>6 DEF Place, StopStanding, Deciding
  <2>7. CASE GiveUpLease(e) \/ SettleTicket(e)
    BY <1>3, <1>5, <2>7 DEF GiveUpLease, SettleTicket, Deciding
  <2> QED
    BY <1>6, <1>7, <2>1, <2>2, <2>3, <2>4, <2>5, <2>6, <2>7 DEF Advance
<1>8. ASSUME NEW e \in Engine, Disturb(e) PROVE FALSE
  <2>1. CASE Launch(e) \/ BeginCycle(e)
    BY <1>3, <2>1 DEF Launch, BeginCycle, Deciding
  <2>2. CASE LaunchRecovery(e)
    BY <1>1, <2>2 DEF LaunchRecovery, Deciding, EngineRecord
  <2>3. CASE RegisterFails(e) \/ RecoverTimeout(e) \/ Crash(e)
    BY <1>5, <2>3 DEF RegisterFails, RecoverTimeout, Crash
  <2>4. CASE LeaveCycles(e) \/ ReadUnavailable(e) \/ Interrupt(e)
    BY <1>5, <2>4 DEF LeaveCycles, ReadUnavailable, Interrupt
  <2>5. CASE Heartbeat(e) \/ Fence(e)
    BY <2>5 DEF Heartbeat, Fence
  <2>6. CASE Respond(e)
    BY <1>1, <2>6 DEF Respond, Deciding, EngineRecord
  <2> QED
    BY <1>8, <2>1, <2>2, <2>3, <2>4, <2>5, <2>6 DEF Disturb
<1>9. engine' # engine
  OBVIOUS
<1> QED
  BY <1>7, <1>8, <1>9 DEF Next, Provider, Send, Arrive, Execute, Finish, LeaseTime, vars

(* A lease is only ever won while an engine starts. *)
LEMMA LeaseMoves ==
    ASSUME SafetyInv, [Next]_vars, NEW d \in Engine, engine'[d].pc \in Deciding, LeaseActive(Acct, d)'
    PROVE  LeaseActive(Acct, d)
<1> SUFFICES ASSUME ~LeaseActive(Acct, d) PROVE FALSE
  OBVIOUS
<1>1. /\ engine \in [Engine -> EngineRecord] /\ lease \in [{Acct} -> Lease]
      /\ lease[Acct].left \in 0..TTL
  BY LeaseRowType DEF SafetyInv, TypeOK, LedgerTypeOK
<1>2. lease' # lease
  BY DEF LeaseActive
<1>3. ASSUME NEW e \in Engine PROVE ~RenewLease(Acct, e) /\ ~ReleaseLease(Acct, e)
  BY <1>1, AbsentAssumption, TermAssumption DEF RenewLease, ReleaseLease, LeaseActive, Lease, NoLease
<1>4. ~Tick
  BY <1>1 DEF Tick, LeaseActive, Lease
<1>5. ASSUME NEW e \in Engine, AcquireLease(Acct, e), NEW pc, pc \notin Deciding, Goto(e, pc) PROVE FALSE
  <2>1. d # e
    BY <1>1, <1>5 DEF Goto, EngineRecord
  <2> QED
    BY <1>1, <1>5, <2>1 DEF AcquireLease, LeaseActive
<1>6. ASSUME NEW e \in Engine, Advance(e) PROVE FALSE
  BY <1>2, <1>3, <1>5, <1>6 DEF Advance, ArmLease, Register, Recover, ReadPositions, ReadOrders, Reconcile,
     Verify, FirstSnapshotDone, SelectTicket, NoTicketDue, CheckFails, RiskBlocked, Assess, ReserveTicket,
     CheckReserved, MarkTicket, CheckMarked, Place, RecordResponse, StopStanding, GiveUpLease,
     SettleTicket, tables, Observe, Reserve, MarkSubmitting, MarkUnknown, AbandonReserved, Deciding
<1>7. ASSUME NEW e \in Engine, Disturb(e) PROVE FALSE
  BY <1>2, <1>3, <1>7 DEF Disturb, Launch, LaunchRecovery, RegisterFails, RecoverTimeout, Heartbeat, BeginCycle,
     LeaveCycles, ReadUnavailable, Interrupt, Respond, Crash, Fence, tables
<1> QED
  BY <1>2, <1>4, <1>6, <1>7 DEF Next, Provider, Send, Arrive, Execute, Finish, LeaseTime, vars, tables

-----------------------------------------------------------------------------
(* The daily order count *)

(* The count is read in assess_ticket and used at the boundary, several awaits
   later.  It is still good there because the lease keeps other engines from
   dispatching in between, and because an engine that lost its lease can pass
   the boundary only with the ticket that it had reserved before. *)

Leased(e) == LeaseActive(Acct, e)

(* While an engine that holds the lease has a verified snapshot, the only
   ticket that can be pending is one that will not be dispatched. *)
AccountClear ==
    \A e \in Engine :
        engine[e].pc \in {"quotes", "eligibility", "ticket"} /\ Leased(e) =>
            \A r \in Unresolved(Acct) :
                /\ intents[r].state = "reserved"
                /\ \A d \in Engine : engine[d].pc = "cleared" => engine[d].ref # r

(* A buy on its way to the boundary still has room under the cap. *)
CountInTime ==
    \A e \in Engine :
        engine[e].ticket # None /\ engine[e].ticket.side = "buy" =>
        /\ engine[e].pc \in {"ticket", "reserved"} /\ Leased(e) => Cardinality(dispatched) < maxOrders
        /\ engine[e].pc = "cleared" => Cardinality(dispatched) < maxOrders

CapInv == AccountClear /\ CountInTime /\ DailyOrderCap

LEMMA OneHolder ==
    ASSUME NEW d \in Engine, NEW e \in Engine, Leased(d), Leased(e)
    PROVE  d = e
  BY DEF Leased, LeaseActive

(* What a step does to one pending ticket. *)
LEMMA PendingMoves ==
    ASSUME SafetyInv, [Next]_vars, NEW r \in Unresolved(Acct)'
    PROVE  \/ r \in Unresolved(Acct) /\ intents'[r] = intents[r]
           \/ intents'[r].state = "reserved" /\ UNCHANGED lease
                /\ \E e \in Engine : ReserveTicket(e) /\ engine[e].ref = r
           \/ r \in Unresolved(Acct) /\ \E e \in Engine : MarkTicket(e) /\ engine[e].ref = r
           \/ r \in Unresolved(Acct) /\ intents[r].state # "reserved"
<1>1. /\ intents \in [Ref -> Intent] /\ engine \in [Engine -> EngineRecord]
      /\ r \in Ref /\ intents'[r].state \in PendingStates /\ intents'[r].account = Acct
  BY DEF SafetyInv, TypeOK, LedgerTypeOK, Unresolved
<1>2. CASE intents'[r] = intents[r]
  BY <1>1, <1>2 DEF Unresolved
<1>3. CASE \E e \in Engine : ReserveTicket(e) /\ Reserve(Acct, engine[e].ref, engine[e].ticket)
  BY <1>1, <1>2, <1>3 DEF Reserve
<1>4. CASE \E e \in Engine : MarkTicket(e)
  BY <1>1, <1>2, <1>4 DEF MarkTicket, MarkSubmitting, Unresolved, PendingStates, SafetyInv, LedgerRows
<1>5. CASE \E e \in Engine : /\ SettleTicket(e)
                             /\ MarkUnknown(engine[e].ref) \/ AbandonReserved(engine[e].ref)
  <2>1. PICK e \in Engine : MarkUnknown(engine[e].ref) \/ AbandonReserved(engine[e].ref)
    BY <1>5
  <2>2. CASE engine[e].ref # r
    BY <1>1, <1>2, <2>1, <2>2 DEF MarkUnknown, AbandonReserved
  <2>3. CASE engine[e].ref = r
    <3>1. intents[r].state = "submitting"
      BY <1>1, <2>1, <2>3 DEF MarkUnknown, AbandonReserved, Intent, PendingStates
    <3> QED
      BY <1>1, <3>1 DEF SafetyInv, LedgerRows, Unresolved, PendingStates
  <2> QED
    BY <2>2, <2>3
<1>6. CASE \E e \in Engine, q \in Ref : /\ engine[e].rows[q].state # "absent"
                                        /\ Observe(Acct, q, RowOf(q, engine[e].rows[q]))
                                        /\ UNCHANGED <<wire, broker>>
  <2>1. PICK e \in Engine, q \in Ref : Observe(Acct, q, RowOf(q, engine[e].rows[q]))
    BY <1>6
  <2>2. CASE q # r
    BY <1>1, <1>2, <2>1, <2>2 DEF Observe
  <2>3. CASE q = r
    <3>1. intents[r].state \in AttemptedStates /\ intents[r].account = Acct
      BY <2>1, <2>3 DEF Observe, Observable, SameTicket
    <3>2. intents[r].state # "terminal"
      BY <1>1, <2>1, <2>3 DEF Observe, Observable, Intent, PendingStates
    <3> QED
      BY <1>1, <3>1, <3>2 DEF Unresolved, PendingStates, AttemptedStates
  <2> QED
    BY <2>2, <2>3
<1>7. CASE intents' = intents
  BY <1>2, <1>7
<1> QED
  BY <1>3, <1>4, <1>5, <1>6, <1>7, StepKinds
     DEF Place, Interrupt, Crash, Provider, Send, Arrive, Execute, Finish, tables

(* A lease holder's decision never meets a ticket on its way. *)
LEMMA ClearStep ==
    ASSUME SafetyInv, CapInv, [Next]_vars
    PROVE  AccountClear'
<1> SUFFICES ASSUME NEW e \in Engine, engine'[e].pc \in {"quotes", "eligibility", "ticket"}, Leased(e)',
                    NEW r \in Unresolved(Acct)'
             PROVE  /\ intents'[r].state = "reserved"
                    /\ \A d \in Engine : engine'[d].pc = "cleared" => engine'[d].ref # r
  BY DEF AccountClear
<1>1. SafetyInv' /\ SafetyInv
  BY SafetyStep
<1>2. /\ engine \in [Engine -> EngineRecord] /\ r \in Ref
  BY DEF SafetyInv, TypeOK, Unresolved
<1>3. Leased(e)
  BY LeaseMoves DEF Leased, Deciding
<1>4. \/ Unresolved(Acct) = {} /\ UNCHANGED tables
      \/ engine[e].pc \in {"quotes", "eligibility", "ticket"}
  <2>1. CASE Verify(e)
    BY <1>2, <2>1 DEF Verify, Settled, Raise, Empty
  <2>2. CASE ReserveTicket(e) \/ CheckReserved(e) \/ MarkTicket(e) \/ CheckMarked(e)
    BY <1>2, <2>2 DEF ReserveTicket, CheckReserved, MarkTicket, CheckMarked, Goto, Raise, Empty, EngineRecord
  <2>3. CASE SelectTicket(e) \/ Assess(e) \/ engine'[e] = engine[e]
    BY <2>3 DEF SelectTicket, Assess
  <2> QED
    BY <2>1, <2>2, <2>3, EngineMoves DEF Deciding
<1>5. engine[e].pc \in {"quotes", "eligibility", "ticket"}
  <2>1. UNCHANGED tables => Unresolved(Acct)' = Unresolved(Acct)
    BY DEF tables, Unresolved
  <2> QED
    BY <1>4, <2>1
<1>6. \A q \in Unresolved(Acct) : /\ intents[q].state = "reserved"
                                  /\ \A d \in Engine : engine[d].pc = "cleared" => engine[d].ref # q
  BY <1>3, <1>5 DEF CapInv, AccountClear
<1>7. intents'[r].state = "reserved" /\ (r \in Unresolved(Acct) \/ \E d \in Engine : ReserveTicket(d) /\ engine[d].ref = r)
  BY <1>6, PendingMoves DEF MarkTicket
<1>8. ASSUME NEW d \in Engine, engine'[d].pc = "cleared", engine'[d].ref = r PROVE FALSE
  <2>1. CASE engine'[d] = engine[d]
    <3>1. r \in Unresolved(Acct)
      <4>1. intents[r].state = "reserved"
        BY <1>8, <2>1 DEF SafetyInv, EnginesFit, Fits
      <4> QED
        BY <1>2, <4>1 DEF SafetyInv, LedgerRows, Unresolved, PendingStates
    <3> QED
      BY <1>6, <1>8, <2>1, <3>1
  <2>2. CASE CheckReserved(d)
    <3>1. Leased(d) /\ d # e
      BY <1>5, <2>2 DEF CheckReserved, Check, Leased
    <3> QED
      BY <1>3, <3>1, OneHolder
  <2>3. CASE Verify(d) \/ SelectTicket(d)
    <3>1. Verify(d) => engine'[d].pc \in {"quotes", "failed"}
      BY <1>2 DEF Verify, Raise, Empty, EngineRecord
    <3>2. SelectTicket(d) => engine'[d].pc = "eligibility"
      BY <1>2 DEF SelectTicket, EngineRecord
    <3> QED
      BY <1>8, <2>3, <3>1, <3>2
  <2>4. CASE Assess(d) \/ ReserveTicket(d) \/ MarkTicket(d) \/ CheckMarked(d)
    BY <1>2, <1>8, <2>4 DEF Assess, ReserveTicket, MarkTicket, MarkSubmitting, CheckMarked, Goto, Raise, Empty, EngineRecord
  <2> QED
    BY <1>8, <2>1, <2>2, <2>3, <2>4, EngineMoves DEF Deciding
<1> QED
  BY <1>7, <1>8


(* Only the dispatch of a ticket changes the dispatch table, and nothing
   rewrites what a dispatched ticket asked for. *)
LEMMA DispatchMoves ==
    ASSUME SafetyInv, [Next]_vars
    PROVE  /\ dispatched' = dispatched \/ \E e \in Engine : MarkTicket(e)
           /\ \A r \in Ref : intents[r].state # "absent" => intents'[r].payload = intents[r].payload
<1>1. /\ intents \in [Ref -> Intent] /\ engine \in [Engine -> EngineRecord]
      /\ \A e \in Engine : engine[e] \in EngineRecord
  BY DEF SafetyInv, TypeOK, LedgerTypeOK
<1>2. CASE \E e \in Engine : ReserveTicket(e) /\ Reserve(Acct, engine[e].ref, engine[e].ticket)
  <2>1. PICK e \in Engine : ReserveTicket(e) /\ Reserve(Acct, engine[e].ref, engine[e].ticket)
    BY <1>2
  <2>2. PICK q : q = engine[e].ref
    OBVIOUS
  <2>3. intents[q].state = "absent" /\ dispatched' = dispatched
    BY <2>1, <2>2 DEF Reserve, Reservable, ReserveTicket, SafetyInv, EnginesFit, Fits
  <2>4. \A r \in Ref : r # q => intents'[r] = intents[r]
    BY <1>1, <2>1, <2>2 DEF Reserve
  <2> QED
    BY <2>3, <2>4
<1>3. CASE \E e \in Engine : MarkTicket(e)
  <2>1. PICK q : intents' = [intents EXCEPT ![q].state = "submitting"]
    BY <1>3 DEF MarkTicket, MarkSubmitting
  <2> QED
    BY <1>1, <1>3, <2>1 DEF Intent
<1>4. CASE \E e \in Engine : /\ SettleTicket(e)
                             /\ MarkUnknown(engine[e].ref) \/ AbandonReserved(engine[e].ref)
  BY <1>1, <1>4 DEF MarkUnknown, AbandonReserved, Intent
<1>5. CASE \E e \in Engine, q \in Ref : /\ engine[e].rows[q].state # "absent"
                                        /\ Observe(Acct, q, RowOf(q, engine[e].rows[q]))
                                        /\ UNCHANGED <<wire, broker>>
  <2>1. PICK e \in Engine, q \in Ref : Observe(Acct, q, RowOf(q, engine[e].rows[q]))
    BY <1>5
  <2> DEFINE s == IF RowOf(q, engine[e].rows[q]).terminal THEN "terminal" ELSE "open"
  <2> DEFINE o == RowOf(q, engine[e].rows[q]).order
  <2>2. intents' = [intents EXCEPT ![q].order = o, ![q].state = s] /\ dispatched' = dispatched
    BY <2>1 DEF Observe
  <2> HIDE DEF s, o
  <2> QED
    BY <1>1, <2>2 DEF Intent
<1>6. CASE UNCHANGED <<intents, dispatched>>
  BY <1>6
<1> QED
  BY <1>2, <1>3, <1>4, <1>5, <1>6, StepKinds
     DEF Place, Interrupt, Crash, Provider, Send, Arrive, Execute, Finish, tables

LEMMA CountStep ==
    ASSUME SafetyInv, CapInv, [Next]_vars
    PROVE  CountInTime'
<1>1. /\ engine \in [Engine -> EngineRecord] /\ maxOrders' = maxOrders /\ maxOrders \in Nat
      /\ UsedToday(Acct) = dispatched
      /\ UsageKnown(Acct)
  BY CapFixed DEF SafetyInv, TypeOK, CapInv, LedgerRows, UsedToday, UsageKnown, Attempted, AttemptedStates
<1> SUFFICES ASSUME NEW e \in Engine, engine'[e].ticket # None, engine'[e].ticket.side = "buy",
                    \/ engine'[e].pc \in {"ticket", "reserved"} /\ Leased(e)'
                    \/ engine'[e].pc = "cleared"
             PROVE  Cardinality(dispatched') < maxOrders
  BY <1>1 DEF CountInTime
<1>2. engine[e].ref \in Ref => \A d \in Engine : engine[d].ref = engine[e].ref => d = e
  BY AbsentAssumption DEF SafetyInv, RefsOwned
<1>3. CASE engine'[e] = engine[e]
  <2>1. Leased(e)' => Leased(e)
    BY <1>3, LeaseMoves DEF Leased, Deciding
  <2>2. Cardinality(dispatched) < maxOrders
    BY <1>3, <2>1 DEF CapInv, CountInTime
  <2>3. ASSUME NEW d \in Engine, MarkTicket(d) PROVE FALSE
    <3>1. engine[d].pc = "cleared" /\ engine'[d].pc = "marked"
      BY <1>1, <2>3 DEF MarkTicket, Goto, EngineRecord
    <3>2. engine[d].ref \in Ref /\ intents[engine[d].ref].state = "reserved"
      BY <1>1, <3>1 DEF SafetyInv, EnginesFit, Fits, Selected, EngineRecord
    <3>3. engine[d].ref \in Unresolved(Acct)
      BY <3>2 DEF SafetyInv, LedgerRows, Unresolved, PendingStates
    <3>4. CASE engine[e].pc = "ticket"
      BY <1>3, <2>1, <3>1, <3>3, <3>4 DEF CapInv, AccountClear
    <3>5. CASE engine[e].pc \in {"reserved", "cleared"}
      <4>1. engine[e].ref \in Ref /\ intents[engine[e].ref].state = "reserved"
        BY <1>1, <3>5 DEF SafetyInv, EnginesFit, Fits, Selected, EngineRecord
      <4>2. engine[e].ref \in Unresolved(Acct)
        BY <4>1 DEF SafetyInv, LedgerRows, Unresolved, PendingStates
      <4>3. d = e
        BY <1>2, <3>3, <4>1, <4>2 DEF SafetyInv, LedgerRows
      <4> QED
        BY <1>3, <3>1, <4>3
    <3> QED
      BY <1>3, <3>4, <3>5
  <2> QED
    BY <2>2, <2>3, DispatchMoves
<1>4. CASE Assess(e)
  <2>1. engine'[e].pc = "ticket" /\ engine'[e].ticket = engine[e].ticket /\ dispatched' = dispatched
    BY <1>1, <1>4 DEF Assess, Goto, Raise, Empty, EngineRecord, tables
  <2> QED
    BY <1>1, <1>4, <2>1 DEF Assess, WithinDailyCount
<1>5. CASE ReserveTicket(e)
  <2>1. /\ engine'[e].pc = "reserved" /\ engine'[e].ticket = engine[e].ticket /\ dispatched' = dispatched
        /\ engine[e].pc = "ticket"
    BY <1>1, <1>5 DEF ReserveTicket, Reserve, Goto, Raise, Empty, EngineRecord, tables
  <2>2. Leased(e)
    BY <2>1, LeaseMoves DEF Leased, Deciding
  <2> QED
    BY <2>1, <2>2 DEF CapInv, CountInTime
<1>6. CASE CheckReserved(e)
  <2>1. /\ engine'[e].ticket = engine[e].ticket /\ dispatched' = dispatched
        /\ engine[e].pc = "reserved" /\ Leased(e)
    BY <1>1, <1>6 DEF CheckReserved, Check, Leased, Goto, EngineRecord, tables
  <2> QED
    BY <2>1 DEF CapInv, CountInTime
<1>7. CASE Verify(e) \/ SelectTicket(e)
  <2>1. Verify(e) => engine'[e].pc \in {"quotes", "failed"}
    BY <1>1 DEF Verify, Raise, Empty, EngineRecord
  <2>2. SelectTicket(e) => engine'[e].pc = "eligibility"
    BY <1>1 DEF SelectTicket, EngineRecord
  <2> QED
    BY <1>7, <2>1, <2>2
<1>8. CASE MarkTicket(e) \/ CheckMarked(e)
  BY <1>1, <1>8 DEF MarkTicket, MarkSubmitting, CheckMarked, Goto, EngineRecord
<1> QED
  BY <1>3, <1>4, <1>5, <1>6, <1>7, <1>8, EngineMoves DEF Deciding

LEMMA CapStep ==
    ASSUME SafetyInv, CapInv, [Next]_vars
    PROVE  DailyOrderCap'
<1> DEFINE buys == {r \in dispatched : intents[r].payload.side = "buy"}
<1>1. /\ dispatched \subseteq Ref /\ \A r \in dispatched : intents[r].state # "absent"
      /\ IsFiniteSet(dispatched) /\ maxOrders' = maxOrders /\ maxOrders \in Nat
      /\ Cardinality(buys) <= maxOrders /\ engine \in [Engine -> EngineRecord]
      /\ intents \in [Ref -> Intent]
  <2>1. /\ dispatched \subseteq Ref /\ \A r \in dispatched : intents[r].state # "absent"
        /\ IsFiniteSet(dispatched)
    BY DEF SafetyInv, LedgerRows, AttemptedStates
  <2>2. engine \in [Engine -> EngineRecord] /\ intents \in [Ref -> Intent]
    BY DEF SafetyInv, TypeOK, LedgerTypeOK
  <2>3. maxOrders \in Nat /\ Cardinality(buys) <= maxOrders
    BY DEF CapInv, DailyOrderCap, SafetyInv, TypeOK
  <2> QED
    BY <2>1, <2>2, <2>3, CapFixed
<1>2. \A r \in dispatched : intents'[r].payload = intents[r].payload
  BY <1>1, DispatchMoves
<1>3. CASE dispatched' = dispatched
  <2>1. buys' = buys
    BY <1>2, <1>3
  <2> QED
    BY <1>1, <2>1 DEF DailyOrderCap
<1>4. CASE \E e \in Engine : MarkTicket(e)
  <2>1. PICK e \in Engine : MarkTicket(e)
    BY <1>4
  <2>. PICK r : r = engine[e].ref
    OBVIOUS
  <2>2. /\ engine[e].pc = "cleared" /\ r \in Ref /\ engine[e].ticket = intents[r].payload
        /\ intents[r].state = "reserved"
    BY <1>1, <2>1 DEF MarkTicket, SafetyInv, EnginesFit, Fits, Selected, EngineRecord
  <2>3. dispatched' = dispatched \cup {r} /\ intents'[r].payload = intents[r].payload
    BY <1>1, <2>1, <2>2, DispatchMoves DEF MarkTicket, MarkSubmitting
  <2>4. CASE intents[r].payload.side = "buy"
    <3>1. engine[e].ticket # None
      BY <2>2, AbsentAssumption DEF SafetyInv, LedgerRows
    <3>2. Cardinality(dispatched) < maxOrders
      BY <2>2, <2>4, <3>1 DEF CapInv, CountInTime
    <3>3. Cardinality(dispatched \cup {r}) <= Cardinality(dispatched) + 1 /\ IsFiniteSet(dispatched \cup {r})
      <4>1. Cardinality(dispatched) \in Nat
        BY <1>1, FS_CardinalityType
      <4>2. /\ IsFiniteSet(dispatched \cup {r})
            /\ \/ Cardinality(dispatched \cup {r}) = Cardinality(dispatched)
               \/ Cardinality(dispatched \cup {r}) = Cardinality(dispatched) + 1
        BY <1>1, FS_AddElement
      <4> QED
        BY <4>1, <4>2
    <3>4. Cardinality(buys') <= Cardinality(dispatched \cup {r}) /\ IsFiniteSet(buys')
      <4>1. buys' \subseteq dispatched \cup {r}
        BY <2>3
      <4> QED
        BY <3>3, <4>1, FS_Subset
    <3>5. Cardinality(buys') \in Nat /\ Cardinality(dispatched \cup {r}) \in Nat /\ Cardinality(dispatched) \in Nat
      BY <1>1, <3>3, <3>4, FS_CardinalityType
    <3> QED
      BY <1>1, <3>2, <3>3, <3>4, <3>5 DEF DailyOrderCap
  <2>5. CASE intents[r].payload.side # "buy"
    <3>1. buys' = buys
      BY <1>2, <2>3, <2>5
    <3> QED
      BY <1>1, <3>1 DEF DailyOrderCap
  <2> QED
    BY <2>4, <2>5
<1> QED
  BY <1>3, <1>4, DispatchMoves

(* The invariant of the daily count. *)
LEMMA CapKept == Spec => []CapInv
<1>1. Init => CapInv
  <2> SUFFICES ASSUME Init PROVE CapInv
    OBVIOUS
  <2>1. maxOrders \in Nat
    BY MaxOrdersAssumption DEF Init
  <2>2. AccountClear /\ CountInTime
    BY DEF Init, AccountClear, CountInTime, Off, Empty
  <2>3. DailyOrderCap
    <3>1. {r \in dispatched : intents[r].payload.side = "buy"} = {}
      BY DEF Init, LedgerInit
    <3> QED
      BY <2>1, <3>1, FS_EmptySet DEF DailyOrderCap
  <2> QED
    BY <2>1, <2>2, <2>3 DEF CapInv
<1>2. SafetyInv /\ CapInv /\ [Next]_vars => CapInv'
  <2> SUFFICES ASSUME SafetyInv, CapInv, [Next]_vars PROVE CapInv'
    OBVIOUS
  <2> QED
    BY ClearStep, CountStep, CapStep DEF CapInv
<1> QED
  BY <1>1, <1>2, EngineSafe, PTL DEF Spec

(* No interleaving of engines dispatches more buys than the scope's daily
   count, although the count is compared long before the dispatch. *)
THEOREM BuysStayWithinTheCap == Spec => []DailyOrderCap
<1>1. CapInv => DailyOrderCap
  BY DEF CapInv
<1> QED
  BY <1>1, CapKept, PTL

-----------------------------------------------------------------------------
(* The fills are the provider's executions *)

(* The fill of the k-th unit that an order executed. *)
FillAt(r, k) == [account |-> Acct, exec |-> <<r, k>>, ref |-> r, qty |-> 1]

Executions(r) == {FillAt(r, k) : k \in 1..broker[r].executed}

(* The fills of an order are some of its executions, and all of them once the
   ticket is terminal. *)
FillsTrue ==
    \A r \in Ref :
        /\ FillsOf(r) \subseteq Executions(r)
        /\ intents[r].state = "terminal" => FillsOf(r) = Executions(r)

(* One fill for each execution. *)
LEMMA ExecutionsCount ==
    ASSUME NEW r \in Ref, broker[r].executed \in Nat
    PROVE  IsFiniteSet(Executions(r)) /\ Cardinality(Executions(r)) = broker[r].executed
<1> DEFINE n == broker[r].executed
<1> DEFINE fill == [k \in 1..n |-> FillAt(r, k)]
<1>1. IsFiniteSet(1..n) /\ Cardinality(1..n) = n
  <2>1. n \in Int /\ 1 \in Int
    OBVIOUS
  <2> HIDE DEF n
  <2>2. IsFiniteSet(1..n) /\ Cardinality(1..n) = IF 1 > n THEN 0 ELSE n - 1 + 1
    BY <2>1, FS_Interval
  <2>3. n \in Nat
    BY DEF n
  <2> QED
    BY <2>2, <2>3
<1>2. \A j, k \in 1..n : fill[j] = fill[k] => j = k
  BY DEF FillAt
<1>3. fill \in [1..n -> Executions(r)] /\ \A f \in Executions(r) : \E k \in 1..n : fill[k] = f
  BY DEF Executions
<1> HIDE DEF fill, n
<1>4. fill \in Surjection(1..n, Executions(r)) /\ fill \in Injection(1..n, Executions(r))
  BY <1>2, <1>3 DEF Surjection, Injection, IsInjective
<1> QED
  BY <1>1, <1>4, FS_Surjection DEF n

(* The fills that an observation writes. *)
LEMMA ObservedRows ==
    ASSUME NEW r \in Ref, NEW row
    PROVE  RowsOf(Acct, r, RowOf(r, row)) = {FillAt(r, k) : k \in 1..row.executed}
<1> DEFINE executions == {[exec |-> <<r, k>>, qty |-> 1] : k \in 1..row.executed}
<1>1. RowOf(r, row).executions = executions
  BY DEF RowOf
<1>2. RowsOf(Acct, r, RowOf(r, row)) =
         {[account |-> Acct, exec |-> x.exec, ref |-> r, qty |-> x.qty] : x \in executions}
  BY <1>1 DEF RowsOf
<1>3. {[account |-> Acct, exec |-> x.exec, ref |-> r, qty |-> x.qty] : x \in executions}
         = {FillAt(r, k) : k \in 1..row.executed}
  <2> DEFINE fillOf(x) == [account |-> Acct, exec |-> x.exec, ref |-> r, qty |-> x.qty]
  <2> DEFINE execution(k) == [exec |-> <<r, k>>, qty |-> 1]
  <2>1. \A k : fillOf(execution(k)) = FillAt(r, k)
    BY DEF FillAt
  <2>2. executions = {execution(k) : k \in 1..row.executed}
    OBVIOUS
  <2> HIDE DEF fillOf, execution, executions
  <2>3. {fillOf(x) : x \in executions} = {FillAt(r, k) : k \in 1..row.executed}
    BY <2>1, <2>2
  <2> QED
    BY <2>3 DEF fillOf
<1> QED
  BY <1>2, <1>3

LEMMA FillsStep == SafetyInv /\ FillsTrue /\ [Next]_vars => FillsTrue'
<1> SUFFICES ASSUME SafetyInv, FillsTrue, [Next]_vars PROVE FillsTrue'
  OBVIOUS
<1>1. /\ intents \in [Ref -> Intent] /\ broker \in [Ref -> OrderRow] /\ fills \subseteq FillRow
      /\ \A r \in Ref : broker[r].executed \in Nat
  BY LotAssumption DEF SafetyInv, TypeOK, LedgerTypeOK, OrderRow
<1>2. ASSUME fills' = fills, \A r \in Ref : intents'[r].state = "terminal" => intents[r].state = "terminal",
             \A r \in Ref : broker'[r].executed = broker[r].executed
      PROVE  FillsTrue'
  BY <1>2 DEF FillsTrue, FillsOf, Executions
<1>3. CASE \E e \in Engine : ReserveTicket(e) /\ Reserve(Acct, engine[e].ref, engine[e].ticket)
  <2>1. PICK q, t : Reserve(Acct, q, t) /\ broker' = broker
    BY <1>3 DEF ReserveTicket, outside
  <2> QED
    BY <1>1, <1>2, <2>1 DEF Reserve
<1>4. CASE \E e \in Engine : \/ MarkTicket(e)
                             \/ SettleTicket(e) /\ (MarkUnknown(engine[e].ref) \/ AbandonReserved(engine[e].ref))
  <2>1. PICK q : MarkSubmitting(q, TRUE) \/ MarkUnknown(q) \/ AbandonReserved(q)
    BY <1>4 DEF MarkTicket
  <2>2. broker' = broker
    BY <1>4 DEF MarkTicket, SettleTicket, outside
  <2> QED
    BY <1>1, <1>2, <2>1, <2>2 DEF MarkSubmitting, MarkUnknown, AbandonReserved, Intent
<1>5. CASE \E e \in Engine, q \in Ref : /\ engine[e].rows[q].state # "absent"
                                        /\ Observe(Acct, q, RowOf(q, engine[e].rows[q]))
                                        /\ UNCHANGED <<wire, broker>>
  <2>1. PICK e \in Engine, q \in Ref : Observe(Acct, q, RowOf(q, engine[e].rows[q])) /\ broker' = broker
    BY <1>5
  <2>2. PICK row : row = engine[e].rows[q]
    OBVIOUS
  <2>3. Agrees(row, broker[q]) /\ row \in OrderRow
    BY <2>2 DEF SafetyInv, EnginesFit, Fits, TypeOK, EngineRecord
  <2>4. PICK new : new = {FillAt(q, k) : k \in 1..row.executed}
    OBVIOUS
  <2>5. fills' = fills \cup new
    BY <2>1, <2>2, <2>4, ObservedRows DEF Observe
  <2>6. new \subseteq Executions(q) /\ (row.state = "done" => new = Executions(q))
    BY <1>1, <2>3, <2>4, LotAssumption DEF Agrees, Executions, OrderRow
  <2>7. \A f \in new : f.ref = q
    BY <2>4 DEF FillAt
  <2>8. /\ FillsOf(q)' = FillsOf(q) \cup new
        /\ \A r \in Ref : r # q => FillsOf(r)' = FillsOf(r)
    BY <2>5, <2>7 DEF FillsOf
  <2>9. \A r \in Ref : Executions(r)' = Executions(r)
    BY <2>1 DEF Executions
  <2>10. /\ intents'[q].state = "terminal" => row.state = "done"
         /\ \A r \in Ref : r # q => intents'[r] = intents[r]
    <3>1. RowOf(q, row).terminal <=> row.state = "done"
      BY DEF RowOf
    <3>2. PICK o, s : /\ intents' = [intents EXCEPT ![q].order = o, ![q].state = s]
                      /\ s = IF RowOf(q, row).terminal THEN "terminal" ELSE "open"
      BY <2>1, <2>2 DEF Observe
    <3> QED
      BY <1>1, <3>1, <3>2 DEF Intent
  <2>11. FillsOf(q) \subseteq Executions(q)
    BY DEF FillsTrue
  <2> QED
    BY <2>6, <2>8, <2>9, <2>10, <2>11 DEF FillsTrue
<1>6. CASE \E e \in Engine : Place(e) \/ Interrupt(e) \/ Crash(e)
  BY <1>2, <1>6 DEF Place, Interrupt, Crash, tables
<1>7. CASE \E r \in Ref : Provider(r)
  <2>1. PICK q \in Ref : Provider(q)
    BY <1>7
  <2>2. UNCHANGED <<intents, fills>>
    BY <2>1 DEF Provider, Send, Arrive, Execute, Finish, tables
  <2>3. CASE Send(q) \/ Arrive(q) \/ Finish(q)
    <3>1. \A r \in Ref : broker'[r].executed = broker[r].executed
      BY <1>1, <2>3 DEF Send, Arrive, Finish, OrderRow
    <3> QED
      BY <1>2, <2>2, <3>1
  <2>4. CASE Execute(q)
    <3>1. /\ intents[q].state # "terminal"
          /\ broker'[q].executed = broker[q].executed + 1
          /\ \A r \in Ref : r # q => broker'[r].executed = broker[r].executed
      BY <1>1, <2>4 DEF Execute, SafetyInv, WireAgrees, OrderRow
    <3>2. \A r \in Ref : r # q => Executions(r)' = Executions(r)
      BY <3>1 DEF Executions
    <3>3. Executions(q) \subseteq Executions(q)'
      BY <1>1, <3>1 DEF Executions
    <3>4. \A r \in Ref : FillsOf(r)' = FillsOf(r)
      BY <2>2 DEF FillsOf
    <3> QED
      BY <2>2, <3>1, <3>2, <3>3, <3>4 DEF FillsTrue
  <2> QED
    BY <2>1, <2>3, <2>4 DEF Provider
<1>8. CASE UNCHANGED <<intents, dispatched, fills, wire, broker>>
  BY <1>2, <1>8
<1> QED
  BY <1>3, <1>4, <1>5, <1>6, <1>7, <1>8, StepKinds

(* The invariant of the fills. *)
LEMMA FillsKept == Spec => []FillsTrue
<1>1. Init => FillsTrue
  BY DEF Init, LedgerInit, FillsTrue, FillsOf, Executions, NoRows, Fresh, Absent
<1> QED
  BY <1>1, FillsStep, EngineSafe, PTL DEF Spec

(* The ledger never says less than what happened, for executions that arrive
   in any number of rows, late, repeated or never: a terminal ticket holds
   every execution of its finished order, and no fill is invented. *)
THEOREM EngineTellsTruth == Spec => []LedgerTellsTruth
<1>1. SafetyInv /\ FillsTrue => LedgerTellsTruth
  <2> SUFFICES ASSUME SafetyInv, FillsTrue, NEW r \in Ref
               PROVE  /\ wire[r] # "idle" => intents[r].state \in AttemptedStates
                      /\ intents[r].state = "terminal" =>
                            broker[r].state = "done" /\ Cardinality(FillsOf(r)) = broker[r].executed
                      /\ Cardinality(FillsOf(r)) <= broker[r].executed
    BY DEF LedgerTellsTruth
  <2>1. broker[r].executed \in Nat
    BY LotAssumption DEF SafetyInv, TypeOK, OrderRow
  <2>2. IsFiniteSet(Executions(r)) /\ Cardinality(Executions(r)) = broker[r].executed
    BY <2>1, ExecutionsCount
  <2>3. Cardinality(FillsOf(r)) <= Cardinality(Executions(r))
    BY <2>2, FS_Subset DEF FillsTrue
  <2>4. intents[r].state = "terminal" => FillsOf(r) = Executions(r)
    BY DEF FillsTrue
  <2> QED
    BY <2>2, <2>3, <2>4 DEF SafetyInv, WireAgrees
<1> QED
  BY <1>1, EngineSafe, FillsKept, PTL

-----------------------------------------------------------------------------
(* Sums of fills and of orders *)

(* A sum over two disjoint parts. *)
LEMMA SumJoin ==
    ASSUME NEW f, NEW A, NEW B, IsFiniteSet(A), IsFiniteSet(B), A \cap B = {},
           \A x \in A \cup B : f[x] \in Int
    PROVE  SumFunctionOnSet(f, A \cup B) = SumFunctionOnSet(f, A) + SumFunctionOnSet(f, B)
<1> DEFINE Bad == {s \in SUBSET B : SumFunctionOnSet(f, A \cup s)
                                       # SumFunctionOnSet(f, A) + SumFunctionOnSet(f, s)}
<1>1. SUFFICES ASSUME Bad # {} PROVE FALSE
  OBVIOUS
<1>2. PICK T \in Bad : \A U \in Bad : Cardinality(U) >= Cardinality(T)
  <2>1. \A U \in Bad : IsFiniteSet(U)
    BY FS_Subset
  <2> QED
    BY <1>1, <2>1, SmallestSet
<1>3. IsFiniteSet(T) /\ T \subseteq B /\ IsFiniteSet(A \cup T)
  BY FS_Subset, FS_Union
<1>4. SumFunctionOnSet(f, A) \in Int
  BY SumType
<1>5. CASE T = {}
  <2>1. SumFunctionOnSet(f, T) = 0
    BY <1>3, <1>5, SumUnfold
  <2>2. A \cup T = A
    BY <1>5
  <2> HIDE DEF Bad
  <2>3. SumFunctionOnSet(f, A \cup T) = SumFunctionOnSet(f, A)
    BY <2>2
  <2>4. SumFunctionOnSet(f, A \cup T) = SumFunctionOnSet(f, A) + SumFunctionOnSet(f, T)
    BY <1>4, <2>1, <2>3
  <2> QED
    BY <2>4 DEF Bad
<1>6. CASE T # {}
  <2>1. PICK p \in T : TRUE
    BY <1>6
  <2> DEFINE U == T \ {p}
  <2>2. U \notin Bad /\ U \subseteq B
    BY <1>2, <1>3, TakenOut
  <2>3. SumFunctionOnSet(f, A \cup U) = SumFunctionOnSet(f, A) + SumFunctionOnSet(f, U)
    BY <2>2
  <2>4. SumFunctionOnSet(f, T) = f[p] + SumFunctionOnSet(f, U)
    BY <1>3, SumTakeOut
  <2>5. SumFunctionOnSet(f, A \cup T) = f[p] + SumFunctionOnSet(f, A \cup U)
    <3>1. (A \cup T) \ {p} = A \cup U
      BY <1>3
    <3>2. p \in A \cup T /\ \A x \in A \cup T : f[x] \in Int
      BY <1>3
    <3> HIDE DEF U
    <3>3. SumFunctionOnSet(f, A \cup T) = f[p] + SumFunctionOnSet(f, (A \cup T) \ {p})
      BY <1>3, <3>2, SumTakeOut
    <3> QED
      BY <3>1, <3>3
  <2>6. SumFunctionOnSet(f, U) \in Int /\ f[p] \in Int
    <3>1. IsFiniteSet(U) /\ \A x \in U : f[x] \in Int
      BY <1>3, FS_Subset
    <3> HIDE DEF U
    <3> QED
      BY <1>3, <3>1, SumType
  <2> HIDE DEF U
  <2>7. SumFunctionOnSet(f, A \cup T) = SumFunctionOnSet(f, A) + SumFunctionOnSet(f, T)
    BY <1>4, <2>3, <2>4, <2>5, <2>6
  <2> QED
    BY <2>7
<1> QED
  BY <1>5, <1>6

(* A sum of units that all go the way of one ticket. *)
LEMMA SumSigned ==
    ASSUME NEW f, NEW S, IsFiniteSet(S), NEW t, \A x \in S : f[x] = Signed(t, 1)
    PROVE  SumFunctionOnSet(f, S) = Signed(t, Cardinality(S))
<1> DEFINE Bad == {s \in SUBSET S : SumFunctionOnSet(f, s) # Signed(t, Cardinality(s))}
<1>1. SUFFICES ASSUME Bad # {} PROVE FALSE
  OBVIOUS
<1>2. PICK T \in Bad : \A U \in Bad : Cardinality(U) >= Cardinality(T)
  <2>1. \A U \in Bad : IsFiniteSet(U)
    BY FS_Subset
  <2> QED
    BY <1>1, <2>1, SmallestSet
<1>3. IsFiniteSet(T) /\ T \subseteq S
  BY FS_Subset
<1>4. CASE T = {}
  <2>1. SumFunctionOnSet(f, T) = 0 /\ Cardinality(T) = 0
    BY <1>3, <1>4, SumUnfold, FS_EmptySet
  <2>2. Signed(t, 0) = 0
    <3>1. -0 = 0
      <4>1. PICK z : z = 0
        OBVIOUS
      <4>2. z \in Int /\ \A n \in Int : -n = 0 - n
        BY <4>1
      <4>3. -z = 0 - z
        BY <4>2
      <4>4. 0 - z = 0
        BY <4>1
      <4> QED
        BY <4>1, <4>3, <4>4, Zenon
    <3> QED
      BY <3>1, Zenon DEF Signed
  <2> QED
    BY <2>1, <2>2
<1>5. CASE T # {}
  <2>1. PICK p \in T : TRUE
    BY <1>5
  <2> DEFINE U == T \ {p}
  <2>2. U \notin Bad /\ U \subseteq S
    BY <1>2, <1>3, TakenOut
  <2>3. SumFunctionOnSet(f, U) = Signed(t, Cardinality(U))
    BY <2>2
  <2>4. Cardinality(T) \in Nat /\ Cardinality(U) = Cardinality(T) - 1
    BY <1>3, FS_RemoveElement, FS_CardinalityType
  <2>5. SumFunctionOnSet(f, T) = f[p] + SumFunctionOnSet(f, U)
    <3>1. \A x \in T : f[x] \in Int
      BY <1>3 DEF Signed
    <3> QED
      BY <1>3, <3>1, SumTakeOut
  <2>6. f[p] = Signed(t, 1)
    BY <1>3
  <2> HIDE DEF U
  <2>7. SumFunctionOnSet(f, T) = Signed(t, Cardinality(T))
    BY <2>3, <2>4, <2>5, <2>6 DEF Signed
  <2> QED
    BY <2>7
<1> QED
  BY <1>4, <1>5

(* With no ticket pending, the inventory that the ledger derives from its
   fills is the position at the provider. *)
LEMMA InventoryIsPosition ==
    ASSUME SafetyInv, FillsTrue, Unresolved(Acct) = {}
    PROVE  Inventory = Position
<1> DEFINE held == {r \in Ref : broker[r].executed > 0}
<1> DEFINE amount == [r \in held |-> Signed(intents[r].payload, broker[r].executed)]
<1> DEFINE value == [f \in fills |-> Signed(intents[f.ref].payload, f.qty)]
<1> DEFINE of(T) == {f \in fills : f.ref \in T}
<1>1. /\ IsFiniteSet(held) /\ \A r \in held : amount[r] \in Int
      /\ \A r \in Ref : broker[r].executed \in Nat
      /\ IsFiniteSet(fills) /\ fills \subseteq FillRow
  BY Held, LotAssumption DEF SafetyInv, TypeOK, OrderRow, LedgerRows, LedgerTypeOK
<1>2. \A f \in fills : f.qty = 1 /\ value[f] = Signed(intents[f.ref].payload, 1) /\ value[f] \in Int
  BY <1>1 DEF FillRow, Signed
<1>3. ASSUME NEW r \in held PROVE FillsOf(r) = Executions(r)
  <2>1. broker[r].state # "absent"
    BY <1>1 DEF SafetyInv, WireAgrees
  <2>2. intents[r].state \in AttemptedStates
    BY <2>1 DEF SafetyInv, WireAgrees
  <2>3. intents[r].state = "terminal"
    BY <2>2 DEF SafetyInv, LedgerRows, Unresolved, AttemptedStates, PendingStates
  <2> QED
    BY <2>3 DEF FillsTrue
<1>4. of(held) = fills
  <2> SUFFICES ASSUME NEW f \in fills PROVE f.ref \in held
    OBVIOUS
  <2>1. f.ref \in Ref /\ f \in FillsOf(f.ref)
    BY <1>1 DEF FillRow, FillsOf
  <2>2. f \in Executions(f.ref)
    BY <2>1 DEF FillsTrue
  <2>3. PICK k \in 1..broker[f.ref].executed : TRUE
    BY <2>2 DEF Executions
  <2> QED
    BY <1>1, <2>1, <2>3
<1>5. Position = SumFunctionOnSet(amount, held) /\ Inventory = SumFunctionOnSet(value, fills)
  BY DEF Position, Inventory, SumFunction
<1> DEFINE Bad == {T \in SUBSET held : SumFunctionOnSet(value, of(T)) # SumFunctionOnSet(amount, T)}
<1>6. SUFFICES ASSUME Bad # {} PROVE FALSE
  BY <1>4, <1>5
<1>7. PICK T \in Bad : \A U \in Bad : Cardinality(U) >= Cardinality(T)
  <2>1. \A U \in Bad : IsFiniteSet(U)
    BY <1>1, FS_Subset
  <2> HIDE DEF Bad
  <2> QED
    BY <1>6, <2>1, SmallestSet
<1>8. IsFiniteSet(T) /\ T \subseteq held
  BY <1>1, FS_Subset
<1>9. CASE T = {}
  <2>1. of(T) = {}
    BY <1>9
  <2>2. SumFunctionOnSet(value, of(T)) = 0 /\ SumFunctionOnSet(amount, T) = 0
    BY <1>9, <2>1, SumUnfold, FS_EmptySet
  <2> QED
    BY <2>2
<1>10. CASE T # {}
  <2>1. PICK p \in T : TRUE
    BY <1>10
  <2> DEFINE U == T \ {p}
  <2>2. U \notin Bad /\ U \subseteq held
    <3>1. U \notin Bad
      <4> HIDE DEF Bad
      <4> QED
        BY <1>7, <1>8, TakenOut
    <3> QED
      BY <1>8, <3>1
  <2>3. SumFunctionOnSet(value, of(U)) = SumFunctionOnSet(amount, U)
    BY <2>2
  <2>4. of(T) = of(U) \cup FillsOf(p) /\ of(U) \cap FillsOf(p) = {}
    BY DEF FillsOf
  <2>5. IsFiniteSet(of(U)) /\ IsFiniteSet(FillsOf(p)) /\ of(U) \subseteq fills /\ FillsOf(p) \subseteq fills
    BY <1>1, FS_Subset DEF FillsOf
  <2>6. p \in held /\ Cardinality(FillsOf(p)) = broker[p].executed
    BY <1>1, <1>3, <1>8, ExecutionsCount
  <2>7. SumFunctionOnSet(value, FillsOf(p)) = amount[p]
    <3>1. \A f \in FillsOf(p) : value[f] = Signed(intents[p].payload, 1)
      BY <1>2, <2>5 DEF FillsOf
    <3>2. amount[p] = Signed(intents[p].payload, broker[p].executed)
      BY <2>6
    <3> HIDE DEF value, amount
    <3>3. SumFunctionOnSet(value, FillsOf(p)) = Signed(intents[p].payload, Cardinality(FillsOf(p)))
      BY <2>5, <3>1, SumSigned
    <3> QED
      BY <2>6, <3>2, <3>3
  <2> HIDE DEF value, of
  <2>8. SumFunctionOnSet(value, of(T)) = SumFunctionOnSet(value, of(U)) + SumFunctionOnSet(value, FillsOf(p))
    <3>1. \A x \in of(U) \cup FillsOf(p) : value[x] \in Int
      BY <1>2, <2>5
    <3> HIDE DEF U
    <3>2. SumFunctionOnSet(value, of(U) \cup FillsOf(p))
             = SumFunctionOnSet(value, of(U)) + SumFunctionOnSet(value, FillsOf(p))
      BY <2>4, <2>5, <3>1, SumJoin
    <3> QED
      BY <2>4, <3>2
  <2>9. SumFunctionOnSet(amount, T) = amount[p] + SumFunctionOnSet(amount, U)
    <3>1. \A x \in T : amount[x] \in Int
      BY <1>1, <1>8
    <3> HIDE DEF amount
    <3> QED
      BY <1>8, <3>1, SumTakeOut
  <2>10. SumFunctionOnSet(amount, U) \in Int /\ amount[p] \in Int
    <3>1. IsFiniteSet(U) /\ \A x \in U : amount[x] \in Int
      BY <1>1, <1>8, FS_Subset
    <3>2. amount[p] \in Int
      BY <1>1, <1>8
    <3> HIDE DEF amount, U
    <3> QED
      BY <3>1, <3>2, SumType
  <2> HIDE DEF U, amount
  <2>11. SumFunctionOnSet(value, of(T)) = SumFunctionOnSet(amount, T)
    BY <2>3, <2>7, <2>8, <2>9, <2>10
  <2> QED
    BY <2>11
<1> QED
  BY <1>9, <1>10

-----------------------------------------------------------------------------
(* No sell on a position that moved *)

(* Where an engine stands, the position that its decision rests on is still
   the position at the provider, or covers the sell that it chose. *)
PositionInTime ==
    \A e \in Engine :
        /\ engine[e].pc = "quotes" /\ Leased(e) => engine[e].position = Position
        /\ engine[e].pc \in {"eligibility", "ticket", "reserved"} /\ Leased(e)
              /\ engine[e].ticket.side = "sell"
              => engine[e].ticket.qty <= Position
        /\ engine[e].pc \in {"cleared", "marked", "placing"}
              /\ intents[engine[e].ref].payload.side = "sell"
              => intents[engine[e].ref].payload.qty <= Position

(* Nothing is held short, and what is held covers the open sell. *)
ExposedCovered ==
    /\ Position >= 0
    /\ \A r \in Exposed :
          intents[r].payload.side = "sell" =>
              intents[r].payload.qty - broker[r].executed <= Position

CoverInv == PositionInTime /\ ExposedCovered

(* Only an execution moves the position. *)
LEMMA PositionMoves ==
    ASSUME SafetyInv, [Next]_vars
    PROVE  \/ Position' = Position /\ \A r \in Ref : broker'[r].executed = broker[r].executed
           \/ \E r \in Ref : Execute(r) /\ Position' = Position + Signed(intents[r].payload, 1)
<1> DEFINE held == {r \in Ref : broker[r].executed > 0}
<1> DEFINE amount == [r \in held |-> Signed(intents[r].payload, broker[r].executed)]
<1> DEFINE held2 == {r \in Ref : broker'[r].executed > 0}
<1> DEFINE amount2 == [r \in held2 |-> Signed(intents'[r].payload, broker'[r].executed)]
<1>1. /\ broker \in [Ref -> OrderRow] /\ intents \in [Ref -> Intent]
      /\ \A r \in Ref : broker[r].executed \in Nat
  BY LotAssumption DEF SafetyInv, TypeOK, LedgerTypeOK, OrderRow
<1>2. /\ Position = SumFunctionOnSet(amount, held)
      /\ Position' = SumFunctionOnSet(amount2, held2)
  BY DEF Position, SumFunction
<1>3. \A r \in held : intents'[r].payload = intents[r].payload
  <2>1. \A r \in held : intents[r].state # "absent"
    BY <1>1 DEF SafetyInv, WireAgrees, AttemptedStates
  <2> QED
    BY <2>1, DispatchMoves
<1>4. CASE \A r \in Ref : broker'[r].executed = broker[r].executed
  <2>1. held2 = held
    BY <1>4
  <2>2. amount2 = amount
    BY <1>3, <1>4, <2>1
  <2> QED
    BY <1>2, <1>4, <2>1, <2>2
<1>5. CASE \E r \in Ref : Execute(r)
  <2>1. PICK r \in Ref : Execute(r)
    BY <1>5
  <2>2. /\ intents' = intents
        /\ broker'[r].executed = broker[r].executed + 1
        /\ \A q \in Ref : q # r => broker'[q].executed = broker[q].executed
    BY <1>1, <2>1 DEF Execute, OrderRow, tables
  <2>3. r \in held2 /\ held2 = held \cup {r} /\ held2 \ {r} = held \ {r}
    BY <1>1, <2>2
  <2>4. \A q \in held \ {r} : amount2[q] = amount[q]
    BY <2>2, <2>3
  <2>5. IsFiniteSet(held) /\ IsFiniteSet(held2) /\ IsFiniteSet(held \ {r})
    BY <2>3, Held, FS_AddElement, FS_RemoveElement
  <2>6. intents[r].payload \in Ticket
    BY <2>1 DEF Execute, SafetyInv, WireAgrees, LedgerRows, AttemptedStates
  <2>7. /\ \A q \in held : amount[q] \in Int
        /\ \A q \in held2 : amount2[q] \in Int
    <3>1. \A q \in held : amount[q] \in Int
      BY Held
    <3>2. amount2[r] \in Int
      BY <1>1, <2>2, <2>3 DEF Signed
    <3> QED
      BY <2>3, <2>4, <3>1, <3>2
  <2>8. amount2[r] = Signed(intents[r].payload, broker[r].executed + 1)
    BY <2>2, <2>3
  <2> DEFINE rest == SumFunctionOnSet(amount, held \ {r})
  <2>9. Position' = amount2[r] + rest
    <3> HIDE DEF amount, amount2, held, held2
    <3>1. SumFunctionOnSet(amount2, held2) = amount2[r] + SumFunctionOnSet(amount2, held2 \ {r})
      BY <2>3, <2>5, <2>7, SumTakeOut
    <3>2. SumFunctionOnSet(amount2, held \ {r}) = SumFunctionOnSet(amount, held \ {r})
      BY <2>4, <2>5, SumSame
    <3> QED
      BY <1>2, <2>3, <3>1, <3>2
  <2>10. rest \in Int
    <3>1. \A q \in held \ {r} : amount[q] \in Int
      BY <2>7
    <3> HIDE DEF amount, held
    <3> QED
      BY <2>5, <3>1, SumType
  <2>11. CASE r \in held
    <3>1. amount[r] = Signed(intents[r].payload, broker[r].executed)
      BY <2>11
    <3>2. Position = amount[r] + rest
      <4> HIDE DEF amount, held
      <4> QED
        BY <1>2, <2>5, <2>7, <2>11, SumTakeOut
    <3> HIDE DEF amount, amount2, rest, held, held2
    <3>3. broker[r].executed \in Nat
      BY <1>1
    <3>4. Position' = Position + Signed(intents[r].payload, 1)
      BY <2>8, <2>9, <2>10, <3>1, <3>2, <3>3 DEF Signed
    <3> QED
      BY <2>1, <3>4
  <2>12. CASE r \notin held
    <3>1. broker[r].executed = 0 /\ held \ {r} = held
      BY <1>1, <2>12
    <3>2. Position = rest
      BY <1>2, <3>1
    <3>3. amount2[r] = Signed(intents[r].payload, 1)
      BY <2>8, <3>1
    <3>4. Signed(intents[r].payload, 1) \in Int
      BY DEF Signed
    <3> HIDE DEF amount, amount2, rest, held, held2
    <3>5. Position' = Position + Signed(intents[r].payload, 1)
      BY <2>9, <2>10, <3>2, <3>3, <3>4
    <3> QED
      BY <2>1, <3>5
  <2> QED
    BY <2>11, <2>12
<1>6. CASE \E r \in Ref : Send(r) \/ Arrive(r) \/ Finish(r)
  BY <1>1, <1>4, <1>6 DEF Send, Arrive, Finish, OrderRow
<1>7. CASE UNCHANGED broker
  BY <1>4, <1>7
<1> QED
  BY <1>5, <1>6, <1>7, StepKinds
     DEF Place, Interrupt, Crash, Provider, ReserveTicket, MarkTicket, SettleTicket, outside

(* An order executes only while it is the pending ticket, and then no engine
   that holds the lease is between its snapshot and its own dispatch. *)
LEMMA NobodyDecides ==
    ASSUME SafetyInv, CapInv, NEW r \in Ref, Execute(r), NEW e \in Engine
    PROVE  /\ ~(engine[e].pc \in {"quotes", "eligibility", "ticket"} /\ Leased(e))
           /\ engine[e].pc \notin {"reserved", "cleared", "marked", "placing"}
<1>1. /\ engine[e] \in EngineRecord /\ Fits(engine[e])
      /\ \A q, p \in Unresolved(Acct) : q = p
  BY DEF SafetyInv, TypeOK, EnginesFit, LedgerRows
<1>2. wire[r] = "sent" /\ broker[r].state # "done"
  BY DEF Execute, SafetyInv, WireAgrees
<1>3. r \in Exposed
  BY <1>2 DEF Exposed
<1>4. r \in Unresolved(Acct) /\ intents[r].state # "reserved"
  BY <1>2, <1>3, ExposedIsPending DEF SafetyInv, WireAgrees, AttemptedStates
<1>5. ~(engine[e].pc \in {"quotes", "eligibility", "ticket"} /\ Leased(e))
  BY <1>4 DEF CapInv, AccountClear
<1>6. ASSUME engine[e].pc \in {"reserved", "cleared", "marked", "placing"} PROVE FALSE
  <2>1. engine[e].ref \in Ref /\ intents[engine[e].ref].state \in {"reserved", "submitting"}
    BY <1>1, <1>6 DEF Fits, Selected, EngineRecord
  <2>2. engine[e].ref \in Unresolved(Acct)
    BY <2>1 DEF SafetyInv, LedgerRows, Unresolved, PendingStates
  <2>3. engine[e].ref = r
    BY <1>1, <1>4, <2>2
  <2> QED
    BY <1>1, <1>2, <1>4, <1>6, <2>3 DEF Fits
<1> QED
  BY <1>5, <1>6

(* Every step keeps the positions in time. *)
LEMMA TimeStep ==
    ASSUME SafetyInv, FillsTrue, CapInv, CoverInv, [Next]_vars
    PROVE  PositionInTime'
<1>1. engine \in [Engine -> EngineRecord] /\ \A e \in Engine : engine[e] \in EngineRecord /\ Fits(engine[e])
  BY DEF SafetyInv, TypeOK, EnginesFit
<1>2. CASE \E r \in Ref : Execute(r)
  <2>1. PICK r \in Ref : Execute(r)
    BY <1>2
  <2>2. engine' = engine /\ lease' = lease
    BY <2>1 DEF Execute, tables
  <2> QED
    BY <2>1, <2>2, NobodyDecides DEF PositionInTime, Leased, LeaseActive
<1>3. CASE Position' = Position
  <2> SUFFICES ASSUME NEW e \in Engine
               PROVE  /\ engine'[e].pc = "quotes" /\ Leased(e)' => engine'[e].position = Position
                      /\ engine'[e].pc \in {"eligibility", "ticket", "reserved"} /\ Leased(e)'
                            /\ engine'[e].ticket.side = "sell"
                            => engine'[e].ticket.qty <= Position
                      /\ engine'[e].pc \in {"cleared", "marked", "placing"}
                            /\ intents'[engine'[e].ref].payload.side = "sell"
                            => intents'[engine'[e].ref].payload.qty <= Position
    BY <1>3 DEF PositionInTime
  <2>1. ASSUME engine'[e].pc \in Deciding, Leased(e)' PROVE Leased(e)
    BY <2>1, LeaseMoves DEF Leased
  <2>2. /\ engine[e].pc = "quotes" /\ Leased(e) => engine[e].position = Position
        /\ engine[e].pc \in {"eligibility", "ticket", "reserved"} /\ Leased(e)
              /\ engine[e].ticket.side = "sell"
              => engine[e].ticket.qty <= Position
        /\ engine[e].pc \in {"cleared", "marked", "placing"}
              /\ intents[engine[e].ref].payload.side = "sell"
              => intents[engine[e].ref].payload.qty <= Position
    BY DEF CoverInv, PositionInTime
  <2>3. ASSUME engine[e].pc \in {"reserved", "cleared", "marked", "placing"}
        PROVE  intents'[engine[e].ref].payload = intents[engine[e].ref].payload
    <3>1. engine[e].ref \in Ref /\ intents[engine[e].ref].state # "absent"
      BY <1>1, <2>3 DEF Fits, Selected, EngineRecord
    <3> QED
      BY <3>1, DispatchMoves
  <2>4. CASE engine'[e] = engine[e]
    BY <2>1, <2>2, <2>3, <2>4 DEF Deciding
  <2>5. CASE Verify(e)
    <3>1. CASE Settled(e)
      <4>1. engine'[e].pc = "quotes" /\ engine'[e].position = engine[e].position
        BY <1>1, <2>5, <3>1 DEF Verify, EngineRecord
      <4>2. engine[e].position = Position
        BY <3>1, InventoryIsPosition DEF Settled
      <4> QED
        BY <4>1, <4>2
    <3>2. CASE Raise(e)
      <4>1. engine'[e].pc = "failed"
        BY <1>1, <3>2 DEF Raise, Empty
      <4> QED
        BY <4>1
    <3> QED
      BY <2>5, <3>1, <3>2 DEF Verify
  <2>6. CASE SelectTicket(e)
    <3>1. PICK t \in Ticket : Covered(e, t) /\ engine'[e].pc = "eligibility" /\ engine'[e].ticket = t
      BY <1>1, <2>6 DEF SelectTicket, EngineRecord
    <3>2. engine[e].position = Position
      BY <2>2, <2>6 DEF SelectTicket, Check, Leased
    <3> QED
      BY <3>1, <3>2 DEF Covered
  <2>7. CASE Assess(e)
    <3>1. /\ engine'[e].pc \in {"ticket", "failed"} /\ engine[e].pc = "eligibility"
          /\ engine'[e].pc = "ticket" => engine'[e].ticket = engine[e].ticket
      BY <1>1, <2>7 DEF Assess, Goto, Raise, Empty, EngineRecord
    <3> QED
      BY <2>1, <2>2, <3>1 DEF Deciding
  <2>8. CASE ReserveTicket(e)
    <3>1. /\ engine'[e].pc \in {"reserved", "failed"} /\ engine[e].pc = "ticket"
          /\ engine'[e].pc = "reserved" => engine'[e].ticket = engine[e].ticket
      BY <1>1, <2>8 DEF ReserveTicket, Goto, Raise, Empty, EngineRecord
    <3> QED
      BY <2>1, <2>2, <3>1 DEF Deciding
  <2>9. CASE CheckReserved(e)
    <3>1. /\ engine'[e].pc = "cleared" /\ engine'[e].ref = engine[e].ref
          /\ engine[e].pc = "reserved" /\ Leased(e)
      BY <1>1, <2>9 DEF CheckReserved, Check, Leased, Goto, EngineRecord
    <3>2. intents[engine[e].ref].payload = engine[e].ticket
      BY <1>1, <3>1 DEF Fits
    <3> QED
      BY <2>2, <2>3, <3>1, <3>2
  <2>10. CASE MarkTicket(e) \/ CheckMarked(e)
    <3>1. /\ engine'[e].pc \in {"marked", "placing"} /\ engine'[e].ref = engine[e].ref
          /\ engine[e].pc \in {"cleared", "marked"}
      BY <1>1, <2>10 DEF MarkTicket, MarkSubmitting, CheckMarked, Goto, EngineRecord
    <3> QED
      BY <2>2, <2>3, <3>1
  <2>11. CASE engine'[e].pc \notin Deciding
    BY <2>11 DEF Deciding
  <2> QED
    BY <2>4, <2>5, <2>6, <2>7, <2>8, <2>9, <2>10, <2>11, EngineMoves
<1> QED
  BY <1>2, <1>3, PositionMoves

(* An order becomes exposed when an engine queues its placement. *)
LEMMA ExposedMoves ==
    ASSUME SafetyInv, [Next]_vars, NEW r \in Exposed'
    PROVE  r \in Exposed \/ \E e \in Engine : Place(e) /\ engine[e].ref = r
<1>1. /\ wire \in [Ref -> {"idle", "queued", "sent", "dropped"}] /\ broker \in [Ref -> OrderRow]
      /\ r \in Ref /\ (wire'[r] = "queued" \/ (wire'[r] = "sent" /\ broker'[r].state # "done"))
  BY DEF SafetyInv, TypeOK, Exposed
<1>2. CASE UNCHANGED <<wire, broker>>
  BY <1>1, <1>2 DEF Exposed
<1>3. CASE \E e \in Engine : Place(e) \/ Interrupt(e) \/ Crash(e)
  <2>1. PICK e \in Engine : Place(e) \/ Interrupt(e) \/ Crash(e)
    BY <1>3
  <2>2. CASE Place(e)
    BY <1>1, <2>2 DEF Place, Exposed
  <2>3. CASE Interrupt(e) \/ Crash(e)
    BY <1>1, <2>3 DEF Interrupt, Crash, Unqueue, Exposed
  <2> QED
    BY <2>1, <2>2, <2>3
<1>4. CASE \E q \in Ref : Provider(q)
  <2>1. PICK q \in Ref : Send(q) \/ Arrive(q) \/ Execute(q) \/ Finish(q)
    BY <1>4 DEF Provider
  <2>2. CASE Send(q)
    BY <1>1, <2>2 DEF Send, Exposed
  <2>3. CASE Arrive(q) \/ Execute(q) \/ Finish(q)
    BY <1>1, <2>3 DEF Arrive, Execute, Finish, Exposed, OrderRow
  <2> QED
    BY <2>1, <2>2, <2>3
<1> QED
  BY <1>2, <1>3, <1>4, StepKinds DEF ReserveTicket, MarkTicket, SettleTicket, outside

(* Every step keeps the exposed sell covered. *)
LEMMA ExposedStep ==
    ASSUME SafetyInv, CapInv, CoverInv, [Next]_vars
    PROVE  ExposedCovered'
<1>1. /\ broker \in [Ref -> OrderRow] /\ Position \in Int /\ Position >= 0
      /\ \A r \in Ref : broker[r].executed \in Nat
  BY PositionType, LotAssumption DEF SafetyInv, TypeOK, OrderRow, CoverInv, ExposedCovered
<1>2. \A r \in Exposed :
         /\ r \in Ref /\ intents[r].state # "absent" /\ intents[r].payload \in Ticket
         /\ intents[r].payload.side = "sell" =>
               intents[r].payload.qty - broker[r].executed <= Position
  BY ExposedIsPending DEF SafetyInv, LedgerRows, Unresolved, PendingStates, CoverInv, ExposedCovered
<1>3. CASE \E r \in Ref : Execute(r) /\ Position' = Position + Signed(intents[r].payload, 1)
  <2>1. PICK r \in Ref : Execute(r) /\ Position' = Position + Signed(intents[r].payload, 1)
    BY <1>3
  <2>2. /\ intents' = intents /\ broker'[r].executed = broker[r].executed + 1
        /\ broker[r].executed < intents[r].payload.qty
    BY <1>1, <2>1 DEF Execute, OrderRow, tables
  <2>3. r \in Exposed
    BY <2>1 DEF Execute, SafetyInv, WireAgrees, Exposed
  <2>4. \A q \in Exposed' : q = r
    <3>1. \A q \in Exposed' : q \in Exposed
      BY <1>1, <2>1 DEF Execute, Exposed, OrderRow
    <3> QED
      BY <2>3, <3>1, ExposedIsPending DEF SafetyInv, LedgerRows
  <2>5. intents[r].payload.qty \in Nat /\ intents[r].payload.side \in {"buy", "sell"}
    BY <1>2, <2>3, LotAssumption DEF Ticket
  <2>6. CASE intents[r].payload.side = "buy"
    <3>1. Position' = Position + 1
      BY <2>1, <2>6 DEF Signed
    <3> QED
      BY <1>1, <2>2, <2>4, <2>6, <3>1 DEF ExposedCovered
  <2>7. CASE intents[r].payload.side = "sell"
    <3>1. Position' = Position + (-1)
      BY <2>1, <2>7 DEF Signed
    <3>2. intents[r].payload.qty - broker[r].executed <= Position
      BY <1>2, <2>3, <2>7
    <3>3. Position' >= 0 /\ intents[r].payload.qty - (broker[r].executed + 1) <= Position'
      BY <1>1, <2>2, <2>5, <3>1, <3>2
    <3> QED
      BY <2>2, <2>4, <3>3 DEF ExposedCovered
  <2> QED
    BY <2>5, <2>6, <2>7
<1>4. CASE Position' = Position /\ \A r \in Ref : broker'[r].executed = broker[r].executed
  <2> SUFFICES ASSUME NEW r \in Exposed', intents'[r].payload.side = "sell"
               PROVE  intents'[r].payload.qty - broker'[r].executed <= Position
    BY <1>1, <1>4 DEF ExposedCovered
  <2>1. CASE r \in Exposed
    <3>1. intents'[r].payload = intents[r].payload
      BY <1>2, <2>1, DispatchMoves
    <3> QED
      BY <1>2, <1>4, <2>1, <3>1
  <2>2. CASE \E e \in Engine : Place(e) /\ engine[e].ref = r
    <3>1. PICK e \in Engine : Place(e) /\ engine[e].ref = r
      BY <2>2
    <3>2. engine[e].pc = "placing" /\ intents' = intents /\ r \in Ref
      BY <3>1 DEF Place, tables, Exposed
    <3>3. intents[r].state = "submitting" /\ wire[r] = "idle"
      BY <3>1, <3>2 DEF SafetyInv, EnginesFit, Fits
    <3>4. broker[r].executed = 0
      BY <3>2, <3>3 DEF SafetyInv, WireAgrees
    <3>5. intents[r].payload.qty <= Position
      BY <3>1, <3>2 DEF CoverInv, PositionInTime
    <3>6. intents[r].payload.qty \in Nat
      BY <3>2, <3>3, LotAssumption DEF SafetyInv, LedgerRows, Ticket
    <3> QED
      BY <1>1, <1>4, <3>2, <3>4, <3>5, <3>6
  <2> QED
    BY <2>1, <2>2, ExposedMoves
<1> QED
  BY <1>3, <1>4, PositionMoves

(* What is held covers everything that exposed sells can still execute: no
   sell is sized on a position that another order then changed. *)
THEOREM SellsStayCovered == Spec => []SellsCovered
<1>1. Init => CoverInv
  <2> SUFFICES ASSUME Init PROVE CoverInv
    OBVIOUS
  <2>1. Position = 0
    <3>1. {r \in Ref : broker[r].executed > 0} = {}
      BY DEF Init, NoRows, Fresh
    <3>2. Position = SumFunctionOnSet([r \in {} |-> Signed(intents[r].payload, broker[r].executed)], {})
      BY <3>1 DEF Position, SumFunction
    <3> QED
      BY <3>2, FS_EmptySet, SumUnfold
  <2>2. Exposed = {}
    BY DEF Init, Exposed
  <2>3. \A e \in Engine : engine[e].pc = "off"
    BY DEF Init, Off, Empty
  <2> QED
    BY <2>1, <2>2, <2>3 DEF CoverInv, PositionInTime, ExposedCovered
<1>2. SafetyInv /\ FillsTrue /\ CapInv /\ CoverInv /\ [Next]_vars => CoverInv'
  BY TimeStep, ExposedStep DEF CoverInv
<1>3. SafetyInv /\ CoverInv => SellsCovered
  <2> SUFFICES ASSUME SafetyInv, CoverInv PROVE SellsCovered
    OBVIOUS
  <2> DEFINE sells == {r \in Exposed : intents[r].payload.side = "sell"}
  <2> DEFINE left == [r \in sells |-> intents[r].payload.qty - broker[r].executed]
  <2>1. SellsCovered <=> Position >= SumFunctionOnSet(left, sells)
    BY DEF SellsCovered, SumFunction
  <2>2. Position \in Int /\ Position >= 0
    BY PositionType DEF CoverInv, ExposedCovered
  <2>3. CASE sells = {}
    <3>1. SumFunctionOnSet(left, sells) = 0
      BY <2>3, FS_EmptySet, SumUnfold
    <3> QED
      BY <2>1, <2>2, <3>1
  <2>4. CASE sells # {}
    <3>1. PICK r \in sells : sells = {r}
      BY <2>4, ExposedIsPending DEF SafetyInv, LedgerRows
    <3>2. left[r] = intents[r].payload.qty - broker[r].executed /\ left[r] <= Position
      BY DEF CoverInv, ExposedCovered
    <3>3. left[r] \in Int
      <4>1. intents[r].payload \in Ticket /\ r \in Ref
        BY ExposedIsPending DEF SafetyInv, LedgerRows, Unresolved, PendingStates
      <4> QED
        BY <3>2, <4>1, LotAssumption DEF Ticket, SafetyInv, TypeOK, OrderRow
    <3>4. SumFunctionOnSet(left, {r}) = left[r] + SumFunctionOnSet(left, {})
      <4>1. {r} \ {r} = {} /\ IsFiniteSet({r}) /\ \A x \in {r} : left[x] \in Int
        BY <3>3, FS_Singleton
      <4> HIDE DEF left, sells
      <4>2. SumFunctionOnSet(left, {r}) = left[r] + SumFunctionOnSet(left, {r} \ {r})
        BY <4>1, SumTakeOut
      <4> QED
        BY <4>1, <4>2
    <3>5. SumFunctionOnSet(left, {}) = 0
      BY FS_EmptySet, SumUnfold
    <3> HIDE DEF left, sells
    <3>6. SumFunctionOnSet(left, sells) = left[r]
      BY <3>1, <3>3, <3>4, <3>5
    <3> QED
      BY <2>1, <2>2, <3>2, <3>3, <3>6
  <2> QED
    BY <2>3, <2>4
<1> QED
  BY <1>1, <1>2, <1>3, EngineSafe, FillsKept, CapKept, PTL DEF Spec
==============================================================================
