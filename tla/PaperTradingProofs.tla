-------------------------- MODULE PaperTradingProofs --------------------------
(***************************************************************************)
(* Paper trading for any markets, quotes, limits, runs and crashes: the    *)
(* saved session is what its fills add up to, every fill follows the       *)
(* signal of the run that made it, and no batch enters beyond the limits.  *)
(*                                                                         *)
(* None of it holds by itself.  A batch is consumed decision by decision   *)
(* and saved at the end, and the session outlives the run and the process, *)
(* so the invariant says how far what is in memory may be ahead of what is *)
(* saved: by the intents that were dropped when a save failed, and by      *)
(* nothing else.                                                           *)
(***************************************************************************)
EXTENDS PaperTrading, FiniteSetTheorems, SequenceTheorems, WellFoundedInduction, TLAPS

(* Every set of naturals has a least element. *)
LEMMA LeastNat == ASSUME NEW T, T \subseteq Nat, T # {} PROVE \E x \in T : \A y \in T : x <= y
<1> DEFINE R == StrictSubsetOrdering(Nat)
           F == FiniteSubsetsOf(Nat)
           D == {1..x : x \in T}
<1>1. IsWellFoundedOn(R, F)
  BY FS_StrictSubsetOrderingWellFounded
<1>2. D \subseteq F /\ D # {}
  <2>1. ASSUME NEW x \in T PROVE 1..x \in F
    <3>1. x \in Int /\ 1 \in Int
      OBVIOUS
    <3>2. IsFiniteSet(1..x)
      BY <3>1, FS_Interval
    <3>3. 1..x \in SUBSET Nat
      OBVIOUS
    <3> QED BY <3>2, <3>3 DEF FiniteSubsetsOf
  <2> QED BY <2>1
<1>3. \A x, y \in T : y < x => <<1..y, 1..x>> \in R
  BY DEF StrictSubsetOrdering
<1> HIDE DEF R, F, D
<1>4. PICK d \in D : \A e \in D : ~(<<e, d>> \in R)
  BY <1>1, <1>2, WFMin
<1>5. PICK x \in T : d = 1..x
  BY DEF D
<1>6. ASSUME NEW y \in T PROVE x <= y
  <2>1. 1..y \in D
    BY DEF D
  <2>2. ~(<<1..y, 1..x>> \in R)
    BY <1>4, <1>5, <2>1
  <2>3. ~(y < x) /\ x \in Nat /\ y \in Nat
    BY <1>3, <2>2
  <2> QED BY <2>3
<1> QED BY <1>6

-----------------------------------------------------------------------------
(* PaperTrading.  What is saved and what is in memory differ by the intents
   that were dropped; a worker's batch fills each instrument at most once. *)

PaperPosition == [quantity : Nat, cost : Int, bid : Int, opened : Int, high : Int]
PaperIntent == [side : {"buy", "sell"}, signal : Int, run : Int]
PaperFill ==
    [session : Nat, number : Nat, key : Key, side : {"buy", "sell"}, quantity : Nat, price : Int,
     at : Int, pnl : Int]
PaperSession(peak, drawdown) ==
    [id : Nat, cash : Int, positions : [Key -> PaperPosition \cup {None}],
     pending : [Key -> PaperIntent \cup {None}], quoted : [Key -> Int], sold : [Key -> Int \cup {None}],
     count : Nat, fills : Seq(PaperFill), realized : Int, peak : {peak}, drawdown : {drawdown}]
PaperDecision ==
    {d \in [key : Key, at : Int, bid : {r.bid : r \in Reading}, action : {"buy", "exit", "hold"},
            buyAllowed : BOOLEAN, status : {r.status : r \in Reading} \cup {"passed"}] :
        d.status # "blocked" => d.bid \in Nat /\ d.bid > Slip}

(* A session numbers its fills in their order. *)
FillsNumbered(s) ==
    /\ Len(s.fills) = s.count
    /\ \A i \in 1..s.count : s.fills[i].number = i /\ s.fills[i].session = s.id

(* The cash and the gain after each of the fills. *)
Balances(s, balance, gain) ==
    /\ balance \in [0..s.count -> Nat] /\ gain \in [0..s.count -> Int]
    /\ balance[0] = InitialCash /\ gain[0] = 0
    /\ \A i \in 1..s.count : /\ balance[i] = balance[i - 1] + Flow(s.fills[i])
                             /\ gain[i] = gain[i - 1] + s.fills[i].pnl
    /\ s.cash = balance[s.count] /\ s.realized = gain[s.count]

SessionOK(s) ==
    s \in PaperSession(s.peak, s.drawdown) /\ FillsNumbered(s) /\ \E b, g : Balances(s, b, g)

(* A session begins with nothing traded. *)
LEMMA NothingTraded ==
    ASSUME NEW id \in Nat
    PROVE  SessionOK(Session(id)) /\ Session(id).id = id
<1> DEFINE s == Session(id)
<1>1. s \in PaperSession(s.peak, s.drawdown)
  BY PaperAssumption DEF Session, PaperSession, NoIntents
<1>2. FillsNumbered(s)
  BY DEF Session, FillsNumbered
<1>3. Balances(s, [i \in 0..0 |-> InitialCash], [i \in 0..0 |-> 0])
  BY PaperAssumption DEF Session, Balances
<1> QED BY <1>1, <1>2, <1>3 DEF SessionOK, Session

(* A fill that the cash covers. *)
LEMMA FilledOK ==
    ASSUME NEW s, SessionOK(s), NEW f \in PaperFill, f.session = s.id, f.number = s.count + 1,
           s.cash + Flow(f) >= 0
    PROVE  LET t == Filled(s, f) IN
           /\ SessionOK(t)
           /\ t = [s EXCEPT !.count = s.count + 1, !.fills = Append(s.fills, f), !.realized = s.realized + f.pnl,
                            !.cash = s.cash + Flow(f)]
<1> DEFINE t == Filled(s, f)
<1>1. s \in PaperSession(s.peak, s.drawdown) /\ FillsNumbered(s)
  BY DEF SessionOK
<1>2. t = [s EXCEPT !.count = s.count + 1, !.fills = Append(s.fills, f), !.realized = s.realized + f.pnl,
                    !.cash = s.cash + Flow(f)]
  BY <1>1 DEF Filled, PaperSession
<1>3. Flow(f) \in Int
  BY DEF Flow, PaperFill
<1>4. Append(s.fills, f) \in Seq(PaperFill)
  BY <1>1 DEF PaperSession
<1>5. t \in PaperSession(s.peak, s.drawdown) /\ t.peak = s.peak /\ t.drawdown = s.drawdown
  <2>1. s.count + 1 \in Nat /\ s.realized + f.pnl \in Int /\ s.cash + Flow(f) \in Int
    <3>1. s.cash \in Int /\ s.realized \in Int /\ s.count \in Nat /\ f.pnl \in Int
      BY <1>1 DEF PaperSession, PaperFill
    <3> QED BY <1>3, <3>1
  <2> HIDE DEF t
  <2> QED BY <1>1, <1>2, <1>4, <2>1 DEF PaperSession
<1>6. /\ t.count = s.count + 1 /\ t.fills = Append(s.fills, f) /\ t.id = s.id
      /\ t.cash = s.cash + Flow(f) /\ t.realized = s.realized + f.pnl
  BY <1>1, <1>2 DEF PaperSession
<1>7. s.count \in Nat /\ Len(s.fills) = s.count /\ s.fills \in Seq(PaperFill)
  BY <1>1 DEF PaperSession, FillsNumbered
<1>8. /\ Len(t.fills) = s.count + 1 /\ t.fills[s.count + 1] = f
      /\ \A i \in 1..s.count : t.fills[i] = s.fills[i]
  BY <1>6, <1>7
<1>9. FillsNumbered(t)
  BY <1>1, <1>6, <1>7, <1>8 DEF FillsNumbered
<1>10. \E b, g : Balances(t, b, g)
  <2>1. PICK b, g : Balances(s, b, g)
    BY DEF SessionOK
  <2> DEFINE c == [i \in 0..s.count + 1 |-> IF i = s.count + 1 THEN t.cash ELSE b[i]]
             h == [i \in 0..s.count + 1 |-> IF i = s.count + 1 THEN t.realized ELSE g[i]]
  <2>2. t.cash \in Nat /\ t.realized \in Int
    <3>1. s.cash \in Int /\ s.realized \in Int /\ f.pnl \in Int
      BY <1>1 DEF PaperSession, PaperFill
    <3> HIDE DEF t
    <3> QED BY <1>3, <1>6, <3>1
  <2>3. /\ \A i \in 0..s.count : b[i] \in Nat /\ g[i] \in Int
        /\ b[0] = InitialCash /\ g[0] = 0 /\ b[s.count] = s.cash /\ g[s.count] = s.realized
    BY <2>1 DEF Balances
  <2>4. c \in [0..t.count -> Nat] /\ h \in [0..t.count -> Int]
    <3>1. ASSUME NEW i \in 0..s.count + 1 PROVE i = s.count + 1 \/ i \in 0..s.count
      BY <1>7
    <3>2. t.cash \in Nat /\ t.realized \in Int /\ t.count = s.count + 1
      BY <1>6, <2>2
    <3> HIDE DEF t
    <3>3. ASSUME NEW i \in 0..s.count + 1
          PROVE  /\ (IF i = s.count + 1 THEN t.cash ELSE b[i]) \in Nat
                 /\ (IF i = s.count + 1 THEN t.realized ELSE g[i]) \in Int
      BY <2>3, <3>1, <3>2
    <3> QED BY <3>2, <3>3
  <2>5. c[0] = InitialCash /\ h[0] = 0 /\ t.cash = c[t.count] /\ t.realized = h[t.count]
    BY <1>6, <1>7, <2>3
  <2>6. ASSUME NEW i \in 1..t.count
        PROVE  c[i] = c[i - 1] + Flow(t.fills[i]) /\ h[i] = h[i - 1] + t.fills[i].pnl
    <3>1. CASE i = s.count + 1
      <4>1. c[i] = t.cash /\ h[i] = t.realized /\ t.fills[i] = f
        BY <1>8, <3>1
      <4>2. s.count \in 0..s.count + 1 /\ s.count # s.count + 1 /\ i - 1 = s.count
        BY <1>7, <3>1
      <4>3. c[i - 1] = s.cash /\ h[i - 1] = s.realized
        BY <2>3, <4>2
      <4> QED BY <1>6, <4>1, <4>3
    <3>2. CASE i # s.count + 1
      <4>1. i \in 1..s.count /\ i - 1 \in 0..s.count /\ i \in 0..s.count
        BY <1>6, <1>7, <3>2
      <4>2. c[i] = b[i] /\ c[i - 1] = b[i - 1] /\ h[i] = g[i] /\ h[i - 1] = g[i - 1] /\ t.fills[i] = s.fills[i]
        <5>1. i # s.count + 1 /\ i - 1 # s.count + 1 /\ i \in 0..s.count + 1 /\ i - 1 \in 0..s.count + 1
          BY <1>7, <4>1
        <5>2. t.fills[i] = s.fills[i]
          BY <1>8, <4>1
        <5> HIDE DEF t
        <5> QED BY <5>1, <5>2
      <4> QED BY <2>1, <4>1, <4>2 DEF Balances
    <3> QED BY <3>1, <3>2
  <2> HIDE DEF c, h, t
  <2> QED BY <2>4, <2>5, <2>6 DEF Balances
<1> QED BY <1>2, <1>5, <1>9, <1>10 DEF SessionOK

LEMMA MoreOfTwo ==
    ASSUME NEW a \in Int, NEW b \in Int
    PROVE  Max({a, b}) \in {a, b} /\ Max({a, b}) >= a /\ Max({a, b}) >= b
<1>1. \E x \in {a, b} : \A y \in {a, b} : x >= y
  <2>1. CASE a >= b
    BY <2>1
  <2>2. CASE b >= a
    BY <2>2
  <2> QED BY <2>1, <2>2
<1> QED BY <1>1 DEF Max

(* What a session without another fill keeps. *)
LEMMA SameFills ==
    ASSUME NEW s, SessionOK(s), NEW t, t \in PaperSession(t.peak, t.drawdown), t.id = s.id, t.cash = s.cash,
           t.count = s.count, t.fills = s.fills, t.realized = s.realized
    PROVE  SessionOK(t)
<1>1. FillsNumbered(t)
  BY DEF SessionOK, FillsNumbered
<1>2. \E b, g : Balances(t, b, g)
  <2>1. PICK b, g : Balances(s, b, g)
    BY DEF SessionOK
  <2>2. Balances(t, b, g)
    BY <2>1 DEF Balances
  <2> QED BY <2>2
<1> QED BY <1>1, <1>2 DEF SessionOK

LEMMA HoldsSomething == \A p \in PaperPosition : p # None
<1>1. PaperPosition \subseteq [quantity : Int, cost : Int, bid : Int, opened : Int, high : Int]
  BY DEF PaperPosition
<1> QED BY <1>1, PaperNoneAssumption

(* Another position, and maybe a sale. *)
Places(t, u, k, p, at) ==
    t \in {[u EXCEPT !.positions[k] = p], [u EXCEPT !.positions[k] = p, !.sold[k] = at]}

Placed(t, u, k, p) ==
    /\ t \in PaperSession(u.peak, u.drawdown)
    /\ t.id = u.id /\ t.cash = u.cash /\ t.count = u.count /\ t.fills = u.fills /\ t.realized = u.realized
    /\ t.peak = u.peak /\ t.drawdown = u.drawdown /\ t.quoted = u.quoted /\ t.pending = u.pending
    /\ t.positions[k] = p /\ \A j \in Key \ {k} : t.positions[j] = u.positions[j]

(* What Places leaves of a session, whatever it sets. *)
LEMMA AnotherPosition ==
    ASSUME NEW u, u \in PaperSession(u.peak, u.drawdown), NEW k \in Key, NEW p, p = None \/ p \in PaperPosition,
           NEW at \in Int, NEW t, Places(t, u, k, p, at)
    PROVE  Placed(t, u, k, p)
<1>1. u.positions \in [Key -> PaperPosition \cup {None}] /\ u.sold \in [Key -> Int \cup {None}]
  BY DEF PaperSession
<1> DEFINE q == [u.positions EXCEPT ![k] = p]
           v == [u.sold EXCEPT ![k] = at]
<1>2. q \in [Key -> PaperPosition \cup {None}] /\ v \in [Key -> Int \cup {None}]
  BY <1>1
<1>3. q[k] = p /\ \A j \in Key \ {k} : q[j] = u.positions[j]
  BY <1>1
<1>4. t \in {[u EXCEPT !.positions = q], [u EXCEPT !.positions = q, !.sold = v]}
  BY DEF Places, PaperSession
<1> HIDE DEF q, v
<1>6. t \in PaperSession(u.peak, u.drawdown)
  BY <1>2, <1>4 DEF PaperSession
<1>5. /\ t \in PaperSession(u.peak, u.drawdown)
      /\ t.id = u.id /\ t.cash = u.cash /\ t.count = u.count /\ t.fills = u.fills /\ t.realized = u.realized
      /\ t.peak = u.peak /\ t.drawdown = u.drawdown /\ t.quoted = u.quoted /\ t.pending = u.pending
      /\ t.positions = q
  BY <1>4, <1>6 DEF PaperSession
<1> QED BY <1>3, <1>5 DEF Placed

Notes(s, seen, k, at) ==
    /\ SessionOK(seen)
    /\ seen.id = s.id /\ seen.cash = s.cash /\ seen.count = s.count /\ seen.fills = s.fills
    /\ seen.peak = s.peak /\ seen.drawdown = s.drawdown
    /\ seen.quoted = [s.quoted EXCEPT ![k] = at] /\ seen.pending = [s.pending EXCEPT ![k] = None]
    /\ \A j \in Key \ {k} : seen.positions[j] = s.positions[j]
    /\ seen.positions[k] = None <=> s.positions[k] = None

(* A quote that is seen is noted, and takes what waits away. *)
LEMMA SeenOK ==
    ASSUME NEW s, SessionOK(s), NEW k \in Key, NEW d \in PaperDecision, d.status # "blocked"
    PROVE  Notes(s, Marked([s EXCEPT !.quoted[k] = d.at, !.pending[k] = None], k, d), k, d.at)
<1> DEFINE u == [s EXCEPT !.quoted[k] = d.at, !.pending[k] = None]
           seen == Marked(u, k, d)
<1>1. s \in PaperSession(s.peak, s.drawdown)
  BY DEF SessionOK
<1>2. d.at \in Int /\ d.bid \in Nat
  BY DEF PaperDecision
<1>3. u \in PaperSession(s.peak, s.drawdown)
  BY <1>1, <1>2 DEF PaperSession
<1>4. /\ u.id = s.id /\ u.cash = s.cash /\ u.count = s.count /\ u.fills = s.fills /\ u.realized = s.realized
      /\ u.positions = s.positions /\ u.peak = s.peak /\ u.drawdown = s.drawdown
      /\ u.quoted = [s.quoted EXCEPT ![k] = d.at] /\ u.pending = [s.pending EXCEPT ![k] = None]
  BY <1>1 DEF PaperSession
<1> HIDE DEF u
<1>5. CASE s.positions[k] = None
  <2>1. seen = u
    BY <1>4, <1>5 DEF Marked
  <2>2. SessionOK(u)
    BY <1>3, <1>4, SameFills
  <2> QED BY <1>4, <1>5, <2>1, <2>2 DEF u, Notes
<1>6. CASE s.positions[k] # None
  <2>1. s.positions \in [Key -> PaperPosition \cup {None}]
    BY <1>1 DEF PaperSession
  <2>2. s.positions[k] \in PaperPosition
    BY <1>6, <2>1
  <2> DEFINE h == Max({u.positions[k].high, d.bid})
             p == [s.positions[k] EXCEPT !.bid = d.bid, !.high = h]
  <2>3. h \in Int
    <3>1. u.positions[k].high \in Int /\ d.bid \in Int
      BY <1>2, <1>4, <2>2 DEF PaperPosition
    <3> QED BY <3>1, MoreOfTwo
  <2>4. u.positions = s.positions
    BY <1>4
  <2>5. seen = [u EXCEPT !.positions[k] = p]
    BY <1>3, <1>6, <2>1, <2>2, <2>4 DEF Marked, PaperSession, PaperPosition
  <2> HIDE DEF h
  <2>6. p \in PaperPosition
    <3>1. \A x \in PaperPosition, y \in Int, z \in Int : [x EXCEPT !.bid = y, !.high = z] \in PaperPosition
      BY DEF PaperPosition
    <3>2. s.positions[k] \in PaperPosition /\ d.bid \in Int /\ h \in Int
      BY <1>2, <2>2, <2>3
    <3> QED BY <3>1, <3>2
  <2>7. p # None
    BY <2>6, HoldsSomething
  <2> HIDE DEF p, seen
  <2>8. Placed(seen, u, k, p)
    <3>1. Places(seen, u, k, p, d.at)
      BY <2>5 DEF Places
    <3>2. u \in PaperSession(u.peak, u.drawdown) /\ d.at \in Int
      BY <1>2, <1>3, <1>4
    <3> QED BY <2>6, <3>1, <3>2, AnotherPosition
  <2>9. SessionOK(seen)
    BY <1>4, <2>8, SameFills DEF Placed
  <2> QED BY <1>4, <1>6, <2>4, <2>7, <2>8, <2>9 DEF seen, u, Placed, Notes
<1> QED BY <1>5, <1>6

(* What is bought for the trade cash, or less, costs no more. *)
LEMMA BoughtFor ==
    ASSUME NEW price \in Nat \ {0}
    PROVE  /\ TradeCash \div price \in Nat /\ (TradeCash \div price) * price <= TradeCash
           /\ (TradeCash \div price) * price \in Nat
<1>1. TradeCash \in Nat
  BY PaperAssumption
<1> DEFINE n == TradeCash \div price
<1>2. n \in Int /\ price * n <= TradeCash /\ TradeCash < price * n + price
  BY <1>1
<1> HIDE DEF n
<1>3. n >= 0
  <2>1. SUFFICES ASSUME n <= -1 PROVE FALSE
    BY <1>2
  <2>2. price * n <= price * (-1)
    BY <1>2, <2>1
  <2> QED BY <1>1, <1>2, <2>2
<1>4. n * price = price * n /\ n * price \in Nat
  BY <1>2, <1>3
<1> QED BY <1>2, <1>3, <1>4 DEF n

(* A fill, or none. *)
Trades(s, t, k, at, side) ==
    \/ t = s
    \/ \E f \in PaperFill :
          /\ t.fills = Append(s.fills, f) /\ t.count = s.count + 1 /\ f.key = k /\ f.at = at /\ f.side = side
          /\ IF side = "buy" THEN s.positions[k] = None /\ t.positions[k] # None
             ELSE s.positions[k] # None /\ t.positions[k] = None

Elsewhere(s, t, k) ==
    /\ t.id = s.id /\ t.peak = s.peak /\ t.drawdown = s.drawdown
    /\ t.quoted = s.quoted /\ t.pending = s.pending
    /\ \A j \in Key \ {k} : t.positions[j] = s.positions[j]

(* An entry is paid from the cash, or is not filled. *)
LEMMA BuyOK ==
    ASSUME NEW s, SessionOK(s), NEW k \in Key, NEW d \in PaperDecision, d.status # "blocked"
    PROVE  LET t == Buy(s, k, d) IN SessionOK(t) /\ Elsewhere(s, t, k) /\ Trades(s, t, k, d.at, "buy")
<1> DEFINE t == Buy(s, k, d)
           price == d.bid + Slip
           quantity == TradeCash \div price
           f == Fill(s, k, "buy", quantity, price, d.at, 0)
           u == Filled(s, f)
           p == [quantity |-> quantity, cost |-> quantity * price, bid |-> d.bid, opened |-> d.at, high |-> d.bid]
<1>1. CASE t = s
  BY <1>1 DEF Elsewhere, Trades
<1>2. CASE t # s
  <2>1. s.positions[k] = None /\ ~(s.cash < TradeCash) /\ t = [u EXCEPT !.positions[k] = p]
    BY <1>2 DEF Buy
  <2>2. s \in PaperSession(s.peak, s.drawdown)
    BY DEF SessionOK
  <2>3. d.at \in Int /\ d.bid \in Nat /\ d.bid > Slip /\ Slip \in Nat
    BY PaperAssumption DEF PaperDecision
  <2>4. price \in Nat \ {0} /\ price \in Int
    BY <2>3
  <2> HIDE DEF price
  <2>5. quantity \in Nat /\ quantity * price <= TradeCash /\ quantity * price \in Nat
    BY <2>4, BoughtFor
  <2> HIDE DEF quantity
  <2>6. f \in PaperFill /\ f.session = s.id /\ f.number = s.count + 1 /\ f.key = k /\ f.at = d.at /\ f.side = "buy"
    BY <2>2, <2>3, <2>4, <2>5 DEF Fill, PaperFill, PaperSession
  <2>7. Flow(f) = -(quantity * price) /\ s.cash + Flow(f) >= 0
    BY <2>1, <2>2, <2>5, PaperAssumption DEF Fill, Flow, PaperSession
  <2> HIDE DEF f
  <2>8. /\ SessionOK(u)
        /\ u = [s EXCEPT !.count = s.count + 1, !.fills = Append(s.fills, f), !.realized = s.realized + f.pnl,
                         !.cash = s.cash + Flow(f)]
    BY <2>6, <2>7, FilledOK
  <2>9. /\ u.id = s.id /\ u.peak = s.peak /\ u.drawdown = s.drawdown /\ u.quoted = s.quoted /\ u.pending = s.pending
        /\ u.positions = s.positions /\ u.count = s.count + 1 /\ u.fills = Append(s.fills, f)
    BY <2>2, <2>8 DEF PaperSession
  <2>10. u \in PaperSession(s.peak, s.drawdown)
    BY <2>8, <2>9 DEF SessionOK
  <2> HIDE DEF u
  <2>11. p \in PaperPosition /\ p # None
    <3>1. p \in PaperPosition
      BY <2>3, <2>5 DEF PaperPosition
    <3> QED BY <3>1, HoldsSomething
  <2> HIDE DEF p
  <2> HIDE DEF t
  <2>12. Placed(t, u, k, p)
    <3>1. Places(t, u, k, p, d.at)
      BY <2>1 DEF Places
    <3>2. u \in PaperSession(u.peak, u.drawdown)
      BY <2>9, <2>10
    <3> QED BY <2>3, <2>11, <3>1, <3>2, AnotherPosition
  <2>13. t \in PaperSession(t.peak, t.drawdown)
    BY <2>12 DEF Placed
  <2>14. SessionOK(t)
    BY <2>8, <2>12, <2>13, SameFills DEF Placed
  <2>16. Elsewhere(s, t, k)
    BY <2>9, <2>12 DEF Elsewhere, Placed
  <2>17. Trades(s, t, k, d.at, "buy")
    BY <2>1, <2>6, <2>9, <2>11, <2>12 DEF Trades, Placed
  <2> QED BY <2>14, <2>16, <2>17 DEF t
<1> QED BY <1>1, <1>2

(* An exit sells what is held. *)
LEMMA SellOK ==
    ASSUME NEW s, SessionOK(s), NEW k \in Key, NEW d \in PaperDecision, d.status # "blocked"
    PROVE  LET t == Sell(s, k, d) IN SessionOK(t) /\ Elsewhere(s, t, k) /\ Trades(s, t, k, d.at, "sell")
<1> DEFINE t == Sell(s, k, d)
           price == d.bid - Slip
           p == s.positions[k]
           f == Fill(s, k, "sell", p.quantity, price, d.at, p.quantity * price - p.cost)
           u == Filled(s, f)
<1>1. CASE p = None
  BY <1>1 DEF Sell, Elsewhere, Trades
<1>2. CASE p # None
  <2>1. t = [u EXCEPT !.positions[k] = None, !.sold[k] = d.at]
    BY <1>2 DEF Sell
  <2>2. s \in PaperSession(s.peak, s.drawdown)
    BY DEF SessionOK
  <2>3. d.at \in Int /\ d.bid \in Nat /\ d.bid > Slip /\ Slip \in Nat
    BY PaperAssumption DEF PaperDecision
  <2>4. price \in Nat /\ price \in Int
    BY <2>3
  <2> HIDE DEF price
  <2>5. p \in PaperPosition
    BY <1>2, <2>2 DEF PaperSession
  <2>6. p.quantity \in Nat /\ p.cost \in Int
    BY <2>5 DEF PaperPosition
  <2>7. p.quantity * price \in Nat
    BY <2>4, <2>6
  <2> HIDE DEF p
  <2>8. f \in PaperFill /\ f.session = s.id /\ f.number = s.count + 1 /\ f.key = k /\ f.at = d.at /\ f.side = "sell"
    <3>1. p.quantity * price - p.cost \in Int /\ s.count + 1 \in Nat /\ s.id \in Nat
      BY <2>2, <2>6, <2>7 DEF PaperSession
    <3> QED BY <2>3, <2>4, <2>6, <3>1 DEF Fill, PaperFill
  <2>9. Flow(f) = p.quantity * price
    BY DEF Fill, Flow
  <2>10. s.cash \in Nat /\ s.cash + Flow(f) >= 0
    BY <2>7, <2>9 DEF SessionOK, Balances, PaperSession
  <2> HIDE DEF f
  <2>11. /\ SessionOK(u)
         /\ u = [s EXCEPT !.count = s.count + 1, !.fills = Append(s.fills, f), !.realized = s.realized + f.pnl,
                          !.cash = s.cash + Flow(f)]
    BY <2>7, <2>8, <2>9, <2>10, FilledOK
  <2>12. /\ u.id = s.id /\ u.peak = s.peak /\ u.drawdown = s.drawdown /\ u.quoted = s.quoted /\ u.pending = s.pending
         /\ u.positions = s.positions /\ u.count = s.count + 1 /\ u.fills = Append(s.fills, f)
    BY <2>2, <2>11 DEF PaperSession
  <2>13. u \in PaperSession(s.peak, s.drawdown)
    BY <2>11, <2>12 DEF SessionOK
  <2> HIDE DEF u
  <2> HIDE DEF t
  <2>14. Placed(t, u, k, None)
    <3>1. Places(t, u, k, None, d.at)
      BY <2>1 DEF Places
    <3>2. u \in PaperSession(u.peak, u.drawdown)
      BY <2>12, <2>13
    <3> QED BY <2>3, <3>1, <3>2, AnotherPosition
  <2>15. t \in PaperSession(t.peak, t.drawdown)
    BY <2>14 DEF Placed
  <2>16. SessionOK(t)
    BY <2>11, <2>14, <2>15, SameFills DEF Placed
  <2>18. Elsewhere(s, t, k)
    BY <2>12, <2>14 DEF Elsewhere, Placed
  <2>19. Trades(s, t, k, d.at, "sell")
    BY <1>2, <2>8, <2>12, <2>14 DEF Trades, p, Placed
  <2> QED BY <2>16, <2>18, <2>19 DEF t
<1> QED BY <1>1, <1>2

(* One decision consumed. *)
FillsOnce(s, t, k) ==
    \E f \in PaperFill :
        /\ t.fills = Append(s.fills, f) /\ t.count = s.count + 1
        /\ f.key = k /\ f.at > s.quoted[k] /\ f.at = t.quoted[k]
        /\ s.pending[k] # None /\ s.pending[k].signal < f.at /\ f.side = s.pending[k].side
        /\ IF f.side = "buy" THEN s.positions[k] = None /\ t.positions[k] # None
           ELSE s.positions[k] # None /\ t.positions[k] = None

FillsNot(s, t, k) ==
    t.fills = s.fills /\ t.count = s.count /\ (t.positions[k] = None <=> s.positions[k] = None)

Waits(s, t, k, d) ==
    \/ t.pending[k] = None \/ t.pending[k] = s.pending[k]
    \/ t.pending[k].run = run.number /\ (t.pending[k].side = "buy" => Wants(d))

Apart(s, t, k) ==
    /\ t.id = s.id /\ t.peak = s.peak /\ t.drawdown = s.drawdown
    /\ \A j \in Key \ {k} : /\ t.positions[j] = s.positions[j] /\ t.pending[j] = s.pending[j]
                            /\ t.quoted[j] = s.quoted[j]

Settles(s, t, k, d) ==
    /\ SessionOK(t) /\ Apart(s, t, k) /\ t.quoted[k] >= s.quoted[k] /\ Waits(s, t, k, d)
    /\ FillsNot(s, t, k) \/ FillsOnce(s, t, k)

(* Another intent. *)
LEMMA AnotherIntent ==
    ASSUME NEW s, SessionOK(s), NEW k \in Key, NEW i, i = None \/ i \in PaperIntent
    PROVE  LET t == [s EXCEPT !.pending[k] = i] IN
           /\ SessionOK(t)
           /\ t.id = s.id /\ t.peak = s.peak /\ t.drawdown = s.drawdown /\ t.count = s.count /\ t.fills = s.fills
           /\ t.positions = s.positions /\ t.quoted = s.quoted
           /\ t.pending[k] = i /\ \A j \in Key \ {k} : t.pending[j] = s.pending[j]
<1> DEFINE t == [s EXCEPT !.pending[k] = i]
           q == [s.pending EXCEPT ![k] = i]
<1>1. s \in PaperSession(s.peak, s.drawdown)
  BY DEF SessionOK
<1>2. s.pending \in [Key -> PaperIntent \cup {None}]
  BY <1>1 DEF PaperSession
<1>3. q \in [Key -> PaperIntent \cup {None}] /\ q[k] = i /\ \A j \in Key \ {k} : q[j] = s.pending[j]
  BY <1>2
<1>4. t = [s EXCEPT !.pending = q]
  BY <1>1 DEF PaperSession
<1> HIDE DEF q, t
<1>5. /\ t \in PaperSession(s.peak, s.drawdown)
      /\ t.id = s.id /\ t.peak = s.peak /\ t.drawdown = s.drawdown /\ t.count = s.count /\ t.fills = s.fills
      /\ t.positions = s.positions /\ t.quoted = s.quoted /\ t.cash = s.cash /\ t.realized = s.realized
      /\ t.pending = q
  BY <1>1, <1>3, <1>4 DEF PaperSession
<1>6. t \in PaperSession(t.peak, t.drawdown)
  BY <1>5
<1>7. SessionOK(t)
  BY <1>5, <1>6, SameFills
<1> QED BY <1>3, <1>5, <1>7 DEF t

(* consume, for one decision: at most one fill, of the intent that waited. *)
LEMMA ConsumedOK ==
    ASSUME NEW s, SessionOK(s), NEW k \in Key, NEW d \in PaperDecision, run.number \in Int
    PROVE  Settles(s, Consumed(s, k, d), k, d)
<1> DEFINE t == Consumed(s, k, d)
           seen == Marked([s EXCEPT !.quoted[k] = d.at, !.pending[k] = None], k, d)
           intent == s.pending[k]
           done == IF ~Fillable(intent, d) THEN seen
                   ELSE IF intent.side = "buy" THEN Buy(seen, k, d) ELSE Sell(seen, k, d)
           side == IF d.action = "buy" /\ d.buyAllowed /\ done.positions[k] = None THEN "buy"
                   ELSE IF d.action = "exit" /\ done.positions[k] # None THEN "sell" ELSE None
           next == [side |-> side, signal |-> d.at, run |-> run.number]
<1>1. s \in PaperSession(s.peak, s.drawdown) /\ d.at \in Int /\ s.quoted \in [Key -> Int]
  BY DEF SessionOK, PaperDecision, PaperSession
<1>2. CASE d.status = "blocked"
  <2>1. t = [s EXCEPT !.pending[k] = None]
    BY <1>2 DEF Consumed
  <2> HIDE DEF t
  <2>2. /\ SessionOK(t) /\ t.id = s.id /\ t.peak = s.peak /\ t.drawdown = s.drawdown /\ t.count = s.count
        /\ t.fills = s.fills /\ t.positions = s.positions /\ t.quoted = s.quoted
        /\ t.pending[k] = None /\ \A j \in Key \ {k} : t.pending[j] = s.pending[j]
    BY <2>1, AnotherIntent
  <2> QED BY <1>1, <2>2 DEF Settles, Apart, Waits, FillsNot, t
<1>3. CASE d.status # "blocked" /\ Outdated(s, k, d)
  <2>1. t = s
    BY <1>3 DEF Consumed
  <2> QED BY <1>1, <2>1 DEF Settles, Apart, Waits, FillsNot
<1>4. CASE d.status # "blocked" /\ ~Outdated(s, k, d)
  <2>1. t = IF d.status = "passed" /\ side # None /\ (side = "sell" \/ done.cash >= TradeCash)
            THEN [done EXCEPT !.pending[k] = next] ELSE done
    BY <1>4 DEF Consumed
  <2> SUFFICES Settles(s, t, k, d)
    OBVIOUS
  <2> HIDE DEF t
  <2>2. d.at > s.quoted[k]
    BY <1>1, <1>4 DEF Outdated
  <2>3. Notes(s, seen, k, d.at)
    BY <1>4, SeenOK
  <2> HIDE DEF seen
  <2>4. /\ seen.quoted[k] = d.at /\ seen.pending[k] = None
        /\ \A j \in Key \ {k} : seen.quoted[j] = s.quoted[j] /\ seen.pending[j] = s.pending[j]
    BY <1>1, <2>3 DEF PaperSession, Notes
  <2>5. /\ SessionOK(done) /\ Elsewhere(seen, done, k)
        /\ \/ done = seen
           \/ Fillable(intent, d) /\ Trades(seen, done, k, d.at, IF intent.side = "buy" THEN "buy" ELSE "sell")
    <3>1. CASE ~Fillable(intent, d)
      <4>1. done = seen
        BY <3>1
      <4>2. SessionOK(seen) /\ Elsewhere(seen, seen, k)
        BY <2>3 DEF Elsewhere, Notes
      <4> HIDE DEF done, intent
      <4> QED BY <4>1, <4>2
    <3>2. CASE Fillable(intent, d) /\ intent.side = "buy"
      BY <1>4, <2>3, <3>2, BuyOK DEF Notes
    <3>3. CASE Fillable(intent, d) /\ intent.side # "buy"
      BY <1>4, <2>3, <3>3, SellOK DEF Notes
    <3> QED BY <3>1, <3>2, <3>3
  <2> HIDE DEF done
  <2>6. FillsNot(s, done, k) \/ FillsOnce(s, done, k)
    <3>1. CASE done = seen
      BY <2>3, <3>1 DEF FillsNot, Notes
    <3>2. CASE done # seen
      <4> DEFINE way == IF intent.side = "buy" THEN "buy" ELSE "sell"
      <4>1. intent \in PaperIntent /\ intent.signal < d.at
        BY <1>1, <2>5, <3>2 DEF Fillable, PaperSession
      <4>2. intent.side = way /\ intent # None
        BY <2>5, <3>2, <4>1 DEF PaperIntent, Fillable
      <4>3. PICK f \in PaperFill :
              /\ done.fills = Append(seen.fills, f) /\ done.count = seen.count + 1 /\ f.key = k /\ f.at = d.at
              /\ f.side = way
              /\ IF way = "buy" THEN seen.positions[k] = None /\ done.positions[k] # None
                 ELSE seen.positions[k] # None /\ done.positions[k] = None
        BY <2>5, <3>2 DEF Trades
      <4>4. done.quoted[k] = d.at
        BY <2>4, <2>5 DEF Elsewhere
      <4> HIDE DEF way, intent
      <4>5. FillsOnce(s, done, k)
        BY <2>2, <2>3, <4>1, <4>2, <4>3, <4>4 DEF FillsOnce, intent, Notes
      <4> QED BY <4>5
    <3> QED BY <3>1, <3>2
  <2>7. Apart(s, done, k) /\ done.quoted[k] = d.at /\ done.pending[k] = None
    BY <2>3, <2>4, <2>5 DEF Apart, Elsewhere, Notes
  <2>8. CASE t = done
    BY <1>1, <2>2, <2>5, <2>6, <2>7, <2>8 DEF Settles, Waits
  <2>9. CASE t # done
    <3>1. t = [done EXCEPT !.pending[k] = next] /\ side # None /\ side \in {"buy", "sell"}
      BY <2>1, <2>9
    <3>2. side = "buy" => Wants(d)
      BY <3>1, PaperNoneAssumption DEF Wants
    <3>3. next \in PaperIntent /\ next.run = run.number /\ next.side = side
      BY <1>1, <3>1 DEF PaperIntent
    <3> HIDE DEF next, side
    <3>4. /\ SessionOK(t)
          /\ t.id = done.id /\ t.peak = done.peak /\ t.drawdown = done.drawdown /\ t.count = done.count
          /\ t.fills = done.fills /\ t.positions = done.positions /\ t.quoted = done.quoted
          /\ t.pending[k] = next /\ \A j \in Key \ {k} : t.pending[j] = done.pending[j]
      BY <2>5, <3>1, <3>3, AnotherIntent
    <3>5. Apart(s, t, k) /\ t.quoted[k] >= s.quoted[k]
      BY <1>1, <2>2, <2>7, <3>4 DEF Apart
    <3>6. Waits(s, t, k, d)
      BY <3>2, <3>3, <3>4 DEF Waits
    <3>7. FillsNot(s, t, k) \/ FillsOnce(s, t, k)
      BY <2>6, <3>4 DEF FillsNot, FillsOnce
    <3> QED BY <3>4, <3>5, <3>6, <3>7 DEF Settles
  <2> QED BY <2>8, <2>9
<1> QED BY <1>2, <1>3, <1>4

-----------------------------------------------------------------------------
(* A batch *)

(* A function by recursion on a number, into a given set. *)
Stepwise(g, x, step, n) == g[0] = x /\ \A i \in 1..n : g[i] = step[<<i, g[i - 1]>>]

(* A function on 0..n may be defined step by step. *)
LEMMA Iterates ==
    ASSUME NEW D, NEW n \in Nat, NEW x \in D, NEW step \in [(1..n) \X D -> D]
    PROVE  \E g \in [0..n -> D] : Stepwise(g, x, step, n)
<1> DEFINE Upto(m, g) == Stepwise(g, x, step, m)
           Bad == {m \in 0..n : ~\E g \in [0..m -> D] : Upto(m, g)}
<1>1. SUFFICES ASSUME Bad # {} PROVE FALSE
  BY n \in 0..n
<1>2. PICK m \in Bad : \A l \in Bad : m <= l
  <2>1. Bad \subseteq Nat
    OBVIOUS
  <2> HIDE DEF Bad
  <2> QED BY <1>1, <2>1, LeastNat
<1>3. m # 0
  <2>1. Upto(0, [i \in 0..0 |-> x]) /\ [i \in 0..0 |-> x] \in [0..0 -> D]
    BY DEF Stepwise
  <2> QED BY <2>1
<1>4. m - 1 \in 0..n /\ m \in 1..n /\ ~(m <= m - 1)
  BY <1>3
<1>5. PICK g \in [0..m - 1 -> D] : Upto(m - 1, g)
  BY <1>2, <1>4
<1> DEFINE y == step[<<m, g[m - 1]>>]
           h == [i \in 0..m |-> IF i = m THEN y ELSE g[i]]
<1>6. g[m - 1] \in D /\ y \in D
  <2>1. m - 1 \in 0..m - 1
    BY <1>4
  <2>2. g[m - 1] \in D
    BY <2>1
  <2>3. <<m, g[m - 1]>> \in (1..n) \X D
    BY <1>4, <2>2
  <2> QED BY <2>2, <2>3
<1> HIDE DEF y
<1>7. h \in [0..m -> D]
  BY <1>4, <1>6
<1>8. h[0] = x /\ h[m] = y /\ \A i \in 0..m - 1 : h[i] = g[i]
  <2>1. g[0] = x
    BY <1>5 DEF Stepwise
  <2>2. \A i \in 0..m - 1 : i \in 0..m /\ i # m
    BY <1>4
  <2>3. m \in 0..m /\ 0 \in 0..m - 1
    BY <1>4
  <2> QED BY <2>1, <2>2, <2>3
<1> HIDE DEF h
<1>9. Upto(m, h)
  <2>1. ASSUME NEW i \in 1..m PROVE h[i] = step[<<i, h[i - 1]>>]
    <3>1. CASE i = m
      <4>1. m - 1 \in 0..m - 1
        BY <1>4
      <4>2. h[m - 1] = g[m - 1]
        BY <1>8, <4>1
      <4> QED BY <1>8, <3>1, <4>2 DEF y
    <3>2. CASE i # m
      <4>1. i \in 1..m - 1 /\ i \in 0..m - 1 /\ i - 1 \in 0..m - 1
        BY <1>4, <3>2
      <4> QED BY <1>5, <1>8, <4>1 DEF Stepwise
    <3> QED BY <3>1, <3>2
  <2> QED BY <1>8, <2>1 DEF Stepwise
<1> QED BY <1>7, <1>9

NewFill(s, t, f) ==
    /\ f.key \in Key /\ s.pending[f.key] # None /\ s.pending[f.key].signal < f.at
    /\ f.side = s.pending[f.key].side /\ f.at > s.quoted[f.key] /\ f.at = t.quoted[f.key]
    /\ IF f.side = "buy" THEN s.positions[f.key] = None /\ t.positions[f.key] # None
       ELSE s.positions[f.key] # None /\ t.positions[f.key] = None

SameAt(s, t, k) == t.positions[k] = s.positions[k] /\ t.pending[k] = s.pending[k] /\ t.quoted[k] = s.quoted[k]

(* What the first i decisions of a batch made of a session. *)
BatchMade(s, t, b, i) ==
    /\ SessionOK(t) /\ t.id = s.id /\ t.peak = s.peak /\ t.drawdown = s.drawdown
    /\ \A k \in Key : (\A j \in 1..i : b[j].key # k) => SameAt(s, t, k)
    /\ \A k \in Key : t.quoted[k] >= s.quoted[k]
    /\ \A j \in 1..i : Waits(s, t, b[j].key, b[j])
    /\ t.count >= s.count /\ \A n \in 1..s.count : t.fills[n] = s.fills[n]
    /\ \A n \in s.count + 1..t.count : NewFill(s, t, t.fills[n]) /\ \E j \in 1..i : b[j].key = t.fills[n].key
    /\ \A n, m \in s.count + 1..t.count : n # m => t.fills[n].key # t.fills[m].key
    /\ \A k \in Key : (\A n \in s.count + 1..t.count : t.fills[n].key # k)
                          => (t.positions[k] = None <=> s.positions[k] = None)

Distinct(b) == \A i, j \in 1..Len(b) : i # j => b[i].key # b[j].key

(* The next decision of a batch is about another instrument. *)
LEMMA BatchGoesOn ==
    ASSUME NEW s, SessionOK(s), NEW b \in Seq(PaperDecision), Distinct(b), NEW i \in 0..Len(b) - 1,
           NEW u, BatchMade(s, u, b, i), NEW t, Settles(u, t, b[i + 1].key, b[i + 1])
    PROVE  BatchMade(s, t, b, i + 1)
<1> DEFINE d == b[i + 1]
           k == d.key
<1>1. i \in Nat /\ i + 1 \in 1..Len(b) /\ d \in PaperDecision /\ k \in Key
  BY DEF PaperDecision
<1>2. \A j \in 1..i : j \in 1..Len(b) /\ b[j].key # k
  BY <1>1 DEF Distinct
<1>3. SameAt(s, u, k)
  BY <1>1, <1>2 DEF BatchMade
<1>4. /\ SessionOK(t) /\ Apart(u, t, k) /\ t.quoted[k] >= u.quoted[k] /\ Waits(u, t, k, d)
      /\ FillsNot(u, t, k) \/ FillsOnce(u, t, k)
  BY DEF Settles
<1>5. \A j \in 1..i + 1 : j \in 1..i \/ j = i + 1
  BY <1>1
<1> HIDE DEF k, d
<1>6. SessionOK(t) /\ t.id = s.id /\ t.peak = s.peak /\ t.drawdown = s.drawdown
  BY <1>4 DEF BatchMade, Apart
<1>7. \A l \in Key : (\A j \in 1..i + 1 : b[j].key # l) => SameAt(s, t, l)
  <2>1. SUFFICES ASSUME NEW l \in Key, \A j \in 1..i + 1 : b[j].key # l PROVE SameAt(s, t, l)
    OBVIOUS
  <2>2. l # k /\ \A j \in 1..i : b[j].key # l
    BY <1>1, <2>1 DEF k, d
  <2> QED BY <1>4, <2>2 DEF BatchMade, Apart, SameAt
<1>8. \A l \in Key : t.quoted[l] >= s.quoted[l]
  <2>1. SUFFICES ASSUME NEW l \in Key PROVE t.quoted[l] >= s.quoted[l]
    OBVIOUS
  <2>2. u.quoted[l] >= s.quoted[l]
    BY DEF BatchMade
  <2>3. CASE l # k
    BY <1>4, <2>2, <2>3 DEF Apart
  <2>4. CASE l = k
    BY <1>3, <1>4, <2>4 DEF SameAt
  <2> QED BY <2>3, <2>4
<1>9. \A j \in 1..i + 1 : Waits(s, t, b[j].key, b[j])
  <2>1. Waits(s, t, k, d)
    BY <1>3, <1>4 DEF Waits, SameAt
  <2>2. ASSUME NEW j \in 1..i PROVE Waits(s, t, b[j].key, b[j])
    <3>1. b[j].key # k /\ b[j].key \in Key /\ Waits(s, u, b[j].key, b[j])
      BY <1>2 DEF PaperDecision, BatchMade
    <3> QED BY <1>4, <3>1 DEF Waits, Apart
  <2> QED BY <1>5, <2>1, <2>2 DEF k, d
<1>10. /\ s.count \in Nat /\ u.count \in Nat /\ u.fills \in Seq(PaperFill) /\ Len(u.fills) = u.count
       /\ u.count >= s.count /\ \A n \in 1..s.count : u.fills[n] = s.fills[n]
  BY DEF BatchMade, SessionOK, FillsNumbered, PaperSession
<1>11. \A n \in s.count + 1..u.count : NewFill(s, t, u.fills[n]) /\ u.fills[n].key # k
  <2>1. SUFFICES ASSUME NEW n \in s.count + 1..u.count
                 PROVE  NewFill(s, t, u.fills[n]) /\ u.fills[n].key # k
    OBVIOUS
  <2>2. NewFill(s, u, u.fills[n]) /\ \E j \in 1..i : b[j].key = u.fills[n].key
    BY DEF BatchMade
  <2>3. u.fills[n].key # k /\ u.fills[n].key \in Key
    BY <1>2, <2>2 DEF NewFill
  <2> QED BY <1>4, <2>2, <2>3 DEF NewFill, Apart
<1>14. /\ \A n, m \in s.count + 1..u.count : n # m => u.fills[n].key # u.fills[m].key
       /\ \A n \in s.count + 1..u.count : \E j \in 1..i : b[j].key = u.fills[n].key
  BY DEF BatchMade
<1>15. \A l \in Key : (\A n \in s.count + 1..u.count : u.fills[n].key # l)
                         => (u.positions[l] = None <=> s.positions[l] = None)
  BY DEF BatchMade
<1>16. \A j \in 1..i : j \in 1..i + 1
  BY <1>1
<1>12. CASE FillsNot(u, t, k)
  <2>1. t.fills = u.fills /\ t.count = u.count /\ (t.positions[k] = None <=> u.positions[k] = None)
    BY <1>12 DEF FillsNot
  <2>2. \A n \in s.count + 1..t.count : NewFill(s, t, t.fills[n]) /\ \E j \in 1..i + 1 : b[j].key = t.fills[n].key
    BY <1>11, <1>14, <1>16, <2>1
  <2>3. \A l \in Key : (\A n \in s.count + 1..t.count : t.fills[n].key # l)
                          => (t.positions[l] = None <=> s.positions[l] = None)
    BY <1>4, <1>15, <2>1 DEF Apart
  <2>4. \A n, m \in s.count + 1..t.count : n # m => t.fills[n].key # t.fills[m].key
    BY <1>14, <2>1
  <2> QED BY <1>6, <1>7, <1>8, <1>9, <1>10, <2>1, <2>2, <2>3, <2>4 DEF BatchMade
<1>13. CASE FillsOnce(u, t, k)
  <2>1. PICK f \in PaperFill :
           /\ t.fills = Append(u.fills, f) /\ t.count = u.count + 1
           /\ f.key = k /\ f.at > u.quoted[k] /\ f.at = t.quoted[k]
           /\ u.pending[k] # None /\ u.pending[k].signal < f.at /\ f.side = u.pending[k].side
           /\ IF f.side = "buy" THEN u.positions[k] = None /\ t.positions[k] # None
              ELSE u.positions[k] # None /\ t.positions[k] = None
    BY <1>13 DEF FillsOnce
  <2>2. NewFill(s, t, f)
    BY <1>1, <1>3, <2>1 DEF NewFill, SameAt, k, d
  <2>3. t.fills[u.count + 1] = f /\ \A n \in 1..u.count : t.fills[n] = u.fills[n]
    BY <1>10, <2>1
  <2>10. s.count \in Nat /\ u.count \in Nat /\ u.count >= s.count /\ t.count = u.count + 1
    BY <1>10, <2>1
  <2>4. \A n \in s.count + 1..t.count : n = u.count + 1 \/ (n \in s.count + 1..u.count /\ n \in 1..u.count)
    BY <2>10
  <2>5. u.count + 1 \in s.count + 1..t.count /\ \A n \in s.count + 1..u.count : n \in s.count + 1..t.count
    BY <2>10
  <2>6. t.count >= s.count /\ \A n \in 1..s.count : t.fills[n] = s.fills[n]
    BY <1>10, <2>1, <2>3
  <2>7. \A n \in s.count + 1..t.count : NewFill(s, t, t.fills[n]) /\ \E j \in 1..i + 1 : b[j].key = t.fills[n].key
    <3>1. SUFFICES ASSUME NEW n \in s.count + 1..t.count
                   PROVE  NewFill(s, t, t.fills[n]) /\ \E j \in 1..i + 1 : b[j].key = t.fills[n].key
      OBVIOUS
    <3>2. CASE n = u.count + 1
      <4>1. i + 1 \in 1..i + 1
        BY <1>1
      <4> QED BY <2>1, <2>2, <2>3, <3>2, <4>1 DEF k, d
    <3>3. CASE n # u.count + 1
      <4>1. n \in s.count + 1..u.count /\ t.fills[n] = u.fills[n]
        BY <2>3, <2>4, <3>3
      <4> QED BY <1>11, <1>14, <1>16, <4>1
    <3> QED BY <3>2, <3>3
  <2>8. \A n, m \in s.count + 1..t.count : n # m => t.fills[n].key # t.fills[m].key
    <3>1. SUFFICES ASSUME NEW n \in s.count + 1..t.count, NEW m \in s.count + 1..t.count, n # m
                   PROVE  t.fills[n].key # t.fills[m].key
      OBVIOUS
    <3>2. CASE n \in s.count + 1..u.count /\ m \in s.count + 1..u.count
      <4>1. n \in 1..u.count /\ m \in 1..u.count
        BY <1>10, <3>2
      <4>2. t.fills[n] = u.fills[n] /\ t.fills[m] = u.fills[m]
        BY <2>3, <4>1
      <4>3. u.fills[n].key # u.fills[m].key
        BY <1>14, <3>1, <3>2
      <4> QED BY <4>2, <4>3
    <3>3. CASE n = u.count + 1 /\ m \in s.count + 1..u.count
      <4>1. m \in 1..u.count
        BY <1>10, <3>3
      <4>2. t.fills[m] = u.fills[m] /\ u.fills[m].key # k
        BY <1>11, <2>3, <3>3, <4>1
      <4> QED BY <2>1, <2>3, <3>3, <4>2
    <3>4. CASE m = u.count + 1 /\ n \in s.count + 1..u.count
      <4>1. n \in 1..u.count
        BY <1>10, <3>4
      <4>2. t.fills[n] = u.fills[n] /\ u.fills[n].key # k
        BY <1>11, <2>3, <3>4, <4>1
      <4> QED BY <2>1, <2>3, <3>4, <4>2
    <3> QED BY <2>4, <3>1, <3>2, <3>3, <3>4
  <2>9. \A l \in Key : (\A n \in s.count + 1..t.count : t.fills[n].key # l)
                          => (t.positions[l] = None <=> s.positions[l] = None)
    <3>1. SUFFICES ASSUME NEW l \in Key, \A n \in s.count + 1..t.count : t.fills[n].key # l
                   PROVE  t.positions[l] = None <=> s.positions[l] = None
      OBVIOUS
    <3>2. l # k
      BY <2>1, <2>3, <2>5, <3>1
    <3>3. ASSUME NEW n \in s.count + 1..u.count PROVE u.fills[n].key # l
      <4>1. n \in 1..u.count /\ n \in s.count + 1..t.count
        BY <1>10, <2>5
      <4>2. t.fills[n].key # l
        BY <3>1, <4>1
      <4>3. t.fills[n] = u.fills[n]
        BY <2>3, <4>1
      <4> QED BY <4>2, <4>3
    <3>4. u.positions[l] = None <=> s.positions[l] = None
      BY <1>15, <3>3
    <3> QED BY <1>4, <3>2, <3>4 DEF Apart
  <2> QED BY <1>6, <1>7, <1>8, <1>9, <2>6, <2>7, <2>8, <2>9 DEF BatchMade
<1> QED BY <1>4, <1>12, <1>13

LEMMA BatchBegins ==
    ASSUME NEW s, SessionOK(s), NEW b
    PROVE  BatchMade(s, s, b, 0)
<1>1. s.count \in Nat /\ s.quoted \in [Key -> Int]
  BY DEF SessionOK, PaperSession
<1>2. s.count + 1..s.count = {} /\ 1..0 = {}
  BY <1>1
<1>3. \A k \in Key : s.quoted[k] >= s.quoted[k]
  BY <1>1
<1> QED BY <1>1, <1>2, <1>3 DEF BatchMade, SameAt

(* consume, over the whole batch. *)
LEMMA ConsumedAllOK ==
    ASSUME NEW s, SessionOK(s), NEW b \in Seq(PaperDecision), Distinct(b), run.number \in Int
    PROVE  BatchMade(s, ConsumedAll(s, b), b, Len(b))
<1> DEFINE n == Len(b)
           D == {t \in PaperSession(s.peak, s.drawdown) : SessionOK(t)}
           Next1(i, t) == Consumed(t, b[i].key, b[i])
           after == CHOOSE f : f = [i \in 0..n |-> IF i = 0 THEN s ELSE Next1(i, f[i - 1])]
           step == [p \in (1..n) \X D |-> Next1(p[1], p[2])]
<1>1. ConsumedAll(s, b) = after[n]
  BY DEF ConsumedAll
<1>2. n \in Nat /\ s \in D
  BY DEF SessionOK
<1>3. ASSUME NEW i \in 1..n, NEW t, SessionOK(t) PROVE Settles(t, Next1(i, t), b[i].key, b[i])
  <2>1. b[i] \in PaperDecision /\ b[i].key \in Key
    BY DEF PaperDecision
  <2> QED BY <1>3, <2>1, ConsumedOK
<1>4. \A i \in 1..n, t \in D : Next1(i, t) \in D
  <2>1. SUFFICES ASSUME NEW i \in 1..n, NEW t \in D PROVE Next1(i, t) \in D
    OBVIOUS
  <2>2. t.peak = s.peak /\ t.drawdown = s.drawdown
    BY DEF PaperSession
  <2>3. Settles(t, Next1(i, t), b[i].key, b[i])
    BY <1>3
  <2> HIDE DEF Next1
  <2> QED BY <2>2, <2>3 DEF Settles, Apart, SessionOK
<1> HIDE DEF D, Next1
<1>5. step \in [(1..n) \X D -> D]
  BY <1>4
<1>6. PICK g \in [0..n -> D] : Stepwise(g, s, step, n)
  <2> HIDE DEF n, step
  <2> QED BY <1>2, <1>5, Iterates
<1>7. \A i \in 1..n : g[i] = Next1(i, g[i - 1])
  <2>1. SUFFICES ASSUME NEW i \in 1..n PROVE g[i] = Next1(i, g[i - 1])
    OBVIOUS
  <2>2. i - 1 \in 0..n
    BY <1>2
  <2>3. <<i, g[i - 1]>> \in (1..n) \X D
    BY <2>2
  <2> QED BY <1>6, <2>3 DEF Stepwise
<1>8. g = [i \in 0..n |-> IF i = 0 THEN s ELSE Next1(i, g[i - 1])]
  <2>1. \A i \in 0..n : g[i] = IF i = 0 THEN s ELSE Next1(i, g[i - 1])
    BY <1>2, <1>6, <1>7 DEF Stepwise
  <2> QED BY <2>1
<1>9. after = [i \in 0..n |-> IF i = 0 THEN s ELSE Next1(i, after[i - 1])]
  BY <1>8
<1> HIDE DEF after
<1>10. after[0] = s /\ \A i \in 0..n - 1 : after[i + 1] = Next1(i + 1, after[i])
  BY <1>2, <1>9
<1> DEFINE Bad == {i \in 0..n : ~BatchMade(s, after[i], b, i)}
<1>11. Bad = {}
  <2>1. SUFFICES ASSUME Bad # {} PROVE FALSE
    OBVIOUS
  <2>2. Bad \subseteq Nat
    OBVIOUS
  <2>3. PICK m \in Bad : \A l \in Bad : m <= l
    <3> HIDE DEF Bad
    <3> QED BY <2>1, <2>2, LeastNat
  <2>4. m # 0
    BY <1>10, BatchBegins
  <2>5. m - 1 \in 0..n - 1 /\ m - 1 \in 0..n /\ ~(m <= m - 1) /\ (m - 1) + 1 = m /\ m \in 1..n
    BY <1>2, <2>4
  <2>6. BatchMade(s, after[m - 1], b, m - 1)
    BY <2>3, <2>5
  <2>7. SessionOK(after[m - 1]) /\ after[m] = Next1(m, after[m - 1])
    BY <1>10, <2>5, <2>6 DEF BatchMade
  <2>8. Settles(after[m - 1], after[m], b[m].key, b[m])
    BY <1>3, <2>5, <2>7
  <2>9. BatchMade(s, after[m], b, (m - 1) + 1)
    BY <2>5, <2>6, <2>8, BatchGoesOn
  <2> QED BY <2>5, <2>9
<1>12. n \in 0..n
  BY <1>2
<1> QED BY <1>1, <1>11, <1>12


(* The instruments of the markets are finitely many. *)
LEMMA KeysAreFinite == IsFiniteSet(Key)
<1> DEFINE S == {Market[m] : m \in DOMAIN Market}
<1>1. IsFiniteSet(S)
  <2> DEFINE f == [m \in DOMAIN Market |-> Market[m]]
  <2>1. f \in Surjection(DOMAIN Market, S)
    BY DEF Surjection
  <2>2. IsFiniteSet(DOMAIN Market)
    BY PaperAssumption
  <2> HIDE DEF f, S
  <2> QED BY <2>1, <2>2, FS_Surjection
<1>2. \A T \in S : IsFiniteSet(T)
  BY PaperAssumption
<1> QED BY <1>1, <1>2, FS_UNION DEF Key

(* A worker goes through each of its instruments once. *)
LEMMA ListedOnce ==
    ASSUME NEW m \in DOMAIN Market
    PROVE  /\ Listed[m] \in Seq(Key) /\ DOMAIN Listed[m] = 1..Len(Listed[m])
           /\ \A i \in 1..Len(Listed[m]) : Listed[m][i] \in Market[m]
           /\ \A i, j \in 1..Len(Listed[m]) : i # j => Listed[m][i] # Listed[m][j]
<1> DEFINE S == Market[m]
           n == Cardinality(S)
           f == SetToSeq(S)
<1>1. IsFiniteSet(S) /\ S \subseteq Key
  BY PaperAssumption DEF Key
<1>2. n \in Nat /\ ExistsBijection(1..n, S)
  BY <1>1, FS_CardinalityType
<1>3. \E g \in [1..n -> S] : \A a, b \in DOMAIN g : g[a] = g[b] => a = b
  BY <1>2 DEF ExistsBijection, Bijection, Injection, IsInjective
<1>4. f \in [1..n -> S] /\ \A a, b \in 1..n : f[a] = f[b] => a = b
  BY <1>3 DEF SetToSeq, IsInjective
<1>5. Listed[m] = f
  BY DEF Listed
<1> HIDE DEF f, n, S
<1>6. f \in Seq(S) /\ Len(f) = n
  BY <1>2, <1>4
<1>7. f \in Seq(Key)
  BY <1>1, <1>2, <1>4
<1> QED BY <1>4, <1>5, <1>6, <1>7 DEF S

(* What an agent decides from an observation. *)
LEMMA DecisionOK ==
    ASSUME NEW s, NEW k \in Key, clock \in Int, NEW o \in Observation
    PROVE  Decision(s, k, o) \in PaperDecision /\ Decision(s, k, o).key = k
<1>1. PICK r \in Reading : o = [at |-> clock - r.lag, bid |-> r.bid, trend |-> r.trend, status |-> r.status]
  BY DEF Observation
<1>2. o.at \in Int /\ o.bid \in {x.bid : x \in Reading} /\ o.status \in {x.status : x \in Reading}
  BY <1>1, PaperAssumption
<1>3. o.status # "blocked" => o.bid \in Nat /\ o.bid > Slip
  BY <1>1, PaperAssumption
<1> DEFINE action == IF s.positions[k] # None THEN (IF Leaves(s.positions[k], o) THEN "exit" ELSE "hold")
                     ELSE IF Enters(s, k, o) THEN "buy" ELSE "hold"
           status == IF o.status # "blocked" /\ (action = "exit" \/ s.positions[k] # None) THEN "passed" ELSE o.status
           allowed == action = "buy"
           d == [key |-> k, at |-> o.at, bid |-> o.bid, action |-> action, buyAllowed |-> allowed, status |-> status]
<1>4. action \in {"buy", "exit", "hold"} /\ allowed \in BOOLEAN
  OBVIOUS
<1>5. /\ status \in {x.status : x \in Reading} \cup {"passed"}
      /\ status # "blocked" => o.bid \in Nat /\ o.bid > Slip
  BY <1>2, <1>3
<1>6. Decision(s, k, o) = d
  BY DEF Decision
<1> HIDE DEF action, status, allowed
<1>7. d \in PaperDecision /\ d.key = k
  BY <1>2, <1>4, <1>5 DEF PaperDecision
<1> QED BY <1>6, <1>7

LEMMA WithdrawnOK ==
    ASSUME NEW d \in PaperDecision
    PROVE  Withdrawn(d) \in PaperDecision /\ Withdrawn(d).key = d.key /\ ~Wants(Withdrawn(d))
<1> DEFINE a == IF d.action = "buy" THEN "hold" ELSE d.action
<1>1. Withdrawn(d) = [d EXCEPT !.action = a, !.buyAllowed = FALSE]
  BY DEF Withdrawn, PaperDecision
<1>2. a \in {"buy", "exit", "hold"} /\ a # "buy"
  BY DEF PaperDecision
<1> HIDE DEF a
<1> QED BY <1>1, <1>2 DEF PaperDecision, Wants

(* The instruments of the entries that a batch lets through before its ith. *)
Entered(c, i) == {c[j].key : j \in {l \in 1..i - 1 : Wants(c[l])}}

(* What the limits made of the first i decisions of a batch. *)
LimitedTo(s, c, b, i) ==
    /\ c \in Seq(PaperDecision) /\ Len(c) = i
    /\ \A j \in 1..i : c[j].key = b[j].key
    /\ \A j \in 1..i : Wants(c[j]) => ~run.paused /\ Allowed(s, Entered(c, j), c[j].key)

LEMMA LimitGoesOn ==
    ASSUME NEW s, NEW b \in Seq(PaperDecision), NEW i \in 0..Len(b) - 1, NEW c, LimitedTo(s, c, b, i),
           NEW d, \/ d = Withdrawn(b[i + 1])
                  \/ d = b[i + 1] /\ (Wants(d) => ~run.paused
                        /\ Allowed(s, {x.key : x \in {y \in Range(c) : Wants(y)}}, d.key))
    PROVE  LimitedTo(s, Append(c, d), b, i + 1)
<1>1. i \in Nat /\ i + 1 \in 1..Len(b) /\ b[i + 1] \in PaperDecision
  OBVIOUS
<1>2. d \in PaperDecision /\ d.key = b[i + 1].key
  BY <1>1, WithdrawnOK
<1>3. c \in Seq(PaperDecision) /\ Len(c) = i /\ DOMAIN c = 1..i
  BY DEF LimitedTo
<1> DEFINE e == Append(c, d)
<1>4. e \in Seq(PaperDecision) /\ Len(e) = i + 1 /\ e[i + 1] = d /\ \A j \in 1..i : e[j] = c[j]
  BY <1>1, <1>2, <1>3
<1> HIDE DEF e
<1>5. \A j \in 1..i + 1 : j \in 1..i \/ j = i + 1
  BY <1>1
<1>6. ASSUME NEW j \in 1..i + 1 PROVE Entered(e, j) = Entered(c, j)
  <2>1. \A l \in 1..j - 1 : l \in 1..i /\ e[l] = c[l]
    BY <1>1, <1>4
  <2>2. {l \in 1..j - 1 : Wants(e[l])} = {l \in 1..j - 1 : Wants(c[l])}
    BY <2>1
  <2> QED BY <2>1, <2>2 DEF Entered
<1>7. Entered(c, i + 1) = {x.key : x \in {y \in Range(c) : Wants(y)}}
  <2>1. (i + 1) - 1 = i
    BY <1>1
  <2>2. Range(c) = {c[j] : j \in 1..i}
    BY <1>3 DEF Range
  <2> QED BY <2>1, <2>2 DEF Entered
<1>8. \A j \in 1..i + 1 : e[j].key = b[j].key
  BY <1>2, <1>4, <1>5 DEF LimitedTo
<1>9. ASSUME NEW j \in 1..i + 1, Wants(e[j]) PROVE ~run.paused /\ Allowed(s, Entered(e, j), e[j].key)
  <2>1. CASE j \in 1..i
    BY <1>4, <1>6, <1>9, <2>1 DEF LimitedTo
  <2>2. CASE j = i + 1
    <3>1. d = b[i + 1] /\ Wants(d)
      BY <1>1, <1>4, <1>9, <2>2, WithdrawnOK
    <3>2. ~run.paused /\ Allowed(s, Entered(c, i + 1), d.key)
      BY <1>1, <1>7, <3>1, WithdrawnOK
    <3> QED BY <1>4, <1>6, <2>2, <3>2
  <2> QED BY <1>5, <2>1, <2>2
<1> QED BY <1>4, <1>8, <1>9 DEF e, LimitedTo

(* limit_entries: a batch of the same instruments, each entry within the limits. *)
LEMMA LimitedOK ==
    ASSUME NEW s, NEW b \in Seq(PaperDecision)
    PROVE  LimitedTo(s, Limited(s, b), b, Len(b))
<1> DEFINE n == Len(b)
           taken(before) == {d.key : d \in {x \in Range(before) : Wants(x)}}
           lets(before, d) == Wants(d) => ~run.paused /\ Allowed(s, taken(before), d.key)
           Goes(i, c) == Append(c, IF lets(c, b[i]) THEN b[i] ELSE Withdrawn(b[i]))
           limited == CHOOSE f : f = [i \in 0..n |-> IF i = 0 THEN <<>> ELSE Goes(i, f[i - 1])]
           D == Seq(PaperDecision)
           step == [p \in (1..n) \X D |-> Goes(p[1], p[2])]
<1>1. Limited(s, b) = limited[n]
  BY DEF Limited
<1>2. n \in Nat /\ <<>> \in D /\ \A i \in 1..n : b[i] \in PaperDecision
  OBVIOUS
<1>3. ASSUME NEW i \in 0..n - 1, NEW c, LimitedTo(s, c, b, i) PROVE LimitedTo(s, Goes(i + 1, c), b, i + 1)
  <2>1. CASE lets(c, b[i + 1])
    <3>1. Goes(i + 1, c) = Append(c, b[i + 1])
      BY <2>1
    <3>2. Wants(b[i + 1]) => ~run.paused
             /\ Allowed(s, {x.key : x \in {y \in Range(c) : Wants(y)}}, b[i + 1].key)
      BY <2>1
    <3> QED BY <1>3, <3>1, <3>2, LimitGoesOn
  <2>2. CASE ~lets(c, b[i + 1])
    <3>1. Goes(i + 1, c) = Append(c, Withdrawn(b[i + 1]))
      BY <2>2
    <3> QED BY <1>3, <3>1, LimitGoesOn
  <2> QED BY <2>1, <2>2
<1>4. \A i \in 1..n, c \in D : Goes(i, c) \in D
  <2>1. SUFFICES ASSUME NEW i \in 1..n, NEW c \in D PROVE Goes(i, c) \in D
    OBVIOUS
  <2>2. (IF lets(c, b[i]) THEN b[i] ELSE Withdrawn(b[i])) \in PaperDecision
    BY <1>2, WithdrawnOK
  <2> HIDE DEF lets
  <2> QED BY <2>2
<1> HIDE DEF D, Goes, lets, taken
<1>5. step \in [(1..n) \X D -> D]
  BY <1>4
<1>6. PICK g \in [0..n -> D] : Stepwise(g, <<>>, step, n)
  <2> HIDE DEF n, step
  <2> QED BY <1>2, <1>5, Iterates
<1>7. \A i \in 1..n : g[i] = Goes(i, g[i - 1])
  <2>1. SUFFICES ASSUME NEW i \in 1..n PROVE g[i] = Goes(i, g[i - 1])
    OBVIOUS
  <2>2. i - 1 \in 0..n
    BY <1>2
  <2>3. <<i, g[i - 1]>> \in (1..n) \X D
    BY <2>2
  <2> QED BY <1>6, <2>3 DEF Stepwise
<1>8. g = [i \in 0..n |-> IF i = 0 THEN <<>> ELSE Goes(i, g[i - 1])]
  <2>1. \A i \in 0..n : g[i] = IF i = 0 THEN <<>> ELSE Goes(i, g[i - 1])
    BY <1>2, <1>6, <1>7 DEF Stepwise
  <2> QED BY <2>1
<1>9. limited = [i \in 0..n |-> IF i = 0 THEN <<>> ELSE Goes(i, limited[i - 1])]
  BY <1>8
<1> HIDE DEF limited
<1>10. limited[0] = <<>> /\ \A i \in 0..n - 1 : limited[i + 1] = Goes(i + 1, limited[i])
  BY <1>2, <1>9
<1> DEFINE Bad == {i \in 0..n : ~LimitedTo(s, limited[i], b, i)}
<1>11. Bad = {}
  <2>1. SUFFICES ASSUME Bad # {} PROVE FALSE
    OBVIOUS
  <2>2. Bad \subseteq Nat
    OBVIOUS
  <2>3. PICK m \in Bad : \A l \in Bad : m <= l
    <3> HIDE DEF Bad
    <3> QED BY <2>1, <2>2, LeastNat
  <2>4. m # 0
    <3>1. LimitedTo(s, <<>>, b, 0)
      <4>1. <<>> \in Seq(PaperDecision) /\ Len(<<>>) = 0 /\ 1..0 = {}
        OBVIOUS
      <4> QED BY <4>1 DEF LimitedTo
    <3> QED BY <1>10, <3>1
  <2>5. m - 1 \in 0..n - 1 /\ m - 1 \in 0..n /\ ~(m <= m - 1) /\ (m - 1) + 1 = m /\ m \in 1..n
    BY <1>2, <2>4
  <2>6. LimitedTo(s, limited[m - 1], b, m - 1)
    BY <2>3, <2>5
  <2>7. LimitedTo(s, limited[m], b, (m - 1) + 1)
    BY <1>3, <1>10, <2>5, <2>6
  <2> QED BY <2>5, <2>7
<1>12. n \in 0..n
  BY <1>2
<1> QED BY <1>1, <1>11, <1>12


-----------------------------------------------------------------------------
(* The invariant *)

(* What the disk holds of its own session is that session's fills. *)
RowsOK(kept, s) ==
    /\ \A r \in kept : r.session \in Nat /\ r.number \in Nat /\ r.session <= s.id
    /\ {r \in kept : r.session = s.id} = {s.fills[i] : i \in 1..s.count}

(* Memory and disk differ by the intents that were dropped. *)
LedgerOK ==
    \/ ledger = None
    \/ /\ ledger = [disk.session EXCEPT !.pending = ledger.pending]
       /\ ledger.pending \in {disk.session.pending, NoIntents}

(* While a run is on, what waits for its fill was decided by that run. *)
OwnIntents(s) == \A k \in Key : s.pending[k] # None => s.pending[k].run = run.number

Trade ==
    [key : Key, side : {"buy", "sell"}, at : Int, session : Nat, signal : Int, from : Int, in : Int]

InTurn(g, f) ==
    \/ f.side # g.side
    \/ \E h \in traded : h.key = f.key /\ h.session = f.session /\ f.at < h.at /\ h.at < g.at

Latest(f, old) == \A g \in old : g.key = f.key /\ g.session = f.session => g.at <= f.at

(* The fills made so far and the session that they led to. *)
TradedOK(old, s) ==
    /\ \A f \in old : f \in Trade /\ f.signal < f.at /\ f.from = f.in /\ f.session <= s.id
    /\ \A f \in old : f.session = s.id => f.at <= s.quoted[f.key]
    /\ \A f \in old : f.session = s.id /\ Latest(f, old) => (f.side = "buy" <=> s.positions[f.key] # None)

(* The run, and the invariant. *)
PaperRun ==
    [on : BOOLEAN, worker : [DOMAIN Market -> {"idle", "asking"}], limit : Nat, paused : BOOLEAN, number : Nat]

PaperTypes ==
    /\ run \in PaperRun
    /\ clock \in Int
    /\ disk = [session |-> disk.session, rows |-> disk.rows]

PaperInv ==
    /\ PaperTypes
    /\ SessionOK(disk.session) /\ RowsOK(disk.rows, disk.session)
    /\ LedgerOK
    /\ run.on /\ Up => OwnIntents(ledger)
    /\ TradedOK(traded, disk.session)
    /\ FillsFollowSignals

LEMMA PaperInit == Init => PaperInv
<1> SUFFICES ASSUME Init PROVE PaperInv
  OBVIOUS
<1> DEFINE s == Session(0)
<1>1. disk = [session |-> s, rows |-> {}] /\ ledger = s /\ run = Stopped /\ clock = 0 /\ traded = {}
  BY DEF Init
<1>2. disk.session = s /\ disk.rows = {}
  BY <1>1
<1>3. SessionOK(s) /\ s.id = 0 /\ s.count = 0 /\ s.pending = NoIntents
  BY NothingTraded DEF Session
<1>4. s = [s EXCEPT !.pending = s.pending]
  BY DEF Session
<1> HIDE DEF s
<1>5. LedgerOK
  BY <1>1, <1>2, <1>3, <1>4 DEF LedgerOK
<1>6. RowsOK({}, s)
  BY <1>3 DEF RowsOK
<1>7. TradedOK({}, s) /\ FillsFollowSignals
  BY <1>1 DEF TradedOK, FillsFollowSignals
<1>8. PaperTypes /\ ~run.on
  BY <1>1, <1>2 DEF PaperTypes, Stopped, PaperRun
<1> QED BY <1>1, <1>2, <1>3, <1>5, <1>6, <1>7, <1>8 DEF PaperInv

(* The ledger in memory, while a process is up. *)
LEMMA InMemory ==
    ASSUME PaperInv, Up
    PROVE  /\ SessionOK(ledger) /\ ledger.id = disk.session.id
           /\ ledger.count = disk.session.count /\ ledger.fills = disk.session.fills
           /\ ledger.positions = disk.session.positions /\ ledger.quoted = disk.session.quoted
           /\ ledger.peak = disk.session.peak /\ ledger.drawdown = disk.session.drawdown
           /\ ledger.cash = disk.session.cash /\ ledger.realized = disk.session.realized
           /\ ledger.sold = disk.session.sold
           /\ ledger.pending \in {disk.session.pending, NoIntents}
           /\ run.on => OwnIntents(ledger)
<1> DEFINE s == disk.session
           p == ledger.pending
<1>1. ledger = [s EXCEPT !.pending = p] /\ p \in {s.pending, NoIntents} /\ SessionOK(s)
  BY DEF PaperInv, LedgerOK, Up
<1>2. s \in PaperSession(s.peak, s.drawdown)
  BY <1>1 DEF SessionOK
<1>3. NoIntents \in [Key -> PaperIntent \cup {None}]
  BY DEF NoIntents
<1>4. p \in [Key -> PaperIntent \cup {None}]
  BY <1>1, <1>2, <1>3 DEF PaperSession
<1> HIDE DEF s, p
<1>5. /\ ledger.id = s.id /\ ledger.count = s.count /\ ledger.fills = s.fills /\ ledger.positions = s.positions
      /\ ledger.quoted = s.quoted /\ ledger.peak = s.peak /\ ledger.drawdown = s.drawdown
      /\ ledger.cash = s.cash /\ ledger.realized = s.realized /\ ledger.sold = s.sold /\ ledger.pending = p
  BY <1>1, <1>2 DEF PaperSession
<1>6. ledger \in PaperSession(s.peak, s.drawdown)
  BY <1>1, <1>2, <1>4 DEF PaperSession
<1>7. SessionOK(ledger)
  BY <1>1, <1>5, <1>6, SameFills
<1>8. run.on => OwnIntents(ledger)
  BY DEF PaperInv
<1> QED BY <1>1, <1>5, <1>7, <1>8 DEF s

(* Dropping the intents. *)
LEMMA DroppedOK ==
    ASSUME PaperInv, Up
    PROVE  /\ SessionOK(Discarded) /\ Discarded.pending = NoIntents
           /\ Discarded = [disk.session EXCEPT !.pending = NoIntents]
           /\ Discarded.id = ledger.id /\ Discarded.count = ledger.count /\ Discarded.fills = ledger.fills
           /\ Discarded.positions = ledger.positions /\ Discarded.quoted = ledger.quoted
<1> DEFINE s == disk.session
<1>1. ledger = [s EXCEPT !.pending = ledger.pending] /\ SessionOK(s)
  BY DEF PaperInv, LedgerOK, Up
<1>2. SessionOK(ledger)
  BY InMemory
<1>3. ledger \in PaperSession(ledger.peak, ledger.drawdown) /\ s \in PaperSession(s.peak, s.drawdown)
  BY <1>1, <1>2 DEF SessionOK
<1> HIDE DEF s
<1>4. /\ Discarded.pending = NoIntents /\ Discarded = [s EXCEPT !.pending = NoIntents]
      /\ Discarded.id = ledger.id /\ Discarded.count = ledger.count /\ Discarded.fills = ledger.fills
      /\ Discarded.cash = ledger.cash /\ Discarded.realized = ledger.realized
      /\ Discarded.positions = ledger.positions /\ Discarded.quoted = ledger.quoted
      /\ Discarded.peak = ledger.peak /\ Discarded.drawdown = ledger.drawdown
  BY <1>1, <1>3 DEF Discarded, PaperSession
<1>5. NoIntents \in [Key -> PaperIntent \cup {None}]
  BY DEF NoIntents
<1>6. Discarded \in PaperSession(ledger.peak, ledger.drawdown)
  BY <1>3, <1>5 DEF Discarded, PaperSession
<1>7. SessionOK(Discarded)
  BY <1>2, <1>4, <1>6, SameFills
<1> QED BY <1>4, <1>7 DEF s

(* A save adds the fills that are new. *)
GoesOn(t) ==
    /\ SessionOK(t) /\ t.id = ledger.id /\ t.count >= ledger.count
    /\ \A i \in 1..ledger.count : t.fills[i] = ledger.fills[i]

Saved(t) ==
    SaveOf(t).session = t /\ RowsOK(SaveOf(t).rows, t) /\ SaveOf(t) = [session |-> t, rows |-> SaveOf(t).rows]

LEMMA SavedOK ==
    ASSUME PaperInv, Up, NEW t, GoesOn(t)
    PROVE  Saved(t)
<1> DEFINE n == ledger.count
           new == {t.fills[i] : i \in n + 1..t.count}
           kept == disk.rows
<1>0. /\ SessionOK(t) /\ t.id = ledger.id /\ t.count >= n
      /\ \A i \in 1..n : t.fills[i] = ledger.fills[i]
  BY DEF GoesOn
<1>1. SaveOf(t) = [session |-> t, rows |-> kept \cup new]
  BY <1>0 DEF SaveOf, NewFills
<1>2. /\ n \in Nat /\ t.count \in Nat /\ t.id \in Nat /\ t.fills \in Seq(PaperFill) /\ Len(t.fills) = t.count
      /\ \A i \in 1..t.count : t.fills[i].number = i /\ t.fills[i].session = t.id /\ t.fills[i] \in PaperFill
  <2>1. SessionOK(ledger)
    BY InMemory
  <2>2. /\ n \in Nat /\ t.count \in Nat /\ t.id \in Nat /\ t.fills \in Seq(PaperFill) /\ Len(t.fills) = t.count
        /\ \A i \in 1..t.count : t.fills[i].number = i /\ t.fills[i].session = t.id
    BY <1>0, <2>1 DEF SessionOK, PaperSession, FillsNumbered
  <2> QED BY <2>2
<1>3. /\ \A r \in kept : r.session \in Nat /\ r.number \in Nat /\ r.session <= t.id
      /\ {r \in kept : r.session = t.id} = {t.fills[i] : i \in 1..n}
  BY <1>0, InMemory DEF PaperInv, RowsOK
<1>4. {r \in new : r.session = t.id} = new
  BY <1>2
<1>5. {r \in kept \cup new : r.session = t.id} = {t.fills[i] : i \in 1..n} \cup new
  BY <1>3, <1>4
<1>6. {t.fills[i] : i \in 1..n} \cup new = {t.fills[i] : i \in 1..t.count}
  BY <1>0, <1>2
<1>7. \A r \in kept \cup new : r.session \in Nat /\ r.number \in Nat /\ r.session <= t.id
  <2>1. \A r \in new : \E i \in 1..t.count : r = t.fills[i]
    BY <1>0, <1>2
  <2> HIDE DEF new, kept
  <2>2. \A r \in new : r.session = t.id /\ r.number \in Nat
    BY <1>2, <2>1
  <2> QED BY <1>2, <1>3, <2>2
<1> HIDE DEF new, kept
<1> QED BY <1>1, <1>5, <1>6, <1>7 DEF RowsOK, Saved


-----------------------------------------------------------------------------
(* The steps that leave the fills alone *)

(* The same fills and quotes on disk, in either case of what waits. *)
SameBooks(s, t) ==
    /\ t.id = s.id /\ t.count = s.count /\ t.fills = s.fills /\ t.positions = s.positions /\ t.quoted = s.quoted

LEMMA SameTraded ==
    ASSUME NEW s, NEW t, NEW old, SameBooks(s, t), TradedOK(old, s)
    PROVE  TradedOK(old, t)
BY DEF SameBooks, TradedOK

LEMMA SameTurns ==
    ASSUME FillsFollowSignals, traded' = traded
    PROVE  FillsFollowSignals'
BY DEF FillsFollowSignals

(* DiscardIntents, at a stop, after a failed save or before a resumed run. *)
LEMMA DiscardKeeps ==
    ASSUME PaperInv, Up, DiscardIntents, traded' = traded, clock' = clock, run' \in PaperRun
    PROVE  PaperInv'
<1> DEFINE s == disk.session
<1>1. /\ SessionOK(Discarded) /\ Discarded.pending = NoIntents /\ Discarded = [s EXCEPT !.pending = NoIntents]
      /\ Discarded.id = ledger.id /\ Discarded.count = ledger.count /\ Discarded.fills = ledger.fills
      /\ Discarded.positions = ledger.positions /\ Discarded.quoted = ledger.quoted
  BY DroppedOK
<1>2. /\ ledger.id = s.id /\ ledger.count = s.count /\ ledger.fills = s.fills
      /\ ledger.positions = s.positions /\ ledger.quoted = s.quoted /\ ledger.count \in Nat
  BY InMemory DEF SessionOK, PaperSession
<1>3. SameBooks(s, Discarded)
  BY <1>1, <1>2 DEF SameBooks
<1>4. ledger' = Discarded /\ (disk' = disk \/ disk' = SaveOf(Discarded))
  <2>1. ledger.pending = NoIntents => ledger = Discarded
    BY <1>1 DEF PaperInv, LedgerOK, Up
  <2> QED BY <2>1 DEF DiscardIntents, CancelPending, Commit, Save
<1>5. Saved(Discarded)
  <2>1. GoesOn(Discarded)
    BY <1>1, <1>2 DEF GoesOn
  <2> QED BY <2>1, SavedOK
<1>6. /\ PaperTypes /\ SessionOK(s) /\ RowsOK(disk.rows, s) /\ TradedOK(traded, s) /\ FillsFollowSignals
  BY DEF PaperInv
<1>7. OwnIntents(ledger)'
  BY <1>1, <1>4 DEF OwnIntents, NoIntents
<1>8. CASE disk' = disk
  <2>1. LedgerOK'
    BY <1>1, <1>4, <1>8 DEF LedgerOK
  <2>2. PaperTypes'
    BY <1>6, <1>8 DEF PaperTypes
  <2>3. FillsFollowSignals'
    BY <1>6, SameTurns
  <2> QED BY <1>6, <1>8, <1>7, <2>1, <2>2, <2>3 DEF PaperInv, SessionOK, RowsOK, TradedOK
<1>9. CASE disk' = SaveOf(Discarded)
  <2>1. disk'.session = Discarded /\ disk'.rows = SaveOf(Discarded).rows
    BY <1>5, <1>9 DEF Saved
  <2>2. Discarded = [Discarded EXCEPT !.pending = Discarded.pending]
    <3>1. Discarded \in PaperSession(Discarded.peak, Discarded.drawdown)
      BY <1>1 DEF SessionOK
    <3> QED BY <3>1 DEF PaperSession
  <2>3. LedgerOK'
    BY <1>4, <2>1, <2>2 DEF LedgerOK
  <2>4. PaperTypes'
    BY <1>5, <1>6, <1>9 DEF PaperTypes, Saved
  <2>5. TradedOK(traded, Discarded)
    BY <1>3, <1>6, SameTraded
  <2>6. FillsFollowSignals'
    BY <1>6, SameTurns
  <2> QED BY <1>1, <1>5, <1>7, <2>1, <2>3, <2>4, <2>5, <2>6 DEF PaperInv, TradedOK, Latest, Saved
<1> QED BY <1>4, <1>8, <1>9

LEMMA RunningOK ==
    ASSUME run \in PaperRun, NEW limit \in Limit, NEW paused \in BOOLEAN
    PROVE  Running(limit, paused) \in PaperRun
<1>1. Stopped \in PaperRun
  BY DEF Stopped, PaperRun
<1>2. limit \in Nat /\ run.number + 1 \in Nat
  BY PaperAssumption DEF PaperRun
<1> QED BY <1>1, <1>2 DEF PaperRun, Running

(* start_paper *)
LEMMA StartKeeps ==
    ASSUME PaperInv, Start
    PROVE  PaperInv'
<1> DEFINE t == Session(ledger.id + 1)
           s == disk.session
<1>1. /\ Up /\ ledger' = t /\ disk' = SaveOf(t) /\ clock' = clock /\ traded' = traded
      /\ \E limit \in Limit, paused, begins \in BOOLEAN : run' = IF begins THEN Running(limit, paused) ELSE run
      /\ ~run.on
  BY DEF Start, Commit, Save
<1>2. ledger.id \in Nat /\ ledger.id = s.id /\ ledger.id + 1 \in Nat
  BY <1>1, InMemory DEF SessionOK, PaperSession
<1>3. SessionOK(t) /\ t.id = ledger.id + 1
  BY <1>2, NothingTraded
<1>4. t.pending = NoIntents /\ t.count = 0 /\ t = [t EXCEPT !.pending = t.pending]
  BY DEF Session
<1>5. SaveOf(t) = [session |-> t, rows |-> disk.rows \cup {t.fills[i] : i \in 1..0}]
  <2> HIDE DEF t
  <2>1. ledger.id # t.id
    BY <1>2, <1>3
  <2>2. NewFills(t) = {t.fills[i] : i \in 1..0}
    BY <1>4, <2>1 DEF NewFills
  <2> QED BY <2>2 DEF SaveOf
<1>6. \A r \in disk.rows : r.session \in Nat /\ r.number \in Nat /\ r.session <= s.id
  BY DEF PaperInv, RowsOK
<1> HIDE DEF t, s
<1>7. SaveOf(t) = [session |-> t, rows |-> disk.rows]
  <2>1. {t.fills[i] : i \in 1..0} = {}
    OBVIOUS
  <2> QED BY <1>5, <2>1
<1>8. disk'.session = t /\ disk'.rows = disk.rows
  BY <1>1, <1>7
<1>9. RowsOK(disk.rows, t)
  BY <1>2, <1>3, <1>4, <1>6 DEF RowsOK
<1>10. LedgerOK'
  BY <1>1, <1>4, <1>8 DEF LedgerOK
<1>11. TradedOK(traded, t)
  <2>1. \A f \in traded : f \in Trade /\ f.signal < f.at /\ f.from = f.in /\ f.session <= s.id
    BY DEF PaperInv, TradedOK, s
  <2>2. \A f \in traded : f.session <= t.id /\ f.session # t.id
    BY <1>2, <1>3, <2>1 DEF Trade
  <2> QED BY <2>1, <2>2 DEF TradedOK
<1>12. FillsFollowSignals'
  BY <1>1, SameTurns DEF PaperInv
<1>13. PaperTypes'
  <2>1. run \in PaperRun
    BY DEF PaperInv, PaperTypes
  <2>2. run' = run \/ \E limit \in Limit, paused \in BOOLEAN : run' = Running(limit, paused)
    BY <1>1
  <2>3. run' \in PaperRun
    BY <2>1, <2>2, RunningOK
  <2> QED BY <1>1, <1>7, <1>8, <2>3 DEF PaperInv, PaperTypes
<1>14. OwnIntents(ledger)'
  BY <1>1, <1>4 DEF OwnIntents, NoIntents
<1> QED BY <1>1, <1>3, <1>8, <1>9, <1>10, <1>11, <1>12, <1>13, <1>14 DEF PaperInv, TradedOK, Latest

(* resume_paper *)
LEMMA ResumeKeeps ==
    ASSUME PaperInv, Resume
    PROVE  PaperInv'
<1>1. Up /\ DiscardIntents /\ clock' = clock /\ traded' = traded
  BY DEF Resume, DiscardIntents
<1>2. run \in PaperRun
  BY DEF PaperInv, PaperTypes
<1>3. run' \in PaperRun
  BY <1>2, RunningOK DEF Resume
<1> QED BY <1>1, <1>3, DiscardKeeps

(* What touches neither the session nor the file of it. *)
LEMMA OthersKeep ==
    ASSUME PaperInv, disk' = disk, traded' = traded, clock' \in Int, LedgerOK',
           run' \in PaperRun,
           run'.on => run.on /\ run'.number = run.number /\ ledger' = ledger
    PROVE  PaperInv'
<1>1. FillsFollowSignals'
  BY SameTurns DEF PaperInv
<1>2. PaperTypes'
  BY DEF PaperInv, PaperTypes
<1>3. (run.on /\ Up)' => OwnIntents(ledger)'
  BY DEF PaperInv, OwnIntents, Up
<1> QED BY <1>1, <1>2, <1>3 DEF PaperInv, SessionOK, RowsOK, TradedOK


LEMMA StoppedOK ==
    ASSUME run \in PaperRun
    PROVE  [Stopped EXCEPT !.number = run.number] \in PaperRun /\ ~[Stopped EXCEPT !.number = run.number].on
<1>1. Stopped \in PaperRun /\ ~Stopped.on
  BY DEF Stopped, PaperRun
<1> QED BY <1>1 DEF PaperRun

LEMMA IdleOK ==
    ASSUME run \in PaperRun, NEW m
    PROVE  LET r == [run EXCEPT !.worker[m] = "idle"] IN
           r \in PaperRun /\ r.on = run.on /\ r.number = run.number /\ r.limit = run.limit /\ r.paused = run.paused
<1> DEFINE w == [run.worker EXCEPT ![m] = "idle"]
           r == [run EXCEPT !.worker[m] = "idle"]
<1>1. r = [run EXCEPT !.worker = w] /\ w \in [DOMAIN Market -> {"idle", "asking"}]
  BY DEF PaperRun
<1> HIDE DEF w
<1> QED BY <1>1 DEF PaperRun

-----------------------------------------------------------------------------
(* A worker's batch *)

(* The decisions of a worker, under the limits. *)
LEMMA WorkerBatch ==
    ASSUME NEW s, NEW m \in DOMAIN Market, NEW o \in [Market[m] -> Observation], clock \in Int
    PROVE  LET order == Listed[m]
               b == [i \in DOMAIN order |-> Decision(s, order[i], o[order[i]])]
           IN  LimitedTo(s, Limited(s, b), b, Len(b)) /\ b \in Seq(PaperDecision) /\ Distinct(b)
<1> DEFINE order == Listed[m]
           b == [i \in DOMAIN order |-> Decision(s, order[i], o[order[i]])]
           n == Len(order)
<1>1. /\ order \in Seq(Key) /\ DOMAIN order = 1..n
      /\ \A i \in 1..n : order[i] \in Market[m]
      /\ \A i, j \in 1..n : i # j => order[i] # order[j]
  BY ListedOnce
<1>2. n \in Nat /\ \A i \in 1..n : order[i] \in Key
  BY <1>1
<1> HIDE DEF order, n
<1>3. ASSUME NEW i \in 1..n PROVE b[i] \in PaperDecision /\ b[i].key = order[i]
  <2>1. order[i] \in Key /\ o[order[i]] \in Observation
    BY <1>1, <1>2
  <2> QED BY <1>1, <2>1, DecisionOK
<1>4. b = [i \in 1..n |-> b[i]]
  BY <1>1
<1> HIDE DEF b
<1>5. b \in Seq(PaperDecision) /\ Len(b) = n
  BY <1>2, <1>3, <1>4
<1>6. Distinct(b)
  BY <1>1, <1>3, <1>5 DEF Distinct
<1> QED BY <1>5, <1>6, LimitedOK DEF b, order

LEMMA ValuedOK ==
    ASSUME NEW s, SessionOK(s)
    PROVE  LET t == Valued(s) IN
           /\ SessionOK(t) /\ SameBooks(s, t) /\ t.pending = s.pending
           /\ t = [t EXCEPT !.pending = t.pending]
<1> DEFINE peak == Max({s.peak, Equity(s)})
           drawdown == Max({s.drawdown, (100 * (peak - Equity(s))) \div peak})
           t == Valued(s)
<1>1. s \in PaperSession(s.peak, s.drawdown)
  BY DEF SessionOK
<1>2. t = [s EXCEPT !.peak = peak, !.drawdown = drawdown]
  BY <1>1 DEF Valued, PaperSession
<1> HIDE DEF peak, drawdown, t
<1>3. t \in PaperSession(t.peak, t.drawdown) /\ t.id = s.id /\ t.cash = s.cash /\ t.count = s.count
      /\ t.fills = s.fills /\ t.realized = s.realized /\ t.positions = s.positions /\ t.quoted = s.quoted
      /\ t.pending = s.pending
  BY <1>1, <1>2 DEF PaperSession
<1>4. SessionOK(t)
  BY <1>3, SameFills
<1>5. t = [t EXCEPT !.pending = t.pending]
  BY <1>3 DEF PaperSession
<1> QED BY <1>3, <1>4, <1>5 DEF SameBooks, t

(* The fills of a batch as the history has them. *)
TradeOf(s, f) ==
    [key |-> f.key, side |-> f.side, at |-> f.at, session |-> f.session,
     signal |-> s.pending[f.key].signal, from |-> s.pending[f.key].run, in |-> run.number]

NewTrades(s, t) == {TradeOf(s, f) : f \in {t.fills[i] : i \in s.count + 1..t.count}}

(* Each fill of the batch closes or opens its instrument after everything that
   was filled of it before. *)
LEMMA BatchTrades ==
    ASSUME NEW s, NEW b, NEW t, BatchMade(s, t, b, Len(b)), SessionOK(s), OwnIntents(s), run \in PaperRun,
           NEW g \in NewTrades(s, t)
    PROVE  /\ g \in Trade /\ g.signal < g.at /\ g.from = g.in /\ g.session = s.id
           /\ g.at > s.quoted[g.key] /\ g.at = t.quoted[g.key]
           /\ g.side = "buy" => s.positions[g.key] = None /\ t.positions[g.key] # None
           /\ g.side = "sell" => s.positions[g.key] # None /\ t.positions[g.key] = None
<1>1. PICK i \in s.count + 1..t.count : g = TradeOf(s, t.fills[i])
  BY DEF NewTrades
<1> DEFINE f == t.fills[i]
<1>2. /\ SessionOK(t) /\ t.id = s.id /\ NewFill(s, t, f)
  BY DEF BatchMade
<1>3. s.count \in Nat /\ t.count \in Nat /\ t.fills \in Seq(PaperFill) /\ Len(t.fills) = t.count
  BY <1>2 DEF SessionOK, PaperSession, FillsNumbered
<1>4. i \in 1..t.count
  BY <1>3
<1>5. f \in PaperFill /\ f.session = t.id
  BY <1>2, <1>3, <1>4 DEF SessionOK, FillsNumbered
<1> HIDE DEF f
<1>6. s.pending[f.key] \in PaperIntent /\ s.pending[f.key].run = run.number
  <2>1. f.key \in Key /\ s.pending[f.key] # None
    BY <1>2 DEF NewFill
  <2> QED BY <2>1 DEF OwnIntents, SessionOK, PaperSession
<1>7. g = TradeOf(s, f)
  BY <1>1 DEF f
<1>8. /\ g.key = f.key /\ g.side = f.side /\ g.at = f.at /\ g.session = f.session
      /\ g.signal = s.pending[f.key].signal /\ g.from = s.pending[f.key].run /\ g.in = run.number
  BY <1>7 DEF TradeOf
<1>9. g \in Trade
  <2>1. run.number \in Int
    BY DEF PaperRun
  <2> QED BY <1>5, <1>6, <1>7, <2>1 DEF TradeOf, Trade, PaperFill, PaperIntent
<1> QED BY <1>2, <1>5, <1>6, <1>8, <1>9 DEF NewFill, PaperFill

(* A batch trades an instrument once. *)
LEMMA BatchTradesOnce ==
    ASSUME NEW s, NEW b, NEW t, BatchMade(s, t, b, Len(b)),
           NEW f \in NewTrades(s, t), NEW g \in NewTrades(s, t), f.key = g.key
    PROVE  f = g
<1>1. PICK i \in s.count + 1..t.count : f = TradeOf(s, t.fills[i])
  BY DEF NewTrades
<1>2. PICK j \in s.count + 1..t.count : g = TradeOf(s, t.fills[j])
  BY DEF NewTrades
<1>3. t.fills[i].key = t.fills[j].key
  BY <1>1, <1>2 DEF TradeOf
<1>4. i = j
  BY <1>3 DEF BatchMade
<1> QED BY <1>1, <1>2, <1>4


(* The history of the fills goes on with those of the batch. *)
LEMMA TradedGoesOn ==
    ASSUME NEW s, NEW b, NEW u, BatchMade(s, u, b, Len(b)), SessionOK(s), OwnIntents(s), run \in PaperRun,
           NEW old, TradedOK(old, s), NEW t, SameBooks(u, t)
    PROVE  TradedOK(old \cup NewTrades(s, u), t)
<1> DEFINE new == NewTrades(s, u)
<1>1. t.id = s.id /\ t.quoted = u.quoted /\ t.positions = u.positions /\ s.id \in Nat
  BY DEF SameBooks, BatchMade, SessionOK, PaperSession
<1>2. ASSUME NEW g \in new
      PROVE  /\ g \in Trade /\ g.signal < g.at /\ g.from = g.in /\ g.session = s.id
             /\ g.at > s.quoted[g.key] /\ g.at = u.quoted[g.key]
             /\ g.side = "buy" => s.positions[g.key] = None /\ u.positions[g.key] # None
             /\ g.side = "sell" => s.positions[g.key] # None /\ u.positions[g.key] = None
  BY BatchTrades
<1>3. s.quoted \in [Key -> Int] /\ u.quoted \in [Key -> Int] /\ \A k \in Key : u.quoted[k] >= s.quoted[k]
  BY DEF BatchMade, SessionOK, PaperSession
<1>4. \A f \in old : f \in Trade /\ f.signal < f.at /\ f.from = f.in /\ f.session <= s.id
  BY DEF TradedOK
<1>5. \A f \in old : f.session = s.id => f.at <= s.quoted[f.key]
  BY DEF TradedOK
<1>6. \A f \in old \cup new : f \in Trade /\ f.signal < f.at /\ f.from = f.in /\ f.session <= t.id
  <2> HIDE DEF new
  <2> QED BY <1>1, <1>2, <1>4
<1>7. ASSUME NEW f \in old \cup new, f.session = t.id PROVE f.at <= t.quoted[f.key]
  <2>1. f \in Trade /\ f.key \in Key /\ f.at \in Int
    BY <1>6 DEF Trade
  <2>2. CASE f \in new
    BY <1>1, <1>2, <1>3, <2>1, <2>2
  <2>3. CASE f \in old
    <3>1. f.at <= s.quoted[f.key]
      BY <1>1, <1>5, <1>7, <2>3
    <3> QED BY <1>1, <1>3, <2>1, <3>1
  <2> HIDE DEF new
  <2> QED BY <2>2, <2>3
<1>8. ASSUME NEW f \in old \cup new, f.session = t.id, Latest(f, old \cup new)
      PROVE  f.side = "buy" <=> t.positions[f.key] # None
  <2>1. f \in Trade /\ f.key \in Key /\ f.at \in Int /\ f.side \in {"buy", "sell"}
    BY <1>6 DEF Trade
  <2>2. CASE f \in new
    BY <1>1, <1>2, <2>1, <2>2
  <2>3. CASE f \in old
    <3>1. Latest(f, old)
      BY <1>8 DEF Latest
    <3>2. f.side = "buy" <=> s.positions[f.key] # None
      BY <1>1, <1>8, <2>3, <3>1 DEF TradedOK
    <3>3. \A g \in new : g.key # f.key
      <4>1. SUFFICES ASSUME NEW g \in new, g.key = f.key PROVE FALSE
        OBVIOUS
      <4>2. g \in old \cup new
        OBVIOUS
      <4>3. g \in Trade /\ g.session = s.id /\ g.at > s.quoted[f.key] /\ g.at \in Int
        BY <1>2, <4>1 DEF Trade
      <4>4. g.at <= f.at
        BY <1>1, <1>8, <4>1, <4>2, <4>3 DEF Latest
      <4>5. f.at <= s.quoted[f.key] /\ s.quoted[f.key] \in Int
        BY <1>1, <1>3, <1>5, <1>8, <2>1, <2>3
      <4> QED BY <2>1, <4>3, <4>4, <4>5
    <3>4. \A n \in s.count + 1..u.count : u.fills[n].key # f.key
      <4>1. SUFFICES ASSUME NEW n \in s.count + 1..u.count, u.fills[n].key = f.key PROVE FALSE
        OBVIOUS
      <4>2. TradeOf(s, u.fills[n]) \in new /\ TradeOf(s, u.fills[n]).key = f.key
        BY <4>1 DEF TradeOf, NewTrades
      <4> QED BY <3>3, <4>2
    <3>5. u.positions[f.key] = None <=> s.positions[f.key] = None
      BY <2>1, <3>4 DEF BatchMade
    <3> QED BY <1>1, <3>2, <3>5
  <2> HIDE DEF new
  <2> QED BY <2>2, <2>3
<1> HIDE DEF new
<1>9. TradedOK(old \cup new, t)
  BY <1>6, <1>7, <1>8 DEF TradedOK
<1> QED BY <1>9 DEF new

(* Buys and sales still take turns. *)
LEMMA TurnsGoOn ==
    ASSUME FillsFollowSignals, NEW s, TradedOK(traded, s), NEW new, traded' = traded \cup new, s.quoted \in [Key -> Int],
           \A g \in new : /\ g \in Trade /\ g.signal < g.at /\ g.from = g.in /\ g.session = s.id
                          /\ g.at > s.quoted[g.key]
                          /\ g.side = "buy" => s.positions[g.key] = None
                          /\ g.side = "sell" => s.positions[g.key] # None,
           \A f, g \in new : f.key = g.key => f = g
    PROVE  FillsFollowSignals'
<1>1. \A f \in traded' : f \in Trade /\ f.signal < f.at /\ f.from = f.in
  BY DEF TradedOK
<1>2. \A f \in traded' : f.at \in Int /\ f.key \in Key /\ f.side \in {"buy", "sell"}
  BY <1>1 DEF Trade
<1>3. ASSUME NEW f \in traded, NEW g \in new, g.key = f.key, g.session = f.session PROVE f.at < g.at
  <2>1. g.session = s.id /\ g.at > s.quoted[g.key] /\ f \in traded' /\ g \in traded'
    OBVIOUS
  <2>2. f.at <= s.quoted[f.key]
    BY <1>3, <2>1 DEF TradedOK
  <2>3. f.at \in Int /\ g.at \in Int /\ s.quoted[f.key] \in Int
    BY <1>2, <2>1
  <2> QED BY <1>3, <2>1, <2>2, <2>3
<1>4. ASSUME NEW f \in traded', NEW g \in traded', g.key = f.key, g.session = f.session, g # f
      PROVE  f.at # g.at /\ (f.at < g.at => InTurn(g, f)')
  <2>1. CASE f \in traded /\ g \in traded
    <3>1. f.at # g.at /\ (f.at < g.at => InTurn(g, f))
      BY <1>4, <2>1 DEF FillsFollowSignals, InTurn
    <3>2. \A h \in traded : h \in traded'
      OBVIOUS
    <3> QED BY <3>1, <3>2 DEF InTurn
  <2>2. CASE f \in new /\ g \in new
    BY <1>4, <2>2
  <2>3. CASE f \in new /\ g \in traded
    <3>1. g.at < f.at
      BY <1>3, <1>4, <2>3
    <3>2. f.at # g.at /\ ~(f.at < g.at)
      BY <1>2, <3>1
    <3> QED BY <3>2
  <2>4. CASE f \in traded /\ g \in new
    <3>1. f.at < g.at /\ f.at # g.at
      BY <1>2, <1>3, <1>4, <2>4
    <3>2. CASE f.side = g.side
      <4>1. ~Latest(f, traded)
        <5>1. SUFFICES ASSUME Latest(f, traded) PROVE FALSE
          OBVIOUS
        <5>2. f.session = s.id
          BY <1>4, <2>4
        <5>3. f.side = "buy" <=> s.positions[f.key] # None
          BY <2>4, <5>1, <5>2 DEF TradedOK
        <5> QED BY <1>2, <1>4, <2>4, <3>2, <5>3
      <4>2. PICK h \in traded : h.key = f.key /\ h.session = f.session /\ ~(h.at <= f.at)
        BY <4>1 DEF Latest
      <4>3. h \in traded'
        OBVIOUS
      <4>4. h.at < g.at
        BY <1>3, <1>4, <2>4, <4>2
      <4>5. f.at < h.at
        BY <1>2, <4>2, <4>3
      <4> QED BY <3>1, <4>2, <4>3, <4>4, <4>5 DEF InTurn
    <3>3. CASE f.side # g.side
      BY <3>1, <3>3 DEF InTurn
    <3> QED BY <3>2, <3>3
  <2> QED BY <2>1, <2>2, <2>3, <2>4
<1> QED BY <1>1, <1>4 DEF FillsFollowSignals, InTurn

(* What waits after the batch was decided by its run. *)
LEMMA IntentsAfterBatch ==
    ASSUME NEW s, NEW b \in Seq(PaperDecision), NEW t, BatchMade(s, t, b, Len(b)), OwnIntents(s)
    PROVE  OwnIntents(t)
<1> SUFFICES ASSUME NEW k \in Key, t.pending[k] # None PROVE t.pending[k].run = run.number
  BY DEF OwnIntents
<1>1. CASE \A j \in 1..Len(b) : b[j].key # k
  <2>1. SameAt(s, t, k)
    BY <1>1 DEF BatchMade
  <2> QED BY <2>1 DEF SameAt, OwnIntents
<1>2. CASE \E j \in 1..Len(b) : b[j].key = k
  <2>1. PICK j \in 1..Len(b) : b[j].key = k
    BY <1>2
  <2>3. \A i \in 1..Len(b) : Waits(s, t, b[i].key, b[i])
    BY DEF BatchMade
  <2>2. Waits(s, t, k, b[j])
    BY <2>1, <2>3
  <2> QED BY <2>2 DEF Waits, OwnIntents
<1> QED BY <1>1, <1>2

(* An arriving batch, consumed and saved. *)
Arrives(m) ==
    \E o \in [Market[m] -> Observation] :
        LET order == Listed[m]
            batch == Limited(ledger, [i \in DOMAIN order |-> Decision(ledger, order[i], o[order[i]])])
            s == Valued(ConsumedAll(ledger, batch))
        IN  /\ Commit(s) /\ traded' = traded \cup NewTrades(ledger, s)
            /\ run' = [run EXCEPT !.worker[m] = "idle"]

LEMMA WorkerArrives ==
    ASSUME NEW m, WorkerConsumes(m)
    PROVE  /\ Up /\ run.on /\ clock' = clock
           /\ Arrives(m) \/ (DiscardIntents /\ run' = [Stopped EXCEPT !.number = run.number] /\ traded' = traded)
BY DEF WorkerConsumes, Arrives, NewTrades, TradeOf

(* What a batch is consumed to. *)
Arrived(b, u) ==
    /\ b \in Seq(PaperDecision) /\ LimitedTo(ledger, b, b, Len(b)) /\ BatchMade(ledger, u, b, Len(b))
    /\ ledger' = Valued(u) /\ disk' = SaveOf(Valued(u)) /\ traded' = traded \cup NewTrades(ledger, u)

LEMMA ArrivedSomething ==
    ASSUME PaperInv, Up, NEW m \in DOMAIN Market, Arrives(m)
    PROVE  /\ run' = [run EXCEPT !.worker[m] = "idle"]
           /\ \E b, u : Arrived(b, u)
<1>1. PICK o \in [Market[m] -> Observation] :
        LET order == Listed[m]
            batch == Limited(ledger, [i \in DOMAIN order |-> Decision(ledger, order[i], o[order[i]])])
            s == Valued(ConsumedAll(ledger, batch))
        IN  /\ Commit(s) /\ traded' = traded \cup NewTrades(ledger, s)
            /\ run' = [run EXCEPT !.worker[m] = "idle"]
  BY DEF Arrives
<1> DEFINE order == Listed[m]
           c == [i \in DOMAIN order |-> Decision(ledger, order[i], o[order[i]])]
           b == Limited(ledger, c)
           u == ConsumedAll(ledger, b)
           t == Valued(u)
<1>2. /\ ledger' = t /\ disk' = SaveOf(t) /\ traded' = traded \cup NewTrades(ledger, t)
      /\ run' = [run EXCEPT !.worker[m] = "idle"]
  BY <1>1 DEF Commit, Save
<1>3. clock \in Int /\ run.number \in Int /\ SessionOK(ledger)
  BY InMemory DEF PaperInv, PaperTypes, PaperRun
<1>4. LimitedTo(ledger, b, c, Len(c)) /\ c \in Seq(PaperDecision) /\ Distinct(c)
  BY <1>3, WorkerBatch
<1> HIDE DEF c
<1>5. /\ b \in Seq(PaperDecision) /\ Len(b) = Len(c) /\ \A j \in 1..Len(b) : b[j].key = c[j].key
      /\ LimitedTo(ledger, b, b, Len(b)) /\ Distinct(b)
  BY <1>4 DEF LimitedTo, Distinct
<1> HIDE DEF b
<1>6. BatchMade(ledger, u, b, Len(b))
  BY <1>3, <1>5, ConsumedAllOK
<1> HIDE DEF u
<1>7. SessionOK(u)
  BY <1>6 DEF BatchMade
<1>8. NewTrades(ledger, t) = NewTrades(ledger, u)
  BY <1>7, ValuedOK DEF NewTrades, SameBooks
<1>9. Arrived(b, u)
  BY <1>2, <1>5, <1>6, <1>8 DEF Arrived
<1> QED BY <1>2, <1>9

(* A worker's batch consumed, valued and saved, or lost. *)
LEMMA ArriveKeeps ==
    ASSUME PaperInv, Up, run.on, clock' = clock, NEW m \in DOMAIN Market, Arrives(m)
    PROVE  PaperInv'
<1>1. PICK b, u : Arrived(b, u)
  BY ArrivedSomething
<1> DEFINE s == ledger
           t == Valued(u)
           new == NewTrades(s, u)
<1>2. run' = [run EXCEPT !.worker[m] = "idle"] /\ run \in PaperRun
  BY ArrivedSomething DEF PaperInv, PaperTypes
<1>3. /\ b \in Seq(PaperDecision) /\ BatchMade(s, u, b, Len(b)) /\ SessionOK(u)
      /\ ledger' = t /\ disk' = SaveOf(t) /\ traded' = traded \cup new
  BY <1>1 DEF Arrived, BatchMade
<1>4. SessionOK(t) /\ SameBooks(u, t) /\ t.pending = u.pending /\ t = [t EXCEPT !.pending = t.pending]
  BY <1>3, ValuedOK
<1>5. SessionOK(s) /\ OwnIntents(s) /\ SameBooks(disk.session, s)
  BY InMemory DEF SameBooks
<1> HIDE DEF t, new, s
<1>6. GoesOn(t)
  BY <1>3, <1>4 DEF GoesOn, BatchMade, SameBooks, s
<1>7. Saved(t)
  BY <1>6, SavedOK
<1>8. disk'.session = t /\ disk'.rows = SaveOf(t).rows /\ RowsOK(disk'.rows, t) /\ disk' = [session |-> t, rows |-> disk'.rows]
  BY <1>3, <1>7 DEF Saved
<1>9. LedgerOK'
  BY <1>3, <1>4, <1>8 DEF LedgerOK
<1>10. run' \in PaperRun /\ run'.number = run.number
  BY <1>2, IdleOK
<1>11. PaperTypes'
  BY <1>8, <1>10 DEF PaperTypes, PaperInv
<1>12. OwnIntents(ledger)'
  <2>1. OwnIntents(u)
    BY <1>3, <1>5, IntentsAfterBatch
  <2> QED BY <1>3, <1>4, <1>10, <2>1 DEF OwnIntents
<1>13. TradedOK(traded, s)
  BY <1>5, SameTraded DEF PaperInv
<1>14. TradedOK(traded \cup new, t)
  BY <1>2, <1>3, <1>4, <1>5, <1>13, TradedGoesOn DEF new
<1>15. FillsFollowSignals'
  <2>1. \A g \in new : /\ g \in Trade /\ g.signal < g.at /\ g.from = g.in /\ g.session = s.id
                       /\ g.at > s.quoted[g.key]
                       /\ g.side = "buy" => s.positions[g.key] = None
                       /\ g.side = "sell" => s.positions[g.key] # None
    BY <1>2, <1>3, <1>5, BatchTrades DEF new
  <2>2. \A f, g \in new : f.key = g.key => f = g
    BY <1>3, BatchTradesOnce DEF new
  <2>3. s.quoted \in [Key -> Int]
    BY <1>5 DEF SessionOK, PaperSession
  <2>4. FillsFollowSignals
    BY DEF PaperInv
  <2> QED BY <1>3, <1>13, <2>1, <2>2, <2>3, <2>4, TurnsGoOn
<1> QED BY <1>3, <1>4, <1>8, <1>9, <1>11, <1>12, <1>14, <1>15 DEF PaperInv, TradedOK, Latest


(* Every step keeps the invariant. *)
LEMMA PaperStep == ASSUME PaperInv, [Next]_vars PROVE PaperInv'
<1>1. run \in PaperRun /\ clock \in Int /\ LedgerOK
  BY DEF PaperInv, PaperTypes
<1>2. CASE Start
  BY <1>2, StartKeeps
<1>3. CASE Resume
  BY <1>3, ResumeKeeps
<1>4. CASE Cycle
  <2>1. LedgerOK'
    BY <1>1, <1>4 DEF Cycle, LedgerOK
  <2>2. run' \in PaperRun /\ run'.on = run.on /\ run'.number = run.number
    BY <1>1, <1>4 DEF Cycle, PaperRun
  <2> QED BY <1>1, <1>4, <2>1, <2>2, OthersKeep DEF Cycle
<1>5. CASE Stop
  <2>1. run' \in PaperRun /\ ~run'.on
    BY <1>1, <1>5, StoppedOK DEF Stop
  <2> QED BY <1>5, <2>1, DiscardKeeps DEF Stop
<1>6. CASE Crash
  <2>1. run' \in PaperRun /\ ~run'.on
    BY <1>1, <1>6, StoppedOK DEF Crash
  <2>2. LedgerOK'
    BY <1>6 DEF Crash, LedgerOK
  <2> QED BY <1>1, <1>6, <2>1, <2>2, OthersKeep DEF Crash
<1>7. CASE Reopen
  <2>1. LedgerOK'
    <3>1. ledger' = disk.session /\ disk' = disk
      BY <1>7 DEF Reopen
    <3>2. disk.session = [disk.session EXCEPT !.pending = disk.session.pending]
      BY DEF PaperInv, SessionOK, PaperSession
    <3> QED BY <3>1, <3>2 DEF LedgerOK
  <2>2. run' \in PaperRun /\ ~run'.on
    BY <1>1, <1>7, StoppedOK DEF Reopen
  <2> QED BY <1>1, <1>7, <2>1, <2>2, OthersKeep DEF Reopen
<1>8. CASE Tick
  <2>1. LedgerOK'
    BY <1>1, <1>8 DEF Tick, LedgerOK
  <2>2. clock' \in Int
    BY <1>1, <1>8 DEF Tick
  <2> QED BY <1>1, <1>8, <2>1, <2>2, OthersKeep DEF Tick
<1>9. ASSUME NEW m \in DOMAIN Market, WorkerConsumes(m) PROVE PaperInv'
  <2>1. /\ Up /\ run.on /\ clock' = clock
        /\ Arrives(m) \/ (DiscardIntents /\ run' = [Stopped EXCEPT !.number = run.number] /\ traded' = traded)
    BY <1>9, WorkerArrives
  <2>2. CASE Arrives(m)
    BY <2>1, <2>2, ArriveKeeps
  <2>3. CASE DiscardIntents /\ run' = [Stopped EXCEPT !.number = run.number] /\ traded' = traded
    <3>1. run' \in PaperRun /\ ~run'.on
      BY <1>1, <2>3, StoppedOK
    <3> QED BY <2>1, <2>3, <3>1, DiscardKeeps
  <2> QED BY <2>1, <2>2, <2>3
<1>10. ASSUME NEW m \in DOMAIN Market, WorkerFails(m) PROVE PaperInv'
  <2>1. run' \in PaperRun /\ run'.on = run.on /\ run'.number = run.number
    BY <1>1, <1>10, IdleOK DEF WorkerFails
  <2>2. LedgerOK'
    BY <1>1, <1>10 DEF WorkerFails, LedgerOK
  <2> QED BY <1>1, <1>10, <2>1, <2>2, OthersKeep DEF WorkerFails
<1>11. CASE UNCHANGED vars
  <2>1. LedgerOK'
    BY <1>1, <1>11 DEF vars, LedgerOK
  <2> QED BY <1>1, <1>11, <2>1, OthersKeep DEF vars
<1> QED BY <1>2, <1>3, <1>4, <1>5, <1>6, <1>7, <1>8, <1>9, <1>10, <1>11 DEF Next

-----------------------------------------------------------------------------
(* The journal *)

(* The journal of a session that was saved whole. *)
LEMMA JournalHolds == PaperInv => JournalComplete
<1> SUFFICES ASSUME PaperInv PROVE JournalComplete
  OBVIOUS
<1> DEFINE s == disk.session
           kept == {r \in disk.rows : r.session = s.id}
           row(n) == CHOOSE r \in kept : r.number = n
           n == s.count
           balance == CHOOSE f : f = [i \in 0..n |-> IF i = 0 THEN InitialCash ELSE f[i - 1] + Flow(row(i))]
           gain == CHOOSE f : f = [i \in 0..n |-> IF i = 0 THEN 0 ELSE f[i - 1] + row(i).pnl]
<1>1. /\ n \in Nat /\ s.fills \in Seq(PaperFill) /\ Len(s.fills) = n
      /\ \A i \in 1..n : s.fills[i].number = i
  BY DEF PaperInv, SessionOK, PaperSession, FillsNumbered
<1>2. kept = {s.fills[i] : i \in 1..n}
  BY DEF PaperInv, RowsOK
<1>3. \A i \in 1..n : row(i) = s.fills[i]
  <2>1. SUFFICES ASSUME NEW i \in 1..n PROVE row(i) = s.fills[i]
    OBVIOUS
  <2>2. s.fills[i] \in kept /\ s.fills[i].number = i
    BY <1>1, <1>2
  <2>3. \A r \in kept : r.number = i => r = s.fills[i]
    BY <1>1, <1>2
  <2> HIDE DEF kept
  <2> QED BY <2>2, <2>3
<1>4. {r.number : r \in kept} = 1..n
  BY <1>1, <1>2
<1>5. Cardinality(kept) = n
  <2> DEFINE f == [i \in 1..n |-> s.fills[i]]
  <2>1. f \in Bijection(1..n, kept)
    <3>1. f \in [1..n -> kept]
      BY <1>2
    <3>2. \A i, j \in 1..n : f[i] = f[j] => i = j
      BY <1>1
    <3>3. \A r \in kept : \E i \in 1..n : f[i] = r
      BY <1>2
    <3> HIDE DEF f, kept
    <3> QED BY <3>1, <3>2, <3>3 DEF Bijection, Injection, Surjection, IsInjective
  <2>2. IsFiniteSet(1..n) /\ Cardinality(1..n) = n
    BY <1>1, FS_Interval
  <2> HIDE DEF f, kept
  <2>3. ExistsBijection(1..n, kept)
    BY <2>1 DEF ExistsBijection
  <2> QED BY <2>2, <2>3, FS_Bijection
<1>6. PICK b, g : Balances(s, b, g)
  BY DEF PaperInv, SessionOK
<1> HIDE DEF row, kept
<1>7. /\ b \in [0..n -> Nat] /\ b[0] = InitialCash /\ \A i \in 1..n : b[i] = b[i - 1] + Flow(row(i))
      /\ g \in [0..n -> Int] /\ g[0] = 0 /\ \A i \in 1..n : g[i] = g[i - 1] + row(i).pnl
      /\ s.cash = b[n] /\ s.realized = g[n]
  BY <1>3, <1>6 DEF Balances
<1>8. b = [i \in 0..n |-> IF i = 0 THEN InitialCash ELSE b[i - 1] + Flow(row(i))]
  <2>1. \A i \in 0..n : b[i] = IF i = 0 THEN InitialCash ELSE b[i - 1] + Flow(row(i))
    BY <1>1, <1>7
  <2> QED BY <1>7, <2>1
<1>9. g = [i \in 0..n |-> IF i = 0 THEN 0 ELSE g[i - 1] + row(i).pnl]
  <2>1. \A i \in 0..n : g[i] = IF i = 0 THEN 0 ELSE g[i - 1] + row(i).pnl
    BY <1>1, <1>7
  <2> QED BY <1>7, <2>1
<1>10. balance = [i \in 0..n |-> IF i = 0 THEN InitialCash ELSE balance[i - 1] + Flow(row(i))]
  BY <1>8
<1>11. gain = [i \in 0..n |-> IF i = 0 THEN 0 ELSE gain[i - 1] + row(i).pnl]
  BY <1>9
<1> HIDE DEF balance, gain, n
<1>12. /\ balance[0] = InitialCash /\ \A i \in 1..n : balance[i] = balance[i - 1] + Flow(row(i))
       /\ gain[0] = 0 /\ \A i \in 1..n : gain[i] = gain[i - 1] + row(i).pnl
  BY <1>1, <1>10, <1>11
<1> DEFINE Bad == {i \in 0..n : balance[i] # b[i] \/ gain[i] # g[i]}
<1>13. Bad = {}
  <2>1. SUFFICES ASSUME Bad # {} PROVE FALSE
    OBVIOUS
  <2>2. Bad \subseteq Nat
    OBVIOUS
  <2>3. PICK m \in Bad : \A l \in Bad : m <= l
    <3> HIDE DEF Bad
    <3> QED BY <2>1, <2>2, LeastNat
  <2>4. m # 0
    BY <1>7, <1>12
  <2>5. m - 1 \in 0..n /\ ~(m <= m - 1) /\ m \in 1..n
    BY <1>1, <2>4
  <2>6. balance[m - 1] = b[m - 1] /\ gain[m - 1] = g[m - 1]
    BY <2>3, <2>5
  <2> QED BY <1>7, <1>12, <2>5, <2>6
<1>14. \A i \in 0..n : balance[i] = b[i] /\ gain[i] = g[i] /\ b[i] \in Nat
  BY <1>7, <1>13
<1>15. n \in 0..n
  BY <1>1
<1>16. \A i \in 0..n : balance[i] >= 0
  BY <1>14
<1>17. s.cash = balance[n] /\ s.realized = gain[n]
  BY <1>7, <1>14, <1>15
<1> HIDE DEF s
<1> QED BY <1>4, <1>5, <1>16, <1>17 DEF JournalComplete, balance, gain, row, kept, n, s

-----------------------------------------------------------------------------
(* The limits *)

(* What newly occupies an instrument is an entry that the limits let through. *)
LEMMA NewIsEntered ==
    ASSUME NEW s, SessionOK(s), NEW b \in Seq(PaperDecision), NEW u, BatchMade(s, u, b, Len(b)),
           NEW k \in Occupied(u) \ Occupied(s)
    PROVE  \E j \in 1..Len(b) : Wants(b[j]) /\ b[j].key = k
<1>1. k \in Key /\ s.positions[k] = None /\ (s.pending[k] = None \/ s.pending[k].side # "buy")
  BY DEF Occupied, Held, Buying
<1>2. u.positions[k] # None \/ (u.pending[k] # None /\ u.pending[k].side = "buy")
  BY DEF Occupied, Held, Buying
<1>3. u.positions[k] = None
  <2>1. SUFFICES ASSUME u.positions[k] # None PROVE FALSE
    OBVIOUS
  <2>2. PICK n \in s.count + 1..u.count : u.fills[n].key = k
    BY <1>1, <2>1 DEF BatchMade
  <2>3. NewFill(s, u, u.fills[n])
    BY DEF BatchMade
  <2> QED BY <1>1, <2>1, <2>2, <2>3 DEF NewFill
<1>4. CASE \A j \in 1..Len(b) : b[j].key # k
  BY <1>1, <1>2, <1>3, <1>4 DEF BatchMade, SameAt
<1>5. CASE \E j \in 1..Len(b) : b[j].key = k
  <2>1. PICK j \in 1..Len(b) : b[j].key = k
    BY <1>5
  <2>2. Waits(s, u, k, b[j])
    BY <2>1 DEF BatchMade
  <2>3. Wants(b[j])
    BY <1>1, <1>2, <1>3, <2>2 DEF Waits
  <2> QED BY <2>1, <2>3
<1> QED BY <1>4, <1>5


(* The instruments that the entries of a batch ask for. *)
AllEntered(b) == {b[j].key : j \in {l \in 1..Len(b) : Wants(b[l])}}

(* The last entry that was let through counts everything but itself. *)
LEMMA LastEntryCounts ==
    ASSUME NEW s, NEW b \in Seq(PaperDecision), LimitedTo(s, b, b, Len(b)), AllEntered(b) # {}, run \in PaperRun
    PROVE  /\ ~run.paused /\ IsFiniteSet(Occupied(s) \cup AllEntered(b))
           /\ Cardinality(Occupied(s) \cup AllEntered(b)) <= run.limit
<1> DEFINE n == Len(b)
           J == {l \in 1..n : Wants(b[l])}
           all == Occupied(s) \cup AllEntered(b)
           T == {n - l : l \in J}
<1>1. n \in Nat /\ \A l \in 1..n : b[l] \in PaperDecision /\ b[l].key \in Key
  BY DEF PaperDecision
<1>2. PICK j \in J : \A l \in J : l <= j
  <2>1. T \subseteq Nat /\ T # {}
    BY <1>1 DEF AllEntered
  <2> HIDE DEF T
  <2>2. PICK x \in T : \A y \in T : x <= y
    BY <2>1, LeastNat
  <2>3. PICK j \in J : x = n - j
    BY <2>2 DEF T
  <2>4. ASSUME NEW l \in J PROVE l <= j
    <3>1. x <= n - l
      BY <2>2 DEF T
    <3> QED BY <1>1, <2>3, <3>1
  <2> QED BY <2>4
<1> DEFINE k == b[j].key
<1>3. ~run.paused /\ Allowed(s, Entered(b, j), k)
  BY <1>2 DEF LimitedTo
<1>4. AllEntered(b) = Entered(b, j) \cup {k}
  <2>1. J = {l \in 1..j - 1 : Wants(b[l])} \cup {j}
    BY <1>1, <1>2
  <2> QED BY <2>1 DEF AllEntered, Entered
<1>5. all = Reserved(s, Entered(b, j), k) \cup {k}
  BY <1>4 DEF Reserved
<1>6. IsFiniteSet(Reserved(s, Entered(b, j), k))
  <2>1. Reserved(s, Entered(b, j), k) \subseteq Key
    BY <1>1 DEF Reserved, Entered, Occupied, Held, Buying
  <2> QED BY <2>1, KeysAreFinite, FS_Subset
<1>7. Cardinality(Reserved(s, Entered(b, j), k)) < run.limit
  BY <1>3 DEF Allowed
<1>8. k \notin Reserved(s, Entered(b, j), k)
  BY DEF Reserved
<1> HIDE DEF all, k
<1>9. /\ IsFiniteSet(all) /\ Cardinality(Reserved(s, Entered(b, j), k)) \in Nat
      /\ Cardinality(all) = Cardinality(Reserved(s, Entered(b, j), k)) + 1
  BY <1>5, <1>6, <1>8, FS_AddElement, FS_CardinalityType
<1>10. Cardinality(all) <= run.limit
  <2>1. run.limit \in Nat
    BY DEF PaperRun
  <2> QED BY <1>7, <1>9, <2>1
<1> QED BY <1>3, <1>9, <1>10 DEF all

(* No two entries of the family, nor one beside a holding. *)
LEMMA OneOfFamily ==
    ASSUME NEW s, NEW b \in Seq(PaperDecision), LimitedTo(s, b, b, Len(b)),
           NEW k \in AllEntered(b) \cap Family, NEW x \in (Occupied(s) \cup AllEntered(b)) \cap Family
    PROVE  x = k
<1>1. SUFFICES ASSUME x # k PROVE FALSE
  OBVIOUS
<1>2. PICK j \in 1..Len(b) : Wants(b[j]) /\ b[j].key = k
  BY DEF AllEntered
<1>3. ASSUME NEW i \in 1..Len(b), Wants(b[i]), b[i].key \in Family
      PROVE  Reserved(s, Entered(b, i), b[i].key) \cap Family = {}
  BY <1>3 DEF LimitedTo, Allowed
<1>4. CASE x \in Occupied(s)
  <2>1. x \in Reserved(s, Entered(b, j), k)
    BY <1>1, <1>4 DEF Reserved
  <2> QED BY <1>2, <1>3, <2>1
<1>5. CASE x \in AllEntered(b)
  <2>1. PICK i \in 1..Len(b) : Wants(b[i]) /\ b[i].key = x
    BY <1>5 DEF AllEntered
  <2>2. Len(b) \in Nat /\ i # j
    BY <1>1, <1>2, <2>1
  <2>3. CASE i < j
    <3>1. i \in 1..j - 1
      BY <2>2, <2>3
    <3>2. x \in Reserved(s, Entered(b, j), k)
      BY <1>1, <2>1, <3>1 DEF Reserved, Entered
    <3> QED BY <1>2, <1>3, <3>2
  <2>4. CASE j < i
    <3>1. j \in 1..i - 1
      BY <2>2, <2>4
    <3>2. k \in Reserved(s, Entered(b, i), x)
      BY <1>1, <1>2, <3>1 DEF Reserved, Entered
    <3> QED BY <1>3, <2>1, <3>2
  <2> QED BY <2>2, <2>3, <2>4
<1> QED BY <1>4, <1>5

WithinLimits(k) ==
    /\ Cardinality(Occupied(ledger')) <= run.limit
    /\ k \in Family => Occupied(ledger') \cap Family = {k}
    /\ ~run.paused

LEMMA ArriveWithin ==
    ASSUME PaperInv, Up, NEW m \in DOMAIN Market, Arrives(m), NEW k \in Occupied(ledger') \ Occupied(ledger)
    PROVE  WithinLimits(k)
<1>1. PICK b, u : Arrived(b, u)
  BY ArrivedSomething
<1> DEFINE s == ledger
<1>2. /\ b \in Seq(PaperDecision) /\ LimitedTo(s, b, b, Len(b)) /\ BatchMade(s, u, b, Len(b))
      /\ SessionOK(u) /\ ledger' = Valued(u)
  BY <1>1 DEF Arrived, BatchMade
<1>3. SessionOK(s) /\ run \in PaperRun
  BY InMemory DEF PaperInv, PaperTypes
<1>4. Occupied(ledger') = Occupied(u)
  <2>1. Valued(u).positions = u.positions /\ Valued(u).pending = u.pending
    BY <1>2, ValuedOK DEF SameBooks
  <2> QED BY <1>2, <2>1 DEF Occupied, Held, Buying
<1> HIDE DEF s
<1>5. Occupied(u) \ Occupied(s) \subseteq AllEntered(b)
  BY <1>2, <1>3, NewIsEntered DEF AllEntered
<1>6. k \in AllEntered(b) /\ k \in Occupied(u)
  BY <1>4, <1>5 DEF s
<1>7. Occupied(u) \subseteq Occupied(s) \cup AllEntered(b)
  BY <1>5
<1>8. /\ ~run.paused /\ IsFiniteSet(Occupied(s) \cup AllEntered(b))
      /\ Cardinality(Occupied(s) \cup AllEntered(b)) <= run.limit
  BY <1>2, <1>3, <1>6, LastEntryCounts
<1>9. Cardinality(Occupied(u)) <= run.limit
  <2>1. /\ IsFiniteSet(Occupied(u)) /\ Cardinality(Occupied(u)) <= Cardinality(Occupied(s) \cup AllEntered(b))
    BY <1>7, <1>8, FS_Subset
  <2>2. Cardinality(Occupied(u)) \in Nat /\ Cardinality(Occupied(s) \cup AllEntered(b)) \in Nat /\ run.limit \in Nat
    BY <1>3, <1>8, <2>1, FS_CardinalityType DEF PaperRun
  <2> QED BY <1>8, <2>1, <2>2
<1>10. k \in Family => Occupied(u) \cap Family = {k}
  <2>1. SUFFICES ASSUME k \in Family PROVE Occupied(u) \cap Family = {k}
    OBVIOUS
  <2>2. ASSUME NEW x \in Occupied(u) \cap Family PROVE x = k
    BY <1>2, <1>6, <1>7, <2>1, OneOfFamily
  <2> QED BY <1>6, <2>1, <2>2
<1> QED BY <1>4, <1>8, <1>9, <1>10 DEF WithinLimits

LEMMA LimitsStep ==
    ASSUME PaperInv, [Next]_vars, Up, run.on, run'.on, NEW k \in Occupied(ledger') \ Occupied(ledger)
    PROVE  WithinLimits(k)
<1>1. PICK m \in DOMAIN Market : WorkerConsumes(m)
  <2>1. CASE UNCHANGED ledger
    BY <2>1 DEF Occupied, Held, Buying
  <2>2. run \in PaperRun
    BY DEF PaperInv, PaperTypes
  <2>3. CASE ~UNCHANGED ledger
    <3>1. ~(Start \/ Resume \/ Reopen)
      BY DEF Start, Resume, Reopen
    <3>2. ~(Stop \/ Crash)
      BY <2>2, StoppedOK DEF Stop, Crash
    <3>3. ~(Cycle \/ Tick \/ UNCHANGED vars) /\ \A m \in DOMAIN Market : ~WorkerFails(m)
      BY <2>3 DEF Cycle, Tick, vars, WorkerFails
    <3> QED BY <3>1, <3>2, <3>3 DEF Next
  <2> QED BY <2>1, <2>3
<1>2. Arrives(m) \/ (DiscardIntents /\ run' = [Stopped EXCEPT !.number = run.number] /\ traded' = traded)
  BY <1>1, WorkerArrives
<1>3. Arrives(m)
  <2>1. run \in PaperRun
    BY DEF PaperInv, PaperTypes
  <2> QED BY <1>2, <2>1, StoppedOK
<1> QED BY <1>3, ArriveWithin

(* A step enters only what the limits let through. *)
LEMMA EntriesStep == ASSUME PaperInv, [Next]_vars
    PROVE  EntersWithinLimits
BY LimitsStep DEF WithinLimits, EntersWithinLimits

(* The inductive invariant, whatever saves fail and whenever the process dies
   or the run stops (paper/ledger.py:111, research/agent_runtime.py:229). *)
THEOREM PaperInvariant == Spec => []PaperInv
<1>1. Init => PaperInv
  BY PaperInit
<1>2. PaperInv /\ [Next]_vars => PaperInv'
  BY PaperStep
<1> QED BY <1>1, <1>2, PTL DEF Spec

(* The rows of the journal are the saved session's fills: added up in their
   order they give its cash, which none of them overdrew, and its gain
   (paper/ledger.py:219, paper/journal.py:151). *)
THEOREM JournalIsComplete == Spec => []JournalComplete
BY JournalHolds, PaperInvariant, PTL

(* Every fill follows its signal: it comes at a later quote, of the run that
   gave it, and the fills of an instrument come in the order of their quotes,
   buy and sell in turn (paper/ledger.py:164). *)
THEOREM SignalsComeFirst == Spec => []FillsFollowSignals
<1>1. PaperInv => FillsFollowSignals
  BY DEF PaperInv
<1> QED BY <1>1, PaperInvariant, PTL

(* While a run trades, what enters stays within the run's limit of positions,
   alone in its family, and a run whose entries are paused lets nothing in;
   over both market workers (strategy/paper.py:105). *)
THEOREM EntriesStayWithinLimits == Spec => EntriesWithinLimits
<1>1. PaperInv /\ [Next]_vars => [EntersWithinLimits]_vars
  BY EntriesStep
<1> QED BY <1>1, PaperInvariant, PTL DEF Spec, EntriesWithinLimits
=============================================================================
