--------------------------- MODULE StorePartsProofs ---------------------------
(* What holds of the record keepers for any number of processes, threads, runs,
   datasets, rows, batches and requests: part by part, and of all of them.
   What holds of paper trading is in PaperTradingProofs. *)
EXTENDS StoreParts, PaperTradingProofs

(* The parts count with the same operator. *)
LEMMA Counts ==
    ASSUME NEW S
    PROVE  /\ Chain!Cardinality(S) = Cardinality(S)
           /\ Trace!Cardinality(S) = Cardinality(S)
           /\ Earnings!Cardinality(S) = Cardinality(S)
  BY DEF Chain!Cardinality, Trace!Cardinality, Earnings!Cardinality, Cardinality

-----------------------------------------------------------------------------
(* EvidenceLab.  Who holds a reservation alone moves it on, its sealed data
   is read under the claim, and promotions rest on readings. *)

Status == {"RESERVED", "FROZEN", "EVALUATING", "CONSUMED", "INVALID"}
LabPhase ==
    {"idle", "developing", "invalidating", "sweeping", "freezing", "claiming", "evaluating", "consuming",
     "failing", "reporting", "recording", "certifying", "inserting"}
LabRecord ==
    [pc : LabPhase, bundle : Bundle \cup {None}, candidate : Fingerprint \cup {None}, holdout : Nat,
     judged : BOOLEAN, passed : BOOLEAN]
HoldoutRow ==
    [bundle : Bundle, status : Status, candidate : Fingerprint \cup {None}, passed : BOOLEAN]
EvaluationRow == [holdout : Nat, candidate : Fingerprint]

LabTypeOK ==
    /\ holdouts \in Seq(HoldoutRow) /\ evaluations \in Seq(EvaluationRow)
    /\ lab \in [Lab -> LabRecord]
    /\ \A l \in Lab : lab[l].pc # "idle" => lab[l].bundle \in Bundle /\ lab[l].candidate \in Fingerprint

Holding == {"invalidating", "freezing", "claiming", "evaluating", "consuming", "failing"}
Swept ==
    {"sweeping", "freezing", "claiming", "evaluating", "consuming", "reporting", "recording",
     "certifying", "inserting"}
Unread == {"RESERVED", "FROZEN"}

Evaluated(id, c) == \E i \in 1..Len(evaluations) : evaluations[i] = [holdout |-> id, candidate |-> c]

(* What a lab relies on at each point of its run. *)
LabKnows(l) ==
    LET id == lab[l].holdout
        row == holdouts[id]
        pc == lab[l].pc
    IN  /\ pc # "idle" /\ id # 0 => id \in 1..Len(holdouts) /\ row.bundle = lab[l].bundle
        /\ pc \in Holding => id # 0
        /\ pc \in Swept => <<lab[l].bundle, lab[l].candidate>> \in trials
        /\ pc \in {"evaluating", "consuming"} => row.candidate = lab[l].candidate /\ row.status \notin Unread
        /\ pc = "evaluating" => \A i \in 1..Len(evaluations) : evaluations[i].holdout # id
        /\ pc = "consuming" => Evaluated(id, lab[l].candidate)
        /\ pc \in {"certifying", "inserting"} => Evidence!Opened(l) /\ lab[l].passed /\ Certified
        /\ pc = "inserting" => row.status = "CONSUMED" /\ row.candidate = lab[l].candidate /\ row.passed

(* A block is read by one lab, and once. *)
ReadAlone ==
    /\ \A l, m \in Lab : l # m /\ lab[l].pc = "evaluating" /\ lab[m].pc = "evaluating" =>
           lab[l].holdout # lab[m].holdout
    /\ \A i \in 1..Len(evaluations) :
           LET e == evaluations[i] IN
           /\ e.holdout \in 1..Len(holdouts) /\ holdouts[e.holdout].candidate = e.candidate
           /\ holdouts[e.holdout].status \notin Unread
    /\ \A i, j \in 1..Len(evaluations) : i # j => evaluations[i].holdout # evaluations[j].holdout

ConsumedWasRead ==
    \A id \in 1..Len(holdouts) :
        holdouts[id].status = "CONSUMED" => Evaluated(id, holdouts[id].candidate)

(* What a promotion for live review rests on does not change any more. *)
PromotionsStand ==
    /\ \A p \in promotions : p.status = "LIVE_REVIEW_ELIGIBLE" =>
           /\ p.holdout \in 1..Len(holdouts) /\ Certified
           /\ <<p.bundle, p.candidate>> \in trials
           /\ LET row == holdouts[p.holdout] IN
              row.status = "CONSUMED" /\ row.candidate = p.candidate /\ row.bundle = p.bundle /\ row.passed
    /\ \A p, q \in promotions : p.holdout = q.holdout /\ p.holdout # 0 => p = q

LabInv ==
    /\ LabTypeOK /\ (\A l \in Lab : LabKnows(l)) /\ ReadAlone /\ ConsumedWasRead /\ PromotionsStand
    /\ Evidence!SealedLater

LEMMA LabStarts == Evidence!Init => LabInv
  BY DEF Evidence!Init, Evidence!Idle, LabInv, LabTypeOK, LabRecord, LabPhase, LabKnows, ReadAlone, ConsumedWasRead, PromotionsStand, Evidence!SealedLater,
     Holding, Swept

-----------------------------------------------------------------------------
(* How a row of the table changes. *)
RowMoves(old, new) ==
    /\ new.bundle = old.bundle
    /\ old.status \notin Unread => new.status \notin Unread
    /\ old.status # "RESERVED" => new.candidate = old.candidate
    /\ old.status = "CONSUMED" => new = old

HoldoutsGoOn ==
    /\ holdouts' \in Seq(HoldoutRow) /\ Len(holdouts') >= Len(holdouts)
    /\ \A id \in 1..Len(holdouts) : RowMoves(holdouts[id], holdouts'[id])
    /\ Evidence!SealedLater'

LEMMA RowKept ==
    ASSUME LabTypeOK, Evidence!SealedLater, UNCHANGED holdouts
    PROVE  HoldoutsGoOn
  BY DEF HoldoutsGoOn, RowMoves, Evidence!SealedLater, LabTypeOK

LEMMA RowChanges ==
    ASSUME LabTypeOK, Evidence!SealedLater, NEW id \in 1..Len(holdouts), NEW row \in HoldoutRow,
           RowMoves(holdouts[id], row), holdouts' = [holdouts EXCEPT ![id] = row]
    PROVE  /\ HoldoutsGoOn /\ Len(holdouts') = Len(holdouts)
           /\ \A j \in 1..Len(holdouts) : holdouts'[j] = IF j = id THEN row ELSE holdouts[j]
<1>1. /\ holdouts' \in Seq(HoldoutRow) /\ Len(holdouts') = Len(holdouts)
      /\ \A j \in 1..Len(holdouts) : holdouts'[j] = IF j = id THEN row ELSE holdouts[j]
  BY DEF LabTypeOK
<1>2. \A j \in 1..Len(holdouts) : RowMoves(holdouts[j], holdouts'[j])
  BY <1>1 DEF RowMoves
<1>3. Evidence!SealedLater'
  <2>1. \A j \in 1..Len(holdouts) : holdouts'[j].bundle = holdouts[j].bundle
    BY <1>2 DEF RowMoves
  <2> QED BY <1>1, <2>1 DEF Evidence!SealedLater, LabTypeOK
<1> QED BY <1>1, <1>2, <1>3 DEF HoldoutsGoOn, LabTypeOK

LEMMA RowAdded ==
    ASSUME Evidence!BundleAssumption, LabTypeOK, Evidence!SealedLater, NEW b \in Bundle, Evidence!MayReserve(b), holdouts' = Append(holdouts, Evidence!NewRow(b))
    PROVE  /\ HoldoutsGoOn /\ Len(holdouts') = Len(holdouts) + 1
           /\ holdouts'[Len(holdouts) + 1] = Evidence!NewRow(b)
           /\ \A j \in 1..Len(holdouts) : holdouts'[j] = holdouts[j]
<1>1. Evidence!NewRow(b) \in HoldoutRow
  BY DEF Evidence!NewRow, HoldoutRow, Status
<1>2. /\ holdouts' \in Seq(HoldoutRow) /\ Len(holdouts') = Len(holdouts) + 1
      /\ holdouts'[Len(holdouts) + 1] = Evidence!NewRow(b)
      /\ \A j \in 1..Len(holdouts) : holdouts'[j] = holdouts[j]
  BY <1>1 DEF LabTypeOK
<1>3. Evidence!SealedLater'
  <2>1. ASSUME NEW j \in 1..Len(holdouts) PROVE holdouts[j].bundle.end < b.start
    <3>1. holdouts[j] \in HoldoutRow /\ j \in DOMAIN holdouts
      BY DEF LabTypeOK
    <3>2. holdouts[j].bundle.end \in Nat /\ b.start \in Nat
      BY <3>1 DEF HoldoutRow, Evidence!BundleAssumption
    <3> QED BY <3>1, <3>2 DEF Evidence!MayReserve, Evidence!Blocks
  <2>2. ASSUME NEW i \in 1..Len(holdouts'), NEW j \in 1..Len(holdouts'), i < j
        PROVE  holdouts'[i].bundle.end < holdouts'[j].bundle.start
    <3>1. i \in 1..Len(holdouts)
      BY <1>2, <2>2 DEF LabTypeOK
    <3>2. CASE j = Len(holdouts) + 1
      BY <1>2, <2>1, <3>1, <3>2 DEF Evidence!NewRow
    <3>3. CASE j \in 1..Len(holdouts)
      BY <1>2, <2>2, <3>1, <3>3 DEF Evidence!SealedLater, LabTypeOK
    <3> QED BY <1>2, <3>2, <3>3 DEF LabTypeOK
  <2> QED BY <1>2, <2>2 DEF Evidence!SealedLater
<1> QED BY <1>2, <1>3 DEF HoldoutsGoOn, RowMoves, LabTypeOK

-----------------------------------------------------------------------------
(* What the other labs know, the evaluations and the promotions survive. *)
LEMMA OthersKnow ==
    ASSUME LabInv, HoldoutsGoOn, trials \subseteq trials', NEW l \in Lab, NEW e, lab' = [lab EXCEPT ![l] = e],
           Len(evaluations') >= Len(evaluations),
           \A i \in 1..Len(evaluations) : evaluations'[i] = evaluations[i],
           \A i \in 1..Len(evaluations') : i > Len(evaluations) =>
               lab[l].pc = "evaluating" /\ evaluations'[i].holdout = lab[l].holdout,
           evaluations' \in Seq(EvaluationRow),
           NEW m \in Lab, m # l
    PROVE  LabKnows(m)'
<1>1. lab'[m] = lab[m] /\ lab[m] \in LabRecord /\ LabKnows(m)
  BY DEF LabInv, LabTypeOK
<1>2. Evidence!Opened(m)' = Evidence!Opened(m)
  BY <1>1 DEF Evidence!Opened
<1> DEFINE id == lab[m].holdout
<1>3. lab[m].pc # "idle" /\ id # 0 =>
          /\ id \in 1..Len(holdouts) /\ id \in 1..Len(holdouts')
          /\ RowMoves(holdouts[id], holdouts'[id]) /\ holdouts[id] \in HoldoutRow
  BY <1>1 DEF LabKnows, HoldoutsGoOn, LabInv, LabTypeOK
<1>4. lab[m].pc \in Holding => id # 0 /\ lab[m].pc # "idle"
  BY <1>1 DEF LabKnows, Holding
<1>5. lab[m].pc = "evaluating" => \A i \in 1..Len(evaluations') : evaluations'[i].holdout # id
  <2> SUFFICES ASSUME lab[m].pc = "evaluating", NEW i \in 1..Len(evaluations') PROVE evaluations'[i].holdout # id
    OBVIOUS
  <2>1. CASE i \in 1..Len(evaluations)
    BY <1>1, <2>1 DEF LabKnows
  <2>2. CASE i > Len(evaluations)
    BY <2>2 DEF LabInv, ReadAlone
  <2> QED BY <2>1, <2>2 DEF LabInv, LabTypeOK
<1>6. Evaluated(id, lab[m].candidate) => Evaluated(id, lab[m].candidate)'
  <2>1. 1..Len(evaluations) \subseteq 1..Len(evaluations')
    BY DEF LabInv, LabTypeOK
  <2> QED BY <1>1, <2>1 DEF Evaluated
<1>7. lab[m].pc \in {"certifying", "inserting"} => id # 0
  BY <1>1 DEF LabKnows, Evidence!Opened
<1>8. lab[m].pc \in {"evaluating", "consuming"} => holdouts'[id].candidate = lab[m].candidate /\ holdouts'[id].status \notin Unread
  BY <1>1, <1>3, <1>4 DEF LabKnows, Holding, RowMoves, Unread
<1>9. lab[m].pc = "inserting" => holdouts'[id] = holdouts[id]
  BY <1>1, <1>3, <1>7 DEF LabKnows, RowMoves
<1>10. lab[m].pc # "idle" /\ id # 0 => holdouts'[id].bundle = lab[m].bundle
  BY <1>1, <1>3 DEF LabKnows, RowMoves
<1> QED BY <1>1, <1>2, <1>3, <1>4, <1>5, <1>6, <1>8, <1>9, <1>10 DEF LabKnows

LEMMA ReadingsStand ==
    ASSUME LabInv, HoldoutsGoOn, UNCHANGED evaluations, NEW i \in 1..Len(evaluations)
    PROVE  LET e == evaluations'[i] IN
           /\ e.holdout \in 1..Len(holdouts') /\ holdouts'[e.holdout].candidate = e.candidate
           /\ holdouts'[e.holdout].status \notin Unread
<1> DEFINE id == evaluations[i].holdout
<1>1. /\ id \in 1..Len(holdouts) /\ holdouts[id].candidate = evaluations[i].candidate
      /\ holdouts[id].status \notin Unread
  BY DEF LabInv, ReadAlone
<1>2. RowMoves(holdouts[id], holdouts'[id]) /\ id \in 1..Len(holdouts')
  BY <1>1 DEF HoldoutsGoOn, LabInv, LabTypeOK
<1> QED BY <1>1, <1>2 DEF RowMoves, Unread

LEMMA PromotionsGoOn ==
    ASSUME LabInv, HoldoutsGoOn, UNCHANGED promotions, trials \subseteq trials'
    PROVE  PromotionsStand'
<1>1. Len(holdouts) \in Nat /\ Len(holdouts') \in Nat /\ Len(holdouts') >= Len(holdouts)
  BY DEF LabInv, LabTypeOK, HoldoutsGoOn
<1>2. ASSUME NEW id \in 1..Len(holdouts), holdouts[id].status = "CONSUMED" PROVE holdouts'[id] = holdouts[id]
  BY <1>2 DEF HoldoutsGoOn, RowMoves
<1> QED BY <1>1, <1>2 DEF LabInv, PromotionsStand

-----------------------------------------------------------------------------
(* A lab moves: it touches the holdouts and the trials at most. *)
LEMMA LabMoves ==
    ASSUME LabInv, HoldoutsGoOn, trials \subseteq trials', UNCHANGED <<promotions, evaluations>>,
           NEW l \in Lab, NEW e \in LabRecord, lab' = [lab EXCEPT ![l] = e],
           e.pc # "idle" => e.bundle \in Bundle /\ e.candidate \in Fingerprint,
           LabKnows(l)', ConsumedWasRead',
           e.pc = "evaluating" =>
               \A m \in Lab : m # l /\ lab[m].pc = "evaluating" => lab[m].holdout # e.holdout
    PROVE  LabInv'
<1>1. LabTypeOK'
  BY DEF LabInv, LabTypeOK, HoldoutsGoOn
<1>2. PromotionsStand'
  BY PromotionsGoOn
<1>3. ASSUME NEW m \in Lab PROVE LabKnows(m)'
  <2>1. CASE m = l
    BY <2>1
  <2>2. CASE m # l
    <3>1. /\ evaluations' \in Seq(EvaluationRow) /\ Len(evaluations') >= Len(evaluations)
          /\ \A i \in 1..Len(evaluations) : evaluations'[i] = evaluations[i]
          /\ \A i \in 1..Len(evaluations') : ~(i > Len(evaluations))
      BY DEF LabInv, LabTypeOK
    <3> QED BY <2>2, <3>1, OthersKnow
  <2> QED BY <2>1, <2>2
<1>4. ReadAlone'
  <2>1. \A m \in Lab : lab'[m] = IF m = l THEN e ELSE lab[m]
    BY DEF LabInv, LabTypeOK
  <2>2. \A m, n \in Lab : m # n /\ lab'[m].pc = "evaluating" /\ lab'[n].pc = "evaluating" =>
            lab'[m].holdout # lab'[n].holdout
    BY <2>1 DEF LabInv, ReadAlone
  <2> QED BY <2>2, ReadingsStand DEF LabInv, ReadAlone
<1> QED BY <1>1, <1>2, <1>3, <1>4 DEF LabInv, HoldoutsGoOn

(* It moves and touches no table. *)
LEMMA LabGoesOn ==
    ASSUME LabInv, UNCHANGED <<trials, holdouts, promotions, evaluations>>,
           NEW l \in Lab, NEW e \in LabRecord, lab' = [lab EXCEPT ![l] = e],
           e.pc # "idle" => e.bundle \in Bundle /\ e.candidate \in Fingerprint,
           LabKnows(l)', e.pc # "evaluating"
    PROVE  LabInv'
<1>1. HoldoutsGoOn /\ ConsumedWasRead'
  BY RowKept DEF LabInv, ConsumedWasRead, Evaluated
<1> QED BY <1>1, LabMoves

LEMMA EndKnows ==
    ASSUME LabInv, NEW l \in Lab, Evidence!End(l)
    PROVE  LabKnows(l)' /\ Evidence!Idle \in LabRecord /\ Evidence!Idle.pc = "idle" /\ lab' = [lab EXCEPT ![l] = Evidence!Idle]
<1>1. lab'[l] = Evidence!Idle /\ Evidence!Idle \in LabRecord /\ Evidence!Idle.pc = "idle"
  BY DEF LabInv, LabTypeOK, Evidence!End, Evidence!Idle, LabRecord, LabPhase
<1> QED BY <1>1 DEF LabKnows, Holding, Swept, Evidence!End

LEMMA GotoIs ==
    ASSUME LabInv, NEW l \in Lab, NEW pc \in LabPhase, Evidence!Goto(l, pc), lab[l].pc # "idle"
    PROVE  LET e == [lab[l] EXCEPT !.pc = pc] IN
           /\ lab' = [lab EXCEPT ![l] = e] /\ e \in LabRecord /\ lab'[l] = e
           /\ e.bundle \in Bundle /\ e.candidate \in Fingerprint
  BY DEF LabInv, LabTypeOK, Evidence!Goto, LabRecord

LEMMA EndingStep ==
    ASSUME LabInv, NEW l \in Lab, Evidence!End(l), UNCHANGED <<trials, holdouts, promotions, evaluations>>
    PROVE  LabInv'
  BY EndKnows, LabGoesOn

LEMMA StartUnsealedStep ==
    ASSUME LabInv, NEW l \in Lab, Evidence!StartUnsealed(l)
    PROVE  LabInv'
<1>1. PICK b \in Bundle, c \in Fingerprint : Evidence!Begin(l, b, c)
  BY DEF Evidence!StartUnsealed
<1> DEFINE e == [Evidence!Idle EXCEPT !.bundle = b, !.candidate = c, !.pc = "developing"]
<1>2. e \in LabRecord /\ lab' = [lab EXCEPT ![l] = e] /\ lab'[l] = e
  BY <1>1 DEF Evidence!Begin, Evidence!Idle, LabRecord, LabPhase, LabInv, LabTypeOK
<1>3. e.pc = "developing" /\ e.bundle = b /\ e.candidate = c /\ e.holdout = 0
  BY DEF Evidence!Idle
<1>4. LabKnows(l)'
  BY <1>2, <1>3 DEF LabKnows, Holding, Swept
<1> HIDE DEF e
<1> QED BY <1>2, <1>3, <1>4, LabGoesOn DEF Evidence!StartUnsealed

LEMMA ReserveStep ==
    ASSUME Evidence!BundleAssumption, LabInv, NEW l \in Lab, Evidence!Reserve(l)
    PROVE  LabInv'
<1>1. PICK b \in Bundle, c \in Fingerprint :
          \/ /\ Evidence!Reusable(b) # {}
             /\ \E id \in Evidence!Reusable(b) : Evidence!BeginSealed(l, b, c, id)
             /\ UNCHANGED holdouts
          \/ /\ Evidence!Reusable(b) = {} /\ Evidence!MayReserve(b)
             /\ holdouts' = Append(holdouts, Evidence!NewRow(b))
             /\ Evidence!BeginSealed(l, b, c, Len(holdouts) + 1)
  BY DEF Evidence!Reserve
<1> DEFINE e(id) == [Evidence!Idle EXCEPT !.bundle = b, !.candidate = c, !.holdout = id,
                                 !.pc = IF b.clean THEN "developing" ELSE "invalidating"]
<1>2. ASSUME NEW id \in Nat, Evidence!BeginSealed(l, b, c, id)
      PROVE  /\ e(id) \in LabRecord /\ lab' = [lab EXCEPT ![l] = e(id)] /\ lab'[l] = e(id)
             /\ e(id).pc \in {"developing", "invalidating"} /\ e(id).bundle = b
             /\ e(id).candidate = c /\ e(id).holdout = id
  BY <1>2 DEF Evidence!BeginSealed, Evidence!Idle, LabRecord, LabPhase, LabInv, LabTypeOK
<1> HIDE DEF e
<1>3. ASSUME NEW id \in Nat \ {0}, Evidence!BeginSealed(l, b, c, id), id \in 1..Len(holdouts'), holdouts'[id].bundle = b
      PROVE  LabKnows(l)'
  BY <1>2, <1>3 DEF LabKnows, Holding, Swept
<1>4. CASE \E id \in Evidence!Reusable(b) : Evidence!BeginSealed(l, b, c, id) /\ UNCHANGED holdouts
  <2>1. PICK id \in Evidence!Reusable(b) : Evidence!BeginSealed(l, b, c, id)
    BY <1>4
  <2>2. id \in 1..Len(holdouts) /\ holdouts[id].bundle = b /\ id \in Nat \ {0}
    BY <2>1 DEF Evidence!Reusable, Evidence!Reserved, LabInv, LabTypeOK
  <2>3. LabKnows(l)'
    BY <1>3, <1>4, <2>1, <2>2
  <2> QED BY <1>2, <1>4, <2>1, <2>2, <2>3, LabGoesOn DEF Evidence!Reserve
<1>5. CASE /\ Evidence!MayReserve(b) /\ holdouts' = Append(holdouts, Evidence!NewRow(b))
           /\ Evidence!BeginSealed(l, b, c, Len(holdouts) + 1)
  <2> DEFINE id == Len(holdouts) + 1
  <2>1. /\ HoldoutsGoOn /\ Len(holdouts') = Len(holdouts) + 1 /\ holdouts'[id] = Evidence!NewRow(b)
        /\ \A j \in 1..Len(holdouts) : holdouts'[j] = holdouts[j]
    BY <1>5, RowAdded DEF LabInv
  <2>2. Len(holdouts) \in Nat
    BY DEF LabInv, LabTypeOK
  <2>3. LabKnows(l)'
    BY <1>3, <1>5, <2>1, <2>2 DEF Evidence!NewRow
  <2>4. ConsumedWasRead'
    BY <2>1, <2>2 DEF Evidence!NewRow, LabInv, ConsumedWasRead, Evaluated, Evidence!Reserve
  <2>5. trials \subseteq trials' /\ UNCHANGED <<promotions, evaluations>>
    BY DEF Evidence!Reserve
  <2> QED BY <1>2, <1>5, <2>1, <2>2, <2>3, <2>4, <2>5, LabMoves
<1> QED BY <1>1, <1>4, <1>5

(* A lab moves with the row it holds. *)
LEMMA RowStep ==
    ASSUME LabInv, NEW l \in Lab, lab[l].pc \in Holding, NEW row \in HoldoutRow, NEW e \in LabRecord,
           RowMoves(holdouts[lab[l].holdout], row),
           holdouts' = [holdouts EXCEPT ![lab[l].holdout] = row], lab' = [lab EXCEPT ![l] = e],
           UNCHANGED <<trials, promotions, evaluations>>,
           e.pc # "idle" => e.bundle = lab[l].bundle /\ e.candidate = lab[l].candidate /\ e.holdout = lab[l].holdout,
           row.status = "CONSUMED" => Evaluated(lab[l].holdout, row.candidate),
           e.pc \in {"idle", "developing", "claiming", "evaluating", "reporting"},
           e.pc \in {"claiming", "evaluating", "reporting"} => <<lab[l].bundle, lab[l].candidate>> \in trials,
           e.pc = "evaluating" => /\ row.candidate = lab[l].candidate /\ row.status \notin Unread
                                  /\ holdouts[lab[l].holdout].status \in Unread
    PROVE  LabInv'
<1> DEFINE id == lab[l].holdout
<1>1. LabKnows(l) /\ lab[l] \in LabRecord /\ lab'[l] = e /\ lab[l].pc # "idle" /\ id # 0
  BY DEF LabInv, LabTypeOK, LabKnows, Holding
<1>2. id \in 1..Len(holdouts) /\ holdouts[id].bundle = lab[l].bundle
  BY <1>1 DEF LabKnows
<1>3. /\ HoldoutsGoOn /\ Len(holdouts') = Len(holdouts)
      /\ \A j \in 1..Len(holdouts) : holdouts'[j] = IF j = id THEN row ELSE holdouts[j]
  BY <1>2, RowChanges DEF LabInv
<1>4. ConsumedWasRead'
  BY <1>3 DEF LabInv, ConsumedWasRead, Evaluated
<1>5. e.pc = "evaluating" =>
          /\ \A m \in Lab : m # l /\ lab[m].pc = "evaluating" => lab[m].holdout # e.holdout
          /\ \A i \in 1..Len(evaluations) : evaluations[i].holdout # id
  <2> SUFFICES ASSUME e.pc = "evaluating"
               PROVE  /\ \A m \in Lab : m # l /\ lab[m].pc = "evaluating" => lab[m].holdout # id
                      /\ \A i \in 1..Len(evaluations) : evaluations[i].holdout # id
    OBVIOUS
  <2>1. holdouts[id].status \in Unread
    OBVIOUS
  <2>2. \A m \in Lab : lab[m].pc = "evaluating" => holdouts[lab[m].holdout].status \notin Unread
    BY DEF LabInv, LabKnows
  <2>3. \A i \in 1..Len(evaluations) : holdouts[evaluations[i].holdout].status \notin Unread
    BY DEF LabInv, ReadAlone
  <2> QED BY <2>1, <2>2, <2>3
<1>6. row.bundle = lab[l].bundle
  BY <1>2 DEF RowMoves
<1>7. LabKnows(l)'
  BY <1>1, <1>2, <1>3, <1>5, <1>6 DEF LabKnows, Holding, Swept
<1>8. e.pc # "idle" => e.bundle \in Bundle /\ e.candidate \in Fingerprint
  BY <1>1 DEF LabInv, LabTypeOK
<1> QED BY <1>3, <1>4, <1>5, <1>7, <1>8, LabMoves

LEMMA HeldRow ==
    ASSUME LabInv, NEW l \in Lab, lab[l].pc \in Holding
    PROVE  /\ lab[l].holdout \in 1..Len(holdouts) /\ holdouts[lab[l].holdout] \in HoldoutRow
           /\ lab[l].pc # "idle" /\ lab[l] \in LabRecord /\ LabKnows(l)
           /\ lab[l].candidate \in Fingerprint
<1>1. LabKnows(l) /\ lab[l] \in LabRecord /\ lab[l].pc # "idle"
  BY DEF LabInv, LabTypeOK, Holding
<1>2. lab[l].holdout \in 1..Len(holdouts)
  BY <1>1 DEF LabKnows
<1> QED BY <1>1, <1>2 DEF LabInv, LabTypeOK

LEMMA InvalidateIs ==
    ASSUME LabInv, NEW l \in Lab, lab[l].pc \in Holding, Evidence!Invalidate(lab[l].holdout)
    PROVE  \E row \in HoldoutRow :
              /\ holdouts' = [holdouts EXCEPT ![lab[l].holdout] = row]
              /\ RowMoves(holdouts[lab[l].holdout], row)
              /\ row.status = "CONSUMED" => Evaluated(lab[l].holdout, row.candidate)
<1> DEFINE id == lab[l].holdout
           row == [holdouts[id] EXCEPT !.status = IF @ \in Evidence!Active THEN "INVALID" ELSE @]
<1>1. row \in HoldoutRow /\ holdouts' = [holdouts EXCEPT ![id] = row]
  BY HeldRow DEF HoldoutRow, Status, Evidence!Invalidate
<1>2. RowMoves(holdouts[id], row)
  BY HeldRow DEF HoldoutRow, Status, RowMoves, Evidence!Active, Unread
<1>3. row.status = "CONSUMED" => Evaluated(id, row.candidate)
  BY HeldRow DEF LabInv, ConsumedWasRead, HoldoutRow
<1> QED BY <1>1, <1>2, <1>3

LEMMA InvalidateUncleanStep ==
    ASSUME LabInv, NEW l \in Lab, Evidence!InvalidateUnclean(l)
    PROVE  LabInv'
<1> DEFINE e == [lab[l] EXCEPT !.pc = "developing"]
<1>1. lab[l].pc \in Holding /\ lab[l].pc # "idle" /\ "developing" \in LabPhase
  BY DEF Evidence!InvalidateUnclean, Holding, LabPhase
<1>2. PICK row \in HoldoutRow :
              /\ holdouts' = [holdouts EXCEPT ![lab[l].holdout] = row]
              /\ RowMoves(holdouts[lab[l].holdout], row)
              /\ row.status = "CONSUMED" => Evaluated(lab[l].holdout, row.candidate)
  BY <1>1, InvalidateIs DEF Evidence!InvalidateUnclean
<1>3. lab' = [lab EXCEPT ![l] = e] /\ e \in LabRecord
  BY <1>1, GotoIs DEF Evidence!InvalidateUnclean
<1>4. e.bundle = lab[l].bundle /\ e.candidate = lab[l].candidate /\ e.holdout = lab[l].holdout /\ e.pc = "developing"
  BY HeldRow, <1>1 DEF LabRecord
<1>5. UNCHANGED <<trials, promotions, evaluations>>
  BY DEF Evidence!InvalidateUnclean
<1> HIDE DEF e
<1> QED BY <1>1, <1>2, <1>3, <1>4, <1>5, RowStep

LEMMA InvalidateFailedStep ==
    ASSUME LabInv, NEW l \in Lab, Evidence!InvalidateFailed(l)
    PROVE  LabInv'
<1>1. lab[l].pc \in Holding
  BY DEF Evidence!InvalidateFailed, Holding
<1>2. PICK row \in HoldoutRow :
              /\ holdouts' = [holdouts EXCEPT ![lab[l].holdout] = row]
              /\ RowMoves(holdouts[lab[l].holdout], row)
              /\ row.status = "CONSUMED" => Evaluated(lab[l].holdout, row.candidate)
  BY <1>1, InvalidateIs DEF Evidence!InvalidateFailed
<1>3. Evidence!Idle \in LabRecord /\ lab' = [lab EXCEPT ![l] = Evidence!Idle] /\ Evidence!Idle.pc = "idle"
  BY EndKnows DEF Evidence!InvalidateFailed
<1>5. UNCHANGED <<trials, promotions, evaluations>>
  BY DEF Evidence!InvalidateFailed
<1> QED BY <1>1, <1>2, <1>3, <1>5, RowStep

LEMMA FreezeStep ==
    ASSUME LabInv, NEW l \in Lab, Evidence!Freeze(l)
    PROVE  LabInv'
<1> DEFINE id == lab[l].holdout
           e == [lab[l] EXCEPT !.pc = "claiming"]
           row == [holdouts[id] EXCEPT !.status = "FROZEN", !.candidate = lab[l].candidate]
<1>1. lab[l].pc \in Holding /\ lab[l].pc # "idle" /\ "claiming" \in LabPhase /\ lab[l].pc = "freezing"
  BY DEF Evidence!Freeze, Holding, LabPhase
<1>2. row \in HoldoutRow /\ holdouts' = [holdouts EXCEPT ![id] = row] /\ row.status = "FROZEN"
  BY <1>1, HeldRow DEF HoldoutRow, Status, Evidence!Freeze
<1>3. RowMoves(holdouts[id], row)
  BY <1>1, HeldRow DEF HoldoutRow, RowMoves, Evidence!Freeze, Unread
<1>4. lab' = [lab EXCEPT ![l] = e] /\ e \in LabRecord
  BY <1>1, GotoIs DEF Evidence!Freeze
<1>5. e.bundle = lab[l].bundle /\ e.candidate = lab[l].candidate /\ e.holdout = id /\ e.pc = "claiming"
  BY HeldRow, <1>1 DEF LabRecord
<1>6. <<lab[l].bundle, lab[l].candidate>> \in trials
  BY HeldRow, <1>1 DEF LabKnows, Swept
<1>7. UNCHANGED <<trials, promotions, evaluations>>
  BY DEF Evidence!Freeze
<1> HIDE DEF e, row
<1> QED BY <1>1, <1>2, <1>3, <1>4, <1>5, <1>6, <1>7, RowStep

LEMMA ClaimStep ==
    ASSUME LabInv, NEW l \in Lab, Evidence!Claim(l)
    PROVE  LabInv'
<1> DEFINE id == lab[l].holdout
           e == [lab[l] EXCEPT !.pc = "evaluating"]
           row == [holdouts[id] EXCEPT !.status = "EVALUATING"]
<1>1. lab[l].pc \in Holding /\ lab[l].pc # "idle" /\ "evaluating" \in LabPhase /\ lab[l].pc = "claiming"
  BY DEF Evidence!Claim, Holding, LabPhase
<1>2. row \in HoldoutRow /\ holdouts' = [holdouts EXCEPT ![id] = row] /\ row.status = "EVALUATING"
  BY <1>1, HeldRow DEF HoldoutRow, Status, Evidence!Claim, Evidence!SetStatus
<1>3. RowMoves(holdouts[id], row) /\ holdouts[id].status \in Unread /\ row.status \notin Unread
      /\ row.candidate = lab[l].candidate
  BY <1>1, HeldRow DEF HoldoutRow, RowMoves, Evidence!Claim, Unread, Evidence!Owns
<1>4. lab' = [lab EXCEPT ![l] = e] /\ e \in LabRecord
  BY <1>1, GotoIs DEF Evidence!Claim
<1>5. e.bundle = lab[l].bundle /\ e.candidate = lab[l].candidate /\ e.holdout = id /\ e.pc = "evaluating"
  BY HeldRow, <1>1 DEF LabRecord
<1>6. <<lab[l].bundle, lab[l].candidate>> \in trials
  BY HeldRow, <1>1 DEF LabKnows, Swept
<1>7. UNCHANGED <<trials, promotions, evaluations>>
  BY DEF Evidence!Claim
<1> HIDE DEF e, row
<1> QED BY <1>1, <1>2, <1>3, <1>4, <1>5, <1>6, <1>7, RowStep

LEMMA ConsumeStep ==
    ASSUME LabInv, NEW l \in Lab, Evidence!Consume(l)
    PROVE  LabInv'
<1> DEFINE id == lab[l].holdout
           e == [lab[l] EXCEPT !.pc = "reporting"]
           row == [holdouts[id] EXCEPT !.status = "CONSUMED", !.passed = lab[l].passed]
<1>1. lab[l].pc \in Holding /\ lab[l].pc # "idle" /\ "reporting" \in LabPhase /\ lab[l].pc = "consuming"
  BY DEF Evidence!Consume, Holding, LabPhase
<1>2. row \in HoldoutRow /\ holdouts' = [holdouts EXCEPT ![id] = row]
  BY <1>1, HeldRow DEF HoldoutRow, LabRecord, Status, Evidence!Consume
<1>3. RowMoves(holdouts[id], row) /\ row.candidate = lab[l].candidate
  BY <1>1, HeldRow DEF HoldoutRow, RowMoves, Evidence!Consume, Unread, Evidence!Owns
<1>4. lab' = [lab EXCEPT ![l] = e] /\ e \in LabRecord
  BY <1>1, GotoIs DEF Evidence!Consume
<1>5. e.bundle = lab[l].bundle /\ e.candidate = lab[l].candidate /\ e.holdout = id /\ e.pc = "reporting"
  BY HeldRow, <1>1 DEF LabRecord
<1>6. <<lab[l].bundle, lab[l].candidate>> \in trials /\ Evaluated(id, lab[l].candidate)
  BY HeldRow, <1>1 DEF LabKnows, Swept
<1>7. UNCHANGED <<trials, promotions, evaluations>>
  BY DEF Evidence!Consume
<1> HIDE DEF e, row
<1> QED BY <1>1, <1>2, <1>3, <1>4, <1>5, <1>6, <1>7, RowStep

-----------------------------------------------------------------------------
(* Steps that change the trials, the evaluations, the promotions or nothing. *)
LEMMA RecordTrialsStep ==
    ASSUME Evidence!BundleAssumption, LabInv, NEW l \in Lab, Evidence!RecordTrials(l)
    PROVE  LabInv'
<1> DEFINE e == [lab[l] EXCEPT !.pc = "sweeping"]
<1>1. lab[l].pc # "idle" /\ "sweeping" \in LabPhase
  BY DEF Evidence!RecordTrials, LabPhase
<1>2. /\ lab' = [lab EXCEPT ![l] = e] /\ e \in LabRecord /\ lab'[l] = e
      /\ e.bundle \in Bundle /\ e.candidate \in Fingerprint
  BY <1>1, GotoIs DEF Evidence!RecordTrials
<1>3. e.bundle = lab[l].bundle /\ e.candidate = lab[l].candidate /\ e.holdout = lab[l].holdout /\ e.pc = "sweeping"
      /\ LabKnows(l)
  BY DEF LabInv, LabTypeOK, LabRecord
<1>4. <<e.bundle, e.candidate>> \in trials' /\ trials \subseteq trials'
  <2>1. lab[l].candidate \in Grid[lab[l].candidate]
    BY <1>2, <1>3 DEF Evidence!BundleAssumption
  <2> QED BY <1>3, <2>1 DEF Evidence!RecordTrials
<1>5. HoldoutsGoOn /\ UNCHANGED <<holdouts, promotions, evaluations>> /\ ConsumedWasRead'
  BY RowKept DEF Evidence!RecordTrials, LabInv, ConsumedWasRead, Evaluated
<1> HIDE DEF e
<1>6. LabKnows(l)'
  BY <1>1, <1>2, <1>3, <1>4, <1>5 DEF LabKnows, Holding, Swept
<1> QED BY <1>2, <1>3, <1>4, <1>5, <1>6, LabMoves

(* A later phase of the run, with the same dataset, candidate and block. *)
LEMMA PhaseStep ==
    ASSUME LabInv, NEW l \in Lab, lab[l].pc # "idle", UNCHANGED <<trials, holdouts, promotions, evaluations>>,
           NEW e \in LabRecord, lab' = [lab EXCEPT ![l] = e],
           e.bundle = lab[l].bundle, e.candidate = lab[l].candidate, e.holdout = lab[l].holdout,
           e.pc \in {"freezing", "failing", "reporting", "recording", "certifying", "inserting"},
           e.pc \in {"freezing", "failing"} => e.holdout # 0,
           e.pc # "failing" => lab[l].pc \in Swept,
           e.pc \in {"certifying", "inserting"} => Evidence!Opened(l)' /\ e.passed /\ Certified,
           e.pc = "inserting" => LET row == holdouts[e.holdout] IN
                                 row.status = "CONSUMED" /\ row.candidate = e.candidate /\ row.passed
    PROVE  LabInv'
<1>1. LabKnows(l) /\ lab'[l] = e /\ e.bundle \in Bundle /\ e.candidate \in Fingerprint
  BY DEF LabInv, LabTypeOK
<1>2. LabKnows(l)'
  BY <1>1 DEF LabKnows, Holding, Swept
<1> QED BY <1>1, <1>2, LabGoesOn

LEMMA JudgeStep ==
    ASSUME LabInv, NEW l \in Lab, Evidence!Judge(l)
    PROVE  LabInv'
<1>1. PICK good \in BOOLEAN :
          lab' = [lab EXCEPT ![l].judged = good,
                             ![l].pc = IF good /\ lab[l].holdout # 0 /\ lab[l].bundle.clean
                                       THEN "freezing" ELSE "reporting"]
  BY DEF Evidence!Judge
<1> DEFINE e == [lab[l] EXCEPT !.judged = good,
                               !.pc = IF good /\ lab[l].holdout # 0 /\ lab[l].bundle.clean
                                      THEN "freezing" ELSE "reporting"]
<1>2. lab[l] \in LabRecord /\ lab \in [Lab -> LabRecord]
  BY DEF LabInv, LabTypeOK
<1>3. lab' = [lab EXCEPT ![l] = e] /\ e \in LabRecord
  BY <1>1, <1>2 DEF LabRecord, LabPhase
<1>4. /\ e.bundle = lab[l].bundle /\ e.candidate = lab[l].candidate /\ e.holdout = lab[l].holdout
      /\ e.pc \in {"freezing", "reporting"} /\ (e.pc = "freezing" => e.holdout # 0)
  BY <1>2 DEF LabRecord
<1>5. lab[l].pc # "idle" /\ lab[l].pc \in Swept /\ UNCHANGED <<trials, holdouts, promotions, evaluations>>
  BY DEF Evidence!Judge, Swept
<1> HIDE DEF e
<1> QED BY <1>3, <1>4, <1>5, PhaseStep

LEMMA FailStep ==
    ASSUME LabInv, NEW l \in Lab, Evidence!Fail(l)
    PROVE  LabInv'
<1>1. CASE lab[l].holdout = 0
  BY <1>1, EndingStep DEF Evidence!Fail
<1>2. CASE lab[l].holdout # 0
  <2> DEFINE e == [lab[l] EXCEPT !.pc = "failing"]
  <2>1. lab[l].pc # "idle" /\ "failing" \in LabPhase /\ Evidence!Goto(l, "failing")
    BY <1>2 DEF Evidence!Fail, Evidence!Refused, LabPhase
  <2>2. lab' = [lab EXCEPT ![l] = e] /\ e \in LabRecord
    BY <2>1, GotoIs
  <2>3. e.bundle = lab[l].bundle /\ e.candidate = lab[l].candidate /\ e.holdout = lab[l].holdout /\ e.pc = "failing"
    BY DEF LabInv, LabTypeOK, LabRecord
  <2>4. UNCHANGED <<trials, holdouts, promotions, evaluations>>
    BY DEF Evidence!Fail
  <2> HIDE DEF e
  <2> QED BY <1>2, <2>1, <2>2, <2>3, <2>4, PhaseStep
<1> QED BY <1>1, <1>2

LEMMA ReportStep ==
    ASSUME LabInv, NEW l \in Lab, Evidence!Report(l)
    PROVE  LabInv'
<1>1. PICK eligible \in {FALSE, Evidence!Opened(l) /\ lab[l].passed /\ Certified} :
          Evidence!Goto(l, IF eligible THEN "certifying" ELSE "recording")
  BY DEF Evidence!Report
<1> DEFINE pc == IF eligible THEN "certifying" ELSE "recording"
           e == [lab[l] EXCEPT !.pc = pc]
<1>2. lab[l].pc # "idle" /\ pc \in LabPhase /\ lab[l].pc \in Swept /\ lab[l] \in LabRecord
  BY DEF Evidence!Report, LabPhase, Swept, LabInv, LabTypeOK
<1>3. lab' = [lab EXCEPT ![l] = e] /\ e \in LabRecord /\ lab'[l] = e
  BY <1>1, <1>2, GotoIs
<1>4. /\ e.bundle = lab[l].bundle /\ e.candidate = lab[l].candidate /\ e.holdout = lab[l].holdout
      /\ e.judged = lab[l].judged /\ e.passed = lab[l].passed /\ e.pc = pc
  BY <1>2 DEF LabRecord
<1>5. pc = "certifying" => Evidence!Opened(l) /\ lab[l].passed /\ Certified
  BY <1>1
<1>6. Evidence!Opened(l)' = Evidence!Opened(l)
  BY <1>3, <1>4 DEF Evidence!Opened
<1>7. pc \in {"certifying", "recording"} /\ UNCHANGED <<trials, holdouts, promotions, evaluations>>
  BY DEF Evidence!Report
<1> HIDE DEF e, pc
<1> QED BY <1>2, <1>3, <1>4, <1>5, <1>6, <1>7, PhaseStep

LEMMA CertifyStep ==
    ASSUME LabInv, NEW l \in Lab, Evidence!Certify(l)
    PROVE  LabInv'
<1>1. CASE Evidence!Backed(l)
  <2> DEFINE e == [lab[l] EXCEPT !.pc = "inserting"]
  <2>1. /\ lab[l].pc # "idle" /\ "inserting" \in LabPhase /\ Evidence!Goto(l, "inserting") /\ lab[l].pc \in Swept
        /\ LabKnows(l) /\ lab[l].pc = "certifying"
    BY <1>1 DEF Evidence!Certify, LabPhase, Swept, LabInv
  <2>2. lab' = [lab EXCEPT ![l] = e] /\ e \in LabRecord /\ lab'[l] = e
    BY <2>1, GotoIs
  <2>3. /\ e.bundle = lab[l].bundle /\ e.candidate = lab[l].candidate /\ e.holdout = lab[l].holdout
        /\ e.judged = lab[l].judged /\ e.passed = lab[l].passed /\ e.pc = "inserting"
    BY DEF LabInv, LabTypeOK, LabRecord
  <2>4. UNCHANGED <<trials, holdouts, promotions, evaluations>>
    BY DEF Evidence!Certify
  <2> HIDE DEF e
  <2>5. Evidence!Opened(l)' /\ e.passed /\ Certified
    BY <2>1, <2>2, <2>3 DEF LabKnows, Evidence!Opened
  <2>6. /\ holdouts[e.holdout].status = "CONSUMED" /\ holdouts[e.holdout].candidate = e.candidate
        /\ holdouts[e.holdout].passed
    BY <1>1, <2>3 DEF Evidence!Backed, Evidence!Owns
  <2> QED BY <2>1, <2>2, <2>3, <2>4, <2>5, <2>6, PhaseStep
<1>2. CASE ~Evidence!Backed(l)
  BY <1>2, EndingStep DEF Evidence!Certify
<1> QED BY <1>1, <1>2

LEMMA CrashStep ==
    ASSUME LabInv, NEW l \in Lab, Evidence!Crash(l)
    PROVE  LabInv'
  BY EndingStep DEF Evidence!Crash

LEMMA EvaluateStep ==
    ASSUME LabInv, NEW l \in Lab, Evidence!Evaluate(l)
    PROVE  LabInv'
<1> DEFINE id == lab[l].holdout
           n == Len(evaluations) + 1
           new == [holdout |-> id, candidate |-> lab[l].candidate]
<1>1. PICK good \in BOOLEAN : lab' = [lab EXCEPT ![l].passed = good, ![l].pc = "consuming"]
  BY DEF Evidence!Evaluate
<1> DEFINE e == [lab[l] EXCEPT !.passed = good, !.pc = "consuming"]
<1>2. lab[l].pc \in Holding /\ lab[l].pc # "idle" /\ lab[l].pc = "evaluating" /\ lab \in [Lab -> LabRecord]
  BY DEF Evidence!Evaluate, Holding, LabInv, LabTypeOK
<1>3. lab' = [lab EXCEPT ![l] = e] /\ e \in LabRecord /\ lab'[l] = e
  BY <1>1, <1>2, HeldRow DEF LabRecord, LabPhase
<1>4. e.bundle = lab[l].bundle /\ e.candidate = lab[l].candidate /\ e.holdout = id /\ e.pc = "consuming"
  BY <1>2, HeldRow DEF LabRecord
<1> HIDE DEF e
<1>5. UNCHANGED <<trials, holdouts, promotions>> /\ HoldoutsGoOn
  BY RowKept DEF Evidence!Evaluate, LabInv
<1>6. new \in EvaluationRow
  BY <1>2, HeldRow DEF EvaluationRow
<1>7. /\ evaluations' \in Seq(EvaluationRow) /\ Len(evaluations') = n /\ evaluations'[n] = new
      /\ Len(evaluations) \in Nat
      /\ \A i \in 1..Len(evaluations) : evaluations'[i] = evaluations[i]
  BY <1>6 DEF Evidence!Evaluate, LabInv, LabTypeOK
<1>8. \A i \in 1..Len(evaluations') : i \in 1..Len(evaluations) \/ i = n
  BY <1>7
<1>9. ASSUME NEW k, NEW c, Evaluated(k, c) PROVE Evaluated(k, c)'
  BY <1>7, <1>9 DEF Evaluated
<1>10. Evaluated(lab[l].holdout, lab[l].candidate)'
  <2>1. n \in 1..Len(evaluations') /\ evaluations'[n] = [holdout |-> lab'[l].holdout, candidate |-> lab'[l].candidate]
    BY <1>3, <1>4, <1>7
  <2> QED BY <2>1 DEF Evaluated
<1>11. ASSUME NEW m \in Lab PROVE LabKnows(m)'
  <2>1. CASE m = l
    <3>1. LabKnows(l)
      BY DEF LabInv
    <3> QED BY <2>1, <1>2, <1>3, <1>4, <1>5, <1>10, <3>1 DEF LabKnows, Holding, Swept
  <2>2. CASE m # l
    <3>1. \A i \in 1..Len(evaluations') : i > Len(evaluations) =>
               lab[l].pc = "evaluating" /\ evaluations'[i].holdout = lab[l].holdout
      BY <1>2, <1>7, <1>8
    <3>2. Len(evaluations') >= Len(evaluations) /\ trials \subseteq trials'
      BY <1>5, <1>7
    <3> QED BY <2>2, <3>1, <3>2, <1>3, <1>5, <1>7, OthersKnow
  <2> QED BY <2>1, <2>2
<1>12. LabKnows(l)
  BY DEF LabInv
<1>13. ReadAlone'
  <2>1. \A m, k \in Lab : m # k /\ lab'[m].pc = "evaluating" /\ lab'[k].pc = "evaluating" =>
            lab'[m].holdout # lab'[k].holdout
    <3>1. \A m \in Lab : lab'[m] = IF m = l THEN e ELSE lab[m]
      BY <1>2, <1>3
    <3> QED BY <3>1, <1>4 DEF LabInv, ReadAlone
  <2>2. ASSUME NEW i \in 1..Len(evaluations')
        PROVE  /\ evaluations'[i].holdout \in 1..Len(holdouts')
               /\ holdouts'[evaluations'[i].holdout].candidate = evaluations'[i].candidate
               /\ holdouts'[evaluations'[i].holdout].status \notin Unread
    <3>1. CASE i \in 1..Len(evaluations)
      BY <3>1, <1>5, <1>7 DEF LabInv, ReadAlone
    <3>2. CASE i = n
      BY <3>2, <1>2, <1>5, <1>7, <1>12 DEF LabKnows
    <3> QED BY <3>1, <3>2, <1>8
  <2>3. ASSUME NEW i \in 1..Len(evaluations'), NEW j \in 1..Len(evaluations'), i # j
        PROVE  evaluations'[i].holdout # evaluations'[j].holdout
    <3>1. \A k \in 1..Len(evaluations) : evaluations'[k].holdout # id
      BY <1>2, <1>7, <1>12 DEF LabKnows
    <3>2. evaluations'[n].holdout = id
      BY <1>7
    <3>3. CASE i \in 1..Len(evaluations) /\ j \in 1..Len(evaluations)
      BY SMTT(30), <2>3, <3>3, <1>7 DEF LabInv, ReadAlone
    <3> QED BY <2>3, <1>8, <3>1, <3>2, <3>3
  <2> QED BY <2>1, <2>2, <2>3 DEF ReadAlone
<1>14. ConsumedWasRead'
  BY <1>5, <1>9 DEF LabInv, ConsumedWasRead
<1>15. PromotionsStand'
  BY <1>5, PromotionsGoOn
<1>16. LabTypeOK'
  BY <1>2, <1>3, <1>4, <1>5, <1>7, HeldRow DEF LabInv, LabTypeOK
<1> QED BY <1>5, <1>11, <1>13, <1>14, <1>15, <1>16 DEF LabInv, HoldoutsGoOn

LEMMA InsertStep ==
    ASSUME LabInv, NEW l \in Lab, Evidence!Insert(l)
    PROVE  LabInv'
<1> DEFINE p == Evidence!PromotionOf(l, IF lab[l].pc = "inserting" THEN "LIVE_REVIEW_ELIGIBLE" ELSE "SHADOW_ONLY")
<1>1. /\ promotions' = IF p.holdout # 0 /\ Evidence!Promoted(p.holdout) THEN promotions ELSE promotions \cup {p}
      /\ Evidence!End(l) /\ UNCHANGED <<trials, holdouts, evaluations>>
  BY DEF Evidence!Insert
<1>2. LabKnows(l)' /\ Evidence!Idle \in LabRecord /\ Evidence!Idle.pc = "idle" /\ lab' = [lab EXCEPT ![l] = Evidence!Idle]
  BY <1>1, EndKnows
<1>3. HoldoutsGoOn
  BY <1>1, RowKept DEF LabInv
<1>4. /\ p.holdout = IF Evidence!Opened(l) THEN lab[l].holdout ELSE 0
      /\ p.bundle = lab[l].bundle /\ p.candidate = lab[l].candidate
      /\ p.status = "LIVE_REVIEW_ELIGIBLE" => lab[l].pc = "inserting"
  BY DEF Evidence!PromotionOf
<1>5. ASSUME NEW m \in Lab PROVE LabKnows(m)'
  <2>1. CASE m = l
    BY <2>1, <1>2
  <2>2. CASE m # l
    <3>1. /\ evaluations' \in Seq(EvaluationRow) /\ Len(evaluations') >= Len(evaluations)
          /\ \A i \in 1..Len(evaluations) : evaluations'[i] = evaluations[i]
          /\ \A i \in 1..Len(evaluations') : ~(i > Len(evaluations))
      BY <1>1 DEF LabInv, LabTypeOK
    <3> QED BY <2>2, <3>1, <1>1, <1>2, <1>3, OthersKnow
  <2> QED BY <2>1, <2>2
<1>6. LabTypeOK' /\ ConsumedWasRead'
  BY <1>1, <1>2 DEF LabInv, LabTypeOK, ConsumedWasRead, Evaluated
<1>7. ReadAlone'
  <2>1. \A m \in Lab : lab'[m] = IF m = l THEN Evidence!Idle ELSE lab[m]
    BY <1>2 DEF LabInv, LabTypeOK
  <2> QED BY <1>1, <1>2, <2>1 DEF LabInv, ReadAlone
<1>8. PromotionsStand'
  <2>1. LabKnows(l) /\ (lab[l].pc = "inserting" => lab[l].pc # "idle")
    BY DEF LabInv
  <2>2. p.status = "LIVE_REVIEW_ELIGIBLE" =>
            /\ p.holdout \in 1..Len(holdouts) /\ Certified
            /\ <<p.bundle, p.candidate>> \in trials
            /\ LET row == holdouts[p.holdout] IN
               row.status = "CONSUMED" /\ row.candidate = p.candidate /\ row.bundle = p.bundle /\ row.passed
    <3> SUFFICES ASSUME lab[l].pc = "inserting"
                 PROVE  /\ p.holdout \in 1..Len(holdouts) /\ Certified
                        /\ <<p.bundle, p.candidate>> \in trials
                        /\ LET row == holdouts[p.holdout] IN
                           row.status = "CONSUMED" /\ row.candidate = p.candidate /\ row.bundle = p.bundle /\ row.passed
      BY <1>4
    <3>1. Evidence!Opened(l) /\ Certified /\ p.holdout = lab[l].holdout /\ p.holdout # 0
      BY <2>1, <1>4 DEF LabKnows, Evidence!Opened
    <3> HIDE DEF p
    <3> QED BY <2>1, <3>1, <1>4 DEF LabKnows, Swept
  <2> HIDE DEF p
  <2>3. \A q \in promotions' : q \in promotions \/ q = p
    BY <1>1
  <2>4. \A q \in promotions : p \in promotions' /\ p \notin promotions /\ p.holdout # 0 => q.holdout # p.holdout
    BY <1>1 DEF Evidence!Promoted
  <2>5. ASSUME NEW q \in promotions', q.status = "LIVE_REVIEW_ELIGIBLE"
        PROVE  /\ q.holdout \in 1..Len(holdouts) /\ Certified
               /\ <<q.bundle, q.candidate>> \in trials
               /\ LET row == holdouts[q.holdout] IN
                  row.status = "CONSUMED" /\ row.candidate = q.candidate /\ row.bundle = q.bundle /\ row.passed
    BY <2>2, <2>3, <2>5 DEF LabInv, PromotionsStand
  <2>6. ASSUME NEW q \in promotions', NEW r \in promotions', q.holdout = r.holdout, q.holdout # 0
        PROVE  q = r
    BY <2>3, <2>4, <2>6 DEF LabInv, PromotionsStand
  <2> QED BY <1>1, <2>5, <2>6 DEF PromotionsStand
<1> QED BY <1>3, <1>5, <1>6, <1>7, <1>8 DEF LabInv, HoldoutsGoOn

-----------------------------------------------------------------------------
LEMMA LabSteps == Evidence!BundleAssumption /\ LabInv /\ [Evidence!Next]_(Evidence!vars) => LabInv'
<1> SUFFICES ASSUME Evidence!BundleAssumption, LabInv, [Evidence!Next]_(Evidence!vars) PROVE LabInv'
  OBVIOUS
<1>1. CASE UNCHANGED Evidence!vars
  BY <1>1 DEF Evidence!vars, LabInv, LabTypeOK, LabKnows, Evidence!Opened, Evaluated, ReadAlone, ConsumedWasRead,
     PromotionsStand, Evidence!SealedLater
<1>2. ASSUME NEW l \in Lab, Evidence!Step(l) PROVE LabInv'
  BY <1>2, StartUnsealedStep, ReserveStep, InvalidateUncleanStep, RecordTrialsStep, JudgeStep, FreezeStep,
     ClaimStep, EvaluateStep, ConsumeStep, FailStep, InvalidateFailedStep, ReportStep, CertifyStep,
     InsertStep, CrashStep DEF Evidence!Step
<1> QED BY <1>1, <1>2 DEF Evidence!Next

LEMMA LabSealsOnce ==
    ASSUME Evidence!BundleAssumption, LabInv
    PROVE  Evidence!SealedOnce /\ Evidence!SealedLater
<1>1. DOMAIN evaluations = 1..Len(evaluations) /\ Len(holdouts) \in Nat
  BY DEF LabInv, LabTypeOK
<1>2. ASSUME NEW i \in 1..Len(evaluations), NEW j \in 1..Len(evaluations), i # j
      PROVE  ~Evidence!Overlap(holdouts[evaluations[i].holdout].bundle, holdouts[evaluations[j].holdout].bundle)
  <2> DEFINE a == evaluations[i].holdout
             b == evaluations[j].holdout
  <2>1. a \in 1..Len(holdouts) /\ b \in 1..Len(holdouts) /\ a # b
    BY <1>2 DEF LabInv, ReadAlone
  <2>2. holdouts[a].bundle \in Bundle /\ holdouts[b].bundle \in Bundle
    <3>1. \A k \in 1..Len(holdouts) : holdouts[k] \in HoldoutRow
      BY DEF LabInv, LabTypeOK
    <3> QED BY <2>1, <3>1 DEF HoldoutRow
  <2>3. /\ holdouts[a].bundle.start \in Nat /\ holdouts[a].bundle.end \in Nat
        /\ holdouts[b].bundle.start \in Nat /\ holdouts[b].bundle.end \in Nat
    BY <2>2 DEF Evidence!BundleAssumption
  <2>4. (a < b => holdouts[a].bundle.end < holdouts[b].bundle.start)
        /\ (b < a => holdouts[b].bundle.end < holdouts[a].bundle.start)
    BY <2>1, <1>1 DEF LabInv, LabTypeOK, Evidence!SealedLater
  <2> QED BY SMTT(30), <2>1, <2>3, <2>4, <1>1 DEF Evidence!Overlap
<1> QED BY <1>1, <1>2 DEF Evidence!SealedOnce, LabInv, ReadAlone

LEMMA LabEarnsEvidence ==
    ASSUME LabInv
    PROVE  Evidence!EvidenceEarned
<1> SUFFICES ASSUME NEW p \in promotions, p.status = "LIVE_REVIEW_ELIGIBLE"
             PROVE  /\ \E i \in DOMAIN evaluations :
                          evaluations[i] = [holdout |-> p.holdout, candidate |-> p.candidate]
                    /\ <<p.bundle, p.candidate>> \in trials
                    /\ p \in Evidence!LiveEvidence(p.candidate)
                    /\ \A q \in promotions : q.holdout = p.holdout => q = p
  BY DEF Evidence!EvidenceEarned
<1>1. /\ p.holdout \in 1..Len(holdouts) /\ Certified /\ <<p.bundle, p.candidate>> \in trials
      /\ LET row == holdouts[p.holdout] IN
         row.status = "CONSUMED" /\ row.candidate = p.candidate /\ row.bundle = p.bundle /\ row.passed
  BY DEF LabInv, PromotionsStand
<1>2. p.holdout # 0 /\ DOMAIN evaluations = 1..Len(evaluations)
  BY <1>1 DEF LabInv, LabTypeOK
<1>3. Evaluated(p.holdout, p.candidate)
  BY <1>1 DEF LabInv, ConsumedWasRead
<1>4. p \in Evidence!LiveEvidence(p.candidate)
  BY <1>1 DEF Evidence!LiveEvidence
<1>5. \A q \in promotions : q.holdout = p.holdout => q = p
  BY <1>2 DEF LabInv, PromotionsStand
<1> QED BY <1>1, <1>2, <1>3, <1>4, <1>5 DEF Evaluated

-----------------------------------------------------------------------------
(* StrategySelection.  Every read of sessions has a place in its search, and
   the reads are in the order of what they are for. *)

Rules == {Search!Cash, "shortlist", "selected"} \cup {Shortlist[i] : i \in 1..Len(Shortlist)}
StudyPhase == {"idle", "walking", "raised", "judging", "done", "developing", "chosen", "cancelled"}
StudyRecord ==
    [kind : {"none", "lab", "compare"}, pc : StudyPhase, development : Nat, holdout : Int \X Int, cursor : Nat,
     verdicts : Seq(0..2), chosen : Rules]
ReadRecord ==
    [why : {"train", "test", "judge", "final"}, for : Nat \cup Rules, window : Int \X Int]

(* Where a search is. *)
StudyStands ==
    /\ study \in StudyRecord /\ reads \in Seq(ReadRecord)
    /\ study.pc # "raised"
    /\ study.kind = "none" <=> study.pc = "idle"
    /\ study.pc = "idle" => reads = <<>>
    /\ study.pc = "walking" => study.kind = "lab" /\ study.development >= 15
                               /\ (reads = <<>> => study.cursor = 0)
    /\ study.pc \in {"developing", "chosen"} => study.kind = "compare"
    /\ study.kind = "compare" => study.development >= 20
    /\ study.kind = "compare" \/ (study.kind = "lab" /\ Search!Sealed) => study.holdout[1] = study.development + 2

Train(s) == Search!TrainSessions(s.development)
Test(s) == Search!TestSessions(s.development)

(* Every read lies in the part of the sessions that is its own. *)
ReadInPlace(s, r) ==
    /\ r.why # "final" => r.window[2] <= s.development
    /\ r.why = "final" => s.pc = "done" /\ r.window[1] = s.development + 2
    /\ r.why \in {"train", "test"} =>
           /\ r.for \in Nat /\ r.for + Test(s) <= s.cursor
           /\ r.window = IF r.why = "train" THEN <<r.for + 1, r.for + Train(s)>>
                         ELSE <<r.for + Train(s) + 2, r.for + Train(s) + 1 + Test(s)>>

(* What a later read q may be. *)
ReadInOrder(s, r, q) ==
    /\ r.why = "final" => q.why = "final" /\ q.for = Search!Cash
    /\ r.why = "test" /\ q.why = "test" => r.for + Test(s) <= q.for
    /\ r.why = "test" /\ q.why = "train" => r.for # q.for

ReadsKept(s, all) ==
    /\ \A i \in 1..Len(all) : ReadInPlace(s, all[i])
    /\ \A i, j \in 1..Len(all) : i < j => ReadInOrder(s, all[i], all[j])

SelectionInv == StudyStands /\ ReadsKept(study, reads)

-----------------------------------------------------------------------------
LEMMA IdleStudy == Search!Idle \in StudyRecord
<1>1. <<>> \in Seq(0..2) /\ <<1, 0>> \in Int \X Int
  OBVIOUS
<1>2. Search!Cash \in Rules
  BY DEF Rules
<1>3. "none" \in {"none", "lab", "compare"} /\ "idle" \in StudyPhase
  BY DEF StudyPhase
<1> QED BY <1>1, <1>2, <1>3 DEF Search!Idle, StudyRecord

LEMMA SelectionStarts == Search!Init => SelectionInv
<1> SUFFICES ASSUME Search!Init PROVE SelectionInv
  OBVIOUS
<1>1. /\ study \in StudyRecord /\ reads \in Seq(ReadRecord) /\ reads = <<>> /\ study.kind = "none" /\ study.pc = "idle"
  BY IdleStudy DEF Search!Init, Search!Idle
<1> QED BY <1>1 DEF SelectionInv, StudyStands, ReadsKept, Search!Sealed

LEMMA LabLengths ==
    ASSUME NEW d \in Nat
    PROVE  /\ Search!TestSessions(d) \in 1..5 /\ Search!TrainSessions(d) \in 5..20
           /\ d >= 15 => Search!TrainSessions(d) + 1 + Search!TestSessions(d) <= d
<1>1. d \div 7 \in Nat
  OBVIOUS
<1>2. Search!TestSessions(d) \in 1..5
  BY <1>1 DEF Search!TestSessions, Search!Most, Search!Least
<1>3. Search!TrainSessions(d) \in 5..20 /\ (d >= 15 => Search!TrainSessions(d) + 1 + Search!TestSessions(d) <= d)
  BY <1>2 DEF Search!TrainSessions, Search!Most, Search!Least
<1> QED BY <1>2, <1>3

(* Reads are added at the end. *)
LEMMA ReadsAdded ==
    ASSUME NEW s \in StudyRecord, NEW t \in StudyRecord, NEW old \in Seq(ReadRecord), NEW more \in Seq(ReadRecord),
           ReadsKept(s, old),
           t.development = s.development, t.cursor >= s.cursor, s.pc = "done" => t.pc = "done",
           \A k \in 1..Len(more) : ReadInPlace(t, more[k]),
           \A i \in 1..Len(old), k \in 1..Len(more) : ReadInOrder(t, old[i], more[k]),
           \A k, m \in 1..Len(more) : k < m => ReadInOrder(t, more[k], more[m])
    PROVE  ReadsKept(t, old \o more)
<1> DEFINE all == old \o more
<1>1. Len(old) \in Nat /\ Len(more) \in Nat
  OBVIOUS
<1>2. /\ Len(all) = Len(old) + Len(more)
      /\ \A i \in 1..Len(old) : all[i] = old[i] /\ old[i] \in ReadRecord
      /\ \A i \in 1..Len(all) : i > Len(old) => all[i] = more[i - Len(old)] /\ i - Len(old) \in 1..Len(more)
  BY <1>1
<1> HIDE DEF all
<1>3. s.cursor \in Nat /\ t.cursor \in Nat /\ s.development \in Nat
  BY DEF StudyRecord
<1>4. Test(s) \in 1..5 /\ Train(s) \in 5..20 /\ Test(t) = Test(s) /\ Train(t) = Train(s)
  BY <1>3, LabLengths DEF Test, Train
<1>5. ASSUME NEW i \in 1..Len(old) PROVE ReadInPlace(t, all[i])
  <2>1. ReadInPlace(s, old[i]) /\ all[i] = old[i]
    BY <1>2 DEF ReadsKept
  <2> DEFINE r == old[i]
  <2> HIDE DEF r
  <2>2. ReadInPlace(t, r)
    <3>1. ReadInPlace(s, r)
      BY <2>1 DEF r
    <3>2. r.why # "final" => r.window[2] <= t.development
      BY <3>1 DEF ReadInPlace
    <3>3. r.why = "final" => t.pc = "done" /\ r.window[1] = t.development + 2
      BY <3>1 DEF ReadInPlace
    <3>4. r.why \in {"train", "test"} => r.for \in Nat /\ r.for + Test(t) <= t.cursor
      <4> SUFFICES ASSUME r.why \in {"train", "test"} PROVE r.for \in Nat /\ r.for + Test(t) <= t.cursor
        OBVIOUS
      <4>1. r.for \in Nat /\ r.for + Test(s) <= s.cursor
        BY <3>1 DEF ReadInPlace
      <4> QED BY SMTT(30), <4>1, <1>3, <1>4
    <3>5. r.why \in {"train", "test"} =>
              r.window = IF r.why = "train" THEN <<r.for + 1, r.for + Train(t)>>
                         ELSE <<r.for + Train(t) + 2, r.for + Train(t) + 1 + Test(t)>>
      BY <3>1, <1>4 DEF ReadInPlace
    <3> QED BY <3>2, <3>3, <3>4, <3>5 DEF ReadInPlace
  <2> QED BY <2>1, <2>2 DEF r
<1>6. \A i \in 1..Len(all) : i \in 1..Len(old) \/ i > Len(old)
  BY <1>1, <1>2
<1>7. \A i \in 1..Len(all) : ReadInPlace(t, all[i])
  BY <1>2, <1>5, <1>6
<1>8. ASSUME NEW i \in 1..Len(all), NEW j \in 1..Len(all), i < j
      PROVE  ReadInOrder(t, all[i], all[j])
  <2>1. CASE i \in 1..Len(old) /\ j \in 1..Len(old)
    <3>1. ReadInOrder(s, old[i], old[j]) /\ all[i] = old[i] /\ all[j] = old[j]
      BY <1>2, <1>8, <2>1 DEF ReadsKept
    <3> QED BY <3>1, <1>4 DEF ReadInOrder
  <2>2. CASE i \in 1..Len(old) /\ j > Len(old)
    BY <1>1, <1>2, <2>2
  <2>3. CASE i > Len(old)
    <3>1. j > Len(old) /\ i - Len(old) < j - Len(old)
      BY <1>1, <1>8, <1>2, <2>3
    <3> QED BY <1>2, <2>3, <3>1
  <2> QED BY <1>1, <1>2, <1>8, <2>1, <2>2, <2>3
<1> QED BY <1>7, <1>8 DEF ReadsKept, all

LEMMA NothingRead ==
    ASSUME SelectionInv, StudyStands', UNCHANGED reads,
           study'.development = study.development, study'.cursor = study.cursor,
           study.pc = "done" => study'.pc = "done"
    PROVE  SelectionInv'
<1>1. ReadsKept(study', reads)
  BY DEF SelectionInv, ReadsKept, ReadInPlace, ReadInOrder, Test, Train
<1> QED BY <1>1 DEF SelectionInv

LEMMA StudyBegins ==
    ASSUME SelectionInv, StudyStands', UNCHANGED reads, study.pc = "idle"
    PROVE  SelectionInv'
  BY DEF SelectionInv, StudyStands, ReadsKept

-----------------------------------------------------------------------------
LEMMA BeginLabStep == Search!SelectionAssumption /\ SelectionInv /\ Search!BeginLab => SelectionInv'
<1> SUFFICES ASSUME Search!SelectionAssumption, SelectionInv, Search!BeginLab PROVE SelectionInv'
  OBVIOUS
<1>1. PICK n \in LabSize, sealed \in BOOLEAN :
          LET whole == [development |-> n, holdout |-> <<1, 0>>]
              split == IF sealed THEN Search!Split(n) ELSE whole
          IN  /\ sealed => n >= Search!HoldoutSessions + Search!PurgeSessions + 1
              /\ study' = [Search!Idle EXCEPT !.kind = "lab", !.development = split.development,
                                       !.holdout = split.holdout,
                                       !.pc = IF split.development >= 15 THEN "walking" ELSE "judging"]
  BY DEF Search!BeginLab
<1>2. n \in Nat
  BY DEF Search!SelectionAssumption
<1> DEFINE d == IF sealed THEN n - 21 ELSE n
           h == IF sealed THEN <<n - 19, n>> ELSE <<1, 0>>
           pc == IF d >= 15 THEN "walking" ELSE "judging"
<1>3. d \in Nat /\ h \in Int \X Int /\ (h[1] <= h[2] => h[1] = d + 2)
  BY <1>1, <1>2 DEF Search!HoldoutSessions, Search!PurgeSessions
<1>4. (IF sealed THEN Search!Split(n) ELSE [development |-> n, holdout |-> <<1, 0>>]) = [development |-> d, holdout |-> h]
  BY <1>2 DEF Search!Split, Search!HoldoutSessions, Search!PurgeSessions
<1>5. study' = [Search!Idle EXCEPT !.kind = "lab", !.development = d, !.holdout = h, !.pc = pc]
  <2> DEFINE sp == IF sealed THEN Search!Split(n) ELSE [development |-> n, holdout |-> <<1, 0>>]
  <2>1. study' = [Search!Idle EXCEPT !.kind = "lab", !.development = sp.development, !.holdout = sp.holdout,
                              !.pc = IF sp.development >= 15 THEN "walking" ELSE "judging"]
    BY <1>1
  <2>2. sp.development = d /\ sp.holdout = h
    BY <1>4
  <2> HIDE DEF sp, d, h
  <2> QED BY <2>1, <2>2
<1>6. pc \in {"walking", "judging"} /\ (pc = "walking" => d >= 15)
  OBVIOUS
<1> HIDE DEF d, h, pc
<1>7. /\ study' \in StudyRecord /\ study'.kind = "lab" /\ study'.development = d /\ study'.holdout = h
      /\ study'.pc = pc /\ study'.cursor = 0
  <2>1. pc \in StudyPhase
    BY <1>6 DEF StudyPhase
  <2> QED BY <1>3, <1>5, <2>1, IdleStudy DEF Search!Idle, StudyRecord
<1>8. reads' \in Seq(ReadRecord) /\ reads' = reads /\ study.pc = "idle"
  BY DEF Search!BeginLab, SelectionInv, StudyStands
<1>9. StudyStands'
  BY <1>3, <1>6, <1>7, <1>8 DEF StudyStands, Search!Sealed
<1> QED BY <1>8, <1>9, StudyBegins

LEMMA FoldStep == SelectionInv /\ Search!Fold => SelectionInv'
<1> SUFFICES ASSUME SelectionInv, Search!Fold PROVE SelectionInv'
  OBVIOUS
<1> DEFINE d == study.development
           a == Search!Read("train", study.cursor, <<study.cursor + 1, study.cursor + Train(study)>>)
           b == Search!Read("test", study.cursor, <<study.cursor + Train(study) + 2, Search!FoldEnd>>)
           more == <<a, b>>
           next == [study EXCEPT !.cursor = @ + Test(study)]
<1>1. study \in StudyRecord /\ study.pc = "walking" /\ study.kind = "lab" /\ d >= 15 /\ d \in Nat /\ study.cursor \in Nat
  BY DEF SelectionInv, StudyStands, Search!Fold, StudyRecord
<1>2. Test(study) \in 1..5 /\ Train(study) \in 5..20
  BY <1>1, LabLengths DEF Test, Train
<1>3. Search!FoldEnd = study.cursor + Train(study) + 1 + Test(study) /\ Search!FoldEnd <= d
  BY DEF Search!FoldEnd, Train, Test, Search!Fold
<1>4. reads' = reads \o more /\ study' = next
  BY DEF Search!Fold, Train, Test
<1>5. a \in ReadRecord /\ b \in ReadRecord
  BY <1>1, <1>2, <1>3 DEF Search!Read, ReadRecord
<1>6. /\ next.cursor = study.cursor + Test(study) /\ next.development = d /\ next.holdout = study.holdout
      /\ next.pc = study.pc /\ next.kind = study.kind /\ next \in StudyRecord
  BY SMTT(30), <1>1, <1>2 DEF StudyRecord
<1>7. /\ a.why = "train" /\ a.for = study.cursor /\ a.window = <<study.cursor + 1, study.cursor + Train(study)>>
      /\ b.why = "test" /\ b.for = study.cursor
      /\ b.window = <<study.cursor + Train(study) + 2, study.cursor + Train(study) + 1 + Test(study)>>
  BY <1>3 DEF Search!Read
<1> HIDE DEF a, b, next
<1>8. more \in Seq(ReadRecord) /\ Len(more) = 2 /\ more[1] = a /\ more[2] = b
  BY <1>5
<1> HIDE DEF more
<1>9. reads \in Seq(ReadRecord) /\ ReadsKept(study, reads)
  BY DEF SelectionInv, StudyStands
<1>10. reads' \in Seq(ReadRecord) /\ reads' # <<>>
  BY <1>4, <1>8, <1>9
<1>11. StudyStands'
  BY <1>1, <1>4, <1>6, <1>10 DEF SelectionInv, StudyStands, Search!Sealed
<1>12. Test(next) = Test(study) /\ Train(next) = Train(study)
  BY <1>6 DEF Test, Train
<1>13. a.window[2] = study.cursor + Train(study) /\ b.window[2] = study.cursor + Train(study) + 1 + Test(study)
  BY <1>7
<1>14. ReadInPlace(next, a) /\ ReadInPlace(next, b)
  BY <1>1, <1>2, <1>3, <1>6, <1>7, <1>12, <1>13 DEF ReadInPlace
<1>15. ASSUME NEW i \in 1..Len(reads) PROVE ReadInOrder(next, reads[i], a) /\ ReadInOrder(next, reads[i], b)
  <2>1. ReadInPlace(study, reads[i])
    BY <1>9 DEF ReadsKept
  <2> QED BY <2>1, <1>1, <1>2, <1>7, <1>12 DEF ReadInPlace, ReadInOrder
<1>16. ReadInOrder(next, a, b)
  BY <1>7 DEF ReadInOrder
<1>17. /\ \A k \in 1..Len(more) : ReadInPlace(next, more[k])
       /\ \A i \in 1..Len(reads), k \in 1..Len(more) : ReadInOrder(next, reads[i], more[k])
       /\ \A k, m \in 1..Len(more) : k < m => ReadInOrder(next, more[k], more[m])
  BY <1>8, <1>14, <1>15, <1>16
<1>18. next.cursor >= study.cursor
  BY <1>1, <1>2, <1>6
<1>19. ReadsKept(next, reads \o more)
  BY <1>1, <1>6, <1>8, <1>9, <1>17, <1>18, ReadsAdded
<1> QED BY <1>4, <1>11, <1>19 DEF SelectionInv

LEMMA EndWalkStep == SelectionInv /\ Search!EndWalk => SelectionInv'
<1> SUFFICES ASSUME SelectionInv, Search!EndWalk PROVE SelectionInv'
  OBVIOUS
<1>1. /\ study \in StudyRecord /\ study.pc = "walking" /\ study.kind = "lab" /\ study.development >= 15
      /\ study.development \in Nat /\ (reads = <<>> => study.cursor = 0)
  BY DEF SelectionInv, StudyStands, Search!EndWalk, StudyRecord
<1>2. reads # <<>>
  <2> DEFINE test == Search!TestSessions(study.development)
             train == Search!TrainSessions(study.development)
  <2>1. test \in 1..5 /\ train \in 5..20 /\ train + 1 + test <= study.development
    BY <1>1, LabLengths
  <2>2. study.cursor + train + 1 + test > study.development
    BY DEF Search!EndWalk, Search!FoldEnd
  <2> HIDE DEF test, train
  <2>3. study.cursor # 0
    BY <1>1, <2>1, <2>2
  <2> QED BY <1>1, <2>3
<1>3. study' = [study EXCEPT !.pc = "judging"] /\ UNCHANGED reads
  BY <1>2 DEF Search!EndWalk
<1>4. /\ study' \in StudyRecord /\ study'.kind = "lab" /\ study'.development = study.development
      /\ study'.holdout = study.holdout /\ study'.pc = "judging" /\ study'.cursor = study.cursor
  BY <1>1, <1>3 DEF StudyRecord, StudyPhase
<1>5. StudyStands'
  BY <1>1, <1>3, <1>4 DEF SelectionInv, StudyStands, Search!Sealed
<1> QED BY <1>1, <1>3, <1>4, <1>5, NothingRead

(* The last reads of a search. *)
LEMMA LastReads ==
    ASSUME SelectionInv, NEW more \in Seq(ReadRecord), reads' = reads \o more,
           study.pc \in {"judging", "chosen"}, study' = [study EXCEPT !.pc = "done"],
           \A k \in 1..Len(more) :
               more[k].why = "final" /\ more[k].window = study.holdout /\ (k > 1 => more[k].for = Search!Cash),
           Len(more) > 0 => study.kind = "compare" \/ (study.kind = "lab" /\ Search!Sealed)
    PROVE  SelectionInv'
<1>1. /\ study \in StudyRecord /\ reads \in Seq(ReadRecord) /\ ReadsKept(study, reads) /\ study.pc # "done"
      /\ study.kind # "none"
  BY DEF SelectionInv, StudyStands
<1> DEFINE next == [study EXCEPT !.pc = "done"]
<1>2. /\ next \in StudyRecord /\ next.development = study.development /\ next.cursor = study.cursor
      /\ next.pc = "done" /\ next.kind = study.kind /\ next.holdout = study.holdout
      /\ study.cursor \in Nat
  BY <1>1 DEF StudyRecord, StudyPhase
<1> HIDE DEF next
<1>3. StudyStands'
  <2>1. reads' \in Seq(ReadRecord) /\ study' = next
    BY <1>1 DEF next
  <2> QED BY <1>1, <1>2, <2>1 DEF SelectionInv, StudyStands, Search!Sealed
<1>4. \A i \in 1..Len(reads) : ReadInPlace(study, reads[i]) /\ reads[i].why # "final"
  BY <1>1 DEF ReadsKept, ReadInPlace
<1>5. Len(more) > 0 => study.holdout[1] = study.development + 2
  BY DEF SelectionInv, StudyStands
<1>6. \A k \in 1..Len(more) : ReadInPlace(next, more[k])
  BY <1>2, <1>5 DEF ReadInPlace
<1>7. \A i \in 1..Len(reads), k \in 1..Len(more) : ReadInOrder(next, reads[i], more[k])
  BY <1>4 DEF ReadInOrder
<1>8. \A k, m \in 1..Len(more) : k < m => ReadInOrder(next, more[k], more[m])
  BY DEF ReadInOrder
<1>9. ReadsKept(next, reads \o more)
  <2>1. next.cursor >= study.cursor
    BY <1>2
  <2> QED BY <1>1, <1>2, <1>6, <1>7, <1>8, <2>1, ReadsAdded
<1> QED BY <1>3, <1>9 DEF SelectionInv, next

(* There is a first one of the best. *)
LEMMA FirstOfTheBest ==
    ASSUME SelectionInv, Len(study.verdicts) = Len(Shortlist)
    PROVE  Search!Choice \in Rules
<1>1. /\ study.verdicts \in Seq(0..2) /\ Search!Eligible \subseteq 1..Len(study.verdicts)
      /\ \A i \in Search!Eligible : study.verdicts[i] \in {1, 2}
  BY DEF SelectionInv, StudyStands, StudyRecord, Search!Eligible
<1>2. CASE Search!Eligible = {}
  BY <1>2 DEF Search!Choice, Rules
<1>3. CASE Search!Eligible # {}
  <2> DEFINE best == IF \E i \in Search!Eligible : study.verdicts[i] = 2 THEN 2 ELSE 1
             T == {i \in Search!Eligible : study.verdicts[i] = best}
  <2>1. T # {} /\ T \subseteq Nat /\ \A i \in Search!Eligible : study.verdicts[i] <= best
    <3>1. CASE \E i \in Search!Eligible : study.verdicts[i] = 2
      <4>1. best = 2
        BY <3>1
      <4> HIDE DEF best
      <4>2. T # {}
        BY <3>1, <4>1
      <4>3. \A i \in Search!Eligible : study.verdicts[i] <= 2
        BY <1>1
      <4>4. T \subseteq Nat
        <5>1. T \subseteq Search!Eligible
          OBVIOUS
        <5>2. 1..Len(study.verdicts) \subseteq Nat
          OBVIOUS
        <5> QED BY <1>1, <5>1, <5>2
      <4> QED BY <4>1, <4>2, <4>3, <4>4
    <3>2. CASE ~\E i \in Search!Eligible : study.verdicts[i] = 2
      <4>1. \A i \in Search!Eligible : study.verdicts[i] = 1
        BY <1>1, <3>2
      <4>2. best = 1
        BY <3>2
      <4> HIDE DEF best
      <4>3. T = Search!Eligible
        BY <4>1, <4>2
      <4>4. T # {}
        BY <1>3, <4>3
      <4>5. T \subseteq Nat
        <5>1. 1..Len(study.verdicts) \subseteq Nat
          OBVIOUS
        <5> QED BY <1>1, <4>3, <5>1
      <4>6. \A i \in Search!Eligible : study.verdicts[i] <= best
        BY <4>1, <4>2
      <4> QED BY <4>4, <4>5, <4>6
    <3> QED BY <3>1, <3>2
  <2>2. best \in {1, 2}
    OBVIOUS
  <2> HIDE DEF best
  <2>3. PICK i \in T : \A j \in T : i <= j
    BY <2>1, LeastNat
  <2>4. i \in Search!Eligible /\ study.verdicts[i] = best
    BY <2>3
  <2>5. \A j \in Search!Eligible : study.verdicts[i] > study.verdicts[j]
                            \/ (study.verdicts[i] = study.verdicts[j] /\ i <= j)
    BY <1>1, <2>1, <2>2, <2>3, <2>4
  <2> DEFINE first == CHOOSE k \in Search!Eligible : \A j \in Search!Eligible :
                         \/ study.verdicts[k] > study.verdicts[j]
                         \/ study.verdicts[k] = study.verdicts[j] /\ k <= j
  <2>6. first \in Search!Eligible
    BY <2>4, <2>5
  <2>7. first \in 1..Len(Shortlist) /\ Search!Choice = Shortlist[first]
    BY <1>1, <1>3, <2>6 DEF Search!Choice
  <2> HIDE DEF first
  <2> QED BY <2>7 DEF Rules
<1> QED BY <1>2, <1>3

LEMMA JudgeLabStep == SelectionInv /\ Search!JudgeLab => SelectionInv'
<1> SUFFICES ASSUME SelectionInv, Search!JudgeLab PROVE SelectionInv'
  OBVIOUS
<1> DEFINE r == Search!Read("final", "selected", study.holdout)
<1>1. study \in StudyRecord /\ reads \in Seq(ReadRecord) /\ study.kind = "lab" /\ study.pc = "judging"
      /\ study' = [study EXCEPT !.pc = "done"]
  BY DEF SelectionInv, StudyStands, Search!JudgeLab
<1>2. r \in ReadRecord /\ r.why = "final" /\ r.window = study.holdout
  BY <1>1 DEF StudyRecord, ReadRecord, Search!Read, Rules
<1> HIDE DEF r
<1>3. CASE Search!Sealed /\ reads' = Append(reads, r)
  <2> DEFINE more == <<r>>
  <2>1. more \in Seq(ReadRecord) /\ reads' = reads \o more /\ Len(more) = 1 /\ more[1] = r
    BY <1>1, <1>2, <1>3
  <2> HIDE DEF more
  <2> QED BY SMTT(30), <1>1, <1>2, <1>3, <2>1, LastReads
<1>4. CASE reads' = reads
  <2> DEFINE more == <<>>
  <2>1. more \in Seq(ReadRecord) /\ reads' = reads \o more /\ ~(Len(more) > 0) /\ \A k \in 1..Len(more) : FALSE
    BY <1>1, <1>4
  <2> HIDE DEF more
  <2> QED BY <1>1, <2>1, LastReads
<1> QED BY <1>3, <1>4 DEF Search!JudgeLab, r

LEMMA CompareBounds ==
    ASSUME NEW n \in Nat, n >= 30, NEW b \in Search!Boundary(n)
    PROVE  b \in Nat /\ b >= 20
<1>1. (7 * n) \div 10 \in Nat /\ (7 * n) \div 10 >= 21
  OBVIOUS
<1> QED BY <1>1 DEF Search!Boundary

LEMMA BeginCompareStep == Search!SelectionAssumption /\ SelectionInv /\ Search!BeginCompare => SelectionInv'
<1> SUFFICES ASSUME Search!SelectionAssumption, SelectionInv, Search!BeginCompare PROVE SelectionInv'
  OBVIOUS
<1>1. PICK n \in CompareSize : n >= 30 /\ \E b \in Search!Boundary(n) :
            study' = [Search!Idle EXCEPT !.kind = "compare", !.pc = "developing", !.development = b,
                                  !.holdout = <<b + 2, n>>]
  BY DEF Search!BeginCompare
<1>2. PICK b \in Search!Boundary(n) :
            study' = [Search!Idle EXCEPT !.kind = "compare", !.pc = "developing", !.development = b,
                                  !.holdout = <<b + 2, n>>]
  BY <1>1
<1>3. b \in Nat /\ b >= 20 /\ <<b + 2, n>> \in Int \X Int /\ "developing" \in StudyPhase
  BY <1>1, <1>2, CompareBounds DEF Search!SelectionAssumption, StudyPhase
<1>4. /\ study' \in StudyRecord /\ study'.kind = "compare" /\ study'.development = b /\ study'.holdout = <<b + 2, n>>
      /\ study'.pc = "developing"
  BY <1>2, <1>3, IdleStudy DEF Search!Idle, StudyRecord
<1>5. reads' \in Seq(ReadRecord) /\ reads' = reads /\ study.pc = "idle"
  BY DEF Search!BeginCompare, SelectionInv, StudyStands
<1>6. StudyStands'
  BY <1>3, <1>4, <1>5 DEF StudyStands, Search!Sealed
<1> QED BY <1>5, <1>6, StudyBegins

LEMMA Thirds ==
    ASSUME NEW d \in Nat, d >= 3, NEW i \in 1..3
    PROVE  /\ Search!Block(d, i)[1] \in 1..d /\ Search!Block(d, i)[2] \in 1..d
           /\ Search!Block(d, i)[1] <= Search!Block(d, i)[2]
<1>1. CASE i = 1
  BY <1>1 DEF Search!Block
<1>2. CASE i = 2
  BY <1>2 DEF Search!Block
<1>3. CASE i = 3
  BY <1>3 DEF Search!Block
<1> QED BY <1>1, <1>2, <1>3

LEMMA JudgeRuleStep == SelectionInv /\ Search!JudgeRule => SelectionInv'
<1> SUFFICES ASSUME SelectionInv, Search!JudgeRule PROVE SelectionInv'
  OBVIOUS
<1> DEFINE d == study.development
           more == Search!DevelopmentReads(d)
<1>1. /\ study \in StudyRecord /\ reads \in Seq(ReadRecord) /\ ReadsKept(study, reads) /\ study.pc = "developing"
      /\ study.kind = "compare" /\ d \in Nat /\ d >= 20 /\ study.holdout[1] = d + 2
  BY DEF SelectionInv, StudyStands, Search!JudgeRule, StudyRecord
<1>2. PICK worst \in 0..2 : study' = [study EXCEPT !.verdicts = Append(@, worst)]
  BY DEF Search!JudgeRule
<1> DEFINE next == [study EXCEPT !.verdicts = Append(@, worst)]
<1>3. /\ next \in StudyRecord /\ next.development = d /\ next.pc = "developing" /\ next.kind = "compare"
      /\ next.holdout = study.holdout /\ next.cursor = study.cursor /\ study.cursor \in Nat
  <2>1. Append(study.verdicts, worst) \in Seq(0..2)
    BY <1>1 DEF StudyRecord
  <2> QED BY <1>1, <2>1 DEF StudyRecord
<1> HIDE DEF next
<1>4. /\ more \in Seq(ReadRecord)
      /\ \A k \in 1..Len(more) : more[k].why = "judge" /\ more[k].window[2] <= d
  <2> DEFINE r == Search!Read("judge", "shortlist", <<1, d>>)
             blocks == [i \in 1..3 |-> Search!Read("judge", "shortlist", Search!Block(d, i))]
  <2>1. r \in ReadRecord /\ r.why = "judge" /\ r.window[2] <= d
    BY <1>1 DEF Search!Read, ReadRecord, Rules
  <2>2. \A i \in 1..3 : Search!Block(d, i) \in Int \X Int /\ Search!Block(d, i)[2] <= d
    <3> SUFFICES ASSUME NEW i \in 1..3 PROVE Search!Block(d, i) \in Int \X Int /\ Search!Block(d, i)[2] <= d
      OBVIOUS
    <3>1. Search!Block(d, i)[1] \in 1..d /\ Search!Block(d, i)[2] \in 1..d
      BY <1>1, Thirds
    <3>2. Search!Block(d, i) = <<Search!Block(d, i)[1], Search!Block(d, i)[2]>>
      BY DEF Search!Block
    <3> QED BY <1>1, <3>1, <3>2
  <2>3. \A i \in 1..3 : blocks[i] \in ReadRecord /\ blocks[i].why = "judge" /\ blocks[i].window[2] <= d
    BY <2>2 DEF Search!Read, ReadRecord, Rules
  <2>4. more = <<r>> \o blocks
    BY DEF Search!DevelopmentReads
  <2> HIDE DEF r, blocks, more
  <2>5. blocks \in Seq(ReadRecord) /\ Len(blocks) = 3
    BY <2>3 DEF blocks
  <2> DEFINE A == <<r>>
  <2>6. A \in Seq(ReadRecord) /\ Len(A) = 1 /\ A[1] = r /\ more = A \o blocks
    BY <2>1, <2>4
  <2> HIDE DEF A
  <2>7. more \in Seq(ReadRecord) /\ Len(more) = 4 /\ more[1] = r /\ more[2] = blocks[1] /\ more[3] = blocks[2] /\ more[4] = blocks[3]
    <3>1. A \o blocks \in Seq(ReadRecord) /\ Len(A \o blocks) = 4
      <4>1. A \o blocks \in Seq(ReadRecord) /\ Len(A \o blocks) = Len(A) + Len(blocks)
        BY <2>5, <2>6, ConcatProperties
      <4> QED BY <2>5, <2>6, <4>1
    <3>2. /\ (A \o blocks)[1] = A[1] /\ (A \o blocks)[2] = blocks[1] /\ (A \o blocks)[3] = blocks[2]
          /\ (A \o blocks)[4] = blocks[3]
      <4>1. /\ \A i \in 1..1 : (A \o blocks)[i] = A[i]
            /\ \A i \in 2..4 : (A \o blocks)[i] = blocks[i - 1]
        BY SMTT(30), <2>5, <2>6, ConcatProperties
      <4>2. /\ 1 \in 1..1 /\ 2 \in 2..4 /\ 3 \in 2..4 /\ 4 \in 2..4
            /\ 2 - 1 = 1 /\ 3 - 1 = 2 /\ 4 - 1 = 3
        OBVIOUS
      <4>3. (A \o blocks)[2] = blocks[1] /\ (A \o blocks)[3] = blocks[2] /\ (A \o blocks)[4] = blocks[3]
        BY <4>1, <4>2
      <4> QED BY <4>1, <4>2, <4>3
    <3> QED BY <3>1, <3>2, <2>6
  <2> QED BY <2>1, <2>3, <2>7
<1>5. reads' = reads \o more /\ study' = next
  BY <1>2 DEF Search!JudgeRule, next
<1> HIDE DEF more
<1>6. StudyStands'
  <2>1. reads' \in Seq(ReadRecord)
    BY <1>1, <1>4, <1>5
  <2> QED BY <1>1, <1>3, <1>5, <2>1 DEF StudyStands, Search!Sealed
<1>7. \A i \in 1..Len(reads) : reads[i].why # "final"
  BY <1>1 DEF ReadsKept, ReadInPlace
<1>8. /\ \A k \in 1..Len(more) : ReadInPlace(next, more[k])
      /\ \A i \in 1..Len(reads), k \in 1..Len(more) : ReadInOrder(next, reads[i], more[k])
      /\ \A k, m \in 1..Len(more) : k < m => ReadInOrder(next, more[k], more[m])
  BY <1>3, <1>4, <1>7 DEF ReadInPlace, ReadInOrder
<1>9. ReadsKept(next, reads \o more)
  <2>1. next.cursor >= study.cursor /\ study.pc # "done"
    BY <1>1, <1>3
  <2> QED BY <1>1, <1>3, <1>4, <1>8, <2>1, ReadsAdded
<1> QED BY <1>5, <1>6, <1>9 DEF SelectionInv

LEMMA ChooseStep == SelectionInv /\ Search!Choose => SelectionInv'
<1> SUFFICES ASSUME SelectionInv, Search!Choose PROVE SelectionInv'
  OBVIOUS
<1>1. /\ study \in StudyRecord /\ study.pc = "developing" /\ study' = [study EXCEPT !.pc = "chosen", !.chosen = Search!Choice]
      /\ Search!Choice \in Rules /\ UNCHANGED reads
  BY FirstOfTheBest DEF SelectionInv, StudyStands, Search!Choose
<1>2. /\ study' \in StudyRecord /\ study'.development = study.development /\ study'.cursor = study.cursor
      /\ study'.pc = "chosen" /\ study'.kind = study.kind /\ study'.holdout = study.holdout
  BY <1>1 DEF StudyRecord, StudyPhase
<1>3. StudyStands'
  BY <1>1, <1>2 DEF SelectionInv, StudyStands, Search!Sealed
<1> QED BY <1>1, <1>2, <1>3, NothingRead

LEMMA CancelStep == SelectionInv /\ Search!Cancel => SelectionInv'
<1> SUFFICES ASSUME SelectionInv, Search!Cancel PROVE SelectionInv'
  OBVIOUS
<1>1. /\ study \in StudyRecord /\ study.kind = "compare" /\ study.pc \in {"developing", "chosen"}
      /\ study' = [study EXCEPT !.pc = "cancelled"] /\ UNCHANGED reads
  BY DEF SelectionInv, StudyStands, Search!Cancel
<1>2. /\ study' \in StudyRecord /\ study'.development = study.development /\ study'.cursor = study.cursor
      /\ study'.pc = "cancelled" /\ study'.kind = study.kind /\ study'.holdout = study.holdout
  BY <1>1 DEF StudyRecord, StudyPhase
<1>3. StudyStands'
  BY <1>1, <1>2 DEF SelectionInv, StudyStands, Search!Sealed
<1> QED BY <1>1, <1>2, <1>3, NothingRead

LEMMA FinalStep == SelectionInv /\ Search!Final => SelectionInv'
<1> SUFFICES ASSUME SelectionInv, Search!Final PROVE SelectionInv'
  OBVIOUS
<1> DEFINE a == Search!Read("final", study.chosen, study.holdout)
           b == Search!Read("final", Search!Cash, study.holdout)
           more == (IF study.chosen = Search!Cash THEN <<>> ELSE <<a>>) \o <<b>>
<1>1. /\ study \in StudyRecord /\ reads \in Seq(ReadRecord) /\ study.kind = "compare" /\ study.pc = "chosen"
      /\ study' = [study EXCEPT !.pc = "done"]
  BY DEF SelectionInv, StudyStands, Search!Final
<1>2. /\ a \in ReadRecord /\ a.why = "final" /\ a.window = study.holdout
      /\ b \in ReadRecord /\ b.why = "final" /\ b.window = study.holdout /\ b.for = Search!Cash
  BY <1>1 DEF StudyRecord, ReadRecord, Search!Read, Rules
<1>3. reads' = (reads \o (IF study.chosen = Search!Cash THEN <<>> ELSE <<a>>)) \o <<b>>
  BY DEF Search!Final
<1> HIDE DEF a, b
<1>4. /\ more \in Seq(ReadRecord) /\ reads' = reads \o more
      /\ \A k \in 1..Len(more) :
            more[k].why = "final" /\ more[k].window = study.holdout /\ (k > 1 => more[k].for = Search!Cash)
  <2>1. CASE study.chosen = Search!Cash
    <3>1. more = <<b>> /\ reads' = reads \o <<b>>
      BY <1>1, <1>2, <1>3, <2>1
    <3>2. <<b>> \in Seq(ReadRecord) /\ Len(<<b>>) = 1 /\ <<b>>[1] = b
      BY <1>2
    <3> HIDE DEF more
    <3> QED BY <1>2, <3>1, <3>2
  <2>2. CASE study.chosen # Search!Cash
    <3> DEFINE A == <<a>>
               B == <<b>>
    <3>1. more = A \o B /\ reads' = (reads \o A) \o B
      BY <1>3, <2>2
    <3>2. A \in Seq(ReadRecord) /\ B \in Seq(ReadRecord) /\ Len(A) = 1 /\ Len(B) = 1 /\ A[1] = a /\ B[1] = b
      BY <1>2
    <3> HIDE DEF A, B, more
    <3>3. (reads \o A) \o B = reads \o (A \o B)
      BY SMTT(30), <1>1, <3>2, ConcatAssociative
    <3>4. more \in Seq(ReadRecord) /\ Len(more) = 2 /\ more[1] = a /\ more[2] = b
      <4>1. more = A \o B
        BY <3>1
      <4>2. A \o B \in Seq(ReadRecord) /\ Len(A \o B) = 2
        BY <3>2
      <4>3. (A \o B)[1] = A[1] /\ (A \o B)[2] = B[1]
        BY <3>2, ConcatProperties
      <4> QED BY <4>1, <4>2, <4>3, <3>2
    <3>5. reads' = reads \o more
      BY <3>1, <3>3
    <3>6. 1..Len(more) = {1, 2}
      BY <3>4
    <3> QED BY <1>2, <3>4, <3>5, <3>6
  <2> QED BY <2>1, <2>2
<1> HIDE DEF more
<1> QED BY <1>1, <1>4, LastReads

LEMMA SelectionSteps == Search!SelectionAssumption /\ SelectionInv /\ [Search!Next]_(Search!vars) => SelectionInv'
<1> SUFFICES ASSUME Search!SelectionAssumption, SelectionInv, [Search!Next]_(Search!vars) PROVE SelectionInv'
  OBVIOUS
<1>1. CASE UNCHANGED Search!vars
  BY <1>1 DEF Search!vars, SelectionInv, StudyStands, Search!Sealed, ReadsKept, ReadInPlace, ReadInOrder, Test, Train
<1> QED BY <1>1, BeginLabStep, FoldStep, EndWalkStep, JudgeLabStep, BeginCompareStep, JudgeRuleStep, ChooseStep,
           FinalStep, CancelStep DEF Search!Next

-----------------------------------------------------------------------------
LEMMA GridIsValid == Search!SelectionAssumption => Search!GridHolds
<1> SUFFICES ASSUME Search!SelectionAssumption, NEW k \in Base
             PROVE  k \in Search!Neighbours(k) /\ \A c \in Search!Neighbours(k) : Search!Valid(c)
  BY DEF Search!GridHolds
<1>1. /\ k \in [fast : Nat, slow : Nat, warmup : Nat, threshold : Nat]
      /\ k.fast \in 1..(k.slow - 1) /\ k.warmup >= k.slow + 2 /\ k.threshold > 0
  BY DEF Search!SelectionAssumption
<1> DEFINE fasts == {Search!Most(2, k.fast - 3), k.fast, k.fast + 3}
           slows == {Search!Most(5, k.slow - 8), k.slow, k.slow + 8}
           thresholds == {Search!Most(2, k.threshold \div 2), k.threshold, 2 * k.threshold}
           pairs == {q \in fasts \X slows \X thresholds : q[1] < q[2]}
           of(p) == [fast |-> p[1], slow |-> p[2], warmup |-> Search!Most(k.warmup, p[2] + 2), threshold |-> p[3]]
<1>2. Search!Neighbours(k) = {of(p) : p \in pairs}
  BY DEF Search!Neighbours
<1>3. k \in Search!Neighbours(k)
  <2> DEFINE p == <<k.fast, k.slow, k.threshold>>
  <2>1. p \in pairs
    BY <1>1
  <2>2. of(p) = k
    <3>1. Search!Most(k.warmup, k.slow + 2) = k.warmup
      BY <1>1 DEF Search!Most
    <3> QED BY <1>1, <3>1
  <2> QED BY <1>2, <2>1, <2>2
<1>4. ASSUME NEW c \in Search!Neighbours(k) PROVE Search!Valid(c)
  <2>1. PICK p \in pairs : c = of(p)
    BY <1>2
  <2>2. p[1] \in fasts /\ p[2] \in slows /\ p[3] \in thresholds /\ p[1] < p[2]
    BY <2>1
  <2>3. c.fast = p[1] /\ c.slow = p[2] /\ c.warmup = Search!Most(k.warmup, p[2] + 2) /\ c.threshold = p[3]
    BY <2>1
  <2> HIDE DEF pairs, of
  <2>4. p[1] \in Int /\ p[1] >= 1 /\ p[2] \in Int /\ p[3] \in Int /\ p[3] > 0
    BY <1>1, <2>2 DEF Search!Most
  <2>5. Search!Most(k.warmup, p[2] + 2) >= p[2] + 2
    BY <1>1, <2>4 DEF Search!Most
  <2> QED BY <2>2, <2>3, <2>4, <2>5 DEF Search!Valid
<1> QED BY <1>3, <1>4

LEMMA PlaceOfRead ==
    ASSUME NEW s, NEW r, ReadInPlace(s, r)
    PROVE  /\ r.why = "train" => r.for \in Nat /\ r.window[2] = r.for + Train(s)
           /\ r.why = "test" => /\ r.for \in Nat /\ r.window[1] = r.for + Train(s) + 2
                                /\ r.window[2] = r.for + Train(s) + 1 + Test(s)
<1>1. CASE r.why = "train"
  <2>1. r.for \in Nat /\ r.window = <<r.for + 1, r.for + Train(s)>>
    BY <1>1 DEF ReadInPlace
  <2> QED BY <1>1, <2>1
<1>2. CASE r.why = "test"
  <2>1. r.for \in Nat /\ r.window = <<r.for + Train(s) + 2, r.for + Train(s) + 1 + Test(s)>>
    BY <1>2 DEF ReadInPlace
  <2> QED BY <1>2, <2>1
<1> QED BY <1>1, <1>2

LEMMA Purged ==
    ASSUME NEW p \in Nat, NEW R \in 5..20, NEW u, NEW w, u = p + R, w = p + R + 2
    PROVE  u + 1 < w
  OBVIOUS

LEMMA SelectionHolds ==
    ASSUME Search!SelectionAssumption, SelectionInv
    PROVE  Search!SelectionKept
<1>1. /\ study \in StudyRecord /\ reads \in Seq(ReadRecord) /\ DOMAIN reads = 1..Len(reads) /\ Len(reads) \in Nat
      /\ study.development \in Nat /\ study.cursor \in Nat
  BY DEF SelectionInv, StudyStands, StudyRecord
<1>2. Test(study) \in 1..5 /\ Train(study) \in 5..20
  BY <1>1, LabLengths DEF Test, Train
<1>3. ASSUME NEW i \in 1..Len(reads)
      PROVE  /\ ReadInPlace(study, reads[i]) /\ reads[i].window[1] \in Int /\ reads[i].window[2] \in Int
             /\ \A j \in 1..Len(reads) : i < j => ReadInOrder(study, reads[i], reads[j])
  <2>1. reads[i] \in ReadRecord
    BY <1>1
  <2>2. ReadsKept(study, reads)
    BY DEF SelectionInv
  <2> QED BY <2>1, <2>2 DEF ReadRecord, ReadsKept
<1>4. Search!NoPeeking
  <2> SUFFICES ASSUME NEW i \in 1..Len(reads), NEW j \in 1..Len(reads),
                      \/ reads[i].why = "train" /\ reads[j].why = "test" /\ reads[i].for = reads[j].for
                      \/ reads[i].why # "final" /\ reads[j].why = "final"
               PROVE  Search!Before(reads[i].window, reads[j].window) /\ i < j
    BY <1>1 DEF Search!NoPeeking
  <2>1. i # j /\ ~(j < i)
    BY <1>3 DEF ReadInOrder
  <2>2. CASE reads[i].why = "train" /\ reads[j].why = "test" /\ reads[i].for = reads[j].for
    <3>1. /\ reads[i].for \in Nat /\ reads[i].window[2] = reads[i].for + Train(study)
          /\ reads[j].window[1] = reads[j].for + Train(study) + 2
      BY <1>3, <2>2, PlaceOfRead
    <3>2. reads[i].for = reads[j].for
      BY <2>2
    <3> DEFINE p == reads[i].for
               R == Train(study)
    <3>5. p \in Nat /\ R \in 5..20 /\ reads[i].window[2] = p + R /\ reads[j].window[1] = p + R + 2
      BY <1>2, <3>1, <3>2
    <3> HIDE DEF p, R
    <3>3. reads[i].window[2] + 1 < reads[j].window[1]
      BY <3>5, Purged
    <3>4. i < j
      BY <2>1
    <3> QED BY <3>3, <3>4 DEF Search!Before, Search!PurgeSessions
  <2>3. CASE reads[i].why # "final" /\ reads[j].why = "final"
    <3>1. reads[i].window[2] <= study.development /\ reads[j].window[1] = study.development + 2
      BY <1>3, <2>3 DEF ReadInPlace
    <3> QED BY <1>1, <1>3, <2>1, <3>1 DEF Search!Before, Search!PurgeSessions
  <2> QED BY <2>2, <2>3
<1>5. Search!TestedOnce
  <2> SUFFICES ASSUME NEW i \in 1..Len(reads), NEW j \in 1..Len(reads), i < j
               PROVE  /\ reads[i].why = "final" => reads[j].why = "final" /\ reads[j].for = Search!Cash
                      /\ reads[i].why = "test" /\ reads[j].why = "test" => reads[i].window[2] < reads[j].window[1]
    BY <1>1 DEF Search!TestedOnce
  <2>1. ReadInOrder(study, reads[i], reads[j])
    BY <1>3
  <2>2. CASE reads[i].why = "test" /\ reads[j].why = "test"
    <3>1. /\ reads[i].for \in Nat /\ reads[i].window[2] = reads[i].for + Train(study) + 1 + Test(study)
          /\ reads[j].for \in Nat /\ reads[j].window[1] = reads[j].for + Train(study) + 2
      BY <1>3, <2>2, PlaceOfRead
    <3>2. reads[i].for + Test(study) <= reads[j].for
      BY <2>1, <2>2 DEF ReadInOrder
    <3> DEFINE p == reads[i].for
               q == reads[j].for
               R == Train(study)
               T == Test(study)
    <3>3. p \in Nat /\ q \in Nat /\ R \in 5..20 /\ T \in 1..5 /\ p + T <= q
      BY <1>2, <3>1, <3>2
    <3>5. reads[i].window[2] = p + R + 1 + T /\ reads[j].window[1] = q + R + 2
      BY <3>1
    <3> HIDE DEF p, q, R, T
    <3>6. p + R + 1 + T < q + R + 2
      BY <3>3
    <3>7. reads[i].window[2] < reads[j].window[1]
      BY <3>5, <3>6
    <3>4. reads[i].why # "final"
      BY <2>2
    <3> QED BY <3>4, <3>7
  <2> QED BY <2>1, <2>2 DEF ReadInOrder
<1>6. Search!BlocksCover
  <2> SUFFICES ASSUME study.kind = "compare"
               PROVE  LET d == study.development IN
                      /\ Search!Block(d, 1)[1] = 1 /\ Search!Block(d, 3)[2] = d
                      /\ \A i \in 1..3 : Search!Block(d, i)[1] <= Search!Block(d, i)[2]
                      /\ \A i \in 1..2 : Search!Block(d, i + 1)[1] = Search!Block(d, i)[2] + 1
    BY DEF Search!BlocksCover
  <2> DEFINE d == study.development
  <2>1. d \in Nat /\ d >= 20
    BY <1>1 DEF SelectionInv, StudyStands
  <2> HIDE DEF d
  <2>2. Search!Block(d, 1)[1] = 1 /\ Search!Block(d, 3)[2] = d
    BY <2>1 DEF Search!Block
  <2>3. \A i \in 1..3 : Search!Block(d, i)[1] <= Search!Block(d, i)[2]
    BY <2>1, Thirds
  <2>4. \A i \in 1..2 : Search!Block(d, i + 1)[1] = Search!Block(d, i)[2] + 1
    <3> SUFFICES ASSUME NEW i \in 1..2 PROVE Search!Block(d, i + 1)[1] = Search!Block(d, i)[2] + 1
      OBVIOUS
    <3>1. i + 1 - 1 = i
      OBVIOUS
    <3> QED BY <3>1 DEF Search!Block
  <2> QED BY <2>2, <2>3, <2>4 DEF d
<1>7. Search!WalkAnswers
  BY DEF SelectionInv, StudyStands, Search!WalkAnswers
<1> QED BY <1>4, <1>5, <1>6, <1>7, GridIsValid DEF Search!SelectionKept

-----------------------------------------------------------------------------
(* AuditTransactions.  The connection sees what is on record and the alerts
   that wait; an open transaction goes back to the first so many of them. *)

Frame == [rows : SUBSET Alert, mark : Nat]

AuditTypeOK ==
    /\ db \subseteq Alert /\ work \subseteq Alert
    /\ callbacks \in Seq(Alert) /\ stack \in Seq(Frame) /\ due \in [Thread -> Seq(Alert)]
    /\ owner \in Thread \cup {None}
    /\ owner = None <=> stack = <<>>

Waiting(n) == {callbacks[k] : k \in 1..n}

(* What an open transaction goes back to: the rows on record and those whose
   alerts were waiting when it began. *)
StackHolds ==
    /\ \A i \in 1..Len(stack) :
           stack[i].mark <= Len(callbacks) /\ stack[i].rows = db \cup Waiting(stack[i].mark)
    /\ \A i, j \in 1..Len(stack) : i <= j => stack[i].mark <= stack[j].mark
    /\ stack # <<>> => stack[1].mark = 0

WorkHolds ==
    /\ work = db \cup Waiting(Len(callbacks))
    /\ owner = None => callbacks = <<>>

AlertsHold ==
    /\ shown \subseteq db
    /\ \A t \in Thread : Audit!ToSet(due[t]) \subseteq db /\ (t = owner => due[t] = <<>>)
    /\ \A a \in db : a \in shown \cup lost \/ \E t \in Thread : a \in Audit!ToSet(due[t])

AuditInv == AuditTypeOK /\ StackHolds /\ WorkHolds /\ AlertsHold

-----------------------------------------------------------------------------
LEMMA AlertSets ==
    ASSUME NEW s \in Seq(Alert)
    PROVE  /\ Audit!ToSet(s) = {s[k] : k \in 1..Len(s)}
           /\ s # <<>> => Head(s) \in Audit!ToSet(s) /\ Tail(s) \in Seq(Alert) /\ Audit!ToSet(s) = {Head(s)} \cup Audit!ToSet(Tail(s))
<1>1. Audit!ToSet(s) = {s[k] : k \in 1..Len(s)}
  BY DEF Audit!ToSet
<1>2. ASSUME s # <<>>
      PROVE  Head(s) \in Audit!ToSet(s) /\ Tail(s) \in Seq(Alert) /\ Audit!ToSet(s) = {Head(s)} \cup Audit!ToSet(Tail(s))
  <2> DEFINE T == Tail(s)
  <2>1. /\ T \in Seq(Alert) /\ Len(T) = Len(s) - 1 /\ Head(s) = s[1] /\ Len(s) \in Nat /\ Len(s) >= 1
        /\ \A i \in 1..Len(T) : T[i] = s[i + 1]
    BY <1>2, HeadTailProperties
  <2> HIDE DEF T
  <2>2. Audit!ToSet(T) = {T[k] : k \in 1..Len(T)}
    BY <2>1 DEF Audit!ToSet
  <2>3. Head(s) \in Audit!ToSet(s)
    BY <1>1, <2>1
  <2>4. ASSUME NEW k \in 1..Len(s) PROVE s[k] \in {Head(s)} \cup Audit!ToSet(T)
    <3>1. CASE k = 1
      BY <2>1, <3>1
    <3>2. CASE k # 1
      <4>1. k - 1 \in 1..Len(T) /\ k - 1 + 1 = k
        BY <2>1, <3>2
      <4>2. T[k - 1] = s[k]
        BY <2>1, <4>1
      <4> QED BY <2>2, <4>1, <4>2
    <3> QED BY <3>1, <3>2
  <2>5. ASSUME NEW k \in 1..Len(T) PROVE T[k] \in Audit!ToSet(s)
    <3>1. k + 1 \in 1..Len(s) /\ T[k] = s[k + 1]
      BY <2>1
    <3> QED BY <1>1, <3>1
  <2>6. Audit!ToSet(s) = {Head(s)} \cup Audit!ToSet(T)
    BY <1>1, <2>2, <2>3, <2>4, <2>5
  <2> QED BY <2>1, <2>3, <2>6 DEF T
<1> QED BY <1>1, <1>2

LEMMA AuditStarts == Audit!Init => AuditInv
<1> SUFFICES ASSUME Audit!Init PROVE AuditInv
  OBVIOUS
<1>1. AuditTypeOK
  BY DEF Audit!Init, AuditTypeOK
<1>2. StackHolds /\ WorkHolds
  BY DEF Audit!Init, StackHolds, WorkHolds, Waiting
<1>3. AlertsHold
  BY DEF Audit!Init, AlertsHold, Audit!ToSet
<1> QED BY <1>1, <1>2, <1>3 DEF AuditInv

LEMMA BeginKeeps ==
    ASSUME Audit!NobodyAssumption, AuditInv, NEW t \in Thread, Audit!Begin(t)
    PROVE  AuditInv'
<1> DEFINE new == [rows |-> work, mark |-> Len(callbacks)]
<1>1. new \in Frame /\ stack \in Seq(Frame) /\ Len(stack) \in Nat /\ Len(callbacks) \in Nat
  BY DEF AuditInv, AuditTypeOK, Frame
<1>2. /\ stack' = Append(stack, new) /\ owner' = t /\ due[t] = <<>>
      /\ UNCHANGED <<db, work, callbacks, due, shown, lost>>
  BY DEF Audit!Begin
<1>3. /\ stack' \in Seq(Frame) /\ Len(stack') = Len(stack) + 1 /\ stack' # <<>>
      /\ \A i \in 1..Len(stack) : stack'[i] = stack[i]
      /\ stack'[Len(stack) + 1] = new
  BY <1>1, <1>2
<1>4. AuditTypeOK'
  BY <1>2, <1>3 DEF AuditInv, AuditTypeOK, Audit!NobodyAssumption
<1>5. new.rows = db \cup Waiting(new.mark) /\ new.mark = Len(callbacks)
  BY DEF AuditInv, WorkHolds
<1> HIDE DEF new
<1>6. ASSUME NEW i \in 1..Len(stack')
      PROVE  stack'[i].mark \in Nat /\ stack'[i].mark <= Len(callbacks) /\ stack'[i].rows = db \cup Waiting(stack'[i].mark)
  <2>1. CASE i \in 1..Len(stack)
    <3>1. stack[i] \in Frame
      BY <1>1, <2>1
    <3> QED BY <1>1, <1>3, <2>1, <3>1 DEF AuditInv, StackHolds, Frame
  <2>2. CASE i = Len(stack) + 1
    BY <1>1, <1>3, <1>5, <2>2
  <2> QED BY <1>1, <1>3, <2>1, <2>2
<1>7. ASSUME NEW i \in 1..Len(stack'), NEW j \in 1..Len(stack'), i <= j
      PROVE  stack'[i].mark <= stack'[j].mark
  <2>1. CASE j \in 1..Len(stack)
    BY <1>1, <1>3, <1>7, <2>1 DEF AuditInv, StackHolds
  <2>2. CASE j = Len(stack) + 1
    BY <1>3, <1>5, <1>6, <2>2
  <2> QED BY <1>1, <1>3, <2>1, <2>2
<1>8. stack'[1].mark = 0
  <2>1. CASE stack = <<>>
    <3>1. owner = None /\ callbacks = <<>>
      BY <2>1 DEF AuditInv, AuditTypeOK, WorkHolds
    <3>2. Len(stack) = 0 /\ Len(callbacks) = 0
      BY <2>1, <3>1
    <3> QED BY <1>3, <1>5, <3>2
  <2>2. CASE stack # <<>>
    BY <1>1, <1>3, <2>2 DEF AuditInv, StackHolds
  <2> QED BY <2>1, <2>2
<1>9. StackHolds'
  BY <1>2, <1>6, <1>7, <1>8 DEF StackHolds, Waiting
<1>10. WorkHolds'
  BY <1>2 DEF AuditInv, WorkHolds, Waiting, Audit!NobodyAssumption
<1>11. AlertsHold'
  BY <1>2 DEF AuditInv, AlertsHold
<1> QED BY <1>4, <1>9, <1>10, <1>11 DEF AuditInv

LEMMA ReceiptInsideKeeps ==
    ASSUME Audit!NobodyAssumption, AuditInv, NEW t \in Thread, NEW a \in Alert, Audit!ReceiptInside(t, a)
    PROVE  AuditInv'
<1>1. /\ owner = t /\ work' = work \cup {a} /\ callbacks' = Append(callbacks, a)
      /\ UNCHANGED <<db, owner, stack, due, shown, lost>>
  BY DEF Audit!ReceiptInside
<1>2. /\ callbacks' \in Seq(Alert) /\ Len(callbacks') = Len(callbacks) + 1 /\ Len(callbacks) \in Nat
      /\ \A i \in 1..Len(callbacks) : callbacks'[i] = callbacks[i]
      /\ callbacks'[Len(callbacks) + 1] = a
  BY <1>1 DEF AuditInv, AuditTypeOK
<1>3. AuditTypeOK'
  BY <1>1, <1>2 DEF AuditInv, AuditTypeOK
<1>4. \A n \in 0..Len(callbacks) : Waiting(n)' = Waiting(n)
  BY <1>2 DEF Waiting
<1>5. Waiting(Len(callbacks))' = Waiting(Len(callbacks)) \cup {a}
  <2>1. 1..Len(callbacks') = 1..Len(callbacks) \cup {Len(callbacks) + 1}
    BY <1>2
  <2> QED BY <1>2, <2>1 DEF Waiting
<1>6. WorkHolds'
  BY <1>1, <1>5 DEF AuditInv, WorkHolds, Audit!NobodyAssumption
<1>7. \A i \in 1..Len(stack) : stack[i].mark \in 0..Len(callbacks)
  <2>1. \A i \in 1..Len(stack) : stack[i] \in Frame
    BY DEF AuditInv, AuditTypeOK
  <2> QED BY <1>2, <2>1 DEF AuditInv, StackHolds, Frame
<1>8. StackHolds'
  <2>1. ASSUME NEW i \in 1..Len(stack)
        PROVE  stack[i].mark <= Len(callbacks') /\ stack[i].rows = db \cup {callbacks'[k] : k \in 1..stack[i].mark}
    <3>1. {callbacks'[k] : k \in 1..stack[i].mark} = {callbacks[k] : k \in 1..stack[i].mark}
      BY SMTT(30), <1>2, <1>7
    <3>2. stack[i].mark <= Len(callbacks')
      BY <1>2, <1>7
    <3>3. stack[i].rows = db \cup {callbacks[k] : k \in 1..stack[i].mark}
      BY DEF AuditInv, StackHolds, Waiting
    <3> QED BY <3>1, <3>2, <3>3
  <2> QED BY <1>1, <2>1 DEF AuditInv, StackHolds, Waiting
<1>9. AlertsHold'
  BY <1>1 DEF AuditInv, AlertsHold
<1> QED BY <1>3, <1>6, <1>8, <1>9 DEF AuditInv

LEMMA FrontIs ==
    ASSUME AuditInv, stack # <<>>
    PROVE  /\ Audit!Front(stack) \in Seq(Frame) /\ Len(stack) \in Nat /\ Len(stack) >= 1 /\ Len(Audit!Front(stack)) = Len(stack) - 1
           /\ \A i \in 1..(Len(stack) - 1) : Audit!Front(stack)[i] = stack[i]
           /\ Audit!Last(stack) = stack[Len(stack)] /\ Audit!Last(stack) \in Frame
<1>1. stack \in Seq(Frame) /\ Len(stack) \in Nat /\ Len(stack) >= 1
  BY DEF AuditInv, AuditTypeOK
<1>2. \A i \in 1..(Len(stack) - 1) : stack[i] \in Frame
  BY <1>1
<1>3. /\ SubSeq(stack, 1, Len(stack) - 1) \in Seq(Frame)
      /\ Len(SubSeq(stack, 1, Len(stack) - 1)) = IF 1 <= Len(stack) - 1 THEN Len(stack) - 1 - 1 + 1 ELSE 0
      /\ \A i \in 1..(Len(stack) - 1 - 1 + 1) : SubSeq(stack, 1, Len(stack) - 1)[i] = stack[1 + i - 1]
  BY <1>1, <1>2, SubSeqProperties
<1>4. Audit!Front(stack) = SubSeq(stack, 1, Len(stack) - 1) /\ Audit!Last(stack) = stack[Len(stack)]
  BY DEF Audit!Front, Audit!Last
<1>5. Len(Audit!Front(stack)) = Len(stack) - 1 /\ \A i \in 1..(Len(stack) - 1) : Audit!Front(stack)[i] = stack[i]
  <2>1. Len(Audit!Front(stack)) = Len(stack) - 1
    <3> DEFINE n == Len(stack)
    <3>1. n \in Nat /\ n >= 1 /\ Len(Audit!Front(stack)) = IF 1 <= n - 1 THEN n - 1 - 1 + 1 ELSE 0
      BY <1>1, <1>3, <1>4
    <3> HIDE DEF n
    <3>2. (IF 1 <= n - 1 THEN n - 1 - 1 + 1 ELSE 0) = n - 1
      BY <3>1
    <3>3. Len(Audit!Front(stack)) = n - 1
      BY <3>1, <3>2
    <3> QED BY <3>3 DEF n
  <2>2. ASSUME NEW i \in 1..(Len(stack) - 1) PROVE Audit!Front(stack)[i] = stack[i]
    <3>1. i \in 1..(Len(stack) - 1 - 1 + 1) /\ 1 + i - 1 = i
      BY <1>1
    <3> QED BY <1>3, <1>4, <3>1
  <2> QED BY <2>1, <2>2
<1>6. Audit!Last(stack) \in Frame
  BY <1>1, <1>4
<1> QED BY <1>1, <1>3, <1>4, <1>5, <1>6

LEMMA ReleaseKeeps ==
    ASSUME AuditInv, NEW t \in Thread, Audit!Release(t)
    PROVE  AuditInv'
<1>1. /\ owner = t /\ Len(stack) > 1 /\ stack' = Audit!Front(stack)
      /\ UNCHANGED <<db, work, owner, callbacks, due, shown, lost>>
  BY DEF Audit!Release, Audit!Depth
<1>2. stack # <<>> /\ Len(stack) \in Nat
  BY <1>1 DEF AuditInv, AuditTypeOK
<1>3. /\ stack' \in Seq(Frame) /\ Len(stack') = Len(stack) - 1 /\ stack' # <<>>
      /\ \A i \in 1..Len(stack') : stack'[i] = stack[i] /\ i \in 1..Len(stack)
  BY <1>1, <1>2, FrontIs
<1>4. AuditTypeOK'
  BY <1>1, <1>2, <1>3 DEF AuditInv, AuditTypeOK
<1>5. StackHolds'
  BY <1>1, <1>2, <1>3 DEF AuditInv, StackHolds, Waiting
<1>6. WorkHolds' /\ AlertsHold'
  BY <1>1 DEF AuditInv, WorkHolds, Waiting, AlertsHold
<1> QED BY <1>4, <1>5, <1>6 DEF AuditInv

LEMMA FailKeeps ==
    ASSUME Audit!NobodyAssumption, AuditInv, NEW t \in Thread, Audit!Fail(t)
    PROVE  AuditInv'
<1> DEFINE last == stack[Len(stack)]
           n == last.mark
<1>1. /\ owner = t /\ work' = Audit!Last(stack).rows /\ callbacks' = SubSeq(callbacks, 1, Audit!Last(stack).mark)
      /\ stack' = Audit!Front(stack) /\ owner' = IF Len(stack) = 1 THEN None ELSE t
      /\ UNCHANGED <<db, due, shown, lost>>
  BY DEF Audit!Fail, Audit!Depth, Audit!KeptCallbacks
<1>2. stack # <<>>
  BY <1>1 DEF AuditInv, AuditTypeOK, Audit!NobodyAssumption
<1>3. /\ stack' \in Seq(Frame) /\ Len(stack') = Len(stack) - 1 /\ Len(stack) \in Nat /\ Len(stack) >= 1
      /\ \A i \in 1..Len(stack') : stack'[i] = stack[i] /\ i \in 1..Len(stack)
      /\ Audit!Last(stack) = last /\ last \in Frame
  BY <1>1, <1>2, FrontIs
<1>4. n \in Nat /\ n <= Len(callbacks) /\ last.rows = db \cup Waiting(n) /\ last.rows \subseteq Alert
      /\ \A i \in 1..Len(stack) : stack[i].mark <= n /\ stack[i].mark \in Nat
  <2>1. \A i \in 1..Len(stack) : stack[i] \in Frame
    BY DEF AuditInv, AuditTypeOK
  <2>2. \A i \in 1..Len(stack) : stack[i].mark <= n /\ stack[i].mark \in Nat
    BY <1>3, <2>1 DEF AuditInv, StackHolds, Frame
  <2>3. last.mark <= Len(callbacks) /\ last.rows = db \cup Waiting(last.mark)
    BY <1>3 DEF AuditInv, StackHolds
  <2> QED BY <1>3, <2>2, <2>3 DEF Frame
<1> HIDE DEF n
<1>5. callbacks \in Seq(Alert) /\ Len(callbacks) \in Nat /\ \A k \in 1..n : callbacks[k] \in Alert
  BY <1>4 DEF AuditInv, AuditTypeOK
<1>6. callbacks' \in Seq(Alert) /\ Len(callbacks') = n /\ \A k \in 1..n : callbacks'[k] = callbacks[k]
  <2>1. callbacks' = SubSeq(callbacks, 1, n)
    BY <1>1, <1>3 DEF n
  <2>2. /\ SubSeq(callbacks, 1, n) \in Seq(Alert)
        /\ Len(SubSeq(callbacks, 1, n)) = IF 1 <= n THEN n - 1 + 1 ELSE 0
        /\ \A i \in 1..(n - 1 + 1) : SubSeq(callbacks, 1, n)[i] = callbacks[1 + i - 1]
    BY <1>4, <1>5, SubSeqProperties
  <2> QED BY <1>4, <2>1, <2>2
<1>7. work' = db \cup Waiting(n)
  BY <1>1, <1>3, <1>4
<1>8. \A m \in 0..n : {callbacks'[k] : k \in 1..m} = {callbacks[k] : k \in 1..m}
  BY <1>4, <1>6
<1>9. AuditTypeOK'
  <2>1. owner' = None <=> stack' = <<>>
    BY <1>1, <1>3 DEF Audit!NobodyAssumption
  <2> QED BY <1>1, <1>3, <1>4, <1>6, <1>7, <2>1 DEF AuditInv, AuditTypeOK
<1>10. StackHolds'
  <2>1. ASSUME NEW i \in 1..Len(stack')
        PROVE  /\ stack'[i].mark <= Len(callbacks')
               /\ stack'[i].rows = db \cup {callbacks'[k] : k \in 1..stack'[i].mark}
    <3>1. stack'[i] = stack[i] /\ stack[i].mark \in 0..n
      BY <1>3, <1>4
    <3>2. stack[i].rows = db \cup {callbacks[k] : k \in 1..stack[i].mark}
      BY <1>3 DEF AuditInv, StackHolds, Waiting
    <3>3. {callbacks'[k] : k \in 1..stack[i].mark} = {callbacks[k] : k \in 1..stack[i].mark}
      BY <1>8, <3>1
    <3>4. stack[i].mark <= Len(callbacks')
      BY <1>4, <1>6, <3>1
    <3> QED BY <3>1, <3>2, <3>3, <3>4
  <2>2. \A i, j \in 1..Len(stack') : i <= j => stack'[i].mark <= stack'[j].mark
    BY <1>3 DEF AuditInv, StackHolds
  <2>3. stack' # <<>> => stack'[1].mark = 0
    BY <1>2, <1>3 DEF AuditInv, StackHolds
  <2> QED BY <1>1, <2>1, <2>2, <2>3 DEF StackHolds, Waiting
<1>11. WorkHolds'
  <2>1. work' = db' \cup {callbacks'[k] : k \in 1..Len(callbacks')}
    BY <1>1, <1>4, <1>6, <1>7, <1>8 DEF Waiting
  <2>2. owner' = None => callbacks' = <<>>
    <3> SUFFICES ASSUME owner' = None PROVE callbacks' = <<>>
      OBVIOUS
    <3>1. Len(stack) = 1
      BY <1>1 DEF Audit!NobodyAssumption
    <3>2. n = 0
      BY <1>2, <3>1 DEF AuditInv, StackHolds, n
    <3> QED BY <1>6, <3>2
  <2> QED BY <2>1, <2>2 DEF WorkHolds, Waiting
<1>12. AlertsHold'
  BY <1>1 DEF AuditInv, AlertsHold, Audit!NobodyAssumption
<1> QED BY <1>9, <1>10, <1>11, <1>12 DEF AuditInv

LEMMA CommitKeeps ==
    ASSUME Audit!NobodyAssumption, AuditInv, NEW t \in Thread, Audit!Commit(t)
    PROVE  AuditInv'
<1>1. /\ owner = t /\ db' = work /\ stack' = <<>> /\ owner' = None /\ callbacks' = <<>>
      /\ due' = [due EXCEPT ![t] = callbacks] /\ UNCHANGED <<work, shown, lost>>
  BY DEF Audit!Commit
<1>2. /\ callbacks \in Seq(Alert) /\ due \in [Thread -> Seq(Alert)] /\ work \subseteq Alert
      /\ work = db \cup Audit!ToSet(callbacks) /\ due[t] = <<>>
  BY <1>1, AlertSets DEF AuditInv, AuditTypeOK, WorkHolds, Waiting, AlertsHold
<1>3. AuditTypeOK'
  BY <1>1, <1>2 DEF AuditTypeOK
<1>4. StackHolds' /\ WorkHolds'
  BY <1>1 DEF StackHolds, WorkHolds, Waiting
<1>5. \A u \in Thread : due'[u] = IF u = t THEN callbacks ELSE due[u]
  BY <1>1, <1>2
<1>6. AlertsHold'
  <2>1. shown' \subseteq db'
    BY <1>1, <1>2 DEF AuditInv, AlertsHold
  <2>2. \A u \in Thread : Audit!ToSet(due'[u]) \subseteq db' /\ (u = owner' => due'[u] = <<>>)
    BY <1>1, <1>2, <1>5 DEF AuditInv, AlertsHold, Audit!NobodyAssumption
  <2>3. ASSUME NEW a \in db' PROVE a \in shown' \cup lost' \/ \E u \in Thread : a \in Audit!ToSet(due'[u])
    <3>1. CASE a \in Audit!ToSet(callbacks)
      BY <1>5, <3>1
    <3>2. CASE a \in db
      <4>1. a \in shown \cup lost \/ \E u \in Thread : a \in Audit!ToSet(due[u])
        BY <3>2 DEF AuditInv, AlertsHold
      <4>2. \A u \in Thread : a \in Audit!ToSet(due[u]) => u # t
        BY <1>2 DEF Audit!ToSet
      <4> QED BY <1>1, <1>5, <4>1, <4>2
    <3> QED BY <1>1, <1>2, <3>1, <3>2
  <2> QED BY <2>1, <2>2, <2>3 DEF AlertsHold
<1> QED BY <1>3, <1>4, <1>6 DEF AuditInv

LEMMA ReceiptAloneKeeps ==
    ASSUME Audit!NobodyAssumption, AuditInv, NEW t \in Thread, NEW a \in Alert, Audit!ReceiptAlone(t, a)
    PROVE  AuditInv'
<1>1. /\ owner = None /\ due[t] = <<>> /\ db' = db \cup {a} /\ work' = db'
      /\ due' = [due EXCEPT ![t] = <<a>>] /\ UNCHANGED <<owner, stack, callbacks, shown, lost>>
  BY DEF Audit!ReceiptAlone
<1>2. /\ due \in [Thread -> Seq(Alert)] /\ <<a>> \in Seq(Alert) /\ stack = <<>> /\ callbacks = <<>>
      /\ db \subseteq Alert
  BY <1>1 DEF AuditInv, AuditTypeOK, WorkHolds
<1>3. Audit!ToSet(<<a>>) = {a}
  BY DEF Audit!ToSet
<1>4. \A u \in Thread : due'[u] = IF u = t THEN <<a>> ELSE due[u]
  BY <1>1, <1>2
<1>5. AuditTypeOK'
  BY <1>1, <1>2 DEF AuditInv, AuditTypeOK
<1>6. StackHolds' /\ WorkHolds'
  BY <1>1, <1>2 DEF StackHolds, WorkHolds, Waiting
<1>7. AlertsHold'
  <2>1. ASSUME NEW b \in db' PROVE b \in shown' \cup lost' \/ \E u \in Thread : b \in Audit!ToSet(due'[u])
    <3>1. CASE b = a
      BY <1>3, <1>4, <3>1
    <3>2. CASE b \in db
      <4>1. b \in shown \cup lost \/ \E u \in Thread : b \in Audit!ToSet(due[u])
        BY <3>2 DEF AuditInv, AlertsHold
      <4>2. \A u \in Thread : b \in Audit!ToSet(due[u]) => u # t
        BY <1>1 DEF Audit!ToSet
      <4> QED BY <1>1, <1>4, <4>1, <4>2
    <3> QED BY <1>1, <3>1, <3>2
  <2> QED BY <1>1, <1>3, <1>4, <2>1 DEF AuditInv, AlertsHold, Audit!NobodyAssumption
<1> QED BY <1>5, <1>6, <1>7 DEF AuditInv

LEMMA ShowKeeps ==
    ASSUME Audit!NobodyAssumption, AuditInv, NEW t \in Thread, Audit!Show(t)
    PROVE  AuditInv'
<1>1. due[t] # <<>> /\ UNCHANGED <<db, work, owner, stack, callbacks>>
  BY DEF Audit!Show
<1>2. due \in [Thread -> Seq(Alert)] /\ due[t] \in Seq(Alert) /\ Audit!ToSet(due[t]) \subseteq db /\ t # owner
  BY <1>1 DEF AuditInv, AuditTypeOK, AlertsHold
<1>3. /\ Head(due[t]) \in Audit!ToSet(due[t]) /\ Tail(due[t]) \in Seq(Alert)
      /\ Audit!ToSet(due[t]) = {Head(due[t])} \cup Audit!ToSet(Tail(due[t]))
  BY <1>1, <1>2, AlertSets
<1>4. StackHolds' /\ WorkHolds'
  BY <1>1 DEF AuditInv, StackHolds, WorkHolds, Waiting
<1>5. CASE shown' = shown \cup {Head(due[t])} /\ due' = [due EXCEPT ![t] = Tail(@)] /\ UNCHANGED lost
  <2>1. \A u \in Thread : due'[u] = IF u = t THEN Tail(due[t]) ELSE due[u]
    BY <1>2, <1>5
  <2>2. AuditTypeOK'
    BY <1>1, <1>2, <1>3, <1>5 DEF AuditInv, AuditTypeOK
  <2>3. AlertsHold'
    BY <1>1, <1>2, <1>3, <1>5, <2>1 DEF AuditInv, AlertsHold
  <2> QED BY <1>4, <2>2, <2>3 DEF AuditInv
<1>6. CASE lost' = lost \cup Audit!ToSet(due[t]) /\ due' = [due EXCEPT ![t] = <<>>] /\ UNCHANGED shown
  <2>1. \A u \in Thread : due'[u] = IF u = t THEN <<>> ELSE due[u]
    BY <1>2, <1>6
  <2>2. AuditTypeOK'
    BY <1>1, <1>2, <1>6 DEF AuditInv, AuditTypeOK
  <2>3. Audit!ToSet(<<>>) = {}
    BY DEF Audit!ToSet
  <2>4. AlertsHold'
    BY <1>1, <1>2, <1>6, <2>1, <2>3 DEF AuditInv, AlertsHold
  <2> QED BY <1>4, <2>2, <2>4 DEF AuditInv
<1> QED BY <1>5, <1>6 DEF Audit!Show

LEMMA CrashKeeps ==
    ASSUME Audit!NobodyAssumption, AuditInv, Audit!Crash
    PROVE  AuditInv'
<1>1. /\ work' = db /\ owner' = None /\ stack' = <<>> /\ callbacks' = <<>>
      /\ lost' = lost \cup UNION {Audit!ToSet(due[t]) : t \in Thread}
      /\ due' = [t \in Thread |-> <<>>] /\ UNCHANGED <<db, shown>>
  BY DEF Audit!Crash
<1>2. AuditTypeOK'
  BY <1>1 DEF AuditInv, AuditTypeOK
<1>3. StackHolds' /\ WorkHolds'
  BY <1>1 DEF StackHolds, WorkHolds, Waiting
<1>4. AlertsHold'
  <2>1. Audit!ToSet(<<>>) = {} /\ \A t \in Thread : due'[t] = <<>>
    BY <1>1 DEF Audit!ToSet
  <2>2. \A a \in db : a \in shown' \cup lost'
    BY <1>1 DEF AuditInv, AlertsHold
  <2> QED BY <1>1, <2>1, <2>2 DEF AuditInv, AlertsHold
<1> QED BY <1>2, <1>3, <1>4 DEF AuditInv

LEMMA AuditSteps == Audit!NobodyAssumption /\ AuditInv /\ [Audit!Next]_(Audit!vars) => AuditInv'
<1> SUFFICES ASSUME Audit!NobodyAssumption, AuditInv, [Audit!Next]_(Audit!vars) PROVE AuditInv'
  OBVIOUS
<1>1. CASE UNCHANGED Audit!vars
  BY <1>1 DEF Audit!vars, AuditInv, AuditTypeOK, StackHolds, WorkHolds, Waiting, AlertsHold
<1> QED BY <1>1, BeginKeeps, ReceiptInsideKeeps, ReleaseKeeps, FailKeeps, CommitKeeps, ReceiptAloneKeeps, ShowKeeps,
           CrashKeeps DEF Audit!Next

LEMMA AuditHolds ==
    ASSUME AuditInv
    PROVE  Audit!AlertsFollowCommits
<1>1. Audit!ToSet(callbacks) = Waiting(Len(callbacks))
  BY AlertSets DEF AuditInv, AuditTypeOK, Waiting
<1> QED BY <1>1 DEF AuditInv, WorkHolds, AlertsHold, Audit!AlertsFollowCommits

-----------------------------------------------------------------------------
(* StoreUpgrade.  Every shared record was imported or recorded by the worker. *)

Journal == {None} \cup SUBSET Row
Origins == target.rows = recorded \cup (IF target.marker = None THEN {} ELSE target.marker)
OneOrigin == target.marker # None => target.marker \cap recorded = {}

UpgradeInv ==
    /\ legacy \in Journal
    /\ target \in [rows : SUBSET Row, marker : Journal]
    /\ copy \in [on : BOOLEAN, digest : Journal, step : {"none", "backup", "answer", "import"}]
    /\ opened \in BOOLEAN
    /\ copy.step \in {"backup", "import"} => copy.digest # None
    /\ Origins /\ OneOrigin

TakenOver == [opened' /\ ~opened /\ legacy # None => legacy \subseteq target.rows]_(Upgrade!vars)

LEMMA UpgradeStarts == Upgrade!Init => UpgradeInv
<1> SUFFICES ASSUME Upgrade!Init PROVE UpgradeInv
  OBVIOUS
<1>1. /\ target = [rows |-> {}, marker |-> None] /\ opened = FALSE /\ recorded = {}
      /\ copy = [on |-> FALSE, digest |-> {}, step |-> "none"]
  BY DEF Upgrade!Init, Upgrade!Idle
<1>2. legacy \in Journal
  BY DEF Upgrade!Init, Journal
<1>3. target \in [rows : SUBSET Row, marker : Journal]
  BY <1>1 DEF Journal
<1>4. copy \in [on : BOOLEAN, digest : Journal, step : {"none", "backup", "answer", "import"}]
  BY <1>1 DEF Journal
<1>5. Origins /\ OneOrigin
  BY <1>1 DEF Origins, OneOrigin
<1>6. opened \in BOOLEAN /\ ~(copy.step \in {"backup", "import"})
  BY <1>1
<1> QED BY <1>2, <1>3, <1>4, <1>5, <1>6 DEF UpgradeInv

LEMMA UpgradeSteps == UpgradeInv /\ [Upgrade!Next]_(Upgrade!vars) => UpgradeInv'
<1> SUFFICES ASSUME UpgradeInv, [Upgrade!Next]_(Upgrade!vars) PROVE UpgradeInv'
  OBVIOUS
<1> USE DEF UpgradeInv, Journal
<1>1. CASE UNCHANGED Upgrade!vars
  BY <1>1 DEF Upgrade!vars, Origins, OneOrigin
<1>2. ASSUME NEW r \in Row, Upgrade!OldRecords(r) PROVE UpgradeInv'
  BY <1>2 DEF Upgrade!OldRecords, Origins, OneOrigin
<1>3. ASSUME NEW r \in Row, Upgrade!WorkerRecords(r) PROVE UpgradeInv'
  <2>1. target'.rows = target.rows \cup {r} /\ target'.marker = target.marker
        /\ target' \in [rows : SUBSET Row, marker : Journal]
    BY <1>3 DEF Upgrade!WorkerRecords
  <2>2. Origins' /\ OneOrigin'
    BY <1>3, <2>1 DEF Upgrade!WorkerRecords, Origins, OneOrigin
  <2> QED BY <1>3, <2>1, <2>2 DEF Upgrade!WorkerRecords
<1>4. CASE Upgrade!BeginUpgrade
  BY <1>4 DEF Upgrade!BeginUpgrade, Origins, OneOrigin
<1>5. CASE Upgrade!Answer
  BY <1>5 DEF Upgrade!Answer, Upgrade!Idle, Origins, OneOrigin
<1>6. CASE Upgrade!Backup
  BY <1>6 DEF Upgrade!Backup, Origins, OneOrigin
<1>7. CASE Upgrade!Import
  <2>1. /\ target'.rows = copy.digest /\ target'.marker = copy.digest /\ copy.digest # None
        /\ recorded = {} /\ recorded' = {} /\ target' \in [rows : SUBSET Row, marker : Journal]
    BY <1>7 DEF Upgrade!Import, Upgrade!Importable, Origins
  <2>2. Origins' /\ OneOrigin'
    BY <2>1 DEF Origins, OneOrigin
  <2> QED BY <1>7, <2>1, <2>2 DEF Upgrade!Import, Upgrade!Idle
<1>8. CASE Upgrade!UpgradeFails
  BY <1>8 DEF Upgrade!UpgradeFails, Upgrade!Idle, Origins, OneOrigin
<1>9. CASE Upgrade!WorkerOpens
  BY <1>9 DEF Upgrade!WorkerOpens, Upgrade!MayOpen, Origins, OneOrigin
<1>10. CASE Upgrade!WorkerEnds
  BY <1>10 DEF Upgrade!WorkerEnds, Origins, OneOrigin
<1> QED BY <1>1, <1>2, <1>3, <1>4, <1>5, <1>6, <1>7, <1>8, <1>9, <1>10 DEF Upgrade!Next

LEMMA UpgradeTakesOver == UpgradeInv /\ [Upgrade!Next]_(Upgrade!vars) => TakenOver
<1> SUFFICES ASSUME UpgradeInv, Upgrade!Next, opened', ~opened, legacy # None PROVE legacy \subseteq target.rows
  BY DEF TakenOver, Upgrade!vars
<1>1. Upgrade!WorkerOpens
  BY DEF Upgrade!Next, Upgrade!OldRecords, Upgrade!WorkerRecords, Upgrade!BeginUpgrade, Upgrade!Answer, Upgrade!Backup, Upgrade!Import, Upgrade!UpgradeFails, Upgrade!WorkerEnds
<1>2. target.marker = legacy
  BY <1>1 DEF Upgrade!WorkerOpens, Upgrade!MayOpen
<1> QED BY <1>2 DEF UpgradeInv, Origins

-----------------------------------------------------------------------------
(* StoreSchema.  A file that is being opened lacks what its openers found
   missing, and the copy of the rows is held by who is alone with the file. *)

OpenerPhase == {"closed", "columns", "copy", "swap", "open", "failed"}
Columned == {NewColumns[i] : i \in DOMAIN NewColumns}

SchemaTypeOK ==
    /\ file \in [columns : SUBSET Columned, version : {1, 2}, rows : SUBSET Batch, copy : {None, {}},
                 duplicate : BOOLEAN]
    /\ opener \in [Opener -> [pc : OpenerPhase, missing : SUBSET Columned, alone : BOOLEAN]]
    /\ dropped \in BOOLEAN

(* Of processes that open the file at the same time none believes to be alone. *)
KnowsOthers ==
    \A o, p \in Schema!Opening : o # p => ~opener[o].alone

(* The copy is there while one process moves the rows, or one died doing so. *)
CopyIsHeld ==
    /\ \A o \in Opener : Schema!At(o, "swap") => file.copy = {}
    /\ \A o, p \in Opener : Schema!At(o, "swap") /\ Schema!At(p, "swap") => o = p
    /\ file.copy # None => dropped \/ \E o \in Opener : Schema!At(o, "swap")

MissingIsMissing ==
    \A o \in Opener : Schema!At(o, "columns") /\ opener[o].alone => opener[o].missing \cap file.columns = {}

SchemaInv == SchemaTypeOK /\ KnowsOthers /\ CopyIsHeld /\ MissingIsMissing /\ Schema!StoreOpens

LEMMA SchemaStarts == Schema!ColumnsAssumption /\ Schema!Init => SchemaInv
<1> SUFFICES ASSUME Schema!ColumnsAssumption, Schema!Init PROVE SchemaInv
  OBVIOUS
<1>1. PICK old \in SUBSET Batch, duplicate \in BOOLEAN, version \in {1, 2} :
        /\ file = [columns |-> {}, version |-> version, rows |-> old, copy |-> None, duplicate |-> duplicate]
        /\ written = old
  BY DEF Schema!Init
<1>2. /\ opener \in [Opener -> [pc : OpenerPhase, missing : SUBSET Columned, alone : BOOLEAN]]
      /\ \A o \in Opener : opener[o].pc = "closed"
  BY DEF Schema!Init, Schema!Closed, OpenerPhase
<1>3. file \in [columns : SUBSET Columned, version : {1, 2}, rows : SUBSET Batch, copy : {None, {}},
                duplicate : BOOLEAN]
  BY <1>1
<1>4. SchemaTypeOK
  BY <1>2, <1>3 DEF SchemaTypeOK, Schema!Init
<1>5. file.rows = written /\ file.copy = None
  BY <1>1
<1>6. KnowsOthers /\ MissingIsMissing
  BY <1>2 DEF KnowsOthers, Schema!Opening, MissingIsMissing, Schema!At
<1>7. CopyIsHeld
  BY <1>2, <1>5 DEF CopyIsHeld, Schema!At
<1>8. Schema!StoreOpens
  BY <1>2, <1>5 DEF Schema!StoreOpens, Schema!At
<1> QED BY <1>4, <1>6, <1>7, <1>8 DEF SchemaInv

LEMMA SchemaOpenKeeps ==
    ASSUME SchemaInv, NEW o \in Opener, Schema!Open(o)
    PROVE  SchemaInv'
<1> DEFINE new == [pc |-> "columns", alone |-> Schema!Opening = {}, missing |-> {NewColumns[i] : i \in DOMAIN NewColumns} \ file.columns]
<1>1. opener[o].pc = "closed" /\ UNCHANGED <<file, written, dropped>> /\ o \notin Schema!Opening
  BY DEF Schema!Open, Schema!At, Schema!Opening
<1>9. opener'[o] = new
  BY <1>1 DEF Schema!Open
<1>2. /\ opener'[o] = new
      /\ (Schema!Opening # {} => opener'[o].alone = FALSE)
      /\ \A p \in Opener : p # o => opener'[p].pc = opener[p].pc /\ opener'[p].missing = opener[p].missing
                                    /\ opener'[p].alone = (opener[p].alone /\ p \notin Schema!Opening)
  <2>1. ASSUME NEW p \in Opener, p # o
        PROVE  /\ opener'[p].pc = opener[p].pc /\ opener'[p].missing = opener[p].missing
               /\ opener'[p].alone = (opener[p].alone /\ p \notin Schema!Opening)
    <3>1. opener[p] \in [pc : OpenerPhase, missing : SUBSET Columned, alone : BOOLEAN]
      BY DEF SchemaInv, SchemaTypeOK
    <3>2. opener'[p] = IF p \in Schema!Opening THEN [opener[p] EXCEPT !.alone = FALSE] ELSE opener[p]
      BY <2>1 DEF Schema!Open
    <3>3. CASE p \in Schema!Opening
      BY <3>1, <3>2, <3>3
    <3>4. CASE p \notin Schema!Opening
      BY <3>1, <3>2, <3>4
    <3> QED BY <3>3, <3>4
  <2>2. Schema!Opening # {} => new.alone = FALSE
    OBVIOUS
  <2> HIDE DEF new
  <2>3. Schema!Opening # {} => opener'[o].alone = FALSE
    BY <1>9, <2>2
  <2> QED BY <1>9, <2>1, <2>3
<1>3. SchemaTypeOK'
  <2>1. new \in [pc : OpenerPhase, missing : SUBSET Columned, alone : BOOLEAN]
    BY DEF OpenerPhase, Columned
  <2> HIDE DEF new
  <2>2. ASSUME NEW p \in Opener PROVE opener'[p] \in [pc : OpenerPhase, missing : SUBSET Columned, alone : BOOLEAN]
    <3>1. CASE p = o
      BY <1>9, <2>1, <3>1
    <3>2. CASE p # o
      <4>1. opener[p] \in [pc : OpenerPhase, missing : SUBSET Columned, alone : BOOLEAN]
        BY DEF SchemaInv, SchemaTypeOK
      <4>2. opener'[p] = IF p \in Schema!Opening THEN [opener[p] EXCEPT !.alone = FALSE] ELSE opener[p]
        BY <3>2 DEF Schema!Open
      <4> QED BY <4>1, <4>2
    <3> QED BY <3>1, <3>2
  <2>3. opener' \in [Opener -> [pc : OpenerPhase, missing : SUBSET Columned, alone : BOOLEAN]]
    BY <2>2 DEF Schema!Open
  <2> QED BY <1>1, <2>3 DEF SchemaInv, SchemaTypeOK
<1>4. Schema!Opening' = Schema!Opening \cup {o}
  BY <1>1, <1>2 DEF Schema!Opening
<1>5. KnowsOthers'
  <2> SUFFICES ASSUME NEW p \in Schema!Opening', NEW q \in Schema!Opening', p # q PROVE ~opener'[p].alone
    BY DEF KnowsOthers
  <2>1. p \in Opener /\ q \in Opener
    BY DEF Schema!Opening
  <2>2. CASE p = o
    <3>1. q \in Schema!Opening
      BY <1>4, <2>2
    <3>2. Schema!Opening # {} => opener'[o].alone = FALSE
      BY <1>2
    <3> QED BY <2>2, <3>1, <3>2
  <2>3. CASE p # o
    BY <1>2, <1>4, <2>1, <2>3
  <2> QED BY <2>2, <2>3
<1>6. CopyIsHeld'
  BY <1>1, <1>2 DEF SchemaInv, CopyIsHeld, Schema!At
<1>7. MissingIsMissing'
  <2> SUFFICES ASSUME NEW p \in Opener, opener'[p].pc = "columns", opener'[p].alone
               PROVE  opener'[p].missing \cap file'.columns = {}
    BY DEF MissingIsMissing, Schema!At
  <2>1. CASE p = o
    BY <1>1, <1>2, <2>1
  <2>2. CASE p # o
    BY <1>1, <1>2, <2>2 DEF SchemaInv, MissingIsMissing, Schema!At
  <2> QED BY <2>1, <2>2
<1>8. Schema!StoreOpens'
  <2>1. file'.rows = written'
    BY <1>1 DEF SchemaInv, Schema!StoreOpens
  <2>2. ASSUME NEW p \in Opener, opener'[p].pc = "failed" PROVE file'.duplicate \/ dropped' \/ ~opener'[p].alone
    <3>1. p # o /\ opener[p].pc = "failed"
      BY <1>2, <2>2
    <3> QED BY <1>1, <1>2, <3>1 DEF SchemaInv, Schema!StoreOpens, Schema!At
  <2> QED BY <2>1, <2>2 DEF Schema!StoreOpens, Schema!At
<1> QED BY <1>3, <1>5, <1>6, <1>7, <1>8 DEF SchemaInv

(* The first column found missing is one of those. *)
LEMMA FirstMissing ==
    ASSUME Schema!ColumnsAssumption, SchemaInv, NEW o \in Opener, opener[o].missing # {}
    PROVE  LET i == CHOOSE i \in DOMAIN NewColumns :
                  /\ NewColumns[i] \in opener[o].missing
                  /\ \A j \in DOMAIN NewColumns : NewColumns[j] \in opener[o].missing => i <= j
           IN  i \in DOMAIN NewColumns /\ NewColumns[i] \in opener[o].missing
<1> DEFINE T == {i \in DOMAIN NewColumns : NewColumns[i] \in opener[o].missing}
<1>1. T \subseteq Nat /\ T # {}
  BY DEF Schema!ColumnsAssumption, SchemaInv, SchemaTypeOK, Columned
<1> HIDE DEF T
<1>2. PICK i \in T : \A j \in T : i <= j
  BY <1>1, LeastNat
<1> QED BY <1>2 DEF T

LEMMA AddColumnKeeps ==
    ASSUME Schema!ColumnsAssumption, SchemaInv, NEW o \in Opener, Schema!AddColumn(o)
    PROVE  SchemaInv'
<1>1. PICK c \in Columned :
         /\ c \in opener[o].missing
         /\ IF c \in file.columns
            THEN Schema!Goes(o, "failed") /\ UNCHANGED file
            ELSE /\ file' = [file EXCEPT !.columns = @ \cup {c}]
                 /\ opener' = [opener EXCEPT ![o].missing = @ \ {c}]
  BY FirstMissing DEF Schema!AddColumn, Columned
<1>2. Schema!At(o, "columns") /\ UNCHANGED <<written, dropped>> /\ o \in Schema!Opening
  BY DEF Schema!AddColumn, Schema!Opening, Schema!At
<1>3. CASE c \in file.columns
  <2>1. /\ \A p \in Opener : p # o => opener'[p] = opener[p]
        /\ opener'[o].pc = "failed" /\ opener'[o].alone = opener[o].alone /\ UNCHANGED <<file, written, dropped>>
        /\ opener' \in [Opener -> [pc : OpenerPhase, missing : SUBSET Columned, alone : BOOLEAN]]
    BY <1>1, <1>2, <1>3 DEF Schema!Goes, SchemaInv, SchemaTypeOK, OpenerPhase
  <2>2. ~opener[o].alone
    BY <1>1, <1>2, <1>3 DEF SchemaInv, MissingIsMissing
  <2>3. SchemaTypeOK' /\ KnowsOthers' /\ CopyIsHeld' /\ MissingIsMissing'
    BY SMTT(30), <1>2, <2>1 DEF SchemaInv, SchemaTypeOK, KnowsOthers, Schema!Opening, CopyIsHeld, Schema!At, MissingIsMissing
  <2>4. Schema!StoreOpens'
    BY <2>1, <2>2 DEF SchemaInv, Schema!StoreOpens, Schema!At
  <2> QED BY <2>3, <2>4 DEF SchemaInv
<1>4. CASE c \notin file.columns
  <2>1. /\ \A p \in Opener : p # o => opener'[p] = opener[p]
        /\ opener'[o].pc = opener[o].pc /\ opener'[o].alone = opener[o].alone
        /\ opener'[o].missing = opener[o].missing \ {c}
        /\ opener' \in [Opener -> [pc : OpenerPhase, missing : SUBSET Columned, alone : BOOLEAN]]
    BY <1>1, <1>4 DEF SchemaInv, SchemaTypeOK
  <2>2. /\ file'.columns = file.columns \cup {c} /\ file'.rows = file.rows /\ file'.copy = file.copy
        /\ file'.duplicate = file.duplicate
        /\ file' \in [columns : SUBSET Columned, version : {1, 2}, rows : SUBSET Batch, copy : {None, {}},
                      duplicate : BOOLEAN]
    BY <1>1, <1>4 DEF SchemaInv, SchemaTypeOK
  <2>5. \A p \in Opener : opener'[p].pc = opener[p].pc /\ opener'[p].alone = opener[p].alone
    BY <2>1
  <2>6. Schema!Opening' = Schema!Opening
    BY <2>5 DEF Schema!Opening
  <2>7. SchemaTypeOK'
    BY <1>2, <2>1, <2>2 DEF SchemaInv, SchemaTypeOK
  <2>8. KnowsOthers'
    BY <2>5, <2>6 DEF SchemaInv, KnowsOthers, Schema!Opening
  <2>9. CopyIsHeld'
    BY <1>2, <2>2, <2>5 DEF SchemaInv, CopyIsHeld, Schema!At
  <2>10. Schema!StoreOpens'
    BY <1>2, <2>2, <2>5 DEF SchemaInv, Schema!StoreOpens, Schema!At
  <2>3. SchemaTypeOK' /\ KnowsOthers' /\ CopyIsHeld' /\ Schema!StoreOpens'
    BY <2>7, <2>8, <2>9, <2>10
  <2>4. ASSUME NEW p \in Opener, Schema!At(p, "columns")', opener'[p].alone PROVE opener'[p].missing \cap file'.columns = {}
    <3>1. CASE p = o
      BY <1>1, <1>2, <2>1, <2>2, <2>4, <3>1 DEF SchemaInv, MissingIsMissing, Schema!At
    <3>2. CASE p # o
      BY <1>2, <2>1, <2>4, <3>2 DEF SchemaInv, KnowsOthers, Schema!Opening, Schema!At
    <3> QED BY <3>1, <3>2
  <2> QED BY <2>3, <2>4 DEF SchemaInv, MissingIsMissing
<1> QED BY <1>3, <1>4

LEMMA InspectKeeps ==
    ASSUME SchemaInv, NEW o \in Opener, Schema!Inspect(o)
    PROVE  SchemaInv'
<1>1. PICK pc \in {"failed", "copy", "open"} : Schema!Goes(o, pc) /\ (pc = "failed" => file.duplicate)
  BY DEF Schema!Inspect
<1>2. Schema!At(o, "columns") /\ UNCHANGED <<file, written, dropped>> /\ o \in Schema!Opening
  BY DEF Schema!Inspect, Schema!Opening, Schema!At
<1>3. /\ \A p \in Opener : p # o => opener'[p] = opener[p]
      /\ opener'[o].pc = pc /\ opener'[o].alone = opener[o].alone
      /\ opener' \in [Opener -> [pc : OpenerPhase, missing : SUBSET Columned, alone : BOOLEAN]]
  BY <1>1 DEF Schema!Goes, SchemaInv, SchemaTypeOK, OpenerPhase
<1>4. SchemaTypeOK' /\ KnowsOthers' /\ CopyIsHeld' /\ MissingIsMissing' /\ Schema!StoreOpens'
  BY <1>1, <1>2, <1>3 DEF SchemaInv, SchemaTypeOK, KnowsOthers, Schema!Opening, CopyIsHeld, Schema!At, MissingIsMissing, Schema!StoreOpens
<1> QED BY <1>4 DEF SchemaInv

LEMMA CreateCopyKeeps ==
    ASSUME Schema!ColumnsAssumption, SchemaInv, NEW o \in Opener, Schema!CreateCopy(o)
    PROVE  SchemaInv'
<1>1. Schema!At(o, "copy") /\ UNCHANGED <<written, dropped>> /\ o \in Schema!Opening /\ None # {}
  BY DEF Schema!CreateCopy, Schema!Opening, Schema!At, Schema!ColumnsAssumption
<1>2. CASE file.copy # None
  <2>1. /\ \A p \in Opener : p # o => opener'[p] = opener[p]
        /\ opener'[o].pc = "failed" /\ opener'[o].alone = opener[o].alone /\ UNCHANGED file
        /\ opener' \in [Opener -> [pc : OpenerPhase, missing : SUBSET Columned, alone : BOOLEAN]]
    BY <1>2 DEF Schema!CreateCopy, Schema!Goes, SchemaInv, SchemaTypeOK, OpenerPhase
  <2>2. dropped \/ ~opener[o].alone
    BY <1>1, <1>2 DEF SchemaInv, CopyIsHeld, KnowsOthers, Schema!Opening, Schema!At
  <2>5. Schema!Opening' \subseteq Schema!Opening
    BY <2>1 DEF Schema!Opening
  <2>6. \A p \in Opener : opener'[p].alone = opener[p].alone
    BY <2>1
  <2>7. KnowsOthers'
    BY <2>5, <2>6 DEF SchemaInv, KnowsOthers, Schema!Opening
  <2>8. SchemaTypeOK'
    BY <1>1, <2>1 DEF SchemaInv, SchemaTypeOK
  <2>9. \A p \in Opener : (Schema!At(p, "swap"))' <=> Schema!At(p, "swap")
    BY <1>1, <2>1 DEF Schema!At
  <2>10. CopyIsHeld'
    BY <1>1, <2>1, <2>9 DEF SchemaInv, CopyIsHeld
  <2>11. MissingIsMissing'
    BY <2>1, <2>6 DEF SchemaInv, MissingIsMissing, Schema!At
  <2>3. SchemaTypeOK' /\ KnowsOthers' /\ CopyIsHeld' /\ MissingIsMissing'
    BY <2>7, <2>8, <2>10, <2>11
  <2>4. Schema!StoreOpens'
    BY <1>1, <2>1, <2>2 DEF SchemaInv, Schema!StoreOpens, Schema!At
  <2> QED BY <2>3, <2>4 DEF SchemaInv
<1>3. CASE file.copy = None
  <2>1. /\ \A p \in Opener : p # o => opener'[p] = opener[p]
        /\ opener'[o].pc = "swap" /\ opener'[o].alone = opener[o].alone
        /\ opener' \in [Opener -> [pc : OpenerPhase, missing : SUBSET Columned, alone : BOOLEAN]]
    BY SMTT(30), <1>3 DEF Schema!CreateCopy, Schema!Goes, SchemaInv, SchemaTypeOK, OpenerPhase
  <2>2. /\ file'.columns = file.columns /\ file'.rows = file.rows /\ file'.copy = {}
        /\ file'.duplicate = file.duplicate
        /\ file' \in [columns : SUBSET Columned, version : {1, 2}, rows : SUBSET Batch, copy : {None, {}},
                      duplicate : BOOLEAN]
    BY <1>3 DEF Schema!CreateCopy, SchemaInv, SchemaTypeOK
  <2>6. Schema!Opening' = Schema!Opening
    BY <1>1, <2>1 DEF Schema!Opening
  <2>7. KnowsOthers'
    BY <2>1, <2>6 DEF SchemaInv, KnowsOthers, Schema!Opening
  <2>8. SchemaTypeOK'
    BY <1>1, <2>1, <2>2 DEF SchemaInv, SchemaTypeOK
  <2>9. MissingIsMissing' /\ Schema!StoreOpens'
    BY <1>1, <2>1, <2>2 DEF SchemaInv, Schema!At, MissingIsMissing, Schema!StoreOpens
  <2>3. SchemaTypeOK' /\ KnowsOthers' /\ MissingIsMissing' /\ Schema!StoreOpens'
    BY <2>7, <2>8, <2>9
  <2>4. \A p \in Opener : ~Schema!At(p, "swap")
    BY <1>1, <1>3 DEF SchemaInv, CopyIsHeld
  <2>5. CopyIsHeld'
    BY <1>1, <2>1, <2>2, <2>4 DEF CopyIsHeld, Schema!At
  <2> QED BY <2>3, <2>5 DEF SchemaInv
<1> QED BY <1>2, <1>3

LEMMA SwapKeeps ==
    ASSUME Schema!ColumnsAssumption, SchemaInv, NEW o \in Opener, Schema!Swap(o)
    PROVE  SchemaInv'
<1>1. Schema!At(o, "swap") /\ UNCHANGED <<written, dropped>> /\ o \in Schema!Opening /\ file.copy = {}
  BY DEF Schema!Swap, Schema!Opening, Schema!At, SchemaInv, CopyIsHeld
<1>2. /\ \A p \in Opener : p # o => opener'[p] = opener[p]
      /\ opener'[o].pc = "open" /\ opener'[o].alone = opener[o].alone
      /\ opener' \in [Opener -> [pc : OpenerPhase, missing : SUBSET Columned, alone : BOOLEAN]]
  BY DEF Schema!Swap, Schema!Goes, SchemaInv, SchemaTypeOK, OpenerPhase
<1>3. /\ file'.columns = file.columns /\ file'.rows = file.rows /\ file'.copy = None
      /\ file'.duplicate = file.duplicate
      /\ file' \in [columns : SUBSET Columned, version : {1, 2}, rows : SUBSET Batch, copy : {None, {}},
                    duplicate : BOOLEAN]
  BY <1>1 DEF Schema!Swap, Schema!Rebuilt, SchemaInv, SchemaTypeOK
<1>4. SchemaTypeOK' /\ KnowsOthers' /\ MissingIsMissing' /\ Schema!StoreOpens'
  BY <1>1, <1>2, <1>3 DEF SchemaInv, SchemaTypeOK, KnowsOthers, Schema!Opening, Schema!At, MissingIsMissing, Schema!StoreOpens
<1>5. CopyIsHeld'
  BY <1>1, <1>2, <1>3 DEF SchemaInv, CopyIsHeld, Schema!At
<1> QED BY <1>4, <1>5 DEF SchemaInv

LEMMA WriteKeeps ==
    ASSUME SchemaInv, NEW o \in Opener, NEW b \in Batch, Schema!Write(o, b)
    PROVE  SchemaInv'
<1>1. /\ file'.columns = file.columns /\ file'.rows = file.rows \cup {b} /\ file'.copy = file.copy
      /\ file'.duplicate = file.duplicate /\ written' = written \cup {b} /\ UNCHANGED <<opener, dropped>>
      /\ file' \in [columns : SUBSET Columned, version : {1, 2}, rows : SUBSET Batch, copy : {None, {}},
                    duplicate : BOOLEAN]
  BY DEF Schema!Write, SchemaInv, SchemaTypeOK
<1>2. SchemaTypeOK' /\ KnowsOthers' /\ CopyIsHeld' /\ MissingIsMissing' /\ Schema!StoreOpens'
  BY <1>1 DEF SchemaInv, SchemaTypeOK, KnowsOthers, Schema!Opening, CopyIsHeld, Schema!At, MissingIsMissing, Schema!StoreOpens
<1> QED BY <1>2 DEF SchemaInv

LEMMA SchemaEndKeeps ==
    ASSUME SchemaInv, NEW o \in Opener, Schema!End(o)
    PROVE  SchemaInv'
<1>1. /\ \A p \in Opener : p # o => opener'[p] = opener[p]
      /\ opener'[o].pc = "closed"
      /\ opener' \in [Opener -> [pc : OpenerPhase, missing : SUBSET Columned, alone : BOOLEAN]]
      /\ dropped' = (dropped \/ Schema!At(o, "swap")) /\ UNCHANGED <<file, written>>
  BY DEF Schema!End, Schema!Closed, SchemaInv, SchemaTypeOK, OpenerPhase
<1>2. SchemaTypeOK' /\ KnowsOthers' /\ MissingIsMissing' /\ Schema!StoreOpens'
  BY <1>1 DEF SchemaInv, SchemaTypeOK, KnowsOthers, Schema!Opening, Schema!At, MissingIsMissing, Schema!StoreOpens
<1>3. CopyIsHeld'
  BY <1>1 DEF SchemaInv, CopyIsHeld, Schema!At
<1> QED BY <1>2, <1>3 DEF SchemaInv

LEMMA SchemaSteps == Schema!ColumnsAssumption /\ SchemaInv /\ [Schema!Next]_(Schema!vars) => SchemaInv'
<1> SUFFICES ASSUME Schema!ColumnsAssumption, SchemaInv, [Schema!Next]_(Schema!vars) PROVE SchemaInv'
  OBVIOUS
<1>1. CASE UNCHANGED Schema!vars
  BY <1>1 DEF Schema!vars, SchemaInv, SchemaTypeOK, KnowsOthers, Schema!Opening, CopyIsHeld, Schema!At, MissingIsMissing, Schema!StoreOpens
<1> QED BY <1>1, SchemaOpenKeeps, AddColumnKeeps, InspectKeeps, CreateCopyKeeps, SwapKeeps, WriteKeeps, SchemaEndKeeps
        DEF Schema!Next

-----------------------------------------------------------------------------
(* ShadowChain.  The rows of a run, sorted by their sequence, are its
   checkpoints as they were recorded, unless one was damaged. *)

IsCheckpoint(c) ==
    /\ c = [run |-> c.run, sequence |-> c.sequence, previous |-> c.previous, by |-> c.by]
    /\ c.run \in Run /\ c.sequence \in 1..MaxSeq

(* Rows of committed checkpoints, whatever became of them. *)
RowsOf(A) ==
    [columns : [run : Run, sequence : 1..MaxSeq, digest : A], body : A \cup {[c EXCEPT !.by = None] : c \in A}]

ChainTypeOK ==
    /\ \A c \in appended : IsCheckpoint(c)
    /\ rows \in Seq(RowsOf(appended))
    /\ holds = [w \in Writer |-> holds[w]]
    /\ \A w \in Writer : holds[w] = None \/ IsCheckpoint(holds[w])
    /\ damage \in Nat

OneRowEach ==
    \A i, j \in 1..Len(rows) :
        rows[i].columns.run = rows[j].columns.run /\ rows[i].columns.sequence = rows[j].columns.sequence => i = j

(* Of an undamaged table: no checkpoint of a run is missing, and each names
   the one before. *)
Undamaged ==
    /\ \A row \in Chain!Range(rows) : Chain!Sound(row)
    /\ \A row \in Chain!Range(rows) : \A n \in 1..row.columns.sequence :
          \E x \in Chain!Range(rows) : x.columns.run = row.columns.run /\ x.columns.sequence = n
    /\ \A row, x \in Chain!Range(rows) :
          row.columns.run = x.columns.run /\ row.columns.sequence = x.columns.sequence + 1
              => row.body.previous = x.body
    /\ \A row \in Chain!Range(rows) : row.columns.sequence = 1 => row.body.previous = None

ChainInv == ChainTypeOK /\ OneRowEach /\ (damage = 0 => Undamaged) /\ Chain!ReadAsRecorded

-----------------------------------------------------------------------------
Keyed(S) ==
    /\ \A x \in S : x.columns.sequence \in Nat
    /\ \A x, y \in S : x.columns.sequence = y.columns.sequence => x = y

(* Rows with numbers of their own have ranks of their own, which are all the
   ranks there are. *)
LEMMA Ranks ==
    ASSUME NEW S, IsFiniteSet(S), Keyed(S)
    PROVE  /\ \A i \in 1..Cardinality(S) : \E x \in S : Cardinality(Chain!Before(x, S)) = i - 1
           /\ \A x \in S : Cardinality(Chain!Before(x, S)) + 1 \in 1..Cardinality(S)
           /\ \A x, y \in S : Cardinality(Chain!Before(x, S)) < Cardinality(Chain!Before(y, S))
                                 => x.columns.sequence < y.columns.sequence
<1> DEFINE rank == [x \in S |-> Cardinality(Chain!Before(x, S)) + 1]
           n == Cardinality(S)
<1>1. n \in Nat
  BY FS_CardinalityType
<1>2. ASSUME NEW x \in S PROVE /\ IsFiniteSet(Chain!Before(x, S)) /\ Cardinality(Chain!Before(x, S)) \in Nat
                               /\ Cardinality(Chain!Before(x, S)) < n
  <2>1. Chain!Before(x, S) \in SUBSET S /\ x \notin Chain!Before(x, S)
    BY DEF Chain!Before, Keyed
  <2>2. IsFiniteSet(Chain!Before(x, S)) /\ Cardinality(Chain!Before(x, S)) <= n /\ Cardinality(Chain!Before(x, S)) # n
    BY <2>1, FS_Subset
  <2>3. Cardinality(Chain!Before(x, S)) \in Nat
    BY <2>2, FS_CardinalityType
  <2> QED BY <1>1, <2>2, <2>3
<1>3. ASSUME NEW x \in S, NEW y \in S, x.columns.sequence < y.columns.sequence
      PROVE  Cardinality(Chain!Before(x, S)) < Cardinality(Chain!Before(y, S))
  <2>1. Chain!Before(x, S) \in SUBSET Chain!Before(y, S) /\ x \in Chain!Before(y, S) /\ x \notin Chain!Before(x, S)
    BY <1>3 DEF Chain!Before, Keyed
  <2>2. Cardinality(Chain!Before(x, S)) <= Cardinality(Chain!Before(y, S)) /\ Cardinality(Chain!Before(x, S)) # Cardinality(Chain!Before(y, S))
    BY <1>2, <2>1, FS_Subset
  <2> QED BY <1>2, <2>2
<1>4. \A x, y \in S : x = y \/ x.columns.sequence < y.columns.sequence \/ y.columns.sequence < x.columns.sequence
  BY DEF Keyed
<1>5. rank \in Injection(S, 1..n)
  <2>1. rank \in [S -> 1..n]
    BY <1>1, <1>2
  <2>2. \A x, y \in S : rank[x] = rank[y] => x = y
    BY <1>2, <1>3, <1>4
  <2> HIDE DEF rank
  <2> QED BY <2>1, <2>2 DEF Injection, IsInjective
<1>6. IsFiniteSet(1..n) /\ Cardinality(1..n) = n
  BY <1>1, FS_Interval
<1>7. rank \in Surjection(S, 1..n)
  <2> HIDE DEF rank
  <2> QED BY <1>5, <1>6, FS_Injection
<1>8. ASSUME NEW i \in 1..n PROVE \E x \in S : Cardinality(Chain!Before(x, S)) = i - 1
  <2>1. PICK x \in S : rank[x] = i
    BY <1>7 DEF Surjection
  <2> QED BY <1>1, <1>2, <2>1
<1>9. ASSUME NEW x \in S, NEW y \in S, Cardinality(Chain!Before(x, S)) < Cardinality(Chain!Before(y, S))
      PROVE  x.columns.sequence < y.columns.sequence
  BY <1>2, <1>3, <1>4, <1>9
<1> QED BY <1>1, <1>2, <1>8, <1>9

LEMMA OrderedRows ==
    ASSUME NEW S, IsFiniteSet(S), Keyed(S)
    PROVE  /\ Cardinality(S) \in Nat /\ Len(Chain!Ordered(S)) = Cardinality(S)
           /\ \A i \in 1..Cardinality(S) : Chain!Ordered(S)[i] \in S /\ Cardinality(Chain!Before(Chain!Ordered(S)[i], S)) = i - 1
           /\ Chain!Ordered(S) = <<>> <=> S = {}
<1>1. Cardinality(S) \in Nat /\ (Cardinality(S) = 0 <=> S = {})
  BY FS_CardinalityType, FS_EmptySet
<1>2. ASSUME NEW i \in 1..Cardinality(S)
      PROVE  Chain!Ordered(S)[i] \in S /\ Cardinality(Chain!Before(Chain!Ordered(S)[i], S)) = i - 1
  <2>1. \E x \in S : Cardinality(Chain!Before(x, S)) = i - 1
    BY Ranks
  <2>2. Chain!Ordered(S)[i] = CHOOSE row \in S : Cardinality(Chain!Before(row, S)) = i - 1
    BY Counts DEF Chain!Ordered
  <2> QED BY <2>1, <2>2
<1>3. Len(Chain!Ordered(S)) = Cardinality(S)
  BY <1>1, Counts DEF Chain!Ordered
<1>4. Chain!Ordered(S) = <<>> <=> Cardinality(S) = 0
  BY <1>1, Counts DEF Chain!Ordered
<1> QED BY <1>1, <1>2, <1>3, <1>4

(* The last of them has the greatest number. *)
LEMMA LastRow ==
    ASSUME NEW S, IsFiniteSet(S), Keyed(S), S # {}
    PROVE  Chain!Last(Chain!Ordered(S)) \in S /\ \A x \in S : x.columns.sequence <= Chain!Last(Chain!Ordered(S)).columns.sequence
<1> DEFINE n == Cardinality(S)
<1>1. n \in Nat /\ n # 0 /\ Len(Chain!Ordered(S)) = n
  BY OrderedRows, FS_EmptySet
<1>2. PICK last \in S : last = Chain!Last(Chain!Ordered(S)) /\ Cardinality(Chain!Before(last, S)) = n - 1
  BY <1>1, OrderedRows DEF Chain!Last
<1>3. ASSUME NEW x \in S, x # last PROVE x.columns.sequence <= last.columns.sequence
  <2>1. IsFiniteSet(S \ {last}) /\ Cardinality(S \ {last}) = n - 1
    BY FS_RemoveElement
  <2>2. Chain!Before(last, S) \in SUBSET (S \ {last})
    BY DEF Chain!Before, Keyed
  <2>3. Chain!Before(last, S) = S \ {last}
    BY <1>2, <2>1, <2>2, FS_Subset
  <2> QED BY <1>3, <2>3 DEF Chain!Before, Keyed
<1>4. last.columns.sequence <= last.columns.sequence
  BY DEF Keyed
<1> QED BY <1>2, <1>3, <1>4

-----------------------------------------------------------------------------
LEMMA TableRows ==
    ASSUME ChainTypeOK
    PROVE  /\ Len(rows) \in Nat /\ DOMAIN rows = 1..Len(rows)
           /\ \A i \in 1..Len(rows) : rows[i] \in RowsOf(appended)
           /\ Chain!Range(rows) = {rows[i] : i \in 1..Len(rows)} /\ IsFiniteSet(Chain!Range(rows))
<1>1. Len(rows) \in Nat /\ DOMAIN rows = 1..Len(rows) /\ \A i \in 1..Len(rows) : rows[i] \in RowsOf(appended)
  BY LenProperties, ElementOfSeq DEF ChainTypeOK
<1>2. rows \in [1..Len(rows) -> RowsOf(appended)]
  BY LenProperties DEF ChainTypeOK
<1>3. Chain!Range(rows) = {rows[i] : i \in 1..Len(rows)}
  BY <1>1 DEF Chain!Range
<1>4. IsFiniteSet(1..Len(rows))
  BY <1>1, FS_Interval
<1>5. rows \in Surjection(1..Len(rows), Chain!Range(rows))
  <2>1. rows \in [1..Len(rows) -> Chain!Range(rows)]
    BY <1>2, <1>3
  <2>2. \A x \in Chain!Range(rows) : \E i \in 1..Len(rows) : rows[i] = x
    BY <1>3
  <2> QED BY <2>1, <2>2 DEF Surjection
<1> QED BY <1>1, <1>3, <1>4, <1>5, FS_Surjection

LEMMA RunRows ==
    ASSUME Chain!ChainAssumption, ChainTypeOK, OneRowEach, NEW r
    PROVE  /\ IsFiniteSet(Chain!Of(r)) /\ Keyed(Chain!Of(r))
           /\ \A x \in Chain!Of(r) : x \in Chain!Range(rows) /\ x \in RowsOf(appended) /\ x.columns.sequence \in 1..MaxSeq
                               /\ x.columns.run = r
<1>1. Chain!Of(r) \in SUBSET Chain!Range(rows)
  BY DEF Chain!Of
<1>2. IsFiniteSet(Chain!Of(r))
  BY <1>1, TableRows, FS_Subset
<1>3. ASSUME NEW x \in Chain!Of(r)
      PROVE  x \in Chain!Range(rows) /\ x \in RowsOf(appended) /\ x.columns.sequence \in 1..MaxSeq /\ x.columns.run = r
  <2>1. x \in RowsOf(appended) /\ x \in Chain!Range(rows) /\ x.columns.run = r
    BY TableRows DEF Chain!Of
  <2> QED BY <2>1 DEF RowsOf
<1>4. MaxSeq \in Nat
  BY DEF Chain!ChainAssumption
<1>5. ASSUME NEW x \in Chain!Of(r), NEW y \in Chain!Of(r), x.columns.sequence = y.columns.sequence PROVE x = y
  <2>1. PICK i \in 1..Len(rows), j \in 1..Len(rows) : x = rows[i] /\ y = rows[j]
    BY TableRows DEF Chain!Of
  <2>2. i = j
    BY <1>3, <1>5, <2>1 DEF OneRowEach
  <2> QED BY <2>1, <2>2
<1> QED BY <1>2, <1>3, <1>4, <1>5 DEF Keyed

(* Of an undamaged run the row in each place has the number of that place. *)
LEMMA WholeRuns ==
    ASSUME Chain!ChainAssumption, ChainTypeOK, OneRowEach, Undamaged, NEW r
    PROVE  Chain!Verified(Chain!BySequence(r))
<1> DEFINE S == Chain!Of(r)
           q == Chain!Ordered(S)
<1>1. IsFiniteSet(S) /\ Keyed(S) /\ MaxSeq \in Nat
  BY RunRows DEF Chain!ChainAssumption
<1>2. \A x \in S : /\ x \in Chain!Range(rows) /\ x.columns.sequence \in 1..MaxSeq /\ x.columns.run = r
  BY RunRows
<1>3. ASSUME NEW x \in S PROVE Cardinality(Chain!Before(x, S)) = x.columns.sequence - 1
  <2> DEFINE k == x.columns.sequence
             B == Chain!Before(x, S)
             f == [y \in B |-> y.columns.sequence]
  <2>1. k \in Nat \ {0} /\ k <= MaxSeq
    BY <1>1, <1>2
  <2>2. \A y \in B : y \in S /\ y.columns.sequence \in 1..(k - 1)
    BY <1>1, <1>2, <2>1 DEF Chain!Before
  <2>3. \A j \in 1..(k - 1) : \E y \in B : y.columns.sequence = j
    <3> SUFFICES ASSUME NEW j \in 1..(k - 1) PROVE \E y \in B : y.columns.sequence = j
      OBVIOUS
    <3>1. j \in 1..x.columns.sequence
      BY <2>1
    <3>2. PICK y \in Chain!Range(rows) : y.columns.run = x.columns.run /\ y.columns.sequence = j
      BY <1>2, <3>1 DEF Undamaged
    <3>3. y \in S
      BY <1>2, <3>2 DEF Chain!Of
    <3> QED BY <2>1, <3>2, <3>3 DEF Chain!Before
  <2>4. f \in Bijection(B, 1..(k - 1))
    <3>1. f \in [B -> 1..(k - 1)]
      BY <2>2
    <3>2. \A y, z \in B : f[y] = f[z] => y = z
      BY <1>1, <2>2 DEF Keyed
    <3>3. \A j \in 1..(k - 1) : \E y \in B : f[y] = j
      BY <2>3
    <3> HIDE DEF f, B
    <3> QED BY <3>1, <3>2, <3>3 DEF Bijection, Injection, Surjection, IsInjective
  <2>5. B \in SUBSET S
    BY DEF Chain!Before
  <2>6. IsFiniteSet(B)
    BY <1>1, <2>5, FS_Subset
  <2>7. ExistsBijection(B, 1..(k - 1))
    BY <2>4 DEF ExistsBijection
  <2>8. Cardinality(1..(k - 1)) = k - 1
    <3>1. 1 \in Int /\ k - 1 \in Int
      BY <2>1
    <3> HIDE DEF k
    <3>2. Cardinality(1..(k - 1)) = IF 1 > k - 1 THEN 0 ELSE (k - 1) - 1 + 1
      BY <3>1, FS_Interval
    <3> QED BY <2>1, <3>2
  <2> QED BY <2>6, <2>7, <2>8, FS_Bijection
<1>4. /\ Cardinality(S) \in Nat /\ Len(q) = Cardinality(S)
      /\ \A i \in 1..Cardinality(S) : q[i] \in S /\ Cardinality(Chain!Before(q[i], S)) = i - 1
  BY <1>1, OrderedRows
<1> HIDE DEF q, S
<1>5. \A i \in 1..Len(q) : q[i] \in S /\ q[i].columns.sequence = i
  BY <1>1, <1>2, <1>3, <1>4
<1>6. ASSUME NEW i \in 1..Len(q) PROVE Chain!Sound(q[i]) /\ q[i].body.sequence = i
  <2>1. Chain!Sound(q[i])
    BY <1>2, <1>5 DEF Undamaged
  <2> QED BY <1>5, <2>1 DEF Chain!Sound, Chain!Columns
<1>7. ASSUME NEW i \in 1..Len(q) PROVE q[i].body.previous = (IF i = 1 THEN None ELSE q[i - 1].body)
  <2>1. q[i] \in Chain!Range(rows) /\ q[i].columns.run = r /\ q[i].columns.sequence = i
    BY <1>2, <1>5
  <2>2. CASE i = 1
    BY <2>1, <2>2 DEF Undamaged
  <2>3. CASE i # 1
    <3>1. i - 1 \in 1..Len(q) /\ i = (i - 1) + 1
      BY <1>4, <2>3
    <3>2. q[i - 1] \in Chain!Range(rows) /\ q[i - 1].columns.run = r /\ q[i - 1].columns.sequence = i - 1
      BY <1>2, <1>5, <3>1
    <3> QED BY <2>1, <2>3, <3>1, <3>2 DEF Undamaged
  <2> QED BY <2>2, <2>3
<1>8. Chain!Verified(q)
  BY <1>6, <1>7 DEF Chain!Verified
<1> QED BY <1>8 DEF Chain!BySequence, q, S

(* What is read from a chain that has been verified was committed. *)
LEMMA VerifiedRuns ==
    ASSUME Chain!ChainAssumption, ChainTypeOK, OneRowEach, NEW r, Chain!Verified(Chain!BySequence(r))
    PROVE  \A i \in 1..Len(Chain!Bodies(Chain!BySequence(r))) :
              LET b == Chain!Bodies(Chain!BySequence(r)) IN
              /\ b[i] \in appended /\ b[i].sequence = i
              /\ b[i].previous = (IF i = 1 THEN None ELSE b[i - 1])
<1> DEFINE q == Chain!BySequence(r)
           b == Chain!Bodies(q)
<1>1. Len(q) \in Nat /\ \A i \in 1..Len(q) : q[i] \in Chain!Of(r)
  BY RunRows, OrderedRows DEF Chain!BySequence
<1>2. \A i \in 1..Len(q) : q[i] \in RowsOf(appended)
  BY <1>1, RunRows
<1> HIDE DEF q
<1>3. Len(b) = Len(q) /\ \A i \in 1..Len(q) : b[i] = q[i].body
  BY <1>1 DEF Chain!Bodies
<1>4. Chain!Verified(q)
  BY DEF q
<1> HIDE DEF b
<1>5. ASSUME NEW i \in 1..Len(b)
      PROVE  b[i] \in appended /\ b[i].sequence = i /\ b[i].previous = (IF i = 1 THEN None ELSE b[i - 1])
  <2>1. Chain!Sound(q[i]) /\ q[i].body.sequence = i /\ q[i].body.previous = (IF i = 1 THEN None ELSE q[i - 1].body)
    BY <1>3, <1>4 DEF Chain!Verified
  <2>2. q[i].columns.digest \in appended
    BY <1>2, <1>3 DEF RowsOf
  <2>3. q[i].body \in appended
    BY <2>1, <2>2 DEF Chain!Sound, Chain!Columns
  <2>4. i # 1 => b[i - 1] = q[i - 1].body
    BY <1>1, <1>3
  <2> QED BY <1>3, <2>1, <2>3, <2>4
<1> QED BY <1>5 DEF b, q

-----------------------------------------------------------------------------
LEMMA ChainStarts == Chain!ChainAssumption /\ Chain!Init => ChainInv
<1> SUFFICES ASSUME Chain!ChainAssumption, Chain!Init PROVE ChainInv
  OBVIOUS
<1>1. rows = <<>> /\ appended = {} /\ answer = None /\ damage = 0 /\ holds = [w \in Writer |-> None]
  BY DEF Chain!Init
<1>2. rows \in Seq(RowsOf(appended)) /\ Len(rows) = 0
  BY <1>1, EmptySeq
<1>3. ChainTypeOK
  BY <1>1, <1>2 DEF ChainTypeOK
<1>4. OneRowEach /\ Chain!Range(rows) = {}
  BY <1>2, <1>3, TableRows DEF OneRowEach
<1>5. Undamaged /\ Chain!ReadAsRecorded
  BY <1>1, <1>4 DEF Undamaged, Chain!ReadAsRecorded
<1> QED BY <1>3, <1>4, <1>5 DEF ChainInv

LEMMA FollowingIs ==
    ASSUME Chain!ChainAssumption, ChainTypeOK, NEW w \in Writer, NEW r \in Run, Chain!Following(w, r).sequence <= MaxSeq
    PROVE  IsCheckpoint(Chain!Following(w, r)) /\ Chain!Following(w, r).run = r
<1>1. MaxSeq \in Nat \ {0}
  BY DEF Chain!ChainAssumption
<1>2. CASE holds[w] = None \/ holds[w].run # r
  BY <1>1, <1>2 DEF Chain!Following, IsCheckpoint
<1>3. CASE ~(holds[w] = None \/ holds[w].run # r)
  <2>1. holds[w].sequence \in 1..MaxSeq
    BY <1>3 DEF ChainTypeOK, IsCheckpoint
  <2>2. Chain!Following(w, r) = [run |-> r, sequence |-> holds[w].sequence + 1, previous |-> holds[w], by |-> w]
    BY <1>3 DEF Chain!Following
  <2> QED BY <1>1, <2>1, <2>2 DEF IsCheckpoint
<1> QED BY <1>2, <1>3

LEMMA GrowingRows ==
    ASSUME NEW A, NEW B, A \subseteq B
    PROVE  Seq(RowsOf(A)) \subseteq Seq(RowsOf(B))
<1>1. RowsOf(A) \subseteq RowsOf(B)
  BY DEF RowsOf
<1> QED BY <1>1, SeqMonotonic

LEMMA InsertKeeps ==
    ASSUME Chain!ChainAssumption, ChainInv, NEW c, IsCheckpoint(c), Chain!Follows(c),
           rows' = rows \o <<[columns |-> Chain!Columns(c), body |-> c]>>, appended' = appended \cup {c},
           UNCHANGED <<damage, answer>>
    PROVE  /\ rows' \in Seq(RowsOf(appended')) /\ OneRowEach' /\ (damage' = 0 => Undamaged') /\ Chain!ReadAsRecorded'
<1> DEFINE new == [columns |-> Chain!Columns(c), body |-> c]
           S == Chain!Of(c.run)
<1>0. MaxSeq \in Nat \ {0} /\ ChainTypeOK /\ OneRowEach
  BY DEF Chain!ChainAssumption, ChainInv
<1>1. new \in RowsOf(appended')
  BY DEF RowsOf, Chain!Columns, IsCheckpoint
<1>2. /\ new.columns.run = c.run /\ new.columns.sequence = c.sequence /\ new.columns.digest = c /\ new.body = c
      /\ Chain!Sound(new) /\ c.sequence \in 1..MaxSeq
  BY DEF Chain!Columns, Chain!Sound, IsCheckpoint
<1>3. rows \in Seq(RowsOf(appended'))
  BY <1>0, GrowingRows DEF ChainTypeOK
<1>4. <<new>> \in Seq(RowsOf(appended')) /\ Len(<<new>>) = 1 /\ <<new>>[1] = new
  BY <1>1
<1>5. rows' = rows \o <<new>>
  OBVIOUS
<1> HIDE DEF new
<1>6. /\ rows' \in Seq(RowsOf(appended')) /\ Len(rows') = Len(rows) + 1
      /\ \A i \in 1..Len(rows) + 1 : rows'[i] = IF i <= Len(rows) THEN rows[i] ELSE new
  <2>1. /\ rows \o <<new>> \in Seq(RowsOf(appended')) /\ Len(rows \o <<new>>) = Len(rows) + Len(<<new>>)
        /\ \A i \in 1..Len(rows) + Len(<<new>>) :
              (rows \o <<new>>)[i] = IF i <= Len(rows) THEN rows[i] ELSE <<new>>[i - Len(rows)]
    BY <1>3, <1>4, ConcatProperties
  <2>2. Len(rows) \in Nat
    BY <1>0, TableRows
  <2> QED BY <1>4, <1>5, <2>1, <2>2
<1>7. Len(rows) \in Nat /\ Chain!Range(rows) = {rows[i] : i \in 1..Len(rows)}
  BY <1>0, TableRows
<1>8. Chain!Range(rows') = Chain!Range(rows) \cup {new}
  <2>1. DOMAIN rows' = 1..Len(rows')
    BY <1>6, LenProperties
  <2>2. Chain!Range(rows') = {rows'[i] : i \in 1..Len(rows')}
    BY <2>1 DEF Chain!Range
  <2> QED BY <1>6, <1>7, <2>2
<1>9. IsFiniteSet(S) /\ Keyed(S)
  BY <1>0, RunRows
<1>10. \A x \in S : x \in Chain!Range(rows) /\ x.columns.sequence \in 1..MaxSeq /\ x.columns.run = c.run
  BY <1>0, RunRows
<1>11. \A x \in Chain!Range(rows) : x.columns.run = c.run => x \in S
  BY DEF Chain!Of
<1>12. CASE S = {}
  <2>1. c.sequence = 1 /\ c.previous = None
    BY <1>9, <1>12, OrderedRows DEF Chain!Follows, Chain!BySequence
  <2>2. \A i \in 1..Len(rows) : rows[i].columns.run # c.run
    BY <1>7, <1>11, <1>12
  <2>3. OneRowEach'
    BY <1>0, <1>2, <1>6, <1>7, <2>2 DEF OneRowEach
  <2>4. ASSUME damage' = 0 PROVE Undamaged'
    <3>0. Undamaged /\ \A x \in Chain!Range(rows) : x.columns.run # c.run
      BY <1>11, <1>12, <2>4 DEF ChainInv
    <3>1. \A row \in Chain!Range(rows') : Chain!Sound(row)
      BY <1>2, <1>8, <3>0 DEF Undamaged
    <3>2. \A row \in Chain!Range(rows') : \A n \in 1..row.columns.sequence :
             \E x \in Chain!Range(rows') : x.columns.run = row.columns.run /\ x.columns.sequence = n
      BY <1>2, <1>8, <2>1, <3>0 DEF Undamaged
    <3>3. \A row, x \in Chain!Range(rows') :
             row.columns.run = x.columns.run /\ row.columns.sequence = x.columns.sequence + 1
                 => row.body.previous = x.body
      BY <1>2, <1>8, <2>1, <3>0 DEF Undamaged
    <3>4. \A row \in Chain!Range(rows') : row.columns.sequence = 1 => row.body.previous = None
      BY <1>2, <1>8, <2>1, <3>0 DEF Undamaged
    <3> QED BY <3>1, <3>2, <3>3, <3>4 DEF Undamaged, Chain!Sound, Chain!Columns
  <2> QED BY <1>6, <2>3, <2>4 DEF ChainInv, Chain!ReadAsRecorded
<1>13. CASE S # {}
  <2> DEFINE last == Chain!Last(Chain!Ordered(S))
  <2>1. last \in S /\ \A x \in S : x.columns.sequence <= last.columns.sequence
    BY <1>9, <1>13, LastRow
  <2>2. c.sequence = last.columns.sequence + 1 /\ c.previous = last.columns.digest
    BY <1>9, <1>13, OrderedRows DEF Chain!Follows, Chain!BySequence
  <2> HIDE DEF last, S
  <2>3. \A x \in S : x.columns.sequence \in Nat /\ x.columns.sequence < c.sequence
    BY <1>0, <1>10, <2>1, <2>2
  <2>4. \A i \in 1..Len(rows) : rows[i].columns.run = c.run => rows[i].columns.sequence # c.sequence
    BY SMTT(30), <1>7, <1>11, <2>3
  <2>5. OneRowEach'
    BY <1>0, <1>2, <1>6, <1>7, <2>4 DEF OneRowEach
  <2>6. ASSUME damage' = 0 PROVE Undamaged'
    <3>0. Undamaged
      BY <2>6 DEF ChainInv
    <3>1. \A row \in Chain!Range(rows') : Chain!Sound(row)
      BY <1>2, <1>8, <3>0 DEF Undamaged
    <3>2. ASSUME NEW row \in Chain!Range(rows'), NEW n \in 1..row.columns.sequence
          PROVE  \E x \in Chain!Range(rows') : x.columns.run = row.columns.run /\ x.columns.sequence = n
      <4>1. CASE row \in Chain!Range(rows)
        BY <1>8, <3>0, <3>2, <4>1 DEF Undamaged
      <4>2. CASE row = new /\ n = c.sequence
        BY <1>2, <1>8, <4>2
      <4>3. CASE row = new /\ n # c.sequence
        <5>1. n \in 1..last.columns.sequence /\ last \in Chain!Range(rows) /\ last.columns.run = c.run
          BY <1>2, <1>10, <2>1, <2>2, <3>2, <4>3
        <5> QED BY <1>2, <1>8, <3>0, <4>3, <5>1 DEF Undamaged
      <4> QED BY <1>8, <4>1, <4>2, <4>3
    <3>3. ASSUME NEW row \in Chain!Range(rows'), NEW x \in Chain!Range(rows'),
                 row.columns.run = x.columns.run, row.columns.sequence = x.columns.sequence + 1
          PROVE  row.body.previous = x.body
      <4>1. CASE row \in Chain!Range(rows) /\ x \in Chain!Range(rows)
        BY <3>0, <3>3, <4>1 DEF Undamaged
      <4>2. CASE row = new /\ x \in Chain!Range(rows)
        <5>1. x \in S /\ x.columns.sequence = last.columns.sequence
          BY <1>2, <1>10, <1>11, <2>1, <2>2, <3>3, <4>2
        <5>2. x = last
          BY <1>9, <2>1, <5>1 DEF Keyed
        <5>3. last.columns.digest = last.body
          <6>1. Chain!Sound(last)
            BY <1>10, <2>1, <3>0 DEF Undamaged
          <6>2. last.columns = [run |-> last.body.run, sequence |-> last.body.sequence, digest |-> last.body]
            BY <6>1 DEF Chain!Sound, Chain!Columns
          <6> QED BY <6>2
        <5> QED BY <1>2, <2>2, <4>2, <5>2, <5>3
      <4>3. CASE row \in Chain!Range(rows) /\ x = new
        <5>1. row \in S /\ row.columns.sequence = c.sequence + 1
          BY <1>2, <1>11, <3>3, <4>3
        <5> QED BY <1>2, <2>3, <5>1
      <4>4. CASE row = new /\ x = new
        BY <1>2, <3>3, <4>4
      <4> QED BY <1>8, <4>1, <4>2, <4>3, <4>4
    <3>4. ASSUME NEW row \in Chain!Range(rows'), row.columns.sequence = 1 PROVE row.body.previous = None
      <4>1. c.sequence # 1
        BY <1>10, <2>1, <2>2
      <4> QED BY <1>2, <1>8, <3>0, <3>4, <4>1 DEF Undamaged
    <3> QED BY <3>1, <3>2, <3>3, <3>4 DEF Undamaged, Chain!Sound, Chain!Columns
  <2> QED BY <1>6, <2>5, <2>6 DEF ChainInv, Chain!ReadAsRecorded
<1> QED BY <1>12, <1>13

LEMMA AppendKeeps ==
    ASSUME Chain!ChainAssumption, ChainInv, NEW w \in Writer, NEW r \in Run, Chain!AppendCheckpoint(w, r)
    PROVE  ChainInv'
<1> DEFINE c == Chain!Following(w, r)
<1>1. c.sequence <= MaxSeq /\ holds' = [holds EXCEPT ![w] = c] /\ UNCHANGED <<damage, answer>>
  BY DEF Chain!AppendCheckpoint
<1>2. IsCheckpoint(c)
  BY <1>1, FollowingIs DEF ChainInv
<1>3. \/ /\ Chain!Follows(c)
         /\ rows' = rows \o <<[columns |-> Chain!Columns(c), body |-> c]>>
         /\ appended' = appended \cup {c}
      \/ UNCHANGED <<rows, appended>>
  BY DEF Chain!AppendCheckpoint
<1> HIDE DEF c
<1>4. /\ holds' = [v \in Writer |-> holds'[v]]
      /\ \A v \in Writer : holds'[v] = None \/ IsCheckpoint(holds'[v])
  BY <1>1, <1>2 DEF ChainInv, ChainTypeOK
<1>5. CASE UNCHANGED <<rows, appended>>
  <2>1. ChainTypeOK'
    BY <1>1, <1>4, <1>5 DEF ChainInv, ChainTypeOK, IsCheckpoint, RowsOf
  <2>2. OneRowEach' /\ Chain!ReadAsRecorded'
    BY <1>1, <1>5 DEF ChainInv, OneRowEach, Chain!ReadAsRecorded
  <2>3. Undamaged => Undamaged'
    BY <1>5 DEF Undamaged, Chain!Sound, Chain!Columns
  <2> QED BY <1>1, <2>1, <2>2, <2>3 DEF ChainInv
<1>6. CASE ~UNCHANGED <<rows, appended>>
  <2>1. rows' \in Seq(RowsOf(appended')) /\ OneRowEach' /\ (damage' = 0 => Undamaged') /\ Chain!ReadAsRecorded'
    BY <1>1, <1>2, <1>3, <1>6, InsertKeeps
  <2>2. \A d \in appended' : IsCheckpoint(d)
    BY <1>2, <1>3, <1>6 DEF ChainInv, ChainTypeOK
  <2>3. ChainTypeOK'
    BY <1>1, <1>4, <2>1, <2>2 DEF ChainInv, ChainTypeOK, IsCheckpoint, RowsOf
  <2> QED BY <2>1, <2>3 DEF ChainInv
<1> QED BY <1>5, <1>6

LEMMA DamageKeeps ==
    ASSUME Chain!ChainAssumption, ChainInv, Chain!Damage
    PROVE  ChainInv'
<1>1. damage' = damage + 1 /\ damage' # 0 /\ damage' \in Nat /\ UNCHANGED <<holds, appended, answer>>
  BY DEF Chain!Damage, ChainInv, ChainTypeOK
<1>2. /\ Len(rows) \in Nat /\ rows \in Seq(RowsOf(appended)) /\ \A i \in 1..Len(rows) : rows[i] \in RowsOf(appended)
      /\ Chain!Range(rows) = {rows[i] : i \in 1..Len(rows)}
  BY TableRows DEF ChainInv, ChainTypeOK
<1>3. MaxSeq \in Nat \ {0} /\ \A c \in appended : IsCheckpoint(c)
  BY DEF Chain!ChainAssumption, ChainInv, ChainTypeOK
<1>4. PICK i \in 1..Len(rows) :
        \/ rows' = Chain!RemoveAt(rows, i)
        \/ rows' = [rows EXCEPT ![i].body.by = None]
        \/ \E n \in (1..MaxSeq) \ {row.columns.sequence : row \in Chain!Of(rows[i].columns.run)} :
                rows' = [rows EXCEPT ![i].columns.sequence = n]
  BY DEF Chain!Damage
<1>5. rows' \in Seq(RowsOf(appended)) /\ OneRowEach'
  <2>1. CASE rows' = Chain!RemoveAt(rows, i)
    <3>1. /\ SubSeq(rows, 1, i - 1) \in Seq(RowsOf(appended)) /\ Len(SubSeq(rows, 1, i - 1)) = i - 1
          /\ \A j \in 1..(i - 1) : SubSeq(rows, 1, i - 1)[j] = rows[j]
      <4>1. 1 \in Int /\ i - 1 \in Int /\ \A j \in 1..(i - 1) : rows[j] \in RowsOf(appended)
        BY <1>2
      <4> QED BY <1>2, <4>1, SubSeqProperties
    <3>2. /\ SubSeq(rows, i + 1, Len(rows)) \in Seq(RowsOf(appended))
          /\ Len(SubSeq(rows, i + 1, Len(rows))) = Len(rows) - i
          /\ \A j \in 1..(Len(rows) - i) : SubSeq(rows, i + 1, Len(rows))[j] = rows[i + j]
      <4>1. i + 1 \in Int /\ Len(rows) \in Int /\ \A j \in (i + 1)..Len(rows) : rows[j] \in RowsOf(appended)
        BY <1>2
      <4>2. /\ SubSeq(rows, i + 1, Len(rows)) \in Seq(RowsOf(appended))
            /\ Len(SubSeq(rows, i + 1, Len(rows))) = IF i + 1 <= Len(rows) THEN Len(rows) - (i + 1) + 1 ELSE 0
            /\ \A j \in 1..(Len(rows) - (i + 1) + 1) : SubSeq(rows, i + 1, Len(rows))[j] = rows[(i + 1) + j - 1]
        BY <4>1, SubSeqProperties
      <4> QED BY <1>2, <4>2
    <3> DEFINE a == SubSeq(rows, 1, i - 1)
               b == SubSeq(rows, i + 1, Len(rows))
    <3>3. rows' = a \o b
      BY <2>1 DEF Chain!RemoveAt
    <3> HIDE DEF a, b
    <3>4. /\ rows' \in Seq(RowsOf(appended)) /\ Len(rows') = Len(a) + Len(b)
          /\ \A j \in 1..(Len(a) + Len(b)) : rows'[j] = IF j <= Len(a) THEN a[j] ELSE b[j - Len(a)]
      BY <3>1, <3>2, <3>3, ConcatProperties DEF a, b
    <3>5. Len(a) = i - 1 /\ Len(b) = Len(rows) - i
      BY <3>1, <3>2 DEF a, b
    <3>6. ASSUME NEW j \in 1..Len(rows')
          PROVE  /\ (IF j < i THEN j ELSE j + 1) \in 1..Len(rows)
                 /\ rows'[j] = rows[IF j < i THEN j ELSE j + 1]
      <4>1. CASE j < i
        BY <1>2, <3>1, <3>4, <3>5, <4>1 DEF a
      <4>2. CASE ~(j < i)
        <5>1. rows'[j] = b[j - (i - 1)] /\ j - (i - 1) \in 1..(Len(rows) - i) /\ j \in Nat
          BY SMTT(30), <1>2, <3>4, <3>5, <4>2
        <5>2. b[j - (i - 1)] = rows[i + (j - (i - 1))] /\ i + (j - (i - 1)) = j + 1
          BY <3>2, <5>1 DEF b
        <5> QED BY <1>2, <3>4, <3>5, <4>2, <5>1, <5>2
      <4> QED BY <4>1, <4>2
    <3>7. OneRowEach'
      <4> SUFFICES ASSUME NEW j \in 1..Len(rows'), NEW k \in 1..Len(rows'),
                          rows'[j].columns.run = rows'[k].columns.run,
                          rows'[j].columns.sequence = rows'[k].columns.sequence
                   PROVE  j = k
        BY DEF OneRowEach
      <4> DEFINE m == IF j < i THEN j ELSE j + 1
                 n == IF k < i THEN k ELSE k + 1
      <4>1. m \in 1..Len(rows) /\ rows'[j] = rows[m]
        BY <3>6
      <4>2. n \in 1..Len(rows) /\ rows'[k] = rows[n]
        BY <3>6
      <4> HIDE DEF m, n
      <4>3. /\ rows[m].columns.run = rows[n].columns.run
            /\ rows[m].columns.sequence = rows[n].columns.sequence
        BY <4>1, <4>2
      <4>4. OneRowEach
        BY DEF ChainInv
      <4>5. m = n
        BY <4>1, <4>2, <4>3, <4>4 DEF OneRowEach
      <4> QED BY SMTT(30), <1>2, <3>4, <3>5, <4>5 DEF m, n
    <3> QED BY <3>4, <3>7
  <2>2. CASE rows' = [rows EXCEPT ![i].body.by = None]
    <3> DEFINE new == [rows[i] EXCEPT !.body.by = None]
    <3>1. rows' = [rows EXCEPT ![i] = new]
      BY <2>2
    <3>2. new \in RowsOf(appended) /\ new.columns = rows[i].columns
      <4>1. rows[i] \in RowsOf(appended)
        BY <1>2
      <4>2. [rows[i].body EXCEPT !.by = None] \in appended \cup {[c EXCEPT !.by = None] : c \in appended}
        <5>1. CASE rows[i].body \in appended
          BY <5>1
        <5>2. CASE rows[i].body \in {[c EXCEPT !.by = None] : c \in appended}
          <6>1. PICK c \in appended : rows[i].body = [c EXCEPT !.by = None]
            BY <5>2
          <6>2. [[c EXCEPT !.by = None] EXCEPT !.by = None] = [c EXCEPT !.by = None]
            BY <1>3 DEF IsCheckpoint
          <6> QED BY <6>1, <6>2
        <5> QED BY <4>1, <5>1, <5>2 DEF RowsOf
      <4> QED BY <4>1, <4>2 DEF RowsOf
    <3> HIDE DEF new
    <3>3. /\ rows' \in Seq(RowsOf(appended)) /\ Len(rows') = Len(rows)
          /\ \A j \in 1..Len(rows) : rows'[j] = IF j = i THEN new ELSE rows[j]
      BY <1>2, <3>1, <3>2, ExceptSeq
    <3> QED BY <3>2, <3>3 DEF ChainInv, OneRowEach
  <2>3. ASSUME NEW n \in (1..MaxSeq) \ {row.columns.sequence : row \in Chain!Of(rows[i].columns.run)},
               rows' = [rows EXCEPT ![i].columns.sequence = n]
        PROVE  rows' \in Seq(RowsOf(appended)) /\ OneRowEach'
    <3> DEFINE new == [rows[i] EXCEPT !.columns.sequence = n]
    <3>1. rows' = [rows EXCEPT ![i] = new]
      BY <2>3
    <3>2. new \in RowsOf(appended) /\ new.columns.run = rows[i].columns.run /\ new.columns.sequence = n
      BY <1>2 DEF RowsOf
    <3> HIDE DEF new
    <3>3. /\ rows' \in Seq(RowsOf(appended)) /\ Len(rows') = Len(rows)
          /\ \A j \in 1..Len(rows) : rows'[j] = IF j = i THEN new ELSE rows[j]
      BY <1>2, <3>1, <3>2, ExceptSeq
    <3>4. \A j \in 1..Len(rows) : rows[j].columns.run = rows[i].columns.run => rows[j].columns.sequence # n
      BY <1>2 DEF Chain!Of
    <3> QED BY <3>2, <3>3, <3>4 DEF ChainInv, OneRowEach
  <2> QED BY <1>4, <2>1, <2>2, <2>3
<1>6. ChainTypeOK'
  BY <1>1, <1>5 DEF ChainInv, ChainTypeOK, IsCheckpoint, RowsOf
<1>7. Chain!ReadAsRecorded'
  BY <1>1 DEF ChainInv, Chain!ReadAsRecorded
<1> QED BY <1>1, <1>5, <1>6, <1>7 DEF ChainInv

LEMMA ReadKeeps ==
    ASSUME Chain!ChainAssumption, ChainInv, NEW r, Chain!Verified(Chain!BySequence(r)), answer' = Chain!Bodies(Chain!BySequence(r)),
           UNCHANGED <<rows, appended, damage>>,
           holds' = [w \in Writer |-> holds'[w]], \A w \in Writer : holds'[w] = None \/ IsCheckpoint(holds'[w])
    PROVE  ChainInv'
<1>1. Chain!ReadAsRecorded'
  <2>1. ChainTypeOK /\ OneRowEach
    BY DEF ChainInv
  <2>2. \A i \in 1..Len(answer') :
           /\ answer'[i] \in appended /\ answer'[i].sequence = i
           /\ answer'[i].previous = (IF i = 1 THEN None ELSE answer'[i - 1])
    BY <2>1, VerifiedRuns
  <2> QED BY <2>2 DEF Chain!ReadAsRecorded
<1>2. ChainTypeOK'
  BY DEF ChainInv, ChainTypeOK, IsCheckpoint, RowsOf
<1>3. OneRowEach' /\ (Undamaged => Undamaged')
  BY DEF ChainInv, OneRowEach, Undamaged, Chain!Sound, Chain!Columns
<1> QED BY <1>1, <1>2, <1>3 DEF ChainInv

LEMMA LatestKeeps ==
    ASSUME Chain!ChainAssumption, ChainInv, NEW w \in Writer, Chain!Latest(w)
    PROVE  ChainInv'
<1> DEFINE latest == Chain!Last(rows)
           chain == Chain!BySequence(latest.columns.run)
<1>1. /\ rows # <<>> /\ Chain!Verified(chain) /\ Chain!Last(chain) = latest /\ answer' = Chain!Bodies(chain)
      /\ holds' = [holds EXCEPT ![w] = latest.body] /\ UNCHANGED <<rows, appended, damage>>
  BY DEF Chain!Latest
<1>2. latest \in RowsOf(appended)
  BY <1>1, TableRows, EmptySeq DEF ChainInv, ChainTypeOK, Chain!Last
<1>3. IsCheckpoint(latest.body)
  <2>1. \A c \in appended : IsCheckpoint(c)
    BY DEF ChainInv, ChainTypeOK
  <2>2. \A c \in appended : IsCheckpoint([c EXCEPT !.by = None])
    BY <2>1 DEF IsCheckpoint
  <2> QED BY <1>2, <2>1, <2>2 DEF RowsOf
<1> HIDE DEF latest
<1>4. /\ holds' = [v \in Writer |-> holds'[v]]
      /\ \A v \in Writer : holds'[v] = None \/ IsCheckpoint(holds'[v])
  BY <1>1, <1>3 DEF ChainInv, ChainTypeOK
<1> QED BY <1>1, <1>4, ReadKeeps

LEMMA ChainSteps == Chain!ChainAssumption /\ ChainInv /\ [Chain!Next]_(Chain!vars) => ChainInv'
<1> SUFFICES ASSUME Chain!ChainAssumption, ChainInv, [Chain!Next]_(Chain!vars) PROVE ChainInv'
  OBVIOUS
<1>1. ASSUME UNCHANGED <<rows, appended, damage>>, answer' = answer \/ answer' = None,
             holds' = [w \in Writer |-> holds'[w]], \A w \in Writer : holds'[w] = None \/ IsCheckpoint(holds'[w])
      PROVE  ChainInv'
  <2>1. ChainTypeOK'
    BY <1>1 DEF ChainInv, ChainTypeOK, IsCheckpoint, RowsOf
  <2>2. OneRowEach' /\ (Undamaged => Undamaged')
    BY <1>1 DEF ChainInv, OneRowEach, Undamaged, Chain!Sound, Chain!Columns
  <2>3. Chain!ReadAsRecorded'
    BY <1>1 DEF ChainInv, Chain!ReadAsRecorded
  <2> QED BY <1>1, <2>1, <2>2, <2>3 DEF ChainInv
<1>2. holds = [w \in Writer |-> holds[w]] /\ \A w \in Writer : holds[w] = None \/ IsCheckpoint(holds[w])
  BY DEF ChainInv, ChainTypeOK
<1>3. CASE UNCHANGED Chain!vars
  BY <1>1, <1>2, <1>3 DEF Chain!vars
<1>4. ASSUME NEW w \in Writer, Chain!Restart(w) PROVE ChainInv'
  <2>1. /\ holds' = [v \in Writer |-> holds'[v]] /\ \A v \in Writer : holds'[v] = None \/ IsCheckpoint(holds'[v])
        /\ UNCHANGED <<rows, appended, damage, answer>>
    BY <1>2, <1>4 DEF Chain!Restart
  <2> QED BY <1>1, <2>1
<1>5. ASSUME NEW r \in Run, Chain!Listing(r) PROVE ChainInv'
  <2>1. UNCHANGED <<rows, holds, appended, damage>> /\ Chain!Verified(Chain!BySequence(r)) /\ answer' = Chain!Bodies(Chain!BySequence(r))
    BY <1>5 DEF Chain!Listing
  <2>2. holds' = holds
    BY <2>1
  <2> QED BY <1>2, <2>1, <2>2, ReadKeeps
<1>6. CASE Chain!Refused
  BY <1>1, <1>2, <1>6 DEF Chain!Refused
<1> QED BY <1>3, <1>4, <1>5, <1>6, AppendKeeps, LatestKeeps, DamageKeeps DEF Chain!Next

LEMMA ChainHolds == Chain!ChainAssumption /\ ChainInv => Chain!ChainKept
<1> SUFFICES ASSUME Chain!ChainAssumption, ChainInv PROVE Chain!ChainKept
  OBVIOUS
<1>1. Chain!ChainsHold
  BY WholeRuns DEF ChainInv, Chain!ChainsHold
<1> QED BY <1>1 DEF ChainInv, Chain!ChainKept

-----------------------------------------------------------------------------
(* RuntimeTrace.  The reader's list of bars is a reading of the rows passed
   on so far, in the order in which they were recorded. *)

BatchRow ==
    [id : Nat, stream : Stream, observed : Nat, exact : BOOLEAN, envelope : Nat, qqq : Int, other : Int]
FrameRow == [start : Int, samples : Seq(BatchRow), by : BatchRow, causal : Int, stream : Stream]
ReaderRow ==
    [pc : {"idle", "counted", "reading", "loaded", "refused"}, counted : Nat, rows : SUBSET BatchRow, at : Nat,
     bucket : Int \cup {None}, samples : Seq(BatchRow), stream : Stream \cup {None}, last : Int \cup {None},
     sessions : SUBSET (Stream \X Int), frames : Seq(FrameRow)]

(* Rows in the order in which they were observed, exact ones with books
   inside their envelope. *)
Chronological(S) ==
    /\ \A b \in S : b.id > 0 /\ (b.exact => Trace!Within(b.observed - b.qqq, b.envelope))
    /\ \A b, c \in S : (b.id = c.id => b = c) /\ (b.id < c.id => b.observed <= c.observed)

LedgerInv ==
    /\ ticks \in Nat /\ batched \in Nat
    /\ batches \in SUBSET BatchRow /\ IsFiniteSet(batches) /\ Chronological(batches)
    /\ \A b \in batches : b.id <= batched /\ b.observed <= ticks

(* What a reader has read; nothing but its stream since a row; the rows of
   one stream without another in between; a row that comes late. *)
ReadOf(r) == {b \in r.rows : b.id <= r.at /\ Trace!Eligible(b)}
Steady(r, b) == \A d \in ReadOf(r) : d.id >= b.id => d.stream = r.stream
Between(S, b, c) == b.id < c.id /\ \A d \in S : d.id \in b.id..c.id /\ Trace!Eligible(d) => d.stream = c.stream
Superseded(S, b) == \E c \in S : Trace!Eligible(c) /\ Between(S, c, b) /\ b.qqq <= c.qqq
Among(b, q) == \E i \in 1..Len(q) : q[i] = b
Increasing(q) == \A i, j \in 1..Len(q) : i < j => q[i].qqq < q[j].qqq

BuilderOK(r) ==
    /\ (r.last = None <=> r.bucket = None) /\ (r.bucket = None <=> r.samples = <<>>)
    /\ r.last # None => r.bucket = Trace!Bucket(r.last) /\ \E c \in ReadOf(r) : c.qqq = r.last /\ Steady(r, c)
    /\ \A i \in 1..Len(r.samples) :
          /\ r.samples[i] \in ReadOf(r) /\ r.samples[i].stream = r.stream
          /\ Trace!Bucket(r.samples[i].qqq) = r.bucket /\ r.samples[i].qqq <= r.last
    /\ Increasing(r.samples)
    /\ \A b \in ReadOf(r) : \E c \in ReadOf(r) : c.id >= b.id /\ c.stream = r.stream
    /\ \A b \in ReadOf(r) : <<b.stream, Trace!Day(b.qqq)>> \in r.sessions

TakenOK(r) ==
    \A b \in ReadOf(r) : Steady(r, b) =>
        \/ Superseded(r.rows, b)
        \/ /\ r.bucket # None /\ Trace!Bucket(b.qqq) <= r.bucket
           /\ Trace!Bucket(b.qqq) = r.bucket => Among(b, r.samples)

(* A frame by itself, and to the reader that has gone on. *)
FrameOK(S, read, f) ==
    /\ f.by \in read /\ f.stream = f.by.stream /\ f.samples # <<>> /\ Increasing(f.samples)
    /\ \A j \in 1..Len(f.samples) :
          /\ f.samples[j] \in read /\ f.samples[j].stream = f.stream
          /\ Trace!Bucket(f.samples[j].qqq) = f.start /\ f.samples[j].qqq < f.by.qqq
    /\ f.start + BarTicks <= Trace!Bucket(f.by.qqq) /\ Trace!Bucket(f.by.qqq) <= f.causal
    /\ \A b \in S : Trace!Eligible(b) /\ Trace!Bucket(b.qqq) = f.start /\ Between(S, b, f.by) =>
          Among(b, f.samples) \/ Superseded(S, b)

Passed(r, f) ==
    /\ r.samples # <<>> => f.by.id <= r.samples[1].id
    /\ (\A d \in ReadOf(r) : d.id >= f.by.id => d.stream = f.stream)
          => r.bucket # None /\ Trace!Bucket(f.by.qqq) <= r.bucket

Advance(S, f, g) ==
    /\ g.start > f.start - (g.samples[1].envelope + Trace!Ahead)
    /\ (\A b \in S : b.id \in f.by.id..g.by.id /\ Trace!Eligible(b) => b.stream = f.stream) => g.start > f.start

FramesOK(r) ==
    /\ \A i \in 1..Len(r.frames) : FrameOK(r.rows, ReadOf(r), r.frames[i]) /\ Passed(r, r.frames[i])
    /\ \A i, j \in 1..Len(r.frames) : i < j => Advance(r.rows, r.frames[i], r.frames[j])

OneEach(r) == r.pc = "loaded" => \A p, q \in r.sessions : p[1] = q[1] => p[2] = q[2]

ReaderInv(r) ==
    /\ r \in ReaderRow /\ Chronological(r.rows) /\ (\A b \in r.rows : b.exact)
    /\ BuilderOK(r) /\ TakenOK(r) /\ FramesOK(r) /\ OneEach(r)

Fresh(r) == r.at = 0 /\ r.bucket = None /\ r.last = None /\ r.samples = <<>> /\ r.frames = <<>>

TraceInv == LedgerInv /\ ReaderInv(load) /\ (load.pc \in {"idle", "counted"} => Fresh(load))

-----------------------------------------------------------------------------
(* Arithmetic of buckets and days *)

LEMMA Buckets ==
    ASSUME Trace!TraceAssumption, NEW t \in Int
    PROVE  /\ Trace!Bucket(t) \in Int /\ Trace!Bucket(t) <= t /\ t < Trace!Bucket(t) + BarTicks
           /\ Trace!Day(t) \in Int
<1>1. BarTicks \in Nat /\ BarTicks > 0 /\ DayTicks \in Nat /\ DayTicks > 0
  BY DEF Trace!TraceAssumption
<1> DEFINE q == t \div BarTicks
<1>2. q \in Int /\ BarTicks * q <= t /\ t < BarTicks * q + BarTicks
  BY <1>1
<1>3. t \div DayTicks \in Int
  BY <1>1
<1>4. BarTicks * q \in Int
  BY <1>1, <1>2
<1> QED BY <1>2, <1>3, <1>4 DEF Trace!Bucket, Trace!Day

LEMMA BucketOrder ==
    ASSUME Trace!TraceAssumption, NEW t \in Int, NEW u \in Int
    PROVE  /\ t <= u => Trace!Bucket(t) <= Trace!Bucket(u)
           /\ Trace!Bucket(t) < Trace!Bucket(u) => t < u /\ Trace!Bucket(t) + BarTicks <= Trace!Bucket(u)
<1>1. BarTicks \in Nat /\ BarTicks > 0
  BY DEF Trace!TraceAssumption
<1>2. PICK p \in Int, q \in Int : Trace!Bucket(t) = BarTicks * p /\ Trace!Bucket(u) = BarTicks * q
  <2>1. t \div BarTicks \in Int /\ u \div BarTicks \in Int
    BY <1>1
  <2> QED BY <2>1 DEF Trace!Bucket
<1>3. /\ Trace!Bucket(t) \in Int /\ Trace!Bucket(t) <= t /\ t < Trace!Bucket(t) + BarTicks
      /\ Trace!Bucket(u) \in Int /\ Trace!Bucket(u) <= u /\ u < Trace!Bucket(u) + BarTicks
  BY Buckets
<1>4. p < q => BarTicks * p + BarTicks <= BarTicks * q
  <2> SUFFICES ASSUME p < q PROVE BarTicks * p + BarTicks <= BarTicks * q
    OBVIOUS
  <2>1. q - p - 1 \in Nat
    OBVIOUS
  <2>2. BarTicks * (q - p - 1) >= 0
    BY <1>1, <2>1
  <2>3. BarTicks * (q - p - 1) = BarTicks * q - BarTicks * p - BarTicks
    BY <1>1
  <2> QED BY <1>1, <2>2, <2>3
<1>5. q < p => BarTicks * q + BarTicks <= BarTicks * p
  <2> SUFFICES ASSUME q < p PROVE BarTicks * q + BarTicks <= BarTicks * p
    OBVIOUS
  <2>1. p - q - 1 \in Nat
    OBVIOUS
  <2>2. BarTicks * (p - q - 1) >= 0
    BY <1>1, <2>1
  <2>3. BarTicks * (p - q - 1) = BarTicks * p - BarTicks * q - BarTicks
    BY <1>1
  <2> QED BY <1>1, <2>2, <2>3
<1>6. p < q \/ p = q \/ q < p
  OBVIOUS
<1> QED BY <1>1, <1>2, <1>3, <1>4, <1>5, <1>6

(* A bucket begins on the day of every time in it. *)
LEMMA BucketDay ==
    ASSUME Trace!TraceAssumption, NEW t \in Int
    PROVE  Trace!Day(Trace!Bucket(t)) = Trace!Day(t)
<1>1. BarTicks \in Nat /\ BarTicks > 0 /\ DayTicks \in Nat /\ DayTicks > 0 /\ DayTicks % BarTicks = 0
  BY DEF Trace!TraceAssumption
<1> DEFINE k == DayTicks \div BarTicks
           q == t \div DayTicks
           p == t \div BarTicks
<1>2. k \in Int /\ DayTicks = BarTicks * k
  BY <1>1
<1>3. q \in Int /\ DayTicks * q <= t /\ t < DayTicks * q + DayTicks
  BY <1>1
<1>4. Trace!Bucket(t) = BarTicks * p /\ p \in Int /\ Trace!Bucket(t) \in Int /\ Trace!Bucket(t) <= t /\ t < Trace!Bucket(t) + BarTicks
  BY <1>1, Buckets DEF Trace!Bucket
<1> HIDE DEF k, q, p
<1>5. DayTicks * q = BarTicks * (k * q) /\ k * q \in Int
  BY <1>1, <1>2, <1>3
<1>6. k * q <= p
  <2> SUFFICES ASSUME p + 1 <= k * q PROVE FALSE
    BY <1>4, <1>5
  <2>1. BarTicks * (k * q - p - 1) >= 0
    BY <1>1, <1>4, <1>5
  <2>2. BarTicks * (k * q - p - 1) = BarTicks * (k * q) - BarTicks * p - BarTicks
    BY <1>1, <1>4, <1>5
  <2> QED BY <1>1, <1>3, <1>4, <1>5, <2>1, <2>2
<1>7. BarTicks * (k * q) <= BarTicks * p
  <2>1. BarTicks * (p - k * q) >= 0
    BY <1>1, <1>4, <1>5, <1>6
  <2>2. BarTicks * (p - k * q) = BarTicks * p - BarTicks * (k * q)
    BY <1>1, <1>4, <1>5
  <2>3. BarTicks * (k * q) \in Int /\ BarTicks * p \in Int
    BY <1>1, <1>4, <1>5
  <2> QED BY <2>1, <2>2, <2>3
<1>8. DayTicks * q <= Trace!Bucket(t) /\ Trace!Bucket(t) < DayTicks * q + DayTicks
  BY <1>1, <1>3, <1>4, <1>5, <1>7
<1>9. Trace!Bucket(t) \div DayTicks = q
  BY <1>1, <1>3, <1>4, <1>8
<1> QED BY <1>9 DEF Trace!Day, q

-----------------------------------------------------------------------------
(* What a batch does to the reader, field by field. *)

LEMMA ReadNext ==
    ASSUME NEW r, r \in ReaderRow, Chronological(r.rows), NEW b \in r.rows, b.id > r.at,
           \A c \in r.rows : c.id > r.at => b.id <= c.id,
           NEW t, t.rows = r.rows, t.at = b.id
    PROVE  /\ ReadOf(t) = ReadOf(r) \cup (IF Trace!Eligible(b) THEN {b} ELSE {})
           /\ \A c \in ReadOf(r) : c.id < b.id /\ c \in BatchRow
<1>1. r.rows \in SUBSET BatchRow /\ r.at \in Nat /\ \A c \in r.rows : c \in BatchRow /\ c.id \in Nat
  BY SMTT(30) DEF ReaderRow, BatchRow
<1>2. \A c \in r.rows : c.id <= b.id <=> c.id <= r.at \/ c = b
  BY <1>1 DEF Chronological
<1> QED BY <1>1, <1>2 DEF ReadOf

Took(r, b) == [Trace!Taken(r, b) EXCEPT !.at = b.id]

LEMMA TookCommon ==
    ASSUME NEW r \in ReaderRow, NEW b \in BatchRow
    PROVE  LET t == Took(r, b) IN
           /\ t.pc = r.pc /\ t.counted = r.counted /\ t.rows = r.rows /\ t.at = b.id /\ t.stream = b.stream
           /\ t.sessions = r.sessions \cup {<<b.stream, Trace!Day(b.qqq)>>}
  BY DEF Took, Trace!Taken, Trace!Switched, Trace!Updated, Trace!Completes, ReaderRow

(* The stream changes: an empty builder. *)
LEMMA TookSwitched ==
    ASSUME NEW r \in ReaderRow, NEW b \in BatchRow, r.stream # b.stream
    PROVE  LET t == Took(r, b) IN
           t.bucket = Trace!Bucket(b.qqq) /\ t.samples = <<b>> /\ t.last = b.qqq /\ t.frames = r.frames
<1> DEFINE known == [Trace!Switched(r, b) EXCEPT !.sessions = @ \cup {<<b.stream, Trace!Day(b.qqq)>>}]
<1>1. known.bucket = None /\ known.samples = <<>> /\ known.last = None /\ known.frames = r.frames
  BY DEF Trace!Switched, ReaderRow
<1>2. ~Trace!Completes(known, b)
  BY <1>1 DEF Trace!Completes
<1> QED BY <1>1, <1>2 DEF Took, Trace!Taken, Trace!Switched, Trace!Updated, ReaderRow

LEMMA TookLate ==
    ASSUME NEW r \in ReaderRow, NEW b \in BatchRow, r.stream = b.stream, r.last # None, b.qqq <= r.last
    PROVE  LET t == Took(r, b) IN
           t.bucket = r.bucket /\ t.samples = r.samples /\ t.last = r.last /\ t.frames = r.frames
  BY DEF Took, Trace!Taken, Trace!Switched, ReaderRow

LEMMA TookMore ==
    ASSUME NEW r \in ReaderRow, NEW b \in BatchRow, r.stream = b.stream, ~(r.last # None /\ b.qqq <= r.last),
           ~Trace!Completes(r, b), r.bucket = None \/ Trace!Bucket(b.qqq) >= r.bucket
    PROVE  LET t == Took(r, b) IN
           t.bucket = Trace!Bucket(b.qqq) /\ t.samples = Append(r.samples, b) /\ t.last = b.qqq /\ t.frames = r.frames
<1> DEFINE known == [r EXCEPT !.sessions = @ \cup {<<b.stream, Trace!Day(b.qqq)>>}]
<1>1. /\ known.bucket = r.bucket /\ known.samples = r.samples /\ known.last = r.last /\ known.frames = r.frames
      /\ known.stream = r.stream
  BY DEF ReaderRow
<1>2. ~Trace!Completes(known, b)
  BY <1>1 DEF Trace!Completes
<1>3. Trace!Updated(known, b) = [known EXCEPT !.bucket = Trace!Bucket(b.qqq), !.samples = Append(r.samples, b)]
  BY <1>1, <1>2 DEF Trace!Updated
<1> QED BY <1>1, <1>2, <1>3 DEF Took, Trace!Taken, Trace!Switched, ReaderRow

LEMMA TookBar ==
    ASSUME NEW r \in ReaderRow, NEW b \in BatchRow, r.stream = b.stream, ~(r.last # None /\ b.qqq <= r.last),
           Trace!Completes(r, b), Trace!Bucket(b.qqq) >= r.bucket
    PROVE  LET t == Took(r, b) IN
           /\ t.bucket = Trace!Bucket(b.qqq) /\ t.samples = <<b>> /\ t.last = b.qqq
           /\ t.frames = Append(r.frames, Trace!FrameOf(r, b))
<1> DEFINE known == [r EXCEPT !.sessions = @ \cup {<<b.stream, Trace!Day(b.qqq)>>}]
<1>1. /\ known.bucket = r.bucket /\ known.samples = r.samples /\ known.last = r.last /\ known.frames = r.frames
      /\ known.stream = r.stream
  BY DEF ReaderRow
<1>2. Trace!Completes(known, b) /\ Trace!FrameOf(known, b) = Trace!FrameOf(r, b)
  BY <1>1 DEF Trace!Completes, Trace!FrameOf
<1>3. Trace!Updated(known, b) = [known EXCEPT !.bucket = Trace!Bucket(b.qqq), !.samples = Append(<<>>, b)]
  BY <1>1, <1>2 DEF Trace!Updated
<1>4. Append(<<>>, b) = <<b>>
  OBVIOUS
<1> QED BY <1>1, <1>2, <1>3, <1>4 DEF Took, Trace!Taken, Trace!Switched, ReaderRow

IsReader(x) ==
    x = [pc |-> x.pc, counted |-> x.counted, rows |-> x.rows, at |-> x.at, bucket |-> x.bucket,
         samples |-> x.samples, stream |-> x.stream, last |-> x.last, sessions |-> x.sessions,
         frames |-> x.frames]

LEMMA TookRecord ==
    ASSUME NEW r \in ReaderRow, NEW b \in BatchRow
    PROVE  IsReader(Took(r, b))
<1>1. IsReader(r)
  BY DEF ReaderRow, IsReader
<1>2. IsReader(Trace!Switched(r, b))
  BY <1>1 DEF Trace!Switched, IsReader
<1> DEFINE known == [Trace!Switched(r, b) EXCEPT !.sessions = @ \cup {<<b.stream, Trace!Day(b.qqq)>>}]
<1>3. IsReader(known)
  BY <1>2 DEF IsReader
<1> HIDE DEF known
<1>4. IsReader(Trace!Updated(known, b))
  BY <1>3 DEF Trace!Updated, IsReader
<1>5. IsReader([Trace!Updated(known, b) EXCEPT
                 !.last = b.qqq,
                 !.frames = IF Trace!Completes(known, b) THEN Append(@, Trace!FrameOf(known, b)) ELSE @])
  <2> DEFINE u == Trace!Updated(known, b)
             v == IF Trace!Completes(known, b) THEN Append(u.frames, Trace!FrameOf(known, b)) ELSE u.frames
  <2>1. IsReader(u)
    BY <1>4
  <2> HIDE DEF u, v
  <2> DEFINE w == [u EXCEPT !.last = b.qqq]
  <2>4. IsReader(w)
    BY <2>1 DEF IsReader
  <2>2. IsReader([u EXCEPT !.last = b.qqq, !.frames = v])
    <3>1. [u EXCEPT !.last = b.qqq, !.frames = v] = [w EXCEPT !.frames = v]
      OBVIOUS
    <3> HIDE DEF w
    <3>2. IsReader([w EXCEPT !.frames = v])
      BY <2>4 DEF IsReader
    <3> QED BY <3>1, <3>2
  <2>3. [u EXCEPT !.last = b.qqq, !.frames = v]
        = [u EXCEPT !.last = b.qqq,
                    !.frames = IF Trace!Completes(known, b) THEN Append(@, Trace!FrameOf(known, b)) ELSE @]
    BY <2>1 DEF v, IsReader
  <2> QED BY <2>2, <2>3 DEF u
<1>6. IsReader(Trace!Taken(r, b))
  BY <1>3, <1>5 DEF Trace!Taken, known
<1> QED BY <1>6 DEF Took, IsReader

(* The situation of the lemmas that follow: the reader r reads b and is t. *)
Reads(r, b, t) ==
    /\ ReaderInv(r) /\ r.pc = "reading"
    /\ b \in r.rows /\ b.id > r.at /\ (\A c \in r.rows : c.id > r.at => b.id <= c.id) /\ Trace!Eligible(b)
    /\ t = Took(r, b)

LEMMA ReadsFacts ==
    ASSUME Trace!TraceAssumption, NEW r, NEW b, NEW t, Reads(r, b, t)
    PROVE  /\ r \in ReaderRow /\ b \in BatchRow /\ r.rows \in SUBSET BatchRow /\ ReadOf(r) \subseteq BatchRow
           /\ ReadOf(r) \subseteq r.rows
           /\ t.pc = r.pc /\ t.counted = r.counted /\ t.rows = r.rows /\ t.at = b.id /\ t.stream = b.stream
           /\ t.sessions = r.sessions \cup {<<b.stream, Trace!Day(b.qqq)>>}
           /\ ReadOf(t) = ReadOf(r) \cup {b} /\ b \in ReadOf(t)
           /\ \A c \in ReadOf(r) : c.id \in Nat /\ c.id < b.id
           /\ b.id \in Nat /\ b.qqq \in Int /\ b.stream \in Stream
           /\ \A c \in r.rows : c.id \in Nat /\ c.qqq \in Int /\ (c.id < b.id /\ Trace!Eligible(c) => c \in ReadOf(r))
<1>1. /\ r \in ReaderRow /\ b \in r.rows /\ Chronological(r.rows) /\ b.id > r.at /\ Trace!Eligible(b)
      /\ \A c \in r.rows : c.id > r.at => b.id <= c.id
  BY DEF Reads, ReaderInv
<1>2. r.rows \in SUBSET BatchRow /\ b \in BatchRow /\ r.at \in Nat
  BY <1>1 DEF ReaderRow
<1>3. t = Took(r, b)
  BY DEF Reads
<1>4. /\ t.pc = r.pc /\ t.counted = r.counted /\ t.rows = r.rows /\ t.at = b.id /\ t.stream = b.stream
      /\ t.sessions = r.sessions \cup {<<b.stream, Trace!Day(b.qqq)>>}
  BY <1>1, <1>2, <1>3, TookCommon
<1>5. ReadOf(t) = ReadOf(r) \cup {b} /\ \A c \in ReadOf(r) : c.id < b.id /\ c \in BatchRow
  BY <1>1, <1>4, ReadNext
<1>6. \A c \in BatchRow : c.id \in Nat /\ c.qqq \in Int /\ c.stream \in Stream
  BY DEF BatchRow
<1>7. ReadOf(r) \subseteq r.rows
  BY DEF ReadOf
<1>8. \A c \in r.rows : c.id < b.id /\ Trace!Eligible(c) => c \in ReadOf(r)
  BY <1>1, <1>2, <1>6 DEF ReadOf
<1> QED BY <1>1, <1>2, <1>4, <1>5, <1>6, <1>7, <1>8

LEMMA ReadsSteady ==
    ASSUME Trace!TraceAssumption, NEW r, NEW b, NEW t, Reads(r, b, t)
    PROVE  /\ Steady(t, b)
           /\ r.stream = b.stream => \A c \in ReadOf(r) : Steady(t, c) <=> Steady(r, c)
           /\ r.stream # b.stream => \A c \in ReadOf(r) : ~Steady(t, c)
           /\ r.stream = b.stream => \A c \in ReadOf(r) : Steady(r, c) => Between(r.rows, c, b)
           /\ \A c \in r.rows : Trace!Eligible(c) /\ Between(r.rows, c, b) =>
                 c \in ReadOf(r) /\ r.stream = b.stream /\ Steady(r, c)
<1>0. /\ t.stream = b.stream /\ ReadOf(t) = ReadOf(r) \cup {b} /\ ReadOf(r) \subseteq r.rows
      /\ \A c \in ReadOf(r) : c.id \in Nat /\ c.id < b.id
      /\ b.id \in Nat
      /\ \A c \in r.rows : c.id \in Nat /\ (c.id < b.id /\ Trace!Eligible(c) => c \in ReadOf(r))
  BY ReadsFacts
<1>1. /\ \A c \in ReadOf(r) : \E d \in ReadOf(r) : d.id >= c.id /\ d.stream = r.stream
      /\ \A c, d \in r.rows : c.id = d.id => c = d
      /\ b \in r.rows
  BY DEF Reads, ReaderInv, BuilderOK, Chronological
<1>2. Steady(t, b)
  BY <1>0 DEF Steady
<1>3. ASSUME r.stream = b.stream, NEW c \in ReadOf(r) PROVE Steady(t, c) <=> Steady(r, c)
  BY <1>0, <1>3 DEF Steady
<1>4. ASSUME r.stream # b.stream, NEW c \in ReadOf(r) PROVE ~Steady(t, c)
  BY <1>0, <1>1, <1>4 DEF Steady
<1>5. ASSUME r.stream = b.stream, NEW c \in ReadOf(r), Steady(r, c) PROVE Between(r.rows, c, b)
  <2>1. ASSUME NEW d \in r.rows, d.id \in c.id..b.id, Trace!Eligible(d) PROVE d.stream = b.stream
    <3>1. d.id < b.id \/ d.id = b.id
      BY <1>0, <2>1
    <3>2. CASE d.id = b.id
      BY <1>1, <3>2
    <3>3. CASE d.id < b.id
      <4>1. d \in ReadOf(r) /\ d.id >= c.id
        BY <1>0, <2>1, <3>3
      <4> QED BY <1>5, <4>1 DEF Steady
    <3> QED BY <3>1, <3>2, <3>3
  <2> QED BY <1>0, <2>1 DEF Between
<1>6. ASSUME NEW c \in r.rows, Trace!Eligible(c), Between(r.rows, c, b)
      PROVE  c \in ReadOf(r) /\ r.stream = b.stream /\ Steady(r, c)
  <2>1. c \in ReadOf(r) /\ c.id \in Nat
    BY <1>0, <1>6 DEF Between
  <2>2. \A d \in ReadOf(r) : d.id >= c.id => d.stream = b.stream
    <3> SUFFICES ASSUME NEW d \in ReadOf(r), d.id >= c.id PROVE d.stream = b.stream
      OBVIOUS
    <3>1. d \in r.rows /\ d.id \in c.id..b.id /\ Trace!Eligible(d)
      BY <1>0, <2>1 DEF ReadOf
    <3> QED BY <1>6, <3>1 DEF Between
  <2>3. r.stream = b.stream
    BY <1>1, <2>1, <2>2
  <2> QED BY <2>1, <2>2, <2>3 DEF Steady
<1> QED BY <1>2, <1>3, <1>4, <1>5, <1>6

(* What does not depend on the builder. *)
LEMMA ReadsCommon ==
    ASSUME Trace!TraceAssumption, NEW r, NEW b, NEW t, Reads(r, b, t)
    PROVE  /\ \A c \in ReadOf(t) : \E d \in ReadOf(t) : d.id >= c.id /\ d.stream = t.stream
           /\ \A c \in ReadOf(t) : <<c.stream, Trace!Day(c.qqq)>> \in t.sessions
           /\ t.sessions \in SUBSET (Stream \X Int)
           /\ \A f : FrameOK(r.rows, ReadOf(r), f) => FrameOK(t.rows, ReadOf(t), f)
           /\ OneEach(t)
<1>0. /\ t.stream = b.stream /\ ReadOf(t) = ReadOf(r) \cup {b} /\ b \in ReadOf(t) /\ t.rows = r.rows
      /\ t.sessions = r.sessions \cup {<<b.stream, Trace!Day(b.qqq)>>} /\ t.pc = r.pc
      /\ \A c \in ReadOf(r) : c.id \in Nat /\ c.id < b.id
      /\ b.id \in Nat /\ b.qqq \in Int /\ b.stream \in Stream
      /\ r \in ReaderRow
  BY ReadsFacts
<1>1. \A c \in ReadOf(r) : <<c.stream, Trace!Day(c.qqq)>> \in r.sessions
  BY DEF Reads, ReaderInv, BuilderOK
<1>2. Trace!Day(b.qqq) \in Int /\ r.sessions \in SUBSET (Stream \X Int)
  BY <1>0, Buckets DEF ReaderRow
<1>3. \A c \in ReadOf(t) : \E d \in ReadOf(t) : d.id >= c.id /\ d.stream = t.stream
  BY <1>0
<1>4. \A c \in ReadOf(t) : <<c.stream, Trace!Day(c.qqq)>> \in t.sessions
  BY <1>0, <1>1
<1>5. t.sessions \in SUBSET (Stream \X Int)
  BY <1>0, <1>2
<1>6. ASSUME NEW f, FrameOK(r.rows, ReadOf(r), f) PROVE FrameOK(t.rows, ReadOf(t), f)
  BY <1>0, <1>6 DEF FrameOK
<1>7. OneEach(t)
  BY <1>0 DEF OneEach, Reads
<1> QED BY <1>3, <1>4, <1>5, <1>6, <1>7

LEMMA OneSample ==
    ASSUME NEW b \in BatchRow
    PROVE  /\ <<b>> \in Seq(BatchRow) /\ <<b>> # <<>> /\ Len(<<b>>) = 1 /\ <<b>>[1] = b
           /\ Increasing(<<b>>) /\ Among(b, <<b>>)
  BY DEF Increasing, Among

(* The builder begins anew with b. *)
LEMMA BeginsWith ==
    ASSUME Trace!TraceAssumption, NEW r, NEW b, NEW t, Reads(r, b, t),
           t.bucket = Trace!Bucket(b.qqq), t.samples = <<b>>, t.last = b.qqq
    PROVE  BuilderOK(t)
<1>0. /\ t.stream = b.stream /\ b \in ReadOf(t) /\ b.qqq \in Int /\ b \in BatchRow
  BY ReadsFacts
<1>1. t.bucket \in Int /\ None \notin Int
  BY <1>0, Buckets DEF Trace!TraceAssumption
<1>2. (t.last = None <=> t.bucket = None) /\ (t.bucket = None <=> t.samples = <<>>)
  BY <1>0, <1>1, OneSample
<1>3. t.bucket = Trace!Bucket(t.last) /\ \E c \in ReadOf(t) : c.qqq = t.last /\ Steady(t, c)
  BY <1>0, ReadsSteady
<1>4. \A i \in 1..Len(t.samples) :
          /\ t.samples[i] \in ReadOf(t) /\ t.samples[i].stream = t.stream
          /\ Trace!Bucket(t.samples[i].qqq) = t.bucket /\ t.samples[i].qqq <= t.last
  BY <1>0, OneSample
<1>5. Increasing(t.samples)
  BY <1>0, OneSample
<1> QED BY <1>2, <1>3, <1>4, <1>5, ReadsCommon DEF BuilderOK

(* A row that has come late is superseded for as long as the rows are read. *)
LEMMA TakenBegins ==
    ASSUME Trace!TraceAssumption, NEW r, NEW b, NEW t, Reads(r, b, t),
           t.bucket = Trace!Bucket(b.qqq), t.samples = <<b>>,
           r.stream # b.stream \/ (r.bucket # None => r.bucket < Trace!Bucket(b.qqq))
    PROVE  TakenOK(t)
<1>0. /\ ReadOf(t) = ReadOf(r) \cup {b} /\ t.rows = r.rows /\ b.qqq \in Int /\ b \in BatchRow /\ r \in ReaderRow
      /\ ReadOf(r) \subseteq BatchRow
  BY ReadsFacts
<1>1. t.bucket \in Int /\ t.bucket # None
  BY <1>0, Buckets DEF Trace!TraceAssumption
<1>2. ASSUME NEW c \in ReadOf(r), Steady(t, c)
      PROVE  Superseded(t.rows, c) \/ (Trace!Bucket(c.qqq) <= t.bucket /\ Trace!Bucket(c.qqq) # t.bucket)
  <2>1. r.stream = b.stream /\ Steady(r, c)
    BY <1>2, ReadsSteady
  <2>2. \/ Superseded(r.rows, c)
        \/ r.bucket # None /\ Trace!Bucket(c.qqq) <= r.bucket
    BY <2>1 DEF Reads, ReaderInv, TakenOK
  <2>3. c.qqq \in Int
    BY <1>0 DEF BatchRow
  <2>4. Trace!Bucket(c.qqq) \in Int /\ (r.bucket # None => r.bucket \in Int)
    BY <1>0, <2>3, Buckets DEF ReaderRow
  <2> QED BY <1>0, <1>1, <2>1, <2>2, <2>4
<1>3. Among(b, t.samples)
  BY <1>0, OneSample
<1>4. Trace!Bucket(b.qqq) <= t.bucket
  BY <1>1
<1> QED BY <1>0, <1>1, <1>2, <1>3, <1>4 DEF TakenOK

LEMMA PassedOn ==
    ASSUME Trace!TraceAssumption, NEW r, NEW b, NEW t, Reads(r, b, t), NEW f, FrameOK(r.rows, ReadOf(r), f), Passed(r, f),
           t.samples # <<>> => t.samples[1] = b \/ (r.samples # <<>> /\ t.samples[1] = r.samples[1]),
           r.stream # b.stream \/ t.bucket = r.bucket
              \/ (t.bucket # None /\ t.bucket \in Int /\ (r.bucket # None => r.bucket <= t.bucket))
    PROVE  Passed(t, f)
<1>0. /\ ReadOf(t) = ReadOf(r) \cup {b} /\ \A c \in ReadOf(r) : c.id \in Nat /\ c.id < b.id
      /\ b.id \in Nat /\ r \in ReaderRow /\ ReadOf(r) \subseteq BatchRow
  BY ReadsFacts
<1>1. f.by \in ReadOf(r) /\ f.by.id \in Nat /\ f.by.id < b.id /\ f.by.qqq \in Int
  BY <1>0 DEF FrameOK, BatchRow
<1>2. t.samples # <<>> => f.by.id <= t.samples[1].id
  BY <1>0, <1>1 DEF Passed
<1>3. ASSUME \A d \in ReadOf(t) : d.id >= f.by.id => d.stream = f.stream
      PROVE  t.bucket # None /\ Trace!Bucket(f.by.qqq) <= t.bucket
  <2>1. b.stream = f.stream /\ \A d \in ReadOf(r) : d.id >= f.by.id => d.stream = f.stream
    BY <1>0, <1>1, <1>3
  <2>2. r.bucket # None /\ Trace!Bucket(f.by.qqq) <= r.bucket
    BY <2>1 DEF Passed
  <2>3. \E c \in ReadOf(r) : c.id >= f.by.id /\ c.stream = r.stream
    BY <1>1 DEF Reads, ReaderInv, BuilderOK
  <2>4. r.stream = b.stream
    BY <2>1, <2>3
  <2>5. r.bucket \in Int /\ Trace!Bucket(f.by.qqq) \in Int
    BY <1>0, <1>1, <2>2, Buckets DEF ReaderRow
  <2> QED BY <2>2, <2>4, <2>5
<1> QED BY <1>2, <1>3 DEF Passed

(* The stream changes. *)
LEMMA ReadsSwitched ==
    ASSUME Trace!TraceAssumption, NEW r, NEW b, NEW t, Reads(r, b, t), r.stream # b.stream
    PROVE  ReaderInv(t)
<1>0. /\ r \in ReaderRow /\ b \in BatchRow /\ b.id \in Nat /\ b.qqq \in Int /\ b.stream \in Stream
      /\ t.pc = r.pc /\ t.counted = r.counted /\ t.rows = r.rows /\ t.at = b.id /\ t.stream = b.stream
  BY ReadsFacts
<1>1. t.bucket = Trace!Bucket(b.qqq) /\ t.samples = <<b>> /\ t.last = b.qqq /\ t.frames = r.frames /\ IsReader(t)
  BY <1>0, TookSwitched, TookRecord DEF Reads
<1>2. t \in ReaderRow
  <2>1. t.bucket \in Int /\ t.samples \in Seq(BatchRow) /\ t.frames \in Seq(FrameRow) /\ t.sessions \in SUBSET (Stream \X Int)
    BY <1>0, <1>1, Buckets, OneSample, ReadsCommon DEF ReaderRow
  <2> QED BY <1>0, <1>1, <2>1 DEF ReaderRow, IsReader
<1>3. BuilderOK(t)
  BY <1>1, BeginsWith
<1>4. TakenOK(t)
  BY <1>1, TakenBegins
<1>5. FramesOK(t)
  <2>1. FramesOK(r)
    BY DEF Reads, ReaderInv
  <2>2. \A i \in 1..Len(t.frames) : FrameOK(t.rows, ReadOf(t), t.frames[i])
    BY <1>1, <2>1, ReadsCommon DEF FramesOK
  <2>3. t.samples[1] = b
    BY <1>1
  <2>4. \A i \in 1..Len(t.frames) : Passed(t, t.frames[i])
    BY <1>1, <2>1, <2>3, PassedOn DEF FramesOK
  <2> QED BY <1>0, <1>1, <2>1, <2>2, <2>4 DEF FramesOK
<1> QED BY <1>0, <1>2, <1>3, <1>4, <1>5, ReadsCommon DEF ReaderInv, Reads

(* A quote that is not later than the one before it. *)
LEMMA ReadsLate ==
    ASSUME Trace!TraceAssumption, NEW r, NEW b, NEW t, Reads(r, b, t),
           r.stream = b.stream, r.last # None, b.qqq <= r.last
    PROVE  ReaderInv(t)
<1>0. /\ r \in ReaderRow /\ b \in BatchRow /\ b.id \in Nat /\ b.qqq \in Int /\ b.stream \in Stream
      /\ t.pc = r.pc /\ t.counted = r.counted /\ t.rows = r.rows /\ t.at = b.id /\ t.stream = b.stream
      /\ ReadOf(t) = ReadOf(r) \cup {b} /\ ReadOf(r) \subseteq r.rows
  BY ReadsFacts
<1>1. t.bucket = r.bucket /\ t.samples = r.samples /\ t.last = r.last /\ t.frames = r.frames /\ IsReader(t)
  BY <1>0, TookLate, TookRecord DEF Reads
<1>2. t \in ReaderRow
  BY <1>0, <1>1, ReadsCommon DEF ReaderRow, IsReader
<1>3. BuilderOK(r) /\ TakenOK(r) /\ FramesOK(r)
  BY DEF Reads, ReaderInv
<1>4. PICK c \in ReadOf(r) : c.qqq = r.last /\ Steady(r, c)
  BY <1>3 DEF BuilderOK
<1>5. BuilderOK(t)
  <2>1. \E d \in ReadOf(t) : d.qqq = t.last /\ Steady(t, d)
    BY <1>0, <1>1, <1>4, ReadsSteady
  <2> QED BY SMTT(30), <1>0, <1>1, <1>3, <2>1, ReadsCommon DEF BuilderOK
<1>6. TakenOK(t)
  <2>1. Superseded(t.rows, b)
    <3>1. Between(r.rows, c, b) /\ Trace!Eligible(c) /\ c \in r.rows
      BY <1>0, <1>4, ReadsSteady DEF ReadOf
    <3> QED BY <1>0, <1>4, <3>1 DEF Superseded
  <2>2. \A d \in ReadOf(r) : Steady(t, d) <=> Steady(r, d)
    BY ReadsSteady
  <2> QED BY <1>0, <1>1, <1>3, <2>1, <2>2 DEF TakenOK
<1>7. FramesOK(t)
  <2>1. \A i \in 1..Len(t.frames) : FrameOK(t.rows, ReadOf(t), t.frames[i])
    BY <1>1, <1>3, ReadsCommon DEF FramesOK
  <2>2. \A i \in 1..Len(t.frames) : Passed(t, t.frames[i])
    BY <1>1, <1>3, PassedOn DEF FramesOK
  <2> QED BY <1>0, <1>1, <1>3, <2>1, <2>2 DEF FramesOK
<1> QED BY <1>0, <1>2, <1>5, <1>6, <1>7, ReadsCommon DEF ReaderInv, Reads

(* Where the builder was, for a quote that is later than the last. *)
LEMMA LaterQuote ==
    ASSUME Trace!TraceAssumption, NEW r, NEW b, NEW t, Reads(r, b, t), ~(r.last # None /\ b.qqq <= r.last),
           r.bucket # None
    PROVE  /\ r.last \in Int /\ r.bucket \in Int /\ r.bucket = Trace!Bucket(r.last) /\ r.last < b.qqq
           /\ r.bucket <= Trace!Bucket(b.qqq) /\ r.samples # <<>>
<1>0. r \in ReaderRow /\ b.qqq \in Int
  BY ReadsFacts
<1>1. r.last # None /\ r.bucket = Trace!Bucket(r.last) /\ r.samples # <<>>
  BY DEF Reads, ReaderInv, BuilderOK
<1>2. r.last \in Int /\ r.bucket \in Int
  BY <1>0, <1>1 DEF ReaderRow
<1>3. r.last < b.qqq
  BY <1>0, <1>1, <1>2
<1> QED BY <1>0, <1>1, <1>2, <1>3, BucketOrder

LEMMA AppendedSample ==
    ASSUME NEW q \in Seq(BatchRow), NEW b \in BatchRow
    PROVE  /\ Append(q, b) \in Seq(BatchRow) /\ Append(q, b) # <<>> /\ Len(Append(q, b)) = Len(q) + 1 /\ Len(q) \in Nat
           /\ \A i \in 1..Len(q) : Append(q, b)[i] = q[i] /\ q[i] \in BatchRow
           /\ Append(q, b)[Len(q) + 1] = b
           /\ Among(b, Append(q, b)) /\ \A c : Among(c, q) => Among(c, Append(q, b))
           /\ Increasing(q) /\ (\A i \in 1..Len(q) : q[i].qqq < b.qqq) => Increasing(Append(q, b))
<1>1. /\ Append(q, b) \in Seq(BatchRow) /\ Append(q, b) # <<>> /\ Len(Append(q, b)) = Len(q) + 1 /\ Len(q) \in Nat
      /\ \A i \in 1..Len(q) : Append(q, b)[i] = q[i] /\ q[i] \in BatchRow
      /\ Append(q, b)[Len(q) + 1] = b
  BY AppendProperties, LenProperties, ElementOfSeq
<1> DEFINE a == Append(q, b)
<1> HIDE DEF a
<1>2. Among(b, a)
  BY <1>1 DEF Among, a
<1>3. \A c : Among(c, q) => Among(c, a)
  BY <1>1 DEF Among, a
<1>4. ASSUME Increasing(q), \A i \in 1..Len(q) : q[i].qqq < b.qqq PROVE Increasing(a)
  <2> SUFFICES ASSUME NEW i \in 1..Len(a), NEW j \in 1..Len(a), i < j PROVE a[i].qqq < a[j].qqq
    BY DEF Increasing
  <2>1. i \in 1..Len(q) /\ a[i] = q[i]
    BY <1>1 DEF a
  <2>2. CASE j = Len(q) + 1
    BY <1>1, <1>4, <2>1, <2>2 DEF a
  <2>3. CASE j # Len(q) + 1
    <3>1. j \in 1..Len(q) /\ a[j] = q[j]
      BY <1>1, <2>3 DEF a
    <3> QED BY <1>4, <2>1, <3>1 DEF Increasing
  <2> QED BY <2>2, <2>3
<1> QED BY <1>1, <1>2, <1>3, <1>4 DEF a

(* One more sample of the same bar, or the first one. *)
LEMMA ReadsMore ==
    ASSUME Trace!TraceAssumption, NEW r, NEW b, NEW t, Reads(r, b, t),
           r.stream = b.stream, ~(r.last # None /\ b.qqq <= r.last), ~Trace!Completes(r, b)
    PROVE  ReaderInv(t)
<1>0. /\ r \in ReaderRow /\ b \in BatchRow /\ b.id \in Nat /\ b.qqq \in Int /\ b.stream \in Stream
      /\ t.pc = r.pc /\ t.counted = r.counted /\ t.rows = r.rows /\ t.at = b.id /\ t.stream = b.stream
      /\ ReadOf(t) = ReadOf(r) \cup {b} /\ b \in ReadOf(t) /\ ReadOf(r) \subseteq BatchRow
  BY ReadsFacts
<1>1. BuilderOK(r) /\ TakenOK(r) /\ FramesOK(r)
  BY DEF Reads, ReaderInv
<1>2. r.bucket # None => r.bucket = Trace!Bucket(b.qqq)
  <2> SUFFICES ASSUME r.bucket # None PROVE r.bucket = Trace!Bucket(b.qqq)
    OBVIOUS
  <2>1. r.bucket \in Int /\ r.bucket <= Trace!Bucket(b.qqq) /\ r.samples # <<>> /\ Trace!Bucket(b.qqq) \in Int
    BY <1>0, LaterQuote, Buckets
  <2> QED BY <2>1 DEF Trace!Completes
<1>3. t.bucket \in Int /\ Trace!Bucket(b.qqq) \in Int /\ t.bucket = Trace!Bucket(b.qqq) /\ t.samples = Append(r.samples, b)
      /\ t.last = b.qqq /\ t.frames = r.frames /\ IsReader(t)
  <2>1. Trace!Bucket(b.qqq) \in Int
    BY <1>0, Buckets
  <2>2. r.bucket = None \/ Trace!Bucket(b.qqq) >= r.bucket
    BY <1>2, <2>1
  <2> QED BY <1>0, <2>1, <2>2, TookMore, TookRecord DEF Reads
<1>4. None \notin Int /\ r.samples \in Seq(BatchRow)
  BY <1>0 DEF Trace!TraceAssumption, ReaderRow
<1> DEFINE q == r.samples
<1>5. /\ t.samples \in Seq(BatchRow) /\ t.samples # <<>> /\ Len(t.samples) = Len(q) + 1 /\ Len(q) \in Nat
      /\ \A i \in 1..Len(q) : t.samples[i] = q[i] /\ q[i] \in BatchRow
      /\ t.samples[Len(q) + 1] = b
      /\ Among(b, t.samples) /\ \A c : Among(c, q) => Among(c, t.samples)
      /\ Increasing(q) /\ (\A i \in 1..Len(q) : q[i].qqq < b.qqq) => Increasing(t.samples)
  BY <1>0, <1>3, <1>4, AppendedSample
<1>6. ASSUME NEW i \in 1..Len(q)
      PROVE  /\ q[i] \in ReadOf(t) /\ q[i].stream = t.stream /\ Trace!Bucket(q[i].qqq) = t.bucket /\ q[i].qqq < b.qqq
             /\ r.bucket # None
  <2>1. /\ q[i] \in ReadOf(r) /\ q[i].stream = r.stream /\ Trace!Bucket(q[i].qqq) = r.bucket /\ q[i].qqq <= r.last
        /\ q # <<>>
    BY <1>1, <1>4, <1>5, EmptySeq DEF BuilderOK
  <2>2. r.bucket # None
    BY <1>1, <2>1 DEF BuilderOK
  <2>3. r.last \in Int /\ r.last < b.qqq /\ q[i].qqq \in Int
    BY <1>5, <2>2, LaterQuote DEF BatchRow
  <2> QED BY <1>0, <1>2, <1>3, <2>1, <2>2, <2>3
<1>7. t \in ReaderRow
  BY <1>0, <1>3, <1>5, ReadsCommon DEF ReaderRow, IsReader
<1>8. BuilderOK(t)
  <2>1. (t.last = None <=> t.bucket = None) /\ (t.bucket = None <=> t.samples = <<>>)
    BY <1>0, <1>3, <1>4, <1>5
  <2>2. t.bucket = Trace!Bucket(t.last) /\ \E c \in ReadOf(t) : c.qqq = t.last /\ Steady(t, c)
    BY <1>0, <1>3, ReadsSteady
  <2>3. ASSUME NEW i \in 1..Len(t.samples)
        PROVE  /\ t.samples[i] \in ReadOf(t) /\ t.samples[i].stream = t.stream
               /\ Trace!Bucket(t.samples[i].qqq) = t.bucket /\ t.samples[i].qqq <= t.last
    <3>1. CASE i = Len(q) + 1
      BY <1>0, <1>3, <1>5, <3>1
    <3>2. CASE i # Len(q) + 1
      <4>0. i \in 1..Len(q)
        BY <1>5, <3>2
      <4>1. i \in 1..Len(q) /\ t.samples[i] = q[i] /\ q[i].qqq \in Int
        BY <1>5, <4>0 DEF BatchRow
      <4> QED BY <1>0, <1>3, <1>6, <4>1
    <3> QED BY <3>1, <3>2
  <2>4. Increasing(t.samples)
    BY <1>1, <1>5, <1>6 DEF BuilderOK
  <2> QED BY <2>1, <2>2, <2>3, <2>4, ReadsCommon DEF BuilderOK
<1>9. TakenOK(t)
  <2>1. ASSUME NEW c \in ReadOf(r), Steady(t, c)
        PROVE  \/ Superseded(t.rows, c)
               \/ Trace!Bucket(c.qqq) <= t.bucket /\ (Trace!Bucket(c.qqq) = t.bucket => Among(c, t.samples))
    <3>1. Steady(r, c)
      BY <2>1, ReadsSteady
    <3>2. \/ Superseded(r.rows, c)
          \/ r.bucket # None /\ Trace!Bucket(c.qqq) <= r.bucket /\ (Trace!Bucket(c.qqq) = r.bucket => Among(c, q))
      BY <1>1, <3>1 DEF TakenOK
    <3> QED BY <1>0, <1>2, <1>3, <1>5, <3>2
  <2>2. t.bucket # None /\ Trace!Bucket(b.qqq) <= t.bucket
    BY <1>3, <1>4
  <2> QED BY <1>0, <1>5, <2>1, <2>2 DEF TakenOK
<1>10. FramesOK(t)
  <2>1. \A i \in 1..Len(t.frames) : FrameOK(t.rows, ReadOf(t), t.frames[i])
    BY <1>1, <1>3, ReadsCommon DEF FramesOK
  <2>2. t.samples[1] = b \/ (r.samples # <<>> /\ t.samples[1] = r.samples[1])
    <3>1. CASE Len(q) = 0
      BY <1>5, <3>1
    <3>2. CASE Len(q) # 0
      <4>1. 1 \in 1..Len(q)
        BY <1>5, <3>2
      <4> QED BY <1>4, <1>5, <4>1, EmptySeq
    <3> QED BY <3>1, <3>2
  <2>3. t.bucket # None /\ t.bucket \in Int /\ (r.bucket # None => r.bucket <= t.bucket)
    BY <1>2, <1>3, <1>4
  <2>4. \A i \in 1..Len(t.frames) : Passed(t, t.frames[i])
    BY <1>1, <1>3, <2>2, <2>3, PassedOn DEF FramesOK
  <2> QED BY <1>0, <1>1, <1>3, <2>1, <2>4 DEF FramesOK
<1> QED BY <1>0, <1>7, <1>8, <1>9, <1>10, ReadsCommon DEF ReaderInv, Reads

(* A bar is complete. *)
LEMMA ReadsBar ==
    ASSUME Trace!TraceAssumption, NEW r, NEW b, NEW t, Reads(r, b, t),
           r.stream = b.stream, ~(r.last # None /\ b.qqq <= r.last), Trace!Completes(r, b)
    PROVE  ReaderInv(t)
<1>0. /\ r \in ReaderRow /\ b \in BatchRow /\ b.id \in Nat /\ b.qqq \in Int /\ b.stream \in Stream
      /\ t.pc = r.pc /\ t.counted = r.counted /\ t.rows = r.rows /\ t.at = b.id /\ t.stream = b.stream
      /\ ReadOf(t) = ReadOf(r) \cup {b} /\ b \in ReadOf(t) /\ ReadOf(r) \subseteq BatchRow
      /\ ReadOf(r) \subseteq r.rows
      /\ \A c \in ReadOf(r) : c.id \in Nat /\ c.id < b.id
  BY ReadsFacts
<1>1. BuilderOK(r) /\ TakenOK(r) /\ FramesOK(r) /\ Chronological(r.rows) /\ \A c \in r.rows : c.exact
  BY DEF Reads, ReaderInv
<1>2. /\ r.bucket # None /\ r.samples # <<>> /\ r.bucket \in Int /\ Trace!Bucket(b.qqq) \in Int /\ r.bucket < Trace!Bucket(b.qqq)
      /\ r.last \in Int /\ r.bucket = Trace!Bucket(r.last) /\ r.last < b.qqq
  <2>1. r.bucket # None /\ Trace!Bucket(b.qqq) > r.bucket /\ r.samples # <<>>
    BY DEF Trace!Completes
  <2> QED BY <1>0, <2>1, LaterQuote, Buckets
<1> DEFINE f == Trace!FrameOf(r, b)
<1>3. /\ t.bucket = Trace!Bucket(b.qqq) /\ t.samples = <<b>> /\ t.last = b.qqq /\ t.frames = Append(r.frames, f)
      /\ IsReader(t)
  BY <1>0, <1>2, TookBar, TookRecord DEF Reads
<1>4. f.start = r.bucket /\ f.samples = r.samples /\ f.by = b /\ f.causal = Trace!Latest(b) /\ f.stream = b.stream
  BY DEF Trace!FrameOf
<1>5. Trace!Latest(b) \in Int /\ Trace!Latest(b) >= b.qqq /\ r.samples \in Seq(BatchRow)
  BY <1>0 DEF Trace!Latest, BatchRow, ReaderRow
<1>6. f \in FrameRow
  BY <1>0, <1>2, <1>5 DEF Trace!FrameOf, FrameRow
<1>7. /\ t.frames \in Seq(FrameRow) /\ Len(t.frames) = Len(r.frames) + 1 /\ Len(r.frames) \in Nat
      /\ \A i \in 1..Len(r.frames) : t.frames[i] = r.frames[i] /\ r.frames[i] \in FrameRow
      /\ t.frames[Len(r.frames) + 1] = f
  <2>1. r.frames \in Seq(FrameRow)
    BY <1>0 DEF ReaderRow
  <2> HIDE DEF f
  <2> QED BY <1>3, <1>6, <2>1, AppendProperties, LenProperties, ElementOfSeq
<1> HIDE DEF f
<1>8. t \in ReaderRow
  BY <1>0, <1>2, <1>3, <1>7, OneSample, ReadsCommon DEF ReaderRow, IsReader
<1>9. BuilderOK(t)
  BY <1>3, BeginsWith
<1>10. TakenOK(t)
  BY <1>2, <1>3, TakenBegins
<1> DEFINE q == r.samples
<1>11. Len(q) \in Nat /\ 1 \in 1..Len(q) /\ \A i \in 1..Len(q) : q[i] \in BatchRow
  BY <1>2, <1>5, EmptySeq, LenProperties, ElementOfSeq
<1>12. ASSUME NEW j \in 1..Len(q)
       PROVE  /\ q[j] \in ReadOf(r) /\ q[j].stream = b.stream /\ Trace!Bucket(q[j].qqq) = r.bucket /\ q[j].qqq < b.qqq
  <2>1. q[j] \in ReadOf(r) /\ q[j].stream = r.stream /\ Trace!Bucket(q[j].qqq) = r.bucket /\ q[j].qqq <= r.last
    BY <1>1 DEF BuilderOK
  <2>2. q[j].qqq \in Int
    BY <1>11 DEF BatchRow
  <2> QED BY <1>0, <1>2, <2>1, <2>2
<1>13. FrameOK(t.rows, ReadOf(t), f)
  <2>1. f.by \in ReadOf(t) /\ f.stream = f.by.stream /\ f.samples # <<>> /\ Increasing(f.samples)
    BY <1>0, <1>1, <1>2, <1>4 DEF BuilderOK
  <2>2. \A j \in 1..Len(f.samples) :
          /\ f.samples[j] \in ReadOf(t) /\ f.samples[j].stream = f.stream
          /\ Trace!Bucket(f.samples[j].qqq) = f.start /\ f.samples[j].qqq < f.by.qqq
    BY <1>0, <1>4, <1>12
  <2>3. f.start + BarTicks <= Trace!Bucket(f.by.qqq) /\ Trace!Bucket(f.by.qqq) <= f.causal
    <3>1. r.bucket + BarTicks <= Trace!Bucket(b.qqq)
      BY <1>0, <1>2, BucketOrder
    <3>2. Trace!Bucket(b.qqq) <= b.qqq
      BY <1>0, Buckets
    <3> QED BY <1>0, <1>2, <1>4, <1>5, <3>1, <3>2
  <2>4. ASSUME NEW c \in t.rows, Trace!Eligible(c), Trace!Bucket(c.qqq) = f.start, Between(t.rows, c, f.by)
        PROVE  Among(c, f.samples) \/ Superseded(t.rows, c)
    <3>1. c \in ReadOf(r) /\ Steady(r, c)
      BY <1>0, <1>4, <2>4, ReadsSteady
    <3>2. \/ Superseded(r.rows, c)
          \/ Trace!Bucket(c.qqq) = r.bucket => Among(c, q)
      BY <1>1, <3>1 DEF TakenOK
    <3> QED BY <1>0, <1>4, <2>4, <3>2
  <2> QED BY <2>1, <2>2, <2>3, <2>4 DEF FrameOK
<1>14. Passed(t, f)
  BY <1>0, <1>2, <1>3, <1>4 DEF Passed, Trace!TraceAssumption
<1>15. ASSUME NEW e, FrameOK(r.rows, ReadOf(r), e), Passed(r, e), e \in FrameRow PROVE Advance(t.rows, e, f)
  <2>1. e.by \in ReadOf(r) /\ e.start + BarTicks <= Trace!Bucket(e.by.qqq) /\ e.by.id <= q[1].id
    BY <1>2, <1>15 DEF FrameOK, Passed
  <2>2. /\ e.start \in Int /\ e.by \in BatchRow /\ e.by.qqq \in Int /\ e.by.observed \in Nat /\ e.by.id \in Nat
        /\ Trace!Bucket(e.by.qqq) \in Int /\ Trace!Bucket(e.by.qqq) <= e.by.qqq
    <3>1. e.start \in Int /\ e.by \in BatchRow
      BY <1>15 DEF FrameRow
    <3>2. e.by.qqq \in Int /\ e.by.observed \in Nat /\ e.by.id \in Nat
      BY <3>1 DEF BatchRow
    <3> QED BY <3>1, <3>2, Buckets
  <2> DEFINE s == q[1]
  <2>3. s \in ReadOf(r) /\ s \in r.rows /\ Trace!Bucket(s.qqq) = r.bucket
    BY <1>0, <1>11, <1>12
  <2>4. s.id \in Nat /\ s.qqq \in Int /\ s.observed \in Nat /\ s.envelope \in Nat
    BY <1>11 DEF BatchRow
  <2>5. e.by \in r.rows /\ e.by.observed <= s.observed
    <3>1. e.by \in r.rows /\ (e.by.id = s.id => e.by = s) /\ (e.by.id < s.id => e.by.observed <= s.observed)
      BY <1>0, <1>1, <2>1, <2>3 DEF Chronological
    <3>2. e.by.id < s.id \/ e.by.id = s.id
      BY <2>1, <2>2, <2>4
    <3>3. CASE e.by.id < s.id
      BY <3>1, <3>3
    <3>4. CASE e.by.id = s.id
      BY <2>4, <3>1, <3>4
    <3> QED BY <3>1, <3>2, <3>3, <3>4
  <2>6. s.qqq >= s.observed - s.envelope /\ e.by.qqq <= e.by.observed + Trace!Ahead
    <3>1. Trace!Within(s.observed - s.qqq, s.envelope) /\ Trace!Within(e.by.observed - e.by.qqq, e.by.envelope)
      BY <1>1, <2>3, <2>5 DEF Chronological
    <3>2. e.by.envelope \in Nat
      BY <2>2 DEF BatchRow
    <3> QED BY <2>2, <2>4, <3>1, <3>2 DEF Trace!Within, Trace!Ahead
  <2>7. f.start = r.bucket /\ s.qqq < r.bucket + BarTicks /\ f.samples[1] = s
    <3>1. s.qqq < Trace!Bucket(s.qqq) + BarTicks
      BY <2>4, Buckets
    <3> QED BY <1>4, <2>3, <3>1
  <2> HIDE DEF s
  <2>8. f.start > e.start - (f.samples[1].envelope + Trace!Ahead)
    <3>1. BarTicks \in Nat
      BY DEF Trace!TraceAssumption
    <3>2. e.start + BarTicks <= e.by.qqq
      BY <2>1, <2>2, <3>1
    <3>3. s.qqq + s.envelope + Trace!Ahead >= e.by.qqq
      BY <2>2, <2>4, <2>5, <2>6 DEF Trace!Ahead
    <3>4. r.bucket > e.start - (s.envelope + Trace!Ahead)
      <4>1. /\ s.qqq \in Int /\ s.envelope \in Int /\ e.by.qqq \in Int /\ e.start \in Int /\ r.bucket \in Int
            /\ BarTicks \in Int
        BY <1>2, <2>2, <2>4, <3>1
      <4>2. s.qqq < r.bucket + BarTicks
        BY <2>7
      <4> QED BY <3>2, <3>3, <4>1, <4>2 DEF Trace!Ahead
    <3> QED BY <2>7, <3>4
  <2>9. ASSUME \A c \in t.rows : c.id \in e.by.id..f.by.id /\ Trace!Eligible(c) => c.stream = e.stream
        PROVE  f.start > e.start
    <3>1. \A d \in ReadOf(r) : d.id >= e.by.id => d.stream = e.stream
      <4> SUFFICES ASSUME NEW d \in ReadOf(r), d.id >= e.by.id PROVE d.stream = e.stream
        OBVIOUS
      <4>1. d \in t.rows /\ Trace!Eligible(d) /\ d.id \in e.by.id..f.by.id
        BY <1>0, <1>4, <2>2 DEF ReadOf
      <4> QED BY <2>9, <4>1
    <3>2. Trace!Bucket(e.by.qqq) <= r.bucket
      BY <1>15, <3>1 DEF Passed
    <3>3. BarTicks \in Nat /\ BarTicks > 0
      BY DEF Trace!TraceAssumption
    <3> QED BY <1>2, <2>1, <2>2, <2>7, <3>2, <3>3
  <2> QED BY <2>8, <2>9 DEF Advance
<1>16. FramesOK(t)
  <2>0. \A i \in 1..Len(r.frames) : FrameOK(r.rows, ReadOf(r), r.frames[i]) /\ Passed(r, r.frames[i])
    BY <1>1 DEF FramesOK
  <2>1. \A i \in 1..Len(r.frames) : FrameOK(t.rows, ReadOf(t), r.frames[i])
    BY <2>0, ReadsCommon
  <2>2. \A i \in 1..Len(r.frames) : Passed(t, r.frames[i])
    <3>1. t.samples[1] = b
      BY <1>3
    <3>2. t.bucket # None /\ t.bucket \in Int /\ (r.bucket # None => r.bucket <= t.bucket)
      BY <1>2, <1>3 DEF Trace!TraceAssumption
    <3> QED BY <2>0, <3>1, <3>2, PassedOn
  <2>3. ASSUME NEW i \in 1..Len(t.frames)
        PROVE  FrameOK(t.rows, ReadOf(t), t.frames[i]) /\ Passed(t, t.frames[i])
    <3>1. CASE i = Len(r.frames) + 1
      BY <1>7, <1>13, <1>14, <3>1
    <3>2. CASE i # Len(r.frames) + 1
      <4>1. i \in 1..Len(r.frames)
        BY <1>7, <3>2
      <4> QED BY <1>7, <2>1, <2>2, <4>1
    <3> QED BY <3>1, <3>2
  <2>4. ASSUME NEW i \in 1..Len(t.frames), NEW j \in 1..Len(t.frames), i < j
        PROVE  Advance(t.rows, t.frames[i], t.frames[j])
    <3>1. i \in 1..Len(r.frames) /\ t.frames[i] = r.frames[i]
      BY <1>7, <2>4
    <3>2. CASE j = Len(r.frames) + 1
      BY <1>7, <1>15, <2>0, <3>1, <3>2
    <3>3. CASE j # Len(r.frames) + 1
      <4>1. j \in 1..Len(r.frames) /\ t.frames[j] = r.frames[j]
        BY <1>7, <3>3
      <4> QED BY <1>0, <1>1, <2>4, <3>1, <4>1 DEF FramesOK
    <3> QED BY <3>2, <3>3
  <2> QED BY <2>3, <2>4 DEF FramesOK
<1> QED BY <1>0, <1>8, <1>9, <1>10, <1>16, ReadsCommon DEF ReaderInv, Reads

LEMMA ReadsEligible ==
    ASSUME Trace!TraceAssumption, NEW r, NEW b, NEW t, Reads(r, b, t)
    PROVE  ReaderInv(t)
  BY ReadsSwitched, ReadsLate, ReadsMore, ReadsBar

(* A batch outside market hours is passed over. *)
LEMMA ReadsOther ==
    ASSUME NEW r, ReaderInv(r), r.pc = "reading", NEW b \in r.rows, b.id > r.at,
           \A c \in r.rows : c.id > r.at => b.id <= c.id, ~Trace!Eligible(b)
    PROVE  ReaderInv([r EXCEPT !.at = b.id])
<1> DEFINE t == [r EXCEPT !.at = b.id]
<1>0. r \in ReaderRow /\ Chronological(r.rows) /\ b \in BatchRow /\ b.id \in Nat
  BY DEF ReaderInv, ReaderRow, BatchRow
<1>1. /\ t.pc = r.pc /\ t.rows = r.rows /\ t.at = b.id /\ t.bucket = r.bucket /\ t.samples = r.samples
      /\ t.stream = r.stream /\ t.last = r.last /\ t.sessions = r.sessions /\ t.frames = r.frames
      /\ t \in ReaderRow
  BY <1>0 DEF ReaderRow
<1> HIDE DEF t
<1>2. ReadOf(t) = ReadOf(r)
  <2>1. ReadOf(t) = ReadOf(r) \cup (IF Trace!Eligible(b) THEN {b} ELSE {})
    BY <1>0, <1>1, ReadNext
  <2> QED BY <2>1
<1>3. \A c : Steady(t, c) <=> Steady(r, c)
  BY <1>1, <1>2 DEF Steady
<1>4. BuilderOK(t)
  BY <1>1, <1>2, <1>3 DEF ReaderInv, BuilderOK
<1>5. TakenOK(t)
  BY <1>1, <1>2, <1>3 DEF ReaderInv, TakenOK
<1>6. \A f : Passed(r, f) => Passed(t, f)
  BY <1>1, <1>2 DEF Passed
<1>7. FramesOK(t)
  BY <1>1, <1>2, <1>6 DEF ReaderInv, FramesOK
<1>8. OneEach(t)
  BY <1>1 DEF OneEach
<1> QED BY <1>0, <1>1, <1>4, <1>5, <1>7, <1>8 DEF ReaderInv, t

(* Another pc, the same reading. *)
LEMMA ReaderTurns ==
    ASSUME NEW r, ReaderInv(r), NEW pc \in {"idle", "counted", "reading", "loaded", "refused"},
           pc = "loaded" => \A p, q \in r.sessions : p[1] = q[1] => p[2] = q[2]
    PROVE  ReaderInv([r EXCEPT !.pc = pc])
<1> DEFINE t == [r EXCEPT !.pc = pc]
<1>0. r \in ReaderRow
  BY DEF ReaderInv
<1>1. /\ t.pc = pc /\ t.rows = r.rows /\ t.at = r.at /\ t.bucket = r.bucket /\ t.samples = r.samples
      /\ t.stream = r.stream /\ t.last = r.last /\ t.sessions = r.sessions /\ t.frames = r.frames
      /\ t \in ReaderRow
  BY <1>0 DEF ReaderRow
<1> HIDE DEF t
<1>2. ReadOf(t) = ReadOf(r)
  BY <1>1 DEF ReadOf
<1>3. \A c : Steady(t, c) <=> Steady(r, c)
  BY <1>1, <1>2 DEF Steady
<1>4. BuilderOK(t)
  BY <1>1, <1>2, <1>3 DEF ReaderInv, BuilderOK
<1>5. TakenOK(t)
  BY <1>1, <1>2, <1>3 DEF ReaderInv, TakenOK
<1>6. \A f : Passed(r, f) => Passed(t, f)
  BY <1>1, <1>2 DEF Passed
<1>7. FramesOK(t)
  BY <1>1, <1>2, <1>6 DEF ReaderInv, FramesOK
<1>8. OneEach(t)
  BY <1>1 DEF OneEach
<1> QED BY <1>1, <1>4, <1>5, <1>7, <1>8 DEF ReaderInv, t

(* A reader that has read nothing. *)
LEMMA ReaderFresh ==
    ASSUME NEW t \in ReaderRow, Fresh(t), Chronological(t.rows), \A b \in t.rows : b.exact,
           t.pc # "loaded"
    PROVE  ReaderInv(t)
<1>1. ReadOf(t) = {}
  <2>1. \A b \in t.rows : b.id \in Nat /\ b.id > 0
    BY DEF Chronological, ReaderRow, BatchRow
  <2> QED BY <2>1 DEF Fresh, ReadOf
<1>2. Len(t.samples) = 0 /\ Len(t.frames) = 0
  BY DEF Fresh
<1>3. BuilderOK(t)
  BY <1>1, <1>2 DEF Fresh, BuilderOK, Increasing
<1>4. TakenOK(t) /\ FramesOK(t) /\ OneEach(t)
  BY <1>1, <1>2 DEF TakenOK, FramesOK, OneEach
<1> QED BY <1>3, <1>4 DEF ReaderInv

-----------------------------------------------------------------------------
LEMMA TraceStarts == Trace!TraceAssumption /\ Trace!Init => TraceInv
<1> SUFFICES ASSUME Trace!TraceAssumption, Trace!Init PROVE TraceInv
  OBVIOUS
<1>1. ticks = 0 /\ batched = 0 /\ batches = {} /\ load = Trace!Idle
  BY DEF Trace!Init
<1>2. LedgerInv
  BY <1>1, FS_EmptySet DEF LedgerInv, Chronological
<1>3. Trace!Idle \in ReaderRow /\ Fresh(Trace!Idle) /\ Trace!Idle.rows = {} /\ Trace!Idle.pc = "idle"
  <2>1. <<>> \in Seq(BatchRow) /\ <<>> \in Seq(FrameRow)
    BY EmptySeq
  <2> QED BY <2>1 DEF Trace!Idle, ReaderRow, Fresh
<1>4. ReaderInv(Trace!Idle)
  BY <1>3, ReaderFresh DEF Chronological
<1> QED BY <1>1, <1>2, <1>3, <1>4 DEF TraceInv

LEMMA RecordKeeps ==
    ASSUME Trace!TraceAssumption, LedgerInv, Trace!Record
    PROVE  LedgerInv' /\ load' = load
<1>1. PICK s \in Stream, a \in Arrival :
        /\ a.exact => Trace!Within(a.age, a.envelope) /\ Trace!Within(a.other, a.envelope)
        /\ ticks' = ticks + a.step
        /\ batches' = batches \cup
               {[id |-> batched + 1, stream |-> s, observed |-> ticks', exact |-> a.exact,
                 envelope |-> a.envelope, qqq |-> ticks' - a.age, other |-> ticks' - a.other]}
  BY DEF Trace!Record
<1>2. batched' = batched + 1 /\ load' = load
  BY DEF Trace!Record
<1>3. /\ ticks \in Nat /\ batched \in Nat /\ batches \in SUBSET BatchRow /\ IsFiniteSet(batches) /\ Chronological(batches)
      /\ \A b \in batches : b.id <= batched /\ b.observed <= ticks
  BY DEF LedgerInv
<1>4. a.step \in Nat /\ a.envelope \in Nat /\ a.age \in Int /\ a.other \in Int /\ a.exact \in BOOLEAN
  BY DEF Trace!TraceAssumption
<1>5. ticks' \in Nat /\ ticks <= ticks' /\ batched' \in Nat
  BY <1>1, <1>2, <1>3, <1>4
<1> DEFINE b == [id |-> batched + 1, stream |-> s, observed |-> ticks', exact |-> a.exact,
                 envelope |-> a.envelope, qqq |-> ticks' - a.age, other |-> ticks' - a.other]
<1>6. b \in BatchRow
  BY <1>3, <1>4, <1>5 DEF BatchRow
<1>7. /\ b.id = batched + 1 /\ b.observed = ticks' /\ b.exact = a.exact
      /\ (b.exact => Trace!Within(b.observed - b.qqq, b.envelope))
  <2>1. ticks' - (ticks' - a.age) = a.age
    BY <1>4, <1>5
  <2> QED BY <1>1, <2>1
<1>8. batches' = batches \cup {b}
  BY <1>1
<1> HIDE DEF b
<1>9. \A c \in batches : c.id \in Nat /\ c.observed \in Nat
  BY <1>3 DEF BatchRow
<1>10. IsFiniteSet(batches')
  BY <1>3, <1>8, FS_AddElement
<1>11. Chronological(batches')
  <2>1. \A c \in batches' : c.id > 0 /\ (c.exact => Trace!Within(c.observed - c.qqq, c.envelope))
    BY <1>3, <1>7, <1>8 DEF Chronological
  <2>2. \A c \in batches : c.id < b.id /\ c.observed <= b.observed
    BY <1>3, <1>5, <1>7, <1>9
  <2>3. b.id \in Nat
    BY <1>3, <1>7
  <2>4. \A c, d \in batches' : (c.id = d.id => c = d) /\ (c.id < d.id => c.observed <= d.observed)
    BY <1>3, <1>8, <1>9, <2>2, <2>3 DEF Chronological
  <2> QED BY <2>1, <2>4 DEF Chronological
<1>12. \A c \in batches' : c.id <= batched' /\ c.observed <= ticks'
  BY <1>2, <1>3, <1>5, <1>7, <1>8, <1>9
<1> QED BY <1>2, <1>3, <1>5, <1>6, <1>8, <1>10, <1>11, <1>12 DEF LedgerInv

LEMMA PruneKeeps ==
    ASSUME LedgerInv, Trace!Prune
    PROVE  LedgerInv' /\ load' = load
<1>1. batches' \in SUBSET batches /\ UNCHANGED <<ticks, batched, load>>
  BY DEF Trace!Prune
<1>2. IsFiniteSet(batches')
  BY <1>1, FS_Subset DEF LedgerInv
<1> QED BY <1>1, <1>2 DEF LedgerInv, Chronological

LEMMA TraceSteps == Trace!TraceAssumption /\ TraceInv /\ [Trace!Next]_(Trace!vars) => TraceInv'
<1> SUFFICES ASSUME Trace!TraceAssumption, TraceInv, [Trace!Next]_(Trace!vars) PROVE TraceInv'
  OBVIOUS
<1>0. load \in ReaderRow /\ ReaderInv(load) /\ LedgerInv
  BY DEF TraceInv, ReaderInv
<1>1. CASE UNCHANGED Trace!vars
  BY <1>1 DEF Trace!vars, TraceInv, LedgerInv, Chronological
<1>2. CASE Trace!Record
  BY <1>0, <1>2, RecordKeeps DEF TraceInv
<1>3. CASE Trace!Prune
  BY <1>0, <1>3, PruneKeeps DEF TraceInv
<1>4. ASSUME UNCHANGED <<ticks, batches, batched>> PROVE LedgerInv'
  BY <1>0, <1>4 DEF LedgerInv
<1>5. CASE Trace!Count
  <2>1. load' = [Trace!Idle EXCEPT !.pc = "counted", !.counted = Cardinality(Trace!Exact)] /\ UNCHANGED <<ticks, batches, batched>>
    BY <1>5, Counts DEF Trace!Count
  <2>2. Trace!Exact \in SUBSET batches
    BY DEF Trace!Exact
  <2>3. Cardinality(Trace!Exact) \in Nat
    BY <1>0, <2>2, FS_Subset, FS_CardinalityType DEF LedgerInv
  <2>4. load' \in ReaderRow /\ Fresh(load') /\ load'.rows = {} /\ load'.pc = "counted"
    <3>1. <<>> \in Seq(BatchRow) /\ <<>> \in Seq(FrameRow)
      BY EmptySeq
    <3> QED BY <2>1, <2>3, <3>1 DEF Trace!Idle, ReaderRow, Fresh
  <2>5. ReaderInv(load')
    BY <2>4, ReaderFresh DEF Chronological
  <2> QED BY <1>4, <2>1, <2>4, <2>5 DEF TraceInv
<1>6. CASE Trace!Open
  <2>1. load' = [load EXCEPT !.pc = "reading", !.rows = Trace!Exact] /\ UNCHANGED <<ticks, batches, batched>> /\ load.pc = "counted"
    BY <1>6 DEF Trace!Open
  <2>2. Fresh(load)
    BY <2>1 DEF TraceInv
  <2>3. Trace!Exact \in SUBSET BatchRow /\ Chronological(Trace!Exact) /\ \A b \in Trace!Exact : b.exact
    BY <1>0 DEF LedgerInv, Trace!Exact, Chronological
  <2>4. load' \in ReaderRow /\ Fresh(load') /\ load'.rows = Trace!Exact /\ load'.pc = "reading"
    BY <1>0, <2>1, <2>2, <2>3 DEF ReaderRow, Fresh
  <2>5. ReaderInv(load')
    BY <2>3, <2>4, ReaderFresh
  <2> QED BY <1>4, <2>1, <2>4, <2>5 DEF TraceInv
<1>7. CASE Trace!Chunk
  <2>1. load.pc = "reading" /\ UNCHANGED <<ticks, batches, batched>>
    BY <1>7 DEF Trace!Chunk
  <2>2. PICK b \in Trace!Unread :
          /\ Trace!Foremost(b, Trace!Unread)
          /\ load' = IF \E c \in load.rows : Trace!Foremost(c, load.rows) /\ c.envelope # b.envelope
                     THEN [load EXCEPT !.pc = "refused"]
                     ELSE [IF Trace!Eligible(b) THEN Trace!Taken(load, b) ELSE load EXCEPT !.at = b.id]
    BY <1>7 DEF Trace!Chunk
  <2>3. b \in load.rows /\ b.id > load.at /\ \A c \in load.rows : c.id > load.at => b.id <= c.id
    BY <2>2 DEF Trace!Unread, Trace!Foremost
  <2>4. CASE load' = [load EXCEPT !.pc = "refused"]
    <3>1. ReaderInv(load') /\ load'.pc = "refused"
      BY <1>0, <2>4, ReaderTurns DEF ReaderRow
    <3> QED BY <1>4, <2>1, <3>1 DEF TraceInv
  <2>5. CASE Trace!Eligible(b) /\ load' = [Trace!Taken(load, b) EXCEPT !.at = b.id]
    <3>1. Reads(load, b, load')
      BY <1>0, <2>1, <2>3, <2>5 DEF Reads, Took
    <3>2. ReaderInv(load') /\ load'.pc = "reading"
      BY <2>1, <3>1, ReadsEligible, ReadsFacts
    <3> QED BY <1>4, <2>1, <3>2 DEF TraceInv
  <2>6. CASE ~Trace!Eligible(b) /\ load' = [load EXCEPT !.at = b.id]
    <3>1. ReaderInv(load') /\ load'.pc = "reading"
      BY <1>0, <2>1, <2>3, <2>6, ReadsOther DEF ReaderRow
    <3> QED BY <1>4, <2>1, <3>1 DEF TraceInv
  <2> QED BY <2>2, <2>4, <2>5, <2>6
<1>8. CASE Trace!Finish
  <2>1. PICK pc \in {"loaded", "refused"} :
          load' = [load EXCEPT !.pc = pc] /\ (pc = "loaded" => Trace!OneSessionEach)
    BY <1>8 DEF Trace!Finish
  <2>2. ReaderInv(load') /\ load'.pc = pc
    BY <1>0, <2>1, ReaderTurns DEF Trace!OneSessionEach, ReaderRow
  <2> QED BY <1>4, <1>8, <2>2 DEF Trace!Finish, TraceInv
<1> QED BY <1>1, <1>2, <1>3, <1>5, <1>6, <1>7, <1>8 DEF Trace!Next

LEMMA FrameList ==
    ASSUME TraceInv
    PROVE  /\ Len(load.frames) \in Nat /\ DOMAIN load.frames = 1..Len(load.frames)
           /\ \A i \in 1..Len(load.frames) :
                 /\ load.frames[i] \in FrameRow /\ FrameOK(load.rows, ReadOf(load), load.frames[i])
                 /\ DOMAIN load.frames[i].samples = 1..Len(load.frames[i].samples)
                 /\ Len(load.frames[i].samples) \in Nat
                 /\ \A j \in 1..Len(load.frames[i].samples) : load.frames[i].samples[j] \in BatchRow
<1>1. load.frames \in Seq(FrameRow)
  BY DEF TraceInv, ReaderInv, ReaderRow
<1>2. Len(load.frames) \in Nat /\ DOMAIN load.frames = 1..Len(load.frames)
      /\ \A i \in 1..Len(load.frames) : load.frames[i] \in FrameRow
  BY <1>1, LenProperties, ElementOfSeq
<1>3. ASSUME NEW i \in 1..Len(load.frames)
      PROVE  /\ FrameOK(load.rows, ReadOf(load), load.frames[i])
             /\ DOMAIN load.frames[i].samples = 1..Len(load.frames[i].samples)
             /\ Len(load.frames[i].samples) \in Nat
             /\ \A j \in 1..Len(load.frames[i].samples) : load.frames[i].samples[j] \in BatchRow
  <2>1. load.frames[i].samples \in Seq(BatchRow)
    BY <1>2 DEF FrameRow
  <2> QED BY <2>1, LenProperties, ElementOfSeq DEF TraceInv, ReaderInv, FramesOK
<1> QED BY <1>2, <1>3

LEMMA TraceHolds == Trace!TraceAssumption /\ TraceInv => Trace!TraceKept
<1> SUFFICES ASSUME Trace!TraceAssumption, TraceInv PROVE Trace!TraceKept
  OBVIOUS
<1>1. ASSUME NEW f \in Trace!Frames
      PROVE  /\ f \in FrameRow /\ FrameOK(load.rows, ReadOf(load), f)
             /\ DOMAIN f.samples = 1..Len(f.samples) /\ Len(f.samples) \in Nat
             /\ \A j \in 1..Len(f.samples) : f.samples[j] \in BatchRow
  BY FrameList DEF Trace!Frames
<1>2. Trace!BarsAreCausal
  <2> SUFFICES ASSUME NEW f \in Trace!Frames
               PROVE  /\ f.causal >= f.start + BarTicks
                      /\ \A i \in DOMAIN f.samples :
                            /\ f.samples[i].stream = f.stream /\ Trace!Bucket(f.samples[i].qqq) = f.start
                            /\ \A j \in DOMAIN f.samples : i < j => f.samples[i].qqq < f.samples[j].qqq
                            /\ f.samples[i].qqq < f.by.qqq
    BY DEF Trace!BarsAreCausal
  <2>1. f.start \in Int /\ f.causal \in Int /\ f.by \in BatchRow
    BY <1>1 DEF FrameRow
  <2>2. Trace!Bucket(f.by.qqq) \in Int /\ BarTicks \in Nat
    BY <2>1, Buckets DEF BatchRow, Trace!TraceAssumption
  <2>3. f.causal >= f.start + BarTicks
    BY <1>1, <2>1, <2>2 DEF FrameOK
  <2> QED BY <1>1, <2>3 DEF FrameOK, Increasing
<1>3. Trace!BarsAreComplete
  <2> SUFFICES ASSUME NEW f \in Trace!Frames, NEW b \in load.rows,
                      Trace!Eligible(b), Trace!Bucket(b.qqq) = f.start, Trace!Uninterrupted(b, f.by)
               PROVE  b \in Trace!Samples(f) \/ \E c \in load.rows : Trace!Eligible(c) /\ Trace!Uninterrupted(c, b) /\ b.qqq <= c.qqq
    BY DEF Trace!BarsAreComplete
  <2>1. Between(load.rows, b, f.by)
    BY DEF Trace!Uninterrupted, Between
  <2>2. Among(b, f.samples) \/ Superseded(load.rows, b)
    BY <1>1, <2>1 DEF FrameOK
  <2>3. Among(b, f.samples) => b \in Trace!Samples(f)
    BY <1>1 DEF Among, Trace!Samples
  <2>4. Superseded(load.rows, b) => \E c \in load.rows : Trace!Eligible(c) /\ Trace!Uninterrupted(c, b) /\ b.qqq <= c.qqq
    BY DEF Superseded, Between, Trace!Uninterrupted
  <2> QED BY <2>2, <2>3, <2>4
<1>4. Trace!FramesAdvance
  BY FrameList DEF Trace!FramesAdvance, TraceInv, ReaderInv, FramesOK, Advance
<1>5. Trace!SessionsApart
  <2> SUFFICES ASSUME load.pc = "loaded", NEW f \in Trace!Frames, NEW g \in Trace!Frames
               PROVE  /\ Trace!Day(f.by.qqq) = Trace!Day(f.start)
                      /\ f.stream = g.stream => Trace!Day(f.start) = Trace!Day(g.start)
    BY DEF Trace!SessionsApart
  <2>1. \A p, q \in load.sessions : p[1] = q[1] => p[2] = q[2]
    BY DEF TraceInv, ReaderInv, OneEach
  <2>2. \A b \in ReadOf(load) : <<b.stream, Trace!Day(b.qqq)>> \in load.sessions
    BY DEF TraceInv, ReaderInv, BuilderOK
  <2>3. \A b, c \in ReadOf(load) : b.stream = c.stream => Trace!Day(b.qqq) = Trace!Day(c.qqq)
    BY <2>1, <2>2
  <2>4. ASSUME NEW h \in Trace!Frames
        PROVE  h.by \in ReadOf(load) /\ h.stream = h.by.stream /\ Trace!Day(h.by.qqq) = Trace!Day(h.start)
    <3>1. h.by \in ReadOf(load) /\ h.stream = h.by.stream /\ h.samples # <<>>
      BY <1>1 DEF FrameOK
    <3>2. 1 \in 1..Len(h.samples)
      <4>1. h.samples \in Seq(BatchRow)
        BY <1>1 DEF FrameRow
      <4> QED BY <3>1, <4>1, EmptySeq
    <3>3. h.samples[1] \in ReadOf(load) /\ h.samples[1].stream = h.stream /\ Trace!Bucket(h.samples[1].qqq) = h.start
          /\ h.samples[1].qqq \in Int
      BY <1>1, <3>2 DEF FrameOK, BatchRow
    <3>4. Trace!Day(h.start) = Trace!Day(h.samples[1].qqq)
      BY <3>3, BucketDay
    <3> QED BY <2>3, <3>1, <3>3, <3>4
  <2>5. f.stream = g.stream => Trace!Day(f.by.qqq) = Trace!Day(g.by.qqq)
    BY <2>3, <2>4
  <2> QED BY <2>4, <2>5
<1> QED BY <1>2, <1>3, <1>4, <1>5 DEF Trace!TraceKept

-----------------------------------------------------------------------------
(* EarningsStore.  A refresh under way is short, so the requests of a day are
   among those that were counted under its budget. *)

RefreshPhase == {"idle", "asking", "fetching", "answered", "building"}
RefreshRecord == [pc : RefreshPhase, now : Nat, dataset : Earnings!Dataset, content : Earnings!Content \cup {"none"}]
RequestRow == [id : Nat, at : Nat, left : Nat]
ResponseRow == [dataset : Earnings!Dataset, content : Earnings!Content, at : Nat]

EarningsTypeOK ==
    /\ time \in 0..LastTime
    /\ renewed \in [Earnings!Dataset -> 0..Earnings!Never]
    /\ requests \subseteq RequestRow /\ IsFiniteSet(requests)
    /\ responses \subseteq ResponseRow
    /\ refresh \in [Client -> RefreshRecord]

(* The provider shows what is new from the time on at which it became so. *)
NewsArePast == \A d \in Earnings!Dataset : renewed[d] = Earnings!Never \/ renewed[d] <= time

(* A refresh under way holds a time that is not older than it may take. *)
RefreshesAreShort == \A c \in Client : refresh[c].pc # "idle" => time \in refresh[c].now..refresh[c].now + Lag

(* A request left within one refresh of the time under which it is on record. *)
RequestsLeaveSoon == \A q \in requests : q.left \in q.at..q.at + Lag /\ q.left <= time

(* What is on record, or on its way to be, was shown by then. *)
AnswersWereShown ==
    /\ \A r \in responses : r.at <= time /\ Earnings!Served(r.dataset, r.content, 0..r.at)
    /\ \A c \in Client : refresh[c].pc = "answered" =>
           refresh[c].content \in Earnings!Content /\ Earnings!Served(refresh[c].dataset, refresh[c].content, 0..time)

EarningsInv ==
    /\ EarningsTypeOK /\ NewsArePast /\ RefreshesAreShort /\ RequestsLeaveSoon /\ AnswersWereShown
    /\ Earnings!ProviderBudget

LEMMA EarningsStarts == ASSUME Earnings!EarningsAssumption PROVE Earnings!Init => EarningsInv
<1> SUFFICES ASSUME Earnings!Init PROVE EarningsInv
  OBVIOUS
<1> USE DEF Earnings!EarningsAssumption, Earnings!Init
<1>1. EarningsTypeOK
  BY FS_EmptySet DEF EarningsTypeOK, Earnings!Idle, RefreshRecord, RefreshPhase, Earnings!Dataset, Earnings!Never
<1>2. NewsArePast /\ RefreshesAreShort /\ RequestsLeaveSoon /\ AnswersWereShown
  BY DEF NewsArePast, RefreshesAreShort, RequestsLeaveSoon, AnswersWereShown, Earnings!Idle
<1>3. Earnings!ProviderBudget
  <2> SUFFICES ASSUME NEW t \in 0..LastTime
               PROVE  Cardinality({q \in requests : q.left \in (t - (BudgetDay - Lag) + 1)..t}) <= Budget
    BY Counts DEF Earnings!ProviderBudget
  <2>1. {q \in requests : q.left \in (t - (BudgetDay - Lag) + 1)..t} = {}
    OBVIOUS
  <2> QED BY <2>1, FS_EmptySet
<1> QED BY <1>1, <1>2, <1>3 DEF EarningsInv

(* What a refresh does next is one of these, at its own time. *)
LEMMA OnwardIs ==
    ASSUME EarningsTypeOK, NEW c \in Client
    PROVE  /\ Earnings!Onward(c) \in RefreshRecord
           /\ Earnings!Onward(c).pc \in {"idle", "asking", "building"}
           /\ Earnings!Onward(c).pc # "idle" => Earnings!Onward(c).now = refresh[c].now
           /\ Earnings!Onward(c).pc = "building" => c = Worker
  BY DEF EarningsTypeOK, Earnings!Onward, RefreshRecord, RefreshPhase, Earnings!Dataset, Earnings!Idle

LEMMA OneMore ==
    ASSUME NEW S, NEW x, IsFiniteSet(S)
    PROVE  /\ IsFiniteSet(S \cup {x}) /\ Cardinality(S) \in Nat
           /\ Cardinality(S \cup {x}) \in Nat /\ Cardinality(S \cup {x}) <= Cardinality(S) + 1
<1>1. IsFiniteSet(S \cup {x}) /\ Cardinality(S) \in Nat
  BY FS_AddElement, FS_CardinalityType
<1>2. Cardinality(S \cup {x}) = Cardinality(S) \/ Cardinality(S \cup {x}) = Cardinality(S) + 1
  BY FS_AddElement
<1> QED BY <1>1, <1>2

(* One more request under a budget that is not used up. *)
LEMMA BudgetKept ==
    ASSUME Earnings!EarningsAssumption, EarningsTypeOK, RefreshesAreShort, RequestsLeaveSoon, Earnings!ProviderBudget,
           NEW c \in Client, refresh[c].pc # "idle", Earnings!Counted(refresh[c].now) < Budget,
           NEW i, requests' = requests \cup {[id |-> i, at |-> refresh[c].now, left |-> time]}
    PROVE  Earnings!ProviderBudget'
<1> DEFINE q0 == [id |-> i, at |-> refresh[c].now, left |-> time]
<1> DEFINE sent(t) == {q \in requests : q.left \in (t - (BudgetDay - Lag) + 1)..t}
<1> DEFINE counted == {q \in requests : q.at > refresh[c].now - BudgetDay}
<1>0. refresh[c].now \in Nat /\ time \in Nat /\ time \in refresh[c].now..refresh[c].now + Lag
  BY DEF EarningsTypeOK, RefreshRecord, RefreshesAreShort
<1> SUFFICES ASSUME NEW t \in 0..LastTime
             PROVE  Cardinality({q \in requests' : q.left \in (t - (BudgetDay - Lag) + 1)..t}) <= Budget
  BY Counts DEF Earnings!ProviderBudget
<1>1. CASE time \in (t - (BudgetDay - Lag) + 1)..t
  <2>1. {q \in requests' : q.left \in (t - (BudgetDay - Lag) + 1)..t} \subseteq counted \cup {q0}
    <3> SUFFICES ASSUME NEW q \in requests, q.left \in (t - (BudgetDay - Lag) + 1)..t
                 PROVE  q.at > refresh[c].now - BudgetDay
      OBVIOUS
    <3>1. q.at \in Nat /\ q.left \in Nat /\ q.left <= q.at + Lag
      BY DEF EarningsTypeOK, RequestRow, RequestsLeaveSoon
    <3> QED BY <1>0, <1>1, <3>1 DEF Earnings!EarningsAssumption
  <2>2. IsFiniteSet(counted)
    BY FS_Subset DEF EarningsTypeOK
  <2>3. /\ IsFiniteSet(counted \cup {q0}) /\ Cardinality(counted) \in Nat
        /\ Cardinality(counted \cup {q0}) \in Nat /\ Cardinality(counted \cup {q0}) <= Cardinality(counted) + 1
    <3> HIDE DEF counted, q0
    <3> QED BY <2>2, OneMore
  <2>4. Cardinality(counted) < Budget
    BY Counts DEF Earnings!Counted
  <2>5. /\ Cardinality({q \in requests' : q.left \in (t - (BudgetDay - Lag) + 1)..t}) <= Cardinality(counted \cup {q0})
        /\ Cardinality({q \in requests' : q.left \in (t - (BudgetDay - Lag) + 1)..t}) \in Nat
    BY <2>1, <2>3, FS_Subset, FS_CardinalityType
  <2> QED BY <2>3, <2>4, <2>5 DEF Earnings!EarningsAssumption
<1>2. CASE time \notin (t - (BudgetDay - Lag) + 1)..t
  <2>1. {q \in requests' : q.left \in (t - (BudgetDay - Lag) + 1)..t} = sent(t)
    BY <1>2
  <2> QED BY <2>1, Counts DEF Earnings!ProviderBudget
<1> QED BY <1>1, <1>2

(* What was shown stays shown by then, whatever becomes new now. *)
LEMMA ServedStays ==
    ASSUME Earnings!EarningsAssumption, EarningsTypeOK, NewsArePast, [Earnings!Next]_(Earnings!vars),
           NEW d \in Earnings!Dataset, NEW k \in Earnings!Content, NEW n \in 0..time, Earnings!Served(d, k, 0..n)
    PROVE  Earnings!Served(d, k, 0..n)'
<1>1. CASE Earnings!Tick
  <2>1. PICK t \in (0..n) \cap (0..time) : (k = "new") = (t >= renewed[d])
    BY DEF Earnings!Served
  <2>2. time \in Nat /\ n \in Nat /\ t <= time /\ time' = time + 1 /\ time <= LastTime
    BY <1>1, <2>1 DEF Earnings!Tick, EarningsTypeOK
  <2>3. (t >= renewed'[d]) = (t >= renewed[d])
    BY <1>1, <2>1, <2>2 DEF Earnings!Tick, EarningsTypeOK, NewsArePast, Earnings!Never, Earnings!EarningsAssumption
  <2>4. t \in (0..n) \cap (0..time')
    BY <2>1, <2>2
  <2> QED BY <2>1, <2>3, <2>4 DEF Earnings!Served
<1>2. CASE UNCHANGED <<time, renewed>>
  BY <1>2 DEF Earnings!Served
<1> QED BY <1>1, <1>2 DEF Earnings!Next, Earnings!vars, Earnings!store, Earnings!Begin, Earnings!UseCache, Earnings!Request, Earnings!Serve, Earnings!Respond, Earnings!RequestFails, Earnings!GiveUp, Earnings!Snapshot

(* A refresh goes on at its own time. *)
LEMMA RefreshGoesOn ==
    ASSUME Earnings!EarningsAssumption, EarningsInv, NEW c \in Client, NEW e \in RefreshRecord,
           refresh' = [refresh EXCEPT ![c] = e], UNCHANGED <<time, renewed>>,
           e.pc # "idle" => time \in e.now..e.now + Lag,
           e.pc = "answered" => e.content \in Earnings!Content /\ Earnings!Served(e.dataset, e.content, 0..time),
           requests' \subseteq RequestRow, IsFiniteSet(requests'), RequestsLeaveSoon', Earnings!ProviderBudget',
           responses' \subseteq ResponseRow,
           \A r \in responses' \ responses : r.at <= time /\ Earnings!Served(r.dataset, r.content, 0..r.at)
    PROVE  EarningsInv'
<1>1. EarningsTypeOK' /\ NewsArePast'
  BY DEF EarningsInv, EarningsTypeOK, NewsArePast
<1>2. \A d \in Client : refresh'[d] = IF d = c THEN e ELSE refresh[d]
  BY DEF EarningsInv, EarningsTypeOK
<1>3. RefreshesAreShort'
  BY <1>2 DEF EarningsInv, RefreshesAreShort
<1>4. AnswersWereShown'
  BY <1>2 DEF EarningsInv, AnswersWereShown, Earnings!Served
<1> QED BY <1>1, <1>3, <1>4 DEF EarningsInv

LEMMA TickKeeps ==
    ASSUME Earnings!EarningsAssumption, EarningsInv, Earnings!Tick
    PROVE  EarningsInv'
<1> USE DEF EarningsInv
<1>1. time \in Nat /\ time < LastTime /\ time' = time + 1 /\ UNCHANGED <<Earnings!store, refresh>>
  BY DEF Earnings!Tick, EarningsTypeOK
<1>2. PICK news \in SUBSET {d \in Earnings!Dataset : renewed[d] = Earnings!Never} :
          renewed' = [d \in Earnings!Dataset |-> IF d \in news THEN time' ELSE renewed[d]]
  BY DEF Earnings!Tick
<1>3. EarningsTypeOK' /\ NewsArePast'
  <2>1. time' \in 0..LastTime /\ time' \in 0..Earnings!Never /\ LastTime \in Nat
    BY <1>1 DEF Earnings!Never, Earnings!EarningsAssumption
  <2>2. renewed' \in [Earnings!Dataset -> 0..Earnings!Never]
    BY <1>2, <2>1 DEF EarningsTypeOK
  <2>3. EarningsTypeOK'
    BY <1>1, <2>1, <2>2 DEF EarningsTypeOK, Earnings!store
  <2>4. NewsArePast'
    BY <1>1, <1>2, <2>1 DEF NewsArePast, EarningsTypeOK, Earnings!Never
  <2> QED BY <2>3, <2>4
<1>4. RequestsLeaveSoon' /\ Earnings!ProviderBudget'
  BY <1>1 DEF RequestsLeaveSoon, Earnings!ProviderBudget, Earnings!store, EarningsTypeOK, RequestRow, Earnings!EarningsAssumption
<1>5. RefreshesAreShort'
  BY <1>1 DEF Earnings!Tick, RefreshesAreShort, Earnings!store, EarningsTypeOK, RefreshRecord, Earnings!EarningsAssumption
<1>6. [Earnings!Next]_(Earnings!vars)
  BY DEF Earnings!Next
<1>7. ASSUME NEW r \in responses
      PROVE  r.at <= time' /\ Earnings!Served(r.dataset, r.content, 0..r.at)'
  <2>1. r.dataset \in Earnings!Dataset /\ r.content \in Earnings!Content /\ r.at \in 0..time /\ Earnings!Served(r.dataset, r.content, 0..r.at)
    BY DEF EarningsTypeOK, ResponseRow, AnswersWereShown
  <2> QED BY <1>1, <1>6, <2>1, ServedStays
<1>8. ASSUME NEW c \in Client, refresh[c].pc = "answered"
      PROVE  refresh[c].content \in Earnings!Content /\ Earnings!Served(refresh[c].dataset, refresh[c].content, 0..time)'
  <2>1. refresh[c].content \in Earnings!Content /\ refresh[c].dataset \in Earnings!Dataset /\ Earnings!Served(refresh[c].dataset, refresh[c].content, 0..time)
    BY <1>8 DEF AnswersWereShown, EarningsTypeOK, RefreshRecord
  <2>2. PICK t \in 0..time : (refresh[c].content = "new") = (t >= renewed[refresh[c].dataset])
    BY <2>1 DEF Earnings!Served
  <2>d. /\ renewed[refresh[c].dataset] \in 0..LastTime + 1 /\ LastTime \in Nat
        /\ \/ renewed'[refresh[c].dataset] = renewed[refresh[c].dataset]
           \/ renewed[refresh[c].dataset] = LastTime + 1 /\ renewed'[refresh[c].dataset] = time + 1
    BY <1>1, <1>2, <2>1 DEF EarningsTypeOK, Earnings!Never, Earnings!EarningsAssumption
  <2>3. (t >= renewed'[refresh[c].dataset]) = (t >= renewed[refresh[c].dataset])
    BY <1>1, <2>2, <2>d
  <2>4. t \in (0..time') \cap (0..time')
    BY <1>1
  <2> QED BY <1>1, <2>1, <2>2, <2>3, <2>4 DEF Earnings!Served
<1>9. AnswersWereShown'
  BY <1>1, <1>7, <1>8 DEF AnswersWereShown, Earnings!store
<1> QED BY <1>3, <1>4, <1>5, <1>9

LEMMA EarningsStep ==
    ASSUME Earnings!EarningsAssumption, EarningsInv, [Earnings!Next]_(Earnings!vars)
    PROVE  EarningsInv'
<1>0. CASE UNCHANGED Earnings!vars
  BY <1>0 DEF Earnings!vars, Earnings!store, EarningsInv, EarningsTypeOK, NewsArePast, RefreshesAreShort, RequestsLeaveSoon, AnswersWereShown,
         Earnings!ProviderBudget, Earnings!Served
<1>1. ASSUME NEW c \in Client,
             Earnings!Begin(c) \/ Earnings!UseCache(c) \/ Earnings!Request(c) \/ Earnings!Serve(c) \/ Earnings!Respond(c) \/ Earnings!RequestFails(c) \/ Earnings!GiveUp(c)
      PROVE  EarningsInv'
  <2> USE DEF EarningsInv
  <2>t. refresh[c] \in RefreshRecord /\ time \in Nat /\ refresh \in [Client -> RefreshRecord]
    BY DEF EarningsTypeOK
  <2>o. /\ Earnings!Onward(c) \in RefreshRecord
        /\ Earnings!Onward(c).pc \in {"idle", "asking", "building"}
        /\ Earnings!Onward(c).pc # "idle" => Earnings!Onward(c).now = refresh[c].now
    BY OnwardIs
  <2>i. Earnings!Idle \in RefreshRecord /\ Earnings!Idle.pc = "idle"
    BY DEF Earnings!Idle, RefreshRecord, RefreshPhase, Earnings!Dataset
  <2>n. refresh[c].pc # "idle" => time \in refresh[c].now..refresh[c].now + Lag
    BY DEF RefreshesAreShort
  <2>s. UNCHANGED requests => /\ requests' \subseteq RequestRow /\ IsFiniteSet(requests')
                              /\ UNCHANGED time => RequestsLeaveSoon' /\ Earnings!ProviderBudget'
    BY DEF EarningsTypeOK, RequestsLeaveSoon, Earnings!ProviderBudget
  <2>1. CASE Earnings!Begin(c)
    <3> DEFINE e == [Earnings!Idle EXCEPT !.pc = "asking", !.now = time]
    <3>1. e \in RefreshRecord /\ e.pc = "asking" /\ e.now = time
      BY <2>t DEF Earnings!Idle, RefreshRecord, RefreshPhase, Earnings!Dataset
    <3>2. time \in e.now..e.now + Lag
      BY <2>t, <3>1 DEF Earnings!EarningsAssumption
    <3>3. refresh' = [refresh EXCEPT ![c] = e] /\ UNCHANGED <<time, renewed, requests, responses>>
      BY <2>1 DEF Earnings!Begin, Earnings!store
    <3> HIDE DEF e
    <3> QED BY <2>s, <3>1, <3>2, <3>3, RefreshGoesOn DEF EarningsTypeOK
  <2>2. CASE Earnings!UseCache(c) \/ Earnings!RequestFails(c)
    <3>1. refresh' = [refresh EXCEPT ![c] = Earnings!Onward(c)] /\ UNCHANGED <<time, renewed, requests, responses>> /\ refresh[c].pc # "idle"
      BY <2>2 DEF Earnings!UseCache, Earnings!RequestFails, Earnings!store
    <3> QED BY <2>o, <2>n, <2>s, <3>1, RefreshGoesOn DEF EarningsTypeOK
  <2>3. CASE Earnings!GiveUp(c)
    <3>1. refresh' = [refresh EXCEPT ![c] = Earnings!Idle] /\ UNCHANGED <<time, renewed, requests, responses>>
      BY <2>3 DEF Earnings!GiveUp, Earnings!store
    <3> QED BY <2>i, <2>s, <3>1, RefreshGoesOn DEF EarningsTypeOK
  <2>4. CASE Earnings!Serve(c)
    <3> DEFINE e == [refresh[c] EXCEPT !.pc = "answered", !.content = Earnings!Shown(refresh[c].dataset)]
    <3>1. e \in RefreshRecord /\ e.pc = "answered" /\ e.now = refresh[c].now /\ e.dataset = refresh[c].dataset
          /\ e.content = Earnings!Shown(refresh[c].dataset) /\ e.content \in Earnings!Content
      BY <2>t DEF RefreshRecord, RefreshPhase, Earnings!Shown, Earnings!Content
    <3>2. refresh' = [refresh EXCEPT ![c] = e] /\ UNCHANGED <<time, renewed, requests, responses>> /\ refresh[c].pc # "idle"
      BY <2>4, <2>t DEF Earnings!Serve, Earnings!store
    <3>3. Earnings!Served(e.dataset, e.content, 0..time)
      <4>1. refresh[c].dataset \in Earnings!Dataset /\ time \in (0..time) \cap (0..time) /\ time <= LastTime
        BY <2>t DEF RefreshRecord, EarningsTypeOK
      <4>2. (Earnings!Shown(refresh[c].dataset) = "new") = (time >= renewed[refresh[c].dataset])
        BY <4>1 DEF Earnings!Shown, NewsArePast, Earnings!Never, EarningsTypeOK, Earnings!EarningsAssumption
      <4> QED BY <3>1, <4>1, <4>2 DEF Earnings!Served
    <3> HIDE DEF e
    <3> QED BY <2>n, <2>s, <3>1, <3>2, <3>3, RefreshGoesOn DEF EarningsTypeOK
  <2>5. CASE Earnings!Request(c)
    <3>1. refresh[c].pc = "asking" /\ UNCHANGED <<time, renewed, responses>>
      BY <2>5 DEF Earnings!Request
    <3>2. CASE Earnings!Counted(refresh[c].now) < Budget
      <4> DEFINE e == [refresh[c] EXCEPT !.pc = "fetching"]
                 q0 == [id |-> Cardinality(requests) + 1, at |-> refresh[c].now, left |-> time]
      <4>1. e \in RefreshRecord /\ e.pc = "fetching" /\ e.now = refresh[c].now
        BY <2>t DEF RefreshRecord, RefreshPhase
      <4>2. refresh' = [refresh EXCEPT ![c] = e] /\ requests' = requests \cup {q0}
        BY <2>5, <2>t, <3>2, Counts DEF Earnings!Request
      <4>3. Earnings!ProviderBudget'
        BY <3>1, <3>2, <4>2, BudgetKept
      <4>4. q0 \in RequestRow /\ Cardinality(requests) \in Nat
        BY <2>t, FS_CardinalityType DEF EarningsTypeOK, RequestRow, RefreshRecord
      <4>5. requests' \subseteq RequestRow /\ IsFiniteSet(requests')
        BY <4>2, <4>4, FS_AddElement DEF EarningsTypeOK
      <4>6. RequestsLeaveSoon'
        BY <2>t, <2>n, <3>1, <4>2 DEF RequestsLeaveSoon, RefreshRecord
      <4> HIDE DEF e, q0
      <4> QED BY <2>n, <3>1, <4>1, <4>2, <4>3, <4>5, <4>6, RefreshGoesOn DEF EarningsTypeOK
    <3>3. CASE ~(Earnings!Counted(refresh[c].now) < Budget)
      <4>1. refresh' = [refresh EXCEPT ![c] = Earnings!Onward(c)] /\ UNCHANGED requests
        BY <2>5, <3>3 DEF Earnings!Request
      <4> QED BY <2>o, <2>n, <2>s, <3>1, <4>1, RefreshGoesOn DEF EarningsTypeOK
    <3> QED BY <3>2, <3>3
  <2>6. CASE Earnings!Respond(c)
    <3>1. refresh[c].pc = "answered" /\ UNCHANGED <<time, renewed, requests>>
      BY <2>6 DEF Earnings!Respond
    <3>2. PICK e \in {Earnings!Onward(c), Earnings!Idle} : refresh' = [refresh EXCEPT ![c] = e]
      BY <2>6 DEF Earnings!Respond
    <3>3. /\ e \in RefreshRecord /\ e.pc # "answered"
          /\ e.pc # "idle" => e.now = refresh[c].now
      BY <2>o, <2>i
    <3> DEFINE row == [dataset |-> refresh[c].dataset, content |-> refresh[c].content, at |-> time]
    <3>4. responses' \subseteq responses \cup {row}
      BY <2>6 DEF Earnings!Respond, Earnings!Recorded, Earnings!Stamped
    <3>5. row \in ResponseRow /\ Earnings!Served(row.dataset, row.content, 0..row.at)
      BY <2>t, <3>1 DEF AnswersWereShown, ResponseRow, RefreshRecord
    <3>6. /\ responses' \subseteq ResponseRow
          /\ \A r \in responses' \ responses : r.at <= time /\ Earnings!Served(r.dataset, r.content, 0..r.at)
      BY <2>t, <3>4, <3>5 DEF EarningsTypeOK
    <3> HIDE DEF row
    <3> QED BY <2>n, <2>s, <3>1, <3>2, <3>3, <3>6, RefreshGoesOn
  <2> QED BY <1>1, <2>1, <2>2, <2>3, <2>4, <2>5, <2>6
<1>2. CASE Earnings!Snapshot
  <2>i. Earnings!Idle \in RefreshRecord /\ Earnings!Idle.pc = "idle"
    BY DEF Earnings!Idle, RefreshRecord, RefreshPhase, Earnings!Dataset
  <2>1. Worker \in Client /\ refresh' = [refresh EXCEPT ![Worker] = Earnings!Idle] /\ UNCHANGED <<time, renewed, requests, responses>>
    BY <1>2 DEF Earnings!Snapshot, Earnings!store, Earnings!EarningsAssumption
  <2>2. /\ requests' \subseteq RequestRow /\ IsFiniteSet(requests') /\ RequestsLeaveSoon' /\ Earnings!ProviderBudget'
        /\ responses' \subseteq ResponseRow
    BY <2>1 DEF EarningsInv, EarningsTypeOK, RequestsLeaveSoon, Earnings!ProviderBudget
  <2> QED BY <2>i, <2>1, <2>2, RefreshGoesOn
<1>3. CASE Earnings!Tick
  BY <1>3, TickKeeps
<1> QED BY <1>0, <1>1, <1>2, <1>3 DEF Earnings!Next

(* What was shown by a time was shown by a later one. *)
LEMMA EventsAreKnown ==
    ASSUME Earnings!EarningsAssumption, EarningsInv
    PROVE  Earnings!PointInTime
<1> SUFFICES ASSUME refresh[Worker].pc = "building", NEW e \in Earnings!Handed(refresh[Worker].now)
             PROVE  /\ Earnings!Served("EARNINGS_ESTIMATES", e.consensus, 0..(e.announced - 1))
                    /\ Earnings!Served("EARNINGS", e.actual, 0..e.available)
                    /\ Earnings!InOrder(e, refresh[Worker].now)
  BY DEF Earnings!PointInTime
<1>1. /\ e.announced \in Nat /\ e.available \in Nat /\ e.post \in Nat /\ e.post < refresh[Worker].now
      /\ Earnings!Verified(e) /\ Earnings!InOrder(e, time)
  BY DEF Earnings!Handed, Earnings!Recordable, EarningsInv, EarningsTypeOK
<1>2. Earnings!InOrder(e, refresh[Worker].now)
  BY <1>1 DEF Earnings!InOrder
<1>3. Earnings!Served("EARNINGS_ESTIMATES", e.consensus, 0..(e.announced - 1))
  <2>1. PICK r \in responses : r.dataset = "EARNINGS_ESTIMATES" /\ r.content = e.consensus /\ r.at < e.announced
    BY <1>1 DEF Earnings!Verified, Earnings!Facts
  <2>2. r.at \in Nat /\ Earnings!Served(r.dataset, r.content, 0..r.at)
    BY DEF EarningsInv, EarningsTypeOK, ResponseRow, AnswersWereShown
  <2> QED BY <1>1, <2>1, <2>2 DEF Earnings!Served
<1>4. Earnings!Served("EARNINGS", e.actual, 0..e.available)
  <2>1. PICK r \in responses : r.dataset = "EARNINGS" /\ r.content = e.actual /\ r.at \in e.announced..e.available
    BY <1>1 DEF Earnings!Verified, Earnings!Facts
  <2>2. r.at \in Nat /\ Earnings!Served(r.dataset, r.content, 0..r.at)
    BY DEF EarningsInv, EarningsTypeOK, ResponseRow, AnswersWereShown
  <2> QED BY <1>1, <2>1, <2>2 DEF Earnings!Served
<1> QED BY <1>2, <1>3, <1>4

-----------------------------------------------------------------------------
(* All of them *)

RecordsInv ==
    /\ LabInv /\ AuditInv /\ UpgradeInv /\ SchemaInv /\ ChainInv /\ SelectionInv /\ TraceInv
    /\ EarningsInv /\ PaperInv

LEMMA PartsAssumed ==
    /\ Evidence!BundleAssumption /\ Audit!NobodyAssumption /\ Schema!ColumnsAssumption
    /\ Chain!ChainAssumption /\ Search!SelectionAssumption /\ Trace!TraceAssumption
    /\ Earnings!EarningsAssumption
  BY StoreAssumption

(* A step is one part's; the others stand still. *)
LEMMA StepOfRecords ==
    ASSUME [RecordsNext]_recordsVars
    PROVE  /\ [Next]_vars
           /\ [Evidence!Next]_(Evidence!vars)
           /\ [Audit!Next]_(Audit!vars)
           /\ [Upgrade!Next]_(Upgrade!vars)
           /\ [Schema!Next]_(Schema!vars)
           /\ [Chain!Next]_(Chain!vars)
           /\ [Search!Next]_(Search!vars)
           /\ [Trace!Next]_(Trace!vars)
           /\ [Earnings!Next]_(Earnings!vars)
<1> USE DEF RecordsNext, PaperNext, LabNext, AuditNext, UpgradeNext, SchemaNext, ChainNext, SearchNext,
            TraceNext, EarningsNext, recordsVars
<1>1. Evidence!Next \/ UNCHANGED labVars
  OBVIOUS
<1>2. Audit!Next \/ UNCHANGED auditVars
  OBVIOUS
<1>3. Upgrade!Next \/ UNCHANGED upgradeVars
  OBVIOUS
<1>4. Schema!Next \/ UNCHANGED schemaVars
  OBVIOUS
<1>5. Chain!Next \/ UNCHANGED chainVars
  OBVIOUS
<1>6. Search!Next \/ UNCHANGED searchVars
  OBVIOUS
<1>7. Trace!Next \/ UNCHANGED traceVars
  OBVIOUS
<1>8. Earnings!Next \/ UNCHANGED earningsVars
  OBVIOUS
<1>9. /\ UNCHANGED labVars => UNCHANGED Evidence!vars
      /\ UNCHANGED auditVars => UNCHANGED Audit!vars
      /\ UNCHANGED upgradeVars => UNCHANGED Upgrade!vars
      /\ UNCHANGED schemaVars => UNCHANGED Schema!vars
  BY DEF labVars, auditVars, upgradeVars, schemaVars, Evidence!vars, Audit!vars, Upgrade!vars, Schema!vars
<1>10. /\ UNCHANGED chainVars => UNCHANGED Chain!vars
       /\ UNCHANGED searchVars => UNCHANGED Search!vars
       /\ UNCHANGED traceVars => UNCHANGED Trace!vars
       /\ UNCHANGED earningsVars => UNCHANGED Earnings!vars
  BY DEF chainVars, searchVars, traceVars, earningsVars, Chain!vars, Search!vars, Trace!vars, Earnings!vars,
         Earnings!store
<1>11. Next \/ UNCHANGED vars
  OBVIOUS
<1> QED BY <1>1, <1>2, <1>3, <1>4, <1>5, <1>6, <1>7, <1>8, <1>9, <1>10, <1>11

(* The inductive invariant of the parts together. *)
THEOREM RecordsInvariant == RecordsSpec => []RecordsInv
<1>1. RecordsInit => RecordsInv
  BY PartsAssumed, LabStarts, AuditStarts, UpgradeStarts, SchemaStarts, ChainStarts, SelectionStarts,
     TraceStarts, EarningsStarts, PaperInit DEF RecordsInit, StoresInit, RecordsInv
<1>2. RecordsInv /\ [RecordsNext]_recordsVars => RecordsInv'
  <2> SUFFICES ASSUME RecordsInv, [RecordsNext]_recordsVars PROVE RecordsInv'
    OBVIOUS
  <2>1. /\ [Evidence!Next]_(Evidence!vars) /\ [Audit!Next]_(Audit!vars) /\ [Upgrade!Next]_(Upgrade!vars)
        /\ [Schema!Next]_(Schema!vars) /\ [Chain!Next]_(Chain!vars) /\ [Search!Next]_(Search!vars)
        /\ [Trace!Next]_(Trace!vars) /\ [Earnings!Next]_(Earnings!vars) /\ [Next]_vars
    BY StepOfRecords
  <2>2. LabInv' /\ AuditInv' /\ UpgradeInv' /\ SchemaInv'
    BY PartsAssumed, <2>1, LabSteps, AuditSteps, UpgradeSteps, SchemaSteps DEF RecordsInv
  <2>3. ChainInv' /\ SelectionInv' /\ TraceInv' /\ EarningsInv' /\ PaperInv'
    BY PartsAssumed, <2>1, ChainSteps, SelectionSteps, TraceSteps, EarningsStep, PaperStep DEF RecordsInv
  <2> QED BY <2>2, <2>3 DEF RecordsInv
<1> QED BY <1>1, <1>2, PTL DEF RecordsSpec

(* Sealed data is read once, in the order of time, by the one run that claimed
   it, and evidence for live review rests on such a reading; what a search
   chooses from lies entirely before what its choice is tested on: for any
   number of labs, datasets, candidates and crashes
   (persistence/research_holdouts.py:42, research/strategy_selection.py:106). *)
THEOREM SealedDataIsReadOnce == RecordsSpec => []SealedEvidence
<1>1. RecordsInv => SealedEvidence
  BY PartsAssumed, LabSealsOnce, LabEarnsEvidence, SelectionHolds DEF RecordsInv, SealedEvidence
<1> QED BY <1>1, RecordsInvariant, PTL

(* Earnings cost the provider no more requests than the day's budget, however
   the refreshes of its clients interleave and fail, and the events the engine
   is handed were known point in time (data/earnings_feed.py:147,
   data/earnings_feed.py:383). *)
THEOREM EarningsAreKnown == RecordsSpec => []EarningsInTime
<1>1. RecordsInv => EarningsInTime
  BY PartsAssumed, EventsAreKnown DEF RecordsInv, EarningsInv, EarningsInTime
<1> QED BY <1>1, RecordsInvariant, PTL

(* What a store holds is whole: alerts follow the commit of their receipts,
   older files are taken over whole or not at all, a chain of checkpoints is
   read as it was recorded or not at all, and recorded quotes become bars
   without a look ahead, a gap or a mixture of streams (persistence/receipts.py:10,
   persistence/upgrade.py:55, persistence/schema.py:358, persistence/shadow.py:37,
   research/runtime_trace.py:263). *)
THEOREM RecordsStayWhole == RecordsSpec => StoresStayWhole
<1>1. RecordsInv => /\ part = "audit" => Audit!AlertsFollowCommits
                    /\ part = "schema" => Schema!StoreOpens
                    /\ part = "chain" => Chain!ChainKept
                    /\ part = "trace" => Trace!TraceKept
  BY PartsAssumed, AuditHolds, ChainHolds, TraceHolds DEF RecordsInv, SchemaInv
<1>2. RecordsInv => /\ target.rows = recorded \cup (IF target.marker = None THEN {} ELSE target.marker)
                    /\ target.marker # None => target.marker \cap recorded = {}
  BY DEF RecordsInv, UpgradeInv, Origins, OneOrigin
<1>3. RecordsInv /\ [RecordsNext]_recordsVars =>
        [opened' /\ ~opened /\ legacy # None => legacy \subseteq target.rows]_(Upgrade!vars)
  BY StepOfRecords, UpgradeTakesOver DEF RecordsInv, TakenOver
<1> QED BY <1>1, <1>2, <1>3, RecordsInvariant, PTL DEF RecordsSpec, StoresStayWhole, Upgrade!OneJournal

(* Paper trading: whatever saves fail, and whenever the process dies or the run
   stops, the fills of an instrument come in the order of their quotes, buy and
   sell in turn, each after the signal of the run that made it; the saved
   session is what its fills add up to, and no fill overdrew its cash; and the
   two markets share one set of limits.  For any markets, quotes and limits
   (paper/ledger.py:164, paper/journal.py:151, strategy/paper.py:105). *)
THEOREM PaperKeepsTheRules == RecordsSpec => PaperKeepsItsRules
<1>1. RecordsInv => FillsFollowSignals /\ JournalComplete
  BY JournalHolds DEF RecordsInv, PaperInv
<1>2. RecordsInv /\ [RecordsNext]_recordsVars =>
        [part = "paper" => EntersWithinLimits]_vars
  BY StepOfRecords, EntriesStep DEF RecordsInv
<1> QED BY <1>1, <1>2, RecordsInvariant, PTL DEF RecordsSpec, PaperKeepsItsRules
=============================================================================
