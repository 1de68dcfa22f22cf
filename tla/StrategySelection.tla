--------------------------- MODULE StrategySelection ---------------------------
(***************************************************************************)
(* Which sessions a search over settings reads, and when: the walk-forward *)
(* study of the evidence lab (research/evidence_search.py, research_       *)
(* service.py) with its sealed block, and the comparison of a shortlist    *)
(* (research/strategy_selection.py).  Sessions are 1..n in the order of    *)
(* time.  What a replay returns is a verdict.                              *)
(***************************************************************************)
EXTENDS Integers, Sequences, FiniteSets

CONSTANTS
    Shortlist,      \* the rules of a comparison, without cash, in their order
    LabSize,        \* numbers of sessions of a dataset handed to the lab
    CompareSize,    \* and to a comparison
    Base            \* settings whose neighbours are searched

SelectionAssumption ==
    /\ LabSize \subseteq Nat /\ CompareSize \subseteq Nat
    /\ Base \subseteq [fast : Nat, slow : Nat, warmup : Nat, threshold : Nat]
    /\ \A k \in Base : /\ k.fast \in 1..(k.slow - 1)
                       /\ k.warmup >= k.slow + 2 /\ k.threshold > 0

VARIABLES
    study,      \* the search under way
    reads       \* every read of sessions so far: why, which and for which choice

vars == <<study, reads>>

Cash == "cash"
Idle == [kind |-> "none", pc |-> "idle", development |-> 0, holdout |-> <<1, 0>>,
         cursor |-> 0, verdicts |-> <<>>, chosen |-> Cash]

Init == study = Idle /\ reads = <<>>

Read(why, for, window) == [why |-> why, for |-> for, window |-> window]

-----------------------------------------------------------------------------
(* The walk-forward study of the evidence lab *)

Least(a, b) == IF a < b THEN a ELSE b
Most(a, b) == IF a > b THEN a ELSE b

HoldoutSessions == 20
PurgeSessions == 1

(* Mutant: no session lies between. *)
SplitWithoutPurge(n) ==
    [development |-> n - HoldoutSessions, holdout |-> <<n - HoldoutSessions + 1, n>>]

(* split_final_holdout: a purged session, then twenty sealed ones. *)
Split(n) ==
    [development |-> n - HoldoutSessions - PurgeSessions, holdout |-> <<n - HoldoutSessions + 1, n>>]

(* Sealed with provenance and quality, and enough sessions to split; others
   are studied whole, those of fewer than fifteen sessions without a walk. *)
BeginLab ==
    /\ study.pc = "idle"
    /\ \E n \in LabSize, sealed \in BOOLEAN :
          LET whole == [development |-> n, holdout |-> <<1, 0>>]
              split == IF sealed THEN Split(n) ELSE whole
          IN  /\ sealed => n >= HoldoutSessions + PurgeSessions + 1
              /\ study' = [Idle EXCEPT !.kind = "lab", !.development = split.development,
                                       !.holdout = split.holdout,
                                       !.pc = IF split.development >= 15 THEN "walking" ELSE "judging"]
    /\ UNCHANGED reads

(* The lengths the lab asks for; together they fit fifteen sessions or more. *)
TestSessions(d) == Most(1, Least(5, d \div 7))
TrainSessions(d) == Most(5, Least(20, d - 5 * TestSessions(d)))

FoldEnd == study.cursor + TrainSessions(study.development) + 1 + TestSessions(study.development)

(* One turn of walk_forward: all candidates are scored on the training
   sessions, the best is tested after a purged session. *)
Fold ==
    LET d == study.development
        trained == study.cursor + TrainSessions(d)
    IN  /\ study.pc = "walking"
        /\ FoldEnd <= d
        /\ reads' = reads \o
             <<Read("train", study.cursor, <<study.cursor + 1, trained>>),
               Read("test", study.cursor, <<trained + 2, FoldEnd>>)>>
        /\ study' = [study EXCEPT !.cursor = @ + TestSessions(d)]

(* The means over the folds: there is none over no fold. *)
EndWalk ==
    /\ study.pc = "walking"
    /\ FoldEnd > study.development
    /\ study' = [study EXCEPT !.pc = IF reads = <<>> THEN "raised" ELSE "judging"]
    /\ UNCHANGED reads

Sealed == study.holdout[1] <= study.holdout[2]

(* The sealed block is read for the settings under study only after every
   other gate has passed. *)
JudgeLab ==
    /\ study.pc = "judging" /\ study.kind = "lab"
    /\ \E passed \in BOOLEAN :
          reads' = IF passed /\ Sealed THEN Append(reads, Read("final", "selected", study.holdout))
                   ELSE reads
    /\ study' = [study EXCEPT !.pc = "done"]

-----------------------------------------------------------------------------
(* The comparison of a shortlist *)

(* int(n * .7): seven tenths are a little less than 0.7 n in floating point. *)
Boundary(n) ==
    {(7 * n) \div 10} \cup (IF (7 * n) % 10 = 0 THEN {(7 * n) \div 10 - 1} ELSE {})

BeginCompare ==
    /\ study.pc = "idle"
    /\ \E n \in CompareSize :
          /\ n >= 30
          /\ \E b \in Boundary(n) :
                study' = [Idle EXCEPT !.kind = "compare", !.pc = "developing", !.development = b,
                                      !.holdout = <<b + 2, n>>]
    /\ UNCHANGED reads

(* The i-th of three blocks of the development sessions. *)
Block(d, i) == <<((i - 1) * d) \div 3 + 1, (i * d) \div 3>>

DevelopmentReads(d) ==
    <<Read("judge", "shortlist", <<1, d>>)>> \o [i \in 1..3 |-> Read("judge", "shortlist", Block(d, i))]

(* One rule over the development sessions, its blocks and its cost levels; a
   verdict is its worst block, 0 if the rule is rejected.  Cash is judged too
   and never passes. *)
JudgeRule ==
    LET next == Len(study.verdicts) + 1 IN
    /\ study.pc = "developing" /\ next <= Len(Shortlist)
    /\ reads' = reads \o DevelopmentReads(study.development)
    /\ \E worst \in 0..2 : study' = [study EXCEPT !.verdicts = Append(@, worst)]

Eligible == {i \in DOMAIN study.verdicts : study.verdicts[i] > 0}

(* The first of the best, or cash. *)
Choice ==
    IF Eligible = {} THEN Cash
    ELSE Shortlist[CHOOSE i \in Eligible : \A j \in Eligible :
                      \/ study.verdicts[i] > study.verdicts[j]
                      \/ study.verdicts[i] = study.verdicts[j] /\ i <= j]

Choose ==
    /\ study.pc = "developing" /\ Len(study.verdicts) = Len(Shortlist)
    /\ study' = [study EXCEPT !.pc = "chosen", !.chosen = Choice]
    /\ UNCHANGED reads

(* The last block, for the chosen rule and for cash. *)
Final ==
    /\ study.pc = "chosen"
    /\ reads' = reads \o (IF study.chosen = Cash THEN <<>> ELSE <<Read("final", study.chosen, study.holdout)>>)
                      \o <<Read("final", Cash, study.holdout)>>
    /\ study' = [study EXCEPT !.pc = "done"]

(* The user closes the comparison between two replays. *)
Cancel ==
    /\ study.kind = "compare" /\ study.pc \in {"developing", "chosen"}
    /\ study' = [study EXCEPT !.pc = "cancelled"]
    /\ UNCHANGED reads

Next ==
    \/ BeginLab \/ Fold \/ EndWalk \/ JudgeLab
    \/ BeginCompare \/ JudgeRule \/ Choose \/ Final \/ Cancel

Spec == Init /\ [][Next]_vars

-----------------------------------------------------------------------------
(* candidate_grid for moving averages; a threshold is in quarters of a basis
   point, the stop loss is left as it is. *)
Neighbours(k) ==
    LET thresholds == {Most(2, k.threshold \div 2), k.threshold, 2 * k.threshold}
    IN  {[fast |-> p[1], slow |-> p[2], warmup |-> Most(k.warmup, p[2] + 2), threshold |-> p[3]] :
            p \in {q \in {Most(2, k.fast - 3), k.fast, k.fast + 3}
                             \X {Most(5, k.slow - 8), k.slow, k.slow + 8} \X thresholds : q[1] < q[2]}}

(* StrategyConfig.validate *)
Valid(k) == k.fast >= 1 /\ k.fast < k.slow /\ k.warmup >= k.slow + 2 /\ k.threshold > 0

-----------------------------------------------------------------------------
(* Properties *)

Before(a, b) == a[2] + PurgeSessions < b[1]

(* What a choice rests on lies entirely before what it is tested on, with a
   purged session between: the training sessions of a fold before its test,
   and everything else before the last block
   (research/evidence_search.py:164, research/historical.py:58). *)
NoPeeking ==
    \A i, j \in DOMAIN reads :
        \/ reads[i].why = "train" /\ reads[j].why = "test" /\ reads[i].for = reads[j].for
        \/ reads[i].why # "final" /\ reads[j].why = "final"
        => Before(reads[i].window, reads[j].window) /\ i < j

(* The last block is read once for the one choice, whose reading no other
   rule's can follow; a walk tests each session at most once. *)
TestedOnce ==
    \A i, j \in DOMAIN reads : i < j =>
        /\ reads[i].why = "final" => reads[j].why = "final" /\ reads[j].for = Cash
        /\ reads[i].why = "test" /\ reads[j].why = "test" => reads[i].window[2] < reads[j].window[1]

(* The blocks of the development sessions are its thirds, none lost and none
   counted twice, and none empty. *)
BlocksCover ==
    study.kind = "compare" =>
        LET d == study.development IN
        /\ Block(d, 1)[1] = 1 /\ Block(d, 3)[2] = d
        /\ \A i \in 1..3 : Block(d, i)[1] <= Block(d, i)[2]
        /\ \A i \in 1..2 : Block(d, i + 1)[1] = Block(d, i)[2] + 1

(* A walk of a dataset that is long enough has folds to average over. *)
WalkAnswers == study.pc # "raised"

(* The candidates swept contain the settings under study, which is therefore
   registered as a trial, and can all be replayed. *)
GridHolds == \A k \in Base : k \in Neighbours(k) /\ \A c \in Neighbours(k) : Valid(c)

SelectionKept == NoPeeking /\ TestedOnce /\ BlocksCover /\ WalkAnswers /\ GridHolds

=============================================================================
