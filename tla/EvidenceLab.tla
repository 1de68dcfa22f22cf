----------------------------- MODULE EvidenceLab -----------------------------
(***************************************************************************)
(* The evidence lab (research/research_service.py) over its tables         *)
(* (persistence/research_holdouts.py, research_evidence.py): trials,       *)
(* sealed holdouts and promotions.  Each lab is one run of                 *)
(* run_evidence_lab in a process of its own, the desktop's or a command's; *)
(* labs share the database and may die between any two commits.            *)
(*                                                                         *)
(* Certified is RUNTIME_SIZING_PARITY_CERTIFIED.  With FALSE, which the    *)
(* parity assessment yields at present, no candidate becomes eligible; the *)
(* guarantees have to hold when it becomes TRUE.                           *)
(***************************************************************************)
EXTENDS Naturals, Sequences

CONSTANTS
    Lab,
    Bundle,         \* historical datasets that may be handed to a lab
    Fingerprint,    \* candidate configurations
    Grid,           \* candidate_grid: each one with its neighbours
    Certified,
    None

(* sealed: its provenance and quality allow a holdout to be reserved;
   clean: the holdout part taken alone is of full quality. *)
BundleAssumption ==
    /\ Certified \in BOOLEAN
    /\ \A c \in Fingerprint : c \in Grid[c] /\ Grid[c] \subseteq Fingerprint
    /\ \A b \in Bundle : /\ b.start \in Nat /\ b.end \in Nat /\ b.start < b.end
                         /\ b.sealed \in BOOLEAN /\ b.clean \in BOOLEAN

VARIABLES
    trials,         \* table research_trials: a set of dataset and candidate
    holdouts,       \* table research_holdouts, in the order of its ids
    promotions,     \* table research_promotions
    lab,            \* the local state of each run
    evaluations     \* every time sealed data was read, with the candidate

vars == <<trials, holdouts, promotions, lab, evaluations>>

Idle == [pc |-> "idle", bundle |-> None, candidate |-> None, holdout |-> 0,
         judged |-> FALSE, passed |-> FALSE]

Init ==
    /\ trials = {} /\ holdouts = <<>> /\ promotions = {} /\ evaluations = <<>>
    /\ lab = [l \in Lab |-> Idle]

Goto(l, pc) == lab' = [lab EXCEPT ![l].pc = pc]
End(l) == lab' = [lab EXCEPT ![l] = Idle]

-----------------------------------------------------------------------------
(* The holdouts table *)

(* Mutant: only an overlap is refused, not an earlier block. *)
BlocksOverlapOnly(row, b) == b.start <= row.bundle.end /\ b.end >= row.bundle.start

(* An older row forbids a new block that shares a date with it or is not
   entirely later. *)
Blocks(row, b) == b.start <= row.bundle.end

Reserved(row, b) == row.bundle = b /\ row.status = "RESERVED"

(* reserve_research_holdout reads the rows in order: the exact block still
   reserved is handed out again unless an earlier row forbids it. *)
Reusable(b) ==
    {id \in DOMAIN holdouts :
        Reserved(holdouts[id], b) /\ \A older \in 1..id - 1 : ~Blocks(holdouts[older], b)}

MayReserve(b) == \A id \in DOMAIN holdouts : ~Blocks(holdouts[id], b)

NewRow(b) == [bundle |-> b, status |-> "RESERVED", candidate |-> None, passed |-> FALSE]

SetStatus(id, status) == holdouts' = [holdouts EXCEPT ![id].status = status]

Active == {"RESERVED", "FROZEN", "EVALUATING"}

(* Mutant: a failed lab gives its block back. *)
InvalidateReleases(id) ==
    holdouts' = [holdouts EXCEPT ![id].status = IF @ \in Active THEN "RESERVED" ELSE @]

(* invalidate_research_holdout: a consumed block stays consumed. *)
Invalidate(id) ==
    holdouts' = [holdouts EXCEPT ![id].status = IF @ \in Active THEN "INVALID" ELSE @]

-----------------------------------------------------------------------------
(* run_evidence_lab *)

Begin(l, b, c) ==
    lab' = [lab EXCEPT ![l] = [Idle EXCEPT !.bundle = b, !.candidate = c, !.pc = "developing"]]

(* A dataset without provenance or of lower quality is studied unsealed. *)
StartUnsealed(l) ==
    /\ lab[l].pc = "idle"
    /\ \E b \in Bundle, c \in Fingerprint : ~b.sealed /\ Begin(l, b, c)
    /\ UNCHANGED <<trials, holdouts, promotions, evaluations>>

BeginSealed(l, b, c, id) ==
    lab' = [lab EXCEPT ![l] =
              [Idle EXCEPT !.bundle = b, !.candidate = c, !.holdout = id,
                           !.pc = IF b.clean THEN "developing" ELSE "invalidating"]]

Reserve(l) ==
    /\ lab[l].pc = "idle"
    /\ \E b \in Bundle, c \in Fingerprint :
          /\ b.sealed
          /\ \/ /\ Reusable(b) # {}
                /\ \E id \in Reusable(b) : BeginSealed(l, b, c, id)
                /\ UNCHANGED holdouts
             \/ /\ Reusable(b) = {} /\ MayReserve(b)
                /\ holdouts' = Append(holdouts, NewRow(b))
                /\ BeginSealed(l, b, c, Len(holdouts) + 1)
    /\ UNCHANGED <<trials, promotions, evaluations>>

(* A holdout block of poor quality is given up before it is looked at. *)
InvalidateUnclean(l) ==
    /\ lab[l].pc = "invalidating"
    /\ Invalidate(lab[l].holdout)
    /\ Goto(l, "developing")
    /\ UNCHANGED <<trials, promotions, evaluations>>

(* The sweep registers every candidate of the grid before any verdict. *)
RecordTrials(l) ==
    /\ lab[l].pc = "developing"
    /\ trials' = trials \cup {<<lab[l].bundle, c>> : c \in Grid[lab[l].candidate]}
    /\ Goto(l, "sweeping")
    /\ UNCHANGED <<holdouts, promotions, evaluations>>

(* The first report decides whether the holdout may be opened. *)
Judge(l) ==
    /\ lab[l].pc = "sweeping"
    /\ \E good \in BOOLEAN :
          lab' = [lab EXCEPT ![l].judged = good,
                             ![l].pc = IF good /\ lab[l].holdout # 0 /\ lab[l].bundle.clean
                                       THEN "freezing" ELSE "reporting"]
    /\ UNCHANGED <<trials, holdouts, promotions, evaluations>>

(* freeze_research_holdout *)
Freeze(l) ==
    LET id == lab[l].holdout IN
    /\ lab[l].pc = "freezing"
    /\ holdouts[id].status = "RESERVED"
    /\ holdouts' = [holdouts EXCEPT ![id].status = "FROZEN", ![id].candidate = lab[l].candidate]
    /\ Goto(l, "claiming")
    /\ UNCHANGED <<trials, promotions, evaluations>>

Owns(l, status) ==
    /\ holdouts[lab[l].holdout].status = status
    /\ holdouts[lab[l].holdout].candidate = lab[l].candidate

(* Mutant: the block stays frozen while it is being evaluated. *)
ClaimWithoutMark(l) ==
    /\ lab[l].pc = "claiming"
    /\ Owns(l, "FROZEN")
    /\ Goto(l, "evaluating")
    /\ UNCHANGED <<trials, holdouts, promotions, evaluations>>

(* claim_research_holdout *)
Claim(l) ==
    /\ lab[l].pc = "claiming"
    /\ Owns(l, "FROZEN")
    /\ SetStatus(lab[l].holdout, "EVALUATING")
    /\ Goto(l, "evaluating")
    /\ UNCHANGED <<trials, promotions, evaluations>>

(* The replay of the sealed block at three times the modelled costs. *)
Evaluate(l) ==
    /\ lab[l].pc = "evaluating"
    /\ evaluations' = Append(evaluations, [holdout |-> lab[l].holdout, candidate |-> lab[l].candidate])
    /\ \E good \in BOOLEAN :
          lab' = [lab EXCEPT ![l].passed = good, ![l].pc = "consuming"]
    /\ UNCHANGED <<trials, holdouts, promotions>>

(* consume_research_holdout *)
Consume(l) ==
    LET id == lab[l].holdout IN
    /\ lab[l].pc = "consuming"
    /\ Owns(l, "EVALUATING")
    /\ holdouts' = [holdouts EXCEPT ![id].status = "CONSUMED", ![id].passed = lab[l].passed]
    /\ Goto(l, "reporting")
    /\ UNCHANGED <<trials, promotions, evaluations>>

(* The guarded update found no such row: another lab moved the block on. *)
Refused(l) ==
    \/ lab[l].pc = "freezing" /\ holdouts[lab[l].holdout].status # "RESERVED"
    \/ lab[l].pc = "claiming" /\ ~Owns(l, "FROZEN")
    \/ lab[l].pc = "consuming" /\ ~Owns(l, "EVALUATING")

(* An exception of the store, a replay or a report inside the try block. *)
Fail(l) ==
    /\ \/ lab[l].pc \in {"developing", "sweeping", "evaluating", "reporting"}
       \/ Refused(l)
    /\ IF lab[l].holdout = 0 THEN End(l) ELSE Goto(l, "failing")
    /\ UNCHANGED <<trials, holdouts, promotions, evaluations>>

InvalidateFailed(l) ==
    /\ lab[l].pc = "failing"
    /\ Invalidate(lab[l].holdout)
    /\ End(l)
    /\ UNCHANGED <<trials, promotions, evaluations>>

-----------------------------------------------------------------------------
(* The second report, and record_research_promotion *)

Opened(l) == lab[l].judged /\ lab[l].holdout # 0 /\ lab[l].bundle.clean

(* The gates are judged again, the age of the data among them; every one has
   to pass, the holdout's own included. *)
Report(l) ==
    /\ lab[l].pc = "reporting"
    /\ \E eligible \in {FALSE, Opened(l) /\ lab[l].passed /\ Certified} :
          Goto(l, IF eligible THEN "certifying" ELSE "recording")
    /\ UNCHANGED <<trials, holdouts, promotions, evaluations>>

PromotionOf(l, status) ==
    [candidate |-> lab[l].candidate, bundle |-> lab[l].bundle, status |-> status,
     holdout |-> IF Opened(l) THEN lab[l].holdout ELSE 0]

Promoted(id) == \E p \in promotions : p.holdout = id

(* Mutant: the holdout behind a certificate is not looked up. *)
BackedByReport(l) == lab[l].passed

(* The storage boundary repeats the checks of the report on its own rows. *)
Backed(l) ==
    LET id == lab[l].holdout IN
    /\ Certified
    /\ Owns(l, "CONSUMED")
    /\ holdouts[id].bundle = lab[l].bundle
    /\ holdouts[id].passed
    /\ ~Promoted(id)

Certify(l) ==
    /\ lab[l].pc = "certifying"
    /\ IF Backed(l) THEN Goto(l, "inserting") ELSE End(l)
    /\ UNCHANGED <<trials, holdouts, promotions, evaluations>>

(* One row per holdout: a unique index refuses a second. *)
Insert(l) ==
    /\ lab[l].pc \in {"recording", "inserting"}
    /\ LET p == PromotionOf(l, IF lab[l].pc = "inserting" THEN "LIVE_REVIEW_ELIGIBLE" ELSE "SHADOW_ONLY")
       IN  promotions' = IF p.holdout # 0 /\ Promoted(p.holdout) THEN promotions
                         ELSE promotions \cup {p}
    /\ End(l)
    /\ UNCHANGED <<trials, holdouts, evaluations>>

(* The process dies; its block stays in the status it had. *)
Crash(l) ==
    /\ lab[l].pc # "idle"
    /\ End(l)
    /\ UNCHANGED <<trials, holdouts, promotions, evaluations>>

Step(l) ==
    \/ StartUnsealed(l) \/ Reserve(l) \/ InvalidateUnclean(l)
    \/ RecordTrials(l) \/ Judge(l)
    \/ Freeze(l) \/ Claim(l) \/ Evaluate(l) \/ Consume(l)
    \/ Fail(l) \/ InvalidateFailed(l)
    \/ Report(l) \/ Certify(l) \/ Insert(l)
    \/ Crash(l)

Next == \E l \in Lab : Step(l)

Spec == Init /\ [][Next]_vars

(* current_live_evidence: the eligible rows of a candidate that their
   consumed holdouts still support. *)
LiveEvidence(c) ==
    {p \in promotions :
        /\ Certified
        /\ p.candidate = c /\ p.status = "LIVE_REVIEW_ELIGIBLE"
        /\ holdouts[p.holdout].status = "CONSUMED"
        /\ holdouts[p.holdout].candidate = c
        /\ holdouts[p.holdout].bundle = p.bundle
        /\ holdouts[p.holdout].passed}

-----------------------------------------------------------------------------
(* Properties *)

Overlap(a, b) == a.start <= b.end /\ b.start <= a.end

(* Sealed data is looked at once: no two evaluations, by whichever labs, in
   whatever order and with whatever crashes, read blocks that share a date,
   and each one tests the candidate frozen for its block
   (research_holdouts.py claim_research_holdout). *)
SealedOnce ==
    \A i, j \in DOMAIN evaluations :
        LET a == evaluations[i] IN
        /\ holdouts[a.holdout].candidate = a.candidate
        /\ i # j => ~Overlap(holdouts[a.holdout].bundle, holdouts[evaluations[j].holdout].bundle)

(* Blocks are sealed in the order of time: a later row never reaches back
   before an older one, so no candidate is tuned on what tests it later. *)
SealedLater ==
    \A i, j \in DOMAIN holdouts : i < j => holdouts[i].bundle.end < holdouts[j].bundle.start

(* Evidence for live review was earned: its block was read for exactly this
   candidate, the candidate had been registered as a trial of that dataset,
   and no other promotion rests on the same block
   (research_evidence.py record_research_promotion). *)
EvidenceEarned ==
    \A p \in promotions : p.status = "LIVE_REVIEW_ELIGIBLE" =>
        /\ \E i \in DOMAIN evaluations :
              evaluations[i] = [holdout |-> p.holdout, candidate |-> p.candidate]
        /\ <<p.bundle, p.candidate>> \in trials
        /\ p \in LiveEvidence(p.candidate)
        /\ \A q \in promotions : q.holdout = p.holdout => q = p

=============================================================================
