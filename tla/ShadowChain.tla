------------------------------ MODULE ShadowChain ------------------------------
(***************************************************************************)
(* The chain of checkpoints of a virtual session (persistence/shadow.py,   *)
(* strategy/shadow_state.py): each names the digest of the one before, in  *)
(* one table that several processes append to and read.                    *)
(*                                                                         *)
(* No digest of two contents is the same, so a checkpoint stands for its   *)
(* own digest.  Who appends is not in the source any more: writers here    *)
(* append what they hold, which may be behind the table, or ahead of it    *)
(* after an append that failed.  Rows can be lost or altered on disk.      *)
(***************************************************************************)
EXTENDS Integers, Sequences, FiniteSets, SequencesExt

CONSTANTS
    Writer,     \* processes with a virtual session
    Run,        \* runs
    MaxSeq,     \* bound: checkpoints of a run
    MaxDamage,  \* bound: rows lost or altered
    None

ChainAssumption == MaxSeq \in Nat \ {0} /\ MaxDamage \in Nat /\ None \notin Run

VARIABLES
    rows,       \* shadow_checkpoints in the order of id: columns, and the JSON
    holds,      \* the checkpoint each writer's session made last, or None
    appended,   \* history: what was committed
    damage,     \* history: how many rows were lost or altered
    answer      \* the chain the last reader was given, or None

vars == <<rows, holds, appended, damage, answer>>

Init ==
    /\ rows = <<>> /\ holds = [w \in Writer |-> None]
    /\ appended = {} /\ damage = 0 /\ answer = None

-----------------------------------------------------------------------------
(* A checkpoint by writer w: the next of run r after the one it holds. *)
Following(w, r) ==
    IF holds[w] = None \/ holds[w].run # r
    THEN [run |-> r, sequence |-> 1, previous |-> None, by |-> w]
    ELSE [run |-> r, sequence |-> holds[w].sequence + 1, previous |-> holds[w], by |-> w]

(* The columns a row is found by; those of a sound row are its checkpoint's. *)
Columns(c) == [run |-> c.run, sequence |-> c.sequence, digest |-> c]

Of(r) == {row \in Range(rows) : row.columns.run = r}
Before(row, S) == {x \in S : x.columns.sequence < row.columns.sequence}

(* ORDER BY sequence; UNIQUE(run_id,sequence) leaves no ties. *)
Ordered(S) == [i \in 1..Cardinality(S) |-> CHOOSE row \in S : Cardinality(Before(row, S)) = i - 1]
BySequence(r) == Ordered(Of(r))

(* Mutant: a checkpoint that has the next number follows. *)
NumberFollows(c) ==
    LET chain == BySequence(c.run)
    IN  IF chain = <<>> THEN c.sequence = 1 ELSE c.sequence = Last(chain).columns.sequence + 1

(* The next number, and the digest of the row before. *)
Follows(c) ==
    LET chain == BySequence(c.run)
    IN  IF chain = <<>> THEN c.sequence = 1 /\ c.previous = None
        ELSE /\ c.sequence = Last(chain).columns.sequence + 1
             /\ c.previous = Last(chain).columns.digest

(* append_shadow_checkpoint compares and inserts in one transaction; a writer
   whose append is refused or fails may go on with its session all the same. *)
AppendCheckpoint(w, r) ==
    LET c == Following(w, r)
    IN  /\ c.sequence <= MaxSeq
        /\ \/ /\ Follows(c)
              /\ rows' = rows \o <<[columns |-> Columns(c), body |-> c]>>
              /\ appended' = appended \cup {c}
           \/ UNCHANGED <<rows, appended>>
        /\ holds' = [holds EXCEPT ![w] = c]
        /\ UNCHANGED <<damage, answer>>

(* Mutant: the digest is not computed again. *)
ColumnsMatch(row) == row.columns.run = row.body.run /\ row.columns.sequence = row.body.sequence

(* _decode_shadow_checkpoint: the JSON has the digest it names, and the
   columns are the JSON's. *)
Sound(row) == row.columns = Columns(row.body)

Verified(chain) ==
    \A i \in 1..Len(chain) :
        /\ Sound(chain[i])
        /\ chain[i].body.sequence = i
        /\ chain[i].body.previous = (IF i = 1 THEN None ELSE chain[i - 1].body)

Bodies(chain) == [i \in 1..Len(chain) |-> chain[i].body]

(* latest_shadow_checkpoint: the run of the newest row, which must be its end.
   A writer that starts goes on from there. *)
Latest(w) ==
    LET latest == Last(rows)
        chain == BySequence(latest.columns.run)
    IN  /\ rows # <<>> /\ Verified(chain) /\ Last(chain) = latest
        /\ answer' = Bodies(chain)
        /\ holds' = [holds EXCEPT ![w] = latest.body]
        /\ UNCHANGED <<rows, appended, damage>>

(* shadow_checkpoints: the whole of a run. *)
Listing(r) ==
    /\ Verified(BySequence(r))
    /\ answer' = Bodies(BySequence(r))
    /\ UNCHANGED <<rows, holds, appended, damage>>

(* A reader that finds a broken chain gets an error. *)
Refused ==
    /\ \E r \in Run : ~Verified(BySequence(r))
    /\ answer # None /\ answer' = None
    /\ UNCHANGED <<rows, holds, appended, damage>>

(* A process ends; the next one has nothing in memory. *)
Restart(w) ==
    /\ holds[w] # None /\ holds' = [holds EXCEPT ![w] = None]
    /\ UNCHANGED <<rows, appended, damage, answer>>

(* A row is lost, or its JSON or its columns are altered. *)
Damage ==
    /\ damage < MaxDamage /\ damage' = damage + 1
    /\ \E i \in 1..Len(rows) :
        \/ rows' = RemoveAt(rows, i)
        \/ rows' = [rows EXCEPT ![i].body.by = None]
        \/ \E n \in (1..MaxSeq) \ {row.columns.sequence : row \in Of(rows[i].columns.run)} :
                rows' = [rows EXCEPT ![i].columns.sequence = n]
    /\ UNCHANGED <<holds, appended, answer>>

Next ==
    \/ \E w \in Writer : Latest(w) \/ Restart(w) \/ \E r \in Run : AppendCheckpoint(w, r)
    \/ \E r \in Run : Listing(r)
    \/ Refused \/ Damage

Spec == Init /\ [][Next]_vars

-----------------------------------------------------------------------------
(* Two processes with the same run, or one that went on after a failed append,
   never fork or break its chain: of an undamaged table every run reads. *)
ChainsHold == damage = 0 => \A r \in Run : Verified(BySequence(r))

(* What a reader is given was committed, from the first checkpoint on and in
   order, whatever rows were lost or altered meanwhile. *)
ReadAsRecorded ==
    answer # None =>
        \A i \in 1..Len(answer) :
            /\ answer[i] \in appended /\ answer[i].sequence = i
            /\ answer[i].previous = (IF i = 1 THEN None ELSE answer[i - 1])

ChainKept == ChainsHold /\ ReadAsRecorded

=============================================================================
