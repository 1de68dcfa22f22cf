----------------------------- MODULE StoreSchema -----------------------------
(***************************************************************************)
(* Opening an AuditStore (persistence/store.py, persistence/schema.py).    *)
(* Every process that opens the file brings it up to date first: the       *)
(* script of tables, then the columns that older files lack, one statement *)
(* at a time and each committed by itself, then the rebuild of             *)
(* quote_batches, whose copy table is committed at once and whose rows     *)
(* move in one transaction.  Processes may open, write and die meanwhile.  *)
(***************************************************************************)
EXTENDS Naturals, FiniteSets, Sequences

CONSTANTS
    Opener,     \* processes
    Columns,    \* a sequence: the columns older files lack, in the order they are added
    Batch,      \* rows of quote_batches
    None

ColumnsAssumption ==
    /\ DOMAIN Columns \subseteq Nat /\ \A i, j \in DOMAIN Columns : i # j => Columns[i] # Columns[j]
    /\ None # {}

VARIABLES
    file,       \* added columns, version and rows of quote_batches, its copy, duplicate bindings
    opener,     \* where each process is, and what it found missing
    written,    \* history: rows ever written
    dropped     \* history: a process died with its copy made and not renamed

vars == <<file, opener, written, dropped>>

Closed == [pc |-> "closed", missing |-> {}, alone |-> TRUE]

Init ==
    /\ \E old \in SUBSET Batch, duplicate \in BOOLEAN, version \in {1, 2} :
          /\ file = [columns |-> {}, version |-> version, rows |-> old, copy |-> None, duplicate |-> duplicate]
          /\ written = old
    /\ opener = [o \in Opener |-> Closed]
    /\ dropped = FALSE

Opening == {o \in Opener : opener[o].pc \notin {"closed", "open", "failed"}}

At(o, pc) == opener[o].pc = pc
Goes(o, pc) == opener' = [opener EXCEPT ![o].pc = pc]

(* The script, and the columns each table has; alone says that no other
   process was opening the file at any time since. *)
Open(o) ==
    /\ At(o, "closed")
    /\ opener' = [p \in Opener |->
          IF p = o THEN [pc |-> "columns", alone |-> Opening = {},
                         missing |-> {Columns[i] : i \in DOMAIN Columns} \ file.columns]
          ELSE IF p \in Opening THEN [opener[p] EXCEPT !.alone = FALSE] ELSE opener[p]]
    /\ UNCHANGED <<file, written, dropped>>

(* ALTER TABLE for the next one found missing: an error if it exists by now. *)
AddColumn(o) ==
    /\ At(o, "columns") /\ opener[o].missing # {}
    /\ LET i == CHOOSE i \in DOMAIN Columns :
                  /\ Columns[i] \in opener[o].missing
                  /\ \A j \in DOMAIN Columns : Columns[j] \in opener[o].missing => i <= j
       IN  IF Columns[i] \in file.columns
           THEN Goes(o, "failed") /\ UNCHANGED file
           ELSE /\ file' = [file EXCEPT !.columns = @ \cup {Columns[i]}]
                /\ opener' = [opener EXCEPT ![o].missing = @ \ {Columns[i]}]
    /\ UNCHANGED <<written, dropped>>

(* Two intents of one broker order refuse the file; then the version. *)
Inspect(o) ==
    /\ At(o, "columns") /\ opener[o].missing = {}
    /\ Goes(o, IF file.duplicate THEN "failed" ELSE IF file.version = 1 THEN "copy" ELSE "open")
    /\ UNCHANGED <<file, written, dropped>>

CreateCopy(o) ==
    /\ At(o, "copy")
    /\ IF file.copy # None THEN Goes(o, "failed") /\ UNCHANGED file
       ELSE Goes(o, "swap") /\ file' = [file EXCEPT !.copy = {}]
    /\ UNCHANGED <<written, dropped>>

(* Mutant: the old table is dropped before its rows are read. *)
Swapped == [file EXCEPT !.rows = file.copy, !.copy = None, !.version = 2]

(* Rows in, old table out, copy renamed: one transaction. *)
Rebuilt == [file EXCEPT !.rows = file.copy \cup file.rows, !.copy = None, !.version = 2]

Swap(o) ==
    /\ At(o, "swap")
    /\ file' = Rebuilt
    /\ Goes(o, "open")
    /\ UNCHANGED <<written, dropped>>

Write(o, b) ==
    /\ At(o, "open") /\ b \notin written
    /\ file' = [file EXCEPT !.rows = @ \cup {b}]
    /\ written' = written \cup {b}
    /\ UNCHANGED <<opener, dropped>>

(* Closed, or dead: an open transaction is rolled back, the rest stays. *)
End(o) ==
    /\ ~At(o, "closed")
    /\ opener' = [opener EXCEPT ![o] = Closed]
    /\ dropped' = (dropped \/ At(o, "swap"))
    /\ UNCHANGED <<file, written>>

Next == \E o \in Opener :
    \/ Open(o) \/ AddColumn(o) \/ Inspect(o) \/ CreateCopy(o) \/ Swap(o) \/ End(o)
    \/ \E b \in Batch : Write(o, b)

Spec == Init /\ [][Next]_vars

-----------------------------------------------------------------------------
(* However many processes open an old file at once, and wherever they die, no
   recorded quote batch is lost, and a file without duplicate bindings stays
   unusable only after a process died between making the copy table and
   renaming it; otherwise an opening fails for another one that ran beside it
   (persistence/schema.py:361). *)
StoreOpens ==
    /\ file.rows = written
    /\ \A o \in Opener :
          At(o, "failed") => file.duplicate \/ dropped \/ ~opener[o].alone

=============================================================================
