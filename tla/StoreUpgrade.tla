----------------------------- MODULE StoreUpgrade -----------------------------
(***************************************************************************)
(* The import of an older version's execution journal into the shared      *)
(* store (persistence/upgrade.py), the command that holds the worker's     *)
(* application lock for it (interfaces/cli/config_cli.py,                  *)
(* execution/process_lock.py), and the check a ledger makes before it      *)
(* opens the shared tables (execution/equity_ledger.py).  The four tables  *)
(* are one set of rows; a digest is the set itself.                        *)
(***************************************************************************)
EXTENDS Naturals, FiniteSets

CONSTANTS
    Row,        \* execution records
    None

VARIABLES
    legacy,     \* the older journal's rows; None when there is no such file
    target,     \* shared tables, upgrade marker
    copy,       \* the upgrade's open transactions: both databases are write-locked
    lock,       \* who holds app.lock
    ledger,     \* the worker has the shared ledger open
    recorded    \* history: rows the worker recorded itself

vars == <<legacy, target, copy, lock, ledger, recorded>>

Idle == [on |-> FALSE, digest |-> {}, step |-> "none"]

Init ==
    /\ legacy \in {None} \cup SUBSET Row
    /\ target = [rows |-> {}, marker |-> None]
    /\ copy = Idle /\ lock = None /\ ledger = FALSE /\ recorded = {}

(* ProcessLock.acquire without a timeout; it ends with its process. *)
Acquire(who) == lock = None /\ lock' = who

(* The older version, where it still runs, goes on with its own journal. *)
OldRecords(r) ==
    /\ ~copy.on
    /\ legacy' = IF legacy = None THEN {r} ELSE legacy \cup {r}
    /\ r \notin target.rows
    /\ UNCHANGED <<target, copy, lock, ledger, recorded>>

(* Both journals exist and are locked; an earlier import answers for itself
   if nothing has changed since, and for nothing else. *)
BeginUpgrade ==
    /\ legacy # None
    /\ Acquire("upgrade")
    /\ copy' = [on |-> TRUE, digest |-> legacy,
                step |-> IF target.marker = None THEN "backup" ELSE "answer"]
    /\ UNCHANGED <<legacy, target, ledger, recorded>>

(* The committed manifest, or "changed after upgrade": nothing is written. *)
Answer ==
    /\ copy.step = "answer"
    /\ copy' = Idle /\ lock' = None
    /\ UNCHANGED <<legacy, target, ledger, recorded>>

(* Snapshots of both files, each checked. *)
Backup ==
    /\ copy.step = "backup"
    /\ copy' = [copy EXCEPT !.step = "import"]
    /\ UNCHANGED <<legacy, target, lock, ledger, recorded>>

(* Even identical rows are refused: which journal is right is not decided. *)
Importable == target.rows = {}

(* The rows and the marker, in one transaction. *)
Import ==
    /\ copy.step = "import"
    /\ Importable
    /\ target' = [rows |-> target.rows \cup copy.digest, marker |-> copy.digest]
    /\ copy' = Idle /\ lock' = None
    /\ UNCHANGED <<legacy, ledger, recorded>>

(* Any error, or the end of the process: both are rolled back. *)
UpgradeFails ==
    /\ copy.on
    /\ copy' = Idle /\ lock' = None
    /\ UNCHANGED <<legacy, target, ledger, recorded>>

(* Mutant: any marker will do. *)
MayOpenMarked == legacy = None \/ target.marker # None

(* require_upgraded_legacy *)
MayOpen == legacy = None \/ (target.marker # None /\ target.marker = legacy)

WorkerOpens ==
    /\ Acquire("worker")
    /\ ledger' = MayOpen
    /\ UNCHANGED <<legacy, target, copy, recorded>>

WorkerRecords(r) ==
    /\ ledger /\ ~copy.on
    /\ r \notin target.rows /\ (legacy # None => r \notin legacy)
    /\ target' = [target EXCEPT !.rows = @ \cup {r}]
    /\ recorded' = recorded \cup {r}
    /\ UNCHANGED <<legacy, copy, lock, ledger>>

WorkerEnds ==
    /\ lock = "worker"
    /\ ledger' = FALSE /\ lock' = None
    /\ UNCHANGED <<legacy, target, copy, recorded>>

Next ==
    \/ \E r \in Row : OldRecords(r) \/ WorkerRecords(r)
    \/ BeginUpgrade \/ Answer \/ Backup \/ Import \/ UpgradeFails
    \/ WorkerOpens \/ WorkerEnds

Spec == Init /\ [][Next]_vars

-----------------------------------------------------------------------------
(* A worker never opens the shared ledger beside older records that it does
   not hold, and every shared record has one origin, whatever was interrupted
   and whichever version ran in between (persistence/upgrade.py:20). *)
OneJournal ==
    /\ [](target.rows = recorded \cup (IF target.marker = None THEN {} ELSE target.marker)
          /\ (target.marker # None => target.marker \cap recorded = {}))
    /\ [][ledger' /\ ~ledger /\ legacy # None => legacy \subseteq target.rows]_vars

=============================================================================
