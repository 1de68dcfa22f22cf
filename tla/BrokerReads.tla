----------------------------- MODULE BrokerReads ------------------------------
(***************************************************************************)
(* A listing of the broker, read page by page while the broker goes on:    *)
(* positions and orders (broker/robinhood_mcp.py), crypto rows             *)
(* (broker/crypto.py) and discovery (broker/discovery.py) walk their pages *)
(* in the same way.  Rows come newest first and a new one moves the others *)
(* towards the end, so a page may show again what an earlier one showed.   *)
(* A row does not go away while a listing is read: an order stays in the   *)
(* history, and of a position this is assumed.  The engine takes what a    *)
(* listing returns for the whole truth.                                    *)
(***************************************************************************)
EXTENDS Integers, Sequences, FiniteSets, SequencesExt

CONSTANTS
    Item,       \* order ids, or the symbols of positions
    PageSize,   \* rows of a page; the broker's choice
    MaxPages,   \* the bound of the loop: 100, or 10 for discovery
    None

ReadsAssumption == PageSize \in Nat \ {0} /\ MaxPages \in Nat \ {0} /\ None \notin Nat

VARIABLES
    list,       \* the broker's rows
    bad,        \* items whose row lacks a required field or contradicts itself
    read,       \* the listing under way; None when there is none
    result      \* what the last listing gave: its rows, and the rows there when it began

vars == <<list, bad, read, result>>

Init ==
    /\ list \in {<<>>} \cup {<<i>> : i \in Item}
    /\ bad \in {{}} \cup {{i} : i \in Item}
    /\ read = None /\ result = None

Begin ==
    /\ read = None
    /\ read' = [rows |-> <<>>, cursor |-> 0, seen |-> {}, pages |-> 0, before |-> Range(list)]
    /\ result' = None
    /\ UNCHANGED <<list, bad>>

PageAt(cursor) == SubSeq(list, cursor + 1, Min({cursor + PageSize, Len(list)}))

(* The cursor the page names: the next rows', or by a fault of the broker
   one that was given before. *)
Following ==
    LET next == read.cursor + PageSize
    IN  (IF next < Len(list) THEN {next} ELSE {None}) \cup read.seen

(* _next_cursor and the loop: a cursor met before ends in an error, and so
   does a listing that never ends. *)
Refused(cursor) == cursor \in read.seen \/ read.pages + 1 = MaxPages

(* Each row has its fields, and they agree with one another. *)
Parses(rows) == \A i \in 1..Len(rows) : rows[i] \notin bad

(* Mutant: a row met twice is no error. *)
RepeatsPass(rows) == Parses(rows)

(* Every row parses and no identity comes twice. *)
Accepts(rows) ==
    /\ Parses(rows)
    /\ \A i, j \in 1..Len(rows) : rows[i] = rows[j] => i = j

Failed == read' = None /\ result' = None

(* One page: more to come, or the parsed whole. *)
ReadPage ==
    /\ read # None
    /\ \E cursor \in Following :
        LET rows == read.rows \o PageAt(read.cursor)
        IN  CASE cursor = None ->
                   IF Accepts(rows)
                   THEN read' = None /\ result' = [rows |-> rows, before |-> read.before]
                   ELSE Failed
              [] cursor # None /\ Refused(cursor) -> Failed
              [] OTHER ->
                   /\ read' = [read EXCEPT !.rows = rows, !.cursor = cursor,
                                           !.seen = @ \cup {cursor}, !.pages = @ + 1]
                   /\ UNCHANGED result
    /\ UNCHANGED <<list, bad>>

(* A call that fails ends the whole listing. *)
CallFails == read # None /\ Failed /\ UNCHANGED <<list, bad>>

Arrives ==
    /\ \E i \in Item \ Range(list) : list' = <<i>> \o list
    /\ UNCHANGED <<bad, read, result>>

Next == Begin \/ ReadPage \/ CallFails \/ Arrives

Spec == Init /\ [][Next]_vars

-----------------------------------------------------------------------------
(* What a listing returns shows every item once and lacks none that was there
   when it began, although its pages are of different instants. *)
ListingWhole ==
    result # None =>
        /\ Cardinality(Range(result.rows)) = Len(result.rows)
        /\ result.before \subseteq Range(result.rows)
        /\ Range(result.rows) \cap bad = {}

=============================================================================
