------------------------------ MODULE OrderFate ------------------------------
(***************************************************************************)
(* What the mixed execution path promises about orders, with nothing said  *)
(* of databases, leases, queues or crashes: one ticket of the account at a *)
(* time, each handed to the provider at most once, and the next ticket     *)
(* only after this one was withdrawn unsent or is finished at the provider *)
(* (docs/ARCHITECTURE.md, "Order lifecycle": "An uncertain placement       *)
(* remains unresolved; it is never blindly retried").                      *)
(***************************************************************************)
CONSTANTS Ref, NoTicket

VARIABLES
    ticket,     \* the ticket in progress, or NoTicket
    taken,      \* every reference that was ever a ticket
    sent,       \* references handed to the provider
    finished    \* references whose order can change no more at the provider

fateVars == <<ticket, taken, sent, finished>>

Init ==
    /\ ticket = NoTicket
    /\ taken = {}
    /\ sent = {}
    /\ finished = {}

Take(r) ==
    /\ ticket = NoTicket
    /\ r \notin taken
    /\ ticket' = r
    /\ taken' = taken \cup {r}
    /\ UNCHANGED <<sent, finished>>

Send(r) ==
    /\ ticket = r
    /\ r \notin sent
    /\ sent' = sent \cup {r}
    /\ UNCHANGED <<ticket, taken, finished>>

Finish(r) ==
    /\ r \in sent \ finished
    /\ finished' = finished \cup {r}
    /\ UNCHANGED <<ticket, taken, sent>>

Resolve(r) ==
    /\ ticket = r
    /\ r \notin sent \/ r \in finished
    /\ ticket' = NoTicket
    /\ UNCHANGED <<taken, sent, finished>>

Next == \E r \in Ref : Take(r) \/ Send(r) \/ Finish(r) \/ Resolve(r)

Spec == Init /\ [][Next]_fateVars
=============================================================================
