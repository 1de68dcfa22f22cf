--------------------------- MODULE MCResearchHost ---------------------------
(* A small instance of the worker's parts. *)
EXTENDS WorkerParts, TLC

(* One order intent, two previews of it on two connections; an account whose
   crypto number may change under it. *)
Accounts == {[rhs |-> 1, rhc |-> 1], [rhs |-> 1, rhc |-> 2]}

(* The buttons of one behaviour: a session approved and stopped, or left; a
   connection, or a paper session, begun and left. *)
Buttons == {{"review", "start", "stop"}, {"review", "start", "exit"}, {"connect", "exit"}, {"paper", "stop"}}

Interchangeable == Permutations(Client) \cup Permutations(Request)

=============================================================================
