----------------------------- MODULE AgentBridge -----------------------------
(***************************************************************************)
(* The research mailbox (research/agent_bridge.py): a SQLite file through  *)
(* which stdio processes send commands to the one process that owns the    *)
(* research desk.  A request is a row; its sender waits for an answer in   *)
(* it, until the request expires or the session of the mailbox changes.    *)
(*                                                                         *)
(* Owner operations are operators for the owner's module to compose with   *)
(* its own state.  A poll is one transaction on one thread: no other write *)
(* and nothing else of the owner happens between its steps, but a crash    *)
(* can.  Any transaction may fail on a locked or damaged file.             *)
(***************************************************************************)
EXTENDS Naturals, FiniteSets

CONSTANTS
    Request,    \* requests, each sent once under an identity of its own
    Sessions,   \* bound: how often the mailbox is enabled
    MaxPending, \* unanswered rows the mailbox takes (MAX_PENDING)
    Batch       \* rows one poll answers at most

ASSUME SessionsAssumption == Sessions \in Nat
ASSUME MaxPendingAssumption == MaxPending \in Nat \ {0}
ASSUME BatchAssumption == Batch \in Nat \ {0}

VARIABLES
    bridge,     \* the owner's token, in memory; 0 when disabled
    session,    \* the token in the file; 0 without a row
    beating,    \* its heartbeat is at most LEASE_SECONDS old
    rows,       \* each request's row
    joined,     \* the token under which a request was written
    aged,       \* requests written more than REQUEST_SECONDS ago
    sender,     \* what each request's sender knows
    poll,       \* the owner's open transaction
    minted,     \* tokens made so far
    handled     \* history: how often each request was handled

file == <<session, beating, rows>>
senders == <<joined, aged, sender>>
mailbox == <<bridge, file, senders, poll, minted, handled>>

NoPoll == [open |-> FALSE, due |-> {}, answered |-> {}]

BridgeInit ==
    /\ bridge = 0 /\ session = 0 /\ beating = FALSE
    /\ rows = [q \in Request |-> "absent"]
    /\ joined = [q \in Request |-> 0]
    /\ aged = {}
    /\ sender = [q \in Request |-> "new"]
    /\ poll = NoPoll
    /\ minted = 0
    /\ handled = [q \in Request |-> 0]

BridgeTypeOK ==
    /\ minted \in 0..Sessions
    /\ bridge \in 0..minted /\ session \in 0..minted
    /\ beating \in BOOLEAN
    /\ rows \in [Request -> {"absent", "queued", "answered"}]
    /\ joined \in [Request -> 0..minted]
    /\ aged \subseteq Request
    /\ sender \in [Request -> {"new", "waiting", "returned", "off", "discarded", "expired", "gone"}]
    /\ poll \in [open : BOOLEAN, due : SUBSET Request, answered : SUBSET Request]
    /\ handled \in [Request -> Nat]

-----------------------------------------------------------------------------
(* The senders: request() *)

(* _active: there is a session and its owner was heard of lately. *)
Active == session # 0 /\ beating

Queued == {q \in Request : rows[q] = "queued" /\ q \notin aged}

(* Expired rows are deleted first; a full or inactive mailbox refuses. *)
Post(q) ==
    /\ sender[q] = "new"
    /\ ~poll.open
    /\ Active
    /\ Cardinality(Queued) < MaxPending
    /\ rows' = [p \in Request |-> IF p = q THEN "queued" ELSE IF p \in aged THEN "absent" ELSE rows[p]]
    /\ joined' = [joined EXCEPT ![q] = session]
    /\ sender' = [sender EXCEPT ![q] = "waiting"]
    /\ UNCHANGED <<bridge, session, beating, aged, poll, minted, handled>>

(* The sender leaves with what it knows.  Its finally clause deletes the row,
   if the file can be written. *)
Leave(q, outcome) ==
    /\ sender[q] = "waiting"
    /\ sender' = [sender EXCEPT ![q] = outcome]
    /\ \/ ~poll.open /\ rows' = [rows EXCEPT ![q] = "absent"]
       \/ UNCHANGED rows
    /\ UNCHANGED <<bridge, session, beating, joined, aged, poll, minted, handled>>

(* Five seconds without a poll, or no session any more. *)
FindOff(q) == ~Active /\ Leave(q, "off")

(* "Research MCP permission was revoked; request discarded" *)
FindDiscarded(q) == Active /\ session # joined[q] /\ Leave(q, "discarded")

FindAnswer(q) == Active /\ session = joined[q] /\ rows[q] = "answered" /\ Leave(q, "returned")

(* REQUEST_SECONDS are over for the sender, who wrote the row before it
   began to count them. *)
Expire(q) == q \in aged /\ Leave(q, "expired")

(* The client cancels the call, or its process dies. *)
Abandon(q) == Leave(q, "gone")

Age(q) ==
    /\ sender[q] # "new" /\ q \notin aged
    /\ aged' = aged \cup {q}
    /\ UNCHANGED <<bridge, file, joined, sender, poll, minted, handled>>

HeartbeatLapses ==
    /\ beating /\ beating' = FALSE
    /\ UNCHANGED <<bridge, session, rows, senders, poll, minted, handled>>

Sender(q) ==
    \/ Post(q) \/ FindOff(q) \/ FindDiscarded(q) \/ FindAnswer(q)
    \/ Expire(q) \/ Abandon(q) \/ Age(q)

-----------------------------------------------------------------------------
(* The owner: enable(), disable(), poll() *)

(* A new session; whatever an older one left in the file is deleted. *)
EnableBridge ==
    /\ minted < Sessions
    /\ minted' = minted + 1
    /\ bridge' = minted + 1 /\ session' = minted + 1 /\ beating' = TRUE
    /\ rows' = [q \in Request |-> "absent"]
    /\ UNCHANGED <<senders, poll, handled>>

(* The token is gone at once; the rows of its session only if the file can be
   written. *)
DisableBridge ==
    /\ bridge' = 0
    /\ \/ /\ session' = IF session = bridge THEN 0 ELSE session
          /\ rows' = [q \in Request |-> IF joined[q] = bridge THEN "absent" ELSE rows[q]]
       \/ UNCHANGED <<session, rows>>
    /\ UNCHANGED <<beating, senders, minted, handled>>

(* The session is still the owner's: a batch of its requests is read, without
   those that expired.  Which ones are the oldest is not modelled. *)
BeginPoll ==
    /\ bridge # 0 /\ session = bridge
    /\ LET waiting == {q \in Queued : joined[q] = bridge} IN
         \E S \in SUBSET waiting :
            /\ Cardinality(S) = Batch \/ (Cardinality(S) < Batch /\ S = waiting)
            /\ poll' = [open |-> TRUE, due |-> S, answered |-> {}]
    /\ UNCHANGED <<bridge, file, senders, minted, handled>>

(* The handler has run for a request; its answer is written but not
   committed. *)
Handled(q) ==
    /\ poll.open /\ q \in poll.due
    /\ poll' = [poll EXCEPT !.due = @ \ {q}, !.answered = @ \cup {q}]
    /\ handled' = [handled EXCEPT ![q] = @ + 1]
    /\ UNCHANGED <<bridge, file, senders, minted>>

CommitPoll ==
    /\ poll.open /\ poll.due = {}
    /\ rows' = [q \in Request |-> IF q \in poll.answered THEN "answered"
                                  ELSE IF q \in aged THEN "absent" ELSE rows[q]]
    /\ beating' = TRUE
    /\ poll' = NoPoll
    /\ UNCHANGED <<bridge, session, senders, minted, handled>>

=============================================================================
