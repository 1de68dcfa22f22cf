------------------------- MODULE WorkerPartsProofs -------------------------
(* What holds of a worker's parts for any number of commands, processes,
   connections, orders, pages and buttons: part by part, and of all of them. *)
EXTENDS WorkerParts, FiniteSetTheorems, SequenceTheorems, TLAPS

(* The parts count with the same operator. *)
LEMMA Counts ==
    ASSUME NEW S
    PROVE  /\ Runtime!Cardinality(S) = Cardinality(S)
           /\ Crypto!Cardinality(S) = Cardinality(S)
           /\ Reads!Cardinality(S) = Cardinality(S)
  BY DEF Runtime!Cardinality, Crypto!Cardinality, Reads!Cardinality, Cardinality

-----------------------------------------------------------------------------
(* ResearchHost: research beside trading.  No research while the engine
   trades, and every request of the mailbox handled at most once.

   Neither holds by itself.  A runner starts to trade long after it has
   stopped research, so the invariant says what its wait preserves: as long
   as the record still allows it, nothing can bring research back.  And a
   request is not polled twice because of what its row and its session say
   when a poll has failed or a process has died half way. *)

(* The runner's session is the one on record. *)
SessionCurrent == control.running /\ control.generation = actor[Runner].generation

RunnerPast(steps) == actor[Runner].pc \in steps /\ SessionCurrent

(* A runner that has stopped research and may still trade, or trades. *)
Yielding == Trading \/ RunnerPast({"polling", "joining", "ready", "connecting"})

(* Then the mailbox is shut, no pending command may open it, and the last
   research run is on its way out, or out. *)
ResearchStopped ==
    /\ Yielding => /\ bridge = 0
                   /\ \A c \in Client : actor[c].op = "enable" => ~actor[c].current
    /\ RunnerPast({"polling", "joining"}) => agent # "running"
    /\ RunnerPast({"joining"}) => actor[Runner].joins = runs
    /\ Trading \/ RunnerPast({"ready", "connecting"}) => agent = "idle"

(* Between polls there is nothing of one; during one its session is valid and
   nothing it has read was handled before, until it is answered. *)
PollConsistent ==
    /\ ~poll.open => poll = NoPoll
    /\ poll.open => bridge # 0 /\ session = bridge
    /\ \A q \in poll.due : /\ joined[q] = bridge /\ handled[q] = 0
                           /\ sender[q] # "new"
    /\ \A q \in poll.answered : handled[q] # 0

(* A request that was handled and has no answer in its row is answered in the
   open poll, or belongs to a session that is over. *)
HandledIsOver ==
    \A q \in Request :
        handled[q] # 0 /\ rows[q] = "queued" =>
            bridge = 0 \/ joined[q] # bridge \/ q \in poll.answered

(* A request has a session once it is sent, and none again once its sender
   was told that it is discarded. *)
SendersKnow ==
    \A q \in Request :
        /\ sender[q] = "new" => rows[q] = "absent" /\ handled[q] = 0
        /\ sender[q] # "new" => joined[q] # 0
        /\ sender[q] = "discarded" => joined[q] # session

MailboxInv == BridgeTypeOK /\ PollConsistent /\ HandledIsOver /\ SendersKnow

HostInv == TypeOK /\ MailboxInv /\ ResearchStopped

-----------------------------------------------------------------------------
(* The mailbox by itself: what a step of the worker does to it *)

MailboxStep ==
    \/ \E q \in Request : Sender(q) \/ Handled(q)
    \/ HeartbeatLapses
    \/ EnableBridge /\ ~poll.open
    \/ DisableBridge /\ ((~poll.open /\ poll' = poll) \/ poll' = NoPoll)
    \/ BeginPoll /\ ~poll.open
    \/ CommitPoll
    \/ bridge' = 0 /\ poll' = NoPoll /\ UNCHANGED <<file, senders, minted, handled>>
    \/ UNCHANGED mailbox

LEMMA StepsOfTheMailbox == [Next]_vars => MailboxStep
<1> SUFFICES ASSUME [Next]_vars PROVE MailboxStep
  OBVIOUS
<1>1. ASSUME NEW q \in Request, (Sender(q) /\ Outside) \/ HandleRequest(q) PROVE MailboxStep
  BY <1>1 DEF HandleRequest, MailboxStep
<1>2. ASSUME HeartbeatLapses PROVE MailboxStep
  BY <1>2 DEF MailboxStep
<1>3. ASSUME NEW c \in Client, Start(c) \/ Stop(c) \/ DisableResearch(c) PROVE MailboxStep
  BY <1>3 DEF Start, Stop, DisableResearch, Accept, StopResearch, Disable, MailboxStep
<1>4. ASSUME NEW c \in Client, Enabled(c) PROVE MailboxStep
  BY <1>4 DEF Enabled, Resumes, MailboxStep
<1>5. ASSUME NEW c \in Client, Connect(c) PROVE MailboxStep
  BY <1>5 DEF Connect, Accept, CloseResearch, MailboxStep
<1>6. ASSUME NEW c \in Client,
             \/ Launch(c) \/ Reply(c) \/ Enable(c) \/ StartDemo(c) \/ StartPaper(c)
             \/ PaperStarted(c) \/ StopPaper(c) \/ Deadline(c)
      PROVE  MailboxStep
  BY <1>6 DEF Launch, Reply, Enable, StartDemo, StartPaper, PaperStarted, StopPaper, Deadline,
              MailboxStep
<1>7. ASSUME NEW a \in Actor, PollEnded(a) \/ Joined(a) \/ Connected(a) PROVE MailboxStep
  BY <1>7 DEF PollEnded, Joined, Connected, MailboxStep
<1>8. ASSUME RunStopsResearch \/ RunConnects PROVE MailboxStep
  BY <1>8 DEF RunStopsResearch, RunConnects, Resumes, StopResearch, CloseResearch, Disable,
              MailboxStep
<1>9. ASSUME RunTrades PROVE MailboxStep
  BY <1>9 DEF RunTrades, MailboxStep
<1>10. ASSUME RunEnds PROVE MailboxStep
  BY <1>10 DEF RunEnds, Disable, MailboxStep
<1>11. ASSUME AgentStops \/ AgentEnds \/ LoseBroker \/ Fence PROVE MailboxStep
  BY <1>11 DEF AgentStops, AgentEnds, LoseBroker, Fence, MailboxStep
<1>12. ASSUME Poll \/ PollDone \/ PollFails PROVE MailboxStep
  BY <1>12 DEF Poll, PollDone, PollFails, Disable, MailboxStep
<1>13. ASSUME Restart PROVE MailboxStep
  BY <1>13 DEF Restart, MailboxStep
<1>14. ASSUME UNCHANGED vars PROVE MailboxStep
  BY <1>14 DEF vars, MailboxStep
<1> QED
  BY <1>1, <1>2, <1>3, <1>4, <1>5, <1>6, <1>7, <1>8, <1>9, <1>10, <1>11, <1>12, <1>13, <1>14
     DEF Next

LEMMA MailboxTypes == BridgeTypeOK /\ MailboxStep => BridgeTypeOK'
<1> SUFFICES ASSUME BridgeTypeOK, MailboxStep PROVE BridgeTypeOK'
  OBVIOUS
<1> USE DEF file, senders, mailbox
<1>1. ASSUME NEW q \in Request, Sender(q) PROVE BridgeTypeOK'
  <2>1. CASE Post(q)
    BY <2>1 DEF Post, BridgeTypeOK
  <2>2. ASSUME NEW outcome \in {"off", "discarded", "returned", "expired", "gone"},
               Leave(q, outcome)
        PROVE  BridgeTypeOK'
    BY <2>2 DEF Leave, BridgeTypeOK
  <2>3. CASE Age(q)
    BY <2>3 DEF Age, BridgeTypeOK
  <2> QED
    BY <1>1, <2>1, <2>2, <2>3
       DEF Sender, FindOff, FindDiscarded, FindAnswer, Expire, Abandon
<1>2. ASSUME NEW q \in Request, Handled(q) PROVE BridgeTypeOK'
  <2>1. /\ poll' = [poll EXCEPT !.due = poll.due \ {q}, !.answered = poll.answered \cup {q}]
        /\ handled' = [handled EXCEPT ![q] = handled[q] + 1]
        /\ UNCHANGED <<bridge, file, senders, minted>>
    BY <1>2 DEF Handled
  <2>2. poll' \in [open : BOOLEAN, due : SUBSET Request, answered : SUBSET Request]
    BY <2>1 DEF BridgeTypeOK
  <2>3. handled' \in [Request -> Nat]
    BY <2>1 DEF BridgeTypeOK
  <2> QED
    BY <2>1, <2>2, <2>3 DEF BridgeTypeOK
<1>3. ASSUME HeartbeatLapses PROVE BridgeTypeOK'
  BY <1>3 DEF HeartbeatLapses, BridgeTypeOK
<1>4. ASSUME EnableBridge PROVE BridgeTypeOK'
  <2>1. minted + 1 \in 0..Sessions /\ 0..minted \subseteq 0..(minted + 1) /\ minted + 1 \in 0..(minted + 1)
    BY <1>4, SessionsAssumption DEF EnableBridge, BridgeTypeOK
  <2> QED
    BY <1>4, <2>1 DEF EnableBridge, BridgeTypeOK
<1>5. ASSUME DisableBridge, poll' = poll \/ poll' = NoPoll PROVE BridgeTypeOK'
  <2>1. 0 \in 0..minted
    BY DEF BridgeTypeOK
  <2>2. session' \in 0..minted /\ rows' \in [Request -> {"absent", "queued", "answered"}]
    <3>1. CASE UNCHANGED <<session, rows>>
      BY <3>1 DEF BridgeTypeOK
    <3>2. CASE /\ session' = IF session = bridge THEN 0 ELSE session
               /\ rows' = [q \in Request |-> IF joined[q] = bridge THEN "absent" ELSE rows[q]]
      <4>1. session' \in 0..minted
        BY <2>1, <3>2 DEF BridgeTypeOK
      <4>2. rows' \in [Request -> {"absent", "queued", "answered"}]
        BY <3>2 DEF BridgeTypeOK
      <4> QED
        BY <4>1, <4>2
    <3> QED
      BY <1>5, <3>1, <3>2 DEF DisableBridge
  <2>3. poll' \in [open : BOOLEAN, due : SUBSET Request, answered : SUBSET Request]
    <3>1. NoPoll \in [open : BOOLEAN, due : SUBSET Request, answered : SUBSET Request]
      BY DEF NoPoll
    <3> QED
      BY <1>5, <3>1 DEF BridgeTypeOK
  <2> QED
    BY <1>5, <2>1, <2>2, <2>3 DEF DisableBridge, BridgeTypeOK
<1>6. ASSUME BeginPoll PROVE BridgeTypeOK'
  <2>1. PICK S : S \subseteq Request /\ poll' = [open |-> TRUE, due |-> S, answered |-> {}]
    BY <1>6 DEF BeginPoll, Queued
  <2> QED
    BY <1>6, <2>1 DEF BeginPoll, BridgeTypeOK
<1>7. ASSUME CommitPoll PROVE BridgeTypeOK'
  BY <1>7 DEF CommitPoll, BridgeTypeOK, NoPoll
<1>8. ASSUME bridge' = 0, poll' = NoPoll, UNCHANGED <<file, senders, minted, handled>>
      PROVE  BridgeTypeOK'
  <2>1. 0 \in 0..minted
    BY DEF BridgeTypeOK
  <2> QED
    BY <1>8, <2>1 DEF BridgeTypeOK, NoPoll
<1>9. ASSUME UNCHANGED mailbox PROVE BridgeTypeOK'
  BY <1>9 DEF BridgeTypeOK
<1> QED
  BY <1>1, <1>2, <1>3, <1>4, <1>5, <1>6, <1>7, <1>8, <1>9 DEF MailboxStep

LEMMA MailboxKept == MailboxInv /\ MailboxStep => MailboxInv'
<1> SUFFICES ASSUME MailboxInv, MailboxStep PROVE MailboxInv'
  OBVIOUS
<1> USE DEF file, senders, mailbox
<1> DEFINE Rest == PollConsistent' /\ HandledIsOver' /\ SendersKnow'
<1>1. BridgeTypeOK /\ BridgeTypeOK'
  BY MailboxTypes DEF MailboxInv
<1>2. PollConsistent /\ HandledIsOver /\ SendersKnow
  BY DEF MailboxInv
<1>3. /\ \A q \in Request : /\ joined[q] \in Nat /\ joined[q] <= minted /\ handled[q] \in Nat
                            /\ rows[q] \in {"absent", "queued", "answered"}
      /\ minted \in Nat /\ bridge \in Nat /\ session \in Nat
      /\ poll.due \subseteq Request /\ poll.answered \subseteq Request
  BY <1>1 DEF BridgeTypeOK
<1>4. ASSUME NEW q \in Request, Sender(q) PROVE Rest
  <2>1. ASSUME Post(q) PROVE Rest
    <3>1. /\ ~poll.open /\ poll = NoPoll /\ poll' = poll
          /\ sender[q] = "new" /\ handled[q] = 0 /\ session # 0
      BY <1>2, <2>1 DEF Post, Active, PollConsistent, SendersKnow
    <3>2. \A p \in Request :
             /\ p # q => /\ sender'[p] = sender[p] /\ joined'[p] = joined[p]
                         /\ rows'[p] = rows[p] \/ rows'[p] = "absent"
             /\ handled'[p] = handled[p]
      BY <1>1, <2>1 DEF Post, BridgeTypeOK
    <3>3. sender'[q] = "waiting" /\ joined'[q] = session
      BY <1>1, <2>1 DEF Post, BridgeTypeOK
    <3>4. bridge' = bridge /\ session' = session
      BY <2>1 DEF Post
    <3>5. PollConsistent'
      BY <3>1 DEF PollConsistent, NoPoll
    <3>6. HandledIsOver'
      BY <1>2, <3>1, <3>2, <3>4 DEF HandledIsOver
    <3>7. SendersKnow'
      BY <1>2, <3>1, <3>2, <3>3, <3>4 DEF SendersKnow
    <3> QED
      BY <3>5, <3>6, <3>7
  <2>2. ASSUME NEW outcome \in {"off", "discarded", "returned", "expired", "gone"},
               Leave(q, outcome), outcome = "discarded" => session # joined[q]
        PROVE  Rest
    <3>1. /\ sender[q] = "waiting" /\ sender' = [sender EXCEPT ![q] = outcome]
          /\ \A p \in Request : rows'[p] = rows[p] \/ rows'[p] = "absent"
          /\ UNCHANGED <<bridge, session, beating, joined, aged, poll, minted, handled>>
      BY <1>1, <2>2 DEF Leave, BridgeTypeOK
    <3>2. \A p \in Request : (p # q => sender'[p] = sender[p]) /\ sender'[q] = outcome
      BY <1>1, <3>1 DEF BridgeTypeOK
    <3>3. PollConsistent'
      BY <1>2, <1>3, <3>1, <3>2 DEF PollConsistent
    <3>4. HandledIsOver'
      BY <1>2, <3>1 DEF HandledIsOver
    <3>5. SendersKnow'
      BY <1>2, <2>2, <3>1, <3>2 DEF SendersKnow
    <3> QED
      BY <3>3, <3>4, <3>5
  <2>3. ASSUME Age(q) PROVE Rest
    BY <1>2, <2>3 DEF Age, PollConsistent, HandledIsOver, SendersKnow
  <2> HIDE DEF Rest
  <2> QED
    BY <1>4, <2>1, <2>2, <2>3
       DEF Sender, FindOff, FindDiscarded, FindAnswer, Expire, Abandon
<1>5. ASSUME NEW q \in Request, Handled(q) PROVE Rest
  <2>1. /\ poll.open /\ q \in poll.due
        /\ poll'.open /\ poll'.due = poll.due \ {q}
        /\ poll'.answered = poll.answered \cup {q}
        /\ UNCHANGED <<bridge, file, senders, minted>>
    BY <1>1, <1>5 DEF Handled, BridgeTypeOK
  <2>2. handled'[q] # 0 /\ \A p \in Request : p # q => handled'[p] = handled[p]
    BY <1>1, <1>3, <1>5 DEF Handled, BridgeTypeOK
  <2>3. PollConsistent'
    <3>1. \A p \in poll'.due : p \in poll.due /\ p \in Request /\ p # q
      BY <1>3, <2>1
    <3>2. \A p \in poll'.answered : p = q \/ (p \in poll.answered /\ p \in Request)
      BY <1>3, <2>1
    <3> QED
      BY <1>2, <2>1, <2>2, <3>1, <3>2 DEF PollConsistent
  <2>4. HandledIsOver'
    BY <1>2, <2>1, <2>2 DEF HandledIsOver
  <2>5. sender[q] # "new"
    BY <1>2, <2>1 DEF PollConsistent
  <2>6. SendersKnow'
    BY <1>2, <2>1, <2>2, <2>5 DEF SendersKnow
  <2> QED
    BY <2>3, <2>4, <2>6
<1>6. ASSUME HeartbeatLapses PROVE Rest
  BY <1>2, <1>6 DEF HeartbeatLapses, PollConsistent, HandledIsOver, SendersKnow
<1>7. ASSUME EnableBridge, ~poll.open PROVE Rest
  <2>1. /\ bridge' = minted + 1 /\ session' = minted + 1
        /\ \A q \in Request : rows'[q] = "absent"
        /\ UNCHANGED <<senders, poll, handled>>
    BY <1>7 DEF EnableBridge
  <2>2. poll = NoPoll
    BY <1>2, <1>7 DEF PollConsistent
  <2>3. PollConsistent'
    BY <2>1, <2>2 DEF PollConsistent, NoPoll
  <2>4. HandledIsOver'
    BY <2>1 DEF HandledIsOver
  <2>5. SendersKnow'
    BY <1>2, <1>3, <2>1 DEF SendersKnow
  <2> QED
    BY <2>3, <2>4, <2>5
<1>8. ASSUME DisableBridge, (~poll.open /\ poll' = poll) \/ poll' = NoPoll PROVE Rest
  <2>1. /\ bridge' = 0
        /\ session' = session \/ session' = 0
        /\ \A q \in Request : rows'[q] = rows[q] \/ rows'[q] = "absent"
        /\ UNCHANGED <<beating, senders, minted, handled>>
    BY <1>8 DEF DisableBridge
  <2>2. poll' = NoPoll
    BY <1>2, <1>8 DEF PollConsistent
  <2>3. PollConsistent'
    BY <2>2 DEF PollConsistent, NoPoll
  <2>4. HandledIsOver'
    BY <2>1 DEF HandledIsOver
  <2>5. SendersKnow'
    BY <1>2, <2>1 DEF SendersKnow
  <2> QED
    BY <2>3, <2>4, <2>5
<1>9. ASSUME BeginPoll, ~poll.open PROVE Rest
  <2>1. PICK S : /\ S \subseteq {q \in Queued : joined[q] = bridge}
                 /\ poll' = [open |-> TRUE, due |-> S, answered |-> {}]
    BY <1>9 DEF BeginPoll
  <2>2. /\ bridge # 0 /\ session = bridge
        /\ UNCHANGED <<bridge, file, senders, minted, handled>>
    BY <1>9 DEF BeginPoll
  <2>3. poll.answered = {}
    BY <1>2, <1>9 DEF PollConsistent, NoPoll
  <2>4. \A q \in S : q \in Request /\ joined[q] = bridge /\ rows[q] = "queued"
    BY <2>1 DEF Queued
  <2>5. \A q \in S : handled[q] = 0 /\ sender[q] # "new"
    BY <1>2, <2>2, <2>3, <2>4 DEF HandledIsOver, SendersKnow
  <2>6. poll'.open /\ poll'.due = S /\ poll'.answered = {}
    BY <2>1
  <2>7. PollConsistent'
    BY <2>2, <2>4, <2>5, <2>6 DEF PollConsistent
  <2>8. HandledIsOver'
    BY <1>2, <2>2, <2>3 DEF HandledIsOver
  <2>9. SendersKnow'
    BY <1>2, <2>2 DEF SendersKnow
  <2> QED
    BY <2>7, <2>8, <2>9
<1>10. ASSUME CommitPoll PROVE Rest
  <2>1. /\ poll' = NoPoll /\ UNCHANGED <<bridge, session, senders, minted, handled>>
        /\ \A q \in Request : /\ q \in poll.answered => rows'[q] = "answered"
                              /\ q \notin poll.answered => rows'[q] = rows[q] \/ rows'[q] = "absent"
    BY <1>10 DEF CommitPoll
  <2>2. PollConsistent'
    BY <2>1 DEF PollConsistent, NoPoll
  <2>3. HandledIsOver'
    <3>1. ASSUME NEW q \in Request, handled[q] # 0, rows'[q] = "queued"
          PROVE  bridge = 0 \/ joined[q] # bridge
      BY <1>2, <2>1, <3>1 DEF HandledIsOver
    <3> QED
      BY <2>1, <3>1 DEF HandledIsOver
  <2>4. SendersKnow'
    BY <1>2, <2>1 DEF SendersKnow, PollConsistent
  <2> QED
    BY <2>2, <2>3, <2>4
<1>11. ASSUME bridge' = 0, poll' = NoPoll, UNCHANGED <<file, senders, minted, handled>>
       PROVE  Rest
  <2>1. PollConsistent'
    BY <1>11 DEF PollConsistent, NoPoll
  <2>2. HandledIsOver'
    BY <1>11 DEF HandledIsOver
  <2>3. SendersKnow'
    BY <1>2, <1>11 DEF SendersKnow
  <2> QED
    BY <2>1, <2>2, <2>3
<1>12. ASSUME UNCHANGED mailbox PROVE Rest
  BY <1>2, <1>12 DEF PollConsistent, HandledIsOver, SendersKnow
<1>13. Rest
  <2> HIDE DEF Rest
  <2> QED
    BY <1>4, <1>5, <1>6, <1>7, <1>8, <1>9, <1>10, <1>11, <1>12 DEF MailboxStep
<1> QED
  BY <1>1, <1>13 DEF MailboxInv

-----------------------------------------------------------------------------
(* What the operators on actors and on the record return. *)

Step ==
    [op : {"none", "run", "start", "stop", "disable", "enable", "paper", "paper_stop", "connect"},
     pc : {"idle", "launched", "polling", "joining", "ready", "accounts", "connecting", "trading"}]

LEMMA WaitingIs ==
    ASSUME NEW s \in Step, NEW g \in Nat, runs \in 0..Runs
    PROVE  LET w == Waiting(s.op, s.pc, g)
           IN /\ w \in ActorRecord /\ w.op = s.op /\ w.pc = s.pc
              /\ w.generation = g /\ w.joins = runs
  BY DEF Waiting, ActorRecord, Step

LEMMA CountedIs ==
    ASSUME NEW a \in Actor, NEW step \in ActorRecord, NEW ops,
           actor \in [Actor -> ActorRecord]
    PROVE  LET next == Counted(a, step, ops)
           IN /\ next \in [Actor -> ActorRecord]
              /\ next[a] = step
              /\ \A b \in Actor : b # a =>
                    /\ next[b].op = actor[b].op /\ next[b].pc = actor[b].pc
                    /\ next[b].generation = actor[b].generation
                    /\ next[b].joins = actor[b].joins
                    /\ next[b].current => actor[b].current /\ actor[b].op \notin ops
<1>1. PICK next : next = Counted(a, step, ops)
  OBVIOUS
<1>2. \A b \in Actor : actor[b] \in ActorRecord
  OBVIOUS
<1>3. \A r \in ActorRecord :
         LET n == [r EXCEPT !.current = FALSE]
         IN /\ n \in ActorRecord /\ n.op = r.op /\ n.pc = r.pc
            /\ n.generation = r.generation /\ n.joins = r.joins /\ ~n.current
  BY DEF ActorRecord
<1>4. /\ next \in [Actor -> ActorRecord]
      /\ next[a] = step
      /\ \A b \in Actor : b # a =>
            next[b] = IF actor[b].op \in ops THEN [actor[b] EXCEPT !.current = FALSE] ELSE actor[b]
  BY <1>1, <1>2, <1>3 DEF Counted
<1>5. ASSUME NEW b \in Actor, b # a
      PROVE  /\ next[b].op = actor[b].op /\ next[b].pc = actor[b].pc
             /\ next[b].generation = actor[b].generation
             /\ next[b].joins = actor[b].joins
             /\ next[b].current => actor[b].current /\ actor[b].op \notin ops
  <2>1. CASE actor[b].op \in ops
    BY <1>2, <1>3, <1>4, <1>5, <2>1
  <2>2. CASE actor[b].op \notin ops
    BY <1>4, <1>5, <2>2
  <2> QED
    BY <2>1, <2>2
<1> QED
  BY <1>1, <1>4, <1>5

LEMMA RecordOperators ==
    ASSUME NEW r \in Control
    PROVE  /\ Stopped(r) \in Control /\ ~Stopped(r).running
           /\ Started(r) \in Control
           /\ \A g : StoppedBy(r, g) \in Control
           /\ \A s \in Scope : Reviewed(r, s) \in Control
<1>1. r.generation + 1 \in Nat
  BY DEF Control
<1>2. PICK n \in Nat : n = r.generation + 1
  BY <1>1
<1>3. Stopped(r) = [r EXCEPT !.generation = n, !.running = FALSE]
  BY <1>2 DEF Stopped
<1>4. Stopped(r) \in Control /\ ~Stopped(r).running
  BY <1>3 DEF Control
<1>5. Started(r) = [r EXCEPT !.generation = n, !.running = TRUE]
  BY <1>2 DEF Started
<1>6. Started(r) \in Control
  BY <1>5 DEF Control
<1>7. \A g : StoppedBy(r, g) \in Control
  BY <1>4 DEF StoppedBy
<1>8. \A s \in Scope : Reviewed(r, s) \in Control
  BY <1>2 DEF Reviewed, Control
<1> QED
  BY <1>4, <1>6, <1>7, <1>8

-----------------------------------------------------------------------------
(* Types *)

LEMMA StopResearchTypes ==
    ASSUME TypeOK, NEW a \in Actor, NEW kind \in {"run", "start", "stop", "disable"}, NEW g \in Nat,
           StopResearch(a, kind, g)
    PROVE  /\ bridge' = 0 /\ agent' = StoppedAgent /\ runs' = runs
           /\ agent' \in {"idle", "unwinding"} /\ (agent = "idle" => agent' = "idle")
           /\ actor' \in [Actor -> ActorRecord]
           /\ actor'[a].op = kind /\ actor'[a].pc \in {"polling", "joining"}
           /\ actor'[a].generation = g /\ actor'[a].joins = runs
           /\ \A b \in Actor : b # a =>
                 /\ actor'[b].op = actor[b].op /\ actor'[b].pc = actor[b].pc
                 /\ actor'[b].generation = actor[b].generation
                 /\ actor'[b].joins = actor[b].joins
                 /\ actor'[b].current => actor[b].current /\ actor[b].op \notin Revised
<1>1. PICK s \in Step : s = [op |-> kind, pc |-> IF bridge # 0 THEN "polling" ELSE "joining"]
  <2>1. PICK p \in {"polling", "joining"} : p = IF bridge # 0 THEN "polling" ELSE "joining"
    OBVIOUS
  <2>2. [op |-> kind, pc |-> p] \in Step
    BY DEF Step
  <2> QED
    BY <2>1, <2>2
<1>2. PICK w : w = Waiting(s.op, s.pc, g)
  OBVIOUS
<1>3. /\ w \in ActorRecord /\ w.op = kind /\ w.pc \in {"polling", "joining"}
      /\ w.generation = g /\ w.joins = runs
  <2>1. s.op = kind /\ s.pc \in {"polling", "joining"}
    BY <1>1
  <2>2. runs \in 0..Runs
    BY DEF TypeOK
  <2> QED
    BY <1>2, <2>1, <2>2, WaitingIs
<1>4. actor' = Counted(a, w, Revised)
  BY <1>1, <1>2 DEF StopResearch
<1>5. actor \in [Actor -> ActorRecord]
  BY DEF TypeOK
<1>6. /\ bridge' = 0 /\ agent' = StoppedAgent /\ runs' = runs
  BY DEF StopResearch, Disable, DisableBridge
<1>7. agent' \in {"idle", "unwinding"} /\ (agent = "idle" => agent' = "idle")
  BY <1>6 DEF StoppedAgent, TypeOK
<1> QED
  BY <1>3, <1>4, <1>5, <1>6, <1>7, CountedIs

LEMMA CloseResearchTypes ==
    ASSUME TypeOK, NEW a \in Actor, NEW g \in Nat, CloseResearch(a, g)
    PROVE  /\ bridge' = 0 /\ agent' = "idle" /\ runs' = runs
           /\ control' = control /\ connected' = connected
           /\ actor' \in [Actor -> ActorRecord]
           /\ actor'[a].op \in {"run", "connect"} /\ actor'[a].pc = "connecting"
           /\ actor'[a].generation = g /\ actor'[a].joins = runs
           /\ \A b \in Actor : b # a =>
                 /\ actor'[b].op = actor[b].op /\ actor'[b].pc = actor[b].pc
                 /\ actor'[b].generation = actor[b].generation
                 /\ actor'[b].joins = actor[b].joins
                 /\ actor'[b].current => actor[b].current /\ actor[b].op \notin Revised
<1>1. PICK s \in Step : s = [op |-> IF a = Runner THEN "run" ELSE "connect", pc |-> "connecting"]
  <2>1. PICK o \in {"run", "connect"} : o = IF a = Runner THEN "run" ELSE "connect"
    OBVIOUS
  <2>2. [op |-> o, pc |-> "connecting"] \in Step
    BY DEF Step
  <2> QED
    BY <2>1, <2>2
<1>2. PICK w : w = Waiting(s.op, s.pc, g)
  OBVIOUS
<1>3. /\ w \in ActorRecord /\ w.op \in {"run", "connect"} /\ w.pc = "connecting"
      /\ w.generation = g /\ w.joins = runs
  <2>1. s.op \in {"run", "connect"} /\ s.pc = "connecting"
    BY <1>1
  <2>2. runs \in 0..Runs
    BY DEF TypeOK
  <2> QED
    BY <1>2, <2>1, <2>2, WaitingIs
<1>4. actor' = Counted(a, w, Revised)
  BY <1>1, <1>2 DEF CloseResearch
<1>5. actor \in [Actor -> ActorRecord]
  BY DEF TypeOK
<1>6. /\ bridge' = 0 /\ agent' = "idle" /\ runs' = runs
      /\ control' = control /\ connected' = connected
  BY DEF CloseResearch, DisableBridge
<1> QED
  BY <1>3, <1>4, <1>5, <1>6, CountedIs

(* The worker's own variables, without the mailbox. *)
HostTypes ==
    /\ control \in Control
    /\ connected \in BOOLEAN
    /\ agent \in {"idle", "running", "unwinding"}
    /\ runs \in 0..Runs
    /\ actor \in [Actor -> ActorRecord]
    /\ budget \in 0..Commands

LEMMA IdleIs == Idle \in ActorRecord /\ Idle.op = "none" /\ Idle.pc = "idle" /\ ~Idle.current
  BY RunsAssumption DEF Idle, ActorRecord

LEMMA LaunchedIs ==
    ASSUME NEW g \in Nat
    PROVE  LET r == [Idle EXCEPT !.op = "run", !.pc = "launched", !.generation = g]
           IN r \in ActorRecord /\ r.pc = "launched"
<1>1. PICK r : r = [Idle EXCEPT !.op = "run", !.pc = "launched", !.generation = g]
  OBVIOUS
<1>2. r = [op |-> "run", pc |-> "launched", generation |-> g, joins |-> 0, current |-> FALSE]
  BY <1>1 DEF Idle
<1>3. 0 \in 0..Runs
  BY RunsAssumption
<1>4. r \in ActorRecord
  BY <1>2, <1>3 DEF ActorRecord
<1> QED
  BY <1>1, <1>2, <1>4

LEMMA ActorsDiffer == Runner \in Actor /\ \A c \in Client : c \in Actor /\ c # Runner
  BY RunnerAssumption DEF Actor

-----------------------------------------------------------------------------
(* Research stays stopped.  Most steps leave the runner alone and can only
   stop more; those that begin research find no runner that may still trade. *)

LEMMA StaysStopped ==
    ASSUME ResearchStopped,
           actor'[Runner].pc = actor[Runner].pc,
           actor'[Runner].generation = actor[Runner].generation,
           actor'[Runner].joins = actor[Runner].joins,
           control' = control \/ ~control'.running,
           bridge' = bridge \/ bridge' = 0,
           runs' = runs,
           agent' = agent \/ agent' = "idle" \/ (agent = "running" /\ agent' = "unwinding"),
           \A c \in Client : actor'[c].op = "enable" /\ actor'[c].current
                             => actor[c].op = "enable" /\ actor[c].current
    PROVE  ResearchStopped'
<1>1. /\ RunnerPast({"polling", "joining"})' => RunnerPast({"polling", "joining"})
      /\ RunnerPast({"joining"})' => RunnerPast({"joining"})
      /\ RunnerPast({"ready", "connecting"})' => RunnerPast({"ready", "connecting"})
      /\ Yielding' => Yielding
      /\ Trading' => Trading
  BY DEF RunnerPast, Yielding, Trading, SessionCurrent
<1>2. Yielding' => bridge' = 0 /\ \A c \in Client : actor'[c].op = "enable" => ~actor'[c].current
  BY <1>1 DEF ResearchStopped
<1>3. RunnerPast({"polling", "joining"})' => agent' # "running"
  BY <1>1 DEF ResearchStopped
<1>4. RunnerPast({"joining"})' => actor'[Runner].joins = runs'
  BY <1>1 DEF ResearchStopped
<1>5. Trading' \/ RunnerPast({"ready", "connecting"})' => agent' = "idle"
  BY <1>1 DEF ResearchStopped
<1> QED
  BY <1>2, <1>3, <1>4, <1>5 DEF ResearchStopped

LEMMA NothingToYield ==
    ASSUME ~Yielding'
    PROVE  ResearchStopped'
  BY DEF ResearchStopped, Yielding, RunnerPast

(* A handler that ends, with nothing else happening to the worker. *)
LEMMA HandlerEnds ==
    ASSUME HostTypes, ResearchStopped, NEW c \in Client, actor' = [actor EXCEPT ![c] = Idle],
           control' = control, bridge' = bridge, agent' = agent, runs' = runs
    PROVE  actor' \in [Actor -> ActorRecord] /\ ResearchStopped'
<1>1. /\ actor' \in [Actor -> ActorRecord] /\ actor'[c] = Idle
      /\ \A b \in Actor : b # c => actor'[b] = actor[b]
  BY IdleIs, ActorsDiffer DEF HostTypes
<1>2. \A b \in Client : actor'[b].op = "enable" => actor[b].op = "enable" /\ actor'[b] = actor[b]
  BY <1>1, IdleIs, ActorsDiffer
<1>3. actor'[Runner] = actor[Runner]
  BY <1>1, ActorsDiffer
<1>4. ResearchStopped'
  BY <1>2, <1>3, StaysStopped
<1> QED
  BY <1>1, <1>4

(* A client's stop of research, whatever becomes of the record. *)
LEMMA ClientStops ==
    ASSUME TypeOK, ResearchStopped, NEW c \in Client, NEW kind \in {"start", "stop", "disable"},
           StopResearch(c, kind, control.generation), control' = control \/ ~control'.running
    PROVE  /\ agent' \in {"idle", "running", "unwinding"} /\ runs' = runs
           /\ actor' \in [Actor -> ActorRecord] /\ ResearchStopped'
<1>1. control.generation \in Nat
  BY DEF TypeOK, Control
<1>2. PICK g \in Nat : g = control.generation
  BY <1>1
<1>3. StopResearch(c, kind, g)
  BY <1>2
<1>4. /\ bridge' = 0 /\ agent' = StoppedAgent /\ runs' = runs
      /\ agent' \in {"idle", "unwinding"}
      /\ actor' \in [Actor -> ActorRecord]
      /\ actor'[c].op = kind
      /\ \A b \in Actor : b # c =>
            /\ actor'[b].op = actor[b].op /\ actor'[b].pc = actor[b].pc
            /\ actor'[b].generation = actor[b].generation
            /\ actor'[b].joins = actor[b].joins
            /\ actor'[b].current => actor[b].current /\ actor[b].op \notin Revised
  BY <1>3, ActorsDiffer, StopResearchTypes
<1>5. \A b \in Client : actor'[b].op = "enable" /\ actor'[b].current
                        => actor[b].op = "enable" /\ actor[b].current
  BY <1>4, ActorsDiffer
<1>6. agent' = agent \/ agent' = "idle" \/ (agent = "running" /\ agent' = "unwinding")
  BY <1>4 DEF StoppedAgent
<1>7. ResearchStopped'
  BY <1>4, <1>5, <1>6, ActorsDiffer, StaysStopped
<1> QED
  BY <1>4, <1>7

LEMMA ClientSteps ==
    ASSUME TypeOK, ResearchStopped, NEW c \in Client,
           \/ Start(c) \/ Launch(c) \/ Stop(c) \/ DisableResearch(c) \/ Reply(c)
           \/ Enable(c) \/ Enabled(c) \/ StartDemo(c) \/ StartPaper(c) \/ PaperStarted(c)
           \/ StopPaper(c) \/ Connect(c) \/ Deadline(c)
    PROVE  HostTypes' /\ ResearchStopped'
<1> DEFINE Kept == HostTypes' /\ ResearchStopped'
<1>1. HostTypes /\ c \in Actor /\ c # Runner /\ Runner \in Actor
  BY ActorsDiffer DEF TypeOK, HostTypes
<1>2. control.generation \in Nat /\ (budget > 0 => budget - 1 \in 0..Commands)
  BY CommandsAssumption DEF TypeOK, Control
<1>3. ASSUME Start(c) PROVE Kept
  BY <1>1, <1>2, <1>3, ClientStops DEF Start, Accept, HostTypes
<1>4. ASSUME Stop(c) PROVE Kept
  <2>1. control' \in Control /\ ~control'.running
    BY <1>1, <1>4, RecordOperators DEF Stop, HostTypes
  <2> QED
    BY <1>1, <1>2, <1>4, <2>1, ClientStops DEF Stop, Accept, HostTypes
<1>5. ASSUME DisableResearch(c) PROVE Kept
  BY <1>1, <1>2, <1>5, ClientStops DEF DisableResearch, Accept, HostTypes
<1>6. ASSUME Reply(c) \/ Deadline(c) PROVE Kept
  BY <1>1, <1>6, HandlerEnds DEF Reply, Deadline, HostTypes, mailbox, desk
<1>7. ASSUME Launch(c) PROVE Kept
  <2>1. CASE actor' = [actor EXCEPT ![c] = Idle] /\ control' = control
    BY <1>1, <1>7, <2>1, HandlerEnds DEF Launch, HostTypes, mailbox, desk
  <2>2. CASE /\ control' = Started(control)
             /\ actor' = [actor EXCEPT ![c] = Idle,
                            ![Runner] = [Idle EXCEPT !.op = "run", !.pc = "launched",
                                                     !.generation = control'.generation]]
    <3>1. control' \in Control /\ control'.generation \in Nat
      BY <1>1, <2>2, RecordOperators DEF HostTypes, Control
    <3>2. PICK r : r = [Idle EXCEPT !.op = "run", !.pc = "launched",
                                    !.generation = control'.generation]
      OBVIOUS
    <3>3. r \in ActorRecord /\ r.pc = "launched"
      BY <3>1, <3>2, LaunchedIs
    <3>4. actor' \in [Actor -> ActorRecord] /\ actor'[Runner] = r
      BY <1>1, <2>2, <3>2, <3>3, IdleIs DEF HostTypes
    <3>5. ~Yielding'
      BY <3>3, <3>4 DEF Yielding, Trading, RunnerPast
    <3> QED
      BY <1>1, <1>7, <3>1, <3>4, <3>5, NothingToYield DEF Launch, HostTypes, desk
  <2> QED
    BY <1>7, <2>1, <2>2 DEF Launch
<1>8. ASSUME Enable(c) \/ StartPaper(c) PROVE Kept
  <2>1. PICK s \in Step : /\ s.pc = "accounts"
                          /\ actor' = [actor EXCEPT ![c] = Waiting(s.op, s.pc, control.generation)]
    <3>1. [op |-> "enable", pc |-> "accounts"] \in Step /\ [op |-> "paper", pc |-> "accounts"] \in Step
      BY DEF Step
    <3> QED
      BY <1>8, <3>1 DEF Enable, StartPaper
  <2>2. Waiting(s.op, s.pc, control.generation) \in ActorRecord
    BY <1>1, <1>2, WaitingIs DEF HostTypes
  <2>3. actor' \in [Actor -> ActorRecord] /\ actor'[Runner] = actor[Runner]
    BY <1>1, <2>1, <2>2 DEF HostTypes
  <2>4. ~ExecutionActive /\ control' = control
    BY <1>8 DEF Enable, StartPaper
  <2>5. ~Yielding'
    BY <2>3, <2>4 DEF ExecutionActive, Yielding, Trading, RunnerPast, SessionCurrent
  <2> QED
    BY <1>1, <1>2, <1>8, <2>3, <2>5, NothingToYield
       DEF Enable, StartPaper, Accept, HostTypes, desk
<1>9. ASSUME Enabled(c) PROVE Kept
  <2>1. actor' = [actor EXCEPT ![c] = Idle] /\ UNCHANGED <<control, connected, agent, runs, budget>>
    BY <1>9 DEF Enabled, desk
  <2>2. CASE ~actor[c].current
    BY <1>1, <1>9, <2>1, <2>2, HandlerEnds DEF Enabled, HostTypes, mailbox
  <2>3. CASE actor[c].current
    <3>1. ~Yielding
      BY <1>9, <2>3 DEF Enabled, ResearchStopped
    <3>2. actor' \in [Actor -> ActorRecord] /\ actor'[Runner] = actor[Runner]
      BY <1>1, <2>1, IdleIs DEF HostTypes
    <3>3. ~Yielding'
      BY <2>1, <3>1, <3>2 DEF Yielding, Trading, RunnerPast, SessionCurrent
    <3> QED
      BY <1>1, <2>1, <3>2, <3>3, NothingToYield DEF HostTypes
  <2> QED
    BY <2>2, <2>3
<1>10. ASSUME StartAgent, runs < Runs, ~ExecutionActive, UNCHANGED <<control, connected>>,
              actor' = actor \/ actor' = [actor EXCEPT ![c] = Idle], budget' \in 0..Commands
       PROVE  Kept
  <2>1. agent' = "running" /\ runs' \in 0..Runs
    BY <1>1, <1>10, RunsAssumption DEF StartAgent, HostTypes
  <2>2. actor' \in [Actor -> ActorRecord] /\ actor'[Runner] = actor[Runner]
    BY <1>1, <1>10, IdleIs DEF HostTypes
  <2>3. ~Yielding'
    BY <1>10, <2>2 DEF ExecutionActive, Yielding, Trading, RunnerPast, SessionCurrent
  <2> QED
    BY <1>1, <1>10, <2>1, <2>2, <2>3, NothingToYield DEF HostTypes
<1>11. ASSUME StartDemo(c) PROVE Kept
  BY <1>1, <1>2, <1>10, <1>11 DEF StartDemo, Accept, Free, HostTypes
<1>12. ASSUME PaperStarted(c) PROVE Kept
  <2>1. CASE StartAgent /\ Free("broker") /\ ~ExecutionActive
    BY <1>1, <1>10, <1>12, <2>1 DEF PaperStarted, Free, HostTypes
  <2>2. CASE UNCHANGED desk
    BY <1>1, <1>12, <2>2, HandlerEnds DEF PaperStarted, HostTypes, mailbox, desk
  <2> QED
    BY <1>12, <2>1, <2>2 DEF PaperStarted
<1>13. ASSUME StopPaper(c) PROVE Kept
  <2>1. PICK s \in Step : s = [op |-> "paper_stop", pc |-> "joining"]
    BY DEF Step
  <2>2. PICK w : w = Waiting(s.op, s.pc, control.generation)
    OBVIOUS
  <2>3. w \in ActorRecord /\ w.op = "paper_stop"
    BY <1>1, <1>2, <2>1, <2>2, WaitingIs DEF HostTypes
  <2>4. actor' = Counted(c, w, {"paper"})
    BY <1>13, <2>1, <2>2 DEF StopPaper
  <2>5. /\ actor' \in [Actor -> ActorRecord] /\ actor'[c] = w
        /\ \A b \in Actor : b # c =>
              /\ actor'[b].op = actor[b].op /\ actor'[b].pc = actor[b].pc
              /\ actor'[b].generation = actor[b].generation
              /\ actor'[b].joins = actor[b].joins
              /\ actor'[b].current => actor[b].current
    BY <1>1, <2>3, <2>4, CountedIs DEF HostTypes
  <2>6. \A b \in Client : actor'[b].op = "enable" /\ actor'[b].current
                          => actor[b].op = "enable" /\ actor[b].current
    BY <2>3, <2>5, ActorsDiffer
  <2>7. /\ agent' = agent \/ agent' = "idle" \/ (agent = "running" /\ agent' = "unwinding")
        /\ agent' \in {"idle", "running", "unwinding"}
        /\ runs' = runs /\ control' = control /\ bridge' = bridge
    BY <1>1, <1>13 DEF StopPaper, StoppedAgent, HostTypes, mailbox
  <2>8. ResearchStopped'
    BY <1>1, <2>5, <2>6, <2>7, StaysStopped
  <2> QED
    BY <1>1, <1>2, <1>13, <2>5, <2>7, <2>8 DEF StopPaper, Accept, HostTypes
<1>14. ASSUME Connect(c) PROVE Kept
  <2>1. PICK g \in Nat : CloseResearch(c, g)
    BY <1>2, <1>14 DEF Connect
  <2>2. /\ bridge' = 0 /\ agent' = "idle" /\ runs' = runs
        /\ control' = control /\ connected' = connected
        /\ actor' \in [Actor -> ActorRecord]
        /\ actor'[c].op \in {"run", "connect"}
        /\ \A b \in Actor : b # c =>
              /\ actor'[b].op = actor[b].op /\ actor'[b].pc = actor[b].pc
              /\ actor'[b].generation = actor[b].generation
              /\ actor'[b].joins = actor[b].joins
              /\ actor'[b].current => actor[b].current /\ actor[b].op \notin Revised
    BY <1>1, <2>1, CloseResearchTypes
  <2>3. \A b \in Client : actor'[b].op = "enable" /\ actor'[b].current
                          => actor[b].op = "enable" /\ actor[b].current
    BY <2>2, ActorsDiffer
  <2>4. ResearchStopped'
    BY <1>1, <2>2, <2>3, StaysStopped
  <2> QED
    BY <1>1, <1>2, <1>14, <2>2, <2>4 DEF Connect, Accept, HostTypes
<1> HIDE DEF Kept
<1>15. Kept
  BY <1>3, <1>4, <1>5, <1>6, <1>7, <1>8, <1>9, <1>11, <1>12, <1>13, <1>14
<1> QED
  BY <1>15 DEF Kept

(* The steps of the runner, and of whoever stops research for it. *)
LEMMA RunnerStep ==
    ASSUME TypeOK, ResearchStopped,
           \/ \E a \in Actor : PollEnded(a) \/ Joined(a) \/ Connected(a)
           \/ RunStopsResearch \/ RunConnects \/ RunTrades \/ RunEnds
    PROVE  HostTypes' /\ ResearchStopped'
<1> DEFINE Kept == HostTypes' /\ ResearchStopped'
<1>1. HostTypes /\ Runner \in Actor
  BY ActorsDiffer DEF TypeOK, HostTypes
<1>2. /\ runs \in 0..Runs /\ actor \in [Actor -> ActorRecord]
      /\ \A a \in Actor : actor[a] \in ActorRecord /\ actor[a].generation \in Nat
  BY <1>1 DEF HostTypes, ActorRecord
<1>3. ASSUME NEW a \in Actor, PollEnded(a) PROVE Kept
  <2>1. PICK r : r = [actor[a] EXCEPT !.pc = "joining", !.joins = runs]
    OBVIOUS
  <2>2. /\ r \in ActorRecord /\ r.pc = "joining" /\ r.joins = runs
        /\ r.op = actor[a].op /\ r.generation = actor[a].generation
        /\ r.current = actor[a].current
    BY <1>2, <2>1 DEF ActorRecord
  <2>3. actor' = [actor EXCEPT ![a] = r]
    BY <1>2, <1>3, <2>1 DEF PollEnded
  <2>4. /\ actor' \in [Actor -> ActorRecord] /\ actor'[a] = r
        /\ \A b \in Actor : b # a => actor'[b] = actor[b]
    BY <1>2, <2>2, <2>3
  <2>5. /\ agent' = agent \/ agent' = "idle" \/ (agent = "running" /\ agent' = "unwinding")
        /\ agent' \in {"idle", "unwinding"}
        /\ actor[a].pc = "polling"
        /\ runs' = runs /\ control' = control /\ bridge' = bridge
    BY <1>1, <1>3 DEF PollEnded, Resumes, StoppedAgent, HostTypes, mailbox
  <2>6. \A c \in Client : actor'[c].op = "enable" /\ actor'[c].current
                          => actor[c].op = "enable" /\ actor[c].current
    BY <2>2, <2>4, ActorsDiffer
  <2>7. CASE a # Runner
    BY <1>1, <1>3, <2>4, <2>5, <2>6, <2>7, StaysStopped DEF PollEnded, HostTypes
  <2>8. CASE a = Runner
    <3>1. /\ actor'[Runner].pc = "joining" /\ actor'[Runner].joins = runs'
          /\ actor'[Runner].generation = actor[Runner].generation
          /\ actor[Runner].pc = "polling"
      BY <2>2, <2>4, <2>5, <2>8
    <3>2. Yielding' => Yielding
      BY <2>5, <3>1 DEF Yielding, Trading, RunnerPast, SessionCurrent
    <3>3. Yielding' => bridge' = 0 /\ \A c \in Client : actor'[c].op = "enable" => ~actor'[c].current
      BY <2>5, <2>6, <3>2 DEF ResearchStopped
    <3>4. ~Trading' /\ ~RunnerPast({"ready", "connecting"})'
      BY <3>1 DEF Trading, RunnerPast
    <3>5. ResearchStopped'
      BY <2>5, <3>1, <3>3, <3>4 DEF ResearchStopped
    <3> QED
      BY <1>1, <1>3, <2>4, <2>5, <3>5 DEF PollEnded, HostTypes
  <2> QED
    BY <2>7, <2>8
<1>4. ASSUME NEW a \in Actor, NEW pc \in {"ready", "trading"},
             actor' = [actor EXCEPT ![a].pc = pc],
             control' = control, bridge' = bridge, agent' = agent, runs' = runs,
             a = Runner /\ SessionCurrent => Yielding /\ agent = "idle",
             a = Runner /\ pc = "trading" => SessionCurrent,
             connected' \in BOOLEAN, budget' \in 0..Commands
      PROVE  Kept
  <2>1. PICK r : r = [actor[a] EXCEPT !.pc = pc]
    OBVIOUS
  <2>2. /\ r \in ActorRecord /\ r.pc = pc /\ r.joins = actor[a].joins
        /\ r.op = actor[a].op /\ r.generation = actor[a].generation
        /\ r.current = actor[a].current
    BY <1>2, <2>1 DEF ActorRecord
  <2>3. actor' = [actor EXCEPT ![a] = r]
    BY <1>2, <1>4, <2>1
  <2>4. /\ actor' \in [Actor -> ActorRecord] /\ actor'[a] = r
        /\ \A b \in Actor : b # a => actor'[b] = actor[b]
    BY <1>2, <2>2, <2>3
  <2>5. \A c \in Client : actor'[c].op = "enable" /\ actor'[c].current
                          => actor[c].op = "enable" /\ actor[c].current
    BY <2>2, <2>4, ActorsDiffer
  <2>6. CASE a # Runner
    <3>1. ResearchStopped'
      BY <1>1, <1>4, <2>4, <2>5, <2>6, StaysStopped
    <3> QED
      BY <1>1, <1>4, <2>4, <3>1 DEF HostTypes
  <2>7. CASE a = Runner
    <3>1. actor'[Runner].pc = pc /\ actor'[Runner].generation = actor[Runner].generation
      BY <2>2, <2>4, <2>7
    <3>2. Yielding' => SessionCurrent
      BY <1>4, <2>7, <3>1 DEF Yielding, Trading, RunnerPast, SessionCurrent
    <3>3. Yielding' => /\ bridge' = 0 /\ agent' = "idle"
                       /\ \A c \in Client : actor'[c].op = "enable" => ~actor'[c].current
      BY <1>4, <2>5, <2>7, <3>2 DEF ResearchStopped
    <3>4. ~RunnerPast({"joining"})' /\ ~RunnerPast({"polling", "joining"})'
      BY <3>1 DEF RunnerPast
    <3>5. RunnerPast({"ready", "connecting"})' \/ Trading' => Yielding'
      BY DEF RunnerPast, Yielding
    <3>6. ResearchStopped'
      BY <3>3, <3>4, <3>5 DEF ResearchStopped
    <3> QED
      BY <1>1, <1>4, <2>4, <3>6 DEF HostTypes
  <2> QED
    BY <2>6, <2>7
<1>5. ASSUME NEW a \in Actor, Joined(a) PROVE Kept
  <2>1. /\ actor' = [actor EXCEPT ![a].pc = "ready"]
        /\ control' = control /\ bridge' = bridge /\ agent' = agent /\ runs' = runs
        /\ connected' = connected /\ budget' = budget
        /\ actor[a].pc = "joining" /\ (actor[a].joins # runs \/ agent = "idle")
    BY <1>5 DEF Joined, Resumes, mailbox, desk
  <2>2. a = Runner /\ SessionCurrent => Yielding /\ agent = "idle"
    BY <2>1 DEF Yielding, RunnerPast, ResearchStopped
  <2> QED
    BY <1>1, <1>4, <2>1, <2>2 DEF HostTypes
<1>6. ASSUME NEW a \in Actor, Connected(a) PROVE Kept
  <2>1. /\ control' = control /\ bridge' = bridge /\ agent' = agent /\ runs' = runs
        /\ connected' \in BOOLEAN /\ budget' = budget
        /\ actor[a].pc = "connecting"
    BY <1>6 DEF Connected, Resumes, mailbox, desk
  <2>2. CASE a = Runner
    <3>1. actor' = [actor EXCEPT ![a].pc = "ready"]
      BY <1>6, <2>2 DEF Connected
    <3>2. SessionCurrent => Yielding /\ agent = "idle"
      BY <2>1, <2>2 DEF Yielding, RunnerPast, ResearchStopped
    <3> QED
      BY <1>1, <1>4, <2>1, <3>1, <3>2 DEF HostTypes
  <2>3. CASE a # Runner
    <3>1. a \in Client /\ actor' = [actor EXCEPT ![a] = Idle]
      BY <1>6, <2>3 DEF Connected, Actor
    <3> QED
      BY <1>1, <2>1, <3>1, HandlerEnds DEF HostTypes
  <2> QED
    BY <2>2, <2>3
<1>7. ASSUME RunStopsResearch PROVE Kept
  <2>1. PICK g \in Nat : g = actor[Runner].generation
    BY <1>1, <1>2
  <2>2. PICK kind \in {"run", "start", "stop", "disable"} : kind = "run"
    OBVIOUS
  <2>3. StopResearch(Runner, kind, g) /\ UNCHANGED <<control, connected, budget>>
    BY <1>7, <2>1, <2>2 DEF RunStopsResearch
  <2>4. /\ bridge' = 0 /\ agent' \in {"idle", "unwinding"} /\ runs' = runs
        /\ actor' \in [Actor -> ActorRecord]
        /\ actor'[Runner].pc \in {"polling", "joining"} /\ actor'[Runner].joins = runs
        /\ \A b \in Actor : b # Runner =>
              /\ actor'[b].op = actor[b].op
              /\ actor'[b].current => actor[b].current /\ actor[b].op \notin Revised
    BY <1>1, <2>3, StopResearchTypes
  <2>5. \A c \in Client : actor'[c].op = "enable" => ~actor'[c].current
    BY <2>4, ActorsDiffer DEF Revised
  <2>6. ~Trading' /\ ~RunnerPast({"ready", "connecting"})'
    BY <2>4 DEF Trading, RunnerPast
  <2>7. ResearchStopped'
    BY <2>4, <2>5, <2>6 DEF ResearchStopped
  <2> QED
    BY <1>1, <2>3, <2>4, <2>7 DEF HostTypes
<1>8. ASSUME RunConnects PROVE Kept
  <2>1. PICK g \in Nat : g = actor[Runner].generation
    BY <1>1, <1>2
  <2>2. CloseResearch(Runner, g) /\ UNCHANGED budget
    BY <1>8, <2>1 DEF RunConnects
  <2>3. /\ bridge' = 0 /\ agent' = "idle" /\ runs' = runs
        /\ control' = control /\ connected' = connected
        /\ actor' \in [Actor -> ActorRecord]
        /\ actor'[Runner].pc = "connecting" /\ actor'[Runner].joins = runs
        /\ \A b \in Actor : b # Runner =>
              /\ actor'[b].op = actor[b].op
              /\ actor'[b].current => actor[b].current /\ actor[b].op \notin Revised
    BY <1>1, <2>2, CloseResearchTypes
  <2>4. \A c \in Client : actor'[c].op = "enable" => ~actor'[c].current
    BY <2>3, ActorsDiffer DEF Revised
  <2>5. ResearchStopped'
    BY <2>3, <2>4 DEF ResearchStopped
  <2> QED
    BY <1>1, <2>2, <2>3, <2>5 DEF HostTypes
<1>9. ASSUME RunTrades PROVE Kept
  <2>1. /\ actor' = [actor EXCEPT ![Runner].pc = "trading"]
        /\ control' = control /\ bridge' = bridge /\ agent' = agent /\ runs' = runs
        /\ connected' = connected /\ budget' = budget
        /\ actor[Runner].pc = "ready" /\ SessionCurrent
    BY <1>9 DEF RunTrades, Resumes, MaySubmit, SessionCurrent, mailbox, desk
  <2>2. Yielding /\ agent = "idle"
    BY <2>1 DEF Yielding, RunnerPast, ResearchStopped
  <2> QED
    BY <1>1, <1>4, <2>1, <2>2 DEF HostTypes
<1>10. ASSUME RunEnds PROVE Kept
  <2>1. control' \in Control
    BY <1>1, <1>10, RecordOperators DEF RunEnds, HostTypes
  <2>2. actor' = Counted(Runner, Idle, Revised) \/ actor' = [actor EXCEPT ![Runner] = Idle]
    BY <1>10 DEF RunEnds
  <2>3. actor' \in [Actor -> ActorRecord] /\ actor'[Runner] = Idle
    BY <1>1, <1>2, <2>2, IdleIs, CountedIs
  <2>4. ~Yielding'
    BY <2>3, IdleIs DEF Yielding, Trading, RunnerPast
  <2>5. agent' \in {"idle", "running", "unwinding"} /\ runs' = runs
    BY <1>1, <1>10 DEF RunEnds, Disable, StoppedAgent, HostTypes, desk
  <2> QED
    BY <1>1, <1>10, <2>1, <2>3, <2>4, <2>5, NothingToYield DEF RunEnds, HostTypes
<1> HIDE DEF Kept
<1>11. Kept
  BY <1>3, <1>5, <1>6, <1>7, <1>8, <1>9, <1>10
<1> QED
  BY <1>11 DEF Kept

(* The steps of the mailbox, of the desk and of the process. *)
LEMMA OtherStep ==
    ASSUME TypeOK, ResearchStopped,
           \/ \E q \in Request : (Sender(q) /\ Outside) \/ HandleRequest(q)
           \/ (HeartbeatLapses /\ Outside)
           \/ AgentStops \/ AgentEnds \/ Poll \/ PollDone \/ PollFails
           \/ LoseBroker \/ Fence \/ Restart \/ UNCHANGED vars
    PROVE  HostTypes' /\ ResearchStopped'
<1> DEFINE Kept == HostTypes' /\ ResearchStopped'
<1>1. HostTypes /\ Runner \in Actor
  BY ActorsDiffer DEF TypeOK, HostTypes
<1>2. budget > 0 => budget - 1 \in 0..Commands
  BY CommandsAssumption DEF TypeOK
<1>3. ASSUME control' = control \/ (control' \in Control /\ ~control'.running),
             connected' \in BOOLEAN, budget' \in 0..Commands,
             bridge' = bridge \/ bridge' = 0, runs' = runs, actor' = actor,
             agent' = agent \/ agent' = "idle" \/ (agent = "running" /\ agent' = "unwinding")
      PROVE  Kept
  <2>1. ResearchStopped'
    BY <1>3, StaysStopped
  <2> QED
    BY <1>1, <1>3, <2>1 DEF HostTypes
<1>4. ASSUME NEW q \in Request, Sender(q), Outside PROVE Kept
  <2>1. bridge' = bridge
    BY <1>4 DEF Sender, Post, FindOff, FindDiscarded, FindAnswer, Expire, Abandon, Leave, Age
  <2> QED
    BY <1>1, <1>3, <1>4, <2>1 DEF Outside, desk, HostTypes
<1>5. ASSUME NEW q \in Request, HandleRequest(q) PROVE Kept
  <2>1. UNCHANGED <<control, connected, actor, budget, bridge>>
    BY <1>5 DEF HandleRequest, Handled
  <2>2. CASE ~ExecutionActive /\ Free("demo") /\ StartAgent
    <3>1. agent' = "running" /\ runs' \in 0..Runs
      BY <1>1, <2>2, RunsAssumption DEF StartAgent, Free, HostTypes
    <3>2. ~Yielding'
      BY <2>1, <2>2 DEF ExecutionActive, Yielding, Trading, RunnerPast, SessionCurrent
    <3> QED
      BY <1>1, <2>1, <3>1, <3>2, NothingToYield DEF HostTypes
  <2>3. CASE UNCHANGED desk \/ (agent' = StoppedAgent /\ UNCHANGED runs)
    BY <1>1, <1>3, <2>1, <2>3 DEF StoppedAgent, desk, HostTypes
  <2> QED
    BY <1>5, <2>2, <2>3 DEF HandleRequest
<1>6. ASSUME HeartbeatLapses, Outside PROVE Kept
  BY <1>1, <1>3, <1>6 DEF HeartbeatLapses, Outside, desk, HostTypes
<1>7. ASSUME AgentStops \/ AgentEnds PROVE Kept
  BY <1>1, <1>3, <1>7 DEF AgentStops, AgentEnds, mailbox, HostTypes
<1>8. ASSUME Poll \/ PollDone PROVE Kept
  BY <1>1, <1>3, <1>8 DEF Poll, PollDone, BeginPoll, CommitPoll, desk, HostTypes
<1>9. ASSUME PollFails PROVE Kept
  <2>1. /\ bridge' = 0 /\ agent' = StoppedAgent /\ runs' = runs
        /\ control' = control /\ connected' = connected /\ budget' = budget
    BY <1>9 DEF PollFails, Disable, DisableBridge
  <2>2. \A r \in ActorRecord :
           LET n == [r EXCEPT !.current = FALSE]
           IN n \in ActorRecord /\ n.op = r.op /\ n.pc = r.pc
              /\ n.generation = r.generation /\ n.joins = r.joins /\ ~n.current
    BY DEF ActorRecord
  <2>3. /\ actor' \in [Actor -> ActorRecord]
        /\ \A b \in Actor : /\ actor'[b].op = actor[b].op /\ actor'[b].pc = actor[b].pc
                            /\ actor'[b].generation = actor[b].generation
                            /\ actor'[b].joins = actor[b].joins
                            /\ actor'[b].current => actor[b].current
    BY <1>1, <1>9, <2>2 DEF PollFails, HostTypes
  <2>4. \A c \in Client : actor'[c].op = "enable" /\ actor'[c].current
                          => actor[c].op = "enable" /\ actor[c].current
    BY <2>3, ActorsDiffer
  <2>5. agent' = agent \/ agent' = "idle" \/ (agent = "running" /\ agent' = "unwinding")
    BY <2>1 DEF StoppedAgent
  <2>6. ResearchStopped'
    BY <1>1, <2>1, <2>3, <2>4, <2>5, StaysStopped
  <2> QED
    BY <1>1, <2>1, <2>3, <2>5, <2>6 DEF HostTypes
<1>10. ASSUME LoseBroker PROVE Kept
  BY <1>1, <1>3, <1>10 DEF LoseBroker, mailbox, desk, HostTypes
<1>11. ASSUME Fence PROVE Kept
  <2>1. control' \in Control /\ ~control'.running
    BY <1>1, <1>11, RecordOperators DEF Fence, HostTypes
  <2> QED
    BY <1>1, <1>2, <1>3, <1>11, <2>1 DEF Fence, mailbox, desk, HostTypes
<1>12. ASSUME Restart PROVE Kept
  <2>1. PICK g \in Nat : g = control.generation
    BY <1>1 DEF HostTypes, Control
  <2>2. PICK r : r = [Idle EXCEPT !.op = "run", !.pc = "launched", !.generation = g]
    OBVIOUS
  <2>3. r \in ActorRecord /\ r.pc = "launched"
    BY <2>2, LaunchedIs
  <2>4. /\ actor' \in [Actor -> ActorRecord]
        /\ actor'[Runner].pc \in {"launched", "idle"}
        /\ control' \in Control
    <3>1. CASE actor' = [a \in Actor |-> IF a = Runner THEN r ELSE Idle] /\ control' = control
      BY <1>1, <2>3, <3>1, IdleIs DEF HostTypes
    <3>2. CASE /\ actor' = [a \in Actor |-> Idle]
               /\ control' = IF control.running THEN Stopped(control) ELSE control
      BY <1>1, <3>2, IdleIs, RecordOperators DEF HostTypes
    <3> QED
      BY <1>12, <2>1, <2>2, <3>1, <3>2 DEF Restart
  <2>5. ~Yielding'
    BY <2>4 DEF Yielding, Trading, RunnerPast
  <2>6. agent' = "idle" /\ runs' = runs /\ connected' = FALSE /\ budget' \in 0..Commands
    BY <1>2, <1>12 DEF Restart
  <2> QED
    BY <1>1, <2>4, <2>5, <2>6, NothingToYield DEF HostTypes
<1>13. ASSUME UNCHANGED vars PROVE Kept
  BY <1>1, <1>3, <1>13 DEF vars, mailbox, desk, HostTypes
<1> HIDE DEF Kept
<1>14. Kept
  BY <1>4, <1>5, <1>6, <1>7, <1>8, <1>9, <1>10, <1>11, <1>12, <1>13
<1> QED
  BY <1>14 DEF Kept

-----------------------------------------------------------------------------
(* The theorems *)

LEMMA HostStarts == Init => HostInv
<1> SUFFICES ASSUME Init PROVE HostInv
  OBVIOUS
<1>1. BridgeTypeOK
  <2>1. minted = 0 /\ minted \in 0..Sessions /\ 0 \in 0..minted /\ 0 \in Nat
    BY SessionsAssumption DEF Init, BridgeInit
  <2>2. NoPoll \in [open : BOOLEAN, due : SUBSET Request, answered : SUBSET Request]
    BY DEF NoPoll
  <2> QED
    BY <2>1, <2>2 DEF Init, BridgeInit, BridgeTypeOK
<1>2. InitialControl \in Control
  BY DEF InitialControl, Control
<1>3. control \in Control
  BY <1>2, RecordOperators DEF Init
<1>4. TypeOK
  BY <1>1, <1>3, IdleIs, RunsAssumption, CommandsAssumption DEF Init, TypeOK
<1>5. PollConsistent /\ HandledIsOver /\ SendersKnow
  BY DEF Init, BridgeInit, PollConsistent, HandledIsOver, SendersKnow, NoPoll
<1>6. actor[Runner].pc = "idle"
  BY IdleIs, ActorsDiffer DEF Init
<1>7. ResearchStopped
  BY <1>6 DEF ResearchStopped, Yielding, Trading, RunnerPast
<1> QED
  BY <1>1, <1>4, <1>5, <1>7 DEF HostInv, MailboxInv

LEMMA HostStep == HostInv /\ [Next]_vars => HostInv'
<1> SUFFICES ASSUME HostInv, [Next]_vars PROVE HostInv'
  OBVIOUS
<1>1. MailboxInv'
  BY StepsOfTheMailbox, MailboxKept DEF HostInv
<1>2. TypeOK /\ ResearchStopped
  BY DEF HostInv
<1>3. HostTypes' /\ ResearchStopped'
  BY <1>2, ClientSteps, RunnerStep, OtherStep DEF Next
<1>4. TypeOK'
  BY <1>1, <1>3 DEF TypeOK, HostTypes, MailboxInv
<1> QED
  BY <1>1, <1>3, <1>4 DEF HostInv

THEOREM HostInvariant == Spec => []HostInv
  BY HostStarts, HostStep, PTL DEF Spec

(* Paper research is stopped before a live session trades, and stays stopped:
   no run of the desk, not even one that is unwinding, and no open mailbox,
   whatever commands, polls, fences and restarts happen while the runner
   waits and trades. *)
THEOREM ResearchYieldsToTrading == Spec => []ResearchYields
<1>1. HostInv => ResearchYields
  BY DEF HostInv, ResearchStopped, Yielding, ResearchYields
<1> QED
  BY HostInvariant, <1>1, PTL

(* A request of the mailbox takes effect at most once, under the session that
   was valid when it was sent, and never after its sender was told that it is
   discarded: a failed poll or a crash half way loses a request, and a new
   session does not find it. *)
THEOREM RequestsHandledOnce == Spec => HandledOnce
<1> DEFINE Once == \A q \in Request :
                      handled'[q] # handled[q] =>
                         /\ handled[q] = 0
                         /\ session = joined[q] /\ bridge = joined[q]
                         /\ sender[q] # "discarded"
<1>1. HostInv /\ [Next]_vars => [Once]_vars
  <2> SUFFICES ASSUME HostInv, MailboxStep PROVE Once
    BY StepsOfTheMailbox
  <2>1. MailboxInv
    BY DEF HostInv
  <2>2. ASSUME NEW q \in Request, handled'[q] # handled[q] PROVE Handled(q)
    <3>1. handled' # handled
      BY <2>2
    <3>2. PICK p \in Request : Handled(p)
      BY <3>1 DEF MailboxStep, Sender, Post, FindOff, FindDiscarded, FindAnswer, Expire, Abandon,
                  Leave, Age, HeartbeatLapses, EnableBridge, DisableBridge, BeginPoll, CommitPoll,
                  mailbox
    <3>3. handled' = [handled EXCEPT ![p] = handled[p] + 1]
      BY <3>2 DEF Handled
    <3>4. q = p
      BY <2>1, <2>2, <3>3 DEF MailboxInv, BridgeTypeOK
    <3> QED
      BY <3>2, <3>4
  <2>3. ASSUME NEW q \in Request, Handled(q)
        PROVE  /\ handled[q] = 0 /\ session = joined[q] /\ bridge = joined[q]
               /\ sender[q] # "discarded"
    <3>1. poll.open /\ q \in poll.due
      BY <2>3 DEF Handled
    <3> QED
      BY <2>1, <3>1 DEF MailboxInv, PollConsistent, SendersKnow
  <2> QED
    BY <2>2, <2>3
<1> QED
  BY HostInvariant, <1>1, PTL DEF Spec, HandledOnce

-----------------------------------------------------------------------------
(* BrokerSession.  The connection lock says who works on the broker object. *)

(* Where the connection's task is. *)
TaskPhase == {"none", "made", "rereading", "quieting", "replacing", "connecting", "checking", "undoing",
              "done", "failed"}
CommandPhase == {"idle", "waiting", "connecting", "given up", "dropping", "reading"}

Entry == [op : {"none", "connect", "review", "run"}, pc : CommandPhase, reads : Nat]

BrokerTypeOK ==
    /\ made \in Nat /\ broker \in Nat /\ unavailable \in BOOLEAN
    /\ open \subseteq Nat /\ up \subseteq Nat /\ verified \subseteq Nat
    /\ task \in TaskPhase /\ cancelled \in BOOLEAN
    /\ connecting \in Client \cup {Nobody, Closer}
    /\ command \in [Client -> Entry]
    /\ closing \in BOOLEAN /\ close \in {"no", "waiting", "locking", "dropping", "refused", "done"}

(* Who waits for the connection, or drops what came of it, holds the lock;
   the task lives under the lock of a command that waits. *)
LockGuards ==
    /\ \A c \in Client : command[c].pc \in {"connecting", "given up", "dropping"} => connecting = c
    /\ task # "none" => connecting \in Client /\ command[connecting].pc \in {"connecting", "given up"}
    /\ close = "dropping" => connecting = Closer
    /\ close # "no" => closing
    /\ close = "done" => connecting = Nobody

(* There is no transport but the present object's. *)
OnlyThePresent == open \subseteq {broker} /\ up \subseteq {broker} \ {0}

(* What may be used was checked, and so was what a command reads through. *)
UsableIsChecked ==
    /\ broker # 0 /\ ~unavailable => broker \in verified
    /\ task \in {"connecting", "checking"} => broker # 0
    /\ task \in {"rereading", "done"} => broker \in verified
    /\ \A c \in Client : command[c].pc = "reading" => command[c].reads \in verified
    /\ engine # Nobody => engine \in verified
    /\ close = "done" => broker = 0 \/ unavailable

BrokerInv == BrokerTypeOK /\ LockGuards /\ OnlyThePresent /\ UsableIsChecked

LEMMA BrokerStarts == Runtime!Init => BrokerInv
<1> SUFFICES ASSUME Runtime!Init PROVE BrokerInv
  OBVIOUS
<1> USE DEF Runtime!Init
<1>1. Runtime!Idle \in Entry
  BY DEF Runtime!Idle, Entry, CommandPhase
<1>2. BrokerTypeOK
  BY <1>1 DEF BrokerTypeOK, TaskPhase
<1>3. LockGuards /\ OnlyThePresent /\ UsableIsChecked
  BY DEF LockGuards, OnlyThePresent, UsableIsChecked, Runtime!Idle
<1> QED
  BY <1>2, <1>3 DEF BrokerInv

(* What a step of a command does to its entry. *)
CommandTurns(c, entry) ==
    /\ command' \in [Client -> Entry]
    /\ command'[c] = entry
    /\ \A d \in Client \ {c} : command'[d] = command[d]

LEMMA EntryTurns ==
    ASSUME command \in [Client -> Entry], NEW c \in Client, NEW entry \in Entry,
           command' = [command EXCEPT ![c] = entry]
    PROVE  CommandTurns(c, entry)
  BY DEF CommandTurns

LEMMA PhaseTurns ==
    ASSUME command \in [Client -> Entry], NEW c \in Client, NEW phase \in CommandPhase,
           command' = [command EXCEPT ![c].pc = phase]
    PROVE  /\ CommandTurns(c, [command[c] EXCEPT !.pc = phase])
           /\ command'[c].pc = phase /\ command'[c].reads = command[c].reads
<1>1. [command[c] EXCEPT !.pc = phase] \in Entry
  BY DEF Entry
<1>2. command' = [command EXCEPT ![c] = [command[c] EXCEPT !.pc = phase]]
  OBVIOUS
<1>3. [command[c] EXCEPT !.pc = phase].pc = phase /\ [command[c] EXCEPT !.pc = phase].reads = command[c].reads
  BY DEF Entry
<1> QED
  BY <1>1, <1>2, <1>3 DEF CommandTurns

LEMMA IdleEntry == Runtime!Idle \in Entry /\ Runtime!Idle.pc = "idle"
  BY DEF Runtime!Idle, Entry, CommandPhase

(* The object after a teardown, gone or fenced. *)
Dismantled ==
    /\ broker' \in {0, broker} /\ broker' \in Nat /\ unavailable' \in BOOLEAN
    /\ broker' # 0 => unavailable'
    /\ open' \subseteq {broker'} /\ up' \subseteq {broker'} \ {0}
    /\ open' \subseteq Nat /\ up' \subseteq Nat
    /\ made' = made /\ verified' = verified

LEMMA Teardown ==
    ASSUME BrokerInv, Runtime!TornDown \/ Runtime!TeardownFails
    PROVE  Dismantled
<1> USE DEF BrokerInv, BrokerTypeOK, OnlyThePresent, Dismantled
<1>1. CASE Runtime!TornDown
  BY <1>1 DEF Runtime!TornDown
<1>2. CASE Runtime!TeardownFails
  BY <1>2 DEF Runtime!TeardownFails
<1> QED
  BY <1>1, <1>2

(* The object the factory made, before its transport is up. *)
Fresh ==
    /\ made' \in Nat /\ broker' \in Nat /\ broker' # 0 /\ unavailable' = TRUE
    /\ open' = {broker'} /\ up' = {}
    /\ verified' = verified

LEMMA BrokerMade ==
    ASSUME BrokerInv, Runtime!MakeBroker
    PROVE  Fresh
<1>1. open \ {broker} = {} /\ up \ {broker} = {} /\ made \in Nat
  BY DEF BrokerInv, BrokerTypeOK, OnlyThePresent
<1>2. made' = made + 1 /\ broker' = made' /\ open' = (open \ {broker}) \cup {made'}
      /\ up' = up \ {broker} /\ unavailable' = TRUE /\ verified' = verified
  BY DEF Runtime!MakeBroker
<1> QED
  BY <1>1, <1>2 DEF Fresh

LEMMA DropsOrMakes ==
    ASSUME BrokerInv, Runtime!DropOrMake
    PROVE  \/ Fresh /\ task' = "connecting"
           \/ unavailable' = TRUE /\ task' = "replacing" /\ UNCHANGED <<made, broker, open, up, verified>>
  BY BrokerMade DEF Runtime!DropOrMake

(* A command that neither has the lock nor takes it. *)
LEMMA LocklessStep ==
    ASSUME BrokerInv, NEW c \in Client, NEW entry \in Entry, CommandTurns(c, entry),
           command[c].pc \notin {"connecting", "given up", "dropping"},
           entry.pc \notin {"connecting", "given up", "dropping"},
           entry.pc = "reading" => entry.reads \in verified,
           UNCHANGED Runtime!objects, task' = task, cancelled' = cancelled, connecting' = connecting,
             closing' = closing, close' = close,
           engine' = engine \/ engine' \in verified
    PROVE  BrokerInv'
<1>1. UNCHANGED <<made, broker, unavailable, open, up, verified>>
  BY DEF Runtime!objects
<1>2. BrokerTypeOK'
  BY <1>1 DEF BrokerInv, BrokerTypeOK, CommandTurns
<1>3. LockGuards'
  <2>1. task # "none" => connecting \in Client \ {c} /\ command'[connecting] = command[connecting]
    BY DEF BrokerInv, LockGuards, CommandTurns
  <2>2. \A d \in Client : command'[d].pc \in {"connecting", "given up", "dropping"} => connecting = d
    BY DEF BrokerInv, LockGuards, CommandTurns
  <2> QED
    BY <1>1, <2>1, <2>2 DEF BrokerInv, LockGuards
<1>4. OnlyThePresent'
  BY <1>1 DEF BrokerInv, OnlyThePresent
<1>5. UsableIsChecked'
  BY <1>1 DEF BrokerInv, BrokerTypeOK, UsableIsChecked, CommandTurns
<1> QED
  BY <1>2, <1>3, <1>4, <1>5 DEF BrokerInv

(* The command that has the lock hands it back. *)
LEMMA UnlockingStep ==
    ASSUME Runtime!BrokerSessionAssumption, BrokerInv, NEW c \in Client, NEW entry \in Entry,
           CommandTurns(c, entry), connecting = c,
           entry.pc \notin {"connecting", "given up", "dropping"},
           entry.pc = "reading" => entry.reads \in verified,
           connecting' = Nobody, task' = "none", cancelled' \in BOOLEAN,
           UNCHANGED <<closing, close, engine>>,
           UNCHANGED Runtime!objects \/ Dismantled
    PROVE  BrokerInv'
<1>1. \/ UNCHANGED <<made, broker, unavailable, open, up, verified>>
      \/ Dismantled
  BY DEF Runtime!objects
<1>2. BrokerTypeOK'
  BY <1>1 DEF BrokerInv, BrokerTypeOK, CommandTurns, TaskPhase, Dismantled
<1>3. LockGuards'
  <2>1. close # "dropping" /\ close # "done"
    BY DEF BrokerInv, LockGuards, Runtime!BrokerSessionAssumption
  <2>2. \A d \in Client : d # c => command[d].pc \notin {"connecting", "given up", "dropping"}
    BY DEF BrokerInv, LockGuards
  <2> QED
    BY <2>1, <2>2 DEF BrokerInv, LockGuards, CommandTurns
<1>4. OnlyThePresent'
  BY <1>1 DEF BrokerInv, OnlyThePresent, Dismantled
<1>5. UsableIsChecked'
  <2>1. verified' = verified /\ (broker' # 0 /\ ~unavailable' => broker' \in verified)
    BY <1>1 DEF BrokerInv, UsableIsChecked, Dismantled
  <2>2. close' # "done"
    BY DEF BrokerInv, LockGuards, Runtime!BrokerSessionAssumption
  <2> QED
    BY <2>1, <2>2 DEF BrokerInv, UsableIsChecked, CommandTurns
<1> QED
  BY <1>2, <1>3, <1>4, <1>5 DEF BrokerInv

LEMMA CommandSteps ==
    ASSUME Runtime!BrokerSessionAssumption, BrokerInv, NEW c \in Client,
           \/ \E o \in {"connect", "review", "run"} : Runtime!Ask(c, o)
           \/ Runtime!Locked(c) \/ Runtime!Returned(c) \/ Runtime!Dropped(c) \/ Runtime!Read(c)
                \/ Runtime!Deadline(c)
    PROVE  BrokerInv'
<1>0. command \in [Client -> Entry] /\ broker \in Nat /\ command[c] \in Entry
  BY DEF BrokerInv, BrokerTypeOK
<1>1. ASSUME NEW o \in {"connect", "review", "run"}, Runtime!Ask(c, o) PROVE BrokerInv'
  <2> DEFINE entry == IF Runtime!Connected /\ o # "connect" THEN [op |-> o, pc |-> "reading", reads |-> broker]
                      ELSE [op |-> o, pc |-> "waiting", reads |-> 0]
  <2>1. entry \in Entry
    BY <1>0 DEF Entry, CommandPhase
  <2>2. entry.pc \in {"reading", "waiting"} /\ (entry.pc = "reading" => entry.reads \in verified)
    BY DEF Runtime!Connected, BrokerInv, OnlyThePresent, UsableIsChecked
  <2>3. command' = [command EXCEPT ![c] = entry] /\ command[c].pc = "idle"
    BY <1>1 DEF Runtime!Ask, Runtime!Idle
  <2>4. UNCHANGED Runtime!objects /\ UNCHANGED <<task, cancelled, connecting, closing, close>> /\ engine' = engine
    BY <1>1 DEF Runtime!Ask
  <2> HIDE DEF entry
  <2>5. CommandTurns(c, entry)
    BY <1>0, <2>1, <2>3, EntryTurns
  <2> QED
    BY <2>1, <2>2, <2>3, <2>4, <2>5, LocklessStep
<1>2. CASE Runtime!Locked(c)
  <2>1. CASE closing
    <3>1. command' = [command EXCEPT ![c] = Runtime!Idle] /\ command[c].pc = "waiting"
      BY <1>2, <2>1 DEF Runtime!Locked
    <3>2. UNCHANGED Runtime!objects /\ UNCHANGED <<task, cancelled, connecting, closing, close>> /\ engine' = engine
      BY <1>2, <2>1 DEF Runtime!Locked
    <3>3. CommandTurns(c, Runtime!Idle)
      BY <1>0, <3>1, IdleEntry, EntryTurns
    <3> QED
      BY <3>1, <3>2, <3>3, IdleEntry, LocklessStep
  <2>2. CASE ~closing
    <3>1. command' = [command EXCEPT ![c].pc = "connecting"] /\ connecting = Nobody /\ connecting' = c
            /\ task' = "made"
      BY <1>2, <2>2 DEF Runtime!Locked
    <3>2. /\ UNCHANGED <<made, broker, unavailable, open, up, verified>>
          /\ UNCHANGED <<engine, cancelled, closing, close>>
      BY <1>2, <2>2 DEF Runtime!Locked, Runtime!objects
    <3>3. CommandTurns(c, [command[c] EXCEPT !.pc = "connecting"]) /\ command'[c].pc = "connecting"
      BY <1>0, <3>1, PhaseTurns DEF CommandPhase
    <3>4. \A d \in Client : command[d].pc \notin {"connecting", "given up", "dropping"}
      BY <3>1 DEF BrokerInv, LockGuards, Runtime!BrokerSessionAssumption
    <3>5. close = "no"
      BY <2>2 DEF BrokerInv, LockGuards
    <3>6. BrokerTypeOK'
      BY <3>1, <3>2, <3>3 DEF BrokerInv, BrokerTypeOK, CommandTurns, TaskPhase
    <3>7. LockGuards'
      BY <3>1, <3>2, <3>3, <3>4, <3>5 DEF LockGuards, CommandTurns
    <3>8. OnlyThePresent'
      BY <3>2 DEF BrokerInv, OnlyThePresent
    <3>9. UsableIsChecked'
      BY <3>1, <3>2, <3>3, <3>5 DEF BrokerInv, UsableIsChecked, CommandTurns
    <3> QED
      BY <3>6, <3>7, <3>8, <3>9 DEF BrokerInv
  <2> QED
    BY <2>1, <2>2
<1>3. CASE Runtime!Returned(c)
  <2>1. CASE task = "done" /\ closing /\ command[c].pc = "connecting" /\ broker # 0
    <3>1. command' = [command EXCEPT ![c].pc = "dropping"] /\ connecting = c /\ connecting' = c /\ task' = "none"
            /\ unavailable' = TRUE
      BY <1>3, <2>1 DEF Runtime!Returned
    <3>2. cancelled' = FALSE /\ UNCHANGED <<made, broker, open, up, verified>>
            /\ UNCHANGED <<engine, closing, close>>
      BY <1>3, <2>1 DEF Runtime!Returned
    <3>3. CommandTurns(c, [command[c] EXCEPT !.pc = "dropping"]) /\ command'[c].pc = "dropping"
      BY <1>0, <3>1, PhaseTurns DEF CommandPhase
    <3>4. close # "dropping" /\ close # "done"
      BY <3>1 DEF BrokerInv, LockGuards, Runtime!BrokerSessionAssumption
    <3>6. BrokerTypeOK'
      BY <3>1, <3>2, <3>3 DEF BrokerInv, BrokerTypeOK, CommandTurns, TaskPhase
    <3>7. LockGuards'
      BY <3>1, <3>2, <3>3, <3>4 DEF BrokerInv, LockGuards, CommandTurns
    <3>8. OnlyThePresent'
      BY <3>2 DEF BrokerInv, OnlyThePresent
    <3>9. UsableIsChecked'
      BY <3>1, <3>2, <3>3, <3>4 DEF BrokerInv, UsableIsChecked, CommandTurns
    <3> QED
      BY <3>6, <3>7, <3>8, <3>9 DEF BrokerInv
  <2>2. CASE ~(task = "done" /\ closing /\ command[c].pc = "connecting" /\ broker # 0)
    <3> DEFINE entry == IF task = "done" /\ command[c].pc = "connecting"
                 /\ ~closing THEN Runtime!Onward(c) ELSE Runtime!Idle
    <3>1. command' = [command EXCEPT ![c] = entry] /\ connecting = c /\ connecting' = Nobody
            /\ UNCHANGED Runtime!objects
      BY <1>3, <2>2 DEF Runtime!Returned
    <3>2. task' = "none" /\ cancelled' \in BOOLEAN /\ UNCHANGED <<closing, close, engine>>
      BY <1>3 DEF Runtime!Returned
    <3>3. Runtime!Onward(c) \in Entry /\ Runtime!Onward(c).pc \in {"reading", "idle"}
          /\ (Runtime!Onward(c).pc = "reading" => Runtime!Onward(c).reads = broker)
      BY <1>0, IdleEntry DEF Runtime!Onward, Entry, CommandPhase
    <3>4. task = "done" => broker \in verified
      BY DEF BrokerInv, UsableIsChecked
    <3>5. entry \in Entry /\ entry.pc \in {"reading", "idle"} /\ (entry.pc = "reading" => entry.reads \in verified)
      BY <3>3, <3>4, IdleEntry
    <3> HIDE DEF entry
    <3>6. CommandTurns(c, entry)
      BY <1>0, <3>1, <3>5, EntryTurns
    <3> QED
      BY <3>1, <3>2, <3>5, <3>6, UnlockingStep
  <2> QED
    BY <2>1, <2>2
<1>4. CASE Runtime!Dropped(c)
  <2>1. command' = [command EXCEPT ![c] = Runtime!Idle] /\ connecting' = Nobody /\ command[c].pc = "dropping"
          /\ (Runtime!TornDown \/ Runtime!TeardownFails)
        /\ UNCHANGED <<closing, close, engine, task, cancelled>>
    BY <1>4 DEF Runtime!Dropped
  <2>2. connecting = c /\ task' = "none" /\ cancelled' \in BOOLEAN
    BY <2>1 DEF BrokerInv, BrokerTypeOK, LockGuards
  <2>3. Dismantled
    BY <2>1, Teardown
  <2>4. CommandTurns(c, Runtime!Idle)
    BY <1>0, <2>1, IdleEntry, EntryTurns
  <2> QED
    BY <2>1, <2>2, <2>3, <2>4, IdleEntry, UnlockingStep
<1>5. CASE Runtime!Read(c)
  <2>1. command' = [command EXCEPT ![c] = Runtime!Idle] /\ command[c].pc = "reading" /\ command[c].reads \in up
    BY <1>5 DEF Runtime!Read
  <2>2. UNCHANGED Runtime!objects /\ UNCHANGED <<task, cancelled, connecting, closing, close>>
          /\ (engine' = engine \/ engine' = broker)
    BY <1>5 DEF Runtime!Read
  <2>3. broker \in verified
    BY <2>1 DEF BrokerInv, OnlyThePresent, UsableIsChecked
  <2>4. CommandTurns(c, Runtime!Idle)
    BY <1>0, <2>1, IdleEntry, EntryTurns
  <2> QED
    BY <2>1, <2>2, <2>3, <2>4, IdleEntry, LocklessStep
<1>6. CASE Runtime!Deadline(c)
  <2>1. CASE command[c].pc = "connecting"
    <3>1. command' = [command EXCEPT ![c].pc = "given up"] /\ cancelled' \in BOOLEAN
      BY <1>6, <2>1 DEF Runtime!Deadline
    <3>2. UNCHANGED <<made, broker, unavailable, open, up, verified>>
            /\ UNCHANGED <<engine, task, connecting, closing, close>>
      BY <1>6, <2>1 DEF Runtime!Deadline, Runtime!objects
    <3>3. CommandTurns(c, [command[c] EXCEPT !.pc = "given up"]) /\ command'[c].pc = "given up"
      BY <1>0, <3>1, PhaseTurns DEF CommandPhase
    <3>6. BrokerTypeOK'
      BY <3>1, <3>2, <3>3 DEF BrokerInv, BrokerTypeOK, CommandTurns
    <3>7. LockGuards'
      BY <2>1, <3>1, <3>2, <3>3 DEF BrokerInv, LockGuards, CommandTurns
    <3>8. OnlyThePresent'
      BY <3>2 DEF BrokerInv, OnlyThePresent
    <3>9. UsableIsChecked'
      BY <3>1, <3>2, <3>3 DEF BrokerInv, UsableIsChecked, CommandTurns
    <3> QED
      BY <3>6, <3>7, <3>8, <3>9 DEF BrokerInv
  <2>2. CASE command[c].pc = "dropping"
    <3>1. command' = [command EXCEPT ![c] = Runtime!Idle] /\ connecting' = Nobody /\ Runtime!TeardownFails
          /\ UNCHANGED <<closing, close, engine, task, cancelled>>
      BY <1>6, <2>2 DEF Runtime!Deadline
    <3>2. connecting = c /\ task' = "none" /\ cancelled' \in BOOLEAN
      BY <2>2, <3>1 DEF BrokerInv, BrokerTypeOK, LockGuards
    <3>3. Dismantled
      BY <3>1, Teardown
    <3>4. CommandTurns(c, Runtime!Idle)
      BY <1>0, <3>1, IdleEntry, EntryTurns
    <3> QED
      BY <3>1, <3>2, <3>3, <3>4, IdleEntry, UnlockingStep
  <2>3. CASE command[c].pc \in {"waiting", "reading"}
    <3>1. command' = [command EXCEPT ![c] = Runtime!Idle]
      BY <1>6, <2>3 DEF Runtime!Deadline
    <3>2. UNCHANGED Runtime!objects /\ UNCHANGED <<task, cancelled, connecting, closing, close>> /\ engine' = engine
      BY <1>6, <2>3 DEF Runtime!Deadline
    <3>3. CommandTurns(c, Runtime!Idle)
      BY <1>0, <3>1, IdleEntry, EntryTurns
    <3> QED
      BY <2>3, <3>2, <3>3, IdleEntry, LocklessStep
  <2> QED
    BY <1>6, <2>1, <2>2, <2>3 DEF Runtime!Deadline
<1> QED
  BY <1>1, <1>2, <1>3, <1>4, <1>5, <1>6

(* A step of the connection's task. *)
LEMMA TaskStep ==
    ASSUME Runtime!BrokerSessionAssumption, BrokerInv, task # "none", task' \in TaskPhase \ {"none"},
           cancelled' \in BOOLEAN,
           UNCHANGED <<connecting, command, closing, close, engine>>,
           BrokerTypeOK', OnlyThePresent', verified \subseteq verified',
           broker' # 0 /\ ~unavailable' => broker' \in verified',
           task' \in {"connecting", "checking"} => broker' # 0,
           task' \in {"rereading", "done"} => broker' \in verified'
    PROVE  BrokerInv'
<1>1. connecting \in Client /\ command[connecting].pc \in {"connecting", "given up"}
  BY DEF BrokerInv, LockGuards
<1>2. LockGuards'
  BY <1>1 DEF BrokerInv, LockGuards
<1>3. close # "done"
  BY <1>1 DEF BrokerInv, LockGuards, Runtime!BrokerSessionAssumption
<1>4. UsableIsChecked'
  BY <1>3 DEF BrokerInv, UsableIsChecked
<1> QED
  BY <1>2, <1>4 DEF BrokerInv

LEMMA TaskSteps ==
    ASSUME Runtime!BrokerSessionAssumption, BrokerInv,
           \/ Runtime!Begin \/ Runtime!Reread \/ Runtime!Quieted \/ Runtime!Replaced \/ Runtime!TransportUp
                \/ Runtime!Checked \/ Runtime!Undone \/ Runtime!Interrupted
    PROVE  BrokerInv'
<1> USE Runtime!BrokerSessionAssumption DEF TaskPhase
<1>0. /\ BrokerTypeOK /\ OnlyThePresent /\ UsableIsChecked
      /\ made \in Nat /\ broker \in Nat
  BY DEF BrokerInv, BrokerTypeOK
<1>1. ASSUME Fresh, task # "none", task' = "connecting", cancelled' = cancelled,
             UNCHANGED <<connecting, command, closing, close, engine>>
      PROVE  BrokerInv'
  <2>1. BrokerTypeOK' /\ OnlyThePresent'
    BY <1>0, <1>1 DEF BrokerTypeOK, OnlyThePresent, Fresh
  <2>2. cancelled' \in BOOLEAN
    BY <1>0, <1>1 DEF BrokerTypeOK
  <2> QED
    BY <1>1, <2>1, <2>2, TaskStep DEF Fresh
<1>2. ASSUME NEW to \in {"failed", "replacing", "undoing", "quieting"}, task # "none", task' = to,
             cancelled' \in BOOLEAN,
             UNCHANGED <<connecting, command, closing, close, engine>>,
             \/ UNCHANGED Runtime!objects
             \/ unavailable' = TRUE /\ UNCHANGED <<made, broker, open, up, verified>>
             \/ Dismantled
      PROVE  BrokerInv'
  <2>1. \/ UNCHANGED <<made, broker, unavailable, open, up, verified>>
        \/ unavailable' = TRUE /\ UNCHANGED <<made, broker, open, up, verified>>
        \/ Dismantled
    BY <1>2 DEF Runtime!objects
  <2>2. BrokerTypeOK' /\ OnlyThePresent'
    BY <1>0, <1>2, <2>1 DEF BrokerTypeOK, OnlyThePresent, Dismantled
  <2>3. verified' = verified /\ (broker' # 0 /\ ~unavailable' => broker' \in verified)
    BY <1>0, <2>1 DEF UsableIsChecked, Dismantled
  <2> QED
    BY <1>2, <2>2, <2>3, TaskStep
<1>3. cancelled \in BOOLEAN
  BY <1>0 DEF BrokerTypeOK
<1>4. CASE Runtime!Begin
  <2>1. CASE Runtime!Connected /\ task' = "rereading" /\ UNCHANGED <<Runtime!objects, reader>>
    <3>1. broker \in verified /\ task # "none"
      BY <1>0, <1>4, <2>1 DEF Runtime!Begin, Runtime!Connected, OnlyThePresent, UsableIsChecked
    <3>2. UNCHANGED <<made, broker, unavailable, open, up, verified>>
            /\ UNCHANGED <<cancelled, connecting, command, closing, close, engine>>
      BY <1>4, <2>1 DEF Runtime!Begin, Runtime!objects
    <3>3. BrokerTypeOK' /\ OnlyThePresent'
      BY <1>0, <2>1, <3>2 DEF BrokerTypeOK, OnlyThePresent
    <3> QED
      BY <1>0, <1>3, <2>1, <3>1, <3>2, <3>3, TaskStep DEF UsableIsChecked
  <2>2. CASE task' = "quieting" /\ UNCHANGED Runtime!objects
    BY <1>2, <1>3, <1>4, <2>2 DEF Runtime!Begin
  <2>3. CASE Runtime!DropOrMake
    BY <1>1, <1>2, <1>3, <1>4, <2>3, DropsOrMakes DEF Runtime!Begin
  <2> QED
    BY <1>4, <2>1, <2>2, <2>3 DEF Runtime!Begin
<1>5. CASE Runtime!Reread
  <2>1. /\ task = "rereading" /\ task' \in {"done", "failed"}
        /\ UNCHANGED <<connecting, command, closing, close, engine>>
             /\ UNCHANGED <<made, broker, unavailable, open, up, verified>>
        /\ UNCHANGED cancelled
    BY <1>5 DEF Runtime!Reread, Runtime!Goes, Runtime!objects
  <2>2. broker \in verified
    BY <1>0, <2>1 DEF UsableIsChecked
  <2>3. BrokerTypeOK' /\ OnlyThePresent'
    BY <1>0, <2>1 DEF BrokerTypeOK, OnlyThePresent
  <2> QED
    BY <1>0, <1>3, <2>1, <2>2, <2>3, TaskStep DEF UsableIsChecked
<1>6. CASE Runtime!Quieted
  BY <1>1, <1>2, <1>3, <1>6, DropsOrMakes DEF Runtime!Quieted
<1>7. CASE Runtime!Replaced
  <2>1. CASE Runtime!Goes("replacing", "connecting") /\ Runtime!MakeBroker
    BY <1>1, <1>7, <2>1, BrokerMade DEF Runtime!Replaced, Runtime!Goes
  <2>2. CASE Runtime!Goes("replacing", "failed") /\ Runtime!TeardownFails
    BY <1>2, <1>3, <1>7, <2>2, Teardown DEF Runtime!Replaced, Runtime!Goes
  <2> QED
    BY <1>7, <2>1, <2>2 DEF Runtime!Replaced
<1>8. CASE Runtime!TransportUp
  <2>1. /\ task = "connecting" /\ task' \in {"checking", "undoing"} /\ up' \in {up, up \cup {broker}}
        /\ UNCHANGED <<connecting, command, closing, close, engine>>
             /\ UNCHANGED <<made, broker, unavailable, open, verified>>
        /\ UNCHANGED cancelled
    BY <1>8 DEF Runtime!TransportUp, Runtime!Goes
  <2>2. broker # 0
    BY <1>0, <2>1 DEF UsableIsChecked
  <2>3. BrokerTypeOK' /\ OnlyThePresent'
    BY <1>0, <2>1, <2>2 DEF BrokerTypeOK, OnlyThePresent
  <2> QED
    BY <1>0, <1>3, <2>1, <2>2, <2>3, TaskStep DEF UsableIsChecked
<1>9. CASE Runtime!Checked
  <2>1. /\ task = "checking"
        /\ UNCHANGED <<connecting, command, closing, close, engine>> /\ UNCHANGED <<made, broker, open, up>>
        /\ UNCHANGED cancelled
        /\ \/ task' = "done" /\ verified' = verified \cup {broker} /\ unavailable' = FALSE
           \/ task' = "undoing" /\ UNCHANGED <<verified, unavailable>>
    BY <1>9 DEF Runtime!Checked, Runtime!Goes
  <2>3. BrokerTypeOK' /\ OnlyThePresent'
    BY <1>0, <2>1 DEF BrokerTypeOK, OnlyThePresent
  <2> QED
    BY <1>0, <1>3, <2>1, <2>3, TaskStep DEF UsableIsChecked
<1>10. CASE Runtime!Undone
  BY <1>2, <1>3, <1>10, Teardown DEF Runtime!Undone, Runtime!Goes
<1>11. CASE Runtime!Interrupted
  <2>1. CASE \E from \in {"made", "rereading", "quieting"} : Runtime!Goes(from, "failed")
          /\ UNCHANGED Runtime!objects
    BY <1>2, <1>11, <2>1 DEF Runtime!Interrupted, Runtime!Goes
  <2>2. CASE \E from \in {"connecting", "checking"} : Runtime!Goes(from, "undoing") /\ UNCHANGED Runtime!objects
    BY <1>2, <1>11, <2>2 DEF Runtime!Interrupted, Runtime!Goes
  <2>3. CASE \E from \in {"replacing", "undoing"} : Runtime!Goes(from, "failed") /\ Runtime!TeardownFails
    BY <1>2, <1>11, <2>3, Teardown DEF Runtime!Interrupted, Runtime!Goes
  <2> QED
    BY <1>11, <2>1, <2>2, <2>3 DEF Runtime!Interrupted
<1> QED
  BY <1>4, <1>5, <1>6, <1>7, <1>8, <1>9, <1>10, <1>11

(* Steps of close(), and what happens by itself. *)
LEMMA OtherSteps ==
    ASSUME Runtime!BrokerSessionAssumption, BrokerInv,
           Runtime!Demo \/ Runtime!EngineEnds \/ Runtime!TransportLost \/ Runtime!Close \/ Runtime!CloseWaited
             \/ Runtime!CloseLocks \/ Runtime!CloseDrops
    PROVE  BrokerInv'
<1> USE DEF BrokerInv, BrokerTypeOK, LockGuards, OnlyThePresent, UsableIsChecked
<1>1. CASE Runtime!Demo
  BY <1>1 DEF Runtime!Demo, Runtime!objects
<1>2. CASE Runtime!EngineEnds
  BY <1>2 DEF Runtime!EngineEnds, Runtime!objects
<1>3. CASE Runtime!TransportLost
  BY <1>3 DEF Runtime!TransportLost
<1>4. CASE Runtime!Close
  BY <1>4 DEF Runtime!Close, Runtime!objects, Runtime!BrokerSessionAssumption
<1>5. CASE Runtime!CloseWaited
  BY <1>5 DEF Runtime!CloseWaited, Runtime!objects
<1>6. CASE Runtime!CloseLocks
  BY <1>6 DEF Runtime!CloseLocks, Runtime!objects, Runtime!BrokerSessionAssumption
<1>7. CASE Runtime!CloseDrops
  <2>1. /\ close = "dropping" /\ connecting' = Nobody /\ close' \in {"done", "refused"}
        /\ UNCHANGED <<engine, task, cancelled, command, closing>>
        /\ \/ Dismantled
           \/ UNCHANGED <<made, broker, unavailable, open, up, verified>> /\ close' = "refused"
    BY <1>7, Teardown DEF Runtime!CloseDrops, Runtime!objects
  <2>2. connecting = Closer /\ task = "none" /\ closing
    BY <2>1 DEF Runtime!BrokerSessionAssumption
  <2>3. \A c \in Client : command[c].pc \notin {"connecting", "given up", "dropping"}
    BY <2>2 DEF Runtime!BrokerSessionAssumption
  <2>4. BrokerTypeOK'
    BY <2>1 DEF Dismantled
  <2>5. LockGuards'
    BY <2>1, <2>2, <2>3
  <2>6. OnlyThePresent'
    BY <2>1 DEF Dismantled
  <2>7. UsableIsChecked'
    <3>1. verified' = verified /\ (broker' # 0 /\ ~unavailable' => broker' \in verified)
          /\ (close' = "done" => broker' = 0 \/ unavailable')
      <4>1. CASE Dismantled
        BY <4>1 DEF Dismantled
      <4>2. CASE UNCHANGED <<made, broker, unavailable, open, up, verified>> /\ close' = "refused"
        BY <4>2
      <4> QED
        BY <2>1, <4>1, <4>2
    <3> QED
      BY <2>1, <2>2, <3>1
  <2> QED
    BY <2>4, <2>5, <2>6, <2>7
<1> QED
  BY <1>1, <1>2, <1>3, <1>4, <1>5, <1>6, <1>7

LEMMA BrokerStep == ASSUME Runtime!BrokerSessionAssumption, BrokerInv,
  [Runtime!Next]_(Runtime!vars) PROVE BrokerInv'
<1>1. CASE UNCHANGED Runtime!vars
  <2>1. UNCHANGED <<made, broker, unavailable, open, up, verified>>
          /\ UNCHANGED <<engine, task, cancelled, connecting, command, closing, close>>
    BY <1>1 DEF Runtime!vars, Runtime!objects
  <2>2. BrokerTypeOK' /\ LockGuards' /\ OnlyThePresent' /\ UsableIsChecked'
    BY <2>1 DEF BrokerInv, BrokerTypeOK, LockGuards, OnlyThePresent, UsableIsChecked
  <2> QED
    BY <2>2 DEF BrokerInv
<1> QED
  BY <1>1, CommandSteps, TaskSteps, OtherSteps DEF Runtime!Next

LEMMA BrokerPromises == ASSUME Runtime!BrokerSessionAssumption, BrokerInv PROVE Runtime!BrokerSessionKept
<1>1. Runtime!OneTransport
  <2>1. open = {} \/ open = {broker}
    BY DEF BrokerInv, OnlyThePresent
  <2>2. Cardinality({}) = 0 /\ Cardinality({broker}) = 1
    BY FS_EmptySet, FS_Singleton
  <2>3. QED
    BY <2>1, <2>2, Counts DEF Runtime!OneTransport
<1>2. Runtime!CheckedBeforeUse /\ Runtime!DeskFollowsBroker
  BY DEF BrokerInv, OnlyThePresent, UsableIsChecked, Runtime!CheckedBeforeUse, Runtime!DeskFollowsBroker,
     Runtime!Connected
<1>3. Runtime!ClosedForGood
  BY DEF BrokerInv, LockGuards, UsableIsChecked, Runtime!ClosedForGood, Runtime!BrokerSessionAssumption
<1>4. QED
  BY <1>1, <1>2, <1>3 DEF Runtime!BrokerSessionKept

-----------------------------------------------------------------------------
(* ControlChannel.  The lock says who serves; what a client knows of its Stop,
   and what a process found before it serves, carry the rest. *)

ProcessPhase ==
    {"none", "spawned", "locked", "clear", "writing", "ready", "serving", "stopping", "closing", "exited"}
CallPhase == {"idle", "calling", "sent", "unreached", "polling", "handled", "done", "refused", "failed", "uncertain"}

ProcessRecord == [pc : ProcessPhase, recovers : BOOLEAN, exit : Nat]

CallRecord ==
    [op : {"none", "start", "stop", "shutdown", "launch"},
     pc : CallPhase, peer : {0} \cup Channel!Process, since : Nat]

ChannelTypeOK ==
    /\ posix \in BOOLEAN
    /\ lock \in {0} \cup Channel!Process /\ channel \in {0} \cup Channel!Process
    /\ token \in {"absent", "empty", "written"}
    /\ intent \in [running : BOOLEAN, fences : Nat, by : Nat]
    /\ worker \in [Channel!Process -> ProcessRecord]
    /\ caller \in [Client -> CallRecord]
    /\ calls \in Nat

(* A process past its acquisition of the lock, and not yet exited. *)
Held == {"locked", "clear", "writing", "ready", "serving", "stopping", "closing"}
HoldersLocked == \A i \in Channel!Process : worker[i].pc \in Held => lock = i

(* A process that must not recover found no running intent; nobody else
   could make it running since. *)
NothingInherited ==
    \A i \in Channel!Process :
        worker[i].pc \in {"clear", "writing", "ready"} /\ ~worker[i].recovers => ~intent.running

(* A Stop that was handled has left its fence; only launches poll. *)
StopsFenced ==
    \A c \in Client :
        /\ caller[c].since <= intent.fences
        /\ caller[c].pc = "handled" /\ caller[c].op = "stop" => caller[c].since < intent.fences
        /\ caller[c].pc = "polling" => caller[c].op = "launch"

ChannelInv ==
    /\ ChannelTypeOK
    /\ HoldersLocked
    /\ NothingInherited
    /\ StopsFenced
    /\ Channel!ChannelKept

USE DEF Channel!Process

LEMMA ChannelStarts == ASSUME MaxWorkers \in Nat PROVE Channel!Init => ChannelInv
BY DEF Channel!Init, ChannelInv, ChannelTypeOK, HoldersLocked, NothingInherited, StopsFenced, Channel!ChannelKept,
   Channel!OneServer,
       Channel!StopIsRecorded, Channel!NoInheritance, ProcessRecord, ProcessPhase, CallRecord, CallPhase,
         Channel!Idle, Held

(* What a process becomes that goes on, and one that exits. *)
Becomes(i, pc) ==
    /\ worker' \in [Channel!Process -> ProcessRecord]
    /\ worker'[i].pc = pc /\ worker'[i].recovers = worker[i].recovers
    /\ \A j \in Channel!Process \ {i} : worker'[j] = worker[j]

LEMMA ProcessGoesOn ==
    ASSUME worker \in [Channel!Process -> ProcessRecord], NEW i \in Channel!Process, NEW from,
           NEW to \in ProcessPhase, Channel!Goes(i, from, to)
    PROVE  worker[i].pc = from /\ Becomes(i, to)
BY DEF Channel!Goes, Becomes, ProcessRecord

LEMMA ExitsNow ==
    ASSUME worker \in [Channel!Process -> ProcessRecord], NEW i \in Channel!Process, NEW code \in Nat,
           Channel!Exits(i, code)
    PROVE  Becomes(i, "exited")
<1>1. worker' = [worker EXCEPT ![i] = [[worker[i] EXCEPT !.pc = "exited"] EXCEPT !.exit = code]]
  BY DEF Channel!Exits
<1>2. worker[i] \in ProcessRecord
  OBVIOUS
<1>3. [worker[i] EXCEPT !.pc = "exited"] \in [pc : {"exited"}, recovers : {worker[i].recovers}, exit : Nat]
  BY <1>2 DEF ProcessRecord
<1>4. [[worker[i] EXCEPT !.pc = "exited"] EXCEPT !.exit = code]
         \in [pc : {"exited"}, recovers : {worker[i].recovers}, exit : Nat]
  BY <1>3
<1>5. QED
  BY <1>1, <1>2, <1>4 DEF Becomes, ProcessRecord, ProcessPhase

(* What a step of process i does to it, to the lock and to the channel. *)
Moves(i) ==
    /\ Becomes(i, worker'[i].pc)
    /\ lock' \in {0} \cup Channel!Process /\ channel' \in {0} \cup Channel!Process
    /\ token' \in {"absent", "empty", "written"}
    /\ lock' = lock \/ (lock = 0 /\ lock' = i) \/ (lock = i /\ lock' = 0)
    /\ channel' = channel \/ channel = 0 \/ channel = i \/ lock = i
    /\ worker'[i].pc \in Held => lock' = i
    /\ worker'[i].pc \in {"serving", "stopping"} => channel' = i
    /\ worker'[i].pc \in {"clear", "writing", "ready"} /\ ~worker[i].recovers => ~intent.running
    /\ worker'[i].pc = "serving" => worker[i].pc = "ready"
    /\ UNCHANGED <<posix, intent, caller, calls>>

LEMMA ProcessMoves ==
    ASSUME MaxWorkers \in Nat, ChannelInv, NEW i \in Channel!Process,
           \/ Channel!Acquire(i) \/ Channel!Examine(i) \/ Channel!CreateToken(i) \/ Channel!WriteToken(i)
                \/ Channel!ReadToken(i)
           \/ Channel!Bind(i) \/ Channel!Unbind(i) \/ Channel!Release(i) \/ Channel!Crash(i)
    PROVE  Moves(i)
<1> USE DEF ChannelInv, ChannelTypeOK, Channel!ChannelKept, HoldersLocked, Held, NothingInherited, Moves
<1>1. i \in Nat /\ i # 0 /\ worker \in [Channel!Process -> ProcessRecord]
  OBVIOUS
<1>2. CASE Channel!Acquire(i)
  <2>1. CASE lock = 0
    BY <1>1, <1>2, <2>1 DEF Channel!Acquire, Becomes, ProcessRecord, ProcessPhase
  <2>2. CASE lock # 0
    <3>1. Channel!Exits(i, 2) /\ UNCHANGED <<posix, lock, channel, token, intent, caller, calls>>
      BY <1>2, <2>2 DEF Channel!Acquire
    <3>2. QED
      BY <1>1, <3>1, ExitsNow DEF Becomes
  <2>3. QED
    BY <2>1, <2>2
<1>3. CASE Channel!Examine(i)
  <2>1. CASE intent.running /\ ~worker[i].recovers
    <3>1. Channel!Exits(i, 3) /\ lock = i /\ lock' = 0 /\ UNCHANGED <<posix, channel, token, intent, caller, calls>>
      BY <1>3, <2>1 DEF Channel!Examine
    <3>2. QED
      BY <1>1, <3>1, ExitsNow DEF Becomes
  <2>2. CASE ~(intent.running /\ ~worker[i].recovers)
    <3>1. Channel!Goes(i, "locked", "clear") /\ UNCHANGED <<posix, lock, channel, token, intent, caller, calls>>
      BY <1>3, <2>2 DEF Channel!Examine
    <3>2. worker[i].pc = "locked" /\ Becomes(i, "clear")
      BY <1>1, <3>1, ProcessGoesOn DEF ProcessPhase
    <3>3. QED
      BY <1>1, <2>2, <3>1, <3>2 DEF Becomes
  <2>3. QED
    BY <2>1, <2>2
<1>4. CASE Channel!CreateToken(i)
  <2>1. worker[i].pc = "clear" /\ (Becomes(i, "writing") \/ Becomes(i, "ready"))
    BY <1>1, <1>4, ProcessGoesOn DEF Channel!CreateToken, ProcessPhase
  <2>2. QED
    BY <1>1, <1>4, <2>1 DEF Channel!CreateToken, Becomes
<1>5. CASE Channel!WriteToken(i)
  <2>1. worker[i].pc = "writing" /\ Becomes(i, "ready")
    BY <1>1, <1>5, ProcessGoesOn DEF Channel!WriteToken, ProcessPhase
  <2>2. QED
    BY <1>1, <1>5, <2>1 DEF Channel!WriteToken, Becomes
<1>6. CASE Channel!ReadToken(i)
  <2>1. CASE token = "written"
    <3>1. worker[i].pc = "clear" /\ Becomes(i, "ready")
      BY <1>1, <1>6, <2>1, ProcessGoesOn DEF Channel!ReadToken, ProcessPhase
    <3>2. QED
      BY <1>1, <1>6, <2>1, <3>1 DEF Channel!ReadToken, Becomes
  <2>2. CASE token # "written"
    <3>1. Becomes(i, "exited")
      BY <1>1, <1>6, <2>2, ExitsNow DEF Channel!ReadToken
    <3>2. QED
      BY <1>1, <1>6, <2>2, <3>1 DEF Channel!ReadToken, Becomes
  <2>3. QED
    BY <2>1, <2>2
<1>7. CASE Channel!Bind(i)
  <2>1. CASE channel = 0
    <3>1. worker[i].pc = "ready" /\ Becomes(i, "serving")
      BY <1>1, <1>7, <2>1, ProcessGoesOn DEF Channel!Bind, ProcessPhase
    <3>2. QED
      BY <1>1, <1>7, <2>1, <3>1 DEF Channel!Bind, Becomes
  <2>2. CASE channel # 0
    <3>1. Becomes(i, "exited")
      BY <1>1, <1>7, <2>2, ExitsNow DEF Channel!Bind
    <3>2. QED
      BY <1>1, <1>7, <2>2, <3>1 DEF Channel!Bind, Becomes
  <2>3. QED
    BY <2>1, <2>2
<1>8. CASE Channel!Unbind(i)
  <2>1. worker[i].pc = "stopping" /\ Becomes(i, "closing")
    BY <1>1, <1>8, ProcessGoesOn DEF Channel!Unbind, ProcessPhase
  <2>2. QED
    BY <1>1, <1>8, <2>1 DEF Channel!Unbind, Becomes
<1>9. CASE Channel!Release(i)
  <2>1. worker[i].pc = "closing" /\ Becomes(i, "exited")
    BY <1>1, <1>9, ExitsNow DEF Channel!Release
  <2>2. QED
    BY <1>1, <1>9, <2>1 DEF Channel!Release, Becomes
<1>10. CASE Channel!Crash(i)
  <2>1. Becomes(i, "exited")
    BY <1>1, <1>10, ExitsNow DEF Channel!Crash
  <2>2. QED
    BY <1>1, <1>10, <2>1 DEF Channel!Crash, Becomes
<1>11. QED
  BY <1>2, <1>3, <1>4, <1>5, <1>6, <1>7, <1>8, <1>9, <1>10

LEMMA ProcessStep ==
    ASSUME MaxWorkers \in Nat, ChannelInv, NEW i \in Channel!Process, Moves(i)
    PROVE  ChannelInv'
<1> USE DEF ChannelInv, ChannelTypeOK, Channel!ChannelKept, Moves, Becomes
<1>1. i \in Nat /\ i # 0
  OBVIOUS
<1>2. \A j \in Channel!Process \ {i} : worker'[j] = worker[j]
  OBVIOUS
<1>3. ChannelTypeOK'
  OBVIOUS
<1>4. StopsFenced' /\ Channel!StopIsRecorded'
  BY DEF StopsFenced, Channel!StopIsRecorded
<1>5. HoldersLocked'
  BY <1>1, <1>2 DEF HoldersLocked
<1>6. Channel!OneServer'
  BY <1>1, <1>2 DEF Channel!OneServer, Held
<1>7. NothingInherited' /\ Channel!NoInheritance'
  BY <1>2 DEF NothingInherited, Channel!NoInheritance
<1>8. QED
  BY <1>3, <1>4, <1>5, <1>6, <1>7

(* What a step of client c other than a handling or a fence does to it. *)
Tells(c) ==
    /\ caller' \in [Client -> CallRecord]
    /\ \A d \in Client \ {c} : caller'[d] = caller[d]
    /\ caller'[c].since <= intent.fences
    /\ caller'[c].pc # "handled"
    /\ caller'[c].pc = "done" /\ caller'[c].op = "stop" => caller'[c].since < intent.fences
    /\ caller'[c].pc = "polling" => caller'[c].op = "launch"

LEMMA CallTurns ==
    ASSUME caller \in [Client -> CallRecord], NEW c \in Client, NEW pc \in CallPhase, Channel!To(c, pc)
    PROVE  /\ caller' \in [Client -> CallRecord]
           /\ \A d \in Client \ {c} : caller'[d] = caller[d]
           /\ caller'[c].pc = pc /\ caller'[c].op = caller[c].op /\ caller'[c].since = caller[c].since
           /\ caller'[c].peer = caller[c].peer
BY DEF Channel!To, CallRecord, CallPhase

LEMMA QuietTells ==
    ASSUME MaxWorkers \in Nat, ChannelInv, NEW c \in Client,
           Channel!Call(c) \/ Channel!Send(c) \/ Channel!Poll(c) \/ Channel!Answer(c) \/ Channel!NoAnswer(c)
             \/ Channel!Return(c)
    PROVE  Tells(c)
<1> USE DEF ChannelInv, ChannelTypeOK, Channel!ChannelKept, Tells, StopsFenced, Channel!StopIsRecorded
<1>1. caller[c] \in CallRecord
  OBVIOUS
<1>2. CASE Channel!Call(c)
  <2>1. PICK o \in {"start", "stop", "shutdown", "launch"} :
          caller' = [caller EXCEPT ![c] = [Channel!Idle EXCEPT !.op = o, !.pc = "calling", !.since = intent.fences]]
    BY <1>2 DEF Channel!Call
  <2>2. caller' = [caller EXCEPT ![c] =
                     [[[Channel!Idle EXCEPT !.op = o] EXCEPT !.pc = "calling"] EXCEPT !.since = intent.fences]]
    BY <2>1
  <2>3. [Channel!Idle EXCEPT !.op = o] \in [op : {o}, pc : {"idle"}, peer : {0}, since : {0}]
    BY DEF Channel!Idle
  <2>4. [[Channel!Idle EXCEPT !.op = o] EXCEPT !.pc = "calling"]
          \in [op : {o}, pc : {"calling"}, peer : {0}, since : {0}]
    BY <2>3
  <2>5. [[[Channel!Idle EXCEPT !.op = o] EXCEPT !.pc = "calling"] EXCEPT !.since = intent.fences]
          \in [op : {o}, pc : {"calling"}, peer : {0}, since : {intent.fences}]
    BY <2>4
  <2>6. QED
    BY <2>2, <2>5 DEF CallRecord, CallPhase
<1>3. CASE Channel!Send(c)
  <2>1. PICK pc \in {"sent", "unreached"}, peer \in {0} \cup Channel!Process :
          caller' = [caller EXCEPT ![c].pc = pc, ![c].peer = peer]
    BY <1>3 DEF Channel!Send
  <2>2. caller' = [caller EXCEPT ![c] = [[caller[c] EXCEPT !.pc = pc] EXCEPT !.peer = peer]]
    BY <2>1
  <2>3. [caller[c] EXCEPT !.pc = pc]
          \in [op : {caller[c].op}, pc : {pc}, peer : {0} \cup Channel!Process, since : {caller[c].since}]
    BY <1>1 DEF CallRecord, CallPhase
  <2>4. [[caller[c] EXCEPT !.pc = pc] EXCEPT !.peer = peer]
          \in [op : {caller[c].op}, pc : {pc}, peer : {0} \cup Channel!Process, since : {caller[c].since}]
    BY <2>3
  <2>5. QED
    BY <1>1, <2>2, <2>4 DEF CallRecord, CallPhase
<1>4. CASE Channel!Poll(c)
  <2>1. \E pc \in {"done", "refused", "failed"} : Channel!To(c, pc) /\ caller[c].pc = "polling"
    BY <1>4 DEF Channel!Poll
  <2>2. QED
    BY <2>1, CallTurns DEF CallPhase
<1>5. CASE Channel!Answer(c)
  <2>1. Channel!To(c, "done") /\ caller[c].pc = "handled"
    BY <1>5 DEF Channel!Answer
  <2>2. QED
    BY <2>1, CallTurns DEF CallPhase
<1>6. CASE Channel!NoAnswer(c)
  <2>1. Channel!To(c, "uncertain")
    BY <1>6 DEF Channel!NoAnswer
  <2>2. QED
    BY <2>1, CallTurns DEF CallPhase
<1>7. CASE Channel!Return(c)
  BY <1>7 DEF Channel!Return, Channel!Idle, CallRecord, CallPhase
<1>8. QED
  BY <1>2, <1>3, <1>4, <1>5, <1>6, <1>7

(* A new process is not past its acquisition. *)
LEMMA SpawnTells ==
    ASSUME MaxWorkers \in Nat, ChannelInv, NEW c \in Client, Channel!Spawn(c)
    PROVE  /\ Tells(c) /\ worker' \in [Channel!Process -> ProcessRecord]
           /\ \A i \in Channel!Process : worker'[i] = worker[i] \/ worker'[i].pc = "spawned"
<1> USE DEF ChannelInv, ChannelTypeOK, Channel!ChannelKept
<1>1. PICK i \in Channel!Process, recovers \in BOOLEAN :
         /\ worker' = [worker EXCEPT ![i] = [@ EXCEPT !.pc = "spawned", !.recovers = recovers]]
         /\ caller' = [caller EXCEPT ![c].pc = "polling", ![c].peer = i]
         /\ caller[c].op = "launch"
  BY DEF Channel!Spawn
<1>2. worker[i] \in ProcessRecord /\ caller[c] \in CallRecord
  OBVIOUS
<1>3. Tells(c)
  <2>1. caller' = [caller EXCEPT ![c] = [[caller[c] EXCEPT !.pc = "polling"] EXCEPT !.peer = i]]
    BY <1>1
  <2>2. [caller[c] EXCEPT !.pc = "polling"]
          \in [op : {caller[c].op}, pc : {"polling"}, peer : {0} \cup Channel!Process, since : {caller[c].since}]
    BY <1>2 DEF CallRecord, CallPhase
  <2>3. [[caller[c] EXCEPT !.pc = "polling"] EXCEPT !.peer = i]
          \in [op : {caller[c].op}, pc : {"polling"}, peer : {0} \cup Channel!Process, since : {caller[c].since}]
    BY <2>2
  <2>4. QED
    BY <1>1, <1>2, <2>1, <2>3 DEF Tells, CallRecord, CallPhase, StopsFenced
<1>4. [[worker[i] EXCEPT !.pc = "spawned"] EXCEPT !.recovers = recovers]
         \in [pc : {"spawned"}, recovers : BOOLEAN, exit : Nat]
  <2>1. [worker[i] EXCEPT !.pc = "spawned"] \in [pc : {"spawned"}, recovers : BOOLEAN, exit : Nat]
    BY <1>2 DEF ProcessRecord
  <2>2. QED
    BY <2>1
<1>5. worker' = [worker EXCEPT ![i] = [[worker[i] EXCEPT !.pc = "spawned"] EXCEPT !.recovers = recovers]]
  BY <1>1
<1>6. QED
  BY <1>3, <1>4, <1>5 DEF ProcessRecord, ProcessPhase

LEMMA ClientStep ==
    ASSUME MaxWorkers \in Nat, ChannelInv, NEW c \in Client,
           \/ Channel!Call(c) \/ Channel!Send(c) \/ Channel!Poll(c) \/ Channel!Answer(c) \/ Channel!NoAnswer(c)
                \/ Channel!Return(c)
           \/ Channel!Spawn(c)
    PROVE  ChannelInv'
<1> USE DEF ChannelInv, ChannelTypeOK, Channel!ChannelKept
<1>1. /\ UNCHANGED <<posix, lock, channel, token, intent>> /\ calls' \in {calls, calls + 1}
      /\ worker' = worker \/ Channel!Spawn(c)
  <2>1. CASE Channel!Call(c)
    BY <2>1 DEF Channel!Call
  <2>2. CASE Channel!Send(c) \/ Channel!Poll(c) \/ Channel!Answer(c) \/ Channel!NoAnswer(c)
    BY <2>2 DEF Channel!Send, Channel!Poll, Channel!Answer, Channel!NoAnswer
  <2>3. CASE Channel!Return(c) \/ Channel!Spawn(c)
    BY <2>3 DEF Channel!Return, Channel!Spawn
  <2>4. QED
    BY <2>1, <2>2, <2>3
<1>2. /\ Tells(c) /\ worker' \in [Channel!Process -> ProcessRecord]
      /\ \A i \in Channel!Process : worker'[i] = worker[i] \/ worker'[i].pc = "spawned"
  <2>1. CASE Channel!Spawn(c)
    BY <2>1, SpawnTells
  <2>2. CASE ~Channel!Spawn(c)
    BY <1>1, <2>2, QuietTells
  <2>3. QED
    BY <2>1, <2>2
<1>3. ChannelTypeOK'
  BY <1>1, <1>2 DEF Tells
<1>4. StopsFenced' /\ Channel!StopIsRecorded'
  BY <1>1, <1>2 DEF Tells, StopsFenced, Channel!StopIsRecorded
<1>5. HoldersLocked' /\ NothingInherited' /\ Channel!OneServer' /\ Channel!NoInheritance'
  BY <1>1, <1>2 DEF Held, HoldersLocked, NothingInherited, Channel!OneServer, Channel!NoInheritance
<1>6. QED
  BY <1>3, <1>4, <1>5

(* A start is accepted only by the process that holds the lock. *)
LEMMA HandleStep ==
    ASSUME MaxWorkers \in Nat, ChannelInv, NEW c \in Client, Channel!Handle(c)
    PROVE  ChannelInv'
<1> USE DEF ChannelInv, ChannelTypeOK, Channel!ChannelKept
<1> DEFINE i == caller[c].peer
<1>1. i \in Channel!Process /\ lock = i /\ channel = i /\ worker[i].pc \in {"serving", "stopping"}
  BY DEF Channel!Handle, Channel!Serving, Channel!OneServer, CallRecord
<1>2. UNCHANGED <<posix, lock, channel, token, calls>>
  BY DEF Channel!Handle
<1>3. /\ intent' \in [running : BOOLEAN, fences : Nat, by : Nat]
      /\ intent'.fences >= intent.fences
      /\ caller[c].op = "stop" => intent'.fences = intent.fences + 1
      /\ intent'.running => (intent.running /\ intent'.by = intent.by) \/ intent'.by = i
  <2>1. \/ intent' = [[intent EXCEPT !.running = TRUE] EXCEPT !.by = i] /\ caller[c].op = "start"
        \/ /\ intent' = [[intent EXCEPT !.running = FALSE] EXCEPT !.fences = intent.fences + 1]
           /\ caller[c].op \in {"stop", "shutdown"}
        \/ intent' = intent /\ caller[c].op # "stop"
    BY DEF Channel!Handle
  <2>2. [intent EXCEPT !.running = TRUE] \in [running : {TRUE}, fences : {intent.fences}, by : Nat]
    OBVIOUS
  <2>3. [[intent EXCEPT !.running = TRUE] EXCEPT !.by = i] \in [running : {TRUE}, fences : {intent.fences}, by : {i}]
    BY <2>2
  <2>4. [intent EXCEPT !.running = FALSE] \in [running : {FALSE}, fences : Nat, by : Nat]
    OBVIOUS
  <2>5. [[intent EXCEPT !.running = FALSE] EXCEPT !.fences = intent.fences + 1]
          \in [running : {FALSE}, fences : {intent.fences + 1}, by : Nat]
    BY <2>4
  <2>6. i \in Nat /\ intent.fences \in Nat /\ intent.fences + 1 \in Nat /\ intent.fences + 1 >= intent.fences
    BY <1>1
  <2>7. CASE intent' = intent /\ caller[c].op # "stop"
    BY <2>6, <2>7
  <2>8. CASE intent' = [[intent EXCEPT !.running = TRUE] EXCEPT !.by = i] /\ caller[c].op = "start"
    <3>1. intent' \in [running : {TRUE}, fences : {intent.fences}, by : {i}]
      BY <2>3, <2>8
    <3>2. intent'.fences = intent.fences /\ intent'.by = i /\ caller[c].op # "stop"
      BY <3>1, <2>8
    <3>3. intent' \in [running : BOOLEAN, fences : Nat, by : Nat]
      BY <3>1, <2>6
    <3>4. QED
      BY <3>2, <3>3, <2>6
  <2>9. CASE intent' = [[intent EXCEPT !.running = FALSE] EXCEPT !.fences = intent.fences + 1]
    BY <2>5, <2>6, <2>9
  <2>10. QED
    BY <2>1, <2>7, <2>8, <2>9
<1>4. /\ worker' \in [Channel!Process -> ProcessRecord] /\ \A j \in Channel!Process \ {i} : worker'[j] = worker[j]
      /\ worker'[i].pc \in {"serving", "stopping"} /\ worker'[i].recovers = worker[i].recovers
      /\ worker'[i].pc = "serving" => worker[i].pc = "serving"
  <2>1. PICK pc \in {worker[i].pc, "stopping"} : worker' = [worker EXCEPT ![i].pc = pc]
    BY DEF Channel!Handle
  <2>2. QED
    BY <1>1, <2>1 DEF ProcessRecord, ProcessPhase
<1>5. ChannelTypeOK' /\ caller'[c].pc = "handled" /\ caller'[c].op = caller[c].op
         /\ caller'[c].since = caller[c].since /\ \A d \in Client \ {c} : caller'[d] = caller[d]
  <2>1. Channel!To(c, "handled")
    BY DEF Channel!Handle
  <2>2. QED
    BY <1>2, <1>3, <1>4, <2>1, CallTurns DEF CallPhase
<1>6. StopsFenced' /\ Channel!StopIsRecorded'
  <2>1. intent.fences \in Nat /\ intent'.fences \in Nat /\ \A d \in Client : caller[d].since \in Nat
    BY <1>3 DEF CallRecord, CallPhase
  <2>2. \A d \in Client : caller'[d].since = caller[d].since /\ caller'[d].op = caller[d].op
    BY <1>5
  <2>3. \A d \in Client : caller[d].since <= intent'.fences
    BY <1>3, <2>1 DEF StopsFenced
  <2>4. caller[c].op = "stop" => caller[c].since < intent'.fences
    BY <1>3, <2>1 DEF StopsFenced
  <2>5. \A d \in Client \ {c} : caller[d].since < intent.fences => caller[d].since < intent'.fences
    BY <1>3, <2>1
  <2>6. QED
    BY <1>5, <2>2, <2>3, <2>4, <2>5 DEF StopsFenced, Channel!StopIsRecorded
<1>7. HoldersLocked' /\ Channel!OneServer'
  BY <1>1, <1>2, <1>4 DEF ProcessRecord, Held, HoldersLocked, Channel!OneServer
<1>8. NothingInherited'
  <2>1. \A j \in Channel!Process \ {i} : worker'[j].pc = worker[j].pc /\ worker[j].pc \notin Held
    BY <1>1, <1>4 DEF HoldersLocked, ProcessRecord
  <2>2. QED
    BY <1>4, <2>1 DEF NothingInherited, Held
<1>9. Channel!NoInheritance'
  <2>1. \A j \in Channel!Process \ {i} : worker'[j].pc = worker[j].pc /\ worker[j].pc \notin Held
    BY <1>1, <1>4 DEF HoldersLocked, ProcessRecord
  <2>2. worker'[i].pc = "serving" => worker[i].pc = "serving" /\ worker'[i].recovers = worker[i].recovers
    BY <1>1, <1>4 DEF Channel!Handle, ProcessRecord
  <2>3. QED
    BY <1>1, <1>3, <2>1, <2>2 DEF Channel!NoInheritance, Held
<1>10. QED
  BY <1>5, <1>6, <1>7, <1>8, <1>9

LEMMA FenceStep ==
    ASSUME MaxWorkers \in Nat, ChannelInv, NEW c \in Client, Channel!Fence(c)
    PROVE  ChannelInv'
<1> USE DEF ChannelInv, ChannelTypeOK, Channel!ChannelKept
<1>1. /\ intent' = [[intent EXCEPT !.running = FALSE] EXCEPT !.fences = intent.fences + 1]
      /\ Channel!To(c, "done")
      /\ UNCHANGED <<posix, lock, channel, token, worker, calls>>
  BY DEF Channel!Fence
<1>2. intent' \in [running : {FALSE}, fences : {intent.fences + 1}, by : Nat]
  <2>1. [intent EXCEPT !.running = FALSE] \in [running : {FALSE}, fences : Nat, by : Nat]
    OBVIOUS
  <2>2. QED
    BY <1>1, <2>1
<1>3. ChannelTypeOK' /\ caller'[c].since = caller[c].since /\ caller'[c].pc = "done"
         /\ \A d \in Client \ {c} : caller'[d] = caller[d]
  <2>1. intent' \in [running : BOOLEAN, fences : Nat, by : Nat]
    <3>1. intent.fences + 1 \in Nat
      OBVIOUS
    <3>2. QED
      BY <1>2, <3>1
  <2>2. QED
    BY <1>1, <2>1, CallTurns DEF CallPhase
<1>4. StopsFenced' /\ Channel!StopIsRecorded'
  <2>1. /\ intent.fences \in Nat /\ intent'.fences = intent.fences + 1
        /\ \A d \in Client : caller[d].since \in Nat
    BY <1>2 DEF CallRecord, CallPhase
  <2>2. \A d \in Client : caller[d].since < intent'.fences
    BY <2>1 DEF StopsFenced
  <2>3. \A d \in Client : caller'[d].since = caller[d].since /\ caller[d].since <= intent'.fences
    BY <1>3, <2>1, <2>2
  <2>4. QED
    BY <1>3, <2>2, <2>3 DEF StopsFenced, Channel!StopIsRecorded
<1>5. HoldersLocked' /\ NothingInherited' /\ Channel!OneServer' /\ Channel!NoInheritance'
  BY <1>1, <1>2 DEF HoldersLocked, NothingInherited, Channel!OneServer, Channel!NoInheritance
<1>6. QED
  BY <1>3, <1>4, <1>5

LEMMA ChannelStep == ASSUME MaxWorkers \in Nat PROVE ChannelInv /\ [Channel!Next]_(Channel!vars) => ChannelInv'
<1> SUFFICES ASSUME ChannelInv, [Channel!Next]_(Channel!vars) PROVE ChannelInv'
  OBVIOUS
<1>1. CASE UNCHANGED Channel!vars
  BY <1>1 DEF Channel!vars, ChannelInv, ChannelTypeOK, HoldersLocked, NothingInherited, StopsFenced,
     Channel!ChannelKept,
              Channel!OneServer, Channel!StopIsRecorded, Channel!NoInheritance
<1>2. CASE Channel!Next
  BY <1>2, ProcessMoves, ProcessStep, ClientStep, HandleStep, FenceStep DEF Channel!Next
<1>3. QED
  BY <1>1, <1>2

-----------------------------------------------------------------------------
(* The inductive invariant holds of every behaviour. *)
THEOREM ChannelInvariant == ASSUME MaxWorkers \in Nat PROVE Channel!Spec => []ChannelInv
BY ChannelStarts, ChannelStep, PTL DEF Channel!Spec

(* One worker process at a time answers clients, it holds the lock, and the
   address is its own (worker_process.py:25, worker_ipc.py:147). *)
THEOREM OneServerAnswers == ASSUME MaxWorkers \in Nat PROVE Channel!Spec => []Channel!OneServer
<1>1. ChannelInv => Channel!OneServer
  BY DEF ChannelInv, Channel!ChannelKept
<1>2. QED
  BY <1>1, ChannelInvariant, PTL

(* A Stop that reports success has fenced the record after it was asked for,
   answered or not (worker_cli.py:171). *)
THEOREM StopsAreRecorded == ASSUME MaxWorkers \in Nat PROVE Channel!Spec => []Channel!StopIsRecorded
<1>1. ChannelInv => Channel!StopIsRecorded
  BY DEF ChannelInv, Channel!ChannelKept
<1>2. QED
  BY <1>1, ChannelInvariant, PTL

(* A worker started without recovery trades on no intent but its own
   (worker_process.py:32). *)
THEOREM NothingIsInherited == ASSUME MaxWorkers \in Nat PROVE Channel!Spec => []Channel!NoInheritance
<1>1. ChannelInv => Channel!NoInheritance
  BY DEF ChannelInv, Channel!ChannelKept
<1>2. QED
  BY <1>1, ChannelInvariant, PTL

-----------------------------------------------------------------------------
(* CryptoRoute.  A preview in hand belongs to the present connection; an
   operation carries what its earlier answers established. *)

Rhs == {b.rhs : b \in Binding}

PreviewRecord ==
    [intent : Intent, binding : Binding, identity : Identity, at : Int, link : Int, serial : Int]

OpStep == {"account", "preview", "funds", "order", "cover", "sent"}

CryptoTypeOK ==
    /\ link \in [number : Int, phase : {"up", "closing", "down"}]
    /\ account \in Binding \cup {None}
    /\ adapter \in [reviews : [Intent -> issued \cup {None}], sent : SUBSET Intent,
                    pin : [Rhs -> Identity \cup {None}]]
    /\ issued \subseteq PreviewRecord /\ IsFiniteSet(issued)
    /\ clock \in Int

(* What the operation that holds the lock knows by its step. *)
OpType ==
    [kind : {"preview", "place", "cancel"}, intent : Intent, review : issued \cup {None},
     step : OpStep, link : Int, binding : Binding \cup {None},
     identity : Identity \cup {None}, at : Int]

OpKnows ==
    op # None =>
        /\ op \in OpType
        /\ op.kind = "place" => op.review \in issued /\ op.review.intent = op.intent
        /\ op.kind = "preview" => op.intent \notin adapter.sent
        /\ op.step # "account" => op.binding \in Binding
        /\ op.step = "funds" => op.kind = "place" /\ op.binding = op.review.binding
        /\ op.step \in {"preview", "cover"} => op.kind = "preview"
        /\ op.step = "cover" => op.identity \in Identity /\ adapter.pin[op.binding.rhs] = op.identity

(* An unused preview is of its reference and of the present connection; a
   connection that is down has none, and neither has a reference once sent. *)
ReviewsCurrent ==
    \A i \in Intent : adapter.reviews[i] # None =>
        /\ adapter.reviews[i].intent = i /\ i \notin adapter.sent
        /\ adapter.reviews[i].link = link.number /\ link.phase # "down"

(* A placement that left has used its reference up. *)
RequestsUsed == \A r \in placed : r.intent \in adapter.sent

(* The identity of every preview is the one pinned for its account. *)
IssuedPinned == \A r \in issued : adapter.pin[r.binding.rhs] = r.identity

CryptoInv ==
    /\ CryptoTypeOK /\ OpKnows /\ ReviewsCurrent /\ RequestsUsed /\ IssuedPinned
    /\ Crypto!SentOnce /\ Crypto!FreshReview

-----------------------------------------------------------------------------
LEMMA CryptoStarts == Crypto!Init => CryptoInv
<1> SUFFICES ASSUME Crypto!Init PROVE CryptoInv
  OBVIOUS
<1> USE DEF Crypto!Init
<1>1. CryptoTypeOK
  BY FS_EmptySet DEF CryptoTypeOK, Crypto!NoReviews, Rhs
<1>2. OpKnows /\ ReviewsCurrent /\ RequestsUsed /\ IssuedPinned
  BY DEF OpKnows, ReviewsCurrent, RequestsUsed, IssuedPinned, Crypto!NoReviews
<1>3. Crypto!SentOnce /\ Crypto!FreshReview
  BY DEF Crypto!SentOnce, Crypto!FreshReview
<1>4. QED
  BY <1>1, <1>2, <1>3 DEF CryptoInv

(* The next call of an operation, or its end. *)
LEMMA NextCall ==
    ASSUME NEW o \in OpType, NEW step \in OpStep, Crypto!Onward(o, step)
    PROVE  op' # None =>
             /\ op' \in OpType /\ op'.step = step
             /\ op'.kind = o.kind /\ op'.intent = o.intent /\ op'.review = o.review
             /\ op'.link = o.link /\ op'.binding = o.binding /\ op'.identity = o.identity /\ op'.at = o.at
BY DEF Crypto!Onward, OpType

(* An identity that agrees with the account's pin is the one of every preview
   of that account. *)
LEMMA PinKept ==
    ASSUME Crypto!CryptoAssumption, CryptoTypeOK, IssuedPinned, op.binding \in Binding,
           NEW identity \in Identity, Crypto!Agrees(identity), adapter' = Crypto!Pinned(identity),
           UNCHANGED issued
    PROVE  /\ adapter'.reviews = adapter.reviews /\ adapter'.sent = adapter.sent
           /\ adapter'.pin \in [Rhs -> Identity \cup {None}]
           /\ adapter'.pin[op.binding.rhs] = identity
           /\ adapter' \in [reviews : [Intent -> issued \cup {None}], sent : SUBSET Intent,
                             pin : [Rhs -> Identity \cup {None}]]
           /\ IssuedPinned'
<1>1. op.binding.rhs \in Rhs
  BY DEF Rhs
<1>2. adapter' = [adapter EXCEPT !.pin = [adapter.pin EXCEPT ![op.binding.rhs] = identity]]
  BY DEF Crypto!Pinned
<1>3. /\ adapter'.reviews = adapter.reviews /\ adapter'.sent = adapter.sent
      /\ adapter'.pin = [adapter.pin EXCEPT ![op.binding.rhs] = identity]
      /\ adapter' \in [reviews : [Intent -> issued \cup {None}], sent : SUBSET Intent,
                        pin : [Rhs -> Identity \cup {None}]]
  BY <1>1, <1>2 DEF CryptoTypeOK
<1>4. adapter'.pin[op.binding.rhs] = identity /\ adapter'.pin \in [Rhs -> Identity \cup {None}]
  BY <1>1, <1>3 DEF CryptoTypeOK
<1>5. ASSUME NEW r \in issued PROVE adapter'.pin[r.binding.rhs] = r.identity
  <2>1. r.binding \in Binding /\ r.identity \in Identity /\ r.binding.rhs \in Rhs
    BY DEF CryptoTypeOK, PreviewRecord, Rhs
  <2>2. r.identity # None
    BY <2>1 DEF Crypto!CryptoAssumption
  <2>3. QED
    BY <1>1, <1>3, <2>1, <2>2 DEF CryptoTypeOK, IssuedPinned, Crypto!Agrees
<1>6. QED
  BY <1>3, <1>4, <1>5 DEF IssuedPinned

-----------------------------------------------------------------------------
(* The steps that change the operation alone. *)

LEMMA EnteredStep ==
    ASSUME CryptoInv, NEW kind \in {"preview", "place", "cancel"}, NEW i \in Intent,
           NEW review \in issued \cup {None}, Crypto!Entered(kind, i, review),
           kind = "place" => review \in issued /\ review.intent = i,
           kind = "preview" => i \notin adapter.sent
    PROVE  CryptoInv'
<1> USE DEF CryptoInv
<1>1. UNCHANGED <<link, account, adapter, book, issued, placed, clock>>
  BY DEF Crypto!Entered
<1>2. op' = [kind |-> kind, intent |-> i, review |-> review, step |-> "account",
             link |-> link.number, binding |-> None, identity |-> None, at |-> 0]
  BY DEF Crypto!Entered
<1>3. OpKnows'
  BY <1>1, <1>2 DEF OpKnows, OpType, CryptoTypeOK, OpStep
<1>4. QED
  BY <1>1, <1>3 DEF CryptoTypeOK, ReviewsCurrent, RequestsUsed, IssuedPinned, Crypto!SentOnce, Crypto!FreshReview

LEMMA AccountStep ==
    ASSUME CryptoInv, Crypto!AccountRead
    PROVE  CryptoInv'
<1> USE DEF CryptoInv
<1>1. /\ UNCHANGED <<link, account, adapter, book, issued, placed, clock>>
      /\ account \in Binding /\ op # None /\ op \in OpType
      /\ op.kind = "place" => account = op.review.binding
  BY DEF Crypto!AccountRead, Crypto!Answered, CryptoTypeOK, OpKnows
<1>2. PICK step \in {"preview", "funds", "order"} :
        /\ Crypto!Onward([op EXCEPT !.binding = account], step)
        /\ step = "preview" => op.kind = "preview"
        /\ step = "funds" => op.kind = "place"
  BY <1>1 DEF Crypto!AccountRead, OpType
<1>3. [op EXCEPT !.binding = account]
        \in [kind : {op.kind}, intent : {op.intent}, review : {op.review}, step : OpStep, link : Int,
             binding : {account}, identity : Identity \cup {None}, at : Int]
  BY <1>1 DEF OpType
<1>4. [op EXCEPT !.binding = account] \in OpType
  BY <1>1, <1>3 DEF OpType
<1>5. OpKnows'
  BY <1>1, <1>2, <1>3, <1>4, NextCall DEF OpKnows, OpType, OpStep
<1>6. QED
  BY <1>1, <1>5 DEF CryptoTypeOK, ReviewsCurrent, RequestsUsed, IssuedPinned, Crypto!SentOnce, Crypto!FreshReview

LEMMA EndStep ==
    ASSUME CryptoInv, Crypto!CancelAccepted \/ Crypto!Abandon
    PROVE  CryptoInv'
BY DEF CryptoInv, Crypto!CancelAccepted, Crypto!Abandon, CryptoTypeOK, OpKnows, ReviewsCurrent, RequestsUsed,
   IssuedPinned,
       Crypto!SentOnce, Crypto!FreshReview

-----------------------------------------------------------------------------
(* The steps that pin an identity. *)

LEMMA PinStep ==
    ASSUME Crypto!CryptoAssumption, CryptoInv, NEW identity \in Identity, op # None, op.binding \in Binding,
           Crypto!Agrees(identity), adapter' = Crypto!Pinned(identity), OpKnows',
           UNCHANGED <<link, account, issued, placed, clock>>
    PROVE  CryptoInv'
<1> USE DEF CryptoInv
<1>1. /\ adapter'.reviews = adapter.reviews /\ adapter'.sent = adapter.sent /\ IssuedPinned'
      /\ adapter' \in [reviews : [Intent -> issued \cup {None}], sent : SUBSET Intent,
                        pin : [Rhs -> Identity \cup {None}]]
  BY PinKept
<1>2. CryptoTypeOK'
  BY <1>1 DEF CryptoTypeOK
<1>3. ReviewsCurrent' /\ RequestsUsed' /\ Crypto!SentOnce' /\ Crypto!FreshReview'
  BY <1>1 DEF ReviewsCurrent, RequestsUsed, Crypto!SentOnce, Crypto!FreshReview
<1>4. QED
  BY <1>1, <1>2, <1>3

LEMMA PreviewReadStep ==
    ASSUME Crypto!CryptoAssumption, CryptoInv, NEW identity \in Identity, Crypto!PreviewRead(identity)
    PROVE  CryptoInv'
<1> USE DEF CryptoInv
<1>1. /\ op # None /\ op \in OpType /\ op.step = "preview" /\ op.kind = "preview" /\ op.binding \in Binding
      /\ op.intent \notin adapter.sent
      /\ Crypto!Agrees(identity) /\ adapter' = Crypto!Pinned(identity)
      /\ Crypto!Onward([op EXCEPT !.identity = identity, !.at = clock], "cover")
      /\ UNCHANGED <<link, account, book, issued, placed, clock>>
  BY DEF Crypto!PreviewRead, Crypto!Answered, OpKnows
<1>2. adapter'.sent = adapter.sent /\ adapter'.pin[op.binding.rhs] = identity
  BY <1>1, PinKept
<1> DEFINE o == [[op EXCEPT !.identity = identity] EXCEPT !.at = clock]
<1>3. [op EXCEPT !.identity = identity]
        \in [kind : {"preview"}, intent : {op.intent}, review : {op.review}, step : OpStep, link : Int,
             binding : {op.binding}, identity : {identity}, at : Int]
  BY <1>1 DEF OpType
<1>4. o \in [kind : {"preview"}, intent : {op.intent}, review : {op.review}, step : OpStep, link : Int,
             binding : {op.binding}, identity : {identity}, at : Int]
  BY <1>3 DEF CryptoTypeOK
<1>5. o \in OpType
  BY <1>1, <1>4 DEF OpType
<1>6. Crypto!Onward(o, "cover")
  BY <1>1
<1>7. OpKnows'
  <2> HIDE DEF o
  <2>1. o.kind = "preview" /\ o.intent = op.intent /\ o.binding = op.binding /\ o.identity = identity
    BY <1>4
  <2>2. op' # None => op' \in OpType /\ op'.step = "cover" /\ op'.kind = "preview" /\ op'.intent = op.intent
                      /\ op'.binding = op.binding /\ op'.identity = identity
    BY <1>5, <1>6, <2>1, NextCall DEF OpStep
  <2>3. OpType' = OpType
    BY <1>1 DEF OpType
  <2>4. QED
    BY <1>1, <1>2, <2>2, <2>3 DEF OpKnows
<1>8. QED
  BY <1>1, <1>7, PinStep

LEMMA AnswerPins ==
    ASSUME Crypto!CryptoAssumption, CryptoInv, NEW identity \in Identity, Crypto!Placed(identity)
           \/ Crypto!OrderRead(identity)
    PROVE  CryptoInv'
<1> USE DEF CryptoInv
<1>1. /\ op # None /\ op \in OpType /\ op.binding \in Binding
      /\ Crypto!Agrees(identity) /\ adapter' = Crypto!Pinned(identity)
      /\ op' = None \/ Crypto!Onward(op, "sent")
      /\ UNCHANGED <<link, account, book, issued, placed, clock>>
  BY DEF Crypto!Placed, Crypto!OrderRead, Crypto!Answered, OpKnows
<1>2. adapter'.sent = adapter.sent
  BY <1>1, PinKept
<1>3. OpType' = OpType
  BY <1>1 DEF OpType
<1>4. OpKnows'
  BY <1>1, <1>2, <1>3, NextCall DEF OpKnows, OpStep
<1>5. QED
  BY <1>1, <1>4, PinStep

-----------------------------------------------------------------------------
(* A preview is kept, and a placement leaves. *)

LEMMA ReviewedStep ==
    ASSUME Crypto!CryptoAssumption, CryptoInv, Crypto!Reviewed
    PROVE  CryptoInv'
<1> USE DEF CryptoInv
<1> DEFINE review == [intent |-> op.intent, binding |-> op.binding, identity |-> op.identity,
                      at |-> op.at, link |-> op.link, serial |-> Crypto!Cardinality(issued)]
           kept == [i \in Intent |-> IF Crypto!Live(adapter.reviews[i]) THEN adapter.reviews[i] ELSE None]
<1>1. /\ op # None /\ op \in OpType /\ op.binding \in Binding /\ op.identity \in Identity
      /\ adapter.pin[op.binding.rhs] = op.identity /\ op.intent \notin adapter.sent
      /\ op.link = link.number /\ link.phase # "down"
      /\ op' = None /\ UNCHANGED <<link, account, book, placed, clock>>
      /\ adapter' = [adapter EXCEPT !.reviews = [kept EXCEPT ![op.intent] = review]]
      /\ issued' = issued \cup {review}
  BY DEF Crypto!Reviewed, Crypto!Answered, OpKnows
<1>2. review \in PreviewRecord /\ review.intent = op.intent /\ review.link = link.number
      /\ review.binding = op.binding /\ review.identity = op.identity
  <2>1. Crypto!Cardinality(issued) \in Int
    BY FS_CardinalityType, Counts DEF CryptoTypeOK
  <2>2. QED
    BY <1>1, <2>1 DEF PreviewRecord, OpType
<1> HIDE DEF review
<1>3. kept \in [Intent -> issued \cup {None}] /\ \A i \in Intent : kept[i] \in {adapter.reviews[i], None}
  BY DEF CryptoTypeOK
<1> HIDE DEF kept
<1>4. op.intent \in Intent
  BY <1>1 DEF OpType
<1>5. /\ adapter'.sent = adapter.sent /\ adapter'.pin = adapter.pin
      /\ adapter'.reviews = [kept EXCEPT ![op.intent] = review]
      /\ adapter' \in [reviews : [Intent -> issued' \cup {None}], sent : SUBSET Intent,
                        pin : [Rhs -> Identity \cup {None}]]
  BY <1>1, <1>3, <1>4 DEF CryptoTypeOK
<1>6. CryptoTypeOK'
  <2>1. IsFiniteSet(issued')
    BY <1>1, FS_AddElement DEF CryptoTypeOK
  <2>2. QED
    BY <1>1, <1>2, <1>5, <2>1 DEF CryptoTypeOK
<1>7. OpKnows'
  BY <1>1 DEF OpKnows
<1>8. ReviewsCurrent'
  BY <1>1, <1>2, <1>3, <1>4, <1>5 DEF ReviewsCurrent
<1>9. IssuedPinned'
  BY <1>1, <1>2, <1>5 DEF IssuedPinned
<1>10. RequestsUsed' /\ Crypto!FreshReview'
  BY <1>1, <1>5 DEF RequestsUsed, Crypto!FreshReview
<1>11. Crypto!SentOnce'
  <2>1. \A i \in adapter'.sent : adapter'.reviews[i] = None
    BY <1>1, <1>3, <1>4, <1>5 DEF Crypto!SentOnce, CryptoTypeOK
  <2>2. QED
    BY <1>1, <2>1 DEF Crypto!SentOnce
<1>12. QED
  BY <1>6, <1>7, <1>8, <1>9, <1>10, <1>11

LEMMA DispatchStep ==
    ASSUME Crypto!CryptoAssumption, CryptoInv, Crypto!Dispatch
    PROVE  CryptoInv'
<1> USE DEF CryptoInv
<1>1. /\ op # None /\ op \in OpType /\ op.binding \in Binding /\ op.kind = "place"
      /\ op.review \in issued /\ op.review.intent = op.intent /\ op.binding = op.review.binding
      /\ adapter.reviews[op.intent] = op.review /\ op.review # None /\ clock - op.review.at \in 0..Life
      /\ adapter' = [[adapter EXCEPT !.sent = adapter.sent \cup {op.intent}]
                         EXCEPT !.reviews = [adapter.reviews EXCEPT ![op.intent] = None]]
      /\ placed' \in {placed, placed \cup {Crypto!Placement}}
      /\ Crypto!Onward(op, "sent")
      /\ UNCHANGED <<link, account, book, issued, clock>>
  BY DEF Crypto!Dispatch, Crypto!Answered, OpKnows, Crypto!Live, Crypto!Unused, Crypto!Consumed
<1>2. op.intent \in Intent
  BY <1>1 DEF OpType
<1>3. [adapter EXCEPT !.sent = adapter.sent \cup {op.intent}]
         \in [reviews : {adapter.reviews}, sent : {adapter.sent \cup {op.intent}}, pin : {adapter.pin}]
  BY DEF CryptoTypeOK
<1>4. adapter' \in [reviews : {[adapter.reviews EXCEPT ![op.intent] = None]},
                    sent : {adapter.sent \cup {op.intent}}, pin : {adapter.pin}]
  BY <1>1, <1>3
<1>5. /\ adapter'.sent = adapter.sent \cup {op.intent} /\ adapter'.pin = adapter.pin
      /\ adapter'.reviews = [adapter.reviews EXCEPT ![op.intent] = None]
  BY <1>4
<1>6. CryptoTypeOK'
  BY <1>1, <1>2, <1>4 DEF CryptoTypeOK
<1>7. op.intent \notin adapter.sent /\ op.review.link = link.number
  BY <1>1, <1>2 DEF ReviewsCurrent
<1>8. OpKnows'
  <2>1. OpType' = OpType
    BY <1>1 DEF OpType
  <2>2. QED
    BY <1>1, <2>1, NextCall DEF OpKnows, OpStep
<1>9. ReviewsCurrent' /\ IssuedPinned'
  BY <1>1, <1>2, <1>5 DEF ReviewsCurrent, IssuedPinned, CryptoTypeOK
<1>10. /\ Crypto!Placement.intent = op.intent /\ Crypto!Placement.review = op.review
            /\ Crypto!Placement.binding = op.binding
       /\ Crypto!Placement.link = link.number /\ Crypto!Placement.at = clock
  BY DEF Crypto!Placement
<1> HIDE DEF Crypto!Placement
<1>11. RequestsUsed'
  BY <1>1, <1>5, <1>10 DEF RequestsUsed
<1>12. Crypto!FreshReview'
  BY <1>1, <1>7, <1>10 DEF Crypto!FreshReview
<1>13. Crypto!SentOnce'
  <2>1. \A i \in adapter'.sent : adapter'.reviews[i] = None
    BY <1>2, <1>5 DEF Crypto!SentOnce, CryptoTypeOK
  <2>2. \A r \in placed : r.intent # op.intent
    BY <1>7 DEF RequestsUsed
  <2>3. QED
    BY <1>1, <1>10, <2>1, <2>2 DEF Crypto!SentOnce
<1>14. QED
  BY <1>6, <1>8, <1>9, <1>11, <1>12, <1>13

-----------------------------------------------------------------------------
(* The connection, the broker and the clock. *)

LEMMA LinkStep ==
    ASSUME CryptoInv, Crypto!Disconnect \/ Crypto!Down \/ Crypto!Reconnect
    PROVE  CryptoInv'
<1> USE DEF CryptoInv
<1>1. /\ UNCHANGED <<account, op, book, issued, placed, clock>>
      /\ adapter' = [adapter EXCEPT !.reviews = Crypto!NoReviews] \/ (adapter' = adapter /\ link.phase = "down")
      /\ link' \in [number : Int, phase : {"up", "closing", "down"}]
  BY DEF Crypto!Disconnect, Crypto!Down, Crypto!Reconnect, Crypto!Invalidated, Crypto!OwnerCleanup, CryptoTypeOK
<1>2. /\ adapter'.sent = adapter.sent /\ adapter'.pin = adapter.pin
      /\ \A i \in Intent : adapter'.reviews[i] = None
      /\ adapter' \in [reviews : [Intent -> issued \cup {None}], sent : SUBSET Intent,
                        pin : [Rhs -> Identity \cup {None}]]
  BY <1>1 DEF CryptoTypeOK, Crypto!NoReviews, ReviewsCurrent
<1>3. CryptoTypeOK' /\ OpKnows'
  BY <1>1, <1>2 DEF CryptoTypeOK, OpKnows, OpType
<1>4. ReviewsCurrent' /\ RequestsUsed' /\ IssuedPinned' /\ Crypto!FreshReview'
  BY <1>1, <1>2 DEF ReviewsCurrent, RequestsUsed, IssuedPinned, Crypto!FreshReview
<1>5. Crypto!SentOnce'
  BY <1>1, <1>2 DEF Crypto!SentOnce, CryptoTypeOK
<1>6. QED
  BY <1>3, <1>4, <1>5

LEMMA OutsideStep ==
    ASSUME CryptoInv, Crypto!BrokerSide \/ Crypto!Tick
    PROVE  CryptoInv'
<1> USE DEF CryptoInv
<1>1. /\ UNCHANGED <<link, adapter, op, issued, placed>>
      /\ account' \in Binding \cup {None} /\ clock' \in {clock, clock + 1}
  BY DEF Crypto!BrokerSide, Crypto!Tick, CryptoTypeOK
<1>2. CryptoTypeOK' /\ OpKnows'
  BY <1>1 DEF CryptoTypeOK, OpKnows, OpType
<1>3. ReviewsCurrent' /\ RequestsUsed' /\ IssuedPinned' /\ Crypto!FreshReview' /\ Crypto!SentOnce'
  BY <1>1 DEF ReviewsCurrent, RequestsUsed, IssuedPinned, Crypto!FreshReview, Crypto!SentOnce
<1>4. QED
  BY <1>2, <1>3

LEMMA CryptoStep == ASSUME Crypto!CryptoAssumption PROVE CryptoInv /\ [Crypto!Next]_(Crypto!vars) => CryptoInv'
<1> SUFFICES ASSUME CryptoInv, [Crypto!Next]_(Crypto!vars) PROVE CryptoInv'
  OBVIOUS
<1>1. CASE UNCHANGED Crypto!vars
  BY <1>1 DEF Crypto!vars, CryptoInv, CryptoTypeOK, OpKnows, OpType, ReviewsCurrent, RequestsUsed, IssuedPinned,
              Crypto!SentOnce, Crypto!FreshReview
<1>2. ASSUME NEW i \in Intent, Crypto!Preview(i) \/ Crypto!Cancel(i) PROVE CryptoInv'
  BY <1>2, EnteredStep DEF Crypto!Preview, Crypto!Cancel
<1>3. ASSUME NEW r \in issued, Crypto!Place(r) PROVE CryptoInv'
  <2>1. r.intent \in Intent
    BY DEF CryptoInv, CryptoTypeOK, PreviewRecord
  <2>2. Crypto!Entered("place", r.intent, r)
    BY <1>3 DEF Crypto!Place
  <2>3. QED
    BY <2>1, <2>2, EnteredStep
<1>4. ASSUME NEW u \in Identity, Crypto!PreviewRead(u) \/ Crypto!Placed(u) \/ Crypto!OrderRead(u) PROVE CryptoInv'
  BY <1>4, PreviewReadStep, AnswerPins
<1>5. QED
  BY <1>1, <1>2, <1>3, <1>4, AccountStep, EndStep, ReviewedStep, DispatchStep, LinkStep, OutsideStep DEF Crypto!Next

-----------------------------------------------------------------------------
(* The inductive invariant holds of every behaviour. *)
THEOREM CryptoInvariant == ASSUME Crypto!CryptoAssumption PROVE Crypto!Spec => []CryptoInv
BY CryptoStarts, CryptoStep, PTL DEF Crypto!Spec

(* One reference is placed at most once and never reviewed again, whatever
   times out, is abandoned or is cut off by a reconnect (broker/crypto.py:296). *)
THEOREM ReferencesLeaveOnce == ASSUME Crypto!CryptoAssumption PROVE Crypto!Spec => []Crypto!SentOnce
<1>1. CryptoInv => Crypto!SentOnce
  BY DEF CryptoInv
<1>2. QED
  BY <1>1, CryptoInvariant, PTL

(* A placement leaves on the connection, for the account and within the life
   of the preview it uses up (broker/crypto.py:288). *)
THEOREM PlacementsAreReviewed == ASSUME Crypto!CryptoAssumption PROVE Crypto!Spec => []Crypto!FreshReview
<1>1. CryptoInv => Crypto!FreshReview
  BY DEF CryptoInv
<1>2. QED
  BY <1>1, CryptoInvariant, PTL

(* All previews of an account name one identity (broker/crypto.py:128). *)
THEOREM AccountsKeepIdentity == ASSUME Crypto!CryptoAssumption PROVE Crypto!Spec => []Crypto!OneIdentity
<1>1. CryptoInv => Crypto!OneIdentity
  BY DEF CryptoInv, IssuedPinned, Crypto!OneIdentity
<1>2. QED
  BY <1>1, CryptoInvariant, PTL

-----------------------------------------------------------------------------
(* BrokerReads.  Rows arrive before the pages still to be read. *)

(* What a listing under way lacks is still to come: behind the pages read. *)
NothingSkipped ==
    read # None =>
        /\ read.rows \in Seq(Item) /\ read.cursor \in Nat /\ read.seen \subseteq Nat
        /\ \A i \in read.before :
              i \in Reads!Range(read.rows) \/ \E n \in 1..Len(list) : n > read.cursor /\ list[n] = i

ReadsInv == list \in Seq(Item) /\ NothingSkipped /\ Reads!ListingWhole

LEMMA SmallerOf == ASSUME NEW a \in Int, NEW b \in Int PROVE Reads!Min({a, b}) = IF a <= b THEN a ELSE b
<1> DEFINE m == IF a <= b THEN a ELSE b
<1>1. m \in {a, b} /\ \A y \in {a, b} : m <= y
  OBVIOUS
<1>2. \A x \in {a, b} : (\A y \in {a, b} : x <= y) => x = m
  OBVIOUS
<1> HIDE DEF m
<1>3. Reads!Min({a, b}) = m
  BY <1>1, <1>2 DEF Reads!Min
<1> QED
  BY <1>3 DEF m

(* A page holds the rows behind the cursor, as many as it has room for. *)
LEMMA PageHolds ==
    ASSUME Reads!ReadsAssumption, list \in Seq(Item), NEW cursor \in Nat
    PROVE  /\ Reads!PageAt(cursor) \in Seq(Item)
           /\ \A n \in 1..Len(list) :
                 n > cursor /\ n <= cursor + PageSize => list[n] \in Reads!Range(Reads!PageAt(cursor))
<1> DEFINE last == IF cursor + PageSize <= Len(list) THEN cursor + PageSize ELSE Len(list)
<1>1. PageSize \in Nat /\ Len(list) \in Nat
  BY DEF Reads!ReadsAssumption
<1>2. Reads!PageAt(cursor) = SubSeq(list, cursor + 1, last)
  BY <1>1, SmallerOf DEF Reads!PageAt
<1>3. last \in Int /\ cursor + 1 \in Int /\ \A i \in cursor + 1..last : list[i] \in Item
  BY <1>1
<1>4. last <= Len(list) /\ last <= cursor + PageSize /\ (last = Len(list) \/ last = cursor + PageSize)
  BY <1>1
<1> HIDE DEF last
<1>5. /\ Reads!PageAt(cursor) \in Seq(Item)
      /\ Len(Reads!PageAt(cursor)) = IF cursor + 1 <= last THEN last - (cursor + 1) + 1 ELSE 0
      /\ \A i \in 1..(last - (cursor + 1) + 1) : Reads!PageAt(cursor)[i] = list[cursor + 1 + i - 1]
  BY <1>2, <1>3, SubSeqProperties
<1>6. ASSUME NEW n \in 1..Len(list), n > cursor, n <= cursor + PageSize
      PROVE  list[n] \in Reads!Range(Reads!PageAt(cursor))
  <2>1. n <= last
    BY <1>1, <1>3, <1>4, <1>6
  <2>2. n - cursor \in 1..Len(Reads!PageAt(cursor)) /\ Reads!PageAt(cursor)[n - cursor] = list[n]
    <3>1. cursor + 1 <= last /\ Len(Reads!PageAt(cursor)) = last - (cursor + 1) + 1
      BY <1>3, <1>5, <1>6, <2>1
    <3>2. n - cursor \in 1..(last - (cursor + 1) + 1)
      BY <1>3, <1>6, <2>1
    <3>3. Reads!PageAt(cursor)[n - cursor] = list[cursor + 1 + (n - cursor) - 1]
      BY <1>5, <3>2
    <3>4. cursor + 1 + (n - cursor) - 1 = n
      BY <1>6
    <3> QED
      BY <3>1, <3>2, <3>3, <3>4
  <2>3. DOMAIN Reads!PageAt(cursor) = 1..Len(Reads!PageAt(cursor))
    BY <1>5
  <2> QED
    BY <2>2, <2>3 DEF Reads!Range
<1> QED
  BY <1>5, <1>6

LEMMA RangeOfConcat ==
    ASSUME NEW s \in Seq(Item), NEW t \in Seq(Item)
    PROVE  Reads!Range(s \o t) = Reads!Range(s) \cup Reads!Range(t)
<1>1. /\ s \o t \in Seq(Item) /\ Len(s \o t) = Len(s) + Len(t)
      /\ \A i \in 1..(Len(s) + Len(t)) : (s \o t)[i] = IF i <= Len(s) THEN s[i] ELSE t[i - Len(s)]
  BY ConcatProperties
<1>2. DOMAIN s = 1..Len(s) /\ DOMAIN t = 1..Len(t) /\ DOMAIN (s \o t) = 1..(Len(s) + Len(t))
      /\ Len(s) \in Nat /\ Len(t) \in Nat
  BY <1>1
<1>3. ASSUME NEW x \in Reads!Range(s) PROVE x \in Reads!Range(s \o t)
  <2>1. PICK i \in 1..Len(s) : x = s[i]
    BY <1>2 DEF Reads!Range
  <2>2. i \in 1..(Len(s) + Len(t)) /\ (s \o t)[i] = x
    BY <1>1, <1>2, <2>1
  <2> QED
    BY <1>2, <2>2 DEF Reads!Range
<1>4. ASSUME NEW x \in Reads!Range(t) PROVE x \in Reads!Range(s \o t)
  <2>1. PICK i \in 1..Len(t) : x = t[i]
    BY <1>2 DEF Reads!Range
  <2>2. Len(s) + i \in 1..(Len(s) + Len(t)) /\ (s \o t)[Len(s) + i] = x
    BY <1>1, <1>2, <2>1
  <2> QED
    BY <1>2, <2>2 DEF Reads!Range
<1>5. ASSUME NEW x \in Reads!Range(s \o t) PROVE x \in Reads!Range(s) \cup Reads!Range(t)
  <2>1. PICK i \in 1..(Len(s) + Len(t)) : x = (s \o t)[i]
    BY <1>2 DEF Reads!Range
  <2>2. CASE i <= Len(s)
    BY <1>1, <1>2, <2>1, <2>2 DEF Reads!Range
  <2>3. CASE i > Len(s)
    <3>1. i - Len(s) \in 1..Len(t) /\ x = t[i - Len(s)]
      BY <1>1, <1>2, <2>1, <2>3
    <3> QED
      BY <1>2, <3>1 DEF Reads!Range
  <2> QED
    BY <1>2, <2>1, <2>2, <2>3
<1> QED
  BY <1>3, <1>4, <1>5

LEMMA EachRowOnce ==
    ASSUME NEW s \in Seq(Item), \A i, j \in 1..Len(s) : s[i] = s[j] => i = j
    PROVE  Cardinality(Reads!Range(s)) = Len(s)
<1>1. DOMAIN s = 1..Len(s) /\ Len(s) \in Nat /\ s \in [1..Len(s) -> Reads!Range(s)]
  BY DEF Reads!Range
<1>2. s \in Surjection(1..Len(s), Reads!Range(s)) /\ s \in Injection(1..Len(s), Reads!Range(s))
  BY <1>1 DEF Surjection, Injection, IsInjective, Reads!Range
<1>3. IsFiniteSet(1..Len(s)) /\ Cardinality(1..Len(s)) = Len(s)
  <2> DEFINE n == Len(s)
  <2>1. n \in Nat
    BY <1>1
  <2> HIDE DEF n
  <2>2. IsFiniteSet(1..n) /\ Cardinality(1..n) = IF 1 > n THEN 0 ELSE n - 1 + 1
    BY <2>1, FS_Interval
  <2> QED
    BY <2>1, <2>2 DEF n
<1> QED
  BY <1>2, <1>3, FS_Surjection

LEMMA ReadsStart == ASSUME Reads!ReadsAssumption, Reads!Init PROVE ReadsInv
<1>1. list \in Seq(Item)
  <2>1. list = <<>> \/ \E i \in Item : list = <<i>>
    BY DEF Reads!Init
  <2>2. <<>> \in Seq(Item) /\ \A i \in Item : <<i>> \in Seq(Item)
    OBVIOUS
  <2> QED
    BY <2>1, <2>2
<1>2. read = None /\ listing = None
  BY DEF Reads!Init
<1> QED
  BY <1>1, <1>2 DEF ReadsInv, NothingSkipped, Reads!ListingWhole

LEMMA PageRead ==
    ASSUME Reads!ReadsAssumption, ReadsInv, Reads!ReadPage
    PROVE  ReadsInv'
<1> USE DEF ReadsInv
<1>1. /\ read # None /\ list \in Seq(Item) /\ UNCHANGED <<list, bad>>
      /\ read.rows \in Seq(Item) /\ read.cursor \in Nat /\ read.seen \subseteq Nat
      /\ \A i \in read.before :
            i \in Reads!Range(read.rows) \/ \E n \in 1..Len(list) : n > read.cursor /\ list[n] = i
  BY DEF Reads!ReadPage, NothingSkipped
<1>2. PageSize \in Nat /\ None \notin Nat /\ Len(list) \in Nat
  BY <1>1 DEF Reads!ReadsAssumption
<1> DEFINE gathered == read.rows \o Reads!PageAt(read.cursor)
<1> DEFINE next == read.cursor + PageSize
<1>3. PICK cursor \in Reads!Following :
        CASE cursor = None -> IF Reads!Accepts(gathered)
                              THEN read' = None /\ listing' = [rows |-> gathered, before |-> read.before]
                              ELSE Reads!Failed
          [] cursor # None /\ Reads!Refused(cursor) -> Reads!Failed
          [] OTHER -> /\ read' = [read EXCEPT !.rows = gathered, !.cursor = cursor,
                                              !.seen = @ \cup {cursor}, !.pages = @ + 1]
                      /\ UNCHANGED listing
  BY DEF Reads!ReadPage
<1>4. gathered \in Seq(Item) /\ Reads!Range(gathered) = Reads!Range(read.rows) \cup Reads!Range(Reads!PageAt(read.cursor))
  BY <1>1, PageHolds, RangeOfConcat, ConcatProperties
<1>5. \A i \in read.before :
          i \in Reads!Range(gathered) \/ \E n \in 1..Len(list) : n > next /\ list[n] = i
  <2>1. SUFFICES ASSUME NEW i \in read.before, i \notin Reads!Range(gathered)
                 PROVE  \E n \in 1..Len(list) : n > next /\ list[n] = i
    OBVIOUS
  <2>2. i \notin Reads!Range(read.rows) /\ i \notin Reads!Range(Reads!PageAt(read.cursor))
    BY <1>4, <2>1
  <2>3. PICK n \in 1..Len(list) : n > read.cursor /\ list[n] = i
    BY <1>1, <2>1, <2>2
  <2>4. ~(n <= next)
    BY <1>1, <2>2, <2>3, PageHolds
  <2> QED
    BY <1>1, <1>2, <2>3, <2>4
<1>6. ASSUME Reads!Failed PROVE ReadsInv'
  BY <1>1, <1>6 DEF Reads!Failed, NothingSkipped, Reads!ListingWhole
<1>7. CASE cursor = None
  <2>1. next >= Len(list)
    BY <1>1, <1>2, <1>3, <1>7 DEF Reads!Following
  <2>2. read.before \subseteq Reads!Range(gathered)
    BY <1>1, <1>2, <1>5, <2>1
  <2> HIDE DEF gathered
  <2>3. CASE Reads!Accepts(gathered)
    <3>1. read' = None /\ listing' = [rows |-> gathered, before |-> read.before]
      BY <1>3, <1>7, <2>3
    <3>2. Cardinality(Reads!Range(gathered)) = Len(gathered)
      BY <1>4, <2>3, EachRowOnce DEF Reads!Accepts
    <3>3. Reads!Range(gathered) \cap bad = {}
      BY <1>4, <2>3 DEF Reads!Accepts, Reads!Parses, Reads!Range
    <3> QED
      BY <1>1, <2>2, <3>1, <3>2, <3>3, Counts DEF NothingSkipped, Reads!ListingWhole
  <2>4. CASE ~Reads!Accepts(gathered)
    BY <1>3, <1>6, <1>7, <2>4
  <2> QED
    BY <2>3, <2>4
<1>8. CASE cursor # None /\ Reads!Refused(cursor)
  BY <1>3, <1>6, <1>8
<1>9. CASE cursor # None /\ ~Reads!Refused(cursor)
  <2>1. cursor = next
    BY <1>3, <1>9 DEF Reads!Following, Reads!Refused
  <2> HIDE DEF gathered
  <2>2. /\ read' = [read EXCEPT !.rows = gathered, !.cursor = cursor, !.seen = @ \cup {cursor}, !.pages = @ + 1]
        /\ UNCHANGED listing
    BY <1>3, <1>9
  <2> QED
    BY <1>1, <1>2, <1>4, <1>5, <2>1, <2>2 DEF NothingSkipped, Reads!ListingWhole
<1> QED
  BY <1>7, <1>8, <1>9

LEMMA ReadsStep == ASSUME Reads!ReadsAssumption, ReadsInv, [Reads!Next]_(Reads!vars) PROVE ReadsInv'
<1> USE DEF ReadsInv
<1>1. CASE Reads!Begin
  <2>1. read' = [rows |-> <<>>, cursor |-> 0, seen |-> {}, pages |-> 0, before |-> Reads!Range(list)]
        /\ listing' = None /\ list' = list /\ bad' = bad
    BY <1>1 DEF Reads!Begin
  <2>2. \A i \in Reads!Range(list) : \E n \in 1..Len(list) : n > 0 /\ list[n] = i
    BY DEF Reads!Range
  <2> QED
    BY <2>1, <2>2 DEF NothingSkipped, Reads!ListingWhole
<1>2. CASE Reads!ReadPage
  BY <1>2, PageRead
<1>3. CASE Reads!CallFails
  BY <1>3 DEF Reads!CallFails, Reads!Failed, NothingSkipped, Reads!ListingWhole
<1>4. CASE Reads!Arrives
  <2>1. PICK i \in Item : list' = <<i>> \o list
    BY <1>4 DEF Reads!Arrives
  <2>2. /\ list' \in Seq(Item) /\ Len(list') = Len(list) + 1
        /\ \A n \in 1..Len(list) : list'[n + 1] = list[n]
    BY <2>1
  <2>3. UNCHANGED <<bad, read, listing>>
    BY <1>4 DEF Reads!Arrives
  <2>4. NothingSkipped'
    <3>1. SUFFICES ASSUME read # None, NEW x \in read.before, x \notin Reads!Range(read.rows)
                   PROVE  \E n \in 1..Len(list') : n > read.cursor /\ list'[n] = x
      BY <2>3 DEF NothingSkipped
    <3>2. PICK n \in 1..Len(list) : n > read.cursor /\ list[n] = x
      BY <3>1 DEF NothingSkipped
    <3>3. n + 1 \in 1..Len(list') /\ n + 1 > read.cursor /\ list'[n + 1] = x
      BY <2>2, <3>1, <3>2 DEF NothingSkipped
    <3> QED
      BY <3>3
  <2> QED
    BY <2>2, <2>3, <2>4 DEF Reads!ListingWhole
<1>5. CASE UNCHANGED Reads!vars
  BY <1>5 DEF Reads!vars, NothingSkipped, Reads!ListingWhole
<1> QED
  BY <1>1, <1>2, <1>3, <1>4, <1>5 DEF Reads!Next

-----------------------------------------------------------------------------
(* SessionDesk.  A start that is on its way names the review its user approved,
   or one that is over; a stop makes those before it void. *)

StatusAnswer == [generation : Nat, scope : Scope \cup {None}, running : BOOLEAN, connected : BOOLEAN]

TaskOp == {"launch", "connect", "review", "authorize", "start", "restop", "stop", "fence", "paper",
       "await", "shutdown", "status", "offline"}

Asked == [op : TaskOp, state : {"idle", "sent", "answered", "failed"}, scope : Scope \cup {None},
         generation : Nat \cup {None}, tag : Nat, seen : Nat \cup {None}, answer : StatusAnswer \cup {None}]

Shown == [reachable : BOOLEAN, running : BOOLEAN, generation : Nat \cup {None}, missing : BOOLEAN,
          fence : BOOLEAN, connected : BOOLEAN]

ReviewHeld == [scope : Scope \cup {None}, generation : Nat]

WindowFields == [review : ReviewHeld \cup {None}, dialog : Scope \cup {None}, stop : BOOLEAN, known : BOOLEAN,
           moved : BOOLEAN, shown : Shown, closed : BOOLEAN]

HostRecord == [generation : Nat, running : BOOLEAN, scope : Scope \cup {None}, tag : Nat,
           seen : Nat \cup {None}, paper : Nat, connected : BOOLEAN]

WindowTypeOK ==
    /\ window \in WindowFields /\ host \in HostRecord
    /\ call \in [Window!Task -> Asked \cup {None}] /\ late \subseteq Asked
    /\ approvals \in Nat /\ fenced \in Nat

OpsOf ==
    [k \in Window!Task |->
       CASE k = "connect" -> {"launch", "connect", "status", "offline"}
         [] k = "review" -> {"review", "status", "offline"}
         [] k = "start" -> {"authorize", "start", "restop"}
         [] k = "stop" -> {"stop", "fence"}
         [] k = "paper" -> {"launch", "paper", "restop", "status", "offline"}
         [] k = "exit" -> {"await", "shutdown", "fence"}
         [] OTHER -> {"status", "offline"}]

(* Each task asks its own questions, and the window knows no generation that
   is still to come. *)
TasksAsk ==
    /\ \A k \in Window!Task : Window!Active(k) => call[k] \in Asked /\ call[k].op \in OpsOf[k]
    /\ \A k \in Window!Task : Window!Active(k) /\ call[k].state = "answered" =>
           call[k].answer \in StatusAnswer /\ call[k].answer.generation <= host.generation
    /\ \A k \in Window!Task : Window!Active(k) /\ call[k].op = "await" => call[k].state = "idle"
    /\ window.review # None => window.review \in ReviewHeld /\ window.review.generation <= host.generation

(* The starts that the worker may still meet. *)
Starts == {c \in late \cup {call["start"]} : (c \in late \/ call["start"] # None) /\ c.op = "start"}

(* Each names the review that its user approved, and an approval under way
   still has that review or none. *)
StartsAgree ==
    /\ \A c \in Starts : c.generation \in Nat /\ c.generation = c.seen /\ c.generation <= host.generation
    /\ Window!Active("start") => ~Window!Active("review")
    /\ Window!Active("start") /\ call["start"].op = "authorize" /\ window.review # None =>
          window.review.generation = call["start"].seen

(* Stop and exit hold the window until they are over. *)
HaltsHold == Window!Active("stop") \/ Window!Active("exit") => window.stop = TRUE

(* Once the worker has taken a stop, no start that is on its way is good, and
   none that was good runs. *)
Taken(k) == Window!Active(k) /\ call[k].state = "answered"

StopsBite ==
    Taken("stop") \/ Taken("exit") =>
        /\ host.running => host.tag = 0
        /\ \A c \in Starts : c.generation < host.generation

(* What was approved before the last confirmed stop is void. *)
FencedIsVoid ==
    /\ fenced <= approvals
    /\ \A c \in Starts : c.tag > fenced \/ c.generation < host.generation
    /\ Window!Active("start") /\ call["start"].op = "authorize" => call["start"].tag > fenced \/ window.stop = TRUE

DeskInv == WindowTypeOK /\ TasksAsk /\ StartsAgree /\ HaltsHold /\ StopsBite /\ FencedIsVoid /\ Window!DeskKept
-----------------------------------------------------------------------------
(* The record goes on: what runs ran before, is nobody's here, or is a start
   that was on its way and named the present generation. *)
HostGoesOn ==
    /\ host' \in HostRecord /\ host'.generation >= host.generation
    /\ host'.running /\ host'.tag # 0 =>
          \/ host.running /\ host'.generation = host.generation
                /\ host'.tag = host.tag /\ host'.seen = host.seen
          \/ \E c \in Starts : /\ c.generation = host.generation /\ host'.generation = c.generation + 1
                               /\ host'.tag = c.tag /\ host'.seen = c.seen

(* No start that was not on its way before. *)
Inherits ==
    \A c \in Starts' : \E b \in Starts : c.generation = b.generation /\ c.seen = b.seen /\ c.tag = b.tag

(* A confirmation voids what was approved before. *)
Confirms ==
    \/ fenced' = fenced /\ approvals' \in Nat /\ approvals' >= approvals
    \/ fenced' = approvals /\ approvals' = approvals /\ host' = host /\ (Taken("stop") \/ Taken("exit"))

(* Any step without a new approval or a new start. *)
LEMMA Carries ==
    ASSUME Window!DeskAssumption, DeskInv, WindowTypeOK', TasksAsk', HostGoesOn, Inherits, Confirms,
           Window!Active("start")' =>
               /\ Window!Active("start")
               /\ call'["start"].op = "authorize" =>
                     /\ call["start"].op = "authorize" /\ call'["start"].tag = call["start"].tag
                     /\ call'["start"].seen = call["start"].seen,
           Window!Active("review")' => Window!Active("review") \/ ~Window!Active("start"),
           window'.review = None \/ window'.review = window.review \/ ~Window!Active("start"),
           window'.stop = TRUE \/ window'.stop = window.stop \/ ~Window!Active("start"),
           Window!Active("stop")' \/ Window!Active("exit")' => window'.stop = TRUE,
           Taken("stop")' \/ Taken("exit")' =>
               \/ Taken("stop") \/ Taken("exit")
               \/ host'.running = FALSE /\ host'.generation > host.generation
    PROVE  DeskInv'
<1> USE DEF DeskInv
<1>1. \A c \in Starts : c.generation \in Nat /\ c.generation = c.seen /\ c.generation <= host.generation
  BY DEF StartsAgree
<1>2. host.generation \in Nat /\ host'.generation \in Nat /\ host'.generation >= host.generation
      /\ approvals \in Nat /\ fenced \in Nat /\ fenced' \in Nat /\ host.tag \in Nat /\ host'.tag \in Nat
  BY DEF HostGoesOn, WindowTypeOK, HostRecord
<1>3. StartsAgree'
  <2>1. \A c \in Starts' : c.generation \in Nat /\ c.generation = c.seen /\ c.generation <= host'.generation
    BY <1>1, <1>2 DEF Inherits
  <2>2. Window!Active("start")' => ~Window!Active("review")'
    BY DEF StartsAgree
  <2>3. Window!Active("start")' /\ call'["start"].op = "authorize" /\ window'.review # None =>
            window'.review.generation = call'["start"].seen
    BY DEF StartsAgree
  <2> QED
    BY <2>1, <2>2, <2>3 DEF StartsAgree
<1>4. HaltsHold'
  BY DEF HaltsHold
<1>5. \A c \in Starts : c.generation < host.generation => c.generation < host'.generation
  BY <1>1, <1>2
<1>6. StopsBite'
  <2>1. ASSUME Taken("stop") \/ Taken("exit") PROVE StopsBite'
    <3>1. host.running => host.tag = 0
      BY <2>1 DEF StopsBite
    <3>2. \A c \in Starts : c.generation < host.generation
      BY <2>1 DEF StopsBite
    <3>3. host'.running => host'.tag = 0
      BY <1>1, <1>2, <3>1, <3>2 DEF HostGoesOn
    <3>4. \A c \in Starts' : c.generation < host'.generation
      BY <1>5, <3>2 DEF Inherits
    <3> QED
      BY <3>3, <3>4 DEF StopsBite
  <2>2. ASSUME host'.running = FALSE, host'.generation > host.generation PROVE StopsBite'
    <3>1. \A c \in Starts' : c.generation < host'.generation
      BY <1>1, <1>2, <2>2 DEF Inherits
    <3> QED
      BY <2>2, <3>1 DEF StopsBite
  <2>3. CASE ~(Taken("stop")' \/ Taken("exit")')
    BY <2>3 DEF StopsBite
  <2> QED
    BY <2>1, <2>2, <2>3
<1>7. FencedIsVoid' /\ Window!DeskKept'
  <2>1. CASE fenced' = fenced /\ approvals' \in Nat /\ approvals' >= approvals
    <3>1. fenced' <= approvals'
      BY <1>2, <2>1 DEF FencedIsVoid
    <3>2. \A c \in Starts' : c.tag > fenced' \/ c.generation < host'.generation
      BY <1>5, <2>1 DEF FencedIsVoid, Inherits
    <3>3. Window!Active("start")' /\ call'["start"].op = "authorize" => call'["start"].tag > fenced'
            \/ window'.stop = TRUE
      BY <2>1 DEF FencedIsVoid
    <3>4. Window!StopWins'
      <4>1. SUFFICES ASSUME host'.running, host'.tag # 0 PROVE host'.tag > fenced
        BY <2>1 DEF Window!StopWins
      <4>2. CASE host.running /\ host'.tag = host.tag
        BY <4>1, <4>2 DEF Window!DeskKept, Window!StopWins
      <4>3. ASSUME NEW c \in Starts, c.generation = host.generation, host'.tag = c.tag
            PROVE  host'.tag > fenced
        BY <1>1, <1>2, <4>3 DEF FencedIsVoid
      <4> QED
        BY <4>1, <4>2, <4>3 DEF HostGoesOn
    <3>5. Window!StartedAsReviewed'
      BY <1>1, <1>2 DEF HostGoesOn, Window!DeskKept, Window!StartedAsReviewed
    <3> QED
      BY <3>1, <3>2, <3>3, <3>4, <3>5 DEF FencedIsVoid, Window!DeskKept
  <2>2. CASE fenced' = approvals /\ approvals' = approvals /\ host' = host /\ (Taken("stop") \/ Taken("exit"))
    <3>1. \A c \in Starts' : c.generation < host'.generation
      BY <2>2 DEF StopsBite, Inherits
    <3>2. host'.running => host'.tag = 0
      BY <2>2 DEF StopsBite
    <3>3. window.stop = TRUE
      BY <2>2 DEF HaltsHold, Taken
    <3>4. Window!Active("start")' => window'.stop = TRUE
      BY <3>3
    <3> QED
      BY <1>2, <2>2, <3>1, <3>2, <3>4 DEF FencedIsVoid, Window!DeskKept, Window!StopWins, Window!StartedAsReviewed
  <2> QED
    BY <2>1, <2>2 DEF Confirms
<1> QED
  BY <1>3, <1>4, <1>6, <1>7

LEMMA Sends ==
    ASSUME DeskInv, NEW k \in Window!Task, NEW x \in Asked \cup {None}, Window!Send(k, x)
    PROVE  /\ call' \in [Window!Task -> Asked \cup {None}] /\ call'[k] = x
           /\ \A j \in Window!Task \ {k} : call'[j] = call[j]
  BY DEF DeskInv, WindowTypeOK, Window!Send

(* The window's other tasks: a question asked, or a task that ends. *)
LEMMA TaskGoesOn ==
    ASSUME Window!DeskAssumption, DeskInv, NEW k \in Window!Task \ {"start"}, NEW x \in Asked \cup {None},
           Window!Send(k, x),
           x # None => x.op \in OpsOf[k] /\ (x.state = "idle" \/ (x.state = "sent" /\ x.op # "await")),
           UNCHANGED <<late, host>>, Confirms, fenced' \in Nat, approvals' \in Nat,
           window' \in WindowFields,
           \/ window'.review \in {window.review, None}
           \/ ~Window!Active("start") /\ window'.review \in ReviewHeld
                /\ window'.review.generation <= host.generation,
           k = "review" /\ x # None => Window!Active("review") \/ ~Window!Active("start"),
           \/ window'.stop = TRUE
           \/ window'.stop = window.stop /\ (k \in {"stop", "exit"} /\ x # None => window.stop = TRUE)
           \/ k \notin {"stop", "exit"} /\ ~Window!Active("start") /\ ~Window!Active("stop")
                /\ ~Window!Active("exit")
    PROVE  DeskInv'
<1>1. /\ call' \in [Window!Task -> Asked \cup {None}] /\ call'[k] = x
      /\ \A j \in Window!Task \ {k} : call'[j] = call[j]
  BY Sends
<1>2. WindowTypeOK'
  BY <1>1 DEF DeskInv, WindowTypeOK
<1>3. TasksAsk'
  <2>1. \A j \in Window!Task : Window!Active(j)' => call'[j] \in Asked /\ call'[j].op \in OpsOf[j]
    BY <1>1 DEF DeskInv, TasksAsk, Window!Active
  <2>2. \A j \in Window!Task : Window!Active(j)' /\ call'[j].state = "answered" =>
            call'[j].answer \in StatusAnswer /\ call'[j].answer.generation <= host'.generation
    BY <1>1 DEF DeskInv, TasksAsk, Window!Active
  <2>3. window'.review # None => window'.review \in ReviewHeld /\ window'.review.generation <= host'.generation
    BY DEF DeskInv, TasksAsk
  <2>4. \A j \in Window!Task : Window!Active(j)' /\ call'[j].op = "await" => call'[j].state = "idle"
    BY <1>1 DEF DeskInv, TasksAsk, Window!Active
  <2> QED
    BY <2>1, <2>2, <2>3, <2>4 DEF TasksAsk
<1>4. HostGoesOn
  BY DEF DeskInv, WindowTypeOK, HostGoesOn, HostRecord
<1>5. "start" \in Window!Task /\ "stop" \in Window!Task /\ "exit" \in Window!Task /\ "review" \in Window!Task
  BY DEF Window!Task
<1>6. call'["start"] = call["start"] /\ late' = late
  BY <1>1, <1>5
<1>7. Inherits
  BY <1>6 DEF Inherits, Starts
<1>8. Window!Active("review")' => Window!Active("review") \/ ~Window!Active("start")
  BY <1>1, <1>5 DEF Window!Active
<1>9. Window!Active("stop")' \/ Window!Active("exit")' => window'.stop = TRUE
  BY <1>1, <1>5 DEF DeskInv, HaltsHold, Window!Active
<1>10. Taken("stop")' \/ Taken("exit")' => Taken("stop") \/ Taken("exit")
  BY <1>1, <1>5 DEF Taken, Window!Active
<1> QED
  BY <1>2, <1>3, <1>4, <1>6, <1>7, <1>8, <1>9, <1>10, Carries DEF Window!Active

(* The window's fields under the operators that change them. *)
LEMMA FieldsKept ==
    ASSUME NEW d \in WindowFields
    PROVE  /\ Window!Moved(d) \in WindowFields /\ Window!Moved(d).review = d.review /\ Window!Moved(d).stop = d.stop
           /\ Window!Heard(d) \in WindowFields /\ Window!Heard(d).review = d.review /\ Window!Heard(d).stop = d.stop
           /\ Window!Cleared(d) \in WindowFields /\ Window!Cleared(d).review = None
                /\ Window!Cleared(d).stop = d.stop
           /\ Window!Halting(d) \in WindowFields /\ Window!Halting(d).review = d.review
                /\ Window!Halting(d).stop = TRUE
  BY DEF WindowFields, Window!Moved, Window!Heard, Window!Cleared, Window!Halting

LEMMA ShownKept ==
    ASSUME NEW d \in WindowFields, NEW s \in Shown
    PROVE  [d EXCEPT !.shown = s] \in WindowFields /\ [d EXCEPT !.shown = s].review = d.review
           /\ [d EXCEPT !.shown = s].stop = d.stop
  BY DEF WindowFields

LEMMA AppliedKeeps ==
    ASSUME NEW d \in WindowFields, NEW answer \in StatusAnswer
    PROVE  /\ Window!Applied(d, answer) \in WindowFields /\ Window!Applied(d, answer).review \in {d.review, None}
           /\ Window!Applied(d, answer).stop = d.stop
<1> DEFINE same == d.review # None /\ d.review.scope = answer.scope /\ d.review.generation = answer.generation
<1> DEFINE e == Window!Heard(Window!Moved(IF same THEN d ELSE Window!Cleared(d)))
<1> DEFINE s == [reachable |-> TRUE, running |-> answer.running, generation |-> answer.generation,
                 missing |-> FALSE, fence |-> FALSE, connected |-> answer.connected]
<1> DEFINE c == IF same THEN d ELSE Window!Cleared(d)
<1>0. c \in WindowFields /\ c.review \in {d.review, None} /\ c.stop = d.stop
  BY FieldsKept
<1> HIDE DEF same
<1>1. e \in WindowFields /\ e.review \in {d.review, None} /\ e.stop = d.stop
  <2> DEFINE m == Window!Moved(c)
  <2>1. m \in WindowFields /\ m.review = c.review /\ m.stop = c.stop
    BY <1>0, FieldsKept
  <2> HIDE DEF m, c
  <2>2. Window!Heard(m) \in WindowFields /\ Window!Heard(m).review = m.review /\ Window!Heard(m).stop = m.stop
    BY <2>1, FieldsKept
  <2> QED
    BY <1>0, <2>1, <2>2 DEF m, c
<1>2. s \in Shown
  BY DEF Shown, StatusAnswer
<1>3. Window!Applied(d, answer) = [e EXCEPT !.shown = s]
  BY DEF Window!Applied, same
<1> HIDE DEF e, s
<1> QED
  BY <1>1, <1>2, <1>3, ShownKept

LEMMA DisconnectedKeeps ==
    ASSUME NEW d \in WindowFields, NEW answer \in StatusAnswer
    PROVE  /\ Window!Disconnected(d, answer) \in WindowFields /\ Window!Disconnected(d, answer).review = None
           /\ Window!Disconnected(d, answer).stop = d.stop
<1> DEFINE e == Window!Moved(Window!Cleared(d))
<1> DEFINE s == [Window!Unseen EXCEPT !.generation = answer.generation, !.fence = ~answer.running]
<1>1. e \in WindowFields /\ e.review = None /\ e.stop = d.stop
  BY FieldsKept
<1>2. s \in Shown
  BY DEF Shown, Window!Unseen, StatusAnswer
<1>3. Window!Disconnected(d, answer) = [e EXCEPT !.shown = s]
  BY DEF Window!Disconnected
<1> HIDE DEF e, s
<1> QED
  BY <1>1, <1>2, <1>3, ShownKept

LEMMA AskIs ==
    ASSUME NEW o \in TaskOp
    PROVE  /\ Window!Ask(o) \in Asked /\ Window!Ask(o).op = o /\ Window!Ask(o).state = "sent"
           /\ [Window!Ask(o) EXCEPT !.state = "idle"] \in Asked /\ [Window!Ask(o) EXCEPT !.state = "idle"].op = o
           /\ [Window!Ask(o) EXCEPT !.state = "idle"].state = "idle"
  BY DEF Window!Ask, Asked

(* A review that the window may come to hold. *)
Heeds(r) ==
    \/ r = window.review
    \/ ~Window!Active("start") /\ r \in ReviewHeld /\ r.generation <= host.generation

(* A status asked for within a task that is no start, stop or exit. *)
LEMMA Probes ==
    ASSUME Window!DeskAssumption, DeskInv, NEW k \in {"connect", "review", "paper", "refresh"},
           NEW d \in WindowFields, Window!Probe(k, d),
           late' = late, host' = host, approvals' = approvals, fenced' = fenced,
           Heeds(d.review), d.stop = window.stop,
           k = "review" => Window!Active("review")
    PROVE  DeskInv'
<1>1. k \in Window!Task \ {"start"} /\ k \notin {"stop", "exit"} /\ "status" \in OpsOf[k] /\ "status" \in TaskOp
  BY DEF Window!Task, OpsOf, TaskOp
<1>2. Confirms /\ fenced' \in Nat /\ approvals' \in Nat
  BY DEF Confirms, DeskInv, WindowTypeOK
<1> USE DEF Heeds
<1>3. CASE Window!StatusInFlight
  <2>1. Window!Send(k, None) /\ window' = d
    BY <1>3 DEF Window!Probe, Window!Done
  <2> QED
    BY <1>1, <1>2, <2>1, TaskGoesOn
<1>4. CASE ~Window!StatusInFlight
  <2>1. Window!Send(k, Window!Ask("status")) /\ window' = [d EXCEPT !.moved = FALSE]
    BY <1>4 DEF Window!Probe
  <2>2. window' \in WindowFields /\ window'.review = d.review /\ window'.stop = d.stop
    BY <2>1 DEF WindowFields
  <2>3. Window!Ask("status") \in Asked /\ Window!Ask("status").op = "status" /\ Window!Ask("status").state = "sent"
    BY <1>1, AskIs
  <2> QED
    BY <1>1, <1>2, <2>1, <2>2, <2>3, TaskGoesOn
<1> QED
  BY <1>3, <1>4

(* The task of a start, when it sends no start. *)
LEMMA StartGoesOn ==
    ASSUME Window!DeskAssumption, DeskInv, NEW x \in Asked \cup {None}, Window!Send("start", x),
           x # None => x.op = "restop" /\ x.state = "sent" /\ Window!Active("start"),
           UNCHANGED <<late, host, approvals, fenced>>,
           window' \in WindowFields, window'.review \in {window.review, None}, window'.stop = window.stop
    PROVE  DeskInv'
<1>0. "start" \in Window!Task /\ "stop" \in Window!Task /\ "exit" \in Window!Task /\ "review" \in Window!Task
  BY DEF Window!Task
<1>1. /\ call' \in [Window!Task -> Asked \cup {None}] /\ call'["start"] = x
      /\ \A j \in Window!Task \ {"start"} : call'[j] = call[j]
  BY <1>0, Sends
<1>2. WindowTypeOK'
  BY <1>1 DEF DeskInv, WindowTypeOK
<1>3. TasksAsk'
  <2>1. "restop" \in OpsOf["start"]
    BY <1>0 DEF OpsOf
  <2>2. \A j \in Window!Task : Window!Active(j)' => call'[j] \in Asked /\ call'[j].op \in OpsOf[j]
    BY <1>1, <2>1 DEF DeskInv, TasksAsk, Window!Active
  <2>3. \A j \in Window!Task : Window!Active(j)' /\ call'[j].state = "answered" =>
            call'[j].answer \in StatusAnswer /\ call'[j].answer.generation <= host'.generation
    BY <1>1 DEF DeskInv, TasksAsk, Window!Active
  <2>4. window'.review # None => window'.review \in ReviewHeld /\ window'.review.generation <= host'.generation
    BY DEF DeskInv, TasksAsk
  <2>5. \A j \in Window!Task : Window!Active(j)' /\ call'[j].op = "await" => call'[j].state = "idle"
    BY <1>1 DEF DeskInv, TasksAsk, Window!Active
  <2> QED
    BY <2>2, <2>3, <2>4, <2>5 DEF TasksAsk
<1>4. HostGoesOn /\ Confirms
  BY DEF DeskInv, WindowTypeOK, HostGoesOn, HostRecord, Confirms
<1>5. Inherits
  BY <1>1 DEF Inherits, Starts
<1>6. Window!Active("review")' => Window!Active("review")
  BY <1>0, <1>1 DEF Window!Active
<1>7. Window!Active("stop")' \/ Window!Active("exit")' => window'.stop = TRUE
  BY <1>0, <1>1 DEF DeskInv, HaltsHold, Window!Active
<1>8. Taken("stop")' \/ Taken("exit")' => Taken("stop") \/ Taken("exit")
  BY <1>0, <1>1 DEF Taken, Window!Active
<1>9. Window!Active("start")' => Window!Active("start") /\ call'["start"].op = "restop"
  BY <1>1 DEF Window!Active
<1> QED
  BY <1>2, <1>3, <1>4, <1>5, <1>6, <1>7, <1>8, <1>9, Carries

LEMMA Unchanged ==
    ASSUME DeskInv
    PROVE  /\ window \in WindowFields /\ window.review \in {window.review, None} /\ approvals \in Nat
              /\ fenced \in Nat
           /\ host.generation \in Nat
           /\ {"start", "stop", "exit", "review", "paper", "connect", "refresh"} \subseteq Window!Task
           /\ \A k \in Window!Task : call[k] \in Asked \cup {None}
           /\ \A k \in Window!Task : Window!Active(k) => call[k] \in Asked /\ call[k].op \in OpsOf[k]
           /\ \A k \in Window!Task : Window!Active(k) /\ call[k].state = "answered" =>
                  call[k].answer \in StatusAnswer /\ call[k].answer.generation <= host.generation
  BY DEF DeskInv, WindowTypeOK, TasksAsk, Window!Task, HostRecord

LEMMA NothingVoided ==
    ASSUME DeskInv, approvals' = approvals, fenced' = fenced
    PROVE  Confirms /\ fenced' \in Nat /\ approvals' \in Nat
  BY DEF DeskInv, WindowTypeOK, Confirms

(* The buttons. *)
LEMMA Buttons ==
    ASSUME Window!DeskAssumption, DeskInv,
           \/ Window!PressConnect \/ Window!PressStart \/ Window!Approve \/ Window!PressStop \/ Window!PressExit
                \/ Window!PressPaper \/ Window!Refresh
           \/ \E s \in Scope : Window!PressReview(s)
    PROVE  DeskInv'
<1>0. /\ window \in WindowFields /\ window.review \in {window.review, None} /\ approvals \in Nat /\ fenced \in Nat
      /\ {"start", "stop", "exit", "review", "paper", "connect", "refresh"} \subseteq Window!Task
  BY Unchanged
<1>1. CASE Window!PressConnect
  <2>1. Window!Send("connect", Window!Ask("launch")) /\ UNCHANGED <<window, late, host, approvals, fenced>>
    BY <1>1 DEF Window!PressConnect, Window!ghosts
  <2>2. "launch" \in TaskOp /\ "launch" \in OpsOf["connect"]
    BY <1>0 DEF TaskOp, OpsOf
  <2>9. Confirms /\ fenced' \in Nat /\ approvals' \in Nat
    BY <2>1, NothingVoided
  <2>10. Window!Ask("launch") \in Asked /\ Window!Ask("launch").op = "launch" /\ Window!Ask("launch").state = "sent"
    BY <2>2, AskIs
  <2> QED
    BY <1>0, <2>1, <2>2, <2>9, <2>10, TaskGoesOn
<1>2. ASSUME NEW s \in Scope, Window!PressReview(s) PROVE DeskInv'
  <2> DEFINE x == [Window!Ask("review") EXCEPT !.scope = s]
  <2>1. Window!Send("review", x) /\ window' = Window!Moved(window) /\ UNCHANGED <<late, host, approvals, fenced>>
    BY <1>2 DEF Window!PressReview, Window!ghosts
  <2>2. "review" \in OpsOf["review"]
    BY <1>0 DEF OpsOf
  <2>3. x \in Asked /\ x.op = "review" /\ x.state = "sent"
    BY DEF Window!Ask, Asked, TaskOp
  <2>4. ~Window!Active("start")
    BY <1>2 DEF Window!PressReview, Window!InTransition, Window!Busy
  <2>5. window' \in WindowFields /\ window'.review = window.review /\ window'.stop = window.stop
    BY <1>0, <2>1, FieldsKept
  <2>9. Confirms /\ fenced' \in Nat /\ approvals' \in Nat
    BY <2>1, NothingVoided
  <2> HIDE DEF x
  <2> QED
    BY <1>0, <2>1, <2>2, <2>3, <2>4, <2>5, <2>9, TaskGoesOn
<1>3. CASE Window!PressStart
  <2>1. /\ window' = [window EXCEPT !.stop = FALSE, !.dialog = window.review.scope]
        /\ window.review # None
        /\ ~Window!Active("start") /\ ~Window!Active("stop") /\ ~Window!Active("exit")
        /\ UNCHANGED <<call, late, host, approvals, fenced>>
    BY <1>3 DEF Window!PressStart, Window!InTransition, Window!Busy, Window!ghosts
  <2>2. window.review.scope \in Scope \cup {None}
    BY <2>1 DEF DeskInv, TasksAsk, ReviewHeld
  <2>3. window' \in WindowFields /\ window'.review = window.review
    BY <1>0, <2>1, <2>2 DEF WindowFields
  <2>4. WindowTypeOK' /\ TasksAsk'
    BY <2>1, <2>3 DEF DeskInv, WindowTypeOK, TasksAsk, Window!Active
  <2>5. HostGoesOn /\ Confirms /\ Inherits
    BY <1>0, <2>1 DEF DeskInv, WindowTypeOK, HostGoesOn, HostRecord, Confirms, Inherits, Starts
  <2> QED
    BY <2>1, <2>3, <2>4, <2>5, Carries DEF Window!Active, Taken
<1>4. CASE Window!Approve
  <2> DEFINE x == [Window!Ask("authorize") EXCEPT !.scope = window.dialog, !.tag = approvals + 1, !.seen = window.review.generation]
  <2>1. /\ Window!Send("start", x) /\ window' = [window EXCEPT !.dialog = None]
        /\ window.dialog # None /\ window.review # None
        /\ ~Window!Active("start") /\ ~Window!Active("review") /\ ~Window!Active("stop") /\ ~Window!Active("exit")
        /\ approvals' = approvals + 1 /\ UNCHANGED <<late, host, fenced>>
    BY <1>4 DEF Window!Approve, Window!Busy
  <2>2. window.dialog \in Scope \cup {None} /\ window.review.generation \in Nat
    BY <1>0, <2>1 DEF DeskInv, TasksAsk, ReviewHeld, WindowFields
  <2>3. x \in Asked /\ x.op = "authorize" /\ x.state = "sent" /\ x.tag = approvals + 1
        /\ x.seen = window.review.generation
    <3>1. approvals + 1 \in Nat
      BY <1>0
    <3>2. Window!Ask("authorize") \in Asked /\ Window!Ask("authorize").op = "authorize"
            /\ Window!Ask("authorize").state = "sent"
      BY AskIs DEF TaskOp
    <3> DEFINE r == Window!Ask("authorize")
    <3> HIDE DEF r
    <3> QED
      BY <2>2, <3>1, <3>2 DEF Asked, r
  <2> HIDE DEF x
  <2>4. /\ call' \in [Window!Task -> Asked \cup {None}] /\ call'["start"] = x
        /\ \A j \in Window!Task \ {"start"} : call'[j] = call[j]
    BY <1>0, <2>1, <2>3, Sends
  <2>5. window' \in WindowFields /\ window'.review = window.review /\ window'.stop = window.stop
    BY <1>0, <2>1 DEF WindowFields
  <2>6. WindowTypeOK'
    BY <1>0, <2>1, <2>4, <2>5 DEF DeskInv, WindowTypeOK
  <2>7. TasksAsk'
    <3>1. "authorize" \in OpsOf["start"]
      BY <1>0 DEF OpsOf
    <3> QED
      BY <2>1, <2>3, <2>4, <2>5, <3>1 DEF DeskInv, TasksAsk, Window!Active
  <2>8. Starts' \subseteq Starts
    BY <2>1, <2>3, <2>4 DEF Starts
  <2>9. ~Window!Active("review")' /\ ~Window!Active("stop")' /\ ~Window!Active("exit")'
    BY <1>0, <2>1, <2>4 DEF Window!Active
  <2>10. StartsAgree'
    BY <2>1, <2>3, <2>4, <2>5, <2>8, <2>9 DEF DeskInv, StartsAgree
  <2>11. HaltsHold' /\ StopsBite'
    BY <2>9 DEF HaltsHold, StopsBite, Taken
  <2>12. FencedIsVoid'
    <3>1. fenced' <= approvals' /\ call'["start"].tag > fenced'
      BY <1>0, <2>1, <2>3, <2>4 DEF DeskInv, FencedIsVoid
    <3>2. \A c \in Starts' : c.tag > fenced' \/ c.generation < host'.generation
      BY <2>1, <2>8 DEF DeskInv, FencedIsVoid
    <3> QED
      BY <3>1, <3>2 DEF FencedIsVoid
  <2>13. Window!DeskKept'
    BY <2>1 DEF DeskInv, Window!DeskKept, Window!StopWins, Window!StartedAsReviewed
  <2> QED
    BY <2>6, <2>7, <2>10, <2>11, <2>12, <2>13 DEF DeskInv
<1>5. CASE Window!PressStop
  <2>1. Window!Send("stop", Window!Ask("stop")) /\ window' = Window!Halting(window)
          /\ UNCHANGED <<late, host, approvals, fenced>>
    BY <1>5 DEF Window!PressStop
  <2>2. "stop" \in TaskOp /\ "stop" \in OpsOf["stop"]
    BY <1>0 DEF TaskOp, OpsOf
  <2>3. window' \in WindowFields /\ window'.review = window.review /\ window'.stop = TRUE
    BY <1>0, <2>1, FieldsKept
  <2>9. Confirms /\ fenced' \in Nat /\ approvals' \in Nat
    BY <2>1, NothingVoided
  <2>10. Window!Ask("stop") \in Asked /\ Window!Ask("stop").op = "stop" /\ Window!Ask("stop").state = "sent"
    BY <2>2, AskIs
  <2> QED
    BY <1>0, <2>1, <2>2, <2>3, <2>9, <2>10, TaskGoesOn
<1>6. CASE Window!PressExit
  <2> DEFINE x == [Window!Ask("await") EXCEPT !.state = "idle"]
  <2>1. Window!Send("exit", x) /\ window' = Window!Halting(window) /\ UNCHANGED <<late, host, approvals, fenced>>
    BY <1>6 DEF Window!PressExit
  <2>2. "await" \in TaskOp /\ "await" \in OpsOf["exit"]
    BY <1>0 DEF TaskOp, OpsOf
  <2>3. window' \in WindowFields /\ window'.review = window.review /\ window'.stop = TRUE
    BY <1>0, <2>1, FieldsKept
  <2>4. x \in Asked /\ x.op = "await" /\ x.state = "idle"
    BY <2>2, AskIs
  <2>9. Confirms /\ fenced' \in Nat /\ approvals' \in Nat
    BY <2>1, NothingVoided
  <2> HIDE DEF x
  <2> QED
    BY <1>0, <2>1, <2>2, <2>3, <2>4, <2>9, TaskGoesOn
<1>7. CASE Window!PressPaper
  <2> DEFINE o == IF window.shown.reachable THEN "paper" ELSE "launch"
  <2> DEFINE x == [Window!Ask(o) EXCEPT !.tag = approvals + 1]
  <2>1. /\ Window!Send("paper", x) /\ window' = Window!Moved([window EXCEPT !.stop = FALSE])
        /\ ~Window!Active("start") /\ ~Window!Active("stop") /\ ~Window!Active("exit")
        /\ approvals' = approvals + 1 /\ UNCHANGED <<late, host, fenced>>
    BY <1>7 DEF Window!PressPaper, Window!InTransition, Window!Busy
  <2>2. o \in TaskOp /\ o \in OpsOf["paper"] /\ o # "await"
    BY <1>0 DEF TaskOp, OpsOf
  <2> HIDE DEF o
  <2>3. x \in Asked /\ x.op = o /\ x.state = "sent"
    BY <1>0, <2>2 DEF Window!Ask, Asked
  <2>4. [window EXCEPT !.stop = FALSE] \in WindowFields /\ [window EXCEPT !.stop = FALSE].review = window.review
    BY <1>0 DEF WindowFields
  <2>5. window' \in WindowFields /\ window'.review = window.review
    BY <2>1, <2>4, FieldsKept
  <2>6. Confirms /\ approvals' \in Nat /\ fenced' \in Nat
    BY <1>0, <2>1 DEF Confirms
  <2> HIDE DEF x
  <2> QED
    BY <1>0, <2>1, <2>2, <2>3, <2>5, <2>6, TaskGoesOn
<1>8. CASE Window!Refresh
  <2>1. Window!Probe("refresh", window)
    BY <1>8 DEF Window!Refresh
  <2>2. UNCHANGED <<late, host, approvals, fenced>>
    BY <1>8 DEF Window!Refresh, Window!ghosts
  <2>3. Heeds(window.review)
    BY DEF Heeds
  <2> QED
    BY <1>0, <2>1, <2>2, <2>3, Probes
<1> QED
  BY <1>1, <1>2, <1>3, <1>4, <1>5, <1>6, <1>7, <1>8

(* A task goes on with another question, or ends. *)
LEMMA Proceeds ==
    ASSUME Window!DeskAssumption, DeskInv, NEW k \in Window!Task \ {"start"}, Window!Active(k),
           NEW x \in Asked \cup {None}, Window!Send(k, x),
           x # None => x.op \in OpsOf[k] /\ (x.state = "idle" \/ (x.state = "sent" /\ x.op # "await")),
           late' = late, host' = host, Confirms, fenced' \in Nat, approvals' \in Nat,
           window' \in WindowFields, window'.review \in {window.review, None}, window'.stop = window.stop
    PROVE  DeskInv'
<1>1. k \in {"stop", "exit"} => window.stop = TRUE
  BY DEF DeskInv, HaltsHold
<1>2. k = "review" /\ x # None => Window!Active("review") \/ ~Window!Active("start")
  OBVIOUS
<1> QED
  BY <1>1, <1>2, TaskGoesOn

(* What a task asks for next. *)
LEMMA Asks ==
    ASSUME Window!DeskAssumption, DeskInv, NEW k \in Window!Task \ {"start"}, Window!Active(k), NEW o \in TaskOp,
           o \in OpsOf[k], o # "await",
           Window!Send(k, Window!Ask(o)), late' = late, host' = host, approvals' = approvals, fenced' = fenced,
           window' \in WindowFields, window'.review \in {window.review, None}, window'.stop = window.stop
    PROVE  DeskInv'
<1>1. Window!Ask(o) \in Asked /\ Window!Ask(o).op = o /\ Window!Ask(o).state = "sent"
  BY AskIs
<1>2. Confirms /\ fenced' \in Nat /\ approvals' \in Nat
  BY NothingVoided
<1> QED
  BY <1>1, <1>2, Proceeds

LEMMA Ends ==
    ASSUME Window!DeskAssumption, DeskInv, NEW k \in Window!Task \ {"start"}, Window!Active(k), Window!Done(k),
           late' = late, host' = host, approvals' = approvals, fenced' = fenced,
           window' \in WindowFields, window'.review \in {window.review, None}, window'.stop = window.stop
    PROVE  DeskInv'
<1>1. Window!Send(k, None)
  BY DEF Window!Done
<1>2. Confirms /\ fenced' \in Nat /\ approvals' \in Nat
  BY NothingVoided
<1> QED
  BY <1>1, <1>2, Proceeds

(* A stop that is over voids what was approved before. *)
LEMMA StopEnds ==
    ASSUME Window!DeskAssumption, DeskInv, Taken("stop"), Window!Done("stop"), late' = late, host' = host,
           Window!Confirmed,
           window' \in WindowFields, window'.review \in {window.review, None}, window'.stop = window.stop
    PROVE  DeskInv'
<1>1. Window!Send("stop", None) /\ Window!Active("stop") /\ "stop" \in Window!Task \ {"start"}
  BY DEF Window!Done, Taken, Window!Task
<1>2. fenced' = approvals /\ approvals' = approvals
  BY DEF Window!Confirmed
<1>3. Confirms /\ fenced' \in Nat /\ approvals' \in Nat
  BY <1>2 DEF Confirms, DeskInv, WindowTypeOK
<1> QED
  BY <1>1, <1>3, Proceeds

-----------------------------------------------------------------------------
(* What the tasks do with an answer. *)
QuietStep ==
    /\ late' = late /\ host' = host /\ approvals' = approvals /\ fenced' = fenced

LEMMA LaunchConnectReview ==
    ASSUME Window!DeskAssumption, DeskInv, Window!AfterLaunch \/ Window!AfterConnect \/ Window!AfterReview
           \/ Window!ReviewFails
    PROVE  DeskInv'
<1>0. /\ window \in WindowFields /\ window.review \in {window.review, None} /\ host.generation \in Nat
      /\ {"start", "stop", "exit", "review", "paper", "connect", "refresh"} \subseteq Window!Task
  BY Unchanged
<1>1. CASE Window!AfterLaunch
  <2>1. window' \in WindowFields /\ window'.review \in {window.review, None} /\ window'.stop = window.stop
          /\ QuietStep
    <3>1. window' = Window!Heard(window) /\ QuietStep
      BY <1>1 DEF Window!AfterLaunch, Window!Quietly, QuietStep, Window!ghosts
    <3> QED
      BY <1>0, <3>1, FieldsKept
  <2>2. CASE Window!Answered("connect", "launch") /\ Window!Send("connect", Window!Ask("connect"))
    <3>1. "connect" \in TaskOp /\ "connect" \in OpsOf["connect"] /\ Window!Active("connect")
      BY <1>0, <2>2 DEF TaskOp, OpsOf, Window!Answered
    <3> QED
      BY <1>0, <2>1, <2>2, <3>1, Asks DEF QuietStep
  <2> DEFINE x == [call["paper"] EXCEPT !.op = "paper", !.state = "sent"]
  <2>3. CASE /\ Window!Answered("paper", "launch")
             /\ Window!Send("paper", IF Window!Halted THEN None ELSE x)
    <3>1. Window!Active("paper") /\ call["paper"] \in Asked
      BY <1>0, <2>3, Unchanged DEF Window!Answered
    <3>2. x \in Asked /\ x.op = "paper" /\ x.state = "sent" /\ "paper" \in OpsOf["paper"]
      BY <1>0, <3>1 DEF Asked, TaskOp, OpsOf
    <3>3. Confirms /\ fenced' \in Nat /\ approvals' \in Nat
      BY <2>1, NothingVoided DEF QuietStep
    <3> DEFINE y == IF Window!Halted THEN None ELSE x
    <3>4. y \in Asked \cup {None} /\ (y # None => y.op \in OpsOf["paper"] /\ y.state = "sent" /\ y.op # "await")
      BY <3>2
    <3>5. Window!Send("paper", y)
      BY <2>3
    <3> HIDE DEF x, y
    <3> QED
      BY <1>0, <2>1, <3>1, <3>3, <3>4, <3>5, Proceeds DEF QuietStep
  <2> QED
    BY <1>1, <2>2, <2>3 DEF Window!AfterLaunch
<1>2. CASE Window!AfterConnect
  <2>1. Window!Probe("connect", window)
    BY <1>2 DEF Window!AfterConnect
  <2>2. late' = late /\ host' = host /\ approvals' = approvals /\ fenced' = fenced
    BY <1>2 DEF Window!AfterConnect, Window!Quietly, Window!ghosts
  <2>3. Heeds(window.review)
    BY DEF Heeds
  <2> QED
    BY <1>0, <2>1, <2>2, <2>3, Probes
<1>3. CASE Window!AfterReview
  <2> DEFINE answer == call["review"].answer
  <2> DEFINE r == [scope |-> answer.scope, generation |-> answer.generation]
  <2> DEFINE e == [window EXCEPT !.known = TRUE, !.review = r]
  <2>1. Window!Active("review") /\ call["review"].state = "answered" /\ Window!Probe("review", Window!Moved(e))
    BY <1>3 DEF Window!AfterReview, Window!Answered
  <2>2. late' = late /\ host' = host /\ approvals' = approvals /\ fenced' = fenced
    BY <1>3 DEF Window!AfterReview, Window!Quietly, Window!ghosts
  <2>3. answer \in StatusAnswer /\ answer.generation <= host.generation
    BY <1>0, <2>1, Unchanged
  <2> HIDE DEF answer
  <2>4. r \in ReviewHeld /\ r.generation <= host.generation
    BY <2>3 DEF StatusAnswer, ReviewHeld
  <2> HIDE DEF r
  <2>5. e \in WindowFields /\ e.review = r /\ e.stop = window.stop
    BY <1>0, <2>4 DEF WindowFields
  <2>6. ~Window!Active("start")
    BY <2>1 DEF DeskInv, StartsAgree
  <2>7. Window!Moved(e) \in WindowFields /\ Window!Moved(e).review = r /\ Window!Moved(e).stop = window.stop
    BY <2>5, FieldsKept
  <2>8. Heeds(Window!Moved(e).review)
    BY <2>4, <2>6, <2>7 DEF Heeds
  <2> DEFINE d == Window!Moved(e)
  <2>9. Window!Probe("review", d) /\ d \in WindowFields /\ d.stop = window.stop /\ Heeds(d.review)
    BY <2>1, <2>7, <2>8
  <2> HIDE DEF d
  <2> QED
    BY <2>1, <2>2, <2>9, Probes
<1>4. CASE Window!ReviewFails
  <2>1. Window!Done("review") /\ window' = [window EXCEPT !.review = None] /\ Window!Active("review")
    BY <1>4 DEF Window!ReviewFails, Window!Failed
  <2>2. late' = late /\ host' = host /\ approvals' = approvals /\ fenced' = fenced
    BY <1>4 DEF Window!ReviewFails, Window!Quietly, Window!ghosts
  <2>3. window' \in WindowFields /\ window'.review = None /\ window'.stop = window.stop
    BY <1>0, <2>1 DEF WindowFields
  <2> QED
    BY <1>0, <2>1, <2>2, <2>3, Ends
<1> QED
  BY <1>1, <1>2, <1>3, <1>4

(* The start that was authorized names the review its user approved. *)
LEMMA StartIsSent ==
    ASSUME Window!DeskAssumption, DeskInv, Window!AfterAuthorize
    PROVE  DeskInv'
<1>0. /\ window \in WindowFields /\ window.review \in {window.review, None} /\ host.generation \in Nat
      /\ {"start", "stop", "exit", "review", "paper", "connect", "refresh"} \subseteq Window!Task
  BY Unchanged
<1>1. /\ Window!Active("start") /\ call["start"].op = "authorize"
      /\ window' = window /\ late' = late /\ host' = host /\ approvals' = approvals /\ fenced' = fenced
  BY DEF Window!AfterAuthorize, Window!Answered, Window!Quietly, Window!ghosts
<1>2. CASE window.stop \/ window.review = None
  <2>1. Window!Send("start", None)
    BY <1>2 DEF Window!AfterAuthorize
  <2> QED
    BY <1>0, <1>1, <2>1, StartGoesOn
<1>3. CASE ~window.stop /\ window.review # None
  <2> DEFINE x == [call["start"] EXCEPT !.op = "start", !.state = "sent", !.generation = window.review.generation]
  <2>1. Window!Send("start", x)
    BY <1>3 DEF Window!AfterAuthorize
  <2>2. window.review.generation \in Nat /\ window.review.generation <= host.generation
        /\ window.review.generation = call["start"].seen
    BY <1>1, <1>3 DEF DeskInv, TasksAsk, ReviewHeld, StartsAgree
  <2>3. call["start"] \in Asked
    BY <1>0, <1>1, Unchanged
  <2>4. window.stop = FALSE
    BY <1>0, <1>3 DEF WindowFields
  <2>5. call["start"].tag > fenced
    BY <1>1, <2>4 DEF DeskInv, FencedIsVoid
  <2>6. x \in Asked /\ x.op = "start" /\ x.state = "sent" /\ x.generation = window.review.generation
        /\ x.seen = call["start"].seen /\ x.tag = call["start"].tag
    BY <2>2, <2>3 DEF Asked, TaskOp
  <2> HIDE DEF x
  <2>7. /\ call' \in [Window!Task -> Asked \cup {None}] /\ call'["start"] = x
        /\ \A j \in Window!Task \ {"start"} : call'[j] = call[j]
    BY <1>0, <2>1, <2>6, Sends
  <2>8. ~Window!Active("stop") /\ ~Window!Active("exit") /\ ~Window!Active("review")
    BY <1>1, <2>4 DEF DeskInv, HaltsHold, StartsAgree
  <2>9. ~Window!Active("stop")' /\ ~Window!Active("exit")' /\ ~Window!Active("review")'
    BY <1>0, <2>7, <2>8 DEF Window!Active
  <2>10. WindowTypeOK'
    BY <1>1, <2>7 DEF DeskInv, WindowTypeOK
  <2>11. TasksAsk'
    <3>1. "start" \in OpsOf["start"]
      BY <1>0 DEF OpsOf
    <3> QED
      BY <1>1, <2>6, <2>7, <3>1 DEF DeskInv, TasksAsk, Window!Active
  <2>12. \A c \in Starts' : c = x \/ c \in Starts
    BY <1>1, <2>7 DEF Starts
  <2>13. StartsAgree'
    <3>1. \A c \in Starts' : c.generation \in Nat /\ c.generation = c.seen /\ c.generation <= host'.generation
      BY <1>1, <2>2, <2>6, <2>12 DEF DeskInv, StartsAgree
    <3> QED
      BY <2>6, <2>7, <2>9, <3>1 DEF StartsAgree
  <2>14. HaltsHold' /\ StopsBite'
    BY <2>9 DEF HaltsHold, StopsBite, Taken
  <2>15. FencedIsVoid'
    <3>1. \A c \in Starts' : c.tag > fenced' \/ c.generation < host'.generation
      BY <1>1, <2>5, <2>6, <2>12 DEF DeskInv, FencedIsVoid
    <3> QED
      BY <1>1, <2>6, <2>7, <3>1 DEF DeskInv, FencedIsVoid
  <2>16. Window!DeskKept'
    BY <1>1 DEF DeskInv, Window!DeskKept, Window!StopWins, Window!StartedAsReviewed
  <2> QED
    BY <2>10, <2>11, <2>13, <2>14, <2>15, <2>16 DEF DeskInv
<1> QED
  BY <1>2, <1>3

LEMMA StartIsDone ==
    ASSUME Window!DeskAssumption, DeskInv, Window!AfterStart \/ Window!AfterRestop
    PROVE  DeskInv'
<1>0. /\ window \in WindowFields /\ window.review \in {window.review, None}
      /\ {"start", "stop", "exit", "review", "paper", "connect", "refresh"} \subseteq Window!Task
  BY Unchanged
<1> DEFINE answer == call["start"].answer
<1>1. Taken("start") => answer \in StatusAnswer
  BY <1>0, Unchanged DEF Taken
<1>2. Taken("start") => /\ Window!Heard(window) \in WindowFields /\ Window!Heard(window).review = window.review
        /\ Window!Heard(window).stop = window.stop
                        /\ Window!Applied(window, answer) \in WindowFields
                             /\ Window!Applied(window, answer).review \in {window.review, None}
                        /\ Window!Applied(window, answer).stop = window.stop
  BY <1>0, <1>1, FieldsKept, AppliedKeeps
<1>3. late' = late /\ host' = host /\ approvals' = approvals /\ fenced' = fenced
  BY DEF Window!AfterStart, Window!AfterRestop, Window!Quietly, Window!ghosts
<1>4. CASE Window!AfterStart /\ window.stop
  <2>1. Window!Active("start") /\ Window!Send("start", Window!Ask("restop")) /\ window' = window
    BY <1>4 DEF Window!AfterStart, Window!Answered
  <2>2. Window!Ask("restop") \in Asked /\ Window!Ask("restop").op = "restop" /\ Window!Ask("restop").state = "sent"
    BY AskIs DEF TaskOp
  <2> QED
    BY <1>0, <1>3, <2>1, <2>2, StartGoesOn
<1>5. CASE Window!AfterStart /\ ~window.stop
  <2>1. /\ Taken("start") /\ Window!Send("start", None)
        /\ window' = IF Window!Outdated(answer) THEN Window!Heard(window) ELSE Window!Applied(window, answer)
    BY <1>5 DEF Window!AfterStart, Window!Answered, Taken, Window!Done
  <2> HIDE DEF answer
  <2>2. window' \in WindowFields /\ window'.review \in {window.review, None} /\ window'.stop = window.stop
    BY <1>2, <2>1
  <2> QED
    BY <1>3, <2>1, <2>2, StartGoesOn
<1>6. CASE /\ Window!Answered("start", "restop") /\ Window!Done("start")
           /\ window' = IF Window!Outdated(answer) THEN window ELSE Window!Applied(window, answer)
  <2>1. Taken("start") /\ Window!Send("start", None)
    BY <1>6 DEF Window!Answered, Taken, Window!Done
  <2> HIDE DEF answer
  <2>2. window' \in WindowFields /\ window'.review \in {window.review, None} /\ window'.stop = window.stop
    BY <1>0, <1>2, <1>6, <2>1
  <2> QED
    BY <1>3, <2>1, <2>2, StartGoesOn
<1>7. CASE Window!AfterRestop /\ Window!Answered("paper", "restop") /\ Window!Probe("paper", window)
  <2>1. Heeds(window.review)
    BY DEF Heeds
  <2> QED
    BY <1>0, <1>3, <1>7, <2>1, Probes
<1> QED
  BY <1>4, <1>5, <1>6, <1>7 DEF Window!AfterStart, Window!AfterRestop

LEMMA StopIsDone ==
    ASSUME Window!DeskAssumption, DeskInv, Window!AfterStop \/ Window!StopFails \/ Window!AfterFence
    PROVE  DeskInv'
<1>0. /\ window \in WindowFields /\ window.review \in {window.review, None}
      /\ {"start", "stop", "exit", "review", "paper", "connect", "refresh"} \subseteq Window!Task
  BY Unchanged
<1> DEFINE answer == call["stop"].answer
<1>1. Taken("stop") => answer \in StatusAnswer
  BY <1>0, Unchanged DEF Taken
<1>2. Taken("stop") =>
        /\ Window!Heard(window) \in WindowFields /\ Window!Heard(window).review = window.review
             /\ Window!Heard(window).stop = window.stop
        /\ Window!Applied(window, answer) \in WindowFields
             /\ Window!Applied(window, answer).review \in {window.review, None}
        /\ Window!Applied(window, answer).stop = window.stop
        /\ Window!Disconnected(window, answer) \in WindowFields /\ Window!Disconnected(window, answer).review = None
        /\ Window!Disconnected(window, answer).stop = window.stop
  BY <1>0, <1>1, FieldsKept, AppliedKeeps, DisconnectedKeeps
<1>3. late' = late /\ host' = host
  BY DEF Window!AfterStop, Window!StopFails, Window!AfterFence, Window!Quietly
<1>4. Window!Active("stop") /\ "fence" \in TaskOp /\ "fence" \in OpsOf["stop"] /\ "stop" \in Window!Task \ {"start"}
  BY <1>0 DEF Window!AfterStop, Window!StopFails, Window!AfterFence, Window!Answered, Window!Failed, TaskOp, OpsOf
<1>5. CASE Window!AfterStop /\ Window!Outdated(answer)
  <2>1. Taken("stop") /\ Window!Send("stop", Window!Ask("fence")) /\ window' = Window!Heard(window)
          /\ approvals' = approvals /\ fenced' = fenced
    BY <1>5 DEF Window!AfterStop, Window!Answered, Taken, Window!ghosts
  <2>2. window' \in WindowFields /\ window'.review \in {window.review, None} /\ window'.stop = window.stop
    BY <1>2, <2>1
  <2> QED
    BY <1>3, <1>4, <2>1, <2>2, Asks
<1>6. CASE Window!AfterStop /\ ~Window!Outdated(answer)
  <2>1. Taken("stop") /\ Window!Done("stop") /\ window' = Window!Applied(window, answer) /\ Window!Confirmed
    BY <1>6 DEF Window!AfterStop, Window!Answered, Taken
  <2>2. window' \in WindowFields /\ window'.review \in {window.review, None} /\ window'.stop = window.stop
    BY <1>2, <2>1
  <2> QED
    BY <1>3, <2>1, <2>2, StopEnds
<1>7. CASE Window!StopFails
  <2>1. Window!Send("stop", Window!Ask("fence")) /\ window' = window /\ approvals' = approvals /\ fenced' = fenced
    BY <1>7 DEF Window!StopFails, Window!ghosts
  <2> QED
    BY <1>0, <1>3, <1>4, <2>1, Asks
<1>8. CASE Window!AfterFence
  <2>1. Taken("stop") /\ Window!Done("stop") /\ window' = Window!Disconnected(window, answer) /\ Window!Confirmed
    BY <1>8 DEF Window!AfterFence, Window!Answered, Taken
  <2>2. window' \in WindowFields /\ window'.review \in {window.review, None} /\ window'.stop = window.stop
    BY <1>2, <2>1
  <2> QED
    BY <1>3, <2>1, <2>2, StopEnds
<1> QED
  BY <1>5, <1>6, <1>7, <1>8

LEMMA PaperGivesUpExit ==
    ASSUME Window!DeskAssumption, DeskInv, Window!AfterPaper \/ Window!GivesUp \/ Window!ExitGoesOn
           \/ Window!ShutdownFails
    PROVE  DeskInv'
<1>0. /\ window \in WindowFields /\ window.review \in {window.review, None}
      /\ {"start", "stop", "exit", "review", "paper", "connect", "refresh"} \subseteq Window!Task
  BY Unchanged
<1>1. late' = late /\ host' = host /\ approvals' = approvals /\ fenced' = fenced
  BY DEF Window!AfterPaper, Window!GivesUp, Window!ExitGoesOn, Window!ShutdownFails, Window!Quietly, Window!ghosts
<1>2. CASE Window!AfterPaper /\ Window!Halted
  <2>1. Window!Active("paper") /\ Window!Send("paper", Window!Ask("restop")) /\ window' = window
    BY <1>2 DEF Window!AfterPaper, Window!Answered
  <2>2. "restop" \in TaskOp /\ "restop" \in OpsOf["paper"]
    BY <1>0 DEF TaskOp, OpsOf
  <2> QED
    BY <1>0, <1>1, <2>1, <2>2, Asks
<1>3. CASE Window!AfterPaper /\ ~Window!Halted
  <2> DEFINE d == Window!Moved(window)
  <2>1. Window!Probe("paper", d)
    BY <1>3 DEF Window!AfterPaper
  <2>2. d \in WindowFields /\ d.stop = window.stop /\ Heeds(d.review)
    BY <1>0, FieldsKept DEF Heeds
  <2> HIDE DEF d
  <2> QED
    BY <1>1, <2>1, <2>2, Probes
<1>4. CASE Window!GivesUp
  <2>1. window' = window
    BY <1>4 DEF Window!GivesUp
  <2>2. ASSUME NEW k \in {"connect", "paper", "stop"}, Window!Active(k), Window!Done(k) PROVE DeskInv'
    BY <1>0, <1>1, <2>1, <2>2, Ends
  <2>3. CASE Window!Done("start")
    BY <1>0, <1>1, <2>1, <2>3, StartGoesOn DEF Window!Done
  <2> QED
    BY <1>4, <2>2, <2>3 DEF Window!GivesUp, Window!Failed
<1>5. CASE Window!ExitGoesOn
  <2> DEFINE x == [Window!Ask("shutdown") EXCEPT !.state = "idle"]
  <2>1. Window!Active("exit") /\ window' = window
    BY <1>5 DEF Window!ExitGoesOn
  <2>2. {"shutdown", "fence"} \subseteq TaskOp /\ {"shutdown", "fence"} \subseteq OpsOf["exit"]
    BY <1>0 DEF TaskOp, OpsOf
  <2>3. x \in Asked /\ x.op = "shutdown" /\ x.state = "idle"
    BY <2>2, AskIs
  <2>4. Window!Send("exit", x) \/ \E o \in {"shutdown", "fence"} : Window!Send("exit", Window!Ask(o))
    BY <1>5 DEF Window!ExitGoesOn
  <2> HIDE DEF x
  <2>5. CASE Window!Send("exit", x)
    <3>1. Confirms /\ fenced' \in Nat /\ approvals' \in Nat
      BY <1>1, NothingVoided
    <3> QED
      BY <1>0, <1>1, <2>1, <2>2, <2>3, <2>5, <3>1, Proceeds
  <2>6. ASSUME NEW o \in {"shutdown", "fence"}, Window!Send("exit", Window!Ask(o)) PROVE DeskInv'
    BY <1>0, <1>1, <2>1, <2>2, <2>6, Asks
  <2> QED
    BY <2>4, <2>5, <2>6
<1>6. CASE Window!ShutdownFails
  <2>1. Window!Active("exit") /\ window' = window /\ Window!Send("exit", Window!Ask("fence"))
    BY <1>6 DEF Window!ShutdownFails, Window!Failed
  <2>2. "fence" \in TaskOp /\ "fence" \in OpsOf["exit"]
    BY <1>0 DEF TaskOp, OpsOf
  <2> QED
    BY <1>0, <1>1, <2>1, <2>2, Asks
<1> QED
  BY <1>2, <1>3, <1>4, <1>5, <1>6

(* A status, or the record on disk in its place. *)
LEMMA StatusGoesOn ==
    ASSUME Window!DeskAssumption, DeskInv, NEW k \in Window!Task, Window!AfterStatus(k) \/ Window!StatusFails(k)
           \/ Window!AfterOffline(k)
    PROVE  DeskInv'
<1>0. /\ window \in WindowFields /\ window.review \in {window.review, None}
      /\ {"start", "stop", "exit", "review", "paper", "connect", "refresh"} \subseteq Window!Task
  BY Unchanged
<1>1. Window!Active(k) /\ call[k].op \in {"status", "offline"}
  BY DEF Window!AfterStatus, Window!StatusFails, Window!AfterOffline, Window!Answered, Window!Failed
<1>2. k \in Window!Task \ {"start"} /\ "offline" \in TaskOp /\ "offline" \in OpsOf[k]
  <2>1. call[k].op \in OpsOf[k]
    BY <1>1, Unchanged
  <2> QED
    BY <1>1, <2>1 DEF OpsOf, TaskOp, Window!Task
<1>3. late' = late /\ host' = host /\ approvals' = approvals /\ fenced' = fenced
  BY DEF Window!AfterStatus, Window!StatusFails, Window!AfterOffline, Window!Quietly, Window!ghosts
<1> DEFINE answer == call[k].answer
<1>4. Taken(k) =>
        /\ Window!Applied(window, answer) \in WindowFields
             /\ Window!Applied(window, answer).review \in {window.review, None}
        /\ Window!Applied(window, answer).stop = window.stop
        /\ Window!Disconnected(window, answer) \in WindowFields /\ Window!Disconnected(window, answer).review = None
        /\ Window!Disconnected(window, answer).stop = window.stop
  <2>1. Taken(k) => answer \in StatusAnswer
    BY Unchanged DEF Taken
  <2> QED
    BY <1>0, <2>1, AppliedKeeps, DisconnectedKeeps
<1> DEFINE gone == [Window!Moved(Window!Cleared(window)) EXCEPT !.shown = Window!Unseen]
<1>5. /\ Window!Heard(window) \in WindowFields /\ Window!Heard(window).review = window.review
           /\ Window!Heard(window).stop = window.stop
      /\ gone \in WindowFields /\ gone.review = None /\ gone.stop = window.stop
  <2> DEFINE d == Window!Moved(Window!Cleared(window))
  <2>1. d \in WindowFields /\ d.review = None /\ d.stop = window.stop
    BY <1>0, FieldsKept
  <2>2. Window!Unseen \in Shown
    BY DEF Window!Unseen, Shown
  <2> HIDE DEF d
  <2>3. [d EXCEPT !.shown = Window!Unseen] \in WindowFields /\ [d EXCEPT !.shown = Window!Unseen].review = d.review
        /\ [d EXCEPT !.shown = Window!Unseen].stop = d.stop
    BY <2>1, <2>2, ShownKept
  <2> QED
    BY <1>0, <2>1, <2>3, FieldsKept DEF d
<1> HIDE DEF gone, answer
<1>6. /\ window' \in WindowFields /\ window'.review \in {window.review, None} /\ window'.stop = window.stop
      /\ Window!Done(k) \/ Window!Send(k, Window!Ask("offline"))
  <2>1. CASE Window!AfterStatus(k)
    <3>1. Taken(k)
      BY <2>1 DEF Window!AfterStatus, Window!Answered, Taken
    <3>2. \/ window' = window /\ Window!Done(k)
          \/ window' = Window!Heard(window) /\ Window!Send(k, Window!Ask("offline"))
          \/ window' = Window!Applied(window, answer) /\ Window!Done(k)
      BY <2>1 DEF Window!AfterStatus, answer
    <3> QED
      BY <1>0, <1>4, <1>5, <3>1, <3>2
  <2>2. CASE Window!StatusFails(k)
    BY <1>0, <2>2 DEF Window!StatusFails, Window!Done
  <2>3. CASE Window!AfterOffline(k)
    <3>1. Window!Done(k)
      BY <2>3 DEF Window!AfterOffline
    <3>2. window' = window \/ (Taken(k) /\ window' = Window!Disconnected(window, answer)) \/ window' = gone
      BY <1>1, <2>3 DEF Window!AfterOffline, answer, gone, Taken
    <3> QED
      BY <1>0, <1>4, <1>5, <3>1, <3>2
  <2> QED
    BY <2>1, <2>2, <2>3
<1>7. CASE Window!Done(k)
  BY <1>1, <1>2, <1>3, <1>6, <1>7, Ends
<1>8. CASE Window!Send(k, Window!Ask("offline"))
  BY <1>1, <1>2, <1>3, <1>6, <1>8, Asks
<1> QED
  BY <1>6, <1>7, <1>8

LEMMA WindowCloses ==
    ASSUME Window!DeskAssumption, DeskInv, Window!Close
    PROVE  DeskInv'
<1>0. /\ window \in WindowFields /\ approvals \in Nat /\ fenced \in Nat
      /\ {"start", "stop", "exit", "review", "paper", "connect", "refresh"} \subseteq Window!Task
      /\ \A k \in Window!Task : Window!Active(k) => call[k] \in Asked /\ call[k].op \in OpsOf[k]
  BY Unchanged
<1>1. /\ window' = [window EXCEPT !.closed = TRUE] /\ call' = [k \in Window!Task |-> None] /\ host' = host
      /\ late' = late \cup {call[k] : k \in {j \in Window!Task \ {"exit"} :
                                Window!Active(j) /\ call[j].state = "sent" /\ call[j].op \in Window!Lasting}}
  BY DEF Window!Close
<1>2. window' \in WindowFields /\ window'.review = window.review
  BY <1>0, <1>1 DEF WindowFields
<1>3. \A k \in Window!Task : ~Window!Active(k)'
  BY <1>1 DEF Window!Active
<1>4. Confirms
  <2>1. (approvals' = approvals /\ fenced' = fenced)
          \/ (fenced' = approvals /\ approvals' = approvals /\ Taken("exit"))
    BY DEF Window!Close, Window!Confirmed, Window!Answered, Taken, Window!ghosts
  <2> QED
    BY <1>0, <1>1, <2>1 DEF Confirms
<1>5. WindowTypeOK'
  <2>1. late' \subseteq Asked
    BY <1>0, <1>1 DEF DeskInv, WindowTypeOK
  <2>2. approvals' \in Nat /\ fenced' \in Nat
    BY <1>0, <1>4 DEF Confirms
  <2>3. call' \in [Window!Task -> Asked \cup {None}]
    BY <1>1
  <2> QED
    BY <1>1, <1>2, <2>1, <2>2, <2>3 DEF DeskInv, WindowTypeOK
<1>6. TasksAsk'
  BY <1>1, <1>2, <1>3 DEF DeskInv, TasksAsk
<1>7. HostGoesOn
  BY <1>1 DEF DeskInv, WindowTypeOK, HostGoesOn, HostRecord
<1>8. Inherits
  <2>1. \A k \in Window!Task : Window!Active(k) /\ call[k].op = "start" => k = "start"
    BY <1>0 DEF OpsOf, Window!Task
  <2>2. \A c \in Starts' : c \in Starts
    BY <1>0, <1>1, <2>1 DEF Starts, Window!Active
  <2> QED
    BY <2>2 DEF Inherits
<1>9. /\ ~Window!Active("start")' /\ ~Window!Active("review")' /\ ~Window!Active("stop")' /\ ~Window!Active("exit")'
      /\ ~Taken("stop")' /\ ~Taken("exit")'
  BY <1>0, <1>3 DEF Taken
<1>10. window'.review = window.review /\ window'.stop = window.stop
  BY <1>0, <1>1, <1>2 DEF WindowFields
<1> QED
  BY <1>4, <1>5, <1>6, <1>7, <1>8, <1>9, <1>10, Carries

-----------------------------------------------------------------------------
(* The worker's own steps *)
Fencing == {"stop", "restop", "shutdown", "fence"}

LEMMA ReviewRecorded ==
    ASSUME host \in HostRecord, NEW g \in Nat, NEW s \in Scope \cup {None},
           host' = [host EXCEPT !.generation = g, !.scope = s, !.paper = 0]
    PROVE  host' \in HostRecord /\ host'.running = host.running /\ host'.generation = g
  BY DEF HostRecord

LEMMA StartRecorded ==
    ASSUME host \in HostRecord, NEW g \in Nat, NEW t \in Nat, NEW s \in Nat \cup {None},
           host' = [host EXCEPT !.generation = g, !.running = TRUE, !.paper = 0, !.tag = t, !.seen = s]
    PROVE  host' \in HostRecord /\ host'.tag = t /\ host'.seen = s /\ host'.generation = g
  BY DEF HostRecord

LEMMA EffectGoesOn ==
    ASSUME Window!DeskAssumption, DeskInv, NEW c \in Asked, host' = Window!Effect(c),
           c.op \in {"review", "paper"} => ~host.running,
           c.op = "start" => c.tag = 0 \/ (c \in Starts /\ c.generation = host.generation)
    PROVE  /\ HostGoesOn
           /\ c.op \in Fencing => host'.running = FALSE /\ host'.generation > host.generation
<1>0. host \in HostRecord /\ host.generation \in Nat /\ host.generation + 1 \in Nat
      /\ host.generation + 1 > host.generation
  BY DEF DeskInv, WindowTypeOK, HostRecord
<1>1. c.scope \in Scope \cup {None} /\ c.tag \in Nat /\ c.seen \in Nat \cup {None} /\ c.op \in TaskOp
  BY DEF Asked
<1>2. CASE c.op = "review"
  <2> DEFINE g == host.generation + 1
             s == c.scope
  <2>1. host' = [host EXCEPT !.generation = g, !.scope = s, !.paper = 0] /\ g \in Nat /\ s \in Scope \cup {None}
    BY <1>0, <1>1, <1>2 DEF Window!Effect
  <2> HIDE DEF g, s
  <2>2. host' \in HostRecord /\ host'.running = host.running /\ host'.generation = g
    BY <1>0, <2>1, ReviewRecorded
  <2> QED
    BY <1>0, <1>2, <2>2 DEF HostGoesOn, Fencing, g
<1>3. CASE c.op = "start"
  <2> DEFINE g == host.generation + 1
             t == c.tag
             s == c.seen
  <2>1. /\ host' = [host EXCEPT !.generation = g, !.running = TRUE, !.paper = 0, !.tag = t, !.seen = s]
        /\ g \in Nat /\ t \in Nat /\ s \in Nat \cup {None}
    BY <1>0, <1>1, <1>3 DEF Window!Effect
  <2> HIDE DEF g, t, s
  <2>2. /\ host' \in HostRecord /\ host'.generation = g
        /\ host'.tag = t /\ host'.seen = s
    BY <1>0, <2>1, StartRecorded
  <2> QED
    BY <1>0, <1>3, <2>2 DEF HostGoesOn, Fencing, g, t, s
<1>4. CASE c.op \in Fencing
  <2>1. host' = Window!Fenced \/ host' = [Window!Fenced EXCEPT !.paper = 0]
    BY <1>4 DEF Window!Effect, Fencing
  <2>2. Window!Fenced \in HostRecord /\ Window!Fenced.running = FALSE
          /\ Window!Fenced.generation = host.generation + 1
    BY <1>0 DEF Window!Fenced, HostRecord
  <2>3. host' \in HostRecord /\ host'.running = FALSE /\ host'.generation = host.generation + 1
    BY <2>1, <2>2 DEF HostRecord
  <2> QED
    BY <1>0, <2>3 DEF HostGoesOn
<1>5. CASE c.op = "paper"
  <2>1. host' = [host EXCEPT !.paper = c.tag]
    BY <1>5 DEF Window!Effect
  <2>2. host' \in HostRecord /\ host'.running = host.running /\ host'.generation = host.generation
    BY <1>0, <1>1, <2>1 DEF HostRecord
  <2> QED
    BY <1>0, <1>5, <2>2 DEF HostGoesOn, Fencing
<1>6. CASE c.op \notin Fencing /\ c.op \notin {"review", "start", "paper"}
  <2>1. host' = host
    BY <1>6 DEF Window!Effect, Fencing
  <2> QED
    BY <1>0, <1>6, <2>1 DEF HostGoesOn
<1> QED
  BY <1>2, <1>3, <1>4, <1>5, <1>6

(* A request the worker takes. *)
LEMMA HandledGoesOn ==
    ASSUME Window!DeskAssumption, DeskInv, NEW c \in Asked, Window!Allowed(c), Window!Handled(c), c.op = "start"
           => c \in Starts
    PROVE  /\ HostGoesOn
           /\ c.op \in Fencing => host'.running = FALSE /\ host'.generation > host.generation
<1>1. host' = Window!Effect(c)
  BY DEF Window!Handled
<1>2. c.op \in {"review", "paper"} => ~host.running
  BY DEF Window!Allowed
<1>3. c.op = "start" => c.generation = host.generation
  BY DEF Window!Allowed, Window!StartAccepted
<1> QED
  BY <1>1, <1>2, <1>3, EffectGoesOn

(* A step that leaves the window alone: its tasks keep their questions. *)
LEMMA WorkerGoesOn ==
    ASSUME Window!DeskAssumption, DeskInv, HostGoesOn, window' = window, approvals' = approvals, fenced' = fenced,
           late' \subseteq Asked, Inherits, call' \in [Window!Task -> Asked \cup {None}],
           \A k \in Window!Task : Window!Active(k)' =>
               /\ Window!Active(k) /\ call'[k].op = call[k].op /\ call'[k].tag = call[k].tag
                    /\ call'[k].seen = call[k].seen
               /\ call[k].op = "await" => call'[k].state = call[k].state
               /\ call'[k].state = "answered" =>
                     \/ call'[k] = call[k]
                     \/ call'[k].answer \in StatusAnswer /\ call'[k].answer.generation <= host'.generation,
           \A k \in {"stop", "exit"} : Taken(k)' =>
               Taken(k) \/ (host'.running = FALSE /\ host'.generation > host.generation)
    PROVE  DeskInv'
<1>0. /\ window \in WindowFields /\ approvals \in Nat /\ fenced \in Nat /\ host.generation \in Nat
      /\ {"start", "stop", "exit", "review", "paper", "connect", "refresh"} \subseteq Window!Task
      /\ \A k \in Window!Task : Window!Active(k) => call[k] \in Asked /\ call[k].op \in OpsOf[k]
      /\ \A k \in Window!Task : Window!Active(k) /\ call[k].state = "answered" =>
             call[k].answer \in StatusAnswer /\ call[k].answer.generation <= host.generation
  BY Unchanged
<1>1. host' \in HostRecord /\ host'.generation >= host.generation /\ host'.generation \in Nat
  BY DEF HostGoesOn, HostRecord
<1>2. WindowTypeOK'
  BY <1>0, <1>1 DEF WindowTypeOK
<1>3. TasksAsk'
  <2>1. \A k \in Window!Task : Window!Active(k)' => call'[k] \in Asked /\ call'[k].op \in OpsOf[k]
    BY <1>0 DEF Window!Active
  <2>2. ASSUME NEW k \in Window!Task, Window!Active(k)', call'[k].state = "answered"
        PROVE  call'[k].answer \in StatusAnswer /\ call'[k].answer.generation <= host'.generation
    <3>1. CASE call'[k] = call[k]
      <4>1. Window!Active(k) /\ call[k].answer \in StatusAnswer /\ call[k].answer.generation <= host.generation
        BY <1>0, <2>2, <3>1
      <4>2. call[k].answer.generation \in Nat
        BY <4>1 DEF StatusAnswer
      <4> QED
        BY <1>0, <1>1, <3>1, <4>1, <4>2
    <3> QED
      BY <2>2, <3>1
  <2>3. \A k \in Window!Task : Window!Active(k)' /\ call'[k].op = "await" => call'[k].state = "idle"
    BY DEF DeskInv, TasksAsk
  <2>4. window'.review # None => window'.review \in ReviewHeld /\ window'.review.generation <= host'.generation
    <3>1. window.review # None => window.review \in ReviewHeld /\ window.review.generation <= host.generation
      BY DEF DeskInv, TasksAsk
    <3>2. window.review # None => window.review.generation \in Nat
      BY <3>1 DEF ReviewHeld
    <3> QED
      BY <1>0, <1>1, <3>1, <3>2
  <2> QED
    BY <2>1, <2>2, <2>3, <2>4 DEF TasksAsk
<1>4. Confirms
  BY NothingVoided
<1>5. Window!Active("stop")' \/ Window!Active("exit")' => window'.stop = TRUE
  BY <1>0 DEF DeskInv, HaltsHold
<1>6. /\ Window!Active("start")' => Window!Active("start") /\ call'["start"].op = call["start"].op
              /\ call'["start"].tag = call["start"].tag /\ call'["start"].seen = call["start"].seen
      /\ Window!Active("review")' => Window!Active("review")
  BY <1>0
<1> QED
  BY <1>2, <1>3, <1>4, <1>5, <1>6, Carries

LEMMA WorkerAnswers ==
    ASSUME Window!DeskAssumption, DeskInv, NEW k \in Window!Task, Window!WorkerHandles(k)
    PROVE  DeskInv'
<1> DEFINE c == call[k]
<1> DEFINE answer == [generation |-> host'.generation, scope |-> host'.scope,
                      running |-> host'.running, connected |-> host'.connected]
<1> DEFINE x == [c EXCEPT !.state = "answered", !.answer = answer]
<1>0. c \in Asked /\ c.op \in OpsOf[k] /\ {"start", "stop", "exit"} \subseteq Window!Task
  BY Unchanged DEF Window!WorkerHandles
<1>1. /\ Window!Active(k) /\ c.state = "sent" /\ Window!Allowed(c) /\ Window!Handled(c) /\ Window!Send(k, x)
      /\ window' = window /\ late' = late /\ approvals' = approvals /\ fenced' = fenced
  BY DEF Window!WorkerHandles
<1>2. c.op = "start" => c \in Starts
  <2>1. c.op = "start" => k = "start"
    BY <1>0 DEF OpsOf, Window!Task
  <2> QED
    BY <1>1, <2>1 DEF Starts, Window!Active
<1>3. HostGoesOn /\ (c.op \in Fencing => host'.running = FALSE /\ host'.generation > host.generation)
  <2> HIDE DEF c
  <2> QED
    BY <1>0, <1>1, <1>2, HandledGoesOn
<1>4. answer \in StatusAnswer /\ answer.generation <= host'.generation
  BY <1>3 DEF HostGoesOn, StatusAnswer, HostRecord
<1> HIDE DEF answer
<1>5. x \in Asked /\ x.op = c.op /\ x.tag = c.tag /\ x.seen = c.seen /\ x.generation = c.generation
      /\ x.state = "answered" /\ x.answer = answer
  BY <1>0, <1>4 DEF Asked
<1>6. c.op # "await"
  BY <1>1 DEF DeskInv, TasksAsk
<1> HIDE DEF x
<1>7. /\ call' \in [Window!Task -> Asked \cup {None}] /\ call'[k] = x
      /\ \A j \in Window!Task \ {k} : call'[j] = call[j]
  BY <1>1, <1>5, Sends
<1>8. Inherits
  <2>1. \A b \in Starts' : b \in Starts \/ (k = "start" /\ b = x /\ x.op = "start")
    BY <1>0, <1>1, <1>7 DEF Starts
  <2> QED
    BY <1>2, <1>5, <2>1 DEF Inherits
<1>9. late' \subseteq Asked
  BY <1>1 DEF DeskInv, WindowTypeOK
<1>10. \A j \in {"stop", "exit"} : Taken(j)' =>
           Taken(j) \/ (host'.running = FALSE /\ host'.generation > host.generation)
  <2>1. k \in {"stop", "exit"} => c.op \in Fencing
    BY <1>0, <1>6 DEF OpsOf, Fencing
  <2> QED
    BY <1>0, <1>3, <1>7, <2>1 DEF Taken, Window!Active
<1>11. \A j \in Window!Task : Window!Active(j)' =>
           /\ Window!Active(j) /\ call'[j].op = call[j].op /\ call'[j].tag = call[j].tag
                /\ call'[j].seen = call[j].seen
           /\ call[j].op = "await" => call'[j].state = call[j].state
           /\ call'[j].state = "answered" =>
                 \/ call'[j] = call[j]
                 \/ call'[j].answer \in StatusAnswer /\ call'[j].answer.generation <= host'.generation
  BY <1>1, <1>4, <1>5, <1>6, <1>7 DEF Window!Active
<1> QED
  BY <1>1, <1>3, <1>7, <1>8, <1>9, <1>10, <1>11, WorkerGoesOn

(* Nothing of what the tasks wait for changes. *)
LEMMA WorkerElsewhere ==
    ASSUME Window!DeskAssumption, DeskInv, HostGoesOn, window' = window, call' = call, late' \subseteq late,
           approvals' = approvals, fenced' = fenced
    PROVE  DeskInv'
<1>1. late' \subseteq Asked /\ call' \in [Window!Task -> Asked \cup {None}]
  BY DEF DeskInv, WindowTypeOK
<1>2. Inherits
  BY DEF Inherits, Starts
<1>3. \A k \in {"stop", "exit"} : Taken(k)' =>
          Taken(k) \/ (host'.running = FALSE /\ host'.generation > host.generation)
  BY DEF Taken, Window!Active
<1>4. \A k \in Window!Task : Window!Active(k)' =>
               /\ Window!Active(k) /\ call'[k].op = call[k].op /\ call'[k].tag = call[k].tag
                    /\ call'[k].seen = call[k].seen
               /\ call[k].op = "await" => call'[k].state = call[k].state
               /\ call'[k].state = "answered" =>
                     \/ call'[k] = call[k]
                     \/ call'[k].answer \in StatusAnswer /\ call'[k].answer.generation <= host'.generation
  BY DEF Window!Active
<1> QED
  BY <1>1, <1>2, <1>3, <1>4, WorkerGoesOn

LEMMA WorkerSteps ==
    ASSUME Window!DeskAssumption, DeskInv, Window!HandlesLate \/ Window!Elsewhere
           \/ (\E k \in Window!Task : Window!Fails(k))
    PROVE  DeskInv'
<1>0. late \subseteq Asked /\ host \in HostRecord /\ host.generation \in Nat
  BY DEF DeskInv, WindowTypeOK, HostRecord
<1>1. CASE Window!HandlesLate
  <2>1. PICK c \in late : /\ late' = late \ {c}
                          /\ IF Window!Allowed(c) THEN Window!Handled(c) ELSE UNCHANGED host
    BY <1>1 DEF Window!HandlesLate
  <2>2. window' = window /\ call' = call /\ approvals' = approvals /\ fenced' = fenced
    BY <1>1 DEF Window!HandlesLate
  <2>3. c \in Asked /\ (c.op = "start" => c \in Starts)
    <3>1. c \in Asked
      BY <1>0
    <3> QED
      BY <3>1 DEF Starts
  <2>4. CASE Window!Allowed(c)
    BY <2>1, <2>2, <2>3, <2>4, HandledGoesOn, WorkerElsewhere
  <2>5. CASE ~Window!Allowed(c)
    <3>1. HostGoesOn
      BY <1>0, <2>1, <2>5 DEF HostGoesOn
    <3> QED
      BY <2>1, <2>2, <3>1, WorkerElsewhere
  <2> QED
    BY <2>4, <2>5
<1>2. CASE Window!Elsewhere
  <2>1. window' = window /\ call' = call /\ late' = late /\ approvals' = approvals /\ fenced' = fenced
    BY <1>2 DEF Window!Elsewhere
  <2>2. \/ \E s \in Scope : ~host.running /\ host' = Window!Effect([Window!Ask("review") EXCEPT !.scope = s])
        \/ host' = Window!Effect(Window!Ask("start"))
        \/ host' = Window!Effect(Window!Ask("stop"))
    BY <1>2 DEF Window!Elsewhere
  <2>3. ASSUME NEW s \in Scope, ~host.running,
               host' = Window!Effect([Window!Ask("review") EXCEPT !.scope = s]) PROVE HostGoesOn
    <3>1. [Window!Ask("review") EXCEPT !.scope = s] \in Asked
            /\ [Window!Ask("review") EXCEPT !.scope = s].op = "review"
      BY DEF Window!Ask, Asked, TaskOp
    <3> QED
      BY <2>3, <3>1, EffectGoesOn
  <2>4. ASSUME host' = Window!Effect(Window!Ask("start")) PROVE HostGoesOn
    <3>1. Window!Ask("start") \in Asked /\ Window!Ask("start").op = "start" /\ Window!Ask("start").tag = 0
      BY DEF Window!Ask, Asked, TaskOp
    <3> QED
      BY <2>4, <3>1, EffectGoesOn
  <2>5. ASSUME host' = Window!Effect(Window!Ask("stop")) PROVE HostGoesOn
    <3>1. Window!Ask("stop") \in Asked /\ Window!Ask("stop").op = "stop"
      BY DEF Window!Ask, Asked, TaskOp
    <3> QED
      BY <2>5, <3>1, EffectGoesOn
  <2> QED
    BY <2>1, <2>2, <2>3, <2>4, <2>5, WorkerElsewhere
<1>3. ASSUME NEW k \in Window!Task, Window!Fails(k) PROVE DeskInv'
  <2> DEFINE x == [call[k] EXCEPT !.state = "failed"]
  <2>1. /\ Window!Active(k) /\ call[k].state \in {"sent", "answered"} /\ Window!Send(k, x)
        /\ late' = late \/ late' = late \cup {call[k]}
        /\ window' = window /\ host' = host /\ approvals' = approvals /\ fenced' = fenced
    BY <1>3 DEF Window!Fails
  <2>2. call[k] \in Asked /\ call[k].op \in OpsOf[k] /\ {"start", "stop", "exit"} \subseteq Window!Task
    BY <2>1, Unchanged
  <2>3. x \in Asked /\ x.op = call[k].op /\ x.tag = call[k].tag /\ x.seen = call[k].seen
        /\ x.generation = call[k].generation /\ x.state = "failed"
    BY <2>2 DEF Asked
  <2>4. call[k].op # "await"
    BY <2>1 DEF DeskInv, TasksAsk
  <2> HIDE DEF x
  <2>5. /\ call' \in [Window!Task -> Asked \cup {None}] /\ call'[k] = x
        /\ \A j \in Window!Task \ {k} : call'[j] = call[j]
    BY <2>1, <2>3, Sends
  <2>6. late' \subseteq Asked
    BY <1>0, <2>1, <2>2
  <2>7. Inherits
    <3>1. call[k].op = "start" => k = "start" /\ call[k] \in Starts
      BY <2>1, <2>2 DEF OpsOf, Window!Task, Starts, Window!Active
    <3>2. \A b \in Starts' : b \in Starts \/ (b = x /\ x.op = "start") \/ (b = call[k] /\ call[k].op = "start")
      BY <2>1, <2>2, <2>5 DEF Starts
    <3> QED
      BY <2>3, <3>1, <3>2 DEF Inherits
  <2>8. HostGoesOn
    BY <1>0, <2>1 DEF HostGoesOn
  <2>9. \A j \in {"stop", "exit"} : Taken(j)' => Taken(j)
    BY <2>2, <2>3, <2>5 DEF Taken, Window!Active
  <2>10. \A j \in Window!Task : Window!Active(j)' =>
           /\ Window!Active(j) /\ call'[j].op = call[j].op /\ call'[j].tag = call[j].tag
                /\ call'[j].seen = call[j].seen
           /\ call[j].op = "await" => call'[j].state = call[j].state
           /\ call'[j].state = "answered" =>
                 \/ call'[j] = call[j]
                 \/ call'[j].answer \in StatusAnswer /\ call'[j].answer.generation <= host'.generation
    BY <2>1, <2>3, <2>4, <2>5 DEF Window!Active
  <2> QED
    BY <2>1, <2>5, <2>6, <2>7, <2>8, <2>9, <2>10, WorkerGoesOn
<1> QED
  BY <1>1, <1>2, <1>3

-----------------------------------------------------------------------------
LEMMA DeskStarts ==
    ASSUME Window!DeskAssumption, Window!Init
    PROVE  DeskInv
<1>1. /\ call = [k \in Window!Task |-> None] /\ late = {} /\ approvals = 0 /\ fenced = 0
      /\ host = [generation |-> 0, running |-> FALSE, scope |-> None, tag |-> 0, seen |-> None,
                   paper |-> 0, connected |-> "connect" \notin habit]
      /\ window \in [review : {None}, dialog : {None}, stop : {FALSE}, known : {FALSE}, moved : {FALSE},
                   shown : {Window!Unseen, [Window!Unseen EXCEPT !.missing = TRUE]}, closed : {FALSE}]
  BY DEF Window!Init
<1>2. {Window!Unseen, [Window!Unseen EXCEPT !.missing = TRUE]} \subseteq Shown
  <2>1. Window!Unseen \in Shown
    BY DEF Window!Unseen, Shown
  <2>2. [Window!Unseen EXCEPT !.missing = TRUE] \in Shown
    BY <2>1 DEF Shown
  <2> QED
    BY <2>1, <2>2
<1>3. window \in WindowFields /\ window.review = None
  BY <1>1, <1>2 DEF WindowFields
<1>4. host \in HostRecord /\ host.running = FALSE
  BY <1>1 DEF HostRecord
<1>5. \A k \in Window!Task : ~Window!Active(k)
  BY <1>1 DEF Window!Active
<1>6. ~Window!Active("start") /\ ~Window!Active("stop") /\ ~Window!Active("exit")
  BY <1>5 DEF Window!Task
<1>7. Starts = {}
  BY <1>1 DEF Starts, Window!Task
<1>8. WindowTypeOK
  BY <1>1, <1>3, <1>4 DEF WindowTypeOK
<1>9. TasksAsk
  BY <1>3, <1>5 DEF TasksAsk
<1>10. StartsAgree /\ HaltsHold /\ StopsBite
  BY <1>6, <1>7 DEF StartsAgree, HaltsHold, StopsBite, Taken
<1>11. FencedIsVoid /\ Window!DeskKept
  BY <1>1, <1>4, <1>6, <1>7 DEF FencedIsVoid, Window!DeskKept, Window!StopWins, Window!StartedAsReviewed
<1> QED
  BY <1>8, <1>9, <1>10, <1>11 DEF DeskInv

LEMMA DeskStep ==
    ASSUME Window!DeskAssumption, DeskInv, [Window!Next]_(Window!vars)
    PROVE  DeskInv'
<1>1. CASE UNCHANGED Window!vars
  <2>1. /\ window' = window /\ call' = call /\ late' = late /\ host' = host /\ approvals' = approvals
        /\ fenced' = fenced
    BY <1>1 DEF Window!vars, Window!ghosts
  <2>2. HostGoesOn
    BY <2>1 DEF DeskInv, WindowTypeOK, HostGoesOn, HostRecord
  <2> QED
    BY <2>1, <2>2, WorkerElsewhere
<1>2. CASE Window!WindowNext
  BY <1>2, Buttons, LaunchConnectReview, StartIsSent, StartIsDone, StopIsDone, PaperGivesUpExit,
     StatusGoesOn, WindowCloses DEF Window!WindowNext
<1>3. CASE Window!HandlesLate \/ Window!Elsewhere \/ (\E k \in Window!Task : Window!Fails(k))
  BY <1>3, WorkerSteps
<1>4. CASE \E k \in Window!Task : Window!WorkerHandles(k)
  BY <1>4, WorkerAnswers
<1> QED
  BY <1>1, <1>2, <1>3, <1>4 DEF Window!Next

-----------------------------------------------------------------------------
(* What each part promises *)

(* The inductive invariant of the broker session: the connection lock guards
   the broker object, and no other object has a transport. *)
THEOREM BrokerInvariant == ASSUME Runtime!BrokerSessionAssumption PROVE Runtime!Spec => []BrokerInv
BY BrokerStarts, BrokerStep, PTL DEF Runtime!Spec

(* Whatever connects, reviews, runs and closes interleave, fail or are
   cancelled: one transport at most, checked before anything reads through it,
   the desk's object is the session's, and what is closed stays closed
   (execution/session_runtime.py:121). *)
THEOREM OneBrokerIsUp == ASSUME Runtime!BrokerSessionAssumption PROVE Runtime!Spec => []Runtime!BrokerSessionKept
<1>1. Runtime!BrokerSessionAssumption /\ BrokerInv => Runtime!BrokerSessionKept
  BY BrokerPromises
<1> QED
  BY <1>1, BrokerInvariant, PTL

(* A listing that is given out holds every row there was when it was asked
   for, once, and no row that does not parse, whatever arrives between its
   pages (broker/robinhood_mcp.py:370). *)
THEOREM ListingsAreWhole == ASSUME Reads!ReadsAssumption PROVE Reads!Spec => []Reads!ListingWhole
<1>1. Reads!Spec => []ReadsInv
  BY ReadsStart, ReadsStep, PTL DEF Reads!Spec
<1>2. ReadsInv => Reads!ListingWhole
  BY DEF ReadsInv
<1> QED
  BY <1>1, <1>2, PTL

(* The inductive invariant of the window: a start on its way names the review
   its user approved; once the worker has taken a stop it is good no more. *)
THEOREM DeskInvariant == ASSUME Window!DeskAssumption PROVE Window!Spec => []DeskInv
BY DeskStarts, DeskStep, PTL DEF Window!Spec

(* A session the window started and stopped does not run, even if its start is
   late, and a session runs under the review its user approved
   (ui/session_window.py:478). *)
THEOREM StopsWinOverLateStarts == ASSUME Window!DeskAssumption PROVE Window!Spec => []Window!DeskKept
<1>1. DeskInv => Window!DeskKept
  BY DEF DeskInv
<1> QED
  BY <1>1, DeskInvariant, PTL

-----------------------------------------------------------------------------
(* All of them *)

PartsInv == BrokerInv /\ ChannelInv /\ CryptoInv /\ ReadsInv /\ DeskInv

(* A step is one part's; the others stand still. *)
LEMMA StepOfParts ==
    ASSUME [HostNext]_hostVars
    PROVE  /\ [Runtime!Next]_(Runtime!vars)
           /\ [Channel!Next]_(Channel!vars)
           /\ [Crypto!Next]_(Crypto!vars)
           /\ [Reads!Next]_(Reads!vars)
           /\ [Window!Next]_(Window!vars)
<1>1. UNCHANGED brokerVars => UNCHANGED Runtime!vars
  BY DEF brokerVars, Runtime!vars, Runtime!objects
<1>2. UNCHANGED channelVars => UNCHANGED Channel!vars
  BY DEF channelVars, Channel!vars
<1>3. UNCHANGED cryptoVars => UNCHANGED Crypto!vars
  BY DEF cryptoVars, Crypto!vars
<1>4. UNCHANGED pageVars => UNCHANGED Reads!vars
  BY DEF pageVars, Reads!vars
<1>5. UNCHANGED deskVars => UNCHANGED Window!vars
  BY DEF deskVars, Window!vars, Window!ghosts
<1>6. Runtime!Next \/ UNCHANGED brokerVars
  BY DEF HostNext, ResearchNext, BrokerNext, ChannelNext, CryptoNext, PagesNext, DeskNext, hostVars
<1>7. Channel!Next \/ UNCHANGED channelVars
  BY DEF HostNext, ResearchNext, BrokerNext, ChannelNext, CryptoNext, PagesNext, DeskNext, hostVars
<1>8. Crypto!Next \/ UNCHANGED cryptoVars
  BY DEF HostNext, ResearchNext, BrokerNext, ChannelNext, CryptoNext, PagesNext, DeskNext, hostVars
<1>9. Reads!Next \/ UNCHANGED pageVars
  BY DEF HostNext, ResearchNext, BrokerNext, ChannelNext, CryptoNext, PagesNext, DeskNext, hostVars
<1>10. Window!Next \/ UNCHANGED deskVars
  BY DEF HostNext, ResearchNext, BrokerNext, ChannelNext, CryptoNext, PagesNext, DeskNext, hostVars
<1> QED
  BY <1>1, <1>2, <1>3, <1>4, <1>5, <1>6, <1>7, <1>8, <1>9, <1>10

(* The inductive invariant of the parts together. *)
THEOREM PartsInvariant == HostSpec => []PartsInv
<1>0. /\ Runtime!BrokerSessionAssumption /\ MaxWorkers \in Nat /\ Crypto!CryptoAssumption
      /\ Reads!ReadsAssumption /\ Window!DeskAssumption
  BY PartsAssumption
<1>1. HostInit => PartsInv
  BY <1>0, BrokerStarts, ChannelStarts, CryptoStarts, ReadsStart, DeskStarts DEF HostInit, PartsInv
<1>2. PartsInv /\ [HostNext]_hostVars => PartsInv'
  <2> SUFFICES ASSUME PartsInv, [HostNext]_hostVars PROVE PartsInv'
    OBVIOUS
  <2>1. /\ [Runtime!Next]_(Runtime!vars) /\ [Channel!Next]_(Channel!vars) /\ [Crypto!Next]_(Crypto!vars)
        /\ [Reads!Next]_(Reads!vars) /\ [Window!Next]_(Window!vars)
    BY StepOfParts
  <2>2. BrokerInv' /\ ChannelInv' /\ CryptoInv' /\ ReadsInv' /\ DeskInv'
    BY <1>0, <2>1, BrokerStep, ChannelStep, CryptoStep, ReadsStep, DeskStep DEF PartsInv
  <2> QED
    BY <2>2 DEF PartsInv
<1> QED
  BY <1>1, <1>2, PTL DEF HostSpec

(* One worker, one broker: every part keeps its promises, for any number of
   clients, commands, processes, crashes, connections, orders, pages and
   buttons (execution/worker_process.py:25, execution/session_runtime.py:121,
   broker/crypto.py:296, broker/robinhood_mcp.py:370, ui/session_window.py:478). *)
THEOREM PartsKeepTheirPromises == HostSpec => []OneWorkerOneBroker
<1>0. Runtime!BrokerSessionAssumption
  BY PartsAssumption
<1>1. PartsInv => OneWorkerOneBroker
  <2> SUFFICES ASSUME PartsInv PROVE OneWorkerOneBroker
    OBVIOUS
  <2>1. Runtime!BrokerSessionKept
    BY <1>0, BrokerPromises DEF PartsInv
  <2>2. Channel!ChannelKept
    BY DEF PartsInv, ChannelInv
  <2>3. Crypto!CryptoKept
    <3>1. Crypto!SentOnce /\ Crypto!FreshReview
      BY DEF PartsInv, CryptoInv
    <3>2. Crypto!OneIdentity
      BY DEF PartsInv, CryptoInv, IssuedPinned, Crypto!OneIdentity
    <3> QED
      BY <3>1, <3>2 DEF Crypto!CryptoKept
  <2>4. Reads!ListingWhole /\ Window!DeskKept
    BY DEF PartsInv, ReadsInv, DeskInv
  <2> QED
    BY <2>1, <2>2, <2>3, <2>4 DEF OneWorkerOneBroker
<1> QED
  BY <1>1, PartsInvariant, PTL
=============================================================================
