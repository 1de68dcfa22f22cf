----------------------------- MODULE MixedEngine -----------------------------
(***************************************************************************)
(* The mixed execution engine (execution/mixed_engine.py) with the start   *)
(* and recovery sequence that drives it (session_runtime.py run and        *)
(* _recover_engine), the standing-authority table                          *)
(* (persistence/execution_authority.py), the durable ledger (EquityLedger) *)
(* and the provider behind the broker transport.                           *)
(*                                                                         *)
(* Each engine is one MixedExecutionEngine object, made by one run of a    *)
(* worker process; its identity is its lease owner.  Engines may overlap:  *)
(* the process lock is not assumed, so the lease, the pending index and    *)
(* the order of the engine's own checks have to be enough.  A step ends    *)
(* where the code awaits or commits: a crash, another process, an expired  *)
(* lease or a withdrawn permission can fall between any two steps.         *)
(***************************************************************************)
EXTENDS Naturals, Integers, FiniteSets, FiniteSetsExt, TLC

CONSTANTS
    Engine,     \* engine objects, over every process that ever runs one
    Acct,       \* the account of the reviewed scope
    Ref,        \* order references; the provider names its order after one
    None,
    TTL,        \* ticks of an engine lease
    Lot,        \* largest order, in units; a unit is one execution
    MaxOrders   \* bound on maxOrders

ASSUME LotAssumption == Lot \in Nat \ {0}
ASSUME MaxOrdersAssumption == MaxOrders \in Nat \ {0}
ASSUME TermAssumption == TTL \in Nat \ {0}

VARIABLES
    intents, dispatched, fills, lease,  \* the ledger's tables
    standing,   \* table standing_sessions; an authority is named after its engine
    granted,    \* engines whose authorization_gate still says yes
    engine,     \* the engine objects
    wire,       \* each reference's place_equity_order request
    broker,     \* each reference's order at the provider
    maxOrders   \* scope.max_orders: attempted orders a day before buys stop

Ticket == [side : {"buy", "sell"}, qty : 1..Lot]

ASSUME AbsentAssumption == None \notin {Acct} \cup Ref \cup Ticket \cup Engine

INSTANCE EquityLedger WITH
    Account <- {Acct}, OrderId <- Ref, Exec <- Ref \X (1..Lot), Qty <- {1},
    Payload <- Ticket, Owner <- Engine

vars == <<intents, dispatched, fills, lease, standing, granted, engine, wire, broker, maxOrders>>
tables == <<intents, dispatched, fills, lease>>
outside == <<wire, broker, maxOrders>>

Reading == {"positions", "orders", "reconcile", "quotes"}
Selected == {"eligibility", "ticket", "reserved", "cleared", "marked", "placing", "waiting", "answered"}
Stopping == {"failed", "releasing", "settling"}
Starting == {"arming", "registering", "recovering"}
Over == {"done", "crashed"}

OrderRow == [state : {"absent", "open", "done"}, executed : 0..Lot]
Fresh == [state |-> "absent", executed |-> 0]
NoRows == [r \in Ref |-> Fresh]

EngineRecord ==
    [pc : {"off", "idle", "verify"} \cup Reading \cup Selected \cup Stopping \cup Starting \cup Over,
     authority : Engine \cup {None},
     round : 1..2,                        \* which of a cycle's two snapshots
     position : Int,                      \* units in the positions response
     rows : [Ref -> OrderRow],            \* the orders or placement response
     ref : Ref \cup {None},
     ticket : Ticket \cup {None}]

(* An engine with nothing read and no ticket. *)
Empty(pc, authority, ref) ==
    [pc |-> pc, authority |-> authority, round |-> 1, position |-> 0,
     rows |-> NoRows, ref |-> ref, ticket |-> None]

Off == Empty("off", None, None)

Init ==
    /\ LedgerInit
    /\ standing = [e \in Engine |-> "none"]
    /\ granted = {}
    /\ engine = [e \in Engine |-> Off]
    /\ wire = [r \in Ref |-> "idle"]
    /\ broker = NoRows
    /\ maxOrders \in 1..MaxOrders

-----------------------------------------------------------------------------
(* What the account holds, in units: at the provider and in the ledger. *)

Signed(t, n) == IF t.side = "buy" THEN n ELSE -n

Position ==
    LET held == {r \in Ref : broker[r].executed > 0}
    IN  SumFunction([r \in held |-> Signed(intents[r].payload, broker[r].executed)])

Inventory == SumFunction([f \in fills |-> Signed(intents[f.ref].payload, f.qty)])

(* Mutant: a check that never reads the lease, so two engines that share a
   recovered authority work side by side. *)
CheckUnleased(e) ==
    /\ engine[e].authority # None
    /\ standing[engine[e].authority] = "active"
    /\ e \in granted

(* _check: one pass over the authority, the lease and the permission.  Each
   of them is lost for good once it is lost, so reading them one after
   another is as strong as reading them at once. *)
Check(e) ==
    /\ engine[e].authority # None
    /\ standing[engine[e].authority] = "active"
    /\ LeaseActive(Acct, e)
    /\ e \in granted

Goto(e, pc) == engine' = [engine EXCEPT ![e].pc = pc]

(* The end of a cycle: back to run_cycles with nothing carried over. *)
Idle(e) == engine' = [engine EXCEPT ![e] = Empty("idle", engine[e].authority, None)]

(* An exception: the cycle's local state is gone but for the reference. *)
Raise(e) == engine' = [engine EXCEPT ![e] = Empty("failed", engine[e].authority, engine[e].ref)]

(* The run is over: the engine object is garbage, or its process is dead. *)
End(e, pc) == engine' = [engine EXCEPT ![e] = Empty(pc, None, None)]

-----------------------------------------------------------------------------
(* Starting an engine *)

ActiveStandings == {a \in Engine : standing[a] = "active"}

(* run(recover=False): an older authority of the scope is stopped before
   arm(); more than one of them makes active_standing_for_scope raise. *)
Launch(e) ==
    /\ engine[e].pc = "off"
    /\ Cardinality(ActiveStandings) <= 1
    /\ granted' = granted \cup {e}
    /\ standing' = [a \in Engine |-> IF a \in ActiveStandings THEN "stopped" ELSE standing[a]]
    /\ Goto(e, "arming")
    /\ UNCHANGED <<tables, outside>>

ArmLease(e) ==
    /\ engine[e].pc = "arming"
    /\ IF e \in granted /\ Acquirable(Acct, e)
       THEN AcquireLease(Acct, e) /\ Goto(e, "registering")
       ELSE End(e, "done") /\ UNCHANGED tables
    /\ UNCHANGED <<standing, granted, outside>>

Register(e) ==
    /\ engine[e].pc = "registering"
    /\ standing' = [standing EXCEPT ![e] = "active"]
    /\ engine' = [engine EXCEPT ![e].pc = "idle", ![e].authority = e]
    /\ UNCHANGED <<tables, granted, outside>>

(* register_standing raised: the lease is given back. *)
RegisterFails(e) ==
    /\ engine[e].pc = "registering"
    /\ ReleaseLease(Acct, e)
    /\ End(e, "done")
    /\ UNCHANGED <<standing, granted, outside>>

(* run(recover=True): the one active authority is taken over, never a guess. *)
LaunchRecovery(e) ==
    /\ engine[e].pc = "off"
    /\ Cardinality(ActiveStandings) = 1
    /\ granted' = granted \cup {e}
    /\ engine' = [engine EXCEPT ![e].pc = "recovering",
                                ![e].authority = CHOOSE a \in ActiveStandings : TRUE]
    /\ UNCHANGED <<tables, standing, outside>>

(* Mutant: the permission is not checked while a busy lease is waited for. *)
RecoverUnchecked(e) ==
    /\ engine[e].pc = "recovering"
    /\ AcquireLease(Acct, e)
    /\ Goto(e, "idle")
    /\ UNCHANGED <<standing, granted, outside>>

(* One turn of _recover_engine: a busy lease is waited for. *)
Recover(e) ==
    /\ engine[e].pc = "recovering"
    /\ IF e \in granted /\ standing[engine[e].authority] = "active"
       THEN AcquireLease(Acct, e) /\ Goto(e, "idle")
       ELSE End(e, "done") /\ UNCHANGED tables
    /\ UNCHANGED <<standing, granted, outside>>

(* 35 seconds passed and the lease is still another engine's. *)
RecoverTimeout(e) ==
    /\ engine[e].pc = "recovering"
    /\ ~Acquirable(Acct, e)
    /\ End(e, "done")
    /\ UNCHANGED <<tables, standing, granted, outside>>

-----------------------------------------------------------------------------
(* Between cycles: run_cycles *)

(* Where the engine awaits the broker and its watcher runs beside it. *)
Awaiting == Reading \cup {"eligibility", "waiting", "answered"}

(* heartbeat, of run_cycles or of a cycle's watcher: the check, then the
   lease is renewed. *)
Heartbeat(e) ==
    /\ engine[e].pc \in {"idle"} \cup Awaiting
    /\ Check(e)
    /\ RenewLease(Acct, e)
    /\ UNCHANGED <<standing, granted, engine, outside>>

BeginCycle(e) ==
    /\ engine[e].pc = "idle"
    /\ Check(e)
    /\ Goto(e, "positions")
    /\ UNCHANGED <<tables, standing, granted, outside>>

(* A failed check, a cancelled task or a data error between cycles: the
   finally clause of run_cycles shuts the engine down. *)
LeaveCycles(e) ==
    /\ engine[e].pc = "idle"
    /\ Raise(e)
    /\ UNCHANGED <<tables, standing, granted, outside>>

-----------------------------------------------------------------------------
(* One snapshot: _snapshot reads positions, then orders, then reconciles *)

ReadPositions(e) ==
    /\ engine[e].pc = "positions"
    /\ engine' = [engine EXCEPT ![e].pc = "orders", ![e].position = Position]
    /\ UNCHANGED <<tables, standing, granted, outside>>

ReadOrders(e) ==
    /\ engine[e].pc = "orders"
    /\ engine' = [engine EXCEPT ![e].pc = "reconcile", ![e].rows = broker]
    /\ UNCHANGED <<tables, standing, granted, outside>>

(* Mutant: an order that executed anything counts as finished. *)
RowOfPartlyFilled(r, row) ==
    [order |-> r, ref |-> r, payload |-> intents[r].payload, terminal |-> row.executed > 0,
     executions |-> {[exec |-> <<r, k>>, qty |-> 1] : k \in 1..row.executed}]

(* The provider row of an order as observe() receives it. *)
RowOf(r, row) ==
    [order |-> r, ref |-> r, payload |-> intents[r].payload, terminal |-> row.state = "done",
     executions |-> {[exec |-> <<r, k>>, qty |-> 1] : k \in 1..row.executed}]

Listed(e) == {r \in Unresolved(Acct) : engine[e].rows[r].state # "absent"}

Reconcile(e) ==
    /\ engine[e].pc = "reconcile"
    /\ IF Listed(e) = {}
       THEN Goto(e, "verify") /\ UNCHANGED tables
       ELSE \E r \in Listed(e) :
              IF Observable(Acct, r, RowOf(r, engine[e].rows[r]))
              THEN Observe(Acct, r, RowOf(r, engine[e].rows[r])) /\ Goto(e, "verify")
              ELSE Raise(e) /\ UNCHANGED tables
    /\ UNCHANGED <<standing, granted, outside>>

Settled(e) ==
    /\ Unresolved(Acct) = {}
    /\ \A r \in Ref : engine[e].rows[r].state # "open"
    /\ Inventory = engine[e].position

Verify(e) ==
    /\ engine[e].pc = "verify"
    /\ IF Settled(e)
       THEN engine' = [engine EXCEPT ![e].pc = "quotes", ![e].rows = NoRows]
       ELSE Raise(e)
    /\ UNCHANGED <<tables, standing, granted, outside>>

(* Quotes arrive: the check, then the day's usage is read, which may raise,
   and its profit and loss is recorded. *)
FirstSnapshotDone(e) ==
    /\ engine[e].pc = "quotes" /\ engine[e].round = 1
    /\ Check(e) /\ UsageKnown(Acct)
    /\ engine' = [engine EXCEPT ![e].pc = "positions", ![e].round = 2, ![e].position = 0]
    /\ UNCHANGED <<tables, standing, granted, outside>>

UsedRefs == {r \in Ref : intents[r].state # "absent"} \cup {engine[e].ref : e \in Engine}

(* A sell takes no more than the position of the second snapshot. *)
Covered(e, t) == t.side = "sell" => t.qty <= engine[e].position

(* The second snapshot leads to a ticket under a fresh reference. *)
SelectTicket(e) ==
    /\ engine[e].pc = "quotes" /\ engine[e].round = 2
    /\ Check(e) /\ UsageKnown(Acct)
    /\ \E r \in Ref \ UsedRefs, t \in Ticket :
          /\ Covered(e, t)
          /\ engine' = [engine EXCEPT ![e].pc = "eligibility", ![e].position = 0,
                                      ![e].ref = r, ![e].ticket = t]
    /\ UNCHANGED <<tables, standing, granted, outside>>

NoTicketDue(e) ==
    /\ engine[e].pc = "quotes" /\ engine[e].round = 2
    /\ Check(e) /\ UsageKnown(Acct)
    /\ Idle(e)
    /\ UNCHANGED <<tables, standing, granted, outside>>

CheckFails(e) ==
    /\ engine[e].pc \in {"quotes", "reserved", "marked"}
    /\ ~Check(e) \/ (engine[e].pc = "quotes" /\ ~UsageKnown(Acct))
    /\ Raise(e)
    /\ UNCHANGED <<tables, standing, granted, outside>>

-----------------------------------------------------------------------------
(* One ticket: risk checks, then the dispatch boundary *)

(* Mutant: the count is compared before this order is added to it. *)
WithinDailyCountLate(t) == t.side = "buy" => Cardinality(UsedToday(Acct)) <= maxOrders

(* assess_ticket with the durable usage; the daily count binds buys only.
   Every other risk reason, the loss latch among them, may block as well. *)
WithinDailyCount(t) == t.side = "buy" => Cardinality(UsedToday(Acct)) < maxOrders

RiskBlocked(e) ==
    /\ engine[e].pc = "eligibility"
    /\ UsageKnown(Acct)
    /\ Idle(e)
    /\ UNCHANGED <<tables, standing, granted, outside>>

Assess(e) ==
    /\ engine[e].pc = "eligibility"
    /\ UsageKnown(Acct) => WithinDailyCount(engine[e].ticket)
    /\ IF UsageKnown(Acct) /\ Check(e) THEN Goto(e, "ticket") ELSE Raise(e)
    /\ UNCHANGED <<tables, standing, granted, outside>>

ReserveTicket(e) ==
    /\ engine[e].pc = "ticket"
    /\ IF Reservable(Acct, engine[e].ref)
       THEN Reserve(Acct, engine[e].ref, engine[e].ticket) /\ Goto(e, "reserved")
       ELSE Raise(e) /\ UNCHANGED tables
    /\ UNCHANGED <<standing, granted, outside>>

CheckReserved(e) ==
    /\ engine[e].pc = "reserved"
    /\ Check(e)
    /\ Goto(e, "cleared")
    /\ UNCHANGED <<tables, standing, granted, outside>>

MarkTicket(e) ==
    /\ engine[e].pc = "cleared"
    /\ MarkSubmitting(engine[e].ref, TRUE)
    /\ Goto(e, "marked")
    /\ UNCHANGED <<standing, granted, outside>>

CheckMarked(e) ==
    /\ engine[e].pc = "marked"
    /\ Check(e)
    /\ Goto(e, "placing")
    /\ UNCHANGED <<tables, standing, granted, outside>>

(* place_order puts the request on the transport's queue and waits. *)
Place(e) ==
    /\ engine[e].pc = "placing"
    /\ wire' = [wire EXCEPT ![engine[e].ref] = "queued"]
    /\ Goto(e, "waiting")
    /\ UNCHANGED <<tables, standing, granted, broker, maxOrders>>

(* The response is captured when the provider writes it, and may be old by
   the time the engine records it. *)
Respond(e) ==
    /\ engine[e].pc = "waiting"
    /\ broker[engine[e].ref].state # "absent"
    /\ engine' = [engine EXCEPT ![e].pc = "answered", ![e].ticket = None,
                                ![e].rows = [NoRows EXCEPT ![engine[e].ref] = broker[engine[e].ref]]]
    /\ UNCHANGED <<tables, standing, granted, outside>>

RecordResponse(e) ==
    /\ engine[e].pc = "answered"
    /\ LET r == engine[e].ref
           row == RowOf(r, engine[e].rows[r])
       IN  IF Observable(Acct, r, row)
           THEN Observe(Acct, r, row) /\ Idle(e)
           ELSE Raise(e) /\ UNCHANGED tables
    /\ UNCHANGED <<standing, granted, outside>>

-----------------------------------------------------------------------------
(* Interruptions and the failure path *)

(* A transient read error before a reference was chosen keeps the session. *)
ReadUnavailable(e) ==
    /\ engine[e].pc \in Reading
    /\ Idle(e)
    /\ UNCHANGED <<tables, standing, granted, outside>>

Unqueue(r) == [wire EXCEPT ![r] = IF @ = "queued" THEN "dropped" ELSE @]

(* The watcher or Stop cancels the driver, the 30-second timeout passes, the
   broker raises or disconnects.  A request still queued has its future
   cancelled and is skipped; one already sent may yet arrive. *)
Interrupt(e) ==
    /\ engine[e].pc \in Awaiting
    /\ Raise(e)
    /\ wire' = IF engine[e].ref = None THEN wire ELSE Unqueue(engine[e].ref)
    /\ UNCHANGED <<tables, standing, granted, broker, maxOrders>>

(* stop(): the authority first, then the lease. *)
StopStanding(e) ==
    /\ engine[e].pc = "failed"
    /\ standing' = IF engine[e].authority = None THEN standing
                   ELSE [standing EXCEPT ![engine[e].authority] = "stopped"]
    /\ Goto(e, "releasing")
    /\ UNCHANGED <<tables, granted, outside>>

GiveUpLease(e) ==
    /\ engine[e].pc = "releasing"
    /\ ReleaseLease(Acct, e)
    /\ IF engine[e].ref = None THEN End(e, "done") ELSE Goto(e, "settling")
    /\ UNCHANGED <<standing, granted, outside>>

(* Mutant: a ticket whose placement raised is given up as never sent. *)
SettleTicketUnsent(e) ==
    /\ engine[e].pc = "settling"
    /\ intents' = [intents EXCEPT ![engine[e].ref].state =
                      IF @ \in {"reserved", "submitting"} THEN "abandoned" ELSE @]
    /\ UNCHANGED <<dispatched, fills, lease>>
    /\ End(e, "done")
    /\ UNCHANGED <<standing, granted, outside>>

(* The failed ticket: an attempted one becomes unknown, one that was never
   attempted is abandoned, any other state is left as it is. *)
SettleTicket(e) ==
    /\ engine[e].pc = "settling"
    /\ LET r == engine[e].ref IN
         CASE intents[r].state = "submitting" -> MarkUnknown(r)
           [] intents[r].state = "reserved" -> AbandonReserved(r)
           [] OTHER -> UNCHANGED tables
    /\ End(e, "done")
    /\ UNCHANGED <<standing, granted, outside>>

(* The process dies: its queue dies with it, its lease and authority stay. *)
Crash(e) ==
    /\ engine[e].pc \notin {"off"} \cup Over
    /\ End(e, "crashed")
    /\ wire' = IF engine[e].ref = None THEN wire ELSE Unqueue(engine[e].ref)
    /\ UNCHANGED <<tables, standing, granted, broker, maxOrders>>

-----------------------------------------------------------------------------
(* The rest of the world *)

(* A stop fence or a revoked permit: the gate says no from now on. *)
Fence(e) ==
    /\ e \in granted
    /\ granted' = granted \ {e}
    /\ UNCHANGED <<tables, standing, engine, outside>>

LeaseTime ==
    /\ Tick
    /\ UNCHANGED <<standing, granted, engine, outside>>

Send(r) ==
    /\ wire[r] = "queued"
    /\ wire' = [wire EXCEPT ![r] = "sent"]
    /\ UNCHANGED <<tables, standing, granted, engine, broker, maxOrders>>

(* The provider accepts the order, perhaps long after the caller gave up. *)
Arrive(r) ==
    /\ wire[r] = "sent" /\ broker[r].state = "absent"
    /\ broker' = [broker EXCEPT ![r].state = "open"]
    /\ UNCHANGED <<tables, standing, granted, engine, wire, maxOrders>>

Execute(r) ==
    /\ broker[r].state = "open" /\ broker[r].executed < intents[r].payload.qty
    /\ broker' = [broker EXCEPT ![r].executed = @ + 1]
    /\ UNCHANGED <<tables, standing, granted, engine, wire, maxOrders>>

(* Filled, cancelled, rejected or expired, with what was executed so far. *)
Finish(r) ==
    /\ broker[r].state = "open"
    /\ broker' = [broker EXCEPT ![r].state = "done"]
    /\ UNCHANGED <<tables, standing, granted, engine, wire, maxOrders>>

-----------------------------------------------------------------------------
Advance(e) ==
    \/ ArmLease(e) \/ Register(e) \/ Recover(e)
    \/ ReadPositions(e) \/ ReadOrders(e) \/ Reconcile(e) \/ Verify(e)
    \/ FirstSnapshotDone(e) \/ SelectTicket(e) \/ NoTicketDue(e) \/ CheckFails(e)
    \/ RiskBlocked(e) \/ Assess(e) \/ ReserveTicket(e) \/ CheckReserved(e) \/ MarkTicket(e)
    \/ CheckMarked(e) \/ Place(e) \/ RecordResponse(e)
    \/ StopStanding(e) \/ GiveUpLease(e) \/ SettleTicket(e)

Disturb(e) ==
    \/ Launch(e) \/ LaunchRecovery(e) \/ RegisterFails(e) \/ RecoverTimeout(e)
    \/ Heartbeat(e) \/ BeginCycle(e) \/ LeaveCycles(e)
    \/ ReadUnavailable(e) \/ Interrupt(e) \/ Respond(e) \/ Crash(e) \/ Fence(e)

Provider(r) == Send(r) \/ Arrive(r) \/ Execute(r) \/ Finish(r)

Next ==
    \/ \E e \in Engine : Advance(e) \/ Disturb(e)
    \/ \E r \in Ref : Provider(r)
    \/ LeaseTime

Spec == Init /\ [][Next]_vars

(* The event loop keeps running an engine: its own steps, and its watcher or
   its idle loop, which notices a failed check within a tenth of a second.
   Nobody is obliged to start engines, to trade, to answer or to fill. *)
WatcherStops(e) == ~Check(e) /\ (Interrupt(e) \/ LeaveCycles(e))

Fairness == \A e \in Engine : WF_vars(Advance(e) \/ WatcherStops(e))

FairSpec == Spec /\ Fairness

-----------------------------------------------------------------------------
(* Properties *)

(* Every variable holds a value of its kind. *)
TypeOK ==
    /\ LedgerTypeOK
    /\ standing \in [Engine -> {"none", "active", "stopped"}]
    /\ granted \subseteq Engine
    /\ engine \in [Engine -> EngineRecord]
    /\ wire \in [Ref -> {"idle", "queued", "sent", "dropped"}]
    /\ broker \in [Ref -> OrderRow]
    /\ maxOrders \in 1..MaxOrders

(* The ledger never says less than what happened: a request on its way was
   recorded first, a terminal ticket has every execution of a finished order,
   an abandoned one never left, and no fill is invented. *)
LedgerTellsTruth ==
    \A r \in Ref :
        /\ wire[r] # "idle" => intents[r].state \in AttemptedStates
        /\ intents[r].state = "terminal" =>
              broker[r].state = "done" /\ Cardinality(FillsOf(r)) = broker[r].executed
        /\ Cardinality(FillsOf(r)) <= broker[r].executed

(* Orders that can still change the account: on the queue, on the network or
   open at the provider. *)
Exposed == {r \in Ref : wire[r] = "queued" \/ (wire[r] = "sent" /\ broker[r].state # "done")}

(* However engines overlap, crash and restart, the account has at most one
   order in doubt or open at a time. *)
SingleExposure == Cardinality(Exposed) <= 1

(* No sell was ever sized on a position that another order then changed: what
   is held covers all that the exposed sells can still execute. *)
SellsCovered ==
    LET sells == {r \in Exposed : intents[r].payload.side = "sell"}
    IN  Position >= SumFunction([r \in sells |-> intents[r].payload.qty - broker[r].executed])

(* The scope's daily order count limits the buys that cross the dispatch
   boundary, whichever engine counted and whenever it counted. *)
DailyOrderCap ==
    Cardinality({r \in dispatched : intents[r].payload.side = "buy"}) <= maxOrders

(* The engine's orders implement the promise of OrderFate. *)
TicketInProgress ==
    IF Unresolved(Acct) = {} THEN None ELSE CHOOSE r \in Unresolved(Acct) : TRUE

Fate == INSTANCE OrderFate WITH
    NoTicket <- None,
    ticket <- TicketInProgress,
    taken <- {r \in Ref : intents[r].state # "absent"},
    sent <- {r \in Ref : wire[r] = "sent"},
    finished <- {r \in Ref : broker[r].state = "done"}

ImplementsOrderFate == Fate!Spec

(* An engine whose permission is withdrawn comes to an end, wherever in a
   cycle, a snapshot or a placement the withdrawal found it. *)
FencedEnginesEnd ==
    \A e \in Engine :
        engine[e].pc # "off" /\ e \notin granted ~> engine[e].pc \in Over

(* docs/USER_GUIDE.md, "Stop, close, and recover": "Stop trading blocks new
   local submissions".  Read literally: no placement request is sent to the
   provider for an engine whose permission is already withdrawn. *)
StopBlocksSubmissions ==
    [][\A e \in Engine :
          engine[e].pc = "waiting" /\ wire[engine[e].ref] = "queued"
             /\ wire'[engine[e].ref] = "sent"
          => e \in granted
      ]_vars

(* Neither engines nor references are told apart. *)
EngineSymmetry == Permutations(Engine) \cup Permutations(Ref)
=============================================================================
