----------------------------- MODULE EarningsStore -----------------------------
(***************************************************************************)
(* Earnings observed point in time (data/earnings_feed.py), under a daily  *)
(* request budget that the worker's snapshots (data/live_data.py) and      *)
(* one-shot commands share through one store, and the events built on them *)
(* (data/earnings.py).                                                     *)
(*                                                                         *)
(* One symbol and one report of it: each dataset says "old" and, from some *)
(* time on, "new".  A refresh asks for one dataset after the other under   *)
(* the time it began with; it waits in each request, and may fail, be      *)
(* cancelled or die there.  Equal contents have equal hashes and one row.  *)
(***************************************************************************)
EXTENDS Integers, FiniteSets

CONSTANTS
    Client,     \* the processes that refresh
    Worker,     \* the one of them that trades on what it has
    Budget,     \* requests per day
    Day,        \* the window of the budget
    CacheAge,   \* how long a stored response is used again
    Lag,        \* bound: the time one refresh takes, over all its requests
    MaxTime     \* bound: the clock

EarningsAssumption ==
    /\ Worker \in Client
    /\ Budget \in Nat \ {0} /\ Day \in Nat /\ CacheAge \in Nat \ {0}
    /\ Lag \in 0..Day /\ MaxTime \in Nat

VARIABLES
    time,
    renewed,    \* when the provider's dataset became "new", or Never
    requests,   \* earnings_provider_requests: the time of each row, and when it really left
    responses,  \* earnings_observations
    checks,     \* earnings_response_checks: the last one of each content, or -1
    at          \* where each client's refresh is

store == <<requests, responses, checks>>
vars == <<time, renewed, store, at>>

Dataset == {"EARNINGS", "EARNINGS_ESTIMATES"}

Content == {"old", "new"}

Never == MaxTime + 1

Shown(d) == IF renewed[d] = Never THEN "old" ELSE "new"

Later(a, b) == IF a > b THEN a ELSE b

Idle == [pc |-> "idle", now |-> 0, dataset |-> "EARNINGS", content |-> "none"]

Init ==
    /\ time = 0
    /\ renewed = [d \in Dataset |-> Never]
    /\ requests = {} /\ responses = {}
    /\ checks = [d \in Dataset |-> [c \in Content |-> -1]]
    /\ at = [c \in Client |-> Idle]

-----------------------------------------------------------------------------
(* The cache and the budget *)

(* The newest row of the dataset known at `now`, when it was observed or
   confirmed recently enough. *)
Known(dataset, now) == {r \in responses : r.dataset = dataset /\ r.at <= now}

Confirmed(r) == Later(r.at, checks[r.dataset][r.content])

Cached(dataset, now) ==
    \E r \in Known(dataset, now) :
        /\ \A s \in Known(dataset, now) : s.at <= r.at
        /\ now - Confirmed(r) <= CacheAge

(* Rows of the window that ends at `now`, and any recorded under a later one. *)
Counted(now) == Cardinality({q \in requests : q.at > now - Day})

-----------------------------------------------------------------------------
(* A refresh: EARNINGS first, then EARNINGS_ESTIMATES *)

Begin(c) ==
    /\ at[c].pc = "idle"
    /\ at' = [at EXCEPT ![c] = [Idle EXCEPT !.pc = "asking", !.now = time]]
    /\ UNCHANGED <<time, renewed, store>>

(* The dataset after this one, or the end of the refresh. *)
Onward(c) ==
    IF at[c].dataset = "EARNINGS"
    THEN [at[c] EXCEPT !.pc = "asking", !.dataset = "EARNINGS_ESTIMATES", !.content = "none"]
    ELSE IF c = Worker THEN [at[c] EXCEPT !.pc = "building", !.content = "none"] ELSE Idle

UseCache(c) ==
    /\ at[c].pc = "asking" /\ Cached(at[c].dataset, at[c].now)
    /\ at' = [at EXCEPT ![c] = Onward(c)]
    /\ UNCHANGED <<time, renewed, store>>

(* One transaction counts and reserves; the request leaves after it. *)
Request(c) ==
    /\ at[c].pc = "asking" /\ ~Cached(at[c].dataset, at[c].now)
    /\ IF Counted(at[c].now) < Budget
       THEN /\ requests' = requests \cup {[id |-> Cardinality(requests) + 1, at |-> at[c].now, left |-> time]}
            /\ at' = [at EXCEPT ![c].pc = "fetching"]
       ELSE at' = [at EXCEPT ![c] = Onward(c)] /\ UNCHANGED requests
    /\ UNCHANGED <<time, renewed, responses, checks>>

(* The provider answers with what it shows then; the answer travels. *)
Serve(c) ==
    /\ at[c].pc = "fetching"
    /\ at' = [at EXCEPT ![c].pc = "answered", ![c].content = Shown(at[c].dataset)]
    /\ UNCHANGED <<time, renewed, store>>

(* Mutant: a response is stamped with the time at which its refresh began. *)
StampedAsked(c, content) == [dataset |-> at[c].dataset, content |-> content, at |-> at[c].now]

(* A response is stamped when it has arrived. *)
Stamped(c, content) == [dataset |-> at[c].dataset, content |-> content, at |-> time]

(* The same content keeps its row, and so the time of its first observation. *)
Recorded(row) ==
    responses' = IF \E r \in responses : r.dataset = row.dataset
                                            /\ (r.content = row.content \/ r.at = row.at)
                 THEN responses ELSE responses \cup {row}

(* One transaction records it, a second one notes that it was confirmed. *)
Respond(c) ==
    /\ at[c].pc = "answered"
    /\ Recorded(Stamped(c, at[c].content))
    /\ \/ /\ checks' = [checks EXCEPT ![at[c].dataset][at[c].content] = Later(@, at[c].now)]
          /\ at' = [at EXCEPT ![c] = Onward(c)]
       \/ checks' = checks /\ at' = [at EXCEPT ![c] = Idle]             \* it dies in between
    /\ UNCHANGED <<time, renewed, requests>>

(* The request is refused or lost, or what came back is not a dataset. *)
RequestFails(c) ==
    /\ at[c].pc \in {"fetching", "answered"}
    /\ at' = [at EXCEPT ![c] = Onward(c)]
    /\ UNCHANGED <<time, renewed, store>>

(* A command is cancelled, the runner stops, the process dies. *)
GiveUp(c) ==
    /\ at[c].pc # "idle"
    /\ at' = [at EXCEPT ![c] = Idle]
    /\ UNCHANGED <<time, renewed, store>>

-----------------------------------------------------------------------------
(* Events *)

(* Facts are read out of responses and carry their times, so a fact stands
   for its response here. *)
Facts(dataset) == {r \in responses : r.dataset = dataset}

(* What an event must rest on, in the store and in its own times. *)
Verified(e) ==
    /\ \E r \in Facts("EARNINGS_ESTIMATES") : r.content = e.consensus /\ r.at < e.announced
    /\ \E r \in Facts("EARNINGS") : r.content = e.actual /\ r.at \in e.announced..e.available

(* The chronology of the screen: result, baseline price, quote, decision. *)
InOrder(e, asOf) ==
    /\ e.announced <= e.available /\ e.available <= e.post
    /\ e.post < asOf

(* earnings_events: users record events, by commands of their own; rows are
   never taken back, so an event that can be recorded stays so, and the table
   holds some of these. *)
Recordable ==
    {e \in [announced : 0..time, available : 0..time, post : 0..time,
            consensus : Content, actual : Content] : Verified(e) /\ InOrder(e, time)}

(* What the engine may be handed as of `now`, with a quote later than the
   event's baseline price. *)
Handed(now) == {e \in Recordable : e.post < now}

(* The worker's refresh is over, and its snapshot with it. *)
Snapshot ==
    /\ at[Worker].pc = "building"
    /\ at' = [at EXCEPT ![Worker] = Idle]
    /\ UNCHANGED <<time, renewed, store>>

-----------------------------------------------------------------------------
Tick ==
    /\ time < MaxTime
    /\ \A c \in Client : at[c].pc # "idle" => time < at[c].now + Lag
    /\ time' = time + 1
    /\ \E news \in SUBSET {d \in Dataset : renewed[d] = Never} :
          renewed' = [d \in Dataset |-> IF d \in news THEN time' ELSE renewed[d]]
    /\ UNCHANGED <<store, at>>

Next ==
    \/ \E c \in Client : Begin(c) \/ UseCache(c) \/ Request(c) \/ Serve(c) \/ Respond(c)
                           \/ RequestFails(c) \/ GiveUp(c)
    \/ Snapshot \/ Tick

Spec == Init /\ [][Next]_vars

-----------------------------------------------------------------------------
(* Whoever asks, and whatever fails: no more than the budget leaves for the
   provider in a day, less the time a refresh may hold on to the clock it
   began with (earnings_feed.py:147). *)
ProviderBudget ==
    \A t \in 0..MaxTime : Cardinality({q \in requests : q.left \in (t - (Day - Lag) + 1)..t}) <= Budget

(* The provider showed the content of a dataset at some time in ts. *)
Served(d, content, ts) ==
    \E t \in ts \cap 0..time : (content = "new") = (t >= renewed[d])

(* What the engine is handed was known point in time: the provider showed the
   consensus before the announcement and the result no later than the event
   says (earnings_feed.py:383, earnings.py:108). *)
PointInTime ==
    at[Worker].pc = "building" => \A e \in Handed(at[Worker].now) :
        /\ Served("EARNINGS_ESTIMATES", e.consensus, 0..(e.announced - 1))
        /\ Served("EARNINGS", e.actual, 0..e.available)
        /\ InOrder(e, at[Worker].now)
=============================================================================
