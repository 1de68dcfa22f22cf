----------------------------- MODULE RuntimeTrace -----------------------------
(***************************************************************************)
(* The ledger of quote batches (persistence/market.py) and its reading     *)
(* into causal bars (research/runtime_trace.py, strategy/core.py           *)
(* BarBuilder).  Recorders, one per stream, append and a maintenance       *)
(* command prunes while a reader counts the batches in one statement and   *)
(* reads them in another.                                                  *)
(*                                                                         *)
(* Time is in ticks, of which the market is open for the first MarketTicks *)
(* of a day.  A batch is the book times of its QQQ quote and of the latest *)
(* of its others.  The program has no recorder at present: streams append  *)
(* in any order.                                                           *)
(***************************************************************************)
EXTENDS Integers, Sequences, FiniteSets

CONSTANTS
    Stream,
    Arrival,        \* step of the clock, ages of the books, envelope, exact or not
    BarTicks, DayTicks, MarketTicks,
    MaxBatches,     \* bound on the batches of a behaviour
    None

Ahead == 1          \* how far a book may be ahead of the recorder's clock

TraceAssumption ==
    /\ BarTicks \in Nat \ {0} /\ DayTicks \in Nat \ {0} /\ DayTicks % BarTicks = 0 /\ MarketTicks \in 1..DayTicks
    /\ \A a \in Arrival :
          a.step \in Nat /\ a.envelope \in Nat /\ {a.age, a.other} \subseteq Int /\ a.exact \in BOOLEAN
    /\ None \notin Int

VARIABLES
    clock,
    ledger,     \* tables quote_batches and quotes; id is the order of rows
    count,      \* how many batches were ever recorded
    load        \* the reader

vars == <<clock, ledger, count, load>>

Idle ==
    [pc |-> "idle", counted |-> 0, rows |-> {}, at |-> 0, bucket |-> None, samples |-> <<>>,
     stream |-> None, last |-> None, sessions |-> {}, frames |-> <<>>]

Init == clock = 0 /\ ledger = {} /\ count = 0 /\ load = Idle

Day(t) == t \div DayTicks

-----------------------------------------------------------------------------
(* The ledger *)

Within(age, envelope) == age \in -Ahead..envelope

(* record_quote_batch: an exact batch only with books inside its envelope. *)
Record ==
    /\ count < MaxBatches
    /\ \E s \in Stream, a \in Arrival :
          /\ a.exact => Within(a.age, a.envelope) /\ Within(a.other, a.envelope)
          /\ clock' = clock + a.step
          /\ ledger' = ledger \cup
               {[id |-> count + 1, stream |-> s, observed |-> clock', exact |-> a.exact,
                 envelope |-> a.envelope, qqq |-> clock' - a.age, other |-> clock' - a.other]}
    /\ count' = count + 1
    /\ UNCHANGED load

(* prune_market_history, for a retention of one day: the quotes of a batch
   have one time, so they go together and their batch with them.  Times are
   compared as text, "dateTtime" with "date time", which keeps the whole of
   the day on which the retention ends. *)
Prune ==
    /\ ledger' = {b \in ledger : Day(b.observed) >= Day(clock - DayTicks)}
    /\ ledger' # ledger
    /\ UNCHANGED <<clock, count, load>>

-----------------------------------------------------------------------------
(* The reader *)

Exact == {b \in ledger : b.exact}

Count ==
    /\ load.pc = "idle"
    /\ load' = [Idle EXCEPT !.pc = "counted", !.counted = Cardinality(Exact)]
    /\ UNCHANGED <<clock, ledger, count>>

Open ==
    /\ load.pc = "counted"
    /\ load' = [load EXCEPT !.pc = "reading", !.rows = Exact]
    /\ UNCHANGED <<clock, ledger, count>>

Bucket(t) == BarTicks * (t \div BarTicks)
InMarket(t) == t % DayTicks < MarketTicks
Eligible(b) == InMarket(b.qqq) /\ InMarket(b.other)
Latest(b) == IF b.qqq > b.other THEN b.qqq ELSE b.other

(* BarBuilder.update *)
Completes(r, b) == r.bucket # None /\ Bucket(b.qqq) > r.bucket /\ r.samples # <<>>

Updated(r, b) ==
    LET rest == IF Completes(r, b) THEN <<>> ELSE r.samples IN
    IF r.bucket = None \/ Bucket(b.qqq) >= r.bucket
    THEN [r EXCEPT !.bucket = Bucket(b.qqq), !.samples = Append(rest, b)]
    ELSE [r EXCEPT !.samples = rest]

FrameOf(r, b) ==
    [start |-> r.bucket, samples |-> r.samples, by |-> b, causal |-> Latest(b), stream |-> b.stream]

(* Mutant: the builder goes on when the stream changes. *)
KeptOn(r, b) == [r EXCEPT !.stream = b.stream]

(* Another stream begins with an empty builder. *)
Switched(r, b) ==
    IF r.stream = b.stream THEN r
    ELSE [r EXCEPT !.stream = b.stream, !.bucket = None, !.samples = <<>>, !.last = None]

(* The rest of process_chunk for a batch inside market hours; a QQQ quote
   no later than the one before it is dropped. *)
Taken(r, b) ==
    LET known == [Switched(r, b) EXCEPT !.sessions = @ \cup {<<b.stream, Day(b.qqq)>>}]
        late == known.last # None /\ b.qqq <= known.last
    IN  IF late THEN known
        ELSE [Updated(known, b) EXCEPT
                 !.last = b.qqq,
                 !.frames = IF Completes(known, b) THEN Append(@, FrameOf(known, b)) ELSE @]

Unread == {b \in load.rows : b.id > load.at}
Foremost(b, S) == b \in S /\ \A c \in S : b.id <= c.id

(* process_chunk, batch by batch in the order of rows; every batch must have
   the envelope of the first. *)
Chunk ==
    /\ load.pc = "reading"
    /\ \E b \in Unread :
          /\ Foremost(b, Unread)
          /\ load' = IF \E c \in load.rows : Foremost(c, load.rows) /\ c.envelope # b.envelope
                     THEN [load EXCEPT !.pc = "refused"]
                     ELSE [IF Eligible(b) THEN Taken(load, b) ELSE load EXCEPT !.at = b.id]
    /\ UNCHANGED <<clock, ledger, count>>

OneSessionEach == \A p, q \in load.sessions : p[1] = q[1] => p[2] = q[2]

(* The checks after the loop. *)
Finish ==
    /\ load.pc = "reading" /\ Unread = {}
    /\ load' = [load EXCEPT !.pc =
                  IF /\ load.counted >= 2 /\ Cardinality(load.rows) = load.counted
                     /\ OneSessionEach
                     /\ load.frames # <<>>
                  THEN "loaded" ELSE "refused"]
    /\ UNCHANGED <<clock, ledger, count>>

Next == Record \/ Prune \/ Count \/ Open \/ Chunk \/ Finish

Spec == Init /\ [][Next]_vars

-----------------------------------------------------------------------------
(* Properties *)

Frames == {load.frames[i] : i \in DOMAIN load.frames}
Samples(f) == {f.samples[i] : i \in DOMAIN f.samples}

(* Looks into no future: a bar is made of quotes of one stream that fall into
   its interval, in the order of their times, and what it trades at is later
   than all of them (research/runtime_trace.py:273). *)
BarsAreCausal ==
    \A f \in Frames :
        /\ f.causal >= f.start + BarTicks
        /\ \A i \in DOMAIN f.samples :
              /\ f.samples[i].stream = f.stream /\ Bucket(f.samples[i].qqq) = f.start
              /\ \A j \in DOMAIN f.samples : i < j => f.samples[i].qqq < f.samples[j].qqq
              /\ f.samples[i].qqq < f.by.qqq

(* Rows of one stream, with no other stream heard in between. *)
Uninterrupted(b, c) ==
    /\ b.id < c.id
    /\ \A d \in load.rows : d.id \in b.id..c.id /\ Eligible(d) => d.stream = c.stream

(* A bar misses no quote of its interval that its stream recorded without
   interruption, but those that are not later than one before them
   (strategy/core.py:34, research/runtime_trace.py:267). *)
BarsAreComplete ==
    \A f \in Frames : \A b \in load.rows :
        Eligible(b) /\ Bucket(b.qqq) = f.start /\ Uninterrupted(b, f.by) =>
            \/ b \in Samples(f)
            \/ \E c \in load.rows : Eligible(c) /\ Uninterrupted(c, b) /\ b.qqq <= c.qqq

(* Bars of one stream follow each other; with those of another stream they go
   back by no more than the age of a quote, which is less than a bar of a
   minute, so that the quality report sees a repeated bar
   (research/historical.py:178). *)
FramesAdvance ==
    \A i, j \in DOMAIN load.frames : i < j =>
        LET f == load.frames[i]
            g == load.frames[j]
        IN  /\ g.start > f.start - (g.samples[1].envelope + Ahead)
            /\ (\A b \in load.rows : b.id \in f.by.id..g.by.id /\ Eligible(b) => b.stream = f.stream)
                  => g.start > f.start

(* A trace that is accepted has no bar, and no stream, of two sessions
   (research/runtime_trace.py:292). *)
SessionsApart ==
    load.pc = "loaded" =>
        \A f, g \in Frames :
            /\ Day(f.by.qqq) = Day(f.start)
            /\ f.stream = g.stream => Day(f.start) = Day(g.start)

TraceKept == BarsAreCausal /\ BarsAreComplete /\ FramesAdvance /\ SessionsApart

=============================================================================
