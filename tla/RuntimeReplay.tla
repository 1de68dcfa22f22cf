----------------------------- MODULE RuntimeReplay -----------------------------
(***************************************************************************)
(* The replay of recorded runtime observations (research/runtime_          *)
(* replay.py): a fresh executor for every session, a fresh strategy for    *)
(* every session and every recording stream, and the fills and the equity  *)
(* curve of all sessions put together.                                     *)
(*                                                                         *)
(* Every observation has all its quotes.  The strategy is the bars it      *)
(* remembers; its signal is an input.                                      *)
(***************************************************************************)
EXTENDS QuoteExecutor

CONSTANT Stream     \* recording streams: a restart of the recorder begins another

VARIABLE run        \* the locals of RuntimeObservationReplayEngine.run

replayVars == <<sim, now, frames, run>>

(* collected, shares: what the fills of the result amount to, realized
   results and shares still held; point: the equity of the latest point. *)
ReplayInit ==
    /\ Init
    /\ run = [last |-> None, stream |-> None, memory |-> {}, completed |-> 0,
              collected |-> 0, shares |-> 0, point |-> Contract.cash, states |-> <<>>, done |-> FALSE]

Held(s) == IF s.position = None THEN 0 ELSE s.position.quantity
Profit(s) == s.equity - Contract.cash

(* The fills between two states of one executor, into the result. *)
Collected(r, before, after) ==
    [r EXCEPT !.collected = @ + after.realized - before.realized,
              !.shares = @ + Held(after) - Held(before)]

(* A session whose last observation reached the close is sold out. *)
Closed ==
    IF Contract.flat /\ run.last.minute >= Contract.session
    THEN Stopped(sim, run.last, TRUE) ELSE sim

(* Mutant: the last point keeps its value of before the sale. *)
FinishedUnpatched ==
    [Collected(run, sim, Closed) EXCEPT
        !.completed = @ + Profit(Closed), !.states = Append(@, Closed)]

(* finish_session: what the closing sale adds goes into the fills and into
   the last point of the curve. *)
Finished ==
    [Collected(run, sim, Closed) EXCEPT
        !.completed = @ + Profit(Closed), !.states = Append(@, Closed),
        !.point = Contract.cash + run.completed + Profit(Closed)]

(* One turn of the loop. *)
Observe ==
    /\ ~run.done /\ frames < MaxFrames
    /\ \E f \in Frame, stream \in Stream :
          LET fresh == run.last # None /\ run.last.day # f.day
              before == IF fresh THEN Fresh ELSE sim
              after == Advanced(before, f)
              base == Collected(IF fresh THEN Finished ELSE run, before, after)
              forgets == fresh \/ (run.last # None /\ run.stream # stream)
          IN  /\ f.mid # None /\ Later(f)
              /\ sim' = after
              /\ now' = [day |-> f.day, minute |-> f.minute]
              /\ run' = [base EXCEPT
                            !.last = f, !.stream = stream,
                            !.memory = (IF forgets THEN {} ELSE @) \cup {<<f.day, stream>>},
                            !.point = Contract.cash + base.completed + Profit(after)]
    /\ frames' = frames + 1

(* The last session is finished as the others. *)
Complete ==
    /\ ~run.done /\ run.last # None
    /\ run' = [Finished EXCEPT !.done = TRUE]
    /\ UNCHANGED <<sim, now, frames>>

ReplayNext == Observe \/ Complete

ReplaySpec == ReplayInit /\ [][ReplayNext]_replayVars

(* run_result: the position some session ended with. *)
EndsHolding == \E i \in DOMAIN run.states : run.states[i].position # None

-----------------------------------------------------------------------------
(* Properties *)

(* What a position is worth beyond its cost. *)
Unrealized(s) ==
    IF s.position = None THEN 0 ELSE s.equity - s.cash - s.unsettled - s.position.cost

(* The curve and the fills tell one story: at every point the equity gained
   is what the fills so far realized and what was left open at the end of
   each session was worth beyond its cost, each fill counted once
   (research/runtime_replay.py:74). *)
EquityIsFills ==
    run.point - Contract.cash =
        run.collected + MapThenSumSet(LAMBDA i : Unrealized(run.states[i]), DOMAIN run.states)
          + (IF run.done THEN 0 ELSE Unrealized(sim))

(* A result without an ending position has sold every share it bought, in
   whichever session (research/runtime_replay.py:216). *)
FlatMeansSold == run.done /\ ~EndsHolding => run.shares = 0

(* A signal rests on the bars of its own session and stream, and nothing is
   carried into a session: no position, no order
   (research/runtime_replay.py:98). *)
SessionsStandAlone ==
    run.last # None =>
        /\ run.memory = {<<run.last.day, run.stream>>}
        /\ sim.position # None => sim.position.day = run.last.day
        /\ sim.pending # None => sim.pending.session = run.last.day

ReplayKept == EquityIsFills /\ FlatMeansSold /\ SessionsStandAlone

=============================================================================
