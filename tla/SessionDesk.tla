------------------------------ MODULE SessionDesk -----------------------------
(***************************************************************************)
(* The desktop window (ui/session_window.py, ui/session_lifecycle.py,      *)
(* ui/session_status.py): coroutines of one event loop that send commands  *)
(* to the worker from threads, while the user presses other buttons.       *)
(*                                                                         *)
(* A task of the window has at most one request out.  The worker handles   *)
(* requests in any order; the window may give one up and the worker handle *)
(* it all the same.  Another client of the worker reviews, starts and      *)
(* stops too.  The worker's own steps are those of SessionWorker, here in  *)
(* one; layout, wording, the candidate editor and the research bridge's    *)
(* button are left out.                                                    *)
(***************************************************************************)
EXTENDS Integers, FiniteSets

CONSTANTS
    Scope,          \* what a review may find
    Habits,         \* sets of buttons: those of one behaviour, which has as many presses
    MaxGeneration,  \* bound: writes of the control record
    MaxFaults,      \* bound: requests that fail or are given up
    None

DeskAssumption == None \notin Scope /\ MaxGeneration \in Nat /\ MaxFaults \in Nat

VARIABLES
    desk,       \* the window's fields
    call,       \* by task: the request it waits for
    late,       \* requests given up before the worker handled them
    worker,     \* the control record, the paper session and the broker session
    approvals,  \* history: starts the user asked for, paper ones included
    fenced,     \* history: approvals at the last confirmed Stop
    habit, presses, faults

ghosts == <<approvals, fenced>>
vars == <<desk, call, late, worker, ghosts, habit, presses, faults>>

Task == {"connect", "review", "start", "stop", "paper", "exit", "refresh"}

Unseen == [reachable |-> FALSE, running |-> FALSE, generation |-> None, missing |-> FALSE,
           fence |-> FALSE, connected |-> FALSE]

Init ==
    /\ habit \in Habits
    /\ worker = [generation |-> 0, running |-> FALSE, scope |-> None, tag |-> 0, seen |-> None,
                 paper |-> 0, connected |-> "connect" \notin habit]
    /\ desk \in [review : {None}, dialog : {None}, stop : {FALSE}, known : {FALSE}, moved : {FALSE},
                 shown : {Unseen, [Unseen EXCEPT !.missing = TRUE]}, closed : {FALSE}]
    /\ call = [k \in Task |-> None]
    /\ late = {} /\ approvals = 0 /\ fenced = 0 /\ presses = 0 /\ faults = 0

-----------------------------------------------------------------------------
(* The window's flags: a task in flight is what _busy, _stop_in_flight,
   _exit_in_flight, _paper_busy and _status_in_flight stand for. *)
Active(k) == call[k] # None
Busy == Active("connect") \/ Active("review") \/ Active("start")
InTransition == Busy \/ Active("stop") \/ Active("exit") \/ Active("paper")
StatusInFlight == \E k \in Task : Active(k) /\ call[k].op \in {"status", "offline"}
Launching == \E k \in {"connect", "paper"} : Active(k) /\ call[k].op = "launch"

CanConnect == IF desk.shown.reachable THEN ~desk.shown.running ELSE desk.shown.missing \/ desk.shown.fence

Ask(op) == [op |-> op, state |-> "sent", scope |-> None, generation |-> None,
             tag |-> 0, seen |-> None, answer |-> None]

Send(k, request) == call' = [call EXCEPT ![k] = request]
Done(k) == Send(k, None)

(* _refresh_status, within another task or its own: nothing when one is out. *)
Probe(k, d) ==
    IF StatusInFlight THEN Done(k) /\ desk' = d
    ELSE Send(k, Ask("status")) /\ desk' = [d EXCEPT !.moved = FALSE]

(* The status epoch moves on. *)
Moved(d) == [d EXCEPT !.moved = TRUE]

(* _worker_seen *)
Heard(d) == [d EXCEPT !.known = TRUE]

Cleared(d) == [d EXCEPT !.review = None, !.dialog = None]

(* _apply_status refuses an answer older than the record it has seen ... *)
Outdated(answer) == desk.shown.generation # None /\ answer.generation < desk.shown.generation

(* ... and voids a review that no longer is the worker's. *)
Applied(d, answer) ==
    LET same == d.review # None /\ d.review.scope = answer.scope /\ d.review.generation = answer.generation
        e == Heard(Moved(IF same THEN d ELSE Cleared(d)))
    IN  [e EXCEPT !.shown = [reachable |-> TRUE, running |-> answer.running, generation |-> answer.generation,
                             missing |-> FALSE, fence |-> FALSE, connected |-> answer.connected]]

Disconnected(d, answer) ==
    [Moved(Cleared(d)) EXCEPT
        !.shown = [Unseen EXCEPT !.generation = answer.generation, !.fence = ~answer.running]]

-----------------------------------------------------------------------------
(* Buttons *)

Presses(button) ==
    /\ ~desk.closed /\ button \in habit
    /\ presses < Cardinality(habit) /\ presses' = presses + 1
    /\ UNCHANGED <<habit, faults>>

PressConnect ==
    /\ Presses("connect") /\ ~InTransition /\ CanConnect
    /\ Send("connect", Ask("launch"))
    /\ UNCHANGED <<desk, late, worker, ghosts>>

PressReview(s) ==
    /\ Presses("review") /\ ~InTransition
    /\ desk.shown.reachable /\ desk.shown.connected /\ ~desk.shown.running
    /\ Send("review", [Ask("review") EXCEPT !.scope = s])
    /\ desk' = Moved(desk)
    /\ UNCHANGED <<late, worker, ghosts>>

(* Opening the approval forgets an earlier Stop. *)
PressStart ==
    /\ Presses("start") /\ ~InTransition /\ desk.review # None
    /\ desk.shown.connected /\ ~desk.shown.running
    /\ desk' = [desk EXCEPT !.stop = FALSE, !.dialog = desk.review.scope]
    /\ UNCHANGED <<call, late, worker, ghosts>>

(* The phrase typed names the scope the dialog shows. *)
Approve ==
    /\ ~desk.closed /\ desk.dialog # None
    /\ ~Busy /\ ~Active("stop") /\ ~Active("exit") /\ ~desk.stop
    /\ desk.review # None /\ desk.review.scope = desk.dialog
    /\ desk.shown.reachable /\ desk.shown.connected
    /\ desk' = [desk EXCEPT !.dialog = None]
    /\ approvals' = approvals + 1
    /\ Send("start", [Ask("authorize") EXCEPT !.scope = desk.dialog, !.tag = approvals + 1,
                                              !.seen = desk.review.generation])
    /\ UNCHANGED <<late, worker, fenced, habit, presses, faults>>

(* Stop and exit alike: an approval dialog is rejected, a start under way
   finds the flag. *)
Halting(d) == Moved([d EXCEPT !.stop = TRUE, !.dialog = None])

PressStop ==
    /\ Presses("stop") /\ ~Active("stop") /\ ~Active("exit")
    /\ desk' = Halting(desk) /\ Send("stop", Ask("stop"))
    /\ UNCHANGED <<late, worker, approvals, fenced>>

PressExit ==
    /\ Presses("exit") /\ ~Active("exit")
    /\ desk' = Halting(desk) /\ Send("exit", [Ask("await") EXCEPT !.state = "idle"])
    /\ UNCHANGED <<late, worker, approvals, fenced>>

PressPaper ==
    /\ Presses("paper") /\ ~InTransition /\ CanConnect /\ ~desk.shown.running
    /\ desk' = Moved([desk EXCEPT !.stop = FALSE])
    /\ approvals' = approvals + 1
    /\ Send("paper", [Ask(IF desk.shown.reachable THEN "paper" ELSE "launch") EXCEPT !.tag = approvals + 1])
    /\ UNCHANGED <<late, worker, fenced>>

Refresh ==
    /\ ~desk.closed /\ ~StatusInFlight
    /\ Probe("refresh", desk)
    /\ UNCHANGED <<late, worker, ghosts, habit, presses, faults>>

-----------------------------------------------------------------------------
(* The worker, and the control record a fence writes without it *)

(* Mutant: a start is checked against the reviewed scope alone. *)
ScopeOnly(c) == c.scope = worker.scope

StartAccepted(c) == c.scope = worker.scope /\ c.generation = worker.generation

Allowed(c) ==
    CASE c.op \in {"review", "connect", "paper"} -> ~worker.running
      [] c.op = "authorize" -> ~worker.running /\ c.scope = worker.scope
      [] c.op = "start" -> ~worker.running /\ StartAccepted(c)
      [] OTHER -> TRUE

Fenced == [worker EXCEPT !.generation = @ + 1, !.running = FALSE, !.tag = 0]

Effect(c) ==
    CASE c.op = "review" -> [worker EXCEPT !.generation = @ + 1, !.scope = c.scope, !.paper = 0]
      [] c.op = "start" -> [worker EXCEPT !.generation = @ + 1, !.running = TRUE, !.paper = 0,
                                          !.tag = c.tag, !.seen = c.seen]
      [] c.op \in {"stop", "restop", "shutdown"} -> [Fenced EXCEPT !.paper = 0]
      [] c.op = "fence" -> Fenced
      [] c.op = "paper" -> [worker EXCEPT !.paper = c.tag]
      [] OTHER -> worker

Started(w) == w.running \/ w.paper # 0

Handled(c) ==
    /\ Effect(c).generation <= MaxGeneration
    /\ worker' = Effect(c)

WorkerHandles(k) ==
    /\ Active(k) /\ call[k].state = "sent" /\ Allowed(call[k]) /\ Handled(call[k])
    /\ Send(k, [call[k] EXCEPT !.state = "answered",
                    !.answer = [generation |-> worker'.generation, scope |-> worker'.scope,
                                running |-> worker'.running, connected |-> worker'.connected]])
    /\ UNCHANGED <<desk, late, approvals, fenced, habit, presses, faults>>

HandlesLate ==
    /\ \E c \in late :
         /\ late' = late \ {c}
         /\ IF Allowed(c) THEN Handled(c) ELSE UNCHANGED worker
    /\ UNCHANGED <<desk, call, approvals, fenced, habit, presses, faults>>

Lasting == {"review", "start", "paper", "stop", "restop", "shutdown"}

(* A refusal, a broken channel or a timeout; after a timeout the worker may
   still handle the request. *)
Fails(k) ==
    /\ Active(k) /\ call[k].state \in {"sent", "answered"}
    /\ faults < MaxFaults /\ faults' = faults + 1
    /\ late' \in IF call[k].state = "sent" /\ call[k].op \in Lasting
                 THEN {late, late \cup {call[k]}} ELSE {late}
    /\ Send(k, [call[k] EXCEPT !.state = "failed"])
    /\ UNCHANGED <<desk, worker, approvals, fenced, habit, presses>>

(* Another client, and a runner that ends by itself. *)
Elsewhere ==
    /\ worker.generation < MaxGeneration
    /\ \/ ~worker.running /\ \E s \in Scope : worker' = Effect([Ask("review") EXCEPT !.scope = s])
       \/ ~worker.running /\ worker.scope # None /\ worker' = Effect(Ask("start"))
       \/ Started(worker) /\ worker' = Effect(Ask("stop"))
    /\ UNCHANGED <<desk, call, late, approvals, fenced, habit, presses, faults>>

-----------------------------------------------------------------------------
(* What a task does with an answer *)

Answered(k, op) == ~desk.closed /\ Active(k) /\ call[k].op = op /\ call[k].state = "answered"
Failed(k, op) == ~desk.closed /\ Active(k) /\ call[k].op = op /\ call[k].state = "failed"

Halted == desk.stop \/ Active("exit")

Confirmed == fenced' = approvals /\ UNCHANGED approvals

Quietly == UNCHANGED <<late, worker, habit, presses, faults>>

AfterLaunch ==
    /\ \/ Answered("connect", "launch") /\ Send("connect", Ask("connect"))
       \/ /\ Answered("paper", "launch")
          /\ Send("paper", IF Halted THEN None ELSE [call["paper"] EXCEPT !.op = "paper", !.state = "sent"])
    /\ desk' = Heard(desk)
    /\ Quietly /\ UNCHANGED ghosts

AfterConnect == Answered("connect", "connect") /\ Probe("connect", desk) /\ Quietly /\ UNCHANGED ghosts

AfterReview ==
    /\ Answered("review", "review")
    /\ LET answer == call["review"].answer
       IN  Probe("review", Moved([desk EXCEPT !.known = TRUE,
               !.review = [scope |-> answer.scope, generation |-> answer.generation]]))
    /\ Quietly /\ UNCHANGED ghosts

ReviewFails ==
    /\ Failed("review", "review") /\ Done("review") /\ desk' = [desk EXCEPT !.review = None]
    /\ Quietly /\ UNCHANGED ghosts

(* Authorized: a Stop pressed meanwhile ends it, and so does a review voided
   by a status that arrived meanwhile. *)
AfterAuthorize ==
    /\ Answered("start", "authorize")
    /\ Send("start",
            IF desk.stop \/ desk.review = None THEN None
            ELSE [call["start"] EXCEPT !.op = "start", !.state = "sent",
                                       !.generation = desk.review.generation])
    /\ Quietly /\ UNCHANGED <<desk, ghosts>>

(* Stop may race the delivery: it is applied again after the start. *)
AfterStart ==
    /\ Answered("start", "start")
    /\ IF desk.stop THEN Send("start", Ask("restop")) /\ UNCHANGED desk
       ELSE /\ Done("start")
            /\ desk' = IF Outdated(call["start"].answer) THEN Heard(desk) ELSE Applied(desk, call["start"].answer)
    /\ Quietly /\ UNCHANGED ghosts

AfterRestop ==
    /\ \/ /\ Answered("start", "restop") /\ Done("start")
          /\ desk' = IF Outdated(call["start"].answer) THEN desk ELSE Applied(desk, call["start"].answer)
       \/ Answered("paper", "restop") /\ Probe("paper", desk)
    /\ Quietly /\ UNCHANGED ghosts

(* An answer the window refuses leads to the fence, as a failure does. *)
AfterStop ==
    /\ Answered("stop", "stop")
    /\ IF Outdated(call["stop"].answer)
       THEN Send("stop", Ask("fence")) /\ desk' = Heard(desk) /\ UNCHANGED ghosts
       ELSE Done("stop") /\ desk' = Applied(desk, call["stop"].answer) /\ Confirmed
    /\ Quietly

StopFails ==
    /\ Failed("stop", "stop") /\ Send("stop", Ask("fence"))
    /\ Quietly /\ UNCHANGED <<desk, ghosts>>

AfterFence ==
    /\ Answered("stop", "fence") /\ Done("stop")
    /\ desk' = Disconnected(desk, call["stop"].answer) /\ Confirmed
    /\ Quietly

AfterPaper ==
    /\ Answered("paper", "paper")
    /\ IF Halted THEN Send("paper", Ask("restop")) /\ UNCHANGED desk
       ELSE Probe("paper", Moved(desk))
    /\ Quietly /\ UNCHANGED ghosts

(* A task whose request fails says so and ends. *)
GivesUp ==
    /\ \/ \E op \in {"launch", "connect"} : Failed("connect", op) /\ Done("connect")
       \/ \E op \in {"authorize", "start", "restop"} : Failed("start", op) /\ Done("start")
       \/ \E op \in {"launch", "paper", "restop"} : Failed("paper", op) /\ Done("paper")
       \/ Failed("stop", "fence") /\ Done("stop")
    /\ Quietly /\ UNCHANGED <<desk, ghosts>>

(* A status counts only if nothing moved on since it was asked for; one the
   window cannot take leads to the record on disk. *)
AfterStatus(k) ==
    /\ Answered(k, "status")
    /\ CASE desk.moved -> Done(k) /\ UNCHANGED desk
         [] ~desk.moved /\ Outdated(call[k].answer) -> Send(k, Ask("offline")) /\ desk' = Heard(desk)
         [] OTHER -> Done(k) /\ desk' = Applied(desk, call[k].answer)
    /\ Quietly /\ UNCHANGED ghosts

StatusFails(k) ==
    /\ Failed(k, "status") /\ Send(k, IF desk.moved THEN None ELSE Ask("offline"))
    /\ Quietly /\ UNCHANGED <<desk, ghosts>>

AfterOffline(k) ==
    /\ Answered(k, "offline") \/ Failed(k, "offline")
    /\ Done(k)
    /\ desk' = CASE desk.moved -> desk
                 [] ~desk.moved /\ call[k].state = "answered" -> Disconnected(desk, call[k].answer)
                 [] OTHER -> [Moved(Cleared(desk)) EXCEPT !.shown = Unseen]
    /\ Quietly /\ UNCHANGED ghosts

(* Exit waits for a launch, for so long; then it asks for a shutdown, unless
   there never was a worker, or writes the fence. *)
ExitGoesOn ==
    /\ ~desk.closed /\ Active("exit") /\ call["exit"].op = "await"
    /\ Send("exit",
            IF Launching /\ ~desk.known THEN Ask("fence")
            ELSE IF desk.known \/ ~desk.shown.missing THEN Ask("shutdown")
            ELSE [Ask("shutdown") EXCEPT !.state = "idle"])
    /\ Quietly /\ UNCHANGED <<desk, ghosts>>

ShutdownFails ==
    /\ Failed("exit", "shutdown") /\ Send("exit", Ask("fence"))
    /\ Quietly /\ UNCHANGED <<desk, ghosts>>

(* The window closes: what its tasks wait for is nobody's any more. *)
Close ==
    /\ \/ \E op \in {"shutdown", "fence"} : Answered("exit", op) /\ Confirmed
       \/ Failed("exit", "fence") /\ UNCHANGED ghosts
       \/ ~desk.closed /\ Active("exit") /\ call["exit"] = [Ask("shutdown") EXCEPT !.state = "idle"] /\ UNCHANGED ghosts
    /\ desk' = [desk EXCEPT !.closed = TRUE]
    /\ late' = late \cup {call[k] : k \in {j \in Task \ {"exit"} :
                                Active(j) /\ call[j].state = "sent" /\ call[j].op \in Lasting}}
    /\ call' = [k \in Task |-> None]
    /\ UNCHANGED <<worker, habit, presses, faults>>

WindowNext ==
    \/ PressConnect \/ PressStart \/ Approve \/ PressStop \/ PressExit \/ PressPaper \/ Refresh
    \/ \E s \in Scope : PressReview(s)
    \/ AfterLaunch \/ AfterConnect \/ AfterReview \/ ReviewFails
    \/ AfterAuthorize \/ AfterStart \/ AfterRestop \/ AfterStop \/ StopFails \/ AfterFence
    \/ AfterPaper \/ GivesUp \/ ExitGoesOn \/ ShutdownFails \/ Close
    \/ \E k \in Task : AfterStatus(k) \/ StatusFails(k) \/ AfterOffline(k)

Next ==
    \/ WindowNext \/ HandlesLate \/ Elsewhere
    \/ \E k \in Task : WorkerHandles(k) \/ Fails(k)

Spec == Init /\ [][Next]_vars

-----------------------------------------------------------------------------
(* A session this window started and then stopped, confirmed by the worker or
   by the fence, does not run: not even when the start was given up, and
   reaches the worker after the stop. *)
StopWins == worker.running => worker.tag = 0 \/ worker.tag > fenced

(* A session of this window runs under the review its user approved: no other
   review, start or stop came between. *)
StartedAsReviewed == worker.running /\ worker.tag # 0 => worker.generation = worker.seen + 1

DeskKept == StopWins /\ StartedAsReviewed

=============================================================================
