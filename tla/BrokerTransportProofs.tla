------------------------ MODULE BrokerTransportProofs ------------------------
(* What holds of the broker transport for any number of requests and owner
   tasks, and for any cancellations of connect and disconnect. *)
EXTENDS BrokerTransport, TLAPS

-----------------------------------------------------------------------------
(* The inductive invariant.  OneOwner needs to know that the lifecycle
   operation in progress waits for the present worker, and that an owner that
   is done has emptied its queue; the other properties need to know where a
   waiting request is. *)

(* The queue and the operations in progress belong to the worker. *)
WorkerKnown ==
    /\ worker = None <=> queue = None
    /\ op.pc # "none" => worker # None

(* The owner's finally block has run. *)
DoneIsEmpty == worker # None /\ ~Running => queue = {}

(* An owner has an active request exactly while it calls, and has sent it. *)
ActiveIsSent ==
    \A g \in Gen : /\ owner[g].active # None <=> owner[g].pc = "calling"
                   /\ owner[g].active # None => owner[g].active \in sent

(* A waiting request is queued, or active in the present owner. *)
WaitingHeld ==
    \A r \in Call :
        future[r] = "waiting" => r \in Queued \/ (worker # None /\ owner[worker].active = r)

(* A queued request was not sent, and nobody was told anything of it. *)
QueuedUnsent == \A r \in Queued : r \notin sent /\ future[r] \in {"waiting", "cancelled"}

TransportInv ==
    /\ TypeOK
    /\ OneOwner
    /\ WorkerKnown
    /\ DoneIsEmpty
    /\ ActiveIsSent
    /\ WaitingHeld
    /\ QueuedUnsent
    /\ UnsentIsTrue

LEMMA InitInv == Init => TransportInv
<1> SUFFICES ASSUME Init PROVE TransportInv
  OBVIOUS
<1> USE DEF Init
<1>1. TypeOK
  <2>1. NoTask \in OwnerTask /\ NoOp \in Op
    BY DEF NoTask, NoOp, OwnerTask, Op
  <2>2. QED
    BY <2>1, NullAssumption DEF TypeOK, Told
<1>2. OneOwner
  BY NullAssumption DEF OneOwner, Living, Alive, TypeOK, OwnerTask, Running, WorkerKnown, Connected, NoTask, NoOp
<1>3. WorkerKnown
  BY NullAssumption DEF WorkerKnown, TypeOK, Queued, NoTask, NoOp
<1>4. DoneIsEmpty
  BY NullAssumption DEF DoneIsEmpty, Running, Connected, Alive, TypeOK, OwnerTask, WorkerKnown, OneOwner, Living, Queued, NoTask, NoOp
<1>5. ActiveIsSent
  BY NullAssumption DEF ActiveIsSent, TypeOK, OwnerTask, Alive, NoTask, NoOp
<1>6. WaitingHeld
  BY NullAssumption DEF WaitingHeld, Queued, TypeOK, OwnerTask, ActiveIsSent, OneOwner, Living, Alive, WorkerKnown, Running, Told, NoTask, NoOp
<1>7. QueuedUnsent
  BY NullAssumption DEF QueuedUnsent, Queued, TypeOK, UnsentIsTrue, Told, NoTask, NoOp
<1>8. UnsentIsTrue
  BY NullAssumption DEF UnsentIsTrue, TypeOK, QueuedUnsent, Queued, ActiveIsSent, OwnerTask, Told, NoTask, NoOp
<1>9. QED
  BY <1>1, <1>2, <1>3, <1>4, <1>5, <1>6, <1>7, <1>8 DEF TransportInv

-----------------------------------------------------------------------------
(* Callers *)

LEMMA SubmitInv ==
    ASSUME TransportInv, NEW r \in Call, Submit(r)
    PROVE  TransportInv'
<1>1. /\ TypeOK /\ OneOwner /\ WorkerKnown /\ DoneIsEmpty
      /\ ActiveIsSent /\ WaitingHeld /\ QueuedUnsent /\ UnsentIsTrue
  BY DEF TransportInv
<1>2. TypeOK'
  BY <1>1, NullAssumption DEF Submit, TypeOK, OwnerTask, Alive, Told, Queued, Op, Waits
<1>3. OneOwner'
  BY <1>1, NullAssumption DEF Submit, OneOwner, Living, Alive, TypeOK, OwnerTask, Running, WorkerKnown, Connected
<1>4. WorkerKnown'
  <2>1. CASE Connected /\ accepting /\ queue # None
    <3>1. queue' \in SUBSET Call /\ worker # None
      BY <1>1, <2>1 DEF Submit, TypeOK, Connected, Running
    <3>2. QED
      BY <1>1, <2>1, <3>1, NullAssumption DEF Submit, WorkerKnown
  <2>2. CASE ~(Connected /\ accepting /\ queue # None)
    BY <1>1, <2>2 DEF Submit, WorkerKnown
  <2>3. QED
    BY <2>1, <2>2
<1>5. DoneIsEmpty'
  BY <1>1, NullAssumption DEF Submit, DoneIsEmpty, Running, Connected, Alive, TypeOK, OwnerTask, WorkerKnown, OneOwner, Living, Queued
<1>6. ActiveIsSent'
  BY <1>1, NullAssumption DEF Submit, ActiveIsSent, TypeOK, OwnerTask, Alive
<1>7. WaitingHeld'
  <2>1. CASE Connected /\ accepting /\ queue # None
    <3>1. Queued' = Queued \cup {r}
      BY <1>1, <1>4, <2>1, NullAssumption DEF Submit, Queued, WorkerKnown, Connected, Running
    <3>2. QED
      BY <1>1, <2>1, <3>1 DEF Submit, WaitingHeld, TypeOK
  <2>2. CASE ~(Connected /\ accepting /\ queue # None)
    BY <1>1, <2>2 DEF Submit, WaitingHeld, TypeOK, Queued
  <2>3. QED
    BY <2>1, <2>2
<1>8. QueuedUnsent'
  <2>1. CASE Connected /\ accepting /\ queue # None
    <3>1. Queued' = Queued \cup {r}
      BY <1>1, <1>4, <2>1, NullAssumption DEF Submit, Queued, WorkerKnown, Connected, Running
    <3>2. r \notin sent
      BY <1>1 DEF Submit, UnsentIsTrue
    <3>3. Queued \subseteq Call
      BY <1>1 DEF TypeOK, Queued
    <3>4. QED
      BY <1>1, <2>1, <3>1, <3>2, <3>3 DEF Submit, QueuedUnsent, TypeOK
  <2>2. CASE ~(Connected /\ accepting /\ queue # None)
    BY <1>1, <2>2 DEF Submit, QueuedUnsent, TypeOK, Queued
  <2>3. QED
    BY <2>1, <2>2
<1>9. UnsentIsTrue'
  BY <1>1, NullAssumption DEF Submit, UnsentIsTrue, TypeOK, QueuedUnsent, Queued, ActiveIsSent, OwnerTask, Told
<1>10. QED
  BY <1>2, <1>3, <1>4, <1>5, <1>6, <1>7, <1>8, <1>9 DEF TransportInv

LEMMA GiveUpInv ==
    ASSUME TransportInv, NEW r \in Call, GiveUp(r)
    PROVE  TransportInv'
<1>1. /\ TypeOK /\ OneOwner /\ WorkerKnown /\ DoneIsEmpty
      /\ ActiveIsSent /\ WaitingHeld /\ QueuedUnsent /\ UnsentIsTrue
  BY DEF TransportInv
<1>2. TypeOK'
  BY <1>1, NullAssumption DEF GiveUp, TypeOK, OwnerTask, Alive, Told, Queued, Op, Waits
<1>3. OneOwner'
  BY <1>1, NullAssumption DEF GiveUp, OneOwner, Living, Alive, TypeOK, OwnerTask, Running, WorkerKnown, Connected
<1>4. WorkerKnown'
  BY <1>1, NullAssumption DEF GiveUp, WorkerKnown, TypeOK, Queued
<1>5. DoneIsEmpty'
  BY <1>1, NullAssumption DEF GiveUp, DoneIsEmpty, Running, Connected, Alive, TypeOK, OwnerTask, WorkerKnown, OneOwner, Living, Queued
<1>6. ActiveIsSent'
  BY <1>1, NullAssumption DEF GiveUp, ActiveIsSent, TypeOK, OwnerTask, Alive
<1>7. WaitingHeld'
  BY <1>1, NullAssumption DEF GiveUp, WaitingHeld, Queued, TypeOK, OwnerTask, ActiveIsSent, OneOwner, Living, Alive, WorkerKnown, Running, Told
<1>8. QueuedUnsent'
  BY <1>1, NullAssumption DEF GiveUp, QueuedUnsent, Queued, TypeOK, UnsentIsTrue, Told
<1>9. UnsentIsTrue'
  BY <1>1, NullAssumption DEF GiveUp, UnsentIsTrue, TypeOK, QueuedUnsent, Queued, ActiveIsSent, OwnerTask, Told
<1>10. QED
  BY <1>2, <1>3, <1>4, <1>5, <1>6, <1>7, <1>8, <1>9 DEF TransportInv

-----------------------------------------------------------------------------
(* The owner task *)

LEMMA OpenedInv ==
    ASSUME TransportInv, NEW g \in Gen, Opened(g)
    PROVE  TransportInv'
<1>1. /\ TypeOK /\ OneOwner /\ WorkerKnown /\ DoneIsEmpty
      /\ ActiveIsSent /\ WaitingHeld /\ QueuedUnsent /\ UnsentIsTrue
  BY DEF TransportInv
<1>2. TypeOK'
  BY <1>1, NullAssumption DEF Opened, Become, TypeOK, OwnerTask, Alive, Told, Queued, Op, Waits
<1>3. OneOwner'
  BY <1>1, NullAssumption DEF Opened, Become, OneOwner, Living, Alive, TypeOK, OwnerTask, Running, WorkerKnown, Connected
<1>4. WorkerKnown'
  BY <1>1, NullAssumption DEF Opened, Become, WorkerKnown, TypeOK, Queued
<1>5. DoneIsEmpty'
  BY <1>1, NullAssumption DEF Opened, Become, DoneIsEmpty, Running, Connected, Alive, TypeOK, OwnerTask, WorkerKnown, OneOwner, Living, Queued
<1>6. ActiveIsSent'
  BY <1>1, NullAssumption DEF Opened, Become, ActiveIsSent, TypeOK, OwnerTask, Alive
<1>7. WaitingHeld'
  BY <1>1, NullAssumption DEF Opened, Become, WaitingHeld, Queued, TypeOK, OwnerTask, ActiveIsSent, OneOwner, Living, Alive, WorkerKnown, Running, Told
<1>8. QueuedUnsent'
  BY <1>1, NullAssumption DEF Opened, Become, QueuedUnsent, Queued, TypeOK, UnsentIsTrue, Told
<1>9. UnsentIsTrue'
  BY <1>1, NullAssumption DEF Opened, Become, UnsentIsTrue, TypeOK, QueuedUnsent, Queued, ActiveIsSent, OwnerTask, Told
<1>10. QED
  BY <1>2, <1>3, <1>4, <1>5, <1>6, <1>7, <1>8, <1>9 DEF TransportInv

LEMMA TakeMarkerInv ==
    ASSUME TransportInv, NEW g \in Gen, TakeMarker(g)
    PROVE  TransportInv'
<1>1. /\ TypeOK /\ OneOwner /\ WorkerKnown /\ DoneIsEmpty
      /\ ActiveIsSent /\ WaitingHeld /\ QueuedUnsent /\ UnsentIsTrue
  BY DEF TransportInv
<1>2. TypeOK'
  <2>1. owner' \in [Gen -> OwnerTask]
    BY <1>1 DEF TakeMarker, Become, TypeOK, OwnerTask, Alive
  <2>2. future' \in [Call -> Told \cup {"new", "waiting"}]
    BY <1>1 DEF TakeMarker, Become, TypeOK, Told
  <2>3. QED
    BY <1>1, <2>1, <2>2 DEF TakeMarker, Become, TypeOK, Queued, Op, Waits
<1>3. OneOwner'
  BY <1>1, NullAssumption DEF TakeMarker, Become, OneOwner, Living, Alive, TypeOK, OwnerTask, Running, WorkerKnown, Connected
<1>4. WorkerKnown'
  BY <1>1, NullAssumption DEF TakeMarker, Become, WorkerKnown, TypeOK, Queued
<1>5. DoneIsEmpty'
  BY <1>1, NullAssumption DEF TakeMarker, Become, DoneIsEmpty, Running, Connected, Alive, TypeOK, OwnerTask, WorkerKnown, OneOwner, Living, Queued
<1>6. ActiveIsSent'
  BY <1>1, NullAssumption DEF TakeMarker, Become, ActiveIsSent, TypeOK, OwnerTask, Alive
<1>7. WaitingHeld'
  BY <1>1, NullAssumption DEF TakeMarker, Become, WaitingHeld, Queued, TypeOK, OwnerTask, ActiveIsSent, OneOwner, Living, Alive, WorkerKnown, Running, Told
<1>8. QueuedUnsent'
  BY <1>1, NullAssumption DEF TakeMarker, Become, QueuedUnsent, Queued, TypeOK, UnsentIsTrue, Told
<1>9. UnsentIsTrue'
  BY <1>1, NullAssumption DEF TakeMarker, Become, UnsentIsTrue, TypeOK, QueuedUnsent, Queued, ActiveIsSent, OwnerTask, Told
<1>10. QED
  BY <1>2, <1>3, <1>4, <1>5, <1>6, <1>7, <1>8, <1>9 DEF TransportInv

LEMMA TakeInv ==
    ASSUME TransportInv, NEW g \in Gen, NEW r \in Call, Take(g, r)
    PROVE  TransportInv'
<1>1. /\ TypeOK /\ OneOwner /\ WorkerKnown /\ DoneIsEmpty
      /\ ActiveIsSent /\ WaitingHeld /\ QueuedUnsent /\ UnsentIsTrue
  BY DEF TransportInv
<1>2. TypeOK'
  BY <1>1, NullAssumption DEF Take, TypeOK, OwnerTask, Alive, Told, Queued, Op, Waits
<1>3. OneOwner'
  BY <1>1, NullAssumption DEF Take, OneOwner, Living, Alive, TypeOK, OwnerTask, Running, WorkerKnown, Connected
<1>4. WorkerKnown'
  <2>1. queue # None /\ queue' \in SUBSET Call
    BY <1>1 DEF Take, TypeOK, Queued
  <2>2. QED
    BY <1>1, <2>1, NullAssumption DEF Take, WorkerKnown
<1>5. DoneIsEmpty'
  BY <1>1, NullAssumption DEF Take, DoneIsEmpty, Running, Connected, Alive, TypeOK, OwnerTask, WorkerKnown, OneOwner, Living, Queued
<1>6. ActiveIsSent'
  BY <1>1, NullAssumption DEF Take, ActiveIsSent, TypeOK, OwnerTask, Alive
<1>7. WaitingHeld'
  <2>1. queue # None /\ queue' # None /\ Queued' = Queued \ {r}
    BY <1>1, <1>4 DEF Take, Queued, WorkerKnown
  <2>2. g = worker /\ worker # None /\ worker \in Gen
    BY <1>1, NullAssumption DEF Take, OneOwner, Living, Alive
  <2>3. CASE future[r] = "cancelled"
    BY <1>1, <2>1, <2>3 DEF Take, WaitingHeld
  <2>4. CASE future[r] # "cancelled"
    <3>1. owner[worker].active = None
      BY <1>1, <2>2 DEF Take, ActiveIsSent
    <3>2. owner'[worker].active = r
      BY <1>1, <2>2, <2>4 DEF Take, TypeOK, OwnerTask
    <3>3. QED
      BY <1>1, <2>1, <2>2, <2>4, <3>1, <3>2, NullAssumption DEF Take, WaitingHeld
  <2>5. QED
    BY <2>3, <2>4
<1>8. QueuedUnsent'
  BY <1>1, NullAssumption DEF Take, QueuedUnsent, Queued, TypeOK, UnsentIsTrue, Told
<1>9. UnsentIsTrue'
  BY <1>1, NullAssumption DEF Take, UnsentIsTrue, TypeOK, QueuedUnsent, Queued, ActiveIsSent, OwnerTask, Told
<1>10. QED
  BY <1>2, <1>3, <1>4, <1>5, <1>6, <1>7, <1>8, <1>9 DEF TransportInv

LEMMA CallEndsInv ==
    ASSUME TransportInv, NEW g \in Gen, CallEnds(g)
    PROVE  TransportInv'
<1>1. /\ TypeOK /\ OneOwner /\ WorkerKnown /\ DoneIsEmpty
      /\ ActiveIsSent /\ WaitingHeld /\ QueuedUnsent /\ UnsentIsTrue
  BY DEF TransportInv
<1>2. TypeOK'
  <2>1. owner' \in [Gen -> OwnerTask]
    <3>1. owner' = [owner EXCEPT ![g].pc = "serving", ![g].active = None]
      BY DEF CallEnds
    <3>2. [owner[g] EXCEPT !.pc = "serving", !.active = None] \in OwnerTask
      BY <1>1 DEF TypeOK, OwnerTask, Alive
    <3>3. owner' = [owner EXCEPT ![g] = [owner[g] EXCEPT !.pc = "serving", !.active = None]]
      BY <1>1, <3>1 DEF TypeOK, OwnerTask
    <3>4. QED
      BY <1>1, <3>2, <3>3 DEF TypeOK
  <2>2. future' \in [Call -> Told \cup {"new", "waiting"}]
    BY <1>1 DEF CallEnds, Tell, TypeOK, Told
  <2>3. QED
    BY <1>1, <2>1, <2>2 DEF CallEnds, Tell, TypeOK, Queued, Op, Waits
<1>3. OneOwner'
  BY <1>1, NullAssumption DEF CallEnds, Tell, OneOwner, Living, Alive, TypeOK, OwnerTask, Running, WorkerKnown, Connected
<1>4. WorkerKnown'
  BY <1>1, NullAssumption DEF CallEnds, Tell, WorkerKnown, TypeOK, Queued
<1>5. DoneIsEmpty'
  BY <1>1, NullAssumption DEF CallEnds, Tell, DoneIsEmpty, Running, Connected, Alive, TypeOK, OwnerTask, WorkerKnown, OneOwner, Living, Queued
<1>6. ActiveIsSent'
  BY <1>1, NullAssumption DEF CallEnds, Tell, ActiveIsSent, TypeOK, OwnerTask, Alive
<1>7. WaitingHeld'
  BY <1>1, NullAssumption DEF CallEnds, Tell, WaitingHeld, Queued, TypeOK, OwnerTask, ActiveIsSent, OneOwner, Living, Alive, WorkerKnown, Running, Told
<1>8. QueuedUnsent'
  <2>1. owner[g].active \notin Queued
    BY <1>1, NullAssumption DEF CallEnds, ActiveIsSent, QueuedUnsent, TypeOK, Queued
  <2>2. QED
    BY <1>1, <2>1 DEF CallEnds, Tell, QueuedUnsent, Queued, TypeOK
<1>9. UnsentIsTrue'
  BY <1>1, NullAssumption DEF CallEnds, Tell, UnsentIsTrue, TypeOK, QueuedUnsent, Queued, ActiveIsSent, OwnerTask, Told
<1>10. QED
  BY <1>2, <1>3, <1>4, <1>5, <1>6, <1>7, <1>8, <1>9 DEF TransportInv

LEMMA InterruptedInv ==
    ASSUME TransportInv, NEW g \in Gen, Interrupted(g)
    PROVE  TransportInv'
<1>1. /\ TypeOK /\ OneOwner /\ WorkerKnown /\ DoneIsEmpty
      /\ ActiveIsSent /\ WaitingHeld /\ QueuedUnsent /\ UnsentIsTrue
  BY DEF TransportInv
<1>2. TypeOK'
  BY <1>1, NullAssumption DEF Interrupted, Tell, TypeOK, OwnerTask, Alive, Told, Queued, Op, Waits
<1>3. OneOwner'
  BY <1>1, NullAssumption DEF Interrupted, Tell, OneOwner, Living, Alive, TypeOK, OwnerTask, Running, WorkerKnown, Connected
<1>4. WorkerKnown'
  BY <1>1, NullAssumption DEF Interrupted, Tell, WorkerKnown, TypeOK, Queued
<1>5. DoneIsEmpty'
  BY <1>1, NullAssumption DEF Interrupted, Tell, DoneIsEmpty, Running, Connected, Alive, TypeOK, OwnerTask, WorkerKnown, OneOwner, Living, Queued
<1>6. ActiveIsSent'
  BY <1>1, NullAssumption DEF Interrupted, Tell, ActiveIsSent, TypeOK, OwnerTask, Alive
<1>7. WaitingHeld'
  BY <1>1, NullAssumption DEF Interrupted, Tell, WaitingHeld, Queued, TypeOK, OwnerTask, ActiveIsSent, OneOwner, Living, Alive, WorkerKnown, Running, Told
<1>8. QueuedUnsent'
  <2>1. owner[g].active \notin Queued
    BY <1>1, NullAssumption DEF Interrupted, ActiveIsSent, QueuedUnsent, TypeOK, Queued
  <2>2. QED
    BY <1>1, <2>1 DEF Interrupted, Tell, QueuedUnsent, Queued, TypeOK
<1>9. UnsentIsTrue'
  BY <1>1, NullAssumption DEF Interrupted, Tell, UnsentIsTrue, TypeOK, QueuedUnsent, Queued, ActiveIsSent, OwnerTask, Told
<1>10. QED
  BY <1>2, <1>3, <1>4, <1>5, <1>6, <1>7, <1>8, <1>9 DEF TransportInv

LEMMA ClosedInv ==
    ASSUME TransportInv, NEW g \in Gen, Closed(g)
    PROVE  TransportInv'
<1>1. /\ TypeOK /\ OneOwner /\ WorkerKnown /\ DoneIsEmpty
      /\ ActiveIsSent /\ WaitingHeld /\ QueuedUnsent /\ UnsentIsTrue
  BY DEF TransportInv
<1>2. TypeOK'
  <2>1. owner' \in [Gen -> OwnerTask]
    <3>1. PICK broken \in BOOLEAN : owner' = [owner EXCEPT ![g].pc = "done", ![g].broken = broken]
      BY <1>1 DEF Closed, TypeOK, OwnerTask
    <3>2. [owner[g] EXCEPT !.pc = "done", !.broken = broken] \in OwnerTask
      BY <1>1 DEF TypeOK, OwnerTask
    <3>3. owner' = [owner EXCEPT ![g] = [owner[g] EXCEPT !.pc = "done", !.broken = broken]]
      BY <1>1, <3>1 DEF TypeOK, OwnerTask
    <3>4. QED
      BY <1>1, <3>2, <3>3 DEF TypeOK
  <2>2. future' \in [Call -> Told \cup {"new", "waiting"}]
    BY <1>1 DEF Closed, Tell, TypeOK, Told
  <2>3. QED
    BY <1>1, <2>1, <2>2 DEF Closed, Tell, TypeOK, Queued, Op, Waits
<1>3. OneOwner'
  BY <1>1, NullAssumption DEF Closed, Tell, OneOwner, Living, Alive, TypeOK, OwnerTask, Running, WorkerKnown, Connected
<1>4. WorkerKnown'
  BY <1>1, NullAssumption DEF Closed, Tell, WorkerKnown, TypeOK, Queued
<1>5. DoneIsEmpty'
  BY <1>1, NullAssumption DEF Closed, Tell, DoneIsEmpty, Running, Connected, Alive, TypeOK, OwnerTask, WorkerKnown, OneOwner, Living, Queued
<1>6. ActiveIsSent'
  BY <1>1, NullAssumption DEF Closed, Tell, ActiveIsSent, TypeOK, OwnerTask, Alive
<1>7. WaitingHeld'
  BY <1>1, NullAssumption DEF Closed, Tell, WaitingHeld, Queued, TypeOK, OwnerTask, ActiveIsSent, OneOwner, Living, Alive, WorkerKnown, Running, Told
<1>8. QueuedUnsent'
  BY <1>1, NullAssumption DEF Closed, Tell, QueuedUnsent, Queued, TypeOK, UnsentIsTrue, Told
<1>9. UnsentIsTrue'
  BY <1>1, NullAssumption DEF Closed, Tell, UnsentIsTrue, TypeOK, QueuedUnsent, Queued, ActiveIsSent, OwnerTask, Told
<1>10. QED
  BY <1>2, <1>3, <1>4, <1>5, <1>6, <1>7, <1>8, <1>9 DEF TransportInv

-----------------------------------------------------------------------------
(* Connect and disconnect *)

LEMMA CreateInv ==
    ASSUME TransportInv, ~Running, NEW g \in Gen, NextOwner(g),
           owner' = [owner EXCEPT ![g].pc = "opening"], worker' = g, queue' = {}, marker' = FALSE,
           queue = None \/ queue = {}, op' \in Op, connected' \in BOOLEAN, accepting' \in BOOLEAN,
           UNCHANGED <<ready, future, sent>>
    PROVE  TransportInv'
<1>1. /\ TypeOK /\ OneOwner /\ WorkerKnown /\ DoneIsEmpty
      /\ ActiveIsSent /\ WaitingHeld /\ QueuedUnsent /\ UnsentIsTrue
  BY DEF TransportInv
<1>2. TypeOK'
  <2>1. owner' \in [Gen -> OwnerTask]
    BY <1>1 DEF NextOwner, TypeOK, OwnerTask, Alive
  <2>2. future' \in [Call -> Told \cup {"new", "waiting"}]
    BY <1>1 DEF NextOwner, TypeOK, Told
  <2>3. QED
    BY <1>1, <2>1, <2>2 DEF NextOwner, TypeOK, Queued, Op, Waits
<1>3. OneOwner'
  BY <1>1, NullAssumption DEF NextOwner, OneOwner, Living, Alive, TypeOK, OwnerTask, Running, WorkerKnown, Connected
<1>4. WorkerKnown'
  BY <1>1, NullAssumption DEF NextOwner, WorkerKnown, TypeOK, Queued
<1>5. DoneIsEmpty'
  BY <1>1, NullAssumption DEF NextOwner, DoneIsEmpty, Running, Connected, Alive, TypeOK, OwnerTask, WorkerKnown, OneOwner, Living, Queued
<1>6. ActiveIsSent'
  BY <1>1, NullAssumption DEF NextOwner, ActiveIsSent, TypeOK, OwnerTask, Alive
<1>7. WaitingHeld'
  BY <1>1, NullAssumption DEF NextOwner, WaitingHeld, Queued, TypeOK, OwnerTask, ActiveIsSent, OneOwner, Living, Alive, WorkerKnown, Running, Told
<1>8. QueuedUnsent'
  BY <1>1, NullAssumption DEF NextOwner, QueuedUnsent, Queued, TypeOK, UnsentIsTrue, Told
<1>9. UnsentIsTrue'
  BY <1>1, NullAssumption DEF NextOwner, UnsentIsTrue, TypeOK, QueuedUnsent, Queued, ActiveIsSent, OwnerTask, Told
<1>10. QED
  BY <1>2, <1>3, <1>4, <1>5, <1>6, <1>7, <1>8, <1>9 DEF TransportInv

LEMMA StopWorkerInv ==
    ASSUME TransportInv, worker # None, NEW kind \in Op, StopWorker(kind),
           UNCHANGED <<ready, worker, connected, sent>>,
           owner' = owner \/ (Running /\ owner' = [owner EXCEPT ![worker].cancelled = TRUE])
    PROVE  TransportInv'
<1>1. /\ TypeOK /\ OneOwner /\ WorkerKnown /\ DoneIsEmpty
      /\ ActiveIsSent /\ WaitingHeld /\ QueuedUnsent /\ UnsentIsTrue
  BY DEF TransportInv
<1>2. TypeOK'
  <2>1. owner' \in [Gen -> OwnerTask]
    <3>1. CASE owner' = owner
      BY <1>1, <3>1 DEF TypeOK
    <3>2. CASE Running /\ owner' = [owner EXCEPT ![worker].cancelled = TRUE]
      BY <1>1, <3>2 DEF TypeOK, OwnerTask
    <3>3. QED
      BY <3>1, <3>2
  <2>2. future' \in [Call -> Told \cup {"new", "waiting"}]
    BY <1>1 DEF StopWorker, Tell, TypeOK, Told
  <2>3. QED
    BY <1>1, <2>1, <2>2 DEF StopWorker, Tell, TypeOK, Queued, Op, Waits
<1>3. OneOwner'
  BY <1>1, NullAssumption DEF StopWorker, Tell, OneOwner, Living, Alive, TypeOK, OwnerTask, Running, WorkerKnown, Connected
<1>4. WorkerKnown'
  BY <1>1, NullAssumption DEF StopWorker, Tell, WorkerKnown, TypeOK, Queued
<1>5. DoneIsEmpty'
  BY <1>1, NullAssumption DEF StopWorker, Tell, DoneIsEmpty, Running, Connected, Alive, TypeOK, OwnerTask, WorkerKnown, OneOwner, Living, Queued
<1>6. ActiveIsSent'
  BY <1>1, NullAssumption DEF StopWorker, Tell, ActiveIsSent, TypeOK, OwnerTask, Alive
<1>7. WaitingHeld'
  BY <1>1, NullAssumption DEF StopWorker, Tell, WaitingHeld, Queued, TypeOK, OwnerTask, ActiveIsSent, OneOwner, Living, Alive, WorkerKnown, Running, Told
<1>8. QueuedUnsent'
  BY <1>1, NullAssumption DEF StopWorker, Tell, QueuedUnsent, Queued, TypeOK, UnsentIsTrue, Told
<1>9. UnsentIsTrue'
  BY <1>1, NullAssumption DEF StopWorker, Tell, UnsentIsTrue, TypeOK, QueuedUnsent, Queued, ActiveIsSent, OwnerTask, Told
<1>10. QED
  BY <1>2, <1>3, <1>4, <1>5, <1>6, <1>7, <1>8, <1>9 DEF TransportInv

(* Every step of connect and disconnect is one of the two above, an end of
   the operation, or touches only its own state. *)
LEMMA ConnectInv ==
    ASSUME TransportInv, Connect
    PROVE  TransportInv'
<1>1. [NoOp EXCEPT !.connects = TRUE] \in Op
  BY DEF NoOp, Op, Waits
<1>2. CASE worker # None
  BY <1>1, <1>2, StopWorkerInv DEF Connect
<1>3. CASE worker = None
  <2>1. Create([NoOp EXCEPT !.connects = TRUE])
    BY <1>3 DEF Connect
  <2>2. PICK g \in Gen : NextOwner(g) /\ owner' = [owner EXCEPT ![g].pc = "opening"] /\ worker' = g
    BY <2>1 DEF Create
  <2>3. op' \in Op
    BY <2>1 DEF Create, NoOp, Op
  <2>4. queue = None /\ ~Running
    BY <1>3 DEF TransportInv, WorkerKnown, Running
  <2>5. connected' \in BOOLEAN /\ accepting' \in BOOLEAN
    BY <2>1 DEF Create, TransportInv, TypeOK
  <2>6. QED
    BY <2>1, <2>2, <2>3, <2>4, <2>5, CreateInv DEF Create
<1>4. QED
  BY <1>2, <1>3

LEMMA DisconnectInv ==
    ASSUME TransportInv, Disconnect
    PROVE  TransportInv'
<1>1. CASE worker # None
  <2>1. NoOp \in Op
    BY DEF NoOp, Op
  <2>2. QED
    BY <1>1, <2>1, StopWorkerInv DEF Disconnect
<1>2. CASE worker = None
  BY <1>2 DEF Disconnect, TransportInv, TypeOK, OneOwner, WorkerKnown, DoneIsEmpty, ActiveIsSent, WaitingHeld, QueuedUnsent,
    UnsentIsTrue, Living, Alive, Running, Queued
<1>3. QED
  BY <1>1, <1>2

LEMMA GraceOverInv ==
    ASSUME TransportInv, GraceOver
    PROVE  TransportInv'
<1>1. worker \in Gen /\ owner' = [owner EXCEPT ![worker].cancelled = TRUE]
  BY DEF GraceOver, Running, TransportInv, TypeOK
<1>2. owner' \in [Gen -> OwnerTask] /\ op' \in Op
  <2>1. owner' \in [Gen -> OwnerTask]
    BY <1>1 DEF TransportInv, TypeOK, OwnerTask
  <2>2. op' = [op EXCEPT !.pc = "cancelling"] /\ op \in Op
    BY DEF GraceOver, Goto, TransportInv, TypeOK
  <2>3. QED
    BY <2>1, <2>2 DEF Op, Waits
<1>3. \A g \in Gen : owner'[g].pc = owner[g].pc /\ owner'[g].active = owner[g].active
  BY <1>1 DEF TransportInv, TypeOK, OwnerTask
<1>4. UNCHANGED <<ready, worker, connected, accepting, queue, marker, future, sent>> /\ worker # None
  BY DEF GraceOver, Running
<1>5. QED
  BY <1>1, <1>2, <1>3, <1>4 DEF TransportInv, TypeOK, OneOwner, WorkerKnown, DoneIsEmpty, ActiveIsSent, WaitingHeld, QueuedUnsent,
    UnsentIsTrue, Living, Alive, Running, Queued

LEMMA CancelOverInv ==
    ASSUME TransportInv, CancelOver
    PROVE  TransportInv'
<1>1. op' \in Op /\ op'.pc = "none"
  BY DEF CancelOver, NoOp, Op
<1>2. UNCHANGED <<owner, ready, worker, connected, accepting, queue, marker, future, sent>>
  BY DEF CancelOver
<1>3. QED
  BY <1>1, <1>2 DEF TransportInv, TypeOK, OneOwner, WorkerKnown, DoneIsEmpty, ActiveIsSent, WaitingHeld, QueuedUnsent,
    UnsentIsTrue, Living, Alive, Running, Queued

LEMMA FinishInv ==
    ASSUME TransportInv, Finish
    PROVE  TransportInv'
<1>1. worker # None /\ worker \in Gen /\ queue = {} /\ ~Running
  BY DEF Finish, TransportInv, TypeOK, WorkerKnown, DoneIsEmpty, Waits
<1>2. CASE op.connects /\ ~op.failing /\ ~owner[worker].broken
  <2>1. PICK g \in Gen : NextOwner(g) /\ owner' = [owner EXCEPT ![g].pc = "opening"] /\ worker' = g
    BY <1>2 DEF Finish
  <2>2. op' \in Op
    BY <1>2 DEF Finish, Goto, TransportInv, TypeOK, Op
  <2>3. QED
    BY <1>1, <1>2, <2>1, <2>2, CreateInv DEF Finish
<1>3. CASE ~(op.connects /\ ~op.failing /\ ~owner[worker].broken)
  <2>1. owner' = owner /\ worker' = None /\ queue' = None /\ op' = NoOp
    BY <1>3 DEF Finish
  <2>2. UNCHANGED <<ready, future, sent>> /\ connected' = FALSE /\ accepting' = FALSE /\ marker' = FALSE
    BY DEF Finish
  <2>3. Living = {}
    BY <1>1 DEF TransportInv, OneOwner, Living, Running
  <2>4. \A r \in Call : future[r] # "waiting"
    BY <1>1, NullAssumption DEF TransportInv, WaitingHeld, ActiveIsSent, Running, Alive, Queued
  <2>5. TypeOK'
    BY <2>1, <2>2 DEF TransportInv, TypeOK, NoOp, Op
  <2>6. QED
    BY <2>1, <2>2, <2>3, <2>4, <2>5 DEF TransportInv, OneOwner, WorkerKnown, DoneIsEmpty, ActiveIsSent,
       WaitingHeld, QueuedUnsent, UnsentIsTrue, Living, Queued, NoOp
<1>4. QED
  BY <1>2, <1>3

LEMMA ReadyKnownInv ==
    ASSUME TransportInv, ReadyKnown
    PROVE  TransportInv'
<1>1. worker # None
  BY DEF ReadyKnown, TransportInv, WorkerKnown
<1>2. CASE ready[worker] = "set"
  <2>1. op' \in Op /\ op'.pc = "none"
    <3>1. op' = NoOp
      BY <1>2 DEF ReadyKnown
    <3>2. QED
      BY <3>1 DEF NoOp, Op
  <2>2. UNCHANGED <<owner, ready, worker, connected, accepting, queue, marker, future, sent>>
    BY <1>2 DEF ReadyKnown
  <2>3. QED
    BY <2>1, <2>2 DEF TransportInv, TypeOK, OneOwner, WorkerKnown, DoneIsEmpty, ActiveIsSent, WaitingHeld, QueuedUnsent,
    UnsentIsTrue, Living, Alive, Running, Queued
<1>3. CASE ready[worker] # "set"
  <2>1. [op EXCEPT !.failing = TRUE] \in Op
    BY DEF TransportInv, TypeOK, Op
  <2>2. QED
    BY <1>1, <1>3, <2>1, StopWorkerInv DEF ReadyKnown
<1>4. QED
  BY <1>2, <1>3

LEMMA CancelOpInv ==
    ASSUME TransportInv, CancelOp
    PROVE  TransportInv'
<1>1. UNCHANGED <<owner, worker, connected, accepting, queue, marker, future, sent>>
  BY DEF CancelOp
<1>2. op' \in Op /\ worker # None
  <2>1. op \in Op /\ (op.pc = "ready" \/ op.pc \in Waits)
    BY DEF CancelOp, TransportInv, TypeOK
  <2>2. worker # None
    BY <2>1 DEF TransportInv, WorkerKnown, Waits
  <2>3. op' = NoOp \/ op' = [op EXCEPT !.pc = "abandon"]
    BY DEF CancelOp, Goto
  <2>4. NoOp \in Op
    BY DEF NoOp, Op
  <2>5. [op EXCEPT !.pc = "abandon"] \in Op
    BY <2>1 DEF Op
  <2>6. QED
    BY <2>2, <2>3, <2>4, <2>5
<1>3. ready' \in [Gen -> {"pending", "set", "failed", "cancelled"}]
  BY DEF CancelOp, TransportInv, TypeOK
<1>4. QED
  BY <1>1, <1>2, <1>3 DEF TransportInv, TypeOK, OneOwner, WorkerKnown, DoneIsEmpty, ActiveIsSent, WaitingHeld, QueuedUnsent,
    UnsentIsTrue, Living, Alive, Running, Queued

LEMMA AbandonInv ==
    ASSUME TransportInv, Abandon
    PROVE  TransportInv'
<1>1. [op EXCEPT !.failing = TRUE] \in Op /\ worker # None
  BY DEF Abandon, TransportInv, TypeOK, WorkerKnown, Op
<1>2. QED
  BY <1>1, StopWorkerInv DEF Abandon

-----------------------------------------------------------------------------
(* The theorems *)

LEMMA StepInv == TransportInv /\ [Next]_vars => TransportInv'
<1> SUFFICES ASSUME TransportInv, [Next]_vars PROVE TransportInv'
  OBVIOUS
<1>1. ASSUME NEW r \in Call, Submit(r) \/ GiveUp(r) PROVE TransportInv'
  BY <1>1, SubmitInv, GiveUpInv
<1>2. ASSUME NEW g \in Gen, OwnerStep(g) PROVE TransportInv'
  BY <1>2, OpenedInv, TakeMarkerInv, TakeInv, CallEndsInv, InterruptedInv, ClosedInv DEF OwnerStep
<1>3. CASE Connect \/ Disconnect \/ CancelOp
  BY <1>3, ConnectInv, DisconnectInv, CancelOpInv
<1>4. CASE OpStep
  BY <1>4, GraceOverInv, CancelOverInv, FinishInv, ReadyKnownInv, AbandonInv DEF OpStep
<1>5. CASE UNCHANGED vars
  BY <1>5 DEF vars, TransportInv, TypeOK, OneOwner, WorkerKnown, DoneIsEmpty, ActiveIsSent, WaitingHeld, QueuedUnsent,
    UnsentIsTrue, Living, Alive, Running, Queued
<1>6. QED
  BY <1>1, <1>2, <1>3, <1>4, <1>5 DEF Next

(* The invariant that the others follow from. *)
THEOREM TransportInvariant == Spec => []TransportInv
BY InitInv, StepInv, PTL DEF Spec

(* The transport's state keeps its types. *)
THEOREM TransportTypeCorrect == Spec => []TypeOK
<1>1. TransportInv => TypeOK
  BY DEF TransportInv
<1>2. QED
  BY <1>1, TransportInvariant, PTL

(* Reconnect cannot start a second owner of the session: connect and
   disconnect, cancelled or out of time, never leave an owner that they
   forgot. *)
THEOREM OneOwnerAtATime == Spec => []OneOwner
<1>1. TransportInv => OneOwner
  BY DEF TransportInv
<1>2. QED
  BY <1>1, TransportInvariant, PTL

(* Every waiting caller has a living owner that holds its request, so that
   _session_owner's finally block, at the latest, answers it. *)
THEOREM NobodyIsOrphaned == Spec => []NoOrphans
<1>1. TransportInv => NoOrphans
  <2> SUFFICES ASSUME TransportInv, NEW r \in Call, future[r] = "waiting"
               PROVE  \/ r \in Queued /\ Living # {}
                      \/ \E g \in Living : owner[g].active = r
    BY DEF NoOrphans
  <2>1. CASE r \in Queued
    <3>1. worker # None /\ worker \in Gen /\ Running
      BY <2>1 DEF TransportInv, TypeOK, WorkerKnown, DoneIsEmpty, Queued
    <3>2. QED
      BY <2>1, <3>1 DEF Running, Living
  <2>2. CASE r \notin Queued
    <3>1. worker \in Gen /\ owner[worker].active = r
      BY <2>2 DEF TransportInv, TypeOK, WaitingHeld
    <3>2. owner[worker].pc = "calling"
      BY <3>1, NullAssumption DEF TransportInv, ActiveIsSent
    <3>3. QED
      BY <3>1, <3>2 DEF Living, Alive
  <2>3. QED
    BY <2>1, <2>2
<1>2. QED
  BY <1>1, TransportInvariant, PTL

(* "Queued request was not sent" is said of requests that were not sent, and
   never will be. *)
THEOREM UnsentIsNeverSent == Spec => []UnsentIsTrue
<1>1. TransportInv => UnsentIsTrue
  BY DEF TransportInv
<1>2. QED
  BY <1>1, TransportInvariant, PTL

(* After disconnect nothing of the session is left. *)
THEOREM SeveredStaysQuiet == Spec => []SeveredIsQuiet
<1>1. TransportInv => SeveredIsQuiet
  BY NullAssumption DEF TransportInv, SeveredIsQuiet, OneOwner, WorkerKnown, WaitingHeld, Living, Queued
<1>2. QED
  BY <1>1, TransportInvariant, PTL

(* One session owner at most, and none after a teardown. *)
THEOREM OneQuietOwnerHolds == Spec => []OneQuietOwner
<1> QED
  BY OneOwnerAtATime, SeveredStaysQuiet, PTL DEF OneQuietOwner

=============================================================================
