------------------------------ MODULE CryptoRoute -----------------------------
(***************************************************************************)
(* The crypto side of the broker object (broker/crypto.py): previews that  *)
(* live for a few seconds, a placement that uses one up, a cancellation,   *)
(* and the connection (broker/robinhood_transport.py) whose end makes the  *)
(* previews void.                                                          *)
(*                                                                         *)
(* One lock serialises the operations, so at most one is between two       *)
(* awaits; a caller that waits for the lock has read nothing yet.  Each    *)
(* action below is the arrival of one answer and everything up to the next *)
(* call.  Rules, funds and amounts are one refusal: Abandon.  Nothing of   *)
(* this survives the process: the source leaves a durable journal to a     *)
(* future coordinator.                                                     *)
(***************************************************************************)
EXTENDS Integers, FiniteSets

CONSTANTS
    Intent,     \* the references of order intents
    Binding,    \* [rhs, rhc]: what the broker may say of the selected account
    Identity,   \* the account identities a response may carry
    Life,       \* how long a preview may be used
    MaxTime, MaxLinks, MaxReviews,
    None

CryptoAssumption ==
    /\ Life \in Nat /\ MaxTime \in Nat /\ MaxLinks \in Nat \ {0} /\ MaxReviews \in Nat
    /\ None \notin Binding \cup Identity

VARIABLES
    link,       \* the connection: its number, and up, closing or down
    account,    \* the binding the broker gives; None: not the one eligible account
    adapter,    \* _reviews, _sent_refs and _account_ids
    op,         \* the operation that holds the lock
    book,       \* the broker's orders by reference
    issued,     \* history: every preview returned
    requests,   \* history: every placement given to the connection
    now

vars == <<link, account, adapter, op, book, issued, requests, now>>

NoReviews == [i \in Intent |-> None]

Init ==
    /\ link = [number |-> 1, phase |-> "up"]
    /\ account \in Binding
    /\ adapter = [reviews |-> NoReviews, sent |-> {}, pin |-> [r \in {b.rhs : b \in Binding} |-> None]]
    /\ op = None /\ book = [i \in Intent |-> "none"]
    /\ issued = {} /\ requests = {} /\ now = 0

(* The answer awaited by the operation is there: its connection still stands. *)
Answered(step) ==
    op # None /\ op.step = step /\ op.link = link.number /\ link.phase # "down"

(* The next call: refused at once when the connection no longer takes calls. *)
Onward(o, step) ==
    op' = IF link.phase = "up" THEN [o EXCEPT !.step = step] ELSE None

(* _pin: every response names the identity already known for the account. *)
Agrees(identity) == adapter.pin[op.binding.rhs] \in {None, identity}
Pinned(identity) == [adapter EXCEPT !.pin[op.binding.rhs] = identity]

-----------------------------------------------------------------------------
Entered(kind, i, review) ==
    /\ op = None /\ link.phase = "up"
    /\ op' = [kind |-> kind, intent |-> i, review |-> review, step |-> "account",
              link |-> link.number, binding |-> None, identity |-> None, at |-> 0]
    /\ UNCHANGED <<link, account, adapter, book, issued, requests, now>>

Preview(i) == i \notin adapter.sent /\ Entered("preview", i, None)

Unused(r) == adapter.reviews[r.intent] = r

Place(r) == Unused(r) /\ r.intent \notin adapter.sent /\ Entered("place", r.intent, r)

Cancel(i) == Entered("cancel", i, None)

(* The account read first must be the one the preview was made for. *)
AccountRead ==
    /\ Answered("account") /\ account # None
    /\ op.kind = "place" => account = op.review.binding
    /\ Onward([op EXCEPT !.binding = account],
              CASE op.kind = "preview" -> "preview" [] op.kind = "place" -> "funds" [] OTHER -> "order")
    /\ UNCHANGED <<link, account, adapter, book, issued, requests, now>>

(* The provider's preview: its time of arrival counts from here. *)
PreviewRead(identity) ==
    /\ Answered("preview") /\ Agrees(identity)
    /\ adapter' = Pinned(identity)
    /\ Onward([op EXCEPT !.identity = identity, !.at = now], "cover")
    /\ UNCHANGED <<link, account, book, issued, requests, now>>

Live(r) == r # None /\ now - r.at \in 0..Life

(* Funds cover the preview: it is kept, and those gone stale are dropped. *)
Reviewed ==
    LET review == [intent |-> op.intent, binding |-> op.binding, identity |-> op.identity,
                   at |-> op.at, link |-> op.link, serial |-> Cardinality(issued)]
        kept == [i \in Intent |-> IF Live(adapter.reviews[i]) THEN adapter.reviews[i] ELSE None]
    IN  /\ Answered("cover") /\ Cardinality(issued) < MaxReviews
        /\ adapter' = [adapter EXCEPT !.reviews = [kept EXCEPT ![op.intent] = review]]
        /\ issued' = issued \cup {review}
        /\ op' = None
        /\ UNCHANGED <<link, account, book, requests, now>>

Placement ==
    [intent |-> op.intent, review |-> op.review,
     binding |-> op.binding, link |-> link.number, at |-> now]

(* Mutant: the reference is used up by the answer, not by the dispatch. *)
ConsumedLate == [adapter EXCEPT !.reviews[op.intent] = None]

Consumed == [adapter EXCEPT !.sent = @ \cup {op.intent}, !.reviews[op.intent] = None]

(* Preflight is over.  The reference is used up before the call; a call the
   connection refuses leaves an outcome reported as unknown all the same. *)
Dispatch ==
    /\ Answered("funds")
    /\ Live(op.review) /\ Unused(op.review)
    /\ adapter' = Consumed
    /\ requests' = IF link.phase = "up" THEN requests \cup {Placement} ELSE requests
    /\ Onward(op, "sent")
    /\ UNCHANGED <<link, account, book, issued, now>>

(* An order row that echoes the intent and its reference. *)
Placed(identity) ==
    /\ Answered("sent") /\ op.kind = "place" /\ book[op.intent] # "none" /\ Agrees(identity)
    /\ adapter' = Pinned(identity) /\ op' = None
    /\ UNCHANGED <<link, account, book, issued, requests, now>>

(* One open order of this account under that id, else nothing is asked. *)
OrderRead(identity) ==
    /\ Answered("order") /\ book[op.intent] = "open" /\ Agrees(identity)
    /\ adapter' = Pinned(identity)
    /\ Onward(op, "sent")
    /\ UNCHANGED <<link, account, book, issued, requests, now>>

CancelAccepted ==
    /\ Answered("sent") /\ op.kind = "cancel" /\ op' = None
    /\ UNCHANGED <<link, account, adapter, book, issued, requests, now>>

(* A refusal, a wrong echo, a timeout, a lost connection, or a caller that
   stops waiting: the lock is free again.  Once sent the outcome is unknown. *)
Abandon ==
    /\ op # None /\ op' = None
    /\ UNCHANGED <<link, account, adapter, book, issued, requests, now>>

-----------------------------------------------------------------------------
(* Mutant: a reconnect forgets what was sent. *)
Forgotten == [adapter EXCEPT !.reviews = NoReviews, !.sent = {}]

Invalidated == [adapter EXCEPT !.reviews = NoReviews]

(* disconnect: previews are void, new calls refused, the one in flight may end. *)
Disconnect ==
    /\ link.phase = "up" /\ link' = [link EXCEPT !.phase = "closing"]
    /\ adapter' = Invalidated
    /\ UNCHANGED <<account, op, book, issued, requests, now>>

(* Mutant: only a call of disconnect makes previews void. *)
NoCleanup == adapter

OwnerCleanup == Invalidated

(* The connection's owner ends, asked or by itself. *)
Down ==
    /\ link.phase # "down" /\ link' = [link EXCEPT !.phase = "down"]
    /\ adapter' = OwnerCleanup
    /\ UNCHANGED <<account, op, book, issued, requests, now>>

Reconnect ==
    /\ link.phase = "down" /\ link.number < MaxLinks
    /\ link' = [number |-> link.number + 1, phase |-> "up"]
    /\ UNCHANGED <<account, adapter, op, book, issued, requests, now>>

(* The broker: a placement it received becomes an order, whatever its caller
   was told; orders end; the account's binding changes. *)
BrokerSide ==
    /\ \/ \E r \in requests :
            /\ book[r.intent] = "none" /\ book' = [book EXCEPT ![r.intent] = "open"] /\ UNCHANGED account
       \/ \E i \in Intent :
            book[i] = "open" /\ book' = [book EXCEPT ![i] = "closed"] /\ UNCHANGED account
       \/ account' \in (Binding \cup {None}) \ {account} /\ UNCHANGED book
    /\ UNCHANGED <<link, adapter, op, issued, requests, now>>

Tick ==
    /\ now < MaxTime /\ now' = now + 1
    /\ UNCHANGED <<link, account, adapter, op, book, issued, requests>>

Next ==
    \/ \E i \in Intent : Preview(i) \/ Cancel(i)
    \/ \E r \in issued : Place(r)
    \/ AccountRead
    \/ \E u \in Identity : PreviewRead(u) \/ Placed(u) \/ OrderRead(u)
    \/ Reviewed \/ Dispatch \/ CancelAccepted \/ Abandon
    \/ Disconnect \/ Down \/ Reconnect \/ BrokerSide \/ Tick

Spec == Init /\ [][Next]_vars

-----------------------------------------------------------------------------
(* However calls time out, are abandoned or are cut off by a reconnect, one
   reference is placed at most once and never reviewed again after that. *)
SentOnce ==
    /\ \A r, s \in requests : r.intent = s.intent => r = s
    /\ \A i \in adapter.sent : adapter.reviews[i] = None

(* A placement leaves on the connection, for the account and within the life
   of the preview it uses up. *)
FreshReview ==
    \A r \in requests :
        /\ r.link = r.review.link /\ r.binding = r.review.binding
        /\ r.at - r.review.at \in 0..Life

(* No two previews of an account name different identities, reconnects or not. *)
OneIdentity == \A r, s \in issued : r.binding.rhs = s.binding.rhs => r.identity = s.identity

CryptoKept == SentOnce /\ FreshReview /\ OneIdentity

=============================================================================
