------------------------------- MODULE EventBus ------------------------------
(***************************************************************************)
(* FakeEventBus (app/ports/__fakes__/fake-event-bus.ts).                   *)
(*                                                                         *)
(* publish runs without an await until every handler has been called; then *)
(* it waits for all of them.  Subscribers come and go, and other events    *)
(* are published, while handlers are running.  The handlers are external:  *)
(* each call fulfils or throws, at any later time.                         *)
(***************************************************************************)
EXTENDS Naturals, Sequences

CONSTANTS EventType,
          EventHandler,
          Subscription, \* the calls of subscribe, each with its Unsubscribe
          HandlerOf,    \* the handler it registers
          TypeOf,       \* the event type it registers it for
          Publication,  \* the calls of publish
          EventTypeOf   \* the type of the event it publishes

ASSUME BusAssumption ==
    /\ HandlerOf \in [Subscription -> EventHandler]
    /\ TypeOf \in [Subscription -> EventType]
    /\ EventTypeOf \in [Publication -> EventType]

VARIABLES
    subscribers, \* the map of handler sets
    token,       \* each subscription: not made yet, active, or removed
    published,   \* the array published
    promise,     \* each publication: not made yet, awaiting, or resolved
    call,        \* its call of each handler
    deadLetter,  \* the array deadLetter
    cutOff       \* history: the active subscriptions that shared a handler
                 \* with one that was removed

subscriptionVars == <<subscribers, token, cutOff>>
publicationVars == <<published, promise, call, deadLetter>>
busVars == <<subscriptionVars, publicationVars>>

BusInit == /\ subscribers = [t \in EventType |-> {}]
           /\ token = [s \in Subscription |-> "none"]
           /\ published = <<>>
           /\ promise = [p \in Publication |-> "none"]
           /\ call = [p \in Publication |-> [h \in EventHandler |-> "none"]]
           /\ deadLetter = <<>>
           /\ cutOff = {}

-----------------------------------------------------------------------------

subscribe(s) ==
    /\ token[s] = "none"
    /\ token' = [token EXCEPT ![s] = "active"]
    /\ subscribers' = [subscribers EXCEPT ![TypeOf[s]] = @ \cup {HandlerOf[s]}]
    /\ UNCHANGED <<cutOff, publicationVars>>

sharing(s) == {r \in Subscription \ {s} : /\ token[r] = "active"
                                          /\ HandlerOf[r] = HandlerOf[s]
                                          /\ TypeOf[r] = TypeOf[s]}

\* Mutant of Unsubscribe: without the flag removed, a second call deletes again.
UnsubscribeAgain(s) ==
    /\ token[s] # "none"
    /\ token' = [token EXCEPT ![s] = "removed"]
    /\ subscribers' = [subscribers EXCEPT ![TypeOf[s]] = @ \ {HandlerOf[s]}]
    /\ cutOff' = IF token[s] = "active" THEN cutOff \cup sharing(s) ELSE cutOff
    /\ UNCHANGED publicationVars

\* The closure subscribe returns.  The set of handlers holds a handler once,
\* whoever subscribed it; from the second call on nothing happens.
Unsubscribe(s) ==
    /\ token[s] # "none"
    /\ IF token[s] = "removed" THEN UNCHANGED subscriptionVars
       ELSE /\ token' = [token EXCEPT ![s] = "removed"]
            /\ subscribers' = [subscribers EXCEPT ![TypeOf[s]] = @ \ {HandlerOf[s]}]
            /\ cutOff' = cutOff \cup sharing(s)
    /\ UNCHANGED publicationVars

\* The event is recorded and every handler of the moment is called.
publish(p) ==
    /\ promise[p] = "none"
    /\ published' = Append(published, p)
    /\ promise' = [promise EXCEPT ![p] = "awaiting"]
    /\ call' = [call EXCEPT ![p] =
                  [h \in EventHandler |->
                     IF h \in subscribers[EventTypeOf[p]] THEN "running" ELSE "none"]]
    /\ UNCHANGED <<deadLetter, subscriptionVars>>

HandlerFulfils(p, h) ==
    /\ call[p][h] = "running"
    /\ call' = [call EXCEPT ![p][h] = "fulfilled"]
    /\ UNCHANGED <<published, promise, deadLetter, subscriptionVars>>

\* Mutant of HandlerThrows: the error ends Promise.all, as without the try.
HandlerThrowsUncaught(p, h) ==
    /\ call[p][h] = "running"
    /\ call' = [call EXCEPT ![p][h] = "threw"]
    /\ deadLetter' = Append(deadLetter, [event |-> p, error |-> h])
    /\ promise' = [promise EXCEPT ![p] = "resolved"]
    /\ UNCHANGED <<published, subscriptionVars>>

\* Mutant of HandlerThrows: one dead letter for an event, however many threw.
HandlerThrowsOnce(p, h) ==
    /\ call[p][h] = "running"
    /\ call' = [call EXCEPT ![p][h] = "threw"]
    /\ deadLetter' = IF \E i \in DOMAIN deadLetter : deadLetter[i].event = p
                     THEN deadLetter
                     ELSE Append(deadLetter, [event |-> p, error |-> h])
    /\ UNCHANGED <<published, promise, subscriptionVars>>

\* The error of handler h is caught, next to the call it comes from.
HandlerThrows(p, h) ==
    /\ call[p][h] = "running"
    /\ call' = [call EXCEPT ![p][h] = "threw"]
    /\ deadLetter' = Append(deadLetter, [event |-> p, error |-> h])
    /\ UNCHANGED <<published, promise, subscriptionVars>>

running(p) == {h \in EventHandler : call[p][h] = "running"}

\* Promise.all: every handler has settled, or there was none.
Resolve(p) ==
    /\ promise[p] = "awaiting" /\ running(p) = {}
    /\ promise' = [promise EXCEPT ![p] = "resolved"]
    /\ UNCHANGED <<published, call, deadLetter, subscriptionVars>>

HandlerSettles(p, h) == HandlerFulfils(p, h) \/ HandlerThrows(p, h)

BusNext == \/ \E s \in Subscription : subscribe(s) \/ Unsubscribe(s)
           \/ \E p \in Publication : publish(p) \/ Resolve(p)
           \/ \E p \in Publication, h \in EventHandler : HandlerSettles(p, h)

BusSpec == BusInit /\ [][BusNext]_busVars

------------------------------ (* properties *) -----------------------------

\* Types of the state.  A publication that was not made called nobody.
BusTypeOK ==
    /\ subscribers \in [EventType -> SUBSET EventHandler]
    /\ token \in [Subscription -> {"none", "active", "removed"}]
    /\ published \in Seq(Publication)
    /\ promise \in [Publication -> {"none", "awaiting", "resolved"}]
    /\ call \in [Publication -> [EventHandler -> {"none", "running", "fulfilled", "threw"}]]
    /\ deadLetter \in Seq([event : Publication, error : EventHandler])
    /\ cutOff \subseteq Subscription
    /\ \A p \in Publication : promise[p] = "none" =>
        \A h \in EventHandler : call[p][h] = "none"

\* The subscribers of a type are the handlers of its active subscriptions: one
\* that was removed before, and is removed again, does not take a later one of
\* the same handler with it.  The exception is a handler that several
\* subscriptions share, which the removal of one takes from all of them.
SubscribersExact ==
    \A t \in EventType :
        subscribers[t] = {HandlerOf[s] : s \in {r \in Subscription \ cutOff :
                                                  token[r] = "active" /\ TypeOf[r] = t}}

\* publish resolves only when all handlers it called have settled: one that
\* throws does not make the publisher go on while another is at work.
ResolvedAfterAll ==
    \A p \in Publication : promise[p] = "resolved" => running(p) = {}

\* Every call that threw has its dead letter, exactly one, and no other call
\* has, whatever the order in which handlers of several events settle.
DeadLettersExact ==
    /\ \A p \in Publication, h \in EventHandler :
        call[p][h] = "threw" <=> [event |-> p, error |-> h] \in {deadLetter[i] : i \in DOMAIN deadLetter}
    /\ \A i, j \in DOMAIN deadLetter : deadLetter[i] = deadLetter[j] => i = j

=============================================================================
