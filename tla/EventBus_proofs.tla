---------------------------- MODULE EventBus_proofs --------------------------
(***************************************************************************)
(* Theorems about EventBus, for any handlers, subscriptions and events:    *)
(* who is subscribed, and that publish waits for every handler it called   *)
(* and leaves exactly the dead letters of those that threw.                *)
(***************************************************************************)
EXTENDS EventBus, TLAPS

\* Only a subscription that was made can have been cut off.
CutOffMade == \A s \in cutOff : token[s] # "none"

\* The subscriptions that account for the subscribers of type t.
Serving(t) == {s \in Subscription \ cutOff : token[s] = "active" /\ TypeOf[s] = t}

IInv == BusTypeOK /\ CutOffMade /\ SubscribersExact /\ ResolvedAfterAll /\ DeadLettersExact

-----------------------------------------------------------------------------

\* Steps of publications leave the subscriptions as they are.
LEMMA SubscriptionsPersist ==
    ASSUME SubscribersExact, UNCHANGED subscriptionVars
    PROVE  SubscribersExact'
BY DEF SubscribersExact, subscriptionVars

\* Steps of subscriptions leave the publications as they are.
LEMMA PublicationsPersist ==
    ASSUME ResolvedAfterAll, DeadLettersExact, UNCHANGED publicationVars
    PROVE  ResolvedAfterAll' /\ DeadLettersExact'
BY DEF ResolvedAfterAll, DeadLettersExact, running, publicationVars

LEMMA InitInv == BusInit => IInv
<1> SUFFICES ASSUME BusInit PROVE IInv
  OBVIOUS
<1>1. BusTypeOK
  BY DEF BusInit, BusTypeOK
<1>2. SubscribersExact
  BY DEF BusInit, SubscribersExact
<1>3. ResolvedAfterAll /\ DeadLettersExact
  BY DEF BusInit, ResolvedAfterAll, DeadLettersExact
<1> QED BY <1>1, <1>2, <1>3 DEF IInv, BusInit, CutOffMade

\* SubscribersExact, one handler at a time.
LEMMA ExactMeans ==
    SubscribersExact <=>
        \A t \in EventType : /\ \A s \in Serving(t) : HandlerOf[s] \in subscribers[t]
                             /\ \A h \in subscribers[t] : \E s \in Serving(t) : h = HandlerOf[s]
BY DEF SubscribersExact, Serving

LEMMA ExactMeansNext ==
    SubscribersExact' <=>
        \A t \in EventType : /\ \A s \in Serving(t)' : HandlerOf[s] \in subscribers'[t]
                             /\ \A h \in subscribers'[t] : \E s \in Serving(t)' : h = HandlerOf[s]
BY DEF SubscribersExact, Serving

LEMMA SubscribeInv ==
    ASSUME IInv, NEW s \in Subscription, subscribe(s)
    PROVE  IInv'
<1>1. BusTypeOK'
  <2>1. HandlerOf[s] \in EventHandler /\ TypeOf[s] \in EventType
    BY BusAssumption
  <2>2. subscribers' \in [EventType -> SUBSET EventHandler]
    BY <2>1 DEF IInv, BusTypeOK, subscribe
  <2> QED BY <2>2 DEF IInv, BusTypeOK, subscribe, publicationVars
<1>2. CutOffMade'
  BY DEF IInv, BusTypeOK, CutOffMade, subscribe
<1>3. \A t \in EventType : Serving(t)' = IF t = TypeOf[s] THEN Serving(t) \cup {s} ELSE Serving(t)
  BY DEF IInv, BusTypeOK, CutOffMade, subscribe, Serving
<1>4. \A t \in EventType :
        subscribers'[t] = IF t = TypeOf[s] THEN subscribers[t] \cup {HandlerOf[s]} ELSE subscribers[t]
  BY DEF IInv, BusTypeOK, subscribe
<1>5. SubscribersExact'
  <2> SUFFICES ASSUME NEW t \in EventType
               PROVE  /\ \A r \in Serving(t)' : HandlerOf[r] \in subscribers'[t]
                      /\ \A h \in subscribers'[t] : \E r \in Serving(t)' : h = HandlerOf[r]
    BY ExactMeansNext
  <2>1. /\ \A r \in Serving(t) : HandlerOf[r] \in subscribers[t]
        /\ \A h \in subscribers[t] : \E r \in Serving(t) : h = HandlerOf[r]
    BY ExactMeans DEF IInv
  <2> HIDE DEF Serving
  <2>2. CASE t = TypeOf[s]
    <3>1. Serving(t)' = Serving(t) \cup {s} /\ subscribers'[t] = subscribers[t] \cup {HandlerOf[s]}
      BY <1>3, <1>4, <2>2
    <3> QED BY <2>1, <3>1
  <2>3. CASE t # TypeOf[s]
    <3>1. Serving(t)' = Serving(t) /\ subscribers'[t] = subscribers[t]
      BY <1>3, <1>4, <2>3
    <3> QED BY <2>1, <3>1
  <2> QED BY <2>2, <2>3
<1> QED BY <1>1, <1>2, <1>5, PublicationsPersist DEF IInv, subscribe

LEMMA UnsubscribeInv ==
    ASSUME IInv, NEW s \in Subscription, Unsubscribe(s)
    PROVE  IInv'
<1>1. CASE token[s] = "removed"
  BY <1>1, SubscriptionsPersist, PublicationsPersist
  DEF Unsubscribe, IInv, BusTypeOK, CutOffMade, subscriptionVars, publicationVars
<1>2. CASE token[s] # "removed"
  <2>1. /\ token' = [token EXCEPT ![s] = "removed"]
        /\ subscribers' = [subscribers EXCEPT ![TypeOf[s]] = @ \ {HandlerOf[s]}]
        /\ cutOff' = cutOff \cup sharing(s)
        /\ UNCHANGED publicationVars
    BY <1>2 DEF Unsubscribe
  <2>2. BusTypeOK'
    BY <2>1, BusAssumption DEF IInv, BusTypeOK, sharing, publicationVars
  <2>3. CutOffMade'
    BY <2>1 DEF IInv, BusTypeOK, CutOffMade, sharing
  <2>4. \A t \in EventType : \A r : r \in Serving(t)' <=>
            /\ r \in Serving(t) /\ r # s
            /\ ~ (t = TypeOf[s] /\ HandlerOf[r] = HandlerOf[s])
    BY <2>1 DEF IInv, BusTypeOK, Serving, sharing
  <2>5. \A t \in EventType :
          subscribers'[t] = IF t = TypeOf[s] THEN subscribers[t] \ {HandlerOf[s]} ELSE subscribers[t]
    BY <2>1 DEF IInv, BusTypeOK
  <2>6. \A t \in EventType : s \in Serving(t) => t = TypeOf[s]
    BY DEF Serving
  <2>7. SubscribersExact'
    <3> SUFFICES ASSUME NEW t \in EventType
                 PROVE  /\ \A r \in Serving(t)' : HandlerOf[r] \in subscribers'[t]
                        /\ \A h \in subscribers'[t] : \E r \in Serving(t)' : h = HandlerOf[r]
      BY ExactMeansNext
    <3>1. /\ \A r \in Serving(t) : HandlerOf[r] \in subscribers[t]
          /\ \A h \in subscribers[t] : \E r \in Serving(t) : h = HandlerOf[r]
      BY ExactMeans DEF IInv
    <3>2. ASSUME NEW r \in Serving(t)' PROVE HandlerOf[r] \in subscribers'[t]
      <4>1. r \in Serving(t) /\ ~ (t = TypeOf[s] /\ HandlerOf[r] = HandlerOf[s])
        BY <2>4
      <4>2. HandlerOf[r] \in subscribers[t]
        BY <3>1, <4>1
      <4> QED BY <2>5, <4>1, <4>2
    <3>3. ASSUME NEW h \in subscribers'[t] PROVE \E r \in Serving(t)' : h = HandlerOf[r]
      <4>1. h \in subscribers[t] /\ ~ (t = TypeOf[s] /\ h = HandlerOf[s])
        BY <2>5
      <4>2. PICK r \in Serving(t) : h = HandlerOf[r]
        BY <3>1, <4>1
      <4>3. r # s
        BY <2>6, <4>1, <4>2
      <4> QED BY <2>4, <4>1, <4>2, <4>3
    <3> QED BY <3>2, <3>3
  <2> QED BY <2>1, <2>2, <2>3, <2>7, PublicationsPersist DEF IInv
<1> QED BY <1>1, <1>2

-----------------------------------------------------------------------------

LEMMA PublishInv ==
    ASSUME IInv, NEW p \in Publication, publish(p)
    PROVE  IInv'
<1>1. BusTypeOK'
  BY DEF IInv, BusTypeOK, publish, subscriptionVars
<1>2. ResolvedAfterAll'
  BY DEF IInv, BusTypeOK, ResolvedAfterAll, running, publish
<1>3. DeadLettersExact'
  <2>1. \A q \in Publication, h \in EventHandler : call'[q][h] = "threw" <=> call[q][h] = "threw"
    BY DEF IInv, BusTypeOK, publish
  <2> QED BY <2>1 DEF IInv, DeadLettersExact, publish
<1>4. SubscribersExact' /\ CutOffMade'
  BY SubscriptionsPersist DEF IInv, publish, CutOffMade, subscriptionVars
<1> QED BY <1>1, <1>2, <1>3, <1>4 DEF IInv

\* What the two ways a handler settles have in common.
LEMMA SettleInv ==
    ASSUME IInv, NEW p \in Publication, NEW h \in EventHandler, call[p][h] = "running",
           NEW v \in {"fulfilled", "threw"}, call' = [call EXCEPT ![p][h] = v],
           UNCHANGED <<published, promise, subscriptionVars>>
    PROVE  /\ call' \in [Publication -> [EventHandler -> {"none", "running", "fulfilled", "threw"}]]
           /\ \A q \in Publication, k \in EventHandler :
                call'[q][k] = IF q = p /\ k = h THEN v ELSE call[q][k]
           /\ promise[p] # "none"
           /\ ResolvedAfterAll' /\ SubscribersExact' /\ CutOffMade'
<1>1. /\ call' \in [Publication -> [EventHandler -> {"none", "running", "fulfilled", "threw"}]]
      /\ \A q \in Publication, k \in EventHandler :
            call'[q][k] = IF q = p /\ k = h THEN v ELSE call[q][k]
  BY DEF IInv, BusTypeOK
<1>2. promise[p] # "none"
  BY DEF IInv, BusTypeOK
<1>3. ResolvedAfterAll'
  BY <1>1 DEF IInv, ResolvedAfterAll, running
<1>4. SubscribersExact' /\ CutOffMade'
  BY SubscriptionsPersist DEF IInv, CutOffMade, subscriptionVars
<1> QED BY <1>1, <1>2, <1>3, <1>4

LEMMA FulfilsInv ==
    ASSUME IInv, NEW p \in Publication, NEW h \in EventHandler, HandlerFulfils(p, h)
    PROVE  IInv'
<1>1. /\ call[p][h] = "running"
      /\ call' = [call EXCEPT ![p][h] = "fulfilled"]
      /\ UNCHANGED <<published, promise, deadLetter, subscriptionVars>>
  BY DEF HandlerFulfils
<1>2. /\ call' \in [Publication -> [EventHandler -> {"none", "running", "fulfilled", "threw"}]]
      /\ \A q \in Publication, k \in EventHandler :
            call'[q][k] = IF q = p /\ k = h THEN "fulfilled" ELSE call[q][k]
      /\ promise[p] # "none"
      /\ ResolvedAfterAll' /\ SubscribersExact' /\ CutOffMade'
  BY <1>1, SettleInv
<1>3. BusTypeOK'
  BY <1>1, <1>2 DEF IInv, BusTypeOK, subscriptionVars
<1>4. DeadLettersExact'
  BY <1>1, <1>2 DEF IInv, DeadLettersExact
<1> QED BY <1>2, <1>3, <1>4 DEF IInv

LEMMA ThrowsInv ==
    ASSUME IInv, NEW p \in Publication, NEW h \in EventHandler, HandlerThrows(p, h)
    PROVE  IInv'
<1> DEFINE e == [event |-> p, error |-> h]
           Letter == [event : Publication, error : EventHandler]
<1>1. /\ call[p][h] = "running"
      /\ call' = [call EXCEPT ![p][h] = "threw"]
      /\ deadLetter' = Append(deadLetter, e)
      /\ UNCHANGED <<published, promise, subscriptionVars>>
  BY DEF HandlerThrows
<1>2. /\ call' \in [Publication -> [EventHandler -> {"none", "running", "fulfilled", "threw"}]]
      /\ \A q \in Publication, k \in EventHandler :
            call'[q][k] = IF q = p /\ k = h THEN "threw" ELSE call[q][k]
      /\ promise[p] # "none"
      /\ ResolvedAfterAll' /\ SubscribersExact' /\ CutOffMade'
  BY <1>1, SettleInv
<1>3. e \in Letter /\ deadLetter \in Seq(Letter)
  BY DEF IInv, BusTypeOK
<1>4. deadLetter' \in Seq(Letter)
  BY <1>1, <1>3
<1>5. BusTypeOK'
  BY <1>1, <1>2, <1>4 DEF IInv, BusTypeOK, subscriptionVars
<1>6. /\ DOMAIN deadLetter' = DOMAIN deadLetter \cup {Len(deadLetter) + 1}
      /\ Len(deadLetter) + 1 \notin DOMAIN deadLetter
      /\ deadLetter'[Len(deadLetter) + 1] = e
      /\ \A i \in DOMAIN deadLetter : deadLetter'[i] = deadLetter[i]
  BY <1>1, <1>3
<1>7. \A i \in DOMAIN deadLetter : deadLetter[i] # e
  BY <1>1 DEF IInv, DeadLettersExact
<1>8. \A q \in Publication, k \in EventHandler :
        [event |-> q, error |-> k] = e <=> q = p /\ k = h
  OBVIOUS
<1>9. DeadLettersExact'
  <2>1. \A i, j \in DOMAIN deadLetter' : deadLetter'[i] = deadLetter'[j] => i = j
    <3> HIDE DEF e
    <3> QED BY <1>6, <1>7 DEF IInv, DeadLettersExact
  <2>2. ASSUME NEW q \in Publication, NEW k \in EventHandler
        PROVE  call'[q][k] = "threw" <=>
                 \E i \in DOMAIN deadLetter' : [event |-> q, error |-> k] = deadLetter'[i]
    <3>1. call[q][k] = "threw" <=>
            \E i \in DOMAIN deadLetter : [event |-> q, error |-> k] = deadLetter[i]
      BY DEF IInv, DeadLettersExact
    <3>2. (\E i \in DOMAIN deadLetter' : [event |-> q, error |-> k] = deadLetter'[i]) <=>
            \/ \E i \in DOMAIN deadLetter : [event |-> q, error |-> k] = deadLetter[i]
            \/ [event |-> q, error |-> k] = e
      BY <1>6
    <3> QED BY <1>2, <1>8, <3>1, <3>2
  <2> QED BY <2>1, <2>2 DEF DeadLettersExact
<1> QED BY <1>2, <1>5, <1>9 DEF IInv

LEMMA ResolveInv ==
    ASSUME IInv, NEW p \in Publication, Resolve(p)
    PROVE  IInv'
<1>1. BusTypeOK'
  BY DEF IInv, BusTypeOK, Resolve, subscriptionVars
<1>2. ResolvedAfterAll'
  BY DEF IInv, BusTypeOK, ResolvedAfterAll, Resolve, running
<1>3. DeadLettersExact'
  BY DEF IInv, DeadLettersExact, Resolve
<1>4. SubscribersExact' /\ CutOffMade'
  BY SubscriptionsPersist DEF IInv, Resolve, CutOffMade, subscriptionVars
<1> QED BY <1>1, <1>2, <1>3, <1>4 DEF IInv

LEMMA StepInv == IInv /\ [BusNext]_busVars => IInv'
<1> SUFFICES ASSUME IInv, [BusNext]_busVars PROVE IInv'
  OBVIOUS
<1>1. ASSUME NEW s \in Subscription, subscribe(s) \/ Unsubscribe(s) PROVE IInv'
  BY <1>1, SubscribeInv, UnsubscribeInv
<1>2. ASSUME NEW p \in Publication, publish(p) \/ Resolve(p) PROVE IInv'
  BY <1>2, PublishInv, ResolveInv
<1>3. ASSUME NEW p \in Publication, NEW h \in EventHandler, HandlerSettles(p, h) PROVE IInv'
  BY <1>3, FulfilsInv, ThrowsInv DEF HandlerSettles
<1>4. CASE UNCHANGED busVars
  BY <1>4, SubscriptionsPersist, PublicationsPersist
  DEF busVars, IInv, BusTypeOK, CutOffMade, subscriptionVars, publicationVars
<1> QED BY <1>1, <1>2, <1>3, <1>4 DEF BusNext

-------------------------------- (* theorems *) -----------------------------

\* The inductive invariant holds of every behaviour.
THEOREM Invariance == BusSpec => []IInv
BY InitInv, StepInv, PTL DEF BusSpec

\* The state has its types (BusTypeOK).
THEOREM TypeCorrect == BusSpec => []BusTypeOK
<1>1. IInv => BusTypeOK
  BY DEF IInv
<1> QED BY <1>1, Invariance, PTL

\* However often Unsubscribe is called, the subscribers of a type are the
\* handlers of its active subscriptions that were not cut off.
THEOREM SubscribersAreExact == BusSpec => []SubscribersExact
<1>1. IInv => SubscribersExact
  BY DEF IInv
<1> QED BY <1>1, Invariance, PTL

\* publish does not resolve before all handlers it called have settled.
THEOREM PublishWaitsForAll == BusSpec => []ResolvedAfterAll
<1>1. IInv => ResolvedAfterAll
  BY DEF IInv
<1> QED BY <1>1, Invariance, PTL

\* The array deadLetter holds every call that threw, once, and nothing else.
THEOREM DeadLettersAreExact == BusSpec => []DeadLettersExact
<1>1. IInv => DeadLettersExact
  BY DEF IInv
<1> QED BY <1>1, Invariance, PTL

=============================================================================
