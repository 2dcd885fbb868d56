------------------------- MODULE Idempotency_proofs -------------------------
(***************************************************************************)
(* Theorems about Idempotency: one execution at a time per key, none while *)
(* a result is live, and the store implements the port's contract; and     *)
(* that, for fns that do not run their own key nor throw at once, the      *)
(* store taken apart in turns (IdempotencyTurns) implements Idempotency.   *)
(***************************************************************************)
EXTENDS IdempotencyTurns, TLAPS

\* The promise registered for a key was made for that key.
PromisesFiled == \A k \in Key : inflight[k] # NoCall => KeyOf[inflight[k]] = k

\* Whoever joined finds the promise still registered.
JoinersHaveOwner ==
    \A c \in Call : phase[c] = "joined" => inflight[KeyOf[c]] # NoCall

\* A live entry holds a result, and an execution was given a real window.
LiveIsResult == \A k \in Key : Live(k) => cache[k].value \in Result
RunningHasTtl == \A c \in Call : phase[c] = "running" => Ttl[c] > 0

IInv == /\ TypeOK
        /\ OneExecutionPerKey
        /\ NoExecutionInsideWindow
        /\ PromisesFiled
        /\ JoinersHaveOwner
        /\ LiveIsResult
        /\ RunningHasTtl

-----------------------------------------------------------------------------

LEMMA InitInv == Init => IInv
<1> SUFFICES ASSUME Init PROVE IInv
  OBVIOUS
<1>1. TypeOK
  BY DEF Init, TypeOK, Entry, Outcome, Unsettled
<1> QED
  BY <1>1, CallsAssumption
  DEF Init, IInv, OneExecutionPerKey, NoExecutionInsideWindow, PromisesFiled,
      JoinersHaveOwner, LiveIsResult, RunningHasTtl, Live

LEMMA OutcomeTypes ==
    /\ Unsettled \in Outcome
    /\ \A v \in Result : Fulfilled(v) \in Outcome
    /\ \A e \in Failure : Rejected(e) \in Outcome
BY DEF Unsettled, Fulfilled, Rejected, Outcome

\* The invocations a settling promise answers are those waiting on its key.
LEMMA AwaitingIsWaiting ==
    ASSUME IInv, NEW c \in Call, phase[c] = "running"
    PROVE  /\ inflight[KeyOf[c]] = c
           /\ Awaiting(c) = {d \in Call : /\ phase[d] \in {"running", "joined"}
                                          /\ KeyOf[d] = KeyOf[c]}
<1>1. inflight[KeyOf[c]] = c
  BY DEF IInv, OneExecutionPerKey
<1>2. ASSUME NEW d \in Call, phase[d] = "running", KeyOf[d] = KeyOf[c]
      PROVE  d = c
  BY <1>1, <1>2 DEF IInv, OneExecutionPerKey
<1> QED BY <1>1, <1>2 DEF Awaiting

\* A settling promise leaves the key free and nobody waiting on it.
LEMMA SettleInv ==
    ASSUME IInv, NEW c \in Call, NEW o \in Outcome, SettlePromise(c, o), now' = now,
           \/ cache' = cache
           \/ \E v \in Result : cache' = [cache EXCEPT ![KeyOf[c]] =
                                    [expiresAt |-> now + Ttl[c], value |-> v]]
    PROVE  IInv'
<1> DEFINE k == KeyOf[c]
<1>1. /\ c \in Call /\ k \in Key /\ NoCall \notin Call /\ Ttl[c] \in Int
      /\ \A d \in Call : KeyOf[d] \in Key
  BY CallsAssumption
<1>2. /\ phase[c] = "running"
      /\ inflight[k] = c
      /\ Awaiting(c) = {d \in Call : /\ phase[d] \in {"running", "joined"}
                                     /\ KeyOf[d] = k}
  BY AwaitingIsWaiting DEF SettlePromise
<1>3. /\ inflight' = [inflight EXCEPT ![k] = NoCall]
      /\ phase' = [d \in Call |-> IF d \in Awaiting(c) THEN "done" ELSE phase[d]]
      /\ outcome' = [d \in Call |-> IF d \in Awaiting(c) THEN o ELSE outcome[d]]
  BY DEF SettlePromise
<1>4. TypeOK'
  <2>1. cache' \in [Key -> Entry]
    <3>1. CASE cache' = cache
      BY <3>1 DEF IInv, TypeOK
    <3>2. ASSUME NEW v \in Result,
                 cache' = [cache EXCEPT ![k] = [expiresAt |-> now + Ttl[c], value |-> v]]
          PROVE  cache' \in [Key -> Entry]
      <4>1. [expiresAt |-> now + Ttl[c], value |-> v] \in Entry
        BY <1>1 DEF IInv, TypeOK, Entry
      <4> QED BY <1>1, <3>2, <4>1 DEF IInv, TypeOK
    <3> QED BY <3>1, <3>2
  <2> QED BY <1>1, <1>3, <2>1 DEF IInv, TypeOK
<1>5. OneExecutionPerKey'
  <2> SUFFICES ASSUME NEW d \in Call
               PROVE  phase'[d] = "running" <=> inflight'[KeyOf[d]] = d
    BY DEF OneExecutionPerKey
  <2>1. CASE KeyOf[d] = k
    BY <1>1, <1>2, <1>3, <2>1 DEF IInv, TypeOK
  <2>2. CASE KeyOf[d] # k
    BY <1>1, <1>2, <1>3, <2>2 DEF IInv, TypeOK, OneExecutionPerKey
  <2> QED BY <2>1, <2>2
<1>6. \A j \in Key : j # k => (Live(j)' <=> Live(j)) /\ cache'[j] = cache[j]
  BY <1>1 DEF Live, IInv, TypeOK
<1>7. NoExecutionInsideWindow'
  BY <1>1, <1>3, <1>6 DEF NoExecutionInsideWindow, IInv, TypeOK
<1>8. PromisesFiled'
  BY <1>1, <1>3 DEF PromisesFiled, IInv, TypeOK
<1>9. JoinersHaveOwner'
  BY <1>1, <1>2, <1>3 DEF JoinersHaveOwner, IInv, TypeOK
<1>10. LiveIsResult'
  <2>1. Live(k)' => cache'[k].value \in Result
    <3>1. CASE cache' = cache
      BY <1>1, <3>1 DEF Live, IInv, LiveIsResult
    <3>2. ASSUME NEW v \in Result,
                 cache' = [cache EXCEPT ![k] = [expiresAt |-> now + Ttl[c], value |-> v]]
          PROVE  cache'[k].value \in Result
      BY <1>1, <3>2 DEF IInv, TypeOK
    <3> QED BY <3>1, <3>2
  <2> QED BY <1>6, <2>1 DEF LiveIsResult, IInv
<1>11. RunningHasTtl'
  BY <1>3 DEF RunningHasTtl, IInv
<1> QED BY <1>4, <1>5, <1>7, <1>8, <1>9, <1>10, <1>11 DEF IInv

LEMMA NextInv == IInv /\ [Next]_vars => IInv'
<1> SUFFICES ASSUME IInv, [Next]_vars PROVE IInv'
  OBVIOUS
<1> USE CallsAssumption, ValuesAssumption
<1> USE DEF IInv, TypeOK
<1> DEFINE Others == /\ OneExecutionPerKey /\ NoExecutionInsideWindow
                     /\ PromisesFiled /\ JoinersHaveOwner
                     /\ LiveIsResult /\ RunningHasTtl
<1>1. ASSUME NEW c \in Call, RejectTtl(c)
      PROVE  IInv'
  <2>1. TypeOK'
    BY <1>1, OutcomeTypes DEF RejectTtl
  <2>2. Others'
    BY <1>1 DEF RejectTtl, OneExecutionPerKey, NoExecutionInsideWindow,
                PromisesFiled, JoinersHaveOwner, LiveIsResult, RunningHasTtl, Live
  <2> QED BY <2>1, <2>2
<1>2. ASSUME NEW c \in Call, ReturnCached(c)
      PROVE  IInv'
  <2>1. cache[KeyOf[c]].value \in Result
    BY <1>2 DEF ReturnCached, LiveIsResult
  <2>2. TypeOK'
    BY <1>2, <2>1, OutcomeTypes DEF ReturnCached
  <2>3. Others'
    BY <1>2 DEF ReturnCached, OneExecutionPerKey, NoExecutionInsideWindow,
                PromisesFiled, JoinersHaveOwner, LiveIsResult, RunningHasTtl, Live
  <2> QED BY <2>2, <2>3
<1>3. ASSUME NEW c \in Call, Join(c)
      PROVE  IInv'
  <2>1. TypeOK'
    BY <1>3 DEF Join
  <2>2. Others'
    BY <1>3 DEF Join, OneExecutionPerKey, NoExecutionInsideWindow,
                PromisesFiled, JoinersHaveOwner, LiveIsResult, RunningHasTtl, Live
  <2> QED BY <2>1, <2>2
<1>4. ASSUME NEW c \in Call, Begin(c)
      PROVE  IInv'
  <2>1. TypeOK'
    BY <1>4 DEF Begin
  <2>2. OneExecutionPerKey'
    BY <1>4 DEF Begin, OneExecutionPerKey
  <2>3. NoExecutionInsideWindow' /\ PromisesFiled' /\ JoinersHaveOwner'
    BY <1>4 DEF Begin, NoExecutionInsideWindow, PromisesFiled, JoinersHaveOwner, Live
  <2>4. LiveIsResult' /\ RunningHasTtl'
    BY <1>4 DEF Begin, LiveIsResult, RunningHasTtl, Live
  <2> QED BY <2>1, <2>2, <2>3, <2>4
<1>5. ASSUME NEW c \in Call, NEW v \in Result, Fulfil(c, v)
      PROVE  IInv'
  BY <1>5, SettleInv, OutcomeTypes DEF Fulfil
<1>6. ASSUME NEW c \in Call, NEW e \in Failure, Reject(c, e)
      PROVE  IInv'
  BY <1>6, SettleInv, OutcomeTypes DEF Reject
<1>7. ASSUME NEW c \in Call, Again(c)
      PROVE  IInv'
  <2>1. TypeOK'
    BY <1>7, OutcomeTypes DEF Again
  <2>2. Others'
    BY <1>7 DEF Again, OneExecutionPerKey, NoExecutionInsideWindow,
                PromisesFiled, JoinersHaveOwner, LiveIsResult, RunningHasTtl, Live
  <2> QED BY <2>1, <2>2
<1>8. CASE Tick
  <2>1. TypeOK'
    BY <1>8, ClockAssumption DEF Tick
  <2>2. \A k \in Key : Live(k)' => Live(k)
    BY <1>8 DEF Tick, Live, Entry
  <2>3. Others'
    BY <1>8, <2>2 DEF Tick, OneExecutionPerKey, NoExecutionInsideWindow,
                PromisesFiled, JoinersHaveOwner, LiveIsResult, RunningHasTtl
  <2> QED BY <2>1, <2>3
<1>9. CASE UNCHANGED vars
  BY <1>9 DEF vars, OneExecutionPerKey, NoExecutionInsideWindow,
              PromisesFiled, JoinersHaveOwner, LiveIsResult, RunningHasTtl, Live
<1> QED
  BY <1>1, <1>2, <1>3, <1>4, <1>5, <1>6, <1>7, <1>8, <1>9 DEF Next, Run, Settle

LEMMA Inductive == Spec => []IInv
BY InitInv, NextInv, PTL DEF Spec

-----------------------------------------------------------------------------

\* Every variable of the store keeps its type.
THEOREM TypeCorrect == Spec => []TypeOK
<1>1. IInv => TypeOK
  BY DEF IInv
<1> QED BY <1>1, Inductive, PTL

\* "Only one execution proceeds": for every set of callers, keys and windows,
\* an invocation is inside fn exactly when its promise is the registered one.
THEOREM OneExecution == Spec => []OneExecutionPerKey
<1>1. IInv => OneExecutionPerKey
  BY DEF IInv
<1> QED BY <1>1, Inductive, PTL

\* No execution is in progress for a key whose result is still live.
THEOREM WindowRespected == Spec => []NoExecutionInsideWindow
<1>1. IInv => NoExecutionInsideWindow
  BY DEF IInv
<1> QED BY <1>1, Inductive, PTL

-----------------------------------------------------------------------------

\* The values the contract's variables have in a state of the store.
recordedOf == [k \in Key |-> IF Live(k) THEN cache[k].value ELSE NoValue]
stateOf == [c \in Call |-> IF phase[c] \in {"running", "joined"}
                           THEN "waiting" ELSE phase[c]]

LEMMA InitRefines == Init => Contract!Init
BY CallsAssumption DEF Init, Contract!Init, Live, Unsettled, Contract!Unsettled

\* A settlement answers everyone the contract has waiting on the key.
LEMMA SettleRefines ==
    ASSUME IInv, NEW c \in Call, NEW o, SettlePromise(c, o)
    PROVE  Contract!AnswerAll(KeyOf[c], o)
<1>1. /\ phase[c] = "running"
      /\ Awaiting(c) = {d \in Call : /\ phase[d] \in {"running", "joined"}
                                     /\ KeyOf[d] = KeyOf[c]}
  BY AwaitingIsWaiting DEF SettlePromise
<1>2. Contract!Waiting(KeyOf[c]) = Awaiting(c)
  BY <1>1 DEF Contract!Waiting, IInv, TypeOK
<1>3. c \in Awaiting(c)
  BY DEF Awaiting
<1>4. stateOf' = [d \in Call |-> IF d \in Awaiting(c) THEN "done" ELSE stateOf[d]]
  BY DEF SettlePromise, stateOf
<1>5. outcome' = [d \in Call |-> IF d \in Awaiting(c) THEN o ELSE outcome[d]]
  BY DEF SettlePromise
<1> QED BY <1>2, <1>3, <1>4, <1>5 DEF Contract!AnswerAll, stateOf

LEMMA NextRefines == IInv /\ [Next]_vars => [Contract!Next]_(Contract!vars)
<1> SUFFICES ASSUME IInv, [Next]_vars PROVE [Contract!Next]_(Contract!vars)
  OBVIOUS
<1> USE CallsAssumption, ValuesAssumption
<1>1. ASSUME NEW c \in Call, RejectTtl(c)
      PROVE  Contract!Refuse(c, BadTtl)
  BY <1>1 DEF RejectTtl, Contract!Refuse, IInv, TypeOK, Live, Rejected, Contract!Rejected
<1>2. ASSUME NEW c \in Call, ReturnCached(c)
      PROVE  Contract!Replay(c)
  <2>1. cache[KeyOf[c]].value \in Result
    BY <1>2 DEF ReturnCached, IInv, LiveIsResult
  <2> QED
    BY <1>2, <2>1
    DEF ReturnCached, Contract!Replay, IInv, TypeOK, Live, Fulfilled, Contract!Fulfilled
<1>3. ASSUME NEW c \in Call, Join(c) \/ Begin(c)
      PROVE  Contract!Ask(c)
  <2>1. /\ phase[c] = "idle"
        /\ ~Live(KeyOf[c])
        /\ UNCHANGED <<now, cache, outcome>>
        /\ \E p \in {"running", "joined"} : phase' = [phase EXCEPT ![c] = p]
    BY <1>3 DEF Join, Begin
  <2>2. stateOf' = [stateOf EXCEPT ![c] = "waiting"]
    BY <2>1 DEF stateOf, IInv, TypeOK
  <2>3. recordedOf' = recordedOf
    BY <2>1 DEF recordedOf, Live
  <2> QED BY <2>1, <2>2, <2>3 DEF Contract!Ask, stateOf, recordedOf
<1>4. ASSUME NEW c \in Call, NEW v \in Result, Fulfil(c, v)
      PROVE  Contract!Fulfil(KeyOf[c], v)
  <2>1. Contract!AnswerAll(KeyOf[c], Contract!Fulfilled(v))
    BY <1>4, SettleRefines DEF Fulfil, Fulfilled, Contract!Fulfilled
  <2>2. ~Live(KeyOf[c])
    BY <1>4 DEF Fulfil, SettlePromise, IInv, OneExecutionPerKey, NoExecutionInsideWindow
  <2>3. recordedOf' = [recordedOf EXCEPT ![KeyOf[c]] = v]
    <3>1. Ttl[c] > 0 /\ Ttl[c] \in Int /\ now \in Nat
      BY <1>4 DEF Fulfil, SettlePromise, IInv, RunningHasTtl, TypeOK
    <3>2. now + Ttl[c] > now
      BY <3>1
    <3>3. /\ now' = now
          /\ cache' = [cache EXCEPT ![KeyOf[c]] = [expiresAt |-> now + Ttl[c], value |-> v]]
      BY <1>4 DEF Fulfil
    <3> QED BY <3>2, <3>3 DEF recordedOf, Live, IInv, TypeOK
  <2> QED BY <2>1, <2>2, <2>3 DEF Contract!Fulfil, recordedOf
<1>5. ASSUME NEW c \in Call, NEW e \in Failure, Reject(c, e)
      PROVE  Contract!Reject(KeyOf[c], e)
  <2>1. Contract!AnswerAll(KeyOf[c], Contract!Rejected(e))
    BY <1>5, SettleRefines DEF Reject, Rejected, Contract!Rejected
  <2> QED BY <1>5, <2>1 DEF Reject, Contract!Reject, Live
<1>6. ASSUME NEW c \in Call, Again(c)
      PROVE  Contract!Again(c)
  BY <1>6 DEF Again, Contract!Again, IInv, TypeOK, Live, Unsettled, Contract!Unsettled
<1>7. CASE Tick
  <2> DEFINE K == {k \in Key : cache[k].expiresAt <= now + 1}
  <2>1. ASSUME NEW k \in Key
        PROVE  /\ Live(k)' <=> k \notin K
               /\ Live(k)' => Live(k)
    BY <1>7 DEF Tick, Live, IInv, TypeOK, Entry
  <2>2. recordedOf' = [k \in Key |-> IF k \in K THEN NoValue ELSE recordedOf[k]]
    BY <1>7, <2>1 DEF Tick, Live, recordedOf
  <2>3. UNCHANGED <<stateOf, outcome>>
    BY <1>7 DEF Tick, stateOf
  <2>4. K \in SUBSET Key
    OBVIOUS
  <2> HIDE DEF K
  <2> QED
    BY <2>2, <2>3, <2>4 DEF Contract!Next, Contract!Forget, recordedOf, stateOf
<1>8. CASE UNCHANGED vars
  BY <1>8 DEF vars, Contract!vars, Live
<1> QED
  BY <1>1, <1>2, <1>3, <1>4, <1>5, <1>6, <1>7, <1>8 DEF Next, Run, Settle, Contract!Next

\* The store implements the port's contract, for every set of callers, keys,
\* windows, results and failures.
THEOREM Implementation == Spec => ImplementsContract
BY Inductive, InitRefines, NextRefines, PTL DEF Spec, Contract!Spec, ImplementsContract

-----------------------------------------------------------------------------

\* What keeps the turns of disciplined fns apart: the stack holds who has
\* entered, under keys of their own; registered is who runs; joiners hold what is
\* registered, and nothing was rejected before it was.
Entered == {c \in Call : phase[c] = "entered"}
StackIsEntered == /\ \A c \in Entered : \E i \in DOMAIN stack : stack[i] = c
                  /\ \A i \in DOMAIN stack : stack[i] \in Entered
                  /\ \A i, j \in DOMAIN stack : stack[i] = stack[j] => i = j
EnteredApart == \A c \in Entered : /\ inflight[KeyOf[c]] = NoCall
                                   /\ \A d \in Entered : KeyOf[c] = KeyOf[d] => c = d
RegisteredRuns == /\ \A c \in Call : phase[c] = "running" => inflight[KeyOf[c]] = c
                  /\ \A k \in Key : inflight[k] # NoCall =>
                        phase[inflight[k]] = "running" /\ KeyOf[inflight[k]] = k
JoinersHold == \A c \in Call : phase[c] = "joined" =>
                    awaits[c] = inflight[KeyOf[c]] /\ awaits[c] # NoCall
NothingLeft == \A k \in Key : left[k] = Unsettled

TInv == /\ TurnsTypeOK
        /\ StackIsEntered
        /\ EnteredApart
        /\ RegisteredRuns
        /\ JoinersHold
        /\ NothingLeft

LEMMA TurnsInitInv == TurnsInit => TInv
<1> SUFFICES ASSUME TurnsInit PROVE TInv
  OBVIOUS
<1>1. TurnsTypeOK
  BY OutcomeTypes DEF TurnsInit, Init, TurnsTypeOK, Entry
<1> QED
  BY <1>1, CallsAssumption
  DEF TurnsInit, Init, TInv, StackIsEntered, EnteredApart, RegisteredRuns, JoinersHold,
      NothingLeft, Entered

\* An invocation that enters has a key that nobody inside the turn has.
LEMMA EnterInv ==
    ASSUME TInv, Disciplined, NEW c \in Call, MayRun(c), Enter(c)
    PROVE  /\ TInv'
           /\ \A d \in Entered : KeyOf[d] # KeyOf[c]
<1> USE CallsAssumption, TurnsAssumption
<1>1. \A d \in Entered : KeyOf[d] # KeyOf[c]
  BY DEF TInv, StackIsEntered, MayRun, Disciplined, Entered
<1>2. /\ phase[c] = "idle"
      /\ phase' = [phase EXCEPT ![c] = "entered"]
      /\ stack' = Append(stack, c)
      /\ inflight[KeyOf[c]] = NoCall
      /\ UNCHANGED <<now, cache, inflight, outcome, awaits, left>>
  BY DEF Enter
<1>3. /\ stack \in Seq(Call)
      /\ phase \in [Call -> {"idle", "entered", "running", "joined", "done"}]
  BY DEF TInv, TurnsTypeOK
<1>4. TurnsTypeOK'
  BY <1>2, <1>3 DEF TInv, TurnsTypeOK
<1>5. Entered' = Entered \cup {c} /\ c \notin Entered
  BY <1>2, <1>3 DEF Entered
<1>6. StackIsEntered'
  <2>1. /\ DOMAIN stack' = 1 .. Len(stack) + 1
        /\ \A i \in DOMAIN stack : i \in DOMAIN stack' /\ stack'[i] = stack[i]
        /\ DOMAIN stack = 1 .. Len(stack) /\ Len(stack) \in Nat
        /\ stack'[Len(stack) + 1] = c
    BY <1>2, <1>3
  <2>2. \A i \in DOMAIN stack : stack[i] \in Entered
    BY DEF TInv, StackIsEntered
  <2>3. \A d \in Entered' : \E i \in DOMAIN stack' : stack'[i] = d
    BY <1>5, <2>1 DEF TInv, StackIsEntered
  <2>4. \A i \in DOMAIN stack' : stack'[i] \in Entered'
    BY <1>5, <2>1, <2>2
  <2>5. \A i, j \in DOMAIN stack' : stack'[i] = stack'[j] => i = j
    BY <1>5, <2>1, <2>2 DEF TInv, StackIsEntered
  <2> QED BY <2>3, <2>4, <2>5 DEF StackIsEntered
<1>7. EnteredApart'
  BY <1>1, <1>2, <1>5 DEF TInv, EnteredApart
<1>8. RegisteredRuns' /\ JoinersHold' /\ NothingLeft'
  BY <1>2, <1>3 DEF TInv, RegisteredRuns, JoinersHold, NothingLeft, TurnsTypeOK
<1> QED BY <1>1, <1>4, <1>6, <1>7, <1>8 DEF TInv

LEMMA SuspendInv ==
    ASSUME TInv, NEW c \in Call, Suspend(c)
    PROVE  TInv' /\ c \in Entered
<1> USE CallsAssumption, TurnsAssumption
<1>1. /\ stack # <<>> /\ c = stack[Len(stack)]
      /\ stack' = SubSeq(stack, 1, Len(stack) - 1)
      /\ phase' = [phase EXCEPT ![c] = "running"]
      /\ inflight' = [inflight EXCEPT ![KeyOf[c]] = c]
      /\ left' = [left EXCEPT ![KeyOf[c]] = Unsettled]
      /\ UNCHANGED <<now, cache, outcome, awaits>>
  BY DEF Suspend, Last, Front
<1>2. /\ stack \in Seq(Call)
      /\ phase \in [Call -> {"idle", "entered", "running", "joined", "done"}]
      /\ inflight \in [Key -> Call \cup {NoCall}]
      /\ left \in [Key -> Outcome]
      /\ awaits \in [Call -> Call \cup {NoCall}]
  BY DEF TInv, TurnsTypeOK
<1>3. Len(stack) \in Nat \ {0} /\ DOMAIN stack = 1 .. Len(stack)
  BY <1>1, <1>2
<1>4. c \in Entered
  <2>1. Len(stack) \in DOMAIN stack
    BY <1>3
  <2>2. \A i \in DOMAIN stack : stack[i] \in Entered
    BY DEF TInv, StackIsEntered
  <2> QED BY <1>1, <2>1, <2>2
<1>5. stack' \in Seq(Call) /\ DOMAIN stack' = 1 .. Len(stack) - 1
      /\ \A i \in DOMAIN stack' : i \in DOMAIN stack /\ stack'[i] = stack[i]
  BY <1>1, <1>2, <1>3
<1>6. TurnsTypeOK'
  BY <1>1, <1>2, <1>5, OutcomeTypes DEF TInv, TurnsTypeOK
<1>7. Entered' = Entered \ {c}
  BY <1>1, <1>2 DEF Entered
<1>8. StackIsEntered'
  <2>1. ASSUME NEW d \in Entered' PROVE \E i \in DOMAIN stack' : stack'[i] = d
    <3>1. PICK i \in DOMAIN stack : stack[i] = d
      BY <1>7 DEF TInv, StackIsEntered
    <3>2. i # Len(stack)
      BY <1>1, <1>7, <3>1
    <3>3. i \in DOMAIN stack'
      BY <1>3, <1>5, <3>2
    <3> QED BY <1>5, <3>1, <3>3
  <2>2. ASSUME NEW i \in DOMAIN stack' PROVE stack'[i] \in Entered'
    <3>1. i \in DOMAIN stack /\ i # Len(stack) /\ stack'[i] = stack[i]
      BY <1>3, <1>5
    <3>2. stack[i] # c
      <4>1. Len(stack) \in DOMAIN stack
        BY <1>3
      <4>2. \A j, l \in DOMAIN stack : stack[j] = stack[l] => j = l
        BY DEF TInv, StackIsEntered
      <4> QED BY <1>1, <3>1, <4>1, <4>2
    <3> QED BY <1>7, <3>1, <3>2 DEF TInv, StackIsEntered
  <2>3. \A i, j \in DOMAIN stack' : stack'[i] = stack'[j] => i = j
    BY <1>5 DEF TInv, StackIsEntered
  <2> QED BY <2>1, <2>2, <2>3 DEF StackIsEntered
<1>9. inflight[KeyOf[c]] = NoCall
  BY <1>4 DEF TInv, EnteredApart
<1>10. EnteredApart'
  BY <1>1, <1>2, <1>4, <1>7 DEF TInv, EnteredApart, Entered
<1>11. RegisteredRuns'
  BY <1>1, <1>2, <1>4, <1>9 DEF TInv, RegisteredRuns, Entered
<1>12. JoinersHold' /\ NothingLeft'
  BY <1>1, <1>2, <1>9 DEF TInv, JoinersHold, NothingLeft
<1> QED BY <1>4, <1>6, <1>8, <1>10, <1>11, <1>12 DEF TInv

\* Who holds the promise of a running invocation is who joined under its key.
LEMMA HoldingIsAwaiting ==
    ASSUME TInv, NEW c \in Call, phase[c] = "running"
    PROVE  Holding(c) = {c} \cup {d \in Call : phase[d] = "joined" /\ KeyOf[d] = KeyOf[c]}
<1> USE CallsAssumption
<1>1. inflight[KeyOf[c]] = c
  BY DEF TInv, RegisteredRuns
<1>2. ASSUME NEW d \in Call, phase[d] = "joined"
      PROVE  awaits[d] = c <=> KeyOf[d] = KeyOf[c]
  BY <1>1, <1>2 DEF TInv, JoinersHold, RegisteredRuns
<1> QED BY <1>2 DEF Holding

LEMMA SettleHeldInv ==
    ASSUME TInv, NEW c \in Call, NEW o \in Outcome, SettleHeld(c, o),
           \/ cache' = cache
           \/ \E v \in Result : cache' = [cache EXCEPT ![KeyOf[c]] =
                                    [expiresAt |-> now + Ttl[c], value |-> v]]
    PROVE  TInv'
<1> USE CallsAssumption
<1>1. /\ stack = <<>> /\ stack' = stack /\ now' = now
      /\ phase[c] = "running"
      /\ inflight' = [inflight EXCEPT ![KeyOf[c]] = NoCall]
      /\ left' = [left EXCEPT ![KeyOf[c]] = Unsettled]
      /\ phase' = [d \in Call |-> IF d \in Holding(c) THEN "done" ELSE phase[d]]
      /\ outcome' = [d \in Call |-> IF d \in Holding(c) THEN o ELSE outcome[d]]
      /\ awaits' = [d \in Call |-> IF d \in Holding(c) THEN NoCall ELSE awaits[d]]
  BY DEF SettleHeld
<1>2. Holding(c) = {c} \cup {d \in Call : phase[d] = "joined" /\ KeyOf[d] = KeyOf[c]}
  BY <1>1, HoldingIsAwaiting
<1>3. /\ phase \in [Call -> {"idle", "entered", "running", "joined", "done"}]
      /\ inflight \in [Key -> Call \cup {NoCall}]
      /\ left \in [Key -> Outcome]
      /\ awaits \in [Call -> Call \cup {NoCall}]
      /\ outcome \in [Call -> Outcome]
      /\ cache \in [Key -> Entry] /\ now \in Nat
  BY DEF TInv, TurnsTypeOK
<1>4. cache' \in [Key -> Entry]
  <2>1. ASSUME NEW v \in Result,
               cache' = [cache EXCEPT ![KeyOf[c]] = [expiresAt |-> now + Ttl[c], value |-> v]]
        PROVE  cache' \in [Key -> Entry]
    <3>1. [expiresAt |-> now + Ttl[c], value |-> v] \in Entry
      BY <1>3 DEF Entry
    <3> QED BY <1>3, <2>1, <3>1
  <2> QED BY <1>3, <2>1
<1>5. TurnsTypeOK'
  BY <1>1, <1>3, <1>4, OutcomeTypes DEF TInv, TurnsTypeOK
<1>6. inflight[KeyOf[c]] = c
  BY <1>1 DEF TInv, RegisteredRuns
<1>7. Entered = {} /\ Entered' = {}
  <2>1. Entered = {}
    BY <1>1 DEF TInv, StackIsEntered
  <2> QED BY <1>1, <1>3, <2>1 DEF Entered
<1>8. StackIsEntered' /\ EnteredApart'
  BY <1>1, <1>7 DEF StackIsEntered, EnteredApart
<1>9. RegisteredRuns'
  BY <1>1, <1>2, <1>3, <1>6 DEF TInv, RegisteredRuns
<1>10. JoinersHold'
  BY <1>1, <1>2, <1>3 DEF TInv, JoinersHold
<1>11. NothingLeft'
  BY <1>1, <1>3 DEF TInv, NothingLeft
<1> QED BY <1>5, <1>8, <1>9, <1>10, <1>11 DEF TInv

LEMMA TurnsNextInv == Disciplined /\ TInv /\ [TurnsNext]_turnsVars => TInv'
<1> SUFFICES ASSUME Disciplined, TInv, [TurnsNext]_turnsVars PROVE TInv'
  OBVIOUS
<1> USE CallsAssumption, ValuesAssumption, TurnsAssumption
<1> DEFINE Others == /\ StackIsEntered /\ EnteredApart /\ RegisteredRuns
                     /\ JoinersHold /\ NothingLeft
<1>1. ASSUME NEW c \in Call, MayRun(c), Enter(c)
      PROVE  TInv'
  BY <1>1, EnterInv
<1>2. ASSUME NEW c \in Call, JoinPromise(c)
      PROVE  TInv'
  <2>1. /\ phase[c] = "idle" /\ inflight[KeyOf[c]] # NoCall
        /\ phase' = [phase EXCEPT ![c] = "joined"]
        /\ awaits' = [awaits EXCEPT ![c] = inflight[KeyOf[c]]]
        /\ UNCHANGED <<now, cache, inflight, outcome, stack, left>>
    BY <1>2 DEF JoinPromise, FindPromise
  <2>2. TurnsTypeOK'
    BY <2>1 DEF TInv, TurnsTypeOK
  <2>3. Entered' = Entered
    BY <2>1 DEF TInv, TurnsTypeOK, Entered
  <2>4. StackIsEntered' /\ EnteredApart' /\ NothingLeft'
    BY <2>1, <2>3 DEF TInv, StackIsEntered, EnteredApart, NothingLeft
  <2>5. RegisteredRuns' /\ JoinersHold'
    BY <2>1 DEF TInv, TurnsTypeOK, RegisteredRuns, JoinersHold
  <2> QED BY <2>2, <2>4, <2>5 DEF TInv
<1>3. ASSUME NEW c \in Call, JoinRejection(c)
      PROVE  FALSE
  BY <1>3 DEF JoinRejection, TInv, NothingLeft
<1>4. ASSUME NEW c \in Call, NEW p \in {"idle", "done"},
             phase[c] \in {"idle", "done"}, phase' = [phase EXCEPT ![c] = p],
             NEW o \in Outcome, outcome' = [outcome EXCEPT ![c] = o],
             UNCHANGED <<now, cache, inflight, turnVars>>
      PROVE  TInv'
  <2>1. TurnsTypeOK'
    BY <1>4 DEF TInv, TurnsTypeOK, turnVars
  <2>2. Entered' = Entered
    BY <1>4 DEF TInv, TurnsTypeOK, Entered
  <2>3. StackIsEntered' /\ EnteredApart' /\ NothingLeft'
    BY <1>4, <2>2 DEF TInv, StackIsEntered, EnteredApart, NothingLeft, turnVars
  <2>4. RegisteredRuns' /\ JoinersHold'
    BY <1>4 DEF TInv, TurnsTypeOK, RegisteredRuns, JoinersHold, turnVars
  <2> QED BY <2>1, <2>3, <2>4 DEF TInv
<1>5. ASSUME NEW c \in Call, Replay(c)
      PROVE  TInv'
  <2>1. Fulfilled(cache[KeyOf[c]].value) \in Outcome
    BY DEF TInv, TurnsTypeOK, Entry, Fulfilled, Outcome
  <2> QED BY <1>4, <1>5, <2>1 DEF Replay, ReturnCached
<1>6. ASSUME NEW c \in Call, RejectTtl(c), UNCHANGED turnVars
      PROVE  TInv'
  <2>1. Rejected(BadTtl) \in Outcome
    BY OutcomeTypes
  <2> QED BY <1>4, <1>6, <2>1 DEF RejectTtl
<1>7. ASSUME NEW c \in Call, EndTurn(c)
      PROVE  TInv'
  BY <1>7, SuspendInv DEF EndTurn, ThrowAtOnce, Disciplined
<1>8. ASSUME NEW c \in Call, SettleTurn(c)
      PROVE  TInv'
  <2>1. ASSUME NEW v \in Result, FulfilHeld(c, v) PROVE TInv'
    BY <2>1, SettleHeldInv, OutcomeTypes DEF FulfilHeld
  <2>2. ASSUME NEW e \in Failure, RejectHeld(c, e) PROVE TInv'
    BY <2>2, SettleHeldInv, OutcomeTypes DEF RejectHeld
  <2> QED BY <1>8, <2>1, <2>2 DEF SettleTurn
<1>9. ASSUME NEW c \in Call, Resend(c)
      PROVE  TInv'
  BY <1>4, <1>9, OutcomeTypes DEF Resend, Again
<1>10. CASE Tick /\ UNCHANGED turnVars
  BY <1>10, ClockAssumption
  DEF Tick, turnVars, TInv, TurnsTypeOK, StackIsEntered, EnteredApart, RegisteredRuns,
      JoinersHold, NothingLeft, Entered
<1>11. CASE UNCHANGED turnsVars
  BY <1>11
  DEF turnsVars, vars, turnVars, TInv, TurnsTypeOK, StackIsEntered, EnteredApart,
      RegisteredRuns, JoinersHold, NothingLeft, Entered
<1> QED
  BY <1>1, <1>2, <1>3, <1>5, <1>6, <1>7, <1>8, <1>9, <1>10, <1>11 DEF TurnsNext, RunTurn

-----------------------------------------------------------------------------

\* The values the store's variables have in a state of the turns.
ownerOf == [k \in Key |-> Owner(k)]
phaseOf == [c \in Call |-> IF phase[c] = "entered" THEN "running" ELSE phase[c]]

\* A key belongs to whoever is inside its first turn, if anyone is.
LEMMA OwnerIs ==
    ASSUME EnteredApart, NEW k \in Key
    PROVE  /\ \A c \in Entered : KeyOf[c] = k => Owner(k) = c
           /\ (\A c \in Entered : KeyOf[c] # k) => Owner(k) = inflight[k]
<1>1. ASSUME NEW c \in Entered, KeyOf[c] = k
      PROVE  Owner(k) = c
  <2>1. EnteredAt(k) = {c}
    BY <1>1 DEF EnteredApart, Entered, EnteredAt
  <2> QED BY <2>1 DEF Owner, EnteredAt
<1>2. ASSUME \A c \in Entered : KeyOf[c] # k
      PROVE  Owner(k) = inflight[k]
  <2>1. EnteredAt(k) = {}
    BY <1>2 DEF Entered, EnteredAt
  <2> QED BY <2>1 DEF Owner, EnteredAt
<1> QED BY <1>1, <1>2

LEMMA TurnsInitRefines == TurnsInit => Atomic!Init
<1> SUFFICES ASSUME TurnsInit PROVE Atomic!Init
  OBVIOUS
<1>1. TInv
  BY TurnsInitInv
<1>2. Entered = {}
  BY DEF TurnsInit, Init, Entered
<1>3. ownerOf = [k \in Key |-> NoCall]
  BY <1>1, <1>2, OwnerIs DEF ownerOf, TInv, TurnsInit, Init
<1>4. phaseOf = [c \in Call |-> "idle"]
  BY DEF phaseOf, TurnsInit, Init
<1> QED
  BY <1>3, <1>4 DEF Atomic!Init, TurnsInit, Init, ownerOf, phaseOf, Unsettled, Atomic!Unsettled

\* A step that leaves the keys with whom they were.
LEMMA OwnersStay ==
    ASSUME Entered' = Entered, inflight' = inflight
    PROVE  ownerOf' = ownerOf
<1>1. ASSUME NEW k \in Key
      PROVE  Owner(k)' = Owner(k)
  <2>1. EnteredAt(k) = {c \in Entered : KeyOf[c] = k}
    BY DEF EnteredAt, Entered
  <2>2. EnteredAt(k)' = {c \in Entered' : KeyOf[c] = k}
    BY DEF EnteredAt, Entered
  <2> QED BY <2>1, <2>2 DEF Owner
<1> QED BY <1>1 DEF ownerOf

LEMMA TurnsNextRefines ==
    Disciplined /\ TInv /\ TInv' /\ [TurnsNext]_turnsVars => [Atomic!Next]_(Atomic!vars)
<1> SUFFICES ASSUME Disciplined, TInv, TInv', [TurnsNext]_turnsVars
             PROVE  [Atomic!Next]_(Atomic!vars)
  OBVIOUS
<1> USE CallsAssumption, ValuesAssumption, TurnsAssumption
<1> USE DEF ownerOf, phaseOf
<1>0. phase \in [Call -> {"idle", "entered", "running", "joined", "done"}]
  BY DEF TInv, TurnsTypeOK
<1>1. ASSUME NEW c \in Call, MayRun(c), Enter(c)
      PROVE  Atomic!Begin(c)
  <2>1. \A d \in Entered : KeyOf[d] # KeyOf[c]
    BY <1>1, EnterInv
  <2>2. /\ phase[c] = "idle" /\ Ttl[c] > 0 /\ ~Live(KeyOf[c])
        /\ inflight[KeyOf[c]] = NoCall
        /\ phase' = [phase EXCEPT ![c] = "entered"]
        /\ UNCHANGED <<now, cache, inflight, outcome>>
    BY <1>1 DEF Enter
  <2>3. Owner(KeyOf[c]) = NoCall
    BY <2>1, <2>2, OwnerIs DEF TInv
  <2>4. phaseOf' = [phaseOf EXCEPT ![c] = "running"]
    BY <1>0, <2>2
  <2>5. ownerOf' = [ownerOf EXCEPT ![KeyOf[c]] = c]
    <3>1. ASSUME NEW k \in Key, k # KeyOf[c]
          PROVE  EnteredAt(k)' = EnteredAt(k)
      BY <1>0, <2>2, <3>1 DEF EnteredAt
    <3>2. EnteredAt(KeyOf[c])' = {c}
      BY <1>0, <2>1, <2>2 DEF EnteredAt, Entered
    <3>3. Owner(KeyOf[c])' = c
      BY <3>2 DEF Owner
    <3>4. ASSUME NEW k \in Key, k # KeyOf[c] PROVE Owner(k)' = Owner(k)
      <4>1. EnteredAt(k)' = EnteredAt(k)
        BY <3>1, <3>4
      <4> QED BY <2>2, <4>1 DEF Owner
    <3> QED BY <3>3, <3>4
  <2>6. ownerOf[KeyOf[c]] = NoCall /\ phaseOf[c] = "idle"
    BY <1>0, <2>2, <2>3
  <2> QED BY <2>2, <2>4, <2>5, <2>6 DEF Atomic!Begin, Atomic!Live, Live
<1>2. ASSUME NEW c \in Call, JoinPromise(c)
      PROVE  Atomic!Join(c)
  <2>1. /\ phase[c] = "idle" /\ Ttl[c] > 0 /\ ~Live(KeyOf[c])
        /\ inflight[KeyOf[c]] # NoCall
        /\ phase' = [phase EXCEPT ![c] = "joined"]
        /\ UNCHANGED <<now, cache, inflight, outcome>>
    BY <1>2 DEF JoinPromise, FindPromise
  <2>2. Owner(KeyOf[c]) # NoCall
    BY <2>1, OwnerIs DEF TInv, EnteredApart, Entered
  <2>3. Entered' = Entered
    BY <1>0, <2>1 DEF Entered
  <2>4. ownerOf' = ownerOf
    BY <2>1, <2>3, OwnersStay
  <2>5. phaseOf' = [phaseOf EXCEPT ![c] = "joined"]
    BY <1>0, <2>1
  <2> QED BY <2>1, <2>2, <2>4, <2>5 DEF Atomic!Join, Atomic!Live, Live
<1>3. ASSUME NEW c \in Call, JoinRejection(c)
      PROVE  FALSE
  BY <1>3 DEF JoinRejection, TInv, NothingLeft
<1>4. ASSUME NEW c \in Call, NEW p \in {"idle", "done"},
             phase[c] \in {"idle", "done"}, phase' = [phase EXCEPT ![c] = p],
             inflight' = inflight
      PROVE  ownerOf' = ownerOf /\ phaseOf' = [phaseOf EXCEPT ![c] = p]
  <2>1. Entered' = Entered
    BY <1>0, <1>4 DEF Entered
  <2> QED BY <1>0, <1>4, <2>1, OwnersStay
<1>5. ASSUME NEW c \in Call, Replay(c)
      PROVE  Atomic!ReturnCached(c)
  BY <1>4, <1>5
  DEF Replay, ReturnCached, Atomic!ReturnCached, Atomic!Live, Live, Fulfilled, Atomic!Fulfilled
<1>6. ASSUME NEW c \in Call, RejectTtl(c)
      PROVE  Atomic!RejectTtl(c)
  BY <1>4, <1>6 DEF RejectTtl, Atomic!RejectTtl, Rejected, Atomic!Rejected
<1>7. ASSUME NEW c \in Call, EndTurn(c)
      PROVE  UNCHANGED Atomic!vars
  <2>1. Suspend(c) /\ c \in Entered
    BY <1>7, SuspendInv DEF EndTurn, ThrowAtOnce, Disciplined
  <2>2. /\ phase' = [phase EXCEPT ![c] = "running"]
        /\ inflight' = [inflight EXCEPT ![KeyOf[c]] = c]
        /\ UNCHANGED <<now, cache, outcome>>
    BY <2>1 DEF Suspend
  <2>3. phaseOf' = phaseOf
    BY <1>0, <2>1, <2>2 DEF Entered
  <2>4. ASSUME NEW k \in Key PROVE Owner(k)' = Owner(k)
    <3>1. CASE k = KeyOf[c]
      <4>1. EnteredAt(k)' = {}
        BY <1>0, <2>1, <2>2, <3>1 DEF EnteredAt, Entered, TInv, EnteredApart
      <4>2. inflight'[k] = c
        BY <2>2, <3>1 DEF TInv, TurnsTypeOK
      <4>3. Owner(k) = c
        BY <2>1, <3>1, OwnerIs DEF TInv
      <4>4. Owner(k)' = c
        BY <4>1, <4>2 DEF Owner
      <4> QED BY <4>3, <4>4
    <3>2. CASE k # KeyOf[c]
      <4>1. EnteredAt(k)' = EnteredAt(k)
        BY <1>0, <2>2, <3>2 DEF EnteredAt
      <4>2. inflight'[k] = inflight[k]
        BY <2>2, <3>2 DEF TInv, TurnsTypeOK
      <4> QED BY <4>1, <4>2 DEF Owner
    <3> QED BY <3>1, <3>2
  <2> QED BY <2>2, <2>3, <2>4 DEF Atomic!vars
<1>8. ASSUME NEW c \in Call, NEW o, SettleHeld(c, o)
      PROVE  Atomic!SettlePromise(c, o) /\ now' = now
  <2>1. /\ stack = <<>> /\ phase[c] = "running" /\ now' = now
        /\ inflight' = [inflight EXCEPT ![KeyOf[c]] = NoCall]
        /\ phase' = [d \in Call |-> IF d \in Holding(c) THEN "done" ELSE phase[d]]
        /\ outcome' = [d \in Call |-> IF d \in Holding(c) THEN o ELSE outcome[d]]
    BY <1>8 DEF SettleHeld
  <2>2. Entered = {} /\ Entered' = {}
    <3>1. Entered = {}
      BY <2>1 DEF TInv, StackIsEntered
    <3> QED BY <1>0, <2>1, <3>1 DEF Entered
  <2>3. ownerOf = inflight /\ ownerOf' = inflight'
    BY <2>2 DEF Owner, EnteredAt, Entered, TInv, TurnsTypeOK
  <2>4. phaseOf = phase /\ phaseOf' = phase'
    BY <1>0, <2>1, <2>2 DEF Entered
  <2>5. Atomic!Awaiting(c) = Holding(c)
    BY <2>1, <2>4, HoldingIsAwaiting DEF Atomic!Awaiting
  <2> QED BY <2>1, <2>3, <2>4, <2>5 DEF Atomic!SettlePromise
<1>9. ASSUME NEW c \in Call, SettleTurn(c)
      PROVE  Atomic!Settle(c)
  <2>1. ASSUME NEW v \in Result, FulfilHeld(c, v) PROVE Atomic!Fulfil(c, v)
    BY <1>8, <2>1 DEF FulfilHeld, Atomic!Fulfil, Fulfilled, Atomic!Fulfilled
  <2>2. ASSUME NEW e \in Failure, RejectHeld(c, e) PROVE Atomic!Reject(c, e)
    BY <1>8, <2>2 DEF RejectHeld, Atomic!Reject, Rejected, Atomic!Rejected
  <2> QED BY <1>9, <2>1, <2>2 DEF SettleTurn, Atomic!Settle
<1>10. ASSUME NEW c \in Call, Resend(c)
       PROVE  Atomic!Again(c)
  BY <1>4, <1>10 DEF Resend, Again, Atomic!Again, Unsettled, Atomic!Unsettled
<1>11. ASSUME UNCHANGED <<inflight, phase>>
       PROVE  UNCHANGED <<ownerOf, phaseOf>>
  BY <1>11 DEF Owner, EnteredAt
<1>12. CASE Tick
  <2>1. Atomic!Tick
    BY <1>11, <1>12 DEF Tick, Atomic!Tick
  <2> QED BY <2>1 DEF Atomic!Next
<1>13. CASE UNCHANGED turnsVars
  BY <1>11, <1>13 DEF turnsVars, vars, Atomic!vars
<1>14. ASSUME NEW c \in Call, RunTurn(c)
       PROVE  Atomic!Run(c)
  BY <1>1, <1>2, <1>3, <1>5, <1>6, <1>14 DEF RunTurn, Atomic!Run
<1>15. ASSUME NEW c \in Call, RunTurn(c) \/ SettleTurn(c) \/ Resend(c)
       PROVE  Atomic!Next
  BY <1>9, <1>10, <1>14, <1>15 DEF Atomic!Next
<1> HIDE DEF ownerOf, phaseOf
<1> QED BY <1>7, <1>12, <1>13, <1>15 DEF TurnsNext

\* The store taken apart in turns implements the store of Idempotency, where an
\* execution begins and registers its promise in one step, if no fn throws at
\* once and none runs a key of its own in its first turn.
THEOREM TurnsImplementation == Disciplined => (TurnsSpec => ImplementsStore)
<1> SUFFICES ASSUME Disciplined PROVE TurnsSpec => ImplementsStore
  OBVIOUS
<1>1. TInv /\ [TurnsNext]_turnsVars => TInv'
  BY TurnsNextInv
<1>2. TInv /\ TInv' /\ [TurnsNext]_turnsVars => [Atomic!Next]_(Atomic!vars)
  BY TurnsNextRefines
<1> QED
  BY <1>1, <1>2, TurnsInitInv, TurnsInitRefines, PTL DEF TurnsSpec, ImplementsStore, Atomic!Spec

=============================================================================
