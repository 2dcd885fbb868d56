-------------------------- MODULE Middleware_proofs -------------------------
(***************************************************************************)
(* Theorems about Middleware, for every set of requests, callers, commands,*)
(* names, keys and windows, and whichever adapter calls throw: its types,  *)
(* whose values are answered, and what counters, spans and logs tell.      *)
(***************************************************************************)
EXTENDS Middleware, FiniteSetTheorems, SequenceTheorems, TLAPS

\* A run of the store that somebody may make.
Active(u) == /\ Authorized(u[1])
             /\ IF u[2] = "command" THEN Idempotent(u[1]) ELSE u[1] \in Keyed

\* The value v may be given to the run u.
Good(u, v) == /\ v \in Request /\ Authorized(v) /\ WorkDone(v)
              /\ v \in Sharing /\ WorkKey(v) \in Reach[RunKey[u]]

\* The call of the handler by p may return the value q.
Source(p, q) == /\ Authorized(p)
                /\ IF Idempotent(p) THEN Good(Inner(p), q)
                   ELSE q = p /\ returned[p] = Fulfilled(p)

Live(k) == cache[k].expiresAt > now

\* What the store settles with.
Failures == {"Failed", "MetricsError"}
StoreSettlement == [status : {"pending"}, value : {NoValue}]
                   \cup [status : {"fulfilled"}, value : Request]
                   \cup [status : {"rejected"}, value : Failures]
OutcomesTyped == outcome \in [Run -> StoreSettlement]
LiveIsResult == \A k \in Key : Live(k) => cache[k].value \in Request
PendingUnlessDone == \A u \in Run : phase[u] # "done" => outcome[u] = Unsettled
RunsActive == \A u \in Run : phase[u] # "idle" => Active(u)
OutcomesGood == \A u \in Run, v \in Request : outcome[u] = Fulfilled(v) => Good(u, v)
CacheGood == \A u \in Run, v \in Request :
    Active(u) /\ Live(RunKey[u]) /\ cache[RunKey[u]].value = v => Good(u, v)

\* Runs in their first turn are in progress, what is registered for a key is a
\* run of that key, and so is what whoever joined waits for.
Turns == /\ \A i \in DOMAIN stack : phase[stack[i]] \in {"entered", "running"}
         /\ \A k \in Key : inflight[k] # NoCall => RunKey[inflight[k]] = k
         /\ \A u \in Run : phase[u] = "joined" => /\ awaits[u] \in Run
                                                  /\ RunKey[awaits[u]] = RunKey[u]
         /\ \A k \in Key : left[k] = Unsettled

StoreInv == /\ Store!TurnsTypeOK /\ OutcomesTyped /\ LiveIsResult /\ PendingUnlessDone
            /\ RunsActive /\ OutcomesGood /\ CacheGood /\ Turns

\* Types of the other variables.
RequestTypes ==
    /\ stage \in [Request -> {"verify", "await", "answered"}]
    /\ handler \in [Request -> {"no", "called", "inside"}]
    /\ returned \in [Request -> Settlement]
    /\ answer \in [Request -> Settlement]
    /\ span \in [Request -> [ended : BOOLEAN, started : BOOLEAN, exceptions : {0, 2}]]
    /\ log \in [Request -> Seq({"enter", "exit", "error"})]
    /\ counters \in [Command \X Tenant \X {"ok", "error"} -> Nat]
    /\ observations \in [Command \X Tenant -> Nat]
    /\ faults \subseteq Fallible

\* What each request has left in its span and log, at each stage.
Admitted(r) == Authorized(r) /\ <<r, "enter">> \notin faults
Told(r) ==
    /\ Admitted(r) => settled(r) # Unsettled
    /\ span[r].ended <=> Admitted(r)
    /\ span[r].exceptions # 0 <=> Admitted(r) /\ settled(r).status = "rejected"
    /\ Admitted(r) <=> log[r] # <<>> /\ Head(log[r]) = "enter"
    /\ log[r] = <<"enter", "exit">> <=> answer[r].status = "fulfilled"
RequestOK(r) ==
    /\ handler[r] # "no" => Authorized(r)
    /\ returned[r] = Unsettled => <<r, "observe">> \notin faults
    /\ At(r, "verify") => /\ <<r, "enter">> \notin faults
                          /\ span[r] = NoSpan /\ log[r] = <<>>
                          /\ answer[r] = Unsettled
    /\ At(r, "await") => /\ Admitted(r)
                         /\ span[r] = [NoSpan EXCEPT !.started = TRUE]
                         /\ log[r] = <<"enter">>
                         /\ answer[r] = Unsettled
    /\ At(r, "answered") => Told(r)
RequestsOK == \A r \in Request : RequestOK(r)

\* Values that calls of the handler returned, and that requests were answered.
ReturnsEarned == \A r, q \in Request : returned[r] = Fulfilled(q) => Source(r, q)

\* The counted sets are finite.
Executions == {r \in Request : returned[r] # Unsettled}
Counted == IsFiniteSet(Executions) /\ MetricsCountExecutions

IInv == /\ RequestTypes /\ StoreInv /\ RequestsOK /\ ReturnsEarned
        /\ AnswersEarned /\ Counted

-----------------------------------------------------------------------------
(* Keys and values. *)

LEMMA RunFacts ==
    /\ \A r \in Request : Outer(r) \in Run /\ Inner(r) \in Run
    /\ \A u \in Run : u[1] \in Request /\ u[2] \in {"middleware", "command"}
    /\ \A u \in Run : u = IF u[2] = "command" THEN Inner(u[1]) ELSE Outer(u[1])
    /\ \A r \in Request : Outer(r)[1] = r /\ Outer(r)[2] = "middleware"
    /\ \A r \in Request : Inner(r)[1] = r /\ Inner(r)[2] = "command"
    /\ Ttl \in [Run -> Nat \ {0}] /\ NoCall \notin Run /\ NoValue \notin Request
    /\ "command" # "middleware"
BY BoundsAssumption DEF Outer, Inner, Run

LEMMA SettlementFacts ==
    /\ Unsettled \in Settlement /\ Unsettled.status = "pending"
    /\ \A q \in Request : Fulfilled(q) \in Settlement
    /\ \A e \in Errors : Rejected(e) \in Settlement
    /\ \A v : Fulfilled(v) # Unsettled /\ Fulfilled(v).status = "fulfilled" /\ Fulfilled(v).value = v
    /\ \A e : Rejected(e) # Unsettled /\ Rejected(e).status = "rejected"
    /\ \A o \in Settlement : o.status = "fulfilled" => o.value \in Request /\ o = Fulfilled(o.value)
    /\ \A o \in Settlement : o.status = "rejected" => o.value \in Errors /\ o = Rejected(o.value)
    /\ \A o \in Settlement : o # Unsettled => o.status \in {"fulfilled", "rejected"}
    /\ "Failed" \in Failures /\ "MetricsError" \in Failures /\ "LogError" \in Errors
    /\ "Forbidden" \in Errors /\ "Unauthorized" \in Errors /\ Failures \subseteq Errors
    /\ Unsettled \in StoreSettlement /\ StoreSettlement \subseteq Settlement
    /\ \A q \in Request : Fulfilled(q) \in StoreSettlement
    /\ \A e \in Failures : Rejected(e) \in StoreSettlement
    /\ \A o \in StoreSettlement : o.status = "rejected" => o.value \in Failures /\ o = Rejected(o.value)
    /\ \A e, v : Rejected(e) # Fulfilled(v)
<1> USE DEF Unsettled, Fulfilled, Rejected, Store!Unsettled, Store!Fulfilled, Store!Rejected
<1>1. /\ Unsettled \in Settlement /\ Unsettled.status = "pending"
      /\ \A q \in Request : Fulfilled(q) \in Settlement
      /\ \A e \in Errors : Rejected(e) \in Settlement
  BY DEF Settlement
<1>2. /\ \A v : Fulfilled(v) # Unsettled /\ Fulfilled(v).status = "fulfilled" /\ Fulfilled(v).value = v
      /\ \A e : Rejected(e) # Unsettled /\ Rejected(e).status = "rejected"
  OBVIOUS
<1>3. ASSUME NEW o \in Settlement, o.status = "fulfilled"
      PROVE  o.value \in Request /\ o = Fulfilled(o.value)
  BY <1>3 DEF Settlement
<1>4. ASSUME NEW o \in Settlement, o.status = "rejected"
      PROVE  o.value \in Errors /\ o = Rejected(o.value)
  BY <1>4 DEF Settlement
<1>5. ASSUME NEW o \in Settlement, o # Unsettled
      PROVE  o.status \in {"fulfilled", "rejected"}
  BY <1>5 DEF Settlement
<1>6. /\ "Failed" \in Failures /\ "MetricsError" \in Failures /\ "LogError" \in Errors
      /\ "Forbidden" \in Errors /\ "Unauthorized" \in Errors /\ Failures \subseteq Errors
  BY DEF Errors, Failures
<1>7. /\ Unsettled \in StoreSettlement /\ StoreSettlement \subseteq Settlement
      /\ \A q \in Request : Fulfilled(q) \in StoreSettlement
      /\ \A e \in Failures : Rejected(e) \in StoreSettlement
  BY <1>6 DEF Settlement, StoreSettlement
<1>8. ASSUME NEW o \in StoreSettlement, o.status = "rejected"
      PROVE  o.value \in Failures /\ o = Rejected(o.value)
  BY <1>8 DEF StoreSettlement
<1>9. \A e, v : Rejected(e) # Fulfilled(v)
  OBVIOUS
<1> QED BY <1>1, <1>2, <1>3, <1>4, <1>5, <1>6, <1>7, <1>8, <1>9

\* The keys of the runs that are made are strings the store knows.
LEMMA RequestKeys ==
    ASSUME NEW r \in Request, Authorized(r)
    PROVE  /\ fullKey(r) \in Key
           /\ Idempotent(r) => commandKey(r) \in Key
           /\ FirstKey(r) = IF r \in Keyed THEN fullKey(r) ELSE commandKey(r)
           /\ WorkKey(r) = IF Idempotent(r) THEN commandKey(r) ELSE fullKey(r)
<1>1. tenantOf(r) \in Tenant /\ CommandOf[r] \in Command
  BY RequestsAssumption DEF Authorized, tenantOf, Principal
<1>2. Idempotent(r) => ClassName[CommandOf[r]] \in Command
  BY <1>1, RequestsAssumption DEF Idempotent
<1>3. fullKey(r) \in Key /\ (Idempotent(r) => commandKey(r) \in Key)
  BY <1>1, <1>2 DEF fullKey, commandKey, Key
<1> QED BY <1>3 DEF fullKey, commandKey, FirstKey, WorkKey, Named

LEMMA RunKeys ==
    /\ \A r \in Request : RunKey[Outer(r)] = fullKey(r)
    /\ \A r \in Request : Idempotent(r) => RunKey[Inner(r)] = commandKey(r)
BY RunFacts DEF RunKey

LEMMA KeyKnown == ASSUME NEW u \in Run, Active(u) PROVE RunKey[u] \in Key
<1>1. u[1] \in Request /\ Authorized(u[1])
  BY RunFacts DEF Active
<1>2. RunKey[u] = fullKey(u[1]) \/ (Idempotent(u[1]) /\ RunKey[u] = commandKey(u[1]))
  BY DEF RunKey
<1> QED BY <1>1, <1>2, RequestKeys

\* A key leads to itself, and that of the middleware to that of the command.
LEMMA ReachFacts ==
    /\ \A k \in Key : Reach[k] = {j \in Key : \A S \in ClosedBelow : k \in S => j \in S}
    /\ \A k \in Key : k \in Reach[k]
    /\ \A r \in Keyed : Authorized(r) /\ Idempotent(r) => Reach[commandKey(r)] \subseteq Reach[fullKey(r)]
<1>1. \A k \in Key : Reach[k] = {j \in Key : \A S \in ClosedBelow : k \in S => j \in S}
  BY DEF Reach
<1>2. \A k \in Key : k \in Reach[k]
  BY <1>1
<1>3. ASSUME NEW r \in Keyed, Authorized(r), Idempotent(r)
      PROVE  Reach[commandKey(r)] \subseteq Reach[fullKey(r)]
  <2>1. r \in Request
    BY RequestsAssumption
  <2>2. fullKey(r) \in Key /\ commandKey(r) \in Key
    BY <1>3, <2>1, RequestKeys
  <2>3. <<fullKey(r), commandKey(r)>> \in Below
    BY <1>3 DEF Below, Named, fullKey, commandKey
  <2>4. \A S \in ClosedBelow : fullKey(r) \in S => commandKey(r) \in S
    <3> DEFINE e == <<fullKey(r), commandKey(r)>>
    <3>1. \A S \in ClosedBelow : e[1] \in S => e[2] \in S
      BY <2>3 DEF ClosedBelow
    <3> QED BY <3>1
  <2> QED BY <1>1, <2>2, <2>4
<1> QED BY <1>1, <1>2, <1>3

\* What may be given to a run may be given to every run of its key.
LEMMA KeyTellsRun ==
    ASSUME NEW u, NEW w, RunKey[u] = RunKey[w], NEW v
    PROVE  /\ Good(u, v) => Good(w, v)
           /\ Good(u, v)' => Good(w, v)'
BY DEF Good

\* What a call of the handler returned, and what a run settled with, stays.
Keeps == \A p \in Request : returned[p] # Unsettled => returned'[p] = returned[p]
StoreKeeps == \A u \in Run : outcome[u] # Unsettled => outcome'[u] = outcome[u]

LEMMA WorkPersists ==
    ASSUME Keeps, StoreKeeps, NEW q \in Request, WorkDone(q) PROVE WorkDone(q)'
<1>1. Fulfilled(q) # Unsettled /\ Inner(q) \in Run /\ Fulfilled(q)' = Fulfilled(q)
  BY SettlementFacts, RunFacts DEF Fulfilled, Store!Fulfilled
<1> QED BY <1>1 DEF WorkDone, Keeps, StoreKeeps, Idempotent, Inner

LEMMA GoodPersists ==
    ASSUME Keeps, StoreKeeps, NEW u, NEW v, Good(u, v) PROVE Good(u, v)'
<1>1. WorkDone(v)'
  BY WorkPersists DEF Good
<1> QED BY <1>1 DEF Good, Authorized, Sharing, Idempotent

LEMMA SourcePersists ==
    ASSUME Keeps, StoreKeeps, NEW p \in Request, NEW q, Source(p, q) PROVE Source(p, q)'
<1>1. Good(Inner(p), q) => Good(Inner(p), q)'
  BY GoodPersists
<1>2. returned[p] = Fulfilled(p) => returned'[p] = Fulfilled(p)
  BY SettlementFacts DEF Keeps
<1> QED BY <1>1, <1>2 DEF Source, Authorized, Idempotent, Inner, Fulfilled, Store!Fulfilled

\* What a call returned may be given to the middleware's run around it.
LEMMA SourceGood ==
    ASSUME NEW r \in Keyed, Authorized(r), NEW q, Source(r, q)'
    PROVE  Good(Outer(r), q)'
<1>1. r \in Request
  BY RequestsAssumption
<1>2. CASE Idempotent(r)
  <2>1. Reach[RunKey[Inner(r)]] \subseteq Reach[RunKey[Outer(r)]]
    BY <1>1, <1>2, RunKeys, ReachFacts
  <2>2. Good(Inner(r), q)'
    BY <1>2 DEF Source, Idempotent
  <2> QED BY <2>1, <2>2 DEF Good, Inner, Outer
<1>3. CASE ~Idempotent(r)
  <2>1. WorkKey(r) = fullKey(r) /\ fullKey(r) \in Key /\ r \in Sharing
    BY <1>1, <1>3, RequestKeys DEF Sharing
  <2>2. WorkKey(r) \in Reach[RunKey[Outer(r)]]
    BY <1>1, <2>1, RunKeys, ReachFacts
  <2>3. q = r /\ WorkDone(r)'
    BY <1>3 DEF Source, WorkDone, Idempotent
  <2> QED BY <1>1, <2>1, <2>2, <2>3 DEF Good, Authorized, Sharing, Idempotent, Outer
<1> QED BY <1>2, <1>3

-----------------------------------------------------------------------------
(* The store. *)

\* What run u may do in the store.
StoreMove(u) ==
    \/ UNCHANGED storeVars
    \/ Store!Enter(u) \/ Store!Suspend(u) \/ Store!Replay(u) \/ Store!JoinPromise(u)
    \/ \E q \in Request : Store!FulfilHeld(u, q) /\ Good(u, q)'
    \/ \E e \in Failures : Store!RejectHeld(u, e)

\* The run in its first turn that comes to its await.
LEMMA StackTop ==
    ASSUME StoreInv, NEW u, Store!Suspend(u)
    PROVE  /\ u \in Run /\ phase[u] \in {"entered", "running"} /\ Active(u)
           /\ stack' \in Seq(Run)
           /\ \A i \in DOMAIN stack' : i \in DOMAIN stack /\ stack'[i] = stack[i]
<1>1. stack \in Seq(Run) /\ stack # <<>> /\ u = stack[Len(stack)] /\ stack' = SubSeq(stack, 1, Len(stack) - 1)
  BY DEF StoreInv, Store!TurnsTypeOK, Store!Suspend, Store!Last, Store!Front
<1>2. Len(stack) \in DOMAIN stack
  BY <1>1
<1>3. u \in Run /\ phase[u] \in {"entered", "running"}
  BY <1>1, <1>2 DEF StoreInv, Turns
<1>4. Active(u)
  BY <1>3 DEF StoreInv, RunsActive
<1>5. stack' \in Seq(Run) /\ \A i \in DOMAIN stack' : i \in DOMAIN stack /\ stack'[i] = stack[i]
  BY <1>1
<1> QED BY <1>3, <1>4, <1>5

\* A run that starts, comes to an await, joins or is answered from the cache.
LEMMA EnterStore ==
    ASSUME StoreInv, Keeps, NEW u \in Run, Active(u),
           Store!Enter(u) \/ Store!Suspend(u) \/ Store!Replay(u) \/ Store!JoinPromise(u)
    PROVE  StoreInv' /\ StoreKeeps
<1> USE DEF Store!vars, Store!turnVars
<1>1. RunKey[u] \in Key /\ now' = now /\ cache' = cache
  BY KeyKnown DEF Store!Enter, Store!Suspend, Store!Replay, Store!ReturnCached, Store!JoinPromise
<1>2. /\ phase \in [Run -> {"idle", "entered", "running", "joined", "done"}]
      /\ outcome \in [Run -> StoreSettlement] /\ stack \in Seq(Run)
      /\ inflight \in [Key -> Run \cup {NoCall}] /\ awaits \in [Run -> Run \cup {NoCall}]
      /\ left \in [Key -> Store!Outcome] /\ cache \in [Key -> Store!Entry] /\ now \in Nat
  BY DEF StoreInv, Store!TurnsTypeOK, OutcomesTyped
<1>3. /\ phase[u] \in {"idle", "entered", "running"} /\ outcome[u] = Unsettled
      /\ \E ph \in {"entered", "running", "done", "joined"} : phase' = [phase EXCEPT ![u] = ph]
  <2>1. CASE Store!Suspend(u)
    BY <2>1, StackTop DEF StoreInv, PendingUnlessDone, Store!Suspend
  <2>2. CASE ~Store!Suspend(u)
    BY <2>2 DEF StoreInv, PendingUnlessDone, Store!Enter, Store!Replay, Store!ReturnCached,
                Store!JoinPromise, Store!FindPromise
  <2> QED BY <2>1, <2>2
<1>4. \/ outcome' = outcome /\ phase'[u] # "done"
      \/ /\ Live(RunKey[u]) /\ phase'[u] = "done"
         /\ outcome' = [outcome EXCEPT ![u] = Fulfilled(cache[RunKey[u]].value)]
  BY <1>2 DEF Store!Enter, Store!Suspend, Store!Replay, Store!ReturnCached, Store!JoinPromise,
              Store!FindPromise, Store!Live, Live, Fulfilled
<1>5. Live(RunKey[u]) => cache[RunKey[u]].value \in Request
                         /\ Good(u, cache[RunKey[u]].value)
                         /\ Fulfilled(cache[RunKey[u]].value) \in StoreSettlement
  BY <1>1, SettlementFacts DEF StoreInv, LiveIsResult, CacheGood
<1>6. StoreKeeps
  BY <1>2, <1>3, <1>4 DEF StoreKeeps
<1>7. OutcomesTyped'
  BY <1>2, <1>4, <1>5 DEF OutcomesTyped
<1>8. Store!TurnsTypeOK' /\ Turns'
  <2>0. /\ StoreSettlement \subseteq Store!Outcome /\ Store!Unsettled \in Store!Outcome
        /\ phase' \in [Run -> {"idle", "entered", "running", "joined", "done"}]
        /\ \A w \in Run : w # u => phase'[w] = phase[w]
    BY <1>2, <1>3 DEF StoreSettlement, Store!Outcome, Store!Unsettled, Failures
  <2>1. outcome' \in [Run -> Store!Outcome] /\ now' \in Nat /\ cache' \in [Key -> Store!Entry]
    BY <1>1, <1>2, <1>7, <2>0 DEF OutcomesTyped
  <2>2. CASE Store!Enter(u)
    <3>1. /\ UNCHANGED <<inflight, awaits, left>> /\ phase'[u] = "entered" /\ phase[u] = "idle"
          /\ stack' = Append(stack, u)
      BY <1>2, <2>2 DEF Store!Enter
    <3>2. stack' \in Seq(Run)
      BY <1>2, <3>1
    <3>3. \A i \in DOMAIN stack' : stack'[i] = u \/ (i \in DOMAIN stack /\ stack'[i] = stack[i])
      BY <1>2, <3>1
    <3>4. \A i \in DOMAIN stack : stack[i] \in Run /\ phase[stack[i]] \in {"entered", "running"}
      BY <1>2 DEF StoreInv, Turns
    <3>5. \A i \in DOMAIN stack' : phase'[stack'[i]] \in {"entered", "running"}
      BY <2>0, <3>1, <3>3, <3>4
    <3>6. Turns'
      BY <2>0, <3>1, <3>5 DEF StoreInv, Turns
    <3> QED BY <1>2, <2>0, <2>1, <3>1, <3>2, <3>6 DEF Store!TurnsTypeOK
  <2>3. CASE Store!Suspend(u)
    <3>1. /\ inflight' = [inflight EXCEPT ![RunKey[u]] = u] /\ phase'[u] = "running"
          /\ left' = [left EXCEPT ![RunKey[u]] = Store!Unsettled] /\ awaits' = awaits
      BY <1>2, <2>3 DEF Store!Suspend
    <3>2. /\ stack' \in Seq(Run)
          /\ \A i \in DOMAIN stack' : i \in DOMAIN stack /\ stack'[i] = stack[i]
      BY <2>3, StackTop
    <3>3. \A i \in DOMAIN stack : stack[i] \in Run /\ phase[stack[i]] \in {"entered", "running"}
      BY <1>2 DEF StoreInv, Turns
    <3>4. \A i \in DOMAIN stack' : phase'[stack'[i]] \in {"entered", "running"}
      BY <2>0, <3>1, <3>2, <3>3
    <3>5. \A k \in Key : inflight'[k] # NoCall => RunKey[inflight'[k]] = k
      BY <1>1, <1>2, <3>1 DEF StoreInv, Turns
    <3>6. Turns'
      BY <1>1, <1>2, <2>0, <3>1, <3>4, <3>5 DEF StoreInv, Turns, Unsettled, Store!Unsettled
    <3>7. inflight' \in [Key -> Run \cup {NoCall}] /\ left' \in [Key -> Store!Outcome]
      BY <1>2, <2>0, <3>1
    <3> QED BY <1>2, <2>0, <2>1, <3>1, <3>2, <3>6, <3>7 DEF Store!TurnsTypeOK
  <2>4. CASE Store!Replay(u)
    <3>1. UNCHANGED <<inflight, awaits, left, stack>> /\ phase'[u] = "done" /\ phase[u] = "idle"
      BY <1>2, <2>4 DEF Store!Replay, Store!ReturnCached
    <3>2. \A i \in DOMAIN stack : stack[i] \in Run /\ phase[stack[i]] \in {"entered", "running"}
      BY <1>2 DEF StoreInv, Turns
    <3>3. Turns'
      BY <2>0, <3>1, <3>2 DEF StoreInv, Turns
    <3> QED BY <1>2, <2>0, <2>1, <3>1, <3>3 DEF Store!TurnsTypeOK
  <2>5. CASE Store!JoinPromise(u)
    <3>1. /\ UNCHANGED <<inflight, left, stack>> /\ phase'[u] = "joined" /\ phase[u] = "idle"
          /\ awaits' = [awaits EXCEPT ![u] = inflight[RunKey[u]]] /\ inflight[RunKey[u]] # NoCall
      BY <1>2, <2>5 DEF Store!JoinPromise, Store!FindPromise
    <3>2. \A i \in DOMAIN stack : stack[i] \in Run /\ phase[stack[i]] \in {"entered", "running"}
      BY <1>2 DEF StoreInv, Turns
    <3>3. inflight[RunKey[u]] \in Run /\ RunKey[inflight[RunKey[u]]] = RunKey[u]
      BY <1>1, <1>2, <3>1 DEF StoreInv, Turns
    <3>4. \A w \in Run : phase'[w] = "joined" => awaits'[w] \in Run /\ RunKey[awaits'[w]] = RunKey[w]
      BY <1>2, <2>0, <3>1, <3>3 DEF StoreInv, Turns
    <3>5. Turns'
      BY <2>0, <3>1, <3>2, <3>4 DEF StoreInv, Turns
    <3>6. awaits' \in [Run -> Run \cup {NoCall}]
      BY <1>2, <3>1, <3>3
    <3> QED BY <1>2, <2>0, <2>1, <3>1, <3>5, <3>6 DEF Store!TurnsTypeOK
  <2> QED BY <2>2, <2>3, <2>4, <2>5
<1>9. LiveIsResult'
  BY <1>1 DEF StoreInv, LiveIsResult, Live
<1>10. PendingUnlessDone'
  BY <1>2, <1>3, <1>4 DEF StoreInv, PendingUnlessDone
<1>11. RunsActive'
  BY <1>2, <1>3 DEF StoreInv, RunsActive, Active, Authorized, Idempotent
<1>12. OutcomesGood'
  <2> SUFFICES ASSUME NEW w \in Run, NEW v \in Request, outcome'[w] = Fulfilled(v)
               PROVE  Good(w, v)'
    BY DEF OutcomesGood, Fulfilled, Store!Fulfilled
  <2>1. CASE outcome'[w] = outcome[w]
    BY <1>6, <2>1, GoodPersists DEF StoreInv, OutcomesGood
  <2>2. CASE outcome'[w] # outcome[w]
    <3>1. w = u /\ Live(RunKey[u]) /\ outcome'[u] = Fulfilled(cache[RunKey[u]].value)
      BY <1>2, <1>4, <2>2
    <3>2. v = cache[RunKey[u]].value
      BY <3>1, SettlementFacts
    <3> QED BY <1>5, <1>6, <3>1, <3>2, GoodPersists
  <2> QED BY <2>1, <2>2
<1>13. CacheGood'
  <2>1. \A w \in Run, v \in Request : Good(w, v) => Good(w, v)'
    BY <1>6, GoodPersists
  <2> QED BY <1>1, <2>1 DEF StoreInv, CacheGood, Live, Active, Authorized, Idempotent
<1> QED BY <1>6, <1>7, <1>8, <1>9, <1>10, <1>11, <1>12, <1>13 DEF StoreInv

\* Nobody whose promise settles had an outcome yet.
LEMMA HeldKeeps ==
    ASSUME StoreInv, NEW u \in Run, NEW o, Store!SettleHeld(u, o)
    PROVE  /\ StoreKeeps
           /\ \A w \in Store!Holding(u) : /\ w \in Run /\ RunKey[w] = RunKey[u] /\ Active(w)
                                          /\ phase[w] # "done" /\ outcome[w] = Unsettled
<1>1. /\ phase[u] = "running"
      /\ outcome' = [w \in Run |-> IF w \in Store!Holding(u) THEN o ELSE outcome[w]]
  BY DEF Store!SettleHeld
<1>2. \A w \in Store!Holding(u) : /\ w \in Run /\ RunKey[w] = RunKey[u] /\ Active(w)
                                  /\ phase[w] # "done" /\ outcome[w] = Unsettled
  BY <1>1 DEF Store!Holding, StoreInv, RunsActive, PendingUnlessDone, Turns
<1> QED BY <1>1, <1>2 DEF StoreKeeps

\* A run that settles, and everybody who joined it.
LEMMA SettleStore ==
    ASSUME StoreInv, Keeps, NEW u \in Run, Active(u),
           \/ \E q \in Request : Store!FulfilHeld(u, q) /\ Good(u, q)'
           \/ \E e \in Failures : Store!RejectHeld(u, e)
    PROVE  StoreInv' /\ StoreKeeps
<1> DEFINE k == RunKey[u] W == Store!Holding(u)
<1>1. k \in Key /\ Ttl[u] \in Nat
  BY KeyKnown, RunFacts
<1>2. /\ phase \in [Run -> {"idle", "entered", "running", "joined", "done"}]
      /\ outcome \in [Run -> StoreSettlement] /\ stack \in Seq(Run)
      /\ inflight \in [Key -> Run \cup {NoCall}] /\ awaits \in [Run -> Run \cup {NoCall}]
      /\ left \in [Key -> Store!Outcome] /\ now \in Nat /\ cache \in [Key -> Store!Entry]
  BY DEF StoreInv, Store!TurnsTypeOK, OutcomesTyped
<1>3. PICK o \in StoreSettlement :
         /\ Store!SettleHeld(u, o) /\ o # Unsettled
         /\ \A v \in Request : o = Fulfilled(v) => Good(u, v)'
         /\ \/ cache' = cache
            \/ /\ o.value \in Request /\ o = Fulfilled(o.value)
               /\ cache' = [cache EXCEPT ![k] = [expiresAt |-> now + Ttl[u], value |-> o.value]]
  <2>1. CASE \E q \in Request : Store!FulfilHeld(u, q) /\ Good(u, q)'
    <3>1. PICK q \in Request : Store!FulfilHeld(u, q) /\ Good(u, q)'
      BY <2>1
    <3>2. /\ Store!SettleHeld(u, Fulfilled(q))
          /\ cache' = [cache EXCEPT ![k] = [expiresAt |-> now + Ttl[u], value |-> q]]
      BY <3>1 DEF Store!FulfilHeld, Fulfilled
    <3>3. /\ Fulfilled(q) \in StoreSettlement /\ Fulfilled(q) # Unsettled /\ Fulfilled(q).value = q
          /\ \A v : Fulfilled(q) = Fulfilled(v) => v = q
      BY SettlementFacts
    <3>4. ASSUME NEW v \in Request, Fulfilled(q) = Fulfilled(v) PROVE Good(u, v)'
      BY <3>1, <3>3, <3>4
    <3> QED BY <3>2, <3>3, <3>4
  <2>2. ASSUME NEW e \in Failures, Store!RejectHeld(u, e)
        PROVE  /\ Rejected(e) \in StoreSettlement /\ Rejected(e) # Unsettled
               /\ \A v : Rejected(e) # Fulfilled(v)
               /\ Store!SettleHeld(u, Rejected(e)) /\ cache' = cache
    <3>1. Rejected(e) \in StoreSettlement /\ Rejected(e) # Unsettled /\ \A v : Rejected(e) # Fulfilled(v)
      BY SettlementFacts
    <3> QED BY <2>2, <3>1 DEF Store!RejectHeld, Rejected
  <2> QED BY <2>1, <2>2
<1>4. /\ phase[u] = "running" /\ stack = <<>> /\ stack' = stack /\ now' = now
      /\ phase' = [w \in Run |-> IF w \in W THEN "done" ELSE phase[w]]
      /\ outcome' = [w \in Run |-> IF w \in W THEN o ELSE outcome[w]]
      /\ awaits' = [w \in Run |-> IF w \in W THEN NoCall ELSE awaits[w]]
      /\ inflight' = [inflight EXCEPT ![k] = NoCall]
      /\ left' = [left EXCEPT ![k] = Store!Unsettled]
  BY <1>3 DEF Store!SettleHeld
<1>5. StoreKeeps /\ \A w \in W : /\ w \in Run /\ RunKey[w] = k /\ Active(w)
                                 /\ phase[w] # "done" /\ outcome[w] = Unsettled
  BY <1>3, HeldKeeps
<1> HIDE DEF W
<1>6. \A w \in Run, v \in Request : Good(w, v) => Good(w, v)'
  BY <1>5, GoodPersists
<1>7. OutcomesTyped'
  BY <1>2, <1>3, <1>4 DEF OutcomesTyped
<1>8. Store!TurnsTypeOK'
  <2>1. StoreSettlement \subseteq Store!Outcome /\ Store!Unsettled \in Store!Outcome
    BY DEF StoreSettlement, Store!Outcome, Store!Unsettled, Failures
  <2>2. \A v \in Request : [expiresAt |-> now + Ttl[u], value |-> v] \in Store!Entry
    BY <1>1, <1>2 DEF Store!Entry
  <2>3. cache' \in [Key -> Store!Entry]
    BY <1>2, <1>3, <2>2
  <2>4. outcome' \in [Run -> Store!Outcome]
    BY <1>7, <2>1 DEF OutcomesTyped
  <2>5. /\ phase' \in [Run -> {"idle", "entered", "running", "joined", "done"}]
        /\ awaits' \in [Run -> Run \cup {NoCall}]
        /\ inflight' \in [Key -> Run \cup {NoCall}] /\ left' \in [Key -> Store!Outcome]
    BY <1>2, <1>4, <2>1
  <2> QED BY <1>2, <1>4, <2>3, <2>4, <2>5 DEF Store!TurnsTypeOK
<1>9. LiveIsResult'
  BY <1>1, <1>2, <1>3, <1>4 DEF StoreInv, LiveIsResult, Live
<1>10. PendingUnlessDone'
  BY <1>4 DEF StoreInv, PendingUnlessDone
<1>11. RunsActive'
  <2>1. \A w \in Run : Active(w)' <=> Active(w)
    BY DEF Active, Authorized, Idempotent
  <2> QED BY <1>4, <1>5, <2>1 DEF StoreInv, RunsActive
<1>12. Turns'
  <2>1. \A j \in Key : inflight'[j] # NoCall => RunKey[inflight'[j]] = j
    BY <1>1, <1>2, <1>4 DEF StoreInv, Turns
  <2>2. \A w \in Run : phase'[w] = "joined" => awaits'[w] \in Run /\ RunKey[awaits'[w]] = RunKey[w]
    BY <1>4 DEF StoreInv, Turns
  <2>3. \A j \in Key : left'[j] = Unsettled
    BY <1>1, <1>2, <1>4 DEF StoreInv, Turns, Unsettled
  <2> QED BY <1>4, <2>1, <2>2, <2>3 DEF Turns, Unsettled, Store!Unsettled
<1>13. OutcomesGood'
  <2> SUFFICES ASSUME NEW w \in Run, NEW v \in Request, outcome'[w] = Fulfilled(v)
               PROVE  Good(w, v)'
    BY DEF OutcomesGood, Fulfilled, Store!Fulfilled
  <2>1. CASE w \in W
    <3>1. o = Fulfilled(v)
      BY <1>4, <2>1
    <3>2. Good(u, v)'
      BY <1>3, <3>1
    <3> QED BY <1>5, <2>1, <3>2, KeyTellsRun
  <2>2. CASE w \notin W
    BY <1>4, <1>6, <2>2 DEF StoreInv, OutcomesGood
  <2> QED BY <2>1, <2>2
<1>14. CacheGood'
  <2> SUFFICES ASSUME NEW w \in Run, NEW v \in Request,
                      Active(w), Live(RunKey[w])', cache'[RunKey[w]].value = v
               PROVE  Good(w, v)'
    BY DEF CacheGood, Active, Authorized, Idempotent
  <2>1. RunKey[w] \in Key
    BY KeyKnown
  <2>2. CASE cache'[RunKey[w]] = cache[RunKey[w]]
    BY <1>4, <1>6, <2>2 DEF StoreInv, CacheGood, Live
  <2>3. CASE cache'[RunKey[w]] # cache[RunKey[w]]
    <3>1. RunKey[w] = k /\ v = o.value /\ o = Fulfilled(v)
      BY <1>1, <1>2, <1>3, <2>1, <2>3
    <3>2. Good(u, v)'
      BY <1>3, <3>1
    <3> QED BY <3>1, <3>2, KeyTellsRun
  <2> QED BY <2>2, <2>3
<1> QED BY <1>5, <1>7, <1>8, <1>9, <1>10, <1>11, <1>12, <1>13, <1>14 DEF StoreInv

LEMMA StoreSame ==
    ASSUME StoreInv, Keeps, UNCHANGED storeVars
    PROVE  StoreInv' /\ StoreKeeps
<1>1. StoreKeeps
  BY DEF storeVars, StoreKeeps
<1>2. \A w \in Run, v \in Request : Good(w, v) => Good(w, v)'
  BY <1>1, GoodPersists
<1> QED BY <1>1, <1>2
     DEF storeVars, StoreInv, Store!TurnsTypeOK, OutcomesTyped, LiveIsResult, PendingUnlessDone, RunsActive,
         OutcomesGood, CacheGood, Turns, Live, Active, Authorized, Idempotent

LEMMA StoreStep ==
    ASSUME StoreInv, Keeps, NEW u \in Run, Active(u) \/ UNCHANGED storeVars, StoreMove(u)
    PROVE  StoreInv' /\ StoreKeeps
BY StoreSame, EnterStore, SettleStore DEF StoreMove

\* As time passes, windows close.
LEMMA TickStore ==
    ASSUME StoreInv, Tick
    PROVE  StoreInv' /\ StoreKeeps
<1>1. /\ now \in Nat /\ now' = now + 1 /\ cache \in [Key -> Store!Entry]
      /\ UNCHANGED <<cache, phase, outcome, inflight, stack, awaits, left, returned>>
  BY DEF StoreInv, Store!TurnsTypeOK, Tick, Store!Tick
<1>2. Keeps /\ StoreKeeps
  BY <1>1 DEF Keeps, StoreKeeps
<1>3. \A w \in Run, v \in Request : Good(w, v) => Good(w, v)'
  BY <1>2, GoodPersists
<1>4. \A k \in Key : Live(k)' => Live(k)
  BY <1>1 DEF Live, Store!Entry
<1>5. \A u \in Run : Active(u) => RunKey[u] \in Key
  BY KeyKnown
<1>6. Store!TurnsTypeOK' /\ Turns'
  BY <1>1 DEF StoreInv, Store!TurnsTypeOK, Turns
<1>7. OutcomesTyped' /\ LiveIsResult' /\ PendingUnlessDone' /\ RunsActive'
  BY <1>1, <1>4
     DEF StoreInv, OutcomesTyped, LiveIsResult, PendingUnlessDone, RunsActive, Active, Authorized, Idempotent
<1>8. OutcomesGood'
  BY <1>1, <1>3 DEF StoreInv, OutcomesGood
<1>9. CacheGood'
  BY <1>1, <1>3, <1>4, <1>5 DEF StoreInv, CacheGood, Active, Authorized, Idempotent
<1> QED BY <1>2, <1>6, <1>7, <1>8, <1>9 DEF StoreInv

-----------------------------------------------------------------------------
(* What each step does with the store and with the calls of the handler. *)

LEMMA NextSteps ==
    ASSUME [Next]_vars
    PROVE  \/ UNCHANGED vars \/ Tick
           \/ \E r \in Request : \/ Refuse(r) \/ Admit(r) \/ EnterThrows(r) \/ RunCommand(r) \/ Suspend(r)
                                 \/ CommandSettles(r) \/ Return(r) \/ Answer(r)
BY DEF Next, Step

\* What a request takes from the call of its handler was earned by it.
LEMMA SettlementEarned ==
    ASSUME RequestTypes, StoreInv, RequestsOK, NEW r \in Request, NEW o \in Settlements(r)
    PROVE  /\ o \in StoreSettlement /\ o # Unsettled /\ Authorized(r)
           /\ \A q \in Request : o = Fulfilled(q) =>
                IF Idempotent(r) THEN Good(Inner(r), q) ELSE q = r
<1>1. Authorized(r)
  BY DEF RequestTypes, RequestsOK, RequestOK, Settlements
<1>2. CASE handler[r] = "called" /\ ~Idempotent(r)
  BY <1>1, <1>2, SettlementFacts DEF Settlements
<1>3. CASE ~(handler[r] = "called" /\ ~Idempotent(r))
  <2>1. o = outcome[Inner(r)] /\ o # Unsettled /\ Inner(r) \in Run
    BY <1>3, RunFacts DEF Settlements
  <2>2. phase[Inner(r)] = "done"
    BY <2>1 DEF StoreInv, PendingUnlessDone
  <2>3. Idempotent(r)
    BY <2>1, <2>2, RunFacts DEF StoreInv, RunsActive, Active
  <2>4. \A q \in Request : o = Fulfilled(q) => Good(Inner(r), q)
    BY <2>1 DEF StoreInv, OutcomesGood
  <2> QED BY <1>1, <2>1, <2>3, <2>4 DEF StoreInv, OutcomesTyped
<1> QED BY <1>2, <1>3

\* What it hands to the middleware's run of the store may be given to it.
LEMMA ReturnEarned ==
    ASSUME RequestTypes, StoreInv, RequestsOK, ReturnsEarned, NEW r \in Request, Return(r)
    PROVE  /\ Keeps /\ ReturnsEarned'
           /\ r \in Keyed => Active(Outer(r))
           /\ StoreMove(Outer(r)) /\ (r \notin Keyed => UNCHANGED storeVars)
<1>1. PICK o \in Settlements(r) : Measure(r, o) /\ returned' = [returned EXCEPT ![r] = o]
  BY DEF Return
<1>2. /\ o \in StoreSettlement /\ o # Unsettled /\ Authorized(r)
      /\ \A q \in Request : o = Fulfilled(q) => IF Idempotent(r) THEN Good(Inner(r), q) ELSE q = r
  BY SettlementEarned
<1>3. returned \in [Request -> Settlement] /\ returned[r] = Unsettled
  BY DEF RequestTypes, Return
<1>4. Keeps
  BY <1>1, <1>3 DEF Keeps
<1>5. \E out \in StoreSettlement : /\ out # Unsettled /\ Deliver(r, out)
                                   /\ \A q \in Request : out = Fulfilled(q) => o = Fulfilled(q)
  BY <1>1, <1>2, SettlementFacts DEF Measure
<1>6. StoreKeeps
  <2>1. \/ UNCHANGED storeVars
        \/ \E x : Store!SettleHeld(Outer(r), x)
    BY <1>5 DEF Deliver, Store!FulfilHeld, Store!RejectHeld
  <2> QED BY <2>1, HeldKeeps, RunFacts DEF storeVars, StoreKeeps
<1>7. ASSUME NEW q \in Request, o = Fulfilled(q) PROVE Source(r, q)'
  <2>1. CASE Idempotent(r)
    BY <1>2, <1>4, <1>6, <1>7, <2>1, GoodPersists DEF Source, Authorized, Idempotent, Inner
  <2>2. CASE ~Idempotent(r)
    <3>1. q = r /\ returned'[r] = Fulfilled(r)
      BY <1>1, <1>2, <1>3, <1>7, <2>2
    <3> QED BY <1>2, <2>2, <3>1 DEF Source, Authorized, Idempotent, Fulfilled, Store!Fulfilled
  <2> QED BY <2>1, <2>2
<1>8. ReturnsEarned'
  <2> SUFFICES ASSUME NEW p \in Request, NEW q \in Request, returned'[p] = Fulfilled(q)
               PROVE  Source(p, q)'
    BY DEF ReturnsEarned, Fulfilled, Store!Fulfilled
  <2>1. CASE p = r
    BY <1>1, <1>3, <1>7, <2>1
  <2>2. CASE p # r
    BY <1>1, <1>3, <1>4, <1>6, <2>2, SourcePersists DEF ReturnsEarned
  <2> QED BY <2>1, <2>2
<1>9. r \in Keyed => Active(Outer(r))
  BY <1>2, RunFacts DEF Active
<1>10. ASSUME r \in Keyed PROVE StoreMove(Outer(r))
  <2>1. PICK out \in StoreSettlement :
          /\ out # Unsettled /\ Deliver(r, out)
          /\ \A q \in Request : out = Fulfilled(q) => o = Fulfilled(q)
    BY <1>5
  <2>2. CASE out.status = "fulfilled"
    <3>1. out.value \in Request /\ out = Fulfilled(out.value)
      BY <2>2, SettlementFacts
    <3>2. Store!FulfilHeld(Outer(r), out.value) /\ Source(r, out.value)'
      BY <1>7, <1>10, <2>1, <2>2, <3>1 DEF Deliver
    <3>3. Good(Outer(r), out.value)'
      BY <1>10, <3>2, <1>2, SourceGood
    <3> QED BY <3>1, <3>2, <3>3 DEF StoreMove
  <2>3. CASE out.status # "fulfilled"
    BY <1>10, <2>1, <2>3, SettlementFacts DEF Deliver, StoreMove
  <2> QED BY <2>2, <2>3
<1>11. r \notin Keyed => UNCHANGED storeVars
  BY <1>5 DEF Deliver
<1> QED BY <1>4, <1>8, <1>9, <1>10, <1>11 DEF StoreMove

LEMMA StoreNext ==
    ASSUME RequestTypes, StoreInv, RequestsOK, ReturnsEarned, [Next]_vars
    PROVE  Keeps /\ StoreInv' /\ StoreKeeps /\ ReturnsEarned'
<1>0. ASSUME UNCHANGED returned, StoreKeeps PROVE Keeps /\ ReturnsEarned'
  <2>1. Keeps
    BY <1>0 DEF Keeps
  <2> QED BY <1>0, <2>1, SourcePersists DEF ReturnsEarned, Fulfilled, Store!Fulfilled
<1>1. ASSUME NEW u \in Run, Active(u) \/ UNCHANGED storeVars, StoreMove(u), UNCHANGED returned
      PROVE  Keeps /\ StoreInv' /\ StoreKeeps /\ ReturnsEarned'
  <2>1. Keeps
    BY <1>1 DEF Keeps
  <2> QED BY <1>0, <1>1, <2>1, StoreStep
<1>2. CASE UNCHANGED <<returned, storeVars>>
  <2>1. Keeps
    BY <1>2 DEF Keeps
  <2> QED BY <1>0, <1>2, <2>1, StoreSame
<1>3. CASE Tick
  BY <1>0, <1>3, TickStore DEF Tick
<1>4. ASSUME NEW r \in Request, Refuse(r) \/ EnterThrows(r) \/ Answer(r)
      PROVE  UNCHANGED <<returned, storeVars>>
  BY <1>4 DEF Refuse, EnterThrows, Answer
<1>5. ASSUME NEW r \in Request, Admit(r)
      PROVE  Keeps /\ StoreInv' /\ StoreKeeps /\ ReturnsEarned'
  <2>1. Authorized(r) /\ UNCHANGED returned /\ RunOnce(r)
    BY <1>5 DEF Admit
  <2>2. CASE r \in Keyed
    <3>1. Active(Outer(r)) /\ Outer(r) \in Run
      BY <2>1, <2>2, RunFacts DEF Active
    <3>2. StoreMove(Outer(r))
      BY <2>1, <2>2 DEF RunOnce, StoreMove
    <3> QED BY <1>1, <2>1, <3>1, <3>2
  <2>3. CASE r \notin Keyed
    BY <1>2, <2>1, <2>3 DEF RunOnce
  <2> QED BY <2>2, <2>3
<1>6. ASSUME NEW r \in Request, RunCommand(r)
      PROVE  Keeps /\ StoreInv' /\ StoreKeeps /\ ReturnsEarned'
  <2>1. Authorized(r) /\ Idempotent(r) /\ UNCHANGED returned /\ Store!RunTurn(Inner(r))
    BY <1>6 DEF RunCommand, Calling, RequestsOK, RequestOK
  <2>2. Active(Inner(r)) /\ Inner(r) \in Run /\ Ttl[Inner(r)] > 0
    BY <2>1, RunFacts DEF Active
  <2>3. \A k \in Key : left[k] = Store!Unsettled
    BY DEF StoreInv, Turns, Unsettled
  <2>4. RunKey[Inner(r)] \in Key
    BY <2>2, KeyKnown
  <2>5. ~Store!RejectTtl(Inner(r))
    BY <2>2, RunFacts DEF Store!RejectTtl
  <2>6. ~Store!JoinRejection(Inner(r))
    BY <2>3, <2>4 DEF Store!JoinRejection
  <2>7. StoreMove(Inner(r))
    BY <2>1, <2>5, <2>6 DEF Store!RunTurn, StoreMove
  <2> QED BY <1>1, <2>1, <2>2, <2>7
<1>7. ASSUME NEW r \in Request, CommandSettles(r)
      PROVE  Keeps /\ StoreInv' /\ StoreKeeps /\ ReturnsEarned'
  <2>1. UNCHANGED returned /\ (Store!FulfilHeld(Inner(r), r) \/ Store!RejectHeld(Inner(r), "Failed"))
    BY <1>7 DEF CommandSettles
  <2>2. Inner(r) \in Run /\ phase[Inner(r)] # "idle"
    BY <2>1, RunFacts DEF Store!FulfilHeld, Store!RejectHeld, Store!SettleHeld
  <2>3. Active(Inner(r)) /\ Authorized(r) /\ Idempotent(r)
    BY <2>2, RunFacts DEF StoreInv, RunsActive, Active
  <2>4. ASSUME Store!FulfilHeld(Inner(r), r) PROVE Good(Inner(r), r)'
    <3>1. outcome'[Inner(r)] = Fulfilled(r)
      BY <2>2, <2>4 DEF Store!FulfilHeld, Store!SettleHeld, Store!Holding, Fulfilled
    <3>2. WorkKey(r) = commandKey(r) /\ commandKey(r) \in Key /\ RunKey[Inner(r)] = commandKey(r)
      BY <2>3, RequestKeys, RunKeys
    <3>3. WorkKey(r) \in Reach[RunKey[Inner(r)]]
      BY <3>2, ReachFacts
    <3> QED BY <2>3, <3>1, <3>3
         DEF Good, WorkDone, Sharing, Authorized, Idempotent, Inner, Fulfilled, Store!Fulfilled
  <2>5. StoreMove(Inner(r))
    BY <2>1, <2>4, SettlementFacts DEF StoreMove
  <2> QED BY <1>1, <2>1, <2>2, <2>3, <2>5
<1>8. ASSUME NEW r \in Request, Suspend(r)
      PROVE  Keeps /\ StoreInv' /\ StoreKeeps /\ ReturnsEarned'
  <2>1. PICK u \in {Outer(r), Inner(r)} : Store!Suspend(u)
    BY <1>8 DEF Suspend
  <2>2. u \in Run /\ Active(u) /\ StoreMove(u)
    BY <2>1, StackTop DEF StoreMove
  <2> QED BY <1>1, <1>8, <2>2 DEF Suspend
<1>9. ASSUME NEW r \in Request, Return(r)
      PROVE  Keeps /\ StoreInv' /\ StoreKeeps /\ ReturnsEarned'
  BY <1>9, ReturnEarned, StoreStep, RunFacts
<1>10. CASE UNCHANGED vars
  BY <1>2, <1>10 DEF vars
<1> QED BY <1>2, <1>3, <1>4, <1>5, <1>6, <1>7, <1>8, <1>9, <1>10, NextSteps

-----------------------------------------------------------------------------
(* What each step leaves in spans and logs. *)

LEMMA AppendIs ==
    ASSUME NEW S, NEW s \in Seq(S), NEW x \in S, NEW t \in Seq(S),
           Len(t) = Len(s) + 1, t[Len(s) + 1] = x, \A i \in 1..Len(s) : t[i] = s[i]
    PROVE  Append(s, x) = t
<1> DEFINE q == Append(s, x)
<1>1. q \in Seq(S) /\ Len(q) = Len(s) + 1 /\ q[Len(s) + 1] = x
  OBVIOUS
<1>2. \A i \in 1..Len(s) : q[i] = s[i]
  OBVIOUS
<1> HIDE DEF q
<1>3. \A i \in 1..Len(q) : q[i] = t[i]
  BY <1>1, <1>2
<1>4. q = t
  BY <1>1, <1>3, SeqEqual
<1> QED BY <1>4 DEF q

Phases == {"enter", "exit", "error"}

LEMMA LogFacts ==
    /\ Append(<<>>, "enter") = <<"enter">>
    /\ \A x \in {"exit", "error"} : Append(<<"enter">>, x) = <<"enter", x>>
    /\ <<"enter">> # <<>> /\ Head(<<"enter">>) = "enter" /\ <<"enter">> # <<"enter", "exit">>
    /\ \A x \in {"exit", "error"} : <<"enter", x>> # <<>> /\ Head(<<"enter", x>>) = "enter"
    /\ <<"enter", "error">> # <<"enter", "exit">> /\ <<>> # <<"enter", "exit">>
<1>1. Append(<<>>, "enter") = <<"enter">>
  <2> DEFINE s == <<>> t == <<"enter">>
  <2>1. s \in Seq(Phases) /\ Len(s) = 0
    OBVIOUS
  <2>2. t \in Seq(Phases) /\ Len(t) = 1 /\ t[1] = "enter"
    BY DEF Phases
  <2>3. "enter" \in Phases
    BY DEF Phases
  <2> HIDE DEF s, t
  <2>4. Append(s, "enter") = t
    BY <2>1, <2>2, <2>3, AppendIs
  <2> QED BY <2>4 DEF s, t
<1>2. ASSUME NEW x \in {"exit", "error"} PROVE Append(<<"enter">>, x) = <<"enter", x>>
  <2> DEFINE s == <<"enter">> t == <<"enter", x>>
  <2>1. s \in Seq(Phases) /\ Len(s) = 1 /\ s[1] = "enter"
    BY DEF Phases
  <2>2. t \in Seq(Phases)
    BY DEF Phases
  <2>3. Len(t) = 2 /\ t[1] = "enter" /\ t[2] = x
    OBVIOUS
  <2>4. x \in Phases
    BY DEF Phases
  <2> HIDE DEF s, t
  <2>5. Len(t) = Len(s) + 1 /\ t[Len(s) + 1] = x /\ \A i \in 1..Len(s) : t[i] = s[i]
    BY <2>1, <2>3
  <2>6. Append(s, x) = t
    BY <2>1, <2>2, <2>4, <2>5, AppendIs
  <2> QED BY <2>6 DEF s, t
<1>3. <<"enter">> # <<"enter", "exit">>
  <2>1. Len(<<"enter">>) = 1 /\ Len(<<"enter", "exit">>) = 2
    OBVIOUS
  <2> QED BY <2>1
<1>4. \A x \in {"exit", "error"} : <<"enter", x>> # <<>> /\ Head(<<"enter", x>>) = "enter"
  OBVIOUS
<1>5. /\ <<"enter">> # <<>> /\ Head(<<"enter">>) = "enter"
      /\ <<"enter", "error">> # <<"enter", "exit">> /\ <<>> # <<"enter", "exit">>
  OBVIOUS
<1> QED BY <1>1, <1>2, <1>3, <1>4, <1>5

\* A step that leaves the request q where it was, though the call of its
\* handler or its run of the store may go on.
Frame(q) ==
    /\ stage'[q] = stage[q] /\ span'[q] = span[q] /\ log'[q] = log[q] /\ answer'[q] = answer[q]
    /\ handler'[q] # "no" => Authorized(q)
    /\ <<q, "enter">> \in faults' <=> <<q, "enter">> \in faults
    /\ returned'[q] = Unsettled => <<q, "observe">> \notin faults'
    /\ returned[q] # Unsettled => (<<q, "observe">> \in faults' <=> <<q, "observe">> \in faults)

LEMMA SettledStays ==
    ASSUME RequestsOK, Keeps, StoreKeeps, NEW q \in Request, settled(q) # Unsettled,
           returned[q] # Unsettled => (<<q, "observe">> \in faults' <=> <<q, "observe">> \in faults)
    PROVE  settled(q)' = settled(q)
<1>1. CASE q \in Keyed
  BY <1>1, RunFacts DEF settled, StoreKeeps
<1>2. CASE q \notin Keyed
  <2>1. returned[q] # Unsettled
    BY <1>2 DEF settled, metered, RequestsOK, RequestOK
  <2> QED BY <1>2, <2>1 DEF settled, metered, Keeps, Rejected, Store!Rejected
<1> QED BY <1>1, <1>2

LEMMA FramedRequest ==
    ASSUME RequestsOK, Keeps, StoreKeeps, NEW q \in Request, Frame(q)
    PROVE  RequestOK(q)'
<1>0. RequestOK(q) /\ Unsettled' = Unsettled
  BY DEF RequestsOK, Unsettled, Store!Unsettled
<1>1. At(q, "answered") /\ Admitted(q) => settled(q)' = settled(q)
  BY <1>0, SettledStays DEF RequestOK, Told, Frame
<1>2. (At(q, "answered") => Told(q))'
  BY <1>0, <1>1 DEF RequestOK, Told, Frame, Admitted, At, Authorized
<1>3. (handler[q] # "no" => Authorized(q))' /\ (returned[q] = Unsettled => <<q, "observe">> \notin faults)'
  BY <1>0 DEF Frame, Authorized
<1>4. (At(q, "verify") => /\ <<q, "enter">> \notin faults
                          /\ span[q] = NoSpan /\ log[q] = <<>>
                          /\ answer[q] = Unsettled)'
  BY <1>0 DEF RequestOK, Frame, At, NoSpan
<1>5. (At(q, "await") => /\ Admitted(q)
                         /\ span[q] = [NoSpan EXCEPT !.started = TRUE]
                         /\ log[q] = <<"enter">>
                         /\ answer[q] = Unsettled)'
  BY <1>0 DEF RequestOK, Frame, At, Admitted, NoSpan, Authorized
<1> QED BY <1>2, <1>3, <1>4, <1>5 DEF RequestOK

\* The layers inside tracing settle with a value or a failure of theirs.
LEMMA SettledTyped ==
    ASSUME RequestTypes, StoreInv, NEW q \in Request
    PROVE  settled(q) \in Settlement
<1>1. outcome \in [Run -> StoreSettlement] /\ returned \in [Request -> Settlement]
  BY DEF StoreInv, OutcomesTyped, RequestTypes
<1>2. "MetricsError" \in Errors
  BY SettlementFacts
<1> QED BY <1>1, <1>2, RunFacts, SettlementFacts DEF settled, metered

LEMMA RequestsNext ==
    ASSUME RequestTypes, StoreInv, RequestsOK, Keeps, StoreKeeps, [Next]_vars
    PROVE  RequestsOK'
<1> SUFFICES ASSUME NEW q \in Request PROVE RequestOK(q)'
  BY DEF RequestsOK
<1>0. RequestOK(q) /\ Unsettled' = Unsettled
  BY DEF RequestsOK, Unsettled, Store!Unsettled
<1>1. CASE UNCHANGED vars \/ Tick
  <2>1. Frame(q)
    BY <1>0, <1>1 DEF vars, Tick, Frame, RequestOK
  <2> QED BY <2>1, FramedRequest
<1>2. ASSUME NEW r \in Request, RunCommand(r) \/ Suspend(r) \/ CommandSettles(r)
      PROVE  RequestOK(q)'
  <2>1. RunCommand(r) => Authorized(r)
    BY DEF RunCommand, Calling, RequestsOK, RequestOK
  <2>2. handler'[q] # "no" => Authorized(q)
    BY <1>0, <1>2, <2>1 DEF RunCommand, Suspend, CommandSettles, RequestOK, RequestTypes
  <2>3. Frame(q)
    BY <1>0, <1>2, <2>2 DEF RunCommand, Suspend, CommandSettles, Frame, RequestOK
  <2> QED BY <2>3, FramedRequest
<1>3. ASSUME NEW r \in Request, Return(r)
      PROVE  RequestOK(q)'
  <2>1. PICK o \in Settlements(r) : Measure(r, o) /\ returned' = [returned EXCEPT ![r] = o]
    BY <1>3 DEF Return
  <2>2. o # Unsettled
    BY <2>1, SettlementEarned
  <2>3. faults' = faults \/ faults' = faults \cup {<<r, "observe">>}
    BY <2>1 DEF Measure, Throws
  <2>4. returned[r] = Unsettled /\ (q # r => returned'[q] = returned[q]) /\ (q = r => returned'[q] = o)
    BY <1>3, <2>1 DEF Return, RequestTypes
  <2>5. Frame(q)
    BY <1>0, <1>3, <2>2, <2>3, <2>4 DEF Return, Frame, RequestOK
  <2> QED BY <2>5, FramedRequest
<1>4. ASSUME NEW r \in Request, r # q, Refuse(r) \/ Admit(r) \/ EnterThrows(r) \/ Answer(r)
      PROVE  RequestOK(q)'
  <2>1. /\ stage'[q] = stage[q] /\ span'[q] = span[q] /\ log'[q] = log[q] /\ answer'[q] = answer[q]
        /\ returned' = returned
    BY <1>4 DEF Refuse, Admit, EnterThrows, Answer, Respond, Goto, Log, StartSpan, EndSpan, LogAndRespond,
                RequestTypes
  <2>2. handler'[q] = handler[q]
    BY <1>4 DEF Refuse, Admit, EnterThrows, Answer, RunOnce, CallHandler, RequestTypes
  <2>3. \/ faults' = faults
        \/ faults' = faults \cup {<<r, "enter">>} \/ faults' = faults \cup {<<r, "exit">>}
    BY <1>4 DEF Refuse, Admit, EnterThrows, Answer, Throws, LogAndRespond
  <2>4. Frame(q)
    BY <1>0, <1>4, <2>1, <2>2, <2>3 DEF Frame, RequestOK
  <2> QED BY <2>4, FramedRequest
<1>5. CASE Refuse(q)
  <2>1. /\ ~Authorized(q) /\ stage'[q] = "answered" /\ UNCHANGED <<handler, returned, span, log, faults>>
        /\ answer'[q].status = "rejected" /\ At(q, "verify")
    BY <1>5, SettlementFacts DEF Refuse, Respond, Goto, RequestTypes
  <2>2. Told(q)'
    BY <1>0, <2>1, LogFacts DEF Told, RequestOK, Admitted, NoSpan, Authorized
  <2> QED BY <1>0, <2>1, <2>2 DEF RequestOK, At, Authorized
<1>6. CASE EnterThrows(q)
  <2>1. /\ faults' = faults \cup {<<q, "enter">>}
        /\ stage'[q] = "answered" /\ UNCHANGED <<handler, returned, span, log>>
        /\ answer'[q].status = "rejected" /\ At(q, "verify")
    BY <1>6, SettlementFacts DEF EnterThrows, Throws, Respond, Goto, RequestTypes
  <2>2. Told(q)'
    BY <1>0, <2>1, LogFacts DEF Told, RequestOK, Admitted, NoSpan, Authorized
  <2> QED BY <1>0, <2>1, <2>2 DEF RequestOK, At, Authorized
<1>7. CASE Admit(q)
  <2>1. /\ Authorized(q) /\ At(q, "verify") /\ stage'[q] = "await"
        /\ UNCHANGED <<returned, answer, faults>>
        /\ log'[q] = Append(log[q], "enter") /\ span'[q] = [span[q] EXCEPT !.started = TRUE]
    BY <1>7 DEF Admit, Goto, Log, StartSpan, RequestTypes
  <2>2. log'[q] = <<"enter">> /\ span'[q] = [NoSpan EXCEPT !.started = TRUE]
    BY <1>0, <2>1, LogFacts DEF RequestOK
  <2> QED BY <1>0, <2>1, <2>2 DEF RequestOK, At, Authorized, Admitted, NoSpan
<1>8. CASE Answer(q)
  <2> DEFINE o == settled(q)
  <2>1. /\ At(q, "await") /\ o # Unsettled /\ o \in Settlement
        /\ stage'[q] = "answered" /\ UNCHANGED <<handler, returned>>
        /\ faults' = faults \/ faults' = faults \cup {<<q, "exit">>}
    BY <1>8, SettledTyped DEF Answer, LogAndRespond, Throws, Respond, Goto, RequestTypes
  <2>2. /\ Admitted(q) /\ span[q] = [NoSpan EXCEPT !.started = TRUE] /\ log[q] = <<"enter">>
    BY <1>0, <2>1 DEF RequestOK
  <2>3. settled(q)' = o
    BY <2>1, SettledStays
  <2>4. o.status \in {"fulfilled", "rejected"}
    BY <2>1, SettlementFacts
  <2>5. /\ span'[q].ended /\ span'[q].exceptions = IF o.status = "fulfilled" THEN 0 ELSE 2
    BY <1>8, <2>2 DEF Answer, EndSpan, NoSpan, RequestTypes
  <2>6. /\ log'[q] # <<>> /\ Head(log'[q]) = "enter"
        /\ log'[q] = <<"enter", "exit">> <=> answer'[q].status = "fulfilled"
    <3>1. CASE Log(q, IF o.status = "fulfilled" THEN "exit" ELSE "error") /\ Respond(q, o)
      <4>1. answer'[q] = o
        BY <3>1 DEF Respond, RequestTypes
      <4>2. o.status = "fulfilled" => log'[q] = <<"enter", "exit">>
        BY <2>2, <3>1, LogFacts DEF Log, RequestTypes
      <4>3. o.status = "rejected" => log'[q] = <<"enter", "error">>
        BY <2>2, <3>1, LogFacts DEF Log, RequestTypes
      <4> QED BY <2>4, <4>1, <4>2, <4>3, LogFacts
    <3>2. CASE /\ IF o.status = "fulfilled" THEN Log(q, "error") ELSE UNCHANGED log
               /\ Respond(q, Rejected("LogError"))
      <4>1. answer'[q].status = "rejected"
        BY <3>2, SettlementFacts DEF Respond, RequestTypes
      <4>2. log'[q] = <<"enter">> \/ log'[q] = <<"enter", "error">>
        BY <2>2, <3>2, LogFacts DEF Log, RequestTypes
      <4> QED BY <4>1, <4>2, LogFacts
    <3> QED BY <1>8, <3>1, <3>2 DEF Answer, LogAndRespond
  <2>7. Admitted(q)' <=> Admitted(q)
    BY <2>1 DEF Admitted, Authorized
  <2> HIDE DEF o
  <2>8. Told(q)'
    BY <1>0, <2>1, <2>2, <2>3, <2>4, <2>5, <2>6, <2>7 DEF Told
  <2> QED BY <1>0, <2>1, <2>8 DEF RequestOK, At, Authorized
<1> QED BY <1>1, <1>2, <1>3, <1>4, <1>5, <1>6, <1>7, <1>8, NextSteps

LEMMA TypesNext ==
    ASSUME RequestTypes, StoreInv, RequestsOK, [Next]_vars
    PROVE  RequestTypes'
<1> USE DEF RequestTypes
<1>0. /\ \A e \in Errors : Rejected(e) \in Settlement
      /\ "LogError" \in Errors /\ "Forbidden" \in Errors /\ "Unauthorized" \in Errors
  BY SettlementFacts
<1>1. CASE UNCHANGED vars \/ Tick
  BY <1>1 DEF vars, meters, Tick
<1>2. ASSUME NEW r \in Request, Refuse(r)
      PROVE  RequestTypes'
  BY <1>0, <1>2 DEF Refuse, Respond, Goto, meters
<1>3. ASSUME NEW r \in Request, EnterThrows(r)
      PROVE  RequestTypes'
  BY <1>0, <1>3 DEF EnterThrows, Throws, Respond, Goto, meters
<1>4. ASSUME NEW r \in Request, Admit(r)
      PROVE  RequestTypes'
  <2>1. log' \in [Request -> Seq({"enter", "exit", "error"})]
    BY <1>4 DEF Admit, Log
  <2>2. span' \in [Request -> [ended : BOOLEAN, started : BOOLEAN, exceptions : {0, 2}]]
    BY <1>4 DEF Admit, StartSpan
  <2>3. stage' \in [Request -> {"verify", "await", "answered"}]
    BY <1>4 DEF Admit, Goto
  <2>4. handler' \in [Request -> {"no", "called", "inside"}]
    BY <1>4 DEF Admit, RunOnce, CallHandler
  <2> QED BY <1>4, <2>1, <2>2, <2>3, <2>4 DEF Admit, meters
<1>5. ASSUME NEW r \in Request, RunCommand(r) \/ Suspend(r) \/ CommandSettles(r)
      PROVE  RequestTypes'
  BY <1>5 DEF RunCommand, Suspend, CommandSettles, meters
<1>6. ASSUME NEW r \in Request, Return(r)
      PROVE  RequestTypes'
  <2>1. PICK o \in Settlements(r) : Measure(r, o) /\ returned' = [returned EXCEPT ![r] = o]
    BY <1>6 DEF Return
  <2>2. o \in Settlement
    BY <2>1, SettlementEarned, SettlementFacts
  <2>3. returned' \in [Request -> Settlement]
    BY <2>1, <2>2
  <2>4. counters' \in [Command \X Tenant \X {"ok", "error"} -> Nat]
    BY <2>1, SMTT(30) DEF Measure, Count
  <2>5. observations' = observations \/ Observe(r)
    BY <2>1 DEF Measure
  <2>6. observations' \in [Command \X Tenant -> Nat]
    <3> DEFINE l == <<CommandOf[r], tenantOf(r)>> L == Command \X Tenant
    <3>1. observations \in [L -> Nat]
      OBVIOUS
    <3>2. observations' = observations \/ observations' = [observations EXCEPT ![l] = @ + 1]
      BY <2>5 DEF Observe
    <3> HIDE DEF l, L
    <3>3. observations' \in [L -> Nat]
      BY <3>1, <3>2
    <3> QED BY <3>3 DEF L
  <2>7. faults' \subseteq Fallible
    <3>1. faults' = faults \/ (<<r, "observe">> \in Fallible /\ faults' = faults \cup {<<r, "observe">>})
      BY <2>1 DEF Measure, Throws
    <3>2. faults \subseteq Fallible
      OBVIOUS
    <3> DEFINE place == <<r, "observe">>
    <3> HIDE DEF place
    <3>3. faults' = faults \/ (place \in Fallible /\ faults' = faults \cup {place})
      BY <3>1 DEF place
    <3> QED BY <3>2, <3>3
  <2> QED BY <1>6, <2>3, <2>4, <2>6, <2>7 DEF Return
<1>7. ASSUME NEW r \in Request, Answer(r)
      PROVE  RequestTypes'
  <2>1. settled(r) \in Settlement
    BY SettledTyped
  <2>2. \E o \in {settled(r), Rejected("LogError")} : Respond(r, o)
    BY <1>7 DEF Answer, LogAndRespond
  <2>3. answer' \in [Request -> Settlement] /\ stage' \in [Request -> {"verify", "await", "answered"}]
    BY <1>0, <2>1, <2>2 DEF Respond, Goto
  <2>5. log' = log \/ \E x \in {"exit", "error"} : Log(r, x)
    BY <1>7 DEF Answer, LogAndRespond
  <2>6. log' \in [Request -> Seq({"enter", "exit", "error"})]
    <3> DEFINE L == Seq({"enter", "exit", "error"})
    <3>1. log \in [Request -> L] /\ \A x \in {"exit", "error"} : Append(log[r], x) \in L
      OBVIOUS
    <3>2. log' = log \/ \E y \in L : log' = [log EXCEPT ![r] = y]
      BY <2>5, <3>1 DEF Log
    <3> HIDE DEF L
    <3>3. log' \in [Request -> L]
      BY <3>1, <3>2
    <3> QED BY <3>3 DEF L
  <2>7. faults' \subseteq Fallible
    BY <1>7 DEF Answer, LogAndRespond, Throws
  <2>4. span' \in [Request -> [ended : BOOLEAN, started : BOOLEAN, exceptions : {0, 2}]]
    <3> DEFINE Spans == [ended : BOOLEAN, started : BOOLEAN, exceptions : {0, 2}]
               d == [span[r] EXCEPT !.ended = TRUE]
               n == IF settled(r).status = "fulfilled" THEN 0 ELSE 2
               e == [d EXCEPT !.exceptions = n]
    <3>1. span \in [Request -> Spans] /\ span[r] \in Spans /\ n \in {0, 2}
      OBVIOUS
    <3>2. span' = [[span EXCEPT ![r] = d] EXCEPT ![r].exceptions = n]
      BY <1>7 DEF Answer, EndSpan
    <3> HIDE DEF n
    <3>3. d \in Spans
      BY <3>1
    <3> HIDE DEF d
    <3>4. e \in Spans
      BY <3>1, <3>3
    <3> HIDE DEF Spans
    <3>5. span' = [span EXCEPT ![r] = e]
      BY <3>1, <3>2
    <3> HIDE DEF e
    <3>6. span' \in [Request -> Spans]
      BY <3>1, <3>4, <3>5
    <3> QED BY <3>6 DEF Spans
  <2> QED BY <1>7, <2>3, <2>4, <2>6, <2>7 DEF Answer, meters
<1> QED BY <1>1, <1>2, <1>3, <1>4, <1>5, <1>6, <1>7, NextSteps

-----------------------------------------------------------------------------
(* Whose values are answered. *)

\* What AnswersEarned says of one request.
Earned(r) ==
    answer[r].status = "fulfilled" =>
        LET q == answer[r].value
        IN  /\ Authorized(r) /\ Authorized(q) /\ WorkDone(q)
            /\ \/ q = r
               \/ {q, r} \subseteq Sharing /\ WorkKey(q) \in Reach[FirstKey(r)]

LEMMA EarnedMeans ==
    /\ AnswersEarned <=> \A r \in Request : Earned(r)
    /\ AnswersEarned' <=> \A r \in Request : Earned(r)'
BY DEF AnswersEarned, Earned

LEMMA AnswersNext ==
    ASSUME RequestTypes, StoreInv, RequestsOK, ReturnsEarned, AnswersEarned, Keeps, StoreKeeps,
           [Next]_vars
    PROVE  AnswersEarned'
<1> SUFFICES ASSUME NEW q \in Request PROVE Earned(q)'
  BY EarnedMeans
<1>0. Earned(q)
  BY EarnedMeans
<1>1. ASSUME answer'[q] = answer[q] PROVE Earned(q)'
  <2>1. answer[q].status = "fulfilled" => answer[q].value \in Request
    BY SettlementFacts DEF RequestTypes
  <2> QED BY <1>0, <1>1, <2>1, WorkPersists DEF Earned, Authorized, Sharing, Idempotent
<1>2. ASSUME answer'[q].status = "rejected" PROVE Earned(q)'
  BY <1>2 DEF Earned
<1>3. ASSUME Answer(q), answer'[q] = settled(q) PROVE Earned(q)'
  <2> SUFFICES ASSUME settled(q).status = "fulfilled" PROVE Earned(q)'
    BY <1>3 DEF Earned
  <2>1. PICK v \in Request : settled(q) = Fulfilled(v) /\ settled(q).value = v
    BY SettledTyped, SettlementFacts
  <2>2. Authorized(q)
    BY <1>3 DEF Answer, RequestsOK, RequestOK, Admitted
  <2>3. FirstKey(q) = IF q \in Keyed THEN fullKey(q) ELSE commandKey(q)
    BY <2>2, RequestKeys
  <2>4. /\ Authorized(v) /\ WorkDone(v)
        /\ v = q \/ ({v, q} \subseteq Sharing /\ WorkKey(v) \in Reach[FirstKey(q)])
    <3>1. CASE q \in Keyed
      <4>1. Good(Outer(q), v)
        BY <2>1, <3>1, RunFacts DEF settled, StoreInv, OutcomesGood
      <4> QED BY <2>3, <3>1, <4>1, RunKeys DEF Good, Sharing
    <3>2. CASE q \notin Keyed
      <4>1. returned[q] = Fulfilled(v)
        BY <2>1, <3>2, SettlementFacts DEF settled, metered
      <4>2. Source(q, v)
        BY <2>1, <4>1 DEF ReturnsEarned
      <4>3. CASE Idempotent(q)
        BY <2>3, <3>2, <4>2, <4>3, RunKeys DEF Source, Good, Sharing
      <4>4. CASE ~Idempotent(q)
        BY <2>2, <4>2, <4>4 DEF Source, WorkDone
      <4> QED BY <4>3, <4>4
    <3> QED BY <3>1, <3>2
  <2>5. WorkDone(v)'
    BY <2>1, <2>4, WorkPersists
  <2>6. answer'[q].value = v
    BY <1>3, <2>1
  <2> QED BY <2>2, <2>4, <2>5, <2>6 DEF Earned, Authorized, Sharing, Idempotent
<1>4. CASE UNCHANGED vars \/ Tick
  BY <1>1, <1>4 DEF vars, Tick
<1>5. ASSUME NEW r \in Request, Admit(r) \/ RunCommand(r) \/ Suspend(r) \/ CommandSettles(r) \/ Return(r)
      PROVE  Earned(q)'
  BY <1>1, <1>5 DEF Admit, RunCommand, Suspend, CommandSettles, Return
<1>6. ASSUME NEW r \in Request, r # q, Refuse(r) \/ EnterThrows(r) \/ Answer(r)
      PROVE  Earned(q)'
  BY <1>1, <1>6 DEF Refuse, EnterThrows, Answer, LogAndRespond, Respond, RequestTypes
<1>7. CASE Refuse(q) \/ EnterThrows(q)
  BY <1>2, <1>7, SettlementFacts DEF Refuse, EnterThrows, Respond, RequestTypes
<1>8. CASE Answer(q)
  <2>1. answer'[q] = settled(q) \/ answer'[q] = Rejected("LogError")
    BY <1>8 DEF Answer, LogAndRespond, Respond, RequestTypes
  <2> QED BY <1>2, <1>3, <1>8, <2>1, SettlementFacts
<1> QED BY <1>4, <1>5, <1>6, <1>7, <1>8, NextSteps

-----------------------------------------------------------------------------
(* What the counters tell. *)

With(S, r, cond) == IF cond THEN S \cup {r} ELSE S
Plus(n, cond) == IF cond THEN n + 1 ELSE n

LEMMA CardinalityWith ==
    ASSUME NEW S, IsFiniteSet(S), NEW r, r \notin S, NEW cond \in BOOLEAN
    PROVE  Cardinality(With(S, r, cond)) = Plus(Cardinality(S), cond)
<1>1. CASE cond
  <2>1. Cardinality(S \cup {r}) = Cardinality(S) + 1
    BY FS_AddElement
  <2> QED BY <1>1, <2>1 DEF With, Plus
<1>2. CASE ~cond
  BY <1>2 DEF With, Plus
<1> QED BY <1>1, <1>2

\* The executions that count as failures, and those that were timed.
Failed(c, t) == Executed(c, t, "error") \cup (Executed(c, t, "ok") \cap Unobserved)
Timed(c, t) == (Executed(c, t, "ok") \cup Executed(c, t, "error")) \ Unobserved

LEMMA CountedMeans ==
    /\ MetricsCountExecutions <=>
        \A c \in Command, t \in Tenant :
            /\ counters[<<c, t, "ok">>] = Cardinality(Executed(c, t, "ok"))
            /\ counters[<<c, t, "error">>] = Cardinality(Failed(c, t))
            /\ observations[<<c, t>>] = Cardinality(Timed(c, t))
    /\ MetricsCountExecutions' <=>
        \A c \in Command, t \in Tenant :
            /\ counters'[<<c, t, "ok">>] = Cardinality(Executed(c, t, "ok")')
            /\ counters'[<<c, t, "error">>] = Cardinality(Failed(c, t)')
            /\ observations'[<<c, t>>] = Cardinality(Timed(c, t)')
BY DEF MetricsCountExecutions, Failed, Timed

LEMMA CountedSame ==
    ASSUME Counted, UNCHANGED <<returned, counters, observations>>,
           \A r \in Request : <<r, "observe">> \in faults' <=> <<r, "observe">> \in faults
    PROVE  Counted'
<1>1. Unobserved' = Unobserved /\ Executions' = Executions
  BY DEF Unobserved, Executions, Unsettled, Store!Unsettled
<1>2. \A c, t, x : Executed(c, t, x)' = Executed(c, t, x)
  BY DEF Executed, Unsettled, Store!Unsettled, resultOf, tenantOf
<1> QED BY <1>1, <1>2 DEF Counted, MetricsCountExecutions

\* A call of the handler that returns is counted.
LEMMA ReturnCounted ==
    ASSUME RequestTypes, StoreInv, RequestsOK, Counted, NEW r \in Request, Return(r)
    PROVE  Counted'
<1>1. PICK o \in Settlements(r) : Measure(r, o) /\ returned' = [returned EXCEPT ![r] = o]
  BY DEF Return
<1>2. o \in StoreSettlement /\ o # Unsettled /\ Unsettled' = Unsettled
  BY <1>1, SettlementEarned DEF Unsettled, Store!Unsettled
<1>3. returned \in [Request -> Settlement] /\ returned[r] = Unsettled /\ <<r, "observe">> \notin faults
  BY DEF RequestTypes, Return, RequestsOK, RequestOK
<1>4. resultOf(o) \in {"ok", "error"}
  BY DEF resultOf
<1> DEFINE threw == faults' # faults
<1>5. /\ faults' = faults \/ faults' = faults \cup {<<r, "observe">>}
      /\ ~threw => Count(r, {resultOf(o)}) /\ Observe(r)
      /\ threw => Count(r, {resultOf(o), "error"}) /\ observations' = observations
  BY <1>1, <1>3 DEF Measure, Throws
<1>6. Unobserved' = With(Unobserved, r, threw) /\ r \notin Unobserved
  BY <1>3, <1>5 DEF Unobserved, With
<1>7. Executions' = Executions \cup {r} /\ r \notin Executions
  BY <1>1, <1>2, <1>3 DEF Executions
<1>8. IsFiniteSet(Executions) /\ IsFiniteSet(Executions')
  BY <1>7, FS_AddElement DEF Counted
<1>9. ASSUME NEW c \in Command, NEW t \in Tenant
      PROVE  /\ counters'[<<c, t, "ok">>] = Cardinality(Executed(c, t, "ok")')
             /\ counters'[<<c, t, "error">>] = Cardinality(Failed(c, t)')
             /\ observations'[<<c, t>>] = Cardinality(Timed(c, t)')
  <2> DEFINE mine == CommandOf[r] = c /\ tenantOf(r) = t
  <2>1. ASSUME NEW x
        PROVE  /\ Executed(c, t, x)' = With(Executed(c, t, x), r, mine /\ resultOf(o) = x)
               /\ Executed(c, t, x) \subseteq Executions
    BY <1>1, <1>2, <1>3 DEF Executed, Executions, With, tenantOf
  <2> DEFINE failed == mine /\ (resultOf(o) = "error" \/ threw)
             timed == mine /\ ~threw
  <2>2. Failed(c, t)' = With(Failed(c, t), r, failed)
    BY <1>4, <1>6, <1>7, <2>1 DEF Failed, With
  <2>3. Timed(c, t)' = With(Timed(c, t), r, timed)
    BY <1>4, <1>6, <1>7, <2>1 DEF Timed, With
  <2>4. /\ IsFiniteSet(Executed(c, t, "ok")) /\ IsFiniteSet(Failed(c, t)) /\ IsFiniteSet(Timed(c, t))
        /\ r \notin Executed(c, t, "ok") /\ r \notin Failed(c, t) /\ r \notin Timed(c, t)
    <3>1. Failed(c, t) \subseteq Executions /\ Timed(c, t) \subseteq Executions
      BY <2>1 DEF Failed, Timed
    <3> QED BY <1>7, <1>8, <2>1, <3>1, FS_Subset
  <2>5. /\ <<c, t, "ok">> \in DOMAIN counters /\ <<c, t, "error">> \in DOMAIN counters
        /\ observations \in [Command \X Tenant -> Nat]
    BY DEF RequestTypes
  <2>6. counters'[<<c, t, "ok">>] = Plus(counters[<<c, t, "ok">>], mine /\ resultOf(o) = "ok")
    BY <1>5, <2>5 DEF Count, Plus
  <2>7. counters'[<<c, t, "error">>] = Plus(counters[<<c, t, "error">>], failed)
    BY <1>5, <2>5 DEF Count, Plus
  <2>8. observations'[<<c, t>>] = Plus(observations[<<c, t>>], timed)
    BY <1>5, <2>5 DEF Observe, Plus
  <2>9. /\ counters[<<c, t, "ok">>] = Cardinality(Executed(c, t, "ok"))
        /\ counters[<<c, t, "error">>] = Cardinality(Failed(c, t))
        /\ observations[<<c, t>>] = Cardinality(Timed(c, t))
    BY CountedMeans DEF Counted
  <2>10. failed \in BOOLEAN /\ timed \in BOOLEAN /\ (mine /\ resultOf(o) = "ok") \in BOOLEAN
    OBVIOUS
  <2> DEFINE succeeded == mine /\ resultOf(o) = "ok"
  <2>11. Executed(c, t, "ok")' = With(Executed(c, t, "ok"), r, succeeded)
    BY <2>1
  <2> HIDE DEF mine, failed, timed, succeeded
  <2>12. Cardinality(Executed(c, t, "ok")') = Plus(Cardinality(Executed(c, t, "ok")), succeeded)
    BY <2>4, <2>10, <2>11, CardinalityWith DEF succeeded
  <2>13. Cardinality(Failed(c, t)') = Plus(Cardinality(Failed(c, t)), failed)
    BY <2>2, <2>4, <2>10, CardinalityWith
  <2>14. Cardinality(Timed(c, t)') = Plus(Cardinality(Timed(c, t)), timed)
    BY <2>3, <2>4, <2>10, CardinalityWith
  <2> QED BY <2>6, <2>7, <2>8, <2>9, <2>12, <2>13, <2>14 DEF succeeded
<1> QED BY <1>8, <1>9, CountedMeans DEF Counted

LEMMA CountedNext ==
    ASSUME RequestTypes, StoreInv, RequestsOK, Counted, [Next]_vars
    PROVE  Counted'
<1>1. CASE UNCHANGED vars \/ Tick
  BY <1>1, CountedSame DEF vars, meters, Tick
<1>2. ASSUME NEW r \in Request,
             \/ Refuse(r) \/ Admit(r) \/ EnterThrows(r) \/ RunCommand(r) \/ Suspend(r)
             \/ CommandSettles(r) \/ Answer(r)
      PROVE  Counted'
  <2>1. UNCHANGED <<returned, counters, observations>>
    BY <1>2 DEF Refuse, Admit, EnterThrows, RunCommand, Suspend, CommandSettles, Answer, meters
  <2>2. faults' \in {faults, faults \cup {<<r, "enter">>}, faults \cup {<<r, "exit">>}}
    BY <1>2 DEF Refuse, Admit, EnterThrows, RunCommand, Suspend, CommandSettles, Answer,
                LogAndRespond, Throws
  <2> QED BY <2>1, <2>2, CountedSame
<1>3. ASSUME NEW r \in Request, Return(r)
      PROVE  Counted'
  BY <1>3, ReturnCounted
<1> QED BY <1>1, <1>2, <1>3, NextSteps

-----------------------------------------------------------------------------
(* The invariant. *)

LEMMA InitStore == Init => StoreInv
<1> SUFFICES ASSUME Init PROVE StoreInv
  OBVIOUS
<1>1. /\ now = 0 /\ cache = [k \in Key |-> [expiresAt |-> 0, value |-> NoValue]]
      /\ inflight = [k \in Key |-> NoCall]
      /\ phase = [c \in Run |-> "idle"] /\ outcome = [c \in Run |-> Unsettled]
      /\ stack = <<>> /\ awaits = [c \in Run |-> NoCall] /\ left = [k \in Key |-> Unsettled]
  BY DEF Init, Store!TurnsInit, Store!Init, Unsettled
<1>2. Unsettled \in Store!Outcome
  BY DEF Unsettled, Store!Unsettled, Store!Outcome
<1>3. [expiresAt |-> 0, value |-> NoValue] \in Store!Entry
  BY DEF Store!Entry
<1>4. Store!TurnsTypeOK
  BY <1>1, <1>2, <1>3 DEF Store!TurnsTypeOK
<1>5. \A u \in Run : Active(u) => RunKey[u] \in Key
  BY KeyKnown
<1>6. OutcomesTyped /\ LiveIsResult /\ PendingUnlessDone /\ RunsActive
  BY <1>1, SettlementFacts DEF OutcomesTyped, LiveIsResult, PendingUnlessDone, RunsActive, Live
<1>7. OutcomesGood
  BY <1>1, SettlementFacts DEF OutcomesGood
<1>8. CacheGood
  BY <1>1, <1>5 DEF CacheGood, Live
<1>9. Turns
  BY <1>1 DEF Turns
<1> QED BY <1>4, <1>6, <1>7, <1>8, <1>9 DEF StoreInv

LEMMA InitCounted == Init => Counted
<1> SUFFICES ASSUME Init PROVE Counted
  OBVIOUS
<1>1. Executions = {} /\ \A c, t, x : Executed(c, t, x) = {}
  BY DEF Init, Executions, Executed
<1>2. IsFiniteSet({}) /\ Cardinality({}) = 0
  BY FS_EmptySet
<1>3. \A c \in Command, t \in Tenant :
        /\ counters[<<c, t, "ok">>] = 0 /\ counters[<<c, t, "error">>] = 0
        /\ observations[<<c, t>>] = 0
  BY DEF Init
<1>4. \A c, t : Failed(c, t) = {} /\ Timed(c, t) = {}
  BY <1>1 DEF Failed, Timed
<1> QED BY <1>1, <1>2, <1>3, <1>4, CountedMeans DEF Counted

LEMMA InitInv == Init => IInv
<1> SUFFICES ASSUME Init PROVE IInv
  OBVIOUS
<1>1. RequestTypes
  BY SettlementFacts DEF Init, RequestTypes, NoSpan
<1>2. RequestsOK
  BY DEF Init, RequestsOK, RequestOK, At
<1>3. ReturnsEarned /\ AnswersEarned
  BY SettlementFacts DEF Init, ReturnsEarned, AnswersEarned
<1> QED BY <1>1, <1>2, <1>3, InitStore, InitCounted DEF IInv

LEMMA NextInv == IInv /\ [Next]_vars => IInv'
<1> SUFFICES ASSUME IInv, [Next]_vars PROVE IInv'
  OBVIOUS
<1>1. Keeps /\ StoreInv' /\ StoreKeeps /\ ReturnsEarned'
  BY StoreNext DEF IInv
<1>2. RequestTypes'
  BY TypesNext DEF IInv
<1>3. RequestsOK'
  BY <1>1, RequestsNext DEF IInv
<1>4. AnswersEarned'
  BY <1>1, AnswersNext DEF IInv
<1>5. Counted'
  BY CountedNext DEF IInv
<1> QED BY <1>1, <1>2, <1>3, <1>4, <1>5 DEF IInv

\* The invariant holds in every state of the chain.
THEOREM Invariance == Spec => []IInv
BY InitInv, NextInv, PTL DEF Spec

\* Every variable keeps its type, whatever callers, commands and faults.
THEOREM TypeCorrect == Spec => []TypeOK
<1>1. IInv => TypeOK
  BY DEF IInv, RequestTypes, StoreInv, TypeOK
<1> QED BY <1>1, Invariance, PTL

\* Whoever is answered with a value was authorized (auth.ts:37), and the value,
\* replayed or not (idempotency.ts:22), is its own or that of work done for an
\* authorized request under a key that its own leads to, whatever tenant ids,
\* names and keys are made of.
THEOREM AnswersAreEarned == Spec => []AnswersEarned
<1>1. IInv => AnswersEarned
  BY DEF IInv
<1> QED BY <1>1, Invariance, PTL

-----------------------------------------------------------------------------
(* Tenant ids and names without colons. *)

Plain(s) == \A i \in DOMAIN s : s[i] # ":"
Text == Seq(Char \cup {":"})
Before(s, x) == s \o <<":">> \o x

\* What precedes the first colon, and what follows it.
LEMMA CutAlike ==
    ASSUME NEW s \in Text, NEW t \in Text, NEW x \in Text, NEW y \in Text, Plain(s), Plain(t),
           Before(s, x) = Before(t, y)
    PROVE  s = t /\ x = y
<1> DEFINE u == s \o <<":">> w == t \o <<":">> a == u \o x b == w \o y
<1>0. u \in Text /\ w \in Text
  BY DEF Text
<1>1. /\ Len(u) = Len(s) + 1 /\ u[Len(s) + 1] = ":" /\ \A i \in 1..Len(s) : u[i] = s[i]
      /\ Len(w) = Len(t) + 1 /\ w[Len(t) + 1] = ":" /\ \A i \in 1..Len(t) : w[i] = t[i]
      /\ Len(s) \in Nat /\ Len(t) \in Nat
  BY DEF Text
<1>2. /\ \A i \in 1..Len(u) : a[i] = u[i]
      /\ \A i \in 1..Len(w) : b[i] = w[i]
  <2> HIDE DEF u, w
  <2> QED BY <1>0, ConcatProperties DEF Text
<1>3. a = b
  BY DEF Before
<1> HIDE DEF a, b
<1>4. ~(Len(s) < Len(t))
  <2> SUFFICES ASSUME Len(s) < Len(t) PROVE FALSE
    OBVIOUS
  <2>1. a[Len(s) + 1] = ":"
    BY <1>1, <1>2
  <2>2. Len(s) + 1 \in 1..Len(t) /\ Len(s) + 1 \in 1..Len(w)
    BY <1>1
  <2>3. b[Len(s) + 1] = t[Len(s) + 1] /\ Len(s) + 1 \in DOMAIN t
    BY <1>1, <1>2, <2>2 DEF Text
  <2> QED BY <1>3, <2>1, <2>3 DEF Plain
<1>5. ~(Len(t) < Len(s))
  <2> SUFFICES ASSUME Len(t) < Len(s) PROVE FALSE
    OBVIOUS
  <2>1. b[Len(t) + 1] = ":"
    BY <1>1, <1>2
  <2>2. Len(t) + 1 \in 1..Len(s) /\ Len(t) + 1 \in 1..Len(u)
    BY <1>1
  <2>3. Len(t) + 1 \in DOMAIN s
    BY <1>1, <2>2 DEF Text
  <2>4. a[Len(t) + 1] = s[Len(t) + 1]
    BY <1>1, <1>2, <2>2
  <2> QED BY <1>3, <2>1, <2>3, <2>4 DEF Plain
<1>6. Len(s) = Len(t)
  BY <1>1, <1>4, <1>5
<1>7. \A i \in 1..Len(s) : s[i] = t[i]
  BY <1>1, <1>2, <1>3, <1>6
<1>8. s = t
  BY <1>6, <1>7, SeqEqual DEF Text
<1>9. u = w /\ u \o x = u \o y
  BY <1>3, <1>8 DEF a, b
<1>10. x = y
  <2>1. \A v, y1, y2 \in Text : v \o y1 = v \o y2 => y1 = y2
    BY ConcatSimplifications, Zenon DEF Text
  <2> QED BY <1>0, <1>9, <2>1, Zenon
<1> QED BY <1>8, <1>10

\* A text is cut after its tenant id, and then after its name.
LEMMA TextParts ==
    ASSUME NEW t \in Text, NEW n \in Text, NEW k \in Text
    PROVE  Before(n, k) \in Text /\ textOf(t, n, k) = Before(t, Before(n, k))
<1> DEFINE C == Char \cup {":"} c == <<":">> T == t \o c N == n \o c
<1>1. t \in Seq(C) /\ n \in Seq(C) /\ k \in Seq(C) /\ c \in Seq(C)
  BY DEF Text
<1>2. T = t \o c /\ N = n \o c /\ T \in Seq(C) /\ N \in Seq(C)
  BY <1>1
<1>3. Before(t, Before(n, k)) = T \o (N \o k) /\ textOf(t, n, k) = ((T \o n) \o c) \o k
  BY DEF Before, textOf
<1> HIDE DEF C, c, T, N
<1>4. N \o k \in Seq(C)
  BY <1>1, <1>2
<1>5. (T \o n) \o c = T \o N
  BY <1>1, <1>2, ConcatAssociative
<1>6. (T \o N) \o k = T \o (N \o k)
  <2>1. T \in Seq(C) /\ N \in Seq(C) /\ k \in Seq(C)
    BY <1>1, <1>2
  <2> QED BY <2>1, ConcatAssociative
<1>7. Before(n, k) \in Text
  BY <1>4 DEF Before, Text, C, N, c
<1> QED BY <1>3, <1>5, <1>6, <1>7

LEMMA KeysApart ==
    ASSUME NEW t \in Text, NEW s \in Text, NEW n \in Text, NEW m \in Text, NEW k \in Text, NEW j \in Text,
           Plain(t), Plain(s), Plain(n), Plain(m), textOf(t, n, k) = textOf(s, m, j)
    PROVE  t = s /\ k = j
<1>1. Before(t, Before(n, k)) = Before(s, Before(m, j)) /\ Before(n, k) \in Text /\ Before(m, j) \in Text
  BY TextParts
<1>2. t = s /\ Before(n, k) = Before(m, j)
  BY <1>1, CutAlike
<1> QED BY <1>2, CutAlike

\* Where neither tenant ids nor names hold a colon, the value of an answer is
\* that of a request of the same tenant and key (idempotency.ts:21): the keys a
\* key leads to differ from it in the name only.
THEOREM AnswersStay == Spec => []AnswersStayWithTenant
<1>1. IInv => AnswersStayWithTenant
  <2> SUFFICES ASSUME IInv, ColonFree, NEW r \in Request, answer[r].status = "fulfilled"
               PROVE  /\ tenantOf(answer[r].value) = tenantOf(r)
                      /\ IdemKey[answer[r].value] = IdemKey[r]
    BY DEF AnswersStayWithTenant
  <2> DEFINE q == answer[r].value
  <2>1. q \in Request
    BY SettlementFacts DEF IInv, RequestTypes
  <2>2. /\ Authorized(r) /\ Authorized(q)
        /\ q = r \/ ({q, r} \subseteq Sharing /\ WorkKey(q) \in Reach[FirstKey(r)])
    BY DEF IInv, AnswersEarned
  <2> HIDE DEF q
  <2> DEFINE mine(k) == \E n \in Command : k = textOf(tenantOf(r), n, IdemKey[r])
             S == {k \in Key : mine(k)}
  <2>3. \A p \in Request : Authorized(p) => tenantOf(p) \in Tenant /\ CommandOf[p] \in Command
    BY RequestsAssumption DEF Authorized, tenantOf, Principal
  <2>4. \A p \in Request : Authorized(p) /\ Idempotent(p) => ClassName[CommandOf[p]] \in Command
    BY <2>3, RequestsAssumption DEF Idempotent
  <2>5. /\ \A t \in Tenant : t \in Text /\ Plain(t)
        /\ \A n \in Command : n \in Text /\ Plain(n)
        /\ \A p \in Request : IdemKey[p] \in Text
    <3>1. Seq(Char) \subseteq Text
      BY DEF Text
    <3> QED BY <3>1, TextsAssumption DEF ColonFree, Plain
  <2>6. ASSUME NEW p \in Request, Authorized(p), NEW n \in Command, mine(Named(p, n))
        PROVE  tenantOf(p) = tenantOf(r) /\ IdemKey[p] = IdemKey[r]
    <3>1. PICK m \in Command : textOf(tenantOf(p), n, IdemKey[p]) = textOf(tenantOf(r), m, IdemKey[r])
      BY <2>6 DEF Named
    <3> QED BY <2>2, <2>3, <2>5, <2>6, <3>1, KeysApart
  <2>7. S \in ClosedBelow
    <3>1. ASSUME NEW p \in Request, p \in Keyed, Authorized(p), Idempotent(p), Named(p, CommandOf[p]) \in S
          PROVE  Named(p, ClassName[CommandOf[p]]) \in S
      <4>1. tenantOf(p) = tenantOf(r) /\ IdemKey[p] = IdemKey[r]
        BY <2>3, <2>6, <3>1
      <4>2. ClassName[CommandOf[p]] \in Command /\ tenantOf(p) \in Tenant
        BY <2>3, <2>4, <3>1
      <4> QED BY <4>1, <4>2 DEF Named, Key
    <3>2. ASSUME NEW e \in Below, e[1] \in S PROVE e[2] \in S
      BY <3>1, <3>2, RequestsAssumption DEF Below
    <3> QED BY <3>2 DEF ClosedBelow
  <2>8. CASE q = r
    BY <2>8 DEF q
  <2>9. CASE q # r
    <3>1. {q, r} \subseteq Sharing /\ WorkKey(q) \in Reach[FirstKey(r)]
      BY <2>2, <2>9
    <3>2. FirstKey(r) \in Key /\ mine(FirstKey(r))
      <4>1. r \in Keyed \/ Idempotent(r)
        BY <3>1 DEF Sharing
      <4>2. \E n \in Command : FirstKey(r) = textOf(tenantOf(r), n, IdemKey[r])
        BY <2>2, <2>3, <2>4, <4>1 DEF FirstKey, Named
      <4> QED BY <2>2, <2>3, <4>2 DEF Key
    <3>3. WorkKey(q) \in S
      BY <2>7, <3>1, <3>2, ReachFacts
    <3>4. \E n \in Command : WorkKey(q) = Named(q, n)
      BY <2>1, <2>2, <2>3, <2>4 DEF WorkKey
    <3> QED BY <2>1, <2>2, <2>6, <3>3, <3>4 DEF q
  <2> QED BY <2>8, <2>9
<1> QED BY <1>1, Invariance, PTL

\* The counters of metrics.ts:21 tell the executions, with neither replays nor
\* those who joined.
THEOREM CountersTellExecutions == Spec => []MetricsCountExecutions
<1>1. IInv => MetricsCountExecutions
  BY DEF IInv, Counted
<1> QED BY <1>1, Invariance, PTL

\* Span and log of an answered request tell how it ended.
THEOREM TracesTellOutcomes == Spec => []TracesTellOutcome
<1>1. IInv => TracesTellOutcome
  BY DEF IInv, RequestsOK, RequestOK, Told, Admitted, TracesTellOutcome
<1> QED BY <1>1, Invariance, PTL

=============================================================================
