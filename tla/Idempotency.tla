---------------------------- MODULE Idempotency -----------------------------
(***************************************************************************)
(* The in-memory idempotency store,                                        *)
(* app/ports/__fakes__/fake-idempotency.ts.  Each invocation of            *)
(* run(key, ttlMs, fn) is a member of Call; an invocation that executes fn *)
(* owns the promise kept in inflight, one that finds a promise there joins *)
(* it.  run() has no await before it returns or registers the promise, and *)
(* fn runs up to its first await in between, so all of this is one step;   *)
(* the continuation of `await fn()` (cache.set, then inflight.delete in    *)
(* the finally) is another, and the joiners get the settled promise with   *)
(* it.                                                                     *)
(*                                                                         *)
(* This is the store for fns that do not run their own key before their    *)
(* first await and do not throw instead of returning a promise.            *)
(* IdempotencyTurns takes the step apart for all fns.                      *)
(***************************************************************************)
EXTENDS Integers

CONSTANTS Call, Key, KeyOf, \* invocations, keys, and the key of each
          Ttl,              \* the ttlMs each invocation passes, in clock units
          Result, Failure,  \* what fn may fulfil with, or run() reject with
          NoCall, NoValue,
          BadTtl,           \* the rejection of a ttlMs <= 0
          MaxClock          \* BOUND on the clock, for model checking

ASSUME CallsAssumption == /\ KeyOf \in [Call -> Key]
                          /\ Ttl \in [Call -> Int]
                          /\ NoCall \notin Call
ASSUME ValuesAssumption == /\ NoValue \notin Result
                           /\ BadTtl \in Failure
ASSUME ClockAssumption == MaxClock \in Nat

VARIABLES now,      \* Date.now()
          cache,    \* the last result of each key and when it expires
          inflight, \* the invocation whose promise is registered for each key
          phase,    \* "idle", "running" fn, "joined" to a promise, or "done"
          outcome   \* the settlement each invocation got

vars == <<now, cache, inflight, phase, outcome>>

Unsettled == [status |-> "pending", value |-> NoValue]
Fulfilled(v) == [status |-> "fulfilled", value |-> v]
Rejected(e) == [status |-> "rejected", value |-> e]

Outcome == [status : {"pending", "fulfilled", "rejected"},
            value : Result \cup Failure \cup {NoValue}]
Entry == [expiresAt : Int, value : Result \cup {NoValue}]

\* A key that was never cached has an entry that expired before time began.
Live(k) == cache[k].expiresAt > now

Init == /\ now = 0
        /\ cache = [k \in Key |-> [expiresAt |-> 0, value |-> NoValue]]
        /\ inflight = [k \in Key |-> NoCall]
        /\ phase = [c \in Call |-> "idle"]
        /\ outcome = [c \in Call |-> Unsettled]

RejectTtl(c) ==
    /\ phase[c] = "idle"
    /\ Ttl[c] <= 0
    /\ phase' = [phase EXCEPT ![c] = "done"]
    /\ outcome' = [outcome EXCEPT ![c] = Rejected(BadTtl)]
    /\ UNCHANGED <<now, cache, inflight>>

ReturnCached(c) ==
    /\ phase[c] = "idle"
    /\ Ttl[c] > 0
    /\ Live(KeyOf[c])
    /\ phase' = [phase EXCEPT ![c] = "done"]
    /\ outcome' = [outcome EXCEPT ![c] = Fulfilled(cache[KeyOf[c]].value)]
    /\ UNCHANGED <<now, cache, inflight>>

Join(c) ==
    /\ phase[c] = "idle"
    /\ Ttl[c] > 0
    /\ ~Live(KeyOf[c])
    /\ inflight[KeyOf[c]] # NoCall
    /\ phase' = [phase EXCEPT ![c] = "joined"]
    /\ UNCHANGED <<now, cache, inflight, outcome>>

\* Mutant of Begin: the map of promises is not consulted.
BeginIgnoringInflight(c) ==
    /\ phase[c] = "idle"
    /\ Ttl[c] > 0
    /\ ~Live(KeyOf[c])
    /\ phase' = [phase EXCEPT ![c] = "running"]
    /\ inflight' = [inflight EXCEPT ![KeyOf[c]] = c]
    /\ UNCHANGED <<now, cache, outcome>>

\* Mutant of Begin: only the map of promises is consulted, not the cache.
BeginIgnoringCache(c) ==
    /\ phase[c] = "idle"
    /\ Ttl[c] > 0
    /\ inflight[KeyOf[c]] = NoCall
    /\ phase' = [phase EXCEPT ![c] = "running"]
    /\ inflight' = [inflight EXCEPT ![KeyOf[c]] = c]
    /\ UNCHANGED <<now, cache, outcome>>

\* fn has run to its first await, and its promise is registered: Enter and
\* Suspend of IdempotencyTurns, with nothing of the same key in between.
Begin(c) ==
    /\ phase[c] = "idle"
    /\ Ttl[c] > 0
    /\ ~Live(KeyOf[c])
    /\ inflight[KeyOf[c]] = NoCall
    /\ phase' = [phase EXCEPT ![c] = "running"]
    /\ inflight' = [inflight EXCEPT ![KeyOf[c]] = c]
    /\ UNCHANGED <<now, cache, outcome>>

\* Mutant of Awaiting: a joiner polls the cache instead of the promise.
AwaitingOwnerOnly(c) == {c}

\* The invocations the promise of c answers: its owner and those who joined it.
Awaiting(c) == {c} \cup {d \in Call : phase[d] = "joined" /\ KeyOf[d] = KeyOf[c]}

SettlePromise(c, o) ==
    /\ phase[c] = "running"
    /\ inflight' = [inflight EXCEPT ![KeyOf[c]] = NoCall]
    /\ phase' = [d \in Call |-> IF d \in Awaiting(c) THEN "done" ELSE phase[d]]
    /\ outcome' = [d \in Call |-> IF d \in Awaiting(c) THEN o ELSE outcome[d]]

\* Mutant of Fulfil: the window is not added to the expiry.
FulfilWithoutTtl(c, v) ==
    /\ SettlePromise(c, Fulfilled(v))
    /\ cache' = [cache EXCEPT ![KeyOf[c]] = [expiresAt |-> now, value |-> v]]
    /\ UNCHANGED now

\* fn fulfilled with v: cached with the window of the invocation that ran it.
Fulfil(c, v) ==
    /\ SettlePromise(c, Fulfilled(v))
    /\ cache' = [cache EXCEPT ![KeyOf[c]] = [expiresAt |-> now + Ttl[c], value |-> v]]
    /\ UNCHANGED now

\* Mutant of Reject: the settlement is cached whatever it is.
RejectCached(c, e) ==
    /\ SettlePromise(c, Rejected(e))
    /\ cache' = [cache EXCEPT ![KeyOf[c]] = [expiresAt |-> now + Ttl[c], value |-> e]]
    /\ UNCHANGED now

\* fn rejected with e: nothing is cached.
Reject(c, e) ==
    /\ SettlePromise(c, Rejected(e))
    /\ UNCHANGED <<now, cache>>

\* The caller sends the same request again (a retry, a redelivered webhook).
Again(c) ==
    /\ phase[c] = "done"
    /\ phase' = [phase EXCEPT ![c] = "idle"]
    /\ outcome' = [outcome EXCEPT ![c] = Unsettled]
    /\ UNCHANGED <<now, cache, inflight>>

Tick ==
    /\ now < MaxClock
    /\ now' = now + 1
    /\ UNCHANGED <<cache, inflight, phase, outcome>>

Run(c) == RejectTtl(c) \/ ReturnCached(c) \/ Join(c) \/ Begin(c)
Settle(c) == \/ \E v \in Result : Fulfil(c, v)
             \/ \E e \in Failure : Reject(c, e)

Next == \/ \E c \in Call : Run(c) \/ Settle(c) \/ Again(c)
        \/ Tick

Spec == Init /\ [][Next]_vars

\* run() is called synchronously; fn is assumed to settle.
Fairness == \A c \in Call : WF_vars(Settle(c))
FairSpec == Spec /\ Fairness

-----------------------------------------------------------------------------

TypeOK == /\ now \in Nat
          /\ cache \in [Key -> Entry]
          /\ inflight \in [Key -> Call \cup {NoCall}]
          /\ phase \in [Call -> {"idle", "running", "joined", "done"}]
          /\ outcome \in [Call -> Outcome]

\* "Only one execution proceeds" (idempotency-port.ts): an invocation runs fn
\* exactly when the promise registered for its key is its own, so two
\* invocations of one key are never both inside fn.
OneExecutionPerKey ==
    \A c \in Call : phase[c] = "running" <=> inflight[KeyOf[c]] = c

\* fn never runs for a key whose window is open: what is in the cache is live
\* only when no execution of the key is in progress.
NoExecutionInsideWindow ==
    \A k \in Key : inflight[k] # NoCall => ~Live(k)

\* "Others await its result": whoever joined a promise gets its settlement,
\* provided fn settles.
JoinersAnswered == \A c \in Call : phase[c] = "joined" ~> phase[c] = "done"

\* "At most once within the TTL window", replayed results, rejections not
\* remembered (idempotency-port.ts): the store implements the port's
\* contract, where an expired entry is nothing recorded, and running and joined
\* invocations are waiting ones.
Contract == INSTANCE AtMostOnce WITH
    recorded <- [k \in Key |-> IF Live(k) THEN cache[k].value ELSE NoValue],
    state <- [c \in Call |-> IF phase[c] \in {"running", "joined"}
                             THEN "waiting" ELSE phase[c]]
ImplementsContract == Contract!Spec

=============================================================================
