----------------------------- MODULE AtMostOnce -----------------------------
(***************************************************************************)
(* What the IdempotencyPort promises its callers                           *)
(* (app/ports/idempotency-port.ts): within the window of a key one         *)
(* execution answers every caller, a fulfilled result is replayed, and a   *)
(* rejection is not remembered.  Who executes, the map of promises and the *)
(* clock are left out; Idempotency.tla implements this module.             *)
(***************************************************************************)
CONSTANTS Call,    \* invocations of run()
          Key,     \* idempotency keys
          KeyOf,   \* the key each invocation passes
          Result,  \* what fn may fulfil with
          Failure, \* what run() may reject with
          NoValue  \* "nothing recorded", "nothing answered"

VARIABLES recorded, \* the result remembered for each key
          state,    \* each invocation: "idle", "waiting" or "done"
          outcome   \* what each settled invocation got

vars == <<recorded, state, outcome>>

Unsettled == [status |-> "pending", value |-> NoValue]
Fulfilled(v) == [status |-> "fulfilled", value |-> v]
Rejected(e) == [status |-> "rejected", value |-> e]

Waiting(k) == {c \in Call : state[c] = "waiting" /\ KeyOf[c] = k}

Init == /\ recorded = [k \in Key |-> NoValue]
        /\ state = [c \in Call |-> "idle"]
        /\ outcome = [c \in Call |-> Unsettled]

\* Nothing is recorded: the caller waits for an execution, its own or another's.
Ask(c) == /\ state[c] = "idle"
          /\ recorded[KeyOf[c]] = NoValue
          /\ state' = [state EXCEPT ![c] = "waiting"]
          /\ UNCHANGED <<recorded, outcome>>

\* A result is recorded: it is the answer, and nothing executes.
Replay(c) == /\ state[c] = "idle"
             /\ recorded[KeyOf[c]] # NoValue
             /\ state' = [state EXCEPT ![c] = "done"]
             /\ outcome' = [outcome EXCEPT ![c] = Fulfilled(recorded[KeyOf[c]])]
             /\ UNCHANGED recorded

\* The adapter refuses the call (a window that is not positive).
Refuse(c, e) == /\ state[c] = "idle"
                /\ state' = [state EXCEPT ![c] = "done"]
                /\ outcome' = [outcome EXCEPT ![c] = Rejected(e)]
                /\ UNCHANGED recorded

AnswerAll(k, o) ==
    /\ Waiting(k) # {}
    /\ state' = [c \in Call |-> IF c \in Waiting(k) THEN "done" ELSE state[c]]
    /\ outcome' = [c \in Call |-> IF c \in Waiting(k) THEN o ELSE outcome[c]]

\* The one execution of k fulfils: everyone waiting gets its result.
Fulfil(k, v) == /\ recorded[k] = NoValue
                /\ recorded' = [recorded EXCEPT ![k] = v]
                /\ AnswerAll(k, Fulfilled(v))

\* It rejects: everyone waiting gets the rejection, nothing is recorded.
Reject(k, e) == /\ AnswerAll(k, Rejected(e))
                /\ UNCHANGED recorded

\* The windows of the keys in K end.
Forget(K) == /\ recorded' = [k \in Key |-> IF k \in K THEN NoValue ELSE recorded[k]]
             /\ UNCHANGED <<state, outcome>>

\* The same request is made again.
Again(c) == /\ state[c] = "done"
            /\ state' = [state EXCEPT ![c] = "idle"]
            /\ outcome' = [outcome EXCEPT ![c] = Unsettled]
            /\ UNCHANGED recorded

Next == \/ \E c \in Call : \/ Ask(c) \/ Replay(c) \/ Again(c)
                           \/ \E e \in Failure : Refuse(c, e)
        \/ \E k \in Key : \/ \E v \in Result : Fulfil(k, v)
                          \/ \E e \in Failure : Reject(k, e)
        \/ \E K \in SUBSET Key : Forget(K)

Spec == Init /\ [][Next]_vars

=============================================================================
