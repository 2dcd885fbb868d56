-------------------------- MODULE IdempotencyTurns --------------------------
(***************************************************************************)
(* run() of app/ports/__fakes__/fake-idempotency.ts taken apart within one *)
(* turn of the event loop.  The promise of an execution is registered only *)
(* after fn has run up to its first await, so                              *)
(*   - what fn calls before that await finds no promise of its caller, and *)
(*     executes, even under the same key;                                  *)
(*   - an fn that throws before it returns a promise has its rejection     *)
(*     registered after the finally has cleared the key, and it stays;     *)
(*   - an execution that settles clears its key, whoever is registered.    *)
(* Joiners hold the promise they found, not the key they found it under.   *)
(*                                                                         *)
(* The fns of this repository throw nothing at once and run other keys in  *)
(* their first turn.  For those the whole turn is Idempotency's Begin, as  *)
(* ImplementsStore says.                                                   *)
(***************************************************************************)
EXTENDS Idempotency, SequencesExt

CONSTANTS Inside,  \* the invocations the fn of each one may make, at any
                   \*   depth, before its first await
          Throwing \* the invocations whose fn throws instead of returning a promise

ASSUME TurnsAssumption == /\ Inside \in [Call -> SUBSET Call]
                          /\ Throwing \subseteq Call

VARIABLES stack,  \* the invocations inside the first turn of their fn, innermost last
          awaits, \* the invocation whose promise each joiner holds
          left    \* the rejection a registered promise had before it was registered

turnVars == <<stack, awaits, left>>
turnsVars == <<vars, turnVars>>

TurnsInit == /\ Init
             /\ stack = <<>>
             /\ awaits = [c \in Call |-> NoCall]
             /\ left = [k \in Key |-> Unsettled]

\* Within a turn only what is called in it can run.
MayRun(c) == \A i \in DOMAIN stack : c \in Inside[stack[i]]

\* Mutant of Enter: the promise is registered before fn runs.
EnterRegistered(c) ==
    /\ phase[c] = "idle"
    /\ Ttl[c] > 0
    /\ ~Live(KeyOf[c])
    /\ inflight[KeyOf[c]] = NoCall
    /\ phase' = [phase EXCEPT ![c] = "entered"]
    /\ inflight' = [inflight EXCEPT ![KeyOf[c]] = c]
    /\ stack' = Append(stack, c)
    /\ UNCHANGED <<now, cache, outcome, awaits, left>>

\* fn is called; its promise is not registered yet.
Enter(c) ==
    /\ phase[c] = "idle"
    /\ Ttl[c] > 0
    /\ ~Live(KeyOf[c])
    /\ inflight[KeyOf[c]] = NoCall
    /\ phase' = [phase EXCEPT ![c] = "entered"]
    /\ stack' = Append(stack, c)
    /\ UNCHANGED <<now, cache, inflight, outcome, awaits, left>>

\* fn has come to its first await, and its promise is registered.
Suspend(c) ==
    /\ stack # <<>> /\ c = Last(stack)
    /\ c \notin Throwing
    /\ stack' = Front(stack)
    /\ phase' = [phase EXCEPT ![c] = "running"]
    /\ inflight' = [inflight EXCEPT ![KeyOf[c]] = c]
    /\ left' = [left EXCEPT ![KeyOf[c]] = Unsettled]
    /\ UNCHANGED <<now, cache, outcome, awaits>>

\* fn throws at once: the finally clears the key, then the promise is registered.
ThrowAtOnce(c, e) ==
    /\ stack # <<>> /\ c = Last(stack)
    /\ c \in Throwing
    /\ stack' = Front(stack)
    /\ phase' = [phase EXCEPT ![c] = "done"]
    /\ outcome' = [outcome EXCEPT ![c] = Rejected(e)]
    /\ inflight' = [inflight EXCEPT ![KeyOf[c]] = c]
    /\ left' = [left EXCEPT ![KeyOf[c]] = Rejected(e)]
    /\ UNCHANGED <<now, cache, awaits>>

FindPromise(c) ==
    /\ phase[c] = "idle"
    /\ Ttl[c] > 0
    /\ ~Live(KeyOf[c])
    /\ inflight[KeyOf[c]] # NoCall

JoinPromise(c) ==
    /\ FindPromise(c) /\ left[KeyOf[c]] = Unsettled
    /\ phase' = [phase EXCEPT ![c] = "joined"]
    /\ awaits' = [awaits EXCEPT ![c] = inflight[KeyOf[c]]]
    /\ UNCHANGED <<now, cache, inflight, outcome, stack, left>>

\* The promise found has been rejected since before it was registered.
JoinRejection(c) ==
    /\ FindPromise(c) /\ left[KeyOf[c]] # Unsettled
    /\ phase' = [phase EXCEPT ![c] = "done"]
    /\ outcome' = [outcome EXCEPT ![c] = left[KeyOf[c]]]
    /\ UNCHANGED <<now, cache, inflight, turnVars>>

\* Mutant of Holding: whoever joined under the key is taken to hold the promise
\* that is registered last.
HoldingRegistered(c) == {c} \cup {d \in Call : /\ phase[d] = "joined"
                                               /\ inflight[KeyOf[d]] = c}

\* The invocations that hold the promise of c.
Holding(c) == {c} \cup {d \in Call : phase[d] = "joined" /\ awaits[d] = c}

SettleHeld(c, o) ==
    /\ stack = <<>>
    /\ phase[c] = "running"
    /\ inflight' = [inflight EXCEPT ![KeyOf[c]] = NoCall]
    /\ left' = [left EXCEPT ![KeyOf[c]] = Unsettled]
    /\ phase' = [d \in Call |-> IF d \in Holding(c) THEN "done" ELSE phase[d]]
    /\ outcome' = [d \in Call |-> IF d \in Holding(c) THEN o ELSE outcome[d]]
    /\ awaits' = [d \in Call |-> IF d \in Holding(c) THEN NoCall ELSE awaits[d]]
    /\ UNCHANGED <<now, stack>>

FulfilHeld(c, v) ==
    /\ SettleHeld(c, Fulfilled(v))
    /\ cache' = [cache EXCEPT ![KeyOf[c]] = [expiresAt |-> now + Ttl[c], value |-> v]]

\* Mutant of RejectHeld: the settlement is cached whatever it is.
RejectHeldCached(c, e) ==
    /\ SettleHeld(c, Rejected(e))
    /\ cache' = [cache EXCEPT ![KeyOf[c]] = [expiresAt |-> now + Ttl[c], value |-> e]]

RejectHeld(c, e) ==
    /\ SettleHeld(c, Rejected(e))
    /\ UNCHANGED cache

Replay(c) == ReturnCached(c) /\ UNCHANGED turnVars

\* The caller sends the same request again, in a turn of its own.
Resend(c) == /\ stack = <<>>
             /\ Again(c)
             /\ UNCHANGED turnVars

RunTurn(c) == /\ MayRun(c)
              /\ \/ Enter(c) \/ JoinPromise(c) \/ JoinRejection(c) \/ Replay(c)
                 \/ RejectTtl(c) /\ UNCHANGED turnVars
EndTurn(c) == \/ Suspend(c)
              \/ \E e \in Failure \ {BadTtl} : ThrowAtOnce(c, e)
SettleTurn(c) == \/ \E v \in Result : FulfilHeld(c, v)
                 \/ \E e \in Failure \ {BadTtl} : RejectHeld(c, e)

TurnsNext == \/ \E c \in Call : RunTurn(c) \/ EndTurn(c) \/ SettleTurn(c) \/ Resend(c)
             \/ Tick /\ UNCHANGED turnVars

TurnsSpec == TurnsInit /\ [][TurnsNext]_turnsVars

\* A turn ends, and fn is assumed to settle.  Its continuation waits for the
\* turns before it in the queue, and no turn can overtake it for ever.
TurnsFairness == \A c \in Call : WF_turnsVars(EndTurn(c)) /\ SF_turnsVars(SettleTurn(c))

-----------------------------------------------------------------------------

\* Types of the state.
TurnsTypeOK == /\ now \in Nat
               /\ cache \in [Key -> Entry]
               /\ inflight \in [Key -> Call \cup {NoCall}]
               /\ phase \in [Call -> {"idle", "entered", "running", "joined", "done"}]
               /\ outcome \in [Call -> Outcome]
               /\ stack \in Seq(Call)
               /\ awaits \in [Call -> Call \cup {NoCall}]
               /\ left \in [Key -> Outcome]

\* Whoever joined a promise is answered, also when what is registered for its
\* key has been replaced or cleared since (fake-idempotency.ts:35,37).
HoldersAnswered == \A c \in Call : phase[c] = "joined" ~> phase[c] = "done"

\* What fns that throw nothing at once, and run no key of theirs in their first
\* turn, look like from outside.
Disciplined == /\ Throwing = {}
               /\ \A c \in Call : \A d \in Inside[c] : KeyOf[d] # KeyOf[c]

\* The invocation a key belongs to: one inside its first turn, or the registered one.
EnteredAt(k) == {c \in Call : phase[c] = "entered" /\ KeyOf[c] = k}
Owner(k) == IF EnteredAt(k) = {} THEN inflight[k] ELSE CHOOSE c \in EnteredAt(k) : TRUE

\* For disciplined fns the store of Idempotency, where fn starts and registers
\* in one step, is what can be seen between two turns and within them
\* (fake-idempotency.ts:28-37).
Atomic == INSTANCE Idempotency WITH
    inflight <- [k \in Key |-> Owner(k)],
    phase <- [c \in Call |-> IF phase[c] = "entered" THEN "running" ELSE phase[c]]
ImplementsStore == Atomic!Spec

=============================================================================
