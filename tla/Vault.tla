-------------------------------- MODULE Vault -------------------------------
(***************************************************************************)
(* Provider credentials and secrets:                                       *)
(* app/ports/provider-credential-vault.ts with its in-memory vault, and    *)
(* the in-memory secrets store.  Requests hold disposable handles while    *)
(* operations rotate what they were loaded from.  Watchers of a secret are *)
(* called in the turn that sets it, one after the other, until one throws; *)
(* a callback that itself watches or sets is left out.                     *)
(***************************************************************************)
EXTENDS Integers, FiniteSets, Sequences, Selection

CONSTANTS Account,      \* `${tenantId}|${provider}`
          Handle,       \* the handles that loadCredentials makes
          Path,         \* paths of secrets
          Subscription, \* calls of watch
          PathOf, CallbackOf,
          Value,        \* credentials and secrets
          Nothing       \* an absent or cleared value

ASSUME WatchAssumption == /\ PathOf \in [Subscription -> Path]
                          /\ Nothing \notin BOOLEAN

Callback == {CallbackOf[s] : s \in Subscription}
Unused == [account |-> Nothing, data |-> Nothing, disposed |-> FALSE]

VARIABLES
    credentials, \* the vault's store
    handles,     \* each handle: its own copy of the value, whether it is disposed
    secrets,     \* the secrets store
    watchers,    \* the set of callbacks for each path, in the order they were added
    removed,     \* the flag in each Unsubscribe, or Nothing before watch
    seeded,      \* GHOST: what each handle was loaded from
    told,        \* GHOST: what each watcher's callback was last called with, or what
                 \* the secret was when it began to watch
    passedOver,  \* GHOST: the watchers the last set of their path did not come to
    cutOff       \* GHOST: the watchers whose callback another's Unsubscribe deleted

credentialVars == <<credentials, handles, seeded>>
secretVars == <<secrets, watchers, removed, told, passedOver, cutOff>>
vaultVars == <<credentialVars, secretVars>>

VaultInit ==
    /\ credentials = [a \in Account |-> Nothing]
    /\ handles = [h \in Handle |-> Unused]
    /\ secrets = [p \in Path |-> Nothing]
    /\ watchers = [p \in Path |-> <<>>]
    /\ removed = [s \in Subscription |-> Nothing]
    /\ seeded = [h \in Handle |-> Nothing]
    /\ told = [s \in Subscription |-> Nothing]
    /\ passedOver = {}
    /\ cutOff = {}

---------------------------------- (* vault *) ------------------------------

\* Rotation: the new value is stored and rotate() is called, which does nothing.
seed(a, v) ==
    /\ credentials' = [credentials EXCEPT ![a] = v]
    /\ UNCHANGED <<handles, seeded, secretVars>>

\* An account without credentials is rejected, and nothing changes.
loadCredentials(h, a) ==
    /\ handles[h] = Unused /\ credentials[a] # Nothing
    /\ handles' = [handles EXCEPT ![h] = [account |-> a, data |-> credentials[a],
                                          disposed |-> FALSE]]
    /\ seeded' = [seeded EXCEPT ![h] = credentials[a]]
    /\ UNCHANGED <<credentials, secretVars>>

\* What reveal() returns, or Nothing where it throws.
reveal(h) == IF handles[h].disposed THEN Nothing ELSE handles[h].data

\* Mutant of dispose: the handle is the record of the store, not a copy of it.
disposeShared(h) ==
    /\ handles[h] # Unused
    /\ handles' = [g \in Handle |->
        IF g = h THEN [handles[h] EXCEPT !.disposed = TRUE, !.data = Nothing]
        ELSE IF handles[g].account = handles[h].account
        THEN [handles[g] EXCEPT !.data = Nothing] ELSE handles[g]]
    /\ credentials' = [credentials EXCEPT ![handles[h].account] = Nothing]
    /\ UNCHANGED <<seeded, secretVars>>

\* [Symbol.dispose]: a second call does nothing.
dispose(h) ==
    /\ handles[h] # Unused
    /\ handles' = [handles EXCEPT ![h].disposed = TRUE, ![h].data = Nothing]
    /\ UNCHANGED <<credentials, seeded, secretVars>>

liveHandleCount == Cardinality({h \in Handle : handles[h] # Unused /\ ~handles[h].disposed})

------------------------------ (* secrets store *) --------------------------

\* How many callbacks the loop over ws may call: it ends behind the last one, or
\* behind one that throws, and set throws with it.
Calls(ws) == IF ws = <<>> THEN {0} ELSE 1..Len(ws)

\* The secret is stored, then the first n callbacks are called with it.
set(p, v, n) ==
    LET registeredAt(I) == {s \in Subscription : /\ PathOf[s] = p
                                                 /\ \E i \in I : watchers[p][i] = CallbackOf[s]}
        called == registeredAt(1..n)
        left == registeredAt((n + 1)..Len(watchers[p]))
    IN  /\ secrets' = [secrets EXCEPT ![p] = v]
        /\ told' = [s \in Subscription |-> IF s \in called THEN v ELSE told[s]]
        /\ passedOver' = {s \in passedOver : PathOf[s] # p} \cup left
        /\ UNCHANGED <<watchers, removed, cutOff, credentialVars>>

\* Set.add: a callback that is there stays where it is.
Added(ws, c) == IF \E i \in DOMAIN ws : ws[i] = c THEN ws ELSE Append(ws, c)

watch(s) ==
    /\ removed[s] = Nothing
    /\ watchers' = [watchers EXCEPT ![PathOf[s]] = Added(@, CallbackOf[s])]
    /\ removed' = [removed EXCEPT ![s] = FALSE]
    /\ told' = [told EXCEPT ![s] = secrets[PathOf[s]]]
    /\ passedOver' = passedOver \ {s}
    /\ UNCHANGED <<secrets, cutOff, credentialVars>>

\* Set.delete.
Deleted(ws, c) == Selected(ws, {i \in DOMAIN ws : ws[i] # c})

\* Who watches the same path with the same callback.
rivals(s) == {t \in Subscription \ {s} : /\ PathOf[t] = PathOf[s]
                                         /\ CallbackOf[t] = CallbackOf[s]
                                         /\ removed[t] = FALSE}

\* Mutant of unsubscribe: without the flag, a second call deletes again.
unsubscribeAgain(s) ==
    /\ removed[s] # Nothing
    /\ removed' = [removed EXCEPT ![s] = TRUE]
    /\ watchers' = [watchers EXCEPT ![PathOf[s]] = Deleted(@, CallbackOf[s])]
    /\ cutOff' = IF removed[s] THEN cutOff ELSE cutOff \cup rivals(s)
    /\ UNCHANGED <<secrets, told, passedOver, credentialVars>>

\* The closure that watch returns.  It deletes the callback, whoever registered it;
\* from the second call on nothing happens.
unsubscribe(s) ==
    /\ removed[s] # Nothing
    /\ IF removed[s] THEN UNCHANGED <<watchers, removed, cutOff>>
       ELSE /\ removed' = [removed EXCEPT ![s] = TRUE]
            /\ watchers' = [watchers EXCEPT ![PathOf[s]] = Deleted(@, CallbackOf[s])]
            /\ cutOff' = cutOff \cup rivals(s)
    /\ UNCHANGED <<secrets, told, passedOver, credentialVars>>

CredentialNext ==
    \/ \E a \in Account, v \in Value : seed(a, v)
    \/ \E h \in Handle, a \in Account : loadCredentials(h, a)
    \/ \E h \in Handle : dispose(h)

SecretNext ==
    \/ \E p \in Path, v \in Value : \E n \in Calls(watchers[p]) : set(p, v, n)
    \/ \E s \in Subscription : watch(s) \/ unsubscribe(s)

------------------------------ (* properties *) -----------------------------

\* Whatever is rotated or disposed, a handle reveals what its account held when
\* it was loaded until it is disposed, and nothing after; the vault counts as
\* live exactly the handles that still reveal something
\* (provider-credential-vault.ts:45).
HandlesKeepTheirValue ==
    /\ \A h \in Handle : handles[h] # Unused =>
        reveal(h) = IF handles[h].disposed THEN Nothing ELSE seeded[h]
    /\ liveHandleCount = Cardinality({h \in Handle : reveal(h) # Nothing})

\* Who watches a path and has not unsubscribed has been called with the value the
\* path has, if it was set while it watched (fake-secrets-store.ts:9): neither an
\* Unsubscribe called again nor the removal of another callback costs it a
\* rotation.  The exceptions are an Unsubscribe that shares its callback, called
\* for the first time, and a callback before it that threw in the last set.
WatchersCurrent ==
    \A s \in Subscription \ (cutOff \cup passedOver) :
        removed[s] = FALSE => told[s] = secrets[PathOf[s]]

=============================================================================
