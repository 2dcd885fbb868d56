---------------------------- MODULE Records_proofs ----------------------------
(***************************************************************************)
(* What a behaviour of Records keeps true, for any handles, watchers,      *)
(* matches, reviewers and inputs.  VaultInv is the inductive invariant of  *)
(* the vault and the secrets store, ReviewInv that of the reviews; neither *)
(* depends on the topic, since a step of one half leaves the other alone.  *)
(* InputHeld is that of the algorithms: their input stays as it is, so     *)
(* what they owe is a lemma about every input, of any depth and length.    *)
(***************************************************************************)
EXTENDS Records, Selection_proofs, FiniteSetTheorems, SequenceTheorems, TLAPS

-----------------------------------------------------------------------------
(* The vault and the secrets store.                                         *)

VaultTypeOK ==
    /\ credentials \in [Account -> Value \cup {Nothing}]
    /\ handles \in [Handle -> [account : Account \cup {Nothing},
                               data : Value \cup {Nothing}, disposed : BOOLEAN]]
    /\ secrets \in [Path -> Value \cup {Nothing}]
    /\ watchers \in [Path -> Seq(Callback)]
    /\ removed \in [Subscription -> BOOLEAN \cup {Nothing}]
    /\ seeded \in [Handle -> Value \cup {Nothing}]
    /\ told \in [Subscription -> Value \cup {Nothing}]
    /\ passedOver \subseteq Subscription
    /\ cutOff \subseteq Subscription

\* A handle holds its value until it is disposed, and a handle not yet loaded
\* holds none.
HandleHolds(h) ==
    IF handles[h] = Unused \/ handles[h].disposed THEN handles[h].data = Nothing
    ELSE handles[h].data = seeded[h] /\ seeded[h] # Nothing

\* That the callback of s is registered.
Registered(s) == \E i \in 1..Len(watchers[PathOf[s]]) : watchers[PathOf[s]][i] = CallbackOf[s]

\* A watcher nobody has cut off is registered, which is why the next set reaches it
\* or ends before, and knows the value unless the last set ended before.
WatcherKnows(s) ==
    removed[s] = FALSE /\ s \notin cutOff =>
        /\ Registered(s)
        /\ s \notin passedOver => told[s] = secrets[PathOf[s]]

VaultInv == /\ VaultTypeOK
            /\ \A h \in Handle : HandleHolds(h)
            /\ \A s \in Subscription : WatcherKnows(s)

\* Before anything was loaded or watched.
LEMMA VaultInitially == VaultInit => VaultInv
<1> SUFFICES ASSUME VaultInit PROVE VaultInv
  OBVIOUS
<1>1. VaultTypeOK
  BY DEF VaultInit, VaultTypeOK, Unused
<1>2. \A h \in Handle : HandleHolds(h)
  BY DEF VaultInit, HandleHolds, Unused
<1>3. \A s \in Subscription : WatcherKnows(s)
  BY WatchAssumption DEF VaultInit, WatcherKnows
<1> QED BY <1>1, <1>2, <1>3 DEF VaultInv

\* Rotating what an account holds touches no handle.
LEMMA SeedKeeps ==
    ASSUME VaultInv, NEW a \in Account, NEW v \in Value, seed(a, v)
    PROVE  VaultInv'
<1>1. VaultTypeOK'
  BY DEF VaultInv, VaultTypeOK, seed, secretVars
<1>2. handles' = handles /\ seeded' = seeded
  BY DEF seed
<1>3. (\A h \in Handle : HandleHolds(h))'
  BY <1>2 DEF VaultInv, HandleHolds
<1>4. (\A s \in Subscription : WatcherKnows(s))'
  BY DEF VaultInv, WatcherKnows, Registered, seed, secretVars
<1> QED BY <1>1, <1>3, <1>4 DEF VaultInv

\* A handle is loaded with a copy.
LEMMA LoadKeeps ==
    ASSUME VaultInv, NEW h \in Handle, NEW a \in Account, loadCredentials(h, a)
    PROVE  VaultInv'
<1>1. VaultTypeOK'
  <2>1. credentials[a] \in Value \cup {Nothing}
    BY DEF VaultInv, VaultTypeOK
  <2> QED BY <2>1 DEF VaultInv, VaultTypeOK, loadCredentials, secretVars
<1>2. ASSUME NEW g \in Handle PROVE HandleHolds(g)'
  <2>1. CASE g = h
    <3>1. handles'[g] = [account |-> a, data |-> credentials[a], disposed |-> FALSE]
      BY <2>1 DEF VaultInv, VaultTypeOK, loadCredentials
    <3>2. seeded'[g] = credentials[a] /\ credentials[a] # Nothing
      BY <2>1 DEF VaultInv, VaultTypeOK, loadCredentials
    <3> QED BY <3>1, <3>2 DEF HandleHolds, Unused
  <2>2. CASE g # h
    <3>1. handles'[g] = handles[g] /\ seeded'[g] = seeded[g]
      BY <2>2 DEF VaultInv, VaultTypeOK, loadCredentials
    <3> QED BY <3>1 DEF VaultInv, HandleHolds
  <2> QED BY <2>1, <2>2
<1>3. (\A s \in Subscription : WatcherKnows(s))'
  BY DEF VaultInv, WatcherKnows, Registered, loadCredentials, secretVars
<1> QED BY <1>1, <1>2, <1>3 DEF VaultInv

\* Only the handle disposed of is cleared.
LEMMA DisposeKeeps ==
    ASSUME VaultInv, NEW h \in Handle, dispose(h)
    PROVE  VaultInv'
<1> DEFINE Held == [account : Account \cup {Nothing}, data : Value \cup {Nothing},
                    disposed : BOOLEAN]
           d == [handles[h] EXCEPT !.disposed = TRUE]
           e == [d EXCEPT !.data = Nothing]
<1>1. handles \in [Handle -> Held] /\ handles[h] \in Held
  BY DEF VaultInv, VaultTypeOK
<1>2. e \in Held /\ e.data = Nothing /\ e.disposed = TRUE
  <2>1. d \in Held /\ d.disposed = TRUE
    BY <1>1
  <2> HIDE DEF d
  <2> QED BY <2>1
<1>3. handles' = [[handles EXCEPT ![h] = d] EXCEPT ![h].data = Nothing]
  BY DEF dispose
<1> HIDE DEF Held, d
<1>4. handles' \in [Handle -> Held] /\ handles'[h] = e
      /\ \A g \in Handle : g # h => handles'[g] = handles[g]
  <2>1. handles' = [handles EXCEPT ![h] = e]
    BY <1>1, <1>3
  <2> HIDE DEF e
  <2> QED BY <1>1, <1>2, <2>1
<1> HIDE DEF e
<1>5. VaultTypeOK'
  BY <1>4 DEF VaultInv, VaultTypeOK, dispose, secretVars, Held
<1>6. ASSUME NEW g \in Handle PROVE HandleHolds(g)'
  <2>1. CASE g = h
    BY <1>2, <1>4, <2>1 DEF HandleHolds
  <2>2. CASE g # h
    <3>1. seeded'[g] = seeded[g]
      BY DEF dispose
    <3> QED BY <1>4, <2>2, <3>1 DEF VaultInv, HandleHolds
  <2> QED BY <2>1, <2>2
<1>7. (\A s \in Subscription : WatcherKnows(s))'
  BY DEF VaultInv, WatcherKnows, Registered, dispose, secretVars
<1> QED BY <1>5, <1>6, <1>7 DEF VaultInv

\* Setting a secret calls the callbacks up to one that throws.
LEMMA SetKeeps ==
    ASSUME VaultInv, NEW p \in Path, NEW v \in Value, NEW n \in Calls(watchers[p]), set(p, v, n)
    PROVE  VaultInv'
<1> DEFINE registeredAt(I) == {s \in Subscription : /\ PathOf[s] = p
                                                    /\ \E i \in I : watchers[p][i] = CallbackOf[s]}
           called == registeredAt(1..n)
           left == registeredAt((n + 1)..Len(watchers[p]))
<1>1. /\ secrets' = [secrets EXCEPT ![p] = v]
      /\ told' = [s \in Subscription |-> IF s \in called THEN v ELSE told[s]]
      /\ passedOver' = {s \in passedOver : PathOf[s] # p} \cup left
      /\ UNCHANGED <<watchers, removed, cutOff, credentialVars>>
  BY DEF set
<1>2. watchers[p] \in Seq(Callback) /\ n \in 0..Len(watchers[p])
  BY DEF VaultInv, VaultTypeOK, Calls
<1>3. VaultTypeOK'
  <2>1. called \subseteq Subscription /\ left \subseteq Subscription
    OBVIOUS
  <2> HIDE DEF registeredAt
  <2>2. /\ told' \in [Subscription -> Value \cup {Nothing}]
        /\ passedOver' \subseteq Subscription
        /\ secrets' \in [Path -> Value \cup {Nothing}]
    BY <1>1, <2>1 DEF VaultInv, VaultTypeOK
  <2> QED BY <1>1, <2>2 DEF VaultInv, VaultTypeOK, credentialVars
<1>4. (\A h \in Handle : HandleHolds(h))'
  BY DEF VaultInv, HandleHolds, set, credentialVars
<1>5. ASSUME NEW s \in Subscription PROVE WatcherKnows(s)'
  <2> SUFFICES ASSUME removed[s] = FALSE, s \notin cutOff
               PROVE  /\ Registered(s)
                      /\ s \notin passedOver' => told'[s] = secrets'[PathOf[s]]
    BY <1>1 DEF WatcherKnows, Registered
  <2>1. Registered(s) /\ (s \notin passedOver => told[s] = secrets[PathOf[s]])
    BY DEF VaultInv, WatcherKnows
  <2>2. CASE PathOf[s] = p
    <3>1. PICK i \in 1..Len(watchers[p]) : watchers[p][i] = CallbackOf[s]
      BY <2>1, <2>2 DEF Registered
    <3>2. i \in 1..n \/ i \in (n + 1)..Len(watchers[p])
      BY <1>2, <3>1
    <3>3. s \in called \/ s \in left
      BY <2>2, <3>1, <3>2
    <3>4. secrets'[p] = v
      BY <1>1 DEF VaultInv, VaultTypeOK
    <3> HIDE DEF registeredAt
    <3> QED BY <1>1, <2>1, <2>2, <3>3, <3>4
  <2>3. CASE PathOf[s] # p
    <3>1. s \notin called /\ secrets'[PathOf[s]] = secrets[PathOf[s]]
      BY <1>1, <2>3, WatchAssumption DEF VaultInv, VaultTypeOK
    <3> HIDE DEF registeredAt
    <3> QED BY <1>1, <2>1, <2>3, <3>1
  <2> QED BY <2>2, <2>3
<1> QED BY <1>3, <1>4, <1>5 DEF VaultInv

\* watch registers the callback, and who it was registered for before keeps it.
LEMMA WatchKeeps ==
    ASSUME VaultInv, NEW s \in Subscription, watch(s)
    PROVE  VaultInv'
<1> DEFINE p == PathOf[s]
           c == CallbackOf[s]
           ws == watchers[p]
           more == Added(ws, c)
<1>1. p \in Path /\ c \in Callback /\ secrets[p] \in Value \cup {Nothing} /\ ws \in Seq(Callback)
  BY WatchAssumption DEF Callback, VaultInv, VaultTypeOK
<1>2. /\ watchers' = [watchers EXCEPT ![p] = more]
      /\ removed' = [removed EXCEPT ![s] = FALSE]
      /\ told' = [told EXCEPT ![s] = secrets[p]]
      /\ passedOver' = passedOver \ {s}
      /\ UNCHANGED <<secrets, cutOff, credentialVars>>
  BY DEF watch
<1>3. /\ more \in Seq(Callback)
      /\ \E i \in 1..Len(more) : more[i] = c
      /\ \A i \in 1..Len(ws) : i \in 1..Len(more) /\ more[i] = ws[i]
  <2>1. CASE \E i \in DOMAIN ws : ws[i] = c
    BY <1>1, <2>1 DEF Added
  <2>2. CASE ~\E i \in DOMAIN ws : ws[i] = c
    <3>1. more = Append(ws, c)
      BY <2>2 DEF Added
    <3> HIDE DEF ws, c, more
    <3> QED BY <1>1, <3>1
  <2> QED BY <2>1, <2>2
<1> HIDE DEF more
<1>4. VaultTypeOK'
  BY <1>1, <1>2, <1>3 DEF VaultInv, VaultTypeOK, credentialVars
<1>5. (\A h \in Handle : HandleHolds(h))'
  BY <1>2 DEF VaultInv, HandleHolds, credentialVars
<1>6. watchers'[p] = more /\ \A q \in Path : q # p => watchers'[q] = watchers[q]
  BY <1>1, <1>2 DEF VaultInv, VaultTypeOK
<1>7. ASSUME NEW t \in Subscription PROVE WatcherKnows(t)'
  <2>1. PathOf[t] \in Path /\ Registered(t) => Registered(t)'
    <3>1. PathOf[t] \in Path
      BY WatchAssumption
    <3> HIDE DEF p
    <3> QED BY <1>3, <1>6, <3>1 DEF Registered, ws
  <2>2. CASE t = s
    <3>1. Registered(s)'
      BY <1>3, <1>6 DEF Registered
    <3>2. told'[s] = secrets'[PathOf[s]]
      BY <1>2 DEF VaultInv, VaultTypeOK
    <3> QED BY <2>2, <3>1, <3>2 DEF WatcherKnows
  <2>3. CASE t # s
    <3>1. removed'[t] = removed[t] /\ told'[t] = told[t] /\ (t \in passedOver' <=> t \in passedOver)
      BY <1>2, <2>3 DEF VaultInv, VaultTypeOK
    <3> QED BY <1>2, <2>1, <3>1, WatchAssumption DEF VaultInv, WatcherKnows
  <2> QED BY <2>2, <2>3
<1> QED BY <1>4, <1>5, <1>7 DEF VaultInv

\* unsubscribe takes a registration back, once, and cuts off who shares it.
LEMMA UnsubscribeKeeps ==
    ASSUME VaultInv, NEW s \in Subscription, unsubscribe(s)
    PROVE  VaultInv'
<1> DEFINE p == PathOf[s]
           c == CallbackOf[s]
           ws == watchers[p]
           kept == {i \in DOMAIN ws : ws[i] # c}
           rest == Deleted(ws, c)
<1>1. p \in Path /\ ws \in Seq(Callback) /\ UNCHANGED <<secrets, told, passedOver, credentialVars>>
  BY WatchAssumption DEF VaultInv, VaultTypeOK, unsubscribe
<1>2. (\A h \in Handle : HandleHolds(h))'
  BY <1>1 DEF VaultInv, HandleHolds, credentialVars
<1>3. CASE removed[s]
  <2>1. UNCHANGED <<watchers, removed, cutOff>>
    BY <1>3 DEF unsubscribe
  <2>2. VaultTypeOK'
    BY <1>1, <2>1 DEF VaultInv, VaultTypeOK, credentialVars
  <2>3. (\A t \in Subscription : WatcherKnows(t))'
    BY <1>1, <2>1 DEF VaultInv, WatcherKnows, Registered
  <2> QED BY <1>2, <2>2, <2>3 DEF VaultInv
<1>4. CASE ~removed[s]
  <2>1. /\ removed' = [removed EXCEPT ![s] = TRUE]
        /\ watchers' = [watchers EXCEPT ![p] = rest]
        /\ cutOff' = cutOff \cup rivals(s)
    BY <1>4 DEF unsubscribe
  <2>2. /\ rest \in Seq(Callback)
        /\ \A i \in kept : \E j \in 1..Len(rest) : rest[j] = ws[i]
    <3>1. rest = Selected(ws, kept)
      BY DEF Deleted
    <3>2. kept \subseteq 1..Len(ws)
      BY <1>1
    <3> HIDE DEF kept, ws, rest
    <3> QED BY <1>1, <3>1, <3>2, KeptIsThere
  <2> HIDE DEF rest
  <2>3. VaultTypeOK'
    <3>1. watchers' \in [Path -> Seq(Callback)]
      BY <1>1, <2>1, <2>2 DEF VaultInv, VaultTypeOK
    <3>2. removed' \in [Subscription -> BOOLEAN \cup {Nothing}]
      BY <2>1 DEF VaultInv, VaultTypeOK
    <3>3. cutOff' \subseteq Subscription
      BY <2>1 DEF VaultInv, VaultTypeOK, rivals
    <3> QED BY <1>1, <3>1, <3>2, <3>3 DEF VaultInv, VaultTypeOK, credentialVars
  <2>4. watchers'[p] = rest /\ \A q \in Path : q # p => watchers'[q] = watchers[q]
    BY <1>1, <2>1 DEF VaultInv, VaultTypeOK
  <2>5. ASSUME NEW t \in Subscription PROVE WatcherKnows(t)'
    <3> SUFFICES ASSUME removed'[t] = FALSE, t \notin cutOff' PROVE WatcherKnows(t)'
      BY DEF WatcherKnows
    <3>1. t # s
      BY <2>1 DEF VaultInv, VaultTypeOK
    <3>2. removed[t] = FALSE /\ t \notin cutOff /\ t \notin rivals(s)
      BY <2>1, <3>1 DEF VaultInv, VaultTypeOK
    <3>3. PathOf[t] # p \/ CallbackOf[t] # c
      BY <3>1, <3>2 DEF rivals
    <3>4. Registered(t) /\ (t \notin passedOver => told[t] = secrets[PathOf[t]])
      BY <3>2 DEF VaultInv, WatcherKnows
    <3>5. Registered(t)'
      <4>1. PathOf[t] \in Path
        BY WatchAssumption
      <4>2. CASE PathOf[t] = p
        <5>1. PICK i \in 1..Len(ws) : ws[i] = CallbackOf[t]
          BY <3>4, <4>2 DEF Registered
        <5>2. i \in kept
          BY <1>1, <3>3, <4>2, <5>1
        <5> QED BY <2>2, <2>4, <4>2, <5>1, <5>2 DEF Registered
      <4>3. CASE PathOf[t] # p
        BY <2>4, <3>4, <4>1, <4>3 DEF Registered
      <4> QED BY <4>2, <4>3
    <3> QED BY <1>1, <3>4, <3>5 DEF WatcherKnows
  <2> QED BY <1>2, <2>3, <2>5 DEF VaultInv
<1> QED BY <1>3, <1>4

\* VaultInv is inductive.
LEMMA VaultSteps == VaultInv /\ [CredentialNext \/ SecretNext]_vaultVars => VaultInv'
<1> SUFFICES ASSUME VaultInv, [CredentialNext \/ SecretNext]_vaultVars PROVE VaultInv'
  OBVIOUS
<1>1. ASSUME NEW a \in Account, NEW v \in Value, seed(a, v) PROVE VaultInv'
  BY <1>1, SeedKeeps
<1>2. ASSUME NEW h \in Handle, NEW a \in Account, loadCredentials(h, a) PROVE VaultInv'
  BY <1>2, LoadKeeps
<1>3. ASSUME NEW h \in Handle, dispose(h) PROVE VaultInv'
  BY <1>3, DisposeKeeps
<1>4. ASSUME NEW p \in Path, NEW v \in Value, NEW n \in Calls(watchers[p]), set(p, v, n)
      PROVE  VaultInv'
  BY <1>4, SetKeeps
<1>5. ASSUME NEW s \in Subscription, watch(s) PROVE VaultInv'
  BY <1>5, WatchKeeps
<1>6. ASSUME NEW s \in Subscription, unsubscribe(s) PROVE VaultInv'
  BY <1>6, UnsubscribeKeeps
<1>7. CASE UNCHANGED vaultVars
  BY <1>7 DEF VaultInv, VaultTypeOK, HandleHolds, WatcherKnows, Registered, vaultVars,
              credentialVars, secretVars
<1> QED BY <1>1, <1>2, <1>3, <1>4, <1>5, <1>6, <1>7 DEF CredentialNext, SecretNext

\* What the invariant says of the handles and watchers.
LEMMA VaultInvGives == VaultInv => HandlesKeepTheirValue /\ WatchersCurrent
<1> SUFFICES ASSUME VaultInv PROVE HandlesKeepTheirValue /\ WatchersCurrent
  OBVIOUS
<1>1. ASSUME NEW h \in Handle
      PROVE  /\ handles[h] # Unused =>
                    reveal(h) = IF handles[h].disposed THEN Nothing ELSE seeded[h]
             /\ (handles[h] # Unused /\ ~handles[h].disposed) <=> reveal(h) # Nothing
  <2>1. HandleHolds(h)
    BY DEF VaultInv
  <2> QED BY <2>1 DEF HandleHolds, reveal
<1>2. {h \in Handle : handles[h] # Unused /\ ~handles[h].disposed}
      = {h \in Handle : reveal(h) # Nothing}
  BY <1>1
<1>3. HandlesKeepTheirValue
  BY <1>1, <1>2 DEF HandlesKeepTheirValue, liveHandleCount
<1>4. WatchersCurrent
  BY DEF VaultInv, WatcherKnows, WatchersCurrent
<1> QED BY <1>3, <1>4

\* The records' steps keep it: those of the reviews do not touch the vault.
LEMMA VaultInvariant == Spec => []VaultInv
<1>1. Init => VaultInv
  BY VaultInitially DEF Init
<1>2. VaultInv /\ [Next]_records => VaultInv'
  <2> SUFFICES ASSUME VaultInv, [Next]_records PROVE VaultInv'
    OBVIOUS
  <2>1. [CredentialNext \/ SecretNext]_vaultVars
    BY DEF Next, VaultStep, SecretStep, ReviewStep, records
  <2> QED BY <2>1, VaultSteps
<1> QED BY <1>1, <1>2, PTL DEF Spec

\* Whatever is rotated or disposed in between, a handle reveals what it was loaded
\* from until it is disposed and nothing after (provider-credential-vault.ts).
THEOREM CredentialsStay == Spec => []HandlesKeepTheirValue
<1> QED BY VaultInvGives, VaultInvariant, PTL

\* Whoever watches a secret has heard its value, unless an Unsubscribe that shares
\* its callback was called, for the first time, or a callback before it threw in the
\* last set; any number of watchers, shared callbacks and repeated calls of
\* Unsubscribe (fake-secrets-store.ts).
THEOREM WatchersStayCurrent == Spec => []WatchersCurrent
<1> QED BY VaultInvGives, VaultInvariant, PTL

-----------------------------------------------------------------------------
(* Texts in order.                                                          *)

\* A set of natural numbers has a least one.
LEMMA LeastNatural ==
    ASSUME NEW T \in SUBSET Nat, T # {}
    PROVE  \E x \in T : \A y \in T : x <= y
<1> DEFINE R == {p \in Nat \X Nat : p[1] < p[2]}
<1>1. IsWellFoundedOn(R, Nat)
  BY NatLessThanWellFounded DEF OpToRel
<1>2. PICK x \in T : \A y \in T : ~(<<y, x>> \in R)
  <2> HIDE DEF R
  <2> QED BY <1>1, WFMin
<1>3. ASSUME NEW y \in T PROVE x <= y
  <2>1. x \in Nat /\ y \in Nat /\ ~(<<y, x>> \in R)
    BY <1>2
  <2> QED BY <2>1
<1> QED BY <1>3

LEMMA WithinBounds ==
    ASSUME NEW m \in Nat, NEW n \in Nat, \A i \in 1..m : i \in 1..n
    PROVE  m <= n
<1>1. CASE m = 0
  BY <1>1
<1>2. CASE m > 0
  <2>1. m \in 1..m
    BY <1>2
  <2> QED BY <2>1
<1> QED BY <1>1, <1>2

\* Where the entries of two sequences are that are put together.
LEMMA Joined ==
    ASSUME NEW S, NEW a \in Seq(S), NEW b \in Seq(S)
    PROVE  /\ a \o b \in Seq(S) /\ Len(a \o b) = Len(a) + Len(b)
           /\ \A i \in 1..Len(a) : (a \o b)[i] = a[i]
           /\ \A i \in 1..Len(b) : (a \o b)[Len(a) + i] = b[i]
<1>1. /\ a \o b \in Seq(S) /\ Len(a \o b) = Len(a) + Len(b)
      /\ \A i \in 1..Len(a) + Len(b) : (a \o b)[i] = IF i <= Len(a) THEN a[i] ELSE b[i - Len(a)]
  BY ConcatProperties
<1>2. Len(a) \in Nat /\ Len(b) \in Nat
  OBVIOUS
<1>3. ASSUME NEW i \in 1..Len(a) PROVE (a \o b)[i] = a[i]
  BY <1>1, <1>2
<1>4. ASSUME NEW i \in 1..Len(b) PROVE (a \o b)[Len(a) + i] = b[i]
  <2>1. Len(a) + i \in 1..Len(a) + Len(b) /\ ~(Len(a) + i <= Len(a)) /\ (Len(a) + i) - Len(a) = i
    BY <1>2
  <2> QED BY <1>1, <2>1
<1> QED BY <1>1, <1>3, <1>4

\* Two texts that differ do so at a first position.
LEMMA FirstDifference ==
    ASSUME NEW a \in Seq(Int), NEW b \in Seq(Int), a # b
    PROVE  \E i \in Nat \ {0} :
            /\ \A j \in 1..(i - 1) : j \in DOMAIN a /\ j \in DOMAIN b /\ a[j] = b[j]
            /\ \/ i \in DOMAIN a /\ i \in DOMAIN b /\ a[i] # b[i]
               \/ i \in DOMAIN a /\ i \notin DOMAIN b
               \/ i \notin DOMAIN a /\ i \in DOMAIN b
<1> DEFINE Same(i) == i \in DOMAIN a /\ i \in DOMAIN b /\ a[i] = b[i]
           T == {i \in Nat \ {0} : (i \in DOMAIN a \/ i \in DOMAIN b) /\ ~Same(i)}
<1>1. T # {}
  <2> SUFFICES ASSUME T = {} PROVE a = b
    OBVIOUS
  <2>1. \A i \in Nat \ {0} : i \in DOMAIN a \/ i \in DOMAIN b => Same(i)
    OBVIOUS
  <2>2. DOMAIN a = 1..Len(a) /\ DOMAIN b = 1..Len(b) /\ Len(a) \in Nat /\ Len(b) \in Nat
    OBVIOUS
  <2>3. \A i \in 1..Len(a) : i \in 1..Len(b)
    BY <2>1, <2>2
  <2>4. \A i \in 1..Len(b) : i \in 1..Len(a)
    BY <2>1, <2>2
  <2>5. Len(a) = Len(b)
    <3>1. \A m, n \in Nat : m <= n /\ n <= m => m = n
      OBVIOUS
    <3>2. Len(a) <= Len(b) /\ Len(b) <= Len(a)
      BY <2>2, <2>3, <2>4, WithinBounds
    <3> QED BY <2>2, <3>1, <3>2
  <2>6. \A i \in 1..Len(a) : a[i] = b[i]
    BY <2>1, <2>2
  <2> QED BY <2>5, <2>6, SeqEqual
<1>2. PICK i \in T : \A k \in T : i <= k
  <2>1. T \in SUBSET Nat
    OBVIOUS
  <2> HIDE DEF T
  <2> QED BY <1>1, <2>1, LeastNatural
<1>3. ASSUME NEW j \in 1..(i - 1) PROVE Same(j)
  <2>1. i \in DOMAIN a \/ i \in DOMAIN b
    OBVIOUS
  <2>2. j \in Nat \ {0} /\ j < i /\ (j \in DOMAIN a \/ j \in DOMAIN b)
    BY <2>1
  <2> QED BY <1>2, <2>2
<1>4. i \in Nat \ {0} /\ (i \in DOMAIN a \/ i \in DOMAIN b) /\ ~Same(i)
  BY <1>2
<1> QED BY <1>3, <1>4

\* The first difference decides which comes before.
LEMMA DifferenceDecides ==
    ASSUME NEW a \in Seq(Int), NEW b \in Seq(Int), NEW i \in Nat \ {0},
           \A j \in 1..(i - 1) : j \in DOMAIN a /\ j \in DOMAIN b /\ a[j] = b[j],
           i \in DOMAIN b, i \notin DOMAIN a \/ a[i] < b[i]
    PROVE  before(a, b) /\ ~before(b, a)
<1>1. before(a, b)
  BY DEF before
<1>2. ASSUME before(b, a) PROVE FALSE
  <2>1. PICK k \in DOMAIN a : /\ \A j \in 1..(k - 1) : j \in DOMAIN b /\ b[j] = a[j]
                              /\ k \notin DOMAIN b \/ b[k] < a[k]
    BY <1>2 DEF before
  <2>2. k \in Nat \ {0} /\ a[k] \in Int /\ b[i] \in Int
    OBVIOUS
  <2>3. CASE k < i
    <3>1. k \in 1..(i - 1)
      BY <2>2, <2>3
    <3>2. k \in DOMAIN b /\ a[k] = b[k]
      BY <3>1
    <3> QED BY <2>1, <2>2, <3>2
  <2>4. CASE i < k
    <3>1. i \in 1..(k - 1)
      BY <2>2, <2>4
    <3>2. b[i] = a[i] /\ i \in DOMAIN a
      BY <2>1, <2>2, <3>1
    <3> QED BY <2>2, <3>2
  <2>5. CASE i = k
    BY <2>1, <2>2, <2>5
  <2> QED BY <2>2, <2>3, <2>4, <2>5
<1> QED BY <1>1, <1>2

\* Texts are in a total order.
LEMMA TextsCompare ==
    ASSUME NEW a \in Seq(Int), NEW b \in Seq(Int)
    PROVE  /\ a # b => before(a, b) \/ before(b, a)
           /\ before(a, b) => a # b /\ ~before(b, a)
<1>1. ASSUME a # b PROVE before(a, b) \/ before(b, a)
  <2>1. PICK i \in Nat \ {0} :
            /\ \A j \in 1..(i - 1) : j \in DOMAIN a /\ j \in DOMAIN b /\ a[j] = b[j]
            /\ \/ i \in DOMAIN a /\ i \in DOMAIN b /\ a[i] # b[i]
               \/ i \in DOMAIN a /\ i \notin DOMAIN b
               \/ i \notin DOMAIN a /\ i \in DOMAIN b
    BY <1>1, FirstDifference
  <2>2. CASE i \in DOMAIN b /\ (i \notin DOMAIN a \/ a[i] < b[i])
    BY <2>1, <2>2, DifferenceDecides
  <2>3. CASE i \in DOMAIN a /\ (i \notin DOMAIN b \/ b[i] < a[i])
    BY <2>1, <2>3, DifferenceDecides
  <2>4. i \in DOMAIN a /\ i \in DOMAIN b => a[i] \in Int /\ b[i] \in Int
    OBVIOUS
  <2> QED BY <2>1, <2>2, <2>3, <2>4
<1>2. ASSUME before(a, b) PROVE a # b /\ ~before(b, a)
  <2>1. PICK i \in DOMAIN b : /\ \A j \in 1..(i - 1) : j \in DOMAIN a /\ a[j] = b[j]
                              /\ i \notin DOMAIN a \/ a[i] < b[i]
    BY <1>2 DEF before
  <2>2. i \in Nat \ {0} /\ b[i] \in Int /\ \A j \in 1..(i - 1) : j \in DOMAIN b
    OBVIOUS
  <2>3. a # b
    BY <2>1, <2>2
  <2>4. ~before(b, a)
    BY <2>1, <2>2, DifferenceDecides
  <2> QED BY <2>3, <2>4
<1> QED BY <1>1, <1>2

LEMMA TextsChain ==
    ASSUME NEW a \in Seq(Int), NEW b \in Seq(Int), NEW c \in Seq(Int),
           before(a, b), before(b, c)
    PROVE  before(a, c)
<1>1. PICK i \in DOMAIN b : /\ \A j \in 1..(i - 1) : j \in DOMAIN a /\ a[j] = b[j]
                            /\ i \notin DOMAIN a \/ a[i] < b[i]
  BY DEF before
<1>2. PICK k \in DOMAIN c : /\ \A j \in 1..(k - 1) : j \in DOMAIN b /\ b[j] = c[j]
                            /\ k \notin DOMAIN b \/ b[k] < c[k]
  BY DEF before
<1>3. i \in Nat \ {0} /\ k \in Nat \ {0} /\ b[i] \in Int /\ c[k] \in Int
  OBVIOUS
<1>4. CASE i < k
  <2>1. i \in 1..(k - 1) /\ \A j \in 1..(i - 1) : j \in 1..(k - 1)
    BY <1>3, <1>4
  <2>2. b[i] = c[i] /\ i \in DOMAIN c
    BY <1>2, <1>3, <2>1
  <2>3. \A j \in 1..(i - 1) : j \in DOMAIN a /\ a[j] = c[j]
    BY <1>1, <1>2, <2>1
  <2> QED BY <1>1, <2>2, <2>3 DEF before
<1>5. CASE k < i
  <2>1. k \in 1..(i - 1) /\ \A j \in 1..(k - 1) : j \in 1..(i - 1)
    BY <1>3, <1>5
  <2>2. a[k] = b[k] /\ k \in DOMAIN a /\ k \in DOMAIN b
    <3>1. i \in 1..Len(b) /\ Len(b) \in Nat /\ DOMAIN b = 1..Len(b)
      OBVIOUS
    <3>2. k \in 1..Len(b)
      BY <1>3, <1>5, <3>1
    <3> QED BY <1>1, <2>1, <3>1, <3>2
  <2>3. \A j \in 1..(k - 1) : j \in DOMAIN a /\ a[j] = c[j]
    BY <1>1, <1>2, <2>1
  <2>4. a[k] < c[k]
    BY <1>2, <2>2
  <2> QED BY <2>3, <2>4 DEF before
<1>6. CASE i = k
  <2>1. \A j \in 1..(k - 1) : j \in DOMAIN a /\ a[j] = c[j]
    BY <1>1, <1>2, <1>6
  <2>2. b[k] < c[k]
    BY <1>2, <1>6
  <2>3. k \notin DOMAIN a \/ a[k] < c[k]
    <3>1. k \in DOMAIN a => a[k] \in Int
      OBVIOUS
    <3> QED BY <1>1, <1>3, <1>6, <2>2, <3>1
  <2> QED BY <2>1, <2>3 DEF before
<1> QED BY <1>3, <1>4, <1>5, <1>6

\* Not before: an order too.
LEMMA TextsOrdered ==
    ASSUME NEW a \in Seq(Int), NEW b \in Seq(Int), NEW c \in Seq(Int),
           ~before(b, a), ~before(c, b)
    PROVE  ~before(c, a)
<1> SUFFICES ASSUME before(c, a) PROVE FALSE
  OBVIOUS
<1>1. CASE b = c
  BY <1>1
<1>2. CASE b # c
  <2>1. before(b, c)
    BY <1>2, TextsCompare
  <2> QED BY <2>1, TextsChain
<1> QED BY <1>1, <1>2

LEMMA PrefixMeans ==
    ASSUME NEW S, NEW s \in Seq(S), NEW t \in Seq(S)
    PROVE  IsPrefix(s, t) <=> Len(s) <= Len(t) /\ \A i \in 1..Len(s) : s[i] = t[i]
<1>1. CASE Len(s) <= Len(t)
  <2> DEFINE p == SubSeq(s, 1, Len(s))
             q == SubSeq(t, 1, Len(s))
  <2>1. /\ p \in Seq(S) /\ Len(p) = Len(s) /\ \A i \in 1..Len(s) : p[i] = s[i]
        /\ q \in Seq(S) /\ Len(q) = Len(s) /\ \A i \in 1..Len(s) : q[i] = t[i]
    BY <1>1
  <2>2. IsPrefix(s, t) <=> p = q
    BY <1>1 DEF IsPrefix
  <2> HIDE DEF p, q
  <2>3. p = q <=> \A i \in 1..Len(s) : p[i] = q[i]
    BY <2>1, SeqEqual
  <2> QED BY <1>1, <2>1, <2>2, <2>3
<1>2. CASE ~(Len(s) <= Len(t))
  BY <1>2 DEF IsPrefix
<1> QED BY <1>1, <1>2

-----------------------------------------------------------------------------
(* Times in order.                                                          *)

\* The characters of a time.
LEMMA TextChars ==
    ASSUME NEW t \in DateText, NEW n, n = Len(t.frac)
    PROVE  LET end == IF n = 0 THEN 2 ELSE n + 3 IN
           /\ n \in Nat /\ t.clock \in Nat /\ \A i \in 1..n : t.frac[i] \in 0..9
           /\ text(t) \in Seq(Int)
           /\ Len(text(t)) = IF t.zone = "Z" THEN end ELSE end + 1
           /\ text(t)[1] = 4 + t.clock
           /\ n > 0 => text(t)[2] = 3
           /\ \A i \in 1..n : text(t)[i + 2] = 4 + t.frac[i]
           /\ text(t)[end] = CASE t.zone = "+" -> 1 [] t.zone = "-" -> 2 [] OTHER -> 20
<1> DEFINE end == IF n = 0 THEN 2 ELSE n + 3
           c == <<4 + t.clock>>
           p == point(t)
           z == offset(t)
           digits == [i \in DOMAIN t.frac |-> 4 + t.frac[i]]
<1>1. t.frac \in Seq(0..9) /\ t.clock \in Nat /\ t.zone \in {"Z", "+", "-"}
  BY DEF DateText
<1>2. n \in Nat /\ DOMAIN t.frac = 1..n /\ \A i \in 1..n : t.frac[i] \in 0..9
  BY <1>1
<1>3. c \in Seq(Int) /\ Len(c) = 1 /\ c[1] = 4 + t.clock
  BY <1>1
<1>4. /\ z \in Seq(Int) /\ Len(z) = IF t.zone = "Z" THEN 1 ELSE 2
      /\ z[1] = CASE t.zone = "+" -> 1 [] t.zone = "-" -> 2 [] OTHER -> 20
  BY <1>1 DEF offset
<1>5. digits \in Seq(Int) /\ Len(digits) = n /\ \A i \in 1..n : digits[i] = 4 + t.frac[i]
  <2>1. digits \in [1..n -> Int]
    BY <1>2
  <2> QED BY <1>2, <2>1, SeqDef
<1> HIDE DEF digits
<1>6. /\ p \in Seq(Int) /\ Len(p) = IF n = 0 THEN 0 ELSE n + 1
      /\ n > 0 => p[1] = 3
      /\ \A i \in 1..n : p[i + 1] = 4 + t.frac[i]
  <2>1. CASE n = 0
    <3>1. t.frac = <<>>
      BY <1>1, <2>1, EmptySeq
    <3>2. p = <<>>
      BY <3>1 DEF point
    <3> QED BY <1>2, <2>1, <3>2
  <2>2. CASE n # 0
    <3>1. p = <<3>> \o digits
      BY <1>1, <2>2 DEF point, digits
    <3>2. <<3>> \in Seq(Int) /\ Len(<<3>>) = 1 /\ <<3>>[1] = 3
      OBVIOUS
    <3>3. /\ p \in Seq(Int) /\ Len(p) = n + 1 /\ p[1] = 3
          /\ \A i \in 1..n : p[i + 1] = digits[i]
      BY <1>2, <1>5, <2>2, <3>1, <3>2
    <3> QED BY <1>5, <2>2, <3>3
  <2> QED BY <2>1, <2>2
<1>7. text(t) = c \o p \o z
  BY DEF text
<1> HIDE DEF c, p, z
<1> DEFINE h == c \o p
<1>8. /\ h \in Seq(Int) /\ Len(h) = end - 1 /\ h[1] = 4 + t.clock
      /\ n > 0 => h[2] = 3
      /\ \A i \in 1..n : h[i + 2] = 4 + t.frac[i]
  <2>1. /\ h \in Seq(Int) /\ Len(h) = Len(c) + Len(p)
        /\ \A i \in 1..Len(c) : h[i] = c[i]
        /\ \A i \in 1..Len(p) : h[Len(c) + i] = p[i]
    <3>1. c \in Seq(Int) /\ p \in Seq(Int)
      BY <1>3, <1>6
    <3> QED BY <3>1, Joined
  <2> HIDE DEF h
  <2>2. h \in Seq(Int) /\ Len(h) = 1 + Len(p) /\ h[1] = c[1]
    BY <1>3, <2>1
  <2>3. \A i \in 1..Len(p) : h[1 + i] = p[i]
    BY <1>3, <2>1
  <2>4. n > 0 => h[2] = p[1]
    BY <1>2, <1>6, <2>3
  <2>5. ASSUME NEW i \in 1..n PROVE h[i + 2] = 4 + t.frac[i]
    <3>1. i + 1 \in 1..Len(p) /\ 1 + (i + 1) = i + 2
      BY <1>2, <1>6
    <3> QED BY <1>6, <2>3, <3>1
  <2> QED BY <1>2, <1>3, <1>6, <2>2, <2>4, <2>5
<1>9. text(t) = h \o z
  BY <1>7
<1> HIDE DEF h
<1>10. /\ text(t) \in Seq(Int) /\ Len(text(t)) = Len(h) + Len(z)
       /\ \A i \in 1..Len(h) : text(t)[i] = h[i]
       /\ text(t)[Len(h) + 1] = z[1]
  <2>1. Len(z) >= 1 /\ 1 \in 1..Len(z)
    BY <1>4
  <2>2. /\ text(t) \in Seq(Int) /\ Len(text(t)) = Len(h) + Len(z)
        /\ \A i \in 1..Len(h) : text(t)[i] = h[i]
        /\ \A i \in 1..Len(z) : text(t)[Len(h) + i] = z[i]
    <3>1. h \in Seq(Int) /\ z \in Seq(Int)
      BY <1>4, <1>8
    <3> QED BY <1>9, <3>1, Joined
  <2> QED BY <2>1, <2>2
<1>11. /\ text(t)[1] = h[1]
       /\ n > 0 => text(t)[2] = h[2]
       /\ \A i \in 1..n : text(t)[i + 2] = h[i + 2]
  <2>1. Len(h) = end - 1 /\ \A i \in 1..Len(h) : text(t)[i] = h[i]
    BY <1>8, <1>10
  <2>2. 1 \in 1..(end - 1) /\ (n > 0 => 2 \in 1..(end - 1)) /\ \A i \in 1..n : i + 2 \in 1..(end - 1)
    BY <1>2
  <2> QED BY <2>1, <2>2
<1>12. text(t)[end] = z[1]
  BY <1>2, <1>8, <1>10
<1>13. Len(text(t)) = IF t.zone = "Z" THEN end ELSE end + 1
  <2>1. end \in Nat
    BY <1>2
  <2> HIDE DEF end
  <2> QED BY <1>4, <1>8, <1>10, <2>1
<1> QED BY <1>1, <1>2, <1>4, <1>8, <1>10, <1>11, <1>12, <1>13

\* A time's text tells the time.
LEMMA TextTells ==
    ASSUME NEW t \in DateText, NEW u \in DateText, text(t) = text(u)
    PROVE  t = u
<1> DEFINE n == Len(t.frac)
           m == Len(u.frac)
<1>1. \A v \in DateText : /\ Len(v.frac) \in Nat /\ v.frac \in Seq(0..9) /\ v.clock \in Nat
                          /\ v.zone \in {"Z", "+", "-"}
                          /\ \A i \in 1..Len(v.frac) : v.frac[i] \in 0..9
  BY DEF DateText
<1>2. t.clock = u.clock
  <2>1. text(t)[1] = 4 + t.clock /\ text(u)[1] = 4 + u.clock
    BY TextChars
  <2> QED BY <1>1, <2>1
<1>3. /\ n > 0 => text(t)[2] = 3
      /\ \A i \in 1..n : text(t)[i + 2] = 4 + t.frac[i]
      /\ text(t)[IF n = 0 THEN 2 ELSE n + 3] =
            CASE t.zone = "+" -> 1 [] t.zone = "-" -> 2 [] OTHER -> 20
  BY <1>1, TextChars
<1>4. /\ m > 0 => text(u)[2] = 3
      /\ \A i \in 1..m : text(u)[i + 2] = 4 + u.frac[i]
      /\ text(u)[IF m = 0 THEN 2 ELSE m + 3] =
            CASE u.zone = "+" -> 1 [] u.zone = "-" -> 2 [] OTHER -> 20
  BY <1>1, TextChars
<1>5. n = m
  <2>1. n = 0 <=> m = 0
    BY <1>1, <1>3, <1>4
  <2>2. CASE n > 0 /\ n < m
    <3>1. n + 1 \in 1..m /\ (n + 1) + 2 = n + 3
      BY <1>1, <2>2
    <3>2. u.frac[n + 1] \in 0..9
      BY <1>1, <3>1
    <3>3. text(u)[n + 3] = 4 + u.frac[n + 1]
      BY <1>4, <3>1
    <3>4. text(t)[n + 3] # 4 + u.frac[n + 1]
      <4>1. text(t)[n + 3] \in {1, 2, 20}
        BY <1>3, <2>2
      <4>2. \A x \in 0..9 : 4 + x \notin {1, 2, 20}
        OBVIOUS
      <4> QED BY <3>2, <4>1, <4>2
    <3> QED BY <3>3, <3>4
  <2>3. CASE m > 0 /\ m < n
    <3>1. m + 1 \in 1..n /\ (m + 1) + 2 = m + 3
      BY <1>1, <2>3
    <3>2. t.frac[m + 1] \in 0..9
      BY <1>1, <3>1
    <3>3. text(t)[m + 3] = 4 + t.frac[m + 1]
      BY <1>3, <3>1
    <3>4. text(u)[m + 3] # 4 + t.frac[m + 1]
      <4>1. text(u)[m + 3] \in {1, 2, 20}
        BY <1>4, <2>3
      <4>2. \A x \in 0..9 : 4 + x \notin {1, 2, 20}
        OBVIOUS
      <4> QED BY <3>2, <4>1, <4>2
    <3> QED BY <3>3, <3>4
  <2> QED BY <1>1, <2>1, <2>2, <2>3
<1>6. t.zone = u.zone
  BY <1>1, <1>3, <1>4, <1>5
<1>7. t.frac = u.frac
  <2>1. ASSUME NEW i \in 1..n PROVE t.frac[i] = u.frac[i]
    <3>1. text(t)[i + 2] = 4 + t.frac[i] /\ text(u)[i + 2] = 4 + u.frac[i]
      BY <1>3, <1>4, <1>5
    <3>2. t.frac[i] \in 0..9 /\ u.frac[i] \in 0..9
      BY <1>1, <1>5
    <3>3. 4 + t.frac[i] = 4 + u.frac[i]
      BY <3>1
    <3>4. \A x, y \in 0..9 : 4 + x = 4 + y => x = y
      OBVIOUS
    <3> QED BY <3>2, <3>3, <3>4
  <2> QED BY <1>1, <1>5, <2>1, SeqEqual
<1> QED BY <1>2, <1>6, <1>7 DEF DateText

\* The first three digits make the milliseconds.
Digit(t, i) == IF i \in DOMAIN t.frac THEN t.frac[i] ELSE 0

Ahead(t) == CASE t.zone = "+" -> 1 [] t.zone = "-" -> -1 [] OTHER -> 0

Instant(c, a, d1, d2, d3) == 1000 * (c - a) + 100 * d1 + 10 * d2 + d3

LEMMA HigherFirst ==
    ASSUME NEW a \in Int, NEW c \in Nat, NEW e \in Nat,
           NEW d1 \in 0..9, NEW d2 \in 0..9, NEW d3 \in 0..9,
           NEW e1 \in 0..9, NEW e2 \in 0..9, NEW e3 \in 0..9
    PROVE  /\ Instant(c, a, d1, d2, d3) \in Int
           /\ c < e => Instant(c, a, d1, d2, d3) < Instant(e, a, e1, e2, e3)
           /\ c = e /\ d1 < e1 => Instant(c, a, d1, d2, d3) < Instant(e, a, e1, e2, e3)
           /\ c = e /\ d1 = e1 /\ d2 < e2 => Instant(c, a, d1, d2, d3) < Instant(e, a, e1, e2, e3)
           /\ c = e /\ d1 = e1 /\ d2 = e2 /\ d3 < e3 =>
                Instant(c, a, d1, d2, d3) < Instant(e, a, e1, e2, e3)
BY DEF Instant

LEMMA Milliseconds ==
    ASSUME NEW t \in DateText, NEW u \in DateText, t.zone = u.zone
    PROVE  /\ instant(t) \in Int /\ instant(u) \in Int
           /\ t.clock < u.clock => instant(t) < instant(u)
           /\ t.clock = u.clock =>
                /\ \A i \in 1..3 :
                    (\A j \in 1..(i - 1) : Digit(t, j) = Digit(u, j)) /\ Digit(t, i) < Digit(u, i) =>
                        instant(t) < instant(u)
                /\ (\A j \in 1..3 : Digit(t, j) = Digit(u, j)) => instant(t) = instant(u)
<1>1. \A v \in DateText : v.clock \in Nat /\ \A i \in 1..3 : Digit(v, i) \in 0..9
  BY DEF DateText, Digit
<1>2. Ahead(t) \in Int /\ Ahead(t) = Ahead(u)
  BY DEF Ahead
<1>3. /\ instant(t) = Instant(t.clock, Ahead(t), Digit(t, 1), Digit(t, 2), Digit(t, 3))
      /\ instant(u) = Instant(u.clock, Ahead(u), Digit(u, 1), Digit(u, 2), Digit(u, 3))
  BY Zenon DEF instant, Digit, Ahead, Instant
<1>4. /\ t.clock \in Nat /\ Digit(t, 1) \in 0..9 /\ Digit(t, 2) \in 0..9 /\ Digit(t, 3) \in 0..9
      /\ u.clock \in Nat /\ Digit(u, 1) \in 0..9 /\ Digit(u, 2) \in 0..9 /\ Digit(u, 3) \in 0..9
  BY <1>1
<1>5. /\ instant(t) \in Int /\ instant(u) \in Int
      /\ t.clock < u.clock => instant(t) < instant(u)
      /\ t.clock = u.clock /\ Digit(t, 1) < Digit(u, 1) => instant(t) < instant(u)
      /\ t.clock = u.clock /\ Digit(t, 1) = Digit(u, 1) /\ Digit(t, 2) < Digit(u, 2) =>
            instant(t) < instant(u)
      /\ t.clock = u.clock /\ Digit(t, 1) = Digit(u, 1) /\ Digit(t, 2) = Digit(u, 2)
         /\ Digit(t, 3) < Digit(u, 3) => instant(t) < instant(u)
  <2> DEFINE x == Instant(t.clock, Ahead(t), Digit(t, 1), Digit(t, 2), Digit(t, 3))
             y == Instant(u.clock, Ahead(t), Digit(u, 1), Digit(u, 2), Digit(u, 3))
  <2>1. /\ x \in Int
        /\ t.clock < u.clock => x < y
        /\ t.clock = u.clock /\ Digit(t, 1) < Digit(u, 1) => x < y
        /\ t.clock = u.clock /\ Digit(t, 1) = Digit(u, 1) /\ Digit(t, 2) < Digit(u, 2) => x < y
        /\ t.clock = u.clock /\ Digit(t, 1) = Digit(u, 1) /\ Digit(t, 2) = Digit(u, 2)
           /\ Digit(t, 3) < Digit(u, 3) => x < y
    <3> HIDE DEF x, y
    <3> QED BY <1>2, <1>4, HigherFirst, ZenonT(60) DEF x, y
  <2>2. y \in Int
    BY <1>2, <1>4, HigherFirst
  <2>3. instant(t) = x /\ instant(u) = y
    BY <1>2, <1>3
  <2> HIDE DEF x, y
  <2> QED BY <2>1, <2>2, <2>3
<1>6. ASSUME t.clock = u.clock, NEW i \in 1..3,
             \A j \in 1..(i - 1) : Digit(t, j) = Digit(u, j), Digit(t, i) < Digit(u, i)
      PROVE  instant(t) < instant(u)
  <2>1. CASE i = 1
    BY <1>5, <1>6, <2>1
  <2>2. CASE i = 2
    <3>1. Digit(t, 1) = Digit(u, 1)
      BY <1>6, <2>2
    <3> QED BY <1>5, <1>6, <2>2, <3>1
  <2>3. CASE i = 3
    <3>1. Digit(t, 1) = Digit(u, 1) /\ Digit(t, 2) = Digit(u, 2)
      BY <1>6, <2>3
    <3> QED BY <1>5, <1>6, <2>3, <3>1
  <2> QED BY <2>1, <2>2, <2>3
<1>7. ASSUME t.clock = u.clock, \A j \in 1..3 : Digit(t, j) = Digit(u, j)
      PROVE  instant(t) = instant(u)
  <2>1. Digit(t, 1) = Digit(u, 1) /\ Digit(t, 2) = Digit(u, 2) /\ Digit(t, 3) = Digit(u, 3)
    BY <1>7
  <2> QED BY <1>2, <1>3, <1>7, <2>1
<1> QED BY <1>5, <1>6, <1>7

\* A time that is under another in its clock, or in its first digit that differs.
Under(t, u) ==
    \/ t.clock < u.clock
    \/ /\ t.clock = u.clock
       /\ \E i \in DOMAIN t.frac \cap DOMAIN u.frac :
            t.frac[i] < u.frac[i] /\ \A j \in 1..(i - 1) : t.frac[j] = u.frac[j]

LEMMA TimesCompare ==
    ASSUME NEW t \in DateText, NEW u \in DateText, t.zone = u.zone
    PROVE  \/ t = u \/ Under(t, u) \/ Under(u, t)
           \/ t.clock = u.clock /\ StrictPrefix(t.frac, u.frac)
           \/ t.clock = u.clock /\ StrictPrefix(u.frac, t.frac)
<1>1. /\ t.clock \in Nat /\ u.clock \in Nat
      /\ t.frac \in Seq(Int) /\ u.frac \in Seq(Int)
  <2>1. 0..9 \subseteq Int
    OBVIOUS
  <2>2. \A s \in Seq(0..9) : s \in Seq(Int)
    BY <2>1
  <2> QED BY <2>2 DEF DateText
<1>2. CASE t.clock # u.clock
  BY <1>1, <1>2 DEF Under
<1>3. CASE t.clock = u.clock /\ t.frac = u.frac
  BY <1>3 DEF DateText
<1>4. CASE t.clock = u.clock /\ t.frac # u.frac
  <2> DEFINE a == t.frac
             b == u.frac
  <2>1. PICK i \in Nat \ {0} :
            /\ \A j \in 1..(i - 1) : j \in DOMAIN a /\ j \in DOMAIN b /\ a[j] = b[j]
            /\ \/ i \in DOMAIN a /\ i \in DOMAIN b /\ a[i] # b[i]
               \/ i \in DOMAIN a /\ i \notin DOMAIN b
               \/ i \notin DOMAIN a /\ i \in DOMAIN b
    BY <1>1, <1>4, FirstDifference
  <2>2. CASE i \in DOMAIN a /\ i \in DOMAIN b
    <3>1. a[i] \in Int /\ b[i] \in Int /\ a[i] # b[i]
      BY <1>1, <2>1, <2>2
    <3>2. a[i] < b[i] \/ b[i] < a[i]
      BY <3>1
    <3> QED BY <1>4, <2>1, <2>2, <3>2 DEF Under
  <2>3. CASE i \notin DOMAIN a /\ i \in DOMAIN b
    <3>1. Len(a) < i /\ i <= Len(b) /\ Len(a) \in Nat /\ Len(b) \in Nat
      BY <1>1, <2>3
    <3>2. \A j \in 1..Len(a) : a[j] = b[j]
      BY <2>1, <3>1
    <3>3. Len(a) <= Len(b)
      BY <3>1
    <3>4. IsPrefix(a, b)
      BY <1>1, <3>3, <3>2, PrefixMeans
    <3> QED BY <1>4, <3>4 DEF StrictPrefix
  <2>4. CASE i \in DOMAIN a /\ i \notin DOMAIN b
    <3>1. Len(b) < i /\ i <= Len(a) /\ Len(a) \in Nat /\ Len(b) \in Nat
      BY <1>1, <2>4
    <3>2. \A j \in 1..Len(b) : b[j] = a[j]
      BY <2>1, <3>1
    <3>3. Len(b) <= Len(a)
      BY <3>1
    <3>4. IsPrefix(b, a)
      BY <1>1, <3>3, <3>2, PrefixMeans
    <3> QED BY <1>4, <3>4 DEF StrictPrefix
  <2> QED BY <2>1, <2>2, <2>3, <2>4
<1> QED BY <1>2, <1>3, <1>4

\* Of two texts, the one with the lower character at their first difference comes
\* first.
LEMMA LowerFirst ==
    ASSUME NEW a \in Seq(Int), NEW b \in Seq(Int), NEW i \in 1..Len(a), i \in 1..Len(b),
           \A j \in 1..(i - 1) : a[j] = b[j], a[i] < b[i]
    PROVE  before(a, b) /\ ~before(b, a)
<1>1. i \in Nat \ {0} /\ i \in DOMAIN a /\ i \in DOMAIN b
  OBVIOUS
<1>2. \A j \in 1..(i - 1) : j \in DOMAIN a /\ j \in DOMAIN b /\ a[j] = b[j]
  BY <1>1
<1> QED BY <1>1, <1>2, DifferenceDecides

\* A time that is under another comes first, and is no later.
LEMMA UnderComesFirst ==
    ASSUME NEW t \in DateText, NEW u \in DateText, t.zone = u.zone, Under(t, u)
    PROVE  /\ precedes(t, u) /\ ~precedes(u, t)
           /\ instant(t) \in Int /\ instant(u) \in Int /\ instant(t) <= instant(u)
           /\ Len(t.frac) <= 3 \/ Len(u.frac) <= 3 => instant(t) < instant(u)
<1> DEFINE n == Len(t.frac)
           m == Len(u.frac)
           a == text(t)
           b == text(u)
<1>1. /\ n \in Nat /\ DOMAIN t.frac = 1..n /\ t.clock \in Nat /\ a \in Seq(Int)
      /\ \A i \in 1..n : t.frac[i] \in 0..9 /\ a[i + 2] = 4 + t.frac[i] /\ i + 2 \in 1..Len(a)
      /\ a[1] = 4 + t.clock /\ 1 \in 1..Len(a)
      /\ n > 0 => a[2] = 3
  <2>1. t.frac \in Seq(0..9)
    BY DEF DateText
  <2>2. n \in Nat /\ DOMAIN t.frac = 1..n
    BY <2>1
  <2>3. Len(a) = IF t.zone = "Z" THEN (IF n = 0 THEN 2 ELSE n + 3)
                 ELSE (IF n = 0 THEN 2 ELSE n + 3) + 1
    BY TextChars
  <2> HIDE DEF a
  <2>4. 1 \in 1..Len(a) /\ \A i \in 1..n : i + 2 \in 1..Len(a)
    BY <2>2, <2>3
  <2> QED BY <2>2, <2>4, TextChars DEF a
<1>2. /\ m \in Nat /\ DOMAIN u.frac = 1..m /\ u.clock \in Nat /\ b \in Seq(Int)
      /\ \A i \in 1..m : u.frac[i] \in 0..9 /\ b[i + 2] = 4 + u.frac[i] /\ i + 2 \in 1..Len(b)
      /\ b[1] = 4 + u.clock /\ 1 \in 1..Len(b)
      /\ m > 0 => b[2] = 3
  <2>1. u.frac \in Seq(0..9)
    BY DEF DateText
  <2>2. m \in Nat /\ DOMAIN u.frac = 1..m
    BY <2>1
  <2>3. Len(b) = IF u.zone = "Z" THEN (IF m = 0 THEN 2 ELSE m + 3)
                 ELSE (IF m = 0 THEN 2 ELSE m + 3) + 1
    BY TextChars
  <2> HIDE DEF b
  <2>4. 1 \in 1..Len(b) /\ \A i \in 1..m : i + 2 \in 1..Len(b)
    BY <2>2, <2>3
  <2> QED BY <2>2, <2>4, TextChars DEF b
<1>3. n \in Nat /\ m \in Nat
  BY <1>1, <1>2
<1> HIDE DEF a, b
<1>4. (precedes(t, u) <=> before(a, b)) /\ (precedes(u, t) <=> before(b, a))
  BY DEF precedes, a, b
<1>5. instant(t) \in Int /\ instant(u) \in Int
  BY Milliseconds
<1>6. CASE t.clock < u.clock
  <2>1. instant(t) < instant(u)
    BY <1>6, Milliseconds
  <2>2. a[1] < b[1] /\ \A j \in 1..(1 - 1) : a[j] = b[j]
    BY <1>1, <1>2, <1>6
  <2>3. before(a, b) /\ ~before(b, a)
    BY <1>1, <1>2, <2>2, LowerFirst
  <2> QED BY <1>4, <1>5, <2>1, <2>3
<1>7. CASE ~(t.clock < u.clock)
  <2>1. /\ t.clock = u.clock
        /\ \E i \in DOMAIN t.frac \cap DOMAIN u.frac :
            t.frac[i] < u.frac[i] /\ \A j \in 1..(i - 1) : t.frac[j] = u.frac[j]
    BY <1>7 DEF Under
  <2>2. PICK i \in DOMAIN t.frac \cap DOMAIN u.frac :
            t.frac[i] < u.frac[i] /\ \A j \in 1..(i - 1) : t.frac[j] = u.frac[j]
    BY <2>1
  <2>3. i \in 1..n /\ i \in 1..m
    BY <1>1, <1>2
  <2>4. n = Len(t.frac) /\ m = Len(u.frac)
    OBVIOUS
  <2> HIDE DEF n, m
  <2>5. a[i + 2] < b[i + 2]
    <3>1. t.frac[i] \in 0..9 /\ u.frac[i] \in 0..9 /\ t.frac[i] < u.frac[i]
      BY <1>1, <1>2, <2>2, <2>3
    <3>2. a[i + 2] = 4 + t.frac[i] /\ b[i + 2] = 4 + u.frac[i]
      BY <1>1, <1>2, <2>3
    <3> QED BY <3>1, <3>2
  <2>6. ASSUME NEW j \in 1..((i + 2) - 1) PROVE a[j] = b[j]
    <3>1. CASE j = 1
      BY <1>1, <1>2, <2>1, <3>1
    <3>2. CASE j = 2
      <4>1. n > 0 /\ m > 0
        BY <1>3, <2>3
      <4> QED BY <1>1, <1>2, <3>2, <4>1
    <3>3. CASE j > 2
      <4>1. j - 2 \in 1..(i - 1) /\ j - 2 \in 1..n /\ j - 2 \in 1..m /\ (j - 2) + 2 = j
        BY <1>3, <2>3, <3>3
      <4>2. t.frac[j - 2] = u.frac[j - 2]
        BY <2>2, <4>1
      <4>3. a[(j - 2) + 2] = 4 + t.frac[j - 2] /\ b[(j - 2) + 2] = 4 + u.frac[j - 2]
        BY <1>1, <1>2, <4>1
      <4> QED BY <4>1, <4>2, <4>3
    <3> QED BY <2>3, <3>1, <3>2, <3>3
  <2>7. before(a, b) /\ ~before(b, a)
    <3>1. i + 2 \in 1..Len(a) /\ i + 2 \in 1..Len(b)
      BY <1>1, <1>2, <2>3
    <3> QED BY <1>1, <1>2, <2>5, <2>6, <3>1, LowerFirst
  <2>8. \A j \in 1..(i - 1) : Digit(t, j) = Digit(u, j)
    <3>1. \A j \in 1..(i - 1) : j \in 1..n /\ j \in 1..m
      BY <1>3, <2>3
    <3> QED BY <1>1, <1>2, <2>2, <3>1 DEF Digit
  <2>9. Digit(t, i) < Digit(u, i)
    BY <1>1, <1>2, <2>2, <2>3 DEF Digit
  <2>10. CASE i <= 3
    <3>1. i \in 1..3
      BY <2>3, <2>10
    <3>2. instant(t) < instant(u)
      BY <2>1, <2>8, <2>9, <3>1, Milliseconds
    <3> QED BY <1>4, <1>5, <2>7, <3>2
  <2>11. CASE i > 3
    <3>1. \A j \in 1..3 : Digit(t, j) = Digit(u, j)
      BY <2>3, <2>8, <2>11
    <3>2. instant(t) = instant(u)
      BY <2>1, <3>1, Milliseconds
    <3>3. n > 3 /\ m > 3
      BY <1>3, <2>3, <2>11
    <3>4. ~(n <= 3) /\ ~(m <= 3)
      BY <1>3, <3>3
    <3> QED BY <1>4, <1>5, <2>7, <2>4, <3>2, <3>4
  <2> QED BY <2>3, <2>10, <2>11
<1> QED BY <1>6, <1>7

\* Of two times in UTC of which one has the other's digits and more, that one
\* comes first: its next digit is less than the other's "Z".
LEMMA LongerComesFirst ==
    ASSUME NEW t \in DateText, NEW u \in DateText, t.zone = "Z", u.zone = "Z",
           t.clock = u.clock, StrictPrefix(t.frac, u.frac)
    PROVE  /\ precedes(u, t) /\ ~precedes(t, u)
           /\ Len(t.frac) < Len(u.frac) /\ ~StrictPrefix(u.frac, t.frac)
<1> DEFINE n == Len(t.frac)
           m == Len(u.frac)
           a == text(t)
           b == text(u)
           end == IF n = 0 THEN 2 ELSE n + 3
<1>1. /\ t.frac \in Seq(0..9) /\ u.frac \in Seq(0..9) /\ n \in Nat /\ m \in Nat
      /\ t.clock \in Nat
  BY DEF DateText
<1>2. n <= m /\ \A i \in 1..n : t.frac[i] = u.frac[i]
  BY <1>1, PrefixMeans DEF StrictPrefix
<1>3. n < m
  <2>1. n # m
    BY <1>1, <1>2, SeqEqual DEF StrictPrefix
  <2> QED BY <1>1, <1>2, <2>1
<1>4. ~StrictPrefix(u.frac, t.frac)
  <2>1. ~(m <= n)
    BY <1>1, <1>3
  <2> QED BY <1>1, <2>1, PrefixMeans DEF StrictPrefix
<1>5. /\ a \in Seq(Int) /\ Len(a) = end /\ a[1] = 4 + t.clock
      /\ n > 0 => a[2] = 3
      /\ \A i \in 1..n : a[i + 2] = 4 + t.frac[i]
      /\ a[end] = 20
  BY TextChars
<1>6. /\ b \in Seq(Int) /\ Len(b) = m + 3 /\ b[1] = 4 + t.clock
      /\ b[2] = 3
      /\ \A i \in 1..m : b[i + 2] = 4 + u.frac[i] /\ u.frac[i] \in 0..9
  <2>1. m # 0 /\ m > 0
    BY <1>1, <1>3
  <2> QED BY <1>1, <2>1, TextChars
<1> HIDE DEF a, b
<1>7. b[end] < a[end]
  <2>1. CASE n = 0
    BY <1>5, <1>6, <2>1
  <2>2. CASE n # 0
    <3>1. n + 1 \in 1..m /\ (n + 1) + 2 = n + 3
      BY <1>1, <1>3
    <3>2. u.frac[n + 1] \in 0..9 /\ b[(n + 1) + 2] = 4 + u.frac[n + 1]
      BY <1>6, <3>1
    <3>3. \A x \in 0..9 : 4 + x < 20
      OBVIOUS
    <3> QED BY <1>5, <2>2, <3>1, <3>2, <3>3
  <2> QED BY <2>1, <2>2
<1>8. ASSUME NEW j \in 1..(end - 1) PROVE b[j] = a[j]
  <2>1. CASE j = 1
    BY <1>5, <1>6, <2>1
  <2>2. CASE j = 2
    <3>1. n > 0
      BY <1>1, <2>2
    <3> QED BY <1>5, <1>6, <2>2, <3>1
  <2>3. CASE j > 2
    <3>1. j - 2 \in 1..n /\ j - 2 \in 1..m /\ (j - 2) + 2 = j
      BY <1>1, <1>3, <2>3
    <3>2. t.frac[j - 2] = u.frac[j - 2]
      BY <1>2, <3>1
    <3>3. a[(j - 2) + 2] = 4 + t.frac[j - 2] /\ b[(j - 2) + 2] = 4 + u.frac[j - 2]
      BY <1>5, <1>6, <3>1
    <3> QED BY <3>1, <3>2, <3>3
  <2>4. j \in Nat \ {0}
    BY <1>1
  <2> QED BY <2>1, <2>2, <2>3, <2>4
<1>9. end \in 1..Len(b) /\ end \in 1..Len(a)
  BY <1>1, <1>3, <1>5, <1>6
<1> HIDE DEF end
<1>10. before(b, a) /\ ~before(a, b)
  BY <1>5, <1>6, <1>7, <1>8, <1>9, LowerFirst
<1> QED BY <1>3, <1>4, <1>10 DEF precedes, a, b

\* Times are in the order that TimesInOrder gives them.
LEMMA TextsInOrderOfTime ==
    ASSUME NEW t \in DateText, NEW u \in DateText
    PROVE  TimesInOrder(t, u)
<1> DEFINE n == Len(t.frac)
           m == Len(u.frac)
<1>1. /\ t.frac \in Seq(0..9) /\ u.frac \in Seq(0..9) /\ n \in Nat /\ m \in Nat
      /\ t.clock \in Nat /\ u.clock \in Nat
  BY DEF DateText
<1>2. ASSUME t = u PROVE ~precedes(t, u) /\ ~(instant(t) < instant(u))
  <2>1. text(t) \in Seq(Int) /\ instant(t) \in Int
    BY TextChars, Milliseconds
  <2>2. ~before(text(t), text(t))
    BY <2>1, TextsCompare
  <2> QED BY <1>2, <2>1, <2>2 DEF precedes
<1>3. ASSUME t.zone = u.zone, n = m
      PROVE  /\ instant(t) < instant(u) => precedes(t, u)
             /\ precedes(t, u) => IF n <= 3 THEN instant(t) < instant(u)
                                  ELSE instant(t) <= instant(u)
  <2>1. ~StrictPrefix(t.frac, u.frac) /\ ~StrictPrefix(u.frac, t.frac)
    <3>1. ASSUME NEW v \in Seq(0..9), NEW w \in Seq(0..9), Len(v) = Len(w)
          PROVE  ~StrictPrefix(v, w)
      BY <3>1, PrefixMeans, SeqEqual DEF StrictPrefix
    <3> QED BY <1>1, <1>3, <3>1
  <2>2. CASE t = u
    BY <1>2, <2>2
  <2>3. CASE Under(t, u)
    BY <1>3, <2>3, UnderComesFirst
  <2>4. CASE Under(u, t)
    <3>1. /\ ~precedes(t, u)
          /\ instant(t) \in Int /\ instant(u) \in Int /\ instant(u) <= instant(t)
      BY <1>3, <2>4, UnderComesFirst
    <3> QED BY <3>1
  <2> QED BY <1>3, <2>1, <2>2, <2>3, <2>4, TimesCompare
<1>4. ASSUME t.zone = "Z", u.zone = "Z", n <= 3, m <= 3
      PROVE  precedes(t, u) <=>
                IF t.clock = u.clock /\ (StrictPrefix(t.frac, u.frac) \/ StrictPrefix(u.frac, t.frac))
                THEN n > m
                ELSE instant(t) < instant(u)
  <2>1. ASSUME NEW v \in DateText, NEW w \in DateText, v.zone = "Z", w.zone = "Z", Under(v, w)
        PROVE  ~(v.clock = w.clock /\ (StrictPrefix(v.frac, w.frac) \/ StrictPrefix(w.frac, v.frac)))
    <3> SUFFICES ASSUME v.clock = w.clock PROVE ~StrictPrefix(v.frac, w.frac) /\ ~StrictPrefix(w.frac, v.frac)
      OBVIOUS
    <3>1. v.frac \in Seq(0..9) /\ w.frac \in Seq(0..9) /\ v.clock \in Nat
      BY DEF DateText
    <3>2. PICK i \in DOMAIN v.frac \cap DOMAIN w.frac : v.frac[i] < w.frac[i]
      BY <2>1, <3>1 DEF Under
    <3>3. i \in 1..Len(v.frac) /\ i \in 1..Len(w.frac) /\ v.frac[i] # w.frac[i]
      BY <3>1, <3>2
    <3> QED BY <3>1, <3>3, PrefixMeans DEF StrictPrefix
  <2>2. CASE t = u
    <3>1. ~StrictPrefix(t.frac, u.frac) /\ ~StrictPrefix(u.frac, t.frac)
      BY <2>2 DEF StrictPrefix
    <3> QED BY <1>2, <2>2, <3>1
  <2>3. CASE Under(t, u)
    <3>1. precedes(t, u) /\ instant(t) < instant(u)
      BY <1>4, <2>3, UnderComesFirst
    <3> QED BY <1>4, <2>1, <2>3, <3>1
  <2>4. CASE Under(u, t)
    <3>1. /\ ~precedes(t, u)
          /\ instant(t) \in Int /\ instant(u) \in Int /\ instant(u) <= instant(t)
      BY <1>4, <2>4, UnderComesFirst
    <3> QED BY <1>4, <2>1, <2>4, <3>1
  <2>5. CASE t.clock = u.clock /\ StrictPrefix(t.frac, u.frac)
    <3>1. ~precedes(t, u) /\ n < m
      BY <1>4, <2>5, LongerComesFirst
    <3> QED BY <1>1, <2>5, <3>1
  <2>6. CASE t.clock = u.clock /\ StrictPrefix(u.frac, t.frac)
    <3>1. precedes(t, u) /\ m < n
      BY <1>4, <2>6, LongerComesFirst
    <3> QED BY <1>1, <2>6, <3>1
  <2> QED BY <1>4, <2>2, <2>3, <2>4, <2>5, <2>6, TimesCompare
<1> QED BY <1>3, <1>4 DEF TimesInOrder

-----------------------------------------------------------------------------
(* Listings of sessions.                                                    *)

\* What a selection holds.
LEMMA SelectedEntries ==
    ASSUME NEW S, NEW s \in Seq(S), NEW kept
    PROVE  ToSet(Selected(s, kept)) = {s[i] : i \in kept \cap (1..Len(s))}
<1> DEFINE sel == Selected(s, kept)
<1>1. sel \in Seq(S)
  BY SelectedType
<1>2. PICK p : Picks(s, kept, Len(s), sel, p)
  BY SelectedPicks
<1> HIDE DEF sel
<1>3. ToSet(sel) = {sel[i] : i \in 1..Len(sel)}
  BY <1>1 DEF ToSet
<1>4. /\ \A i \in 1..Len(sel) : p[i] \in 1..Len(s) /\ p[i] \in kept /\ sel[i] = s[p[i]]
      /\ \A k \in 1..Len(s) : k \in kept => \E i \in 1..Len(sel) : p[i] = k
  BY <1>2 DEF Picks
<1>5. ASSUME NEW i \in 1..Len(sel) PROVE sel[i] \in {s[k] : k \in kept \cap (1..Len(s))}
  BY <1>4
<1>6. ASSUME NEW k \in kept \cap (1..Len(s)) PROVE s[k] \in {sel[i] : i \in 1..Len(sel)}
  <2>1. PICK i \in 1..Len(sel) : p[i] = k
    BY <1>4
  <2> QED BY <1>4, <2>1
<1>7. ToSet(sel) = {s[i] : i \in kept \cap (1..Len(s))}
  BY <1>3, <1>5, <1>6
<1> QED BY <1>7 DEF sel

\* The beginnings of a listing: all of it without a limit, or what a limit above
\* zero leaves.
LEMMA PageOf ==
    ASSUME NEW S, NEW all \in Seq(S)
    PROVE  /\ page(all, 0) = all
           /\ \A n \in Nat \ {0} :
                /\ IsPrefix(page(all, n), all)
                /\ Len(page(all, n)) < Len(all) => Len(page(all, n)) = n
<1>1. page(all, 0) = SubSeq(all, 1, Len(all))
  BY DEF page
<1>2. SubSeq(all, 1, Len(all)) = all
  OBVIOUS
<1>3. ASSUME NEW n \in Nat \ {0}
      PROVE  /\ IsPrefix(page(all, n), all)
             /\ Len(page(all, n)) < Len(all) => Len(page(all, n)) = n
  <2> DEFINE size == IF n > Len(all) THEN Len(all) ELSE n
             p == SubSeq(all, 1, size)
  <2>1. page(all, n) = p
    BY DEF page
  <2>2. size \in 0..Len(all) /\ (size < Len(all) => size = n)
    OBVIOUS
  <2> HIDE DEF size
  <2>3. p \in Seq(S) /\ Len(p) = size /\ \A i \in 1..size : p[i] = all[i]
    BY <2>2
  <2> HIDE DEF p
  <2>4. IsPrefix(p, all)
    BY <2>2, <2>3, PrefixMeans
  <2> QED BY <2>1, <2>2, <2>3, <2>4
<1> QED BY <1>1, <1>2, <1>3

Admits(f, s) == /\ s.identityId = f.subjectId
                /\ f.status \in {Unset, s.status}
                /\ within(s.startedAt, f.from, f.to)

\* What a listing without a limit holds.
LEMMA ListedMeans ==
    ASSUME NEW S, NEW sessions \in Seq(S), NEW f, f.limit = 0
    PROVE  /\ listSessionsBySubject(sessions, f) =
                Selected(sessions, {i \in 1..Len(sessions) : Admits(f, sessions[i])})
           /\ ToSet(listSessionsBySubject(sessions, f)) =
                {s \in ToSet(sessions) : Admits(f, s)}
<1> DEFINE kept == {i \in 1..Len(sessions) : Admits(f, sessions[i])}
<1>1. listSessionsBySubject(sessions, f) = page(Selected(sessions, kept), 0)
  <2>1. DOMAIN sessions = 1..Len(sessions)
    OBVIOUS
  <2> QED BY <2>1 DEF listSessionsBySubject, Admits
<1>2. listSessionsBySubject(sessions, f) = Selected(sessions, kept)
  <2>1. Selected(sessions, kept) \in Seq(S)
    BY SelectedType
  <2> QED BY <1>1, <2>1, PageOf
<1>3. ToSet(Selected(sessions, kept)) = {sessions[i] : i \in kept \cap (1..Len(sessions))}
  BY SelectedEntries
<1>4. ToSet(sessions) = {sessions[i] : i \in 1..Len(sessions)}
  BY DEF ToSet
<1>5. {sessions[i] : i \in kept \cap (1..Len(sessions))} = {s \in ToSet(sessions) : Admits(f, s)}
  BY <1>4
<1> QED BY <1>2, <1>3, <1>5

\* Times in a period, split where another lies in it.
LEMMA PeriodSplits ==
    ASSUME NEW t \in DateText, NEW at \in DateText, NEW from \in Period, NEW to \in Period,
           Unset \notin DateText, within(at, from, to)
    PROVE  /\ within(t, from, to) <=> within(t, from, at) \/ within(t, at, to)
           /\ within(t, from, to) /\ t = at <=> within(t, from, at) /\ within(t, at, to)
<1>1. \A v \in DateText : text(v) \in Seq(Int)
  BY TextChars
<1>2. at # Unset
  OBVIOUS
<1>3. ASSUME NEW a \in DateText, NEW b \in DateText, NEW c \in DateText,
             ~precedes(b, a), ~precedes(c, b)
      PROVE  ~precedes(c, a)
  BY <1>1, <1>3, TextsOrdered DEF precedes
<1>4. ASSUME NEW a \in DateText, NEW b \in DateText
      PROVE  /\ ~precedes(a, b) \/ ~precedes(b, a)
             /\ ~precedes(a, b) /\ ~precedes(b, a) <=> a = b
  <2>1. before(text(a), text(b)) => text(a) # text(b) /\ ~before(text(b), text(a))
    BY <1>1, TextsCompare
  <2>2. text(a) # text(b) => before(text(a), text(b)) \/ before(text(b), text(a))
    BY <1>1, TextsCompare
  <2>3. before(text(b), text(a)) => text(b) # text(a)
    BY <1>1, TextsCompare
  <2>4. text(a) = text(b) => a = b
    BY TextTells
  <2> QED BY <2>1, <2>2, <2>3, <2>4 DEF precedes
<1>5. from # Unset => from \in DateText /\ ~precedes(at, from)
  BY DEF within, Period
<1>6. to # Unset => to \in DateText /\ ~precedes(to, at)
  BY DEF within, Period
<1>7. within(t, from, at) <=> (from # Unset => ~precedes(t, from)) /\ ~precedes(at, t)
  BY <1>2 DEF within
<1>8. within(t, at, to) <=> ~precedes(t, at) /\ (to # Unset => ~precedes(to, t))
  BY <1>2 DEF within
<1>9. ~precedes(at, t) => (to # Unset => ~precedes(to, t))
  BY <1>3, <1>6
<1>10. ~precedes(t, at) => (from # Unset => ~precedes(t, from))
  BY <1>3, <1>5
<1>11. within(t, from, to) <=> /\ from # Unset => ~precedes(t, from)
                               /\ to # Unset => ~precedes(to, t)
  BY DEF within
<1>12. /\ ~precedes(t, at) \/ ~precedes(at, t)
       /\ ~precedes(t, at) /\ ~precedes(at, t) <=> t = at
  BY <1>4
<1> QED BY <1>7, <1>8, <1>9, <1>10, <1>11, <1>12

\* Listings are exact.
LEMMA ListingsAreExact ==
    ASSUME NEW sessions \in Seq(Session), NEW filter \in Filter, NEW at \in DateText
    PROVE  ListingExact(sessions, filter, at)
<1> DEFINE unlimited == [filter EXCEPT !.limit = 0]
           until == [unlimited EXCEPT !.to = at]
           since == [unlimited EXCEPT !.from = at]
           whole == listSessionsBySubject(sessions, unlimited)
           answer == listSessionsBySubject(sessions, filter)
           kept(f) == {i \in 1..Len(sessions) : Admits(f, sessions[i])}
<1>1. /\ unlimited.limit = 0 /\ until.limit = 0 /\ since.limit = 0
      /\ until.subjectId = filter.subjectId /\ until.status = filter.status
      /\ until.from = filter.from /\ until.to = at
      /\ since.subjectId = filter.subjectId /\ since.status = filter.status
      /\ since.from = at /\ since.to = filter.to
      /\ unlimited.subjectId = filter.subjectId /\ unlimited.status = filter.status
      /\ unlimited.from = filter.from /\ unlimited.to = filter.to
      /\ filter.from \in Period /\ filter.to \in Period /\ filter.limit \in Int
  BY DEF Filter
<1>2. \A s \in ToSet(sessions) : s.startedAt \in DateText
  <2>1. ToSet(sessions) \subseteq Session
    BY DEF ToSet
  <2> QED BY <2>1 DEF Session
<1> HIDE DEF unlimited, until, since
<1>3. /\ ToSet(whole) = {s \in ToSet(sessions) : Admits(unlimited, s)}
      /\ ToSet(listSessionsBySubject(sessions, until)) =
            {s \in ToSet(sessions) : Admits(until, s)}
      /\ ToSet(listSessionsBySubject(sessions, since)) =
            {s \in ToSet(sessions) : Admits(since, s)}
  BY <1>1, ListedMeans
<1>4. ASSUME within(at, filter.from, filter.to), NEW s \in ToSet(sessions)
      PROVE  /\ Admits(unlimited, s) <=> Admits(until, s) \/ Admits(since, s)
             /\ Admits(unlimited, s) /\ s.startedAt = at <=> Admits(until, s) /\ Admits(since, s)
  <2>1. s.startedAt \in DateText
    BY <1>2
  <2> DEFINE t == s.startedAt
  <2>2. /\ within(t, filter.from, filter.to) <=>
                within(t, filter.from, at) \/ within(t, at, filter.to)
        /\ within(t, filter.from, filter.to) /\ t = at <=>
                within(t, filter.from, at) /\ within(t, at, filter.to)
    BY <1>1, <1>4, <2>1, PeriodSplits, ListingAssumption
  <2> QED BY <1>1, <2>2 DEF Admits
<1>5. ASSUME filter.limit > 0
      PROVE  IsPrefix(answer, whole) /\ (Len(answer) < Len(whole) => Len(answer) = filter.limit)
  <2>1. whole = Selected(sessions, kept(unlimited))
    BY <1>1, ListedMeans
  <2>2. kept(unlimited) = kept(filter)
    BY <1>1 DEF Admits
  <2>3. answer = page(Selected(sessions, kept(filter)), filter.limit)
    <3>1. DOMAIN sessions = 1..Len(sessions)
      OBVIOUS
    <3> QED BY <3>1 DEF listSessionsBySubject, Admits
  <2>4. answer = page(whole, filter.limit)
    BY <2>1, <2>2, <2>3
  <2>5. whole \in Seq(Session)
    <3> HIDE DEF kept
    <3> QED BY <2>1, SelectedType
  <2>6. filter.limit \in Nat \ {0}
    BY <1>1, <1>5
  <2> HIDE DEF answer, whole
  <2> QED BY <2>4, <2>5, <2>6, PageOf
<1>6. within(at, filter.from, filter.to) =>
        /\ ToSet(listSessionsBySubject(sessions, until)) \cup
           ToSet(listSessionsBySubject(sessions, since)) = ToSet(whole)
        /\ ToSet(listSessionsBySubject(sessions, until)) \cap
           ToSet(listSessionsBySubject(sessions, since)) = {s \in ToSet(whole) : s.startedAt = at}
  BY <1>3, <1>4
<1>7. /\ ListVerifications(sessions, filter).sessions = answer
      /\ ListVerifications(sessions, filter).total = Len(answer)
  BY DEF ListVerifications
<1> QED BY <1>5, <1>6, <1>7, Zenon DEF ListingExact, unlimited, until, since

-----------------------------------------------------------------------------
(* The reviews: what the provider holds.                                    *)

Match == [reviewStatus : Status, reviewedBy : Reviewer \cup {Nobody}]
Copy == [id : MatchId, reviewStatus : Status]

ReviewTypeOK ==
    /\ matches \in [MatchId -> {Absent} \cup Match]
    /\ next \in [MatchId -> Status \cup {Absent}]
    /\ stored \in Seq(Copy)
    /\ reply \in [Reviewer -> {"pending", "unknown match", "AlreadyReviewed", "resolved"}]
    /\ feeds \in [MatchId -> Nat]
    /\ reported \in [MatchId -> Status \cup {Absent}]

\* The reviewers told that they resolved m, and whether m waits for another.
Resolvers(m) == {r \in Reviewer : MatchOf[r] = m /\ reply[r] = "resolved"}
Waits(m) == matches[m] # Absent /\ reviewable(matches[m])

\* A report answers for at most one resolution, the one to come included.
ReportsCounted(m) ==
    /\ IsFiniteSet(Resolvers(m))
    /\ Cardinality(Resolvers(m)) + (IF Waits(m) THEN 1 ELSE 0) <= feeds[m]

\* The reviewer named was told so.
ReviewerTold(m) ==
    LET r == matches[m].reviewedBy
    IN  matches[m] # Absent /\ r # Nobody =>
            /\ r \in Reviewer /\ reply[r] = "resolved" /\ MatchOf[r] = m
            /\ matches[m].reviewStatus = Kind[r]

\* The repository holds one copy of each match that was screened, as last reported.
StoredAsReported ==
    /\ \A i, j \in 1..Len(stored) : stored[i].id = stored[j].id => i = j
    /\ \A i \in 1..Len(stored) : stored[i].reviewStatus = reported[stored[i].id]
    /\ \A m \in MatchId : reported[m] # Absent => \E i \in 1..Len(stored) : stored[i].id = m

ReviewInv == /\ ReviewTypeOK
             /\ \A m \in MatchId : ReportsCounted(m) /\ ReviewerTold(m)
             /\ StoredAsReported

\* Before anything was reported.
LEMMA ReviewInitially == ReviewInit => ReviewInv
<1> SUFFICES ASSUME ReviewInit PROVE ReviewInv
  OBVIOUS
<1>1. ReviewTypeOK
  BY DEF ReviewInit, ReviewTypeOK
<1>2. ASSUME NEW m \in MatchId PROVE ReportsCounted(m) /\ ReviewerTold(m)
  <2>1. Resolvers(m) = {} /\ ~Waits(m) /\ feeds[m] = 0 /\ matches[m] = Absent
    BY DEF ReviewInit, Resolvers, Waits
  <2>2. IsFiniteSet(Resolvers(m)) /\ Cardinality(Resolvers(m)) = 0
    BY <2>1, FS_EmptySet
  <2>3. ReportsCounted(m)
    BY <2>1, <2>2 DEF ReportsCounted
  <2> QED BY <2>1, <2>3 DEF ReviewerTold
<1>3. StoredAsReported
  BY DEF ReviewInit, StoredAsReported
<1> QED BY <1>1, <1>2, <1>3 DEF ReviewInv

\* A report renews the match and allows one more resolution of it.
LEMMA FeedKeeps ==
    ASSUME ReviewInv, NEW ms \in SUBSET MatchId, NEW status \in Status,
           queueMatches(ms, status)
    PROVE  ReviewInv'
<1>1. /\ next' = [m \in MatchId |-> IF m \in ms THEN status ELSE Absent]
      /\ matches' = [m \in MatchId |-> IF m \in ms THEN create(status) ELSE matches[m]]
      /\ feeds' = [m \in MatchId |-> IF m \in ms THEN feeds[m] + 1 ELSE feeds[m]]
      /\ stored' = stored /\ reply' = reply /\ reported' = reported
  BY DEF queueMatches
<1>2. create(status) \in Match
  BY DEF create, Match
<1>3. ReviewTypeOK'
  <2>1. matches' \in [MatchId -> {Absent} \cup Match]
    <3>1. matches \in [MatchId -> {Absent} \cup Match]
      BY DEF ReviewInv, ReviewTypeOK
    <3> QED BY <1>1, <1>2, <3>1
  <2>2. next' \in [MatchId -> Status \cup {Absent}]
    BY <1>1
  <2>3. feeds' \in [MatchId -> Nat]
    <3>1. feeds \in [MatchId -> Nat]
      BY DEF ReviewInv, ReviewTypeOK
    <3> QED BY <1>1, <3>1
  <2> QED BY <1>1, <2>1, <2>2, <2>3 DEF ReviewInv, ReviewTypeOK
<1>4. ASSUME NEW m \in MatchId PROVE ReportsCounted(m)' /\ ReviewerTold(m)'
  <2>1. ReportsCounted(m) /\ ReviewerTold(m) /\ feeds[m] \in Nat
    BY DEF ReviewInv, ReviewTypeOK
  <2>2. Resolvers(m)' = Resolvers(m)
    BY <1>1 DEF Resolvers
  <2>3. Cardinality(Resolvers(m)) \in Nat
    BY <2>1, FS_CardinalityType DEF ReportsCounted
  <2>4. CASE m \in ms
    <3>1. matches'[m] = create(status) /\ feeds'[m] = feeds[m] + 1
      BY <1>1, <2>4
    <3>2. ReportsCounted(m)'
      BY <2>1, <2>2, <2>3, <3>1 DEF ReportsCounted
    <3>3. ReviewerTold(m)'
      BY <3>1 DEF ReviewerTold, create
    <3> QED BY <3>2, <3>3
  <2>5. CASE m \notin ms
    <3>1. matches'[m] = matches[m] /\ feeds'[m] = feeds[m]
      BY <1>1, <2>5
    <3>2. Waits(m)' <=> Waits(m)
      BY <3>1 DEF Waits, reviewable
    <3>3. ReportsCounted(m)'
      BY <2>1, <2>2, <3>1, <3>2 DEF ReportsCounted
    <3>4. ReviewerTold(m)'
      BY <1>1, <2>1, <3>1 DEF ReviewerTold
    <3> QED BY <3>3, <3>4
  <2> QED BY <2>4, <2>5
<1>5. StoredAsReported'
  BY <1>1 DEF ReviewInv, StoredAsReported
<1> QED BY <1>3, <1>4, <1>5 DEF ReviewInv

\* Of the reviewers who race for a match only one finds it reviewable.
LEMMA ResolveKeeps ==
    ASSUME ReviewInv, NEW r \in Reviewer, resolveMatch(r)
    PROVE  ReviewInv'
<1> DEFINE m == MatchOf[r]
<1>1. m \in MatchId /\ Kind[r] \in Resolution
  BY ReviewAssumption
<1>2. /\ reply[r] = "pending"
      /\ next' = next /\ stored' = stored /\ feeds' = feeds /\ reported' = reported
  BY DEF resolveMatch
<1>3. StoredAsReported'
  BY <1>2 DEF ReviewInv, StoredAsReported
<1>4. CASE \E what \in {"unknown match", "AlreadyReviewed"} :
             reply' = [reply EXCEPT ![r] = what] /\ matches' = matches
  <2>1. PICK what \in {"unknown match", "AlreadyReviewed"} :
          reply' = [reply EXCEPT ![r] = what] /\ matches' = matches
    BY <1>4
  <2>2. ReviewTypeOK'
    BY <1>2, <2>1 DEF ReviewInv, ReviewTypeOK
  <2>3. \A s \in Reviewer : reply'[s] = "resolved" <=> reply[s] = "resolved"
    BY <1>2, <2>1 DEF ReviewInv, ReviewTypeOK
  <2>4. ASSUME NEW n \in MatchId PROVE ReportsCounted(n)' /\ ReviewerTold(n)'
    <3>1. ReportsCounted(n) /\ ReviewerTold(n)
      BY DEF ReviewInv
    <3>2. Resolvers(n)' = Resolvers(n)
      BY <2>3 DEF Resolvers
    <3>3. Waits(n)' <=> Waits(n)
      BY <2>1 DEF Waits, reviewable
    <3>4. ReportsCounted(n)'
      BY <1>2, <3>1, <3>2, <3>3 DEF ReportsCounted
    <3>5. ReviewerTold(n)'
      BY <2>1, <2>3, <3>1 DEF ReviewerTold
    <3> QED BY <3>4, <3>5
  <2> QED BY <1>3, <2>2, <2>4 DEF ReviewInv
<1>5. CASE /\ Waits(m) /\ reply' = [reply EXCEPT ![r] = "resolved"]
           /\ matches' = [matches EXCEPT ![m] = [reviewStatus |-> Kind[r], reviewedBy |-> r]]
  <2> HIDE DEF m
  <2>1. /\ matches'[m] = [reviewStatus |-> Kind[r], reviewedBy |-> r]
        /\ \A n \in MatchId : n # m => matches'[n] = matches[n]
    BY <1>1, <1>5 DEF ReviewInv, ReviewTypeOK
  <2>2. /\ reply'[r] = "resolved"
        /\ \A s \in Reviewer : s # r => reply'[s] = reply[s]
    BY <1>5 DEF ReviewInv, ReviewTypeOK
  <2>3. ReviewTypeOK'
    <3> DEFINE e == [reviewStatus |-> Kind[r], reviewedBy |-> r]
    <3>1. e \in Match
      BY <1>1 DEF Match, Status
    <3>2. matches' = [matches EXCEPT ![m] = e] /\ matches \in [MatchId -> {Absent} \cup Match]
      BY <1>5 DEF ReviewInv, ReviewTypeOK
    <3> HIDE DEF e
    <3>3. matches' \in [MatchId -> {Absent} \cup Match]
      BY <3>1, <3>2
    <3>4. reply' \in [Reviewer -> {"pending", "unknown match", "AlreadyReviewed", "resolved"}]
      BY <1>5 DEF ReviewInv, ReviewTypeOK
    <3> QED BY <1>2, <3>3, <3>4 DEF ReviewInv, ReviewTypeOK
  <2>4. ASSUME NEW n \in MatchId PROVE ReportsCounted(n)' /\ ReviewerTold(n)'
    <3>1. ReportsCounted(n) /\ ReviewerTold(n) /\ feeds[n] \in Nat
      BY DEF ReviewInv, ReviewTypeOK
    <3>2. Cardinality(Resolvers(n)) \in Nat
      BY <3>1, FS_CardinalityType DEF ReportsCounted
    <3>3. CASE n = m
      <4>1. Resolvers(n)' = Resolvers(n) \cup {r} /\ r \notin Resolvers(n)
        BY <1>2, <2>2, <3>3 DEF Resolvers, m
      <4>2. /\ IsFiniteSet(Resolvers(n) \cup {r})
            /\ Cardinality(Resolvers(n) \cup {r}) = Cardinality(Resolvers(n)) + 1
        BY <3>1, <4>1, FS_AddElement DEF ReportsCounted
      <4>3. Waits(n) /\ ~Waits(n)'
        BY <1>1, <1>5, <2>1, <3>3 DEF Waits, reviewable, Resolution
      <4>4. ReportsCounted(n)'
        BY <1>2, <3>1, <3>2, <4>1, <4>2, <4>3 DEF ReportsCounted
      <4>5. ReviewerTold(n)'
        BY <2>1, <2>2, <3>3 DEF ReviewerTold, m
      <4> QED BY <4>4, <4>5
    <3>4. CASE n # m
      <4>1. Resolvers(n)' = Resolvers(n)
        BY <2>2, <3>4 DEF Resolvers, m
      <4>2. matches'[n] = matches[n] /\ (Waits(n)' <=> Waits(n))
        BY <2>1, <3>4 DEF Waits, reviewable
      <4>3. ReportsCounted(n)'
        BY <1>2, <3>1, <4>1, <4>2 DEF ReportsCounted
      <4>4. ReviewerTold(n)'
        BY <2>2, <3>1, <4>2 DEF ReviewerTold
      <4> QED BY <4>3, <4>4
    <3> QED BY <3>3, <3>4
  <2> QED BY <1>3, <2>3, <2>4 DEF ReviewInv
<1> QED BY <1>4, <1>5 DEF resolveMatch, Waits

-----------------------------------------------------------------------------
(* The reviews: what the repository holds.                                  *)

\* SetToSeq lists a finite set, each element once.
LEMMA SetToSeqLists ==
    ASSUME NEW S, IsFiniteSet(S)
    PROVE  \E k \in Nat : /\ SetToSeq(S) \in [1..k -> S]
                          /\ \A i, j \in 1..k : SetToSeq(S)[i] = SetToSeq(S)[j] => i = j
                          /\ \A x \in S : \E i \in 1..k : SetToSeq(S)[i] = x
<1> DEFINE k == Cardinality(S)
           f == SetToSeq(S)
<1>1. k \in Nat /\ ExistsBijection(1..k, S)
  BY FS_CardinalityType
<1>2. f \in [1..k -> S] /\ IsInjective(f)
  <2>1. \E g \in [1..k -> S] : IsInjective(g)
    BY <1>1 DEF ExistsBijection, Bijection, Injection
  <2> QED BY <2>1 DEF SetToSeq
<1> HIDE DEF f
<1>3. f \in Surjection(1..k, S)
  <2>1. f \in Injection(1..k, S)
    BY <1>2 DEF Injection
  <2>2. IsFiniteSet(1..k) /\ Cardinality(1..k) = k
    BY <1>1, FS_Interval
  <2> QED BY <2>1, <2>2, FS_Injection
<1>4. \A x \in S : \E i \in 1..k : f[i] = x
  BY <1>3 DEF Surjection
<1>5. \A i, j \in 1..k : f[i] = f[j] => i = j
  BY <1>2 DEF IsInjective
<1> HIDE DEF k
<1> QED BY <1>1, <1>2, <1>4, <1>5 DEF f

\* The entries of two sequences put together.
LEMMA ConcatEntries ==
    ASSUME NEW S, NEW s \in Seq(S), NEW t \in Seq(S), NEW u, u = s \o t
    PROVE  /\ u \in Seq(S) /\ Len(u) = Len(s) + Len(t)
           /\ \A i \in 1..Len(s) : u[i] = s[i]
           /\ \A i \in 1..Len(t) : u[Len(s) + i] = t[i]
<1>1. u \in Seq(S) /\ Len(u) = Len(s) + Len(t)
  OBVIOUS
<1>2. \A i \in 1..Len(s) : u[i] = s[i]
  OBVIOUS
<1>3. \A i \in 1..Len(t) : u[Len(s) + i] = t[i]
  OBVIOUS
<1> QED BY <1>1, <1>2, <1>3

\* A screening saves each match found over its copy, or behind the others.
LEMMA ScreenKeeps ==
    ASSUME ReviewInv, screen
    PROVE  ReviewInv'
<1> DEFINE found == {m \in MatchId : next[m] # Absent}
           copy(m) == [id |-> m, reviewStatus |-> next[m]]
           held == {stored[i].id : i \in 1..Len(stored)}
           fresh == SetToSeq(found \ held)
           over == [i \in 1..Len(stored) |-> IF stored[i].id \in found
                                             THEN copy(stored[i].id) ELSE stored[i]]
           n == Len(stored)
<1>1. /\ stored \in Seq(Copy) /\ n \in Nat /\ DOMAIN stored = 1..n
      /\ \A i \in 1..n : stored[i] \in Copy /\ stored[i].id \in MatchId
  <2>1. stored \in Seq(Copy)
    BY DEF ReviewInv, ReviewTypeOK
  <2>2. \A c \in Copy : c.id \in MatchId
    BY DEF Copy
  <2> QED BY <2>1, <2>2
<1>2. PICK k \in Nat : /\ fresh \in [1..k -> found \ held]
                       /\ \A i, j \in 1..k : fresh[i] = fresh[j] => i = j
                       /\ \A x \in found \ held : \E i \in 1..k : fresh[i] = x
  <2>1. IsFiniteSet(found \ held)
    <3>1. found \ held \in SUBSET MatchId
      OBVIOUS
    <3> HIDE DEF found, held
    <3> QED BY <3>1, FS_Subset, ReviewAssumption
  <2> HIDE DEF found, held
  <2> QED BY <2>1, SetToSeqLists
<1> DEFINE behind == [i \in 1..k |-> copy(fresh[i])]
<1>3. /\ stored' = over \o behind
      /\ next' = [m \in MatchId |-> Absent]
      /\ reported' = [m \in MatchId |-> IF m \in found THEN next[m] ELSE reported[m]]
      /\ matches' = matches /\ reply' = reply /\ feeds' = feeds
  <2>1. held = {stored[i].id : i \in DOMAIN stored}
    BY <1>1
  <2>2. DOMAIN fresh = 1..k
    BY <1>2
  <2> HIDE DEF fresh, held
  <2> QED BY <1>1, <2>1, <2>2 DEF screen, fresh
<1>4. \A m \in found : m \in MatchId /\ copy(m) \in Copy
  BY DEF ReviewInv, ReviewTypeOK, Copy
<1>5. over \in Seq(Copy) /\ Len(over) = n
  <2> HIDE DEF copy, found
  <2>1. \A i \in 1..n : (IF stored[i].id \in found THEN copy(stored[i].id) ELSE stored[i]) \in Copy
    BY <1>1, <1>4
  <2>2. over \in [1..n -> Copy]
    BY <2>1
  <2> HIDE DEF over
  <2> QED BY <1>1, <2>2
<1>6. behind \in Seq(Copy) /\ Len(behind) = k
  <2> HIDE DEF copy, found, fresh
  <2>1. \A i \in 1..k : copy(fresh[i]) \in Copy
    BY <1>2, <1>4
  <2>2. behind \in [1..k -> Copy]
    BY <2>1
  <2> HIDE DEF behind
  <2> QED BY <2>2
<1>7. \A i \in 1..n : over[i].id = stored[i].id
  BY <1>1
<1>8. \A i \in 1..n : over[i].reviewStatus = reported'[stored[i].id]
  <2> SUFFICES ASSUME NEW i \in 1..n PROVE over[i].reviewStatus = reported'[stored[i].id]
    OBVIOUS
  <2>1. stored[i].reviewStatus = reported[stored[i].id]
    BY DEF ReviewInv, StoredAsReported
  <2> QED BY <1>1, <1>3, <2>1
<1>9. \A i \in 1..k : /\ behind[i].id = fresh[i] /\ fresh[i] \in found /\ fresh[i] \notin held
                      /\ behind[i].reviewStatus = reported'[fresh[i]]
  <2> SUFFICES ASSUME NEW i \in 1..k
               PROVE  /\ behind[i].id = fresh[i] /\ fresh[i] \in found /\ fresh[i] \notin held
                      /\ behind[i].reviewStatus = reported'[fresh[i]]
    OBVIOUS
  <2>1. fresh[i] \in found /\ fresh[i] \notin held /\ fresh[i] \in MatchId
    BY <1>2
  <2>2. behind[i] = copy(fresh[i])
    OBVIOUS
  <2> HIDE DEF behind, fresh
  <2> QED BY <1>3, <2>1, <2>2
<1> HIDE DEF over, behind, fresh
<1>10. /\ stored' \in Seq(Copy) /\ Len(stored') = n + k
       /\ \A i \in 1..n : stored'[i] = over[i]
       /\ \A i \in 1..k : stored'[n + i] = behind[i]
  <2> DEFINE u == stored'
  <2>1. over \in Seq(Copy) /\ behind \in Seq(Copy) /\ u = over \o behind
    BY <1>3, <1>5, <1>6
  <2> HIDE DEF u
  <2>2. /\ u \in Seq(Copy) /\ Len(u) = Len(over) + Len(behind)
        /\ \A i \in 1..Len(over) : u[i] = over[i]
        /\ \A i \in 1..Len(behind) : u[Len(over) + i] = behind[i]
    BY <2>1, ConcatEntries
  <2> QED BY <1>5, <1>6, <2>2 DEF u
<1>11. ASSUME NEW i \in 1..Len(stored')
       PROVE  \/ i \in 1..n
              \/ i \notin 1..n /\ i - n \in 1..k /\ i = n + (i - n)
  BY <1>1, <1>10
<1>12. StoredAsReported'
  <2>1. ASSUME NEW i \in 1..Len(stored'), NEW j \in 1..Len(stored'),
               stored'[i].id = stored'[j].id
        PROVE  i = j
    <3>1. \A a, b \in 1..n : stored[a].id = stored[b].id => a = b
      BY DEF ReviewInv, StoredAsReported
    <3>2. CASE i \in 1..n /\ j \in 1..n
      BY <1>7, <1>10, <2>1, <3>1, <3>2
    <3>3. CASE i \notin 1..n /\ j \notin 1..n
      <4>1. /\ i - n \in 1..k /\ stored'[i] = behind[i - n]
            /\ j - n \in 1..k /\ stored'[j] = behind[j - n]
        BY <1>10, <1>11, <3>3
      <4>2. i - n = j - n
        BY <1>2, <1>9, <2>1, <4>1
      <4> QED BY <1>1, <1>10, <4>2
    <3>4. ASSUME NEW a \in 1..n, NEW b \in 1..k PROVE over[a].id # behind[b].id
      <4>1. over[a].id \in held
        BY <1>7
      <4> QED BY <1>9, <4>1
    <3>5. CASE i \in 1..n /\ j \notin 1..n
      <4>1. stored'[i] = over[i] /\ j - n \in 1..k /\ stored'[j] = behind[j - n]
        BY <1>10, <1>11, <3>5
      <4> QED BY <2>1, <3>4, <3>5, <4>1
    <3>6. CASE i \notin 1..n /\ j \in 1..n
      <4>1. stored'[j] = over[j] /\ i - n \in 1..k /\ stored'[i] = behind[i - n]
        BY <1>10, <1>11, <3>6
      <4> QED BY <2>1, <3>4, <3>6, <4>1
    <3> QED BY <3>2, <3>3, <3>5, <3>6
  <2>2. ASSUME NEW i \in 1..Len(stored')
        PROVE  stored'[i].reviewStatus = reported'[stored'[i].id]
    <3>1. CASE i \in 1..n
      BY <1>7, <1>8, <1>10, <3>1
    <3>2. CASE i \notin 1..n
      <4>1. i - n \in 1..k /\ stored'[i] = behind[i - n]
        BY <1>10, <1>11, <3>2
      <4> QED BY <1>9, <4>1
    <3> QED BY <3>1, <3>2
  <2>3. ASSUME NEW m \in MatchId, reported'[m] # Absent
        PROVE  \E i \in 1..Len(stored') : stored'[i].id = m
    <3>1. CASE m \in held
      <4>1. PICK i \in 1..n : stored[i].id = m
        BY <3>1
      <4>2. i \in 1..Len(stored') /\ stored'[i].id = m
        BY <1>1, <1>7, <1>10, <4>1
      <4> QED BY <4>2
    <3>2. CASE m \in found \ held
      <4>1. PICK i \in 1..k : fresh[i] = m
        BY <1>2, <3>2
      <4>2. n + i \in 1..Len(stored')
        BY <1>1, <1>10
      <4>3. stored'[n + i].id = m
        BY <1>9, <1>10, <4>1
      <4> QED BY <4>2, <4>3
    <3>3. CASE m \notin found /\ m \notin held
      <4>1. reported[m] # Absent
        BY <1>3, <2>3, <3>3
      <4> QED BY <3>3, <4>1 DEF ReviewInv, StoredAsReported
    <3> QED BY <3>1, <3>2, <3>3
  <2> QED BY <2>1, <2>2, <2>3 DEF StoredAsReported
<1>13. ReviewTypeOK'
  <2>1. reported' \in [MatchId -> Status \cup {Absent}]
    BY <1>3 DEF ReviewInv, ReviewTypeOK
  <2>2. next' \in [MatchId -> Status \cup {Absent}]
    BY <1>3
  <2> QED BY <1>3, <1>10, <2>1, <2>2 DEF ReviewInv, ReviewTypeOK
<1>14. ASSUME NEW m \in MatchId PROVE ReportsCounted(m)' /\ ReviewerTold(m)'
  <2>1. ReportsCounted(m) /\ ReviewerTold(m)
    BY DEF ReviewInv
  <2>2. matches' = matches /\ reply' = reply /\ feeds' = feeds
    BY <1>3
  <2> QED BY <2>1, <2>2 DEF ReportsCounted, ReviewerTold, Resolvers, Waits, reviewable
<1> QED BY <1>12, <1>13, <1>14 DEF ReviewInv

\* ReviewInv is inductive.
LEMMA ReviewSteps == ReviewInv /\ [ReviewNext]_reviewVars => ReviewInv'
<1> SUFFICES ASSUME ReviewInv, [ReviewNext]_reviewVars PROVE ReviewInv'
  OBVIOUS
<1>1. ASSUME NEW ms \in SUBSET MatchId \ {{}}, NEW status \in Status, queueMatches(ms, status)
      PROVE  ReviewInv'
  BY <1>1, FeedKeeps
<1>2. ASSUME screen PROVE ReviewInv'
  BY <1>2, ScreenKeeps
<1>3. ASSUME NEW r \in Reviewer, resolveMatch(r) PROVE ReviewInv'
  BY <1>3, ResolveKeeps
<1>4. CASE UNCHANGED reviewVars
  <2>1. /\ matches' = matches /\ next' = next /\ stored' = stored /\ reply' = reply
        /\ feeds' = feeds /\ reported' = reported
    BY <1>4 DEF reviewVars
  <2>2. ReviewTypeOK' /\ StoredAsReported'
    BY <2>1 DEF ReviewInv, ReviewTypeOK, StoredAsReported
  <2>3. ASSUME NEW m \in MatchId PROVE ReportsCounted(m)' /\ ReviewerTold(m)'
    <3>1. ReportsCounted(m) /\ ReviewerTold(m)
      BY DEF ReviewInv
    <3> QED BY <2>1, <3>1 DEF ReportsCounted, ReviewerTold, Resolvers, Waits, reviewable
  <2> QED BY <2>2, <2>3 DEF ReviewInv
<1> QED BY <1>1, <1>2, <1>3, <1>4 DEF ReviewNext

-----------------------------------------------------------------------------
(* What the invariant says of reviews and listings.                         *)

\* The copies of m among those with a status: one if it was so reported, or none.
LEMMA ListedOnce ==
    ASSUME ReviewInv, NEW m \in MatchId, NEW status \in Status
    PROVE  LET all == listMatchesBySubject(status, 0)
               places == {i \in DOMAIN all : all[i].id = m}
           IN  Cardinality(places) = IF reported[m] = status THEN 1 ELSE 0
<1> DEFINE kept == {i \in DOMAIN stored : stored[i].reviewStatus = status}
           sel == Selected(stored, kept)
           places == {i \in 1..Len(sel) : sel[i].id = m}
<1>1. stored \in Seq(Copy) /\ DOMAIN stored = 1..Len(stored)
  <2>1. stored \in Seq(Copy)
    BY DEF ReviewInv, ReviewTypeOK
  <2> QED BY <2>1
<1>2. sel \in Seq(Copy) /\ DOMAIN sel = 1..Len(sel)
  <2>1. sel \in Seq(Copy)
    <3> HIDE DEF kept
    <3> QED BY <1>1, SelectedType
  <2> HIDE DEF sel
  <2> QED BY <2>1
<1>3. PICK p : Picks(stored, kept, Len(stored), sel, p)
  <2> HIDE DEF kept
  <2> QED BY <1>1, SelectedPicks
<1>4. listMatchesBySubject(status, 0) = sel
  <2>1. page(sel, 0) = sel
    <3> HIDE DEF sel
    <3> QED BY <1>2, PageOf
  <2> QED BY <2>1 DEF listMatchesBySubject
<1> HIDE DEF sel
<1>5. \A i \in 1..Len(sel) : /\ p[i] \in 1..Len(stored) /\ sel[i] = stored[p[i]]
                             /\ stored[p[i]].reviewStatus = status
  BY <1>3 DEF Picks
<1>6. CASE reported[m] = status
  <2>1. status # Absent
    BY ReviewAssumption
  <2>2. PICK k \in 1..Len(stored) : stored[k].id = m
    BY <1>6, <2>1 DEF ReviewInv, StoredAsReported
  <2>3. k \in kept
    BY <1>1, <1>6, <2>2 DEF ReviewInv, StoredAsReported
  <2>4. PICK i \in 1..Len(sel) : p[i] = k
    BY <1>3, <2>3 DEF Picks
  <2>5. places = {i}
    <3>1. i \in places
      BY <1>5, <2>2, <2>4
    <3>2. ASSUME NEW j \in places PROVE j = i
      <4>1. j \in 1..Len(sel) /\ stored[p[j]].id = m /\ p[j] \in 1..Len(stored)
        BY <1>5
      <4>2. p[j] = p[i]
        BY <2>2, <2>4, <4>1 DEF ReviewInv, StoredAsReported
      <4>3. i < j => p[i] < p[j]
        BY <1>3, <4>1 DEF Picks
      <4>4. j < i => p[j] < p[i]
        BY <1>3, <4>1 DEF Picks
      <4>5. p[i] \in Nat /\ p[j] \in Nat
        BY <1>1, <2>4, <4>1
      <4> QED BY <4>1, <4>2, <4>3, <4>4, <4>5
    <3> QED BY <3>1, <3>2
  <2> HIDE DEF places
  <2>6. Cardinality(places) = 1
    BY <2>5, FS_Singleton
  <2> QED BY <1>2, <1>4, <1>6, <2>6 DEF places
<1>7. CASE reported[m] # status
  <2>1. places = {}
    <3> SUFFICES ASSUME NEW i \in places PROVE FALSE
      OBVIOUS
    <3>1. stored[p[i]].id = m /\ p[i] \in 1..Len(stored) /\ stored[p[i]].reviewStatus = status
      BY <1>5
    <3> QED BY <1>7, <3>1 DEF ReviewInv, StoredAsReported
  <2> HIDE DEF places
  <2>2. Cardinality(places) = 0
    BY <2>1, FS_EmptySet
  <2> QED BY <1>2, <1>4, <1>7, <2>2 DEF places
<1> QED BY <1>6, <1>7

\* The reviews stand in every state of the invariant.
LEMMA ReviewInvGives == ReviewInv => ReviewsStand
<1> SUFFICES ASSUME ReviewInv PROVE ReviewersHeard /\ ListedAsReported
  BY DEF ReviewsStand
<1>1. ReviewersHeard
  <2> SUFFICES ASSUME NEW m \in MatchId
               PROVE  /\ Cardinality(Resolvers(m)) <= feeds[m]
                      /\ ReviewerTold(m)
    BY DEF ReviewersHeard, Resolvers, ReviewerTold
  <2>1. ReportsCounted(m) /\ ReviewerTold(m) /\ feeds[m] \in Nat
    BY DEF ReviewInv, ReviewTypeOK
  <2>2. Cardinality(Resolvers(m)) \in Nat
    BY <2>1, FS_CardinalityType DEF ReportsCounted
  <2> QED BY <2>1, <2>2 DEF ReportsCounted
<1>2. ListedAsReported
  <2> SUFFICES ASSUME NEW m \in MatchId, NEW status \in Status
               PROVE  LET all == listMatchesBySubject(status, 0)
                          places == {i \in DOMAIN all : all[i].id = m}
                      IN  /\ Cardinality(places) = IF reported[m] = status THEN 1 ELSE 0
                          /\ \A n \in 1..2 : IsPrefix(listMatchesBySubject(status, n), all)
    BY DEF ListedAsReported
  <2> DEFINE sel == Selected(stored, {i \in DOMAIN stored : stored[i].reviewStatus = status})
  <2>1. sel \in Seq(Copy)
    BY SelectedType DEF ReviewInv, ReviewTypeOK
  <2>2. \A n \in Nat : listMatchesBySubject(status, n) = page(sel, n)
    BY DEF listMatchesBySubject
  <2> HIDE DEF sel
  <2>3. \A n \in 1..2 : IsPrefix(listMatchesBySubject(status, n), listMatchesBySubject(status, 0))
    BY <2>1, <2>2, PageOf
  <2> QED BY <2>3, ListedOnce
<1> QED BY <1>1, <1>2

\* The records' steps keep it: those of the vault do not touch the reviews.
LEMMA ReviewInvariant == Spec => []ReviewInv
<1>1. Init => ReviewInv
  BY ReviewInitially DEF Init
<1>2. ReviewInv /\ [Next]_records => ReviewInv'
  <2> SUFFICES ASSUME ReviewInv, [Next]_records PROVE ReviewInv'
    OBVIOUS
  <2>1. [ReviewNext]_reviewVars
    BY DEF Next, VaultStep, SecretStep, ReviewStep, records
  <2> QED BY <2>1, ReviewSteps
<1> QED BY <1>1, <1>2, PTL DEF Spec

\* Every report of a match is resolved at most once, by a reviewer who was told so,
\* and the repository lists the match once, as its last screening reported it,
\* however reviewers and feed race (sanctions-match.ts, fake-verification-repository.ts).
THEOREM ReviewsAlwaysStand == Spec => []ReviewsStand
<1>1. ReviewInv => ReviewsStand
  BY ReviewInvGives
<1> QED BY <1>1, ReviewInvariant, PTL

-----------------------------------------------------------------------------
(* Functions defined by recursion on the natural numbers.                   *)

\* f[n] is what comes of start when stepOf is applied n times.
Iteration(S, start, stepOf, f) ==
    f \in [Nat -> S] /\ f[0] = start /\ \A n \in Nat : f[n + 1] = stepOf[n][f[n]]

\* There is such a function.
LEMMA Iterates ==
    ASSUME NEW S, NEW start \in S, NEW stepOf \in [Nat -> [S -> S]]
    PROVE  \E f : Iteration(S, start, stepOf, f)
<1> DEFINE Upto(g, m) == /\ g \in [0..m -> S] /\ g[0] = start
                         /\ \A n \in 0..m : n # m => g[n + 1] = stepOf[n][g[n]]
           T == {m \in Nat : \E g : Upto(g, m)}
<1>1. 0 \in T
  <2>1. Upto([n \in 0..0 |-> start], 0)
    OBVIOUS
  <2> QED BY <2>1
<1>2. ASSUME NEW m \in T PROVE m + 1 \in T
  <2>1. m \in Nat /\ m + 1 \in Nat
    OBVIOUS
  <2>2. PICK g : Upto(g, m)
    OBVIOUS
  <2> DEFINE h == [n \in 0..(m + 1) |-> IF n = m + 1 THEN stepOf[m][g[m]] ELSE g[n]]
  <2>3. stepOf[m][g[m]] \in S
    BY <2>1, <2>2
  <2>4. h \in [0..(m + 1) -> S] /\ h[0] = start
    BY <2>1, <2>2, <2>3
  <2>5. ASSUME NEW n \in 0..(m + 1), n # m + 1 PROVE h[n + 1] = stepOf[n][h[n]]
    <3>1. n \in 0..m /\ n + 1 \in 0..(m + 1) /\ h[n] = g[n]
      BY <2>1, <2>5
    <3>2. CASE n = m
      BY <3>1, <3>2
    <3>3. CASE n # m
      <4>1. h[n + 1] = g[n + 1]
        BY <2>1, <3>1, <3>3
      <4>2. g[n + 1] = stepOf[n][g[n]]
        BY <2>2, <3>1, <3>3
      <4> QED BY <3>1, <4>1, <4>2
    <3> QED BY <3>2, <3>3
  <2> HIDE DEF h
  <2>6. Upto(h, m + 1)
    BY <2>4, <2>5
  <2> QED BY <2>1, <2>6
<1> HIDE DEF T
<1>3. \A m \in Nat : m \in T
  <2>1. T \in SUBSET Nat
    BY DEF T
  <2> QED BY <1>1, <1>2, <2>1, SetInduction
<1> DEFINE F(m) == CHOOSE g : Upto(g, m)
<1>4. ASSUME NEW m \in Nat PROVE Upto(F(m), m)
  <2>1. \E g : Upto(g, m)
    BY <1>3 DEF T
  <2> HIDE DEF Upto
  <2> QED BY <2>1
<1> HIDE DEF F
\* Two of them agree as far as both go.
<1>5. ASSUME NEW m \in Nat, NEW k \in 0..m PROVE F(m)[k] = F(k)[k]
  <2> DEFINE A == {n \in Nat : n <= k => F(m)[n] = F(k)[n]}
  <2>1. Upto(F(m), m) /\ Upto(F(k), k)
    BY <1>4
  <2>2. 0 \in A
    BY <2>1
  <2>3. ASSUME NEW n \in A PROVE n + 1 \in A
    <3> SUFFICES ASSUME n + 1 <= k PROVE F(m)[n + 1] = F(k)[n + 1]
      OBVIOUS
    <3>1. n \in 0..m /\ n \in 0..k /\ n # m /\ n # k /\ F(m)[n] = F(k)[n]
      OBVIOUS
    <3> QED BY <2>1, <3>1
  <2> HIDE DEF A
  <2>4. \A n \in Nat : n \in A
    <3>1. A \in SUBSET Nat
      BY DEF A
    <3> QED BY <2>2, <2>3, <3>1, SetInduction
  <2> QED BY <2>4 DEF A
<1> DEFINE f == [n \in Nat |-> F(n)[n]]
<1>6. f \in [Nat -> S] /\ f[0] = start
  <2>1. ASSUME NEW n \in Nat PROVE F(n)[n] \in S
    <3>1. n \in 0..n
      OBVIOUS
    <3> QED BY <1>4, <3>1
  <2> QED BY <1>4, <2>1
<1>7. ASSUME NEW n \in Nat PROVE f[n + 1] = stepOf[n][f[n]]
  <2>1. n + 1 \in Nat /\ n \in 0..(n + 1) /\ n # n + 1
    OBVIOUS
  <2>2. F(n + 1)[n + 1] = stepOf[n][F(n + 1)[n]]
    BY <1>4, <2>1
  <2>3. F(n + 1)[n] = F(n)[n]
    BY <1>5, <2>1
  <2> QED BY <2>1, <2>2, <2>3
<1> HIDE DEF f
<1> QED BY <1>6, <1>7 DEF Iteration

\* Powers of ten.
LEMMA PowerNext ==
    /\ power \in [Nat -> Nat] /\ power[0] = 1
    /\ \A n \in Nat : power[n + 1] = 10 * power[n]
<1> DEFINE IsIt(g) == g = [n \in Nat |-> IF n = 0 THEN 1 ELSE 10 * g[n - 1]]
           stepOf == [n \in Nat |-> [x \in Nat |-> 10 * x]]
<1>1. stepOf \in [Nat -> [Nat -> Nat]] /\ \A n, x \in Nat : stepOf[n][x] = 10 * x
  OBVIOUS
<1> HIDE DEF stepOf
<1>2. PICK f : Iteration(Nat, 1, stepOf, f)
  BY <1>1, Iterates
<1>3. f \in [Nat -> Nat] /\ f[0] = 1 /\ \A n \in Nat : f[n + 1] = stepOf[n][f[n]]
  BY <1>2 DEF Iteration
<1>4. \A n \in Nat : f[n] = IF n = 0 THEN 1 ELSE 10 * f[n - 1]
  <2> SUFFICES ASSUME NEW n \in Nat, n # 0 PROVE f[n] = 10 * f[n - 1]
    BY <1>3
  <2>1. n - 1 \in Nat /\ n = (n - 1) + 1
    OBVIOUS
  <2>2. f[(n - 1) + 1] = 10 * f[n - 1]
    BY <1>1, <1>3, <2>1
  <2> QED BY <2>1, <2>2
<1>5. IsIt(f)
  BY <1>3, <1>4
<1>6. power = CHOOSE g : IsIt(g)
  BY DEF power
<1>7. IsIt(power)
  <2> HIDE DEF IsIt
  <2> QED BY <1>5, <1>6
<1>8. \A n \in Nat : power[n] = IF n = 0 THEN 1 ELSE 10 * power[n - 1]
  BY <1>7
<1>9. power = f
  <2>1. \A n \in Nat : power[n] = f[n]
    <3> DEFINE T == {n \in Nat : power[n] = f[n]}
    <3>1. 0 \in T
      BY <1>3, <1>8
    <3>2. ASSUME NEW n \in T PROVE n + 1 \in T
      <4>1. n + 1 \in Nat /\ n + 1 # 0 /\ (n + 1) - 1 = n
        OBVIOUS
      <4>2. power[n + 1] = 10 * power[(n + 1) - 1]
        BY <1>8, <4>1
      <4>3. f[n + 1] = 10 * f[(n + 1) - 1]
        BY <1>4, <4>1
      <4> QED BY <4>1, <4>2, <4>3
    <3> HIDE DEF T
    <3>3. \A n \in Nat : n \in T
      <4>1. T \in SUBSET Nat
        BY DEF T
      <4> QED BY <3>1, <3>2, <4>1, SetInduction
    <3> QED BY <3>3 DEF T
  <2>2. power = [n \in Nat |-> power[n]]
    BY <1>7
  <2> QED BY <1>3, <2>1, <2>2
<1> QED BY <1>1, <1>3, <1>9

\* They are multiplied by adding what they are powers to.
LEMMA PowerAdds ==
    ASSUME NEW m \in Nat, NEW n \in Nat
    PROVE  power[m + n] = power[m] * power[n] /\ power[m] >= 1
<1> DEFINE T == {k \in Nat : power[m + k] = power[m] * power[k] /\ power[k] >= 1}
<1>1. 0 \in T
  <2>1. m + 0 = m /\ power[m] \in Nat /\ power[0] = 1
    BY PowerNext
  <2> QED BY <2>1
<1>2. ASSUME NEW k \in T PROVE k + 1 \in T
  <2>1. /\ k \in Nat /\ m + k \in Nat /\ m + (k + 1) = (m + k) + 1
        /\ power[m] \in Nat /\ power[k] \in Nat
    BY PowerNext
  <2>2. power[(m + k) + 1] = 10 * power[m + k] /\ power[k + 1] = 10 * power[k]
    BY <2>1, PowerNext
  <2>3. power[m] * (10 * power[k]) = 10 * (power[m] * power[k])
    BY <2>1
  <2> QED BY <2>1, <2>2, <2>3
<1> HIDE DEF T
<1>3. \A k \in Nat : k \in T
  <2>1. T \in SUBSET Nat
    BY DEF T
  <2> QED BY <1>1, <1>2, <2>1, SetInduction
<1>4. power[m] >= 1
  <2> DEFINE W == {k \in Nat : power[k] >= 1}
  <2>1. 0 \in W
    BY PowerNext
  <2>2. ASSUME NEW k \in W PROVE k + 1 \in W
    BY PowerNext
  <2> HIDE DEF W
  <2>3. \A k \in Nat : k \in W
    <3>1. W \in SUBSET Nat
      BY DEF W
    <3> QED BY <2>1, <2>2, <3>1, SetInduction
  <2> QED BY <2>3 DEF W
<1> QED BY <1>3, <1>4 DEF T

-----------------------------------------------------------------------------
(* Decimals.                                                                *)

\* A quotient is found by its remainder.
LEMMA Quotient ==
    ASSUME NEW q \in Int, NEW p \in Nat \ {0}, NEW r \in 0..(p - 1)
    PROVE  (q * p + r) \div p = q
OBVIOUS

\* Reading a fraction digit by digit.
LEMMA LeadingNext ==
    ASSUME NEW frac \in Seq(0..9)
    PROVE  /\ leading(frac) \in [0..Len(frac) -> Nat] /\ leading(frac)[0] = 0
           /\ \A i \in 1..Len(frac) : leading(frac)[i] = 10 * leading(frac)[i - 1] + frac[i]
<1> DEFINE L == Len(frac)
           IsIt(g) == g = [i \in 0..L |-> IF i = 0 THEN 0 ELSE 10 * g[i - 1] + frac[i]]
           stepOf == [n \in Nat |-> [x \in Nat |->
                        10 * x + (IF n + 1 \in 1..L THEN frac[n + 1] ELSE 0)]]
<1>1. /\ L \in Nat /\ frac \in [1..L -> 0..9] /\ stepOf \in [Nat -> [Nat -> Nat]]
      /\ \A n, x \in Nat : n + 1 \in 1..L => stepOf[n][x] = 10 * x + frac[n + 1]
  OBVIOUS
<1> HIDE DEF stepOf, L
<1>2. PICK f : Iteration(Nat, 0, stepOf, f)
  BY <1>1, Iterates
<1>3. f \in [Nat -> Nat] /\ f[0] = 0 /\ \A n \in Nat : f[n + 1] = stepOf[n][f[n]]
  BY <1>2 DEF Iteration
<1> DEFINE g == [i \in 0..L |-> f[i]]
<1>4. L \in Nat /\ 0 \in 0..L /\ \A i \in 0..L : i \in Nat
  BY <1>1
<1>5. g \in [0..L -> Nat] /\ g[0] = 0
  BY <1>4, <1>3
<1>6. \A i \in 0..L : i # 0 => g[i] = 10 * g[i - 1] + frac[i]
  <2> SUFFICES ASSUME NEW i \in 0..L, i # 0 PROVE g[i] = 10 * g[i - 1] + frac[i]
    OBVIOUS
  <2>1. i - 1 \in Nat /\ i - 1 \in 0..L /\ i = (i - 1) + 1 /\ (i - 1) + 1 \in 1..L
    BY <1>1
  <2>2. f[(i - 1) + 1] = 10 * f[i - 1] + frac[(i - 1) + 1]
    BY <1>1, <1>3, <2>1
  <2> QED BY <2>1, <2>2
<1> HIDE DEF g
<1>7. IsIt(g)
  BY <1>5, <1>6
<1>8. leading(frac) = CHOOSE h : IsIt(h)
  BY DEF leading, L
<1>9. IsIt(leading(frac))
  <2> HIDE DEF IsIt
  <2> QED BY <1>7, <1>8
<1> DEFINE h == leading(frac)
<1>10. h = [i \in 0..L |-> IF i = 0 THEN 0 ELSE 10 * h[i - 1] + frac[i]]
  BY <1>9
<1> HIDE DEF h
<1>11. h[0] = 0 /\ \A i \in 1..L : h[i] = 10 * h[i - 1] + frac[i]
  <2>1. \A i \in 1..L : i \in 0..L /\ i # 0
    BY <1>4
  <2> QED BY <1>4, <1>10, <2>1
<1>12. \A i \in Nat : i <= L => h[i] \in Nat
  <2> DEFINE T == {i \in Nat : i <= L => h[i] \in Nat}
  <2>1. 0 \in T
    BY <1>11
  <2>2. ASSUME NEW i \in T PROVE i + 1 \in T
    <3> SUFFICES ASSUME i + 1 <= L PROVE h[i + 1] \in Nat
      OBVIOUS
    <3>1. i \in Nat /\ i + 1 \in 1..L /\ (i + 1) - 1 = i /\ h[i] \in Nat
      BY <1>4
    <3>2. frac[i + 1] \in 0..9
      BY <1>1, <3>1
    <3>3. h[i + 1] = 10 * h[i] + frac[i + 1]
      BY <1>11, <3>1
    <3>4. \A x \in Nat, y \in 0..9 : 10 * x + y \in Nat
      OBVIOUS
    <3>5. h[i] \in Nat
      BY <3>1
    <3> QED BY <3>2, <3>3, <3>4, <3>5
  <2> HIDE DEF T
  <2>3. \A i \in Nat : i \in T
    <3>1. T \in SUBSET Nat
      BY DEF T
    <3> QED BY <2>1, <2>2, <3>1, SetInduction
  <2> QED BY <2>3 DEF T
<1>13. h \in [0..L -> Nat]
  <2>1. \A i \in 0..L : h[i] \in Nat
    BY <1>4, <1>12
  <2>2. h = [i \in 0..L |-> h[i]]
    BY <1>10
  <2> QED BY <2>1, <2>2
<1> QED BY <1>11, <1>13 DEF h, L

\* The last j digits are what is left of the number after those before them.
LEMMA LastDigits ==
    ASSUME NEW frac \in Seq(0..9)
    PROVE  \A j \in 0..Len(frac) : \E r \in 0..(power[j] - 1) :
            numberOf(frac) = leading(frac)[Len(frac) - j] * power[j] + r
<1> DEFINE L == Len(frac)
           h == leading(frac)
           T == {j \in Nat : j <= L => \E r \in 0..(power[j] - 1) : h[L] = h[L - j] * power[j] + r}
<1>1. /\ L \in Nat /\ frac \in [1..L -> 0..9] /\ h \in [0..L -> Nat]
      /\ \A i \in 1..L : h[i] = 10 * h[i - 1] + frac[i]
  BY LeadingNext
<1> HIDE DEF L, h
<1>2. 0 \in T
  <2>1. power[0] = 1 /\ 0 \in 0..(1 - 1) /\ L - 0 = L /\ h[L] \in Nat /\ h[L] = h[L] * 1 + 0
    BY <1>1, PowerNext
  <2> QED BY <2>1
<1>3. ASSUME NEW j \in T PROVE j + 1 \in T
  <2> SUFFICES ASSUME j + 1 <= L
               PROVE  \E r \in 0..(power[j + 1] - 1) : h[L] = h[L - (j + 1)] * power[j + 1] + r
    OBVIOUS
  <2>1. /\ j \in Nat /\ L - j \in 1..L /\ (L - j) - 1 = L - (j + 1)
        /\ L - (j + 1) \in 0..L
    BY <1>1
  <2>2. PICK r \in 0..(power[j] - 1) : h[L] = h[L - j] * power[j] + r
    <3>1. j <= L
      BY <1>1, <2>1
    <3> QED BY <3>1
  <2> DEFINE a == h[L - (j + 1)]
             b == frac[L - j]
             p == power[j]
  <2>3. /\ a \in Nat /\ b \in 0..9 /\ p \in Nat /\ p >= 1 /\ power[j + 1] = 10 * p
        /\ h[L - j] = 10 * a + b
    BY <1>1, <2>1, PowerNext, PowerAdds
  <2>4. h[L] = (10 * a + b) * p + r /\ r \in 0..(p - 1)
    BY <2>2, <2>3
  <2> HIDE DEF a, b, p
  <2>5. (10 * a + b) * p + r = a * (10 * p) + (b * p + r)
    BY <2>3, <2>4
  <2>6. b * p + r \in 0..(10 * p - 1)
    BY <2>3, <2>4
  <2> QED BY <2>3, <2>4, <2>5, <2>6 DEF a
<1> HIDE DEF T
<1>4. \A j \in Nat : j \in T
  <2>1. T \in SUBSET Nat
    BY DEF T
  <2> QED BY <1>2, <1>3, <2>1, SetInduction
<1> QED BY <1>1, <1>4 DEF T, L, h, numberOf

\* What is printed of a text that was read: its whole part and its digits.
LEMMA PrintsWhatWasRead ==
    ASSUME NEW t \in DecimalText
    PROVE  LET L == Len(t.frac)
               size == t.whole * power[L] + numberOf(t.frac)
           IN  /\ size \in Nat /\ size \div power[L] = t.whole
               /\ \A i \in 1..L : digit(size, L - i) = t.frac[i]
<1> DEFINE L == Len(t.frac)
           w == t.whole
           h == leading(t.frac)
           size == w * power[L] + numberOf(t.frac)
<1>1. t.frac \in Seq(0..9) /\ w \in Nat
  BY DEF DecimalText
<1>2. /\ L \in Nat /\ t.frac \in [1..L -> 0..9] /\ h \in [0..L -> Nat] /\ h[0] = 0
      /\ \A i \in 1..L : h[i] = 10 * h[i - 1] + t.frac[i]
  BY <1>1, LeadingNext
<1>3. numberOf(t.frac) = h[L] /\ numberOf(t.frac) \in Nat
  BY <1>2 DEF numberOf
<1>4. \A j \in 0..L : \E r \in 0..(power[j] - 1) : numberOf(t.frac) = h[L - j] * power[j] + r
  BY <1>1, LastDigits
<1> HIDE DEF L, w, h
<1>5. ASSUME NEW j \in 0..L
      PROVE  size \div power[j] = w * power[L - j] + h[L - j]
  <2>1. PICK r \in 0..(power[j] - 1) : numberOf(t.frac) = h[L - j] * power[j] + r
    BY <1>4
  <2> DEFINE p == power[j]
             q == power[L - j]
             a == h[L - j]
  <2>2. j \in Nat /\ L - j \in Nat /\ L - j \in 0..L /\ (L - j) + j = L
    BY <1>2
  <2>3. power[L] = q * p /\ p \in Nat \ {0} /\ q \in Nat /\ a \in Nat
    <3>1. power[(L - j) + j] = power[L - j] * power[j] /\ power[j] >= 1
      BY <2>2, PowerAdds
    <3> QED BY <1>2, <2>2, <3>1, PowerNext
  <2>4. size = w * (q * p) + (a * p + r) /\ r \in 0..(p - 1)
    BY <2>1, <2>3
  <2> HIDE DEF p, q, a, size
  <2>5. w * (q * p) + (a * p + r) = (w * q + a) * p + r /\ w * q + a \in Int
    BY <1>1, <2>3, <2>4
  <2>6. size \div p = w * q + a
    BY <2>3, <2>4, <2>5, Quotient
  <2> QED BY <2>6 DEF p, q, a
<1>6. size \in Nat
  <2>1. power[L] \in Nat
    BY <1>2, PowerNext
  <2> HIDE DEF size
  <2>2. w * power[L] \in Nat
    BY <1>1, <2>1
  <2> QED BY <1>3, <2>2 DEF size
<1>7. size \div power[L] = w
  <2>1. L \in 0..L /\ L - L = 0 /\ h[0] = 0 /\ power[0] = 1
    BY <1>2, PowerNext
  <2>2. size \div power[L] = w * 1 + 0
    BY <1>5, <2>1
  <2> QED BY <1>1, <2>2
<1>8. ASSUME NEW i \in 1..L PROVE digit(size, L - i) = t.frac[i]
  <2>1. L - i \in 0..L /\ L - (L - i) = i /\ i - 1 \in Nat /\ i = (i - 1) + 1 /\ i - 1 \in 0..L
    BY <1>2
  <2>2. size \div power[L - i] = w * power[i] + h[i]
    BY <1>5, <2>1
  <2>3. power[i] = 10 * power[i - 1] /\ power[i - 1] \in Nat
    BY <2>1, PowerNext
  <2>4. h[i] = 10 * h[i - 1] + t.frac[i] /\ h[i - 1] \in Nat /\ t.frac[i] \in 0..9
    BY <1>2, <2>1
  <2> DEFINE k == w * power[i - 1] + h[i - 1]
  <2>5. k \in Nat /\ w * power[i] + h[i] = 10 * k + t.frac[i]
    <3> DEFINE p == power[i - 1]
               a == h[i - 1]
               d == t.frac[i]
    <3>1. p \in Nat /\ a \in Nat /\ d \in 0..9 /\ w \in Nat
      BY <1>1, <2>3, <2>4
    <3>2. w * power[i] + h[i] = w * (10 * p) + (10 * a + d)
      BY <2>3, <2>4
    <3> HIDE DEF p, a, d
    <3>3. w * (10 * p) + (10 * a + d) = 10 * (w * p + a) + d /\ w * p + a \in Nat
      BY <3>1
    <3> QED BY <3>2, <3>3 DEF p, a, d
  <2> HIDE DEF k
  <2>6. (10 * k + t.frac[i]) % 10 = t.frac[i]
    BY <2>4, <2>5
  <2> QED BY <2>2, <2>5, <2>6 DEF digit
<1> QED BY <1>6, <1>7, <1>8 DEF L, w

\* Rounding to fewer digits, up or down at a tie.
LEMMA RoundsToNearest ==
    ASSUME NEW v \in Int, NEW unit \in Nat \ {0},
           NEW r \in (IF 2 * (v % unit) < unit THEN {v \div unit}
                       ELSE IF 2 * (v % unit) > unit THEN {(v \div unit) + 1}
                       ELSE {v \div unit, (v \div unit) + 1})
    PROVE  2 * abs(r * unit - v) <= unit
<1> DEFINE q == v \div unit
           rest == v % unit
<1>1. q \in Int /\ rest \in 0..(unit - 1)
  OBVIOUS
<1>2. v = unit * q + rest
  OBVIOUS
<1> HIDE DEF q, rest
<1>3. q * unit = unit * q /\ unit * q \in Int /\ (q + 1) * unit = unit * q + unit
  BY <1>1
<1>4. r \in IF 2 * rest < unit THEN {q} ELSE IF 2 * rest > unit THEN {q + 1} ELSE {q, q + 1}
  BY DEF q, rest
<1>5. CASE r = q /\ 2 * rest <= unit
  <2>1. r * unit - v = -rest
    BY <1>1, <1>2, <1>3, <1>5
  <2> QED BY <1>1, <1>5, <2>1 DEF abs
<1>6. CASE r = q + 1 /\ 2 * rest >= unit
  <2>1. r * unit - v = unit - rest
    BY <1>1, <1>2, <1>3, <1>6
  <2> QED BY <1>1, <1>6, <2>1 DEF abs
<1> QED BY <1>1, <1>4, <1>5, <1>6

\* Equality at the larger of two scales.
LEMMA EqualAtAnyScale ==
    ASSUME NEW x \in Int, NEW m \in Nat, NEW y \in Int, NEW n \in Nat, m >= n
    PROVE  x * power[0] = y * power[m - n] <=> x * power[n] = y * power[m]
<1>1. m - n \in Nat /\ (m - n) + n = m
  OBVIOUS
<1>2. power[m] = power[m - n] * power[n] /\ power[n] >= 1
  BY <1>1, PowerAdds
<1>3. power[n] \in Nat /\ power[m - n] \in Nat /\ power[0] = 1
  BY <1>1, PowerNext
<1> DEFINE p == power[m - n]
           q == power[n]
<1>4. p \in Nat /\ q \in Nat /\ q >= 1 /\ power[m] = p * q
  BY <1>2, <1>3
<1> HIDE DEF p, q
<1>5. x * q = y * (p * q) <=> x = y * p
  <2>1. y * (p * q) = (y * p) * q /\ y * p \in Int
    BY <1>4
  <2>2. x * q = (y * p) * q <=> x = y * p
    <3> DEFINE z == y * p
    <3>1. z \in Int
      BY <2>1
    <3> HIDE DEF z
    <3>2. x * q = z * q <=> x = z
      BY <1>4, <3>1
    <3> QED BY <3>2 DEF z
  <2> QED BY <2>1, <2>2
<1> QED BY <1>3, <1>4, <1>5 DEF p, q

\* What is read is a number at the scale of its digits.
LEMMA ReadsDecimal ==
    ASSUME NEW t \in DecimalText
    PROVE  fromString(t).value \in Int /\ fromString(t).scale \in Nat
<1>1. t.whole * power[Len(t.frac)] + numberOf(t.frac) \in Nat
  BY PrintsWhatWasRead
<1>2. Len(t.frac) \in Nat
  BY DEF DecimalText
<1> QED BY <1>1, <1>2 DEF fromString, Decimal

LEMMA DecimalsAreExact ==
    ASSUME NEW t \in DecimalText, NEW other \in DecimalText
    PROVE  DecimalExact(t, other)
<1> DEFINE d == fromString(t)
           e == fromString(other)
<1>1. d.value \in Int /\ d.scale \in Nat /\ e.value \in Int /\ e.scale \in Nat
  BY ReadsDecimal
<1>2. toString(d) = [t EXCEPT !.negative = t.negative /\ d.value # 0]
  <2> DEFINE L == Len(t.frac)
             size == t.whole * power[L] + numberOf(t.frac)
             neg == t.negative /\ d.value # 0
  <2>1. /\ size \in Nat /\ size \div power[L] = t.whole
        /\ \A i \in 1..L : digit(size, L - i) = t.frac[i]
    BY PrintsWhatWasRead
  <2>2. d.scale = L /\ d.value = IF t.negative THEN -size ELSE size
    BY DEF fromString, Decimal
  <2>3. t \in [negative : BOOLEAN, whole : Nat, frac : Seq(0..9)]
    BY DEF DecimalText
  <2> HIDE DEF d, size
  <2>4. abs(d.value) = size /\ (d.value < 0 <=> neg)
    BY <2>1, <2>2 DEF abs
  <2>5. [i \in 1..L |-> digit(size, L - i)] = t.frac
    <3>1. t.frac = [i \in 1..L |-> t.frac[i]]
      BY <2>3
    <3> QED BY <2>1, <3>1
  <2>6. toString(d) = [negative |-> d.value < 0, whole |-> t.whole, frac |-> t.frac]
    BY <2>1, <2>2, <2>4, <2>5 DEF toString
  <2>7. [t EXCEPT !.negative = neg] = [negative |-> neg, whole |-> t.whole, frac |-> t.frac]
    <3> HIDE DEF neg
    <3> QED BY <2>3
  <2>8. (d.value < 0) = neg
    BY <2>4
  <2> QED BY <2>6, <2>7, <2>8
<1> HIDE DEF d, e
<1>3. equals(d, e) <=> d.value * power[e.scale] = e.value * power[d.scale]
  <2> DEFINE x == d.value
             m == d.scale
             y == e.value
             n == e.scale
  <2>1. x \in Int /\ m \in Nat /\ y \in Int /\ n \in Nat /\ m - m = 0 /\ n - n = 0
    BY <1>1
  <2>2. equals(d, e) <=> LET k == IF m > n THEN m ELSE n
                         IN  x * power[k - m] = y * power[k - n]
    BY DEF equals
  <2> HIDE DEF x, m, y, n
  <2>3. CASE m > n
    <3>1. x * power[0] = y * power[m - n] <=> x * power[n] = y * power[m]
      BY <2>1, <2>3, EqualAtAnyScale
    <3> QED BY <2>2, <2>1, <2>3, <3>1 DEF x, m, y, n
  <2>4. CASE ~(m > n)
    <3>1. y * power[0] = x * power[n - m] <=> y * power[m] = x * power[n]
      BY <2>1, <2>4, EqualAtAnyScale
    <3>2. equals(d, e) <=> x * power[n - m] = y * power[0]
      BY <2>2, <2>1, <2>4
    <3> QED BY <3>1, <3>2 DEF x, m, y, n
  <2> QED BY <2>3, <2>4
<1>4. ASSUME NEW scale \in 0..d.scale, NEW r \in fromNumber(d, scale)
      PROVE  2 * abs(r.value * power[d.scale - scale] - d.value) <= power[d.scale - scale]
  <2> DEFINE unit == power[d.scale - scale]
  <2>1. d.scale - scale \in Nat
    BY <1>1
  <2>2. unit \in Nat \ {0}
    <3>1. unit >= 1
      BY <2>1, PowerAdds
    <3> QED BY <2>1, <3>1, PowerNext
  <2>3. PICK v \in (IF 2 * (d.value % unit) < unit THEN {d.value \div unit}
                     ELSE IF 2 * (d.value % unit) > unit THEN {(d.value \div unit) + 1}
                     ELSE {d.value \div unit, (d.value \div unit) + 1}) : r = Decimal(v, scale)
    BY DEF fromNumber
  <2> HIDE DEF unit
  <2>4. 2 * abs(v * unit - d.value) <= unit
    BY <1>1, <2>2, <2>3, RoundsToNearest
  <2> QED BY <2>3, <2>4 DEF Decimal, unit
<1> QED BY <1>2, <1>3, <1>4 DEF DecimalExact, d, e

-----------------------------------------------------------------------------
(* Tax ids.                                                                 *)

\* The kinds of each country are different ones.
LEMMA KindsDiffer ==
    ASSUME NEW country \in Country, NEW i \in DOMAIN KINDS[country], NEW j \in DOMAIN KINDS[country],
           KINDS[country][i] = KINDS[country][j]
    PROVE  i = j
<1>1. country \in {"CR", "MX", "CO", "PA", "GT", "HN", "NI", "SV", "DO", "US"}
  BY DEF Country, KINDS
<1>2. CASE country = "CR"
  BY <1>2 DEF KINDS
<1>3. CASE country = "CO"
  BY <1>3 DEF KINDS
<1>4. CASE country \notin {"CR", "CO"}
  BY <1>1, <1>4 DEF KINDS
<1> QED BY <1>2, <1>3, <1>4

\* A pattern that fits alone decides the kind.
LEMMA AloneDecides ==
    ASSUME NEW country \in Country, NEW s, NEW i \in DOMAIN KINDS[country],
           \A j \in DOMAIN KINDS[country] : VALIDATORS(country, KINDS[country][j], s) <=> j = i
    PROVE  parse(country, s, KINDS[country][i]) = KINDS[country][i]
<1> DEFINE kinds == KINDS[country]
           hits == {j \in DOMAIN kinds : VALIDATORS(country, kinds[j], s)}
           first == CHOOSE j \in hits : \A k \in hits : j <= k
<1>1. hits = {i}
  OBVIOUS
<1>2. i \in Int
  BY DEF Country, KINDS
<1>3. first = i
  <2> HIDE DEF hits
  <2> QED BY <1>1, <1>2
<1> QED BY <1>1, <1>3 DEF parse

\* In Colombia a NIT is taken for a cedula.
LEMMA NitIsTakenForCedula ==
    ASSUME NEW s, VALIDATORS("CO", "NIT", s)
    PROVE  /\ s.digits \in 9..10
           /\ parse("CO", s, AnyKind) = "CEDULA_FISICA"
           /\ parse("CO", s, "NIT") = InvalidTaxId
<1> DEFINE kinds == KINDS["CO"]
           hits == {j \in DOMAIN kinds : VALIDATORS("CO", kinds[j], s)}
           first == CHOOSE j \in hits : \A k \in hits : j <= k
<1>1. s.digits \in 9..10 /\ VALIDATORS("CO", "CEDULA_FISICA", s)
  <2>1. numeric(s, {"", "-", "."}) /\ s.digits \in 9..10
    BY DEF VALIDATORS
  <2>2. s.digits \in 6..10
    <3>1. \A k \in 9..10 : k \in 6..10
      OBVIOUS
    <3> QED BY <2>1, <3>1
  <2> QED BY <2>1, <2>2 DEF VALIDATORS
<1>2. kinds = <<"CEDULA_FISICA", "NIT">>
  BY DEF KINDS
<1>3. hits = {1, 2}
  <2> HIDE DEF kinds
  <2>1. DOMAIN kinds = {1, 2} /\ kinds[1] = "CEDULA_FISICA" /\ kinds[2] = "NIT"
    BY <1>2
  <2> QED BY <1>1, <2>1
<1>4. first = 1
  <2> HIDE DEF hits
  <2> QED BY <1>3
<1>5. kinds[first] = "CEDULA_FISICA"
  <2> HIDE DEF first
  <2> QED BY <1>2, <1>4
<1> QED BY <1>1, <1>3, <1>5 DEF parse, AnyKind, InvalidTaxId

LEMMA TaxKindsDecided ==
    ASSUME NEW country \in Country, NEW s \in Shape
    PROVE  TaxKindDecided(country, s)
<1> SUFFICES ASSUME NEW i \in DOMAIN KINDS[country], VALIDATORS(country, KINDS[country][i], s)
             PROVE  \/ /\ \A j \in DOMAIN KINDS[country] :
                            VALIDATORS(country, KINDS[country][j], s) => j = i
                       /\ parse(country, s, KINDS[country][i]) = KINDS[country][i]
                    \/ /\ country = "CO" /\ s.digits \in 9..10
                       /\ parse(country, s, AnyKind) = "CEDULA_FISICA"
                       /\ parse(country, s, "NIT") = InvalidTaxId
  BY DEF TaxKindDecided
<1>1. CASE \A j \in DOMAIN KINDS[country] : VALIDATORS(country, KINDS[country][j], s) => j = i
  BY <1>1, AloneDecides
<1>2. ASSUME NEW j \in DOMAIN KINDS[country], VALIDATORS(country, KINDS[country][j], s), j # i
      PROVE  country = "CO" /\ VALIDATORS("CO", "NIT", s)
  <2>1. country \in {"CR", "MX", "CO", "PA", "GT", "HN", "NI", "SV", "DO", "US"}
    BY DEF Country, KINDS
  <2>2. CASE country = "CR"
    <3>1. KINDS[country] = <<"CEDULA_FISICA", "CEDULA_JURIDICA", "DIMEX">>
      BY <2>2 DEF KINDS
    <3>2. \A k \in DOMAIN KINDS[country] :
            VALIDATORS(country, KINDS[country][k], s) <=>
                /\ numeric(s, dashed)
                /\ \/ k = 1 /\ s.digits = 9 /\ s.first # 0
                   \/ k = 2 /\ s.digits = 10 /\ s.first = 3
                   \/ k = 3 /\ s.digits \in 11..12
      BY <2>2, <3>1 DEF VALIDATORS
    <3> QED BY <1>2, <3>2
  <2>3. CASE country = "CO"
    <3>1. KINDS[country] = <<"CEDULA_FISICA", "NIT">>
      BY <2>3 DEF KINDS
    <3>2. i = 2 \/ j = 2
      BY <1>2, <3>1
    <3> QED BY <1>2, <2>3, <3>1, <3>2
  <2>4. CASE country \notin {"CR", "CO"}
    <3>1. i = j
      BY <2>1, <2>4 DEF KINDS
    <3> QED BY <1>2, <3>1
  <2> QED BY <2>2, <2>3, <2>4
<1> QED BY <1>1, <1>2, NitIsTakenForCedula

-----------------------------------------------------------------------------
(* Payloads: their levels, and induction over what is in them.              *)

\* What values a level holds whose arrays and objects hold values of S.
Nested(S) == Scalar \cup ({"array"} \X Seq(S)) \cup ({"object"} \X Entries(S))

LevelRule(n, g) == IF n = 0 THEN Flat ELSE Nested(g[n - 1])
Levels(g, m) == \A n \in 0..m : g[n] = LevelRule(n, g)

\* Levels up to m can be built, for every m.
LEMMA LevelsExist == \A m \in Nat : \E g : Levels(g, m)
<1> DEFINE T == {m \in Nat : \E g : Levels(g, m)}
<1>1. 0 \in T
  <2>1. Levels([n \in {0} |-> Flat], 0)
    BY DEF Levels, LevelRule
  <2> QED BY <2>1
<1>2. ASSUME NEW m \in T PROVE m + 1 \in T
  <2>1. PICK g : Levels(g, m)
    OBVIOUS
  <2> DEFINE h == [n \in 0..(m + 1) |-> IF n = m + 1 THEN Nested(g[m]) ELSE g[n]]
  <2>2. ASSUME NEW n \in 0..(m + 1) PROVE h[n] = LevelRule(n, h)
    <3>1. CASE n = m + 1
      <4>1. n # 0 /\ n - 1 = m /\ h[m] = g[m] /\ h[n] = Nested(g[m])
        BY <3>1
      <4> HIDE DEF h
      <4> QED BY <4>1 DEF LevelRule
    <3>2. CASE n # m + 1
      <4>1. n \in 0..m /\ h[n] = g[n] /\ (n # 0 => n - 1 \in 0..m /\ h[n - 1] = g[n - 1])
        BY <3>2
      <4>2. g[n] = LevelRule(n, g)
        BY <2>1, <4>1 DEF Levels
      <4> HIDE DEF h
      <4> QED BY <4>1, <4>2 DEF LevelRule
    <3> QED BY <3>1, <3>2
  <2>3. Levels(h, m + 1)
    BY <2>2 DEF Levels
  <2> QED BY <2>3
<1> HIDE DEF T
<1>3. \A m \in Nat : m \in T
  <2>1. T \in SUBSET Nat
    BY DEF T
  <2> QED BY <1>1, <1>2, <2>1, SetInduction
<1> QED BY <1>3 DEF T

\* Two ways of building them agree.
LEMMA LevelsAgree ==
    ASSUME NEW g, NEW h, NEW m \in Nat, Levels(g, m), Levels(h, m)
    PROVE  g[m] = h[m]
<1> DEFINE T == {n \in Nat : n <= m => g[n] = h[n]}
<1>1. 0 \in T
  BY DEF Levels, LevelRule
<1>2. ASSUME NEW n \in T PROVE n + 1 \in T
  <2> SUFFICES ASSUME n + 1 <= m PROVE g[n + 1] = h[n + 1]
    OBVIOUS
  <2>1. n \in Nat /\ g[n] = h[n] /\ n + 1 \in 0..m /\ n + 1 # 0 /\ (n + 1) - 1 = n
    OBVIOUS
  <2>2. g[n + 1] = LevelRule(n + 1, g) /\ h[n + 1] = LevelRule(n + 1, h)
    BY <2>1 DEF Levels
  <2> QED BY <2>1, <2>2 DEF LevelRule
<1> HIDE DEF T
<1>3. \A n \in Nat : n \in T
  <2>1. T \in SUBSET Nat
    BY DEF T
  <2> QED BY <1>1, <1>2, <2>1, SetInduction
<1> QED BY <1>3 DEF T

\* The first level is flat, and each of the others what nests the one below.
LEMMA LevelNext == level[0] = Flat /\ \A n \in Nat : level[n + 1] = Nested(level[n])
<1> DEFINE IsIt(g) == g = [n \in Nat |-> LevelRule(n, g)]
<1>1. \E g : IsIt(g)
  <2> DEFINE F(m) == CHOOSE g : Levels(g, m)
             g == [m \in Nat |-> F(m)[m]]
  <2>1. ASSUME NEW m \in Nat PROVE Levels(F(m), m)
    BY LevelsExist
  <2>2. ASSUME NEW m \in Nat PROVE g[m] = LevelRule(m, g)
    <3> HIDE DEF F
    <3>1. F(m)[m] = LevelRule(m, F(m))
      BY <2>1 DEF Levels
    <3>2. CASE m = 0
      BY <3>1, <3>2 DEF LevelRule
    <3>3. CASE m # 0
      <4>1. m - 1 \in Nat
        BY <3>3
      <4>2. Levels(F(m), m - 1) /\ Levels(F(m - 1), m - 1)
        BY <2>1, <4>1 DEF Levels
      <4>3. F(m)[m - 1] = F(m - 1)[m - 1]
        BY <4>1, <4>2, LevelsAgree
      <4> QED BY <3>1, <3>3, <4>1, <4>3 DEF LevelRule
    <3> QED BY <3>2, <3>3
  <2>3. g = [m \in Nat |-> g[m]]
    <3> HIDE DEF F
    <3> QED OBVIOUS
  <2> HIDE DEF g
  <2>4. IsIt(g)
    BY <2>2, <2>3
  <2> HIDE DEF IsIt
  <2> QED BY <2>4
<1>2. IsIt(level)
  <2>1. level = CHOOSE g : IsIt(g)
    BY DEF level, LevelRule, Nested
  <2> HIDE DEF IsIt
  <2> QED BY <1>1, <2>1
<1>3. \A n \in Nat : level[n] = LevelRule(n, level)
  BY <1>2
<1>4. level[0] = Flat
  BY <1>3 DEF LevelRule
<1>5. ASSUME NEW n \in Nat PROVE level[n + 1] = Nested(level[n])
  <2>1. n + 1 \in Nat /\ n + 1 # 0 /\ (n + 1) - 1 = n
    OBVIOUS
  <2> QED BY <1>3, <2>1 DEF LevelRule
<1> QED BY <1>4, <1>5

\* What nests more holds more.
LEMMA NestedGrows ==
    ASSUME NEW S, NEW T, S \subseteq T
    PROVE  Nested(S) \subseteq Nested(T)
<1>1. Seq(S) \subseteq Seq(T)
  OBVIOUS
<1>2. Seq(Key \X S) \subseteq Seq(Key \X T)
  <2>1. Key \X S \subseteq Key \X T
    OBVIOUS
  <2> QED BY <2>1
<1> QED BY <1>1, <1>2 DEF Nested, Entries

LEMMA FlatNests == \A S : Flat \subseteq Nested(S)
<1>1. \A S : <<>> \in Entries(S)
  BY DEF Entries
<1>2. \A S : Obj(<<>>) \in {"object"} \X Entries(S)
  BY <1>1 DEF Obj
<1> QED BY <1>2 DEF Nested, Flat

\* So the levels rise, and Payload holds them all.
LEMMA LevelsRise ==
    /\ \A n \in Nat : Flat \subseteq level[n] /\ level[n] \subseteq level[n + 1]
    /\ \A n \in 0..MaxDepth : level[n] \subseteq Payload
    /\ Payload \subseteq Nested(Payload)
<1>1. \A n \in Nat : level[n] \subseteq level[n + 1]
  <2> DEFINE T == {n \in Nat : level[n] \subseteq level[n + 1]}
  <2>1. 0 \in T
    <3>1. Flat \subseteq Nested(Flat)
      BY FlatNests
    <3> QED BY <3>1, LevelNext
  <2>2. ASSUME NEW n \in T PROVE n + 1 \in T
    BY LevelNext, NestedGrows
  <2> HIDE DEF T
  <2>3. \A n \in Nat : n \in T
    <3>1. T \in SUBSET Nat
      BY DEF T
    <3> QED BY <2>1, <2>2, <3>1, SetInduction
  <2> QED BY <2>3 DEF T
<1>2. \A n \in Nat : Flat \subseteq level[n]
  <2>1. ASSUME NEW n \in Nat, n # 0 PROVE Flat \subseteq level[n]
    <3>1. n - 1 \in Nat /\ n = (n - 1) + 1
      BY <2>1
    <3>2. level[n] = Nested(level[n - 1])
      BY <3>1, LevelNext
    <3> QED BY <3>2, FlatNests
  <2> QED BY <2>1, LevelNext
<1>3. \A n \in 0..MaxDepth : level[n] \subseteq Payload
  <2> DEFINE T == {k \in Nat : k <= MaxDepth => level[MaxDepth - k] \subseteq Payload}
  <2>1. 0 \in T
    BY PayloadAssumption DEF Payload
  <2>2. ASSUME NEW k \in T PROVE k + 1 \in T
    <3> SUFFICES ASSUME k + 1 <= MaxDepth PROVE level[MaxDepth - (k + 1)] \subseteq Payload
      OBVIOUS
    <3>1. k \in Nat /\ MaxDepth - (k + 1) \in Nat /\ (MaxDepth - (k + 1)) + 1 = MaxDepth - k
      BY PayloadAssumption
    <3>2. level[MaxDepth - k] \subseteq Payload
      BY <3>1, PayloadAssumption
    <3> QED BY <1>1, <3>1, <3>2
  <2> HIDE DEF T
  <2>3. \A k \in Nat : k \in T
    <3>1. T \in SUBSET Nat
      BY DEF T
    <3> QED BY <2>1, <2>2, <3>1, SetInduction
  <2>4. ASSUME NEW n \in 0..MaxDepth PROVE level[n] \subseteq Payload
    <3>1. MaxDepth - n \in Nat /\ MaxDepth - n <= MaxDepth /\ MaxDepth - (MaxDepth - n) = n
      BY PayloadAssumption
    <3> QED BY <2>3, <3>1 DEF T
  <2> QED BY <2>4
<1>4. Payload \subseteq Nested(Payload)
  BY <1>1, LevelNext, PayloadAssumption DEF Payload
<1> QED BY <1>1, <1>2, <1>3, <1>4

\* Where a value holds others.
Places(v) == IF kind(v) \in {"array", "object"} THEN DOMAIN content(v) ELSE {}

\* Scalars hold none.
LEMMA NothingInScalars ==
    ASSUME NEW v \in Scalar
    PROVE  kind(v) \notin {"array", "object"} /\ Places(v) = {}
<1>1. CASE v = <<"null", "">>
  BY <1>1 DEF Places, kind
<1>2. CASE v = <<"undefined", "">>
  BY <1>2 DEF Places, kind
<1>3. CASE v \in {"string", "Date", "PIIString"} \X Text
  <2>1. kind(v) \in {"string", "Date", "PIIString"}
    BY <1>3 DEF kind
  <2> QED BY <2>1 DEF Places
<1>4. CASE v \in {"number"} \X (Digits \cup NonFinite)
  <2>1. kind(v) = "number"
    BY <1>4 DEF kind
  <2> QED BY <2>1 DEF Places
<1>5. CASE v \in {"bigint"} \X Digits
  <2>1. kind(v) = "bigint"
    BY <1>5 DEF kind
  <2> QED BY <2>1 DEF Places
<1> QED BY <1>1, <1>2, <1>3, <1>4, <1>5 DEF Scalar, Null, Undefined

LEMMA NothingInFlat ==
    ASSUME NEW v \in Flat
    PROVE  Places(v) = {}
<1>1. CASE v = <<"object", <<>>>>
  BY <1>1 DEF Places, kind, content
<1> QED BY <1>1, NothingInScalars DEF Flat, Obj

\* What there is in Payload.
LEMMA PayloadCases ==
    ASSUME NEW v \in Payload
    PROVE  \/ /\ v \in Scalar /\ Places(v) = {}
              /\ kind(v) \notin {"array", "object"}
           \/ /\ kind(v) = "array" /\ v = Arr(content(v)) /\ content(v) \in Seq(Payload)
              /\ Places(v) = 1..Len(content(v))
              /\ \A i \in Places(v) : child(v, i) = content(v)[i] /\ child(v, i) \in Payload
           \/ /\ kind(v) = "object" /\ v = Obj(content(v)) /\ content(v) \in Entries(Payload)
              /\ content(v) \in Seq(Key \X Payload)
              /\ Places(v) = 1..Len(content(v))
              /\ \A i \in Places(v) : /\ child(v, i) = content(v)[i][2] /\ child(v, i) \in Payload
                                      /\ content(v)[i] = <<content(v)[i][1], child(v, i)>>
                                      /\ content(v)[i][1] \in Key
<1>1. v \in Nested(Payload)
  BY LevelsRise
<1>2. CASE v \in Scalar
  BY <1>2, NothingInScalars
<1>3. CASE v \in {"array"} \X Seq(Payload)
  <2>1. kind(v) = "array" /\ content(v) \in Seq(Payload) /\ v = <<"array", content(v)>>
    BY <1>3 DEF kind, content
  <2>2. Places(v) = 1..Len(content(v))
    BY <2>1 DEF Places
  <2>3. \A i \in Places(v) : child(v, i) = content(v)[i] /\ child(v, i) \in Payload
    BY <2>1, <2>2 DEF child
  <2> QED BY <2>1, <2>2, <2>3 DEF Arr
<1>4. CASE v \in {"object"} \X Entries(Payload)
  <2>1. kind(v) = "object" /\ content(v) \in Entries(Payload) /\ v = <<"object", content(v)>>
    BY <1>4 DEF kind, content
  <2>2. content(v) \in Seq(Key \X Payload)
    BY <2>1 DEF Entries
  <2>3. Places(v) = 1..Len(content(v))
    BY <2>1, <2>2 DEF Places
  <2>4. ASSUME NEW i \in Places(v)
        PROVE  /\ child(v, i) = content(v)[i][2] /\ child(v, i) \in Payload
               /\ content(v)[i] = <<content(v)[i][1], child(v, i)>>
               /\ content(v)[i][1] \in Key
    <3>1. content(v)[i] \in Key \X Payload
      BY <2>2, <2>3
    <3>2. child(v, i) = content(v)[i][2]
      BY <2>1 DEF child
    <3> HIDE DEF Payload, Key
    <3> QED BY <3>1, <3>2
  <2> QED BY <2>1, <2>2, <2>3, <2>4 DEF Obj
<1> QED BY <1>1, <1>2, <1>3, <1>4 DEF Nested

\* A level holds what is in the values of the next.
LEMMA ChildBelow ==
    ASSUME NEW n \in Nat, NEW v \in level[n + 1], NEW i \in Places(v)
    PROVE  child(v, i) \in level[n]
<1>1. v \in Nested(level[n])
  BY LevelNext
<1>2. v \notin Scalar
  BY NothingInScalars
<1>3. CASE v \in {"array"} \X Seq(level[n])
  <2>1. kind(v) = "array" /\ content(v) \in Seq(level[n])
    BY <1>3 DEF kind, content
  <2>2. i \in DOMAIN content(v)
    BY <2>1 DEF Places
  <2> QED BY <2>1, <2>2 DEF child
<1>4. CASE v \in {"object"} \X Entries(level[n])
  <2>1. kind(v) = "object" /\ content(v) \in Seq(Key \X level[n])
    BY <1>4 DEF kind, content, Entries
  <2>2. i \in DOMAIN content(v)
    BY <2>1 DEF Places
  <2>3. content(v)[i] \in Key \X level[n]
    BY <2>1, <2>2
  <2> HIDE DEF Key
  <2>4. content(v)[i][2] \in level[n]
    BY <2>3
  <2> QED BY <2>1, <2>4 DEF child
<1> QED BY <1>1, <1>2, <1>3, <1>4 DEF Nested

\* Induction: what holds of a value if it holds of all that is in it, holds of
\* every value.
LEMMA PayloadInduction ==
    ASSUME NEW A, \A v \in Payload : (\A i \in Places(v) : child(v, i) \in A) => v \in A
    PROVE  Payload \subseteq A
<1> DEFINE T == {n \in Nat : n <= MaxDepth => level[n] \subseteq A}
<1>1. 0 \in T
  <2>1. \A v \in Flat : v \in Payload /\ Places(v) = {}
    <3>1. 0 \in 0..MaxDepth /\ level[0] = Flat
      BY LevelNext, PayloadAssumption
    <3> QED BY <3>1, NothingInFlat, LevelsRise
  <2> QED BY <2>1, LevelNext
<1>2. ASSUME NEW n \in T PROVE n + 1 \in T
  <2> SUFFICES ASSUME n + 1 <= MaxDepth, NEW v \in level[n + 1] PROVE v \in A
    OBVIOUS
  <2>1. n \in Nat /\ n <= MaxDepth /\ n + 1 \in 0..MaxDepth
    BY PayloadAssumption
  <2>2. v \in Payload
    BY <2>1, LevelsRise
  <2>3. \A i \in Places(v) : child(v, i) \in A
    BY <2>1, ChildBelow
  <2> QED BY <2>2, <2>3
<1> HIDE DEF T
<1>3. \A n \in Nat : n \in T
  <2>1. T \in SUBSET Nat
    BY DEF T
  <2> QED BY <1>1, <1>2, <2>1, SetInduction
<1> QED BY <1>3, PayloadAssumption DEF T, Payload

\* f and g are the same on what is in v.
SameInside(v, f, g) == \A i \in Places(v) : f[child(v, i)] = g[child(v, i)]

\* Recursion: a step that makes of a function on payloads the next one, and looks
\* at it only for what is in a value, has a function that it leaves as it is.
Recursive(T, stepOf, f) == f \in [Payload -> T] /\ f = stepOf[f]

LEMMA FixedPoint ==
    ASSUME NEW T, NEW start \in T, NEW stepOf \in [[Payload -> T] -> [Payload -> T]],
           \A f, g \in [Payload -> T] : \A v \in Payload :
                SameInside(v, f, g) => stepOf[f][v] = stepOf[g][v]
    PROVE  \E f : Recursive(T, stepOf, f)
<1> DEFINE S == [Payload -> T]
           steps == [n \in Nat |-> stepOf]
           first == [v \in Payload |-> start]
<1>1. first \in S /\ steps \in [Nat -> [S -> S]] /\ \A n \in Nat : steps[n] = stepOf
  OBVIOUS
<1> HIDE DEF steps, first
<1>2. PICK F : Iteration(S, first, steps, F)
  <2> HIDE DEF S
  <2> QED BY <1>1, Iterates
<1>3. F \in [Nat -> S] /\ \A n \in Nat : F[n + 1] = stepOf[F[n]]
  BY <1>1, <1>2 DEF Iteration
<1> DEFINE A == {n \in Nat : n <= MaxDepth => \A v \in level[n] : F[n + 1][v] = F[(n + 1) + 1][v]}
<1>4. \A n \in Nat : F[n] \in [Payload -> T]
  BY <1>3
<1> HIDE DEF S
<1>5. 0 \in A
  <2> SUFFICES ASSUME NEW v \in level[0] PROVE F[0 + 1][v] = F[(0 + 1) + 1][v]
    OBVIOUS
  <2>1. v \in Payload /\ Places(v) = {}
    <3>1. 0 \in 0..MaxDepth /\ level[0] = Flat
      BY LevelNext, PayloadAssumption
    <3> QED BY <3>1, NothingInFlat, LevelsRise
  <2>2. SameInside(v, F[0], F[0 + 1])
    BY <2>1 DEF SameInside
  <2>3. stepOf[F[0]][v] = stepOf[F[0 + 1]][v]
    <3>1. F[0] \in [Payload -> T] /\ F[0 + 1] \in [Payload -> T]
      BY <1>4
    <3> QED BY <2>1, <2>2, <3>1
  <2>4. F[0 + 1] = stepOf[F[0]] /\ F[(0 + 1) + 1] = stepOf[F[0 + 1]]
    BY <1>3
  <2> QED BY <2>3, <2>4
<1>6. ASSUME NEW n \in A PROVE n + 1 \in A
  <2> SUFFICES ASSUME n + 1 <= MaxDepth, NEW v \in level[n + 1]
               PROVE  F[(n + 1) + 1][v] = F[((n + 1) + 1) + 1][v]
    OBVIOUS
  <2>1. n \in Nat /\ n <= MaxDepth /\ n + 1 \in 0..MaxDepth /\ n + 1 \in Nat /\ (n + 1) + 1 \in Nat
    BY PayloadAssumption
  <2>2. v \in Payload
    BY <2>1, LevelsRise
  <2>3. \A w \in level[n] : F[n + 1][w] = F[(n + 1) + 1][w]
    BY <2>1
  <2>4. SameInside(v, F[n + 1], F[(n + 1) + 1])
    BY <2>1, <2>3, ChildBelow DEF SameInside
  <2>5. stepOf[F[n + 1]][v] = stepOf[F[(n + 1) + 1]][v]
    <3>1. F[n + 1] \in [Payload -> T] /\ F[(n + 1) + 1] \in [Payload -> T]
      BY <1>4, <2>1
    <3> QED BY <2>2, <2>4, <3>1
  <2>6. F[(n + 1) + 1] = stepOf[F[n + 1]] /\ F[((n + 1) + 1) + 1] = stepOf[F[(n + 1) + 1]]
    BY <1>3, <2>1
  <2> QED BY <2>5, <2>6
<1> HIDE DEF A
<1>7. \A n \in Nat : n \in A
  <2>1. A \in SUBSET Nat
    BY DEF A
  <2> QED BY <1>5, <1>6, <2>1, SetInduction
<1> DEFINE f == F[MaxDepth + 1]
<1>8. \A v \in Payload : f[v] = F[(MaxDepth + 1) + 1][v]
  BY <1>7, PayloadAssumption DEF A, Payload
<1>9. F[(MaxDepth + 1) + 1] = stepOf[f] /\ f \in [Payload -> T] /\ stepOf[f] \in [Payload -> T]
  <2>1. MaxDepth + 1 \in Nat
    BY PayloadAssumption
  <2> QED BY <1>3, <1>4, <2>1
<1> HIDE DEF f
<1>10. f = stepOf[f]
  BY <1>8, <1>9
<1> QED BY <1>9, <1>10 DEF Recursive

\* What walk makes of a value is no deeper.
LEMMA WalkNoDeeper ==
    ASSUME NEW n \in Nat, NEW v \in level[n], NEW inner,
           \A m \in Nat : n = m + 1 => \A w \in level[m] : inner[w] \in level[m]
    PROVE  walkInto(v, inner) \in level[n]
<1>1. Flat \subseteq level[n]
  BY LevelsRise
<1>2. REDACTED \in Scalar
  BY PayloadAssumption DEF REDACTED, Str, Scalar
<1>3. CASE v \in Scalar
  <2>1. CASE v \in {"string", "Date", "PIIString"} \X Text
    <3>1. kind(v) \in {"string", "Date", "PIIString"}
      BY <2>1 DEF kind
    <3>2. walkInto(v, inner) \in {REDACTED, Obj(<<>>), v}
      BY <3>1 DEF walkInto
    <3> QED BY <1>1, <1>2, <1>3, <3>2 DEF Flat
  <2>2. CASE v \in {"bigint"} \X Digits
    <3>1. kind(v) = "bigint" /\ content(v) \in Text
      BY <2>2, PayloadAssumption DEF kind, content
    <3>2. walkInto(v, inner) = Str(content(v))
      BY <3>1 DEF walkInto
    <3>3. Str(content(v)) \in Scalar
      BY <3>1 DEF Scalar, Str
    <3> QED BY <1>1, <3>2, <3>3 DEF Flat
  <2>3. CASE v \in {Null, Undefined} \cup ({"number"} \X (Digits \cup NonFinite))
    <3>1. kind(v) \in {"null", "undefined", "number"}
      <4>1. CASE v = <<"null", "">>
        BY <4>1 DEF kind
      <4>2. CASE v = <<"undefined", "">>
        BY <4>2 DEF kind
      <4>3. CASE v \in {"number"} \X (Digits \cup NonFinite)
        BY <4>3 DEF kind
      <4> QED BY <2>3, <4>1, <4>2, <4>3 DEF Null, Undefined
    <3>2. walkInto(v, inner) = v
      BY <3>1 DEF walkInto
    <3> QED BY <1>1, <1>3, <3>2 DEF Flat
  <2> QED BY <1>3, <2>1, <2>2, <2>3 DEF Scalar
<1>4. CASE v = Obj(<<>>)
  <2>1. kind(v) = "object" /\ content(v) = <<>>
    BY <1>4 DEF Obj, kind, content
  <2>2. walkInto(v, inner) = Obj(<<>>)
    BY <2>1 DEF walkInto
  <2> QED BY <1>1, <2>2 DEF Flat
<1>5. CASE v \notin Flat
  <2>1. n # 0
    BY <1>5, LevelNext
  <2>2. PICK m \in Nat : n = m + 1
    <3>1. n - 1 \in Nat /\ n = (n - 1) + 1
      BY <2>1
    <3> QED BY <3>1
  <2>3. level[n] = Nested(level[m])
    BY <2>2, LevelNext
  <2>4. \A w \in level[m] : inner[w] \in level[m]
    BY <2>2
  <2>5. CASE v \in {"array"} \X Seq(level[m])
    <3>1. kind(v) = "array" /\ content(v) \in Seq(level[m])
      BY <2>5 DEF kind, content
    <3> DEFINE s == [i \in DOMAIN content(v) |-> inner[content(v)[i]]]
    <3>2. walkInto(v, inner) = Arr(s)
      BY <3>1 DEF walkInto
    <3>3. s \in Seq(level[m])
      BY <2>4, <3>1
    <3> QED BY <2>3, <3>2, <3>3 DEF Nested, Arr
  <2>6. CASE v \in {"object"} \X Entries(level[m])
    <3>1. kind(v) = "object" /\ content(v) \in Entries(level[m])
      BY <2>6 DEF kind, content
    <3> DEFINE es == content(v)
               fs == [i \in DOMAIN es |-> <<es[i][1], IF es[i][1] \in DEFAULT_FORBIDDEN THEN REDACTED
                                                      ELSE inner[es[i][2]]>>]
    <3>2. walkInto(v, inner) = Obj(fs)
      BY <3>1 DEF walkInto
    <3>3. es \in Seq(Key \X level[m]) /\ \A i, j \in DOMAIN es : es[i][1] = es[j][1] => i = j
      BY <3>1 DEF Entries
    <3>4. REDACTED \in level[m]
      BY <1>2, LevelsRise DEF Flat
    <3> HIDE DEF Key
    <3>5. ASSUME NEW i \in DOMAIN es PROVE fs[i] \in Key \X level[m] /\ fs[i][1] = es[i][1]
      <4>1. es[i] \in Key \X level[m]
        BY <3>3, <3>5
      <4>2. es[i][1] \in Key /\ es[i][2] \in level[m]
        BY <4>1
      <4> QED BY <2>4, <3>4, <4>2
    <3>6. fs \in Seq(Key \X level[m])
      <4>1. DOMAIN es = 1..Len(es) /\ Len(es) \in Nat
        BY <3>3
      <4>2. DOMAIN fs = 1..Len(es) /\ \A i \in 1..Len(es) : fs[i] \in Key \X level[m]
        BY <3>5, <4>1
      <4>3. fs \in [1..Len(es) -> Key \X level[m]]
        BY <4>2
      <4> HIDE DEF fs
      <4> QED BY <4>1, <4>3
    <3>7. \A i, j \in DOMAIN fs : fs[i][1] = fs[j][1] => i = j
      BY <3>3, <3>5
    <3> HIDE DEF fs
    <3>8. fs \in Entries(level[m])
      BY <3>6, <3>7 DEF Entries
    <3> QED BY <2>3, <3>2, <3>8 DEF Nested, Obj
  <2> QED BY <1>5, <2>3, <2>5, <2>6 DEF Nested, Flat
<1> QED BY <1>3, <1>4, <1>5 DEF Flat

\* walkInto looks at what is in the value only.
LEMMA WalkLooksInside ==
    ASSUME NEW v \in Payload, NEW f, NEW g, SameInside(v, f, g)
    PROVE  walkInto(v, f) = walkInto(v, g)
<1>1. CASE Places(v) = {} /\ kind(v) \notin {"array", "object"}
  BY <1>1 DEF walkInto
<1>2. CASE kind(v) = "array"
  <2>1. \A i \in DOMAIN content(v) : f[content(v)[i]] = g[content(v)[i]]
    BY <1>2 DEF SameInside, Places, child
  <2>2. [i \in DOMAIN content(v) |-> f[content(v)[i]]] = [i \in DOMAIN content(v) |-> g[content(v)[i]]]
    BY <2>1
  <2> QED BY <1>2, <2>2 DEF walkInto
<1>3. CASE kind(v) = "object"
  <2>1. \A i \in DOMAIN content(v) : f[content(v)[i][2]] = g[content(v)[i][2]]
    BY <1>3 DEF SameInside, Places, child
  <2> DEFINE es(h) == [i \in DOMAIN content(v) |->
                            LET k == content(v)[i][1] IN
                            <<k, IF k \in DEFAULT_FORBIDDEN THEN REDACTED ELSE h[content(v)[i][2]]>>]
  <2>2. es(f) = es(g)
    BY <2>1
  <2>3. walkInto(v, f) = Obj(es(f)) /\ walkInto(v, g) = Obj(es(g))
    BY <1>3 DEF walkInto
  <2> HIDE DEF es
  <2> QED BY <2>2, <2>3
<1> QED BY <1>1, <1>2, <1>3, PayloadCases

\* What walk returns.
LEMMA WalkRule ==
    /\ walk \in [Payload -> Payload]
    /\ \A v \in Payload : walk[v] = walkInto(v, walk)
<1> DEFINE IsIt(g) == g = [v \in Payload |-> walkInto(v, g)]
           within1(v, f) == IF walkInto(v, f) \in Payload THEN walkInto(v, f) ELSE v
           stepOf == [f \in [Payload -> Payload] |-> [v \in Payload |-> within1(v, f)]]
<1>1. stepOf \in [[Payload -> Payload] -> [Payload -> Payload]]
  OBVIOUS
<1>2. \A f \in [Payload -> Payload] : \A v \in Payload : stepOf[f][v] = within1(v, f)
  OBVIOUS
<1>3. ASSUME NEW f \in [Payload -> Payload], NEW g \in [Payload -> Payload], NEW v \in Payload,
             SameInside(v, f, g)
      PROVE  stepOf[f][v] = stepOf[g][v]
  <2>1. walkInto(v, f) = walkInto(v, g)
    BY <1>3, WalkLooksInside
  <2> QED BY <1>2, <2>1
<1> HIDE DEF stepOf
<1>4. REDACTED \in Payload
  <2>1. REDACTED \in Flat
    BY PayloadAssumption DEF REDACTED, Str, Scalar, Flat
  <2>2. 0 \in 0..MaxDepth
    BY PayloadAssumption
  <2> QED BY <2>1, <2>2, LevelsRise, LevelNext
<1>5. PICK f : Recursive(Payload, stepOf, f)
  BY <1>1, <1>3, <1>4, FixedPoint
<1>6. f \in [Payload -> Payload] /\ \A v \in Payload : f[v] = within1(v, f)
  BY <1>2, <1>5 DEF Recursive
<1>7. \A n \in 0..MaxDepth : \A v \in level[n] : walkInto(v, f) \in level[n] /\ f[v] \in level[n]
  <2> DEFINE T == {n \in Nat : n <= MaxDepth =>
                        \A v \in level[n] : walkInto(v, f) \in level[n] /\ f[v] \in level[n]}
  <2>1. ASSUME NEW n \in Nat, n <= MaxDepth,
               \A m \in Nat : n = m + 1 => \A w \in level[m] : f[w] \in level[m]
        PROVE  n \in T
    <3> SUFFICES ASSUME NEW v \in level[n]
                 PROVE  walkInto(v, f) \in level[n] /\ f[v] \in level[n]
      OBVIOUS
    <3>1. walkInto(v, f) \in level[n]
      BY <2>1, WalkNoDeeper
    <3>2. n \in 0..MaxDepth
      BY <2>1, PayloadAssumption
    <3>3. v \in Payload /\ walkInto(v, f) \in Payload
      BY <3>1, <3>2, LevelsRise
    <3>4. f[v] = walkInto(v, f)
      BY <1>6, <3>3
    <3> QED BY <3>1, <3>4
  <2>2. 0 \in T
    <3>1. \A m \in Nat : 0 # m + 1
      OBVIOUS
    <3>2. 0 <= MaxDepth
      BY PayloadAssumption
    <3> HIDE DEF T
    <3> QED BY <2>1, <3>1, <3>2
  <2>3. ASSUME NEW n \in T PROVE n + 1 \in T
    <3>1. n \in Nat /\ n + 1 \in Nat
      OBVIOUS
    <3>2. CASE n + 1 <= MaxDepth
      <4>1. \A m \in Nat : n + 1 = m + 1 => m = n
        BY <3>1
      <4>2. \A w \in level[n] : f[w] \in level[n]
        BY <3>1, <3>2, PayloadAssumption
      <4> HIDE DEF T
      <4> QED BY <2>1, <3>1, <3>2, <4>1, <4>2
    <3>3. CASE ~(n + 1 <= MaxDepth)
      BY <3>1, <3>3
    <3> QED BY <3>2, <3>3
  <2> HIDE DEF T
  <2>4. \A n \in Nat : n \in T
    <3>1. T \in SUBSET Nat
      BY DEF T
    <3> QED BY <2>2, <2>3, <3>1, SetInduction
  <2> QED BY <2>4 DEF T
<1>8. \A v \in Payload : walkInto(v, f) \in Payload /\ f[v] = walkInto(v, f)
  <2>1. MaxDepth \in 0..MaxDepth
    BY PayloadAssumption
  <2>2. \A v \in Payload : walkInto(v, f) \in Payload
    BY <1>7, <2>1 DEF Payload
  <2> QED BY <1>6, <2>2
<1>9. \E g : IsIt(g)
  <2>1. IsIt(f)
    BY <1>6, <1>8
  <2> QED BY <2>1
<1>10. IsIt(walk)
  <2>1. walk = CHOOSE g : IsIt(g)
    BY DEF walk
  <2> HIDE DEF IsIt
  <2> QED BY <1>9, <2>1
<1>11. \A v \in Payload : walk[v] = walkInto(v, walk)
  BY <1>10
<1>12. Payload \subseteq {v \in Payload : walk[v] = f[v]}
  <2> DEFINE A == {v \in Payload : walk[v] = f[v]}
  <2>1. ASSUME NEW v \in Payload, \A i \in Places(v) : child(v, i) \in A PROVE v \in A
    <3>1. SameInside(v, walk, f)
      BY <2>1 DEF SameInside
    <3> QED BY <1>8, <1>11, <3>1, WalkLooksInside
  <2> HIDE DEF A
  <2>2. Payload \subseteq A
    BY <2>1, PayloadInduction
  <2> QED BY <2>2 DEF A
<1>13. walk \in [Payload -> Payload]
  <2>1. walk = [v \in Payload |-> walkInto(v, walk)]
    BY <1>10
  <2>2. \A v \in Payload : walkInto(v, walk) \in Payload
    BY <1>6, <1>11, <1>12
  <2> HIDE DEF Payload
  <2> QED BY <2>1, <2>2
<1> QED BY <1>11, <1>13

\* What assertRedacted asks of a value; inner is what it says of what is in it.
Accepts(v, inner) ==
    kind(v) = "object" =>
        \A i \in DOMAIN content(v) : content(v)[i][1] \notin FORBIDDEN_KEYS /\ inner[content(v)[i][2]]

LEMMA AcceptsRule ==
    /\ assertRedacted \in [Payload -> BOOLEAN]
    /\ \A v \in Payload : assertRedacted[v] = Accepts(v, assertRedacted)
<1> DEFINE IsIt(g) == g = [v \in Payload |-> Accepts(v, g)]
           stepOf == [f \in [Payload -> BOOLEAN] |-> [v \in Payload |-> Accepts(v, f)]]
<1>1. stepOf \in [[Payload -> BOOLEAN] -> [Payload -> BOOLEAN]]
  BY Zenon DEF Accepts
<1>2. \A f \in [Payload -> BOOLEAN] : stepOf[f] = [v \in Payload |-> Accepts(v, f)]
  OBVIOUS
<1>3. ASSUME NEW f \in [Payload -> BOOLEAN], NEW g \in [Payload -> BOOLEAN], NEW v \in Payload,
             SameInside(v, f, g)
      PROVE  stepOf[f][v] = stepOf[g][v]
  <2>1. kind(v) = "object" => \A i \in DOMAIN content(v) : f[content(v)[i][2]] = g[content(v)[i][2]]
    BY <1>3 DEF SameInside, Places, child
  <2>2. Accepts(v, f) = Accepts(v, g)
    BY <2>1 DEF Accepts
  <2>3. stepOf[f] = [w \in Payload |-> Accepts(w, f)] /\ stepOf[g] = [w \in Payload |-> Accepts(w, g)]
    BY <1>2
  <2> HIDE DEF stepOf
  <2> QED BY <2>2, <2>3
<1> HIDE DEF stepOf
<1>4. PICK f : Recursive(BOOLEAN, stepOf, f)
  BY <1>1, <1>3, FixedPoint
<1>5. IsIt(f)
  BY <1>2, <1>4 DEF Recursive
<1>6. IsIt(assertRedacted)
  <2>1. assertRedacted = CHOOSE g : IsIt(g)
    BY DEF assertRedacted, Accepts
  <2> HIDE DEF IsIt
  <2> QED BY <1>5, <2>1
<1>7. \A v \in Payload : assertRedacted[v] = Accepts(v, assertRedacted) /\ assertRedacted[v] \in BOOLEAN
  BY <1>6 DEF Accepts
<1>8. assertRedacted = [v \in Payload |-> assertRedacted[v]]
  BY <1>6
<1> QED BY <1>7, <1>8

Step == ({"index"} \X Nat) \cup ({"key"} \X Key)
LeafOf == [path : Seq(Step), leaf : Payload]

\* The leaves of a value; inner has those of what is in it.
Led(v, i, ls) == {[path |-> <<step(v, i)>> \o l.path, leaf |-> l.leaf] : l \in ls}
LeavesInto(v, inner) ==
    IF kind(v) \notin {"array", "object"} \/ content(v) = <<>>
    THEN {[path |-> <<>>, leaf |-> v]}
    ELSE UNION {Led(v, i, inner[child(v, i)]) : i \in DOMAIN content(v)}

LEMMA StepTyped ==
    ASSUME NEW v \in Payload, NEW i \in Places(v)
    PROVE  step(v, i) \in Step
<1>1. CASE kind(v) = "array"
  <2>1. i \in Nat
    BY <1>1, PayloadCases DEF Arr
  <2> QED BY <1>1, <2>1 DEF step, Step
<1>2. CASE kind(v) # "array"
  <2>1. content(v)[i][1] \in Key
    BY <1>2, PayloadCases
  <2> QED BY <1>2, <2>1 DEF step, Step
<1> QED BY <1>1, <1>2

LEMMA LeavesRule ==
    /\ leaves \in [Payload -> SUBSET LeafOf]
    /\ \A v \in Payload : leaves[v] = LeavesInto(v, leaves)
<1> DEFINE IsIt(g) == g = [v \in Payload |-> LeavesInto(v, g)]
           T == SUBSET LeafOf
           stepOf == [f \in [Payload -> T] |-> [v \in Payload |-> LeavesInto(v, f)]]
<1>1. ASSUME NEW f \in [Payload -> T], NEW v \in Payload PROVE LeavesInto(v, f) \in T
  <2>1. CASE kind(v) \notin {"array", "object"} \/ content(v) = <<>>
    <3>1. LeavesInto(v, f) = {[path |-> <<>>, leaf |-> v]}
      BY <2>1 DEF LeavesInto
    <3>2. <<>> \in Seq(Step)
      OBVIOUS
    <3> QED BY <3>1, <3>2 DEF LeafOf
  <2>2. CASE ~(kind(v) \notin {"array", "object"} \/ content(v) = <<>>)
    <3>1. LeavesInto(v, f) = UNION {Led(v, i, f[child(v, i)]) : i \in Places(v)}
      BY <2>2 DEF LeavesInto, Places
    <3>2. ASSUME NEW i \in Places(v) PROVE Led(v, i, f[child(v, i)]) \subseteq LeafOf
      <4>1. child(v, i) \in Payload
        BY PayloadCases
      <4>2. f[child(v, i)] \subseteq LeafOf
        BY <4>1
      <4>3. ASSUME NEW l \in LeafOf PROVE [path |-> <<step(v, i)>> \o l.path, leaf |-> l.leaf] \in LeafOf
        <5>1. <<step(v, i)>> \in Seq(Step) /\ l.path \in Seq(Step)
          BY StepTyped DEF LeafOf
        <5>2. <<step(v, i)>> \o l.path \in Seq(Step)
          BY <5>1
        <5> QED BY <5>2 DEF LeafOf
      <4> QED BY <4>2, <4>3 DEF Led
    <3> QED BY <3>1, <3>2
  <2> QED BY <2>1, <2>2
<1>2. \A f \in [Payload -> T] : stepOf[f] = [v \in Payload |-> LeavesInto(v, f)]
  OBVIOUS
<1>3. stepOf \in [[Payload -> T] -> [Payload -> T]]
  <2> HIDE DEF T
  <2> QED BY <1>1
<1>4. ASSUME NEW f, NEW g, NEW v \in Payload, SameInside(v, f, g)
      PROVE  LeavesInto(v, f) = LeavesInto(v, g)
  <2>1. CASE kind(v) \notin {"array", "object"} \/ content(v) = <<>>
    BY <2>1 DEF LeavesInto
  <2>2. CASE ~(kind(v) \notin {"array", "object"} \/ content(v) = <<>>)
    <3>1. \A i \in DOMAIN content(v) : f[child(v, i)] = g[child(v, i)]
      BY <1>4, <2>2 DEF SameInside, Places
    <3>2. {Led(v, i, f[child(v, i)]) : i \in DOMAIN content(v)} =
          {Led(v, i, g[child(v, i)]) : i \in DOMAIN content(v)}
      BY <3>1
    <3> QED BY <2>2, <3>2 DEF LeavesInto
  <2> QED BY <2>1, <2>2
<1> HIDE DEF stepOf
<1>5. PICK f : Recursive(T, stepOf, f)
  <2>1. {} \in T
    OBVIOUS
  <2>2. \A f, g \in [Payload -> T] : \A v \in Payload :
                SameInside(v, f, g) => stepOf[f][v] = stepOf[g][v]
    <3> SUFFICES ASSUME NEW h \in [Payload -> T], NEW g \in [Payload -> T], NEW v \in Payload,
                        SameInside(v, h, g)
                 PROVE  stepOf[h][v] = stepOf[g][v]
      OBVIOUS
    <3>1. stepOf[h] = [w \in Payload |-> LeavesInto(w, h)] /\ stepOf[g] = [w \in Payload |-> LeavesInto(w, g)]
      BY <1>2
    <3>2. LeavesInto(v, h) = LeavesInto(v, g)
      BY <1>4
    <3> HIDE DEF T
    <3> QED BY <3>1, <3>2
  <2> HIDE DEF T
  <2> QED BY <1>3, <2>1, <2>2, FixedPoint
<1>6. f \in [Payload -> T] /\ IsIt(f)
  BY <1>2, <1>5 DEF Recursive
<1>7. IsIt(leaves)
  <2>1. leaves = CHOOSE g : IsIt(g)
    BY DEF leaves, LeavesInto, Led
  <2> HIDE DEF IsIt
  <2> QED BY <1>6, <2>1
<1>8. \A v \in Payload : leaves[v] = LeavesInto(v, leaves)
  BY <1>7
<1>9. Payload \subseteq {v \in Payload : leaves[v] \in T}
  <2> DEFINE A == {v \in Payload : leaves[v] = f[v]}
  <2>1. ASSUME NEW v \in Payload, \A i \in Places(v) : child(v, i) \in A PROVE v \in A
    <3>1. SameInside(v, leaves, f)
      BY <2>1 DEF SameInside
    <3>2. f[v] = LeavesInto(v, f)
      BY <1>6
    <3> QED BY <1>8, <1>4, <3>1, <3>2
  <2> HIDE DEF A
  <2>2. Payload \subseteq A
    BY <2>1, PayloadInduction
  <2> QED BY <1>6, <2>2 DEF A
<1>10. leaves \in [Payload -> T]
  <2>1. leaves = [v \in Payload |-> leaves[v]]
    BY <1>7
  <2> HIDE DEF T
  <2> QED BY <1>9, <2>1
<1> QED BY <1>8, <1>10

\* Every value has a leaf.
LEMMA LeavesThere == \A v \in Payload : leaves[v] # {}
<1> DEFINE A == {v \in Payload : leaves[v] # {}}
<1>1. ASSUME NEW v \in Payload, \A i \in Places(v) : child(v, i) \in A PROVE v \in A
  <2>1. CASE kind(v) \notin {"array", "object"} \/ content(v) = <<>>
    BY <2>1, LeavesRule DEF LeavesInto
  <2>2. CASE ~(kind(v) \notin {"array", "object"} \/ content(v) = <<>>)
    <3>1. leaves[v] = UNION {Led(v, i, leaves[child(v, i)]) : i \in Places(v)}
      BY <2>2, LeavesRule DEF LeavesInto, Places
    <3>2. 1 \in Places(v)
      <4>1. Places(v) = 1..Len(content(v)) /\ content(v) \in Seq(Payload) \cup Seq(Key \X Payload)
        BY <2>2, PayloadCases
      <4>2. content(v) # <<>>
        BY <2>2
      <4> HIDE DEF Payload, Key, Places
      <4> QED BY <4>1, <4>2
    <3>3. leaves[child(v, 1)] # {}
      BY <1>1, <3>2
    <3>4. Led(v, 1, leaves[child(v, 1)]) # {}
      BY <3>3 DEF Led
    <3> QED BY <3>1, <3>2, <3>4
  <2> QED BY <2>1, <2>2
<1> HIDE DEF A
<1>2. Payload \subseteq A
  BY <1>1, PayloadInduction
<1> QED BY <1>2 DEF A

-----------------------------------------------------------------------------
(* Redaction.                                                               *)

Longer(s, l) == [path |-> <<s>> \o l.path, leaf |-> l.leaf]
Opens(s, keys) == s[1] = "key" /\ s[2] \in keys

\* The keys on a path with one more step before it.
LEMMA LongerPath ==
    ASSUME NEW l \in LeafOf, NEW s \in Step, NEW keys
    PROVE  /\ Longer(s, l) \in LeafOf
           /\ DOMAIN Longer(s, l).path = 1..(Len(l.path) + 1) /\ DOMAIN l.path = 1..Len(l.path)
           /\ Len(l.path) \in Nat /\ Len(Longer(s, l).path) = Len(l.path) + 1
           /\ Longer(s, l).path[1] = s
           /\ \A i \in 1..Len(l.path) : Longer(s, l).path[i + 1] = l.path[i]
           /\ 1 \in keysOf(Longer(s, l), keys) <=> Opens(s, keys)
           /\ \A i \in Nat \ {0} : i + 1 \in keysOf(Longer(s, l), keys) <=> i \in keysOf(l, keys)
<1> DEFINE p == l.path
           q == <<s>> \o p
<1>1. p \in Seq(Step) /\ <<s>> \in Seq(Step) /\ Len(<<s>>) = 1 /\ <<s>>[1] = s /\ l.leaf \in Payload
  BY DEF LeafOf
<1>2. /\ q \in Seq(Step) /\ Len(q) = Len(<<s>>) + Len(p)
      /\ \A i \in 1..Len(<<s>>) : q[i] = <<s>>[i]
      /\ \A i \in 1..Len(p) : q[Len(<<s>>) + i] = p[i]
  <2>1. p \in Seq(Step) /\ <<s>> \in Seq(Step)
    BY <1>1
  <2> HIDE DEF p
  <2> QED BY <2>1, Joined
<1>3. Longer(s, l) = [path |-> q, leaf |-> l.leaf]
  BY DEF Longer
<1>4. Longer(s, l) \in LeafOf /\ Longer(s, l).path = q
  BY <1>1, <1>2, <1>3 DEF LeafOf
<1> HIDE DEF p, q
<1>5. /\ Len(p) \in Nat /\ Len(q) = Len(p) + 1 /\ DOMAIN q = 1..(Len(p) + 1) /\ DOMAIN p = 1..Len(p)
      /\ q[1] = s
  BY <1>1, <1>2
<1>6. \A i \in 1..Len(p) : q[i + 1] = p[i]
  <2>1. \A i \in 1..Len(p) : 1 + i = i + 1
    BY <1>5
  <2> QED BY <1>1, <1>2, <2>1
<1>7. 1 \in keysOf(Longer(s, l), keys) <=> Opens(s, keys)
  BY <1>4, <1>5 DEF keysOf, Opens
<1>8. ASSUME NEW i \in Nat \ {0}
      PROVE  i + 1 \in keysOf(Longer(s, l), keys) <=> i \in keysOf(l, keys)
  <2>1. i + 1 \in DOMAIN q <=> i \in DOMAIN p
    BY <1>5
  <2>2. i \in DOMAIN p => q[i + 1] = p[i]
    BY <1>5, <1>6
  <2>3. i + 1 \in keysOf(Longer(s, l), keys) <=>
            i + 1 \in DOMAIN q /\ q[i + 1][1] = "key" /\ q[i + 1][2] \in keys
    BY <1>4 DEF keysOf
  <2>4. i \in keysOf(l, keys) <=> i \in DOMAIN p /\ p[i][1] = "key" /\ p[i][2] \in keys
    BY DEF keysOf, p
  <2> QED BY <2>1, <2>2, <2>3, <2>4
<1> QED BY <1>4, <1>5, <1>6, <1>7, <1>8 DEF p

\* A path that opens with a forbidden key is cut there, and another one where the
\* rest of it is.
LEMMA HiddenLonger ==
    ASSUME NEW l \in LeafOf, NEW s \in Step
    PROVE  hidden(Longer(s, l)) = IF Opens(s, DEFAULT_FORBIDDEN)
                                  THEN [path |-> <<s>>, leaf |-> REDACTED]
                                  ELSE Longer(s, hidden(l))
<1> DEFINE cuts == keysOf(l, DEFAULT_FORBIDDEN)
           m == Longer(s, l)
           after == keysOf(m, DEFAULT_FORBIDDEN)
           first(c) == CHOOSE i \in c : \A j \in c : i <= j
           bare(k) == [k EXCEPT !.leaf = CASE kind(@) = "PIIString" -> REDACTED
                                           [] kind(@) = "bigint" -> Str(content(@))
                                           [] kind(@) = "Date" -> Obj(<<>>)
                                           [] OTHER -> @]
<1>1. /\ hidden(l) = IF cuts # {} THEN [path |-> SubSeq(l.path, 1, first(cuts)), leaf |-> REDACTED]
                     ELSE bare(l)
      /\ hidden(m) = IF after # {} THEN [path |-> SubSeq(m.path, 1, first(after)), leaf |-> REDACTED]
                     ELSE bare(m)
  BY DEF hidden
<1>2. /\ m \in LeafOf
      /\ Len(l.path) \in Nat /\ Len(m.path) = Len(l.path) + 1
      /\ m.path[1] = s /\ \A i \in 1..Len(l.path) : m.path[i + 1] = l.path[i]
      /\ 1 \in after <=> Opens(s, DEFAULT_FORBIDDEN)
      /\ \A i \in Nat \ {0} : i + 1 \in after <=> i \in cuts
  BY LongerPath
<1>3. cuts \subseteq 1..Len(l.path) /\ after \subseteq 1..(Len(l.path) + 1)
  BY LongerPath DEF keysOf
<1>4. m.path = <<s>> \o l.path /\ m.leaf = l.leaf
  BY DEF Longer
<1>5. l.path \in Seq(Step) /\ m.path \in Seq(Step)
  BY <1>2 DEF LeafOf
<1>6. CASE Opens(s, DEFAULT_FORBIDDEN)
  <2>1. first(after) = 1
    <3>1. 1 \in after /\ \A j \in after : 1 <= j
      BY <1>2, <1>3, <1>6
    <3>2. \A i \in after : (\A j \in after : i <= j) => i = 1
      BY <1>2, <1>3, <3>1
    <3> HIDE DEF after
    <3> QED BY <3>1, <3>2
  <2>2. SubSeq(m.path, 1, 1) = <<s>>
    <3> HIDE DEF m, after, cuts
    <3> DEFINE q == m.path
               a == SubSeq(q, 1, 1)
    <3>1. q \in Seq(Step) /\ q[1] = s /\ Len(q) \in Nat /\ Len(q) >= 1
      <4>1. q \in Seq(Step) /\ q[1] = s
        BY <1>2, <1>5
      <4>2. Len(l.path) \in Nat /\ Len(q) = Len(l.path) + 1
        BY <1>2
      <4> HIDE DEF q
      <4>3. Len(q) \in Nat /\ Len(q) >= 1
        BY <4>2
      <4> QED BY <4>1, <4>3
    <3> HIDE DEF q
    <3>2. a \in Seq(Step) /\ Len(a) = 1 /\ a[1] = s
      BY <3>1
    <3>3. <<s>> \in Seq(Step) /\ Len(<<s>>) = 1 /\ <<s>>[1] = s
      OBVIOUS
    <3> HIDE DEF a
    <3>4. \A i \in 1..Len(a) : a[i] = <<s>>[i]
      BY <3>2, <3>3
    <3>5. a = <<s>>
      BY <3>2, <3>3, <3>4, SeqEqual
    <3> QED BY <3>5 DEF a, q
  <2>3. after # {}
    BY <1>2, <1>6
  <2> HIDE DEF m, after
  <2> QED BY <1>1, <1>6, <2>1, <2>2, <2>3 DEF m
<1>7. CASE ~Opens(s, DEFAULT_FORBIDDEN) /\ cuts = {}
  <2>1. after = {}
    <3> SUFFICES ASSUME NEW i \in after PROVE FALSE
      OBVIOUS
    <3>1. i \in Nat /\ i >= 1 /\ i # 1
      BY <1>2, <1>3, <1>7
    <3>2. i - 1 \in Nat \ {0} /\ i = (i - 1) + 1
      BY <3>1
    <3> QED BY <1>2, <1>7, <3>2
  <2>2. bare(m) = Longer(s, bare(l))
    <3> DEFINE B(x) == CASE kind(x) = "PIIString" -> REDACTED
                         [] kind(x) = "bigint" -> Str(content(x))
                         [] kind(x) = "Date" -> Obj(<<>>)
                         [] OTHER -> x
    <3>1. \A k \in LeafOf : bare(k) = [path |-> k.path, leaf |-> B(k.leaf)]
      BY DEF LeafOf
    <3>2. bare(m) = [path |-> m.path, leaf |-> B(m.leaf)] /\ bare(l) = [path |-> l.path, leaf |-> B(l.leaf)]
      BY <1>2, <3>1
    <3> HIDE DEF bare, B
    <3> QED BY <1>4, <3>2 DEF Longer
  <2> HIDE DEF bare, after, cuts
  <2> QED BY <1>1, <1>7, <2>1, <2>2
<1>8. CASE ~Opens(s, DEFAULT_FORBIDDEN) /\ cuts # {}
  <2>1. PICK c \in cuts : \A j \in cuts : c <= j
    <3>1. cuts \in SUBSET Nat
      BY <1>3
    <3> HIDE DEF cuts
    <3> QED BY <1>8, <3>1, LeastNatural
  <2>2. c \in Nat \ {0} /\ c <= Len(l.path)
    BY <1>3
  <2>3. first(cuts) = c
    <3>1. \A i \in cuts : (\A j \in cuts : i <= j) => i = c
      BY <1>3, <2>1
    <3> HIDE DEF cuts
    <3> QED BY <2>1, <3>1
  <2>4. first(after) = c + 1 /\ c + 1 \in after
    <3>1. c + 1 \in after
      BY <1>2, <2>1, <2>2
    <3>2. ASSUME NEW j \in after PROVE c + 1 <= j
      <4>1. j \in Nat /\ j >= 1 /\ j # 1
        <5>1. j \in 1..(Len(l.path) + 1)
          BY <1>3
        <5>2. j # 1
          BY <1>2, <1>8
        <5> HIDE DEF after
        <5> QED BY <1>2, <5>1, <5>2
      <4>2. j - 1 \in Nat \ {0} /\ j = (j - 1) + 1
        BY <4>1
      <4>3. j - 1 \in cuts
        BY <1>2, <4>2
      <4> QED BY <2>1, <2>2, <4>1, <4>3
    <3>3. \A i \in after : (\A j \in after : i <= j) => i = c + 1
      BY <1>3, <2>2, <3>1, <3>2
    <3> HIDE DEF after
    <3> QED BY <3>1, <3>2, <3>3
  <2>5. SubSeq(m.path, 1, c + 1) = <<s>> \o SubSeq(l.path, 1, c)
    <3> DEFINE p == l.path
               q == m.path
               a == SubSeq(q, 1, c + 1)
               b == SubSeq(p, 1, c)
    <3>1. /\ p \in Seq(Step) /\ q \in Seq(Step) /\ Len(p) \in Nat /\ c <= Len(p)
          /\ Len(q) = Len(p) + 1 /\ q[1] = s /\ \A i \in 1..Len(p) : q[i + 1] = p[i]
      BY <1>2, <1>5, <2>2
    <3> HIDE DEF p, q
    <3>2. a \in Seq(Step) /\ Len(a) = c + 1 /\ \A i \in 1..(c + 1) : a[i] = q[i]
      BY <2>2, <3>1
    <3>3. b \in Seq(Step) /\ Len(b) = c /\ \A i \in 1..c : b[i] = p[i]
      BY <2>2, <3>1
    <3>4. <<s>> \in Seq(Step) /\ Len(<<s>>) = 1 /\ <<s>>[1] = s
      OBVIOUS
    <3> HIDE DEF a, b
    <3> DEFINE d == <<s>> \o b
    <3>5. /\ d \in Seq(Step) /\ Len(d) = Len(<<s>>) + Len(b)
          /\ \A i \in 1..Len(<<s>>) : d[i] = <<s>>[i]
          /\ \A i \in 1..Len(b) : d[Len(<<s>>) + i] = b[i]
      BY <3>3, <3>4, Joined
    <3> HIDE DEF d
    <3>6. Len(d) = c + 1 /\ d[1] = s
      BY <2>2, <3>3, <3>4, <3>5
    <3>7. ASSUME NEW i \in 1..(c + 1) PROVE a[i] = d[i]
      <4>1. CASE i = 1
        BY <3>1, <3>2, <3>6, <4>1
      <4>2. CASE i # 1
        <5>1. i - 1 \in 1..c /\ i - 1 \in 1..Len(p) /\ (i - 1) + 1 = i /\ 1 + (i - 1) = i
          BY <2>2, <3>1, <4>2
        <5>2. d[1 + (i - 1)] = b[i - 1]
          BY <3>3, <3>4, <3>5, <5>1
        <5>3. b[i - 1] = p[i - 1] /\ q[(i - 1) + 1] = p[i - 1]
          BY <3>1, <3>3, <5>1
        <5> QED BY <3>2, <5>1, <5>2, <5>3
      <4> QED BY <4>1, <4>2
    <3>8. a = d
      BY <3>2, <3>5, <3>6, <3>7, SeqEqual
    <3> QED BY <3>8 DEF a, b, d, p, q
  <2>6. hidden(m) = [path |-> <<s>> \o SubSeq(l.path, 1, c), leaf |-> REDACTED]
    <3>1. after # {}
      BY <2>4
    <3> HIDE DEF after, m, bare
    <3> QED BY <1>1, <2>4, <2>5, <3>1
  <2>7. hidden(l) = [path |-> SubSeq(l.path, 1, c), leaf |-> REDACTED]
    <3> HIDE DEF cuts, bare
    <3> QED BY <1>1, <1>8, <2>3
  <2>8. Longer(s, hidden(l)) = [path |-> <<s>> \o SubSeq(l.path, 1, c), leaf |-> REDACTED]
    BY <2>7 DEF Longer
  <2> QED BY <1>8, <2>6, <2>8
<1> QED BY <1>6, <1>7, <1>8

\* What leads to the leaves of a value at a place in another, hidden.
LEMMA LedHidden ==
    ASSUME NEW v \in Payload, NEW i \in Places(v), NEW ls \in SUBSET LeafOf, ls # {}
    PROVE  {hidden(l) : l \in Led(v, i, ls)} =
                IF Opens(step(v, i), DEFAULT_FORBIDDEN)
                THEN {[path |-> <<step(v, i)>>, leaf |-> REDACTED]}
                ELSE Led(v, i, {hidden(l) : l \in ls})
<1> DEFINE s == step(v, i)
<1>1. s \in Step
  BY StepTyped
<1>2. \A ms : Led(v, i, ms) = {Longer(s, l) : l \in ms}
  BY DEF Led, Longer
<1> HIDE DEF s
<1>3. \A l \in ls : hidden(Longer(s, l)) = IF Opens(s, DEFAULT_FORBIDDEN)
                                           THEN [path |-> <<s>>, leaf |-> REDACTED]
                                           ELSE Longer(s, hidden(l))
  BY <1>1, HiddenLonger
<1>4. {hidden(l) : l \in Led(v, i, ls)} = {hidden(Longer(s, l)) : l \in ls}
  BY <1>2
<1>5. CASE Opens(s, DEFAULT_FORBIDDEN)
  BY <1>3, <1>4, <1>5 DEF s
<1>6. CASE ~Opens(s, DEFAULT_FORBIDDEN)
  <2>1. Led(v, i, {hidden(l) : l \in ls}) = {Longer(s, hidden(l)) : l \in ls}
    BY <1>2
  <2>2. {hidden(l) : l \in Led(v, i, ls)} = {Longer(s, hidden(l)) : l \in ls}
    BY <1>3, <1>4, <1>6
  <2> QED BY <1>6, <2>1, <2>2 DEF s
<1> QED BY <1>5, <1>6

\* A value that is not nested, and what walk makes of it.
LEMMA WalkOfFlat ==
    ASSUME NEW v \in Payload, kind(v) \notin {"array", "object"} \/ content(v) = <<>>
    PROVE  /\ leaves[v] = {[path |-> <<>>, leaf |-> v]}
           /\ leaves[walk[v]] = {hidden([path |-> <<>>, leaf |-> v])}
           /\ assertRedacted[v] = TRUE /\ assertRedacted[walk[v]] = TRUE
<1> DEFINE made == CASE kind(v) = "PIIString" -> REDACTED
                     [] kind(v) = "bigint" -> Str(content(v))
                     [] kind(v) = "Date" -> Obj(<<>>)
                     [] OTHER -> v
<1>1. leaves[v] = {[path |-> <<>>, leaf |-> v]}
  BY LeavesRule DEF LeavesInto
<1>2. walk[v] = made
  <2>1. CASE kind(v) \notin {"array", "object"}
    BY <2>1, WalkRule DEF walkInto
  <2>2. CASE kind(v) \in {"array", "object"}
    <3>1. content(v) = <<>> /\ DOMAIN content(v) = {}
      BY <2>2
    <3>2. \A f : DOMAIN f = {} /\ f = [i \in {} |-> f[i]] => f = <<>>
      OBVIOUS
    <3>3. [i \in DOMAIN content(v) |-> walk[content(v)[i]]] = <<>>
      BY <3>1
    <3>4. [i \in DOMAIN content(v) |->
                LET k == content(v)[i][1] IN
                <<k, IF k \in DEFAULT_FORBIDDEN THEN REDACTED ELSE walk[content(v)[i][2]]>>] = <<>>
      BY <3>1
    <3>5. walkInto(v, walk) = <<kind(v), <<>>>>
      BY <2>2, <3>3, <3>4 DEF walkInto, Arr, Obj
    <3>6. v = <<kind(v), content(v)>>
      BY <2>2, PayloadCases DEF Arr, Obj
    <3> QED BY <2>2, <3>1, <3>5, <3>6, WalkRule
  <2> QED BY <2>1, <2>2
<1>3. walk[v] \in Payload
  BY WalkRule
<1>4. kind(walk[v]) \notin {"array", "object"} \/ content(walk[v]) = <<>>
  BY <1>2 DEF REDACTED, Str, Obj, kind, content
<1>5. leaves[walk[v]] = {[path |-> <<>>, leaf |-> walk[v]]}
  BY <1>3, <1>4, LeavesRule DEF LeavesInto
<1>6. hidden([path |-> <<>>, leaf |-> v]) = [path |-> <<>>, leaf |-> made]
  <2>1. keysOf([path |-> <<>>, leaf |-> v], DEFAULT_FORBIDDEN) = {}
    BY DEF keysOf
  <2> QED BY <2>1 DEF hidden
<1>7. \A w \in Payload : kind(w) \notin {"array", "object"} \/ content(w) = <<>> => assertRedacted[w] = TRUE
  <2> SUFFICES ASSUME NEW w \in Payload, kind(w) \notin {"array", "object"} \/ content(w) = <<>>
               PROVE  assertRedacted[w] = TRUE
    OBVIOUS
  <2>1. kind(w) = "object" => DOMAIN content(w) = {}
    OBVIOUS
  <2>2. Accepts(w, assertRedacted) = TRUE
    BY <2>1 DEF Accepts
  <2> QED BY <2>2, AcceptsRule
<1> HIDE DEF made
<1> QED BY <1>1, <1>2, <1>3, <1>4, <1>5, <1>6, <1>7

\* A value that is nested, and what walk makes of it: the steps into it are the
\* same, and what is under a forbidden key is hidden.
LEMMA WalkOfNested ==
    ASSUME NEW v \in Payload, kind(v) \in {"array", "object"}, content(v) # <<>>
    PROVE  /\ walk[v] \in Payload /\ kind(walk[v]) = kind(v) /\ content(walk[v]) # <<>>
           /\ DOMAIN content(walk[v]) = DOMAIN content(v)
           /\ \A i \in Places(v) :
                /\ step(walk[v], i) = step(v, i)
                /\ child(walk[v], i) = IF Opens(step(v, i), DEFAULT_FORBIDDEN) THEN REDACTED
                                       ELSE walk[child(v, i)]
<1>1. walk[v] \in Payload /\ walk[v] = walkInto(v, walk)
  BY WalkRule
<1>2. CASE kind(v) = "array"
  <2> DEFINE c == content(v)
             s == [i \in DOMAIN c |-> walk[c[i]]]
  <2>1. walk[v] = <<"array", s>>
    BY <1>1, <1>2 DEF walkInto, Arr
  <2>2. kind(walk[v]) = "array" /\ content(walk[v]) = s
    BY <2>1 DEF kind, content
  <2>3. DOMAIN s = DOMAIN c
    OBVIOUS
  <2>4. s # <<>>
    <3>1. c \in Seq(Payload) /\ c # <<>>
      BY <1>2, PayloadCases
    <3>2. 1 \in DOMAIN c
      <4> HIDE DEF c
      <4> QED BY <3>1
    <3>3. 1 \notin DOMAIN <<>>
      OBVIOUS
    <3> QED BY <2>3, <3>2, <3>3
  <2>5. ASSUME NEW i \in Places(v)
        PROVE  /\ step(walk[v], i) = step(v, i)
               /\ child(walk[v], i) = IF Opens(step(v, i), DEFAULT_FORBIDDEN) THEN REDACTED
                                      ELSE walk[child(v, i)]
    <3>1. i \in DOMAIN c
      BY <1>2 DEF Places
    <3>2. child(walk[v], i) = walk[child(v, i)]
      BY <1>2, <2>2, <3>1 DEF child
    <3> QED BY <1>2, <2>2, <3>2 DEF step, Opens
  <2> QED BY <1>1, <1>2, <2>2, <2>3, <2>4, <2>5
<1>3. CASE kind(v) = "object"
  <2> DEFINE c == content(v)
             s == [i \in DOMAIN c |->
                    LET k == c[i][1] IN <<k, IF k \in DEFAULT_FORBIDDEN THEN REDACTED ELSE walk[c[i][2]]>>]
  <2>1. walk[v] = <<"object", s>>
    BY <1>1, <1>3 DEF walkInto, Obj
  <2>2. kind(walk[v]) = "object" /\ content(walk[v]) = s
    BY <2>1 DEF kind, content
  <2>3. DOMAIN s = DOMAIN c
    OBVIOUS
  <2>4. s # <<>>
    <3>1. c \in Seq(Key \X Payload) /\ c # <<>>
      BY <1>3, PayloadCases
    <3>2. 1 \in DOMAIN c
      <4> HIDE DEF c, Key
      <4> QED BY <3>1
    <3>3. 1 \notin DOMAIN <<>>
      OBVIOUS
    <3> QED BY <2>3, <3>2, <3>3
  <2>5. ASSUME NEW i \in Places(v)
        PROVE  /\ step(walk[v], i) = step(v, i)
               /\ child(walk[v], i) = IF Opens(step(v, i), DEFAULT_FORBIDDEN) THEN REDACTED
                                      ELSE walk[child(v, i)]
    <3>1. i \in DOMAIN c
      BY <1>3 DEF Places
    <3>2. s[i][1] = c[i][1] /\ s[i][2] = IF c[i][1] \in DEFAULT_FORBIDDEN THEN REDACTED ELSE walk[c[i][2]]
      BY <3>1
    <3>3. step(v, i) = <<"key", c[i][1]>> /\ child(v, i) = c[i][2]
      BY <1>3 DEF step, child
    <3>4. step(walk[v], i) = <<"key", s[i][1]>> /\ child(walk[v], i) = s[i][2]
      BY <2>2 DEF step, child
    <3>5. Opens(step(v, i), DEFAULT_FORBIDDEN) <=> c[i][1] \in DEFAULT_FORBIDDEN
      BY <3>3 DEF Opens
    <3> HIDE DEF c, s
    <3> QED BY <3>2, <3>3, <3>4, <3>5
  <2> QED BY <1>1, <1>3, <2>2, <2>3, <2>4, <2>5
<1> QED BY <1>2, <1>3

LEMMA LeavesOfNested ==
    ASSUME NEW v \in Payload, kind(v) \in {"array", "object"}, content(v) # <<>>
    PROVE  leaves[v] = UNION {Led(v, i, leaves[child(v, i)]) : i \in Places(v)}
BY LeavesRule DEF LeavesInto, Places

\* The leaves of what walk makes are those of the value, hidden.
LEMMA LeavesWalked == \A v \in Payload : leaves[walk[v]] = {hidden(l) : l \in leaves[v]}
<1> DEFINE A == {v \in Payload : leaves[walk[v]] = {hidden(l) : l \in leaves[v]}}
<1>1. ASSUME NEW v \in Payload, \A i \in Places(v) : child(v, i) \in A PROVE v \in A
  <2>1. CASE kind(v) \notin {"array", "object"} \/ content(v) = <<>>
    BY <2>1, WalkOfFlat
  <2>2. CASE ~(kind(v) \notin {"array", "object"} \/ content(v) = <<>>)
    <3> DEFINE w == walk[v]
    <3>1. /\ w \in Payload /\ kind(w) \in {"array", "object"} /\ content(w) # <<>>
          /\ Places(w) = Places(v)
          /\ \A i \in Places(v) :
                /\ step(w, i) = step(v, i)
                /\ child(w, i) = IF Opens(step(v, i), DEFAULT_FORBIDDEN) THEN REDACTED
                                 ELSE walk[child(v, i)]
      BY <2>2, WalkOfNested DEF Places
    <3>2. leaves[v] = UNION {Led(v, i, leaves[child(v, i)]) : i \in Places(v)}
      BY <2>2, LeavesOfNested
    <3>3. leaves[w] = UNION {Led(w, i, leaves[child(w, i)]) : i \in Places(v)}
      BY <3>1, LeavesOfNested
    <3>4. ASSUME NEW i \in Places(v)
          PROVE  Led(w, i, leaves[child(w, i)]) = {hidden(l) : l \in Led(v, i, leaves[child(v, i)])}
      <4>1. child(v, i) \in Payload
        BY PayloadCases
      <4>2. leaves[child(v, i)] # {} /\ leaves[child(v, i)] \in SUBSET LeafOf
        BY <4>1, LeavesThere, LeavesRule
      <4>3. \A ls : Led(w, i, ls) = Led(v, i, ls)
        BY <3>1 DEF Led
      <4> HIDE DEF w
      <4>4. CASE Opens(step(v, i), DEFAULT_FORBIDDEN)
        <5>1. leaves[child(w, i)] = {[path |-> <<>>, leaf |-> REDACTED]}
          <6>1. child(w, i) = REDACTED /\ child(w, i) \in Payload
            BY <3>1, <4>4, PayloadCases
          <6>2. kind(REDACTED) = "string"
            BY DEF REDACTED, Str, kind
          <6> QED BY <6>1, <6>2, LeavesRule DEF LeavesInto
        <5>2. Led(v, i, leaves[child(w, i)]) = {[path |-> <<step(v, i)>> \o <<>>, leaf |-> REDACTED]}
          <6> DEFINE e == [path |-> <<>>, leaf |-> REDACTED]
          <6>1. \A x : Led(v, i, {x}) = {[path |-> <<step(v, i)>> \o x.path, leaf |-> x.leaf]}
            BY DEF Led
          <6>2. e.path = <<>> /\ e.leaf = REDACTED
            OBVIOUS
          <6>3. leaves[child(w, i)] = {e}
            BY <5>1
          <6> HIDE DEF e
          <6> QED BY <6>1, <6>2, <6>3
        <5>3. <<step(v, i)>> \o <<>> = <<step(v, i)>>
          <6>1. <<step(v, i)>> \in Seq(Step)
            BY StepTyped
          <6> QED BY <6>1, ConcatEmptySeq
        <5>4. {hidden(l) : l \in Led(v, i, leaves[child(v, i)])} = {[path |-> <<step(v, i)>>, leaf |-> REDACTED]}
          BY <4>2, <4>4, LedHidden
        <5> QED BY <4>3, <5>2, <5>3, <5>4
      <4>5. CASE ~Opens(step(v, i), DEFAULT_FORBIDDEN)
        <5>1. leaves[child(w, i)] = {hidden(l) : l \in leaves[child(v, i)]}
          <6>1. child(w, i) = walk[child(v, i)]
            BY <3>1, <4>5
          <6> QED BY <1>1, <6>1
        <5>2. {hidden(l) : l \in Led(v, i, leaves[child(v, i)])} = Led(v, i, {hidden(l) : l \in leaves[child(v, i)]})
          BY <4>2, <4>5, LedHidden
        <5>3. Led(w, i, leaves[child(w, i)]) = Led(v, i, {hidden(l) : l \in leaves[child(v, i)]})
          BY <4>3, <5>1
        <5> QED BY <5>2, <5>3
      <4> QED BY <4>4, <4>5
    <3> HIDE DEF w
    <3>5. leaves[w] = {hidden(l) : l \in leaves[v]}
      <4>1. {hidden(l) : l \in leaves[v]} =
                UNION {{hidden(l) : l \in Led(v, i, leaves[child(v, i)])} : i \in Places(v)}
        BY <3>2
      <4> QED BY <3>3, <3>4, <4>1
    <3> QED BY <3>5 DEF w
  <2> QED BY <2>1, <2>2
<1> HIDE DEF A
<1>2. Payload \subseteq A
  BY <1>1, PayloadInduction
<1> QED BY <1>2 DEF A

\* A path that meets no forbidden key before an array.
Sheltered(l) == \A i \in keysOf(l, FORBIDDEN_KEYS) : \E j \in 1..i : l.path[j][1] = "index"

LEMMA ShelteredLonger ==
    ASSUME NEW l \in LeafOf, NEW s \in Step
    PROVE  Sheltered(Longer(s, l)) <=>
            s[1] = "index" \/ (~Opens(s, FORBIDDEN_KEYS) /\ Sheltered(l))
<1> DEFINE m == Longer(s, l)
           K == FORBIDDEN_KEYS
<1>1. /\ Len(l.path) \in Nat /\ m.path[1] = s
      /\ \A i \in 1..Len(l.path) : m.path[i + 1] = l.path[i]
      /\ 1 \in keysOf(m, K) <=> Opens(s, K)
      /\ \A i \in Nat \ {0} : i + 1 \in keysOf(m, K) <=> i \in keysOf(l, K)
      /\ keysOf(l, K) \subseteq 1..Len(l.path) /\ keysOf(m, K) \subseteq 1..(Len(l.path) + 1)
  BY LongerPath DEF keysOf
<1>2. s[1] = "index" \/ s[1] = "key"
  BY DEF Step
<1> HIDE DEF m, K
<1>3. CASE s[1] = "index"
  <2>1. \A i \in keysOf(m, K) : 1 \in 1..i
    BY <1>1
  <2> QED BY <1>1, <1>3, <2>1 DEF Sheltered, m, K
<1>4. CASE s[1] = "key"
  <2>1. ASSUME Sheltered(m) PROVE ~Opens(s, K) /\ Sheltered(l)
    <3>1. ~Opens(s, K)
      <4> SUFFICES ASSUME 1 \in keysOf(m, K) PROVE FALSE
        BY <1>1
      <4>1. \E j \in 1..1 : m.path[j][1] = "index"
        BY <2>1 DEF Sheltered, K
      <4>2. m.path[1][1] = "index"
        BY <4>1
      <4> QED BY <1>1, <1>4, <4>2
    <3>2. ASSUME NEW i \in keysOf(l, K) PROVE \E j \in 1..i : l.path[j][1] = "index"
      <4>1. i \in 1..Len(l.path) /\ i + 1 \in keysOf(m, K)
        BY <1>1
      <4>2. PICK j \in 1..(i + 1) : m.path[j][1] = "index"
        BY <2>1, <4>1 DEF Sheltered, K
      <4>3. j # 1
        BY <1>1, <1>4, <4>2
      <4>4. j - 1 \in 1..i /\ j - 1 \in 1..Len(l.path) /\ (j - 1) + 1 = j
        BY <1>1, <4>1, <4>3
      <4>5. l.path[j - 1][1] = "index"
        BY <1>1, <4>2, <4>4
      <4> QED BY <4>4, <4>5
    <3> QED BY <3>1, <3>2 DEF Sheltered, K
  <2>2. ASSUME ~Opens(s, K), Sheltered(l) PROVE Sheltered(m)
    <3> SUFFICES ASSUME NEW i \in keysOf(m, K) PROVE \E j \in 1..i : m.path[j][1] = "index"
      BY DEF Sheltered, K
    <3>1. i \in Nat /\ i >= 1 /\ i # 1
      <4>1. i \in 1..(Len(l.path) + 1) /\ Len(l.path) \in Nat
        BY <1>1
      <4>2. i # 1
        BY <1>1, <2>2
      <4> QED BY <4>1, <4>2
    <3>2. i - 1 \in Nat \ {0} /\ (i - 1) + 1 = i
      BY <3>1
    <3>3. i - 1 \in keysOf(l, K)
      BY <1>1, <3>2
    <3>4. PICK j \in 1..(i - 1) : l.path[j][1] = "index"
      BY <2>2, <3>3 DEF Sheltered, K
    <3>5. j \in 1..Len(l.path) /\ j + 1 \in 1..i
      <4>1. i - 1 \in 1..Len(l.path) /\ Len(l.path) \in Nat
        BY <1>1, <3>3
      <4>2. j \in 1..(i - 1)
        BY <3>4
      <4> QED BY <3>1, <4>1, <4>2
    <3>6. m.path[j + 1][1] = "index"
      BY <1>1, <3>4, <3>5
    <3> QED BY <3>5, <3>6
  <2> QED BY <1>4, <2>1, <2>2 DEF m, K
<1> QED BY <1>2, <1>3, <1>4 DEF m, K

\* assertRedacted accepts what shelters every forbidden key in an array.
LEMMA AcceptedIsSheltered ==
    \A v \in Payload : assertRedacted[v] <=> \A l \in leaves[v] : Sheltered(l)
<1> DEFINE A == {v \in Payload : assertRedacted[v] <=> \A l \in leaves[v] : Sheltered(l)}
<1>1. ASSUME NEW v \in Payload, \A i \in Places(v) : child(v, i) \in A PROVE v \in A
  <2>1. CASE kind(v) \notin {"array", "object"} \/ content(v) = <<>>
    <3>1. Sheltered([path |-> <<>>, leaf |-> v])
      BY DEF Sheltered, keysOf
    <3> QED BY <2>1, <3>1, WalkOfFlat
  <2>2. CASE ~(kind(v) \notin {"array", "object"} \/ content(v) = <<>>)
    <3>1. leaves[v] = UNION {Led(v, i, leaves[child(v, i)]) : i \in Places(v)}
      BY <2>2, LeavesOfNested
    <3>2. ASSUME NEW i \in Places(v)
          PROVE  (\A l \in Led(v, i, leaves[child(v, i)]) : Sheltered(l)) <=>
                    \/ kind(v) = "array"
                    \/ content(v)[i][1] \notin FORBIDDEN_KEYS /\ assertRedacted[child(v, i)]
      <4> DEFINE ls == leaves[child(v, i)]
                 s == step(v, i)
      <4>1. ls # {} /\ ls \in SUBSET LeafOf /\ s \in Step
        BY PayloadCases, LeavesThere, LeavesRule, StepTyped
      <4>2. assertRedacted[child(v, i)] <=> \A l \in ls : Sheltered(l)
        BY <1>1
      <4>3. Led(v, i, ls) = {Longer(s, l) : l \in ls}
        BY DEF Led, Longer
      <4> HIDE DEF ls, s
      <4>4. (\A l \in Led(v, i, ls) : Sheltered(l)) <=>
                s[1] = "index" \/ (~Opens(s, FORBIDDEN_KEYS) /\ \A l \in ls : Sheltered(l))
        BY <4>1, <4>3, ShelteredLonger
      <4>5. s[1] = "index" <=> kind(v) = "array"
        BY DEF s, step
      <4>6. kind(v) # "array" => (Opens(s, FORBIDDEN_KEYS) <=> content(v)[i][1] \in FORBIDDEN_KEYS)
        BY DEF s, step, Opens
      <4> QED BY <4>2, <4>4, <4>5, <4>6 DEF ls
    <3>3. assertRedacted[v] = Accepts(v, assertRedacted)
      BY AcceptsRule
    <3>4. (\A l \in leaves[v] : Sheltered(l)) <=>
            \A i \in Places(v) : \A l \in Led(v, i, leaves[child(v, i)]) : Sheltered(l)
      BY <3>1
    <3>5. CASE kind(v) = "array"
      BY <3>2, <3>3, <3>4, <3>5 DEF Accepts
    <3>6. CASE kind(v) = "object"
      <4>1. \A i \in Places(v) : child(v, i) = content(v)[i][2]
        BY <3>6 DEF child
      <4>2. Places(v) = DOMAIN content(v)
        BY <3>6 DEF Places
      <4>3. assertRedacted[v] <=> \A i \in Places(v) : /\ content(v)[i][1] \notin FORBIDDEN_KEYS
                                                       /\ assertRedacted[child(v, i)]
        BY <3>3, <3>6, <4>1, <4>2 DEF Accepts
      <4> QED BY <3>2, <3>4, <3>6, <4>3
    <3> QED BY <2>2, <3>5, <3>6
  <2> QED BY <2>1, <2>2
<1> HIDE DEF A
<1>2. Payload \subseteq A
  BY <1>1, PayloadInduction
<1> QED BY <1>2 DEF A

\* What is accepted still is when it is redacted.
LEMMA AcceptedWalked == \A v \in Payload : assertRedacted[v] => assertRedacted[walk[v]]
<1> DEFINE A == {v \in Payload : assertRedacted[v] => assertRedacted[walk[v]]}
<1>1. ASSUME NEW v \in Payload, \A i \in Places(v) : child(v, i) \in A PROVE v \in A
  <2>1. CASE kind(v) \notin {"array", "object"} \/ content(v) = <<>>
    BY <2>1, WalkOfFlat
  <2>2. CASE ~(kind(v) \notin {"array", "object"} \/ content(v) = <<>>)
    <3> DEFINE w == walk[v]
    <3>1. /\ w \in Payload /\ kind(w) = kind(v) /\ DOMAIN content(w) = DOMAIN content(v)
          /\ Places(w) = Places(v)
          /\ \A i \in Places(v) :
                /\ step(w, i) = step(v, i)
                /\ child(w, i) = IF Opens(step(v, i), DEFAULT_FORBIDDEN) THEN REDACTED
                                 ELSE walk[child(v, i)]
      BY <2>2, WalkOfNested DEF Places
    <3> HIDE DEF w
    <3>2. assertRedacted[v] = Accepts(v, assertRedacted) /\ assertRedacted[w] = Accepts(w, assertRedacted)
      BY <3>1, AcceptsRule
    <3>3. CASE kind(v) = "array"
      <4>1. assertRedacted[w] = TRUE
        BY <3>1, <3>2, <3>3 DEF Accepts
      <4> QED BY <4>1 DEF w
    <3>4. CASE kind(v) = "object"
      <4> SUFFICES ASSUME assertRedacted[v] PROVE assertRedacted[w]
        BY DEF w
      <4>1. ASSUME NEW i \in DOMAIN content(w)
            PROVE  content(w)[i][1] \notin FORBIDDEN_KEYS /\ assertRedacted[content(w)[i][2]]
        <5>1. i \in Places(v) /\ i \in DOMAIN content(v)
          BY <3>1, <3>4 DEF Places
        <5>2. content(v)[i][1] \notin FORBIDDEN_KEYS /\ assertRedacted[child(v, i)]
          BY <3>2, <3>4, <5>1 DEF Accepts, child
        <5>3. content(w)[i][1] = content(v)[i][1]
          <6>1. <<"key", content(w)[i][1]>> = <<"key", content(v)[i][1]>>
            BY <3>1, <3>4, <5>1 DEF step
          <6> QED BY <6>1
        <5>4. child(w, i) = content(w)[i][2]
          BY <3>1, <3>4 DEF child
        <5>5. child(w, i) \in Payload
          BY <3>1, <5>1, PayloadCases
        <5>6. CASE Opens(step(v, i), DEFAULT_FORBIDDEN)
          <6>1. child(w, i) = REDACTED /\ kind(REDACTED) = "string"
            BY <3>1, <5>1, <5>6 DEF REDACTED, Str, kind
          <6>2. assertRedacted[child(w, i)] = TRUE
            BY <5>5, <6>1, AcceptsRule DEF Accepts
          <6> QED BY <5>2, <5>3, <5>4, <6>2
        <5>7. CASE ~Opens(step(v, i), DEFAULT_FORBIDDEN)
          <6>1. assertRedacted[walk[child(v, i)]]
            BY <1>1, <5>1, <5>2
          <6> QED BY <3>1, <5>1, <5>2, <5>3, <5>4, <5>7, <6>1
        <5> QED BY <5>6, <5>7
      <4> QED BY <3>2, <4>1 DEF Accepts
    <3> QED BY <2>2, <3>3, <3>4
  <2> QED BY <2>1, <2>2
<1> HIDE DEF A
<1>2. Payload \subseteq A
  BY <1>1, PayloadInduction
<1> QED BY <1>2 DEF A

\* Redaction is exact for every payload.
LEMMA RedactionsAreExact == \A v \in Payload : RedactionExact(v)
<1> SUFFICES ASSUME NEW v \in Payload PROVE RedactionExact(v)
  OBVIOUS
<1>1. leaves[walk[v]] = {hidden(l) : l \in leaves[v]}
  BY LeavesWalked
<1>2. assertRedacted[v] <=> \A l \in leaves[v] : \A i \in keysOf(l, FORBIDDEN_KEYS) :
            \E j \in 1..i : l.path[j][1] = "index"
  BY AcceptedIsSheltered DEF Sheltered
<1>3. (\E l \in leaves[v] : \E i \in keysOf(l, FORBIDDEN_KEYS) :
            \A j \in 1..i : l.path[j][1] = "key") => ~assertRedacted[v]
  BY <1>2
<1>4. ~assertRedacted[v] => \E l \in leaves[v] : keysOf(l, FORBIDDEN_KEYS) # {}
  BY <1>2
<1>5. assertRedacted[v] => assertRedacted[walk[v]]
  BY AcceptedWalked
<1> QED BY <1>1, <1>3, <1>4, <1>5 DEF RedactionExact

-----------------------------------------------------------------------------
(* Canonical texts.                                                         *)

Token == Text \cup Punctuation

\* A sequence with a first entry, and what follows it.
Heads(S, a, s) == <<a>> \o s \in Seq(S) /\ <<a>> \o s # <<>> /\ (<<a>> \o s)[1] = a
SameRest(a, s, b, t) == <<a>> \o s = <<b>> \o t => a = b /\ s = t

LEMMA FirstAndRest ==
    ASSUME NEW S, NEW a \in S, NEW s \in Seq(S)
    PROVE  Heads(S, a, s)
<1>1. <<a>> \in Seq(S) /\ Len(<<a>>) = 1 /\ <<a>>[1] = a
  OBVIOUS
<1>2. /\ <<a>> \o s \in Seq(S)
      /\ Len(<<a>> \o s) = Len(<<a>>) + Len(s)
      /\ \A i \in 1..Len(<<a>>) : (<<a>> \o s)[i] = <<a>>[i]
  BY <1>1, Joined
<1>3. Len(s) \in Nat /\ Len(<<>>) = 0
  OBVIOUS
<1>4. Len(<<a>> \o s) # 0 /\ (<<a>> \o s)[1] = a
  BY <1>1, <1>2, <1>3
<1> QED BY <1>2, <1>3, <1>4 DEF Heads

\* Sequences that begin with one entry each are the same only if all is.
LEMMA RestSame ==
    ASSUME NEW S, NEW a \in S, NEW b \in S, NEW s \in Seq(S), NEW t \in Seq(S)
    PROVE  SameRest(a, s, b, t)
<1>1. <<a>> \in Seq(S)
  OBVIOUS
<1>2. Heads(S, a, s) /\ Heads(S, b, t)
  BY FirstAndRest
<1>3. ASSUME <<a>> \o s = <<b>> \o t PROVE a = b /\ s = t
  <2>1. a = b
    BY <1>2, <1>3 DEF Heads
  <2>2. <<a>> \o s = <<a>> \o t
    BY <1>3, <2>1
  <2>3. s = t
    BY <1>1, <2>2, ConcatSimplifications
  <2> QED BY <2>1, <2>3
<1> QED BY <1>3 DEF SameRest

\* What joining texts makes of the last of them, one after the other.
LEMMA JoinRule ==
    ASSUME NEW S, Comma \in S, NEW texts \in Seq(Seq(S))
    PROVE  /\ joined(texts) \in [0..Len(texts) -> Seq(S)]
           /\ joined(texts)[0] = <<>>
           /\ \A n \in 1..Len(texts) :
                joined(texts)[n] = texts[Len(texts) - n + 1]
                                   \o (IF n = 1 THEN <<>> ELSE <<Comma>> \o joined(texts)[n - 1])
<1> DEFINE L == Len(texts)
           after(n, x) == texts[L - n + 1] \o (IF n = 1 THEN <<>> ELSE <<Comma>> \o x)
           IsIt(g) == g = [n \in 0..L |-> IF n = 0 THEN <<>> ELSE after(n, g[n - 1])]
           next1(n, x) == IF n + 1 \in 1..L THEN after(n + 1, x) ELSE x
           stepOf == [n \in Nat |-> [x \in Seq(S) |-> next1(n, x)]]
<1>1. L \in Nat /\ \A n \in 1..L : texts[L - n + 1] \in Seq(S)
  OBVIOUS
<1>2. ASSUME NEW n \in 1..L, NEW x \in Seq(S) PROVE after(n, x) \in Seq(S)
  <2>1. <<Comma>> \in Seq(S) /\ <<>> \in Seq(S)
    OBVIOUS
  <2>2. <<Comma>> \o x \in Seq(S)
    BY <2>1, ConcatProperties
  <2>3. texts[L - n + 1] \in Seq(S)
    BY <1>1
  <2> HIDE DEF L
  <2>4. CASE n = 1
    BY <2>1, <2>3, <2>4, ConcatProperties
  <2>5. CASE n # 1
    BY <2>2, <2>3, <2>5, ConcatProperties
  <2> QED BY <2>4, <2>5
<1> HIDE DEF after, L
<1>3. stepOf \in [Nat -> [Seq(S) -> Seq(S)]]
  BY <1>2
<1>4. \A n \in Nat : \A x \in Seq(S) : n + 1 \in 1..L => stepOf[n][x] = after(n + 1, x)
  OBVIOUS
<1> HIDE DEF stepOf
<1>5. PICK f : Iteration(Seq(S), <<>>, stepOf, f)
  <2>1. <<>> \in Seq(S)
    OBVIOUS
  <2> QED BY <1>3, <2>1, Iterates
<1>6. f \in [Nat -> Seq(S)] /\ f[0] = <<>> /\ \A n \in Nat : f[n + 1] = stepOf[n][f[n]]
  BY <1>5 DEF Iteration
<1> DEFINE g == [n \in 0..L |-> f[n]]
<1>7. g \in [0..L -> Seq(S)] /\ g[0] = <<>> /\ 0 \in 0..L
  BY <1>1, <1>6
<1>8. ASSUME NEW n \in 0..L, n # 0 PROVE g[n] = after(n, g[n - 1])
  <2>1. n - 1 \in Nat /\ n - 1 \in 0..L /\ n = (n - 1) + 1 /\ (n - 1) + 1 \in 1..L
    BY <1>1, <1>8
  <2>2. f[(n - 1) + 1] = after((n - 1) + 1, f[n - 1])
    BY <1>4, <1>6, <2>1
  <2> QED BY <2>1, <2>2
<1> HIDE DEF g
<1>9. IsIt(g)
  BY <1>7, <1>8
<1>10. joined(texts) = CHOOSE h : IsIt(h)
  BY DEF joined, L, after
<1>11. IsIt(joined(texts))
  <2> HIDE DEF IsIt
  <2> QED BY <1>9, <1>10
<1> DEFINE h == joined(texts)
<1>12. h[0] = <<>> /\ \A n \in 1..L : h[n] = after(n, h[n - 1])
  <2>1. h = [n \in 0..L |-> IF n = 0 THEN <<>> ELSE after(n, h[n - 1])]
    BY <1>11
  <2>2. 0 \in 0..L /\ \A n \in 1..L : n \in 0..L /\ n # 0
    BY <1>1
  <2> HIDE DEF h
  <2> QED BY <2>1, <2>2
<1>13. \A n \in Nat : n <= L => h[n] \in Seq(S)
  <2> DEFINE T == {n \in Nat : n <= L => h[n] \in Seq(S)}
  <2>1. 0 \in T
    <3>1. <<>> \in Seq(S)
      OBVIOUS
    <3> HIDE DEF h
    <3> QED BY <1>12, <3>1
  <2>2. ASSUME NEW n \in T PROVE n + 1 \in T
    <3> SUFFICES ASSUME n + 1 <= L PROVE h[n + 1] \in Seq(S)
      OBVIOUS
    <3>1. n \in Nat /\ n + 1 \in 1..L /\ (n + 1) - 1 = n /\ h[n] \in Seq(S)
      BY <1>1
    <3>2. h[n + 1] = after(n + 1, h[n])
      BY <1>12, <3>1
    <3> HIDE DEF h
    <3> QED BY <1>2, <3>1, <3>2
  <2> HIDE DEF T
  <2>3. \A n \in Nat : n \in T
    <3>1. T \in SUBSET Nat
      BY DEF T
    <3> QED BY <2>1, <2>2, <3>1, SetInduction
  <2> QED BY <2>3 DEF T
<1>14. h \in [0..L -> Seq(S)]
  <2>1. \A n \in 0..L : h[n] \in Seq(S)
    BY <1>1, <1>13
  <2>2. h = [n \in 0..L |-> h[n]]
    <3>1. h = [n \in 0..L |-> IF n = 0 THEN <<>> ELSE after(n, h[n - 1])]
      BY <1>11
    <3> HIDE DEF h
    <3> QED BY <3>1
  <2> HIDE DEF h
  <2> QED BY <2>1, <2>2
<1> QED BY <1>12, <1>14 DEF after, L

\* What joining texts puts in front of what comes after them.
JoinOpening(S, texts, n, z) ==
    /\ joined(texts)[n] \o z = texts[Len(texts) - n + 1]
                               \o (IF n = 1 THEN z ELSE <<Comma>> \o (joined(texts)[n - 1] \o z))
    /\ texts[Len(texts) - n + 1] \in Seq(S)
    /\ n # 1 => joined(texts)[n - 1] \o z \in Seq(S)

LEMMA JoinOpens ==
    ASSUME NEW S, Comma \in S, NEW texts \in Seq(Seq(S)), NEW n \in 1..Len(texts), NEW z \in Seq(S)
    PROVE  JoinOpening(S, texts, n, z)
<1> DEFINE L == Len(texts)
           j == joined(texts)
           t == texts[L - n + 1]
<1>1. L \in Nat /\ t \in Seq(S) /\ n \in 1..L
  OBVIOUS
<1>2. j \in [0..L -> Seq(S)] /\ j[n] = t \o (IF n = 1 THEN <<>> ELSE <<Comma>> \o j[n - 1])
  BY JoinRule
<1> HIDE DEF L, j, t
<1>3. CASE n = 1
  <2>1. t \o <<>> = t
    BY <1>1, ConcatEmptySeq
  <2>2. j[n] \o z = t \o z
    BY <1>2, <1>3, <2>1
  <2> QED BY <1>1, <1>3, <2>2 DEF L, j, t, JoinOpening
<1>4. CASE n # 1
  <2>1. n - 1 \in 0..L
    BY <1>1, <1>4
  <2>2. j[n - 1] \in Seq(S)
    BY <1>2, <2>1
  <2> DEFINE r == j[n - 1]
  <2>3. <<Comma>> \in Seq(S)
    OBVIOUS
  <2>4. j[n] = t \o (<<Comma>> \o r)
    BY <1>2, <1>4
  <2>5. r \in Seq(S)
    BY <2>2
  <2> HIDE DEF r
  <2>6. <<Comma>> \o r \in Seq(S) /\ r \o z \in Seq(S)
    BY <2>3, <2>5, ConcatProperties
  <2> DEFINE q == <<Comma>> \o r
  <2>7. (t \o q) \o z = t \o (q \o z)
    <3>1. t \in Seq(S) /\ q \in Seq(S) /\ z \in Seq(S)
      BY <1>1, <2>6
    <3> HIDE DEF q
    <3> QED BY <3>1, ConcatAssociative
  <2>8. (<<Comma>> \o r) \o z = <<Comma>> \o (r \o z)
    BY <2>3, <2>5, ConcatAssociative
  <2>9. j[n] \o z = t \o (<<Comma>> \o (r \o z))
    BY <2>4, <2>7, <2>8
  <2> QED BY <1>1, <1>4, <2>6, <2>9 DEF L, j, t, r, JoinOpening
<1> QED BY <1>3, <1>4

\* What may come after a text in a list that c ends.
Continues(c, x) == x # <<>> /\ x[1] \in {Comma, c}

\* If texts tell each other apart, in front of what may come after them, then so
\* do lists of them.
TellsAt(a, x, b, y, c, related) ==
    Continues(c, x) /\ Continues(c, y) /\ a \o x = b \o y => related /\ x = y
Tells(S, A, B, c, R) ==
    \A i \in 1..Len(A), j \in 1..Len(B) : \A x, y \in Seq(S) :
        TellsAt(A[i], x, B[j], y, c, <<i, j>> \in R)

Told(A, B, c, R, k, m, x, y) ==
    joined(A)[k] \o (<<c>> \o x) = joined(B)[m] \o (<<c>> \o y) =>
        /\ k = m /\ x = y
        /\ \A i \in 1..k : <<Len(A) - i + 1, Len(B) - i + 1>> \in R

LEMMA JoinTells ==
    ASSUME NEW S, Comma \in S, NEW c \in S, c # Comma,
           NEW A \in Seq(Seq(S)), NEW B \in Seq(Seq(S)), NEW R, Tells(S, A, B, c, R)
    PROVE  \A k \in 1..Len(A), m \in 1..Len(B) : \A x, y \in Seq(S) : Told(A, B, c, R, k, m, x, y)
<1> DEFINE a == Len(A)
           b == Len(B)
           Holds(k, m, x, y) == 
                joined(A)[k] \o (<<c>> \o x) = joined(B)[m] \o (<<c>> \o y) =>
                    k = m /\ x = y /\ \A i \in 1..k : <<a - i + 1, b - i + 1>> \in R
           after(ts, n, x) == IF n = 1 THEN <<c>> \o x
                              ELSE <<Comma>> \o (joined(ts)[n - 1] \o (<<c>> \o x))
           T == {k \in Nat : k + 1 \in 1..a =>
                    \A m \in 1..b : \A x, y \in Seq(S) : Holds(k + 1, m, x, y)}
<1>1. a \in Nat /\ b \in Nat
  OBVIOUS
<1>2. ASSUME NEW x \in Seq(S)
      PROVE  <<c>> \o x \in Seq(S) /\ <<c>> \o x # <<>> /\ (<<c>> \o x)[1] = c
  BY FirstAndRest DEF Heads
<1>3. ASSUME NEW ts \in Seq(Seq(S)), NEW n \in 1..Len(ts), NEW x \in Seq(S)
      PROVE  /\ joined(ts)[n] \o (<<c>> \o x) = ts[Len(ts) - n + 1] \o after(ts, n, x)
             /\ after(ts, n, x) \in Seq(S) /\ Continues(c, after(ts, n, x))
             /\ after(ts, n, x)[1] = IF n = 1 THEN c ELSE Comma
             /\ n # 1 => joined(ts)[n - 1] \o (<<c>> \o x) \in Seq(S)
  <2> DEFINE z == <<c>> \o x
  <2>1. z \in Seq(S) /\ z # <<>> /\ z[1] = c
    BY <1>2
  <2> HIDE DEF z
  <2>2. /\ joined(ts)[n] \o z = ts[Len(ts) - n + 1]
                \o (IF n = 1 THEN z ELSE <<Comma>> \o (joined(ts)[n - 1] \o z))
        /\ n # 1 => joined(ts)[n - 1] \o z \in Seq(S)
    <3>1. Comma \in S /\ ts \in Seq(Seq(S)) /\ n \in 1..Len(ts) /\ z \in Seq(S)
      BY <2>1
    <3>2. JoinOpening(S, ts, n, z)
      BY <3>1, JoinOpens
    <3> QED BY <3>2 DEF JoinOpening
  <2>3. CASE n = 1
    BY <2>1, <2>2, <2>3 DEF Continues, z
  <2>4. CASE n # 1
    <3> DEFINE r == joined(ts)[n - 1] \o z
    <3>1. r \in Seq(S)
      BY <2>2, <2>4
    <3> HIDE DEF r
    <3>2. <<Comma>> \o r \in Seq(S) /\ <<Comma>> \o r # <<>> /\ (<<Comma>> \o r)[1] = Comma
      BY <3>1, FirstAndRest DEF Heads
    <3>3. after(ts, n, x) = <<Comma>> \o r
      BY <2>4 DEF r, z
    <3> HIDE DEF after
    <3> QED BY <2>2, <2>4, <3>1, <3>2, <3>3 DEF Continues, r, z
  <2> QED BY <2>3, <2>4
<1> HIDE DEF after
<1>4. ASSUME NEW k \in 1..a, NEW m \in 1..b, NEW x \in Seq(S), NEW y \in Seq(S),
             k # 1 => \A n \in 1..b : Holds(k - 1, n, x, y)
      PROVE  Holds(k, m, x, y)
  <2> SUFFICES ASSUME joined(A)[k] \o (<<c>> \o x) = joined(B)[m] \o (<<c>> \o y)
               PROVE  k = m /\ x = y /\ \A i \in 1..k : <<a - i + 1, b - i + 1>> \in R
    OBVIOUS
  <2>1. /\ A[a - k + 1] \o after(A, k, x) = B[b - m + 1] \o after(B, m, y)
        /\ after(A, k, x) \in Seq(S) /\ Continues(c, after(A, k, x))
        /\ after(B, m, y) \in Seq(S) /\ Continues(c, after(B, m, y))
        /\ after(A, k, x)[1] = IF k = 1 THEN c ELSE Comma
        /\ after(B, m, y)[1] = IF m = 1 THEN c ELSE Comma
    BY <1>3
  <2>2. a - k + 1 \in 1..Len(A) /\ b - m + 1 \in 1..Len(B)
    BY <1>1
  <2>3. <<a - k + 1, b - m + 1>> \in R /\ after(A, k, x) = after(B, m, y)
    <3> DEFINE i == a - k + 1
               j == b - m + 1
               X == after(A, k, x)
               Y == after(B, m, y)
    <3>1. /\ i \in 1..Len(A) /\ j \in 1..Len(B) /\ X \in Seq(S) /\ Y \in Seq(S)
          /\ Continues(c, X) /\ Continues(c, Y) /\ A[i] \o X = B[j] \o Y
      BY <2>1, <2>2
    <3> HIDE DEF i, j, X, Y
    <3>2. TellsAt(A[i], X, B[j], Y, c, <<i, j>> \in R)
      BY <3>1 DEF Tells
    <3>3. <<i, j>> \in R /\ X = Y
      BY <3>1, <3>2 DEF TellsAt
    <3> QED BY <3>3 DEF i, j, X, Y
  <2>4. k = 1 <=> m = 1
    BY <2>1, <2>3
  <2>5. CASE k = 1
    <3>1. <<c>> \o x = <<c>> \o y
      BY <2>3, <2>4, <2>5 DEF after
    <3>2. x = y
      <4>1. c \in S /\ x \in Seq(S) /\ y \in Seq(S)
        OBVIOUS
      <4>2. SameRest(c, x, c, y)
        BY <4>1, RestSame
      <4> QED BY <3>1, <4>2 DEF SameRest
    <3> QED BY <2>3, <2>4, <2>5, <3>2
  <2>6. CASE k # 1
    <3>1. <<Comma>> \o (joined(A)[k - 1] \o (<<c>> \o x)) = <<Comma>> \o (joined(B)[m - 1] \o (<<c>> \o y))
      BY <2>3, <2>4, <2>6 DEF after
    <3>2. joined(A)[k - 1] \o (<<c>> \o x) \in Seq(S) /\ joined(B)[m - 1] \o (<<c>> \o y) \in Seq(S)
      <4>1. A \in Seq(Seq(S)) /\ k \in 1..Len(A) /\ x \in Seq(S) /\ k # 1
        BY <2>6
      <4>2. B \in Seq(Seq(S)) /\ m \in 1..Len(B) /\ y \in Seq(S) /\ m # 1
        BY <2>4, <2>6
      <4> QED BY <1>3, <4>1, <4>2
    <3>3. joined(A)[k - 1] \o (<<c>> \o x) = joined(B)[m - 1] \o (<<c>> \o y)
      <4> DEFINE p == joined(A)[k - 1] \o (<<c>> \o x)
                 q == joined(B)[m - 1] \o (<<c>> \o y)
      <4>1. <<Comma>> \o p = <<Comma>> \o q /\ p \in Seq(S) /\ q \in Seq(S)
        BY <3>1, <3>2
      <4> HIDE DEF p, q
      <4>2. SameRest(Comma, p, Comma, q)
        BY <4>1, RestSame
      <4>3. p = q
        BY <4>1, <4>2 DEF SameRest
      <4> QED BY <4>3 DEF p, q
    <3>4. m - 1 \in 1..b /\ k \in Nat /\ m \in Nat
      BY <1>1, <2>4, <2>6
    <3>5. Holds(k - 1, m - 1, x, y)
      BY <1>4, <2>6, <3>4
    <3>6. k - 1 = m - 1 /\ x = y /\ \A i \in 1..(k - 1) : <<a - i + 1, b - i + 1>> \in R
      BY <3>3, <3>5
    <3>7. k = m
      BY <3>4, <3>6
    <3>8. \A i \in 1..k : i = k \/ i \in 1..(k - 1)
      BY <3>4
    <3> QED BY <2>3, <3>6, <3>7, <3>8
  <2> QED BY <2>5, <2>6
<1> HIDE DEF Holds
<1>5. 0 \in T
  BY <1>1, <1>4
<1>6. ASSUME NEW k \in T PROVE k + 1 \in T
  <2> SUFFICES ASSUME (k + 1) + 1 \in 1..a, NEW m \in 1..b, NEW x \in Seq(S), NEW y \in Seq(S)
               PROVE  Holds((k + 1) + 1, m, x, y)
    OBVIOUS
  <2>1. k \in Nat /\ k + 1 \in 1..a /\ ((k + 1) + 1) - 1 = k + 1
    BY <1>1
  <2>2. \A n \in 1..b : Holds(k + 1, n, x, y)
    BY <2>1
  <2> QED BY <1>4, <2>1, <2>2
<1> HIDE DEF T
<1>7. \A k \in Nat : k \in T
  <2>1. T \in SUBSET Nat
    BY DEF T
  <2> QED BY <1>5, <1>6, <2>1, SetInduction
<1>8. \A k \in 1..a, m \in 1..b : \A x, y \in Seq(S) : Holds(k, m, x, y)
  <2> SUFFICES ASSUME NEW k \in 1..a, NEW m \in 1..b, NEW x \in Seq(S), NEW y \in Seq(S)
               PROVE  Holds(k, m, x, y)
    OBVIOUS
  <2>1. k - 1 \in Nat /\ (k - 1) + 1 = k
    BY <1>1
  <2>2. k - 1 \in T
    BY <1>7, <2>1
  <2> QED BY <2>1, <2>2 DEF T
<1> QED BY <1>8 DEF Holds, Told

\* The signs that tell texts apart.
LEMMA TokensDiffer ==
    /\ Comma # EndBracket /\ Comma # EndBrace
    /\ "null" \notin {Comma, EndBracket, EndBrace} /\ Quote \notin {Comma, EndBracket, EndBrace}
    /\ Bracket \notin {Comma, EndBracket, EndBrace} /\ Brace \notin {Comma, EndBracket, EndBrace}
    /\ "null" \notin {Quote, Bracket, Brace} /\ Quote \notin {Bracket, Brace} /\ Bracket # Brace
BY Zenon DEF Quote, Comma, Bracket, EndBracket, Brace, EndBrace

LEMMA TokensThere ==
    /\ {"null", Quote, Comma, Colon, Bracket, EndBracket, Brace, EndBrace} \subseteq Token
    /\ Text \subseteq Token /\ Digits \subseteq Text
    /\ \A d \in Digits : /\ withSuffix(d) \in Text /\ d \notin NonFinite
                         /\ d \notin {"null", Quote, Comma, Bracket, EndBracket, Brace, EndBrace}
<1>1. Punctuation = {"null", Quote, Comma, Colon, Bracket, EndBracket, Brace, EndBrace}
  BY DEF Punctuation
<1>2. \A d \in Digits : d \in Text /\ d \notin NonFinite /\ d \notin Punctuation /\ withSuffix(d) \in Text
  BY PayloadAssumption
<1> QED BY <1>1, <1>2 DEF Token

\* Short texts.
LEMMA ShortTexts ==
    /\ <<>> \in Seq(Token)
    /\ \A a \in Token : <<a>> \in Seq(Token)
    /\ \A a, b \in Token : <<a, b>> \in Seq(Token)
    /\ \A a, b, c \in Token : <<a, b, c>> \in Seq(Token)
OBVIOUS

LEMMA JoinTyped ==
    ASSUME NEW S, Comma \in S, NEW texts \in Seq(Seq(S))
    PROVE  join(texts) \in Seq(S)
<1>1. joined(texts) \in [0..Len(texts) -> Seq(S)]
  BY JoinRule
<1>2. Len(texts) \in 0..Len(texts)
  OBVIOUS
<1> QED BY <1>1, <1>2 DEF join

\* The keys that are written, and their values.
LEMMA KeysWritten ==
    ASSUME NEW es
    PROVE  /\ sorted(es) \in Seq(Key)
           /\ \A i \in DOMAIN sorted(es) : sorted(es)[i] \in Key /\ has(es, sorted(es)[i])
           /\ \A k \in Key : has(es, k) => \E i \in DOMAIN sorted(es) : sorted(es)[i] = k
<1> DEFINE kept == {i \in DOMAIN KeyOrder : has(es, KeyOrder[i])}
           keys == sorted(es)
<1>1. KeyOrder \in Seq(Key) /\ DOMAIN KeyOrder = 1..Len(KeyOrder)
  BY PayloadAssumption DEF Key
<1>2. keys = Selected(KeyOrder, kept)
  BY DEF sorted
<1> HIDE DEF keys
<1>3. keys \in Seq(Key) /\ ToSet(keys) = {KeyOrder[i] : i \in kept \cap (1..Len(KeyOrder))}
  <2> HIDE DEF kept
  <2> QED BY <1>1, <1>2, SelectedType, SelectedEntries
<1>4. ToSet(keys) = {keys[i] : i \in DOMAIN keys}
  BY DEF ToSet
<1>5. ASSUME NEW i \in DOMAIN keys PROVE keys[i] \in Key /\ has(es, keys[i])
  <2>1. keys[i] \in Key
    BY <1>3
  <2>2. keys[i] \in ToSet(keys)
    BY <1>4
  <2>3. PICK j \in kept : keys[i] = KeyOrder[j]
    BY <1>3, <2>2
  <2> QED BY <2>1, <2>3
<1>6. ASSUME NEW k \in Key, has(es, k) PROVE \E i \in DOMAIN keys : keys[i] = k
  <2>1. PICK j \in DOMAIN KeyOrder : KeyOrder[j] = k
    BY DEF Key
  <2>2. k \in ToSet(keys)
    BY <1>1, <1>3, <1>6, <2>1
  <2> QED BY <1>4, <2>2
<1> QED BY <1>3, <1>5, <1>6 DEF keys

\* An entry that is written is found, and is the only one with its key.
LEMMA ValueFound ==
    ASSUME NEW es \in Entries(Payload), NEW k, has(es, k)
    PROVE  \E i \in 1..Len(es) : /\ es[i][1] = k /\ es[i][2] = valueOf(es, k)
                                 /\ valueOf(es, k) \in Payload
                                 /\ kind(valueOf(es, k)) # "undefined"
<1>1. es \in Seq(Key \X Payload) /\ \A i, j \in DOMAIN es : es[i][1] = es[j][1] => i = j
  BY DEF Entries
<1>2. PICK i \in DOMAIN es : es[i][1] = k /\ kind(es[i][2]) # "undefined"
  BY DEF has
<1>3. valueOf(es, k) = es[CHOOSE j \in DOMAIN es : es[j][1] = k][2]
  BY DEF valueOf
<1>4. (CHOOSE j \in DOMAIN es : es[j][1] = k) = i
  BY <1>1, <1>2
<1>5. valueOf(es, k) = es[i][2]
  BY <1>3, <1>4
<1>6. DOMAIN es = 1..Len(es) /\ es[i] \in Key \X Payload
  BY <1>1, <1>2
<1>7. es[i][2] \in Payload
  <2> HIDE DEF Payload, Key
  <2> QED BY <1>6
<1> QED BY <1>2, <1>5, <1>6, <1>7

-----------------------------------------------------------------------------
(* What stringify writes, given what it writes of what is in a value.        *)

\* Values with nothing inside, what they can mean, and how that is written.
Plain(v) == kind(v) \notin {"array", "object", "PIIString"}
Meaning == {Null, Undefined} \cup ({"string"} \X Text) \cup ({"number"} \X Digits)

PlainText(m) == CASE kind(m) = "null" -> <<"null">>
                  [] kind(m) = "undefined" -> <<>>
                  [] kind(m) = "string" -> Quoted(content(m))
                  [] OTHER -> <<content(m)>>

Texts(s, inner) == [i \in DOMAIN s |-> inner[s[i]]]
Item(k, x) == Quoted(k) \o <<Colon>> \o x
Items(es, inner) == [i \in DOMAIN sorted(es) |-> Item(sorted(es)[i], inner[valueOf(es, sorted(es)[i])])]

TextInto(v, inner) ==
    IF kind(v) = "array" THEN <<Bracket>> \o join(Texts(content(v), inner)) \o <<EndBracket>>
    ELSE IF kind(v) = "object" THEN <<Brace>> \o join(Items(content(v), inner)) \o <<EndBrace>>
    ELSE IF kind(v) = "PIIString" THEN <<Brace, EndBrace>>
    ELSE PlainText(meant(v))

LEMMA KindsOfScalars ==
    ASSUME NEW v \in Scalar
    PROVE  /\ v = Null => kind(v) = "null"
           /\ v = Undefined => kind(v) = "undefined"
           /\ \/ v = Null \/ v = Undefined
              \/ kind(v) \in {"string", "Date", "PIIString"} /\ content(v) \in Text
              \/ kind(v) = "number" /\ content(v) \in Digits \cup NonFinite
              \/ kind(v) = "bigint" /\ content(v) \in Digits
           /\ v = <<kind(v), content(v)>>
<1>1. CASE v = Null
  BY <1>1 DEF kind, content, Null, Undefined
<1>2. CASE v = Undefined
  BY <1>2 DEF kind, content, Null, Undefined
<1>3. kind(Null) = "null" /\ kind(Undefined) = "undefined"
  BY DEF kind, Null, Undefined
<1>4. CASE v \in {"string", "Date", "PIIString"} \X Text
  <2>1. kind(v) \in {"string", "Date", "PIIString"} /\ content(v) \in Text /\ v = <<kind(v), content(v)>>
    BY <1>4 DEF kind, content
  <2>2. v # Null /\ v # Undefined
    BY <1>3, <2>1
  <2> QED BY <2>1, <2>2
<1>5. CASE v \in {"number"} \X (Digits \cup NonFinite)
  <2>1. kind(v) = "number" /\ content(v) \in Digits \cup NonFinite /\ v = <<kind(v), content(v)>>
    BY <1>5 DEF kind, content
  <2>2. v # Null /\ v # Undefined
    BY <1>3, <2>1
  <2> QED BY <2>1, <2>2
<1>6. CASE v \in {"bigint"} \X Digits
  <2>1. kind(v) = "bigint" /\ content(v) \in Digits /\ v = <<kind(v), content(v)>>
    BY <1>6 DEF kind, content
  <2>2. v # Null /\ v # Undefined
    BY <1>3, <2>1
  <2> QED BY <2>1, <2>2
<1> QED BY <1>1, <1>2, <1>4, <1>5, <1>6 DEF Scalar

\* A plain value has a meaning and is written as what it means.
LEMMA PlainMeans ==
    ASSUME NEW v \in Payload, Plain(v)
    PROVE  /\ meant(v) \in Meaning
           /\ \A inner : stringifyInto(v, inner) = PlainText(meant(v))
           /\ PlainText(meant(v)) \in Seq(Token)
<1> DEFINE k == kind(v)
           c == content(v)
<1>1. v \in Scalar
  BY PayloadCases DEF Plain
<1>2. /\ v = Null => k = "null"
      /\ v = Undefined => k = "undefined"
      /\ \/ v = Null \/ v = Undefined
         \/ k \in {"string", "Date"} /\ c \in Text
         \/ k = "number" /\ c \in Digits \cup NonFinite
         \/ k = "bigint" /\ c \in Digits
      /\ v = <<k, c>>
  BY <1>1, KindsOfScalars DEF Plain
<1>3. \A x : kind(Str(x)) = "string" /\ content(Str(x)) = x /\ Str(x) = <<"string", x>>
  BY DEF kind, content, Str
<1>4. \A x \in Text : Quoted(x) \in Seq(Token)
  BY TokensThere, ShortTexts DEF Quoted
<1>5. kind(Null) = "null" /\ kind(Undefined) = "undefined"
  BY DEF kind, Null, Undefined
<1> HIDE DEF k, c
<1>6. CASE v = Null
  <2>1. k = "null" /\ meant(v) = v
    BY <1>2, <1>6 DEF meant, k
  <2> QED BY <1>6, <2>1, TokensThere, ShortTexts DEF stringifyInto, PlainText, Meaning, k
<1>7. CASE v = Undefined
  <2>1. k = "undefined" /\ meant(v) = v
    BY <1>2, <1>7 DEF meant, k
  <2> QED BY <1>7, <2>1, TokensThere, ShortTexts DEF stringifyInto, PlainText, Meaning, k
<1>8. CASE k = "string" /\ c \in Text
  <2>1. meant(v) = v
    BY <1>8 DEF meant, k
  <2>2. v \in {"string"} \X Text
    BY <1>2, <1>8
  <2> QED BY <1>4, <1>8, <2>1, <2>2 DEF stringifyInto, PlainText, Meaning, k, c
<1>9. CASE k = "Date" /\ c \in Text
  <2>1. meant(v) = Str(c)
    BY <1>9 DEF meant, k, c
  <2>2. Str(c) \in {"string"} \X Text
    BY <1>3, <1>9
  <2> QED BY <1>3, <1>4, <1>9, <2>1, <2>2 DEF stringifyInto, PlainText, Meaning, k, c
<1>10. CASE k = "bigint" /\ c \in Digits
  <2> DEFINE t == withSuffix(c)
  <2>1. meant(v) = Str(t) /\ t \in Text
    BY <1>10, TokensThere DEF meant, k, c
  <2> HIDE DEF t
  <2>2. Str(t) \in {"string"} \X Text
    BY <1>3, <2>1
  <2>3. \A inner : stringifyInto(v, inner) = Quoted(t)
    BY <1>10 DEF stringifyInto, k, c, t
  <2> QED BY <1>3, <1>4, <2>1, <2>2, <2>3 DEF PlainText, Meaning
<1>11. CASE k = "number" /\ c \in NonFinite
  <2>1. meant(v) = Null
    BY <1>11 DEF meant, k, c
  <2> QED BY <1>5, <1>11, <2>1, TokensThere, ShortTexts DEF stringifyInto, PlainText, Meaning, k, c
<1>12. CASE k = "number" /\ c \in Digits
  <2>1. c \notin NonFinite /\ c \in Token
    BY <1>12, TokensThere
  <2>2. meant(v) = v
    BY <1>12, <2>1 DEF meant, k, c
  <2>3. v \in {"number"} \X Digits
    BY <1>2, <1>12
  <2>4. \A inner : stringifyInto(v, inner) = <<c>>
    BY <1>12, <2>1 DEF stringifyInto, k, c
  <2>5. PlainText(v) = <<c>>
    BY <1>12 DEF PlainText, k, c
  <2> QED BY <2>1, <2>2, <2>3, <2>4, <2>5, ShortTexts DEF Meaning
<1> QED BY <1>2, <1>6, <1>7, <1>8, <1>9, <1>10, <1>11, <1>12

LEMMA StringifySame ==
    ASSUME NEW v \in Payload, NEW inner
    PROVE  stringifyInto(v, inner) = TextInto(v, inner)
<1>1. CASE kind(v) = "array"
  BY <1>1 DEF stringifyInto, TextInto, Texts
<1>2. CASE kind(v) = "object"
  BY <1>2 DEF stringifyInto, TextInto, Items, Item
<1>3. CASE kind(v) = "PIIString"
  BY <1>3 DEF stringifyInto, TextInto
<1>4. CASE Plain(v)
  BY <1>4, PlainMeans DEF TextInto, Plain
<1> QED BY <1>1, <1>2, <1>3, <1>4 DEF Plain

\* TextInto looks at what is in the value only.
LEMMA TextLooksInside ==
    ASSUME NEW v \in Payload, NEW f, NEW g, SameInside(v, f, g)
    PROVE  TextInto(v, f) = TextInto(v, g)
<1>1. CASE kind(v) = "array"
  <2>1. \A i \in DOMAIN content(v) : f[content(v)[i]] = g[content(v)[i]]
    BY <1>1 DEF SameInside, Places, child
  <2>2. Texts(content(v), f) = Texts(content(v), g)
    BY <2>1 DEF Texts
  <2> QED BY <1>1, <2>2 DEF TextInto
<1>2. CASE kind(v) = "object"
  <2> DEFINE es == content(v)
             keys == sorted(es)
  <2>1. es \in Entries(Payload) /\ Places(v) = 1..Len(es) /\ \A i \in Places(v) : child(v, i) = es[i][2]
    BY <1>2, PayloadCases
  <2>2. ASSUME NEW i \in DOMAIN keys PROVE f[valueOf(es, keys[i])] = g[valueOf(es, keys[i])]
    <3>1. has(es, keys[i])
      BY KeysWritten
    <3> HIDE DEF es, keys
    <3>2. PICK j \in 1..Len(es) : es[j][2] = valueOf(es, keys[i])
      BY <2>1, <3>1, ValueFound
    <3> QED BY <1>2, <2>1, <3>2 DEF SameInside
  <2>3. Items(es, f) = Items(es, g)
    BY <2>2 DEF Items
  <2> QED BY <1>2, <2>3 DEF TextInto
<1> QED BY <1>1, <1>2 DEF TextInto

LEMMA ItemTyped ==
    ASSUME NEW k \in Key, NEW x \in Seq(Token)
    PROVE  Item(k, x) \in Seq(Token)
<1>1. k \in Text
  BY PayloadAssumption DEF Key
<1>2. Quoted(k) \in Seq(Token) /\ <<Colon>> \in Seq(Token)
  BY <1>1, TokensThere, ShortTexts DEF Quoted
<1>3. Quoted(k) \o <<Colon>> \in Seq(Token)
  BY <1>2, ConcatProperties
<1>4. (Quoted(k) \o <<Colon>>) \o x \in Seq(Token)
  <2> DEFINE q == Quoted(k) \o <<Colon>>
  <2>1. q \in Seq(Token)
    BY <1>3
  <2> HIDE DEF q
  <2>2. q \o x \in Seq(Token)
    BY <2>1, ConcatProperties
  <2> QED BY <2>2 DEF q
<1> QED BY <1>4 DEF Item

\* The texts of the values in an array, and of the entries in an object.
LEMMA TextsTyped ==
    ASSUME NEW f \in [Payload -> Seq(Token)], NEW s \in Seq(Payload)
    PROVE  Texts(s, f) \in Seq(Seq(Token)) /\ Len(Texts(s, f)) = Len(s)
<1> DEFINE P == Payload
           T == Seq(Token)
<1>1. f \in [P -> T] /\ s \in Seq(P)
  OBVIOUS
<1> HIDE DEF P, T
<1>2. DOMAIN s = 1..Len(s) /\ Len(s) \in Nat /\ \A i \in 1..Len(s) : f[s[i]] \in T
  BY <1>1
<1> DEFINE x == [i \in DOMAIN s |-> f[s[i]]]
<1>3. x \in [1..Len(s) -> T]
  BY <1>2
<1> HIDE DEF x
<1>4. x \in Seq(T)
  <2> DEFINE n == Len(s)
  <2>1. n \in Nat /\ x \in [1..n -> T]
    BY <1>2, <1>3
  <2> HIDE DEF n
  <2>2. x \in UNION {[1..m -> T] : m \in Nat}
    BY <2>1
  <2> QED BY <2>2, SeqDef
<1>5. Len(x) = Len(s)
  BY <1>2, <1>3, <1>4
<1> QED BY <1>4, <1>5 DEF Texts, T, x

LEMMA ItemsTyped ==
    ASSUME NEW f \in [Payload -> Seq(Token)], NEW es \in Entries(Payload)
    PROVE  Items(es, f) \in Seq(Seq(Token)) /\ Len(Items(es, f)) = Len(sorted(es))
<1> DEFINE keys == sorted(es)
           item(i) == Item(keys[i], f[valueOf(es, keys[i])])
<1>1. keys \in Seq(Key)
  BY KeysWritten
<1>2. ASSUME NEW i \in DOMAIN keys PROVE item(i) \in Seq(Token)
  <2>1. keys[i] \in Key /\ has(es, keys[i])
    BY KeysWritten
  <2> HIDE DEF keys
  <2>2. valueOf(es, keys[i]) \in Payload
    BY <2>1, ValueFound
  <2>3. f[valueOf(es, keys[i])] \in Seq(Token)
    BY <2>2
  <2> QED BY <2>1, <2>3, ItemTyped
<1> HIDE DEF keys, item
<1>3. [i \in DOMAIN keys |-> item(i)] \in Seq(Seq(Token)) /\ Len([i \in DOMAIN keys |-> item(i)]) = Len(keys)
  BY <1>1, <1>2
<1>4. Items(es, f) = [i \in DOMAIN keys |-> item(i)]
  BY DEF Items, keys, item
<1> QED BY <1>3, <1>4 DEF keys

LEMMA Enclosed ==
    ASSUME NEW a \in Token, NEW x \in Seq(Token), NEW b \in Token
    PROVE  <<a>> \o x \o <<b>> \in Seq(Token)
<1>1. <<a>> \in Seq(Token) /\ <<b>> \in Seq(Token)
  BY ShortTexts
<1>2. <<a>> \o x \in Seq(Token)
  BY <1>1, ConcatProperties
<1> QED BY <1>1, <1>2, ConcatProperties

LEMMA TextTyped ==
    ASSUME NEW v \in Payload, NEW f \in [Payload -> Seq(Token)]
    PROVE  TextInto(v, f) \in Seq(Token)
<1>1. CASE kind(v) = "array"
  <2>1. Texts(content(v), f) \in Seq(Seq(Token))
    BY <1>1, PayloadCases, TextsTyped
  <2>2. join(Texts(content(v), f)) \in Seq(Token)
    BY <2>1, JoinTyped, TokensThere
  <2> QED BY <1>1, <2>2, Enclosed, TokensThere DEF TextInto
<1>2. CASE kind(v) = "object"
  <2>1. Items(content(v), f) \in Seq(Seq(Token))
    BY <1>2, PayloadCases, ItemsTyped
  <2>2. join(Items(content(v), f)) \in Seq(Token)
    BY <2>1, JoinTyped, TokensThere
  <2> QED BY <1>2, <2>2, Enclosed, TokensThere DEF TextInto
<1>3. CASE kind(v) = "PIIString"
  BY <1>3, TokensThere, ShortTexts DEF TextInto
<1>4. CASE Plain(v)
  BY <1>4, PlainMeans DEF TextInto, Plain
<1> QED BY <1>1, <1>2, <1>3, <1>4 DEF Plain

\* What stringify writes.
LEMMA StringifyRule ==
    /\ stringify \in [Payload -> Seq(Token)]
    /\ \A v \in Payload : stringify[v] = TextInto(v, stringify)
<1> DEFINE S == Seq(Token)
           IsIt(g) == g = [v \in Payload |-> stringifyInto(v, g)]
           stepOf == [f \in [Payload -> S] |-> [v \in Payload |-> TextInto(v, f)]]
<1>1. stepOf \in [[Payload -> S] -> [Payload -> S]]
  BY TextTyped
<1>2. \A f \in [Payload -> S] : stepOf[f] = [v \in Payload |-> TextInto(v, f)]
  OBVIOUS
<1>3. ASSUME NEW f \in [Payload -> S], NEW g \in [Payload -> S], NEW v \in Payload, SameInside(v, f, g)
      PROVE  stepOf[f][v] = stepOf[g][v]
  <2>1. TextInto(v, f) = TextInto(v, g)
    BY <1>3, TextLooksInside
  <2>2. stepOf[f] = [w \in Payload |-> TextInto(w, f)] /\ stepOf[g] = [w \in Payload |-> TextInto(w, g)]
    BY <1>2
  <2> HIDE DEF stepOf
  <2> QED BY <2>1, <2>2
<1>4. <<>> \in S
  OBVIOUS
<1> HIDE DEF stepOf
<1>5. PICK f : Recursive(S, stepOf, f)
  <2> HIDE DEF S
  <2> QED BY <1>1, <1>3, <1>4, FixedPoint
<1>6. f \in [Payload -> S] /\ f = [v \in Payload |-> TextInto(v, f)]
  BY <1>2, <1>5 DEF Recursive
<1> HIDE DEF S
<1>7. IsIt(f)
  BY <1>6, StringifySame
<1>8. IsIt(stringify)
  <2>1. stringify = CHOOSE g : IsIt(g)
    BY DEF stringify
  <2> HIDE DEF IsIt
  <2> QED BY <1>7, <2>1
<1>9. /\ stringify = [v \in Payload |-> stringifyInto(v, stringify)]
      /\ \A v \in Payload : stringify[v] = TextInto(v, stringify)
  BY <1>8, StringifySame
<1>10. Payload \subseteq {v \in Payload : stringify[v] = f[v]}
  <2> DEFINE A == {v \in Payload : stringify[v] = f[v]}
  <2>1. ASSUME NEW v \in Payload, \A i \in Places(v) : child(v, i) \in A PROVE v \in A
    <3>1. SameInside(v, stringify, f)
      BY <2>1 DEF SameInside
    <3>2. f[v] = TextInto(v, f)
      BY <1>6
    <3> QED BY <1>9, <3>1, <3>2, TextLooksInside
  <2> HIDE DEF A
  <2>2. Payload \subseteq A
    BY <2>1, PayloadInduction
  <2> QED BY <2>2 DEF A
<1>11. \A v \in Payload : stringify[v] \in S
  BY <1>6, <1>10
<1>12. stringify \in [Payload -> S]
  BY <1>9, <1>11
<1> QED BY <1>9, <1>12 DEF S

\* What alike asks of two values; inner is what it says of what is in the first.
AlikeInto(v, w, inner) ==
    IF kind(v) = "array" THEN
        /\ kind(w) = "array" /\ Len(elements(v)) = Len(elements(w))
        /\ \A i \in DOMAIN elements(v) : inner[elements(v)[i]][elements(w)[i]]
    ELSE IF kind(v) \in {"object", "PIIString"} THEN
        /\ kind(w) \in {"object", "PIIString"}
        /\ \A k \in Key : /\ has(entriesOf(v), k) <=> has(entriesOf(w), k)
                          /\ has(entriesOf(v), k) =>
                                inner[valueOf(entriesOf(v), k)][valueOf(entriesOf(w), k)]
    ELSE kind(w) \notin {"array", "object", "PIIString"} /\ meant(v) = meant(w)

\* What is in a value, as alike sees it, is in it.
LEMMA ElementsInside ==
    ASSUME NEW v \in Payload, kind(v) = "array", NEW i \in DOMAIN elements(v)
    PROVE  i \in Places(v) /\ elements(v)[i] = child(v, i)
<1>1. Places(v) = 1..Len(content(v)) /\ content(v) \in Seq(Payload)
      /\ \A j \in Places(v) : child(v, j) = content(v)[j]
  BY PayloadCases
<1>2. content(v) # <<Undefined>>
  BY DEF elements
<1>3. elements(v) = content(v)
  BY <1>2 DEF elements
<1> QED BY <1>1, <1>3

LEMMA ValuesInside ==
    ASSUME NEW v \in Payload, kind(v) \in {"object", "PIIString"}, NEW k, has(entriesOf(v), k)
    PROVE  \E i \in Places(v) : valueOf(entriesOf(v), k) = child(v, i)
<1>1. kind(v) = "object"
  BY DEF entriesOf, has
<1>2. entriesOf(v) = content(v) /\ content(v) \in Entries(Payload) /\ Places(v) = 1..Len(content(v))
      /\ \A i \in Places(v) : child(v, i) = content(v)[i][2]
  BY <1>1, PayloadCases DEF entriesOf
<1>3. PICK i \in 1..Len(content(v)) : content(v)[i][2] = valueOf(content(v), k)
  BY <1>2, ValueFound
<1> QED BY <1>2, <1>3

\* So does AlikeInto, at what is in its first value.
LEMMA AlikeLooksInside ==
    ASSUME NEW v \in Payload, NEW w \in Payload, NEW f, NEW g, SameInside(v, f, g)
    PROVE  AlikeInto(v, w, f) = AlikeInto(v, w, g)
<1>1. CASE kind(v) = "array"
  <2>1. \A i \in DOMAIN elements(v) : f[elements(v)[i]] = g[elements(v)[i]]
    BY <1>1, ElementsInside DEF SameInside
  <2> QED BY <1>1, <2>1 DEF AlikeInto
<1>2. CASE kind(v) \in {"object", "PIIString"}
  <2>1. \A k \in Key : has(entriesOf(v), k) =>
            f[valueOf(entriesOf(v), k)] = g[valueOf(entriesOf(v), k)]
    BY <1>2, ValuesInside DEF SameInside
  <2> QED BY <1>2, <2>1 DEF AlikeInto
<1> QED BY <1>1, <1>2 DEF AlikeInto

\* What alike says.
LEMMA AlikeRule ==
    \A v, w \in Payload : alike[v][w] = AlikeInto(v, w, alike)
<1> DEFINE T == [Payload -> BOOLEAN]
           row(v, f) == [w \in Payload |-> AlikeInto(v, w, f)]
           IsIt(g) == g = [v \in Payload |-> row(v, g)]
           stepOf == [f \in [Payload -> T] |-> [v \in Payload |-> row(v, f)]]
<1>1. \A v, w \in Payload : \A f : AlikeInto(v, w, f) \in BOOLEAN
  <2> SUFFICES ASSUME NEW v \in Payload, NEW w \in Payload, NEW f PROVE AlikeInto(v, w, f) \in BOOLEAN
    OBVIOUS
  <2> QED BY Zenon DEF AlikeInto
<1>2. stepOf \in [[Payload -> T] -> [Payload -> T]]
  <2>1. \A v \in Payload : \A f : row(v, f) \in T
    BY <1>1
  <2> HIDE DEF T, row
  <2> QED BY <2>1
<1>3. \A f \in [Payload -> T] : stepOf[f] = [v \in Payload |-> row(v, f)]
  OBVIOUS
<1>4. ASSUME NEW f \in [Payload -> T], NEW g \in [Payload -> T], NEW v \in Payload, SameInside(v, f, g)
      PROVE  stepOf[f][v] = stepOf[g][v]
  <2>1. \A w \in Payload : AlikeInto(v, w, f) = AlikeInto(v, w, g)
    BY <1>4, AlikeLooksInside
  <2>2. row(v, f) = row(v, g)
    BY <2>1
  <2>3. stepOf[f] = [w \in Payload |-> row(w, f)] /\ stepOf[g] = [w \in Payload |-> row(w, g)]
    BY <1>3
  <2> HIDE DEF stepOf, row
  <2> QED BY <2>2, <2>3
<1> HIDE DEF stepOf
<1>5. [w \in Payload |-> TRUE] \in T
  OBVIOUS
<1>6. PICK f : Recursive(T, stepOf, f)
  <2> HIDE DEF T
  <2> QED BY <1>2, <1>4, <1>5, FixedPoint
<1>7. IsIt(f)
  BY <1>3, <1>6 DEF Recursive
<1>8. IsIt(alike)
  <2>1. alike = CHOOSE g : IsIt(g)
    BY DEF alike, AlikeInto
  <2> HIDE DEF IsIt
  <2> QED BY <1>7, <2>1
<1>9. \A v \in Payload : alike[v] = row(v, alike)
  <2> HIDE DEF row
  <2> QED BY <1>8
<1> QED BY <1>9

\* A list of one empty text is joined like an empty list.
LEMMA JoinNothing ==
    /\ join(<<>>) = <<>>
    /\ <<<<>>>> \in Seq(Seq(Token)) /\ join(<<<<>>>>) = <<>>
<1>1. <<>> \in Seq(Seq(Token)) /\ Len(<<>>) = 0
  OBVIOUS
<1>2. joined(<<>>)[0] = <<>>
  BY <1>1, JoinRule, TokensThere
<1> DEFINE one == <<<<>>>>
<1>3. one \in Seq(Seq(Token)) /\ Len(one) = 1 /\ one[1] = <<>>
  BY ShortTexts
<1>4. 1 \in 1..Len(one) /\ Len(one) - 1 + 1 = 1
  BY <1>3
<1> HIDE DEF one
<1>5. joined(one)[1] = <<>> \o <<>>
  <2>1. \A n \in 1..Len(one) :
            joined(one)[n] = one[Len(one) - n + 1] \o (IF n = 1 THEN <<>> ELSE <<Comma>> \o joined(one)[n - 1])
    BY <1>3, JoinRule, TokensThere
  <2>2. joined(one)[1] = one[Len(one) - 1 + 1] \o <<>>
    BY <1>4, <2>1
  <2> QED BY <1>3, <1>4, <2>2
<1>6. <<>> \o <<>> = <<>>
  BY ShortTexts, ConcatEmptySeq
<1>7. join(one) = <<>> /\ join(<<>>) = <<>>
  BY <1>1, <1>2, <1>3, <1>5, <1>6 DEF join
<1> QED BY <1>3, <1>7 DEF one

LEMMA PairsJoin == \A a, b : <<a>> \o <<b>> = <<a, b>>
<1> SUFFICES ASSUME NEW a, NEW b PROVE <<a>> \o <<b>> = <<a, b>>
  OBVIOUS
<1> DEFINE S == {a, b}
           p == <<a>>
           q == <<b>>
           r == <<a, b>>
<1>1. p \in Seq(S) /\ q \in Seq(S) /\ r \in Seq(S)
  OBVIOUS
<1>2. Len(p) = 1 /\ Len(q) = 1 /\ Len(r) = 2 /\ p[1] = a /\ q[1] = b /\ r[1] = a /\ r[2] = b
  OBVIOUS
<1> HIDE DEF S, p, q, r
<1>3. /\ p \o q \in Seq(S) /\ Len(p \o q) = 1 + 1
      /\ \A i \in 1..1 : (p \o q)[i] = p[i]
      /\ \A i \in 1..1 : (p \o q)[1 + i] = q[i]
  BY <1>1, <1>2, Joined
<1>4. (p \o q)[1] = a /\ (p \o q)[1 + 1] = b /\ 1 + 1 = 2
  BY <1>2, <1>3
<1> DEFINE pq == p \o q
<1>5. pq \in Seq(S) /\ Len(pq) = 2 /\ pq[1] = a /\ pq[2] = b
  BY <1>3, <1>4
<1> HIDE DEF pq
<1>6. \A i \in 1..2 : pq[i] = r[i]
  BY <1>2, <1>5
<1>7. pq = r
  BY <1>1, <1>2, <1>5, <1>6, SeqEqual
<1> QED BY <1>7 DEF pq, p, q, r

LEMMA UndefinedThere ==
    /\ Undefined \in Payload /\ kind(Undefined) = "undefined"
    /\ Plain(Undefined) /\ meant(Undefined) = Undefined /\ stringify[Undefined] = <<>>
<1>1. Undefined \in Payload
  <2>1. 0 \in 0..MaxDepth /\ Undefined \in Flat
    BY PayloadAssumption DEF Flat, Scalar
  <2> QED BY <2>1, LevelNext, LevelsRise
<1>2. kind(Undefined) = "undefined"
  BY DEF kind, Undefined
<1>3. Plain(Undefined) /\ meant(Undefined) = Undefined
  BY <1>2 DEF Plain, meant
<1>4. stringify[Undefined] = PlainText(Undefined)
  BY <1>1, <1>2, <1>3, StringifyRule DEF TextInto
<1>5. PlainText(Undefined) = <<>>
  BY <1>2 DEF PlainText
<1> QED BY <1>1, <1>2, <1>3, <1>4, <1>5

\* An array is written like the list of its members, which has some.
Members(v) == IF content(v) = <<>> THEN <<Undefined>> ELSE content(v)

ArrayWritten(v, ms, ts) ==
    /\ ms \in Seq(Payload) /\ Len(ms) \in Nat \ {0}
    /\ \A i \in 1..Len(ms) : ms[i] = Undefined \/ \E j \in Places(v) : ms[i] = child(v, j)
    /\ ts \in Seq(Seq(Token)) /\ Len(ts) = Len(ms)
    /\ \A i \in 1..Len(ms) : ts[i] = stringify[ms[i]]
    /\ stringify[v] = <<Bracket>> \o join(ts) \o <<EndBracket>>

LEMMA ArrayText ==
    ASSUME NEW v \in Payload, kind(v) = "array"
    PROVE  ArrayWritten(v, Members(v), Texts(Members(v), stringify))
<1> DEFINE c == content(v)
           ms == Members(v)
           ts == Texts(ms, stringify)
<1>1. c \in Seq(Payload) /\ Places(v) = 1..Len(c) /\ \A i \in Places(v) : child(v, i) = c[i]
  BY PayloadCases
<1>2. stringify[v] = <<Bracket>> \o join(Texts(c, stringify)) \o <<EndBracket>>
  BY StringifyRule DEF TextInto
<1> HIDE DEF c
<1>3. /\ ms \in Seq(Payload) /\ Len(ms) \in Nat \ {0}
      /\ \A i \in 1..Len(ms) : ms[i] = Undefined \/ \E j \in Places(v) : ms[i] = child(v, j)
  <2> DEFINE P == Payload
  <2>1. c \in Seq(P) /\ Undefined \in P
    BY <1>1, UndefinedThere
  <2> HIDE DEF P
  <2>2. CASE c = <<>>
    <3>1. ms = <<Undefined>>
      BY <2>2 DEF Members, c
    <3> HIDE DEF ms
    <3>2. ms \in Seq(P) /\ Len(ms) = 1 /\ ms[1] = Undefined
      BY <2>1, <3>1
    <3> QED BY <3>2 DEF P
  <2>3. CASE c # <<>>
    <3>1. ms = c
      BY <2>3 DEF Members, c
    <3> HIDE DEF ms
    <3>2. Len(c) \in Nat /\ Len(c) # 0
      BY <2>1, <2>3, EmptySeq
    <3> QED BY <1>1, <3>1, <3>2
  <2> QED BY <2>2, <2>3
<1>4. ts \in Seq(Seq(Token)) /\ Len(ts) = Len(ms)
  <2> HIDE DEF ms
  <2> QED BY <1>3, StringifyRule, TextsTyped
<1>5. \A i \in 1..Len(ms) : ts[i] = stringify[ms[i]]
  <2>1. DOMAIN ms = 1..Len(ms)
    BY <1>3
  <2> HIDE DEF ms
  <2> QED BY <2>1 DEF Texts
<1>6. join(Texts(c, stringify)) = join(ts)
  <2>1. CASE c = <<>>
    <3>1. Texts(c, stringify) = <<>>
      BY <2>1 DEF Texts
    <3>2. ms = <<Undefined>>
      BY <2>1 DEF Members, c
    <3>3. ts = <<<<>>>>
      <4> HIDE DEF ms
      <4>1. ts \in Seq(Seq(Token)) /\ Len(ts) = 1 /\ ts[1] = <<>>
        <5>1. ms[1] = Undefined /\ Len(ms) = 1
          BY <3>2
        <5> QED BY <1>4, <1>5, <5>1, UndefinedThere
      <4> HIDE DEF ts
      <4> QED BY <4>1
    <3> HIDE DEF ts
    <3> QED BY <3>1, <3>3, JoinNothing
  <2>2. CASE c # <<>>
    BY <2>2 DEF Members, c
  <2> QED BY <2>1, <2>2
<1> HIDE DEF ms, ts
<1>7. ArrayWritten(v, ms, ts)
  BY <1>2, <1>3, <1>4, <1>5, <1>6 DEF ArrayWritten
<1> QED BY <1>7 DEF ms, ts

\* An object is written like the list of its items, a PIIString like an empty one.
ObjectWritten(v, es, items) ==
    /\ es \in Entries(Payload)
    /\ items \in Seq(Seq(Token)) /\ Len(items) = Len(sorted(es))
    /\ stringify[v] = <<Brace>> \o join(items) \o <<EndBrace>>

LEMMA ObjectText ==
    ASSUME NEW v \in Payload, kind(v) \in {"object", "PIIString"}
    PROVE  ObjectWritten(v, entriesOf(v), Items(entriesOf(v), stringify))
<1> DEFINE es == entriesOf(v)
           items == Items(es, stringify)
<1>1. <<>> \in Entries(Payload)
  <2>1. <<>> \in Seq(Key \X Payload) /\ DOMAIN <<>> = {}
    OBVIOUS
  <2> QED BY <2>1 DEF Entries
<1>2. es \in Entries(Payload)
  BY <1>1, PayloadCases DEF entriesOf
<1>3. items \in Seq(Seq(Token)) /\ Len(items) = Len(sorted(es))
  <2> HIDE DEF es
  <2> QED BY <1>2, StringifyRule, ItemsTyped
<1>4. stringify[v] = <<Brace>> \o join(items) \o <<EndBrace>>
  <2>1. CASE kind(v) = "object"
    BY <2>1, StringifyRule DEF TextInto, entriesOf
  <2>2. CASE kind(v) = "PIIString"
    <3>1. es = <<>>
      BY <2>2 DEF entriesOf
    <3>2. \A k \in Key : ~has(es, k)
      BY <3>1 DEF has
    <3>3. DOMAIN sorted(es) = {}
      BY <3>2, KeysWritten
    <3>4. Items(es, stringify) = <<>>
      BY <3>3 DEF Items
    <3>5. <<Brace>> \o <<>> \o <<EndBrace>> = <<Brace, EndBrace>>
      <4>1. <<Brace>> \o <<>> = <<Brace>>
        BY TokensThere, ShortTexts, ConcatEmptySeq
      <4>2. <<Brace>> \o <<EndBrace>> = <<Brace, EndBrace>>
        BY PairsJoin
      <4> QED BY <4>1, <4>2
    <3>6. stringify[v] = <<Brace, EndBrace>>
      BY <2>2, StringifyRule DEF TextInto
    <3> QED BY <3>4, <3>5, <3>6, JoinNothing
  <2> QED BY <2>1, <2>2
<1> QED BY <1>2, <1>3, <1>4 DEF ObjectWritten

-----------------------------------------------------------------------------
(* How a text begins, in front of what follows it.                           *)

Associated(s, t, u) == (s \o t) \o u = s \o (t \o u)

LEMMA Associates ==
    ASSUME NEW S, NEW s \in Seq(S), NEW t \in Seq(S), NEW u \in Seq(S)
    PROVE  Associated(s, t, u)
BY ConcatAssociative DEF Associated

\* What follows a text in another one.
Stops(x) == x = <<>> \/ x[1] \in {Comma, EndBracket, EndBrace}

Begins(z, a) == z # <<>> /\ z[1] = a

\* A text in brackets begins with the first of them.
EnclosedOpening(S, a, t, b, x) ==
    /\ (<<a>> \o t \o <<b>>) \o x = <<a>> \o (t \o (<<b>> \o x))
    /\ t \o (<<b>> \o x) \in Seq(S)
    /\ Begins((<<a>> \o t \o <<b>>) \o x, a)

LEMMA EnclosedOpens ==
    ASSUME NEW S, NEW a \in S, NEW t \in Seq(S), NEW b \in S, NEW x \in Seq(S)
    PROVE  EnclosedOpening(S, a, t, b, x)
<1> DEFINE p == <<a>>
           q == <<b>>
           u == p \o t
           w == q \o x
           r == t \o w
<1>1. p \in Seq(S) /\ q \in Seq(S)
  OBVIOUS
<1> HIDE DEF p, q
<1>2. u \in Seq(S) /\ w \in Seq(S)
  BY <1>1, ConcatProperties
<1> HIDE DEF w
<1>3. r \in Seq(S)
  BY <1>2, ConcatProperties
<1> HIDE DEF u
<1>4. Associated(u, q, x)
  BY <1>1, <1>2, Associates
<1>5. Associated(p, t, w)
  BY <1>1, <1>2, Associates
<1>6. (u \o q) \o x = p \o r
  BY <1>4, <1>5 DEF Associated, u, w
<1> HIDE DEF r
<1>7. Heads(S, a, r)
  BY <1>3, FirstAndRest
<1> QED BY <1>3, <1>6, <1>7 DEF p, q, r, u, w, Begins, Heads, EnclosedOpening

\* How the text z of v, with x after it, begins.
Opening(v, x, z) ==
    /\ kind(v) = "array" => Begins(z, Bracket)
    /\ kind(v) \in {"object", "PIIString"} => Begins(z, Brace)
    /\ Plain(v) =>
        \/ meant(v) = Undefined /\ z = x
        \/ meant(v) = Null /\ Begins(z, "null") /\ z = <<"null">> \o x
        \/ /\ meant(v) = <<"string", content(meant(v))>> /\ Begins(z, Quote)
           /\ content(meant(v)) \in Token /\ <<Quote>> \o x \in Seq(Token)
           /\ <<content(meant(v))>> \o (<<Quote>> \o x) \in Seq(Token)
           /\ z = <<Quote>> \o (<<content(meant(v))>> \o (<<Quote>> \o x))
        \/ /\ meant(v) = <<"number", content(meant(v))>> /\ Begins(z, content(meant(v)))
           /\ content(meant(v)) \in Digits /\ z = <<content(meant(v))>> \o x

LEMMA TextOpens ==
    ASSUME NEW v \in Payload, NEW x \in Seq(Token)
    PROVE  Opening(v, x, stringify[v] \o x)
<1> DEFINE z == stringify[v] \o x
<1>1. CASE kind(v) = "array"
  <2> DEFINE t == join(Texts(Members(v), stringify))
  <2>1. t \in Seq(Token) /\ stringify[v] = <<Bracket>> \o t \o <<EndBracket>>
    BY <1>1, ArrayText, JoinTyped, TokensThere DEF ArrayWritten
  <2> HIDE DEF t
  <2>2. Begins(z, Bracket)
    <3>1. EnclosedOpening(Token, Bracket, t, EndBracket, x)
      BY <2>1, EnclosedOpens, TokensThere
    <3> QED BY <2>1, <3>1 DEF EnclosedOpening
  <2> QED BY <1>1, <2>2 DEF Opening, Plain
<1>2. CASE kind(v) \in {"object", "PIIString"}
  <2> DEFINE t == join(Items(entriesOf(v), stringify))
  <2>1. t \in Seq(Token) /\ stringify[v] = <<Brace>> \o t \o <<EndBrace>>
    BY <1>2, ObjectText, JoinTyped, TokensThere DEF ObjectWritten
  <2> HIDE DEF t
  <2>2. Begins(z, Brace)
    <3>1. EnclosedOpening(Token, Brace, t, EndBrace, x)
      BY <2>1, EnclosedOpens, TokensThere
    <3> QED BY <2>1, <3>1 DEF EnclosedOpening
  <2> QED BY <1>2, <2>2 DEF Opening, Plain
<1>3. CASE Plain(v)
  <2> DEFINE m == meant(v)
  <2>1. m \in Meaning /\ stringify[v] = PlainText(m)
    BY <1>3, PlainMeans, StringifyRule DEF TextInto, Plain
  <2> HIDE DEF m
  <2>2. CASE m = Undefined
    <3>1. z = <<>> \o x
      BY <2>1, <2>2 DEF PlainText, kind, Undefined
    <3>2. z = x
      BY <3>1, ConcatEmptySeq
    <3> QED BY <1>3, <2>2, <3>2 DEF Opening, Plain, m
  <2>3. CASE m = Null
    <3>1. z = <<"null">> \o x
      BY <2>1, <2>3 DEF PlainText, kind, Null
    <3>2. Heads(Token, "null", x)
      BY FirstAndRest, TokensThere
    <3> QED BY <1>3, <2>3, <3>1, <3>2 DEF Opening, Plain, m, Begins, Heads
  <2>4. CASE m \in {"string"} \X Text
    <3> DEFINE c == content(m)
    <3>1. kind(m) = "string" /\ c \in Text /\ m = <<"string", c>>
      BY <2>4 DEF kind, content
    <3>2. stringify[v] = <<Quote, c, Quote>>
      BY <2>1, <3>1 DEF PlainText, Quoted
    <3>3. c \in Token /\ Quote \in Token
      BY <3>1, TokensThere
    <3> HIDE DEF c
    <3>4. <<c>> \in Seq(Token) /\ <<Quote, c, Quote>> = <<Quote>> \o <<c>> \o <<Quote>>
      BY <3>3
    <3> DEFINE u == <<Quote>> \o x
               r == <<c>> \o u
    <3>5. u \in Seq(Token)
      BY <3>3, FirstAndRest DEF Heads
    <3>6. r \in Seq(Token) /\ z = <<Quote>> \o r /\ Begins(z, Quote)
      <4>1. EnclosedOpening(Token, Quote, <<c>>, Quote, x)
        BY <3>3, <3>4, EnclosedOpens
      <4> QED BY <3>2, <3>4, <4>1 DEF EnclosedOpening
    <3> QED BY <1>3, <3>1, <3>3, <3>5, <3>6 DEF Opening, Plain, m, c
  <2>5. CASE m \in {"number"} \X Digits
    <3> DEFINE c == content(m)
    <3>1. kind(m) = "number" /\ c \in Digits /\ m = <<"number", c>>
      BY <2>5 DEF kind, content
    <3>2. stringify[v] = <<c>>
      BY <2>1, <3>1 DEF PlainText
    <3>3. c \in Token
      BY <3>1, TokensThere
    <3> HIDE DEF c
    <3>4. Heads(Token, c, x)
      BY <3>3, FirstAndRest
    <3> QED BY <1>3, <3>1, <3>2, <3>4 DEF Opening, Plain, m, c, Begins, Heads
  <2> QED BY <2>1, <2>2, <2>3, <2>4, <2>5 DEF Meaning
<1> QED BY <1>1, <1>2, <1>3 DEF Plain

\* The texts of two values, before what follows them, are the same only if the
\* values are alike and the same follows.
Separate(v, w, x, y) ==
    Stops(x) /\ Stops(y) /\ stringify[v] \o x = stringify[w] \o y => alike[v][w] /\ x = y
Apart(v) == \A w \in Payload : \A x, y \in Seq(Token) : Separate(v, w, x, y)

\* What begins a text does not end another.
LEMMA OpeningDecides ==
    ASSUME NEW v \in Payload, NEW w \in Payload, NEW x, NEW y, NEW z,
           Opening(v, x, z), Opening(w, y, z), Stops(x), Stops(y)
    PROVE  /\ kind(v) = "array" <=> kind(w) = "array"
           /\ kind(v) \in {"object", "PIIString"} <=> kind(w) \in {"object", "PIIString"}
           /\ Plain(v) => \/ meant(v) = Undefined /\ meant(w) = Undefined
                          \/ meant(v) = Null /\ meant(w) = Null
                          \/ /\ meant(v) = <<"string", content(meant(v))>>
                             /\ meant(w) = <<"string", content(meant(w))>>
                          \/ /\ meant(v) = <<"number", content(meant(v))>>
                             /\ meant(w) = <<"number", content(meant(w))>>
                             /\ content(meant(v)) = content(meant(w))
<1> DEFINE Ends == {Comma, EndBracket, EndBrace}
           First(u, t) == \/ kind(u) = "array" /\ Begins(z, Bracket)
                          \/ kind(u) \in {"object", "PIIString"} /\ Begins(z, Brace)
                          \/ Plain(u) /\ meant(u) = Undefined /\ z = t
                          \/ Plain(u) /\ meant(u) = Null /\ Begins(z, "null")
                          \/ /\ Plain(u) /\ meant(u) = <<"string", content(meant(u))>>
                             /\ Begins(z, Quote)
                          \/ /\ Plain(u) /\ meant(u) = <<"number", content(meant(u))>>
                             /\ content(meant(u)) \in Digits /\ Begins(z, content(meant(u)))
<1>1. First(v, x) /\ First(w, y)
  BY DEF Opening, Plain
<1>2. \A u : /\ Plain(u) <=> ~(kind(u) = "array" \/ kind(u) \in {"object", "PIIString"})
             /\ ~(kind(u) = "array" /\ kind(u) \in {"object", "PIIString"})
  BY DEF Plain
<1>3. \A a, b : Begins(z, a) /\ Begins(z, b) => a = b
  BY DEF Begins
<1>4. \A a : Begins(z, a) /\ (z = x \/ z = y) => a \in Ends
  BY DEF Begins, Stops
<1>5. /\ "null" \notin Ends /\ Quote \notin Ends /\ Bracket \notin Ends /\ Brace \notin Ends
      /\ "null" # Quote /\ "null" # Bracket /\ "null" # Brace
      /\ Quote # Bracket /\ Quote # Brace /\ Bracket # Brace
      /\ \A d \in Digits : d \notin Ends /\ d # "null" /\ d # Quote /\ d # Bracket /\ d # Brace
  BY TokensDiffer, TokensThere
<1> HIDE DEF Ends
<1>6. CASE kind(v) = "array"
  <2>1. Begins(z, Bracket)
    BY <1>1, <1>2, <1>6
  <2>2. kind(w) = "array"
    BY <1>1, <1>3, <1>4, <1>5, <2>1
  <2> QED BY <1>2, <1>6, <2>2
<1>7. CASE kind(v) \in {"object", "PIIString"}
  <2>1. Begins(z, Brace)
    BY <1>1, <1>2, <1>7
  <2>2. kind(w) \in {"object", "PIIString"}
    BY <1>1, <1>3, <1>4, <1>5, <2>1
  <2> QED BY <1>2, <1>7, <2>2
<1>8. CASE Plain(v)
  <2>1. CASE meant(v) = Undefined /\ z = x
    BY <1>1, <1>2, <1>4, <1>5, <1>8, <2>1
  <2>2. CASE meant(v) = Null /\ Begins(z, "null")
    BY <1>1, <1>2, <1>3, <1>4, <1>5, <1>8, <2>2
  <2>3. CASE meant(v) = <<"string", content(meant(v))>> /\ Begins(z, Quote)
    BY <1>1, <1>2, <1>3, <1>4, <1>5, <1>8, <2>3
  <2>4. CASE /\ meant(v) = <<"number", content(meant(v))>>
             /\ content(meant(v)) \in Digits /\ Begins(z, content(meant(v)))
    BY <1>1, <1>2, <1>3, <1>4, <1>5, <1>8, <2>4
  <2> QED BY <1>1, <1>2, <1>8, <2>1, <2>2, <2>3, <2>4
<1> QED BY <1>2, <1>6, <1>7, <1>8

\* What stands for itself is told apart from everything.
LEMMA PlainApart ==
    ASSUME NEW v \in Payload, Plain(v)
    PROVE  Apart(v)
<1> SUFFICES ASSUME NEW w \in Payload, NEW x \in Seq(Token), NEW y \in Seq(Token),
                    Stops(x), Stops(y), stringify[v] \o x = stringify[w] \o y
             PROVE  alike[v][w] /\ x = y
  BY DEF Apart, Separate
<1> DEFINE z == stringify[v] \o x
           m == meant(v)
           n == meant(w)
<1>1. Opening(v, x, z) /\ Opening(w, y, z)
  <2>1. Opening(v, x, stringify[v] \o x) /\ Opening(w, y, stringify[w] \o y)
    BY TextOpens
  <2> QED BY <2>1
<1> HIDE DEF z
<1>2. /\ kind(v) = "array" <=> kind(w) = "array"
      /\ kind(v) \in {"object", "PIIString"} <=> kind(w) \in {"object", "PIIString"}
      /\ \/ m = Undefined /\ n = Undefined
         \/ m = Null /\ n = Null
         \/ m = <<"string", content(m)>> /\ n = <<"string", content(n)>>
         \/ m = <<"number", content(m)>> /\ n = <<"number", content(n)>> /\ content(m) = content(n)
  BY <1>1, OpeningDecides
<1>3. Plain(w)
  BY <1>2 DEF Plain
<1>4. kind(Null) = "null" /\ kind(Undefined) = "undefined"
      /\ \A c : kind(<<"string", c>>) = "string" /\ kind(<<"number", c>>) = "number"
  BY DEF kind, Null, Undefined
<1> DEFINE Written(u, t) ==
                \/ u = Undefined /\ z = t
                \/ u = Null /\ z = <<"null">> \o t
                \/ /\ u = <<"string", content(u)>>
                   /\ content(u) \in Token /\ <<Quote>> \o t \in Seq(Token)
                   /\ <<content(u)>> \o (<<Quote>> \o t) \in Seq(Token)
                   /\ z = <<Quote>> \o (<<content(u)>> \o (<<Quote>> \o t))
                \/ /\ u = <<"number", content(u)>>
                   /\ content(u) \in Digits /\ z = <<content(u)>> \o t
<1>5. Written(m, x) /\ Written(n, y)
  BY <1>1, <1>3 DEF Opening
<1> HIDE DEF m, n
<1>6. m = n /\ x = y
  <2>1. CASE m = Undefined /\ n = Undefined
    BY <1>4, <1>5, <2>1
  <2>2. CASE m = Null /\ n = Null
    <3>1. z = <<"null">> \o x /\ z = <<"null">> \o y
      BY <1>4, <1>5, <2>2
    <3>2. SameRest("null", x, "null", y)
      BY RestSame, TokensThere
    <3> QED BY <2>2, <3>1, <3>2 DEF SameRest
  <2>3. CASE m = <<"string", content(m)>> /\ n = <<"string", content(n)>>
    <3> DEFINE a == content(m)
               b == content(n)
               p == <<Quote>> \o x
               q == <<Quote>> \o y
               s == <<a>> \o p
               t == <<b>> \o q
    <3>1. /\ a \in Token /\ b \in Token /\ p \in Seq(Token) /\ q \in Seq(Token)
          /\ s \in Seq(Token) /\ t \in Seq(Token) /\ z = <<Quote>> \o s /\ z = <<Quote>> \o t
      BY <1>4, <1>5, <2>3
    <3> HIDE DEF a, b, s, t
    <3>2. SameRest(Quote, s, Quote, t)
      BY <3>1, RestSame, TokensThere
    <3>3. s = t
      BY <3>1, <3>2 DEF SameRest
    <3> HIDE DEF p, q
    <3>4. SameRest(a, p, b, q)
      BY <3>1, RestSame
    <3>5. a = b /\ p = q
      BY <3>3, <3>4 DEF SameRest, s, t
    <3>6. SameRest(Quote, x, Quote, y)
      BY RestSame, TokensThere
    <3>7. x = y
      BY <3>5, <3>6 DEF SameRest, p, q
    <3> QED BY <2>3, <3>5, <3>7 DEF a, b
  <2>4. CASE m = <<"number", content(m)>> /\ n = <<"number", content(n)>> /\ content(m) = content(n)
    <3> DEFINE a == content(m)
    <3>1. a \in Token /\ z = <<a>> \o x /\ z = <<a>> \o y
      BY <1>4, <1>5, <2>4, TokensThere
    <3> HIDE DEF a
    <3>2. SameRest(a, x, a, y)
      BY <3>1, RestSame
    <3> QED BY <2>4, <3>1, <3>2 DEF SameRest
  <2> QED BY <1>2, <2>1, <2>2, <2>3, <2>4 DEF m, n
<1>7. alike[v][w]
  BY <1>3, <1>6, AlikeRule DEF AlikeInto, Plain, m, n
<1> QED BY <1>6, <1>7

LEMMA UndefinedAlone ==
    ASSUME NEW u \in Payload
    PROVE  /\ alike[u][Undefined] <=> u = Undefined
           /\ alike[Undefined][u] <=> u = Undefined
<1>1. Undefined \in Payload /\ kind(Undefined) = "undefined" /\ Plain(Undefined) /\ meant(Undefined) = Undefined
  BY UndefinedThere
<1>2. kind(Null) = "null" /\ \A c : kind(Str(c)) = "string"
  BY DEF kind, Null, Str
<1>3. meant(u) = Undefined <=> u = Undefined
  BY <1>1, <1>2 DEF meant
<1>4. alike[u][Undefined] <=> Plain(u) /\ meant(u) = Undefined
  BY <1>1, AlikeRule DEF AlikeInto, Plain
<1>5. alike[Undefined][u] <=> Plain(u) /\ meant(u) = Undefined
  <2>1. alike[Undefined][u] = AlikeInto(Undefined, u, alike)
    BY <1>1, AlikeRule
  <2>2. AlikeInto(Undefined, u, alike) <=> Plain(u) /\ meant(u) = Undefined
    BY <1>1 DEF AlikeInto, Plain
  <2> QED BY <2>1, <2>2
<1> QED BY <1>1, <1>3, <1>4, <1>5

\* Arrays are alike if their members are.
MembersMatch(ms, ns) == Len(ms) = Len(ns) /\ \A i \in 1..Len(ms) : alike[ms[i]][ns[i]]

LEMMA MembersAlike ==
    ASSUME NEW v \in Payload, NEW w \in Payload, kind(v) = "array", kind(w) = "array"
    PROVE  alike[v][w] <=> MembersMatch(Members(v), Members(w))
<1> DEFINE Fits(u, es, ms) ==
                \/ es = <<>> /\ ms = <<Undefined>>
                \/ /\ es = ms /\ es \in Seq(Payload) /\ DOMAIN es = 1..Len(es) /\ Len(es) \in Nat \ {0}
                   /\ Len(es) = 1 => es[1] # Undefined /\ es[1] \in Payload
           es == elements(v)
           fs == elements(w)
           ms == Members(v)
           ns == Members(w)
<1>1. ASSUME NEW u \in Payload, kind(u) = "array" PROVE Fits(u, elements(u), Members(u))
  <2> DEFINE c == content(u)
  <2>1. c \in Seq(Payload)
    BY <1>1, PayloadCases
  <2>2. /\ c = <<Undefined>> => elements(u) = <<>> /\ Members(u) = <<Undefined>>
        /\ c = <<>> => elements(u) = <<>> /\ Members(u) = <<Undefined>>
        /\ c # <<Undefined>> /\ c # <<>> => elements(u) = c /\ Members(u) = c
    <3>1. <<Undefined>> # <<>>
      OBVIOUS
    <3> QED BY <3>1 DEF elements, Members
  <2> DEFINE P == Payload
  <2>3. c \in Seq(P)
    BY <2>1
  <2> HIDE DEF c, P
  <2>4. CASE c # <<Undefined>> /\ c # <<>>
    <3>1. DOMAIN c = 1..Len(c) /\ Len(c) \in Nat /\ Len(c) # 0
      BY <2>3, <2>4, EmptySeq
    <3>2. Len(c) = 1 => c[1] # Undefined /\ c[1] \in P
      <4> SUFFICES ASSUME Len(c) = 1 PROVE c[1] # Undefined /\ c[1] \in P
        OBVIOUS
      <4>1. c = <<c[1]>> /\ c[1] \in P
        BY <2>3
      <4> QED BY <2>4, <4>1
    <3> QED BY <2>1, <2>2, <2>4, <3>1, <3>2 DEF P
  <2> QED BY <2>2, <2>4
<1>2. Fits(v, es, ms) /\ Fits(w, fs, ns)
  BY <1>1
<1>3. alike[v][w] <=> Len(es) = Len(fs) /\ \A i \in DOMAIN es : alike[es[i]][fs[i]]
  BY AlikeRule DEF AlikeInto
<1>4. Len(<<>>) = 0 /\ DOMAIN <<>> = {} /\ Len(<<Undefined>>) = 1 /\ <<Undefined>>[1] = Undefined
  OBVIOUS
<1>5. alike[Undefined][Undefined]
  BY UndefinedThere, UndefinedAlone
<1> HIDE DEF es, fs, ms, ns
<1>6. CASE es = <<>> /\ ms = <<Undefined>> /\ fs = <<>> /\ ns = <<Undefined>>
  <2>1. MembersMatch(ms, ns)
    <3>1. Len(ms) = 1 /\ Len(ns) = 1 /\ ms[1] = Undefined /\ ns[1] = Undefined
      BY <1>6
    <3>2. \A i \in 1..1 : i = 1
      OBVIOUS
    <3> QED BY <1>5, <3>1, <3>2 DEF MembersMatch
  <2>2. Len(es) = Len(fs) /\ DOMAIN es = {}
    BY <1>4, <1>6
  <2>3. alike[v][w]
    BY <1>3, <2>2
  <2> QED BY <2>1, <2>3 DEF ms, ns
<1>7. CASE es = ms /\ fs = ns /\ DOMAIN es = 1..Len(es)
  BY <1>3, <1>7 DEF MembersMatch, ms, ns
<1>8. CASE /\ es = <<>> /\ ms = <<Undefined>>
           /\ fs = ns /\ Len(fs) \in Nat \ {0} /\ (Len(fs) = 1 => fs[1] # Undefined /\ fs[1] \in Payload)
  <2>1. ~alike[v][w]
    BY <1>3, <1>4, <1>8
  <2>2. Len(ms) = 1 /\ ms[1] = Undefined
    BY <1>8
  <2>3. ~MembersMatch(ms, ns)
    <3> SUFFICES ASSUME MembersMatch(ms, ns) PROVE FALSE
      OBVIOUS
    <3>1. Len(fs) = 1 /\ alike[Undefined][fs[1]]
      BY <1>8, <2>2 DEF MembersMatch
    <3> QED BY <1>8, <3>1, UndefinedAlone
  <2> QED BY <2>1, <2>3 DEF ms, ns
<1>9. CASE /\ fs = <<>> /\ ns = <<Undefined>>
           /\ es = ms /\ Len(es) \in Nat \ {0} /\ (Len(es) = 1 => es[1] # Undefined /\ es[1] \in Payload)
  <2>1. ~alike[v][w]
    BY <1>3, <1>4, <1>9
  <2>2. Len(ns) = 1 /\ ns[1] = Undefined
    BY <1>9
  <2>3. ~MembersMatch(ms, ns)
    <3> SUFFICES ASSUME MembersMatch(ms, ns) PROVE FALSE
      OBVIOUS
    <3>1. Len(es) = 1 /\ alike[es[1]][Undefined]
      BY <1>9, <2>2 DEF MembersMatch
    <3> QED BY <1>9, <3>1, UndefinedAlone
  <2> QED BY <2>1, <2>3 DEF ms, ns
<1> QED BY <1>2, <1>6, <1>7, <1>8, <1>9

\* Arrays are told apart by the texts of their members, which are.
LEMMA ArrayApart ==
    ASSUME NEW v \in Payload, kind(v) = "array", \A i \in Places(v) : Apart(child(v, i))
    PROVE  Apart(v)
<1> SUFFICES ASSUME NEW w \in Payload, NEW x \in Seq(Token), NEW y \in Seq(Token),
                    Stops(x), Stops(y), stringify[v] \o x = stringify[w] \o y
             PROVE  alike[v][w] /\ x = y
  BY DEF Apart, Separate
<1> DEFINE z == stringify[v] \o x
           ms == Members(v)
           ns == Members(w)
           A == Texts(ms, stringify)
           B == Texts(ns, stringify)
           a == Len(A)
           b == Len(B)
           R == {r \in (1..a) \X (1..b) : alike[ms[r[1]]][ns[r[2]]]}
<1>1. kind(w) = "array"
  <2>1. Opening(v, x, z) /\ Opening(w, y, z)
    <3>1. Opening(v, x, stringify[v] \o x) /\ Opening(w, y, stringify[w] \o y)
      BY TextOpens
    <3> QED BY <3>1
  <2> HIDE DEF z
  <2> QED BY <2>1, OpeningDecides
<1>2. ArrayWritten(v, ms, A) /\ ArrayWritten(w, ns, B)
  BY <1>1, ArrayText
<1> HIDE DEF ms, ns, A, B
<1>3. /\ a = Len(ms) /\ a \in Nat \ {0} /\ A \in Seq(Seq(Token))
      /\ b = Len(ns) /\ b \in Nat \ {0} /\ B \in Seq(Seq(Token))
      /\ stringify[v] = <<Bracket>> \o join(A) \o <<EndBracket>>
      /\ stringify[w] = <<Bracket>> \o join(B) \o <<EndBracket>>
  BY <1>2 DEF ArrayWritten
<1>4. /\ \A i \in 1..a : /\ A[i] = stringify[ms[i]]
                         /\ ms[i] = Undefined \/ \E j \in Places(v) : ms[i] = child(v, j)
      /\ \A i \in 1..b : B[i] = stringify[ns[i]] /\ ns[i] \in Payload
  <2> DEFINE P == Payload
  <2>1. ns \in Seq(P) /\ \A i \in 1..Len(ns) : B[i] = stringify[ns[i]]
    BY <1>2 DEF ArrayWritten
  <2>2. \A i \in 1..Len(ms) : /\ A[i] = stringify[ms[i]]
                              /\ ms[i] = Undefined \/ \E j \in Places(v) : ms[i] = child(v, j)
    BY <1>2 DEF ArrayWritten
  <2> HIDE DEF a, b, P
  <2>3. \A i \in 1..b : ns[i] \in P
    BY <1>3, <2>1
  <2> QED BY <1>3, <2>1, <2>2, <2>3 DEF P
<1> HIDE DEF a, b
<1>5. \A i \in 1..a : Apart(ms[i])
  BY <1>4, UndefinedThere, PlainApart
<1>6. Bracket \in Token /\ EndBracket \in Token /\ Comma \in Token /\ EndBracket # Comma
  BY TokensThere, TokensDiffer
<1>7. /\ join(A) = joined(A)[a] /\ join(B) = joined(B)[b]
      /\ join(A) \in Seq(Token) /\ join(B) \in Seq(Token)
  BY <1>3, <1>6, JoinTyped DEF join, a, b
<1>8. join(A) \o (<<EndBracket>> \o x) = join(B) \o (<<EndBracket>> \o y)
  <2> DEFINE p == join(A) \o (<<EndBracket>> \o x)
             q == join(B) \o (<<EndBracket>> \o y)
  <2>1. EnclosedOpening(Token, Bracket, join(A), EndBracket, x)
    BY <1>6, <1>7, EnclosedOpens
  <2>2. EnclosedOpening(Token, Bracket, join(B), EndBracket, y)
    BY <1>6, <1>7, EnclosedOpens
  <2>3. p \in Seq(Token) /\ q \in Seq(Token) /\ <<Bracket>> \o p = <<Bracket>> \o q
    BY <1>3, <2>1, <2>2 DEF EnclosedOpening
  <2> HIDE DEF p, q
  <2>4. SameRest(Bracket, p, Bracket, q)
    BY <1>6, <2>3, RestSame
  <2> QED BY <2>3, <2>4 DEF SameRest, p, q
<1> HIDE DEF R
<1>9. Tells(Token, A, B, EndBracket, R)
  <2> SUFFICES ASSUME NEW i \in 1..Len(A), NEW j \in 1..Len(B), NEW t \in Seq(Token), NEW u \in Seq(Token)
               PROVE  TellsAt(A[i], t, B[j], u, EndBracket, <<i, j>> \in R)
    BY DEF Tells
  <2> SUFFICES ASSUME Continues(EndBracket, t), Continues(EndBracket, u), A[i] \o t = B[j] \o u
               PROVE  <<i, j>> \in R /\ t = u
    BY DEF TellsAt
  <2>1. Stops(t) /\ Stops(u)
    BY DEF Continues, Stops
  <2>2. i \in 1..a /\ j \in 1..b
    BY DEF a, b
  <2>3. Separate(ms[i], ns[j], t, u)
    BY <1>4, <1>5, <2>2 DEF Apart
  <2>4. stringify[ms[i]] \o t = stringify[ns[j]] \o u
    BY <1>4, <2>2
  <2>5. alike[ms[i]][ns[j]] /\ t = u
    BY <2>1, <2>3, <2>4 DEF Separate
  <2> QED BY <2>2, <2>5 DEF R
<1>10. Told(A, B, EndBracket, R, a, b, x, y)
  <2>1. a \in 1..Len(A) /\ b \in 1..Len(B)
    BY <1>3 DEF a, b
  <2>2. \A k \in 1..Len(A), m \in 1..Len(B) : \A t, u \in Seq(Token) : Told(A, B, EndBracket, R, k, m, t, u)
    BY <1>3, <1>6, <1>9, JoinTells
  <2> QED BY <2>1, <2>2
<1>11. a = b /\ x = y /\ \A i \in 1..a : <<a - i + 1, b - i + 1>> \in R
  BY <1>7, <1>8, <1>10 DEF Told, a, b
<1>12. MembersMatch(ms, ns)
  <2>1. ASSUME NEW i \in 1..a PROVE alike[ms[i]][ns[i]]
    <3>1. a - i + 1 \in 1..a /\ a - (a - i + 1) + 1 = i
      BY <1>3
    <3>2. <<i, i>> \in R
      BY <1>11, <3>1
    <3> QED BY <3>2 DEF R
  <2> QED BY <1>3, <1>11, <2>1 DEF MembersMatch
<1>13. alike[v][w]
  BY <1>1, <1>12, MembersAlike DEF ms, ns
<1> QED BY <1>11, <1>13

\* An item begins with its key, in quotes.
ItemOpening(k, s, x, z) ==
    /\ s \o x \in Seq(Token) /\ <<Colon>> \o (s \o x) \in Seq(Token)
    /\ <<Quote>> \o (<<Colon>> \o (s \o x)) \in Seq(Token)
    /\ <<k>> \o (<<Quote>> \o (<<Colon>> \o (s \o x))) \in Seq(Token)
    /\ z = <<Quote>> \o (<<k>> \o (<<Quote>> \o (<<Colon>> \o (s \o x))))
    /\ Begins(z, Quote)

LEMMA ItemOpens ==
    ASSUME NEW k \in Key, NEW s \in Seq(Token), NEW x \in Seq(Token)
    PROVE  ItemOpening(k, s, x, Item(k, s) \o x) /\ k \in Token
<1> DEFINE q == Quoted(k)
           e == <<Colon>>
           u == q \o e
           r == s \o x
           er == e \o r
           qer == <<Quote>> \o er
           kk == <<k>>
<1>1. k \in Token
  <2>1. k \in Text
    BY PayloadAssumption DEF Key
  <2> QED BY <2>1, TokensThere
<1>2. kk \in Seq(Token) /\ q = <<Quote>> \o kk \o <<Quote>> /\ q \in Seq(Token)
  <2>1. Quote \in Token
    BY TokensThere
  <2> QED BY <1>1, <2>1 DEF Quoted
<1>3. e \in Seq(Token)
  BY TokensThere, ShortTexts
<1> HIDE DEF q, e, kk
<1>4. u \in Seq(Token) /\ r \in Seq(Token)
  BY <1>2, <1>3, ConcatProperties
<1>5. Item(k, s) = u \o s
  BY DEF Item, q, e, u
<1> HIDE DEF u, r
<1>6. er \in Seq(Token)
  BY <1>3, <1>4, ConcatProperties
<1>7. Associated(u, s, x) /\ Associated(q, e, r)
  BY <1>2, <1>3, <1>4, Associates
<1>8. (u \o s) \o x = q \o er
  BY <1>7 DEF Associated, u, r
<1> HIDE DEF er
<1>9. Heads(Token, Quote, er)
  BY <1>6, TokensThere, FirstAndRest
<1>10. EnclosedOpening(Token, Quote, kk, Quote, er)
  BY <1>2, <1>6, TokensThere, EnclosedOpens
<1>11. qer \in Seq(Token) /\ kk \o qer \in Seq(Token) /\ q \o er = <<Quote>> \o (kk \o qer) /\ Begins(q \o er, Quote)
  BY <1>2, <1>9, <1>10 DEF Heads, EnclosedOpening
<1>12. ItemOpening(k, s, x, q \o er)
  BY <1>4, <1>6, <1>11 DEF ItemOpening, e, r, er, kk
<1> QED BY <1>1, <1>5, <1>8, <1>12

SameItem(k, s, x, l, t, y) == Item(k, s) \o x = Item(l, t) \o y => k = l /\ s \o x = t \o y

LEMMA ItemsApart ==
    ASSUME NEW k \in Key, NEW l \in Key, NEW s \in Seq(Token), NEW t \in Seq(Token),
           NEW x \in Seq(Token), NEW y \in Seq(Token)
    PROVE  SameItem(k, s, x, l, t, y)
<1> SUFFICES ASSUME Item(k, s) \o x = Item(l, t) \o y PROVE k = l /\ s \o x = t \o y
  BY DEF SameItem
<1> DEFINE r == s \o x
           er == <<Colon>> \o r
           qer == <<Quote>> \o er
           kqer == <<k>> \o qer
           r1 == t \o y
           er1 == <<Colon>> \o r1
           qer1 == <<Quote>> \o er1
           kqer1 == <<l>> \o qer1
<1>1. ItemOpening(k, s, x, Item(k, s) \o x) /\ ItemOpening(l, t, y, Item(l, t) \o y)
      /\ k \in Token /\ l \in Token
  BY ItemOpens
<1>2. /\ r \in Seq(Token) /\ er \in Seq(Token) /\ qer \in Seq(Token) /\ kqer \in Seq(Token)
      /\ r1 \in Seq(Token) /\ er1 \in Seq(Token) /\ qer1 \in Seq(Token) /\ kqer1 \in Seq(Token)
      /\ <<Quote>> \o kqer = <<Quote>> \o kqer1
  BY <1>1 DEF ItemOpening
<1>3. Quote \in Token /\ Colon \in Token
  BY TokensThere
<1> HIDE DEF kqer, kqer1
<1>4. SameRest(Quote, kqer, Quote, kqer1)
  BY <1>2, <1>3, RestSame
<1> HIDE DEF qer, qer1
<1>5. SameRest(k, qer, l, qer1)
  BY <1>1, <1>2, RestSame
<1> HIDE DEF er, er1
<1>6. SameRest(Quote, er, Quote, er1)
  BY <1>2, <1>3, RestSame
<1> HIDE DEF r, r1
<1>7. SameRest(Colon, r, Colon, r1)
  BY <1>2, <1>3, RestSame
<1>8. k = l /\ qer = qer1
  BY <1>2, <1>4, <1>5 DEF SameRest, kqer, kqer1
<1>9. r = r1
  BY <1>6, <1>7, <1>8 DEF SameRest, qer, qer1, er, er1
<1> QED BY <1>8, <1>9 DEF r, r1

\* Objects are alike if their sorted keys are the same and the values there alike.
KeysMatch(es, fs) ==
    /\ Len(sorted(es)) = Len(sorted(fs))
    /\ \A i \in 1..Len(sorted(es)) :
        /\ sorted(es)[i] = sorted(fs)[i]
        /\ alike[valueOf(es, sorted(es)[i])][valueOf(fs, sorted(fs)[i])]

LEMMA KeysAlike ==
    ASSUME NEW v \in Payload, NEW w \in Payload, kind(v) \in {"object", "PIIString"},
           kind(w) \in {"object", "PIIString"}
    PROVE  alike[v][w] <=> KeysMatch(entriesOf(v), entriesOf(w))
<1> DEFINE es == entriesOf(v)
           fs == entriesOf(w)
           ks == sorted(es)
           ls == sorted(fs)
           SameAt(k) == has(es, k) => alike[valueOf(es, k)][valueOf(fs, k)]
<1>1. alike[v][w] <=> \A k \in Key : (has(es, k) <=> has(fs, k)) /\ SameAt(k)
  <2>1. alike[v][w] = AlikeInto(v, w, alike)
    BY AlikeRule
  <2>2. kind(v) # "array"
    OBVIOUS
  <2> QED BY <2>1, <2>2 DEF AlikeInto
<1> HIDE DEF es, fs
<1>2. /\ ks \in Seq(Key) /\ DOMAIN ks = 1..Len(ks)
      /\ \A i \in DOMAIN ks : ks[i] \in Key /\ has(es, ks[i])
      /\ \A k \in Key : has(es, k) => \E i \in DOMAIN ks : ks[i] = k
  BY KeysWritten
<1>3. /\ ls \in Seq(Key) /\ DOMAIN ls = 1..Len(ls)
      /\ \A i \in DOMAIN ls : ls[i] \in Key /\ has(fs, ls[i])
      /\ \A k \in Key : has(fs, k) => \E i \in DOMAIN ls : ls[i] = k
  BY KeysWritten
<1>4. ASSUME \A k \in Key : (has(es, k) <=> has(fs, k)) /\ SameAt(k) PROVE KeysMatch(es, fs)
  <2>1. KeyOrder \in Seq(Key) /\ DOMAIN KeyOrder = 1..Len(KeyOrder) /\ \A i \in 1..Len(KeyOrder) : KeyOrder[i] \in Key
    BY PayloadAssumption DEF Key
  <2> DEFINE A == {i \in DOMAIN KeyOrder : has(es, KeyOrder[i])}
             B == {i \in DOMAIN KeyOrder : has(fs, KeyOrder[i])}
  <2>2. A = B
    BY <1>4, <2>1
  <2>3. ks = ls
    BY <2>2 DEF sorted
  <2> HIDE DEF ks, ls
  <2>4. \A i \in 1..Len(ks) : alike[valueOf(es, ks[i])][valueOf(fs, ks[i])]
    BY <1>2, <1>4
  <2> QED BY <2>3, <2>4 DEF KeysMatch, ks, ls
<1>5. ASSUME KeysMatch(es, fs), NEW k \in Key PROVE (has(es, k) <=> has(fs, k)) /\ SameAt(k)
  <2>1. Len(ks) = Len(ls) /\ \A i \in 1..Len(ks) : ks[i] = ls[i] /\ alike[valueOf(es, ks[i])][valueOf(fs, ls[i])]
    BY <1>5 DEF KeysMatch
  <2> HIDE DEF ks, ls
  <2>2. has(es, k) <=> has(fs, k)
    BY <1>2, <1>3, <2>1
  <2>3. SameAt(k)
    <3> SUFFICES ASSUME has(es, k) PROVE alike[valueOf(es, k)][valueOf(fs, k)]
      OBVIOUS
    <3>1. PICK i \in 1..Len(ks) : ks[i] = k
      BY <1>2
    <3> QED BY <2>1, <3>1
  <2> QED BY <2>2, <2>3
<1> HIDE DEF SameAt
<1>6. alike[v][w] <=> KeysMatch(es, fs)
  BY <1>1, <1>4, <1>5
<1> QED BY <1>6 DEF es, fs

\* Objects are told apart by their items: a key, a colon and the text of a value.
LEMMA ObjectApart ==
    ASSUME NEW v \in Payload, kind(v) \in {"object", "PIIString"}, \A i \in Places(v) : Apart(child(v, i))
    PROVE  Apart(v)
<1> SUFFICES ASSUME NEW w \in Payload, NEW x \in Seq(Token), NEW y \in Seq(Token),
                    Stops(x), Stops(y), stringify[v] \o x = stringify[w] \o y
             PROVE  alike[v][w] /\ x = y
  BY DEF Apart, Separate
<1> DEFINE z == stringify[v] \o x
           es == entriesOf(v)
           fs == entriesOf(w)
           ks == sorted(es)
           ls == sorted(fs)
           A == Items(es, stringify)
           B == Items(fs, stringify)
           a == Len(A)
           b == Len(B)
           ex == <<EndBrace>> \o x
           ey == <<EndBrace>> \o y
           s(i) == stringify[valueOf(es, ks[i])]
           t(j) == stringify[valueOf(fs, ls[j])]
           R == {r \in (1..a) \X (1..b) :
                    ks[r[1]] = ls[r[2]] /\ alike[valueOf(es, ks[r[1]])][valueOf(fs, ls[r[2]])]}
<1>1. kind(w) \in {"object", "PIIString"}
  <2>1. Opening(v, x, z) /\ Opening(w, y, z)
    <3>1. Opening(v, x, stringify[v] \o x) /\ Opening(w, y, stringify[w] \o y)
      BY TextOpens
    <3> QED BY <3>1
  <2> HIDE DEF z
  <2> QED BY <2>1, OpeningDecides
<1>2. ObjectWritten(v, es, A) /\ ObjectWritten(w, fs, B)
  BY <1>1, ObjectText
<1>3. \A k : has(es, k) => Apart(valueOf(es, k))
  BY ValuesInside
<1> HIDE DEF es, fs
<1>4. \A i \in DOMAIN ks : A[i] = Item(ks[i], s(i))
  BY DEF Items
<1>5. \A j \in DOMAIN ls : B[j] = Item(ls[j], t(j))
  BY DEF Items
<1> HIDE DEF A, B
<1>6. /\ es \in Entries(Payload) /\ A \in Seq(Seq(Token)) /\ a \in Nat /\ a = Len(ks)
      /\ fs \in Entries(Payload) /\ B \in Seq(Seq(Token)) /\ b \in Nat /\ b = Len(ls)
      /\ stringify[v] = <<Brace>> \o join(A) \o <<EndBrace>>
      /\ stringify[w] = <<Brace>> \o join(B) \o <<EndBrace>>
  BY <1>2 DEF ObjectWritten
<1>7. /\ ks \in Seq(Key) /\ \A i \in DOMAIN ks : ks[i] \in Key /\ has(es, ks[i])
      /\ ls \in Seq(Key) /\ \A j \in DOMAIN ls : ls[j] \in Key /\ has(fs, ls[j])
  BY KeysWritten
<1> HIDE DEF ks, ls
<1>8. /\ \A i \in 1..a : /\ ks[i] \in Key /\ A[i] = Item(ks[i], s(i)) /\ s(i) \in Seq(Token)
                         /\ Apart(valueOf(es, ks[i]))
      /\ \A j \in 1..b : /\ ls[j] \in Key /\ B[j] = Item(ls[j], t(j)) /\ t(j) \in Seq(Token)
                         /\ valueOf(fs, ls[j]) \in Payload
  <2>1. DOMAIN ks = 1..a /\ DOMAIN ls = 1..b
    BY <1>6, <1>7
  <2>2. \A i \in 1..a : valueOf(es, ks[i]) \in Payload
    BY <1>6, <1>7, <2>1, ValueFound
  <2>3. \A j \in 1..b : valueOf(fs, ls[j]) \in Payload
    BY <1>6, <1>7, <2>1, ValueFound
  <2> HIDE DEF a, b
  <2> QED BY <1>3, <1>4, <1>5, <1>7, <2>1, <2>2, <2>3, StringifyRule
<1> HIDE DEF s, t
<1>9. Brace \in Token /\ EndBrace \in Token /\ Comma \in Token /\ EndBrace # Comma /\ Quote # EndBrace
  BY TokensThere, TokensDiffer
<1>10. join(A) = joined(A)[a] /\ join(B) = joined(B)[b] /\ join(A) \in Seq(Token) /\ join(B) \in Seq(Token)
  BY <1>6, <1>9, JoinTyped DEF join
<1> HIDE DEF a, b
<1>11. join(A) \o ex = join(B) \o ey
  <2> DEFINE p == join(A) \o ex
             q == join(B) \o ey
  <2>1. EnclosedOpening(Token, Brace, join(A), EndBrace, x)
    BY <1>9, <1>10, EnclosedOpens
  <2>2. EnclosedOpening(Token, Brace, join(B), EndBrace, y)
    BY <1>9, <1>10, EnclosedOpens
  <2>3. p \in Seq(Token) /\ q \in Seq(Token) /\ <<Brace>> \o p = <<Brace>> \o q
    BY <1>6, <2>1, <2>2 DEF EnclosedOpening
  <2> HIDE DEF p, q
  <2>4. SameRest(Brace, p, Brace, q)
    BY <1>9, <2>3, RestSame
  <2> QED BY <2>3, <2>4 DEF SameRest, p, q
<1>12. /\ ex \in Seq(Token) /\ Begins(ex, EndBrace) /\ ey \in Seq(Token) /\ Begins(ey, EndBrace)
       /\ SameRest(EndBrace, x, EndBrace, y)
  <2>1. Heads(Token, EndBrace, x) /\ Heads(Token, EndBrace, y)
    BY <1>9, FirstAndRest
  <2>2. SameRest(EndBrace, x, EndBrace, y)
    BY <1>9, RestSame
  <2> QED BY <2>1, <2>2 DEF Heads, Begins
<1> HIDE DEF ex, ey
<1>13. ASSUME NEW ts \in Seq(Seq(Token)), NEW e \in Seq(Token)
       PROVE  /\ Len(ts) = 0 => join(ts) \o e = e
              /\ Len(ts) # 0 /\ (\E k \in Key : \E u \in Seq(Token) : ts[1] = Item(k, u)) =>
                    Begins(join(ts) \o e, Quote)
  <2>1. ASSUME Len(ts) = 0 PROVE join(ts) \o e = e
    <3>1. joined(ts)[0] = <<>>
      BY <1>9, JoinRule
    <3>2. <<>> \o e = e
      BY ConcatEmptySeq
    <3> QED BY <2>1, <3>1, <3>2 DEF join
  <2>2. ASSUME Len(ts) # 0, NEW k \in Key, NEW u \in Seq(Token), ts[1] = Item(k, u)
        PROVE  Begins(join(ts) \o e, Quote)
    <3> DEFINE n == Len(ts)
               f == IF n = 1 THEN e ELSE <<Comma>> \o (joined(ts)[n - 1] \o e)
    <3>1. n \in 1..Len(ts) /\ n - n + 1 = 1
      BY <2>2
    <3>2. JoinOpening(Token, ts, n, e)
      BY <1>9, <3>1, JoinOpens
    <3>3. joined(ts)[n] \o e = ts[1] \o f /\ (n # 1 => joined(ts)[n - 1] \o e \in Seq(Token))
      BY <3>1, <3>2 DEF JoinOpening
    <3> HIDE DEF n
    <3>4. f \in Seq(Token)
      <4>1. CASE n = 1
        BY <4>1
      <4>2. CASE n # 1
        <5> DEFINE r == joined(ts)[n - 1] \o e
        <5>1. r \in Seq(Token) /\ f = <<Comma>> \o r
          BY <3>3, <4>2
        <5> HIDE DEF r, f
        <5>2. Heads(Token, Comma, r)
          BY <1>9, <5>1, FirstAndRest
        <5> QED BY <5>1, <5>2 DEF Heads
      <4> QED BY <4>1, <4>2
    <3> HIDE DEF f
    <3>5. ItemOpening(k, u, f, Item(k, u) \o f)
      BY <3>4, ItemOpens
    <3>6. Begins(joined(ts)[n] \o e, Quote)
      BY <2>2, <3>3, <3>5 DEF ItemOpening
    <3> QED BY <3>6 DEF join, n
  <2> QED BY <2>1, <2>2
<1>14. /\ a = 0 => join(A) \o ex = ex
       /\ a # 0 => Begins(join(A) \o ex, Quote)
  <2>1. a # 0 => 1 \in 1..a
    BY <1>6
  <2>2. a # 0 => ks[1] \in Key /\ s(1) \in Seq(Token) /\ A[1] = Item(ks[1], s(1))
    BY <1>8, <2>1
  <2> QED BY <1>6, <1>12, <1>13, <2>2 DEF a
<1>15. /\ b = 0 => join(B) \o ey = ey
       /\ b # 0 => Begins(join(B) \o ey, Quote)
  <2>1. b # 0 => 1 \in 1..b
    BY <1>6
  <2>2. b # 0 => ls[1] \in Key /\ t(1) \in Seq(Token) /\ B[1] = Item(ls[1], t(1))
    BY <1>8, <2>1
  <2> QED BY <1>6, <1>12, <1>13, <2>2 DEF b
<1>16. a = 0 <=> b = 0
  BY <1>9, <1>11, <1>12, <1>14, <1>15 DEF Begins
<1>17. CASE a = 0
  <2>1. ex = ey
    BY <1>11, <1>14, <1>15, <1>16, <1>17
  <2>2. x = y
    BY <1>12, <2>1 DEF SameRest, ex, ey
  <2>3. KeysMatch(es, fs)
    BY <1>6, <1>16, <1>17 DEF KeysMatch, ks, ls
  <2> QED BY <1>1, <2>2, <2>3, KeysAlike DEF es, fs
<1>18. CASE a # 0
  <2> HIDE DEF R
  <2>1. Tells(Token, A, B, EndBrace, R)
    <3> SUFFICES ASSUME NEW i \in 1..Len(A), NEW j \in 1..Len(B), NEW p \in Seq(Token), NEW q \in Seq(Token)
                 PROVE  TellsAt(A[i], p, B[j], q, EndBrace, <<i, j>> \in R)
      BY DEF Tells
    <3> SUFFICES ASSUME Continues(EndBrace, p), Continues(EndBrace, q), A[i] \o p = B[j] \o q
                 PROVE  <<i, j>> \in R /\ p = q
      BY DEF TellsAt
    <3>1. Stops(p) /\ Stops(q)
      BY DEF Continues, Stops
    <3>2. i \in 1..a /\ j \in 1..b
      BY DEF a, b
    <3>3. /\ ks[i] \in Key /\ ls[j] \in Key /\ s(i) \in Seq(Token) /\ t(j) \in Seq(Token)
          /\ Item(ks[i], s(i)) \o p = Item(ls[j], t(j)) \o q
      BY <1>8, <3>2
    <3>4. ks[i] = ls[j] /\ s(i) \o p = t(j) \o q
      <4> DEFINE k == ks[i]
                 l == ls[j]
                 si == s(i)
                 tj == t(j)
      <4>1. /\ k \in Key /\ l \in Key /\ si \in Seq(Token) /\ tj \in Seq(Token)
            /\ Item(k, si) \o p = Item(l, tj) \o q
        BY <3>3
      <4> HIDE DEF k, l, si, tj
      <4>2. SameItem(k, si, p, l, tj, q)
        BY <4>1, ItemsApart
      <4>3. k = l /\ si \o p = tj \o q
        BY <4>1, <4>2 DEF SameItem
      <4> QED BY <4>3 DEF k, l, si, tj
    <3>5. Separate(valueOf(es, ks[i]), valueOf(fs, ls[j]), p, q)
      BY <1>8, <3>2 DEF Apart
    <3>6. alike[valueOf(es, ks[i])][valueOf(fs, ls[j])] /\ p = q
      BY <3>1, <3>4, <3>5 DEF Separate, s, t
    <3> QED BY <3>2, <3>4, <3>6 DEF R
  <2>2. Told(A, B, EndBrace, R, a, b, x, y)
    <3>1. a \in 1..Len(A) /\ b \in 1..Len(B)
      BY <1>6, <1>16, <1>18 DEF a, b
    <3>2. \A k \in 1..Len(A), m \in 1..Len(B) : \A p, q \in Seq(Token) : Told(A, B, EndBrace, R, k, m, p, q)
      BY <1>6, <1>9, <2>1, JoinTells
    <3> QED BY <3>1, <3>2
  <2>3. a = b /\ x = y /\ \A i \in 1..a : <<a - i + 1, b - i + 1>> \in R
    BY <1>10, <1>11, <2>2 DEF Told, a, b, ex, ey
  <2>4. KeysMatch(es, fs)
    <3>1. ASSUME NEW i \in 1..a PROVE ks[i] = ls[i] /\ alike[valueOf(es, ks[i])][valueOf(fs, ls[i])]
      <4>1. a - i + 1 \in 1..a /\ a - (a - i + 1) + 1 = i
        BY <1>6
      <4>2. <<i, i>> \in R
        BY <2>3, <4>1
      <4> QED BY <4>2 DEF R
    <3> QED BY <1>6, <2>3, <3>1 DEF KeysMatch, ks, ls
  <2> QED BY <1>1, <2>3, <2>4, KeysAlike DEF es, fs
<1> QED BY <1>17, <1>18

\* No text is the beginning of another one, unless it is of a value that is alike.
LEMMA TextsApart == \A v \in Payload : Apart(v)
<1> DEFINE A == {v \in Payload : Apart(v)}
<1>1. ASSUME NEW v \in Payload, \A i \in Places(v) : child(v, i) \in A PROVE v \in A
  BY <1>1, PlainApart, ArrayApart, ObjectApart DEF Plain
<1> HIDE DEF A
<1>2. Payload \subseteq A
  BY <1>1, PayloadInduction
<1> QED BY <1>2 DEF A

-----------------------------------------------------------------------------
(* Values that are alike have one text.                                      *)

Joint(v) == \A w \in Payload : alike[v][w] => stringify[v] = stringify[w]

LEMMA AlikeJoint == \A v \in Payload : Joint(v)
<1> DEFINE A == {v \in Payload : Joint(v)}
<1>1. ASSUME NEW u \in Payload, Plain(u) PROVE u \in A
  <2> SUFFICES ASSUME NEW w \in Payload, alike[u][w] PROVE stringify[u] = stringify[w]
    BY DEF Joint
  <2>1. Plain(w) /\ meant(u) = meant(w)
    <3>1. AlikeInto(u, w, alike)
      BY AlikeRule
    <3> QED BY <1>1, <3>1 DEF AlikeInto, Plain
  <2>2. stringify[u] = PlainText(meant(u)) /\ stringify[w] = PlainText(meant(w))
    BY <1>1, <2>1, StringifyRule DEF TextInto, Plain
  <2> QED BY <2>1, <2>2
<1>2. ASSUME NEW v \in Payload, \A i \in Places(v) : child(v, i) \in A PROVE v \in A
  <2>1. CASE Plain(v)
    BY <1>1, <2>1
  <2>2. CASE kind(v) = "array"
    <3> SUFFICES ASSUME NEW w \in Payload, alike[v][w] PROVE stringify[v] = stringify[w]
      BY DEF Joint
    <3> DEFINE ms == Members(v)
               ns == Members(w)
               ts == Texts(ms, stringify)
               us == Texts(ns, stringify)
    <3>1. kind(w) = "array"
      <4>1. AlikeInto(v, w, alike)
        BY AlikeRule
      <4> QED BY <2>2, <4>1 DEF AlikeInto
    <3>2. ArrayWritten(v, ms, ts) /\ ArrayWritten(w, ns, us) /\ MembersMatch(ms, ns)
      BY <2>2, <3>1, ArrayText, MembersAlike
    <3>3. Undefined \in A
      BY <1>1, UndefinedThere
    <3> HIDE DEF ms, ns, ts, us, A
    <3>4. \A i \in 1..Len(ms) : ms[i] \in A /\ ns[i] \in Payload
      <4> DEFINE P == Payload
      <4>1. ns \in Seq(P) /\ Len(ms) = Len(ns)
        BY <3>2 DEF ArrayWritten, MembersMatch
      <4> HIDE DEF P
      <4>2. \A i \in 1..Len(ms) : ns[i] \in P
        BY <4>1
      <4>3. \A i \in 1..Len(ms) : ms[i] \in A
        BY <1>2, <3>2, <3>3 DEF ArrayWritten
      <4> QED BY <4>2, <4>3 DEF P
    <3>5. \A i \in 1..Len(ms) : ts[i] = us[i]
      <4> SUFFICES ASSUME NEW i \in 1..Len(ms) PROVE ts[i] = us[i]
        OBVIOUS
      <4>1. Joint(ms[i]) /\ ns[i] \in Payload
        BY <3>4 DEF A
      <4>2. alike[ms[i]][ns[i]] /\ Len(ms) = Len(ns)
        BY <3>2 DEF MembersMatch
      <4>3. stringify[ms[i]] = stringify[ns[i]]
        BY <4>1, <4>2 DEF Joint
      <4>4. ts[i] = stringify[ms[i]]
        BY <3>2 DEF ArrayWritten
      <4>5. us[i] = stringify[ns[i]]
        BY <3>2, <4>2 DEF ArrayWritten
      <4> QED BY <4>3, <4>4, <4>5
    <3>6. ts = us
      <4>1. ts \in Seq(Seq(Token)) /\ us \in Seq(Seq(Token)) /\ Len(ts) = Len(ms) /\ Len(us) = Len(ms)
        BY <3>2 DEF ArrayWritten, MembersMatch
      <4> QED BY <3>5, <4>1, SeqEqual
    <3> QED BY <3>2, <3>6 DEF ArrayWritten
  <2>3. CASE kind(v) \in {"object", "PIIString"}
    <3> SUFFICES ASSUME NEW w \in Payload, alike[v][w] PROVE stringify[v] = stringify[w]
      BY DEF Joint
    <3> DEFINE es == entriesOf(v)
               fs == entriesOf(w)
               ks == sorted(es)
               ls == sorted(fs)
               ts == Items(es, stringify)
               us == Items(fs, stringify)
    <3>1. kind(w) \in {"object", "PIIString"}
      <4>1. AlikeInto(v, w, alike)
        BY AlikeRule
      <4> QED BY <2>3, <4>1 DEF AlikeInto
    <3>2. ObjectWritten(v, es, ts) /\ ObjectWritten(w, fs, us) /\ KeysMatch(es, fs)
      BY <2>3, <3>1, ObjectText, KeysAlike
    <3>3. \A k : has(es, k) => valueOf(es, k) \in A
      BY <1>2, <2>3, ValuesInside
    <3> HIDE DEF es, fs, A
    <3>4. /\ \A i \in DOMAIN ks : ts[i] = Item(ks[i], stringify[valueOf(es, ks[i])])
          /\ \A i \in DOMAIN ls : us[i] = Item(ls[i], stringify[valueOf(fs, ls[i])])
      BY DEF Items
    <3> HIDE DEF ts, us
    <3>5. /\ ks \in Seq(Key) /\ \A i \in DOMAIN ks : has(es, ks[i])
          /\ ls \in Seq(Key) /\ \A i \in DOMAIN ls : has(fs, ls[i])
      BY KeysWritten
    <3>6. /\ Len(ks) = Len(ls)
          /\ \A i \in 1..Len(ks) : ks[i] = ls[i] /\ alike[valueOf(es, ks[i])][valueOf(fs, ls[i])]
      BY <3>2 DEF KeysMatch
    <3>7. fs \in Entries(Payload)
      BY <3>2 DEF ObjectWritten
    <3> HIDE DEF ks, ls
    <3>8. \A i \in 1..Len(ks) : valueOf(es, ks[i]) \in A /\ valueOf(fs, ls[i]) \in Payload
      <4>1. DOMAIN ks = 1..Len(ks) /\ DOMAIN ls = 1..Len(ks)
        BY <3>5, <3>6
      <4> QED BY <3>3, <3>5, <3>7, <4>1, ValueFound
    <3>9. \A i \in 1..Len(ks) : stringify[valueOf(es, ks[i])] = stringify[valueOf(fs, ls[i])]
      BY <3>6, <3>8 DEF A, Joint
    <3>10. \A i \in 1..Len(ks) : ts[i] = us[i]
      <4>1. DOMAIN ks = 1..Len(ks) /\ DOMAIN ls = 1..Len(ks)
        BY <3>5, <3>6
      <4> QED BY <3>4, <3>6, <3>9, <4>1
    <3>11. ts = us
      <4>1. ts \in Seq(Seq(Token)) /\ us \in Seq(Seq(Token)) /\ Len(ts) = Len(ks) /\ Len(us) = Len(ks)
        BY <3>2, <3>6 DEF ObjectWritten, ks, ls
      <4> QED BY <3>10, <4>1, SeqEqual
    <3> QED BY <3>2, <3>11 DEF ObjectWritten
  <2> QED BY <2>1, <2>2, <2>3 DEF Plain
<1> HIDE DEF A
<1>3. Payload \subseteq A
  BY <1>2, PayloadInduction
<1> QED BY <1>3 DEF A

\* The text of a payload tells exactly what it stands for.
LEMMA CanonicalTextsDecide == \A v, w \in Payload : CanonicalDecides(v, w)
<1> SUFFICES ASSUME NEW v \in Payload, NEW w \in Payload PROVE CanonicalDecides(v, w)
  OBVIOUS
<1>1. alike[v][w] => stringify[v] = stringify[w]
  BY AlikeJoint DEF Joint
<1>2. stringify[v] = stringify[w] => alike[v][w]
  <2> SUFFICES ASSUME stringify[v] = stringify[w] PROVE alike[v][w]
    OBVIOUS
  <2>1. <<>> \in Seq(Token) /\ Stops(<<>>)
    BY DEF Stops
  <2>2. Separate(v, w, <<>>, <<>>)
    BY <2>1, TextsApart DEF Apart
  <2> QED BY <2>1, <2>2 DEF Separate
<1>3. alike[v][w] \in BOOLEAN
  <2>1. alike[v][w] = AlikeInto(v, w, alike)
    BY AlikeRule
  <2>2. AlikeInto(v, w, alike) \in BOOLEAN
    BY Zenon DEF AlikeInto
  <2> QED BY <2>1, <2>2
<1> QED BY <1>1, <1>2, <1>3 DEF CanonicalDecides

-----------------------------------------------------------------------------
(* The algorithms, for every input that Records gives them.                  *)

\* A behaviour about an algorithm keeps the input it began with.
InputHeld == \/ topic \in {"vault", "secrets", "review"}
             \/ /\ topic \in {"payload", "decimal", "taxId", "time", "listing"}
                /\ input \in Input[topic]

LEMMA InputInvariant == Spec => []InputHeld
<1>1. Init => InputHeld
  BY DEF Init, InputHeld
<1>2. InputHeld /\ [Next]_records => InputHeld'
  BY DEF InputHeld, Next, VaultStep, SecretStep, ReviewStep, records
<1> QED BY <1>1, <1>2, PTL DEF Spec

\* Decimals survive parsing and printing, compare at any scale and are rounded to a
\* nearest one; a country's patterns for tax ids exclude each other but for
\* Colombia's; times of one form come in the order in which they pass; a listing
\* split at a time loses nothing and a page is its beginning (decimal.ts, tax-id.ts,
\* iso-datetime.ts, fake-verification-repository.ts), whatever the input.
THEOREM ValuesAlwaysExact == Spec => []ValuesExact
<1>1. InputHeld => ValuesExact
  <2> SUFFICES ASSUME InputHeld PROVE ValuesExact
    OBVIOUS
  <2>1. topic = "decimal" => DecimalExact(input[1], input[2])
    <3> SUFFICES ASSUME topic = "decimal" PROVE DecimalExact(input[1], input[2])
      OBVIOUS
    <3>1. input \in DecimalText \X DecimalText
      BY InputAssumption DEF InputHeld
    <3>2. input[1] \in DecimalText /\ input[2] \in DecimalText
      BY <3>1
    <3> QED BY <3>2, DecimalsAreExact
  <2>2. topic = "taxId" => TaxKindDecided(input[1], input[2])
    <3> SUFFICES ASSUME topic = "taxId" PROVE TaxKindDecided(input[1], input[2])
      OBVIOUS
    <3>1. input \in Country \X Shape
      BY InputAssumption DEF InputHeld
    <3>2. input[1] \in Country /\ input[2] \in Shape
      BY <3>1
    <3> QED BY <3>2, TaxKindsDecided
  <2>3. topic = "time" => TimesInOrder(input[1], input[2])
    <3> SUFFICES ASSUME topic = "time" PROVE TimesInOrder(input[1], input[2])
      OBVIOUS
    <3>1. input \in DateText \X DateText
      BY InputAssumption DEF InputHeld
    <3>2. input[1] \in DateText /\ input[2] \in DateText
      BY <3>1
    <3> QED BY <3>2, TextsInOrderOfTime
  <2>4. topic = "listing" => ListingExact(input.sessions, input.filter, input.at)
    <3> SUFFICES ASSUME topic = "listing" PROVE ListingExact(input.sessions, input.filter, input.at)
      OBVIOUS
    <3>1. input \in [sessions : Seq(Session), filter : Filter, at : DateText]
      BY InputAssumption DEF InputHeld
    <3>2. input.sessions \in Seq(Session) /\ input.filter \in Filter /\ input.at \in DateText
      BY <3>1
    <3> QED BY <3>2, ListingsAreExact
  <2> QED BY <2>1, <2>2, <2>3, <2>4 DEF ValuesExact
<1> QED BY <1>1, InputInvariant, PTL

\* At whatever depth, redact hides what is under a forbidden key and every PIIString
\* and nothing else; the audit log refuses a payload in which objects alone lead to a
\* forbidden key, and refuses neither one without a forbidden key nor the redacted
\* form of one that it accepts (pii-redactor.ts, append-audit-event.ts).
THEOREM RedactionAlwaysExact == Spec => []RedactionIsExact
<1>1. InputHeld => RedactionIsExact
  BY InputAssumption, RedactionsAreExact DEF InputHeld, RedactionIsExact
<1> QED BY <1>1, InputInvariant, PTL

\* Two payloads of a run have one canonical text, and with it one hash in the audit
\* chain, exactly if they mean the same (canonical-json.ts).
THEOREM CanonicalAlwaysExact == Spec => []CanonicalIsExact
<1>1. InputHeld => CanonicalIsExact
  <2> SUFFICES ASSUME InputHeld, topic = "payload", NEW w \in Input.payload
               PROVE  CanonicalDecides(input, w)
    BY DEF CanonicalIsExact
  <2>1. input \in Payload /\ w \in Payload
    BY InputAssumption DEF InputHeld
  <2> QED BY <2>1, CanonicalTextsDecide
<1> QED BY <1>1, InputInvariant, PTL

=============================================================================
