-------------------------- MODULE Selection_proofs ---------------------------
(***************************************************************************)
(* What filter returns, for any sequence and any positions kept.  The      *)
(* recursive function is first shown to exist (the follower of its rule up *)
(* to m is made by induction on m, and two agree), then every fact about   *)
(* Selected is an induction over the prefix it has gone through.           *)
(***************************************************************************)
EXTENDS Selection, WellFoundedInduction, TLAPS

\* Induction over the natural numbers, for a set of them.
LEMMA SetInduction ==
    ASSUME NEW T \in SUBSET Nat, 0 \in T, \A n \in T : n + 1 \in T
    PROVE  \A n \in Nat : n \in T
<1> SUFFICES ASSUME Nat \ T # {} PROVE FALSE
  OBVIOUS
<1> DEFINE R == {p \in Nat \X Nat : p[1] < p[2]}
<1>1. IsWellFoundedOn(R, Nat)
  BY NatLessThanWellFounded DEF OpToRel
<1>2. PICK x \in Nat \ T : \A y \in Nat \ T : ~(<<y, x>> \in R)
  <2> HIDE DEF R
  <2> QED BY <1>1, WFMin
<1>3. x # 0
  OBVIOUS
<1>4. x - 1 \in Nat /\ <<x - 1, x>> \in R
  BY <1>3
<1>5. x - 1 \in T
  BY <1>2, <1>4
<1> QED BY <1>3, <1>5

-----------------------------------------------------------------------------
(* SelectedUpTo is defined: it is the function its definition asks for.     *)

\* What the recursion of SelectedUpTo puts at n, given the function so far.
Rule(s, kept, n, g) == IF n = 0 THEN <<>> ELSE Keep(s, kept, n, g[n - 1])

\* g follows the rule from 0 to m.
Follows(s, kept, g, m) == \A n \in 0..m : g[n] = Rule(s, kept, n, g)

\* There is a function that follows the rule up to m, for every m.
LEMMA FollowersExist ==
    ASSUME NEW s, NEW kept
    PROVE  \A m \in Nat : \E g : Follows(s, kept, g, m)
<1> DEFINE T == {m \in Nat : \E g : Follows(s, kept, g, m)}
<1>1. 0 \in T
  <2>1. Follows(s, kept, [n \in {0} |-> <<>>], 0)
    BY DEF Follows, Rule
  <2> QED BY <2>1
<1>2. ASSUME NEW m \in T PROVE m + 1 \in T
  <2>1. PICK g : Follows(s, kept, g, m)
    OBVIOUS
  <2> DEFINE h == [n \in 0..(m + 1) |-> IF n = m + 1 THEN Keep(s, kept, n, g[m]) ELSE g[n]]
  <2>2. ASSUME NEW n \in 0..(m + 1) PROVE h[n] = Rule(s, kept, n, h)
    <3>1. CASE n = m + 1
      <4>1. n # 0 /\ n - 1 = m /\ h[m] = g[m] /\ h[n] = Keep(s, kept, n, g[m])
        BY <3>1
      <4> QED BY <4>1 DEF Rule
    <3>2. CASE n # m + 1
      <4>1. n \in 0..m /\ h[n] = g[n] /\ (n # 0 => n - 1 \in 0..m /\ h[n - 1] = g[n - 1])
        BY <3>2
      <4>2. g[n] = Rule(s, kept, n, g)
        BY <2>1, <4>1 DEF Follows
      <4> HIDE DEF h
      <4> QED BY <4>1, <4>2 DEF Rule
    <3> QED BY <3>1, <3>2
  <2>3. Follows(s, kept, h, m + 1)
    BY <2>2 DEF Follows
  <2> QED BY <2>3
<1> HIDE DEF T
<1>3. \A m \in Nat : m \in T
  <2>1. T \in SUBSET Nat
    BY DEF T
  <2> QED BY <1>1, <1>2, <2>1, SetInduction
<1> QED BY <1>3 DEF T

\* Two that follow it agree.
LEMMA FollowersAgree ==
    ASSUME NEW s, NEW kept, NEW g, NEW h, NEW m \in Nat,
           Follows(s, kept, g, m), Follows(s, kept, h, m)
    PROVE  g[m] = h[m]
<1> DEFINE T == {n \in Nat : n <= m => g[n] = h[n]}
<1>1. 0 \in T
  BY DEF Follows, Rule
<1>2. ASSUME NEW n \in T PROVE n + 1 \in T
  <2> SUFFICES ASSUME n + 1 <= m PROVE g[n + 1] = h[n + 1]
    OBVIOUS
  <2>1. n \in Nat /\ g[n] = h[n] /\ n + 1 \in 0..m /\ n + 1 # 0 /\ (n + 1) - 1 = n
    OBVIOUS
  <2>2. g[n + 1] = Rule(s, kept, n + 1, g) /\ h[n + 1] = Rule(s, kept, n + 1, h)
    BY <2>1 DEF Follows
  <2> QED BY <2>1, <2>2 DEF Rule
<1> HIDE DEF T
<1>3. \A n \in Nat : n \in T
  <2>1. T \in SUBSET Nat
    BY DEF T
  <2> QED BY <1>1, <1>2, <2>1, SetInduction
<1> QED BY <1>3 DEF T

\* So the function that SelectedUpTo chooses follows it everywhere.
LEMMA SelectedUpToRule ==
    ASSUME NEW s, NEW kept
    PROVE  \A n \in Nat : SelectedUpTo(s, kept)[n] = Rule(s, kept, n, SelectedUpTo(s, kept))
<1> DEFINE IsIt(g) == g = [n \in Nat |-> IF n = 0 THEN <<>> ELSE Keep(s, kept, n, g[n - 1])]
<1>1. \E g : IsIt(g)
  <2> DEFINE F(m) == CHOOSE g : Follows(s, kept, g, m)
             g == [m \in Nat |-> F(m)[m]]
  <2>1. ASSUME NEW m \in Nat PROVE Follows(s, kept, F(m), m)
    BY FollowersExist
  <2>2. ASSUME NEW m \in Nat PROVE g[m] = Rule(s, kept, m, g)
    <3> HIDE DEF F
    <3>1. F(m)[m] = Rule(s, kept, m, F(m))
      BY <2>1 DEF Follows
    <3>2. CASE m = 0
      BY <3>1, <3>2 DEF Rule
    <3>3. CASE m # 0
      <4>1. m - 1 \in Nat
        BY <3>3
      <4>2. Follows(s, kept, F(m), m - 1) /\ Follows(s, kept, F(m - 1), m - 1)
        BY <2>1, <4>1 DEF Follows
      <4>3. F(m)[m - 1] = F(m - 1)[m - 1]
        BY <4>1, <4>2, FollowersAgree
      <4> QED BY <3>1, <3>3, <4>1, <4>3 DEF Rule
    <3> QED BY <3>2, <3>3
  <2> DEFINE r == [n \in Nat |-> IF n = 0 THEN <<>> ELSE Keep(s, kept, n, g[n - 1])]
  <2>3. ASSUME NEW m \in Nat PROVE g[m] = r[m]
    <3> HIDE DEF g
    <3> QED BY <2>2 DEF Rule
  <2>4. g = [m \in Nat |-> g[m]] /\ r = [m \in Nat |-> r[m]]
    <3> HIDE DEF F
    <3> QED OBVIOUS
  <2>5. g = r
    <3> HIDE DEF g, r
    <3> QED BY <2>3, <2>4
  <2> HIDE DEF F
  <2> QED BY <2>5
<1>2. IsIt(SelectedUpTo(s, kept))
  <2>1. SelectedUpTo(s, kept) = CHOOSE g : IsIt(g)
    BY DEF SelectedUpTo
  <2> HIDE DEF IsIt
  <2> QED BY <1>1, <2>1
<1> QED BY <1>2 DEF Rule

-----------------------------------------------------------------------------
(* What Selected returns.                                                   *)

\* SelectedUpTo(s, kept) at 0, and at n + 1 from what it is at n.
LEMMA SelectedUpToNext ==
    ASSUME NEW s, NEW kept
    PROVE  /\ SelectedUpTo(s, kept)[0] = <<>>
           /\ \A n \in Nat : SelectedUpTo(s, kept)[n + 1] =
                Keep(s, kept, n + 1, SelectedUpTo(s, kept)[n])
<1>1. SelectedUpTo(s, kept)[0] = <<>>
  BY SelectedUpToRule DEF Rule
<1>2. ASSUME NEW n \in Nat
      PROVE  SelectedUpTo(s, kept)[n + 1] = Keep(s, kept, n + 1, SelectedUpTo(s, kept)[n])
  <2>1. n + 1 \in Nat /\ n + 1 # 0 /\ (n + 1) - 1 = n
    OBVIOUS
  <2>2. SelectedUpTo(s, kept)[n + 1] = Rule(s, kept, n + 1, SelectedUpTo(s, kept))
    BY <2>1, SelectedUpToRule
  <2> QED BY <2>1, <2>2 DEF Rule
<1> QED BY <1>1, <1>2

\* It is a sequence of entries of s.
LEMMA SelectedType ==
    ASSUME NEW S, NEW s \in Seq(S), NEW kept
    PROVE  Selected(s, kept) \in Seq(S)
<1> DEFINE f == SelectedUpTo(s, kept)
           T == {n \in Nat : n <= Len(s) => f[n] \in Seq(S)}
<1>0. f[0] = <<>> /\ \A n \in Nat : f[n + 1] = Keep(s, kept, n + 1, f[n])
  BY SelectedUpToNext
<1> HIDE DEF f
<1>1. 0 \in T
  <2>1. <<>> \in Seq(S) /\ Len(<<>>) = 0
    OBVIOUS
  <2> QED BY <1>0, <2>1
<1>2. ASSUME NEW n \in T PROVE n + 1 \in T
  <2> SUFFICES ASSUME n + 1 <= Len(s) PROVE f[n + 1] \in Seq(S)
    OBVIOUS
  <2>1. n \in Nat /\ n + 1 \in 1..Len(s) /\ s[n + 1] \in S /\ f[n] \in Seq(S)
    OBVIOUS
  <2>2. Append(f[n], s[n + 1]) \in Seq(S)
    BY <2>1
  <2>3. f[n + 1] = Keep(s, kept, n + 1, f[n])
    BY <1>0, <2>1
  <2> QED BY <2>1, <2>2, <2>3 DEF Keep
<1> HIDE DEF T
<1>3. \A n \in Nat : n \in T
  <2>1. T \in SUBSET Nat
    BY DEF T
  <2> QED BY <1>1, <1>2, <2>1, SetInduction
<1> QED BY <1>3 DEF T, f, Selected

\* It depends only on the entries and the positions kept.
LEMMA SelectedUpToSame ==
    ASSUME NEW s, NEW t, NEW kept, NEW more, NEW m \in Nat,
           \A i \in 1..m : s[i] = t[i] /\ (i \in kept <=> i \in more)
    PROVE  SelectedUpTo(s, kept)[m] = SelectedUpTo(t, more)[m]
<1> DEFINE T == {n \in Nat : n <= m => SelectedUpTo(s, kept)[n] = SelectedUpTo(t, more)[n]}
<1>1. 0 \in T
  BY SelectedUpToNext
<1>2. ASSUME NEW n \in T PROVE n + 1 \in T
  <2>1. n \in Nat /\ (n + 1 <= m => n + 1 \in 1..m)
    OBVIOUS
  <2> QED BY <2>1, SelectedUpToNext DEF Keep
<1> HIDE DEF T
<1>3. \A n \in Nat : n \in T
  <2>1. T \in SUBSET Nat
    BY DEF T
  <2> QED BY <1>1, <1>2, <2>1, SetInduction
<1> QED BY <1>3 DEF T

\* Positions beyond the end do not matter.
LEMMA SelectedSame ==
    ASSUME NEW S, NEW s \in Seq(S), NEW kept, NEW more,
           \A i \in 1..Len(s) : i \in kept <=> i \in more
    PROVE  Selected(s, kept) = Selected(s, more)
<1> DEFINE m == Len(s)
<1>1. m \in Nat /\ \A i \in 1..m : s[i] = s[i] /\ (i \in kept <=> i \in more)
  OBVIOUS
<1> HIDE DEF m
<1>2. SelectedUpTo(s, kept)[m] = SelectedUpTo(s, more)[m]
  BY <1>1, SelectedUpToSame
<1> QED BY <1>2 DEF Selected, m

\* An entry appended comes last if it is kept, and changes nothing if it is not.
LEMMA SelectedAppend ==
    ASSUME NEW S, NEW s \in Seq(S), NEW e \in S, NEW kept, NEW more,
           \A i \in 1..Len(s) : i \in kept <=> i \in more
    PROVE  Selected(Append(s, e), more) =
           IF Len(s) + 1 \in more THEN Append(Selected(s, kept), e) ELSE Selected(s, kept)
<1> DEFINE t == Append(s, e)
           n == Len(s)
<1>1. n \in Nat /\ Len(t) = n + 1 /\ t[n + 1] = e /\ \A i \in 1..n : s[i] = t[i]
  OBVIOUS
<1> HIDE DEF t, n
<1>2. SelectedUpTo(s, kept)[n] = SelectedUpTo(t, more)[n]
  <2>1. \A i \in 1..n : s[i] = t[i] /\ (i \in kept <=> i \in more)
    BY <1>1 DEF n
  <2> QED BY <1>1, <2>1, SelectedUpToSame
<1>3. SelectedUpTo(t, more)[n + 1] = Keep(t, more, n + 1, SelectedUpTo(t, more)[n])
  BY <1>1, SelectedUpToNext
<1>4. Selected(t, more) = IF n + 1 \in more THEN Append(Selected(s, kept), e)
                          ELSE Selected(s, kept)
  BY <1>1, <1>2, <1>3 DEF Selected, Keep, n
<1> QED BY <1>4 DEF t, n

\* Where everything is kept, nothing changes.
LEMMA SelectedAll ==
    ASSUME NEW S, NEW s \in Seq(S), NEW kept, 1..Len(s) \subseteq kept
    PROVE  Selected(s, kept) = s
<1> DEFINE f == SelectedUpTo(s, kept)
           Same(g, n) == g \in Seq(S) /\ Len(g) = n /\ \A i \in 1..n : g[i] = s[i]
           T == {n \in Nat : n <= Len(s) => Same(f[n], n)}
<1>0. f[0] = <<>> /\ \A n \in Nat : f[n + 1] = Keep(s, kept, n + 1, f[n])
  BY SelectedUpToNext
<1> HIDE DEF f
<1>1. 0 \in T
  <2>1. <<>> \in Seq(S) /\ Len(<<>>) = 0
    OBVIOUS
  <2>2. Same(f[0], 0)
    BY <1>0, <2>1
  <2> QED BY <2>2
<1>2. ASSUME NEW n \in T PROVE n + 1 \in T
  <2> SUFFICES ASSUME n + 1 <= Len(s) PROVE Same(f[n + 1], n + 1)
    OBVIOUS
  <2>1. n \in Nat /\ n + 1 \in 1..Len(s) /\ s[n + 1] \in S /\ n + 1 \in kept
    OBVIOUS
  <2>2. Same(f[n], n)
    BY <2>1
  <2>3. f[n + 1] = Append(f[n], s[n + 1])
    BY <1>0, <2>1 DEF Keep
  <2> QED BY <2>1, <2>2, <2>3
<1>3. \A n \in Nat : n \in T
  <2>1. T \in SUBSET Nat
    OBVIOUS
  <2> HIDE DEF T
  <2> QED BY <1>1, <1>2, <2>1, SetInduction
<1>4. Same(f[Len(s)], Len(s))
  BY <1>3
<1>5. Same(Selected(s, kept), Len(s))
  BY <1>4 DEF f, Selected
<1> QED BY <1>5

\* The entries of s at rising positions p: those of the first n that are kept.
Picks(s, kept, n, chosen, p) ==
    /\ p \in [1..Len(chosen) -> 1..n]
    /\ \A i, j \in 1..Len(chosen) : i < j => p[i] < p[j]
    /\ \A i \in 1..Len(chosen) : p[i] \in kept /\ chosen[i] = s[p[i]]
    /\ \A k \in 1..n : k \in kept => \E i \in 1..Len(chosen) : p[i] = k

\* Selected picks every entry kept, in the order of s, once.
LEMMA SelectedPicks ==
    ASSUME NEW S, NEW s \in Seq(S), NEW kept
    PROVE  \E p : Picks(s, kept, Len(s), Selected(s, kept), p)
<1> DEFINE f == SelectedUpTo(s, kept)
           T == {n \in Nat : n <= Len(s) => f[n] \in Seq(S) /\ \E p : Picks(s, kept, n, f[n], p)}
<1>0. f[0] = <<>> /\ \A n \in Nat : f[n + 1] = Keep(s, kept, n + 1, f[n])
  BY SelectedUpToNext
<1> HIDE DEF f
<1>1. 0 \in T
  <2>1. <<>> \in Seq(S) /\ Len(<<>>) = 0
    OBVIOUS
  <2>2. Picks(s, kept, 0, <<>>, <<>>)
    BY <2>1 DEF Picks
  <2> QED BY <1>0, <2>1, <2>2
<1>2. ASSUME NEW n \in T PROVE n + 1 \in T
  <2> SUFFICES ASSUME n + 1 <= Len(s)
               PROVE  f[n + 1] \in Seq(S) /\ \E p : Picks(s, kept, n + 1, f[n + 1], p)
    OBVIOUS
  <2>1. n \in Nat /\ n + 1 \in 1..Len(s) /\ s[n + 1] \in S /\ f[n] \in Seq(S)
    OBVIOUS
  <2>2. PICK p : Picks(s, kept, n, f[n], p)
    BY <2>1
  <2>3. CASE n + 1 \in kept
    <3> DEFINE m == Len(f[n])
               q == [i \in 1..(m + 1) |-> IF i = m + 1 THEN n + 1 ELSE p[i]]
    <3>1. f[n + 1] = Append(f[n], s[n + 1])
      BY <1>0, <2>1, <2>3 DEF Keep
    <3>2. m \in Nat
      BY <2>1
    <3>3. /\ f[n + 1] \in Seq(S) /\ Len(f[n + 1]) = m + 1 /\ f[n + 1][m + 1] = s[n + 1]
          /\ \A i \in 1..m : f[n + 1][i] = f[n][i]
      BY <2>1, <3>1
    <3>4. q[m + 1] = n + 1 /\ \A i \in 1..m : q[i] = p[i] /\ q[i] \in 1..n
      <4>1. m + 1 \in 1..(m + 1) /\ \A i \in 1..m : i \in 1..(m + 1) /\ i # m + 1
        BY <3>2
      <4>2. \A i \in 1..m : p[i] \in 1..n
        BY <2>2 DEF Picks
      <4> HIDE DEF m
      <4> QED BY <4>1, <4>2
    <3>5. q \in [1..(m + 1) -> 1..(n + 1)]
      BY <2>1, <2>2, <3>2 DEF Picks
    <3> HIDE DEF q
    <3>6. \A i, j \in 1..(m + 1) : i < j => q[i] < q[j]
      <4> SUFFICES ASSUME NEW i \in 1..(m + 1), NEW j \in 1..(m + 1), i < j
                   PROVE  q[i] < q[j]
        OBVIOUS
      <4>1. CASE j = m + 1
        BY <2>1, <3>2, <3>4, <4>1
      <4>2. CASE j # m + 1
        <5>1. i \in 1..m /\ j \in 1..m
          BY <3>2, <4>2
        <5>2. p[i] < p[j]
          BY <2>2, <5>1 DEF Picks
        <5> QED BY <3>4, <5>1, <5>2
      <4> QED BY <4>1, <4>2
    <3>7. \A i \in 1..(m + 1) : q[i] \in kept /\ f[n + 1][i] = s[q[i]]
      <4> SUFFICES ASSUME NEW i \in 1..(m + 1)
                   PROVE  q[i] \in kept /\ f[n + 1][i] = s[q[i]]
        OBVIOUS
      <4>1. CASE i = m + 1
        BY <2>3, <3>3, <3>4, <4>1
      <4>2. CASE i # m + 1
        <5>1. i \in 1..m
          BY <3>2, <4>2
        <5>2. p[i] \in kept /\ f[n][i] = s[p[i]]
          BY <2>2, <5>1 DEF Picks
        <5> QED BY <3>3, <3>4, <5>1, <5>2
      <4> QED BY <4>1, <4>2
    <3>8. \A k \in 1..(n + 1) : k \in kept => \E i \in 1..(m + 1) : q[i] = k
      <4> SUFFICES ASSUME NEW k \in 1..(n + 1), k \in kept
                   PROVE  \E i \in 1..(m + 1) : q[i] = k
        OBVIOUS
      <4>1. CASE k = n + 1
        <5>1. m + 1 \in 1..(m + 1)
          BY <3>2
        <5> QED BY <3>4, <4>1, <5>1
      <4>2. CASE k # n + 1
        <5>1. k \in 1..n
          BY <2>1, <4>2
        <5>2. PICK i \in 1..m : p[i] = k
          BY <2>2, <5>1 DEF Picks
        <5>3. i \in 1..(m + 1)
          BY <3>2
        <5> QED BY <3>4, <5>2, <5>3
      <4> QED BY <4>1, <4>2
    <3>9. Picks(s, kept, n + 1, f[n + 1], q)
      BY <3>3, <3>5, <3>6, <3>7, <3>8 DEF Picks
    <3> QED BY <3>3, <3>9
  <2>4. CASE n + 1 \notin kept
    <3>1. f[n + 1] = f[n]
      BY <1>0, <2>1, <2>4 DEF Keep
    <3>2. Picks(s, kept, n + 1, f[n], p)
      <4>1. p \in [1..Len(f[n]) -> 1..(n + 1)]
        BY <2>1, <2>2 DEF Picks
      <4>2. \A k \in 1..(n + 1) : k \in kept => k \in 1..n
        BY <2>1, <2>4
      <4> QED BY <2>2, <4>1, <4>2 DEF Picks
    <3> QED BY <2>1, <3>1, <3>2
  <2> QED BY <2>3, <2>4
<1> HIDE DEF T
<1>3. \A n \in Nat : n \in T
  <2>1. T \in SUBSET Nat
    BY DEF T
  <2> QED BY <1>1, <1>2, <2>1, SetInduction
<1>4. Len(s) \in Nat
  OBVIOUS
<1> QED BY <1>3, <1>4 DEF T, f, Selected

\* Every entry kept is among those selected.
LEMMA KeptIsThere ==
    ASSUME NEW S, NEW s \in Seq(S), NEW kept
    PROVE  /\ Selected(s, kept) \in Seq(S)
           /\ \A k \in 1..Len(s) : k \in kept =>
                \E j \in 1..Len(Selected(s, kept)) : Selected(s, kept)[j] = s[k]
<1> DEFINE chosen == Selected(s, kept)
<1>1. PICK p : Picks(s, kept, Len(s), chosen, p)
  BY SelectedPicks
<1>2. chosen \in Seq(S)
  BY SelectedType
<1> HIDE DEF chosen
<1>3. ASSUME NEW k \in 1..Len(s), k \in kept
      PROVE  \E j \in 1..Len(chosen) : chosen[j] = s[k]
  <2>1. PICK j \in 1..Len(chosen) : p[j] = k
    BY <1>1, <1>3 DEF Picks
  <2> QED BY <1>1, <2>1 DEF Picks
<1> QED BY <1>2, <1>3 DEF chosen

=============================================================================
