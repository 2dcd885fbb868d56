-------------------------- MODULE Sanctions_proofs ---------------------------
(***************************************************************************)
(* Theorems about Sanctions, for any screenings, answers of the provider,  *)
(* thresholds and faults: its types, and that the answer of a screening is *)
(* complete and is backed by the repository, the audit log and the bus;    *)
(* that each screening publishes what it audited, in step (LInv); and that *)
(* only a rejection leaves a stored match without its entry (UInv).        *)
(***************************************************************************)
EXTENDS Sanctions, Selection_proofs, FiniteSetTheorems, TLAPS

logged(c, m, log) == \E j \in DOMAIN log : log[j] = entry("SanctionsMatchFound", m, c)

\* The provider gave invocation c these candidates.
Answered(c, answer) ==
    \E k \in DOMAIN screened : screened[k].cause = c /\ screened[k].found = answer

InLoop == {"saveMatch", "auditMatch", "publishMatch", "returnMatches"}
ForScreening == InLoop \cup {"getIdentity", "rejectUnknown", "screen"}

\* The kept positions that have been passed.
passed(c) == {i \in keep(c, candidates[c]) : i <= position[c]}

\* What is true of an invocation while it runs: matchIds are the matches passed;
\* they are stored, and all but the one the loop is at are audited and published.
Progress(c) ==
    /\ step[c] \in ForScreening => c \in Screening
    /\ step[c] = "screen" => position[c] = 0 /\ matchIds[c] = <<>>
    /\ step[c] = "getIdentity" => position[c] = 0 /\ matchIds[c] = <<>>
    /\ step[c] \in InLoop =>
        /\ Answered(c, candidates[c])
        /\ \A i \in passed(c) : \E j \in DOMAIN matchIds[c] : matchIds[c][j] = candidates[c][i]
        /\ \A j \in DOMAIN matchIds[c] : \E i \in passed(c) : matchIds[c][j] = candidates[c][i]
        /\ \A i \in passed(c) :
            /\ candidates[c][i] \in stored
            /\ \/ logged(c, candidates[c][i], audit)
               \/ step[c] = "auditMatch" /\ i = position[c]
            /\ \/ logged(c, candidates[c][i], published)
               \/ step[c] \in {"auditMatch", "publishMatch"} /\ i = position[c]
    /\ step[c] \in {"auditMatch", "publishMatch"} => position[c] \in passed(c)
    /\ step[c] = "returnMatches" => left(c, candidates[c], position[c]) = {}

\* The two properties, for one screening.
Complete(c) == outcome[c].status = "resolved" =>
    \E k \in DOMAIN screened :
        LET answer == screened[k].found
        IN  /\ screened[k].cause = c
            /\ outcome[c].total = Len(answer)
            /\ ToSet(outcome[c].ids) = {m \in ToSet(answer) : Confidence[m] >= threshold(c)}

Backed(c) == outcome[c].status = "resolved" =>
    \A m \in ToSet(outcome[c].ids) :
        m \in stored /\ logged(c, m, audit) /\ logged(c, m, published)

IInv == /\ TypeOK
        /\ \A c \in Call : Progress(c)
        /\ \A c \in Screening : Complete(c) /\ Backed(c)

-----------------------------------------------------------------------------

LEMMA CallFacts ==
    /\ \A c \in Screening : c \in Call /\ c \notin Refresh /\ threshold(c) \in Int
    /\ \A c \in Refresh : c \in Call /\ c \notin Screening
    /\ \A m \in MatchId : Confidence[m] \in Int
<1>1. \A c \in Screening : threshold(c) \in Int
  BY MatchesAssumption DEF threshold, DEFAULT_THRESHOLD
<1>2. Confidence \in [MatchId -> 0..100]
  BY MatchesAssumption
<1>3. \A m \in MatchId : Confidence[m] \in 0..100
  BY <1>2
<1>4. \A n \in 0..100 : n \in Int
  OBVIOUS
<1> QED BY <1>1, <1>3, <1>4, CallsAssumption DEF Call

\* The logs, the repository and the provider's record only grow.
Grows == /\ \A j \in DOMAIN audit : j \in DOMAIN audit' /\ audit'[j] = audit[j]
         /\ \A j \in DOMAIN published : j \in DOMAIN published' /\ published'[j] = published[j]
         /\ \A j \in DOMAIN screened : j \in DOMAIN screened' /\ screened'[j] = screened[j]
         /\ stored \subseteq stored'

SameLocals(d) == /\ step'[d] = step[d]
                 /\ candidates'[d] = candidates[d]
                 /\ position'[d] = position[d]
                 /\ matchIds'[d] = matchIds[d]

LEMMA AppendKeeps ==
    ASSUME NEW S, NEW s \in Seq(S), NEW e \in S
    PROVE  /\ Append(s, e) \in Seq(S)
           /\ \A j \in DOMAIN s : j \in DOMAIN Append(s, e) /\ Append(s, e)[j] = s[j]
           /\ \E j \in DOMAIN Append(s, e) : Append(s, e)[j] = e
           /\ \A j \in DOMAIN Append(s, e) : j \in DOMAIN s \/ Append(s, e)[j] = e
<1>1. Len(s) + 1 \in DOMAIN Append(s, e) /\ Append(s, e)[Len(s) + 1] = e
  OBVIOUS
<1> QED BY <1>1

LEMMA LoggedPersists ==
    ASSUME Grows, NEW c, NEW m
    PROVE  /\ logged(c, m, audit) => logged(c, m, audit')
           /\ logged(c, m, published) => logged(c, m, published')
BY DEF logged, Grows

LEMMA ProgressPersists ==
    ASSUME Grows, NEW d \in Call, Progress(d), SameLocals(d)
    PROVE  Progress(d)'
<1>1. passed(d)' = passed(d)
  BY DEF passed, keep, SameLocals
<1>2. left(d, candidates[d], position[d])' = left(d, candidates[d], position[d])
  BY DEF left, keep, SameLocals
<1>3. Answered(d, candidates[d]) => Answered(d, candidates[d])'
  BY DEF Answered, Grows, SameLocals
<1>4. \A m : /\ m \in stored => m \in stored'
             /\ logged(d, m, audit) => logged(d, m, audit)'
             /\ logged(d, m, published) => logged(d, m, published)'
  BY DEF logged, Grows
<1> QED BY <1>1, <1>2, <1>3, <1>4 DEF Progress, SameLocals

LEMMA AnswerPersists ==
    ASSUME Grows, NEW d \in Screening, Complete(d), Backed(d), outcome'[d] = outcome[d]
    PROVE  Complete(d)' /\ Backed(d)'
<1>1. Complete(d)'
  BY DEF Complete, Grows
<1>2. Backed(d)'
  BY LoggedPersists DEF Backed, Grows, logged
<1> QED BY <1>1, <1>2

\* A step that moves only invocation c.
ActsOn(c) == \A d \in Call : d # c => SameLocals(d) /\ outcome'[d] = outcome[d]

LEMMA HandlerStep ==
    ASSUME IInv, NEW c \in Call, ActsOn(c), Grows, TypeOK', Progress(c)',
           outcome'[c] = outcome[c] \/ outcome'[c].status # "resolved"
    PROVE  IInv'
<1>1. \A d \in Call : Progress(d)'
  BY ProgressPersists DEF IInv, ActsOn
<1>2. ASSUME NEW d \in Screening PROVE Complete(d)' /\ Backed(d)'
  <2>1. CASE outcome'[d] = outcome[d]
    BY <2>1, AnswerPersists DEF IInv
  <2>2. CASE outcome'[d] # outcome[d]
    BY <2>2, CallFacts DEF ActsOn, Complete, Backed
  <2> QED BY <2>1, <2>2
<1> QED BY <1>1, <1>2 DEF IInv

LEMMA InitInv == Init => IInv
<1> SUFFICES ASSUME Init PROVE IInv
  OBVIOUS
<1>1. TypeOK
  BY BoundsAssumption
  DEF Init, TypeOK, Step, PortStep, Outcome, Pending
<1>2. \A c \in Call : Progress(c)
  BY DEF Init, Progress, ForScreening, InLoop
<1>3. \A c \in Screening : Complete(c) /\ Backed(c)
  BY CallFacts DEF Init, Complete, Backed, Pending
<1> QED BY <1>1, <1>2, <1>3 DEF IInv

\* A step that does not touch what the handlers rely on.
Quiet == UNCHANGED <<logVars, stored, screened>>

LEMMA QuietGrows == Quiet => Grows
BY DEF Quiet, Grows, logVars

---------------------------- (* ScreenSanctions *) --------------------------

\* Steps that only move the program counter, before the loop.
LEMMA GotoInv ==
    ASSUME IInv, NEW c \in Call, NEW s \in Step, Goto(c, s), Quiet, TypeOK',
           UNCHANGED <<locals, outcome>>,
           s \notin InLoop,
           s \in ForScreening => c \in Screening,
           s \in {"screen", "getIdentity"} => position[c] = 0 /\ matchIds[c] = <<>>
    PROVE  IInv'
<1>1. ActsOn(c) /\ step'[c] = s
  BY DEF IInv, TypeOK, ActsOn, SameLocals, Goto, locals
<1>2. Progress(c)'
  BY <1>1 DEF Progress, locals, InLoop, ForScreening
<1> QED BY <1>1, <1>2, QuietGrows, HandlerStep

\* A handler that ends without an answer.
LEMMA RejectInv ==
    ASSUME IInv, NEW c \in Call, NEW name \in {"NotFound", "PortError"},
           Leave(c, Rejected(name)), Quiet, UNCHANGED identities, faults' \in 0..MaxFaults
    PROVE  IInv'
<1>1. /\ ActsOn(c)
      /\ step'[c] = "idle"
      /\ outcome'[c] = Rejected(name)
      /\ candidates'[c] = <<>> /\ position'[c] = 0 /\ matchIds'[c] = <<>>
  BY DEF IInv, TypeOK, ActsOn, SameLocals, Leave
<1>2. TypeOK'
  BY <1>1 DEF IInv, TypeOK, Leave, Quiet, logVars, Rejected, Outcome, Step, Pending
<1>3. Progress(c)'
  BY <1>1 DEF Progress, InLoop, ForScreening
<1>4. outcome'[c].status # "resolved"
  BY <1>1 DEF Rejected
<1> QED BY <1>1, <1>2, <1>3, <1>4, QuietGrows, HandlerStep

LEMMA ExecuteInv ==
    ASSUME IInv, NEW c \in Screening, Execute(c)
    PROVE  IInv'
<1> DEFINE s == IF c \in Individual THEN "getIdentity" ELSE "screen"
<1>1. c \in Call /\ s \in Step /\ s \notin InLoop
  BY CallFacts DEF Step, PortStep, InLoop
<1>2. Goto(c, s) /\ Quiet /\ UNCHANGED <<locals, outcome, identities, faults>>
  BY DEF Execute, Quiet, storeVars
<1>3. position[c] = 0 /\ matchIds[c] = <<>>
  BY <1>1 DEF Execute, At, IInv, TypeOK
<1>4. TypeOK'
  BY <1>1, <1>2 DEF IInv, TypeOK, Execute, Quiet, Goto, At, locals, logVars
<1> QED BY <1>1, <1>2, <1>3, <1>4, GotoInv

LEMMA GetIdentityInv ==
    ASSUME IInv, NEW c \in Call, GetIdentity(c)
    PROVE  IInv'
<1> DEFINE s == IF SubjectOf[c] \in identities THEN "screen" ELSE "rejectUnknown"
<1>1. s \in Step /\ s \notin InLoop
  BY DEF Step, PortStep, InLoop
<1>2. Goto(c, s) /\ Quiet /\ UNCHANGED <<locals, outcome, identities, faults>>
  BY DEF GetIdentity, Quiet, storeVars
<1>3. c \in Screening /\ position[c] = 0 /\ matchIds[c] = <<>>
  BY DEF GetIdentity, At, IInv, Progress, ForScreening
<1>4. TypeOK'
  BY <1>1, <1>2 DEF IInv, TypeOK, GetIdentity, Quiet, Goto, At, locals, logVars
<1> QED BY <1>1, <1>2, <1>3, <1>4, GotoInv

LEMMA RejectUnknownInv ==
    ASSUME IInv, NEW c \in Call, RejectUnknown(c)
    PROVE  IInv'
<1>1. Leave(c, Rejected("NotFound")) /\ Quiet /\ UNCHANGED <<identities, faults>>
  BY DEF RejectUnknown, Quiet, storeVars
<1>2. faults' \in 0..MaxFaults
  BY <1>1 DEF IInv, TypeOK
<1> QED BY <1>1, <1>2, RejectInv

LEMMA ScreenInv ==
    ASSUME IInv, NEW c \in Call, Screen(c)
    PROVE  IInv'
<1>1. c \in Screening /\ position[c] = 0 /\ matchIds[c] = <<>> /\ step[c] = "screen"
  BY DEF Screen, At, IInv, Progress, ForScreening
<1>2. PICK answer \in Answers :
        /\ candidates' = [candidates EXCEPT ![c] = answer]
        /\ screened' = Append(screened, [cause |-> c, found |-> answer])
        /\ Goto(c, loop(c, answer, 0))
  BY DEF Screen
<1> DEFINE e == [cause |-> c, found |-> answer]
<1>3. answer \in Seq(MatchId)
  BY MatchesAssumption
<1>4. UNCHANGED <<position, matchIds, outcome, identities, stored, audit, published, faults>>
  BY DEF Screen, storeVars, logVars
<1>5. e \in [cause : Screening, found : Answers] /\ screened \in Seq([cause : Screening, found : Answers])
  BY <1>1 DEF IInv, TypeOK
<1>6. screened' = Append(screened, e)
  BY <1>2
<1>7. Grows /\ screened' \in Seq([cause : Screening, found : Answers])
      /\ \E k \in DOMAIN screened' : screened'[k] = e
  BY <1>4, <1>5, <1>6, AppendKeeps DEF Grows
<1>8. loop(c, answer, 0) \in {"returnMatches", "saveMatch"}
  BY DEF loop
<1>9. TypeOK'
  <2>1. /\ step' \in [Call -> Step]
        /\ candidates' \in [Call -> Seq(MatchId)]
    BY <1>2, <1>3, <1>8 DEF IInv, TypeOK, Goto, Step, PortStep
  <2>2. \A d \in Call : /\ d = c => outcome'[d] = Pending
                        /\ d # c => step'[d] = step[d] /\ candidates'[d] = candidates[d]
    BY <1>1, <1>2, <1>4 DEF IInv, TypeOK, Goto
  <2>3. step'[c] # "idle"
    BY <1>2, <1>8 DEF IInv, TypeOK, Goto
  <2> QED BY <1>4, <1>7, <2>1, <2>2, <2>3 DEF IInv, TypeOK
<1>10. ActsOn(c) /\ step'[c] = loop(c, answer, 0) /\ candidates'[c] = answer
  BY <1>2, <1>4 DEF IInv, TypeOK, ActsOn, SameLocals, Goto
<1>11. passed(c)' = {}
  <2>1. \A i \in DOMAIN answer : i > 0
    BY <1>3
  <2> QED BY <2>1, <1>1, <1>4, <1>10, SMTT(30) DEF passed, keep
<1>12. Progress(c)'
  <2>1. Answered(c, candidates[c])'
    BY <1>7, <1>10 DEF Answered
  <2>2. matchIds'[c] = <<>> /\ position'[c] = 0
    BY <1>1, <1>4
  <2>3. step'[c] = "returnMatches" => left(c, candidates[c], position[c])' = {}
    BY <1>10, <2>2 DEF loop, left, keep
  <2>4. step'[c] \in {"returnMatches", "saveMatch"}
    BY <1>8, <1>10
  <2> QED BY <1>1, <1>11, <2>1, <2>2, <2>3, <2>4 DEF Progress
<1> QED BY <1>4, <1>7, <1>9, <1>10, <1>12, HandlerStep

LEMMA SaveMatchInv ==
    ASSUME IInv, NEW c \in Call, SaveMatch(c)
    PROVE  IInv'
<1>1. c \in Screening /\ step[c] = "saveMatch" /\ step[c] \in InLoop
  BY DEF SaveMatch, At, IInv, Progress, ForScreening, InLoop
<1>2. PICK i \in left(c, candidates[c], position[c]) :
        /\ \A j \in left(c, candidates[c], position[c]) : i <= j
        /\ stored' = stored \cup {candidates[c][i]}
        /\ position' = [position EXCEPT ![c] = i]
        /\ matchIds' = [matchIds EXCEPT ![c] = Append(@, candidates[c][i])]
  BY DEF SaveMatch
<1>3. /\ Goto(c, "auditMatch")
      /\ UNCHANGED <<candidates, outcome, identities, audit, published, screened, faults>>
  BY DEF SaveMatch, logVars
<1>4. /\ candidates[c] \in Seq(MatchId) /\ matchIds[c] \in Seq(MatchId)
      /\ position[c] \in Nat
  BY DEF IInv, TypeOK
<1>5. /\ i \in keep(c, candidates[c]) /\ i \in DOMAIN candidates[c]
      /\ position[c] < i
  BY DEF left, keep
<1>6. i \in Nat /\ candidates[c][i] \in MatchId
  BY <1>4, <1>5
<1>7. /\ Append(matchIds[c], candidates[c][i]) \in Seq(MatchId)
      /\ \A j \in DOMAIN matchIds[c] :
            /\ j \in DOMAIN Append(matchIds[c], candidates[c][i])
            /\ Append(matchIds[c], candidates[c][i])[j] = matchIds[c][j]
      /\ \E j \in DOMAIN Append(matchIds[c], candidates[c][i]) :
            Append(matchIds[c], candidates[c][i])[j] = candidates[c][i]
      /\ \A j \in DOMAIN Append(matchIds[c], candidates[c][i]) :
            \/ j \in DOMAIN matchIds[c]
            \/ Append(matchIds[c], candidates[c][i])[j] = candidates[c][i]
  BY <1>4, <1>6, AppendKeeps
<1>8. /\ ActsOn(c) /\ Grows
      /\ step'[c] = "auditMatch" /\ candidates'[c] = candidates[c] /\ position'[c] = i
      /\ matchIds'[c] = Append(matchIds[c], candidates[c][i])
  BY <1>2, <1>3 DEF IInv, TypeOK, ActsOn, SameLocals, Goto, Grows
<1>9. TypeOK'
  <2>1. step' \in [Call -> Step] /\ position' \in [Call -> Nat] /\ matchIds' \in [Call -> Seq(MatchId)]
    BY <1>2, <1>3, <1>6, <1>7 DEF IInv, TypeOK, Goto, Step, PortStep
  <2>2. \A d \in Call : outcome'[d] = Pending \/ step'[d] = "idle"
    BY <1>1, <1>3, <1>8 DEF IInv, TypeOK, ActsOn, SameLocals
  <2>3. \A d \in Call : step'[d] = "idle" =>
          candidates'[d] = <<>> /\ position'[d] = 0 /\ matchIds'[d] = <<>>
    BY <1>8 DEF IInv, TypeOK, ActsOn, SameLocals
  <2> QED BY <1>2, <1>3, <1>6, <2>1, <2>2, <2>3 DEF IInv, TypeOK
<1>10. passed(c)' = passed(c) \cup {i}
  <2>1. \A j \in keep(c, candidates[c]) : j \in Nat
    BY <1>4 DEF keep
  <2>2. ASSUME NEW j \in keep(c, candidates[c]), j <= i
        PROVE  j <= position[c] \/ j = i
    <3>1. CASE position[c] < j
      <4>1. i <= j
        BY <1>2, <3>1 DEF left
      <4> QED BY <4>1, <2>1, <2>2, <1>6
    <3>2. CASE ~(position[c] < j)
      BY <3>2, <2>1, <1>4
    <3> QED BY <3>1, <3>2
  <2>3. ASSUME NEW j \in keep(c, candidates[c]), j <= position[c]
        PROVE  j <= i
    <3>1. j \in Nat /\ i \in Nat /\ position[c] \in Nat /\ position[c] < i
      BY <2>1, <1>4, <1>5, <1>6
    <3> QED BY <2>3, <3>1
  <2>4. passed(c)' = {j \in keep(c, candidates[c]) : j <= i}
    BY <1>8 DEF passed, keep
  <2>5. i \in keep(c, candidates[c]) /\ i <= i
    BY <1>5, <1>6
  <2> HIDE DEF keep, left
  <2>6. passed(c) = {j \in keep(c, candidates[c]) : j <= position[c]}
    BY DEF passed
  <2> QED BY <2>2, <2>3, <2>4, <2>5, <2>6
<1>11. Progress(c)'
  <2>1. Progress(c)
    BY DEF IInv
  <2>2. Answered(c, candidates[c])'
    BY <1>1, <1>3, <2>1 DEF Progress, Answered
  <2>3. \A k \in passed(c)' : \E j \in DOMAIN matchIds'[c] : matchIds'[c][j] = candidates'[c][k]
    BY <1>1, <1>7, <1>8, <1>10, <2>1 DEF Progress
  <2>4. \A j \in DOMAIN matchIds'[c] : \E k \in passed(c)' : matchIds'[c][j] = candidates'[c][k]
    BY <1>1, <1>7, <1>8, <1>10, <2>1 DEF Progress
  <2>5. \A k \in passed(c)' :
            /\ candidates'[c][k] \in stored'
            /\ logged(c, candidates'[c][k], audit') \/ k = position'[c]
            /\ logged(c, candidates'[c][k], published') \/ k = position'[c]
    BY <1>1, <1>2, <1>3, <1>8, <1>10, <2>1 DEF Progress
  <2>6. position'[c] \in passed(c)'
    BY <1>8, <1>10
  <2> QED BY <1>1, <1>8, <2>2, <2>3, <2>4, <2>5, <2>6 DEF Progress
<1> QED BY <1>3, <1>8, <1>9, <1>11, HandlerStep

\* What both logging steps of the loop rely on.
LEMMA CurrentFacts ==
    ASSUME IInv, NEW c \in Call, step[c] \in {"auditMatch", "publishMatch"}
    PROVE  /\ c \in Screening
           /\ Answered(c, candidates[c])
           /\ position[c] \in passed(c)
           /\ current(c) \in MatchId
           /\ entry("SanctionsMatchFound", current(c), c) \in Event
<1>1. /\ c \in Screening /\ position[c] \in passed(c) /\ Answered(c, candidates[c])
  BY DEF IInv, Progress, ForScreening, InLoop
<1>2. candidates[c] \in Seq(MatchId) /\ position[c] \in DOMAIN candidates[c]
  BY <1>1 DEF IInv, TypeOK, passed, keep
<1>3. current(c) \in MatchId
  BY <1>2 DEF current
<1> QED BY <1>1, <1>3 DEF entry, Event

LEMMA AuditMatchInv ==
    ASSUME IInv, NEW c \in Call, AuditMatch(c)
    PROVE  IInv'
<1> DEFINE e == entry("SanctionsMatchFound", current(c), c)
<1>1. step[c] = "auditMatch" /\ step[c] \in InLoop
  BY DEF AuditMatch, At, InLoop
<1>2. /\ audit' = Append(audit, e)
      /\ Goto(c, "publishMatch")
      /\ UNCHANGED <<locals, outcome, identities, stored, published, screened, faults>>
  BY DEF AuditMatch, storeVars
<1>3. e \in Event /\ audit \in Seq(Event)
  BY <1>1, CurrentFacts DEF IInv, TypeOK
<1>4. /\ audit' \in Seq(Event)
      /\ Grows
      /\ logged(c, current(c), audit')
  BY <1>2, <1>3, AppendKeeps DEF Grows, logged
<1>5. ActsOn(c) /\ step'[c] = "publishMatch"
  BY <1>2 DEF IInv, TypeOK, ActsOn, SameLocals, Goto, locals
<1>6. TypeOK'
  BY <1>1, <1>2, <1>4 DEF IInv, TypeOK, Goto, Step, PortStep, locals
<1>7. Progress(c)'
  <2>1. Progress(c)
    BY DEF IInv
  <2>2. passed(c)' = passed(c)
    BY <1>2 DEF passed, keep, locals
  <2>3. Answered(c, candidates[c])'
    BY <1>1, <1>2, CurrentFacts DEF Answered, locals
  <2>4. \A i \in passed(c) :
            /\ candidates[c][i] \in stored'
            /\ logged(c, candidates[c][i], audit')
            /\ logged(c, candidates[c][i], published') \/ i = position[c]
    BY <1>1, <1>2, <1>4, <2>1, LoggedPersists DEF Progress, current
  <2> QED BY <1>1, <1>2, <1>5, <2>1, <2>2, <2>3, <2>4, CurrentFacts DEF Progress, locals, InLoop
<1> QED BY <1>2, <1>4, <1>5, <1>6, <1>7, HandlerStep

LEMMA PublishMatchInv ==
    ASSUME IInv, NEW c \in Call, PublishMatch(c)
    PROVE  IInv'
<1> DEFINE e == entry("SanctionsMatchFound", current(c), c)
           s == loop(c, candidates[c], position[c])
<1>1. step[c] = "publishMatch" /\ step[c] \in InLoop
  BY DEF PublishMatch, At, InLoop
<1>2. /\ published' = Append(published, e)
      /\ Goto(c, s)
      /\ UNCHANGED <<locals, outcome, identities, stored, audit, screened, faults>>
  BY DEF PublishMatch, storeVars
<1>3. e \in Event /\ published \in Seq(Event)
  BY <1>1, CurrentFacts DEF IInv, TypeOK
<1>4. /\ published' \in Seq(Event)
      /\ Grows
      /\ logged(c, current(c), published')
  BY <1>2, <1>3, AppendKeeps DEF Grows, logged
<1>5. s \in {"saveMatch", "returnMatches"} /\ s \in Step /\ s \in InLoop
  BY DEF loop, Step, PortStep, InLoop
<1>6. ActsOn(c) /\ step'[c] = s
  BY <1>2 DEF IInv, TypeOK, ActsOn, SameLocals, Goto, locals
<1>7. TypeOK'
  BY <1>1, <1>2, <1>4, <1>5 DEF IInv, TypeOK, Goto, locals
<1>8. Progress(c)'
  <2>1. Progress(c)
    BY DEF IInv
  <2>2. passed(c)' = passed(c)
    BY <1>2 DEF passed, keep, locals
  <2>3. Answered(c, candidates[c])'
    BY <1>1, <1>2, CurrentFacts DEF Answered, locals
  <2>4. \A i \in passed(c) :
            /\ candidates[c][i] \in stored'
            /\ logged(c, candidates[c][i], audit')
            /\ logged(c, candidates[c][i], published')
    BY <1>1, <1>2, <1>4, <2>1, LoggedPersists DEF Progress, current
  <2>5. s = "returnMatches" => left(c, candidates[c], position[c])' = {}
    BY <1>2 DEF loop, left, keep, locals
  <2> HIDE DEF s
  <2> QED BY <1>1, <1>2, <1>5, <1>6, <2>1, <2>2, <2>3, <2>4, <2>5, CurrentFacts
      DEF Progress, locals
<1> QED BY <1>2, <1>4, <1>6, <1>7, <1>8, HandlerStep

\* The last iteration is over: what was passed is all that is kept.
LEMMA PassedAll ==
    ASSUME IInv, NEW c \in Call, step[c] = "returnMatches"
    PROVE  passed(c) = keep(c, candidates[c])
<1>1. left(c, candidates[c], position[c]) = {}
  BY DEF IInv, Progress
<1>2. /\ \A i \in keep(c, candidates[c]) : i \in Nat
      /\ position[c] \in Nat
  BY DEF IInv, TypeOK, keep
<1> QED BY <1>1, <1>2 DEF left, passed

LEMMA ReturnMatchesInv ==
    ASSUME IInv, NEW c \in Call, ReturnMatches(c)
    PROVE  IInv'
<1>1. /\ step[c] = "returnMatches" /\ step[c] \in InLoop /\ c \in Screening
  BY DEF ReturnMatches, At, InLoop, IInv, Progress, ForScreening
<1>2. /\ Leave(c, Resolved(Len(candidates[c]), matchIds[c]))
      /\ UNCHANGED <<identities, stored, audit, published, screened, faults>>
  BY DEF ReturnMatches, storeVars, logVars
<1>3. candidates[c] \in Seq(MatchId) /\ matchIds[c] \in Seq(MatchId) /\ Progress(c)
  BY DEF IInv, TypeOK
<1>4. /\ ActsOn(c) /\ Grows
      /\ step'[c] = "idle"
      /\ outcome'[c] = Resolved(Len(candidates[c]), matchIds[c])
      /\ candidates'[c] = <<>> /\ position'[c] = 0 /\ matchIds'[c] = <<>>
  BY <1>2 DEF IInv, TypeOK, ActsOn, SameLocals, Leave, Grows
<1>5. TypeOK'
  <2>1. Resolved(Len(candidates[c]), matchIds[c]) \in Outcome
    BY <1>3 DEF Resolved, Outcome
  <2> HIDE DEF Outcome
  <2> QED BY <1>2, <2>1 DEF IInv, TypeOK, Leave, Step, Pending
<1>6. \A d \in Call : Progress(d)'
  <2>1. Progress(c)'
    BY <1>4 DEF Progress, InLoop, ForScreening
  <2> QED BY <1>4, <2>1, ProgressPersists DEF IInv, ActsOn
<1>7. ToSet(matchIds[c]) = {m \in ToSet(candidates[c]) : Confidence[m] >= threshold(c)}
  <2>1. passed(c) = keep(c, candidates[c])
    BY <1>1, PassedAll
  <2>2. ASSUME NEW m \in ToSet(matchIds[c])
        PROVE  m \in ToSet(candidates[c]) /\ Confidence[m] >= threshold(c)
    <3>1. PICK i \in keep(c, candidates[c]) : m = candidates[c][i]
      BY <1>1, <1>3, <2>1 DEF Progress, ToSet
    <3> QED BY <3>1 DEF keep, ToSet
  <2>3. ASSUME NEW m \in ToSet(candidates[c]), Confidence[m] >= threshold(c)
        PROVE  m \in ToSet(matchIds[c])
    <3>1. PICK i \in DOMAIN candidates[c] : m = candidates[c][i]
      BY DEF ToSet
    <3>2. i \in passed(c)
      BY <2>1, <2>3, <3>1 DEF keep
    <3> QED BY <1>1, <1>3, <3>1, <3>2 DEF Progress, ToSet
  <2> QED BY <2>2, <2>3
<1>8. Complete(c)'
  <2>1. PICK k \in DOMAIN screened : screened[k].cause = c /\ screened[k].found = candidates[c]
    BY <1>1, <1>3 DEF Progress, Answered
  <2>2. /\ outcome'[c].total = Len(screened[k].found)
        /\ ToSet(outcome'[c].ids) =
            {m \in ToSet(screened[k].found) : Confidence[m] >= threshold(c)}
    BY <1>4, <1>7, <2>1 DEF Resolved
  <2> QED BY <1>2, <2>1, <2>2 DEF Complete
<1>9. Backed(c)'
  <2> SUFFICES ASSUME NEW m \in ToSet(matchIds[c])
               PROVE  m \in stored /\ logged(c, m, audit) /\ logged(c, m, published)
    BY <1>2, <1>4 DEF Backed, Resolved
  <2>1. PICK i \in passed(c) : m = candidates[c][i]
    BY <1>1, <1>3 DEF Progress, ToSet
  <2> QED BY <1>1, <1>3, <2>1 DEF Progress
<1>10. \A d \in Screening : Complete(d)' /\ Backed(d)'
  BY <1>4, <1>8, <1>9, AnswerPersists, CallFacts DEF IInv, ActsOn
<1> QED BY <1>5, <1>6, <1>10 DEF IInv

-------------------------- (* RefreshSanctionsLists *) ----------------------

LEMMA RefreshInv ==
    ASSUME IInv, NEW c \in Refresh, ExecuteRefresh(c) \/ RefreshStep(c)
    PROVE  IInv'
<1> DEFINE e == entry("ListRefreshed", NoMatch, c)
<1>1. c \in Call /\ c \notin Screening
  BY CallFacts
<1>2. /\ e \in Event
      /\ audit \in Seq(Event) /\ published \in Seq(Event)
  BY <1>1 DEF IInv, TypeOK, entry, Event
<1>3. ASSUME NEW s \in {"refreshLists", "auditRefresh", "publishRefresh", "returnReport"},
             Goto(c, s), outcome[c] = Pending,
             UNCHANGED <<locals, outcome, identities, stored, screened, faults>>,
             Grows, audit' \in Seq(Event), published' \in Seq(Event)
      PROVE  IInv'
  <2>1. ActsOn(c) /\ step'[c] = s
    BY <1>1, <1>3 DEF IInv, TypeOK, ActsOn, SameLocals, Goto, locals
  <2>2. TypeOK'
    BY <1>1, <1>3 DEF IInv, TypeOK, Goto, Step, PortStep, locals
  <2>3. Progress(c)'
    BY <2>1 DEF Progress, InLoop, ForScreening
  <2> QED BY <1>1, <1>3, <2>1, <2>2, <2>3, HandlerStep
<1>4. CASE ExecuteRefresh(c)
  BY <1>1, <1>2, <1>3, <1>4 DEF ExecuteRefresh, Grows, storeVars, logVars
<1>5. CASE RefreshLists(c)
  BY <1>1, <1>2, <1>3, <1>5 DEF RefreshLists, At, Grows, storeVars, logVars, IInv, TypeOK
<1>6. CASE AuditRefresh(c)
  <2>1. /\ audit' = Append(audit, e) /\ Goto(c, "publishRefresh")
        /\ UNCHANGED <<locals, outcome, identities, stored, published, screened, faults>>
    BY <1>6 DEF AuditRefresh, storeVars
  <2>2. Grows /\ audit' \in Seq(Event)
    BY <1>2, <2>1, AppendKeeps DEF Grows
  <2>3. outcome[c] = Pending
    BY <1>1, <1>6 DEF AuditRefresh, At, IInv, TypeOK
  <2> QED BY <1>2, <1>3, <2>1, <2>2, <2>3
<1>7. CASE PublishRefresh(c)
  <2>1. /\ published' = Append(published, e) /\ Goto(c, "returnReport")
        /\ UNCHANGED <<locals, outcome, identities, stored, audit, screened, faults>>
    BY <1>7 DEF PublishRefresh, storeVars
  <2>2. Grows /\ published' \in Seq(Event)
    BY <1>2, <2>1, AppendKeeps DEF Grows
  <2>3. outcome[c] = Pending
    BY <1>1, <1>7 DEF PublishRefresh, At, IInv, TypeOK
  <2> QED BY <1>2, <1>3, <2>1, <2>2, <2>3
<1>8. CASE ReturnReport(c)
  <2>1. /\ Leave(c, Resolved(0, <<>>))
        /\ UNCHANGED <<identities, stored, audit, published, screened, faults>>
    BY <1>8 DEF ReturnReport, storeVars, logVars
  <2>2. /\ ActsOn(c) /\ Grows
        /\ step'[c] = "idle"
    BY <1>1, <2>1 DEF IInv, TypeOK, ActsOn, SameLocals, Leave, Grows
  <2>3. TypeOK'
    BY <1>1, <2>1 DEF IInv, TypeOK, Leave, Step, Pending, Resolved, Outcome
  <2>4. Progress(c)'
    BY <2>2 DEF Progress, InLoop, ForScreening
  <2>5. \A d \in Call : Progress(d)'
    BY <2>2, <2>4, ProgressPersists DEF IInv, ActsOn
  <2>6. \A d \in Screening : Complete(d)' /\ Backed(d)'
    BY <1>1, <2>2, AnswerPersists, CallFacts DEF IInv, ActsOn
  <2> QED BY <2>3, <2>5, <2>6 DEF IInv
<1> QED BY <1>4, <1>5, <1>6, <1>7, <1>8 DEF RefreshStep

-----------------------------------------------------------------------------

LEMMA PortRejectsInv ==
    ASSUME IInv, NEW c \in Call, PortRejects(c)
    PROVE  IInv'
<1>1. Leave(c, Rejected("PortError")) /\ Quiet /\ UNCHANGED identities
  BY DEF PortRejects, Quiet, storeVars
<1>2. faults' \in 0..MaxFaults
  BY BoundsAssumption DEF PortRejects, IInv, TypeOK
<1> QED BY <1>1, <1>2, RejectInv

\* Steps outside the handlers.
LEMMA OtherInv ==
    ASSUME IInv, Quiet, UNCHANGED <<step, locals, outcome, faults>>,
           identities' \subseteq Subject
    PROVE  IInv'
<1>1. TypeOK'
  BY DEF IInv, TypeOK, Quiet, locals, logVars
<1>2. \A d \in Call : SameLocals(d) /\ outcome'[d] = outcome[d]
  BY DEF SameLocals, locals
<1>3. \A d \in Call : Progress(d)'
  BY <1>2, QuietGrows, ProgressPersists DEF IInv
<1>4. \A d \in Screening : Complete(d)' /\ Backed(d)'
  BY <1>2, QuietGrows, AnswerPersists, CallFacts DEF IInv
<1> QED BY <1>1, <1>3, <1>4 DEF IInv

LEMMA StepInv == IInv /\ [Next]_vars => IInv'
<1> SUFFICES ASSUME IInv, [Next]_vars PROVE IInv'
  OBVIOUS
<1>1. ASSUME NEW c \in Screening, Execute(c) PROVE IInv'
  BY <1>1, ExecuteInv
<1>2. ASSUME NEW c \in Screening, ScreeningStep(c) PROVE IInv'
  BY <1>2, CallFacts, GetIdentityInv, RejectUnknownInv, ScreenInv, SaveMatchInv,
     AuditMatchInv, PublishMatchInv, ReturnMatchesInv DEF ScreeningStep
<1>3. ASSUME NEW c \in Refresh, ExecuteRefresh(c) \/ RefreshStep(c) PROVE IInv'
  BY <1>3, RefreshInv
<1>4. ASSUME NEW c \in Call, PortRejects(c) PROVE IInv'
  BY <1>4, PortRejectsInv
<1>5. ASSUME NEW s \in Subject, SaveIdentity(s) PROVE IInv'
  BY <1>5, OtherInv DEF SaveIdentity, Quiet, IInv, TypeOK
<1>6. CASE UNCHANGED vars
  BY <1>6, OtherInv DEF vars, Quiet, storeVars, logVars, IInv, TypeOK
<1> QED BY <1>1, <1>2, <1>3, <1>4, <1>5, <1>6 DEF Next, Done

-------------------------------- (* theorems *) -----------------------------

\* The inductive invariant holds of every behaviour.
THEOREM Invariance == Spec => []IInv
BY InitInv, StepInv, PTL DEF Spec

\* The state has its types (TypeOK): settled invocations keep no variables.
THEOREM TypeCorrect == Spec => []TypeOK
<1>1. IInv => TypeOK
  BY DEF IInv
<1> QED BY <1>1, Invariance, PTL

\* ScreenSanctions answers with all candidates that reach the threshold, the
\* threshold included, and with the number of candidates.
THEOREM AnswersComplete == Spec => []AnswerComplete
<1>1. IInv => AnswerComplete
  BY DEF IInv, Complete, AnswerComplete
<1> QED BY <1>1, Invariance, PTL

\* Whatever rejects, and whoever else is screening: every match in the answer of
\* ScreenSanctions is stored, audited and published on its behalf.
THEOREM AnswersBacked == Spec => []AnswerBacked
<1>1. IInv => AnswerBacked
  BY DEF IInv, Backed, AnswerBacked, logged, ToSet
<1> QED BY <1>1, Invariance, PTL

-----------------------------------------------------------------------------
(* The audit log and the bus, seen from one invocation.                     *)

\* An invocation has audited an event, and publishes it next.
Publishing == {"publishMatch", "publishRefresh"}
Auditing == {"auditMatch", "auditRefresh"}

\* The event that it audits and publishes.
due(c) == IF c \in Screening THEN entry("SanctionsMatchFound", current(c), c)
          ELSE entry("ListRefreshed", NoMatch, c)

\* The four things a step does to the logs.
AuditStep(c) ==
    /\ step[c] \in Auditing /\ step'[c] \in Publishing
    /\ audit' = Append(audit, due(c)) /\ published' = published
    /\ due(c)' = due(c) /\ outcome'[c] = outcome[c]
PublishStep(c) ==
    /\ step[c] \in Publishing /\ step'[c] \notin Publishing
    /\ published' = Append(published, due(c)) /\ audit' = audit
    /\ outcome'[c] = outcome[c]
MoveStep(c) ==
    /\ outcome[c] = Pending
    /\ step[c] \notin Publishing /\ step'[c] \notin Publishing
    /\ UNCHANGED logVars
RejectStep(c) ==
    /\ step'[c] \notin Publishing /\ outcome'[c] # Pending
    /\ UNCHANGED logVars
HandlerShape(c) ==
    /\ ActsOn(c)
    /\ AuditStep(c) \/ PublishStep(c) \/ MoveStep(c) \/ RejectStep(c)
Unmoved == /\ \A d \in Call : SameLocals(d) /\ outcome'[d] = outcome[d]
           /\ UNCHANGED logVars

ForRefresh == {"refreshLists", "auditRefresh", "publishRefresh", "returnReport"}
RefreshOnly == \A c \in Call : step[c] \in ForRefresh => c \in Refresh

LEMMA DueFacts ==
    ASSUME IInv, RefreshOnly, NEW c \in Call, step[c] \in Auditing \cup Publishing
    PROVE  /\ due(c) \in Event
           /\ due(c).cause = c
           /\ step[c] \in {"auditMatch", "publishMatch"} =>
                due(c) = entry("SanctionsMatchFound", current(c), c)
           /\ outcome[c] = Pending
<1>1. outcome[c] = Pending
  BY DEF IInv, TypeOK, Auditing, Publishing
<1>2. CASE step[c] \in {"auditMatch", "publishMatch"}
  BY <1>1, <1>2, CurrentFacts DEF due, entry
<1>3. CASE step[c] \notin {"auditMatch", "publishMatch"}
  <2>1. c \in Refresh /\ c \notin Screening
    BY <1>3, CallFacts DEF Auditing, Publishing, RefreshOnly, ForRefresh
  <2> QED BY <1>1, <1>3, <2>1 DEF due, entry, Event
<1> QED BY <1>2, <1>3

\* A handler step of c changes the locals and the outcome of c alone.
LEMMA GotoShape ==
    ASSUME IInv, NEW c \in Call, NEW s \in Step, Goto(c, s), UNCHANGED <<locals, outcome>>
    PROVE  ActsOn(c) /\ step'[c] = s /\ due(c)' = due(c)
BY DEF IInv, TypeOK, ActsOn, SameLocals, Goto, locals, due, current

LEMMA LeaveShape ==
    ASSUME IInv, NEW c \in Call, NEW result, Leave(c, result)
    PROVE  ActsOn(c) /\ step'[c] = "idle" /\ outcome'[c] = result
BY DEF IInv, TypeOK, ActsOn, SameLocals, Leave

LEMMA ScreeningShape ==
    ASSUME IInv, RefreshOnly, NEW c \in Screening, Execute(c) \/ ScreeningStep(c)
    PROVE  HandlerShape(c) /\ step'[c] \notin ForRefresh
<1>0. c \in Call
  BY CallFacts
<1>1. CASE Execute(c)
  <2> DEFINE s == IF c \in Individual THEN "getIdentity" ELSE "screen"
  <2>1. s \in Step /\ s \notin Publishing /\ s \notin ForRefresh
    BY DEF Step, PortStep, Publishing, ForRefresh
  <2>2. /\ Goto(c, s) /\ outcome[c] = Pending /\ step[c] = "idle"
        /\ UNCHANGED <<locals, outcome, logVars>>
    BY <1>1 DEF Execute, At
  <2> HIDE DEF s
  <2> QED BY <1>0, <2>1, <2>2, GotoShape DEF HandlerShape, MoveStep, Publishing
<1>2. CASE GetIdentity(c)
  <2> DEFINE s == IF SubjectOf[c] \in identities THEN "screen" ELSE "rejectUnknown"
  <2>1. s \in Step /\ s \notin Publishing /\ s \notin ForRefresh
    BY DEF Step, PortStep, Publishing, ForRefresh
  <2>2. /\ Goto(c, s) /\ step[c] = "getIdentity" /\ UNCHANGED <<locals, outcome, logVars>>
    BY <1>2 DEF GetIdentity, At
  <2>3. outcome[c] = Pending
    BY <1>0, <2>2 DEF IInv, TypeOK
  <2> HIDE DEF s
  <2> QED BY <1>0, <2>1, <2>2, <2>3, GotoShape DEF HandlerShape, MoveStep, Publishing
<1>3. CASE RejectUnknown(c)
  <2>1. Leave(c, Rejected("NotFound")) /\ UNCHANGED logVars
    BY <1>3 DEF RejectUnknown
  <2>2. Rejected("NotFound") # Pending
    BY DEF Rejected, Pending
  <2> QED BY <1>0, <2>1, <2>2, LeaveShape DEF HandlerShape, RejectStep, Publishing, ForRefresh
<1>4. CASE Screen(c)
  <2>1. PICK answer \in Answers : /\ candidates' = [candidates EXCEPT ![c] = answer]
                                  /\ Goto(c, loop(c, answer, 0))
    BY <1>4 DEF Screen
  <2>2. step[c] = "screen" /\ UNCHANGED <<position, matchIds, outcome, logVars>>
    BY <1>4 DEF Screen, At
  <2>3. loop(c, answer, 0) \in {"returnMatches", "saveMatch"}
    BY DEF loop
  <2>4. ActsOn(c) /\ step'[c] \in {"returnMatches", "saveMatch"}
    BY <1>0, <2>1, <2>2, <2>3 DEF IInv, TypeOK, ActsOn, SameLocals, Goto
  <2>5. outcome[c] = Pending
    BY <1>0, <2>2 DEF IInv, TypeOK
  <2> QED BY <2>2, <2>4, <2>5 DEF HandlerShape, MoveStep, Publishing, ForRefresh
<1>5. CASE SaveMatch(c)
  <2>1. PICK i : /\ position' = [position EXCEPT ![c] = i]
                 /\ matchIds' = [matchIds EXCEPT ![c] = Append(@, candidates[c][i])]
    BY <1>5 DEF SaveMatch
  <2>2. step[c] = "saveMatch" /\ Goto(c, "auditMatch") /\ UNCHANGED <<candidates, outcome, logVars>>
    BY <1>5 DEF SaveMatch, At
  <2>3. ActsOn(c) /\ step'[c] = "auditMatch"
    BY <1>0, <2>1, <2>2 DEF IInv, TypeOK, ActsOn, SameLocals, Goto
  <2>4. outcome[c] = Pending
    BY <1>0, <2>2 DEF IInv, TypeOK
  <2> QED BY <2>2, <2>3, <2>4 DEF HandlerShape, MoveStep, Publishing, ForRefresh
<1>6. CASE AuditMatch(c)
  <2>1. /\ step[c] = "auditMatch" /\ Goto(c, "publishMatch")
        /\ audit' = Append(audit, entry("SanctionsMatchFound", current(c), c))
        /\ published' = published /\ UNCHANGED <<locals, outcome>>
    BY <1>6 DEF AuditMatch, At
  <2>2. "publishMatch" \in Step
    BY DEF Step, PortStep
  <2>3. due(c) = entry("SanctionsMatchFound", current(c), c)
    BY DEF due
  <2> QED BY <1>0, <2>1, <2>2, <2>3, GotoShape
      DEF HandlerShape, AuditStep, Auditing, Publishing, ForRefresh
<1>7. CASE PublishMatch(c)
  <2> DEFINE s == loop(c, candidates[c], position[c])
  <2>1. /\ step[c] = "publishMatch" /\ Goto(c, s)
        /\ published' = Append(published, entry("SanctionsMatchFound", current(c), c))
        /\ audit' = audit /\ UNCHANGED <<locals, outcome>>
    BY <1>7 DEF PublishMatch, At
  <2>2. s \in Step /\ s \notin Publishing /\ s \notin ForRefresh
    BY DEF loop, Step, PortStep, Publishing, ForRefresh
  <2>3. due(c) = entry("SanctionsMatchFound", current(c), c)
    BY DEF due
  <2> HIDE DEF s
  <2> QED BY <1>0, <2>1, <2>2, <2>3, GotoShape DEF HandlerShape, PublishStep, Publishing
<1>8. CASE ReturnMatches(c)
  <2>1. Leave(c, Resolved(Len(candidates[c]), matchIds[c])) /\ UNCHANGED logVars
    BY <1>8 DEF ReturnMatches
  <2>2. Resolved(Len(candidates[c]), matchIds[c]) # Pending
    BY DEF Resolved, Pending
  <2> QED BY <1>0, <2>1, <2>2, LeaveShape DEF HandlerShape, RejectStep, Publishing, ForRefresh
<1> QED BY <1>1, <1>2, <1>3, <1>4, <1>5, <1>6, <1>7, <1>8 DEF ScreeningStep

LEMMA RefreshShape ==
    ASSUME IInv, RefreshOnly, NEW c \in Refresh, ExecuteRefresh(c) \/ RefreshStep(c)
    PROVE  HandlerShape(c)
<1>0. c \in Call /\ c \notin Screening /\ due(c) = entry("ListRefreshed", NoMatch, c)
      /\ {"refreshLists", "auditRefresh", "publishRefresh", "returnReport"} \subseteq Step
  BY CallFacts DEF due, Step, PortStep
<1>1. CASE ExecuteRefresh(c) \/ RefreshLists(c)
  <2>1. PICK s \in {"refreshLists", "auditRefresh"} : Goto(c, s)
    BY <1>1 DEF ExecuteRefresh, RefreshLists
  <2>2. step[c] \in {"idle", "refreshLists"} /\ outcome[c] = Pending
    BY <1>0, <1>1 DEF ExecuteRefresh, RefreshLists, At, IInv, TypeOK
  <2>3. UNCHANGED <<locals, outcome, logVars>>
    BY <1>1 DEF ExecuteRefresh, RefreshLists
  <2> QED BY <1>0, <2>1, <2>2, <2>3, GotoShape DEF HandlerShape, MoveStep, Publishing
<1>2. CASE AuditRefresh(c)
  <2>1. /\ step[c] = "auditRefresh" /\ Goto(c, "publishRefresh")
        /\ audit' = Append(audit, due(c)) /\ published' = published
        /\ UNCHANGED <<locals, outcome>>
    BY <1>0, <1>2 DEF AuditRefresh, At
  <2> QED BY <1>0, <2>1, GotoShape DEF HandlerShape, AuditStep, Auditing, Publishing
<1>3. CASE PublishRefresh(c)
  <2>1. /\ step[c] = "publishRefresh" /\ Goto(c, "returnReport")
        /\ published' = Append(published, due(c)) /\ audit' = audit
        /\ UNCHANGED <<locals, outcome>>
    BY <1>0, <1>3 DEF PublishRefresh, At
  <2> QED BY <1>0, <2>1, GotoShape DEF HandlerShape, PublishStep, Publishing
<1>4. CASE ReturnReport(c)
  <2>1. Leave(c, Resolved(0, <<>>)) /\ UNCHANGED logVars
    BY <1>4 DEF ReturnReport
  <2>2. Resolved(0, <<>>) # Pending
    BY DEF Resolved, Pending
  <2> QED BY <1>0, <2>1, <2>2, LeaveShape DEF HandlerShape, RejectStep, Publishing
<1> QED BY <1>1, <1>2, <1>3, <1>4 DEF RefreshStep

LEMMA RejectsShape ==
    ASSUME IInv, NEW c \in Call, PortRejects(c)
    PROVE  HandlerShape(c) /\ step'[c] = "idle"
<1>1. Leave(c, Rejected("PortError")) /\ UNCHANGED logVars
  BY DEF PortRejects
<1>2. Rejected("PortError") # Pending
  BY DEF Rejected, Pending
<1> QED BY <1>1, <1>2, LeaveShape DEF HandlerShape, RejectStep, Publishing

LEMMA Shapes ==
    ASSUME IInv, RefreshOnly, [Next]_vars
    PROVE  RefreshOnly' /\ (Unmoved \/ \E c \in Call : HandlerShape(c))
<1>1. ASSUME NEW c \in Screening, Execute(c) \/ ScreeningStep(c)
      PROVE  HandlerShape(c) /\ RefreshOnly' /\ c \in Call
  BY <1>1, CallFacts, ScreeningShape DEF HandlerShape, ActsOn, SameLocals, RefreshOnly
<1>2. ASSUME NEW c \in Refresh, ExecuteRefresh(c) \/ RefreshStep(c)
      PROVE  HandlerShape(c) /\ RefreshOnly' /\ c \in Call
  BY <1>2, CallFacts, RefreshShape DEF HandlerShape, ActsOn, SameLocals, RefreshOnly
<1>3. ASSUME NEW c \in Call, PortRejects(c)
      PROVE  HandlerShape(c) /\ RefreshOnly'
  BY <1>3, RejectsShape DEF HandlerShape, ActsOn, SameLocals, RefreshOnly, ForRefresh
<1>4. ASSUME NEW s \in Subject, SaveIdentity(s)
      PROVE  Unmoved /\ RefreshOnly'
  BY <1>4 DEF SaveIdentity, Unmoved, SameLocals, locals, logVars, RefreshOnly
<1>5. CASE UNCHANGED vars
  BY <1>5 DEF vars, Unmoved, SameLocals, locals, logVars, RefreshOnly
<1> QED BY <1>1, <1>2, <1>3, <1>4, <1>5 DEF Next, Done

\* What an invocation has published is what it has audited; while the port call
\* to publish is under way, or if that rejected, the last of it is missing.
Lockstep(c) ==
    LET a == written(audit, c)
        p == written(published, c)
    IN  /\ step[c] \in Publishing => a = Append(p, due(c))
        /\ step[c] \notin Publishing /\ outcome[c] = Pending => a = p
        /\ outcome[c] # Pending => a = p \/ \E e \in Event : a = Append(p, e)

LInv == IInv /\ RefreshOnly /\ \A c \in Call : Lockstep(c)

\* What one invocation wrote, after one more entry.
LEMMA WrittenAppend ==
    ASSUME NEW log \in Seq(Event), NEW e \in Event, NEW c
    PROVE  written(Append(log, e), c) =
           IF e.cause = c THEN Append(written(log, c), e) ELSE written(log, c)
<1> DEFINE kept == {i \in DOMAIN log : log[i].cause = c}
           more == {i \in DOMAIN Append(log, e) : Append(log, e)[i].cause = c}
<1>1. \A i \in 1..Len(log) : i \in kept <=> i \in more
  OBVIOUS
<1>2. Len(log) + 1 \in more <=> e.cause = c
  OBVIOUS
<1> HIDE DEF kept, more
<1>3. Selected(Append(log, e), more) =
        IF Len(log) + 1 \in more THEN Append(Selected(log, kept), e) ELSE Selected(log, kept)
  BY <1>1, SelectedAppend
<1> QED BY <1>2, <1>3 DEF written, kept, more

LEMMA WrittenType ==
    ASSUME NEW log \in Seq(Event), NEW c
    PROVE  written(log, c) \in Seq(Event)
BY SelectedType DEF written

LEMMA LockstepStays ==
    ASSUME NEW d \in Call, Lockstep(d), SameLocals(d), outcome'[d] = outcome[d],
           written(audit', d) = written(audit, d),
           written(published', d) = written(published, d)
    PROVE  Lockstep(d)'
<1>1. due(d)' = due(d)
  BY DEF SameLocals, due, current
<1> QED BY <1>1 DEF Lockstep, SameLocals

LEMMA LockstepInv == LInv /\ [Next]_vars => LInv'
<1> SUFFICES ASSUME LInv, [Next]_vars PROVE LInv'
  OBVIOUS
<1>1. IInv' /\ RefreshOnly'
  BY StepInv, Shapes DEF LInv
<1>2. audit \in Seq(Event) /\ published \in Seq(Event)
  BY DEF LInv, IInv, TypeOK
<1>3. CASE Unmoved
  BY <1>1, <1>3, LockstepStays DEF LInv, Unmoved, logVars
<1>4. ASSUME NEW c \in Call, HandlerShape(c)
      PROVE  \A d \in Call : Lockstep(d)'
  <2>1. ASSUME NEW d \in Call, d # c
        PROVE  Lockstep(d)'
    <3>1. SameLocals(d) /\ outcome'[d] = outcome[d] /\ Lockstep(d)
      BY <1>4, <2>1 DEF HandlerShape, ActsOn, LInv
    <3>2. CASE AuditStep(c)
      <4>1. due(c) \in Event /\ due(c).cause = c
        BY <3>2, DueFacts DEF LInv, AuditStep
      <4>2. written(audit', d) = written(audit, d)
        BY <1>2, <2>1, <3>2, <4>1, WrittenAppend DEF AuditStep
      <4> QED BY <3>1, <3>2, <4>2, LockstepStays DEF AuditStep
    <3>3. CASE PublishStep(c)
      <4>1. due(c) \in Event /\ due(c).cause = c
        BY <3>3, DueFacts DEF LInv, PublishStep
      <4>2. written(published', d) = written(published, d)
        BY <1>2, <2>1, <3>3, <4>1, WrittenAppend DEF PublishStep
      <4> QED BY <3>1, <3>3, <4>2, LockstepStays DEF PublishStep
    <3>4. CASE MoveStep(c) \/ RejectStep(c)
      BY <3>1, <3>4, LockstepStays DEF MoveStep, RejectStep, logVars
    <3> QED BY <1>4, <3>2, <3>3, <3>4 DEF HandlerShape
  <2> DEFINE a == written(audit, c)
             p == written(published, c)
  <2>2. Lockstep(c) /\ a \in Seq(Event) /\ p \in Seq(Event)
    BY <1>2, WrittenType DEF LInv
  <2>3. ASSUME AuditStep(c) PROVE Lockstep(c)'
    <3>1. due(c) \in Event /\ due(c).cause = c /\ outcome[c] = Pending
      BY <2>3, DueFacts DEF LInv, AuditStep
    <3>2. written(audit', c) = Append(a, due(c)) /\ written(published', c) = p
      BY <1>2, <2>3, <3>1, WrittenAppend DEF AuditStep
    <3>3. a = p
      BY <2>2, <2>3, <3>1 DEF Lockstep, AuditStep, Auditing, Publishing
    <3> HIDE DEF a, p
    <3> QED BY <2>3, <3>1, <3>2, <3>3 DEF Lockstep, AuditStep
  <2>4. ASSUME PublishStep(c) PROVE Lockstep(c)'
    <3>1. due(c) \in Event /\ due(c).cause = c /\ outcome[c] = Pending
      BY <2>4, DueFacts DEF LInv, PublishStep
    <3>2. written(published', c) = Append(p, due(c)) /\ written(audit', c) = a
      BY <1>2, <2>4, <3>1, WrittenAppend DEF PublishStep
    <3>3. a = Append(p, due(c))
      BY <2>2, <2>4 DEF Lockstep, PublishStep
    <3> HIDE DEF a, p
    <3> QED BY <2>4, <3>1, <3>2, <3>3 DEF Lockstep, PublishStep
  <2>5. ASSUME MoveStep(c) PROVE Lockstep(c)'
    <3>1. a = p /\ written(audit', c) = a /\ written(published', c) = p
      BY <2>2, <2>5 DEF Lockstep, MoveStep, logVars
    <3> HIDE DEF a, p
    <3> QED BY <2>5, <3>1 DEF Lockstep, MoveStep
  <2>6. ASSUME RejectStep(c) PROVE Lockstep(c)'
    <3>1. written(audit', c) = a /\ written(published', c) = p
      BY <2>6 DEF RejectStep, logVars
    <3>2. a = p \/ \E e \in Event : a = Append(p, e)
      <4>1. CASE step[c] \in Publishing
        BY <2>2, <4>1, DueFacts DEF Lockstep, LInv
      <4>2. CASE step[c] \notin Publishing
        BY <2>2, <4>2 DEF Lockstep
      <4> QED BY <4>1, <4>2
    <3> HIDE DEF a, p
    <3> QED BY <2>6, <3>1, <3>2 DEF Lockstep, RejectStep
  <2>7. Lockstep(c)'
    BY <1>4, <2>3, <2>4, <2>5, <2>6 DEF HandlerShape
  <2> QED BY <2>1, <2>7
<1>5. \A d \in Call : Lockstep(d)'
  BY <1>3, <1>4, Shapes DEF LInv
<1> QED BY <1>1, <1>5 DEF LInv

\* An invocation publishes nothing that is not in the audit log before, in the
\* order it is there, and has at most one audited event not yet published,
\* whatever the other invocations append in between and whatever rejects.
THEOREM LogsInLockstep == Spec => []InLockstep
<1>1. Init => LInv
  <2> SUFFICES ASSUME Init PROVE LInv
    OBVIOUS
  <2>1. \A c \in Call : step[c] = "idle" /\ outcome[c] = Pending
    BY DEF Init
  <2>2. audit = published
    BY DEF Init
  <2>3. RefreshOnly /\ \A c \in Call : Lockstep(c)
    BY <2>1, <2>2 DEF RefreshOnly, ForRefresh, Lockstep, Publishing
  <2> QED BY <2>3, InitInv DEF LInv
<1>2. LInv => InLockstep
  <2> SUFFICES ASSUME LInv, NEW c \in Call
               PROVE  /\ IsPrefix(written(published, c), written(audit, c))
                      /\ Len(written(audit, c)) - Len(written(published, c)) <= 1
    BY DEF InLockstep
  <2> DEFINE a == written(audit, c)
             p == written(published, c)
  <2>1. a \in Seq(Event) /\ p \in Seq(Event)
    BY WrittenType DEF LInv, IInv, TypeOK
  <2>2. a = p \/ \E e \in Event : a = Append(p, e)
    BY DueFacts DEF LInv, Lockstep
  <2> HIDE DEF a, p
  <2>3. IsPrefix(p, a) /\ Len(a) - Len(p) <= 1
    <3>1. CASE a = p
      BY <2>1, <3>1 DEF IsPrefix
    <3>2. ASSUME NEW e \in Event, a = Append(p, e)
          PROVE  IsPrefix(p, a) /\ Len(a) - Len(p) <= 1
      BY <2>1, <3>2 DEF IsPrefix
    <3> QED BY <2>2, <3>1, <3>2
  <2> QED BY <2>3 DEF a, p
<1> QED BY <1>1, <1>2, LockstepInv, PTL DEF Spec

-----------------------------------------------------------------------------
(* The repository and the audit log.                                        *)

\* The screenings about to audit a match, and the matches they are about to audit.
AtAudit == {c \in Screening : At(c, "auditMatch")}
Covered == {current(c) : c \in AtAudit}

\* What nobody is going to audit: a port call that rejected left it behind.
Lost == Unaudited \ Covered

UInv == /\ IInv
        /\ IsFiniteSet(AtAudit)
        /\ IsFiniteSet(Lost) /\ Cardinality(Lost) <= faults

KeepsAudit == \A j \in DOMAIN audit : j \in DOMAIN audit' /\ audit'[j] = audit[j]

\* What a step of c does to the matches that are stored and not yet audited.
SaveShape(c) ==
    /\ step[c] # "auditMatch" /\ step'[c] = "auditMatch" /\ c \in Screening
    /\ stored' = stored \cup {current(c)'} /\ faults' = faults
AuditShape(c) ==
    /\ step[c] = "auditMatch" /\ step'[c] # "auditMatch"
    /\ \E j \in DOMAIN audit' : audit'[j].match = current(c)
    /\ stored' = stored /\ faults' = faults
OtherShape(c) ==
    /\ step[c] # "auditMatch" /\ step'[c] # "auditMatch"
    /\ stored' = stored /\ faults' = faults
FailShape(c) ==
    /\ step'[c] = "idle"
    /\ stored' = stored /\ faults' = faults + 1

\* Other screenings at their audit stay there, with the match they are at.
LEMMA CoveredStays ==
    ASSUME NEW c \in Call, ActsOn(c), NEW d \in AtAudit, d # c
    PROVE  d \in AtAudit' /\ current(d)' = current(d)
<1>1. d \in Screening /\ d \in Call /\ SameLocals(d)
  BY CallFacts DEF AtAudit, ActsOn
<1> QED BY <1>1 DEF AtAudit, At, SameLocals, current

LEMMA AuditersFinite ==
    ASSUME NEW c \in Call, ActsOn(c), IsFiniteSet(AtAudit)
    PROVE  IsFiniteSet(AtAudit')
<1>1. ASSUME NEW d \in AtAudit' PROVE d \in AtAudit \cup {c}
  <2>1. d \in Screening /\ d \in Call
    BY CallFacts DEF AtAudit
  <2> QED BY <1>1, <2>1 DEF AtAudit, At, ActsOn, SameLocals
<1>2. IsFiniteSet(AtAudit \cup {c})
  BY FS_AddElement
<1> HIDE DEF AtAudit
<1>3. AtAudit' \in SUBSET (AtAudit \cup {c})
  BY <1>1
<1> QED BY <1>2, <1>3, FS_Subset

LEMMA LostBound ==
    ASSUME NEW m, IsFiniteSet(Lost), Cardinality(Lost) <= faults, faults \in Nat,
           \/ Lost' \subseteq Lost /\ faults' = faults
           \/ Lost' \subseteq Lost \cup {m} /\ faults' = faults + 1
    PROVE  IsFiniteSet(Lost') /\ Cardinality(Lost') <= faults'
<1> DEFINE L == Lost
           M == Lost'
<1>1. IsFiniteSet(L) /\ Cardinality(L) <= faults /\ Cardinality(L) \in Nat
  BY FS_CardinalityType
<1>2. IsFiniteSet(L \cup {m}) /\ Cardinality(L \cup {m}) \in Nat
      /\ Cardinality(L \cup {m}) <= Cardinality(L) + 1
  <2> HIDE DEF L
  <2>1. IsFiniteSet(L \cup {m})
        /\ Cardinality(L \cup {m}) = IF m \in L THEN Cardinality(L) ELSE Cardinality(L) + 1
    BY <1>1, FS_AddElement
  <2> QED BY <1>1, <2>1
<1> HIDE DEF L, M
<1>3. CASE M \subseteq L /\ faults' = faults
  <2>1. IsFiniteSet(M) /\ Cardinality(M) <= Cardinality(L)
    BY <1>1, <1>3, FS_Subset
  <2>2. Cardinality(M) \in Nat
    BY <2>1, FS_CardinalityType
  <2> QED BY <1>1, <1>3, <2>1, <2>2 DEF M
<1>4. CASE M \subseteq L \cup {m} /\ faults' = faults + 1
  <2>1. IsFiniteSet(M) /\ Cardinality(M) <= Cardinality(L \cup {m})
    BY <1>2, <1>4, FS_Subset
  <2>2. Cardinality(M) \in Nat
    BY <2>1, FS_CardinalityType
  <2> QED BY <1>1, <1>2, <1>4, <2>1, <2>2 DEF M
<1> QED BY <1>3, <1>4 DEF L, M

LEMMA LostStep ==
    ASSUME UInv, NEW c \in Call, ActsOn(c), KeepsAudit,
           SaveShape(c) \/ AuditShape(c) \/ OtherShape(c) \/ FailShape(c)
    PROVE  IsFiniteSet(AtAudit') /\ IsFiniteSet(Lost') /\ Cardinality(Lost') <= faults'
<1>1. \A m \in stored : m \in Unaudited' => m \in Unaudited
  BY DEF Unaudited, KeepsAudit
<1>2. \A m \in Covered : m \in Covered' \/ (c \in AtAudit /\ m = current(c))
  BY CoveredStays DEF Covered
<1>3. faults \in Nat /\ IsFiniteSet(AtAudit) /\ IsFiniteSet(Lost) /\ Cardinality(Lost) <= faults
  BY BoundsAssumption DEF UInv, IInv, TypeOK
<1>4. CASE SaveShape(c)
  <2>1. c \in AtAudit' /\ c \notin AtAudit
    BY <1>4 DEF SaveShape, AtAudit, At
  <2>2. current(c)' \in Covered'
    BY <2>1 DEF Covered
  <2>3. ASSUME NEW m \in Lost' PROVE m \in Lost
    <3>1. m \in Unaudited' /\ m \notin Covered' /\ m # current(c)' /\ m \in stored'
      BY <2>2 DEF Lost, Unaudited
    <3>2. m \in stored
      BY <1>4, <3>1 DEF SaveShape
    <3> QED BY <1>1, <1>2, <2>1, <3>1, <3>2 DEF Lost
  <2> QED BY <1>3, <1>4, <2>3, AuditersFinite, LostBound DEF SaveShape
<1>5. CASE AuditShape(c)
  <2>1. ASSUME NEW m \in Lost' PROVE m \in Lost
    <3>1. m \in Unaudited' /\ m \notin Covered' /\ m # current(c) /\ m \in stored
      BY <1>5 DEF AuditShape, Lost, Unaudited
    <3> QED BY <1>1, <1>2, <3>1 DEF Lost
  <2> QED BY <1>3, <1>5, <2>1, AuditersFinite, LostBound DEF AuditShape
<1>6. CASE OtherShape(c)
  <2>1. ASSUME NEW m \in Lost' PROVE m \in Lost
    <3>1. m \in Unaudited' /\ m \notin Covered' /\ m \in stored /\ c \notin AtAudit
      BY <1>6 DEF OtherShape, Lost, Unaudited, AtAudit, At
    <3> QED BY <1>1, <1>2, <3>1 DEF Lost
  <2> QED BY <1>3, <1>6, <2>1, AuditersFinite, LostBound DEF OtherShape
<1>7. CASE FailShape(c)
  <2>1. ASSUME NEW m \in Lost' PROVE m \in Lost \cup {current(c)}
    <3>1. m \in Unaudited' /\ m \notin Covered' /\ m \in stored
      BY <1>7 DEF FailShape, Lost, Unaudited
    <3> QED BY <1>1, <1>2, <3>1 DEF Lost
  <2> QED BY <1>3, <1>7, <2>1, AuditersFinite, LostBound DEF FailShape
<1> QED BY <1>4, <1>5, <1>6, <1>7

\* Every step of a screening or a refresh has one of the shapes.
LEMMA UShapes ==
    ASSUME IInv, NEW c \in Call,
           \/ c \in Screening /\ (Execute(c) \/ ScreeningStep(c))
           \/ c \in Refresh /\ (ExecuteRefresh(c) \/ RefreshStep(c))
           \/ PortRejects(c)
    PROVE  /\ ActsOn(c) /\ KeepsAudit
           /\ SaveShape(c) \/ AuditShape(c) \/ OtherShape(c) \/ FailShape(c)
<1>0. /\ step \in [Call -> Step] /\ audit \in Seq(Event) /\ "idle" \in Step
      /\ "publishMatch" \in Step /\ "auditMatch" \in Step
  BY DEF IInv, TypeOK, Step, PortStep
<1>1. ASSUME NEW s \in Step, Goto(c, s), step[c] # "auditMatch", s # "auditMatch",
             UNCHANGED <<locals, outcome, stored, audit, faults>>
      PROVE  ActsOn(c) /\ KeepsAudit /\ OtherShape(c)
  BY <1>1, GotoShape DEF KeepsAudit, OtherShape
<1>2. ASSUME NEW result, Leave(c, result), step[c] # "auditMatch",
             UNCHANGED <<stored, audit, faults>>
      PROVE  ActsOn(c) /\ KeepsAudit /\ OtherShape(c)
  BY <1>2, LeaveShape DEF KeepsAudit, OtherShape
<1>3. CASE c \in Screening /\ Execute(c)
  <2>1. PICK s \in {"getIdentity", "screen"} : Goto(c, s)
    BY <1>3 DEF Execute
  <2>2. s \in Step
    BY DEF Step, PortStep
  <2> QED BY <1>1, <1>3, <2>1, <2>2 DEF Execute, At, storeVars, logVars
<1>4. CASE GetIdentity(c)
  <2>1. PICK s \in {"rejectUnknown", "screen"} : Goto(c, s)
    BY <1>4 DEF GetIdentity
  <2>2. s \in Step
    BY DEF Step, PortStep
  <2> QED BY <1>1, <1>4, <2>1, <2>2 DEF GetIdentity, At, storeVars, logVars
<1>5. CASE RejectUnknown(c)
  BY <1>2, <1>5 DEF RejectUnknown, At, storeVars, logVars
<1>6. CASE Screen(c)
  <2>1. PICK answer \in Answers : /\ candidates' = [candidates EXCEPT ![c] = answer]
                                  /\ Goto(c, loop(c, answer, 0))
    BY <1>6 DEF Screen
  <2>2. /\ step[c] = "screen"
        /\ UNCHANGED <<position, matchIds, outcome, stored, audit, faults>>
    BY <1>6 DEF Screen, At, storeVars, logVars
  <2>3. loop(c, answer, 0) \in {"returnMatches", "saveMatch"}
    BY DEF loop
  <2>4. ActsOn(c) /\ step'[c] \in {"returnMatches", "saveMatch"}
    BY <1>0, <2>1, <2>2, <2>3 DEF ActsOn, SameLocals, Goto, IInv, TypeOK
  <2> QED BY <2>2, <2>4 DEF KeepsAudit, OtherShape
<1>7. CASE SaveMatch(c)
  <2>1. PICK i : /\ position' = [position EXCEPT ![c] = i]
                 /\ stored' = stored \cup {candidates[c][i]}
                 /\ matchIds' = [matchIds EXCEPT ![c] = Append(@, candidates[c][i])]
    BY <1>7 DEF SaveMatch
  <2>2. /\ step[c] = "saveMatch" /\ Goto(c, "auditMatch")
        /\ UNCHANGED <<candidates, outcome, audit, faults>>
    BY <1>7 DEF SaveMatch, At, logVars
  <2>3. ActsOn(c) /\ step'[c] = "auditMatch" /\ position'[c] = i /\ candidates'[c] = candidates[c]
    BY <1>0, <2>1, <2>2 DEF ActsOn, SameLocals, Goto, IInv, TypeOK
  <2>4. c \in Screening
    BY <2>2 DEF IInv, Progress, ForScreening, InLoop
  <2>5. current(c)' = candidates[c][i]
    BY <2>3 DEF current
  <2> QED BY <2>1, <2>2, <2>3, <2>4, <2>5 DEF KeepsAudit, SaveShape
<1>8. CASE AuditMatch(c)
  <2> DEFINE e == entry("SanctionsMatchFound", current(c), c)
  <2>1. /\ step[c] = "auditMatch" /\ Goto(c, "publishMatch") /\ audit' = Append(audit, e)
        /\ UNCHANGED <<locals, outcome, stored, faults>>
    BY <1>8 DEF AuditMatch, At, storeVars
  <2>2. e \in Event /\ e.match = current(c)
    BY <2>1, CurrentFacts DEF entry
  <2> HIDE DEF e
  <2>3. KeepsAudit /\ \E j \in DOMAIN audit' : audit'[j] = e
    BY <1>0, <2>1, <2>2, AppendKeeps DEF KeepsAudit
  <2>4. ActsOn(c) /\ step'[c] = "publishMatch"
    BY <1>0, <2>1, GotoShape
  <2> QED BY <2>1, <2>2, <2>3, <2>4 DEF AuditShape
<1>9. CASE PublishMatch(c)
  <2> DEFINE s == loop(c, candidates[c], position[c])
  <2>1. s \in Step /\ s # "auditMatch"
    BY DEF loop, Step, PortStep
  <2>2. /\ step[c] = "publishMatch" /\ Goto(c, s)
        /\ UNCHANGED <<locals, outcome, stored, audit, faults>>
    BY <1>9 DEF PublishMatch, At, storeVars
  <2> HIDE DEF s
  <2> QED BY <1>1, <2>1, <2>2
<1>10. CASE ReturnMatches(c)
  BY <1>2, <1>10 DEF ReturnMatches, At, storeVars, logVars
<1>11. CASE c \in Refresh /\ (ExecuteRefresh(c) \/ RefreshLists(c) \/ PublishRefresh(c))
  <2>1. PICK s \in {"refreshLists", "auditRefresh", "returnReport"} : Goto(c, s)
    BY <1>11 DEF ExecuteRefresh, RefreshLists, PublishRefresh
  <2>2. s \in Step /\ s # "auditMatch"
    BY DEF Step, PortStep
  <2>3. /\ step[c] # "auditMatch"
        /\ UNCHANGED <<locals, outcome, stored, audit, faults>>
    BY <1>11 DEF ExecuteRefresh, RefreshLists, PublishRefresh, At, storeVars, logVars
  <2> QED BY <1>1, <2>1, <2>2, <2>3
<1>12. CASE AuditRefresh(c)
  <2> DEFINE e == entry("ListRefreshed", NoMatch, c)
  <2>1. /\ step[c] = "auditRefresh" /\ Goto(c, "publishRefresh") /\ audit' = Append(audit, e)
        /\ UNCHANGED <<locals, outcome, stored, faults>>
    BY <1>12 DEF AuditRefresh, At, storeVars
  <2>2. e \in Event /\ "publishRefresh" \in Step
    BY DEF entry, Event, Step, PortStep
  <2> HIDE DEF e
  <2>3. KeepsAudit
    BY <1>0, <2>1, <2>2, AppendKeeps DEF KeepsAudit
  <2>4. ActsOn(c) /\ step'[c] = "publishRefresh"
    BY <1>0, <2>1, <2>2, GotoShape
  <2> QED BY <2>1, <2>3, <2>4 DEF OtherShape
<1>13. CASE ReturnReport(c)
  BY <1>2, <1>13 DEF ReturnReport, At, storeVars, logVars
<1>14. CASE PortRejects(c)
  <2>1. /\ Leave(c, Rejected("PortError")) /\ faults' = faults + 1
        /\ UNCHANGED <<stored, audit>>
    BY <1>14 DEF PortRejects, storeVars, logVars
  <2> QED BY <2>1, LeaveShape DEF KeepsAudit, FailShape
<1> QED BY <1>3, <1>4, <1>5, <1>6, <1>7, <1>8, <1>9, <1>10, <1>11, <1>12, <1>13, <1>14
    DEF ScreeningStep, RefreshStep

LEMMA UInvariance == Spec => []UInv
<1>1. Init => UInv
  <2> SUFFICES ASSUME Init PROVE UInv
    OBVIOUS
  <2>1. AtAudit = {} /\ Lost = {} /\ faults = 0
    BY CallFacts DEF Init, AtAudit, At, Lost, Unaudited
  <2> QED BY <2>1, InitInv, FS_EmptySet DEF UInv
<1>2. UInv /\ [Next]_vars => UInv'
  <2> SUFFICES ASSUME UInv, [Next]_vars PROVE UInv'
    OBVIOUS
  <2>1. IInv /\ IInv'
    BY StepInv DEF UInv
  <2>2. ASSUME NEW c \in Call,
               \/ c \in Screening /\ (Execute(c) \/ ScreeningStep(c))
               \/ c \in Refresh /\ (ExecuteRefresh(c) \/ RefreshStep(c))
               \/ PortRejects(c)
        PROVE  UInv'
    BY <2>1, <2>2, UShapes, LostStep DEF UInv
  <2>3. CASE UNCHANGED <<step, locals, stored, audit, faults>>
    <3>1. AtAudit' = AtAudit /\ Lost' = Lost
      BY <2>3 DEF locals, AtAudit, At, Lost, Unaudited, Covered, current
    <3> QED BY <2>1, <2>3, <3>1 DEF UInv
  <2>4. (\E s \in Subject : SaveIdentity(s)) \/ UNCHANGED vars
        => UNCHANGED <<step, locals, stored, audit, faults>>
    BY DEF SaveIdentity, vars, logVars, storeVars
  <2> QED BY <2>2, <2>3, <2>4, CallFacts DEF Next, Done
<1> QED BY <1>1, <1>2, PTL DEF Spec

\* The audit log has every stored match, but for those that screenings are about
\* to audit, and one for each port call that rejected, for any screenings.
THEOREM UnauditedAreExplained == Spec => []UnauditedExplained
<1>1. UInv => UnauditedExplained
  <2> SUFFICES ASSUME UInv
               PROVE  Cardinality(Unaudited) <= faults + Cardinality(AtAudit)
    BY DEF UnauditedExplained, AtAudit
  <2> DEFINE f == [c \in AtAudit |-> current(c)]
             A == AtAudit
             V == Covered
             L == Lost
             U == Unaudited
  <2>1. f \in Surjection(A, V)
    BY DEF Surjection, Covered
  <2>2. IsFiniteSet(A) /\ IsFiniteSet(L) /\ Cardinality(L) <= faults /\ faults \in Nat
    BY BoundsAssumption DEF UInv, IInv, TypeOK
  <2>3. U \in SUBSET (L \cup V)
    BY DEF Lost
  <2> HIDE DEF f, A, V, L, U
  <2>4. IsFiniteSet(V) /\ Cardinality(V) <= Cardinality(A)
    BY <2>1, <2>2, FS_Surjection
  <2>5. /\ IsFiniteSet(L \cup V)
        /\ Cardinality(L \cup V) = Cardinality(L) + Cardinality(V) - Cardinality(L \cap V)
    BY <2>2, <2>4, FS_Union
  <2>6. IsFiniteSet(L \cap V)
    BY <2>2, FS_Intersection
  <2>7. IsFiniteSet(U) /\ Cardinality(U) <= Cardinality(L \cup V)
    BY <2>3, <2>5, FS_Subset
  <2>8. /\ Cardinality(A) \in Nat /\ Cardinality(V) \in Nat /\ Cardinality(L) \in Nat
        /\ Cardinality(L \cap V) \in Nat /\ Cardinality(U) \in Nat
    BY <2>2, <2>4, <2>6, <2>7, FS_CardinalityType
  <2>9. Cardinality(U) <= faults + Cardinality(A)
    BY <2>2, <2>4, <2>5, <2>7, <2>8
  <2> QED BY <2>9 DEF U, A
<1> QED BY <1>1, UInvariance, PTL

=============================================================================
