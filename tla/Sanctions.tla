------------------------------ MODULE Sanctions ------------------------------
(***************************************************************************)
(* ScreenSanctions and RefreshSanctionsLists                               *)
(* (app/commands/screen-sanctions.ts, refresh-sanctions-lists.ts) running  *)
(* concurrently over one repository, audit log and event bus.              *)
(*                                                                         *)
(* Neither command runs behind the idempotency store.  A screening makes   *)
(* three port calls for every match it keeps, one match after the other,   *)
(* and any of them may reject: what was done so far stays.  As in          *)
(* Verification, step[c] names the port call invocation c is suspended in. *)
(*                                                                         *)
(* The screening provider is external: it answers any of Answers.          *)
(***************************************************************************)
EXTENDS Integers, Sequences, SequencesExt, FiniteSets, Selection

CONSTANTS
    Screening,   \* invocations of ScreenSanctions.execute
    Refresh,     \* invocations of RefreshSanctionsLists.execute
    Subject,     \* subject ids
    SubjectOf,   \* subjectId of each screening
    Individual,  \* the screenings whose subjectKind is IDENTITY
    ThresholdOf, \* confidenceThreshold of each screening, or Unset
    MatchId,     \* ids of matches
    Confidence,  \* the confidence of each match
    Answers,     \* what the provider may answer a screening
    Fallible,    \* the port calls that may reject
    MaxFaults,   \* BOUND on how many do
    Unset, NoMatch

Call == Screening \cup Refresh
PortStep == {"getIdentity", "screen", "saveMatch", "auditMatch", "publishMatch",
             "refreshLists", "auditRefresh", "publishRefresh"}
Step == PortStep \cup {"idle", "rejectUnknown", "returnMatches", "returnReport"}

ASSUME CallsAssumption ==
    /\ Screening \cap Refresh = {}
    /\ SubjectOf \in [Screening -> Subject]
    /\ Individual \subseteq Screening
ASSUME MatchesAssumption ==
    /\ Confidence \in [MatchId -> 0..100]
    /\ NoMatch \notin MatchId
    /\ Unset \notin Int
    /\ ThresholdOf \in [Screening -> Int \cup {Unset}]
    /\ Answers \subseteq Seq(MatchId)
ASSUME BoundsAssumption == /\ Fallible \subseteq PortStep
                           /\ MaxFaults \in Nat

VARIABLES
    step,       \* each invocation: the port call it is in
    candidates, \* its variable candidates
    position,   \* how far it has come in candidates
    matchIds,   \* its variable matchIds
    outcome,    \* its promise: what it resolved to, or its error
    identities, \* the subjects the repository holds an identity for
    stored,     \* the matches it holds
    audit,      \* the audit log
    published,  \* what the event bus was given
    screened,   \* the calls of the provider, with what it answered
    faults      \* how many port calls rejected

locals == <<candidates, position, matchIds>>
logVars == <<audit, published>>
storeVars == <<identities, stored>>
vars == <<step, locals, outcome, storeVars, logVars, screened, faults>>

Pending == [status |-> "pending", total |-> 0, ids |-> <<>>]
Resolved(total, ids) == [status |-> "resolved", total |-> total, ids |-> ids]
Rejected(name) == [status |-> name, total |-> 0, ids |-> <<>>]
Outcome == [status : {"pending", "resolved", "NotFound", "PortError"},
            total : Nat, ids : Seq(MatchId)]

\* An audit entry or a domain event, with the invocation that wrote it.
entry(type, m, c) == [eventType |-> type, match |-> m, cause |-> c]
Event == [eventType : {"SanctionsMatchFound", "ListRefreshed"},
          match : MatchId \cup {NoMatch}, cause : Call]

DEFAULT_THRESHOLD == 80
threshold(c) == IF ThresholdOf[c] = Unset THEN DEFAULT_THRESHOLD ELSE ThresholdOf[c]

\* Mutant of keep: the threshold itself is not kept.
keepAbove(c, found) == {i \in DOMAIN found : Confidence[found[i]] > threshold(c)}

\* The positions of the candidates that are kept.
keep(c, found) == {i \in DOMAIN found : Confidence[found[i]] >= threshold(c)}

\* Those of them after position i.
left(c, found, i) == {j \in keep(c, found) : i < j}

At(c, s) == step[c] = s
Goto(c, s) == step' = [step EXCEPT ![c] = s]

\* The handler is over: its local variables are gone.
Leave(c, result) == /\ step' = [step EXCEPT ![c] = "idle"]
                    /\ candidates' = [candidates EXCEPT ![c] = <<>>]
                    /\ position' = [position EXCEPT ![c] = 0]
                    /\ matchIds' = [matchIds EXCEPT ![c] = <<>>]
                    /\ outcome' = [outcome EXCEPT ![c] = result]

Init == /\ step = [c \in Call |-> "idle"]
        /\ candidates = [c \in Call |-> <<>>]
        /\ position = [c \in Call |-> 0]
        /\ matchIds = [c \in Call |-> <<>>]
        /\ outcome = [c \in Call |-> Pending]
        /\ identities = {}
        /\ stored = {}
        /\ audit = <<>>
        /\ published = <<>>
        /\ screened = <<>>
        /\ faults = 0

----------------------------- (* ScreenSanctions *) -------------------------

Execute(c) ==
    /\ At(c, "idle") /\ outcome[c] = Pending
    /\ Goto(c, IF c \in Individual THEN "getIdentity" ELSE "screen")
    /\ UNCHANGED <<locals, outcome, storeVars, logVars, screened, faults>>

GetIdentity(c) ==
    /\ At(c, "getIdentity")
    /\ Goto(c, IF SubjectOf[c] \in identities THEN "screen" ELSE "rejectUnknown")
    /\ UNCHANGED <<locals, outcome, storeVars, logVars, screened, faults>>

RejectUnknown(c) ==
    /\ At(c, "rejectUnknown")
    /\ Leave(c, Rejected("NotFound"))
    /\ UNCHANGED <<storeVars, logVars, screened, faults>>

\* The loop head, once the candidates up to position i have been dealt with.
loop(c, found, i) == IF left(c, found, i) = {} THEN "returnMatches" ELSE "saveMatch"

Screen(c) ==
    /\ At(c, "screen")
    /\ \E found \in Answers :
        /\ candidates' = [candidates EXCEPT ![c] = found]
        /\ screened' = Append(screened, [cause |-> c, found |-> found])
        /\ Goto(c, loop(c, found, 0))
    /\ UNCHANGED <<position, matchIds, outcome, storeVars, logVars, faults>>

SaveMatch(c) ==
    /\ At(c, "saveMatch")
    /\ \E i \in left(c, candidates[c], position[c]) :
        /\ \A j \in left(c, candidates[c], position[c]) : i <= j
        /\ stored' = stored \cup {candidates[c][i]}
        /\ position' = [position EXCEPT ![c] = i]
        /\ matchIds' = [matchIds EXCEPT ![c] = Append(@, candidates[c][i])]
    /\ Goto(c, "auditMatch")
    /\ UNCHANGED <<candidates, outcome, identities, logVars, screened, faults>>

\* The match the loop is at.
current(c) == candidates[c][position[c]]

\* Mutant of AuditMatch: a match that is in the log already is not logged again.
AuditMatchOnce(c) ==
    /\ At(c, "auditMatch")
    /\ audit' = IF \E i \in DOMAIN audit : audit[i].match = current(c) THEN audit
                ELSE Append(audit, entry("SanctionsMatchFound", current(c), c))
    /\ Goto(c, "publishMatch")
    /\ UNCHANGED <<locals, outcome, storeVars, published, screened, faults>>

\* Mutant of AuditMatch: a lower threshold of the caller's is not audited.
AuditMatchAtDefault(c) ==
    /\ At(c, "auditMatch")
    /\ audit' = IF Confidence[current(c)] < DEFAULT_THRESHOLD THEN audit
                ELSE Append(audit, entry("SanctionsMatchFound", current(c), c))
    /\ Goto(c, "publishMatch")
    /\ UNCHANGED <<locals, outcome, storeVars, published, screened, faults>>

AuditMatch(c) ==
    /\ At(c, "auditMatch")
    /\ audit' = Append(audit, entry("SanctionsMatchFound", current(c), c))
    /\ Goto(c, "publishMatch")
    /\ UNCHANGED <<locals, outcome, storeVars, published, screened, faults>>

\* Mutant of PublishMatch: only the first match kept is published.
PublishFirstMatch(c) ==
    /\ At(c, "publishMatch")
    /\ published' = IF Len(matchIds[c]) > 1 THEN published
                    ELSE Append(published, entry("SanctionsMatchFound", current(c), c))
    /\ Goto(c, loop(c, candidates[c], position[c]))
    /\ UNCHANGED <<locals, outcome, storeVars, audit, screened, faults>>

PublishMatch(c) ==
    /\ At(c, "publishMatch")
    /\ published' = Append(published, entry("SanctionsMatchFound", current(c), c))
    /\ Goto(c, loop(c, candidates[c], position[c]))
    /\ UNCHANGED <<locals, outcome, storeVars, audit, screened, faults>>

ReturnMatches(c) ==
    /\ At(c, "returnMatches")
    /\ Leave(c, Resolved(Len(candidates[c]), matchIds[c]))
    /\ UNCHANGED <<storeVars, logVars, screened, faults>>

-------------------------- (* RefreshSanctionsLists *) ----------------------

ExecuteRefresh(c) ==
    /\ At(c, "idle") /\ outcome[c] = Pending
    /\ Goto(c, "refreshLists")
    /\ UNCHANGED <<locals, outcome, storeVars, logVars, screened, faults>>

RefreshLists(c) ==
    /\ At(c, "refreshLists")
    /\ Goto(c, "auditRefresh")
    /\ UNCHANGED <<locals, outcome, storeVars, logVars, screened, faults>>

AuditRefresh(c) ==
    /\ At(c, "auditRefresh")
    /\ audit' = Append(audit, entry("ListRefreshed", NoMatch, c))
    /\ Goto(c, "publishRefresh")
    /\ UNCHANGED <<locals, outcome, storeVars, published, screened, faults>>

PublishRefresh(c) ==
    /\ At(c, "publishRefresh")
    /\ published' = Append(published, entry("ListRefreshed", NoMatch, c))
    /\ Goto(c, "returnReport")
    /\ UNCHANGED <<locals, outcome, storeVars, audit, screened, faults>>

ReturnReport(c) ==
    /\ At(c, "returnReport")
    /\ Leave(c, Resolved(0, <<>>))
    /\ UNCHANGED <<storeVars, logVars, screened, faults>>

------------------------- (* failures, other commands *) --------------------

\* Mutant of PortRejects: the caller gets the error and the handler goes on.
PortRejectsUnawaited(c) ==
    /\ step[c] \in Fallible
    /\ faults < MaxFaults
    /\ faults' = faults + 1
    /\ outcome' = [outcome EXCEPT ![c] = Rejected("PortError")]
    /\ UNCHANGED <<step, locals, storeVars, logVars, screened>>

\* No port call is caught: execute rejects, and nothing is undone.
PortRejects(c) ==
    /\ step[c] \in Fallible
    /\ faults < MaxFaults
    /\ faults' = faults + 1
    /\ Leave(c, Rejected("PortError"))
    /\ UNCHANGED <<storeVars, logVars, screened>>

\* StartVerification stores an identity.
SaveIdentity(s) ==
    /\ s \notin identities
    /\ identities' = identities \cup {s}
    /\ UNCHANGED <<step, locals, outcome, stored, logVars, screened, faults>>

Done == /\ \A c \in Call : outcome[c] # Pending
        /\ UNCHANGED vars

-----------------------------------------------------------------------------

ScreeningStep(c) ==
    \/ GetIdentity(c) \/ RejectUnknown(c) \/ Screen(c) \/ SaveMatch(c)
    \/ AuditMatch(c) \/ PublishMatch(c) \/ ReturnMatches(c)
RefreshStep(c) ==
    \/ RefreshLists(c) \/ AuditRefresh(c) \/ PublishRefresh(c) \/ ReturnReport(c)

Next == \/ \E c \in Screening : Execute(c) \/ ScreeningStep(c)
        \/ \E c \in Refresh : ExecuteRefresh(c) \/ RefreshStep(c)
        \/ \E c \in Call : PortRejects(c)
        \/ \E s \in Subject : SaveIdentity(s)
        \/ Done

Spec == Init /\ [][Next]_vars

------------------------------ (* properties *) -----------------------------

\* Types of the state.  An invocation that has settled, or not begun, is idle
\* and has no local variables.
TypeOK ==
    /\ step \in [Call -> Step]
    /\ candidates \in [Call -> Seq(MatchId)]
    /\ position \in [Call -> Nat]
    /\ matchIds \in [Call -> Seq(MatchId)]
    /\ outcome \in [Call -> Outcome]
    /\ \A c \in Call : outcome[c] = Pending \/ step[c] = "idle"
    /\ \A c \in Call : step[c] = "idle" =>
        candidates[c] = <<>> /\ position[c] = 0 /\ matchIds[c] = <<>>
    /\ identities \subseteq Subject
    /\ stored \subseteq MatchId
    /\ audit \in Seq(Event)
    /\ published \in Seq(Event)
    /\ screened \in Seq([cause : Screening, found : Answers])
    /\ faults \in 0..MaxFaults

\* What invocation c wrote to a log.
written(log, c) == Selected(log, {i \in DOMAIN log : log[i].cause = c})

\* A screening or refresh publishes nothing before it is in the audit log, in
\* the order it is there, and has at most one audited event that is not yet
\* published, whatever the others append in between.
InLockstep ==
    \A c \in Call : LET a == written(audit, c)
                        p == written(published, c)
                    IN  /\ IsPrefix(p, a)
                        /\ Len(a) - Len(p) <= 1

\* The audit log has every stored match, but for those a screening is about to
\* audit, and one for each port call that rejected: concurrent screenings that
\* find the same matches do not cost each other an entry.
Unaudited == {m \in stored : \A i \in DOMAIN audit : audit[i].match # m}
UnauditedExplained ==
    Cardinality(Unaudited) <= faults + Cardinality({c \in Screening : At(c, "auditMatch")})

\* A screening that resolves answers with all candidates the provider gave it
\* that reach the threshold, the threshold included, and with how many
\* candidates there were.
AnswerComplete ==
    \A c \in Screening : outcome[c].status = "resolved" =>
        \E k \in DOMAIN screened :
            LET found == screened[k].found
            IN  /\ screened[k].cause = c
                /\ outcome[c].total = Len(found)
                /\ ToSet(outcome[c].ids) =
                    {m \in ToSet(found) : Confidence[m] >= threshold(c)}

\* Every match in the answer of a screening is stored, and this screening has
\* audited and published it.
AnswerBacked ==
    \A c \in Screening : outcome[c].status = "resolved" =>
        \A m \in ToSet(outcome[c].ids) :
            /\ m \in stored
            /\ entry("SanctionsMatchFound", m, c) \in ToSet(audit)
            /\ entry("SanctionsMatchFound", m, c) \in ToSet(published)

=============================================================================
