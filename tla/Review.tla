-------------------------------- MODULE Review ------------------------------
(***************************************************************************)
(* Sanctions matches under review: domain/entities/sanctions-match.ts, the *)
(* in-memory screening provider that resolves them, the copies a screening *)
(* leaves in the repository, and the query that lists those.  Reviewers    *)
(* race each other and the feed, which may report a match again.           *)
(***************************************************************************)
EXTENDS FiniteSets, Listing

CONSTANTS MatchId,
          Reviewer,  \* calls of resolveMatch: one reviewer, one match, once
          MatchOf,   \* the match each of them resolves
          Kind,      \* what it resolves it to
          MaxFeeds,  \* BOUND on the reports of the feed
          Absent, Nobody

Resolution == {"CONFIRMED_MATCH", "FALSE_POSITIVE"}
Status == {"PENDING"} \cup Resolution

ASSUME ReviewAssumption == /\ MatchOf \in [Reviewer -> MatchId]
                           /\ Kind \in [Reviewer -> Resolution]
                           /\ IsFiniteSet(MatchId)
                           /\ MaxFeeds \in Nat
                           /\ Absent \notin Status

VARIABLES matches,  \* the provider's copy of each match, or Absent
          next,     \* nextMatches: the status of each match queued, or Absent
          stored,   \* the repository's copies, in the order they were first saved
          reply,    \* what each resolveMatch came to
          feeds,    \* GHOST: how often each match was reported
          reported  \* GHOST: the status of each match at its last screening

reviewVars == <<matches, next, stored, reply, feeds, reported>>

\* create: the status is the feed's, "PENDING" by default.
create(status) == [reviewStatus |-> status, reviewedBy |-> Nobody]

\* Mutant of reviewable: only a confirmed match is final.
reviewableAgain(m) == m.reviewStatus # "CONFIRMED_MATCH"

\* confirm and markFalsePositive throw AlreadyReviewed otherwise.
reviewable(m) == m.reviewStatus = "PENDING"

ReviewInit ==
    /\ matches = [m \in MatchId |-> Absent]
    /\ next = [m \in MatchId |-> Absent]
    /\ stored = <<>>
    /\ reply = [r \in Reviewer |-> "pending"]
    /\ feeds = [m \in MatchId |-> 0]
    /\ reported = [m \in MatchId |-> Absent]

\* The feed reports the matches ms: they replace what the provider holds of them.
queueMatches(ms, status) ==
    /\ \A m \in ms : feeds[m] < MaxFeeds
    /\ next' = [m \in MatchId |-> IF m \in ms THEN status ELSE Absent]
    /\ matches' = [m \in MatchId |-> IF m \in ms THEN create(status) ELSE matches[m]]
    /\ feeds' = [m \in MatchId |-> IF m \in ms THEN feeds[m] + 1 ELSE feeds[m]]
    /\ UNCHANGED <<stored, reply, reported>>

\* A screening takes nextMatches, all of which reach its threshold, and saveMatch
\* puts each over the copy with its id.  The objects queued do not change: they
\* are as reported.  What other commands do between two saves is in Sanctions.
screen ==
    LET found == {m \in MatchId : next[m] # Absent}
        copy(m) == [id |-> m, reviewStatus |-> next[m]]
        held == {stored[i].id : i \in DOMAIN stored}
    IN  /\ found # {}
        /\ stored' = [i \in DOMAIN stored |-> IF stored[i].id \in found
                                              THEN copy(stored[i].id) ELSE stored[i]]
                     \o LET fresh == SetToSeq(found \ held)
                        IN  [i \in DOMAIN fresh |-> copy(fresh[i])]
        /\ next' = [m \in MatchId |-> Absent]
        /\ reported' = [m \in MatchId |-> IF m \in found THEN next[m] ELSE reported[m]]
        /\ UNCHANGED <<matches, reply, feeds>>

resolveMatch(r) ==
    LET m == MatchOf[r]
        answers(what) == reply' = [reply EXCEPT ![r] = what]
    IN  /\ reply[r] = "pending"
        /\ \/ /\ matches[m] = Absent
              /\ answers("unknown match") /\ UNCHANGED matches
           \/ /\ matches[m] # Absent /\ ~reviewable(matches[m])
              /\ answers("AlreadyReviewed") /\ UNCHANGED matches
           \/ /\ matches[m] # Absent /\ reviewable(matches[m])
              /\ answers("resolved")
              /\ matches' = [matches EXCEPT ![m] = [reviewStatus |-> Kind[r],
                                                    reviewedBy |-> r]]
        /\ UNCHANGED <<next, stored, feeds, reported>>

\* GetSanctionsMatches, for a subject all matches are of.
listMatchesBySubject(status, limit) ==
    page(Selected(stored, {i \in DOMAIN stored : stored[i].reviewStatus = status}), limit)

ReviewNext ==
    \/ \E ms \in SUBSET MatchId \ {{}}, status \in Status : queueMatches(ms, status)
    \/ screen
    \/ \E r \in Reviewer : resolveMatch(r)

------------------------------ (* properties *) -----------------------------

\* However reviewers and the feed race, every report of a match is resolved at
\* most once, and the reviewer the provider names is one who was told so, with
\* the resolution that reviewer chose (sanctions-match.ts:58).
ReviewersHeard ==
    \A m \in MatchId :
        /\ Cardinality({r \in Reviewer : MatchOf[r] = m /\ reply[r] = "resolved"}) <= feeds[m]
        /\ matches[m] # Absent /\ matches[m].reviewedBy # Nobody =>
            LET r == matches[m].reviewedBy
            IN  /\ reply[r] = "resolved" /\ MatchOf[r] = m
                /\ matches[m].reviewStatus = Kind[r]

\* The repository lists a match once, under the status its last screening
\* reported, whatever was decided on it before or since
\* (screen-sanctions.ts:87, sanctions-queries.ts:26); a page is the beginning of
\* the whole list.
ListedAsReported ==
    \A m \in MatchId, status \in Status :
        LET all == listMatchesBySubject(status, 0)
            places == {i \in DOMAIN all : all[i].id = m}
        IN  /\ Cardinality(places) = IF reported[m] = status THEN 1 ELSE 0
            /\ \A n \in 1..2 : IsPrefix(listMatchesBySubject(status, n), all)

=============================================================================
