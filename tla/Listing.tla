------------------------------- MODULE Listing ------------------------------
(***************************************************************************)
(* What the queries list: times as texts (domain/value-objects/            *)
(* iso-datetime.ts), the filter by period that the audit log's export and  *)
(* the repository's listings share, and pages.                             *)
(***************************************************************************)
EXTENDS Integers, Sequences, SequencesExt, Selection

CONSTANTS Unset,         \* a field that a filter leaves out
          Subject,       \* identities
          SessionStatus

\* A time: the clock it shows, the digits of its fraction and its zone, where "+"
\* and "-" are one unit of the clock before and after UTC.
DateText == [clock : Nat, frac : Seq(0..9), zone : {"Z", "+", "-"}]
Period == DateText \cup {Unset}

Session == [identityId : Subject, status : SessionStatus, startedAt : DateText]
Filter == [subjectId : Subject, status : SessionStatus \cup {Unset},
           from : Period, to : Period, limit : Int]

ASSUME ListingAssumption == Unset \notin DateText

\* Its characters, by their codes' order: + - . digits Z.
point(t) == IF t.frac = <<>> THEN <<>> ELSE <<3>> \o [i \in DOMAIN t.frac |-> 4 + t.frac[i]]
offset(t) == CASE t.zone = "+" -> <<1, 5>> [] t.zone = "-" -> <<2, 5>> [] OTHER -> <<20>>
text(t) == <<4 + t.clock>> \o point(t) \o offset(t)

\* `<` on strings.
before(a, b) == \E i \in DOMAIN b : /\ \A j \in 1..(i - 1) : j \in DOMAIN a /\ a[j] = b[j]
                                    /\ i \notin DOMAIN a \/ a[i] < b[i]

precedes(t, u) == before(text(t), text(u))

\* toDate, in milliseconds: more digits than three are cut off.
instant(t) ==
    LET digitAt(i) == IF i \in DOMAIN t.frac THEN t.frac[i] ELSE 0
        ahead == CASE t.zone = "+" -> 1 [] t.zone = "-" -> -1 [] OTHER -> 0
    IN  1000 * (t.clock - ahead) + 100 * digitAt(1) + 10 * digitAt(2) + digitAt(3)

within(t, from, to) == /\ from # Unset => ~precedes(t, from)
                       /\ to # Unset => ~precedes(to, t)

\* slice(0, limit); a limit of 0 is taken for none, and one below zero counts from
\* the end.
page(found, limit) ==
    LET size == IF limit = 0 \/ limit > Len(found) THEN Len(found)
                ELSE IF limit > 0 THEN limit
                ELSE IF Len(found) + limit > 0 THEN Len(found) + limit ELSE 0
    IN  SubSeq(found, 1, size)

listSessionsBySubject(sessions, filter) ==
    page(Selected(sessions, {i \in DOMAIN sessions :
            /\ sessions[i].identityId = filter.subjectId
            /\ filter.status \in {Unset, sessions[i].status}
            /\ within(sessions[i].startedAt, filter.from, filter.to)}),
         filter.limit)

\* ListVerifications: total is the length of the page.
ListVerifications(sessions, filter) ==
    LET found == listSessionsBySubject(sessions, filter)
    IN  [sessions |-> found, total |-> Len(found)]

------------------------------ (* properties *) -----------------------------

StrictPrefix(s, t) == IsPrefix(s, t) /\ s # t

\* Times are compared as texts (fake-audit-log.ts:72,
\* fake-verification-repository.ts:43).  With at most three digits, which is all
\* a Date keeps, that is the order in time when both have one zone and as many
\* digits, and for UTC except that of two times of which one has the other's
\* digits and more, the one with more comes first.  With more digits, a time of
\* one form that is earlier still comes first.
TimesInOrder(t, u) ==
    /\ t.zone = u.zone /\ Len(t.frac) = Len(u.frac) =>
        /\ instant(t) < instant(u) => precedes(t, u)
        /\ precedes(t, u) => IF Len(t.frac) <= 3 THEN instant(t) < instant(u)
                             ELSE instant(t) <= instant(u)
    /\ t.zone = "Z" /\ u.zone = "Z" /\ Len(t.frac) <= 3 /\ Len(u.frac) <= 3 =>
        (precedes(t, u) <=>
            IF t.clock = u.clock /\ (StrictPrefix(t.frac, u.frac) \/ StrictPrefix(u.frac, t.frac))
            THEN Len(t.frac) > Len(u.frac)
            ELSE instant(t) < instant(u))

\* A listing split at a time in its period (fake-verification-repository.ts:39):
\* the parts list what the whole does, whatever the form of the times, and both
\* of them what bears the very time they meet at.  With a limit above zero the
\* answer is the beginning of the listing; its total tells no more than that
\* (verification-queries.ts:61).
ListingExact(sessions, filter, at) ==
    LET unlimited == [filter EXCEPT !.limit = 0]
        listed(f) == ToSet(listSessionsBySubject(sessions, f))
        earlier == listed([unlimited EXCEPT !.to = at])
        later == listed([unlimited EXCEPT !.from = at])
        answer == ListVerifications(sessions, filter)
        whole == listSessionsBySubject(sessions, unlimited)
    IN  /\ within(at, filter.from, filter.to) =>
            /\ earlier \cup later = ToSet(whole)
            /\ earlier \cap later = {s \in ToSet(whole) : s.startedAt = at}
        /\ filter.limit > 0 =>
            /\ IsPrefix(answer.sessions, whole)
            /\ answer.total < Len(whole) => answer.total = filter.limit

=============================================================================
