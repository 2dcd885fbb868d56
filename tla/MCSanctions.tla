----------------------------- MODULE MCSanctions -----------------------------
(* Two screenings of one subject, one of them as an individual with the      *)
(* default threshold, one as a business with a lower threshold, and a        *)
(* refresh.  The matches lie below, at and above the default threshold.      *)
EXTENDS Sanctions

CONSTANTS c1, c2, r1, subject, below, at, above

MCSubjectOf == [c \in Screening |-> subject]
MCThresholdOf == [c \in Screening |-> IF c = c2 THEN 50 ELSE Unset]
MCConfidence == [m \in MatchId |-> CASE m = below -> 79
                                     [] m = at    -> 80
                                     [] m = above -> 100]
MCAnswers == {<<below>>, <<below, at>>, <<at, above>>}
MCFallible == PortStep

=============================================================================
