SPECIFICATION Spec
CONSTANTS
    c1 = c1
    c2 = c2
    r1 = r1
    subject = subject
    below = below
    at = at
    above = above
    Unset = Unset
    NoMatch = NoMatch
    Screening = {c1, c2}
    Refresh = {r1}
    Subject = {subject}
    SubjectOf <- MCSubjectOf
    Individual = {c1}
    ThresholdOf <- MCThresholdOf
    MatchId = {below, at, above}
    Confidence <- MCConfidence
    Answers <- MCAnswers
    Fallible <- MCFallible
    MaxFaults = 1
INVARIANTS
    TypeOK
    InLockstep
    UnauditedExplained
    AnswerComplete
    AnswerBacked
