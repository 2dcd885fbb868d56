--------------------------- MODULE MCVerification ---------------------------
(* Instances of Verification.  Start requests s1, s4 and s5 are one client's *)
(* request over several connections: same idempotency key, same session; s4  *)
(* lacks the consent and s5 both identity ids.  s3 is a second client's,     *)
(* with a new identity.  Webhook calls w1 and w2 carry the same delivery id, *)
(* w3 another one.                                                           *)
EXTENDS Verification

CONSTANTS s1, s3, s4, s5, w1, w2, w3, keyA, keyB, d1, d2,
          v1, v2, idA, idB

MCKeyOf == [c \in Call |-> CASE c \in {s1, s4, s5} -> keyA
                             [] c = s3             -> keyB
                             [] c \in {w1, w2}     -> d1
                             [] c = w3             -> d2]
MCSessionOf == [c \in StartCall |-> IF c = s3 THEN v2 ELSE v1]
MCIdentityId == [c \in StartCall |-> IF c \in {s3, s5} THEN NoId ELSE idA]
MCNewIdentityId == [c \in StartCall |-> IF c = s3 THEN idB ELSE NoId]
MCConsent == [c \in StartCall |-> c # s4]
\* The windows: a webhook may be redelivered after its window, within the bound
\* on the clock; no start request is repeated after its own.
MCTtl == [c \in Call |-> IF c \in CompleteCall THEN 1 ELSE 2]

\* Any port call may reject, except the two after a session is stored as
\* PENDING: a repetition of the request then stores it as INITIATED again.
BeforePending == PortStep \ {"auditStarted", "publishStarted"}

\* The calls whose rejection a repetition recovers from completely.
Recoverable == {"getIdentity", "saveIdentity", "saveInitiated", "startInquiry",
                "auditProviderError", "findSession", "saveCompleted"}

=============================================================================
