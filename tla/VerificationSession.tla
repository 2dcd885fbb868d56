------------------------ MODULE VerificationSession -------------------------
(***************************************************************************)
(* The session entity and its state machine                                *)
(* (domain/entities/verification-session.ts, domain/services/              *)
(* state-machine.ts).  Entities are immutable: every operation returns a   *)
(* new record.  The fields no property tells apart (provider,              *)
(* jurisdiction, time stamps, evidence) are left out.                      *)
(***************************************************************************)
EXTENDS Naturals

Status == {"INITIATED", "PENDING", "VERIFIED", "FAILED", "EXPIRED"}

Decision == {"PASS", "FAIL", "PENDING"}

TRANSITIONS == [INITIATED |-> {"PENDING", "EXPIRED"},
                PENDING   |-> {"VERIFIED", "FAILED", "EXPIRED"},
                VERIFIED  |-> {},
                FAILED    |-> {},
                EXPIRED   |-> {}]

canTransition(from, to) == to \in TRANSITIONS[from]

isTerminal(status) == TRANSITIONS[status] = {}

\* providerRef: undefined.  The provider's references are positive numbers.
NoRef == 0

create(identity) == [identityId |-> identity, status |-> "INITIATED",
                     decision |-> "PENDING", providerRef |-> NoRef]

markPending(session, ref) ==
    [session EXCEPT !.status = "PENDING", !.providerRef = ref]

statusAfter(decision) == IF decision = "PASS" THEN "VERIFIED" ELSE "FAILED"

markCompleted(session, decision, ref) ==
    [session EXCEPT !.status = statusAfter(decision),
                    !.decision = decision, !.providerRef = ref]

=============================================================================
