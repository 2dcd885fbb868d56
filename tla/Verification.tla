---------------------------- MODULE Verification ----------------------------
(***************************************************************************)
(* StartVerification and CompleteVerification                              *)
(* (app/commands/start-verification.ts, complete-verification.ts) running  *)
(* concurrently over one repository, audit log, event bus and idempotency  *)
(* store.                                                                  *)
(*                                                                         *)
(* Node runs one callback at a time, so commands interleave exactly at     *)
(* their awaits.  Every await is a port call: an action below is the port  *)
(* call a handler is suspended in, with the synchronous code up to the     *)
(* next one.  step[c] names the port call invocation c is in.              *)
(*                                                                         *)
(* The verification provider is external: it numbers the inquiries it      *)
(* opens and sends a delivery (a webhook) for an inquiry once it decided.  *)
(***************************************************************************)
EXTENDS VerificationSession, Sequences

CONSTANTS
    StartCall,     \* invocations of StartVerification.execute
    CompleteCall,  \* invocations of CompleteVerification.execute
    StartKey,      \* tenant and idempotencyKey of a start request
    Delivery,      \* tenant and webhookDeliveryId of a webhook
    KeyOf, Ttl,    \* the idempotency key and window of each invocation
    Session, Identity,
    SessionOf,     \* newSessionId of each start request
    IdentityId,    \* its identityId, or NoId
    NewIdentityId, \* its newIdentityId, or NoId
    Consent,       \* its consentGranted
    Fallible,      \* the port calls that may reject
    MaxFaults,     \* BOUND on how many do
    MaxClock,      \* BOUND on the clock of the idempotency store
    OneDelivery,   \* TRUE: the provider uses one delivery id for an inquiry
    NoId, NoCall, NoValue

Call == StartCall \cup CompleteCall
Key == StartKey \cup Delivery
Verdict == {"PASS", "FAIL", "MANUAL_REVIEW"}

StartStep == {"getIdentity", "saveIdentity", "saveInitiated", "startInquiry",
              "auditProviderError", "savePending", "auditStarted",
              "publishStarted"}
CompleteStep == {"findSession", "saveCompleted", "auditVerdict",
                 "publishVerdict"}
PortStep == StartStep \cup CompleteStep
Step == PortStep \cup {"idle", "rejectConsent", "rejectIdentity",
                       "returnStarted", "returnApplied", "returnCompleted"}

ASSUME RequestsAssumption ==
    /\ StartCall \cap CompleteCall = {}
    /\ NoCall \notin Call
    /\ KeyOf \in [Call -> Key]
    /\ \A c \in StartCall : KeyOf[c] \in StartKey
    /\ \A c \in CompleteCall : KeyOf[c] \in Delivery
    /\ Ttl \in [Call -> Nat \ {0}]
    /\ SessionOf \in [StartCall -> Session]
    /\ NoId \notin Session \cup Identity
    /\ IdentityId \in [StartCall -> Identity \cup {NoId}]
    /\ NewIdentityId \in [StartCall -> Identity \cup {NoId}]
    /\ Consent \in [StartCall -> BOOLEAN]
ASSUME BoundsAssumption == /\ Fallible \subseteq PortStep
                           /\ MaxFaults \in Nat
                           /\ MaxClock \in Nat
                           /\ OneDelivery \in BOOLEAN

VARIABLES
    now, cache, inflight, phase, outcome, \* the idempotency store
    step, held,  \* each handler: the port call it is in, its session variable
    identities,  \* the identities stored
    sessions,    \* the sessions stored
    audit,       \* the audit log
    published,   \* what the event bus was given
    inquiries,   \* the provider's inquiries, in the order it opened them
    webhooks,    \* what each delivery says: the inquiry decided, the verdict
    faults       \* how many port calls rejected

idemVars == <<now, cache, inflight, phase, outcome>>
handlerVars == <<step, held>>
storeVars == <<identities, sessions>>
logVars == <<audit, published>>
providerVars == <<inquiries, webhooks>>
vars == <<idemVars, handlerVars, storeVars, logVars, providerVars, faults>>

\* A session the repository does not hold.
Absent == [identityId |-> NoId, status |-> "ABSENT",
           decision |-> "PENDING", providerRef |-> NoRef]
SessionRecord == [identityId : Identity \cup {NoId}, status : Status \cup {"ABSENT"},
                  decision : Decision, providerRef : Nat]
Held == [id : Session \cup {NoId}, session : SessionRecord]
Nothing == [id |-> NoId, session |-> Absent]

\* What execute() resolves to, and the errors it rejects with.
answer(id, ref, status, applied) ==
    [sessionId |-> id, ref |-> ref, status |-> status, alreadyApplied |-> applied]
error(name) == answer(NoId, NoRef, name, FALSE)

Errors == {"ConsentRequired", "ProviderError", "UnknownProviderSession",
           "InvalidVerificationStateTransition", "MissingIdentityId", "PortError"}
Result == [sessionId : Session, ref : Nat, alreadyApplied : BOOLEAN,
           status : {"PENDING", "VERIFIED", "FAILED"}]
Failure == {error(e) : e \in Errors}

Idem == INSTANCE Idempotency WITH BadTtl <- error("BadTtl")

\* An audit entry or a domain event, with the invocation that wrote it.
entry(type, id, payload, c) ==
    [eventType |-> type, session |-> id, payload |-> payload, cause |-> c]
Event == [eventType : {"VerificationStarted", "VerificationCompleted",
                       "VerificationFailed"},
          session : Session, cause : Call,
          payload : {"started", "provider_error"} \cup Verdict]

\* The input of CompleteVerification, and a delivery the provider has not sent.
Webhook == [inquiry : Nat, verdict : Verdict \cup {"none"}]
NotSent == [inquiry |-> NoRef, verdict |-> "none"]
refOf(c) == webhooks[KeyOf[c]].inquiry
verdictOf(c) == webhooks[KeyOf[c]].verdict

-----------------------------------------------------------------------------

At(c, s) == phase[c] = "running" /\ step[c] = s
Goto(c, s) == step' = [step EXCEPT ![c] = s]
Hold(c, id, session) ==
    held' = [held EXCEPT ![c] = [id |-> id, session |-> session]]

\* The handler is over: its local variables are gone.
Leave(c) == /\ step' = [step EXCEPT ![c] = "idle"]
            /\ held' = [held EXCEPT ![c] = Nothing]
Return(c, v) == Idem!Fulfil(c, v) /\ Leave(c)
\* Mutant of Throw: the error is returned, so that the store caches it.
ThrowReturned(c, name) == Idem!Fulfil(c, error(name)) /\ Leave(c)
Throw(c, name) == Idem!Reject(c, error(name)) /\ Leave(c)

Save(id, session) == sessions' = [sessions EXCEPT ![id] = session]

\* A webhook handler runs only for a delivery the provider sent.
Requested(c) == c \in CompleteCall => webhooks[KeyOf[c]] # NotSent

Init == /\ Idem!Init
        /\ step = [c \in Call |-> "idle"]
        /\ held = [c \in Call |-> Nothing]
        /\ identities = {}
        /\ sessions = [s \in Session |-> Absent]
        /\ audit = <<>>
        /\ published = <<>>
        /\ inquiries = <<>>
        /\ webhooks = [d \in Delivery |-> NotSent]
        /\ faults = 0

---------------------------- (* idempotency.run *) --------------------------

\* Mutant of firstStep: consent is not required.
firstStepWithoutConsent(c) ==
    IF c \in CompleteCall THEN "findSession"
    ELSE IF IdentityId[c] # NoId THEN "getIdentity"
    ELSE IF NewIdentityId[c] # NoId THEN "saveIdentity"
    ELSE "rejectIdentity"

\* The port call runOnce makes first, after the checks that need none.
firstStep(c) ==
    IF c \in CompleteCall THEN "findSession"
    ELSE IF ~Consent[c] THEN "rejectConsent"
    ELSE IF IdentityId[c] # NoId THEN "getIdentity"
    ELSE IF NewIdentityId[c] # NoId THEN "saveIdentity"
    ELSE "rejectIdentity"

Execute(c) == /\ Requested(c)
              /\ Idem!Begin(c)
              /\ Goto(c, firstStep(c))
              /\ UNCHANGED <<held, storeVars, logVars, providerVars, faults>>

ReplayAnswer(c) == /\ Requested(c)
                   /\ Idem!ReturnCached(c)
                   /\ UNCHANGED <<handlerVars, storeVars, logVars, providerVars, faults>>

JoinExecution(c) == /\ Requested(c)
                    /\ Idem!Join(c)
                    /\ UNCHANGED <<handlerVars, storeVars, logVars, providerVars, faults>>

\* The client repeats its request, or the provider redelivers its webhook.
Repeat(c) == /\ Idem!Again(c)
             /\ UNCHANGED <<handlerVars, storeVars, logVars, providerVars, faults>>

Tick == /\ Idem!Tick
        /\ UNCHANGED <<handlerVars, storeVars, logVars, providerVars, faults>>

---------------------------- (* StartVerification *) ------------------------

RejectWithoutConsent(c) ==
    /\ At(c, "rejectConsent")
    /\ Throw(c, "ConsentRequired")
    /\ UNCHANGED <<storeVars, logVars, providerVars, faults>>

RejectWithoutIdentityId(c) ==
    /\ At(c, "rejectIdentity")
    /\ Throw(c, "MissingIdentityId")
    /\ UNCHANGED <<storeVars, logVars, providerVars, faults>>

GetIdentity(c) ==
    /\ At(c, "getIdentity")
    /\ Goto(c, IF IdentityId[c] \in identities THEN "saveInitiated" ELSE "saveIdentity")
    /\ UNCHANGED <<idemVars, held, storeVars, logVars, providerVars, faults>>

identityOf(c) == IF IdentityId[c] # NoId THEN IdentityId[c] ELSE NewIdentityId[c]

SaveIdentity(c) ==
    /\ At(c, "saveIdentity")
    /\ identities' = identities \cup {identityOf(c)}
    /\ Goto(c, "saveInitiated")
    /\ UNCHANGED <<idemVars, held, sessions, logVars, providerVars, faults>>

\* saveSession writes whatever session the caller constructed over the row.
SaveInitiated(c) ==
    /\ At(c, "saveInitiated")
    /\ Save(SessionOf[c], create(identityOf(c)))
    /\ Hold(c, SessionOf[c], create(identityOf(c)))
    /\ Goto(c, "startInquiry")
    /\ UNCHANGED <<idemVars, identities, logVars, providerVars, faults>>

StartInquiry(c) ==
    /\ At(c, "startInquiry")
    /\ inquiries' = Append(inquiries, [session |-> held[c].id, call |-> c])
    /\ Hold(c, held[c].id, markPending(held[c].session, Len(inquiries) + 1))
    /\ Goto(c, "savePending")
    /\ UNCHANGED <<idemVars, storeVars, logVars, webhooks, faults>>

\* Mutant of AuditProviderError: the session is marked FAILED as well.
AuditProviderErrorFailing(c) ==
    /\ At(c, "auditProviderError")
    /\ Save(held[c].id, markCompleted(held[c].session, "FAIL", NoRef))
    /\ audit' = Append(audit, entry("VerificationFailed", held[c].id, "provider_error", c))
    /\ Throw(c, "ProviderError")
    /\ UNCHANGED <<identities, published, providerVars, faults>>

AuditProviderError(c) ==
    /\ At(c, "auditProviderError")
    /\ audit' = Append(audit, entry("VerificationFailed", held[c].id, "provider_error", c))
    /\ Throw(c, "ProviderError")
    /\ UNCHANGED <<storeVars, published, providerVars, faults>>

\* Mutant of SavePending: saves the variable session instead of pending.
SavePendingStale(c) ==
    /\ At(c, "savePending")
    /\ Save(held[c].id, create(identityOf(c)))
    /\ Goto(c, "auditStarted")
    /\ UNCHANGED <<idemVars, held, identities, logVars, providerVars, faults>>

SavePending(c) ==
    /\ At(c, "savePending")
    /\ Save(held[c].id, held[c].session)
    /\ Goto(c, "auditStarted")
    /\ UNCHANGED <<idemVars, held, identities, logVars, providerVars, faults>>

AuditStarted(c) ==
    /\ At(c, "auditStarted")
    /\ audit' = Append(audit, entry("VerificationStarted", held[c].id, "started", c))
    /\ Goto(c, "publishStarted")
    /\ UNCHANGED <<idemVars, held, storeVars, published, providerVars, faults>>

PublishStarted(c) ==
    /\ At(c, "publishStarted")
    /\ published' = Append(published, entry("VerificationStarted", held[c].id, "started", c))
    /\ Goto(c, "returnStarted")
    /\ UNCHANGED <<idemVars, held, storeVars, audit, providerVars, faults>>

ReturnStarted(c) ==
    /\ At(c, "returnStarted")
    /\ Return(c, answer(held[c].id, held[c].session.providerRef, "PENDING", FALSE))
    /\ UNCHANGED <<storeVars, logVars, providerVars, faults>>

--------------------------- (* CompleteVerification *) ----------------------

\* Mutant of decision: only FAIL fails, a manual review passes.
decisionUnlessFail(c) == IF verdictOf(c) = "FAIL" THEN "FAIL" ELSE "PASS"

decision(c) == IF verdictOf(c) = "PASS" THEN "PASS" ELSE "FAIL"
verdictEvent(c) == IF decision(c) = "PASS" THEN "VerificationCompleted"
                                           ELSE "VerificationFailed"
verdictEntry(c) == entry(verdictEvent(c), held[c].id, verdictOf(c), c)

matching(ref) == {s \in Session : sessions[s].providerRef = ref}

\* getSessionByProviderRef and the early returns that follow it.
FindSession(c) ==
    /\ At(c, "findSession")
    /\ \E s \in matching(refOf(c)) :
        /\ Hold(c, s, sessions[s])
        /\ Goto(c, IF isTerminal(sessions[s].status) THEN "returnApplied"
                                                     ELSE "saveCompleted")
    /\ UNCHANGED <<idemVars, storeVars, logVars, providerVars, faults>>

\* Mutant of RejectUnknownSession: the webhook is acknowledged and dropped.
AcknowledgeUnknownSession(c) ==
    /\ At(c, "findSession")
    /\ matching(refOf(c)) = {}
    /\ Return(c, answer(NoId, NoRef, "FAILED", FALSE))
    /\ UNCHANGED <<storeVars, logVars, providerVars, faults>>

RejectUnknownSession(c) ==
    /\ At(c, "findSession")
    /\ matching(refOf(c)) = {}
    /\ Throw(c, "UnknownProviderSession")
    /\ UNCHANGED <<storeVars, logVars, providerVars, faults>>

ReturnApplied(c) ==
    /\ At(c, "returnApplied")
    /\ Return(c, answer(held[c].id, held[c].session.providerRef,
                        IF held[c].session.status = "VERIFIED" THEN "VERIFIED"
                                                               ELSE "FAILED", TRUE))
    /\ UNCHANGED <<storeVars, logVars, providerVars, faults>>

\* Mutant of SaveCompleted: saves the variable session instead of updated.
SaveCompletedStale(c) ==
    /\ At(c, "saveCompleted")
    /\ Save(held[c].id, held[c].session)
    /\ Goto(c, "auditVerdict")
    /\ UNCHANGED <<idemVars, held, identities, logVars, providerVars, faults>>

\* The new session is computed from the one read before the await.
SaveCompleted(c) ==
    LET updated == markCompleted(held[c].session, decision(c), refOf(c))
    IN  /\ At(c, "saveCompleted")
        /\ IF canTransition(held[c].session.status, updated.status)
           THEN /\ Save(held[c].id, updated)
                /\ Goto(c, "auditVerdict")
                /\ UNCHANGED <<idemVars, held>>
           ELSE /\ Throw(c, "InvalidVerificationStateTransition")
                /\ UNCHANGED sessions
        /\ UNCHANGED <<identities, logVars, providerVars, faults>>

\* Mutant of AuditVerdict: only what the provider itself decided is audited.
AuditVerdictUnlessReview(c) ==
    /\ At(c, "auditVerdict")
    /\ audit' = IF verdictOf(c) = "MANUAL_REVIEW" THEN audit
                ELSE Append(audit, verdictEntry(c))
    /\ Goto(c, "publishVerdict")
    /\ UNCHANGED <<idemVars, held, storeVars, published, providerVars, faults>>

AuditVerdict(c) ==
    /\ At(c, "auditVerdict")
    /\ audit' = Append(audit, verdictEntry(c))
    /\ Goto(c, "publishVerdict")
    /\ UNCHANGED <<idemVars, held, storeVars, published, providerVars, faults>>

PublishVerdict(c) ==
    /\ At(c, "publishVerdict")
    /\ published' = Append(published, verdictEntry(c))
    /\ Goto(c, "returnCompleted")
    /\ UNCHANGED <<idemVars, held, storeVars, audit, providerVars, faults>>

ReturnCompleted(c) ==
    /\ At(c, "returnCompleted")
    /\ Return(c, answer(held[c].id, held[c].session.providerRef,
                        statusAfter(decision(c)), FALSE))
    /\ UNCHANGED <<storeVars, logVars, providerVars, faults>>

------------------------------- (* failures *) ------------------------------

MayReject(c) == /\ phase[c] = "running"
                /\ step[c] \in Fallible
                /\ faults < MaxFaults
                /\ faults' = faults + 1

\* The catch around the provider call: what it throws is audited first.
ProviderRejects(c) ==
    /\ step[c] = "startInquiry"
    /\ MayReject(c)
    /\ Goto(c, "auditProviderError")
    /\ UNCHANGED <<idemVars, held, storeVars, logVars, providerVars>>

\* No other port call is caught: runOnce rejects.
PortRejects(c) ==
    /\ step[c] # "startInquiry"
    /\ MayReject(c)
    /\ Throw(c, "PortError")
    /\ UNCHANGED <<storeVars, logVars, providerVars>>

------------------------------- (* the provider *) --------------------------

SendWebhook(d, ref, verdict) ==
    /\ webhooks[d] = NotSent
    /\ OneDelivery => \A e \in Delivery : webhooks[e].inquiry # ref
    /\ webhooks' = [webhooks EXCEPT ![d] = [inquiry |-> ref, verdict |-> verdict]]
    /\ UNCHANGED <<idemVars, handlerVars, storeVars, logVars, inquiries, faults>>

-----------------------------------------------------------------------------

StartHandler(c) ==
    \/ RejectWithoutConsent(c) \/ RejectWithoutIdentityId(c)
    \/ GetIdentity(c) \/ SaveIdentity(c) \/ SaveInitiated(c)
    \/ StartInquiry(c) \/ AuditProviderError(c)
    \/ SavePending(c) \/ AuditStarted(c) \/ PublishStarted(c) \/ ReturnStarted(c)

CompleteHandler(c) ==
    \/ FindSession(c) \/ RejectUnknownSession(c) \/ ReturnApplied(c)
    \/ SaveCompleted(c) \/ AuditVerdict(c) \/ PublishVerdict(c) \/ ReturnCompleted(c)

Enter(c) == Execute(c) \/ ReplayAnswer(c) \/ JoinExecution(c)

Next == \/ \E c \in Call : \/ Enter(c) \/ Repeat(c)
                           \/ PortRejects(c)
        \/ \E c \in StartCall : StartHandler(c) \/ ProviderRejects(c)
        \/ \E c \in CompleteCall : CompleteHandler(c)
        \/ \E d \in Delivery, ref \in DOMAIN inquiries, verdict \in Verdict :
              SendWebhook(d, ref, verdict)
        \/ Tick

Spec == Init /\ [][Next]_vars

\* Port calls settle, so a handler that can take its next step takes it.
HandlerFairness == /\ \A c \in StartCall : WF_vars(StartHandler(c))
                   /\ \A c \in CompleteCall : WF_vars(CompleteHandler(c))

\* The provider redelivers a webhook until the handler accepts it (external:
\* what webhook providers do, and what the 14-day window is there for).
Rejected(c) == outcome[c].status = "rejected"
ProviderFairness == \A c \in CompleteCall : /\ WF_vars(Enter(c))
                                            /\ WF_vars(Rejected(c) /\ Repeat(c))

FairSpec == Spec /\ HandlerFairness /\ ProviderFairness

-----------------------------------------------------------------------------

InquiryRecord == [session : Session, call : StartCall]

TypeOK == /\ Idem!TypeOK
          /\ step \in [Call -> Step]
          /\ held \in [Call -> Held]
          /\ identities \subseteq Identity
          /\ sessions \in [Session -> SessionRecord]
          /\ audit \in Seq(Event)
          /\ published \in Seq(Event)
          /\ inquiries \in Seq(InquiryRecord)
          /\ webhooks \in [Delivery -> Webhook]
          /\ faults \in 0..MaxFaults

\* A stored verdict is the verdict the provider delivered, for the inquiry the
\* session holds, and that inquiry was opened for this very session: no
\* interleaving, retry or fault marks a session VERIFIED that no PASS was sent
\* for, and none applies the verdict of one session to another.
VerdictJustified ==
    \A s \in Session : sessions[s].status \in {"VERIFIED", "FAILED"} =>
        /\ sessions[s].providerRef \in DOMAIN inquiries
        /\ inquiries[sessions[s].providerRef].session = s
        /\ \E d \in Delivery :
            /\ webhooks[d].inquiry = sessions[s].providerRef
            /\ sessions[s].status = "VERIFIED" <=> webhooks[d].verdict = "PASS"

\* The provider is asked only with consent, and only about a subject and a
\* session that are already stored, so its webhook never names a session
\* nobody wrote down.
InquiriesGrounded ==
    \A i \in DOMAIN inquiries :
        /\ Consent[inquiries[i].call]
        /\ identityOf(inquiries[i].call) \in identities
        /\ sessions[inquiries[i].session].status # "ABSENT"

\* Whatever the event bus carries is in the audit log: a handler that fails,
\* or is retried, never leaves an event behind without its audit entry.
PublishedAreAudited ==
    \A i \in DOMAIN published : \E j \in DOMAIN audit : audit[j] = published[i]

\* The provider reference a start request was answered with leads back to the
\* session in the same answer, so the webhook of a flow the client was sent
\* into finds its session.
AnswerRoutable ==
    \A c \in StartCall : outcome[c].status = "fulfilled" =>
        matching(outcome[c].value.ref) = {outcome[c].value.sessionId}

\* "Replayed webhooks produce no duplicate events" (complete-verification.ts):
\* a session's verdict is audited once, and published once.
verdictEntries(log, s) == {i \in DOMAIN log : /\ log[i].session = s
                                              /\ log[i].payload \in Verdict}
OneVerdictPerSession ==
    \A s \in Session : \A log \in {audit, published} :
        \A i, j \in verdictEntries(log, s) : i = j

\* "Terminal states have no outbound edges" (state-machine.ts): a stored status
\* only changes along TRANSITIONS, whichever handlers race to save it.
StatusFollowsMachine ==
    [][\A s \in Session :
        \/ sessions'[s].status = sessions[s].status
        \/ sessions[s].status = "ABSENT" /\ sessions'[s].status = "INITIATED"
        \/ /\ sessions[s].status \in Status
           /\ canTransition(sessions[s].status, sessions'[s].status)]_vars

\* "Terminal states (VERIFIED, FAILED, EXPIRED) have no outbound edges."
TerminalIsFinal ==
    [][\A s \in Session : sessions[s].status \in {"VERIFIED", "FAILED"} =>
        sessions'[s].status = sessions[s].status]_vars

\* "Append audit event (VerificationCompleted or VerificationFailed)": a webhook
\* that was accepted after the last handler finished has its verdict on record.
AcceptedIsAudited ==
    (\A c \in Call : phase[c] # "running") =>
        \A c \in CompleteCall : outcome[c].status = "fulfilled" =>
            verdictEntries(audit, outcome[c].value.sessionId) # {}

\* Every invocation that executes or has joined an execution is answered.
EveryCallAnswered ==
    \A c \in Call : phase[c] \in {"running", "joined"} ~> phase[c] = "done"

\* A webhook that overtakes the start request it belongs to is rejected as
\* unknown, and recovered: once sent, its verdict is eventually published.
VerdictRecorded ==
    \A d \in Delivery : webhooks[d] # NotSent ~>
        \E i \in DOMAIN published :
            /\ published[i].payload = webhooks[d].verdict
            /\ published[i].session = inquiries[webhooks[d].inquiry].session

=============================================================================
