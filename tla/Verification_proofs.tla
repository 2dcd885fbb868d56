------------------------- MODULE Verification_proofs ------------------------
(***************************************************************************)
(* Theorems about Verification, for every set of requests, deliveries,     *)
(* keys, windows and faults: its types, that nothing is published that is  *)
(* not audited, that no session holds a verdict the provider did not       *)
(* deliver for the inquiry opened for that very session (IInv), and that   *)
(* the provider is only asked with consent, about rows that are stored     *)
(* (GInv).  What the runs show to fail in general holds for disciplined    *)
(* requests (Discipline, DInv): one verdict per session, answers that lead *)
(* to their session, statuses that follow the state machine.               *)
(***************************************************************************)
EXTENDS Verification, Integers, TLAPS

\* A delivery that was sent decides an inquiry that exists.
SentOK == \A d \in Delivery : webhooks[d] # NotSent =>
            /\ webhooks[d].inquiry \in DOMAIN inquiries
            /\ webhooks[d].verdict \in Verdict

\* A stored provider reference leads to an inquiry opened for that session.
OwnInquiry(s) == sessions[s].providerRef # NoRef =>
                    /\ sessions[s].providerRef \in DOMAIN inquiries
                    /\ inquiries[sessions[s].providerRef].session = s

\* A stored verdict was delivered.
VerdictDelivered(s) == sessions[s].status \in {"VERIFIED", "FAILED"} =>
                    /\ sessions[s].providerRef # NoRef
                    /\ \E d \in Delivery :
                        /\ webhooks[d].inquiry = sessions[s].providerRef
                        /\ sessions[s].status = "VERIFIED" <=> webhooks[d].verdict = "PASS"

StoredOK == \A s \in Session : OwnInquiry(s) /\ VerdictDelivered(s)

\* What a suspended handler knows: whose request it is, the session variable it
\* holds, and the audit entry it wrote before it publishes.
BeforeSession == {"getIdentity", "saveIdentity", "saveInitiated",
                  "rejectConsent", "rejectIdentity"}
WithInitiated == {"startInquiry", "auditProviderError"}
WithPending == {"savePending", "auditStarted", "publishStarted", "returnStarted"}
WithFound == {"saveCompleted", "auditVerdict", "publishVerdict",
              "returnCompleted", "returnApplied"}

Holds(c, s, ref) == /\ held[c].id = s
                    /\ s \in Session
                    /\ held[c].session.providerRef = ref
                    /\ ref \in DOMAIN inquiries
                    /\ inquiries[ref].session = s

HandlerOK(c) ==
    /\ step[c] \in BeforeSession \cup WithInitiated \cup WithPending => c \in StartCall
    /\ step[c] \in WithFound \cup {"findSession"} =>
        c \in CompleteCall /\ webhooks[KeyOf[c]] # NotSent
    /\ step[c] \in {"saveIdentity", "saveInitiated"} => identityOf(c) \in Identity
    /\ step[c] = "getIdentity" => IdentityId[c] \in Identity
    /\ step[c] \in WithInitiated =>
        held[c].id = SessionOf[c] /\ held[c].session.status = "INITIATED"
    /\ step[c] \in WithPending =>
        /\ Holds(c, SessionOf[c], held[c].session.providerRef)
        /\ held[c].session.status = "PENDING"
    /\ step[c] \in WithFound => Holds(c, held[c].id, refOf(c))
    /\ step[c] = "publishStarted" => \E j \in DOMAIN audit :
        audit[j] = entry("VerificationStarted", held[c].id, "started", c)
    /\ step[c] = "publishVerdict" => \E j \in DOMAIN audit : audit[j] = verdictEntry(c)

HandlersOK == \A c \in Call : HandlerOK(c)

IInv == TypeOK /\ SentOK /\ StoredOK /\ HandlersOK /\ PublishedAreAudited

-----------------------------------------------------------------------------
(* Lemmas about the parts a step leaves as they are. *)

\* What the handlers rely on is never taken back: inquiries and audit entries
\* stay, and a delivery that was sent keeps saying the same.
Grows == /\ \A i \in DOMAIN inquiries : i \in DOMAIN inquiries' /\ inquiries'[i] = inquiries[i]
         /\ \A j \in DOMAIN audit : j \in DOMAIN audit' /\ audit'[j] = audit[j]
         /\ \A d \in Delivery : webhooks[d] # NotSent => webhooks'[d] = webhooks[d]

\* Only the handler of invocation c moves.
ActsOn(c) == \A d \in Call : d # c => step'[d] = step[d] /\ held'[d] = held[d]

LEMMA CallFacts ==
    /\ \A c \in Call : KeyOf[c] \in Key /\ Ttl[c] \in Nat \ {0}
    /\ \A c \in CompleteCall : KeyOf[c] \in Delivery /\ c \in Call /\ c \notin StartCall
    /\ \A c \in StartCall : c \in Call /\ c \notin CompleteCall /\ SessionOf[c] \in Session
    /\ NoCall \notin Call
BY RequestsAssumption DEF Call

LEMMA HandlerPersists ==
    ASSUME Grows, NEW d \in Call, HandlerOK(d), step'[d] = step[d], held'[d] = held[d]
    PROVE  HandlerOK(d)'
<1>1. step[d] \in WithFound \cup {"findSession"} =>
        /\ d \in CompleteCall
        /\ webhooks[KeyOf[d]] # NotSent
        /\ webhooks'[KeyOf[d]] = webhooks[KeyOf[d]]
  BY CallFacts DEF HandlerOK, Grows
<1>2. step[d] \in WithFound => refOf(d)' = refOf(d) /\ verdictEntry(d)' = verdictEntry(d)
  BY <1>1 DEF refOf, verdictEntry, verdictEvent, decision, verdictOf, entry
<1>3. ASSUME NEW s, NEW ref, Holds(d, s, ref)
      PROVE  Holds(d, s, ref)'
  BY <1>3 DEF Holds, Grows
<1>4. \A x : (\E j \in DOMAIN audit : audit[j] = x) => \E j \in DOMAIN audit' : audit'[j] = x
  BY DEF Grows
<1>5. step[d] \in WithPending =>
        /\ Holds(d, SessionOf[d], held[d].session.providerRef)'
        /\ held'[d].session.status = "PENDING"
  BY <1>3 DEF HandlerOK
<1>6. step[d] \in WithFound => Holds(d, held[d].id, refOf(d))'
  BY <1>2, <1>3 DEF HandlerOK
<1>7. step[d] = "publishStarted" => \E j \in DOMAIN audit' :
        audit'[j] = entry("VerificationStarted", held'[d].id, "started", d)
  BY <1>4 DEF HandlerOK
<1>8. step[d] = "publishVerdict" => \E j \in DOMAIN audit' : audit'[j] = verdictEntry(d)'
  BY <1>2, <1>4 DEF HandlerOK, WithFound
<1> QED BY <1>1, <1>5, <1>6, <1>7, <1>8 DEF HandlerOK

LEMMA HandlersPersist ==
    ASSUME Grows, HandlersOK, NEW c \in Call, ActsOn(c), HandlerOK(c)'
    PROVE  HandlersOK'
BY HandlerPersists DEF HandlersOK, ActsOn

LEMMA AllHandlersPersist ==
    ASSUME Grows, HandlersOK, UNCHANGED handlerVars
    PROVE  HandlersOK'
BY HandlerPersists DEF HandlersOK, handlerVars

\* An idle handler knows nothing.
LEMMA IdleOK ==
    ASSUME NEW c \in Call, step'[c] = "idle"
    PROVE  HandlerOK(c)'
BY DEF HandlerOK, BeforeSession, WithInitiated, WithPending, WithFound

LEMMA StoredPersists ==
    ASSUME TypeOK, SentOK, StoredOK, Grows, NEW s \in Session, sessions'[s] = sessions[s]
    PROVE  (OwnInquiry(s) /\ VerdictDelivered(s))'
<1>1. OwnInquiry(s) /\ VerdictDelivered(s)
  BY DEF StoredOK
<1>2. OwnInquiry(s)'
  BY <1>1 DEF OwnInquiry, Grows
<1>3. VerdictDelivered(s)'
  <2> SUFFICES ASSUME sessions[s].status \in {"VERIFIED", "FAILED"}
               PROVE  /\ sessions[s].providerRef # NoRef
                      /\ \E d \in Delivery :
                          /\ webhooks'[d].inquiry = sessions[s].providerRef
                          /\ sessions[s].status = "VERIFIED" <=> webhooks'[d].verdict = "PASS"
    BY DEF VerdictDelivered
  <2>1. PICK d \in Delivery :
          /\ sessions[s].providerRef # NoRef
          /\ webhooks[d].inquiry = sessions[s].providerRef
          /\ sessions[s].status = "VERIFIED" <=> webhooks[d].verdict = "PASS"
    BY <1>1 DEF VerdictDelivered
  <2>2. webhooks[d] # NotSent
    BY <2>1 DEF NotSent
  <2>3. webhooks'[d] = webhooks[d]
    BY <2>2 DEF Grows
  <2> QED BY <2>1, <2>3
<1> QED BY <1>2, <1>3

LEMMA AllStoredPersist ==
    ASSUME TypeOK, SentOK, StoredOK, Grows, sessions' = sessions
    PROVE  StoredOK'
BY StoredPersists DEF StoredOK

LEMMA SentPersists ==
    ASSUME SentOK, Grows, webhooks' = webhooks
    PROVE  SentOK'
BY DEF SentOK, Grows

LEMMA PublishedPersist ==
    ASSUME PublishedAreAudited, Grows, published' = published
    PROVE  PublishedAreAudited'
BY DEF PublishedAreAudited, Grows

\* Nothing happens to what is logged, sent or asked: everything grows.
LEMMA NothingTakenBack ==
    ASSUME inquiries' = inquiries, webhooks' = webhooks, audit' = audit
    PROVE  Grows
BY DEF Grows

-----------------------------------------------------------------------------
(* Lemmas about the idempotency store and the entries. *)

IdemStep(c) == \/ UNCHANGED idemVars
               \/ Idem!Begin(c) \/ Idem!ReturnCached(c) \/ Idem!Join(c) \/ Idem!Again(c)
               \/ \E v \in Result : Idem!Fulfil(c, v)
               \/ \E name \in Errors : Idem!Reject(c, error(name))

LEMMA IdemTypes ==
    ASSUME Idem!TypeOK, NEW c \in Call, IdemStep(c)
    PROVE  Idem!TypeOK'
<1> USE CallFacts DEF Idem!TypeOK
<1>0. /\ Idem!Unsettled \in Idem!Outcome
      /\ \A v \in Result \cup {NoValue} : Idem!Fulfilled(v) \in Idem!Outcome
      /\ \A name \in Errors : Idem!Rejected(error(name)) \in Idem!Outcome
  BY DEF Idem!Unsettled, Idem!Fulfilled, Idem!Rejected, Idem!Outcome, Failure
<1>1. CASE UNCHANGED idemVars
  BY <1>1 DEF idemVars
<1>2. CASE Idem!Begin(c)
  BY <1>2 DEF Idem!Begin
<1>3. CASE Idem!ReturnCached(c)
  BY <1>0, <1>3 DEF Idem!ReturnCached, Idem!Entry
<1>4. CASE Idem!Join(c)
  BY <1>4 DEF Idem!Join
<1>5. CASE Idem!Again(c)
  BY <1>0, <1>5 DEF Idem!Again
<1>6. ASSUME NEW v \in Result, Idem!Fulfil(c, v)
      PROVE  Idem!TypeOK'
  <2>1. [expiresAt |-> now + Ttl[c], value |-> v] \in Idem!Entry
    BY DEF Idem!Entry
  <2> QED BY <1>0, <1>6, <2>1 DEF Idem!Fulfil, Idem!SettlePromise
<1>7. ASSUME NEW name \in Errors, Idem!Reject(c, error(name))
      PROVE  Idem!TypeOK'
  BY <1>0, <1>7 DEF Idem!Reject, Idem!SettlePromise
<1> QED BY <1>1, <1>2, <1>3, <1>4, <1>5, <1>6, <1>7 DEF IdemStep

LEMMA TickTypes == Idem!TypeOK /\ Idem!Tick => Idem!TypeOK'
BY DEF Idem!TypeOK, Idem!Tick

LEMMA EntryType ==
    ASSUME NEW type \in {"VerificationStarted", "VerificationCompleted",
                         "VerificationFailed"},
           NEW s \in Session, NEW c \in Call,
           NEW payload \in {"started", "provider_error"} \cup Verdict
    PROVE  entry(type, s, payload, c) \in Event
BY DEF entry, Event

LEMMA VerdictEntryType ==
    ASSUME SentOK, NEW c \in CompleteCall, webhooks[KeyOf[c]] # NotSent,
           held[c].id \in Session
    PROVE  verdictEntry(c) \in Event
<1>1. verdictOf(c) \in Verdict
  BY CallFacts DEF SentOK, verdictOf
<1>2. verdictEvent(c) \in {"VerificationCompleted", "VerificationFailed"}
  BY DEF verdictEvent
<1> QED BY <1>1, <1>2, CallFacts, EntryType DEF verdictEntry

LEMMA SessionTypes ==
    /\ Absent \in SessionRecord
    /\ Nothing \in Held
    /\ \A i \in Identity \cup {NoId} : create(i) \in SessionRecord
    /\ \A session \in SessionRecord, ref \in Nat :
        /\ markPending(session, ref) \in SessionRecord
        /\ \A verdict \in {"PASS", "FAIL"} :
            markCompleted(session, verdict, ref) \in SessionRecord
BY DEF Absent, Nothing, Held, SessionRecord, create, markPending, markCompleted,
       statusAfter, NoRef, Status, Decision

-----------------------------------------------------------------------------
(* The initial states, and the shape of a step of the invariant's proof. *)

LEMMA InitInv == Init => IInv
<1> SUFFICES ASSUME Init PROVE IInv
  OBVIOUS
<1>1. Idem!TypeOK
  BY CallFacts DEF Init, Idem!Init, Idem!TypeOK, Idem!Entry, Idem!Unsettled, Idem!Outcome
<1>2. TypeOK
  BY <1>1, SessionTypes, BoundsAssumption
  DEF Init, TypeOK, Step, Webhook, NotSent, NoRef
<1>3. SentOK /\ PublishedAreAudited
  BY DEF Init, SentOK, PublishedAreAudited
<1>4. StoredOK
  BY DEF Init, StoredOK, OwnInquiry, VerdictDelivered, Absent
<1>5. HandlersOK
  BY DEF Init, HandlersOK, HandlerOK, BeforeSession, WithInitiated, WithPending, WithFound
<1> QED BY <1>2, <1>3, <1>4, <1>5 DEF IInv

\* What every action below shows of its own: the new values have their types,
\* nothing was taken back, the handler that moved and the session it saved are
\* in order.
Typed == /\ step' \in [Call -> Step]
         /\ held' \in [Call -> Held]
         /\ identities' \subseteq Identity
         /\ sessions' \in [Session -> SessionRecord]
         /\ audit' \in Seq(Event)
         /\ published' \in Seq(Event)
         /\ inquiries' \in Seq(InquiryRecord)
         /\ faults' \in 0..MaxFaults

LEMMA HandlerStep ==
    ASSUME IInv, NEW c \in Call, IdemStep(c), Typed, Grows, ActsOn(c),
           webhooks' = webhooks, HandlerOK(c)', PublishedAreAudited',
           \A s \in Session : \/ sessions'[s] = sessions[s]
                             \/ (OwnInquiry(s) /\ VerdictDelivered(s))'
    PROVE  IInv'
<1>1. TypeOK'
  BY IdemTypes DEF IInv, TypeOK, Typed
<1>2. SentOK'
  BY SentPersists DEF IInv
<1>3. StoredOK'
  BY StoredPersists DEF IInv, StoredOK
<1>4. HandlersOK'
  BY HandlersPersist DEF IInv
<1> QED BY <1>1, <1>2, <1>3, <1>4 DEF IInv

\* A step that leaves what is stored, logged and asked as it is.
LEMMA QuietStep ==
    ASSUME IInv, NEW c \in Call, IdemStep(c), ActsOn(c), HandlerOK(c)',
           step' \in [Call -> Step], held' \in [Call -> Held],
           UNCHANGED <<storeVars, logVars, providerVars>>, faults' \in 0..MaxFaults
    PROVE  IInv'
<1>1. Typed
  BY DEF IInv, TypeOK, Typed, storeVars, logVars, providerVars
<1>2. Grows
  BY NothingTakenBack DEF logVars, providerVars
<1>3. PublishedAreAudited'
  BY <1>2, PublishedPersist DEF IInv, logVars
<1>4. sessions' = sessions /\ webhooks' = webhooks
  BY DEF storeVars, providerVars
<1> QED BY <1>1, <1>2, <1>3, <1>4, HandlerStep

LEMMA LeaveStep ==
    ASSUME IInv, NEW c \in Call, IdemStep(c), Leave(c),
           UNCHANGED <<storeVars, logVars, providerVars>>, faults' \in 0..MaxFaults
    PROVE  IInv'
<1>1. step' \in [Call -> Step] /\ held' \in [Call -> Held] /\ ActsOn(c)
  BY SessionTypes DEF IInv, TypeOK, Leave, Step, ActsOn
<1>2. step'[c] = "idle"
  BY DEF IInv, TypeOK, Leave
<1> QED BY <1>1, <1>2, IdleOK, QuietStep

LEMMA IdleStep ==
    ASSUME IInv, (\E c \in Call : IdemStep(c)) \/ Idem!Tick,
           UNCHANGED <<handlerVars, storeVars, logVars, providerVars, faults>>
    PROVE  IInv'
<1>1. Grows
  BY NothingTakenBack DEF logVars, providerVars
<1>2. TypeOK'
  BY IdemTypes, TickTypes DEF IInv, TypeOK, handlerVars, storeVars, logVars, providerVars
<1>3. SentOK' /\ StoredOK' /\ PublishedAreAudited'
  BY <1>1, SentPersists, AllStoredPersist, PublishedPersist
  DEF IInv, storeVars, logVars, providerVars
<1>4. HandlersOK'
  BY <1>1, AllHandlersPersist DEF IInv
<1> QED BY <1>2, <1>3, <1>4 DEF IInv

\* What Goto and Hold do to the handler's variables.
LEMMA GotoFacts ==
    ASSUME IInv, NEW c \in Call, NEW s \in Step, Goto(c, s)
    PROVE  /\ step' \in [Call -> Step]
           /\ step'[c] = s
           /\ \A d \in Call : d # c => step'[d] = step[d]
BY DEF IInv, TypeOK, Goto

LEMMA HoldFacts ==
    ASSUME IInv, NEW c \in Call, NEW s \in Session, NEW session \in SessionRecord,
           Hold(c, s, session)
    PROVE  /\ held' \in [Call -> Held]
           /\ held'[c] = [id |-> s, session |-> session]
           /\ \A d \in Call : d # c => held'[d] = held[d]
BY DEF IInv, TypeOK, Hold, Held

LEMMA KeepHeld ==
    ASSUME IInv, held' = held
    PROVE  held' \in [Call -> Held]
BY DEF IInv, TypeOK

-----------------------------------------------------------------------------
(* One lemma per action. *)

LEMMA ExecuteInv == ASSUME IInv, NEW c \in Call, Execute(c) PROVE IInv'
<1>1. firstStep(c) \in BeforeSession \cup {"findSession"}
  BY DEF firstStep, BeforeSession
<1>2. firstStep(c) \in Step
  BY <1>1 DEF BeforeSession, Step, PortStep, StartStep, CompleteStep
<1>3. step' \in [Call -> Step] /\ step'[c] = firstStep(c) /\ ActsOn(c)
  BY <1>2, GotoFacts DEF Execute, ActsOn
<1>4. HandlerOK(c)'
  <2>1. CASE c \in CompleteCall
    <3>1. step'[c] = "findSession" /\ webhooks'[KeyOf[c]] # NotSent
      BY <2>1, <1>3 DEF Execute, Requested, firstStep, providerVars
    <3> QED BY <2>1, <3>1 DEF HandlerOK, BeforeSession, WithInitiated, WithPending, WithFound
  <2>2. CASE c \notin CompleteCall
    <3>1. c \in StartCall
      BY <2>2 DEF Call
    <3>2. /\ firstStep(c) = "getIdentity" => IdentityId[c] \in Identity
          /\ firstStep(c) = "saveIdentity" => identityOf(c) \in Identity
          /\ firstStep(c) \in BeforeSession \ {"saveInitiated"}
      BY <2>2, <3>1, RequestsAssumption DEF firstStep, identityOf, BeforeSession
    <3> QED BY <3>1, <3>2, <1>3
            DEF HandlerOK, BeforeSession, WithInitiated, WithPending, WithFound
  <2> QED BY <2>1, <2>2
<1>5. /\ IdemStep(c)
      /\ held' \in [Call -> Held]
      /\ UNCHANGED <<storeVars, logVars, providerVars>>
      /\ faults' \in 0..MaxFaults
  BY DEF Execute, IdemStep, IInv, TypeOK
<1> QED BY <1>3, <1>4, <1>5, QuietStep

\* The actions of the idempotency store and the ends of handlers.
LEMMA EnterInv ==
    ASSUME IInv, NEW c \in Call, Enter(c) \/ Repeat(c)
    PROVE  IInv'
BY ExecuteInv, IdleStep DEF Enter, ReplayAnswer, JoinExecution, Repeat, IdemStep

LEMMA TickInv == ASSUME IInv, Tick PROVE IInv'
BY IdleStep DEF Tick

LEMMA ThrowStep ==
    ASSUME IInv, NEW c \in Call, NEW name \in Errors, Throw(c, name),
           UNCHANGED <<storeVars, logVars, providerVars>>, faults' \in 0..MaxFaults
    PROVE  IInv'
BY LeaveStep DEF Throw, IdemStep

LEMMA ReturnStep ==
    ASSUME IInv, NEW c \in Call, NEW v \in Result, Return(c, v),
           UNCHANGED <<storeVars, logVars, providerVars>>, faults' \in 0..MaxFaults
    PROVE  IInv'
BY LeaveStep DEF Return, IdemStep

LEMMA RejectionsInv ==
    ASSUME IInv, NEW c \in Call,
           \/ RejectWithoutConsent(c) \/ RejectWithoutIdentityId(c)
           \/ RejectUnknownSession(c) \/ PortRejects(c)
    PROVE  IInv'
<1>1. faults' \in 0..MaxFaults
  BY BoundsAssumption DEF IInv, TypeOK, RejectWithoutConsent, RejectWithoutIdentityId,
     RejectUnknownSession, PortRejects, MayReject
<1> QED BY <1>1, ThrowStep DEF Errors, RejectWithoutConsent, RejectWithoutIdentityId,
           RejectUnknownSession, PortRejects

LEMMA ReturnsInv ==
    ASSUME IInv, NEW c \in Call,
           ReturnStarted(c) \/ ReturnApplied(c) \/ ReturnCompleted(c)
    PROVE  IInv'
<1>1. HandlerOK(c) /\ held[c] \in Held /\ faults \in 0..MaxFaults
  BY DEF IInv, TypeOK, HandlersOK
<1>2. held[c].id \in Session /\ held[c].session.providerRef \in Nat
  BY <1>1 DEF ReturnStarted, ReturnApplied, ReturnCompleted, At, HandlerOK, Holds,
              WithPending, WithFound, Held, SessionRecord
<1>3. \A status \in {"PENDING", "VERIFIED", "FAILED"}, applied \in BOOLEAN :
        answer(held[c].id, held[c].session.providerRef, status, applied) \in Result
  BY <1>2 DEF answer, Result
<1>4. statusAfter(decision(c)) \in {"VERIFIED", "FAILED"}
  BY DEF statusAfter
<1>5. \E v \in Result : Return(c, v)
  BY <1>3, <1>4 DEF ReturnStarted, ReturnApplied, ReturnCompleted
<1> QED BY <1>1, <1>5, ReturnStep DEF ReturnStarted, ReturnApplied, ReturnCompleted

\* The steps that only move the handler on.
LEMMA GetIdentityInv == ASSUME IInv, NEW c \in Call, GetIdentity(c) PROVE IInv'
<1>1. c \in StartCall /\ IdentityId[c] \in Identity /\ IdentityId[c] # NoId
  BY RequestsAssumption DEF IInv, HandlersOK, HandlerOK, GetIdentity, At, BeforeSession
<1>2. identityOf(c) \in Identity
  BY <1>1 DEF identityOf
<1>3. /\ step' \in [Call -> Step]
      /\ step'[c] \in {"saveInitiated", "saveIdentity"}
      /\ \A d \in Call : d # c => step'[d] = step[d]
  BY GotoFacts DEF GetIdentity, Step, PortStep, StartStep
<1>4. HandlerOK(c)'
  BY <1>1, <1>2, <1>3
  DEF HandlerOK, BeforeSession, WithInitiated, WithPending, WithFound
<1>5. /\ IdemStep(c) /\ ActsOn(c) /\ held' \in [Call -> Held]
      /\ faults' \in 0..MaxFaults /\ UNCHANGED <<storeVars, logVars, providerVars>>
  BY <1>3, KeepHeld DEF GetIdentity, IdemStep, ActsOn, IInv, TypeOK
<1> QED BY <1>3, <1>4, <1>5, QuietStep

LEMMA ProviderRejectsInv == ASSUME IInv, NEW c \in Call, ProviderRejects(c) PROVE IInv'
<1>1. /\ c \in StartCall
      /\ held[c].id = SessionOf[c] /\ held[c].session.status = "INITIATED"
  BY DEF IInv, HandlersOK, HandlerOK, ProviderRejects, WithInitiated
<1>2. /\ step' \in [Call -> Step]
      /\ step'[c] = "auditProviderError"
      /\ \A d \in Call : d # c => step'[d] = step[d]
  BY GotoFacts DEF ProviderRejects, Step, PortStep, StartStep
<1>3. HandlerOK(c)'
  BY <1>1, <1>2
  DEF HandlerOK, BeforeSession, WithInitiated, WithPending, WithFound, ProviderRejects
<1>4. /\ IdemStep(c) /\ ActsOn(c) /\ held' \in [Call -> Held]
      /\ UNCHANGED <<storeVars, logVars, providerVars>>
  BY <1>2, KeepHeld DEF ProviderRejects, IdemStep, ActsOn
<1>5. faults' \in 0..MaxFaults
  BY BoundsAssumption DEF ProviderRejects, MayReject, IInv, TypeOK
<1> QED BY <1>2, <1>3, <1>4, <1>5, QuietStep

LEMMA FindSessionInv == ASSUME IInv, NEW c \in Call, FindSession(c) PROVE IInv'
<1>1. c \in CompleteCall /\ webhooks[KeyOf[c]] # NotSent /\ KeyOf[c] \in Delivery
  BY CallFacts DEF IInv, HandlersOK, HandlerOK, FindSession, At
<1>2. PICK s \in matching(refOf(c)) :
        /\ Hold(c, s, sessions[s])
        /\ Goto(c, IF isTerminal(sessions[s].status) THEN "returnApplied"
                                                     ELSE "saveCompleted")
  BY DEF FindSession
<1>3. s \in Session /\ sessions[s].providerRef = refOf(c) /\ sessions[s] \in SessionRecord
  BY <1>2 DEF matching, IInv, TypeOK
<1>4. refOf(c) \in DOMAIN inquiries /\ refOf(c) # NoRef
  BY <1>1 DEF IInv, TypeOK, SentOK, refOf, NoRef
<1>5. inquiries[refOf(c)].session = s
  BY <1>3, <1>4 DEF IInv, StoredOK, OwnInquiry
<1>6. /\ step' \in [Call -> Step]
      /\ step'[c] \in {"returnApplied", "saveCompleted"}
      /\ \A d \in Call : d # c => step'[d] = step[d]
  BY <1>2, GotoFacts DEF Step, PortStep, CompleteStep
<1>7. /\ held' \in [Call -> Held]
      /\ held'[c] = [id |-> s, session |-> sessions[s]]
      /\ \A d \in Call : d # c => held'[d] = held[d]
  BY <1>2, <1>3, HoldFacts
<1>8. webhooks' = webhooks /\ inquiries' = inquiries
  BY DEF FindSession, providerVars
<1>9. Holds(c, held[c].id, refOf(c))'
  BY <1>3, <1>4, <1>5, <1>7, <1>8 DEF Holds, refOf
<1>10. HandlerOK(c)'
  BY <1>1, <1>6, <1>8, <1>9
  DEF HandlerOK, BeforeSession, WithInitiated, WithPending, WithFound
<1>11. /\ IdemStep(c) /\ ActsOn(c)
       /\ faults' \in 0..MaxFaults /\ UNCHANGED <<storeVars, logVars, providerVars>>
  BY <1>6, <1>7 DEF FindSession, IdemStep, ActsOn, IInv, TypeOK
<1> QED BY <1>6, <1>7, <1>10, <1>11, QuietStep

\* The steps that save.
LEMMA SaveIdentityInv == ASSUME IInv, NEW c \in Call, SaveIdentity(c) PROVE IInv'
<1>1. c \in StartCall /\ identityOf(c) \in Identity
  BY DEF IInv, HandlersOK, HandlerOK, SaveIdentity, At, BeforeSession
<1>2. /\ step' \in [Call -> Step]
      /\ step'[c] = "saveInitiated"
      /\ \A d \in Call : d # c => step'[d] = step[d]
  BY GotoFacts DEF SaveIdentity, Step, PortStep, StartStep
<1>3. HandlerOK(c)'
  BY <1>1, <1>2 DEF HandlerOK, BeforeSession, WithInitiated, WithPending, WithFound
<1>4. Typed
  BY <1>1, <1>2, KeepHeld
  DEF Typed, SaveIdentity, IInv, TypeOK, logVars, providerVars
<1>5. Grows
  BY NothingTakenBack DEF SaveIdentity, logVars, providerVars
<1>6. PublishedAreAudited'
  BY <1>5, PublishedPersist DEF IInv, SaveIdentity, logVars
<1>7. IdemStep(c) /\ ActsOn(c) /\ webhooks' = webhooks /\ sessions' = sessions
  BY <1>2 DEF SaveIdentity, IdemStep, ActsOn, providerVars
<1> QED BY <1>3, <1>4, <1>5, <1>6, <1>7, HandlerStep

\* A handler that saves a session the invariant allows, and holds the like.
LEMMA SaveStep ==
    ASSUME IInv, NEW c \in Call, NEW s \in Session, NEW session \in SessionRecord,
           Save(s, session), IdemStep(c), ActsOn(c), HandlerOK(c)',
           step' \in [Call -> Step], held' \in [Call -> Held],
           UNCHANGED <<identities, logVars, providerVars, faults>>,
           session.providerRef # NoRef =>
              session.providerRef \in DOMAIN inquiries /\ inquiries[session.providerRef].session = s,
           session.status \in {"VERIFIED", "FAILED"} =>
              /\ session.providerRef # NoRef
              /\ \E d \in Delivery :
                    /\ webhooks[d].inquiry = session.providerRef
                    /\ session.status = "VERIFIED" <=> webhooks[d].verdict = "PASS"
    PROVE  IInv'
<1>1. Typed
  BY DEF Typed, Save, IInv, TypeOK, logVars, providerVars
<1>2. Grows
  BY NothingTakenBack DEF logVars, providerVars
<1>3. PublishedAreAudited'
  BY <1>2, PublishedPersist DEF IInv, logVars
<1>4. sessions'[s] = session /\ \A r \in Session : r # s => sessions'[r] = sessions[r]
  BY DEF Save, IInv, TypeOK
<1>5. webhooks' = webhooks /\ inquiries' = inquiries
  BY DEF providerVars
<1>6. (OwnInquiry(s) /\ VerdictDelivered(s))'
  BY <1>4, <1>5 DEF OwnInquiry, VerdictDelivered
<1>7. \A r \in Session : \/ sessions'[r] = sessions[r]
                         \/ (OwnInquiry(r) /\ VerdictDelivered(r))'
  <2> SUFFICES ASSUME NEW r \in Session, r = s
               PROVE  (OwnInquiry(r) /\ VerdictDelivered(r))'
    BY <1>4
  <2> QED BY <1>6
<1> QED BY <1>1, <1>2, <1>3, <1>5, <1>7, HandlerStep

LEMMA SaveInitiatedInv == ASSUME IInv, NEW c \in Call, SaveInitiated(c) PROVE IInv'
<1> DEFINE session == create(identityOf(c))
<1>1. c \in StartCall /\ SessionOf[c] \in Session /\ identityOf(c) \in Identity
  BY CallFacts DEF IInv, HandlersOK, HandlerOK, SaveInitiated, At, BeforeSession
<1>2. /\ session \in SessionRecord
      /\ session.providerRef = NoRef /\ session.status = "INITIATED"
  BY <1>1, SessionTypes DEF create
<1>3. Save(SessionOf[c], session) /\ Hold(c, SessionOf[c], session)
  BY DEF SaveInitiated
<1> HIDE DEF session
<1>4. /\ step' \in [Call -> Step]
      /\ step'[c] = "startInquiry"
      /\ \A d \in Call : d # c => step'[d] = step[d]
  BY GotoFacts DEF SaveInitiated, Step, PortStep, StartStep
<1>5. /\ held' \in [Call -> Held]
      /\ held'[c] = [id |-> SessionOf[c], session |-> session]
      /\ \A d \in Call : d # c => held'[d] = held[d]
  BY <1>1, <1>2, <1>3, HoldFacts
<1>6. HandlerOK(c)'
  BY <1>1, <1>2, <1>4, <1>5
  DEF HandlerOK, BeforeSession, WithInitiated, WithPending, WithFound
<1>7. /\ IdemStep(c) /\ ActsOn(c)
      /\ UNCHANGED <<identities, logVars, providerVars, faults>>
  BY <1>4, <1>5 DEF SaveInitiated, IdemStep, ActsOn
<1> QED BY <1>1, <1>2, <1>3, <1>4, <1>5, <1>6, <1>7, SaveStep

LEMMA SavePendingInv == ASSUME IInv, NEW c \in Call, SavePending(c) PROVE IInv'
<1>1. /\ c \in StartCall
      /\ Holds(c, SessionOf[c], held[c].session.providerRef)
      /\ held[c].session.status = "PENDING"
  BY DEF IInv, HandlersOK, HandlerOK, SavePending, At, WithPending
<1>2. /\ held[c].id \in Session /\ held[c].session \in SessionRecord
      /\ held[c].session.providerRef \in DOMAIN inquiries
      /\ inquiries[held[c].session.providerRef].session = held[c].id
  BY <1>1 DEF IInv, TypeOK, Held, Holds
<1>3. /\ step' \in [Call -> Step]
      /\ step'[c] = "auditStarted"
      /\ \A d \in Call : d # c => step'[d] = step[d]
  BY GotoFacts DEF SavePending, Step, PortStep, StartStep
<1>4. held' = held /\ inquiries' = inquiries
  BY DEF SavePending, providerVars
<1>5. HandlerOK(c)'
  BY <1>1, <1>3, <1>4
  DEF HandlerOK, Holds, BeforeSession, WithInitiated, WithPending, WithFound
<1>6. /\ Save(held[c].id, held[c].session) /\ IdemStep(c) /\ ActsOn(c)
      /\ held' \in [Call -> Held]
      /\ UNCHANGED <<identities, logVars, providerVars, faults>>
  BY <1>3, <1>4, KeepHeld DEF SavePending, IdemStep, ActsOn
<1> QED BY <1>1, <1>2, <1>3, <1>5, <1>6, SaveStep

LEMMA SaveCompletedInv == ASSUME IInv, NEW c \in Call, SaveCompleted(c) PROVE IInv'
<1> DEFINE updated == markCompleted(held[c].session, decision(c), refOf(c))
<1>1. /\ c \in CompleteCall /\ KeyOf[c] \in Delivery
      /\ webhooks[KeyOf[c]] # NotSent
      /\ Holds(c, held[c].id, refOf(c))
  BY CallFacts DEF IInv, HandlersOK, HandlerOK, SaveCompleted, At, WithFound
<1>2. /\ held[c].id \in Session /\ held[c].session \in SessionRecord
      /\ refOf(c) \in DOMAIN inquiries /\ inquiries[refOf(c)].session = held[c].id
      /\ refOf(c) \in Nat
  BY <1>1 DEF IInv, TypeOK, Held, Holds
<1>3. decision(c) \in {"PASS", "FAIL"} /\ (decision(c) = "PASS" <=> verdictOf(c) = "PASS")
  BY DEF decision
<1>4. /\ updated \in SessionRecord
      /\ updated.providerRef = refOf(c)
      /\ updated.status = "VERIFIED" <=> decision(c) = "PASS"
  BY <1>2, <1>3, SessionTypes DEF markCompleted, statusAfter, SessionRecord
<1>5. /\ UNCHANGED <<identities, logVars, providerVars, faults>>
      /\ canTransition(held[c].session.status, updated.status) =>
            Save(held[c].id, updated) /\ Goto(c, "auditVerdict") /\ UNCHANGED <<idemVars, held>>
      /\ ~canTransition(held[c].session.status, updated.status) =>
            Throw(c, "InvalidVerificationStateTransition") /\ UNCHANGED sessions
  BY DEF SaveCompleted
<1> HIDE DEF updated
<1>6. CASE ~canTransition(held[c].session.status, updated.status)
  BY <1>5, <1>6, ThrowStep DEF Errors, storeVars, IInv, TypeOK
<1>7. CASE canTransition(held[c].session.status, updated.status)
  <2>1. /\ step' \in [Call -> Step]
        /\ step'[c] = "auditVerdict"
        /\ \A d \in Call : d # c => step'[d] = step[d]
    BY <1>5, <1>7, GotoFacts DEF Step, PortStep, CompleteStep
  <2>2. held' = held /\ inquiries' = inquiries /\ webhooks' = webhooks
    BY <1>5, <1>7 DEF providerVars
  <2>3. HandlerOK(c)'
    BY <1>1, <2>1, <2>2
    DEF HandlerOK, Holds, refOf, BeforeSession, WithInitiated, WithPending, WithFound
  <2>4. /\ Save(held[c].id, updated) /\ IdemStep(c) /\ ActsOn(c)
        /\ held' \in [Call -> Held]
        /\ UNCHANGED <<identities, logVars, providerVars, faults>>
    BY <1>5, <1>7, <2>1, <2>2, KeepHeld DEF IdemStep, ActsOn
  <2>5. /\ webhooks[KeyOf[c]].inquiry = updated.providerRef
        /\ updated.status = "VERIFIED" <=> webhooks[KeyOf[c]].verdict = "PASS"
        /\ updated.providerRef # NoRef
    BY <1>2, <1>3, <1>4 DEF refOf, verdictOf, NoRef, IInv, TypeOK
  <2> QED BY <1>1, <1>2, <1>4, <2>1, <2>3, <2>4, <2>5, SaveStep
<1> QED BY <1>6, <1>7

\* The steps that open an inquiry, audit and publish.
LEMMA StartInquiryInv == ASSUME IInv, NEW c \in Call, StartInquiry(c) PROVE IInv'
<1> DEFINE ref == Len(inquiries) + 1
           pending == markPending(held[c].session, ref)
           inquiry == [session |-> held[c].id, call |-> c]
<1>1. /\ c \in StartCall /\ held[c].id = SessionOf[c] /\ SessionOf[c] \in Session
  BY CallFacts DEF IInv, HandlersOK, HandlerOK, StartInquiry, At, WithInitiated
<1>2. inquiry \in InquiryRecord
  BY <1>1 DEF InquiryRecord
<1>3. inquiries \in Seq(InquiryRecord) /\ inquiries' = Append(inquiries, inquiry)
  BY DEF IInv, TypeOK, StartInquiry
<1>4. ref \in Nat /\ held[c] \in Held /\ held[c].session \in SessionRecord
  BY <1>3 DEF IInv, TypeOK, Held
<1>5. pending \in SessionRecord /\ pending.status = "PENDING" /\ pending.providerRef = ref
  BY <1>4, SessionTypes DEF markPending, SessionRecord
<1>6. /\ inquiries' \in Seq(InquiryRecord)
      /\ ref \in DOMAIN inquiries' /\ inquiries'[ref] = inquiry
      /\ \A i \in DOMAIN inquiries : i \in DOMAIN inquiries' /\ inquiries'[i] = inquiries[i]
  BY <1>2, <1>3
<1>7. Hold(c, SessionOf[c], pending) /\ inquiry.session = SessionOf[c]
  BY <1>1 DEF StartInquiry
<1> HIDE DEF pending, inquiry, ref
<1>8. /\ step' \in [Call -> Step]
      /\ step'[c] = "savePending"
      /\ \A d \in Call : d # c => step'[d] = step[d]
  BY GotoFacts DEF StartInquiry, Step, PortStep, StartStep
<1>9. /\ held' \in [Call -> Held]
      /\ held'[c] = [id |-> SessionOf[c], session |-> pending]
      /\ \A d \in Call : d # c => held'[d] = held[d]
  BY <1>1, <1>5, <1>7, HoldFacts
<1>10. HandlerOK(c)'
  BY <1>1, <1>5, <1>6, <1>7, <1>8, <1>9
  DEF HandlerOK, Holds, BeforeSession, WithInitiated, WithPending, WithFound
<1>11. Typed
  BY <1>6, <1>8, <1>9 DEF Typed, StartInquiry, IInv, TypeOK, storeVars, logVars
<1>12. Grows
  BY <1>6 DEF Grows, StartInquiry, logVars
<1>13. PublishedAreAudited'
  BY <1>12, PublishedPersist DEF IInv, StartInquiry, logVars
<1>14. IdemStep(c) /\ ActsOn(c) /\ webhooks' = webhooks /\ sessions' = sessions
  BY <1>8, <1>9 DEF StartInquiry, IdemStep, ActsOn, storeVars
<1> QED BY <1>10, <1>11, <1>12, <1>13, <1>14, HandlerStep

\* A handler that appends an entry to the audit log.
LEMMA AuditStep ==
    ASSUME IInv, NEW c \in Call, NEW e \in Event, audit' = Append(audit, e),
           IdemStep(c), ActsOn(c), step' \in [Call -> Step], held' \in [Call -> Held],
           UNCHANGED <<storeVars, published, providerVars, faults>>,
           (\E j \in DOMAIN audit' : audit'[j] = e) => HandlerOK(c)'
    PROVE  IInv'
<1>1. /\ audit \in Seq(Event) /\ audit' \in Seq(Event)
      /\ \A j \in DOMAIN audit : j \in DOMAIN audit' /\ audit'[j] = audit[j]
      /\ Len(audit) + 1 \in DOMAIN audit' /\ audit'[Len(audit) + 1] = e
  BY DEF IInv, TypeOK
<1>2. Typed
  BY <1>1 DEF Typed, IInv, TypeOK, storeVars, providerVars
<1>3. Grows
  BY <1>1 DEF Grows, providerVars
<1>4. PublishedAreAudited'
  BY <1>3, PublishedPersist DEF IInv
<1>5. webhooks' = webhooks /\ sessions' = sessions
  BY DEF storeVars, providerVars
<1> QED BY <1>1, <1>2, <1>3, <1>4, <1>5, HandlerStep

LEMMA AuditProviderErrorInv ==
    ASSUME IInv, NEW c \in Call, AuditProviderError(c)
    PROVE  IInv'
<1>1. held[c].id \in Session
  BY CallFacts DEF IInv, HandlersOK, HandlerOK, AuditProviderError, At, WithInitiated
<1>2. entry("VerificationFailed", held[c].id, "provider_error", c) \in Event
  BY <1>1, EntryType
<1>3. Leave(c) /\ IdemStep(c)
  BY DEF AuditProviderError, Throw, IdemStep, Errors
<1>4. step' \in [Call -> Step] /\ held' \in [Call -> Held] /\ ActsOn(c) /\ step'[c] = "idle"
  BY <1>3, SessionTypes DEF IInv, TypeOK, Leave, Step, ActsOn
<1>5. /\ audit' = Append(audit, entry("VerificationFailed", held[c].id, "provider_error", c))
      /\ UNCHANGED <<storeVars, published, providerVars, faults>>
  BY DEF AuditProviderError
<1> QED BY <1>2, <1>3, <1>4, <1>5, IdleOK, AuditStep

LEMMA AuditStartedInv == ASSUME IInv, NEW c \in Call, AuditStarted(c) PROVE IInv'
<1> DEFINE e == entry("VerificationStarted", held[c].id, "started", c)
<1>1. /\ c \in StartCall
      /\ Holds(c, SessionOf[c], held[c].session.providerRef)
      /\ held[c].session.status = "PENDING"
  BY DEF IInv, HandlersOK, HandlerOK, AuditStarted, At, WithPending
<1>2. e \in Event
  BY <1>1, EntryType DEF Holds
<1>3. /\ step' \in [Call -> Step]
      /\ step'[c] = "publishStarted"
      /\ \A d \in Call : d # c => step'[d] = step[d]
  BY GotoFacts DEF AuditStarted, Step, PortStep, StartStep
<1>4. held' = held /\ inquiries' = inquiries
  BY DEF AuditStarted, providerVars
<1>5. ASSUME \E j \in DOMAIN audit' : audit'[j] = e
      PROVE  HandlerOK(c)'
  BY <1>1, <1>3, <1>4, <1>5
  DEF HandlerOK, Holds, BeforeSession, WithInitiated, WithPending, WithFound
<1>6. /\ audit' = Append(audit, e) /\ IdemStep(c) /\ ActsOn(c) /\ held' \in [Call -> Held]
      /\ UNCHANGED <<storeVars, published, providerVars, faults>>
  BY <1>3, <1>4, KeepHeld DEF AuditStarted, IdemStep, ActsOn
<1> QED BY <1>2, <1>3, <1>5, <1>6, AuditStep

LEMMA AuditVerdictInv == ASSUME IInv, NEW c \in Call, AuditVerdict(c) PROVE IInv'
<1>1. /\ c \in CompleteCall /\ webhooks[KeyOf[c]] # NotSent
      /\ Holds(c, held[c].id, refOf(c))
  BY DEF IInv, HandlersOK, HandlerOK, AuditVerdict, At, WithFound
<1>2. verdictEntry(c) \in Event
  BY <1>1, VerdictEntryType DEF IInv, Holds
<1>3. /\ step' \in [Call -> Step]
      /\ step'[c] = "publishVerdict"
      /\ \A d \in Call : d # c => step'[d] = step[d]
  BY GotoFacts DEF AuditVerdict, Step, PortStep, CompleteStep
<1>4. held' = held /\ inquiries' = inquiries /\ webhooks' = webhooks
  BY DEF AuditVerdict, providerVars
<1>5. verdictEntry(c)' = verdictEntry(c)
  BY <1>4 DEF verdictEntry, verdictEvent, decision, verdictOf, entry
<1>6. ASSUME \E j \in DOMAIN audit' : audit'[j] = verdictEntry(c)
      PROVE  HandlerOK(c)'
  BY <1>1, <1>3, <1>4, <1>5, <1>6
  DEF HandlerOK, Holds, refOf, BeforeSession, WithInitiated, WithPending, WithFound
<1>7. /\ audit' = Append(audit, verdictEntry(c)) /\ IdemStep(c) /\ ActsOn(c)
      /\ held' \in [Call -> Held]
      /\ UNCHANGED <<storeVars, published, providerVars, faults>>
  BY <1>3, <1>4, KeepHeld DEF AuditVerdict, IdemStep, ActsOn
<1> QED BY <1>2, <1>3, <1>6, <1>7, AuditStep

\* A handler that publishes an event it has audited.
LEMMA PublishStep ==
    ASSUME IInv, NEW c \in Call, NEW e \in Event, published' = Append(published, e),
           \E j \in DOMAIN audit : audit[j] = e,
           IdemStep(c), ActsOn(c), step' \in [Call -> Step], held' \in [Call -> Held],
           UNCHANGED <<storeVars, audit, providerVars, faults>>, HandlerOK(c)'
    PROVE  IInv'
<1>1. /\ published \in Seq(Event) /\ published' \in Seq(Event)
      /\ \A i \in DOMAIN published' : published'[i] = e \/
            (i \in DOMAIN published /\ published'[i] = published[i])
  BY DEF IInv, TypeOK
<1>2. Typed
  BY <1>1 DEF Typed, IInv, TypeOK, storeVars, providerVars
<1>3. Grows
  BY NothingTakenBack DEF providerVars
<1>4. PublishedAreAudited'
  BY <1>1 DEF IInv, PublishedAreAudited
<1>5. webhooks' = webhooks /\ sessions' = sessions
  BY DEF storeVars, providerVars
<1> QED BY <1>2, <1>3, <1>4, <1>5, HandlerStep

LEMMA PublishStartedInv == ASSUME IInv, NEW c \in Call, PublishStarted(c) PROVE IInv'
<1> DEFINE e == entry("VerificationStarted", held[c].id, "started", c)
<1>1. /\ c \in StartCall
      /\ Holds(c, SessionOf[c], held[c].session.providerRef)
      /\ held[c].session.status = "PENDING"
      /\ \E j \in DOMAIN audit : audit[j] = e
  BY DEF IInv, HandlersOK, HandlerOK, PublishStarted, At, WithPending
<1>2. e \in Event
  BY <1>1, EntryType DEF Holds
<1>3. /\ step' \in [Call -> Step]
      /\ step'[c] = "returnStarted"
      /\ \A d \in Call : d # c => step'[d] = step[d]
  BY GotoFacts DEF PublishStarted, Step
<1>4. held' = held /\ inquiries' = inquiries
  BY DEF PublishStarted, providerVars
<1>5. HandlerOK(c)'
  BY <1>1, <1>3, <1>4
  DEF HandlerOK, Holds, BeforeSession, WithInitiated, WithPending, WithFound
<1>6. /\ published' = Append(published, e) /\ IdemStep(c) /\ ActsOn(c)
      /\ held' \in [Call -> Held]
      /\ UNCHANGED <<storeVars, audit, providerVars, faults>>
  BY <1>3, <1>4, KeepHeld DEF PublishStarted, IdemStep, ActsOn
<1> QED BY <1>1, <1>2, <1>3, <1>5, <1>6, PublishStep

LEMMA PublishVerdictInv == ASSUME IInv, NEW c \in Call, PublishVerdict(c) PROVE IInv'
<1>1. /\ c \in CompleteCall /\ webhooks[KeyOf[c]] # NotSent
      /\ Holds(c, held[c].id, refOf(c))
      /\ \E j \in DOMAIN audit : audit[j] = verdictEntry(c)
  BY DEF IInv, HandlersOK, HandlerOK, PublishVerdict, At, WithFound
<1>2. verdictEntry(c) \in Event
  BY <1>1, VerdictEntryType DEF IInv, Holds
<1>3. /\ step' \in [Call -> Step]
      /\ step'[c] = "returnCompleted"
      /\ \A d \in Call : d # c => step'[d] = step[d]
  BY GotoFacts DEF PublishVerdict, Step
<1>4. held' = held /\ inquiries' = inquiries /\ webhooks' = webhooks
  BY DEF PublishVerdict, providerVars
<1>5. HandlerOK(c)'
  BY <1>1, <1>3, <1>4
  DEF HandlerOK, Holds, refOf, BeforeSession, WithInitiated, WithPending, WithFound
<1>6. /\ published' = Append(published, verdictEntry(c)) /\ IdemStep(c) /\ ActsOn(c)
      /\ held' \in [Call -> Held]
      /\ UNCHANGED <<storeVars, audit, providerVars, faults>>
  BY <1>3, <1>4, KeepHeld DEF PublishVerdict, IdemStep, ActsOn
<1> QED BY <1>1, <1>2, <1>3, <1>5, <1>6, PublishStep

\* The provider sends a delivery for an inquiry it opened.
LEMMA SendWebhookInv ==
    ASSUME IInv, NEW d \in Delivery, NEW ref \in DOMAIN inquiries, NEW verdict \in Verdict,
           SendWebhook(d, ref, verdict)
    PROVE  IInv'
<1> DEFINE w == [inquiry |-> ref, verdict |-> verdict]
<1>1. /\ w \in Webhook /\ w.inquiry = ref /\ w.verdict = verdict
      /\ webhooks' = [webhooks EXCEPT ![d] = w]
  BY DEF SendWebhook, Webhook, IInv, TypeOK
<1> HIDE DEF w
<1>2. /\ webhooks' \in [Delivery -> Webhook] /\ webhooks'[d] = w
      /\ \A x \in Delivery : x # d => webhooks'[x] = webhooks[x]
  BY <1>1 DEF IInv, TypeOK
<1>3. inquiries' = inquiries
  BY DEF SendWebhook
<1>4. TypeOK'
  <2>1. Idem!TypeOK'
    BY DEF SendWebhook, IInv, TypeOK, Idem!TypeOK, idemVars
  <2> QED BY <1>2, <2>1
          DEF SendWebhook, IInv, TypeOK, handlerVars, storeVars, logVars
<1>5. Grows
  BY <1>2 DEF Grows, SendWebhook, logVars
<1>6. SentOK'
  BY <1>1, <1>2, <1>3 DEF IInv, SentOK
<1>7. StoredOK' /\ PublishedAreAudited'
  BY <1>5, AllStoredPersist, PublishedPersist DEF IInv, SendWebhook, storeVars, logVars
<1>8. HandlersOK'
  BY <1>5, AllHandlersPersist DEF IInv, SendWebhook
<1> QED BY <1>4, <1>6, <1>7, <1>8 DEF IInv

LEMMA StutterInv == ASSUME IInv, UNCHANGED vars PROVE IInv'
<1>1. Grows
  BY NothingTakenBack DEF vars, logVars, providerVars
<1>2. TypeOK'
  BY DEF vars, idemVars, handlerVars, storeVars, logVars, providerVars,
         IInv, TypeOK, Idem!TypeOK
<1>3. SentOK' /\ StoredOK' /\ PublishedAreAudited'
  BY <1>1, SentPersists, AllStoredPersist, PublishedPersist
  DEF IInv, vars, storeVars, logVars, providerVars
<1>4. HandlersOK'
  BY <1>1, AllHandlersPersist DEF IInv, vars
<1> QED BY <1>2, <1>3, <1>4 DEF IInv

LEMMA NextInv == IInv /\ [Next]_vars => IInv'
<1> SUFFICES ASSUME IInv, [Next]_vars PROVE IInv'
  OBVIOUS
<1>1. ASSUME NEW c \in Call, Enter(c) \/ Repeat(c) \/ PortRejects(c)
      PROVE  IInv'
  BY <1>1, EnterInv, RejectionsInv
<1>2. ASSUME NEW c \in StartCall, StartHandler(c) \/ ProviderRejects(c)
      PROVE  IInv'
  BY <1>2, CallFacts, RejectionsInv, GetIdentityInv, SaveIdentityInv, SaveInitiatedInv,
     StartInquiryInv, AuditProviderErrorInv, SavePendingInv, AuditStartedInv,
     PublishStartedInv, ReturnsInv, ProviderRejectsInv DEF StartHandler
<1>3. ASSUME NEW c \in CompleteCall, CompleteHandler(c)
      PROVE  IInv'
  BY <1>3, CallFacts, RejectionsInv, FindSessionInv, SaveCompletedInv, AuditVerdictInv,
     PublishVerdictInv, ReturnsInv DEF CompleteHandler
<1>4. ASSUME NEW d \in Delivery, NEW ref \in DOMAIN inquiries, NEW verdict \in Verdict,
             SendWebhook(d, ref, verdict)
      PROVE  IInv'
  BY <1>4, SendWebhookInv
<1>5. CASE Tick
  BY <1>5, TickInv
<1>6. CASE UNCHANGED vars
  BY <1>6, StutterInv
<1> QED BY <1>1, <1>2, <1>3, <1>4, <1>5, <1>6 DEF Next

-----------------------------------------------------------------------------
(* What the provider is asked: the checks a start request has passed, and    *)
(* the rows it has stored, by the port call it is in.                        *)

Consenting == (BeforeSession \ {"rejectConsent", "rejectIdentity"})
                 \cup WithInitiated \cup WithPending
Subjected == {"saveInitiated"} \cup WithInitiated \cup WithPending
Stored(s) == sessions[s].status # "ABSENT"

Grounded(c) ==
    /\ step[c] \in Consenting => Consent[c]
    /\ step[c] \in Subjected => identityOf(c) \in identities
    /\ step[c] \in WithInitiated \cup WithPending => Stored(SessionOf[c])

GInv == IInv /\ InquiriesGrounded /\ \A c \in Call : Grounded(c)

\* No subject and no session is ever unstored.
Remembers == /\ identities \subseteq identities'
             /\ \A s \in Session : Stored(s) => Stored(s)'

LEMMA InquiriesGroundedPersist ==
    ASSUME IInv, InquiriesGrounded, Remembers, inquiries' = inquiries
    PROVE  InquiriesGrounded'
<1> SUFFICES ASSUME NEW i \in DOMAIN inquiries
             PROVE  /\ Consent[inquiries[i].call]
                    /\ identityOf(inquiries[i].call) \in identities'
                    /\ Stored(inquiries[i].session)'
  BY DEF InquiriesGrounded, Stored, identityOf
<1>1. inquiries[i] \in InquiryRecord
  BY DEF IInv, TypeOK
<1>2. inquiries[i].session \in Session
  BY <1>1 DEF InquiryRecord
<1> QED BY <1>2 DEF InquiriesGrounded, Remembers, Stored

LEMMA GroundedPersists ==
    ASSUME IInv, Remembers, NEW d \in Call, Grounded(d), step'[d] = step[d]
    PROVE  Grounded(d)'
<1>1. step[d] \in WithInitiated \cup WithPending => SessionOf[d] \in Session
  BY CallFacts DEF IInv, HandlersOK, HandlerOK
<1> QED BY <1>1 DEF Grounded, Remembers, identityOf, Stored

\* A step of one handler that asks the provider nothing.
LEMMA GroundedStep ==
    ASSUME GInv, NEW c \in Call, \A d \in Call : d # c => step'[d] = step[d],
           Remembers, inquiries' = inquiries, Grounded(c)'
    PROVE  (InquiriesGrounded /\ \A d \in Call : Grounded(d))'
<1>1. \A d \in Call : Grounded(d)'
  BY GroundedPersists DEF GInv
<1> QED BY <1>1, InquiriesGroundedPersist DEF GInv

\* Nothing that the provider was asked about changes.
LEMMA SameGround ==
    ASSUME step' = step, identities' = identities, sessions' = sessions,
           inquiries' = inquiries, GInv
    PROVE  (InquiriesGrounded /\ \A d \in Call : Grounded(d))'
BY DEF GInv, InquiriesGrounded, Grounded, Stored, identityOf

\* A handler that ends, or moves on to a call for which it needs no more than
\* it needed for the last.
LEMMA EasyStep ==
    ASSUME GInv, NEW c \in Call, NEW s \in Step, Goto(c, s),
           Remembers, inquiries' = inquiries,
           s \in Consenting => step[c] \in Consenting,
           s \in Subjected => step[c] \in Subjected,
           s \in WithInitiated \cup WithPending => step[c] \in WithInitiated \cup WithPending
    PROVE  (InquiriesGrounded /\ \A d \in Call : Grounded(d))'
<1>1. /\ step'[c] = s
      /\ \A d \in Call : d # c => step'[d] = step[d]
  BY GotoFacts DEF GInv
<1>2. step[c] \in WithInitiated \cup WithPending => SessionOf[c] \in Session
  BY CallFacts DEF GInv, IInv, HandlersOK, HandlerOK
<1>3. Grounded(c)'
  BY <1>1, <1>2 DEF GInv, Grounded, Remembers, identityOf, Stored
<1> QED BY <1>1, <1>3, GroundedStep

LEMMA StoresKept ==
    ASSUME UNCHANGED storeVars
    PROVE  Remembers
BY DEF storeVars, Remembers, Stored

LEMMA LeaveGround ==
    ASSUME GInv, NEW c \in Call, Leave(c), Remembers, inquiries' = inquiries
    PROVE  (InquiriesGrounded /\ \A d \in Call : Grounded(d))'
BY EasyStep DEF Leave, Goto, Step, Consenting, Subjected, BeforeSession, WithInitiated,
   WithPending

\* Saving a session that has a status stores it, and unstores none.
LEMMA SaveRemembers ==
    ASSUME IInv, NEW s \in Session, NEW session \in SessionRecord, Save(s, session),
           session.status # "ABSENT", identities' = identities
    PROVE  Remembers /\ Stored(s)'
BY DEF IInv, TypeOK, Save, Remembers, Stored

LEMMA ExecuteGround ==
    ASSUME GInv, NEW c \in Call, Execute(c)
    PROVE  (InquiriesGrounded /\ \A d \in Call : Grounded(d))'
<1>1. /\ firstStep(c) \in BeforeSession \cup {"findSession"}
      /\ firstStep(c) # "saveInitiated"
      /\ firstStep(c) \in {"getIdentity", "saveIdentity"} => Consent[c]
  BY DEF firstStep, BeforeSession
<1>2. firstStep(c) \in Step
  BY <1>1 DEF BeforeSession, Step, PortStep, StartStep, CompleteStep
<1>3. step'[c] = firstStep(c) /\ \A d \in Call : d # c => step'[d] = step[d]
  BY <1>2, GotoFacts DEF GInv, Execute
<1>4. Grounded(c)'
  BY <1>1, <1>3 DEF Grounded, Consenting, Subjected, BeforeSession, WithInitiated, WithPending
<1>5. Remembers /\ inquiries' = inquiries
  BY StoresKept DEF Execute, providerVars
<1> QED BY <1>3, <1>4, <1>5, GroundedStep

LEMMA QuietGround ==
    ASSUME GInv, UNCHANGED <<step, storeVars, inquiries>>
    PROVE  (InquiriesGrounded /\ \A d \in Call : Grounded(d))'
BY SameGround DEF storeVars

\* Requests that enter, are repeated, or end.
LEMMA EnterGround ==
    ASSUME GInv, NEW c \in Call, Enter(c) \/ Repeat(c)
    PROVE  (InquiriesGrounded /\ \A d \in Call : Grounded(d))'
<1>1. CASE Execute(c)
  BY <1>1, ExecuteGround
<1>2. CASE ReplayAnswer(c) \/ JoinExecution(c) \/ Repeat(c)
  BY <1>2, QuietGround DEF ReplayAnswer, JoinExecution, Repeat, handlerVars, providerVars
<1> QED BY <1>1, <1>2 DEF Enter

LEMMA EndGround ==
    ASSUME GInv, NEW c \in Call,
           \/ RejectWithoutConsent(c) \/ RejectWithoutIdentityId(c) \/ RejectUnknownSession(c)
           \/ ReturnStarted(c) \/ ReturnApplied(c) \/ ReturnCompleted(c)
           \/ AuditProviderError(c) \/ PortRejects(c)
    PROVE  (InquiriesGrounded /\ \A d \in Call : Grounded(d))'
<1>1. Leave(c) /\ UNCHANGED <<storeVars, inquiries>>
  BY DEF RejectWithoutConsent, RejectWithoutIdentityId, RejectUnknownSession,
         ReturnStarted, ReturnApplied, ReturnCompleted, AuditProviderError, PortRejects,
         Throw, Return, providerVars
<1> QED BY <1>1, StoresKept, LeaveGround

\* The steps that move a handler on and store nothing.
LEMMA MoveGround ==
    ASSUME GInv, NEW c \in Call,
           \/ AuditStarted(c) \/ PublishStarted(c) \/ ProviderRejects(c)
           \/ FindSession(c) \/ AuditVerdict(c) \/ PublishVerdict(c)
    PROVE  (InquiriesGrounded /\ \A d \in Call : Grounded(d))'
<1>1. UNCHANGED <<storeVars, inquiries>>
  BY DEF AuditStarted, PublishStarted, ProviderRejects, FindSession, AuditVerdict,
         PublishVerdict, providerVars
<1>2. Remembers
  BY <1>1, StoresKept
<1>3. CASE AuditStarted(c) \/ PublishStarted(c) \/ ProviderRejects(c)
  <2>1. PICK s \in {"publishStarted", "returnStarted", "auditProviderError"} :
          Goto(c, s) /\ step[c] \in WithInitiated \cup WithPending
    BY <1>3 DEF AuditStarted, PublishStarted, ProviderRejects, At, WithInitiated, WithPending
  <2>2. /\ s \in Step
        /\ step[c] \in Consenting /\ step[c] \in Subjected
    BY <2>1 DEF Step, PortStep, StartStep, Consenting, Subjected
  <2> QED BY <1>1, <1>2, <2>1, <2>2, EasyStep
<1>4. CASE FindSession(c) \/ AuditVerdict(c) \/ PublishVerdict(c)
  <2>1. PICK s \in WithFound : Goto(c, s)
    BY <1>4 DEF FindSession, AuditVerdict, PublishVerdict, WithFound
  <2>2. /\ s \in Step /\ s \notin Consenting /\ s \notin Subjected
        /\ s \notin WithInitiated \cup WithPending
    BY DEF Step, PortStep, CompleteStep, Consenting, Subjected, BeforeSession,
           WithInitiated, WithPending, WithFound
  <2> QED BY <1>1, <1>2, <2>1, <2>2, EasyStep
<1> QED BY <1>3, <1>4

LEMMA GetIdentityGround ==
    ASSUME GInv, NEW c \in Call, GetIdentity(c)
    PROVE  (InquiriesGrounded /\ \A d \in Call : Grounded(d))'
<1>1. /\ c \in StartCall /\ IdentityId[c] \in Identity /\ IdentityId[c] # NoId
      /\ step[c] = "getIdentity" /\ Consent[c]
  BY RequestsAssumption
  DEF GInv, IInv, HandlersOK, HandlerOK, Grounded, Consenting, GetIdentity, At, BeforeSession
<1>2. identityOf(c) = IdentityId[c]
  BY <1>1 DEF identityOf
<1>3. /\ step'[c] = (IF IdentityId[c] \in identities THEN "saveInitiated" ELSE "saveIdentity")
      /\ \A d \in Call : d # c => step'[d] = step[d]
  BY GotoFacts DEF GInv, GetIdentity, Step, PortStep, StartStep
<1>4. Remembers /\ inquiries' = inquiries /\ identities' = identities
  BY StoresKept DEF GetIdentity, providerVars, storeVars
<1>5. Grounded(c)'
  BY <1>1, <1>2, <1>3, <1>4
  DEF Grounded, Consenting, Subjected, BeforeSession, WithInitiated, WithPending, identityOf
<1> QED BY <1>3, <1>4, <1>5, GroundedStep

LEMMA SaveIdentityGround ==
    ASSUME GInv, NEW c \in Call, SaveIdentity(c)
    PROVE  (InquiriesGrounded /\ \A d \in Call : Grounded(d))'
<1>1. Consent[c]
  BY DEF GInv, Grounded, Consenting, SaveIdentity, At, BeforeSession
<1>2. /\ step'[c] = "saveInitiated"
      /\ \A d \in Call : d # c => step'[d] = step[d]
  BY GotoFacts DEF GInv, SaveIdentity, Step, PortStep, StartStep
<1>3. /\ inquiries' = inquiries
      /\ identities' = identities \cup {identityOf(c)}
      /\ sessions' = sessions
  BY DEF SaveIdentity, providerVars
<1>4. Remembers
  BY <1>3 DEF Remembers, Stored
<1>5. Grounded(c)'
  BY <1>1, <1>2, <1>3
  DEF Grounded, Consenting, Subjected, BeforeSession, WithInitiated, WithPending, identityOf
<1> QED BY <1>2, <1>3, <1>4, <1>5, GroundedStep

LEMMA SaveInitiatedGround ==
    ASSUME GInv, NEW c \in Call, SaveInitiated(c)
    PROVE  (InquiriesGrounded /\ \A d \in Call : Grounded(d))'
<1>1. /\ c \in StartCall /\ SessionOf[c] \in Session /\ identityOf(c) \in Identity
      /\ Consent[c] /\ identityOf(c) \in identities
  BY CallFacts DEF GInv, IInv, HandlersOK, HandlerOK, Grounded, Consenting, Subjected,
                   SaveInitiated, At, BeforeSession
<1>2. /\ create(identityOf(c)) \in SessionRecord
      /\ create(identityOf(c)).status # "ABSENT"
  BY <1>1, SessionTypes DEF create
<1>3. /\ inquiries' = inquiries /\ identities' = identities
      /\ Save(SessionOf[c], create(identityOf(c)))
  BY DEF SaveInitiated, providerVars
<1>4. Remembers /\ Stored(SessionOf[c])'
  BY <1>1, <1>2, <1>3, SaveRemembers DEF GInv
<1>5. /\ step'[c] = "startInquiry"
      /\ \A d \in Call : d # c => step'[d] = step[d]
  BY GotoFacts DEF GInv, SaveInitiated, Step, PortStep, StartStep
<1>6. Grounded(c)'
  BY <1>1, <1>3, <1>4, <1>5
  DEF Grounded, Consenting, Subjected, BeforeSession, WithInitiated, WithPending, identityOf,
      Stored
<1> QED BY <1>3, <1>4, <1>5, <1>6, GroundedStep

LEMMA SavePendingGround ==
    ASSUME GInv, NEW c \in Call, SavePending(c)
    PROVE  (InquiriesGrounded /\ \A d \in Call : Grounded(d))'
<1>1. /\ held[c].id \in Session /\ held[c].session.status = "PENDING"
      /\ step[c] \in WithPending
  BY DEF GInv, IInv, HandlersOK, HandlerOK, Holds, SavePending, At, WithPending
<1>2. held[c].session \in SessionRecord
  BY DEF GInv, IInv, TypeOK, Held
<1>3. /\ inquiries' = inquiries /\ identities' = identities
      /\ Save(held[c].id, held[c].session) /\ Goto(c, "auditStarted")
  BY DEF SavePending, providerVars
<1>4. Remembers
  BY <1>1, <1>2, <1>3, SaveRemembers DEF GInv
<1>5. step[c] \in Consenting /\ step[c] \in Subjected /\ "auditStarted" \in Step
  BY <1>1 DEF Consenting, Subjected, Step, PortStep, StartStep
<1> QED BY <1>1, <1>3, <1>4, <1>5, EasyStep

LEMMA SaveCompletedGround ==
    ASSUME GInv, NEW c \in Call, SaveCompleted(c)
    PROVE  (InquiriesGrounded /\ \A d \in Call : Grounded(d))'
<1> DEFINE updated == markCompleted(held[c].session, decision(c), refOf(c))
<1>1. /\ held[c].id \in Session /\ held[c].session \in SessionRecord
      /\ c \in CompleteCall /\ KeyOf[c] \in Delivery
  BY CallFacts DEF GInv, IInv, TypeOK, Held, HandlersOK, HandlerOK, Holds, SaveCompleted,
                   At, WithFound
<1>2. refOf(c) \in Nat /\ decision(c) \in {"PASS", "FAIL"}
  BY <1>1 DEF GInv, IInv, TypeOK, refOf, Webhook, decision
<1>3. updated \in SessionRecord /\ updated.status # "ABSENT"
  BY <1>1, <1>2, SessionTypes DEF markCompleted, statusAfter, SessionRecord
<1>4. /\ inquiries' = inquiries /\ identities' = identities
      /\ \/ Save(held[c].id, updated) /\ Goto(c, "auditVerdict")
         \/ sessions' = sessions /\ Leave(c)
  BY DEF SaveCompleted, Throw, providerVars
<1> HIDE DEF updated
<1>5. CASE Save(held[c].id, updated) /\ Goto(c, "auditVerdict")
  <2>1. Remembers
    BY <1>1, <1>3, <1>4, <1>5, SaveRemembers DEF GInv
  <2>2. /\ "auditVerdict" \in Step
        /\ "auditVerdict" \notin Consenting /\ "auditVerdict" \notin Subjected
        /\ "auditVerdict" \notin WithInitiated \cup WithPending
    BY DEF Step, PortStep, CompleteStep, Consenting, Subjected, BeforeSession,
           WithInitiated, WithPending
  <2> QED BY <1>4, <1>5, <2>1, <2>2, EasyStep
<1>6. CASE sessions' = sessions /\ Leave(c)
  BY <1>4, <1>6, LeaveGround, StoresKept DEF storeVars
<1> QED BY <1>4, <1>5, <1>6

\* The step that asks.
LEMMA StartInquiryGround ==
    ASSUME GInv, NEW c \in Call, StartInquiry(c)
    PROVE  (InquiriesGrounded /\ \A d \in Call : Grounded(d))'
<1> DEFINE inquiry == [session |-> held[c].id, call |-> c]
<1>1. /\ c \in StartCall /\ SessionOf[c] \in Session /\ held[c].id = SessionOf[c]
      /\ Consent[c] /\ identityOf(c) \in identities /\ Stored(SessionOf[c])
  BY CallFacts DEF GInv, IInv, HandlersOK, HandlerOK, Grounded, Consenting, Subjected,
                   StartInquiry, At, WithInitiated
<1>2. inquiry \in InquiryRecord
  BY <1>1 DEF InquiryRecord
<1>3. inquiries \in Seq(InquiryRecord) /\ inquiries' = Append(inquiries, inquiry)
  BY DEF GInv, IInv, TypeOK, StartInquiry
<1>4. inquiry.call = c /\ inquiry.session = SessionOf[c]
  BY <1>1
<1> HIDE DEF inquiry
<1>5. \A i \in DOMAIN inquiries' :
        \/ i \in DOMAIN inquiries /\ inquiries'[i] = inquiries[i]
        \/ inquiries'[i] = inquiry
  BY <1>2, <1>3
<1>6. identities' = identities /\ sessions' = sessions
  BY DEF StartInquiry, storeVars
<1>7. Remembers
  BY <1>6 DEF Remembers, Stored
<1>8. /\ step'[c] = "savePending"
      /\ \A d \in Call : d # c => step'[d] = step[d]
  BY GotoFacts DEF GInv, StartInquiry, Step, PortStep, StartStep
<1>9. Grounded(c)'
  BY <1>1, <1>6, <1>8 DEF Grounded, identityOf, Stored
<1>10. \A d \in Call : Grounded(d)'
  BY <1>7, <1>8, <1>9, GroundedPersists DEF GInv
<1>11. InquiriesGrounded'
  <2> SUFFICES ASSUME NEW i \in DOMAIN inquiries'
               PROVE  /\ Consent[inquiries'[i].call]
                      /\ identityOf(inquiries'[i].call) \in identities
                      /\ sessions[inquiries'[i].session].status # "ABSENT"
    BY <1>6 DEF InquiriesGrounded, identityOf
  <2>1. CASE i \in DOMAIN inquiries /\ inquiries'[i] = inquiries[i]
    BY <2>1 DEF GInv, InquiriesGrounded
  <2>2. CASE inquiries'[i] = inquiry
    BY <1>1, <1>4, <2>2 DEF Stored
  <2> QED BY <1>5, <2>1, <2>2
<1> QED BY <1>10, <1>11

LEMMA GroundInit == Init => GInv
<1> SUFFICES ASSUME Init PROVE InquiriesGrounded /\ \A c \in Call : Grounded(c)
  BY InitInv DEF GInv
<1>1. InquiriesGrounded
  BY DEF Init, InquiriesGrounded
<1>2. \A c \in Call : Grounded(c)
  BY DEF Init, Grounded, Consenting, Subjected, BeforeSession, WithInitiated, WithPending
<1> QED BY <1>1, <1>2

LEMMA GroundNext == GInv /\ [Next]_vars => GInv'
<1> SUFFICES ASSUME GInv, [Next]_vars
             PROVE  (InquiriesGrounded /\ \A d \in Call : Grounded(d))'
  BY NextInv DEF GInv
<1>1. ASSUME NEW c \in Call, Enter(c) \/ Repeat(c) \/ PortRejects(c)
      PROVE  (InquiriesGrounded /\ \A d \in Call : Grounded(d))'
  BY <1>1, EnterGround, EndGround
<1>2. ASSUME NEW c \in StartCall, StartHandler(c) \/ ProviderRejects(c)
      PROVE  (InquiriesGrounded /\ \A d \in Call : Grounded(d))'
  BY <1>2, CallFacts, EndGround, MoveGround, GetIdentityGround, SaveIdentityGround,
     SaveInitiatedGround, StartInquiryGround, SavePendingGround DEF StartHandler
<1>3. ASSUME NEW c \in CompleteCall, CompleteHandler(c)
      PROVE  (InquiriesGrounded /\ \A d \in Call : Grounded(d))'
  BY <1>3, CallFacts, EndGround, MoveGround, SaveCompletedGround DEF CompleteHandler
<1>4. ASSUME NEW d \in Delivery, NEW ref \in DOMAIN inquiries, NEW verdict \in Verdict,
             SendWebhook(d, ref, verdict)
      PROVE  (InquiriesGrounded /\ \A e \in Call : Grounded(e))'
  BY <1>4, QuietGround DEF SendWebhook, handlerVars
<1>5. CASE Tick \/ UNCHANGED vars
  BY <1>5, QuietGround DEF Tick, vars, handlerVars, providerVars
<1> QED BY <1>1, <1>2, <1>3, <1>4, <1>5 DEF Next

-----------------------------------------------------------------------------
(* One verdict per session.  The findings show what breaks the promise; this *)
(* is what is left to grant for it to hold, for any number of requests.      *)

\* A start request is not repeated after its window; the two port calls after
\* the session is stored as PENDING do not reject; the session of a request
\* belongs to one idempotency key; an inquiry has one delivery id.
Discipline ==
    /\ \A c \in StartCall : MaxClock < Ttl[c]
    /\ Fallible \cap {"auditStarted", "publishStarted"} = {}
    /\ \A c, d \in StartCall : SessionOf[c] = SessionOf[d] => KeyOf[c] = KeyOf[d]
    /\ OneDelivery

\* A key has one execution, and none inside its window; an invocation is in a
\* port call exactly while it executes.
Exclusive ==
    /\ Idem!OneExecutionPerKey
    /\ Idem!NoExecutionInsideWindow
    /\ now <= MaxClock
    /\ \A c \in Call : phase[c] = "running" <=> step[c] # "idle"

OneDeliveryEach ==
    \A d, e \in Delivery :
        webhooks[d] # NotSent /\ webhooks[d].inquiry = webhooks[e].inquiry => d = e

\* The start request of a session is past the last call that could fail: it is
\* about to answer, or has, and its answer is replayed from then on.
Committing == {"auditStarted", "publishStarted", "returnStarted"}
Lasting(k) == cache[k].expiresAt > MaxClock
Committed(s) == \E c \in StartCall :
    SessionOf[c] = s /\ (step[c] \in Committing \/ Lasting(KeyOf[c]))

\* The session has its inquiry; it has its verdict.
Open(s) == sessions[s].providerRef # NoRef
Decided(s) == sessions[s].status \in {"VERIFIED", "FAILED"}

SessionOK(s) ==
    /\ Open(s) => Committed(s) /\ (sessions[s].status = "PENDING" \/ Decided(s))
    /\ ~Open(s) => sessions[s].status \in {"ABSENT", "INITIATED"}

Unsaid(log, s) == verdictEntries(log, s) = {}

\* What the handlers rely on: the reference a session was opened with stays, a
\* session about to be completed is still PENDING, a verdict about to be logged
\* is stored and not logged yet.
Knows(c) ==
    /\ step[c] \in Committing =>
        sessions[SessionOf[c]].providerRef = held[c].session.providerRef
    /\ step[c] \in WithFound => sessions[held[c].id].providerRef = refOf(c)
    /\ step[c] = "saveCompleted" =>
        sessions[held[c].id].status = "PENDING" /\ held[c].session.status = "PENDING"
    /\ step[c] = "auditVerdict" => Decided(held[c].id) /\ Unsaid(audit, held[c].id)
    /\ step[c] = "publishVerdict" => Unsaid(published, held[c].id)

SaidIsDecided == \A s \in Session : ~Unsaid(audit, s) => Decided(s)

Routable(v) == /\ v.sessionId \in Session
               /\ v.ref # NoRef
               /\ sessions[v.sessionId].providerRef = v.ref

AnswersOK == /\ \A k \in Key : Idem!Live(k) => Routable(cache[k].value)
             /\ \A c \in Call : outcome[c].status = "fulfilled" => Routable(outcome[c].value)

DInv == /\ GInv /\ Discipline
        /\ Exclusive /\ OneDeliveryEach
        /\ \A s \in Session : SessionOK(s)
        /\ \A c \in Call : Knows(c)
        /\ SaidIsDecided /\ AnswersOK /\ OneVerdictPerSession

\* Two executions of one key are one execution.
LEMMA SoleExecution ==
    ASSUME Exclusive, NEW c \in Call, NEW d \in Call, KeyOf[c] = KeyOf[d],
           step[c] # "idle", step[d] # "idle"
    PROVE  c = d
BY DEF Exclusive, Idem!OneExecutionPerKey

\* A key whose answer lasts is not executed.
LEMMA LastingIsQuiet ==
    ASSUME GInv, Exclusive, NEW c \in Call, Lasting(KeyOf[c])
    PROVE  /\ step[c] = "idle"
           /\ inflight[KeyOf[c]] = NoCall
<1>1. KeyOf[c] \in Key /\ now \in Nat /\ cache[KeyOf[c]].expiresAt \in Int /\ MaxClock \in Nat
  BY CallFacts, BoundsAssumption DEF GInv, IInv, TypeOK, Idem!TypeOK, Idem!Entry
<1>2. Idem!Live(KeyOf[c])
  BY <1>1 DEF Lasting, Idem!Live, Exclusive
<1>3. inflight[KeyOf[c]] = NoCall
  BY <1>1, <1>2 DEF Exclusive, Idem!NoExecutionInsideWindow
<1> QED BY <1>3, CallFacts DEF Exclusive, Idem!OneExecutionPerKey

\* A start request before its last fallible call works on a session nobody has
\* opened yet.
BeforeCommitting == BeforeSession \cup WithInitiated \cup {"savePending"}

LEMMA NotYetOpen ==
    ASSUME DInv, NEW c \in StartCall, step[c] \in BeforeCommitting
    PROVE  ~Open(SessionOf[c])
<1> SUFFICES ASSUME Open(SessionOf[c]) PROVE FALSE
  OBVIOUS
<1>1. c \in Call /\ SessionOf[c] \in Session
  BY CallFacts
<1>2. PICK d \in StartCall :
        SessionOf[d] = SessionOf[c] /\ (step[d] \in Committing \/ Lasting(KeyOf[d]))
  BY <1>1 DEF DInv, SessionOK, Committed
<1>3. d \in Call /\ KeyOf[d] = KeyOf[c]
  BY <1>2, CallFacts DEF DInv, Discipline
<1>4. step[c] # "idle"
  BY DEF BeforeCommitting, BeforeSession, WithInitiated
<1>5. CASE step[d] \in Committing
  <2>1. step[d] # "idle"
    BY <1>5 DEF Committing
  <2>2. c = d
    BY <1>1, <1>3, <1>4, <2>1, SoleExecution DEF DInv
  <2> QED BY <1>5, <2>2 DEF Committing, BeforeCommitting, BeforeSession, WithInitiated
<1>6. CASE Lasting(KeyOf[d])
  BY <1>1, <1>3, <1>4, <1>6, LastingIsQuiet DEF DInv
<1> QED BY <1>2, <1>5, <1>6

\* The webhook of a session being handled is handled once at a time, and the
\* session it is about is open.
LEMMA FoundIsOpen ==
    ASSUME DInv, NEW c \in Call, step[c] \in WithFound
    PROVE  /\ c \in CompleteCall /\ KeyOf[c] \in Delivery /\ webhooks[KeyOf[c]] # NotSent
           /\ held[c].id \in Session
           /\ held[c].session.providerRef = refOf(c)
           /\ sessions[held[c].id].providerRef = refOf(c)
           /\ Open(held[c].id)
<1>1. HandlerOK(c) /\ Knows(c) /\ inquiries \in Seq(InquiryRecord)
  BY DEF DInv, GInv, IInv, HandlersOK, TypeOK
<1>2. Holds(c, held[c].id, refOf(c)) /\ refOf(c) # NoRef
  BY <1>1 DEF HandlerOK, Holds, NoRef
<1> QED BY <1>1, <1>2, CallFacts DEF HandlerOK, Holds, Knows, Open

LEMMA SoleWebhook ==
    ASSUME DInv, NEW c \in Call, NEW d \in Call,
           step[c] \in WithFound, step[d] \in WithFound, held[c].id = held[d].id
    PROVE  c = d
<1>1. /\ refOf(c) = refOf(d)
      /\ KeyOf[c] \in Delivery /\ KeyOf[d] \in Delivery /\ webhooks[KeyOf[c]] # NotSent
  BY FoundIsOpen
<1>2. KeyOf[c] = KeyOf[d]
  BY <1>1 DEF DInv, OneDeliveryEach, refOf
<1>3. step[c] # "idle" /\ step[d] # "idle"
  BY DEF WithFound
<1> QED BY <1>2, <1>3, SoleExecution DEF DInv

\* What one step leaves to the handlers that do not take it: the references and
\* the verdicts stored, the session another webhook is about to complete, and
\* that a verdict another is about to log is not logged.
RefsKept ==
    \A s \in Session : Open(s) => sessions'[s].providerRef = sessions[s].providerRef

Kept(c) ==
    /\ RefsKept
    /\ \A s \in Session : Decided(s) => Decided(s)'
    /\ \A d \in Call : d # c =>
        /\ step[d] = "saveCompleted" => sessions'[held[d].id] = sessions[held[d].id]
        /\ step[d] = "auditVerdict" /\ Unsaid(audit, held[d].id) => Unsaid(audit', held[d].id)
        /\ step[d] = "publishVerdict" /\ Unsaid(published, held[d].id) =>
            Unsaid(published', held[d].id)

LEMMA KnowsPersists ==
    ASSUME DInv, NEW c \in Call, Kept(c), webhooks' = webhooks,
           NEW d \in Call, d # c, step'[d] = step[d], held'[d] = held[d]
    PROVE  Knows(d)'
<1>1. Knows(d) /\ HandlerOK(d)
  BY DEF DInv, GInv, IInv, HandlersOK
<1>2. step[d] \in Committing =>
        sessions'[SessionOf[d]].providerRef = held[d].session.providerRef
  <2> SUFFICES ASSUME step[d] \in Committing
               PROVE  sessions'[SessionOf[d]].providerRef = held[d].session.providerRef
    OBVIOUS
  <2>1. Holds(d, SessionOf[d], held[d].session.providerRef) /\ inquiries \in Seq(InquiryRecord)
    BY <1>1 DEF HandlerOK, Committing, WithPending, DInv, GInv, IInv, TypeOK
  <2>2. held[d].session.providerRef # NoRef /\ SessionOf[d] \in Session
    BY <2>1 DEF Holds, NoRef
  <2>3. sessions[SessionOf[d]].providerRef = held[d].session.providerRef
    BY <1>1 DEF Knows
  <2> QED BY <2>2, <2>3 DEF Kept, RefsKept, Open
<1>3. step[d] \in WithFound =>
        /\ sessions'[held[d].id].providerRef = refOf(d)
        /\ held[d].id \in Session
  BY FoundIsOpen DEF Kept, RefsKept
<1>4. refOf(d)' = refOf(d)
  BY DEF refOf
<1>5. step[d] = "saveCompleted" =>
        sessions'[held[d].id].status = "PENDING" /\ held[d].session.status = "PENDING"
  BY <1>1 DEF Knows, Kept
<1>6. step[d] = "auditVerdict" => Decided(held[d].id)' /\ Unsaid(audit', held[d].id)
  <2> SUFFICES ASSUME step[d] = "auditVerdict"
               PROVE  Decided(held[d].id)' /\ Unsaid(audit', held[d].id)
    OBVIOUS
  <2>1. held[d].id \in Session
    BY <1>3 DEF WithFound
  <2>2. Decided(held[d].id) /\ Unsaid(audit, held[d].id)
    BY <1>1 DEF Knows
  <2>3. Unsaid(audit', held[d].id)
    BY <2>2 DEF Kept
  <2>4. sessions'[held[d].id].status \in {"VERIFIED", "FAILED"}
    BY <2>1, <2>2 DEF Kept, Decided
  <2> QED BY <2>3, <2>4 DEF Decided
<1>7. step[d] = "publishVerdict" => Unsaid(published', held[d].id)
  BY <1>1 DEF Knows, Kept
<1>8. step[d] = "auditVerdict" =>
        sessions'[held[d].id].status \in {"VERIFIED", "FAILED"} /\ Unsaid(audit', held[d].id)
  BY <1>6 DEF Decided
<1> QED BY <1>2, <1>3, <1>4, <1>5, <1>7, <1>8 DEF Knows, Decided, Unsaid, verdictEntries

\* Mutual exclusion of the executions of a key, step by step of the store.
LEMMA ExclusiveMove ==
    ASSUME DInv, NEW c \in Call, UNCHANGED idemVars, ActsOn(c),
           step[c] # "idle", step'[c] # "idle"
    PROVE  Exclusive'
<1>1. \A d \in Call : step'[d] # "idle" <=> step[d] # "idle"
  BY DEF ActsOn
<1> QED BY <1>1 DEF DInv, Exclusive, idemVars, Idem!OneExecutionPerKey,
                    Idem!NoExecutionInsideWindow, Idem!Live

LEMMA ExclusiveBegin ==
    ASSUME DInv, NEW c \in Call, Idem!Begin(c), ActsOn(c), step'[c] # "idle"
    PROVE  Exclusive'
<1>1. /\ phase \in [Call -> {"idle", "running", "joined", "done"}]
      /\ inflight \in [Key -> Call \cup {NoCall}]
      /\ KeyOf \in [Call -> Key]
  BY RequestsAssumption DEF DInv, GInv, IInv, TypeOK, Idem!TypeOK
<1>2. \A d \in Call : phase'[d] = "running" <=> phase[d] = "running" \/ d = c
  BY <1>1 DEF Idem!Begin
<1>3. \A d \in Call : phase'[d] = "running" <=> step'[d] # "idle"
  BY <1>2 DEF DInv, Exclusive, ActsOn
<1>4. Idem!OneExecutionPerKey'
  BY <1>1, <1>2, CallFacts DEF Idem!Begin, Idem!OneExecutionPerKey, DInv, Exclusive
<1>5. Idem!NoExecutionInsideWindow'
  BY <1>1 DEF Idem!Begin, Idem!NoExecutionInsideWindow, Idem!Live, DInv, Exclusive
<1> QED BY <1>3, <1>4, <1>5 DEF Exclusive, DInv, Idem!Begin

LEMMA ExclusiveSettle ==
    ASSUME DInv, NEW c \in Call, NEW o, Idem!SettlePromise(c, o), now' = now,
           \A k \in Key : k # KeyOf[c] => cache'[k] = cache[k],
           step'[c] = "idle", ActsOn(c)
    PROVE  Exclusive'
<1>1. /\ phase \in [Call -> {"idle", "running", "joined", "done"}]
      /\ inflight \in [Key -> Call \cup {NoCall}]
      /\ KeyOf \in [Call -> Key]
  BY RequestsAssumption DEF DInv, GInv, IInv, TypeOK, Idem!TypeOK
<1>2. \A d \in Call : phase'[d] = "running" <=> phase[d] = "running" /\ d # c
  BY <1>1 DEF Idem!SettlePromise, Idem!Awaiting
<1>3. \A d \in Call : phase'[d] = "running" <=> step'[d] # "idle"
  BY <1>2 DEF DInv, Exclusive, ActsOn
<1>4. Idem!OneExecutionPerKey'
  BY <1>1, <1>2, CallFacts DEF Idem!SettlePromise, Idem!OneExecutionPerKey, DInv, Exclusive
<1>5. Idem!NoExecutionInsideWindow'
  BY <1>1 DEF Idem!SettlePromise, Idem!NoExecutionInsideWindow, Idem!Live, DInv, Exclusive
<1> QED BY <1>3, <1>4, <1>5 DEF Exclusive, DInv

\* Invocations that execute nothing enter and leave, and time passes.
LEMMA ExclusiveOutside ==
    ASSUME DInv, step' = step, inflight' = inflight, cache' = cache,
           now' \in {now, now + 1}, now' <= MaxClock,
           \A d \in Call : phase'[d] = "running" <=> phase[d] = "running"
    PROVE  Exclusive'
<1>1. KeyOf \in [Call -> Key] /\ now \in Nat /\ \A k \in Key : cache[k].expiresAt \in Int
  BY RequestsAssumption DEF DInv, GInv, IInv, TypeOK, Idem!TypeOK, Idem!Entry
<1>2. \A k \in Key : Idem!Live(k)' => Idem!Live(k)
  BY <1>1 DEF Idem!Live
<1>3. Idem!NoExecutionInsideWindow'
  BY <1>2 DEF Idem!NoExecutionInsideWindow, DInv, Exclusive
<1>4. Idem!OneExecutionPerKey'
  BY <1>1 DEF Idem!OneExecutionPerKey, DInv, Exclusive
<1> QED BY <1>3, <1>4 DEF DInv, Exclusive

\* A session once opened stays answered for: its request is past what could
\* fail, or its answer lasts.
LEMMA CommittedPersists ==
    ASSUME DInv, NEW s \in Session, Committed(s),
           \A k \in Key : Lasting(k) => Lasting(k)',
           \A c \in StartCall : step[c] \in Committing =>
              step'[c] \in Committing \/ Lasting(KeyOf[c])'
    PROVE  Committed(s)'
<1>1. PICK c \in StartCall :
        SessionOf[c] = s /\ (step[c] \in Committing \/ Lasting(KeyOf[c]))
  BY DEF Committed
<1>2. KeyOf[c] \in Key
  BY CallFacts
<1>3. step'[c] \in Committing \/ Lasting(KeyOf[c])'
  BY <1>1, <1>2
<1> QED BY <1>1, <1>3 DEF Committed

\* What a log says after an entry is appended.
LEMMA SaidAfter ==
    ASSUME NEW log \in Seq(Event), NEW e \in Event, NEW s
    PROVE  verdictEntries(Append(log, e), s) =
              verdictEntries(log, s) \cup
              (IF e.session = s /\ e.payload \in Verdict THEN {Len(log) + 1} ELSE {})
<1>1. /\ DOMAIN Append(log, e) = (DOMAIN log) \cup {Len(log) + 1}
      /\ Append(log, e)[Len(log) + 1] = e
      /\ \A i \in DOMAIN log : Append(log, e)[i] = log[i]
      /\ Len(log) + 1 \notin DOMAIN log
  OBVIOUS
<1> QED BY <1>1 DEF verdictEntries

LEMMA NoVerdictAdded ==
    ASSUME NEW log \in Seq(Event), NEW e \in Event, e.payload \notin Verdict
    PROVE  \A s : verdictEntries(Append(log, e), s) = verdictEntries(log, s)
<1> SUFFICES ASSUME NEW s
             PROVE  verdictEntries(Append(log, e), s) = verdictEntries(log, s)
  OBVIOUS
<1>1. verdictEntries(Append(log, e), s) =
         verdictEntries(log, s) \cup
         (IF e.session = s /\ e.payload \in Verdict THEN {Len(log) + 1} ELSE {})
  BY SaidAfter
<1> QED BY <1>1

\* The logs say of every session what they said.
SameSaid == \A s \in Session : /\ verdictEntries(audit', s) = verdictEntries(audit, s)
                               /\ verdictEntries(published', s) = verdictEntries(published, s)

LEMMA SaidPersists ==
    ASSUME DInv, SameSaid, \A s \in Session : Decided(s) => Decided(s)'
    PROVE  SaidIsDecided' /\ OneVerdictPerSession'
<1>1. SaidIsDecided'
  BY DEF DInv, SameSaid, SaidIsDecided, Unsaid
<1>2. OneVerdictPerSession'
  BY DEF DInv, SameSaid, OneVerdictPerSession
<1> QED BY <1>1, <1>2

\* Answers keep leading to their sessions.
LEMMA RoutableKept ==
    ASSUME RefsKept, NEW v, Routable(v)
    PROVE  Routable(v)'
BY DEF RefsKept, Routable, Open

LEMMA AnswersPersist ==
    ASSUME DInv, RefsKept, cache' = cache, now' \in {now, now + 1}, outcome' = outcome
    PROVE  AnswersOK'
<1>1. now \in Nat /\ \A k \in Key : cache[k].expiresAt \in Int
  BY DEF DInv, GInv, IInv, TypeOK, Idem!TypeOK, Idem!Entry
<1>2. \A k \in Key : Idem!Live(k)' => Idem!Live(k)
  BY <1>1 DEF Idem!Live
<1>3. \A k \in Key : Idem!Live(k)' => Routable(cache[k].value)'
  BY <1>2, RoutableKept DEF DInv, AnswersOK
<1>4. \A c \in Call : outcome[c].status = "fulfilled" => Routable(outcome[c].value)'
  BY RoutableKept DEF DInv, AnswersOK
<1> QED BY <1>3, <1>4 DEF AnswersOK, Routable

\* The shape of every step's proof: one handler moved, and left to the others
\* what they rely on.
LEMMA DisciplinedStep ==
    ASSUME DInv, [Next]_vars, NEW c \in Call, ActsOn(c), webhooks' = webhooks,
           Exclusive', Kept(c),
           \A k \in Key : Lasting(k) => Lasting(k)',
           step[c] \in Committing => step'[c] \in Committing \/ Lasting(KeyOf[c])',
           \A s \in Session : sessions'[s] = sessions[s] \/ SessionOK(s)',
           Knows(c)', SaidIsDecided', AnswersOK', OneVerdictPerSession'
    PROVE  DInv'
<1>1. GInv' /\ Discipline'
  BY GroundNext DEF DInv, Discipline
<1>2. \A d \in StartCall : step[d] \in Committing =>
        step'[d] \in Committing \/ Lasting(KeyOf[d])'
  <2> SUFFICES ASSUME NEW d \in StartCall, step[d] \in Committing, d # c
               PROVE  step'[d] \in Committing
    OBVIOUS
  <2> QED BY CallFacts DEF ActsOn
<1>3. ASSUME NEW s \in Session
      PROVE  SessionOK(s)'
  <2> SUFFICES ASSUME sessions'[s] = sessions[s]
               PROVE  SessionOK(s)'
    OBVIOUS
  <2>1. SessionOK(s)
    BY DEF DInv
  <2>2. Committed(s) => Committed(s)'
    BY <1>2, CommittedPersists
  <2> QED BY <2>1, <2>2 DEF SessionOK, Open, Decided
<1>4. \A d \in Call : Knows(d)'
  BY KnowsPersists DEF ActsOn
<1>5. OneDeliveryEach'
  BY DEF DInv, OneDeliveryEach
<1> QED BY <1>1, <1>3, <1>4, <1>5 DEF DInv

\* A handler that goes on to its next port call, or to its answer.
LEMMA MoveStep ==
    ASSUME DInv, [Next]_vars, NEW c \in Call, ActsOn(c), webhooks' = webhooks,
           UNCHANGED idemVars, step[c] # "idle", step'[c] # "idle",
           step[c] \in Committing => step'[c] \in Committing,
           Kept(c),
           \A s \in Session : sessions'[s] = sessions[s] \/ SessionOK(s)',
           Knows(c)', SaidIsDecided', OneVerdictPerSession'
    PROVE  DInv'
<1>1. Exclusive'
  BY ExclusiveMove
<1>2. \A k \in Key : Lasting(k) => Lasting(k)'
  BY DEF Lasting, idemVars
<1>3. AnswersOK'
  BY AnswersPersist DEF Kept, idemVars
<1> QED BY <1>1, <1>2, <1>3, DisciplinedStep

\* What is stored stays, and the logs say what they said: the others rely on
\* no more.
LEMMA QuietKept ==
    ASSUME sessions' = sessions, SameSaid, DInv, NEW c \in Call
    PROVE  /\ Kept(c)
           /\ SaidIsDecided' /\ OneVerdictPerSession'
<1>1. \A s \in Session : Decided(s) => Decided(s)'
  BY DEF Decided
<1>2. \A d \in Call : step[d] \in WithFound => held[d].id \in Session
  BY FoundIsOpen
<1>3. Kept(c)
  BY <1>1, <1>2 DEF Kept, RefsKept, SameSaid, Unsaid, WithFound
<1> QED BY <1>1, <1>3, SaidPersists

LEMMA QuietMoveStep ==
    ASSUME DInv, [Next]_vars, NEW c \in Call, ActsOn(c), webhooks' = webhooks,
           UNCHANGED idemVars, step[c] # "idle", step'[c] # "idle",
           step[c] \in Committing => step'[c] \in Committing,
           sessions' = sessions, SameSaid, Knows(c)'
    PROVE  DInv'
BY QuietKept, MoveStep

\* An idle handler relies on nothing.
LEMMA IdleKnows ==
    ASSUME NEW c \in Call, step'[c] = "idle"
    PROVE  Knows(c)'
BY DEF Knows, Committing, WithFound

\* A handler that ends: with an error, before its request is committed, ...
LEMMA ThrowDisciplined ==
    ASSUME DInv, [Next]_vars, NEW c \in Call, NEW name, Throw(c, name),
           step[c] \notin Committing, sessions' = sessions, webhooks' = webhooks, SameSaid
    PROVE  DInv'
<1>1. /\ step'[c] = "idle" /\ ActsOn(c)
      /\ Idem!SettlePromise(c, Idem!Rejected(error(name))) /\ now' = now /\ cache' = cache
  BY DEF Throw, Leave, Idem!Reject, ActsOn, DInv, GInv, IInv, TypeOK
<1>2. Exclusive'
  BY <1>1, ExclusiveSettle
<1>3. Kept(c) /\ SaidIsDecided' /\ OneVerdictPerSession'
  BY QuietKept
<1>4. \A k \in Key : Lasting(k) => Lasting(k)'
  BY <1>1 DEF Lasting
<1>5. AnswersOK'
  <2>1. \A k \in Key : Idem!Live(k)' => Routable(cache[k].value)'
    BY <1>1 DEF Idem!Live, DInv, AnswersOK, Routable
  <2>2. \A d \in Call : outcome'[d].status = "fulfilled" => outcome'[d] = outcome[d]
    BY <1>1 DEF Idem!SettlePromise, Idem!Rejected
  <2>3. \A d \in Call : outcome'[d].status = "fulfilled" => Routable(outcome[d].value)'
    BY <2>2 DEF DInv, AnswersOK, Routable
  <2> QED BY <2>1, <2>3 DEF AnswersOK
<1>6. Knows(c)'
  BY <1>1, IdleKnows
<1> QED BY <1>1, <1>2, <1>3, <1>4, <1>5, <1>6, DisciplinedStep

\* ... or with an answer that leads to its session.
LEMMA ReturnDisciplined ==
    ASSUME DInv, [Next]_vars, NEW c \in Call, NEW v, Return(c, v), Routable(v),
           sessions' = sessions, webhooks' = webhooks, SameSaid,
           step[c] \in Committing => c \in StartCall
    PROVE  DInv'
<1> DEFINE e == [expiresAt |-> now + Ttl[c], value |-> v]
<1>1. /\ step'[c] = "idle" /\ ActsOn(c)
      /\ Idem!SettlePromise(c, Idem!Fulfilled(v)) /\ now' = now
      /\ cache' = [cache EXCEPT ![KeyOf[c]] = e]
  BY DEF Return, Leave, Idem!Fulfil, ActsOn, DInv, GInv, IInv, TypeOK
<1>2. /\ KeyOf[c] \in Key /\ now \in Nat /\ Ttl[c] \in Nat \ {0} /\ MaxClock \in Nat
      /\ e.expiresAt = now + Ttl[c] /\ e.value = v
      /\ cache \in [Key -> Idem!Entry]
      /\ step[c] # "idle"
  BY CallFacts, BoundsAssumption, <1>1
  DEF DInv, GInv, IInv, TypeOK, Idem!TypeOK, Exclusive, Idem!SettlePromise
<1> HIDE DEF e
<1>3. cache'[KeyOf[c]] = e /\ \A k \in Key : k # KeyOf[c] => cache'[k] = cache[k]
  BY <1>1, <1>2
<1>4. Exclusive'
  BY <1>1, <1>3, ExclusiveSettle
<1>5. Kept(c) /\ SaidIsDecided' /\ OneVerdictPerSession'
  BY QuietKept
<1>6. \A k \in Key : Lasting(k) => Lasting(k)'
  <2>1. ~Lasting(KeyOf[c])
    BY <1>2, LastingIsQuiet DEF DInv
  <2> QED BY <1>3, <2>1 DEF Lasting
<1>7. step[c] \in Committing => Lasting(KeyOf[c])'
  <2> SUFFICES ASSUME step[c] \in Committing
               PROVE  e.expiresAt > MaxClock
    BY <1>3 DEF Lasting
  <2>1. MaxClock < Ttl[c]
    BY DEF DInv, Discipline
  <2> QED BY <1>2, <2>1
<1>8. AnswersOK'
  <2>1. Routable(v)'
    BY DEF Routable
  <2>2. \A k \in Key : Idem!Live(k)' => Routable(cache[k].value)'
    <3> SUFFICES ASSUME NEW k \in Key, Idem!Live(k)'
                 PROVE  Routable(cache[k].value)'
      OBVIOUS
    <3>1. CASE k = KeyOf[c]
      BY <1>2, <1>3, <2>1, <3>1
    <3>2. CASE k # KeyOf[c]
      BY <1>1, <1>3, <3>2 DEF Idem!Live, DInv, AnswersOK, Routable
    <3> QED BY <3>1, <3>2
  <2>3. \A d \in Call : \/ outcome'[d] = outcome[d]
                        \/ outcome'[d].value = v
    BY <1>1 DEF Idem!SettlePromise, Idem!Fulfilled
  <2>4. \A d \in Call : outcome'[d].status = "fulfilled" => Routable(outcome[d].value)'
    BY <2>1, <2>3 DEF DInv, AnswersOK, Routable
  <2> QED BY <2>2, <2>4 DEF AnswersOK
<1>9. Knows(c)'
  BY <1>1, IdleKnows
<1> QED BY <1>1, <1>4, <1>5, <1>6, <1>7, <1>8, <1>9, DisciplinedStep

\* The steps outside every handler.
LEMMA OutsideStep ==
    ASSUME DInv, [Next]_vars, UNCHANGED <<handlerVars, storeVars, logVars, providerVars>>,
           inflight' = inflight, cache' = cache, now' \in {now, now + 1}, now' <= MaxClock,
           \A d \in Call : phase'[d] = "running" <=> phase[d] = "running",
           AnswersOK'
    PROVE  DInv'
<1>1. GInv' /\ Discipline'
  BY GroundNext DEF DInv, Discipline
<1>2. Exclusive'
  BY ExclusiveOutside DEF handlerVars
<1>3. /\ step' = step /\ held' = held /\ sessions' = sessions /\ cache' = cache
      /\ audit' = audit /\ published' = published /\ webhooks' = webhooks
  BY DEF handlerVars, storeVars, logVars, providerVars
<1>4. OneDeliveryEach' /\ SaidIsDecided' /\ OneVerdictPerSession'
  BY <1>3 DEF DInv, OneDeliveryEach, SaidIsDecided, OneVerdictPerSession, Unsaid, Decided,
              verdictEntries
<1>5. \A s \in Session : SessionOK(s)'
  BY <1>3 DEF DInv, SessionOK, Committed, Lasting, Open, Decided
<1>6. \A c \in Call : Knows(c)'
  BY <1>3 DEF DInv, Knows, Decided, Unsaid, verdictEntries, refOf
<1> QED BY <1>1, <1>2, <1>4, <1>5, <1>6 DEF DInv

LEMMA RefsSame == sessions' = sessions => RefsKept
BY DEF RefsKept

LEMMA IdemOutside ==
    ASSUME DInv, [Next]_vars, NEW c \in Call,
           Idem!ReturnCached(c) \/ Idem!Join(c) \/ Idem!Again(c),
           UNCHANGED <<handlerVars, storeVars, logVars, providerVars>>
    PROVE  DInv'
<1>1. /\ now' = now /\ cache' = cache /\ inflight' = inflight /\ sessions' = sessions
      /\ now \in Nat /\ now <= MaxClock /\ KeyOf[c] \in Key
      /\ phase \in [Call -> {"idle", "running", "joined", "done"}]
      /\ outcome \in [Call -> Idem!Outcome]
  BY CallFacts DEF Idem!ReturnCached, Idem!Join, Idem!Again, storeVars, DInv, GInv, IInv,
     TypeOK, Idem!TypeOK, Exclusive
<1>2. \A d \in Call : phase'[d] = "running" <=> phase[d] = "running"
  BY <1>1 DEF Idem!ReturnCached, Idem!Join, Idem!Again
<1>3. \A k \in Key : Idem!Live(k)' => Routable(cache[k].value)'
  BY <1>1 DEF Idem!Live, DInv, AnswersOK, Routable
<1>4. \A d \in Call : outcome'[d].status = "fulfilled" => Routable(outcome[d].value)'
  <2>1. CASE Idem!ReturnCached(c)
    <3>1. Routable(cache[KeyOf[c]].value)
      BY <1>1, <2>1 DEF Idem!ReturnCached, DInv, AnswersOK
    <3>2. \A d \in Call : outcome'[d] = outcome[d] \/ outcome'[d].value = cache[KeyOf[c]].value
      BY <1>1, <2>1 DEF Idem!ReturnCached, Idem!Fulfilled
    <3> QED BY <1>1, <3>1, <3>2 DEF DInv, AnswersOK, Routable
  <2>2. CASE Idem!Join(c) \/ Idem!Again(c)
    <3>1. \A d \in Call : outcome'[d] = outcome[d] \/ outcome'[d].status = "pending"
      BY <1>1, <2>2 DEF Idem!Join, Idem!Again, Idem!Unsettled
    <3> QED BY <1>1, <3>1 DEF DInv, AnswersOK, Routable
  <2> QED BY <2>1, <2>2
<1>5. AnswersOK'
  BY <1>3, <1>4 DEF AnswersOK
<1> QED BY <1>1, <1>2, <1>5, OutsideStep

LEMMA ExecuteDisciplined ==
    ASSUME DInv, [Next]_vars, NEW c \in Call, Execute(c)
    PROVE  DInv'
<1>1. firstStep(c) \in BeforeSession \cup {"findSession"}
  BY DEF firstStep, BeforeSession
<1>2. firstStep(c) \in Step
  BY <1>1 DEF BeforeSession, Step, PortStep, StartStep, CompleteStep
<1>3. /\ step'[c] = firstStep(c) /\ held' = held
      /\ \A d \in Call : d # c => step'[d] = step[d]
  BY <1>2, GotoFacts DEF DInv, GInv, Execute
<1>4. ActsOn(c) /\ step'[c] # "idle" /\ Knows(c)'
  BY <1>1, <1>3 DEF ActsOn, Knows, BeforeSession, Committing, WithFound
<1>5. Idem!Begin(c)
  BY DEF Execute
<1>6. Exclusive'
  BY <1>4, <1>5, ExclusiveBegin
<1>7. /\ sessions' = sessions /\ webhooks' = webhooks /\ SameSaid
      /\ cache' = cache /\ now' = now /\ outcome' = outcome
  BY <1>5 DEF Execute, storeVars, logVars, providerVars, SameSaid, Idem!Begin
<1>8. Kept(c) /\ SaidIsDecided' /\ OneVerdictPerSession'
  BY <1>7, QuietKept
<1>9. step[c] \notin Committing
  BY <1>5 DEF Idem!Begin, DInv, Exclusive, Committing
<1>10. AnswersOK'
  BY <1>7, AnswersPersist, RefsSame
<1>11. \A k \in Key : Lasting(k) => Lasting(k)'
  BY <1>7 DEF Lasting
<1> QED BY <1>4, <1>6, <1>7, <1>8, <1>9, <1>10, <1>11, DisciplinedStep

LEMMA EnterDisciplined ==
    ASSUME DInv, [Next]_vars, NEW c \in Call, Enter(c) \/ Repeat(c)
    PROVE  DInv'
BY ExecuteDisciplined, IdemOutside DEF Enter, ReplayAnswer, JoinExecution, Repeat

LEMMA TickDisciplined ==
    ASSUME DInv, [Next]_vars, Tick \/ UNCHANGED vars
    PROVE  DInv'
<1>1. /\ UNCHANGED <<handlerVars, storeVars, logVars, providerVars>>
      /\ inflight' = inflight /\ cache' = cache /\ phase' = phase /\ outcome' = outcome
      /\ sessions' = sessions
  BY DEF Tick, Idem!Tick, vars, idemVars, storeVars
<1>2. now' \in {now, now + 1} /\ now' <= MaxClock
  BY BoundsAssumption
  DEF Tick, Idem!Tick, vars, idemVars, DInv, Exclusive, GInv, IInv, TypeOK, Idem!TypeOK
<1>3. AnswersOK'
  BY <1>1, <1>2, AnswersPersist, RefsSame
<1> QED BY <1>1, <1>2, <1>3, OutsideStep

\* The handlers that end.
LEMMA ThrowsDisciplined ==
    ASSUME DInv, [Next]_vars, NEW c \in Call,
           \/ RejectWithoutConsent(c) \/ RejectWithoutIdentityId(c)
           \/ RejectUnknownSession(c) \/ PortRejects(c)
    PROVE  DInv'
<1>1. step[c] \notin Committing
  BY BoundsAssumption
  DEF RejectWithoutConsent, RejectWithoutIdentityId, RejectUnknownSession, PortRejects, At,
      MayReject, Committing, DInv, Discipline, PortStep, StartStep, CompleteStep
<1>2. sessions' = sessions /\ webhooks' = webhooks /\ SameSaid
  BY DEF RejectWithoutConsent, RejectWithoutIdentityId, RejectUnknownSession, PortRejects,
         storeVars, logVars, providerVars, SameSaid
<1>3. PICK name \in Errors : Throw(c, name)
  BY DEF RejectWithoutConsent, RejectWithoutIdentityId, RejectUnknownSession, PortRejects,
         Errors
<1> QED BY <1>1, <1>2, <1>3, ThrowDisciplined

LEMMA AuditProviderErrorDisciplined ==
    ASSUME DInv, [Next]_vars, NEW c \in Call, AuditProviderError(c)
    PROVE  DInv'
<1> DEFINE e == entry("VerificationFailed", held[c].id, "provider_error", c)
<1>1. step[c] \notin Committing /\ held[c].id \in Session
  BY CallFacts DEF AuditProviderError, At, Committing, DInv, GInv, IInv, HandlersOK, HandlerOK,
                   WithInitiated
<1>2. e \in Event /\ e.payload \notin Verdict
  BY <1>1, EntryType DEF entry, Verdict
<1>3. audit \in Seq(Event) /\ audit' = Append(audit, e) /\ published' = published
  BY DEF AuditProviderError, DInv, GInv, IInv, TypeOK
<1> HIDE DEF e
<1>4. SameSaid
  BY <1>2, <1>3, NoVerdictAdded DEF SameSaid
<1>5. sessions' = sessions /\ webhooks' = webhooks /\ Throw(c, "ProviderError")
  BY DEF AuditProviderError, storeVars, providerVars
<1> QED BY <1>1, <1>4, <1>5, ThrowDisciplined

LEMMA ReturnsDisciplined ==
    ASSUME DInv, [Next]_vars, NEW c \in Call,
           ReturnStarted(c) \/ ReturnApplied(c) \/ ReturnCompleted(c)
    PROVE  DInv'
<1>1. /\ sessions' = sessions /\ webhooks' = webhooks /\ SameSaid
      /\ \E status, applied : Return(c, answer(held[c].id, held[c].session.providerRef,
                                               status, applied))
      /\ step[c] \in {"returnStarted", "returnApplied", "returnCompleted"}
  BY DEF ReturnStarted, ReturnApplied, ReturnCompleted, storeVars, logVars, providerVars,
         SameSaid, At
<1>2. PICK status, applied :
        Return(c, answer(held[c].id, held[c].session.providerRef, status, applied))
  BY <1>1
<1>3. Knows(c) /\ HandlerOK(c) /\ inquiries \in Seq(InquiryRecord)
  BY DEF DInv, GInv, IInv, HandlersOK, TypeOK
<1>4. /\ held[c].id \in Session /\ held[c].session.providerRef # NoRef
      /\ sessions[held[c].id].providerRef = held[c].session.providerRef
      /\ step[c] \in Committing => c \in StartCall
  <2>1. CASE step[c] = "returnStarted"
    BY <1>3, <2>1 DEF HandlerOK, Holds, Knows, WithPending, Committing, NoRef
  <2>2. CASE step[c] \in {"returnApplied", "returnCompleted"}
    BY <2>2, FoundIsOpen DEF WithFound, Open, Committing
  <2> QED BY <1>1, <2>1, <2>2
<1>5. Routable(answer(held[c].id, held[c].session.providerRef, status, applied))
  BY <1>4 DEF Routable, answer
<1> QED BY <1>1, <1>2, <1>4, <1>5, ReturnDisciplined

\* The handlers that go on, and store nothing of a session.
LEMMA AppendStartedDisciplined ==
    ASSUME DInv, [Next]_vars, NEW c \in Call, AuditStarted(c) \/ PublishStarted(c)
    PROVE  DInv'
<1> DEFINE e == entry("VerificationStarted", held[c].id, "started", c)
<1>1. /\ step[c] \in Committing /\ HandlerOK(c) /\ Knows(c)
      /\ step[c] \in {"auditStarted", "publishStarted"}
  BY DEF AuditStarted, PublishStarted, At, Committing, DInv, GInv, IInv, HandlersOK
<1>2. held[c].id \in Session
  BY <1>1 DEF HandlerOK, Holds, WithPending
<1>3. e \in Event /\ e.payload \notin Verdict
  BY <1>2, EntryType DEF entry, Verdict
<1>4. /\ audit \in Seq(Event) /\ published \in Seq(Event)
      /\ audit' \in {audit, Append(audit, e)} /\ published' \in {published, Append(published, e)}
  BY DEF AuditStarted, PublishStarted, DInv, GInv, IInv, TypeOK
<1> HIDE DEF e
<1>5. SameSaid
  <2>1. /\ \A s : verdictEntries(Append(audit, e), s) = verdictEntries(audit, s)
        /\ \A s : verdictEntries(Append(published, e), s) = verdictEntries(published, s)
    BY <1>3, <1>4, NoVerdictAdded
  <2>2. \A s : verdictEntries(audit', s) = verdictEntries(audit, s)
    BY <1>4, <2>1
  <2>3. \A s : verdictEntries(published', s) = verdictEntries(published, s)
    BY <1>4, <2>1
  <2> QED BY <2>2, <2>3 DEF SameSaid
<1>6. /\ step'[c] \in {"publishStarted", "returnStarted"}
      /\ \A d \in Call : d # c => step'[d] = step[d]
  BY GotoFacts DEF AuditStarted, PublishStarted, Step, PortStep, StartStep, DInv, GInv
<1>7. held' = held /\ sessions' = sessions /\ webhooks' = webhooks /\ UNCHANGED idemVars
  BY DEF AuditStarted, PublishStarted, storeVars, providerVars
<1>8. Knows(c)'
  BY <1>1, <1>6, <1>7 DEF Knows, Committing, WithFound
<1> QED BY <1>1, <1>5, <1>6, <1>7, <1>8, QuietMoveStep DEF ActsOn, Committing

LEMMA StartMovesDisciplined ==
    ASSUME DInv, [Next]_vars, NEW c \in Call,
           \/ GetIdentity(c) \/ SaveIdentity(c) \/ StartInquiry(c) \/ ProviderRejects(c)
    PROVE  DInv'
<1>1. PICK s \in BeforeCommitting : Goto(c, s)
  BY DEF GetIdentity, SaveIdentity, StartInquiry, ProviderRejects, BeforeCommitting,
         BeforeSession, WithInitiated
<1>2. s \in Step /\ s # "idle" /\ s \notin Committing \cup WithFound
  BY DEF Step, PortStep, StartStep, BeforeCommitting, BeforeSession, WithInitiated,
         Committing, WithFound
<1>3. step'[c] = s /\ \A d \in Call : d # c => step'[d] = step[d]
  BY <1>1, <1>2, GotoFacts DEF DInv, GInv
<1>4. Knows(c)'
  BY <1>2, <1>3 DEF Knows, WithFound
<1>5. /\ sessions' = sessions /\ webhooks' = webhooks /\ SameSaid /\ UNCHANGED idemVars
      /\ \A d \in Call : d # c => held'[d] = held[d]
      /\ step[c] # "idle" /\ step[c] \notin Committing
  BY DEF GetIdentity, SaveIdentity, StartInquiry, ProviderRejects, storeVars, logVars,
         providerVars, SameSaid, At, Committing, Hold, DInv, GInv, IInv, TypeOK
<1> QED BY <1>2, <1>3, <1>4, <1>5, QuietMoveStep DEF ActsOn

LEMMA FindSessionDisciplined ==
    ASSUME DInv, [Next]_vars, NEW c \in Call, FindSession(c)
    PROVE  DInv'
<1>1. /\ c \in CompleteCall /\ KeyOf[c] \in Delivery /\ webhooks[KeyOf[c]] # NotSent
      /\ step[c] = "findSession"
  BY CallFacts DEF DInv, GInv, IInv, HandlersOK, HandlerOK, FindSession, At
<1>2. PICK s \in matching(refOf(c)) :
        /\ Hold(c, s, sessions[s])
        /\ Goto(c, IF isTerminal(sessions[s].status) THEN "returnApplied"
                                                     ELSE "saveCompleted")
  BY DEF FindSession
<1>3. s \in Session /\ sessions[s].providerRef = refOf(c) /\ sessions[s] \in SessionRecord
  BY <1>2 DEF matching, DInv, GInv, IInv, TypeOK
<1>4. refOf(c) # NoRef
  BY <1>1 DEF DInv, GInv, IInv, TypeOK, SentOK, refOf, NoRef
<1>5. sessions[s].status = "PENDING" \/ Decided(s)
  BY <1>3, <1>4 DEF DInv, SessionOK, Open
<1>6. Decided(s) => isTerminal(sessions[s].status)
  BY DEF Decided, isTerminal, TRANSITIONS
<1>7. /\ step'[c] \in {"returnApplied", "saveCompleted"}
      /\ step'[c] = "saveCompleted" => sessions[s].status = "PENDING"
      /\ \A d \in Call : d # c => step'[d] = step[d]
  BY <1>2, <1>5, <1>6, GotoFacts DEF DInv, GInv, Step, PortStep, CompleteStep
<1>8. /\ held'[c] = [id |-> s, session |-> sessions[s]]
      /\ \A d \in Call : d # c => held'[d] = held[d]
  BY <1>2, <1>3, HoldFacts DEF DInv, GInv
<1>9. sessions' = sessions /\ webhooks' = webhooks /\ SameSaid /\ UNCHANGED idemVars
  BY DEF FindSession, storeVars, logVars, providerVars, SameSaid
<1>10. Knows(c)'
  BY <1>3, <1>7, <1>8, <1>9 DEF Knows, Committing, WithFound, refOf
<1> QED BY <1>1, <1>7, <1>8, <1>9, <1>10, QuietMoveStep DEF ActsOn, Committing

\* The verdict is logged once: nobody else handles a webhook of this session.
LEMMA NewSaid ==
    ASSUME DInv, NEW c \in Call, step[c] \in WithFound,
           NEW log \in Seq(Event)
    PROVE  /\ \A s \in Session : s # held[c].id =>
                verdictEntries(Append(log, verdictEntry(c)), s) = verdictEntries(log, s)
           /\ \A i \in verdictEntries(Append(log, verdictEntry(c)), held[c].id) :
                i \in verdictEntries(log, held[c].id) \/ i = Len(log) + 1
           /\ \A d \in Call : d # c /\ step[d] \in WithFound =>
                verdictEntries(Append(log, verdictEntry(c)), held[d].id) =
                   verdictEntries(log, held[d].id)
<1>1. verdictEntry(c) \in Event
  BY FoundIsOpen, VerdictEntryType DEF DInv, GInv, IInv
<1>2. verdictEntry(c).session = held[c].id
  BY DEF verdictEntry, entry
<1>3. ASSUME NEW s \in Session, s # held[c].id
      PROVE  verdictEntries(Append(log, verdictEntry(c)), s) = verdictEntries(log, s)
  <2>1. verdictEntries(Append(log, verdictEntry(c)), s) =
           verdictEntries(log, s) \cup
           (IF verdictEntry(c).session = s /\ verdictEntry(c).payload \in Verdict
            THEN {Len(log) + 1} ELSE {})
    BY <1>1, SaidAfter
  <2> QED BY <1>2, <1>3, <2>1
<1>4. \A i \in verdictEntries(Append(log, verdictEntry(c)), held[c].id) :
        i \in verdictEntries(log, held[c].id) \/ i = Len(log) + 1
  <2>1. verdictEntries(Append(log, verdictEntry(c)), held[c].id) =
           verdictEntries(log, held[c].id) \cup
           (IF verdictEntry(c).session = held[c].id /\ verdictEntry(c).payload \in Verdict
            THEN {Len(log) + 1} ELSE {})
    BY <1>1, SaidAfter
  <2> QED BY <2>1
<1>5. ASSUME NEW d \in Call, d # c, step[d] \in WithFound
      PROVE  held[d].id \in Session /\ held[d].id # held[c].id
  BY <1>5, FoundIsOpen, SoleWebhook
<1> QED BY <1>3, <1>4, <1>5

LEMMA AuditVerdictDisciplined ==
    ASSUME DInv, [Next]_vars, NEW c \in Call, AuditVerdict(c)
    PROVE  DInv'
<1>1. /\ step[c] = "auditVerdict" /\ step[c] \in WithFound
      /\ audit \in Seq(Event) /\ audit' = Append(audit, verdictEntry(c))
      /\ published' = published /\ held' = held /\ sessions' = sessions /\ webhooks' = webhooks
      /\ UNCHANGED idemVars
  BY DEF AuditVerdict, At, WithFound, DInv, GInv, IInv, TypeOK, storeVars, providerVars
<1>2. /\ held[c].id \in Session /\ Decided(held[c].id) /\ Unsaid(audit, held[c].id)
      /\ sessions[held[c].id].providerRef = refOf(c)
  BY <1>1, FoundIsOpen DEF DInv, Knows
<1>3. /\ \A s \in Session : s # held[c].id =>
            verdictEntries(audit', s) = verdictEntries(audit, s)
      /\ \A i \in verdictEntries(audit', held[c].id) : i = Len(audit) + 1
      /\ \A d \in Call : d # c /\ step[d] \in WithFound =>
            verdictEntries(audit', held[d].id) = verdictEntries(audit, held[d].id)
  <2> DEFINE log2 == Append(audit, verdictEntry(c))
  <2>1. /\ \A s \in Session : s # held[c].id =>
                verdictEntries(log2, s) = verdictEntries(audit, s)
        /\ \A i \in verdictEntries(log2, held[c].id) :
                i \in verdictEntries(audit, held[c].id) \/ i = Len(audit) + 1
        /\ \A d \in Call : d # c /\ step[d] \in WithFound =>
                verdictEntries(log2, held[d].id) = verdictEntries(audit, held[d].id)
    BY <1>1, NewSaid
  <2>2. audit' = log2
    BY <1>1
  <2> HIDE DEF log2
  <2> QED BY <1>2, <2>1, <2>2 DEF Unsaid
<1>4. Unsaid(published, held[c].id)
  <2> SUFFICES ASSUME NEW i \in verdictEntries(published, held[c].id)
               PROVE  FALSE
    BY DEF Unsaid
  <2>1. /\ i \in DOMAIN published /\ published[i].session = held[c].id
        /\ published[i].payload \in Verdict
    BY DEF verdictEntries
  <2>2. PICK j \in DOMAIN audit : audit[j] = published[i]
    BY <2>1 DEF DInv, GInv, IInv, PublishedAreAudited
  <2>3. j \in verdictEntries(audit, held[c].id)
    BY <2>1, <2>2 DEF verdictEntries
  <2> QED BY <1>2, <2>3 DEF Unsaid
<1>5. /\ step'[c] = "publishVerdict"
      /\ \A d \in Call : d # c => step'[d] = step[d]
  BY GotoFacts DEF AuditVerdict, Step, PortStep, CompleteStep, DInv, GInv
<1>6. Knows(c)'
  BY <1>1, <1>2, <1>4, <1>5 DEF Knows, Committing, WithFound, refOf, Unsaid, verdictEntries
<1>7. Kept(c)
  BY <1>1, <1>3 DEF Kept, RefsKept, Decided, Unsaid, WithFound
<1>8. SaidIsDecided'
  BY <1>1, <1>2, <1>3 DEF DInv, SaidIsDecided, Unsaid, Decided
<1>9. OneVerdictPerSession'
  <2> SUFFICES ASSUME NEW s \in Session, NEW i \in verdictEntries(audit', s),
                      NEW j \in verdictEntries(audit', s)
               PROVE  i = j
    BY <1>1 DEF DInv, OneVerdictPerSession
  <2> QED BY <1>3 DEF DInv, OneVerdictPerSession
<1> QED BY <1>1, <1>5, <1>6, <1>7, <1>8, <1>9, MoveStep DEF ActsOn, Committing

LEMMA PublishVerdictDisciplined ==
    ASSUME DInv, [Next]_vars, NEW c \in Call, PublishVerdict(c)
    PROVE  DInv'
<1>1. /\ step[c] = "publishVerdict" /\ step[c] \in WithFound
      /\ published \in Seq(Event) /\ published' = Append(published, verdictEntry(c))
      /\ audit' = audit /\ held' = held /\ sessions' = sessions /\ webhooks' = webhooks
      /\ UNCHANGED idemVars
  BY DEF PublishVerdict, At, WithFound, DInv, GInv, IInv, TypeOK, storeVars, providerVars
<1>2. /\ held[c].id \in Session /\ Unsaid(published, held[c].id)
      /\ sessions[held[c].id].providerRef = refOf(c)
  BY <1>1, FoundIsOpen DEF DInv, Knows
<1>3. /\ \A s \in Session : s # held[c].id =>
            verdictEntries(published', s) = verdictEntries(published, s)
      /\ \A i \in verdictEntries(published', held[c].id) : i = Len(published) + 1
      /\ \A d \in Call : d # c /\ step[d] \in WithFound =>
            verdictEntries(published', held[d].id) = verdictEntries(published, held[d].id)
  <2> DEFINE log2 == Append(published, verdictEntry(c))
  <2>1. /\ \A s \in Session : s # held[c].id =>
                verdictEntries(log2, s) = verdictEntries(published, s)
        /\ \A i \in verdictEntries(log2, held[c].id) :
                i \in verdictEntries(published, held[c].id) \/ i = Len(published) + 1
        /\ \A d \in Call : d # c /\ step[d] \in WithFound =>
                verdictEntries(log2, held[d].id) = verdictEntries(published, held[d].id)
    BY <1>1, NewSaid
  <2>2. published' = log2
    BY <1>1
  <2> HIDE DEF log2
  <2> QED BY <1>2, <2>1, <2>2 DEF Unsaid
<1>4. /\ step'[c] = "returnCompleted"
      /\ \A d \in Call : d # c => step'[d] = step[d]
  BY GotoFacts DEF PublishVerdict, Step, DInv, GInv
<1>5. Knows(c)'
  BY <1>1, <1>2, <1>4 DEF Knows, Committing, WithFound, refOf
<1>6. Kept(c)
  BY <1>1, <1>3 DEF Kept, RefsKept, Decided, Unsaid, WithFound
<1>7. SaidIsDecided'
  BY <1>1 DEF DInv, SaidIsDecided, Unsaid, Decided, verdictEntries
<1>8. OneVerdictPerSession'
  <2> SUFFICES ASSUME NEW s \in Session, NEW i \in verdictEntries(published', s),
                      NEW j \in verdictEntries(published', s)
               PROVE  i = j
    BY <1>1 DEF DInv, OneVerdictPerSession
  <2> QED BY <1>3 DEF DInv, OneVerdictPerSession
<1> QED BY <1>1, <1>4, <1>5, <1>6, <1>7, <1>8, MoveStep DEF ActsOn, Committing

\* The handlers that store a session.  What is stored moves along TRANSITIONS.
AlongTransitions(s) ==
    \/ sessions'[s].status = sessions[s].status
    \/ sessions[s].status = "ABSENT" /\ sessions'[s].status = "INITIATED"
    \/ /\ sessions[s].status \in Status
       /\ canTransition(sessions[s].status, sessions'[s].status)

LEMMA SaveFacts ==
    ASSUME DInv, NEW s \in Session, NEW session, Save(s, session)
    PROVE  /\ sessions'[s] = session
           /\ \A r \in Session : r # s => sessions'[r] = sessions[r]
BY DEF DInv, GInv, IInv, TypeOK, Save

\* Nobody is about to complete a session that is not open.
LEMMA NobodyCompletes ==
    ASSUME DInv, NEW s \in Session, ~Open(s), NEW d \in Call, step[d] \in WithFound
    PROVE  held[d].id # s
BY FoundIsOpen

\* A start request stores a session nobody has opened.
LEMMA SaveUnopened ==
    ASSUME DInv, NEW c \in Call, NEW s \in Session, NEW session, Save(s, session), ~Open(s),
           UNCHANGED logVars
    PROVE  Kept(c) /\ SaidIsDecided' /\ OneVerdictPerSession'
<1>1. /\ sessions'[s] = session
      /\ \A r \in Session : r # s => sessions'[r] = sessions[r]
  BY SaveFacts
<1>2. SessionOK(s)
  BY DEF DInv
<1>3. ~Decided(s)
  BY <1>2 DEF SessionOK, Decided
<1>4. RefsKept
  BY <1>1 DEF RefsKept, Open
<1>5. \A r \in Session : Decided(r) => Decided(r)'
  BY <1>1, <1>3 DEF Decided
<1>6. SameSaid
  BY DEF SameSaid, logVars
<1>7. \A d \in Call : step[d] \in WithFound =>
        held[d].id \in Session /\ sessions'[held[d].id] = sessions[held[d].id]
  BY <1>1, FoundIsOpen, NobodyCompletes
<1>8. Kept(c)
  BY <1>4, <1>5, <1>6, <1>7 DEF Kept, SameSaid, Unsaid, WithFound
<1> QED BY <1>5, <1>6, <1>8, SaidPersists

LEMMA SaveInitiatedDisciplined ==
    ASSUME DInv, [Next]_vars, NEW c \in StartCall, SaveInitiated(c)
    PROVE  DInv' /\ \A s \in Session : AlongTransitions(s)
<1> DEFINE session == create(identityOf(c))
<1>1. /\ c \in Call /\ SessionOf[c] \in Session /\ step[c] = "saveInitiated"
      /\ ~Open(SessionOf[c])
  BY CallFacts, NotYetOpen DEF SaveInitiated, At, BeforeCommitting, BeforeSession
<1>2. session.providerRef = NoRef /\ session.status = "INITIATED"
  BY DEF create
<1>3. /\ Save(SessionOf[c], session) /\ UNCHANGED idemVars /\ UNCHANGED logVars
      /\ webhooks' = webhooks
      /\ \A d \in Call : d # c => held'[d] = held[d]
  BY <1>1 DEF SaveInitiated, providerVars, Hold, DInv, GInv, IInv, TypeOK
<1> HIDE DEF session
<1>4. /\ sessions'[SessionOf[c]] = session
      /\ \A r \in Session : r # SessionOf[c] => sessions'[r] = sessions[r]
  BY <1>1, <1>3, SaveFacts
<1>5. sessions[SessionOf[c]].status \in {"ABSENT", "INITIATED"}
  BY <1>1 DEF DInv, SessionOK
<1>6. \A s \in Session : AlongTransitions(s)
  BY <1>2, <1>4, <1>5 DEF AlongTransitions
<1>7. SessionOK(SessionOf[c])'
  BY <1>2, <1>4 DEF SessionOK, Open
<1>8. /\ step'[c] = "startInquiry"
      /\ \A d \in Call : d # c => step'[d] = step[d]
  BY <1>1, GotoFacts DEF SaveInitiated, Step, PortStep, StartStep, DInv, GInv
<1>9. Knows(c)'
  BY <1>8 DEF Knows, Committing, WithFound
<1>10. Kept(c) /\ SaidIsDecided' /\ OneVerdictPerSession'
  BY <1>1, <1>3, SaveUnopened
<1>11. \A s \in Session : sessions'[s] = sessions[s] \/ SessionOK(s)'
  <2> SUFFICES ASSUME NEW s \in Session, s = SessionOf[c]
               PROVE  SessionOK(s)'
    BY <1>4
  <2> QED BY <1>7
<1>12. ActsOn(c) /\ step[c] # "idle" /\ step'[c] # "idle" /\ step[c] \notin Committing
  BY <1>1, <1>3, <1>8 DEF ActsOn, Committing
<1>13. DInv'
  BY <1>1, <1>3, <1>9, <1>10, <1>11, <1>12, MoveStep
<1> QED BY <1>6, <1>13

LEMMA SavePendingDisciplined ==
    ASSUME DInv, [Next]_vars, NEW c \in StartCall, SavePending(c)
    PROVE  DInv' /\ \A s \in Session : AlongTransitions(s)
<1>1. /\ c \in Call /\ SessionOf[c] \in Session /\ step[c] = "savePending"
      /\ ~Open(SessionOf[c])
  BY CallFacts, NotYetOpen DEF SavePending, At, BeforeCommitting
<1>2. HandlerOK(c) /\ Grounded(c) /\ inquiries \in Seq(InquiryRecord)
  BY <1>1 DEF DInv, GInv, IInv, HandlersOK, TypeOK
<1>3. /\ held[c].id = SessionOf[c]
      /\ held[c].session.providerRef # NoRef /\ held[c].session.status = "PENDING"
      /\ sessions[SessionOf[c]].status # "ABSENT"
  BY <1>1, <1>2 DEF HandlerOK, Holds, Grounded, Stored, WithPending, NoRef
<1>4. /\ Save(SessionOf[c], held[c].session) /\ UNCHANGED idemVars /\ UNCHANGED logVars
      /\ webhooks' = webhooks /\ held' = held
  BY <1>3 DEF SavePending, providerVars
<1>5. /\ sessions'[SessionOf[c]] = held[c].session
      /\ \A r \in Session : r # SessionOf[c] => sessions'[r] = sessions[r]
  BY <1>1, <1>4, SaveFacts
<1>6. sessions[SessionOf[c]].status = "INITIATED"
  BY <1>1, <1>3 DEF DInv, SessionOK
<1>7. \A s \in Session : AlongTransitions(s)
  BY <1>3, <1>5, <1>6 DEF AlongTransitions, canTransition, TRANSITIONS, Status
<1>8. /\ step'[c] = "auditStarted"
      /\ \A d \in Call : d # c => step'[d] = step[d]
  BY <1>1, GotoFacts DEF SavePending, Step, PortStep, StartStep, DInv, GInv
<1>9. SessionOK(SessionOf[c])'
  BY <1>3, <1>5, <1>8 DEF SessionOK, Open, Committed, Committing
<1>10. Knows(c)'
  BY <1>4, <1>5, <1>8 DEF Knows, Committing, WithFound
<1>11. Kept(c) /\ SaidIsDecided' /\ OneVerdictPerSession'
  BY <1>1, <1>4, SaveUnopened
<1>12. \A s \in Session : sessions'[s] = sessions[s] \/ SessionOK(s)'
  <2> SUFFICES ASSUME NEW s \in Session, s = SessionOf[c]
               PROVE  SessionOK(s)'
    BY <1>5
  <2> QED BY <1>9
<1>13. ActsOn(c) /\ step[c] # "idle" /\ step'[c] # "idle" /\ step[c] \notin Committing
  BY <1>1, <1>4, <1>8 DEF ActsOn, Committing
<1>14. DInv'
  BY <1>1, <1>4, <1>10, <1>11, <1>12, <1>13, MoveStep
<1> QED BY <1>7, <1>14

LEMMA SaveCompletedDisciplined ==
    ASSUME DInv, [Next]_vars, NEW c \in Call, SaveCompleted(c)
    PROVE  DInv' /\ \A s \in Session : AlongTransitions(s)
<1> DEFINE updated == markCompleted(held[c].session, decision(c), refOf(c))
<1>1. /\ step[c] = "saveCompleted" /\ step[c] \in WithFound
      /\ held[c].session \in SessionRecord
  BY DEF SaveCompleted, At, WithFound, DInv, GInv, IInv, TypeOK, Held
<1>0. PICK id \in Session : id = held[c].id
  BY <1>1, FoundIsOpen
<1>2. /\ id \in Session /\ sessions[id].providerRef = refOf(c) /\ Open(id)
      /\ sessions[id].status = "PENDING" /\ held[c].session.status = "PENDING"
  BY <1>0, <1>1, FoundIsOpen DEF DInv, Knows
<1>3. updated.status \in {"VERIFIED", "FAILED"} /\ updated.providerRef = refOf(c)
  BY <1>1 DEF markCompleted, statusAfter, SessionRecord
<1>4. canTransition("PENDING", updated.status)
  BY <1>3 DEF canTransition, TRANSITIONS
<1>5. /\ Save(id, updated) /\ Goto(c, "auditVerdict") /\ UNCHANGED <<idemVars, held>>
      /\ UNCHANGED logVars /\ webhooks' = webhooks
  BY <1>0, <1>2, <1>4 DEF SaveCompleted, providerVars
<1> HIDE DEF updated
<1>6. sessions'[id] = updated /\ \A r \in Session : r # id => sessions'[r] = sessions[r]
  BY <1>2, <1>5, SaveFacts
<1>7. \A s \in Session : AlongTransitions(s)
  BY <1>2, <1>4, <1>6 DEF AlongTransitions, Status
<1>8. /\ step'[c] = "auditVerdict"
      /\ \A d \in Call : d # c => step'[d] = step[d]
  BY <1>5, GotoFacts DEF Step, PortStep, CompleteStep, DInv, GInv
<1>9. RefsKept /\ \A s \in Session : Decided(s) => Decided(s)'
  BY <1>2, <1>3, <1>6 DEF RefsKept, Decided
<1>10. SameSaid
  BY <1>5 DEF SameSaid, logVars
<1>11. \A d \in Call : d # c /\ step[d] \in WithFound =>
         held[d].id \in Session /\ sessions'[held[d].id] = sessions[held[d].id]
  <2> SUFFICES ASSUME NEW d \in Call, d # c, step[d] \in WithFound
               PROVE  held[d].id \in Session /\ held[d].id # id
    BY <1>6
  <2> QED BY <1>0, <1>1, FoundIsOpen, SoleWebhook
<1>12. Kept(c)
  BY <1>9, <1>10, <1>11 DEF Kept, SameSaid, Unsaid, WithFound
<1>13. SaidIsDecided' /\ OneVerdictPerSession'
  BY <1>9, <1>10, SaidPersists
<1>14. Unsaid(audit, id) /\ Decided(id)'
  BY <1>2, <1>3, <1>6 DEF DInv, SaidIsDecided, Decided
<1>15. /\ held'[c].id = id
       /\ sessions'[id].status \in {"VERIFIED", "FAILED"}
       /\ verdictEntries(audit', id) = {}
       /\ sessions'[id].providerRef = refOf(c)
       /\ refOf(c)' = refOf(c)
  BY <1>0, <1>2, <1>3, <1>5, <1>6, <1>14 DEF Unsaid, logVars, refOf
<1>16. Knows(c)'
  BY <1>8, <1>15 DEF Knows, Committing, WithFound, Decided, Unsaid, verdictEntries
<1>17. SessionOK(id)'
  <2>1. Committed(id)
    BY <1>2 DEF DInv, SessionOK
  <2>2. Committed(id)'
    <3>1. \A k \in Key : Lasting(k) => Lasting(k)'
      BY <1>5 DEF Lasting, idemVars
    <3>2. \A d \in StartCall : step[d] \in Committing => step'[d] \in Committing
      BY <1>1, <1>8, CallFacts DEF Committing
    <3> QED BY <1>2, <2>1, <3>1, <3>2, CommittedPersists
  <2> QED BY <1>2, <1>3, <1>6, <2>2 DEF SessionOK, Open, Decided
<1>18. \A s \in Session : sessions'[s] = sessions[s] \/ SessionOK(s)'
  <2> SUFFICES ASSUME NEW s \in Session, s = id
               PROVE  SessionOK(s)'
    BY <1>6
  <2> QED BY <1>17
<1>19. ActsOn(c) /\ step[c] # "idle" /\ step'[c] # "idle" /\ step[c] \notin Committing
  BY <1>1, <1>5, <1>8 DEF ActsOn, Committing
<1>20. DInv'
  BY <1>5, <1>12, <1>13, <1>16, <1>18, <1>19, MoveStep
<1> QED BY <1>7, <1>20

\* The provider sends a verdict on an inquiry nobody has sent one on.
LEMMA SendWebhookDisciplined ==
    ASSUME DInv, [Next]_vars, NEW d \in Delivery, NEW ref \in DOMAIN inquiries,
           NEW verdict \in Verdict, SendWebhook(d, ref, verdict)
    PROVE  DInv'
<1>1. GInv' /\ Discipline'
  BY GroundNext DEF DInv, Discipline
<1>2. /\ webhooks[d] = NotSent /\ webhooks'[d].inquiry = ref /\ ref # NoRef
      /\ \A e \in Delivery : webhooks[e].inquiry # ref
      /\ \A e \in Delivery : e # d => webhooks'[e] = webhooks[e]
  BY DEF SendWebhook, DInv, GInv, IInv, TypeOK, Discipline, NoRef
<1>3. OneDeliveryEach'
  <2> SUFFICES ASSUME NEW e \in Delivery, NEW f \in Delivery,
                      webhooks'[e] # NotSent, webhooks'[e].inquiry = webhooks'[f].inquiry
               PROVE  e = f
    BY DEF OneDeliveryEach
  <2>1. CASE e # d /\ f # d
    BY <1>2, <2>1 DEF DInv, OneDeliveryEach
  <2>2. CASE e = d \/ f = d
    BY <1>2, <2>2
  <2> QED BY <2>1, <2>2
<1>4. /\ UNCHANGED <<idemVars, step, held, sessions, audit, published>>
  BY DEF SendWebhook, handlerVars, storeVars, logVars
<1>5. Exclusive' /\ SaidIsDecided' /\ AnswersOK' /\ OneVerdictPerSession'
  BY <1>4 DEF idemVars, DInv, Exclusive, Idem!OneExecutionPerKey, Idem!NoExecutionInsideWindow,
              Idem!Live, SaidIsDecided, AnswersOK, Routable, OneVerdictPerSession, Unsaid,
              Decided, verdictEntries
<1>6. \A s \in Session : SessionOK(s)'
  BY <1>4 DEF idemVars, DInv, SessionOK, Committed, Lasting, Open, Decided
<1>7. ASSUME NEW c \in Call
      PROVE  Knows(c)'
  <2>1. Knows(c)
    BY DEF DInv
  <2>2. step[c] \in WithFound => refOf(c)' = refOf(c)
    BY <1>2, FoundIsOpen DEF refOf
  <2> QED BY <1>4, <2>1, <2>2 DEF Knows, Decided, Unsaid, verdictEntries
<1> QED BY <1>1, <1>3, <1>5, <1>6, <1>7 DEF DInv

LEMMA DisciplinedInit == Init /\ Discipline => DInv
<1> SUFFICES ASSUME Init, Discipline PROVE DInv
  OBVIOUS
<1>1. GInv /\ KeyOf \in [Call -> Key] /\ MaxClock \in Nat /\ NoCall \notin Call
  BY GroundInit, RequestsAssumption, BoundsAssumption
<1>2. Exclusive
  BY <1>1 DEF Init, Idem!Init, Exclusive, Idem!OneExecutionPerKey, Idem!NoExecutionInsideWindow
<1>3. OneDeliveryEach
  BY DEF Init, OneDeliveryEach
<1>4. \A s \in Session : SessionOK(s)
  BY DEF Init, SessionOK, Open, Absent
<1>5. \A c \in Call : Knows(c)
  BY DEF Init, Knows, Committing, WithFound
<1>6. SaidIsDecided /\ OneVerdictPerSession
  BY DEF Init, SaidIsDecided, OneVerdictPerSession, Unsaid, verdictEntries
<1>7. AnswersOK
  BY DEF Init, Idem!Init, AnswersOK, Idem!Live, Idem!Unsettled
<1> QED BY <1>1, <1>2, <1>3, <1>4, <1>5, <1>6, <1>7 DEF DInv

LEMMA DisciplinedNext == DInv /\ [Next]_vars => DInv'
<1> SUFFICES ASSUME DInv, [Next]_vars PROVE DInv'
  OBVIOUS
<1>1. ASSUME NEW c \in Call, Enter(c) \/ Repeat(c) \/ PortRejects(c)
      PROVE  DInv'
  BY <1>1, EnterDisciplined, ThrowsDisciplined
<1>2. ASSUME NEW c \in StartCall, StartHandler(c) \/ ProviderRejects(c)
      PROVE  DInv'
  <2>1. c \in Call
    BY CallFacts
  <2>2. CASE RejectWithoutConsent(c) \/ RejectWithoutIdentityId(c)
    BY <2>1, <2>2, ThrowsDisciplined
  <2>3. CASE GetIdentity(c) \/ SaveIdentity(c) \/ StartInquiry(c) \/ ProviderRejects(c)
    BY <2>1, <2>3, StartMovesDisciplined
  <2>4. CASE SaveInitiated(c) \/ SavePending(c)
    BY <2>4, SaveInitiatedDisciplined, SavePendingDisciplined
  <2>5. CASE AuditProviderError(c)
    BY <2>1, <2>5, AuditProviderErrorDisciplined
  <2>6. CASE AuditStarted(c) \/ PublishStarted(c)
    BY <2>1, <2>6, AppendStartedDisciplined
  <2>7. CASE ReturnStarted(c)
    BY <2>1, <2>7, ReturnsDisciplined
  <2> QED BY <1>2, <2>2, <2>3, <2>4, <2>5, <2>6, <2>7 DEF StartHandler
<1>3. ASSUME NEW c \in CompleteCall, CompleteHandler(c)
      PROVE  DInv'
  <2>1. c \in Call
    BY CallFacts
  <2>2. CASE RejectUnknownSession(c)
    BY <2>1, <2>2, ThrowsDisciplined
  <2>3. CASE FindSession(c)
    BY <2>1, <2>3, FindSessionDisciplined
  <2>4. CASE SaveCompleted(c)
    BY <2>1, <2>4, SaveCompletedDisciplined
  <2>5. CASE AuditVerdict(c)
    BY <2>1, <2>5, AuditVerdictDisciplined
  <2>6. CASE PublishVerdict(c)
    BY <2>1, <2>6, PublishVerdictDisciplined
  <2>7. CASE ReturnApplied(c) \/ ReturnCompleted(c)
    BY <2>1, <2>7, ReturnsDisciplined
  <2> QED BY <1>3, <2>2, <2>3, <2>4, <2>5, <2>6, <2>7 DEF CompleteHandler
<1>4. ASSUME NEW d \in Delivery, NEW ref \in DOMAIN inquiries, NEW verdict \in Verdict,
             SendWebhook(d, ref, verdict)
      PROVE  DInv'
  BY <1>4, SendWebhookDisciplined
<1>5. CASE Tick \/ UNCHANGED vars
  BY <1>5, TickDisciplined
<1> QED BY <1>1, <1>2, <1>3, <1>4, <1>5 DEF Next

\* Only three actions store a session.
LEMMA StatusStep ==
    ASSUME DInv, [Next]_vars
    PROVE  \A s \in Session : AlongTransitions(s)
<1>1. CASE sessions' = sessions
  BY <1>1 DEF AlongTransitions
<1>2. ASSUME NEW c \in StartCall, SaveInitiated(c) \/ SavePending(c)
      PROVE  \A s \in Session : AlongTransitions(s)
  BY <1>2, SaveInitiatedDisciplined, SavePendingDisciplined
<1>3. ASSUME NEW c \in CompleteCall, SaveCompleted(c)
      PROVE  \A s \in Session : AlongTransitions(s)
  BY <1>3, CallFacts, SaveCompletedDisciplined
<1>4. \/ sessions' = sessions
      \/ \E c \in StartCall : SaveInitiated(c) \/ SavePending(c)
      \/ \E c \in CompleteCall : SaveCompleted(c)
  <2>1. ASSUME NEW c \in Call, Enter(c) \/ Repeat(c) \/ PortRejects(c)
        PROVE  sessions' = sessions
    BY <2>1 DEF Enter, Execute, ReplayAnswer, JoinExecution, Repeat, PortRejects, storeVars
  <2>2. ASSUME NEW c \in StartCall, StartHandler(c) \/ ProviderRejects(c)
        PROVE  sessions' = sessions \/ SaveInitiated(c) \/ SavePending(c)
    BY <2>2 DEF StartHandler, RejectWithoutConsent, RejectWithoutIdentityId, GetIdentity,
       SaveIdentity, StartInquiry, AuditProviderError, AuditStarted, PublishStarted,
       ReturnStarted, ProviderRejects, storeVars
  <2>3. ASSUME NEW c \in CompleteCall, CompleteHandler(c)
        PROVE  sessions' = sessions \/ SaveCompleted(c)
    BY <2>3 DEF CompleteHandler, FindSession, RejectUnknownSession, ReturnApplied,
       AuditVerdict, PublishVerdict, ReturnCompleted, storeVars
  <2>4. ASSUME NEW d \in Delivery, NEW ref \in DOMAIN inquiries, NEW verdict \in Verdict,
               SendWebhook(d, ref, verdict)
        PROVE  sessions' = sessions
    BY <2>4 DEF SendWebhook, storeVars
  <2>5. CASE Tick \/ UNCHANGED vars
    BY <2>5 DEF Tick, vars, storeVars
  <2> QED BY <2>1, <2>2, <2>3, <2>4, <2>5 DEF Next
<1> QED BY <1>1, <1>2, <1>3, <1>4

-----------------------------------------------------------------------------

THEOREM Invariance == Spec => []IInv
BY InitInv, NextInv, PTL DEF Spec

\* Every variable keeps its type, whatever the requests and faults.
THEOREM TypeCorrect == Spec => []TypeOK
<1>1. IInv => TypeOK
  BY DEF IInv
<1> QED BY <1>1, Invariance, PTL

\* No session is stored as VERIFIED or FAILED unless the provider delivered that
\* verdict for an inquiry that StartVerification opened for this very session.
THEOREM VerdictsJustified == Spec => []VerdictJustified
<1>1. IInv => VerdictJustified
  <2> SUFFICES ASSUME IInv, NEW s \in Session,
                      sessions[s].status \in {"VERIFIED", "FAILED"}
               PROVE  /\ sessions[s].providerRef \in DOMAIN inquiries
                      /\ inquiries[sessions[s].providerRef].session = s
                      /\ \E d \in Delivery :
                          /\ webhooks[d].inquiry = sessions[s].providerRef
                          /\ sessions[s].status = "VERIFIED" <=> webhooks[d].verdict = "PASS"
    BY DEF VerdictJustified
  <2> QED BY DEF IInv, StoredOK, OwnInquiry, VerdictDelivered
<1> QED BY <1>1, Invariance, PTL

\* Whatever the event bus was given is in the audit log.
THEOREM EventsAudited == Spec => []PublishedAreAudited
<1>1. IInv => PublishedAreAudited
  BY DEF IInv
<1> QED BY <1>1, Invariance, PTL

\* The provider is only asked with consent, about a subject and a session that
\* are already stored, whatever the requests, their repetitions and the faults.
THEOREM ProviderAskedWithGrounds == Spec => []InquiriesGrounded
<1>1. Spec => []GInv
  BY GroundInit, GroundNext, PTL DEF Spec
<1>2. GInv => InquiriesGrounded
  BY DEF GInv
<1> QED BY <1>1, <1>2, PTL

\* The promises that other runs show to break without Discipline rest on one
\* invariant that holds with it, for any requests, repetitions and faults.
THEOREM Disciplined == Spec /\ Discipline => []DInv
BY DisciplinedInit, DisciplinedNext, PTL DEF Spec

\* The verdict of a session is audited at most once and published at most once,
\* however often its webhook is delivered and its handler fails.
THEOREM VerdictsOnce == Spec /\ Discipline => []OneVerdictPerSession
<1>1. DInv => OneVerdictPerSession
  BY DEF DInv
<1> QED BY <1>1, Disciplined, PTL

\* The reference a start request was answered with leads to the session in the
\* same answer, whatever is stored or retried afterwards.
THEOREM AnswersRoutable == Spec /\ Discipline => []AnswerRoutable
<1>1. DInv => AnswerRoutable
  <2> SUFFICES ASSUME DInv, NEW c \in StartCall, outcome[c].status = "fulfilled"
               PROVE  matching(outcome[c].value.ref) = {outcome[c].value.sessionId}
    BY DEF AnswerRoutable
  <2> DEFINE v == outcome[c].value
  <2>1. Routable(v)
    BY CallFacts DEF DInv, AnswersOK
  <2>2. v.sessionId \in matching(v.ref)
    BY <2>1 DEF Routable, matching
  <2>3. ASSUME NEW s \in matching(v.ref)
        PROVE  s = v.sessionId
    <3>1. /\ s \in Session /\ v.sessionId \in Session /\ v.ref # NoRef
          /\ sessions[s].providerRef = v.ref /\ sessions[v.sessionId].providerRef = v.ref
      BY <2>1 DEF matching, Routable
    <3>2. inquiries[v.ref].session = s /\ inquiries[v.ref].session = v.sessionId
      BY <3>1 DEF DInv, GInv, IInv, StoredOK, OwnInquiry
    <3> QED BY <3>2
  <2> QED BY <2>2, <2>3
<1> QED BY <1>1, Disciplined, PTL

\* A stored status only moves along TRANSITIONS, whichever handlers race to save
\* the session.
THEOREM StatusesFollowMachine == Spec /\ Discipline => StatusFollowsMachine
<1>1. DInv /\ [Next]_vars =>
        [\A s \in Session :
            \/ sessions'[s].status = sessions[s].status
            \/ sessions[s].status = "ABSENT" /\ sessions'[s].status = "INITIATED"
            \/ /\ sessions[s].status \in Status
               /\ canTransition(sessions[s].status, sessions'[s].status)]_vars
  BY StatusStep DEF AlongTransitions
<1> QED BY <1>1, Disciplined, PTL DEF Spec, StatusFollowsMachine

=============================================================================
