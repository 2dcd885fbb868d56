----------------------------- MODULE Middleware -----------------------------
(***************************************************************************)
(* The middleware chain of app/middleware, composed as its end-to-end test *)
(* composes it: auth, piiRedactor, tracing, idempotency, metrics and then  *)
(* the handler.  A request runs without a break from one await to the      *)
(* next: up to `await verify`, from there into the promise of the          *)
(* idempotency store (or of the handler), and from its settlement to the   *)
(* answer.  Nobody else can observe a promise between two layers, so each  *)
(* of these is one step.                                                   *)
(*                                                                         *)
(* A command that is idempotent itself (StartVerification,                 *)
(* CompleteVerification) is a handler that runs its work in the same store *)
(* under a key of its own, and that in the turn in which it is called: the *)
(* promise of the request is registered after it (IdempotencyTurns).  The  *)
(* adapters of onLog and of the metrics port are external and may throw.   *)
(***************************************************************************)
EXTENDS Integers, Sequences, FiniteSets

CONSTANTS
    Request,    \* calls of the composed handler
    Char,       \* what tenant ids, names and keys are written in
    Tenant, Scope, Command,
    Caller,     \* what verify() makes of a request's credential: a principal,
                \*   Refused, or NoCredential if there is none to verify
    Required,   \* requiredScopes
    CommandOf,  \* ctx.commandName of each request
    IdemKey,    \* the idempotencyKey of each input
    Keyed,      \* the requests in which the middleware's extractKey finds it
    ClassName,  \* the name an idempotent command puts in its own key, or NoName
    Ttl,        \* the window of each run of the store
    MaxClock,   \* BOUND on the clock of the store
    Fallible,   \* BOUND on the adapter calls that may throw, as <<request, place>>
    Refused, NoCredential, NoName, NoCall, NoValue

Principal == [tenant : Tenant, scopes : SUBSET Scope]
Run == Request \X {"middleware", "command"}

ASSUME RequestsAssumption ==
    /\ Caller \in [Request -> Principal \cup {Refused, NoCredential}]
    /\ Refused \notin Principal /\ NoCredential \notin Principal
    /\ Required \subseteq Scope
    /\ CommandOf \in [Request -> Command]
    /\ Keyed \subseteq Request
    /\ ClassName \in [Command -> Command \cup {NoName}]
    /\ NoName \notin Command
ASSUME TextsAssumption == /\ Tenant \subseteq Seq(Char)
                          /\ Command \subseteq Seq(Char)
                          /\ IdemKey \in [Request -> Seq(Char)]
ASSUME BoundsAssumption == /\ Ttl \in [Run -> Nat \ {0}]
                           /\ MaxClock \in Nat
                           /\ Fallible \subseteq Request \X {"enter", "observe", "exit"}
                           /\ NoCall \notin Run /\ NoValue \notin Request

VARIABLES
    stage,        \* of each request: "verify" (also before it arrives), "await", "answered"
    handler,      \* its call of the handler: "no", "called", "inside" the store
    returned,     \* what that call settled with
    answer,       \* the settlement of the request
    span,         \* its span: the exceptions on record and whether it ended
    log,          \* the phases onLog took down
    counters,     \* command_total by command, tenant and result
    observations, \* the number of durations by command and tenant
    faults,       \* the adapter calls that threw, as <<request, place>>
    now, cache, inflight, phase, outcome, stack, awaits, left \* the idempotency store

storeVars == <<now, cache, inflight, phase, outcome, stack, awaits, left>>
meters == <<counters, observations>>
vars == <<stage, handler, returned, answer, span, log, meters, faults, storeVars>>

AnyTenant == CHOOSE t \in Tenant : TRUE
tenantOf(r) == IF Caller[r] \in Principal THEN Caller[r].tenant ELSE AnyTenant

\* `${tenantId}:${name}:${key}`.
textOf(t, n, k) == t \o <<":">> \o n \o <<":">> \o k
Key == {textOf(t, n, IdemKey[r]) : t \in Tenant, n \in Command, r \in Request}

\* Mutant of fullKey: the tenant is left out.
fullKeyShared(r) == textOf(AnyTenant, CommandOf[r], IdemKey[r])

\* The key of the middleware: tenant, command, key.
fullKey(r) == textOf(tenantOf(r), CommandOf[r], IdemKey[r])

\* Mutant of commandKey: the tenant is left out.
commandKeyShared(r) == textOf(AnyTenant, ClassName[CommandOf[r]], IdemKey[r])

\* The key a command builds itself, with its class name.  Callers fill
\* input.tenantId with the tenant of their principal.
commandKey(r) == textOf(tenantOf(r), ClassName[CommandOf[r]], IdemKey[r])

Outer(r) == <<r, "middleware">>
Inner(r) == <<r, "command">>
Idempotent(r) == ClassName[CommandOf[r]] # NoName

\* The key of each run; a command that is not idempotent has no run of its own.
RunKey == [u \in Run |-> IF u[2] = "command" /\ Idempotent(u[1])
                         THEN commandKey(u[1]) ELSE fullKey(u[1])]

\* No fn of the chain throws at once; what the middleware wraps may be a command.
Store == INSTANCE IdempotencyTurns WITH
    Call <- Run,
    KeyOf <- RunKey,
    Inside <- [u \in Run |-> IF u[2] = "middleware" THEN {Inner(u[1])} ELSE {}],
    Throwing <- {},
    Result <- Request,
    Failure <- {"Failed", "MetricsError", "BadTtl"},
    BadTtl <- "BadTtl"

Unsettled == Store!Unsettled
Fulfilled(v) == Store!Fulfilled(v)
Rejected(e) == Store!Rejected(e)

NoSpan == [ended |-> FALSE, started |-> FALSE, exceptions |-> 0]

Init == /\ stage = [r \in Request |-> "verify"]
        /\ handler = [r \in Request |-> "no"]
        /\ returned = [r \in Request |-> Unsettled]
        /\ answer = [r \in Request |-> Unsettled]
        /\ span = [r \in Request |-> NoSpan]
        /\ log = [r \in Request |-> <<>>]
        /\ counters = [l \in Command \X Tenant \X {"ok", "error"} |-> 0]
        /\ observations = [l \in Command \X Tenant |-> 0]
        /\ faults = {}
        /\ Store!TurnsInit

At(r, s) == stage[r] = s
Goto(r, s) == stage' = [stage EXCEPT ![r] = s]
Respond(r, o) == Goto(r, "answered") /\ answer' = [answer EXCEPT ![r] = o]
Log(r, what) == log' = [log EXCEPT ![r] = Append(@, what)]

\* The adapter call at this place of request r throws.
Throws(r, place) == /\ <<r, place>> \in Fallible
                    /\ faults' = faults \cup {<<r, place>>}

------------------------------ (* the way in *) -----------------------------

Authorized(r) == /\ Caller[r] \in Principal
                 /\ Required \subseteq Caller[r].scopes

Refuse(r) ==
    /\ At(r, "verify") /\ ~Authorized(r)
    /\ Respond(r, Rejected(IF Caller[r] \in Principal THEN "Forbidden" ELSE "Unauthorized"))
    /\ UNCHANGED <<handler, returned, span, log, meters, faults, storeVars>>

StartSpan(r) == span' = [span EXCEPT ![r].started = TRUE]
CallHandler(r) == handler' = [handler EXCEPT ![r] = "called"]

\* The idempotency middleware: without a key it is a pass-through.
RunOnce(r) ==
    \/ r \notin Keyed /\ CallHandler(r) /\ UNCHANGED storeVars
    \/ r \in Keyed /\ CallHandler(r) /\ Store!Enter(Outer(r))
    \/ /\ r \in Keyed
       /\ Store!Replay(Outer(r)) \/ Store!JoinPromise(Outer(r))
       /\ UNCHANGED handler

Admit(r) ==
    /\ At(r, "verify") /\ Authorized(r)
    /\ Log(r, "enter") /\ StartSpan(r) /\ RunOnce(r)
    /\ Goto(r, "await")
    /\ UNCHANGED <<returned, answer, meters, faults>>

\* onLog throws for "enter": it is outside the try.
EnterThrows(r) ==
    /\ At(r, "verify") /\ Authorized(r)
    /\ Throws(r, "enter")
    /\ Respond(r, Rejected("LogError"))
    /\ UNCHANGED <<handler, returned, span, log, meters, storeVars>>

----------------------------- (* the handler *) -----------------------------

\* A handler that has just been called gets to its run of the store in the same
\* turn of the event loop: nothing happens in between.
Calling(r) == handler[r] = "called" /\ Idempotent(r)

\* An idempotent command runs its work in the store before anything else.
RunCommand(r) ==
    /\ Calling(r)
    /\ Store!RunTurn(Inner(r))
    /\ handler' = [handler EXCEPT ![r] = "inside"]
    /\ UNCHANGED <<stage, returned, answer, span, log, meters, faults>>

\* What ran in the store has come to an await: its promise is registered, the
\* command's before that of the request around it.
Suspend(r) ==
    /\ Store!Suspend(Outer(r)) \/ Store!Suspend(Inner(r))
    /\ UNCHANGED <<stage, handler, returned, answer, span, log, meters, faults>>

CommandSettles(r) ==
    /\ Store!FulfilHeld(Inner(r), r) \/ Store!RejectHeld(Inner(r), "Failed")
    /\ UNCHANGED <<stage, handler, returned, answer, span, log, meters, faults>>

\* What the call of the handler may settle with now.
Settlements(r) ==
    IF handler[r] = "called" /\ ~Idempotent(r) THEN {Fulfilled(r), Rejected("Failed")}
    ELSE IF handler[r] = "inside" THEN {outcome[Inner(r)]} \ {Unsettled}
    ELSE {}

\* What the metrics middleware makes of it.
metered(r, o) == IF <<r, "observe">> \in faults THEN Rejected("MetricsError") ELSE o

Count(r, results) ==
    counters' = [l \in DOMAIN counters |->
        IF l[1] = CommandOf[r] /\ l[2] = tenantOf(r) /\ l[3] \in results
        THEN counters[l] + 1 ELSE counters[l]]
Observe(r) == observations' = [observations EXCEPT ![<<CommandOf[r], tenantOf(r)>>] = @ + 1]

resultOf(o) == IF o.status = "fulfilled" THEN "ok" ELSE "error"

Deliver(r, out) ==
    \/ r \notin Keyed /\ UNCHANGED storeVars
    \/ /\ r \in Keyed
       /\ IF out.status = "fulfilled" THEN Store!FulfilHeld(Outer(r), out.value)
          ELSE Store!RejectHeld(Outer(r), out.value)

\* A throw of observe() in the try is caught there, counted as an error, and
\* thrown again by the observe() of the catch.
Measure(r, o) ==
    \/ /\ Count(r, {resultOf(o)}) /\ Observe(r)
       /\ Deliver(r, o)
       /\ UNCHANGED faults
    \/ /\ Throws(r, "observe")
       /\ Count(r, {resultOf(o), "error"})
       /\ Deliver(r, Rejected("MetricsError"))
       /\ UNCHANGED observations

Return(r) ==
    /\ returned[r] = Unsettled
    /\ \E o \in Settlements(r) : /\ Measure(r, o)
                                 /\ returned' = [returned EXCEPT ![r] = o]
    /\ UNCHANGED <<stage, handler, answer, span, log>>

----------------------------- (* the way out *) -----------------------------

\* What the layers inside tracing gave the request.
settled(r) == IF r \in Keyed THEN outcome[Outer(r)] ELSE metered(r, returned[r])

\* Mutant of EndSpan: the span of a failed command is left open.
EndSpanOk(r, o) ==
    span' = IF o.status = "fulfilled" THEN [span EXCEPT ![r].ended = TRUE]
            ELSE [span EXCEPT ![r].exceptions = 2]

\* The exception is recorded by the middleware and again by startSpan.
EndSpan(r, o) ==
    span' = [span EXCEPT ![r].ended = TRUE,
                         ![r].exceptions = IF o.status = "fulfilled" THEN 0 ELSE 2]

\* A throw of onLog for "exit" is caught, logged as an error and rethrown.
LogAndRespond(r, o) ==
    \/ /\ Log(r, IF o.status = "fulfilled" THEN "exit" ELSE "error")
       /\ Respond(r, o)
       /\ UNCHANGED faults
    \/ /\ Throws(r, "exit")
       /\ IF o.status = "fulfilled" THEN Log(r, "error") ELSE UNCHANGED log
       /\ Respond(r, Rejected("LogError"))

\* Mutant of Answer: metrics are outside the idempotency middleware.
AnswerCounted(r) ==
    /\ At(r, "await") /\ settled(r) # Unsettled
    /\ EndSpan(r, settled(r))
    /\ LogAndRespond(r, settled(r))
    /\ IF returned[r] = Unsettled THEN Count(r, {resultOf(settled(r))}) /\ Observe(r)
       ELSE UNCHANGED meters
    /\ UNCHANGED <<handler, returned, storeVars>>

Answer(r) ==
    /\ At(r, "await") /\ settled(r) # Unsettled
    /\ EndSpan(r, settled(r))
    /\ LogAndRespond(r, settled(r))
    /\ UNCHANGED <<handler, returned, meters, storeVars>>

Tick == /\ Store!Tick
        /\ UNCHANGED <<stack, awaits, left>>
        /\ UNCHANGED <<stage, handler, returned, answer, span, log, meters, faults>>

-----------------------------------------------------------------------------

\* A turn of the event loop ends before another begins.
Reached == \A q \in Request : ~Calling(q)
Quiet == Reached /\ stack = <<>>

Step(r) == \/ RunCommand(r)
           \/ Reached /\ Suspend(r)
           \/ /\ Quiet
              /\ \/ Refuse(r) \/ Admit(r)
                 \/ CommandSettles(r) \/ Return(r) \/ Answer(r)

Next == \/ \E r \in Request : Step(r)
        \/ Quiet /\ (Tick \/ \E r \in Request : EnterThrows(r))

Spec == Init /\ [][Next]_vars

\* Verifiers and handlers settle, and their continuations run.
FairSpec == Spec /\ WF_vars(\E r \in Request : Step(r))

------------------------------ (* properties *) -----------------------------

\* Types of the state.
Errors == {"Failed", "MetricsError", "LogError", "Unauthorized", "Forbidden"}
Settlement == [status : {"pending"}, value : {NoValue}]
              \cup [status : {"fulfilled"}, value : Request]
              \cup [status : {"rejected"}, value : Errors]
TypeOK ==
    /\ stage \in [Request -> {"verify", "await", "answered"}]
    /\ handler \in [Request -> {"no", "called", "inside"}]
    /\ returned \in [Request -> Settlement]
    /\ answer \in [Request -> Settlement]
    /\ span \in [Request -> [ended : BOOLEAN, started : BOOLEAN, exceptions : {0, 2}]]
    /\ log \in [Request -> Seq({"enter", "exit", "error"})]
    /\ counters \in [Command \X Tenant \X {"ok", "error"} -> Nat]
    /\ observations \in [Command \X Tenant -> Nat]
    /\ faults \subseteq Fallible
    /\ Store!TurnsTypeOK

\* A request shares what it does under the keys it runs in the store with: first
\* that of the middleware, if it has one.
Sharing == {r \in Request : r \in Keyed \/ Idempotent(r)}
Named(r, name) == textOf(tenantOf(r), name, IdemKey[r])
FirstKey(r) == Named(r, IF r \in Keyed THEN CommandOf[r] ELSE ClassName[CommandOf[r]])
WorkKey(r) == Named(r, IF Idempotent(r) THEN ClassName[CommandOf[r]] ELSE CommandOf[r])
WorkDone(r) == IF Idempotent(r) THEN outcome[Inner(r)] = Fulfilled(r)
               ELSE returned[r] = Fulfilled(r)

\* What runs under a key asks for what runs under those below it: commandKey
\* below fullKey, for the requests that have both.
Below == {<<Named(r, CommandOf[r]), Named(r, ClassName[CommandOf[r]])>> :
            r \in {q \in Keyed : Authorized(q) /\ Idempotent(q)}}
ClosedBelow == {S \in SUBSET Key : \A e \in Below : e[1] \in S => e[2] \in S}
Reach == [k \in Key |-> {j \in Key : \A S \in ClosedBelow : k \in S => j \in S}]

\* auth and idempotency (auth.ts:37, idempotency.ts:22): whoever gets a value
\* was authorized, and the value, replayed or not, is its own or that of work
\* done for an authorized request, under a key that its own first key leads to.
AnswersEarned ==
    \A r \in Request : answer[r].status = "fulfilled" =>
        LET q == answer[r].value
        IN  /\ Authorized(r) /\ Authorized(q) /\ WorkDone(q)
            /\ \/ q = r
               \/ {q, r} \subseteq Sharing /\ WorkKey(q) \in Reach[FirstKey(r)]

\* Where tenant ids and command names hold no colon, keys tell them apart, and
\* so a value stays with its tenant and its key, however promises and results
\* are shared (idempotency.ts:21).
ColonFree == \A s \in Tenant \cup Command : \A i \in DOMAIN s : s[i] # ":"
AnswersStayWithTenant ==
    ColonFree => \A r \in Request : answer[r].status = "fulfilled" =>
        LET q == answer[r].value
        IN  tenantOf(q) = tenantOf(r) /\ IdemKey[q] = IdemKey[r]

\* metrics (metrics.ts:21): the counters tell how many times the handler ran,
\* and how it ended, for each command and tenant, whatever is replayed or
\* joined; only an observe() that throws counts a success as an error too.
Executed(c, t, result) ==
    {r \in Request : /\ CommandOf[r] = c /\ tenantOf(r) = t
                     /\ returned[r] # Unsettled /\ resultOf(returned[r]) = result}
Unobserved == {r \in Request : <<r, "observe">> \in faults}
MetricsCountExecutions ==
    \A c \in Command, t \in Tenant :
        LET ok == Executed(c, t, "ok")
            error == Executed(c, t, "error")
        IN  /\ counters[<<c, t, "ok">>] = Cardinality(ok)
            /\ counters[<<c, t, "error">>] = Cardinality(error \cup (ok \cap Unobserved))
            /\ observations[<<c, t>>] = Cardinality((ok \cup error) \ Unobserved)

\* tracing (tracing-port.ts:5) and piiRedactor: a request that is let in has
\* one span and one "enter"; when it is answered its span has ended, with
\* exceptions exactly if what it wraps was rejected, and "exit" is in the log
\* exactly if the caller got the value.
TracesTellOutcome ==
    \A r \in Request :
        LET admitted == Authorized(r) /\ <<r, "enter">> \notin faults
        IN  At(r, "answered") =>
            /\ span[r].ended <=> admitted
            /\ span[r].exceptions # 0 <=> admitted /\ settled(r).status = "rejected"
            /\ admitted <=> log[r] # <<>> /\ Head(log[r]) = "enter"
            /\ log[r] = <<"enter", "exit">> <=> answer[r].status = "fulfilled"

\* Every request is answered, although commands run in the store from inside
\* the store, and that under the very key of their request if the chain gives
\* them the name of their class (idempotency.ts:22, start-verification.ts:78,
\* fake-idempotency.ts:37).
RequestsAnswered == <>\A r \in Request : At(r, "answered")

=============================================================================
