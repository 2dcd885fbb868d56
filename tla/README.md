# Compliance core: a TLA+ development

Specifications of the application core in `packages/core/src`: the commands that
start and complete identity verifications, the idempotency store they run behind,
the middleware chain around commands, the commands that screen subjects against
sanctions lists, the event bus all of them publish to, the hash-chained audit log they
write, and the algorithms and small stores they use. TLC checks small instances, TLAPS proves
the main safety properties for every value of the constants.

## The system

The code is a hexagonal core. Commands (`app/commands`) call ports (`app/ports`);
the adapters in the repository are the in-memory ones (`app/ports/__fakes__`), and a
contract suite (`app/ports/__contract__`) fixes what other adapters have to do. Node
runs one callback at a time, so commands interleave exactly at their `await`s, and
every `await` is a port call.

| component | state | operations | talks to |
|---|---|---|---|
| idempotency store | `cache`, `inflight` | `run(key, ttlMs, fn)` | wraps both verification commands |
| StartVerification | local variables across awaits | `execute` | idempotency, repository, provider, audit log, event bus |
| CompleteVerification | local variables across awaits | `execute`, from a webhook | idempotency, repository, audit log, event bus |
| verification session | status, decision, provider reference | `create`, `markPending`, `markCompleted`, `markExpired` | value kept by the commands |
| repository | identities, sessions, matches | `save*`, `get*`, `list*` | |
| verification provider | its inquiries (external) | `startVerification`; sends webhooks | |
| audit log | chained entries | `append`, `verify`, `export`, `stream` | AuditChainService |
| event bus | subscribers, dead letters | `publish`, `subscribe` | subscribers |
| sanctions screening | matches, reviews | `screen`, `refreshLists`, `resolveMatch` | repository, audit log, event bus |
| middleware | none of its own | `compose`, auth, idempotency, metrics, tracing, redaction | idempotency store |
| credential vault, secrets store | credentials, live handles, watchers | `loadCredentials`, `rotate`, `watch` | |
| value objects, canonical JSON | none | parsing, arithmetic, serialisation | |

What is hard here, and what the properties are about:

* **Interleaving.** A handler reads a session, awaits, and saves what it computed
  from it. Two webhooks for one inquiry, or a webhook and a repeated start request,
  overlap in any order.
* **Ordering.** The provider may send its webhook before StartVerification has
  stored the reference the webhook carries.
* **Partial failure and retry.** Any port call may reject. The idempotency store
  forgets rejections, so the client or the provider repeats the request and the
  handler runs from its first line over what the first attempt left.
* **Windows.** A result is remembered for 24 hours (start) or 14 days (webhook);
  afterwards the same key executes again.
* **Joining.** Callers of a key that is executing get the settlement of that
  execution, its rejection included.
* **Turns.** The store calls `fn` before it registers its promise, so what runs in the
  first turn of `fn` sees the store without it.
* **Storage.** The chain has to expose damage of several kinds at any position,
  also when entries are appended on top of it and while it is being read.

`PROJECT.json` lists each of these at its line with the properties that watch it.

## Modules

| module | models | built on |
|---|---|---|
| `AtMostOnce` | the contract of `IdempotencyPort` | |
| `Idempotency` | `FakeIdempotency`, one step per turn; implements `AtMostOnce` | `AtMostOnce` (as a refinement) |
| `IdempotencyTurns` | `FakeIdempotency` within a turn; implements `Idempotency` for disciplined `fn`s | `Idempotency` |
| `VerificationSession` | the session entity and `TRANSITIONS` | |
| `Verification` | both commands, repository, audit log, bus, provider, faults | `VerificationSession`, an instance of `Idempotency` |
| `AuditChain` | `AuditChainService`, `FakeAuditLog`, `ComplianceEvent`, the audit queries | `Selection` |
| `Sanctions` | ScreenSanctions, RefreshSanctionsLists, faults | `Selection` |
| `EventBus` | `FakeEventBus`, its subscribers and their handlers | |
| `Middleware` | the composed chain: auth, redaction log, tracing, idempotency, metrics, and the commands inside | an instance of `IdempotencyTurns` |
| `Redaction` | `redact`, `assertRedacted`, `canonicalJson` on payload trees | `Selection` |
| `Values` | `Decimal`, `TaxId` | |
| `Listing` | times as texts, periods, pages, the listings of sessions | `Selection` |
| `Selection` | `Array.prototype.filter`, as a recursive function | |
| `Review` | sanctions matches, who resolves them, what is stored and listed of them | `Listing`, `Selection` |
| `Vault` | credential handles, the vault, the secrets store | |
| `Records` | `Vault`, `Review` and inputs of the algorithms above, side by side | `Vault`, `Review`, `Redaction`, `Values` |
| `Ports` | audit log, event bus, and the store within a turn, side by side | `AuditChain`, `EventBus`, `IdempotencyTurns` |
| `MCPorts` | their instance | `Ports`, `MCAuditChain` |
| `MCRecords` | the inputs of its runs | `Records` |
| `MC*` | the other instances TLC checks | the module of that name |
| `*_proofs` | theorems | the module of that name |

### Idempotency

`run` has no `await` before it returns or registers its promise, so its body is one
step with four outcomes: `RejectTtl`, `ReturnCached`, `Join`, `Begin`. The
continuation of `await fn()` is the other step, `Fulfil` or `Reject`: it writes the
cache, removes the promise, and settles everybody in `Awaiting`. `phase` and
`outcome` are what each invocation has come to; `Again` lets a caller repeat its
request. The clock is integer time; `Ttl` may be zero or negative, as in the code.

`Begin` includes the first turn of `fn`: the code calls `fn` and registers the promise
when `fn` has come to its first `await`. `IdempotencyTurns` takes that turn apart.
`stack` is the invocations whose `fn` is in its first turn (`Enter`); only what these
call can run (`MayRun`), until the innermost of them awaits and its promise is
registered (`Suspend`), or throws (`ThrowAtOnce`), which runs the `finally` first and
leaves a rejected promise in `inflight` (`left`). Joiners hold the promise they found
(`awaits`), whatever is registered under the key later. So a call of `fn`'s own key in
its first turn executes as well, although the port says that only one execution
proceeds, and one after its first `await` would join its own promise. An `fn` that throws
instead of returning a promise leaves its rejection to every later call of the key,
although the port says that failures are not cached. No `fn` of the repository does either,
except in the middleware, below.
`Disciplined` `fn`s run other keys in their first turn and do not throw in it; for
them the turn is `Begin` (`ImplementsStore`). The commands are async functions and
never run their own key, so `Verification` uses `Idempotency`; the middleware may put a
command inside its own key, so `Middleware` uses `IdempotencyTurns`. A handler that
awaits something before it runs the key it was called under would wait for itself; there
is none in the repository and none in the model.

### Verification

An invocation of a command is a member of `StartCall` or `CompleteCall`. `step[c]` is
the port call it is suspended in and `held[c]` its session variable (`session`,
`pending`, `updated`). An action is one port call taking effect together with the
synchronous code up to the next. The store of `Idempotency` is an instance over the
same variables: `Execute`, `ReplayAnswer` and `JoinExecution` enter through it, and a
handler leaves with `Return` or `Throw`, which settle its promise. Entering a start
request runs the checks that need no port call (`firstStep`).

* `saveSession` overwrites whatever is stored, so `SaveInitiated` does not look at
  the stored session; `FindSession` copies it and `SaveCompleted` uses the copy.
* `ProviderRejects` goes to the audit call in the `catch`; every other port call in
  `Fallible` may reject by `PortRejects`, which rejects the command. A port that
  rejects has had no effect. `Identity.create` refusing a date of birth in the
  future ends like `saveIdentity` rejecting.
* The provider is external: references are numbers in the order inquiries were
  opened, a delivery carries one inquiry and one verdict, and redelivery repeats the
  same content. With `OneDelivery` it uses one delivery id per inquiry.

### AuditChain

SHA-256 is symbolic: the hash of an input is the sequence of everything that went
into it, so two hashes are equal when the texts hashed are, and a flipped digit
(`corruptHashAt`) is a value no input has. What is hashed of an event is a text,
`joined[event]`: its five fields with `|` between them, unescaped, the payload by
`canonicalJson`, which gives some different payloads one text (`CanonicalDecides` in
`Redaction` says which). So `joined` is any function, and the instances have two events
of one text. `verify` is written as the first position with a finding, and `finding`
keeps the order of the three tests of the loop. `export` and `stream` are one
generator over the live array: `Pull` treats one entry, and anything may happen between
two of them. `appended` is what `append` stored and returned; an entry is `sealedAs` one of
these if it has its number, link, hash and hashed text.

Storage faults are external: a changed hash, changed content, a resealed, removed or
swapped entry. Unless `TailFaults`, they spare the tail: an entry cut from the end, or a
resealed last entry, leaves a chain that verifies, because nothing records how long the
log should be. An event replaced by another one of the same text verifies too, so what
"no event was tampered, removed" in `audit-chain-service.ts` may mean is `FaultDetected`,
with both exceptions. `MaxFaults` is 1 in the run, because several faults can cancel each other:
swapping the last two entries, appending, and removing one entry can leave a chain
whose numbers and links are right.

### Sanctions

The commands run without the idempotency store, over the repository, audit log and bus
that `Verification` describes; here their other users matter only through the matches
found twice. `step[c]` is again the port call invocation `c` is suspended in.
`candidates`, `position` and `matchIds` are the local variables of the loop: `keep` are
the positions of the candidates that reach the threshold, `left` those still to come,
and an iteration is `SaveMatch` (which also pushes the id), `AuditMatch`,
`PublishMatch`. `PortRejects` ends the command where it is and undoes nothing. The
provider is external and answers any sequence of `Answers`; `screened` records what it
answered, so that the answer of the command can be compared with it.

### EventBus

`publish` runs up to `Promise.all` in one step: it records the event and calls every
handler subscribed at that moment. `call[p][h]` is that call; it fulfils or throws at
any later time (`HandlerSettles`), and `Resolve` is the continuation of `Promise.all`.
`token` is the state of each `Unsubscribe`, its flag `removed` included. `cutOff` is a
history variable: a handler that several subscriptions share is in the set once, so the
removal of one of them silences the others. The commands' modules keep `publish` as one
port call that takes effect when it starts and returns at any later time, which is what
`ResolvedAfterAll` says of it. That `publish` resolves once its handlers settled is so by
construction.

### Middleware

The chain is composed as the end-to-end test composes it: auth, piiRedactor, tracing,
idempotency, metrics, handler. A request is suspended in `verify`, in the promise it got
from the layer of the idempotency store, or answered (`stage`); its call of the handler,
if it makes one, has a state of its own (`handler`, `returned`), because a promise may be
joined by requests that never call. `Admit` is the synchronous way in through four
layers, `Return` the way out through metrics into the store, `Answer` the way out through
tracing and the redactor. Two layers next to each other take their microtasks with
nothing observable in between, so they are one step.

The handler may be a command that is idempotent itself (`ClassName`): it runs in the same
store, under `${tenantId}:${class name}:${key}`. `RunCommand` follows `Admit` in the same
turn and `Suspend` follows it, the command's promise registered before the request's, so
no step of anyone comes between (`Reached`, `Quiet`). If the chain gives the command its
class name as `commandName`, both keys are one. The command then finds no promise, executes,
and the request answers with what it gets; `RequestsAnswered` holds in that instance
because the promise is registered late, as its mutant shows.

The adapters behind `onLog` and the histogram are external and may throw once per place
(`Fallible`). Then the code, and the model, do this: an `observe` that throws turns a success
into a rejection, which is counted as `ok` and as `error`; an `onLog("exit")` that throws
is caught by the `catch` meant for the command, which logs the command as failed. Of a span's
exception there are two records, the middleware's and the adapter's. Callers fill
`input.tenantId` with the tenant of their principal.

Keys are texts (`textOf`). With colons in tenant ids or command names two requests may
have one key, so `AnswersEarned` says what holds for any texts: a value comes from work
done for an authorized request under a key that the caller's own leads to. Where the
names hold no colons it stays with tenant and key (`AnswersStayWithTenant`).

### Algorithms and stores (`Records`, `MCRecords`)

A behaviour of `Records` is about one topic: an input of an algorithm (`Input`, which
then stays as it is), or the vault, or the reviews. The inputs have types (`Payload`,
`DecimalText`, `Shape`, `DateText`, `Session`, `Filter`) which are all that the proofs
assume of them; a run gives finite sets of them. What the code writes as recursion is a
recursive function here.

* `Redaction`: a JavaScript value is its kind and content; an object keeps its entries
  in order. `level` is what values there are up to a depth, and `Payload` those up to
  `MaxDepth`, any number. `walkInto` and `stringifyInto` are the bodies of `walk` and
  `stringify`, with the function they call as a parameter. A text is a sequence of tokens; a
  string is one of them, which stands for what `JSON.stringify` makes of it, and
  `PayloadAssumption` says that numbers are not written like punctuation.
  `RedactionExact` compares `walk` with a definition by paths, and says what
  `assertRedacted` refuses and lets pass wherever code and comment agree; what the comment
  promises beyond that is `RefusesRawPII`, which the code violates. `CanonicalDecides`
  compares the texts of two payloads with what they mean (`alike`): canonical JSON writes a
  bigint like the string with its `n`, a `PIIString` as `{}`, and an array of one
  `undefined` as `[]`. The middleware redacts the message of an exception as `{message}`, a
  key which is not forbidden, so the message stays as it is.
* `Values`: a decimal's text is sign, whole part and digits; `power` and `leading` are
  powers of ten and the number that leading digits make. A tax id is a `Shape`: numbers
  of letters and digits, first digit, separator. `KINDS` has each country's kinds in the
  order in which the code tries their patterns. In Colombia every NIT matches the pattern
  of a cedula first, so no NIT is ever inferred and one declared as such is refused.
* `Listing`: the audit log's export and the listings of sessions compare times as
  strings. That is the order in time for times of one zone with equally many
  digits, which is what `ISODateTime.now` writes; `ISODateTime.parse` accepts other
  offsets and precisions, and for them `TimesInOrder` says where texts and times part.
* `Review`: `resolveMatch` works on the provider's copy; the repository keeps what
  screenings saved, so a listing shows matches as last reported. A feed that reports a
  match again replaces the provider's copy and the review with it.
* `Vault`: a handle is a copy (`makeDisposableCredentials`); `rotate` is a no-op of the
  in-memory vault, so rotation is `seed`. The watchers of a path are a sequence, the
  insertion order of the `Set`. `set` calls them in its own turn until one throws, and
  then throws itself, with the secret stored (`Calls`), so the watchers behind it are not
  called, although the port promises every rotation to every watcher. `unsubscribe` deletes the
  callback, whoever registered it, the first time it is called. `passedOver` are
  the watchers behind a callback that threw in the last `set`, `cutOff` those whose
  callback another's `Unsubscribe` took. A callback that watches, unsubscribes or sets
  inside `set` is left out.

## Runs

| run | instance | shows |
|---|---|---|
| `idempotency` | two callers of one key with windows 1 and 2, a third caller with window 0, one on another key; clock to 3 | the types; one execution per key (`OneExecutionPerKey`) and none inside a window; whoever joins is answered; the store implements `AtMostOnce` |
| `verification` | two clients, one webhook with redelivery and expiry, one rejected port call | verdicts are the provider's and reach the right session (`VerdictJustified`); events are audited; an answered reference leads back to its session; one verdict per session; stored statuses follow `TRANSITIONS` |
| `verification_liveness` | one request over three connections, one without consent and one without identity ids; one webhook; one rejected port call | the provider is asked only with consent and about what is stored; every caller is answered; a webhook that overtakes its session is recovered |
| `ports` | an audit log of up to 3 appends of three events, two of which have one text to hash, with one storage fault that spares the tail and one reader; a bus with two events of two types, two handlers, four subscriptions, two of them of one handler for one type; a store with four calls of one key, of which one runs another in its first turn, one throws at once and one has window 0, clock to 2 | intact logs verify; a log that verifies has every entry at its place with its number, link, hash and text; readers get what was sealed and a finished stream missed nothing; who is subscribed; `publish` waits for every handler; dead letters are the calls that threw; whoever joined a promise is answered, whatever is registered for the key by then (`HoldersAnswered`) |
| `sanctions` | a screening with the default threshold, one of the same subject with a lower one, a refresh; matches at 79, 80 and 100; one rejected port call | answers are complete and on record; each screening publishes what it audited, in that order, one behind at most; a stored match lacks its audit entry only where a call rejected |
| `middleware` | five requests of one idempotent command: one, the same without a key for the middleware, the same of another tenant, the same under the name of the command's class, one without the scope; one throw of each adapter | everyone is answered (`RequestsAnswered`), with work their key leads to (`AnswersEarned`); values stay with tenant and key (`AnswersStayWithTenant`); counters tell executions, and neither replays nor joins; spans and logs tell what the caller got |
| `records` | about 33,000 inputs, all pairs of payloads among them: trees of depth three, decimals of three digits, tax ids of every country, times of three zones; two accounts, two handles, four watchers; three reviewers, two matches | each algorithm agrees with its reference definition; handles keep their value; watchers know the value of their secret, but for the two exceptions named in `WatchersCurrent`; reviewers are not told of what they did not do |

Five runs show where the code and its own text disagree. Each is expected to be
violated, and `PROJECT.json` quotes the text.

* `duplicate_delivery`: two deliveries of one inquiry with different ids both pass
  the terminal check and publish the verdict twice. The idempotency key is the
  delivery id, and the check reads the session before an `await`.
* `terminal_overwritten`: a start request fails at the audit log after its session
  is PENDING, the webhook is applied, the client retries, and VERIFIED becomes
  INITIATED.
* `verdict_lost`: the audit log rejects after the verdict is saved; the redelivery
  is accepted as already applied, and the verdict is never audited or published.
* `audit_range`: checking entries 2 to n of an intact log reports a gap, because
  `verify` starts from sequence number 1 and the zero hash.
* `raw_pii_accepted`: the audit log takes a payload with a `PIIString`, or with a
  forbidden key inside an array.

### Bounds

`MaxClock`, `MaxFaults`, `MaxAppends`, `MaxFeeds` (how often the feed reports matches again)
and `MaxDepth` (how deep payloads are nested) are the only bounds; the sets of calls, keys
and sessions are finite by the instance. The proofs hold for any values of the five;
`OneFaultDetected` and `OneFaultNotDelivered` speak of the states with at most one storage
fault, whatever `MaxFaults` allows.

* Two callers of one key and one of another are what the store's code tells apart;
  a clock of 3 lets both windows expire and reopen.
* In `verification` the webhook has a window of 1 and the start requests one of 2,
  with a clock of 1: a webhook executes again after its window, a start request does
  not. That start requests do overwrite a session when repeated late, or after a
  failure that follows `savePending`, is what `terminal_overwritten` shows, so
  the passing run keeps those two calls (`auditStarted`, `publishStarted`) from
  rejecting. `VerdictJustified` and `PublishedAreAudited` are proved without this
  restriction.
* `verification_liveness` lets those calls reject that a repetition recovers from
  completely (`Recoverable`). A rejected `auditVerdict` or `publishVerdict` loses the
  verdict, which is `verdict_lost`.
* In `sanctions` two screenings are enough for matches found twice, and an answer of
  two matches for a loop that goes round after a first iteration; 79, 80 and 100 lie
  below, at and above the default threshold, and all above the other one.
* In `ports` (75,000 states, one minute) one handler is subscribed twice for a type, which
  lets a subscription be made, removed, and removed again after another one of the same
  handler was made. Three appends put an entry before, at, and after a fault, with one
  appended on top. A nested call and calls from outside are what a first turn can tell
  apart: a promise found, one replaced, one cleared, one rejected before it was registered.
* In `middleware` (180,000 states, two minutes) the windows are 1 and 2 on a clock of 1, so
  the middleware's result expires while the command's is still there. Adapters throw in
  requests that others share a key with. No text of the instance holds a colon: what
  holds of those that do is the theorem of `AnswersEarned`.
* `records` (240,000 states, one minute) has trees deep enough for an array in an object in
  an array, numbers of digits at both ends of each pattern of a tax id, and one callback shared by two
  subscriptions of a path and one of another path.

`ports`, `audit_range`, `middleware` and `records` switch the deadlock check off: the log stops
growing and its reader ends when the bounds are reached, requests of the middleware are
made once, and an input stays as it is. In the other passing runs somebody can always repeat a
request.

### Fairness

* `Idempotency!Fairness`: `fn` settles. The port's callers are commands whose port
  calls settle.
* `TurnsFairness`: a turn ends, and `fn` settles. Strong fairness for the settlement,
  which is possible only between turns: its continuation is in a queue, first in, first
  out, which no turn overtakes for ever.
* `HandlerFairness`: a port call that can complete completes. The adapters are
  in-memory promises, or have time-outs of their own.
* `Middleware!FairSpec`: verifiers and handlers settle, and what is ready to run is
  run. Joining is not assumed to end: that is `RequestsAnswered`.
* `ProviderFairness` (external): the provider repeats a rejected webhook until it is
  accepted, and a webhook it sent reaches the handler. The 14-day window exists for
  this. There is no fairness on clients: `VerdictRecorded` speaks only of webhooks
  that were sent, and holds also if the client never repeats its request.

## Proofs

`tlapm` proves every obligation of eight modules. All results hold for every value
of the constants that satisfies the named assumptions.

**`Idempotency_proofs`** (from `CallsAssumption`, `ValuesAssumption`): types;
`OneExecutionPerKey`; `NoExecutionInsideWindow`; and `Implementation`, that every
step of the store is a step of `AtMostOnce` or leaves its variables alone.
`OneExecutionPerKey` is inductive with the types, because `inflight` names the
invocation whose promise it holds. The window theorem needs it: `Fulfil` writes the
cache of a key whose promise it removes, and only the link between `phase` and
`inflight` says that no other execution of that key goes on. The refinement uses a
third invariant, that whoever joined waits for a promise that exists.
`TurnsImplementation` shows that `IdempotencyTurns` implements `Idempotency` for
`Disciplined` `fn`s. An invocation in its first turn counts as running and as registered
(`Owner`); that this is one invocation per key (`EnteredApart`, `RegisteredRuns`), and that a
joiner holds the promise registered under its key (`JoinersHold`), is the invariant.

**`Verification_proofs`** (from `RequestsAssumption`, `BoundsAssumption`) has three
inductive invariants, each for any number of requests, deliveries, keys and faults.

`IInv` gives the types, `VerdictJustified` and `PublishedAreAudited`, with any port
call rejecting and any windows. What a handler saves was read, or computed, some
awaits earlier, so `IInv` adds

* `SentOK`: a delivery that was sent names an inquiry that exists;
* `StoredOK`: a stored reference belongs to an inquiry opened for that session, and a
  stored verdict has its delivery;
* `HandlersOK`: at each step, whose request it is, what the session variable holds,
  and that the entry to be published has been audited.

A step moves one handler. Inquiries, audit entries and deliveries only grow
(`Grows`), so what every other handler knows stays true (`HandlersPersist`), and so
does what is stored (`StoredPersists`). `HandlerStep` packs this once; the lemma of
each action shows what that action does itself.

`GInv` adds `InquiriesGrounded`, again with any port call rejecting: a start request past
the consent check has the consent, and past each save the row it saved is there
(`Grounded`), because rows are replaced and never removed (`Remembers`).

`DInv` adds `OneVerdictPerSession`, and gives `AnswerRoutable` and `StatusFollowsMachine`.
The runs `duplicate_delivery` and `terminal_overwritten` show that the first and the last
fail in general. `Discipline` is what has to be granted, and the theorems
have it as a hypothesis, not the model as an assumption:

* no start request is repeated after its window (`MaxClock < Ttl[c]`);
* the audit and publish calls that follow `savePending` do not reject;
* requests for one session have one idempotency key;
* the provider has one delivery id per inquiry (`OneDelivery`).

By the first two a start request whose session is PENDING is never executed again. Nothing
is said of how requests, webhooks and redeliveries interleave, of webhook windows, or of
the other calls, all of which may reject; the instances of `verification` and
`verification_liveness` satisfy the four. The store then runs one execution per key
(`Exclusive`), so an open session has a start request that is about to answer or whose
answer is replayed up to the end of the clock (`Committed`), and nobody
initiates it again; and a verdict about to be logged is stored and not logged yet
(`Knows`).

**`AuditChain_proofs`** (from `EventAssumption`, `BoundsAssumption`, for any `joined`):
types; `IntactLogVerifies`, that a log of any length the storage kept is found intact, with
every prefix of it, because every entry is the seal of its event over the hash of
its predecessor (`Chained`); `OneFaultDetected`, `OneFaultNotDelivered` and
`StreamsComplete`, from `FInv`. After the one fault either some entry has a finding and
keeps it (`FaultShows`), because entries appended later are behind it and change neither it
nor its predecessor, or the log is `Alike`, every entry still `sealedAs` what was appended
there: an event was replaced by one with the same text. A fault either leaves every entry at its place, those
with their own hash with the text appended there (`InPlace`), or it leaves no entry
with a hash that is not its own (`Sealed`), and then nothing was altered in place. The
theorems speak of at most one fault that spares the tail; two can cancel each other, as
said above. Nothing is proved about events with one text, which the chain cannot tell apart.

**`Sanctions_proofs`** (from its three assumptions): types, `AnswerComplete` and
`AnswerBacked`, for any number of screenings, candidates and faults. `Progress` is the
loop invariant: `matchIds` are the matches at the kept positions passed so far, they are
stored, and all but the current one are audited and published. At the end nothing is
left, so what was passed is all that was kept. The logs and the repository only grow, so
the other invocations' progress persists (`ProgressPersists`). `LInv` gives
`InLockstep`: what `c` published is what it audited, or all but the last of it while it
publishes, or where publishing rejected (`Lockstep`). `UInv` gives `UnauditedExplained`: of the stored
matches without an entry, those no screening is about to audit (`Lost`) are no more
than the calls that rejected.

**`EventBus_proofs`** (from `BusAssumption`): types, `SubscribersExact`,
`ResolvedAfterAll`, `DeadLettersExact`. The only strengthening is `CutOffMade`: a
subscription that was not made cannot have been cut off.

**`Middleware_proofs`** (from the three assumptions of `Middleware`, which leave texts, names
and keys free): types, `AnswersEarned`, `AnswersStayWithTenant`, `MetricsCountExecutions`,
`TracesTellOutcome`, for any number of requests and tenants, any commands and windows, any
throws. A value can reach a caller by way of the command's own cache and then the
middleware's, and, where two keys are one, further still. So the invariant says of every
live entry and every settlement of the store that it may be given (`Good`) to whoever uses
that key: `OutcomesGood`, `CacheGood`, where `Good` follows `Reach`, the keys below a key.
`AnswersStay` then needs only that texts without colons in their first two parts are taken
apart in one way. `RequestOK` says what span and log hold at each stage, and `Counted`
adds to the counters that executions are finitely many.

**`Records_proofs`** (from `WatchAssumption`, `ReviewAssumption`, `ListingAssumption`,
`PayloadAssumption`, `InputAssumption`): all six invariants of the run `records`.

`HandlesKeepTheirValue`, `WatchersCurrent` and `ReviewsStand` are about state. `VaultInv` is
about each handle and each watcher by itself: a watcher whose callback nobody took is
registered, because deleting a callback keeps the others (`KeptIsThere`), and so the next
`set` calls it or passes it over. `ReviewInv` counts for each match the resolutions and
the one still possible against the reports of the feed, and says that the repository has
one copy of each match screened, with its last reported status. That a listing has it once
follows from `SelectedPicks`.

`ValuesExact`, `RedactionIsExact` and `CanonicalIsExact` are about algorithms. The only
invariant is `InputHeld`, that the input is the one the behaviour began with; the rest is
a lemma about every input, of any length, width and depth:

* `DecimalsAreExact`: `power` and `leading` are shown to exist and to follow their
  recursion (`PowerNext`, `LeadingNext`), the last digits of a number are those of the text it
  was read from (`LastDigits`), and so printing gives the text back.
* `TaxKindsDecided`: case by case over `VALIDATORS`.
* `TextsInOrderOfTime`: two different texts have a first difference (`FirstDifference`),
  and it decides both their order and, clock before digits before zone, that of the times.
* `ListingsAreExact`: the order of texts is total (`TextsOrdered`), so a time splits a period
  in two; `SelectedEntries` says what a filter leaves, `PageOf` what a page is.
* `RedactionsAreExact`: the paths to the leaves of a value are the steps to what is in it
  followed by the paths from there, and hiding goes by the first forbidden step of a path
  (`HiddenLonger`), so `walk` and the definition by paths agree one step down and hence
  at any depth.
* `CanonicalTextsDecide`: values that are alike have one text (`AlikeJoint`), by induction
  on the first of them. The converse is proved of texts in front of anything that may
  follow them in a larger one (`Apart`): the first token tells what kind of value it is,
  a list of texts that can be told apart can be (`JoinTells`), and an item gives its key and its
  value's text (`ItemsApart`). An array without members is treated as one of an
  `undefined`, which is what it is written like.

The recursion theorems and induction principles of the library take operators as
parameters, so the module has its own for sets and functions: `Iterates` for functions on
the naturals, `LevelNext` for `level`, `PayloadInduction` and `FixedPoint` for functions
on payloads. A function found by `FixedPoint` is shown to be the one of the definition.

**`Selection_proofs`** has what the other modules need about `filter`: it returns the entries
kept, in order, each once; an entry appended is appended to the result or changes
nothing. The definition is a recursive function over the positions, so it is first shown
to exist. The prover cannot instantiate the library's induction theorems, which take an
operator; `SetInduction` is induction for a set of naturals, proved from the
well-foundedness of `<`, and serves here.

Model-checked only: liveness (`JoinersAnswered`, `EveryCallAnswered`, `VerdictRecorded`,
`RequestsAnswered`, `HoldersAnswered`), which the prover does not reach, and of `PortsTypeOK`
the part `TurnsTypeOK` for any `fn`s (it is proved for `Disciplined` `fn`s, on the way to
`TurnsImplementation`, and for the store of the middleware). Every other invariant and action
property of a passing run is a theorem, and so are the refinements of `AtMostOnce` and of
`Idempotency`.

## Not modelled

Wording and time stamps of events and entities; identities below their id, and
the wrappers `PIIString`, `Hex32`, `UUID`, `DocumentRef`, which are regular expressions
and accessors without state; `BusinessEntity`, which the source calls a skeleton; the
middleware in other orders than the one above; callbacks of a secrets store that call it
themselves; the provider's evidence and quick check; a port call that rejects after
it took effect; a crash of the process (the adapters in the repository keep nothing
over it). `markExpired` has no caller, so no session expires. The protocol buffers
and the documents describe services that do not exist at this commit.

## Plan

What is left, in order of what matters most:

1. Event bus handlers that call commands themselves: `EventBus` composed with the
   idempotency store, for who waits for whom.
2. `addUBO` and the masking of printed ids, when commands use them.
