----------------------------- MODULE AuditChain -----------------------------
(***************************************************************************)
(* The hash-chained audit log: AuditChainService                           *)
(* (domain/services/audit-chain-service.ts), the FakeAuditLog adapter over *)
(* it, the query VerifyAuditIntegrity, the generators behind               *)
(* ExportAuditLog and a follower's stream(), and faults of the storage     *)
(* that holds the entries.                                                 *)
(*                                                                         *)
(* SHA-256 is symbolic: the hash of an input is the sequence of everything *)
(* that went into it, the previous hash's inputs first, so two hashes are  *)
(* equal exactly when the texts hashed are.  What is hashed of an event is *)
(* a text: its five fields joined with |, unescaped, the payload by        *)
(* canonicalJson.  Different events may have one text (actor a|b with      *)
(* subject c, actor a with subject b|c; a payload with a Date or a bigint, *)
(* and one with the string it is written as), so joined is any function    *)
(* and the hash tells the text, not the event.                             *)
(***************************************************************************)
EXTENDS Integers, Sequences, Selection

CONSTANTS Event,      \* contents of an audit event
          Time,       \* when each event occurred
          Text,       \* what can be hashed of an event
          joined,     \* the text of each event's fields
          TailFaults, \* whether storage faults may cut or reseal the tail
          MaxAppends, \* BOUND on how many events are appended
          MaxFaults   \* BOUND on how many storage faults happen

ASSUME EventAssumption == Time \in [Event -> Int] /\ joined \in [Event -> Text]
ASSUME BoundsAssumption == MaxAppends \in Nat /\ MaxFaults \in Nat /\ TailFaults \in BOOLEAN

VARIABLES log,      \* the entries stored, in storage order
          appended, \* what append() stored and returned, in order
          reader,   \* an export or a stream: the state of its generator
          faults    \* how many storage faults happened

logVars == <<log, appended, reader, faults>>

------------------------------- (* AuditChainService *) ---------------------

\* A stored hash: what was hashed, or that with a digit changed.
changed == <<>>
Hash == Seq((Text \X Nat) \cup {changed})

\* Hex32.ZERO, the previous hash of the first entry.
ZERO == <<>>

computeHash(event, seq, prev) == Append(prev, <<joined[event], seq>>)

LogEntry == [event : Event, seqNumber : Nat \ {0}, prevHash : Hash, hash : Hash]

seal(event, seq, prev) == [event |-> event, seqNumber |-> seq, prevHash |-> prev,
                           hash |-> computeHash(event, seq, prev)]

\* Mutant of sealNext: the sequence number is the length, the hash never ZERO.
sealNextUnlinked(entries, event) == seal(event, Len(entries) + 1, ZERO)

\* append(event, previous), previous being the last entry stored, or null.
sealNext(entries, event) ==
    IF entries = <<>> THEN seal(event, 1, ZERO)
    ELSE LET last == entries[Len(entries)]
         IN  seal(event, last.seqNumber + 1, last.hash)

\* The recomputation verify() and ComplianceEvent's constructor both make.
selfConsistent(e) == e.hash = computeHash(e.event, e.seqNumber, e.prevHash)

\* What the loop of verify() finds at the i-th entry.
prevExpected(entries, i) == IF i = 1 THEN ZERO ELSE entries[i - 1].hash

\* Mutant of finding: an entry is only compared with its own hash.
findingUnlinked(entries, i) ==
    IF entries[i].seqNumber # i THEN "seq-gap"
    ELSE IF ~selfConsistent(entries[i]) THEN "hash-mismatch"
    ELSE "ok"

finding(entries, i) ==
    IF entries[i].seqNumber # i THEN "seq-gap"
    ELSE IF entries[i].prevHash # prevExpected(entries, i) THEN "prev-hash-mismatch"
    ELSE IF ~selfConsistent(entries[i]) THEN "hash-mismatch"
    ELSE "ok"

broken(entries) == {i \in DOMAIN entries : finding(entries, i) # "ok"}

verify(entries) ==
    IF broken(entries) = {}
    THEN [ok |-> TRUE, count |-> Len(entries)]
    ELSE LET i == CHOOSE i \in broken(entries) : \A j \in broken(entries) : i <= j
         IN  [ok |-> FALSE, brokenAt |-> entries[i].seqNumber,
              reason |-> finding(entries, i)]

------------------------------- (* FakeAuditLog *) --------------------------

\* verify(fromSeq, toSeq) hands on the entries of the range, and those alone.
slice(from, to) ==
    Selected(log, {i \in DOMAIN log : from <= log[i].seqNumber /\ log[i].seqNumber <= to})

\* VerifyAuditIntegrity; it throws unless from <= to.
VerifyAuditIntegrity(from, to) == verify(slice(from, to))

Closed == [kind |-> "none", from |-> 0, to |-> 0, next |-> 1,
           delivered |-> <<>>, state |-> "closed"]

LogInit == /\ log = <<>>
           /\ appended = <<>>
           /\ reader = Closed
           /\ faults = 0

append(event) ==
    /\ Len(appended) < MaxAppends
    /\ log' = Append(log, sealNext(log, event))
    /\ appended' = Append(appended, sealNext(log, event))
    /\ UNCHANGED <<reader, faults>>

\* export(period) and stream(fromSeq) are generators over the live array.
Open(kind, from, to) ==
    /\ reader.state = "closed"
    /\ reader' = [kind |-> kind, from |-> from, to |-> to, next |-> 1,
                  delivered |-> <<>>, state |-> "open"]
    /\ UNCHANGED <<log, appended, faults>>

export(from, to) == Open("export", from, to)
stream(from) == Open("stream", from, 0)

wanted(e) == IF reader.kind = "export"
             THEN reader.from <= Time[e.event] /\ Time[e.event] <= reader.to
             ELSE reader.from <= e.seqNumber

\* Mutant of Pull: entries are yielded without the self-validating constructor.
PullUnchecked ==
    /\ reader.state = "open"
    /\ reader.next \in DOMAIN log
    /\ LET e == log[reader.next]
       IN  reader' = IF ~wanted(e)
                     THEN [reader EXCEPT !.next = @ + 1]
                     ELSE [reader EXCEPT !.next = @ + 1,
                                         !.delivered = Append(@, e)]
    /\ UNCHANGED <<log, appended, faults>>

\* One entry: skipped, refused by ComplianceEvent's constructor, or yielded.
\* The consumer, and everybody else, runs between two of these.
Pull ==
    /\ reader.state = "open"
    /\ reader.next \in DOMAIN log
    /\ LET e == log[reader.next]
       IN  reader' = IF ~wanted(e)
                     THEN [reader EXCEPT !.next = @ + 1]
                     ELSE IF ~selfConsistent(e)
                     THEN [reader EXCEPT !.state = "threw"]
                     ELSE [reader EXCEPT !.next = @ + 1,
                                         !.delivered = Append(@, e)]
    /\ UNCHANGED <<log, appended, faults>>

\* Mutant of Finish: the generator stops at the length it started from.
FinishEarly ==
    /\ reader.state = "open"
    /\ reader' = [reader EXCEPT !.state = "done"]
    /\ UNCHANGED <<log, appended, faults>>

Finish ==
    /\ reader.state = "open"
    /\ reader.next \notin DOMAIN log
    /\ reader' = [reader EXCEPT !.state = "done"]
    /\ UNCHANGED <<log, appended, faults>>

----------------------------------- (* storage faults *) --------------------

Fault == /\ faults < MaxFaults
         /\ faults' = faults + 1
         /\ UNCHANGED <<appended, reader>>

\* corruptHashAt: a digit of the stored hash changes.
corruptHashAt(i) == /\ Fault
                    /\ log' = [log EXCEPT ![i].hash = Append(@, changed)]

\* The stored content of an entry changes.
EditEntry(i, event) == /\ Fault
                       /\ event # log[i].event
                       /\ log' = [log EXCEPT ![i].event = event]

\* Nothing behind the last entry tells that it was there, or what it was, so a
\* log whose last entries are removed or resealed verifies.
Reach(i) == i < Len(log) \/ TailFaults

\* An entry is rewritten with a hash of its own.
ResealEntry(i, event) ==
    /\ Fault
    /\ Reach(i)
    /\ event # log[i].event
    /\ log' = [log EXCEPT ![i] = seal(event, log[i].seqNumber, log[i].prevHash)]

\* An entry is gone.
RemoveEntry(i) == /\ Fault
                  /\ Reach(i)
                  /\ log' = SubSeq(log, 1, i - 1) \o SubSeq(log, i + 1, Len(log))

\* Two neighbours come back in the other order.
SwapEntries(i) == /\ Fault
                  /\ i < Len(log)
                  /\ log' = [log EXCEPT ![i] = log[i + 1], ![i + 1] = log[i]]

StorageFault(i) == \/ corruptHashAt(i) \/ RemoveEntry(i) \/ SwapEntries(i)
                   \/ \E event \in Event : EditEntry(i, event) \/ ResealEntry(i, event)

LogNext == \/ \E event \in Event : append(event)
           \/ \E from \in 1..MaxAppends : stream(from)
           \/ \E first, last \in Event : export(Time[first], Time[last])
           \/ Pull \/ Finish
           \/ \E i \in DOMAIN log : StorageFault(i)

LogSpec == LogInit /\ [][LogNext]_logVars

-----------------------------------------------------------------------------

Reader == [kind : {"none", "export", "stream"}, from : Int, to : Int,
           next : Nat \ {0}, delivered : Seq(LogEntry),
           state : {"closed", "open", "threw", "done"}]

LogTypeOK == /\ log \in Seq(LogEntry)
             /\ appended \in Seq(LogEntry)
             /\ reader \in Reader
             /\ faults \in 0..MaxFaults

\* LogEntry e is what append() sealed as a: it has the place, the link and the hash
\* of a, and the text hashed of it is the text hashed of a.
sealedAs(e, a) == /\ e.seqNumber = a.seqNumber /\ e.prevHash = a.prevHash
                  /\ e.hash = a.hash /\ joined[e.event] = joined[a.event]

\* The log holds what append() returned, every entry linked to the one before it,
\* as long as the storage keeps what it was given: the check of the whole log, or
\* of any prefix of it, succeeds and counts every entry.
IntactVerifies ==
    faults = 0 =>
        /\ log = appended
        /\ \A n \in 0..Len(log) :
            verify(SubSeq(log, 1, n)) = [ok |-> TRUE, count |-> n]

\* What VerifyAuditIntegrity's success means: every entry append() returned is in
\* the log at its place, with its number, its link, its hash and the text that was
\* hashed.  A single fault (a stored hash or the hashed content of any entry
\* changed, an entry other than the last resealed or gone, two swapped) is
\* detected, whatever is appended on top of it afterwards.
FaultDetected ==
    VerifyAuditIntegrity(1, MaxAppends).ok =>
        /\ Len(log) = Len(appended)
        /\ \A i \in 1..Len(log) : sealedAs(log[i], appended[i])

\* "Any ComplianceEvent in memory has passed chain validation"
\* (compliance-event.ts): while the stored content or hash of an entry is being
\* changed under a running export or stream, whichever of the two comes first,
\* the reader is handed nothing but what append() sealed, under the sequence
\* number it sealed it with.
alteredInPlace == \E i \in DOMAIN log : ~selfConsistent(log[i])
DeliveredAuthentic ==
    faults = 0 \/ alteredInPlace =>
        \A i \in DOMAIN reader.delivered :
            LET e == reader.delivered[i]
            IN  e.seqNumber \in DOMAIN appended /\ sealedAs(e, appended[e.seqNumber])

\* A stream that ended had, at some moment, delivered every event from its
\* starting point on, appends during the iteration included.
StreamComplete ==
    [][(reader.state = "open" /\ reader'.state = "done" /\ faults = 0
        /\ reader.kind = "stream")
       => reader.delivered = SubSeq(log, reader.from, Len(log))]_logVars

\* "Recomputes the SHA-256 hash chain across [from, to] ... Returns the first
\* break point (or ok)" (audit-queries.ts): nothing is broken in a log the
\* storage kept.
RangeVerifies ==
    faults = 0 => \A from, to \in 1..MaxAppends :
        from <= to => VerifyAuditIntegrity(from, to).ok

=============================================================================
