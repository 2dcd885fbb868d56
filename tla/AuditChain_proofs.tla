-------------------------- MODULE AuditChain_proofs -------------------------
(***************************************************************************)
(* Theorems about AuditChain: its types, that a log the storage kept       *)
(* always verifies, whatever is appended and read, that a single fault is  *)
(* found and not delivered, and that a stream misses nothing.              *)
(***************************************************************************)
EXTENDS AuditChain, Selection_proofs, TLAPS

\* Every entry is the seal of its event at its place, linked to the entry before
\* it.  Stronger than what IntactVerifies says of verify(), and inductive.
Chained(entries) ==
    \A i \in 1..Len(entries) :
        entries[i] = seal(entries[i].event, i, prevExpected(entries, i))

IInv == LogTypeOK /\ (faults = 0 => log = appended /\ Chained(log))

-----------------------------------------------------------------------------

\* A sealed event is an entry.
LEMMA SealType ==
    ASSUME NEW event \in Event, NEW seq \in Nat \ {0}, NEW prev \in Hash
    PROVE  /\ seal(event, seq, prev) \in LogEntry
           /\ seal(event, seq, prev).seqNumber = seq
           /\ selfConsistent(seal(event, seq, prev))
<1>1. computeHash(event, seq, prev) \in Hash
  BY EventAssumption DEF computeHash, Hash
<1> QED BY <1>1 DEF seal, LogEntry, selfConsistent

\* What append() stores is an entry.
LEMMA SealNextType ==
    ASSUME NEW entries \in Seq(LogEntry), NEW event \in Event
    PROVE  sealNext(entries, event) \in LogEntry
<1>1. CASE entries = <<>>
  <2>1. ZERO \in Hash
    BY DEF ZERO, Hash
  <2> QED BY <1>1, <2>1, SealType DEF sealNext
<1>2. CASE entries # <<>>
  <2>1. entries[Len(entries)] \in LogEntry
    BY <1>2
  <2> DEFINE last == entries[Len(entries)]
  <2>2. /\ last.seqNumber + 1 \in Nat \ {0}
        /\ last.hash \in Hash
    BY <2>1 DEF LogEntry
  <2> QED BY <1>2, <2>2, SealType DEF sealNext
<1> QED BY <1>1, <1>2

\* Appending to a chain gives a chain.
LEMMA ChainGrows ==
    ASSUME NEW entries \in Seq(LogEntry), NEW event \in Event, Chained(entries)
    PROVE  Chained(Append(entries, sealNext(entries, event)))
<1> DEFINE n == Len(entries)
           e == sealNext(entries, event)
           more == Append(entries, e)
<1>1. n \in Nat /\ e \in LogEntry
  BY SealNextType
<1>2. Len(more) = n + 1 /\ more[n + 1] = e /\ \A i \in 1..n : more[i] = entries[i]
  BY <1>1
<1>3. ASSUME NEW i \in 1..n
      PROVE  more[i] = seal(more[i].event, i, prevExpected(more, i))
  <2>1. entries[i] = seal(entries[i].event, i, prevExpected(entries, i))
    BY DEF Chained
  <2>2. prevExpected(more, i) = prevExpected(entries, i)
    BY <1>1, <1>2 DEF prevExpected
  <2> QED BY <1>2, <2>1, <2>2
<1>4. e = seal(e.event, n + 1, prevExpected(more, n + 1))
  <2>1. CASE n = 0
    <3>1. entries = <<>>
      BY <2>1
    <3> QED BY <2>1, <3>1 DEF sealNext, prevExpected, seal
  <2>2. CASE n # 0
    <3>1. entries # <<>> /\ n \in 1..n
      BY <1>1, <2>2
    <3>2. entries[n].seqNumber = n
      <4>1. entries[n] = seal(entries[n].event, n, prevExpected(entries, n))
        BY <3>1 DEF Chained
      <4> QED BY <4>1 DEF seal
    <3>3. prevExpected(more, n + 1) = entries[n].hash
      BY <1>1, <1>2, <2>2, <3>1 DEF prevExpected
    <3> QED BY <3>1, <3>2, <3>3 DEF sealNext, seal
  <2> QED BY <2>1, <2>2
<1> HIDE DEF e, more
<1>5. \A i \in 1..(n + 1) : more[i] = seal(more[i].event, i, prevExpected(more, i))
  BY <1>1, <1>2, <1>3, <1>4
<1>6. Chained(more)
  BY <1>2, <1>5 DEF Chained
<1> QED BY <1>6 DEF more, e

\* verify() finds nothing in a chain, nor in any prefix of it.
LEMMA ChainVerifies ==
    ASSUME NEW entries \in Seq(LogEntry), Chained(entries), NEW n \in 0..Len(entries)
    PROVE  verify(SubSeq(entries, 1, n)) = [ok |-> TRUE, count |-> n]
<1> DEFINE prefix == SubSeq(entries, 1, n)
<1>1. /\ prefix \in Seq(LogEntry)
      /\ Len(prefix) = n
      /\ \A i \in 1..n : prefix[i] = entries[i]
  OBVIOUS
<1>2. ASSUME NEW i \in 1..n
      PROVE  finding(prefix, i) = "ok"
  <2>1. /\ i \in 1..Len(entries)
        /\ prefix[i] = entries[i]
        /\ entries[i] = seal(entries[i].event, i, prevExpected(entries, i))
    BY <1>1 DEF Chained
  <2>2. prevExpected(prefix, i) = prevExpected(entries, i)
    BY <1>1 DEF prevExpected
  <2>3. /\ prefix[i].seqNumber = i
        /\ prefix[i].prevHash = prevExpected(prefix, i)
        /\ prefix[i].hash = computeHash(prefix[i].event, prefix[i].seqNumber,
                                        prefix[i].prevHash)
    BY <2>1, <2>2 DEF seal
  <2> QED BY <2>3 DEF finding, selfConsistent
<1>3. broken(prefix) = {}
  BY <1>1, <1>2 DEF broken
<1> QED BY <1>1, <1>3 DEF verify

-----------------------------------------------------------------------------

LEMMA InitInv == LogInit => IInv
<1> SUFFICES ASSUME LogInit PROVE IInv
  OBVIOUS
<1>1. Closed \in Reader
  BY DEF Closed, Reader
<1>2. LogTypeOK
  BY <1>1, BoundsAssumption DEF LogInit, LogTypeOK
<1>3. log = appended /\ Chained(log)
  BY DEF LogInit, Chained
<1> QED BY <1>2, <1>3 DEF IInv

\* A storage fault keeps the entries entries, and is counted.
LEMMA FaultType ==
    ASSUME LogTypeOK, NEW i \in DOMAIN log, StorageFault(i)
    PROVE  LogTypeOK' /\ faults' # 0
<1> USE DEF LogTypeOK
<1>0. /\ i \in 1..Len(log)
      /\ log[i] \in LogEntry
      /\ i < Len(log) => log[i + 1] \in LogEntry
  OBVIOUS
<1>1. CASE corruptHashAt(i)
  <2>1. Append(log[i].hash, changed) \in Hash
    BY <1>0 DEF LogEntry, Hash
  <2>2. [log[i] EXCEPT !.hash = Append(@, changed)] \in LogEntry
    BY <1>0, <2>1 DEF LogEntry
  <2> QED BY <1>1, <2>2, BoundsAssumption DEF corruptHashAt, Fault
<1>2. CASE RemoveEntry(i)
  <2>1. SubSeq(log, 1, i - 1) \in Seq(LogEntry) /\ SubSeq(log, i + 1, Len(log)) \in Seq(LogEntry)
    OBVIOUS
  <2> QED BY <1>2, <2>1, BoundsAssumption DEF RemoveEntry, Fault
<1>3. CASE SwapEntries(i)
  BY <1>0, <1>3, BoundsAssumption DEF SwapEntries, Fault
<1>4. ASSUME NEW event \in Event, EditEntry(i, event)
      PROVE  LogTypeOK' /\ faults' # 0
  <2>1. [log[i] EXCEPT !.event = event] \in LogEntry
    BY <1>0 DEF LogEntry
  <2> QED BY <1>4, <2>1, BoundsAssumption DEF EditEntry, Fault
<1>5. ASSUME NEW event \in Event, ResealEntry(i, event)
      PROVE  LogTypeOK' /\ faults' # 0
  <2>1. seal(event, log[i].seqNumber, log[i].prevHash) \in LogEntry
    BY <1>0, SealType DEF LogEntry
  <2> QED BY <1>5, <2>1, BoundsAssumption DEF ResealEntry, Fault
<1> QED BY <1>1, <1>2, <1>3, <1>4, <1>5 DEF StorageFault

\* One step: append extends the chain, readers leave it alone, and after a
\* fault nothing is claimed of it.
LEMMA NextInv == IInv /\ [LogNext]_logVars => IInv'
<1> SUFFICES ASSUME IInv, [LogNext]_logVars PROVE IInv'
  OBVIOUS
<1> USE DEF IInv
<1>1. ASSUME NEW event \in Event, append(event)
      PROVE  IInv'
  <2>1. sealNext(log, event) \in LogEntry
    BY SealNextType DEF LogTypeOK
  <2>2. LogTypeOK'
    BY <1>1, <2>1 DEF LogTypeOK, append
  <2>3. faults' = 0 => log' = appended' /\ Chained(log')
    BY <1>1, ChainGrows DEF LogTypeOK, append
  <2> QED BY <2>2, <2>3
<1>2. ASSUME NEW kind \in {"export", "stream"}, NEW from \in Int, NEW to \in Int,
             Open(kind, from, to)
      PROVE  IInv'
  BY <1>2 DEF LogTypeOK, Reader, Open
<1>3. CASE Pull
  <2>1. reader' \in Reader
    <3>1. reader.next \in 1..Len(log) /\ log[reader.next] \in LogEntry
      BY <1>3 DEF LogTypeOK, Pull, Reader
    <3> DEFINE e == log[reader.next]
    <3>2. /\ reader \in Reader
          /\ reader.next + 1 \in Nat \ {0}
          /\ Append(reader.delivered, e) \in Seq(LogEntry)
      BY <3>1 DEF LogTypeOK, Reader
    <3> HIDE DEF e
    <3>3. [reader EXCEPT !.next = @ + 1] \in Reader
      BY <3>2 DEF Reader
    <3>4. [reader EXCEPT !.state = "threw"] \in Reader
      BY <3>2 DEF Reader
    <3>5. [reader EXCEPT !.next = @ + 1, !.delivered = Append(@, e)] \in Reader
      BY <3>2 DEF Reader
    <3> QED BY <1>3, <3>3, <3>4, <3>5 DEF Pull, e
  <2> QED BY <1>3, <2>1 DEF LogTypeOK, Pull
<1>4. CASE Finish
  BY <1>4 DEF LogTypeOK, Reader, Finish
<1>5. ASSUME NEW i \in DOMAIN log, StorageFault(i)
      PROVE  IInv'
  BY <1>5, FaultType
<1>6. CASE UNCHANGED logVars
  BY <1>6 DEF LogTypeOK, logVars
<1>7. ASSUME NEW from \in 1..MaxAppends, stream(from)
      PROVE  IInv'
  BY <1>7, <1>2 DEF stream
<1>8. ASSUME NEW first \in Event, NEW last \in Event, export(Time[first], Time[last])
      PROVE  IInv'
  BY <1>8, <1>2, EventAssumption DEF export
<1> QED BY <1>1, <1>3, <1>4, <1>5, <1>6, <1>7, <1>8 DEF LogNext

LEMMA Inductive == LogSpec => []IInv
BY InitInv, NextInv, PTL DEF LogSpec

-----------------------------------------------------------------------------

\* Every variable keeps its type in every reachable state, storage faults
\* included.
THEOREM TypeCorrect == LogSpec => []LogTypeOK
<1>1. IInv => LogTypeOK
  BY DEF IInv
<1> QED BY <1>1, Inductive, PTL

\* As long as the storage keeps what it is given, the log holds exactly what
\* append() returned and verify() succeeds on it and on each of its prefixes: the
\* program itself never produces a break.
THEOREM IntactLogVerifies == LogSpec => []IntactVerifies
<1>1. IInv => IntactVerifies
  <2> SUFFICES ASSUME IInv, faults = 0
               PROVE  /\ log = appended
                      /\ \A n \in 0..Len(log) :
                          verify(SubSeq(log, 1, n)) = [ok |-> TRUE, count |-> n]
    BY DEF IntactVerifies
  <2>1. log = appended /\ Chained(log) /\ log \in Seq(LogEntry)
    BY DEF IInv, LogTypeOK
  <2>2. \A n \in 0..Len(log) : verify(SubSeq(log, 1, n)) = [ok |-> TRUE, count |-> n]
    BY <2>1, ChainVerifies
  <2> QED BY <2>1, <2>2
<1> QED BY <1>1, Inductive, PTL

-----------------------------------------------------------------------------
(* What one storage fault leaves behind.                                    *)

\* The check of the whole log starts at 1 and ends behind the last number given.
Numbered == /\ \A i \in 1..Len(log) : log[i].seqNumber \in 1..Len(appended)
            /\ Len(appended) <= MaxAppends

\* The log holds every entry that append() returned, as it was sealed.
Alike == /\ Len(log) = Len(appended)
         /\ \A i \in 1..Len(log) : sealedAs(log[i], appended[i])

\* What the one fault broke stays broken, if it made a difference to what is
\* hashed and is not behind the last entry.
FaultShows == ~TailFaults => Alike \/ \E i \in 1..Len(log) : finding(log, i) # "ok"

authentic(e) == e.seqNumber \in DOMAIN appended /\ sealedAs(e, appended[e.seqNumber])

\* Every entry is at its place, and is what was sealed there or has a hash that is
\* not its own; what was delivered was sealed.
InPlace == /\ Len(log) = Len(appended)
           /\ \A i \in 1..Len(log) :
                /\ log[i].seqNumber = i
                /\ selfConsistent(log[i]) => sealedAs(log[i], appended[i])
           /\ \A i \in DOMAIN reader.delivered : authentic(reader.delivered[i])

\* Every entry has its own hash, after a fault that moved or resealed one.
Sealed == faults # 0 /\ \A i \in 1..Len(log) : selfConsistent(log[i])

\* A stream has delivered what it has passed.
StreamSoFar ==
    faults = 0 /\ reader.kind = "stream" /\ reader.state = "open" =>
        /\ reader.from \in Nat \ {0}
        /\ reader.next \in 1..(Len(log) + 1)
        /\ reader.delivered = SubSeq(log, reader.from, reader.next - 1)

FInv == /\ IInv
        /\ Numbered
        /\ faults <= 1 => FaultShows /\ (InPlace \/ Sealed)
        /\ StreamSoFar

\* The entries behind the i-th.
LEMMA Behind ==
    ASSUME NEW S, NEW s \in Seq(S), NEW i \in 1..Len(s)
    PROVE  LET back == SubSeq(s, i + 1, Len(s))
           IN  /\ back \in Seq(S) /\ Len(back) = Len(s) - i
               /\ \A j \in 1..(Len(s) - i) : back[j] = s[i + j]
<1> DEFINE n == Len(s)
           back == SubSeq(s, i + 1, n)
<1>1. back \in Seq(S)
  OBVIOUS
<1>2. Len(back) = n - i
  OBVIOUS
<1>3. ASSUME NEW j \in 1..(n - i) PROVE back[j] = s[i + j]
  <2>1. back[j] = s[(i + 1) + j - 1]
    OBVIOUS
  <2>2. (i + 1) + j - 1 = i + j
    OBVIOUS
  <2> QED BY <2>1, <2>2
<1> QED BY <1>1, <1>2, <1>3

\* What append() stores: its number follows the last one, and its hash is its own.
LEMMA SealNextFacts ==
    ASSUME NEW entries \in Seq(LogEntry), NEW event \in Event
    PROVE  /\ sealNext(entries, event) \in LogEntry
           /\ sealNext(entries, event).event = event
           /\ selfConsistent(sealNext(entries, event))
           /\ sealNext(entries, event).seqNumber =
                IF Len(entries) = 0 THEN 1 ELSE entries[Len(entries)].seqNumber + 1
<1>1. CASE entries = <<>>
  <2>1. ZERO \in Hash
    BY DEF ZERO, Hash
  <2>2. sealNext(entries, event) = seal(event, 1, ZERO)
    BY <1>1 DEF sealNext
  <2> QED BY <1>1, <2>1, <2>2, SealType, SealNextType DEF seal
<1>2. CASE entries # <<>>
  <2> DEFINE last == entries[Len(entries)]
  <2>1. last \in LogEntry /\ Len(entries) # 0
    BY <1>2
  <2>2. last.seqNumber + 1 \in Nat \ {0} /\ last.hash \in Hash
    BY <2>1 DEF LogEntry
  <2>3. sealNext(entries, event) = seal(event, last.seqNumber + 1, last.hash)
    BY <1>2 DEF sealNext
  <2> HIDE DEF last
  <2>4. /\ sealNext(entries, event) \in LogEntry
        /\ sealNext(entries, event).event = event
        /\ selfConsistent(sealNext(entries, event))
        /\ sealNext(entries, event).seqNumber = last.seqNumber + 1
    BY <2>2, <2>3, SealType DEF seal
  <2> QED BY <2>1, <2>4 DEF last
<1> QED BY <1>1, <1>2

\* verify() finds at an entry what it found before another was appended.
LEMMA FindingStays ==
    ASSUME NEW entries \in Seq(LogEntry), NEW e \in LogEntry, NEW i \in 1..Len(entries)
    PROVE  finding(Append(entries, e), i) = finding(entries, i)
<1>1. Append(entries, e)[i] = entries[i]
  OBVIOUS
<1>2. i # 1 => Append(entries, e)[i - 1] = entries[i - 1]
  OBVIOUS
<1> QED BY <1>1, <1>2 DEF finding, prevExpected

\* The hash of an entry tells the text of its content, and is no part of another.
LEMMA HashTells ==
    ASSUME NEW e \in LogEntry, NEW event \in Event
    PROVE  /\ computeHash(event, e.seqNumber, e.prevHash) \in Hash
           /\ (computeHash(event, e.seqNumber, e.prevHash) =
                    computeHash(e.event, e.seqNumber, e.prevHash))
                <=> joined[event] = joined[e.event]
           /\ Append(e.hash, changed) # e.hash
<1>1. e.prevHash \in Hash /\ e.hash \in Hash /\ e.event \in Event
      /\ <<joined[event], e.seqNumber>> \in (Text \X Nat) \cup {changed}
      /\ <<joined[e.event], e.seqNumber>> \in (Text \X Nat) \cup {changed}
  BY EventAssumption DEF LogEntry
<1>2. computeHash(event, e.seqNumber, e.prevHash) \in Hash
  BY <1>1 DEF computeHash, Hash
<1>3. /\ computeHash(event, e.seqNumber, e.prevHash)[Len(e.prevHash) + 1]
            = <<joined[event], e.seqNumber>>
      /\ computeHash(e.event, e.seqNumber, e.prevHash)[Len(e.prevHash) + 1]
            = <<joined[e.event], e.seqNumber>>
  BY <1>1 DEF computeHash, Hash
<1>4. joined[event] = joined[e.event] =>
        computeHash(event, e.seqNumber, e.prevHash) =
        computeHash(e.event, e.seqNumber, e.prevHash)
  BY DEF computeHash
<1>5. Len(Append(e.hash, changed)) # Len(e.hash)
  BY <1>1 DEF Hash, changed
<1> QED BY <1>2, <1>3, <1>4, <1>5

\* What is stored by index, and what a fault makes of it.
LEMMA FaultEntries ==
    ASSUME LogTypeOK, NEW i \in DOMAIN log, StorageFault(i)
    PROVE  /\ i \in 1..Len(log) /\ faults' = faults + 1 /\ UNCHANGED <<appended, reader>>
           /\ \/ \* changed in place
                 /\ Len(log') = Len(log)
                 /\ log'[i].seqNumber = log[i].seqNumber
                 /\ log'[i].prevHash = log[i].prevHash
                 /\ \A j \in 1..Len(log) : j # i => log'[j] = log[j]
                 /\ \/ log'[i].hash = Append(log[i].hash, changed) /\ log'[i].event = log[i].event
                    \/ /\ log'[i].event \in Event /\ log'[i].event # log[i].event
                       /\ log'[i].hash = log[i].hash
                    \/ /\ Reach(i)
                       /\ log'[i].event \in Event /\ log'[i].event # log[i].event
                       /\ log'[i].hash = computeHash(log'[i].event, log[i].seqNumber,
                                                     log[i].prevHash)
              \/ \* gone
                 /\ Reach(i) /\ Len(log') = Len(log) - 1
                 /\ \A j \in 1..(Len(log) - 1) :
                        log'[j] = IF j < i THEN log[j] ELSE log[j + 1]
              \/ \* in the other order
                 /\ i < Len(log) /\ Len(log') = Len(log)
                 /\ log'[i] = log[i + 1] /\ log'[i + 1] = log[i]
                 /\ \A j \in 1..Len(log) : j # i /\ j # i + 1 => log'[j] = log[j]
<1> DEFINE n == Len(log)
<1>1. /\ log \in Seq(LogEntry) /\ i \in 1..n /\ n \in Nat /\ log[i] \in LogEntry
  BY DEF LogTypeOK
<1>2. faults' = faults + 1 /\ UNCHANGED <<appended, reader>>
  BY DEF StorageFault, corruptHashAt, RemoveEntry, SwapEntries, EditEntry, ResealEntry, Fault
<1>3. CASE corruptHashAt(i)
  <2>1. log' = [log EXCEPT ![i].hash = Append(@, changed)]
    BY <1>3 DEF corruptHashAt
  <2>2. /\ Len(log') = n /\ log'[i] = [log[i] EXCEPT !.hash = Append(@, changed)]
        /\ \A j \in 1..n : j # i => log'[j] = log[j]
    BY <1>1, <2>1
  <2>3. /\ log'[i].seqNumber = log[i].seqNumber /\ log'[i].prevHash = log[i].prevHash
        /\ log'[i].hash = Append(log[i].hash, changed) /\ log'[i].event = log[i].event
    BY <1>1, <2>2 DEF LogEntry
  <2> QED BY <1>1, <1>2, <2>2, <2>3
<1>4. ASSUME NEW event \in Event, EditEntry(i, event)
      PROVE  /\ Len(log') = n
             /\ log'[i].seqNumber = log[i].seqNumber /\ log'[i].prevHash = log[i].prevHash
             /\ \A j \in 1..n : j # i => log'[j] = log[j]
             /\ log'[i].event \in Event /\ log'[i].event # log[i].event
             /\ log'[i].hash = log[i].hash
  <2>1. log' = [log EXCEPT ![i].event = event] /\ event # log[i].event
    BY <1>4 DEF EditEntry
  <2>2. /\ Len(log') = n /\ log'[i] = [log[i] EXCEPT !.event = event]
        /\ \A j \in 1..n : j # i => log'[j] = log[j]
    BY <1>1, <2>1
  <2> QED BY <1>1, <2>1, <2>2 DEF LogEntry
<1>5. ASSUME NEW event \in Event, ResealEntry(i, event)
      PROVE  /\ Reach(i) /\ Len(log') = n
             /\ log'[i].seqNumber = log[i].seqNumber /\ log'[i].prevHash = log[i].prevHash
             /\ \A j \in 1..n : j # i => log'[j] = log[j]
             /\ log'[i].event \in Event /\ log'[i].event # log[i].event
             /\ log'[i].hash = computeHash(log'[i].event, log[i].seqNumber, log[i].prevHash)
  <2>1. /\ log' = [log EXCEPT ![i] = seal(event, log[i].seqNumber, log[i].prevHash)]
        /\ event # log[i].event /\ Reach(i)
    BY <1>5 DEF ResealEntry
  <2>2. /\ Len(log') = n /\ log'[i] = seal(event, log[i].seqNumber, log[i].prevHash)
        /\ \A j \in 1..n : j # i => log'[j] = log[j]
    BY <1>1, <2>1
  <2> QED BY <2>1, <2>2 DEF seal
<1>6. CASE RemoveEntry(i)
  <2>1. /\ log' = SubSeq(log, 1, i - 1) \o SubSeq(log, i + 1, n) /\ Reach(i)
    BY <1>6 DEF RemoveEntry
  <2>2. /\ Len(log') = n - 1
        /\ \A j \in 1..(n - 1) : log'[j] = IF j < i THEN log[j] ELSE log[j + 1]
    <3> DEFINE front == SubSeq(log, 1, i - 1)
               back == SubSeq(log, i + 1, n)
    <3>1. front \in Seq(LogEntry) /\ Len(front) = i - 1 /\ \A j \in 1..(i - 1) : front[j] = log[j]
      BY <1>1
    <3>2. back \in Seq(LogEntry) /\ Len(back) = n - i /\ \A j \in 1..(n - i) : back[j] = log[i + j]
      <4>1. log \in Seq(LogEntry) /\ i \in 1..Len(log)
        BY <1>1
      <4> QED BY <4>1, Behind
    <3>3. log' = front \o back
      BY <2>1
    <3> HIDE DEF front, back
    <3>4. Len(log') = n - 1
      BY <1>1, <3>1, <3>2, <3>3
    <3>5. ASSUME NEW j \in 1..(n - 1)
          PROVE  log'[j] = IF j < i THEN log[j] ELSE log[j + 1]
      <4>1. CASE j < i
        BY <1>1, <3>1, <3>2, <3>3, <4>1
      <4>2. CASE ~(j < i)
        <5>1. j - (i - 1) \in 1..(n - i) /\ i + (j - (i - 1)) = j + 1
          BY <1>1, <4>2
        <5>2. (front \o back)[j] = back[j - Len(front)]
          <6>1. j \in 1..(Len(front) + Len(back)) /\ ~(j <= Len(front))
            BY <1>1, <3>1, <3>2, <4>2
          <6>2. front \in Seq(LogEntry) /\ back \in Seq(LogEntry)
            BY <3>1, <3>2
          <6> QED BY ONLY <6>1, <6>2
        <5> QED BY <3>1, <3>2, <3>3, <4>2, <5>1, <5>2
      <4> QED BY <4>1, <4>2
    <3> QED BY <3>4, <3>5
  <2> QED BY <1>1, <1>2, <2>1, <2>2
<1>7. CASE SwapEntries(i)
  <2>1. log' = [log EXCEPT ![i] = log[i + 1], ![i + 1] = log[i]] /\ i < n
    BY <1>7 DEF SwapEntries
  <2>2. /\ Len(log') = n /\ log'[i] = log[i + 1] /\ log'[i + 1] = log[i]
        /\ \A j \in 1..n : j # i /\ j # i + 1 => log'[j] = log[j]
    BY <1>1, <2>1
  <2> QED BY <1>1, <1>2, <2>1, <2>2
<1> HIDE DEF n
<1> QED BY <1>1, <1>2, <1>3, <1>4, <1>5, <1>6, <1>7 DEF StorageFault, n

\* The entries of a chain are at their places, with hashes of their own.
LEMMA ChainFacts ==
    ASSUME LogTypeOK, Chained(log), NEW j \in 1..Len(log)
    PROVE  /\ log[j].seqNumber = j
           /\ log[j].prevHash = prevExpected(log, j)
           /\ selfConsistent(log[j])
<1>1. log[j] = seal(log[j].event, j, prevExpected(log, j))
  BY DEF Chained
<1> QED BY <1>1 DEF seal, selfConsistent

\* A fault in a chain breaks it, unless the text that is hashed stays what it was:
\* at the entry that changed, at the one behind an entry resealed, at the place of
\* an entry that is gone or has moved.
LEMMA FirstFault ==
    ASSUME LogTypeOK, log = appended, Chained(log), InPlace, faults = 0,
           NEW i \in DOMAIN log, StorageFault(i)
    PROVE  FaultShows' /\ (InPlace' \/ Sealed')
<1> DEFINE n == Len(log)
<1>1. /\ i \in 1..n /\ n \in Nat /\ faults' = 1 /\ reader' = reader /\ appended' = log
      /\ Len(appended) = n
      /\ \A j \in 1..n : log[j] \in LogEntry
  BY FaultEntries DEF LogTypeOK
<1>2. \A j \in 1..n : /\ log[j].seqNumber = j
                      /\ log[j].prevHash = prevExpected(log, j)
                      /\ selfConsistent(log[j])
  BY ChainFacts
<1>3. \A j \in 1..n : sealedAs(log[j], appended[j])
  BY DEF sealedAs
<1>4. CASE /\ Len(log') = n
           /\ log'[i].seqNumber = log[i].seqNumber
           /\ log'[i].prevHash = log[i].prevHash
           /\ \A j \in 1..n : j # i => log'[j] = log[j]
           /\ \/ log'[i].hash = Append(log[i].hash, changed) /\ log'[i].event = log[i].event
              \/ /\ log'[i].event \in Event /\ log'[i].event # log[i].event
                 /\ log'[i].hash = log[i].hash
  <2>1. selfConsistent(log'[i]) => sealedAs(log'[i], log[i])
    <3>1. log[i] \in LogEntry /\ selfConsistent(log[i])
      BY <1>1, <1>2
    <3>2. log'[i].hash = log[i].hash \/ ~selfConsistent(log'[i])
      BY <1>4, <3>1, HashTells DEF selfConsistent
    <3>3. log'[i].event \in Event
      BY <1>4, <3>1 DEF LogEntry
    <3>4. log'[i].hash = log[i].hash /\ selfConsistent(log'[i])
            => joined[log'[i].event] = joined[log[i].event]
      <4>1. (computeHash(log'[i].event, log[i].seqNumber, log[i].prevHash) =
                 computeHash(log[i].event, log[i].seqNumber, log[i].prevHash))
             <=> joined[log'[i].event] = joined[log[i].event]
        BY <3>1, <3>3, HashTells
      <4> QED BY <1>4, <3>1, <4>1 DEF selfConsistent
    <3> QED BY <1>4, <3>2, <3>4 DEF sealedAs
  <2>2. ~selfConsistent(log'[i]) => finding(log', i) # "ok"
    BY DEF finding
  <2>3. \A j \in 1..n : /\ log'[j].seqNumber = j
                        /\ selfConsistent(log'[j]) => sealedAs(log'[j], log[j])
    BY <1>1, <1>2, <1>3, <1>4, <2>1
  <2>4. selfConsistent(log'[i]) => \A j \in 1..n : sealedAs(log'[j], log[j])
    BY <1>2, <1>4, <2>1, <2>3
  <2>5. FaultShows'
    BY <1>1, <1>4, <2>2, <2>4 DEF FaultShows, Alike, sealedAs
  <2>6. InPlace'
    BY <1>1, <1>4, <2>3 DEF InPlace, authentic, sealedAs, selfConsistent
  <2> QED BY <2>5, <2>6
<1>5. CASE /\ Reach(i) /\ Len(log') = n
           /\ log'[i].seqNumber = log[i].seqNumber
           /\ log'[i].prevHash = log[i].prevHash
           /\ \A j \in 1..n : j # i => log'[j] = log[j]
           /\ log'[i].event \in Event /\ log'[i].event # log[i].event
           /\ log'[i].hash = computeHash(log'[i].event, log[i].seqNumber, log[i].prevHash)
  <2>1. log'[i].hash = log[i].hash <=> joined[log'[i].event] = joined[log[i].event]
    <3>1. log[i] \in LogEntry /\ selfConsistent(log[i])
      BY <1>1, <1>2
    <3> QED BY <1>5, <3>1, HashTells DEF selfConsistent
  <2>2. ASSUME log'[i].hash = log[i].hash PROVE FaultShows'
    <3>1. sealedAs(log'[i], log[i])
      BY <1>5, <2>1, <2>2 DEF sealedAs
    <3>2. \A j \in 1..n : sealedAs(log'[j], log[j])
      BY <1>3, <1>5, <3>1
    <3> QED BY <1>1, <1>5, <3>2 DEF FaultShows, Alike, sealedAs
  <2>3. ASSUME log'[i].hash # log[i].hash, ~TailFaults PROVE FaultShows'
    <3>1. /\ i + 1 \in 1..n /\ i + 1 # i /\ i + 1 # 1 /\ (i + 1) - 1 = i
          /\ log'[i + 1] = log[i + 1]
      BY <1>1, <1>5, <2>3 DEF Reach
    <3>2. log[i + 1].prevHash = log[i].hash
      BY <1>2, <3>1 DEF prevExpected
    <3>3. finding(log', i + 1) # "ok"
      BY <2>3, <3>1, <3>2 DEF finding, prevExpected
    <3> QED BY <1>1, <1>5, <3>1, <3>3 DEF FaultShows
  <2>4. FaultShows'
    BY <2>2, <2>3 DEF FaultShows
  <2>5. selfConsistent(log'[i])
    BY <1>5 DEF selfConsistent
  <2>6. Sealed'
    BY <1>1, <1>2, <1>5, <2>5 DEF Sealed, selfConsistent
  <2> QED BY <2>4, <2>6
<1>6. CASE /\ Reach(i) /\ Len(log') = n - 1
           /\ \A j \in 1..(n - 1) : log'[j] = IF j < i THEN log[j] ELSE log[j + 1]
  <2>1. FaultShows'
    <3> SUFFICES ASSUME ~TailFaults PROVE FaultShows'
      BY DEF FaultShows
    <3>1. i \in 1..(n - 1) /\ i + 1 \in 1..n /\ log'[i] = log[i + 1]
      BY <1>1, <1>6 DEF Reach
    <3>2. log'[i].seqNumber # i
      BY <1>1, <1>2, <3>1
    <3> QED BY <1>1, <1>6, <3>1, <3>2 DEF FaultShows, finding
  <2>2. \A j \in 1..(n - 1) : selfConsistent(log'[j])
    <3>1. \A j \in 1..(n - 1) : j \in 1..n /\ j + 1 \in 1..n
      BY <1>1
    <3> QED BY <1>2, <1>6, <3>1
  <2>3. Sealed'
    BY <1>1, <1>6, <2>2 DEF Sealed, selfConsistent
  <2> QED BY <2>1, <2>3
<1>7. CASE /\ i < n /\ Len(log') = n
           /\ log'[i] = log[i + 1] /\ log'[i + 1] = log[i]
           /\ \A j \in 1..n : j # i /\ j # i + 1 => log'[j] = log[j]
  <2>1. i + 1 \in 1..n
    BY <1>1, <1>7
  <2>2. log'[i].seqNumber # i
    BY <1>1, <1>2, <1>7, <2>1
  <2>3. FaultShows'
    BY <1>1, <1>7, <2>2 DEF FaultShows, finding
  <2>4. \A j \in 1..n : selfConsistent(log'[j])
    BY <1>1, <1>2, <1>7, <2>1
  <2>5. Sealed'
    BY <1>1, <1>7, <2>4 DEF Sealed, selfConsistent
  <2> QED BY <2>3, <2>5
<1> HIDE DEF n
<1> QED BY <1>4, <1>5, <1>6, <1>7, FaultEntries DEF n

\* Whatever happens to the entries, they keep numbers that were given.
LEMMA FaultNumbered ==
    ASSUME LogTypeOK, Numbered, NEW i \in DOMAIN log, StorageFault(i)
    PROVE  Numbered'
<1>1. /\ i \in 1..Len(log) /\ Len(log) \in Nat /\ appended' = appended
      /\ \A j \in 1..Len(log) : log[j].seqNumber \in 1..Len(appended)
  BY FaultEntries DEF LogTypeOK, Numbered
<1>2. ASSUME NEW j \in 1..Len(log')
      PROVE  \E k \in 1..Len(log) : log'[j].seqNumber = log[k].seqNumber
  <2>1. CASE /\ Len(log') = Len(log)
             /\ log'[i].seqNumber = log[i].seqNumber
             /\ \A k \in 1..Len(log) : k # i => log'[k] = log[k]
    BY <1>1, <2>1
  <2>2. CASE /\ Len(log') = Len(log) - 1
             /\ \A k \in 1..(Len(log) - 1) :
                    log'[k] = IF k < i THEN log[k] ELSE log[k + 1]
    <3>1. j \in 1..(Len(log) - 1) /\ j \in 1..Len(log) /\ j + 1 \in 1..Len(log)
      BY <1>1, <2>2
    <3> QED BY <2>2, <3>1
  <2>3. CASE /\ i < Len(log) /\ Len(log') = Len(log)
             /\ log'[i] = log[i + 1] /\ log'[i + 1] = log[i]
             /\ \A k \in 1..Len(log) : k # i /\ k # i + 1 => log'[k] = log[k]
    <3>1. j \in 1..Len(log) /\ i + 1 \in 1..Len(log)
      BY <1>1, <2>3
    <3> QED BY <1>1, <2>3, <3>1
  <2> QED BY <2>1, <2>2, <2>3, FaultEntries
<1> QED BY <1>1, <1>2 DEF Numbered

\* One append: the entry stored takes the place, the number and the content of
\* what append() was given, and nothing stored before is touched.
LEMMA AppendInv == ASSUME FInv, IInv', NEW event \in Event, append(event)
                   PROVE  FInv'
<1> DEFINE n == Len(log)
           e == sealNext(log, event)
<1>1. /\ log \in Seq(LogEntry) /\ appended \in Seq(LogEntry) /\ n \in Nat /\ Len(appended) \in Nat
      /\ Len(appended) < MaxAppends /\ MaxAppends \in Nat
      /\ log' = Append(log, e) /\ appended' = Append(appended, e)
      /\ reader' = reader /\ faults' = faults
      /\ reader \in Reader /\ faults \in Nat
  BY BoundsAssumption DEF FInv, IInv, LogTypeOK, append
<1>2. /\ e \in LogEntry /\ e.event = event /\ selfConsistent(e)
      /\ e.seqNumber = IF n = 0 THEN 1 ELSE log[n].seqNumber + 1
  BY <1>1, SealNextFacts
<1> HIDE DEF e
<1>3. /\ Len(log') = n + 1 /\ log'[n + 1] = e /\ \A j \in 1..n : log'[j] = log[j]
      /\ Len(appended') = Len(appended) + 1 /\ appended'[Len(appended) + 1] = e
      /\ \A j \in 1..Len(appended) : appended'[j] = appended[j]
  BY <1>1, <1>2
<1> HIDE DEF n
<1>4. n # 0 => n \in 1..n
  BY <1>1 DEF n
<1>5. Numbered'
  <2>1. \A j \in 1..n : log[j].seqNumber \in 1..Len(appended)
    BY DEF FInv, Numbered, n
  <2>2. \A j \in 1..(n + 1) : log'[j].seqNumber \in 1..(Len(appended) + 1)
    BY <1>1, <1>2, <1>3, <1>4, <2>1, SMTT(30) DEF n
  <2> QED BY <1>1, <1>3, <2>2 DEF Numbered
<1>6. FaultShows => FaultShows'
  <2>1. ASSUME NEW j \in 1..n, finding(log, j) # "ok"
        PROVE  j \in 1..(n + 1) /\ finding(log', j) # "ok"
    <3>1. finding(Append(log, e), j) = finding(log, j)
      BY <1>1, <1>2, FindingStays DEF n
    <3> QED BY <1>1, <2>1, <3>1 DEF n
  <2>2. Alike => Alike'
    <3>1. \A j \in 1..(n + 1) : Alike => sealedAs(log'[j], appended'[j])
      BY <1>1, <1>3 DEF Alike, sealedAs, n
    <3> QED BY <1>1, <1>3, <3>1 DEF Alike, sealedAs, n
  <2> QED BY <1>1, <1>3, <2>1, <2>2 DEF FaultShows, n
<1>7. InPlace => InPlace'
  <2> SUFFICES ASSUME InPlace PROVE InPlace'
    OBVIOUS
  <2>1. n = Len(appended) /\ \A j \in 1..n : /\ log[j].seqNumber = j
                                             /\ selfConsistent(log[j]) => sealedAs(log[j], appended[j])
    BY DEF InPlace, n
  <2>2. e.seqNumber = n + 1
    BY <1>1, <1>2, <1>4, <2>1 DEF n
  <2>3. \A j \in 1..(n + 1) : /\ log'[j].seqNumber = j
                              /\ selfConsistent(log'[j]) => sealedAs(log'[j], appended'[j])
    BY <1>1, <1>2, <1>3, <2>1, <2>2 DEF n, sealedAs
  <2>4. \A j \in DOMAIN reader.delivered : authentic(reader.delivered[j])'
    <3>1. \A k \in DOMAIN appended : k \in DOMAIN appended' /\ appended'[k] = appended[k]
      BY <1>1
    <3> QED BY <1>1, <3>1 DEF InPlace, authentic, sealedAs
  <2> QED BY <1>1, <1>3, <2>1, <2>3, <2>4 DEF InPlace, selfConsistent, sealedAs
<1>8. Sealed => Sealed'
  <2> SUFFICES ASSUME Sealed PROVE Sealed'
    OBVIOUS
  <2>1. \A j \in 1..(n + 1) : selfConsistent(log'[j])
    BY <1>1, <1>2, <1>3 DEF Sealed, n
  <2> QED BY <1>1, <1>3, <2>1 DEF Sealed, selfConsistent
<1>9. StreamSoFar'
  <2> SUFFICES ASSUME faults = 0, reader.kind = "stream", reader.state = "open"
               PROVE  /\ reader.from \in Nat \ {0}
                      /\ reader.next \in 1..((n + 1) + 1)
                      /\ reader.delivered = SubSeq(log', reader.from, reader.next - 1)
    <3>1. Len(log') = n + 1 /\ reader' = reader /\ faults' = faults
      BY <1>1, <1>3
    <3> QED BY <3>1 DEF StreamSoFar
  <2>1. /\ reader.from \in Nat \ {0}
        /\ reader.next \in 1..(n + 1)
        /\ reader.delivered = SubSeq(log, reader.from, reader.next - 1)
    BY DEF FInv, StreamSoFar, n
  <2> DEFINE a == reader.from
             b == reader.next - 1
  <2>2. a \in Nat \ {0} /\ b \in 0..n
    BY <1>1, <2>1
  <2> HIDE DEF a, b
  <2>3. SubSeq(Append(log, e), a, b) = SubSeq(log, a, b)
    BY <1>1, <1>2, <2>2 DEF n
  <2>4. SubSeq(Append(log, e), reader.from, reader.next - 1) =
        SubSeq(log, reader.from, reader.next - 1)
    BY <2>3 DEF a, b
  <2>5. reader.next \in 1..((n + 1) + 1)
    BY <1>1, <2>1
  <2> QED BY <1>1, <2>1, <2>4, <2>5
<1> QED BY <1>1, <1>5, <1>6, <1>7, <1>8, <1>9 DEF FInv

\* One entry: what a reader is handed has been checked against its own hash.
LEMMA PullInv == ASSUME FInv, IInv', Pull
                 PROVE  FInv'
<1> DEFINE n == Len(log)
           e == log[reader.next]
<1>1. /\ log \in Seq(LogEntry) /\ n \in Nat /\ log' = log /\ appended' = appended
      /\ faults' = faults /\ faults \in Nat
      /\ reader \in Reader /\ reader.next \in 1..n /\ e \in LogEntry
      /\ reader.state = "open"
  BY BoundsAssumption DEF FInv, IInv, LogTypeOK, Pull
<1>2. /\ reader.delivered \in Seq(LogEntry) /\ reader.from \in Int /\ reader.next \in Nat
  BY <1>1 DEF Reader
<1>3. \/ ~wanted(e) /\ reader' = [reader EXCEPT !.next = @ + 1]
      \/ wanted(e) /\ ~selfConsistent(e) /\ reader' = [reader EXCEPT !.state = "threw"]
      \/ wanted(e) /\ selfConsistent(e)
         /\ reader' = [reader EXCEPT !.next = @ + 1, !.delivered = Append(@, e)]
  BY DEF Pull
<1> HIDE DEF n, e
<1>4. /\ reader'.kind = reader.kind /\ reader'.from = reader.from
      /\ \/ /\ ~wanted(e) /\ reader'.next = reader.next + 1
            /\ reader'.delivered = reader.delivered
         \/ /\ ~selfConsistent(e) /\ reader'.state = "threw"
            /\ reader'.delivered = reader.delivered
         \/ /\ wanted(e) /\ selfConsistent(e) /\ reader'.next = reader.next + 1
            /\ reader'.delivered = Append(reader.delivered, e)
  BY <1>1, <1>3 DEF Reader
<1>5. Numbered' /\ (FaultShows => FaultShows') /\ (Sealed => Sealed')
  BY <1>1 DEF FInv, Numbered, FaultShows, Alike, sealedAs, Sealed, selfConsistent, finding,
                  prevExpected
<1>6. InPlace => InPlace'
  <2> SUFFICES ASSUME InPlace PROVE InPlace'
    OBVIOUS
  <2>1. selfConsistent(e) => authentic(e)
    BY <1>1 DEF InPlace, authentic, sealedAs, n, e, FInv, IInv, LogTypeOK
  <2>2. \A i \in DOMAIN reader'.delivered : authentic(reader'.delivered[i])
    <3>1. CASE reader'.delivered = reader.delivered
      BY <3>1 DEF InPlace
    <3>2. CASE selfConsistent(e) /\ reader'.delivered = Append(reader.delivered, e)
      <4>1. authentic(e)
        BY <2>1, <3>2
      <4>2. \A i \in DOMAIN Append(reader.delivered, e) :
                \/ i \in DOMAIN reader.delivered /\ Append(reader.delivered, e)[i] = reader.delivered[i]
                \/ Append(reader.delivered, e)[i] = e
        BY <1>1, <1>2
      <4>3. \A i \in DOMAIN reader.delivered : authentic(reader.delivered[i])
        BY DEF InPlace
      <4> QED BY <3>2, <4>1, <4>2, <4>3, Zenon
    <3> QED BY <1>4, <3>1, <3>2
  <2> QED BY <1>1, <2>2 DEF InPlace, authentic, sealedAs, selfConsistent
<1>7. StreamSoFar'
  <2> DEFINE a == reader.from
             b == reader.next
  <2> SUFFICES ASSUME faults = 0, reader.kind = "stream", reader'.state = "open"
               PROVE  /\ a \in Nat \ {0}
                      /\ reader'.next \in 1..(n + 1)
                      /\ reader'.delivered = SubSeq(log, a, reader'.next - 1)
    BY <1>1, <1>4 DEF StreamSoFar, n
  <2>1. /\ a \in Nat \ {0}
        /\ b \in 1..n /\ (b + 1) - 1 = b
        /\ reader.delivered = SubSeq(log, a, b - 1)
    BY <1>1, <1>2 DEF FInv, StreamSoFar
  <2>2. e.seqNumber = b
    <3>1. Chained(log) /\ LogTypeOK
      BY DEF FInv, IInv
    <3> QED BY <1>1, <3>1, ChainFacts DEF e, n
  <2>3. wanted(e) <=> a <= b
    BY <2>2 DEF wanted
  <2>4. reader'.next = b + 1
    BY <1>4
  <2>5. reader'.delivered = IF a <= b THEN Append(reader.delivered, e) ELSE reader.delivered
    BY <1>4, <2>3
  <2> HIDE DEF a, b
  <2>6. CASE a <= b
    <3>1. SubSeq(log, a, b) = Append(SubSeq(log, a, b - 1), log[b])
      BY <1>1, <2>1, <2>6 DEF n
    <3>2. e = log[b]
      BY DEF e, b
    <3> QED BY <1>1, <2>1, <2>4, <2>5, <2>6, <3>1, <3>2
  <2>7. CASE ~(a <= b)
    <3>1. SubSeq(log, a, b) = <<>> /\ SubSeq(log, a, b - 1) = <<>>
      BY <1>1, <2>1, <2>7 DEF n
    <3> QED BY <1>1, <2>1, <2>4, <2>5, <2>7, <3>1
  <2> QED BY <2>6, <2>7
<1> QED BY <1>1, <1>5, <1>6, <1>7 DEF FInv

LEMMA FInvInductive == LogSpec => []FInv
<1>1. LogInit => FInv
  <2> SUFFICES ASSUME LogInit PROVE FInv
    OBVIOUS
  <2>1. IInv
    BY InitInv
  <2>2. log = <<>> /\ appended = <<>> /\ faults = 0 /\ reader = Closed
    BY DEF LogInit
  <2>3. Numbered /\ FaultShows /\ InPlace /\ StreamSoFar
    BY <2>2, BoundsAssumption DEF Numbered, FaultShows, Alike, InPlace, StreamSoFar, Closed
  <2> QED BY <2>1, <2>3 DEF FInv
<1>2. FInv /\ [LogNext]_logVars => FInv'
  <2> SUFFICES ASSUME FInv, [LogNext]_logVars PROVE FInv'
    OBVIOUS
  <2>1. IInv /\ IInv'
    BY NextInv DEF FInv
  <2>2. ASSUME NEW event \in Event, append(event) PROVE FInv'
    BY <2>1, <2>2, AppendInv
  <2>3. ASSUME NEW kind \in {"export", "stream"}, NEW from \in Int, NEW to \in Int,
               Open(kind, from, to), kind = "stream" => from \in Nat \ {0}
        PROVE  FInv'
    <3>1. /\ log' = log /\ appended' = appended /\ faults' = faults
          /\ reader'.kind = kind /\ reader'.from = from /\ reader'.next = 1
          /\ reader'.delivered = <<>>
      BY <2>3 DEF Open
    <3>2. Numbered' /\ (FaultShows => FaultShows') /\ (Sealed => Sealed') /\ (InPlace => InPlace')
      BY <3>1 DEF FInv, Numbered, FaultShows, Alike, sealedAs, Sealed, InPlace, authentic, selfConsistent,
                  finding, prevExpected
    <3>3. StreamSoFar'
      <4>1. SubSeq(log, from, 1 - 1) = <<>> \/ ~(from \in Nat \ {0})
        BY <2>1 DEF IInv, LogTypeOK
      <4>2. Len(log) \in Nat /\ 1 \in 1..(Len(log) + 1)
        BY <2>1 DEF IInv, LogTypeOK
      <4> QED BY <2>3, <3>1, <4>1, <4>2 DEF StreamSoFar
    <3> QED BY <2>1, <3>1, <3>2, <3>3 DEF FInv
  <2>4. CASE Pull
    BY <2>1, <2>4, PullInv
  <2>5. CASE Finish
    <3>1. /\ log' = log /\ appended' = appended /\ faults' = faults
          /\ reader' = [reader EXCEPT !.state = "done"] /\ reader \in Reader
      BY <2>1, <2>5 DEF Finish, IInv, LogTypeOK
    <3>2. reader'.delivered = reader.delivered /\ reader'.state = "done"
      BY <3>1 DEF Reader
    <3>3. Numbered' /\ (FaultShows => FaultShows') /\ (Sealed => Sealed') /\ (InPlace => InPlace')
      BY <3>1, <3>2 DEF FInv, Numbered, FaultShows, Alike, sealedAs, Sealed, InPlace, authentic,
                        selfConsistent, finding, prevExpected
    <3>4. StreamSoFar'
      BY <3>2 DEF StreamSoFar
    <3> QED BY <2>1, <3>1, <3>3, <3>4 DEF FInv
  <2>6. ASSUME NEW i \in DOMAIN log, StorageFault(i) PROVE FInv'
    <3>1. LogTypeOK /\ faults \in Nat /\ faults' = faults + 1
      BY <2>1, <2>6, FaultEntries, BoundsAssumption DEF IInv, LogTypeOK
    <3>2. Numbered'
      BY <2>6, <3>1, FaultNumbered DEF FInv
    <3>3. ASSUME faults' <= 1 PROVE FaultShows' /\ (InPlace' \/ Sealed')
      <4>1. faults = 0
        BY <3>1, <3>3
      <4>2. log = appended /\ Chained(log) /\ InPlace
        BY <2>1, <4>1 DEF FInv, IInv, Sealed
      <4> QED BY <2>6, <3>1, <4>1, <4>2, FirstFault
    <3>4. StreamSoFar'
      BY <3>1 DEF StreamSoFar
    <3> QED BY <2>1, <3>2, <3>3, <3>4 DEF FInv
  <2>7. CASE UNCHANGED logVars
    <3>1. log' = log /\ appended' = appended /\ faults' = faults /\ reader' = reader
      BY <2>7 DEF logVars
    <3> QED BY <2>1, <3>1 DEF FInv, Numbered, FaultShows, Alike, sealedAs, Sealed, InPlace, StreamSoFar,
                              authentic, selfConsistent, finding, prevExpected
  <2>8. ASSUME NEW from \in 1..MaxAppends, stream(from) PROVE FInv'
    BY <2>3, <2>8, BoundsAssumption DEF stream
  <2>9. ASSUME NEW first \in Event, NEW last \in Event, export(Time[first], Time[last])
        PROVE  FInv'
    BY <2>3, <2>9, EventAssumption DEF export
  <2> QED BY <2>2, <2>4, <2>5, <2>6, <2>7, <2>8, <2>9 DEF LogNext
<1> QED BY <1>1, <1>2, PTL DEF LogSpec

-----------------------------------------------------------------------------

\* The range that VerifyAuditIntegrity is given is the whole log.
LEMMA WholeLog ==
    ASSUME FInv
    PROVE  slice(1, MaxAppends) = log
<1> DEFINE kept == {i \in DOMAIN log : 1 <= log[i].seqNumber /\ log[i].seqNumber <= MaxAppends}
<1>1. log \in Seq(LogEntry) /\ appended \in Seq(LogEntry) /\ MaxAppends \in Nat
  BY BoundsAssumption DEF FInv, IInv, LogTypeOK
<1>2. \A i \in 1..Len(log) : i \in kept
  BY <1>1 DEF FInv, Numbered
<1> HIDE DEF kept
<1>3. Selected(log, kept) = log
  BY <1>1, <1>2, SelectedAll
<1> QED BY <1>3 DEF slice, kept

\* When storage faults spare the tail, the check of the whole log succeeds only if
\* every entry that append() returned is there as it was sealed, whatever one fault
\* did and whatever was appended on top: the hash or the content of any entry
\* changed, an entry other than the last resealed or gone, two swapped.  What
\* counts of the content is the text that is hashed; joined need not tell events
\* apart.  (Two faults can cut the tail: swap the last two entries, then remove the
\* one that is no longer last.)
THEOREM OneFaultDetected == LogSpec => [](faults <= 1 /\ ~TailFaults => FaultDetected)
<1>1. FInv => (faults <= 1 /\ ~TailFaults => FaultDetected)
  <2> SUFFICES ASSUME FInv, faults <= 1, ~TailFaults, VerifyAuditIntegrity(1, MaxAppends).ok
               PROVE  Alike
    BY DEF FaultDetected, Alike
  <2>1. LogTypeOK
    BY DEF FInv, IInv
  <2>2. verify(log).ok
    BY WholeLog DEF VerifyAuditIntegrity
  <2>3. broken(log) = {}
    BY <2>2 DEF verify
  <2>4. \A i \in 1..Len(log) : finding(log, i) = "ok"
    BY <2>1, <2>3 DEF broken, LogTypeOK
  <2> QED BY <2>4 DEF FInv, FaultShows
<1> QED BY <1>1, FInvInductive, PTL

\* A reader is handed nothing but what append() sealed, under the number it was
\* sealed with, while the content or the hash of an entry, any entry, is
\* changed under it.
THEOREM OneFaultNotDelivered == LogSpec => [](faults <= 1 => DeliveredAuthentic)
<1>1. FInv => (faults <= 1 => DeliveredAuthentic)
  <2> SUFFICES ASSUME FInv, faults <= 1, faults = 0 \/ alteredInPlace
               PROVE  \A i \in DOMAIN reader.delivered : authentic(reader.delivered[i])
    BY DEF DeliveredAuthentic, authentic
  <2>1. ~Sealed
    BY DEF Sealed, alteredInPlace, FInv, IInv, LogTypeOK
  <2> QED BY <2>1 DEF FInv, InPlace
<1> QED BY <1>1, FInvInductive, PTL

\* A stream that ends has delivered the log from its starting point on, entry by
\* entry, whatever was appended while it ran.
THEOREM StreamsComplete == LogSpec => StreamComplete
<1>1. FInv /\ [LogNext]_logVars =>
        [(reader.state = "open" /\ reader'.state = "done" /\ faults = 0
          /\ reader.kind = "stream")
         => reader.delivered = SubSeq(log, reader.from, Len(log))]_logVars
  <2> SUFFICES ASSUME FInv, [LogNext]_logVars, reader.state = "open", reader'.state = "done",
                      faults = 0, reader.kind = "stream"
               PROVE  reader.delivered = SubSeq(log, reader.from, Len(log))
    OBVIOUS
  <2>1. reader \in Reader /\ log \in Seq(LogEntry)
    BY DEF FInv, IInv, LogTypeOK
  <2>2. Finish
    <3>1. \A event \in Event : ~append(event)
      BY DEF append
    <3>2. \A kind, from, to : ~Open(kind, from, to)
      BY DEF Open
    <3>3. ~Pull
      BY <2>1 DEF Pull, Reader
    <3>4. \A i \in DOMAIN log : ~StorageFault(i)
      BY DEF StorageFault, corruptHashAt, RemoveEntry, SwapEntries, EditEntry,
             ResealEntry, Fault
    <3>5. ~UNCHANGED logVars
      BY DEF logVars
    <3> QED BY <3>1, <3>2, <3>3, <3>4, <3>5 DEF LogNext, stream, export
  <2>3. reader.next \in 1..(Len(log) + 1) /\ reader.next \notin 1..Len(log)
    BY <2>1, <2>2 DEF FInv, StreamSoFar, Finish
  <2>4. reader.next - 1 = Len(log)
    BY <2>1, <2>3
  <2> QED BY <2>4 DEF FInv, StreamSoFar
<1> QED BY <1>1, FInvInductive, PTL DEF LogSpec, StreamComplete

=============================================================================
