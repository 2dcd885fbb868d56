------------------------------ MODULE Redaction ------------------------------
(***************************************************************************)
(* The three walks over payloads: redact (app/middleware/pii-redactor.ts), *)
(* assertRedacted (app/commands/append-audit-event.ts) and canonicalJson   *)
(* (domain/services/canonical-json.ts).  A JavaScript value is a pair of   *)
(* its kind and its content; an array is a sequence of values and an       *)
(* object a sequence of <<key, value>> in the order of its entries.  A     *)
(* PIIString and a Date are objects without entries, and a boolean is as   *)
(* good as a number.                                                       *)
(***************************************************************************)
EXTENDS Integers, Sequences, FiniteSets, Selection

CONSTANTS Text,     \* what strings say
          Digits,   \* what finite numbers and bigints are written as
          KeyOrder, \* the keys of objects, in the order of strings
          MaxDepth  \* BOUND on how deep payloads are nested

Null == <<"null", "">>
Undefined == <<"undefined", "">>
Str(x) == <<"string", x>>
Arr(values) == <<"array", values>>
Obj(entries) == <<"object", entries>>
REDACTED == Str("[REDACTED]")
kind(v) == v[1]
content(v) == v[2]

Key == {KeyOrder[i] : i \in DOMAIN KeyOrder}
NonFinite == {"NaN", "Infinity", "-Infinity"}

\* What a text consists of, besides what strings say and numbers.
Quote == "'"
Comma == ","
Colon == ":"
Bracket == "["
EndBracket == "]"
Brace == "{"
EndBrace == "}"
Punctuation == {"null", Quote, Comma, Colon, Bracket, EndBracket, Brace, EndBrace}

\* `${v.toString()}n`
withSuffix(digits) == digits \o "n"

ASSUME PayloadAssumption ==
    /\ "[REDACTED]" \in Text
    /\ \A d \in Digits : d \in Text \ (NonFinite \cup Punctuation) /\ withSuffix(d) \in Text
    /\ KeyOrder \in Seq(Text)
    /\ \A i, j \in DOMAIN KeyOrder : KeyOrder[i] = KeyOrder[j] => i = j
    /\ MaxDepth \in Nat

Scalar == {Null, Undefined}
          \cup ({"string", "Date", "PIIString"} \X Text)
          \cup ({"number"} \X (Digits \cup NonFinite))
          \cup ({"bigint"} \X Digits)

\* What is not nested; the object is what a Date becomes.
Flat == Scalar \cup {Obj(<<>>)}

\* The entries of an object: a key has one value.
Entries(values) == {es \in Seq(Key \X values) :
                        \A i, j \in DOMAIN es : es[i][1] = es[j][1] => i = j}

\* The values nested up to a depth, and all of them.
level[n \in Nat] == IF n = 0 THEN Flat
                    ELSE Scalar \cup ({"array"} \X Seq(level[n - 1]))
                                \cup ({"object"} \X Entries(level[n - 1]))
Payload == level[MaxDepth]

-------------------------------- (* redact *) -------------------------------

DEFAULT_FORBIDDEN == {"taxId", "fullName", "documentNumber", "dateOfBirth",
                      "evidenceBlob", "narrative", "contactHint"}

\* Mutant of walkInto: arrays are handed through.
walkObjects(v, inner) ==
    CASE kind(v) = "PIIString" -> REDACTED
      [] kind(v) = "bigint" -> Str(content(v))
      [] kind(v) = "Date" -> Obj(<<>>)
      [] kind(v) = "object" ->
            Obj([i \in DOMAIN content(v) |->
                LET k == content(v)[i][1] IN
                <<k, IF k \in DEFAULT_FORBIDDEN THEN REDACTED ELSE inner[content(v)[i][2]]>>])
      [] OTHER -> v

\* What walk makes of v; inner is what it makes of what is in v.
walkInto(v, inner) ==
    CASE kind(v) = "PIIString" -> REDACTED
      [] kind(v) = "bigint" -> Str(content(v))
      [] kind(v) = "Date" -> Obj(<<>>)
      [] kind(v) = "array" -> Arr([i \in DOMAIN content(v) |-> inner[content(v)[i]]])
      [] kind(v) = "object" ->
            Obj([i \in DOMAIN content(v) |->
                LET k == content(v)[i][1] IN
                <<k, IF k \in DEFAULT_FORBIDDEN THEN REDACTED ELSE inner[content(v)[i][2]]>>])
      [] OTHER -> v

walk[v \in Payload] == walkInto(v, walk)

---------------------------- (* AppendAuditEvent *) -------------------------

FORBIDDEN_KEYS == {"taxId", "fullName", "documentNumber", "dateOfBirth", "evidenceBlob"}

\* execute appends the payload, or throws PayloadContainsRawPII.
assertRedacted[v \in Payload] ==
    kind(v) = "object" =>
        \A i \in DOMAIN content(v) : /\ content(v)[i][1] \notin FORBIDDEN_KEYS
                                     /\ assertRedacted[content(v)[i][2]]

----------------------------- (* canonicalJson *) ---------------------------

Quoted(x) == <<Quote, x, Quote>>

\* Array.join, from the last text to the first; nothing for an undefined element.
joined(texts) ==
    LET last[n \in 0..Len(texts)] ==
            IF n = 0 THEN <<>>
            ELSE texts[Len(texts) - n + 1] \o (IF n = 1 THEN <<>> ELSE <<Comma>> \o last[n - 1])
    IN  last
join(texts) == joined(texts)[Len(texts)]

\* The value of an object for a key, and whether it is any but undefined.
valueOf(entries, k) == entries[CHOOSE i \in DOMAIN entries : entries[i][1] = k][2]
has(entries, k) == \E i \in DOMAIN entries :
                        entries[i][1] = k /\ kind(entries[i][2]) # "undefined"

\* Mutant of sorted: keys stay in the order they were written in.
unsorted(entries) == Selected([i \in DOMAIN entries |-> entries[i][1]],
                              {i \in DOMAIN entries : kind(entries[i][2]) # "undefined"})

\* The keys of the entries filtered and sorted.
sorted(entries) == Selected(KeyOrder, {i \in DOMAIN KeyOrder : has(entries, KeyOrder[i])})

\* What stringify writes for v; inner is what it writes for what is in v.
stringifyInto(v, inner) ==
    CASE kind(v) = "null" -> <<"null">>
      [] kind(v) = "undefined" -> <<>>
      [] kind(v) = "string" -> Quoted(content(v))
      [] kind(v) = "number" -> <<IF content(v) \in NonFinite THEN "null" ELSE content(v)>>
      [] kind(v) = "bigint" -> Quoted(withSuffix(content(v)))
      [] kind(v) = "Date" -> Quoted(content(v))
      [] kind(v) = "PIIString" -> <<Brace, EndBrace>>
      [] kind(v) = "array" ->
            <<Bracket>> \o join([i \in DOMAIN content(v) |-> inner[content(v)[i]]]) \o <<EndBracket>>
      [] kind(v) = "object" ->
            LET keys == sorted(content(v)) IN
            <<Brace>> \o join([i \in DOMAIN keys |->
                                Quoted(keys[i]) \o <<Colon>> \o inner[valueOf(content(v), keys[i])]])
                    \o <<EndBrace>>

stringify[v \in Payload] == stringifyInto(v, stringify)

------------------------------ (* references *) -----------------------------

\* What is in a value, and the step that leads there.
child(v, i) == IF kind(v) = "array" THEN content(v)[i] ELSE content(v)[i][2]
step(v, i) == IF kind(v) = "array" THEN <<"index", i>> ELSE <<"key", content(v)[i][1]>>

\* The leaves of a value, each with the steps that lead to it; an empty array or
\* object is a leaf.
leaves[v \in Payload] ==
    IF kind(v) \notin {"array", "object"} \/ content(v) = <<>>
    THEN {[path |-> <<>>, leaf |-> v]}
    ELSE UNION {{[path |-> <<step(v, i)>> \o l.path, leaf |-> l.leaf] : l \in leaves[child(v, i)]} :
                i \in DOMAIN content(v)}

keysOf(l, keys) == {i \in DOMAIN l.path : l.path[i][1] = "key" /\ l.path[i][2] \in keys}

\* What redaction owes a leaf: it is cut off at the first forbidden key.
hidden(l) ==
    LET cuts == keysOf(l, DEFAULT_FORBIDDEN)
    IN  IF cuts # {} THEN [path |-> SubSeq(l.path, 1, CHOOSE i \in cuts : \A j \in cuts : i <= j),
                           leaf |-> REDACTED]
        ELSE [l EXCEPT !.leaf = CASE kind(@) = "PIIString" -> REDACTED
                                  [] kind(@) = "bigint" -> Str(content(@))
                                  [] kind(@) = "Date" -> Obj(<<>>)
                                  [] OTHER -> @]

\* redact (pii-redactor.ts:37) hides what is under a forbidden key and every
\* PIIString, at any depth, and nothing else.  assertRedacted
\* (append-audit-event.ts:27) refuses a payload in which a forbidden key is
\* reached through objects alone, at any depth; it refuses none without a
\* forbidden key, nor the redacted form of one that it accepts.
RedactionExact(v) ==
    /\ leaves[walk[v]] = {hidden(l) : l \in leaves[v]}
    /\ (\E l \in leaves[v] : \E i \in keysOf(l, FORBIDDEN_KEYS) :
            \A j \in 1..i : l.path[j][1] = "key") => ~assertRedacted[v]
    /\ ~assertRedacted[v] => \E l \in leaves[v] : keysOf(l, FORBIDDEN_KEYS) # {}
    /\ assertRedacted[v] => assertRedacted[walk[v]]

\* "If the payload contains any value that serializes to `[REDACTED]` (PIIString)
\* or if it includes keys that look like raw PII fields (taxId, fullName,
\* documentNumber), we throw PayloadContainsRawPII" (append-audit-event.ts:12).
RefusesRawPII(v) ==
    (\E l \in leaves[v] : kind(l.leaf) = "PIIString" \/ keysOf(l, FORBIDDEN_KEYS) # {})
        => ~assertRedacted[v]

\* What a value that holds no others stands for in a text, and what the others
\* hold there: nothing under a PIIString, or in an array of one undefined element.
meant(v) == CASE kind(v) = "bigint" -> Str(withSuffix(content(v)))
              [] kind(v) = "Date" -> Str(content(v))
              [] kind(v) = "number" /\ content(v) \in NonFinite -> Null
              [] OTHER -> v
elements(v) == IF content(v) = <<Undefined>> THEN <<>> ELSE content(v)
entriesOf(v) == IF kind(v) = "PIIString" THEN <<>> ELSE content(v)

\* Values that the hash of a payload may take for one another: entries are in no
\* order and the undefined ones do not count.
alike[v \in Payload] ==
    [w \in Payload |->
        IF kind(v) = "array" THEN
            LET s == elements(v)
                t == elements(w)
            IN  /\ kind(w) = "array" /\ Len(s) = Len(t)
                /\ \A i \in DOMAIN s : alike[s[i]][t[i]]
        ELSE IF kind(v) \in {"object", "PIIString"} THEN
            LET es == entriesOf(v)
                fs == entriesOf(w)
            IN  /\ kind(w) \in {"object", "PIIString"}
                /\ \A k \in Key : /\ has(es, k) <=> has(fs, k)
                                  /\ has(es, k) => alike[valueOf(es, k)][valueOf(fs, k)]
        ELSE kind(w) \notin {"array", "object", "PIIString"} /\ meant(v) = meant(w)]

\* canonicalJson (canonical-json.ts:11): two payloads have one text, and so one
\* hash in the audit chain, exactly if they are alike.
CanonicalDecides(v, w) == stringify[v] = stringify[w] <=> alike[v][w]

=============================================================================
