-------------------------------- MODULE Values -------------------------------
(***************************************************************************)
(* The value objects that compute: Decimal and TaxId                       *)
(* (domain/value-objects/decimal.ts, tax-id.ts).                           *)
(***************************************************************************)
EXTENDS Integers, Sequences, FiniteSets

------------------------------- (* Decimal *) -------------------------------

\* 10n ** BigInt(n), as a recursive function: the provers know no powers.
power[n \in Nat] == IF n = 0 THEN 1 ELSE 10 * power[n - 1]

\* A decimal is value / 10^scale; its text is a sign, the whole part and the
\* digits of the fraction.
Decimal(value, scale) == [value |-> value, scale |-> scale]
DecimalText == [negative : BOOLEAN, whole : Nat, frac : Seq(0..9)]

abs(n) == IF n < 0 THEN -n ELSE n
digit(n, i) == (n \div power[i]) % 10

\* BigInt(frac), from the numbers that its first digits make.
leading(frac) == LET f[i \in 0..Len(frac)] == IF i = 0 THEN 0 ELSE 10 * f[i - 1] + frac[i]
                 IN  f
numberOf(frac) == leading(frac)[Len(frac)]

fromString(t) ==
    LET size == t.whole * power[Len(t.frac)] + numberOf(t.frac)
    IN  Decimal(IF t.negative THEN -size ELSE size, Len(t.frac))

\* Mutant of toString: the fraction is not padded with zeros.
toStringUnpadded(d) ==
    [negative |-> d.value < 0,
     whole |-> abs(d.value) \div power[d.scale],
     frac |-> LET rest == abs(d.value) % power[d.scale]
                  width == CHOOSE n \in 0..d.scale :
                            rest < power[n] /\ \A m \in 0..d.scale : rest < power[m] => n <= m
              IN  [i \in 1..width |-> digit(rest, width - i)]]

toString(d) ==
    [negative |-> d.value < 0,
     whole |-> abs(d.value) \div power[d.scale],
     frac |-> [i \in 1..d.scale |-> digit(abs(d.value), d.scale - i)]]

\* fromNumber of a float that stands for d, with fewer digits: the product with
\* the power of ten may come out on either side of a tie.  (That holds as long as
\* d has no more digits than a float carries, which is fifteen.)
fromNumber(d, scale) ==
    LET unit == power[d.scale - scale]
        below == d.value \div unit
        rest == d.value % unit
    IN  {Decimal(v, scale) : v \in IF 2 * rest < unit THEN {below}
                                   ELSE IF 2 * rest > unit THEN {below + 1}
                                   ELSE {below, below + 1}}

equals(d, e) ==
    LET maxScale == IF d.scale > e.scale THEN d.scale ELSE e.scale
    IN  d.value * power[maxScale - d.scale] = e.value * power[maxScale - e.scale]

-------------------------------- (* TaxId *) --------------------------------

\* A tax id as the patterns see it: so many letters, so many digits (the first of
\* them may matter) and so many letters again, perhaps with one separator,
\* before the last digit or elsewhere among the digits.
Shape == [pre : Nat, digits : Nat, first : 0..9, post : Nat,
          separator : {"", "-", "."}, beforeLast : BOOLEAN]

numeric(s, separators) == s.pre = 0 /\ s.post = 0 /\ s.separator \in separators
length(s) == s.pre + s.digits + s.post + (IF s.separator = "" THEN 0 ELSE 1)
dashed == {"", "-"}

\* The kinds of each country, in the order their patterns are tried.
KINDS ==
    [CR |-> <<"CEDULA_FISICA", "CEDULA_JURIDICA", "DIMEX">>,
     MX |-> <<"RFC">>,
     CO |-> <<"CEDULA_FISICA", "NIT">>,
     PA |-> <<"CEDULA_FISICA">>, GT |-> <<"CEDULA_FISICA">>, HN |-> <<"CEDULA_FISICA">>,
     NI |-> <<"CEDULA_FISICA">>, SV |-> <<"CEDULA_FISICA">>, DO |-> <<"CEDULA_FISICA">>,
     US |-> <<"PASSPORT">>]

Country == DOMAIN KINDS

\* Whether the pattern of a country for a kind fits.
VALIDATORS(country, kind, s) ==
    \/ /\ country = "CR" /\ numeric(s, dashed)
       /\ \/ kind = "CEDULA_FISICA" /\ s.digits = 9 /\ s.first # 0
          \/ kind = "CEDULA_JURIDICA" /\ s.digits = 10 /\ s.first = 3
          \/ kind = "DIMEX" /\ s.digits \in 11..12
    \/ /\ country = "MX" /\ s.pre \in {3, 4} /\ s.separator = ""
       /\ s.digits >= 6 /\ s.digits + s.post = 9
    \/ /\ country = "CO" /\ numeric(s, {"", "-", "."})
       /\ \/ kind = "CEDULA_FISICA" /\ s.digits \in 6..10
          \/ kind = "NIT" /\ s.digits \in 9..10
    \/ country = "PA" /\ s.separator # "." /\ length(s) \in 5..20
    \/ country = "GT" /\ numeric(s, dashed) /\ s.digits \in 7..13
    \/ country = "HN" /\ numeric(s, dashed) /\ s.digits = 13
    \/ country = "NI" /\ numeric([s EXCEPT !.post = 0], dashed) /\ s.digits = 14 /\ s.post <= 1
    \/ /\ country = "SV" /\ numeric(s, dashed) /\ s.digits = 9
       /\ s.separator = "-" => s.beforeLast
    \/ country = "DO" /\ numeric(s, dashed) /\ s.digits = 11
    \/ country = "US" /\ s.separator = "" /\ length(s) \in 6..12

InvalidTaxId == "InvalidTaxId"
AnyKind == "any"

\* The kind that parse infers, or its error; expected is input.kind.
parse(country, s, expected) ==
    LET kinds == KINDS[country]
        hits == {i \in DOMAIN kinds : VALIDATORS(country, kinds[i], s)}
        found == kinds[CHOOSE i \in hits : \A j \in hits : i <= j]
    IN  IF hits = {} \/ (expected # AnyKind /\ expected # found) THEN InvalidTaxId ELSE found

------------------------------ (* properties *) -----------------------------

\* Decimal (decimal.ts:21-60): a text survives parsing and printing, but for the
\* sign of zero; numbers that are equal are so at any two scales; a float is
\* rounded to a nearest decimal, below zero too.
DecimalExact(t, other) ==
    LET d == fromString(t)
        e == fromString(other)
    IN  /\ toString(d) = [t EXCEPT !.negative = t.negative /\ d.value # 0]
        /\ equals(d, e) <=> d.value * power[e.scale] = e.value * power[d.scale]
        /\ \A scale \in 0..d.scale : \A r \in fromNumber(d, scale) :
            2 * abs(r.value * power[d.scale - scale] - d.value) <= power[d.scale - scale]

\* TaxId (tax-id.ts:33-56): the patterns of a country exclude each other, so that
\* no kind depends on the order they are tried in, and a caller that names the
\* kind gets it; all but Colombia's, where every NIT is taken for a cedula first
\* and one that is declared as a NIT is refused.
TaxKindDecided(country, s) ==
    \A i \in DOMAIN KINDS[country] :
        LET kind == KINDS[country][i]
        IN  VALIDATORS(country, kind, s) =>
                \/ /\ \A j \in DOMAIN KINDS[country] :
                        VALIDATORS(country, KINDS[country][j], s) => j = i
                   /\ parse(country, s, kind) = kind
                \/ /\ country = "CO" /\ s.digits \in 9..10
                   /\ parse(country, s, AnyKind) = "CEDULA_FISICA"
                   /\ parse(country, s, "NIT") = InvalidTaxId

=============================================================================
