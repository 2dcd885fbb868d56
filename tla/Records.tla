------------------------------- MODULE Records ------------------------------
(***************************************************************************)
(* The parts no command drives, one beside the other.  A behaviour is      *)
(* about one of them, its topic: the vault, the secrets store, the reviews *)
(* or one input of the algorithms, which then stays as it is.              *)
(***************************************************************************)
EXTENDS Vault, Review, Redaction, Values

CONSTANT Input \* what the algorithms are given, for each topic of theirs

ASSUME InputAssumption ==
    /\ Input.payload \subseteq Payload
    /\ Input.decimal \subseteq DecimalText \X DecimalText
    /\ Input.taxId \subseteq Country \X Shape
    /\ Input.time \subseteq DateText \X DateText
    /\ Input.listing \subseteq [sessions : Seq(Session), filter : Filter, at : DateText]

VARIABLES topic, input

records == <<topic, input, vaultVars, reviewVars>>

Init == /\ VaultInit /\ ReviewInit
        /\ \/ topic \in {"vault", "secrets", "review"} /\ input = Nothing
           \/ topic \in {"payload", "decimal", "taxId", "time", "listing"} /\ input \in Input[topic]

VaultStep == topic = "vault" /\ CredentialNext /\ UNCHANGED <<topic, input, reviewVars>>
SecretStep == topic = "secrets" /\ SecretNext /\ UNCHANGED <<topic, input, reviewVars>>
ReviewStep == topic = "review" /\ ReviewNext /\ UNCHANGED <<topic, input, vaultVars>>

Next == VaultStep \/ SecretStep \/ ReviewStep

Spec == Init /\ [][Next]_records

\* Reviews and listings: see Review.
ReviewsStand == topic = "review" => ReviewersHeard /\ ListedAsReported

\* Redaction at every depth, and what the audit log refuses: see Redaction.
RedactionIsExact == topic = "payload" => RedactionExact(input)

\* The audit log refuses every payload, an object, that holds raw PII: see Redaction.
RawPIIRefused == topic = "payload" /\ kind(input) = "object" => RefusesRawPII(input)

\* One text, one meaning, for every pair of payloads: see Redaction.
CanonicalIsExact == topic = "payload" => \A w \in Input.payload : CanonicalDecides(input, w)

\* Decimals and tax ids, times and listings: see Values and Listing.
ValuesExact ==
    /\ topic = "decimal" => DecimalExact(input[1], input[2])
    /\ topic = "taxId" => TaxKindDecided(input[1], input[2])
    /\ topic = "time" => TimesInOrder(input[1], input[2])
    /\ topic = "listing" => ListingExact(input.sessions, input.filter, input.at)

=============================================================================
