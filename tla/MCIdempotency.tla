--------------------------- MODULE MCIdempotency ----------------------------
(* Three callers: a and b share a key, with different windows; d is alone on *)
(* its key; z passes a window of zero on the key of a and b.                 *)
EXTENDS Idempotency, TLC

CONSTANTS a, b, d, z, k1, k2

MCCall == {a, b, d, z}
MCKey == {k1, k2}
MCKeyOf == a :> k1 @@ b :> k1 @@ d :> k2 @@ z :> k1
MCTtl == a :> 1 @@ b :> 2 @@ d :> 2 @@ z :> 0
MCResult == {"v1", "v2"}
MCFailure == {"badTtl", "failed"}

=============================================================================
