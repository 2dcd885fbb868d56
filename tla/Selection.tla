------------------------------ MODULE Selection ------------------------------
(***************************************************************************)
(* Array.prototype.filter: the entries of a sequence at given positions,   *)
(* in their order.  SelectSeq of the standard modules does this for a test *)
(* on the entries, but the provers know nothing of it; here it is a        *)
(* recursive function, whose facts are proved in Selection_proofs.         *)
(***************************************************************************)
EXTENDS Integers, Sequences

\* The n-th entry: put behind those kept before it, or left out.
Keep(s, kept, n, before) == IF n \in kept THEN Append(before, s[n]) ELSE before

\* What is kept of the first n entries, for every n.
SelectedUpTo(s, kept) ==
    LET upTo[n \in Nat] == IF n = 0 THEN <<>> ELSE Keep(s, kept, n, upTo[n - 1])
    IN  upTo

Selected(s, kept) == SelectedUpTo(s, kept)[Len(s)]

=============================================================================
