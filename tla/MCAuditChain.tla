---------------------------- MODULE MCAuditChain ----------------------------
(* Two earlier event contents that are hashed as one text, and a later one  *)
(* hashed as another.                                                       *)
EXTENDS AuditChain

CONSTANTS e1, e2, e3, one, two

MCTime == [e \in Event |-> IF e = e3 THEN 2 ELSE 1]
MCJoined == [e \in Event |-> IF e = e3 THEN two ELSE one]

=============================================================================
