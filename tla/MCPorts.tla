------------------------------- MODULE MCPorts ------------------------------
(* The audit log of MCAuditChain.  An event bus with events of two types:    *)
(* the first handler is subscribed three times, twice for one of the types,  *)
(* the second handler once.  A store with four calls of one key: a runs b in *)
(* its first turn, c has a window of zero, d throws instead of returning.    *)
EXTENDS Ports, MCAuditChain

CONSTANTS h1, h2, s1, s2, s3, s4, p1, p2, started, failed,
          a, b, c, d, k

MCHandlerOf == [s \in Subscription |-> IF s = s4 THEN h2 ELSE h1]
MCTypeOf == [s \in Subscription |-> IF s = s3 THEN failed ELSE started]
MCEventTypeOf == [p \in Publication |-> IF p = p2 THEN failed ELSE started]

MCKeyOf == [x \in Call |-> k]
MCTtl == [x \in Call |-> IF x = c THEN 0 ELSE 1]
MCInside == [x \in Call |-> IF x = a THEN {b} ELSE {}]

=============================================================================
