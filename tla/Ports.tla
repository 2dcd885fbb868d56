-------------------------------- MODULE Ports -------------------------------
(***************************************************************************)
(* Three adapters the commands share: the audit log, the event bus and,    *)
(* within its turns, the idempotency store.  They have no state in common  *)
(* and none calls another, so a behaviour is about one of them.            *)
(***************************************************************************)
EXTENDS AuditChain, EventBus, IdempotencyTurns

VARIABLE port \* the adapter the behaviour is about

ports == <<port, logVars, busVars, turnsVars>>

PortsInit == /\ port \in {"auditLog", "eventBus", "idempotency"}
             /\ LogInit /\ BusInit /\ TurnsInit

LogStep == port = "auditLog" /\ LogNext /\ UNCHANGED <<port, busVars, turnsVars>>
BusStep == port = "eventBus" /\ BusNext /\ UNCHANGED <<port, logVars, turnsVars>>
TurnsStep == port = "idempotency" /\ TurnsNext /\ UNCHANGED <<port, logVars, busVars>>

PortsNext == LogStep \/ BusStep \/ TurnsStep

PortsSpec == PortsInit /\ [][PortsNext]_ports /\ TurnsFairness

\* Types of the state of each.
PortsTypeOK == LogTypeOK /\ BusTypeOK /\ TurnsTypeOK

=============================================================================
