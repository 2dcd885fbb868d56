---------------------------- MODULE MCMiddleware ----------------------------
(* Five requests of one idempotent command.  a and d are of one tenant and   *)
(* key, d under the name of the command's class, so that request and command *)
(* have one key; b repeats a without a key for the middleware; c is the same *)
(* as a of another tenant; e lacks a scope.                                  *)
EXTENDS Middleware, TLC

CONSTANTS a, b, c, d, e

MCRequest == {a, b, c, d, e}
MCChar == {"t", "u", "k", ":", "start", "StartVerification"}
MCTenant == {<<"t">>, <<"u">>}
MCScope == {"read", "write"}
MCCommand == {<<"start">>, <<"StartVerification">>}
MCCaller == [r \in MCRequest |-> [tenant |-> IF r = c THEN <<"u">> ELSE <<"t">>,
                                  scopes |-> IF r = e THEN {"read"} ELSE MCScope]]
MCCommandOf == [r \in MCRequest |-> IF r = d THEN <<"StartVerification">> ELSE <<"start">>]
MCIdemKey == [r \in MCRequest |-> <<"k">>]
MCKeyed == MCRequest \ {b}
MCClassName == [n \in MCCommand |-> <<"StartVerification">>]
MCTtl == [u \in Run |-> IF u[2] = "command" THEN 2 ELSE 1]
MCFallible == {<<a, "observe">>, <<d, "exit">>, <<b, "enter">>}

=============================================================================
