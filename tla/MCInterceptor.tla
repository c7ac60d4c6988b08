---------------------------- MODULE MCInterceptor ----------------------------
(* Small instances of Interceptor: calls of one agent and tool, which      *)
(* share a breaker key.                                                    *)
EXTENDS Interceptor

CONSTANT k

OneKey == [c \in Calls |-> k]
=============================================================================
