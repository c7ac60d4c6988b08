--------------------------- MODULE MCCircuitBreaker ---------------------------
(* A small instance of CircuitBreaker. *)
EXTENDS CircuitBreaker

CONSTANTS a, b

(* Two agents that use one tool.                                           *)
TwoAgents == {<< <<a>>, <<b>> >>, << <<b>>, <<b>> >>}
=============================================================================
