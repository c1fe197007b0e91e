-------------------------- MODULE SocketExchangeMC --------------------------
(* Images of two sizes for the runs of SocketExchange.                     *)
EXTENDS SocketExchange

CONSTANTS a, b

TwoSizes == [f \in {a, b} |-> IF f = a THEN 2 ELSE 3]
=============================================================================
