---------------------------- MODULE MCConnections ----------------------------
(* An instance of Connections for TLC: two connections and one header table, *)
(* so that one of them waits; the first peer can send a request, and what a  *)
(* connection does after it, and the second one competes.                    *)
EXTENDS Connections, TLC

CONSTANTS a, b

MCConns == {a, b}
MCMaxSent == a :> 2 @@ b :> 1
=============================================================================
