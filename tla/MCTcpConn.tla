------------------------------ MODULE MCTcpConn ------------------------------
(* Instances of TcpConn for TLC. *)
EXTENDS TcpConn, TLC

CONSTANTS a, s

Apart == [c \in {a, s} |-> c]
Backoff == [n \in 0..MaxShift |-> n + 1]
=============================================================================
