------------------------------- MODULE MCProxy -------------------------------
(* Two requests, one of them twice as dear as the other. *)
EXTENDS Proxy

CONSTANTS q1, q2

MCAmount == [q \in Requests |-> IF q = q1 THEN 2 ELSE 1]
=============================================================================
