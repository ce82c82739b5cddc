------------------------------ MODULE MCBroker ------------------------------
(***************************************************************************)
(* Model checking the broker: a cheap seller, and one over the broker's    *)
(* cap that is bought from only when the cheap one gives no quote.         *)
(***************************************************************************)
EXTENDS Broker

CONSTANTS cheap, premium

MCSellers == <<cheap, premium>>
MCPrice == [s \in {cheap, premium} |-> IF s = cheap THEN 30 ELSE 200]
=============================================================================
