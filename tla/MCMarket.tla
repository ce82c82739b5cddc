------------------------------ MODULE MCMarket ------------------------------
(***************************************************************************)
(* Model checking the market: two sellers that share a wallet, as the      *)
(* launcher (examples/marketplace/start.ts) sets them up.  One asks for the*)
(* arbiter rail and may quote a price the wire format misreads.            *)
(***************************************************************************)
EXTENDS Market

CONSTANTS cheap, premium, sellerWallet

MCWallet == [s \in {cheap, premium} |-> sellerWallet]
MCFloor == [s \in {cheap, premium} |-> IF s = cheap THEN 5 ELSE 3000]
MCSettles == [s \in {cheap, premium} |-> IF s = cheap THEN "arbiter" ELSE "direct"]
=============================================================================
