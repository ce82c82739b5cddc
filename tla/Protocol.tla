------------------------------ MODULE Protocol ------------------------------
(***************************************************************************)
(* The messages of the market, as they are read back by the agent that gets*)
(* them, and which bids a buyer keeps (packages/agent-runtime/src/market/  *)
(* protocol.ts).  Of a message the models keep what an agent acts on; each *)
(* carries the round it is about.  Prices are in units of 0.0000001 SOL.   *)
(***************************************************************************)
EXTENDS Integers, Sequences

Sol == 10000000

\* A price as it is read back from a message.  JavaScript prints a number below
\* 0.000001 with an exponent (5e-7), and the pattern [\d.]+ stops before the e:
\* what is read is the mantissa.
Wire(price) == IF 0 < price /\ price < 10 THEN price * Sol ELSE price

Want(n, budget) == [verb |-> "WANT", round |-> n, budget |-> Wire(budget)]

Bid(n, price, by) == [verb |-> "BID", round |-> n, price |-> Wire(price), by |-> by]

Award(n, to) == [verb |-> "AWARD", round |-> n, to |-> to]

EscrowRequired(n, ref, seller, amount, settlement) ==
    [verb |-> "ESCROW_REQUIRED", round |-> n, ref |-> ref, seller |-> seller,
     amount |-> Wire(amount), settlement |-> settlement]

Deposited(n, ref, settlement) ==
    [verb |-> "DEPOSITED", round |-> n, ref |-> ref, settlement |-> settlement]

\* The payload's hash goes along, computed from the same payload.
Verify(n, payload) == [verb |-> "VERIFY", round |-> n, payload |-> payload]

Verified(n, verdict) == [verb |-> "VERIFIED", round |-> n, verdict |-> verdict]

\* Messages that agents write out themselves; a release is told as RELEASED or, on
\* the arbiter rail, as ARBITER_RELEASED.  An error names no round.
Delivered(n, payload) == [verb |-> "DELIVERED", round |-> n, payload |-> payload]
Released(n) == [verb |-> "RELEASED", round |-> n]
Error == [verb |-> "ERROR", round |-> 0]

\* The bids kept of those received: of each seller its last one.
SelectBids(bids) ==
    {bids[i] : i \in {j \in DOMAIN bids :
                        \A k \in DOMAIN bids : k > j => bids[k].by # bids[j].by}}

\* Where a seller stands among the bids kept: at its first bid (a Map keeps the
\* position of a key that is set again).
Place(bids, by) == CHOOSE i \in DOMAIN bids :
                      bids[i].by = by /\ \A j \in 1..(i - 1) : bids[j].by # by
=============================================================================
