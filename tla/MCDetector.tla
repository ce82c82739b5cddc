----------------------------- MODULE MCDetector -----------------------------
(* Three transactions: an exploit, a checked withdrawal, and an overflow that the
   program itself stopped. *)
EXTENDS Detector

MCTransactions == {[success |-> TRUE, overflow |-> FALSE, withdraw |-> TRUE, checked |-> FALSE],
            [success |-> TRUE, overflow |-> FALSE, withdraw |-> TRUE, checked |-> TRUE],
            [success |-> FALSE, overflow |-> TRUE, withdraw |-> TRUE, checked |-> FALSE]}
=============================================================================
