----------------------------- MODULE MCArbiter -----------------------------
(***************************************************************************)
(* Model checking the two programs: two wallets that buy and sell (one of  *)
(* them may become the arbiter), two references with their vaults.         *)
(***************************************************************************)
EXTENDS Arbiter

CONSTANTS buyer, seller, vault1, vault2, r1, r2

MCAccounts == {buyer, seller, vault1, vault2}
MCSigners == {buyer, seller}
MCRefs == {r1, r2}
MCVault == [r \in MCRefs |-> IF r = r1 THEN vault1 ELSE vault2]
MCLamports == [a \in MCAccounts |-> IF a = buyer THEN 9 ELSE IF a = seller THEN 1 ELSE 0]
=============================================================================
