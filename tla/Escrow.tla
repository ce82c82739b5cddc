------------------------------- MODULE Escrow -------------------------------
(***************************************************************************)
(* The escrow program (examples/txodds/escrow/programs/escrow): a buyer    *)
(* locks lamports for one seller under a reference, releases them on       *)
(* delivery, or takes them back at or after a deadline.                    *)
(*                                                                         *)
(* An escrow account lives at the program address derived from the buyer   *)
(* and the reference, so it is escrow[buyer][ref]; the key stands for the  *)
(* seeds and has_one = buyer constraints.  The operations take the balances*)
(* they start from, so that the arbiter program can call them (CPI) after  *)
(* moving lamports in the same transaction.  A transaction whose guard     *)
(* fails is rolled back by the chain: it is a step that does not happen.   *)
(*                                                                         *)
(* Lamports are naturals: the program's u64 sums are checked and bounded   *)
(* by the supply, so they never wrap.  Transaction fees are left out.      *)
(***************************************************************************)
EXTENDS Integers

CONSTANTS Accounts,   \* every address that can hold lamports
          Signers,    \* the accounts with a keypair, which sign transactions
          Refs,       \* Solana Pay references
          Amounts,    \* the deposits that are tried, zero among them
          Rent,       \* rent-exempt minimum of an escrow account
          MaxTime,    \* bound on the clock
          InitialLamports, \* what each account holds at the start
          NoEscrow    \* no account at this address

ASSUME SignersAssumption == Signers \subseteq Accounts
ASSUME RentAssumption == Rent \in Nat \ {0}
ASSUME AmountsAssumption == Amounts \subseteq Nat
ASSUME MaxTimeAssumption == MaxTime \in Nat
ASSUME LamportsAssumption == InitialLamports \in [Accounts -> Nat]

VARIABLES lamports,   \* balance of every account
          escrow,     \* escrow[buyer][reference]: the escrow account, if any
          now         \* the chain's clock

escrowVars == <<lamports, escrow, now>>

EscrowState == [seller : Accounts, amount : Nat, deadline : Nat, lamports : Nat]

Exists(buyer, ref) == escrow[buyer][ref] # NoEscrow

ASSUME NoEscrowAssumption ==
    /\ NoEscrow \notin EscrowState
    /\ NoEscrow \notin [seller : Accounts, amount : Nat, deadline : Nat]

\* Mutant: an account that exists is initialized again (`init_if_needed`).
InitIfNeeded(buyer, ref) == TRUE

\* `init`: there must not be an account at the address yet.
Vacant(buyer, ref) == ~Exists(buyer, ref)

\* The system program's transfers fail when the payer has less.
CanPay(bal, payer, n) == bal[payer] >= n

\* Mutant: the rent is paid and the deposit is not moved.
UnfundedEscrow(seller, amount, deadline) ==
    [seller |-> seller, amount |-> amount, deadline |-> deadline, lamports |-> Rent]

NewEscrow(seller, amount, deadline) ==
    [seller |-> seller, amount |-> amount, deadline |-> deadline,
     lamports |-> Rent + amount]

(***************************************************************************)
(* initialize: the account must not exist yet (`init`), the amount must be *)
(* positive, the deadline ahead; the buyer pays the rent and the amount.   *)
(***************************************************************************)
Initialize(bal, buyer, seller, amount, ref, deadline) ==
    /\ Vacant(buyer, ref)
    /\ amount > 0
    /\ deadline > now
    /\ CanPay(bal, buyer, Rent + amount)
    /\ lamports' = [bal EXCEPT ![buyer] = @ - (Rent + amount)]
    /\ escrow' = [escrow EXCEPT ![buyer][ref] = NewEscrow(seller, amount, deadline)]

(***************************************************************************)
(* release: the bound seller receives the amount, and `close = buyer`      *)
(* hands what is left in the account (the rent) to the buyer.              *)
(***************************************************************************)
Release(buyer, seller, ref) ==
    /\ Exists(buyer, ref)
    /\ escrow[buyer][ref].seller = seller
    /\ escrow[buyer][ref].lamports >= escrow[buyer][ref].amount
    /\ LET e == escrow[buyer][ref]
           paid == [lamports EXCEPT ![seller] = @ + e.amount]
       IN  lamports' = [paid EXCEPT ![buyer] = @ + (e.lamports - e.amount)]
    /\ escrow' = [escrow EXCEPT ![buyer][ref] = NoEscrow]

\* Mutant: the deadline is not looked at.
RefundAnyTime(buyer, ref) == Exists(buyer, ref)

CanRefund(buyer, ref) ==
    /\ Exists(buyer, ref)
    /\ now >= escrow[buyer][ref].deadline

\* refund: at or after the deadline, `close = buyer` returns everything.
Refund(buyer, ref) ==
    /\ CanRefund(buyer, ref)
    /\ lamports' = [lamports EXCEPT ![buyer] = @ + escrow[buyer][ref].lamports]
    /\ escrow' = [escrow EXCEPT ![buyer][ref] = NoEscrow]

\* The chain's clock, read by initialize and refund.
Tick == /\ now < MaxTime
        /\ now' = now + 1
        /\ UNCHANGED <<lamports, escrow>>

EscrowInit ==
    /\ lamports = InitialLamports
    /\ escrow = [b \in Accounts |-> [r \in Refs |-> NoEscrow]]
    /\ now = 0

\* A transaction that a wallet sends to the escrow program itself.  Sellers are
\* wallets: an order naming a program address as its seller is left out.
EscrowNext ==
    \/ \E buyer \in Signers, seller \in Signers, amount \in Amounts,
          ref \in Refs, deadline \in 0..MaxTime :
          Initialize(lamports, buyer, seller, amount, ref, deadline) /\ UNCHANGED now
    \/ \E buyer \in Signers, seller \in Signers, ref \in Refs :
          Release(buyer, seller, ref) /\ UNCHANGED now
    \/ \E buyer \in Signers, ref \in Refs : Refund(buyer, ref) /\ UNCHANGED now
=============================================================================
