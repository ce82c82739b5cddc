------------------------------ MODULE Arbiter ------------------------------
(***************************************************************************)
(* The arbiter program (examples/txodds/escrow/programs/arbiter), a neutral*)
(* wrapper over the escrow program: the payer funds a vault, a program     *)
(* address derived from the reference, and the vault is the escrow's buyer.*)
(* The vault has no keypair, so from then on only the configured arbiter   *)
(* can settle the order, through this program.                             *)
(*                                                                         *)
(* Both programs are deployed side by side, so a wallet may also use the   *)
(* escrow program directly (EscrowNext).                                   *)
(***************************************************************************)
EXTENDS Escrow, FiniteSets, Functions

CONSTANTS Vault,      \* Vault[ref]: the program address derived from ref
          NoConfig    \* the config account does not exist yet

ASSUME VaultAssumption ==
    /\ Vault \in [Refs -> Accounts]
    /\ \A r \in Refs : Vault[r] \notin Signers
    /\ \A r, s \in Refs : Vault[r] = Vault[s] => r = s
    /\ \A r \in Refs : InitialLamports[Vault[r]] = 0
ASSUME NoConfigAssumption == NoConfig \notin Accounts
ASSUME FiniteAssumption == IsFiniteSet(Accounts) /\ IsFiniteSet(Refs)

VARIABLE config       \* the configured arbiter

vars == <<lamports, escrow, now, config>>

\* init_config: once (`init`), by anyone; it records who the arbiter is.
InitConfig(arbiter) ==
    /\ config = NoConfig
    /\ config' = arbiter
    /\ UNCHANGED escrowVars

(***************************************************************************)
(* open: the payer moves the deposit and the escrow account's rent to the  *)
(* vault, which then opens the escrow with them.  One transaction.         *)
(***************************************************************************)
Open(payer, seller, amount, ref, deadline) ==
    LET vault == Vault[ref]
        fund == amount + Rent
        left == [lamports EXCEPT ![payer] = @ - fund]
    IN  /\ lamports[payer] >= fund
        /\ Initialize([left EXCEPT ![vault] = @ + fund], vault, seller, amount, ref, deadline)
        /\ UNCHANGED <<now, config>>

\* arbitrate_release: the arbiter attests delivery; the vault releases.  The
\* rent of the closed escrow account goes to the vault, and stays there.
ArbitrateRelease(signer, seller, ref) ==
    /\ config # NoConfig
    /\ signer = config
    /\ Release(Vault[ref], seller, ref)
    /\ UNCHANGED <<now, config>>

\* Mutant: the vault is not swept, and keeps what it took back.
ArbitrateRefundUnswept(signer, payer, ref) ==
    LET vault == Vault[ref]
    IN  /\ config # NoConfig
        /\ signer = config
        /\ Refund(vault, ref)
        /\ UNCHANGED <<now, config>>

\* arbitrate_refund: the vault takes the escrow back, then all it holds is swept
\* to the account the arbiter passes as the payer.
ArbitrateRefund(signer, payer, ref) ==
    LET vault == Vault[ref]
    IN  /\ config # NoConfig
        /\ signer = config
        /\ CanRefund(vault, ref)
        /\ LET swept == lamports[vault] + escrow[vault][ref].lamports
               left == [lamports EXCEPT ![vault] = 0]
           IN  lamports' = [left EXCEPT ![payer] = @ + swept]
        /\ escrow' = [escrow EXCEPT ![vault][ref] = NoEscrow]
        /\ UNCHANGED <<now, config>>

Init == EscrowInit /\ config = NoConfig

\* Seller and payer are unchecked accounts: any wallet may be passed.
Next ==
    \/ EscrowNext /\ UNCHANGED config
    \/ Tick /\ UNCHANGED config
    \/ \E arbiter \in Signers : InitConfig(arbiter)
    \/ \E payer \in Signers, seller \in Signers, amount \in Amounts, ref \in Refs,
          deadline \in 0..MaxTime : Open(payer, seller, amount, ref, deadline)
    \/ \E signer \in Signers, seller \in Signers, ref \in Refs :
          ArbitrateRelease(signer, seller, ref)
    \/ \E signer \in Signers, payer \in Signers, ref \in Refs :
          ArbitrateRefund(signer, payer, ref)

Spec == Init /\ [][Next]_vars
-----------------------------------------------------------------------------
(***************************************************************************)
(* Properties.                                                             *)
(***************************************************************************)
TypeOK ==
    /\ lamports \in [Accounts -> Nat]
    /\ escrow \in [Accounts -> [Refs -> EscrowState \cup {NoEscrow}]]
    /\ now \in Nat
    /\ config \in Signers \cup {NoConfig}

\* A live escrow account holds its rent and the whole deposit, so release can
\* always pay the seller in full: its checked_sub (lib.rs:73-79) never fails.
EscrowBacked ==
    \A b \in Accounts, r \in Refs :
        Exists(b, r) =>
            /\ escrow[b][r].lamports = Rent + escrow[b][r].amount
            /\ escrow[b][r].amount > 0

\* A vault only passes a deposit through: between transactions it holds whole
\* rents (one per release of its reference since it was last swept), never a
\* deposit, so no payer's deposit can be swept with another order's refund.
VaultHoldsOnlyRent ==
    \A r \in Refs : \E n \in 0..lamports[Vault[r]] : lamports[Vault[r]] = n * Rent

\* An escrow that disappears has paid its seller in full, or its deadline had
\* been reached: nobody, the payer and the arbiter included, takes a deposit
\* back early, on either rail.
PaidOrDeadlineReached ==
    [][\A b \in Accounts, r \in Refs :
          Exists(b, r) /\ ~Exists(b, r)' =>
              \/ now >= escrow[b][r].deadline
              \/ LET e == escrow[b][r] IN
                    e.seller # b =>
                        lamports'[e.seller] = lamports[e.seller] + e.amount]_vars

\* Terms are fixed at initialize: while an escrow account lives, no transaction
\* changes who is paid, how much, until when, or what it holds.
TermsFixed ==
    [][\A b \in Accounts, r \in Refs :
          Exists(b, r) /\ Exists(b, r)' => escrow'[b][r] = escrow[b][r]]_vars

\* What the escrow accounts of an account hold, and what it owns with its balance.
Held(a) == [r \in Refs |-> IF Exists(a, r) THEN escrow[a][r].lamports ELSE 0]
Worth == [a \in Accounts |-> lamports[a] + SumFunction(Held(a))]

\* No transaction of either program creates or destroys lamports: balances and
\* escrow accounts always add up to what the accounts started with.
Conservation == SumFunction(Worth) = SumFunction(InitialLamports)

\* An escrow account, as the order it is.
OrderOf(e) == IF e = NoEscrow THEN NoEscrow
              ELSE [seller |-> e.seller, amount |-> e.amount, deadline |-> e.deadline]

Order == [b \in Accounts |-> [r \in Refs |-> OrderOf(escrow[b][r])]]

Abstract == INSTANCE Settlement WITH order <- Order, worth <- Worth, Free <- NoEscrow

\* The two programs implement the settlement rail: in particular value reaches a
\* seller only by a payment of its own order, exactly once and exactly in full.
ImplementsSettlement == Abstract!Spec
=============================================================================
