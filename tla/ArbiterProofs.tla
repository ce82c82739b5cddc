--------------------------- MODULE ArbiterProofs ---------------------------
(***************************************************************************)
(* Proofs about the escrow and arbiter programs, for any accounts, vaults, *)
(* references, amounts and rent.                                           *)
(***************************************************************************)
EXTENDS Arbiter, FiniteSetTheorems, WellFoundedInduction, TLAPS

\* VaultHoldsOnlyRent, with the number of rents unbounded.
VaultRents == \A r \in Refs : \E n \in Nat : lamports[Vault[r]] = n * Rent

\* Inductive: a release keeps the vault at whole rents only because the escrow
\* it closes holds the deposit and one rent exactly.
IInv == TypeOK /\ EscrowBacked /\ VaultRents

LEMMA InitializeTypes ==
    ASSUME TypeOK, EscrowBacked, NEW bal \in [Accounts -> Nat],
           NEW buyer \in Accounts, NEW seller \in Accounts, NEW amount \in Nat,
           NEW ref \in Refs, NEW deadline \in Nat,
           Initialize(bal, buyer, seller, amount, ref, deadline)
    PROVE  /\ lamports' \in [Accounts -> Nat]
           /\ escrow' \in [Accounts -> [Refs -> EscrowState \cup {NoEscrow}]]
           /\ EscrowBacked'
PROOF
<1> DEFINE e == [seller |-> seller, amount |-> amount, deadline |-> deadline,
                 lamports |-> Rent + amount]
<1>1. e \in EscrowState
  BY RentAssumption DEF EscrowState
<1>2. lamports' \in [Accounts -> Nat]
  BY RentAssumption DEF Initialize, Vacant, CanPay, NewEscrow
<1>3. escrow' = [escrow EXCEPT ![buyer][ref] = e]
  BY DEF Initialize, Vacant, CanPay, NewEscrow
<1>4. escrow' \in [Accounts -> [Refs -> EscrowState \cup {NoEscrow}]]
  BY <1>1, <1>3 DEF TypeOK
<1>5. EscrowBacked'
  <2> SUFFICES ASSUME NEW b \in Accounts, NEW r \in Refs, Exists(b, r)'
               PROVE  /\ escrow'[b][r].lamports = Rent + escrow'[b][r].amount
                      /\ escrow'[b][r].amount > 0
    BY DEF EscrowBacked
  <2>1. CASE b = buyer /\ r = ref
    BY <2>1, <1>3 DEF TypeOK, Initialize, Vacant, CanPay, NewEscrow
  <2>2. CASE ~(b = buyer /\ r = ref)
    BY <2>2, <1>3 DEF TypeOK, EscrowBacked, Exists
  <2> QED BY <2>1, <2>2
<1> QED BY <1>2, <1>4, <1>5

\* Closing an escrow account leaves the others as they were.
LEMMA CloseTypes ==
    ASSUME TypeOK, EscrowBacked, NEW buyer \in Accounts, NEW ref \in Refs,
           escrow' = [escrow EXCEPT ![buyer][ref] = NoEscrow]
    PROVE  /\ escrow' \in [Accounts -> [Refs -> EscrowState \cup {NoEscrow}]]
           /\ EscrowBacked'
PROOF
<1>1. escrow' \in [Accounts -> [Refs -> EscrowState \cup {NoEscrow}]]
  BY DEF TypeOK
<1>2. EscrowBacked'
  BY DEF TypeOK, EscrowBacked, Exists
<1> QED BY <1>1, <1>2

\* A live escrow account is a well-formed record that holds rent and deposit.
LEMMA LiveEscrow ==
    ASSUME TypeOK, EscrowBacked, NEW b \in Accounts, NEW r \in Refs, Exists(b, r)
    PROVE  /\ escrow[b][r] \in EscrowState
           /\ escrow[b][r].seller \in Accounts
           /\ escrow[b][r].amount \in Nat
           /\ escrow[b][r].lamports \in Nat
           /\ escrow[b][r].lamports - escrow[b][r].amount = Rent
PROOF
<1>1. escrow[b][r] \in EscrowState
  BY DEF TypeOK, Exists
<1> QED BY <1>1, RentAssumption DEF EscrowState, EscrowBacked

\* What release does to the balances: the seller gets the amount, the buyer a rent.
LEMMA ReleaseEffect ==
    ASSUME TypeOK, EscrowBacked, NEW buyer \in Accounts, NEW seller \in Accounts,
           NEW ref \in Refs, Release(buyer, seller, ref)
    PROVE  /\ lamports' \in [Accounts -> Nat]
           /\ \A a \in Accounts \ {seller} :
                 lamports'[a] = IF a = buyer THEN lamports[a] + Rent ELSE lamports[a]
           /\ seller # buyer =>
                 lamports'[seller] = lamports[seller] + escrow[buyer][ref].amount
PROOF
<1> DEFINE e == escrow[buyer][ref]
<1>1. /\ e.amount \in Nat
      /\ e.lamports - e.amount = Rent
  BY LiveEscrow DEF Release
<1>2. lamports' = [[lamports EXCEPT ![seller] = @ + e.amount] EXCEPT ![buyer] = @ + Rent]
  BY <1>1 DEF Release
<1> QED BY <1>1, <1>2, RentAssumption DEF TypeOK
\* A vault that gains exactly one rent still holds whole rents.
LEMMA OneMoreRent ==
    ASSUME NEW k \in Nat, \E n \in Nat : k = n * Rent
    PROVE  \E n \in Nat : k + Rent = n * Rent
PROOF
<1>1. PICK n \in Nat : k = n * Rent
  OBVIOUS
<1>2. k + Rent = (n + 1) * Rent
  BY <1>1, RentAssumption, SMT
<1> QED BY <1>2

LEMMA NoRents == \E n \in Nat : 0 = n * Rent
PROOF
<1>1. 0 = 0 * Rent
  BY RentAssumption, SMT
<1> QED BY <1>1

\* Of the vaults' balances, release changes only the buyer's, by one rent.
LEMMA ReleaseVaults ==
    ASSUME IInv, NEW buyer \in Accounts, NEW seller \in Signers,
           NEW ref \in Refs, Release(buyer, seller, ref)
    PROVE  VaultRents'
PROOF
<1> SUFFICES ASSUME NEW r \in Refs
             PROVE  \E n \in Nat : lamports'[Vault[r]] = n * Rent
  BY DEF VaultRents
<1>1. /\ Vault[r] \in Accounts \ {seller}
      /\ seller \in Accounts
      /\ lamports[Vault[r]] \in Nat
  BY VaultAssumption, SignersAssumption DEF IInv, TypeOK
<1>2. \E n \in Nat : lamports[Vault[r]] = n * Rent
  BY DEF IInv, VaultRents
<1>3. lamports'[Vault[r]] = IF Vault[r] = buyer THEN lamports[Vault[r]] + Rent
                                               ELSE lamports[Vault[r]]
  BY <1>1, ReleaseEffect DEF IInv
<1> QED BY <1>1, <1>2, <1>3, OneMoreRent

LEMMA InitIInv == Init => IInv
PROOF
<1> SUFFICES ASSUME Init PROVE IInv
  OBVIOUS
<1>1. TypeOK
  BY LamportsAssumption, MaxTimeAssumption DEF Init, EscrowInit, TypeOK
<1>2. EscrowBacked
  BY DEF Init, EscrowInit, EscrowBacked, Exists
<1>3. VaultRents
  BY VaultAssumption, NoRents DEF Init, EscrowInit, VaultRents
<1> QED BY <1>1, <1>2, <1>3 DEF IInv

LEMMA InitializeKeeps ==
    ASSUME IInv, NEW buyer \in Signers, NEW seller \in Signers, NEW amount \in Amounts,
           NEW ref \in Refs, NEW deadline \in 0..MaxTime,
           Initialize(lamports, buyer, seller, amount, ref, deadline),
           UNCHANGED <<now, config>>
    PROVE  IInv'
PROOF
<1>1. /\ buyer \in Accounts /\ seller \in Accounts
      /\ amount \in Nat /\ deadline \in Nat
  BY SignersAssumption, AmountsAssumption, MaxTimeAssumption
<1>2. TypeOK' /\ EscrowBacked'
  BY <1>1, InitializeTypes DEF IInv, TypeOK
<1>3. \A r \in Refs : lamports'[Vault[r]] = lamports[Vault[r]]
  BY VaultAssumption DEF IInv, TypeOK, Initialize, Vacant, CanPay, NewEscrow
<1> QED BY <1>2, <1>3 DEF IInv, VaultRents

LEMMA ReleaseKeeps ==
    ASSUME IInv, NEW buyer \in Accounts, NEW seller \in Signers, NEW ref \in Refs,
           Release(buyer, seller, ref), UNCHANGED <<now, config>>
    PROVE  IInv'
PROOF
<1>1. seller \in Accounts
  BY SignersAssumption
<1>2. lamports' \in [Accounts -> Nat]
  BY <1>1, ReleaseEffect DEF IInv
<1>3. TypeOK' /\ EscrowBacked'
  BY <1>2, CloseTypes DEF IInv, TypeOK, Release
<1> QED BY <1>3, ReleaseVaults DEF IInv

LEMMA RefundKeeps ==
    ASSUME IInv, NEW buyer \in Signers, NEW ref \in Refs,
           Refund(buyer, ref), UNCHANGED <<now, config>>
    PROVE  IInv'
PROOF
<1>1. buyer \in Accounts
  BY SignersAssumption
<1>2. lamports' \in [Accounts -> Nat]
  BY <1>1, LiveEscrow DEF IInv, TypeOK, Refund, CanRefund
<1>3. TypeOK' /\ EscrowBacked'
  BY <1>1, <1>2, CloseTypes DEF IInv, TypeOK, Refund
<1>4. \A r \in Refs : lamports'[Vault[r]] = lamports[Vault[r]]
  BY VaultAssumption DEF IInv, TypeOK, Refund
<1> QED BY <1>3, <1>4 DEF IInv, VaultRents

LEMMA OpenKeeps ==
    ASSUME IInv, NEW payer \in Signers, NEW seller \in Signers, NEW amount \in Amounts,
           NEW ref \in Refs, NEW deadline \in 0..MaxTime,
           Open(payer, seller, amount, ref, deadline)
    PROVE  IInv'
PROOF
<1> DEFINE vault == Vault[ref]
           fund == amount + Rent
           bal == [[lamports EXCEPT ![payer] = @ - fund] EXCEPT ![vault] = @ + fund]
<1>1. /\ payer \in Accounts /\ seller \in Accounts /\ vault \in Accounts
      /\ amount \in Nat /\ deadline \in Nat /\ fund \in Nat
      /\ payer # vault
  BY SignersAssumption, AmountsAssumption, MaxTimeAssumption, VaultAssumption, RentAssumption
<1>2. /\ lamports[payer] >= fund
      /\ Initialize(bal, vault, seller, amount, ref, deadline)
      /\ UNCHANGED <<now, config>>
  BY DEF Open
<1>3. bal \in [Accounts -> Nat]
  BY <1>1, <1>2 DEF IInv, TypeOK
<1>4. TypeOK' /\ EscrowBacked'
  BY <1>1, <1>2, <1>3, InitializeTypes DEF IInv, TypeOK
<1>5. \A r \in Refs : lamports'[Vault[r]] = lamports[Vault[r]]
  <2>1. lamports' = [bal EXCEPT ![vault] = @ - (Rent + amount)]
    BY <1>2 DEF Initialize, Vacant, CanPay, NewEscrow
  <2> SUFFICES ASSUME NEW r \in Refs PROVE lamports'[Vault[r]] = lamports[Vault[r]]
    OBVIOUS
  <2>2. Vault[r] \in Accounts /\ Vault[r] # payer /\ lamports[Vault[r]] \in Nat
    BY VaultAssumption DEF IInv, TypeOK
  <2>3. CASE Vault[r] = vault
    BY <2>1, <2>2, <2>3, <1>1, <1>3, RentAssumption DEF IInv, TypeOK
  <2>4. CASE Vault[r] # vault
    BY <2>1, <2>2, <2>4, <1>1, <1>3 DEF IInv, TypeOK
  <2> QED BY <2>3, <2>4
<1> QED BY <1>4, <1>5 DEF IInv, VaultRents

LEMMA ArbitrateRefundKeeps ==
    ASSUME IInv, NEW signer \in Signers, NEW payer \in Signers, NEW ref \in Refs,
           ArbitrateRefund(signer, payer, ref)
    PROVE  IInv'
PROOF
<1> DEFINE vault == Vault[ref]
           swept == lamports[vault] + escrow[vault][ref].lamports
<1>1. payer \in Accounts /\ vault \in Accounts /\ payer # vault
  BY SignersAssumption, VaultAssumption
<1>2. /\ lamports' = [[lamports EXCEPT ![vault] = 0] EXCEPT ![payer] = @ + swept]
      /\ escrow' = [escrow EXCEPT ![vault][ref] = NoEscrow]
      /\ UNCHANGED <<now, config>>
      /\ Exists(vault, ref)
  BY DEF ArbitrateRefund, CanRefund
<1>3. swept \in Nat
  BY <1>1, <1>2, LiveEscrow DEF IInv, TypeOK
<1>4. lamports' \in [Accounts -> Nat]
  BY <1>1, <1>2, <1>3 DEF IInv, TypeOK
<1>5. TypeOK' /\ EscrowBacked'
  BY <1>1, <1>2, <1>4, CloseTypes DEF IInv, TypeOK
<1>6. \A r \in Refs : lamports'[Vault[r]] = 0 \/ lamports'[Vault[r]] = lamports[Vault[r]]
  BY <1>1, <1>2, VaultAssumption DEF IInv, TypeOK
<1> QED BY <1>5, <1>6, NoRents DEF IInv, VaultRents

LEMMA NextIInv == IInv /\ [Next]_vars => IInv'
PROOF
<1> SUFFICES ASSUME IInv, [Next]_vars PROVE IInv'
  OBVIOUS
<1>1. CASE EscrowNext /\ UNCHANGED config
  <2>1. ASSUME NEW buyer \in Signers, NEW seller \in Signers, NEW amount \in Amounts,
               NEW ref \in Refs, NEW deadline \in 0..MaxTime,
               Initialize(lamports, buyer, seller, amount, ref, deadline), UNCHANGED now
        PROVE  IInv'
    BY <1>1, <2>1, InitializeKeeps
  <2>2. ASSUME NEW buyer \in Signers, NEW seller \in Signers, NEW ref \in Refs,
               Release(buyer, seller, ref), UNCHANGED now
        PROVE  IInv'
    BY <1>1, <2>2, ReleaseKeeps, SignersAssumption
  <2>3. ASSUME NEW buyer \in Signers, NEW ref \in Refs, Refund(buyer, ref), UNCHANGED now
        PROVE  IInv'
    BY <1>1, <2>3, RefundKeeps
  <2> QED BY <1>1, <2>1, <2>2, <2>3 DEF EscrowNext
<1>2. CASE Tick /\ UNCHANGED config
  BY <1>2 DEF Tick, IInv, TypeOK, EscrowBacked, Exists, VaultRents
<1>3. ASSUME NEW arbiter \in Signers, InitConfig(arbiter)
      PROVE  IInv'
  BY <1>3 DEF InitConfig, escrowVars, IInv, TypeOK, EscrowBacked, Exists, VaultRents
<1>4. ASSUME NEW payer \in Signers, NEW seller \in Signers, NEW amount \in Amounts,
             NEW ref \in Refs, NEW deadline \in 0..MaxTime,
             Open(payer, seller, amount, ref, deadline)
      PROVE  IInv'
  BY <1>4, OpenKeeps
<1>5. ASSUME NEW signer \in Signers, NEW seller \in Signers, NEW ref \in Refs,
             ArbitrateRelease(signer, seller, ref)
      PROVE  IInv'
  BY <1>5, ReleaseKeeps, VaultAssumption DEF ArbitrateRelease
<1>6. ASSUME NEW signer \in Signers, NEW payer \in Signers, NEW ref \in Refs,
             ArbitrateRefund(signer, payer, ref)
      PROVE  IInv'
  BY <1>6, ArbitrateRefundKeeps
<1>7. CASE UNCHANGED vars
  BY <1>7 DEF vars, IInv, TypeOK, EscrowBacked, Exists, VaultRents
<1> QED BY <1>1, <1>2, <1>3, <1>4, <1>5, <1>6, <1>7 DEF Next

LEMMA IInvImplies == IInv => TypeOK /\ EscrowBacked /\ VaultHoldsOnlyRent
PROOF
<1> SUFFICES ASSUME IInv, NEW r \in Refs
             PROVE  \E n \in 0..lamports[Vault[r]] : lamports[Vault[r]] = n * Rent
  BY DEF IInv, VaultHoldsOnlyRent
<1>1. PICK n \in Nat : lamports[Vault[r]] = n * Rent
  BY DEF IInv, VaultRents
<1>2. n <= n * Rent
  BY RentAssumption, SMT
<1> QED BY <1>1, <1>2, VaultAssumption DEF IInv, TypeOK

\* The type invariant of the two programs holds in every reachable state.
THEOREM TypeCorrect == Spec => []TypeOK
PROOF
<1> QED BY InitIInv, NextIInv, IInvImplies, PTL DEF Spec

\* Every live escrow account holds its rent and the whole deposit, so a release
\* never underflows and always pays the seller in full (escrow lib.rs:71-89).
THEOREM Backed == Spec => []EscrowBacked
PROOF
<1> QED BY InitIInv, NextIInv, IInvImplies, PTL DEF Spec

\* A vault holds whole rents and never a deposit between two transactions
\* (arbiter lib.rs:48-77 and 82-133).
THEOREM VaultsPassThrough == Spec => []VaultHoldsOnlyRent
PROOF
<1> QED BY InitIInv, NextIInv, IInvImplies, PTL DEF Spec

(***************************************************************************)
(* The two action properties.  A step that closes an escrow is a release   *)
(* or a refund of that escrow; every other step leaves it as it was.       *)
(***************************************************************************)
PaidOrLate(b, r) ==
    Exists(b, r) /\ ~Exists(b, r)' =>
        \/ now >= escrow[b][r].deadline
        \/ LET e == escrow[b][r] IN
              e.seller # b => lamports'[e.seller] = lamports[e.seller] + e.amount

SameTerms(b, r) == Exists(b, r) /\ Exists(b, r)' => escrow'[b][r] = escrow[b][r]

\* An initialize touches only an address where no escrow account exists.
LEMMA InitializeSettles ==
    ASSUME IInv, NEW bal, NEW buyer \in Accounts, NEW seller, NEW amount,
           NEW ref \in Refs, NEW deadline,
           Initialize(bal, buyer, seller, amount, ref, deadline),
           NEW b \in Accounts, NEW r \in Refs
    PROVE  PaidOrLate(b, r) /\ SameTerms(b, r)
PROOF
<1>1. Exists(b, r) => escrow'[b][r] = escrow[b][r]
  BY DEF Initialize, Vacant, CanPay, NewEscrow, Exists, IInv, TypeOK
<1> QED BY <1>1 DEF PaidOrLate, SameTerms, Exists

\* Closing one escrow account leaves every other one untouched.
LEMMA CloseSettles ==
    ASSUME IInv, NEW buyer \in Accounts, NEW ref \in Refs,
           escrow' = [escrow EXCEPT ![buyer][ref] = NoEscrow],
           NEW b \in Accounts, NEW r \in Refs, ~(b = buyer /\ r = ref)
    PROVE  PaidOrLate(b, r) /\ SameTerms(b, r)
PROOF
<1>1. escrow'[b][r] = escrow[b][r]
  BY DEF IInv, TypeOK
<1> QED BY <1>1 DEF PaidOrLate, SameTerms, Exists

LEMMA ReleaseSettles ==
    ASSUME IInv, NEW buyer \in Accounts, NEW seller \in Accounts, NEW ref \in Refs,
           Release(buyer, seller, ref), NEW b \in Accounts, NEW r \in Refs
    PROVE  PaidOrLate(b, r) /\ SameTerms(b, r)
PROOF
<1>1. CASE b = buyer /\ r = ref
  <2>1. escrow'[b][r] = NoEscrow
    BY <1>1 DEF Release, IInv, TypeOK
  <2>2. escrow[b][r].seller = seller
    BY <1>1 DEF Release
  <2>3. seller # b => lamports'[seller] = lamports[seller] + escrow[b][r].amount
    BY <1>1, ReleaseEffect DEF IInv
  <2> QED BY <2>1, <2>2, <2>3 DEF PaidOrLate, SameTerms, Exists
<1>2. CASE ~(b = buyer /\ r = ref)
  BY <1>2, CloseSettles DEF Release
<1> QED BY <1>1, <1>2

LEMMA RefundSettles ==
    ASSUME IInv, NEW buyer \in Accounts, NEW ref \in Refs, CanRefund(buyer, ref),
           escrow' = [escrow EXCEPT ![buyer][ref] = NoEscrow],
           NEW b \in Accounts, NEW r \in Refs
    PROVE  PaidOrLate(b, r) /\ SameTerms(b, r)
PROOF
<1>1. CASE b = buyer /\ r = ref
  <2>1. escrow'[b][r] = NoEscrow
    BY <1>1 DEF IInv, TypeOK
  <2> QED BY <1>1, <2>1 DEF CanRefund, PaidOrLate, SameTerms, Exists
<1>2. CASE ~(b = buyer /\ r = ref)
  BY <1>2, CloseSettles
<1> QED BY <1>1, <1>2

LEMMA NextSettles ==
    ASSUME IInv, [Next]_vars, NEW b \in Accounts, NEW r \in Refs
    PROVE  PaidOrLate(b, r) /\ SameTerms(b, r)
PROOF
<1>1. CASE EscrowNext /\ UNCHANGED config
  BY <1>1, InitializeSettles, ReleaseSettles, RefundSettles, SignersAssumption
     DEF EscrowNext, Refund
<1>2. CASE UNCHANGED escrow
  BY <1>2 DEF PaidOrLate, SameTerms, Exists
<1>3. ASSUME NEW payer \in Signers, NEW seller \in Signers, NEW amount \in Amounts,
             NEW ref \in Refs, NEW deadline \in 0..MaxTime,
             Open(payer, seller, amount, ref, deadline)
      PROVE  PaidOrLate(b, r) /\ SameTerms(b, r)
  BY <1>3, InitializeSettles, VaultAssumption DEF Open
<1>4. ASSUME NEW signer \in Signers, NEW seller \in Signers, NEW ref \in Refs,
             ArbitrateRelease(signer, seller, ref)
      PROVE  PaidOrLate(b, r) /\ SameTerms(b, r)
  BY <1>4, ReleaseSettles, VaultAssumption, SignersAssumption DEF ArbitrateRelease
<1>5. ASSUME NEW signer \in Signers, NEW payer \in Signers, NEW ref \in Refs,
             ArbitrateRefund(signer, payer, ref)
      PROVE  PaidOrLate(b, r) /\ SameTerms(b, r)
  BY <1>5, RefundSettles, VaultAssumption DEF ArbitrateRefund
<1> QED
  BY <1>1, <1>2, <1>3, <1>4, <1>5 DEF Next, Tick, InitConfig, escrowVars, vars

\* An escrow that disappears has paid its seller in full or has reached its
\* deadline, on the direct rail and behind a vault alike (escrow lib.rs:71-99,
\* arbiter lib.rs:82-133).
THEOREM NoEarlyClawback == Spec => PaidOrDeadlineReached
PROOF
<1>1. IInv /\ [Next]_vars => [\A b \in Accounts, r \in Refs : PaidOrLate(b, r)]_vars
  BY NextSettles
<1>2. [\A b \in Accounts, r \in Refs : PaidOrLate(b, r)]_vars
        => [\A b \in Accounts, r \in Refs :
               Exists(b, r) /\ ~Exists(b, r)' =>
                 \/ now >= escrow[b][r].deadline
                 \/ LET e == escrow[b][r] IN
                       e.seller # b =>
                         lamports'[e.seller] = lamports[e.seller] + e.amount]_vars
  BY DEF PaidOrLate
<1> QED BY <1>1, <1>2, InitIInv, NextIInv, PTL DEF Spec, PaidOrDeadlineReached

\* No transaction changes the terms of a live escrow (escrow lib.rs:38-54).
THEOREM TermsNeverChange == Spec => TermsFixed
PROOF
<1>1. IInv /\ [Next]_vars
        => [\A b \in Accounts, r \in Refs :
              Exists(b, r) /\ Exists(b, r)' => escrow'[b][r] = escrow[b][r]]_vars
  BY NextSettles DEF SameTerms
<1> QED BY <1>1, InitIInv, NextIInv, PTL DEF Spec, TermsFixed
-----------------------------------------------------------------------------
(* Sums. *)

\* A set of subsets of D that holds the empty one, and a set as soon as it holds it without
\* some element, holds D: of the sets it lacks one would be smallest.
LEMMA SubsetInduction ==
    ASSUME NEW D, IsFiniteSet(D), NEW G, {} \in G,
           \A s \in SUBSET D : s # {} /\ (\A x \in s : s \ {x} \in G) => s \in G
    PROVE  \A s \in SUBSET D : s \in G
<1> DEFINE Sizes == {Cardinality(s) : s \in {t \in SUBSET D : t \notin G}}
<1>1. \A s \in SUBSET D : IsFiniteSet(s) /\ Cardinality(s) \in Nat
  BY FS_Subset, FS_CardinalityType
<1> SUFFICES ASSUME Sizes # {} PROVE FALSE
  OBVIOUS
<1>2. Sizes \subseteq Nat
  BY <1>1
<1>3. PICK k \in Sizes : \A l \in Sizes : ~(<<l, k>> \in OpToRel(<, Nat))
  <2> HIDE DEF Sizes
  <2> QED BY <1>2, NatLessThanWellFounded, WFMin
<1>4. PICK s \in SUBSET D : s \notin G /\ k = Cardinality(s)
  BY <1>3
<1>5. PICK x \in s : s \ {x} \notin G
  BY <1>4
<1>6. /\ s \ {x} \in SUBSET D /\ Cardinality(s \ {x}) = Cardinality(s) - 1
      /\ Cardinality(s) \in Nat /\ Cardinality(s \ {x}) \in Nat
  BY <1>1, FS_RemoveElement
<1>7. FALSE
  <2>1. Cardinality(s \ {x}) \in Sizes
    BY <1>5, <1>6
  <2> HIDE DEF Sizes
  <2>2. Cardinality(s \ {x}) < k
    BY <1>4, <1>6
  <2> QED BY <1>2, <1>3, <1>4, <1>6, <2>1, <2>2 DEF OpToRel
<1> QED BY <1>7

\* One turn of the recursion behind SumFunction.
Turn(f, h) == [s \in SUBSET DOMAIN f |-> IF s = {} THEN 0
                 ELSE LET x == CHOOSE x \in s : TRUE IN f[x] + h[s \ {x}]]

\* The recursion is well-founded: up to any size of subset there is a function that is a
\* fixed point of it.
LEMMA TurnFixed ==
    ASSUME NEW f, IsFiniteSet(DOMAIN f) PROVE \E h : h = Turn(f, h)
<1> DEFINE D == DOMAIN f
           Small(k) == {s \in SUBSET D : Cardinality(s) <= k}
           Body(h, s) == IF s = {} THEN 0
                         ELSE LET x == CHOOSE x \in s : TRUE IN f[x] + h[s \ {x}]
           Solved(k) == \E h : h = [s \in Small(k) |-> Body(h, s)]
           Bad == {k \in Nat : ~Solved(k)}
<1>1. \A s \in SUBSET D : IsFiniteSet(s) /\ Cardinality(s) \in Nat
  BY FS_Subset, FS_CardinalityType
<1>2. \A s \in SUBSET D : s # {} =>
        /\ (CHOOSE x \in s : TRUE) \in s
        /\ Cardinality(s) \in Nat \ {0}
        /\ s \ {CHOOSE x \in s : TRUE} \in SUBSET D
        /\ Cardinality(s \ {CHOOSE x \in s : TRUE}) = Cardinality(s) - 1
  <2> SUFFICES ASSUME NEW s \in SUBSET D, s # {}
               PROVE  /\ (CHOOSE x \in s : TRUE) \in s
                      /\ Cardinality(s) \in Nat \ {0}
                      /\ s \ {CHOOSE x \in s : TRUE} \in SUBSET D
                      /\ Cardinality(s \ {CHOOSE x \in s : TRUE}) = Cardinality(s) - 1
    OBVIOUS
  <2>1. (CHOOSE x \in s : TRUE) \in s
    OBVIOUS
  <2>2. Cardinality(s) # 0
    BY <1>1, FS_EmptySet
  <2> QED BY <1>1, <2>1, <2>2, FS_RemoveElement
<1>3. Solved(0)
  <2> DEFINE h == [s \in Small(0) |-> 0]
  <2>1. ASSUME NEW s \in Small(0) PROVE s = {}
    <3>1. s \in SUBSET D /\ Cardinality(s) <= 0
      OBVIOUS
    <3>2. s # {} => Cardinality(s) \in Nat \ {0}
      BY <1>2, <3>1
    <3> QED BY <3>1, <3>2
  <2>2. h = [s \in Small(0) |-> Body(h, s)]
    BY <2>1
  <2> QED BY <2>2
<1>4. ASSUME NEW k \in Nat, k # 0, Solved(k - 1) PROVE Solved(k)
  <2>1. PICK h : h = [s \in Small(k - 1) |-> Body(h, s)]
    BY <1>4
  <2> DEFINE g == [s \in Small(k) |-> Body(h, s)]
  <2>2. ASSUME NEW s \in Small(k) PROVE g[s] = Body(g, s)
    <3>1. CASE s = {}
      BY <3>1
    <3>2. CASE s # {}
      <4> DEFINE t == s \ {CHOOSE x \in s : TRUE}
      <4>1. t \in Small(k - 1) /\ t \in Small(k)
        BY <1>1, <1>2, <1>4, <3>2
      <4>2. h[t] = Body(h, t) /\ g[t] = Body(h, t)
        BY <2>1, <4>1
      <4>3. g[s] = Body(h, s)
        OBVIOUS
      <4> HIDE DEF g
      <4> QED BY <3>2, <4>2, <4>3
    <3> QED BY <3>1, <3>2
  <2>3. g = [s \in Small(k) |-> Body(g, s)]
    <3>1. g = [s \in Small(k) |-> g[s]]
      OBVIOUS
    <3> HIDE DEF g, Body, Small
    <3> QED BY <2>2, <3>1
  <2> QED BY <2>3
<1>5. Bad = {}
  <2> SUFFICES ASSUME Bad # {} PROVE FALSE
    OBVIOUS
  <2>1. Bad \subseteq Nat
    OBVIOUS
  <2>2. PICK k \in Bad : \A l \in Bad : ~(<<l, k>> \in OpToRel(<, Nat))
    <3> HIDE DEF Bad
    <3> QED BY <2>1, NatLessThanWellFounded, WFMin
  <2>3. k \in Nat /\ ~Solved(k)
    BY <2>2
  <2> HIDE DEF Solved
  <2>4. k # 0 /\ ~Solved(k - 1)
    BY <1>3, <1>4, <2>3
  <2>5. k - 1 \in Bad
    BY <2>3, <2>4
  <2>6. k - 1 \in Nat /\ k - 1 < k
    BY <2>3, <2>4
  <2> HIDE DEF Bad
  <2> QED BY <2>2, <2>3, <2>5, <2>6 DEF OpToRel
<1>6. Solved(Cardinality(D))
  <2> HIDE DEF Solved
  <2> QED BY <1>1, <1>5
<1>7. Small(Cardinality(D)) = SUBSET D
  BY <1>1, FS_Subset
<1>8. PICK h : h = [s \in SUBSET D |-> Body(h, s)]
  BY <1>6, <1>7
<1> QED BY <1>8 DEF Turn

\* SumFunction by its recursion.
LEMMA SumTurns ==
    ASSUME NEW f, IsFiniteSet(DOMAIN f)
    PROVE  \E h : h = Turn(f, h) /\ SumFunction(f) = h[DOMAIN f]
<1> DEFINE iter[s \in SUBSET DOMAIN f] == IF s = {} THEN 0
             ELSE LET x == CHOOSE x \in s : TRUE IN f[x] + iter[s \ {x}]
<1>1. SumFunction(f) = iter[DOMAIN f]
  BY DEF SumFunction, SumFunctionOnSet, FoldFunctionOnSet, MapThenFoldSet
<1>2. \E h : h = [s \in SUBSET DOMAIN f |-> IF s = {} THEN 0
                    ELSE LET x == CHOOSE x \in s : TRUE IN f[x] + h[s \ {x}]]
  BY TurnFixed DEF Turn
<1>3. iter = [s \in SUBSET DOMAIN f |-> IF s = {} THEN 0
                ELSE LET x == CHOOSE x \in s : TRUE IN f[x] + iter[s \ {x}]]
  BY <1>2
<1> QED BY <1>1, <1>3 DEF Turn

\* What Turn says of a subset.
LEMMA TurnAt ==
    ASSUME NEW f, NEW h, h = Turn(f, h), NEW s \in SUBSET DOMAIN f
    PROVE  /\ s = {} => h[s] = 0
           /\ s # {} => \E x \in s : x = (CHOOSE y \in s : TRUE) /\ h[s] = f[x] + h[s \ {x}]
<1>1. h[s] = IF s = {} THEN 0 ELSE LET x == CHOOSE x \in s : TRUE IN f[x] + h[s \ {x}]
  BY DEF Turn
<1>2. s # {} => (CHOOSE x \in s : TRUE) \in s
  OBVIOUS
<1> QED BY <1>1, <1>2

\* The sum of integers is an integer, of naturals a natural, of zeros zero.
LEMMA SumKind ==
    ASSUME NEW D, IsFiniteSet(D), NEW N \in {Int, Nat, {0}}, NEW f \in [D -> N]
    PROVE  SumFunction(f) \in N
<1>1. PICK h : h = Turn(f, h) /\ SumFunction(f) = h[D]
  BY SumTurns
<1> DEFINE G == {s \in SUBSET D : h[s] \in N}
<1>2. {} \in G
  BY <1>1, TurnAt
<1>3. ASSUME NEW s \in SUBSET D, s # {}, \A x \in s : s \ {x} \in G PROVE s \in G
  <2>1. PICK x \in s : h[s] = f[x] + h[s \ {x}]
    BY <1>1, <1>3, TurnAt
  <2>2. f[x] \in N /\ h[s \ {x}] \in N
    BY <1>3
  <2>3. f[x] + h[s \ {x}] \in N
    BY <2>2
  <2> QED BY <2>1, <2>3
<1>4. \A s \in SUBSET D : s \in G
  <2> HIDE DEF G
  <2> QED BY <1>2, <1>3, SubsetInduction
<1>5. D \in G
  BY <1>4
<1> QED BY <1>1, <1>5

\* Changing a function at one argument changes its sum by as much.
LEMMA SumAt ==
    ASSUME NEW D, IsFiniteSet(D), NEW f \in [D -> Int], NEW g \in [D -> Int], NEW r \in D,
           \A x \in D \ {r} : g[x] = f[x]
    PROVE  SumFunction(g) = SumFunction(f) - f[r] + g[r]
<1>1. PICK h : h = Turn(f, h) /\ SumFunction(f) = h[D]
  BY SumTurns
<1>2. PICK k : k = Turn(g, k) /\ SumFunction(g) = k[D]
  BY SumTurns
<1> DEFINE G == {s \in SUBSET D : /\ h[s] \in Int /\ k[s] \in Int
                                  /\ k[s] = IF r \in s THEN h[s] - f[r] + g[r] ELSE h[s]}
<1>3. {} \in G
  BY <1>1, <1>2, TurnAt
<1>4. ASSUME NEW s \in SUBSET D, s # {}, \A x \in s : s \ {x} \in G PROVE s \in G
  <2>1. PICK x \in s : h[s] = f[x] + h[s \ {x}] /\ k[s] = g[x] + k[s \ {x}]
    <3>1. \E x \in s : x = (CHOOSE y \in s : TRUE) /\ h[s] = f[x] + h[s \ {x}]
      BY <1>1, <1>4, TurnAt
    <3>2. \E x \in s : x = (CHOOSE y \in s : TRUE) /\ k[s] = g[x] + k[s \ {x}]
      BY <1>2, <1>4, TurnAt
    <3> QED BY <3>1, <3>2
  <2>2. /\ h[s \ {x}] \in Int /\ k[s \ {x}] \in Int
        /\ k[s \ {x}] = IF r \in s \ {x} THEN h[s \ {x}] - f[r] + g[r] ELSE h[s \ {x}]
    BY <1>4
  <2>3. f[x] \in Int /\ g[x] \in Int /\ f[r] \in Int /\ g[r] \in Int
    OBVIOUS
  <2>4. CASE x = r
    BY <2>1, <2>2, <2>3, <2>4
  <2>5. CASE x # r
    <3>1. g[x] = f[x] /\ (r \in s \ {x} <=> r \in s)
      BY <2>5
    <3> QED BY <2>1, <2>2, <2>3, <3>1
  <2> QED BY <2>4, <2>5
<1>5. \A s \in SUBSET D : s \in G
  <2> HIDE DEF G
  <2> QED BY <1>3, <1>4, SubsetInduction
<1>6. D \in G
  BY <1>5
<1> QED BY <1>1, <1>2, <1>6
-----------------------------------------------------------------------------
(* What the accounts own. *)

\* What an escrow account holds; there may be none.
Inside(e) == IF e = NoEscrow THEN 0 ELSE e.lamports

LEMMA InsideNat == ASSUME NEW e \in EscrowState \cup {NoEscrow} PROVE Inside(e) \in Nat
BY DEF Inside, EscrowState

LEMMA HeldTypes ==
    ASSUME TypeOK, NEW a \in Accounts
    PROVE  /\ Held(a) \in [Refs -> Nat] /\ Held(a) \in [Refs -> Int]
           /\ \A r \in Refs : Held(a)[r] = Inside(escrow[a][r])
           /\ SumFunction(Held(a)) \in Nat
<1>1. \A r \in Refs : Held(a)[r] = Inside(escrow[a][r])
  BY DEF Held, Inside, Exists
<1>2. \A r \in Refs : Inside(escrow[a][r]) \in Nat
  BY InsideNat DEF TypeOK
<1>3. Held(a) \in [Refs -> Nat] /\ Held(a) \in [Refs -> Int]
  BY <1>1, <1>2 DEF Held
<1>4. SumFunction(Held(a)) \in Nat
  BY <1>3, SumKind, FiniteAssumption
<1> QED BY <1>1, <1>3, <1>4

LEMMA WorthTypes ==
    ASSUME TypeOK
    PROVE  /\ Worth \in [Accounts -> Nat]
           /\ \A a \in Accounts : /\ Worth[a] = lamports[a] + SumFunction(Held(a))
                                  /\ lamports[a] \in Nat /\ lamports[a] <= Worth[a]
<1>1. ASSUME NEW a \in Accounts
      PROVE  /\ Worth[a] = lamports[a] + SumFunction(Held(a))
             /\ lamports[a] \in Nat /\ SumFunction(Held(a)) \in Nat
  BY HeldTypes DEF Worth, TypeOK
<1>2. Worth = [a \in Accounts |-> Worth[a]]
  BY DEF Worth
<1>3. ASSUME NEW a \in Accounts PROVE Worth[a] \in Nat /\ lamports[a] <= Worth[a]
  BY <1>1
<1> HIDE DEF Worth
<1> QED BY <1>1, <1>2, <1>3

LEMMA WorthParts ==
    TypeOK => \A c \in Accounts : /\ Held(c) \in [Refs -> Int] /\ SumFunction(Held(c)) \in Nat
                                  /\ \A s \in Refs : Held(c)[s] = Inside(escrow[c][s])
                                  /\ Worth[c] = lamports[c] + SumFunction(Held(c))
                                  /\ lamports[c] \in Nat
BY HeldTypes, WorthTypes

\* A step that opens or closes one escrow account changes what its owner holds in them
\* by what that account holds.
LEMMA WorthAfter ==
    ASSUME TypeOK, TypeOK', NEW b \in Accounts, NEW r \in Refs,
           NEW e \in EscrowState \cup {NoEscrow},
           escrow' = [escrow EXCEPT ![b][r] = e]
    PROVE  \A a \in Accounts :
             Worth'[a] - Worth[a] =
               lamports'[a] - lamports[a]
                 + (IF a = b THEN Inside(e) - Inside(escrow[b][r]) ELSE 0)
<1> SUFFICES ASSUME NEW a \in Accounts
             PROVE  Worth'[a] - Worth[a] =
                      lamports'[a] - lamports[a]
                        + (IF a = b THEN Inside(e) - Inside(escrow[b][r]) ELSE 0)
  OBVIOUS
<1>1. PICK h, k : h = Held(a) /\ k = Held(a)'
  OBVIOUS
<1>2. /\ h \in [Refs -> Int] /\ SumFunction(h) \in Nat
      /\ \A s \in Refs : h[s] = Inside(escrow[a][s])
      /\ Worth[a] = lamports[a] + SumFunction(h) /\ lamports[a] \in Nat
  BY <1>1, HeldTypes, WorthTypes
<1>3. /\ k \in [Refs -> Int] /\ SumFunction(k) \in Nat
      /\ \A s \in Refs : k[s] = Inside(escrow'[a][s])
      /\ Worth'[a] = lamports'[a] + SumFunction(k) /\ lamports'[a] \in Nat
  <2>1. (\A c \in Accounts : /\ Held(c) \in [Refs -> Int] /\ SumFunction(Held(c)) \in Nat
                             /\ \A s \in Refs : Held(c)[s] = Inside(escrow[c][s])
                             /\ Worth[c] = lamports[c] + SumFunction(Held(c))
                             /\ lamports[c] \in Nat)'
    BY WorthParts, PTL
  <2> QED BY <1>1, <2>1
<1>4. CASE a = b
  <2>1. \A s \in Refs \ {r} : k[s] = h[s]
    BY <1>2, <1>3, <1>4 DEF TypeOK
  <2>2. k[r] = Inside(e) /\ h[r] = Inside(escrow[b][r])
    BY <1>2, <1>3, <1>4 DEF TypeOK
  <2>3. SumFunction(k) = SumFunction(h) - h[r] + k[r]
    BY <1>2, <1>3, <2>1, SumAt, FiniteAssumption
  <2>4. Inside(e) \in Nat /\ Inside(escrow[b][r]) \in Nat
    BY InsideNat DEF TypeOK
  <2> QED BY <1>2, <1>3, <1>4, <2>2, <2>3, <2>4
<1>5. CASE a # b
  <2>1. escrow'[a] = escrow[a]
    BY <1>5 DEF TypeOK
  <2>2. Held(a)' = Held(a)
    BY <2>1 DEF Held, Exists
  <2> QED BY <1>1, <1>2, <1>3, <1>5, <2>2
<1> QED BY <1>4, <1>5
-----------------------------------------------------------------------------
(* The refinement. *)

LEMMA WorthIsFunction == TypeOK => Worth \in [Accounts -> Nat]
BY WorthTypes

LEMMA WorthLater == ASSUME TypeOK' PROVE Worth' \in [Accounts -> Nat]
<1>1. (TypeOK => Worth \in [Accounts -> Nat])'
  BY WorthIsFunction, PTL
<1> QED BY <1>1

LEMMA MoveIs ==
    ASSUME TypeOK, TypeOK', NEW from \in Accounts, NEW to \in Accounts, NEW n \in Int,
           \A a \in Accounts : Worth'[a] - Worth[a] =
              (IF a = to THEN n ELSE 0) - (IF a = from THEN n ELSE 0)
    PROVE  Worth' = Abstract!Move(from, to, n)
<1>1. PICK v, w : v = Worth /\ w = Worth'
  OBVIOUS
<1>2. v \in [Accounts -> Nat]
  BY <1>1, WorthTypes
<1>3. w \in [Accounts -> Nat]
  BY <1>1, WorthLater
<1>4. ASSUME NEW a \in Accounts
      PROVE  w[a] = v[a] + (IF a = to THEN n ELSE 0) - (IF a = from THEN n ELSE 0)
  <2>1. w[a] - v[a] = (IF a = to THEN n ELSE 0) - (IF a = from THEN n ELSE 0)
    BY <1>1
  <2> QED BY <1>2, <1>3, <2>1
<1>5. PICK u, x : u = [v EXCEPT ![from] = @ - n] /\ x = [u EXCEPT ![to] = @ + n]
  OBVIOUS
<1>6. u \in [Accounts -> Int] /\ \A a \in Accounts : u[a] = IF a = from THEN v[a] - n ELSE v[a]
  BY <1>2, <1>5
<1>7. x \in [Accounts -> Int] /\ \A a \in Accounts : x[a] = IF a = to THEN u[a] + n ELSE u[a]
  BY <1>5, <1>6
<1>8. ASSUME NEW a \in Accounts PROVE x[a] = w[a]
  <2>1. v[a] \in Int
    BY <1>2
  <2> QED BY <1>4, <1>6, <1>7, <2>1
<1>9. x = w
  BY <1>3, <1>7, <1>8
<1>10. x = [[v EXCEPT ![from] = @ - n] EXCEPT ![to] = @ + n]
  BY <1>5
<1> QED BY <1>1, <1>9, <1>10 DEF Abstract!Move

Put(f, b, r, e) == [f EXCEPT ![b][r] = e]

LEMMA OrderAfter ==
    ASSUME TypeOK, NEW b \in Accounts, NEW r \in Refs, NEW e,
           escrow' = Put(escrow, b, r, e), NEW o, o = OrderOf(e)
    PROVE  Order' = Put(Order, b, r, o)
<1>1. \A a \in Accounts, s \in Refs :
         escrow'[a][s] = IF a = b /\ s = r THEN e ELSE escrow[a][s]
  BY DEF TypeOK, Put
<1>2. PICK x : x = [Order EXCEPT ![b][r] = o]
  OBVIOUS
<1>3. ASSUME NEW a \in Accounts PROVE Order'[a] = x[a]
  <2>1. Order'[a] = [s \in Refs |-> OrderOf(escrow'[a][s])]
    BY DEF Order
  <2>2. Order[a] = [s \in Refs |-> OrderOf(escrow[a][s])]
    BY DEF Order
  <2>3. CASE a = b
    <3>1. x[a] = [Order[a] EXCEPT ![r] = o]
      BY <1>2, <2>3 DEF Order
    <3>2. ASSUME NEW s \in Refs
          PROVE  OrderOf(escrow'[a][s]) = IF s = r THEN o ELSE OrderOf(escrow[a][s])
      BY <1>1, <2>3
    <3>3. x[a] = [s \in Refs |-> IF s = r THEN o ELSE OrderOf(escrow[a][s])]
      BY <2>2, <3>1
    <3>4. [s \in Refs |-> OrderOf(escrow'[a][s])]
             = [s \in Refs |-> IF s = r THEN o ELSE OrderOf(escrow[a][s])]
      BY <3>2
    <3> QED BY <2>1, <3>3, <3>4
  <2>4. CASE a # b
    <3>1. x[a] = Order[a]
      BY <1>2, <2>4 DEF Order
    <3>2. escrow'[a] = escrow[a]
      BY <2>4 DEF TypeOK, Put
    <3> QED BY <2>1, <2>2, <3>1, <3>2
  <2> QED BY <2>3, <2>4
<1>4. Order' = [a \in Accounts |-> Order'[a]]
  BY DEF Order
<1>5. x = [a \in Accounts |-> x[a]]
  BY <1>2 DEF Order
<1> QED BY <1>2, <1>3, <1>4, <1>5 DEF Put

\* An escrow account is an order, and no escrow account none.
LEMMA OrderParts ==
    ASSUME TypeOK, NEW b \in Accounts, NEW r \in Refs
    PROVE  /\ Order[b][r] = OrderOf(escrow[b][r])
           /\ ~Exists(b, r) => Order[b][r] = NoEscrow
           /\ Exists(b, r) => /\ Order[b][r] # NoEscrow
                              /\ Order[b][r].seller = escrow[b][r].seller
                              /\ Order[b][r].amount = escrow[b][r].amount
                              /\ Order[b][r].deadline = escrow[b][r].deadline
<1>1. Order[b][r] = OrderOf(escrow[b][r])
  BY DEF Order
<1>2. Exists(b, r) => escrow[b][r] \in EscrowState
  BY DEF TypeOK, Exists
<1>3. ASSUME Exists(b, r) PROVE OrderOf(escrow[b][r]) # NoEscrow
  <2>1. OrderOf(escrow[b][r]) \in [seller : Accounts, amount : Nat, deadline : Nat]
    BY <1>2, <1>3 DEF OrderOf, EscrowState, Exists
  <2> QED BY <2>1, NoEscrowAssumption
<1> QED BY <1>1, <1>3 DEF OrderOf, Exists

\* The owner's order is opened under t, and the owner has the deposit and the rent in it.
Opens(owner, ref, amount, t) ==
    /\ t.amount = amount /\ 0 < t.amount /\ now < t.deadline
    /\ Order[owner][ref] = NoEscrow
    /\ Order' = [Order EXCEPT ![owner][ref] = t]
    /\ Order'[owner][ref] = t
    /\ \A a \in Accounts :
          Worth'[a] - Worth[a] =
            lamports'[a] - lamports[a] + (IF a = owner THEN Rent + amount ELSE 0)

LEMMA Opened ==
    ASSUME IInv, IInv', NEW bal, NEW buyer \in Accounts, NEW seller \in Signers,
           NEW amount \in Amounts, NEW ref \in Refs, NEW deadline \in 0..MaxTime,
           Initialize(bal, buyer, seller, amount, ref, deadline)
    PROVE  \E t \in Abstract!Terms : Opens(buyer, ref, amount, t)
<1>1. PICK e : e = NewEscrow(seller, amount, deadline)
  OBVIOUS
<1>2. /\ escrow' = [escrow EXCEPT ![buyer][ref] = e] /\ ~Exists(buyer, ref)
      /\ amount > 0 /\ deadline > now
  BY <1>1 DEF Initialize, Vacant
<1>3. /\ seller \in Accounts /\ amount \in Nat /\ deadline \in Nat /\ Rent \in Nat
      /\ now \in Nat
  BY SignersAssumption, AmountsAssumption, MaxTimeAssumption, RentAssumption DEF IInv, TypeOK
<1>4. e \in EscrowState /\ e.lamports = Rent + amount
  BY <1>1, <1>3 DEF NewEscrow, EscrowState
<1>5. PICK t : t = [seller |-> seller, amount |-> amount, deadline |-> deadline]
  OBVIOUS
<1>6. OrderOf(e) = t
  BY <1>1, <1>4, <1>5, NoEscrowAssumption DEF OrderOf, NewEscrow
<1>7. t \in Abstract!Terms
  <2>1. deadline \in 1..MaxTime
    BY <1>2, <1>3, MaxTimeAssumption
  <2> QED BY <1>3, <1>5, <2>1 DEF Abstract!Terms
<1>8. Order' = [Order EXCEPT ![buyer][ref] = t]
  <2>1. escrow' = Put(escrow, buyer, ref, e)
    BY <1>2 DEF Put
  <2>2. Order' = Put(Order, buyer, ref, t)
    BY <1>6, <2>1, OrderAfter DEF IInv
  <2> QED BY <2>2 DEF Put
<1>9. Order'[buyer][ref] = t
  BY <1>8 DEF Order
<1>10. Inside(e) = Rent + amount /\ Inside(escrow[buyer][ref]) = 0
  BY <1>2, <1>4, NoEscrowAssumption DEF Inside, Exists
<1>11. \A a \in Accounts :
          Worth'[a] - Worth[a] =
            lamports'[a] - lamports[a]
              + (IF a = buyer THEN Inside(e) - Inside(escrow[buyer][ref]) ELSE 0)
  BY <1>2, <1>4, WorthAfter DEF IInv
<1>12. Inside(e) - Inside(escrow[buyer][ref]) = Rent + amount
  BY <1>3, <1>10
<1>13. Order[buyer][ref] = NoEscrow
  BY <1>2, OrderParts DEF IInv
<1>14. t.amount = amount /\ 0 < t.amount /\ now < t.deadline
  BY <1>2, <1>3, <1>5
<1> QED BY <1>7, <1>8, <1>9, <1>11, <1>12, <1>13, <1>14 DEF Opens

LEMMA InitializeRefines ==
    ASSUME IInv, IInv', NEW buyer \in Signers, NEW seller \in Signers, NEW amount \in Amounts,
           NEW ref \in Refs, NEW deadline \in 0..MaxTime,
           Initialize(lamports, buyer, seller, amount, ref, deadline), UNCHANGED now
    PROVE  Abstract!Lock(buyer, ref)
<1>1. buyer \in Accounts /\ amount \in Nat /\ Rent \in Nat
  BY SignersAssumption, AmountsAssumption, RentAssumption
<1>2. PICK t \in Abstract!Terms : Opens(buyer, ref, amount, t)
  BY <1>1, Opened
<1>3. /\ lamports[buyer] >= Rent + amount
      /\ lamports' = [lamports EXCEPT ![buyer] = @ - (Rent + amount)]
      /\ lamports \in [Accounts -> Nat]
  BY DEF Initialize, CanPay, IInv, TypeOK
<1>4. \A a \in Accounts :
         lamports'[a] - lamports[a] + (IF a = buyer THEN Rent + amount ELSE 0) = 0
  BY <1>1, <1>3
<1>5. Worth' = Abstract!Move(buyer, buyer, 0)
  <2>1. \A a \in Accounts : Worth'[a] - Worth[a] = 0
    BY <1>2, <1>4 DEF Opens
  <2> QED BY <1>1, <2>1, MoveIs DEF IInv
<1>6. Worth[buyer] \in Nat /\ Rent + amount <= Worth[buyer]
  <2>1. /\ Worth[buyer] \in Nat /\ lamports[buyer] \in Nat
        /\ lamports[buyer] <= Worth[buyer]
    BY <1>1, WorthTypes DEF IInv
  <2> QED BY <1>1, <1>3, <2>1
<1>7. Worth'[buyer] = Worth[buyer]
  <2>1. Worth'[buyer] \in Nat
    BY <1>1, WorthLater DEF IInv
  <2>2. Worth'[buyer] - Worth[buyer] = 0
    BY <1>1, <1>2, <1>4 DEF Opens
  <2> QED BY <1>6, <2>1, <2>2
<1>8. Abstract!LockWith(buyer, 0, buyer, ref, t)
  BY <1>1, <1>2, <1>5, <1>6, <1>7, RentAssumption DEF Abstract!LockWith, Opens
<1> QED BY <1>1, <1>2, <1>6, <1>8 DEF Abstract!Lock, Opens

LEMMA OpenRefines ==
    ASSUME IInv, IInv', NEW payer \in Signers, NEW seller \in Signers, NEW amount \in Amounts,
           NEW ref \in Refs, NEW deadline \in 0..MaxTime,
           Open(payer, seller, amount, ref, deadline)
    PROVE  Abstract!Lock(Vault[ref], ref)
<1>1. PICK vault, fund, bal :
         /\ vault = Vault[ref] /\ fund = amount + Rent
         /\ bal = [[lamports EXCEPT ![payer] = @ - fund] EXCEPT ![vault] = @ + fund]
  OBVIOUS
<1>2. /\ payer \in Accounts /\ vault \in Accounts /\ payer # vault
      /\ amount \in Nat /\ fund \in Nat /\ fund = Rent + amount
  BY <1>1, SignersAssumption, AmountsAssumption, RentAssumption, VaultAssumption
<1>3. /\ lamports[payer] >= fund /\ UNCHANGED now
      /\ Initialize(bal, vault, seller, amount, ref, deadline)
  BY <1>1 DEF Open
<1>4. PICK t \in Abstract!Terms : Opens(vault, ref, amount, t)
  BY <1>2, <1>3, Opened
<1>5. /\ lamports' = [bal EXCEPT ![vault] = @ - fund]
      /\ lamports \in [Accounts -> Nat]
  BY <1>2, <1>3 DEF Initialize, IInv, TypeOK
<1>6. ASSUME NEW a \in Accounts
      PROVE  lamports'[a] = IF a = payer THEN lamports[a] - fund ELSE lamports[a]
  BY <1>1, <1>2, <1>5
<1>7. ASSUME NEW a \in Accounts
      PROVE  Worth'[a] - Worth[a] =
               (IF a = vault THEN fund ELSE 0) - (IF a = payer THEN fund ELSE 0)
  BY <1>2, <1>4, <1>5, <1>6 DEF Opens
<1>8. Worth' = Abstract!Move(payer, vault, fund)
  BY <1>2, <1>7, MoveIs DEF IInv
<1>9. /\ Worth \in [Accounts -> Nat] /\ fund <= Worth[payer]
  BY <1>2, <1>3, WorthTypes DEF IInv
<1>10. amount <= Worth'[vault]
  <2>1. Worth'[vault] = Worth[vault] + fund
    BY <1>2, <1>8, <1>9 DEF Abstract!Move
  <2> QED BY <1>2, <1>9, <2>1, RentAssumption
<1>11. Abstract!LockWith(payer, fund, vault, ref, t)
  BY <1>3, <1>4, <1>8, <1>9, <1>10 DEF Abstract!LockWith, Opens
<1>12. fund \in 0..Worth[payer]
  BY <1>2, <1>9
<1> QED BY <1>1, <1>2, <1>4, <1>11, <1>12 DEF Abstract!Lock, Opens

\* What closing an escrow account leaves of the order, and of what the accounts own.
LEMMA Closed ==
    ASSUME IInv, IInv', NEW owner \in Accounts, NEW ref \in Refs, Exists(owner, ref),
           escrow' = [escrow EXCEPT ![owner][ref] = NoEscrow]
    PROVE  /\ Order[owner][ref] # NoEscrow
           /\ Order[owner][ref].seller = escrow[owner][ref].seller
           /\ Order[owner][ref].amount = escrow[owner][ref].amount
           /\ Order[owner][ref].deadline = escrow[owner][ref].deadline
           /\ Order' = [Order EXCEPT ![owner][ref] = NoEscrow]
           /\ \A a \in Accounts :
                 Worth'[a] - Worth[a] =
                   lamports'[a] - lamports[a]
                     - (IF a = owner THEN escrow[owner][ref].lamports ELSE 0)
<1>1. OrderOf(NoEscrow) = NoEscrow
  BY DEF OrderOf
<1>2. Order' = [Order EXCEPT ![owner][ref] = NoEscrow]
  <2>1. escrow' = Put(escrow, owner, ref, NoEscrow)
    BY DEF Put
  <2>2. Order' = Put(Order, owner, ref, NoEscrow)
    BY <1>1, <2>1, OrderAfter DEF IInv
  <2> QED BY <2>2 DEF Put
<1>3. \A a \in Accounts :
         Worth'[a] - Worth[a] =
           lamports'[a] - lamports[a]
             + (IF a = owner THEN Inside(NoEscrow) - Inside(escrow[owner][ref]) ELSE 0)
  BY WorthAfter DEF IInv
<1>4. Inside(NoEscrow) = 0 /\ Inside(escrow[owner][ref]) = escrow[owner][ref].lamports
  BY DEF Inside, Exists
<1>5. escrow[owner][ref].lamports \in Nat
  BY LiveEscrow DEF IInv
<1>6. ASSUME NEW a \in Accounts
      PROVE  Worth'[a] - Worth[a] =
               lamports'[a] - lamports[a]
                 - (IF a = owner THEN escrow[owner][ref].lamports ELSE 0)
  <2>1. lamports'[a] \in Int /\ lamports[a] \in Int
    BY DEF IInv, TypeOK
  <2> QED BY <1>3, <1>4, <1>5, <2>1
<1> QED BY <1>2, <1>6, OrderParts DEF IInv

LEMMA ReleaseRefines ==
    ASSUME IInv, IInv', NEW owner \in Accounts, NEW seller \in Signers, NEW ref \in Refs,
           Release(owner, seller, ref), UNCHANGED now
    PROVE  Abstract!Pay(owner, ref)
<1>1. PICK amount : amount = escrow[owner][ref].amount
  OBVIOUS
<1>2. /\ seller \in Accounts /\ Exists(owner, ref) /\ escrow[owner][ref].seller = seller
      /\ escrow' = [escrow EXCEPT ![owner][ref] = NoEscrow]
  BY SignersAssumption DEF Release
<1>3. /\ amount \in Nat /\ Rent \in Nat /\ escrow[owner][ref].lamports = Rent + amount
      /\ escrow[owner][ref].lamports - amount = Rent
  BY <1>1, <1>2, LiveEscrow, RentAssumption DEF IInv, EscrowBacked
<1>4. PICK paid : /\ paid = [lamports EXCEPT ![seller] = @ + amount]
                  /\ lamports' = [paid EXCEPT ![owner] = @ + Rent]
  BY <1>1, <1>3 DEF Release
<1>5. ASSUME NEW a \in Accounts
      PROVE  lamports'[a] - lamports[a] =
               (IF a = seller THEN amount ELSE 0) + (IF a = owner THEN Rent ELSE 0)
  <2>1. lamports[a] \in Nat /\ lamports \in [Accounts -> Nat]
    BY DEF IInv, TypeOK
  <2>2. paid \in [Accounts -> Nat] /\ paid[a] = lamports[a] + (IF a = seller THEN amount ELSE 0)
    BY <1>2, <1>3, <1>4, <2>1
  <2>3. lamports'[a] = paid[a] + (IF a = owner THEN Rent ELSE 0)
    BY <1>3, <1>4, <2>2
  <2> QED BY <1>3, <2>1, <2>2, <2>3
<1>6. ASSUME NEW a \in Accounts
      PROVE  Worth'[a] - Worth[a] =
               (IF a = seller THEN amount ELSE 0) - (IF a = owner THEN amount ELSE 0)
  <2>1. Worth'[a] - Worth[a] =
          lamports'[a] - lamports[a] - (IF a = owner THEN Rent + amount ELSE 0)
    <3>1. Worth'[a] - Worth[a] =
            lamports'[a] - lamports[a]
              - (IF a = owner THEN escrow[owner][ref].lamports ELSE 0)
      BY <1>2, Closed
    <3> QED BY <1>3, <3>1
  <2> QED BY <1>3, <1>5, <2>1
<1>7. Worth' = Abstract!Move(owner, seller, amount)
  BY <1>2, <1>3, <1>6, MoveIs DEF IInv
<1> QED BY <1>1, <1>2, <1>7, Closed DEF Abstract!Pay

LEMMA RefundRefines ==
    ASSUME IInv, IInv', NEW owner \in Signers, NEW ref \in Refs,
           Refund(owner, ref), UNCHANGED now
    PROVE  Abstract!HandBack(owner, ref)
<1>1. /\ owner \in Accounts /\ Exists(owner, ref) /\ now >= escrow[owner][ref].deadline
      /\ escrow' = [escrow EXCEPT ![owner][ref] = NoEscrow]
  BY SignersAssumption DEF Refund, CanRefund
<1>2. escrow[owner][ref].lamports \in Nat
  BY <1>1, LiveEscrow DEF IInv
<1>3. ASSUME NEW a \in Accounts PROVE Worth'[a] - Worth[a] = 0
  <2>1. lamports'[a] - lamports[a] = IF a = owner THEN escrow[owner][ref].lamports ELSE 0
    BY <1>1, <1>2 DEF IInv, TypeOK, Refund
  <2>2. Worth'[a] - Worth[a] =
          lamports'[a] - lamports[a]
            - (IF a = owner THEN escrow[owner][ref].lamports ELSE 0)
    BY <1>1, Closed
  <2> QED BY <1>2, <2>1, <2>2
<1>4. Worth' = Abstract!Move(owner, owner, 0)
  BY <1>1, <1>3, MoveIs DEF IInv
<1> QED BY <1>1, <1>4, Closed DEF Abstract!HandBack

\* A vault is the buyer of the one order its reference names: the program address is
\* derived from it, and a vault signs no order of its own.
OneOrder == \A r, s \in Refs : s # r => ~Exists(Vault[r], s)

\* So what a vault owns is its balance and that order's escrow.
LEMMA VaultWorth ==
    ASSUME TypeOK, OneOrder, NEW ref \in Refs
    PROVE  Worth[Vault[ref]] = lamports[Vault[ref]] + Inside(escrow[Vault[ref]][ref])
<1>1. PICK v, h : v = Vault[ref] /\ h = Held(v)
  OBVIOUS
<1>2. v \in Accounts
  BY <1>1, VaultAssumption
<1>3. /\ h \in [Refs -> Int] /\ Worth[v] = lamports[v] + SumFunction(h)
      /\ \A s \in Refs : h[s] = Inside(escrow[v][s])
  BY <1>1, <1>2, HeldTypes, WorthTypes
<1>4. PICK z : z = [s \in Refs |-> 0]
  OBVIOUS
<1>5. z \in [Refs -> Int] /\ z \in [Refs -> {0}] /\ z[ref] = 0
  BY <1>4
<1>6. SumFunction(z) = 0
  BY <1>5, SumKind, FiniteAssumption
<1>7. \A s \in Refs \ {ref} : h[s] = z[s]
  BY <1>1, <1>3, <1>4 DEF OneOrder, Exists, Inside
<1>8. SumFunction(h) = SumFunction(z) - z[ref] + h[ref]
  BY <1>3, <1>5, <1>7, SumAt, FiniteAssumption
<1>9. SumFunction(h) = Inside(escrow[v][ref])
  <2>1. Inside(escrow[v][ref]) \in Nat
    BY <1>2, InsideNat DEF TypeOK
  <2> QED BY <1>3, <1>5, <1>6, <1>8, <2>1
<1> QED BY <1>1, <1>3, <1>9

LEMMA ArbitrateRefundRefines ==
    ASSUME IInv, IInv', OneOrder, NEW signer \in Signers, NEW payer \in Signers,
           NEW ref \in Refs, ArbitrateRefund(signer, payer, ref)
    PROVE  Abstract!HandBack(Vault[ref], ref)
<1>1. PICK v, held, swept : /\ v = Vault[ref] /\ held = escrow[v][ref].lamports
                            /\ swept = lamports[v] + held
  OBVIOUS
<1>2. /\ v \in Accounts /\ payer \in Accounts /\ payer # v
      /\ Exists(v, ref) /\ now >= escrow[v][ref].deadline
      /\ escrow' = [escrow EXCEPT ![v][ref] = NoEscrow] /\ UNCHANGED now
  BY <1>1, SignersAssumption, VaultAssumption DEF ArbitrateRefund, CanRefund
<1>3. PICK left : /\ left = [lamports EXCEPT ![v] = 0]
                  /\ lamports' = [left EXCEPT ![payer] = @ + swept]
  BY <1>1 DEF ArbitrateRefund
<1>4. held \in Nat /\ lamports[v] \in Nat /\ lamports \in [Accounts -> Nat]
  BY <1>1, <1>2, LiveEscrow DEF IInv, TypeOK
<1>5. Worth[v] = swept
  <2>1. Inside(escrow[v][ref]) = held
    BY <1>1, <1>2 DEF Inside, Exists
  <2> QED BY <1>1, <2>1, VaultWorth DEF IInv
<1>6. ASSUME NEW a \in Accounts
      PROVE  Worth'[a] - Worth[a] =
               (IF a = payer THEN swept ELSE 0) - (IF a = v THEN swept ELSE 0)
  <2>1. Worth'[a] - Worth[a] = lamports'[a] - lamports[a] - (IF a = v THEN held ELSE 0)
    <3>1. Worth'[a] - Worth[a] =
            lamports'[a] - lamports[a] - (IF a = v THEN escrow[v][ref].lamports ELSE 0)
      BY <1>2, Closed
    <3> QED BY <1>1, <3>1
  <2>2. left \in [Accounts -> Nat] /\ left[a] = IF a = v THEN 0 ELSE lamports[a]
    BY <1>3, <1>4
  <2>3. lamports'[a] = left[a] + (IF a = payer THEN swept ELSE 0)
    BY <1>1, <1>3, <1>4, <2>2
  <2>4. lamports[a] \in Nat
    BY <1>4
  <2> QED BY <1>1, <1>2, <1>4, <2>1, <2>2, <2>3, <2>4
<1>7. swept \in Int
  BY <1>1, <1>4
<1>8. Worth' = Abstract!Move(v, payer, swept)
  BY <1>2, <1>6, <1>7, MoveIs DEF IInv
<1>9. /\ Order[v][ref] # NoEscrow /\ now >= Order[v][ref].deadline
      /\ Order' = [Order EXCEPT ![v][ref] = NoEscrow]
  BY <1>2, Closed
<1> QED BY <1>1, <1>2, <1>5, <1>8, <1>9 DEF Abstract!HandBack

\* A step that fills one address, of a wallet or of the reference's own vault, or
\* empties one, opens no second order of a vault.
LEMMA FillsOne ==
    ASSUME TypeOK, OneOrder, NEW b \in Accounts, NEW r \in Refs, NEW e,
           b \in Signers \/ b = Vault[r] \/ e = NoEscrow,
           escrow' = [escrow EXCEPT ![b][r] = e]
    PROVE  OneOrder'
<1> SUFFICES ASSUME NEW q \in Refs, NEW s \in Refs, s # q
             PROVE  escrow'[Vault[q]][s] = NoEscrow
  BY DEF OneOrder, Exists
<1>1. escrow[Vault[q]][s] = NoEscrow /\ Vault[q] \in Accounts /\ Vault[q] \notin Signers
  BY VaultAssumption DEF OneOrder, Exists
<1>2. CASE Vault[q] = b /\ s = r
  BY <1>1, <1>2, VaultAssumption DEF TypeOK
<1>3. CASE ~(Vault[q] = b /\ s = r)
  BY <1>1, <1>3 DEF TypeOK
<1> QED BY <1>2, <1>3

LEMMA InitializeKeepsOne ==
    ASSUME TypeOK, OneOrder, NEW bal, NEW b \in Accounts, NEW seller, NEW amount,
           NEW r \in Refs, NEW deadline, b \in Signers \/ b = Vault[r],
           Initialize(bal, b, seller, amount, r, deadline)
    PROVE  OneOrder'
BY FillsOne DEF Initialize

LEMMA ReleaseKeepsOne ==
    ASSUME TypeOK, OneOrder, NEW b \in Accounts, NEW seller, NEW r \in Refs,
           Release(b, seller, r)
    PROVE  OneOrder'
BY FillsOne DEF Release

LEMMA OneOrderNext == IInv /\ OneOrder /\ [Next]_vars => OneOrder'
<1> SUFFICES ASSUME IInv, OneOrder, [Next]_vars PROVE OneOrder'
  OBVIOUS
<1> TypeOK
  BY DEF IInv
<1>1. CASE EscrowNext
  <2>1. ASSUME NEW buyer \in Signers, NEW seller \in Signers, NEW amount \in Amounts,
               NEW ref \in Refs, NEW deadline \in 0..MaxTime,
               Initialize(lamports, buyer, seller, amount, ref, deadline)
        PROVE  OneOrder'
    BY <2>1, InitializeKeepsOne, SignersAssumption
  <2>2. ASSUME NEW buyer \in Signers, NEW seller \in Signers, NEW ref \in Refs,
               Release(buyer, seller, ref)
        PROVE  OneOrder'
    BY <2>2, ReleaseKeepsOne, SignersAssumption
  <2>3. ASSUME NEW buyer \in Signers, NEW ref \in Refs, Refund(buyer, ref)
        PROVE  OneOrder'
    BY <2>3, FillsOne, SignersAssumption DEF Refund
  <2> QED BY <1>1, <2>1, <2>2, <2>3 DEF EscrowNext
<1>2. CASE UNCHANGED escrow
  BY <1>2 DEF OneOrder, Exists
<1>3. ASSUME NEW payer \in Signers, NEW seller \in Signers, NEW amount \in Amounts,
             NEW ref \in Refs, NEW deadline \in 0..MaxTime,
             Open(payer, seller, amount, ref, deadline)
      PROVE  OneOrder'
  <2>1. Vault[ref] \in Accounts
    BY VaultAssumption
  <2>2. \E bal : Initialize(bal, Vault[ref], seller, amount, ref, deadline)
    BY <1>3 DEF Open
  <2> QED BY <2>1, <2>2, InitializeKeepsOne
<1>4. ASSUME NEW signer \in Signers, NEW seller \in Signers, NEW ref \in Refs,
             ArbitrateRelease(signer, seller, ref)
      PROVE  OneOrder'
  BY <1>4, ReleaseKeepsOne, VaultAssumption DEF ArbitrateRelease
<1>5. ASSUME NEW signer \in Signers, NEW payer \in Signers, NEW ref \in Refs,
             ArbitrateRefund(signer, payer, ref)
      PROVE  OneOrder'
  <2>1. Vault[ref] \in Accounts /\ escrow' = [escrow EXCEPT ![Vault[ref]][ref] = NoEscrow]
    BY <1>5, VaultAssumption DEF ArbitrateRefund
  <2> QED BY <2>1, FillsOne
<1> QED BY <1>1, <1>2, <1>3, <1>4, <1>5 DEF Next, Tick, InitConfig, escrowVars, vars

\* At the start nobody has an order, and everyone owns what it holds.
LEMMA InitRefines == Init => OneOrder /\ Abstract!Init
<1> SUFFICES ASSUME Init PROVE OneOrder /\ Abstract!Init
  OBVIOUS
<1>1. /\ lamports = InitialLamports /\ now = 0
      /\ \A b \in Accounts, r \in Refs : escrow[b][r] = NoEscrow
  BY DEF Init, EscrowInit
<1>2. OneOrder
  BY <1>1, VaultAssumption DEF OneOrder, Exists
<1>3. Order = [b \in Accounts |-> [r \in Refs |-> NoEscrow]]
  BY <1>1 DEF Order, OrderOf
<1>4. ASSUME NEW a \in Accounts PROVE Worth[a] = InitialLamports[a]
  <2>1. Held(a) \in [Refs -> {0}]
    BY <1>1 DEF Held, Exists
  <2>2. SumFunction(Held(a)) = 0
    BY <2>1, SumKind, FiniteAssumption
  <2> QED BY <1>1, <2>2, LamportsAssumption DEF Worth
<1>5. Worth = InitialLamports
  <2>1. Worth = [a \in Accounts |-> Worth[a]]
    BY DEF Worth
  <2>2. InitialLamports = [a \in Accounts |-> InitialLamports[a]]
    BY LamportsAssumption
  <2> HIDE DEF Worth
  <2> QED BY <1>4, <2>1, <2>2
<1> QED BY <1>1, <1>2, <1>3, <1>5 DEF Abstract!Init

\* What the accounts own depends on the balances and the escrow accounts alone.
LEMMA SameWorth == UNCHANGED <<lamports, escrow>> => UNCHANGED <<Order, Worth>>
BY DEF Order, Worth, Held, Exists

LEMMA NextRefines ==
    IInv /\ OneOrder /\ [Next]_vars => [Abstract!Next]_(Abstract!vars)
<1> SUFFICES ASSUME IInv, OneOrder, [Next]_vars
             PROVE  Abstract!Next \/ UNCHANGED Abstract!vars
  OBVIOUS
<1>1. IInv'
  BY NextIInv
<1>2. \A owner \in Accounts, ref \in Refs :
         Abstract!Lock(owner, ref) \/ Abstract!Pay(owner, ref) \/ Abstract!HandBack(owner, ref)
           => Abstract!Next
  BY DEF Abstract!Next
<1>3. CASE EscrowNext /\ UNCHANGED config
  <2>1. ASSUME NEW buyer \in Signers, NEW seller \in Signers, NEW amount \in Amounts,
               NEW ref \in Refs, NEW deadline \in 0..MaxTime,
               Initialize(lamports, buyer, seller, amount, ref, deadline), UNCHANGED now
        PROVE  Abstract!Next
    BY <1>1, <1>2, <2>1, InitializeRefines, SignersAssumption
  <2>2. ASSUME NEW buyer \in Signers, NEW seller \in Signers, NEW ref \in Refs,
               Release(buyer, seller, ref), UNCHANGED now
        PROVE  Abstract!Next
    BY <1>1, <1>2, <2>2, ReleaseRefines, SignersAssumption
  <2>3. ASSUME NEW buyer \in Signers, NEW ref \in Refs, Refund(buyer, ref), UNCHANGED now
        PROVE  Abstract!Next
    BY <1>1, <1>2, <2>3, RefundRefines, SignersAssumption
  <2> QED BY <1>3, <2>1, <2>2, <2>3 DEF EscrowNext
<1>4. CASE Tick
  BY <1>4, SameWorth DEF Tick, Abstract!Next, Abstract!Tick
<1>5. CASE UNCHANGED escrowVars
  BY <1>5, SameWorth DEF escrowVars, Abstract!vars
<1>6. ASSUME NEW payer \in Signers, NEW seller \in Signers, NEW amount \in Amounts,
             NEW ref \in Refs, NEW deadline \in 0..MaxTime,
             Open(payer, seller, amount, ref, deadline)
      PROVE  Abstract!Next
  BY <1>1, <1>2, <1>6, OpenRefines, VaultAssumption
<1>7. ASSUME NEW signer \in Signers, NEW seller \in Signers, NEW ref \in Refs,
             ArbitrateRelease(signer, seller, ref)
      PROVE  Abstract!Next
  BY <1>1, <1>2, <1>7, ReleaseRefines, VaultAssumption DEF ArbitrateRelease
<1>8. ASSUME NEW signer \in Signers, NEW payer \in Signers, NEW ref \in Refs,
             ArbitrateRefund(signer, payer, ref)
      PROVE  Abstract!Next
  BY <1>1, <1>2, <1>8, ArbitrateRefundRefines, VaultAssumption
<1> QED BY <1>3, <1>4, <1>5, <1>6, <1>7, <1>8 DEF Next, InitConfig, vars, escrowVars

\* The escrow and arbiter programs implement the settlement rail: an order is locked
\* once, then its own seller is paid its whole amount, or after its deadline it is
\* handed back; nothing else moves what an account owns (escrow lib.rs:37-99,
\* arbiter lib.rs:40-133).
THEOREM RailImplemented == Spec => ImplementsSettlement
<1>1. Init => IInv /\ OneOrder /\ Abstract!Init
  BY InitIInv, InitRefines
<1>2. IInv /\ OneOrder /\ [Next]_vars
        => IInv' /\ OneOrder' /\ [Abstract!Next]_(Abstract!vars)
  BY NextIInv, OneOrderNext, NextRefines
<1> QED BY <1>1, <1>2, PTL DEF Spec, ImplementsSettlement, Abstract!Spec

\* A move of value between two accounts, which may be one, leaves the sum as it was.
LEMMA MoveConserves ==
    ASSUME NEW from \in Accounts, NEW to \in Accounts, NEW n \in Int,
           TypeOK, TypeOK', Worth' = Abstract!Move(from, to, n)
    PROVE  SumFunction(Worth') = SumFunction(Worth)
<1>1. PICK v, w : v = Worth /\ w = Worth'
  OBVIOUS
<1>2. v \in [Accounts -> Nat] /\ w \in [Accounts -> Nat]
  BY <1>1, WorthTypes, WorthLater
<1>3. PICK u : u = [v EXCEPT ![from] = @ - n] /\ w = [u EXCEPT ![to] = @ + n]
  BY <1>1 DEF Abstract!Move
<1>4. /\ v \in [Accounts -> Int] /\ u \in [Accounts -> Int] /\ w \in [Accounts -> Int]
      /\ u[from] = v[from] - n /\ w[to] = u[to] + n
      /\ \A a \in Accounts \ {from} : u[a] = v[a]
      /\ \A a \in Accounts \ {to} : w[a] = u[a]
  BY <1>2, <1>3
<1>5. SumFunction(v) \in Int /\ SumFunction(u) \in Int
  BY <1>4, SumKind, FiniteAssumption
<1>6. SumFunction(u) = SumFunction(v) - v[from] + u[from]
  BY <1>4, SumAt, FiniteAssumption
<1>7. SumFunction(w) = SumFunction(u) - u[to] + w[to]
  BY <1>4, SumAt, FiniteAssumption
<1>8. SumFunction(w) = SumFunction(v)
  <2>1. v[from] \in Int /\ u[to] \in Int
    BY <1>4
  <2> QED BY <1>4, <1>5, <1>6, <1>7, <2>1
<1> QED BY <1>1, <1>8

\* Every step of the rail is such a move, or moves nothing.
LEMMA RailConserves ==
    ASSUME IInv, IInv', [Abstract!Next]_(Abstract!vars)
    PROVE  SumFunction(Worth') = SumFunction(Worth)
<1> TypeOK /\ TypeOK'
  BY DEF IInv
<1>1. CASE UNCHANGED Abstract!vars \/ Abstract!Tick
  BY <1>1 DEF Abstract!vars, Abstract!Tick
<1>2. ASSUME NEW owner \in Accounts, NEW ref \in Refs, Abstract!Lock(owner, ref)
      PROVE  SumFunction(Worth') = SumFunction(Worth)
  <2>1. PICK payer \in Accounts : \E n \in 0..Worth[payer] :
           Worth' = Abstract!Move(payer, owner, n)
    BY <1>2 DEF Abstract!Lock, Abstract!LockWith
  <2>2. PICK n \in 0..Worth[payer] : Worth' = Abstract!Move(payer, owner, n)
    BY <2>1
  <2> QED BY <2>2, MoveConserves
<1>3. ASSUME NEW owner \in Accounts, NEW ref \in Refs, Abstract!Pay(owner, ref)
      PROVE  SumFunction(Worth') = SumFunction(Worth)
  <2>1. PICK o : /\ o = Order[owner][ref] /\ o # NoEscrow
                 /\ Worth' = Abstract!Move(owner, o.seller, o.amount)
    BY <1>3 DEF Abstract!Pay
  <2>2. o.seller \in Accounts /\ o.amount \in Int
    <3>1. Exists(owner, ref)
      BY <2>1, OrderParts
    <3>2. o.seller = escrow[owner][ref].seller /\ o.amount = escrow[owner][ref].amount
      BY <2>1, <3>1, OrderParts
    <3>3. escrow[owner][ref].seller \in Accounts /\ escrow[owner][ref].amount \in Nat
      BY <3>1, LiveEscrow DEF IInv
    <3> QED BY <3>2, <3>3
  <2> QED BY <2>1, <2>2, MoveConserves
<1>4. ASSUME NEW owner \in Accounts, NEW ref \in Refs, Abstract!HandBack(owner, ref)
      PROVE  SumFunction(Worth') = SumFunction(Worth)
  <2>1. PICK payer \in Accounts, n \in {0, Worth[owner]} :
           Worth' = Abstract!Move(owner, payer, n)
    BY <1>4 DEF Abstract!HandBack
  <2>2. n \in Int
    BY WorthTypes
  <2> QED BY <2>1, <2>2, MoveConserves
<1> QED BY <1>1, <1>2, <1>3, <1>4 DEF Abstract!Next

\* No transaction of either program creates or destroys lamports: what the accounts
\* hold, freely and in escrow accounts, always adds up to what they started with
\* (escrow lib.rs:56-99, arbiter lib.rs:40-133).
THEOREM NothingCreated == Spec => []Conservation
<1>1. Init => IInv /\ OneOrder /\ Conservation
  <2> SUFFICES ASSUME Init PROVE IInv /\ OneOrder /\ Conservation
    OBVIOUS
  <2>1. Worth = InitialLamports
    BY InitRefines DEF Abstract!Init
  <2> QED BY <2>1, InitIInv, InitRefines DEF Conservation
<1>2. IInv /\ OneOrder /\ Conservation /\ [Next]_vars => IInv' /\ OneOrder' /\ Conservation'
  <2> SUFFICES ASSUME IInv, OneOrder, Conservation, [Next]_vars
               PROVE  IInv' /\ OneOrder' /\ Conservation'
    OBVIOUS
  <2>1. IInv' /\ OneOrder' /\ [Abstract!Next]_(Abstract!vars)
    BY NextIInv, OneOrderNext, NextRefines
  <2>2. SumFunction(Worth') = SumFunction(Worth)
    BY <2>1, RailConserves
  <2>3. SumFunction(Worth)' = SumFunction(Worth')
    OBVIOUS
  <2> QED BY <2>1, <2>2, <2>3 DEF Conservation
<1> QED BY <1>1, <1>2, PTL DEF Spec
=============================================================================
