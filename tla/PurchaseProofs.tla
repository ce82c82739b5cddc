--------------------------- MODULE PurchaseProofs ---------------------------
(***************************************************************************)
(* The guard of a purchase, for any endpoint, any model and any budget.    *)
(***************************************************************************)
EXTENDS Purchase, TLAPS

\* A payment under way passed the guard.
Guarded ==
    pc \in {"paying", "landed", "retrying"} =>
        /\ input \in Inputs
        /\ input.recipient \in allowedRecipients
        /\ ReferenceAllowed(input)

\* The guard's books: a payment is missing there only while it is not seen confirmed,
\* and until then the budget has room for it.
Counted ==
    /\ pc \in {"model", "tools", "paying", "retrying", "answered"} => paid = spentLamports
    /\ pc = "paying" => spentLamports + input.amount <= Budget
    /\ pc = "landed" => paid = spentLamports + input.amount

\* What the guard allows was shown in a challenge.
AllowedWasShown ==
    /\ \A r \in allowedRecipients : \E c \in challenges : c.recipient = r
    /\ \A r \in allowedReferences : \E c \in challenges : c.reference = r

\* Within a turn there is a call left; a payment without its proof is one under way.
UnderWay ==
    /\ pc \in {"tools", "paying", "landed", "retrying"} => left > 0
    /\ pc \in {"model", "tools", "paying", "answered"} => unshown = 0
    /\ pc \in {"landed", "retrying"} => unshown = 1

IInv == /\ TypeOK /\ Guarded /\ Counted /\ AllowedWasShown /\ UnderWay
        /\ WithinBudget /\ PaidWhatWasSeen
-----------------------------------------------------------------------------
LEMMA InitIInv == Init => IInv
BY PurchaseAssumption DEF Init, IInv, TypeOK, Guarded, Counted, AllowedWasShown, UnderWay,
     WithinBudget, PaidWhatWasSeen

\* A step keeps the types.
LEMMA TypeKept == ASSUME IInv, [Next]_vars PROVE TypeOK'
<1> USE PurchaseAssumption
<1> USE DEF IInv, TypeOK, Guarded, Counted, UnderWay, guard, history, Challenges, Inputs
<1>1. CASE PurchaseAgain
  BY <1>1 DEF PurchaseAgain
<1>2. CASE Think \/ Exhausted \/ Throw \/ Told
  BY <1>2 DEF Think, CountsTurn, Exhausted, Throw, Told, ToolDone
<1>3. CASE Land \/ Confirm
  <2>1. input.amount \in Int
    BY <1>3 DEF Land, Confirm
  <2> QED BY <1>3, <2>1 DEF Land, Confirm
<1>4. CASE Unseen \/ Retry
  BY <1>4 DEF Unseen, Retry, ToolDone
<1>5. ASSUME NEW c \in Challenges, Challenged(c) PROVE TypeOK'
  BY <1>5 DEF Challenged, ToolDone
<1>6. ASSUME NEW i \in Inputs, Sign(i) PROVE TypeOK'
  BY <1>6 DEF Sign, GuardPayment
<1>7. CASE UNCHANGED vars
  BY <1>7 DEF vars
<1> QED BY <1>1, <1>2, <1>3, <1>4, <1>5, <1>6, <1>7 DEF Next, BuyerStep

\* A payment is signed by the guard's rules, and nothing it was judged by is taken back
\* while it is under way.
LEMMA GuardedKept == ASSUME IInv, [Next]_vars PROVE Guarded'
<1> USE DEF IInv, TypeOK, Guarded, guard, history, ReferenceAllowed
<1>1. CASE PurchaseAgain
  BY <1>1 DEF PurchaseAgain
<1>2. CASE Think \/ Exhausted \/ Throw \/ Told
  BY <1>2 DEF Think, Exhausted, Throw, Told, ToolDone
<1>3. CASE Land \/ Confirm \/ Unseen \/ Retry
  BY <1>3 DEF Land, Confirm, Unseen, Retry, ToolDone
<1>4. ASSUME NEW c \in Challenges, Challenged(c) PROVE Guarded'
  BY <1>4 DEF Challenged, ToolDone
<1>5. ASSUME NEW i \in Inputs, Sign(i) PROVE Guarded'
  BY <1>5 DEF Sign, GuardPayment
<1>6. CASE UNCHANGED vars
  BY <1>6 DEF vars
<1> QED BY <1>1, <1>2, <1>3, <1>4, <1>5, <1>6 DEF Next, BuyerStep

\* The budget: what a transfer adds has room in it.
LEMMA BudgetKept ==
    ASSUME IInv, [Next]_vars PROVE Counted' /\ WithinBudget'
<1> USE PurchaseAssumption
<1> USE DEF IInv, TypeOK, Guarded, Counted, WithinBudget, guard, history, Inputs
<1>1. CASE PurchaseAgain
  BY <1>1 DEF PurchaseAgain
<1>2. CASE Think \/ Exhausted \/ Throw \/ Told
  BY <1>2 DEF Think, Exhausted, Throw, Told, ToolDone
<1>3. CASE Land
  BY <1>3 DEF Land
<1>4. CASE Confirm \/ Unseen \/ Retry
  BY <1>4 DEF Confirm, Unseen, Retry, ToolDone
<1>5. ASSUME NEW c \in Challenges, Challenged(c) PROVE Counted' /\ WithinBudget'
  BY <1>5 DEF Challenged, ToolDone
<1>6. ASSUME NEW i \in Inputs, Sign(i) PROVE Counted' /\ WithinBudget'
  BY <1>6 DEF Sign, GuardPayment
<1>7. CASE UNCHANGED vars
  BY <1>7 DEF vars
<1> QED BY <1>1, <1>2, <1>3, <1>4, <1>5, <1>6, <1>7 DEF Next, BuyerStep

\* What is allowed, and so what is paid, was shown.
LEMMA ShownKept ==
    ASSUME IInv, [Next]_vars PROVE AllowedWasShown' /\ PaidWhatWasSeen'
<1> USE DEF IInv, AllowedWasShown, PaidWhatWasSeen, guard, history
<1>1. CASE PurchaseAgain
  BY <1>1 DEF PurchaseAgain
<1>2. CASE Think \/ Exhausted \/ Throw \/ Told \/ Confirm \/ Unseen \/ Retry
  BY <1>2 DEF Think, Exhausted, Throw, Told, ToolDone, Confirm, Unseen, Retry
<1>3. CASE Land
  <2>1. input \in Inputs /\ input.recipient \in allowedRecipients
    BY <1>3 DEF Land, Guarded
  <2>2. input.reference # None => input.reference \in allowedReferences
    BY <1>3 DEF Land, Guarded, ReferenceAllowed
  <2> QED BY <1>3, <2>1, <2>2 DEF Land
<1>4. ASSUME NEW c \in Challenges, Challenged(c)
      PROVE AllowedWasShown' /\ PaidWhatWasSeen'
  BY <1>4 DEF Challenged, ToolDone
<1>5. ASSUME NEW i \in Inputs, Sign(i) PROVE AllowedWasShown' /\ PaidWhatWasSeen'
  BY <1>5 DEF Sign
<1>6. CASE UNCHANGED vars
  BY <1>6 DEF vars
<1> QED BY <1>1, <1>2, <1>3, <1>4, <1>5, <1>6 DEF Next, BuyerStep

LEMMA UnderWayKept == ASSUME IInv, [Next]_vars PROVE UnderWay'
<1> USE PurchaseAssumption
<1> USE DEF IInv, TypeOK, UnderWay, guard, history
<1>1. CASE PurchaseAgain
  BY <1>1 DEF PurchaseAgain
<1>2. CASE Think \/ Exhausted \/ Throw \/ Told
  BY <1>2 DEF Think, CountsTurn, Exhausted, Throw, Told, ToolDone
<1>3. CASE Land \/ Confirm \/ Unseen \/ Retry
  BY <1>3 DEF Land, Confirm, Unseen, Retry, ToolDone
<1>4. ASSUME NEW c \in Challenges, Challenged(c) PROVE UnderWay'
  BY <1>4 DEF Challenged, ToolDone
<1>5. ASSUME NEW i \in Inputs, Sign(i) PROVE UnderWay'
  BY <1>5 DEF Sign
<1>6. CASE UNCHANGED vars
  BY <1>6 DEF vars
<1> QED BY <1>1, <1>2, <1>3, <1>4, <1>5, <1>6 DEF Next, BuyerStep

\* The inductive invariant holds of every behaviour.
LEMMA Inductive == Spec => []IInv
<1>1. IInv /\ [Next]_vars => IInv'
  BY TypeKept, GuardedKept, BudgetKept, ShownKept, UnderWayKept DEF IInv
<1> QED BY InitIInv, <1>1, PTL DEF Spec
-----------------------------------------------------------------------------
\* The guard, the loop and the payment under way keep their types.
THEOREM PurchaseTypeCorrect == Spec => []TypeOK
<1>1. IInv => TypeOK
  BY DEF IInv
<1> QED BY Inductive, <1>1, PTL

\* llm_buyer.ts:38 and guard.ts:39: whatever the model asks for and whichever transfer is
\* not seen confirmed, a purchase pays no more than its budget.
THEOREM BudgetHeld == Spec => []WithinBudget
<1>1. IInv => WithinBudget
  BY DEF IInv
<1> QED BY Inductive, <1>1, PTL

\* guard.ts:32-37: only recipients and references of this purchase's challenges are paid.
THEOREM OnlySeenPaid == Spec => []PaidWhatWasSeen
<1>1. IInv => PaidWhatWasSeen
  BY DEF IInv
<1> QED BY Inductive, <1>1, PTL

\* llm_buyer.ts:176-179: the loop does not go on over a payment that was not shown.
THEOREM NothingUnshown == Spec => []NoSilentPayment
<1>1. IInv => NoSilentPayment
  BY DEF IInv, UnderWay, NoSilentPayment
<1> QED BY Inductive, <1>1, PTL
=============================================================================
