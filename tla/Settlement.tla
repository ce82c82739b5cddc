----------------------------- MODULE Settlement -----------------------------
(***************************************************************************)
(* What a settlement rail promises, without saying how: an order is locked *)
(* for one seller, then either paid to that seller in full or, once its    *)
(* deadline is reached, handed back.  worth is what an account owns,       *)
(* counting what it has locked: locking and handing back move no value to  *)
(* the seller, and a payment moves exactly the amount agreed.              *)
(***************************************************************************)
EXTENDS Integers

CONSTANTS Accounts, Refs, Amounts, MaxTime, InitialLamports, Free

VARIABLES order,   \* order[owner][ref]: Free, or the terms it is locked under
          worth,   \* what an account holds freely and in its orders
          now

vars == <<order, worth, now>>

Terms == [seller : Accounts, amount : Amounts, deadline : 1..MaxTime]

Move(from, to, n) == LET left == [worth EXCEPT ![from] = @ - n]
                     IN  [left EXCEPT ![to] = @ + n]

Init == /\ order = [o \in Accounts |-> [r \in Refs |-> Free]]
        /\ worth = InitialLamports
        /\ now = 0

\* A payer provides the owner with n of its own (a vault owns nothing itself), and
\* the owner's order is locked under terms t, within what the owner then has.
LockWith(payer, n, owner, ref, t) ==
    /\ order[owner][ref] = Free
    /\ 0 < t.amount /\ now < t.deadline
    /\ n <= worth[payer]
    /\ order' = [order EXCEPT ![owner][ref] = t]
    /\ worth' = Move(payer, owner, n)
    /\ t.amount <= worth'[owner]
    /\ UNCHANGED now

Lock(owner, ref) ==
    \E t \in Terms :
       /\ order'[owner][ref] = t
       /\ \E payer \in Accounts : \E n \in 0..worth[payer] :
             LockWith(payer, n, owner, ref, t)

\* The seller the order names gets its amount, all of it, from the owner.
Pay(owner, ref) ==
    /\ order[owner][ref] # Free
    /\ order' = [order EXCEPT ![owner][ref] = Free]
    /\ worth' = Move(owner, order[owner][ref].seller, order[owner][ref].amount)
    /\ UNCHANGED now

\* Not before the deadline, the owner gets its order back, and may pass what it
\* holds on to the payer behind it.
HandBack(owner, ref) ==
    /\ order[owner][ref] # Free
    /\ now >= order[owner][ref].deadline
    /\ order' = [order EXCEPT ![owner][ref] = Free]
    /\ \E payer \in Accounts, n \in {0, worth[owner]} :
          worth' = Move(owner, payer, n)
    /\ UNCHANGED now

Tick == now' = now + 1 /\ UNCHANGED <<order, worth>>

Next == \/ Tick
        \/ \E owner \in Accounts, ref \in Refs :
              Lock(owner, ref) \/ Pay(owner, ref) \/ HandBack(owner, ref)

Spec == Init /\ [][Next]_vars
=============================================================================
