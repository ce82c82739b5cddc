------------------------------ MODULE Purchase ------------------------------
(***************************************************************************)
(* The LLM buyer (coral-agents/buyer-agent, llm_buyer.ts): a language model*)
(* that buys from a paid endpoint by tool calls, within rules that the code*)
(* enforces (guard.ts).  A step is what runs between two awaits: of the    *)
(* model, the endpoint or the chain.  The endpoint is not part of the      *)
(* repository, and the model may say anything: a turn's calls are chosen   *)
(* here when they run, which lets the model do no more and no less.        *)
(***************************************************************************)
EXTENDS Integers, FiniteSets

CONSTANTS
    Recipients, References,  \* keys that exist
    Amounts,                 \* amounts the model or the endpoint may name
    Budget,                  \* budgetLamports
    MaxTurns,                \* maxTurns
    MaxTools,                \* bound on the calls of a turn
    MaxPurchases,            \* bound on the purchases
    None                     \* no reference, no payment

ASSUME PurchaseAssumption ==
    /\ Amounts \subseteq Int /\ Budget \in Nat
    /\ MaxTurns \in Nat \ {0} /\ MaxTools \in Nat \ {0}
    /\ None \notin References

VARIABLES
    pc,                 \* what the purchase awaits
    turn, left,         \* the turn, and its tool calls that are left to run
    allowedRecipients, allowedReferences, spentLamports,   \* the guard
    input,              \* the payment under way
    purchases,          \* purchases started
    challenges,         \* history: the challenges this purchase was shown
    paid,               \* history: what this purchase paid on the chain
    landed,             \* history: whom and for which reference
    unshown             \* history: payments whose proof the endpoint has not seen

guard == <<allowedRecipients, allowedReferences, spentLamports>>
history == <<challenges, paid, landed, unshown>>
vars == <<pc, turn, left, guard, input, purchases, history>>

Challenges == [recipient : Recipients, reference : References \cup {None}]
Inputs == [recipient : Recipients, amount : Amounts, reference : References \cup {None}]

\* purchase: each call starts with a guard of its own.
Init == /\ pc = "model" /\ turn = 0 /\ left = 0 /\ input = None
        /\ allowedRecipients = {} /\ allowedReferences = {} /\ spentLamports = 0
        /\ challenges = {} /\ paid = 0 /\ landed = {} /\ unshown = 0
        /\ purchases = 1

Ended == pc \in {"answered", "threw"}

PurchaseAgain ==
    /\ Ended /\ purchases < MaxPurchases
    /\ purchases' = purchases + 1
    /\ pc' = "model" /\ turn' = 0 /\ left' = 0 /\ input' = None
    /\ allowedRecipients' = {} /\ allowedReferences' = {} /\ spentLamports' = 0
    /\ challenges' = {} /\ paid' = 0 /\ landed' = {} /\ unshown' = 0
-----------------------------------------------------------------------------
\* Mutant: a turn that only pays does not count.
CountsNothing == UNCHANGED turn

CountsTurn == turn' = turn + 1

\* The model answers: with tool calls, or without any, which ends the purchase.
Think ==
    /\ pc = "model" /\ turn < MaxTurns
    /\ CountsTurn
    /\ \/ pc' = "answered" /\ UNCHANGED left
       \/ pc' = "tools" /\ left' \in 1..MaxTools
    /\ UNCHANGED <<guard, input, purchases, history>>

\* The loop is exhausted.
Exhausted ==
    /\ pc = "model" /\ turn = MaxTurns
    /\ pc' = "threw"
    /\ UNCHANGED <<turn, left, guard, input, purchases, history>>

\* A call that throws (of the model, the endpoint, or the chain before anything
\* was sent) is caught by nobody: the purchase is over.
Throw ==
    /\ pc \in {"model", "tools", "paying", "retrying"}
    /\ pc' = "threw"
    /\ UNCHANGED <<turn, left, guard, input, purchases, history>>

\* The call is answered; after the last one the model is asked again.
ToolDone == /\ left' = left - 1
            /\ pc' = IF left = 1 THEN "model" ELSE "tools"

\* fetch_data answered with a 402 that parse402 can read: its recipient and, if it
\* has one, its reference may be paid from now on.
Challenged(c) ==
    /\ pc = "tools"
    /\ allowedRecipients' = allowedRecipients \cup {c.recipient}
    /\ allowedReferences' = allowedReferences \cup ({c.reference} \ {None})
    /\ challenges' = challenges \cup {c}
    /\ ToolDone
    /\ UNCHANGED <<turn, spentLamports, input, purchases, paid, landed, unshown>>

\* Mutant: any reference may be paid.
ReferenceUnchecked(i) == TRUE

\* The reference is optional, but one that is given was seen.
ReferenceAllowed(i) == i.reference = None \/ i.reference \in allowedReferences

\* Mutant: every payment has the budget for itself.
GuardPaymentAlone(i) ==
    i.recipient \in allowedRecipients /\ ReferenceAllowed(i) /\ i.amount <= Budget

\* guardPayment: a seen recipient, a seen reference, and what was spent so far and
\* this within the budget.  Where the amount comes from is not asked.
GuardPayment(i) ==
    /\ i.recipient \in allowedRecipients
    /\ ReferenceAllowed(i)
    /\ spentLamports + i.amount <= Budget

\* fetch_data answered with data or a 402 that cannot be read, a payment the guard
\* refuses, a tool that does not exist: the model is told, and no more.
Told == /\ pc = "tools"
        /\ ToolDone
        /\ UNCHANGED <<turn, guard, input, purchases, history>>

\* pay_and_retry with an allowed payment calls signTransfer.
Sign(i) ==
    /\ pc = "tools" /\ GuardPayment(i)
    /\ pc' = "paying" /\ input' = i
    /\ UNCHANGED <<turn, left, guard, purchases, history>>

\* The transfer is executed; the chain accepts no negative amount.
Land ==
    /\ pc = "paying" /\ input.amount >= 0
    /\ pc' = "landed"
    /\ paid' = paid + input.amount
    /\ landed' = landed \cup {[recipient |-> input.recipient, reference |-> input.reference]}
    /\ unshown' = unshown + 1
    /\ UNCHANGED <<turn, left, guard, input, purchases, challenges>>

\* signTransfer returns: only now is the payment counted.
Confirm ==
    /\ pc = "landed"
    /\ pc' = "retrying" /\ spentLamports' = spentLamports + input.amount
    /\ UNCHANGED <<turn, left, allowedRecipients, allowedReferences, input, purchases, history>>

\* Mutant: the error is told to the model, as a refusal is.
UnseenTold ==
    /\ pc = "landed"
    /\ ToolDone /\ input' = None
    /\ UNCHANGED <<turn, guard, purchases, history>>

\* signTransfer throws although the transfer landed: the purchase is over.
Unseen ==
    /\ pc = "landed"
    /\ pc' = "threw"
    /\ UNCHANGED <<turn, left, guard, input, purchases, history>>

\* The endpoint is fetched with the proof; what it answers, a 402 included, is told
\* to the model and changes nothing else.
Retry ==
    /\ pc = "retrying"
    /\ unshown' = unshown - 1
    /\ ToolDone /\ input' = None
    /\ UNCHANGED <<turn, guard, purchases, challenges, paid, landed>>

BuyerStep == \/ Think \/ Exhausted \/ Throw \/ Told \/ Land \/ Confirm \/ Unseen \/ Retry
             \/ \E c \in Challenges : Challenged(c)
             \/ \E i \in Inputs : Sign(i)

Next == BuyerStep \/ PurchaseAgain

\* What the loop awaits returns or throws.
Spec == Init /\ [][Next]_vars /\ WF_vars(BuyerStep)
-----------------------------------------------------------------------------
TypeOK ==
    /\ pc \in {"model", "tools", "paying", "landed", "retrying", "answered", "threw"}
    /\ turn \in 0..MaxTurns /\ left \in 0..MaxTools /\ purchases \in Nat
    /\ allowedRecipients \subseteq Recipients /\ allowedReferences \subseteq References
    /\ spentLamports \in Int /\ paid \in Int /\ unshown \in Int
    /\ input \in Inputs \cup {None}
    /\ challenges \subseteq Challenges

\* llm_buyer.ts:38, "Hard cap in lamports": what a purchase pays on the chain stays
\* within the budget, although a payment is counted only once it is seen confirmed
\* and the transfer of one that was not may have landed all the same.
WithinBudget == paid <= Budget

\* llm_buyer.ts:108-110: whatever the model asks for, money goes to recipients, and
\* names references, of challenges that this purchase itself was shown.
PaidWhatWasSeen ==
    \A t \in landed :
        /\ \E c \in challenges : t.recipient = c.recipient
        /\ t.reference # None => \E c \in challenges : t.reference = c.reference

\* The loop goes on, or gives its answer, only when every payment of the purchase has
\* been shown to the endpoint as a proof: money whose fate is unknown ends it.
NoSilentPayment == pc \in {"model", "tools", "answered"} => unshown = 0

\* llm_buyer.ts:13, "the tool-use loop is BOUNDED": a purchase ends.
PurchaseEnds == []<>Ended
=============================================================================
