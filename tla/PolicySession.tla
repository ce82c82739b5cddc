--------------------------- MODULE PolicySession ---------------------------
(***************************************************************************)
(* The deposits of one buyer session (coral-agents/buyer-agent), each      *)
(* passed through the policy.  The buyer asks the policy, sends the        *)
(* transaction, and only when rpc() returns does it add to what it has     *)
(* spent and note the time.  rpc() throws when the confirmation is not seen*)
(* in time, which takes nothing back: the transaction may have landed, or  *)
(* land at any later moment, while the buyer goes on to other deposits.    *)
(***************************************************************************)
EXTENDS Policy

CONSTANTS Amounts,       \* what sellers ask for
          RoundCap, SessionCap, MinInterval,   \* POLICY_MAX_SOL_PER_ROUND, ...
          MaxNow,        \* bound on the clock
          MaxAdrift,     \* bound on the transactions of one amount that are adrift
          MaxUnseen      \* bound on what lands although rpc() throws

ASSUME CapsAssumption ==
    /\ Amounts \subseteq Nat
    /\ RoundCap \in Nat \ {0} /\ SessionCap \in Nat \ {0} /\ MinInterval \in Nat \ {0}
    /\ MaxNow \in Nat /\ MaxUnseen \in Nat /\ MaxAdrift \in Nat
ASSUME UnsetAssumption == Unset \notin Nat

VARIABLES
    stage,          \* "idle", "sending" a deposit, or it "landed"
    amount,         \* the deposit under way
    adrift,         \* adrift[a]: transactions of amount a that were sent, did not land yet,
                    \* and whose rpc() threw
    spentSol,       \* what the buyer believes it spent
    lastDepositAt,  \* when the buyer believes it last deposited
    clock,
    locked,         \* history: what the chain locked in this session
    unseen,         \* history: the part of it whose rpc() threw all the same
    landedAt,       \* history: when the deposit under way landed
    lastSeen        \* history: when the last deposit seen confirmed landed

books == <<spentSol, lastDepositAt>>
record == <<locked, unseen, landedAt, lastSeen>>
sessionVars == <<stage, amount, adrift, books, clock, record>>

sessionPolicy ==
    [maxPerRound |-> RoundCap, maxPerSession |-> SessionCap,
     services |-> {}, payout |-> Unset, minInterval |-> MinInterval,
     requireVerifier |-> FALSE]

SessionInit ==
    /\ stage = "idle" /\ amount = 0 /\ adrift = [a \in Amounts |-> 0]
    /\ spentSol = 0 /\ lastDepositAt = Unset
    /\ clock = 0
    /\ locked = 0 /\ unseen = 0 /\ landedAt = Unset /\ lastSeen = Unset

\* enforce({kind: 'stage', ...}) with what the session has recorded so far.
Ask(a) ==
    /\ stage = "idle"
    /\ MayDeposit([amount |-> a, awarded |-> Unset, service |-> "txline",
                   payout |-> Unset, spent |-> spentSol,
                   lastDepositAt |-> lastDepositAt, now |-> clock], sessionPolicy)
    /\ stage' = "sending" /\ amount' = a
    /\ UNCHANGED <<adrift, books, clock, record>>

\* The transaction is executed by the chain while rpc() waits for it.
Land ==
    /\ stage = "sending"
    /\ stage' = "landed"
    /\ locked' = locked + amount /\ landedAt' = clock
    /\ UNCHANGED <<amount, adrift, books, clock, unseen, lastSeen>>

\* rpc() returns: spentSol += amount, lastDepositAt = Date.now().
Confirm ==
    /\ stage = "landed"
    /\ stage' = "idle"
    /\ spentSol' = spentSol + amount /\ lastDepositAt' = clock
    /\ lastSeen' = landedAt
    /\ UNCHANGED <<amount, adrift, clock, locked, unseen, landedAt>>

\* rpc() throws after the transaction landed, or before: then it is adrift.  The round
\* ends in its catch and nothing is recorded.
RpcThrows ==
    /\ stage' = "idle"
    /\ \/ /\ stage = "landed" /\ unseen + amount <= MaxUnseen
          /\ unseen' = unseen + amount
          /\ UNCHANGED adrift
       \/ /\ stage = "sending" /\ adrift[amount] < MaxAdrift
          /\ adrift' = [adrift EXCEPT ![amount] = @ + 1]
          /\ UNCHANGED unseen
    /\ UNCHANGED <<amount, books, clock, locked, landedAt, lastSeen>>

\* The chain executes a transaction that is adrift; it need not.
LandLate(a) ==
    /\ adrift[a] > 0 /\ unseen + a <= MaxUnseen
    /\ adrift' = [adrift EXCEPT ![a] = @ - 1]
    /\ locked' = locked + a /\ unseen' = unseen + a
    /\ UNCHANGED <<stage, amount, books, clock, landedAt, lastSeen>>

Tick == /\ clock < MaxNow
        /\ clock' = clock + 1
        /\ UNCHANGED <<stage, amount, adrift, books, record>>

SessionNext == (\E a \in Amounts : Ask(a) \/ LandLate(a)) \/ Land \/ Confirm \/ RpcThrows \/ Tick

SessionSpec == SessionInit /\ [][SessionNext]_sessionVars
-----------------------------------------------------------------------------
SessionTypeOK ==
    /\ stage \in {"idle", "sending", "landed"}
    /\ amount \in Nat /\ spentSol \in Nat /\ clock \in Nat
    /\ stage # "idle" => amount \in Amounts
    /\ adrift \in [Amounts -> Nat]
    /\ locked \in Nat /\ unseen \in Nat
    /\ lastDepositAt \in Nat \cup {Unset}
    /\ landedAt \in Nat \cup {Unset} /\ lastSeen \in Nat \cup {Unset}

\* What the buyer's books can promise of the cap (policy.ts:70-72, enforced with the
\* spentSol of buyer-agent index.ts:196): counted on the chain, where the money is,
\* a session locks no more than the cap and the deposits whose rpc() threw.
SessionCapHeld == locked <= SessionCap + unseen

\* policy.ts:15, "a minimum interval between deposits", holds of the landings that rpc()
\* waits for, although the buyer reads the clock when it asks and when rpc() returns, and
\* never at the landing: none comes closer to the last one seen confirmed.  A deposit
\* that lands sooner is one whose rpc() had thrown, which no books can space.
DepositsSpaced ==
    [][locked' # locked /\ lastSeen # Unset
          => clock - lastSeen >= MinInterval \/ unseen' > unseen]_sessionVars
=============================================================================
