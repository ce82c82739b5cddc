------------------------------- MODULE Market -------------------------------
(***************************************************************************)
(* The marketplace: a buyer, sellers and a verifier (coral-agents/buyer-   *)
(* agent, seller-agent, verifier-agent) that bargain by mentions and settle*)
(* over a rail (Settlement) that outlives their session.                   *)
(*                                                                         *)
(* Each agent is one loop: it waits for a mention and handles it.  A step  *)
(* is one handler, up to its next wait or its next call of the chain.      *)
(* Timers are not modelled: a bounded wait may end at any time.  Nothing   *)
(* here reads the clock, so it stands still.  The session cap and the rate *)
(* limit are those of PolicySession; here they are unset.                  *)
(***************************************************************************)
EXTENDS Integers, Sequences, FiniteSets, Mail, Protocol, Policy

CONSTANTS
    Buyer, Verifier, Sellers,
    Wallet,        \* Wallet[s]: where seller s is paid
    BuyerWallet,
    Vaults,        \* the program addresses that own arbitrated orders
    Floor,         \* Floor[s]: FLOOR_SOL of seller s
    Proposals,     \* prices a model may propose
    Settles,       \* Settles[s]: SETTLEMENT_MODE of seller s
    Budget,        \* BUYER_MAX_SOL
    HasArbiterKey, \* is ARBITER_KEYPAIR_B58 given?
    HasVerifier,   \* is VERIFIER_AGENT given?
    ExpectedPayout,\* SELLER_WALLET of the buyer, or Unset
    MaxRound, MaxSession,   \* bounds on rounds and on restarts
    Funds,         \* what the buyer's wallet holds at first
    None           \* no order, no bid, no terms

\* coral gives the agents of a session different names.
ASSUME MarketAssumption ==
    /\ Buyer # Verifier /\ {Buyer, Verifier} \cap Sellers = {}
    /\ DOMAIN Wallet = Sellers
    /\ \A s \in Sellers : Floor[s] \in Nat /\ Settles[s] \in {"direct", "arbiter"}
    /\ Budget \in Nat /\ Proposals \subseteq Nat /\ Unset \notin Nat
    /\ MaxRound \in Nat /\ MaxSession \in Nat \ {0}
    /\ MaxBatch \in Nat /\ MaxRepeats \in Nat

VARIABLES
    order, worth, now,            \* the rail
    pc,                           \* where the buyer waits
    round, bids, winner, terms, payload,   \* its round, and the round's locals
    quoted,                       \* quoted[s][n]: what seller s asked in round n
    awarded,                      \* awarded[s]: references s awaits a deposit for
    session,                      \* the session that runs
    served,                       \* history: deliveries against an order
    attested                      \* history: payloads the verifier passed

rail   == <<order, worth, now>>
locals == <<bids, winner, terms, payload>>
buyerVars == <<pc, round, locals>>
sellerVars == <<quoted, awarded>>
history == <<served, attested>>
vars == <<rail, buyerVars, sellerVars, mail, repeats, session, history>>

Agents == {Buyer, Verifier} \cup Sellers
Rounds == 1..MaxRound

\* The bound on rounds: a session that follows another starts one fewer.
LastRound == MaxRound - session + 1

\* decideBid: a proposal is clamped into [floor, budget].
Quotes(s, budget) ==
    {IF p < Floor[s] THEN Floor[s] ELSE IF p > budget THEN budget ELSE p :
        p \in Proposals \cup {Floor[s]}}

\* The budget is the one a seller reads in the WANT.
Prices == UNION {Quotes(s, Wire(Budget)) : s \in Sellers}

\* boundReference: the hash of the round, the wallet and the price.  The service
\* and its argument are left out: the round alone fixes them (ARGS[round % n]).
Reference(n, wallet, price) == [round |-> n, wallet |-> wallet, price |-> price]
Refs == {Reference(n, Wallet[s], p) : n \in Rounds, s \in Sellers, p \in Prices}

Accounts == {Wallet[s] : s \in Sellers} \cup {BuyerWallet, Vaults}

Rail == INSTANCE Settlement WITH
          Amounts <- Prices, Free <- None, MaxTime <- 1,
          InitialLamports <- [a \in Accounts |-> IF a = BuyerWallet THEN Funds ELSE 0]

\* The account an order is locked under.
Owner(mode) == IF mode = "arbiter" THEN Vaults ELSE BuyerWallet

policy == PolicyFromEnv([maxPerRound |-> Unset, maxPerSession |-> Unset, services |-> {},
                         minInterval |-> Unset, verifier |-> HasVerifier],
                        Budget, "txline", ExpectedPayout)

NoLocals == /\ bids' = <<>> /\ winner' = None
            /\ terms' = None /\ payload' = None

\* The end of a round, whatever ended it: the buyer sleeps and goes on.
EndRound == pc' = "idle" /\ UNCHANGED round /\ NoLocals

Init ==
    /\ Rail!Init
    /\ pc = "idle" /\ round = 0
    /\ bids = <<>> /\ winner = None /\ terms = None /\ payload = None
    /\ quoted = [s \in Sellers |-> [n \in Rounds |-> None]]
    /\ awarded = [s \in Sellers |-> {}]
    /\ mail = [a \in Agents |-> <<>>] /\ repeats = 0
    /\ session = 1
    /\ served = [r \in Refs |-> 0] /\ attested = {}
-----------------------------------------------------------------------------
(* The buyer. *)

SendWant ==
    /\ pc = "idle" /\ round < LastRound
    /\ round' = round + 1 /\ pc' = "bidding" /\ NoLocals
    /\ mail' = Post(mail, Sellers, Want(round + 1, Budget))
    /\ UNCHANGED <<rail, sellerVars, repeats, session, history>>

Awaited == CASE pc = "bidding" -> "BID"
             [] pc = "terms" -> "ESCROW_REQUIRED"
             [] pc = "delivery" -> "DELIVERED"
             [] pc = "verdict" -> "VERIFIED"

\* Mutant: the round of a mention is not looked at.
ExpectsAnyRound(m) == m.verb = Awaited

\* A mention the buyer waits for is of the verb and the round it waits for; any
\* other is read and forgotten.
Expects(m) == m.verb = Awaited /\ m.round = round

Waits == pc \in {"bidding", "terms", "delivery", "verdict"}

Ignore(m, box) == ~Expects(m) /\ mail' = box /\ UNCHANGED buyerVars

ReceiveBid(m, box) ==
    /\ pc = "bidding" /\ Expects(m)
    /\ bids' = Append(bids, [by |-> m.by, price |-> m.price])
    /\ mail' = box
    /\ UNCHANGED <<pc, round, winner, terms, payload>>

\* Terms the policy allows are deposited; otherwise the round is over.
ReceiveTerms(m, box) ==
    /\ pc = "terms" /\ Expects(m)
    /\ mail' = box
    /\ IF MayDeposit([amount |-> m.amount, awarded |-> winner.price,
                      service |-> "txline", payout |-> m.seller, spent |-> Unset,
                      lastDepositAt |-> Unset, now |-> now], policy)
       THEN pc' = "deposit" /\ terms' = m /\ UNCHANGED <<round, bids, winner, payload>>
       ELSE EndRound

\* With a verifier the payload goes to it first; without one it is released.
ReceiveDelivery(m, box) ==
    /\ pc = "delivery" /\ Expects(m)
    /\ payload' = m.payload
    /\ IF HasVerifier
       THEN /\ pc' = "verdict"
            /\ mail' = Post(box, {Verifier}, Verify(round, m.payload))
       ELSE pc' = "release" /\ mail' = box
    /\ UNCHANGED <<round, bids, winner, terms>>

ReceiveVerdict(m, box) ==
    /\ pc = "verdict" /\ Expects(m)
    /\ mail' = box
    /\ IF MayRelease(m.verdict, policy)
       THEN pc' = "release" /\ UNCHANGED <<round, locals>>
       ELSE EndRound

BuyerReceives ==
    /\ Waits
    /\ \E k \in Batches(Buyer) :
          /\ Wait(Buyer, k)
          /\ LET m == Head(mail[Buyer])
                 box == Unread(Buyer, k)
             IN \/ Ignore(m, box) \/ ReceiveBid(m, box) \/ ReceiveTerms(m, box)
                \/ ReceiveDelivery(m, box) \/ ReceiveVerdict(m, box)
    /\ UNCHANGED <<rail, sellerVars, session, history>>

\* A bid window that closes: the round goes to a bid that was kept, the one the
\* model names or else the cheapest; without a bid it is over.
CloseBids ==
    /\ pc = "bidding"
    /\ IF bids = <<>> THEN EndRound /\ UNCHANGED mail
       ELSE \E b \in SelectBids(bids) :
                /\ winner' = b /\ pc' = "terms" /\ bids' = <<>>
                /\ mail' = Post(mail, {b.by}, Award(round, b.by))
                /\ UNCHANGED <<round, terms, payload>>
    /\ UNCHANGED <<rail, sellerVars, repeats, session, history>>

\* Mutant: the wait for a verdict has no limit.
GiveUpNoVerdict ==
    /\ pc \in {"terms", "delivery"}
    /\ EndRound
    /\ UNCHANGED <<rail, sellerVars, mail, repeats, session, history>>

\* waitFor gives up: no terms, no delivery or no verdict in time.  Without a
\* verdict the policy refuses the release, so that each of them ends the round.
GiveUp ==
    /\ pc \in {"terms", "delivery", "verdict"}
    /\ EndRound
    /\ UNCHANGED <<rail, sellerVars, mail, repeats, session, history>>

\* deposit or openArbitrated: the transaction lands.  When rpc() sees it confirmed
\* the seller is told; when it throws all the same, the round is over.
Deposit ==
    /\ pc = "deposit"
    /\ terms.settlement = "arbiter" => HasArbiterKey
    /\ Rail!LockWith(BuyerWallet,
                     IF terms.settlement = "arbiter" THEN terms.amount ELSE 0,
                     Owner(terms.settlement), terms.ref,
                     [seller |-> terms.seller, amount |-> terms.amount, deadline |-> now + 1])
    /\ served' = [served EXCEPT ![terms.ref] = 0]
    /\ \/ /\ pc' = "delivery" /\ UNCHANGED <<round, locals>>
          /\ mail' = Post(mail, {winner.by},
                          Deposited(round, terms.ref, terms.settlement))
       \/ EndRound /\ UNCHANGED mail
    /\ UNCHANGED <<sellerVars, repeats, session, attested>>

\* release or arbitrateRelease lands, and is seen confirmed or not.
Release ==
    /\ pc = "release"
    /\ Rail!Pay(Owner(terms.settlement), terms.ref)
    /\ order[Owner(terms.settlement)][terms.ref].seller = terms.seller
    /\ EndRound
    /\ \/ mail' = Post(mail, {winner.by}, Released(round))
       \/ UNCHANGED mail
    /\ UNCHANGED <<sellerVars, repeats, session, history>>

\* A transaction that does not land, whatever the reason, ends the round: the
\* account exists, funds or the arbiter's key are missing, the RPC fails.
Throw ==
    /\ pc \in {"deposit", "release"}
    /\ EndRound
    /\ UNCHANGED <<rail, sellerVars, mail, repeats, session, history>>

BuyerStep == SendWant \/ BuyerReceives \/ CloseBids \/ GiveUp
                \/ Deposit \/ Release \/ Throw
-----------------------------------------------------------------------------
(* A seller. *)

\* A floor above the budget, or the model, makes the seller sit the round out.
OnWant(s, m, box) ==
    /\ m.verb = "WANT"
    /\ \/ /\ Floor[s] <= m.budget
          /\ \E p \in Quotes(s, m.budget) :
                /\ quoted' = [quoted EXCEPT ![s][m.round] = p]
                /\ mail' = Post(box, {Buyer}, Bid(m.round, p, s))
       \/ mail' = box /\ UNCHANGED quoted
    /\ UNCHANGED <<rail, awarded, history>>

\* The order of a round is bound to the price that was quoted.
Order(s, n) == Reference(n, Wallet[s], quoted[s][n])

\* An award for a round that was quoted: bind the order to a reference, ask for
\* its deposit.  The quote is used up.
OnAward(s, m, box) ==
    /\ m.verb = "AWARD"
    /\ IF m.to = s /\ quoted[s][m.round] # None
       THEN /\ awarded' = [awarded EXCEPT ![s] = @ \cup {Order(s, m.round)}]
            /\ quoted' = [quoted EXCEPT ![s][m.round] = None]
            /\ mail' = Post(box, {Buyer},
                            EscrowRequired(m.round, Order(s, m.round), Wallet[s],
                                           quoted[s][m.round], Settles[s]))
       ELSE mail' = box /\ UNCHANGED sellerVars
    /\ UNCHANGED <<rail, history>>

\* isFunded: the order is there, for this seller and for its price at least.
IsFunded(s, owner, ref) ==
    LET o == order[owner][ref]
    IN  o # None /\ o.seller = Wallet[s] /\ o.amount >= ref.price

\* Mutant: the order is kept.
KeepOrder(s, ref) == UNCHANGED awarded

\* An order that is being served is no longer awaited.
ForgetOrder(s, ref) == awarded' = [awarded EXCEPT ![s] = @ \ {ref}]

\* A deposit for an order that was awarded and is funded is served once; the work
\* may throw, and the check may fail (an RPC error, a node that lags).
OnDeposited(s, m, box) ==
    /\ m.verb = "DEPOSITED"
    /\ \/ /\ m.ref \in awarded[s]
          /\ IsFunded(s, Owner(m.settlement), m.ref)
          /\ ForgetOrder(s, m.ref)
          /\ \/ \E kind \in {"good", "bad"} :
                   /\ mail' = Post(box, {Buyer},
                                   Delivered(m.round, [ref |-> m.ref, kind |-> kind]))
                   /\ served' = [served EXCEPT ![m.ref] = @ + 1]
             \/ mail' = Post(box, {Buyer}, Error) /\ UNCHANGED served
       \/ mail' = Post(box, {Buyer}, Error) /\ UNCHANGED <<awarded, served>>
    /\ UNCHANGED <<rail, quoted, attested>>

\* RELEASED is only logged.
OnReleased(m, box) ==
    m.verb = "RELEASED" /\ mail' = box /\ UNCHANGED <<rail, sellerVars, history>>

SellerStep(s) ==
    /\ \E k \in Batches(s) :
          /\ Wait(s, k)
          /\ LET m == Head(mail[s])
                 box == Unread(s, k)
             IN OnWant(s, m, box) \/ OnAward(s, m, box) \/ OnDeposited(s, m, box)
                \/ OnReleased(m, box)
    /\ UNCHANGED <<buyerVars, session>>

(* The verifier: checkDelivery fails what is not JSON or reports an error; of the
   rest the model judges, and without a model it passes. *)
VerifierStep ==
    /\ \E k \in Batches(Verifier) :
          /\ Wait(Verifier, k)
          /\ LET m == Head(mail[Verifier]) IN
               \E verdict \in IF m.payload.kind = "good" THEN {"pass", "fail"} ELSE {"fail"} :
                  /\ mail' = Post(Unread(Verifier, k), {Buyer}, Verified(m.round, verdict))
                  /\ attested' = attested \cup (IF verdict = "pass" THEN {m.payload.ref} ELSE {})
    /\ UNCHANGED <<rail, buyerVars, sellerVars, session, served>>
-----------------------------------------------------------------------------
\* The session ends, at any time, and another starts: every agent starts afresh
\* and mentions are gone; the chain goes on.
NewSession ==
    /\ session < MaxSession
    /\ session' = session + 1
    /\ pc' = "idle" /\ round' = 0 /\ NoLocals
    /\ quoted' = [s \in Sellers |-> [n \in Rounds |-> None]]
    /\ awarded' = [s \in Sellers |-> {}]
    /\ mail' = [a \in Agents |-> <<>>]
    /\ attested' = {}
    /\ UNCHANGED <<rail, repeats, served>>

Next == \/ BuyerStep \/ VerifierStep \/ NewSession
        \/ \E s \in Sellers : SellerStep(s)

\* The buyer's loop keeps running: its waits are bounded, its calls return.
Spec == Init /\ [][Next]_vars /\ WF_vars(BuyerStep)
-----------------------------------------------------------------------------
(***************************************************************************)
(* Properties.                                                             *)
(***************************************************************************)
Locked(o, r) == order[o][r] # None
Locks(o, r) == ~Locked(o, r) /\ Locked(o, r)'
Frees(o, r) == Locked(o, r) /\ ~Locked(o, r)'

TypeOK ==
    /\ pc \in {"idle", "bidding", "terms", "deposit", "delivery", "verdict", "release"}
    /\ round \in 0..MaxRound /\ session \in 1..MaxSession /\ repeats \in 0..MaxRepeats
    /\ \A s \in Sellers : awarded[s] \subseteq Refs
    /\ \A s \in Sellers, n \in Rounds : quoted[s][n] \in Prices \cup {None}
    /\ attested \subseteq Refs

\* A deposit is what was awarded: it pays the seller the round went to, no more
\* than that seller bid and asked, within the budget, whatever was quoted again
\* or misread on the wire in between.
LockedAsAwarded ==
    [][\A o \in Accounts, r \in Refs : Locks(o, r) =>
          LET t == order'[o][r] IN
            /\ t.seller = Wallet[winner.by]
            /\ t.amount <= winner.price /\ t.amount <= Budget
            /\ t.amount <= r.price /\ r.round = round]_vars

\* buyer index.ts:50-51, "releases ONLY on a VERIFIED pass": a seller is paid only
\* for an order it delivered, and with a verifier only if the delivery made for
\* this order passed: never on the verdict or the delivery of another round.
PaidOnlyVerified ==
    [][\A o \in Accounts, r \in Refs : Frees(o, r) =>
          /\ served[r] > 0
          /\ HasVerifier => r \in attested]_vars

\* A seller delivers once for a deposit, although mentions are repeated and sessions
\* restart with the references of earlier ones.
DeliveredOncePerDeposit == \A r \in Refs : served[r] <= 1

\* Whatever the others do or fail to do, the buyer comes to the end of its rounds:
\* no wait for a bid, terms, a delivery, a verdict or a transaction is for ever.
RoundsGoOn == <>[](round = LastRound /\ pc = "idle")
=============================================================================
