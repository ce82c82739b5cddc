----------------------------- MODULE FlashPatch -----------------------------
(***************************************************************************)
(* The FlashPatch swarm in an emergency (coral-agents/exploit-detector,    *)
(* patch-generator, sandbox-verifier, threshold-deployer): the detector,   *)
(* whose watch is modelled in Detector, alerts everyone, buys a patch from *)
(* the patch agents over the arbiter rail and has it verified; the deployer*)
(* (Deployer) upgrades the program.  A step is one handler of an agent, up *)
(* to its next wait or its next call of the chain.                         *)
(***************************************************************************)
EXTENDS Deployer, Registry, Mail, Protocol, Policy

CONSTANTS
    DetectorName, VerifierName, DeployerName,
    Hirings,       \* what PATCH_AGENTS may name: sets of patch agents
    PatchOf,       \* PatchOf[a]: the patch of agent a's strategy
    StaticAnalysis,\* StaticAnalysis[p]: "none", "passed" or "failed"
    Floor,         \* Floor[a]: FLOOR_SOL of agent a
    Budget,        \* SECURITY_BUDGET_SOL
    AgentWallet, DetectorWallet, Vaults

\* coral gives the agents of a session different names.
ASSUME FlashPatchAssumption ==
    /\ DetectorName \notin {VerifierName, DeployerName} /\ VerifierName # DeployerName
    /\ {DetectorName, VerifierName, DeployerName} \cap PatchAgents = {}
    /\ Hirings \subseteq SUBSET PatchAgents
    /\ PatchOf \in [PatchAgents -> Patches]
    /\ StaticAnalysis \in [Patches -> {"none", "passed", "failed"}]
    /\ Floor \in [PatchAgents -> Nat] /\ Budget \in Nat
    /\ Unset \notin Nat /\ MaxRound \in Nat /\ MaxBatch \in Nat

VARIABLES
    order, worth, now,       \* the rail
    inEmergency, pc, round,  \* the detector, and its round's locals
    bids, winner, terms,
    quoted, awarded,         \* of each patch agent, as in Market
    working,                 \* working[a]: the deposits a is generating a patch for
    hired,                   \* PATCH_AGENTS of the detector, the same all session
    attested                 \* history: orders whose delivery the verifier passed

rail == <<order, worth, now>>
locals == <<bids, winner, terms>>
detectorVars == <<inEmergency, pc, round, locals>>
agentVars == <<quoted, awarded, working>>
vars == <<rail, detectorVars, agentVars, deployerVars, verified, mail, repeats, attested, hired>>

Agents == PatchAgents \cup {DetectorName, VerifierName, DeployerName}

\* 30% of the budget, and never less than the floor: the budget is no limit.
Price(a) == LET share == (Budget * 3) \div 10
            IN  IF Floor[a] > share THEN Floor[a] ELSE share
Prices == {Price(a) : a \in PatchAgents}

\* deriveReference: the personas share a wallet, so it is a matter of the price.
Reference(n, price) == [round |-> n, price |-> price]
Refs == {Reference(n, p) : n \in Rounds, p \in Prices}

Rail == INSTANCE Settlement WITH
          Accounts <- {AgentWallet, DetectorWallet, Vaults}, Amounts <- Prices, Free <- None,
          MaxTime <- 0, InitialLamports <- [a \in {AgentWallet, DetectorWallet, Vaults} |->
                                IF a = DetectorWallet THEN Budget * MaxRound * 10 ELSE 0]

\* policyFromEnv: the budget is the cap of a round; a verifier is configured.
policy == PolicyFromEnv([maxPerRound |-> Unset, maxPerSession |-> Unset, services |-> {},
                         minInterval |-> Unset, verifier |-> TRUE],
                        Budget, "emergency_patch", Unset)

NoLocals == bids' = <<>> /\ winner' = None /\ terms' = None

\* Mutant: the detector stays in its emergency.
EndRoundInEmergency == pc' = "watching" /\ UNCHANGED <<inEmergency, round>> /\ NoLocals

\* Each way out of a round resets inEmergency and goes back to the watch.
EndRound == pc' = "watching" /\ inEmergency' = FALSE /\ UNCHANGED round /\ NoLocals

Init ==
    /\ Rail!Init /\ DeployerInit
    /\ inEmergency = FALSE /\ pc = "watching" /\ round = 0
    /\ bids = <<>> /\ winner = None /\ terms = None
    /\ quoted = [a \in PatchAgents |-> {}] /\ awarded = [a \in PatchAgents |-> {}]
    /\ working = [a \in PatchAgents |-> {}]
    /\ mail = [a \in Agents |-> <<>>] /\ repeats = 0
    /\ attested = {} /\ hired \in Hirings
-----------------------------------------------------------------------------
(* The detector. *)

\* An exploit was detected: the alert goes to all participants, the WANT to the patch
\* agents among them, two mentions sent one after the other.
Raise ==
    /\ pc = "watching" /\ ~inEmergency /\ round < MaxRound
    /\ inEmergency' = TRUE /\ round' = round + 1 /\ pc' = "bidding" /\ NoLocals
    /\ mail' = Post(Post(mail, hired \cup {VerifierName, DeployerName},
                         [verb |-> "EXPLOIT_DETECTED", round |-> round + 1]),
                    hired, Want(round + 1, Budget))
    /\ UNCHANGED <<rail, agentVars, deployerVars, verified, repeats, attested, hired>>

Awaited == CASE pc = "bidding" -> "BID"
             [] pc = "terms" -> "ESCROW_REQUIRED"
             [] pc = "delivery" -> "DELIVERED"
             [] pc = "verdict" -> "VERIFIED"

\* Mutant: the round of a mention is not looked at.
ExpectsAnyRound(m) == m.verb = Awaited

Expects(m) == m.verb = Awaited /\ m.round = round

Ignore(m, box) == ~Expects(m) /\ mail' = box /\ UNCHANGED detectorVars

ReceiveBid(m, box) ==
    /\ pc = "bidding" /\ Expects(m)
    /\ bids' = Append(bids, [by |-> m.by, price |-> m.price])
    /\ mail' = box
    /\ UNCHANGED <<inEmergency, pc, round, winner, terms>>

\* The policy: the award and the budget bound the amount, session caps are not
\* used (spentSol is always 0) and no payout is expected.
ReceiveTerms(m, box) ==
    /\ pc = "terms" /\ Expects(m)
    /\ mail' = box
    /\ IF MayDeposit([amount |-> m.amount, awarded |-> winner.price,
                      service |-> "emergency_patch", payout |-> m.seller, spent |-> 0,
                      lastDepositAt |-> Unset, now |-> now], policy)
       THEN /\ pc' = "deposit" /\ terms' = m
            /\ UNCHANGED <<inEmergency, round, bids, winner>>
       ELSE EndRound

ReceiveDelivery(m, box) ==
    /\ pc = "delivery" /\ Expects(m)
    /\ pc' = "verdict"
    /\ mail' = Post(box, {VerifierName}, Verify(round, m.payload))
    /\ UNCHANGED <<inEmergency, round, locals>>

ReceiveVerdict(m, box) ==
    /\ pc = "verdict" /\ Expects(m)
    /\ mail' = box
    /\ IF MayRelease(m.verdict, policy)
       THEN pc' = "release" /\ UNCHANGED <<inEmergency, round, locals>>
       ELSE EndRound

DetectorReceives ==
    /\ pc \in {"bidding", "terms", "delivery", "verdict"}
    /\ \E k \in Batches(DetectorName) :
          /\ Wait(DetectorName, k)
          /\ LET m == Head(mail[DetectorName])
                 box == Unread(DetectorName, k)
             IN \/ Ignore(m, box) \/ ReceiveBid(m, box) \/ ReceiveTerms(m, box)
                \/ ReceiveDelivery(m, box) \/ ReceiveVerdict(m, box)
    /\ UNCHANGED <<rail, agentVars, deployerVars, verified, attested, hired>>

\* pool.reduce: the most expensive bid kept, the first of those that ask as much.
MostExpensive(received) ==
    LET pool == SelectBids(received)
    IN  CHOOSE b \in pool : \A c \in pool :
          c.price < b.price \/ (c.price = b.price /\ Place(received, b.by) <= Place(received, c.by))

CloseBids ==
    /\ pc = "bidding"
    /\ IF bids = <<>> THEN EndRound /\ UNCHANGED mail
       ELSE /\ winner' = MostExpensive(bids) /\ pc' = "terms" /\ bids' = <<>>
            /\ mail' = Post(mail, {winner'.by}, Award(round, winner'.by))
            /\ UNCHANGED <<inEmergency, round, terms>>
    /\ UNCHANGED <<rail, agentVars, deployerVars, verified, repeats, attested, hired>>

\* A wait ends without what it waited for; without a verdict the policy refuses.
GiveUp ==
    /\ pc \in {"terms", "delivery", "verdict"}
    /\ EndRound
    /\ UNCHANGED <<rail, agentVars, deployerVars, verified, mail, repeats, attested, hired>>

\* openArbitrated lands; its confirmation is seen, or it throws all the same.
Deposit ==
    /\ pc = "deposit"
    /\ Rail!LockWith(DetectorWallet, terms.amount, Vaults, terms.ref,
                     [seller |-> AgentWallet, amount |-> terms.amount, deadline |-> now + 1])
    /\ \/ /\ pc' = "delivery" /\ UNCHANGED <<inEmergency, round, locals>>
          /\ mail' = Post(mail, {winner.by}, Deposited(round, terms.ref, "arbiter"))
       \/ EndRound /\ UNCHANGED mail
    /\ UNCHANGED <<agentVars, deployerVars, verified, repeats, attested, hired>>

\* arbitrateRelease lands, and is seen or not.
Release ==
    /\ pc = "release"
    /\ Rail!Pay(Vaults, terms.ref)
    /\ EndRound
    /\ \/ mail' = Post(mail, {winner.by}, Released(round))
       \/ UNCHANGED mail
    /\ UNCHANGED <<agentVars, deployerVars, verified, repeats, attested, hired>>

\* A transaction does not land: the loop's catch.
Throw ==
    /\ pc \in {"deposit", "release"}
    /\ EndRound
    /\ UNCHANGED <<rail, agentVars, deployerVars, verified, mail, repeats, attested, hired>>

RoundStep == DetectorReceives \/ CloseBids \/ GiveUp \/ Deposit \/ Release \/ Throw
-----------------------------------------------------------------------------
(* A patch agent. *)

OnWant(a, m, box) ==
    /\ m.verb = "WANT"
    /\ quoted' = [quoted EXCEPT ![a] = @ \cup {m.round}]
    /\ mail' = Post(box, {DetectorName}, Bid(m.round, Price(a), a))
    /\ UNCHANGED <<awarded, working>>

\* The quote of the round is used up: its order is bound to a reference.
OnAward(a, m, box) ==
    /\ m.verb = "AWARD"
    /\ IF m.to = a /\ m.round \in quoted[a]
       THEN LET ref == Reference(m.round, Price(a))
            IN /\ awarded' = [awarded EXCEPT ![a] = @ \cup {ref}]
               /\ quoted' = [quoted EXCEPT ![a] = @ \ {m.round}]
               /\ mail' = Post(box, {DetectorName},
                               EscrowRequired(m.round, ref, AgentWallet, Price(a), "arbiter"))
       ELSE mail' = box /\ UNCHANGED <<quoted, awarded>>
    /\ UNCHANGED working

\* isFunded, of the vault's order: it is there, for the wallet and for the price.
IsFunded(ref) ==
    LET o == order[Vaults][ref]
    IN  o # None /\ o.seller = AgentWallet /\ o.amount >= ref.price

\* A deposit no order awaits is not answered; one that is not there, or that cannot
\* be checked, is an error; else the agent generates its patch and hears nothing
\* until it is done.
OnDeposited(a, m, box) ==
    /\ m.verb = "DEPOSITED"
    /\ \/ m.ref \notin awarded[a] /\ mail' = box /\ UNCHANGED agentVars
       \/ m.ref \in awarded[a] /\ mail' = Post(box, {DetectorName}, Error) /\ UNCHANGED agentVars
       \/ /\ m.ref \in awarded[a] /\ IsFunded(m.ref)
          /\ awarded' = [awarded EXCEPT ![a] = @ \ {m.ref}]
          /\ working' = [working EXCEPT ![a] = {m.ref}]
          /\ mail' = box /\ UNCHANGED quoted

\* An alert is no business of a patch agent, a release is only logged.
OnOther(m, box) ==
    m.verb \in {"EXPLOIT_DETECTED", "RELEASED"} /\ mail' = box /\ UNCHANGED agentVars

Deliver(a) ==
    /\ \E ref \in working[a] :
          mail' = Post(mail, {DetectorName},
                       Delivered(ref.round, [ref |-> ref, patch |-> PatchOf[a]]))
    /\ working' = [working EXCEPT ![a] = {}]
    /\ UNCHANGED <<rail, detectorVars, quoted, awarded, deployerVars, verified, repeats, attested, hired>>

PatchAgentReceives(a) ==
    /\ working[a] = {}
    /\ \E k \in Batches(a) :
          /\ Wait(a, k)
          /\ LET m == Head(mail[a])
                 box == Unread(a, k)
             IN OnWant(a, m, box) \/ OnAward(a, m, box) \/ OnDeposited(a, m, box)
                \/ OnOther(m, box)
    /\ UNCHANGED <<rail, detectorVars, deployerVars, verified, attested, hired>>
-----------------------------------------------------------------------------
(* The sandbox verifier.  A patch passes when it blocks the exploit, unless a static
   analysis was run and failed.  The verdict is a reply: it goes to the detector and
   to no one else. *)
VerifierStep ==
    /\ \E k \in Batches(VerifierName) :
          /\ Wait(VerifierName, k)
          /\ LET m == Head(mail[VerifierName])
                 box == Unread(VerifierName, k)
             IN IF m.verb # "VERIFY" THEN mail' = box /\ UNCHANGED <<verified, attested>>
                ELSE LET passes == /\ VerifyPatchAgainstExploit(m.payload.patch).blocked
                                   /\ StaticAnalysis[m.payload.patch] # "failed"
                     IN
                     /\ mail' = Post(box, {DetectorName},
                                     Verified(m.round, IF passes THEN "pass" ELSE "fail"))
                     /\ attested' = attested \cup (IF passes THEN {m.payload.ref} ELSE {})
                     /\ verified' = [verified EXCEPT ![m.round] =
                                        @ \cup (IF passes THEN {m.payload.patch} ELSE {})]
    /\ UNCHANGED <<rail, detectorVars, agentVars, deployerVars, hired>>

(* The deployer would also take submissions and verdicts; no agent sends it any. *)
DeployerStep ==
    /\ \E k \in Batches(DeployerName) :
          /\ Wait(DeployerName, k)
          /\ mail' = Unread(DeployerName, k)
          /\ LET m == Head(mail[DeployerName]) IN
               \/ m.verb = "EXPLOIT_DETECTED" /\ OnAlert(m.round)
               \/ m.verb = "PATCH_SUBMITTED" /\ OnSubmission(m.round, m.by, m.patch)
               \/ m.verb = "VERIFIED" /\ OnVerdict(m.round, m.verdict)
    /\ UNCHANGED <<rail, detectorVars, agentVars, verified, attested, hired>>
-----------------------------------------------------------------------------
\* Time stands still: no agent of the swarm reads the clock of the chain, nor takes
\* a deposit back, and the policy is given no time of an earlier deposit.
Next == \/ Raise \/ RoundStep \/ VerifierStep \/ DeployerStep
        \/ \E a \in PatchAgents : PatchAgentReceives(a) \/ Deliver(a)

\* Nothing owes an exploit; a round that was started keeps running: its waits are
\* bounded, its calls return.
Spec == Init /\ [][Next]_vars /\ WF_vars(RoundStep)

\* Every agent runs.
FairSpec == /\ Spec /\ WF_vars(VerifierStep) /\ WF_vars(DeployerStep)
            /\ \A a \in PatchAgents : WF_vars(PatchAgentReceives(a) \/ Deliver(a))
-----------------------------------------------------------------------------
(***************************************************************************)
(* Properties.                                                             *)
(***************************************************************************)
Locked(r) == order[Vaults][r] # None
Locks(r) == ~Locked(r) /\ Locked(r)'
Frees(r) == Locked(r) /\ ~Locked(r)'

TypeOK ==
    /\ pc \in {"watching", "bidding", "terms", "deposit", "delivery", "verdict", "release"}
    /\ round \in 0..MaxRound /\ inEmergency = (pc # "watching")
    /\ \A a \in PatchAgents : quoted[a] \subseteq Rounds /\ awarded[a] \cup working[a] \subseteq Refs
    /\ attested \subseteq Refs

\* README.md:270, "Max SOL deposited per emergency event": an emergency locks the
\* budget or less, once, for an order of this emergency and at the price awarded.
BudgetPerEmergency ==
    [][\A r \in Refs : Locks(r) =>
          /\ order'[Vaults][r].amount <= Budget
          /\ order'[Vaults][r].amount = winner.price
          /\ r.round = round
          /\ \A q \in Refs \ {r} : q.round = round => ~Locked(q)]_vars

\* sandbox-verifier index.ts:15-16, "gates escrow release on a VERIFIED pass": an
\* agent is paid only for an order whose own delivery passed, never on a verdict or
\* a delivery of an earlier emergency that arrives late.
PaidOnlyVerified == [][\A r \in Refs : Frees(r) => r \in attested]_vars

\* An emergency ends, whoever falls silent and whatever call fails: until it does
\* the detector watches nothing.
EmergencyEnds == inEmergency ~> ~inEmergency

\* README.md:294-295, the verifier replies VERIFIED pass and the deployer "tracks
\* verified passes, reaches threshold=2, fires upgrade memo tx".
PatchDeployed ==
    \A n \in Rounds : verified[n] # {} ~> \E i \in DOMAIN deployments : deployments[i].round = n
=============================================================================
