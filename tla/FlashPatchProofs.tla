--------------------------- MODULE FlashPatchProofs --------------------------
(***************************************************************************)
(* The swarm in an emergency, for any patch agents, floors, budget and     *)
(* verdicts, any number of emergencies, and mentions that are lost, read   *)
(* again, or late; and its threshold deployer in an open world: whatever   *)
(* messages come, in any order and any number, for any registry, threshold *)
(* and set of agents; and the detector's watch, for any chain, length of a *)
(* poll and failures.                                                      *)
(***************************************************************************)
EXTENDS FlashPatch, Detector, FiniteSetTheorems, SequenceTheorems, WellFoundedInduction, TLAPS

(* The threshold deployer. *)

\* A round that was deployed is marked so, and stays marked.
DeployedIsMarked ==
    \A i \in DOMAIN deployments :
        /\ rounds[deployments[i].round] # None
        /\ rounds[deployments[i].round].deployed

DeployerIInv == DeployerTypeOK /\ DeployedIsMarked /\ DeployedOnce

AgentVars == <<deployerVars, verified>>
-----------------------------------------------------------------------------
(* The registry. *)

LEMMA SubmittedType == ASSUME NEW st \in RoundStates PROVE Submitted(st) \subseteq Patches
BY DEF Submitted, RoundStates

\* pickBest: among any patches there is one of the highest confidence, as a confidence
\* is at most 100 and what is missing to 100 has a least value.
LEMMA BestIsBest ==
    ASSUME NEW ps \in SUBSET Patches, ps # {}
    PROVE  /\ Best(ps) \in ps
           /\ \A q \in ps : Confidence[Best(ps)] >= Confidence[q]
<1> DEFINE missing == {100 - Confidence[p] : p \in ps}
<1>1. \A p \in ps : Confidence[p] \in 0..100
  BY DeployerAssumption
<1>2. missing \subseteq Nat /\ missing # {}
  BY <1>1
<1>3. PICK x \in missing : \A y \in missing : ~(<<y, x>> \in OpToRel(<, Nat))
  <2> HIDE DEF missing
  <2> QED BY <1>2, NatLessThanWellFounded, WFMin
<1>4. \A y \in missing : x <= y
  <2> SUFFICES ASSUME NEW y \in missing PROVE x <= y
    OBVIOUS
  <2>1. x \in Nat /\ y \in Nat
    BY <1>2
  <2>2. ~(<<y, x>> \in OpToRel(<, Nat))
    BY <1>3
  <2>3. ~(y < x)
    BY <2>1, <2>2 DEF OpToRel
  <2> QED BY <2>1, <2>3
<1>5. PICK p \in ps : x = 100 - Confidence[p]
  BY <1>3
<1>6. \A q \in ps : Confidence[p] >= Confidence[q]
  <2> SUFFICES ASSUME NEW q \in ps PROVE Confidence[p] >= Confidence[q]
    OBVIOUS
  <2>1. 100 - Confidence[p] <= 100 - Confidence[q]
    BY <1>4, <1>5
  <2>2. Confidence[p] \in Int /\ Confidence[q] \in Int
    BY <1>1
  <2> HIDE DEF missing
  <2> QED BY <2>1, <2>2
<1> QED BY <1>6 DEF Best
-----------------------------------------------------------------------------
(* The messages. *)

\* getOrCreateRound
LEMMA RoundStateType ==
    ASSUME DeployerTypeOK, NEW n \in Rounds PROVE RoundState(n) \in RoundStates
BY DeployerAssumption DEF DeployerTypeOK, RoundState, NoState, RoundStates

LEMMA PassedType ==
    ASSUME DeployerTypeOK, NEW n \in Rounds
    PROVE  /\ Passed(n) \in RoundStates
           /\ Submitted(Passed(n)) = Submitted(RoundState(n))
           /\ Passed(n).deployed = RoundState(n).deployed
           /\ Passed(n).passes = RoundState(n).passes \cup Submitted(RoundState(n))
BY RoundStateType, SubmittedType DEF Passed, Submitted, RoundStates

\* What a step makes of a round it handles is a state of a round, and takes no mark
\* away; only an upgrade extends the deployments.
LEMMA AlertKeeps ==
    ASSUME DeployerIInv, Alert PROVE DeployerIInv' /\ UNCHANGED deployments
<1>1. PICK n \in Rounds : OnAlert(n) /\ UNCHANGED verified
  BY DEF Alert
<1>2. RoundState(n) \in RoundStates
  BY RoundStateType DEF DeployerIInv
<1>3. rounds[n] # None => RoundState(n).deployed = rounds[n].deployed
  BY DEF RoundState
<1> QED BY <1>1, <1>2, <1>3, DeployerAssumption
        DEF DeployerIInv, OnAlert, DeployerTypeOK, DeployedIsMarked, DeployedOnce

LEMMA SubmissionKeeps ==
    ASSUME DeployerIInv, Submission PROVE DeployerIInv' /\ UNCHANGED deployments
<1>1. PICK n \in Rounds, a \in PatchAgents, p \in Patches :
          OnSubmission(n, a, p) /\ UNCHANGED verified
  BY DEF Submission
<1> DEFINE st == [RoundState(n) EXCEPT !.submissions[a] = p]
<1>2. st \in RoundStates /\ st.deployed = RoundState(n).deployed
  BY RoundStateType DEF DeployerIInv, RoundStates
<1>3. rounds' = [rounds EXCEPT ![n] = st] /\ UNCHANGED <<deployments, verified>>
  BY <1>1 DEF OnSubmission
<1>4. rounds[n] # None => st.deployed = rounds[n].deployed
  BY <1>2 DEF RoundState
<1> HIDE DEF st
<1> QED BY <1>2, <1>3, <1>4, DeployerAssumption
        DEF DeployerIInv, DeployerTypeOK, DeployedIsMarked, DeployedOnce

\* A verdict on which an upgrade is sent: the best patch submitted in the round, which
\* was not deployed before and has the threshold.
Upgrades(n) ==
    /\ Submitted(RoundState(n)) # {}
    /\ ~RoundState(n).deployed
    /\ Cardinality(RoundState(n).passes \cup Submitted(RoundState(n))) >= Threshold
    /\ rounds' = [rounds EXCEPT ![n] = [Passed(n) EXCEPT !.deployed = TRUE]]
    /\ deployments' = Append(deployments,
                             [round |-> n, patch |-> Best(Submitted(RoundState(n)))])

LEMMA VerdictCases ==
    ASSUME DeployerIInv, NEW n \in Rounds, NEW v \in {"pass", "fail"}, OnVerdict(n, v)
    PROVE  \/ UNCHANGED deployerVars
           \/ v = "pass" /\ Upgrades(n)
           \/ rounds' = [rounds EXCEPT ![n] = Passed(n)] /\ UNCHANGED deployments
BY PassedType DEF DeployerIInv, OnVerdict, Upgrades, MayDeploy, Met

LEMMA VerdictKeeps == ASSUME DeployerIInv, Verdict PROVE DeployerIInv'
<1>1. PICK n \in Rounds, p \in Patches, v \in {"pass", "fail"} :
          /\ verified' = [verified EXCEPT ![n] = IF v = "pass" THEN @ \cup {p} ELSE @]
          /\ OnVerdict(n, v)
  BY DEF Verdict
<1>2. (verified \in [Rounds -> SUBSET Patches])'
  BY <1>1 DEF DeployerIInv, DeployerTypeOK
<1>3. Passed(n) \in RoundStates /\ Passed(n).deployed = RoundState(n).deployed
  BY PassedType DEF DeployerIInv
<1>4. CASE UNCHANGED deployerVars
  BY <1>2, <1>4 DEF DeployerIInv, DeployerTypeOK, DeployedIsMarked, DeployedOnce, deployerVars
<1>5. CASE rounds' = [rounds EXCEPT ![n] = Passed(n)] /\ UNCHANGED deployments
  <2>1. rounds[n] # None => Passed(n).deployed = rounds[n].deployed
    BY <1>3 DEF RoundState
  <2> QED BY <1>2, <1>3, <1>5, <2>1, DeployerAssumption
          DEF DeployerIInv, DeployerTypeOK, DeployedIsMarked, DeployedOnce
<1>6. CASE Upgrades(n)
  <2> DEFINE st == [Passed(n) EXCEPT !.deployed = TRUE]
             best == Best(Submitted(RoundState(n)))
             d == [round |-> n, patch |-> best]
  <2>1. st \in RoundStates /\ st.deployed
    BY <1>3 DEF RoundStates
  <2>2. best \in Patches
    BY <1>6, BestIsBest, RoundStateType, SubmittedType DEF DeployerIInv, Upgrades
  <2>3. rounds' = [rounds EXCEPT ![n] = st] /\ deployments' = Append(deployments, d)
    BY <1>6 DEF Upgrades
  <2>4. d \in [round : Rounds, patch : Patches] /\ d.round = n
    BY <2>2
  <2>5. \A i \in DOMAIN deployments : deployments[i].round # n
    BY <1>6 DEF Upgrades, RoundState, DeployerIInv, DeployedIsMarked
  <2> HIDE DEF st, d
  <2>6. DeployerTypeOK'
    BY <1>2, <2>1, <2>3, <2>4 DEF DeployerIInv, DeployerTypeOK
  <2>7. /\ DOMAIN deployments' = 1..(Len(deployments) + 1)
        /\ \A i \in DOMAIN deployments : deployments'[i] = deployments[i]
        /\ deployments'[Len(deployments) + 1] = d
        /\ DOMAIN deployments = 1..Len(deployments) /\ Len(deployments) \in Nat
    BY <2>3, <2>4 DEF DeployerIInv, DeployerTypeOK
  <2>8. DeployedIsMarked'
    <3> SUFFICES ASSUME NEW i \in DOMAIN deployments'
                 PROVE  /\ rounds'[deployments'[i].round] # None
                        /\ rounds'[deployments'[i].round].deployed
      BY DEF DeployedIsMarked
    <3>1. CASE i \in DOMAIN deployments
      <4>1. deployments'[i].round # n /\ deployments'[i].round \in Rounds
        <5>1. deployments[i] \in [round : Rounds, patch : Patches]
          BY <2>7, <3>1, ElementOfSeq DEF DeployerIInv, DeployerTypeOK
        <5> QED BY <2>5, <2>7, <3>1, <5>1
      <4> QED BY <2>3, <2>7, <3>1, <4>1 DEF DeployerIInv, DeployerTypeOK, DeployedIsMarked
    <3>2. CASE i = Len(deployments) + 1
      BY <2>1, <2>3, <2>4, <2>7, <3>2, DeployerAssumption DEF DeployerIInv, DeployerTypeOK
    <3> QED BY <2>7, <3>1, <3>2
  <2>9. DeployedOnce'
    BY <2>4, <2>5, <2>7 DEF DeployerIInv, DeployedOnce
  <2> QED BY <2>6, <2>8, <2>9 DEF DeployerIInv
<1> QED BY <1>1, <1>4, <1>5, <1>6, VerdictCases

LEMMA DeployerInductive == DeployerSpec => []DeployerIInv
<1>1. DeployerInit => DeployerIInv
  BY DEF DeployerInit, DeployerIInv, DeployerTypeOK, DeployedIsMarked, DeployedOnce
<1>2. DeployerIInv /\ [Alert \/ Submission \/ Verdict]_AgentVars => DeployerIInv'
  <2>1. ASSUME DeployerIInv, UNCHANGED AgentVars PROVE DeployerIInv'
    BY <2>1 DEF AgentVars, deployerVars, DeployerIInv, DeployerTypeOK, DeployedIsMarked, DeployedOnce
  <2> QED BY <2>1, AlertKeeps, SubmissionKeeps, VerdictKeeps
<1> QED BY <1>1, <1>2, PTL DEF DeployerSpec, AgentVars
-----------------------------------------------------------------------------
\* What the deployer notes of a round keeps its type.
THEOREM DeployerTypeCorrect == DeployerSpec => []DeployerTypeOK
<1>1. DeployerIInv => DeployerTypeOK
  BY DEF DeployerIInv
<1> QED BY DeployerInductive, <1>1, PTL

\* threshold-deployer index.ts:169-170, the guard on deployed: however many verdicts come and
\* in whichever order, the program is upgraded at most once in a round.
THEOREM NeverTwice == DeployerSpec => []DeployedOnce
<1>1. DeployerIInv => DeployedOnce
  BY DEF DeployerIInv
<1> QED BY DeployerInductive, <1>1, PTL

\* threshold-deployer index.ts:144-170: an upgrade follows a pass, takes the patch of the
\* highest confidence among those submitted, and counts the threshold of patches.
THEOREM BestAfterPass == DeployerSpec => DeployedBestAfterPass
<1> DEFINE A == deployments' # deployments =>
                  LET d == deployments'[Len(deployments')]
                      submitted == Submitted(rounds[d.round])
                  IN /\ d.patch \in submitted
                     /\ \A p \in submitted : Confidence[p] <= Confidence[d.patch]
                     /\ Cardinality(rounds[d.round].passes \cup submitted) >= Threshold
                     /\ verified'[d.round] # {}
<1>1. ASSUME DeployerIInv, Verdict, deployments' # deployments PROVE A
  <2>1. PICK n \in Rounds, p \in Patches, v \in {"pass", "fail"} :
            /\ verified' = [verified EXCEPT ![n] = IF v = "pass" THEN @ \cup {p} ELSE @]
            /\ OnVerdict(n, v)
    BY <1>1 DEF Verdict
  <2>2. v = "pass" /\ Upgrades(n)
    BY <1>1, <2>1, VerdictCases DEF deployerVars
  <2>3. RoundState(n) = rounds[n]
    BY <2>2 DEF Upgrades, RoundState, NoState, Submitted
  <2>4. /\ Best(Submitted(rounds[n])) \in Submitted(rounds[n])
        /\ \A q \in Submitted(rounds[n]) :
              Confidence[Best(Submitted(rounds[n]))] >= Confidence[q]
    BY <1>1, <2>2, <2>3, RoundStateType, SubmittedType, BestIsBest DEF Upgrades, DeployerIInv
  <2>5. deployments'[Len(deployments')] = [round |-> n, patch |-> Best(Submitted(rounds[n]))]
    BY <1>1, <2>2, <2>3 DEF Upgrades, DeployerIInv, DeployerTypeOK
  <2>6. p \in verified'[n]
    BY <1>1, <2>1, <2>2 DEF DeployerIInv, DeployerTypeOK
  <2>7. \A q \in Submitted(rounds[n]) :
            Confidence[q] <= Confidence[Best(Submitted(rounds[n]))]
    BY <1>1, <2>3, <2>4, RoundStateType, SubmittedType, DeployerAssumption DEF DeployerIInv
  <2>8. Cardinality(rounds[n].passes \cup Submitted(rounds[n])) >= Threshold
    BY <2>2, <2>3 DEF Upgrades
  <2> QED BY <2>4, <2>5, <2>6, <2>7, <2>8
<1>2. DeployerIInv /\ [Alert \/ Submission \/ Verdict]_AgentVars => [A]_AgentVars
  BY <1>1, AlertKeeps, SubmissionKeeps
<1> QED BY DeployerInductive, <1>2, PTL DEF DeployerSpec, DeployedBestAfterPass, AgentVars
-----------------------------------------------------------------------------
(* The swarm: what its agents say, and what may be unread of it. *)

Payloads == [ref : Refs, patch : Patches]

\* Offers: what the detector keeps of a bid.
Offers == {[by |-> a, price |-> Wire(Price(a))] : a \in PatchAgents}
Asks == {EscrowRequired(n, Reference(n, Price(a)), AgentWallet, Price(a), "arbiter") :
            n \in Rounds, a \in PatchAgents}

Messages ==
    {[verb |-> "EXPLOIT_DETECTED", round |-> n] : n \in Rounds}
    \cup {Want(n, Budget) : n \in Rounds}
    \cup {Bid(n, Price(a), a) : n \in Rounds, a \in PatchAgents}
    \cup {Award(n, a) : n \in Rounds, a \in PatchAgents}
    \cup Asks
    \cup {Deposited(r.round, r, "arbiter") : r \in Refs}
    \cup {Delivered(p.ref.round, p) : p \in Payloads}
    \cup {Verify(p.ref.round, p) : p \in Payloads}
    \cup {Verified(n, v) : n \in Rounds, v \in {"pass", "fail"}}
    \cup {Released(n) : n \in Rounds}
    \cup {Error}

\* The unread mentions of an agent, in no order.
Letters(box, a) == {box[a][i] : i \in DOMAIN box[a]}

\* The states of a round with a winner, with terms, with a deposit that was seen, and
\* those that come before its deposit.
Awarding == {"terms", "deposit", "delivery", "verdict", "release"}
Settling == {"deposit", "delivery", "verdict", "release"}
Seen == {"delivery", "verdict", "release"}
BeforeDeposit == {"bidding", "terms", "deposit"}

WorldTypes ==
    /\ order \in [{AgentWallet, DetectorWallet, Vaults} ->
                     [Refs -> [seller : {AgentWallet}, amount : Nat, deadline : Nat] \cup {None}]]
    /\ now = 0
    /\ quoted \in [PatchAgents -> SUBSET Rounds]
    /\ awarded \in [PatchAgents -> SUBSET Refs]
    /\ working \in [PatchAgents -> SUBSET Refs]
    /\ attested \subseteq Refs
    /\ mail \in [Agents -> Seq(Messages)]

DetectorTypes ==
    /\ pc \in {"watching", "bidding"} \cup Awarding
    /\ inEmergency = (pc # "watching")
    /\ round \in 0..MaxRound /\ (pc # "watching" => round \in Rounds)
    /\ bids \in Seq(Offers)
    /\ pc \in Awarding => winner \in Offers

\* The terms are those of this emergency, at the price its winner bid; what is released
\* was attested.
Bargain ==
    /\ pc \in Settling => /\ terms \in Asks /\ terms.ref.round = round
                          /\ terms.amount = winner.price
    /\ pc = "deposit" => terms.amount <= Budget
    /\ pc = "release" => terms.ref \in attested

\* An order that is locked is of an emergency that was, and of this one only once its
\* deposit was sent.
OrdersOfRounds ==
    \A r \in Refs : Locked(r) => r.round <= round /\ (pc \in BeforeDeposit => r.round < round)

\* What follows the deposit for an order of round n finds the detector past its deposit
\* of that round, and is about the order of its terms.
Follows(n, ref) ==
    n = round => pc \in Seen \cup {"watching"} /\ (pc \in Seen => ref = terms.ref)

\* What may be heard: of emergencies that were, and of this one only what belongs to
\* its bargain.
MayHear(m) ==
    /\ m.round <= round
    /\ m.verb = "AWARD" /\ m.round = round =>
          pc # "bidding" /\ (pc \in Awarding => m.to = winner.by)
    /\ m.verb = "ESCROW_REQUIRED" /\ m.round = round =>
          pc # "bidding" /\ (pc \in Awarding => m.amount = winner.price)
    /\ m.verb = "DEPOSITED" => Follows(m.round, m.ref)
    /\ m.verb \in {"DELIVERED", "VERIFY"} => Follows(m.round, m.payload.ref)
    /\ m.verb = "VERIFIED" /\ m.round = round =>
          /\ pc \in Seen \cup {"watching"}
          /\ pc \in Seen /\ m.verdict = "pass" => terms.ref \in attested

\* What an agent works on was deposited.
MayWork(ref) == ref.round <= round /\ Follows(ref.round, ref)

Hearing ==
    /\ \A a \in Agents : \A m \in Letters(mail, a) : MayHear(m)
    /\ \A a \in PatchAgents : \A ref \in working[a] : MayWork(ref)

IInv == WorldTypes /\ DetectorTypes /\ Bargain /\ OrdersOfRounds /\ Hearing
-----------------------------------------------------------------------------
(* Messages and prices. *)

LEMMA PriceNat == ASSUME NEW a \in PatchAgents PROVE Price(a) \in Nat /\ Wire(Price(a)) \in Nat
<1>1. Floor[a] \in Nat /\ Budget * 3 \in Nat
  BY FlashPatchAssumption
<1>2. (Budget * 3) \div 10 \in Nat
  BY <1>1
<1>3. Price(a) \in Nat
  BY <1>1, <1>2 DEF Price
<1> QED BY <1>3 DEF Wire, Sol

LEMMA RoundNat == Rounds \subseteq Nat
BY FlashPatchAssumption DEF Rounds

LEMMA RefsRound ==
    /\ \A r \in Refs : r.round \in Rounds
    /\ \A n \in Rounds, a \in PatchAgents : /\ Reference(n, Price(a)) \in Refs
                                            /\ Reference(n, Price(a)).round = n
<1>1. ASSUME NEW r \in Refs PROVE r.round \in Rounds
  <2>1. PICK n \in Rounds, p \in Prices : r = [round |-> n, price |-> p]
    BY <1>1 DEF Refs, Reference
  <2> QED BY <2>1
<1>2. ASSUME NEW n \in Rounds, NEW a \in PatchAgents
      PROVE  Reference(n, Price(a)) \in Refs /\ Reference(n, Price(a)).round = n
  <2>1. Price(a) \in Prices
    BY DEF Prices
  <2> QED BY <2>1 DEF Refs, Reference
<1> QED BY <1>1, <1>2

LEMMA AskParts ==
    ASSUME NEW m \in Asks
    PROVE  /\ m.verb = "ESCROW_REQUIRED" /\ m.round \in Rounds
           /\ m.ref \in Refs /\ m.ref.round = m.round
           /\ m.seller = AgentWallet /\ m.amount \in Nat
<1>1. PICK n \in Rounds, a \in PatchAgents :
         m = EscrowRequired(n, Reference(n, Price(a)), AgentWallet, Price(a), "arbiter")
  BY DEF Asks
<1> QED BY <1>1, RefsRound, PriceNat DEF EscrowRequired

\* What the messages are made of.
LEMMA Kinds ==
    ASSUME NEW m \in Messages
    PROVE  /\ m.round \in Nat /\ (m.verb # "ERROR" => m.round \in Rounds)
           /\ m.verb = "BID" => [by |-> m.by, price |-> m.price] \in Offers
           /\ m.verb = "ESCROW_REQUIRED" => m \in Asks
           /\ m.verb = "DEPOSITED" => m.ref \in Refs /\ m.ref.round = m.round
           /\ m.verb \in {"DELIVERED", "VERIFY"} =>
                 m.payload \in Payloads /\ m.payload.ref \in Refs /\ m.payload.ref.round = m.round
<1>1. CASE m \in {[verb |-> "EXPLOIT_DETECTED", round |-> n] : n \in Rounds}
  BY <1>1, RoundNat
<1>2. CASE m \in {Want(n, Budget) : n \in Rounds}
  BY <1>2, RoundNat DEF Want
<1>3. CASE m \in {Bid(n, Price(a), a) : n \in Rounds, a \in PatchAgents}
  BY <1>3, RoundNat DEF Bid, Offers
<1>4. CASE m \in {Award(n, a) : n \in Rounds, a \in PatchAgents}
  BY <1>4, RoundNat DEF Award
<1>5. CASE m \in Asks
  BY <1>5, RoundNat, AskParts
<1>6. CASE m \in {Deposited(r.round, r, "arbiter") : r \in Refs}
  <2>1. PICK r \in Refs : m = Deposited(r.round, r, "arbiter")
    BY <1>6
  <2> QED BY <2>1, RoundNat, RefsRound DEF Deposited
<1>7. CASE m \in {Delivered(p.ref.round, p) : p \in Payloads}
  <2>1. PICK p \in Payloads : m = Delivered(p.ref.round, p)
    BY <1>7
  <2>2. p.ref \in Refs
    BY DEF Payloads
  <2> QED BY <2>1, <2>2, RoundNat, RefsRound DEF Delivered
<1>8. CASE m \in {Verify(p.ref.round, p) : p \in Payloads}
  <2>1. PICK p \in Payloads : m = Verify(p.ref.round, p)
    BY <1>8
  <2>2. p.ref \in Refs
    BY DEF Payloads
  <2> QED BY <2>1, <2>2, RoundNat, RefsRound DEF Verify
<1>9. CASE m \in {Verified(n, v) : n \in Rounds, v \in {"pass", "fail"}}
  BY <1>9, RoundNat DEF Verified
<1>10. CASE m \in {Released(n) : n \in Rounds}
  BY <1>10, RoundNat DEF Released
<1>11. CASE m = Error
  BY <1>11 DEF Error
<1> QED BY <1>1, <1>2, <1>3, <1>4, <1>5, <1>6, <1>7, <1>8, <1>9, <1>10, <1>11 DEF Messages
-----------------------------------------------------------------------------
(* Mailboxes. *)

\* A mailbox of which all may be heard after the step.
Heard(box) ==
    /\ box \in [Agents -> Seq(Messages)]
    /\ \A a \in Agents : \A m \in Letters(box, a) : MayHear(m)'

LEMMA PostHeard ==
    ASSUME NEW box, Heard(box), NEW to, NEW m \in Messages, MayHear(m)'
    PROVE  Heard(Post(box, to, m))
<1> DEFINE new == Post(box, to, m)
<1>1. /\ box \in [Agents -> Seq(Messages)] /\ DOMAIN box = Agents
      /\ \A a \in Agents : \A w \in Letters(box, a) : MayHear(w)'
  BY DEF Heard
<1>2. \A a \in Agents : new[a] = IF a \in to THEN Append(box[a], m) ELSE box[a]
  BY <1>1 DEF Post
<1>3. new \in [Agents -> Seq(Messages)]
  BY <1>1, AppendProperties DEF Post
<1>4. ASSUME NEW a \in Agents, NEW i \in DOMAIN new[a]
      PROVE  new[a][i] = m \/ new[a][i] \in Letters(box, a)
  <2>1. CASE a \notin to
    BY <1>2, <1>4, <2>1 DEF Letters
  <2>2. CASE a \in to
    <3>1. new[a] = Append(box[a], m)
      BY <1>2, <2>2
    <3>2. /\ box[a] \in Seq(Messages) /\ Len(box[a]) \in Nat /\ DOMAIN box[a] = 1..Len(box[a])
          /\ DOMAIN Append(box[a], m) = 1..(Len(box[a]) + 1)
          /\ \A j \in 1..Len(box[a]) : Append(box[a], m)[j] = box[a][j]
          /\ Append(box[a], m)[Len(box[a]) + 1] = m
      <4>1. box[a] \in Seq(Messages) /\ Append(box[a], m) \in Seq(Messages)
        BY <1>1, AppendProperties
      <4> QED BY <4>1, LenProperties, AppendProperties
    <3>3. i \in 1..Len(box[a]) \/ i = Len(box[a]) + 1
      BY <1>4, <3>1, <3>2
    <3> HIDE DEF new
    <3> QED BY <3>1, <3>2, <3>3 DEF Letters
  <2> QED BY <2>1, <2>2
<1> HIDE DEF new
<1>5. \A a \in Agents : \A w \in Letters(new, a) : w = m \/ w \in Letters(box, a)
  BY <1>4 DEF Letters
<1> QED BY <1>1, <1>3, <1>5 DEF Heard, new

\* A wait returns one of the mentions, and leaves what it did not read.
LEMMA HeadLetter ==
    ASSUME NEW a, mail[a] \in Seq(Messages), mail[a] # <<>>
    PROVE  Head(mail[a]) \in Letters(mail, a)
<1>1. 1 \in DOMAIN mail[a] /\ Head(mail[a]) = mail[a][1]
  <2>1. Len(mail[a]) \in Nat \ {0}
    BY LenProperties, EmptySeq
  <2> QED BY <2>1, LenProperties
<1> QED BY <1>1 DEF Letters

LEMMA UnreadLetters ==
    ASSUME mail \in [Agents -> Seq(Messages)], NEW a \in Agents, NEW k \in Batches(a),
           mail[a] # <<>>
    PROVE  /\ Unread(a, k) \in [Agents -> Seq(Messages)]
           /\ \A b \in Agents : Letters(Unread(a, k), b) \subseteq Letters(mail, b)
<1> DEFINE q == mail[a]
           rest == SubSeq(q, k + 1, Len(q))
<1>1. /\ q \in Seq(Messages) /\ Len(q) \in Nat \ {0} /\ DOMAIN q = 1..Len(q)
      /\ k \in Nat /\ k <= Len(q)
  BY FlashPatchAssumption, LenProperties, EmptySeq DEF Batches
<1>2. \A i \in (k + 1)..Len(q) : q[i] \in Messages
  BY <1>1, ElementOfSeq
<1> HIDE DEF q
<1>3. /\ rest \in Seq(Messages)
      /\ \A i \in 1..Len(rest) : rest[i] = q[k + i] /\ k + i \in DOMAIN q
  <2>1. k + 1 \in Int /\ Len(q) \in Int
    BY <1>1
  <2>2. /\ rest \in Seq(Messages)
        /\ Len(rest) = IF k + 1 <= Len(q) THEN Len(q) - (k + 1) + 1 ELSE 0
        /\ \A i \in 1..(Len(q) - (k + 1) + 1) : rest[i] = q[(k + 1) + i - 1]
    BY <1>2, <2>1, SubSeqProperties
  <2> HIDE DEF rest
  <2>3. ASSUME NEW i \in 1..Len(rest)
        PROVE  /\ i \in 1..(Len(q) - (k + 1) + 1) /\ (k + 1) + i - 1 = k + i
               /\ k + i \in 1..Len(q)
    <3>1. CASE k + 1 <= Len(q)
      <4>1. Len(rest) = Len(q) - (k + 1) + 1
        BY <2>2, <3>1
      <4> QED BY <1>1, <2>3, <4>1
    <3>2. CASE ~(k + 1 <= Len(q))
      <4>1. Len(rest) = 0
        BY <2>2, <3>2
      <4> QED BY <2>3, <4>1
    <3> QED BY <3>1, <3>2
  <2> QED BY <1>1, <2>2, <2>3
<1>4. \A i \in DOMAIN rest : \E j \in DOMAIN q : rest[i] = q[j]
  <2>1. DOMAIN rest = 1..Len(rest)
    BY <1>3, LenProperties
  <2> HIDE DEF rest
  <2> QED BY <1>3, <2>1
<1>5. Unread(a, k) = [mail EXCEPT ![a] = rest]
  BY DEF Unread, q
<1> HIDE DEF rest
<1>6. /\ Unread(a, k) \in [Agents -> Seq(Messages)]
      /\ Unread(a, k)[a] = rest
      /\ \A b \in Agents \ {a} : Unread(a, k)[b] = mail[b]
  BY <1>3, <1>5
<1>7. ASSUME NEW b \in Agents PROVE Letters(Unread(a, k), b) \subseteq Letters(mail, b)
  <2>1. CASE b = a
    BY <1>4, <1>6, <2>1 DEF Letters, q
  <2>2. CASE b # a
    BY <1>6, <2>2 DEF Letters
  <2> QED BY <2>1, <2>2
<1> QED BY <1>6, <1>7

LEMMA WaitHeard ==
    ASSUME Heard(mail), NEW a \in Agents, NEW k \in Batches(a), mail[a] # <<>>
    PROVE  Heard(Unread(a, k))
BY UnreadLetters DEF Heard
-----------------------------------------------------------------------------
(* The most expensive bid. *)

\* Numbers of a set have a least one.
LEMMA LeastNat ==
    ASSUME NEW T \in SUBSET Nat, T # {}
    PROVE  \E x \in T : \A y \in T : x <= y
<1>1. PICK x \in T : \A y \in T : ~(<<y, x>> \in OpToRel(<, Nat))
  BY NatLessThanWellFounded, WFMin
<1>2. \A y \in T : ~(y < x)
  BY <1>1 DEF OpToRel
<1> QED BY <1>2

\* Among places of a sequence of numbers there is one of a greatest number: else there
\* would be a first place up to which there is none.
LEMMA Greatest ==
    ASSUME NEW n \in Nat, NEW J \in SUBSET (1..n), J # {}, NEW f, \A j \in J : f[j] \in Nat
    PROVE  \E i \in J : \A j \in J : f[j] <= f[i]
<1> DEFINE Tops(k) == \E i \in J : i <= k /\ \A j \in J : j <= k => f[j] <= f[i]
           Bad == {k \in 1..n : (\E j \in J : j <= k) /\ ~Tops(k)}
<1>1. \A j \in J : j \in Nat /\ 1 <= j /\ j <= n
  OBVIOUS
<1>2. Bad = {}
  <2> SUFFICES ASSUME Bad # {} PROVE FALSE
    OBVIOUS
  <2>1. PICK k \in Bad : \A l \in Bad : k <= l
    <3>1. Bad \in SUBSET Nat
      OBVIOUS
    <3> HIDE DEF Bad
    <3> QED BY <3>1, LeastNat
  <2>2. k \in 1..n /\ ~Tops(k)
    BY <2>1
  <2>3. PICK j0 \in J : j0 <= k
    BY <2>1
  <2>4. CASE \E j \in J : j < k
    <3>1. k - 1 \in 1..n /\ \E j \in J : j <= k - 1
      BY <1>1, <2>2, <2>4
    <3>2. k - 1 \notin Bad
      <4> HIDE DEF Bad
      <4> QED BY <2>1, <2>2
    <3>3. Tops(k - 1)
      BY <3>1, <3>2
    <3>4. PICK i \in J : i <= k - 1 /\ \A j \in J : j <= k - 1 => f[j] <= f[i]
      BY <3>3
    <3>5. i <= k /\ f[i] \in Nat
      BY <1>1, <2>2, <3>4
    <3>6. CASE k \notin J
      <4>1. ASSUME NEW j \in J, j <= k PROVE j <= k - 1
        <5>1. j # k /\ j \in Nat /\ k \in Nat
          BY <1>1, <2>2, <3>6
        <5> QED BY <4>1, <5>1
      <4> QED BY <2>2, <3>4, <3>5, <4>1
    <3>7. CASE k \in J /\ f[k] <= f[i]
      <4>1. \A j \in J : j <= k => j <= k - 1 \/ j = k
        BY <1>1, <2>2
      <4> QED BY <2>2, <3>4, <3>5, <3>7, <4>1
    <3>8. CASE k \in J /\ ~(f[k] <= f[i])
      <4>1. f[k] \in Nat /\ f[i] < f[k]
        BY <3>5, <3>8
      <4>2. ASSUME NEW j \in J, j <= k PROVE f[j] <= f[k]
        <5>1. j <= k - 1 \/ j = k
          BY <1>1, <2>2, <4>2
        <5>2. f[j] \in Nat
          OBVIOUS
        <5> QED BY <3>4, <3>5, <4>1, <5>1, <5>2
      <4> QED BY <2>2, <3>8, <4>2
    <3> QED BY <3>6, <3>7, <3>8
  <2>5. CASE \A j \in J : ~(j < k)
    <3>1. \A j \in J : j <= k => j = k
      BY <1>1, <2>2, <2>5
    <3>2. j0 = k /\ f[k] <= f[k]
      <4>1. j0 = k
        BY <2>3, <3>1
      <4>2. f[k] \in Nat
        BY <4>1
      <4> QED BY <4>1, <4>2
    <3> QED BY <2>2, <2>3, <3>1, <3>2
  <2> QED BY <2>4, <2>5
<1>3. n \in 1..n /\ \E j \in J : j <= n
  <2>1. PICK j \in J : TRUE
    OBVIOUS
  <2>2. j \in Nat /\ 1 <= j /\ j <= n
    BY <1>1
  <2> QED BY <2>2
<1>4. Tops(n)
  BY <1>2, <1>3
<1> QED BY <1>1, <1>4

\* The detector keeps one of the bids it was sent, whoever they are from.
LEMMA MostExpensiveOffer ==
    ASSUME NEW received \in Seq(Offers), received # <<>>
    PROVE  MostExpensive(received) \in Offers
<1> DEFINE D == DOMAIN received
           J == {j \in D : \A k \in D : k > j => received[k].by # received[j].by}
           P(i) == Place(received, received[i].by)
<1>1. D = 1..Len(received) /\ Len(received) \in Nat \ {0}
  BY LenProperties, EmptySeq
<1>2. \A i \in D : received[i] \in Offers
  BY <1>1, ElementOfSeq
<1>3. \A o \in Offers : o.price \in Nat
  BY PriceNat DEF Offers
<1>4. J \in SUBSET (1..Len(received)) /\ Len(received) \in J
  BY <1>1
<1>5. SelectBids(received) = {received[i] : i \in J}
  BY DEF SelectBids
<1>6. ASSUME NEW i \in D PROVE P(i) \in Nat
  <2> DEFINE S == {k \in D : received[k].by = received[i].by}
  <2>1. PICK k \in S : \A l \in S : k <= l
    <3>1. S \in SUBSET Nat /\ S # {}
      BY <1>1
    <3> HIDE DEF S
    <3> QED BY <3>1, LeastNat
  <2>2. \A l \in 1..(k - 1) : received[l].by # received[i].by
    <3> SUFFICES ASSUME NEW l \in 1..(k - 1), received[l].by = received[i].by PROVE FALSE
      OBVIOUS
    <3>1. l \in D /\ ~(k <= l)
      BY <1>1, <2>1
    <3> QED BY <2>1, <3>1
  <2>3. P(i) \in D
    BY <2>1, <2>2 DEF Place
  <2> QED BY <1>1, <2>3
<1> DEFINE f == [j \in J |-> received[j].price]
<1>7. PICK m \in J : \A j \in J : received[j].price <= received[m].price
  <2>1. \A j \in J : f[j] = received[j].price /\ f[j] \in Nat
    BY <1>2, <1>3
  <2>2. J # {}
    BY <1>4
  <2> HIDE DEF J, f
  <2>3. \E i \in J : \A j \in J : f[j] <= f[i]
    BY <1>1, <1>4, <2>1, <2>2, Greatest
  <2> QED BY <2>1, <2>3
<1> DEFINE K == {j \in J : received[j].price = received[m].price}
<1>8. PICK b \in K : \A j \in K : P(b) <= P(j)
  <2> DEFINE S == {P(j) : j \in K}
  <2>1. S \in SUBSET Nat /\ S # {}
    <3>1. \A j \in K : j \in D
      OBVIOUS
    <3> HIDE DEF P, D
    <3> QED BY <1>6, <3>1
  <2>2. PICK x \in S : \A y \in S : x <= y
    <3> HIDE DEF S
    <3> QED BY <2>1, LeastNat
  <2> HIDE DEF P, K
  <2> QED BY <2>2
<1>9. ASSUME NEW j \in J
      PROVE  \/ received[j].price < received[b].price
             \/ received[j].price = received[b].price /\ P(b) <= P(j)
  <2>1. received[j].price <= received[b].price
    BY <1>7, <1>8
  <2>2. received[j].price \in Nat /\ received[b].price \in Nat
    BY <1>2, <1>3
  <2>3. received[j].price = received[b].price => j \in K
    BY <1>8
  <2> HIDE DEF P, K
  <2> QED BY <1>8, <2>1, <2>2, <2>3
<1>10. \E o \in SelectBids(received) : \A c \in SelectBids(received) :
          \/ c.price < o.price
          \/ c.price = o.price /\ Place(received, o.by) <= Place(received, c.by)
  <2>1. received[b] \in SelectBids(received)
    BY <1>5
  <2> HIDE DEF J
  <2> QED BY <1>5, <1>9, <2>1
<1>11. MostExpensive(received) \in SelectBids(received)
  BY <1>10 DEF MostExpensive
<1> QED BY <1>2, <1>5, <1>11
-----------------------------------------------------------------------------
(* What a step leaves as it was. *)

LEMMA AgentNames ==
    /\ PatchAgents \subseteq Agents /\ DetectorName \in Agents
    /\ VerifierName \in Agents /\ DeployerName \in Agents
BY DEF Agents

\* What may be heard or worked on stays so.
StillMayHear ==
    /\ \A m \in Messages : MayHear(m) => MayHear(m)'
    /\ \A ref \in Refs : MayWork(ref) => MayWork(ref)'

\* The detector goes on with its round, or ends it.
GoesOn ==
    /\ round' = round /\ attested \subseteq attested'
    /\ pc' = "bidding" => pc = "bidding"
    /\ pc' \in Awarding => pc \in Awarding /\ winner' = winner
    /\ pc' \in Seen => pc \in Seen /\ terms' = terms
    /\ pc \in Seen \cup {"watching"} => pc' \in Seen \cup {"watching"}

LEMMA GoesOnHears == ASSUME GoesOn PROVE StillMayHear
<1>1. ASSUME NEW n, NEW ref, Follows(n, ref) PROVE Follows(n, ref)'
  BY <1>1 DEF Follows, GoesOn
<1>2. ASSUME NEW m \in Messages, MayHear(m) PROVE MayHear(m)'
  BY <1>1, <1>2 DEF MayHear, GoesOn
<1>3. ASSUME NEW ref \in Refs, MayWork(ref) PROVE MayWork(ref)'
  BY <1>1, <1>3 DEF MayWork, GoesOn
<1> QED BY <1>2, <1>3 DEF StillMayHear

LEMMA MailHeard ==
    ASSUME IInv, StillMayHear
    PROVE  /\ Heard(mail)
           /\ \A a \in PatchAgents : \A ref \in working[a] : MayWork(ref)'
<1>1. ASSUME NEW a \in Agents, NEW m \in Letters(mail, a) PROVE m \in Messages /\ MayHear(m)
  <2>1. mail[a] \in Seq(Messages)
    BY DEF IInv, WorldTypes
  <2>2. m \in Messages
    BY <2>1, ElementOfSeq, LenProperties DEF Letters
  <2> QED BY <2>2 DEF IInv, Hearing
<1>2. Heard(mail)
  BY <1>1 DEF Heard, IInv, WorldTypes, StillMayHear
<1>3. ASSUME NEW a \in PatchAgents, NEW ref \in working[a] PROVE MayWork(ref)'
  <2>1. ref \in Refs /\ MayWork(ref)
    BY DEF IInv, WorldTypes, Hearing
  <2> QED BY <2>1 DEF StillMayHear
<1> QED BY <1>2, <1>3

\* A mention that is read may be heard.
LEMMA Read ==
    ASSUME IInv, NEW a \in Agents, NEW m \in Letters(mail, a)
    PROVE  m \in Messages /\ MayHear(m)
<1>1. mail[a] \in Seq(Messages)
  BY DEF IInv, WorldTypes
<1>2. m \in Messages
  BY <1>1, ElementOfSeq, LenProperties DEF Letters
<1> QED BY <1>2 DEF IInv, Hearing

LEMMA HearingKept ==
    ASSUME Heard(mail'), \A a \in PatchAgents : \A ref \in working'[a] : MayWork(ref)'
    PROVE  Hearing'
BY DEF Heard, Hearing

\* The steps of the others leave the detector where it is.
LEMMA DetectorStays ==
    ASSUME IInv, UNCHANGED <<order, detectorVars>>, attested \subseteq attested'
    PROVE  DetectorTypes' /\ Bargain' /\ OrdersOfRounds' /\ GoesOn
<1>1. UNCHANGED <<order, inEmergency, pc, round, bids, winner, terms>>
  BY DEF detectorVars, locals
<1>2. DetectorTypes'
  BY <1>1 DEF IInv, DetectorTypes
<1>3. Bargain'
  BY <1>1 DEF IInv, Bargain
<1>4. OrdersOfRounds'
  BY <1>1 DEF IInv, OrdersOfRounds, Locked
<1> QED BY <1>1, <1>2, <1>3, <1>4 DEF GoesOn

LEMMA EndRoundKeeps ==
    ASSUME IInv, EndRound, attested' = attested,
           \A r \in Refs : Locked(r)' => r.round <= round
    PROVE  DetectorTypes' /\ Bargain' /\ OrdersOfRounds' /\ GoesOn
<1>1. pc' = "watching" /\ inEmergency' = FALSE /\ round' = round /\ bids' = <<>>
  BY DEF EndRound, NoLocals
<1>2. DetectorTypes'
  BY <1>1, EmptySeq DEF IInv, DetectorTypes, Awarding
<1>3. Bargain'
  BY <1>1 DEF Bargain, Settling
<1>4. OrdersOfRounds'
  BY <1>1 DEF OrdersOfRounds, BeforeDeposit
<1>5. GoesOn
  BY <1>1 DEF GoesOn, Awarding, Seen
<1> QED BY <1>2, <1>3, <1>4, <1>5

\* A round that ends without a transaction.
LEMMA EndsQuietly ==
    ASSUME IInv, EndRound, UNCHANGED <<order, attested>>
    PROVE  DetectorTypes' /\ Bargain' /\ OrdersOfRounds' /\ GoesOn
<1>1. \A r \in Refs : Locked(r)' => r.round <= round
  BY DEF IInv, OrdersOfRounds, Locked
<1> QED BY <1>1, EndRoundKeeps
-----------------------------------------------------------------------------
(* The detector's steps. *)

LEMMA InitIInv == Init => IInv
<1> SUFFICES ASSUME Init PROVE IInv
  OBVIOUS
<1>1. /\ pc = "watching" /\ inEmergency = FALSE /\ round = 0 /\ bids = <<>>
      /\ now = 0 /\ attested = {}
      /\ order = [o \in {AgentWallet, DetectorWallet, Vaults} |-> [r \in Refs |-> None]]
      /\ \A a \in PatchAgents : working[a] = {}
      /\ mail = [a \in Agents |-> <<>>]
  BY DEF Init, Rail!Init
<1>2. WorldTypes
  BY <1>1, EmptySeq DEF Init, WorldTypes
<1>3. DetectorTypes
  <2>1. round \in 0..MaxRound /\ bids \in Seq(Offers)
    BY <1>1, EmptySeq, FlashPatchAssumption
  <2>2. inEmergency = (pc # "watching")
    BY <1>1
  <2> QED BY <1>1, <2>1, <2>2 DEF DetectorTypes, Awarding
<1>4. Bargain
  BY <1>1 DEF Bargain, Settling
<1>5. OrdersOfRounds
  BY <1>1 DEF OrdersOfRounds, Locked
<1>6. \A a \in Agents : Letters(mail, a) = {}
  BY <1>1 DEF Letters
<1>7. Hearing
  BY <1>1, <1>6 DEF Hearing
<1> QED BY <1>2, <1>3, <1>4, <1>5, <1>7 DEF IInv

LEMMA RaiseKeeps == ASSUME IInv, Raise PROVE IInv'
<1>1. /\ pc = "watching" /\ pc' = "bidding" /\ round' = round + 1 /\ inEmergency' = TRUE
      /\ bids' = <<>> /\ round \in Nat /\ round' \in Rounds
      /\ UNCHANGED <<order, now, quoted, awarded, working, attested>>
  BY FlashPatchAssumption
     DEF Raise, NoLocals, IInv, DetectorTypes, Rounds, rail, agentVars
<1>2. \A n \in Nat : n <= round => n <= round' /\ n # round'
  BY <1>1
<1>3. StillMayHear
  <2>1. ASSUME NEW m \in Messages, MayHear(m) PROVE MayHear(m)'
    <3>1. m.round <= round' /\ m.round # round'
      BY <1>2, <2>1, Kinds DEF MayHear
    <3> QED BY <3>1 DEF MayHear, Follows
  <2>2. ASSUME NEW ref \in Refs, MayWork(ref) PROVE MayWork(ref)'
    <3>1. ref.round <= round' /\ ref.round # round'
      BY <1>2, <2>2, RefsRound, RoundNat DEF MayWork
    <3> QED BY <3>1 DEF MayWork, Follows
  <2> QED BY <2>1, <2>2 DEF StillMayHear
<1>4. PICK e, w : /\ e = [verb |-> "EXPLOIT_DETECTED", round |-> round + 1]
                  /\ w = Want(round + 1, Budget)
  OBVIOUS
<1>5. /\ e \in Messages /\ w \in Messages
      /\ e.round = round' /\ w.round = round'
      /\ e.verb = "EXPLOIT_DETECTED" /\ w.verb = "WANT"
  BY <1>1, <1>4 DEF Messages, Want
<1>6. round' <= round'
  BY <1>1
<1>7. MayHear(e)' /\ MayHear(w)'
  BY <1>5, <1>6 DEF MayHear
<1>8. PICK box : box = Post(mail, hired \cup {VerifierName, DeployerName}, e)
  OBVIOUS
<1>9. Heard(box)
  BY <1>3, <1>5, <1>7, <1>8, MailHeard, PostHeard
<1>10. mail' = Post(box, hired, w)
  BY <1>4, <1>8 DEF Raise
<1>11. Heard(mail')
  BY <1>5, <1>7, <1>9, <1>10, PostHeard
<1>12. Hearing'
  BY <1>1, <1>3, <1>11, MailHeard, HearingKept
<1>13. WorldTypes'
  BY <1>1, <1>11 DEF IInv, WorldTypes, Heard
<1>14. DetectorTypes'
  <2>1. round' \in 0..MaxRound /\ bids' \in Seq(Offers)
    BY <1>1, EmptySeq, FlashPatchAssumption DEF Rounds
  <2>2. inEmergency' = (pc' # "watching")
    BY <1>1
  <2> QED BY <1>1, <2>1, <2>2 DEF DetectorTypes, Awarding
<1>15. Bargain'
  BY <1>1 DEF Bargain, Settling
<1>16. OrdersOfRounds'
  <2> SUFFICES ASSUME NEW r \in Refs, Locked(r) PROVE r.round <= round' /\ r.round < round'
    BY <1>1 DEF OrdersOfRounds, Locked
  <2>1. r.round \in Nat /\ r.round <= round
    BY RefsRound, RoundNat DEF IInv, OrdersOfRounds
  <2> QED BY <1>1, <2>1
<1> QED BY <1>12, <1>13, <1>14, <1>15, <1>16 DEF IInv

\* What a policy that allows a deposit has checked, of the amount.
LEMMA Allowed ==
    ASSUME NEW m, m.amount \in Nat, winner \in Offers,
           MayDeposit([amount |-> m.amount, awarded |-> winner.price,
                       service |-> "emergency_patch", payout |-> m.seller, spent |-> 0,
                       lastDepositAt |-> Unset, now |-> now], policy)
    PROVE  m.amount <= Budget
<1>1. policy.maxPerRound = Budget /\ Budget # Unset
  BY FlashPatchAssumption DEF policy, PolicyFromEnv, OrElse, EnvNumber, Given
<1> QED BY <1>1 DEF MayDeposit, WithinRoundCap, Given

LEMMA ReceiveKeeps ==
    ASSUME IInv, pc \in {"bidding", "terms", "delivery", "verdict"},
           NEW m \in Letters(mail, DetectorName), NEW box,
           StillMayHear => Heard(box),
           UNCHANGED <<rail, agentVars, attested>>,
           \/ Ignore(m, box) \/ ReceiveBid(m, box) \/ ReceiveTerms(m, box)
           \/ ReceiveDelivery(m, box) \/ ReceiveVerdict(m, box)
    PROVE  IInv'
<1>1. m \in Messages /\ MayHear(m)
  BY AgentNames, Read
<1>2. UNCHANGED <<order, now, quoted, awarded, working, attested>>
  BY DEF rail, agentVars
<1>3. ASSUME DetectorTypes', Bargain', OrdersOfRounds', GoesOn, StillMayHear => Heard(mail')
      PROVE  IInv'
  <2>1. StillMayHear
    BY <1>3, GoesOnHears
  <2>2. Hearing'
    BY <1>2, <1>3, <2>1, MailHeard, HearingKept
  <2>3. WorldTypes'
    BY <1>2, <1>3, <2>1 DEF IInv, WorldTypes, Heard
  <2> QED BY <1>3, <2>2, <2>3 DEF IInv
<1>4. CASE Ignore(m, box)
  BY <1>2, <1>3, <1>4, DetectorStays DEF Ignore
<1>5. ASSUME EndRound, mail' = box PROVE IInv'
  BY <1>2, <1>3, <1>5, EndsQuietly
<1>6. OrdersOfRounds => \A r \in Refs : Locked(r)' => r.round <= round
  BY <1>2 DEF OrdersOfRounds, Locked
<1>7. CASE ReceiveBid(m, box)
  <2>1. /\ pc = "bidding" /\ m.verb = "BID" /\ mail' = box
        /\ UNCHANGED <<inEmergency, pc, round, winner, terms>>
        /\ bids' = Append(bids, [by |-> m.by, price |-> m.price])
    BY <1>7 DEF ReceiveBid, Expects, Awaited
  <2>2. [by |-> m.by, price |-> m.price] \in Offers
    BY <1>1, <2>1, Kinds
  <2>3. bids' \in Seq(Offers)
    BY <2>1, <2>2, AppendProperties DEF IInv, DetectorTypes
  <2>4. DetectorTypes'
    BY <2>1, <2>3 DEF IInv, DetectorTypes
  <2>5. Bargain' /\ OrdersOfRounds'
    BY <1>2, <2>1 DEF IInv, Bargain, OrdersOfRounds, Locked
  <2>6. GoesOn
    BY <1>2, <2>1 DEF GoesOn
  <2> QED BY <1>3, <2>1, <2>4, <2>5, <2>6
<1>8. CASE ReceiveTerms(m, box)
  <2>1. pc = "terms" /\ m.verb = "ESCROW_REQUIRED" /\ m.round = round /\ mail' = box
    BY <1>8 DEF ReceiveTerms, Expects, Awaited
  <2>2. m \in Asks /\ m.amount \in Nat /\ m.ref.round = round
    BY <1>1, <2>1, Kinds, AskParts
  <2>3. winner \in Offers /\ m.amount = winner.price
    BY <1>1, <2>1 DEF MayHear, Awarding, IInv, DetectorTypes
  <2>4. CASE EndRound
    BY <1>5, <2>1, <2>4
  <2>5. CASE ~EndRound
    <3>1. /\ pc' = "deposit" /\ terms' = m
          /\ UNCHANGED <<inEmergency, round, bids, winner>>
          /\ m.amount <= Budget
      BY <1>8, <2>2, <2>3, <2>5, Allowed DEF ReceiveTerms
    <3>2. DetectorTypes'
      <4>1. inEmergency' = (pc' # "watching")
        BY <2>1, <3>1 DEF IInv, DetectorTypes
      <4> QED BY <2>1, <2>3, <3>1, <4>1 DEF IInv, DetectorTypes, Awarding
    <3>3. Bargain'
      BY <2>2, <2>3, <3>1 DEF Bargain, Settling
    <3>4. OrdersOfRounds'
      BY <1>2, <2>1, <3>1 DEF IInv, OrdersOfRounds, Locked, BeforeDeposit
    <3>5. GoesOn
      BY <1>2, <2>1, <3>1 DEF GoesOn, Awarding, Seen
    <3> QED BY <1>3, <2>1, <3>2, <3>3, <3>4, <3>5
  <2> QED BY <2>4, <2>5
<1>9. CASE ReceiveDelivery(m, box)
  <2>1. PICK v : v = Verify(round, m.payload)
    OBVIOUS
  <2>2. /\ pc = "delivery" /\ m.verb = "DELIVERED" /\ m.round = round
        /\ pc' = "verdict" /\ mail' = Post(box, {VerifierName}, v)
        /\ UNCHANGED <<inEmergency, round, bids, winner, terms>>
    BY <1>9, <2>1 DEF ReceiveDelivery, Expects, Awaited, locals
  <2>3. m.payload \in Payloads /\ m.payload.ref.round = round
    BY <1>1, <2>2, Kinds
  <2>4. DetectorTypes'
    <3>1. inEmergency' = (pc' # "watching")
      BY <2>2 DEF IInv, DetectorTypes
    <3> QED BY <2>2, <3>1 DEF IInv, DetectorTypes, Awarding
  <2>5. Bargain'
    BY <2>2 DEF IInv, Bargain, Settling
  <2>6. OrdersOfRounds'
    BY <1>2, <2>2 DEF IInv, OrdersOfRounds, Locked, BeforeDeposit
  <2>7. GoesOn
    BY <1>2, <2>2 DEF GoesOn, Awarding, Seen
  <2>8. v \in Messages /\ v.verb = "VERIFY" /\ v.round = round /\ v.payload = m.payload
    BY <2>1, <2>3 DEF Messages, Verify
  <2>9. MayHear(v)'
    <3>1. m.payload.ref = terms.ref
      BY <1>1, <2>2 DEF MayHear, Follows, Seen
    <3>2. round' <= round'
      BY <2>2, FlashPatchAssumption DEF IInv, DetectorTypes
    <3> QED BY <2>2, <2>8, <3>1, <3>2 DEF MayHear, Follows, Seen
  <2>10. StillMayHear => Heard(mail')
    BY <2>2, <2>8, <2>9, PostHeard
  <2> QED BY <1>3, <2>4, <2>5, <2>6, <2>7, <2>10
<1>10. CASE ReceiveVerdict(m, box)
  <2>1. pc = "verdict" /\ m.verb = "VERIFIED" /\ m.round = round /\ mail' = box
    BY <1>10 DEF ReceiveVerdict, Expects, Awaited
  <2>2. CASE EndRound
    BY <1>5, <2>1, <2>2
  <2>3. CASE ~EndRound
    <3>1. /\ pc' = "release" /\ UNCHANGED <<inEmergency, round, bids, winner, terms>>
          /\ MayRelease(m.verdict, policy)
      BY <1>10, <2>3 DEF ReceiveVerdict, locals
    <3>2. terms.ref \in attested
      BY <1>1, <2>1, <3>1 DEF MayHear, Seen, MayRelease, policy, PolicyFromEnv
    <3>3. DetectorTypes'
      <4>1. inEmergency' = (pc' # "watching")
        BY <2>1, <3>1 DEF IInv, DetectorTypes
      <4> QED BY <2>1, <3>1, <4>1 DEF IInv, DetectorTypes, Awarding
    <3>4. Bargain'
      BY <1>2, <2>1, <3>1, <3>2 DEF IInv, Bargain, Settling
    <3>5. OrdersOfRounds'
      BY <1>2, <2>1, <3>1 DEF IInv, OrdersOfRounds, Locked, BeforeDeposit
    <3>6. GoesOn
      BY <1>2, <2>1, <3>1 DEF GoesOn, Awarding, Seen
    <3> QED BY <1>3, <2>1, <3>3, <3>4, <3>5, <3>6
  <2> QED BY <2>2, <2>3
<1> QED BY <1>4, <1>7, <1>8, <1>9, <1>10

LEMMA DetectorReceivesKeeps == ASSUME IInv, DetectorReceives PROVE IInv'
<1>1. PICK k, box :
         /\ k \in Batches(DetectorName)
         /\ Wait(DetectorName, k) /\ box = Unread(DetectorName, k)
         /\ \/ Ignore(Head(mail[DetectorName]), box)
            \/ ReceiveBid(Head(mail[DetectorName]), box)
            \/ ReceiveTerms(Head(mail[DetectorName]), box)
            \/ ReceiveDelivery(Head(mail[DetectorName]), box)
            \/ ReceiveVerdict(Head(mail[DetectorName]), box)
  BY DEF DetectorReceives
<1>2. mail[DetectorName] # <<>>
  BY <1>1 DEF Wait
<1>3. StillMayHear => Heard(box)
  BY <1>1, <1>2, AgentNames, MailHeard, WaitHeard
<1>4. Head(mail[DetectorName]) \in Letters(mail, DetectorName)
  BY <1>2, AgentNames, HeadLetter DEF IInv, WorldTypes
<1>5. pc \in {"bidding", "terms", "delivery", "verdict"} /\ UNCHANGED <<rail, agentVars, attested>>
  BY DEF DetectorReceives
<1> QED BY <1>1, <1>3, <1>4, <1>5, ReceiveKeeps

LEMMA CloseBidsKeeps == ASSUME IInv, CloseBids PROVE IInv'
<1>1. pc = "bidding" /\ UNCHANGED <<order, now, quoted, awarded, working, attested>>
  BY DEF CloseBids, rail, agentVars
<1>2. CASE EndRound /\ UNCHANGED mail
  <2>1. DetectorTypes' /\ Bargain' /\ OrdersOfRounds' /\ StillMayHear
    BY <1>1, <1>2, EndsQuietly, GoesOnHears
  <2>2. Hearing' /\ WorldTypes'
    BY <1>1, <1>2, <2>1, MailHeard, HearingKept DEF IInv, WorldTypes
  <2> QED BY <2>1, <2>2 DEF IInv
<1>3. CASE ~(EndRound /\ UNCHANGED mail)
  <2>1. PICK aw : aw = Award(round, winner'.by)
    OBVIOUS
  <2>2. /\ bids # <<>> /\ winner' = MostExpensive(bids) /\ pc' = "terms" /\ bids' = <<>>
        /\ UNCHANGED <<inEmergency, round, terms>>
        /\ mail' = Post(mail, {winner'.by}, aw)
    BY <1>3, <2>1 DEF CloseBids
  <2>3. winner' \in Offers
    BY <2>2, MostExpensiveOffer DEF IInv, DetectorTypes
  <2>4. winner'.by \in PatchAgents
    BY <2>3 DEF Offers
  <2>5. round \in Rounds /\ round <= round
    BY <1>1, RoundNat DEF IInv, DetectorTypes
  <2>6. aw \in Messages /\ aw.verb = "AWARD" /\ aw.round = round /\ aw.to = winner'.by
    BY <2>1, <2>4, <2>5 DEF Award, Messages
  <2>7. MayHear(aw)'
    BY <2>2, <2>5, <2>6 DEF MayHear
  <2>8. StillMayHear
    <3>1. ASSUME NEW n, NEW ref, Follows(n, ref) PROVE n # round
      BY <1>1, <3>1 DEF Follows, Seen
    <3>2. ASSUME NEW m \in Messages, MayHear(m) PROVE MayHear(m)'
      BY <1>1, <2>2, <3>1, <3>2 DEF MayHear, Follows, Seen
    <3>3. ASSUME NEW ref \in Refs, MayWork(ref) PROVE MayWork(ref)'
      BY <1>1, <2>2, <3>1, <3>3 DEF MayWork, Follows
    <3> QED BY <3>2, <3>3 DEF StillMayHear
  <2>9. Heard(mail')
    BY <2>2, <2>6, <2>7, <2>8, MailHeard, PostHeard
  <2>10. Hearing' /\ WorldTypes'
    BY <1>1, <2>8, <2>9, MailHeard, HearingKept DEF IInv, WorldTypes, Heard
  <2>11. DetectorTypes'
    <3>1. inEmergency' = (pc' # "watching")
      BY <1>1, <2>2 DEF IInv, DetectorTypes
    <3> QED BY <1>1, <2>2, <2>3, <3>1, EmptySeq DEF IInv, DetectorTypes, Awarding
  <2>12. Bargain'
    BY <2>2 DEF Bargain, Settling
  <2>13. OrdersOfRounds'
    BY <1>1, <2>2 DEF IInv, OrdersOfRounds, Locked, BeforeDeposit
  <2> QED BY <2>10, <2>11, <2>12, <2>13 DEF IInv
<1> QED BY <1>2, <1>3

LEMMA GiveUpKeeps == ASSUME IInv, GiveUp \/ Throw PROVE IInv'
<1>1. EndRound /\ UNCHANGED <<order, now, quoted, awarded, working, attested, mail>>
  BY DEF GiveUp, Throw, rail, agentVars
<1>2. DetectorTypes' /\ Bargain' /\ OrdersOfRounds' /\ StillMayHear
  BY <1>1, EndsQuietly, GoesOnHears
<1>3. Hearing' /\ WorldTypes'
  BY <1>1, <1>2, MailHeard, HearingKept DEF IInv, WorldTypes
<1> QED BY <1>2, <1>3 DEF IInv

LEMMA DepositKeeps == ASSUME IInv, Deposit PROVE IInv'
<1>1. PICK t : t = [seller |-> AgentWallet, amount |-> terms.amount, deadline |-> now + 1]
  OBVIOUS
<1>2. /\ pc = "deposit" /\ order' = [order EXCEPT ![Vaults][terms.ref] = t]
      /\ UNCHANGED <<now, quoted, awarded, working, attested>>
  BY <1>1 DEF Deposit, Rail!LockWith, agentVars
<1>3. /\ terms \in Asks /\ terms.ref \in Refs /\ terms.ref.round = round /\ terms.amount \in Nat
      /\ winner \in Offers /\ round \in Rounds /\ round \in Nat
  BY <1>2, AskParts, RoundNat DEF IInv, Bargain, Settling, DetectorTypes, Awarding
<1>4. t \in [seller : {AgentWallet}, amount : Nat, deadline : Nat]
  BY <1>1, <1>3 DEF IInv, WorldTypes
<1>5. order' \in [{AgentWallet, DetectorWallet, Vaults} ->
                    [Refs -> [seller : {AgentWallet}, amount : Nat, deadline : Nat] \cup {None}]]
  BY <1>2, <1>3, <1>4 DEF IInv, WorldTypes
<1>6. \A r \in Refs : Locked(r)' => r = terms.ref \/ Locked(r)
  BY <1>2, <1>3 DEF IInv, WorldTypes, Locked
<1>7. \A r \in Refs : Locked(r)' => r.round <= round
  BY <1>3, <1>6 DEF IInv, OrdersOfRounds
<1>8. CASE EndRound /\ UNCHANGED mail
  <2>1. DetectorTypes' /\ Bargain' /\ OrdersOfRounds' /\ StillMayHear
    BY <1>2, <1>7, <1>8, EndRoundKeeps, GoesOnHears
  <2>2. Hearing'
    BY <1>2, <1>8, <2>1, MailHeard, HearingKept
  <2>3. WorldTypes'
    BY <1>2, <1>5, <1>8 DEF IInv, WorldTypes
  <2> QED BY <2>1, <2>2, <2>3 DEF IInv
<1>9. CASE ~(EndRound /\ UNCHANGED mail)
  <2>1. PICK d : d = Deposited(round, terms.ref, "arbiter")
    OBVIOUS
  <2>2. /\ pc' = "delivery" /\ UNCHANGED <<inEmergency, round, bids, winner, terms>>
        /\ mail' = Post(mail, {winner.by}, d)
    BY <1>9, <2>1 DEF Deposit, locals
  <2>3. d \in Messages /\ d.verb = "DEPOSITED" /\ d.round = round /\ d.ref = terms.ref
    BY <1>3, <2>1 DEF Deposited, Messages
  <2>4. MayHear(d)'
    BY <1>3, <2>2, <2>3 DEF MayHear, Follows, Seen
  <2>5. StillMayHear
    <3>1. ASSUME NEW n, NEW ref, Follows(n, ref) PROVE n # round
      BY <1>2, <3>1 DEF Follows, Seen
    <3>2. ASSUME NEW m \in Messages, MayHear(m) PROVE MayHear(m)'
      BY <1>2, <2>2, <3>1, <3>2 DEF MayHear, Follows, Seen, Awarding
    <3>3. ASSUME NEW ref \in Refs, MayWork(ref) PROVE MayWork(ref)'
      BY <1>2, <2>2, <3>1, <3>3 DEF MayWork, Follows
    <3> QED BY <3>2, <3>3 DEF StillMayHear
  <2>6. Heard(mail')
    BY <2>2, <2>3, <2>4, <2>5, MailHeard, PostHeard
  <2>7. Hearing'
    BY <1>2, <2>5, <2>6, MailHeard, HearingKept
  <2>8. WorldTypes'
    BY <1>2, <1>5, <2>6 DEF IInv, WorldTypes, Heard
  <2>9. DetectorTypes'
    <3>1. inEmergency' = (pc' # "watching")
      BY <1>2, <2>2 DEF IInv, DetectorTypes
    <3> QED BY <1>2, <2>2, <3>1 DEF IInv, DetectorTypes, Awarding
  <2>10. Bargain'
    BY <1>2, <2>2 DEF IInv, Bargain, Settling
  <2>11. OrdersOfRounds'
    BY <1>7, <2>2 DEF OrdersOfRounds, BeforeDeposit
  <2> QED BY <2>7, <2>8, <2>9, <2>10, <2>11 DEF IInv
<1> QED BY <1>8, <1>9

LEMMA ReleaseKeeps == ASSUME IInv, Release PROVE IInv'
<1>1. /\ pc = "release" /\ EndRound /\ UNCHANGED <<now, quoted, awarded, working, attested>>
      /\ order' = [order EXCEPT ![Vaults][terms.ref] = None]
  BY DEF Release, Rail!Pay, agentVars
<1>2. /\ terms \in Asks /\ terms.ref \in Refs /\ winner \in Offers
      /\ round \in Rounds /\ round <= round
  BY <1>1, AskParts, RoundNat DEF IInv, Bargain, Settling, DetectorTypes, Awarding
<1>3. order' \in [{AgentWallet, DetectorWallet, Vaults} ->
                    [Refs -> [seller : {AgentWallet}, amount : Nat, deadline : Nat] \cup {None}]]
  BY <1>1, <1>2 DEF IInv, WorldTypes
<1>4. \A r \in Refs : Locked(r)' => Locked(r)
  BY <1>1, <1>2 DEF IInv, WorldTypes, Locked
<1>5. DetectorTypes' /\ Bargain' /\ OrdersOfRounds' /\ StillMayHear
  <2>1. \A r \in Refs : Locked(r)' => r.round <= round
    BY <1>4 DEF IInv, OrdersOfRounds
  <2> QED BY <1>1, <2>1, EndRoundKeeps, GoesOnHears
<1>6. Heard(mail')
  <2>1. CASE UNCHANGED mail
    BY <1>5, <2>1, MailHeard
  <2>2. CASE ~UNCHANGED mail
    <3>1. PICK d : d = Released(round)
      OBVIOUS
    <3>2. mail' = Post(mail, {winner.by}, d)
      BY <2>2, <3>1 DEF Release
    <3>3. d \in Messages /\ d.verb = "RELEASED" /\ d.round = round
      BY <1>2, <3>1 DEF Released, Messages
    <3>4. MayHear(d)'
      BY <1>1, <1>2, <3>3 DEF MayHear, EndRound
    <3> QED BY <1>5, <3>2, <3>3, <3>4, MailHeard, PostHeard
  <2> QED BY <2>1, <2>2
<1>7. Hearing'
  BY <1>1, <1>5, <1>6, MailHeard, HearingKept
<1>8. WorldTypes'
  BY <1>1, <1>3, <1>6 DEF IInv, WorldTypes, Heard
<1> QED BY <1>5, <1>7, <1>8 DEF IInv
-----------------------------------------------------------------------------
(* The steps of the others. *)

LEMMA OthersKeep ==
    ASSUME IInv, UNCHANGED <<rail, detectorVars>>,
           attested \subseteq attested', attested' \subseteq Refs,
           quoted' \in [PatchAgents -> SUBSET Rounds],
           awarded' \in [PatchAgents -> SUBSET Refs],
           working' \in [PatchAgents -> SUBSET Refs],
           StillMayHear => Heard(mail'),
           StillMayHear => \A a \in PatchAgents : \A ref \in working'[a] : MayWork(ref)'
    PROVE  IInv'
<1>1. UNCHANGED <<order, now>>
  BY DEF rail
<1>2. DetectorTypes' /\ Bargain' /\ OrdersOfRounds' /\ StillMayHear
  BY <1>1, DetectorStays, GoesOnHears
<1>3. Hearing'
  BY <1>2, HearingKept
<1>4. WorldTypes'
  BY <1>1, <1>2 DEF IInv, WorldTypes, Heard
<1> QED BY <1>2, <1>3, <1>4 DEF IInv

\* The mention an agent that waits is given, and the mailboxes it leaves.
LEMMA Waited ==
    ASSUME IInv, NEW a \in Agents, NEW k \in Batches(a), Wait(a, k)
    PROVE  /\ Head(mail[a]) \in Messages /\ MayHear(Head(mail[a]))
           /\ StillMayHear => Heard(Unread(a, k))
<1>1. mail[a] # <<>>
  BY DEF Wait
<1>2. Head(mail[a]) \in Letters(mail, a)
  BY <1>1, HeadLetter DEF IInv, WorldTypes
<1>3. StillMayHear => Heard(Unread(a, k))
  BY <1>1, MailHeard, WaitHeard
<1> QED BY <1>2, <1>3, Read

LEMMA PatchAgentReceivesKeeps ==
    ASSUME IInv, NEW a \in PatchAgents, PatchAgentReceives(a) PROVE IInv'
<1>1. PICK k, m, box :
         /\ k \in Batches(a)
         /\ Wait(a, k) /\ m = Head(mail[a]) /\ box = Unread(a, k)
         /\ OnWant(a, m, box) \/ OnAward(a, m, box) \/ OnDeposited(a, m, box) \/ OnOther(m, box)
  BY DEF PatchAgentReceives
<1>2. m \in Messages /\ MayHear(m) /\ (StillMayHear => Heard(box))
  BY <1>1, AgentNames, Waited
<1>3. /\ UNCHANGED <<rail, detectorVars, attested>>
      /\ attested' = attested /\ attested' \subseteq Refs
      /\ quoted \in [PatchAgents -> SUBSET Rounds]
      /\ awarded \in [PatchAgents -> SUBSET Refs]
      /\ working \in [PatchAgents -> SUBSET Refs]
      /\ UNCHANGED <<round, pc, winner, terms>>
  BY DEF PatchAgentReceives, IInv, WorldTypes, detectorVars, locals
<1>4. StillMayHear => \A b \in PatchAgents : \A ref \in working[b] : MayWork(ref)'
  BY MailHeard
<1>5. CASE OnWant(a, m, box)
  <2>1. PICK b : b = Bid(m.round, Price(a), a)
    OBVIOUS
  <2>2. /\ mail' = Post(box, {DetectorName}, b) /\ m.verb = "WANT"
        /\ quoted' = [quoted EXCEPT ![a] = @ \cup {m.round}] /\ UNCHANGED <<awarded, working>>
    BY <1>5, <2>1 DEF OnWant
  <2>3. m.round \in Rounds
    BY <1>2, <2>2, Kinds
  <2>4. b \in Messages /\ b.verb = "BID" /\ b.round = m.round
    BY <2>1, <2>3 DEF Bid, Messages
  <2>5. MayHear(b)'
    BY <1>2, <1>3, <2>4 DEF MayHear
  <2>6. quoted' \in [PatchAgents -> SUBSET Rounds]
    BY <1>3, <2>2, <2>3
  <2>7. StillMayHear => Heard(mail')
    BY <1>2, <2>2, <2>4, <2>5, PostHeard
  <2> QED BY <1>3, <1>4, <2>2, <2>6, <2>7, OthersKeep
<1>6. CASE OnAward(a, m, box)
  <2>1. m.verb = "AWARD" /\ working' = working
    BY <1>6 DEF OnAward
  <2>2. CASE mail' = box /\ UNCHANGED <<quoted, awarded>>
    BY <1>2, <1>3, <1>4, <2>1, <2>2, OthersKeep
  <2>3. CASE ~(mail' = box /\ UNCHANGED <<quoted, awarded>>)
    <3>1. PICK ref, e : /\ ref = Reference(m.round, Price(a))
                        /\ e = EscrowRequired(m.round, ref, AgentWallet, Price(a), "arbiter")
      OBVIOUS
    <3>2. /\ m.to = a /\ m.round \in quoted[a]
          /\ awarded' = [awarded EXCEPT ![a] = @ \cup {ref}]
          /\ quoted' = [quoted EXCEPT ![a] = @ \ {m.round}]
          /\ mail' = Post(box, {DetectorName}, e)
      BY <1>6, <2>3, <3>1 DEF OnAward
    <3>3. m.round \in Rounds /\ ref \in Refs
      BY <1>2, <2>1, <3>1, Kinds, RefsRound
    <3>4. e \in Asks /\ e.verb = "ESCROW_REQUIRED" /\ e.round = m.round
          /\ e.amount = Wire(Price(a))
      BY <3>1, <3>3 DEF EscrowRequired, Asks
    <3>5. e \in Messages
      BY <3>4 DEF Messages
    <3>6. ASSUME pc \in Awarding, m.round = round PROVE e.amount = winner.price
      <4>1. winner \in Offers /\ winner.by = a
        BY <1>2, <2>1, <3>2, <3>6 DEF MayHear, IInv, DetectorTypes
      <4>2. winner.price = Wire(Price(a))
        BY <4>1 DEF Offers
      <4> QED BY <3>4, <4>2
    <3>7. MayHear(e)'
      BY <1>2, <1>3, <2>1, <3>4, <3>6 DEF MayHear
    <3>8. /\ quoted' \in [PatchAgents -> SUBSET Rounds]
          /\ awarded' \in [PatchAgents -> SUBSET Refs]
      BY <1>3, <3>2, <3>3
    <3>9. StillMayHear => Heard(mail')
      BY <1>2, <3>2, <3>5, <3>7, PostHeard
    <3> QED BY <1>3, <1>4, <2>1, <3>8, <3>9, OthersKeep
  <2> QED BY <2>2, <2>3
<1>7. CASE OnDeposited(a, m, box)
  <2>1. m.verb = "DEPOSITED" /\ m.ref \in Refs /\ m.ref.round = m.round
    BY <1>2, <1>7, Kinds DEF OnDeposited
  <2>2. CASE mail' = box /\ UNCHANGED agentVars
    BY <1>2, <1>3, <1>4, <2>2, OthersKeep DEF agentVars
  <2>3. CASE mail' = Post(box, {DetectorName}, Error) /\ UNCHANGED agentVars
    <3>1. PICK e : e = Error
      OBVIOUS
    <3>2. e \in Messages /\ e.verb = "ERROR" /\ e.round = 0
      BY <3>1 DEF Error, Messages
    <3>3. 0 <= round
      BY FlashPatchAssumption DEF IInv, DetectorTypes
    <3>4. MayHear(e)'
      BY <1>3, <3>2, <3>3 DEF MayHear
    <3>5. StillMayHear => Heard(mail')
      BY <1>2, <2>3, <3>1, <3>2, <3>4, PostHeard
    <3> QED BY <1>3, <1>4, <2>3, <3>5, OthersKeep DEF agentVars
  <2>4. CASE /\ awarded' = [awarded EXCEPT ![a] = @ \ {m.ref}]
             /\ working' = [working EXCEPT ![a] = {m.ref}]
             /\ mail' = box /\ UNCHANGED quoted
    <3>1. MayWork(m.ref)'
      BY <1>2, <1>3, <2>1 DEF MayHear, MayWork, Follows
    <3>2. \A b \in PatchAgents : \A ref \in working'[b] : ref = m.ref \/ ref \in working[b]
      BY <1>3, <2>4
    <3>3. /\ awarded' \in [PatchAgents -> SUBSET Refs]
          /\ working' \in [PatchAgents -> SUBSET Refs]
      BY <1>3, <2>1, <2>4
    <3>4. StillMayHear => \A b \in PatchAgents : \A ref \in working'[b] : MayWork(ref)'
      BY <1>4, <3>1, <3>2
    <3> QED BY <1>2, <1>3, <2>4, <3>3, <3>4, OthersKeep
  <2> QED BY <1>7, <2>2, <2>3, <2>4 DEF OnDeposited
<1>8. CASE OnOther(m, box)
  BY <1>2, <1>3, <1>4, <1>8, OthersKeep DEF OnOther, agentVars
<1> QED BY <1>1, <1>5, <1>6, <1>7, <1>8

LEMMA DeliverKeeps == ASSUME IInv, NEW a \in PatchAgents, Deliver(a) PROVE IInv'
<1>1. PICK ref, p, d :
         /\ ref \in working[a]
         /\ p = [ref |-> ref, patch |-> PatchOf[a]] /\ d = Delivered(ref.round, p)
         /\ mail' = Post(mail, {DetectorName}, d)
  BY DEF Deliver
<1>2. /\ working' = [working EXCEPT ![a] = {}]
      /\ UNCHANGED <<rail, detectorVars, quoted, awarded, attested>>
      /\ UNCHANGED <<round, pc, terms>>
  BY DEF Deliver, detectorVars, locals
<1>3. ref \in Refs /\ ref.round \in Rounds /\ MayWork(ref)
  BY <1>1, RefsRound DEF IInv, WorldTypes, Hearing
<1>4. p \in Payloads /\ p.ref = ref
  BY <1>1, <1>3, FlashPatchAssumption DEF Payloads
<1>5. d \in Messages /\ d.verb = "DELIVERED" /\ d.round = ref.round /\ d.payload = p
  BY <1>1, <1>4 DEF Messages, Delivered
<1>6. MayHear(d)'
  BY <1>2, <1>3, <1>4, <1>5 DEF MayHear, MayWork, Follows
<1>7. StillMayHear => Heard(mail')
  BY <1>1, <1>5, <1>6, MailHeard, PostHeard
<1>8. /\ working' \in [PatchAgents -> SUBSET Refs]
      /\ \A b \in PatchAgents : working'[b] \subseteq working[b]
  BY <1>2 DEF IInv, WorldTypes
<1>9. StillMayHear => \A b \in PatchAgents : \A r \in working'[b] : MayWork(r)'
  BY <1>8, MailHeard
<1>10. attested' \subseteq Refs
  BY <1>2 DEF IInv, WorldTypes
<1> QED BY <1>2, <1>7, <1>8, <1>9, <1>10, OthersKeep DEF IInv, WorldTypes

LEMMA VerifierStepKeeps == ASSUME IInv, VerifierStep PROVE IInv'
<1>1. PICK k, m, box :
         /\ k \in Batches(VerifierName)
         /\ Wait(VerifierName, k) /\ m = Head(mail[VerifierName])
         /\ box = Unread(VerifierName, k)
         /\ IF m.verb # "VERIFY" THEN mail' = box /\ UNCHANGED <<verified, attested>>
            ELSE \E verdict \in {"pass", "fail"} :
                 /\ mail' = Post(box, {DetectorName}, Verified(m.round, verdict))
                 /\ attested' = attested \cup (IF verdict = "pass" THEN {m.payload.ref} ELSE {})
  <2>1. PICK k, m, box :
           /\ k \in Batches(VerifierName)
           /\ Wait(VerifierName, k) /\ m = Head(mail[VerifierName])
           /\ box = Unread(VerifierName, k)
           /\ IF m.verb # "VERIFY" THEN mail' = box /\ UNCHANGED <<verified, attested>>
              ELSE LET passes == /\ VerifyPatchAgainstExploit(m.payload.patch).blocked
                                 /\ StaticAnalysis[m.payload.patch] # "failed"
                   IN /\ mail' = Post(box, {DetectorName},
                                      Verified(m.round, IF passes THEN "pass" ELSE "fail"))
                      /\ attested' = attested \cup (IF passes THEN {m.payload.ref} ELSE {})
    BY DEF VerifierStep
  <2>2. CASE m.verb # "VERIFY"
    BY <2>1, <2>2
  <2>3. CASE /\ m.verb = "VERIFY"
             /\ VerifyPatchAgainstExploit(m.payload.patch).blocked
             /\ StaticAnalysis[m.payload.patch] # "failed"
    <3>1. /\ mail' = Post(box, {DetectorName}, Verified(m.round, "pass"))
          /\ attested' = attested \cup {m.payload.ref}
      BY <2>1, <2>3
    <3> QED BY <2>1, <2>3, <3>1
  <2>4. CASE /\ m.verb = "VERIFY"
             /\ ~(/\ VerifyPatchAgainstExploit(m.payload.patch).blocked
                  /\ StaticAnalysis[m.payload.patch] # "failed")
    <3>1. /\ mail' = Post(box, {DetectorName}, Verified(m.round, "fail"))
          /\ attested' = attested \cup {}
      BY <2>1, <2>4
    <3> QED BY <2>1, <2>4, <3>1
  <2> QED BY <2>2, <2>3, <2>4
<1>2. m \in Messages /\ MayHear(m) /\ (StillMayHear => Heard(box))
  BY <1>1, AgentNames, Waited
<1>3. /\ UNCHANGED <<rail, detectorVars, quoted, awarded, working>>
      /\ UNCHANGED <<round, pc, winner, terms>>
      /\ quoted \in [PatchAgents -> SUBSET Rounds]
      /\ awarded \in [PatchAgents -> SUBSET Refs]
      /\ working \in [PatchAgents -> SUBSET Refs]
      /\ attested \subseteq Refs
  BY DEF VerifierStep, IInv, WorldTypes, detectorVars, agentVars, locals
<1>4. StillMayHear => \A b \in PatchAgents : \A ref \in working'[b] : MayWork(ref)'
  BY <1>3, MailHeard
<1>5. CASE m.verb # "VERIFY"
  BY <1>1, <1>2, <1>3, <1>4, <1>5, OthersKeep
<1>6. CASE m.verb = "VERIFY"
  <2>1. m.payload.ref \in Refs /\ m.round \in Rounds
    BY <1>2, <1>6, Kinds
  <2>2. PICK verdict, v :
           /\ verdict \in {"pass", "fail"}
           /\ v = Verified(m.round, verdict) /\ mail' = Post(box, {DetectorName}, v)
           /\ attested' = attested \cup (IF verdict = "pass" THEN {m.payload.ref} ELSE {})
    BY <1>1, <1>6
  <2>3. v \in Messages /\ v.verb = "VERIFIED" /\ v.round = m.round /\ v.verdict = verdict
    BY <2>1, <2>2 DEF Messages, Verified
  <2>4. MayHear(v)'
    BY <1>2, <1>3, <1>6, <2>2, <2>3 DEF MayHear, Follows
  <2>5. attested \subseteq attested' /\ attested' \subseteq Refs
    BY <1>3, <2>1, <2>2
  <2>6. StillMayHear => Heard(mail')
    BY <1>2, <2>2, <2>3, <2>4, PostHeard
  <2> QED BY <1>3, <1>4, <2>5, <2>6, OthersKeep
<1> QED BY <1>5, <1>6

LEMMA DeployerStepKeeps == ASSUME IInv, DeployerStep PROVE IInv'
<1>1. PICK k \in Batches(DeployerName) :
         Wait(DeployerName, k) /\ mail' = Unread(DeployerName, k)
  BY DEF DeployerStep
<1>2. StillMayHear => Heard(mail')
  BY <1>1, AgentNames, Waited
<1>3. UNCHANGED <<rail, detectorVars, quoted, awarded, working, attested>>
  BY DEF DeployerStep, agentVars
<1>4. StillMayHear => \A b \in PatchAgents : \A ref \in working'[b] : MayWork(ref)'
  BY <1>3, MailHeard
<1> QED BY <1>2, <1>3, <1>4, OthersKeep DEF IInv, WorldTypes
-----------------------------------------------------------------------------
(* The swarm. *)

LEMMA NextIInv == IInv /\ [Next]_vars => IInv'
<1>1. ASSUME IInv, Raise PROVE IInv'
  BY <1>1, RaiseKeeps
<1>2. ASSUME IInv, RoundStep PROVE IInv'
  BY <1>2, DetectorReceivesKeeps, CloseBidsKeeps, GiveUpKeeps, DepositKeeps, ReleaseKeeps
     DEF RoundStep
<1>3. ASSUME IInv, VerifierStep \/ DeployerStep PROVE IInv'
  BY <1>3, VerifierStepKeeps, DeployerStepKeeps
<1>4. ASSUME IInv, NEW a \in PatchAgents, PatchAgentReceives(a) \/ Deliver(a) PROVE IInv'
  BY <1>4, PatchAgentReceivesKeeps, DeliverKeeps
<1>5. ASSUME IInv, UNCHANGED vars PROVE IInv'
  <2>1. UNCHANGED <<rail, detectorVars, quoted, awarded, working, attested, mail>>
    BY <1>5 DEF vars, agentVars
  <2>2. StillMayHear => /\ Heard(mail')
                        /\ \A b \in PatchAgents : \A ref \in working'[b] : MayWork(ref)'
    BY <1>5, <2>1, MailHeard
  <2> QED BY <1>5, <2>1, <2>2, OthersKeep DEF IInv, WorldTypes
<1> QED BY <1>1, <1>2, <1>3, <1>4, <1>5 DEF Next

LEMMA Inductive == Spec => []IInv
BY InitIInv, NextIInv, PTL DEF Spec

\* An order is locked by a deposit alone, the one of the terms.
LEMMA LocksByDeposit ==
    ASSUME IInv, [Next]_vars, NEW r \in Refs, Locks(r)
    PROVE  Deposit /\ r = terms.ref /\ order'[Vaults][r].amount = terms.amount
<1>1. order' # order
  BY DEF Locks, Locked
<1>2. Deposit \/ Release
  BY <1>1 DEF Next, vars, rail, Raise, RoundStep, DetectorReceives, CloseBids, GiveUp, Throw,
              VerifierStep, DeployerStep, PatchAgentReceives, Deliver
<1>3. ~Release
  BY DEF Release, Rail!Pay, Locks, Locked, IInv, WorldTypes
<1>4. Deposit
  BY <1>2, <1>3
<1>5. PICK t : /\ t.amount = terms.amount
               /\ order' = [order EXCEPT ![Vaults][terms.ref] = t]
  <2>1. PICK u : u = [seller |-> AgentWallet, amount |-> terms.amount, deadline |-> now + 1]
    OBVIOUS
  <2>2. order' = [order EXCEPT ![Vaults][terms.ref] = u]
    BY <1>4, <2>1 DEF Deposit, Rail!LockWith
  <2> QED BY <2>1, <2>2
<1>6. r = terms.ref
  BY <1>5 DEF Locks, Locked, IInv, WorldTypes
<1>7. order'[Vaults][r] = t
  BY <1>5, <1>6 DEF IInv, WorldTypes
<1> QED BY <1>4, <1>5, <1>6, <1>7

LEMMA FreesByRelease ==
    ASSUME IInv, [Next]_vars, NEW r \in Refs, Frees(r) PROVE Release /\ r = terms.ref
<1>1. order' # order
  BY DEF Frees, Locked
<1>2. Deposit \/ Release
  BY <1>1 DEF Next, vars, rail, Raise, RoundStep, DetectorReceives, CloseBids, GiveUp, Throw,
              VerifierStep, DeployerStep, PatchAgentReceives, Deliver
<1>3. CASE Deposit
  <2>1. PICK t : /\ order' = [order EXCEPT ![Vaults][terms.ref] = t]
                 /\ order[Vaults][terms.ref] = None
    BY <1>3 DEF Deposit, Rail!LockWith
  <2> QED BY <2>1 DEF Frees, Locked, IInv, WorldTypes
<1>4. CASE Release
  <2>1. order' = [order EXCEPT ![Vaults][terms.ref] = None]
    BY <1>4 DEF Release, Rail!Pay
  <2>2. r = terms.ref
    BY <2>1 DEF Frees, Locked, IInv, WorldTypes
  <2> QED BY <1>4, <2>2
<1> QED BY <1>2, <1>3, <1>4

\* The detector, the patch agents and what they hold are of the right types: it is in an
\* emergency exactly when it is not watching (exploit-detector index.ts:138-139, 398-401).
THEOREM FlashPatchTypeCorrect == Spec => []TypeOK
<1>1. IInv => TypeOK
  <2> SUFFICES ASSUME IInv PROVE TypeOK
    OBVIOUS
  <2>1. pc \in {"watching", "bidding", "terms", "deposit", "delivery", "verdict", "release"}
    BY DEF IInv, DetectorTypes, Awarding
  <2>2. \A a \in PatchAgents : quoted[a] \subseteq Rounds /\ awarded[a] \cup working[a] \subseteq Refs
    BY DEF IInv, WorldTypes
  <2> QED BY <2>1, <2>2 DEF TypeOK, IInv, DetectorTypes, WorldTypes
<1> QED BY Inductive, <1>1, PTL

\* README.md:270, "Max SOL deposited per emergency event": whatever the agents ask and
\* whenever they answer, an emergency locks one order, at the price awarded and within
\* the budget.
THEOREM BudgetHeld == Spec => BudgetPerEmergency
<1> DEFINE A == \A r \in Refs : Locks(r) =>
                  /\ order'[Vaults][r].amount <= Budget
                  /\ order'[Vaults][r].amount = winner.price
                  /\ r.round = round
                  /\ \A q \in Refs \ {r} : q.round = round => ~Locked(q)
<1>1. ASSUME IInv, [Next]_vars PROVE A
  <2> SUFFICES ASSUME NEW r \in Refs, Locks(r)
               PROVE  /\ order'[Vaults][r].amount <= Budget
                      /\ order'[Vaults][r].amount = winner.price
                      /\ r.round = round
                      /\ \A q \in Refs \ {r} : q.round = round => ~Locked(q)
    OBVIOUS
  <2>1. pc = "deposit" /\ r = terms.ref /\ order'[Vaults][r].amount = terms.amount
    BY <1>1, LocksByDeposit DEF Deposit
  <2>2. terms.amount <= Budget /\ terms.amount = winner.price /\ terms.ref.round = round
    BY <1>1, <2>1 DEF IInv, Bargain, Settling
  <2>3. \A q \in Refs : Locked(q) => q.round < round
    BY <1>1, <2>1 DEF IInv, OrdersOfRounds, BeforeDeposit
  <2>4. ~(round < round)
    BY <1>1, FlashPatchAssumption DEF IInv, DetectorTypes
  <2>5. \A q \in Refs : q.round = round => ~Locked(q)
    BY <2>3, <2>4
  <2> QED BY <2>1, <2>2, <2>5
<1>2. IInv /\ [Next]_vars => [A]_vars
  BY <1>1
<1> QED BY Inductive, <1>2, PTL DEF Spec, BudgetPerEmergency

\* sandbox-verifier index.ts:15-16, "gates escrow release on a VERIFIED pass": whatever is
\* late, lost or read again, an order is paid only when its own delivery passed.
THEOREM PaidAfterPass == Spec => PaidOnlyVerified
<1> DEFINE A == \A r \in Refs : Frees(r) => r \in attested
<1>1. ASSUME IInv, [Next]_vars PROVE A
  <2> SUFFICES ASSUME NEW r \in Refs, Frees(r) PROVE r \in attested
    OBVIOUS
  <2>1. pc = "release" /\ r = terms.ref
    BY <1>1, FreesByRelease DEF Release
  <2> QED BY <1>1, <2>1 DEF IInv, Bargain
<1>2. IInv /\ [Next]_vars => [A]_vars
  BY <1>1
<1> QED BY Inductive, <1>2, PTL DEF Spec, PaidOnlyVerified
-----------------------------------------------------------------------------
(* The deployer in the swarm. *)

\* All the deployer is told of is alerts.
Untold ==
    /\ deployments = <<>>
    /\ \A m \in Letters(mail, DeployerName) : m.verb = "EXPLOIT_DETECTED"

\* A step in which the deployer's mailbox stays as it is.
StaysUntold == deployments' = deployments /\ mail'[DeployerName] = mail[DeployerName]

LEMMA PostOthers ==
    ASSUME NEW box, DOMAIN box = Agents, NEW to, DeployerName \notin to, NEW m
    PROVE  Post(box, to, m)[DeployerName] = box[DeployerName]
BY AgentNames DEF Post

LEMMA OthersRead ==
    ASSUME IInv, NEW a \in Agents \ {DeployerName}, NEW k
    PROVE  DOMAIN Unread(a, k) = Agents /\ Unread(a, k)[DeployerName] = mail[DeployerName]
BY AgentNames DEF IInv, WorldTypes, Unread

LEMMA OthersNames ==
    /\ DeployerName \notin PatchAgents /\ DeployerName # DetectorName
    /\ DeployerName # VerifierName
BY FlashPatchAssumption

\* The detector's list of patch agents names patch agents, and never changes.
HiredPatch == hired \subseteq PatchAgents

LEMMA HiredStays == Spec => []HiredPatch
<1>1. Init => HiredPatch
  BY FlashPatchAssumption DEF Init, HiredPatch
<1>2. [Next]_vars => hired' = hired
  BY DEF Next, vars, Raise, RoundStep, DetectorReceives, CloseBids, GiveUp, Deposit, Release,
         Throw, VerifierStep, DeployerStep, PatchAgentReceives, Deliver
<1>3. HiredPatch /\ [Next]_vars => HiredPatch'
  BY <1>2 DEF HiredPatch
<1> QED BY <1>1, <1>3, PTL DEF Spec

LEMMA RoundUntold == ASSUME IInv, RoundStep PROVE StaysUntold
<1>1. DOMAIN mail = Agents /\ deployments' = deployments
  BY DEF IInv, WorldTypes, RoundStep, DetectorReceives, CloseBids, GiveUp, Deposit, Release,
         Throw, deployerVars
<1>2. CASE DetectorReceives
  <2>1. PICK k, m, box :
           /\ box = Unread(DetectorName, k)
           /\ \/ Ignore(m, box) \/ ReceiveBid(m, box) \/ ReceiveTerms(m, box)
              \/ ReceiveDelivery(m, box) \/ ReceiveVerdict(m, box)
    BY <1>2 DEF DetectorReceives
  <2>2. mail' = box \/ \E v : mail' = Post(box, {VerifierName}, v)
    BY <2>1 DEF Ignore, ReceiveBid, ReceiveTerms, ReceiveDelivery, ReceiveVerdict
  <2>3. DOMAIN box = Agents /\ box[DeployerName] = mail[DeployerName]
    BY <2>1, AgentNames, OthersNames, OthersRead
  <2> QED BY <1>1, <2>2, <2>3, OthersNames, PostOthers DEF StaysUntold
<1>3. CASE CloseBids
  <2>1. mail' = mail \/ \E v : mail' = Post(mail, {winner'.by}, v) /\ winner' = MostExpensive(bids)
                               /\ bids # <<>>
    BY <1>3 DEF CloseBids
  <2>2. bids # <<>> => MostExpensive(bids).by \in PatchAgents
    <3>1. pc = "bidding" /\ bids \in Seq(Offers)
      BY <1>3 DEF CloseBids, IInv, DetectorTypes
    <3> QED BY <3>1, MostExpensiveOffer DEF Offers
  <2>3. CASE mail' = mail
    BY <1>1, <2>3 DEF StaysUntold
  <2>4. CASE mail' # mail
    <3>1. PICK v, w : mail' = Post(mail, {w}, v) /\ w \in PatchAgents
      BY <2>1, <2>2, <2>4
    <3>2. DeployerName \notin {w}
      BY <3>1, OthersNames
    <3> QED BY <1>1, <3>1, <3>2, PostOthers DEF StaysUntold
  <2> QED BY <2>3, <2>4
<1>4. CASE Deposit \/ Release
  <2>1. mail' = mail \/ \E v : mail' = Post(mail, {winner.by}, v)
    BY <1>4 DEF Deposit, Release
  <2>2. winner.by \in PatchAgents
    BY <1>4 DEF Deposit, Release, IInv, DetectorTypes, Awarding, Offers
  <2> QED BY <1>1, <2>1, <2>2, OthersNames, PostOthers DEF StaysUntold
<1>5. CASE GiveUp \/ Throw
  BY <1>1, <1>5 DEF GiveUp, Throw, StaysUntold
<1> QED BY <1>2, <1>3, <1>4, <1>5 DEF RoundStep

LEMMA PatchAgentUntold ==
    ASSUME IInv, NEW a \in PatchAgents, PatchAgentReceives(a) \/ Deliver(a) PROVE StaysUntold
<1>1. DOMAIN mail = Agents /\ deployments' = deployments
  BY DEF IInv, WorldTypes, PatchAgentReceives, Deliver, deployerVars
<1>2. CASE PatchAgentReceives(a)
  <2>1. PICK k, m, box :
           /\ box = Unread(a, k)
           /\ OnWant(a, m, box) \/ OnAward(a, m, box) \/ OnDeposited(a, m, box) \/ OnOther(m, box)
    BY <1>2 DEF PatchAgentReceives
  <2>2. mail' = box \/ \E v : mail' = Post(box, {DetectorName}, v)
    BY <2>1 DEF OnWant, OnAward, OnDeposited, OnOther
  <2>3. DOMAIN box = Agents /\ box[DeployerName] = mail[DeployerName]
    BY <2>1, AgentNames, OthersNames, OthersRead
  <2> QED BY <1>1, <2>2, <2>3, OthersNames, PostOthers DEF StaysUntold
<1>3. CASE Deliver(a)
  BY <1>1, <1>3, OthersNames, PostOthers DEF Deliver, StaysUntold
<1> QED BY <1>2, <1>3

LEMMA VerifierUntold == ASSUME IInv, VerifierStep PROVE StaysUntold
<1>1. deployments' = deployments
  BY DEF VerifierStep, deployerVars
<1>2. PICK k : \/ mail' = Unread(VerifierName, k)
               \/ \E v : mail' = Post(Unread(VerifierName, k), {DetectorName}, v)
  BY DEF VerifierStep
<1>3. /\ DOMAIN Unread(VerifierName, k) = Agents
      /\ Unread(VerifierName, k)[DeployerName] = mail[DeployerName]
  BY AgentNames, OthersNames, OthersRead
<1> QED BY <1>1, <1>2, <1>3, OthersNames, PostOthers DEF StaysUntold

LEMMA RaiseUntold == ASSUME IInv, Untold, HiredPatch, Raise PROVE Untold'
<1>1. PICK e, w, box :
         /\ e = [verb |-> "EXPLOIT_DETECTED", round |-> round + 1]
         /\ box = Post(mail, hired \cup {VerifierName, DeployerName}, e)
         /\ mail' = Post(box, hired, w) /\ deployments' = deployments
  BY DEF Raise, deployerVars
<1>2. DOMAIN mail = Agents /\ DOMAIN box = Agents /\ mail[DeployerName] \in Seq(Messages)
  BY <1>1, AgentNames DEF IInv, WorldTypes, Post
<1>3. mail'[DeployerName] = Append(mail[DeployerName], e)
  <2>1. box[DeployerName] = Append(mail[DeployerName], e)
    BY <1>1, <1>2, AgentNames, OthersNames DEF Post
  <2>2. Post(box, hired, w)[DeployerName] = box[DeployerName]
    BY <1>2, OthersNames, PostOthers DEF HiredPatch
  <2> QED BY <1>1, <2>1, <2>2
<1>4. e \in Messages
  <2>1. round + 1 \in Rounds
    BY FlashPatchAssumption DEF Raise, IInv, DetectorTypes, Rounds
  <2> QED BY <1>1, <2>1 DEF Messages
<1>5. ASSUME NEW i \in DOMAIN Append(mail[DeployerName], e)
      PROVE  Append(mail[DeployerName], e)[i].verb = "EXPLOIT_DETECTED"
  <2> DEFINE q == mail[DeployerName]
  <2>1. /\ Len(q) \in Nat /\ DOMAIN q = 1..Len(q)
        /\ DOMAIN Append(q, e) = 1..(Len(q) + 1)
        /\ \A j \in 1..Len(q) : Append(q, e)[j] = q[j]
        /\ Append(q, e)[Len(q) + 1] = e
    <3>1. q \in Seq(Messages) /\ Append(q, e) \in Seq(Messages)
      BY <1>2, <1>4, AppendProperties
    <3> HIDE DEF q
    <3> QED BY <1>4, <3>1, LenProperties, AppendProperties
  <2>2. \A j \in DOMAIN q : q[j].verb = "EXPLOIT_DETECTED"
    BY DEF Untold, Letters
  <2>3. e.verb = "EXPLOIT_DETECTED"
    BY <1>1
  <2>4. i \in 1..(Len(q) + 1)
    BY <1>5, <2>1
  <2> HIDE DEF q
  <2>5. i \in 1..Len(q) \/ i = Len(q) + 1
    BY <2>1, <2>4
  <2>6. Append(q, e)[i].verb = "EXPLOIT_DETECTED"
    BY <2>1, <2>2, <2>3, <2>5
  <2> QED BY <2>6 DEF q
<1>6. \A m \in Letters(mail', DeployerName) : m.verb = "EXPLOIT_DETECTED"
  BY <1>3, <1>5 DEF Letters
<1> QED BY <1>1, <1>6 DEF Untold

LEMMA DeployerUntold == ASSUME IInv, Untold, DeployerStep PROVE Untold'
<1>1. PICK k, m :
         /\ k \in Batches(DeployerName)
         /\ Wait(DeployerName, k) /\ m = Head(mail[DeployerName])
         /\ mail' = Unread(DeployerName, k)
         /\ \/ m.verb = "EXPLOIT_DETECTED" /\ OnAlert(m.round)
            \/ m.verb = "PATCH_SUBMITTED" \/ m.verb = "VERIFIED"
  BY DEF DeployerStep
<1>2. mail[DeployerName] # <<>> /\ DeployerName \in Agents /\ mail \in [Agents -> Seq(Messages)]
  BY <1>1, AgentNames DEF Wait, IInv, WorldTypes
<1>3. m \in Letters(mail, DeployerName)
  BY <1>1, <1>2, HeadLetter
<1>4. deployments' = deployments
  BY <1>1, <1>3 DEF Untold, OnAlert
<1>5. Letters(mail', DeployerName) \subseteq Letters(mail, DeployerName)
  BY <1>1, <1>2, UnreadLetters
<1> QED BY <1>4, <1>5 DEF Untold

LEMMA UntoldInductive == Spec => []Untold
<1>1. Init => Untold
  <2> SUFFICES ASSUME Init PROVE Untold
    OBVIOUS
  <2>1. deployments = <<>> /\ mail[DeployerName] = <<>>
    BY AgentNames DEF Init, DeployerInit
  <2> QED BY <2>1 DEF Untold, Letters
<1>2. ASSUME Untold, StaysUntold PROVE Untold'
  BY <1>2 DEF Untold, StaysUntold, Letters
<1>3. IInv /\ HiredPatch /\ Untold /\ [Next]_vars => Untold'
  <2>1. ASSUME UNCHANGED vars PROVE StaysUntold
    BY <2>1 DEF vars, deployerVars, StaysUntold
  <2> QED BY <1>2, <2>1, RoundUntold, PatchAgentUntold, VerifierUntold, RaiseUntold, DeployerUntold
          DEF Next
<1> QED BY Inductive, HiredStays, <1>1, <1>3, PTL DEF Spec

\* The swarm upgrades nothing: no agent sends the deployer a PATCH_SUBMITTED, and the
\* verifier replies its VERIFIED to the detector (sandbox-verifier index.ts:107), although
\* README.md:294-295 has the deployer count the passes and fire the upgrade.
THEOREM NothingDeployed == Spec => [](deployments = <<>>)
<1>1. Untold => deployments = <<>>
  BY DEF Untold
<1> QED BY UntoldInductive, <1>1, PTL
-----------------------------------------------------------------------------
(* The detector's watch. *)

\* An alarm is raised only for a transaction that was noted.
RaisedIsSeen == \A k \in DOMAIN raised : raised[k] \in seenSigs

WatchIInv == WatchTypeOK /\ RaisedIsSeen /\ OneAlarmEach
LEMMA WatchInitIInv == WatchInit => WatchIInv
<1> SUFFICES ASSUME WatchInit PROVE WatchIInv
  OBVIOUS
<1>1. chain \in Seq(Transactions)
  BY EmptySeq DEF WatchInit
<1>2. sigs \in Seq(DOMAIN chain) /\ raised \in Seq(DOMAIN chain)
  BY EmptySeq DEF WatchInit
<1>3. WatchTypeOK
  <2>1. watch \in {"resting", "polling", "emergency"} /\ simulated \in BOOLEAN
    BY DEF WatchInit
  <2>2. seenSigs \subseteq DOMAIN chain /\ missed \subseteq DOMAIN chain
    BY DEF WatchInit
  <2>3. failures \in 0..MaxFailures
    BY DetectorAssumption DEF WatchInit
  <2> QED BY <1>1, <1>2, <2>1, <2>2, <2>3 DEF WatchTypeOK
<1>4. RaisedIsSeen /\ OneAlarmEach
  BY DEF WatchInit, RaisedIsSeen, OneAlarmEach
<1> QED BY <1>3, <1>4 DEF WatchIInv

\* A poll lists positions of the chain.
LEMMA LatestType == ASSUME chain \in Seq(Transactions) PROVE Latest \in Seq(DOMAIN chain)
<1> DEFINE n == Len(chain)
           m == IF n < Limit THEN n ELSE Limit
<1>1. n \in Nat /\ DOMAIN chain = 1..n /\ m \in Nat /\ m <= n
  BY DetectorAssumption
<1>2. \A k \in 1..m : n + 1 - k \in 1..n
  BY <1>1
<1>3. Latest = [k \in 1..m |-> n + 1 - k]
  BY DEF Latest
<1> HIDE DEF n, m
<1> QED BY <1>1, <1>2, <1>3

\* The chain grows: its transactions keep their places.
LEMMA LandKeeps == ASSUME WatchIInv, Land PROVE WatchIInv'
<1>1. PICK tx \in Transactions : chain' = Append(chain, tx)
  BY DEF Land
<1>2. /\ chain' \in Seq(Transactions)
      /\ DOMAIN chain \subseteq DOMAIN chain'
      /\ \A i \in DOMAIN chain : chain'[i] = chain[i]
  BY <1>1 DEF WatchIInv, WatchTypeOK
<1>3. \A s \in Seq(DOMAIN chain) : s \in Seq(DOMAIN chain')
  BY <1>2
<1>4. UNCHANGED <<watch, sigs, seenSigs, simulated, failures, raised, missed>>
  BY DEF Land
<1>5. WatchTypeOK' /\ RaisedIsSeen'
  BY <1>2, <1>3, <1>4 DEF WatchIInv, WatchTypeOK, RaisedIsSeen
<1>6. \A k \in DOMAIN raised : raised[k] \in DOMAIN chain
  BY DEF WatchIInv, WatchTypeOK, RaisedIsSeen
<1>7. OneAlarmEach'
  BY <1>2, <1>4, <1>6 DEF WatchIInv, OneAlarmEach, IsExploit, Classify
<1> QED BY <1>5, <1>7 DEF WatchIInv

\* The list that is left loses its head, or all of it.
LEMMA TailType ==
    ASSUME WatchTypeOK, sigs # <<>>
    PROVE  /\ Head(sigs) \in DOMAIN chain
           /\ Tail(sigs) \in Seq(DOMAIN chain) /\ <<>> \in Seq(DOMAIN chain)
BY HeadTailProperties, EmptySeq DEF WatchTypeOK

\* The one step that raises an alarm: for a transaction that it notes, not noted before.
LEMMA ExamineKeeps == ASSUME WatchIInv, Examine PROVE WatchIInv'
<1> DEFINE i == Head(sigs)
<1>1. /\ i \in DOMAIN chain
      /\ sigs' \in Seq(DOMAIN chain)
      /\ UNCHANGED <<chain, simulated>>
  BY TailType DEF Examine, WatchIInv
<1>2. CASE i \in seenSigs /\ UNCHANGED <<watch, seenSigs, failures, raised, missed>>
  BY <1>1, <1>2 DEF WatchIInv, WatchTypeOK, RaisedIsSeen, OneAlarmEach, IsExploit, Classify
<1>3. CASE /\ i \notin seenSigs /\ Note(i) /\ IsExploit(i)
           /\ watch' = "emergency" /\ raised' = Append(raised, i)
           /\ UNCHANGED <<failures, missed>>
  <2> HIDE DEF i
  <2>1. seenSigs' = seenSigs \cup {i}
    BY <1>3 DEF Note
  <2>2. raised' \in Seq(DOMAIN chain)
    BY <1>1, <1>3 DEF WatchIInv, WatchTypeOK
  <2>3. /\ DOMAIN raised' = 1..(Len(raised) + 1)
        /\ DOMAIN raised = 1..Len(raised) /\ Len(raised) \in Nat
        /\ \A k \in DOMAIN raised : raised'[k] = raised[k]
        /\ raised'[Len(raised) + 1] = i
    BY <1>1, <1>3 DEF WatchIInv, WatchTypeOK
  <2>4. WatchTypeOK'
    BY <1>1, <1>3, <2>1, <2>2 DEF WatchIInv, WatchTypeOK
  <2>5. RaisedIsSeen'
    BY <2>1, <2>3 DEF WatchIInv, RaisedIsSeen
  <2>6. \A k \in DOMAIN raised : raised[k] # i
    BY <1>3 DEF WatchIInv, RaisedIsSeen
  <2>7. OneAlarmEach'
    BY <1>1, <1>3, <2>3, <2>6 DEF WatchIInv, OneAlarmEach, IsExploit, Classify
  <2> QED BY <2>4, <2>5, <2>7 DEF WatchIInv
<1>4. CASE /\ i \notin seenSigs /\ Note(i) /\ UNCHANGED <<watch, raised>>
           /\ \/ UNCHANGED <<failures, missed>>
              \/ Fails /\ missed' = missed \cup {i}
  <2>1. seenSigs' = seenSigs \cup {i}
    BY <1>4 DEF Note
  <2>2. failures' \in 0..MaxFailures
    BY <1>4, DetectorAssumption DEF Fails, WatchIInv, WatchTypeOK
  <2> HIDE DEF i
  <2>3. WatchTypeOK'
    BY <1>1, <1>4, <2>1, <2>2 DEF WatchIInv, WatchTypeOK
  <2> QED BY <1>1, <1>4, <2>1, <2>3 DEF WatchIInv, RaisedIsSeen, OneAlarmEach, IsExploit, Classify
<1> HIDE DEF i
<1> QED BY <1>2, <1>3, <1>4 DEF Examine, i

LEMMA WatchOthersKeep ==
    ASSUME WatchIInv, Poll \/ Rest \/ EndEmergency \/ UNCHANGED watchVars PROVE WatchIInv'
<1>1. /\ UNCHANGED <<chain, seenSigs, raised, missed>>
      /\ RaisedIsSeen' /\ OneAlarmEach'
  BY DEF Poll, Rest, EndEmergency, watchVars, WatchIInv, RaisedIsSeen, OneAlarmEach, IsExploit, Classify
<1>2. sigs' \in Seq(DOMAIN chain)
  BY LatestType, EmptySeq DEF Poll, Rest, EndEmergency, watchVars, WatchIInv, WatchTypeOK
<1>3. failures' \in 0..MaxFailures /\ simulated' \in BOOLEAN
  BY DetectorAssumption DEF Poll, Rest, EndEmergency, watchVars, Fails, WatchIInv, WatchTypeOK
<1>4. watch' \in {"resting", "polling", "emergency"}
  BY DEF Poll, Rest, EndEmergency, watchVars, WatchIInv, WatchTypeOK
<1> QED BY <1>1, <1>2, <1>3, <1>4 DEF WatchIInv, WatchTypeOK

LEMMA WatchInductive == WatchSpec => []WatchIInv
<1>1. WatchIInv /\ [WatchNext]_watchVars => WatchIInv'
  BY LandKeeps, ExamineKeeps, WatchOthersKeep DEF WatchNext
<1> QED BY WatchInitIInv, <1>1, PTL DEF WatchSpec
\* What the watch keeps of the chain keeps its type: it never speaks of a transaction
\* the chain does not have.
THEOREM DetectorTypeCorrect == WatchSpec => []WatchTypeOK
<1>1. WatchIInv => WatchTypeOK
  BY DEF WatchIInv
<1> QED BY WatchInductive, <1>1, PTL

\* exploit-detector index.ts:88-89, the signatures already seen: one exploit raises one
\* alarm, however often it is listed again and whichever fetches fail in between, and
\* nothing but an exploit raises one.
THEOREM AlarmedOnce == WatchSpec => []OneAlarmEach
<1>1. WatchIInv => OneAlarmEach
  BY DEF WatchIInv
<1> QED BY WatchInductive, <1>1, PTL
=============================================================================
