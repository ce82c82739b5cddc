------------------------------ MODULE Deployer ------------------------------
(***************************************************************************)
(* The threshold deployer (coral-agents/threshold-deployer): it notes the  *)
(* alerts, patch submissions and verdicts of each round, and upgrades the  *)
(* program once the patches it holds as verified reach the threshold.      *)
(*                                                                         *)
(* DeployerSpec is the agent in an open world: messages come in any order  *)
(* and any number.  What the world sends is kept as a history.             *)
(***************************************************************************)
EXTENDS Integers, Sequences, FiniteSets

CONSTANTS PatchAgents,
          Patches,      \* the registry (patch-registry.ts)
          Confidence,   \* Confidence[p], in percent
          Threshold,
          MaxRound,     \* bound on the rounds
          None          \* nothing submitted, no such round

Rounds == 1..MaxRound

\* RoundState: what each agent submitted, what counts as verified, deployed or not.
RoundStates == [submissions : [PatchAgents -> Patches \cup {None}],
                passes : SUBSET Patches, deployed : BOOLEAN]

ASSUME DeployerAssumption ==
    /\ Confidence \in [Patches -> 0..100]
    /\ \A p, q \in Patches : Confidence[p] = Confidence[q] => p = q
    /\ Threshold \in Nat \ {0}
    /\ None \notin Patches \cup RoundStates

VARIABLES rounds,      \* rounds[n]: the deployer's RoundState, or None
          deployments, \* the upgrades it sent, in order
          verified     \* history: verified[n], the patches the verifier passed

deployerVars == <<rounds, deployments>>

NoState == [submissions |-> [a \in PatchAgents |-> None], passes |-> {}, deployed |-> FALSE]

\* getOrCreateRound
RoundState(n) == IF rounds[n] = None THEN NoState ELSE rounds[n]

Submitted(st) == {st.submissions[a] : a \in PatchAgents} \ {None}

\* The submissions sorted by confidence, the first of them.
Best(ps) == CHOOSE p \in ps : \A q \in ps : Confidence[p] >= Confidence[q]

\* Mutant: one agreement short.
NearlyMet(st) == Cardinality(st.passes) + 1 >= Threshold

\* received >= THRESHOLD
Met(st) == Cardinality(st.passes) >= Threshold

\* Mutant: the flag is not looked at.
MayDeployAgain(st) == Met(st)

MayDeploy(st) == Met(st) /\ ~st.deployed

OnAlert(n) ==
    /\ rounds' = [rounds EXCEPT ![n] = RoundState(n)]
    /\ UNCHANGED deployments

OnSubmission(n, agent, patch) ==
    /\ rounds' = [rounds EXCEPT ![n] = [RoundState(n) EXCEPT !.submissions[agent] = patch]]
    /\ UNCHANGED deployments

\* What a pass makes of a round: every submission counts as verified.
Passed(n) == LET st == RoundState(n)
             IN  [st EXCEPT !.passes = @ \cup Submitted(st)]

\* A verdict that is not a pass is dropped.  After a pass, and with a patch to
\* deploy, the upgrade is sent when the threshold is met, once; sending it does
\* not fail (a simulated signature stands in for an RPC error).  The status that
\* is sent first may fail: then nothing is deployed on this verdict.
OnVerdict(n, verdict) ==
    IF verdict # "pass" THEN UNCHANGED deployerVars
    ELSE LET st == Passed(n) IN
         \/ /\ Submitted(st) # {} /\ MayDeploy(st)
            /\ rounds' = [rounds EXCEPT ![n] = [st EXCEPT !.deployed = TRUE]]
            /\ deployments' = Append(deployments,
                                     [round |-> n, patch |-> Best(Submitted(st))])
         \/ rounds' = [rounds EXCEPT ![n] = st] /\ UNCHANGED deployments

DeployerInit ==
    /\ rounds = [n \in Rounds |-> None]
    /\ deployments = <<>>
    /\ verified = [n \in Rounds |-> {}]

Alert == \E n \in Rounds : OnAlert(n) /\ UNCHANGED verified

Submission == \E n \in Rounds, a \in PatchAgents, p \in Patches :
                 OnSubmission(n, a, p) /\ UNCHANGED verified

\* The verifier speaks of a patch; its message names the round and the verdict.
Verdict == \E n \in Rounds, p \in Patches, v \in {"pass", "fail"} :
              /\ verified' = [verified EXCEPT ![n] = IF v = "pass" THEN @ \cup {p} ELSE @]
              /\ OnVerdict(n, v)

DeployerSpec == DeployerInit /\ [][Alert \/ Submission \/ Verdict]_<<deployerVars, verified>>
-----------------------------------------------------------------------------
DeployerTypeOK ==
    /\ rounds \in [Rounds -> RoundStates \cup {None}]
    /\ deployments \in Seq([round : Rounds, patch : Patches])
    /\ verified \in [Rounds -> SUBSET Patches]

\* However often verdicts come, a round is deployed at most once.
DeployedOnce ==
    \A i, j \in DOMAIN deployments :
        deployments[i].round = deployments[j].round => i = j

\* What is deployed is a patch that is submitted at that moment and the best of
\* those, the threshold of patches was submitted in the round, and some patch of
\* the round passed.
DeployedBestAfterPass ==
    [][deployments' # deployments =>
          LET d == deployments'[Len(deployments')]
              submitted == Submitted(rounds[d.round])
          IN /\ d.patch \in submitted
             /\ \A p \in submitted : Confidence[p] <= Confidence[d.patch]
             /\ Cardinality(rounds[d.round].passes \cup submitted) >= Threshold
             /\ verified'[d.round] # {}]_<<deployerVars, verified>>
=============================================================================
