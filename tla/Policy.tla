------------------------------- MODULE Policy -------------------------------
(***************************************************************************)
(* The policy middleware (packages/agent-runtime/src/policy/policy.ts):    *)
(* the choke point a deposit or a release passes before funds move.  Pure: *)
(* the caller says what it is about to do and under which limits, and is   *)
(* told whether every rule is kept.                                        *)
(***************************************************************************)
EXTENDS Integers

CONSTANT Unset   \* a limit or a field that is not given

Given(x) == x # Unset

OrElse(x, default) == IF Given(x) THEN x ELSE default

\* Mutant: there is no cap on a round.
NoRoundCap(d, p) == TRUE

\* The rules a deposit d must keep under policy p; enforce lists the broken ones.
WithinRoundCap(d, p) == Given(p.maxPerRound) => d.amount <= p.maxPerRound

\* Mutant: what was spent before is not counted.
SpentNotCounted(d, p) == Given(p.maxPerSession) => d.amount <= p.maxPerSession

WithinSessionCap(d, p) ==
    Given(p.maxPerSession) => OrElse(d.spent, 0) + d.amount <= p.maxPerSession

WithinAward(d, p) == Given(d.awarded) => d.amount <= d.awarded

ServiceAllowed(d, p) == p.services = {} \/ d.service \in p.services

PayoutBound(d, p) == Given(p.payout) => d.payout = p.payout

\* Mutant: off by one.
OneTickEarly(d, p) ==
    Given(p.minInterval) /\ Given(d.lastDepositAt)
        => d.now - d.lastDepositAt + 1 >= p.minInterval

NotTooSoon(d, p) ==
    Given(p.minInterval) /\ Given(d.lastDepositAt)
        => d.now - d.lastDepositAt >= p.minInterval

MayDeposit(d, p) ==
    /\ WithinRoundCap(d, p) /\ WithinSessionCap(d, p) /\ WithinAward(d, p)
    /\ ServiceAllowed(d, p) /\ PayoutBound(d, p) /\ NotTooSoon(d, p)

\* A release is gated on a verifier's pass when a verifier is required.
MayRelease(verified, p) == p.requireVerifier => verified = "pass"

\* An environment number: unset, empty and 0 all mean "not given".
EnvNumber(n) == IF Given(n) /\ n > 0 THEN n ELSE Unset

\* The policy an agent builds at start-up, from POLICY_* and its own budget.
PolicyFromEnv(env, budget, service, payout) ==
    [maxPerRound     |-> OrElse(EnvNumber(env.maxPerRound), budget),
     maxPerSession   |-> EnvNumber(env.maxPerSession),
     services        |-> IF env.services # {} THEN env.services ELSE {service},
     payout          |-> payout,
     minInterval     |-> EnvNumber(env.minInterval),
     requireVerifier |-> env.verifier]
=============================================================================
