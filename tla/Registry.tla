------------------------------ MODULE Registry ------------------------------
(***************************************************************************)
(* The patch registry (examples/flashpatch/src/patch-registry.ts): for each*)
(* strategy one patch of the overflow, with what its own static analysis   *)
(* found and how sure its author is (in percent).  The text of the patches *)
(* is left out: nothing but a reader looks at it.                          *)
(***************************************************************************)
EXTENDS Integers

\* PatchStrategy
Strategies == {"fast", "deep", "hybrid"}

\* staticAnalysis is optional; of its findings only `passed` decides anything.
PatchCandidate == [strategy : Strategies, staticAnalysis : {"none", "passed", "failed"},
                   confidence : 0..100, estimatedSecs : Nat]

Candidate(strategy, analysis, confidence, secs) ==
    [strategy |-> strategy, staticAnalysis |-> analysis,
     confidence |-> confidence, estimatedSecs |-> secs]

PATCH_REGISTRY == [fast   |-> Candidate("fast", "none", 72, 5),
                   deep   |-> Candidate("deep", "passed", 95, 30),
                   hybrid |-> Candidate("hybrid", "passed", 91, 15)]

GetPatch(strategy) == PATCH_REGISTRY[strategy]

ASSUME RegistryAssumption == PATCH_REGISTRY \in [Strategies -> PatchCandidate]

\* The outcome of verifyPatchAgainstExploit is fixed: every patch blocks the exploit,
\* the fast one with half the tests.
VerifyPatchAgainstExploit(strategy) ==
    [blocked |-> TRUE, testsFailed |-> 0,
     testsPassed |-> IF strategy = "fast" THEN 3 ELSE 6]
=============================================================================
