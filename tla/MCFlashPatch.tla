---------------------------- MODULE MCFlashPatch ----------------------------
(***************************************************************************)
(* Model checking FlashPatch: the personas of examples/flashpatch/start.ts *)
(* with their floors, and the patches of the registry.                     *)
(***************************************************************************)
EXTENDS FlashPatch

CONSTANTS fast, deep, hybrid

\* A patch is known by the strategy it is registered under.
MCPatchOf == [a \in PatchAgents |-> IF a = fast THEN "fast" ELSE IF a = deep THEN "deep" ELSE "hybrid"]
\* Two of the personas, of which deep asks more than the budget of the run.
MCPairs == {{fast, hybrid}, {fast, deep}}
MCAll == {PatchAgents}
MCConfidence == [p \in Patches |-> GetPatch(p).confidence]
MCFloor == [a \in PatchAgents |-> IF a = fast THEN 50000 ELSE IF a = deep THEN 150000 ELSE 100000]
MCStaticAnalysis == [p \in Patches |-> GetPatch(p).staticAnalysis]
\* An agent whose own analysis found fault with the patch it sells.
MCAnalysisFailed == [p \in Patches |-> IF p = "fast" THEN "none" ELSE "failed"]
=============================================================================
