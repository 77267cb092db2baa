---------------------------- MODULE MCReleaseGate ----------------------------
(* Instances of ReleaseGate for TLC.                                         *)
EXTENDS ReleaseGate, TLC

CONSTANTS a1, a2, s1, s2, s3

GateSymmetry == Permutations(Candidates \ ReworkCandidates)
=============================================================================
