-------------------------- MODULE MCDeliveryRelease --------------------------
(* Instances of DeliveryRelease for TLC.                                     *)
EXTENDS DeliveryRelease, TLC

CONSTANTS c1, c2, r1, r2, s1, s2, s3, v1, v2

\* GitHub with an SBOM, the same with a signature required, and local delivery.
GithubContract == [github |-> TRUE, sbom |-> TRUE, signing |-> FALSE, announce |-> TRUE]
SignedContract == [GithubContract EXCEPT !.signing = TRUE]
LocalContract == [github |-> FALSE, sbom |-> FALSE, signing |-> FALSE, announce |-> FALSE]
PlainContract == {[GithubContract EXCEPT !.sbom = FALSE, !.announce = FALSE]}
SomeContracts == {GithubContract, SignedContract, LocalContract}
CallerSymmetry == Permutations(Callers)
=============================================================================
