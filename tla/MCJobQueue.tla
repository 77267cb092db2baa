----------------------------- MODULE MCJobQueue -----------------------------
(* Instances of JobQueue for TLC.                                            *)
EXTENDS JobQueue, TLC

CONSTANTS j1, j2, w1, w2, w3, tree

NoDependencies == [j \in Jobs |-> {}]
\* j2 depends on j1 and, as its assurance job, is cancelled with it.
J2AfterJ1 == (j1 :> {}) @@ (j2 :> {j1})
J2ChecksJ1 == (j1 :> {j2}) @@ (j2 :> {})
NoWorktrees == [j \in Jobs |-> NoWorktree]
OneWorktree == [j \in Jobs |-> tree]

WorkerSymmetry == Permutations(Workers)
=============================================================================
