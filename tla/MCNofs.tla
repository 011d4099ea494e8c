-------------------------------- MODULE MCNofs --------------------------------
(***************************************************************************)
(* Instances of Nofs for TLC: at most two mounts, three sessions and two   *)
(* paths, one of which starts on the remote.                               *)
(***************************************************************************)
EXTENDS NofsStore, TLC

CONSTANTS m1, m2, s1, s2, s3, p1, p2

\* s1 and s2 use the first mount, s3 the second.
SharedMounts == [s \in Sessions |-> IF s = s3 THEN m2 ELSE m1]
OneMount == [s \in Sessions |-> m1]

\* s1 and s2 are alike; s3 is alone on its mount.
SessionSymmetry == Permutations({s1, s2})
===============================================================================
