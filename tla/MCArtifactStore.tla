--------------------------- MODULE MCArtifactStore ---------------------------
(* Instances of ArtifactStore for TLC. *)
EXTENDS ArtifactStore

CONSTANTS small, large

\* The quota holds two small contents or one, and the large one alone exceeds it.
MCBytes == [x \in {small, large} |-> IF x = small THEN 1 ELSE 3]
=============================================================================
