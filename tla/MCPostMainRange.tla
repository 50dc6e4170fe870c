--------------------------- MODULE MCPostMainRange ---------------------------
(* Small instances of PostMainRange for TLC. *)
EXTENDS PostMainRange

CONSTANTS a, b   \* lanes

\* A lane's files of version 1 fail under the old workflow, of version 0 under the new one.
MCBad == {<<1, 0>>, <<0, 1>>}
OneLane == {a}
TwoLanes == {a, b}
=============================================================================
