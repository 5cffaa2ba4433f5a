------------------------ MODULE MCScheduledDispatch ------------------------
(***************************************************************************)
(* Small instances of ScheduledDispatch for TLC.                           *)
(***************************************************************************)
EXTENDS ScheduledDispatch, TLC

CONSTANTS w1, w2, a1, none

Interchangeable == Permutations(Workers)

\* Two scheduled messages.
Messages == [r \in Rows |-> none]
\* Two markers of the same approval: the insert of the first was reported as
\* failed, the approval was released and approved again.
DuplicateMarkers == [r \in Rows |-> a1]
=============================================================================
