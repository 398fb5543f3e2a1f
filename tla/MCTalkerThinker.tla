--------------------------- MODULE MCTalkerThinker --------------------------
(***************************************************************************)
(* Instances of TalkerThinker for TLC, chosen by the .cfg files.           *)
(***************************************************************************)
EXTENDS TalkerThinker, TLC

\* The ticks are interchangeable.
Ticks == Permutations(Workers)

AllEnqueued == \A v \in Turns : talker[v] = "done"

\* The Thinker has fallen behind: nothing claims before every turn waits.
BacklogNext == Next /\ (~AllEnqueued => UNCHANGED <<work, sweep>>)
BacklogSpec == Init /\ [][BacklogNext]_vars
=============================================================================
