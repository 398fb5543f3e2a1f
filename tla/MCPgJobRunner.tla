---------------------------- MODULE MCPgJobRunner ---------------------------
(***************************************************************************)
(* Instances of PgJobRunner for TLC, chosen by the .cfg files.             *)
(***************************************************************************)
EXTENDS PgJobRunner, TLC

CONSTANTS a1, a2, b1, r1, r2, k1, k2, kr, fam

\* Two thinker jobs of one session and a job of a type no worker function is
\* registered for, ahead of them in priority.
MixedKeys     == (a1 :> k1) @@ (a2 :> k1) @@ (b1 :> k2)
MixedPriority == (a1 :> 9) @@ (a2 :> 9) @@ (b1 :> 4)
MixedAttempts == (a1 :> 2) @@ (a2 :> 1) @@ (b1 :> 1)
OneEach       == [k \in Keys |-> 1]
NoFamilies    == [j \in Jobs |-> NoFamily]

\* Two requests of one search.rebuild family, and a thinker job of each of two
\* sessions.
RebuildPriority == [j \in Jobs |-> IF j \in Thinkers THEN 9 ELSE 4]
RebuildAttempts == [j \in Jobs |-> IF j \in Thinkers THEN 1 ELSE 2]
OneFamily       == [j \in Jobs |-> IF j \in Thinkers THEN NoFamily ELSE fam]
RebuildKeys     == (a1 :> k1) @@ (b1 :> k2) @@ (r1 :> kr) @@ (r2 :> kr)
=============================================================================
