---------------------------- MODULE MCPgJobStore ----------------------------
(***************************************************************************)
(* Instances of PgJobStore for TLC, chosen by the .cfg files.              *)
(***************************************************************************)
EXTENDS PgJobStore, TLC

CONSTANTS a1, a2, b1,   \* jobs without a family
          r1, r2, r3,   \* request keys of one search.rebuild family
          k1, k2, kr, fam,
          Parts         \* the parts of this run

\* Two thinker jobs of session k1, one of session k2, and one family of
\* search.rebuild requests of key kr.  A session key is not in the table of
\* caps, so it takes the default, 1, which is that of a rebuild as well.
ConcurrencyKeys == [j \in Jobs |-> CASE j \in {a1, a2} -> k1 [] j = b1 -> k2 [] OTHER -> kr]
FamilyOf        == [j \in Jobs |-> IF j \in Thinkers THEN NoFamily ELSE fam]
Priorities      == [j \in Jobs |-> CASE j = a1 -> 1 [] j \in {a2, b1} -> 2 [] OTHER -> 4]
AttemptLimits   == [j \in Jobs |-> IF j \in {a1, b1} THEN 1 ELSE 2]
Caps            == [k \in Keys |-> 1]

\* Either the sessions' jobs and two workers, or the requests of the family,
\* two clients and one worker at a time: all together would be too many.  The
\* second session has its one job claimed once.
VARIABLE part

SessionsOnly ==
  /\ enq' = enq
  /\ \A j \in Jobs \ Thinkers : jobs_current'[j] = jobs_current[j]
  /\ jobs_current'[b1].claim_version <= 1

RebuildsOnly ==
  /\ Cardinality({w \in Workers : tx'[w] # NoTx}) <= 1
  /\ \A j \in Thinkers : jobs_current'[j] = jobs_current[j]

PartOnly == IF part = "sessions" THEN SessionsOnly ELSE RebuildsOnly

\* Workers are interchangeable, and so are the requests of the family.
Symmetry == Permutations(Workers) \union Permutations(Jobs \ Thinkers)

PartInit == Init /\ part \in Parts
PartNext == Next /\ PartOnly /\ UNCHANGED part
PartSpec == PartInit /\ [][PartNext]_<<vars, part>>
=============================================================================
