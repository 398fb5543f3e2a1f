------------------------------ MODULE JobQueue ------------------------------
(***************************************************************************)
(* What the durable job store promises its users: a queue whose claim is   *)
(* one atomic step that respects the cap of the job's concurrency key, in  *)
(* which a family has one job under way at most.  PgJobStore implements it *)
(* with transactions of several statements (ImplementsQueue there).        *)
(***************************************************************************)
EXTENDS Naturals, FiniteSets

CONSTANTS Jobs, Keys, Families, NoFamily, ConcurrencyKey, Family, Cap

VARIABLE state   \* "absent", "waiting", "granted" or "finished", for each job

In(s) == {j \in Jobs : state[j] = s}

UnderWay(f) == {j \in In("waiting") \cup In("granted") : Family[j] = f}

Move(S, s) == state' = [j \in Jobs |-> IF j \in S THEN s ELSE state[j]]

QueueInit == state = [j \in Jobs |-> "absent"]

Submit(j) ==
  /\ state[j] = "absent"
  /\ Family[j] # NoFamily => UnderWay(Family[j]) = {}
  /\ Move({j}, "waiting")

Grant(j) ==
  /\ state[j] = "waiting"
  /\ Cardinality({i \in In("granted") : ConcurrencyKey[i] = ConcurrencyKey[j]})
       < Cap[ConcurrencyKey[j]]
  /\ Move({j}, "granted")

\* Failed attempts that may be retried, and leases that ran out.
Requeue == \E S \in SUBSET In("granted") : Move(S, "waiting")

Finish(j) == state[j] = "granted" /\ Move({j}, "finished")

\* A finished rebuild may leave a successor in its family.
FinishAndFollow(j, k) ==
  /\ Family[k] = Family[j] /\ Family[j] # NoFamily
  /\ UnderWay(Family[j]) = {j}
  /\ state' = [i \in Jobs |-> IF i = j THEN "finished"
                              ELSE IF i = k THEN "waiting" ELSE state[i]]

Forget == \E S \in SUBSET In("finished") : Move(S, "absent")

\* Every step of the queue changes it.
QueueNext ==
  /\ state' # state
  /\ \/ \E j \in Jobs : Submit(j) \/ Grant(j) \/ Finish(j)
     \/ \E j \in In("granted"), k \in In("absent") : FinishAndFollow(j, k)
     \/ Requeue \/ Forget

QueueSpec == QueueInit /\ [][QueueNext]_state

=============================================================================
