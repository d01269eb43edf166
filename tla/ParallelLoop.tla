----------------------------- MODULE ParallelLoop -----------------------------
(***************************************************************************)
(* An OpenMP "parallel for" with its static schedule: the threads of a     *)
(* team share the iterations out in blocks, one after the other, and wait  *)
(* for each other at the end.  A loop inside such a loop is run by the one *)
(* thread that meets it, as nested parallelism is off unless asked for.    *)
(***************************************************************************)
EXTENDS Integers

CONSTANT MaxTeam   (* bound: threads a client asks for *)

ASSUME TeamAssumption == MaxTeam \in Nat \ {0}

VARIABLES
  team,    (* threads of a loop: omp_set_num_threads() of the session      *)
  stage,   (* the loop that runs                                           *)
  done     (* iterations each thread has finished in it                    *)

loopVars == <<team, stage, done>>

Threads == 0 .. MaxTeam - 1
Team == 0 .. team - 1

(* n iterations in blocks: the first n % team threads take one more.        *)
Block(t, n) == n \div team + (IF t < n % team THEN 1 ELSE 0)
Before(t, n) == t * (n \div team) + (IF t < n % team THEN t ELSE n % team)

(* The iteration, from 1, that a thread is at. *)
Iteration(t, n) == Before(t, n) + done[t] + 1

InLoop(t, s, n) == stage = s /\ t \in Team /\ done[t] < Block(t, n)

EndIteration(t) == done' = [done EXCEPT ![t] = @ + 1]

NextLoopMutant(next) ==   \* the counts go on
  stage' = next /\ UNCHANGED done

NextLoop(next) ==
  /\ stage' = next
  /\ done' = [t \in Threads |-> 0]

(* The implicit barrier. *)
EndLoop(s, n, next) ==
  /\ stage = s
  /\ \A t \in Team : done[t] = Block(t, n)
  /\ NextLoop(next)

(* At least one thread, whatever the client asks for. *)
LoopInit(first) ==
  /\ team \in 1 .. MaxTeam
  /\ stage = first
  /\ done = [t \in Threads |-> 0]
===============================================================================
