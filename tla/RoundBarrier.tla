---------------------------- MODULE RoundBarrier ----------------------------
(***************************************************************************)
(* What a reusable barrier promises its participants: nobody starts round  *)
(* k before everybody has finished round k - 1.  A participant announces   *)
(* that it has reached the barrier (Arrive) and is let through once every  *)
(* other participant has announced the same round (Pass).                  *)
(*                                                                         *)
(* This is the specification of the MPI_Barrier and sync-all calls of the  *)
(* benchmarks, and the abstract specification that the hand-made thread    *)
(* barrier of osu_latency_mt.c implements (module LatencyMT).              *)
(***************************************************************************)
EXTENDS Naturals

CONSTANTS Parties,    \* who takes part in the barrier
          LastRound   \* the number of rounds

VARIABLES arrived,    \* arrived[p]: the last round p has reached the barrier of
          passed      \* passed[p]:  the last round p has been let into

rbvars == <<arrived, passed>>

Init == /\ arrived = [p \in Parties |-> 0]
        /\ passed  = [p \in Parties |-> 0]

Arrive(p) == /\ arrived[p] = passed[p]
             /\ arrived[p] < LastRound
             /\ arrived' = [arrived EXCEPT ![p] = @ + 1]
             /\ UNCHANGED passed

Pass(p) == /\ passed[p] < arrived[p]
           /\ \A q \in Parties : arrived[q] >= arrived[p]
           /\ passed' = [passed EXCEPT ![p] = arrived[p]]
           /\ UNCHANGED arrived

Next == \E p \in Parties : Arrive(p) \/ Pass(p)

Spec == Init /\ [][Next]_rbvars

-----------------------------------------------------------------------------
TypeOK == /\ arrived \in [Parties -> 0..LastRound]
          /\ passed  \in [Parties -> 0..LastRound]

(***************************************************************************)
(* Nobody works on a round that somebody else has not reached.             *)
(***************************************************************************)
NobodyAhead == \A p, q \in Parties : passed[p] <= arrived[q]
=============================================================================
