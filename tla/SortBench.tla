------------------------------ MODULE SortBench ------------------------------
(***************************************************************************)
(* The driver Test of sort-bench: initialise the keys, sort them with the  *)
(* library under test, verify the result, several times over.              *)
(*                                                                         *)
(* The backends differ in who does that.  With "dash" and "mpi" (also      *)
(* usort) the workers are processes that run Test side by side, each on    *)
(* its part of the keys; "dash" can look at the parts of others.  With     *)
(* "tbb" and "openmp" worker 0 runs Test and the others are the threads of *)
(* its parallel loops, each on a block.  The sort itself is external: it   *)
(* returns the keys in order or, up to MaxFaults times, anything.          *)
(***************************************************************************)
EXTENDS Integers, FiniteSets

CONSTANTS Builds,     \* backend, number of workers, keys per worker
          Keys,       \* the values of keys
          Iterations, \* BURN_IN + NITER
          MaxFaults   \* bound: how many sorts fail

ASSUME SortBenchAssumption ==
  /\ \A b \in Builds : /\ b.backend \in {"dash", "mpi", "tbb", "openmp"}
                       /\ b.workers \in Nat \ {0} /\ b.length \in Nat \ {0}
  /\ Keys \subseteq Int /\ Keys # {}
  /\ Iterations \in Nat \ {0} /\ MaxFaults \in Nat

VARIABLES
  build,
  pc,        \* pc[w]: what worker w does next
  iter,      \* iter[w]: the iteration it is in, from 1
  keys,      \* keys[w]: the part or block of worker w
  step,      \* step[w]: how many positions of it w has verified
  nerror,    \* nerror[w]: the counter of worker w; with "tbb" all use that of 0
  seen,      \* seen[w]: nerror as last read by w in order to increment it
  entered,   \* entered[w]: how many barriers w has entered
  disorder,  \* the iterations after whose sort the keys were out of order
  alarms,    \* the iterations that "validation failed!" was printed for
  left_early \* has a worker returned from parallel_verify before its barrier?

data    == <<keys, disorder>>
errors  == <<step, nerror, seen>>
reports == <<alarms, left_early>>
vars    == <<build, pc, iter, data, errors, entered, reports>>

Workers   == 0 .. build.workers - 1
Positions == 1 .. build.length
Parts     == [Workers -> [Positions -> Keys]]

Shared == build.backend \in {"tbb", "openmp"}

At(w, label)   == pc[w] = label
Goto(w, label) == pc' = [pc EXCEPT ![w] = label]

-----------------------------------------------------------------------------
\* Is key l of v, which comes after key k of w, smaller than that?
Comes(w, k, v, l)          == w < v \/ (w = v /\ k < l)
Inversion(parts, w, k, v, l) == Comes(w, k, v, l) /\ parts[v][l] < parts[w][k]

\* The processes of an MPI backend can only see their own parts.
OutOfOrder(parts) ==
  \E w, v \in Workers : \E k, l \in Positions :
    /\ build.backend = "mpi" => w = v
    /\ Inversion(parts, w, k, v, l)

HowMany(parts, key) ==
  Cardinality({p \in Workers \X Positions : parts[p[1]][p[2]] = key})

Sorted(result) ==
  /\ \A w, v \in Workers : \A k, l \in Positions : ~Inversion(result, w, k, v, l)
  /\ \A key \in Keys : HowMany(result, key) = HowMany(keys, key)

-----------------------------------------------------------------------------
Init ==
  /\ build \in Builds
  /\ pc = [w \in Workers |-> "parallel_rand"]
  /\ iter = [w \in Workers |-> 1]
  /\ \E key \in Keys : keys = [w \in Workers |-> [k \in Positions |-> key]]
  /\ step = [w \in Workers |-> 0]
  /\ nerror = [w \in Workers |-> 0]
  /\ seen = [w \in Workers |-> 0]
  /\ entered = [w \in Workers |-> 0]
  /\ disorder = {}
  /\ alarms = {}
  /\ left_early = FALSE

(***************************************************************************)
(* parallel_rand, with a barrier at its end (of the team, or the join of   *)
(* the threads) except with MPI.                                           *)
(***************************************************************************)
\* Mutant: DASH without the barrier.
AfterRandAtOnce == IF Shared THEN "rand_barrier" ELSE "start"

AfterRand == IF build.backend = "mpi" THEN "start" ELSE "rand_barrier"

ParallelRand(w) ==
  /\ At(w, "parallel_rand")
  /\ Shared => iter[0] >= iter[w]
  /\ \E part \in [Positions -> Keys] : keys' = [keys EXCEPT ![w] = part]
  /\ Goto(w, AfterRand)
  /\ UNCHANGED <<build, iter, disorder, errors, entered, reports>>

\* The two barriers: after parallel_rand and at the end of parallel_verify.
EnterBarrier(w) ==
  /\ \/ At(w, "rand_barrier") /\ Goto(w, "rand_wait")
     \/ At(w, "verify_barrier") /\ Goto(w, "verify_wait")
  /\ entered' = [entered EXCEPT ![w] = @ + 1]
  /\ UNCHANGED <<build, iter, data, errors, reports>>

LeaveBarrier(w) ==
  /\ \A v \in Workers : entered[v] >= entered[w]
  /\ \/ At(w, "rand_wait") /\ Goto(w, "start")
     \/ At(w, "verify_wait") /\ Goto(w, "report")
  /\ UNCHANGED <<build, iter, data, errors, entered, reports>>

ReadStart(w) ==
  /\ At(w, "start")
  /\ Goto(w, "parallel_sort")
  /\ UNCHANGED <<build, iter, data, errors, entered, reports>>

\* The sort needs all the workers, and is over for all at the same time.
ParallelSort ==
  /\ \A w \in Workers : At(w, "parallel_sort")
  /\ \E result \in Parts :
       /\ Sorted(result) \/ Cardinality(disorder) < MaxFaults
       /\ keys' = result
       /\ disorder' = IF OutOfOrder(result) THEN disorder \cup {iter[w] : w \in Workers}
                      ELSE disorder
  /\ pc' = [w \in Workers |-> "parallel_verify"]
  /\ step' = [w \in Workers |-> 0]
  /\ nerror' = [w \in Workers |-> 0]
  /\ UNCHANGED <<build, iter, seen, entered, reports>>

-----------------------------------------------------------------------------
(***************************************************************************)
(* parallel_verify: the keys of a part from the second on are compared     *)
(* with those before them, at last the first one with the last of the part *)
(* before, where that can be seen (the threads begin with that one, which  *)
(* makes no difference).  ++nerror reads, then writes; with "tbb" nothing  *)
(* keeps the threads from doing so at the same time.                       *)
(***************************************************************************)
Counter(w) == IF build.backend = "tbb" THEN 0 ELSE w

LastStep == IF build.backend = "mpi" THEN build.length - 1 ELSE build.length

\* Mutant: the parts are not compared with each other.
LessThanBeforeLocal(w) ==
  LET k == step[w] + 2 IN k <= build.length /\ keys[w][k] < keys[w][k - 1]

LessThanBefore(w) ==
  LET k == step[w] + 2
  IN  IF k <= build.length THEN keys[w][k] < keys[w][k - 1]
      ELSE w > 0 /\ keys[w][1] < keys[w - 1][build.length]

\* DASH returns as soon as it knows its own part to be out of order.
GivesUp(w) ==
  build.backend = "dash" /\ step[w] = build.length - 1 /\ nerror[w] > 0

Compare(w) ==
  /\ At(w, "parallel_verify") /\ step[w] < LastStep /\ ~GivesUp(w)
  /\ IF LessThanBefore(w)
     THEN /\ seen' = [seen EXCEPT ![w] = nerror[Counter(w)]]
          /\ Goto(w, "increment") /\ UNCHANGED step
     ELSE step' = [step EXCEPT ![w] = @ + 1] /\ UNCHANGED <<pc, seen>>
  /\ UNCHANGED <<build, iter, data, nerror, entered, reports>>

Increment(w) ==
  /\ At(w, "increment")
  /\ nerror' = [nerror EXCEPT ![Counter(w)] = seen[w] + 1]
  /\ step' = [step EXCEPT ![w] = @ + 1]
  /\ Goto(w, "parallel_verify")
  /\ UNCHANGED <<build, iter, data, seen, entered, reports>>

GiveUp(w) ==
  /\ At(w, "parallel_verify") /\ GivesUp(w)
  /\ left_early' = TRUE
  /\ Goto(w, "report")
  /\ UNCHANGED <<build, iter, data, errors, entered, alarms>>

\* Mutant: no barrier at the end.
EndVerifyAtOnce(w) ==
  /\ At(w, "parallel_verify") /\ step[w] >= LastStep
  /\ Goto(w, "report")
  /\ UNCHANGED <<build, iter, data, errors, entered, reports>>

\* Mutant: the barrier is inside if (myid > 0).
EndVerifyInIf(w) ==
  /\ At(w, "parallel_verify") /\ step[w] >= LastStep
  /\ Goto(w, IF w > 0 THEN "verify_barrier" ELSE "report")
  /\ UNCHANGED <<build, iter, data, errors, entered, reports>>

EndVerify(w) ==
  /\ At(w, "parallel_verify") /\ step[w] >= LastStep
  /\ Goto(w, "verify_barrier")
  /\ UNCHANGED <<build, iter, data, errors, entered, reports>>

\* What parallel_verify returns; OpenMP adds up the counters of the threads.
Fails(w) ==
  IF build.backend = "openmp" THEN \E v \in Workers : nerror[v] > 0 ELSE nerror[w] > 0

Report(w) ==
  /\ At(w, "report")
  /\ alarms' = IF Fails(w) /\ (Shared => w = 0) THEN alarms \cup {iter[w]} ELSE alarms
  /\ iter' = [iter EXCEPT ![w] = @ + 1]
  /\ Goto(w, IF iter[w] < Iterations THEN "parallel_rand" ELSE "done")
  /\ UNCHANGED <<build, data, errors, entered, left_early>>

-----------------------------------------------------------------------------
Step(w) ==
  \/ ParallelRand(w)
  \/ EnterBarrier(w)
  \/ LeaveBarrier(w)
  \/ ReadStart(w)
  \/ Compare(w)
  \/ Increment(w)
  \/ GiveUp(w)
  \/ EndVerify(w)
  \/ Report(w)

AllDone == \A w \in Workers : At(w, "done")
Exit    == AllDone /\ UNCHANGED vars

Next == ParallelSort \/ (\E w \in Workers : Step(w)) \/ Exit

\* Workers run on their own; every loop is finite.
Spec == Init /\ [][Next]_vars /\ WF_vars(Next)

-----------------------------------------------------------------------------
Labels == {"parallel_rand", "rand_barrier", "rand_wait", "start", "parallel_sort",
           "parallel_verify", "increment", "verify_barrier", "verify_wait", "report",
           "done"}

SortTypeOK ==
  /\ build \in Builds
  /\ pc \in [Workers -> Labels]
  /\ iter \in [Workers -> 1 .. Iterations + 1]
  /\ keys \in Parts
  /\ step \in [Workers -> 0 .. build.length]
  /\ nerror \in [Workers -> Nat]
  /\ seen \in [Workers -> Nat]
  /\ entered \in [Workers -> Nat]
  /\ disorder \subseteq 1 .. Iterations
  /\ alarms \subseteq 1 .. Iterations
  /\ left_early \in BOOLEAN

(***************************************************************************)
(* "validation failed!" is only printed for a sort whose result was out of *)
(* order: no worker looks at keys that another has begun to initialise for *)
(* the next iteration.                                                     *)
(***************************************************************************)
AlarmsAreReal == alarms \subseteq disorder

(***************************************************************************)
(* If the result was out of order, some worker says so: comparing          *)
(* neighbours is enough, also across the parts, and increments that are    *)
(* lost never bring the counter back to zero.                              *)
(***************************************************************************)
DisorderNoticed ==
  \A i \in disorder : (\A w \in Workers : iter[w] > i) => i \in alarms

(***************************************************************************)
(* While worker 0, whose time is printed, measures the sort, all keys are  *)
(* initialised and nobody verifies yet - unless a worker of the DASH       *)
(* backend has left parallel_verify before its barrier and is out of step. *)
(* (MPI backends have no barrier between parallel_rand and the timer.)     *)
(***************************************************************************)
TimerCoversTheSort ==
  build.backend # "mpi" /\ ~left_early /\ At(0, "parallel_sort") =>
    \A w \in Workers : pc[w] \in {"rand_wait", "start", "parallel_sort"}

(***************************************************************************)
(* Every worker gets through all iterations, whatever the sort returns -   *)
(* with the same exception: who leaves early misses a barrier.             *)
(***************************************************************************)
SortEnds == <>(AllDone \/ left_early)
=============================================================================
