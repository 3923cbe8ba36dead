--------------------------- MODULE SortBenchProofs ---------------------------
(***************************************************************************)
(* Proofs about sort-bench, for any number of workers and keys: what the   *)
(* barriers are good for, and that comparing neighbours notices every sort *)
(* that has gone wrong.  Liveness is left to TLC.                          *)
(***************************************************************************)
EXTENDS SortBench, TLAPS, NumberLemmas

-----------------------------------------------------------------------------
Waiting(w) == pc[w] \in {"rand_wait", "verify_wait"}

\* How many sorts have taken place, from what worker w knows.
AfterSort == {"parallel_verify", "increment", "verify_barrier", "verify_wait", "report"}
Sorts(w)  == iter[w] - 1 + (IF pc[w] \in AfterSort THEN 1 ELSE 0)

\* How many barriers worker w should have entered where it is, and how many
\* it has left out (except with MPI, which has only one per iteration).
InFirst  == {"rand_wait", "start", "parallel_sort", "parallel_verify", "increment",
             "verify_barrier"}
InSecond == {"verify_wait", "report"}
Due(w) ==
  2 * (iter[w] - 1)
    + (IF pc[w] \in InFirst THEN 1 ELSE IF pc[w] \in InSecond THEN 2 ELSE 0)
Skipped(w) == Due(w) - entered[w]

-----------------------------------------------------------------------------
\* A barrier that has been left has been entered by all.
BarrierInv ==
  \A w, v \in Workers : entered[v] >= entered[w] - (IF Waiting(w) THEN 1 ELSE 0)

\* The sort takes place for all at once.
SortedInv == \A w, v \in Workers : Sorts(w) = Sorts(v)

\* Errors are only counted in iterations with a disorder.
ErrorInv ==
  \A w \in Workers : nerror[w] > 0 \/ At(w, "increment") => Sorts(w) \in disorder

\* Workers get out of step only then.
SkipInv ==
  build.backend # "mpi" =>
    \A w, v \in Workers : Skipped(w) # Skipped(v) => Sorts(w) \in disorder

\* What is being verified is still what the sort has returned.
OwnPartInv ==
  \A w \in Workers :
    At(w, "parallel_verify") /\ Sorts(w) \notin disorder =>
      \A k \in Positions \ {1} : keys[w][k - 1] <= keys[w][k]

PartBeforeInv ==
  build.backend # "mpi" =>
    \A w \in Workers \ {0} :
      At(w, "parallel_verify") /\ Sorts(w) \notin disorder =>
        keys[w - 1][build.length] <= keys[w][1]

EarlyInv ==
  build.backend # "mpi" /\ ~left_early => \A w \in Workers : Skipped(w) = 0

LabelInv ==
  \A w \in Workers :
    /\ pc[w] # "done" => iter[w] <= Iterations
    /\ At(w, "increment") => step[w] < build.length

IInv ==
  /\ SortTypeOK
  /\ BarrierInv
  /\ SortedInv
  /\ ErrorInv
  /\ SkipInv
  /\ OwnPartInv
  /\ PartBeforeInv
  /\ EarlyInv
  /\ LabelInv
  /\ AlarmsAreReal

-----------------------------------------------------------------------------
\* What the proofs need of the types.
LEMMA Types ==
  ASSUME SortTypeOK
  PROVE  /\ build.backend \in {"dash", "mpi", "tbb", "openmp"}
         /\ build.workers \in Nat \ {0} /\ build.length \in Nat \ {0}
         /\ Workers \subseteq Nat /\ 0 \in Workers
         /\ Positions \subseteq Nat /\ 1 \in Positions /\ build.length \in Positions
         /\ \A w \in Workers : /\ Sorts(w) \in Int /\ Due(w) \in Int /\ Skipped(w) \in Int
                               /\ pc[w] \in Labels /\ iter[w] \in Nat /\ entered[w] \in Nat
                               /\ nerror[w] \in Nat /\ step[w] \in Nat
         /\ \A w \in Workers : \A k \in Positions : keys[w][k] \in Int
<1>1. /\ build.backend \in {"dash", "mpi", "tbb", "openmp"}
      /\ build.workers \in Nat \ {0} /\ build.length \in Nat \ {0}
  BY SortBenchAssumption DEF SortTypeOK
<1>2. /\ Workers \subseteq Nat /\ 0 \in Workers
      /\ Positions \subseteq Nat /\ 1 \in Positions /\ build.length \in Positions
  BY <1>1 DEF Workers, Positions
<1>3. ASSUME NEW w \in Workers
      PROVE  /\ pc[w] \in Labels /\ iter[w] \in Nat /\ entered[w] \in Nat
             /\ nerror[w] \in Nat /\ step[w] \in Nat
  <2>1. \A n \in Nat : 0 .. n \subseteq Nat /\ 1 .. n \subseteq Nat
    OBVIOUS
  <2>2. iter[w] \in 1 .. Iterations + 1 /\ step[w] \in 0 .. build.length
    BY DEF SortTypeOK
  <2>3. Iterations + 1 \in Nat
    BY SortBenchAssumption
  <2> QED BY <1>1, <2>1, <2>2, <2>3 DEF SortTypeOK
<1>4. ASSUME NEW w \in Workers
      PROVE  Sorts(w) \in Int /\ Due(w) \in Int /\ Skipped(w) \in Int
  <2>1. iter[w] \in Int /\ entered[w] \in Int
    BY <1>3
  <2> QED BY <2>1 DEF Sorts, Due, Skipped
<1>5. ASSUME NEW w \in Workers, NEW k \in Positions PROVE keys[w][k] \in Int
  <2>1. keys[w] \in [Positions -> Keys]
    BY DEF SortTypeOK, Parts
  <2> QED BY <2>1, SortBenchAssumption
<1> QED BY <1>1, <1>2, <1>3, <1>4, <1>5

\* Steps after which every worker is as far as it was.
LEMMA Kept ==
  ASSUME IInv, UNCHANGED <<build, disorder, left_early>>,
         \A v \in Workers : Sorts(v)' = Sorts(v) /\ Skipped(v)' = Skipped(v)
  PROVE  SortedInv' /\ SkipInv' /\ EarlyInv'
<1> USE DEF IInv
<1>1. Workers' = Workers
  BY DEF Workers
<1>2. SortedInv'
  BY <1>1 DEF SortedInv
<1>3. SkipInv'
  BY <1>1 DEF SkipInv
<1>4. EarlyInv'
  BY <1>1 DEF EarlyInv
<1> QED BY <1>2, <1>3, <1>4

\* While a worker verifies keys that are in order, the one before it cannot
\* have begun the next iteration.
LEMMA NotAhead ==
  ASSUME IInv, build.backend # "mpi", NEW w \in Workers, NEW v \in Workers,
         At(w, "parallel_verify"), Sorts(w) \notin disorder
  PROVE  ~At(v, "parallel_rand")
<1> SUFFICES ASSUME At(v, "parallel_rand") PROVE FALSE
  OBVIOUS
<1> USE Types DEF IInv
<1>1. Sorts(v) = Sorts(w) /\ Skipped(v) = Skipped(w)
  BY DEF SortedInv, SkipInv
<1>2. iter[v] = iter[w] + 1
  BY <1>1 DEF Sorts, At, AfterSort
<1>3. Due(v) = 2 * iter[w] /\ Due(w) = 2 * iter[w] - 1
  BY <1>2 DEF Due, At, InFirst, InSecond
<1>4. entered[v] = entered[w] + 1
  BY <1>1, <1>3 DEF Skipped
<1>5. entered[w] >= entered[v]
  BY DEF BarrierInv, Waiting, At
<1> QED BY <1>4, <1>5

-----------------------------------------------------------------------------
LEMMA InitInv == Init => IInv
<1> SUFFICES ASSUME Init PROVE IInv
  OBVIOUS
<1> USE DEF Init
<1>1. build.backend \in {"dash", "mpi", "tbb", "openmp"} /\ build.length \in Nat \ {0}
  BY SortBenchAssumption
<1>2. SortTypeOK
  <2>1. 1 \in 1 .. Iterations + 1 /\ 0 \in 0 .. build.length
    BY <1>1, SortBenchAssumption
  <2>2. keys \in Parts
    <3> PICK key \in Keys : keys = [w \in Workers |-> [k \in Positions |-> key]]
      OBVIOUS
    <3> QED BY DEF Parts
  <2> QED BY <2>1, <2>2 DEF SortTypeOK, Labels
<1>3. \A w \in Workers : Sorts(w) = 0 /\ Due(w) = 0 /\ Skipped(w) = 0
  BY DEF Sorts, Due, Skipped, AfterSort, InFirst, InSecond
<1>4. BarrierInv /\ LabelInv /\ ErrorInv /\ OwnPartInv /\ PartBeforeInv /\ AlarmsAreReal
  BY SortBenchAssumption DEF BarrierInv, Waiting, LabelInv, ErrorInv, OwnPartInv, PartBeforeInv,
     AlarmsAreReal, At
<1>5. SortedInv /\ SkipInv /\ EarlyInv
  BY <1>3 DEF SortedInv, SkipInv, EarlyInv
<1> QED BY <1>2, <1>4, <1>5 DEF IInv

LEMMA ParallelRandInv ==
  ASSUME IInv, NEW w \in Workers, ParallelRand(w) PROVE IInv'
<1> USE Types DEF IInv
<1> PICK part \in [Positions -> Keys] : keys' = [keys EXCEPT ![w] = part]
  BY DEF ParallelRand
<1>1. /\ UNCHANGED <<build, iter, disorder, step, nerror, seen, entered, alarms, left_early>>
      /\ Workers' = Workers /\ Positions' = Positions
      /\ At(w, "parallel_rand") /\ pc' = [pc EXCEPT ![w] = AfterRand]
  BY DEF ParallelRand, Workers, Positions, errors, reports, Goto
<1>2. AfterRand \in {"rand_barrier", "start"} /\ (build.backend # "mpi" => AfterRand = "rand_barrier")
  BY DEF AfterRand
<1>3. SortTypeOK'
  BY <1>1, <1>2 DEF SortTypeOK, Parts, Labels
<1>4. \A v \in Workers : Sorts(v)' = Sorts(v)
  BY <1>1, <1>2 DEF SortTypeOK, Sorts, AfterSort, At
<1>5. BarrierInv'
  BY <1>1, <1>2 DEF BarrierInv, SortTypeOK, Waiting, At
<1>6. LabelInv' /\ ErrorInv' /\ AlarmsAreReal'
  BY <1>1, <1>2, <1>4 DEF LabelInv, SortTypeOK, ErrorInv, At, AlarmsAreReal
<1>7. OwnPartInv'
  BY <1>1, <1>2, <1>4 DEF OwnPartInv, SortTypeOK, At, Parts
<1>8. PartBeforeInv'
  <2> SUFFICES ASSUME build.backend # "mpi", NEW v \in Workers \ {0},
                      At(v, "parallel_verify")', Sorts(v) \notin disorder
               PROVE  keys'[v - 1][build.length] <= keys'[v][1]
    BY <1>1, <1>4 DEF PartBeforeInv
  <2>1. v # w /\ At(v, "parallel_verify")
    BY <1>1, <1>2 DEF SortTypeOK, At
  <2>2. v - 1 # w /\ v - 1 \in Workers
    BY <1>1, <2>1, NotAhead DEF Workers
  <2> QED BY <2>1, <2>2 DEF PartBeforeInv, SortTypeOK, Parts
<1>9. SortedInv' /\ SkipInv' /\ EarlyInv'
  <2>1. CASE build.backend = "mpi"
    BY <1>1, <1>4, <2>1 DEF SortedInv, SkipInv, EarlyInv
  <2>2. CASE build.backend # "mpi"
    <3>1. \A v \in Workers : Skipped(v)' = Skipped(v)
      BY <1>1, <1>2, <2>2 DEF SortTypeOK, Skipped, Due, InFirst, InSecond, At
    <3> QED BY <1>1, <1>4, <3>1, Kept
  <2> QED BY <2>1, <2>2
<1> QED BY <1>3, <1>5, <1>6, <1>7, <1>8, <1>9

LEMMA EnterBarrierInv ==
  ASSUME IInv, NEW w \in Workers, EnterBarrier(w) PROVE IInv'
<1> USE Types DEF IInv
<1> PICK from \in {"rand_barrier", "verify_barrier"}, to \in {"rand_wait", "verify_wait"} :
       /\ At(w, from) /\ pc' = [pc EXCEPT ![w] = to]
       /\ from = "rand_barrier" <=> to = "rand_wait"
  BY DEF EnterBarrier, Goto
<1>1. /\ UNCHANGED <<build, iter, keys, disorder, step, nerror, seen, alarms, left_early>>
      /\ Workers' = Workers /\ Positions' = Positions
      /\ entered' = [entered EXCEPT ![w] = @ + 1]
  BY DEF EnterBarrier, Workers, Positions, data, errors, reports
<1>2. SortTypeOK'
  BY <1>1 DEF SortTypeOK, Parts, Labels
<1>3. ASSUME NEW v \in Workers PROVE Sorts(v)' = Sorts(v) /\ Skipped(v)' = Skipped(v)
  <2>1. iter[v] \in Int /\ entered[v] \in Int /\ iter'[v] = iter[v]
    BY <1>1
  <2>2. CASE v # w
    <3>1. pc'[v] = pc[v] /\ entered'[v] = entered[v]
      BY <1>1, <2>2 DEF SortTypeOK
    <3> QED BY <2>1, <3>1 DEF Sorts, Skipped, Due
  <2>3. CASE v = w
    <3>1. pc[v] = from /\ pc'[v] = to /\ entered'[v] = entered[v] + 1
      BY <1>1, <2>3 DEF SortTypeOK, At
    <3> QED BY <2>1, <3>1 DEF Sorts, Skipped, Due, AfterSort, InFirst, InSecond
  <2> QED BY <2>2, <2>3
<1>4. BarrierInv'
  BY <1>1 DEF BarrierInv, SortTypeOK, Waiting, At
<1>5. LabelInv' /\ ErrorInv' /\ AlarmsAreReal'
  BY <1>1, <1>3 DEF LabelInv, SortTypeOK, ErrorInv, At, AlarmsAreReal
<1>6. OwnPartInv' /\ PartBeforeInv'
  BY <1>1, <1>3 DEF OwnPartInv, PartBeforeInv, SortTypeOK, At
<1> QED BY <1>1, <1>2, <1>3, <1>4, <1>5, <1>6, Kept

LEMMA LeaveBarrierInv ==
  ASSUME IInv, NEW w \in Workers, LeaveBarrier(w) PROVE IInv'
<1> USE Types DEF IInv
<1> PICK from \in {"rand_wait", "verify_wait"}, to \in {"start", "report"} :
       /\ At(w, from) /\ pc' = [pc EXCEPT ![w] = to]
       /\ from = "rand_wait" <=> to = "start"
  BY DEF LeaveBarrier, Goto
<1>1. /\ UNCHANGED <<build, iter, keys, disorder, step, nerror, seen, entered, alarms, left_early>>
      /\ Workers' = Workers /\ Positions' = Positions
      /\ \A v \in Workers : entered[v] >= entered[w]
  BY DEF LeaveBarrier, Workers, Positions, data, errors, reports
<1>2. SortTypeOK'
  BY <1>1 DEF SortTypeOK, Parts, Labels
<1>3. \A v \in Workers : Sorts(v)' = Sorts(v) /\ Skipped(v)' = Skipped(v)
  BY <1>1 DEF SortTypeOK, Sorts, Skipped, Due, AfterSort, InFirst, InSecond, At
<1>4. BarrierInv'
  BY <1>1 DEF BarrierInv, SortTypeOK, Waiting, At
<1>5. LabelInv' /\ ErrorInv' /\ AlarmsAreReal'
  BY <1>1, <1>3 DEF LabelInv, SortTypeOK, ErrorInv, At, AlarmsAreReal
<1>6. OwnPartInv' /\ PartBeforeInv'
  BY <1>1, <1>3 DEF OwnPartInv, PartBeforeInv, SortTypeOK, At
<1> QED BY <1>1, <1>2, <1>3, <1>4, <1>5, <1>6, Kept

LEMMA ReadStartInv ==
  ASSUME IInv, NEW w \in Workers, ReadStart(w) PROVE IInv'
<1> USE Types DEF IInv
<1>1. /\ UNCHANGED <<build, iter, keys, disorder, step, nerror, seen, entered, alarms, left_early>>
      /\ Workers' = Workers /\ Positions' = Positions
      /\ At(w, "start") /\ pc' = [pc EXCEPT ![w] = "parallel_sort"]
  BY DEF ReadStart, Workers, Positions, data, errors, reports, Goto
<1>2. SortTypeOK'
  BY <1>1 DEF SortTypeOK, Parts, Labels
<1>3. \A v \in Workers : Sorts(v)' = Sorts(v) /\ Skipped(v)' = Skipped(v)
  BY <1>1 DEF SortTypeOK, Sorts, Skipped, Due, AfterSort, InFirst, InSecond, At
<1>4. BarrierInv'
  BY <1>1 DEF BarrierInv, SortTypeOK, Waiting, At
<1>5. LabelInv' /\ ErrorInv' /\ AlarmsAreReal'
  BY <1>1, <1>3 DEF LabelInv, SortTypeOK, ErrorInv, At, AlarmsAreReal
<1>6. OwnPartInv' /\ PartBeforeInv'
  BY <1>1, <1>3 DEF OwnPartInv, PartBeforeInv, SortTypeOK, At
<1> QED BY <1>1, <1>2, <1>3, <1>4, <1>5, <1>6, Kept

\* All are at the sort, so no barrier is skipped, and the keys are new.
LEMMA ParallelSortInv ==
  ASSUME IInv, ParallelSort PROVE IInv'
<1> USE Types DEF IInv
<1> PICK result \in Parts :
       /\ Sorted(result) \/ Cardinality(disorder) < MaxFaults
       /\ keys' = result
       /\ disorder' = IF OutOfOrder(result) THEN disorder \cup {iter[w] : w \in Workers}
                      ELSE disorder
  BY DEF ParallelSort
<1>1. /\ UNCHANGED <<build, iter, seen, entered, alarms, left_early>>
      /\ Workers' = Workers /\ Positions' = Positions
      /\ \A w \in Workers : pc[w] = "parallel_sort"
      /\ pc' = [w \in Workers |-> "parallel_verify"]
      /\ step' = [w \in Workers |-> 0] /\ nerror' = [w \in Workers |-> 0]
  BY DEF ParallelSort, Workers, Positions, reports, At
<1>2. \A w \in Workers : iter[w] \in 1 .. Iterations
  BY <1>1, SortBenchAssumption DEF LabelInv, SortTypeOK
<1>3. SortTypeOK'
  <2>1. disorder' \subseteq 1 .. Iterations
    BY <1>2 DEF SortTypeOK
  <2>2. 0 \in 0 .. build.length
    OBVIOUS
  <2>3. pc' \in [Workers -> Labels]
    BY <1>1 DEF Labels
  <2> QED BY <1>1, <2>1, <2>2, <2>3 DEF SortTypeOK, Parts
<1>4. ASSUME NEW w \in Workers
      PROVE  /\ Sorts(w) = iter[w] - 1 /\ Sorts(w)' = iter[w]
             /\ Skipped(w) = 2 * (iter[w] - 1) + 1 - entered[w] /\ Skipped(w)' = Skipped(w)
  <2>1. pc[w] = "parallel_sort" /\ pc'[w] = "parallel_verify" /\ iter[w] \in Int
    BY <1>1
  <2> QED BY <1>1, <2>1 DEF Sorts, Skipped, Due, AfterSort, InFirst, InSecond
<1>5. ASSUME NEW w \in Workers, NEW v \in Workers
      PROVE  iter[w] = iter[v] /\ entered[w] = entered[v]
  <2>1. iter[w] \in Int /\ iter[v] \in Int /\ entered[w] \in Int /\ entered[v] \in Int
    OBVIOUS
  <2>2. entered[v] >= entered[w] /\ entered[w] >= entered[v]
    BY <1>1, <2>1 DEF BarrierInv, Waiting
  <2> QED BY <1>4, <2>1, <2>2 DEF SortedInv
<1>6. BarrierInv' /\ LabelInv' /\ ErrorInv'
  BY <1>1, <1>2, <1>5 DEF BarrierInv, Waiting, LabelInv, ErrorInv, At
<1>7. SortedInv' /\ SkipInv'
  BY <1>1, <1>4, <1>5 DEF SortedInv, SkipInv
<1>8. EarlyInv'
  BY <1>1, <1>4 DEF EarlyInv
<1>9. ASSUME NEW w \in Workers, Sorts(w)' \notin disorder' PROVE ~OutOfOrder(result)
  BY <1>4, <1>9
<1>10. \A w \in Workers, k \in Positions : result[w][k] \in Int
  BY SortBenchAssumption DEF Parts
<1>11. OwnPartInv'
  <2> SUFFICES ASSUME NEW w \in Workers, Sorts(w)' \notin disorder', NEW k \in Positions \ {1}
               PROVE  result[w][k - 1] <= result[w][k]
    BY <1>1 DEF OwnPartInv
  <2>1. k - 1 \in Positions /\ k - 1 < k
    BY DEF Positions
  <2>2. ~Inversion(result, w, k - 1, w, k)
    BY <1>9, <2>1 DEF OutOfOrder
  <2> QED BY <1>10, <2>1, <2>2 DEF Inversion, Comes
<1>12. PartBeforeInv'
  <2> SUFFICES ASSUME build.backend # "mpi", NEW w \in Workers \ {0}, Sorts(w)' \notin disorder'
               PROVE  result[w - 1][build.length] <= result[w][1]
    BY <1>1 DEF PartBeforeInv
  <2>1. w - 1 \in Workers /\ w - 1 < w
    BY DEF Workers
  <2>2. ~Inversion(result, w - 1, build.length, w, 1)
    BY <1>9, <2>1 DEF OutOfOrder
  <2> QED BY <1>10, <2>1, <2>2 DEF Inversion, Comes
<1>13. AlarmsAreReal'
  BY <1>1 DEF AlarmsAreReal
<1> QED BY <1>3, <1>6, <1>7, <1>8, <1>11, <1>12, <1>13

-----------------------------------------------------------------------------
\* The step of a worker that stays within parallel_verify.
LEMMA CompareInv ==
  ASSUME IInv, NEW w \in Workers, Compare(w) PROVE IInv'
<1> USE Types DEF IInv
<1>1. /\ UNCHANGED <<build, iter, keys, disorder, nerror, entered, alarms, left_early>>
      /\ Workers' = Workers /\ Positions' = Positions
      /\ pc[w] = "parallel_verify" /\ step[w] < LastStep
  BY DEF Compare, Workers, Positions, data, reports, At
<1>2. LastStep <= build.length /\ (build.backend = "mpi" => LastStep = build.length - 1)
  BY DEF LastStep
<1>3. CASE LessThanBefore(w)
  <2>1. /\ seen' = [seen EXCEPT ![w] = nerror[Counter(w)]] /\ step' = step
        /\ pc' = [pc EXCEPT ![w] = "increment"]
    BY <1>3 DEF Compare, Goto
  <2>2. Counter(w) \in Workers
    BY DEF Counter
  <2>3. SortTypeOK'
    BY <1>1, <2>1, <2>2 DEF SortTypeOK, Parts, Labels
  <2>4. ASSUME NEW v \in Workers PROVE Sorts(v)' = Sorts(v) /\ Skipped(v)' = Skipped(v)
    BY <1>1, <2>1 DEF SortTypeOK, Sorts, Skipped, Due, AfterSort, InFirst, InSecond
  <2>5. BarrierInv'
    BY <1>1, <2>1 DEF BarrierInv, SortTypeOK, Waiting
  <2>6. Sorts(w) \in disorder
    <3> SUFFICES ASSUME Sorts(w) \notin disorder PROVE FALSE
      OBVIOUS
    <3> DEFINE k == step[w] + 2
    <3>1. CASE k <= build.length
      <4>1. k \in Positions \ {1} /\ k - 1 \in Positions /\ keys[w][k] < keys[w][k - 1]
        BY <1>3, <3>1 DEF LessThanBefore, Positions
      <4>2. keys[w][k - 1] <= keys[w][k]
        BY <1>1, <4>1 DEF OwnPartInv, At
      <4> QED BY <4>1, <4>2
    <3>2. CASE ~(k <= build.length)
      <4>1. w > 0 /\ keys[w][1] < keys[w - 1][build.length]
        BY <1>3, <3>2 DEF LessThanBefore
      <4>2. build.backend # "mpi"
        BY <1>1, <1>2, <3>2
      <4>3. w \in Workers \ {0} /\ w - 1 \in Workers
        BY <4>1 DEF Workers
      <4>4. keys[w - 1][build.length] <= keys[w][1]
        BY <1>1, <4>2, <4>3 DEF PartBeforeInv, At
      <4> QED BY <4>1, <4>3, <4>4
    <3> QED BY <3>1, <3>2
  <2>7. LabelInv' /\ ErrorInv' /\ AlarmsAreReal'
    BY <1>1, <1>2, <2>1, <2>4, <2>6 DEF LabelInv, SortTypeOK, ErrorInv, At, AlarmsAreReal, LastStep
  <2>8. OwnPartInv' /\ PartBeforeInv'
    BY <1>1, <2>1, <2>4 DEF OwnPartInv, PartBeforeInv, SortTypeOK, At
  <2> QED BY <1>1, <2>3, <2>4, <2>5, <2>7, <2>8, Kept
<1>4. CASE ~LessThanBefore(w)
  <2>1. pc' = pc /\ seen' = seen /\ step' = [step EXCEPT ![w] = @ + 1]
    BY <1>4 DEF Compare
  <2>2. step[w] + 1 \in 0 .. build.length
    BY <1>1, <1>2 DEF LastStep
  <2>3. SortTypeOK'
    BY <1>1, <2>1, <2>2 DEF SortTypeOK, Parts
  <2>4. ASSUME NEW v \in Workers PROVE Sorts(v)' = Sorts(v) /\ Skipped(v)' = Skipped(v)
    BY <1>1, <2>1 DEF Sorts, Skipped, Due
  <2>5. BarrierInv' /\ ErrorInv' /\ AlarmsAreReal' /\ OwnPartInv' /\ PartBeforeInv'
    BY <1>1, <2>1, <2>4 DEF BarrierInv, Waiting, ErrorInv, AlarmsAreReal, OwnPartInv,
       PartBeforeInv, At
  <2>6. LabelInv'
    BY <1>1, <2>1 DEF LabelInv, At, SortTypeOK
  <2> QED BY <1>1, <2>3, <2>4, <2>5, <2>6, Kept
<1> QED BY <1>3, <1>4

LEMMA IncrementInv ==
  ASSUME IInv, NEW w \in Workers, Increment(w) PROVE IInv'
<1> USE Types DEF IInv
<1>1. /\ UNCHANGED <<build, iter, keys, disorder, seen, entered, alarms, left_early>>
      /\ Workers' = Workers /\ Positions' = Positions
      /\ pc[w] = "increment" /\ pc' = [pc EXCEPT ![w] = "parallel_verify"]
      /\ step' = [step EXCEPT ![w] = @ + 1]
      /\ nerror' = [nerror EXCEPT ![Counter(w)] = seen[w] + 1]
  BY DEF Increment, Workers, Positions, data, reports, At, Goto
<1>2. Counter(w) \in Workers /\ seen[w] \in Nat
  BY DEF Counter, SortTypeOK
<1>3. SortTypeOK'
  <2>1. step[w] + 1 \in 0 .. build.length
    BY <1>1 DEF LabelInv, At
  <2> QED BY <1>1, <1>2, <2>1 DEF SortTypeOK, Parts, Labels
<1>4. ASSUME NEW v \in Workers PROVE Sorts(v)' = Sorts(v) /\ Skipped(v)' = Skipped(v)
  BY <1>1 DEF SortTypeOK, Sorts, Skipped, Due, AfterSort, InFirst, InSecond
<1>5. \A v \in Workers : Sorts(v) \in disorder
  BY <1>1 DEF ErrorInv, At, SortedInv
<1>6. BarrierInv' /\ LabelInv' /\ ErrorInv' /\ AlarmsAreReal'
  BY <1>1, <1>4, <1>5 DEF BarrierInv, Waiting, LabelInv, ErrorInv, AlarmsAreReal, SortTypeOK, At
<1>7. OwnPartInv' /\ PartBeforeInv'
  BY <1>1, <1>4, <1>5 DEF OwnPartInv, PartBeforeInv
<1> QED BY <1>1, <1>3, <1>4, <1>6, <1>7, Kept

\* Whoever gives up has seen an error, so this iteration has a disorder.
LEMMA GiveUpInv ==
  ASSUME IInv, NEW w \in Workers, GiveUp(w) PROVE IInv'
<1> USE Types DEF IInv
<1>1. /\ UNCHANGED <<build, iter, keys, disorder, step, nerror, seen, entered, alarms>>
      /\ Workers' = Workers /\ Positions' = Positions /\ left_early' = TRUE
      /\ pc[w] = "parallel_verify" /\ pc' = [pc EXCEPT ![w] = "report"] /\ nerror[w] > 0
  BY DEF GiveUp, GivesUp, Workers, Positions, data, errors, At, Goto
<1>2. SortTypeOK'
  BY <1>1 DEF SortTypeOK, Parts, Labels
<1>3. \A v \in Workers : Sorts(v)' = Sorts(v)
  BY <1>1 DEF SortTypeOK, Sorts, AfterSort
<1>4. \A v \in Workers : Sorts(v) \in disorder
  BY <1>1 DEF ErrorInv, SortedInv
<1>5. BarrierInv' /\ LabelInv' /\ ErrorInv' /\ AlarmsAreReal'
  BY <1>1, <1>3, <1>4 DEF BarrierInv, Waiting, LabelInv, ErrorInv, AlarmsAreReal, SortTypeOK, At
<1>6. OwnPartInv' /\ PartBeforeInv' /\ SortedInv' /\ SkipInv' /\ EarlyInv'
  BY <1>1, <1>3, <1>4 DEF OwnPartInv, PartBeforeInv, SortedInv, SkipInv, EarlyInv
<1> QED BY <1>2, <1>5, <1>6

LEMMA EndVerifyInv ==
  ASSUME IInv, NEW w \in Workers, EndVerify(w) PROVE IInv'
<1> USE Types DEF IInv
<1>1. /\ UNCHANGED <<build, iter, keys, disorder, step, nerror, seen, entered, alarms, left_early>>
      /\ Workers' = Workers /\ Positions' = Positions
      /\ pc[w] = "parallel_verify" /\ pc' = [pc EXCEPT ![w] = "verify_barrier"]
  BY DEF EndVerify, Workers, Positions, data, errors, reports, At, Goto
<1>2. SortTypeOK'
  BY <1>1 DEF SortTypeOK, Parts, Labels
<1>3. \A v \in Workers : Sorts(v)' = Sorts(v) /\ Skipped(v)' = Skipped(v)
  BY <1>1 DEF SortTypeOK, Sorts, Skipped, Due, AfterSort, InFirst, InSecond
<1>4. BarrierInv' /\ LabelInv' /\ ErrorInv' /\ AlarmsAreReal'
  BY <1>1, <1>3 DEF BarrierInv, Waiting, LabelInv, ErrorInv, AlarmsAreReal, SortTypeOK, At
<1>5. OwnPartInv' /\ PartBeforeInv'
  BY <1>1, <1>3 DEF OwnPartInv, PartBeforeInv, SortTypeOK, At
<1> QED BY <1>1, <1>2, <1>3, <1>4, <1>5, Kept

LEMMA ReportInv ==
  ASSUME IInv, NEW w \in Workers, Report(w) PROVE IInv'
<1> USE Types DEF IInv
<1> DEFINE next == IF iter[w] < Iterations THEN "parallel_rand" ELSE "done"
<1>1. /\ UNCHANGED <<build, keys, disorder, step, nerror, seen, entered, left_early>>
      /\ Workers' = Workers /\ Positions' = Positions
      /\ pc[w] = "report" /\ pc' = [pc EXCEPT ![w] = next]
      /\ iter' = [iter EXCEPT ![w] = @ + 1]
      /\ alarms' = IF Fails(w) /\ (Shared => w = 0) THEN alarms \cup {iter[w]} ELSE alarms
  BY DEF Report, Workers, Positions, data, errors, At, Goto
<1>2. iter[w] \in 1 .. Iterations
  BY <1>1, SortBenchAssumption DEF LabelInv, SortTypeOK
<1>3. next \in {"parallel_rand", "done"} /\ (next = "parallel_rand" => iter[w] + 1 <= Iterations)
  BY <1>2, SortBenchAssumption
<1>4. SortTypeOK'
  <2>1. iter[w] + 1 \in 1 .. Iterations + 1
    BY <1>2, SortBenchAssumption
  <2> QED BY <1>1, <1>2, <1>3, <2>1 DEF SortTypeOK, Parts, Labels
<1>5. ASSUME NEW v \in Workers PROVE Sorts(v)' = Sorts(v) /\ Skipped(v)' = Skipped(v)
  <2>1. iter[v] \in Int /\ entered'[v] = entered[v]
    BY <1>1
  <2>2. CASE v # w
    <3>1. pc'[v] = pc[v] /\ iter'[v] = iter[v]
      BY <1>1, <2>2 DEF SortTypeOK
    <3> QED BY <2>1, <3>1 DEF Sorts, Skipped, Due
  <2>3. CASE v = w
    <3>1. pc[v] = "report" /\ pc'[v] = next /\ iter'[v] = iter[v] + 1
      BY <1>1, <2>3 DEF SortTypeOK
    <3> QED BY <1>3, <2>1, <3>1 DEF Sorts, Skipped, Due, AfterSort, InFirst, InSecond
  <2> QED BY <2>2, <2>3
<1>6. BarrierInv'
  BY <1>1, <1>3 DEF BarrierInv, Waiting, SortTypeOK
<1>7. LabelInv'
  BY <1>1, <1>3 DEF LabelInv, At, SortTypeOK
<1>8. ErrorInv'
  BY <1>1, <1>3, <1>5 DEF ErrorInv, At, SortTypeOK
<1>9. OwnPartInv' /\ PartBeforeInv'
  BY <1>1, <1>3, <1>5 DEF OwnPartInv, PartBeforeInv, SortTypeOK, At
<1>10. AlarmsAreReal'
  <2>1. CASE Fails(w)
    <3>1. \E v \in Workers : nerror[v] > 0
      BY <2>1 DEF Fails
    <3>2. Sorts(w) \in disorder
      BY <3>1 DEF ErrorInv, SortedInv
    <3>3. Sorts(w) = iter[w]
      BY <1>1 DEF Sorts, AfterSort
    <3> QED BY <1>1, <3>2, <3>3 DEF AlarmsAreReal
  <2>2. CASE ~Fails(w)
    BY <1>1, <2>2 DEF AlarmsAreReal
  <2> QED BY <2>1, <2>2
<1> QED BY <1>1, <1>4, <1>5, <1>6, <1>7, <1>8, <1>9, <1>10, Kept

LEMMA StutterInv ==
  ASSUME IInv, UNCHANGED vars PROVE IInv'
<1> USE DEF IInv
<1>1. /\ UNCHANGED <<build, pc, iter, keys, disorder, step, nerror, seen, entered, alarms, left_early>>
      /\ Workers' = Workers /\ Positions' = Positions
  BY DEF vars, data, errors, reports, Workers, Positions
<1>2. \A w \in Workers : Sorts(w)' = Sorts(w) /\ Skipped(w)' = Skipped(w)
  BY <1>1 DEF Sorts, Skipped, Due
<1>3. SortTypeOK' /\ BarrierInv' /\ LabelInv' /\ AlarmsAreReal'
  BY <1>1 DEF SortTypeOK, Parts, BarrierInv, Waiting, LabelInv, AlarmsAreReal, At
<1>4. ErrorInv' /\ OwnPartInv' /\ PartBeforeInv'
  BY <1>1, <1>2 DEF ErrorInv, OwnPartInv, PartBeforeInv, At
<1> QED BY <1>1, <1>2, <1>3, <1>4, Kept

-----------------------------------------------------------------------------
LEMMA SortStep ==
  ASSUME IInv, [Next]_vars PROVE IInv'
<1>1. CASE ParallelSort
  BY <1>1, ParallelSortInv
<1>2. ASSUME NEW w \in Workers, Step(w) PROVE IInv'
  BY <1>2, ParallelRandInv, EnterBarrierInv, LeaveBarrierInv, ReadStartInv, CompareInv,
     IncrementInv, GiveUpInv, EndVerifyInv, ReportInv DEF Step
<1>3. CASE UNCHANGED vars
  BY <1>3, StutterInv
<1> QED BY <1>1, <1>2, <1>3 DEF Next, Exit

\* The inductive invariant of Test: the barriers keep the workers together.
THEOREM SortInvariance == Spec => []IInv
<1>1. IInv /\ [Next]_vars => IInv'
  BY SortStep
<1> QED BY <1>1, InitInv, PTL DEF Spec

\* The variables of sortbench.cc and of the backends keep their types.
THEOREM SortTypeTheorem == Spec => []SortTypeOK
<1>1. IInv => SortTypeOK
  BY DEF IInv
<1> QED BY <1>1, SortInvariance, PTL

(***************************************************************************)
(* Whatever the number of workers and keys, however often the sort fails:  *)
(* sortbench.cc prints "validation failed!" only for a sort that was wrong.     *)
(***************************************************************************)
THEOREM AlarmsTheorem == Spec => []AlarmsAreReal
<1>1. IInv => AlarmsAreReal
  BY DEF IInv
<1> QED BY <1>1, SortInvariance, PTL

(***************************************************************************)
(* The timer of worker 0 runs only while all keys are initialised and      *)
(* nobody verifies.                                                        *)
(***************************************************************************)
THEOREM TimerTheorem == Spec => []TimerCoversTheSort
<1>1. IInv => TimerCoversTheSort
  <2> SUFFICES ASSUME IInv, build.backend # "mpi", ~left_early, At(0, "parallel_sort"),
                      NEW w \in Workers
               PROVE  pc[w] \in {"rand_wait", "start", "parallel_sort"}
    BY DEF TimerCoversTheSort
  <2> USE Types DEF IInv
  <2>1. /\ 0 \in Workers /\ pc[0] = "parallel_sort" /\ pc[w] \in Labels
        /\ iter[0] \in Int /\ iter[w] \in Int /\ entered[0] \in Int /\ entered[w] \in Int
    <3>1. 0 \in Workers
      OBVIOUS
    <3>2. pc[0] = "parallel_sort"
      BY DEF At
    <3>3. iter[0] \in Nat /\ entered[0] \in Nat
      BY <3>1
    <3>4. pc[w] \in Labels /\ iter[w] \in Nat /\ entered[w] \in Nat
      OBVIOUS
    <3> QED BY <3>1, <3>2, <3>3, <3>4
  <2>2. Skipped(0) = 0 /\ Skipped(w) = 0 /\ Sorts(w) = Sorts(0)
    BY <2>1 DEF EarlyInv, SortedInv
  <2>3. entered[0] = 2 * iter[0] - 1 /\ entered[w] = Due(w)
    <3>1. Due(0) = 2 * (iter[0] - 1) + 1
      BY <2>1 DEF Due, InFirst
    <3>2. Due(w) \in Int /\ Due(w) - entered[w] = 0 /\ Due(0) - entered[0] = 0
      BY <2>2 DEF Skipped
    <3> QED BY <2>1, <3>1, <3>2
  <2>4. entered[w] >= entered[0]
    BY <2>1 DEF BarrierInv, Waiting
  <2>5. Sorts(0) = iter[0] - 1
    BY <2>1 DEF Sorts, AfterSort
  <2>6. CASE pc[w] \in AfterSort
    <3>1. iter[w] = iter[0] - 1
      BY <2>1, <2>2, <2>5, <2>6 DEF Sorts
    <3> QED BY <2>1, <2>3, <2>4, <2>6, <3>1 DEF Due, AfterSort, InFirst, InSecond
  <2>7. CASE pc[w] \notin AfterSort
    <3>1. iter[w] = iter[0]
      BY <2>1, <2>2, <2>5, <2>7 DEF Sorts
    <3> QED BY <2>1, <2>3, <2>4, <2>7, <3>1 DEF Due, AfterSort, InFirst, InSecond, Labels
  <2> QED BY <2>6, <2>7
<1> QED BY <1>1, SortInvariance, PTL

-----------------------------------------------------------------------------
(***************************************************************************)
(* That sort-bench notices every sort that has gone wrong, for any number  *)
(* of workers and keys: comparing neighbours is enough, and what has been  *)
(* found is not lost before it is reported.                                *)
(***************************************************************************)
\* Whose return value of parallel_verify is printed for worker w.
Reporter(w) == IF Shared THEN 0 ELSE w

Verifying == {"parallel_verify", "increment"}

\* What the comparison number k - 1 of worker w finds.
LessAt(parts, w, k) ==
  IF k <= build.length THEN parts[w][k] < parts[w][k - 1]
  ELSE w > 0 /\ parts[w][1] < parts[w - 1][build.length]

Ahead(w) == {k \in step[w] + 2 .. LastStep + 1 : LessAt(keys, w, k)}

\* Worker w has counted an error, is about to, or will come across one.
Evidence(w) ==
  \/ nerror[Counter(w)] > 0 /\ pc[Reporter(w)] \in AfterSort
  \/ At(w, "increment")
  \/ At(w, "parallel_verify") /\ Ahead(w) # {}

\* A disorder without an alarm is that of the present iteration.
NoticeInv ==
  \A i \in disorder \ alarms :
    (\A w \in Workers : Sorts(w) = i) /\ (\E w \in Workers : Evidence(w))

\* Only DASH gets out of step, and who is ahead raises the alarm.
AheadInv ==
  build.backend # "mpi" =>
    \A v, w \in Workers :
      Skipped(v) > Skipped(w) =>
        /\ build.backend = "dash"
        /\ Sorts(v) \in alarms \/ (At(v, "report") /\ nerror[v] > 0)

NInv == IInv /\ NoticeInv /\ AheadInv

-----------------------------------------------------------------------------
\* If no key of a part is smaller than the one before it, none is smaller
\* than any before it.
LEMMA WithinAPart ==
  ASSUME NEW n \in Nat, NEW part, \A k \in 1 .. n : part[k] \in Int,
         \A k \in 2 .. n : ~(part[k] < part[k - 1]),
         NEW k \in 1 .. n, NEW l \in 1 .. n, k <= l
  PROVE  part[k] <= part[l]
<1> SUFFICES ASSUME part[l] < part[k] PROVE FALSE
  OBVIOUS
<1> DEFINE T == {j \in k .. n : part[j] < part[k]}
<1>1. T \in SUBSET Nat /\ l \in T
  OBVIOUS
<1>2. PICK m \in T : \A j \in T : m <= j
  <2> HIDE DEF T
  <2> QED BY <1>1, SmallestOf
<1>3. m # k /\ m \in k .. n
  OBVIOUS
<1>4. m \in 2 .. n /\ m - 1 \in k .. n /\ m - 1 \in 1 .. n
  BY <1>3
<1>5. m - 1 \notin T
  BY <1>2, <1>4
<1>6. ~(part[m - 1] < part[k])
  BY <1>4, <1>5
<1>7. part[m] < part[k] /\ ~(part[m] < part[m - 1])
  BY <1>4
<1> QED BY <1>3, <1>4, <1>6, <1>7

\* Likewise for the parts, which are compared at their ends.
LEMMA AcrossParts ==
  ASSUME NEW n \in Nat, NEW first, NEW last,
         \A w \in 0 .. n : first[w] \in Int /\ last[w] \in Int /\ first[w] <= last[w],
         \A w \in 1 .. n : ~(first[w] < last[w - 1]),
         NEW w \in 0 .. n, NEW v \in 0 .. n, w < v
  PROVE  last[w] <= first[v]
<1> SUFFICES ASSUME first[v] < last[w] PROVE FALSE
  OBVIOUS
<1> DEFINE T == {u \in w + 1 .. n : first[u] < last[w]}
<1>1. T \in SUBSET Nat /\ v \in T
  OBVIOUS
<1>2. PICK m \in T : \A u \in T : m <= u
  <2> HIDE DEF T
  <2> QED BY <1>1, SmallestOf
<1>3. m \in 1 .. n /\ m - 1 \in 0 .. n /\ m - 1 \notin T
  BY <1>2
<1>4. first[m] < last[w] /\ ~(first[m] < last[m - 1])
  BY <1>3
<1>5. m - 1 = w \/ last[w] <= first[m - 1]
  BY <1>3
<1> QED BY <1>3, <1>4, <1>5

(***************************************************************************)
(* Comparing neighbours is enough: if keys are out of order, a comparison  *)
(* of some worker finds one smaller than that before it.                   *)
(***************************************************************************)
LEMMA NeighboursSuffice ==
  ASSUME SortTypeOK, NEW parts \in Parts, OutOfOrder(parts)
  PROVE  \E w \in Workers : \E k \in 2 .. LastStep + 1 : LessAt(parts, w, k)
<1> SUFFICES ASSUME \A w \in Workers : \A k \in 2 .. LastStep + 1 : ~LessAt(parts, w, k)
             PROVE  FALSE
  OBVIOUS
<1> DEFINE n == build.length
           top == build.workers - 1
<1>1. build.length \in Nat /\ n \in 1 .. n /\ 1 \in 1 .. n /\ Workers = 0 .. top /\ Positions = 1 .. n /\ top \in Nat
  BY Types DEF Workers, Positions
<1>2. \A w \in Workers : \A k \in Positions : parts[w][k] \in Int
  BY SortBenchAssumption DEF Parts
<1>3. ASSUME NEW w \in Workers, NEW k \in Positions, NEW l \in Positions, k <= l
      PROVE  parts[w][k] <= parts[w][l]
  <2> DEFINE part == parts[w]
  <2>1. \A j \in 1 .. n : part[j] \in Int
    BY <1>1, <1>2
  <2>2. \A j \in 2 .. n : ~(part[j] < part[j - 1])
    <3> TAKE j \in 2 .. n
    <3>1. j \in 2 .. LastStep + 1
      BY <1>1 DEF LastStep
    <3> QED BY <1>1, <3>1 DEF LessAt
  <2> HIDE DEF part, n
  <2>3. part[k] <= part[l]
    BY <1>1, <1>3, <2>1, <2>2, WithinAPart DEF n
  <2> QED BY <2>3 DEF part
<1>4. ASSUME build.backend # "mpi", NEW w \in Workers, NEW v \in Workers, w < v
      PROVE  parts[w][n] <= parts[v][1]
  <2> DEFINE first == [u \in Workers |-> parts[u][1]]
             last  == [u \in Workers |-> parts[u][n]]
  <2>1. \A u \in 0 .. top : first[u] \in Int /\ last[u] \in Int /\ first[u] <= last[u]
    BY <1>1, <1>2, <1>3
  <2>2. \A u \in 1 .. top : ~(first[u] < last[u - 1])
    <3> TAKE u \in 1 .. top
    <3>1. n + 1 \in 2 .. LastStep + 1
      BY <1>1, <1>4 DEF LastStep
    <3>2. u \in Workers /\ u - 1 \in Workers /\ u > 0
      BY <1>1
    <3> QED BY <1>1, <3>1, <3>2 DEF LessAt
  <2>3. last[w] <= first[v]
    <3> HIDE DEF first, last, top
    <3> QED BY <1>1, <1>4, <2>1, <2>2, AcrossParts
  <2> QED BY <2>3
<1>5. PICK w \in Workers, v \in Workers, k \in Positions, l \in Positions :
         (build.backend = "mpi" => w = v) /\ Inversion(parts, w, k, v, l)
  BY DEF OutOfOrder
<1>6. parts[v][l] < parts[w][k] /\ (w < v \/ (w = v /\ k < l))
  BY <1>5 DEF Inversion, Comes
<1>7. CASE w = v
  <2>1. k <= l
    BY <1>1, <1>6, <1>7
  <2> QED BY <1>2, <1>3, <1>6, <1>7, <2>1
<1>8. CASE w # v
  <2>1. build.backend # "mpi" /\ w < v
    BY <1>5, <1>6, <1>8
  <2>2. n \in Positions /\ 1 \in Positions /\ k <= n /\ 1 <= l
    BY <1>1
  <2>3. parts[w][k] <= parts[w][n] /\ parts[w][n] <= parts[v][1] /\ parts[v][1] <= parts[v][l]
    BY <1>3, <1>4, <2>1, <2>2
  <2> QED BY <1>2, <1>6, <2>2, <2>3
<1> QED BY <1>7, <1>8

-----------------------------------------------------------------------------
\* A step other than the sort takes no worker from one sort to the next, and
\* only giving up skips a barrier.
LEMMA StepsKeep ==
  ASSUME IInv, NEW w \in Workers, Step(w), NEW v \in Workers
  PROVE  /\ build' = build /\ Workers' = Workers /\ disorder' = disorder /\ alarms \subseteq alarms'
         /\ Sorts(v)' = Sorts(v)
         /\ GiveUp(w) \/ build.backend = "mpi" \/ Skipped(v)' = Skipped(v)
<1> USE Types DEF IInv
<1>1. build' = build /\ disorder' = disorder /\ alarms \subseteq alarms'
  BY DEF Step, ParallelRand, EnterBarrier, LeaveBarrier, ReadStart, Compare, Increment, GiveUp,
     EndVerify, Report, data, reports
<1>2. Workers' = Workers
  BY <1>1 DEF Workers
<1>3. /\ iter[v] \in Int /\ iter[w] \in Int /\ entered[v] \in Int /\ entered[w] \in Int
      /\ iter \in [Workers -> 1 .. Iterations + 1]
      /\ pc \in [Workers -> Labels] /\ entered \in [Workers -> Nat]
  BY DEF SortTypeOK
<1>4. CASE v # w
  <2>1. pc'[v] = pc[v]
    BY <1>3, <1>4 DEF Step, ParallelRand, EnterBarrier, LeaveBarrier, ReadStart, Compare, Increment,
       GiveUp, EndVerify, Report, Goto
  <2>2. iter'[v] = iter[v]
    BY <1>3, <1>4 DEF Step, ParallelRand, EnterBarrier, LeaveBarrier, ReadStart, Compare, Increment,
       GiveUp, EndVerify, Report
  <2>3. entered'[v] = entered[v]
    BY <1>3, <1>4 DEF Step, ParallelRand, EnterBarrier, LeaveBarrier, ReadStart, Compare, Increment,
       GiveUp, EndVerify, Report
  <2> QED BY <1>1, <1>2, <2>1, <2>2, <2>3 DEF Sorts, Skipped, Due
<1>5. CASE v = w
  <2>1. CASE ParallelRand(w)
    <3>1. /\ pc[w] = "parallel_rand" /\ pc'[w] \in {"rand_barrier", "start"} /\ iter'[w] = iter[w]
          /\ entered'[w] = entered[w]
          /\ build.backend # "mpi" => pc'[w] = "rand_barrier"
      BY <1>3, <2>1 DEF ParallelRand, AfterRand, Goto, At
    <3> QED BY <1>1, <1>2, <1>3, <1>5, <3>1 DEF Sorts, Skipped, Due, AfterSort, InFirst, InSecond
  <2>2. CASE EnterBarrier(w)
    <3>1. /\ \/ pc[w] = "rand_barrier" /\ pc'[w] = "rand_wait"
             \/ pc[w] = "verify_barrier" /\ pc'[w] = "verify_wait"
          /\ iter'[w] = iter[w] /\ entered'[w] = entered[w] + 1
      BY <1>3, <2>2 DEF EnterBarrier, Goto, At
    <3> QED BY <1>1, <1>2, <1>3, <1>5, <3>1, SMTT(30) DEF Sorts, Skipped, Due, AfterSort, InFirst, InSecond
  <2>3. CASE LeaveBarrier(w)
    <3>1. /\ \/ pc[w] = "rand_wait" /\ pc'[w] = "start"
             \/ pc[w] = "verify_wait" /\ pc'[w] = "report"
          /\ iter'[w] = iter[w] /\ entered'[w] = entered[w]
      BY <1>3, <2>3 DEF LeaveBarrier, Goto, At
    <3> QED BY <1>1, <1>2, <1>3, <1>5, <3>1 DEF Sorts, Skipped, Due, AfterSort, InFirst, InSecond
  <2>4. CASE ReadStart(w) \/ Compare(w) \/ Increment(w) \/ EndVerify(w)
    <3>1. /\ \/ pc[w] = "start" /\ pc'[w] = "parallel_sort"
             \/ pc[w] \in Verifying /\ pc'[w] \in Verifying \cup {"verify_barrier"}
          /\ iter'[w] = iter[w] /\ entered'[w] = entered[w]
      BY <1>3, <2>4 DEF ReadStart, Compare, Increment, EndVerify, Goto, At, Verifying
    <3> QED BY <1>1, <1>2, <1>3, <1>5, <3>1
            DEF Sorts, Skipped, Due, AfterSort, InFirst, InSecond, Verifying
  <2>5. CASE GiveUp(w)
    <3>1. /\ pc[w] = "parallel_verify" /\ pc'[w] = "report" /\ iter'[w] = iter[w]
      BY <1>3, <2>5 DEF GiveUp, Goto, At
    <3> QED BY <1>1, <1>2, <1>3, <1>5, <2>5, <3>1 DEF Sorts, AfterSort
  <2>6. CASE Report(w)
    <3>1. /\ pc[w] = "report" /\ pc'[w] \in {"parallel_rand", "done"} /\ iter'[w] = iter[w] + 1
          /\ entered'[w] = entered[w]
      BY <1>3, <2>6 DEF Report, Goto, At
    <3> QED BY <1>1, <1>2, <1>3, <1>5, <3>1 DEF Sorts, Skipped, Due, AfterSort, InFirst, InSecond
  <2> QED BY <2>1, <2>2, <2>3, <2>4, <2>5, <2>6 DEF Step
<1> QED BY <1>4, <1>5

\* While a worker verifies a result that no alarm has been raised for, no
\* other has left this iteration, or has begun to verify later.
LEMMA NobodyIsAhead ==
  ASSUME NInv, build.backend # "mpi", NEW w \in Workers, NEW v \in Workers,
         pc[w] \in Verifying, Sorts(w) \notin alarms
  PROVE  pc[v] \in AfterSort
<1> SUFFICES ASSUME pc[v] \notin AfterSort PROVE FALSE
  OBVIOUS
<1> USE Types DEF NInv, IInv
<1>1. /\ iter[v] \in Int /\ iter[w] \in Int /\ entered[v] \in Int /\ entered[w] \in Int
      /\ Sorts(v) = Sorts(w)
  BY DEF SortedInv
<1>2. iter[v] = iter[w] + 1
  BY <1>1 DEF Sorts, Verifying, AfterSort
<1>3. Due(w) = 2 * iter[w] - 1
  BY <1>1 DEF Due, Verifying, InFirst
<1>4. Due(v) = 2 * iter[w] + (IF pc[v] \in InFirst THEN 1 ELSE 0)
  BY <1>1, <1>2 DEF Due, InSecond, AfterSort
<1>5. entered[w] >= entered[v] - (IF pc[v] \in InFirst THEN 1 ELSE 0)
  BY <1>1 DEF BarrierInv, Waiting, InFirst, AfterSort
<1>6. Skipped(v) > Skipped(w)
  BY <1>1, <1>3, <1>4, <1>5 DEF Skipped
<1>7. Sorts(v) \in alarms \/ At(v, "report")
  BY <1>6 DEF AheadInv
<1> QED BY <1>1, <1>7 DEF At, AfterSort

\* Steps that leave some evidence of every disorder not yet reported.
LEMMA NoticeKept ==
  ASSUME NInv, NEW w \in Workers, Step(w),
         \A u \in Workers : Evidence(u) /\ Sorts(u) \in disorder \ alarms' =>
                            \E v \in Workers : Evidence(v)'
  PROVE  NoticeInv'
<1>1. IInv
  BY DEF NInv
<1>2. /\ Workers' = Workers /\ disorder' = disorder /\ alarms \subseteq alarms'
      /\ \A v \in Workers : Sorts(v)' = Sorts(v)
  BY <1>1, StepsKeep
<1> SUFFICES ASSUME NEW i \in disorder' \ alarms'
             PROVE  (\A v \in Workers : Sorts(v)' = i) /\ (\E v \in Workers : Evidence(v)')
  BY <1>2 DEF NoticeInv
<1>3. i \in disorder \ alarms
  BY <1>2
<1>4. PICK u \in Workers : Evidence(u) /\ \A v \in Workers : Sorts(v) = i
  BY <1>3 DEF NInv, NoticeInv
<1> QED BY <1>2, <1>4

\* Steps that leave the alarms of those who are ahead to come.
LEMMA AheadKept ==
  ASSUME NInv, NEW w \in Workers, Step(w), ~GiveUp(w),
         \A v \in Workers : build.backend = "dash" /\ At(v, "report") /\ nerror[v] > 0 =>
                            Sorts(v) \in alarms' \/ (At(v, "report")' /\ nerror'[v] > 0)
  PROVE  AheadInv'
<1> SUFFICES ASSUME build.backend # "mpi", NEW v \in Workers, NEW u \in Workers,
                    Skipped(v)' > Skipped(u)'
             PROVE  /\ build.backend = "dash"
                    /\ Sorts(v)' \in alarms' \/ (At(v, "report")' /\ nerror'[v] > 0)
  BY StepsKeep DEF NInv, AheadInv
<1>1. /\ alarms \subseteq alarms' /\ Sorts(v)' = Sorts(v)
      /\ Skipped(v)' = Skipped(v) /\ Skipped(u)' = Skipped(u)
  BY StepsKeep DEF NInv
<1>2. build.backend = "dash" /\ (Sorts(v) \in alarms \/ (At(v, "report") /\ nerror[v] > 0))
  BY <1>1 DEF NInv, AheadInv
<1> QED BY <1>1, <1>2

-----------------------------------------------------------------------------
LEMMA InitNotice == Init => NInv
<1> SUFFICES ASSUME Init PROVE NInv
  OBVIOUS
<1>1. IInv
  BY InitInv
<1>2. NoticeInv
  BY DEF Init, NoticeInv
<1>3. \A w \in Workers : Skipped(w) = 0
  BY DEF Init, Skipped, Due, InFirst, InSecond
<1>4. AheadInv
  BY <1>3 DEF AheadInv
<1> QED BY <1>1, <1>2, <1>4 DEF NInv

\* Keys are only overwritten when they have been verified by all.
LEMMA ParallelRandNotice ==
  ASSUME NInv, NEW w \in Workers, ParallelRand(w) PROVE NoticeInv' /\ AheadInv'
<1> USE DEF NInv, IInv
<1>1. /\ UNCHANGED <<build, iter, disorder, step, nerror, alarms>>
      /\ At(w, "parallel_rand") /\ pc' = [pc EXCEPT ![w] = AfterRand]
      /\ AfterRand \in {"rand_barrier", "start"}
  BY DEF ParallelRand, AfterRand, errors, reports, Goto
<1>2. ASSUME NEW v \in Workers, v # w PROVE pc'[v] = pc[v] /\ keys'[v] = keys[v]
  BY <1>1, <1>2 DEF ParallelRand, SortTypeOK, Parts
<1>3. AheadInv'
  <2>1. \A v \in Workers : At(v, "report") => At(v, "report")'
    BY <1>1, <1>2 DEF At
  <2> QED BY <1>1, <2>1, AheadKept DEF Step, ParallelRand, At, Goto, GiveUp
<1>4. ASSUME NEW u \in Workers, Evidence(u), Sorts(u) \in disorder \ alarms PROVE Evidence(u)'
  <2>1. CASE nerror[Counter(u)] > 0 /\ pc[Reporter(u)] \in AfterSort
    <3>1. Reporter(u) \in Workers
      BY Types DEF Reporter
    <3>2. pc'[Reporter(u)] = pc[Reporter(u)]
      BY <1>1, <1>2, <2>1, <3>1 DEF At, AfterSort
    <3> QED BY <1>1, <2>1, <3>2 DEF Evidence, Counter, Reporter, Shared
  <2>2. CASE At(u, "increment")
    BY <1>1, <1>2, <2>2 DEF Evidence, At
  <2>3. CASE At(u, "parallel_verify") /\ Ahead(u) # {}
    <3>1. u # w
      BY <1>1, <2>3 DEF At
    <3>2. PICK k \in step[u] + 2 .. LastStep + 1 : LessAt(keys, u, k)
      BY <2>3 DEF Ahead
    <3>3. CASE k <= build.length
      BY <1>1, <1>2, <2>3, <3>1, <3>2, <3>3 DEF Evidence, At, Ahead, LastStep, LessAt
    <3>4. CASE ~(k <= build.length)
      <4>1. build.backend # "mpi"
        BY <3>2, <3>4, Types DEF LastStep
      <4>2. w # u - 1
        BY <1>1, <1>4, <2>3, <4>1, NobodyIsAhead DEF At, Verifying, AfterSort
      <4>3. u > 0 /\ u - 1 \in Workers
        BY <3>2, <3>4, Types DEF LessAt, Workers
      <4>4. keys'[u] = keys[u] /\ keys'[u - 1] = keys[u - 1]
        BY <1>2, <3>1, <4>2, <4>3
      <4>5. LessAt(keys, u, k)'
        BY <1>1, <3>2, <3>4, <4>4 DEF LessAt
      <4> QED BY <1>1, <1>2, <2>3, <3>1, <3>2, <4>5 DEF Evidence, At, Ahead, LastStep
    <3> QED BY <3>3, <3>4
  <2> QED BY <1>4, <2>1, <2>2, <2>3 DEF Evidence
<1>5. NoticeInv'
  BY <1>1, <1>4, NoticeKept DEF Step
<1> QED BY <1>3, <1>5

\* Passing a barrier, and starting the timer.
LEMMA PassNotice ==
  ASSUME NInv, NEW w \in Workers,
         EnterBarrier(w) \/ LeaveBarrier(w) \/ ReadStart(w) \/ EndVerify(w)
  PROVE  NoticeInv' /\ AheadInv'
<1> USE DEF NInv, IInv
<1>1. /\ UNCHANGED <<build, keys, disorder, step, nerror, alarms>>
      /\ Step(w) /\ ~At(w, "report") /\ ~At(w, "increment") /\ ~GiveUp(w)
      /\ At(w, "parallel_verify") => step[w] >= LastStep
      /\ pc[w] \in AfterSort => pc'[w] \in AfterSort
      /\ \A v \in Workers \ {w} : pc'[v] = pc[v]
  BY DEF EnterBarrier, LeaveBarrier, ReadStart, EndVerify, GiveUp, Step, At, Goto, AfterSort, data,
     errors, reports, SortTypeOK
<1>2. AheadInv'
  <2>1. \A v \in Workers : At(v, "report") => At(v, "report")'
    BY <1>1 DEF At
  <2> QED BY <1>1, <2>1, AheadKept
<1>3. ASSUME NEW u \in Workers, Evidence(u) PROVE Evidence(u)'
  <2>1. CASE nerror[Counter(u)] > 0 /\ pc[Reporter(u)] \in AfterSort
    <3>1. Reporter(u) \in Workers
      BY Types DEF Reporter
    <3>2. pc'[Reporter(u)] \in AfterSort
      BY <1>1, <2>1, <3>1
    <3> QED BY <1>1, <2>1, <3>2 DEF Evidence, Counter, Reporter, Shared
  <2>2. CASE At(u, "increment")
    BY <1>1, <2>2 DEF Evidence, At
  <2>3. CASE At(u, "parallel_verify") /\ Ahead(u) # {}
    <3>1. u # w
      <4> SUFFICES ASSUME u = w PROVE Ahead(u) = {}
        BY <2>3
      <4>1. step[w] \in Nat /\ step[w] >= LastStep /\ LastStep \in Int
        BY <1>1, <2>3, Types DEF LastStep
      <4> QED BY <4>1 DEF Ahead
    <3>2. Ahead(u)' = Ahead(u)
      BY <1>1 DEF Ahead, LastStep, LessAt
    <3> QED BY <1>1, <2>3, <3>1, <3>2 DEF Evidence, At
  <2> QED BY <1>3, <2>1, <2>2, <2>3 DEF Evidence
<1>4. NoticeInv'
  BY <1>1, <1>3, NoticeKept
<1> QED BY <1>2, <1>4

\* A comparison that finds nothing leaves what is ahead of it to find.
LEMMA CompareNotice ==
  ASSUME NInv, NEW w \in Workers, Compare(w) PROVE NoticeInv' /\ AheadInv'
<1> USE DEF NInv, IInv
<1>1. /\ UNCHANGED <<build, iter, keys, disorder, nerror, alarms>>
      /\ Step(w) /\ pc[w] = "parallel_verify" /\ ~GiveUp(w)
      /\ pc'[w] \in Verifying
      /\ \A v \in Workers \ {w} : pc'[v] = pc[v] /\ step'[v] = step[v]
  BY DEF Compare, GiveUp, Step, At, Goto, Verifying, data, reports, SortTypeOK
<1>2. AheadInv'
  <2>1. \A v \in Workers : At(v, "report") => At(v, "report")'
    BY <1>1 DEF At
  <2> QED BY <1>1, <2>1, AheadKept
<1>3. ASSUME NEW u \in Workers, Evidence(u) PROVE Evidence(u)'
  <2>1. CASE nerror[Counter(u)] > 0 /\ pc[Reporter(u)] \in AfterSort
    <3>1. Reporter(u) \in Workers
      BY Types DEF Reporter
    <3>2. pc'[Reporter(u)] \in AfterSort
      BY <1>1, <2>1, <3>1 DEF AfterSort, Verifying
    <3> QED BY <1>1, <2>1, <3>2 DEF Evidence, Counter, Reporter, Shared
  <2>2. CASE At(u, "increment")
    BY <1>1, <2>2 DEF Evidence, At
  <2>3. CASE At(u, "parallel_verify") /\ Ahead(u) # {}
    <3>1. CASE u # w
      <4>1. Ahead(u)' = Ahead(u)
        BY <1>1, <3>1 DEF Ahead, LastStep, LessAt
      <4> QED BY <1>1, <2>3, <3>1, <4>1 DEF Evidence, At
    <3>2. CASE u = w /\ LessThanBefore(w)
      <4>1. pc'[w] = "increment"
        BY <3>2 DEF Compare, Goto, SortTypeOK
      <4> QED BY <3>2, <4>1 DEF Evidence, At
    <3>3. CASE u = w /\ ~LessThanBefore(w)
      <4>1. pc'[w] = "parallel_verify" /\ step'[w] = step[w] + 1 /\ step[w] \in Int /\ LastStep \in Int
        BY <1>1, <3>3, Types DEF Compare, SortTypeOK, LastStep
      <4>2. PICK k \in step[w] + 2 .. LastStep + 1 : LessAt(keys, w, k)
        BY <2>3, <3>3 DEF Ahead
      <4>3. k # step[w] + 2
        BY <3>3, <4>2 DEF LessThanBefore, LessAt
      <4>4. k \in (step[w] + 1) + 2 .. LastStep + 1
        BY <4>1, <4>2, <4>3
      <4>5. k \in Ahead(w)'
        BY <1>1, <4>1, <4>2, <4>4 DEF Ahead, LastStep, LessAt
      <4> QED BY <3>3, <4>1, <4>5 DEF Evidence, At
    <3> QED BY <3>1, <3>2, <3>3
  <2> QED BY <1>3, <2>1, <2>2, <2>3 DEF Evidence
<1>4. NoticeInv'
  BY <1>1, <1>3, NoticeKept
<1> QED BY <1>2, <1>4

\* Whatever other increments it overwrites, the counter is above zero after
\* this one, and stays so until it is looked at.
LEMMA IncrementNotice ==
  ASSUME NInv, NEW w \in Workers, Increment(w) PROVE NoticeInv' /\ AheadInv'
<1> USE DEF NInv, IInv
<1>1. /\ UNCHANGED <<build, iter, disorder, alarms>>
      /\ Step(w) /\ pc[w] = "increment" /\ pc'[w] = "parallel_verify" /\ ~GiveUp(w)
      /\ nerror' = [nerror EXCEPT ![Counter(w)] = seen[w] + 1]
      /\ \A v \in Workers \ {w} : pc'[v] = pc[v]
  BY DEF Increment, GiveUp, Step, At, Goto, data, reports, SortTypeOK
<1>2. Counter(w) \in Workers /\ seen[w] + 1 > 0 /\ nerror \in [Workers -> Nat]
  BY Types DEF Counter, SortTypeOK
<1>3. AheadInv'
  <2>1. \A v \in Workers : At(v, "report") => At(v, "report")'
    BY <1>1 DEF At
  <2>2. \A v \in Workers : nerror[v] > 0 => nerror'[v] > 0
    BY <1>1, <1>2
  <2> QED BY <1>1, <2>1, <2>2, AheadKept
<1>4. ASSUME Sorts(w) \notin alarms PROVE Evidence(w)'
  <2>1. Reporter(w) \in Workers /\ (Reporter(w) # w => build.backend # "mpi")
    BY Types DEF Reporter, Shared
  <2>2. pc[Reporter(w)] \in AfterSort
    BY <1>1, <1>4, <2>1, NobodyIsAhead DEF Verifying, AfterSort
  <2>3. pc'[Reporter(w)] \in AfterSort
    BY <1>1, <2>1, <2>2 DEF AfterSort
  <2> QED BY <1>1, <1>2, <2>3 DEF Evidence, Counter, Reporter, Shared
<1>5. ASSUME NEW u \in Workers, Sorts(u) \in disorder \ alarms'
      PROVE  \E v \in Workers : Evidence(v)'
  BY <1>1, <1>4, <1>5 DEF SortedInv
<1>6. NoticeInv'
  BY <1>1, <1>5, NoticeKept
<1> QED BY <1>3, <1>6

\* Who gives up has counted an error, and is about to report it.
LEMMA GiveUpNotice ==
  ASSUME NInv, NEW w \in Workers, GiveUp(w) PROVE NoticeInv' /\ AheadInv'
<1> USE DEF NInv, IInv
<1>1. /\ UNCHANGED <<build, iter, disorder, nerror, entered, alarms>>
      /\ Step(w) /\ pc[w] = "parallel_verify" /\ pc'[w] = "report"
      /\ build.backend = "dash" /\ nerror[w] > 0
      /\ \A v \in Workers \ {w} : pc'[v] = pc[v]
  BY DEF GiveUp, GivesUp, Step, At, Goto, data, errors, SortTypeOK
<1>2. Evidence(w)'
  BY <1>1 DEF Evidence, Counter, Reporter, Shared, AfterSort
<1>3. NoticeInv'
  BY <1>1, <1>2, NoticeKept
<1>4. /\ \A v \in Workers : Sorts(v)' = Sorts(v)
      /\ \A v \in Workers \ {w} : Skipped(v)' = Skipped(v)
      /\ Workers' = Workers
  BY <1>1, StepsKeep DEF Skipped, Due
<1>5. Skipped(w)' \in Int /\ Skipped(w)' >= Skipped(w)
  BY <1>1, Types DEF Skipped, Due, InFirst, InSecond
<1>6. AheadInv'
  <2> SUFFICES ASSUME NEW v \in Workers, NEW u \in Workers, Skipped(v)' > Skipped(u)'
               PROVE  Sorts(v)' \in alarms' \/ (At(v, "report")' /\ nerror'[v] > 0)
    BY <1>1, <1>4 DEF AheadInv
  <2>1. CASE v = w
    BY <1>1, <2>1 DEF At
  <2>2. CASE v # w
    <3>1. Skipped(v) > Skipped(u)
      <4>1. Skipped(v) \in Int /\ Skipped(w) \in Int /\ Skipped(v)' = Skipped(v)
        BY <1>4, <2>2, Types
      <4>2. u = w \/ Skipped(u)' = Skipped(u)
        BY <1>4
      <4> QED BY <1>5, <4>1, <4>2
    <3> QED BY <1>1, <1>4, <2>2, <3>1 DEF AheadInv, At
  <2> QED BY <2>1, <2>2
<1> QED BY <1>3, <1>6

\* Any error counted reaches the one that prints.
LEMMA ReportNotice ==
  ASSUME NInv, NEW w \in Workers, Report(w) PROVE NoticeInv' /\ AheadInv'
<1> USE DEF NInv, IInv
<1>1. /\ UNCHANGED <<build, keys, disorder, step, nerror>>
      /\ Step(w) /\ pc[w] = "report" /\ ~GiveUp(w)
      /\ alarms' = IF Fails(w) /\ (Shared => w = 0) THEN alarms \cup {iter[w]} ELSE alarms
      /\ \A v \in Workers \ {w} : pc'[v] = pc[v]
  BY DEF Report, GiveUp, Step, At, Goto, data, errors, SortTypeOK
<1>2. Sorts(w) = iter[w]
  BY <1>1, Types DEF Sorts, AfterSort
<1>3. AheadInv'
  <2> SUFFICES ASSUME NEW v \in Workers, build.backend = "dash", At(v, "report"), nerror[v] > 0
               PROVE  Sorts(v) \in alarms' \/ (At(v, "report")' /\ nerror'[v] > 0)
    BY <1>1, AheadKept
  <2>1. CASE v = w
    BY <1>1, <1>2, <2>1 DEF Fails, Shared
  <2>2. CASE v # w
    BY <1>1, <2>2 DEF At
  <2> QED BY <2>1, <2>2
<1>4. ASSUME NEW u \in Workers, Evidence(u), Sorts(u) \in disorder \ alarms' PROVE Evidence(u)'
  <2>1. CASE nerror[Counter(u)] > 0 /\ pc[Reporter(u)] \in AfterSort
    <3>1. Reporter(u) \in Workers /\ Counter(u) \in Workers
      BY Types DEF Reporter, Counter
    <3>2. Reporter(u) # w
      <4> SUFFICES ASSUME Reporter(u) = w PROVE FALSE
        OBVIOUS
      <4>1. (Shared => w = 0) /\ (~Shared => u = w)
        BY DEF Reporter
      <4>2. Fails(w)
        BY <2>1, <3>1, <4>1, Types DEF Fails, Counter, Shared
      <4> QED BY <1>1, <1>2, <1>4, <4>1, <4>2 DEF SortedInv
    <3>3. pc'[Reporter(u)] \in AfterSort
      BY <1>1, <2>1, <3>1, <3>2
    <3> QED BY <1>1, <2>1, <3>3 DEF Evidence, Counter, Reporter, Shared
  <2>2. CASE At(u, "increment")
    BY <1>1, <2>2 DEF Evidence, At
  <2>3. CASE At(u, "parallel_verify") /\ Ahead(u) # {}
    <3>1. Ahead(u)' = Ahead(u)
      BY <1>1 DEF Ahead, LastStep, LessAt
    <3> QED BY <1>1, <2>3, <3>1 DEF Evidence, At
  <2> QED BY <1>4, <2>1, <2>2, <2>3 DEF Evidence
<1>5. NoticeInv'
  BY <1>1, <1>4, NoticeKept
<1> QED BY <1>3, <1>5

\* No disorder is left over when all are at the sort, and of a new one some
\* worker will find evidence.
LEMMA ParallelSortNotice ==
  ASSUME NInv, ParallelSort PROVE NoticeInv' /\ AheadInv'
<1> USE DEF NInv, IInv
<1>1. PICK result \in Parts :
        /\ keys' = result
        /\ disorder' = IF OutOfOrder(result) THEN disorder \cup {iter[w] : w \in Workers}
                       ELSE disorder
  BY DEF ParallelSort
<1>2. /\ UNCHANGED <<build, iter, entered, alarms>> /\ Workers' = Workers
      /\ \A w \in Workers : /\ pc[w] = "parallel_sort" /\ pc'[w] = "parallel_verify"
                            /\ step'[w] = 0 /\ iter[w] \in Int /\ entered[w] \in Int
  BY Types DEF ParallelSort, At, Workers, reports
<1>3. ASSUME NEW w \in Workers
      PROVE  /\ Sorts(w) = iter[w] - 1 /\ Sorts(w)' = iter[w]
             /\ Skipped(w) = 2 * (iter[w] - 1) + 1 - entered[w] /\ Skipped(w)' = Skipped(w)
  BY <1>2 DEF Sorts, Skipped, Due, AfterSort, InFirst, InSecond
<1>4. \A w, v \in Workers : iter[w] = iter[v]
  BY <1>2, <1>3 DEF SortedInv
<1>5. AheadInv'
  <2>1. \A w, v \in Workers : entered[w] = entered[v]
    BY <1>2 DEF BarrierInv, Waiting
  <2> QED BY <1>2, <1>3, <1>4, <2>1 DEF AheadInv
<1>6. disorder \subseteq alarms
  <2> SUFFICES ASSUME NEW u \in Workers, Evidence(u) PROVE FALSE
    BY DEF NoticeInv
  <2>1. Reporter(u) \in Workers
    BY Types DEF Reporter
  <2> QED BY <1>2, <2>1 DEF Evidence, At, AfterSort
<1>7. ASSUME NEW i \in disorder' \ alarms'
      PROVE  (\A w \in Workers : Sorts(w)' = i) /\ (\E w \in Workers : Evidence(w)')
  <2>1. OutOfOrder(result) /\ i \in {iter[w] : w \in Workers}
    BY <1>1, <1>2, <1>6, <1>7
  <2>2. PICK w \in Workers, k \in 2 .. LastStep + 1 : LessAt(result, w, k)
    BY <2>1, NeighboursSuffice
  <2>3. k \in Ahead(w)'
    BY <1>1, <1>2, <2>2 DEF Ahead, LessAt, LastStep
  <2> QED BY <1>2, <1>3, <1>4, <2>1, <2>3 DEF Evidence, At
<1>8. NoticeInv'
  BY <1>2, <1>7 DEF NoticeInv
<1> QED BY <1>5, <1>8

LEMMA StutterNotice ==
  ASSUME NInv, UNCHANGED vars PROVE NoticeInv' /\ AheadInv'
<1>1. /\ UNCHANGED <<build, pc, iter, keys, disorder, step, nerror, entered, alarms>>
      /\ Workers' = Workers
  BY DEF vars, data, errors, reports, Workers
<1>2. \A w \in Workers : Sorts(w)' = Sorts(w) /\ Skipped(w)' = Skipped(w) /\ Evidence(w)' = Evidence(w)
  BY <1>1 DEF Sorts, Skipped, Due, Evidence, Counter, Reporter, Shared, Ahead, LastStep, LessAt, At
<1> QED BY <1>1, <1>2 DEF NInv, NoticeInv, AheadInv, At

-----------------------------------------------------------------------------
\* The inductive invariant: evidence of a disorder lasts until the alarm.
THEOREM NoticeInvariance == Spec => []NInv
<1>1. NInv /\ [Next]_vars => NInv'
  <2> SUFFICES ASSUME NInv, [Next]_vars PROVE NInv'
    OBVIOUS
  <2>1. IInv'
    BY SortStep DEF NInv
  <2>2. CASE ParallelSort
    BY <2>1, <2>2, ParallelSortNotice DEF NInv
  <2>3. ASSUME NEW w \in Workers, Step(w) PROVE NInv'
    BY <2>1, <2>3, ParallelRandNotice, PassNotice, CompareNotice, IncrementNotice, GiveUpNotice,
       ReportNotice DEF NInv, Step
  <2>4. CASE UNCHANGED vars
    BY <2>1, <2>4, StutterNotice DEF NInv
  <2> QED BY <2>2, <2>3, <2>4 DEF Next, Exit
<1> QED BY <1>1, InitNotice, PTL DEF Spec

(***************************************************************************)
(* Whatever the number of workers and keys, and whatever a sort returns:   *)
(* when all have got past an iteration of sortbench.cc whose result was    *)
(* out of order, "validation failed!" has been printed for it.             *)
(***************************************************************************)
THEOREM DisorderTheorem == Spec => []DisorderNoticed
<1>1. NInv => DisorderNoticed
  <2> SUFFICES ASSUME NInv, NEW i \in disorder \ alarms, \A w \in Workers : iter[w] > i
               PROVE  FALSE
    BY DEF DisorderNoticed
  <2> USE Types DEF NInv, IInv
  <2>1. PICK u \in Workers : Evidence(u)
    BY DEF NoticeInv
  <2>2. PICK v \in Workers : pc[v] \in AfterSort
    <3>1. Reporter(u) \in Workers
      BY DEF Reporter
    <3> QED BY <2>1, <3>1 DEF Evidence, At, AfterSort
  <2>3. iter[v] \in Int /\ iter[v] > i /\ Sorts(v) = i
    BY DEF NoticeInv
  <2> QED BY <2>2, <2>3 DEF Sorts
<1> QED BY <1>1, NoticeInvariance, PTL
=============================================================================
