--------------------------- MODULE OmbCollective ---------------------------
(***************************************************************************)
(* The collective benchmarks of mpi/collective, blocking and nonblocking,  *)
(* and what can go wrong in them in particular.                            *)
(*                                                                         *)
(* The timed operation of an iteration is followed by a barrier, which is  *)
(* not timed.  What is placed around the loop differs from file to file.   *)
(***************************************************************************)
EXTENDS OmbRun

CONSTANTS IterationsLarge,  \* static int iterations_large of osu_coll.h
          FixedSkip,        \* SKIP of osu_coll.h
          FixedSkipLarge,   \* SKIP_LARGE of osu_coll.h
          NumProbes         \* options.num_probes

ASSUME OmbCollectiveAssumption ==
  /\ IterationsLarge \in Nat \ {0}
  /\ {FixedSkip, FixedSkipLarge, NumProbes} \subseteq Nat

\* The minimum, the maximum and the sum of the latencies.
MinMaxAvg == <<Reduce, Reduce, Reduce>>

-----------------------------------------------------------------------------
(***************************************************************************)
(* Blocking collectives.                                                   *)
(***************************************************************************)
\* Mutant: the iterations are not separated.
IterationUnseparated(kind) == <<TStart, Measured(Call(kind)), Sample>>

Iteration(kind) == <<TStart, Measured(Call(kind)), Sample, Barrier>>

Blocking(np, kind, start, before, after) ==
  LET Body(k, r) == <<Once(<<SetIfLarge(k)>> \o before \o <<Reset>>),
                      Loop(Iteration(kind)),
                      Once(after)>>
  IN  Benchmark(Launch(kind, np), np >= 2, NumSizes, start, Body, <<Touch>>)

\* The four ways to surround the loop over the iterations.
Plain(np, kind) ==
  Blocking(np, kind, <<>>, <<Barrier>>, <<Report>> \o MinMaxAvg \o <<Barrier>>)
Settled(np, kind, before) ==
  Blocking(np, kind, <<>>, before, <<Barrier, Report>> \o MinMaxAvg \o <<Barrier>>)

OsuAllgather(np)     == Settled(np, "allgather", <<Barrier>>)
OsuAllgatherv(np)    == Settled(np, "allgatherv", <<Barrier, Barrier>>)
OsuGatherv(np)       == Settled(np, "gather", <<Barrier, Barrier>>)
OsuAllreduce(np)     == Plain(np, "allreduce")
OsuAlltoall(np)      == Plain(np, "alltoall")
OsuGather(np)        == Plain(np, "gather")
OsuReduce(np)        == Plain(np, "reduce")
OsuReduceScatter(np) == Plain(np, "reduce_scatter")
OsuScatter(np)       == Plain(np, "scatter")

OsuAlltoallv(np) ==
  Blocking(np, "alltoallv", <<Barrier>>, <<Barrier>>,
           <<Report>> \o MinMaxAvg \o <<Barrier>>)
OsuScatterv(np) ==
  Blocking(np, "scatter", <<>>, <<Barrier, Barrier>>,
           <<Report>> \o MinMaxAvg \o <<Barrier>>)
OsuBcast(np) ==
  Blocking(np, "bcast", <<>>, <<>>, <<Barrier, Report>> \o MinMaxAvg)

\* One size, the options for large messages, and nothing but barriers.
OsuBarrier(np) ==
  LET Large1 == Assign([loop |-> Options.loop_large, skip |-> Options.skip_large])
      Body(k, r) == <<Once(<<Large1, Reset>>),
                      Loop(<<TStart, Measured(Barrier), Sample>>),
                      Once(<<Barrier, Report>> \o MinMaxAvg)>>
  IN  Benchmark(Launch("barrier", np), np >= 2, 1, <<>>, Body, <<>>)

-----------------------------------------------------------------------------
(***************************************************************************)
(* Nonblocking collectives: a first loop for the pure latency, which sets  *)
(* the amount of dummy computation, and a second one that overlaps it.     *)
(***************************************************************************)
\* options.skip = SKIP or SKIP_LARGE in the vector variants.
SetFixed(k) ==
  Assign(IF Large(k) THEN [loop |-> Options.loop_large, skip |-> FixedSkipLarge]
         ELSE [loop |-> Keep, skip |-> FixedSkip])

\* Mutant: the overlapped operation is not waited for.
OverlappedNotWaited(kind) ==
  <<TStart, Start(kind)>> \o Window(NumProbes, Test) \o <<Sample, Barrier>>

\* dummy_compute calls MPI_Test options.num_probes times.
Overlapped(kind) ==
  <<TStart, Start(kind)>> \o Window(NumProbes, Test) \o <<Measured(Wait), Sample, Barrier>>

\* What follows the second loop, with calculate_and_print_stats.
Stats(r) == <<Barrier, Report>> \o Window(6, Reduce) \o <<Barrier>>

\* Between the loops; setup is there for the vector variants.
Again(r, setup) == setup \o <<Barrier, Reset>>

Nonblocking(np, kind, vector, before, setup) ==
  LET Settings(k) == IF vector THEN SetFixed(k) ELSE SetIfLarge(k)
      Body(k, r) ==
        <<Once(<<Settings(k)>> \o before \o <<Reset>>),
          Loop(<<TStart, Start(kind), Measured(Wait), Sample, Barrier>>),
          Once(<<Barrier, Report>> \o Again(r, setup)),
          Loop(Overlapped(kind)),
          Once(Stats(r))>>
  IN  Benchmark(Launch(kind, np), np >= 2, NumSizes, <<>>, Body, <<Touch>>)

OsuIallgather(np)  == Nonblocking(np, "iallgather", FALSE, <<Barrier>>, <<>>)
OsuIalltoall(np)   == Nonblocking(np, "ialltoall", FALSE, <<Barrier>>, <<>>)
OsuIbcast(np)      == Nonblocking(np, "bcast", FALSE, <<>>, <<>>)
OsuIgather(np)     == Nonblocking(np, "gather", FALSE, <<>>, <<>>)
OsuIscatter(np)    == Nonblocking(np, "scatter", FALSE, <<>>, <<>>)
OsuIallgatherv(np) == Nonblocking(np, "iallgatherv", TRUE, <<Barrier, Barrier>>, <<>>)
OsuIalltoallv(np)  == Nonblocking(np, "ialltoallv", TRUE, <<Barrier>>, <<>>)
OsuIalltoallw(np)  == Nonblocking(np, "ialltoallw", TRUE, <<Barrier>>, <<>>)
OsuIgatherv(np)    == Nonblocking(np, "gather", TRUE, <<Barrier, Barrier>>, <<Barrier>>)
OsuIscatterv(np)   == Nonblocking(np, "scatter", TRUE, <<Barrier>>, <<>>)

\* One size; the iterations come from the header, not from the options.
OsuIbarrier(np) ==
  LET Large1 == Assign([loop |-> IterationsLarge, skip |-> Options.skip_large])
      Body(k, r) == <<Once(<<Large1, Reset>>),
                      Loop(<<TStart, Start("barrier"), Measured(Wait), Sample>>),
                      Once(<<Barrier, Report>> \o Again(r, <<>>)),
                      Loop(Overlapped("barrier")),
                      Once(Stats(r))>>
  IN  Benchmark(Launch("ibarrier", np), np >= 2, 1, <<>>, Body, <<>>)

-----------------------------------------------------------------------------
InMeasured(r) ==
  \/ At(r, "call") /\ inside[r] /\ Op(r).measured
  \/ Running(r) /\ request[r] # 0

(***************************************************************************)
(* What is measured is one operation on its own and never a pipeline of    *)
(* them, even where the root of a broadcast, or the leaves of a reduction, *)
(* do not have to wait for the others: from the second iteration on a      *)
(* process calls the measured collective when all the others have called   *)
(* everything before it.                                                   *)
(***************************************************************************)
IterationsSeparated ==
  \A r \in Ranks : InMeasured(r) /\ Section(r).loop /\ at[r].iter > 0 =>
    \A q \in Ranks : called[q] >= called[r] - 1

(***************************************************************************)
(* README: -x can be used to set the number of warmup iterations to skip   *)
(* for each message length, -i the number of iterations to run.  Each sets *)
(* the option for small and that for large messages.                       *)
(***************************************************************************)
OptionsAsGiven ==
  \A r \in Ranks : Running(r) /\ Section(r).loop =>
    /\ options[r].skip \in {Options.skip, Options.skip_large}
    /\ options[r].loop \in {Options.loop, Options.loop_large}
=============================================================================
