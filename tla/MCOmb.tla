------------------------------- MODULE MCOmb -------------------------------
(***************************************************************************)
(* Instances of the benchmarks of the OSU suite.                           *)
(***************************************************************************)
EXTENDS OmbSuite

MCOptions    == [loop |-> 2, skip |-> 1, loop_large |-> 2, skip_large |-> 0]
GivenOptions == [loop |-> 2, skip |-> 1, loop_large |-> 2, skip_large |-> 1]

-----------------------------------------------------------------------------
\* Two processes where two are required, and also the wrong number; two pairs
\* for the multi-pair benchmarks; an idle process and two windows for
\* osu_mbw_mr.
NoOverride == Keeping
Overridden == [loop |-> 1, skip |-> 1]
OnlyLoop   == [loop |-> 3, skip |-> Keep]

Pt2PtPrograms ==
  <<OsuLatency(2), OsuLatency(3), OsuBw(2), OsuBibw(2), OsuMultiLat(2), OsuMultiLat(4),
    OsuMbwMr(2, 1, <<1, 2>>, NoOverride), OsuMbwMr(3, 1, <<2>>, OnlyLoop),
    OsuMbwMr(4, 2, <<1>>, Overridden), OsuMbwMr(3, 2, <<1>>, NoOverride)>>

\* Three processes where the collective has a root, two otherwise, and one,
\* which is too few.
CollectivePrograms ==
  <<OsuAllgather(2), OsuAllgatherv(2), OsuAllreduce(2), OsuAlltoall(2), OsuAlltoallv(2),
    OsuBarrier(3), OsuBcast(3), OsuBcast(1), OsuGather(3), OsuGatherv(3), OsuReduce(3),
    OsuReduceScatter(2), OsuScatter(3), OsuScatterv(3), OsuIallgather(2),
    OsuIallgatherv(2), OsuIalltoall(2), OsuIalltoallv(2), OsuIalltoallw(2),
    OsuIbarrier(2), OsuIbcast(3), OsuIgather(2), OsuIgatherv(2), OsuIscatter(2),
    OsuIscatterv(2)>>

\* Every program with every -s it distinguishes; windows in memory that is
\* attached later where the program can use them; three processes, one of
\* them idle, and one process, its own target, where the program allows it.
TwoRanks == {"osu_put_bw", "osu_get_bw", "osu_put_bibw"} \cup PingPong

OneSidedLaunches ==
  {WithOptions(name, sync, "allocate", 2) :
     name \in Latency, sync \in {"lock", "lock_all", "flush", "flush_local", "wait"}}
  \cup {WithOptions(name, sync, "allocate", 2) :
     name \in TwoRanks \ {"osu_put_bibw"},
     sync \in {"lock", "lock_all", "flush", "flush_local", "pscw", "fence"}}
  \cup {WithOptions("osu_put_bibw", sync, "allocate", 2) : sync \in Active}
  \cup {WithOptions("osu_put_latency", "pscw", "dynamic", 3),
        WithOptions("osu_get_latency", "lock", "dynamic", 1),
        WithOptions("osu_get_acc_latency", "fence", "dynamic", 2),
        WithOptions("osu_cas_latency", "pscw", "dynamic", 2),
        WithOptions("osu_fop_latency", "lock", "dynamic", 2),
        WithOptions("osu_put_bw", "fence", "allocate", 3)}
  \cup {WithOptions("osu_alloc_latency", "flush", win, 2) :
          win \in {"create", "allocate", "dynamic"}}

Programs(launches) == FoldSet(LAMBDA b, others : Append(others, Program(b)), <<>>, launches)

\* Two units and an idle one between them; one unit that is its own target.
DartPrograms ==
  <<OsuDartPut("flush", 2), OsuDartPut("flush_local", 2), OsuDartPut("blocking", 3),
    OsuDartGet("flush", 2), OsuDartGet("flush_local", 3), OsuDartGet("req_handle", 1)>>

\* Two PEs where two are required, and three, of which one is idle; three
\* for the collectives that do not make everybody wait for everybody.
ShmemPrograms ==
  <<OsuOshmPut(TRUE, 2), OsuOshmGet(FALSE, 2), OsuOshmGet(TRUE, 3), OsuOshmPutMr(TRUE, 2),
    OsuOshmPutMr(FALSE, 3), OsuOshmAtomics(TRUE, 2), OsuOshmCollect(2), OsuOshmFcollect(2),
    OsuOshmBroadcast(3), OsuOshmReduce(2), OsuOshmBarrier(3)>>

\* Three and four threads give a thread without a peer and two senders.
UpcPrograms ==
  <<OsuUpcMemput(2), OsuUpcMemput(4), OsuUpcMemget(3), OsuUpcMemget(1),
    OsuUpcxxAsyncCopyPut(2), OsuUpcxxAsyncCopyGet(3),
    OsuUpcAllBroadcast(2), OsuUpcAllExchange(2), OsuUpcAllGather(2), OsuUpcAllGatherAll(2),
    OsuUpcAllReduce(2), OsuUpcAllScatter(2), OsuUpcAllBarrier(3), OsuUpcxxAllgather(2),
    OsuUpcxxAlltoall(2), OsuUpcxxBcast(3), OsuUpcxxGather(3), OsuUpcxxReduce(3),
    OsuUpcxxScatter(3)>>

\* TLC evaluates MCPrograms once, but what a constant stands for every time.
MCPrograms   == Pt2PtPrograms \o CollectivePrograms \o Programs(OneSidedLaunches)
                  \o DartPrograms \o ShmemPrograms \o UpcPrograms
MCBenchmarks == MCPrograms

-----------------------------------------------------------------------------
\* The programs of the other runs.
MCCopies == <<OsuUpcxxAsyncCopyPut(2), OsuUpcxxAsyncCopyGet(2)>>

MCVector == <<OsuIallgatherv(2), OsuIalltoallv(2), OsuIgatherv(2), OsuIbarrier(2)>>

\* The programs that index a window with the pointer to their table.
MCDynamic ==
  Programs({WithOptions(name, "flush", "dynamic", 2) : name \in {"osu_put_bw", "osu_get_bw"}})
=============================================================================
