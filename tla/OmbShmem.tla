------------------------------ MODULE OmbShmem -----------------------------
(***************************************************************************)
(* The OpenSHMEM benchmarks.  shmem_putmem returns when its source may be  *)
(* used again, shmem_getmem and the fetching atomics when they have the    *)
(* data; shmem_add and shmem_inc do not wait for anything.  shmem_quiet    *)
(* and shmem_barrier_all complete all of these.                            *)
(*                                                                         *)
(* A collective needs a pSync array that no process is still using for an  *)
(* earlier one.                                                            *)
(***************************************************************************)
EXTENDS OmbCollective, OmbWindows

Quiet          == Flush
BarrierAll     == FencedBarrier
PutMem(target) == <<Access("put", target, "offset"), FlushLocal>>
GetMem(target) == <<Access("get", target, "offset"), Measured(FlushLocal)>>

\* A collective on all PEs; in iteration i it uses the (i % Len(arrays))-th
\* of its pSync arrays.
Synced(kind, arrays) ==
  [op |-> "call", kind |-> kind, peer |-> 0, tag |-> 0, set |-> Keeping,
   at_skip |-> FALSE, measured |-> FALSE, arrays |-> arrays]

-----------------------------------------------------------------------------
(***************************************************************************)
(* osu_oshm_put and osu_oshm_get.                                          *)
(***************************************************************************)
ShmemLatency(program, heap, np, operation) ==
  LET Body(k, r) ==
        <<Once(<<Touch, SetIfLarge(k)>> \o BarrierAll)>>
          \o Only(r = 0, <<Loop(<<AtSkip(TStart)>> \o operation), Once(<<TEnd>>)>>)
          \o <<Once(BarrierAll \o Only(r = 0, <<Report>>))>>
  IN  Benchmark(Launch(program, np), np = 2, NumSizes,
                Only(heap, Window(2, Call("shmalloc"))), Body,
                BarrierAll \o Only(heap, Window(2, Call("shfree"))) \o BarrierAll)

OsuOshmPut(heap, np) ==
  ShmemLatency("osu_oshm_put", heap, np, PutMem(1) \o <<Measured(Quiet)>>)
OsuOshmGet(heap, np) == ShmemLatency("osu_oshm_get", heap, np, GetMem(1))

-----------------------------------------------------------------------------
(***************************************************************************)
(* osu_oshm_put_mr and osu_oshm_atomics: PE v.me < v.pairs works on PE     *)
(* v.me + v.pairs, the others take part in the collectives only.           *)
(***************************************************************************)
NoSkip(loop) == Assign([loop |-> loop, skip |-> 0])
WarmUp(r, pairs) == Only(r < pairs, PutMem(r + pairs) \o PutMem(r + pairs))

\* Mutant: message_rate does not wait for its puts.
MessageRateNoQuiet(r, pairs) ==
  Only(r < pairs, <<Once(<<TStart>>),
                    Loop(<<Access("put", r + pairs, "offset"), Measured(FlushLocal)>>),
                    Once(<<TEnd, Report>>)>>)

MessageRate(r, pairs) ==
  Only(r < pairs, <<Once(<<TStart>>),
                    Loop(<<Access("put", r + pairs, "offset"), Measured(FlushLocal)>>),
                    Once(<<Quiet, TEnd, Report>>)>>)

OsuOshmPutMr(heap, np) ==
  LET pairs == np \div 2
      Body(k, r) ==
        <<Once(Only(k = 1, <<Touch>> \o WarmUp(r, pairs) \o BarrierAll)
                 \o <<NoSkip(IF Large(k) THEN Options.loop_large ELSE Options.loop), Touch>>
                 \o BarrierAll)>>
          \o MessageRate(r, pairs)
          \o <<Once(<<Synced("sum_to_all", <<"psync">>)>>)>>
  IN  Benchmark(Launch("osu_oshm_put_mr", np), np >= 2, NumSizes,
                Only(heap, <<Call("shmalloc")>>), Body, Only(heap, <<Call("shfree")>>))

\* The benchmarks for int, and the same again for long long.
Atomics == LET each == <<"fadd", "finc", "add", "inc", "cswap", "swap">> IN each \o each

AtomicLoop(kind, target) ==
  Loop(IF kind \in Fetching
       THEN <<Access(kind, target, "offset"), Measured(FlushLocal)>>
       ELSE <<Measured(Access(kind, target, "offset"))>>)

BenchmarkAtomic(kind, r, pairs) ==
  <<Once(<<Touch>> \o BarrierAll)>>
    \o Only(r < pairs, <<Once(<<TStart>>), AtomicLoop(kind, r + pairs),
                         Once(<<TEnd, Report>>)>>)
    \o <<Once(<<Synced("sum_to_all", <<"psync1">>), Synced("sum_to_all", <<"psync2">>)>>)>>

OsuOshmAtomics(heap, np) ==
  LET pairs == np \div 2
      Body(k, r) ==
        Only(k = 1, <<Once(<<NoSkip(Options.loop), Touch>> \o WarmUp(r, pairs))>>)
          \o BenchmarkAtomic(Atomics[k], r, pairs)
  IN  Benchmark(Launch("osu_oshm_atomics", np), np >= 2, Len(Atomics),
                BarrierAll \o Only(heap, <<Call("shmalloc")>>), Body,
                Only(heap, <<Call("shfree")>>))

-----------------------------------------------------------------------------
(***************************************************************************)
(* Collectives.  There is nothing for shmem_barrier_all to complete.       *)
(***************************************************************************)
\* Mutant: the minimum, the maximum and the sum share one pSync array.
StatsToAllShared ==
  <<Synced("min_to_all", <<"pSyncRed1">>), Synced("max_to_all", <<"pSyncRed1">>),
    Synced("sum_to_all", <<"pSyncRed1">>)>>

StatsToAll ==
  <<Synced("min_to_all", <<"pSyncRed1">>), Synced("max_to_all", <<"pSyncRed2">>),
    Synced("sum_to_all", <<"pSyncRed1">>)>>

ShmemIteration(kind, arrays) == <<TStart, Measured(Synced(kind, arrays)), Sample>>

\* buffers is the number of blocks allocated with shmalloc or shmemalign.
ShmemCollective(program, np, kind, buffers, arrays, before, after, finish) ==
  LET Body(k, r) ==
        <<Once(<<SetFixed(k)>> \o before \o <<Reset>>),
          Loop(ShmemIteration(kind, arrays) \o <<Barrier>>),
          Once(after)>>
  IN  Benchmark(Launch(program, np), np >= 2, NumSizes,
                Window(buffers, Call("shmalloc")), Body,
                finish \o Window(buffers, Call("shfree")))

OsuOshmCollect(np) ==
  ShmemCollective("osu_oshm_collect", np, "collect", 2, <<"pSyncCollect2", "pSyncCollect1">>,
                  <<Barrier>>, <<Barrier, Report>> \o StatsToAll, <<Barrier>>)
OsuOshmFcollect(np) ==
  ShmemCollective("osu_oshm_fcollect", np, "fcollect", 2, <<"pSyncCollect2", "pSyncCollect1">>,
                  <<Barrier>>, <<Barrier, Report>> \o StatsToAll, <<Barrier>>)
OsuOshmBroadcast(np) ==
  ShmemCollective("osu_oshm_broadcast", np, "bcast", 1, <<"pSyncBcast2", "pSyncBcast1">>,
                  <<>>, <<Barrier, Report>> \o StatsToAll, <<>>)
OsuOshmReduce(np) ==
  ShmemCollective("osu_oshm_reduce", np, "sum_to_all", 4, <<"pSyncRed2", "pSyncRed1">>,
                  <<Barrier>>, <<Report>> \o StatsToAll \o <<Barrier>>, <<Barrier>>)

\* One size, and nothing between the barriers but the change of the array.
OsuOshmBarrier(np) ==
  LET large == Assign([loop |-> Options.loop_large, skip |-> FixedSkipLarge])
      Body(k, r) ==
        <<Once(<<large, Reset>>),
          Loop(ShmemIteration("shmem_barrier", <<"pSyncBarrier2", "pSyncBarrier1">>)),
          Once(<<Barrier, Report>> \o StatsToAll)>>
  IN  Benchmark(Launch("osu_oshm_barrier", np), np >= 2, 1, <<>>, Body, <<>>)

-----------------------------------------------------------------------------
(***************************************************************************)
(* The pSync array with which a PE enters a collective is free: whoever is *)
(* in a collective with the same array is in the same collective, and      *)
(* whoever is in the same collective uses the same array.  A PE that has   *)
(* left the last collective says nothing about the others, so this takes   *)
(* the alternation of the arrays and the barriers together.                *)
(***************************************************************************)
SyncArray(r) == LET a == Op(r).arrays IN a[(at[r].iter % Len(a)) + 1]

InSynced(r) == inside[r] /\ "arrays" \in DOMAIN Op(r)

SyncArraysFree ==
  \A r \in Ranks : InSynced(r) =>
    \A q \in Ranks : InSynced(q) =>
      (SyncArray(r) = SyncArray(q) <=> called[r] = called[q])
=============================================================================
