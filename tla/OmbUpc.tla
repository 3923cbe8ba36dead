------------------------------- MODULE OmbUpc ------------------------------
(***************************************************************************)
(* The UPC and UPC++ benchmarks.  upc_memput and upc_memget return when    *)
(* the local memory may be used again, upc_fence and upc_barrier complete  *)
(* them; async_copy returns at once and async_wait completes the copies of *)
(* the caller, which the barrier of UPC++ does not.                        *)
(***************************************************************************)
EXTENDS OmbCollective, OmbWindows

-----------------------------------------------------------------------------
(***************************************************************************)
(* Latency of put and get: threads below THREADS/2 send, and the others    *)
(* answer their barriers.  The timer starts and stops after a barrier.     *)
(***************************************************************************)
\* Mutant: the others forget the barrier that starts the timer.
OthersOnce(barrier) == <<Once(barrier)>>

Others(barrier) == <<Once(barrier \o barrier)>>

UpcPeer(r, np) == (r + 1) % np

\* transfer[peer] is what is timed.
UpcLatency(program, np, transfer) ==
  LET Sender(r) ==
        <<Loop(<<AtSkip(Flush), AtSkip(Barrier), AtSkip(TStart)>>
                 \o transfer[UpcPeer(r, np)]),
          Once(FencedBarrier \o <<TEnd>> \o Only(r = 0, <<Report>>))>>
      Body(k, r) ==
        <<Once(<<Touch>> \o FencedBarrier \o <<SetIfLarge(k)>>)>>
          \o (IF r < np \div 2 THEN Sender(r) ELSE Others(FencedBarrier))
  IN  Benchmark(Launch(program, np), np # 1, NumSizes, <<Call("upc_all_alloc")>>, Body, <<>>)

OsuUpcMemput(np) ==
  UpcLatency("osu_upc_memput", np,
    [peer \in 0 .. np - 1 |-> <<Access("put", peer, "offset"), FlushLocal, Measured(Flush)>>])
OsuUpcMemget(np) ==
  UpcLatency("osu_upc_memget", np,
    [peer \in 0 .. np - 1 |-> <<Access("get", peer, "offset"), Measured(FlushLocal)>>])

\* peerid of the two UPC++ programs; that of the put is the same for all.
CopyPeer(kind, r, np) == IF kind = "put" THEN (np + 1) % np ELSE (r + 1) % np

\* After the loop: async_wait for all the copies, those of the warm-up too.
CopiesDone == <<Flush, Barrier>>

AsyncCopy(program, np, kind) ==
  LET Sender(r) ==
        <<Loop(<<AtSkip(Barrier), AtSkip(TStart),
                 Measured(Access(kind, CopyPeer(kind, r, np), "offset"))>>),
          Once(CopiesDone \o <<TEnd>> \o Only(r = 0, <<Report>>))>>
      Body(k, r) ==
        <<Once(<<Touch, Barrier, SetIfLarge(k)>>)>>
          \o (IF r < np \div 2 THEN Sender(r) ELSE Others(<<Barrier>>))
  IN  Benchmark(Launch(program, np), np # 1, NumSizes, <<Barrier, Barrier>>, Body,
                <<Touch, Barrier>>)

OsuUpcxxAsyncCopyPut(np) == AsyncCopy("osu_upcxx_async_copy_put", np, "put")
OsuUpcxxAsyncCopyGet(np) == AsyncCopy("osu_upcxx_async_copy_get", np, "get")

-----------------------------------------------------------------------------
(***************************************************************************)
(* UPC collectives, all called with UPC_IN_ALLSYNC | UPC_OUT_ALLSYNC: they *)
(* wait for all the threads.                                               *)
(***************************************************************************)
ReduceD == <<Call("upc_all_reduceD"), Call("upc_all_reduceD"), Call("upc_all_reduceD")>>

UpcCollective(np, kind, ready, before, finish) ==
  LET Body(k, r) ==
        <<Once(<<SetFixed(k), Reset>>),
          Loop(before \o <<TStart, Measured(Call(kind)), Sample, Barrier>>),
          Once(<<Barrier, Report>> \o ReduceD)>>
  IN  Benchmark(Launch(kind, np), np >= 2, NumSizes, <<Call("upc_all_alloc")>> \o ready,
                Body, finish)

OsuUpcAllBroadcast(np) == UpcCollective(np, "upc_all_broadcast", <<>>, <<>>, <<>>)
OsuUpcAllExchange(np) ==
  UpcCollective(np, "upc_all_exchange", <<Barrier>>, <<>>, <<Barrier>>)
OsuUpcAllGather(np) == UpcCollective(np, "upc_all_gather", <<Barrier>>, <<>>, <<>>)
OsuUpcAllGatherAll(np) ==
  UpcCollective(np, "upc_all_gather_all", <<Barrier>>, <<>>, <<Barrier>>)
OsuUpcAllReduce(np) == UpcCollective(np, "upc_all_reduceC", <<>>, <<Barrier>>, <<>>)
OsuUpcAllScatter(np) == UpcCollective(np, "upc_all_scatter", <<>>, <<>>, <<>>)

\* One size, which keeps the iterations for small messages.
OsuUpcAllBarrier(np) ==
  LET Body(k, r) ==
        <<Once(<<Assign([loop |-> Keep, skip |-> FixedSkip]), Reset>>),
          Loop(<<TStart, Measured(Barrier), Sample>>),
          Once(<<Barrier, Report>> \o ReduceD \o <<Barrier>>)>>
  IN  Benchmark(Launch("upc_barrier", np), np >= 2, 1, <<Barrier>>, Body, <<>>)

-----------------------------------------------------------------------------
(***************************************************************************)
(* UPC++ collectives: the root of a broadcast does not have to wait, nor   *)
(* do those that only contribute.                                          *)
(***************************************************************************)
UpcxxIteration(kind) == <<TStart, Measured(Call(kind)), Sample, Barrier>>

UpcxxCollective(np, kind) ==
  LET Body(k, r) ==
        <<Once(<<SetFixed(k), Reset>>),
          Loop(UpcxxIteration(kind)),
          Once(<<Barrier, Report>> \o MinMaxAvg \o <<Barrier>>)>>
  IN  Benchmark(Launch(kind, np), np >= 2, NumSizes, <<Barrier>>, Body, <<Touch>>)

OsuUpcxxAllgather(np) == UpcxxCollective(np, "allgather")
OsuUpcxxAlltoall(np)  == UpcxxCollective(np, "alltoall")
OsuUpcxxBcast(np)     == UpcxxCollective(np, "bcast")
OsuUpcxxGather(np)    == UpcxxCollective(np, "gather")
OsuUpcxxReduce(np)    == UpcxxCollective(np, "reduce")
OsuUpcxxScatter(np)   == UpcxxCollective(np, "scatter")
=============================================================================
