------------------------------ MODULE OmbSuite -----------------------------
(***************************************************************************)
(* All the benchmarks of the suite, and what those with one-sided          *)
(* operations have in common.                                              *)
(***************************************************************************)
EXTENDS OmbPt2Pt, OmbOneSided, OmbDart, OmbShmem, OmbUpc

\* The synchronisation at the end of an iteration completes operations only
\* at their origin.
CompletesLocally(b) ==
  \/ Sync(b) \in {"flush_local", "wait"}
  \/ Sync(b) = "pscw" /\ b.program \notin PingPong

\* UPC++ copies that nobody waits for after the warm-up.
Copies == {"osu_upcxx_async_copy_put", "osu_upcxx_async_copy_get"}

\* Programs that touch memory which operations of the warm-up or of the
\* measurement before may still access: memset while the peer may have
\* started to put; no quiet after add and inc; dart_team_memfree after local
\* flushes.  They measure transfers, of whatever data; the last two leave it
\* to luck what cswap compares with, and whether the segment is still there.
Unsettled ==
  \/ benchmark.program \in {"osu_oshm_put_mr", "osu_oshm_atomics"}
  \/ benchmark.program = "osu_dart_put_latency" /\ benchmark.sync = "flush_local"

-----------------------------------------------------------------------------
(***************************************************************************)
(* The memory of rank r is overwritten for the next size (memset in        *)
(* allocate_memory) only when no send, receive, nonblocking collective or  *)
(* one-sided operation may still read or write it, and its window is freed *)
(* only then, with no epoch of r open.  Rank 1, which does nothing in the  *)
(* passive tests, relies on the barrier for that.                          *)
(***************************************************************************)
Involves(r, q, n) == r = q \/ pending[q][n].target = r

WindowAtRest(r) ==
  /\ access[r] = "none"
  /\ ~exposed[r]
  /\ \A q \in Ranks : \A n \in DOMAIN pending[q] : ~Involves(r, q, n)

Freeing(r) == At(r, "call") /\ Op(r).kind \in {"win_free", "memfree", "shfree"}

MemoryAtRest ==
  \A r \in Ranks :
    /\ At(r, "touch") => BufferAtRest(r)
    /\ (At(r, "touch") \/ Freeing(r)) /\ ~Unsettled => WindowAtRest(r)

(***************************************************************************)
(* README, osu_put_latency: the origin process calls MPI_Win_unlock to     *)
(* ensure completion of the Put; osu_oshm_put: calls shmem quiet; a few    *)
(* warm-up iterations are run without timing.  When a rank starts or stops *)
(* its timer, its own operations have taken place, or at least completed   *)
(* locally where nothing more is promised: none is timed that belongs to   *)
(* the warm-up, none is left out.  When it stops, nothing is under way to  *)
(* it.  (The UPC++ copies of the warm-up are in CopiesWarmUpOver;          *)
(* osu_oshm_atomics waits for neither after add and inc.)                  *)
(***************************************************************************)
Accounted(r) ==
  IF CompletesLocally(benchmark) THEN LocallyComplete(r) ELSE pending[r] = <<>>

TimedOperations ==
  \A r \in Ranks :
    /\ At(r, "t_start") /\ benchmark.program \notin Copies => Accounted(r)
    /\ At(r, "t_end") /\ benchmark.program # "osu_oshm_atomics" =>
         /\ Accounted(r)
         /\ \A q \in Ranks \ {r} : \A n \in DOMAIN pending[q] : pending[q][n].target # r

(***************************************************************************)
(* README, osu_upcxx_async_copy_put: a few warm-up iterations are run      *)
(* without timing to ignore any start-up overheads.                        *)
(***************************************************************************)
CopiesWarmUpOver ==
  benchmark.program \in Copies =>
    \A r \in Ranks : At(r, "t_start") => pending[r] = <<>>
=============================================================================
