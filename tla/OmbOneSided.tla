----------------------------- MODULE OmbOneSided ----------------------------
(***************************************************************************)
(* The one-sided benchmarks of mpi/one-sided, and what can go wrong in     *)
(* them in particular.                                                     *)
(*                                                                         *)
(* The programs are put together from the same few loops; only             *)
(* osu_alloc_latency is different.                                         *)
(***************************************************************************)
EXTENDS OmbWindows

CONSTANT WindowSizeLarge  \* WINDOW_SIZE_LARGE

ASSUME OmbOneSidedAssumption == WindowSizeLarge \in Nat \ {0}

Latency   == {"osu_put_latency", "osu_get_latency"}
Bandwidth == {"osu_put_bw", "osu_get_bw", "osu_put_bibw"}
Atomic    == {"osu_cas_latency", "osu_fop_latency"}
PingPong  == {"osu_acc_latency", "osu_get_acc_latency"} \cup Atomic

\* The switch over sync_type in main; what it does not name is its default.
Supported(name) ==
  IF name \in Latency THEN {"lock", "lock_all", "flush_local", "wait"}
  ELSE IF name = "osu_put_bibw" THEN {"fence"}
  ELSE {"lock", "lock_all", "flush_local", "pscw", "fence"}

Sync(b) == IF b.sync \in Supported(b.program) THEN b.sync
           ELSE IF b.program = "osu_put_bibw" THEN "pscw" ELSE "flush"

Active == {"pscw", "fence"}
Target(b) == b.np - 1

Operation(name) ==
  CASE name \in {"osu_put_latency", "osu_put_bw", "osu_put_bibw"} -> "put"
    [] name \in {"osu_get_latency", "osu_get_bw"} -> "get"
    [] name = "osu_acc_latency" -> "accumulate"
    [] name = "osu_get_acc_latency" -> "get_accumulate"
    [] name = "osu_cas_latency" -> "compare_and_swap"
    [] name = "osu_fop_latency" -> "fetch_and_op"

\* Mutant: the programs that receive an address look it up in a table.
DisplacementInTable(b) == IF b.win = "dynamic" THEN "entry" ELSE "offset"

Displacement(b) == IF b.win # "dynamic" THEN "offset"
                   ELSE IF b.program \in Latency THEN "entry" ELSE "pointer"

\* The operations of one iteration.
Operations(b, target) ==
  Window(IF b.program \in Bandwidth THEN WindowSizeLarge ELSE 1,
         Access(Operation(b.program), target, Displacement(b)))

-----------------------------------------------------------------------------
(***************************************************************************)
(* Passive targets: rank 0 works, the others go on to the barrier.         *)
(***************************************************************************)
\* Mutant: every flush is a local one.
FlushOfLocal(b) == IF Sync(b) = "flush" THEN FlushLocal ELSE Flush

FlushOf(b) == IF Sync(b) = "flush" THEN Flush ELSE FlushLocal

\* flush, flush_local and wait: one lock around the loop.
LockedLoop(b) ==
  <<Once(<<Lock>>),
    Loop(<<AtSkip(TStart)>> \o Operations(b, Target(b)) \o <<Measured(FlushOf(b))>>),
    Once(<<TEnd, Unlock>>)>>

\* lock and lock_all: a lock in every iteration.
LockingLoop(b) ==
  <<Loop(<<AtSkip(TStart), Lock>> \o Operations(b, Target(b)) \o <<Measured(Unlock)>>),
    Once(<<TEnd>>)>>

-----------------------------------------------------------------------------
(***************************************************************************)
(* Fences and exposure epochs: put and get in one direction, put in both   *)
(* directions at once, and the others back and forth.                      *)
(***************************************************************************)
TimedFence == <<Flush, Measured(Call("fence"))>>

\* Mutant: an iteration back and forth with two fences.
FencesBackAndForthTwo(b, r) ==
  IF r = 0 THEN <<AtSkip(TStart)>> \o Fence \o Operations(b, 1) \o TimedFence
  ELSE Fence \o Operations(b, 0) \o Fence

FencesBackAndForth(b, r) ==
  IF r = 0 THEN <<AtSkip(TStart)>> \o Fence \o Operations(b, 1) \o Fence \o TimedFence
  ELSE Fence \o Fence \o Operations(b, 0) \o Fence

FencesOneWay(b, r) ==
  Only(r = 0, <<AtSkip(TStart)>>) \o Fence
    \o Only(r = 0 \/ b.program = "osu_put_bibw", Operations(b, 1 - r)) \o TimedFence

AccessEpoch(b, r) == Operations(b, 1 - r) \o <<EndEpoch>>

\* Mutant: both ranks start with their access epoch.
EpochsBackAndForthHeadOn(b, r) ==
  <<WinStart(1 - r)>> \o Only(r = 0, <<AtSkip(TStart)>>) \o AccessEpoch(b, r)
    \o <<Post, Measured(WinWait)>>

EpochsBackAndForth(b, r) ==
  IF r = 0
  THEN <<WinStart(1), AtSkip(TStart)>> \o AccessEpoch(b, 0) \o <<Post, Measured(WinWait)>>
  ELSE <<Post, WinWait, WinStart(0)>> \o AccessEpoch(b, 1)

EpochsBothWays(b, r) ==
  Only(r = 0, <<AtSkip(TStart)>>) \o <<Post, WinStart(1 - r)>>
    \o AccessEpoch(b, r) \o <<Measured(WinWait)>>

EpochsOneWay(b, r) ==
  IF r = 0
  THEN <<WinStart(1), AtSkip(TStart)>> \o Operations(b, 1) \o <<Measured(EndEpoch)>>
  ELSE <<Post, WinWait>>

ActiveIteration(b, r) ==
  IF Sync(b) = "fence"
  THEN IF b.program \in PingPong THEN FencesBackAndForth(b, r) ELSE FencesOneWay(b, r)
  ELSE CASE b.program \in PingPong       -> EpochsBackAndForth(b, r)
         [] b.program = "osu_put_bibw"   -> EpochsBothWays(b, r)
         [] b.program \notin PingPong \cup {"osu_put_bibw"} -> EpochsOneWay(b, r)

Work(b, r) ==
  IF Sync(b) \in Active
  THEN <<Loop(ActiveIteration(b, r))>> \o Only(r = 0, <<Once(<<TEnd>>)>>)
  ELSE IF r # 0 THEN <<>>
  ELSE IF Sync(b) \in {"lock", "lock_all"} THEN LockingLoop(b) ELSE LockedLoop(b)

-----------------------------------------------------------------------------
(***************************************************************************)
(* allocate_memory and allocate_atomic_memory.                             *)
(***************************************************************************)
ExchangeAddresses(r) ==
  IF r = 0 THEN Send(1, 1, "address") \o RecvAddress(1, 1)
  ELSE RecvAddress(0, 1) \o Send(0, 1, "address")

Allocate(b, r) ==
  Only(b.program # "osu_get_acc_latency", <<Touch>>) \o <<Call("win_create")>>
    \o Only(b.win = "dynamic",
            IF b.program \in Atomic \cup {"osu_get_acc_latency"} THEN ExchangeAddresses(r)
            ELSE <<Call("allgather"), Table>>)

\* The barriers around the allocation.
BarriersBefore(b) ==
  CASE b.program = "osu_fop_latency" -> IF Sync(b) \in {"flush", "flush_local"} THEN 1 ELSE 0
    [] b.program = "osu_cas_latency" -> IF Sync(b) = "fence" THEN 1 ELSE 0
    [] b.program \notin Atomic -> 0

BarriersAfter(b) ==
  CASE b.program = "osu_cas_latency" ->
         IF Sync(b) \in {"flush", "flush_local", "pscw"} THEN 1 ELSE 0
    [] b.program = "osu_get_acc_latency" ->
         IF Sync(b) = "pscw" THEN 2 ELSE IF Sync(b) = "fence" THEN 1 ELSE 0
    [] b.program \notin {"osu_cas_latency", "osu_get_acc_latency"} ->
         IF Sync(b) \in Active THEN 1 ELSE 0

\* The header of osu_put_latency names the host of the target.
Header(b, k, r) ==
  IF k > 1 \/ b.program # "osu_put_latency" THEN <<>>
  ELSE Only(r = Target(b), Send(0, 10, "host")) \o Only(r = 0, Recv(Target(b), 10, "host"))

Release(r) == <<Barrier>> \o Only(r = 0, <<Report>>) \o <<Call("win_free")>>

OneSided(b) ==
  LET Body(k, r) ==
        <<Once(Header(b, k, r) \o Window(BarriersBefore(b), Barrier) \o Allocate(b, r)
               \o Only(b.program \notin Atomic, <<SetIfLarge(k)>>)
               \o Window(BarriersAfter(b), Barrier))>>
          \o Work(b, r) \o <<Once(Release(r))>>
  IN  Benchmark(b, b.program \in Latency \/ b.np = 2,
                IF b.program \in Atomic THEN 1 ELSE NumSizes, <<>>, Body, <<>>)

(***************************************************************************)
(* osu_alloc_latency: windows are created and freed, but never used.       *)
(***************************************************************************)
AllocIteration(b) ==
  <<AtSkip(TStart)>>
    \o (IF b.win = "dynamic" THEN <<Call("win_allocate_shared"), Call("allgather")>>
        ELSE <<Call("win_create")>>)
    \o <<Measured(Call("win_free"))>>

AllocLatency(b) ==
  LET large == Assign([loop |-> Options.loop_large, skip |-> Options.skip_large])
      Body(k, r) == <<Loop(AllocIteration(b)),
                      Once(<<TEnd, Barrier>> \o Only(r = 0, <<Report>>))>>
  IN  Benchmark(b, TRUE, NumSizes,
                <<large>> \o Only(b.win = "dynamic",
                                  <<Call("win_create"), Call("comm_split")>>),
                Body,
                Only(b.win = "dynamic", <<Call("win_free"), Call("comm_free")>>))

Program(b) == IF b.program = "osu_alloc_latency" THEN AllocLatency(b) ELSE OneSided(b)

-----------------------------------------------------------------------------
(***************************************************************************)
(* Two operations that can take place at the same time belong to the same  *)
(* iteration for the same size: no iteration begins while the target still *)
(* has to carry out an operation of an earlier one, although MPI does not  *)
(* order them.  Only flush_local and wait, whose purpose is not to wait    *)
(* for the target, let puts and accumulates overlap.                       *)
(***************************************************************************)
MayOverlap(o) == Sync(benchmark) \in {"flush_local", "wait"} /\ o.kind \notin Fetching

UpdatesSeparated ==
  benchmark.sync # "" => \A r \in Ranks : \A m, n \in DOMAIN pending[r] :
    LET o == pending[r][m]
        p == pending[r][n]
    IN  Exposed(o) /\ Exposed(p) /\ ~MayOverlap(o) => o.size = p.size /\ o.iter = p.iter

(***************************************************************************)
(* The latency of the active tests of accumulate, compare-and-swap and     *)
(* fetch-and-op is the time of an iteration divided by two: the two ranks  *)
(* take turns, their operations are never under way at the same time.      *)
(* (The origin buffer of osu_acc_latency is also its window, so otherwise  *)
(* the operations would disturb each other.)                               *)
(***************************************************************************)
OneWayAtATime ==
  benchmark.program \in PingPong =>
    \A r, q \in Ranks : pending[r] # <<>> /\ pending[q] # <<>> => r = q
=============================================================================
