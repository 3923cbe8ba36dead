------------------------------ MODULE OmbPt2Pt ------------------------------
(***************************************************************************)
(* The point-to-point benchmarks of mpi/pt2pt but osu_latency_mt (module   *)
(* LatencyMT), and what can go wrong in them in particular.                *)
(***************************************************************************)
EXTENDS OmbRun
LOCAL Seqs == INSTANCE SequencesExt

CONSTANTS WindowSize,   \* window_size of osu_bw and osu_bibw
          WindowLarge,  \* WINDOW_SIZE_LARGE
          DefaultWindow \* DEFAULT_WINDOW of osu_mbw_mr

ASSUME OmbPt2PtAssumption ==
  /\ WindowSize \in Nat \ {0}
  /\ WindowLarge \in Nat \ {0}
  /\ DefaultWindow \in Nat \ {0}

\* A receive whose completion ends a measured exchange.
TimedRecv(peer, tag, kind) == <<Message("irecv", peer, tag, kind), Measured(WaitRecvs)>>

\* What only rank 0 does after its loop: stop the timer, print the result.
Result(r) == IF r = 0 THEN <<Once(<<TEnd, Report>>)>> ELSE <<>>

-----------------------------------------------------------------------------
(***************************************************************************)
(* osu_latency: ping-pong.                                                 *)
(***************************************************************************)
\* Mutant: t_start is read in every iteration.
LatencyLoopRestarted(r) ==
  IF r = 0 THEN <<TStart>> \o Send(1, 1, "data") \o TimedRecv(1, 1, "data")
  ELSE Recv(0, 1, "data") \o Send(0, 1, "data")

LatencyLoop(r) ==
  IF r = 0 THEN <<AtSkip(TStart)>> \o Send(1, 1, "data") \o TimedRecv(1, 1, "data")
  ELSE Recv(0, 1, "data") \o Send(0, 1, "data")

OsuLatency(np) ==
  LET Body(k, r) ==
        <<Once(<<Touch, SetIfLarge(k), Barrier>>), Loop(LatencyLoop(r))>> \o Result(r)
  IN  Benchmark(Launch("osu_latency", np), np = 2, NumSizes, <<>>, Body, <<Touch>>)

(***************************************************************************)
(* osu_bw: a window of messages, answered by four bytes.                   *)
(***************************************************************************)
BwWindow(k) == IF Large(k) THEN WindowLarge ELSE WindowSize

\* Mutant: only rank 0 enlarges its window.
BwLoopOldWindow(k, r) ==
  IF r = 0
  THEN <<AtSkip(TStart)>> \o Window(BwWindow(k), Isend(1, 100)) \o <<WaitSends>>
       \o TimedRecv(1, 101, "4 bytes")
  ELSE Window(WindowSize, Irecv(0, 100)) \o <<WaitRecvs>> \o Send(0, 101, "4 bytes")

\* Mutant: the answer is not waited for.
BwLoopNoAnswer(k, r) ==
  IF r = 0
  THEN <<AtSkip(TStart)>> \o Window(BwWindow(k), Isend(1, 100)) \o <<Measured(WaitSends)>>
  ELSE Window(BwWindow(k), Irecv(0, 100)) \o <<WaitRecvs>>

BwLoop(k, r) ==
  IF r = 0
  THEN <<AtSkip(TStart)>> \o Window(BwWindow(k), Isend(1, 100)) \o <<WaitSends>>
       \o TimedRecv(1, 101, "4 bytes")
  ELSE Window(BwWindow(k), Irecv(0, 100)) \o <<WaitRecvs>> \o Send(0, 101, "4 bytes")

OsuBw(np) ==
  LET Body(k, r) ==
        <<Once(<<Touch, SetIfLarge(k)>>), Loop(BwLoop(k, r))>> \o Result(r)
  IN  Benchmark(Launch("osu_bw", np), np = 2, NumSizes, <<>>, Body, <<Touch>>)

(***************************************************************************)
(* osu_bibw: a window in each direction and no answer.                     *)
(***************************************************************************)
BibwWindows(k, r) ==
  Window(BwWindow(k), Irecv(1 - r, IF r = 0 THEN 10 ELSE 100))
  \o Window(BwWindow(k), Isend(1 - r, IF r = 0 THEN 100 ELSE 10))

BibwLoop(k, r) ==
  (IF r = 0 THEN <<AtSkip(TStart)>> ELSE <<>>)
  \o BibwWindows(k, r) \o <<WaitSends, Measured(WaitRecvs)>>

OsuBibw(np) ==
  LET Body(k, r) ==
        <<Once(<<Touch, SetIfLarge(k)>>), Loop(BibwLoop(k, r))>> \o Result(r)
  IN  Benchmark(Launch("osu_bibw", np), np = 2, NumSizes, <<>>, Body, <<Touch>>)

(***************************************************************************)
(* osu_multi_lat: ping-pong of rank r < pairs with rank r + pairs.  The    *)
(* start of the timer is read before the barrier that ends the warm-up.    *)
(***************************************************************************)
MultiLatExchange(r, pairs) ==
  IF r < pairs THEN Send(r + pairs, 1, "data") \o TimedRecv(r + pairs, 1, "data")
  ELSE TimedRecv(r - pairs, 1, "data") \o Send(r - pairs, 1, "data")

\* Mutant: no barrier between warm-up and measurement.
MultiLatLoopNoBarrier(r, pairs) == <<AtSkip(TStart)>> \o MultiLatExchange(r, pairs)

MultiLatLoop(r, pairs) ==
  <<AtSkip(TStart), AtSkip(Barrier)>> \o MultiLatExchange(r, pairs)

OsuMultiLat(np) ==
  LET Body(k, r) == <<Once(<<Barrier, SetIfLarge(k)>>),
                      Loop(MultiLatLoop(r, np \div 2)),
                      Once(<<TEnd, Report, Reduce>>)>>
  IN  Benchmark(Launch("osu_multi_lat", np), TRUE, NumSizes, <<Touch, Barrier>>, Body, <<Barrier>>)

(***************************************************************************)
(* osu_mbw_mr: windows from rank r < pairs to rank r + pairs.  calc_bw     *)
(* measures one size with one window; with -v it runs for several windows. *)
(* -i and -x only count when both are given.                               *)
(***************************************************************************)
CalcBwOptions(k, w, given) ==
  LET mult == IF DefaultWindow \div w > 0 THEN DefaultWindow \div w ELSE 1
  IN  Assign(IF given.loop # Keep /\ given.skip # Keep THEN given
             ELSE IF Large(k) THEN [loop |-> Options.loop_large * mult,
                                    skip |-> Options.skip_large * mult]
             ELSE [loop |-> Options.loop * mult, skip |-> Options.skip * mult])

CalcBwSender(r, pairs, w) ==
  <<Loop(<<AtSkip(Barrier), AtSkip(TStart)>> \o Window(w, Isend(r + pairs, 100))
         \o <<WaitSends>> \o TimedRecv(r + pairs, 101, "4 bytes")),
    Once(<<TEnd>>)>>

CalcBwReceiver(r, pairs, w) ==
  <<Loop(<<AtSkip(Barrier)>> \o Window(w, Irecv(r - pairs, 100)) \o <<WaitRecvs>>
         \o Send(r - pairs, 101, "4 bytes"))>>

CalcBw(k, r, pairs, w, given) ==
  <<Once(<<Touch, CalcBwOptions(k, w, given), Barrier>>)>>
  \o (IF r < pairs THEN CalcBwSender(r, pairs, w)
      ELSE IF r < 2 * pairs THEN CalcBwReceiver(r, pairs, w)
      ELSE <<Once(<<Barrier>>)>>)
  \o <<Once(IF r = 0 THEN <<Reduce, Report>> ELSE <<Reduce>>)>>

OsuMbwMr(np, pairs, windows, given) ==
  LET Body(k, r) == Seqs!FlattenSeq([n \in DOMAIN windows |->
                                  CalcBw(k, r, pairs, windows[n], given)])
  IN  Benchmark(Launch("osu_mbw_mr", np), np >= 2 /\ pairs <= np \div 2, NumSizes, <<>>, Body, <<Touch>>)

-----------------------------------------------------------------------------
(***************************************************************************)
(* README, osu_bw: the elapsed time runs until the sender receives the     *)
(* reply, which the receiver sends only after receiving all the messages.  *)
(* So when a sending process stops its timer, nothing it sent is still on  *)
(* its way, even if sends complete as soon as they are buffered.           *)
(* (osu_bibw has no reply: both processes only wait for their own sends    *)
(* and receives.)                                                          *)
(***************************************************************************)
TransferOverWhenTimerStops ==
  \A r \in Ranks :
    r < benchmark.np \div 2 /\ At(r, "t_end") /\ benchmark.program # "osu_bibw"
      => sends[r] = <<>>

(***************************************************************************)
(* README, osu_multi_lat: at the same instant multiple pairs are           *)
(* performing the same test.  In the benchmarks with several pairs no pair *)
(* exchanges messages of a timed iteration while another pair still warms  *)
(* up for the same size, or has not even started on it.                    *)
(***************************************************************************)
Several == benchmark.np > 2

WarmUpAhead(q, k) ==
  \/ at[q].size < k
  \/ /\ at[q].size = k
     /\ \/ at[q].seg = 1
        \/ Section(q).loop /\ at[q].iter < options[q].skip

Exchanging(r) == /\ Running(r)
                 /\ Section(r).loop
                 /\ at[r].iter >= options[r].skip
                 /\ Op(r).op \in {"isend", "irecv", "waitsends", "waitrecvs"}

PairsTimedTogether ==
  Several => \A r, q \in Ranks : Exchanging(r) => ~WarmUpAhead(q, at[r].size)
=============================================================================
