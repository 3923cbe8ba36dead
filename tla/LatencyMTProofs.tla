-------------------------- MODULE LatencyMTProofs --------------------------
(***************************************************************************)
(* Proofs about the multi-threaded latency test, for every number of       *)
(* threads, of sizes and of iterations: IInv of LatencyMT is an invariant, *)
(* it implies the safety properties the runs check, and under it every     *)
(* step is a step of the abstract barrier or stutters.  The last part      *)
(* proves that the receiving threads share out the iterations of every     *)
(* size without a gap and without an overlap.                              *)
(***************************************************************************)
EXTENDS LatencyMT, TLAPS, FiniteSetTheorems, NumberLemmas

\* What the provers need of the constants, without the rest of the assumption.
LEMMA Constants ==
  /\ NumThreads \in Nat /\ NumThreads >= 1
  /\ NumSizes \in Nat /\ NumSizes >= 1
  /\ NoOne \notin Threads
  /\ \A t \in Threads : t \in Nat
BY LatencyMTAssumption DEF Threads, NoOne

\* The two pairs of loop and skip counts are well typed.
LEMMA RunsType == 
  /\ SmallRuns \in [loop : Nat \ {0}, skip : Nat]
  /\ LargeRuns \in [loop : Nat \ {0}, skip : Nat]
BY LatencyMTAssumption

\* The set of waiting threads is finite.
LEMMA WaitingFinite == IsFiniteSet(Waiting) /\ Cardinality(Waiting) \in Nat
<1>1. IsFiniteSet(Threads)
  BY FS_Interval, Constants DEF Threads
<1>2. Waiting \subseteq Threads
  BY DEF Waiting
<1> QED BY <1>1, <1>2, FS_Subset, FS_CardinalityType

\* If all threads but one wait, every other thread is one of them.
LEMMA AllOthersWait ==
  ASSUME NEW t \in Threads, pc[t] # "wait", Cardinality(Waiting) = NumThreads - 1
  PROVE  \A u \in Threads : u # t => pc[u] = "wait"
<1>1. IsFiniteSet(Threads) /\ Cardinality(Threads) = NumThreads
  BY FS_Interval, Constants DEF Threads
<1>2. IsFiniteSet(Threads \ {t}) /\ Cardinality(Threads \ {t}) = NumThreads - 1
  BY <1>1, FS_RemoveElement, Constants
<1>3. Waiting \subseteq Threads \ {t}
  BY DEF Waiting
<1>4. Waiting = Threads \ {t}
  BY <1>2, <1>3, FS_Subset
<1> QED BY <1>4 DEF Waiting

\* finished_size has reached num_threads only when all the others wait.
LEMMA LeaderIsAlone ==
  ASSUME IInv, NEW t \in Threads, EnterBarrier(t)
  PROVE  \A u \in Threads : u # t => pc[u] = "wait"
<1>1. NoLeader
  BY DEF IInv, EnterBarrier, Goto, LeaderInv, NoLeader, Leading
<1>2. Cardinality(Waiting) = NumThreads - 1
  BY <1>1, WaitingFinite, Constants DEF IInv, EnterBarrier, CountInv
<1> QED BY <1>2, AllOthersWait DEF EnterBarrier, Goto

\* Type correctness.  Only the two MPI_Barrier counters need more than types:
\* they stay within NumSizes because they are tied to the size being worked on.
LEMMA TypeOKStep == IInv /\ [Next]_vars => TypeOK'
<1> SUFFICES ASSUME IInv, [Next]_vars PROVE TypeOK'  OBVIOUS
<1> USE DEF IInv, TypeOK, BarrierPcs, WorkPcs
<1>1. ASSUME NEW t \in Threads, LockMutex(t) PROVE TypeOK'
  BY <1>1, Constants, RunsType DEF LockMutex, Goto, Lock, Unlock, senderVars
<1>2. ASSUME NEW t \in Threads, EnterBarrier(t) PROVE TypeOK'
  <2>1. pc' \in [Threads -> BarrierPcs \cup WorkPcs \cup {"done"}]
    BY <1>2 DEF EnterBarrier, Goto
  <2>2. size[t] \in 1..NumSizes /\ size[t] = entered[1] + 1
    BY <1>2 DEF EnterBarrier, Goto, RoundInv
  <2>3. entered' = [entered EXCEPT ![1] = size[t]]
    BY <1>2, <2>2 DEF EnterBarrier
  <2>4. entered' \in [Ranks -> 0..NumSizes]
    BY <2>2, <2>3, Constants DEF Ranks
  <2> QED BY <1>2, <2>1, <2>2, <2>3, <2>4 DEF EnterBarrier, senderVars
<1>3. ASSUME NEW t \in Threads, CondWait(t) PROVE TypeOK'
  <2>1. finished_size' \in 1..NumThreads
    BY <1>3, Constants, SMTT(30) DEF CondWait
  <2>2. pc' \in [Threads -> BarrierPcs \cup WorkPcs \cup {"done"}]
    BY <1>3 DEF CondWait, Goto
  <2> QED BY <1>3, <2>1, <2>2 DEF CondWait, Unlock, senderVars
<1>4. ASSUME NEW t \in Threads, LeaveBarrier(t) PROVE TypeOK'
  <2>1. finished_size' \in 1..NumThreads
    BY <1>4, Constants DEF LeaveBarrier
  <2>2. pc' \in [Threads -> BarrierPcs \cup WorkPcs \cup {"done"}]
    BY <1>4 DEF LeaveBarrier, Goto
  <2> QED BY <1>4, <2>1, <2>2 DEF LeaveBarrier, Unlock, senderVars
<1>5. ASSUME NEW t \in Threads, Broadcast(t) PROVE TypeOK'
  BY <1>5 DEF Broadcast, Goto, Lock, Unlock, senderVars
<1>6. ASSUME NEW t \in Threads, Reacquire(t) PROVE TypeOK'
  BY <1>6 DEF Reacquire, Goto, Lock, Unlock, senderVars
<1>7. ASSUME NEW t \in Threads, UnlockMutex(t) PROVE TypeOK'
  BY <1>7 DEF UnlockMutex, Goto, Lock, Unlock, senderVars
<1>8. ASSUME NEW t \in Threads, KeepOptions(t) PROVE TypeOK'
  <2>1. i' \in [Threads -> Nat]
    BY <1>8, Constants DEF KeepOptions
  <2>2. pc' \in [Threads -> BarrierPcs \cup WorkPcs \cup {"done"}]
    BY <1>8 DEF KeepOptions, Goto
  <2> QED BY <1>8, <2>1, <2>2 DEF KeepOptions, senderVars
<1>9. ASSUME NEW t \in Threads, SetLoop(t) PROVE TypeOK'
  BY <1>9, Constants, RunsType DEF SetLoop, Goto, Lock, Unlock, senderVars, Ranks
<1>10. ASSUME NEW t \in Threads, SetSkip(t) PROVE TypeOK'
  <2>1. i' \in [Threads -> Nat]
    BY <1>10, Constants DEF SetSkip
  <2>2. pc' \in [Threads -> BarrierPcs \cup WorkPcs \cup {"done"}]
    BY <1>10 DEF SetSkip, Goto
  <2>3. options' \in [Ranks -> [loop : Nat \ {0}, skip : Nat]]
    BY <1>10, RunsType DEF SetSkip, Ranks
  <2> QED BY <1>10, <2>1, <2>2, <2>3 DEF SetSkip, senderVars
<1>11. ASSUME NEW t \in Threads, Iterate(t) PROVE TypeOK'
  BY <1>11 DEF Iterate, Goto, Lock, Unlock, senderVars
<1>12. ASSUME NEW t \in Threads, Receive(t) PROVE TypeOK'
  <2>1. ping' \in Seq(1..NumSizes)
    BY <1>12 DEF Receive
  <2>2. pc' \in [Threads -> BarrierPcs \cup WorkPcs \cup {"done"}]
    BY <1>12 DEF Receive, Goto
  <2> QED BY <1>12, <2>1, <2>2 DEF Receive, senderVars
<1>13. ASSUME NEW t \in Threads, Reply(t) PROVE TypeOK'
  <2>1. i' \in [Threads -> Nat]
    BY <1>13, Constants DEF Reply
  <2>2. pc' \in [Threads -> BarrierPcs \cup WorkPcs \cup {"done"}]
    BY <1>13 DEF Reply, Goto
  <2>3. pong' \in Seq(1..NumSizes)
    BY <1>13 DEF Reply
  <2> QED BY <1>13, <2>1, <2>2, <2>3 DEF Reply, senderVars
<1>14. ASSUME NEW t \in Threads, NextSize(t) PROVE TypeOK'
  <2>1. size' \in [Threads -> 1..NumSizes]
    BY <1>14, Constants DEF NextSize
  <2>2. pc' \in [Threads -> BarrierPcs \cup WorkPcs \cup {"done"}]
    BY <1>14 DEF NextSize, Goto
  <2> QED BY <1>14, <2>1, <2>2 DEF NextSize, senderVars
<1>15. CASE SenderEnter
  <2>1. entered[0] + 1 <= NumSizes
    BY <1>15, Constants DEF SenderEnter, SenderInv, Ranks
  <2>2. entered' \in [Ranks -> 0..NumSizes]
    BY <1>15, <2>1, Constants DEF SenderEnter, Ranks
  <2> QED BY <1>15, <2>1, <2>2 DEF SenderEnter, threadVars
<1>16. CASE SenderLeave
  BY <1>16, Constants, RunsType DEF SenderLeave, threadVars, senderVars, Ranks
<1>17. CASE SenderSend
  <2>1. ping' \in Seq(1..NumSizes)
    BY <1>17 DEF SenderSend
  <2> QED BY <1>17, <2>1 DEF SenderSend, threadVars
<1>18. CASE SenderReceive
  <2>1. pong' \in Seq(1..NumSizes)
    BY <1>18 DEF SenderReceive
  <2> QED BY <1>18, <2>1 DEF SenderReceive, threadVars
<1>19. CASE SenderNextSize
  <2>1. ssize' \in 1..NumSizes
    BY <1>19, Constants DEF SenderNextSize
  <2> QED BY <1>19, <2>1 DEF SenderNextSize, threadVars
<1>20. CASE UNCHANGED vars
  BY <1>20 DEF vars, senderVars
<1> QED BY <1>1, <1>2, <1>3, <1>4, <1>5, <1>6, <1>7, <1>8, <1>9, <1>10, <1>11, <1>12, <1>13, <1>14, <1>15, <1>16, <1>17, <1>18, <1>19, <1>20 DEF Next, ThreadStep, SenderStep, Joined

\* finished_size_mutex is held exactly between a lock and its unlock.
LEMMA MutexInvStep == IInv /\ [Next]_vars => MutexInv'
<1> SUFFICES ASSUME IInv, [Next]_vars PROVE MutexInv'  OBVIOUS
<1> USE Constants DEF IInv, TypeOK, MutexInv, BarrierPcs, WorkPcs
<1>1. ASSUME NEW t \in Threads, LockMutex(t) PROVE MutexInv'
  BY <1>1 DEF LockMutex, Goto, Lock, Unlock, Waiting, senderVars
<1>2. ASSUME NEW t \in Threads, EnterBarrier(t) PROVE MutexInv'
  BY <1>2 DEF EnterBarrier, Goto, Lock, Unlock, Waiting, senderVars
<1>3. ASSUME NEW t \in Threads, CondWait(t) PROVE MutexInv'
  BY <1>3 DEF CondWait, Goto, Lock, Unlock, Waiting, senderVars
<1>4. ASSUME NEW t \in Threads, LeaveBarrier(t) PROVE MutexInv'
  BY <1>4 DEF LeaveBarrier, Goto, Lock, Unlock, Waiting, senderVars
<1>5. ASSUME NEW t \in Threads, Broadcast(t) PROVE MutexInv'
  BY <1>5 DEF Broadcast, Goto, Lock, Unlock, Waiting, senderVars
<1>6. ASSUME NEW t \in Threads, Reacquire(t) PROVE MutexInv'
  BY <1>6 DEF Reacquire, Goto, Lock, Unlock, Waiting, senderVars
<1>7. ASSUME NEW t \in Threads, UnlockMutex(t) PROVE MutexInv'
  BY <1>7 DEF UnlockMutex, Goto, Lock, Unlock, Waiting, senderVars
<1>8. ASSUME NEW t \in Threads, KeepOptions(t) PROVE MutexInv'
  BY <1>8 DEF KeepOptions, Goto, Lock, Unlock, Waiting, senderVars
<1>9. ASSUME NEW t \in Threads, SetLoop(t) PROVE MutexInv'
  BY <1>9 DEF SetLoop, Goto, Lock, Unlock, Waiting, senderVars
<1>10. ASSUME NEW t \in Threads, SetSkip(t) PROVE MutexInv'
  BY <1>10 DEF SetSkip, Goto, Lock, Unlock, Waiting, senderVars
<1>11. ASSUME NEW t \in Threads, Iterate(t) PROVE MutexInv'
  BY <1>11 DEF Iterate, Goto, Lock, Unlock, Waiting, senderVars
<1>12. ASSUME NEW t \in Threads, Receive(t) PROVE MutexInv'
  BY <1>12 DEF Receive, Goto, Lock, Unlock, Waiting, senderVars
<1>13. ASSUME NEW t \in Threads, Reply(t) PROVE MutexInv'
  BY <1>13 DEF Reply, Goto, Lock, Unlock, Waiting, senderVars
<1>14. ASSUME NEW t \in Threads, NextSize(t) PROVE MutexInv'
  BY <1>14 DEF NextSize, Goto, Lock, Unlock, Waiting, senderVars
<1>15. CASE SenderEnter
  BY <1>15 DEF SenderEnter, threadVars, Waiting, senderVars
<1>16. CASE SenderLeave
  BY <1>16 DEF SenderLeave, threadVars, Waiting, senderVars
<1>17. CASE SenderSend
  BY <1>17 DEF SenderSend, threadVars, Waiting, senderVars
<1>18. CASE SenderReceive
  BY <1>18 DEF SenderReceive, threadVars, Waiting, senderVars
<1>19. CASE SenderNextSize
  BY <1>19 DEF SenderNextSize, threadVars, Waiting, senderVars
<1>20. CASE UNCHANGED vars
  BY <1>20 DEF vars, Waiting, senderVars
<1> QED BY <1>1, <1>2, <1>3, <1>4, <1>5, <1>6, <1>7, <1>8, <1>9, <1>10, <1>11, <1>12, <1>13, <1>14, <1>15, <1>16, <1>17, <1>18, <1>19, <1>20 DEF Next, ThreadStep, SenderStep, Joined

\* There is one message, or one thread about to reply, and it has one size.
LEMMA TokenInvStep == IInv /\ [Next]_vars => TokenInv'
<1> SUFFICES ASSUME IInv, [Next]_vars PROVE TokenInv'  OBVIOUS
<1> USE DEF IInv, TypeOK, TokenInv, BarrierPcs, WorkPcs
<1>1. ASSUME NEW t \in Threads, LockMutex(t) PROVE TokenInv'
  BY <1>1 DEF LockMutex, Goto, Lock, Unlock, Waiting, senderVars
<1>2. ASSUME NEW t \in Threads, EnterBarrier(t) PROVE TokenInv'
  BY <1>2 DEF EnterBarrier, Goto, Lock, Unlock, Waiting, senderVars
<1>3. ASSUME NEW t \in Threads, CondWait(t) PROVE TokenInv'
  BY <1>3 DEF CondWait, Goto, Lock, Unlock, Waiting, senderVars
<1>4. ASSUME NEW t \in Threads, LeaveBarrier(t) PROVE TokenInv'
  BY <1>4 DEF LeaveBarrier, Goto, Lock, Unlock, Waiting, senderVars
<1>5. ASSUME NEW t \in Threads, Broadcast(t) PROVE TokenInv'
  BY <1>5 DEF Broadcast, Goto, Lock, Unlock, Waiting, senderVars
<1>6. ASSUME NEW t \in Threads, Reacquire(t) PROVE TokenInv'
  BY <1>6 DEF Reacquire, Goto, Lock, Unlock, Waiting, senderVars
<1>7. ASSUME NEW t \in Threads, UnlockMutex(t) PROVE TokenInv'
  BY <1>7 DEF UnlockMutex, Goto, Lock, Unlock, Waiting, senderVars
<1>8. ASSUME NEW t \in Threads, KeepOptions(t) PROVE TokenInv'
  BY <1>8 DEF KeepOptions, Goto, Lock, Unlock, Waiting, senderVars
<1>9. ASSUME NEW t \in Threads, SetLoop(t) PROVE TokenInv'
  BY <1>9 DEF SetLoop, Goto, Lock, Unlock, Waiting, senderVars
<1>10. ASSUME NEW t \in Threads, SetSkip(t) PROVE TokenInv'
  BY <1>10 DEF SetSkip, Goto, Lock, Unlock, Waiting, senderVars
<1>11. ASSUME NEW t \in Threads, Iterate(t) PROVE TokenInv'
  BY <1>11 DEF Iterate, Goto, Lock, Unlock, Waiting, senderVars
<1>12. ASSUME NEW t \in Threads, Receive(t) PROVE TokenInv'
  <2>1. spc = "recv" /\ ping = <<ssize>> /\ pong = <<>> /\ \A u \in Threads : pc[u] # "reply"
    BY <1>12 DEF Receive
  <2>2. ping' = <<>> /\ pong' = <<>> /\ spc' = "recv"
    BY <1>12, <2>1 DEF Receive, senderVars
  <2>3. \A u \in Threads : pc'[u] = "reply" <=> u = t
    BY <1>12, <2>1 DEF Receive, Goto
  <2> QED BY <2>2, <2>3
<1>13. ASSUME NEW t \in Threads, Reply(t) PROVE TokenInv'
  <2>1. spc = "recv" /\ ping = <<>> /\ pong = <<>> /\ \A u \in Threads : pc[u] = "reply" <=> u = t
    BY <1>13 DEF Reply, Goto
  <2>5. \A u \in Threads : pc[u] # "barrier"
    BY <1>13 DEF Reply, Goto, LeaderInv, Leading
  <2>6. entered[0] \in Nat /\ entered[1] \in Nat
    BY Constants DEF Ranks
  <2>7. entered[0] = entered[1] /\ ssize = entered[0]
    BY <2>1, <2>5, <2>6 DEF SenderInv
  <2>2. size[t] = ssize
    BY <1>13, <2>7 DEF Reply, Goto, RoundInv
  <2>3. ping' = <<>> /\ pong' = <<ssize'>> /\ spc' = "recv"
    BY <1>13, <2>1, <2>2 DEF Reply, senderVars
  <2>4. \A u \in Threads : pc'[u] # "reply"
    BY <1>13, <2>1 DEF Reply, Goto
  <2> QED BY <2>3, <2>4
<1>14. ASSUME NEW t \in Threads, NextSize(t) PROVE TokenInv'
  BY <1>14 DEF NextSize, Goto, Lock, Unlock, Waiting, senderVars
<1>15. CASE SenderEnter
  BY <1>15 DEF SenderEnter, threadVars, Waiting, senderVars
<1>16. CASE SenderLeave
  BY <1>16 DEF SenderLeave, threadVars, Waiting, senderVars
<1>17. CASE SenderSend
  BY <1>17 DEF SenderSend, threadVars, Waiting, senderVars
<1>18. CASE SenderReceive
  <2>1. ping = <<>> /\ pong = <<ssize>> /\ \A u \in Threads : pc[u] # "reply"
    BY <1>18 DEF SenderReceive
  <2>2. ping' = <<>> /\ pong' = <<>> /\ spc' # "recv"
    BY <1>18, <2>1 DEF SenderReceive, threadVars
  <2>3. \A u \in Threads : pc'[u] # "reply"
    BY <1>18, <2>1 DEF SenderReceive, threadVars
  <2> QED BY <2>2, <2>3
<1>19. CASE SenderNextSize
  BY <1>19 DEF SenderNextSize, threadVars, Waiting, senderVars
<1>20. CASE UNCHANGED vars
  BY <1>20 DEF vars, Waiting, senderVars
<1> QED BY <1>1, <1>2, <1>3, <1>4, <1>5, <1>6, <1>7, <1>8, <1>9, <1>10, <1>11, <1>12, <1>13, <1>14, <1>15, <1>16, <1>17, <1>18, <1>19, <1>20 DEF Next, ThreadStep, SenderStep, Joined

\* A leader stays the only thread that is not waiting until it broadcasts.
LEMMA LeaderInvStep == IInv /\ [Next]_vars => LeaderInv'
<1> SUFFICES ASSUME IInv, [Next]_vars PROVE LeaderInv'  OBVIOUS
<1> USE DEF IInv, TypeOK, LeaderInv, Leading, BarrierPcs, WorkPcs
<1>1. ASSUME NEW t \in Threads, LockMutex(t) PROVE LeaderInv'
  BY <1>1 DEF LockMutex, Goto, Lock, Unlock, Waiting, senderVars
<1>2. ASSUME NEW t \in Threads, EnterBarrier(t) PROVE LeaderInv'
  BY <1>2, LeaderIsAlone, ZenonT(60) DEF EnterBarrier, Goto, Lock, Unlock, Waiting, senderVars, IInv
<1>3. ASSUME NEW t \in Threads, CondWait(t) PROVE LeaderInv'
  BY <1>3 DEF CondWait, Goto, Lock, Unlock, Waiting, senderVars
<1>4. ASSUME NEW t \in Threads, LeaveBarrier(t) PROVE LeaderInv'
  BY <1>4 DEF LeaveBarrier, Goto, Lock, Unlock, Waiting, senderVars
<1>5. ASSUME NEW t \in Threads, Broadcast(t) PROVE LeaderInv'
  BY <1>5 DEF Broadcast, Goto, Lock, Unlock, Waiting, senderVars
<1>6. ASSUME NEW t \in Threads, Reacquire(t) PROVE LeaderInv'
  BY <1>6 DEF Reacquire, Goto, Lock, Unlock, Waiting, senderVars
<1>7. ASSUME NEW t \in Threads, UnlockMutex(t) PROVE LeaderInv'
  BY <1>7 DEF UnlockMutex, Goto, Lock, Unlock, Waiting, senderVars
<1>8. ASSUME NEW t \in Threads, KeepOptions(t) PROVE LeaderInv'
  BY <1>8 DEF KeepOptions, Goto, Lock, Unlock, Waiting, senderVars
<1>9. ASSUME NEW t \in Threads, SetLoop(t) PROVE LeaderInv'
  BY <1>9 DEF SetLoop, Goto, Lock, Unlock, Waiting, senderVars
<1>10. ASSUME NEW t \in Threads, SetSkip(t) PROVE LeaderInv'
  BY <1>10 DEF SetSkip, Goto, Lock, Unlock, Waiting, senderVars
<1>11. ASSUME NEW t \in Threads, Iterate(t) PROVE LeaderInv'
  BY <1>11 DEF Iterate, Goto, Lock, Unlock, Waiting, senderVars
<1>12. ASSUME NEW t \in Threads, Receive(t) PROVE LeaderInv'
  BY <1>12 DEF Receive, Goto, Lock, Unlock, Waiting, senderVars
<1>13. ASSUME NEW t \in Threads, Reply(t) PROVE LeaderInv'
  BY <1>13 DEF Reply, Goto, Lock, Unlock, Waiting, senderVars
<1>14. ASSUME NEW t \in Threads, NextSize(t) PROVE LeaderInv'
  BY <1>14 DEF NextSize, Goto, Lock, Unlock, Waiting, senderVars
<1>15. CASE SenderEnter
  BY <1>15 DEF SenderEnter, threadVars, Waiting, senderVars
<1>16. CASE SenderLeave
  BY <1>16 DEF SenderLeave, threadVars, Waiting, senderVars
<1>17. CASE SenderSend
  BY <1>17 DEF SenderSend, threadVars, Waiting, senderVars
<1>18. CASE SenderReceive
  BY <1>18 DEF SenderReceive, threadVars, Waiting, senderVars
<1>19. CASE SenderNextSize
  BY <1>19 DEF SenderNextSize, threadVars, Waiting, senderVars
<1>20. CASE UNCHANGED vars
  BY <1>20 DEF vars, Waiting, senderVars
<1> QED BY <1>1, <1>2, <1>3, <1>4, <1>5, <1>6, <1>7, <1>8, <1>9, <1>10, <1>11, <1>12, <1>13, <1>14, <1>15, <1>16, <1>17, <1>18, <1>19, <1>20 DEF Next, ThreadStep, SenderStep, Joined

\* No thread is more than the barrier ahead of rank 1.
LEMMA RoundInvStep == IInv /\ [Next]_vars => RoundInv'
<1> SUFFICES ASSUME IInv, [Next]_vars PROVE RoundInv'  OBVIOUS
<1> USE DEF IInv, TypeOK, LeaderInv, RoundInv, NoLeader, Leading, BarrierPcs, WorkPcs, Ranks
<1>1. ASSUME NEW t \in Threads, LockMutex(t) PROVE RoundInv'
  BY <1>1 DEF LockMutex, Goto, Lock, Unlock, Waiting, senderVars
<1>2. ASSUME NEW t \in Threads, EnterBarrier(t) PROVE RoundInv'
  BY <1>2, LeaderIsAlone DEF EnterBarrier, Goto, Lock, Unlock, Waiting, senderVars
<1>3. ASSUME NEW t \in Threads, CondWait(t) PROVE RoundInv'
  BY <1>3 DEF CondWait, Goto, Lock, Unlock, Waiting, senderVars
<1>4. ASSUME NEW t \in Threads, LeaveBarrier(t) PROVE RoundInv'
  BY <1>4 DEF LeaveBarrier, Goto, Lock, Unlock, Waiting, senderVars
<1>5. ASSUME NEW t \in Threads, Broadcast(t) PROVE RoundInv'
  BY <1>5 DEF Broadcast, Goto, Lock, Unlock, Waiting, senderVars
<1>6. ASSUME NEW t \in Threads, Reacquire(t) PROVE RoundInv'
  BY <1>6 DEF Reacquire, Goto, Lock, Unlock, Waiting, senderVars
<1>7. ASSUME NEW t \in Threads, UnlockMutex(t) PROVE RoundInv'
  BY <1>7 DEF UnlockMutex, Goto, Lock, Unlock, Waiting, senderVars
<1>8. ASSUME NEW t \in Threads, KeepOptions(t) PROVE RoundInv'
  BY <1>8 DEF KeepOptions, Goto, Lock, Unlock, Waiting, senderVars
<1>9. ASSUME NEW t \in Threads, SetLoop(t) PROVE RoundInv'
  BY <1>9 DEF SetLoop, Goto, Lock, Unlock, Waiting, senderVars
<1>10. ASSUME NEW t \in Threads, SetSkip(t) PROVE RoundInv'
  BY <1>10 DEF SetSkip, Goto, Lock, Unlock, Waiting, senderVars
<1>11. ASSUME NEW t \in Threads, Iterate(t) PROVE RoundInv'
  BY <1>11 DEF Iterate, Goto, Lock, Unlock, Waiting, senderVars
<1>12. ASSUME NEW t \in Threads, Receive(t) PROVE RoundInv'
  BY <1>12 DEF Receive, Goto, Lock, Unlock, Waiting, senderVars
<1>13. ASSUME NEW t \in Threads, Reply(t) PROVE RoundInv'
  BY <1>13 DEF Reply, Goto, Lock, Unlock, Waiting, senderVars
<1>14. ASSUME NEW t \in Threads, NextSize(t) PROVE RoundInv'
  BY <1>14 DEF NextSize, Goto, Lock, Unlock, Waiting, senderVars
<1>15. CASE SenderEnter
  BY <1>15 DEF SenderEnter, threadVars, Waiting, senderVars
<1>16. CASE SenderLeave
  BY <1>16 DEF SenderLeave, threadVars, Waiting, senderVars
<1>17. CASE SenderSend
  BY <1>17 DEF SenderSend, threadVars, Waiting, senderVars
<1>18. CASE SenderReceive
  BY <1>18 DEF SenderReceive, threadVars, Waiting, senderVars
<1>19. CASE SenderNextSize
  BY <1>19 DEF SenderNextSize, threadVars, Waiting, senderVars
<1>20. CASE UNCHANGED vars
  BY <1>20 DEF vars, Waiting, senderVars
<1> QED BY <1>1, <1>2, <1>3, <1>4, <1>5, <1>6, <1>7, <1>8, <1>9, <1>10, <1>11, <1>12, <1>13, <1>14, <1>15, <1>16, <1>17, <1>18, <1>19, <1>20 DEF Next, ThreadStep, SenderStep, Joined

\* The sender is in the round of rank 1, or waits for it in MPI_Barrier.
LEMMA SenderInvStep == IInv /\ [Next]_vars => SenderInv'
<1> SUFFICES ASSUME IInv, [Next]_vars PROVE SenderInv'  OBVIOUS
<1> USE DEF IInv, TypeOK, LeaderInv, SenderInv, RoundInv, NoLeader, Leading, BarrierPcs, WorkPcs, Ranks
<1>1. ASSUME NEW t \in Threads, LockMutex(t) PROVE SenderInv'
  BY <1>1 DEF LockMutex, Goto, Lock, Unlock, Waiting, senderVars
<1>2. ASSUME NEW t \in Threads, EnterBarrier(t) PROVE SenderInv'
  <2>1. \A u \in Threads : pc[u] # "barrier"
    BY <1>2, LeaderIsAlone DEF EnterBarrier, Goto
  <2>2. entered[0] \in Nat /\ entered[1] \in Nat /\ entered[0] >= entered[1]
    BY <2>1, Constants
  <2>3. entered'[0] = entered[0] /\ entered'[1] = entered[1] + 1 /\ pc'[t] = "barrier"
    BY <1>2 DEF EnterBarrier, Goto
  <2>4. spc' = spc /\ ssize' = ssize
    BY <1>2 DEF EnterBarrier, senderVars
  <2> QED BY <2>2, <2>3, <2>4, SMTT(30)
<1>3. ASSUME NEW t \in Threads, CondWait(t) PROVE SenderInv'
  BY <1>3 DEF CondWait, Goto, Lock, Unlock, Waiting, senderVars
<1>4. ASSUME NEW t \in Threads, LeaveBarrier(t) PROVE SenderInv'
  BY <1>4 DEF LeaveBarrier, Goto, Lock, Unlock, Waiting, senderVars
<1>5. ASSUME NEW t \in Threads, Broadcast(t) PROVE SenderInv'
  BY <1>5 DEF Broadcast, Goto, Lock, Unlock, Waiting, senderVars
<1>6. ASSUME NEW t \in Threads, Reacquire(t) PROVE SenderInv'
  BY <1>6 DEF Reacquire, Goto, Lock, Unlock, Waiting, senderVars
<1>7. ASSUME NEW t \in Threads, UnlockMutex(t) PROVE SenderInv'
  BY <1>7 DEF UnlockMutex, Goto, Lock, Unlock, Waiting, senderVars
<1>8. ASSUME NEW t \in Threads, KeepOptions(t) PROVE SenderInv'
  BY <1>8 DEF KeepOptions, Goto, Lock, Unlock, Waiting, senderVars
<1>9. ASSUME NEW t \in Threads, SetLoop(t) PROVE SenderInv'
  BY <1>9 DEF SetLoop, Goto, Lock, Unlock, Waiting, senderVars
<1>10. ASSUME NEW t \in Threads, SetSkip(t) PROVE SenderInv'
  BY <1>10 DEF SetSkip, Goto, Lock, Unlock, Waiting, senderVars
<1>11. ASSUME NEW t \in Threads, Iterate(t) PROVE SenderInv'
  BY <1>11 DEF Iterate, Goto, Lock, Unlock, Waiting, senderVars
<1>12. ASSUME NEW t \in Threads, Receive(t) PROVE SenderInv'
  BY <1>12 DEF Receive, Goto, Lock, Unlock, Waiting, senderVars
<1>13. ASSUME NEW t \in Threads, Reply(t) PROVE SenderInv'
  BY <1>13 DEF Reply, Goto, Lock, Unlock, Waiting, senderVars
<1>14. ASSUME NEW t \in Threads, NextSize(t) PROVE SenderInv'
  BY <1>14 DEF NextSize, Goto, Lock, Unlock, Waiting, senderVars
<1>15. CASE SenderEnter
  BY <1>15 DEF SenderEnter, threadVars, Waiting, senderVars
<1>16. CASE SenderLeave
  BY <1>16 DEF SenderLeave, threadVars, Waiting, senderVars
<1>17. CASE SenderSend
  BY <1>17 DEF SenderSend, threadVars, Waiting, senderVars
<1>18. CASE SenderReceive
  BY <1>18 DEF SenderReceive, threadVars, Waiting, senderVars
<1>19. CASE SenderNextSize
  BY <1>19 DEF SenderNextSize, threadVars, Waiting, senderVars
<1>20. CASE UNCHANGED vars
  BY <1>20 DEF vars, Waiting, senderVars
<1> QED BY <1>1, <1>2, <1>3, <1>4, <1>5, <1>6, <1>7, <1>8, <1>9, <1>10, <1>11, <1>12, <1>13, <1>14, <1>15, <1>16, <1>17, <1>18, <1>19, <1>20 DEF Next, ThreadStep, SenderStep, Joined

\* The unlocked writes of options.loop and options.skip never change a value
\* that another thread is using.
LEMMA ThreadOptionsInvStep == IInv /\ [Next]_vars => ThreadOptionsInv'
<1> SUFFICES ASSUME IInv, [Next]_vars PROVE ThreadOptionsInv'  OBVIOUS
<1> USE Constants, RunsType, LatencyMTAssumption DEF IInv, TypeOK, LeaderInv, RoundInv, NoLeader, Leading, BarrierPcs, WorkPcs, Ranks, ThreadOptionsInv, Runs, Large
<1>1. ASSUME NEW t \in Threads, LockMutex(t) PROVE ThreadOptionsInv'
  BY <1>1 DEF LockMutex, Goto, Lock, Unlock, Waiting, senderVars
<1>2. ASSUME NEW t \in Threads, EnterBarrier(t) PROVE ThreadOptionsInv'
  <2>1. \A u \in Threads : pc'[u] \in {"wait", "barrier"}
    BY <1>2, LeaderIsAlone DEF EnterBarrier, Goto
  <2>2. entered[1] \in Nat /\ entered'[1] = entered[1] + 1
    BY <1>2, Constants DEF EnterBarrier
  <2>3. ~Large(entered'[1]) => ~Large(entered[1])
    BY <2>2
  <2>4. options' = options
    BY <1>2 DEF EnterBarrier
  <2> QED BY <2>1, <2>3, <2>4
<1>3. ASSUME NEW t \in Threads, CondWait(t) PROVE ThreadOptionsInv'
  BY <1>3 DEF CondWait, Goto, Lock, Unlock, Waiting, senderVars
<1>4. ASSUME NEW t \in Threads, LeaveBarrier(t) PROVE ThreadOptionsInv'
  BY <1>4 DEF LeaveBarrier, Goto, Lock, Unlock, Waiting, senderVars
<1>5. ASSUME NEW t \in Threads, Broadcast(t) PROVE ThreadOptionsInv'
  BY <1>5 DEF Broadcast, Goto, Lock, Unlock, Waiting, senderVars
<1>6. ASSUME NEW t \in Threads, Reacquire(t) PROVE ThreadOptionsInv'
  BY <1>6 DEF Reacquire, Goto, Lock, Unlock, Waiting, senderVars
<1>7. ASSUME NEW t \in Threads, UnlockMutex(t) PROVE ThreadOptionsInv'
  BY <1>7 DEF UnlockMutex, Goto, Lock, Unlock, Waiting, senderVars
<1>8. ASSUME NEW t \in Threads, KeepOptions(t) PROVE ThreadOptionsInv'
  BY <1>8 DEF KeepOptions, Goto, Lock, Unlock, Waiting, senderVars
<1>9. ASSUME NEW t \in Threads, SetLoop(t) PROVE ThreadOptionsInv'
  BY <1>9 DEF SetLoop, Goto, Lock, Unlock, Waiting, senderVars
<1>10. ASSUME NEW t \in Threads, SetSkip(t) PROVE ThreadOptionsInv'
  <2>1. Large(size[t]) /\ options[1].loop = LargeRuns.loop /\ size[t] = entered[1]
    BY <1>10 DEF SetSkip, Goto
  <2>2. options'[1] = [loop |-> LargeRuns.loop, skip |-> LargeRuns.skip]
    BY <1>10, <2>1 DEF SetSkip
  <2>3. options'[1] = LargeRuns
    BY <2>2
  <2>4. \A u \in Threads : pc'[u] \in {"setskip", "loop", "recv", "reply"} => size[u] = entered[1]
    BY <1>10, <2>1 DEF SetSkip, Goto
  <2>5. entered' = entered /\ size' = size
    BY <1>10 DEF SetSkip
  <2> QED BY <2>1, <2>3, <2>4, <2>5
<1>11. ASSUME NEW t \in Threads, Iterate(t) PROVE ThreadOptionsInv'
  BY <1>11 DEF Iterate, Goto, Lock, Unlock, Waiting, senderVars
<1>12. ASSUME NEW t \in Threads, Receive(t) PROVE ThreadOptionsInv'
  BY <1>12 DEF Receive, Goto, Lock, Unlock, Waiting, senderVars
<1>13. ASSUME NEW t \in Threads, Reply(t) PROVE ThreadOptionsInv'
  BY <1>13 DEF Reply, Goto, Lock, Unlock, Waiting, senderVars
<1>14. ASSUME NEW t \in Threads, NextSize(t) PROVE ThreadOptionsInv'
  BY <1>14 DEF NextSize, Goto, Lock, Unlock, Waiting, senderVars
<1>15. CASE SenderEnter
  BY <1>15 DEF SenderEnter, threadVars, Waiting, senderVars
<1>16. CASE SenderLeave
  BY <1>16 DEF SenderLeave, threadVars, Waiting, senderVars
<1>17. CASE SenderSend
  BY <1>17 DEF SenderSend, threadVars, Waiting, senderVars
<1>18. CASE SenderReceive
  BY <1>18 DEF SenderReceive, threadVars, Waiting, senderVars
<1>19. CASE SenderNextSize
  BY <1>19 DEF SenderNextSize, threadVars, Waiting, senderVars
<1>20. CASE UNCHANGED vars
  BY <1>20 DEF vars, Waiting, senderVars
<1> QED BY <1>1, <1>2, <1>3, <1>4, <1>5, <1>6, <1>7, <1>8, <1>9, <1>10, <1>11, <1>12, <1>13, <1>14, <1>15, <1>16, <1>17, <1>18, <1>19, <1>20 DEF Next, ThreadStep, SenderStep, Joined

\* The sender switches its own copy of the options at the same size.
LEMMA SenderOptionsInvStep == IInv /\ [Next]_vars => SenderOptionsInv'
<1> SUFFICES ASSUME IInv, [Next]_vars PROVE SenderOptionsInv'  OBVIOUS
<1> USE Constants, LatencyMTAssumption DEF IInv, TypeOK, SenderOptionsInv, Ranks, Runs, Large
<1>1. ASSUME NEW t \in Threads, LockMutex(t) PROVE SenderOptionsInv'
  BY <1>1 DEF LockMutex, Goto, Lock, Unlock, Waiting, senderVars
<1>2. ASSUME NEW t \in Threads, EnterBarrier(t) PROVE SenderOptionsInv'
  BY <1>2 DEF EnterBarrier, Goto, Lock, Unlock, Waiting, senderVars
<1>3. ASSUME NEW t \in Threads, CondWait(t) PROVE SenderOptionsInv'
  BY <1>3 DEF CondWait, Goto, Lock, Unlock, Waiting, senderVars
<1>4. ASSUME NEW t \in Threads, LeaveBarrier(t) PROVE SenderOptionsInv'
  BY <1>4 DEF LeaveBarrier, Goto, Lock, Unlock, Waiting, senderVars
<1>5. ASSUME NEW t \in Threads, Broadcast(t) PROVE SenderOptionsInv'
  BY <1>5 DEF Broadcast, Goto, Lock, Unlock, Waiting, senderVars
<1>6. ASSUME NEW t \in Threads, Reacquire(t) PROVE SenderOptionsInv'
  BY <1>6 DEF Reacquire, Goto, Lock, Unlock, Waiting, senderVars
<1>7. ASSUME NEW t \in Threads, UnlockMutex(t) PROVE SenderOptionsInv'
  BY <1>7 DEF UnlockMutex, Goto, Lock, Unlock, Waiting, senderVars
<1>8. ASSUME NEW t \in Threads, KeepOptions(t) PROVE SenderOptionsInv'
  BY <1>8 DEF KeepOptions, Goto, Lock, Unlock, Waiting, senderVars
<1>9. ASSUME NEW t \in Threads, SetLoop(t) PROVE SenderOptionsInv'
  BY <1>9 DEF SetLoop, Goto, Lock, Unlock, Waiting, senderVars
<1>10. ASSUME NEW t \in Threads, SetSkip(t) PROVE SenderOptionsInv'
  BY <1>10 DEF SetSkip, Goto, Lock, Unlock, Waiting, senderVars
<1>11. ASSUME NEW t \in Threads, Iterate(t) PROVE SenderOptionsInv'
  BY <1>11 DEF Iterate, Goto, Lock, Unlock, Waiting, senderVars
<1>12. ASSUME NEW t \in Threads, Receive(t) PROVE SenderOptionsInv'
  BY <1>12 DEF Receive, Goto, Lock, Unlock, Waiting, senderVars
<1>13. ASSUME NEW t \in Threads, Reply(t) PROVE SenderOptionsInv'
  BY <1>13 DEF Reply, Goto, Lock, Unlock, Waiting, senderVars
<1>14. ASSUME NEW t \in Threads, NextSize(t) PROVE SenderOptionsInv'
  BY <1>14 DEF NextSize, Goto, Lock, Unlock, Waiting, senderVars
<1>15. CASE SenderEnter
  BY <1>15 DEF SenderEnter, threadVars, Waiting, senderVars
<1>16. CASE SenderLeave
  BY <1>16 DEF SenderLeave, threadVars, Waiting, senderVars
<1>17. CASE SenderSend
  BY <1>17 DEF SenderSend, threadVars, Waiting, senderVars
<1>18. CASE SenderReceive
  BY <1>18 DEF SenderReceive, threadVars, Waiting, senderVars
<1>19. CASE SenderNextSize
  BY <1>19 DEF SenderNextSize, threadVars, Waiting, senderVars
<1>20. CASE UNCHANGED vars
  BY <1>20 DEF vars, Waiting, senderVars
<1> QED BY <1>1, <1>2, <1>3, <1>4, <1>5, <1>6, <1>7, <1>8, <1>9, <1>10, <1>11, <1>12, <1>13, <1>14, <1>15, <1>16, <1>17, <1>18, <1>19, <1>20 DEF Next, ThreadStep, SenderStep, Joined

\* finished_size is one more than the number of waiting threads.
LEMMA CountInvStep == IInv /\ [Next]_vars => CountInv'
<1> SUFFICES ASSUME IInv, [Next]_vars PROVE CountInv'  OBVIOUS
<1> USE DEF IInv, TypeOK, CountInv, LeaderInv, NoLeader, Leading, BarrierPcs, WorkPcs
<1>1. ASSUME NEW t \in Threads, LockMutex(t) PROVE CountInv'
  <2>1. Waiting' = Waiting /\ (NoLeader' <=> NoLeader)
    BY <1>1 DEF LockMutex, Goto, Waiting
  <2>2. finished_size' = finished_size
    BY <1>1 DEF LockMutex
  <2>3. \A u \in Threads : pc'[u] = "broadcast" => pc[u] = "broadcast"
    BY <1>1 DEF LockMutex, Goto
  <2> QED BY <2>1, <2>2, <2>3
<1>2. ASSUME NEW t \in Threads, EnterBarrier(t) PROVE CountInv'
  <2>1. ~NoLeader'
    BY <1>2 DEF EnterBarrier, Goto
  <2>2. \A u \in Threads : pc'[u] # "broadcast"
    BY <1>2, LeaderIsAlone DEF EnterBarrier, Goto
  <2> QED BY <2>1, <2>2
<1>3. ASSUME NEW t \in Threads, CondWait(t) PROVE CountInv'
  <2>1. NoLeader /\ NoLeader'
    BY <1>3 DEF CondWait, Goto
  <2>2. Waiting' = Waiting \cup {t} /\ t \notin Waiting
    BY <1>3 DEF CondWait, Goto, Waiting
  <2>3. Cardinality(Waiting') = Cardinality(Waiting) + 1
    BY <2>2, WaitingFinite, FS_AddElement
  <2>4. finished_size' = finished_size + 1
    BY <1>3 DEF CondWait
  <2> QED BY <1>3, <2>1, <2>3, <2>4, WaitingFinite DEF CondWait, Goto
<1>4. ASSUME NEW t \in Threads, LeaveBarrier(t) PROVE CountInv'
  <2>1. ~NoLeader' /\ finished_size' = 1
    BY <1>4 DEF LeaveBarrier, Goto
  <2> QED BY <2>1
<1>5. ASSUME NEW t \in Threads, Broadcast(t) PROVE CountInv'
  <2>1. Waiting' = {}
    BY <1>5 DEF Broadcast, Waiting
  <2>2. finished_size' = 1
    BY <1>5 DEF Broadcast
  <2>3. \A u \in Threads : pc'[u] # "broadcast"
    BY <1>5 DEF Broadcast
  <2> QED BY <2>1, <2>2, <2>3, FS_EmptySet
<1>6. ASSUME NEW t \in Threads, Reacquire(t) PROVE CountInv'
  <2>1. Waiting' = Waiting /\ (NoLeader' <=> NoLeader)
    BY <1>6 DEF Reacquire, Goto, Waiting
  <2>2. finished_size' = finished_size
    BY <1>6 DEF Reacquire
  <2>3. \A u \in Threads : pc'[u] = "broadcast" => pc[u] = "broadcast"
    BY <1>6 DEF Reacquire, Goto
  <2> QED BY <2>1, <2>2, <2>3
<1>7. ASSUME NEW t \in Threads, UnlockMutex(t) PROVE CountInv'
  <2>1. Waiting' = Waiting /\ (NoLeader' <=> NoLeader)
    BY <1>7 DEF UnlockMutex, Goto, Waiting
  <2>2. finished_size' = finished_size
    BY <1>7 DEF UnlockMutex
  <2>3. \A u \in Threads : pc'[u] = "broadcast" => pc[u] = "broadcast"
    BY <1>7 DEF UnlockMutex, Goto
  <2> QED BY <2>1, <2>2, <2>3
<1>8. ASSUME NEW t \in Threads, KeepOptions(t) PROVE CountInv'
  <2>1. Waiting' = Waiting /\ (NoLeader' <=> NoLeader)
    BY <1>8 DEF KeepOptions, Goto, Waiting
  <2>2. finished_size' = finished_size
    BY <1>8 DEF KeepOptions
  <2>3. \A u \in Threads : pc'[u] = "broadcast" => pc[u] = "broadcast"
    BY <1>8 DEF KeepOptions, Goto
  <2> QED BY <2>1, <2>2, <2>3
<1>9. ASSUME NEW t \in Threads, SetLoop(t) PROVE CountInv'
  <2>1. Waiting' = Waiting /\ (NoLeader' <=> NoLeader)
    BY <1>9 DEF SetLoop, Goto, Waiting
  <2>2. finished_size' = finished_size
    BY <1>9 DEF SetLoop
  <2>3. \A u \in Threads : pc'[u] = "broadcast" => pc[u] = "broadcast"
    BY <1>9 DEF SetLoop, Goto
  <2> QED BY <2>1, <2>2, <2>3
<1>10. ASSUME NEW t \in Threads, SetSkip(t) PROVE CountInv'
  <2>1. Waiting' = Waiting /\ (NoLeader' <=> NoLeader)
    BY <1>10 DEF SetSkip, Goto, Waiting
  <2>2. finished_size' = finished_size
    BY <1>10 DEF SetSkip
  <2>3. \A u \in Threads : pc'[u] = "broadcast" => pc[u] = "broadcast"
    BY <1>10 DEF SetSkip, Goto
  <2> QED BY <2>1, <2>2, <2>3
<1>11. ASSUME NEW t \in Threads, Iterate(t) PROVE CountInv'
  <2>1. Waiting' = Waiting /\ (NoLeader' <=> NoLeader)
    BY <1>11 DEF Iterate, Goto, Waiting
  <2>2. finished_size' = finished_size
    BY <1>11 DEF Iterate
  <2>3. \A u \in Threads : pc'[u] = "broadcast" => pc[u] = "broadcast"
    BY <1>11 DEF Iterate, Goto
  <2> QED BY <2>1, <2>2, <2>3
<1>12. ASSUME NEW t \in Threads, Receive(t) PROVE CountInv'
  <2>1. Waiting' = Waiting /\ (NoLeader' <=> NoLeader)
    BY <1>12 DEF Receive, Goto, Waiting
  <2>2. finished_size' = finished_size
    BY <1>12 DEF Receive
  <2>3. \A u \in Threads : pc'[u] = "broadcast" => pc[u] = "broadcast"
    BY <1>12 DEF Receive, Goto
  <2> QED BY <2>1, <2>2, <2>3
<1>13. ASSUME NEW t \in Threads, Reply(t) PROVE CountInv'
  <2>1. Waiting' = Waiting /\ (NoLeader' <=> NoLeader)
    BY <1>13 DEF Reply, Goto, Waiting
  <2>2. finished_size' = finished_size
    BY <1>13 DEF Reply
  <2>3. \A u \in Threads : pc'[u] = "broadcast" => pc[u] = "broadcast"
    BY <1>13 DEF Reply, Goto
  <2> QED BY <2>1, <2>2, <2>3
<1>14. ASSUME NEW t \in Threads, NextSize(t) PROVE CountInv'
  <2>1. Waiting' = Waiting /\ (NoLeader' <=> NoLeader)
    BY <1>14 DEF NextSize, Goto, Waiting
  <2>2. finished_size' = finished_size
    BY <1>14 DEF NextSize
  <2>3. \A u \in Threads : pc'[u] = "broadcast" => pc[u] = "broadcast"
    BY <1>14 DEF NextSize, Goto
  <2> QED BY <2>1, <2>2, <2>3
<1>15. CASE SenderEnter
  BY <1>15 DEF SenderEnter, threadVars, Waiting, senderVars
<1>16. CASE SenderLeave
  BY <1>16 DEF SenderLeave, threadVars, Waiting, senderVars
<1>17. CASE SenderSend
  BY <1>17 DEF SenderSend, threadVars, Waiting, senderVars
<1>18. CASE SenderReceive
  BY <1>18 DEF SenderReceive, threadVars, Waiting, senderVars
<1>19. CASE SenderNextSize
  BY <1>19 DEF SenderNextSize, threadVars, Waiting, senderVars
<1>20. CASE UNCHANGED vars
  BY <1>20 DEF vars, Waiting, senderVars
<1> QED BY <1>1, <1>2, <1>3, <1>4, <1>5, <1>6, <1>7, <1>8, <1>9, <1>10, <1>11, <1>12, <1>13, <1>14, <1>15, <1>16, <1>17, <1>18, <1>19, <1>20 DEF Next, ThreadStep, SenderStep, Joined

\* The invariant holds initially.
LEMMA InitIInv == Init => IInv
<1> SUFFICES ASSUME Init PROVE IInv  OBVIOUS
<1> USE Constants, RunsType DEF Init
<1>1. TypeOK
  BY DEF TypeOK, BarrierPcs, WorkPcs, Ranks
<1>2. MutexInv /\ LeaderInv /\ RoundInv /\ SenderInv /\ TokenInv
  BY DEF MutexInv, LeaderInv, RoundInv, SenderInv, TokenInv, Leading, NoLeader, Ranks
<1>3. CountInv
  <2>1. Waiting = {}
    BY DEF Waiting
  <2> QED BY <2>1, FS_EmptySet DEF CountInv
<1>4. ThreadOptionsInv
  BY DEF ThreadOptionsInv, Ranks
<1>5. SenderOptionsInv
  BY LatencyMTAssumption DEF SenderOptionsInv, Runs, Large, Ranks
<1> QED BY <1>1, <1>2, <1>3, <1>4, <1>5 DEF IInv

\* Every step preserves the invariant.
LEMMA IInvStep == IInv /\ [Next]_vars => IInv'
BY TypeOKStep, MutexInvStep, LeaderInvStep, CountInvStep, RoundInvStep, SenderInvStep,
   TokenInvStep, ThreadOptionsInvStep, SenderOptionsInvStep DEF IInv

(***************************************************************************)
(* IInv holds in every reachable state, for any number of threads and      *)
(* sizes and any loop and skip counts.                                     *)
(***************************************************************************)
THEOREM Invariance == Safety => []IInv
BY InitIInv, IInvStep, PTL DEF Safety

(***************************************************************************)
(* README, osu_latency_mt: a thread that receives a message sends back a   *)
(* response of equal size.  Whoever can take a message has posted its      *)
(* receive for exactly the size of that message.                           *)
(***************************************************************************)
THEOREM EqualSizeTheorem == Safety => []EqualSize
<1>1. IInv => EqualSize
  <2> SUFFICES ASSUME IInv PROVE EqualSize  OBVIOUS
  <2>1. ASSUME NEW t \in Threads, pc[t] = "recv", ping # <<>>
        PROVE  Head(ping) = size[t]
    <3>1. spc = "recv" /\ ping = <<ssize>>
      BY <2>1 DEF IInv, TokenInv
    <3>2. \A u \in Threads : pc[u] # "barrier"
      BY <2>1 DEF IInv, LeaderInv, Leading
    <3>3. entered[0] \in Nat /\ entered[1] \in Nat
      BY Constants DEF IInv, TypeOK, Ranks
    <3>4. ssize = entered[1]
      BY <3>1, <3>2, <3>3 DEF IInv, SenderInv
    <3>5. size[t] = entered[1]
      BY <2>1 DEF IInv, RoundInv
    <3> QED BY <3>1, <3>4, <3>5
  <2>2. ASSUME spc = "recv", pong # <<>> PROVE Head(pong) = ssize
    BY <2>2 DEF IInv, TokenInv
  <2> QED BY <2>1, <2>2 DEF EqualSize
<1> QED BY <1>1, Invariance, PTL

(***************************************************************************)
(* The options all threads write without the mutex are the right ones for  *)
(* every thread that runs its iterations.                                  *)
(***************************************************************************)
THEOREM TripCountTheorem == Safety => []TripCountAgreed
<1>1. IInv => TripCountAgreed
  BY DEF IInv, ThreadOptionsInv, SenderOptionsInv, TripCountAgreed
<1> QED BY <1>1, Invariance, PTL

-----------------------------------------------------------------------------
\* The parties of the barrier are the receiving threads and the sender.
LEMMA PartiesSplit == Parties = Threads \cup {Sender} /\ Sender \notin Threads
BY Constants DEF Parties, Threads, Sender

\* The parts of TypeOK that the refinement uses.
LEMMA BarTypes ==
  ASSUME IInv
  PROVE  /\ \A t \in Threads : size[t] \in 1..NumSizes
         /\ entered[0] \in 0..NumSizes /\ entered[1] \in 0..NumSizes
BY DEF IInv, TypeOK, Ranks

\* Every thread has arrived at the barrier of the round rank 1 is in.
LEMMA ThreadsHaveArrived ==
  ASSUME IInv
  PROVE  \A t \in Threads : arrivedBar[t] >= entered[1]
BY BarTypes, PartiesSplit DEF IInv, RoundInv, arrivedBar

\* Unless rank 1 is inside MPI_Barrier, the sender has entered it as often.
LEMMA SenderHasArrived ==
  ASSUME IInv, \A t \in Threads : pc[t] # "barrier"
  PROVE  entered[0] >= entered[1]
BY BarTypes DEF IInv, SenderInv

\* Taking part in the barrier, as a waiter or as the leader, is an Arrive.
LEMMA ThreadArrives ==
  ASSUME IInv, NEW t \in Threads,
         pc[t] = "holding", pc'[t] \in {"wait", "barrier"},
         \A u \in Threads : u # t => pc'[u] = pc[u],
         size' = size, entered'[0] = entered[0], spc' = spc
  PROVE  RB!Arrive(t)
<1>1. arrivedBar[t] = size[t] - 1 /\ passedBar[t] = size[t] - 1 /\ size[t] <= NumSizes
  BY PartiesSplit, BarTypes DEF arrivedBar, passedBar
<1>2. arrivedBar' = [arrivedBar EXCEPT ![t] = @ + 1]
  <2>1. arrivedBar'[t] = size[t]
    BY PartiesSplit DEF arrivedBar
  <2>2. \A p \in Parties : p # t => arrivedBar'[p] = arrivedBar[p]
    BY PartiesSplit DEF arrivedBar
  <2>3. size[t] = arrivedBar[t] + 1
    BY <1>1, BarTypes
  <2> QED BY <2>1, <2>2, <2>3, PartiesSplit DEF arrivedBar
<1>3. passedBar' = passedBar
  BY PartiesSplit DEF passedBar
<1> QED BY <1>1, <1>2, <1>3, BarTypes, Constants DEF RB!Arrive

\* Returning from MPI_Barrier or from the condition variable is a Pass.
LEMMA ThreadPasses ==
  ASSUME IInv, NEW t \in Threads,
         pc[t] \in {"barrier", "woken"}, pc'[t] \in {"broadcast", "unlock"},
         \A u \in Threads : u # t => pc'[u] = pc[u],
         size' = size, entered' = entered, spc' = spc,
         entered[0] >= entered[1]
  PROVE  RB!Pass(t)
<1>1. size[t] = entered[1]
  BY DEF IInv, RoundInv
<1>2. arrivedBar[t] = size[t] /\ passedBar[t] = size[t] - 1
  BY PartiesSplit, BarTypes DEF arrivedBar, passedBar
<1>3. arrivedBar[Sender] = entered[0]
  BY PartiesSplit DEF arrivedBar
<1>4. \A q \in Parties : arrivedBar[q] >= arrivedBar[t]
  BY <1>1, <1>2, <1>3, ThreadsHaveArrived, PartiesSplit, BarTypes
<1>5. arrivedBar' = arrivedBar
  BY PartiesSplit DEF arrivedBar
<1>6. passedBar' = [passedBar EXCEPT ![t] = arrivedBar[t]]
  BY <1>2, PartiesSplit DEF passedBar
<1> QED BY <1>2, <1>4, <1>5, <1>6, BarTypes DEF RB!Pass

\* A step that moves nobody across a line of the barrier is a stuttering step.
LEMMA NobodyMoves ==
  ASSUME IInv,
         \A u \in Threads :
           /\ pc[u] \in {"lock", "holding"} <=> pc'[u] \in {"lock", "holding"}
           /\ pc[u] \in {"wait", "barrier", "woken"} <=> pc'[u] \in {"wait", "barrier", "woken"},
         size' = size, entered'[0] = entered[0], spc' = "leave" <=> spc = "leave"
  PROVE  UNCHANGED RB!rbvars
BY PartiesSplit DEF RB!rbvars, arrivedBar, passedBar

\* Every step arrives, passes, or does not concern the barrier.
LEMMA BarrierStep == IInv /\ [Next]_vars => [RB!Next]_(RB!rbvars)
<1> SUFFICES ASSUME IInv, [Next]_vars PROVE RB!Next \/ UNCHANGED RB!rbvars  OBVIOUS
<1>a. \A p \in Parties : RB!Arrive(p) \/ RB!Pass(p) => RB!Next
  BY DEF RB!Next
<1>b. pc \in [Threads -> BarrierPcs \cup WorkPcs \cup {"done"}]
  BY DEF IInv, TypeOK
<1>1. ASSUME NEW t \in Threads, LockMutex(t) PROVE RB!Next \/ UNCHANGED RB!rbvars
  BY <1>1, <1>b, NobodyMoves DEF LockMutex, Goto, senderVars
<1>2. ASSUME NEW t \in Threads, EnterBarrier(t) PROVE RB!Next \/ UNCHANGED RB!rbvars
  <2>1. RB!Arrive(t)
    BY <1>2, <1>b, ThreadArrives DEF EnterBarrier, Goto, senderVars
  <2> QED BY <2>1, <1>a, PartiesSplit
<1>3. ASSUME NEW t \in Threads, CondWait(t) PROVE RB!Next \/ UNCHANGED RB!rbvars
  <2>1. RB!Arrive(t)
    BY <1>3, <1>b, ThreadArrives DEF CondWait, Goto, senderVars
  <2> QED BY <2>1, <1>a, PartiesSplit
<1>4. ASSUME NEW t \in Threads, LeaveBarrier(t) PROVE RB!Next \/ UNCHANGED RB!rbvars
  <2>1. RB!Pass(t)
    BY <1>4, <1>b, ThreadPasses DEF LeaveBarrier, Goto, senderVars
  <2> QED BY <2>1, <1>a, PartiesSplit
<1>5. ASSUME NEW t \in Threads, Broadcast(t) PROVE RB!Next \/ UNCHANGED RB!rbvars
  BY <1>5, <1>b, NobodyMoves DEF Broadcast, Waiting, senderVars
<1>6. ASSUME NEW t \in Threads, Reacquire(t) PROVE RB!Next \/ UNCHANGED RB!rbvars
  <2>1. \A u \in Threads : pc[u] # "barrier"
    BY <1>6 DEF Reacquire, Goto, IInv, LeaderInv, Leading
  <2>2. RB!Pass(t)
    BY <1>6, <2>1, <1>b, SenderHasArrived, ThreadPasses DEF Reacquire, Goto, senderVars
  <2> QED BY <2>2, <1>a, PartiesSplit
<1>7. ASSUME NEW t \in Threads, UnlockMutex(t) PROVE RB!Next \/ UNCHANGED RB!rbvars
  BY <1>7, <1>b, NobodyMoves DEF UnlockMutex, Goto, senderVars
<1>8. ASSUME NEW t \in Threads, KeepOptions(t) PROVE RB!Next \/ UNCHANGED RB!rbvars
  BY <1>8, <1>b, NobodyMoves DEF KeepOptions, Goto, senderVars
<1>9. ASSUME NEW t \in Threads, SetLoop(t) PROVE RB!Next \/ UNCHANGED RB!rbvars
  BY <1>9, <1>b, NobodyMoves DEF SetLoop, Goto, senderVars
<1>10. ASSUME NEW t \in Threads, SetSkip(t) PROVE RB!Next \/ UNCHANGED RB!rbvars
  BY <1>10, <1>b, NobodyMoves DEF SetSkip, Goto, senderVars
<1>11. ASSUME NEW t \in Threads, Iterate(t) PROVE RB!Next \/ UNCHANGED RB!rbvars
  BY <1>11, <1>b, NobodyMoves DEF Iterate, Goto, senderVars
<1>12. ASSUME NEW t \in Threads, Receive(t) PROVE RB!Next \/ UNCHANGED RB!rbvars
  BY <1>12, <1>b, NobodyMoves DEF Receive, Goto, senderVars
<1>13. ASSUME NEW t \in Threads, Reply(t) PROVE RB!Next \/ UNCHANGED RB!rbvars
  BY <1>13, <1>b, NobodyMoves DEF Reply, Goto, senderVars
<1>14. ASSUME NEW t \in Threads, NextSize(t) PROVE RB!Next \/ UNCHANGED RB!rbvars
  <2>1. /\ size[t] \in Int /\ pc[t] = "loop" /\ spc' = spc /\ entered' = entered
        /\ \/ size'[t] = size[t] /\ pc'[t] = "done"
           \/ size'[t] = size[t] + 1 /\ pc'[t] = "lock"
    BY <1>14, <1>b, BarTypes DEF NextSize, Goto, senderVars, IInv, TypeOK
  <2>2. \A u \in Threads : u # t => size'[u] = size[u] /\ pc'[u] = pc[u]
    BY <1>14, <1>b DEF NextSize, Goto, IInv, TypeOK
  <2>3. \A p \in Parties : arrivedBar'[p] = arrivedBar[p] /\ passedBar'[p] = passedBar[p]
    BY <2>1, <2>2, PartiesSplit DEF arrivedBar, passedBar
  <2> QED BY <2>3 DEF RB!rbvars, arrivedBar, passedBar
<1>15. CASE SenderEnter
  <2>1. arrivedBar[Sender] = entered[0] /\ passedBar[Sender] = entered[0]
    BY <1>15, PartiesSplit DEF SenderEnter, arrivedBar, passedBar
  <2>2. entered[0] < NumSizes
    BY <1>15, BarTypes, Constants DEF SenderEnter, IInv, SenderInv, TypeOK
  <2>3. entered'[0] = entered[0] + 1 /\ pc' = pc /\ size' = size /\ spc' = "leave"
    BY <1>15 DEF SenderEnter, threadVars, IInv, TypeOK, Ranks
  <2>4. arrivedBar' = [arrivedBar EXCEPT ![Sender] = @ + 1]
    BY <2>1, <2>3, PartiesSplit DEF arrivedBar
  <2>5. passedBar' = passedBar
    BY <1>15, <2>3, PartiesSplit, BarTypes DEF SenderEnter, passedBar
  <2>6. RB!Arrive(Sender)
    BY <2>1, <2>2, <2>4, <2>5 DEF RB!Arrive
  <2> QED BY <2>6, <1>a, PartiesSplit
<1>16. CASE SenderLeave
  <2>1. arrivedBar[Sender] = entered[0] /\ passedBar[Sender] = entered[0] - 1
    BY <1>16, PartiesSplit DEF SenderLeave, arrivedBar, passedBar
  <2>2. \A q \in Parties : arrivedBar[q] >= arrivedBar[Sender]
    <3>1. \A t \in Threads : arrivedBar[t] \in Int
      BY PartiesSplit, BarTypes DEF arrivedBar
    <3> QED BY <1>16, <2>1, <3>1, ThreadsHaveArrived, PartiesSplit, BarTypes DEF SenderLeave
  <2>3. entered' = entered /\ pc' = pc /\ size' = size /\ spc' = "send"
    BY <1>16 DEF SenderLeave, threadVars
  <2>4. arrivedBar' = arrivedBar
    BY <2>3 DEF arrivedBar
  <2>5. passedBar' = [passedBar EXCEPT ![Sender] = arrivedBar[Sender]]
    BY <1>16, <2>1, <2>3, PartiesSplit DEF SenderLeave, passedBar
  <2>6. RB!Pass(Sender)
    BY <2>1, <2>2, <2>4, <2>5, BarTypes DEF RB!Pass
  <2> QED BY <2>6, <1>a, PartiesSplit
<1>17. CASE SenderSend
  BY <1>17, NobodyMoves DEF SenderSend, threadVars
<1>18. CASE SenderReceive
  BY <1>18, NobodyMoves DEF SenderReceive, threadVars
<1>19. CASE SenderNextSize
  BY <1>19, NobodyMoves DEF SenderNextSize, threadVars
<1>20. CASE UNCHANGED vars
  BY <1>20, NobodyMoves DEF vars
<1> QED BY <1>1, <1>2, <1>3, <1>4, <1>5, <1>6, <1>7, <1>8, <1>9, <1>10, <1>11, <1>12, <1>13, <1>14, <1>15, <1>16, <1>17, <1>18, <1>19, <1>20 DEF Next, ThreadStep, SenderStep, Joined

\* Initially nobody has arrived.
LEMMA BarrierInit == Init => RB!Init
BY PartiesSplit DEF Init, RB!Init, arrivedBar, passedBar, Ranks

(***************************************************************************)
(* The counter, the mutex, the condition variable and the MPI_Barrier of   *)
(* the leader together are a barrier for all the receiving threads and the *)
(* sender, however many threads there are.                                 *)
(***************************************************************************)
THEOREM BarrierRefinement == Safety => ImplementsBarrier
BY BarrierInit, BarrierStep, Invariance, PTL DEF Safety, ImplementsBarrier, RB!Spec

-----------------------------------------------------------------------------
(***************************************************************************)
(* The strided shares of the threads.                                      *)
(***************************************************************************)
\* How many messages of size number k the sender sends.
Trips(k) == Runs(k).loop + Runs(k).skip

\* A thread only works on iterations of its own share.
ShareInv ==
  \A t \in Threads :
    /\ pc[t] \in {"loop", "recv", "reply"} => i[t] % NumThreads = t
    /\ pc[t] \in {"recv", "reply"} => i[t] < Trips(size[t])

\* Until the sender has left the barrier of a size, no thread with a share
\* that is not empty can have got past its first iteration.
LeaveInv ==
  spc = "leave" /\ entered[1] >= entered[0] =>
    \A t \in Threads : t < Trips(ssize) => size[t] = ssize /\ NextTurn(t) = t

SInv == IInv /\ ShareInv /\ LeaveInv /\ SharesCoverTheRun

-----------------------------------------------------------------------------
\* The trip counts are positive, and what the code computes from the options.
LEMMA TripsType ==
  ASSUME IInv
  PROVE  /\ \A k : Trips(k) \in Nat \ {0} /\ Runs(k).loop \in Nat /\ Runs(k).skip \in Nat
         /\ \A t \in Threads : pc[t] \in {"loop", "recv", "reply"} => Total(1) = Trips(size[t])
<1>1. ASSUME NEW k PROVE Trips(k) \in Nat \ {0} /\ Runs(k).loop \in Nat /\ Runs(k).skip \in Nat
  <2>1. Runs(k) \in [loop : Nat \ {0}, skip : Nat]
    BY RunsType DEF Runs
  <2> QED BY <2>1 DEF Trips
<1>2. \A t \in Threads : pc[t] \in {"loop", "recv", "reply"} => Total(1) = Trips(size[t])
  BY DEF IInv, ThreadOptionsInv, Total, Trips
<1> QED BY <1>1, <1>2

\* The share that iteration j belongs to.
LEMMA ShareOf ==
  ASSUME NEW j \in Nat
  PROVE  j % NumThreads \in Threads /\ j % NumThreads <= j
<1>1. NumThreads \in Nat \ {0}
  BY LatencyMTAssumption
<1> QED BY <1>1, Division DEF Threads

\* Unanswered is a finite set.
LEMMA UnansweredFinite ==
  ASSUME IInv
  PROVE  /\ IsFiniteSet(Unanswered) /\ Cardinality(Unanswered) \in Nat
         /\ Unanswered = {j \in 0 .. Trips(ssize) - 1 :
                            /\ size[j % NumThreads] = ssize
                            /\ j >= NextTurn(j % NumThreads)}
<1>1. Unanswered = {j \in 0 .. Trips(ssize) - 1 :
                      /\ size[j % NumThreads] = ssize
                      /\ j >= NextTurn(j % NumThreads)}
  BY DEF Unanswered, Trips
<1>2. Unanswered \subseteq 0 .. Trips(ssize) - 1
  BY <1>1
<1>3. IsFiniteSet(0 .. Trips(ssize) - 1)
  BY TripsType, FS_Interval
<1> QED BY <1>1, <1>2, <1>3, FS_Subset, FS_CardinalityType

\* A thread that runs its iterations works on the size the sender measures.
LEMMA SameSize ==
  ASSUME IInv, NEW t \in Threads, pc[t] \in {"loop", "recv", "reply"},
         spc \in {"send", "recv"}
  PROVE  size[t] = ssize
<1>1. \A u \in Threads : pc[u] # "barrier"
  BY DEF IInv, LeaderInv, Leading
<1>2. entered[0] \in Nat /\ entered[1] \in Nat
  BY DEF IInv, TypeOK, Ranks
<1>3. ssize = entered[0] /\ entered[0] = entered[1]
  BY <1>1, <1>2 DEF IInv, SenderInv
<1> QED BY <1>3 DEF IInv, RoundInv

\* As long as all are about to take the same iterations of the same sizes,
\* the same iterations are unanswered.
LEMMA SharesKept ==
  ASSUME IInv, size' = size, ssize' = ssize, \A u \in Threads : NextTurn(u)' = NextTurn(u)
  PROVE  Unanswered' = Unanswered
<1>1. \A j \in 0 .. Trips(ssize) - 1 : j % NumThreads \in Threads
  BY TripsType, ShareOf
<1> QED BY <1>1 DEF Unanswered, Trips

-----------------------------------------------------------------------------
\* In the barrier, and up to the reply, a thread has the same turn.
LEMMA TurnsKept ==
  ASSUME IInv, NEW t \in Threads, ThreadStep(t), ~Reply(t), ~NextSize(t)
  PROVE  /\ size' = size /\ spc' = spc /\ ssize' = ssize /\ si' = si /\ pong' = pong
         /\ \A u \in Threads : NextTurn(u)' = NextTurn(u)
         /\ EnterBarrier(t) \/ entered' = entered
<1> USE DEF ThreadStep
<1>1. size' = size /\ spc' = spc /\ ssize' = ssize /\ si' = si /\ pong' = pong
  BY DEF LockMutex, EnterBarrier, CondWait, LeaveBarrier, Broadcast, Reacquire, UnlockMutex,
     KeepOptions, SetLoop, SetSkip, Iterate, Receive, senderVars
<1>2. pc \in [Threads -> BarrierPcs \cup WorkPcs \cup {"done"}] /\ i \in [Threads -> Nat]
  BY DEF IInv, TypeOK
<1>3. ASSUME NEW u \in Threads PROVE NextTurn(u)' = NextTurn(u)
  <2>1. CASE Broadcast(t)
    BY <1>2, <2>1 DEF Broadcast, Waiting, NextTurn
  <2>2. CASE KeepOptions(t) \/ SetSkip(t)
    BY <1>2, <2>2 DEF KeepOptions, SetSkip, Goto, NextTurn
  <2>3. CASE LockMutex(t) \/ EnterBarrier(t) \/ CondWait(t) \/ LeaveBarrier(t) \/ Reacquire(t)
               \/ UnlockMutex(t)
    BY <1>2, <2>3 DEF LockMutex, EnterBarrier, CondWait, LeaveBarrier, Reacquire, UnlockMutex,
       Goto, NextTurn
  <2>4. CASE SetLoop(t) \/ Iterate(t) \/ Receive(t)
    BY <1>2, <2>4 DEF SetLoop, Iterate, Receive, Goto, NextTurn
  <2> QED BY <2>1, <2>2, <2>3, <2>4
<1>4. EnterBarrier(t) \/ entered' = entered
  BY DEF LockMutex, CondWait, LeaveBarrier, Broadcast, Reacquire, UnlockMutex,
     KeepOptions, SetLoop, SetSkip, Iterate, Receive
<1> QED BY <1>1, <1>3, <1>4

\* Entering the barrier of a size, all threads have their whole shares ahead.
LEMMA EnterBarrierLeave ==
  ASSUME SInv, NEW t \in Threads, EnterBarrier(t)
  PROVE  LeaveInv'
<1> USE DEF SInv
<1> SUFFICES ASSUME spc' = "leave", entered'[1] >= entered'[0], NEW u \in Threads
             PROVE  size'[u] = ssize' /\ NextTurn(u)' = u
  BY DEF LeaveInv
<1>1. /\ size' = size /\ ssize' = ssize /\ spc = "leave" /\ pc[t] = "holding"
      /\ entered' = [entered EXCEPT ![1] = @ + 1]
      /\ pc' = [pc EXCEPT ![t] = "barrier"] /\ pc \in [Threads -> BarrierPcs \cup WorkPcs \cup {"done"}]
  BY DEF EnterBarrier, Goto, senderVars, IInv, TypeOK
<1>2. \A v \in Threads : v # t => pc[v] = "wait"
  BY LeaderIsAlone
<1>3. entered[0] \in Nat /\ entered[1] \in Nat /\ entered'[1] = entered[1] + 1 /\ entered'[0] = entered[0]
  BY <1>1 DEF IInv, TypeOK, Ranks
<1>4. NoLeader
  BY <1>1, <1>2 DEF NoLeader, Leading
<1>5. \A v \in Threads : size[v] = entered[1] + 1
  BY <1>1, <1>2, <1>4 DEF IInv, RoundInv
<1>6. ssize = entered[0]
  BY <1>1 DEF IInv, SenderInv
<1>7. entered[1] < entered[0]
  <2> SUFFICES ASSUME entered[1] >= entered[0] PROVE FALSE
    BY <1>3
  <2>1. 0 \in Threads /\ 0 < Trips(ssize)
    BY Constants, TripsType DEF Threads
  <2>2. size[0] = ssize
    BY <1>1, <2>1 DEF LeaveInv
  <2> QED BY <1>3, <1>5, <1>6, <2>1, <2>2
<1>8. NextTurn(u)' = u
  BY <1>1, <1>2 DEF NextTurn
<1>9. entered[1] + 1 = entered[0]
  BY <1>3, <1>7
<1> QED BY <1>1, <1>5, <1>6, <1>8, <1>9

\* The steps of a thread that send no answer and do not go on to a new size.
LEMMA QuietStep ==
  ASSUME SInv, NEW t \in Threads, ThreadStep(t), ~Reply(t), ~NextSize(t)
  PROVE  ShareInv' /\ LeaveInv' /\ SharesCoverTheRun'
<1> USE DEF SInv
<1>1. /\ size' = size /\ spc' = spc /\ ssize' = ssize /\ si' = si /\ pong' = pong
      /\ \A u \in Threads : NextTurn(u)' = NextTurn(u)
      /\ EnterBarrier(t) \/ entered' = entered
  BY TurnsKept
<1>2. SharesCoverTheRun'
  <2>1. Unanswered' = Unanswered
    BY <1>1, SharesKept
  <2> QED BY <1>1, <2>1 DEF SharesCoverTheRun
<1>3. LeaveInv'
  <2>1. CASE EnterBarrier(t)
    BY <2>1, EnterBarrierLeave
  <2>2. CASE entered' = entered
    BY <1>1, <2>2 DEF LeaveInv, Trips
  <2> QED BY <1>1, <2>1, <2>2
<1>4. ShareInv'
  <2> SUFFICES ASSUME NEW u \in Threads
               PROVE  /\ pc'[u] \in {"loop", "recv", "reply"} => i'[u] % NumThreads = u
                      /\ pc'[u] \in {"recv", "reply"} => i'[u] < Trips(size[u])
    BY <1>1 DEF ShareInv, Trips
  <2>1. pc \in [Threads -> BarrierPcs \cup WorkPcs \cup {"done"}] /\ i \in [Threads -> Nat]
    BY DEF IInv, TypeOK
  <2>2. /\ pc[u] \in {"loop", "recv", "reply"} => i[u] % NumThreads = u
        /\ pc[u] \in {"recv", "reply"} => i[u] < Trips(size[u])
    BY DEF ShareInv
  <2>3. CASE Broadcast(t)
    BY <2>1, <2>2, <2>3 DEF Broadcast, Waiting
  <2>4. CASE KeepOptions(t) \/ SetSkip(t)
    <3>1. u % NumThreads = u
      <4>1. NumThreads \in Nat \ {0} /\ u \in 0 .. NumThreads - 1
        BY LatencyMTAssumption DEF Threads
      <4> QED BY <4>1, SmallRemainder
    <3> QED BY <2>1, <2>2, <2>4, <3>1 DEF KeepOptions, SetSkip, Goto
  <2>5. CASE Iterate(t)
    <3>1. pc[t] = "loop" /\ pc' = [pc EXCEPT ![t] = "recv"] /\ i' = i /\ i[t] < Total(1)
      BY <2>5 DEF Iterate, Goto
    <3>2. Total(1) = Trips(size[t])
      BY <3>1, TripsType
    <3> QED BY <2>1, <2>2, <3>1, <3>2
  <2>6. CASE Receive(t)
    BY <2>1, <2>2, <2>6 DEF Receive, Goto
  <2>7. CASE LockMutex(t) \/ EnterBarrier(t) \/ CondWait(t) \/ LeaveBarrier(t) \/ Reacquire(t)
               \/ UnlockMutex(t) \/ SetLoop(t)
    BY <2>1, <2>2, <2>7 DEF LockMutex, EnterBarrier, CondWait, LeaveBarrier, Reacquire, UnlockMutex,
       SetLoop, Goto
  <2> QED BY <2>3, <2>4, <2>5, <2>6, <2>7 DEF ThreadStep
<1> QED BY <1>2, <1>3, <1>4

\* A reply takes exactly the iteration it answers out of its share.
LEMMA ReplyStep ==
  ASSUME SInv, NEW t \in Threads, Reply(t)
  PROVE  ShareInv' /\ LeaveInv' /\ SharesCoverTheRun'
<1> USE DEF SInv
<1>1. /\ pc[t] = "reply" /\ pc' = [pc EXCEPT ![t] = "loop"]
      /\ i' = [i EXCEPT ![t] = @ + NumThreads] /\ pong' = Append(pong, size[t])
      /\ UNCHANGED <<size, entered, spc, ssize, si>>
      /\ pc \in [Threads -> BarrierPcs \cup WorkPcs \cup {"done"}] /\ i \in [Threads -> Nat]
      /\ i[t] \in Nat /\ NumThreads \in Nat \ {0}
  BY LatencyMTAssumption DEF Reply, Goto, senderVars, IInv, TypeOK
<1>2. spc = "recv" /\ pong = <<>>
  BY <1>1 DEF IInv, TokenInv
<1>3. size[t] = ssize
  BY <1>1, <1>2, SameSize
<1>4. ShareInv'
  <2>1. (i[t] + NumThreads) % NumThreads = i[t] % NumThreads
    BY <1>1, StrideRemainder
  <2>2. i'[t] % NumThreads = t /\ pc'[t] = "loop"
    BY <1>1, <2>1 DEF ShareInv
  <2>3. \A u \in Threads : u # t => i'[u] = i[u] /\ pc'[u] = pc[u] /\ size'[u] = size[u]
    BY <1>1
  <2> QED BY <2>2, <2>3 DEF ShareInv, Trips
<1>5. LeaveInv'
  BY <1>1, <1>2 DEF LeaveInv
<1>6. i[t] % NumThreads = t /\ i[t] < Trips(ssize)
  BY <1>1, <1>3 DEF ShareInv
<1>7. \A u \in Threads : u # t => NextTurn(u)' = NextTurn(u)
  BY <1>1 DEF NextTurn
<1>8. NextTurn(t) = i[t] /\ NextTurn(t)' = i[t] + NumThreads
  BY <1>1 DEF NextTurn
<1>9. Unanswered' = Unanswered \ {i[t]}
  <2>1. Unanswered' = {j \in 0 .. Trips(ssize) - 1 :
                         /\ size[j % NumThreads] = ssize
                         /\ j >= NextTurn(j % NumThreads)'}
    BY <1>1 DEF Unanswered, Trips
  <2>2. ASSUME NEW j \in 0 .. Trips(ssize) - 1
        PROVE  j >= NextTurn(j % NumThreads)' <=> j >= NextTurn(j % NumThreads) /\ j # i[t]
    <3>1. j \in Nat /\ j % NumThreads \in Threads
      BY TripsType, ShareOf
    <3>2. CASE j % NumThreads # t
      BY <1>6, <1>7, <3>1, <3>2
    <3>3. CASE j % NumThreads = t
      <4>1. i[t] <= j /\ j < i[t] + NumThreads => i[t] = j
        BY <1>1, <1>6, <3>1, <3>3, SameRemainder
      <4> QED BY <1>1, <1>8, <3>1, <3>3, <4>1
    <3> QED BY <3>2, <3>3
  <2> QED BY <2>1, <2>2, UnansweredFinite
<1>10. i[t] \in Unanswered
  <2>1. i[t] \in 0 .. Trips(ssize) - 1
    BY <1>1, <1>6, TripsType
  <2> QED BY <1>1, <1>3, <1>6, <1>8, <2>1, UnansweredFinite
<1>11. Cardinality(Unanswered') = Cardinality(Unanswered) - 1
  BY <1>9, <1>10, UnansweredFinite, FS_RemoveElement
<1>12. Len(pong) = 0 /\ Len(pong') = 1
  BY <1>1, <1>2
<1>13. SharesCoverTheRun'
  <2> DEFINE loop == Runs(ssize).loop
             skip == Runs(ssize).skip
  <2>1. Cardinality(Unanswered) + Len(pong) = loop + skip - si
    BY <1>2 DEF SharesCoverTheRun
  <2>2. si \in Nat /\ loop \in Nat /\ skip \in Nat /\ Cardinality(Unanswered) \in Nat
    BY UnansweredFinite, TripsType DEF IInv, TypeOK
  <2>3. Cardinality(Unanswered') + Len(pong') = loop + skip - si
    <3> HIDE DEF SInv, loop, skip
    <3> QED BY <1>11, <1>12, <2>1, <2>2
  <2>4. Cardinality(Unanswered') + Len(pong') = Runs(ssize').loop + Runs(ssize').skip - si'
    BY <1>1, <2>3
  <2> QED BY <2>4 DEF SharesCoverTheRun, Runs, Large
<1> QED BY <1>4, <1>5, <1>13

\* A thread goes on to the next size only when its share is empty.
LEMMA NextSizeStep ==
  ASSUME SInv, NEW t \in Threads, NextSize(t)
  PROVE  ShareInv' /\ LeaveInv' /\ SharesCoverTheRun'
<1> USE DEF SInv
<1>1. /\ pc[t] = "loop" /\ pc' = [pc EXCEPT ![t] = IF size[t] = NumSizes THEN "done" ELSE "lock"]
      /\ size' = [size EXCEPT ![t] = IF @ = NumSizes THEN @ ELSE @ + 1] /\ i[t] >= Total(1)
      /\ UNCHANGED <<i, pong, entered, spc, ssize, si>>
      /\ pc \in [Threads -> BarrierPcs \cup WorkPcs \cup {"done"}] /\ i \in [Threads -> Nat]
      /\ size \in [Threads -> 1 .. NumSizes] /\ i[t] \in Nat /\ size[t] \in Int
  BY DEF NextSize, Goto, senderVars, IInv, TypeOK
<1>2. i[t] >= Trips(size[t])
  BY <1>1, TripsType
<1>3. \A u \in Threads : u # t => pc'[u] = pc[u] /\ size'[u] = size[u] /\ NextTurn(u)' = NextTurn(u)
  BY <1>1 DEF NextTurn
<1>4. ShareInv'
  BY <1>1, <1>3 DEF ShareInv, Trips
<1>5. LeaveInv'
  <2> SUFFICES ASSUME spc = "leave", entered[1] >= entered[0], NEW u \in Threads, u < Trips(ssize)
               PROVE  u # t
    BY <1>1, <1>3 DEF LeaveInv, Trips
  <2>1. size[u] = ssize /\ NextTurn(u) = u
    BY DEF LeaveInv
  <2>2. u \in Nat
    BY Constants
  <2> QED BY <1>1, <1>2, <2>1, <2>2, TripsType DEF NextTurn
<1>6. ASSUME spc \in {"send", "recv"} PROVE Unanswered' = Unanswered
  <2>1. size[t] = ssize
    BY <1>1, <1>6, SameSize
  <2>2. size'[t] # ssize \/ NextTurn(t)' = i[t]
    BY <1>1, <2>1 DEF NextTurn
  <2>3. \A j \in 0 .. Trips(ssize) - 1 : j \in Nat /\ j % NumThreads \in Threads /\ j < Trips(ssize)
    BY TripsType, ShareOf
  <2>4. \A j \in 0 .. Trips(ssize) - 1 : ~(j >= i[t])
    BY <1>1, <1>2, <2>1, TripsType
  <2>5. NextTurn(t) = i[t]
    BY <1>1 DEF NextTurn
  <2>6. Unanswered' = {j \in 0 .. Trips(ssize) - 1 :
                         /\ size'[j % NumThreads] = ssize
                         /\ j >= NextTurn(j % NumThreads)'}
    BY <1>1 DEF Unanswered, Trips
  <2>7. ASSUME NEW j \in 0 .. Trips(ssize) - 1
        PROVE  (size'[j % NumThreads] = ssize /\ j >= NextTurn(j % NumThreads)') <=>
               (size[j % NumThreads] = ssize /\ j >= NextTurn(j % NumThreads))
    BY <1>3, <2>2, <2>3, <2>4, <2>5
  <2> QED BY <2>6, <2>7, UnansweredFinite
<1>7. SharesCoverTheRun'
  BY <1>1, <1>6 DEF SharesCoverTheRun
<1> QED BY <1>4, <1>5, <1>7

-----------------------------------------------------------------------------
\* When the sender leaves the barrier, all iterations of the size are ahead.
LEMMA SenderLeaveStep ==
  ASSUME SInv, SenderLeave
  PROVE  ShareInv' /\ LeaveInv' /\ SharesCoverTheRun'
<1> USE DEF SInv
<1>1. /\ spc = "leave" /\ spc' = "send" /\ entered[1] >= entered[0] /\ si' = 0
      /\ UNCHANGED <<pc, size, i, entered, pong, ssize>>
  BY DEF SenderLeave, threadVars
<1>2. ShareInv' /\ LeaveInv'
  BY <1>1 DEF ShareInv, LeaveInv, Trips
<1>3. Unanswered' = 0 .. Trips(ssize) - 1
  <2>1. ASSUME NEW j \in 0 .. Trips(ssize) - 1
        PROVE  size[j % NumThreads] = ssize /\ j >= NextTurn(j % NumThreads)
    <3>1. j \in Nat /\ j % NumThreads \in Threads /\ j % NumThreads <= j /\ j < Trips(ssize)
      BY TripsType, ShareOf
    <3>2. j % NumThreads < Trips(ssize)
      BY <3>1, TripsType, Constants
    <3> QED BY <1>1, <3>1, <3>2 DEF LeaveInv
  <2>2. Unanswered = 0 .. Trips(ssize) - 1
    BY <2>1, UnansweredFinite
  <2>3. \A u \in Threads : NextTurn(u)' = NextTurn(u)
    BY <1>1 DEF NextTurn
  <2> QED BY <1>1, <2>2, <2>3, SharesKept
<1>4. Cardinality(Unanswered') = Trips(ssize) /\ pong' = <<>>
  <2>1. Cardinality(0 .. Trips(ssize) - 1) = Trips(ssize)
    BY TripsType, FS_Interval
  <2> QED BY <1>1, <1>3, <2>1 DEF IInv, TokenInv
<1>5. SharesCoverTheRun'
  <2>1. Cardinality(Unanswered') + Len(pong') = Runs(ssize).loop + Runs(ssize).skip - 0
    BY <1>4, TripsType DEF Trips
  <2>2. Cardinality(Unanswered') + Len(pong') = Runs(ssize').loop + Runs(ssize').skip - si'
    BY <1>1, <2>1
  <2> QED BY <2>2 DEF SharesCoverTheRun, Runs, Large
<1> QED BY <1>2, <1>5

\* The other steps of the sender: an answer it takes is one less to come.
LEMMA SenderOtherStep ==
  ASSUME SInv, SenderEnter \/ SenderSend \/ SenderReceive \/ SenderNextSize
  PROVE  ShareInv' /\ LeaveInv' /\ SharesCoverTheRun'
<1> USE DEF SInv
<1>1. UNCHANGED <<pc, size, i>>
  BY DEF SenderEnter, SenderSend, SenderReceive, SenderNextSize, threadVars
<1>2. ShareInv'
  BY <1>1 DEF ShareInv, Trips
<1>3. \A u \in Threads : NextTurn(u)' = NextTurn(u)
  BY <1>1 DEF NextTurn
<1>4. LeaveInv'
  <2>1. CASE ~SenderEnter
    BY <2>1 DEF SenderSend, SenderReceive, SenderNextSize, LeaveInv
  <2>2. CASE SenderEnter
    <3>1. /\ spc = "enter" /\ ssize' = ssize /\ entered' = [entered EXCEPT ![0] = @ + 1]
          /\ entered[0] \in Nat /\ entered[1] \in Nat
          /\ entered'[0] = entered[0] + 1 /\ entered'[1] = entered[1]
      BY <2>2 DEF SenderEnter, IInv, TypeOK, Ranks
    <3> SUFFICES ASSUME entered[1] >= entered[0] + 1, NEW u \in Threads
                 PROVE  size[u] = ssize /\ NextTurn(u) = u
      BY <1>1, <1>3, <3>1 DEF LeaveInv
    <3>2. PICK t \in Threads : pc[t] = "barrier"
      BY <3>1 DEF IInv, SenderInv
    <3>3. pc[u] = "wait" \/ pc[u] = "barrier"
      BY <3>2 DEF IInv, LeaderInv, Leading
    <3>4. ssize = entered[0] + 1 /\ entered[1] = entered[0] + 1
      BY <3>1 DEF IInv, SenderInv
    <3>5. size[u] = entered[1]
      BY <3>2, <3>3 DEF IInv, RoundInv, NoLeader, Leading
    <3> QED BY <3>3, <3>4, <3>5 DEF NextTurn
  <2> QED BY <2>1, <2>2
<1>5. SharesCoverTheRun'
  <2>1. CASE SenderEnter \/ SenderNextSize
    BY <2>1 DEF SenderEnter, SenderNextSize, SharesCoverTheRun
  <2>2. CASE SenderSend
    <3>1. /\ spc = "send" /\ UNCHANGED <<size, ssize, si, pong>>
      BY <2>2 DEF SenderSend, threadVars
    <3>2. Unanswered' = Unanswered
      BY <1>3, <3>1, SharesKept
    <3> QED BY <3>1, <3>2 DEF SharesCoverTheRun
  <2>3. CASE SenderReceive
    <3>1. /\ spc = "recv" /\ pong # <<>> /\ pong' = Tail(pong) /\ si' = si + 1
          /\ UNCHANGED <<size, ssize>>
      BY <2>3 DEF SenderReceive, threadVars
    <3>2. Unanswered' = Unanswered
      BY <1>3, <3>1, SharesKept
    <3>3. Len(pong) = 1 /\ Len(pong') = 0
      BY <3>1 DEF IInv, TokenInv
    <3> DEFINE loop == Runs(ssize).loop
               skip == Runs(ssize).skip
    <3>4. Cardinality(Unanswered) + Len(pong) = loop + skip - si
      BY <3>1 DEF SharesCoverTheRun
    <3>5. si \in Nat /\ loop \in Nat /\ skip \in Nat /\ Cardinality(Unanswered) \in Nat
      BY UnansweredFinite, TripsType DEF IInv, TypeOK
    <3>6. Cardinality(Unanswered) + Len(pong') = loop + skip - (si + 1)
      <4> HIDE DEF SInv, loop, skip
      <4> QED BY <3>3, <3>4, <3>5
    <3>7. Cardinality(Unanswered') + Len(pong') = Runs(ssize').loop + Runs(ssize').skip - si'
      BY <3>1, <3>2, <3>6
    <3> QED BY <3>7 DEF SharesCoverTheRun, Runs, Large
  <2> QED BY <2>1, <2>2, <2>3
<1> QED BY <1>2, <1>4, <1>5

-----------------------------------------------------------------------------
\* The inductive invariant, and that it holds initially.
LEMMA InitShares == Init => SInv
<1> SUFFICES ASSUME Init PROVE SInv
  OBVIOUS
<1>1. ShareInv /\ LeaveInv /\ SharesCoverTheRun
  BY DEF Init, ShareInv, LeaveInv, SharesCoverTheRun
<1> QED BY <1>1, InitIInv DEF SInv

-----------------------------------------------------------------------------
\* Threads keep to their shares, and the shares of osu_latency_mt.c add up,
\* in every reachable state.
THEOREM ShareInvariance == Safety => []SInv
<1>1. SInv /\ [Next]_vars => SInv'
  <2> SUFFICES ASSUME SInv, [Next]_vars PROVE SInv'
    OBVIOUS
  <2>1. IInv'
    BY IInvStep DEF SInv
  <2>2. ASSUME NEW t \in Threads, ThreadStep(t) PROVE SInv'
    BY <2>1, <2>2, QuietStep, ReplyStep, NextSizeStep DEF SInv
  <2>3. CASE SenderStep
    BY <2>1, <2>3, SenderLeaveStep, SenderOtherStep DEF SInv, SenderStep
  <2>4. CASE UNCHANGED vars
    <3>1. UNCHANGED <<pc, size, i, entered, pong, spc, ssize, si>>
      BY <2>4 DEF vars
    <3>2. \A u \in Threads : NextTurn(u)' = NextTurn(u)
      BY <3>1 DEF NextTurn
    <3>3. Unanswered' = Unanswered
      BY <3>1, <3>2, SharesKept DEF SInv
    <3> QED BY <2>1, <3>1, <3>2, <3>3 DEF SInv, ShareInv, LeaveInv, SharesCoverTheRun, Trips
  <2> QED BY <2>2, <2>3, <2>4 DEF Next, Joined
<1> QED BY <1>1, InitShares, PTL DEF Safety

(***************************************************************************)
(* Every iteration that the sender of osu_latency_mt.c still waits for an  *)
(* answer to lies ahead of exactly one receiving thread, and there are as  *)
(* many of them as the sender has trips to go - for any number of threads, *)
(* also when it does not divide the number of iterations.                  *)
(***************************************************************************)
THEOREM SharesTheorem == Safety => []SharesCoverTheRun
<1>1. SInv => SharesCoverTheRun
  BY DEF SInv
<1> QED BY <1>1, ShareInvariance, PTL
=============================================================================
