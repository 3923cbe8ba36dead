------------------------------ MODULE LatencyMT ------------------------------
(***************************************************************************)
(* osu_latency_mt.c: one sending thread on rank 0 plays ping-pong with     *)
(* NumThreads receiving threads on rank 1.  Before each message size the   *)
(* receiving threads meet in a barrier made of finished_size, a mutex and  *)
(* a condition variable; the last thread to arrive represents rank 1 in    *)
(* the MPI_Barrier with rank 0 and then wakes the others.                  *)
(*                                                                         *)
(* A message size is represented by its number k in the series 0, 1, 2,    *)
(* 4, ... of the size loop, counted from 1.  Payloads are not modelled:    *)
(* a message is the number of its size.                                    *)
(***************************************************************************)
EXTENDS Integers, FiniteSets, Sequences

CONSTANTS NumThreads,  \* options.num_threads (-t)
          NumSizes,    \* how many sizes the size loop visits
          LastSmall,   \* the last size that is not > LARGE_MESSAGE_SIZE
          SmallRuns,   \* options.loop and options.skip
          LargeRuns    \* options.loop_large and options.skip_large

ASSUME LatencyMTAssumption ==
  /\ NumThreads \in Nat \ {0}
  /\ NumSizes \in Nat \ {0}
  /\ LastSmall \in Nat
  /\ SmallRuns \in [loop : Nat \ {0}, skip : Nat]
  /\ LargeRuns \in [loop : Nat \ {0}, skip : Nat]

Threads == 0 .. NumThreads - 1
Ranks   == {0, 1}
NoOne   == -1

VARIABLES
  pc,             \* pc[t]: where receiving thread t is
  size,           \* size[t]: the size thread t is working on
  i,              \* i[t]: the iteration thread t is working on
  finished_size,  \* the shared arrival counter of rank 1
  mutex,          \* the holder of finished_size_mutex, or NoOne
  options,        \* options[r]: loop and skip as rank r has them now
  entered,        \* entered[r]: how many MPI_Barriers rank r has entered
  ping,           \* messages from rank 0 to rank 1 (tag 1)
  pong,           \* messages from rank 1 to rank 0 (tag 2)
  spc, ssize, si  \* pc, size and i of the sending thread

threadVars == <<pc, size, i, finished_size, mutex>>
senderVars == <<spc, ssize, si>>
vars == <<pc, size, i, finished_size, mutex, options, entered, ping, pong,
          spc, ssize, si>>

-----------------------------------------------------------------------------
Large(k) == k > LastSmall

\* The trip count of the iteration loops of rank r.
Total(r) == options[r].loop + options[r].skip

Goto(t, from, to) == pc[t] = from /\ pc' = [pc EXCEPT ![t] = to]

Lock(t)   == mutex = NoOne /\ mutex' = t
Unlock(t) == mutex = t /\ mutex' = NoOne

Waiting == {t \in Threads : pc[t] = "wait"}

-----------------------------------------------------------------------------
Init == /\ pc = [t \in Threads |-> "lock"]
        /\ size = [t \in Threads |-> 1]
        /\ i = [t \in Threads |-> 0]
        /\ finished_size = 1
        /\ mutex = NoOne
        /\ options = [r \in Ranks |-> SmallRuns]
        /\ entered = [r \in Ranks |-> 0]
        /\ ping = <<>>
        /\ pong = <<>>
        /\ spc = "enter" /\ ssize = 1 /\ si = 0

(***************************************************************************)
(* recv_thread: the barrier of the receiving threads.                      *)
(***************************************************************************)
LockMutex(t) ==
  /\ Goto(t, "lock", "holding")
  /\ Lock(t)
  /\ UNCHANGED <<size, i, finished_size, options, entered, ping, pong, senderVars>>

\* The last thread enters the MPI_Barrier with the mutex held.
EnterBarrier(t) ==
  /\ finished_size = NumThreads
  /\ Goto(t, "holding", "barrier")
  /\ entered' = [entered EXCEPT ![1] = @ + 1]
  /\ UNCHANGED <<size, i, finished_size, mutex, options, ping, pong, senderVars>>

\* Mutant: the others count themselves and go on.
CondWaitNot(t) ==
  /\ finished_size # NumThreads
  /\ Goto(t, "holding", "unlock")
  /\ finished_size' = finished_size + 1
  /\ UNCHANGED <<size, i, mutex, options, entered, ping, pong, senderVars>>

\* The others count themselves and wait; the wait releases the mutex.
CondWait(t) ==
  /\ finished_size # NumThreads
  /\ Goto(t, "holding", "wait")
  /\ finished_size' = finished_size + 1
  /\ Unlock(t)
  /\ UNCHANGED <<size, i, options, entered, ping, pong, senderVars>>

\* Mutant: no MPI_Barrier with rank 0.
LeaveBarrierAlone(t) ==
  /\ Goto(t, "barrier", "broadcast")
  /\ finished_size' = 1
  /\ Unlock(t)
  /\ UNCHANGED <<size, i, options, entered, ping, pong, senderVars>>

LeaveBarrier(t) ==
  /\ entered[0] >= entered[1]
  /\ Goto(t, "barrier", "broadcast")
  /\ finished_size' = 1
  /\ Unlock(t)
  /\ UNCHANGED <<size, i, options, entered, ping, pong, senderVars>>

\* Mutant: pthread_cond_signal, which wakes one thread.
BroadcastToOne(t) ==
  /\ pc[t] = "broadcast"
  /\ \E woken \in SUBSET Waiting :
       /\ Cardinality(woken) <= 1 /\ (woken = {} => Waiting = {})
       /\ pc' = [u \in Threads |-> IF u = t THEN "options"
                                   ELSE IF u \in woken THEN "woken" ELSE pc[u]]
  /\ UNCHANGED <<size, i, finished_size, mutex, options, entered, ping, pong, senderVars>>

\* pthread_cond_broadcast, after the mutex has been released.
Broadcast(t) ==
  /\ pc[t] = "broadcast"
  /\ pc' = [u \in Threads |-> IF u = t THEN "options"
                              ELSE IF u \in Waiting THEN "woken"
                              ELSE pc[u]]
  /\ UNCHANGED <<size, i, finished_size, mutex, options, entered, ping, pong, senderVars>>

\* pthread_cond_wait takes the mutex again before it returns ...
Reacquire(t) ==
  /\ Goto(t, "woken", "unlock")
  /\ Lock(t)
  /\ UNCHANGED <<size, i, finished_size, options, entered, ping, pong, senderVars>>

\* ... and the thread goes on without looking at finished_size.
UnlockMutex(t) ==
  /\ Goto(t, "unlock", "options")
  /\ Unlock(t)
  /\ UNCHANGED <<size, i, finished_size, options, entered, ping, pong, senderVars>>

(***************************************************************************)
(* recv_thread: the switch to the options for large messages.  Every       *)
(* thread writes the shared options, one field after the other and         *)
(* without the mutex.                                                      *)
(***************************************************************************)
KeepOptions(t) ==
  /\ ~Large(size[t])
  /\ Goto(t, "options", "loop")
  /\ i' = [i EXCEPT ![t] = t]
  /\ UNCHANGED <<size, finished_size, mutex, options, entered, ping, pong, senderVars>>

SetLoop(t) ==
  /\ Large(size[t])
  /\ Goto(t, "options", "setskip")
  /\ options' = [options EXCEPT ![1].loop = LargeRuns.loop]
  /\ UNCHANGED <<size, i, finished_size, mutex, entered, ping, pong, senderVars>>

\* Mutant: the skip count of the small sizes is kept.
SetSkipForgotten(t) ==
  /\ Goto(t, "setskip", "loop")
  /\ i' = [i EXCEPT ![t] = t]
  /\ UNCHANGED <<size, finished_size, mutex, options, entered, ping, pong, senderVars>>

SetSkip(t) ==
  /\ Goto(t, "setskip", "loop")
  /\ options' = [options EXCEPT ![1].skip = LargeRuns.skip]
  /\ i' = [i EXCEPT ![t] = t]
  /\ UNCHANGED <<size, finished_size, mutex, entered, ping, pong, senderVars>>

(***************************************************************************)
(* recv_thread: its share of the iterations, val, val + num_threads, ...   *)
(***************************************************************************)
Iterate(t) ==
  /\ i[t] < Total(1)
  /\ Goto(t, "loop", "recv")
  /\ UNCHANGED <<size, i, finished_size, mutex, options, entered, ping, pong, senderVars>>

Receive(t) ==
  /\ ping # <<>>
  /\ Goto(t, "recv", "reply")
  /\ ping' = Tail(ping)
  /\ UNCHANGED <<size, i, finished_size, mutex, options, entered, pong, senderVars>>

\* Mutant: the stride is one too long.
ReplyLongStride(t) ==
  /\ Goto(t, "reply", "loop")
  /\ pong' = Append(pong, size[t])
  /\ i' = [i EXCEPT ![t] = @ + NumThreads + 1]
  /\ UNCHANGED <<size, finished_size, mutex, options, entered, ping, senderVars>>

Reply(t) ==
  /\ Goto(t, "reply", "loop")
  /\ pong' = Append(pong, size[t])
  /\ i' = [i EXCEPT ![t] = @ + NumThreads]
  /\ UNCHANGED <<size, finished_size, mutex, options, entered, ping, senderVars>>

NextSize(t) ==
  /\ i[t] >= Total(1)
  /\ Goto(t, "loop", IF size[t] = NumSizes THEN "done" ELSE "lock")
  /\ size' = [size EXCEPT ![t] = IF @ = NumSizes THEN @ ELSE @ + 1]
  /\ UNCHANGED <<i, finished_size, mutex, options, entered, ping, pong, senderVars>>

(***************************************************************************)
(* send_thread.                                                            *)
(***************************************************************************)
SenderEnter ==
  /\ spc = "enter" /\ spc' = "leave"
  /\ entered' = [entered EXCEPT ![0] = @ + 1]
  /\ UNCHANGED <<threadVars, options, ping, pong, ssize, si>>

SenderLeave ==
  /\ spc = "leave" /\ spc' = "send"
  /\ entered[1] >= entered[0]
  /\ options' = [options EXCEPT ![0] = IF Large(ssize) THEN LargeRuns ELSE @]
  /\ si' = 0
  /\ UNCHANGED <<threadVars, entered, ping, pong, ssize>>

SenderSend ==
  /\ spc = "send" /\ spc' = "recv"
  /\ si < Total(0)
  /\ ping' = Append(ping, ssize)
  /\ UNCHANGED <<threadVars, options, entered, pong, ssize, si>>

SenderReceive ==
  /\ spc = "recv" /\ spc' = "send"
  /\ pong # <<>>
  /\ pong' = Tail(pong)
  /\ si' = si + 1
  /\ UNCHANGED <<threadVars, options, entered, ping, ssize>>

SenderNextSize ==
  /\ spc = "send"
  /\ si >= Total(0)
  /\ spc' = IF ssize = NumSizes THEN "done" ELSE "enter"
  /\ ssize' = IF ssize = NumSizes THEN ssize ELSE ssize + 1
  /\ UNCHANGED <<threadVars, options, entered, ping, pong, si>>

-----------------------------------------------------------------------------
ThreadStep(t) ==
  \/ LockMutex(t)
  \/ EnterBarrier(t)
  \/ CondWait(t)
  \/ LeaveBarrier(t)
  \/ Broadcast(t)
  \/ Reacquire(t)
  \/ UnlockMutex(t)
  \/ KeepOptions(t)
  \/ SetLoop(t)
  \/ SetSkip(t)
  \/ Iterate(t)
  \/ Receive(t)
  \/ Reply(t)
  \/ NextSize(t)

SenderStep ==
  \/ SenderEnter
  \/ SenderLeave
  \/ SenderSend
  \/ SenderReceive
  \/ SenderNextSize

AllDone == spc = "done" /\ \A t \in Threads : pc[t] = "done"

\* The mains have joined their threads and finalized MPI.
Joined == AllDone /\ UNCHANGED vars

Next == (\E t \in Threads : ThreadStep(t)) \/ SenderStep \/ Joined

Safety == Init /\ [][Next]_vars

Fairness == (\A t \in Threads : WF_vars(ThreadStep(t))) /\ WF_vars(SenderStep)

Spec == Safety /\ Fairness

(***************************************************************************)
(* POSIX lets pthread_cond_wait return without a broadcast.  The code has  *)
(* no loop around the wait, so such a thread leaves the barrier.           *)
(***************************************************************************)
SpuriousWakeup(t) ==
  /\ Goto(t, "wait", "woken")
  /\ UNCHANGED <<size, i, finished_size, mutex, options, entered, ping, pong, senderVars>>

SpuriousSpec ==
  Init /\ [][Next \/ \E t \in Threads : SpuriousWakeup(t)]_vars

-----------------------------------------------------------------------------
BarrierPcs == {"lock", "holding", "wait", "barrier", "broadcast", "woken", "unlock"}
WorkPcs    == {"options", "setskip", "loop", "recv", "reply"}

TypeOK ==
  /\ pc \in [Threads -> BarrierPcs \cup WorkPcs \cup {"done"}]
  /\ size \in [Threads -> 1..NumSizes]
  /\ i \in [Threads -> Nat]
  /\ finished_size \in 1..NumThreads
  /\ mutex \in Threads \cup {NoOne}
  /\ options \in [Ranks -> [loop : Nat \ {0}, skip : Nat]]
  /\ entered \in [Ranks -> 0..NumSizes]
  /\ ping \in Seq(1..NumSizes)
  /\ pong \in Seq(1..NumSizes)
  /\ spc \in {"enter", "leave", "send", "recv", "done"}
  /\ ssize \in 1..NumSizes
  /\ si \in Nat

(***************************************************************************)
(* README, osu_latency_mt: each thread calls MPI_Recv and upon receiving a *)
(* message sends back a response of equal size.  So the message a thread   *)
(* can take has the size the thread has posted its receive for, and the    *)
(* answer the sender can take has the size the sender is measuring.        *)
(***************************************************************************)
EqualSize ==
  /\ \A t \in Threads : pc[t] = "recv" /\ ping # <<>> => Head(ping) = size[t]
  /\ spc = "recv" /\ pong # <<>> => Head(pong) = ssize

(***************************************************************************)
(* The options every thread writes and reads without the mutex: while a    *)
(* thread runs its iterations it sees the trip count meant for its size,   *)
(* and the sending process, which has its own copy, runs the same count.   *)
(***************************************************************************)
Runs(k) == IF Large(k) THEN LargeRuns ELSE SmallRuns

TripCountAgreed ==
  /\ \A t \in Threads :
       pc[t] \in {"loop", "recv", "reply"} => options[1] = Runs(size[t])
  /\ spc \in {"send", "recv"} => options[0] = Runs(ssize)

(***************************************************************************)
(* The iterations of one size are shared out: every iteration the sender   *)
(* has not seen an answer to is still in exactly one thread's share.  A    *)
(* thread that started elsewhere or strode further than num_threads would  *)
(* leave the sender waiting for an answer nobody sends.                    *)
(***************************************************************************)
NextTurn(t) == IF pc[t] \in {"loop", "recv", "reply", "done"} THEN i[t] ELSE t

Unanswered ==
  LET total == Runs(ssize).loop + Runs(ssize).skip IN
  {j \in 0 .. total - 1 :
     LET t == j % NumThreads IN size[t] = ssize /\ j >= NextTurn(t)}

SharesCoverTheRun ==
  spc \in {"send", "recv"} =>
    Cardinality(Unanswered) + Len(pong) =
      Runs(ssize).loop + Runs(ssize).skip - si

(***************************************************************************)
(* The threads of rank 1 and the sender implement the abstract barrier:    *)
(* a thread arrives when it waits on the condition variable or enters the  *)
(* MPI_Barrier, and it passes when it returns from either.  This is what   *)
(* the reuse of one counter, one condition variable and one MPI_Barrier    *)
(* for all the sizes has to guarantee.                                     *)
(***************************************************************************)
Sender  == NumThreads
Parties == 0 .. NumThreads

arrivedBar == [p \in Parties |->
  IF p = Sender THEN entered[0]
  ELSE IF pc[p] \in {"lock", "holding"} THEN size[p] - 1 ELSE size[p]]

passedBar == [p \in Parties |->
  IF p = Sender THEN IF spc = "leave" THEN entered[0] - 1 ELSE entered[0]
  ELSE IF pc[p] \in {"lock", "holding", "wait", "barrier", "woken"}
       THEN size[p] - 1 ELSE size[p]]

RB == INSTANCE RoundBarrier WITH LastRound <- NumSizes,
                                 arrived <- arrivedBar, passed <- passedBar

ImplementsBarrier == RB!Spec

(***************************************************************************)
(* The inductive invariant behind EqualSize, TripCountAgreed and           *)
(* ImplementsBarrier.  entered[1] is the round rank 1 is in: it counts the *)
(* MPI_Barriers a leader has entered.                                      *)
(***************************************************************************)
Leading(t) == pc[t] \in {"barrier", "broadcast"}
NoLeader   == \A t \in Threads : ~Leading(t)

MutexInv == \A t \in Threads :
              mutex = t <=> pc[t] \in {"holding", "barrier", "unlock"}

\* Whoever leads is the only thread that is not waiting.
LeaderInv == \A t, u \in Threads : Leading(t) /\ u # t => pc[u] = "wait"

CountInv == /\ NoLeader => finished_size = 1 + Cardinality(Waiting)
            /\ \A t \in Threads : pc[t] = "broadcast" => finished_size = 1

\* A thread is one round ahead of rank 1 from taking the mutex until some
\* thread leads it into the MPI_Barrier, and in the round of rank 1 otherwise.
RoundInv == \A t \in Threads :
  size[t] = IF pc[t] \in {"lock", "holding"} \/ (pc[t] = "wait" /\ NoLeader)
            THEN entered[1] + 1 ELSE entered[1]

SenderInv ==
  /\ ssize = IF spc = "enter" THEN entered[0] + 1 ELSE entered[0]
  /\ entered[1] >= IF spc = "leave" THEN entered[0] - 1 ELSE entered[0]
  /\ \/ entered[0] >= entered[1]
     \/ entered[0] + 1 = entered[1] /\ \E t \in Threads : pc[t] = "barrier"

\* One token goes around: it is with the sender, in ping, with one thread
\* that has not replied yet, or in pong.
TokenInv ==
  LET Idle == \A t \in Threads : pc[t] # "reply" IN
  \/ spc # "recv" /\ ping = <<>> /\ pong = <<>> /\ Idle
  \/ spc = "recv" /\ ping = <<ssize>> /\ pong = <<>> /\ Idle
  \/ spc = "recv" /\ ping = <<>> /\ pong = <<ssize>> /\ Idle
  \/ /\ spc = "recv" /\ ping = <<>> /\ pong = <<>>
     /\ \E t \in Threads : \A u \in Threads : pc[u] = "reply" <=> u = t

ThreadOptionsInv ==
  /\ ~Large(entered[1]) => options[1] = SmallRuns
  /\ \A t \in Threads :
       /\ pc[t] = "setskip" => Large(size[t]) /\ options[1].loop = LargeRuns.loop
       /\ pc[t] \in {"loop", "recv", "reply"} => options[1] = Runs(size[t])

SenderOptionsInv ==
  options[0] = Runs(IF spc \in {"enter", "leave"} THEN ssize - 1 ELSE ssize)

IInv == /\ TypeOK
        /\ MutexInv
        /\ LeaderInv
        /\ CountInv
        /\ RoundInv
        /\ SenderInv
        /\ TokenInv
        /\ ThreadOptionsInv
        /\ SenderOptionsInv

(***************************************************************************)
(* Both mains get past their joins: no thread misses its wake-up, and no   *)
(* ping or pong is left without a partner.                                 *)
(***************************************************************************)
Termination == <>AllDone
=============================================================================
