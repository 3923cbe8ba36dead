------------------------------- MODULE OmbRun -------------------------------
(***************************************************************************)
(* A run of one of the OSU micro-benchmarks, written down in the words of  *)
(* OmbOps, by all its processes.                                           *)
(*                                                                         *)
(* The benchmarks do nothing but call MPI in a certain order and read the  *)
(* clock in between.  This module has the frame they share - the size      *)
(* loop, the iteration loops, the switch of the options, the timer - and   *)
(* of MPI what they rely on: messages between two processes are matched in *)
(* the order they were sent and received, a standard send may or may not   *)
(* wait for its receive (eager), a collective releases a process once the  *)
(* processes whose contribution it needs have called it.                   *)
(***************************************************************************)
EXTENDS OmbOps, FiniteSetsExt

CONSTANT Benchmarks  \* the benchmarks of the run, a sequence

VARIABLES
  benchmark, \* the benchmark that runs
  po_ret,   \* what process_options returned, the same on every rank
  eager,    \* do standard sends complete before they are received?
  at,       \* at[r]: the statement rank r is about to execute
  inside,   \* inside[r]: is rank r in a blocking collective?
  options,  \* options[r]: loop and skip as rank r has them now
  clock,    \* clock[r]: how many measured calls rank r has finished
  t_start,  \* t_start[r]: clock[r] as last read into t_start
  timer,    \* timer[r]: the measured calls the accumulated time covers
  sends,    \* sends[r]: what rank r has sent and nobody received yet
  recvs,    \* recvs[r]: the receives of rank r without a message yet
  called,   \* called[r]: how many collectives rank r has called
  journal,  \* journal[n]: the n-th collective, as its first caller called it
  request   \* request[r]: the active nonblocking collective of r, or 0

launch    == <<benchmark, po_ret, eager>>
timing    == <<clock, t_start, timer>>
messages  == <<sends, recvs>>
gathering == <<called, journal, request>>
vars == <<at, inside, options, timing, messages, gathering, launch>>

-----------------------------------------------------------------------------
Ranks   == 0 .. benchmark.np - 1
Closing == benchmark.sizes + 1
Over    == [size |-> Closing + 1, seg |-> 0, iter |-> 0, pos |-> 0]

\* The sections of size k; size 0 is the start-up, Closing the clean-up.
Code(r, k) == IF k = 0 THEN <<Once(<<Check>> \o benchmark.start)>>
              ELSE IF k = Closing THEN <<Once(benchmark.finish \o <<Finalize>>)>>
              ELSE benchmark.body[k][r + 1]

Section(r) == Code(r, at[r].size)[at[r].seg]

Running(r) == at[r] # Over
Op(r)      == Section(r).ops[at[r].pos]
At(r, op)  == Running(r) /\ Op(r).op = op

Trips(o) == o.loop + o.skip

\* The statements of a section that are executed in iteration i.
Due(section, i, o) ==
  {p \in DOMAIN section.ops : section.ops[p].at_skip => i = o.skip}

\* Mutant: the iteration loops run once too often.
FollowingTooFar(r, o) ==
  LET a == at[r]
      rest == {p \in Due(Section(r), a.iter, o) : p > a.pos}
      Begin(k, s, i) == [size |-> k, seg |-> s, iter |-> i,
                         pos |-> Min(Due(Code(r, k)[s], i, o))]
  IN  IF rest # {} THEN [a EXCEPT !.pos = Min(rest)]
      ELSE IF Section(r).loop /\ a.iter + 1 <= Trips(o)
           THEN Begin(a.size, a.seg, a.iter + 1)
      ELSE IF a.seg < Len(Code(r, a.size)) THEN Begin(a.size, a.seg + 1, 0)
      ELSE IF a.size < Closing THEN Begin(a.size + 1, 1, 0)
      ELSE Over

\* Where rank r goes from where it is when its options are o.
Following(r, o) ==
  LET a == at[r]
      rest == {p \in Due(Section(r), a.iter, o) : p > a.pos}
      Begin(k, s, i) == [size |-> k, seg |-> s, iter |-> i,
                         pos |-> Min(Due(Code(r, k)[s], i, o))]
  IN  IF rest # {} THEN [a EXCEPT !.pos = Min(rest)]
      ELSE IF Section(r).loop /\ a.iter + 1 < Trips(o)
           THEN Begin(a.size, a.seg, a.iter + 1)
      ELSE IF a.seg < Len(Code(r, a.size)) THEN Begin(a.size, a.seg + 1, 0)
      ELSE IF a.size < Closing THEN Begin(a.size + 1, 1, 0)
      ELSE Over

GoOn(r) == at' = [at EXCEPT ![r] = Following(r, options[r])]

Tick(r) == clock' = [clock EXCEPT ![r] = @ + (IF Op(r).measured THEN 1 ELSE 0)]

-----------------------------------------------------------------------------
Init ==
  /\ benchmark \in {Benchmarks[i] : i \in DOMAIN Benchmarks}
  /\ po_ret \in {"po_okay", "po_bad_usage"}
  /\ eager \in BOOLEAN
  /\ at = [r \in Ranks |-> [size |-> 0, seg |-> 1, iter |-> 0, pos |-> 1]]
  /\ inside = [r \in Ranks |-> FALSE]
  /\ options = [r \in Ranks |-> [loop |-> Options.loop, skip |-> Options.skip]]
  /\ clock = [r \in Ranks |-> 0]
  /\ t_start = [r \in Ranks |-> 0]
  /\ timer = [r \in Ranks |-> 0]
  /\ sends = [r \in Ranks |-> <<>>]
  /\ recvs = [r \in Ranks |-> <<>>]
  /\ called = [r \in Ranks |-> 0]
  /\ journal = <<>>
  /\ request = [r \in Ranks |-> 0]

\* With bad usage or too few processes every rank goes to MPI_Finalize.
CheckUsage(r) ==
  /\ At(r, "check")
  /\ IF po_ret = "po_okay" /\ benchmark.fits
     THEN GoOn(r)
     ELSE at' = [at EXCEPT ![r] = [size |-> Closing, seg |-> 1, iter |-> 0,
                                   pos |-> Len(benchmark.finish) + 1]]
  /\ UNCHANGED <<launch, inside, options, timing, messages, gathering>>

SetOptions(r) ==
  /\ At(r, "options")
  /\ LET s == Op(r).set
         o == [loop |-> IF s.loop = Keep THEN options[r].loop ELSE s.loop,
               skip |-> IF s.skip = Keep THEN options[r].skip ELSE s.skip]
     IN  /\ options' = [options EXCEPT ![r] = o]
         /\ at' = [at EXCEPT ![r] = Following(r, o)]
  /\ UNCHANGED <<launch, inside, timing, messages, gathering>>

\* Statements that only matter for when they happen.
Pass(r) ==
  /\ Running(r) /\ Op(r).op \in {"touch", "report"}
  /\ GoOn(r)
  /\ UNCHANGED <<launch, inside, options, timing, messages, gathering>>

(***************************************************************************)
(* The timer.                                                              *)
(***************************************************************************)
ReadStart(r) ==
  /\ At(r, "t_start")
  /\ t_start' = [t_start EXCEPT ![r] = clock[r]]
  /\ GoOn(r)
  /\ UNCHANGED <<launch, inside, options, clock, timer, messages, gathering>>

ReadEnd(r) ==
  /\ At(r, "t_end")
  /\ timer' = [timer EXCEPT ![r] = clock[r] - t_start[r]]
  /\ GoOn(r)
  /\ UNCHANGED <<launch, inside, options, clock, t_start, messages, gathering>>

AddSample(r) ==
  /\ At(r, "sample")
  /\ timer' = [timer EXCEPT ![r] =
                 @ + (IF at[r].iter >= options[r].skip THEN clock[r] - t_start[r] ELSE 0)]
  /\ GoOn(r)
  /\ UNCHANGED <<launch, inside, options, clock, t_start, messages, gathering>>

ResetTimer(r) ==
  /\ At(r, "reset")
  /\ timer' = [timer EXCEPT ![r] = 0]
  /\ GoOn(r)
  /\ UNCHANGED <<launch, inside, options, clock, t_start, messages, gathering>>

(***************************************************************************)
(* Messages.                                                               *)
(***************************************************************************)
Envelope(r) == [peer |-> Op(r).peer, tag |-> Op(r).tag, kind |-> Op(r).kind,
                size |-> at[r].size, iter |-> at[r].iter]

PostSend(r) ==
  /\ At(r, "isend")
  /\ sends' = [sends EXCEPT ![r] = Append(@, Envelope(r))]
  /\ GoOn(r)
  /\ UNCHANGED <<launch, inside, options, timing, recvs, gathering>>

PostRecv(r) ==
  /\ At(r, "irecv")
  /\ recvs' = [recvs EXCEPT ![r] = Append(@, Envelope(r))]
  /\ GoOn(r)
  /\ UNCHANGED <<launch, inside, options, timing, sends, gathering>>

\* MPI_Send, or MPI_Waitall for sends: locally complete once buffered.
CompleteSends(r) ==
  /\ At(r, "waitsends")
  /\ eager \/ sends[r] = <<>>
  /\ Tick(r)
  /\ GoOn(r)
  /\ UNCHANGED <<launch, inside, options, t_start, timer, messages, gathering>>

CompleteRecvs(r) ==
  /\ At(r, "waitrecvs")
  /\ recvs[r] = <<>>
  /\ Tick(r)
  /\ GoOn(r)
  /\ UNCHANGED <<launch, inside, options, t_start, timer, messages, gathering>>

First(queue, peer, tag) ==
  Min({n \in DOMAIN queue : queue[n].peer = peer /\ queue[n].tag = tag})

Without(queue, n) == SubSeq(queue, 1, n - 1) \o SubSeq(queue, n + 1, Len(queue))

\* A channel on which a message and a receive can meet.
Meeting(p, q, tag) ==
  /\ \E n \in DOMAIN sends[p] : sends[p][n].peer = q /\ sends[p][n].tag = tag
  /\ \E n \in DOMAIN recvs[q] : recvs[q][n].peer = p /\ recvs[q][n].tag = tag

Tags(p) == {sends[p][n].tag : n \in DOMAIN sends[p]}

Deliver(p, q, tag) ==
  /\ Meeting(p, q, tag)
  /\ sends' = [sends EXCEPT ![p] = Without(@, First(@, q, tag))]
  /\ recvs' = [recvs EXCEPT ![q] = Without(@, First(@, p, tag))]
  /\ UNCHANGED <<launch, at, inside, options, timing, gathering>>

(***************************************************************************)
(* Collectives on MPI_COMM_WORLD.  Rank 0 is the root of those that have   *)
(* one.                                                                    *)
(***************************************************************************)
Entry(r) == [kind |-> Op(r).kind, size |-> at[r].size]

Join(r) ==
  /\ called' = [called EXCEPT ![r] = @ + 1]
  /\ journal' = IF called[r] < Len(journal) THEN journal ELSE Append(journal, Entry(r))

\* The ranks whose contribution rank r needs.
Contributors(r, kind) ==
  IF kind \in {"bcast", "scatter"} THEN {0}
  ELSE IF kind \in {"reduce", "gather"} /\ r # 0 THEN {r}
  ELSE Ranks

Complete(r, kind, n) == \A q \in Contributors(r, kind) : called[q] >= n

EnterCollective(r) ==
  /\ At(r, "call") /\ ~inside[r]
  /\ inside' = [inside EXCEPT ![r] = TRUE]
  /\ Join(r)
  /\ UNCHANGED <<launch, at, options, timing, messages, request>>

LeaveCollective(r) ==
  /\ At(r, "call") /\ inside[r]
  /\ Complete(r, Op(r).kind, called[r])
  /\ inside' = [inside EXCEPT ![r] = FALSE]
  /\ Tick(r)
  /\ GoOn(r)
  /\ UNCHANGED <<launch, options, t_start, timer, messages, gathering>>

StartCollective(r) ==
  /\ At(r, "start")
  /\ Join(r)
  /\ request' = [request EXCEPT ![r] = called[r] + 1]
  /\ GoOn(r)
  /\ UNCHANGED <<launch, inside, options, timing, messages>>

Finished(r) == request[r] # 0 => Complete(r, journal[request[r]].kind, request[r])

\* MPI_Test may or may not notice that the collective has completed.
TestCollective(r) ==
  /\ At(r, "test")
  /\ \/ UNCHANGED request
     \/ Finished(r) /\ request' = [request EXCEPT ![r] = 0]
  /\ GoOn(r)
  /\ UNCHANGED <<launch, inside, options, timing, messages, called, journal>>

WaitCollective(r) ==
  /\ At(r, "wait")
  /\ Finished(r)
  /\ request' = [request EXCEPT ![r] = 0]
  /\ Tick(r)
  /\ GoOn(r)
  /\ UNCHANGED <<launch, inside, options, t_start, timer, messages, called, journal>>

-----------------------------------------------------------------------------
Step(r) ==
  \/ CheckUsage(r)
  \/ SetOptions(r)
  \/ Pass(r)
  \/ ReadStart(r)
  \/ ReadEnd(r)
  \/ AddSample(r)
  \/ ResetTimer(r)
  \/ PostSend(r)
  \/ PostRecv(r)
  \/ CompleteSends(r)
  \/ CompleteRecvs(r)
  \/ EnterCollective(r)
  \/ LeaveCollective(r)
  \/ StartCollective(r)
  \/ TestCollective(r)
  \/ WaitCollective(r)

AllOver == \A r \in Ranks : ~Running(r)

Exit == AllOver /\ UNCHANGED vars

Next ==
  \/ \E r \in Ranks : Step(r)
  \/ \E p, q \in Ranks : \E tag \in Tags(p) : Deliver(p, q, tag)
  \/ Exit

Spec == Init /\ [][Next]_vars /\ WF_vars(Next)

-----------------------------------------------------------------------------
TypeOK ==
  /\ benchmark.np \in Nat \ {0}
  /\ po_ret \in {"po_okay", "po_bad_usage"}
  /\ eager \in BOOLEAN
  /\ \A r \in Ranks :
       /\ Running(r) => /\ at[r].size \in 0..Closing
                        /\ at[r].seg \in DOMAIN Code(r, at[r].size)
                        /\ at[r].pos \in Due(Section(r), at[r].iter, options[r])
                        /\ at[r].iter \in 0 .. Trips(options[r]) - 1
       /\ inside[r] => At(r, "call")
       /\ options[r] \in [loop : Nat \ {0}, skip : Nat]
       /\ t_start[r] \in 0..clock[r]
       /\ timer[r] \in 0..clock[r]
       /\ called[r] \in 0..Len(journal)
       /\ request[r] \in 0..called[r]

(***************************************************************************)
(* Message tags and collectives carry no trace of the size and iteration   *)
(* they belong to, and most benchmarks have no barrier between sizes.      *)
(* Still the message that meets a receive was sent in the same iteration   *)
(* for the same size, with as much data as the receiver expects (README,   *)
(* osu_latency: a reply with the same data size).                          *)
(***************************************************************************)
SameTrial ==
  \A p, q \in Ranks : \A tag \in Tags(p) :
    Meeting(p, q, tag) =>
      LET s == sends[p][First(sends[p], q, tag)]
          v == recvs[q][First(recvs[q], p, tag)]
      IN  s.kind = v.kind /\ s.size = v.size /\ s.iter = v.iter

\* MPI neither reads nor writes the buffer of rank r any more: no receive is
\* posted, no send is unmatched (unless it was buffered) and no nonblocking
\* collective is active.
BufferAtRest(r) ==
  /\ recvs[r] = <<>>
  /\ eager \/ sends[r] = <<>>
  /\ request[r] = 0

(***************************************************************************)
(* The processes call the same collectives in the same order, for the same *)
(* message size: otherwise a barrier of one rank meets a reduction of      *)
(* another, or rank 0 adds up latencies of different sizes.                *)
(***************************************************************************)
CollectivesMatch ==
  \A r \in Ranks :
    /\ inside[r] => journal[called[r]] = Entry(r)
    /\ request[r] # 0 => journal[request[r]].size = at[r].size

(***************************************************************************)
(* What a benchmark divides by options.loop covers options.loop measured   *)
(* calls: t_start is not left from an earlier size, warm-up iterations are *)
(* not timed, and the switch to the large options reaches both the loop    *)
(* and the division.                                                       *)
(***************************************************************************)
AverageOverTheTimedCalls ==
  \A r \in Ranks : At(r, "report") => timer[r] = options[r].loop

(***************************************************************************)
(* Every process gets through all sizes to the end of MPI_Finalize,        *)
(* whether or not standard sends are buffered.                             *)
(***************************************************************************)
Termination == <>AllOver
=============================================================================
