------------------------------- MODULE OmbOps -------------------------------
(***************************************************************************)
(* The vocabulary in which the OSU micro-benchmarks are written down.      *)
(*                                                                         *)
(* Every benchmark of the suite has the same frame: some start-up, a loop  *)
(* over the message sizes whose body measures one size with one or two     *)
(* loops of options.loop + options.skip iterations, and some clean-up.     *)
(* What differs are the calls.  So a benchmark is a record: the number of  *)
(* processes it is launched with, and per size and rank the sequence of    *)
(* its sections.  Module OmbRun executes such a record.                    *)
(*                                                                         *)
(* A message size is represented by its number k in the size loop, counted *)
(* from 1.                                                                 *)
(***************************************************************************)
EXTENDS Integers, Sequences

CONSTANTS NumSizes,   \* how many message sizes a benchmark measures
          LastSmall,  \* the last size that is not > LARGE_MESSAGE_SIZE
          Options     \* the options structure after process_options

ASSUME OmbOpsAssumption ==
  /\ NumSizes \in Nat \ {0}
  /\ LastSmall \in Nat
  /\ Options \in [loop : Nat \ {0}, loop_large : Nat \ {0},
                  skip : Nat, skip_large : Nat]

Large(k) == k > LastSmall

-----------------------------------------------------------------------------
(***************************************************************************)
(* One call or one statement that matters.                                 *)
(*   kind      the collective, or how much data a message carries          *)
(*   peer, tag the partner and the tag of a message                        *)
(*   set       the values an options statement assigns                     *)
(*   at_skip   the statement is guarded by if (i == options.skip)          *)
(*   measured  the call whose cost the benchmark reports                   *)
(***************************************************************************)
Keep == -1
Keeping == [loop |-> Keep, skip |-> Keep]

Do(op, kind) == [op |-> op, kind |-> kind, peer |-> 0, tag |-> 0,
                 set |-> Keeping, at_skip |-> FALSE, measured |-> FALSE]

AtSkip(o)   == [o EXCEPT !.at_skip = TRUE]
Measured(o) == [o EXCEPT !.measured = TRUE]

Check    == Do("check", "")     \* the tests of po_ret and numprocs
Touch    == Do("touch", "")     \* the buffers are written or freed
TStart   == Do("t_start", "")   \* t_start = MPI_Wtime()
TEnd     == Do("t_end", "")     \* t = MPI_Wtime() - t_start
Sample   == Do("sample", "")    \* t_stop, and if (i >= skip) timer += ...
Reset    == Do("reset", "")     \* timer = 0.0
Report   == Do("report", "")    \* latency = timer / options.loop
Test     == Do("test", "")      \* MPI_Test in dummy_compute
Wait     == Do("wait", "")      \* MPI_Wait for a nonblocking collective
Call(c)  == Do("call", c)       \* a blocking collective
Start(c) == Do("start", c)      \* a nonblocking collective
Barrier  == Call("barrier")
Reduce   == Call("reduce")
Finalize == Call("finalize")

Assign(settings) == [Do("options", "") EXCEPT !.set = settings]

\* if (size > LARGE_MESSAGE_SIZE) { options.loop = options.loop_large; ... }
SetIfLarge(k) ==
  Assign(IF Large(k) THEN [loop |-> Options.loop_large, skip |-> Options.skip_large]
         ELSE Keeping)

-----------------------------------------------------------------------------
(***************************************************************************)
(* Messages.  A blocking send or receive is the nonblocking one followed   *)
(* by its completion.                                                      *)
(***************************************************************************)
Message(op, peer, tag, kind) == [Do(op, kind) EXCEPT !.peer = peer, !.tag = tag]

Isend(peer, tag) == Message("isend", peer, tag, "data")
Irecv(peer, tag) == Message("irecv", peer, tag, "data")
WaitSends == Do("waitsends", "")
WaitRecvs == Do("waitrecvs", "")

Send(peer, tag, kind) == <<Message("isend", peer, tag, kind), WaitSends>>
Recv(peer, tag, kind) == <<Message("irecv", peer, tag, kind), WaitRecvs>>

\* for (j = 0; j < window_size; j++) o
Window(w, o) == [j \in 1..w |-> o]

-----------------------------------------------------------------------------
Only(condition, ops) == IF condition THEN ops ELSE <<>>

\* Sections of a size: straight-line code, and an iteration loop.
Once(ops) == [loop |-> FALSE, ops |-> ops]
Loop(ops) == [loop |-> TRUE, ops |-> ops]

(***************************************************************************)
(* What is run: a program on np processes, with the options -s and -w of   *)
(* the one-sided programs.                                                 *)
(***************************************************************************)
WithOptions(program, sync, win, np) ==
  [program |-> program, sync |-> sync, win |-> win, np |-> np]

Launch(program, np) == WithOptions(program, "", "", np)

(***************************************************************************)
(* The benchmark that b launches: whether it accepts the number of         *)
(* processes, how many sizes it measures, what it does before and after    *)
(* the size loop, and the sections of size k on rank r, Body(k, r), at     *)
(* body[k][r + 1].  (Concatenating <<>> has TLC compute a sequence once    *)
(* and for all.)                                                           *)
(***************************************************************************)
Benchmark(b, fits, sizes, start, Body(_, _), finish) ==
  [program |-> b.program, sync |-> b.sync, win |-> b.win, np |-> b.np,
   fits |-> fits, sizes |-> sizes, start |-> start, finish |-> finish,
   body |-> [k \in 1..sizes |-> [r \in 1..b.np |-> Body(k, r - 1)] \o <<>>] \o <<>>]
=============================================================================
