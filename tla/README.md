# A TLA+ model of dash-bench

dash-bench collects the benchmarks that accompany DASH: the OSU micro-benchmarks
3.5.2 (MPI, OpenSHMEM, UPC, UPC++, and a DART port), the CAF benchmark suite
(Fortran co-arrays, and a DASH port), and a sort benchmark. All of it is SPMD
code that does little else than communicate in a fixed pattern and read a clock,
so what has to be right is

* the pattern: every message meets the receive it was meant for, every process
  makes the same collective calls in the same order, nothing deadlocks whether
  or not sends are buffered, and no buffer is reused while it is in use;
* the measurement: the time that is divided by the number of iterations covers
  exactly those iterations, and the thing timed is what the documentation says.

The specifications state these properties, TLC checks them on small instances,
and TLAPS proves for every value of the constants: all safety properties of the
program with shared-memory threads; for all collective benchmarks of the OSU suite,
on any number of processes, that the processes call the same collectives, that the
measured calls do not overlap and that the timer covers what is reported; for its
one-sided programs that operations touch the memory their target has exposed, that
those of two iterations are kept apart and that the timer covers them; for its
programs that exchange messages in pairs that every message meets the receive of its
own iteration and has been received when the timer stops; for the
synchronisation tests of the CAF suites that the neighbour lists match, that a
synchronisation separates the iterations and that the timer covers its trial; for
their transfer tests that the images of the Fortran suite make the same repetitions
and give up together, that the timer covers the transfers and that partners match;
for the sort benchmark that every wrong sort is noticed, that no alarm is false and
that the barriers keep the measurement apart from the rest.

## The system

| Part | State | Operations | What is hard |
|---|---|---|---|
| `mpi/pt2pt/osu_latency_mt.c` | `finished_size`, a mutex, a condition variable, shared `options`, messages | thread barrier per size, ping-pong of one sender with all threads | one counter for all rounds, `MPI_Barrier` under a mutex, wait without a predicate, unsynchronised options |
| `mpi/pt2pt` (other five) | `options`, `window_size`, buffers, requests, timer | `MPI_Send/Recv/Isend/Irecv/Waitall`, barrier, reduction | same tags for all iterations and sizes, no barrier between sizes, eager or rendezvous sends, several pairs, idle processes |
| `mpi/collective` (24) | `options`, timer, request, vectors of counts | one blocking or nonblocking collective per iteration, barrier, reductions | agreement on the order of collectives, pipelining of rooted collectives, timer resets, `MPI_Test` racing `MPI_Wait` |
| `mpi/one-sided` (10) | windows, locks, epochs, timer | put, get, accumulate, compare-and-swap under lock, flush, PSCW, fence | local against remote completion, epochs that must match, a window freed in use |
| `mpi/startup` (2) | none | init, reductions, finalize | nothing |
| `openshmem` (8), `upc` (9), `upcxx` (8) | timer, symmetric or shared arrays, `pSync` arrays | put, get, atomics, asynchronous copies, collectives, barriers | reuse of a `pSync` array, completion of operations that return early, barriers matched by order only |
| `dart` (2) | segment, handle, timer | put, get; blocking, handle, flush or local flush | local against remote completion, segments freed after a local flush |
| `cafbench-1.0/dash`, `cafbench-1.0/fortran`: sync tests | trial times, neighbour lists | every kind of synchronisation | partner functions that must be symmetric, statistics that discard iteration 0 |
| the same: ping-pong and halo exchange | the co-array `x`, `trialnrep`, `lcheck`, `gcheck` | patterns of put and get, verification, vote, broadcast of the time, halo swap | one array for ping and pong, loop counts decided from times, leaving when verification fails |
| `sort-bench` | one array in parts or blocks, error counters | fill, sort, verify, time | barriers that keep the iterations apart, a unit that gives up before its barrier, counters without a lock |

The parts do not call each other: every benchmark is a program of its own. What
they share is their frame (`osu_pt2pt.c`, `osu_coll.c`: options, buffers,
statistics) and the communication library underneath, which is external and is
modelled by what the programs rely on.

## Modules

| Module | What it is |
|---|---|
| `RoundBarrier` | abstract specification of a reusable barrier: nobody starts round k before everybody has reached it |
| `LatencyMT` | `osu_latency_mt.c`: `recv_thread` statement by statement (each lock, wait, assignment to shared data and MPI call is an action), `send_thread`, both mains |
| `LatencyMTProofs` | the theorems about `LatencyMT`: the barrier, sizes and trip counts, the strided shares of the threads |
| `OmbOps` | the vocabulary of the other OSU programs: one record per MPI call, clock reading or options statement; a program is a record of sections per size and rank |
| `OmbRun` | the frame of all these programs (size loop, iteration loops, `if (i == options.skip)`, the switch to the large options, the timer) and MPI as they use it; it executes any program written in `OmbOps` |
| `OmbPt2Pt` | `osu_latency`, `osu_bw`, `osu_bibw`, `osu_multi_lat`, `osu_mbw_mr` as programs, and their properties |
| `OmbCollective` | the 13 blocking and 11 nonblocking collective programs, and their properties |
| `OmbWindows` | MPI windows on top of `OmbRun`: locks, flushes, exposure and access epochs, operations that take place later than they are issued |
| `OmbOneSided` | the ten one-sided programs with every synchronisation they distinguish, and their properties |
| `CafNeighbours` | who synchronises with whom in the sync-images tests: `getneighs`, `getperm`, the pair function, of the Fortran suite and of the DASH port |
| `CafSync` | `cafsyncdriver` and `cafsyncbench` of both ports: every kind of synchronisation, the reference loop, the trials and what is averaged |
| `CafSyncProofs` | the theorems about `CafSync`: neighbour lists, trials, iterations, timers and types |
| `OmbDart` | the two DART programs, on top of `OmbWindows` |
| `OmbShmem` | the eight OpenSHMEM programs, and the discipline of their `pSync` arrays |
| `OmbUpc` | the nine UPC and eight UPC++ programs |
| `OmbSuite` | all programs of the suite together, and the properties that the ones with one-sided operations share |
| `OmbProofs` | the theorems about the programs that all ranks execute alike, and about the collective benchmarks |
| `OmbWindowProofs` | the theorems about the programs with one-sided operations: where a rank is in its own program, its operations, its epochs, the memory they touch |
| `OmbMessageProofs` | the theorems about the programs that exchange messages: which message meets which receive, and when all are received |
| `CafOps` | the statements the transfer benchmarks of the CAF suites are made of, and the procedures of `cafcore` (set, check, `gand`, `dbcast`, `cafchecktime`) as sequences of them |
| `CafPingPong` | `cafpingpong` of both ports and their drivers, as programs of `CafOps` |
| `CafHalo` | `cafhaloswap` and its driver (Fortran), on the grid of `getdecomp3d` |
| `CafTransfer` | the images executing these programs: copies under way, synchronisation, trial loops, lost copies |
| `CafTransferProofs` | the theorems about `CafTransfer`: the statements that decide where an image goes, repetitions, leaving the loop, timers, pairs |
| `SortBench` | `Test` of `sortbench.cc` with the DASH, MPI (and usort), TBB and OpenMP back ends |
| `SortBenchProofs` | the theorems about `SortBench`: types, alarms, timer, and that every disorder is noticed |
| `NumberLemmas` | minimal elements, residues and cardinalities, as the proofs need them |
| `MCLatencyMT`, `MCOmb`, `MCCafSync`, `MCCafTransfer`, `MCSortBench` | instances for TLC |

`LatencyMT` refines `RoundBarrier` (operator `ImplementsBarrier`): a thread of
rank 1 arrives when it waits on the condition variable or enters `MPI_Barrier`
as the leader, rank 0 arrives when it enters `MPI_Barrier`.

### How state and actions correspond to the code

`LatencyMT`: `pc[t]` is the statement thread t is at; `finished_size`, `mutex`
and `options[1]` are the shared variables of rank 1, `options[0]` the copy of
rank 0 (another process); `size[t]`, `i[t]`, `ssize`, `si` are the local loop
variables; `entered[r]` counts the barriers rank r has entered, which is all that
is left of `MPI_Barrier`; `ping` and `pong` are the messages under way, each
represented by its size. `pthread_cond_wait` is three actions (`CondWait`,
`Reacquire`, `UnlockMutex`) because other threads run in between.

`OmbRun`: `at[r]` is the program counter of rank r: size, section, iteration and
statement. `options[r]`, `t_start[r]` and `timer[r]` are the variables of the
code; instead of seconds the clock counts the measured operations a rank has
finished, so `timer` is the number of measured operations the accumulated time
covers and can be compared with the divisor `options.loop`. `sends` and `recvs`
hold what is posted and not matched, in order; `Deliver` matches the oldest
message of a channel and tag with the oldest receive, which is MPI's
non-overtaking rule. `eager` decides once per run whether a standard send
completes before it is received. `called[r]` counts the collectives a rank has
called and `journal` records what the first caller of the n-th collective
called it for. A collective lets a rank go once the ranks whose contribution it
needs have called it: the root of a broadcast or scatter, everybody for the root
of a reduction or gather, only itself for a non-root of those, everybody
otherwise - which is the least that MPI guarantees.

`OmbWindows`: `pending[r]` are the operations rank r has issued and that have not
taken place at their target; `TakePlace` carries out any of them, in any order,
once the target has posted the exposure epoch it belongs to. Unlock, flush and
fence wait until the rank's operations have taken place; `flush_local`,
`MPI_Win_complete` and `MPI_Wait` only until they are locally complete, which is
at once if the run is `eager` and nothing is fetched. An eager run also lets
`MPI_Win_start` go on without the matching post, as MPI allows. A fence (always
with assertion 0) is a flush and a barrier. Creating and freeing a window are
collectives that everybody waits for. Locks are never contended, because only
rank 0 takes any, so exclusive and shared ones are the same. `disp_remote[r]` is
the global variable of `osu_1sc.c` (`sdisp_remote` in `osu_get_acc_latency`): a
pointer that one allocation function fills with a table and the other overwrites
with an address. In `osu_alloc_latency` all ranks are assumed to share memory, so
that the window allocated there is a collective of everybody.

`CafSync`: `pc[p]` is the statement image p is at, `bench[p]` the call of
`cafsyncbench` that `cafsyncdriver` has reached, `k[p]` the trial and `j[p]` the
iteration of the inner loop. Both ports are one module, because the DASH port was
translated from the Fortran code statement by statement; where they differ the
variable `job` (port and number of images) decides. `sync all` is two actions,
entering and leaving, with a counter of arrivals per image. `sync images` is the
counter `posted[p][q]`, how often p has named q, which is how the standard defines
it and how the DASH port counts; an image leaves when every image it names has
named it as often. Lock and critical region share `mutex`. The clock of an image
counts delays, the unit of work both suites time: synchronisation takes no time
of its own, an image only loses time by waiting for the delays of others, and a
delay under the lock starts when the lock was released. So the overhead that the
benchmark reports, which is what it exists for, must be 0 in the model. A
permutation is drawn by every image: the Fortran suite relies on all images
getting the same pseudo-random numbers, in the DASH port each draws from
`std::random_device` (`MayDraw`). Durations are not truncated to microseconds,
and the element that the DASH port writes beyond its vector of times is not
memory the model has.

`OmbDart`, `OmbShmem` and `OmbUpc` add no variables: their operations are the
`Access`, `Flush` and `FlushLocal` of `OmbWindows`, and memory that may be
accessed without an epoch. A put that returns when its source may be reused is
an `Access` and a `FlushLocal`; `shmem_quiet`, `upc_fence`, `dart_flush` and
`async_wait` are a `Flush`; `shmem_barrier_all` and `upc_barrier` a `Flush` and a
barrier, the barrier of UPC++ only a barrier. A SHMEM collective carries the
names of its `pSync` arrays, of which iteration i uses the (i mod 2)-th, as
`if(i%2)` does.

`CafTransfer`: an image executes the statements `todo[p]` of the section it is
in; a call of `cafpingpong` or `cafhaloswap` opens, allocates for a shape (count,
blksize, stride), makes trials (arrays set, `sync all`, timer, the body once per
repetition, timer, time broadcast) until one lasts long enough, and ends. `x[p]`
has the values of the cells, so the patterns of access, `cafset` and `cafcheck`
are modelled by the cells they touch. A copy is in `underway[p]` from its statement
to `Deliver`, which may come at any moment up to the next segment boundary
(Fortran) or to `x.flush()` (DASH). `Deliver` may lose one cell of a copy if the
build allows faults: `cafparams` says that verification exists because "compilers
can go wrong", and this is the fault it looks for. `gand` is a vote, a `sync all`,
a count and a `sync all`; `&=` and `return` of the DASH port are one statement
without any. The duration of a trial is an arbitrary member of `Durations` (below
two thirds of the target, near it, above four thirds), chosen by every image for
itself. In `CafHalo` six cells stand for the halos and one for the boundary,
since all points of one boundary have the same value. The two drivers' loops over
modes and synchronisations become a sequence of calls; the DASH loop stops one
short of the crossing pattern and calls `sync all` twice, as its bounds say.

`SortBench`: a worker is a process (DASH, MPI) with its part of the array, or a
thread (TBB, OpenMP) with its block; `pc[w]` says what it does next. `keys` are
values, the sort is external and returns any permutation that is in order or,
`MaxFaults` times, anything at all. `nerror[w]` is the counter of a worker, the one
of worker 0 for all TBB threads; `++nerror` reads it in `Compare` and writes it in
`Increment`, so increments can get lost. `disorder` and `alarms` record in which
iterations the result was wrong and in which "validation failed!" was printed.

Message sizes are numbers of the size loop, `LastSmall` is the last one that is
not `> LARGE_MESSAGE_SIZE`. Buffer contents (except in the CAF benchmarks),
allocation failures, accelerators, output and the arithmetic of the results are
not modelled.

## Runs

| Run | Instance | What it shows |
|---|---|---|
| `latency_mt` | 3 threads, 3 sizes (1 small, 2 large), 4 small and 2 large iterations | the invariants below, refinement of `RoundBarrier`, termination |
| `latency_mt_spurious` | 2 threads, 2 sizes, spurious wake-ups allowed | **violated**: `EqualSize`, README of the OSU benchmarks 76-78 |
| `omb` | 128 launches of all the other OSU programs: 10 point-to-point, 25 collective, 57 one-sided, 6 DART, 11 OpenSHMEM, 19 UPC and UPC++; 1 to 4 processes, 2 sizes, windows of 2 or 3 operations | no mixing of trials, memory at rest when reused or freed, agreement on collectives, `pSync` arrays free, no pipelining, timers, termination, with eager and rendezvous sends |
| `omb_options` | three nonblocking vector collectives and `osu_ibarrier`, `-x 1 -i 2` | **violated**: `OptionsAsGiven`, README of the OSU benchmarks 152-154 |
| `omb_dynamic` | `osu_put_bw` and `osu_get_bw` with `-w dynamic` | **violated**: `AccessesHitTheWindow`, README 306-307 |
| `omb_copies` | the two UPC++ copy programs | **violated**: `CopiesWarmUpOver`, README 646-648 |
| `cafsync` | Fortran on 1, 2 and 4 images, DASH on 2; 3 trials of 8 delays; two arrangements of a ring | lists that match, no iteration, trial or test mistaken for another, timer, overhead, termination |
| `cafsync_dash` | DASH on 4 images | **violated**: `NeighboursMatch`, README of the suite: paired images match up |
| `cafsync_lock` | Fortran on 4 images, 9 delays | **violated**: `NoOverheadOfItsOwn`, README of the suite: computation compared to computation plus synchronisation |
| `caftransfer` | seven builds, see below | lost copies are noticed, nothing else is, images leave together, timers cover the transfers, no races, termination |
| `caftransfer_dash` | DASH on 2 images, one copy lost | **violated**: `LeaveTogether`, the message "exiting this test" of both suites |
| `sortbench` | six builds, 3 iterations, one failing sort | alarms are real and none is missing, the timer covers only the sort, all iterations end |

The properties:

* `EqualSize`, `TripCountAgreed`, `SharesCoverTheRun` (`LatencyMT`): no thread
  answers a message of another size; a thread never runs its loop with options
  of another size; the strided shares of the threads cover the iterations.
* `SameTrial`: the message that meets a receive belongs to the same size and
  iteration, although neither is part of the tag. `CollectivesMatch`: all
  ranks call the same collectives for the same sizes. `AverageOverTheTimedCalls`:
  what is divided by `options.loop` covers `options.loop` measured calls.
* `TransferOverWhenTimerStops`: when a sender stops its timer nothing it sent is
  under way (the reason for the four byte answer). `PairsTimedTogether`: in the
  multi-pair programs no pair is in its timed iterations while another still
  warms up.
* `IterationsSeparated`: a measured collective starts when all processes have
  called everything before it, also for rooted collectives that do not
  synchronise.
* `MemoryAtRest`: buffers and windows are written for the next size, or freed,
  only when no message, collective or one-sided operation may still use them and
  no epoch is open. `AccessesHitTheWindow`: the displacement of an operation leads
  to the memory its target has exposed. `UpdatesSeparated`: operations that could
  take place at the same time belong to one iteration (except under `flush_local`
  and `wait`). `OneWayAtATime`: in the ping-pong programs the ranks take turns.
  `TimedOperations`: when the timer is started or stopped, the operations are as
  complete as the synchronisation promises. `SyncArraysFree`: two processes are in
  SHMEM collectives with the same `pSync` array only if it is the same collective.
* `NeighboursMatch`, `AsManyNeighbours` (`CafSync`): the lists that the images
  compute without asking each other name each other, and have as many entries as
  the test is about.
* `SyncSeparatesIterations`: when a synchronisation returns, every image it was
  with has come to the same iteration of the same trial of the same test.
  `TimerCoversTheTrial`: when an image stops its timer all images are at the end
  of that trial.
* `NoOverheadOfItsOwn`: loop time less reference time counts no delays.
* `NoFalseAlarm`, `FaultNoticed` (`CafTransfer`): verification fails only if a copy
  was lost, and if one was, it fails. `SameRepetitions`: the images make the same
  number of repetitions of the same pattern. `LeaveTogether`: when verification
  fails nobody is left behind in the loop. `TimerCoversTransfers`: the clock is read
  when nothing of the trial is still, or already, under way, and its time is divided
  by the repetitions of that trial. `NoRace`: a cell that a copy is about to read or
  write is not touched by anybody else. `PairsAgree`: partners name each other, with
  opposite roles.
* `AlarmsAreReal`, `DisorderNoticed` (`SortBench`): "validation failed!" is printed
  exactly for the iterations whose sort failed. `TimerCoversTheSort`: while worker 0
  measures, nobody initialises or verifies. `SortEnds`: everybody gets through all
  iterations unless somebody has left `parallel_verify` early.
* `Termination`: every process reaches the end of `MPI_Finalize`; every image
  gets through all tests or is stopped by one that refuses.

### Bounds

Loops over sizes, iterations and windows repeat the same statements, so what
matters is that there is a first and a next one on each side of every
condition: two sizes give one small and one large (the switch of the options
happens between them), `loop = 2` and `skip = 1` give a warm-up iteration and
two timed ones, `skip_large = 0` the boundary where the first iteration is timed.
Window sizes 2 and 3 make the enlarged window differ from the small one. Two
processes are what the two-sided programs require; four give two pairs, three
give an idle process for `osu_mbw_mr` and two non-roots for rooted collectives.
Three threads make a leader, a thread that is slow to leave and one that is back
early, and shares of 2, 1 and 1 iterations, then of 1, 1 and 0. One program is
given too few processes, one too many, to take the early exit. A window of two
operations lets two of one iteration be under way; the latency programs also run
on one process, which is then its own target (only `osu_get_latency`: rank 0 of
`osu_put_latency` would wait for a message from itself), and on three, one of
them idle.

The synchronisation tests run with two averaged trials besides the discarded one
(`SyncOuter = 2`), so there is a trial to average in both ports. `SyncInner = 8`
is a multiple of the number of images and leaves every image two turns with the
lock; any other number adds a rest, which is finding 6. On four images there is
a ring of two neighbours and a random one, with two arrangements that give
different rings; one image takes the exit for too many neighbours.

The images of the transfer benchmarks run in seven builds, each for its
question: Fortran on two images, verified, one cell of one copy lost, with the
patterns that leave gaps (four elements, strides up to 2) and with the others,
MPI send and the halo swap (two elements); two images without verification, two
calls in a row, so that data of one call meets the next; one image, its own
partner; three, of which one has no partner and which form a grid of 1x1x3; four
with single, multiple and crossing pairs; DASH on two images, two calls in a
row. One mode stands for all that move the same cells (`sub` variants copy
through a procedure). Two repetitions (`MaxNrep`) is what it takes for a trial
to be repeated longer and for data of the repetition before to be mistaken for
new. A halo grid has all its dimensions on six or eight images only; on two and
three, two of the three neighbours are the image itself, which takes the same
statements.

Sorting runs with two workers of two keys in each of the four back ends, with
three DASH units, so that one is between two, and three TBB threads that share a
counter. Two different keys suffice for order and disorder, since only comparisons
are made of them. Three iterations let a unit be one ahead and one behind of
another; one sort in them fails, the first, the middle or the last. `sortbench`
does not check deadlock, because the DASH back end stops when a unit gives up
while the others wait in a barrier; `SortEnds` is there instead.

### Fairness

`LatencyMT` assumes weak fairness of each thread and of the sender (the operating
system schedules runnable threads; MPI completes matched operations). `OmbRun`,
`OmbWindows`, `CafSync`, `CafTransfer` and `SortBench` assume weak fairness of the
whole next-state relation only: programs are finite and never busy-wait, so any
run that does not stop prematurely ends; `Termination` and `SortEnds` there are the
absence of deadlock and of endless loops.

## Findings

1. `osu_latency_mt.c:177` waits without checking a predicate. A spurious return
   of `pthread_cond_wait`, which POSIX permits, lets a thread into the next size
   on its own; it then answers messages of the wrong size.
2. The five nonblocking vector collectives overwrite the warm-up count of `-x`
   with the constants of `osu_coll.h`, and `osu_ibarrier` takes its iteration count
   from a static variable of that header that no option sets.
3. With `-w dynamic`, `osu_put_bw`, `osu_get_bw`, `osu_put_bibw` and
   `osu_acc_latency` take the address of the table of displacements for a
   displacement (`disp = disp_remote`; the two latency programs index it).
4. The two UPC++ copy programs start their timer while the copies of the warm-up
   are under way, and wait for them inside the timed part.
5. The pair function of the DASH port kept `me <= half` when the images were
   renumbered from 0. With four images, image 2 names 3 and image 3 names 0:
   nobody answers, and `sync images` does not return. (The multiple ping-pong of
   `dash/cafpt2ptdriver.cpp:51` has the same condition.)
6. The loops with lock and critical region make `syncinner/num_images()` delays
   per image (at least 2), but their time is divided by `syncinner`: the rest of
   the division is reported as overhead, with its sign reversed.
7. When verification fails in the DASH port, the image that notices returns alone;
   the others stay in the test, or meet it in the next one.

## Proofs

`LatencyMTProofs` proves, for every `NumThreads`, `NumSizes`, `LastSmall` and
trip counts that satisfy `LatencyMTAssumption` (positive numbers of threads,
sizes and timed iterations, natural numbers otherwise):

* `Invariance`: `Spec => []IInv`.
* `EqualSizeTheorem`, `TripCountTheorem`: `IInv` implies both properties.
* `BarrierRefinement`: every step of `LatencyMT` is a step of `RoundBarrier` or a
  stutter, under the mapping of `LatencyMT`.

`EqualSize` is not inductive: to know that a thread works on the size of the
message it takes one has to know in which round every thread and the sender
are. `IInv` says so. `RoundInv` ties `size[t]` to the number of `MPI_Barrier`s
rank 1 has entered, `LeaderInv` says that a leader is the only thread that is
not waiting (which makes it sound to reset the one counter), `CountInv` ties
`finished_size` to the number of waiting threads, `MutexInv` to who holds the
mutex, `SenderInv` keeps the two ranks within one round of each other,
`TokenInv` says that one message goes around, and the two options invariants
say when the shared options have their final values. The step that matters is
`EnterBarrier`: the counter equals `NumThreads` only if all the others wait
(lemma `LeaderIsAlone`, by the cardinality of the waiting set).

The second part of the module goes on from there to `SharesTheorem`:
`SharesCoverTheRun`. Its invariant `SInv` adds to `IInv` that a thread only works
on iterations of its own residue class (`ShareInv`), that until the sender has left
the barrier no thread that has anything to do is past its first iteration
(`LeaveInv`), and the property itself. The iterations nobody has answered yet are
counted as a finite set; a thread that takes a message removes exactly one from it.

`CafSyncProofs` proves `NeighboursMatchTheorem`: for every number of images,
every parameter and every permutation, the lists match. The assumption
`MatchingJobs` says for which builds: an even number of Fortran images (with an
odd one the pair test cannot pair up), and, after finding 5, at most two DASH
images. The pair function is symmetric by arithmetic (`PairMatches`); the ring
is symmetric because both ends of a link look at the same permutation
(`RingMatches`). That the images do look at the same one is what makes the
property no fact about the lists alone: the inductive invariant `NInv` says what
list an image has (`ListInv`) and that any two permutations drawn in the same
call are equal (`DrawInv`), on top of the shape of the state (`ShapeInv`).

`CafSyncProofs` goes on with the trials, for which `CafSyncAssumption` is enough.
Images do not compare where they are, but how many `sync all`s an image has left
since it began its call follows from its trial and the statement it is at
(`LeftInCall`). `PlaceInv` says what that statement tells about its loop
variables, `StartInv` that images in the same call began it with the same count,
and `BarrierInv` that a `sync all` that has been left was entered by all.
`TrialInvariance` ties call and trial of all images together by
these counts, which gives `TimerTheorem`: `TimerCoversTheTrial`. `TypeTheorem`
(`TypeOK`) and `NeighboursCountTheorem` (`AsManyNeighbours`) are about both suites;
the former asks for `EnoughImages`, because on a single image the DASH ring would
name image -1. The last part, `MatchInvariance` and `SeparationTheorem`
(`SyncSeparatesIterations`), is about `sync images`: `PairInv` says that two
neighbours have named each other equally often before each trial, and `DataInv` how
often within it. That a sync returns only at the same iteration then follows for
each kind of synchronisation by the counter it waits for. It uses `MatchingJobs`,
since images whose lists do not match do not synchronise with whom they name.

`CafTransferProofs` proves what the images of the transfer tests owe each other,
for every set of calls the drivers may make, any number of images and any
parameters that satisfy `CafTransferAssumption`:

* `ControlInvariance`: `Spec => [](Orderly => ControlInv)`, and from it
* `RepetitionsTheorem`: `SameRepetitions`, `LeaveTheorem`: `LeaveTogether`, both
  under `Orderly`, and `TimerTheorem`: `TimerCoversTransfers` in the Fortran suite;
* `CallInvariance`, and from it `PairsTheorem`: `PairsAgree`, under `PairsFit`.

None of the three first properties is inductive. Each image works out alone how
often it repeats a trial, whether a trial was long enough and whether to leave the
loop, and it does so by its own `gcheck` and `time`. These agree only because
between two `sync all`s every image has told the others its verdict, or one image the
time, and nobody overwrites either before all have read it. `ControlInv` therefore
speaks of the `sync all` to come. The statements of an image are data and differ
between images (who puts, who checks), but those that decide where it goes are the
same for all and come in the same order: the first part of the module says so for
every part of every call (`Trace`). So a place in the trace, with call, shape and repetition,
names a `sync all`, and the one an image will enter next is a function of where it
is, its verdict and its time (`Goal`). `SyncInv` says that the images which have
entered equally many `sync all`s have the same goal, and that the others are one
behind. `VerdictInv` says when two verdicts are equal, and that an image which has
yet to count the votes will find them as the others did; `TimeInv` says the same of
the time. `PlacedAt` and `LoopAt` tie the statements, the repetitions and the copies
under way of one image to its place. The main steps are one lemma for each
statement that touches a verdict or the time, and one for entering and one for
leaving a `sync all`.

`Orderly` means the Fortran suite, or results that are not verified. The DASH port
with verification is excepted because there an image leaves alone; `LeaveTogether`
fails (finding 7, run `caftransfer_dash`). `TimerTheorem` needs the segment
boundary that a Fortran `sync all` is: it ends the copies of the image. `PairsFit`
excepts the DASH port on an even number of images greater than two, whose multiple
pairs do not match (finding 5). `PairsTheorem` needs no invariant but that the
images are in calls of the driver; its weight is in the arithmetic of `Pair` for
every number of images.

`SortBenchProofs` proves, for every set of builds, every number of workers, keys
per worker, iterations and failing sorts (`SortBenchAssumption`):

* `SortInvariance`: `Spec => []IInv`, and from it
* `SortTypeTheorem`: types, `AlarmsTheorem`: `AlarmsAreReal`, and `TimerTheorem`:
  `TimerCoversTheSort`.

That an alarm is real depends on where all the workers are: a worker that reads
its neighbour's last key must not find there what the neighbour has drawn for the
next iteration. `IInv` therefore counts. `Sorts(w)` is how many sorts have taken
place as far as w can tell, and `SortedInv` says that all workers agree on it,
because a sort is one step of all. `Due(w)` is how many barriers w should have
entered where it is; with `BarrierInv` (a barrier that has been left was entered by
all) and `SkipInv` (workers that have skipped different numbers of barriers are
in an iteration with a disorder) it follows that in an iteration without a
disorder nobody is past the barrier while another still verifies.
`OwnPartInv` and `PartBeforeInv` then say that what is being verified is still
what the sort returned, and `ErrorInv` that errors are counted only where there
was disorder. `EarlyInv` (nobody skips a barrier as long as nobody left early)
gives `TimerCoversTheSort`.

Its second part proves `DisorderTheorem`: `DisorderNoticed`, under the same
assumption. The workers compare neighbouring keys only, so the disorder has to
show between two neighbours: the smallest position whose key is less than an
earlier one is less than the key just before it (`NumberLemmas!SmallestOf`). `NInv`
says that a disorder without an alarm is one of the iteration all workers are in,
and that some worker has `Evidence` of it: it has counted an error, is about to, or
has yet to compare two keys that are out of order (`NoticeInv`). `AheadInv` says
who may be ahead of others without a barrier: only DASH units that left early, and
they raise the alarm. Lost increments of the shared counter do not matter: a
lost one means that another one is written.

`OmbProofs` is about `OmbRun`, which executes programs given as data, so its
theorems are about a shape of programs:

* `CommonPathInvariance`, `MatchTheorem`: in a program that is the same for all
  ranks (`SameProgram`), whoever is behind will take the steps that the ones ahead
  have taken. So the state of each rank lies on one common path; the n-th call in
  the journal is the n-th collective on this path, and a nonblocking collective
  under way has its wait still ahead. `CollectivesMatch` follows, however far a
  rank that does not wait (the root of a broadcast) runs ahead.
* `TimerInvariance`, `AverageTheorem`: in a program of the shape of the collective
  benchmarks (`IsCollective`: barriers, `if (i == options.skip)`, one measured call,
  further ones that are not) the number of calls the timer covers is a function
  of the place in the loops. `AverageOverTheTimedCalls` follows.
* `SeparationInvariance`, `IterationsTheorem`: what a rank can know of the calls the
  others have made is a function of its place as well. It relies on the last call of
  each iteration, or the measured one, being one that waits for all ranks; a
  program without it (a bare broadcast per iteration) would not be `IsCollective`.
* `LeftInvariance`, `SyncTheorem`: on the common path, a call with a `pSync` array
  and the next one with an array never have the same, unless a call that waits for
  everyone lies between the two (`Later` says where the next call can be,
  `Succeeds` what it is). Whoever has left such a call knows that all have called it,
  so two processes can only be in the same collective or in neighbouring ones on the
  path, with different arrays: `SyncArraysFree`. The shape (`IsSynced`) asks for two
  alternating arrays in the loop, a barrier there or a collective that waits for
  everyone, and no array of the statistics twice in a row or next to the loop.
* `SuiteIsCollective`: each of the 42 collective benchmarks in MPI, OpenSHMEM, UPC
  and UPC++ has that shape, for any number of processes.
  `CollectivesTheorem` puts the three properties together. `ShmemArraysTheorem` does
  the same for the five OpenSHMEM collectives and `IsSynced`.

The last is where the theorems meet the code: the shape is not assumed of the
suite, it is proved of every program in it, and the hypotheses on sizes and
options are those of `OmbRun`.

`OmbWindowProofs` is about programs whose ranks do different things. There is no
common path, but where a rank can be follows from its own program: `PlaceInv` says
that it is at a statement of it, `Goes` where it can be next and under which
conditions, and everything else is an invariant about what lies between two places.
As in `OmbProofs` there are theorems about a shape of programs, and theorems that
the programs of a catalogue have that shape, for any number of processes, sizes and
iterations, all options and all windows:

* `HitTheorem`: `AccessesHitTheWindow` in every program whose operations have
  displacement 0 or come after the statement that sets `disp_remote` for them
  (`Aimed`). The inductive part is `PointerInv`: a rank that has passed this
  statement has the pointer it left, whatever was in it for the size before.
* `SettledInvariance`, `SettledTheorem`: `UpdatesSeparated` in every program that
  completes its operations in the iteration that issued them. `SettledInv` says that
  an operation which has to be waited for belongs to the iteration the rank is in,
  and that the call that completes it is still ahead.
* `TimedTheorem`: `TimedOperations` in every program that reads the clock only where
  `SettledInv` leaves nothing to wait for, if the ranks that measure are not accessed
  by others (`ReachInv` says who is).
* `EpochInvariance`, `ServedInvariance`, `EpochsTheorem`: `UpdatesSeparated` in the
  programs where nothing at the origin waits: `MPI_Win_complete` returns when the
  operations are locally complete. Here it is the target that keeps iterations apart.
  `EpochInv` ties the counters of epochs to the place of a rank, so two operations of
  one epoch are of one iteration; `ServedInv` says that a target that is past its k-th
  `MPI_Win_wait` has been left k times by all others, and that none of their
  operations of these epochs is under way. So at most the operations of one epoch can be.
* `OneSidedHits`, `OneSidedUpdates`, `OneSidedTimed`, `OneSidedTurns`: these
  properties and `OneWayAtATime` for the nine programs of `mpi/one-sided` that have
  a window of their own on each rank (`IsOneSidedProgram`; all but
  `osu_alloc_latency`), with every `-s` and every `-w`. `OneSidedHits` excepts the
  four programs of finding 3 with `-w dynamic`, `OneSidedTimed` those whose
  operations go both ways, `OneSidedTurns` fences. The turns rest on one
  more invariant, `TurnInv`: each rank has begun as many access epochs as it has seen
  exposures of its own end, but rank 0 one more while it waits for its turn to come
  back, and rank 1 one less while it owes its own.
* `DartTheorem`, `ShmemTheorem`: the same for the two DART programs and for
  `osu_oshm_put` and `osu_oshm_get`. `shmem_quiet` settles the put; a
  `dart_flush_local` lets operations of two iterations overlap, which
  `UpdatesSeparated` permits.

`OmbMessageProofs` goes on from there to messages:

* `MessagesTheorem`: `SameTrial` in every program that exchanges its messages in one
  section of each size and, per iteration, sends as many messages of a kind to a peer
  as the peer receives from it (`Messaging`). Neither end knows the iteration of the
  other, and a sender may be several iterations ahead, so nothing about one message
  is inductive. Counting is: `BalanceInv` says for every channel, tag, size and
  iteration that as many messages of it have been matched at the sender as
  receives of it at the receiver, where what is matched is the statements passed
  less the entries still in the queue. `PostedInv` says that what waits in a queue was
  posted by a statement the rank has passed, in the order of the iterations, so a step
  that matched an older message with a younger receive would contradict the
  counts of the older iteration. `IterationInv` and `OptionsInv` give both ranks the
  same numbers of iterations.
* `TransferTheorem`: `TransferOverWhenTimerStops`, if moreover each sending rank waits
  for an answer that is sent only when everything of the iteration has been received
  (`Answered`): the receive of the answer has been matched, so by `BalanceInv` it has
  been sent, so the receives before it are complete, so by `BalanceInv` again nothing
  is left in the queue of the sender.
* `PairwiseMessages`, `PairwiseTransfers`: both for `osu_latency`, `osu_bw`,
  `osu_bibw` and `osu_multi_lat` with any number of processes, windows, sizes and
  iterations, eager or not. `osu_bibw`, which has no answer, is not covered by the
  property itself.

The hypotheses on the constants are those of `OmbRun` on options and sizes and
`OmbPt2PtAssumption` on window sizes; `IsOneSidedProgram` and `IsPairwiseProgram`
are nothing but the lists of programs.

Induction over data is not available as such (the library's rules take an operator
as a parameter). Where an argument needs it, it is by smallest counterexample: a
non-empty set of natural numbers has a least element, which `NumberLemmas` proves
from the well-foundedness of `<` on the naturals.

Only model-checked are

* `Termination` and `SortEnds`: liveness is out of the prover's reach;
* of `CafTransfer` the properties about the cells of the co-array, `NoRace`,
  `NoFalseAlarm` and `FaultNoticed`, and `TransferTypeOK`. The bound of the latter on
  `trialnrep` does not hold for every `MaxNrep`: a trial may be repeated more often
  if it is not a power of two;
* `NoOverheadOfItsOwn`, which depends on the clocks of all images;
* `WinTypeOK` and `MemoryAtRest`. The former is about the variables of all programs
  together, of which each theorem needs its own part only; the latter says that a
  rank that reuses a buffer knows what the others have done, which takes the barriers
  between sizes and, in the pairs without one, a further argument on messages;
* `SameTrial` and `TransferOverWhenTimerStops` of `osu_mbw_mr`. Its body is the
  concatenation of the bodies for any number of windows (`FlattenSeq`, a
  recursive function), and what such a sequence contains is an induction over data;
* `PairsTimedTogether`, and `CollectivesMatch` and `AverageOverTheTimedCalls` of
  programs whose ranks do different things. Where these meet is a matter
  of counting collectives in two different programs;
* `OneWayAtATime` with fences, for the same reason, and `TimedOperations` where
  operations go both ways;
* `UpdatesSeparated` and `TimedOperations` of the one-sided UPC and UPC++ programs,
  of the other OpenSHMEM ones and of `osu_alloc_latency`;
* `SyncArraysFree` for the message rate and the atomics of OpenSHMEM, whose ranks also
  do different things.

## Not modelled

* Option parsers (`osu_pt2pt.c`, `osu_coll.c`, `osu_1sc.c`, the `osu_common` files):
  they handle strings, and their outcome is the constant `Options`. They contain
  slips that no model is needed for: `osu_pt2pt.c:161` accepts other numbers of
  threads than its usage text says, and the `h:` of `osu_1sc.c:213` makes `-h` ask
  for an argument.
* Memory outside arrays. `osu_reduce_scatter.c:87` divides the size of its receive
  buffer rounded down while its counts round up for the first ranks;
  `dash/cafsync.cpp:110` writes `time[outerreps]`, one beyond the end of the vector;
  `osu_oshm_reduce.c:85` takes bytes for floats in its work array.
* Numbers of processes that the programs do not reject but cannot run with: an odd
  number for `osu_multi_lat` and for the pair test of the CAF suite, one for
  `osu_put_latency` and for MPI send in the ping-pong; `-w 0` and `-i 0` of
  `osu_mbw_mr` (`OmbPt2PtAssumption` asks for positive numbers).
* The reply that the README (94-97) describes for `osu_bibw` and that its code does
  not wait for; `TransferOverWhenTimerStops` is about the programs that have one.
* Three programs that touch memory which operations may still access
  (`Unsettled` in `OmbSuite`, left out of `MemoryAtRest`): the `memset` of
  `osu_oshm_put_mr.c` while the peer may have begun to put, the atomics of
  `osu_oshm_atomics.c` that are not followed by a quiet, and
  `dart_team_memfree` after a local flush.
* In the Fortran CAF suite `getneighs3d` (the 3D test needs eight images; with
  exactly eight, `cafcore.f90:869`, up and down neighbours are the same image and the
  list repeats them), `cafoverlap`, which no driver calls, and halo blocks that are
  not cubes (`cafhalo.f90:200` has `dimz` for `dimx`, which makes no difference for a
  cube). `stats` divides one trial too few by the number of all (`cafsync.f90:249`).
* DASH ping-pong on four images: its multiple pairs do not match (finding 5).
* In the sort benchmark the length of parts, which usort may change, and the
  distribution of the keys. Verification compares neighbours only, so a sort that
  loses keys would not be noticed; `parallel_verify` of the MPI back ends does not
  compare parts with each other, and `parallel_rand` there has no barrier before the
  timer, which is why both are excepted in the properties.
* `mpi/startup`: straight-line code. Accelerator buffers and CUDA kernels, output,
  the sorting libraries, vendored code, plots and job files.

## Plan

What could be added next, in this order: the alignment of collectives between ranks
that do different things, from which `PairsTimedTogether`, the fences of
`OneWayAtATime` and `MemoryAtRest` of the pairs follow; the messages of `osu_mbw_mr`;
`NoRace` of `CafTransfer`, on top of `ControlInv`, and from it `NoFalseAlarm`;
`getneighs3d` with its eight images as a function of its own; the buffer sizes of the
vector and reduce-scatter programs as pure algorithms; `WinTypeOK`.
