------------------------------ MODULE CafSync -------------------------------
(***************************************************************************)
(* The synchronisation benchmarks of the CAF suites: cafsyncdriver calls   *)
(* cafsyncbench once per kind of synchronisation; each call times a loop   *)
(* of delays alone (the reference), then loops of delays with a            *)
(* synchronisation after each, and subtracts.                              *)
(*                                                                         *)
(* Of the co-array library the program relies on: sync all, sync images    *)
(* (an image waits until each image it names has named it as many times)   *)
(* and a lock.  The clock counts delays: making one advances the image's   *)
(* clock by 1, synchronisation takes no time of its own, so an image only  *)
(* loses time by waiting for the delays of others.                         *)
(***************************************************************************)
EXTENDS CafNeighbours, Sequences, FiniteSetsExt

CONSTANTS Jobs,          \* builds and numbers of images, [port, images]
          Shuffles,      \* Shuffles[jb]: the permutations getperm may return
          SyncOuter,     \* syncouter: trials of a test, besides trial 0
          SyncInner,     \* syncinner: delays in a trial
          SyncMaxNeigh   \* syncmaxneigh

ASSUME CafSyncAssumption ==
  /\ \A jb \in Jobs : jb.port \in Ports /\ jb.images \in Nat \ {0}
  /\ \A jb \in Jobs : Shuffles[jb] \subseteq Arrangements(jb.port, jb.images)
  /\ SyncOuter \in Nat \ {0}
  /\ SyncInner \in Nat \ {0}
  /\ SyncMaxNeigh \in Nat

VARIABLES
  job,         \* the build and the number of images
  pc,          \* pc[p]: the statement image p is about to execute
  bench,       \* bench[p]: which call of cafsyncbench it is in
  k, j,        \* k[p], j[p]: the loop variables
  neighbours,  \* neighbours[p]: the list p passes to sync images, as a set
  perms,       \* perms[b][p]: what getperm returned to image p in call b
  arrivals,    \* arrivals[p]: how many sync all image p has entered
  inside,      \* inside[p]: is it in one?
  released,    \* the clock when the last sync all was complete
  posted,      \* posted[p][q]: how often p has named q in sync images
  mutex,       \* the image that holds caflock or is in the critical region
  freed,       \* the clock when the lock was last released
  clock,       \* clock[p]: the time on image p
  tstart,      \* tstart[p]
  time,        \* time[p][k], not yet divided by innercount
  reference    \* reference[p]: the reference time, as stats adds it up

test      == <<job, bench, perms>>
loops     == <<k, j>>
global    == <<arrivals, inside, released>>
lock      == <<mutex, freed>>
timing    == <<tstart, time, reference>>
vars == <<test, pc, loops, neighbours, global, posted, lock, clock, timing>>

-----------------------------------------------------------------------------
Im     == Images(job.port, job.images)
NoLock == -1

Test(type, numneigh) == [type |-> type, numneigh |-> numneigh]

\* The calls that cafsyncdriver makes.
Driver(jb) ==
  LET limit == IF SyncMaxNeigh < jb.images - 2 THEN SyncMaxNeigh ELSE jb.images - 2
      rings == IF limit < 2 THEN 0 ELSE limit \div 2
  IN  <<Test("all", 1), Test("pair", 1)>>
        \o [m \in 1 .. 2 * rings |->
              Test(IF m % 2 = 1 THEN "ring" ELSE "rand", 2 * ((m + 1) \div 2))]
        \o <<Test("lock", 1), Test("crit", 1)>>

Current(p) == Driver(job)[bench[p]]
Type(p)    == Current(p).type

PointToPoint == {"pair", "ring", "rand"}
Serialised   == {"lock", "crit"}

AtLeastTwo(i) == IF i < 2 THEN 2 ELSE i

\* Mutant: the serialised loops do not share the delays out.
InnerRepsUnscaled(p) == SyncInner

\* innerreps in the timed loop, and in the reference loop.
InnerReps(p) ==
  IF Type(p) \in Serialised THEN AtLeastTwo(SyncInner \div job.images) ELSE SyncInner

ReferenceReps(p) ==
  IF Type(p) \in Serialised THEN InnerReps(p) * job.images ELSE SyncInner

\* The trials the mean is summed over: stats starts at 2; in the DASH port
\* the vector has outerreps elements, of which calcstats leaves out the first.
Averaged == IF job.port = "dash" THEN 1 .. SyncOuter - 1 ELSE 2 .. SyncOuter

\* Mutant: without the sync all before the second reading of the clock.
AfterRepeatAtOnce(p, done) == IF done < InnerReps(p) THEN "repeat" ELSE "stop"

AfterRepeat(p, done) == IF done < InnerReps(p) THEN "repeat" ELSE "end"

Goto(p, label) == pc' = [pc EXCEPT ![p] = label]

\* Back in cafsyncdriver, which makes the next call.
Return(p) ==
  /\ bench' = [bench EXCEPT ![p] = @ + 1]
  /\ k' = [k EXCEPT ![p] = 0]
  /\ j' = [j EXCEPT ![p] = 0]
  /\ Goto(p, IF bench[p] = Len(Driver(job)) THEN "done" ELSE "setup")

-----------------------------------------------------------------------------
Undrawn == <<>>

Init ==
  /\ job \in Jobs
  /\ pc = [p \in Im |-> "setup"]
  /\ bench = [p \in Im |-> 1]
  /\ k = [p \in Im |-> 0]
  /\ j = [p \in Im |-> 0]
  /\ neighbours = [p \in Im |-> {}]
  /\ perms = [b \in DOMAIN Driver(job) |-> [p \in Im |-> Undrawn]]
  /\ arrivals = [p \in Im |-> 0]
  /\ inside = [p \in Im |-> FALSE]
  /\ released = 0
  /\ posted = [p \in Im |-> [q \in Im |-> 0]]
  /\ mutex = NoLock
  /\ freed = 0
  /\ clock = [p \in Im |-> 0]
  /\ tstart = [p \in Im |-> 0]
  /\ time = [p \in Im |-> [i \in 0 .. SyncOuter |-> 0]]
  /\ reference = [p \in Im |-> [sum |-> 0, reps |-> 1]]

\* DASH returns to the driver, Fortran stops the image.
Refuse(p) ==
  /\ pc[p] = "setup" /\ Type(p) \in PointToPoint
  /\ TooManyNeighbours(job.port, job.images, Current(p).numneigh)
  /\ IF job.port = "dash" THEN Return(p)
     ELSE Goto(p, "stopped") /\ UNCHANGED <<bench, loops>>
  /\ UNCHANGED <<job, perms, neighbours, global, posted, lock, clock, timing>>

\* Mutant: Fortran images with seeds of their own.
MayDrawAny(p, perm) == TRUE

(***************************************************************************)
(* getperm draws from std::random_device in the DASH port, so each image   *)
(* has a permutation of its own.  random_number is not seeded in Fortran;  *)
(* the suite depends on all images getting the same numbers.               *)
(***************************************************************************)
MayDraw(p, perm) ==
  job.port = "fortran" =>
    \A q \in Im : perms[bench[p]][q] \in {Undrawn, perm}

ListOf(p, perm) ==
  IF Type(p) = "pair" THEN GetNeighsPair(job.port, job.images, p)
  ELSE GetNeighsRing(job.port, job.images, p, Current(p).numneigh, perm)

Setup(p) ==
  /\ pc[p] = "setup"
  /\ Type(p) \in PointToPoint =>
       ~TooManyNeighbours(job.port, job.images, Current(p).numneigh)
  /\ \/ /\ Type(p) = "rand"
        /\ \E perm \in Shuffles[job] :
             /\ MayDraw(p, perm)
             /\ perms' = [perms EXCEPT ![bench[p]][p] = perm]
             /\ neighbours' = [neighbours EXCEPT ![p] = ListOf(p, perm)]
     \/ /\ Type(p) \in {"pair", "ring"}
        /\ neighbours' =
             [neighbours EXCEPT ![p] = ListOf(p, Identity(job.port, job.images))]
        /\ UNCHANGED perms
     \/ /\ Type(p) \notin PointToPoint
        /\ neighbours' = [neighbours EXCEPT ![p] = {}]
        /\ UNCHANGED perms
  /\ Goto(p, "ready")
  /\ UNCHANGED <<job, bench, loops, global, posted, lock, clock, timing>>

(***************************************************************************)
(* sync all, wherever it is called.                                        *)
(***************************************************************************)
AfterSyncAll(p) ==
  CASE pc[p] = "ready"    -> "reference"
    [] pc[p] = "measured" -> "begin"
    [] pc[p] = "begin"    -> "start"
    [] pc[p] = "all"      -> AfterRepeat(p, j[p])
    [] pc[p] = "end"      -> "stop"

EnterSyncAll(p) ==
  /\ pc[p] \in {"ready", "measured", "begin", "all", "end"} /\ ~inside[p]
  /\ inside' = [inside EXCEPT ![p] = TRUE]
  /\ arrivals' = [arrivals EXCEPT ![p] = @ + 1]
  /\ released' = IF \A q \in Im \ {p} : arrivals[q] > arrivals[p]
                 THEN Max({clock[q] : q \in Im}) ELSE released
  /\ UNCHANGED <<test, pc, loops, neighbours, posted, lock, clock, timing>>

LeaveSyncAll(p) ==
  /\ inside[p]
  /\ \A q \in Im : arrivals[q] >= arrivals[p]
  /\ inside' = [inside EXCEPT ![p] = FALSE]
  /\ clock' = [clock EXCEPT ![p] = released]
  /\ Goto(p, AfterSyncAll(p))
  /\ UNCHANGED <<test, loops, neighbours, arrivals, released, posted, lock, timing>>

-----------------------------------------------------------------------------
\* What stats divides by outerreps, of times that were divided by reps.
SumOfTimes(times, reps) ==
  [sum |-> MapThenSumSet(LAMBDA i : times[i], Averaged), reps |-> reps]

\* The loop of delays without synchronisation.
Reference(p) ==
  LET times == [i \in 0 .. SyncOuter |-> ReferenceReps(p)]
  IN  /\ pc[p] = "reference"
      /\ clock' = [clock EXCEPT ![p] = @ + (SyncOuter + 1) * ReferenceReps(p)]
      /\ time' = [time EXCEPT ![p] = times]
      /\ reference' = [reference EXCEPT ![p] = SumOfTimes(times, ReferenceReps(p))]
      /\ Goto(p, "measured")
      /\ UNCHANGED <<test, loops, neighbours, global, posted, lock, tstart>>

StartTimer(p) ==
  /\ pc[p] = "start"
  /\ tstart' = [tstart EXCEPT ![p] = clock[p]]
  /\ Goto(p, "repeat")
  /\ UNCHANGED <<test, loops, neighbours, global, posted, lock, clock, time, reference>>

\* One delay on image p, and the number of the iteration it belongs to.
Delay(p) == clock' = [clock EXCEPT ![p] = @ + 1]
Repeat(p) == j' = [j EXCEPT ![p] = @ + 1]

DelayAndSyncAll(p) ==
  /\ pc[p] = "repeat" /\ Type(p) = "all"
  /\ Delay(p)
  /\ Repeat(p)
  /\ Goto(p, "all")
  /\ UNCHANGED <<test, k, neighbours, global, posted, lock, timing>>

DelayAndPost(p) ==
  /\ pc[p] = "repeat" /\ Type(p) \in PointToPoint
  /\ Delay(p)
  /\ Repeat(p)
  /\ posted' = [posted EXCEPT ![p] =
       [q \in Im |-> @[q] + (IF q \in neighbours[p] THEN 1 ELSE 0)]]
  /\ Goto(p, "images")
  /\ UNCHANGED <<test, k, neighbours, global, lock, timing>>

\* Mutant: one neighbour is enough.
SyncImagesWithOne(p) ==
  /\ pc[p] = "images"
  /\ \E q \in neighbours[p] : posted[q][p] >= posted[p][q]
  /\ Goto(p, AfterRepeat(p, j[p]))
  /\ UNCHANGED <<test, loops, neighbours, global, posted, lock, clock, timing>>

\* Images that meet here have made as many delays: nobody loses time.
SyncImages(p) ==
  /\ pc[p] = "images"
  /\ \A q \in neighbours[p] : posted[q][p] >= posted[p][q]
  /\ Goto(p, AfterRepeat(p, j[p]))
  /\ UNCHANGED <<test, loops, neighbours, global, posted, lock, clock, timing>>

LockAndDelay(p) ==
  /\ pc[p] = "repeat" /\ Type(p) \in Serialised
  /\ mutex = NoLock
  /\ mutex' = p
  /\ clock' = [clock EXCEPT ![p] = Max({@, freed}) + 1]
  /\ Goto(p, "unlock")
  /\ UNCHANGED <<test, loops, neighbours, global, posted, freed, timing>>

\* Mutant: the last release of the loop is lost.
UnlockLost(p) ==
  /\ pc[p] = "unlock"
  /\ mutex' = IF j[p] + 1 < InnerReps(p) THEN NoLock ELSE mutex
  /\ freed' = clock[p]
  /\ Repeat(p)
  /\ Goto(p, AfterRepeat(p, j[p] + 1))
  /\ UNCHANGED <<test, k, neighbours, global, posted, clock, timing>>

Unlock(p) ==
  /\ pc[p] = "unlock"
  /\ mutex' = NoLock
  /\ freed' = clock[p]
  /\ Repeat(p)
  /\ Goto(p, AfterRepeat(p, j[p] + 1))
  /\ UNCHANGED <<test, k, neighbours, global, posted, clock, timing>>

\* Mutant: one trial too many.
StopTimerTooLate(p) ==
  /\ pc[p] = "stop"
  /\ time' = [time EXCEPT ![p][k[p]] = clock[p] - tstart[p]]
  /\ IF k[p] <= SyncOuter
     THEN /\ k' = [k EXCEPT ![p] = @ + 1]
          /\ j' = [j EXCEPT ![p] = 0]
          /\ Goto(p, "begin")
     ELSE Goto(p, "report") /\ UNCHANGED loops
  /\ UNCHANGED <<test, neighbours, global, posted, lock, clock, tstart, reference>>

StopTimer(p) ==
  /\ pc[p] = "stop"
  /\ time' = [time EXCEPT ![p][k[p]] = clock[p] - tstart[p]]
  /\ IF k[p] < SyncOuter
     THEN /\ k' = [k EXCEPT ![p] = @ + 1]
          /\ j' = [j EXCEPT ![p] = 0]
          /\ Goto(p, "begin")
     ELSE Goto(p, "report") /\ UNCHANGED loops
  /\ UNCHANGED <<test, neighbours, global, posted, lock, clock, tstart, reference>>

Report(p) ==
  /\ pc[p] = "report"
  /\ Return(p)
  /\ UNCHANGED <<job, perms, neighbours, global, posted, lock, clock, timing>>

-----------------------------------------------------------------------------
Step(p) ==
  \/ Refuse(p)
  \/ Setup(p)
  \/ EnterSyncAll(p)
  \/ LeaveSyncAll(p)
  \/ Reference(p)
  \/ StartTimer(p)
  \/ DelayAndSyncAll(p)
  \/ DelayAndPost(p)
  \/ SyncImages(p)
  \/ LockAndDelay(p)
  \/ Unlock(p)
  \/ StopTimer(p)
  \/ Report(p)

Over(p) == pc[p] \in {"done", "stopped"}
AllOver == \A p \in Im : Over(p)
Exit    == AllOver /\ UNCHANGED vars

Next == (\E p \in Im : Step(p)) \/ Exit

\* Images run in parallel and the lock is handed out as long as it is free;
\* the loops are finite, so no image can keep another from it for ever.
Spec == Init /\ [][Next]_vars /\ WF_vars(Next)

-----------------------------------------------------------------------------
Labels == {"setup", "ready", "reference", "measured", "begin", "start", "repeat", "all",
           "images", "unlock", "end", "stop", "report", "done", "stopped"}

TypeOK ==
  /\ job \in Jobs
  /\ pc \in [Im -> Labels]
  /\ \A p \in Im :
       /\ ~Over(p) => /\ bench[p] \in DOMAIN Driver(job)
                      /\ j[p] \in 0 .. InnerReps(p)
       /\ k[p] \in 0 .. SyncOuter
       /\ neighbours[p] \subseteq Im
       /\ inside[p] => pc[p] \in {"ready", "measured", "begin", "all", "end"}
       /\ arrivals[p] \in Nat
       /\ clock[p] \in Nat
       /\ tstart[p] \in 0 .. clock[p]
       /\ time[p] \in [0 .. SyncOuter -> Nat]
  /\ posted \in [Im -> [Im -> Nat]]
  /\ mutex \in Im \cup {NoLock}

\* Image p has its list for the call it is in.
Listed(p) == ~Over(p) /\ pc[p] # "setup" /\ Type(p) \in PointToPoint

(***************************************************************************)
(* The lists that images compute for themselves, each without asking the   *)
(* others, fit together (README, sync images pairwise and random: images   *)
(* are paired up, the neighbours all match up).  If one names another and  *)
(* is not named by it, sync images never returns.                          *)
(***************************************************************************)
NeighboursMatch ==
  \A p, q \in Im :
    Listed(p) /\ Listed(q) /\ bench[p] = bench[q]
      => (q \in neighbours[p] <=> p \in neighbours[q])

(***************************************************************************)
(* An image has as many neighbours as the test asks for, and is none of    *)
(* them unless it is its own pair: no two partners are the same image, the *)
(* vector neighs is filled exactly, "internal error" never happens.        *)
(***************************************************************************)
AsManyNeighbours ==
  \A p \in Im : Listed(p) => Cardinality(neighbours[p]) = Current(p).numneigh

\* How far image q is: the calls, trials and iterations it has begun.
HasBegun(q, b, trial, iteration) ==
  \/ bench[q] > b
  \/ bench[q] = b /\ k[q] > trial
  \/ bench[q] = b /\ k[q] = trial /\ j[q] >= iteration

(***************************************************************************)
(* When a synchronisation returns, every image it was with has made the    *)
(* delay before the same synchronisation: no call of an earlier iteration, *)
(* trial or test is taken for it.                                          *)
(***************************************************************************)
SynchronisedWith(p) == IF Type(p) = "all" THEN Im ELSE neighbours[p]

SyncSeparatesIterations ==
  \A p \in Im :
    pc[p] \in {"repeat", "end", "stop"} =>
      \A q \in SynchronisedWith(p) : HasBegun(q, bench[p], k[p], j[p])

(***************************************************************************)
(* The timer of a trial covers that trial of all images and nothing else:  *)
(* when an image stops it, all have made their last synchronisation of the *)
(* trial, and none has begun the next.                                     *)
(***************************************************************************)
TimerCoversTheTrial ==
  \A p \in Im :
    pc[p] = "stop" =>
      \A q \in Im :
        \/ bench[q] = bench[p] /\ k[q] = k[p] /\ j[q] = InnerReps(p)
        \/ bench[q] = bench[p] /\ k[q] = k[p] + 1 /\ pc[q] = "begin"
        \/ k[p] = SyncOuter /\ bench[q] = bench[p] + 1 /\ pc[q] \in {"setup", "ready", "done"}

(***************************************************************************)
(* What is reported is the overhead of synchronisation: the loop time less *)
(* the reference time counts no delays (README: the time for some          *)
(* computation is compared to computation plus synchronisation).  Here     *)
(* synchronisation takes no time, so the difference must be 0.             *)
(***************************************************************************)
NoOverheadOfItsOwn ==
  \A p \in Im :
    pc[p] = "report" =>
      SumOfTimes(time[p], SyncInner).sum * reference[p].reps = reference[p].sum * SyncInner

(***************************************************************************)
(* Every image gets through all tests, or is stopped by one that refuses.  *)
(***************************************************************************)
Termination == <>AllOver
=============================================================================
