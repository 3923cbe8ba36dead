----------------------------- MODULE CafTransfer -----------------------------
(***************************************************************************)
(* The images of a CAF suite executing the transfer benchmarks: the calls  *)
(* of cafpingpong and cafhaloswap that the drivers make, one after the     *)
(* other.  The images run in parallel.  Copies an image has started take   *)
(* effect at any time until they are complete; "compilers can go wrong"    *)
(* (cafparams), which is why the results may be verified: up to            *)
(* jb.faults copies are lost.  How long a trial takes is open.             *)
(***************************************************************************)
EXTENDS CafPingPong, CafHalo, FiniteSets, TLC

CONSTANTS Builds,       \* the builds that are run, with their numbers of images
          MaxNrep       \* bound: a trial of that many repetitions is long enough

(***************************************************************************)
(* A build: port, images, check (p2pcheck, halocheck), halo (is the halo   *)
(* benchmark run?), modes (of transfer), eager (does MPI_Send buffer?),    *)
(* maxndata, maxstride, faults (how many copies are lost) and, to bound    *)
(* the runs, row: the number of calls that are looked at in a row.         *)
(***************************************************************************)
ASSUME CafTransferAssumption ==
  /\ \A jb \in Builds :
       /\ jb.port \in {"fortran", "dash"}
       /\ jb.images \in Nat \ {0}
       /\ jb.check \in BOOLEAN /\ jb.halo \in BOOLEAN /\ jb.eager \in BOOLEAN
       /\ jb.modes \in Seq(STRING)
       /\ jb.maxndata \in Nat \ {0} /\ jb.maxstride \in Nat \ {0}
       /\ jb.faults \in Nat /\ jb.row \in Nat \ {0}
  /\ MaxNrep \in Nat \ {0}

VARIABLES
  build,      \* the build
  until,      \* the last call that is looked at
  call,       \* call[p]: the call image p is in
  section,    \* section[p]: the part of it
  todo,       \* todo[p]: the statements of that part that p has yet to execute
  shape,      \* shape[p]: count, blksize and stride
  trialnrep, irep, nrep,
  x,          \* x[p]: the array of image p, a function on its cells
  underway,   \* underway[p]: the copies p has started
  mail,       \* mail[p][q]: what p has sent to q and q has not received
  arrivals,   \* arrivals[p]: how many sync all image p has entered
  posted,     \* posted[p][q]: how often p has named q in sync images
  inside,     \* inside[p]: is p in one of these?
  lcheck, gcheck, ltmp,
  time, dtmp,
  lost        \* the calls during which a copy was lost

program   == <<build, until>>
control   == <<call, section, todo, shape, trialnrep, irep, nrep>>
arrays    == <<x, underway, mail>>
images    == <<arrivals, posted, inside>>
verdicts  == <<lcheck, gcheck, ltmp>>
clocks    == <<time, dtmp>>
vars == <<program, control, arrays, images, verdicts, clocks, lost>>

Im == IF build.port = "dash" THEN 0 .. build.images - 1 ELSE 1 .. build.images

Driver(jb) ==
  IF jb.port = "dash" THEN DashDriver(jb)
  ELSE FortranDriver(jb) \o Only(jb.halo, HaloDriver(jb))

Calls      == [jb \in Builds |-> Driver(jb)]
Current(p) == Calls[build][call[p]]
Halo(p)    == Current(p).kind = "halo"

\* The statements of a part of call c, on image p.
Part(c, p, part, sh, rep) ==
  LET halo == c.kind = "halo"
  IN  CASE part = "open"   -> IF halo THEN HaloOpen ELSE PingPongOpen(c)
        [] part = "resize" -> Only(~halo, PingPongResize(c, sh))
        [] part = "trial"  -> IF halo THEN HaloTrial(p) ELSE PingPongTrial(c, p, sh)
        [] part = "body"   -> IF halo THEN HaloBody(c, p, rep)
                              ELSE PingPongBody(c, p, sh, rep)
        [] part = "close"  -> IF halo THEN HaloClose(p) ELSE PingPongClose(c, p)
        [] part = "report" -> <<>>
        [] part = "end"    -> Deallocate

AtEnd(p)     == todo[p] = <<>>
Now(p)       == Head(todo[p])
About(p, op) == ~AtEnd(p) /\ Now(p).op = op

Advance(p) ==
  /\ todo' = [todo EXCEPT ![p] = Tail(@)]
  /\ UNCHANGED <<call, section, shape, trialnrep, irep, nrep>>

\* On to another part of the same call, with this shape and repetition.
Goto(p, part, sh, rep) ==
  /\ section' = [section EXCEPT ![p] = part]
  /\ shape' = [shape EXCEPT ![p] = sh]
  /\ irep' = [irep EXCEPT ![p] = rep]
  /\ todo' = [todo EXCEPT ![p] = Part(Current(p), p, part, sh, rep)]
  /\ UNCHANGED call

NoShape      == Shape(0, 0, 0)
AtMost(i, n) == IF i < n THEN i ELSE n

Init ==
  /\ build \in Builds
  /\ \E first \in DOMAIN Calls[build] :
       /\ call = [p \in Im |-> first]
       /\ until = AtMost(first + build.row - 1, Len(Calls[build]))
  /\ section = [p \in Im |-> "open"]
  /\ todo = [p \in Im |-> Part(Current(p), p, "open", NoShape, 0)]
  /\ shape = [p \in Im |-> NoShape]
  /\ trialnrep = [p \in Im |-> 1]
  /\ irep = [p \in Im |-> 0]
  /\ nrep = [p \in Im |-> 0]
  /\ x = [p \in Im |-> <<>>]
  /\ underway = [p \in Im |-> {}]
  /\ mail = [p \in Im |-> [q \in Im |-> <<>>]]
  /\ arrivals = [p \in Im |-> 0]
  /\ posted = [p \in Im |-> [q \in Im |-> 0]]
  /\ inside = [p \in Im |-> FALSE]
  /\ lcheck = [p \in Im |-> TRUE]
  /\ gcheck = [p \in Im |-> TRUE]
  /\ ltmp = [p \in Im |-> TRUE]
  /\ time = [p \in Im |-> "short"]
  /\ dtmp = "short"
  /\ lost = {}

-----------------------------------------------------------------------------
\* The array of an image.
AllocateArray(p) ==
  /\ About(p, "allocate")
  /\ x' = [x EXCEPT ![p] = [i \in 1 .. Now(p).size |-> 0]]
  /\ Advance(p)
  /\ UNCHANGED <<program, underway, mail, images, verdicts, clocks, lost>>

AssignArray(p) ==
  /\ About(p, "assign")
  /\ x' = [x EXCEPT ![p] = Now(p).values @@ @]
  /\ Advance(p)
  /\ UNCHANGED <<program, underway, mail, images, verdicts, clocks, lost>>

CheckArray(p) ==
  /\ About(p, "check")
  /\ LET wanted == Now(p).wanted
         right  == \A i \in DOMAIN wanted : x[p][i] = wanted[i]
     IN  lcheck' = [lcheck EXCEPT ![p] = right /\ (Now(p).kept => @)]
  /\ Advance(p)
  /\ UNCHANGED <<program, arrays, images, gcheck, ltmp, clocks, lost>>

\* Unverified runs look at the first cell only, to use the data at all.
CheckData(p) ==
  /\ About(p, "check data")
  /\ lcheck' = [lcheck EXCEPT ![p] = x[p][1] # 0]
  /\ Advance(p)
  /\ UNCHANGED <<program, arrays, images, gcheck, ltmp, clocks, lost>>

ResetChecks(p) ==
  /\ About(p, "reset checks")
  /\ lcheck' = [lcheck EXCEPT ![p] = TRUE]
  /\ gcheck' = [gcheck EXCEPT ![p] = TRUE]
  /\ Advance(p)
  /\ UNCHANGED <<program, arrays, images, ltmp, clocks, lost>>

\* Copies.
StartTransfer(p) ==
  /\ About(p, "transfer")
  /\ underway' = [underway EXCEPT ![p] = @ \cup Now(p).copies]
  /\ Advance(p)
  /\ UNCHANGED <<program, x, mail, images, verdicts, clocks, lost>>

\* The arrays once the copies have been made.
After(copies) ==
  [q \in Im |->
     [i \in DOMAIN x[q] |->
        IF \E k \in copies : k.to = q /\ k.dst = i
        THEN LET k == CHOOSE k \in copies : k.to = q /\ k.dst = i
             IN  x[k.from][k.src]
        ELSE x[q][i]]]

Deliver(p) ==
  /\ underway[p] # {}
  /\ \/ x' = After(underway[p]) /\ UNCHANGED lost
     \/ /\ Cardinality(lost) < build.faults
        /\ \E k \in underway[p] :
             /\ x[k.from][k.src] # x[k.to][k.dst]
             /\ x' = After(underway[p] \ {k})
        /\ lost' = lost \cup {call[p]}
  /\ underway' = [underway EXCEPT ![p] = {}]
  /\ UNCHANGED <<program, control, mail, images, verdicts, clocks>>

CompleteTransfer(p) ==
  /\ About(p, "complete") /\ underway[p] = {}
  /\ Advance(p)
  /\ UNCHANGED <<program, arrays, images, verdicts, clocks, lost>>

SendMessage(p) ==
  /\ About(p, "send")
  /\ mail' = [mail EXCEPT ![p][Now(p).to] =
       Append(@, [i \in Now(p).cells |-> x[p][i]])]
  /\ Advance(p)
  /\ UNCHANGED <<program, x, underway, images, verdicts, clocks, lost>>

ReturnFromSend(p) ==
  /\ About(p, "sent")
  /\ build.eager \/ mail[p][Now(p).to] = <<>>
  /\ Advance(p)
  /\ UNCHANGED <<program, arrays, images, verdicts, clocks, lost>>

Receive(p) ==
  /\ About(p, "recv")
  /\ mail[Now(p).from][p] # <<>>
  /\ x' = [x EXCEPT ![p] = Head(mail[Now(p).from][p]) @@ @]
  /\ mail' = [mail EXCEPT ![Now(p).from][p] = Tail(@)]
  /\ Advance(p)
  /\ UNCHANGED <<program, underway, images, verdicts, clocks, lost>>

-----------------------------------------------------------------------------
\* A Fortran image completes its own copies before it synchronises.
MayEnter(p) == ~inside[p] /\ (build.port = "fortran" => underway[p] = {})

EnterSyncAll(p) ==
  /\ About(p, "sync all") /\ MayEnter(p)
  /\ inside' = [inside EXCEPT ![p] = TRUE]
  /\ arrivals' = [arrivals EXCEPT ![p] = @ + 1]
  /\ UNCHANGED <<program, control, arrays, posted, verdicts, clocks, lost>>

LeaveSyncAll(p) ==
  /\ About(p, "sync all") /\ inside[p]
  /\ \A q \in Im : arrivals[q] >= arrivals[p]
  /\ inside' = [inside EXCEPT ![p] = FALSE]
  /\ Advance(p)
  /\ UNCHANGED <<program, arrays, arrivals, posted, verdicts, clocks, lost>>

EnterSyncImages(p) ==
  /\ About(p, "sync images") /\ MayEnter(p)
  /\ inside' = [inside EXCEPT ![p] = TRUE]
  /\ posted' = [posted EXCEPT ![p] =
       [q \in Im |-> @[q] + (IF q \in Now(p).images THEN 1 ELSE 0)]]
  /\ UNCHANGED <<program, control, arrays, arrivals, verdicts, clocks, lost>>

LeaveSyncImages(p) ==
  /\ About(p, "sync images") /\ inside[p]
  /\ \A q \in Now(p).images : posted[q][p] >= posted[p][q]
  /\ inside' = [inside EXCEPT ![p] = FALSE]
  /\ Advance(p)
  /\ UNCHANGED <<program, arrays, arrivals, posted, verdicts, clocks, lost>>

-----------------------------------------------------------------------------
\* gand: every image votes, then reads the votes of all.
Vote(p) ==
  /\ About(p, "vote")
  /\ ltmp' = [ltmp EXCEPT ![p] = lcheck[p]]
  /\ Advance(p)
  /\ UNCHANGED <<program, arrays, images, lcheck, gcheck, clocks, lost>>

Tally(p) ==
  /\ About(p, "tally")
  /\ gcheck' = [gcheck EXCEPT ![p] = \A q \in Im : ltmp[q]]
  /\ Advance(p)
  /\ UNCHANGED <<program, arrays, images, lcheck, ltmp, clocks, lost>>

ExitLoop(p) ==
  /\ About(p, "exit")
  /\ IF gcheck[p] THEN Advance(p)
     ELSE Goto(p, "close", shape[p], irep[p]) /\ UNCHANGED <<trialnrep, nrep>>
  /\ UNCHANGED <<program, arrays, images, verdicts, clocks, lost>>

NextCall(p) ==
  LET over == call[p] = until
  IN  /\ call' = [call EXCEPT ![p] = @ + 1]
      /\ trialnrep' = [trialnrep EXCEPT ![p] = 1]
      /\ irep' = [irep EXCEPT ![p] = 0]
      /\ nrep' = [nrep EXCEPT ![p] = 0]
      /\ shape' = [shape EXCEPT ![p] = NoShape]
      /\ section' = [section EXCEPT ![p] = IF over THEN "done" ELSE "open"]
      /\ todo' = [todo EXCEPT ![p] =
           Only(~over, Part(Calls[build][call[p] + 1], p, "open", NoShape, 0))]

\* The DASH port: the image whose check failed returns to the driver.
ReturnEarly(p) ==
  /\ About(p, "return")
  /\ gcheck' = [gcheck EXCEPT ![p] = @ /\ lcheck[p]]
  /\ IF gcheck'[p] THEN Advance(p) ELSE NextCall(p)
  /\ UNCHANGED <<program, arrays, images, lcheck, ltmp, clocks, lost>>

-----------------------------------------------------------------------------
ReadClock(p) ==
  /\ About(p, "start timer")
  /\ Advance(p)
  /\ UNCHANGED <<program, arrays, images, verdicts, clocks, lost>>

\* Images measure different times.
Measure(p) ==
  /\ About(p, "stop timer")
  /\ \E d \in Durations :
       /\ trialnrep[p] >= MaxNrep => LongEnough(build.port, d)
       /\ time' = [time EXCEPT ![p] = d]
  /\ Advance(p)
  /\ UNCHANGED <<program, arrays, images, verdicts, dtmp, lost>>

Share(p) ==
  /\ About(p, "share")
  /\ dtmp' = time[p]
  /\ Advance(p)
  /\ UNCHANGED <<program, arrays, images, verdicts, time, lost>>

Learn(p) ==
  /\ About(p, "learn")
  /\ time' = [time EXCEPT ![p] = dtmp]
  /\ Advance(p)
  /\ UNCHANGED <<program, arrays, images, verdicts, dtmp, lost>>

-----------------------------------------------------------------------------
\* The loops around the statements.
BeginShape(p) ==
  /\ AtEnd(p) /\ section[p] = "open"
  /\ Goto(p, "resize", IF Halo(p) THEN NoShape ELSE FirstShape(Current(p)), 0)
  /\ UNCHANGED <<program, trialnrep, nrep, arrays, images, verdicts, clocks, lost>>

BeginTrial(p) ==
  /\ AtEnd(p) /\ section[p] = "resize"
  /\ Goto(p, "trial", shape[p], 0)
  /\ UNCHANGED <<program, trialnrep, nrep, arrays, images, verdicts, clocks, lost>>

Repeat(p) ==
  /\ AtEnd(p) /\ section[p] \in {"trial", "body"} /\ irep[p] < trialnrep[p]
  /\ Goto(p, "body", shape[p], irep[p] + 1)
  /\ UNCHANGED <<program, trialnrep, nrep, arrays, images, verdicts, clocks, lost>>

EndLoop(p) ==
  /\ AtEnd(p) /\ section[p] = "body" /\ irep[p] >= trialnrep[p]
  /\ Goto(p, "close", shape[p], irep[p])
  /\ UNCHANGED <<program, trialnrep, nrep, arrays, images, verdicts, clocks, lost>>

Verdict(p) == LongEnough(build.port, time[p]) \/ ~gcheck[p]

\* cafchecktime, and what follows it up to the end of the trial loop.
JudgeTrial(p) ==
  /\ AtEnd(p) /\ section[p] = "close"
  /\ nrep' = [nrep EXCEPT ![p] = trialnrep[p]]
  /\ trialnrep' = [trialnrep EXCEPT ![p] = NextNrep(build.port, time[p], @)]
  /\ IF Verdict(p) THEN Goto(p, "report", shape[p], irep[p]) ELSE Goto(p, "trial", shape[p], 0)
  /\ UNCHANGED <<program, arrays, images, verdicts, clocks, lost>>

Report(p) ==
  /\ section[p] = "report"
  /\ IF Halo(p) \/ ~gcheck[p] \/ Finished(Current(p), NextShape(Current(p), shape[p]))
     THEN Goto(p, "end", shape[p], irep[p])
     ELSE Goto(p, "resize", NextShape(Current(p), shape[p]), 0)
  /\ UNCHANGED <<program, trialnrep, nrep, arrays, images, verdicts, clocks, lost>>

Return(p) ==
  /\ AtEnd(p) /\ section[p] = "end"
  /\ NextCall(p)
  /\ UNCHANGED <<program, arrays, images, verdicts, clocks, lost>>

-----------------------------------------------------------------------------
Execute(p) ==
  \/ AllocateArray(p)
  \/ AssignArray(p)
  \/ CheckArray(p)
  \/ CheckData(p)
  \/ ResetChecks(p)
  \/ StartTransfer(p)
  \/ CompleteTransfer(p)
  \/ SendMessage(p)
  \/ ReturnFromSend(p)
  \/ Receive(p)
  \/ EnterSyncAll(p)
  \/ LeaveSyncAll(p)
  \/ EnterSyncImages(p)
  \/ LeaveSyncImages(p)
  \/ Vote(p)
  \/ Tally(p)
  \/ ExitLoop(p)
  \/ ReturnEarly(p)
  \/ ReadClock(p)
  \/ Measure(p)
  \/ Share(p)
  \/ Learn(p)

Loop(p) ==
  \/ BeginShape(p)
  \/ BeginTrial(p)
  \/ Repeat(p)
  \/ EndLoop(p)
  \/ JudgeTrial(p)
  \/ Report(p)
  \/ Return(p)

AllDone == \A p \in Im : section[p] = "done"
Exit    == AllDone /\ UNCHANGED vars

Next ==
  \/ \E p \in Im : Execute(p) \/ Loop(p) \/ Deliver(p)
  \/ Exit

\* Every image runs on its own and copies are made by themselves; every loop
\* is finite, so progress somewhere is progress everywhere.
Spec == Init /\ [][Next]_vars /\ WF_vars(Next)

-----------------------------------------------------------------------------
Sections == {"open", "resize", "trial", "body", "close", "report", "end", "done"}

TransferTypeOK ==
  /\ build \in Builds
  /\ until \in DOMAIN Calls[build]
  /\ call \in [Im -> 1 .. until + 1]
  /\ section \in [Im -> Sections]
  /\ \A p \in Im :
       /\ section[p] = "done" <=> call[p] = until + 1
       /\ underway[p] \subseteq [from : Im, src : Nat, to : Im, dst : Nat]
       /\ DOMAIN x[p] \subseteq Nat
       /\ \A q \in Im : Len(mail[p][q]) <= 1
       /\ inside[p] => About(p, "sync all") \/ About(p, "sync images")
  /\ trialnrep \in [Im -> 1 .. MaxNrep]
  /\ irep \in [Im -> 0 .. MaxNrep]
  /\ nrep \in [Im -> 0 .. MaxNrep]
  /\ arrivals \in [Im -> Nat]
  /\ posted \in [Im -> [Im -> Nat]]
  /\ lcheck \in [Im -> BOOLEAN]
  /\ gcheck \in [Im -> BOOLEAN]
  /\ ltmp \in [Im -> BOOLEAN]
  /\ time \in [Im -> Durations]
  /\ dtmp \in Durations
  /\ lost \subseteq 1 .. until

InCall(p) == section[p] \notin {"open", "done"}

(***************************************************************************)
(* If verification fails, a copy did get lost: no check reads data that    *)
(* has not arrived yet, or that the next repetition has overwritten, and   *)
(* the cells a mode moves are those that cafset and cafcheck go through.   *)
(***************************************************************************)
NoFalseAlarm == \A p \in Im : InCall(p) /\ ~lcheck[p] => call[p] \in lost

(***************************************************************************)
(* "All results validated" is only printed if no copy was lost: the        *)
(* values differ from repetition to repetition, so old data is noticed.    *)
(***************************************************************************)
FaultNoticed ==
  \A p \in Im : build.check /\ section[p] = "end" /\ gcheck[p] => call[p] \notin lost

(***************************************************************************)
(* All images make the same repetitions of the same transfer: each runs    *)
(* cafchecktime for itself, on the time of one image, broadcast.           *)
(***************************************************************************)
SameRepetitions ==
  \A p, q \in Im :
    section[p] = "body" /\ section[q] = "body" =>
      /\ call[p] = call[q]
      /\ shape[p] = shape[q]
      /\ trialnrep[p] = trialnrep[q]

(***************************************************************************)
(* When verification fails, all images give the test up: none has left it  *)
(* while another is still in its loop ("Verification failed: exiting this  *)
(* test").  The others would wait for it for ever.                         *)
(***************************************************************************)
LeaveTogether ==
  \A p, q \in Im : section[p] = "body" => call[q] = call[p] /\ section[q] # "end"

(***************************************************************************)
(* The time that is printed is that of all repetitions of all images, with *)
(* their transfers: when a timer starts every array is initialised, when   *)
(* it stops nobody is in the loop and nothing is underway, and it is       *)
(* divided by the repetitions that were timed, not by the number           *)
(* cafchecktime sets for the next trial.                                   *)
(***************************************************************************)
TimerCoversTransfers ==
  \A p, q \in Im :
    /\ section[p] = "report" /\ gcheck[p] => nrep[p] = irep[p]
    /\ (About(p, "start timer") \/ section[p] = "body") /\ section[q] = "trial" =>
         inside[q] \/ About(q, "start timer") \/ AtEnd(q)
    /\ About(p, "stop timer") => section[q] # "body" /\ underway[q] = {}

(***************************************************************************)
(* Nobody reads what a copy is about to write, or writes what it reads or  *)
(* writes, while it is underway ("Synchronise so we know we can change     *)
(* halo values on other images").                                          *)
(***************************************************************************)
Writes(q) == IF About(q, "assign") THEN DOMAIN Now(q).values ELSE {}
Reads(q)  == IF About(q, "check") THEN DOMAIN Now(q).wanted
             ELSE IF About(q, "check data") THEN {1} ELSE {}

NoRace ==
  \A p \in Im : \A k \in underway[p] :
    /\ k.src \notin Writes(k.from)
    /\ k.dst \notin Writes(k.to) \cup Reads(k.to)
    /\ \A q \in Im \ {p} : \A l \in underway[q] :
         ~(k.to = l.to /\ k.dst = l.dst) /\ ~(k.to = l.from /\ k.dst = l.src)

(***************************************************************************)
(* Images work out for themselves who sends to whom, and agree: the        *)
(* partner an image has is an image, and has it for its partner, with the  *)
(* opposite role (README, Multiple ping-pong).                             *)
(***************************************************************************)
PairsAgree ==
  \A p \in Im :
    InCall(p) /\ ~Halo(p) =>
      LET c == Current(p)
          pair == Pair(c, p)
      IN  /\ pair[1] \in Im /\ pair[2] \in Im
          /\ c.pairing # "single" => p \in {pair[1], pair[2]}
          /\ Pair(c, pair[1]) = pair /\ Pair(c, pair[2]) = pair

(***************************************************************************)
(* Every image gets through all calls, also when verification fails.       *)
(***************************************************************************)
Termination == <>AllDone
=============================================================================
