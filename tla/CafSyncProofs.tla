---------------------------- MODULE CafSyncProofs ----------------------------
(***************************************************************************)
(* What holds of cafsyncbench on any number of images.                     *)
(***************************************************************************)
EXTENDS CafSync, NumberLemmas, FunctionTheorems, TLAPS

(***************************************************************************)
(* The neighbour lists of the Fortran suite match, for every even number   *)
(* of images, every set of permutations and every choice of parameters.    *)
(***************************************************************************)
\* The builds the theorem is about.
MatchingJobs ==
  \A jb \in Jobs : jb.port = "fortran" /\ jb.images % 2 = 0

\* The list image p must have in the call it is in.
RightList(p) ==
  neighbours[p] =
    ListOf(p, IF Type(p) = "rand" THEN perms[bench[p]][p]
              ELSE Identity(job.port, job.images))

\* Image p has drawn a permutation in call b.
Drawn(b, p) == perms[b][p] # Undrawn

ShapeInv ==
  /\ job \in Jobs
  /\ pc \in [Im -> Labels]
  /\ bench \in [Im -> Nat]
  /\ inside \in [Im -> BOOLEAN]
  /\ DOMAIN neighbours = Im
  /\ DOMAIN perms = DOMAIN Driver(job)
  /\ \A b \in DOMAIN perms : DOMAIN perms[b] = Im
  /\ \A p \in Im : ~Over(p) => bench[p] \in DOMAIN Driver(job)
  /\ \A p \in Im : inside[p] => pc[p] \in {"ready", "measured", "begin", "all", "end"}

ListInv ==
  /\ \A p \in Im : Listed(p) => RightList(p)
  /\ \A p \in Im : Listed(p) /\ Type(p) = "rand" => Drawn(bench[p], p)

\* The generators of the images give the same numbers.
DrawInv ==
  \A b \in DOMAIN perms : \A p, q \in Im :
    Drawn(b, p) /\ Drawn(b, q) => perms[b][p] = perms[b][q]

NInv == ShapeInv /\ ListInv /\ DrawInv

-----------------------------------------------------------------------------
(***************************************************************************)
(* getneighs with one permutation for all images: the two tests of the     *)
(* loop body are each other's mirror image.                                *)
(***************************************************************************)
LEMMA RingMatches ==
  ASSUME NEW port, NEW n, NEW numneigh, NEW perm,
         NEW p \in Images(port, n), NEW q \in Images(port, n)
  PROVE  q \in GetNeighsRing(port, n, p, numneigh, perm)
           <=> p \in GetNeighsRing(port, n, q, numneigh, perm)
BY DEF GetNeighsRing

(***************************************************************************)
(* getneighspair of the Fortran suite pairs an even number of images up.   *)
(***************************************************************************)
LEMMA PairMatches ==
  ASSUME NEW n \in Nat, n % 2 = 0,
         NEW p \in Images("fortran", n), NEW q \in Images("fortran", n)
  PROVE  q \in GetNeighsPair("fortran", n, p) <=> p \in GetNeighsPair("fortran", n, q)
<1>1. p \in 1 .. n /\ q \in 1 .. n
  BY DEF Images
<1>2. n = 2 * (n \div 2)
  OBVIOUS
<1> DEFINE half == n \div 2
<1>3. half \in Nat /\ n = 2 * half
  BY <1>2
<1> HIDE DEF half
<1>4. q = (IF p <= half THEN p + half ELSE p - half)
        <=> p = (IF q <= half THEN q + half ELSE q - half)
  BY <1>1, <1>3
<1> QED
  BY <1>4 DEF GetNeighsPair, half

\* A permutation that was drawn is not the mark for none.
LEMMA DrawnIsMarked ==
  ASSUME NEW n \in Nat \ {0}, NEW perm \in Arrangements("fortran", n)
  PROVE  perm # Undrawn
<1>1. DOMAIN perm = 1 .. n
  BY DEF Arrangements, Images
<1>2. 1 \in DOMAIN perm
  BY <1>1
<1>3. DOMAIN Undrawn = {}
  BY DEF Undrawn
<1> QED
  BY <1>2, <1>3

-----------------------------------------------------------------------------
(***************************************************************************)
(* A step of image p inside cafsyncbench, after getneighs.                 *)
(***************************************************************************)
LEMMA QuietStep ==
  ASSUME NInv, NEW p \in Im, NEW label \in Labels \ {"setup", "done", "stopped"},
         pc[p] \notin {"setup", "done", "stopped"},
         pc' = [pc EXCEPT ![p] = label],
         UNCHANGED <<test, neighbours>>,
         inside' \in [Im -> BOOLEAN],
         \A r \in Im : inside'[r] => pc'[r] \in {"ready", "measured", "begin", "all", "end"}
  PROVE  NInv'
<1> USE DEF test
<1>1. Im' = Im /\ Driver(job)' = Driver(job)
  BY DEF Im
<1>2. \A r \in Im : Type(r)' = Type(r) /\ Current(r)' = Current(r)
  BY <1>1 DEF Type, Current
<1>3. \A r \in Im : Over(r)' = Over(r) /\ Listed(r)' = Listed(r)
  <2> TAKE r \in Im
  <2>1. pc[r] \in Labels /\ (r # p => pc'[r] = pc[r]) /\ pc'[p] = label
    BY DEF NInv, ShapeInv
  <2>2. Over(r)' <=> Over(r)
    BY <2>1 DEF Over
  <2>3. Listed(r)' <=> Listed(r)
    BY <2>1, <2>2, <1>2 DEF Listed, Over
  <2> QED
    BY <2>2, <2>3 DEF Over, Listed
<1>4. ShapeInv'
  BY <1>1, <1>3 DEF NInv, ShapeInv
<1>5. \A r \in Im : RightList(r)' <=> RightList(r)
  BY <1>1, <1>2 DEF RightList, ListOf
<1>6. ListInv'
  BY <1>1, <1>2, <1>3, <1>5 DEF NInv, ListInv, Drawn
<1>7. DrawInv'
  BY <1>1 DEF NInv, DrawInv, Drawn
<1> QED
  BY <1>4, <1>6, <1>7 DEF NInv

(***************************************************************************)
(* A step that takes image p back to the driver or stops it.               *)
(***************************************************************************)
LEMMA LeavingStep ==
  ASSUME NInv, NEW p \in Im, NEW label \in {"setup", "done", "stopped"},
         ~inside[p],
         pc' = [pc EXCEPT ![p] = label],
         bench' \in [Im -> Nat],
         \A r \in Im \ {p} : bench'[r] = bench[r],
         label = "setup" => bench'[p] \in DOMAIN Driver(job),
         UNCHANGED <<job, perms, neighbours, inside>>
  PROVE  NInv'
<1>1. Im' = Im /\ Driver(job)' = Driver(job)
  BY DEF Im
<1>2. \A r \in Im \ {p} : /\ Type(r)' = Type(r)
                           /\ Current(r)' = Current(r)
                           /\ pc'[r] = pc[r]
                           /\ bench'[r] = bench[r]
  BY <1>1 DEF Type, Current, NInv, ShapeInv
<1>3. pc'[p] = label
  BY DEF NInv, ShapeInv
<1>4. ShapeInv'
  <2>1. pc' \in [Im -> Labels]
    BY DEF NInv, ShapeInv, Labels
  <2>2. \A r \in Im : ~Over(r)' => bench'[r] \in DOMAIN Driver(job)
    BY <1>2, <1>3 DEF NInv, ShapeInv, Over
  <2>3. \A r \in Im : inside'[r] => pc'[r] \in {"ready", "measured", "begin", "all", "end"}
    BY <1>2 DEF NInv, ShapeInv
  <2> QED
    BY <1>1, <2>1, <2>2, <2>3 DEF NInv, ShapeInv, Over
<1>5. ~Listed(p)'
  BY <1>3 DEF Listed, Over
<1>6. \A r \in Im \ {p} : Listed(r)' <=> Listed(r)
  BY <1>2 DEF Listed, Over
<1>7. \A r \in Im \ {p} : RightList(r)' <=> RightList(r)
  BY <1>1, <1>2 DEF RightList, ListOf
<1>8. ListInv'
  BY <1>1, <1>2, <1>5, <1>6, <1>7 DEF NInv, ListInv, Drawn
<1>9. DrawInv'
  BY <1>1 DEF NInv, DrawInv, Drawn
<1> QED
  BY <1>4, <1>8, <1>9 DEF NInv

(***************************************************************************)
(* getneighs: the only step that changes lists and permutations.           *)
(***************************************************************************)
LEMMA SetupStep ==
  ASSUME NInv, MatchingJobs, NEW p \in Im, Setup(p)
  PROVE  NInv'
<1>1. /\ pc[p] = "setup"
      /\ pc' = [pc EXCEPT ![p] = "ready"]
      /\ UNCHANGED <<job, bench, inside>>
  BY DEF Setup, Goto, global
<1>2. Im' = Im /\ Driver(job)' = Driver(job)
  BY <1>1 DEF Im
<1>3. \A r \in Im : Type(r)' = Type(r) /\ Current(r)' = Current(r)
  BY <1>1, <1>2 DEF Type, Current
<1>4. /\ pc'[p] = "ready"
      /\ \A r \in Im \ {p} : pc'[r] = pc[r]
  BY <1>1 DEF NInv, ShapeInv
<1>5. bench[p] \in DOMAIN perms
  BY <1>1 DEF NInv, ShapeInv, Over
<1>6. \A r \in Im \ {p} : Listed(r)' <=> Listed(r)
  BY <1>3, <1>4 DEF Listed, Over
<1>7. job.port = "fortran" /\ job.images \in Nat \ {0}
  BY CafSyncAssumption DEF NInv, ShapeInv, MatchingJobs
<1>8. /\ pc' \in [Im -> Labels]
      /\ \A r \in Im : ~Over(r)' => bench'[r] \in DOMAIN Driver(job)
      /\ \A r \in Im : inside'[r] => pc'[r] \in {"ready", "measured", "begin", "all", "end"}
  BY <1>1, <1>4 DEF NInv, ShapeInv, Over, Labels
<1>9. CASE Type(p) = "rand"
  <2>1. PICK perm \in Shuffles[job] :
          /\ MayDraw(p, perm)
          /\ perms' = [perms EXCEPT ![bench[p]][p] = perm]
          /\ neighbours' = [neighbours EXCEPT ![p] = ListOf(p, perm)]
    BY <1>9 DEF Setup, PointToPoint
  <2>2. perm # Undrawn
    <3>1. perm \in Arrangements("fortran", job.images)
      BY <1>7, CafSyncAssumption DEF NInv, ShapeInv
    <3> QED
      BY <3>1, <1>7, DrawnIsMarked
  <2>3. /\ neighbours'[p] = ListOf(p, perm)
        /\ \A r \in Im \ {p} : neighbours'[r] = neighbours[r]
        /\ DOMAIN neighbours' = Im
    BY <2>1 DEF NInv, ShapeInv
  <2>4. /\ DOMAIN perms' = DOMAIN perms
        /\ \A b \in DOMAIN perms : DOMAIN perms'[b] = Im
        /\ perms'[bench[p]][p] = perm
        /\ \A b \in DOMAIN perms : \A r \in Im :
              b # bench[p] \/ r # p => perms'[b][r] = perms[b][r]
    BY <2>1, <1>5 DEF NInv, ShapeInv
  <2>5. ShapeInv'
    BY <1>1, <1>2, <1>8, <2>3, <2>4 DEF NInv, ShapeInv, Over
  <2>6. RightList(p)'
    BY <1>1, <1>2, <1>3, <1>9, <2>3, <2>4 DEF RightList, ListOf
  <2>7. \A r \in Im \ {p} : Listed(r) => (RightList(r)' <=> RightList(r))
    <3> SUFFICES ASSUME NEW r \in Im \ {p}, Listed(r)
                 PROVE  RightList(r)' <=> RightList(r)
      OBVIOUS
    <3>1. bench[r] \in DOMAIN perms
      BY DEF NInv, ShapeInv, Listed
    <3>2. perms'[bench[r]][r] = perms[bench[r]][r]
      BY <3>1, <2>4
    <3> QED
      BY <1>1, <1>2, <1>3, <2>3, <3>2 DEF RightList, ListOf
  <2>8. \A r \in Im : Listed(r)' /\ Type(r)' = "rand" => Drawn(bench[r], r)'
    <3> SUFFICES ASSUME NEW r \in Im, Listed(r)', Type(r) = "rand"
                 PROVE  perms'[bench[r]][r] # Undrawn
      BY <1>1, <1>3 DEF Drawn, Undrawn
    <3>1. CASE r = p
      BY <3>1, <2>2, <2>4
    <3>2. CASE r # p
      <4>1. Listed(r) /\ bench[r] \in DOMAIN perms
        BY <3>2, <1>6 DEF NInv, ShapeInv, Listed
      <4> QED
        BY <4>1, <3>2, <2>4 DEF NInv, ListInv, Drawn
    <3> QED
      BY <3>1, <3>2
  <2>9. ListInv'
    BY <1>2, <1>6, <2>6, <2>7, <2>8 DEF NInv, ListInv
  <2>10. DrawInv'
    <3>1. \A q \in Im : perms[bench[p]][q] \in {Undrawn, perm}
      BY <1>7, <2>1 DEF MayDraw
    <3> SUFFICES ASSUME NEW b \in DOMAIN perms, NEW q \in Im, NEW r \in Im,
                        perms'[b][q] # Undrawn, perms'[b][r] # Undrawn
                 PROVE  perms'[b][q] = perms'[b][r]
      BY <1>2, <2>4 DEF DrawInv, Drawn, Undrawn
    <3>2. CASE b = bench[p]
      BY <3>1, <3>2, <2>4
    <3>3. CASE b # bench[p]
      BY <3>3, <2>4 DEF NInv, DrawInv, Drawn
    <3> QED
      BY <3>2, <3>3
  <2> QED
    BY <2>5, <2>9, <2>10 DEF NInv
<1>10. CASE Type(p) # "rand"
  <2>1. /\ perms' = perms
        /\ DOMAIN neighbours' = Im
        /\ \A r \in Im \ {p} : neighbours'[r] = neighbours[r]
    BY <1>10 DEF Setup, NInv, ShapeInv, PointToPoint
  <2>2. ShapeInv'
    BY <1>1, <1>2, <1>8, <2>1 DEF NInv, ShapeInv, Over
  <2>3. Listed(p)' => RightList(p)'
    <3> SUFFICES ASSUME Listed(p)' PROVE RightList(p)'
      OBVIOUS
    <3>1. Type(p) \in {"pair", "ring"}
      BY <1>3, <1>10 DEF Listed, PointToPoint
    <3>2. neighbours' = [neighbours EXCEPT ![p] = ListOf(p, Identity(job.port, job.images))]
      BY <3>1 DEF Setup, PointToPoint
    <3>3. neighbours'[p] = ListOf(p, Identity(job.port, job.images))
      BY <3>2 DEF NInv, ShapeInv
    <3> QED
      BY <3>3, <1>1, <1>3, <1>10 DEF RightList, ListOf
  <2>4. \A r \in Im \ {p} : RightList(r)' <=> RightList(r)
    BY <1>1, <1>2, <1>3, <2>1 DEF RightList, ListOf
  <2>5. ListInv'
    BY <1>1, <1>2, <1>3, <1>6, <1>10, <2>1, <2>3, <2>4 DEF NInv, ListInv, Drawn, Undrawn
  <2>6. DrawInv'
    BY <1>2, <2>1 DEF NInv, DrawInv, Drawn, Undrawn
  <2> QED
    BY <2>2, <2>5, <2>6 DEF NInv
<1> QED
  BY <1>9, <1>10

-----------------------------------------------------------------------------
LEMMA IsASeq ==
  ASSUME NEW S, NEW n \in Nat, NEW f \in [1 .. n -> S]
  PROVE  f \in Seq(S)
OBVIOUS

\* The driver makes at least one call.
LEMMA DriverIsSeq ==
  ASSUME NEW jb \in Jobs
  PROVE  /\ Len(Driver(jb)) \in Nat \ {0}
         /\ DOMAIN Driver(jb) = 1 .. Len(Driver(jb))
<1> DEFINE limit == IF SyncMaxNeigh < jb.images - 2 THEN SyncMaxNeigh ELSE jb.images - 2
           rings == IF limit < 2 THEN 0 ELSE limit \div 2
           Types == {"all", "pair", "ring", "rand", "lock", "crit"}
           Tests == [type : Types, numneigh : Int]
           front == <<Test("all", 1), Test("pair", 1)>>
           back  == <<Test("lock", 1), Test("crit", 1)>>
           middle == [m \in 1 .. 2 * rings |->
              Test(IF m % 2 = 1 THEN "ring" ELSE "rand", 2 * ((m + 1) \div 2))]
<1>1. limit \in Int
  BY CafSyncAssumption
<1>2. rings \in Nat
  <2> HIDE DEF limit
  <2> QED
    BY <1>1
<1>3. middle \in Seq(Tests)
  <2> HIDE DEF rings
  <2>1. \A m \in 1 .. 2 * rings :
          Test(IF m % 2 = 1 THEN "ring" ELSE "rand", 2 * ((m + 1) \div 2)) \in Tests
    BY <1>2 DEF Test
  <2>2. 2 * rings \in Nat
    BY <1>2
  <2>3. middle \in [1 .. 2 * rings -> Tests]
    <3> HIDE DEF Tests
    <3> QED
      BY <2>1
  <2> HIDE DEF middle, Tests
  <2> QED
    BY <2>2, <2>3, IsASeq
<1>4. front \in Seq(Tests) /\ back \in Seq(Tests) /\ Len(front) = 2
  BY DEF Test
<1>5. Driver(jb) = front \o middle \o back
  BY DEF Driver
<1> HIDE DEF front, middle, back, Tests
<1>6. front \o middle \o back \in Seq(Tests) /\ Len(front \o middle \o back) >= 2
  BY <1>3, <1>4
<1> QED
  BY <1>5, <1>6
LEMMA InitNInv ==
  ASSUME Init
  PROVE  NInv
<1>1. ShapeInv
  <2>1. pc \in [Im -> Labels] /\ \A p \in Im : ~inside[p]
    BY DEF Init, Labels
  <2>2. 1 \in DOMAIN Driver(job)
    BY DriverIsSeq DEF Init
  <2> QED
    BY <2>1, <2>2 DEF Init, ShapeInv
<1>2. \A p \in Im : ~Listed(p)
  BY DEF Init, Listed
<1>3. \A b \in DOMAIN perms : \A p \in Im : ~Drawn(b, p)
  BY DEF Init, Drawn
<1> QED
  BY <1>1, <1>2, <1>3 DEF NInv, ListInv, DrawInv

LEMMA NextNInv ==
  ASSUME NInv, MatchingJobs, [Next]_vars
  PROVE  NInv'
<1> USE DEF Goto, test, loops, global, lock, timing
<1>1. ASSUME NEW p \in Im, Refuse(p)
      PROVE  NInv'
  <2>1. job.port = "fortran"
    BY DEF NInv, ShapeInv, MatchingJobs
  <2>2. pc' = [pc EXCEPT ![p] = "stopped"] /\ ~inside[p]
    BY <1>1, <2>1 DEF Refuse, NInv, ShapeInv
  <2> QED
    BY <1>1, <2>1, <2>2, LeavingStep DEF Refuse, NInv, ShapeInv
<1>2. ASSUME NEW p \in Im, Setup(p)
      PROVE  NInv'
  BY <1>2, SetupStep
<1>3. ASSUME NEW p \in Im, EnterSyncAll(p)
      PROVE  NInv'
  <2>1. /\ inside' \in [Im -> BOOLEAN]
        /\ \A r \in Im : inside'[r] => pc[r] \in {"ready", "measured", "begin", "all", "end"}
    BY <1>3 DEF EnterSyncAll, NInv, ShapeInv
  <2>2. pc[p] \in Labels \ {"setup", "done", "stopped"} /\ pc' = [pc EXCEPT ![p] = pc[p]]
    BY <1>3 DEF EnterSyncAll, NInv, ShapeInv
  <2> QED
    BY <1>3, <2>1, <2>2, QuietStep DEF EnterSyncAll
<1>4. ASSUME NEW p \in Im, LeaveSyncAll(p)
      PROVE  NInv'
  <2>1. pc[p] \in {"ready", "measured", "begin", "all", "end"}
    BY <1>4 DEF LeaveSyncAll, NInv, ShapeInv
  <2>2. AfterSyncAll(p) \in Labels \ {"setup", "done", "stopped"}
    BY <2>1 DEF AfterSyncAll, AfterRepeat, Labels
  <2>3. pc' = [pc EXCEPT ![p] = AfterSyncAll(p)]
    BY <1>4 DEF LeaveSyncAll
  <2>4. /\ inside' \in [Im -> BOOLEAN]
        /\ \A r \in Im : inside'[r] => pc'[r] \in {"ready", "measured", "begin", "all", "end"}
    BY <1>4, <2>3 DEF LeaveSyncAll, NInv, ShapeInv
  <2> HIDE DEF Goto
  <2> QED
    BY <1>4, <2>1, <2>2, <2>3, <2>4, QuietStep DEF LeaveSyncAll
<1>5. ASSUME NEW p \in Im, Reference(p)
      PROVE  NInv'
  <2>1. /\ inside' \in [Im -> BOOLEAN]
        /\ \A r \in Im : inside'[r] => pc'[r] \in {"ready", "measured", "begin", "all", "end"}
    BY <1>5 DEF Reference, NInv, ShapeInv
  <2>2. "measured" \in Labels \ {"setup", "done", "stopped"}
    BY DEF Labels
  <2> QED
    BY <1>5, <2>1, <2>2, QuietStep DEF Reference
<1>6. ASSUME NEW p \in Im, StartTimer(p)
      PROVE  NInv'
  <2>1. /\ inside' \in [Im -> BOOLEAN]
        /\ \A r \in Im : inside'[r] => pc'[r] \in {"ready", "measured", "begin", "all", "end"}
    BY <1>6 DEF StartTimer, NInv, ShapeInv
  <2>2. "repeat" \in Labels \ {"setup", "done", "stopped"}
    BY DEF Labels
  <2> QED
    BY <1>6, <2>1, <2>2, QuietStep DEF StartTimer
<1>7. ASSUME NEW p \in Im, DelayAndSyncAll(p)
      PROVE  NInv'
  <2>1. /\ inside' \in [Im -> BOOLEAN]
        /\ \A r \in Im : inside'[r] => pc'[r] \in {"ready", "measured", "begin", "all", "end"}
    BY <1>7 DEF DelayAndSyncAll, NInv, ShapeInv
  <2>2. "all" \in Labels \ {"setup", "done", "stopped"}
    BY DEF Labels
  <2> QED
    BY <1>7, <2>1, <2>2, QuietStep DEF DelayAndSyncAll
<1>8. ASSUME NEW p \in Im, DelayAndPost(p)
      PROVE  NInv'
  <2>1. /\ inside' \in [Im -> BOOLEAN]
        /\ \A r \in Im : inside'[r] => pc'[r] \in {"ready", "measured", "begin", "all", "end"}
    BY <1>8 DEF DelayAndPost, NInv, ShapeInv
  <2>2. "images" \in Labels \ {"setup", "done", "stopped"}
    BY DEF Labels
  <2> QED
    BY <1>8, <2>1, <2>2, QuietStep DEF DelayAndPost
<1>9. ASSUME NEW p \in Im, SyncImages(p)
      PROVE  NInv'
  <2>1. /\ inside' \in [Im -> BOOLEAN]
        /\ \A r \in Im : inside'[r] => pc'[r] \in {"ready", "measured", "begin", "all", "end"}
    BY <1>9 DEF SyncImages, NInv, ShapeInv
  <2>2. AfterRepeat(p, j[p]) \in Labels \ {"setup", "done", "stopped"}
    BY DEF Labels, AfterRepeat
  <2> QED
    BY <1>9, <2>1, <2>2, QuietStep DEF SyncImages
<1>10. ASSUME NEW p \in Im, LockAndDelay(p)
      PROVE  NInv'
  <2>1. /\ inside' \in [Im -> BOOLEAN]
        /\ \A r \in Im : inside'[r] => pc'[r] \in {"ready", "measured", "begin", "all", "end"}
    BY <1>10 DEF LockAndDelay, NInv, ShapeInv
  <2>2. "unlock" \in Labels \ {"setup", "done", "stopped"}
    BY DEF Labels
  <2> QED
    BY <1>10, <2>1, <2>2, QuietStep DEF LockAndDelay
<1>11. ASSUME NEW p \in Im, Unlock(p)
      PROVE  NInv'
  <2>1. /\ inside' \in [Im -> BOOLEAN]
        /\ \A r \in Im : inside'[r] => pc'[r] \in {"ready", "measured", "begin", "all", "end"}
    BY <1>11 DEF Unlock, NInv, ShapeInv
  <2>2. AfterRepeat(p, j[p] + 1) \in Labels \ {"setup", "done", "stopped"}
    BY DEF Labels, AfterRepeat
  <2> QED
    BY <1>11, <2>1, <2>2, QuietStep DEF Unlock
<1>12. ASSUME NEW p \in Im, StopTimer(p)
      PROVE  NInv'
  <2>1. PICK label \in {"begin", "report"} : pc' = [pc EXCEPT ![p] = label]
    BY <1>12 DEF StopTimer
  <2>2. /\ inside' \in [Im -> BOOLEAN]
        /\ \A r \in Im : inside'[r] => pc'[r] \in {"ready", "measured", "begin", "all", "end"}
    BY <1>12 DEF StopTimer, NInv, ShapeInv
  <2>3. label \in Labels \ {"setup", "done", "stopped"}
    BY DEF Labels
  <2> QED
    BY <1>12, <2>1, <2>2, <2>3, QuietStep DEF StopTimer
<1>13. ASSUME NEW p \in Im, Report(p)
      PROVE  NInv'
  <2>1. /\ pc[p] = "report"
        /\ bench' = [bench EXCEPT ![p] = @ + 1]
        /\ pc' = [pc EXCEPT ![p] = IF bench[p] = Len(Driver(job)) THEN "done" ELSE "setup"]
        /\ UNCHANGED <<job, perms, neighbours, inside>>
    BY <1>13 DEF Report, Return
  <2>2. ~inside[p] /\ bench[p] \in Nat /\ bench[p] \in DOMAIN Driver(job)
    BY <2>1 DEF NInv, ShapeInv, Over
  <2>3. /\ bench' \in [Im -> Nat]
        /\ bench'[p] = bench[p] + 1
        /\ \A r \in Im \ {p} : bench'[r] = bench[r]
    BY <2>1 DEF NInv, ShapeInv
  <2>4. bench[p] # Len(Driver(job)) => bench'[p] \in DOMAIN Driver(job)
    BY <2>2, <2>3, DriverIsSeq DEF NInv, ShapeInv
  <2>5. CASE bench[p] = Len(Driver(job))
    BY <2>1, <2>2, <2>3, <2>5, LeavingStep
  <2>6. CASE bench[p] # Len(Driver(job))
    BY <2>1, <2>2, <2>3, <2>4, <2>6, LeavingStep
  <2> QED
    BY <2>5, <2>6
<1>14. CASE UNCHANGED vars
  <2>1. Im' = Im /\ Driver(job)' = Driver(job)
    BY <1>14 DEF vars, Im
  <2>2. \A r \in Im : Type(r)' = Type(r) /\ Current(r)' = Current(r)
    BY <1>14, <2>1 DEF vars, Type, Current
  <2>3. ShapeInv'
    BY <1>14, <2>1 DEF vars, NInv, ShapeInv, Over
  <2>4. ListInv'
    BY <1>14, <2>1, <2>2 DEF vars, NInv, ListInv, Listed, RightList, ListOf, Over, Drawn
  <2>5. DrawInv'
    BY <1>14, <2>1 DEF vars, NInv, DrawInv, Drawn
  <2> QED
    BY <2>3, <2>4, <2>5 DEF NInv
<1> QED
  BY <1>1, <1>2, <1>3, <1>4, <1>5, <1>6, <1>7, <1>8, <1>9, <1>10, <1>11, <1>12, <1>13, <1>14
  DEF Next, Step, Exit

(***************************************************************************)
(* NInv is strong enough: equal permutations make equal rings, and rings   *)
(* and pairs match.                                                        *)
(***************************************************************************)
LEMMA NInvMatches ==
  ASSUME NInv, MatchingJobs
  PROVE  NeighboursMatch
<1>1. job.port = "fortran" /\ job.images \in Nat /\ job.images % 2 = 0
  BY CafSyncAssumption DEF NInv, ShapeInv, MatchingJobs
<1> SUFFICES ASSUME NEW p \in Im, NEW q \in Im,
                    Listed(p), Listed(q), bench[p] = bench[q]
             PROVE  q \in neighbours[p] <=> p \in neighbours[q]
  BY DEF NeighboursMatch
<1>2. Type(q) = Type(p) /\ Current(q) = Current(p)
  BY DEF Type, Current
<1>3. RightList(p) /\ RightList(q)
  BY DEF NInv, ListInv
<1>4. p \in Images("fortran", job.images) /\ q \in Images("fortran", job.images)
  BY <1>1 DEF Im
<1>5. CASE Type(p) = "pair"
  BY <1>1, <1>2, <1>3, <1>4, <1>5, PairMatches DEF RightList, ListOf
<1>6. CASE Type(p) = "ring"
  BY <1>1, <1>2, <1>3, <1>4, <1>6, RingMatches DEF RightList, ListOf
<1>7. CASE Type(p) = "rand"
  <2>1. perms[bench[p]][p] = perms[bench[p]][q]
    <3>1. Drawn(bench[p], p) /\ Drawn(bench[p], q)
      BY <1>2, <1>7 DEF NInv, ListInv
    <3>2. bench[p] \in DOMAIN perms
      BY DEF NInv, ShapeInv, Listed
    <3> QED
      BY <3>1, <3>2 DEF NInv, DrawInv
  <2> QED
    BY <1>1, <1>2, <1>3, <1>4, <1>7, <2>1, RingMatches DEF RightList, ListOf
<1> QED
  BY <1>5, <1>6, <1>7 DEF Listed, PointToPoint

(***************************************************************************)
(* In every run of the Fortran suite on an even number of images whose     *)
(* generators agree, the lists match, whatever the permutations and the    *)
(* number of trials and iterations.                                        *)
(***************************************************************************)
THEOREM NeighboursMatchTheorem ==
  ASSUME MatchingJobs
  PROVE  Spec => []NeighboursMatch
<1>1. Init => NInv
  BY InitNInv
<1>2. NInv /\ [Next]_vars => NInv'
  BY NextNInv
<1>3. NInv => NeighboursMatch
  BY NInvMatches
<1> QED
  BY <1>1, <1>2, <1>3, PTL DEF Spec

-----------------------------------------------------------------------------
(***************************************************************************)
(* The trials of cafsyncbench, for every number of images and choice of    *)
(* parameters.  The images never compare notes: what keeps them in the     *)
(* same trial is the number of sync all that each of them makes, and in    *)
(* the same iteration how often they have named each other.  The argument  *)
(* counts these.                                                           *)
(***************************************************************************)
\* The sync all that image p has left.
Before(p) == arrivals[p] - (IF inside[p] THEN 1 ELSE 0)

\* Before a call, and before its timed loop.
InRest      == {"setup", "ready", "done", "stopped"}
InReference == {"reference", "measured"}
\* Between the sync all at the begin of a trial and the one at its end.
InLoop      == {"start", "repeat", "all", "images", "unlock", "end"}
InSyncAll   == {"ready", "measured", "begin", "all", "end"}

\* How many sync all there are in a trial and in a call of cafsyncbench.
PerTrial(p) == IF Type(p) = "all" THEN 2 + InnerReps(p) ELSE 2
PerCall(p)  == 2 + ((SyncOuter + 1) * PerTrial(p))

\* How many of them image p has left in this trial and in this call.
LeftInTrial(p) ==
  (IF pc[p] \in InLoop THEN 1 ELSE IF pc[p] \in {"stop", "report"} THEN 2 ELSE 0)
   + (IF Type(p) # "all" THEN 0 ELSE IF pc[p] = "all" THEN j[p] - 1 ELSE j[p])

LeftInCall(p) ==
  IF pc[p] \in InRest THEN 0
  ELSE IF pc[p] \in InReference THEN 1
  ELSE 2 + (k[p] * PerTrial(p)) + LeftInTrial(p)

\* The sync all that image p had left when it began this call.
Start(p) == Before(p) - LeftInCall(p)

-----------------------------------------------------------------------------
LoopTypes ==
  /\ job \in Jobs
  /\ pc \in [Im -> Labels]
  /\ bench \in [Im -> Nat]
  /\ k \in [Im -> Nat]
  /\ j \in [Im -> Nat]
  /\ arrivals \in [Im -> Nat]
  /\ inside \in [Im -> BOOLEAN]

\* What the statement image p is at says of its loop variables.
Place(p) ==
  /\ bench[p] \in 1 .. Len(Driver(job)) + 1
  /\ pc[p] = "done" <=> bench[p] = Len(Driver(job)) + 1
  /\ pc[p] = "stopped" => job.images = 1
  /\ inside[p] => pc[p] \in InSyncAll
  /\ k[p] <= SyncOuter
  /\ pc[p] # "done" => j[p] <= InnerReps(p)
  /\ pc[p] \in InRest \cup InReference => k[p] = 0
  /\ pc[p] \in InRest \cup InReference \cup {"begin", "start"} => j[p] = 0
  /\ pc[p] \in {"repeat", "unlock"} => j[p] < InnerReps(p)
  /\ pc[p] \in {"all", "images"} => j[p] > 0
  /\ pc[p] \in {"end", "stop", "report"} => j[p] = InnerReps(p)
  /\ pc[p] = "report" => k[p] = SyncOuter
  /\ pc[p] = "all" => Type(p) = "all"
  /\ pc[p] = "images" => Type(p) \in PointToPoint
  /\ pc[p] = "unlock" => Type(p) \in Serialised

PlaceInv == \A p \in Im : Place(p)

\* Nobody has left a sync all that somebody has not entered.
BarrierInv == \A p, q \in Im : Before(p) <= arrivals[q]

\* Images begin a call after the same number of sync all, and the next one
\* after all of the call.
StartInv ==
  \A p, q \in Im :
    /\ bench[q] <= bench[p] + 1
    /\ bench[q] = bench[p] => Start(q) = Start(p)
    /\ bench[q] = bench[p] + 1 => Start(q) = Start(p) + PerCall(p)

TrialInv == LoopTypes /\ PlaceInv /\ BarrierInv /\ StartInv

-----------------------------------------------------------------------------
(***************************************************************************)
(* The driver never asks for more neighbours than there are other images,  *)
(* except that the pair test needs two images; in the ring tests it asks   *)
(* for as many on either side.                                             *)
(***************************************************************************)
LEMMA FewNeighbours ==
  ASSUME NEW jb \in Jobs, NEW b \in 1 .. Len(Driver(jb))
  PROVE  /\ Driver(jb)[b].numneigh \in Nat
         /\ Driver(jb)[b].numneigh = 1 \/ Driver(jb)[b].numneigh <= jb.images - 2
         /\ Driver(jb)[b].type = "pair" => Driver(jb)[b].numneigh = 1
         /\ Driver(jb)[b].type \in {"ring", "rand"} =>
              \E m \in Nat : Driver(jb)[b].numneigh = 2 * m /\ 2 * m <= jb.images - 2
<1> DEFINE limit == IF SyncMaxNeigh < jb.images - 2 THEN SyncMaxNeigh ELSE jb.images - 2
           rings == IF limit < 2 THEN 0 ELSE limit \div 2
           Sizes == {n \in Nat : \E m \in Nat : n = 2 * m /\ 2 * m <= jb.images - 2}
           Single == [type : {"all", "pair", "lock", "crit"}, numneigh : {1}]
           Double == [type : {"ring", "rand"}, numneigh : Sizes]
           Tests == Single \cup Double
           front == <<Test("all", 1), Test("pair", 1)>>
           back  == <<Test("lock", 1), Test("crit", 1)>>
           middle == [m \in 1 .. 2 * rings |->
              Test(IF m % 2 = 1 THEN "ring" ELSE "rand", 2 * ((m + 1) \div 2))]
<1>1. limit \in Int /\ limit <= jb.images - 2 /\ jb.images \in Nat
  BY CafSyncAssumption
<1>2. rings \in Nat /\ (rings = 0 \/ 2 * rings <= jb.images - 2)
  <2> HIDE DEF limit
  <2> QED BY <1>1
<1>3. middle \in Seq(Tests)
  <2> HIDE DEF rings
  <2>1. \A m \in 1 .. 2 * rings :
          Test(IF m % 2 = 1 THEN "ring" ELSE "rand", 2 * ((m + 1) \div 2)) \in Double
    <3> TAKE m \in 1 .. 2 * rings
    <3>1. 2 * ((m + 1) \div 2) \in Sizes
      <4>1. (m + 1) \div 2 \in Nat /\ (m + 1) \div 2 <= rings
        BY <1>2
      <4>2. 2 * ((m + 1) \div 2) \in Nat /\ 2 * ((m + 1) \div 2) <= jb.images - 2
        BY <4>1, <1>1, <1>2
      <4> QED BY <4>1, <4>2
    <3> HIDE DEF Sizes
    <3> QED BY <3>1 DEF Test
  <2>2. 2 * rings \in Nat
    BY <1>2
  <2>3. middle \in [1 .. 2 * rings -> Tests]
    <3> HIDE DEF Double, Single
    <3> QED BY <2>1
  <2> HIDE DEF middle, Tests
  <2> QED BY <2>2, <2>3, IsASeq
<1>4. front \in Seq(Tests) /\ back \in Seq(Tests)
  <2>1. \A type \in {"all", "pair", "lock", "crit"} : Test(type, 1) \in Single
    BY DEF Test
  <2> HIDE DEF Single, Double
  <2> QED BY <2>1
<1>5. Driver(jb) = front \o middle \o back
  BY DEF Driver
<1> HIDE DEF front, middle, back, Tests
<1>6. Driver(jb) \in Seq(Tests)
  BY <1>3, <1>4, <1>5
<1>7. Driver(jb)[b] \in Tests
  BY <1>6
<1>8. CASE Driver(jb)[b] \in Single
  BY <1>8
<1>9. CASE Driver(jb)[b] \in Double
  <2>1. Driver(jb)[b].type \in {"ring", "rand"} /\ Driver(jb)[b].numneigh \in Sizes
    BY <1>9
  <2>2. PICK m \in Nat : Driver(jb)[b].numneigh = 2 * m /\ 2 * m <= jb.images - 2
    BY <2>1
  <2> QED BY <2>1, <2>2
<1> QED BY <1>7, <1>8, <1>9 DEF Tests

\* Only the Fortran suite refuses, and only the pair test on a single image.
LEMMA Refused ==
  ASSUME NEW p, job \in Jobs, bench[p] \in 1 .. Len(Driver(job)),
         TooManyNeighbours(job.port, job.images, Current(p).numneigh)
  PROVE  job.port = "fortran" /\ job.images = 1
<1>1. job.images \in Nat \ {0} /\ job.port \in {"fortran", "dash"}
  BY CafSyncAssumption DEF Ports
<1>2. /\ Current(p).numneigh \in Nat
      /\ Current(p).numneigh = 1 \/ Current(p).numneigh <= job.images - 2
  BY FewNeighbours DEF Current
<1> QED BY <1>1, <1>2 DEF TooManyNeighbours

LEMMA Repetitions ==
  ASSUME NEW p, job \in Jobs
  PROVE  InnerReps(p) \in Nat \ {0} /\ PerTrial(p) \in Nat /\ PerTrial(p) >= 2
<1>1. InnerReps(p) \in Nat \ {0}
  BY CafSyncAssumption DEF InnerReps, AtLeastTwo
<1> QED BY <1>1 DEF PerTrial

\* A whole trial counts more than any part of one.
LEMMA TrialsAdd ==
  ASSUME NEW per \in Nat, NEW a \in Nat, NEW b \in Nat, a < b
  PROVE  (a + 1) * per <= b * per /\ a * per \in Nat /\ b * per \in Nat
         /\ (a + 1) * per = (a * per) + per
OBVIOUS

\* Bounds of the counters.
LEMMA LeftBounds ==
  ASSUME LoopTypes, NEW p \in Im, Place(p)
  PROVE  /\ LeftInTrial(p) \in 0 .. PerTrial(p)
         /\ inside[p] => LeftInTrial(p) < PerTrial(p)
         /\ LeftInCall(p) \in 0 .. PerCall(p)
         /\ inside[p] => LeftInCall(p) < PerCall(p)
         /\ pc[p] = "report" => LeftInCall(p) = PerCall(p)
         /\ PerCall(p) \in Nat \ {0}
<1> DEFINE per == PerTrial(p)
<1>1. InnerReps(p) \in Nat \ {0} /\ PerTrial(p) \in Nat /\ PerTrial(p) >= 2
  BY Repetitions DEF LoopTypes
<1>2. k[p] \in Nat /\ j[p] \in Nat /\ k[p] <= SyncOuter /\ j[p] <= InnerReps(p) /\ SyncOuter \in Nat
  BY <1>1, CafSyncAssumption DEF LoopTypes, Place, InRest
<1>3. LeftInTrial(p) \in 0 .. per /\ (inside[p] => LeftInTrial(p) < per)
      /\ (pc[p] = "report" => LeftInTrial(p) = per)
  BY <1>1, <1>2 DEF LeftInTrial, PerTrial, Place, InLoop, InSyncAll, InRest, InReference
<1>4. (SyncOuter + 1) * per = (SyncOuter * per) + per /\ SyncOuter * per \in Nat
      /\ k[p] * per \in Nat /\ k[p] * per <= SyncOuter * per
  <2> HIDE DEF per
  <2> QED BY <1>1, <1>2 DEF per
<1>5. PerCall(p) \in Nat \ {0}
  BY <1>1, <1>4 DEF PerCall
<1>6. pc[p] = "report" => k[p] * per = SyncOuter * per
  BY DEF Place
<1> QED
  BY <1>1, <1>3, <1>4, <1>5, <1>6 DEF LeftInCall, PerCall, InRest, InReference

-----------------------------------------------------------------------------
\* What a step of image p is, seen from the counters.
Elsewhere(p) ==
  \A r \in Im \ {p} :
    /\ pc'[r] = pc[r] /\ bench'[r] = bench[r] /\ k'[r] = k[r] /\ j'[r] = j[r]
    /\ arrivals'[r] = arrivals[r] /\ inside'[r] = inside[r]

Enters(p) ==
  /\ ~inside[p] /\ inside'[p]
  /\ arrivals'[p] = arrivals[p] + 1 /\ bench'[p] = bench[p]
  /\ LeftInCall(p)' = LeftInCall(p)

Leaves(p) ==
  /\ inside[p] /\ ~inside'[p] /\ \A q \in Im : arrivals[p] <= arrivals[q]
  /\ arrivals'[p] = arrivals[p] /\ bench'[p] = bench[p]
  /\ LeftInCall(p)' = LeftInCall(p) + 1

GoesOn(p) ==
  /\ ~inside[p] /\ ~inside'[p]
  /\ arrivals'[p] = arrivals[p] /\ bench'[p] = bench[p]
  /\ LeftInCall(p)' = LeftInCall(p)

Returns(p) ==
  /\ ~inside[p] /\ ~inside'[p]
  /\ arrivals'[p] = arrivals[p] /\ bench'[p] = bench[p] + 1
  /\ LeftInCall(p) = PerCall(p) /\ LeftInCall(p)' = 0

Effect(p) ==
  /\ LoopTypes' /\ job' = job /\ Elsewhere(p) /\ Place(p)'
  /\ Enters(p) \/ Leaves(p) \/ GoesOn(p) \/ Returns(p)

LEMMA RefuseEffect ==
  ASSUME LoopTypes, PlaceInv, NEW p \in Im, Refuse(p)
  PROVE  Effect(p)
<1>1. Place(p) /\ pc[p] = "setup"
  BY DEF PlaceInv, Refuse
<1>2. job.port = "fortran" /\ job.images = 1
  <2>1. bench[p] \in 1 .. Len(Driver(job))
    BY <1>1, DriverIsSeq DEF Place, LoopTypes
  <2> QED BY <2>1, Refused DEF Refuse, LoopTypes
<1>3. /\ pc' = [pc EXCEPT ![p] = "stopped"]
      /\ UNCHANGED <<job, bench, k, j, arrivals, inside>>
  BY <1>2 DEF Refuse, Goto, loops, global
<1>4. Im' = Im /\ Driver(job)' = Driver(job) /\ Type(p)' = Type(p) /\ InnerReps(p)' = InnerReps(p)
  BY <1>3 DEF Im, Type, Current, InnerReps
<1>5. LoopTypes' /\ Elsewhere(p) /\ pc'[p] = "stopped"
  BY <1>3, <1>4 DEF LoopTypes, Labels, Elsewhere
<1>6. Place(p)'
  BY <1>1, <1>2, <1>3, <1>4, <1>5 DEF Place, InRest, InReference, InSyncAll
<1>7. GoesOn(p)
  BY <1>1, <1>3, <1>5 DEF GoesOn, LeftInCall, InRest, Place, InSyncAll, LoopTypes
<1> QED BY <1>3, <1>5, <1>6, <1>7 DEF Effect

\* In the same call, image p makes the same numbers of repetitions.
LEMMA SameCall ==
  ASSUME NEW p, UNCHANGED <<job, bench>>
  PROVE  /\ Im' = Im /\ Driver(job)' = Driver(job)
         /\ Type(p)' = Type(p) /\ InnerReps(p)' = InnerReps(p)
         /\ PerTrial(p)' = PerTrial(p)
<1>1. Im' = Im /\ Driver(job)' = Driver(job)
  BY DEF Im
<1>2. Type(p)' = Type(p)
  BY <1>1 DEF Type, Current
<1>3. InnerReps(p)' = InnerReps(p) /\ PerTrial(p)' = PerTrial(p)
  BY <1>2 DEF InnerReps, PerTrial
<1> QED BY <1>1, <1>2, <1>3

LEMMA SetupEffect ==
  ASSUME LoopTypes, PlaceInv, NEW p \in Im, Setup(p)
  PROVE  Effect(p)
<1>1. /\ pc[p] = "setup" /\ Place(p)
      /\ pc' = [pc EXCEPT ![p] = "ready"]
      /\ UNCHANGED <<job, bench, k, j, arrivals, inside>>
  BY DEF Setup, Goto, loops, global, PlaceInv
<1>2. /\ LoopTypes' /\ Elsewhere(p) /\ pc'[p] = "ready"
      /\ Driver(job)' = Driver(job) /\ InnerReps(p)' = InnerReps(p) /\ Type(p)' = Type(p)
  <2>1. Im' = Im
    BY <1>1 DEF Im
  <2> QED BY <1>1, <2>1, SameCall DEF LoopTypes, Labels, Elsewhere
<1>3. Place(p)'
  BY <1>1, <1>2 DEF Place, InRest, InReference, InSyncAll
<1>4. GoesOn(p)
  BY <1>1, <1>2 DEF GoesOn, LeftInCall, InRest, Place, InSyncAll, LoopTypes
<1> QED BY <1>1, <1>2, <1>3, <1>4 DEF Effect

LEMMA EnterEffect ==
  ASSUME LoopTypes, PlaceInv, NEW p \in Im, EnterSyncAll(p)
  PROVE  Effect(p)
<1>1. /\ pc[p] \in InSyncAll /\ ~inside[p] /\ Place(p)
      /\ UNCHANGED <<job, pc, bench, k, j>>
      /\ inside' = [inside EXCEPT ![p] = TRUE]
      /\ arrivals' = [arrivals EXCEPT ![p] = @ + 1]
  BY DEF EnterSyncAll, test, loops, PlaceInv, InSyncAll
<1>2. inside'[p] /\ arrivals'[p] = arrivals[p] + 1
  BY <1>1 DEF LoopTypes
<1>3. /\ LoopTypes' /\ Elsewhere(p)
      /\ Driver(job)' = Driver(job) /\ InnerReps(p)' = InnerReps(p) /\ Type(p)' = Type(p)
      /\ PerTrial(p)' = PerTrial(p)
  <2>1. Im' = Im
    BY <1>1 DEF Im
  <2> QED BY <1>1, <2>1, SameCall DEF LoopTypes, Elsewhere
<1>4. Place(p)'
  BY <1>1, <1>3 DEF Place, InSyncAll
<1>5. Enters(p)
  BY <1>1, <1>2, <1>3 DEF Enters, LeftInCall, LeftInTrial
<1> QED BY <1>1, <1>3, <1>4, <1>5 DEF Effect

LEMMA LeaveEffect ==
  ASSUME LoopTypes, PlaceInv, NEW p \in Im, LeaveSyncAll(p)
  PROVE  Effect(p)
<1> DEFINE label == AfterSyncAll(p)
<1>1. /\ pc[p] \in InSyncAll /\ inside[p] /\ Place(p)
      /\ UNCHANGED <<job, bench, k, j, arrivals>>
      /\ inside' = [inside EXCEPT ![p] = FALSE]
      /\ pc' = [pc EXCEPT ![p] = label]
      /\ \A q \in Im : arrivals[p] <= arrivals[q]
  BY DEF LeaveSyncAll, Goto, test, loops, PlaceInv, Place, LoopTypes
<1>2. ~inside'[p]
  BY <1>1 DEF LoopTypes
<1>3. label \in Labels
  BY <1>1 DEF AfterSyncAll, AfterRepeat, Labels, InSyncAll
<1>4. /\ LoopTypes' /\ Elsewhere(p) /\ pc'[p] = label
      /\ Driver(job)' = Driver(job) /\ InnerReps(p)' = InnerReps(p) /\ Type(p)' = Type(p)
      /\ PerTrial(p)' = PerTrial(p)
  <2>1. Im' = Im
    BY <1>1 DEF Im
  <2> HIDE DEF label
  <2> QED BY <1>1, <1>3, <2>1, SameCall DEF LoopTypes, Elsewhere
<1>5. /\ k'[p] = k[p] /\ j'[p] = j[p] /\ bench'[p] = bench[p]
      /\ k[p] \in Nat /\ j[p] \in Nat /\ InnerReps(p) \in Nat \ {0} /\ PerTrial(p) \in Nat
      /\ k[p] * PerTrial(p) \in Nat
  BY <1>1, Repetitions DEF LoopTypes
<1>6. Place(p)' /\ LeftInCall(p)' = LeftInCall(p) + 1
  <2>1. CASE pc[p] = "ready"
    BY <1>1, <1>2, <1>4, <1>5, <2>1
    DEF AfterSyncAll, Place, InSyncAll, InRest, InReference, LeftInCall
  <2>2. CASE pc[p] = "measured"
    <3>1. k[p] = 0 /\ j[p] = 0 /\ label = "begin"
      BY <1>1, <2>2 DEF AfterSyncAll, Place, InReference
    <3> HIDE DEF label
    <3>2. k'[p] * PerTrial(p) = 0 /\ pc'[p] = "begin"
      BY <1>4, <1>5, <3>1
    <3> QED
      BY <1>1, <1>2, <1>4, <1>5, <2>2, <3>1, <3>2
      DEF Place, InSyncAll, InRest, InReference, InLoop, LeftInCall, LeftInTrial
  <2>3. CASE pc[p] = "begin"
    BY <1>1, <1>2, <1>4, <1>5, <2>3
    DEF AfterSyncAll, Place, InSyncAll, InRest, InReference, InLoop, LeftInCall, LeftInTrial
  <2>4. CASE pc[p] = "all"
    <3>1. label = IF j[p] < InnerReps(p) THEN "repeat" ELSE "end"
      BY <2>4 DEF AfterSyncAll, AfterRepeat
    <3>2. Type(p) = "all" /\ j[p] > 0 /\ j[p] <= InnerReps(p) /\ LeftInTrial(p) = j[p]
          /\ LeftInCall(p) = 2 + (k[p] * PerTrial(p)) + LeftInTrial(p)
      BY <1>1, <1>5, <2>4 DEF Place, LeftInTrial, LeftInCall, InLoop, InRest, InReference
    <3> HIDE DEF label
    <3>3. LeftInTrial(p)' = j[p] + 1
      BY <1>1, <1>4, <1>5, <3>1, <3>2 DEF LeftInTrial, InLoop
    <3>4. LeftInCall(p)' = LeftInCall(p) + 1
      <4>1. LeftInCall(p)' = 2 + (k'[p] * PerTrial(p)') + LeftInTrial(p)'
        BY <1>4, <3>1 DEF LeftInCall, InRest, InReference
      <4>2. k'[p] * PerTrial(p)' = k[p] * PerTrial(p)
        BY <1>4, <1>5
      <4> QED BY <1>5, <3>2, <3>3, <4>1, <4>2
    <3>5. Place(p)'
      BY <1>1, <1>2, <1>4, <1>5, <2>4, <3>1, <3>2 DEF Place, InSyncAll, InRest, InReference
    <3> QED BY <3>4, <3>5
  <2>5. CASE pc[p] = "end"
    BY <1>1, <1>2, <1>4, <1>5, <2>5
    DEF AfterSyncAll, Place, InSyncAll, InRest, InReference, InLoop, LeftInCall, LeftInTrial
  <2> QED BY <1>1, <2>1, <2>2, <2>3, <2>4, <2>5 DEF InSyncAll
<1>7. Leaves(p)
  BY <1>1, <1>2, <1>6 DEF Leaves
<1> QED BY <1>1, <1>4, <1>6, <1>7 DEF Effect

\* A step in which image p neither enters nor leaves a sync all.
LEMMA LocalEffect ==
  ASSUME LoopTypes, PlaceInv, NEW p \in Im, NEW label \in Labels,
         pc' = [pc EXCEPT ![p] = label],
         UNCHANGED <<job, bench, arrivals, inside>>, ~inside[p],
         NEW a \in Nat, k' = [k EXCEPT ![p] = a],
         NEW b \in Nat, j' = [j EXCEPT ![p] = b],
         Place(p)', LeftInCall(p)' = LeftInCall(p)
  PROVE  Effect(p)
<1>1. LoopTypes' /\ Elsewhere(p)
  <2>1. Im' = Im
    BY DEF Im
  <2> QED BY <2>1 DEF LoopTypes, Elsewhere
<1> QED BY <1>1 DEF Effect, GoesOn

\* The loop of delays, with and without synchronisation.
LEMMA DelayEffect ==
  ASSUME LoopTypes, PlaceInv, NEW p \in Im,
         \/ Reference(p)
         \/ StartTimer(p)
         \/ DelayAndSyncAll(p)
         \/ DelayAndPost(p)
         \/ SyncImages(p)
         \/ LockAndDelay(p)
         \/ Unlock(p)
  PROVE  Effect(p)
<1> USE DEF Goto, loops, global, test, lock, timing
<1> DEFINE label == pc'[p]
<1>1. /\ UNCHANGED <<job, bench, arrivals, inside, k>>
      /\ pc[p] \in {"reference", "start", "repeat", "images", "unlock"}
  BY DEF Reference, StartTimer, DelayAndSyncAll, DelayAndPost, SyncImages, LockAndDelay, Unlock
<1>2. /\ label \in {"measured", "repeat", "all", "images", "unlock", "end"}
      /\ pc' = [pc EXCEPT ![p] = label]
  BY DEF Reference, StartTimer, DelayAndSyncAll, DelayAndPost, SyncImages, LockAndDelay, Unlock,
         AfterRepeat, LoopTypes
<1>3. Place(p) /\ ~inside[p]
  BY <1>1 DEF PlaceInv, Place, InSyncAll
<1>4. /\ k[p] \in Nat /\ j[p] \in Nat /\ InnerReps(p) \in Nat \ {0} /\ PerTrial(p) \in Nat
      /\ k[p] * PerTrial(p) \in Nat
  BY Repetitions DEF LoopTypes
<1>5. /\ j'[p] \in Nat /\ j' = [j EXCEPT ![p] = j'[p]]
      /\ \/ j' = j /\ ~DelayAndSyncAll(p) /\ ~DelayAndPost(p) /\ ~Unlock(p)
         \/ j'[p] = j[p] + 1
  BY <1>4 DEF Reference, StartTimer, DelayAndSyncAll, DelayAndPost, SyncImages, LockAndDelay,
              Unlock, Repeat, LoopTypes
<1>6. /\ Driver(job)' = Driver(job) /\ InnerReps(p)' = InnerReps(p) /\ Type(p)' = Type(p)
      /\ PerTrial(p)' = PerTrial(p)
  BY <1>1, SameCall
<1>7. Place(p)' /\ LeftInCall(p)' = LeftInCall(p)
  <2> USE DEF Place, LeftInCall, LeftInTrial, InSyncAll, InRest, InReference, InLoop
  <2>1. CASE Reference(p)
    BY <1>1, <1>2, <1>3, <1>4, <1>6, <2>1 DEF Reference
  <2>2. CASE StartTimer(p)
    BY <1>1, <1>2, <1>3, <1>4, <1>6, <2>2, SMTT(30) DEF StartTimer
  <2>3. CASE DelayAndSyncAll(p)
    <3>1. pc[p] = "repeat" /\ Type(p) = "all" /\ label = "all" /\ j'[p] = j[p] + 1
      BY <1>5, <2>3 DEF DelayAndSyncAll, LoopTypes
    <3> HIDE DEF label
    <3> QED BY <1>1, <1>3, <1>4, <1>6, <3>1, SMTT(30) DEF label
  <2>4. CASE DelayAndPost(p)
    <3>1. pc[p] = "repeat" /\ Type(p) \in PointToPoint /\ label = "images" /\ j'[p] = j[p] + 1
      BY <1>5, <2>4 DEF DelayAndPost, LoopTypes
    <3>2. Type(p) # "all"
      BY <3>1 DEF PointToPoint
    <3> QED BY <1>1, <1>3, <1>4, <1>6, <3>1, <3>2
  <2>5. CASE SyncImages(p)
    BY <1>1, <1>2, <1>3, <1>4, <1>6, <2>5, SMTT(30) DEF SyncImages, AfterRepeat, PointToPoint
  <2>6. CASE LockAndDelay(p)
    BY <1>1, <1>2, <1>3, <1>4, <1>6, <2>6, SMTT(30) DEF LockAndDelay
  <2>7. CASE Unlock(p)
    <3>1. pc[p] = "unlock" /\ Type(p) \in Serialised /\ j'[p] = j[p] + 1 /\ j[p] < InnerReps(p)
      BY <1>3, <1>5, <2>7 DEF Unlock
    <3>2. label = IF j[p] + 1 < InnerReps(p) THEN "repeat" ELSE "end"
      BY <2>7 DEF Unlock, AfterRepeat, LoopTypes
    <3>3. Type(p) # "all"
      BY <3>1 DEF Serialised
    <3> HIDE DEF label
    <3> QED BY <1>1, <1>3, <1>4, <1>6, <3>1, <3>2, <3>3 DEF label
  <2> QED BY <2>1, <2>2, <2>3, <2>4, <2>5, <2>6, <2>7
<1>8. label \in Labels
  BY <1>2 DEF Labels
<1>9. k' = [k EXCEPT ![p] = k[p]]
  BY <1>1 DEF LoopTypes
<1> HIDE DEF label
<1> QED BY <1>1, <1>2, <1>3, <1>4, <1>5, <1>7, <1>8, <1>9, LocalEffect

LEMMA StopTimerEffect ==
  ASSUME LoopTypes, PlaceInv, NEW p \in Im, StopTimer(p)
  PROVE  Effect(p)
<1> USE DEF Goto, loops, global, test
<1>1. /\ pc[p] = "stop" /\ Place(p) /\ ~inside[p]
      /\ UNCHANGED <<job, bench, arrivals, inside>>
  BY DEF StopTimer, PlaceInv, Place, InSyncAll
<1>2. /\ k[p] \in Nat /\ j[p] = InnerReps(p) /\ InnerReps(p) \in Nat \ {0} /\ PerTrial(p) \in Nat
      /\ k[p] <= SyncOuter /\ SyncOuter \in Nat
      /\ (k[p] + 1) * PerTrial(p) = (k[p] * PerTrial(p)) + PerTrial(p)
      /\ k[p] * PerTrial(p) \in Nat
  BY <1>1, Repetitions, CafSyncAssumption DEF LoopTypes, Place
<1>3. CASE k[p] < SyncOuter
  <2>1. /\ k' = [k EXCEPT ![p] = @ + 1] /\ j' = [j EXCEPT ![p] = 0]
        /\ pc' = [pc EXCEPT ![p] = "begin"]
    BY <1>3 DEF StopTimer
  <2>2. k'[p] = k[p] + 1 /\ j'[p] = 0 /\ pc'[p] = "begin"
    BY <2>1 DEF LoopTypes
  <2>3. /\ Driver(job)' = Driver(job) /\ InnerReps(p)' = InnerReps(p) /\ Type(p)' = Type(p)
        /\ PerTrial(p)' = PerTrial(p)
    BY <1>1 DEF Type, Current, InnerReps, PerTrial
  <2>4. Place(p)'
    BY <1>1, <1>2, <1>3, <2>2, <2>3 DEF Place, InSyncAll, InRest, InReference
  <2>5. LeftInCall(p)' = LeftInCall(p)
    BY <1>1, <1>2, <2>2, <2>3 DEF LeftInCall, LeftInTrial, InRest, InReference, InLoop, PerTrial
  <2>6. k' = [k EXCEPT ![p] = k[p] + 1] /\ k[p] + 1 \in Nat /\ "begin" \in Labels
    BY <1>2, <2>1 DEF Labels
  <2> QED BY <1>1, <2>1, <2>4, <2>5, <2>6, LocalEffect
<1>4. CASE ~(k[p] < SyncOuter)
  <2>1. UNCHANGED <<k, j>> /\ pc' = [pc EXCEPT ![p] = "report"]
    BY <1>4 DEF StopTimer
  <2>2. pc'[p] = "report" /\ k[p] = SyncOuter
    <3>1. \A n, m \in Nat : n <= m /\ ~(n < m) => n = m
      OBVIOUS
    <3>2. k[p] = SyncOuter
      BY <1>2, <1>4, <3>1
    <3> QED BY <2>1, <3>2 DEF LoopTypes
  <2>3. /\ Driver(job)' = Driver(job) /\ InnerReps(p)' = InnerReps(p) /\ Type(p)' = Type(p)
        /\ PerTrial(p)' = PerTrial(p)
    BY <1>1 DEF Type, Current, InnerReps, PerTrial
  <2>4. Place(p)'
    BY <1>1, <1>2, <2>1, <2>2, <2>3 DEF Place, InSyncAll, InRest, InReference
  <2>5. LeftInCall(p)' = LeftInCall(p)
    BY <1>1, <1>2, <2>1, <2>2, <2>3 DEF LeftInCall, LeftInTrial, InRest, InReference, InLoop
  <2>6. /\ k' = [k EXCEPT ![p] = k[p]] /\ k[p] \in Nat
        /\ j' = [j EXCEPT ![p] = j[p]] /\ j[p] \in Nat
        /\ "report" \in Labels
    BY <2>1 DEF LoopTypes, Labels
  <2> QED BY <1>1, <2>1, <2>4, <2>5, <2>6, LocalEffect
<1> QED BY <1>3, <1>4

LEMMA ReportEffect ==
  ASSUME LoopTypes, PlaceInv, NEW p \in Im, Report(p)
  PROVE  Effect(p)
<1> DEFINE label == IF bench[p] = Len(Driver(job)) THEN "done" ELSE "setup"
<1>1. /\ pc[p] = "report" /\ Place(p) /\ ~inside[p]
      /\ UNCHANGED <<job, arrivals, inside>>
      /\ bench' = [bench EXCEPT ![p] = @ + 1]
      /\ k' = [k EXCEPT ![p] = 0]
      /\ j' = [j EXCEPT ![p] = 0]
      /\ pc' = [pc EXCEPT ![p] = label]
  BY DEF Report, Return, Goto, global, PlaceInv, Place, InSyncAll
<1>2. /\ bench'[p] = bench[p] + 1 /\ k'[p] = 0 /\ j'[p] = 0 /\ pc'[p] = label
      /\ label \in {"done", "setup"}
  BY <1>1 DEF LoopTypes
<1>3. Im' = Im /\ Driver(job)' = Driver(job) /\ Len(Driver(job)) \in Nat
  BY <1>1, DriverIsSeq DEF Im, LoopTypes
<1>4. LoopTypes' /\ Elsewhere(p)
  BY <1>1, <1>2, <1>3 DEF LoopTypes, Elsewhere, Labels
<1>5. InnerReps(p)' \in Nat
  <2>1. (job \in Jobs)' => (InnerReps(p) \in Nat)'
    BY CafSyncAssumption DEF InnerReps, AtLeastTwo
  <2> QED BY <1>4, <2>1 DEF LoopTypes
<1>6. bench[p] \in 1 .. Len(Driver(job))
  BY <1>1, <1>3 DEF Place, LoopTypes
<1>7. Place(p)'
  BY <1>1, <1>2, <1>3, <1>5, <1>6, CafSyncAssumption DEF Place, InSyncAll, InRest, InReference
<1>8. LeftInCall(p) = PerCall(p)
  BY <1>1, LeftBounds
<1>9. Returns(p)
  BY <1>1, <1>2, <1>8 DEF Returns, LeftInCall, InRest
<1> QED BY <1>1, <1>4, <1>7, <1>9 DEF Effect

LEMMA StepEffect ==
  ASSUME LoopTypes, PlaceInv, NEW p \in Im, Step(p)
  PROVE  Effect(p)
BY RefuseEffect, SetupEffect, EnterEffect, LeaveEffect, DelayEffect, StopTimerEffect, ReportEffect
DEF Step

-----------------------------------------------------------------------------
\* Who has not kept up with image p is inside the sync all that p has left,
\* and image p is in the next call only when the others have left the last
\* sync all of this one, or are inside it.
LEMMA InStep ==
  ASSUME TrialInv, NEW p \in Im, NEW q \in Im
  PROVE  /\ bench[q] = bench[p] =>
              \/ LeftInCall(p) <= LeftInCall(q)
              \/ inside[q] /\ LeftInCall(p) <= LeftInCall(q) + 1
         /\ bench[q] < bench[p] =>
              /\ bench[p] = bench[q] + 1 /\ LeftInCall(p) = 0
              /\ \/ LeftInCall(q) = PerCall(q)
                 \/ inside[q] /\ LeftInCall(q) + 1 = PerCall(q)
<1>1. /\ LeftInCall(p) \in Nat
      /\ LeftInCall(q) \in 0 .. PerCall(q)
      /\ inside[q] => LeftInCall(q) < PerCall(q)
      /\ PerCall(q) \in Nat \ {0}
  BY LeftBounds DEF TrialInv, PlaceInv
<1>2. /\ bench[p] \in Nat /\ bench[q] \in Nat
      /\ arrivals[p] \in Nat /\ arrivals[q] \in Nat
      /\ Before(p) \in Int /\ Before(q) \in Int
      /\ arrivals[q] = Before(q) + (IF inside[q] THEN 1 ELSE 0)
  BY DEF TrialInv, LoopTypes, Before
<1>3. Before(p) <= arrivals[q]
  BY DEF TrialInv, BarrierInv
<1>4. /\ bench[p] <= bench[q] + 1
      /\ bench[q] = bench[p] => Start(q) = Start(p)
      /\ bench[p] = bench[q] + 1 => Start(p) = Start(q) + PerCall(q)
  BY DEF TrialInv, StartInv
<1>5. Start(p) = Before(p) - LeftInCall(p) /\ Start(q) = Before(q) - LeftInCall(q)
  BY DEF Start
<1> QED BY <1>1, <1>2, <1>3, <1>4, <1>5

LEMMA OthersUnchanged ==
  ASSUME NEW p \in Im, Elsewhere(p), job' = job, NEW r \in Im \ {p}
  PROVE  /\ Place(r)' <=> Place(r)
         /\ Before(r)' = Before(r)
         /\ LeftInCall(r)' = LeftInCall(r)
         /\ PerCall(r)' = PerCall(r)
         /\ Start(r)' = Start(r)
<1>1. Driver(job)' = Driver(job)
  OBVIOUS
<1>2. Type(r)' = Type(r)
  BY <1>1 DEF Type, Current, Elsewhere
<1>3. InnerReps(r)' = InnerReps(r)
  BY <1>2 DEF InnerReps
<1>4. PerTrial(r)' = PerTrial(r)
  BY <1>2, <1>3 DEF PerTrial
<1>5. PerCall(r)' = PerCall(r)
  BY <1>4 DEF PerCall
<1>6. Place(r)' <=> Place(r)
  BY <1>1, <1>2, <1>3 DEF Place, Elsewhere
<1>7. Before(r)' = Before(r)
  BY DEF Before, Elsewhere
<1>8. LeftInTrial(r)' = LeftInTrial(r)
  BY <1>2 DEF LeftInTrial, Elsewhere
<1>9. LeftInCall(r)' = LeftInCall(r)
  BY <1>4, <1>8 DEF LeftInCall, Elsewhere
<1>10. Start(r)' = Start(r)
  BY <1>7, <1>9 DEF Start
<1> QED BY <1>5, <1>6, <1>7, <1>9, <1>10

LEMMA InitTrial ==
  ASSUME Init
  PROVE  TrialInv
<1>1. Len(Driver(job)) \in Nat \ {0}
  BY DriverIsSeq DEF Init
<1>2. LoopTypes
  BY DEF Init, LoopTypes, Labels
<1>3. PlaceInv
  <2> SUFFICES ASSUME NEW p \in Im PROVE Place(p)
    BY DEF PlaceInv
  <2>1. /\ pc[p] = "setup" /\ bench[p] = 1 /\ k[p] = 0 /\ j[p] = 0 /\ ~inside[p]
        /\ InnerReps(p) \in Nat
    BY <1>2, Repetitions DEF Init, LoopTypes
  <2> QED BY <1>1, <2>1, CafSyncAssumption DEF Place
<1>4. \A p \in Im : Before(p) = 0 /\ Start(p) = 0 /\ arrivals[p] = 0 /\ bench[p] = 1
  BY DEF Init, Before, Start, LeftInCall, InRest
<1> QED BY <1>2, <1>3, <1>4 DEF TrialInv, BarrierInv, StartInv

LEMMA EffectTrial ==
  ASSUME TrialInv, NEW p \in Im, Effect(p)
  PROVE  TrialInv'
<1>1. /\ LoopTypes' /\ Im' = Im /\ Elsewhere(p) /\ job' = job
      /\ bench \in [Im -> Nat] /\ arrivals \in [Im -> Nat]
      /\ bench[p] \in Nat /\ arrivals[p] \in Nat
  BY DEF Effect, Im, TrialInv, LoopTypes
<1>2. \A r \in Im \ {p} :
         /\ Place(r)' <=> Place(r)
         /\ Before(r)' = Before(r)
         /\ LeftInCall(r)' = LeftInCall(r)
         /\ PerCall(r)' = PerCall(r)
         /\ Start(r)' = Start(r)
         /\ arrivals'[r] = arrivals[r]
         /\ bench'[r] = bench[r]
  BY <1>1, OthersUnchanged DEF Elsewhere
<1>3. PlaceInv'
  BY <1>1, <1>2 DEF Effect, PlaceInv, TrialInv
<1>4. \A r \in Im : /\ LeftInCall(r) \in Nat /\ PerCall(r) \in Nat \ {0}
                     /\ Before(r) \in Int /\ Start(r) \in Int
                     /\ bench[r] \in Nat
  <2> TAKE r \in Im
  <2>1. LeftInCall(r) \in Nat /\ PerCall(r) \in Nat \ {0}
    BY LeftBounds DEF TrialInv, PlaceInv
  <2>2. Before(r) \in Int
    BY <1>1 DEF Before
  <2> QED BY <1>1, <2>1, <2>2 DEF Start
<1>5. BarrierInv'
  <2>1. arrivals'[p] >= arrivals[p] /\ arrivals'[p] \in Nat
    BY <1>1 DEF Effect, Enters, Leaves, GoesOn, Returns
  <2>2. Before(p)' = Before(p) \/ (Leaves(p) /\ Before(p)' = arrivals[p])
    BY <1>1 DEF Effect, Enters, Leaves, GoesOn, Returns, Before
  <2>3. ASSUME NEW q \in Im, NEW r \in Im PROVE Before(q)' <= arrivals'[r]
    <3>1. arrivals[r] \in Nat /\ arrivals'[r] >= arrivals[r] /\ arrivals'[r] \in Nat
      BY <1>1, <1>2, <2>1
    <3>2. Before(q)' <= arrivals[r]
      <4>1. Before(q) <= arrivals[r]
        BY DEF TrialInv, BarrierInv
      <4> QED BY <4>1, <1>2, <2>2 DEF Leaves
    <3>3. Before(q)' \in Int
      BY <1>2, <1>4, <1>1, <2>2
    <3> QED BY <3>1, <3>2, <3>3
  <2> QED BY <1>1, <2>3 DEF BarrierInv
<1>6. CASE ~Returns(p)
  <2>1. bench'[p] = bench[p] /\ Start(p)' = Start(p)
    <3>1. CASE Enters(p)
      BY <1>1, <1>4, <3>1 DEF Enters, Start, Before
    <3>2. CASE Leaves(p)
      BY <1>1, <1>4, <3>2 DEF Leaves, Start, Before
    <3>3. CASE GoesOn(p)
      BY <1>1, <1>4, <3>3 DEF GoesOn, Start, Before
    <3> QED BY <1>6, <3>1, <3>2, <3>3 DEF Effect
  <2>2. PerCall(p)' = PerCall(p)
    BY <1>1, <2>1 DEF PerCall, PerTrial, InnerReps, Type, Current
  <2>3. \A r \in Im : bench'[r] = bench[r] /\ Start(r)' = Start(r) /\ PerCall(r)' = PerCall(r)
    BY <1>2, <2>1, <2>2
  <2>4. StartInv'
    BY <1>1, <2>3 DEF TrialInv, StartInv
  <2> QED BY <1>1, <1>3, <1>5, <2>4 DEF TrialInv
<1>7. CASE Returns(p)
  <2>1. /\ bench'[p] = bench[p] + 1 /\ LeftInCall(p) = PerCall(p)
        /\ Start(p)' = Start(p) + PerCall(p)
    BY <1>1, <1>4, <1>7 DEF Returns, Start, Before
  <2>2. \A r \in Im : bench[p] <= bench[r]
    <3> SUFFICES ASSUME NEW r \in Im, bench[r] < bench[p] PROVE FALSE
      BY <1>4
    <3>1. LeftInCall(p) = 0
      BY InStep
    <3> QED BY <1>4, <2>1, <3>1
  <2>3. \A r \in Im : bench[r] <= bench[p] + 1
    BY DEF TrialInv, StartInv
  <2>4. \A r \in Im : bench[r] = bench[p] => Start(r) = Start(p) /\ PerCall(r) = PerCall(p)
    BY DEF TrialInv, StartInv, PerCall, PerTrial, InnerReps, Type, Current
  <2>5. \A r \in Im : bench[r] = bench[p] + 1 => Start(r) = Start(p) + PerCall(p)
    BY DEF TrialInv, StartInv
  <2>6. ASSUME NEW q \in Im, NEW r \in Im
        PROVE  /\ bench'[r] <= bench'[q] + 1
               /\ bench'[r] = bench'[q] => Start(r)' = Start(q)'
               /\ bench'[r] = bench'[q] + 1 => Start(r)' = Start(q)' + PerCall(q)'
    <3>1. CASE q = p /\ r = p
      BY <3>1, <1>4, <2>1
    <3>2. CASE q = p /\ r # p
      BY <3>2, <1>2, <1>4, <2>1, <2>3, <2>5
    <3>3. CASE q # p /\ r = p
      BY <3>3, <1>2, <1>4, <2>1, <2>2, <2>4, <2>5
    <3>4. CASE q # p /\ r # p
      <4>1. /\ bench[r] <= bench[q] + 1
            /\ bench[r] = bench[q] => Start(r) = Start(q)
            /\ bench[r] = bench[q] + 1 => Start(r) = Start(q) + PerCall(q)
        BY DEF TrialInv, StartInv
      <4> QED BY <4>1, <3>4, <1>2
    <3> QED BY <3>1, <3>2, <3>3, <3>4
  <2>7. StartInv'
    BY <1>1, <2>6 DEF StartInv
  <2> QED BY <1>1, <1>3, <1>5, <2>7 DEF TrialInv
<1> QED BY <1>6, <1>7

LEMMA NextTrial ==
  ASSUME TrialInv, [Next]_vars
  PROVE  TrialInv'
<1>1. ASSUME NEW p \in Im, Step(p) PROVE TrialInv'
  BY <1>1, StepEffect, EffectTrial DEF TrialInv
<1>2. CASE UNCHANGED vars
  <2>1. Im' = Im /\ Driver(job)' = Driver(job)
    BY <1>2 DEF vars, test, Im
  <2>2. \A r : Type(r)' = Type(r) /\ Current(r)' = Current(r)
    BY <1>2, <2>1 DEF vars, test, Type, Current
  <2>3. \A r : InnerReps(r)' = InnerReps(r)
    BY <1>2, <2>2 DEF vars, test, InnerReps
  <2>4. \A r : PerTrial(r)' = PerTrial(r)
    BY <2>2, <2>3 DEF PerTrial
  <2>5. \A r : Start(r)' = Start(r) /\ Before(r)' = Before(r) /\ PerCall(r)' = PerCall(r)
    BY <1>2, <2>2, <2>4 DEF vars, loops, global, Start, Before, LeftInCall, LeftInTrial, PerCall
  <2>6. LoopTypes'
    BY <1>2, <2>1 DEF vars, test, loops, global, TrialInv, LoopTypes
  <2>7. PlaceInv'
    BY <1>2, <2>1, <2>2, <2>3 DEF vars, test, loops, global, TrialInv, PlaceInv, Place
  <2>8. BarrierInv' /\ StartInv'
    BY <1>2, <2>1, <2>5 DEF vars, test, global, TrialInv, BarrierInv, StartInv
  <2> QED BY <2>6, <2>7, <2>8 DEF TrialInv
<1> QED BY <1>1, <1>2 DEF Next, Exit

(***************************************************************************)
(* Every image counts its sync all: images are in the same call, or one is *)
(* through with it and the other has nothing left in it but to wait.       *)
(***************************************************************************)
THEOREM TrialInvariance == Spec => []TrialInv
<1>1. Init => TrialInv
  BY InitTrial
<1>2. TrialInv /\ [Next]_vars => TrialInv'
  BY NextTrial
<1> QED BY <1>1, <1>2, PTL DEF Spec

-----------------------------------------------------------------------------
\* Images in the same call have the same numbers of repetitions.
LEMMA SameNumbers ==
  ASSUME NEW p, NEW q, bench[q] = bench[p]
  PROVE  /\ Type(q) = Type(p) /\ InnerReps(q) = InnerReps(p)
         /\ PerTrial(q) = PerTrial(p) /\ PerCall(q) = PerCall(p)
<1>1. Type(q) = Type(p)
  BY DEF Type, Current
<1>2. InnerReps(q) = InnerReps(p)
  BY <1>1 DEF InnerReps
<1>3. PerTrial(q) = PerTrial(p)
  BY <1>1, <1>2 DEF PerTrial
<1> QED BY <1>1, <1>2, <1>3 DEF PerCall

\* Whoever has left a sync all of a trial finds nobody in an earlier trial,
\* and in this one nobody who has not entered that sync all.
LEMMA TrialReached ==
  ASSUME TrialInv, NEW p \in Im, NEW q \in Im, bench[q] = bench[p],
         pc[p] \notin InRest \cup InReference, LeftInTrial(p) > 0
  PROVE  /\ pc[q] \notin InRest \cup InReference
         /\ \/ k[q] > k[p]
            \/ k[q] = k[p] /\ LeftInTrial(p) <= LeftInTrial(q)
            \/ k[q] = k[p] /\ inside[q] /\ LeftInTrial(p) <= LeftInTrial(q) + 1
<1> DEFINE per == PerTrial(p)
<1>1. /\ k[p] \in Nat /\ k[q] \in Nat /\ per \in Nat
      /\ LeftInTrial(p) \in Nat /\ LeftInTrial(q) \in 0 .. per
      /\ inside[q] => LeftInTrial(q) < per
      /\ LeftInCall(q) \in Nat
  <2>1. Place(p) /\ Place(q) /\ PerTrial(q) = PerTrial(p)
    BY SameNumbers DEF TrialInv, PlaceInv
  <2> QED BY <2>1, LeftBounds, Repetitions DEF TrialInv, LoopTypes
<1>2. LeftInCall(p) = 2 + (k[p] * per) + LeftInTrial(p) /\ k[p] * per \in Nat /\ k[q] * per \in Nat
  <2> HIDE DEF per
  <2> QED BY <1>1 DEF LeftInCall, per
<1>3. \/ LeftInCall(p) <= LeftInCall(q)
      \/ inside[q] /\ LeftInCall(p) <= LeftInCall(q) + 1
  BY InStep
<1>4. LeftInCall(q) >= 2
  BY <1>1, <1>2, <1>3
<1>5. pc[q] \notin InRest \cup InReference
  BY <1>4 DEF LeftInCall
<1>6. LeftInCall(q) = 2 + (k[q] * per) + LeftInTrial(q)
  BY <1>5, SameNumbers DEF LeftInCall
<1>7. k[q] < k[p] => (k[q] * per) + per <= k[p] * per
  <2> HIDE DEF per
  <2> QED BY <1>1, TrialsAdd
<1> HIDE DEF per
<1> QED BY <1>1, <1>2, <1>3, <1>5, <1>6, <1>7

\* Nobody is in an earlier call than an image inside a trial.
LEMMA CallReached ==
  ASSUME TrialInv, NEW p \in Im, NEW q \in Im, LeftInCall(p) > 0
  PROVE  bench[q] >= bench[p]
<1>1. bench[p] \in Nat /\ bench[q] \in Nat
  BY DEF TrialInv, LoopTypes
<1>2. ~(bench[q] < bench[p])
  BY InStep
<1> QED BY <1>1, <1>2

LEMMA TrialInvCovers ==
  ASSUME TrialInv
  PROVE  TimerCoversTheTrial
<1> SUFFICES ASSUME NEW p \in Im, pc[p] = "stop", NEW q \in Im
             PROVE  \/ bench[q] = bench[p] /\ k[q] = k[p] /\ j[q] = InnerReps(p)
                    \/ bench[q] = bench[p] /\ k[q] = k[p] + 1 /\ pc[q] = "begin"
                    \/ /\ k[p] = SyncOuter /\ bench[q] = bench[p] + 1
                       /\ pc[q] \in {"setup", "ready", "done"}
  BY DEF TimerCoversTheTrial
<1> DEFINE per == PerTrial(p)
<1>1. Place(p) /\ Place(q) /\ ~inside[p] /\ InnerReps(p) \in Nat \ {0} /\ per \in Nat /\ per >= 2
  BY Repetitions DEF TrialInv, PlaceInv, Place, InSyncAll, LoopTypes
<1>2. /\ k[p] \in Nat /\ k[q] \in Nat /\ bench[p] \in Nat /\ bench[q] \in Nat
      /\ k[p] <= SyncOuter /\ SyncOuter \in Nat /\ j[q] \in Nat
      /\ pc[q] \in Labels
  BY <1>1, CafSyncAssumption DEF TrialInv, LoopTypes, Place
<1>3. LeftInTrial(p) = per /\ LeftInCall(p) = 2 + (k[p] * per) + per /\ k[p] * per \in Nat
  <2>1. LeftInTrial(p) = per
    BY <1>1 DEF LeftInTrial, PerTrial, Place, InLoop
  <2>2. LeftInCall(p) = 2 + (k[p] * per) + LeftInTrial(p)
    BY DEF LeftInCall, InRest, InReference
  <2> HIDE DEF per
  <2> QED BY <1>1, <1>2, <2>1, <2>2
<1>4. bench[q] >= bench[p]
  <2>1. LeftInCall(p) > 0
    BY <1>1, <1>3
  <2> QED BY <2>1, CallReached
<1>5. CASE bench[q] = bench[p]
  <2>1. /\ pc[q] \notin InRest \cup InReference
        /\ \/ k[q] > k[p]
           \/ k[q] = k[p] /\ per <= LeftInTrial(q)
           \/ k[q] = k[p] /\ inside[q] /\ per <= LeftInTrial(q) + 1
    <3>1. pc[p] \notin InRest \cup InReference /\ LeftInTrial(p) > 0
      BY <1>1, <1>3 DEF InRest, InReference
    <3> QED BY <1>3, <1>5, <3>1, TrialReached
  <2>2. LeftInCall(q) <= LeftInCall(p)
    BY <1>1, <1>5, InStep
  <2>3. InnerReps(q) = InnerReps(p) /\ PerTrial(q) = per /\ Type(q) = Type(p)
    BY <1>5, SameNumbers
  <2>4. LeftInCall(q) = 2 + (k[q] * per) + LeftInTrial(q)
    BY <2>1, <2>3 DEF LeftInCall
  <2>5. LeftInTrial(q) \in 0 .. per
    BY <1>1, <2>3, LeftBounds DEF TrialInv
  <2>6. CASE k[q] > k[p]
    <3>1. k[q] = k[p] + 1 /\ LeftInTrial(q) = 0
      <4>1. (k[p] * per) + per <= k[q] * per /\ k[q] * per \in Nat
        <5> HIDE DEF per
        <5> QED BY <1>1, <1>2, <2>6, TrialsAdd
      <4>2. k[p] + 1 < k[q] => (k[p] + 1) * per + per <= k[q] * per
                              /\ (k[p] + 1) * per = (k[p] * per) + per
        <5> HIDE DEF per
        <5> QED BY <1>1, <1>2, TrialsAdd
      <4> HIDE DEF per
      <4> QED BY <1>1, <1>2, <1>3, <2>2, <2>4, <2>5, <2>6, <4>1, <4>2
    <3>2. pc[q] = "begin"
      BY <1>1, <1>2, <2>1, <2>3, <3>1
      DEF LeftInTrial, Place, InLoop, InRest, InReference, Labels
    <3> QED BY <1>5, <3>1, <3>2
  <2>7. CASE k[q] = k[p]
    <3>1. pc[q] \in {"begin", "start", "repeat", "all", "images", "unlock", "end", "stop", "report"}
      BY <1>2, <2>1 DEF InRest, InReference, Labels
    <3>2. per <= LeftInTrial(q) + 1 /\ (inside[q] \/ per <= LeftInTrial(q))
      BY <1>1, <1>2, <2>1, <2>5, <2>7
    <3>3. per = IF Type(q) = "all" THEN 2 + InnerReps(q) ELSE 2
      BY <2>3 DEF PerTrial
    <3> HIDE DEF per
    <3>4. pc[q] # "begin" /\ pc[q] # "all"
      BY <1>1, <1>2, <2>3, <3>2, <3>3, SMTT(30) DEF LeftInTrial, Place, InLoop
    <3>5. pc[q] \notin {"start", "repeat", "images", "unlock"}
      BY <1>1, <1>2, <2>3, <3>2, <3>3, SMTT(30) DEF LeftInTrial, Place, InLoop, InSyncAll
    <3>6. j[q] = InnerReps(q)
      BY <1>1, <3>1, <3>4, <3>5 DEF Place
    <3> QED BY <1>5, <2>3, <2>7, <3>6
  <2> QED BY <2>1, <2>6, <2>7
<1>6. CASE bench[q] > bench[p]
  <2>1. /\ bench[q] = bench[p] + 1 /\ LeftInCall(q) = 0
        /\ LeftInCall(p) = PerCall(p)
    BY <1>1, <1>2, <1>6, InStep
  <2>2. pc[q] \in {"setup", "ready", "done"}
    <3>1. pc[q] \in InRest
      <4>1. LeftInTrial(q) \in Nat /\ k[q] * PerTrial(q) \in Nat
        <5>1. PerTrial(q) \in Nat
          BY Repetitions DEF TrialInv, LoopTypes
        <5> QED BY <1>1, <1>2, <5>1, LeftBounds DEF TrialInv
      <4> QED BY <2>1, <4>1 DEF LeftInCall
    <3>2. pc[q] # "stopped"
      <4> SUFFICES ASSUME job.images = 1 PROVE FALSE
        BY <1>1 DEF Place
      <4>1. p = q
        BY DEF Im, Images
      <4> QED BY <4>1, <1>2, <1>6
    <3> QED BY <3>1, <3>2 DEF InRest
  <2>3. k[p] = SyncOuter
    <3>1. SyncOuter * per \in Nat /\ (SyncOuter + 1) * per = (SyncOuter * per) + per
          /\ (k[p] < SyncOuter => (k[p] * per) + per <= SyncOuter * per)
      <4> HIDE DEF per
      <4> QED BY <1>1, <1>2, TrialsAdd
    <3>2. LeftInCall(p) = 2 + ((SyncOuter + 1) * per)
      BY <2>1 DEF PerCall
    <3> HIDE DEF per
    <3> QED BY <1>1, <1>2, <1>3, <3>1, <3>2
  <2> QED BY <2>1, <2>2, <2>3
<1> QED BY <1>2, <1>4, <1>5, <1>6

(***************************************************************************)
(* For every build, number of images and choice of parameters: when an     *)
(* image stops its timer, the others have made their last delay of the     *)
(* trial and none has begun the next one.                                  *)
(***************************************************************************)
THEOREM TimerTheorem == Spec => []TimerCoversTheTrial
<1>1. TrialInv => TimerCoversTheTrial
  BY TrialInvCovers
<1> QED BY <1>1, TrialInvariance, PTL

-----------------------------------------------------------------------------
(***************************************************************************)
(* The data.  With one image the DASH port would name image -1 as the      *)
(* partner of image 0; it needs two.                                       *)
(***************************************************************************)
EnoughImages == \A jb \in Jobs : jb.port = "dash" => jb.images > 1

DataTypes ==
  /\ neighbours \in [Im -> SUBSET Im]
  /\ posted \in [Im -> [Im -> Nat]]
  /\ mutex \in Im \cup {NoLock}
  /\ freed \in Nat
  /\ released \in Nat
  /\ clock \in [Im -> Nat]
  /\ tstart \in [Im -> Nat]
  /\ time \in [Im -> [0 .. SyncOuter -> Nat]]

\* Time does not run backwards, not even for an image that leaves a sync all.
ClockInv ==
  \A p \in Im :
    /\ tstart[p] <= clock[p]
    /\ inside[p] /\ (\A q \in Im : arrivals[p] <= arrivals[q]) => clock[p] <= released

DataInv == DataTypes /\ ClockInv

\* A function on images to numbers is bounded, by induction on the images.
LEMMA Bounded ==
  ASSUME job \in Jobs, NEW f \in [Im -> Nat]
  PROVE  \E n \in Nat : \A q \in Im : f[q] <= n
<1> DEFINE Bad == {m \in Nat : ~ \E n \in Nat : \A q \in Im : q <= m => f[q] <= n}
<1>1. Im \subseteq Nat /\ \E m \in Nat : \A q \in Im : q <= m
  <2>1. job.images \in Nat
    BY CafSyncAssumption
  <2>2. \A q \in Im : q \in Nat /\ q <= job.images
    BY <2>1 DEF Im, Images
  <2> QED BY <2>1, <2>2
<1>2. Bad = {}
  <2> SUFFICES ASSUME Bad # {} PROVE FALSE
    OBVIOUS
  <2>1. PICK m \in Bad : \A n \in Bad : m <= n
    BY SmallestOf
  <2>2. PICK b \in Nat : \A q \in Im : q < m => f[q] <= b
    <3>1. CASE m = 0
      BY <3>1, <1>1
    <3>2. CASE m # 0
      <4>1. m - 1 \in Nat /\ m - 1 \notin Bad
        BY <2>1, <3>2
      <4>2. PICK n \in Nat : \A q \in Im : q <= m - 1 => f[q] <= n
        BY <4>1
      <4> QED BY <4>2, <1>1
    <3> QED BY <3>1, <3>2
  <2>3. CASE m \in Im
    <3>1. f[m] \in Nat /\ b + f[m] \in Nat
      BY <2>3
    <3> DEFINE n == b + f[m]
    <3>2. \A q \in Im : q <= m => f[q] <= n
      <4> SUFFICES ASSUME NEW q \in Im, q <= m PROVE f[q] <= n
        OBVIOUS
      <4>1. q \in Nat /\ f[q] \in Nat /\ (q < m => f[q] <= b)
        BY <1>1, <2>2
      <4>2. CASE q = m
        BY <3>1, <4>2
      <4>3. CASE q # m
        <5>1. q < m
          BY <2>1, <4>1, <4>3
        <5> QED BY <3>1, <4>1, <5>1
      <4> QED BY <4>2, <4>3
    <3> QED BY <2>1, <3>1, <3>2
  <2>4. CASE m \notin Im
    <3>1. \A q \in Im : q <= m => f[q] <= b
      <4> SUFFICES ASSUME NEW q \in Im, q <= m PROVE f[q] <= b
        OBVIOUS
      <4>1. q \in Nat /\ m \in Nat /\ q # m
        BY <1>1, <2>1, <2>4
      <4>2. q < m
        BY <4>1
      <4> QED BY <2>2, <4>2
    <3> QED BY <2>1, <3>1
  <2> QED BY <2>3, <2>4
<1> QED BY <1>1, <1>2

\* The latest clock of all images.
LEMMA LatestClock ==
  ASSUME job \in Jobs, NEW f \in [Im -> Nat], NEW p \in Im
  PROVE  /\ Max({f[q] : q \in Im}) \in Nat
         /\ \A q \in Im : f[q] <= Max({f[r] : r \in Im})
<1> DEFINE Upper == {n \in Nat : \A q \in Im : f[q] <= n}
<1>1. Upper # {}
  BY Bounded
<1>2. PICK m \in Upper : \A n \in Upper : m <= n
  BY <1>1, SmallestOf
<1>3. \E q \in Im : f[q] = m
  <2> SUFFICES ASSUME \A q \in Im : f[q] # m PROVE FALSE
    OBVIOUS
  <2>1. \A q \in Im : f[q] \in Nat /\ f[q] < m
    BY <1>2
  <2>2. m - 1 \in Upper
    BY <2>1, <1>2
  <2> QED BY <1>2, <2>2
<1>4. \E x \in {f[q] : q \in Im} : \A y \in {f[q] : q \in Im} : x >= y
  BY <1>2, <1>3
<1>5. /\ Max({f[q] : q \in Im}) \in {f[q] : q \in Im}
      /\ \A y \in {f[q] : q \in Im} : Max({f[q] : q \in Im}) >= y
  BY <1>4 DEF Max
<1> QED BY <1>5

\* The later of two clocks.
LEMMA LaterClock ==
  ASSUME NEW a \in Nat, NEW b \in Nat
  PROVE  Max({a, b}) \in Nat /\ a <= Max({a, b})
<1>1. \E x \in {a, b} : \A y \in {a, b} : x >= y
  OBVIOUS
<1>2. Max({a, b}) \in {a, b} /\ \A y \in {a, b} : Max({a, b}) >= y
  BY <1>1 DEF Max
<1> QED BY <1>2

\* getneighs names images that exist.
LEMMA ListsInRange ==
  ASSUME EnoughImages, job \in Jobs, NEW p \in Im, NEW perm
  PROVE  ListOf(p, perm) \subseteq Im
<1>1. job.images \in Nat \ {0} /\ job.port \in {"fortran", "dash"}
      /\ (job.port = "dash" => job.images > 1)
  BY CafSyncAssumption DEF Ports, EnoughImages
<1>2. GetNeighsRing(job.port, job.images, p, Current(p).numneigh, perm) \subseteq Im
  BY DEF GetNeighsRing, Im
<1>3. GetNeighsPair(job.port, job.images, p) \subseteq Im
  <2> DEFINE half == job.images \div 2
  <2>1. half \in Nat /\ 2 * half <= job.images /\ job.images <= (2 * half) + 1
    BY <1>1
  <2> HIDE DEF half
  <2>2. CASE job.port = "dash"
    BY <1>1, <2>1, <2>2 DEF GetNeighsPair, Im, Images, half
  <2>3. CASE job.port # "dash"
    BY <1>1, <2>1, <2>3 DEF GetNeighsPair, Im, Images, half
  <2> QED BY <2>2, <2>3
<1> QED BY <1>2, <1>3 DEF ListOf

LEMMA InitData ==
  ASSUME Init
  PROVE  DataInv
BY CafSyncAssumption DEF Init, DataInv, DataTypes, ClockInv

\* Steps that do not touch the clocks or what sync all does with them.
LEMMA UntimedStep ==
  ASSUME DataInv, LoopTypes, UNCHANGED <<job, arrivals, inside, released, clock, tstart>>,
         DataTypes'
  PROVE  DataInv'
<1>1. Im' = Im
  BY DEF Im
<1> QED BY <1>1 DEF DataInv, ClockInv

LEMMA SetupData ==
  ASSUME EnoughImages, DataInv, TrialInv, NEW p \in Im, Setup(p)
  PROVE  DataInv'
<1>1. /\ UNCHANGED <<job, arrivals, inside, released, clock, tstart, posted, mutex, freed, time>>
      /\ \E list : list \subseteq Im /\ neighbours' = [neighbours EXCEPT ![p] = list]
  <2>1. Im' = Im
    BY DEF Setup, Im
  <2>2. \A perm : ListOf(p, perm) \subseteq Im
    BY ListsInRange DEF TrialInv, LoopTypes
  <2> QED BY <2>2 DEF Setup, global, lock, timing
<1>2. DataTypes'
  <2>1. Im' = Im
    BY <1>1 DEF Im
  <2> QED BY <1>1, <2>1 DEF DataInv, DataTypes
<1> QED BY <1>1, <1>2, UntimedStep DEF TrialInv

LEMMA EnterData ==
  ASSUME DataInv, TrialInv, NEW p \in Im, EnterSyncAll(p)
  PROVE  DataInv'
<1> DEFINE latest == Max({clock[q] : q \in Im})
<1>1. latest \in Nat /\ \A q \in Im : clock[q] <= latest
  BY LatestClock DEF DataInv, DataTypes, TrialInv, LoopTypes
<1> HIDE DEF latest
<1>2. /\ UNCHANGED <<job, neighbours, posted, mutex, freed, clock, tstart, time>>
      /\ released' = IF \A q \in Im \ {p} : arrivals[q] > arrivals[p] THEN latest ELSE released
      /\ inside' = [inside EXCEPT ![p] = TRUE]
      /\ arrivals' = [arrivals EXCEPT ![p] = @ + 1]
      /\ Im' = Im
  BY DEF EnterSyncAll, test, lock, timing, latest, Im
<1>3. DataTypes'
  BY <1>1, <1>2 DEF DataInv, DataTypes
<1>4. ClockInv'
  <2> SUFFICES ASSUME NEW q \in Im
               PROVE  /\ tstart'[q] <= clock'[q]
                      /\ inside'[q] /\ (\A r \in Im : arrivals'[q] <= arrivals'[r])
                           => clock'[q] <= released'
    BY <1>2 DEF ClockInv
  <2>1. tstart'[q] <= clock'[q]
    BY <1>2 DEF DataInv, ClockInv
  <2>2. ASSUME inside'[q], \A r \in Im : arrivals'[q] <= arrivals'[r]
        PROVE  clock'[q] <= released'
    <3>1. arrivals \in [Im -> Nat] /\ arrivals'[p] = arrivals[p] + 1
          /\ \A r \in Im \ {p} : arrivals'[r] = arrivals[r]
      BY <1>2 DEF TrialInv, LoopTypes
    <3>2. CASE q = p
      <4>1. \A r \in Im \ {p} : arrivals[r] > arrivals[p]
        <5> TAKE r \in Im \ {p}
        <5>1. arrivals[p] + 1 <= arrivals[r]
          BY <2>2, <3>1, <3>2
        <5> QED BY <3>1, <5>1
      <4> QED BY <4>1, <1>1, <1>2
    <3>3. CASE q # p /\ \A r \in Im : arrivals[q] <= arrivals[r]
      <4>1. inside[q] /\ clock[q] <= released
        BY <1>2, <2>2, <3>3 DEF DataInv, ClockInv, TrialInv, LoopTypes
      <4> QED BY <4>1, <1>1, <1>2
    <3>4. CASE q # p /\ ~ \A r \in Im : arrivals[q] <= arrivals[r]
      <4>1. PICK r \in Im : ~(arrivals[q] <= arrivals[r])
        BY <3>4
      <4>2. r = p
        BY <2>2, <3>1, <3>4, <4>1
      <4>3. \A s \in Im \ {p} : arrivals[s] > arrivals[p]
        <5> TAKE s \in Im \ {p}
        <5>1. arrivals[q] <= arrivals[s] /\ arrivals[q] \in Nat /\ arrivals[s] \in Nat
              /\ arrivals[p] \in Nat
          BY <2>2, <3>1, <3>4
        <5> QED BY <4>1, <4>2, <5>1
      <4> QED BY <4>3, <1>1, <1>2
    <3> QED BY <3>2, <3>3, <3>4
  <2> QED BY <2>1, <2>2
<1> QED BY <1>3, <1>4 DEF DataInv

LEMMA LeaveData ==
  ASSUME DataInv, TrialInv, NEW p \in Im, LeaveSyncAll(p)
  PROVE  DataInv'
<1>1. /\ UNCHANGED <<job, arrivals, released, neighbours, posted, mutex, freed, tstart, time>>
      /\ inside[p] /\ \A q \in Im : arrivals[p] <= arrivals[q]
      /\ inside' = [inside EXCEPT ![p] = FALSE]
      /\ clock' = [clock EXCEPT ![p] = released]
      /\ Im' = Im
  BY DEF LeaveSyncAll, test, lock, timing, Im, TrialInv, LoopTypes
<1>2. DataTypes'
  BY <1>1 DEF DataInv, DataTypes
<1>3. tstart[p] <= released
  <2>1. tstart[p] <= clock[p] /\ clock[p] <= released
    BY <1>1 DEF DataInv, ClockInv
  <2>2. tstart[p] \in Nat /\ clock[p] \in Nat /\ released \in Nat
    BY DEF DataInv, DataTypes
  <2> QED BY <2>1, <2>2
<1>4. ClockInv'
  BY <1>1, <1>3 DEF DataInv, DataTypes, ClockInv, TrialInv, LoopTypes
<1> QED BY <1>2, <1>4 DEF DataInv

\* An image that is not in a sync all reads its clock or makes delays.
LEMMA TimedStep ==
  ASSUME DataInv, LoopTypes, NEW p \in Im, ~inside[p],
         UNCHANGED <<job, arrivals, inside, released>>,
         NEW later \in Nat, clock[p] <= later, clock' = [clock EXCEPT ![p] = later],
         tstart' = tstart,
         DataTypes'
  PROVE  DataInv'
<1>1. Im' = Im
  BY DEF Im
<1>2. tstart[p] <= later
  <2>1. tstart[p] <= clock[p] /\ tstart[p] \in Nat /\ clock[p] \in Nat
    BY DEF DataInv, DataTypes, ClockInv
  <2> QED BY <2>1
<1> QED BY <1>1, <1>2 DEF DataInv, DataTypes, ClockInv

LEMMA DelayData ==
  ASSUME DataInv, TrialInv, NEW p \in Im,
         \/ Reference(p)
         \/ StartTimer(p)
         \/ DelayAndSyncAll(p)
         \/ DelayAndPost(p)
         \/ SyncImages(p)
         \/ LockAndDelay(p)
         \/ Unlock(p)
  PROVE  DataInv'
<1> USE DEF global, test, lock, timing
<1>1. /\ UNCHANGED <<job, arrivals, inside, released, neighbours>> /\ Im' = Im
      /\ ~inside[p] /\ LoopTypes
      /\ clock[p] \in Nat /\ freed \in Nat
  <2>1. UNCHANGED <<job, arrivals, inside, released, neighbours>>
    BY DEF Reference, StartTimer, DelayAndSyncAll, DelayAndPost, SyncImages, LockAndDelay, Unlock
  <2>2. pc[p] \in {"reference", "start", "repeat", "images", "unlock"}
    BY DEF Reference, StartTimer, DelayAndSyncAll, DelayAndPost, SyncImages, LockAndDelay, Unlock
  <2> QED BY <2>1, <2>2 DEF Im, TrialInv, PlaceInv, Place, InSyncAll, DataInv, DataTypes
<1>2. CASE Reference(p)
  <2>1. ReferenceReps(p) \in Nat /\ (SyncOuter + 1) * ReferenceReps(p) \in Nat
    <3>1. ReferenceReps(p) \in Nat
      <4>1. InnerReps(p) \in Nat /\ job.images \in Nat /\ SyncInner \in Nat
        BY Repetitions, CafSyncAssumption DEF TrialInv, LoopTypes
      <4> QED BY <4>1 DEF ReferenceReps
    <3>2. SyncOuter + 1 \in Nat
      BY CafSyncAssumption
    <3> QED BY <3>1, <3>2
  <2> DEFINE later == clock[p] + ((SyncOuter + 1) * ReferenceReps(p))
  <2>2. later \in Nat /\ clock[p] <= later
    BY <1>1, <2>1
  <2>3. /\ clock' = [clock EXCEPT ![p] = later] /\ UNCHANGED <<posted, mutex, freed, tstart>>
        /\ time' = [time EXCEPT ![p] = [i \in 0 .. SyncOuter |-> ReferenceReps(p)]]
    BY <1>2 DEF Reference
  <2> HIDE DEF later
  <2>4. DataTypes'
    BY <1>1, <2>1, <2>2, <2>3 DEF DataInv, DataTypes
  <2> QED BY <1>1, <2>2, <2>3, <2>4, TimedStep
<1>3. CASE StartTimer(p)
  <2>1. UNCHANGED <<posted, mutex, freed, clock, time>> /\ tstart' = [tstart EXCEPT ![p] = clock[p]]
    BY <1>3 DEF StartTimer
  <2>2. DataTypes'
    BY <1>1, <2>1 DEF DataInv, DataTypes
  <2>3. ClockInv'
    BY <1>1, <2>1 DEF DataInv, DataTypes, ClockInv
  <2> QED BY <2>2, <2>3 DEF DataInv
<1>4. CASE DelayAndSyncAll(p) \/ DelayAndPost(p)
  <2>1. /\ clock' = [clock EXCEPT ![p] = clock[p] + 1] /\ UNCHANGED <<mutex, freed, tstart, time>>
        /\ \/ posted' = posted
           \/ posted' = [posted EXCEPT ![p] =
                [q \in Im |-> posted[p][q] + (IF q \in neighbours[p] THEN 1 ELSE 0)]]
    BY <1>4 DEF DelayAndSyncAll, DelayAndPost, Delay
  <2>2. DataTypes'
    <3>1. posted' \in [Im -> [Im -> Nat]]
      <4>1. \A q \in Im : posted[p][q] + (IF q \in neighbours[p] THEN 1 ELSE 0) \in Nat
        BY DEF DataInv, DataTypes
      <4>2. [q \in Im |-> posted[p][q] + (IF q \in neighbours[p] THEN 1 ELSE 0)] \in [Im -> Nat]
        BY <4>1
      <4> QED BY <2>1, <4>2 DEF DataInv, DataTypes
    <3>2. clock' \in [Im -> Nat]
      BY <1>1, <2>1 DEF DataInv, DataTypes
    <3> QED BY <1>1, <2>1, <3>1, <3>2 DEF DataInv, DataTypes
  <2>3. clock[p] + 1 \in Nat /\ clock[p] <= clock[p] + 1
    BY <1>1
  <2> QED BY <1>1, <2>1, <2>2, <2>3, TimedStep
<1>5. CASE SyncImages(p)
  <2>1. UNCHANGED <<posted, mutex, freed, clock, tstart, time>>
    BY <1>5 DEF SyncImages
  <2>2. DataTypes'
    BY <1>1, <2>1 DEF DataInv, DataTypes
  <2> QED BY <1>1, <2>1, <2>2, UntimedStep
<1>6. CASE LockAndDelay(p)
  <2> DEFINE later == Max({clock[p], freed}) + 1
  <2>1. later \in Nat /\ clock[p] <= later
    <3>1. Max({clock[p], freed}) \in Nat /\ clock[p] <= Max({clock[p], freed})
      BY <1>1, LaterClock
    <3> QED BY <1>1, <3>1
  <2>2. clock' = [clock EXCEPT ![p] = later] /\ mutex' = p
        /\ UNCHANGED <<posted, freed, tstart, time>>
    BY <1>6 DEF LockAndDelay
  <2> HIDE DEF later
  <2>3. DataTypes'
    BY <1>1, <2>1, <2>2 DEF DataInv, DataTypes
  <2> QED BY <1>1, <2>1, <2>2, <2>3, TimedStep
<1>7. CASE Unlock(p)
  <2>1. UNCHANGED <<posted, clock, tstart, time>> /\ mutex' = NoLock /\ freed' = clock[p]
    BY <1>7 DEF Unlock
  <2>2. DataTypes'
    BY <1>1, <2>1 DEF DataInv, DataTypes, NoLock
  <2> QED BY <1>1, <2>1, <2>2, UntimedStep
<1> QED BY <1>2, <1>3, <1>4, <1>5, <1>6, <1>7

LEMMA StopTimerData ==
  ASSUME DataInv, TrialInv, NEW p \in Im, StopTimer(p)
  PROVE  DataInv'
<1>1. /\ UNCHANGED <<job, arrivals, inside, released, neighbours, posted, mutex, freed, clock, tstart>>
      /\ time' = [time EXCEPT ![p][k[p]] = clock[p] - tstart[p]]
      /\ Im' = Im
  BY DEF StopTimer, test, global, lock, Im
<1>2. clock[p] - tstart[p] \in Nat
  <2>1. tstart[p] <= clock[p] /\ tstart[p] \in Nat /\ clock[p] \in Nat
    BY DEF DataInv, DataTypes, ClockInv
  <2> QED BY <2>1
<1>3. DataTypes'
  BY <1>1, <1>2 DEF DataInv, DataTypes
<1> QED BY <1>1, <1>3, UntimedStep DEF TrialInv

LEMMA NextData ==
  ASSUME EnoughImages, DataInv, TrialInv, [Next]_vars
  PROVE  DataInv'
<1>1. ASSUME NEW p \in Im, Refuse(p) \/ Report(p) PROVE DataInv'
  <2>1. /\ UNCHANGED <<job, arrivals, inside, released, clock, tstart>>
        /\ UNCHANGED <<neighbours, posted, mutex, freed, time>>
    BY <1>1 DEF Refuse, Report, global, lock, timing
  <2>2. DataTypes'
    BY <2>1 DEF DataInv, DataTypes, Im
  <2> QED BY <2>1, <2>2, UntimedStep DEF TrialInv
<1>2. ASSUME NEW p \in Im, Step(p) PROVE DataInv'
  BY <1>1, <1>2, SetupData, EnterData, LeaveData, DelayData, StopTimerData DEF Step
<1>3. CASE UNCHANGED vars
  <2>1. DataTypes'
    BY <1>3 DEF vars, test, global, lock, timing, DataInv, DataTypes, Im
  <2> QED BY <1>3, <2>1, UntimedStep DEF vars, test, global, timing, TrialInv
<1> QED BY <1>2, <1>3 DEF Next, Exit

LEMMA TypesFollow ==
  ASSUME TrialInv, DataInv
  PROVE  TypeOK
<1>1. job \in Jobs /\ pc \in [Im -> Labels]
  BY DEF TrialInv, LoopTypes
<1>2. ASSUME NEW p \in Im
      PROVE  /\ ~Over(p) => /\ bench[p] \in DOMAIN Driver(job)
                            /\ j[p] \in 0 .. InnerReps(p)
             /\ k[p] \in 0 .. SyncOuter
             /\ neighbours[p] \subseteq Im
             /\ inside[p] => pc[p] \in {"ready", "measured", "begin", "all", "end"}
             /\ arrivals[p] \in Nat
             /\ clock[p] \in Nat
             /\ tstart[p] \in 0 .. clock[p]
             /\ time[p] \in [0 .. SyncOuter -> Nat]
  <2>1. Place(p)
    BY DEF TrialInv, PlaceInv
  <2>2. ~Over(p) => bench[p] \in DOMAIN Driver(job)
    BY <1>1, <2>1, DriverIsSeq DEF Place, Over
  <2>3. k[p] \in 0 .. SyncOuter /\ j[p] \in 0 .. InnerReps(p) /\ arrivals[p] \in Nat
    <3>1. k[p] \in Nat /\ j[p] \in Nat /\ k[p] <= SyncOuter /\ j[p] <= InnerReps(p)
          /\ SyncOuter \in Nat /\ InnerReps(p) \in Nat /\ arrivals[p] \in Nat
      BY <1>1, <2>1, Repetitions, CafSyncAssumption DEF TrialInv, LoopTypes, Place, InRest
    <3> QED BY <3>1
  <2>4. /\ neighbours[p] \subseteq Im /\ clock[p] \in Nat /\ tstart[p] \in 0 .. clock[p]
        /\ time[p] \in [0 .. SyncOuter -> Nat]
    BY DEF DataInv, DataTypes, ClockInv
  <2> QED BY <2>1, <2>2, <2>3, <2>4 DEF Place, InSyncAll
<1>3. posted \in [Im -> [Im -> Nat]] /\ mutex \in Im \cup {NoLock}
  BY DEF DataInv, DataTypes
<1> QED BY <1>1, <1>2, <1>3 DEF TypeOK

(***************************************************************************)
(* The state is well formed: above all, lists name images that exist, the  *)
(* loops and the driver's calls stay in range, and no time is negative.    *)
(***************************************************************************)
THEOREM TypeTheorem ==
  ASSUME EnoughImages
  PROVE  Spec => []TypeOK
<1>1. Init => TrialInv /\ DataInv
  BY InitTrial, InitData
<1>2. TrialInv /\ DataInv /\ [Next]_vars => (TrialInv /\ DataInv)'
  BY NextTrial, NextData
<1>3. TrialInv /\ DataInv => TypeOK
  BY TypesFollow
<1> QED BY <1>1, <1>2, <1>3, PTL DEF Spec

-----------------------------------------------------------------------------
(***************************************************************************)
(* Sync images, in the suites whose lists match.  How often p has named q  *)
(* in this call is as often as q has named p in the same iteration.        *)
(***************************************************************************)
Posts(p, q) ==
  IF Listed(p) /\ q \in neighbours[p] THEN (k[p] * InnerReps(p)) + j[p] ELSE 0

PostInv ==
  \A p, q \in Im :
    /\ bench[p] = bench[q] => posted[p][q] - Posts(p, q) = posted[q][p] - Posts(q, p)
    /\ bench[p] < bench[q] => posted[p][q] = posted[q][p]

\* Whoever goes on has been named as often as it has named.
PassInv ==
  \A p, q \in Im :
    pc[p] \in {"repeat", "end", "stop"} /\ Type(p) \in PointToPoint /\ q \in neighbours[p]
      => posted[p][q] <= posted[q][p]

\* The other tests have no list.
UnlistedInv ==
  \A p \in Im :
    pc[p] \notin {"setup", "done", "stopped"} /\ Type(p) \notin PointToPoint
      => neighbours[p] = {}

PairInv == PostInv /\ PassInv /\ UnlistedInv

MatchInv == NInv /\ TrialInv /\ DataInv /\ PairInv

-----------------------------------------------------------------------------
LEMMA PostsType ==
  ASSUME TrialInv, NEW p \in Im, NEW q
  PROVE  Posts(p, q) \in Nat
<1>1. k[p] \in Nat /\ j[p] \in Nat /\ InnerReps(p) \in Nat
  BY Repetitions DEF TrialInv, LoopTypes
<1> DEFINE reps == InnerReps(p)
<1>2. k[p] * reps \in Nat
  <2> HIDE DEF reps
  <2> QED BY <1>1 DEF reps
<1> QED BY <1>1, <1>2 DEF Posts

\* An image with nothing left of a call is at its end.
LEMMA AtEnd ==
  ASSUME TrialInv, NEW p \in Im,
         \/ LeftInCall(p) = PerCall(p)
         \/ inside[p] /\ LeftInCall(p) + 1 = PerCall(p)
  PROVE  k[p] = SyncOuter /\ j[p] = InnerReps(p) /\ pc[p] \in {"end", "stop", "report"}
<1> DEFINE per == PerTrial(p)
<1>1. /\ Place(p) /\ InnerReps(p) \in Nat \ {0} /\ per \in Nat /\ per >= 2
      /\ k[p] \in Nat /\ j[p] \in Nat /\ k[p] <= SyncOuter /\ SyncOuter \in Nat
      /\ pc[p] \in Labels
  BY Repetitions, CafSyncAssumption DEF TrialInv, PlaceInv, Place, LoopTypes
<1>2. /\ SyncOuter * per \in Nat /\ k[p] * per \in Nat
      /\ (SyncOuter + 1) * per = (SyncOuter * per) + per
      /\ k[p] < SyncOuter => (k[p] * per) + per <= SyncOuter * per
  <2> HIDE DEF per
  <2> QED BY <1>1, TrialsAdd
<1>3. PerCall(p) = 2 + (SyncOuter * per) + per
  <2>1. PerCall(p) = 2 + ((SyncOuter + 1) * per)
    BY DEF PerCall
  <2> HIDE DEF per
  <2> QED BY <1>1, <1>2, <2>1
<1>4. LeftInTrial(p) \in 0 .. per /\ (inside[p] => LeftInTrial(p) < per)
  BY <1>1, LeftBounds DEF TrialInv
<1>5. pc[p] \notin InRest \cup InReference
  <2> HIDE DEF per
  <2> QED BY <1>1, <1>2, <1>3 DEF LeftInCall
<1>6. LeftInCall(p) = 2 + (k[p] * per) + LeftInTrial(p)
  BY <1>5 DEF LeftInCall
<1>7. /\ k[p] = SyncOuter
      /\ per <= LeftInTrial(p) + 1 /\ (inside[p] \/ per <= LeftInTrial(p))
  <2> HIDE DEF per
  <2>1. ~(k[p] < SyncOuter)
    BY <1>1, <1>2, <1>3, <1>4, <1>6
  <2>2. k[p] = SyncOuter
    BY <1>1, <2>1
  <2> QED BY <1>1, <1>2, <1>3, <1>4, <1>6, <2>2
<1>8. pc[p] \in {"begin", "start", "repeat", "all", "images", "unlock", "end", "stop", "report"}
  BY <1>1, <1>5 DEF InRest, InReference, Labels
<1>9. per = IF Type(p) = "all" THEN 2 + InnerReps(p) ELSE 2
  BY DEF PerTrial
<1> HIDE DEF per
<1>10. pc[p] # "begin" /\ pc[p] # "all"
  BY <1>1, <1>7, <1>9 DEF LeftInTrial, Place, InLoop
<1>11. pc[p] \notin {"start", "repeat", "images", "unlock"}
  BY <1>1, <1>7, <1>9 DEF LeftInTrial, Place, InLoop, InSyncAll
<1> QED BY <1>1, <1>7, <1>8, <1>10, <1>11 DEF Place

\* Inside a trial, nobody is in another call.
LEMMA SameCallInTrial ==
  ASSUME TrialInv, NEW p \in Im, pc[p] \in {"start", "repeat", "images", "unlock"},
         NEW q \in Im
  PROVE  bench[q] = bench[p]
<1>1. bench[p] \in Nat /\ bench[q] \in Nat
  BY DEF TrialInv, LoopTypes
<1>2. LeftInCall(p) > 0
  <2>1. Place(p) /\ LeftInTrial(p) \in Nat /\ k[p] \in Nat /\ PerTrial(p) \in Nat
    BY LeftBounds, Repetitions DEF TrialInv, PlaceInv, LoopTypes
  <2> DEFINE done == k[p] * PerTrial(p)
  <2>2. done \in Nat
    BY <2>1
  <2>3. LeftInCall(p) = 2 + done + LeftInTrial(p)
    BY DEF LeftInCall, InRest, InReference
  <2> HIDE DEF done
  <2> QED BY <2>1, <2>2, <2>3
<1>3. ~(bench[q] < bench[p])
  BY <1>1, <1>2, CallReached
<1>4. ~(bench[p] < bench[q])
  <2> SUFFICES ASSUME bench[p] < bench[q] PROVE FALSE
    OBVIOUS
  <2>1. \/ LeftInCall(p) = PerCall(p)
        \/ inside[p] /\ LeftInCall(p) + 1 = PerCall(p)
    BY InStep
  <2> QED BY <2>1, AtEnd
<1> QED BY <1>1, <1>3, <1>4

\* What image p has named of the others and they of it, in the same trial.
LEMMA PostsCompare ==
  ASSUME NeighboursMatch, TrialInv, NEW p \in Im, NEW q \in Im, bench[q] = bench[p],
         Type(p) \in PointToPoint, q \in neighbours[p],
         pc[p] \in {"start", "repeat", "images", "end", "stop"}
  PROVE  /\ Listed(p) /\ Listed(q) /\ p \in neighbours[q]
         /\ k[q] >= k[p]
         /\ Posts(p, q) = (k[p] * InnerReps(p)) + j[p]
         /\ Posts(q, p) = (k[q] * InnerReps(p)) + j[q]
<1>1. Type(q) = Type(p) /\ InnerReps(q) = InnerReps(p)
  BY SameNumbers
<1>2. LeftInTrial(p) > 0 /\ pc[p] \notin InRest \cup InReference
  <2>1. Place(p) /\ j[p] \in Nat /\ InnerReps(p) \in Nat
    BY Repetitions DEF TrialInv, PlaceInv, LoopTypes
  <2> QED BY <2>1 DEF LeftInTrial, InLoop, InRest, InReference, Place
<1>3. /\ pc[q] \notin InRest \cup InReference
      /\ k[q] > k[p] \/ k[q] = k[p]
  BY <1>2, TrialReached
<1>4. Listed(p) /\ Listed(q)
  BY <1>1, <1>2, <1>3 DEF Listed, Over, InRest
<1>5. p \in neighbours[q]
  BY <1>4 DEF NeighboursMatch
<1>6. k[q] >= k[p]
  BY <1>3 DEF TrialInv, LoopTypes
<1> QED BY <1>1, <1>4, <1>5, <1>6 DEF Posts

-----------------------------------------------------------------------------
\* The lists and the names called out by the other images stay as they are.
OthersPosts(p) ==
  \A r \in Im \ {p} : \A q \in Im : Posts(r, q)' = Posts(r, q)

LEMMA OthersPost ==
  ASSUME TrialInv, DataInv, NEW p \in Im, Step(p)
  PROVE  /\ \A r \in Im \ {p} : neighbours'[r] = neighbours[r] /\ posted'[r] = posted[r]
         /\ OthersPosts(p)
<1>1. \A r \in Im \ {p} : neighbours'[r] = neighbours[r]
  <2>1. neighbours' = neighbours \/ \E list : neighbours' = [neighbours EXCEPT ![p] = list]
    BY DEF Step, Refuse, Setup, EnterSyncAll, LeaveSyncAll, Reference, StartTimer,
           DelayAndSyncAll, DelayAndPost, SyncImages, LockAndDelay, Unlock, StopTimer, Report
  <2> QED BY <2>1 DEF DataInv, DataTypes
<1>2. \A r \in Im \ {p} : posted'[r] = posted[r]
  <2>1. posted' = posted \/ \E names : posted' = [posted EXCEPT ![p] = names]
    BY DEF Step, Refuse, Setup, EnterSyncAll, LeaveSyncAll, Reference, StartTimer,
           DelayAndSyncAll, DelayAndPost, SyncImages, LockAndDelay, Unlock, StopTimer, Report
  <2> QED BY <2>1 DEF DataInv, DataTypes
<1>3. Effect(p)
  BY StepEffect DEF TrialInv
<1>4. ASSUME NEW r \in Im \ {p}, NEW q \in Im PROVE Posts(r, q)' = Posts(r, q)
  <2>1. job' = job /\ pc'[r] = pc[r] /\ bench'[r] = bench[r] /\ k'[r] = k[r] /\ j'[r] = j[r]
    BY <1>3 DEF Effect, Elsewhere
  <2>2. Type(r)' = Type(r)
    BY <2>1 DEF Type, Current
  <2>3. InnerReps(r)' = InnerReps(r)
    BY <2>1, <2>2 DEF InnerReps
  <2>4. Listed(r)' <=> Listed(r)
    BY <2>1, <2>2 DEF Listed, Over
  <2> QED BY <1>1, <2>1, <2>3, <2>4 DEF Posts
<1> QED BY <1>1, <1>2, <1>4 DEF OthersPosts

\* Most steps leave what image p has called out in this call.
Keeps(p) ==
  /\ posted' = posted /\ bench' = bench
  /\ \A q \in Im : Posts(p, q)' = Posts(p, q)

LEMMA QuietPosts ==
  ASSUME NEW p, UNCHANGED <<job, bench, neighbours, posted>>,
         Listed(p) => k'[p] = k[p] /\ j'[p] = j[p],
         pc[p] \notin {"setup", "done", "stopped"},
         pc'[p] \notin {"setup", "done", "stopped"}
  PROVE  Keeps(p)
<1>1. Im' = Im /\ Type(p)' = Type(p) /\ InnerReps(p)' = InnerReps(p)
  BY SameCall
<1>2. Listed(p)' <=> Listed(p)
  BY <1>1 DEF Listed, Over
<1>3. \A q \in Im : Posts(p, q)' = Posts(p, q)
  BY <1>1, <1>2 DEF Posts
<1> QED BY <1>3 DEF Keeps

LEMMA KeptByRefuseAndSetup ==
  ASSUME TrialInv, DataInv, NEW p \in Im, Refuse(p) \/ Setup(p)
  PROVE  Keeps(p)
<1>1. ~Listed(p) /\ pc[p] = "setup" /\ Place(p)
  BY DEF Refuse, Setup, Listed, TrialInv, PlaceInv
<1>2. UNCHANGED <<job, bench, posted>> /\ (Listed(p)' => k'[p] = 0 /\ j'[p] = 0)
  <2>1. CASE Refuse(p)
    <3>1. job.port = "fortran"
      <4>1. bench[p] \in 1 .. Len(Driver(job))
        BY <1>1, DriverIsSeq DEF Place, TrialInv, LoopTypes
      <4> QED BY <2>1, <4>1, Refused DEF Refuse, TrialInv, LoopTypes
    <3>2. UNCHANGED <<job, bench, posted>> /\ pc' = [pc EXCEPT ![p] = "stopped"]
      BY <2>1, <3>1 DEF Refuse, Goto
    <3> QED BY <3>2 DEF Listed, Over, TrialInv, LoopTypes
  <2>2. CASE Setup(p)
    BY <1>1, <2>2 DEF Setup, loops, Place, InRest
  <2> QED BY <2>1, <2>2
<1>3. InnerReps(p)' = InnerReps(p) /\ InnerReps(p) \in Nat
  BY <1>2, SameCall, Repetitions DEF TrialInv, LoopTypes
<1>4. \A q \in Im : Posts(p, q)' = 0 /\ Posts(p, q) = 0
  BY <1>1, <1>2, <1>3 DEF Posts
<1> QED BY <1>2, <1>4 DEF Keeps

LEMMA KeptByStopTimer ==
  ASSUME TrialInv, DataInv, NEW p \in Im, StopTimer(p)
  PROVE  Keeps(p)
<1>1. /\ UNCHANGED <<job, bench, neighbours, posted>> /\ pc[p] = "stop"
      /\ Place(p) /\ j[p] = InnerReps(p)
  BY DEF StopTimer, test, TrialInv, PlaceInv, Place
<1>2. CASE k[p] < SyncOuter
  <2>1. k'[p] = k[p] + 1 /\ j'[p] = 0 /\ pc'[p] = "begin"
    BY <1>2 DEF StopTimer, Goto, TrialInv, LoopTypes
  <2>2. Type(p)' = Type(p) /\ InnerReps(p)' = InnerReps(p)
    BY <1>1, SameCall
  <2>3. Listed(p)' <=> Listed(p)
    BY <1>1, <2>1, <2>2 DEF Listed, Over
  <2> DEFINE reps == InnerReps(p)
  <2>4. (k[p] + 1) * reps = (k[p] * reps) + reps /\ (k[p] + 1) * reps \in Nat
    <3>1. k[p] \in Nat /\ reps \in Nat
      BY Repetitions DEF TrialInv, LoopTypes
    <3> HIDE DEF reps
    <3> QED BY <3>1
  <2>5. \A q \in Im : Posts(p, q)' = Posts(p, q)
    <3> TAKE q \in Im
    <3>1. Posts(p, q)' = IF Listed(p) /\ q \in neighbours[p] THEN (k'[p] * InnerReps(p)') + j'[p] ELSE 0
      BY <1>1, <2>3 DEF Posts
    <3>2. (k'[p] * InnerReps(p)') + j'[p] = (k[p] * reps) + reps
      BY <2>1, <2>2, <2>4
    <3> QED BY <1>1, <3>1, <3>2 DEF Posts
  <2> QED BY <1>1, <2>5 DEF Keeps
<1>3. CASE ~(k[p] < SyncOuter)
  <2>1. UNCHANGED <<k, j>> /\ pc'[p] = "report"
    BY <1>3 DEF StopTimer, Goto, loops, TrialInv, LoopTypes
  <2> QED BY <1>1, <2>1, QuietPosts
<1> QED BY <1>2, <1>3

LEMMA KeptByOthers ==
  ASSUME TrialInv, DataInv, NEW p \in Im,
         \/ EnterSyncAll(p)
         \/ LeaveSyncAll(p)
         \/ Reference(p)
         \/ StartTimer(p)
         \/ DelayAndSyncAll(p)
         \/ SyncImages(p)
         \/ LockAndDelay(p)
         \/ Unlock(p)
  PROVE  Keeps(p)
<1> USE DEF test, loops
<1>1. UNCHANGED <<job, bench, neighbours, posted>>
  BY DEF EnterSyncAll, LeaveSyncAll, Reference, StartTimer, DelayAndSyncAll, SyncImages,
         LockAndDelay, Unlock
<1>2. Listed(p) => k'[p] = k[p] /\ j'[p] = j[p]
  BY DEF EnterSyncAll, LeaveSyncAll, Reference, StartTimer, DelayAndSyncAll, SyncImages,
         LockAndDelay, Unlock, Listed, PointToPoint, TrialInv, PlaceInv, Place, Serialised
<1>3. pc[p] \in InSyncAll \cup {"reference", "start", "repeat", "images", "unlock"}
  BY DEF EnterSyncAll, LeaveSyncAll, Reference, StartTimer, DelayAndSyncAll, SyncImages,
         LockAndDelay, Unlock, TrialInv, PlaceInv, Place, InSyncAll
<1>4. pc'[p] \notin {"setup", "done", "stopped"}
  <2>1. CASE EnterSyncAll(p)
    BY <1>3, <2>1 DEF EnterSyncAll, InSyncAll
  <2>2. CASE LeaveSyncAll(p)
    <3>1. AfterSyncAll(p) \notin {"setup", "done", "stopped"}
      <4>1. pc[p] \in InSyncAll
        BY <2>2 DEF LeaveSyncAll, TrialInv, PlaceInv, Place
      <4> QED BY <4>1 DEF AfterSyncAll, AfterRepeat, InSyncAll
    <3>2. pc'[p] = AfterSyncAll(p)
      BY <2>2 DEF LeaveSyncAll, Goto, TrialInv, LoopTypes
    <3> QED BY <3>1, <3>2
  <2>3. CASE ~EnterSyncAll(p) /\ ~LeaveSyncAll(p)
    BY <2>3 DEF Reference, StartTimer, DelayAndSyncAll, SyncImages, LockAndDelay, Unlock,
                AfterRepeat, Goto, TrialInv, LoopTypes
  <2> QED BY <2>1, <2>2, <2>3
<1> QED BY <1>1, <1>2, <1>3, <1>4, QuietPosts DEF InSyncAll

LEMMA KeptPosts ==
  ASSUME TrialInv, DataInv, PostInv, NEW p \in Im, Step(p), Keeps(p)
  PROVE  PostInv'
<1>1. Im' = Im
  BY StepEffect DEF TrialInv, Effect, Im
<1>2. \A r, q \in Im : Posts(r, q)' = Posts(r, q)
  BY OthersPost DEF OthersPosts, Keeps
<1> QED BY <1>1, <1>2 DEF PostInv, Keeps

\* Image p names its neighbours and counts the iteration; all are in its call.
LEMMA DelayPosts ==
  ASSUME TrialInv, DataInv, PostInv, NEW p \in Im, DelayAndPost(p)
  PROVE  PostInv'
<1>1. /\ UNCHANGED <<job, bench, neighbours, k>> /\ Im' = Im
      /\ pc[p] = "repeat" /\ Type(p) \in PointToPoint /\ Place(p)
      /\ pc'[p] = "images" /\ j'[p] = j[p] + 1 /\ j[p] \in Nat
      /\ posted' = [posted EXCEPT ![p] =
           [q \in Im |-> posted[p][q] + (IF q \in neighbours[p] THEN 1 ELSE 0)]]
  BY DEF DelayAndPost, test, Goto, Repeat, Im, TrialInv, PlaceInv, LoopTypes
<1>2. \A q \in Im : posted'[p][q] = posted[p][q] + (IF q \in neighbours[p] THEN 1 ELSE 0)
  BY <1>1 DEF DataInv, DataTypes
<1>3. \A r \in Im \ {p} : posted'[r] = posted[r]
  BY <1>1 DEF DataInv, DataTypes
<1>4. \A r \in Im \ {p} : \A q \in Im : Posts(r, q)' = Posts(r, q)
  <2>1. Step(p)
    BY DEF Step
  <2> QED BY <2>1, OthersPost DEF OthersPosts
<1>5. Listed(p) /\ Listed(p)'
  <2>1. Type(p)' = Type(p)
    BY <1>1, SameCall
  <2> QED BY <1>1, <2>1 DEF Listed, Over
<1>6. \A q \in Im : Posts(p, q)' = Posts(p, q) + (IF q \in neighbours[p] THEN 1 ELSE 0)
  <2>1. InnerReps(p)' = InnerReps(p) /\ InnerReps(p) \in Nat /\ k[p] \in Nat
    BY <1>1, SameCall, Repetitions DEF TrialInv, LoopTypes
  <2> DEFINE before == k[p] * InnerReps(p)
  <2>2. before \in Nat /\ k'[p] * InnerReps(p)' = before
    BY <1>1, <2>1
  <2>3. \A q \in Im : Posts(p, q) = IF q \in neighbours[p] THEN before + j[p] ELSE 0
    BY <1>5 DEF Posts
  <2>4. \A q \in Im : Posts(p, q)' = IF q \in neighbours[p] THEN before + (j[p] + 1) ELSE 0
    BY <1>1, <1>5, <2>2 DEF Posts
  <2> HIDE DEF before
  <2> QED BY <1>1, <2>2, <2>3, <2>4
<1>7. \A q \in Im : bench[q] = bench[p]
  BY <1>1, SameCallInTrial
<1>8. \A q, r \in Im : Posts(q, r) \in Nat /\ posted[q][r] \in Nat /\ bench[q] \in Nat
  BY PostsType DEF DataInv, DataTypes, TrialInv, LoopTypes
<1>9. ASSUME NEW q \in Im, NEW r \in Im
      PROVE  /\ bench'[q] = bench'[r] =>
                  posted'[q][r] - Posts(q, r)' = posted'[r][q] - Posts(r, q)'
             /\ bench'[q] < bench'[r] => posted'[q][r] = posted'[r][q]
  <2>1. bench'[q] = bench'[r] /\ ~(bench'[q] < bench'[r])
    BY <1>1, <1>7, <1>8
  <2>2. posted[q][r] - Posts(q, r) = posted[r][q] - Posts(r, q)
    BY <1>7 DEF PostInv
  <2>3. CASE q = r
    BY <2>1, <2>3
  <2>4. CASE q = p /\ r # p
    BY <2>1, <2>2, <2>4, <1>2, <1>3, <1>4, <1>6, <1>8
  <2>5. CASE q # p /\ r = p
    BY <2>1, <2>2, <2>5, <1>2, <1>3, <1>4, <1>6, <1>8
  <2>6. CASE q # p /\ r # p
    BY <2>1, <2>2, <2>6, <1>3, <1>4, <1>8
  <2> QED BY <2>3, <2>4, <2>5, <2>6
<1> QED BY <1>1, <1>9 DEF PostInv

\* Image p is through with a call: it has named each of its neighbours as
\* often as each of them has named it, or will not be named again before that.
LEMMA ReportPosts ==
  ASSUME NeighboursMatch, TrialInv, DataInv, PostInv, NEW p \in Im, Report(p)
  PROVE  PostInv'
<1>1. /\ UNCHANGED <<job, neighbours, posted>> /\ Im' = Im
      /\ pc[p] = "report" /\ Place(p)
      /\ bench'[p] = bench[p] + 1 /\ k'[p] = 0 /\ j'[p] = 0
      /\ \A q \in Im \ {p} : bench'[q] = bench[q]
  BY DEF Report, Return, Goto, Im, TrialInv, PlaceInv, LoopTypes
<1>2. \A q \in Im : Posts(p, q)' = 0
  <2>1. pc'[p] \in {"setup", "done"}
    BY DEF Report, Return, Goto, TrialInv, LoopTypes
  <2> QED BY <2>1 DEF Posts, Listed, Over
<1>3. \A r \in Im \ {p} : \A q \in Im : Posts(r, q)' = Posts(r, q)
  <2>1. Step(p)
    BY DEF Step
  <2> QED BY <2>1, OthersPost DEF OthersPosts
<1>4. \A q, r \in Im : Posts(q, r) \in Nat /\ posted[q][r] \in Nat /\ bench[q] \in Nat
  BY PostsType DEF DataInv, DataTypes, TrialInv, LoopTypes
<1>5. LeftInCall(p) = PerCall(p) /\ PerCall(p) \in Nat \ {0}
  BY <1>1, LeftBounds DEF TrialInv
<1>6. ASSUME NEW q \in Im \ {p}, bench[q] = bench[p]
      PROVE  posted[p][q] = posted[q][p]
  <2>1. posted[p][q] - Posts(p, q) = posted[q][p] - Posts(q, p)
    BY <1>6 DEF PostInv
  <2>2. /\ Type(q) = Type(p) /\ InnerReps(q) = InnerReps(p) /\ PerCall(q) = PerCall(p)
    BY <1>6, SameNumbers
  <2>3. k[q] = SyncOuter /\ j[q] = InnerReps(p) /\ pc[q] \in {"end", "stop", "report"}
    <3>1. \/ PerCall(q) <= LeftInCall(q)
          \/ inside[q] /\ PerCall(q) <= LeftInCall(q) + 1
      BY <1>5, <1>6, <2>2, InStep
    <3>2. LeftInCall(q) \in 0 .. PerCall(q) /\ (inside[q] => LeftInCall(q) < PerCall(q))
          /\ PerCall(q) \in Nat
      BY LeftBounds DEF TrialInv, PlaceInv
    <3>3. \/ LeftInCall(q) = PerCall(q)
          \/ inside[q] /\ LeftInCall(q) + 1 = PerCall(q)
      BY <3>1, <3>2
    <3> QED BY <2>2, <3>3, AtEnd
  <2>4. k[p] = SyncOuter /\ j[p] = InnerReps(p)
    BY <1>1 DEF Place
  <2>5. Listed(p) <=> Listed(q)
    BY <1>1, <2>2, <2>3 DEF Listed, Over
  <2>6. Listed(p) /\ Listed(q) => (q \in neighbours[p] <=> p \in neighbours[q])
    BY <1>6 DEF NeighboursMatch
  <2>7. Posts(p, q) = Posts(q, p)
    BY <2>2, <2>3, <2>4, <2>5, <2>6 DEF Posts
  <2> QED BY <1>4, <2>1, <2>7
<1>7. ASSUME NEW q \in Im \ {p}
      PROVE  /\ bench[p] <= bench[q] /\ bench[q] <= bench[p] + 1
             /\ bench[q] = bench[p] + 1 => posted[p][q] = posted[q][p] /\ Posts(q, p) = 0
  <2>1. bench[p] <= bench[q]
    <3>1. bench[q] >= bench[p]
      BY <1>5, CallReached
    <3> QED BY <1>4, <3>1
  <2>2. bench[q] <= bench[p] + 1
    BY DEF TrialInv, StartInv
  <2>3. ASSUME bench[q] = bench[p] + 1
        PROVE  posted[p][q] = posted[q][p] /\ Posts(q, p) = 0
    <3>1. bench[p] < bench[q]
      BY <1>4, <2>3
    <3>2. LeftInCall(q) = 0
      BY <3>1, InStep
    <3>3. k[q] = 0 /\ j[q] = 0
      <4>1. Place(q) /\ LeftInTrial(q) \in Nat /\ k[q] * PerTrial(q) \in Nat
        <5>1. PerTrial(q) \in Nat /\ k[q] \in Nat
          BY Repetitions DEF TrialInv, LoopTypes
        <5> DEFINE per == PerTrial(q)
        <5>2. k[q] * per \in Nat
          <6> HIDE DEF per
          <6> QED BY <5>1 DEF per
        <5> QED BY <5>2, LeftBounds DEF TrialInv, PlaceInv
      <4>2. pc[q] \in InRest
        BY <3>2, <4>1 DEF LeftInCall
      <4> QED BY <4>1, <4>2 DEF Place
    <3>4. InnerReps(q) \in Nat
      BY Repetitions DEF TrialInv, LoopTypes
    <3>5. posted[p][q] = posted[q][p]
      BY <3>1 DEF PostInv
    <3> QED BY <3>3, <3>4, <3>5 DEF Posts
  <2> QED BY <2>1, <2>2, <2>3
<1>8. ASSUME NEW q \in Im, NEW r \in Im
      PROVE  /\ bench'[q] = bench'[r] =>
                  posted'[q][r] - Posts(q, r)' = posted'[r][q] - Posts(r, q)'
             /\ bench'[q] < bench'[r] => posted'[q][r] = posted'[r][q]
  <2>1. /\ bench[q] = bench[r] =>
             posted[q][r] - Posts(q, r) = posted[r][q] - Posts(r, q)
        /\ bench[q] < bench[r] => posted[q][r] = posted[r][q]
    BY DEF PostInv
  <2>2. CASE q = r
    BY <2>2, <1>1
  <2>3. CASE q = p /\ r # p
    BY <2>3, <1>1, <1>2, <1>3, <1>4, <1>7
  <2>4. CASE q # p /\ r = p
    <3>1. bench[q] = bench[p] => posted[p][q] = posted[q][p]
      BY <1>6, <2>4
    <3>2. \/ bench[q] = bench[p]
          \/ /\ bench[q] = bench[p] + 1
             /\ posted[p][q] = posted[q][p] /\ Posts(q, p) = 0
      BY <1>4, <1>7, <2>4
    <3> QED BY <2>4, <1>1, <1>2, <1>3, <1>4, <3>1, <3>2
  <2>5. CASE q # p /\ r # p
    BY <2>1, <2>5, <1>1, <1>3
  <2> QED BY <2>2, <2>3, <2>4, <2>5
<1> QED BY <1>1, <1>8 DEF PostInv

LEMMA StepPosts ==
  ASSUME NeighboursMatch, TrialInv, DataInv, PostInv, NEW p \in Im, Step(p)
  PROVE  PostInv'
<1>1. CASE DelayAndPost(p)
  BY <1>1, DelayPosts
<1>2. CASE Report(p)
  BY <1>2, ReportPosts
<1>3. CASE ~DelayAndPost(p) /\ ~Report(p)
  <2>1. Keeps(p)
    BY <1>3, KeptByRefuseAndSetup, KeptByStopTimer, KeptByOthers DEF Step
  <2> QED BY <2>1, KeptPosts
<1> QED BY <1>1, <1>2, <1>3

-----------------------------------------------------------------------------
\* The names called out only become more.
LEMMA PostedGrows ==
  ASSUME TrialInv, DataInv, NEW p \in Im, Step(p), NEW q \in Im, NEW r \in Im
  PROVE  posted[q][r] <= posted'[q][r]
<1>1. posted[q][r] \in Nat
  BY DEF DataInv, DataTypes
<1>2. CASE DelayAndPost(p) /\ q = p
  <2>1. posted'[p][r] = posted[p][r] + (IF r \in neighbours[p] THEN 1 ELSE 0)
    BY <1>2 DEF DelayAndPost, DataInv, DataTypes
  <2> QED BY <1>1, <1>2, <2>1
<1>3. CASE ~(DelayAndPost(p) /\ q = p)
  <2>1. posted'[q] = posted[q]
    <3>1. CASE q # p
      BY <3>1, OthersPost
    <3>2. CASE ~DelayAndPost(p)
      BY <3>2 DEF Step, Refuse, Setup, EnterSyncAll, LeaveSyncAll, Reference, StartTimer,
                  DelayAndSyncAll, SyncImages, LockAndDelay, Unlock, StopTimer, Report
    <3> QED BY <1>3, <3>1, <3>2
  <2> QED BY <1>1, <2>1
<1> QED BY <1>2, <1>3

\* Starting the timer, everybody has been named as often as it has named.
LEMMA StartPasses ==
  ASSUME NeighboursMatch, TrialInv, DataInv, PostInv, NEW p \in Im, pc[p] = "start",
         Type(p) \in PointToPoint, NEW q \in Im, q \in neighbours[p]
  PROVE  posted[p][q] <= posted[q][p]
<1>1. bench[q] = bench[p]
  BY SameCallInTrial
<1>2. /\ k[q] >= k[p]
      /\ Posts(p, q) = (k[p] * InnerReps(p)) + j[p]
      /\ Posts(q, p) = (k[q] * InnerReps(p)) + j[q]
  BY <1>1, PostsCompare
<1>3. /\ j[p] = 0 /\ j[q] \in Nat /\ k[p] \in Nat /\ k[q] \in Nat /\ InnerReps(p) \in Nat
      /\ posted[p][q] \in Nat /\ posted[q][p] \in Nat
  BY Repetitions, ZenonT(60) DEF TrialInv, PlaceInv, Place, LoopTypes, DataInv, DataTypes
<1> DEFINE mine == k[p] * InnerReps(p)
           its  == k[q] * InnerReps(p)
<1>4. mine \in Nat /\ its \in Nat /\ mine <= its
  <2> DEFINE reps == InnerReps(p)
  <2>1. k[p] * reps \in Nat /\ k[q] * reps \in Nat /\ k[p] * reps <= k[q] * reps
    <3> HIDE DEF reps
    <3> QED BY <1>2, <1>3 DEF reps
  <2> QED BY <2>1
<1>5. posted[p][q] - Posts(p, q) = posted[q][p] - Posts(q, p)
  BY <1>1 DEF PostInv
<1> HIDE DEF mine, its
<1> QED BY <1>2, <1>3, <1>4, <1>5 DEF mine, its

LEMMA StepPasses ==
  ASSUME NeighboursMatch, TrialInv, DataInv, PostInv, PassInv, NEW p \in Im, Step(p)
  PROVE  PassInv'
<1>1. Im' = Im /\ Effect(p)
  BY StepEffect DEF TrialInv, Effect, Im
<1> SUFFICES ASSUME NEW r \in Im, NEW q \in Im,
                    pc'[r] \in {"repeat", "end", "stop"}, Type(r)' \in PointToPoint,
                    q \in neighbours'[r]
             PROVE  posted'[r][q] <= posted'[q][r]
  BY <1>1 DEF PassInv, PointToPoint
<1>2. /\ posted[q][r] <= posted'[q][r] /\ posted[q][r] \in Nat /\ posted'[q][r] \in Int
      /\ posted[r][q] \in Nat
  <2>1. posted'[q][r] \in Int
    <3>1. CASE DelayAndPost(p) /\ q = p
      BY <3>1, SMTT(30) DEF DelayAndPost, DataInv, DataTypes
    <3>2. CASE ~(DelayAndPost(p) /\ q = p)
      <4>1. posted'[q] = posted[q]
        <5>1. CASE q # p
          BY <5>1, OthersPost
        <5>2. CASE ~DelayAndPost(p)
          BY <5>2 DEF Step, Refuse, Setup, EnterSyncAll, LeaveSyncAll, Reference, StartTimer,
                      DelayAndSyncAll, SyncImages, LockAndDelay, Unlock, StopTimer, Report
        <5> QED BY <3>2, <5>1, <5>2
      <4> QED BY <4>1 DEF DataInv, DataTypes
    <3> QED BY <3>1, <3>2
  <2> QED BY <2>1, PostedGrows DEF DataInv, DataTypes
<1>3. CASE r # p
  <2>1. pc'[r] = pc[r] /\ bench'[r] = bench[r] /\ job' = job
    BY <1>1, <1>3 DEF Effect, Elsewhere
  <2>2. Type(r)' = Type(r)
    BY <2>1 DEF Type, Current
  <2>3. neighbours'[r] = neighbours[r] /\ posted'[r] = posted[r]
    BY <1>3, OthersPost
  <2>4. posted[r][q] <= posted[q][r]
    BY <2>1, <2>2, <2>3 DEF PassInv
  <2> QED BY <1>2, <2>3, <2>4
<1>4. CASE r = p
  <2>1. Place(p)
    BY DEF TrialInv, PlaceInv
  <2>2. \/ StartTimer(p)
        \/ SyncImages(p)
        \/ EnterSyncAll(p) /\ pc'[p] = pc[p]
        \/ LeaveSyncAll(p) /\ pc[p] = "end"
    <3>1. ~Refuse(p) /\ ~Setup(p) /\ ~Reference(p) /\ ~DelayAndSyncAll(p) /\ ~DelayAndPost(p)
          /\ ~LockAndDelay(p) /\ ~StopTimer(p) /\ ~Report(p)
      <4>1. Refuse(p) => pc'[p] \in {"stopped", "setup", "done"}
        BY DEF Refuse, Return, Goto, TrialInv, LoopTypes
      <4>2. Report(p) => pc'[p] \in {"setup", "done"}
        BY DEF Report, Return, Goto, TrialInv, LoopTypes
      <4> QED BY <1>4, <4>1, <4>2
              DEF Setup, Reference, DelayAndSyncAll, DelayAndPost, LockAndDelay, StopTimer, Goto,
                  TrialInv, LoopTypes
    <3>2. ~Unlock(p)
      <4> SUFFICES ASSUME Unlock(p) PROVE FALSE
        OBVIOUS
      <4>1. Type(p)' = Type(p) /\ Type(p) \in Serialised
        <5>1. UNCHANGED <<job, bench>>
          BY DEF Unlock, test
        <5>2. Type(p) \in Serialised
          BY <2>1 DEF Unlock, Place
        <5> QED BY <5>1, <5>2, SameCall
      <4> QED BY <1>4, <4>1 DEF Serialised, PointToPoint
    <3>3. EnterSyncAll(p) => pc'[p] = pc[p]
      BY DEF EnterSyncAll
    <3>4. LeaveSyncAll(p) => pc[p] = "end"
      <4> SUFFICES ASSUME LeaveSyncAll(p), pc[p] # "end" PROVE FALSE
        OBVIOUS
      <4>1. pc'[p] = AfterSyncAll(p) /\ pc[p] \in InSyncAll /\ Type(p)' = Type(p)
        <5>1. UNCHANGED <<job, bench>>
          BY DEF LeaveSyncAll, test
        <5> QED BY <2>1, <5>1, SameCall DEF LeaveSyncAll, Goto, TrialInv, LoopTypes, Place
      <4>2. pc[p] # "all"
        BY <1>4, <2>1, <4>1 DEF Place, PointToPoint
      <4> QED BY <1>4, <4>1, <4>2 DEF AfterSyncAll, InSyncAll
    <3> QED BY <3>1, <3>2, <3>3, <3>4 DEF Step
  <2>3. /\ UNCHANGED <<job, bench, neighbours, posted>>
        /\ Type(p)' = Type(p)
    <3>1. UNCHANGED <<job, bench, neighbours, posted>>
      BY <2>2 DEF StartTimer, SyncImages, EnterSyncAll, LeaveSyncAll, test
    <3> QED BY <3>1, SameCall
  <2>4. posted[p][q] <= posted[q][p]
    <3>1. CASE StartTimer(p)
      BY <1>4, <2>3, <3>1, StartPasses DEF StartTimer
    <3>2. CASE SyncImages(p)
      <4>1. posted[q][p] >= posted[p][q]
        BY <1>4, <2>3, <3>2 DEF SyncImages
      <4> QED BY <1>2, <1>4, <4>1
    <3>3. CASE \/ EnterSyncAll(p) /\ pc'[p] = pc[p]
               \/ LeaveSyncAll(p) /\ pc[p] = "end"
      BY <1>4, <2>3, <3>3 DEF PassInv
    <3> QED BY <2>2, <3>1, <3>2, <3>3
  <2> QED BY <1>4, <2>3, <2>4
<1> QED BY <1>3, <1>4

LEMMA StepUnlisted ==
  ASSUME TrialInv, DataInv, UnlistedInv, NEW p \in Im, Step(p)
  PROVE  UnlistedInv'
<1>1. Im' = Im /\ Effect(p)
  BY StepEffect DEF TrialInv, Effect, Im
<1> SUFFICES ASSUME NEW r \in Im, pc'[r] \notin {"setup", "done", "stopped"},
                    Type(r)' \notin PointToPoint
             PROVE  neighbours'[r] = {}
  BY <1>1 DEF UnlistedInv, PointToPoint
<1>2. CASE r # p
  <2>1. pc'[r] = pc[r] /\ bench'[r] = bench[r] /\ job' = job
    BY <1>1, <1>2 DEF Effect, Elsewhere
  <2>2. Type(r)' = Type(r)
    BY <2>1 DEF Type, Current
  <2>3. neighbours'[r] = neighbours[r]
    BY <1>2, OthersPost
  <2> QED BY <2>1, <2>2, <2>3 DEF UnlistedInv
<1>3. CASE r = p
  <2>1. ~Refuse(p) /\ ~Report(p)
    BY <1>3 DEF Refuse, Report, Return, Goto, TrialInv, LoopTypes
  <2>2. UNCHANGED <<job, bench>>
    BY <2>1 DEF Step, Setup, EnterSyncAll, LeaveSyncAll, Reference, StartTimer, DelayAndSyncAll,
                DelayAndPost, SyncImages, LockAndDelay, Unlock, StopTimer, test
  <2>3. Type(p)' = Type(p)
    BY <2>2, SameCall
  <2>4. CASE Setup(p)
    BY <1>3, <2>3, <2>4 DEF Setup, PointToPoint, DataInv, DataTypes
  <2>5. CASE ~Setup(p)
    <3>1. neighbours' = neighbours
      BY <2>1, <2>5
      DEF Step, EnterSyncAll, LeaveSyncAll, Reference, StartTimer, DelayAndSyncAll,
          DelayAndPost, SyncImages, LockAndDelay, Unlock, StopTimer
    <3>2. pc[p] \notin {"setup", "done", "stopped"}
      <4>1. LeaveSyncAll(p) => pc[p] \in InSyncAll
        BY DEF LeaveSyncAll, TrialInv, PlaceInv, Place
      <4> QED
        BY <2>1, <2>5, <4>1
        DEF Step, EnterSyncAll, LeaveSyncAll, Reference, StartTimer, DelayAndSyncAll,
            DelayAndPost, SyncImages, LockAndDelay, Unlock, StopTimer, InSyncAll
    <3> QED BY <1>3, <2>3, <3>1, <3>2 DEF UnlistedInv
  <2> QED BY <2>4, <2>5
<1> QED BY <1>2, <1>3

LEMMA InitPair ==
  ASSUME Init
  PROVE  PairInv
<1>1. \A p, q \in Im : posted[p][q] = 0 /\ Posts(p, q) = 0 /\ bench[p] = 1 /\ pc[p] = "setup"
  BY DEF Init, Posts, Listed
<1> QED BY <1>1 DEF PairInv, PostInv, PassInv, UnlistedInv

LEMMA StutterPair ==
  ASSUME PairInv, UNCHANGED vars
  PROVE  PairInv'
<1> USE DEF vars, test, loops
<1>1. Im' = Im
  BY DEF Im
<1>2. \A r : Type(r)' = Type(r) /\ InnerReps(r)' = InnerReps(r)
  BY SameCall
<1>3. \A r : Listed(r)' <=> Listed(r)
  BY <1>2 DEF Listed, Over
<1>4. \A r, q : Posts(r, q)' = Posts(r, q)
  BY <1>2, <1>3 DEF Posts
<1>5. PostInv'
  BY <1>1, <1>4 DEF PairInv, PostInv
<1>6. PassInv' /\ UnlistedInv'
  BY <1>1, <1>2 DEF PairInv, PassInv, UnlistedInv
<1> QED BY <1>5, <1>6 DEF PairInv

LEMMA NextMatch ==
  ASSUME MatchingJobs, MatchInv, [Next]_vars
  PROVE  MatchInv'
<1>1. EnoughImages
  BY DEF MatchingJobs, EnoughImages
<1>2. NInv' /\ TrialInv' /\ DataInv'
  BY <1>1, NextNInv, NextTrial, NextData DEF MatchInv
<1>3. NeighboursMatch
  BY NInvMatches DEF MatchInv
<1>4. ASSUME NEW p \in Im, Step(p) PROVE PairInv'
  BY <1>3, <1>4, StepPosts, StepPasses, StepUnlisted DEF MatchInv, PairInv
<1>5. ASSUME UNCHANGED vars PROVE PairInv'
  BY <1>5, StutterPair DEF MatchInv
<1>6. PairInv'
  BY <1>4, <1>5 DEF Next, Exit
<1> QED BY <1>2, <1>6 DEF MatchInv

(***************************************************************************)
(* In the Fortran suite on an even number of images, any two neighbours    *)
(* have named each other equally often, trial by trial.                    *)
(***************************************************************************)
THEOREM MatchInvariance ==
  ASSUME MatchingJobs
  PROVE  Spec => []MatchInv
<1>1. Init => MatchInv
  BY InitNInv, InitTrial, InitData, InitPair DEF MatchInv
<1>2. MatchInv /\ [Next]_vars => MatchInv'
  BY NextMatch
<1> QED BY <1>1, <1>2, PTL DEF Spec

\* Sync all separates the iterations: the counts of image q say so.
LEMMA AllSeparated ==
  ASSUME TrialInv, NEW p \in Im, pc[p] \in {"repeat", "end", "stop"}, Type(p) = "all",
         NEW q \in Im, bench[q] = bench[p]
  PROVE  k[q] > k[p] \/ (k[q] = k[p] /\ j[q] >= j[p])
<1>1. /\ Place(p) /\ Place(q) /\ Type(q) = "all" /\ InnerReps(q) = InnerReps(p)
      /\ j[p] \in Nat /\ j[q] \in Nat /\ InnerReps(p) \in Nat
      /\ pc[q] \in Labels
  BY SameNumbers, Repetitions DEF TrialInv, PlaceInv, LoopTypes
<1>2. LeftInTrial(p) >= 1 + j[p] /\ pc[p] \notin InRest \cup InReference
  BY <1>1 DEF LeftInTrial, InLoop, InRest, InReference
<1>3. /\ pc[q] \notin InRest \cup InReference
      /\ \/ k[q] > k[p]
         \/ k[q] = k[p] /\ LeftInTrial(p) <= LeftInTrial(q)
         \/ k[q] = k[p] /\ inside[q] /\ LeftInTrial(p) <= LeftInTrial(q) + 1
  <2>1. LeftInTrial(p) > 0
    <3>1. LeftInTrial(p) \in Nat
      BY <1>1, LeftBounds DEF TrialInv
    <3> QED BY <1>1, <1>2, <3>1
  <2> QED BY <1>2, <2>1, TrialReached
<1>4. LeftInTrial(p) \in Nat /\ LeftInTrial(q) \in Nat
  BY <1>1, LeftBounds DEF TrialInv
<1>5. CASE pc[q] = "begin"
  <2>1. j[q] = 0 /\ LeftInTrial(q) = 0
    BY <1>1, <1>5 DEF LeftInTrial, InLoop, Place
  <2> QED BY <1>1, <1>2, <1>3, <1>4, <2>1
<1>6. CASE pc[q] = "all"
  <2>1. LeftInTrial(q) = j[q]
    BY <1>1, <1>6 DEF LeftInTrial, InLoop
  <2> QED BY <1>1, <1>2, <1>3, <1>4, <2>1
<1>7. CASE pc[q] \in {"start", "repeat", "images", "unlock"}
  <2>1. ~inside[q] /\ LeftInTrial(q) = 1 + j[q]
    BY <1>1, <1>7 DEF LeftInTrial, InLoop, Place, InSyncAll
  <2> QED BY <1>1, <1>2, <1>3, <1>4, <2>1
<1>8. CASE pc[q] \in {"end", "stop", "report"}
  BY <1>1, <1>3, <1>8 DEF Place
<1> QED BY <1>1, <1>3, <1>5, <1>6, <1>7, <1>8 DEF InRest, InReference, Labels

\* Sync images separates them because neighbours have named each other
\* equally often in the trials before.
LEMMA ImagesSeparated ==
  ASSUME NeighboursMatch, TrialInv, DataInv, PairInv, NEW p \in Im,
         pc[p] \in {"repeat", "end", "stop"}, Type(p) \in PointToPoint,
         NEW q \in Im, q \in neighbours[p], bench[q] = bench[p]
  PROVE  k[q] > k[p] \/ (k[q] = k[p] /\ j[q] >= j[p])
<1>1. /\ k[q] >= k[p]
      /\ Posts(p, q) = (k[p] * InnerReps(p)) + j[p]
      /\ Posts(q, p) = (k[q] * InnerReps(p)) + j[q]
  BY PostsCompare
<1>2. posted[p][q] - Posts(p, q) = posted[q][p] - Posts(q, p)
  BY DEF PairInv, PostInv
<1>3. posted[p][q] <= posted[q][p]
  BY DEF PairInv, PassInv
<1>4. /\ posted[p][q] \in Nat /\ posted[q][p] \in Nat
      /\ k[p] \in Nat /\ k[q] \in Nat /\ j[p] \in Nat /\ j[q] \in Nat
      /\ InnerReps(p) \in Nat
  BY Repetitions DEF DataInv, DataTypes, TrialInv, LoopTypes
<1> DEFINE before == k[p] * InnerReps(p)
<1>5. before \in Nat
  BY <1>4
<1>6. CASE k[q] = k[p]
  <2>1. Posts(p, q) = before + j[p] /\ Posts(q, p) = before + j[q]
    BY <1>1, <1>6
  <2> HIDE DEF before
  <2>2. j[q] >= j[p]
    BY <1>2, <1>3, <1>4, <1>5, <2>1
  <2> QED BY <1>6, <2>2
<1>7. CASE k[q] # k[p]
  <2>1. \A a, b \in Nat : a >= b /\ a # b => a > b
    OBVIOUS
  <2> QED BY <1>1, <1>4, <1>7, <2>1
<1> QED BY <1>6, <1>7

LEMMA MatchInvSeparates ==
  ASSUME MatchingJobs, MatchInv
  PROVE  SyncSeparatesIterations
<1>1. NeighboursMatch /\ TrialInv /\ DataInv /\ PairInv
  BY NInvMatches DEF MatchInv
<1> SUFFICES ASSUME NEW p \in Im, pc[p] \in {"repeat", "end", "stop"},
                    NEW q \in SynchronisedWith(p)
             PROVE  HasBegun(q, bench[p], k[p], j[p])
  BY DEF SyncSeparatesIterations
<1>2. q \in Im /\ bench[p] \in Nat /\ bench[q] \in Nat
  BY <1>1 DEF SynchronisedWith, DataInv, DataTypes, TrialInv, LoopTypes
<1>3. bench[q] >= bench[p]
  <2>1. LeftInCall(p) > 0
    <3>1. LeftInTrial(p) \in Nat /\ k[p] \in Nat /\ PerTrial(p) \in Nat
      BY <1>1, LeftBounds, Repetitions DEF TrialInv, PlaceInv, LoopTypes
    <3> DEFINE before == k[p] * PerTrial(p)
    <3>2. before \in Nat
      BY <3>1
    <3>3. LeftInCall(p) = 2 + before + LeftInTrial(p)
      BY DEF LeftInCall, InRest, InReference
    <3> HIDE DEF before
    <3> QED BY <3>1, <3>2, <3>3
  <2> QED BY <1>1, <1>2, <2>1, CallReached
<1>4. CASE bench[q] = bench[p]
  <2>1. CASE Type(p) = "all"
    BY <1>1, <1>2, <1>4, <2>1, AllSeparated DEF HasBegun
  <2>2. CASE Type(p) \in PointToPoint
    <3>1. q \in neighbours[p]
      BY <2>2 DEF SynchronisedWith, PointToPoint
    <3> QED BY <1>1, <1>2, <1>4, <2>2, <3>1, ImagesSeparated DEF HasBegun
  <2>3. CASE Type(p) # "all" /\ Type(p) \notin PointToPoint
    BY <1>1, <2>3 DEF SynchronisedWith, PairInv, UnlistedInv
  <2> QED BY <2>1, <2>2, <2>3
<1>5. CASE bench[q] # bench[p]
  BY <1>2, <1>3, <1>5 DEF HasBegun
<1> QED BY <1>4, <1>5

(***************************************************************************)
(* In every run of the Fortran suite on an even number of images: a        *)
(* synchronisation returns when every image it is with has made the delay  *)
(* before it, in the same test, trial and iteration or a later one.        *)
(***************************************************************************)
THEOREM SeparationTheorem ==
  ASSUME MatchingJobs
  PROVE  Spec => []SyncSeparatesIterations
<1>1. MatchInv => SyncSeparatesIterations
  BY MatchInvSeparates
<1> QED BY <1>1, MatchInvariance, PTL

-----------------------------------------------------------------------------
(***************************************************************************)
(* How many images getneighs finds.                                        *)
(***************************************************************************)
\* Once around the ring.
LEMMA Wrap ==
  ASSUME NEW n \in Nat \ {0}, NEW x \in 0 .. (2 * n) - 1
  PROVE  x % n = IF x < n THEN x ELSE x - n
<1>1. CASE x < n
  <2>1. x \in 0 .. n - 1
    BY <1>1
  <2> QED BY <1>1, <2>1, SmallRemainder
<1>2. CASE ~(x < n)
  <2> DEFINE r == x - n
  <2>1. r \in Nat /\ r \in 0 .. n - 1 /\ r + n = x
    BY <1>2
  <2> HIDE DEF r
  <2>2. (r + n) % n = r % n /\ r % n = r
    BY <2>1, StrideRemainder, SmallRemainder
  <2> QED BY <1>2, <2>1, <2>2 DEF r
<1> QED BY <1>1, <1>2

\* The position d places after i, where positions are counted from base.
After(base, n, i, d) == IF (i - base) + d < n THEN i + d ELSE (i + d) - n

LEMMA PartnerIsAfter ==
  ASSUME NEW port \in Ports, NEW n \in Nat \ {0}, NEW m \in Nat, m < n,
         NEW i \in Images(port, n), NEW partner \in Partners(port, 2 * m)
  PROVE  LET base == IF port = "dash" THEN 0 ELSE 1
         IN  /\ partner + 1 - base \in 1 .. m
             /\ GetPartner(port, i, partner, n) = After(base, n, i, partner + 1 - base)
<1>1. (2 * m) \div 2 = m
  OBVIOUS
<1>2. CASE port = "dash"
  <2>1. partner \in 0 .. m - 1 /\ i \in 0 .. n - 1
    BY <1>1, <1>2 DEF Partners, Images
  <2> DEFINE x == i + partner + 1
  <2>2. x \in 0 .. (2 * n) - 1
    BY <2>1
  <2>3. GetPartner(port, i, partner, n) = x % n
    BY <1>2 DEF GetPartner
  <2>4. x % n = IF x < n THEN x ELSE x - n
    BY <2>2, Wrap
  <2> QED BY <1>2, <2>1, <2>3, <2>4 DEF After
<1>3. CASE port # "dash"
  <2>1. partner \in 1 .. m /\ i \in 1 .. n
    BY <1>1, <1>3 DEF Partners, Images
  <2> DEFINE x == (i + partner) - 1
  <2>2. x \in 0 .. (2 * n) - 1
    BY <2>1
  <2>3. GetPartner(port, i, partner, n) = (x % n) + 1
    <3>1. x = i + (partner - 1)
      BY <2>1
    <3> QED BY <1>3, <3>1 DEF GetPartner
  <2>4. x % n = IF x < n THEN x ELSE x - n
    BY <2>2, Wrap
  <2> QED BY <1>3, <2>1, <2>3, <2>4 DEF After
<1> QED BY <1>2, <1>3

\* An arrangement puts every image somewhere.
LEMMA Arranged ==
  ASSUME NEW port, NEW n \in Nat, NEW perm \in Arrangements(port, n),
         NEW me \in Images(port, n)
  PROVE  \E i \in Images(port, n) : perm[i] = me
<1> DEFINE S == Images(port, n)
<1>1. IsFiniteSet(S)
  BY FS_Interval DEF Images
<1>2. perm \in [S -> S] /\ \A a, b \in S : perm[a] = perm[b] => a = b
  BY DEF Arrangements
<1>3. perm \in Injection(S, S)
  BY <1>2, Fun_IsInj
<1>4. perm \in Surjection(S, S)
  BY <1>1, <1>3, FS_Injection
<1> QED BY <1>4, Fun_SurjectionProperties

(***************************************************************************)
(* Twice as many neighbours as there are partners on one side, if there    *)
(* are more images than that: the neighbours are at the places 1 .. m and  *)
(* n - m .. n - 1 behind the place of image me, which are all different.   *)
(***************************************************************************)
LEMMA RingSize ==
  ASSUME NEW port \in Ports, NEW n \in Nat \ {0}, NEW m \in Nat, 2 * m < n,
         NEW perm \in Arrangements(port, n), NEW me \in Images(port, n)
  PROVE  Cardinality(GetNeighsRing(port, n, me, 2 * m, perm)) = 2 * m
<1> DEFINE base == IF port = "dash" THEN 0 ELSE 1
           S == Images(port, n)
           N == GetNeighsRing(port, n, me, 2 * m, perm)
           near == 1 .. m
           far  == n - m .. n - 1
           D == near \cup far
<1>1. PICK i \in S : perm[i] = me
  BY Arranged
<1>2. S = base .. (n - 1) + base /\ base \in {0, 1}
  BY DEF Images
<1>3. perm \in [S -> S] /\ \A a, b \in S : perm[a] = perm[b] => a = b
  BY DEF Arrangements
<1> DEFINE g == [d \in D |-> perm[After(base, n, i, d)]]
<1>4. \A d \in D : d \in 1 .. n - 1 /\ After(base, n, i, d) \in S
  <2> HIDE DEF base, S
  <2> QED BY <1>2 DEF After
<1>5. \A partner \in Partners(port, 2 * m) :
         /\ partner + 1 - base \in near
         /\ \A a \in S : GetPartner(port, a, partner, n) = After(base, n, a, partner + 1 - base)
  <2>1. m < n
    OBVIOUS
  <2>2. ASSUME NEW partner \in Partners(port, 2 * m), NEW a \in S
        PROVE  /\ partner + 1 - base \in near
               /\ GetPartner(port, a, partner, n) = After(base, n, a, partner + 1 - base)
    BY <2>1, PartnerIsAfter
  <2> QED BY <1>1, <2>2
<1>6. \A d \in near : \E partner \in Partners(port, 2 * m) : partner + 1 - base = d
  <2> TAKE d \in near
  <2>1. (2 * m) \div 2 = m
    OBVIOUS
  <2>2. CASE port = "dash"
    <3>1. d - 1 \in Partners(port, 2 * m) /\ (d - 1) + 1 - 0 = d
      BY <2>1, <2>2 DEF Partners
    <3> QED BY <2>2, <3>1
  <2>3. CASE port # "dash"
    <3>1. d \in Partners(port, 2 * m) /\ d + 1 - 1 = d
      BY <2>1, <2>3 DEF Partners
    <3> QED BY <2>3, <3>1
  <2> QED BY <2>2, <2>3
\* The links of the ring, by how far they reach.
<1>7. \A a, b \in S :
         <<a, b>> \in RingLinks(port, n, 2 * m) <=> \E d \in near : b = After(base, n, a, d)
  <2> SUFFICES ASSUME NEW a \in S, NEW b \in S
               PROVE  <<a, b>> \in RingLinks(port, n, 2 * m)
                        <=> \E d \in near : b = After(base, n, a, d)
    OBVIOUS
  <2>1. <<a, b>> \in RingLinks(port, n, 2 * m)
          <=> \E partner \in Partners(port, 2 * m) : b = GetPartner(port, a, partner, n)
    BY DEF RingLinks
  <2> HIDE DEF base, near, S
  <2> QED BY <1>5, <1>6, <2>1
\* Going back d places is going on n - d.
<1>8. \A a \in S : \A d \in near :
         /\ n - d \in far
         /\ i = After(base, n, a, d) <=> a = After(base, n, i, n - d)
  <2> HIDE DEF base, S
  <2> QED BY <1>2 DEF After
<1>9. \A d \in far : n - d \in near /\ n - (n - d) = d
  OBVIOUS
<1>10. \A link \in RingLinks(port, n, 2 * m) : link[1] \in S /\ link[2] \in S
                                                /\ link = <<link[1], link[2]>>
  <2> SUFFICES ASSUME NEW a \in S, NEW partner \in Partners(port, 2 * m)
               PROVE  GetPartner(port, a, partner, n) \in S
    BY DEF RingLinks
  <2>1. /\ partner + 1 - base \in 1 .. n - 1
        /\ GetPartner(port, a, partner, n) = After(base, n, a, partner + 1 - base)
    BY <1>5
  <2> HIDE DEF base, S
  <2> QED BY <1>2, <2>1 DEF After
<1>11. \A q \in S : q \in N <=> \E a \in S : /\ perm[a] = q
                                             /\ \/ <<i, a>> \in RingLinks(port, n, 2 * m)
                                                \/ <<a, i>> \in RingLinks(port, n, 2 * m)
  <2> SUFFICES ASSUME NEW q \in S
               PROVE  q \in N <=> \E a \in S : /\ perm[a] = q
                                               /\ \/ <<i, a>> \in RingLinks(port, n, 2 * m)
                                                  \/ <<a, i>> \in RingLinks(port, n, 2 * m)
    OBVIOUS
  <2>1. q \in N => \E a \in S : /\ perm[a] = q
                                /\ \/ <<i, a>> \in RingLinks(port, n, 2 * m)
                                   \/ <<a, i>> \in RingLinks(port, n, 2 * m)
    <3> SUFFICES ASSUME q \in N
                 PROVE  \E a \in S : /\ perm[a] = q
                                     /\ \/ <<i, a>> \in RingLinks(port, n, 2 * m)
                                        \/ <<a, i>> \in RingLinks(port, n, 2 * m)
      OBVIOUS
    <3>1. PICK link \in RingLinks(port, n, 2 * m) :
            \/ perm[link[1]] = me /\ perm[link[2]] = q
            \/ perm[link[2]] = me /\ perm[link[1]] = q
      BY DEF GetNeighsRing
    <3>2. link[1] \in S /\ link[2] \in S /\ link = <<link[1], link[2]>>
      BY <1>10, <3>1
    <3>3. CASE perm[link[1]] = me /\ perm[link[2]] = q
      <4>1. link[1] = i
        BY <1>1, <1>3, <3>2, <3>3
      <4> QED BY <3>1, <3>2, <3>3, <4>1
    <3>4. CASE perm[link[2]] = me /\ perm[link[1]] = q
      <4>1. link[2] = i
        BY <1>1, <1>3, <3>2, <3>4
      <4> QED BY <3>1, <3>2, <3>4, <4>1
    <3> QED BY <3>1, <3>3, <3>4
  <2>2. ASSUME NEW a \in S, perm[a] = q,
               \/ <<i, a>> \in RingLinks(port, n, 2 * m)
               \/ <<a, i>> \in RingLinks(port, n, 2 * m)
        PROVE  q \in N
    BY <1>1, <2>2 DEF GetNeighsRing
  <2> QED BY <2>1, <2>2
<1>12. \A q \in S : q \in N <=> \E d \in D : g[d] = q
  <2> SUFFICES ASSUME NEW q \in S
               PROVE  q \in N <=> \E d \in D : g[d] = q
    OBVIOUS
  <2>1. ASSUME q \in N PROVE \E d \in D : g[d] = q
    <3>1. PICK a \in S : /\ perm[a] = q
                         /\ \/ <<i, a>> \in RingLinks(port, n, 2 * m)
                            \/ <<a, i>> \in RingLinks(port, n, 2 * m)
      BY <1>11, <2>1
    <3>2. CASE <<i, a>> \in RingLinks(port, n, 2 * m)
      <4>1. PICK d \in near : a = After(base, n, i, d)
        BY <1>7, <3>2
      <4>2. d \in D /\ g[d] = q
        BY <3>1, <4>1
      <4> QED BY <4>2
    <3>3. CASE <<a, i>> \in RingLinks(port, n, 2 * m)
      <4>1. PICK d \in near : i = After(base, n, a, d)
        BY <1>7, <3>3
      <4>2. n - d \in far /\ a = After(base, n, i, n - d)
        BY <1>8, <4>1
      <4>3. n - d \in D /\ g[n - d] = q
        BY <3>1, <4>2
      <4> QED BY <4>3
    <3> QED BY <3>1, <3>2, <3>3
  <2>2. ASSUME NEW d \in D, g[d] = q PROVE q \in N
    <3> DEFINE a == After(base, n, i, d)
    <3>1. a \in S /\ perm[a] = q
      BY <1>4, <2>2
    <3>2. CASE d \in near
      <4>1. <<i, a>> \in RingLinks(port, n, 2 * m)
        BY <1>7, <3>1, <3>2
      <4> QED BY <1>11, <3>1, <4>1
    <3>3. CASE d \in far
      <4>1. n - d \in near /\ n - (n - d) = d
        BY <1>9, <3>3
      <4>2. i = After(base, n, a, n - d)
        BY <1>8, <3>1, <4>1
      <4>3. <<a, i>> \in RingLinks(port, n, 2 * m)
        BY <1>7, <3>1, <4>1, <4>2
      <4> QED BY <1>11, <3>1, <4>3
    <3> QED BY <3>2, <3>3
  <2> QED BY <2>1, <2>2
<1>13. N \subseteq S
  BY DEF GetNeighsRing
<1>14. g \in [D -> N]
  <2>1. \A d \in D : g[d] \in S
    BY <1>3, <1>4
  <2>2. \A d \in D : g[d] \in N
    BY <1>12, <2>1
  <2> HIDE DEF N, D
  <2> QED BY <2>2
<1>15. \A c, d \in D : g[c] = g[d] => c = d
  <2> SUFFICES ASSUME NEW c \in D, NEW d \in D, g[c] = g[d] PROVE c = d
    OBVIOUS
  <2>1. After(base, n, i, c) = After(base, n, i, d)
    BY <1>3, <1>4
  <2>2. c \in 1 .. n - 1 /\ d \in 1 .. n - 1
    BY <1>4
  <2> HIDE DEF base, S, D
  <2> QED BY <1>2, <2>1, <2>2 DEF After
<1>16. g \in Bijection(D, N)
  <2>1. \A q \in N : \E d \in D : g[d] = q
    BY <1>12, <1>13
  <2> HIDE DEF g, D, N
  <2> QED BY <1>14, <1>15, <2>1, Fun_IsBij
<1>17. IsFiniteSet(D) /\ Cardinality(D) = 2 * m
  <2>1. /\ IsFiniteSet(near) /\ Cardinality(near) = m
        /\ IsFiniteSet(far) /\ Cardinality(far) = m
    <3>1. /\ IsFiniteSet(near) /\ Cardinality(near) = (IF 1 > m THEN 0 ELSE m - 1 + 1)
          /\ IsFiniteSet(far) /\ Cardinality(far) = (IF n - m > n - 1 THEN 0 ELSE (n - 1) - (n - m) + 1)
      BY FS_Interval
    <3> HIDE DEF near, far
    <3> QED BY <3>1
  <2>2. near \cap far = {}
    OBVIOUS
  <2>3. /\ IsFiniteSet(D)
        /\ Cardinality(D) = Cardinality(near) + Cardinality(far) - Cardinality(near \cap far)
    <3> HIDE DEF near, far
    <3> QED BY <2>1, FS_Union
  <2>4. Cardinality(near \cap far) = 0
    BY <2>2, FS_EmptySet
  <2> HIDE DEF near, far, D
  <2> QED BY <2>1, <2>3, <2>4
<1>18. Cardinality(N) = Cardinality(D)
  <2> HIDE DEF g, D, N
  <2> QED BY <1>16, <1>17, FS_Bijection DEF ExistsBijection
<1> QED BY <1>17, <1>18

-----------------------------------------------------------------------------
(***************************************************************************)
(* Every image that has been through getneighs holds what it returns for   *)
(* some permutation of the images, whichever images drew which.            *)
(***************************************************************************)
SomeList(p) ==
  \E perm \in Arrangements(job.port, job.images) : neighbours[p] = ListOf(p, perm)

ListedInv ==
  /\ DOMAIN neighbours = Im
  /\ \A p \in Im : Listed(p) => SomeList(p)

LEMMA IdentityIsOne ==
  ASSUME NEW port, NEW n
  PROVE  Identity(port, n) \in Arrangements(port, n)
BY DEF Identity, Arrangements

LEMMA SetupLists ==
  ASSUME TrialInv, ListedInv, NEW p \in Im, Setup(p)
  PROVE  ListedInv'
<1>1. /\ UNCHANGED <<job, bench>> /\ Effect(p)
      /\ Im' = Im /\ Driver(job)' = Driver(job)
  BY SetupEffect DEF Setup, TrialInv, Im
<1>2. /\ \E list : neighbours' = [neighbours EXCEPT ![p] = list]
      /\ Type(p) \in PointToPoint =>
           \E perm \in Arrangements(job.port, job.images) :
              neighbours' = [neighbours EXCEPT ![p] = ListOf(p, perm)]
  <2>1. Shuffles[job] \subseteq Arrangements(job.port, job.images)
    BY CafSyncAssumption DEF TrialInv, LoopTypes
  <2>2. Identity(job.port, job.images) \in Arrangements(job.port, job.images)
    BY IdentityIsOne
  <2> QED BY <2>1, <2>2 DEF Setup
<1>3. DOMAIN neighbours' = Im /\ \A r \in Im \ {p} : neighbours'[r] = neighbours[r]
  BY <1>2 DEF ListedInv
<1>4. \A r \in Im : /\ Type(r)' = Type(r)
                    /\ \A perm : ListOf(r, perm)' = ListOf(r, perm)
  BY <1>1 DEF Type, Current, ListOf
<1> SUFFICES ASSUME NEW r \in Im, Listed(r)' PROVE SomeList(r)'
  BY <1>1, <1>3 DEF ListedInv
<1>5. CASE r = p
  BY <1>1, <1>2, <1>4, <1>5 DEF SomeList, Listed, ListedInv
<1>6. CASE r # p
  <2>1. Listed(r)
    BY <1>1, <1>4, <1>6 DEF Listed, Over, Effect, Elsewhere
  <2> QED BY <1>1, <1>3, <1>4, <1>6, <2>1 DEF SomeList, ListedInv
<1> QED BY <1>5, <1>6

\* The other steps leave the lists alone and begin no call half way.
LEMMA OthersList ==
  ASSUME TrialInv, ListedInv, NEW p \in Im, Step(p), ~Setup(p)
  PROVE  ListedInv'
<1>1. Effect(p) /\ Im' = Im
  BY StepEffect DEF TrialInv, Effect, Im
<1>2. neighbours' = neighbours /\ job' = job
  BY DEF Step, Refuse, EnterSyncAll, LeaveSyncAll, Reference, StartTimer, DelayAndSyncAll,
         DelayAndPost, SyncImages, LockAndDelay, Unlock, StopTimer, Report, test
<1> SUFFICES ASSUME NEW r \in Im, Listed(r)' PROVE Listed(r) /\ bench'[r] = bench[r]
  BY <1>1, <1>2 DEF ListedInv, SomeList, ListOf, Type, Current
<1>3. CASE r # p
  BY <1>1, <1>2, <1>3 DEF Listed, Over, Effect, Elsewhere, Type, Current
<1>4. CASE r = p
  <2>1. ~Report(p)
    BY <1>4 DEF Report, Return, Goto, Listed, Over, TrialInv, LoopTypes
  <2>2. ~Refuse(p)
    BY <1>4 DEF Refuse, Return, Goto, Listed, Over, TrialInv, LoopTypes
  <2>3. bench' = bench
    BY <2>1, <2>2 DEF Step, EnterSyncAll, LeaveSyncAll, Reference, StartTimer, DelayAndSyncAll,
           DelayAndPost, SyncImages, LockAndDelay, Unlock, StopTimer, test
  <2>4. pc[p] \notin {"setup", "done", "stopped"}
    <3>1. LeaveSyncAll(p) => pc[p] \in InSyncAll
      BY DEF LeaveSyncAll, TrialInv, PlaceInv, Place
    <3> QED
      BY <2>1, <2>2, <3>1
      DEF Step, EnterSyncAll, LeaveSyncAll, Reference, StartTimer, DelayAndSyncAll,
          DelayAndPost, SyncImages, LockAndDelay, Unlock, StopTimer, InSyncAll
  <2> QED BY <1>2, <1>4, <2>3, <2>4 DEF Listed, Over, Type, Current
<1> QED BY <1>3, <1>4

LEMMA NextListed ==
  ASSUME TrialInv, ListedInv, [Next]_vars
  PROVE  ListedInv'
<1>1. ASSUME NEW p \in Im, Step(p) PROVE ListedInv'
  BY <1>1, SetupLists, OthersList
<1>2. CASE UNCHANGED vars
  BY <1>2 DEF vars, test, ListedInv, SomeList, ListOf, Listed, Over, Type, Current, Im
<1> QED BY <1>1, <1>2 DEF Next, Exit

LEMMA ListsAreFull ==
  ASSUME TrialInv, ListedInv
  PROVE  AsManyNeighbours
<1> SUFFICES ASSUME NEW p \in Im, Listed(p)
             PROVE  Cardinality(neighbours[p]) = Current(p).numneigh
  BY DEF AsManyNeighbours
<1>1. PICK perm \in Arrangements(job.port, job.images) : neighbours[p] = ListOf(p, perm)
  BY DEF ListedInv, SomeList
<1>2. job \in Jobs /\ job.port \in Ports /\ job.images \in Nat \ {0}
  BY CafSyncAssumption DEF TrialInv, LoopTypes
<1>3. bench[p] \in 1 .. Len(Driver(job))
  <2>1. Place(p) /\ pc[p] # "done" /\ Len(Driver(job)) \in Nat
    BY <1>2, DriverIsSeq DEF TrialInv, PlaceInv, Listed, Over
  <2> QED BY <2>1 DEF Place
<1>4. /\ Type(p) = "pair" => Current(p).numneigh = 1
      /\ Type(p) \in {"ring", "rand"} =>
           \E m \in Nat : Current(p).numneigh = 2 * m /\ 2 * m <= job.images - 2
  BY <1>2, <1>3, FewNeighbours DEF Type, Current
<1>5. CASE Type(p) = "pair"
  <2>1. \E q : neighbours[p] = {q}
    BY <1>1, <1>5 DEF ListOf, GetNeighsPair
  <2> QED BY <1>4, <1>5, <2>1, FS_Singleton
<1>6. CASE Type(p) \in {"ring", "rand"}
  <2>1. PICK m \in Nat : Current(p).numneigh = 2 * m /\ 2 * m <= job.images - 2
    BY <1>4, <1>6
  <2>2. neighbours[p] = GetNeighsRing(job.port, job.images, p, 2 * m, perm)
    BY <1>1, <1>6, <2>1 DEF ListOf
  <2>3. 2 * m < job.images
    BY <1>2, <2>1
  <2>4. Cardinality(GetNeighsRing(job.port, job.images, p, 2 * m, perm)) = 2 * m
    BY <1>2, <2>3, RingSize DEF Im
  <2> QED BY <2>1, <2>2, <2>4
<1> QED BY <1>5, <1>6 DEF Listed, PointToPoint

(***************************************************************************)
(* getneighs fills its vector exactly, in both suites, for every number of *)
(* images and every permutation: no two partners of an image coincide.     *)
(***************************************************************************)
THEOREM NeighboursCountTheorem == Spec => []AsManyNeighbours
<1>1. Init => TrialInv /\ ListedInv
  BY InitTrial DEF Init, ListedInv, Listed
<1>2. TrialInv /\ ListedInv /\ [Next]_vars => (TrialInv /\ ListedInv)'
  BY NextTrial, NextListed
<1>3. TrialInv /\ ListedInv => AsManyNeighbours
  BY ListsAreFull
<1> QED BY <1>1, <1>2, <1>3, PTL DEF Spec
=============================================================================
