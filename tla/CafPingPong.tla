----------------------------- MODULE CafPingPong -----------------------------
(***************************************************************************)
(* cafpingpong of the Fortran CAF suite and of the DASH port, and the      *)
(* drivers that call it: what each image executes, in sections.  A call    *)
(* opens, then for each pattern of access makes trials (trial, then body   *)
(* once per repetition, then close) until one lasts long enough, and ends. *)
(***************************************************************************)
EXTENDS CafOps

\* A call: of which suite, on how many images, how paired, mode of transfer, ...
PingPong(jb, pairing, cafsynctype, mode) ==
  [kind |-> "pingpong", port |-> jb.port, images |-> jb.images, check |-> jb.check,
   pairing |-> pairing, mode |-> mode,
   sync |-> IF jb.port = "fortran" /\ mode = "mpisend" THEN "null" ELSE cafsynctype,
   maxndata |-> jb.maxndata, maxstride |-> jb.maxstride]

\* Mutant: the images of the lower half only.
SwappedFirstHalf(pairing, n, me) == pairing = "cross" /\ me % 2 = 0 /\ 2 * me <= n

Swapped(pairing, n, me) == pairing = "cross" /\ me % 2 = 0

FortranPair(pairing, n, me) ==
  LET half == n \div 2
      pair == IF me <= half THEN <<me, me + half>> ELSE <<me - half, me>>
  IN  IF pairing = "single" THEN <<1, n>>
      ELSE IF Swapped(pairing, n, me) THEN <<pair[2], pair[1]>> ELSE pair

DashPair(pairing, n, me) ==
  LET half == n \div 2
  IN  IF pairing = "single" THEN <<0, n - 1>>
      ELSE IF me <= half THEN <<me, me + half>> ELSE <<me - half, me>>

Pair(c, me) ==
  IF c.port = "dash" THEN DashPair(c.pairing, c.images, me)
  ELSE FortranPair(c.pairing, c.images, me)
Image1(c, me) == Pair(c, me)[1]
Image2(c, me) == Pair(c, me)[2]

\* Every way of pairing the images up with every kind of synchronisation and mode.
CallsOf(jb, pairings, cafsynctypes) ==
  LET m == Len(jb.modes)
      s == Len(cafsynctypes)
  IN  [i \in 1 .. Len(pairings) * s * m |->
         PingPong(jb, pairings[((i - 1) \div (m * s)) + 1],
                  cafsynctypes[(((i - 1) \div m) % s) + 1],
                  jb.modes[((i - 1) % m) + 1])]

FortranDriver(jb) ==
  CallsOf(jb, <<"single">>
              \o Only(jb.images > 2 /\ jb.images % 2 = 0, <<"multi">>)
              \o Only(jb.images % 4 = 0, <<"cross">>),
          <<"all", "pt2pt">>)

\* iloop stops before the crossing ping-pong, and sloop before sync images.
DashDriver(jb) ==
  CallsOf(jb, <<"single">> \o Only(jb.images > 2 /\ jb.images % 2 = 0, <<"multi">>),
          <<"all", "all">>)

-----------------------------------------------------------------------------
ManyModes    == {"mput", "msubput", "submput", "mget", "msubget", "submget"}
GapModes     == {"smput", "smget"}
StridedModes == {"sput", "ssubput", "sget", "ssubget"}
AllModes     == {"allput", "allget"}
GetModes     == {"get", "subget", "mget", "submget", "msubget", "sget", "ssubget",
                 "allget", "simplesubget", "smget"}

Shape(count, blksize, stride) == [count |-> count, blksize |-> blksize, stride |-> stride]

FirstShape(c) ==
  CASE c.mode \in ManyModes    -> Shape(1, c.maxndata, c.maxndata)
    [] c.mode \in GapModes     -> Shape(1, c.maxndata \div 2, c.maxndata)
    [] c.mode \in StridedModes -> Shape(c.maxndata \div c.maxstride, 1, c.maxstride)
    [] OTHER                   -> Shape(1, 1, 1)

NextShape(c, shape) ==
  CASE c.mode \in ManyModes \cup GapModes ->
         Shape(2 * shape.count, shape.blksize \div 2, shape.stride \div 2)
    [] c.mode \in StridedModes -> Shape(shape.count, shape.blksize, shape.stride \div 2)
    [] OTHER -> Shape(shape.count, 2 * shape.blksize, 2 * shape.stride)

Finished(c, shape) ==
  CASE c.mode \in ManyModes    -> shape.count > c.maxndata
    [] c.mode \in GapModes     -> shape.stride < 2
    [] c.mode \in StridedModes -> shape.stride < 1
    [] OTHER                   -> shape.blksize > c.maxndata

SizeOf(c, shape) == IF c.mode \in AllModes THEN Ndata(shape) ELSE c.maxndata

\* Mutant: the blocks one after the other, as with many puts.
MovedAsBlocks(c, shape) == 1 .. Ndata(shape)

\* The cells that the statement of the mode names.
Moved(c, shape) ==
  LET blk == shape.blksize
  IN  CASE c.mode \in ManyModes ->
             UNION {1 + (i - 1) * blk .. i * blk : i \in 1 .. shape.count}
        [] c.mode \in GapModes ->
             UNION {1 + 2 * (i - 1) * blk .. (2 * i - 1) * blk : i \in 1 .. shape.count}
        [] c.mode \in StridedModes ->
             {i \in 1 .. blk + (shape.count - 1) * shape.stride : (i - 1) % shape.stride = 0}
        [] OTHER -> 1 .. Ndata(shape)

Across(c, shape, from, to) ==
  Transfer({Copy(from, i, to, i) : i \in Moved(c, shape)})

Put(c, shape, from, to) ==
  IF c.mode = "mpisend" THEN Send(to, Moved(c, shape))
  ELSE <<Across(c, shape, from, to)>>

\* A get is complete when its statement is; x.flush() in the DASH port.
Get(c, shape, from, to) == <<Across(c, shape, from, to), Complete>>

-----------------------------------------------------------------------------
\* Mutant: images without a partner synchronise as well.
ActiveAlways(c, me) == TRUE

Active(c, me) == c.sync = "all" \/ me \in {Image1(c, me), Image2(c, me)}

\* The list has one element: image1's partner is image2.
Neighbours(c, me) ==
  {IF me = Image2(c, me) THEN Image1(c, me) ELSE Image2(c, me)}

Synchronise(c, me) == CafDoSync(c.sync, Active(c, me), Neighbours(c, me))

Set(c, shape, value) == CafSet(c.port, SizeOf(c, shape), shape, value, c.check)

FortranPut(c, me, shape, irep) ==
  LET image1 == Image1(c, me)
      image2 == Image2(c, me)
  IN  Only(me = image1, Set(c, shape, irep) \o Put(c, shape, image1, image2))
      \o Only(me = image2 /\ me # image1 /\ c.mode = "mpisend", Recv(image1))
      \o Synchronise(c, me)

FortranPutBack(c, me, shape, irep) ==
  LET image1 == Image1(c, me)
      image2 == Image2(c, me)
  IN  Only(me = image2, FortranCafCheck(shape, irep, c.check)
                        \o Set(c, shape, -irep)
                        \o Put(c, shape, image2, image1))
      \o Only(me = image1 /\ me # image2 /\ c.mode = "mpisend", Recv(image2))
      \o Gand(c.check)
      \o Synchronise(c, me)
      \o Only(me = image1, FortranCafCheck(shape, -irep, c.check))
      \o Gand(c.check)

FortranGet(c, me, shape, irep) ==
  LET image1 == Image1(c, me)
      image2 == Image2(c, me)
  IN  Only(me = image2, Get(c, shape, image1, image2)
                        \o FortranCafCheck(shape, irep, c.check)
                        \o Set(c, shape, -irep))
      \o Gand(c.check)
      \o Synchronise(c, me)

FortranGetBack(c, me, shape, irep) ==
  LET image1 == Image1(c, me)
      image2 == Image2(c, me)
  IN  Only(me = image1, Get(c, shape, image2, image1)
                        \o FortranCafCheck(shape, -irep, c.check)
                        \o Set(c, shape, irep + 1))
      \o Gand(c.check)
      \o Synchronise(c, me)

FortranTrial(c, me, shape) ==
  <<Zero(SizeOf(c, shape))>>
  \o Only(me = Image1(c, me), <<Filled(SizeOf(c, shape), shape, 1)>>)
  \o <<SyncAll, StartTimer>>

\* Mutant: without the sync all before the second reading of the clock.
FortranCloseAtOnce(me) == <<StopTimer, SyncAll>> \o Dbcast(me, 1)

FortranClose(me) == <<SyncAll, StopTimer>> \o Dbcast(me, 1)

-----------------------------------------------------------------------------
DashPut(c, me, shape, irep) ==
  LET image1 == Image1(c, me)
      image2 == Image2(c, me)
  IN  Only(me = image1, Set(c, shape, irep) \o Put(c, shape, image1, image2))
      \o Only(me = image2 /\ c.mode = "mpisend", Recv(image1))
      \o <<Complete>>
      \o Synchronise(c, me)

DashPutBack(c, me, shape, irep) ==
  LET image1 == Image1(c, me)
      image2 == Image2(c, me)
  IN  Only(me = image2, DashCafCheck(shape, irep, c.check)
                        \o Set(c, shape, -irep)
                        \o Put(c, shape, image2, image1))
      \o Only(me = image1 /\ c.mode = "mpisend", Recv(image2))
      \o AndLocally(c.check)
      \o <<Complete>>
      \o Synchronise(c, me)
      \o Only(me = image1, DashCafCheck(shape, -irep, c.check))
      \o AndLocally(c.check)

DashGet(c, me, shape, irep) ==
  LET image1 == Image1(c, me)
      image2 == Image2(c, me)
  IN  Only(me = image2, Get(c, shape, image1, image2)
                        \o DashCafCheck(shape, irep, c.check)
                        \o Set(c, shape, -irep))
      \o AndLocally(c.check)
      \o Synchronise(c, me)

DashGetBack(c, me, shape, irep) ==
  LET image1 == Image1(c, me)
      image2 == Image2(c, me)
  IN  Only(me = image1, Get(c, shape, image2, image1)
                        \o DashCafCheck(shape, -irep, c.check)
                        \o Set(c, shape, irep + 1))
      \o AndLocally(c.check)
      \o Synchronise(c, me)

DashTrial(c, me, shape) ==
  <<Zero(SizeOf(c, shape))>>
  \o Only(me = Image1(c, me), <<Filled(SizeOf(c, shape), shape, 1)>>)
  \o <<SyncAll, StartTimer>>

DashClose(me) == <<SyncAll, StopTimer>> \o Dbcast(me, 0)

-----------------------------------------------------------------------------
PingPongOpen(c) == <<Statement("reset checks")>> \o Allocate(c.maxndata)

\* "all put" and "all get" allocate the array anew for each amount of data.
PingPongResize(c, shape) ==
  Only(c.mode \in AllModes, Deallocate \o Allocate(Ndata(shape)))

PingPongTrial(c, me, shape) ==
  IF c.port = "dash" THEN DashTrial(c, me, shape) ELSE FortranTrial(c, me, shape)

PingPongBody(c, me, shape, irep) ==
  IF c.mode \in GetModes
  THEN IF c.port = "dash"
       THEN DashGet(c, me, shape, irep) \o DashGetBack(c, me, shape, irep)
       ELSE FortranGet(c, me, shape, irep) \o FortranGetBack(c, me, shape, irep)
  ELSE IF c.port = "dash"
       THEN DashPut(c, me, shape, irep) \o DashPutBack(c, me, shape, irep)
       ELSE FortranPut(c, me, shape, irep) \o FortranPutBack(c, me, shape, irep)

PingPongClose(c, me) == IF c.port = "dash" THEN DashClose(me) ELSE FortranClose(me)
=============================================================================
