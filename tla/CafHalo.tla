------------------------------- MODULE CafHalo -------------------------------
(***************************************************************************)
(* cafhaloswap of the Fortran CAF suite: images on a periodic 3D grid swap *)
(* the boundaries of their blocks with their six neighbours.  The cells 1  *)
(* to 6 of an image stand for its halos, in the order of its neighbours;   *)
(* its own boundary, which has one value all over, is the cell 7.          *)
(***************************************************************************)
EXTENDS CafOps

HaloSwap(jb, cafsynctype, mode) ==
  [kind |-> "halo", port |-> jb.port, images |-> jb.images, check |-> jb.check,
   sync |-> cafsynctype, mode |-> mode]

HaloDriver(jb) ==
  <<HaloSwap(jb, "all", "halopp"), HaloSwap(jb, "pt2pt", "halopp"),
    HaloSwap(jb, "all", "halogg"), HaloSwap(jb, "pt2pt", "halogg")>>

\* The decompositions that getdecomp3d knows of up to 8 images.
GetDecomp3d(n) ==
  CASE n = 4 -> <<1, 2, 2>>
    [] n = 6 -> <<1, 2, 3>>
    [] n = 8 -> <<2, 2, 2>>
    [] n \in {1, 2, 3, 5, 7} -> <<1, 1, n>>

\* this_image(x) and image_index(x, coords), for x[codimx, codimy, *].
Coords(codims, me) ==
  <<((me - 1) % codims[1]) + 1,
    (((me - 1) \div codims[1]) % codims[2]) + 1,
    ((me - 1) \div (codims[1] * codims[2])) + 1>>
ImageIndex(codims, co) ==
  co[1] + codims[1] * ((co[2] - 1) + codims[2] * (co[3] - 1))

Up(co, codim)   == (co % codim) + 1
Down(co, codim) == ((co + codim - 2) % codim) + 1

\* neighbours(1:3) are up, neighbours(4:6) down.
HaloNeighbour(n, me, h) ==
  LET codims == GetDecomp3d(n)
      co     == Coords(codims, me)
      d      == IF h <= 3 THEN h ELSE h - 3
  IN  ImageIndex(codims,
        [co EXCEPT ![d] = IF h <= 3 THEN Up(@, codims[d]) ELSE Down(@, codims[d])])

HaloNeighbours(n, me) == {HaloNeighbour(n, me, h) : h \in 1 .. 6}

Boundary == 7
Opposite(h) == IF h <= 3 THEN h + 3 ELSE h - 3
HaloVal(image) == image * 1000

-----------------------------------------------------------------------------
HaloOpen == Allocate(7)

HaloTrial(me) ==
  <<Statement("reset checks"), Zero(7), Assign([i \in {Boundary} |-> HaloVal(me)]),
    SyncAll, StartTimer>>

\* Each boundary goes to the halo of a neighbour, or each halo is fetched from one.
HaloPut(n, me) ==
  Transfer({Copy(me, Boundary, HaloNeighbour(n, me, h), Opposite(h)) : h \in 1 .. 6})
HaloGet(n, me) ==
  Transfer({Copy(HaloNeighbour(n, me, h), Boundary, me, h) : h \in 1 .. 6})

\* Mutant: no synchronisation in front of the transfers.
HaloSwapAtOnce(c, me, irep) ==
  Only(c.check, <<Assign([i \in {Boundary} |-> HaloVal(me) + irep])>>)
  \o <<IF c.mode = "halopp" THEN HaloPut(c.images, me) ELSE HaloGet(c.images, me)>>
  \o Only(c.mode = "halogg", <<Complete>>)

HaloExchange(c, me, irep) ==
  Only(c.check, <<Assign([i \in {Boundary} |-> HaloVal(me) + irep])>>)
  \o CafDoSync(c.sync, TRUE, HaloNeighbours(c.images, me))
  \o <<IF c.mode = "halopp" THEN HaloPut(c.images, me) ELSE HaloGet(c.images, me)>>
  \o Only(c.mode = "halogg", <<Complete>>)

HaloVerify(c, me, irep) ==
  CafDoSync(c.sync, TRUE, HaloNeighbours(c.images, me))
  \o Only(c.check, <<Expect([h \in 1 .. 6 |-> HaloVal(HaloNeighbour(c.images, me, h)) + irep],
                            TRUE)>>)
  \o Gand(c.check)

HaloBody(c, me, irep) == HaloExchange(c, me, irep) \o HaloVerify(c, me, irep)

HaloClose(me) == <<SyncAll, StopTimer>> \o Dbcast(me, 1)
=============================================================================
