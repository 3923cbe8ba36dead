--------------------------- MODULE CafNeighbours ----------------------------
(***************************************************************************)
(* Who synchronises with whom in the sync-images tests of the two CAF      *)
(* suites: getneighs and the functions it calls, of the Fortran suite      *)
(* (images are numbered from 1) and of the DASH port (numbered from 0).    *)
(***************************************************************************)
EXTENDS Integers, FiniteSets

Ports == {"fortran", "dash"}

Images(port, n) == IF port = "dash" THEN 0 .. n - 1 ELSE 1 .. n

\* What getperm can return on one image.
Arrangements(port, n) ==
  {f \in [Images(port, n) -> Images(port, n)] :
     \A a, b \in Images(port, n) : f[a] = f[b] => a = b}

Identity(port, n) == [i \in Images(port, n) |-> i]

\* Mutant: the offset of the loop that counts partners from 0 in the other one.
GetPartnerFromOne(port, image, partner, n) ==
  IF port = "dash" THEN (image + partner + 1) % n ELSE ((image + partner) % n) + 1

GetPartner(port, image, partner, n) ==
  IF port = "dash" THEN (image + partner + 1) % n ELSE ((image + partner - 1) % n) + 1

Partners(port, numneigh) ==
  IF port = "dash" THEN 0 .. (numneigh \div 2) - 1 ELSE 1 .. numneigh \div 2

\* The positions of the ring that getneighs links, each with a later one.
RingLinks(port, n, numneigh) ==
  {<<i, GetPartner(port, i, partner, n)>> :
     i \in Images(port, n), partner \in Partners(port, numneigh)}

\* The two tests of the loop body: me is the image at one end of a link.
GetNeighsRing(port, n, me, numneigh, perm) ==
  {q \in Images(port, n) :
     \E link \in RingLinks(port, n, numneigh) :
       \/ perm[link[1]] = me /\ perm[link[2]] = q
       \/ perm[link[2]] = me /\ perm[link[1]] = q}

\* Mutant: the middle image counts itself to the upper half.
GetNeighsPairStrict(port, n, me) ==
  LET half == n \div 2
  IN  IF port = "dash"
      THEN {IF me < half THEN me + half - 1 ELSE me - half - 1}
      ELSE {IF me < half THEN me + half ELSE me - half}

GetNeighsPair(port, n, me) ==
  LET half == n \div 2
  IN  IF port = "dash"
      THEN {IF me <= half THEN me + half - 1 ELSE me - half - 1}
      ELSE {IF me <= half THEN me + half ELSE me - half}

\* The check in front of getneighs: does the test run with this many images?
TooManyNeighbours(port, n, numneigh) ==
  IF port = "dash" THEN numneigh > n ELSE numneigh >= n

=============================================================================
