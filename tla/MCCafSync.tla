------------------------------ MODULE MCCafSync -----------------------------
(***************************************************************************)
(* Instances of the synchronisation benchmarks.                            *)
(***************************************************************************)
EXTENDS CafSync

Fortran(n) == [port |-> "fortran", images |-> n]
Dash(n)    == [port |-> "dash", images |-> n]

\* The Fortran suite on an even number of images, and on one, which is too
\* few for pairs; the DASH port on two images, where an image is its own pair.
MCJobs     == {Fortran(1), Fortran(2), Fortran(4), Dash(2)}
MCDashJobs == {Dash(4)}
MCLockJobs == {Fortran(4)}

\* Two arrangements that give different rings of four images.
MCShuffles ==
  [jb \in MCJobs \cup MCDashJobs |->
     IF jb.images < 4 THEN {Identity(jb.port, jb.images)}
     ELSE LET base == Identity(jb.port, jb.images)
              a == IF jb.port = "dash" THEN 0 ELSE 1
          IN  {base, [base EXCEPT ![a + 1] = a + 2, ![a + 2] = a + 1]}]
=============================================================================
