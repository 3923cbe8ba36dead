---------------------------- MODULE MCCafTransfer ----------------------------
(***************************************************************************)
(* Instances of the transfer benchmarks of the CAF suites.                 *)
(***************************************************************************)
EXTENDS CafTransfer

Build(port, n, modes, check, halo, faults) ==
  [port |-> port, images |-> n, modes |-> modes, check |-> check, halo |-> halo,
   faults |-> faults, eager |-> FALSE, maxndata |-> 4, maxstride |-> 2, row |-> 1]

\* One mode for each branch that differs; the sub- variants move the same data.
Blocks    == <<"put", "mput", "allput", "get", "mget", "allget">>
Strides   == <<"sput", "smput", "sget", "smget">>
DashModes == <<"mpisend", "put", "mput", "allput", "smput",
               "get", "mget", "allget", "smget">>

\* All patterns between two images, with four elements where they leave gaps;
\* an image that is its own partner; images without a partner; and four, which
\* can be paired up in the three ways.
MCBuilds ==
  {Build("fortran", 2, Strides, TRUE, FALSE, 1),
   [Build("fortran", 2, Blocks \o <<"mpisend">>, TRUE, TRUE, 1) EXCEPT !.maxndata = 2],
   [Build("fortran", 2, <<"put", "get", "mpisend">>, FALSE, TRUE, 0)
      EXCEPT !.maxndata = 2, !.row = 2],
   Build("fortran", 1, Blocks \o Strides, TRUE, TRUE, 1),
   [Build("fortran", 3, <<"put">>, TRUE, TRUE, 0) EXCEPT !.maxndata = 1, !.maxstride = 1],
   [Build("fortran", 4, <<"put">>, TRUE, FALSE, 0) EXCEPT !.maxndata = 1, !.maxstride = 1],
   [Build("dash", 2, DashModes, TRUE, FALSE, 0)
      EXCEPT !.eager = TRUE, !.maxndata = 2, !.row = 2]}

MCDashBuilds == {Build("dash", 2, <<"put", "get">>, TRUE, FALSE, 1)}
=============================================================================
