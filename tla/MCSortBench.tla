----------------------------- MODULE MCSortBench -----------------------------
(***************************************************************************)
(* Instances of sort-bench.                                                *)
(***************************************************************************)
EXTENDS SortBench

Backend(name, workers, length) == [backend |-> name, workers |-> workers, length |-> length]

\* Two keys for each of two workers, and three workers with a part between two.
MCBuilds ==
  {Backend(name, 2, 2) : name \in {"dash", "mpi", "tbb", "openmp"}}
    \cup {Backend("dash", 3, 2), Backend("tbb", 3, 1)}
=============================================================================
