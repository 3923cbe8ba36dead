------------------------------ MODULE OmbDart ------------------------------
(***************************************************************************)
(* The latency benchmarks for DART, the runtime of DASH: unit 0 puts to or *)
(* gets from the last unit, which may be unit 0 itself, for any number of  *)
(* units.  DART's segments can be accessed as soon as they are allocated;  *)
(* only dart_flush and dart_wait wait for the target, and                  *)
(* dart_team_memfree waits for the other units but not for operations.     *)
(***************************************************************************)
EXTENDS OmbWindows

\* What -s selects after the operation; flush is the default.
DartCompletion(sync) ==
  IF sync = "flush_local" THEN FlushLocal ELSE Flush

DartLoop(operation, target, sync) ==
  Loop(<<AtSkip(TStart), Access(operation, target, "offset"),
         Measured(DartCompletion(sync))>>)

DartRelease(r) == <<Barrier>> \o Only(r = 0, <<Report>>) \o <<Call("memfree")>>

Dart(b, operation) ==
  LET target == b.np - 1
      Body(k, r) ==
        <<Once(Only(r \in {0, target}, <<Touch>>) \o <<Call("memalloc"), SetIfLarge(k)>>)>>
          \o Only(r = 0, <<DartLoop(operation, target, b.sync), Once(<<TEnd>>)>>)
          \o <<Once(DartRelease(r))>>
  IN  Benchmark(b, TRUE, NumSizes, <<>>, Body, <<>>)

OsuDartPut(sync, np) == Dart(WithOptions("osu_dart_put_latency", sync, "", np), "put")
OsuDartGet(sync, np) == Dart(WithOptions("osu_dart_get_latency", sync, "", np), "get")
=============================================================================
