----------------------------- MODULE OmbProofs ------------------------------
(***************************************************************************)
(* The programs of the OSU suite that are the same on every rank: all the  *)
(* collective benchmarks for MPI, OpenSHMEM, UPC and UPC++.  Their ranks   *)
(* run at their own pace, but along the same path: what a rank executes    *)
(* depends on its own position and its own options only.  Module OmbRun    *)
(* runs any set of programs; what is proved here holds in every run of one *)
(* of these programs, for every number of processes, sizes and iterations: *)
(*   - the collectives of the ranks match, since all are on one path;      *)
(*   - the timer covers what is reported, since it is known in every place *)
(*     of a program of the shape that the collective benchmarks have;      *)
(*   - the measured calls do not overlap, since the last call of an        *)
(*     iteration, or the measured one, waits for all the ranks.            *)
(* Then it is shown that all the collectives of the suite are of that      *)
(* shape.  The last part is about the pSync arrays of the OpenSHMEM        *)
(* collectives, which are free again when they are used.                   *)
(***************************************************************************)
EXTENDS OmbSuite, NumberLemmas

IsSequence(f) == Len(f) \in Nat /\ f = [n \in 1 .. Len(f) |-> f[n]]

\* Statements in a row, not all of them guarded by if (i == options.skip).
IsStraight(ops) ==
  IsSequence(ops) /\ \E n \in 1 .. Len(ops) : ~ops[n].at_skip

\* What Benchmark puts together.
WellFormed(b) ==
  /\ b.np \in Nat \ {0} /\ b.sizes \in Nat
  /\ IsSequence(b.start) /\ IsSequence(b.finish)
  /\ \A k \in 1 .. b.sizes : \A r \in 1 .. b.np :
       /\ Len(b.body[k][r]) \in Nat \ {0}
       /\ \A s \in 1 .. Len(b.body[k][r]) : IsStraight(b.body[k][r][s].ops)

\* Every rank executes the same statements.
Uniform(b) ==
  WellFormed(b) /\ \A k \in 1 .. b.sizes : \A r \in 1 .. b.np : b.body[k][r] = b.body[k][1]

-----------------------------------------------------------------------------
\* The same, of any rank: the code, and where it goes from a with options o.
CodeOf(k)    == Code(0, k)
SectionAt(a) == CodeOf(a.size)[a.seg]
OpAt(a)      == SectionAt(a).ops[a.pos]

Then(a, o) ==
  LET rest == {p \in Due(SectionAt(a), a.iter, o) : p > a.pos}
      Begin(k, s, i) == [size |-> k, seg |-> s, iter |-> i,
                         pos |-> Min(Due(CodeOf(k)[s], i, o))]
  IN  IF rest # {} THEN [a EXCEPT !.pos = Min(rest)]
      ELSE IF SectionAt(a).loop /\ a.iter + 1 < Trips(o)
           THEN Begin(a.size, a.seg, a.iter + 1)
      ELSE IF a.seg < Len(CodeOf(a.size)) THEN Begin(a.size, a.seg + 1, 0)
      ELSE IF a.size < Closing THEN Begin(a.size + 1, 1, 0)
      ELSE Over

Usage == [size |-> Closing, seg |-> 1, iter |-> 0, pos |-> Len(benchmark.finish) + 1]

\* The state of a rank that determines its path.
Local(r) == [at |-> at[r], options |-> options[r], inside |-> inside[r], called |-> called[r]]

Calls(l) == OpAt(l.at).op = "start" \/ (OpAt(l.at).op = "call" /\ ~l.inside)
EntryOf(l) == [kind |-> OpAt(l.at).kind, size |-> l.at.size]

Chosen(l) ==
  LET s == OpAt(l.at).set
  IN  IF OpAt(l.at).op = "options"
      THEN [loop |-> IF s.loop = Keep THEN l.options.loop ELSE s.loop,
            skip |-> IF s.skip = Keep THEN l.options.skip ELSE s.skip]
      ELSE l.options

NextLocal(l) ==
  [at |-> IF OpAt(l.at).op = "call" /\ ~l.inside THEN l.at
          ELSE IF OpAt(l.at).op = "check" /\ ~(po_ret = "po_okay" /\ benchmark.fits) THEN Usage
          ELSE Then(l.at, Chosen(l)),
   options |-> Chosen(l),
   inside |-> OpAt(l.at).op = "call" /\ ~l.inside,
   called |-> IF Calls(l) THEN l.called + 1 ELSE l.called]

-----------------------------------------------------------------------------
\* Positions, and the variables that hold the state of the ranks.
IsPlace(a) ==
  /\ a = [size |-> a.size, seg |-> a.seg, iter |-> a.iter, pos |-> a.pos]
  /\ a.size \in 0 .. Closing
  /\ a.seg \in 1 .. Len(CodeOf(a.size))
  /\ a.iter \in Nat
  /\ a.pos \in 1 .. Len(SectionAt(a).ops)

IsLocal(l) ==
  /\ l.at # Over => IsPlace(l.at)
  /\ l.inside \in BOOLEAN
  /\ l.inside => l.at # Over /\ OpAt(l.at).op = "call"
  /\ l.called \in Nat

Shapes ==
  /\ DOMAIN at = Ranks /\ DOMAIN options = Ranks
  /\ DOMAIN inside = Ranks /\ DOMAIN called = Ranks
  /\ DOMAIN request = Ranks

-----------------------------------------------------------------------------
LEMMA SequenceRange ==
  ASSUME NEW f, IsSequence(f)
  PROVE  f \in Seq({f[n] : n \in 1 .. Len(f)})
<1> DEFINE S == {f[n] : n \in 1 .. Len(f)}
<1>1. f \in [1 .. Len(f) -> S] /\ Len(f) \in Nat
  <2>1. \A n \in 1 .. Len(f) : f[n] \in S
    OBVIOUS
  <2> HIDE DEF S
  <2> QED BY <2>1 DEF IsSequence
<1> HIDE DEF S
<1> QED BY <1>1

\* Positions are numbers, so a smallest one exists.
LEMMA MinOf ==
  ASSUME NEW T \in SUBSET Nat, T # {}
  PROVE  Min(T) \in T /\ \A n \in T : Min(T) <= n
<1>1. \E m \in T : \A n \in T : m <= n
  BY SmallestOf
<1> QED BY <1>1 DEF Min

\* The start-up, the sizes and the clean-up all have something to execute.
LEMMA CodeIsStraight ==
  ASSUME WellFormed(benchmark), NEW k \in 0 .. Closing
  PROVE  /\ Len(CodeOf(k)) \in Nat \ {0}
         /\ \A s \in 1 .. Len(CodeOf(k)) : IsStraight(CodeOf(k)[s].ops)
<1>1. benchmark.sizes \in Nat /\ benchmark.np \in Nat \ {0} /\ Closing = benchmark.sizes + 1
  BY DEF WellFormed, Closing
<1>2. CASE k = 0
  <2> DEFINE ops == <<Check>> \o benchmark.start
  <2>1. CodeOf(k) = <<Once(ops)>>
    BY <1>2 DEF CodeOf, Code
  <2>2. IsStraight(ops)
    <3> DEFINE S == {benchmark.start[n] : n \in 1 .. Len(benchmark.start)} \cup {Check}
    <3>1. benchmark.start \in Seq(S) /\ <<Check>> \in Seq(S)
      <4>1. benchmark.start \in Seq({benchmark.start[n] : n \in 1 .. Len(benchmark.start)})
        BY SequenceRange DEF WellFormed
      <4> QED BY <4>1
    <3> HIDE DEF S
    <3>2. ops \in Seq(S) /\ Len(ops) = 1 + Len(benchmark.start) /\ ops[1] = Check
      BY <3>1
    <3>3. IsSequence(ops)
      <4> HIDE DEF ops
      <4> QED BY <3>2 DEF IsSequence
    <3>4. 1 \in 1 .. Len(ops) /\ ~Check.at_skip
      <4>1. ~Check.at_skip
        BY DEF Check, Do
      <4>2. Len(benchmark.start) \in Nat
        BY DEF WellFormed, IsSequence
      <4> HIDE DEF ops
      <4> QED BY <3>2, <4>1, <4>2
    <3> HIDE DEF ops
    <3> QED BY <3>2, <3>3, <3>4 DEF IsStraight
  <2> HIDE DEF ops
  <2> QED BY <2>1, <2>2 DEF Once
<1>3. CASE k = Closing
  <2> DEFINE ops == benchmark.finish \o <<Finalize>>
  <2>1. CodeOf(k) = <<Once(ops)>>
    BY <1>1, <1>3 DEF CodeOf, Code
  <2>2. IsStraight(ops)
    <3> DEFINE S == {benchmark.finish[n] : n \in 1 .. Len(benchmark.finish)} \cup {Finalize}
               last == Len(benchmark.finish) + 1
    <3>1. benchmark.finish \in Seq(S) /\ <<Finalize>> \in Seq(S)
      <4>1. benchmark.finish \in Seq({benchmark.finish[n] : n \in 1 .. Len(benchmark.finish)})
        BY SequenceRange DEF WellFormed
      <4> QED BY <4>1
    <3> HIDE DEF S
    <3>2. ops \in Seq(S) /\ Len(ops) = last /\ ops[last] = Finalize
      BY <3>1
    <3>3. IsSequence(ops)
      <4> HIDE DEF ops
      <4> QED BY <3>2 DEF IsSequence
    <3>4. last \in 1 .. Len(ops) /\ ~Finalize.at_skip
      <4>1. ~Finalize.at_skip
        BY DEF Finalize, Call, Do
      <4>2. Len(benchmark.finish) \in Nat
        BY DEF WellFormed, IsSequence
      <4> HIDE DEF ops
      <4> QED BY <3>2, <4>1, <4>2
    <3> HIDE DEF ops, last
    <3> QED BY <3>2, <3>3, <3>4 DEF IsStraight
  <2> HIDE DEF ops
  <2> QED BY <2>1, <2>2 DEF Once
<1>4. CASE k # 0 /\ k # Closing
  <2>1. k \in 1 .. benchmark.sizes /\ CodeOf(k) = benchmark.body[k][1] /\ 1 \in 1 .. benchmark.np
    BY <1>1, <1>4 DEF CodeOf, Code
  <2> QED BY <2>1 DEF WellFormed
<1> QED BY <1>2, <1>3, <1>4

\* In every iteration there is something to do.
LEMMA DueInRange ==
  ASSUME NEW section, IsStraight(section.ops), NEW i, NEW o
  PROVE  /\ Due(section, i, o) \subseteq 1 .. Len(section.ops)
         /\ Due(section, i, o) # {}
         /\ Due(section, i, o) \subseteq Nat
<1>1. DOMAIN section.ops = 1 .. Len(section.ops) /\ Len(section.ops) \in Nat
  BY DEF IsStraight, IsSequence
<1> QED BY <1>1 DEF IsStraight, Due

\* A rank goes from place to place until it is over.
LEMMA ThenIsPlace ==
  ASSUME WellFormed(benchmark), NEW a, IsPlace(a), NEW o
  PROVE  /\ Then(a, o) # Over => IsPlace(Then(a, o))
         /\ Then(a, o).size \in {a.size, a.size + 1}
<1> DEFINE rest == {p \in Due(SectionAt(a), a.iter, o) : p > a.pos}
           Begin(k, s, i) == [size |-> k, seg |-> s, iter |-> i,
                              pos |-> Min(Due(CodeOf(k)[s], i, o))]
<1>1. IsStraight(SectionAt(a).ops) /\ Len(CodeOf(a.size)) \in Nat \ {0} /\ Closing \in Nat
  BY CodeIsStraight DEF IsPlace, SectionAt, WellFormed, Closing
<1>2. ASSUME NEW k \in 0 .. Closing, NEW s \in 1 .. Len(CodeOf(k)), NEW i \in Nat
      PROVE  IsPlace(Begin(k, s, i))
  <2> DEFINE due == Due(CodeOf(k)[s], i, o)
  <2>1. due # {} /\ due \subseteq Nat /\ due \subseteq 1 .. Len(CodeOf(k)[s].ops)
    BY CodeIsStraight, DueInRange
  <2>2. Min(due) \in 1 .. Len(CodeOf(k)[s].ops)
    <3> HIDE DEF due
    <3> QED BY <2>1, MinOf
  <2> HIDE DEF due
  <2> QED BY <2>2 DEF IsPlace, SectionAt, due
<1>3. CASE rest # {}
  <2>1. rest \subseteq Nat /\ rest \subseteq 1 .. Len(SectionAt(a).ops)
    BY <1>1, DueInRange
  <2>2. Min(rest) \in 1 .. Len(SectionAt(a).ops)
    <3> HIDE DEF rest
    <3> QED BY <1>3, <2>1, MinOf
  <2>3. Then(a, o) = [a EXCEPT !.pos = Min(rest)]
    BY <1>3 DEF Then
  <2> HIDE DEF rest
  <2>4. Then(a, o) = [size |-> a.size, seg |-> a.seg, iter |-> a.iter, pos |-> Min(rest)]
    BY <2>3 DEF IsPlace
  <2> QED BY <2>2, <2>4 DEF IsPlace, SectionAt
<1>4. CASE rest = {} /\ SectionAt(a).loop /\ a.iter + 1 < Trips(o)
  <2>1. Then(a, o) = Begin(a.size, a.seg, a.iter + 1)
    BY <1>4 DEF Then
  <2>2. IsPlace(Begin(a.size, a.seg, a.iter + 1))
    BY <1>2 DEF IsPlace
  <2> QED BY <2>1, <2>2
<1>5. CASE rest = {} /\ ~(SectionAt(a).loop /\ a.iter + 1 < Trips(o)) /\ a.seg < Len(CodeOf(a.size))
  <2>1. Then(a, o) = Begin(a.size, a.seg + 1, 0)
    BY <1>5 DEF Then
  <2>2. a.size \in 0 .. Closing /\ a.seg + 1 \in 1 .. Len(CodeOf(a.size)) /\ 0 \in Nat
    BY <1>1, <1>5 DEF IsPlace
  <2>3. IsPlace(Begin(a.size, a.seg + 1, 0))
    BY <1>2, <2>2
  <2> QED BY <2>1, <2>3
<1>6. CASE /\ rest = {} /\ ~(SectionAt(a).loop /\ a.iter + 1 < Trips(o))
           /\ ~(a.seg < Len(CodeOf(a.size))) /\ a.size < Closing
  <2>1. Then(a, o) = Begin(a.size + 1, 1, 0)
    BY <1>6 DEF Then
  <2>2. a.size + 1 \in 0 .. Closing
    BY <1>1, <1>6 DEF IsPlace
  <2>3. 1 \in 1 .. Len(CodeOf(a.size + 1)) /\ 0 \in Nat
    BY <2>2, CodeIsStraight
  <2>4. IsPlace(Begin(a.size + 1, 1, 0))
    BY <1>2, <2>2, <2>3
  <2> QED BY <2>1, <2>4
<1>7. CASE /\ rest = {} /\ ~(SectionAt(a).loop /\ a.iter + 1 < Trips(o))
           /\ ~(a.seg < Len(CodeOf(a.size))) /\ ~(a.size < Closing)
  <2>1. Then(a, o) = Over
    BY <1>7 DEF Then
  <2>2. a.size = Closing
    BY <1>1, <1>7 DEF IsPlace
  <2> QED BY <2>1, <2>2 DEF Over
<1> QED BY <1>3, <1>4, <1>5, <1>6, <1>7

-----------------------------------------------------------------------------
\* What a rank executes is what any rank would execute in its place.
LEMMA AnyRank ==
  ASSUME Uniform(benchmark), NEW r \in Ranks, IsPlace(at[r])
  PROVE  /\ Running(r) /\ Section(r) = SectionAt(at[r]) /\ Op(r) = OpAt(at[r])
         /\ \A o : Following(r, o) = Then(at[r], o)
<1>1. benchmark.sizes \in Nat /\ benchmark.np \in Nat /\ Closing = benchmark.sizes + 1
  BY DEF Uniform, WellFormed, Closing
<1>2. \A k \in 0 .. Closing : Code(r, k) = CodeOf(k)
  <2> TAKE k \in 0 .. Closing
  <2>1. CASE k = 0 \/ k = Closing
    BY <2>1 DEF CodeOf, Code
  <2>2. CASE ~(k = 0 \/ k = Closing)
    <3>1. k \in 1 .. benchmark.sizes /\ r + 1 \in 1 .. benchmark.np /\ 1 \in 1 .. benchmark.np
      BY <1>1, <2>2 DEF Ranks
    <3>2. Code(r, k) = benchmark.body[k][r + 1] /\ CodeOf(k) = benchmark.body[k][1]
      BY <2>2 DEF CodeOf, Code
    <3> QED BY <3>1, <3>2 DEF Uniform
  <2> QED BY <2>1, <2>2
<1>3. at[r].size \in 0 .. Closing /\ at[r].size < Closing + 1
  BY <1>1 DEF IsPlace
<1>4. Running(r)
  BY <1>1, <1>3 DEF Running, Over
<1>5. Section(r) = SectionAt(at[r]) /\ Op(r) = OpAt(at[r])
  BY <1>2, <1>3 DEF Section, SectionAt, Op, OpAt
<1>6. ASSUME NEW o PROVE Following(r, o) = Then(at[r], o)
  <2>1. at[r].size < Closing => Code(r, at[r].size + 1) = CodeOf(at[r].size + 1)
    BY <1>1, <1>2, <1>3
  <2>2. Code(r, at[r].size) = CodeOf(at[r].size)
    BY <1>2, <1>3
  <2> DEFINE rest == {p \in Due(SectionAt(at[r]), at[r].iter, o) : p > at[r].pos}
             mine == {p \in Due(Section(r), at[r].iter, o) : p > at[r].pos}
             Begin(k, s, i) == [size |-> k, seg |-> s, iter |-> i,
                                pos |-> Min(Due(CodeOf(k)[s], i, o))]
             Mine(k, s, i) == [size |-> k, seg |-> s, iter |-> i,
                               pos |-> Min(Due(Code(r, k)[s], i, o))]
             Skip(p) == [at[r] EXCEPT !.pos = p]
  <2>3. /\ mine = rest
        /\ \A k, s, i : Code(r, k) = CodeOf(k) => Mine(k, s, i) = Begin(k, s, i)
    BY <1>5
  <2>4. Following(r, o) =
          IF mine # {} THEN Skip(Min(mine))
          ELSE IF Section(r).loop /\ at[r].iter + 1 < Trips(o)
               THEN Mine(at[r].size, at[r].seg, at[r].iter + 1)
          ELSE IF at[r].seg < Len(Code(r, at[r].size)) THEN Mine(at[r].size, at[r].seg + 1, 0)
          ELSE IF at[r].size < Closing THEN Mine(at[r].size + 1, 1, 0)
          ELSE Over
    BY Zenon DEF Following
  <2>5. Then(at[r], o) =
          IF rest # {} THEN Skip(Min(rest))
          ELSE IF SectionAt(at[r]).loop /\ at[r].iter + 1 < Trips(o)
               THEN Begin(at[r].size, at[r].seg, at[r].iter + 1)
          ELSE IF at[r].seg < Len(CodeOf(at[r].size)) THEN Begin(at[r].size, at[r].seg + 1, 0)
          ELSE IF at[r].size < Closing THEN Begin(at[r].size + 1, 1, 0)
          ELSE Over
    BY Zenon DEF Then
  <2> HIDE DEF Begin, Mine, rest, mine, Skip
  <2> QED BY <1>5, <2>1, <2>2, <2>3, <2>4, <2>5
<1> QED BY <1>4, <1>5, <1>6

\* What a step of rank r is, seen from the path.
Journalled(r) ==
  journal' = IF Calls(Local(r)) /\ ~(called[r] < Len(journal))
             THEN Append(journal, EntryOf(Local(r))) ELSE journal

Requested(r) ==
  \/ OpAt(at[r]).op = "start" /\ request' = [request EXCEPT ![r] = called[r] + 1]
  \/ OpAt(at[r]).op \in {"test", "wait"} /\ request' = [request EXCEPT ![r] = 0]
  \/ OpAt(at[r]).op \notin {"start", "wait"} /\ request' = request

Advances(r) ==
  /\ launch' = launch /\ Shapes'
  /\ at[r] # Over
  /\ Local(r)' = NextLocal(Local(r))
  /\ \A q \in Ranks \ {r} : Local(q)' = Local(q)
  /\ Journalled(r)
  /\ Requested(r)

LEMMA LocalFields ==
  ASSUME NEW r
  PROVE  /\ Local(r).at = at[r] /\ Local(r).options = options[r]
         /\ Local(r).inside = inside[r] /\ Local(r).called = called[r]
BY DEF Local

\* The statements that do nothing to the path but go on.
LEMMA GoingOn ==
  ASSUME Uniform(benchmark), Shapes, NEW r \in Ranks, IsLocal(Local(r)), at[r] # Over,
         OpAt(at[r]).op \notin {"call", "start", "check", "options"},
         GoOn(r), UNCHANGED <<launch, inside, options, called, journal>>,
         Requested(r)
  PROVE  Advances(r)
<1>1. IsPlace(at[r]) /\ ~inside[r]
  BY LocalFields DEF IsLocal
<1>2. at' = [at EXCEPT ![r] = Then(at[r], options[r])]
  BY <1>1, AnyRank DEF GoOn
<1>3. Ranks' = Ranks
  BY DEF launch, Ranks
<1>4. Shapes'
  <2>1. DOMAIN request' = Ranks
    BY DEF Requested, Shapes
  <2> QED BY <1>2, <1>3, <2>1 DEF Shapes
<1>5. Local(r)' = NextLocal(Local(r))
  <2>1. at'[r] = Then(at[r], options[r])
    BY <1>2 DEF Shapes
  <2>2. ~Calls(Local(r)) /\ Chosen(Local(r)) = options[r]
    BY LocalFields DEF Calls, Chosen
  <2>3. NextLocal(Local(r)) =
          [at |-> Then(at[r], options[r]), options |-> options[r],
           inside |-> FALSE, called |-> called[r]]
    BY <2>2, LocalFields DEF NextLocal
  <2>4. inside'[r] = FALSE /\ called'[r] = called[r] /\ options'[r] = options[r]
    <3>1. inside[r] \in BOOLEAN
      BY LocalFields DEF IsLocal
    <3> QED BY <1>1, <3>1
  <2> QED BY <2>1, <2>3, <2>4 DEF Local
<1>6. \A q \in Ranks \ {r} : Local(q)' = Local(q)
  <2>1. \A q \in Ranks \ {r} : at'[q] = at[q]
    BY <1>2 DEF Shapes
  <2> QED BY <2>1 DEF Local
<1>7. Journalled(r)
  BY LocalFields DEF Journalled, Calls
<1> QED BY <1>4, <1>5, <1>6, <1>7 DEF Advances

LEMMA OpOf ==
  ASSUME Uniform(benchmark), NEW r \in Ranks, IsLocal(Local(r)), NEW op, At(r, op)
  PROVE  at[r] # Over /\ IsPlace(at[r]) /\ OpAt(at[r]).op = op /\ OpAt(at[r]) = Op(r)
<1>1. at[r] # Over
  BY DEF At, Running
<1>2. IsPlace(at[r])
  BY <1>1, LocalFields DEF IsLocal
<1> QED BY <1>1, <1>2, AnyRank DEF At

LEMMA PlainStep ==
  ASSUME Uniform(benchmark), Shapes, NEW r \in Ranks, IsLocal(Local(r)),
         \/ Pass(r)
         \/ ReadStart(r)
         \/ ReadEnd(r)
         \/ AddSample(r)
         \/ ResetTimer(r)
         \/ PostSend(r)
         \/ PostRecv(r)
         \/ CompleteSends(r)
         \/ CompleteRecvs(r)
         \/ TestCollective(r)
         \/ WaitCollective(r)
         \/ WinStep(r)
  PROVE  Advances(r)
<1> DEFINE Simple == {"touch", "report", "t_start", "t_end", "sample", "reset", "isend", "irecv",
                      "waitsends", "waitrecvs", "access", "lock", "unlock", "flush",
                      "flush_local", "post", "start_epoch", "complete", "win_wait", "table",
                      "address"}
<1>1. CASE TestCollective(r)
  <2>1. at[r] # Over /\ OpAt(at[r]).op = "test"
    BY <1>1, OpOf DEF TestCollective
  <2>2. Requested(r)
    BY <1>1, <2>1 DEF TestCollective, Requested
  <2> QED BY <1>1, <2>1, <2>2, GoingOn DEF TestCollective
<1>2. CASE WaitCollective(r)
  <2>1. at[r] # Over /\ OpAt(at[r]).op = "wait"
    BY <1>2, OpOf DEF WaitCollective
  <2>2. Requested(r)
    BY <1>2, <2>1 DEF WaitCollective, Requested
  <2> QED BY <1>2, <2>1, <2>2, GoingOn DEF WaitCollective
<1>3. CASE WinStep(r)
  <2>1. PICK op \in Simple : Perform(r, op)
    BY <1>3 DEF WinStep, Issue, AcquireLock, ReleaseLock, FlushAll, FlushBuffers, PostEpoch,
                StartEpoch, CompleteEpoch, WaitEpoch, KeepTable, KeepAddress
  <2>2. at[r] # Over /\ OpAt(at[r]).op = op
    BY <2>1, OpOf DEF Perform
  <2>3. GoOn(r) /\ UNCHANGED <<launch, inside, options, called, journal>> /\ Requested(r)
    BY <2>1, <2>2 DEF Perform, frame, gathering, Requested
  <2> QED BY <2>2, <2>3, GoingOn
<1>4. CASE ~TestCollective(r) /\ ~WaitCollective(r) /\ ~WinStep(r)
  <2>1. /\ GoOn(r) /\ UNCHANGED <<launch, inside, options, gathering>>
        /\ \E op \in Simple : At(r, op)
    BY <1>4 DEF Pass, ReadStart, ReadEnd, AddSample, ResetTimer, PostSend, PostRecv,
                CompleteSends, CompleteRecvs, At
  <2>2. PICK op \in Simple : At(r, op)
    BY <2>1
  <2>3. at[r] # Over /\ OpAt(at[r]).op = op
    BY <2>2, OpOf
  <2>4. Requested(r) /\ UNCHANGED <<launch, inside, options, called, journal>>
    BY <2>1, <2>3 DEF Requested, gathering
  <2> QED BY <2>1, <2>3, <2>4, GoingOn
<1> QED BY <1>1, <1>2, <1>3, <1>4

\* A rank that is sent to another place than the next one, or changes more
\* than its place.
LEMMA UsageStep ==
  ASSUME Uniform(benchmark), Shapes, NEW r \in Ranks, IsLocal(Local(r)), CheckUsage(r)
  PROVE  Advances(r)
<1>1. /\ at[r] # Over /\ IsPlace(at[r]) /\ OpAt(at[r]).op = "check" /\ OpAt(at[r]) = Op(r)
  BY OpOf DEF CheckUsage
<1>2. /\ UNCHANGED <<launch, inside, options, called, journal, request>>
  BY DEF CheckUsage, gathering
<1> DEFINE to == IF po_ret = "po_okay" /\ benchmark.fits THEN Then(at[r], options[r]) ELSE Usage
<1>3. at' = [at EXCEPT ![r] = to]
  <2>1. CASE po_ret = "po_okay" /\ benchmark.fits
    BY <1>1, <2>1, AnyRank DEF CheckUsage, GoOn
  <2>2. CASE ~(po_ret = "po_okay" /\ benchmark.fits)
    BY <2>2 DEF CheckUsage, Usage
  <2> QED BY <2>1, <2>2
<1>4. Shapes'
  BY <1>2, <1>3 DEF Shapes, launch, Ranks
<1>5. NextLocal(Local(r)) = [at |-> to, options |-> options[r], inside |-> FALSE, called |-> called[r]]
  BY <1>1, LocalFields DEF NextLocal, Calls, Chosen
<1>6. inside[r] = FALSE
  BY <1>1, LocalFields DEF IsLocal
<1> HIDE DEF to
<1>7. Local(r)' = NextLocal(Local(r)) /\ \A q \in Ranks \ {r} : Local(q)' = Local(q)
  BY <1>2, <1>3, <1>5, <1>6 DEF Local, Shapes
<1>8. Journalled(r) /\ Requested(r)
  BY <1>1, <1>2, LocalFields DEF Journalled, Requested, Calls
<1> QED BY <1>1, <1>2, <1>4, <1>7, <1>8 DEF Advances

LEMMA OptionsStep ==
  ASSUME Uniform(benchmark), Shapes, NEW r \in Ranks, IsLocal(Local(r)), SetOptions(r)
  PROVE  Advances(r)
<1>1. /\ at[r] # Over /\ IsPlace(at[r]) /\ OpAt(at[r]).op = "options" /\ OpAt(at[r]) = Op(r)
  BY OpOf DEF SetOptions
<1>2. /\ UNCHANGED <<launch, inside, called, journal, request>>
  BY DEF SetOptions, gathering
<1> DEFINE o == Chosen(Local(r))
<1>3. options' = [options EXCEPT ![r] = o] /\ at' = [at EXCEPT ![r] = Following(r, o)]
  BY <1>1, LocalFields DEF SetOptions, Chosen
<1> HIDE DEF o
<1>4. at' = [at EXCEPT ![r] = Then(at[r], o)]
  BY <1>1, <1>3, AnyRank
<1>5. Shapes'
  BY <1>2, <1>3, <1>4 DEF Shapes, launch, Ranks
<1>6. NextLocal(Local(r)) =
        [at |-> Then(at[r], o), options |-> o, inside |-> FALSE, called |-> called[r]]
  BY <1>1, LocalFields DEF NextLocal, Calls, o
<1>7. inside[r] = FALSE
  BY <1>1, LocalFields DEF IsLocal
<1>8. Local(r)' = NextLocal(Local(r)) /\ \A q \in Ranks \ {r} : Local(q)' = Local(q)
  BY <1>2, <1>3, <1>4, <1>6, <1>7 DEF Local, Shapes
<1>9. Journalled(r) /\ Requested(r)
  BY <1>1, <1>2, LocalFields DEF Journalled, Requested, Calls
<1> QED BY <1>1, <1>2, <1>5, <1>8, <1>9 DEF Advances

LEMMA EnterStep ==
  ASSUME Uniform(benchmark), Shapes, NEW r \in Ranks, IsLocal(Local(r)), EnterCollective(r)
  PROVE  Advances(r)
<1>1. /\ at[r] # Over /\ IsPlace(at[r]) /\ OpAt(at[r]).op = "call" /\ OpAt(at[r]) = Op(r)
  BY OpOf DEF EnterCollective
<1>2. /\ ~inside[r] /\ inside' = [inside EXCEPT ![r] = TRUE]
      /\ UNCHANGED <<launch, at, options, request>> /\ Join(r)
  BY DEF EnterCollective
<1>3. Calls(Local(r)) /\ EntryOf(Local(r)) = Entry(r)
  BY <1>1, <1>2, LocalFields DEF Calls, EntryOf, Entry
<1>4. Shapes'
  BY <1>2 DEF Shapes, launch, Ranks, Join
<1>5. NextLocal(Local(r)) =
        [at |-> at[r], options |-> options[r], inside |-> TRUE, called |-> called[r] + 1]
  BY <1>1, <1>2, <1>3, LocalFields DEF NextLocal, Chosen
<1>6. Local(r)' = NextLocal(Local(r)) /\ \A q \in Ranks \ {r} : Local(q)' = Local(q)
  BY <1>2, <1>5 DEF Local, Shapes, Join
<1>7. Journalled(r) /\ Requested(r)
  BY <1>1, <1>2, <1>3 DEF Journalled, Requested, Join
<1> QED BY <1>1, <1>2, <1>4, <1>6, <1>7 DEF Advances

LEMMA LeaveStep ==
  ASSUME Uniform(benchmark), Shapes, NEW r \in Ranks, IsLocal(Local(r)), LeaveCollective(r)
  PROVE  Advances(r)
<1>1. /\ at[r] # Over /\ IsPlace(at[r]) /\ OpAt(at[r]).op = "call" /\ OpAt(at[r]) = Op(r)
  BY OpOf DEF LeaveCollective
<1>2. /\ inside[r] /\ inside' = [inside EXCEPT ![r] = FALSE]
      /\ UNCHANGED <<launch, options, called, journal, request>>
  BY DEF LeaveCollective, gathering
<1>3. at' = [at EXCEPT ![r] = Then(at[r], options[r])]
  BY <1>1, AnyRank DEF LeaveCollective, GoOn
<1>4. ~Calls(Local(r))
  BY <1>1, <1>2, LocalFields DEF Calls
<1>5. Shapes'
  BY <1>2, <1>3 DEF Shapes, launch, Ranks
<1>6. NextLocal(Local(r)) =
        [at |-> Then(at[r], options[r]), options |-> options[r], inside |-> FALSE,
         called |-> called[r]]
  BY <1>1, <1>2, <1>4, LocalFields DEF NextLocal, Chosen
<1>7. Local(r)' = NextLocal(Local(r)) /\ \A q \in Ranks \ {r} : Local(q)' = Local(q)
  BY <1>2, <1>3, <1>6 DEF Local, Shapes
<1>8. Journalled(r) /\ Requested(r)
  BY <1>1, <1>2, <1>4 DEF Journalled, Requested
<1> QED BY <1>1, <1>2, <1>5, <1>7, <1>8 DEF Advances

LEMMA StartStep ==
  ASSUME Uniform(benchmark), Shapes, NEW r \in Ranks, IsLocal(Local(r)), StartCollective(r)
  PROVE  Advances(r)
<1>1. /\ at[r] # Over /\ IsPlace(at[r]) /\ OpAt(at[r]).op = "start" /\ OpAt(at[r]) = Op(r)
  BY OpOf DEF StartCollective
<1>2. /\ request' = [request EXCEPT ![r] = called[r] + 1]
      /\ UNCHANGED <<launch, inside, options>> /\ Join(r)
  BY DEF StartCollective
<1>3. at' = [at EXCEPT ![r] = Then(at[r], options[r])]
  BY <1>1, AnyRank DEF StartCollective, GoOn
<1>4. Calls(Local(r)) /\ EntryOf(Local(r)) = Entry(r)
  BY <1>1, LocalFields DEF Calls, EntryOf, Entry
<1>5. Shapes'
  BY <1>2, <1>3 DEF Shapes, launch, Ranks, Join
<1>6. inside[r] = FALSE
  BY <1>1, LocalFields DEF IsLocal
<1>7. NextLocal(Local(r)) =
        [at |-> Then(at[r], options[r]), options |-> options[r], inside |-> FALSE,
         called |-> called[r] + 1]
  BY <1>1, <1>4, LocalFields DEF NextLocal, Chosen
<1>8. Local(r)' = NextLocal(Local(r)) /\ \A q \in Ranks \ {r} : Local(q)' = Local(q)
  BY <1>2, <1>3, <1>6, <1>7 DEF Local, Shapes, Join
<1>9. Journalled(r) /\ Requested(r)
  BY <1>1, <1>2, <1>4 DEF Journalled, Requested, Join
<1> QED BY <1>1, <1>2, <1>5, <1>8, <1>9 DEF Advances

\* A step is one rank's move along the path, or touches none of it.
LEMMA Moves ==
  ASSUME Uniform(benchmark), Shapes, \A r \in Ranks : IsLocal(Local(r)),
         [WinNext]_<<vars, windows>>
  PROVE  \/ \E r \in Ranks : Advances(r)
         \/ UNCHANGED <<launch, at, inside, options, called, journal, request>>
<1>1. CASE \E r \in Ranks : Step(r)
  <2>1. PICK r \in Ranks : Step(r)
    BY <1>1
  <2>2. IsLocal(Local(r))
    OBVIOUS
  <2> QED BY <2>1, <2>2, PlainStep, UsageStep, OptionsStep, EnterStep, LeaveStep, StartStep DEF Step
<1>2. CASE \E r \in Ranks : WinStep(r)
  <2>1. PICK r \in Ranks : WinStep(r)
    BY <1>2
  <2>2. IsLocal(Local(r))
    OBVIOUS
  <2> QED BY <2>1, <2>2, PlainStep
<1>3. CASE \/ UNCHANGED <<vars, windows>>
           \/ \E r \in Ranks : \E n \in DOMAIN pending[r] : TakePlace(r, n)
           \/ Exit
           \/ \E p, q \in Ranks : \E tag \in Tags(p) : Deliver(p, q, tag)
  BY <1>3 DEF TakePlace, Exit, Deliver, vars, gathering, launch
<1> QED BY <1>1, <1>2, <1>3 DEF WinNext, Next

-----------------------------------------------------------------------------
\* The sort of place that bad usage sends a rank to.
LEMMA UsageIsPlace ==
  ASSUME WellFormed(benchmark)
  PROVE  IsPlace(Usage)
<1>1. benchmark.sizes \in Nat /\ Closing = benchmark.sizes + 1 /\ Len(benchmark.finish) \in Nat
  BY DEF WellFormed, Closing, IsSequence
<1> DEFINE ops == benchmark.finish \o <<Finalize>>
<1>2. CodeOf(Closing) = <<Once(ops)>>
  BY <1>1 DEF CodeOf, Code
<1>3. Len(ops) = Len(benchmark.finish) + 1
  <2> DEFINE S == {benchmark.finish[n] : n \in 1 .. Len(benchmark.finish)} \cup {Finalize}
  <2>1. benchmark.finish \in Seq({benchmark.finish[n] : n \in 1 .. Len(benchmark.finish)})
    BY SequenceRange DEF WellFormed
  <2>2. benchmark.finish \in Seq(S) /\ <<Finalize>> \in Seq(S)
    BY <2>1
  <2> HIDE DEF S
  <2> QED BY <2>2
<1>4. SectionAt(Usage).ops = ops
  <2>1. Usage.size = Closing /\ Usage.seg = 1
    BY DEF Usage
  <2> HIDE DEF ops
  <2> QED BY <1>2, <2>1 DEF SectionAt, Once
<1> HIDE DEF ops
<1>5. Len(CodeOf(Closing)) = 1
  BY <1>2
<1>6. /\ Usage.size = Closing /\ Usage.seg = 1 /\ Usage.iter = 0
      /\ Usage.pos = Len(benchmark.finish) + 1
      /\ Usage = [size |-> Usage.size, seg |-> Usage.seg, iter |-> Usage.iter, pos |-> Usage.pos]
  BY DEF Usage
<1>7. Usage.size \in 0 .. Closing /\ Usage.seg \in 1 .. Len(CodeOf(Usage.size)) /\ Usage.iter \in Nat
  <2>1. Usage.size \in 0 .. Closing
    BY <1>1, <1>6
  <2>2. Len(CodeOf(Usage.size)) = 1
    <3>1. Usage.size = Closing
      BY <1>6
    <3> QED BY <1>5, <3>1
  <2> QED BY <1>6, <2>1, <2>2
<1>8. Usage.pos \in 1 .. Len(SectionAt(Usage).ops)
  BY <1>1, <1>3, <1>4, <1>6
<1> QED BY <1>6, <1>7, <1>8 DEF IsPlace

LEMMA NextIsLocal ==
  ASSUME WellFormed(benchmark), NEW l, IsLocal(l), l.at # Over
  PROVE  /\ IsLocal(NextLocal(l))
         /\ NextLocal(l).called = (IF Calls(l) THEN l.called + 1 ELSE l.called)
<1> DEFINE n == NextLocal(l)
<1>1. /\ n.at = (IF OpAt(l.at).op = "call" /\ ~l.inside THEN l.at
                 ELSE IF OpAt(l.at).op = "check" /\ ~(po_ret = "po_okay" /\ benchmark.fits) THEN Usage
                 ELSE Then(l.at, Chosen(l)))
      /\ n.inside = (OpAt(l.at).op = "call" /\ ~l.inside)
      /\ n.called = (IF Calls(l) THEN l.called + 1 ELSE l.called)
  BY DEF NextLocal
<1>2. IsPlace(l.at)
  BY DEF IsLocal
<1>3. n.at # Over => IsPlace(n.at)
  BY <1>1, <1>2, ThenIsPlace, UsageIsPlace
<1>4. n.inside \in BOOLEAN /\ n.called \in Nat
  BY <1>1 DEF IsLocal
<1>5. n.inside => n.at # Over /\ OpAt(n.at).op = "call"
  BY <1>1
<1> QED BY <1>1, <1>3, <1>4, <1>5 DEF IsLocal

\* The path is the same whenever the step is made.
LEMMA SamePath ==
  ASSUME UNCHANGED launch
  PROVE  \A l : /\ NextLocal(l)' = NextLocal(l)
                /\ IsLocal(l)' = IsLocal(l)
                /\ Calls(l)' = Calls(l)
                /\ EntryOf(l)' = EntryOf(l)
<1>1. benchmark' = benchmark /\ po_ret' = po_ret
  BY DEF launch
<1>2. \A k : CodeOf(k)' = CodeOf(k)
  BY <1>1 DEF CodeOf, Code, Closing
<1>3. \A a : SectionAt(a)' = SectionAt(a) /\ OpAt(a)' = OpAt(a)
  BY <1>2 DEF SectionAt, OpAt
<1>4. Closing' = Closing /\ Over' = Over /\ Usage' = Usage
  BY <1>1 DEF Closing, Over, Usage
<1>5. \A a, o : Then(a, o)' = Then(a, o)
  <2> TAKE a, o
  <2> DEFINE rest == {p \in Due(SectionAt(a), a.iter, o) : p > a.pos}
             Begin(k, s, i) == [size |-> k, seg |-> s, iter |-> i,
                                pos |-> Min(Due(CodeOf(k)[s], i, o))]
             Skip(p) == [a EXCEPT !.pos = p]
  <2>1. rest' = rest /\ \A k, s, i : Begin(k, s, i)' = Begin(k, s, i)
    BY <1>2, <1>3
  <2>2. Then(a, o) =
          IF rest # {} THEN Skip(Min(rest))
          ELSE IF SectionAt(a).loop /\ a.iter + 1 < Trips(o)
               THEN Begin(a.size, a.seg, a.iter + 1)
          ELSE IF a.seg < Len(CodeOf(a.size)) THEN Begin(a.size, a.seg + 1, 0)
          ELSE IF a.size < Closing THEN Begin(a.size + 1, 1, 0)
          ELSE Over
    BY Zenon DEF Then
  <2>3. Then(a, o)' =
          IF rest' # {} THEN Skip(Min(rest'))
          ELSE IF SectionAt(a)'.loop /\ a.iter + 1 < Trips(o)
               THEN Begin(a.size, a.seg, a.iter + 1)'
          ELSE IF a.seg < Len(CodeOf(a.size)') THEN Begin(a.size, a.seg + 1, 0)'
          ELSE IF a.size < Closing' THEN Begin(a.size + 1, 1, 0)'
          ELSE Over'
    BY Zenon DEF Then
  <2> HIDE DEF rest, Begin, Skip
  <2> QED BY <1>2, <1>3, <1>4, <2>1, <2>2, <2>3
<1>6. \A l : Calls(l)' = Calls(l) /\ EntryOf(l)' = EntryOf(l) /\ Chosen(l)' = Chosen(l)
  BY <1>3 DEF Calls, EntryOf, Chosen
<1>7. \A l : NextLocal(l)' = NextLocal(l)
  BY <1>1, <1>3, <1>4, <1>5, <1>6 DEF NextLocal
<1>8. \A l : IsLocal(l)' = IsLocal(l)
  BY <1>2, <1>3, <1>4 DEF IsLocal, IsPlace
<1> QED BY <1>6, <1>7, <1>8

-----------------------------------------------------------------------------
\* T[0], ..., T[N] is a path that every rank is on.  The n-th collective on
\* it is the n-th in the journal, and the rank that is furthest has called
\* all that the journal has.
OnPath(N, T) ==
  /\ \A n \in 0 .. N : IsLocal(T[n])
  /\ \A n \in 0 .. N - 1 : T[n].at # Over /\ T[n + 1] = NextLocal(T[n])
  /\ \A m, n \in 0 .. N : m <= n => T[m].called <= T[n].called
  /\ \A r \in Ranks : \E n \in 0 .. N : Local(r) = T[n]
  /\ T[N].called = Len(journal)
  /\ \A n \in 0 .. N - 1 : Calls(T[n]) => journal[T[n].called + 1] = EntryOf(T[n])
  /\ \A n \in 0 .. N :
       T[n].inside => T[n].called >= 1 /\ journal[T[n].called] = EntryOf(T[n])

PathInv ==
  /\ Shapes
  /\ \E S : journal \in Seq(S)
  /\ \E N \in Nat : \E T : OnPath(N, T)

LEMMA AppendFacts ==
  ASSUME NEW S, NEW s \in Seq(S), NEW e
  PROVE  /\ Append(s, e) \in Seq(S \cup {e})
         /\ Len(Append(s, e)) = Len(s) + 1
         /\ \A n \in 1 .. Len(s) : Append(s, e)[n] = s[n]
         /\ Append(s, e)[Len(s) + 1] = e
OBVIOUS

\* What is in the journal stays, and the next collective of rank r is in it.
Kept(r) ==
  /\ Len(journal) <= Len(journal')
  /\ \A n \in 1 .. Len(journal) : journal'[n] = journal[n]
  /\ Calls(Local(r)) =>
       called[r] < Len(journal') /\ journal'[called[r] + 1] = EntryOf(Local(r))

\* A rank that is not the furthest follows the others.
LEMMA Follows ==
  ASSUME Uniform(benchmark), NEW S, journal \in Seq(S), NEW N \in Nat, NEW T, OnPath(N, T),
         NEW r \in Ranks, Advances(r), NEW n \in 0 .. N - 1, Local(r) = T[n]
  PROVE  journal' = journal /\ OnPath(N, T)' /\ Kept(r)
<1>1. launch' = launch /\ Ranks' = Ranks
  BY DEF Advances, launch, Ranks
<1>2. n \in 0 .. N /\ n + 1 \in 0 .. N /\ N \in 0 .. N /\ n <= n + 1 /\ n + 1 <= N
  OBVIOUS
<1>3. T[n].at # Over /\ T[n + 1] = NextLocal(T[n]) /\ IsLocal(T[n])
  BY <1>2 DEF OnPath
<1>4. Calls(T[n]) => T[n].called + 1 = T[n + 1].called
  BY <1>3, NextIsLocal DEF Uniform
<1>5. Len(journal) \in Nat
  OBVIOUS
<1>6. T[n + 1].called <= Len(journal) /\ T[n].called \in Nat
  BY <1>2, <1>3 DEF OnPath, IsLocal
<1>7. Calls(T[n]) => called[r] < Len(journal)
  <2>1. called[r] = T[n].called
    BY LocalFields
  <2> QED BY <1>4, <1>5, <1>6, <2>1
<1>8. journal' = journal
  BY <1>7 DEF Advances, Journalled
<1>9. Kept(r)
  <2>1. Calls(T[n]) => journal[T[n].called + 1] = EntryOf(T[n])
    BY DEF OnPath
  <2>2. called[r] = T[n].called
    BY LocalFields
  <2> QED BY <1>5, <1>7, <1>8, <2>1, <2>2 DEF Kept
<1>10. \A q \in Ranks : \E m \in 0 .. N : Local(q)' = T[m]
  <2> TAKE q \in Ranks
  <2>1. CASE q = r
    BY <1>2, <1>3, <2>1 DEF Advances
  <2>2. CASE q # r
    <3>1. Local(q)' = Local(q)
      BY <2>2 DEF Advances
    <3> QED BY <3>1 DEF OnPath
  <2> QED BY <2>1, <2>2
<1>11. OnPath(N, T)'
  <2>1. /\ (\A m \in 0 .. N : IsLocal(T[m]))'
        /\ (\A m \in 0 .. N - 1 : T[m].at # Over /\ T[m + 1] = NextLocal(T[m]))'
    BY <1>1, SamePath DEF OnPath, Over, launch, Closing
  <2>2. (\A q \in Ranks : \E m \in 0 .. N : Local(q) = T[m])'
    BY <1>1, <1>10
  <2>3. /\ (\A m \in 0 .. N - 1 : Calls(T[m]) => journal[T[m].called + 1] = EntryOf(T[m]))'
        /\ (\A m \in 0 .. N :
              T[m].inside => T[m].called >= 1 /\ journal[T[m].called] = EntryOf(T[m]))'
    BY <1>1, <1>8, SamePath DEF OnPath
  <2>4. /\ (\A l, m \in 0 .. N : l <= m => T[l].called <= T[m].called)'
        /\ (T[N].called = Len(journal))'
    BY <1>8 DEF OnPath
  <2> QED BY <2>1, <2>2, <2>3, <2>4 DEF OnPath
<1> QED BY <1>8, <1>9, <1>11

\* The rank that is furthest makes the path one step longer.
LEMMA Leads ==
  ASSUME Uniform(benchmark), NEW S, journal \in Seq(S), NEW N \in Nat, NEW T, OnPath(N, T),
         NEW r \in Ranks, Advances(r), Local(r) = T[N]
  PROVE  /\ \E Z : journal' \in Seq(Z)
         /\ \E U : OnPath(N + 1, U)'
         /\ Kept(r)
<1>1. launch' = launch /\ Ranks' = Ranks
  BY DEF Advances, launch, Ranks
<1> DEFINE M == N + 1
<1>2. M \in Nat /\ N \in 0 .. N /\ N \in 0 .. M /\ M \in 0 .. M /\ M - 1 = N
  OBVIOUS
<1> DEFINE e == EntryOf(T[N])
           x == NextLocal(T[N])
<1>3. T[N].at # Over /\ IsLocal(T[N]) /\ at[r] = T[N].at /\ called[r] = T[N].called
  BY <1>2, LocalFields DEF OnPath, Advances
<1>4. IsLocal(x) /\ x.called = (IF Calls(T[N]) THEN T[N].called + 1 ELSE T[N].called)
  BY <1>3, NextIsLocal DEF Uniform
<1>5. T[N].called = Len(journal) /\ T[N].called \in Nat
  BY <1>3 DEF OnPath, IsLocal
<1>6. journal' = IF Calls(T[N]) THEN Append(journal, e) ELSE journal
  <2>1. ~(called[r] < Len(journal))
    BY <1>3, <1>5
  <2> QED BY <2>1 DEF Advances, Journalled
<1> HIDE DEF e, x
<1>7. /\ \E Z : journal' \in Seq(Z)
      /\ Len(journal') = x.called
      /\ \A n \in 1 .. Len(journal) : journal'[n] = journal[n]
      /\ Calls(T[N]) => journal'[T[N].called + 1] = e
  <2>1. CASE Calls(T[N])
    <3>1. journal' = Append(journal, e)
      BY <1>6, <2>1
    <3>2. /\ journal' \in Seq(S \cup {e}) /\ Len(journal') = Len(journal) + 1
          /\ \A n \in 1 .. Len(journal) : journal'[n] = journal[n]
          /\ journal'[Len(journal) + 1] = e
      BY <3>1, AppendFacts
    <3> QED BY <1>4, <1>5, <2>1, <3>2
  <2>2. CASE ~Calls(T[N])
    BY <1>4, <1>5, <1>6, <2>2
  <2> QED BY <2>1, <2>2
<1>8. T[N].called <= x.called
  BY <1>4, <1>5
<1>9. Kept(r)
  <2>1. Len(journal) <= Len(journal')
    BY <1>5, <1>7, <1>8
  <2>2. Calls(Local(r)) =>
          called[r] < Len(journal') /\ journal'[called[r] + 1] = EntryOf(Local(r))
    BY <1>3, <1>4, <1>5, <1>7 DEF e
  <2> QED BY <1>7, <2>1, <2>2 DEF Kept
<1>10. PICK U : U = [n \in 0 .. M |-> IF n = M THEN x ELSE T[n]]
  OBVIOUS
<1>11. U[M] = x /\ \A n \in 0 .. N : U[n] = T[n] /\ n \in 0 .. M /\ n # M
  BY <1>10
<1>12. \A n \in 0 .. M : n = M \/ n \in 0 .. N
  OBVIOUS
<1>13. \A n \in 0 .. N - 1 : n \in 0 .. N /\ n + 1 \in 0 .. N
  OBVIOUS
<1>14. \A n \in 0 .. M - 1 : n = N \/ n \in 0 .. N - 1
  OBVIOUS
<1> HIDE DEF M
<1>15. OnPath(M, U)'
  <2>1. \A n \in 0 .. M : IsLocal(U[n])
    BY <1>4, <1>11, <1>12 DEF OnPath
  <2>2. \A n \in 0 .. M - 1 : U[n].at # Over /\ U[n + 1] = NextLocal(U[n])
    <3> TAKE n \in 0 .. M - 1
    <3>1. CASE n = N
      <4>1. U[N] = T[N] /\ U[N + 1] = x
        BY <1>2, <1>11 DEF M
      <4> QED BY <1>3, <3>1, <4>1 DEF x
    <3>2. CASE n \in 0 .. N - 1
      <4>1. U[n] = T[n] /\ U[n + 1] = T[n + 1]
        BY <1>11, <1>13, <3>2
      <4> QED BY <3>2, <4>1 DEF OnPath
    <3> QED BY <1>14, <3>1, <3>2
  <2>3. \A m, n \in 0 .. M : m <= n => U[m].called <= U[n].called
    <3> TAKE m, n \in 0 .. M
    <3> HAVE m <= n
    <3>1. \A i \in 0 .. N : T[i].called \in Nat /\ T[i].called <= T[N].called
      BY <1>2 DEF OnPath, IsLocal
    <3>2. x.called \in Nat
      BY <1>4 DEF IsLocal
    <3>3. CASE n = M /\ m = M
      BY <1>11, <3>2, <3>3
    <3>4. CASE n = M /\ m \in 0 .. N
      <4>1. U[m] = T[m] /\ U[n] = x
        BY <1>11, <3>4
      <4> QED BY <1>5, <1>8, <3>1, <3>2, <3>4, <4>1
    <3>5. CASE n \in 0 .. N
      <4>1. m \in 0 .. N
        BY <3>5 DEF M
      <4>2. U[m] = T[m] /\ U[n] = T[n]
        BY <1>11, <3>5, <4>1
      <4> QED BY <3>5, <4>1, <4>2 DEF OnPath
    <3> QED BY <1>12, <3>3, <3>4, <3>5
  <2>4. \A q \in Ranks : \E n \in 0 .. M : Local(q)' = U[n]
    <3> TAKE q \in Ranks
    <3>1. CASE q = r
      BY <1>2, <1>11, <3>1 DEF Advances, x
    <3>2. CASE q # r
      <4>1. PICK n \in 0 .. N : Local(q) = T[n]
        BY DEF OnPath
      <4> QED BY <1>11, <3>2, <4>1 DEF Advances
    <3> QED BY <3>1, <3>2
  <2>5. U[M].called = Len(journal')
    BY <1>7, <1>11
  <2>6. \A n \in 0 .. M - 1 : Calls(U[n]) => journal'[U[n].called + 1] = EntryOf(U[n])
    <3> TAKE n \in 0 .. M - 1
    <3>1. CASE n = N
      BY <1>2, <1>7, <1>11, <3>1 DEF e
    <3>2. CASE n \in 0 .. N - 1
      <4>1. /\ U[n] = T[n] /\ T[n].called \in Nat /\ T[n + 1].called <= Len(journal)
            /\ T[n + 1] = NextLocal(T[n]) /\ IsLocal(T[n]) /\ T[n].at # Over
        BY <1>5, <1>11, <1>13, <3>2 DEF OnPath, IsLocal
      <4>2. Calls(T[n]) => T[n].called + 1 \in 1 .. Len(journal)
        <5>1. Calls(T[n]) => T[n + 1].called = T[n].called + 1
          BY <4>1, NextIsLocal DEF Uniform
        <5> QED BY <1>5, <4>1, <5>1
      <4>3. Calls(T[n]) => journal[T[n].called + 1] = EntryOf(T[n])
        BY <3>2 DEF OnPath
      <4> QED BY <1>7, <4>1, <4>2, <4>3
    <3> QED BY <1>14, <3>1, <3>2
  <2>7. \A n \in 0 .. M :
          U[n].inside => U[n].called >= 1 /\ journal'[U[n].called] = EntryOf(U[n])
    <3> TAKE n \in 0 .. M
    <3>1. CASE n = M
      <4>1. U[n] = x
        BY <1>11, <3>1
      <4>2. ASSUME x.inside
            PROVE  Calls(T[N]) /\ EntryOf(x) = e
        BY <4>2 DEF x, e, NextLocal, Calls, EntryOf
      <4> QED BY <1>4, <1>5, <1>7, <4>1, <4>2
    <3>2. CASE n \in 0 .. N
      <4>1. U[n] = T[n] /\ T[n].called \in Nat /\ T[n].called <= Len(journal)
        BY <1>2, <1>5, <1>11, <3>2 DEF OnPath, IsLocal
      <4>2. T[n].inside => T[n].called >= 1 /\ journal[T[n].called] = EntryOf(T[n])
        BY <3>2 DEF OnPath
      <4>3. T[n].inside => T[n].called \in 1 .. Len(journal)
        BY <1>5, <4>1, <4>2
      <4> QED BY <1>7, <4>1, <4>2, <4>3
    <3> QED BY <1>12, <3>1, <3>2
  <2>8. /\ (\A n \in 0 .. M : IsLocal(U[n]))'
        /\ (\A n \in 0 .. M - 1 : U[n].at # Over /\ U[n + 1] = NextLocal(U[n]))'
    BY <1>1, <2>1, <2>2, SamePath DEF Over, launch, Closing, M
  <2>9. (\A q \in Ranks : \E n \in 0 .. M : Local(q) = U[n])'
    BY <1>1, <2>4 DEF M
  <2>10. /\ (\A n \in 0 .. M - 1 : Calls(U[n]) => journal[U[n].called + 1] = EntryOf(U[n]))'
         /\ (\A n \in 0 .. M :
               U[n].inside => U[n].called >= 1 /\ journal[U[n].called] = EntryOf(U[n]))'
    BY <1>1, <2>6, <2>7, SamePath DEF M
  <2>11. /\ (\A m, n \in 0 .. M : m <= n => U[m].called <= U[n].called)'
         /\ (U[M].called = Len(journal))'
    BY <2>3, <2>5 DEF M
  <2> QED BY <2>8, <2>9, <2>10, <2>11 DEF OnPath
<1> QED BY <1>7, <1>9, <1>15 DEF M

-----------------------------------------------------------------------------
\* Every nonblocking collective is waited for later in the same iteration,
\* and usage is checked at the start only.
EndsWhatItStarts(ops) ==
  \A p \in 1 .. Len(ops) :
    /\ ops[p].op # "check"
    /\ ops[p].op = "start" =>
         \E w \in p + 1 .. Len(ops) : ops[w].op = "wait" /\ ~ops[w].at_skip

Awaited(b) ==
  /\ \A n \in 1 .. Len(b.start) : b.start[n].op # "start"
  /\ \A n \in 1 .. Len(b.finish) : b.finish[n].op # "start"
  /\ \A k \in 1 .. b.sizes : \A r \in 1 .. b.np : \A s \in 1 .. Len(b.body[k][r]) :
       EndsWhatItStarts(b.body[k][r][s].ops)

SameProgram(b) == Uniform(b) /\ Awaited(b)

\* While a nonblocking collective is active, its MPI_Wait is still to come.
WaitsAt(a, w) == SectionAt(a).ops[w].op = "wait" /\ ~SectionAt(a).ops[w].at_skip

Pending(r) ==
  /\ at[r] # Over
  /\ at[r].size \in 1 .. benchmark.sizes
  /\ request[r] \in 1 .. called[r]
  /\ journal[request[r]].size = at[r].size
  /\ \E w \in at[r].pos .. Len(SectionAt(at[r]).ops) : WaitsAt(at[r], w)

PendingInv == \A r \in Ranks : request[r] # 0 => Pending(r)

\* Before the wait a rank does not leave the iteration.
LEMMA UpToTheWait ==
  ASSUME WellFormed(benchmark), NEW a, IsPlace(a), NEW o,
         NEW w \in a.pos + 1 .. Len(SectionAt(a).ops), ~SectionAt(a).ops[w].at_skip
  PROVE  /\ Then(a, o) # Over
         /\ Then(a, o).size = a.size /\ Then(a, o).seg = a.seg
         /\ Then(a, o).pos \in Nat /\ Then(a, o).pos <= w
<1> DEFINE rest == {p \in Due(SectionAt(a), a.iter, o) : p > a.pos}
<1>1. IsStraight(SectionAt(a).ops) /\ Closing \in Nat
  BY CodeIsStraight, SMTT(30) DEF IsPlace, SectionAt, WellFormed, Closing
<1>2. DOMAIN SectionAt(a).ops = 1 .. Len(SectionAt(a).ops) /\ Len(SectionAt(a).ops) \in Nat
  BY <1>1 DEF IsStraight, IsSequence
<1>3. a.pos \in Nat /\ a.size \in 0 .. Closing
  BY <1>2 DEF IsPlace
<1>4. w \in rest /\ rest \subseteq Nat
  <2>1. w > a.pos /\ w \in DOMAIN SectionAt(a).ops
    BY <1>2, <1>3
  <2>2. rest \subseteq Nat
    BY <1>1, DueInRange
  <2> QED BY <2>1, <2>2 DEF Due
<1>5. Then(a, o) = [a EXCEPT !.pos = Min(rest)]
  BY <1>4 DEF Then
<1> HIDE DEF rest
<1>6. Then(a, o) = [size |-> a.size, seg |-> a.seg, iter |-> a.iter, pos |-> Min(rest)]
  BY <1>5 DEF IsPlace
<1>7. Min(rest) \in Nat /\ Min(rest) <= w
  BY <1>4, MinOf
<1>8. Then(a, o) # Over
  <2>1. Over.size = Closing + 1 /\ Then(a, o).size = a.size
    BY <1>6 DEF Over
  <2> QED BY <1>1, <1>3, <2>1
<1> QED BY <1>6, <1>7, <1>8

\* What a rank executes at a size is in the body of the program.
LEMMA InTheBody ==
  ASSUME SameProgram(benchmark), NEW a, IsPlace(a)
  PROVE  /\ a.size \in 1 .. benchmark.sizes => OpAt(a).op # "check"
         /\ OpAt(a).op = "start" =>
              /\ a.size \in 1 .. benchmark.sizes
              /\ \E w \in a.pos + 1 .. Len(SectionAt(a).ops) : WaitsAt(a, w)
<1>1. benchmark.sizes \in Nat /\ 1 \in 1 .. benchmark.np /\ Closing = benchmark.sizes + 1
  BY DEF SameProgram, Uniform, WellFormed, Closing
<1>2. CASE a.size \in 1 .. benchmark.sizes
  <2>1. CodeOf(a.size) = benchmark.body[a.size][1]
    BY <1>1, <1>2 DEF CodeOf, Code
  <2>2. a.seg \in 1 .. Len(benchmark.body[a.size][1])
        /\ a.pos \in 1 .. Len(benchmark.body[a.size][1][a.seg].ops)
    BY <2>1 DEF IsPlace, SectionAt
  <2>3. /\ OpAt(a) = benchmark.body[a.size][1][a.seg].ops[a.pos]
        /\ SectionAt(a) = benchmark.body[a.size][1][a.seg]
    BY <2>1 DEF OpAt, SectionAt
  <2>4. /\ OpAt(a).op # "check"
        /\ OpAt(a).op = "start" =>
             \E w \in a.pos + 1 .. Len(SectionAt(a).ops) :
               SectionAt(a).ops[w].op = "wait" /\ ~SectionAt(a).ops[w].at_skip
    <3>1. EndsWhatItStarts(SectionAt(a).ops)
      BY <1>1, <1>2, <2>2, <2>3 DEF SameProgram, Awaited
    <3>2. OpAt(a) = SectionAt(a).ops[a.pos] /\ a.pos \in 1 .. Len(SectionAt(a).ops)
      BY <2>2, <2>3
    <3> QED BY <3>1, <3>2 DEF EndsWhatItStarts
  <2> QED BY <1>2, <2>4 DEF WaitsAt
<1>3. CASE a.size = 0
  <2> DEFINE ops == <<Check>> \o benchmark.start
             S == {benchmark.start[n] : n \in 1 .. Len(benchmark.start)} \cup {Check}
  <2>1. CodeOf(0) = <<Once(ops)>>
    BY DEF CodeOf, Code
  <2>2. benchmark.start \in Seq(S) /\ <<Check>> \in Seq(S)
    <3>1. benchmark.start \in Seq({benchmark.start[n] : n \in 1 .. Len(benchmark.start)})
      BY SequenceRange DEF SameProgram, Uniform, WellFormed
    <3> QED BY <3>1
  <2>3. ops \in Seq(S)
    <3> HIDE DEF S
    <3> QED BY <2>2
  <2>4. \A x \in S : x.op # "start"
    <3>1. Check.op = "check"
      BY DEF Check, Do
    <3> QED BY <3>1 DEF SameProgram, Awaited
  <2> HIDE DEF ops, S
  <2>5. SectionAt(a).ops = ops
    BY <1>3, <2>1 DEF IsPlace, SectionAt, Once
  <2>6. OpAt(a) \in S
    BY <2>3, <2>5 DEF IsPlace, OpAt
  <2> QED BY <1>3, <2>4, <2>6
<1>4. CASE a.size = Closing
  <2> DEFINE ops == benchmark.finish \o <<Finalize>>
             S == {benchmark.finish[n] : n \in 1 .. Len(benchmark.finish)} \cup {Finalize}
  <2>1. CodeOf(Closing) = <<Once(ops)>>
    BY <1>1 DEF CodeOf, Code
  <2>2. benchmark.finish \in Seq(S) /\ <<Finalize>> \in Seq(S)
    <3>1. benchmark.finish \in Seq({benchmark.finish[n] : n \in 1 .. Len(benchmark.finish)})
      BY SequenceRange DEF SameProgram, Uniform, WellFormed
    <3> QED BY <3>1
  <2>3. ops \in Seq(S)
    <3> HIDE DEF S
    <3> QED BY <2>2
  <2>4. \A x \in S : x.op # "start"
    <3>1. Finalize.op = "call"
      BY DEF Finalize, Call, Do
    <3> QED BY <3>1 DEF SameProgram, Awaited
  <2> HIDE DEF ops, S
  <2>5. SectionAt(a).ops = ops
    BY <1>4, <2>1 DEF IsPlace, SectionAt, Once
  <2>6. OpAt(a) \in S
    BY <2>3, <2>5 DEF IsPlace, OpAt
  <2> QED BY <1>1, <1>4, <2>4, <2>6
<1> QED BY <1>1, <1>2, <1>3, <1>4 DEF IsPlace

LEMMA SameSections ==
  ASSUME UNCHANGED launch
  PROVE  /\ \A a : SectionAt(a)' = SectionAt(a) /\ OpAt(a)' = OpAt(a)
         /\ \A a, w : WaitsAt(a, w)' = WaitsAt(a, w)
         /\ Over' = Over /\ Ranks' = Ranks /\ SameProgram(benchmark)' = SameProgram(benchmark)
<1>1. benchmark' = benchmark
  BY DEF launch
<1>2. \A k : CodeOf(k)' = CodeOf(k)
  BY <1>1 DEF CodeOf, Code, Closing
<1>3. \A a : SectionAt(a)' = SectionAt(a) /\ OpAt(a)' = OpAt(a)
  BY <1>2 DEF SectionAt, OpAt
<1>4. \A a, w : WaitsAt(a, w)' = WaitsAt(a, w)
  BY <1>3 DEF WaitsAt
<1> QED BY <1>1, <1>3, <1>4 DEF Over, Closing, Ranks

\* A rank that moves on keeps its nonblocking collective until the wait.
LEMMA KeepsWaiting ==
  ASSUME SameProgram(benchmark), NEW r \in Ranks, IsLocal(Local(r)), Advances(r), Kept(r),
         Shapes, Len(journal) \in Nat, called[r] \in 0 .. Len(journal),
         request[r] # 0 => Pending(r), request'[r] # 0
  PROVE  Pending(r)'
<1>1. /\ at[r] # Over /\ IsPlace(at[r]) /\ WellFormed(benchmark)
  BY LocalFields DEF Advances, IsLocal, SameProgram, Uniform
<1> DEFINE a == at[r]
           w0(w) == w \in a.pos + 1 .. Len(SectionAt(a).ops) /\ WaitsAt(a, w)
<1>2. IsStraight(SectionAt(a).ops)
  BY <1>1, CodeIsStraight DEF IsPlace, SectionAt
<1>3. a.pos \in Nat /\ Len(SectionAt(a).ops) \in Nat
  BY <1>1, <1>2 DEF IsPlace, IsStraight, IsSequence
<1>4. /\ at'[r] = NextLocal(Local(r)).at /\ called'[r] = NextLocal(Local(r)).called
  BY DEF Advances, Local
<1>5. /\ NextLocal(Local(r)).at =
           (IF OpAt(a).op = "call" /\ ~inside[r] THEN a
            ELSE IF OpAt(a).op = "check" /\ ~(po_ret = "po_okay" /\ benchmark.fits) THEN Usage
            ELSE Then(a, Chosen(Local(r))))
      /\ NextLocal(Local(r)).called = (IF Calls(Local(r)) THEN called[r] + 1 ELSE called[r])
  BY LocalFields DEF NextLocal
\* There is a wait ahead, for a collective called by now.
<1>6. /\ a.size \in 1 .. benchmark.sizes
      /\ OpAt(a).op # "check"
      /\ request'[r] \in 1 .. called'[r]
      /\ journal'[request'[r]].size = a.size
      /\ \E w : w0(w)
  <2>1. CASE OpAt(a).op = "start" /\ request'[r] = called[r] + 1
    <3>1. Calls(Local(r)) /\ EntryOf(Local(r)).size = a.size
      BY <2>1, LocalFields DEF Calls, EntryOf
    <3>2. journal'[called[r] + 1].size = a.size
      BY <3>1 DEF Kept
    <3>3. called'[r] = called[r] + 1 /\ called[r] \in Nat
      BY <1>4, <1>5, <3>1
    <3>4. a.size \in 1 .. benchmark.sizes /\ OpAt(a).op # "check" /\ \E w : w0(w)
      BY <1>1, <2>1, InTheBody
    <3>5. request'[r] \in 1 .. called'[r]
      BY <2>1, <3>3
    <3> QED BY <2>1, <3>2, <3>4, <3>5
  <2>2. CASE OpAt(a).op # "wait" /\ request'[r] = request[r]
    <3>1. Pending(r)
      BY <2>2
    <3>2. a.size \in 1 .. benchmark.sizes /\ request[r] \in 1 .. called[r]
          /\ journal[request[r]].size = a.size
      BY <3>1 DEF Pending
    <3>3. OpAt(a).op # "check"
      BY <1>1, <3>2, InTheBody
    <3>4. called'[r] \in {called[r], called[r] + 1} /\ called[r] \in Nat
      BY <1>4, <1>5
    <3>5. request[r] \in 1 .. called'[r] /\ request[r] \in 1 .. Len(journal)
      BY <3>2, <3>4
    <3>6. journal'[request[r]].size = a.size
      BY <3>2, <3>5 DEF Kept
    <3>7. PICK w \in a.pos .. Len(SectionAt(a).ops) : WaitsAt(a, w)
      BY <3>1 DEF Pending
    <3>8. w # a.pos
      BY <2>2, <3>7 DEF WaitsAt, OpAt
    <3>9. w \in a.pos + 1 .. Len(SectionAt(a).ops)
      BY <1>3, <3>7, <3>8
    <3> QED BY <2>2, <3>2, <3>3, <3>5, <3>6, <3>7, <3>9
  <2>3. CASE request'[r] = 0
    BY <2>3
  <2>4. \/ OpAt(a).op = "start" /\ request'[r] = called[r] + 1
        \/ OpAt(a).op # "wait" /\ request'[r] = request[r]
        \/ request'[r] = 0
    BY DEF Advances, Requested, Shapes
  <2> QED BY <2>1, <2>2, <2>3, <2>4
<1>7. PICK w : w0(w)
  BY <1>6
\* The rank is still in front of it.
<1>8. /\ at'[r] # Over /\ at'[r].size = a.size /\ at'[r].seg = a.seg
      /\ at'[r].pos \in Nat /\ at'[r].pos <= w
  <2>1. CASE OpAt(a).op = "call" /\ ~inside[r]
    <3>1. at'[r] = a
      BY <1>4, <1>5, <2>1
    <3> QED BY <1>1, <1>3, <1>7, <3>1
  <2>2. CASE ~(OpAt(a).op = "call" /\ ~inside[r])
    <3>1. at'[r] = Then(a, Chosen(Local(r)))
      BY <1>4, <1>5, <1>6, <2>2
    <3>2. w \in a.pos + 1 .. Len(SectionAt(a).ops) /\ ~SectionAt(a).ops[w].at_skip
      BY <1>7 DEF WaitsAt
    <3> QED BY <1>1, <3>1, <3>2, UpToTheWait
  <2> QED BY <2>1, <2>2
<1>9. launch' = launch /\ benchmark' = benchmark
  BY DEF Advances, launch
<1>10. SectionAt(at[r])' = SectionAt(a) /\ WaitsAt(at[r], w)'
  <2>1. PICK b : b = at'[r]
    OBVIOUS
  <2>2. SectionAt(b)' = SectionAt(b)
    BY <1>9, SameSections
  <2>3. SectionAt(b) = SectionAt(a)
    BY <1>8, <2>1 DEF SectionAt
  <2>4. SectionAt(at[r])' = SectionAt(b)'
    BY <2>1
  <2>5. SectionAt(at[r])' = SectionAt(a)
    BY <2>2, <2>3, <2>4
  <2> QED BY <1>7, <2>5 DEF WaitsAt
<1>11. w \in at'[r].pos .. Len(SectionAt(a).ops)
  <2>1. w \in Nat /\ w <= Len(SectionAt(a).ops)
    BY <1>3, <1>7
  <2> QED BY <1>3, <1>8, <2>1
<1>12. Over' = Over
  BY <1>9, SameSections
<1> QED BY <1>6, <1>8, <1>9, <1>10, <1>11, <1>12 DEF Pending

-----------------------------------------------------------------------------
CommonPathInv == SameProgram(benchmark) => PathInv /\ PendingInv

\* All ranks start in the same place, with the same options.
LEMMA StartOnPath ==
  ASSUME WinInit, SameProgram(benchmark)
  PROVE  PathInv /\ PendingInv
<1> USE DEF WinInit, Init
<1> DEFINE start == [size |-> 0, seg |-> 1, iter |-> 0, pos |-> 1]
           local == [at |-> start, options |-> [loop |-> Options.loop, skip |-> Options.skip],
                     inside |-> FALSE, called |-> 0]
<1>1. Shapes
  BY DEF Shapes
<1>2. journal \in Seq({}) /\ Len(journal) = 0
  OBVIOUS
<1>3. \A r \in Ranks : Local(r) = local /\ request[r] = 0
  BY DEF Local
<1>4. IsLocal(local)
  <2>1. WellFormed(benchmark) /\ Closing \in Nat /\ 0 \in 0 .. Closing /\ 0 # Closing + 1
    BY SMTT(30) DEF SameProgram, Uniform, WellFormed, Closing
  <2>2. /\ Len(CodeOf(0)) \in Nat \ {0}
        /\ \A s \in 1 .. Len(CodeOf(0)) : IsStraight(CodeOf(0)[s].ops)
    BY <2>1, CodeIsStraight
  <2>3. 1 \in 1 .. Len(CodeOf(0))
    BY <2>2
  <2>4. 1 \in 1 .. Len(CodeOf(0)[1].ops)
    <3>1. IsStraight(CodeOf(0)[1].ops)
      BY <2>2, <2>3
    <3> QED BY <3>1 DEF IsStraight, IsSequence
  <2>5. IsPlace(start)
    BY <2>1, <2>3, <2>4 DEF IsPlace, SectionAt
  <2>6. start # Over
    BY <2>1 DEF Over
  <2> QED BY <2>5, <2>6 DEF IsLocal
<1>5. PICK T : T = [n \in 0 .. 0 |-> local]
  OBVIOUS
<1>6. T[0] = local /\ local.called = 0 /\ ~local.inside /\ \A n \in 0 .. 0 : n = 0
  BY <1>5
<1>7. \A n \in 0 .. 0 - 1 : FALSE
  OBVIOUS
<1> HIDE DEF local
<1>8. OnPath(0, T)
  <2>1. \A m, n \in 0 .. 0 : m <= n => T[m].called <= T[n].called
    BY <1>6
  <2>2. \A r \in Ranks : \E n \in 0 .. 0 : Local(r) = T[n]
    BY <1>3, <1>6
  <2> QED BY <1>2, <1>4, <1>6, <1>7, <2>1, <2>2 DEF OnPath
<1>9. PathInv
  BY <1>1, <1>2, <1>8 DEF PathInv
<1>10. PendingInv
  BY <1>3 DEF PendingInv
<1> QED BY <1>9, <1>10

\* What the path says of a rank.
LEMMA RankOnPath ==
  ASSUME PathInv, NEW r \in Ranks
  PROVE  /\ IsLocal(Local(r)) /\ Len(journal) \in Nat /\ called[r] \in 0 .. Len(journal)
         /\ inside[r] => journal[called[r]] = EntryOf(Local(r))
<1>1. PICK S : journal \in Seq(S)
  BY DEF PathInv
<1>20. PICK N \in Nat : \E T : OnPath(N, T)
  BY DEF PathInv
<1>2. PICK T : OnPath(N, T)
  BY <1>20
<1>3. PICK n \in 0 .. N : Local(r) = T[n]
  BY <1>2 DEF OnPath
<1>4. IsLocal(T[n])
  BY <1>2 DEF OnPath
<1>5. T[n].called <= T[N].called /\ T[N].called = Len(journal)
  BY <1>2 DEF OnPath
<1>6. T[n].inside => journal[T[n].called] = EntryOf(T[n])
  BY <1>2 DEF OnPath
<1>7. called[r] = T[n].called /\ inside[r] = T[n].inside
  BY <1>3, LocalFields
<1>8. Len(journal) \in Nat
  BY <1>1
<1>9. called[r] \in 0 .. Len(journal)
  BY <1>4, <1>5, <1>7, <1>8 DEF IsLocal
<1> QED BY <1>3, <1>4, <1>6, <1>7, <1>8, <1>9

\* Every step keeps the ranks on one path.
LEMMA StaysOnPath ==
  ASSUME Uniform(benchmark), PathInv, NEW r \in Ranks, Advances(r)
  PROVE  PathInv' /\ Kept(r)
<1>1. PICK S : journal \in Seq(S)
  BY DEF PathInv
<1>20. PICK N \in Nat : \E T : OnPath(N, T)
  BY DEF PathInv
<1>2. PICK T : OnPath(N, T)
  BY <1>20
<1>3. PICK n \in 0 .. N : Local(r) = T[n]
  BY <1>2 DEF OnPath
<1>4. Shapes'
  BY DEF Advances
<1>5. CASE n = N
  <2>1. /\ \E Z : journal' \in Seq(Z)
        /\ \E U : OnPath(N + 1, U)'
        /\ Kept(r)
    BY <1>1, <1>2, <1>3, <1>5, Leads
  <2> QED BY <1>4, <2>1 DEF PathInv
<1>6. CASE n # N
  <2>1. n \in 0 .. N - 1
    BY <1>6
  <2>2. journal' = journal /\ OnPath(N, T)' /\ Kept(r)
    BY <1>1, <1>2, <1>3, <2>1, Follows
  <2> QED BY <1>1, <1>4, <2>2 DEF PathInv
<1> QED BY <1>5, <1>6

LEMMA LaunchStays ==
  ASSUME [WinNext]_<<vars, windows>>
  PROVE  launch' = launch
BY DEF WinNext, Next, Step, CheckUsage, SetOptions, Pass, ReadStart, ReadEnd, AddSample,
     ResetTimer, PostSend, PostRecv, CompleteSends, CompleteRecvs, EnterCollective,
     LeaveCollective, StartCollective, TestCollective, WaitCollective, Deliver, Exit,
     WinStep, Issue, AcquireLock, ReleaseLock, FlushAll, FlushBuffers, PostEpoch,
     StartEpoch, CompleteEpoch, WaitEpoch, KeepTable, KeepAddress, Perform, TakePlace,
     frame, vars

LEMMA CommonPathStep ==
  ASSUME CommonPathInv, [WinNext]_<<vars, windows>>
  PROVE  CommonPathInv'
<1> SUFFICES ASSUME SameProgram(benchmark)'
             PROVE  PathInv' /\ PendingInv'
  BY DEF CommonPathInv
<1>1. launch' = launch
  BY LaunchStays
<1>2. SameProgram(benchmark) /\ Uniform(benchmark) /\ Ranks' = Ranks
  BY <1>1, SameSections DEF SameProgram
<1>3. PathInv /\ PendingInv
  BY <1>2 DEF CommonPathInv
<1>4. \A r \in Ranks : IsLocal(Local(r))
  BY <1>3, RankOnPath
<1>5. Shapes
  BY <1>3 DEF PathInv
<1>6. CASE \E r \in Ranks : Advances(r)
  <2>1. PICK r \in Ranks : Advances(r)
    BY <1>6
  <2>2. PathInv' /\ Kept(r)
    BY <1>2, <1>3, <2>1, StaysOnPath
  <2>3. ASSUME NEW q \in Ranks, request'[q] # 0 PROVE Pending(q)'
    <3>1. CASE q = r
      <4>1. Len(journal) \in Nat /\ called[r] \in 0 .. Len(journal)
        BY <1>3, RankOnPath
      <4>2. request[r] # 0 => Pending(r)
        BY <1>3 DEF PendingInv
      <4> QED BY <1>2, <1>4, <1>5, <2>1, <2>2, <2>3, <3>1, <4>1, <4>2, KeepsWaiting
    <3>2. CASE q # r
      <4>1. Local(q)' = Local(q) /\ request'[q] = request[q]
        BY <1>5, <2>1, <3>2 DEF Advances, Requested, Shapes
      <4>2. at'[q] = at[q] /\ called'[q] = called[q]
        BY <4>1 DEF Local
      <4>3. Pending(q)
        BY <1>3, <2>3, <4>1 DEF PendingInv
      <4>4. Len(journal) \in Nat /\ called[q] \in 0 .. Len(journal)
        BY <1>3, RankOnPath
      <4>5. journal'[request[q]] = journal[request[q]]
        BY <2>2, <4>3, <4>4 DEF Kept, Pending
      <4>6. SectionAt(at[q])' = SectionAt(at[q]) /\ \A w : WaitsAt(at[q], w)' = WaitsAt(at[q], w)
        BY <1>1, <4>2, SameSections
      <4>7. Over' = Over /\ benchmark' = benchmark
        BY <1>1, SameSections DEF launch
      <4> QED BY <4>1, <4>2, <4>3, <4>5, <4>6, <4>7 DEF Pending
    <3> QED BY <3>1, <3>2
  <2> QED BY <1>2, <2>2, <2>3 DEF PendingInv
<1>7. CASE UNCHANGED <<launch, at, inside, options, called, journal, request>>
  <2>1. \A r \in Ranks : Local(r)' = Local(r)
    BY <1>7 DEF Local
  <2>2. PathInv'
    <3>10. PICK N \in Nat : \E T : OnPath(N, T)
      BY <1>3 DEF PathInv
    <3>1. PICK T : OnPath(N, T)
      BY <3>10
    <3>2. OnPath(N, T)'
      BY <1>1, <1>2, <1>7, <2>1, <3>1, SamePath, SameSections DEF OnPath
    <3>3. Shapes'
      BY <1>2, <1>5, <1>7 DEF Shapes
    <3> QED BY <1>3, <1>7, <3>2, <3>3 DEF PathInv
  <2>3. PendingInv'
    <3> SUFFICES ASSUME NEW q \in Ranks, request[q] # 0
                 PROVE  Pending(q)'
      BY <1>2, <1>7 DEF PendingInv
    <3>1. Pending(q)
      BY <1>3 DEF PendingInv
    <3>2. SectionAt(at[q])' = SectionAt(at[q]) /\ \A w : WaitsAt(at[q], w)' = WaitsAt(at[q], w)
      BY <1>1, <1>7, SameSections
    <3>3. Over' = Over /\ benchmark' = benchmark
      BY <1>1, SameSections DEF launch
    <3> QED BY <1>7, <3>1, <3>2, <3>3 DEF Pending
  <2> QED BY <2>2, <2>3
<1> QED BY <1>2, <1>4, <1>5, <1>6, <1>7, Moves

(***************************************************************************)
(* However far apart the ranks are in the loops of a program that is the   *)
(* same for all: whoever is behind will take the steps that the others     *)
(* have taken, and make the collective calls that they have made.          *)
(***************************************************************************)
THEOREM CommonPathInvariance == WinSpec => []CommonPathInv
<1>1. WinInit => CommonPathInv
  BY StartOnPath DEF CommonPathInv
<1>2. CommonPathInv /\ [WinNext]_<<vars, windows>> => CommonPathInv'
  BY CommonPathStep
<1> QED BY <1>1, <1>2, PTL DEF WinSpec

(***************************************************************************)
(* In a program that is the same on every rank, the ranks call the same    *)
(* collectives in the same order for the same message size, however far    *)
(* one gets ahead of the others, and a nonblocking collective is over      *)
(* before the size is.                                                     *)
(***************************************************************************)
THEOREM MatchTheorem == WinSpec => [](SameProgram(benchmark) => CollectivesMatch)
<1>1. CommonPathInv => (SameProgram(benchmark) => CollectivesMatch)
  <2> SUFFICES ASSUME PathInv, PendingInv, SameProgram(benchmark), NEW r \in Ranks
               PROVE  /\ inside[r] => journal[called[r]] = Entry(r)
                      /\ request[r] # 0 => journal[request[r]].size = at[r].size
    BY DEF CommonPathInv, CollectivesMatch
  <2>1. ASSUME inside[r] PROVE journal[called[r]] = Entry(r)
    <3>1. IsLocal(Local(r)) /\ journal[called[r]] = EntryOf(Local(r))
      BY <2>1, RankOnPath
    <3>2. IsPlace(at[r])
      BY <2>1, <3>1, LocalFields DEF IsLocal
    <3>3. Op(r) = OpAt(at[r])
      BY <3>2, AnyRank DEF SameProgram
    <3> QED BY <3>1, <3>3, LocalFields DEF EntryOf, Entry
  <2>2. request[r] # 0 => journal[request[r]].size = at[r].size
    BY DEF PendingInv, Pending
  <2> QED BY <2>1, <2>2
<1> QED BY <1>1, CommonPathInvariance, PTL

-----------------------------------------------------------------------------
(***************************************************************************)
(* The collective benchmarks of the suite.  A size is measured by one or   *)
(* two loops.  Before a loop the options are set, if at all, and the timer *)
(* is reset; in an iteration one collective is timed, blocking or not;     *)
(* after a loop its average is reported.                                   *)
(***************************************************************************)
Unmeasured(o) == ~o.measured /\ ~o.at_skip
IsQuiet(o)    == o.op \in {"call", "touch"} /\ Unmeasured(o)
IsReport(o)   == o.op = "report" /\ Unmeasured(o)

IsSetting(o) ==
  /\ o.op = "options" /\ Unmeasured(o)
  /\ o.set.loop \in (Nat \ {0}) \cup {Keep} /\ o.set.skip \in Nat \cup {Keep}

EndsWithReset(ops) ==
  /\ IsSequence(ops) /\ Len(ops) # 0
  /\ ops[Len(ops)].op = "reset" /\ Unmeasured(ops[Len(ops)])

IsLead(ops) ==
  EndsWithReset(ops) /\ \A p \in 1 .. Len(ops) - 1 : IsQuiet(ops[p]) \/ IsSetting(ops[p])

IsBetween(ops) ==
  EndsWithReset(ops) /\ \A p \in 1 .. Len(ops) - 1 : IsQuiet(ops[p]) \/ IsReport(ops[p])

IsTail(ops) ==
  /\ IsSequence(ops) /\ Len(ops) # 0
  /\ \A p \in 1 .. Len(ops) : IsQuiet(ops[p]) \/ IsReport(ops[p])

\* t_start is read at x, the measured call ends at y, y + 1 is the sample.
IsTimed(ops, x, y) ==
  /\ x < y /\ y + 1 \in 1 .. Len(ops)
  /\ ops[x].op = "t_start" /\ Unmeasured(ops[x])
  /\ ops[y].op \in {"call", "wait"} /\ ops[y].measured /\ ~ops[y].at_skip
  /\ ops[y + 1].op = "sample" /\ Unmeasured(ops[y + 1])
  /\ \A p \in (1 .. Len(ops)) \ {x, y, y + 1} :
       \/ IsQuiet(ops[p])
       \/ x < p /\ p < y /\ ops[p].op = "test" /\ Unmeasured(ops[p])
       \/ x < p /\ p < y /\ ops[p].op = "start" /\ Unmeasured(ops[p]) /\ ops[y].op = "wait"

\* An iteration calls one measured collective, at s, which is over after y.
\* Everything else it calls, and at least the last collective it calls, at l,
\* waits for all the ranks.
Full(kind) == kind \notin {"bcast", "scatter", "reduce", "gather"}

IsApart(ops, s, y, l) ==
  /\ \/ s = y /\ ops[s].op = "call"
     \/ s < y /\ ops[s].op = "start" /\ ops[y].op = "wait"
  /\ y < Len(ops)
  /\ \A p \in 1 .. Len(ops) :
       /\ ops[p].measured => p = y
       /\ s < p /\ p < y => ops[p].op = "test"
       /\ p < s \/ p > y => /\ ops[p].op \notin {"start", "test", "wait"}
                            /\ ops[p].op = "call" => Full(ops[p].kind)
       /\ p > y /\ p > l => ops[p].op # "call"
  /\ \/ l = s /\ Full(ops[s].kind)
     \/ l > y /\ ops[l].op = "call"

IsMeasuring(ops) ==
  /\ IsSequence(ops)
  /\ \E x, y \in 1 .. Len(ops) : IsTimed(ops, x, y)
  /\ \E s, y, l \in 1 .. Len(ops) : IsApart(ops, s, y, l)

HasShape(secs) ==
  /\ Len(secs) \in {3, 5}
  /\ ~secs[1].loop /\ IsLead(secs[1].ops)
  /\ secs[2].loop /\ IsMeasuring(secs[2].ops)
  /\ Len(secs) = 5 => /\ ~secs[3].loop /\ IsBetween(secs[3].ops)
                      /\ secs[4].loop /\ IsMeasuring(secs[4].ops)
  /\ ~secs[Len(secs)].loop /\ IsTail(secs[Len(secs)].ops)

AllQuiet(ops) == IsSequence(ops) /\ \A n \in 1 .. Len(ops) : IsQuiet(ops[n])

IsCollective(b) ==
  /\ b.np \in Nat \ {0} /\ b.sizes \in Nat
  /\ AllQuiet(b.start) /\ AllQuiet(b.finish)
  /\ \A k \in 1 .. b.sizes : \A r \in 1 .. b.np :
       HasShape(b.body[k][r]) /\ b.body[k][r] = b.body[k][1]

LEMMA ShapedSections ==
  ASSUME NEW secs, HasShape(secs), NEW s \in 1 .. Len(secs)
  PROVE  IsStraight(secs[s].ops) /\ EndsWhatItStarts(secs[s].ops)
<1> DEFINE ops == secs[s].ops
<1>1. Len(secs) \in {3, 5} /\ (s \in {1, 2, 3, 4} \/ s = Len(secs))
  BY DEF HasShape
<1>2. IsLead(ops) \/ IsBetween(ops) \/ IsTail(ops) \/ IsMeasuring(ops)
  <2>1. CASE s = Len(secs)
    BY <2>1 DEF HasShape
  <2>2. CASE s # Len(secs) /\ s \in {1, 2}
    BY <2>2 DEF HasShape
  <2>3. CASE s # Len(secs) /\ s \in {3, 4}
    BY <1>1, <2>3 DEF HasShape
  <2> QED BY <1>1, <2>1, <2>2, <2>3
<1> HIDE DEF ops
<1>3. IsSequence(ops)
  BY <1>2 DEF IsLead, IsBetween, EndsWithReset, IsTail, IsMeasuring
<1>4. Len(ops) \in Nat
  BY <1>3 DEF IsSequence
<1>5. ASSUME IsMeasuring(ops) PROVE IsStraight(ops) /\ EndsWhatItStarts(ops)
  <2>1. PICK x, y \in 1 .. Len(ops) : IsTimed(ops, x, y)
    BY <1>5 DEF IsMeasuring
  <2>2. IsStraight(ops)
    BY <1>3, <2>1 DEF IsStraight, IsTimed
  <2>3. ASSUME NEW p \in 1 .. Len(ops)
        PROVE  /\ ops[p].op # "check"
               /\ ops[p].op = "start" =>
                    \E w \in p + 1 .. Len(ops) : ops[w].op = "wait" /\ ~ops[w].at_skip
    <3>1. CASE p \in {x, y, y + 1}
      BY <2>1, <3>1 DEF IsTimed, Unmeasured
    <3>2. CASE p \notin {x, y, y + 1}
      <4>1. \/ IsQuiet(ops[p])
            \/ ops[p].op = "test"
            \/ p < y /\ ops[p].op = "start" /\ ops[y].op = "wait" /\ ~ops[y].at_skip
        BY <2>1, <3>2 DEF IsTimed
      <4>2. p < y => y \in p + 1 .. Len(ops)
        BY <1>4, <2>1
      <4> QED BY <4>1, <4>2 DEF IsQuiet
    <3> QED BY <3>1, <3>2
  <2> QED BY <2>2, <2>3 DEF EndsWhatItStarts
<1>6. ASSUME IsLead(ops) \/ IsBetween(ops)
      PROVE  IsStraight(ops) /\ EndsWhatItStarts(ops)
  <2>1. EndsWithReset(ops)
        /\ \A p \in 1 .. Len(ops) - 1 : IsQuiet(ops[p]) \/ IsSetting(ops[p]) \/ IsReport(ops[p])
    BY <1>6 DEF IsLead, IsBetween
  <2>2. Len(ops) \in 1 .. Len(ops) /\ ~ops[Len(ops)].at_skip /\ ops[Len(ops)].op = "reset"
    BY <1>4, <2>1 DEF EndsWithReset, Unmeasured
  <2>3. \A p \in 1 .. Len(ops) : ops[p].op \notin {"check", "start"}
    <3> TAKE p \in 1 .. Len(ops)
    <3>1. p = Len(ops) \/ p \in 1 .. Len(ops) - 1
      BY <1>4
    <3> QED BY <2>1, <2>2, <3>1 DEF IsQuiet, IsSetting, IsReport
  <2> QED BY <1>3, <2>2, <2>3 DEF IsStraight, EndsWhatItStarts
<1>7. ASSUME IsTail(ops) PROVE IsStraight(ops) /\ EndsWhatItStarts(ops)
  <2>1. 1 \in 1 .. Len(ops) /\ ~ops[1].at_skip
    <3>1. 1 \in 1 .. Len(ops)
      BY <1>4, <1>7 DEF IsTail
    <3> QED BY <1>7, <3>1 DEF IsTail, IsQuiet, IsReport, Unmeasured
  <2>2. \A p \in 1 .. Len(ops) : ops[p].op \notin {"check", "start"}
    BY <1>7 DEF IsTail, IsQuiet, IsReport
  <2> QED BY <1>3, <2>1, <2>2 DEF IsStraight, EndsWhatItStarts
<1> QED BY <1>2, <1>5, <1>6, <1>7 DEF ops

LEMMA CollectiveIsSame ==
  ASSUME NEW b, IsCollective(b)
  PROVE  SameProgram(b)
<1>1. \A k \in 1 .. b.sizes : \A r \in 1 .. b.np :
        /\ Len(b.body[k][r]) \in Nat \ {0}
        /\ \A s \in 1 .. Len(b.body[k][r]) :
             IsStraight(b.body[k][r][s].ops) /\ EndsWhatItStarts(b.body[k][r][s].ops)
  <2> TAKE k \in 1 .. b.sizes
  <2> TAKE r \in 1 .. b.np
  <2>1. HasShape(b.body[k][r])
    BY DEF IsCollective
  <2>2. Len(b.body[k][r]) \in Nat \ {0}
    BY <2>1 DEF HasShape
  <2> QED BY <2>1, <2>2, ShapedSections
<1>2. \A n \in 1 .. Len(b.start) : b.start[n].op # "start"
  BY DEF IsCollective, AllQuiet, IsQuiet
<1>3. \A n \in 1 .. Len(b.finish) : b.finish[n].op # "start"
  BY DEF IsCollective, AllQuiet, IsQuiet
<1>4. WellFormed(b)
  BY <1>1 DEF WellFormed, IsCollective, AllQuiet
<1>5. Uniform(b)
  BY <1>4 DEF Uniform, IsCollective
<1>6. Awaited(b)
  BY <1>1, <1>2, <1>3 DEF Awaited
<1> QED BY <1>5, <1>6 DEF SameProgram

-----------------------------------------------------------------------------
\* What a step of rank r does to its timing.
CollectiveOps == {"check", "options", "call", "touch", "report", "t_start", "sample", "reset",
                  "start", "test", "wait"}

Cost(r) ==
  LET o == OpAt(at[r])
  IN  IF o.measured /\ (o.op = "wait" \/ (o.op = "call" /\ inside[r])) THEN 1 ELSE 0

Times(r) ==
  LET o == OpAt(at[r])
  IN  /\ clock'[r] = clock[r] + Cost(r)
      /\ t_start'[r] = IF o.op = "t_start" THEN clock[r] ELSE t_start[r]
      /\ timer'[r] = IF o.op = "reset" THEN 0
                     ELSE IF o.op = "sample"
                     THEN timer[r] + (IF at[r].iter >= options[r].skip
                                      THEN clock[r] - t_start[r] ELSE 0)
                     ELSE timer[r]
      /\ \A q \in Ranks \ {r} :
           clock'[q] = clock[q] /\ t_start'[q] = t_start[q] /\ timer'[q] = timer[q]
      /\ DOMAIN clock' = Ranks /\ DOMAIN t_start' = Ranks /\ DOMAIN timer' = Ranks

TimingShapes == DOMAIN clock = Ranks /\ DOMAIN t_start = Ranks /\ DOMAIN timer = Ranks

\* The statements that leave the timing alone.
LEMMA NoTiming ==
  ASSUME NEW r \in Ranks, TimingShapes, UNCHANGED timing, clock[r] \in Nat,
         OpAt(at[r]).op \notin {"t_start", "sample", "reset"}, Cost(r) = 0
  PROVE  Times(r)
<1>1. clock' = clock /\ t_start' = t_start /\ timer' = timer
  BY DEF timing
<1>2. clock'[r] = clock[r] + Cost(r)
  BY <1>1
<1> QED BY <1>1, <1>2 DEF Times, TimingShapes

\* The calls that may be measured.
LEMMA TickTimes ==
  ASSUME NEW r \in Ranks, TimingShapes, UNCHANGED <<t_start, timer>>, Tick(r), clock[r] \in Nat,
         Op(r) = OpAt(at[r]), OpAt(at[r]).op = "wait" \/ (OpAt(at[r]).op = "call" /\ inside[r])
  PROVE  Times(r)
<1>1. clock' = [clock EXCEPT ![r] = clock[r] + Cost(r)]
  BY DEF Tick, Cost
<1>2. clock'[r] = clock[r] + Cost(r) /\ DOMAIN clock' = Ranks
      /\ \A q \in Ranks \ {r} : clock'[q] = clock[q]
  BY <1>1 DEF TimingShapes
<1> QED BY <1>2 DEF Times, TimingShapes

LEMMA TimesOf ==
  ASSUME Uniform(benchmark), NEW r \in Ranks, IsLocal(Local(r)), TimingShapes, clock[r] \in Nat,
         at[r] # Over, OpAt(at[r]).op \in CollectiveOps, Step(r)
  PROVE  Times(r)
<1>1. IsPlace(at[r]) /\ Op(r) = OpAt(at[r])
  BY AnyRank, LocalFields DEF IsLocal
<1>2. CASE CheckUsage(r) \/ SetOptions(r) \/ Pass(r) \/ StartCollective(r) \/ TestCollective(r)
  <2>1. OpAt(at[r]).op \in {"check", "options", "touch", "report", "start", "test"}
    BY <1>1, <1>2 DEF CheckUsage, SetOptions, Pass, StartCollective, TestCollective, At
  <2>2. UNCHANGED timing
    BY <1>2 DEF CheckUsage, SetOptions, Pass, StartCollective, TestCollective
  <2>3. Cost(r) = 0
    BY <2>1 DEF Cost
  <2> QED BY <2>1, <2>2, <2>3, NoTiming
<1>3. CASE ReadStart(r)
  <2>1. /\ OpAt(at[r]).op = "t_start" /\ t_start' = [t_start EXCEPT ![r] = clock[r]]
        /\ UNCHANGED <<clock, timer>>
    BY <1>1, <1>3 DEF ReadStart, At
  <2>2. Cost(r) = 0
    BY <2>1 DEF Cost
  <2> QED BY <2>1, <2>2 DEF Times, TimingShapes
<1>4. CASE AddSample(r)
  <2> DEFINE added == IF at[r].iter >= options[r].skip THEN clock[r] - t_start[r] ELSE 0
  <2>1. /\ OpAt(at[r]).op = "sample" /\ timer' = [timer EXCEPT ![r] = timer[r] + added]
        /\ UNCHANGED <<clock, t_start>>
    BY <1>1, <1>4 DEF AddSample, At
  <2>2. Cost(r) = 0
    BY <2>1 DEF Cost
  <2>3. timer'[r] = timer[r] + added /\ DOMAIN timer' = Ranks
        /\ \A q \in Ranks \ {r} : timer'[q] = timer[q]
    BY <2>1 DEF TimingShapes
  <2> QED BY <2>1, <2>2, <2>3 DEF Times, TimingShapes
<1>5. CASE ResetTimer(r)
  <2>1. /\ OpAt(at[r]).op = "reset" /\ timer' = [timer EXCEPT ![r] = 0]
        /\ UNCHANGED <<clock, t_start>>
    BY <1>1, <1>5 DEF ResetTimer, At
  <2>2. Cost(r) = 0
    BY <2>1 DEF Cost
  <2> QED BY <2>1, <2>2 DEF Times, TimingShapes
<1>6. CASE EnterCollective(r)
  <2>1. OpAt(at[r]).op = "call" /\ ~inside[r] /\ UNCHANGED timing
    BY <1>1, <1>6 DEF EnterCollective, At
  <2>2. Cost(r) = 0
    BY <2>1 DEF Cost
  <2> QED BY <2>1, <2>2, NoTiming
<1>7. CASE LeaveCollective(r)
  <2>1. OpAt(at[r]).op = "call" /\ inside[r] /\ Tick(r) /\ UNCHANGED <<t_start, timer>>
    BY <1>1, <1>7 DEF LeaveCollective, At
  <2> QED BY <1>1, <2>1, TickTimes
<1>8. CASE WaitCollective(r)
  <2>1. OpAt(at[r]).op = "wait" /\ Tick(r) /\ UNCHANGED <<t_start, timer>>
    BY <1>1, <1>8 DEF WaitCollective, At
  <2> QED BY <1>1, <2>1, TickTimes
<1>9. CASE ReadEnd(r) \/ PostSend(r) \/ PostRecv(r) \/ CompleteSends(r) \/ CompleteRecvs(r)
  BY <1>1, <1>9 DEF ReadEnd, PostSend, PostRecv, CompleteSends, CompleteRecvs, At, CollectiveOps
<1> QED BY <1>2, <1>3, <1>4, <1>5, <1>6, <1>7, <1>8, <1>9 DEF Step

\* A rank in a collective benchmark performs none of the other operations.
LEMMA NoWindows ==
  ASSUME Uniform(benchmark), NEW r \in Ranks, IsLocal(Local(r)),
         at[r] # Over => OpAt(at[r]).op \in CollectiveOps
  PROVE  ~WinStep(r)
<1> DEFINE Windows == {"access", "lock", "unlock", "flush", "flush_local", "post", "start_epoch",
                       "complete", "win_wait", "table", "address"}
<1>1. SUFFICES ASSUME WinStep(r) PROVE FALSE
  OBVIOUS
<1>2. PICK op \in Windows : Perform(r, op)
  BY <1>1 DEF WinStep, Issue, AcquireLock, ReleaseLock, FlushAll, FlushBuffers, PostEpoch,
              StartEpoch, CompleteEpoch, WaitEpoch, KeepTable, KeepAddress
<1>3. at[r] # Over /\ OpAt(at[r]).op = op
  BY <1>2, OpOf DEF Perform
<1> QED BY <1>3 DEF CollectiveOps

-----------------------------------------------------------------------------
InBody(a) == a # Over /\ a.size \in 1 .. benchmark.sizes

\* The kind of section a rank is in.
LEMMA SectionKind ==
  ASSUME IsCollective(benchmark), NEW a, IsPlace(a), InBody(a)
  PROVE  /\ HasShape(CodeOf(a.size)) /\ a.seg \in 1 .. Len(CodeOf(a.size))
         /\ \/ a.seg = 1 /\ ~SectionAt(a).loop /\ IsLead(SectionAt(a).ops)
            \/ /\ a.seg \in {2, 4} /\ a.seg < Len(CodeOf(a.size))
               /\ SectionAt(a).loop /\ IsMeasuring(SectionAt(a).ops)
            \/ /\ a.seg = 3 /\ a.seg < Len(CodeOf(a.size))
               /\ ~SectionAt(a).loop /\ IsBetween(SectionAt(a).ops)
            \/ /\ a.seg \in {3, 5} /\ a.seg = Len(CodeOf(a.size))
               /\ ~SectionAt(a).loop /\ IsTail(SectionAt(a).ops)
<1> DEFINE secs == CodeOf(a.size)
<1>1. 1 \in 1 .. benchmark.np /\ a.size # 0 /\ a.size # Closing
  BY DEF IsCollective, InBody, Closing
<1>2. secs = benchmark.body[a.size][1]
  BY <1>1 DEF CodeOf, Code
<1>3. HasShape(secs) /\ a.seg \in 1 .. Len(secs)
  BY <1>1, <1>2 DEF IsCollective, InBody, IsPlace
<1>4. SectionAt(a) = secs[a.seg]
  BY DEF SectionAt
<1> HIDE DEF secs
<1>5. \/ Len(secs) = 3 /\ a.seg \in {1, 2, 3}
      \/ Len(secs) = 5 /\ a.seg \in {1, 2, 3, 4, 5}
  <2>1. CASE Len(secs) = 3
    BY <1>3, <2>1
  <2>2. CASE Len(secs) = 5
    BY <1>3, <2>2
  <2> QED BY <1>3, <2>1, <2>2 DEF HasShape
<1>6. CASE a.seg = 1
  <2>1. ~SectionAt(a).loop /\ IsLead(SectionAt(a).ops)
    BY <1>3, <1>4, <1>6 DEF HasShape
  <2> QED BY <1>3, <1>6, <2>1 DEF secs
<1>7. CASE a.seg = 2
  <2>0. a.seg < Len(secs)
    BY <1>5, <1>7, SMTT(30)
  <2>1. a.seg < Len(secs) /\ SectionAt(a) = secs[2]
    BY <1>4, <1>7, <2>0
  <2>2. SectionAt(a).loop /\ IsMeasuring(SectionAt(a).ops)
    BY <1>3, <2>1 DEF HasShape
  <2> QED BY <1>3, <1>7, <2>1, <2>2 DEF secs
<1>8. CASE a.seg = 3 /\ Len(secs) = 5
  <2>1. a.seg < Len(secs) /\ SectionAt(a) = secs[3]
    BY <1>4, <1>8
  <2>2. ~SectionAt(a).loop /\ IsBetween(SectionAt(a).ops)
    BY <1>3, <1>8, <2>1 DEF HasShape
  <2> QED BY <1>3, <1>8, <2>1, <2>2 DEF secs
<1>9. CASE a.seg = 4
  <2>1. Len(secs) = 5
    BY <1>5, <1>9
  <2> QED BY <1>3, <1>4, <1>9, <2>1 DEF HasShape, secs
<1>10. CASE a.seg = Len(secs)
  <2>1. a.seg \in {3, 5} /\ SectionAt(a) = secs[Len(secs)]
    BY <1>4, <1>5, <1>10
  <2>2. ~SectionAt(a).loop /\ IsTail(SectionAt(a).ops)
    BY <1>3, <2>1 DEF HasShape
  <2> QED BY <1>3, <1>10, <2>1, <2>2 DEF secs
<1>11. a.seg = 5 => Len(secs) = 5
  BY <1>5
<1> QED BY <1>3, <1>5, <1>6, <1>7, <1>8, <1>9, <1>10, <1>11 DEF secs

\* Nothing in these programs is guarded by if (i == options.skip).
Unguarded(ops) == \A p \in 1 .. Len(ops) : ~ops[p].at_skip

LEMMA ShapesUnguarded ==
  ASSUME NEW ops, IsLead(ops) \/ IsBetween(ops) \/ IsTail(ops) \/ IsMeasuring(ops)
  PROVE  IsSequence(ops) /\ Len(ops) # 0 /\ Len(ops) \in Nat /\ Unguarded(ops)
<1>1. IsSequence(ops)
  BY DEF IsLead, IsBetween, EndsWithReset, IsTail, IsMeasuring
<1>2. Len(ops) \in Nat
  BY <1>1 DEF IsSequence
<1>3. CASE IsLead(ops) \/ IsBetween(ops)
  <2>1. \A p \in 1 .. Len(ops) : p = Len(ops) \/ p \in 1 .. Len(ops) - 1
    BY <1>2
  <2> QED BY <1>1, <1>2, <1>3, <2>1
          DEF IsLead, IsBetween, EndsWithReset, IsQuiet, IsSetting, IsReport, Unmeasured, Unguarded
<1>4. CASE IsTail(ops)
  BY <1>1, <1>2, <1>4 DEF IsTail, IsQuiet, IsReport, Unmeasured, Unguarded
<1>5. CASE IsMeasuring(ops)
  <2>1. PICK x, y \in 1 .. Len(ops) : IsTimed(ops, x, y)
    BY <1>5 DEF IsMeasuring
  <2>2. \A p \in 1 .. Len(ops) : ~ops[p].at_skip
    BY <2>1 DEF IsTimed, IsQuiet, Unmeasured
  <2>3. Len(ops) # 0
    BY <1>2, <2>1
  <2> QED BY <1>1, <1>2, <2>2, <2>3 DEF Unguarded
<1> QED BY <1>3, <1>4, <1>5

\* The statements of such a section are executed one after the other.
LEMMA DueUnguarded ==
  ASSUME NEW section, IsSequence(section.ops), Unguarded(section.ops), NEW i, NEW o
  PROVE  Due(section, i, o) = 1 .. Len(section.ops)
<1>1. DOMAIN section.ops = 1 .. Len(section.ops)
  BY DEF IsSequence
<1> QED BY <1>1 DEF Due, Unguarded

LEMMA FirstOf ==
  ASSUME NEW m \in Nat, NEW n \in Nat, m < n
  PROVE  /\ {p \in 1 .. n : p > m} # {}
         /\ Min({p \in 1 .. n : p > m}) = m + 1
<1> DEFINE T == {p \in 1 .. n : p > m}
<1>1. m + 1 \in T /\ T \subseteq Nat /\ \A p \in T : m + 1 <= p
  OBVIOUS
<1>2. Min(T) \in T /\ \A p \in T : Min(T) <= p
  <2> HIDE DEF T
  <2> QED BY <1>1, MinOf
<1>3. Min(T) = m + 1
  <2>1. Min(T) <= m + 1 /\ m + 1 <= Min(T) /\ Min(T) \in Nat
    <3> HIDE DEF T
    <3> QED BY <1>1, <1>2
  <2> HIDE DEF T
  <2> QED BY <2>1
<1> QED BY <1>1, <1>3

LEMMA FirstOfAll ==
  ASSUME NEW n \in Nat \ {0}
  PROVE  Min(1 .. n) = 1
<1>1. 1 \in 1 .. n /\ 1 .. n \subseteq Nat /\ \A p \in 1 .. n : 1 <= p
  OBVIOUS
<1>2. Min(1 .. n) \in 1 .. n /\ Min(1 .. n) <= 1
  BY <1>1, MinOf
<1> QED BY <1>2

Place(k, s, i, p) == [size |-> k, seg |-> s, iter |-> i, pos |-> p]

LEMMA NextPlace ==
  ASSUME IsCollective(benchmark), NEW a, IsPlace(a), InBody(a), NEW o
  PROVE  LET ops == SectionAt(a).ops
         IN  /\ a.pos < Len(ops) => Then(a, o) = Place(a.size, a.seg, a.iter, a.pos + 1)
             /\ a.pos = Len(ops) =>
                  IF SectionAt(a).loop /\ a.iter + 1 < Trips(o)
                  THEN Then(a, o) = Place(a.size, a.seg, a.iter + 1, 1)
                  ELSE IF a.seg < Len(CodeOf(a.size))
                  THEN Then(a, o) = Place(a.size, a.seg + 1, 0, 1)
                  ELSE Then(a, o).seg = 1 /\ Then(a, o).size = a.size + 1
<1> DEFINE ops == SectionAt(a).ops
           rest == {p \in Due(SectionAt(a), a.iter, o) : p > a.pos}
           Begin(k, s, i) == [size |-> k, seg |-> s, iter |-> i,
                              pos |-> Min(Due(CodeOf(k)[s], i, o))]
           Skip(p) == [a EXCEPT !.pos = p]
<1>1. Then(a, o) =
        IF rest # {} THEN Skip(Min(rest))
        ELSE IF SectionAt(a).loop /\ a.iter + 1 < Trips(o)
             THEN Begin(a.size, a.seg, a.iter + 1)
        ELSE IF a.seg < Len(CodeOf(a.size)) THEN Begin(a.size, a.seg + 1, 0)
        ELSE IF a.size < Closing THEN Begin(a.size + 1, 1, 0)
        ELSE Over
  BY Zenon DEF Then
<1>2. IsSequence(ops) /\ Len(ops) \in Nat \ {0} /\ Unguarded(ops)
  BY SectionKind, ShapesUnguarded
<1>3. a.pos \in 1 .. Len(ops)
  BY DEF IsPlace
<1>4. rest = {p \in 1 .. Len(ops) : p > a.pos}
  BY <1>2, DueUnguarded
<1>5. \A p : Skip(p) = Place(a.size, a.seg, a.iter, p)
  BY DEF IsPlace, Place
\* The first statement of a section.
<1>6. ASSUME NEW s \in 1 .. Len(CodeOf(a.size)), NEW i
      PROVE  Begin(a.size, s, i) = Place(a.size, s, i, 1)
  <2> DEFINE b == Place(a.size, s, i, 1)
             section == CodeOf(a.size)[s]
  <2>1. HasShape(CodeOf(a.size))
    BY SectionKind
  <2>2. IsLead(section.ops) \/ IsBetween(section.ops) \/ IsTail(section.ops) \/ IsMeasuring(section.ops)
    <3>1. Len(CodeOf(a.size)) \in {3, 5} /\ (s \in {1, 2, 3, 4} \/ s = Len(CodeOf(a.size)))
      BY <2>1 DEF HasShape
    <3>2. CASE s = Len(CodeOf(a.size))
      BY <2>1, <3>2 DEF HasShape
    <3>3. CASE s # Len(CodeOf(a.size)) /\ s \in {1, 2}
      BY <2>1, <3>3 DEF HasShape
    <3>4. CASE s # Len(CodeOf(a.size)) /\ s \in {3, 4}
      BY <2>1, <3>1, <3>4 DEF HasShape
    <3> QED BY <3>1, <3>2, <3>3, <3>4
  <2>3. IsSequence(section.ops) /\ Len(section.ops) \in Nat \ {0} /\ Unguarded(section.ops)
    BY <2>2, ShapesUnguarded
  <2>4. Due(section, i, o) = 1 .. Len(section.ops)
    BY <2>3, DueUnguarded
  <2>5. Min(Due(section, i, o)) = 1
    BY <2>3, <2>4, FirstOfAll
  <2> QED BY <2>5 DEF Place
<1> HIDE DEF ops, rest, Begin, Skip
<1>7. CASE a.pos < Len(ops)
  <2>1. rest # {} /\ Min(rest) = a.pos + 1
    BY <1>2, <1>3, <1>4, <1>7, FirstOf
  <2>2. Then(a, o) = Place(a.size, a.seg, a.iter, a.pos + 1)
    BY <1>1, <1>5, <2>1
  <2> QED BY <1>2, <1>3, <1>7, <2>2 DEF ops
<1>8. CASE a.pos = Len(ops)
  <2>1. rest = {}
    BY <1>2, <1>3, <1>4, <1>8
  <2>2. a.seg \in 1 .. Len(CodeOf(a.size)) /\ Len(CodeOf(a.size)) \in {3, 5}
    BY SectionKind DEF HasShape
  <2>3. a.size < Closing
    BY DEF InBody, Closing, IsCollective
  <2>4. CASE SectionAt(a).loop /\ a.iter + 1 < Trips(o)
    BY <1>1, <1>6, <1>8, <2>1, <2>2, <2>4 DEF ops
  <2>5. CASE ~(SectionAt(a).loop /\ a.iter + 1 < Trips(o)) /\ a.seg < Len(CodeOf(a.size))
    <3>1. a.seg + 1 \in 1 .. Len(CodeOf(a.size))
      BY <2>2, <2>5
    <3>2. Then(a, o) = Begin(a.size, a.seg + 1, 0)
      BY <1>1, <2>1, <2>5
    <3> QED BY <1>6, <1>8, <2>5, <3>1, <3>2 DEF ops
  <2>6. CASE ~(SectionAt(a).loop /\ a.iter + 1 < Trips(o)) /\ ~(a.seg < Len(CodeOf(a.size)))
    <3>1. Then(a, o) = Begin(a.size + 1, 1, 0)
      BY <1>1, <2>1, <2>3, <2>6
    <3> QED BY <1>8, <2>6, <3>1 DEF ops, Begin
  <2> QED BY <2>4, <2>5, <2>6
<1> QED BY <1>3, <1>7, <1>8 DEF ops

-----------------------------------------------------------------------------
\* After n iterations of a loop the timer covers those that are not skipped.
Counted(n, o) == IF n > o.skip THEN n - o.skip ELSE 0

\* The timer and the clock in place a of section sec, with options o.
RightIn(sec, a, o, c, t, m) ==
  IF sec.loop
  THEN /\ a.iter < Trips(o)
       /\ \A x, y \in 1 .. Len(sec.ops) : IsTimed(sec.ops, x, y) =>
            /\ m = Counted(IF a.pos <= y + 1 THEN a.iter ELSE a.iter + 1, o)
            /\ x < a.pos /\ a.pos <= y => c = t
            /\ a.pos = y + 1 => c = t + 1
  ELSE a.seg # 1 => m = o.loop

TimerRight(a, o, c, t, m) == RightIn(SectionAt(a), a, o, c, t, m)

OptionsRight(o) == o.loop \in Nat \ {0} /\ o.skip \in Nat

\* A loop begins with the timer reset.
LEMMA LoopBegins ==
  ASSUME NEW a, NEW o, OptionsRight(o), NEW c, NEW t,
         SectionAt(a).loop, a.iter = 0, a.pos = 1, IsSequence(SectionAt(a).ops)
  PROVE  TimerRight(a, o, c, t, 0)
<1>1. 0 < Trips(o)
  BY DEF Trips, OptionsRight
<1>2. Len(SectionAt(a).ops) \in Nat
  BY DEF IsSequence
<1>3. Counted(0, o) = 0
  BY DEF Counted, OptionsRight
<1>4. \A x, y \in 1 .. Len(SectionAt(a).ops) : 1 <= y + 1 /\ ~(x < 1) /\ 1 # y + 1
  BY <1>2
<1> QED BY <1>1, <1>3, <1>4 DEF TimerRight, RightIn

\* A size begins with its first section.
LEMMA NewSize ==
  ASSUME WellFormed(benchmark), NEW a, IsPlace(a), NEW o, Then(a, o).size # a.size
  PROVE  Then(a, o) = Over \/ Then(a, o).seg = 1
<1> DEFINE rest == {p \in Due(SectionAt(a), a.iter, o) : p > a.pos}
           Begin(k, s, i) == [size |-> k, seg |-> s, iter |-> i,
                              pos |-> Min(Due(CodeOf(k)[s], i, o))]
           Skip(p) == [a EXCEPT !.pos = p]
<1>1. Then(a, o) =
        IF rest # {} THEN Skip(Min(rest))
        ELSE IF SectionAt(a).loop /\ a.iter + 1 < Trips(o)
             THEN Begin(a.size, a.seg, a.iter + 1)
        ELSE IF a.seg < Len(CodeOf(a.size)) THEN Begin(a.size, a.seg + 1, 0)
        ELSE IF a.size < Closing THEN Begin(a.size + 1, 1, 0)
        ELSE Over
  BY Zenon DEF Then
<1>2. \A p : Skip(p).size = a.size
  BY DEF IsPlace
<1>3. \A k, s, i : Begin(k, s, i).size = k /\ Begin(k, s, i).seg = s
  OBVIOUS
<1> HIDE DEF rest, Begin, Skip
<1> QED BY <1>1, <1>2, <1>3

\* The values after the statement of a rank in place a, inside a collective
\* or not.
NextOptions(a, o) ==
  IF OpAt(a).op = "options"
  THEN [loop |-> IF OpAt(a).set.loop = Keep THEN o.loop ELSE OpAt(a).set.loop,
        skip |-> IF OpAt(a).set.skip = Keep THEN o.skip ELSE OpAt(a).set.skip]
  ELSE o
NextClock(a, c, ins) ==
  c + (IF OpAt(a).measured /\ (OpAt(a).op = "wait" \/ (OpAt(a).op = "call" /\ ins)) THEN 1 ELSE 0)
NextStart(a, c, t) == IF OpAt(a).op = "t_start" THEN c ELSE t
NextTimer(a, o, c, t, m) ==
  IF OpAt(a).op = "reset" THEN 0
  ELSE IF OpAt(a).op = "sample" THEN m + (IF a.iter >= o.skip THEN c - t ELSE 0)
  ELSE m

\* What one statement of a loop does to the timer, in terms of x and y.
LEMMA OneStatement ==
  ASSUME NEW a, IsSequence(SectionAt(a).ops), a.pos \in 1 .. Len(SectionAt(a).ops), a.iter \in Nat,
         NEW x \in 1 .. Len(SectionAt(a).ops), NEW y \in 1 .. Len(SectionAt(a).ops),
         IsTimed(SectionAt(a).ops, x, y), NEW o, OptionsRight(o),
         NEW ins \in BOOLEAN, ~(OpAt(a).op = "call" /\ ~ins),
         NEW c \in Nat, NEW t \in Nat, NEW m \in Nat,
         m = Counted(IF a.pos <= y + 1 THEN a.iter ELSE a.iter + 1, o),
         x < a.pos /\ a.pos <= y => c = t,
         a.pos = y + 1 => c = t + 1
  PROVE  /\ NextTimer(a, o, c, t, m) = Counted(IF a.pos + 1 <= y + 1 THEN a.iter ELSE a.iter + 1, o)
         /\ x < a.pos + 1 /\ a.pos + 1 <= y => NextClock(a, c, ins) = NextStart(a, c, t)
         /\ a.pos + 1 = y + 1 => NextClock(a, c, ins) = NextStart(a, c, t) + 1
         /\ NextTimer(a, o, c, t, m) \in Nat
         /\ OpAt(a).op # "options"
<1> DEFINE ops == SectionAt(a).ops
           p == a.pos
           i == a.iter
           c2 == NextClock(a, c, ins)
           t2 == NextStart(a, c, t)
           m2 == NextTimer(a, o, c, t, m)
<1>0. /\ c2 = c + (IF ops[p].measured /\ (ops[p].op = "wait" \/ (ops[p].op = "call" /\ ins))
                   THEN 1 ELSE 0)
      /\ t2 = (IF ops[p].op = "t_start" THEN c ELSE t)
      /\ m2 = (IF ops[p].op = "reset" THEN 0
               ELSE IF ops[p].op = "sample" THEN m + (IF i >= o.skip THEN c - t ELSE 0)
               ELSE m)
      /\ OpAt(a) = ops[p]
  BY DEF NextClock, NextStart, NextTimer, OpAt
<1> HIDE DEF c2, t2, m2
<1>1. Len(ops) \in Nat
  BY DEF IsSequence
<1>2. CASE p = x
  <2>1. ops[p].op = "t_start" /\ ~ops[p].measured /\ x < y
    BY <1>2 DEF IsTimed, Unmeasured
  <2>2. c2 = c /\ t2 = c /\ m2 = m
    BY <1>0, <2>1
  <2>3. p <= y + 1 /\ p + 1 <= y + 1 /\ p + 1 # y + 1
    BY <1>1, <1>2, <2>1
  <2> QED BY <1>0, <2>1, <2>2, <2>3 DEF c2, t2, m2
<1>3. CASE p = y
  <2>1. ops[p].op \in {"call", "wait"} /\ ops[p].measured /\ x < y
    BY <1>3 DEF IsTimed
  <2>2. ops[p].op = "wait" \/ (ops[p].op = "call" /\ ins)
    BY <1>0, <2>1
  <2>3. c2 = c + 1 /\ t2 = t /\ m2 = m
    BY <1>0, <2>1, <2>2
  <2>4. c = t /\ p <= y + 1 /\ p + 1 <= y + 1 /\ ~(p + 1 <= y)
    BY <1>1, <1>3, <2>1
  <2> QED BY <1>0, <2>1, <2>3, <2>4 DEF c2, t2, m2
<1>4. CASE p = y + 1
  <2>1. ops[p].op = "sample" /\ ~ops[p].measured
    BY <1>4 DEF IsTimed, Unmeasured
  <2>2. c2 = c /\ t2 = t /\ m2 = m + (IF i >= o.skip THEN 1 ELSE 0)
    <3>1. c - t = 1
      BY <1>4
    <3> QED BY <1>0, <2>1, <3>1
  <2>3. m = Counted(i, o) /\ ~(p + 1 <= y + 1) /\ ~(p + 1 <= y) /\ p + 1 # y + 1
    BY <1>1, <1>4
  <2>4. Counted(i, o) + (IF i >= o.skip THEN 1 ELSE 0) = Counted(i + 1, o)
        /\ Counted(i + 1, o) \in Nat
    <3>1. o.skip \in Nat
      BY DEF OptionsRight
    <3>2. CASE i >= o.skip
      <4>1. Counted(i + 1, o) = i + 1 - o.skip /\ Counted(i, o) + 1 = i + 1 - o.skip
        BY <3>1, <3>2, SMTT(30) DEF Counted
      <4> QED BY <3>1, <3>2, <4>1
    <3>3. CASE ~(i >= o.skip)
      <4>1. Counted(i + 1, o) = 0 /\ Counted(i, o) = 0
        BY <3>1, <3>3 DEF Counted
      <4> QED BY <3>3, <4>1
    <3> QED BY <3>2, <3>3
  <2> QED BY <1>0, <2>1, <2>2, <2>3, <2>4 DEF c2, t2, m2
<1>5. CASE p \notin {x, y, y + 1}
  <2>1. /\ ops[p].op \in {"call", "touch", "test", "start"} /\ ~ops[p].measured
    BY <1>5 DEF IsTimed, IsQuiet, Unmeasured
  <2>2. c2 = c /\ t2 = t /\ m2 = m
    BY <1>0, <2>1, SMTT(30)
  <2>3. /\ (p <= y + 1) = (p + 1 <= y + 1)
        /\ x < p + 1 /\ p + 1 <= y => x < p /\ p <= y
        /\ p + 1 # y + 1
    BY <1>1, <1>5
  <2> QED BY <1>0, <2>1, <2>2, <2>3 DEF c2, t2, m2
<1> QED BY <1>2, <1>3, <1>4, <1>5

\* The statements outside the sizes, and the first section of a size, set
\* the options to sensible values and do not touch the timer but to reset it.
LEMMA LeadStatement ==
  ASSUME NEW ops, IsLead(ops), NEW p \in 1 .. Len(ops)
  PROVE  /\ ops[p].op \in {"options", "call", "touch", "reset"} /\ ~ops[p].measured
         /\ ops[p].op = "options" => IsSetting(ops[p])
         /\ p = Len(ops) => ops[p].op = "reset"
         /\ p # Len(ops) => ops[p].op # "reset"
<1>1. Len(ops) \in Nat
  BY DEF IsLead, EndsWithReset, IsSequence
<1>2. p = Len(ops) \/ p \in 1 .. Len(ops) - 1
  BY <1>1
<1>3. CASE p = Len(ops)
  BY <1>3 DEF IsLead, EndsWithReset, Unmeasured
<1>4. CASE p \in 1 .. Len(ops) - 1
  <2>1. IsQuiet(ops[p]) \/ IsSetting(ops[p])
    BY <1>4 DEF IsLead
  <2>2. p # Len(ops)
    BY <1>1, <1>4
  <2> QED BY <2>1, <2>2 DEF IsQuiet, IsSetting, Unmeasured
<1> QED BY <1>2, <1>3, <1>4

LEMMA BetweenStatement ==
  ASSUME NEW ops, IsBetween(ops), NEW p \in 1 .. Len(ops)
  PROVE  /\ ops[p].op \in {"report", "call", "touch", "reset"} /\ ~ops[p].measured
         /\ p = Len(ops) => ops[p].op = "reset"
         /\ p # Len(ops) => ops[p].op # "reset"
<1>1. Len(ops) \in Nat
  BY DEF IsBetween, EndsWithReset, IsSequence
<1>2. p = Len(ops) \/ p \in 1 .. Len(ops) - 1
  BY <1>1
<1>3. CASE p = Len(ops)
  BY <1>3 DEF IsBetween, EndsWithReset, Unmeasured
<1>4. CASE p \in 1 .. Len(ops) - 1
  <2>1. IsQuiet(ops[p]) \/ IsReport(ops[p])
    BY <1>4 DEF IsBetween
  <2>2. p # Len(ops)
    BY <1>1, <1>4
  <2> QED BY <2>1, <2>2 DEF IsQuiet, IsReport, Unmeasured
<1> QED BY <1>2, <1>3, <1>4

LEMMA TailStatement ==
  ASSUME NEW ops, IsTail(ops), NEW p \in 1 .. Len(ops)
  PROVE  ops[p].op \in {"report", "call", "touch"} /\ ~ops[p].measured
BY DEF IsTail, IsQuiet, IsReport, Unmeasured

\* Statement by statement the timer stays right.
LEMMA TimerStep ==
  ASSUME IsCollective(benchmark), NEW a, IsPlace(a), InBody(a), NEW o, OptionsRight(o),
         NEW ins \in BOOLEAN, ~(OpAt(a).op = "call" /\ ~ins),
         NEW c \in Nat, NEW t \in Nat, NEW m \in Nat, TimerRight(a, o, c, t, m),
         NEW b, b = Then(a, NextOptions(a, o))
  PROVE  /\ OptionsRight(NextOptions(a, o))
         /\ NextTimer(a, o, c, t, m) \in Nat
         /\ InBody(b) => TimerRight(b, NextOptions(a, o), NextClock(a, c, ins), NextStart(a, c, t),
                                    NextTimer(a, o, c, t, m))
<1> DEFINE ops == SectionAt(a).ops
           secs == CodeOf(a.size)
           p == a.pos
           o2 == NextOptions(a, o)
           c2 == NextClock(a, c, ins)
           t2 == NextStart(a, c, t)
           m2 == NextTimer(a, o, c, t, m)
<1>1. OpAt(a) = ops[p] /\ p \in 1 .. Len(ops) /\ a.iter \in Nat
  BY DEF IsPlace, OpAt
<1>2. WellFormed(benchmark)
  BY CollectiveIsSame DEF SameProgram, Uniform
<1>3. InBody(b) => IsPlace(b)
  BY <1>2, ThenIsPlace DEF InBody
<1>4. IsSequence(ops) /\ Len(ops) \in Nat
  BY SectionKind, ShapesUnguarded
<1>5. ASSUME InBody(b), b.seg = 1 PROVE TimerRight(b, o2, c2, t2, m2)
  <2>1. ~SectionAt(b).loop
    BY <1>3, <1>5, SectionKind
  <2> QED BY <1>5, <2>1 DEF TimerRight, RightIn
\* The place after a.
<1>6. /\ p < Len(ops) => b = Place(a.size, a.seg, a.iter, p + 1)
      /\ p = Len(ops) =>
           IF SectionAt(a).loop /\ a.iter + 1 < Trips(o2)
           THEN b = Place(a.size, a.seg, a.iter + 1, 1)
           ELSE IF a.seg < Len(secs) THEN b = Place(a.size, a.seg + 1, 0, 1)
           ELSE b.seg = 1 /\ b.size = a.size + 1
  BY NextPlace
<1>7. p < Len(ops) \/ p = Len(ops)
  BY <1>1, <1>4
<1>8. ASSUME NEW k, NEW s, NEW i, NEW q, b = Place(k, s, i, q)
      PROVE  /\ b.size = k /\ b.seg = s /\ b.iter = i /\ b.pos = q
             /\ SectionAt(b) = CodeOf(k)[s]
  BY <1>8 DEF Place, SectionAt
<1>9. CASE a.seg = 1
  <2>1. ~SectionAt(a).loop /\ IsLead(ops) /\ HasShape(secs) /\ 1 < Len(secs)
    BY <1>9, SectionKind DEF HasShape
  <2>2. /\ ops[p].op \in {"options", "call", "touch", "reset"} /\ ~ops[p].measured
        /\ ops[p].op = "options" => IsSetting(ops[p])
        /\ p = Len(ops) => ops[p].op = "reset"
        /\ p # Len(ops) => ops[p].op # "reset"
    BY <1>1, <2>1, LeadStatement
  <2>3. OptionsRight(o2)
    <3>1. CASE OpAt(a).op = "options"
      BY <1>1, <2>2, <3>1 DEF NextOptions, OptionsRight, IsSetting
    <3>2. CASE OpAt(a).op # "options"
      BY <3>2 DEF NextOptions
    <3> QED BY <3>1, <3>2
  <2>4. m2 \in Nat
    BY <1>1, <2>2 DEF NextTimer
  <2>5. CASE p < Len(ops)
    BY <1>5, <1>6, <1>8, <1>9, <2>3, <2>4, <2>5
  <2>6. CASE p = Len(ops)
    <3>1. b = Place(a.size, 2, 0, 1)
      BY <1>6, <1>9, <2>1, <2>6
    <3>2. SectionAt(b) = secs[2] /\ b.iter = 0 /\ b.pos = 1
      BY <1>8, <3>1
    <3>3. SectionAt(b).loop /\ IsSequence(SectionAt(b).ops)
      BY <2>1, <3>2 DEF HasShape, IsMeasuring
    <3>4. m2 = 0
      BY <1>1, <2>2, <2>6 DEF NextTimer
    <3>5. TimerRight(b, o2, c2, t2, 0)
      BY <2>3, <3>2, <3>3, LoopBegins
    <3> QED BY <2>3, <2>4, <3>4, <3>5
  <2> QED BY <1>7, <2>5, <2>6
<1>10. CASE a.seg = 3 /\ a.seg < Len(secs)
  <2>1. ~SectionAt(a).loop /\ IsBetween(ops) /\ HasShape(secs) /\ Len(secs) = 5
    BY <1>10, SectionKind DEF HasShape
  <2>2. /\ ops[p].op \in {"report", "call", "touch", "reset"} /\ ~ops[p].measured
        /\ p = Len(ops) => ops[p].op = "reset"
        /\ p # Len(ops) => ops[p].op # "reset"
    BY <1>1, <2>1, BetweenStatement
  <2>3. o2 = o
    BY <1>1, <2>2 DEF NextOptions
  <2>4. m = o.loop
    BY <1>10, <2>1 DEF TimerRight, RightIn
  <2>5. m2 = (IF p = Len(ops) THEN 0 ELSE m)
    BY <1>1, <2>2 DEF NextTimer
  <2>6. CASE p < Len(ops)
    <3>1. b = Place(a.size, a.seg, a.iter, p + 1) /\ p # Len(ops)
      BY <1>1, <1>4, <1>6, <2>6
    <3>2. SectionAt(b) = SectionAt(a)
      BY <1>8, <3>1 DEF SectionAt
    <3>3. TimerRight(b, o, c2, t2, m2)
      BY <2>1, <2>4, <2>5, <3>1, <3>2 DEF TimerRight, RightIn
    <3> QED BY <2>3, <2>5, <3>1, <3>3
  <2>7. CASE p = Len(ops)
    <3>1. b = Place(a.size, 4, 0, 1)
      BY <1>6, <1>10, <2>1, <2>7
    <3>2. SectionAt(b) = secs[4] /\ b.iter = 0 /\ b.pos = 1
      BY <1>8, <3>1
    <3>3. SectionAt(b).loop /\ IsSequence(SectionAt(b).ops)
      BY <2>1, <3>2 DEF HasShape, IsMeasuring
    <3>4. TimerRight(b, o, c2, t2, 0)
      BY <3>2, <3>3, LoopBegins
    <3> QED BY <2>3, <2>5, <2>7, <3>4
  <2> QED BY <1>7, <2>6, <2>7
<1>11. CASE a.seg = Len(secs)
  <2>1. ~SectionAt(a).loop /\ IsTail(ops) /\ a.seg # 1
    BY <1>11, SectionKind DEF HasShape
  <2>2. ops[p].op \in {"report", "call", "touch"} /\ ~ops[p].measured
    BY <1>1, <2>1, TailStatement
  <2>3. o2 = o /\ m2 = m
    BY <1>1, <2>2 DEF NextOptions, NextTimer
  <2>4. m = o.loop
    BY <2>1 DEF TimerRight, RightIn
  <2>5. CASE p < Len(ops)
    <3>1. b = Place(a.size, a.seg, a.iter, p + 1)
      BY <1>6, <2>5
    <3>2. SectionAt(b) = SectionAt(a)
      BY <1>8, <3>1 DEF SectionAt
    <3>3. TimerRight(b, o, c2, t2, m)
      BY <2>1, <2>4, <3>2 DEF TimerRight, RightIn
    <3> QED BY <2>3, <3>3
  <2>6. CASE p = Len(ops)
    <3>1. ~(a.seg < Len(secs))
      BY <1>11, SectionKind DEF HasShape
    <3>2. b.seg = 1
      BY <1>6, <2>1, <2>6, <3>1
    <3> QED BY <1>5, <2>3, <3>2
  <2> QED BY <1>7, <2>5, <2>6
<1>12. CASE a.seg \in {2, 4}
  <2>1. /\ SectionAt(a).loop /\ IsMeasuring(ops) /\ HasShape(secs)
        /\ a.seg < Len(secs) /\ Len(secs) \in {3, 5}
    BY <1>12, SectionKind DEF HasShape
  <2>2. a.iter < Trips(o)
    BY <2>1 DEF TimerRight, RightIn
  <2>3. ASSUME NEW x \in 1 .. Len(ops), NEW y \in 1 .. Len(ops), IsTimed(ops, x, y)
        PROVE  /\ m2 = Counted(IF p + 1 <= y + 1 THEN a.iter ELSE a.iter + 1, o)
               /\ x < p + 1 /\ p + 1 <= y => c2 = t2
               /\ p + 1 = y + 1 => c2 = t2 + 1
               /\ m2 \in Nat
               /\ ops[p].op # "options"
    <3>1. /\ m = Counted(IF p <= y + 1 THEN a.iter ELSE a.iter + 1, o)
          /\ x < p /\ p <= y => c = t
          /\ p = y + 1 => c = t + 1
      BY <2>1, <2>3 DEF TimerRight, RightIn
    <3> QED BY <1>1, <1>4, <2>3, <3>1, OneStatement, SMTT(30)
  <2>4. PICK x, y \in 1 .. Len(ops) : IsTimed(ops, x, y)
    BY <2>1 DEF IsMeasuring
  <2>5. o2 = o /\ m2 \in Nat
    <3>1. ops[p].op # "options" /\ m2 \in Nat
      BY <2>3, <2>4
    <3> QED BY <1>1, <3>1 DEF NextOptions
  <2>6. CASE p < Len(ops)
    <3>1. b = Place(a.size, a.seg, a.iter, p + 1)
      BY <1>6, <2>6
    <3>2. SectionAt(b) = SectionAt(a) /\ b.iter = a.iter /\ b.pos = p + 1
      BY <1>8, <3>1 DEF SectionAt
    <3> HIDE DEF c2, t2, m2
    <3>3. TimerRight(b, o, c2, t2, m2)
      BY <2>1, <2>2, <2>3, <3>2 DEF TimerRight, RightIn
    <3> QED BY <2>5, <3>3 DEF c2, t2, m2
  \* After the last statement the iteration is counted.
  <2>7. ASSUME p = Len(ops), NEW u \in 1 .. Len(ops), NEW v \in 1 .. Len(ops), IsTimed(ops, u, v)
        PROVE  m2 = Counted(a.iter + 1, o)
    <3>1. ~(p + 1 <= v + 1)
      BY <1>4, <2>7 DEF IsTimed
    <3> QED BY <2>3, <2>7, <3>1
  <2>8. CASE p = Len(ops) /\ a.iter + 1 < Trips(o)
    <3>1. b = Place(a.size, a.seg, a.iter + 1, 1)
      BY <1>6, <2>1, <2>5, <2>8
    <3>2. SectionAt(b) = SectionAt(a) /\ b.iter = a.iter + 1 /\ b.pos = 1
      BY <1>8, <3>1 DEF SectionAt
    <3>3. \A u, v \in 1 .. Len(ops) : 1 <= v + 1 /\ ~(u < 1) /\ 1 # v + 1
      BY <1>4
    <3> HIDE DEF c2, t2, m2
    <3>4. TimerRight(b, o, c2, t2, m2)
      BY <2>1, <2>7, <2>8, <3>2, <3>3 DEF TimerRight, RightIn
    <3> QED BY <2>5, <3>4 DEF c2, t2, m2
  <2>9. CASE p = Len(ops) /\ ~(a.iter + 1 < Trips(o))
    <3>1. b = Place(a.size, a.seg + 1, 0, 1)
      BY <1>6, <2>1, <2>5, <2>9
    <3>2. SectionAt(b) = secs[a.seg + 1]
      BY <1>8, <3>1
    <3>3. ~SectionAt(b).loop
      <4>1. CASE a.seg = 2 /\ Len(secs) = 3
        BY <2>1, <3>2, <4>1 DEF HasShape
      <4>2. CASE a.seg = 2 /\ Len(secs) = 5
        BY <2>1, <3>2, <4>2 DEF HasShape
      <4>3. CASE a.seg = 4
        <5>1. Len(secs) = 5 /\ SectionAt(b) = secs[5]
          BY <2>1, <3>2, <4>3
        <5> QED BY <2>1, <5>1 DEF HasShape
      <4> QED BY <1>12, <2>1, <4>1, <4>2, <4>3
    <3>4. m2 = o.loop
      <4>1. a.iter + 1 = o.loop + o.skip /\ a.iter + 1 > o.skip
        <5>1. o.loop \in Nat \ {0} /\ o.skip \in Nat /\ a.iter \in Nat
          BY <1>1 DEF OptionsRight
        <5>2. a.iter < o.loop + o.skip /\ ~(a.iter + 1 < o.loop + o.skip)
          BY <2>2, <2>9 DEF Trips
        <5> HIDE DEF ops, secs, p, o2, c2, t2, m2
        <5> QED BY <5>1, <5>2
      <4>2. m2 = Counted(a.iter + 1, o)
        BY <2>4, <2>7, <2>9
      <4>3. Counted(a.iter + 1, o) = (a.iter + 1) - o.skip
        BY <4>1 DEF Counted
      <4>4. o.loop \in Nat /\ o.skip \in Nat
        BY DEF OptionsRight
      <4> HIDE DEF m2
      <4> QED BY <4>1, <4>2, <4>3, <4>4
    <3>5. TimerRight(b, o, c2, t2, m2)
      BY <3>3, <3>4 DEF TimerRight, RightIn
    <3> QED BY <2>5, <3>5
  <2> QED BY <1>7, <2>6, <2>8, <2>9
<1>13. a.seg = 1 \/ (a.seg = 3 /\ a.seg < Len(secs)) \/ a.seg = Len(secs) \/ a.seg \in {2, 4}
  BY SectionKind
<1> QED BY <1>9, <1>10, <1>11, <1>12, <1>13

-----------------------------------------------------------------------------
LEMMA OpsInCollective ==
  ASSUME IsCollective(benchmark), NEW a, IsPlace(a)
  PROVE  /\ OpAt(a).op \in CollectiveOps
         /\ ~InBody(a) => OpAt(a).op \in {"check", "call", "touch"}
         /\ InBody(a) => OpAt(a).op # "check"
<1>1. Closing = benchmark.sizes + 1 /\ benchmark.sizes \in Nat /\ SameProgram(benchmark)
  BY CollectiveIsSame DEF IsCollective, Closing
<1>2. CASE InBody(a)
  <2> DEFINE ops == SectionAt(a).ops
  <2>1. OpAt(a) = ops[a.pos] /\ a.pos \in 1 .. Len(ops)
    BY DEF IsPlace, OpAt
  <2>2. IsLead(ops) \/ IsBetween(ops) \/ IsTail(ops) \/ IsMeasuring(ops)
    BY <1>2, SectionKind
  <2>3. OpAt(a).op \in CollectiveOps
    <3> HIDE DEF ops
    <3>1. CASE IsLead(ops)
      BY <2>1, <3>1, LeadStatement DEF CollectiveOps
    <3>2. CASE IsBetween(ops)
      BY <2>1, <3>2, BetweenStatement DEF CollectiveOps
    <3>3. CASE IsTail(ops)
      BY <2>1, <3>3, TailStatement DEF CollectiveOps
    <3>4. CASE IsMeasuring(ops)
      <4>1. PICK x, y \in 1 .. Len(ops) : IsTimed(ops, x, y)
        BY <3>4 DEF IsMeasuring
      <4>2. CASE a.pos \in {x, y, y + 1}
        BY <2>1, <4>1, <4>2 DEF IsTimed, CollectiveOps
      <4>3. CASE a.pos \notin {x, y, y + 1}
        BY <2>1, <4>1, <4>3 DEF IsTimed, IsQuiet, CollectiveOps
      <4> QED BY <4>2, <4>3
    <3> QED BY <2>2, <3>1, <3>2, <3>3, <3>4
  <2>4. OpAt(a).op # "check"
    BY <1>1, <1>2, InTheBody DEF InBody
  <2> QED BY <1>2, <2>3, <2>4
<1>3. CASE ~InBody(a)
  <2>1. a.size = 0 \/ a.size = Closing
    <3>1. a.size \in 0 .. Closing /\ a # Over
      BY <1>1 DEF IsPlace, Over
    <3> QED BY <1>1, <1>3, <3>1 DEF InBody
  <2>2. ASSUME NEW ops, AllQuiet(ops)
        PROVE  ops \in Seq({ops[n] : n \in 1 .. Len(ops)})
               /\ \A z \in {ops[n] : n \in 1 .. Len(ops)} : z.op \in {"call", "touch"}
    BY <2>2, SequenceRange DEF AllQuiet, IsQuiet
  <2>3. CASE a.size = 0
    <3> DEFINE S == {benchmark.start[n] : n \in 1 .. Len(benchmark.start)} \cup {Check}
               ops == <<Check>> \o benchmark.start
    <3>1. benchmark.start \in Seq(S) /\ <<Check>> \in Seq(S)
      <4>1. benchmark.start \in Seq({benchmark.start[n] : n \in 1 .. Len(benchmark.start)})
        BY <2>2 DEF IsCollective
      <4> QED BY <4>1
    <3>2. \A z \in S : z.op \in {"check", "call", "touch"}
      <4>1. Check.op = "check"
        BY DEF Check, Do
      <4>2. \A z \in {benchmark.start[n] : n \in 1 .. Len(benchmark.start)} : z.op \in {"call", "touch"}
        BY <2>2 DEF IsCollective
      <4> QED BY <4>1, <4>2
    <3>3. CodeOf(0) = <<Once(ops)>>
      BY DEF CodeOf, Code
    <3>4. ops \in Seq(S)
      <4> HIDE DEF S
      <4> QED BY <3>1
    <3> HIDE DEF S, ops
    <3>5. SectionAt(a).ops = ops
      BY <2>3, <3>3 DEF IsPlace, SectionAt, Once
    <3>6. OpAt(a) \in S
      BY <3>4, <3>5 DEF IsPlace, OpAt
    <3>7. OpAt(a).op \in {"check", "call", "touch"}
      BY <3>2, <3>6
    <3> QED BY <1>3, <3>7 DEF CollectiveOps
  <2>4. CASE a.size = Closing
    <3> DEFINE S == {benchmark.finish[n] : n \in 1 .. Len(benchmark.finish)} \cup {Finalize}
               ops == benchmark.finish \o <<Finalize>>
    <3>1. benchmark.finish \in Seq(S) /\ <<Finalize>> \in Seq(S)
      <4>1. benchmark.finish \in Seq({benchmark.finish[n] : n \in 1 .. Len(benchmark.finish)})
        BY <2>2 DEF IsCollective
      <4> QED BY <4>1
    <3>2. \A z \in S : z.op \in {"call", "touch"}
      <4>1. Finalize.op = "call"
        BY DEF Finalize, Call, Do
      <4>2. \A z \in {benchmark.finish[n] : n \in 1 .. Len(benchmark.finish)} : z.op \in {"call", "touch"}
        BY <2>2 DEF IsCollective
      <4> QED BY <4>1, <4>2
    <3>3. CodeOf(Closing) = <<Once(ops)>>
      BY <1>1 DEF CodeOf, Code
    <3>4. ops \in Seq(S)
      <4> HIDE DEF S
      <4> QED BY <3>1
    <3> HIDE DEF S, ops
    <3>5. SectionAt(a).ops = ops
      BY <2>4, <3>3 DEF IsPlace, SectionAt, Once
    <3>6. OpAt(a) \in S
      BY <3>4, <3>5 DEF IsPlace, OpAt
    <3>7. OpAt(a).op \in {"check", "call", "touch"}
      BY <3>2, <3>6
    <3> QED BY <1>3, <3>7 DEF CollectiveOps
  <2> QED BY <2>1, <2>3, <2>4
<1> QED BY <1>2, <1>3

RightAt(a, o, c, t, m) ==
  /\ OptionsRight(o) /\ c \in Nat /\ t \in Nat /\ m \in Nat
  /\ InBody(a) => TimerRight(a, o, c, t, m)

RightOn(r) == RightAt(at[r], options[r], clock[r], t_start[r], timer[r])

TimerInv == IsCollective(benchmark) => TimingShapes /\ \A r \in Ranks : RightOn(r)

LEMMA SameRight ==
  ASSUME UNCHANGED launch
  PROVE  /\ \A a, o, c, t, m : RightAt(a, o, c, t, m)' = RightAt(a, o, c, t, m)
         /\ IsCollective(benchmark)' = IsCollective(benchmark)
<1>1. \A a : SectionAt(a)' = SectionAt(a)
  BY SameSections
<1>2. benchmark' = benchmark /\ Over' = Over
  BY SameSections DEF launch
<1>3. \A a : InBody(a)' = InBody(a)
  BY <1>2 DEF InBody
<1>4. \A a, o, c, t, m : TimerRight(a, o, c, t, m)' = TimerRight(a, o, c, t, m)
  BY <1>1, Zenon DEF TimerRight
<1> QED BY <1>2, <1>3, <1>4 DEF RightAt

\* A step of a collective benchmark is one rank's move along the path.
LEMMA CollectiveMoves ==
  ASSUME IsCollective(benchmark), Shapes, TimingShapes,
         \A r \in Ranks : IsLocal(Local(r)) /\ clock[r] \in Nat,
         [WinNext]_<<vars, windows>>
  PROVE  \/ \E r \in Ranks : Advances(r) /\ Times(r)
         \/ UNCHANGED <<launch, at, inside, options, timing>>
<1>1. Uniform(benchmark)
  BY CollectiveIsSame DEF SameProgram
<1>2. ASSUME NEW r \in Ranks
      PROVE  at[r] # Over => OpAt(at[r]).op \in CollectiveOps
  BY OpsInCollective, LocalFields DEF IsLocal
<1>3. CASE \E r \in Ranks : Step(r)
  <2>1. PICK r \in Ranks : Step(r)
    BY <1>3
  <2>2. IsLocal(Local(r)) /\ clock[r] \in Nat
    OBVIOUS
  <2>3. Advances(r)
    BY <1>1, <2>1, <2>2, PlainStep, UsageStep, OptionsStep, EnterStep, LeaveStep, StartStep DEF Step
  <2>4. at[r] # Over
    BY <2>3 DEF Advances
  <2>5. Times(r)
    BY <1>1, <1>2, <2>1, <2>2, <2>4, TimesOf
  <2> QED BY <2>3, <2>5
<1>4. CASE \E r \in Ranks : WinStep(r)
  BY <1>1, <1>2, <1>4, NoWindows
<1>5. CASE \/ UNCHANGED <<vars, windows>>
           \/ \E r \in Ranks : \E n \in DOMAIN pending[r] : TakePlace(r, n)
           \/ Exit
           \/ \E p, q \in Ranks : \E tag \in Tags(p) : Deliver(p, q, tag)
  BY <1>5 DEF TakePlace, Exit, Deliver, vars, launch
<1> QED BY <1>3, <1>4, <1>5 DEF WinNext, Next

\* The rank that moves.
LEMMA MoverRight ==
  ASSUME IsCollective(benchmark), NEW r \in Ranks, Shapes, TimingShapes, IsLocal(Local(r)),
         RightOn(r), Advances(r), Times(r)
  PROVE  RightAt(at'[r], options'[r], clock'[r], t_start'[r], timer'[r])
<1> DEFINE a == at[r]
           o == options[r]
<1>1. /\ a # Over /\ IsPlace(a) /\ inside[r] \in BOOLEAN
      /\ (inside[r] => OpAt(a).op = "call")
  BY LocalFields DEF Advances, IsLocal
<1>2. WellFormed(benchmark) /\ Closing = benchmark.sizes + 1 /\ benchmark.sizes \in Nat
  BY CollectiveIsSame DEF SameProgram, Uniform, Closing, IsCollective
<1>3. Chosen(Local(r)) = NextOptions(a, o)
  BY LocalFields DEF Chosen, NextOptions
<1>4. /\ options'[r] = NextOptions(a, o)
      /\ at'[r] = (IF OpAt(a).op = "call" /\ ~inside[r] THEN a
                   ELSE IF OpAt(a).op = "check" /\ ~(po_ret = "po_okay" /\ benchmark.fits) THEN Usage
                   ELSE Then(a, NextOptions(a, o)))
  BY <1>3, LocalFields DEF Advances, Local, NextLocal
<1>5. /\ clock'[r] = NextClock(a, clock[r], inside[r])
      /\ t_start'[r] = NextStart(a, clock[r], t_start[r])
      /\ timer'[r] = NextTimer(a, o, clock[r], t_start[r], timer[r])
  BY DEF Times, Cost, NextClock, NextStart, NextTimer
<1>6. /\ OptionsRight(o) /\ clock[r] \in Nat /\ t_start[r] \in Nat /\ timer[r] \in Nat
      /\ InBody(a) => TimerRight(a, o, clock[r], t_start[r], timer[r])
  BY DEF RightOn, RightAt
<1>7. NextClock(a, clock[r], inside[r]) \in Nat /\ NextStart(a, clock[r], t_start[r]) \in Nat
  BY <1>6 DEF NextClock, NextStart
<1>8. CASE OpAt(a).op = "call" /\ ~inside[r]
  <2>1. /\ at'[r] = a /\ options'[r] = o /\ clock'[r] = clock[r]
        /\ t_start'[r] = t_start[r] /\ timer'[r] = timer[r]
    BY <1>4, <1>5, <1>6, <1>8 DEF NextOptions, NextClock, NextStart, NextTimer
  <2> QED BY <1>6, <2>1 DEF RightAt
<1>9. CASE ~(OpAt(a).op = "call" /\ ~inside[r]) /\ InBody(a)
  <2>1. at'[r] = Then(a, NextOptions(a, o))
    BY <1>1, <1>4, <1>9, OpsInCollective
  <2>2. /\ OptionsRight(NextOptions(a, o))
        /\ NextTimer(a, o, clock[r], t_start[r], timer[r]) \in Nat
        /\ InBody(at'[r]) =>
             TimerRight(at'[r], NextOptions(a, o), NextClock(a, clock[r], inside[r]),
                        NextStart(a, clock[r], t_start[r]),
                        NextTimer(a, o, clock[r], t_start[r], timer[r]))
    <3> HIDE DEF a, o
    <3> QED BY <1>1, <1>6, <1>9, <2>1, TimerStep
  <2> QED BY <1>4, <1>5, <1>7, <2>2 DEF RightAt
<1>10. CASE ~(OpAt(a).op = "call" /\ ~inside[r]) /\ ~InBody(a)
  <2>1. OpAt(a).op \in {"check", "call", "touch"}
    BY <1>1, <1>10, OpsInCollective
  <2>2. options'[r] = o /\ NextOptions(a, o) = o /\ timer'[r] = timer[r]
    BY <1>4, <1>5, <2>1 DEF NextOptions, NextTimer
  <2>3. ASSUME InBody(at'[r])
        PROVE  TimerRight(at'[r], o, clock'[r], t_start'[r], timer'[r])
    <3>1. at'[r] # Usage
      BY <1>2, <2>3 DEF InBody, Usage
    <3>2. at'[r] = Then(a, o)
      BY <1>4, <1>10, <2>2, <3>1
    <3>3. IsPlace(at'[r])
      BY <1>1, <1>2, <2>3, <3>2, ThenIsPlace DEF InBody
    <3>4. at'[r].size # a.size
      BY <1>1, <1>10, <2>3 DEF InBody
    <3>5. at'[r].seg = 1
      BY <1>1, <1>2, <2>3, <3>2, <3>4, NewSize DEF InBody
    <3>6. ~SectionAt(at'[r]).loop
      BY <2>3, <3>3, <3>5, SectionKind
    <3> QED BY <3>5, <3>6 DEF TimerRight, RightIn
  <2> QED BY <1>5, <1>6, <1>7, <2>2, <2>3 DEF RightAt
<1> QED BY <1>8, <1>9, <1>10

LEMMA TimerInvStep ==
  ASSUME CommonPathInv, TimerInv, [WinNext]_<<vars, windows>>
  PROVE  TimerInv'
<1> SUFFICES ASSUME IsCollective(benchmark)'
             PROVE  TimingShapes' /\ \A r \in Ranks' : RightOn(r)'
  BY DEF TimerInv
<1>1. launch' = launch
  BY LaunchStays
<1>2. IsCollective(benchmark) /\ Ranks' = Ranks
  BY <1>1, SameRight, SameSections
<1>3. SameProgram(benchmark) /\ PathInv /\ TimingShapes /\ \A r \in Ranks : RightOn(r)
  BY <1>2, CollectiveIsSame DEF CommonPathInv, TimerInv
<1>4. Shapes /\ \A r \in Ranks : IsLocal(Local(r)) /\ clock[r] \in Nat
  BY <1>3, RankOnPath DEF PathInv, RightOn, RightAt
<1>5. ASSUME NEW r \in Ranks,
             RightAt(at'[r], options'[r], clock'[r], t_start'[r], timer'[r])
      PROVE  RightOn(r)'
  <2>1. PICK a, o, c, t, m : /\ a = at'[r] /\ o = options'[r] /\ c = clock'[r]
                             /\ t = t_start'[r] /\ m = timer'[r]
    OBVIOUS
  <2>2. RightAt(a, o, c, t, m)'
    BY <1>1, <1>5, <2>1, SameRight
  <2> QED BY <2>1, <2>2 DEF RightOn
<1>6. CASE \E r \in Ranks : Advances(r) /\ Times(r)
  <2>1. PICK r \in Ranks : Advances(r) /\ Times(r)
    BY <1>6
  <2>2. RightAt(at'[r], options'[r], clock'[r], t_start'[r], timer'[r])
    BY <1>2, <1>3, <1>4, <2>1, MoverRight
  <2>3. ASSUME NEW q \in Ranks \ {r}
        PROVE  RightAt(at'[q], options'[q], clock'[q], t_start'[q], timer'[q])
    <3>1. at'[q] = at[q] /\ options'[q] = options[q]
      BY <2>1 DEF Advances, Local
    <3>2. clock'[q] = clock[q] /\ t_start'[q] = t_start[q] /\ timer'[q] = timer[q]
      BY <2>1 DEF Times
    <3>3. RightOn(q)
      BY <1>3
    <3> QED BY <3>1, <3>2, <3>3 DEF RightOn
  <2>4. \A q \in Ranks : RightOn(q)'
    BY <1>5, <2>2, <2>3
  <2>5. TimingShapes'
    BY <1>2, <2>1 DEF Times, TimingShapes
  <2> QED BY <1>2, <2>4, <2>5
<1>7. CASE UNCHANGED <<launch, at, inside, options, timing>>
  <2>1. \A q \in Ranks : RightAt(at'[q], options'[q], clock'[q], t_start'[q], timer'[q])
    BY <1>3, <1>7 DEF RightOn, timing
  <2>2. TimingShapes'
    BY <1>2, <1>3, <1>7 DEF TimingShapes, timing
  <2> QED BY <1>2, <1>5, <2>1, <2>2
<1> QED BY <1>2, <1>3, <1>4, <1>6, <1>7, CollectiveMoves

LEMMA TimerInvInit ==
  ASSUME WinInit
  PROVE  TimerInv
<1> SUFFICES ASSUME IsCollective(benchmark)
             PROVE  TimingShapes /\ \A r \in Ranks : RightOn(r)
  BY DEF TimerInv
<1>1. TimingShapes
  BY DEF WinInit, Init, TimingShapes
<1>2. ASSUME NEW r \in Ranks PROVE RightOn(r)
  <2>1. /\ at[r].size = 0 /\ clock[r] = 0 /\ t_start[r] = 0 /\ timer[r] = 0
        /\ options[r] = [loop |-> Options.loop, skip |-> Options.skip]
    BY DEF WinInit, Init
  <2>2. OptionsRight(options[r])
    BY <2>1, OmbOpsAssumption DEF OptionsRight
  <2>3. ~InBody(at[r])
    BY <2>1 DEF InBody
  <2> QED BY <2>1, <2>2, <2>3 DEF RightOn, RightAt
<1> QED BY <1>1, <1>2

(***************************************************************************)
(* In the timed loop of a collective benchmark, how many calls the timer   *)
(* covers follows from where the rank stands: none before options.skip,    *)
(* and one more in every iteration from there on.                          *)
(***************************************************************************)
THEOREM TimerInvariance == WinSpec => []TimerInv
<1>1. WinInit => TimerInv
  BY TimerInvInit
<1>2. CommonPathInv /\ TimerInv /\ [WinNext]_<<vars, windows>> => TimerInv'
  BY TimerInvStep
<1> QED BY <1>1, <1>2, CommonPathInvariance, PTL DEF WinSpec

(***************************************************************************)
(* What a collective benchmark reports covers options.loop measured calls  *)
(* and none of the warm-up, for every number of sizes, iterations and      *)
(* processes.                                                              *)
(***************************************************************************)
THEOREM AverageTheorem == WinSpec => [](IsCollective(benchmark) => AverageOverTheTimedCalls)
<1>1. CommonPathInv /\ TimerInv => (IsCollective(benchmark) => AverageOverTheTimedCalls)
  <2> SUFFICES ASSUME CommonPathInv, TimerInv, IsCollective(benchmark),
                      NEW r \in Ranks, At(r, "report")
               PROVE  timer[r] = options[r].loop
    BY DEF AverageOverTheTimedCalls
  <2>1. PathInv /\ Uniform(benchmark) /\ RightOn(r)
    BY CollectiveIsSame DEF CommonPathInv, TimerInv, SameProgram
  <2>2. IsLocal(Local(r))
    BY <2>1, RankOnPath
  <2>3. IsPlace(at[r]) /\ at[r] # Over /\ OpAt(at[r]).op = "report"
    BY <2>1, <2>2, OpOf
  <2>4. InBody(at[r])
    BY <2>3, OpsInCollective
  <2>5. TimerRight(at[r], options[r], clock[r], t_start[r], timer[r])
    BY <2>1, <2>4 DEF RightOn, RightAt
  <2> DEFINE ops == SectionAt(at[r]).ops
             p == at[r].pos
  <2>6. OpAt(at[r]) = ops[p] /\ p \in 1 .. Len(ops)
    BY <2>3 DEF IsPlace, OpAt
  <2>7. ~IsLead(ops) /\ ~IsMeasuring(ops)
    <3>1. ~IsLead(ops)
      BY <2>3, <2>6, LeadStatement
    <3>2. ASSUME IsMeasuring(ops) PROVE FALSE
      <4>1. PICK x, y \in 1 .. Len(ops) : IsTimed(ops, x, y)
        BY <3>2 DEF IsMeasuring
      <4>2. CASE p \in {x, y, y + 1}
        BY <2>3, <2>6, <4>1, <4>2 DEF IsTimed
      <4>3. CASE p \notin {x, y, y + 1}
        BY <2>3, <2>6, <4>1, <4>3 DEF IsTimed, IsQuiet
      <4> QED BY <4>2, <4>3
    <3> QED BY <3>1, <3>2
  <2>8. ~SectionAt(at[r]).loop /\ at[r].seg # 1
    BY <2>3, <2>4, <2>7, SectionKind
  <2> QED BY <2>5, <2>8 DEF TimerRight, RightIn
<1> QED BY <1>1, CommonPathInvariance, TimerInvariance, PTL

-----------------------------------------------------------------------------
(***************************************************************************)
(* Iterations are kept apart by what is not measured.  Let all ranks have  *)
(* made the first low collective calls.  A rank that leaves a collective   *)
(* of the full kind knows this of all its own calls up to then, and the    *)
(* last call of an iteration, or the measured one, is of that kind.        *)
(***************************************************************************)
\* At statement p of iteration i, after c calls, inside of one or not, with
\* the active nonblocking collective req of this kind.
Apart(ops, s, y, l, i, p, ins, req, c, kind, low) ==
  /\ i > 0 /\ p <= s /\ ~ins => c <= low
  /\ i > 0 /\ p <= y => c <= low + 1
  /\ p > y /\ p > l => c <= low
  /\ req # 0 => s < p /\ p <= y /\ req = c /\ kind = ops[s].kind
  /\ req = 0 /\ s < p /\ p <= y /\ Full(ops[s].kind) => c <= low

\* One statement: the calls and the request after it, and what is known then.
Advance(o, ins, req, c, kind, low, req2, c2, kind2, low2) ==
  /\ low <= low2
  /\ c2 = (IF o.op = "start" \/ (o.op = "call" /\ ~ins) THEN c + 1 ELSE c)
  /\ o.op = "call" /\ ins /\ Full(o.kind) => c <= low2
  /\ \/ o.op = "start" /\ req2 = c + 1 /\ kind2 = o.kind
     \/ o.op \in {"test", "wait"} /\ req2 = 0 /\ (req # 0 /\ Full(kind) => req <= low2)
     \/ o.op \notin {"start", "wait"} /\ req2 = req /\ (req # 0 => kind2 = kind)

\* The same where statement p leads: inside of its call, or past it.
ApartNext(ops, s, y, l, i, p, ins, req, c, kind, low) ==
  IF ops[p].op = "call" /\ ~ins
  THEN Apart(ops, s, y, l, i, p, TRUE, req, c, kind, low)
  ELSE /\ p < Len(ops) => Apart(ops, s, y, l, i, p + 1, FALSE, req, c, kind, low)
       /\ p = Len(ops) => req = 0 /\ Apart(ops, s, y, l, i + 1, 1, FALSE, req, c, kind, low)

LEMMA ApartStep ==
  ASSUME NEW ops, IsSequence(ops), NEW s \in 1 .. Len(ops), NEW y \in 1 .. Len(ops),
         NEW l \in 1 .. Len(ops), IsApart(ops, s, y, l),
         NEW i \in Nat, NEW p \in 1 .. Len(ops), NEW req \in Nat,
         NEW ins, ins => ops[p].op = "call",
         NEW c \in Nat, NEW kind, NEW low \in Nat,
         Apart(ops, s, y, l, i, p, ins, req, c, kind, low),
         NEW req2 \in Nat, NEW c2 \in Nat, NEW kind2, NEW low2 \in Nat,
         Advance(ops[p], ins, req, c, kind, low, req2, c2, kind2, low2)
  PROVE  ApartNext(ops, s, y, l, i, p, ins, req2, c2, kind2, low2)
<1> SUFFICES /\ ops[p].op = "call" /\ ~ins =>
                  Apart(ops, s, y, l, i, p, TRUE, req2, c2, kind2, low2)
             /\ ~(ops[p].op = "call" /\ ~ins) /\ p < Len(ops) =>
                  Apart(ops, s, y, l, i, p + 1, FALSE, req2, c2, kind2, low2)
             /\ ~(ops[p].op = "call" /\ ~ins) /\ p = Len(ops) =>
                  req2 = 0 /\ Apart(ops, s, y, l, i + 1, 1, FALSE, req2, c2, kind2, low2)
  BY DEF ApartNext
<1>1. Len(ops) \in Nat /\ y < Len(ops) /\ s <= y
  BY DEF IsSequence, IsApart
<1>2. /\ i > 0 /\ p <= s /\ ~ins => c <= low
      /\ i > 0 /\ p <= y => c <= low + 1
      /\ p > y /\ p > l => c <= low
      /\ req # 0 => s < p /\ p <= y /\ req = c /\ kind = ops[s].kind
      /\ req = 0 /\ s < p /\ p <= y /\ Full(ops[s].kind) => c <= low
  BY DEF Apart
<1>3. low <= low2
  BY DEF Advance
<1>4. CASE p < s
  <2>1. /\ ops[p].op \notin {"start", "test", "wait"}
        /\ ops[p].op = "call" => Full(ops[p].kind)
    BY <1>4 DEF IsApart
  <2>2. req = 0 /\ req2 = 0
    BY <1>1, <1>2, <1>4, <2>1 DEF Advance
  <2>3. ops[p].op = "call" /\ ~ins => c2 = c + 1
    BY <2>1 DEF Advance
  <2>4. ops[p].op = "call" /\ ins => c2 = c /\ c2 <= low2
    BY <2>1 DEF Advance
  <2>5. ops[p].op # "call" => c2 = c
    BY <2>1 DEF Advance
  <2>6. p < Len(ops) /\ p + 1 <= s /\ p + 1 <= y
    BY <1>1, <1>4
  <2> QED BY <1>1, <1>2, <1>3, <1>4, <2>2, <2>3, <2>4, <2>5, <2>6 DEF Apart
<1>5. CASE p = s
  <2>1. req = 0 /\ p < Len(ops)
    BY <1>1, <1>2, <1>5
  <2>2. CASE ops[s].op = "call"
    <3>1. s = y /\ req2 = 0
      BY <1>5, <2>1, <2>2 DEF IsApart, Advance
    <3>2. ~ins => c2 = c + 1
      BY <1>5, <2>2 DEF Advance
    <3>3. ins => c2 = c /\ (l = s => c2 <= low2)
      <4>1. l = s => Full(ops[s].kind)
        BY <1>1, <3>1 DEF IsApart
      <4> QED BY <1>5, <2>2, <4>1 DEF Advance
    <3>4. p + 1 > l => l = s
      BY <1>1, <1>5, <3>1 DEF IsApart
    <3> QED BY <1>1, <1>2, <1>3, <1>5, <2>1, <2>2, <3>1, <3>2, <3>3, <3>4 DEF Apart
  <2>3. CASE ops[s].op = "start"
    <3>1. s < y /\ req2 = c + 1 /\ kind2 = ops[s].kind /\ c2 = c + 1
      BY <1>5, <2>3 DEF IsApart, Advance
    <3>2. ~ins /\ ops[p].op # "call"
      BY <1>5, <2>3
    <3>3. ~(p + 1 <= s) /\ p + 1 <= y /\ ~(p + 1 > y) /\ (i > 0 => c2 <= low2 + 1) /\ s < p + 1
      BY <1>1, <1>2, <1>3, <1>5, <3>1, <3>2
    <3> QED BY <1>5, <2>1, <3>1, <3>2, <3>3 DEF Apart
  <2> QED BY <2>2, <2>3 DEF IsApart
<1>6. CASE s < p /\ p < y
  <2>1. ops[p].op = "test" /\ c2 = c
    BY <1>6 DEF IsApart, Advance
  <2>2. \/ req2 = 0 /\ (req # 0 /\ Full(kind) => req <= low2)
        \/ req2 = req /\ (req # 0 => kind2 = kind)
    BY <2>1 DEF Advance
  <2>3. p < Len(ops) /\ s < p + 1 /\ p + 1 <= y /\ ~(p + 1 <= s)
    BY <1>1, <1>6
  <2>4. req2 # 0 => req2 = c2 /\ kind2 = ops[s].kind
    BY <1>2, <2>1, <2>2
  <2>5. req2 = 0 /\ Full(ops[s].kind) => c2 <= low2
    BY <1>2, <1>3, <1>6, <2>1, <2>2
  <2>6. i > 0 => c2 <= low2 + 1
    BY <1>1, <1>2, <1>3, <1>6, <2>1
  <2> QED BY <1>1, <1>6, <2>1, <2>3, <2>4, <2>5, <2>6 DEF Apart
<1>7. CASE s < p /\ p = y
  <2>1. ops[p].op = "wait" /\ c2 = c /\ req2 = 0
    BY <1>1, <1>7 DEF IsApart, Advance
  <2>2. Full(ops[s].kind) => c <= low2
    BY <1>2, <1>3, <1>7, <2>1 DEF Advance
  <2>3. p + 1 > l => l = s /\ Full(ops[s].kind)
    BY <1>1, <1>7 DEF IsApart
  <2> QED BY <1>1, <1>7, <2>1, <2>2, <2>3 DEF Apart
<1>8. CASE p > y
  <2>1. /\ ops[p].op \notin {"start", "test", "wait"}
        /\ ops[p].op = "call" => Full(ops[p].kind)
        /\ p > l => ops[p].op # "call"
    BY <1>8 DEF IsApart
  <2>2. req2 = 0
    BY <1>1, <1>2, <1>8, <2>1 DEF Advance
  <2>3. ops[p].op = "call" /\ ~ins => c2 = c + 1
    BY <2>1 DEF Advance
  <2>4. ops[p].op = "call" /\ ins => c2 = c /\ c2 <= low2
    BY <2>1 DEF Advance
  <2>5. ops[p].op # "call" => c2 = c
    BY <2>1 DEF Advance
  <2>6. p + 1 > l \/ p = Len(ops) => p > l \/ ops[p].op = "call"
    BY <1>1, <1>8, SMTT(30) DEF IsApart
  <2>7. ~(ops[p].op = "call" /\ ~ins) /\ (p + 1 > l \/ p = Len(ops)) => c2 <= low2
    BY <1>2, <1>3, <1>8, <2>4, <2>5, <2>6
  <2>8. ~(p <= s) /\ ~(p <= y) /\ ~(p + 1 <= s) /\ ~(p + 1 <= y)
    BY <1>1, <1>8
  <2>9. ops[p].op = "call" /\ ~ins => Apart(ops, s, y, l, i, p, TRUE, req2, c2, kind2, low2)
    BY <1>8, <2>1, <2>2, <2>8 DEF Apart
  <2>10. ~(ops[p].op = "call" /\ ~ins) /\ p < Len(ops) =>
           Apart(ops, s, y, l, i, p + 1, FALSE, req2, c2, kind2, low2)
    BY <2>2, <2>7, <2>8 DEF Apart
  <2>11. ~(ops[p].op = "call" /\ ~ins) /\ p = Len(ops) =>
           Apart(ops, s, y, l, i + 1, 1, FALSE, req2, c2, kind2, low2)
    BY <1>1, <2>2, <2>7 DEF Apart
  <2> QED BY <2>2, <2>9, <2>10, <2>11
<1>9. p < s \/ p = s \/ (s < p /\ p < y) \/ (s < p /\ p = y) \/ p > y
  BY <1>1
<1> QED BY <1>4, <1>5, <1>6, <1>7, <1>8, <1>9, Zenon

\* The same of a rank in place a, whichever statements these are.
ApartAt(a, ins, req, c, kind, low) ==
  LET ops == SectionAt(a).ops
  IN  IF InBody(a) /\ SectionAt(a).loop
      THEN \A s, y, l \in 1 .. Len(ops) :
             IsApart(ops, s, y, l) =>
               Apart(ops, s, y, l, a.iter, a.pos, ins, req, c, kind, low)
      ELSE req = 0

\* Nothing need be known before a loop, and after one.
LEMMA ApartAnew ==
  ASSUME NEW a, NEW c, NEW kind, NEW low,
         InBody(a) /\ SectionAt(a).loop =>
           a.iter = 0 /\ a.pos = 1 /\ IsSequence(SectionAt(a).ops)
  PROVE  ApartAt(a, FALSE, 0, c, kind, low)
<1> SUFFICES ASSUME InBody(a), SectionAt(a).loop,
                    NEW s \in 1 .. Len(SectionAt(a).ops), NEW y \in 1 .. Len(SectionAt(a).ops),
                    NEW l \in 1 .. Len(SectionAt(a).ops)
             PROVE  Apart(SectionAt(a).ops, s, y, l, 0, 1, FALSE, 0, c, kind, low)
  BY DEF ApartAt
<1>1. Len(SectionAt(a).ops) \in Nat
  BY DEF IsSequence
<1>2. ~(0 > 0) /\ ~(1 > y) /\ ~(s < 1)
  BY <1>1
<1> QED BY <1>2 DEF Apart

\* The move of one rank.
Entering(a, ins) == OpAt(a).op = "call" /\ ~ins

Onward(a, ins, o) ==
  IF Entering(a, ins) THEN a
  ELSE IF OpAt(a).op = "check" /\ ~(po_ret = "po_okay" /\ benchmark.fits) THEN Usage
  ELSE Then(a, o)

LEMMA ApartMoves ==
  ASSUME IsCollective(benchmark), NEW a, IsPlace(a), NEW o,
         NEW ins, ins => OpAt(a).op = "call",
         NEW req \in Nat, NEW c \in Nat, NEW kind, NEW low \in Nat,
         ApartAt(a, ins, req, c, kind, low),
         NEW req2 \in Nat, NEW c2 \in Nat, NEW kind2, NEW low2 \in Nat,
         Advance(OpAt(a), ins, req, c, kind, low, req2, c2, kind2, low2)
  PROVE  ApartAt(Onward(a, ins, o), Entering(a, ins), req2, c2, kind2, low2)
<1> SUFFICES ASSUME NEW b,
                    b = (IF OpAt(a).op = "call" /\ ~ins THEN a
                         ELSE IF OpAt(a).op = "check" /\ ~(po_ret = "po_okay" /\ benchmark.fits)
                              THEN Usage
                         ELSE Then(a, o))
             PROVE  ApartAt(b, OpAt(a).op = "call" /\ ~ins, req2, c2, kind2, low2)
  BY Zenon DEF Onward, Entering
<1> DEFINE ops == SectionAt(a).ops
           p == a.pos
           entering == OpAt(a).op = "call" /\ ~ins
<1>1. OpAt(a) = ops[p] /\ p \in 1 .. Len(ops) /\ a.iter \in Nat /\ entering \in BOOLEAN
  BY DEF IsPlace, OpAt
<1>2. WellFormed(benchmark) /\ Closing = benchmark.sizes + 1 /\ benchmark.sizes \in Nat
  BY CollectiveIsSame DEF SameProgram, Uniform, Closing, IsCollective
\* Outside of the loops nothing is started.
<1>3. CASE ~(InBody(a) /\ SectionAt(a).loop)
  <2>1. req = 0
    BY <1>3 DEF ApartAt
  <2>2. OpAt(a).op # "start"
    <3>1. CASE ~InBody(a)
      BY <3>1, OpsInCollective
    <3>2. CASE InBody(a)
      <4>1. IsLead(ops) \/ IsBetween(ops) \/ IsTail(ops)
        BY <1>3, <3>2, SectionKind
      <4> HIDE DEF ops
      <4> QED BY <1>1, <4>1, LeadStatement, BetweenStatement, TailStatement
    <3> QED BY <3>1, <3>2
  <2>3. req2 = 0
    BY <2>1, <2>2 DEF Advance
  <2>4. CASE entering
    <3>1. b = a
      BY <2>4
    <3> QED BY <1>3, <2>3, <3>1 DEF ApartAt
  <2>5. CASE ~entering
    <3>1. InBody(b) /\ SectionAt(b).loop =>
            b.iter = 0 /\ b.pos = 1 /\ IsSequence(SectionAt(b).ops)
      <4> SUFFICES ASSUME InBody(b), SectionAt(b).loop
                   PROVE  b.iter = 0 /\ b.pos = 1 /\ IsSequence(SectionAt(b).ops)
        OBVIOUS
      <4>1. b # Usage
        BY <1>2 DEF InBody, Usage
      <4>2. b = Then(a, o)
        BY <2>5, <4>1
      <4>3. IsPlace(b)
        BY <1>2, <4>2, ThenIsPlace DEF InBody
      <4>4. b.seg # 1
        BY <4>3, SectionKind
      <4>5. IsSequence(SectionAt(b).ops)
        BY <4>3, SectionKind, ShapesUnguarded
      <4>6. CASE ~InBody(a)
        <5>1. a # Over
          BY <1>2 DEF IsPlace, Over
        <5>2. b.size # a.size
          BY <4>6, <5>1 DEF InBody
        <5>3. Then(a, o).size # a.size /\ Then(a, o) # Over /\ Then(a, o).seg # 1
          BY <4>2, <4>4, <5>2 DEF InBody
        <5> QED BY <1>2, <5>3, NewSize
      <4>7. CASE InBody(a)
        <5>1. ~SectionAt(a).loop /\ Len(ops) \in Nat
          BY <1>3, <4>7, SectionKind, ShapesUnguarded
        <5>2. /\ p < Len(ops) => b = Place(a.size, a.seg, a.iter, p + 1)
              /\ p = Len(ops) => b = Place(a.size, a.seg + 1, 0, 1)
          BY <4>2, <4>4, <4>7, <5>1, NextPlace
        <5>3. CASE p < Len(ops)
          <6>1. SectionAt(b) = SectionAt(a)
            BY <5>2, <5>3 DEF Place, SectionAt
          <6> QED BY <5>1, <6>1
        <5>4. CASE p = Len(ops)
          BY <4>5, <5>2, <5>4 DEF Place
        <5> QED BY <1>1, <5>1, <5>3, <5>4
      <4> QED BY <4>6, <4>7
    <3>2. ApartAt(b, FALSE, 0, c2, kind2, low2)
      BY <3>1, ApartAnew
    <3> QED BY <2>3, <2>5, <3>2
  <2> QED BY <2>4, <2>5
<1>4. CASE InBody(a) /\ SectionAt(a).loop
  <2>1. IsMeasuring(ops) /\ IsSequence(ops) /\ Len(ops) \in Nat
    BY <1>4, SectionKind, ShapesUnguarded
  <2>2. OpAt(a).op # "check"
    BY <1>4, OpsInCollective
  <2>3. ASSUME NEW s \in 1 .. Len(ops), NEW y \in 1 .. Len(ops), NEW l \in 1 .. Len(ops),
               IsApart(ops, s, y, l)
        PROVE  /\ entering => Apart(ops, s, y, l, a.iter, p, TRUE, req2, c2, kind2, low2)
               /\ ~entering /\ p < Len(ops) =>
                    Apart(ops, s, y, l, a.iter, p + 1, FALSE, req2, c2, kind2, low2)
               /\ ~entering /\ p = Len(ops) =>
                    req2 = 0 /\ Apart(ops, s, y, l, a.iter + 1, 1, FALSE, req2, c2, kind2, low2)
    <3> DEFINE i == a.iter
    <3>1. Apart(ops, s, y, l, i, p, ins, req, c, kind, low)
      BY <1>4, <2>3 DEF ApartAt
    <3>2. (ins => ops[p].op = "call") /\ Advance(ops[p], ins, req, c, kind, low, req2, c2, kind2, low2)
      BY <1>1
    <3>3. entering <=> ops[p].op = "call" /\ ~ins
      BY <1>1
    <3>5. p \in 1 .. Len(ops) /\ i \in Nat
      BY <1>1
    <3>6. /\ IsSequence(ops) /\ IsApart(ops, s, y, l)
          /\ s \in 1 .. Len(ops) /\ y \in 1 .. Len(ops) /\ l \in 1 .. Len(ops)
      BY <2>1, <2>3
    <3> HIDE DEF ops, p, entering, i
    <3>4. ApartNext(ops, s, y, l, i, p, ins, req2, c2, kind2, low2)
      BY <3>1, <3>2, <3>5, <3>6, ApartStep, Zenon
    <3> QED BY <3>3, <3>4 DEF i, ApartNext
  <2>4. CASE entering
    <3>1. b = a
      BY <2>4
    <3> QED BY <1>4, <2>3, <2>4, <3>1 DEF ApartAt
  <2>5. ASSUME ~entering
        PROVE  /\ p < Len(ops) => b = Place(a.size, a.seg, a.iter, p + 1)
               /\ p = Len(ops) => \/ b = Place(a.size, a.seg, a.iter + 1, 1)
                                  \/ b = Place(a.size, a.seg + 1, 0, 1)
                                  \/ b.seg = 1
    <3>1. b = Then(a, o)
      BY <2>2, <2>5
    <3>2. /\ p < Len(ops) => Then(a, o) = Place(a.size, a.seg, a.iter, p + 1)
          /\ p = Len(ops) =>
               IF SectionAt(a).loop /\ a.iter + 1 < Trips(o)
               THEN Then(a, o) = Place(a.size, a.seg, a.iter + 1, 1)
               ELSE IF a.seg < Len(CodeOf(a.size))
               THEN Then(a, o) = Place(a.size, a.seg + 1, 0, 1)
               ELSE Then(a, o).seg = 1
      BY <1>4, NextPlace
    <3> HIDE DEF p, ops
    <3> QED BY <3>1, <3>2
  <2>6. ASSUME NEW i, NEW q, b = Place(a.size, a.seg, i, q)
        PROVE  /\ b.iter = i /\ b.pos = q /\ SectionAt(b) = SectionAt(a)
    BY <2>6 DEF Place, SectionAt
  <2>7. CASE ~entering /\ p < Len(ops)
    <3>1. b.iter = a.iter /\ b.pos = p + 1 /\ SectionAt(b) = SectionAt(a) /\ b.size = a.size
      BY <2>5, <2>6, <2>7 DEF Place
    <3>2. InBody(b)
      BY <1>2, <1>4, <3>1 DEF InBody, Over
    <3>3. ApartAt(b, FALSE, req2, c2, kind2, low2)
      BY <1>4, <2>3, <2>7, <3>1, <3>2 DEF ApartAt
    <3> QED BY <2>7, <3>3
  <2>8. CASE ~entering /\ p = Len(ops)
    <3>1. req2 = 0
      <4>1. PICK s, y, l \in 1 .. Len(ops) : IsApart(ops, s, y, l)
        BY <2>1 DEF IsMeasuring
      <4> QED BY <2>3, <2>8, <4>1
    <3>2. CASE b = Place(a.size, a.seg, a.iter + 1, 1)
      <4>1. b.iter = a.iter + 1 /\ b.pos = 1 /\ SectionAt(b) = SectionAt(a) /\ b.size = a.size
        BY <2>6, <3>2 DEF Place
      <4>2. InBody(b)
        BY <1>2, <1>4, <4>1 DEF InBody, Over
      <4>3. ApartAt(b, FALSE, req2, c2, kind2, low2)
        BY <1>4, <2>3, <2>8, <4>1, <4>2, ZenonT(60) DEF ApartAt
      <4> QED BY <2>8, <4>3
    <3>3. CASE b = Place(a.size, a.seg + 1, 0, 1) \/ b.seg = 1
      <4>1. ASSUME InBody(b) PROVE IsPlace(b)
        <5>1. b = Then(a, o)
          BY <2>2, <2>8
        <5> QED BY <1>2, <4>1, <5>1, ThenIsPlace DEF InBody
      <4>2. InBody(b) /\ SectionAt(b).loop =>
              b.iter = 0 /\ b.pos = 1 /\ IsSequence(SectionAt(b).ops)
        <5>1. InBody(b) => IsSequence(SectionAt(b).ops) /\ (b.seg = 1 => ~SectionAt(b).loop)
          BY <4>1, SectionKind, ShapesUnguarded
        <5> QED BY <3>3, <5>1 DEF Place
      <4>3. ApartAt(b, FALSE, 0, c2, kind2, low2)
        BY <4>2, ApartAnew
      <4> QED BY <2>8, <3>1, <4>3
    <3> QED BY <2>5, <2>8, <3>2, <3>3
  <2> QED BY <1>1, <2>1, <2>4, <2>7, <2>8
<1> QED BY <1>3, <1>4

\* All ranks have made the first n collective calls.
Known(n) == \A q \in Ranks : called[q] >= n

ApartOn(r) ==
  \E low \in Nat :
    /\ Known(low)
    /\ ApartAt(at[r], inside[r], request[r], called[r], journal[request[r]].kind, low)

SepInv == IsCollective(benchmark) => \A r \in Ranks : ApartOn(r)

\* What a rank knows that leaves a collective, or has seen its request complete.
Completes(r) ==
  /\ OpAt(at[r]).op = "call" /\ inside[r] /\ Full(OpAt(at[r]).kind) => Known(called[r])
  /\ /\ OpAt(at[r]).op \in {"test", "wait"}
     /\ request[r] # 0 /\ request'[r] = 0
     /\ Full(journal[request[r]].kind)
     => Known(request[r])

LEMMA FullIsKnown ==
  ASSUME NEW r, NEW kind, Full(kind), NEW n, Complete(r, kind, n)
  PROVE  Known(n)
BY DEF Complete, Contributors, Full, Known

LEMMA CompletesOf ==
  ASSUME Uniform(benchmark), Shapes, NEW r \in Ranks, IsLocal(Local(r)), at[r] # Over, Step(r)
  PROVE  Completes(r)
<1>1. IsPlace(at[r]) /\ Op(r) = OpAt(at[r])
  BY AnyRank, LocalFields DEF IsLocal
<1>2. ASSUME Op(r).op = "call", inside[r], Full(Op(r).kind)
      PROVE  Known(called[r])
  <2>1. LeaveCollective(r)
    BY <1>2 DEF Step, CheckUsage, SetOptions, Pass, ReadStart, ReadEnd, AddSample, ResetTimer,
                PostSend, PostRecv, CompleteSends, CompleteRecvs, EnterCollective,
                StartCollective, TestCollective, WaitCollective, At
  <2>2. Complete(r, Op(r).kind, called[r])
    BY <2>1 DEF LeaveCollective
  <2> QED BY <1>2, <2>2, FullIsKnown
<1>3. ASSUME Op(r).op \in {"test", "wait"}, request[r] # 0, request'[r] = 0,
             Full(journal[request[r]].kind)
      PROVE  Known(request[r])
  <2>1. TestCollective(r) \/ WaitCollective(r)
    BY <1>3 DEF Step, CheckUsage, SetOptions, Pass, ReadStart, ReadEnd, AddSample, ResetTimer,
                PostSend, PostRecv, CompleteSends, CompleteRecvs, EnterCollective,
                LeaveCollective, StartCollective, At
  <2>2. Finished(r)
    BY <1>3, <2>1 DEF TestCollective, WaitCollective
  <2>3. Complete(r, journal[request[r]].kind, request[r])
    BY <1>3, <2>2 DEF Finished
  <2> QED BY <1>3, <2>3, FullIsKnown
<1> QED BY <1>1, <1>2, <1>3 DEF Completes

LEMMA CompletingMoves ==
  ASSUME IsCollective(benchmark), Shapes, \A r \in Ranks : IsLocal(Local(r)),
         [WinNext]_<<vars, windows>>
  PROVE  \/ \E r \in Ranks : Advances(r) /\ Completes(r)
         \/ UNCHANGED <<launch, at, inside, called, journal, request>>
<1>1. Uniform(benchmark)
  BY CollectiveIsSame DEF SameProgram
<1>2. ASSUME NEW r \in Ranks
      PROVE  at[r] # Over => OpAt(at[r]).op \in CollectiveOps
  BY OpsInCollective, LocalFields DEF IsLocal
<1>3. CASE \E r \in Ranks : Step(r)
  <2>1. PICK r \in Ranks : Step(r)
    BY <1>3
  <2>2. IsLocal(Local(r))
    OBVIOUS
  <2>3. Advances(r)
    BY <1>1, <2>1, <2>2, PlainStep, UsageStep, OptionsStep, EnterStep, LeaveStep, StartStep DEF Step
  <2>4. Completes(r)
    BY <1>1, <2>1, <2>2, <2>3, CompletesOf DEF Advances
  <2> QED BY <2>3, <2>4
<1>4. CASE \E r \in Ranks : WinStep(r)
  BY <1>1, <1>2, <1>4, NoWindows
<1>5. CASE \/ UNCHANGED <<vars, windows>>
           \/ \E r \in Ranks : \E n \in DOMAIN pending[r] : TakePlace(r, n)
           \/ Exit
           \/ \E p, q \in Ranks : \E tag \in Tags(p) : Deliver(p, q, tag)
  BY <1>5 DEF TakePlace, Exit, Deliver, vars, gathering, launch
<1> QED BY <1>3, <1>4, <1>5 DEF WinNext, Next

LEMMA SameApart ==
  ASSUME UNCHANGED launch
  PROVE  \A a, ins, req, c, kind, low :
           ApartAt(a, ins, req, c, kind, low)' = ApartAt(a, ins, req, c, kind, low)
<1>1. \A a : SectionAt(a)' = SectionAt(a)
  BY SameSections
<1>2. benchmark' = benchmark /\ Over' = Over
  BY SameSections DEF launch
<1>3. \A a : InBody(a)' = InBody(a)
  BY <1>2 DEF InBody
<1> TAKE a, ins, req, c, kind, low
<1> DEFINE Held(ops) == \A s, y, l \in 1 .. Len(ops) :
                          IsApart(ops, s, y, l) =>
                            Apart(ops, s, y, l, a.iter, a.pos, ins, req, c, kind, low)
<1>4. ApartAt(a, ins, req, c, kind, low) =
        IF InBody(a) /\ SectionAt(a).loop THEN Held(SectionAt(a).ops) ELSE req = 0
  BY Zenon DEF ApartAt
<1>5. ApartAt(a, ins, req, c, kind, low)' =
        IF InBody(a)' /\ SectionAt(a)'.loop THEN Held(SectionAt(a)'.ops) ELSE req = 0
  BY Zenon DEF ApartAt
<1> HIDE DEF Held
<1> QED BY <1>1, <1>3, <1>4, <1>5

\* Without a request its kind does not matter.
LEMMA KindOfNone ==
  ASSUME NEW a, NEW ins, NEW c, NEW kind, NEW low, ApartAt(a, ins, 0, c, kind, low)
  PROVE  \A other : ApartAt(a, ins, 0, c, other, low)
<1> TAKE other
<1>1. ASSUME NEW ops, NEW s, NEW y, NEW l, NEW i, NEW p,
             Apart(ops, s, y, l, i, p, ins, 0, c, kind, low)
      PROVE  Apart(ops, s, y, l, i, p, ins, 0, c, other, low)
  BY <1>1 DEF Apart
<1> QED BY <1>1, Zenon DEF ApartAt

\* Loops are in the body.
LEMMA LoopInBody ==
  ASSUME IsCollective(benchmark), NEW a, IsPlace(a), a # Over, SectionAt(a).loop
  PROVE  InBody(a)
<1>1. Closing = benchmark.sizes + 1 /\ benchmark.sizes \in Nat
  BY DEF IsCollective, Closing
<1>2. ASSUME a.size = 0 \/ a.size = Closing PROVE FALSE
  <2>1. PICK ops : CodeOf(a.size) = <<Once(ops)>>
    BY <1>1, <1>2 DEF CodeOf, Code
  <2>2. SectionAt(a) = Once(ops)
    BY <2>1 DEF IsPlace, SectionAt
  <2> QED BY <2>2 DEF Once
<1> QED BY <1>1, <1>2 DEF InBody, IsPlace

\* The rank that moves.
LEMMA MoverApart ==
  ASSUME IsCollective(benchmark), PathInv, PendingInv, NEW r \in Ranks, Shapes,
         Advances(r), Completes(r), Kept(r), ApartOn(r)
  PROVE  \E low2 \in Nat :
           /\ Known(low2)
           /\ ApartAt(at'[r], inside'[r], request'[r], called'[r],
                      journal'[request'[r]].kind, low2)
<1> DEFINE a == at[r]
           o == OpAt(at[r])
           c == called[r]
           req == request[r]
           kind == journal[request[r]].kind
           req2 == request'[r]
           c2 == called'[r]
           kind2 == journal'[request'[r]].kind
<1>1. /\ a # Over /\ IsPlace(a) /\ inside[r] \in BOOLEAN /\ (inside[r] => o.op = "call")
      /\ Len(journal) \in Nat /\ c \in 0 .. Len(journal)
  BY RankOnPath, LocalFields DEF Advances, IsLocal
<1>2. req \in Nat /\ (req # 0 => req \in 1 .. Len(journal))
  BY <1>1 DEF PendingInv, Pending
<1>3. PICK low \in Nat : Known(low) /\ ApartAt(a, inside[r], req, c, kind, low)
  BY DEF ApartOn
<1>4. /\ at'[r] = (IF o.op = "call" /\ ~inside[r] THEN a
                   ELSE IF o.op = "check" /\ ~(po_ret = "po_okay" /\ benchmark.fits) THEN Usage
                   ELSE Then(a, Chosen(Local(r))))
      /\ inside'[r] = (o.op = "call" /\ ~inside[r])
      /\ c2 = (IF Calls(Local(r)) THEN c + 1 ELSE c)
  BY LocalFields DEF Advances, Local, NextLocal
<1>5. Calls(Local(r)) <=> o.op = "start" \/ (o.op = "call" /\ ~inside[r])
  BY LocalFields DEF Calls
<1>6. ASSUME NEW n \in Nat, Known(n)
      PROVE  \E m \in Nat : Known(m) /\ low <= m /\ n <= m
  <2>1. CASE n <= low
    BY <1>3, <2>1
  <2>2. CASE ~(n <= low)
    BY <1>6, <2>2
  <2> QED BY <2>1, <2>2
<1>7. PICK low2 \in Nat :
        /\ Known(low2) /\ low <= low2
        /\ o.op = "call" /\ inside[r] /\ Full(o.kind) => c <= low2
        /\ o.op \in {"test", "wait"} /\ req # 0 /\ req2 = 0 /\ Full(kind) => req <= low2
  <2>1. CASE o.op = "call" /\ inside[r] /\ Full(o.kind)
    BY <1>1, <1>6, <2>1 DEF Completes
  <2>2. CASE o.op \in {"test", "wait"} /\ req # 0 /\ req2 = 0 /\ Full(kind)
    BY <1>2, <1>6, <2>2 DEF Completes
  <2>3. CASE /\ ~(o.op = "call" /\ inside[r] /\ Full(o.kind))
             /\ ~(o.op \in {"test", "wait"} /\ req # 0 /\ req2 = 0 /\ Full(kind))
    BY <1>3, <2>3
  <2> QED BY <2>1, <2>2, <2>3
<1>8. /\ req2 \in Nat
      /\ \/ o.op = "start" /\ req2 = c + 1 /\ kind2 = o.kind
         \/ o.op \in {"test", "wait"} /\ req2 = 0
         \/ o.op \notin {"start", "wait"} /\ req2 = req /\ (req # 0 => kind2 = kind)
  <2>1. CASE o.op = "start" /\ request' = [request EXCEPT ![r] = c + 1]
    <3>1. req2 = c + 1
      BY <2>1 DEF Shapes
    <3>2. journal'[c + 1] = EntryOf(Local(r)) /\ EntryOf(Local(r)).kind = o.kind
      BY <1>5, <2>1, LocalFields DEF Kept, EntryOf
    <3> QED BY <1>1, <2>1, <3>1, <3>2
  <2>2. CASE o.op \in {"test", "wait"} /\ request' = [request EXCEPT ![r] = 0]
    BY <2>2 DEF Shapes
  <2>3. CASE o.op \notin {"start", "wait"} /\ request' = request
    <3>1. req # 0 => journal'[req] = journal[req]
      BY <1>2 DEF Kept
    <3> QED BY <1>2, <2>3, <3>1
  <2> QED BY <2>1, <2>2, <2>3 DEF Advances, Requested
<1> HIDE DEF a, c, req, kind, req2, c2, kind2
<1>9. c \in Nat /\ c2 \in Nat
  BY <1>1, <1>4
<1>10. Advance(OpAt(a), inside[r], req, c, kind, low, req2, c2, kind2, low2)
  BY <1>4, <1>5, <1>7, <1>8 DEF Advance, a
<1>11. at'[r] = Onward(a, inside[r], Chosen(Local(r))) /\ inside'[r] = Entering(a, inside[r])
  BY <1>4 DEF Onward, Entering, a
<1>12. ApartAt(Onward(a, inside[r], Chosen(Local(r))), Entering(a, inside[r]), req2, c2, kind2, low2)
  <2>1. inside[r] => OpAt(a).op = "call"
    BY <1>1 DEF a
  <2> QED BY <1>1, <1>2, <1>3, <1>7, <1>8, <1>9, <1>10, <2>1, ApartMoves
<1>13. ApartAt(at'[r], inside'[r], req2, c2, kind2, low2)
  BY <1>11, <1>12
<1> QED BY <1>7, <1>13 DEF req2, c2, kind2

LEMMA SepInvStep ==
  ASSUME CommonPathInv, SepInv, [WinNext]_<<vars, windows>>
  PROVE  SepInv'
<1> SUFFICES ASSUME IsCollective(benchmark)'
             PROVE  \A r \in Ranks' : ApartOn(r)'
  BY DEF SepInv
<1>1. launch' = launch
  BY LaunchStays
<1>2. IsCollective(benchmark) /\ Ranks' = Ranks
  BY <1>1, SameRight, SameSections
<1>3. SameProgram(benchmark) /\ PathInv /\ PendingInv /\ \A r \in Ranks : ApartOn(r)
  BY <1>2, CollectiveIsSame DEF CommonPathInv, SepInv
<1>4. Shapes /\ \A r \in Ranks : IsLocal(Local(r))
  BY <1>3, RankOnPath DEF PathInv
<1>5. ASSUME NEW r \in Ranks, NEW low \in Nat, Known(low)',
             ApartAt(at'[r], inside'[r], request'[r], called'[r], journal'[request'[r]].kind, low)
      PROVE  ApartOn(r)'
  <2>1. PICK a, ins, req, c, kind : /\ a = at'[r] /\ ins = inside'[r] /\ req = request'[r]
                                    /\ c = called'[r] /\ kind = journal'[request'[r]].kind
    OBVIOUS
  <2>2. ApartAt(a, ins, req, c, kind, low)'
    BY <1>1, <1>5, <2>1, SameApart
  <2> QED BY <1>5, <2>1, <2>2 DEF ApartOn
<1>6. CASE \E r \in Ranks : Advances(r) /\ Completes(r)
  <2>1. PICK r \in Ranks : Advances(r) /\ Completes(r)
    BY <1>6
  <2>2. Kept(r)
    BY <1>3, <2>1, StaysOnPath DEF SameProgram
  <2>3. \A q \in Ranks : called[q] \in Nat /\ called'[q] \in Nat /\ called[q] <= called'[q]
    <3>1. \A q \in Ranks : called[q] \in Nat
      BY <1>4, LocalFields DEF IsLocal
    <3>2. called'[r] \in {called[r], called[r] + 1}
      BY <2>1, LocalFields DEF Advances, Local, NextLocal
    <3>3. \A q \in Ranks \ {r} : called'[q] = called[q]
      BY <2>1 DEF Advances, Local
    <3> QED BY <3>1, <3>2, <3>3
  <2>4. ASSUME NEW n \in Nat, Known(n) PROVE Known(n)'
    BY <1>2, <2>3, <2>4 DEF Known
  <2>5. ApartOn(r)'
    <3>1. PICK low \in Nat :
            /\ Known(low)
            /\ ApartAt(at'[r], inside'[r], request'[r], called'[r], journal'[request'[r]].kind, low)
      BY <1>2, <1>3, <1>4, <2>1, <2>2, MoverApart
    <3> QED BY <1>5, <2>4, <3>1
  <2>6. ASSUME NEW q \in Ranks \ {r} PROVE ApartOn(q)'
    <3>1. PICK low \in Nat :
            /\ Known(low)
            /\ ApartAt(at[q], inside[q], request[q], called[q], journal[request[q]].kind, low)
      BY <1>3 DEF ApartOn
    <3>2. at'[q] = at[q] /\ inside'[q] = inside[q] /\ called'[q] = called[q]
      BY <2>1 DEF Advances, Local
    <3>3. request'[q] = request[q]
      BY <1>4, <2>1 DEF Advances, Requested, Shapes
    <3>4. CASE request[q] # 0
      <4>1. request[q] \in 1 .. Len(journal)
        <5>1. request[q] \in 1 .. called[q]
          BY <1>3, <3>4 DEF PendingInv, Pending
        <5>2. Len(journal) \in Nat /\ called[q] \in 0 .. Len(journal)
          BY <1>3, RankOnPath
        <5> QED BY <5>1, <5>2
      <4>2. journal'[request[q]] = journal[request[q]]
        BY <2>2, <4>1 DEF Kept
      <4> QED BY <1>5, <2>4, <3>1, <3>2, <3>3, <4>2
    <3>5. CASE request[q] = 0
      <4>1. ApartAt(at[q], inside[q], 0, called[q], journal'[request'[q]].kind, low)
        BY <3>1, <3>5, KindOfNone
      <4> QED BY <1>5, <2>4, <3>1, <3>2, <3>3, <3>5, <4>1
    <3> QED BY <3>4, <3>5
  <2> QED BY <1>2, <2>5, <2>6
<1>7. CASE UNCHANGED <<launch, at, inside, called, journal, request>>
  <2>1. ASSUME NEW r \in Ranks PROVE ApartOn(r)'
    <3>1. PICK low \in Nat :
            /\ Known(low)
            /\ ApartAt(at[r], inside[r], request[r], called[r], journal[request[r]].kind, low)
      BY <1>3 DEF ApartOn
    <3>2. Known(low)'
      BY <1>2, <1>7, <3>1 DEF Known
    <3> QED BY <1>5, <1>7, <3>1, <3>2
  <2> QED BY <1>2, <2>1
<1> QED BY <1>2, <1>4, <1>6, <1>7, CompletingMoves

LEMMA SepInvInit ==
  ASSUME WinInit
  PROVE  SepInv
<1> SUFFICES ASSUME NEW r \in Ranks
             PROVE  ApartOn(r)
  BY DEF SepInv
<1>1. /\ at[r].size = 0 /\ request[r] = 0
      /\ \A q \in Ranks : called[q] = 0
  BY DEF WinInit, Init
<1>2. ~InBody(at[r])
  BY <1>1 DEF InBody
<1>3. Known(0)
  BY <1>1 DEF Known
<1>4. ApartAt(at[r], inside[r], request[r], called[r], journal[request[r]].kind, 0)
  BY <1>1, <1>2 DEF ApartAt
<1> QED BY <1>3, <1>4 DEF ApartOn

(***************************************************************************)
(* What a rank of a collective benchmark knows of the others' progress     *)
(* where it stands in a loop: past the last collective of an iteration     *)
(* they have called all that it has, and at the measured one all but that. *)
(***************************************************************************)
THEOREM SeparationInvariance == WinSpec => []SepInv
<1>1. WinInit => SepInv
  BY SepInvInit
<1>2. CommonPathInv /\ SepInv /\ [WinNext]_<<vars, windows>> => SepInv'
  BY SepInvStep
<1> QED BY <1>1, <1>2, CommonPathInvariance, PTL DEF WinSpec

(***************************************************************************)
(* The measured collectives of a benchmark do not overlap: from the second *)
(* iteration on, a process that is in the measured collective finds that   *)
(* all others have called everything before it, on any number of processes *)
(* and even where the collective lets its root or its leaves run ahead.    *)
(***************************************************************************)
THEOREM IterationsTheorem == WinSpec => [](IsCollective(benchmark) => IterationsSeparated)
<1>1. CommonPathInv /\ SepInv => (IsCollective(benchmark) => IterationsSeparated)
  <2> SUFFICES ASSUME CommonPathInv, SepInv, IsCollective(benchmark),
                      NEW r \in Ranks, InMeasured(r), Section(r).loop, at[r].iter > 0,
                      NEW q \in Ranks
               PROVE  called[q] >= called[r] - 1
    BY DEF IterationsSeparated
  <2>1. PathInv /\ PendingInv /\ Uniform(benchmark) /\ ApartOn(r)
    BY CollectiveIsSame DEF CommonPathInv, SepInv, SameProgram
  <2>2. at[r] # Over /\ IsLocal(Local(r))
    BY <2>1, RankOnPath DEF InMeasured, At, Running
  <2>3. IsPlace(at[r]) /\ OpAt(at[r]) = Op(r) /\ Section(r) = SectionAt(at[r])
    BY <2>1, <2>2, LocalFields, AnyRank DEF IsLocal
  <2>4. PICK low \in Nat :
          /\ Known(low)
          /\ ApartAt(at[r], inside[r], request[r], called[r], journal[request[r]].kind, low)
    BY <2>1 DEF ApartOn
  <2>5. called[q] \in Nat /\ called[r] \in Nat /\ low <= called[q]
    <3>1. IsLocal(Local(q))
      BY <2>1, RankOnPath
    <3> QED BY <2>2, <2>4, <3>1, LocalFields DEF IsLocal, Known
  <2>6. InBody(at[r])
    <3>1. SectionAt(at[r]).loop
      BY <2>3
    <3> QED BY <2>2, <2>3, <3>1, LoopInBody
  <2> DEFINE a == at[r]
             ops == SectionAt(a).ops
             p == a.pos
  <2>7. IsMeasuring(ops) /\ p \in 1 .. Len(ops) /\ OpAt(a) = ops[p]
    BY <2>3, <2>6, SectionKind DEF IsPlace, OpAt
  <2>8. PICK s, y, l \in 1 .. Len(ops) : IsApart(ops, s, y, l)
    BY <2>7 DEF IsMeasuring
  <2>9. Apart(ops, s, y, l, a.iter, p, inside[r], request[r], called[r],
              journal[request[r]].kind, low)
    BY <2>3, <2>4, <2>6, <2>8 DEF ApartAt
  <2>10. p <= y
    <3>1. CASE request[r] # 0
      BY <2>9, <3>1 DEF Apart
    <3>2. CASE request[r] = 0
      <4>1. ops[p].measured
        BY <2>3, <2>7, <3>2 DEF InMeasured
      <4>2. p = y
        BY <2>7, <2>8, <4>1 DEF IsApart
      <4>3. y \in Nat
        OBVIOUS
      <4> QED BY <4>2, <4>3
    <3> QED BY <3>1, <3>2
  <2>11. called[r] <= low + 1
    BY <2>9, <2>10 DEF Apart
  <2> QED BY <2>5, <2>11
<1> QED BY <1>1, CommonPathInvariance, SeparationInvariance, PTL

-----------------------------------------------------------------------------
(***************************************************************************)
(* The benchmarks that are collective in this sense: every collective of   *)
(* OmbCollective, OmbShmem and OmbUpc, on any number of processes.         *)
(***************************************************************************)
\* Statements outside of the loops that are no settings.
Idle(o)       == IsQuiet(o) \/ IsReport(o)
AllIdle(ops)  == IsSequence(ops) /\ \A n \in 1 .. Len(ops) : Idle(ops[n])

\* Concatenation keeps the elements of its arguments.
LEMMA Joined ==
  ASSUME NEW f, NEW g, IsSequence(f), IsSequence(g)
  PROVE  /\ IsSequence(f \o g) /\ Len(f \o g) = Len(f) + Len(g)
         /\ \A n \in 1 .. Len(f) : (f \o g)[n] = f[n]
         /\ \A n \in 1 .. Len(g) : (f \o g)[Len(f) + n] = g[n]
         /\ \A n \in 1 .. Len(f \o g) :
              \/ n \in 1 .. Len(f) /\ (f \o g)[n] = f[n]
              \/ n - Len(f) \in 1 .. Len(g) /\ (f \o g)[n] = g[n - Len(f)]
<1> DEFINE S == {f[n] : n \in 1 .. Len(f)} \cup {g[n] : n \in 1 .. Len(g)}
<1>1. f \in Seq(S) /\ g \in Seq(S)
  <2>1. f \in Seq({f[n] : n \in 1 .. Len(f)}) /\ g \in Seq({g[n] : n \in 1 .. Len(g)})
    BY SequenceRange
  <2> QED BY <2>1
<1> HIDE DEF S
<1>2. f \o g \in Seq(S) /\ Len(f \o g) = Len(f) + Len(g) /\ Len(f) \in Nat /\ Len(g) \in Nat
  BY <1>1
<1>3. IsSequence(f \o g)
  <2>1. PICK h : h = f \o g
    OBVIOUS
  <2>2. h \in Seq(S)
    BY <1>2, <2>1
  <2>3. IsSequence(h)
    BY <2>2 DEF IsSequence
  <2> QED BY <2>1, <2>3, Zenon
<1>4. /\ \A n \in 1 .. Len(f) : (f \o g)[n] = f[n]
      /\ \A n \in 1 .. Len(g) : (f \o g)[Len(f) + n] = g[n]
  BY <1>1
<1>5. ASSUME NEW n \in 1 .. Len(f \o g)
      PROVE  \/ n \in 1 .. Len(f) /\ (f \o g)[n] = f[n]
             \/ n - Len(f) \in 1 .. Len(g) /\ (f \o g)[n] = g[n - Len(f)]
  BY <1>1, <1>2
<1> QED BY <1>2, <1>3, <1>4, <1>5

LEMMA QuietJoined ==
  ASSUME NEW f, NEW g, AllQuiet(f), AllQuiet(g)
  PROVE  AllQuiet(f \o g)
BY Joined DEF AllQuiet

LEMMA IdleJoined ==
  ASSUME NEW f, NEW g, AllIdle(f), AllIdle(g)
  PROVE  AllIdle(f \o g) /\ Len(f \o g) = Len(f) + Len(g)
BY Joined DEF AllIdle

\* The statements.
LEMMA Statements ==
  /\ IsQuiet(Touch)
  /\ \A c : IsQuiet(Call(c))
  /\ \A c, arrays : IsQuiet(Synced(c, arrays))
  /\ IsReport(Report)
  /\ Reset.op = "reset" /\ Unmeasured(Reset)
  /\ TStart.op = "t_start" /\ Unmeasured(TStart)
  /\ Sample.op = "sample" /\ Unmeasured(Sample)
  /\ Test.op = "test" /\ Unmeasured(Test)
  /\ \A c : Start(c).op = "start" /\ Unmeasured(Start(c))
BY DEF Touch, Call, Synced, Report, Reset, TStart, Sample, Test, Start, Do, IsQuiet, IsReport,
       Unmeasured

IsCall(c) == c.op = "call" /\ c.measured /\ ~c.at_skip

LEMMA BarrierIsMeasured ==
  IsCall(Measured(Barrier)) /\ Full(Measured(Barrier).kind) /\ Full("barrier")
BY DEF Measured, Barrier, Call, Do, IsCall, Full

LEMMA MeasuredStatements ==
  /\ \A c : IsCall(Measured(Call(c))) /\ Measured(Call(c)).kind = c
  /\ \A c, arrays : IsCall(Measured(Synced(c, arrays))) /\ Measured(Synced(c, arrays)).kind = c
  /\ Measured(Wait).op = "wait" /\ Measured(Wait).measured /\ ~Measured(Wait).at_skip
BY DEF Measured, Call, Synced, Wait, Do, IsCall

LEMMA Settings ==
  /\ \A k : IsSetting(SetIfLarge(k)) /\ IsSetting(SetFixed(k))
  /\ \A s : s.loop \in (Nat \ {0}) \cup {Keep} /\ s.skip \in Nat \cup {Keep}
              => IsSetting(Assign(s))
<1>1. ASSUME NEW s PROVE Assign(s).op = "options" /\ Unmeasured(Assign(s)) /\ Assign(s).set = s
  BY DEF Assign, Do, Unmeasured
<1>2. \A s : s.loop \in (Nat \ {0}) \cup {Keep} /\ s.skip \in Nat \cup {Keep}
               => IsSetting(Assign(s))
  BY <1>1 DEF IsSetting
<1>3. ASSUME NEW k PROVE IsSetting(SetIfLarge(k)) /\ IsSetting(SetFixed(k))
  <2>1. IsSetting(SetIfLarge(k))
    BY <1>2, OmbOpsAssumption DEF SetIfLarge, Keeping
  <2>2. IsSetting(SetFixed(k))
    BY <1>2, OmbOpsAssumption, OmbCollectiveAssumption DEF SetFixed
  <2> QED BY <2>1, <2>2
<1> QED BY <1>2, <1>3

\* The sections.
LEMMA LeadIs ==
  ASSUME NEW set, IsSetting(set), NEW before, AllQuiet(before)
  PROVE  IsLead(<<set>> \o before \o <<Reset>>)
<1> DEFINE f == <<set>> \o before
           ops == f \o <<Reset>>
<1>1. IsSequence(<<set>>) /\ IsSequence(before) /\ IsSequence(<<Reset>>)
  BY DEF AllQuiet, IsSequence
<1>2. /\ IsSequence(f) /\ Len(f) = 1 + Len(before)
      /\ \A n \in 1 .. Len(f) : IsQuiet(f[n]) \/ IsSetting(f[n])
  <2>1. /\ IsSequence(f) /\ Len(f) = 1 + Len(before)
        /\ \A n \in 1 .. Len(f) : \/ n \in 1 .. 1 /\ f[n] = <<set>>[n]
                                  \/ n - 1 \in 1 .. Len(before) /\ f[n] = before[n - 1]
    BY <1>1, Joined
  <2> QED BY <2>1 DEF AllQuiet
<1>3. Len(before) \in Nat
  BY <1>1 DEF IsSequence
<1> HIDE DEF f
<1>4. /\ IsSequence(ops) /\ Len(ops) = Len(f) + 1 /\ ops[Len(f) + 1] = Reset
      /\ \A n \in 1 .. Len(f) : ops[n] = f[n]
  BY <1>1, <1>2, Joined
<1> HIDE DEF ops
<1>5. IsLead(ops)
  BY <1>2, <1>3, <1>4, Statements DEF IsLead, EndsWithReset
<1> QED BY <1>5 DEF ops, f

LEMMA TailIs ==
  ASSUME NEW ops, AllIdle(ops), Len(ops) # 0
  PROVE  IsTail(ops)
BY DEF IsTail, AllIdle, Idle

LEMMA BetweenJoined ==
  ASSUME NEW f, AllIdle(f), NEW g, IsBetween(g)
  PROVE  IsBetween(f \o g)
<1> DEFINE ops == f \o g
<1>1. /\ IsSequence(f) /\ IsSequence(g) /\ Len(f) \in Nat /\ Len(g) \in Nat /\ Len(g) # 0
      /\ g[Len(g)].op = "reset" /\ Unmeasured(g[Len(g)])
  BY DEF AllIdle, IsBetween, EndsWithReset, IsSequence
<1>2. IsSequence(f) /\ IsSequence(g)
  BY <1>1
<1>3. /\ IsSequence(ops) /\ Len(ops) = Len(f) + Len(g)
      /\ \A n \in 1 .. Len(g) : ops[Len(f) + n] = g[n]
      /\ \A n \in 1 .. Len(ops) :
           \/ n \in 1 .. Len(f) /\ ops[n] = f[n]
           \/ n - Len(f) \in 1 .. Len(g) /\ ops[n] = g[n - Len(f)]
  BY <1>2, Joined
<1> HIDE DEF ops
<1>4. Len(ops) # 0 /\ ops[Len(ops)] = g[Len(g)]
  BY <1>1, <1>3
<1>5. ASSUME NEW p \in 1 .. Len(ops) - 1
      PROVE  IsQuiet(ops[p]) \/ IsReport(ops[p])
  <2>1. CASE p \in 1 .. Len(f) /\ ops[p] = f[p]
    BY <2>1 DEF AllIdle, Idle
  <2>2. CASE p - Len(f) \in 1 .. Len(g) /\ ops[p] = g[p - Len(f)]
    <3>1. p - Len(f) \in 1 .. Len(g) - 1
      BY <1>1, <1>3, <2>2
    <3> QED BY <2>2, <3>1 DEF IsBetween
  <2>3. p \in 1 .. Len(ops)
    BY <1>1, <1>3
  <2> QED BY <1>3, <2>1, <2>2, <2>3
<1>6. IsBetween(ops)
  BY <1>1, <1>3, <1>4, <1>5 DEF IsBetween, EndsWithReset
<1> QED BY <1>6 DEF ops

\* A blocking collective between the two readings of the clock.
AllBarriers(ops) == IsSequence(ops) /\ \A n \in 1 .. Len(ops) : ops[n] = Barrier

LEMMA CallIsTimed ==
  ASSUME NEW ops, IsSequence(ops), NEW x \in Nat \ {0}, x + 2 \in 1 .. Len(ops),
         ops[x] = TStart, IsCall(ops[x + 1]), ops[x + 2] = Sample,
         \A p \in 1 .. Len(ops) : p \in {x, x + 1, x + 2} \/ ops[p] = Barrier,
         Len(ops) > x + 2 \/ Full(ops[x + 1].kind)
  PROVE  IsMeasuring(ops)
<1>1. /\ x < x + 1 /\ x + 1 + 1 = x + 2 /\ {x, x + 1} \subseteq 1 .. Len(ops)
      /\ Len(ops) \in Nat /\ x + 1 < Len(ops)
  BY DEF IsSequence
<1>2. /\ IsQuiet(Barrier) /\ ~Barrier.measured /\ Barrier.op = "call" /\ Full(Barrier.kind)
      /\ Barrier.op \notin {"start", "test", "wait"}
  BY DEF Barrier, Call, Do, IsQuiet, Unmeasured, Full
<1>3. IsTimed(ops, x, x + 1)
  BY <1>1, <1>2, Statements DEF IsTimed, IsCall
<1>4. ASSUME NEW l \in 1 .. Len(ops),
             (l = x + 1 /\ Len(ops) = x + 2 /\ Full(ops[x + 1].kind)) \/ (l = Len(ops) /\ l > x + 2)
      PROVE  IsApart(ops, x + 1, x + 1, l)
  <2>1. ASSUME NEW p \in 1 .. Len(ops)
        PROVE  /\ ops[p].measured => p = x + 1
               /\ p < x + 1 \/ p > x + 1 => /\ ops[p].op \notin {"start", "test", "wait"}
                                            /\ ops[p].op = "call" => Full(ops[p].kind)
               /\ p > x + 1 /\ p > l => ops[p].op # "call"
    <3>1. CASE p \in {x, x + 2}
      <4>1. ops[p] \in {TStart, Sample}
        BY <3>1
      <4> QED BY <4>1, Statements DEF Unmeasured
    <3>2. CASE p = x + 1
      BY <3>2
    <3>3. CASE p \notin {x, x + 1, x + 2}
      <4>1. ops[p] = Barrier /\ ~(p > x + 1 /\ p > l)
        BY <1>1, <1>4, <3>3
      <4> QED BY <1>2, <4>1
    <3> QED BY <3>1, <3>2, <3>3
  <2>2. (l = x + 1 /\ Full(ops[x + 1].kind)) \/ (l > x + 1 /\ ops[l].op = "call")
    <3>1. CASE l = Len(ops) /\ l > x + 2
      <4>1. l \notin {x, x + 1, x + 2} /\ l > x + 1
        BY <1>1, <3>1
      <4> QED BY <1>2, <4>1
    <3> QED BY <1>4, <3>1
  <2>3. ops[x + 1].op = "call"
    BY DEF IsCall
  <2>4. \A p \in 1 .. Len(ops) : ~(x + 1 < p /\ p < x + 1)
    OBVIOUS
  <2> QED BY <1>1, <2>1, <2>2, <2>3, <2>4 DEF IsApart
<1>5. \E l \in 1 .. Len(ops) : IsApart(ops, x + 1, x + 1, l)
  <2>1. CASE Len(ops) > x + 2
    <3>1. PICK l \in 1 .. Len(ops) : l = Len(ops) /\ l > x + 2
      BY <1>1, <2>1
    <3>2. IsApart(ops, x + 1, x + 1, l)
      BY <1>4, <3>1
    <3> QED BY <3>1, <3>2, Zenon
  <2>2. CASE ~(Len(ops) > x + 2)
    <3>1. PICK l \in 1 .. Len(ops) : l = x + 1 /\ Len(ops) = x + 2
      BY <1>1, <2>2
    <3>2. IsApart(ops, x + 1, x + 1, l)
      BY <1>4, <2>2, <3>1
    <3> QED BY <3>1, <3>2, Zenon
  <2> QED BY <2>1, <2>2
<1> QED BY <1>1, <1>3, <1>5 DEF IsMeasuring

LEMMA CallIsMeasured ==
  ASSUME NEW c, IsCall(c)
  PROVE  /\ Full(c.kind) => IsMeasuring(<<TStart, c, Sample>>)
         /\ IsMeasuring(<<TStart, c, Sample, Barrier>>)
         /\ IsMeasuring(<<TStart, c, Sample>> \o <<Barrier>>)
         /\ \A before : AllBarriers(before) =>
              IsMeasuring(before \o <<TStart, c, Sample, Barrier>>)
<1>2. PICK f : f = <<TStart, c, Sample>>
  OBVIOUS
<1>3. IsSequence(f) /\ Len(f) = 3 /\ f[1] = TStart /\ f[2] = c /\ f[3] = Sample
  BY <1>2 DEF IsSequence
<1>4. PICK g : g = <<TStart, c, Sample, Barrier>>
  OBVIOUS
<1>5. /\ IsSequence(g) /\ Len(g) = 4 /\ g[1] = TStart /\ g[2] = c /\ g[3] = Sample
      /\ g[4] = Barrier
  BY <1>4 DEF IsSequence
<1>6. Full(c.kind) => IsMeasuring(f)
  <2>1. \A p \in 1 .. 3 : p \in {1, 1 + 1, 1 + 2}
    OBVIOUS
  <2> QED BY <1>3, <2>1, CallIsTimed
<1>7. ASSUME NEW h, IsSequence(h), Len(h) = 4, h[1] = TStart, h[2] = c, h[3] = Sample,
             h[4] = Barrier
      PROVE  IsMeasuring(h)
  <2>1. \A p \in 1 .. 4 : p \in {1, 1 + 1, 1 + 2} \/ p = 4
    OBVIOUS
  <2>2. \A p \in 1 .. Len(h) : p \in {1, 1 + 1, 1 + 2} \/ h[p] = Barrier
    BY <1>7, <2>1
  <2> QED BY <1>7, <2>2, CallIsTimed
<1>8. IsMeasuring(f \o <<Barrier>>)
  <2> DEFINE h == f \o <<Barrier>>
  <2>1. IsSequence(f)
    BY <1>3
  <2>2. IsSequence(<<Barrier>>) /\ Len(<<Barrier>>) = 1 /\ <<Barrier>>[1] = Barrier
    BY DEF IsSequence
  <2>3. /\ IsSequence(h) /\ Len(h) = Len(f) + Len(<<Barrier>>)
        /\ \A n \in 1 .. Len(f) : h[n] = f[n]
        /\ \A n \in 1 .. Len(<<Barrier>>) : h[Len(f) + n] = <<Barrier>>[n]
    BY <2>1, <2>2, Joined
  <2> HIDE DEF h
  <2>4. Len(h) = 4 /\ h[1] = TStart /\ h[2] = c /\ h[3] = Sample /\ h[4] = Barrier
    BY <1>3, <2>2, <2>3
  <2>5. IsMeasuring(h)
    BY <1>7, <2>3, <2>4
  <2> QED BY <2>5 DEF h
<1>9. ASSUME NEW before, AllBarriers(before) PROVE IsMeasuring(before \o g)
  <2> DEFINE ops == before \o g
  <2>1. IsSequence(g)
    BY <1>5
  <2>2. IsSequence(before) /\ Len(before) \in Nat
    BY <1>9 DEF AllBarriers, IsSequence
  <2>3. /\ IsSequence(ops) /\ Len(ops) = Len(before) + Len(g)
        /\ \A n \in 1 .. Len(g) : ops[Len(before) + n] = g[n]
        /\ \A n \in 1 .. Len(ops) :
             \/ n \in 1 .. Len(before) /\ ops[n] = before[n]
             \/ n - Len(before) \in 1 .. Len(g) /\ ops[n] = g[n - Len(before)]
    BY <2>1, <2>2, Joined
  <2> HIDE DEF ops
  <2>4. PICK x \in Nat \ {0} : x = Len(before) + 1
    BY <2>2
  <2>5. /\ Len(ops) = x + 3 /\ x + 2 \in 1 .. Len(ops)
        /\ ops[x] = TStart /\ ops[x + 1] = c /\ ops[x + 2] = Sample
    <3>1. \A n \in 1 .. 4 : ops[Len(before) + n] = g[n]
      BY <1>5, <2>3
    <3>2. /\ Len(before) + 1 = x /\ Len(before) + 2 = x + 1 /\ Len(before) + 3 = x + 2
          /\ Len(ops) = x + 3
      BY <1>5, <2>2, <2>3, <2>4
    <3> QED BY <1>5, <3>1, <3>2
  <2>6. ASSUME NEW p \in 1 .. Len(ops), p \notin {x, x + 1, x + 2} PROVE ops[p] = Barrier
    <3>1. CASE p \in 1 .. Len(before) /\ ops[p] = before[p]
      BY <1>9, <3>1 DEF AllBarriers
    <3>2. CASE p - Len(before) \in 1 .. Len(g) /\ ops[p] = g[p - Len(before)]
      <4>1. p - Len(before) = 4
        BY <1>5, <2>2, <2>4, <2>6, <3>2
      <4> QED BY <1>5, <3>2, <4>1
    <3> QED BY <2>3, <3>1, <3>2
  <2>7. IsMeasuring(ops)
    BY <2>3, <2>5, <2>6, CallIsTimed
  <2> QED BY <2>7 DEF ops
<1>10. IsMeasuring(g)
  BY <1>5, <1>7
<1> QED BY <1>2, <1>4, <1>6, <1>8, <1>9, <1>10

\* A nonblocking collective, with or without calls of MPI_Test.
LEMMA WaitIsMeasured ==
  ASSUME NEW kind
  PROVE  /\ IsMeasuring(<<TStart, Start(kind), Measured(Wait), Sample, Barrier>>)
         /\ Full(kind) => IsMeasuring(<<TStart, Start(kind), Measured(Wait), Sample>>)
         /\ IsMeasuring(Overlapped(kind))
<1>1. /\ IsQuiet(Barrier) /\ ~Barrier.measured /\ Barrier.op = "call" /\ Full(Barrier.kind)
      /\ Barrier.op \notin {"start", "test", "wait"}
  BY DEF Barrier, Call, Do, IsQuiet, Unmeasured, Full
<1>2. ASSUME NEW ops, IsSequence(ops), NEW w \in 3 .. Len(ops) - 1,
             ops[1] = TStart, ops[2] = Start(kind), ops[w] = Measured(Wait),
             ops[w + 1] = Sample, \A p \in 3 .. w - 1 : ops[p] = Test,
             \A p \in w + 2 .. Len(ops) : ops[p] = Barrier,
             Len(ops) > w + 1 \/ Full(kind)
      PROVE  IsMeasuring(ops)
  <2>1. Len(ops) \in Nat /\ 1 \in 1 .. Len(ops) /\ 2 \in 1 .. Len(ops) /\ w \in 1 .. Len(ops)
        /\ 1 < w /\ 2 < w /\ w + 1 \in 1 .. Len(ops) /\ w < Len(ops)
    BY <1>2 DEF IsSequence
  <2>2. ASSUME NEW p \in 1 .. Len(ops)
        PROVE  p \in {1, 2, w, w + 1} \/ p \in 3 .. w - 1 \/ p \in w + 2 .. Len(ops)
    BY <2>1
  <2>3. ASSUME NEW p \in (1 .. Len(ops)) \ {1, w, w + 1}
        PROVE  \/ IsQuiet(ops[p])
               \/ 1 < p /\ p < w /\ ops[p].op = "test" /\ Unmeasured(ops[p])
               \/ 1 < p /\ p < w /\ ops[p].op = "start" /\ Unmeasured(ops[p]) /\ ops[w].op = "wait"
    <3>2. CASE p = 2
      BY <1>2, <2>1, <3>2, Statements, MeasuredStatements
    <3>3. CASE p \in 3 .. w - 1
      <4>1. 1 < p /\ p < w /\ ops[p] = Test
        BY <1>2, <3>3
      <4> QED BY <4>1, Statements
    <3>4. CASE p \in w + 2 .. Len(ops)
      BY <1>1, <1>2, <3>4
    <3> QED BY <2>2, <3>2, <3>3, <3>4
  <2>4. IsTimed(ops, 1, w)
    BY <1>2, <2>1, <2>3, Statements, MeasuredStatements DEF IsTimed
  <2>5. ASSUME NEW l \in 1 .. Len(ops),
               (l = 2 /\ Len(ops) = w + 1 /\ Full(kind)) \/ (l = Len(ops) /\ l > w + 1)
        PROVE  IsApart(ops, 2, w, l)
    <3>1. ASSUME NEW p \in 1 .. Len(ops)
          PROVE  /\ ops[p].measured => p = w
                 /\ 2 < p /\ p < w => ops[p].op = "test"
                 /\ p < 2 \/ p > w => /\ ops[p].op \notin {"start", "test", "wait"}
                                      /\ ops[p].op = "call" => Full(ops[p].kind)
                 /\ p > w /\ p > l => ops[p].op # "call"
      <4>1. CASE p = 1 \/ p = w + 1
        <5>1. ops[p] \in {TStart, Sample} /\ ~(2 < p /\ p < w)
          BY <1>2, <2>1, <4>1
        <5> QED BY <5>1, Statements DEF Unmeasured
      <4>2. CASE p = 2
        BY <1>2, <2>1, <4>2, Statements DEF Unmeasured
      <4>3. CASE p = w
        BY <2>1, <4>3
      <4>4. CASE p \in 3 .. w - 1
        <5>1. ops[p] = Test /\ ~(p < 2 \/ p > w)
          BY <1>2, <4>4
        <5> QED BY <5>1, Statements DEF Unmeasured
      <4>5. CASE p \in w + 2 .. Len(ops)
        <5>1. ops[p] = Barrier /\ ~(2 < p /\ p < w) /\ ~(p > w /\ p > l)
          BY <1>2, <2>1, <2>5, <4>5
        <5> QED BY <1>1, <5>1
      <4> QED BY <2>2, <4>1, <4>2, <4>3, <4>4, <4>5
    <3>2. (l = 2 /\ Full(ops[2].kind)) \/ (l > w /\ ops[l].op = "call")
      <4>1. CASE l = 2 /\ Full(kind)
        <5>1. Start(kind).kind = kind
          BY DEF Start, Do
        <5> QED BY <1>2, <4>1, <5>1
      <4>2. CASE l = Len(ops) /\ l > w + 1
        <5>1. l \in w + 2 .. Len(ops) /\ l > w
          BY <2>1, <2>5, <4>2
        <5>2. ops[l] = Barrier
          BY <1>2, <5>1
        <5> QED BY <1>1, <5>1, <5>2
      <4> QED BY <2>5, <4>1, <4>2
    <3>3. ops[2].op = "start" /\ ops[w].op = "wait"
      BY <1>2, Statements, MeasuredStatements
    <3> QED BY <2>1, <3>1, <3>2, <3>3 DEF IsApart
  <2>6. \E l \in 1 .. Len(ops) : IsApart(ops, 2, w, l)
    <3>1. CASE Len(ops) > w + 1
      <4>1. PICK l \in 1 .. Len(ops) : l = Len(ops) /\ l > w + 1
        BY <2>1, <3>1
      <4>2. IsApart(ops, 2, w, l)
        BY <2>5, <4>1
      <4> QED BY <4>1, <4>2, Zenon
    <3>2. CASE ~(Len(ops) > w + 1)
      <4>1. PICK l \in 1 .. Len(ops) : l = 2 /\ Len(ops) = w + 1
        BY <2>1, <3>2
      <4>2. IsApart(ops, 2, w, l)
        BY <1>2, <2>5, <3>2, <4>1
      <4> QED BY <4>1, <4>2, Zenon
    <3> QED BY <3>1, <3>2
  <2> QED BY <1>2, <2>1, <2>4, <2>6 DEF IsMeasuring
<1>3. IsMeasuring(<<TStart, Start(kind), Measured(Wait), Sample, Barrier>>)
  <2> DEFINE ops == <<TStart, Start(kind), Measured(Wait), Sample, Barrier>>
  <2>1. /\ IsSequence(ops) /\ 3 \in 3 .. Len(ops) - 1 /\ Len(ops) = 5
        /\ ops[1] = TStart /\ ops[2] = Start(kind) /\ ops[3] = Measured(Wait)
        /\ ops[4] = Sample /\ ops[5] = Barrier
    BY DEF IsSequence
  <2> HIDE DEF ops
  <2>2. IsMeasuring(ops)
    BY <1>2, <2>1, SMTT(30)
  <2> QED BY <2>2 DEF ops
<1>4. ASSUME Full(kind) PROVE IsMeasuring(<<TStart, Start(kind), Measured(Wait), Sample>>)
  <2> DEFINE ops == <<TStart, Start(kind), Measured(Wait), Sample>>
  <2>1. /\ IsSequence(ops) /\ 3 \in 3 .. Len(ops) - 1 /\ Len(ops) = 4
        /\ ops[1] = TStart /\ ops[2] = Start(kind) /\ ops[3] = Measured(Wait)
        /\ ops[4] = Sample
    BY DEF IsSequence
  <2> HIDE DEF ops
  <2>2. PICK w \in 3 .. Len(ops) - 1 : w = 3
    BY <2>1
  <2>3. /\ ops[w] = Measured(Wait) /\ ops[w + 1] = Sample
        /\ \A p \in 3 .. w - 1 : ops[p] = Test
        /\ \A p \in w + 2 .. Len(ops) : ops[p] = Barrier
    <3>1. w + 1 = 4 /\ \A p \in 3 .. w - 1 : FALSE
      BY <2>2
    <3>2. \A p \in w + 2 .. Len(ops) : FALSE
      BY <2>1, <2>2
    <3> QED BY <2>1, <2>2, <3>1, <3>2
  <2>4. IsMeasuring(ops)
    BY <1>2, <1>4, <2>1, <2>3
  <2> QED BY <2>4 DEF ops
<1>5. IsMeasuring(Overlapped(kind))
  <2> DEFINE f == <<TStart, Start(kind)>>
             g == Window(NumProbes, Test)
             h == <<Measured(Wait), Sample, Barrier>>
             e == f \o g
             ops == e \o h
  <2>1. NumProbes \in Nat
    BY OmbCollectiveAssumption
  <2>2. IsSequence(f) /\ Len(f) = 2 /\ f[1] = TStart /\ f[2] = Start(kind)
    BY DEF IsSequence
  <2>3. IsSequence(g) /\ Len(g) = NumProbes /\ \A n \in 1 .. NumProbes : g[n] = Test
    <3>1. g = [n \in 1 .. NumProbes |-> Test]
      BY DEF Window
    <3> HIDE DEF g
    <3>2. g \in Seq({Test}) /\ Len(g) = NumProbes
      BY <2>1, <3>1
    <3> QED BY <2>1, <3>1, <3>2 DEF IsSequence
  <2>4. IsSequence(h) /\ Len(h) = 3 /\ h[1] = Measured(Wait) /\ h[2] = Sample /\ h[3] = Barrier
    BY DEF IsSequence
  <2>5. ops = Overlapped(kind)
    BY DEF Overlapped
  <2> HIDE DEF f, g, h
  <2>6. /\ IsSequence(e) /\ Len(e) = 2 + NumProbes
        /\ \A n \in 1 .. 2 : e[n] = f[n]
        /\ \A n \in 1 .. NumProbes : e[2 + n] = g[n]
    <3>1. /\ IsSequence(e) /\ Len(e) = Len(f) + Len(g)
          /\ \A n \in 1 .. Len(f) : e[n] = f[n]
          /\ \A n \in 1 .. Len(g) : e[Len(f) + n] = g[n]
      <4>1. IsSequence(f) /\ IsSequence(g)
        BY <2>2, <2>3
      <4> QED BY <4>1, Joined
    <3> HIDE DEF e
    <3> QED BY <2>2, <2>3, <3>1
  <2> HIDE DEF e
  <2>7. /\ IsSequence(ops) /\ Len(ops) = NumProbes + 5
        /\ \A n \in 1 .. 2 + NumProbes : ops[n] = e[n]
        /\ \A n \in 1 .. 3 : ops[2 + NumProbes + n] = h[n]
    <3>1. /\ IsSequence(ops) /\ Len(ops) = Len(e) + Len(h)
          /\ \A n \in 1 .. Len(e) : ops[n] = e[n]
          /\ \A n \in 1 .. Len(h) : ops[Len(e) + n] = h[n]
      <4>1. IsSequence(e) /\ IsSequence(h)
        BY <2>4, <2>6
      <4> QED BY <4>1, Joined
    <3>2. Len(e) + Len(h) = NumProbes + 5
      BY <2>1, <2>4, <2>6
    <3> HIDE DEF ops
    <3> QED BY <2>4, <2>6, <3>1, <3>2
  <2> HIDE DEF ops
  <2>8. ops[1] = TStart /\ ops[2] = Start(kind)
    BY <2>1, <2>2, <2>6, <2>7
  <2>9. ASSUME NEW p \in 3 .. NumProbes + 2 PROVE ops[p] = Test
    <3>1. p - 2 \in 1 .. NumProbes /\ p = 2 + (p - 2) /\ p \in 1 .. 2 + NumProbes
      BY <2>1
    <3> QED BY <2>3, <2>6, <2>7, <3>1
  <2>10. /\ ops[NumProbes + 3] = Measured(Wait) /\ ops[NumProbes + 4] = Sample
         /\ ops[NumProbes + 5] = Barrier
    <3>1. \A n \in 1 .. 3 : ops[2 + NumProbes + n] = h[n]
      BY <2>7
    <3>2. /\ 2 + NumProbes + 1 = NumProbes + 3 /\ 2 + NumProbes + 2 = NumProbes + 4
          /\ 2 + NumProbes + 3 = NumProbes + 5
      BY <2>1
    <3> QED BY <2>4, <3>1, <3>2
  <2>11. PICK w : w = NumProbes + 3
    OBVIOUS
  <2>12. /\ w \in 3 .. Len(ops) - 1 /\ w + 1 = NumProbes + 4 /\ w - 1 = NumProbes + 2
         /\ w + 2 .. Len(ops) = {NumProbes + 5} /\ Len(ops) > w + 1
    BY <2>1, <2>7, <2>11
  <2>13. IsMeasuring(ops)
    BY <1>2, <2>7, <2>8, <2>9, <2>10, <2>11, <2>12
  <2> QED BY <2>5, <2>13
<1> QED BY <1>3, <1>4, <1>5

\* The shape of one size, put together.
LEMMA ShapeOfOneLoop ==
  ASSUME NEW lead, IsLead(lead), NEW loop, IsMeasuring(loop), NEW tail, IsTail(tail)
  PROVE  HasShape(<<Once(lead), Loop(loop), Once(tail)>>)
BY DEF HasShape, Once, Loop

LEMMA ShapeOfTwoLoops ==
  ASSUME NEW lead, IsLead(lead), NEW loop, IsMeasuring(loop), NEW between, IsBetween(between),
         NEW again, IsMeasuring(again), NEW tail, IsTail(tail)
  PROVE  HasShape(<<Once(lead), Loop(loop), Once(between), Loop(again), Once(tail)>>)
BY DEF HasShape, Once, Loop

\* The sections that Benchmark gives the ranks.
LEMMA Bodies ==
  ASSUME NEW np \in Nat, NEW sizes \in Nat, NEW secs, NEW body,
         body = [k \in 1 .. sizes |-> [r \in 1 .. np |-> secs[k]] \o <<>>] \o <<>>
  PROVE  \A k \in 1 .. sizes : \A r \in 1 .. np : body[k][r] = secs[k]
<1>1. ASSUME NEW n \in Nat, NEW f, f = [i \in 1 .. n |-> f[i]]
      PROVE  \A i \in 1 .. n : (f \o <<>>)[i] = f[i]
  <2> DEFINE S == {f[i] : i \in 1 .. n}
  <2>1. \A i \in 1 .. n : f[i] \in S
    OBVIOUS
  <2> HIDE DEF S
  <2>2. f \in [1 .. n -> S]
    BY <1>1, <2>1
  <2>3. f \in Seq(S) /\ Len(f) = n
    BY <2>2
  <2> QED BY <2>3
<1> DEFINE each(k) == [r \in 1 .. np |-> secs[k]]
           all == [k \in 1 .. sizes |-> each(k) \o <<>>]
<1> TAKE k \in 1 .. sizes
<1> TAKE r \in 1 .. np
<1>2. each(k) = [i \in 1 .. np |-> each(k)[i]] /\ each(k)[r] = secs[k]
  OBVIOUS
<1>3. (each(k) \o <<>>)[r] = secs[k]
  <2> HIDE DEF each
  <2> QED BY <1>1, <1>2
<1>4. body = all \o <<>>
  OBVIOUS
<1> HIDE DEF each
<1>5. all = [i \in 1 .. sizes |-> all[i]] /\ all[k] = each(k) \o <<>>
  OBVIOUS
<1> HIDE DEF all
<1>6. body[k] = each(k) \o <<>>
  BY <1>1, <1>4, <1>5
<1> QED BY <1>3, <1>6

-----------------------------------------------------------------------------
\* A benchmark with the same sections on all ranks, all of a collective shape.
LEMMA CollectiveIs ==
  ASSUME NEW b, NEW secs, b.np \in Nat \ {0}, b.sizes \in Nat,
         AllQuiet(b.start), AllQuiet(b.finish),
         b.body = [k \in 1 .. b.sizes |-> [r \in 1 .. b.np |-> secs[k]] \o <<>>] \o <<>>,
         \A k \in 1 .. b.sizes : HasShape(secs[k])
  PROVE  IsCollective(b)
<1>1. \A k \in 1 .. b.sizes : \A r \in 1 .. b.np : b.body[k][r] = secs[k]
  BY Bodies
<1> QED BY <1>1 DEF IsCollective

\* The barriers have one size.
LEMMA CollectiveOfOneSizeIs ==
  ASSUME NEW b, NEW size, b.np \in Nat \ {0}, b.sizes = 1, AllQuiet(b.start), AllQuiet(b.finish),
         b.body = [k \in 1 .. 1 |-> [r \in 1 .. b.np |-> size] \o <<>>] \o <<>>,
         HasShape(size)
  PROVE  IsCollective(b)
<1>1. PICK secs : secs = [k \in 1 .. 1 |-> size]
  OBVIOUS
<1>2. \A k \in 1 .. 1 : secs[k] = size
  BY <1>1
<1>3. b.body = [k \in 1 .. 1 |-> [r \in 1 .. b.np |-> secs[k]] \o <<>>] \o <<>>
  BY <1>2
<1>4. /\ \A k \in 1 .. b.sizes : HasShape(secs[k])
      /\ b.body = [k \in 1 .. b.sizes |-> [r \in 1 .. b.np |-> secs[k]] \o <<>>] \o <<>>
      /\ b.sizes \in Nat
  BY <1>2, <1>3
<1> QED BY <1>4, CollectiveIs

\* Sequences of statements that are quiet, or idle.
LEMMA Short ==
  /\ AllQuiet(<<>>)
  /\ \A o : IsQuiet(o) => AllQuiet(<<o>>)
  /\ \A o, p : IsQuiet(o) /\ IsQuiet(p) => AllQuiet(<<o, p>>)
  /\ AllIdle(<<>>)
  /\ \A o : Idle(o) => AllIdle(<<o>>) /\ Len(<<o>>) = 1
  /\ \A o, p : Idle(o) /\ Idle(p) => AllIdle(<<o, p>>) /\ Len(<<o, p>>) = 2
  /\ \A o, p, q : Idle(o) /\ Idle(p) /\ Idle(q) => AllIdle(<<o, p, q>>) /\ Len(<<o, p, q>>) = 3
BY DEF AllQuiet, AllIdle, IsSequence

LEMMA WindowIsQuiet ==
  ASSUME NEW w \in Nat, NEW o, IsQuiet(o)
  PROVE  AllQuiet(Window(w, o)) /\ AllIdle(Window(w, o)) /\ Len(Window(w, o)) = w
<1> DEFINE f == Window(w, o)
<1>1. f = [n \in 1 .. w |-> o]
  BY DEF Window
<1> HIDE DEF f
<1>2. f \in Seq({o}) /\ Len(f) = w
  BY <1>1
<1>3. AllQuiet(f) /\ AllIdle(f)
  BY <1>1, <1>2 DEF AllQuiet, AllIdle, Idle, IsSequence
<1> QED BY <1>2, <1>3 DEF f

LEMMA Idles ==
  /\ IsQuiet(Barrier) /\ IsQuiet(Reduce) /\ IsQuiet(Touch)
  /\ Idle(Barrier) /\ Idle(Reduce) /\ Idle(Report)
BY Statements DEF Barrier, Reduce, Idle

\* What follows the last loop.
LEMMA AfterTheLoop ==
  ASSUME NEW stats, AllIdle(stats)
  PROVE  /\ AllIdle(<<Report>> \o stats \o <<Barrier>>) /\ Len(<<Report>> \o stats \o <<Barrier>>) # 0
         /\ AllIdle(<<Barrier, Report>> \o stats \o <<Barrier>>)
         /\ Len(<<Barrier, Report>> \o stats \o <<Barrier>>) # 0
         /\ AllIdle(<<Barrier, Report>> \o stats) /\ Len(<<Barrier, Report>> \o stats) # 0
<1>1. /\ AllIdle(<<Report>>) /\ Len(<<Report>>) = 1 /\ AllIdle(<<Barrier>>) /\ Len(<<Barrier>>) = 1
      /\ AllIdle(<<Barrier, Report>>) /\ Len(<<Barrier, Report>>) = 2 /\ Len(stats) \in Nat
  BY Idles, Short DEF AllIdle, IsSequence
<1>2. /\ AllIdle(<<Report>> \o stats) /\ Len(<<Report>> \o stats) = 1 + Len(stats)
      /\ AllIdle(<<Barrier, Report>> \o stats)
      /\ Len(<<Barrier, Report>> \o stats) = 2 + Len(stats)
  BY <1>1, IdleJoined
<1>3. /\ AllIdle(<<Report>> \o stats \o <<Barrier>>)
      /\ Len(<<Report>> \o stats \o <<Barrier>>) = Len(<<Report>> \o stats) + 1
      /\ AllIdle(<<Barrier, Report>> \o stats \o <<Barrier>>)
      /\ Len(<<Barrier, Report>> \o stats \o <<Barrier>>) = Len(<<Barrier, Report>> \o stats) + 1
  BY <1>1, <1>2, IdleJoined
<1>4. 1 + Len(stats) + 1 # 0 /\ 2 + Len(stats) + 1 # 0 /\ 2 + Len(stats) # 0
  BY <1>1
<1> QED BY <1>2, <1>3, <1>4

LEMMA MinMaxAvgIs == AllIdle(MinMaxAvg)
BY Idles, Short DEF MinMaxAvg

\* A setting alone before the loop.
LEMMA LeadIsOnlySetting ==
  ASSUME NEW set, IsSetting(set)
  PROVE  IsLead(<<set, Reset>>)
<1>1. /\ IsSequence(<<set, Reset>>) /\ Len(<<set, Reset>>) = 2
      /\ <<set, Reset>>[1] = set /\ <<set, Reset>>[2] = Reset
  BY DEF IsSequence
<1>2. PICK ops : ops = <<set, Reset>>
  OBVIOUS
<1>3. IsLead(ops)
  BY <1>1, <1>2, Statements DEF IsLead, EndsWithReset
<1> QED BY <1>2, <1>3

\* mpi/collective, blocking.
LEMMA BlockingIs ==
  ASSUME NEW np \in Nat \ {0}, NEW kind, NEW start, AllQuiet(start), NEW before, AllQuiet(before),
         NEW after, AllIdle(after), Len(after) # 0
  PROVE  IsCollective(Blocking(np, kind, start, before, after))
<1> DEFINE b == Blocking(np, kind, start, before, after)
           secs == [k \in 1 .. NumSizes |-> <<Once(<<SetIfLarge(k)>> \o before \o <<Reset>>),
                                              Loop(Iteration(kind)),
                                              Once(after)>>]
<1>1. /\ b.np = np /\ b.sizes = NumSizes /\ b.start = start /\ b.finish = <<Touch>>
      /\ b.body = [k \in 1 .. NumSizes |-> [r \in 1 .. np |-> secs[k]] \o <<>>] \o <<>>
  BY DEF Blocking, Benchmark, Launch, WithOptions
<1>2. ASSUME NEW k \in 1 .. NumSizes PROVE HasShape(secs[k])
  <2>1. IsLead(<<SetIfLarge(k)>> \o before \o <<Reset>>)
    BY LeadIs, Settings
  <2>2. IsMeasuring(Iteration(kind))
    BY CallIsMeasured, MeasuredStatements DEF Iteration
  <2>3. IsTail(after)
    BY TailIs
  <2>4. secs[k] = <<Once(<<SetIfLarge(k)>> \o before \o <<Reset>>), Loop(Iteration(kind)), Once(after)>>
    OBVIOUS
  <2> HIDE DEF secs
  <2> QED BY <2>1, <2>2, <2>3, <2>4, ShapeOfOneLoop
<1>3. AllQuiet(<<Touch>>)
  BY Short, Idles
<1>4. NumSizes \in Nat
  BY OmbOpsAssumption
<1> HIDE DEF b, secs
<1>5. IsCollective(b)
  BY <1>1, <1>2, <1>3, <1>4, CollectiveIs
<1> QED BY <1>5 DEF b

LEMMA OsuBarrierIs ==
  ASSUME NEW np \in Nat \ {0}
  PROVE  IsCollective(OsuBarrier(np))
<1> DEFINE b == OsuBarrier(np)
           large == Assign([loop |-> Options.loop_large, skip |-> Options.skip_large])
           size == <<Once(<<large, Reset>>), Loop(<<TStart, Measured(Barrier), Sample>>),
                     Once(<<Barrier, Report>> \o MinMaxAvg)>>
<1>1. /\ b.np = np /\ b.sizes = 1 /\ b.start = <<>> /\ b.finish = <<>>
      /\ b.body = [k \in 1 .. 1 |-> [r \in 1 .. np |-> size] \o <<>>] \o <<>>
  BY DEF OsuBarrier, Benchmark, Launch, WithOptions
<1>2. IsLead(<<large, Reset>>)
  <2>1. IsSetting(large)
    BY Settings, OmbOpsAssumption
  <2> HIDE DEF large
  <2> QED BY <2>1, LeadIsOnlySetting
<1>3. IsMeasuring(<<TStart, Measured(Barrier), Sample>>)
  BY CallIsMeasured, BarrierIsMeasured
<1>4. IsTail(<<Barrier, Report>> \o MinMaxAvg)
  BY TailIs, AfterTheLoop, MinMaxAvgIs
<1>5. HasShape(size)
  <2> HIDE DEF large
  <2> QED BY <1>2, <1>3, <1>4, ShapeOfOneLoop
<1> HIDE DEF b, size
<1>6. IsCollective(b)
  BY <1>1, <1>5, Short, CollectiveOfOneSizeIs
<1> QED BY <1>6 DEF b

\* mpi/collective, nonblocking.
LEMMA StatsIs ==
  ASSUME NEW r
  PROVE  IsTail(Stats(r))
<1>1. AllIdle(Window(6, Reduce))
  BY WindowIsQuiet, Idles
<1> QED BY <1>1, AfterTheLoop, TailIs DEF Stats

LEMMA AgainIs ==
  ASSUME NEW r, NEW setup, AllIdle(setup)
  PROVE  IsBetween(<<Barrier, Report>> \o Again(r, setup))
<1>1. IsBetween(<<Barrier, Reset>>)
  <2> DEFINE ops == <<Barrier, Reset>>
  <2>1. IsSequence(ops) /\ Len(ops) = 2 /\ ops[1] = Barrier /\ ops[2] = Reset
    BY DEF IsSequence
  <2>2. \A p \in 1 .. 2 - 1 : p = 1
    OBVIOUS
  <2> HIDE DEF ops
  <2>3. IsBetween(ops)
    BY <2>1, <2>2, Idles, Statements DEF IsBetween, EndsWithReset
  <2> QED BY <2>3 DEF ops
<1>2. IsBetween(Again(r, setup))
  BY <1>1, BetweenJoined DEF Again
<1>3. AllIdle(<<Barrier, Report>>)
  BY Short, Idles
<1> QED BY <1>2, <1>3, BetweenJoined

LEMMA NonblockingIs ==
  ASSUME NEW np \in Nat \ {0}, NEW kind, NEW vector \in BOOLEAN,
         NEW before, AllQuiet(before), NEW setup, AllIdle(setup)
  PROVE  IsCollective(Nonblocking(np, kind, vector, before, setup))
<1> DEFINE b == Nonblocking(np, kind, vector, before, setup)
           set(k) == IF vector THEN SetFixed(k) ELSE SetIfLarge(k)
           secs == [k \in 1 .. NumSizes |->
                      <<Once(<<set(k)>> \o before \o <<Reset>>),
                        Loop(<<TStart, Start(kind), Measured(Wait), Sample, Barrier>>),
                        Once(<<Barrier, Report>> \o Again(0, setup)),
                        Loop(Overlapped(kind)),
                        Once(Stats(0))>>]
<1>1. /\ b.np = np /\ b.sizes = NumSizes /\ b.start = <<>> /\ b.finish = <<Touch>>
      /\ b.body = [k \in 1 .. NumSizes |-> [r \in 1 .. np |-> secs[k]] \o <<>>] \o <<>>
  BY DEF Nonblocking, Benchmark, Launch, WithOptions, Again, Stats
<1>2. ASSUME NEW k \in 1 .. NumSizes PROVE HasShape(secs[k])
  <2>1. IsSetting(set(k))
    BY Settings
  <2>2. secs[k] = <<Once(<<set(k)>> \o before \o <<Reset>>),
                    Loop(<<TStart, Start(kind), Measured(Wait), Sample, Barrier>>),
                    Once(<<Barrier, Report>> \o Again(0, setup)),
                    Loop(Overlapped(kind)),
                    Once(Stats(0))>>
    OBVIOUS
  <2> HIDE DEF secs, set
  <2>3. IsLead(<<set(k)>> \o before \o <<Reset>>)
    BY <2>1, LeadIs
  <2> QED BY <2>2, <2>3, WaitIsMeasured, AgainIs, StatsIs, ShapeOfTwoLoops
<1>3. AllQuiet(<<>>) /\ AllQuiet(<<Touch>>) /\ NumSizes \in Nat
  BY Short, Idles, OmbOpsAssumption
<1> HIDE DEF b, secs
<1>4. IsCollective(b)
  BY <1>1, <1>2, <1>3, CollectiveIs
<1> QED BY <1>4 DEF b

LEMMA OsuIbarrierIs ==
  ASSUME NEW np \in Nat \ {0}
  PROVE  IsCollective(OsuIbarrier(np))
<1> DEFINE b == OsuIbarrier(np)
           large == Assign([loop |-> IterationsLarge, skip |-> Options.skip_large])
           size == <<Once(<<large, Reset>>),
                     Loop(<<TStart, Start("barrier"), Measured(Wait), Sample>>),
                     Once(<<Barrier, Report>> \o Again(0, <<>>)),
                     Loop(Overlapped("barrier")),
                     Once(Stats(0))>>
<1>1. /\ b.np = np /\ b.sizes = 1 /\ b.start = <<>> /\ b.finish = <<>>
      /\ b.body = [k \in 1 .. 1 |-> [r \in 1 .. np |-> size] \o <<>>] \o <<>>
  BY DEF OsuIbarrier, Benchmark, Launch, WithOptions, Again, Stats
<1>2. HasShape(size)
  <2>1. IsSetting(large)
    BY Settings, OmbOpsAssumption, OmbCollectiveAssumption
  <2> HIDE DEF large
  <2>2. IsMeasuring(<<TStart, Start("barrier"), Measured(Wait), Sample>>)
    BY WaitIsMeasured, BarrierIsMeasured
  <2> QED BY <2>1, <2>2, LeadIsOnlySetting, Short, WaitIsMeasured, AgainIs, StatsIs, ShapeOfTwoLoops
<1> HIDE DEF b, size
<1>3. IsCollective(b)
  BY <1>1, <1>2, Short, CollectiveOfOneSizeIs
<1> QED BY <1>3 DEF b

\* OpenSHMEM.
LEMMA StatsToAllIs == AllIdle(StatsToAll)
BY Statements, Short DEF StatsToAll, Idle

LEMMA ShmemCollectiveIs ==
  ASSUME NEW program, NEW np \in Nat \ {0}, NEW kind, NEW buffers \in Nat, NEW arrays,
         NEW before, AllQuiet(before), NEW after, AllIdle(after), Len(after) # 0,
         NEW finish, AllQuiet(finish)
  PROVE  IsCollective(ShmemCollective(program, np, kind, buffers, arrays, before, after, finish))
<1> DEFINE b == ShmemCollective(program, np, kind, buffers, arrays, before, after, finish)
           loop == ShmemIteration(kind, arrays) \o <<Barrier>>
           secs == [k \in 1 .. NumSizes |-> <<Once(<<SetFixed(k)>> \o before \o <<Reset>>),
                                              Loop(loop),
                                              Once(after)>>]
<1>1. /\ b.np = np /\ b.sizes = NumSizes /\ b.start = Window(buffers, Call("shmalloc"))
      /\ b.finish = finish \o Window(buffers, Call("shfree"))
      /\ b.body = [k \in 1 .. NumSizes |-> [r \in 1 .. np |-> secs[k]] \o <<>>] \o <<>>
  BY DEF ShmemCollective, Benchmark, Launch, WithOptions
<1>2. IsMeasuring(loop)
  BY CallIsMeasured, MeasuredStatements DEF ShmemIteration
<1> HIDE DEF loop
<1>3. ASSUME NEW k \in 1 .. NumSizes PROVE HasShape(secs[k])
  <2>1. secs[k] = <<Once(<<SetFixed(k)>> \o before \o <<Reset>>), Loop(loop), Once(after)>>
    OBVIOUS
  <2> HIDE DEF secs
  <2>2. IsLead(<<SetFixed(k)>> \o before \o <<Reset>>)
    BY LeadIs, Settings
  <2> QED BY <1>2, <2>1, <2>2, TailIs, ShapeOfOneLoop
<1>4. AllQuiet(Window(buffers, Call("shmalloc"))) /\ AllQuiet(Window(buffers, Call("shfree")))
  BY WindowIsQuiet, Statements
<1>5. AllQuiet(finish \o Window(buffers, Call("shfree")))
  BY <1>4, QuietJoined
<1>6. NumSizes \in Nat
  BY OmbOpsAssumption
<1> HIDE DEF b, secs
<1>7. IsCollective(b)
  BY <1>1, <1>3, <1>4, <1>5, <1>6, CollectiveIs
<1> QED BY <1>7 DEF b

LEMMA OsuOshmBarrierIs ==
  ASSUME NEW np \in Nat \ {0}
  PROVE  IsCollective(OsuOshmBarrier(np))
<1> DEFINE b == OsuOshmBarrier(np)
           large == Assign([loop |-> Options.loop_large, skip |-> FixedSkipLarge])
           loop == ShmemIteration("shmem_barrier", <<"pSyncBarrier2", "pSyncBarrier1">>)
           size == <<Once(<<large, Reset>>), Loop(loop), Once(<<Barrier, Report>> \o StatsToAll)>>
<1>1. /\ b.np = np /\ b.sizes = 1 /\ b.start = <<>> /\ b.finish = <<>>
      /\ b.body = [k \in 1 .. 1 |-> [r \in 1 .. np |-> size] \o <<>>] \o <<>>
  BY DEF OsuOshmBarrier, Benchmark, Launch, WithOptions
<1>2. IsLead(<<large, Reset>>)
  <2>1. IsSetting(large)
    BY Settings, OmbOpsAssumption, OmbCollectiveAssumption
  <2> HIDE DEF large
  <2> QED BY <2>1, LeadIsOnlySetting
<1>3. IsMeasuring(loop)
  <2>1. Full("shmem_barrier")
    BY DEF Full
  <2> QED BY <2>1, CallIsMeasured, MeasuredStatements DEF ShmemIteration
<1>4. IsTail(<<Barrier, Report>> \o StatsToAll)
  BY TailIs, AfterTheLoop, StatsToAllIs
<1>5. HasShape(size)
  <2> HIDE DEF large, loop
  <2> QED BY <1>2, <1>3, <1>4, ShapeOfOneLoop
<1> HIDE DEF b, size
<1>6. IsCollective(b)
  BY <1>1, <1>5, Short, CollectiveOfOneSizeIs
<1> QED BY <1>6 DEF b

\* UPC.
LEMMA ReduceDIs == AllIdle(ReduceD)
BY Statements, Short DEF ReduceD, Idle

LEMMA UpcCollectiveIs ==
  ASSUME NEW np \in Nat \ {0}, NEW kind, NEW ready, AllQuiet(ready), NEW before, AllBarriers(before),
         NEW finish, AllQuiet(finish)
  PROVE  IsCollective(UpcCollective(np, kind, ready, before, finish))
<1> DEFINE b == UpcCollective(np, kind, ready, before, finish)
           loop == before \o <<TStart, Measured(Call(kind)), Sample, Barrier>>
           tail == <<Barrier, Report>> \o ReduceD
           secs == [k \in 1 .. NumSizes |-> <<Once(<<SetFixed(k), Reset>>), Loop(loop), Once(tail)>>]
<1>1. /\ b.np = np /\ b.sizes = NumSizes /\ b.start = <<Call("upc_all_alloc")>> \o ready
      /\ b.finish = finish
      /\ b.body = [k \in 1 .. NumSizes |-> [r \in 1 .. np |-> secs[k]] \o <<>>] \o <<>>
  BY DEF UpcCollective, Benchmark, Launch, WithOptions
<1>2. IsMeasuring(loop)
  BY CallIsMeasured, MeasuredStatements
<1>3. IsTail(tail)
  BY TailIs, AfterTheLoop, ReduceDIs
<1> HIDE DEF loop, tail
<1>4. ASSUME NEW k \in 1 .. NumSizes PROVE HasShape(secs[k])
  <2>1. secs[k] = <<Once(<<SetFixed(k), Reset>>), Loop(loop), Once(tail)>>
    OBVIOUS
  <2> HIDE DEF secs
  <2>2. IsLead(<<SetFixed(k), Reset>>)
    BY LeadIsOnlySetting, Settings
  <2> QED BY <1>2, <1>3, <2>1, <2>2, ShapeOfOneLoop
<1>5. AllQuiet(<<Call("upc_all_alloc")>> \o ready)
  <2>1. AllQuiet(<<Call("upc_all_alloc")>>)
    BY Short, Statements
  <2> QED BY <2>1, QuietJoined
<1>6. NumSizes \in Nat
  BY OmbOpsAssumption
<1> HIDE DEF b, secs
<1>7. IsCollective(b)
  BY <1>1, <1>4, <1>5, <1>6, CollectiveIs
<1> QED BY <1>7 DEF b

LEMMA OsuUpcAllBarrierIs ==
  ASSUME NEW np \in Nat \ {0}
  PROVE  IsCollective(OsuUpcAllBarrier(np))
<1> DEFINE b == OsuUpcAllBarrier(np)
           set == Assign([loop |-> Keep, skip |-> FixedSkip])
           loop == <<TStart, Measured(Barrier), Sample>>
           tail == <<Barrier, Report>> \o ReduceD \o <<Barrier>>
           size == <<Once(<<set, Reset>>), Loop(loop), Once(tail)>>
<1>1. /\ b.np = np /\ b.sizes = 1 /\ b.start = <<Barrier>> /\ b.finish = <<>>
      /\ b.body = [k \in 1 .. 1 |-> [r \in 1 .. np |-> size] \o <<>>] \o <<>>
  BY DEF OsuUpcAllBarrier, Benchmark, Launch, WithOptions
<1>2. IsLead(<<set, Reset>>)
  <2>1. IsSetting(set)
    BY Settings, OmbOpsAssumption, OmbCollectiveAssumption
  <2> HIDE DEF set
  <2> QED BY <2>1, LeadIsOnlySetting
<1>3. IsMeasuring(loop)
  BY CallIsMeasured, BarrierIsMeasured
<1>4. IsTail(tail)
  BY TailIs, AfterTheLoop, ReduceDIs
<1>5. HasShape(size)
  <2> HIDE DEF set, loop, tail
  <2> QED BY <1>2, <1>3, <1>4, ShapeOfOneLoop
<1>6. AllQuiet(<<>>) /\ AllQuiet(<<Barrier>>)
  BY Short, Idles
<1> HIDE DEF b, size
<1>7. IsCollective(b)
  BY <1>1, <1>5, <1>6, CollectiveOfOneSizeIs
<1> QED BY <1>7 DEF b

\* UPC++.
LEMMA UpcxxCollectiveIs ==
  ASSUME NEW np \in Nat \ {0}, NEW kind
  PROVE  IsCollective(UpcxxCollective(np, kind))
<1> DEFINE b == UpcxxCollective(np, kind)
           tail == <<Barrier, Report>> \o MinMaxAvg \o <<Barrier>>
           secs == [k \in 1 .. NumSizes |-> <<Once(<<SetFixed(k), Reset>>),
                                              Loop(UpcxxIteration(kind)),
                                              Once(tail)>>]
<1>1. /\ b.np = np /\ b.sizes = NumSizes /\ b.start = <<Barrier>> /\ b.finish = <<Touch>>
      /\ b.body = [k \in 1 .. NumSizes |-> [r \in 1 .. np |-> secs[k]] \o <<>>] \o <<>>
  BY DEF UpcxxCollective, Benchmark, Launch, WithOptions
<1>2. IsMeasuring(UpcxxIteration(kind))
  BY CallIsMeasured, MeasuredStatements DEF UpcxxIteration
<1>3. IsTail(tail)
  BY TailIs, AfterTheLoop, MinMaxAvgIs
<1> HIDE DEF tail
<1>4. ASSUME NEW k \in 1 .. NumSizes PROVE HasShape(secs[k])
  <2>1. secs[k] = <<Once(<<SetFixed(k), Reset>>), Loop(UpcxxIteration(kind)), Once(tail)>>
    OBVIOUS
  <2> HIDE DEF secs
  <2>2. IsLead(<<SetFixed(k), Reset>>)
    BY LeadIsOnlySetting, Settings
  <2> QED BY <1>2, <1>3, <2>1, <2>2, ShapeOfOneLoop
<1>5. AllQuiet(<<Barrier>>) /\ AllQuiet(<<Touch>>)
  BY Short, Idles
<1>6. NumSizes \in Nat
  BY OmbOpsAssumption
<1> HIDE DEF b, secs
<1>7. IsCollective(b)
  BY <1>1, <1>4, <1>5, <1>6, CollectiveIs
<1> QED BY <1>7 DEF b

-----------------------------------------------------------------------------
\* The collective benchmarks of the suite, on np processes.
MpiBlocking(np) ==
  {OsuAllgather(np), OsuAllgatherv(np), OsuAllreduce(np), OsuAlltoall(np), OsuAlltoallv(np),
   OsuBarrier(np), OsuBcast(np), OsuGather(np), OsuGatherv(np), OsuReduce(np),
   OsuReduceScatter(np), OsuScatter(np), OsuScatterv(np)}

MpiNonblocking(np) ==
  {OsuIallgather(np), OsuIallgatherv(np), OsuIalltoall(np), OsuIalltoallv(np), OsuIalltoallw(np),
   OsuIbarrier(np), OsuIbcast(np), OsuIgather(np), OsuIgatherv(np), OsuIscatter(np),
   OsuIscatterv(np)}

ShmemCollectives(np) ==
  {OsuOshmCollect(np), OsuOshmFcollect(np), OsuOshmBroadcast(np), OsuOshmReduce(np),
   OsuOshmBarrier(np)}

UpcCollectives(np) ==
  {OsuUpcAllBroadcast(np), OsuUpcAllExchange(np), OsuUpcAllGather(np), OsuUpcAllGatherAll(np),
   OsuUpcAllReduce(np), OsuUpcAllScatter(np), OsuUpcAllBarrier(np)}

UpcxxCollectives(np) ==
  {OsuUpcxxAllgather(np), OsuUpcxxAlltoall(np), OsuUpcxxBcast(np), OsuUpcxxGather(np),
   OsuUpcxxReduce(np), OsuUpcxxScatter(np)}

Collectives(np) ==
  MpiBlocking(np) \cup MpiNonblocking(np) \cup ShmemCollectives(np) \cup UpcCollectives(np)
    \cup UpcxxCollectives(np)

\* All of them are collective, whatever the number of processes.
THEOREM SuiteIsCollective ==
  \A np \in Nat \ {0} : \A b \in Collectives(np) : IsCollective(b)
<1> TAKE np \in Nat \ {0}
<1>1. /\ AllQuiet(<<>>) /\ AllQuiet(<<Barrier>>) /\ AllQuiet(<<Barrier, Barrier>>)
      /\ AllIdle(<<>>) /\ AllIdle(<<Barrier>>)
  BY Short, Idles
<1>2. ASSUME NEW b \in MpiBlocking(np) PROVE IsCollective(b)
  <2>1. ASSUME NEW stats, AllIdle(stats), NEW kind,
               NEW start \in {<<>>, <<Barrier>>},
               NEW before \in {<<>>, <<Barrier>>, <<Barrier, Barrier>>},
               NEW after \in {<<Report>> \o stats \o <<Barrier>>,
                              <<Barrier, Report>> \o stats \o <<Barrier>>,
                              <<Barrier, Report>> \o stats}
        PROVE  IsCollective(Blocking(np, kind, start, before, after))
    <3>1. AllIdle(after) /\ Len(after) # 0
      BY <2>1, AfterTheLoop
    <3>2. AllQuiet(start) /\ AllQuiet(before)
      BY <1>1
    <3> QED BY <3>1, <3>2, BlockingIs
  <2>2. \A kind : /\ IsCollective(Plain(np, kind))
                  /\ \A before \in {<<>>, <<Barrier>>, <<Barrier, Barrier>>} :
                       IsCollective(Settled(np, kind, before))
    BY <2>1, MinMaxAvgIs DEF Plain, Settled
  <2>3. /\ IsCollective(OsuAlltoallv(np)) /\ IsCollective(OsuScatterv(np))
        /\ IsCollective(OsuBcast(np))
    BY <2>1, MinMaxAvgIs DEF OsuAlltoallv, OsuScatterv, OsuBcast
  <2>4. /\ IsCollective(OsuAllgather(np)) /\ IsCollective(OsuAllgatherv(np))
        /\ IsCollective(OsuGatherv(np))
    BY <2>2 DEF OsuAllgather, OsuAllgatherv, OsuGatherv
  <2>5. /\ IsCollective(OsuAllreduce(np)) /\ IsCollective(OsuAlltoall(np))
        /\ IsCollective(OsuGather(np)) /\ IsCollective(OsuReduce(np))
        /\ IsCollective(OsuReduceScatter(np)) /\ IsCollective(OsuScatter(np))
    BY <2>2 DEF OsuAllreduce, OsuAlltoall, OsuGather, OsuReduce, OsuReduceScatter, OsuScatter
  <2> QED BY <2>3, <2>4, <2>5, OsuBarrierIs DEF MpiBlocking
<1>3. ASSUME NEW b \in MpiNonblocking(np) PROVE IsCollective(b)
  <2>1. ASSUME NEW kind, NEW vector \in BOOLEAN,
               NEW before \in {<<>>, <<Barrier>>, <<Barrier, Barrier>>},
               NEW setup \in {<<>>, <<Barrier>>}
        PROVE  IsCollective(Nonblocking(np, kind, vector, before, setup))
    <3>1. AllQuiet(before) /\ AllIdle(setup)
      BY <1>1
    <3> QED BY <3>1, NonblockingIs
  <2>2. /\ IsCollective(OsuIallgather(np)) /\ IsCollective(OsuIalltoall(np))
        /\ IsCollective(OsuIbcast(np)) /\ IsCollective(OsuIgather(np))
        /\ IsCollective(OsuIscatter(np)) /\ IsCollective(OsuIallgatherv(np))
        /\ IsCollective(OsuIalltoallv(np)) /\ IsCollective(OsuIalltoallw(np))
        /\ IsCollective(OsuIgatherv(np)) /\ IsCollective(OsuIscatterv(np))
    BY <2>1 DEF OsuIallgather, OsuIalltoall, OsuIbcast, OsuIgather, OsuIscatter, OsuIallgatherv,
                OsuIalltoallv, OsuIalltoallw, OsuIgatherv, OsuIscatterv
  <2> QED BY <2>2, OsuIbarrierIs DEF MpiNonblocking
<1>4. ASSUME NEW b \in ShmemCollectives(np) PROVE IsCollective(b)
  <2>1. ASSUME NEW program, NEW kind, NEW buffers \in Nat, NEW arrays,
               NEW before \in {<<>>, <<Barrier>>}, NEW finish \in {<<>>, <<Barrier>>},
               NEW after \in {<<Report>> \o StatsToAll \o <<Barrier>>,
                              <<Barrier, Report>> \o StatsToAll}
        PROVE  IsCollective(ShmemCollective(program, np, kind, buffers, arrays, before, after,
                                            finish))
    <3>1. AllIdle(after) /\ Len(after) # 0
      BY StatsToAllIs, AfterTheLoop
    <3>2. AllQuiet(before) /\ AllQuiet(finish)
      BY <1>1
    <3> QED BY <3>1, <3>2, ShmemCollectiveIs
  <2>2. /\ IsCollective(OsuOshmCollect(np)) /\ IsCollective(OsuOshmFcollect(np))
        /\ IsCollective(OsuOshmBroadcast(np)) /\ IsCollective(OsuOshmReduce(np))
    BY <2>1 DEF OsuOshmCollect, OsuOshmFcollect, OsuOshmBroadcast, OsuOshmReduce
  <2> QED BY <2>2, OsuOshmBarrierIs DEF ShmemCollectives
<1>5. ASSUME NEW b \in UpcCollectives(np) PROVE IsCollective(b)
  <2>1. ASSUME NEW kind, NEW ready \in {<<>>, <<Barrier>>}, NEW before \in {<<>>, <<Barrier>>},
               NEW finish \in {<<>>, <<Barrier>>}
        PROVE  IsCollective(UpcCollective(np, kind, ready, before, finish))
    <3>1. AllQuiet(ready) /\ AllBarriers(before) /\ AllQuiet(finish)
      <4>1. AllBarriers(<<>>) /\ AllBarriers(<<Barrier>>)
        BY DEF AllBarriers, IsSequence
      <4> QED BY <1>1, <4>1
    <3> QED BY <3>1, UpcCollectiveIs
  <2>2. /\ IsCollective(OsuUpcAllBroadcast(np)) /\ IsCollective(OsuUpcAllExchange(np))
        /\ IsCollective(OsuUpcAllGather(np)) /\ IsCollective(OsuUpcAllGatherAll(np))
        /\ IsCollective(OsuUpcAllReduce(np)) /\ IsCollective(OsuUpcAllScatter(np))
    BY <2>1 DEF OsuUpcAllBroadcast, OsuUpcAllExchange, OsuUpcAllGather, OsuUpcAllGatherAll,
                OsuUpcAllReduce, OsuUpcAllScatter
  <2> QED BY <2>2, OsuUpcAllBarrierIs DEF UpcCollectives
<1>6. ASSUME NEW b \in UpcxxCollectives(np) PROVE IsCollective(b)
  BY UpcxxCollectiveIs DEF UpcxxCollectives, OsuUpcxxAllgather, OsuUpcxxAlltoall, OsuUpcxxBcast,
                           OsuUpcxxGather, OsuUpcxxReduce, OsuUpcxxScatter
<1> QED BY <1>2, <1>3, <1>4, <1>5, <1>6 DEF Collectives

(***************************************************************************)
(* So in every run of a collective benchmark of the suite, on any number   *)
(* of processes, for any number of sizes and iterations, all processes     *)
(* call the same collectives for the same size, the measured calls do not  *)
(* overlap, and what is divided by options.loop covers options.loop calls. *)
(***************************************************************************)
THEOREM CollectivesTheorem ==
  WinSpec => [](\A np \in Nat \ {0} : benchmark \in Collectives(np) =>
                  CollectivesMatch /\ IterationsSeparated /\ AverageOverTheTimedCalls)
<1>1. ASSUME SameProgram(benchmark) => CollectivesMatch,
             IsCollective(benchmark) => IterationsSeparated,
             IsCollective(benchmark) => AverageOverTheTimedCalls
      PROVE  \A np \in Nat \ {0} : benchmark \in Collectives(np) =>
               CollectivesMatch /\ IterationsSeparated /\ AverageOverTheTimedCalls
  BY <1>1, SuiteIsCollective, CollectiveIsSame
<1>2. (SameProgram(benchmark) => CollectivesMatch)
        /\ (IsCollective(benchmark) => IterationsSeparated)
        /\ (IsCollective(benchmark) => AverageOverTheTimedCalls)
        => \A np \in Nat \ {0} : benchmark \in Collectives(np) =>
             CollectivesMatch /\ IterationsSeparated /\ AverageOverTheTimedCalls
  BY <1>1, SMTT(30)
<1> QED BY <1>2, MatchTheorem, IterationsTheorem, AverageTheorem, PTL

-----------------------------------------------------------------------------
(***************************************************************************)
(* The pSync arrays of the OpenSHMEM collectives.  Two collectives with    *)
(* the same array may be under way at once only if nothing between them    *)
(* waits for all the processes.  The measured collective of an iteration   *)
(* takes the array that the one before did not have, and the others that   *)
(* follow directly on a collective with an array have none, or another.    *)
(***************************************************************************)
HasArray(o) == "arrays" \in DOMAIN o
Names(o)    == {o.arrays[n] : n \in 1 .. Len(o.arrays)}
Ordinary(o) == o.op = "call" => ~HasArray(o) /\ Full(o.kind)
Synchronises(o) == o.op = "call" /\ HasArray(o)

\* No call after statement m and before statement n.
NoCall(ops, m, n) == \A p \in 1 .. Len(ops) : m < p /\ p < n => ops[p].op # "call"

\* A loop whose collective is at s, and the section after it.
AlternatesAt(ops, after, s) ==
  /\ Synchronises(ops[s]) /\ Len(ops[s].arrays) = 2 /\ ops[s].arrays[1] # ops[s].arrays[2]
  /\ \A p \in (1 .. Len(ops)) \ {s} : Ordinary(ops[p])
  /\ \/ \E p \in s + 1 .. Len(ops) : ops[p].op = "call"
     \/ /\ Full(ops[s].kind)
        /\ \A p \in 1 .. Len(after) : NoCall(after, 0, p) => ~Synchronises(after[p])

\* Statistics over all processes, each with an array of its own.
TakesTurns(ops) ==
  /\ \E p \in 1 .. Len(ops) : ops[p].op = "call"
  /\ \A p \in 1 .. Len(ops) :
       ops[p].op = "call" => Full(ops[p].kind) /\ (HasArray(ops[p]) => Len(ops[p].arrays) = 1)
  /\ \A p, q \in 1 .. Len(ops) :
       p < q /\ Synchronises(ops[p]) /\ Synchronises(ops[q]) /\ NoCall(ops, p, q)
         => ops[p].arrays[1] # ops[q].arrays[1]

IsSyncedSize(secs) ==
  /\ Len(secs) = 3
  /\ \A s \in 1 .. 3 : \A p \in 1 .. Len(secs[s].ops) : secs[s].ops[p].op # "start"
  /\ \A p \in 1 .. Len(secs[1].ops) : Ordinary(secs[1].ops[p])
  /\ \E s \in 1 .. Len(secs[2].ops) : AlternatesAt(secs[2].ops, secs[3].ops, s)
  /\ TakesTurns(secs[3].ops)

\* From the statistics of one size to the loop of another.
Resumes(ops, loop) ==
  \A p \in 1 .. Len(ops) : \A q \in 1 .. Len(loop) :
    Synchronises(ops[p]) /\ NoCall(ops, p, Len(ops) + 1) /\ Synchronises(loop[q])
      => ops[p].arrays[1] \notin Names(loop[q])

IsSynced(b) ==
  /\ IsCollective(b)
  /\ \A n \in 1 .. Len(b.start) : Ordinary(b.start[n])
  /\ \A n \in 1 .. Len(b.finish) : Ordinary(b.finish[n])
  /\ \A k \in 1 .. b.sizes : IsSyncedSize(b.body[k][1])
  /\ \A k, m \in 1 .. b.sizes : Resumes(b.body[k][1][3].ops, b.body[m][1][2].ops)

-----------------------------------------------------------------------------
\* A rank that made its last call at a may be at b, where it makes the next.
Later(a, b) ==
  LET ops == SectionAt(a).ops
  IN  \/ b = Over
      \/ /\ b.size = a.size /\ b.seg = a.seg /\ b.iter = a.iter /\ a.pos < b.pos
         /\ NoCall(ops, a.pos, b.pos)
      \/ /\ b.size = a.size /\ b.seg = a.seg /\ b.iter = a.iter + 1 /\ a.seg = 2
         /\ NoCall(ops, a.pos, Len(ops) + 1) /\ NoCall(SectionAt(b).ops, 0, b.pos)
      \/ /\ b.size = a.size /\ b.seg = 3 /\ a.seg = 2
         /\ NoCall(ops, a.pos, Len(ops) + 1) /\ NoCall(SectionAt(b).ops, 0, b.pos)
      \/ b.size = a.size + 1 /\ b.seg = 1 /\ a.seg = 3 /\ NoCall(ops, a.pos, Len(ops) + 1)
      \/ /\ b.size = a.size + 1 /\ b.seg = 2 /\ a.seg = 3
         /\ NoCall(ops, a.pos, Len(ops) + 1) /\ NoCall(SectionAt(b).ops, 0, b.pos)

\* The sections of such a program.
LEMMA SyncedSections ==
  ASSUME IsSynced(benchmark), NEW a, IsPlace(a), InBody(a)
  PROVE  /\ CodeOf(a.size) = benchmark.body[a.size][1]
         /\ Len(CodeOf(a.size)) = 3 /\ a.seg \in {1, 2, 3}
         /\ IsSyncedSize(CodeOf(a.size))
         /\ SectionAt(a) = CodeOf(a.size)[a.seg] /\ (SectionAt(a).loop <=> a.seg = 2)
         /\ OpAt(a) = SectionAt(a).ops[a.pos] /\ a.pos \in 1 .. Len(SectionAt(a).ops)
         /\ Len(SectionAt(a).ops) \in Nat \ {0}
         /\ a.size \in Nat /\ a.iter \in Nat
<1>1. a.size # 0 /\ a.size # Closing /\ benchmark.sizes \in Nat /\ IsCollective(benchmark)
  BY DEF InBody, Closing, IsSynced, IsCollective
<1>2. CodeOf(a.size) = benchmark.body[a.size][1]
  BY <1>1 DEF CodeOf, Code
<1>3. IsSyncedSize(CodeOf(a.size))
  BY <1>2 DEF IsSynced, InBody
<1>4. Len(CodeOf(a.size)) = 3
  BY <1>3 DEF IsSyncedSize
<1>5. a.seg \in {1, 2, 3}
  BY <1>4 DEF IsPlace
<1>6. HasShape(CodeOf(a.size))
  BY <1>1, SectionKind
<1>7. SectionAt(a) = CodeOf(a.size)[a.seg]
  BY DEF SectionAt
<1>8. /\ ~CodeOf(a.size)[1].loop /\ CodeOf(a.size)[2].loop /\ ~CodeOf(a.size)[3].loop
  BY <1>4, <1>6 DEF HasShape
<1>9. SectionAt(a).loop <=> a.seg = 2
  BY <1>5, <1>7, <1>8
<1>10. IsSequence(SectionAt(a).ops) /\ Len(SectionAt(a).ops) \in Nat \ {0}
  BY <1>1, SectionKind, ShapesUnguarded
<1>11. OpAt(a) = SectionAt(a).ops[a.pos]
  BY DEF OpAt
<1>12. a.pos \in 1 .. Len(SectionAt(a).ops) /\ a.iter \in Nat
  BY DEF IsPlace
<1>13. a.size \in Nat
  <2>1. a.size \in 1 .. benchmark.sizes
    BY DEF InBody
  <2> QED BY <1>1, <2>1
<1> QED BY <1>2, <1>3, <1>4, <1>5, <1>7, <1>9, <1>10, <1>11, <1>12, <1>13

\* Before the first size and after the last one there are no such calls.
LEMMA OutsideIsOrdinary ==
  ASSUME IsSynced(benchmark), NEW a, IsPlace(a), a.size \notin 1 .. benchmark.sizes
  PROVE  /\ Ordinary(OpAt(a)) /\ OpAt(a).op # "start" /\ a.seg = 1
         /\ a.size = 0 \/ a.size = Closing
<1>1. IsCollective(benchmark) /\ Closing = benchmark.sizes + 1 /\ benchmark.sizes \in Nat
  BY DEF IsSynced, IsCollective, Closing
<1>2. a.size = 0 \/ a.size = Closing
  BY <1>1 DEF IsPlace
<1>3. ~InBody(a)
  BY DEF InBody
<1>4. OpAt(a).op # "start"
  BY <1>1, <1>3, OpsInCollective
<1>5. Ordinary(Check) /\ Ordinary(Finalize)
  <2>1. Check.op # "call" /\ Finalize.kind = "finalize"
    BY DEF Check, Finalize, Call, Do
  <2>2. ~HasArray(Finalize)
    BY DEF Finalize, Call, Do, HasArray
  <2> QED BY <2>1, <2>2 DEF Ordinary, Full
<1>6. CASE a.size = 0
  <2> DEFINE ops == <<Check>> \o benchmark.start
  <2>1. CodeOf(0) = <<Once(ops)>>
    BY <1>1 DEF CodeOf, Code
  <2>2. a.seg = 1
    <3> HIDE DEF ops
    <3>1. Len(CodeOf(0)) = 1
      BY <2>1
    <3>2. a.seg \in 1 .. Len(CodeOf(0))
      BY <1>6 DEF IsPlace
    <3>3. 1 .. 1 = {1}
      OBVIOUS
    <3> QED BY <3>1, <3>2, <3>3
  <2>3. SectionAt(a).ops = ops
    BY <1>6, <2>1, <2>2 DEF SectionAt, Once
  <2>4. IsSequence(<<Check>>) /\ IsSequence(benchmark.start) /\ Len(<<Check>>) = 1
    BY <1>1 DEF IsSequence, IsCollective, AllQuiet
  <2>5. \A n \in 1 .. Len(ops) : \/ n \in 1 .. 1 /\ ops[n] = <<Check>>[n]
                                 \/ n - 1 \in 1 .. Len(benchmark.start) /\ ops[n] = benchmark.start[n - 1]
    BY <2>4, Joined
  <2> HIDE DEF ops
  <2>6. a.pos \in 1 .. Len(ops) /\ OpAt(a) = ops[a.pos]
    BY <2>3 DEF IsPlace, OpAt
  <2>7. Ordinary(OpAt(a))
    BY <1>5, <2>5, <2>6 DEF IsSynced
  <2> QED BY <1>2, <1>4, <2>2, <2>7
<1>7. CASE a.size = Closing
  <2> DEFINE ops == benchmark.finish \o <<Finalize>>
             f == benchmark.finish
  <2>1. CodeOf(Closing) = <<Once(ops)>>
    BY <1>1 DEF CodeOf, Code
  <2>2. a.seg = 1
    <3> HIDE DEF ops
    <3>1. Len(CodeOf(Closing)) = 1
      BY <2>1
    <3>2. a.seg \in 1 .. Len(CodeOf(Closing))
      BY <1>7 DEF IsPlace
    <3>3. 1 .. 1 = {1}
      OBVIOUS
    <3> QED BY <3>1, <3>2, <3>3
  <2>3. SectionAt(a).ops = ops
    BY <1>7, <2>1, <2>2, SMTT(30) DEF SectionAt, Once
  <2>4. IsSequence(<<Finalize>>) /\ IsSequence(f) /\ Len(<<Finalize>>) = 1
    BY <1>1 DEF IsSequence, IsCollective, AllQuiet
  <2>5. \A n \in 1 .. Len(ops) : \/ n \in 1 .. Len(f) /\ ops[n] = f[n]
                                 \/ n - Len(f) \in 1 .. 1 /\ ops[n] = <<Finalize>>[n - Len(f)]
    BY <2>4, Joined
  <2> HIDE DEF ops
  <2>6. a.pos \in 1 .. Len(ops) /\ OpAt(a) = ops[a.pos]
    BY <2>3 DEF IsPlace, OpAt
  <2>7. Ordinary(OpAt(a))
    BY <1>5, <2>5, <2>6 DEF IsSynced
  <2> QED BY <1>2, <1>4, <2>2, <2>7
<1> QED BY <1>2, <1>6, <1>7

\* A rank that goes on without a call.
LEMMA LaterStep ==
  ASSUME IsSynced(benchmark), NEW a, IsPlace(a), InBody(a), a.seg # 1, OpAt(a).op = "call",
         NEW b, IsPlace(b), b # Over, b = a \/ (Later(a, b) /\ OpAt(b).op # "call"), NEW o
  PROVE  Later(a, Then(b, o))
<1> DEFINE ops == SectionAt(a).ops
           c   == Then(b, o)
           top == SectionAt(b).ops
<1>1. IsCollective(benchmark) /\ benchmark.sizes \in Nat /\ Closing = benchmark.sizes + 1
  BY DEF IsSynced, IsCollective, Closing
<1>2. \A n \in Nat : NoCall(ops, n, n + 1)
  BY DEF NoCall
<1>3. \A t : NoCall(t, 0, 1)
  BY DEF NoCall
<1>4. ASSUME NEW t, NEW m, NEW n \in Nat, NoCall(t, m, n), t[n].op # "call"
      PROVE  NoCall(t, m, n + 1)
  BY <1>4 DEF NoCall
<1>5. /\ a.seg \in {2, 3} /\ a.pos \in 1 .. Len(ops) /\ Len(ops) \in Nat /\ ops[a.pos].op = "call"
      /\ a.size \in Nat /\ a.iter \in Nat
  BY SyncedSections
<1>7. CASE InBody(b)
  <2>1. /\ Len(CodeOf(b.size)) = 3 /\ b.seg \in {1, 2, 3} /\ (SectionAt(b).loop <=> b.seg = 2)
        /\ b.pos \in 1 .. Len(top) /\ Len(top) \in Nat /\ OpAt(b) = top[b.pos]
        /\ b.size \in Nat /\ b.iter \in Nat /\ IsSyncedSize(CodeOf(b.size))
        /\ SectionAt(b) = CodeOf(b.size)[b.seg]
    BY <1>7, SyncedSections
  <2>2. /\ b.pos < Len(top) => c = Place(b.size, b.seg, b.iter, b.pos + 1)
        /\ b.pos = Len(top) =>
             IF b.seg = 2 /\ b.iter + 1 < Trips(o) THEN c = Place(b.size, 2, b.iter + 1, 1)
             ELSE IF b.seg < 3 THEN c = Place(b.size, b.seg + 1, 0, 1)
             ELSE c.seg = 1 /\ c.size = b.size + 1
    BY <1>1, <1>7, <2>1, NextPlace, ZenonT(60)
  <2>3. \A k, s, i, p : /\ Place(k, s, i, p).size = k /\ Place(k, s, i, p).seg = s
                        /\ Place(k, s, i, p).iter = i /\ Place(k, s, i, p).pos = p
                        /\ SectionAt(Place(k, s, i, p)) = CodeOf(k)[s]
    BY DEF Place, SectionAt
  <2>4. SectionAt(a) = CodeOf(a.size)[a.seg]
    BY DEF SectionAt
  <2>5. \E p \in 1 .. Len(CodeOf(b.size)[2].ops) : CodeOf(b.size)[2].ops[p].op = "call"
    BY <2>1, Zenon DEF IsSyncedSize, AlternatesAt, Synchronises
  <2>6. \E p \in 1 .. Len(CodeOf(b.size)[3].ops) : CodeOf(b.size)[3].ops[p].op = "call"
    BY <2>1, Zenon DEF IsSyncedSize, TakesTurns
  <2>7. b.seg # 1 => ~NoCall(top, 0, Len(top) + 1)
    <3>1. CASE b.seg = 2
      BY <2>1, <2>5, <3>1 DEF NoCall
    <3>2. CASE b.seg = 3
      BY <2>1, <2>6, <3>2 DEF NoCall
    <3> QED BY <2>1, <3>1, <3>2
  <2>8. /\ b.pos < Len(top) \/ b.pos = Len(top)
        /\ b.pos \in Nat /\ a.pos \in Nat
    BY <1>5, <2>1
  <2> HIDE DEF ops, c, top
  \* In the same run of the section.
  <2>9. CASE /\ b.size = a.size /\ b.seg = a.seg /\ b.iter = a.iter /\ a.pos <= b.pos
             /\ NoCall(ops, a.pos, b.pos + 1)
    <3>1. top = ops
      BY <2>1, <2>4, <2>9 DEF ops, top
    <3>2. CASE b.pos < Len(top)
      <4>1. c = Place(a.size, a.seg, a.iter, b.pos + 1) /\ a.pos < b.pos + 1
        BY <2>2, <2>8, <2>9, <3>2
      <4> QED BY <2>3, <2>9, <4>1 DEF Later, ops, c
    <3>3. CASE b.pos = Len(top)
      <4>1. NoCall(ops, a.pos, Len(ops) + 1)
        BY <2>9, <3>1, <3>3
      <4>2. CASE b.seg = 2 /\ b.iter + 1 < Trips(o)
        <5>1. c = Place(a.size, 2, a.iter + 1, 1)
          BY <2>2, <2>9, <3>3, <4>2
        <5> QED BY <1>3, <2>3, <2>9, <4>1, <4>2, <5>1 DEF Later, ops, c
      <4>3. CASE b.seg = 2 /\ ~(b.iter + 1 < Trips(o))
        <5>1. c = Place(a.size, 3, 0, 1)
          BY <2>2, <2>9, <3>3, <4>3
        <5> QED BY <1>3, <2>3, <2>9, <4>1, <4>3, <5>1 DEF Later, ops, c
      <4>4. CASE b.seg = 3
        <5>1. c.seg = 1 /\ c.size = a.size + 1
          BY <2>2, <2>9, <3>3, <4>4
        <5> QED BY <2>9, <4>1, <4>4, <5>1 DEF Later, ops, c
      <4> QED BY <1>5, <2>9, <4>2, <4>3, <4>4
    <3> QED BY <2>8, <3>2, <3>3
  \* Past it, and before the first call of another section or iteration.
  <2>10. ASSUME b.seg # 1, NoCall(top, 0, b.pos), OpAt(b).op # "call"
         PROVE  /\ c = Place(b.size, b.seg, b.iter, b.pos + 1)
                /\ NoCall(SectionAt(c).ops, 0, b.pos + 1)
    <3>1. NoCall(top, 0, b.pos + 1)
      BY <1>4, <2>1, <2>8, <2>10
    <3>2. b.pos < Len(top)
      BY <2>7, <2>8, <2>10, <3>1
    <3>3. c = Place(b.size, b.seg, b.iter, b.pos + 1)
      BY <2>2, <3>2
    <3> QED BY <2>1, <2>3, <3>1, <3>3 DEF top
  <2>11. CASE b = a
    <3>1. NoCall(ops, a.pos, b.pos + 1) /\ a.pos <= b.pos
      BY <1>2, <2>8, <2>11 DEF ops
    <3> QED BY <2>9, <2>11, <3>1
  <2>12. CASE b # a
    <3>1. Later(a, b) /\ OpAt(b).op # "call"
      BY <2>12
    <3>2. CASE /\ b.size = a.size /\ b.seg = a.seg /\ b.iter = a.iter /\ a.pos < b.pos
               /\ NoCall(ops, a.pos, b.pos)
      <4>1. ops[b.pos].op # "call"
        BY <2>1, <2>4, <3>1, <3>2 DEF ops, top
      <4>2. NoCall(ops, a.pos, b.pos + 1) /\ a.pos <= b.pos
        BY <1>4, <2>8, <3>2, <4>1
      <4> QED BY <2>9, <3>2, <4>2
    <3>3. CASE /\ b.size = a.size /\ b.seg = a.seg /\ b.iter = a.iter + 1 /\ a.seg = 2
               /\ NoCall(ops, a.pos, Len(ops) + 1) /\ NoCall(top, 0, b.pos)
      BY <2>3, <2>10, <3>1, <3>3 DEF Later, ops, c
    <3>4. CASE /\ b.size = a.size /\ b.seg = 3 /\ a.seg = 2
               /\ NoCall(ops, a.pos, Len(ops) + 1) /\ NoCall(top, 0, b.pos)
      BY <2>3, <2>10, <3>1, <3>4 DEF Later, ops, c
    <3>5. CASE b.size = a.size + 1 /\ b.seg = 1 /\ a.seg = 3 /\ NoCall(ops, a.pos, Len(ops) + 1)
      <4>1. CASE b.pos < Len(top)
        BY <2>2, <2>3, <3>5, <4>1 DEF Later, ops, c
      <4>2. CASE b.pos = Len(top)
        <5>1. c = Place(b.size, 2, 0, 1)
          BY <2>2, <3>5, <4>2
        <5> QED BY <1>3, <2>3, <3>5, <5>1 DEF Later, ops, c
      <4> QED BY <2>8, <4>1, <4>2
    <3>6. CASE /\ b.size = a.size + 1 /\ b.seg = 2 /\ a.seg = 3
               /\ NoCall(ops, a.pos, Len(ops) + 1) /\ NoCall(top, 0, b.pos)
      BY <2>3, <2>10, <3>1, <3>6 DEF Later, ops, c
    <3> QED BY <3>1, <3>2, <3>3, <3>4, <3>5, <3>6 DEF Later, ops, top
  <2> QED BY <2>11, <2>12 DEF c
<1>8. CASE ~InBody(b)
  <2>1. b.size = Closing /\ a.size \in 1 .. benchmark.sizes /\ b # a /\ Later(a, b)
    <3>1. a.size \in 1 .. benchmark.sizes /\ b # a /\ b.size \notin 1 .. benchmark.sizes
      BY <1>8 DEF InBody
    <3>2. b.size = a.size \/ b.size = a.size + 1
      BY <3>1 DEF Later
    <3>3. b.size = 0 \/ b.size = Closing
      BY <3>1, OutsideIsOrdinary
    <3> QED BY <1>1, <3>1, <3>2, <3>3
  <2>2. b.size = a.size + 1 /\ a.seg = 3 /\ NoCall(ops, a.pos, Len(ops) + 1)
    BY <1>1, <2>1, OutsideIsOrdinary DEF Later
  <2>3. /\ c # Over => IsPlace(c)
        /\ c.size \in {b.size, b.size + 1}
    BY <1>1, CollectiveIsSame, ThenIsPlace DEF SameProgram, Uniform
  <2>4. CASE c # Over
    <3>1. c.size = Closing
      <4>1. c.size \in 0 .. Closing
        BY <2>3, <2>4 DEF IsPlace
      <4> HIDE DEF c
      <4> QED BY <1>1, <2>1, <2>3, <4>1
    <3>2. c.seg = 1
      <4>1. c.size \notin 1 .. benchmark.sizes
        BY <1>1, <3>1
      <4> QED BY <2>3, <2>4, <4>1, OutsideIsOrdinary
    <3> HIDE DEF c, ops
    <3> QED BY <2>1, <2>2, <3>1, <3>2 DEF Later, ops, c
  <2>5. CASE c = Over
    BY <2>5 DEF Later
  <2> QED BY <2>4, <2>5
<1> QED BY <1>7, <1>8

\* The array of a call in iteration i.
ArrayIn(o, i) == o.arrays[(i % Len(o.arrays)) + 1]

\* The call y in iteration j may come next after the call x in iteration i.
Succeeds(x, i, y, j) ==
  /\ HasArray(x) /\ HasArray(y) => ArrayIn(x, i) # ArrayIn(y, j)
  /\ ~Full(x.kind) => ~HasArray(y) /\ Full(y.kind)

\* Of one array the iterations take that one, of two in turn the one and the other.
LEMMA ArrayTurns ==
  ASSUME NEW o, NEW i \in Nat
  PROVE  /\ Len(o.arrays) = 1 => ArrayIn(o, i) = o.arrays[1]
         /\ Len(o.arrays) = 2 => /\ ArrayIn(o, i) \in Names(o)
                                 /\ o.arrays[1] # o.arrays[2] => ArrayIn(o, i) # ArrayIn(o, i + 1)
<1>1. i % 1 = 0 /\ 0 + 1 = 1
  OBVIOUS
<1>2. \/ i % 2 = 0 /\ (i + 1) % 2 = 1
      \/ i % 2 = 1 /\ (i + 1) % 2 = 0
  OBVIOUS
<1>3. ASSUME Len(o.arrays) = 1 PROVE ArrayIn(o, i) = o.arrays[1]
  BY <1>1, <1>3 DEF ArrayIn
<1>4. ASSUME Len(o.arrays) = 2
      PROVE  /\ ArrayIn(o, i) \in Names(o)
             /\ o.arrays[1] # o.arrays[2] => ArrayIn(o, i) # ArrayIn(o, i + 1)
  <2>1. 0 + 1 = 1 /\ 1 + 1 = 2 /\ 1 \in 1 .. 2 /\ 2 \in 1 .. 2
    OBVIOUS
  <2>2. CASE i % 2 = 0 /\ (i + 1) % 2 = 1
    <3>1. ArrayIn(o, i) = o.arrays[1] /\ ArrayIn(o, i + 1) = o.arrays[2]
      BY <1>4, <2>1, <2>2 DEF ArrayIn
    <3> QED BY <1>4, <2>1, <3>1 DEF Names
  <2>3. CASE i % 2 = 1 /\ (i + 1) % 2 = 0
    <3>1. ArrayIn(o, i) = o.arrays[2] /\ ArrayIn(o, i + 1) = o.arrays[1]
      BY <1>4, <2>1, <2>3 DEF ArrayIn
    <3> QED BY <1>4, <2>1, <3>1 DEF Names
  <2> QED BY <1>2, <2>2, <2>3
<1> QED BY <1>3, <1>4

\* Without an array on either side there is nothing to observe.
LEMMA OrdinarySucceeds ==
  ASSUME NEW x, NEW i, NEW y, NEW j, x.op = "call", y.op = "call"
  PROVE  Ordinary(x) \/ Ordinary(y) => Succeeds(x, i, y, j)
BY DEF Ordinary, Succeeds

\* Two calls of the statistics of one size.
LEMMA WithinStatistics ==
  ASSUME NEW ops, TakesTurns(ops), NEW p \in 1 .. Len(ops), NEW q \in 1 .. Len(ops),
         p < q, NoCall(ops, p, q), ops[p].op = "call", ops[q].op = "call",
         NEW i \in Nat, NEW j \in Nat
  PROVE  Succeeds(ops[p], i, ops[q], j)
<1> DEFINE x == ops[p]
           y == ops[q]
<1>1. /\ Full(x.kind) /\ (HasArray(x) => Len(x.arrays) = 1)
      /\ HasArray(y) => Len(y.arrays) = 1
  BY DEF TakesTurns
<1>2. HasArray(x) /\ HasArray(y) => x.arrays[1] # y.arrays[1]
  BY DEF TakesTurns, Synchronises
<1>3. HasArray(x) => ArrayIn(x, i) = x.arrays[1]
  BY <1>1, ArrayTurns
<1>4. HasArray(y) => ArrayIn(y, j) = y.arrays[1]
  BY <1>1, ArrayTurns
<1> QED BY <1>1, <1>2, <1>3, <1>4 DEF Succeeds

\* Two calls of one iteration, or of an iteration and the next.
LEMMA WithinLoop ==
  ASSUME NEW ops, NEW after, NEW s \in 1 .. Len(ops), AlternatesAt(ops, after, s),
         NEW p \in 1 .. Len(ops), NEW q \in 1 .. Len(ops), ops[p].op = "call", ops[q].op = "call",
         NEW i \in Nat, NEW j \in Nat,
         \/ p < q
         \/ j = i + 1 /\ NoCall(ops, p, Len(ops) + 1)
  PROVE  Succeeds(ops[p], i, ops[q], j)
<1>1. \A n \in 1 .. Len(ops) : n # s => Ordinary(ops[n])
  BY DEF AlternatesAt
<1>2. CASE p # s \/ q # s
  BY <1>1, <1>2, OrdinarySucceeds
<1>3. CASE p = s /\ q = s
  <2>1. j = i + 1 /\ NoCall(ops, s, Len(ops) + 1)
    BY <1>3
  <2>2. Full(ops[s].kind)
    BY <2>1 DEF AlternatesAt, NoCall
  <2>3. Len(ops[s].arrays) = 2 /\ ops[s].arrays[1] # ops[s].arrays[2]
    BY DEF AlternatesAt
  <2>4. ArrayIn(ops[s], i) # ArrayIn(ops[s], j)
    BY <2>1, <2>3, ArrayTurns
  <2> QED BY <1>3, <2>2, <2>4 DEF Succeeds
<1> QED BY <1>2, <1>3

\* From the loop to the statistics.
LEMMA LoopToStatistics ==
  ASSUME NEW ops, NEW after, NEW s \in 1 .. Len(ops), AlternatesAt(ops, after, s),
         NEW p \in 1 .. Len(ops), NEW q \in 1 .. Len(after), ops[p].op = "call", after[q].op = "call",
         NEW i \in Nat, NEW j \in Nat, NoCall(ops, p, Len(ops) + 1), NoCall(after, 0, q)
  PROVE  Succeeds(ops[p], i, after[q], j)
<1>1. CASE p # s
  <2>1. Ordinary(ops[p])
    BY <1>1 DEF AlternatesAt
  <2> QED BY <2>1, OrdinarySucceeds
<1>2. CASE p = s
  <2>1. Full(ops[s].kind) /\ ~Synchronises(after[q])
    BY <1>2 DEF AlternatesAt, NoCall
  <2> QED BY <1>2, <2>1 DEF Succeeds, Synchronises
<1> QED BY <1>1, <1>2

\* From the statistics to the loop of another size.
LEMMA StatisticsToLoop ==
  ASSUME NEW ops, TakesTurns(ops), NEW loop, NEW after, NEW s \in 1 .. Len(loop),
         AlternatesAt(loop, after, s), Resumes(ops, loop),
         NEW p \in 1 .. Len(ops), NEW q \in 1 .. Len(loop), ops[p].op = "call", loop[q].op = "call",
         NEW i \in Nat, NEW j \in Nat, NoCall(ops, p, Len(ops) + 1)
  PROVE  Succeeds(ops[p], i, loop[q], j)
<1>1. CASE q # s
  <2>1. Ordinary(loop[q])
    BY <1>1 DEF AlternatesAt
  <2> QED BY <2>1, OrdinarySucceeds
<1>2. CASE q = s
  <2> DEFINE x == ops[p]
             y == loop[s]
  <2>1. Full(x.kind) /\ (HasArray(x) => Len(x.arrays) = 1)
    BY DEF TakesTurns
  <2>2. HasArray(x) => ArrayIn(x, i) = x.arrays[1]
    BY <2>1, ArrayTurns
  <2>3. ArrayIn(y, j) \in Names(y)
    <3>1. Len(y.arrays) = 2
      BY DEF AlternatesAt
    <3> QED BY <3>1, ArrayTurns
  <2>4. HasArray(x) /\ HasArray(y) => x.arrays[1] \notin Names(y)
    BY <1>2 DEF Resumes, Synchronises
  <2> QED BY <1>2, <2>1, <2>2, <2>3, <2>4 DEF Succeeds
<1> QED BY <1>1, <1>2

-----------------------------------------------------------------------------
(***************************************************************************)
(* The same of two calls x and y that stand at p and q.                    *)
(***************************************************************************)
Stands(x, ops, p)      == p \in 1 .. Len(ops) /\ x = ops[p] /\ x.op = "call"
Alternates(ops, after) == \E s \in 1 .. Len(ops) : AlternatesAt(ops, after, s)

LEMMA StandWithinStatistics ==
  ASSUME NEW ops, TakesTurns(ops), NEW p, NEW q, NEW x, NEW y, NEW i \in Nat, NEW j \in Nat,
         Stands(x, ops, p), Stands(y, ops, q), p < q, NoCall(ops, p, q)
  PROVE  Succeeds(x, i, y, j)
<1>1. /\ p \in 1 .. Len(ops) /\ x = ops[p] /\ ops[p].op = "call"
      /\ q \in 1 .. Len(ops) /\ y = ops[q] /\ ops[q].op = "call"
  BY DEF Stands
<1>2. Succeeds(ops[p], i, ops[q], j)
  BY <1>1, WithinStatistics
<1> QED BY <1>1, <1>2

LEMMA StandWithinLoop ==
  ASSUME NEW ops, NEW after, Alternates(ops, after), NEW p, NEW q, NEW x, NEW y,
         NEW i \in Nat, NEW j \in Nat, Stands(x, ops, p), Stands(y, ops, q),
         \/ p < q
         \/ j = i + 1 /\ NoCall(ops, p, Len(ops) + 1)
  PROVE  Succeeds(x, i, y, j)
<1>1. /\ p \in 1 .. Len(ops) /\ x = ops[p] /\ ops[p].op = "call"
      /\ q \in 1 .. Len(ops) /\ y = ops[q] /\ ops[q].op = "call"
  BY DEF Stands
<1>2. PICK s \in 1 .. Len(ops) : AlternatesAt(ops, after, s)
  BY DEF Alternates
<1>3. Succeeds(ops[p], i, ops[q], j)
  BY <1>1, <1>2, WithinLoop
<1> QED BY <1>1, <1>3

LEMMA StandAfterLoop ==
  ASSUME NEW ops, NEW after, Alternates(ops, after), NEW p, NEW q, NEW x, NEW y,
         NEW i \in Nat, NEW j \in Nat, Stands(x, ops, p), Stands(y, after, q),
         NoCall(ops, p, Len(ops) + 1), NoCall(after, 0, q)
  PROVE  Succeeds(x, i, y, j)
<1>1. /\ p \in 1 .. Len(ops) /\ x = ops[p] /\ ops[p].op = "call"
      /\ q \in 1 .. Len(after) /\ y = after[q] /\ after[q].op = "call"
  BY DEF Stands
<1>2. PICK s \in 1 .. Len(ops) : AlternatesAt(ops, after, s)
  BY DEF Alternates
<1>3. Succeeds(ops[p], i, after[q], j)
  BY <1>1, <1>2, LoopToStatistics
<1> QED BY <1>1, <1>3

LEMMA StandAfterStatistics ==
  ASSUME NEW ops, TakesTurns(ops), NEW loop, NEW after, Alternates(loop, after),
         Resumes(ops, loop), NEW p, NEW q, NEW x, NEW y, NEW i \in Nat, NEW j \in Nat,
         Stands(x, ops, p), Stands(y, loop, q), NoCall(ops, p, Len(ops) + 1)
  PROVE  Succeeds(x, i, y, j)
<1>1. /\ p \in 1 .. Len(ops) /\ x = ops[p] /\ ops[p].op = "call"
      /\ q \in 1 .. Len(loop) /\ y = loop[q] /\ loop[q].op = "call"
  BY DEF Stands
<1>2. PICK s \in 1 .. Len(loop) : AlternatesAt(loop, after, s)
  BY DEF Alternates
<1>3. Succeeds(ops[p], i, loop[q], j)
  BY <1>1, <1>2, StatisticsToLoop
<1> QED BY <1>1, <1>3

\* Where a call of such a program stands.
LEMMA SyncedStand ==
  ASSUME IsSynced(benchmark), NEW a, IsPlace(a), InBody(a), OpAt(a).op = "call",
         NEW loop, NEW stats,
         loop = CodeOf(a.size)[2].ops, stats = CodeOf(a.size)[3].ops
  PROVE  /\ Alternates(loop, stats) /\ TakesTurns(stats)
         /\ a.iter \in Nat /\ a.seg \in {1, 2, 3}
         /\ a.seg = 1 => Ordinary(OpAt(a))
         /\ a.seg = 2 => SectionAt(a).ops = loop /\ Stands(OpAt(a), loop, a.pos)
         /\ a.seg = 3 => SectionAt(a).ops = stats /\ Stands(OpAt(a), stats, a.pos)
<1>1. PICK secs, g, p : secs = CodeOf(a.size) /\ g = a.seg /\ p = a.pos
  OBVIOUS
<1>2. /\ IsSyncedSize(secs) /\ g \in {1, 2, 3} /\ a.iter \in Nat
      /\ SectionAt(a) = secs[g]
  BY <1>1, SyncedSections
<1>3. OpAt(a) = SectionAt(a).ops[p] /\ p \in 1 .. Len(SectionAt(a).ops)
  BY <1>1, SyncedSections
<1>4. Alternates(loop, stats) /\ TakesTurns(stats)
  BY <1>1, <1>2 DEF IsSyncedSize, Alternates
<1>5. ASSUME g = 1 PROVE Ordinary(OpAt(a))
  <2>1. \A n \in 1 .. Len(secs[1].ops) : Ordinary(secs[1].ops[n])
    BY <1>2 DEF IsSyncedSize
  <2>2. SectionAt(a).ops = secs[1].ops
    BY <1>2, <1>5
  <2> QED BY <1>3, <2>1, <2>2
<1>6. ASSUME g = 2 PROVE SectionAt(a).ops = loop /\ Stands(OpAt(a), loop, p)
  <2>1. SectionAt(a).ops = loop
    BY <1>1, <1>2, <1>6
  <2> QED BY <1>3, <2>1 DEF Stands
<1>7. ASSUME g = 3 PROVE SectionAt(a).ops = stats /\ Stands(OpAt(a), stats, p)
  <2>1. SectionAt(a).ops = stats
    BY <1>1, <1>2, <1>7
  <2> QED BY <1>3, <2>1 DEF Stands
<1> QED BY <1>1, <1>2, <1>4, <1>5, <1>6, <1>7

\* From the statistics of any size to the loop of any other.
LEMMA SyncedResumes ==
  ASSUME IsSynced(benchmark), NEW k \in 1 .. benchmark.sizes, NEW m \in 1 .. benchmark.sizes
  PROVE  Resumes(CodeOf(k)[3].ops, CodeOf(m)[2].ops)
<1>1. benchmark.sizes \in Nat
  BY DEF IsSynced, IsCollective
<1>2. CodeOf(k) = benchmark.body[k][1] /\ CodeOf(m) = benchmark.body[m][1]
  BY <1>1 DEF CodeOf, Code, Closing
<1> QED BY <1>2 DEF IsSynced

\* What the next call has to do with the one at a.
LEMMA NextCallIs ==
  ASSUME IsSynced(benchmark), NEW a, IsPlace(a), InBody(a), a.seg # 1, OpAt(a).op = "call",
         NEW b, IsPlace(b), b # Over, Later(a, b), OpAt(b).op = "call"
  PROVE  Succeeds(OpAt(a), a.iter, OpAt(b), b.iter)
<1>1. PICK loop, stats : loop = CodeOf(a.size)[2].ops /\ stats = CodeOf(a.size)[3].ops
  OBVIOUS
<1>2. /\ Alternates(loop, stats) /\ TakesTurns(stats) /\ a.iter \in Nat /\ a.seg \in {2, 3}
      /\ a.seg = 2 => SectionAt(a).ops = loop /\ Stands(OpAt(a), loop, a.pos)
      /\ a.seg = 3 => SectionAt(a).ops = stats /\ Stands(OpAt(a), stats, a.pos)
  BY <1>1, SyncedStand
<1>3. CASE ~InBody(b)
  <2>1. Ordinary(OpAt(b))
    BY <1>3, OutsideIsOrdinary DEF InBody
  <2> QED BY <2>1, OrdinarySucceeds
<1>4. CASE InBody(b)
  <2>1. PICK next, after : next = CodeOf(b.size)[2].ops /\ after = CodeOf(b.size)[3].ops
    OBVIOUS
  <2>2. /\ Alternates(next, after) /\ b.iter \in Nat /\ b.seg \in {1, 2, 3}
        /\ b.seg = 1 => Ordinary(OpAt(b))
        /\ b.seg = 2 => SectionAt(b).ops = next /\ Stands(OpAt(b), next, b.pos)
        /\ b.seg = 3 => SectionAt(b).ops = after /\ Stands(OpAt(b), after, b.pos)
    BY <1>4, <2>1, SyncedStand
  <2>3. b.size = a.size => next = loop /\ after = stats
    BY <1>1, <2>1
  <2>4. CASE b.seg = 1
    BY <2>2, <2>4, OrdinarySucceeds
  <2>5. CASE /\ b.size = a.size /\ b.seg = a.seg /\ b.iter = a.iter /\ a.pos < b.pos
             /\ NoCall(SectionAt(a).ops, a.pos, b.pos)
    <3>1. CASE a.seg = 2
      <4>1. Stands(OpAt(a), loop, a.pos) /\ Stands(OpAt(b), loop, b.pos)
        BY <1>2, <2>2, <2>3, <2>5, <3>1
      <4> QED BY <1>2, <2>2, <2>5, <4>1, StandWithinLoop
    <3>2. CASE a.seg = 3
      <4>1. /\ Stands(OpAt(a), stats, a.pos) /\ Stands(OpAt(b), stats, b.pos)
            /\ NoCall(stats, a.pos, b.pos)
        BY <1>2, <2>2, <2>3, <2>5, <3>2
      <4> QED BY <1>2, <2>2, <2>5, <4>1, StandWithinStatistics
    <3> QED BY <1>2, <3>1, <3>2
  <2>6. CASE /\ b.size = a.size /\ b.seg = a.seg /\ b.iter = a.iter + 1 /\ a.seg = 2
             /\ NoCall(SectionAt(a).ops, a.pos, Len(SectionAt(a).ops) + 1)
    <3>1. /\ Stands(OpAt(a), loop, a.pos) /\ Stands(OpAt(b), loop, b.pos)
          /\ NoCall(loop, a.pos, Len(loop) + 1)
      BY <1>2, <2>2, <2>3, <2>6
    <3> QED BY <1>2, <2>2, <2>6, <3>1, StandWithinLoop
  <2>7. CASE /\ b.size = a.size /\ b.seg = 3 /\ a.seg = 2
             /\ NoCall(SectionAt(a).ops, a.pos, Len(SectionAt(a).ops) + 1)
             /\ NoCall(SectionAt(b).ops, 0, b.pos)
    <3>1. /\ Stands(OpAt(a), loop, a.pos) /\ Stands(OpAt(b), stats, b.pos)
          /\ NoCall(loop, a.pos, Len(loop) + 1) /\ NoCall(stats, 0, b.pos)
      BY <1>2, <2>2, <2>3, <2>7
    <3> QED BY <1>2, <2>2, <3>1, StandAfterLoop
  <2>8. CASE /\ b.seg = 2 /\ a.seg = 3
             /\ NoCall(SectionAt(a).ops, a.pos, Len(SectionAt(a).ops) + 1)
    <3>1. /\ Stands(OpAt(a), stats, a.pos) /\ Stands(OpAt(b), next, b.pos)
          /\ NoCall(stats, a.pos, Len(stats) + 1)
      BY <1>2, <2>2, <2>8
    <3>2. Resumes(stats, next)
      BY <1>1, <1>4, <2>1, SyncedResumes DEF InBody
    <3> QED BY <1>2, <2>2, <3>1, <3>2, StandAfterStatistics
  <2>9. \/ /\ b.size = a.size /\ b.seg = a.seg /\ b.iter = a.iter /\ a.pos < b.pos
           /\ NoCall(SectionAt(a).ops, a.pos, b.pos)
        \/ /\ b.size = a.size /\ b.seg = a.seg /\ b.iter = a.iter + 1 /\ a.seg = 2
           /\ NoCall(SectionAt(a).ops, a.pos, Len(SectionAt(a).ops) + 1)
        \/ /\ b.size = a.size /\ b.seg = 3 /\ a.seg = 2
           /\ NoCall(SectionAt(a).ops, a.pos, Len(SectionAt(a).ops) + 1)
           /\ NoCall(SectionAt(b).ops, 0, b.pos)
        \/ b.seg = 1
        \/ /\ b.seg = 2 /\ a.seg = 3
           /\ NoCall(SectionAt(a).ops, a.pos, Len(SectionAt(a).ops) + 1)
    BY DEF Later
  <2> QED BY <2>4, <2>5, <2>6, <2>7, <2>8, <2>9
<1> QED BY <1>3, <1>4

-----------------------------------------------------------------------------
\* A call that is out of the ordinary is in a loop or after it.
LEMMA RemarkableCalls ==
  ASSUME IsSynced(benchmark), NEW a, IsPlace(a), ~Ordinary(OpAt(a))
  PROVE  InBody(a) /\ a.seg # 1 /\ OpAt(a).op = "call"
<1>1. a.size \in 1 .. benchmark.sizes
  BY OutsideIsOrdinary
<1>2. a # Over
  <2>1. benchmark.sizes \in Nat
    BY DEF IsSynced, IsCollective
  <2> QED BY <1>1, <2>1 DEF Over, Closing
<1>3. InBody(a)
  BY <1>1, <1>2 DEF InBody
<1>4. a.seg = 1 => Ordinary(OpAt(a))
  BY <1>3, SyncedSections DEF IsSyncedSize
<1> QED BY <1>3, <1>4 DEF Ordinary

\* Nor does such a program start nonblocking collectives.
LEMMA NothingStarted ==
  ASSUME IsSynced(benchmark), NEW a, IsPlace(a)
  PROVE  OpAt(a).op # "start"
<1>1. CASE a.size \notin 1 .. benchmark.sizes
  BY <1>1, OutsideIsOrdinary
<1>2. CASE a.size \in 1 .. benchmark.sizes
  <2>1. a # Over
    <3>1. benchmark.sizes \in Nat
      BY DEF IsSynced, IsCollective
    <3> QED BY <1>2, <3>1 DEF Over, Closing
  <2>2. InBody(a)
    BY <1>2, <2>1 DEF InBody
  <2> QED BY <2>2, SyncedSections, SMTT(30) DEF IsSyncedSize
<1> QED BY <1>1, <1>2

-----------------------------------------------------------------------------
(***************************************************************************)
(* Calls on the path.                                                      *)
(***************************************************************************)
\* A step on it.
Walks(l, m) ==
  LET calls == OpAt(l.at).op = "call" /\ ~l.inside
  IN  /\ IsLocal(l) /\ l.at # Over /\ IsPlace(l.at)
      /\ m.inside = calls
      /\ calls => m.called = l.called + 1 /\ m.at = l.at
      /\ ~calls => /\ m.called = l.called
                   /\ \/ m.at = Then(l.at, Chosen(l))
                      \/ OpAt(l.at).op = "check" /\ m.at = Usage

\* What NextLocal is for a rank of such a program.
LEMMA NextWalks ==
  ASSUME IsSynced(benchmark), NEW l, IsLocal(l), l.at # Over
  PROVE  Walks(l, NextLocal(l))
<1>1. IsPlace(l.at)
  BY DEF IsLocal
<1>2. Calls(l) <=> OpAt(l.at).op = "call" /\ ~l.inside
  BY <1>1, NothingStarted DEF Calls
<1> QED BY <1>1, <1>2 DEF NextLocal, Walks

\* So the path is a sequence of such steps.
LEMMA StepOnPath ==
  ASSUME IsSynced(benchmark), NEW N \in Nat, NEW T, OnPath(N, T), NEW n \in 0 .. N - 1
  PROVE  Walks(T[n], T[n + 1])
<1>1. n \in 0 .. N
  OBVIOUS
<1>2. IsLocal(T[n]) /\ T[n].at # Over /\ T[n + 1] = NextLocal(T[n])
  BY <1>1 DEF OnPath
<1> QED BY <1>2, NextWalks

\* A rank that made its last call at a keeps to Later.
LEMMA LaterOnPath ==
  ASSUME IsSynced(benchmark), NEW N \in Nat, NEW T, OnPath(N, T),
         NEW i \in 0 .. N, NEW j \in 0 .. N, T[i].inside, T[j].inside,
         T[j].called = T[i].called + 1, InBody(T[i].at), T[i].at.seg # 1
  PROVE  Later(T[i].at, T[j].at)
<1> DEFINE a == T[i].at
           c == T[i].called
           Good(k) == \/ T[k].called = c /\ ~T[k].inside /\ Later(a, T[k].at)
                      \/ T[k].called = c + 1 /\ (T[k].inside => Later(a, T[k].at))
                      \/ T[k].called > c + 1
           B == {k \in i + 1 .. j : ~Good(k)}
<1>1. \A k \in 0 .. N : IsLocal(T[k]) /\ T[k].called \in Nat
  BY DEF OnPath, IsLocal
<1>2. IsPlace(a) /\ OpAt(a).op = "call" /\ a # Over /\ c \in Nat
  BY <1>1 DEF IsLocal
<1>3. i < j
  <2>1. \A m, n \in 0 .. N : m <= n => T[m].called <= T[n].called
    BY DEF OnPath
  <2>2. j <= i => T[j].called <= T[i].called
    BY <2>1
  <2> QED BY <1>1, <2>2
<1>4. Good(i + 1)
  <2>1. i \in 0 .. N - 1
    BY <1>3
  <2>2. T[i + 1].called = c /\ ~T[i + 1].inside /\ T[i + 1].at = Then(a, Chosen(T[i]))
    BY <1>2, <2>1, StepOnPath DEF Walks
  <2>3. Later(a, Then(a, Chosen(T[i])))
    BY <1>2, LaterStep
  <2> QED BY <2>2, <2>3
<1>5. ASSUME NEW k \in i + 1 .. j - 1, Good(k) PROVE Good(k + 1)
  <2>1. k \in 0 .. N - 1
    OBVIOUS
  <2> DEFINE b == T[k].at
             calls == OpAt(b).op = "call" /\ ~T[k].inside
  <2>2. /\ b # Over /\ IsPlace(b) /\ T[k + 1].inside = calls
        /\ calls => T[k + 1].called = T[k].called + 1 /\ T[k + 1].at = b
        /\ ~calls => /\ T[k + 1].called = T[k].called
                     /\ \/ T[k + 1].at = Then(b, Chosen(T[k]))
                        \/ OpAt(b).op = "check" /\ T[k + 1].at = Usage
    BY <2>1, StepOnPath DEF Walks
  <2>3. T[k].called \in Nat
    BY <1>1, <2>1
  <2> HIDE DEF a, c
  <2>4. CASE T[k].called = c /\ ~T[k].inside /\ Later(a, b)
    <3>1. CASE calls
      BY <2>2, <2>4, <3>1
    <3>2. CASE ~calls
      <4>1. Later(a, Then(b, Chosen(T[k])))
        BY <1>2, <2>2, <2>4, <3>2, LaterStep DEF a
      <4>2. OpAt(b).op = "check" => Later(a, Usage)
        <5>1. SUFFICES ASSUME OpAt(b).op = "check"
                       PROVE  Later(a, Usage)
          OBVIOUS
        <5>2. IsCollective(benchmark) /\ benchmark.sizes \in Nat /\ Closing = benchmark.sizes + 1
          BY DEF IsSynced, IsCollective, Closing
        <5>3. b.size \notin 1 .. benchmark.sizes
          BY <2>2, <5>1, <5>2, OpsInCollective DEF InBody
        <5>4. b.seg = 1 /\ (b.size = 0 \/ b.size = Closing)
          BY <2>2, <5>3, OutsideIsOrdinary
        <5>5. a.size \in 1 .. benchmark.sizes /\ a.seg # 1
          BY DEF InBody, a
        <5>6. /\ b.size = a.size + 1 /\ a.seg = 3
              /\ NoCall(SectionAt(a).ops, a.pos, Len(SectionAt(a).ops) + 1)
          BY <2>2, <2>4, <5>2, <5>4, <5>5 DEF Later
        <5>7. Usage.size = a.size + 1 /\ Usage.seg = 1
          BY <5>2, <5>4, <5>5, <5>6 DEF Usage
        <5> QED BY <5>6, <5>7 DEF Later
      <4> QED BY <2>2, <2>4, <3>2, <4>1, <4>2
    <3> QED BY <3>1, <3>2
  <2>5. CASE T[k].called = c + 1
    <3>1. CASE calls
      <4>1. T[k + 1].called = (c + 1) + 1
        BY <2>2, <2>5, <3>1
      <4> QED BY <1>2, <4>1 DEF c
    <3>2. CASE ~calls
      <4>1. T[k + 1].called = c + 1 /\ ~T[k + 1].inside
        BY <2>2, <2>5, <3>2
      <4> QED BY <4>1
    <3> QED BY <3>1, <3>2
  <2>6. CASE T[k].called > c + 1
    BY <1>2, <2>2, <2>3, <2>6 DEF c
  <2> QED BY <1>5, <2>4, <2>5, <2>6
<1>6. B = {}
  <2>1. SUFFICES ASSUME B # {}
                 PROVE  FALSE
    OBVIOUS
  <2>2. PICK k \in B : \A n \in B : k <= n
    <3>1. B \in SUBSET Nat
      OBVIOUS
    <3> HIDE DEF B
    <3> QED BY <2>1, <3>1, SmallestOf
  <2>3. k \in i + 1 .. j /\ ~Good(k)
    BY <2>2
  <2>4. k # i + 1
    BY <1>4, <2>3
  <2>5. k - 1 \in i + 1 .. j - 1 /\ k - 1 \in i + 1 .. j /\ (k - 1) + 1 = k /\ ~(k <= k - 1)
    BY <2>3, <2>4
  <2>6. k - 1 \notin B
    BY <2>2, <2>5
  <2>7. Good(k - 1)
    BY <2>5, <2>6
  <2> HIDE DEF Good
  <2>8. Good((k - 1) + 1)
    BY <1>5, <2>5, <2>7
  <2> QED BY <2>3, <2>5, <2>8
<1>7. Good(j)
  BY <1>3, <1>6
<1> QED BY <1>2, <1>7

\* Ranks that are in the same call are at the same place.
LEMMA SameCall ==
  ASSUME IsSynced(benchmark), NEW N \in Nat, NEW T, OnPath(N, T),
         NEW i \in 0 .. N, NEW j \in 0 .. N, T[i].inside, T[j].inside,
         T[i].called = T[j].called
  PROVE  T[i] = T[j]
<1>1. ASSUME NEW m \in 0 .. N, NEW n \in 0 .. N, m < n, T[m].inside, T[n].inside,
             T[m].called = T[n].called
      PROVE  FALSE
  <2>1. n - 1 \in 0 .. N - 1 /\ n - 1 \in 0 .. N /\ m <= n - 1 /\ (n - 1) + 1 = n
    BY <1>1
  <2>2. T[n].called = T[n - 1].called + 1
    <3>1. Walks(T[n - 1], T[(n - 1) + 1])
      BY <2>1, StepOnPath
    <3> QED BY <1>1, <2>1, <3>1 DEF Walks
  <2>3. T[m].called <= T[n - 1].called
    BY <2>1 DEF OnPath
  <2>4. T[n - 1].called \in Nat
    BY <2>1 DEF OnPath, IsLocal
  <2> QED BY <1>1, <2>2, <2>3, <2>4
<1>2. ~(i < j) /\ ~(j < i)
  BY <1>1
<1> QED BY <1>2

\* Every call between two has been made somewhere on the path.
LEMMA CallBetween ==
  ASSUME IsSynced(benchmark), NEW N \in Nat, NEW T, OnPath(N, T),
         NEW i \in 0 .. N, NEW j \in 0 .. N, NEW n \in Nat,
         T[i].called < n, n <= T[j].called
  PROVE  \E k \in 0 .. N : T[k].inside /\ T[k].called = n
<1> DEFINE B == {k \in i .. j : T[k].called >= n}
<1>1. \A k \in 0 .. N : T[k].called \in Nat
  BY DEF OnPath, IsLocal
<1>2. i < j
  <2>1. j <= i => T[j].called <= T[i].called
    BY DEF OnPath
  <2> QED BY <1>1, <2>1
<1>3. j \in B /\ B \in SUBSET Nat
  BY <1>1, <1>2
<1>4. PICK k \in B : \A m \in B : k <= m
  <2> HIDE DEF B
  <2> QED BY <1>3, SmallestOf
<1>5. k \in i .. j /\ T[k].called >= n /\ k # i
  BY <1>1, <1>4
<1>6. k - 1 \in i .. j /\ k - 1 \in 0 .. N - 1 /\ k - 1 \in 0 .. N /\ (k - 1) + 1 = k /\ ~(k <= k - 1)
  BY <1>5
<1>7. k - 1 \notin B
  BY <1>4, <1>6
<1>8. T[k - 1].called < n
  BY <1>1, <1>6, <1>7
<1>9. T[k].called # T[k - 1].called
  BY <1>1, <1>5, <1>6, <1>8
<1>10. T[k].inside /\ T[k].called = T[k - 1].called + 1
  <2>1. Walks(T[k - 1], T[(k - 1) + 1])
    BY <1>6, StepOnPath
  <2> QED BY <1>6, <1>9, <2>1 DEF Walks
<1>11. T[k].called = n /\ k \in 0 .. N
  BY <1>1, <1>5, <1>6, <1>8, <1>10
<1> QED BY <1>10, <1>11

-----------------------------------------------------------------------------
\* A collective that waits for everyone is known to all that have left it.
Left(q) == IF inside[q] THEN called[q] - 1 ELSE called[q]

LeftInv ==
  IsSynced(benchmark) =>
    \A q \in Ranks : \A k \in 1 .. Left(q) : Full(journal[k].kind) => Known(k)

\* Such knowledge is not lost, and a rank that leaves a call gains it.
LEMMA LeftInvStep ==
  ASSUME CommonPathInv, LeftInv, [WinNext]_<<vars, windows>>
  PROVE  LeftInv'
<1> SUFFICES ASSUME IsSynced(benchmark)'
             PROVE  \A q \in Ranks' : \A k \in 1 .. Left(q)' :
                      Full(journal'[k].kind) => Known(k)'
  BY DEF LeftInv
<1>1. launch' = launch
  BY LaunchStays
<1>2. IsSynced(benchmark) /\ Ranks' = Ranks
  BY <1>1 DEF launch, Ranks
<1>3. /\ IsCollective(benchmark) /\ SameProgram(benchmark) /\ Uniform(benchmark)
      /\ PathInv /\ Shapes /\ \A q \in Ranks : IsLocal(Local(q))
  BY <1>2, CollectiveIsSame, RankOnPath DEF IsSynced, CommonPathInv, PathInv, SameProgram
<1>4. \A q \in Ranks : /\ called[q] \in Nat /\ called[q] <= Len(journal) /\ Len(journal) \in Nat
                       /\ Left(q) <= called[q] /\ Left(q) \in Int
                       /\ inside[q] => journal[called[q]] = EntryOf(Local(q))
  BY <1>3, RankOnPath DEF Left
<1>5. \A q \in Ranks : \A k \in 1 .. Left(q) : Full(journal[k].kind) => Known(k)
  BY <1>2 DEF LeftInv
<1>6. CASE \E r \in Ranks : Advances(r) /\ Completes(r)
  <2>1. PICK r \in Ranks : Advances(r) /\ Completes(r)
    BY <1>6
  <2>2. Kept(r)
    BY <1>3, <2>1, StaysOnPath
  <2>3. Walks(Local(r), NextLocal(Local(r))) /\ Local(r)' = NextLocal(Local(r))
    BY <1>2, <1>3, <2>1, NextWalks, LocalFields DEF Advances
  <2>4. LET calls == OpAt(at[r]).op = "call" /\ ~inside[r]
        IN  /\ inside'[r] = calls
            /\ called'[r] = IF calls THEN called[r] + 1 ELSE called[r]
    <3>1. Local(r)'.inside = inside'[r] /\ Local(r)'.called = called'[r]
      BY DEF Local
    <3> QED BY <2>3, <3>1, LocalFields DEF Walks
  <2>5. \A q \in Ranks \ {r} : called'[q] = called[q] /\ inside'[q] = inside[q]
    BY <2>1 DEF Advances, Local
  <2>6. ASSUME NEW n \in Nat, Known(n) PROVE Known(n)'
    <3>1. \A q \in Ranks : called[q] <= called'[q] /\ called'[q] \in Nat
      BY <1>4, <2>4, <2>5
    <3> QED BY <1>2, <1>4, <2>6, <3>1 DEF Known
  <2>7. ASSUME NEW q \in Ranks, NEW k \in 1 .. Left(q), Full(journal'[k].kind)
        PROVE  Known(k)'
    <3>1. k \in 1 .. Len(journal) /\ k \in Nat
      BY <1>4
    <3>2. journal'[k] = journal[k]
      BY <2>2, <3>1 DEF Kept
    <3> QED BY <1>5, <2>6, <2>7, <3>1, <3>2
  <2>8. ASSUME NEW k \in 1 .. Left(r)', Full(journal'[k].kind)
        PROVE  Known(k)'
    <3>1. CASE k \in 1 .. Left(r)
      BY <2>7, <2>8, <3>1
    <3>2. CASE k \notin 1 .. Left(r)
      <4>1. /\ k = called[r] /\ inside[r] /\ k \in 1 .. Len(journal) /\ k \in Nat
        <5>1. Left(r)' = IF inside'[r] THEN called'[r] - 1 ELSE called'[r]
          BY DEF Left
        <5>2. CASE inside[r]
          <6>1. Left(r)' = called[r] /\ Left(r) = called[r] - 1
            BY <2>4, <5>1, <5>2 DEF Left
          <6>2. k \in 1 .. called[r] /\ k \notin 1 .. called[r] - 1
            BY <3>2, <6>1
          <6> QED BY <1>4, <5>2, <6>2
        <5>3. CASE ~inside[r]
          <6>1. Left(r)' = called[r]
            <7>1. CASE OpAt(at[r]).op = "call"
              <8>1. inside'[r] /\ called'[r] = called[r] + 1
                BY <2>4, <5>3, <7>1
              <8> QED BY <1>4, <5>1, <8>1
            <7>2. CASE OpAt(at[r]).op # "call"
              <8>1. ~inside'[r] /\ called'[r] = called[r]
                BY <2>4, <7>2
              <8> QED BY <5>1, <8>1
            <7> QED BY <7>1, <7>2
          <6>2. Left(r) = called[r]
            BY <5>3 DEF Left
          <6> QED BY <3>2, <6>1, <6>2
        <5> QED BY <5>2, <5>3
      <4>2. journal'[k] = journal[k] /\ journal[k] = EntryOf(Local(r))
        BY <1>4, <2>2, <4>1 DEF Kept
      <4>3. Full(OpAt(at[r]).kind)
        BY <2>8, <4>2, LocalFields DEF EntryOf
      <4>4. OpAt(at[r]).op = "call"
        BY <1>3, <4>1, LocalFields DEF IsLocal
      <4>5. Known(called[r])
        BY <2>1, <4>1, <4>3, <4>4 DEF Completes
      <4> QED BY <2>6, <4>1, <4>5
    <3> QED BY <3>1, <3>2
  <2>9. ASSUME NEW q \in Ranks \ {r} PROVE Left(q)' = Left(q)
    BY <2>5 DEF Left
  <2> QED BY <1>2, <2>7, <2>8, <2>9
<1>7. CASE UNCHANGED <<launch, at, inside, called, journal, request>>
  BY <1>2, <1>5, <1>7 DEF Left, Known
<1> QED BY <1>3, <1>6, <1>7, CompletingMoves

(***************************************************************************)
(* What a rank may conclude when it leaves a collective in a program that  *)
(* IsSynced describes: all have called it, unless it is one that lets its  *)
(* root or its leaves run ahead.                                           *)
(***************************************************************************)
THEOREM LeftInvariance == WinSpec => []LeftInv
<1>1. WinInit => LeftInv
  <2> SUFFICES ASSUME WinInit, NEW q \in Ranks, NEW k \in 1 .. Left(q)
               PROVE  FALSE
    BY DEF LeftInv
  <2>1. Left(q) = 0
    BY DEF Left, WinInit, Init
  <2> QED BY <2>1
<1>2. CommonPathInv /\ LeftInv /\ [WinNext]_<<vars, windows>> => LeftInv'
  BY LeftInvStep
<1> QED BY <1>1, <1>2, CommonPathInvariance, PTL DEF WinSpec

\* Two ranks in different collectives, both with an array.
LEMMA ArraysDiffer ==
  ASSUME CommonPathInv, LeftInv, IsSynced(benchmark), NEW r \in Ranks, NEW q \in Ranks,
         inside[r], HasArray(OpAt(at[r])), inside[q], HasArray(OpAt(at[q])),
         called[r] < called[q]
  PROVE  ArrayIn(OpAt(at[r]), at[r].iter) # ArrayIn(OpAt(at[q]), at[q].iter)
<1>1. PathInv
  BY CollectiveIsSame DEF IsSynced, CommonPathInv
<1>2. PICK N \in Nat : \E T : OnPath(N, T)
  BY <1>1 DEF PathInv
<1>3. PICK T : OnPath(N, T)
  BY <1>2
<1>4. PICK i \in 0 .. N : Local(r) = T[i]
  BY <1>3 DEF OnPath
<1>5. PICK j \in 0 .. N : Local(q) = T[j]
  BY <1>3 DEF OnPath
<1>6. /\ T[i].inside /\ T[i].called = called[r] /\ T[i].at = at[r]
      /\ T[j].inside /\ T[j].called = called[q] /\ T[j].at = at[q]
  BY <1>4, <1>5, LocalFields
<1>7. ASSUME NEW k \in 0 .. N, T[k].inside
      PROVE  /\ T[k].at # Over /\ IsPlace(T[k].at) /\ OpAt(T[k].at).op = "call"
             /\ T[k].called \in Nat /\ journal[T[k].called].kind = OpAt(T[k].at).kind
  <2>1. IsLocal(T[k]) /\ journal[T[k].called] = EntryOf(T[k])
    BY <1>3, <1>7 DEF OnPath
  <2>2. T[k].at # Over /\ IsPlace(T[k].at) /\ OpAt(T[k].at).op = "call" /\ T[k].called \in Nat
    BY <1>7, <2>1 DEF IsLocal
  <2>3. EntryOf(T[k]).kind = OpAt(T[k].at).kind
    BY DEF EntryOf
  <2> QED BY <2>1, <2>2, <2>3
<1>8. called[r] \in Nat /\ called[q] \in Nat
  BY <1>6, <1>7
\* The next call after one that is not ordinary.
<1>9. ASSUME NEW k \in 0 .. N, NEW m \in 0 .. N, T[k].inside, T[m].inside,
             T[m].called = T[k].called + 1, ~Ordinary(OpAt(T[k].at))
      PROVE  Succeeds(OpAt(T[k].at), T[k].at.iter, OpAt(T[m].at), T[m].at.iter)
  <2>1. InBody(T[k].at) /\ T[k].at.seg # 1
    BY <1>7, <1>9, RemarkableCalls
  <2>2. Later(T[k].at, T[m].at)
    BY <1>3, <1>9, <2>1, LaterOnPath
  <2> QED BY <1>7, <1>9, <2>1, <2>2, NextCallIs
<1>10. ~Ordinary(OpAt(T[i].at))
  BY <1>6, <1>7 DEF Ordinary
<1>11. CASE called[q] = called[r] + 1
  BY <1>6, <1>9, <1>10, <1>11 DEF Succeeds
<1>12. CASE called[q] # called[r] + 1
  <2>1. called[r] + 1 < called[q] /\ called[r] + 2 <= called[q]
    BY <1>8, <1>12
  \* Rank q has left what r has not called: that did not wait for everyone.
  <2>2. ASSUME NEW n \in Nat, called[r] < n, n < called[q], Full(journal[n].kind)
        PROVE  FALSE
    <3>1. n \in 1 .. Left(q)
      BY <1>8, <2>2 DEF Left
    <3>2. Known(n)
      BY <2>2, <3>1 DEF LeftInv
    <3> QED BY <1>8, <2>2, <3>2 DEF Known
  <2>3. PICK k \in 0 .. N : T[k].inside /\ T[k].called = called[r] + 1
    BY <1>3, <1>6, <1>8, <2>1, CallBetween
  <2>4. PICK m \in 0 .. N : T[m].inside /\ T[m].called = called[r] + 2
    BY <1>3, <1>6, <1>8, <2>1, CallBetween
  <2>5. ~Full(OpAt(T[k].at).kind)
    BY <1>7, <1>8, <2>1, <2>2, <2>3
  <2>6. ~Ordinary(OpAt(T[k].at))
    BY <1>7, <2>3, <2>5 DEF Ordinary
  <2>7. T[m].called = T[k].called + 1
    BY <1>8, <2>3, <2>4
  <2>8. ~HasArray(OpAt(T[m].at)) /\ Full(OpAt(T[m].at).kind)
    BY <1>9, <2>3, <2>4, <2>5, <2>6, <2>7 DEF Succeeds
  <2>9. CASE called[q] = called[r] + 2
    <3>1. T[m] = T[j]
      BY <1>3, <1>6, <2>4, <2>9, SameCall
    <3> QED BY <1>6, <2>8, <3>1
  <2>10. CASE called[q] # called[r] + 2
    <3>1. called[r] + 2 < called[q] /\ called[r] + 2 \in Nat /\ called[r] < called[r] + 2
      BY <1>8, <2>1, <2>10
    <3>2. Full(journal[called[r] + 2].kind)
      BY <1>7, <2>4, <2>8
    <3> QED BY <2>2, <3>1, <3>2
  <2> QED BY <2>9, <2>10
<1> QED BY <1>11, <1>12

(***************************************************************************)
(* Two processes that are in collectives with the same pSync array are in  *)
(* the same collective, on any number of processes and for any number of   *)
(* iterations and sizes: no process enters a collective with an array that *)
(* another one has not given up yet.                                       *)
(***************************************************************************)
THEOREM SyncTheorem == WinSpec => [](IsSynced(benchmark) => SyncArraysFree)
<1>1. CommonPathInv /\ LeftInv => (IsSynced(benchmark) => SyncArraysFree)
  <2> SUFFICES ASSUME CommonPathInv, LeftInv, IsSynced(benchmark),
                      NEW r \in Ranks, InSynced(r), NEW q \in Ranks, InSynced(q)
               PROVE  SyncArray(r) = SyncArray(q) <=> called[r] = called[q]
    BY DEF SyncArraysFree
  <2>1. PathInv /\ Uniform(benchmark)
    BY CollectiveIsSame DEF IsSynced, CommonPathInv, SameProgram
  <2>2. ASSUME NEW p \in Ranks, InSynced(p)
        PROVE  /\ inside[p] /\ HasArray(OpAt(at[p])) /\ called[p] \in Nat
               /\ SyncArray(p) = ArrayIn(OpAt(at[p]), at[p].iter)
    <3>1. IsLocal(Local(p)) /\ inside[p]
      BY <2>1, <2>2, RankOnPath DEF InSynced
    <3>2. IsPlace(at[p]) /\ called[p] \in Nat
      BY <3>1, LocalFields DEF IsLocal
    <3>3. Op(p) = OpAt(at[p])
      BY <2>1, <3>2, AnyRank
    <3> QED BY <2>2, <3>1, <3>2, <3>3 DEF InSynced, HasArray, SyncArray, ArrayIn
  <2>3. CASE called[r] = called[q]
    <3>1. PICK N \in Nat : \E T : OnPath(N, T)
      BY <2>1 DEF PathInv
    <3>2. PICK T : OnPath(N, T)
      BY <3>1
    <3>3. PICK i \in 0 .. N : Local(r) = T[i]
      BY <3>2 DEF OnPath
    <3>4. PICK j \in 0 .. N : Local(q) = T[j]
      BY <3>2 DEF OnPath
    <3>5. T[i] = T[j]
      BY <2>2, <2>3, <3>2, <3>3, <3>4, SameCall, LocalFields
    <3>6. at[r] = at[q]
      BY <3>3, <3>4, <3>5, LocalFields
    <3> QED BY <2>2, <2>3, <3>6
  <2>4. CASE called[r] # called[q]
    <3>1. called[r] < called[q] \/ called[q] < called[r]
      BY <2>2, <2>4
    <3>2. SyncArray(r) # SyncArray(q)
      BY <2>2, <3>1, ArraysDiffer
    <3> QED BY <2>4, <3>2
  <2> QED BY <2>3, <2>4
<1> QED BY <1>1, CommonPathInvariance, LeftInvariance, PTL

-----------------------------------------------------------------------------
\* The collectives of OpenSHMEM are programs of this kind.
AllOrdinary(ops) ==
  IsSequence(ops) /\ \A n \in 1 .. Len(ops) : Ordinary(ops[n]) /\ ops[n].op # "start"

\* The statistics, from statement m + 1 on.
StatsAt(ops, m) ==
  /\ Len(ops) \in Nat /\ m \in Nat /\ m + 3 <= Len(ops)
  /\ ops[m + 1] = Synced("min_to_all", <<"pSyncRed1">>)
  /\ ops[m + 2] = Synced("max_to_all", <<"pSyncRed2">>)
  /\ ops[m + 3] = Synced("sum_to_all", <<"pSyncRed1">>)
  /\ \A p \in (1 .. Len(ops)) \ {m + 1, m + 2, m + 3} : Ordinary(ops[p]) /\ ops[p].op # "start"

\* The loop, with the collective at its second statement.
SyncedLoop(kind, a, b, ops) ==
  /\ Len(ops) \in Nat /\ Len(ops) >= 3
  /\ ops[2] = Measured(Synced(kind, <<a, b>>))
  /\ \A p \in (1 .. Len(ops)) \ {2} : Ordinary(ops[p]) /\ ops[p].op # "start"

\* The statements without an array.
LEMMA OrdinaryStatements ==
  /\ \A c : Full(c) => Ordinary(Call(c)) /\ Call(c).op = "call"
  /\ \A s : Ordinary(Assign(s)) /\ Assign(s).op # "start"
  /\ \A o \in {Touch, Report, Reset, TStart, Sample} : Ordinary(o) /\ o.op \notin {"start", "call"}
<1>1. ASSUME NEW c PROVE Call(c).op = "call" /\ Call(c).kind = c /\ ~HasArray(Call(c))
  BY DEF Call, Do, HasArray
<1>2. ASSUME NEW s PROVE Assign(s).op = "options"
  BY DEF Assign, Do
<1>3. \A o \in {Touch, Report, Reset, TStart, Sample} : o.op \notin {"start", "call"}
  <2>1. /\ Touch.op = "touch" /\ Report.op = "report" /\ Reset.op = "reset"
        /\ TStart.op = "t_start" /\ Sample.op = "sample"
    BY DEF Touch, Report, Reset, TStart, Sample, Do
  <2> QED BY <2>1
<1> QED BY <1>1, <1>2, <1>3 DEF Ordinary

\* The collectives with one.
LEMMA SyncedStatements ==
  ASSUME NEW kind, NEW arrays
  PROVE  /\ Synchronises(Synced(kind, arrays)) /\ Synced(kind, arrays).arrays = arrays
         /\ Synced(kind, arrays).kind = kind
         /\ Synchronises(Measured(Synced(kind, arrays)))
         /\ Measured(Synced(kind, arrays)).arrays = arrays
         /\ Measured(Synced(kind, arrays)).kind = kind
BY DEF Synchronises, HasArray, Synced, Measured

\* Sequences of ordinary statements.
LEMMA OrdinaryJoined ==
  ASSUME NEW f, NEW g, AllOrdinary(f), AllOrdinary(g)
  PROVE  AllOrdinary(f \o g)
BY Joined DEF AllOrdinary

LEMMA ShortOrdinary ==
  /\ AllOrdinary(<<>>)
  /\ \A o : Ordinary(o) /\ o.op # "start" => AllOrdinary(<<o>>)
  /\ \A o, p : Ordinary(o) /\ o.op # "start" /\ Ordinary(p) /\ p.op # "start"
                 => AllOrdinary(<<o, p>>)
BY DEF AllOrdinary, IsSequence

\* The statistics take turns, and only the last of them can be next to a loop.
LEMMA StatsTakeTurns ==
  ASSUME NEW ops, NEW m, StatsAt(ops, m)
  PROVE  /\ TakesTurns(ops) /\ \A p \in 1 .. Len(ops) : ops[p].op # "start"
         /\ \A p \in 1 .. Len(ops) :
              Synchronises(ops[p]) /\ NoCall(ops, p, Len(ops) + 1)
                => ops[p].arrays = <<"pSyncRed1">> /\ \A q \in m + 4 .. Len(ops) : ops[q].op # "call"
<1>1. /\ Len(ops) \in Nat /\ m \in Nat /\ m + 3 <= Len(ops)
      /\ m + 1 \in 1 .. Len(ops) /\ m + 2 \in 1 .. Len(ops) /\ m + 3 \in 1 .. Len(ops)
  BY DEF StatsAt
<1>2. /\ Synchronises(ops[m + 1]) /\ ops[m + 1].arrays = <<"pSyncRed1">> /\ Full(ops[m + 1].kind)
      /\ Synchronises(ops[m + 2]) /\ ops[m + 2].arrays = <<"pSyncRed2">> /\ Full(ops[m + 2].kind)
      /\ Synchronises(ops[m + 3]) /\ ops[m + 3].arrays = <<"pSyncRed1">> /\ Full(ops[m + 3].kind)
  BY SyncedStatements DEF StatsAt, Full
<1>3. \A p \in 1 .. Len(ops) :
        p \in {m + 1, m + 2, m + 3} \/ (Ordinary(ops[p]) /\ ops[p].op # "start")
  BY DEF StatsAt
<1>4. \A p \in 1 .. Len(ops) : Synchronises(ops[p]) => p \in {m + 1, m + 2, m + 3}
  BY <1>3 DEF Synchronises, Ordinary
<1>5. ASSUME NEW p \in 1 .. Len(ops), ops[p].op = "call"
      PROVE  Full(ops[p].kind) /\ (HasArray(ops[p]) => Len(ops[p].arrays) = 1)
  <2>1. CASE p \in {m + 1, m + 2, m + 3}
    <3>1. Len(<<"pSyncRed1">>) = 1 /\ Len(<<"pSyncRed2">>) = 1
      OBVIOUS
    <3> QED BY <1>2, <2>1, <3>1
  <2>2. CASE Ordinary(ops[p])
    BY <1>5, <2>2 DEF Ordinary
  <2> QED BY <1>3, <2>1, <2>2
<1>6. ASSUME NEW p \in 1 .. Len(ops), NEW q \in 1 .. Len(ops), p < q,
             Synchronises(ops[p]), Synchronises(ops[q]), NoCall(ops, p, q)
      PROVE  ops[p].arrays[1] # ops[q].arrays[1]
  <2>1. p \in {m + 1, m + 2, m + 3} /\ q \in {m + 1, m + 2, m + 3}
    BY <1>4, <1>6
  <2>2. ~(p = m + 1 /\ q = m + 3)
    BY <1>1, <1>2, <1>6 DEF NoCall, Synchronises
  <2>3. (p = m + 1 /\ q = m + 2) \/ (p = m + 2 /\ q = m + 3)
    BY <1>1, <1>6, <2>1, <2>2
  <2>4. <<"pSyncRed1">>[1] # <<"pSyncRed2">>[1]
    OBVIOUS
  <2> QED BY <1>2, <2>3, <2>4
<1>7. \E p \in 1 .. Len(ops) : ops[p].op = "call"
  BY <1>1, <1>2 DEF Synchronises
<1>8. TakesTurns(ops)
  BY <1>5, <1>6, <1>7 DEF TakesTurns
<1>9. \A p \in 1 .. Len(ops) : ops[p].op # "start"
  BY <1>2, <1>3 DEF Synchronises
<1>10. ASSUME NEW p \in 1 .. Len(ops), Synchronises(ops[p]), NoCall(ops, p, Len(ops) + 1)
       PROVE  ops[p].arrays = <<"pSyncRed1">> /\ \A q \in m + 4 .. Len(ops) : ops[q].op # "call"
  <2>1. p = m + 3
    <3>1. \A n \in 1 .. Len(ops) : p < n => ops[n].op # "call"
      BY <1>1, <1>10 DEF NoCall
    <3> QED BY <1>1, <1>2, <1>4, <1>10, <3>1 DEF Synchronises
  <2>2. \A q \in m + 4 .. Len(ops) : ops[q].op # "call"
    BY <1>1, <1>10, <2>1 DEF NoCall
  <2> QED BY <1>2, <2>1, <2>2
<1> QED BY <1>8, <1>9, <1>10

\* All have called the collective before any of them reaches another one.
AllWaitFor(kind, ops, after) ==
  \/ \E p \in 3 .. Len(ops) : ops[p].op = "call"
  \/ Full(kind) /\ after[1].op = "call" /\ ~Synchronises(after[1])

\* Between the statistics, from statement m + 1 on, and the loop of another size.
KeepsOff(after, m, a, b) ==
  (\E q \in m + 4 .. Len(after) : after[q].op = "call") \/ "pSyncRed1" \notin {a, b}

\* The collectives with arrays take one of a and b.
NamesOnly(ops, a, b) ==
  /\ 2 \in 1 .. Len(ops)
  /\ \A p \in 1 .. Len(ops) : ops[p].op # "start"
  /\ \A p \in 1 .. Len(ops) : Synchronises(ops[p]) => Names(ops[p]) = {a, b}

\* A loop with one such collective alternates between its arrays.
LEMMA LoopAlternates ==
  ASSUME NEW kind, NEW a, NEW b, a # b, NEW ops, SyncedLoop(kind, a, b, ops),
         NEW after, Len(after) \in Nat \ {0}, AllWaitFor(kind, ops, after)
  PROVE  AlternatesAt(ops, after, 2) /\ NamesOnly(ops, a, b)
<1>1. 2 \in 1 .. Len(ops) /\ Len(ops) \in Nat
  BY DEF SyncedLoop
<1>2. Synchronises(ops[2]) /\ ops[2].arrays = <<a, b>> /\ ops[2].kind = kind
  BY SyncedStatements DEF SyncedLoop
<1>3. Len(<<a, b>>) = 2 /\ <<a, b>>[1] = a /\ <<a, b>>[2] = b /\ 1 .. 2 = {1, 2}
  OBVIOUS
<1>4. \A p \in (1 .. Len(ops)) \ {2} : Ordinary(ops[p]) /\ ops[p].op # "start"
  BY DEF SyncedLoop
<1>5. Names(ops[2]) = {a, b}
  BY <1>2, <1>3 DEF Names
<1>6. \/ \E p \in 2 + 1 .. Len(ops) : ops[p].op = "call"
      \/ /\ Full(ops[2].kind)
         /\ \A p \in 1 .. Len(after) : NoCall(after, 0, p) => ~Synchronises(after[p])
  <2>1. CASE \E p \in 3 .. Len(ops) : ops[p].op = "call"
    BY <2>1
  <2>2. CASE Full(kind) /\ after[1].op = "call" /\ ~Synchronises(after[1])
    <3>1. ASSUME NEW p \in 1 .. Len(after), NoCall(after, 0, p) PROVE p = 1
      BY <2>2, <3>1 DEF NoCall
    <3> QED BY <1>2, <2>2, <3>1
  <2> QED BY <2>1, <2>2 DEF AllWaitFor
<1>7. AlternatesAt(ops, after, 2)
  BY <1>2, <1>3, <1>4, <1>6 DEF AlternatesAt
<1>8. \A p \in 1 .. Len(ops) : Synchronises(ops[p]) => p = 2
  BY <1>4 DEF Ordinary, Synchronises
<1> QED BY <1>1, <1>2, <1>4, <1>5, <1>7, <1>8 DEF Synchronises, NamesOnly

\* A benchmark of such loops and statistics.
LEMMA SyncedIs ==
  ASSUME NEW b, IsCollective(b), AllOrdinary(b.start), AllOrdinary(b.finish),
         NEW lead, NEW loop, NEW after,
         \A k \in 1 .. b.sizes : /\ b.body[k][1] = <<Once(lead[k]), Loop(loop), Once(after)>>
                                 /\ AllOrdinary(lead[k]),
         NEW kind, NEW x, NEW y, x # y, SyncedLoop(kind, x, y, loop), NEW m, StatsAt(after, m),
         AllWaitFor(kind, loop, after),
         KeepsOff(after, m, x, y)
  PROVE  IsSynced(b)
<1>1. /\ TakesTurns(after) /\ \A p \in 1 .. Len(after) : after[p].op # "start"
      /\ \A p \in 1 .. Len(after) :
           Synchronises(after[p]) /\ NoCall(after, p, Len(after) + 1)
             => after[p].arrays = <<"pSyncRed1">> /\ \A q \in m + 4 .. Len(after) : after[q].op # "call"
  BY StatsTakeTurns
<1>2. Len(after) \in Nat \ {0}
  BY DEF StatsAt
<1>3. /\ AlternatesAt(loop, after, 2) /\ 2 \in 1 .. Len(loop)
      /\ \A p \in 1 .. Len(loop) : loop[p].op # "start"
      /\ \A p \in 1 .. Len(loop) : Synchronises(loop[p]) => Names(loop[p]) = {x, y}
  <2>1. AlternatesAt(loop, after, 2) /\ NamesOnly(loop, x, y)
    BY <1>2, LoopAlternates
  <2> QED BY <2>1 DEF NamesOnly
<1>4. Resumes(after, loop)
  <2>1. <<"pSyncRed1">>[1] = "pSyncRed1"
    OBVIOUS
  <2> QED BY <1>1, <1>3, <2>1 DEF Resumes, KeepsOff
<1>5. ASSUME NEW k \in 1 .. b.sizes
      PROVE  /\ IsSyncedSize(b.body[k][1])
             /\ b.body[k][1][3].ops = after /\ b.body[k][1][2].ops = loop
  <2>1. PICK secs : secs = <<Once(lead[k]), Loop(loop), Once(after)>>
    OBVIOUS
  <2>2. /\ Len(secs) = 3 /\ secs[1].ops = lead[k] /\ secs[2].ops = loop /\ secs[3].ops = after
    BY <2>1 DEF Once, Loop
  <2>3. \A p \in 1 .. Len(lead[k]) : Ordinary(lead[k][p]) /\ lead[k][p].op # "start"
    BY DEF AllOrdinary
  <2>4. \A s \in 1 .. 3 : \A p \in 1 .. Len(secs[s].ops) : secs[s].ops[p].op # "start"
    <3>1. \A s \in 1 .. 3 : s = 1 \/ s = 2 \/ s = 3
      OBVIOUS
    <3> QED BY <1>1, <1>3, <2>2, <2>3, <3>1
  <2>5. IsSyncedSize(secs)
    BY <1>1, <1>3, <2>2, <2>3, <2>4 DEF IsSyncedSize
  <2> QED BY <2>1, <2>2, <2>5
<1> QED BY <1>4, <1>5 DEF IsSynced, AllOrdinary

\* The statements after the loop.
LEMMA StatsAreAt ==
  /\ StatsAt(<<Barrier, Report>> \o StatsToAll, 2)
  /\ (<<Barrier, Report>> \o StatsToAll)[1] = Barrier
  /\ StatsAt(<<Report>> \o StatsToAll \o <<Barrier>>, 1)
  /\ Len(<<Report>> \o StatsToAll \o <<Barrier>>) = 5
  /\ (<<Report>> \o StatsToAll \o <<Barrier>>)[5] = Barrier
<1>1. /\ IsSequence(StatsToAll) /\ Len(StatsToAll) = 3
      /\ StatsToAll[1] = Synced("min_to_all", <<"pSyncRed1">>)
      /\ StatsToAll[2] = Synced("max_to_all", <<"pSyncRed2">>)
      /\ StatsToAll[3] = Synced("sum_to_all", <<"pSyncRed1">>)
  BY DEF StatsToAll, IsSequence
<1>2. Ordinary(Barrier) /\ Barrier.op = "call" /\ Ordinary(Report) /\ Report.op # "start"
  BY OrdinaryStatements DEF Barrier, Full
<1>3. PICK f : f = <<Barrier, Report>>
  OBVIOUS
<1>4. IsSequence(f) /\ Len(f) = 2 /\ f[1] = Barrier /\ f[2] = Report
  BY <1>3 DEF IsSequence
<1>5. PICK ops : ops = f \o StatsToAll
  OBVIOUS
<1>6. Len(ops) = 5 /\ ops[1] = f[1] /\ ops[2] = f[2]
      /\ ops[2 + 1] = StatsToAll[1] /\ ops[2 + 2] = StatsToAll[2] /\ ops[2 + 3] = StatsToAll[3]
  <2>1. /\ Len(f \o StatsToAll) = Len(f) + Len(StatsToAll)
        /\ \A n \in 1 .. Len(f) : (f \o StatsToAll)[n] = f[n]
        /\ \A n \in 1 .. Len(StatsToAll) : (f \o StatsToAll)[Len(f) + n] = StatsToAll[n]
    <3>1. IsSequence(f) /\ IsSequence(StatsToAll)
      BY <1>1, <1>4
    <3> QED BY <3>1, Joined
  <2>2. 1 \in 1 .. 2 /\ 2 \in 1 .. 2 /\ 1 \in 1 .. 3 /\ 2 \in 1 .. 3 /\ 3 \in 1 .. 3
    OBVIOUS
  <2> QED BY <1>1, <1>4, <1>5, <2>1, <2>2
<1>7. StatsAt(ops, 2)
  <2>1. \A p \in (1 .. 5) \ {2 + 1, 2 + 2, 2 + 3} : p = 1 \/ p = 2
    OBVIOUS
  <2>2. \A p \in (1 .. Len(ops)) \ {2 + 1, 2 + 2, 2 + 3} : Ordinary(ops[p]) /\ ops[p].op # "start"
    BY <1>2, <1>4, <1>6, <2>1
  <2> QED BY <1>1, <1>6, <2>2 DEF StatsAt
<1>8. PICK g, h : g = <<Report>> /\ h = <<Barrier>>
  OBVIOUS
<1>9. /\ IsSequence(g) /\ Len(g) = 1 /\ g[1] = Report
      /\ IsSequence(h) /\ Len(h) = 1 /\ h[1] = Barrier
  BY <1>8 DEF IsSequence
<1>10. PICK t : t = g \o StatsToAll
  OBVIOUS
<1>11. /\ IsSequence(t) /\ Len(t) = 4 /\ t[1] = Report
       /\ t[2] = StatsToAll[1] /\ t[3] = StatsToAll[2] /\ t[4] = StatsToAll[3]
  <2>1. /\ IsSequence(g \o StatsToAll) /\ Len(g \o StatsToAll) = Len(g) + Len(StatsToAll)
        /\ \A n \in 1 .. Len(g) : (g \o StatsToAll)[n] = g[n]
        /\ \A n \in 1 .. Len(StatsToAll) : (g \o StatsToAll)[Len(g) + n] = StatsToAll[n]
    <3>1. IsSequence(g) /\ IsSequence(StatsToAll)
      BY <1>1, <1>9
    <3> QED BY <3>1, Joined
  <2>2. /\ 1 \in 1 .. 1 /\ 1 \in 1 .. 3 /\ 2 \in 1 .. 3 /\ 3 \in 1 .. 3
        /\ 1 + 1 = 2 /\ 1 + 2 = 3 /\ 1 + 3 = 4
    OBVIOUS
  <2>3. Len(t) = 4
    BY <1>1, <1>9, <1>10, <2>1
  <2> QED BY <1>1, <1>9, <1>10, <2>1, <2>2, <2>3
<1>12. PICK u : u = t \o h
  OBVIOUS
<1>13. Len(u) = 5 /\ u[5] = Barrier /\ \A n \in 1 .. 4 : u[n] = t[n]
  <2>1. /\ Len(t \o h) = Len(t) + Len(h)
        /\ \A n \in 1 .. Len(t) : (t \o h)[n] = t[n]
        /\ \A n \in 1 .. Len(h) : (t \o h)[Len(t) + n] = h[n]
    <3>1. IsSequence(t) /\ IsSequence(h)
      BY <1>9, <1>11
    <3> QED BY <3>1, Joined
  <2>2. 1 \in 1 .. 1 /\ 4 + 1 = 5
    OBVIOUS
  <2> QED BY <1>9, <1>11, <1>12, <2>1, <2>2
<1>14. StatsAt(u, 1)
  <2>1. /\ u[1] = Report /\ u[1 + 1] = StatsToAll[1] /\ u[1 + 2] = StatsToAll[2]
        /\ u[1 + 3] = StatsToAll[3]
    BY <1>11, <1>13
  <2>2. \A p \in (1 .. 5) \ {1 + 1, 1 + 2, 1 + 3} : p = 1 \/ p = 5
    OBVIOUS
  <2>3. \A p \in (1 .. Len(u)) \ {1 + 1, 1 + 2, 1 + 3} : Ordinary(u[p]) /\ u[p].op # "start"
    BY <1>2, <1>13, <2>1, <2>2
  <2> QED BY <1>1, <1>13, <2>1, <2>3 DEF StatsAt
<1>15. <<Barrier, Report>> \o StatsToAll = ops /\ <<Report>> \o StatsToAll \o <<Barrier>> = u
  BY <1>3, <1>5, <1>8, <1>10, <1>12
<1> QED BY <1>4, <1>6, <1>7, <1>13, <1>14, <1>15

\* With a barrier in the loop.
LEMMA ShmemCollectiveIsSynced ==
  ASSUME NEW program, NEW np \in Nat \ {0}, NEW kind, NEW buffers \in Nat, NEW x, NEW y, x # y,
         NEW before \in {<<>>, <<Barrier>>}, NEW finish \in {<<>>, <<Barrier>>},
         NEW after, IsCollective(ShmemCollective(program, np, kind, buffers, <<x, y>>,
                                                 before, after, finish)),
         NEW m, StatsAt(after, m),
         KeepsOff(after, m, x, y)
  PROVE  IsSynced(ShmemCollective(program, np, kind, buffers, <<x, y>>, before, after, finish))
<1> DEFINE b == ShmemCollective(program, np, kind, buffers, <<x, y>>, before, after, finish)
           loop == ShmemIteration(kind, <<x, y>>) \o <<Barrier>>
           lead == [k \in 1 .. NumSizes |-> <<SetFixed(k)>> \o before \o <<Reset>>]
           secs == [k \in 1 .. NumSizes |-> <<Once(lead[k]), Loop(loop), Once(after)>>]
<1>1. /\ b.sizes = NumSizes /\ b.start = Window(buffers, Call("shmalloc"))
      /\ b.finish = finish \o Window(buffers, Call("shfree"))
      /\ b.body = [k \in 1 .. NumSizes |-> [r \in 1 .. np |-> secs[k]] \o <<>>] \o <<>>
  BY DEF ShmemCollective, Benchmark, Launch, WithOptions
<1>2. Ordinary(Barrier) /\ Barrier.op = "call"
  BY OrdinaryStatements DEF Barrier, Full
<1>3. \A c \in {"shmalloc", "shfree"} : AllOrdinary(Window(buffers, Call(c)))
  <2> TAKE c \in {"shmalloc", "shfree"}
  <2>1. Ordinary(Call(c)) /\ Call(c).op # "start"
    BY OrdinaryStatements DEF Full
  <2>2. IsQuiet(Call(c))
    BY Statements
  <2>3. IsSequence(Window(buffers, Call(c))) /\ Len(Window(buffers, Call(c))) = buffers
    BY <2>2, WindowIsQuiet DEF AllQuiet
  <2>4. \A n \in 1 .. buffers : Window(buffers, Call(c))[n] = Call(c)
    BY DEF Window
  <2> QED BY <2>1, <2>3, <2>4 DEF AllOrdinary
<1>4. AllOrdinary(before) /\ AllOrdinary(finish)
  BY <1>2, ShortOrdinary
<1>5. AllOrdinary(b.start) /\ AllOrdinary(b.finish)
  BY <1>1, <1>3, <1>4, OrdinaryJoined
<1>6. ASSUME NEW k \in 1 .. NumSizes
      PROVE  AllOrdinary(lead[k])
  <2>1. Ordinary(SetFixed(k)) /\ SetFixed(k).op # "start" /\ Ordinary(Reset) /\ Reset.op # "start"
    BY OrdinaryStatements DEF SetFixed
  <2>2. AllOrdinary(<<SetFixed(k)>>) /\ AllOrdinary(<<Reset>>)
    BY <2>1, ShortOrdinary
  <2>3. AllOrdinary(<<SetFixed(k)>> \o before)
    BY <1>4, <2>2, OrdinaryJoined
  <2>4. AllOrdinary(<<SetFixed(k)>> \o before \o <<Reset>>)
    BY <2>2, <2>3, OrdinaryJoined
  <2> QED BY <2>4
<1>7. SyncedLoop(kind, x, y, loop) /\ Len(loop) = 4 /\ loop[4] = Barrier
  <2>1. PICK f, g : f = ShmemIteration(kind, <<x, y>>) /\ g = <<Barrier>>
    OBVIOUS
  <2>2. /\ Len(loop) = 4 /\ loop[1] = TStart /\ loop[2] = Measured(Synced(kind, <<x, y>>))
        /\ loop[3] = Sample /\ loop[4] = Barrier
    <3>1. /\ IsSequence(f) /\ Len(f) = 3 /\ f[1] = TStart /\ f[3] = Sample
          /\ f[2] = Measured(Synced(kind, <<x, y>>))
      BY <2>1 DEF ShmemIteration, IsSequence
    <3>2. IsSequence(g) /\ Len(g) = 1 /\ g[1] = Barrier
      BY <2>1 DEF IsSequence
    <3>3. /\ Len(f \o g) = Len(f) + Len(g)
          /\ \A n \in 1 .. Len(f) : (f \o g)[n] = f[n]
          /\ \A n \in 1 .. Len(g) : (f \o g)[Len(f) + n] = g[n]
      <4>1. IsSequence(f) /\ IsSequence(g)
        BY <3>1, <3>2
      <4> QED BY <4>1, Joined
    <3>4. 1 \in 1 .. 3 /\ 2 \in 1 .. 3 /\ 3 \in 1 .. 3 /\ 1 \in 1 .. 1 /\ 3 + 1 = 4
      OBVIOUS
    <3>5. loop = f \o g
      BY <2>1
    <3> HIDE DEF loop
    <3> QED BY <3>1, <3>2, <3>3, <3>4, <3>5
  <2> HIDE DEF loop
  <2>3. \A p \in (1 .. 4) \ {2} : p = 1 \/ p = 3 \/ p = 4
    OBVIOUS
  <2>4. \A p \in (1 .. Len(loop)) \ {2} : Ordinary(loop[p]) /\ loop[p].op # "start"
    BY <1>2, <2>2, <2>3, OrdinaryStatements
  <2> QED BY <2>2, <2>4 DEF SyncedLoop
<1>8. AllWaitFor(kind, loop, after)
  BY <1>2, <1>7 DEF AllWaitFor
<1>9. NumSizes \in Nat /\ 1 \in 1 .. np
  BY OmbOpsAssumption
<1> HIDE DEF b, loop, lead
<1>10. \A k \in 1 .. NumSizes : secs[k] = <<Once(lead[k]), Loop(loop), Once(after)>>
  OBVIOUS
<1> HIDE DEF secs
<1>11. \A k \in 1 .. NumSizes : b.body[k][1] = secs[k]
  BY <1>1, <1>9, Bodies
<1>12. \A k \in 1 .. b.sizes : /\ b.body[k][1] = <<Once(lead[k]), Loop(loop), Once(after)>>
                               /\ AllOrdinary(lead[k])
  BY <1>1, <1>6, <1>10, <1>11
<1>13. IsCollective(b)
  BY DEF b
<1>14. IsSynced(b)
  BY <1>5, <1>7, <1>8, <1>12, <1>13, SyncedIs
<1> QED BY <1>14 DEF b

\* One size, and a collective that is itself a barrier.
LEMMA OsuOshmBarrierIsSynced ==
  ASSUME NEW np \in Nat \ {0}
  PROVE  IsSynced(OsuOshmBarrier(np))
<1> DEFINE b == OsuOshmBarrier(np)
           large == Assign([loop |-> Options.loop_large, skip |-> FixedSkipLarge])
           loop == ShmemIteration("shmem_barrier", <<"pSyncBarrier2", "pSyncBarrier1">>)
           after == <<Barrier, Report>> \o StatsToAll
           lead == [k \in 1 .. 1 |-> <<large, Reset>>]
           secs == [k \in 1 .. 1 |-> <<Once(<<large, Reset>>), Loop(loop), Once(after)>>]
<1>1. /\ b.sizes = 1 /\ b.start = <<>> /\ b.finish = <<>>
      /\ b.body = [k \in 1 .. 1 |-> [r \in 1 .. np |-> secs[k]] \o <<>>] \o <<>>
  BY DEF OsuOshmBarrier, Benchmark, Launch, WithOptions
<1>2. AllOrdinary(<<large, Reset>>)
  <2>1. Ordinary(large) /\ large.op # "start" /\ Ordinary(Reset) /\ Reset.op # "start"
    BY OrdinaryStatements
  <2> HIDE DEF large
  <2> QED BY <2>1, ShortOrdinary
<1>3. SyncedLoop("shmem_barrier", "pSyncBarrier2", "pSyncBarrier1", loop)
  <2>1. /\ Len(loop) = 3 /\ loop[1] = TStart /\ loop[3] = Sample
        /\ loop[2] = Measured(Synced("shmem_barrier", <<"pSyncBarrier2", "pSyncBarrier1">>))
    BY DEF ShmemIteration
  <2> HIDE DEF loop
  <2>2. \A p \in (1 .. 3) \ {2} : p = 1 \/ p = 3
    OBVIOUS
  <2>3. \A p \in (1 .. Len(loop)) \ {2} : Ordinary(loop[p]) /\ loop[p].op # "start"
    BY <2>1, <2>2, OrdinaryStatements
  <2> QED BY <2>1, <2>3 DEF SyncedLoop
<1>4. AllWaitFor("shmem_barrier", loop, after)
  <2>1. after[1] = Barrier
    BY StatsAreAt
  <2>2. Full("shmem_barrier") /\ Barrier.op = "call" /\ ~Synchronises(Barrier)
    <3>1. Full("shmem_barrier") /\ Full("barrier")
      BY DEF Full
    <3> QED BY <3>1, OrdinaryStatements DEF Barrier, Ordinary, Synchronises
  <2> HIDE DEF after, loop
  <2> QED BY <2>1, <2>2 DEF AllWaitFor
<1>5. StatsAt(after, 2)
  BY StatsAreAt
<1> HIDE DEF b, loop, large, after
<1>6. secs[1] = <<Once(lead[1]), Loop(loop), Once(after)>> /\ AllOrdinary(lead[1])
  BY <1>2
<1> HIDE DEF secs, lead
<1>7. \A k \in 1 .. 1 : \A r \in 1 .. np : b.body[k][r] = secs[k]
  BY <1>1, Bodies
<1>8. 1 \in 1 .. np /\ \A k \in 1 .. 1 : k = 1
  OBVIOUS
<1>9. \A k \in 1 .. b.sizes : /\ b.body[k][1] = <<Once(lead[k]), Loop(loop), Once(after)>>
                              /\ AllOrdinary(lead[k])
  BY <1>1, <1>6, <1>7, <1>8
<1>10. IsCollective(b)
  BY OsuOshmBarrierIs DEF b
<1>11. AllOrdinary(b.start) /\ AllOrdinary(b.finish)
  BY <1>1, ShortOrdinary
<1>12. KeepsOff(after, 2, "pSyncBarrier2", "pSyncBarrier1") /\ "pSyncBarrier2" # "pSyncBarrier1"
  BY DEF KeepsOff
<1>13. IsSynced(b)
  BY <1>3, <1>4, <1>5, <1>9, <1>10, <1>11, <1>12, SyncedIs
<1> QED BY <1>13 DEF b

\* All five of them.
LEMMA ShmemIsSynced ==
  ASSUME NEW np \in Nat \ {0}, NEW b \in ShmemCollectives(np)
  PROVE  IsSynced(b)
<1>1. IsCollective(b)
  BY SuiteIsCollective DEF Collectives
<1>2. PICK A : A = <<Barrier, Report>> \o StatsToAll
  OBVIOUS
<1>3. PICK B : B = <<Report>> \o StatsToAll \o <<Barrier>>
  OBVIOUS
<1>4. StatsAt(A, 2) /\ StatsAt(B, 1) /\ Len(B) = 5 /\ B[5].op = "call"
  <2>1. Barrier.op = "call"
    BY DEF Barrier, Call, Do
  <2> QED BY <1>2, <1>3, <2>1, StatsAreAt
<1>5. \E q \in 1 + 4 .. Len(B) : B[q].op = "call"
  BY <1>4
<1>6. ASSUME b \in {OsuOshmCollect(np), OsuOshmFcollect(np)}
      PROVE  IsSynced(b)
  <2>1. PICK program, kind : b = ShmemCollective(program, np, kind, 2,
                                   <<"pSyncCollect2", "pSyncCollect1">>,
                                   <<Barrier>>, A, <<Barrier>>)
    BY <1>2, <1>6 DEF OsuOshmCollect, OsuOshmFcollect
  <2>2. KeepsOff(A, 2, "pSyncCollect2", "pSyncCollect1") /\ "pSyncCollect2" # "pSyncCollect1"
    BY DEF KeepsOff
  <2> QED BY <1>1, <1>4, <2>1, <2>2, ShmemCollectiveIsSynced
<1>7. ASSUME b = OsuOshmBroadcast(np)
      PROVE  IsSynced(b)
  <2>1. PICK program, kind : b = ShmemCollective(program, np, kind, 1,
                                   <<"pSyncBcast2", "pSyncBcast1">>, <<>>, A, <<>>)
    BY <1>2, <1>7 DEF OsuOshmBroadcast
  <2>2. KeepsOff(A, 2, "pSyncBcast2", "pSyncBcast1") /\ "pSyncBcast2" # "pSyncBcast1"
    BY DEF KeepsOff
  <2> QED BY <1>1, <1>4, <2>1, <2>2, ShmemCollectiveIsSynced
<1>8. ASSUME b = OsuOshmReduce(np)
      PROVE  IsSynced(b)
  <2>1. PICK program, kind : b = ShmemCollective(program, np, kind, 4,
                                   <<"pSyncRed2", "pSyncRed1">>, <<Barrier>>, B, <<Barrier>>)
    BY <1>3, <1>8 DEF OsuOshmReduce
  <2>2. KeepsOff(B, 1, "pSyncRed2", "pSyncRed1") /\ "pSyncRed2" # "pSyncRed1"
    BY <1>5 DEF KeepsOff
  <2> QED BY <1>1, <1>4, <2>1, <2>2, ShmemCollectiveIsSynced
<1> QED BY <1>6, <1>7, <1>8, OsuOshmBarrierIsSynced DEF ShmemCollectives

(***************************************************************************)
(* So none of the collective benchmarks of OpenSHMEM enters a collective   *)
(* with a pSync array that another process is still using for an earlier   *)
(* one, although the programs have two arrays for each loop only and the   *)
(* broadcast lets its root run ahead.                                      *)
(***************************************************************************)
THEOREM ShmemArraysTheorem ==
  WinSpec => [](\A np \in Nat \ {0} : benchmark \in ShmemCollectives(np) => SyncArraysFree)
<1>1. (IsSynced(benchmark) => SyncArraysFree)
        => \A np \in Nat \ {0} : benchmark \in ShmemCollectives(np) => SyncArraysFree
  BY ShmemIsSynced
<1> QED BY <1>1, SyncTheorem, PTL
=============================================================================
