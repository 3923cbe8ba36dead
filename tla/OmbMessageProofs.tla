--------------------------- MODULE OmbMessageProofs ---------------------------
(***************************************************************************)
(* The programs of the OSU suite that exchange messages.  The n-th message *)
(* of a rank to its partner meets the n-th receive of the partner, so what *)
(* two partners have completed is a matter of counting, and counts follow  *)
(* from where a rank is in its program.                                    *)
(***************************************************************************)
EXTENDS OmbWindowProofs

-----------------------------------------------------------------------------
(***************************************************************************)
(* Messages.  First, the order of the places on the way of a rank, and     *)
(* what a step does to the messages that wait to be matched.               *)
(***************************************************************************)
Earlier(a, c) ==
  \/ a.size < c.size
  \/ /\ a.size = c.size
     /\ \/ a.seg < c.seg
        \/ a.seg = c.seg /\ (a.iter < c.iter \/ (a.iter = c.iter /\ a.pos < c.pos))

Heading(r) ==
  \/ at'[r] = at[r] /\ Op(r).op = "call"
  \/ at'[r] = Usage /\ Op(r).op = "check" /\ ~Usable
  \/ at'[r] = Following(r, options'[r])

Queues(r) ==
  /\ sends' = IF Op(r).op = "isend" THEN [sends EXCEPT ![r] = Append(@, Envelope(r))]
              ELSE sends
  /\ recvs' = IF Op(r).op = "irecv" THEN [recvs EXCEPT ![r] = Append(@, Envelope(r))]
              ELSE recvs

\* What the completion of receives waits for.
Receives(r) == Op(r).op = "waitrecvs" => recvs[r] = <<>>

Mails(r) == Acts(r) /\ Heading(r) /\ Queues(r) /\ Receives(r)

\* The oldest message of a channel meets the oldest receive.
Meets(p, q, tag) ==
  /\ Meeting(p, q, tag)
  /\ sends' = [sends EXCEPT ![p] = Without(@, First(@, q, tag))]
  /\ recvs' = [recvs EXCEPT ![q] = Without(@, First(@, p, tag))]
  /\ launch' = launch /\ at' = at /\ options' = options

Halts == launch' = launch /\ at' = at /\ options' = options /\ messages' = messages

LEMMA HeadingStep ==
  ASSUME Placed, NEW r \in Ranks, Step(r) \/ WinStep(r)
  PROVE  Heading(r)
<1>1. ASSUME GoOn(r), options' = options PROVE Heading(r)
  BY <1>1 DEF GoOn, Placed, Heading
<1>2. CASE CheckUsage(r)
  <2>1. CASE po_ret = "po_okay" /\ benchmark.fits
    BY <1>1, <1>2, <2>1 DEF CheckUsage
  <2>2. CASE ~(po_ret = "po_okay" /\ benchmark.fits)
    <3>1. at' = [at EXCEPT ![r] = Usage] /\ Op(r).op = "check" /\ ~Usable
      BY <1>2, <2>2 DEF CheckUsage, Usage, Usable, At
    <3> QED BY <3>1 DEF Placed, Heading
  <2> QED BY <2>1, <2>2
<1>3. CASE SetOptions(r)
  <2> DEFINE s == Op(r).set
             o == [loop |-> IF s.loop = Keep THEN options[r].loop ELSE s.loop,
                   skip |-> IF s.skip = Keep THEN options[r].skip ELSE s.skip]
  <2>1. options' = [options EXCEPT ![r] = o] /\ at' = [at EXCEPT ![r] = Following(r, o)]
    BY <1>3 DEF SetOptions
  <2> HIDE DEF o
  <2> QED BY <2>1 DEF Placed, Heading
<1>4. CASE EnterCollective(r)
  BY <1>4 DEF EnterCollective, At, Heading
<1>5. CASE \/ Pass(r) \/ ReadStart(r) \/ ReadEnd(r) \/ AddSample(r) \/ ResetTimer(r)
           \/ PostSend(r) \/ PostRecv(r) \/ CompleteSends(r) \/ CompleteRecvs(r)
           \/ LeaveCollective(r) \/ StartCollective(r) \/ TestCollective(r) \/ WaitCollective(r)
  BY <1>1, <1>5 DEF Pass, ReadStart, ReadEnd, AddSample, ResetTimer, PostSend, PostRecv,
     CompleteSends, CompleteRecvs, LeaveCollective, StartCollective, TestCollective,
     WaitCollective
<1>6. CASE WinStep(r)
  <2>1. \E op : Perform(r, op)
    BY <1>6 DEF WinStep, Issue, AcquireLock, ReleaseLock, FlushAll, FlushBuffers, PostEpoch,
       StartEpoch, CompleteEpoch, WaitEpoch, KeepTable, KeepAddress
  <2>2. GoOn(r) /\ options' = options
    BY <2>1 DEF Perform, frame
  <2> QED BY <1>1, <2>2
<1> QED BY <1>2, <1>3, <1>4, <1>5, <1>6 DEF Step

LEMMA QueuesStep ==
  ASSUME NEW r \in Ranks, Step(r) \/ WinStep(r)
  PROVE  Queues(r) /\ Receives(r)
<1>1. ASSUME messages' = messages, Op(r).op \notin {"isend", "irecv", "waitrecvs"}
      PROVE  Queues(r) /\ Receives(r)
  <2>1. sends' = sends /\ recvs' = recvs
    BY <1>1 DEF messages
  <2> QED BY <1>1, <2>1 DEF Queues, Receives
<1>2. CASE \/ CheckUsage(r) \/ SetOptions(r) \/ Pass(r) \/ ReadStart(r) \/ ReadEnd(r)
           \/ AddSample(r) \/ ResetTimer(r) \/ CompleteSends(r) \/ EnterCollective(r)
           \/ LeaveCollective(r) \/ StartCollective(r) \/ TestCollective(r) \/ WaitCollective(r)
  <2>1. messages' = messages
    BY <1>2 DEF CheckUsage, SetOptions, Pass, ReadStart, ReadEnd, AddSample, ResetTimer,
       CompleteSends, EnterCollective, LeaveCollective, StartCollective, TestCollective,
       WaitCollective
  <2>2. Op(r).op \in {"check", "options", "touch", "report", "t_start", "t_end", "sample",
                      "reset", "waitsends", "call", "start", "test", "wait"}
    BY <1>2 DEF CheckUsage, SetOptions, Pass, ReadStart, ReadEnd, AddSample, ResetTimer,
       CompleteSends, EnterCollective, LeaveCollective, StartCollective, TestCollective,
       WaitCollective, At
  <2>3. Op(r).op \notin {"isend", "irecv", "waitrecvs"}
    BY <2>2
  <2> QED BY <1>1, <2>1, <2>3
<1>3. CASE PostSend(r)
  BY <1>3 DEF PostSend, At, Queues, Receives
<1>4. CASE PostRecv(r)
  BY <1>4 DEF PostRecv, At, Queues, Receives
<1>5. CASE CompleteRecvs(r)
  BY <1>5 DEF CompleteRecvs, At, Queues, Receives, messages
<1>6. CASE WinStep(r)
  <2>1. \E op \in WindowOps : Perform(r, op)
    BY <1>6 DEF WinStep, Issue, AcquireLock, ReleaseLock, FlushAll, FlushBuffers, PostEpoch,
       StartEpoch, CompleteEpoch, WaitEpoch, KeepTable, KeepAddress, WindowOps
  <2>2. PICK op \in WindowOps : Perform(r, op)
    BY <2>1
  <2>3. messages' = messages /\ Op(r).op = op
    BY <2>2 DEF Perform, frame, At
  <2>4. Op(r).op \notin {"isend", "irecv", "waitrecvs"}
    BY <2>3 DEF WindowOps
  <2> QED BY <1>1, <2>3, <2>4
<1> QED BY <1>2, <1>3, <1>4, <1>5, <1>6 DEF Step

LEMMA StepMails ==
  ASSUME WellFormed(benchmark), Placed, [WinNext]_<<vars, windows>>
  PROVE  \/ \E r \in Ranks : Mails(r)
         \/ \E p, q \in Ranks : \E tag : Meets(p, q, tag)
         \/ Halts
<1>1. CASE Next /\ UNCHANGED windows
  <2>1. CASE \E r \in Ranks : Step(r)
    BY <1>1, <2>1, FrameStep, HeadingStep, QueuesStep DEF Mails
  <2>2. CASE \E p, q \in Ranks : \E tag \in Tags(p) : Deliver(p, q, tag)
    BY <1>1, <2>2 DEF Deliver, Meets
  <2>3. CASE Exit
    BY <1>1, <2>3 DEF Exit, vars, Halts
  <2> QED BY <1>1, <2>1, <2>2, <2>3 DEF Next
<1>2. CASE \E r \in Ranks : WinStep(r)
  BY <1>2, WindowStep, HeadingStep, QueuesStep DEF Mails
<1>3. CASE \E r \in Ranks : \E n \in DOMAIN pending[r] : TakePlace(r, n)
  BY <1>3 DEF TakePlace, vars, Halts
<1>4. CASE UNCHANGED <<vars, windows>>
  BY <1>4 DEF vars, Halts
<1> QED BY <1>1, <1>2, <1>3, <1>4 DEF WinNext

\* A rank leaves a loop after its last iteration.
LEMMA LeavesLate ==
  ASSUME WellFormed(benchmark), NEW r \in Ranks, IsSpot(benchmark, r, at[r]), NEW o,
         SectionIn(benchmark, r, at[r]).loop,
         NEW c, c = Following(r, o), c.size # at[r].size \/ c.seg # at[r].seg
  PROVE  ~(at[r].iter + 1 < Trips(o))
<1> DEFINE a == at[r]
           b == benchmark
           rest == {p \in Due(SectionIn(b, r, a), a.iter, o) : p > a.pos}
           Begin(k, s, i) == BeginOf(b, r, k, s, i, o)
           Skip(p) == [a EXCEPT !.pos = p]
<1>1. c = IF rest # {} THEN Skip(Min(rest))
          ELSE IF SectionIn(b, r, a).loop /\ a.iter + 1 < Trips(o)
               THEN Begin(a.size, a.seg, a.iter + 1)
          ELSE IF a.seg < Len(Sections(b, r, a.size)) THEN Begin(a.size, a.seg + 1, 0)
          ELSE IF a.size < b.sizes + 1 THEN Begin(a.size + 1, 1, 0)
          ELSE Over
  BY CodeIsSections DEF Following, Section, SectionIn, Place, BeginOf
<1>2. ASSUME NEW p PROVE Skip(p).size = a.size /\ Skip(p).seg = a.seg
  <2>1. Skip(p) = Place(a.size, a.seg, a.iter, p)
    BY DEF IsSpot, Place
  <2> QED BY <2>1 DEF Place
<1>3. /\ Begin(a.size, a.seg, a.iter + 1).size = a.size
      /\ Begin(a.size, a.seg, a.iter + 1).seg = a.seg
  BY DEF BeginOf, Place
<1>4. ASSUME rest = {}, a.iter + 1 < Trips(o) PROVE c = Begin(a.size, a.seg, a.iter + 1)
  <2> HIDE DEF rest, Begin, Skip
  <2> QED BY <1>1, <1>4
<1>5. ASSUME rest # {} PROVE c = Skip(Min(rest))
  <2> HIDE DEF rest, Begin, Skip
  <2> QED BY <1>1, <1>5
<1> HIDE DEF Begin, Skip, rest
<1> QED BY <1>2, <1>3, <1>4, <1>5

\* x is a place that rank r comes to when it goes through size x.size.
Visited(b, r, x, o) ==
  /\ IsSpot(b, r, x)
  /\ ~OpsIn(b, r, x)[x.pos].at_skip
  /\ IF SectionIn(b, r, x).loop THEN Trips(o) \in Nat /\ x.iter < Trips(o) ELSE x.iter = 0

LEMMA SpotsEqual ==
  ASSUME NEW b, NEW r, NEW x, NEW a, IsSpot(b, r, x), IsSpot(b, r, a),
         x.size = a.size, x.seg = a.seg, x.iter = a.iter, x.pos = a.pos
  PROVE  x = a
BY DEF IsSpot

LEMMA SpotNumbers ==
  ASSUME WellFormed(benchmark), NEW r \in Ranks, NEW a, IsSpot(benchmark, r, a)
  PROVE  a.size \in Nat /\ a.seg \in Nat /\ a.iter \in Nat /\ a.pos \in Nat
<1>1. /\ a.size \in 0 .. benchmark.sizes + 1 /\ benchmark.sizes \in Nat
      /\ a.seg \in 1 .. Len(Sections(benchmark, r, a.size))
      /\ Len(Sections(benchmark, r, a.size)) \in Nat /\ a.pos \in Nat
  BY SpotHasOp
<1>2. a.iter \in Nat
  BY DEF IsSpot
<1> QED BY <1>1, <1>2

\* A step leaves nothing out: what comes before the place a rank goes to is
\* what came before the place it leaves, and that place.
LEMMA NothingLeftOut ==
  ASSUME WellFormed(benchmark), NEW r \in Ranks, NEW a, IsSpot(benchmark, r, a),
         SectionIn(benchmark, r, a).loop \/ a.iter = 0,
         NEW o, NEW c, Goes(benchmark, r, a, c, o),
         SectionIn(benchmark, r, a).loop /\ (c.size # a.size \/ c.seg # a.seg)
           => ~(a.iter + 1 < Trips(o)),
         NEW x, IsSpot(benchmark, r, x), ~OpsIn(benchmark, r, x)[x.pos].at_skip,
         SectionIn(benchmark, r, x).loop \/ x.iter = 0,
         x.size = a.size /\ x.seg = a.seg => Visited(benchmark, r, x, o)
  PROVE  Earlier(x, c) <=> Earlier(x, a) \/ x = a
<1> DEFINE b == benchmark
<1>1. /\ a.size \in Nat /\ a.seg \in Nat /\ a.iter \in Nat /\ a.pos \in Nat
      /\ x.size \in Nat /\ x.seg \in Nat /\ x.iter \in Nat /\ x.pos \in Nat
  BY SpotNumbers
<1>2. x = a <=> x.size = a.size /\ x.seg = a.seg /\ x.iter = a.iter /\ x.pos = a.pos
  BY SpotsEqual
<1>3. x.pos \in 1 .. Len(OpsIn(b, r, x)) /\ Len(OpsIn(b, r, x)) \in Nat
  BY SpotHasOp
<1>4. x.size = a.size /\ x.seg = a.seg => OpsIn(b, r, x) = OpsIn(b, r, a)
  BY DEF OpsIn, SectionIn
<1>5. CASE Arrives(b, r, c, o) /\ Within(b, r, a, c)
  <2>1. /\ c.size = a.size /\ c.seg = a.seg /\ c.iter = a.iter /\ a.pos < c.pos
        /\ \A n \in a.pos + 1 .. c.pos - 1 : OpsIn(b, r, a)[n].at_skip
    BY <1>5 DEF Within, Skips
  <2>2. c.pos \in Nat
    BY <1>5, SpotNumbers DEF Arrives
  <2>3. ~(x.size = a.size /\ x.seg = a.seg /\ x.iter = a.iter /\ x.pos \in a.pos + 1 .. c.pos - 1)
    BY <1>4, <2>1
  <2> QED BY <1>1, <1>2, <2>1, <2>2, <2>3 DEF Earlier
<1>6. CASE Arrives(b, r, c, o) /\ Crosses(b, r, a, c)
  <2>1. c.size \in Nat /\ c.seg \in Nat /\ c.iter \in Nat /\ c.pos \in Nat
    BY <1>6, SpotNumbers DEF Arrives
  <2>2. ~(x.size = a.size /\ x.seg = a.seg /\ x.pos > a.pos)
    <3> SUFFICES ASSUME x.size = a.size, x.seg = a.seg, x.pos > a.pos PROVE FALSE
      OBVIOUS
    <3>1. x.pos \in a.pos + 1 .. Len(OpsIn(b, r, a))
      BY <1>1, <1>3, <1>4
    <3>2. OpsIn(b, r, a)[x.pos].at_skip
      BY <1>6, <3>1 DEF Crosses, Ends
    <3> QED BY <1>4, <3>2
  <2>3. ~(x.size = c.size /\ x.seg = c.seg /\ x.pos < c.pos)
    <3> SUFFICES ASSUME x.size = c.size, x.seg = c.seg, x.pos < c.pos PROVE FALSE
      OBVIOUS
    <3>1. x.pos \in 1 .. c.pos - 1 /\ OpsIn(b, r, x) = OpsIn(b, r, c)
      BY <1>1, <1>3, <2>1 DEF OpsIn, SectionIn
    <3>2. OpsIn(b, r, c)[x.pos].at_skip
      BY <1>6, <3>1 DEF Crosses, Begins
    <3> QED BY <3>1, <3>2
  <2>4. CASE c.size = a.size /\ c.seg = a.seg /\ c.iter = a.iter + 1
    BY <1>1, <1>2, <2>1, <2>2, <2>3, <2>4 DEF Earlier
  <2>5. ASSUME c.size # a.size \/ c.seg # a.seg, x.size = a.size, x.seg = a.seg
        PROVE  x.iter <= a.iter
    <3>1. SectionIn(b, r, x) = SectionIn(b, r, a)
      BY <2>5 DEF SectionIn
    <3>2. CASE SectionIn(b, r, a).loop
      <4>1. x.iter < Trips(o) /\ ~(a.iter + 1 < Trips(o)) /\ Trips(o) \in Nat
        BY <2>5, <3>1, <3>2 DEF Visited
      <4> QED BY <1>1, <4>1
    <3>3. CASE ~SectionIn(b, r, a).loop
      BY <1>1, <3>1, <3>3
    <3> QED BY <3>2, <3>3
  <2>6. CASE c.size = a.size /\ c.seg = a.seg + 1 /\ c.iter = 0
    <3>1. x.size = a.size /\ x.seg = a.seg => x.iter <= a.iter
      BY <1>1, <2>5, <2>6
    <3> QED BY <1>1, <1>2, <2>1, <2>2, <2>3, <2>6, <3>1 DEF Earlier
  <2>7. CASE c.size = a.size + 1 /\ c.seg = 1 /\ c.iter = 0 /\ a.seg = Len(Sections(b, r, a.size))
    <3>1. x.size = a.size /\ x.seg = a.seg => x.iter <= a.iter
      BY <1>1, <2>5, <2>7
    <3>2. x.size = a.size => x.seg <= a.seg
      <4>1. x.seg \in 1 .. Len(Sections(b, r, x.size))
        BY SpotHasOp
      <4> QED BY <1>1, <2>7, <4>1
    <3>3. x.size = c.size => 1 <= x.seg
      <4>1. x.seg \in 1 .. Len(Sections(b, r, x.size))
        BY SpotHasOp
      <4> QED BY <1>1, <4>1
    <3> QED BY <1>1, <1>2, <2>1, <2>2, <2>3, <2>7, <3>1, <3>2, <3>3 DEF Earlier
  <2> QED BY <1>6, <2>4, <2>6, <2>7 DEF Crosses
<1>7. CASE Finishes(b, r, a, c)
  <2>1. /\ x.size \in 0 .. b.sizes + 1 /\ b.sizes \in Nat /\ a.size = b.sizes + 1
        /\ c.size = b.sizes + 2 /\ c = Over
    BY <1>7, SpotHasOp, CodeIsSections DEF Finishes, Over
  <2>2. Earlier(x, c)
    BY <2>1 DEF Earlier
  <2>3. ASSUME x.size = a.size PROVE x.seg = 1 /\ a.seg = 1 /\ x.iter = 0 /\ a.iter = 0
    <3>1. Sections(b, r, a.size) = <<Once(b.finish \o <<Finalize>>)>>
      BY <2>1 DEF Sections
    <3>2. Len(Sections(b, r, a.size)) = 1 /\ ~Sections(b, r, a.size)[1].loop
      BY <3>1 DEF Once
    <3>3. x.seg \in 1 .. Len(Sections(b, r, x.size)) /\ a.seg \in 1 .. Len(Sections(b, r, a.size))
      BY SpotHasOp
    <3>4. x.seg = 1 /\ a.seg = 1
      BY <2>3, <3>2, <3>3
    <3> QED BY <2>3, <3>2, <3>4 DEF SectionIn
  <2>4. ~(x.size = a.size /\ x.seg = a.seg /\ x.pos > a.pos)
    <3> SUFFICES ASSUME x.size = a.size, x.seg = a.seg, x.pos > a.pos PROVE FALSE
      OBVIOUS
    <3>1. x.pos \in a.pos + 1 .. Len(OpsIn(b, r, a))
      BY <1>1, <1>3, <1>4
    <3>2. OpsIn(b, r, a)[x.pos].at_skip
      BY <1>7, <3>1 DEF Finishes, Ends
    <3> QED BY <1>4, <3>2
  <2>5. Earlier(x, a) \/ x = a
    BY <1>1, <1>2, <2>1, <2>3, <2>4 DEF Earlier
  <2> QED BY <2>2, <2>5
<1> QED BY <1>5, <1>6, <1>7 DEF Goes

-----------------------------------------------------------------------------
(***************************************************************************)
(* Which iteration a rank is in, and its options, where they are set at    *)
(* the begin of every size (SetIfLarge) and nowhere else.                  *)
(***************************************************************************)
OptionsFrom(k) ==
  [loop |-> IF Large(k) THEN Options.loop_large ELSE Options.loop,
   skip |-> IF Large(k) THEN Options.skip_large ELSE Options.skip]

SetsOptions(b) ==
  \A r \in 0 .. b.np - 1 :
    /\ \A k \in 0 .. b.sizes + 1 : \A s \in 1 .. Len(Sections(b, r, k)) :
         \A n \in 1 .. Len(Sections(b, r, k)[s].ops) :
           Sections(b, r, k)[s].ops[n].op = "options" => k \in 1 .. b.sizes /\ s = 1
    /\ \A k \in 1 .. b.sizes :
         LET first == Sections(b, r, k)[1]
         IN  /\ ~first.loop
             /\ \E u \in 1 .. Len(first.ops) :
                  /\ first.ops[u] = SetIfLarge(k)
                  /\ \A n \in 1 .. Len(first.ops) : first.ops[n].op = "options" => n = u

\* The options of the size before are still in force.
Unset(b, r, a) == a.seg = 1 /\ \A n \in 1 .. a.pos - 1 : OpsIn(b, r, a)[n].op # "options"

OptionsAt(b, r, a, o) ==
  /\ a.size = 0 => o = OptionsFrom(0)
  /\ a.size \in 1 .. b.sizes => o = OptionsFrom(IF Unset(b, r, a) THEN a.size - 1 ELSE a.size)
  /\ SectionIn(b, r, a).loop => a.iter < Trips(o)

OnceAt(b, r, a) == SectionIn(b, r, a).loop \/ a.iter = 0

IterationInv ==
  WellFormed(benchmark) => \A r \in Ranks : at[r] # Over => OnceAt(benchmark, r, at[r])

OptionsInv ==
  WellFormed(benchmark) /\ SetsOptions(benchmark)
    => \A r \in Ranks : at[r] # Over => OptionsAt(benchmark, r, at[r], options[r])

LEMMA OptionsFromIs ==
  ASSUME NEW k \in Nat
  PROVE  /\ OptionsFrom(k).loop \in Nat \ {0} /\ OptionsFrom(k).skip \in Nat
         /\ Trips(OptionsFrom(k)) \in Nat \ {0}
         /\ k = 0 => OptionsFrom(k) = [loop |-> Options.loop, skip |-> Options.skip]
<1>1. /\ Options.loop \in Nat \ {0} /\ Options.loop_large \in Nat \ {0}
      /\ Options.skip \in Nat /\ Options.skip_large \in Nat /\ LastSmall \in Nat
  BY OmbOpsAssumption
<1>2. OptionsFrom(k).loop \in Nat \ {0} /\ OptionsFrom(k).skip \in Nat
  BY <1>1 DEF OptionsFrom
<1>3. k = 0 => ~Large(k)
  BY <1>1 DEF Large
<1> QED BY <1>2, <1>3 DEF Trips, OptionsFrom

\* The statement that sets the options of size k.
LEMMA SettingIs ==
  ASSUME NEW k \in Nat \ {0}, NEW o, o = OptionsFrom(k - 1)
  PROVE  LET s == SetIfLarge(k).set
         IN  [loop |-> IF s.loop = Keep THEN o.loop ELSE s.loop,
              skip |-> IF s.skip = Keep THEN o.skip ELSE s.skip] = OptionsFrom(k)
<1> DEFINE s == SetIfLarge(k).set
<1>1. s = IF Large(k) THEN [loop |-> Options.loop_large, skip |-> Options.skip_large]
          ELSE Keeping
  BY DEF SetIfLarge, Assign, Do
<1>2. /\ Options.loop_large \in Nat \ {0} /\ Options.skip_large \in Nat /\ LastSmall \in Nat
  BY OmbOpsAssumption
<1> HIDE DEF s
<1>3. CASE Large(k)
  <2>1. s.loop = Options.loop_large /\ s.skip = Options.skip_large
    BY <1>1, <1>3
  <2>2. s.loop # Keep /\ s.skip # Keep
    BY <1>2, <2>1 DEF Keep
  <2> QED BY <1>3, <2>1, <2>2 DEF OptionsFrom, s
<1>4. CASE ~Large(k)
  <2>1. s.loop = Keep /\ s.skip = Keep
    BY <1>1, <1>4 DEF Keeping
  <2>2. ~Large(k - 1)
    BY <1>2, <1>4 DEF Large
  <2>3. OptionsFrom(k - 1) = OptionsFrom(k)
    BY <1>4, <2>2 DEF OptionsFrom
  <2>4. OptionsFrom(k) = [loop |-> o.loop, skip |-> o.skip]
    BY <2>3 DEF OptionsFrom
  <2> QED BY <2>1, <2>4 DEF s
<1> QED BY <1>3, <1>4

LEMMA OnceAtStep ==
  ASSUME WellFormed(benchmark), NEW r \in Ranks, NEW a, NEW c, NEW o,
         OnceAt(benchmark, r, a), Goes(benchmark, r, a, c, o), c # Over
  PROVE  OnceAt(benchmark, r, c)
<1>1. CASE Within(benchmark, r, a, c)
  BY <1>1 DEF Within, OnceAt, SectionIn
<1>2. CASE Crosses(benchmark, r, a, c)
  BY <1>2 DEF Crosses, OnceAt, SectionIn
<1> QED BY <1>1, <1>2 DEF Goes, Finishes

LEMMA UsageIsOnce ==
  ASSUME WellFormed(benchmark), NEW r \in Ranks
  PROVE  ~SectionIn(benchmark, r, Usage).loop /\ Usage.iter = 0
<1>1. Usage.size = benchmark.sizes + 1 /\ Usage.seg = 1 /\ Usage.iter = 0 /\ benchmark.sizes \in Nat
  BY CodeIsSections DEF Usage, WellFormed
<1> QED BY <1>1 DEF SectionIn, Sections, Once

LEMMA IterationInvariance == WinSpec => []IterationInv
<1>1. WinInit => IterationInv
  <2> SUFFICES ASSUME WinInit, WellFormed(benchmark), NEW r \in Ranks
               PROVE  OnceAt(benchmark, r, at[r])
    BY DEF IterationInv
  <2>1. at[r].iter = 0
    BY DEF WinInit, Init
  <2> QED BY <2>1 DEF OnceAt
<1>2. PlaceInv /\ IterationInv /\ [WinNext]_<<vars, windows>> => IterationInv'
  <2> SUFFICES ASSUME PlaceInv, IterationInv, [WinNext]_<<vars, windows>>,
                      WellFormed(benchmark)', NEW q \in Ranks', at'[q] # Over'
               PROVE  OnceAt(benchmark, q, at[q])'
    BY DEF IterationInv
  <2>1. launch' = launch
    BY LaunchStays
  <2>2. benchmark' = benchmark /\ Ranks' = Ranks /\ Over' = Over
    BY <2>1, SameLaunch
  <2>3. WellFormed(benchmark) /\ Placed /\ q \in Ranks /\ at'[q] # Over
    BY <2>2 DEF PlaceInv
  <2>4. at[q] # Over => OnceAt(benchmark, q, at[q])
    BY <2>3 DEF IterationInv
  <2>5. CASE at'[q] = at[q]
    BY <2>2, <2>3, <2>4, <2>5 DEF OnceAt, SectionIn
  <2>6. CASE \E r \in Ranks : Mails(r)
    <3>1. PICK r \in Ranks : Mails(r)
      BY <2>6
    <3>2. CASE q # r
      <4>1. at'[q] = at[q]
        BY <2>3, <3>1, <3>2, ActsAt DEF Mails
      <4> QED BY <2>5, <4>1
    <3>3. CASE q = r
      <4>1. at[q] # Over
            /\ (\/ at'[q] = Usage \/ at'[q] = at[q]
                \/ Goes(benchmark, q, at[q], at'[q], options'[q]))
        BY <2>3, <3>1, <3>3, ActsAt DEF Mails
      <4>2. CASE at'[q] = Usage
        BY <2>2, <2>3, <4>2, UsageIsOnce DEF OnceAt, SectionIn
      <4>3. CASE Goes(benchmark, q, at[q], at'[q], options'[q])
        <5>1. OnceAt(benchmark, q, at'[q])
          BY <2>3, <2>4, <4>1, <4>3, OnceAtStep
        <5> QED BY <2>2, <5>1 DEF OnceAt, SectionIn
      <4> QED BY <2>5, <4>1, <4>2, <4>3
    <3> QED BY <3>2, <3>3
  <2>7. CASE (\E p, r \in Ranks : \E tag : Meets(p, r, tag)) \/ Halts
    BY <2>5, <2>7 DEF Meets, Halts
  <2> QED BY <2>3, <2>6, <2>7, StepMails
<1> QED BY <1>1, <1>2, PlaceInvariance, PTL DEF WinSpec

\* Still so after the statement at a.
StillUnset(b, r, a) == a.seg = 1 /\ \A n \in 1 .. a.pos : OpsIn(b, r, a)[n].op # "options"

LEMMA OptionsOfSize ==
  ASSUME SetsOptions(benchmark), WellFormed(benchmark), NEW r \in Ranks,
         NEW k \in 1 .. benchmark.sizes
  PROVE  LET first == Sections(benchmark, r, k)[1]
         IN  /\ ~first.loop
             /\ \E u \in 1 .. Len(first.ops) :
                  /\ first.ops[u] = SetIfLarge(k) /\ ~first.ops[u].at_skip
                  /\ first.ops[u].op = "options"
                  /\ \A n \in 1 .. Len(first.ops) : first.ops[n].op = "options" => n = u
<1>1. r \in 0 .. benchmark.np - 1
  BY DEF Ranks
<1>2. SetIfLarge(k).op = "options" /\ ~SetIfLarge(k).at_skip
  BY DEF SetIfLarge, Assign, Do
<1>3. PICK first : first = Sections(benchmark, r, k)[1]
  OBVIOUS
<1>4. ~first.loop /\ \E u \in 1 .. Len(first.ops) :
                       /\ first.ops[u] = SetIfLarge(k)
                       /\ \A n \in 1 .. Len(first.ops) : first.ops[n].op = "options" => n = u
  BY <1>1, <1>3 DEF SetsOptions
<1> QED BY <1>2, <1>3, <1>4

\* Where a statement sets options, and where a loop can be.
LEMMA OptionsWhere ==
  ASSUME SetsOptions(benchmark), WellFormed(benchmark), NEW r \in Ranks,
         NEW a, IsSpot(benchmark, r, a)
  PROVE  /\ OpsIn(benchmark, r, a)[a.pos].op = "options" =>
              a.size \in 1 .. benchmark.sizes /\ a.seg = 1
         /\ SectionIn(benchmark, r, a).loop => a.size \in 1 .. benchmark.sizes /\ a.seg # 1
<1>1. /\ a.size \in 0 .. benchmark.sizes + 1 /\ benchmark.sizes \in Nat
      /\ a.seg \in 1 .. Len(Sections(benchmark, r, a.size))
      /\ Len(Sections(benchmark, r, a.size)) \in Nat
      /\ a.pos \in 1 .. Len(OpsIn(benchmark, r, a))
  BY SpotHasOp
<1>2. OpsIn(benchmark, r, a)[a.pos].op = "options" =>
        a.size \in 1 .. benchmark.sizes /\ a.seg = 1
  <2>1. PICK k \in 0 .. benchmark.sizes + 1 : k = a.size
    BY <1>1
  <2>2. PICK s \in 1 .. Len(Sections(benchmark, r, k)) : s = a.seg
    BY <1>1, <2>1
  <2>3. OpsIn(benchmark, r, a) = Sections(benchmark, r, k)[s].ops
    BY <2>1, <2>2 DEF OpsIn, SectionIn
  <2>4. r \in 0 .. benchmark.np - 1 /\ a.pos \in 1 .. Len(Sections(benchmark, r, k)[s].ops)
    BY <1>1, <2>3 DEF Ranks
  <2>5. Sections(benchmark, r, k)[s].ops[a.pos].op = "options"
          => k \in 1 .. benchmark.sizes /\ s = 1
    BY <2>4, Zenon DEF SetsOptions
  <2> QED BY <2>1, <2>2, <2>3, <2>5
<1>3. ASSUME SectionIn(benchmark, r, a).loop
      PROVE  a.size \in 1 .. benchmark.sizes /\ a.seg # 1
  <2>1. a.size # 0
    <3> SUFFICES ASSUME a.size = 0 PROVE FALSE
      OBVIOUS
    <3>1. Sections(benchmark, r, a.size) = <<Once(<<Check>> \o benchmark.start)>>
      BY DEF Sections
    <3>2. PICK n : n = Len(Sections(benchmark, r, a.size))
      OBVIOUS
    <3>3. n = 1
      BY <3>1, <3>2
    <3>4. ~Sections(benchmark, r, a.size)[1].loop
      BY <3>1 DEF Once
    <3>5. a.seg \in 1 .. n
      BY <1>1, <3>2
    <3>6. a.seg = 1
      BY <3>3, <3>5
    <3>7. SectionIn(benchmark, r, a) = Sections(benchmark, r, a.size)[1]
      BY <3>6 DEF SectionIn
    <3> QED BY <1>3, <3>4, <3>7
  <2>2. a.size # benchmark.sizes + 1
    <3> SUFFICES ASSUME a.size = benchmark.sizes + 1 PROVE FALSE
      OBVIOUS
    <3>1. Sections(benchmark, r, a.size) = <<Once(benchmark.finish \o <<Finalize>>)>>
      BY <1>1 DEF Sections
    <3>2. PICK n : n = Len(Sections(benchmark, r, a.size))
      OBVIOUS
    <3>3. n = 1
      BY <3>1, <3>2
    <3>4. ~Sections(benchmark, r, a.size)[1].loop
      BY <3>1 DEF Once
    <3>5. a.seg \in 1 .. n
      BY <1>1, <3>2
    <3>6. a.seg = 1
      BY <3>3, <3>5
    <3>7. SectionIn(benchmark, r, a) = Sections(benchmark, r, a.size)[1]
      BY <3>6 DEF SectionIn
    <3> QED BY <1>3, <3>4, <3>7
  <2>3. a.size \in 1 .. benchmark.sizes
    BY <1>1, <2>1, <2>2
  <2>4. a.seg # 1
    BY <1>3, <2>3, OptionsOfSize DEF SectionIn
  <2> QED BY <2>3, <2>4
<1> QED BY <1>2, <1>3

LEMMA OptionsAfter ==
  ASSUME SetsOptions(benchmark), WellFormed(benchmark), NEW r \in Ranks,
         NEW a, IsSpot(benchmark, r, a), NEW o, OptionsAt(benchmark, r, a, o), NEW d,
         LET op == OpsIn(benchmark, r, a)[a.pos]
         IN  d = IF op.op = "options"
                 THEN [loop |-> IF op.set.loop = Keep THEN o.loop ELSE op.set.loop,
                       skip |-> IF op.set.skip = Keep THEN o.skip ELSE op.set.skip]
                 ELSE o
  PROVE  /\ a.size = 0 => d = OptionsFrom(0)
         /\ a.size \in 1 .. benchmark.sizes =>
              d = OptionsFrom(IF StillUnset(benchmark, r, a) THEN a.size - 1 ELSE a.size)
         /\ SectionIn(benchmark, r, a).loop => d = o
<1>1. /\ a.size \in 0 .. benchmark.sizes + 1 /\ benchmark.sizes \in Nat
      /\ a.pos \in 1 .. Len(OpsIn(benchmark, r, a)) /\ Len(OpsIn(benchmark, r, a)) \in Nat
  BY SpotHasOp
<1>2. CASE OpsIn(benchmark, r, a)[a.pos].op # "options"
  <2>1. d = o
    BY <1>2
  <2>2. StillUnset(benchmark, r, a) <=> Unset(benchmark, r, a)
    <3>1. ASSUME Unset(benchmark, r, a) PROVE StillUnset(benchmark, r, a)
      <4>1. \A n \in 1 .. a.pos : n \in 1 .. a.pos - 1 \/ n = a.pos
        BY <1>1
      <4> QED BY <1>2, <3>1, <4>1 DEF Unset, StillUnset
    <3>2. \A n \in 1 .. a.pos - 1 : n \in 1 .. a.pos
      BY <1>1
    <3> QED BY <3>1, <3>2 DEF Unset, StillUnset
  <2> QED BY <2>1, <2>2 DEF OptionsAt
<1>3. CASE OpsIn(benchmark, r, a)[a.pos].op = "options"
  <2>1. a.size \in 1 .. benchmark.sizes /\ a.seg = 1 /\ ~SectionIn(benchmark, r, a).loop
    BY <1>3, OptionsWhere
  <2>2. OpsIn(benchmark, r, a) = Sections(benchmark, r, a.size)[1].ops
    BY <2>1 DEF OpsIn, SectionIn
  <2>3. PICK u \in 1 .. Len(OpsIn(benchmark, r, a)) :
          /\ OpsIn(benchmark, r, a)[u] = SetIfLarge(a.size)
          /\ \A n \in 1 .. Len(OpsIn(benchmark, r, a)) :
               OpsIn(benchmark, r, a)[n].op = "options" => n = u
    BY <2>1, <2>2, OptionsOfSize
  <2>4. a.pos = u
    BY <1>1, <1>3, <2>3
  <2>5. Unset(benchmark, r, a)
    <3>1. \A n \in 1 .. a.pos - 1 : n \in 1 .. Len(OpsIn(benchmark, r, a)) /\ n # u
      BY <1>1, <2>4
    <3> QED BY <2>1, <2>3, <3>1 DEF Unset
  <2>6. ~StillUnset(benchmark, r, a)
    <3>1. a.pos \in 1 .. a.pos
      BY <1>1
    <3> QED BY <1>3, <3>1 DEF StillUnset
  <2>7. o = OptionsFrom(a.size - 1)
    BY <2>1, <2>5 DEF OptionsAt
  <2>8. PICK s : s = SetIfLarge(a.size).set
    OBVIOUS
  <2>9. d = [loop |-> IF s.loop = Keep THEN o.loop ELSE s.loop,
             skip |-> IF s.skip = Keep THEN o.skip ELSE s.skip]
    BY <1>3, <2>3, <2>4, <2>8
  <2>10. a.size \in Nat \ {0}
    BY <1>1, <2>1
  <2>11. d = OptionsFrom(a.size)
    BY <2>7, <2>8, <2>9, <2>10, SettingIs
  <2> QED BY <2>1, <2>6, <2>11
<1> QED BY <1>2, <1>3

LEMMA OptionsMove ==
  ASSUME SetsOptions(benchmark), WellFormed(benchmark), NEW r \in Ranks,
         NEW a, IsSpot(benchmark, r, a), NEW o, OptionsAt(benchmark, r, a, o), NEW d,
         LET op == OpsIn(benchmark, r, a)[a.pos]
         IN  d = IF op.op = "options"
                 THEN [loop |-> IF op.set.loop = Keep THEN o.loop ELSE op.set.loop,
                       skip |-> IF op.set.skip = Keep THEN o.skip ELSE op.set.skip]
                 ELSE o,
         NEW c, Goes(benchmark, r, a, c, d), c # Over
  PROVE  OptionsAt(benchmark, r, c, d)
<1> DEFINE b == benchmark
<1>1. /\ a.size = 0 => d = OptionsFrom(0)
      /\ a.size \in 1 .. b.sizes =>
           d = OptionsFrom(IF StillUnset(b, r, a) THEN a.size - 1 ELSE a.size)
      /\ SectionIn(b, r, a).loop => d = o
  BY OptionsAfter
<1>2. /\ a.size \in 0 .. b.sizes + 1 /\ b.sizes \in Nat /\ a.seg \in Nat \ {0}
      /\ a.pos \in 1 .. Len(OpsIn(b, r, a)) /\ Len(OpsIn(b, r, a)) \in Nat
  <2>1. /\ a.size \in 0 .. b.sizes + 1 /\ b.sizes \in Nat
        /\ a.seg \in 1 .. Len(Sections(b, r, a.size))
        /\ Len(Sections(b, r, a.size)) \in Nat
        /\ a.pos \in 1 .. Len(OpsIn(b, r, a)) /\ Len(OpsIn(b, r, a)) \in Nat
    BY SpotHasOp
  <2> QED BY <2>1
<1>3. IsSpot(b, r, c) /\ (Within(b, r, a, c) \/ (Crosses(b, r, a, c) /\ (c.iter = 0 \/ c.iter < Trips(d))))
  BY DEF Goes, Finishes, Arrives
<1>4. /\ c.size \in 0 .. b.sizes + 1
      /\ c.pos \in 1 .. Len(OpsIn(b, r, c)) /\ Len(OpsIn(b, r, c)) \in Nat
  BY <1>3, SpotHasOp
\* In the first section of a size the options are set by a statement that is not left out.
<1>5. ASSUME a.seg = 1, a.size \in 1 .. b.sizes, Crosses(b, r, a, c)
      PROVE  ~StillUnset(b, r, a)
  <2>1. OpsIn(b, r, a) = Sections(b, r, a.size)[1].ops
    BY <1>5 DEF OpsIn, SectionIn
  <2>2. PICK u \in 1 .. Len(OpsIn(b, r, a)) :
          OpsIn(b, r, a)[u].op = "options" /\ ~OpsIn(b, r, a)[u].at_skip
    BY <1>5, <2>1, OptionsOfSize
  <2>3. u \notin a.pos + 1 .. Len(OpsIn(b, r, a))
    BY <1>5, <2>2 DEF Crosses, Ends
  <2>4. u \in 1 .. a.pos
    BY <1>2, <2>3
  <2> QED BY <2>2, <2>4 DEF StillUnset
<1>6. ASSUME NEW n \in 1 .. c.pos - 1, c.seg = 1, c.size \in 1 .. b.sizes,
             OpsIn(b, r, c)[n].at_skip
      PROVE  OpsIn(b, r, c)[n].op # "options"
  <2>1. OpsIn(b, r, c) = Sections(b, r, c.size)[1].ops
    BY <1>6 DEF OpsIn, SectionIn
  <2>2. PICK u \in 1 .. Len(OpsIn(b, r, c)) :
          /\ ~OpsIn(b, r, c)[u].at_skip
          /\ \A j \in 1 .. Len(OpsIn(b, r, c)) : OpsIn(b, r, c)[j].op = "options" => j = u
    BY <1>6, <2>1, OptionsOfSize
  <2>3. n \in 1 .. Len(OpsIn(b, r, c))
    BY <1>4
  <2> QED BY <1>6, <2>2, <2>3
<1>7. CASE Within(b, r, a, c)
  <2>1. /\ c.size = a.size /\ c.seg = a.seg /\ c.iter = a.iter /\ a.pos < c.pos
        /\ \A n \in a.pos + 1 .. c.pos - 1 : OpsIn(b, r, a)[n].at_skip
    BY <1>7 DEF Within, Skips
  <2>2. SectionIn(b, r, c) = SectionIn(b, r, a) /\ OpsIn(b, r, c) = OpsIn(b, r, a)
    BY <2>1 DEF SectionIn, OpsIn
  <2>3. ASSUME c.size \in 1 .. b.sizes PROVE Unset(b, r, c) <=> StillUnset(b, r, a)
    <3>1. \A n \in 1 .. a.pos : n \in 1 .. c.pos - 1
      BY <1>2, <1>4, <2>1
    <3>2. ASSUME StillUnset(b, r, a) PROVE Unset(b, r, c)
      <4>1. c.seg = 1
        BY <2>1, <3>2 DEF StillUnset
      <4>2. ASSUME NEW n \in 1 .. c.pos - 1 PROVE OpsIn(b, r, c)[n].op # "options"
        <5>1. n \in 1 .. a.pos \/ n \in a.pos + 1 .. c.pos - 1
          BY <1>2, <1>4
        <5>2. CASE n \in 1 .. a.pos
          BY <2>2, <3>2, <5>2 DEF StillUnset
        <5>3. CASE n \in a.pos + 1 .. c.pos - 1
          BY <1>6, <2>1, <2>2, <2>3, <4>1, <5>3
        <5> QED BY <5>1, <5>2, <5>3
      <4> QED BY <4>1, <4>2 DEF Unset
    <3> QED BY <2>1, <2>2, <3>1, <3>2 DEF Unset, StillUnset
  <2>4. SectionIn(b, r, c).loop => c.iter < Trips(d)
    BY <1>1, <2>1, <2>2 DEF OptionsAt
  <2> QED BY <1>1, <2>1, <2>3, <2>4 DEF OptionsAt
<1>8. CASE Crosses(b, r, a, c) /\ (c.iter = 0 \/ c.iter < Trips(d))
  <2>1. \/ c.size = a.size /\ c.seg = a.seg /\ SectionIn(b, r, a).loop
        \/ c.size = a.size /\ c.seg = a.seg + 1 /\ c.iter = 0
        \/ c.size = a.size + 1 /\ c.seg = 1 /\ c.iter = 0
    BY <1>8 DEF Crosses
  <2>2. c.size = 0 => d = OptionsFrom(0)
    BY <1>1, <1>2, <2>1
  <2>3. ASSUME c.size \in 1 .. b.sizes
        PROVE  d = OptionsFrom(IF Unset(b, r, c) THEN c.size - 1 ELSE c.size)
    <3>1. CASE c.size = a.size
      <4>1. c.seg # 1
        <5>1. CASE c.seg = a.seg /\ SectionIn(b, r, a).loop
          BY <5>1, OptionsWhere
        <5>2. CASE c.seg = a.seg + 1
          BY <1>2, <5>2
        <5> QED BY <1>2, <2>1, <3>1, <5>1, <5>2
      <4>2. ~Unset(b, r, c)
        BY <4>1 DEF Unset
      <4>3. ~StillUnset(b, r, a)
        BY <1>5, <1>8, <2>3, <3>1 DEF StillUnset
      <4> QED BY <1>1, <2>3, <3>1, <4>2, <4>3
    <3>2. CASE c.size = a.size + 1 /\ c.seg = 1
      <4>1. d = OptionsFrom(a.size)
        <5>1. CASE a.size = 0
          BY <1>1, <5>1
        <5>2. CASE a.size # 0
          <6>1. a.size \in 1 .. b.sizes
            BY <1>2, <2>3, <3>2, <5>2
          <6>2. ~StillUnset(b, r, a)
            BY <1>5, <1>8, <6>1 DEF StillUnset
          <6> QED BY <1>1, <6>1, <6>2
        <5> QED BY <5>1, <5>2
      <4>2. \A n \in 1 .. c.pos - 1 : OpsIn(b, r, c)[n].at_skip
        BY <1>8 DEF Crosses, Begins
      <4>3. Unset(b, r, c)
        BY <1>6, <2>3, <3>2, <4>2 DEF Unset
      <4>4. c.size - 1 = a.size
        BY <1>2, <3>2
      <4> QED BY <4>1, <4>3, <4>4
    <3> QED BY <2>1, <3>1, <3>2
  <2>4. ASSUME SectionIn(b, r, c).loop PROVE c.iter < Trips(d)
    <3>1. c.size \in 1 .. b.sizes
      BY <1>3, <2>4, OptionsWhere
    <3>2. \E k \in Nat : d = OptionsFrom(k)
      <4>1. c.size \in Nat /\ c.size - 1 \in Nat
        BY <1>2, <3>1
      <4> QED BY <2>3, <3>1, <4>1
    <3>3. Trips(d) \in Nat \ {0}
      BY <3>2, OptionsFromIs
    <3>4. 0 < Trips(d)
      BY <3>3
    <3> QED BY <1>8, <3>4
  <2> QED BY <2>2, <2>3, <2>4 DEF OptionsAt
<1> QED BY <1>3, <1>7, <1>8

LEMMA OptionsInvariance == WinSpec => []OptionsInv
<1>1. WinInit => OptionsInv
  <2> SUFFICES ASSUME WinInit, WellFormed(benchmark), NEW r \in Ranks
               PROVE  OptionsAt(benchmark, r, at[r], options[r])
    BY DEF OptionsInv
  <2>1. /\ at[r].size = 0 /\ at[r].seg = 1
        /\ options[r] = [loop |-> Options.loop, skip |-> Options.skip]
    BY DEF WinInit, Init
  <2>2. options[r] = OptionsFrom(0) /\ 0 \notin 1 .. benchmark.sizes
    BY <2>1, OptionsFromIs
  <2>3. ~SectionIn(benchmark, r, at[r]).loop
    BY <2>1 DEF SectionIn, Sections, Once
  <2> QED BY <2>1, <2>2, <2>3 DEF OptionsAt
<1>2. PlaceInv /\ OptionsInv /\ [WinNext]_<<vars, windows>> => OptionsInv'
  <2> SUFFICES ASSUME PlaceInv, OptionsInv, [WinNext]_<<vars, windows>>,
                      WellFormed(benchmark)', SetsOptions(benchmark)', NEW q \in Ranks',
                      at'[q] # Over'
               PROVE  OptionsAt(benchmark', q, at'[q], options'[q])
    BY DEF OptionsInv, OptionsAt, Unset, OpsIn, SectionIn, Sections
  <2>1. launch' = launch
    BY LaunchStays
  <2>2. benchmark' = benchmark /\ Ranks' = Ranks /\ Over' = Over
    BY <2>1, SameLaunch
  <2>3. WellFormed(benchmark) /\ SetsOptions(benchmark) /\ Placed /\ q \in Ranks /\ at'[q] # Over
    BY <2>2 DEF PlaceInv
  <2>4. at[q] # Over => OptionsAt(benchmark, q, at[q], options[q])
    BY <2>3 DEF OptionsInv
  <2>5. CASE at'[q] = at[q] /\ options'[q] = options[q]
    BY <2>2, <2>3, <2>4, <2>5
  <2>6. CASE \E r \in Ranks : Mails(r)
    <3>1. PICK r \in Ranks : Mails(r)
      BY <2>6
    <3>2. CASE q # r
      BY <2>3, <2>5, <3>1, <3>2, ActsAt DEF Mails, Acts, Chooses
    <3>3. CASE q = r
      <4>1. /\ at[q] # Over /\ IsSpot(benchmark, q, at[q])
            /\ Op(q) = OpsIn(benchmark, q, at[q])[at[q].pos]
            /\ \/ at'[q] = Usage
               \/ at'[q] = at[q] /\ Op(q).op = "call"
               \/ Goes(benchmark, q, at[q], at'[q], options'[q])
        BY <2>3, <3>1, <3>3, ActsAt DEF Mails
      <4>2. options'[q] = IF Op(q).op = "options"
                          THEN [loop |-> IF Op(q).set.loop = Keep THEN options[q].loop
                                         ELSE Op(q).set.loop,
                                skip |-> IF Op(q).set.skip = Keep THEN options[q].skip
                                         ELSE Op(q).set.skip]
                          ELSE options[q]
        BY <3>1, <3>3 DEF Mails, Acts, Chooses
      <4>3. CASE at'[q] = Usage
        <5>1. Usage.size = benchmark.sizes + 1 /\ benchmark.sizes \in Nat
          BY <2>3, UsageIsSpot DEF WellFormed
        <5>2. ~SectionIn(benchmark, q, Usage).loop
          BY <2>3, UsageIsOnce
        <5>3. Usage.size # 0 /\ Usage.size \notin 1 .. benchmark.sizes
          BY <5>1
        <5> QED BY <2>2, <4>3, <5>2, <5>3 DEF OptionsAt
      <4>4. CASE at'[q] = at[q] /\ Op(q).op = "call"
        BY <2>5, <4>2, <4>4
      <4>5. CASE Goes(benchmark, q, at[q], at'[q], options'[q])
        <5>1. PICK a : a = at[q]
          OBVIOUS
        <5>2. PICK d : d = options'[q]
          OBVIOUS
        <5>3. PICK op : op = Op(q)
          OBVIOUS
        <5>4. /\ IsSpot(benchmark, q, a) /\ OptionsAt(benchmark, q, a, options[q])
              /\ Goes(benchmark, q, a, at'[q], d) /\ op = OpsIn(benchmark, q, a)[a.pos]
          BY <2>4, <4>1, <4>5, <5>1, <5>2, <5>3
        <5>5. d = IF op.op = "options"
                  THEN [loop |-> IF op.set.loop = Keep THEN options[q].loop ELSE op.set.loop,
                        skip |-> IF op.set.skip = Keep THEN options[q].skip ELSE op.set.skip]
                  ELSE options[q]
          BY <4>2, <5>2, <5>3
        <5>6. OptionsAt(benchmark, q, at'[q], d)
          BY <2>3, <5>4, <5>5, OptionsMove
        <5> QED BY <2>2, <5>2, <5>6
      <4> QED BY <4>1, <4>3, <4>4, <4>5
    <3> QED BY <3>2, <3>3
  <2>7. CASE (\E p, r \in Ranks : \E tag : Meets(p, r, tag)) \/ Halts
    BY <2>5, <2>7 DEF Meets, Halts
  <2> QED BY <2>3, <2>6, <2>7, StepMails
<1> QED BY <1>1, <1>2, PlaceInvariance, PTL DEF WinSpec

-----------------------------------------------------------------------------
(***************************************************************************)
(* Programs whose messages are all exchanged in section m of the sizes: if *)
(* one rank sends on a channel and the other one receives from it, then in *)
(* every iteration both do so equally often, with as much data.            *)
(***************************************************************************)
Marked(b, m, r, k, op, peer, tag) ==
  {n \in 1 .. Len(Sections(b, r, k)[m].ops) :
     LET o == Sections(b, r, k)[m].ops[n]
     IN  o.op = op /\ o.peer = peer /\ o.tag = tag}

Matches(b, m, p, q, tag) ==
  \A k \in 1 .. b.sizes :
    /\ Cardinality(Marked(b, m, p, k, "isend", q, tag)) =
         Cardinality(Marked(b, m, q, k, "irecv", p, tag))
    /\ \A k2 \in 1 .. b.sizes : \A n \in Marked(b, m, p, k, "isend", q, tag) :
         \A n2 \in Marked(b, m, q, k2, "irecv", p, tag) :
           k = k2 => Sections(b, p, k)[m].ops[n].kind = Sections(b, q, k2)[m].ops[n2].kind

Connects(b, m, p, q, tag) ==
  /\ \E k \in 1 .. b.sizes : Marked(b, m, p, k, "isend", q, tag) # {}
  /\ \E k \in 1 .. b.sizes : Marked(b, m, q, k, "irecv", p, tag) # {}

Mailing == {"isend", "irecv", "waitrecvs"}

Messaging(b, m) ==
  /\ m \in Nat \ {0}
  /\ \A r \in 0 .. b.np - 1 : \A k \in 0 .. b.sizes + 1 : \A s \in 1 .. Len(Sections(b, r, k)) :
       \A n \in 1 .. Len(Sections(b, r, k)[s].ops) :
         LET o == Sections(b, r, k)[s].ops[n]
         IN  o.op \in Mailing => k \in 1 .. b.sizes /\ s = m /\ ~o.at_skip
  /\ \A r \in 0 .. b.np - 1 : \A k \in 1 .. b.sizes :
       /\ m \in 1 .. Len(Sections(b, r, k))
       /\ Sections(b, r, k)[m].loop => SetsOptions(b)
       /\ Sections(b, r, k)[m].loop <=> Sections(b, 0, k)[m].loop
  /\ \A p, q \in 0 .. b.np - 1 : \A tag : Connects(b, m, p, q, tag) => Matches(b, m, p, q, tag)

\* How often the section runs for size k.
Rounds(b, m, k) == IF Sections(b, 0, k)[m].loop THEN Trips(OptionsFrom(k)) ELSE 1

LEMMA RoundsIs ==
  ASSUME NEW b, NEW m, NEW k \in Nat
  PROVE  Rounds(b, m, k) \in Nat \ {0}
BY OptionsFromIs DEF Rounds

\* A statement of the section is one on the way of the rank.
LEMMA MailSpot ==
  ASSUME WellFormed(benchmark), NEW m, Messaging(benchmark, m), NEW r \in Ranks,
         NEW k \in 1 .. benchmark.sizes, NEW i \in Nat,
         NEW n \in 1 .. Len(Sections(benchmark, r, k)[m].ops)
  PROVE  LET x == Place(k, m, i, n)
         IN  /\ x.size = k /\ x.seg = m /\ x.iter = i /\ x.pos = n
             /\ IsSpot(benchmark, r, x)
             /\ SectionIn(benchmark, r, x) = Sections(benchmark, r, k)[m]
             /\ OpsIn(benchmark, r, x) = Sections(benchmark, r, k)[m].ops
<1>1. PICK x : x = Place(k, m, i, n)
  OBVIOUS
<1>2. x.size = k /\ x.seg = m /\ x.iter = i /\ x.pos = n
  BY <1>1 DEF Place
<1>3. SectionIn(benchmark, r, x) = Sections(benchmark, r, k)[m]
  BY <1>2 DEF SectionIn
<1>4. OpsIn(benchmark, r, x) = Sections(benchmark, r, k)[m].ops
  BY <1>3 DEF OpsIn
<1>5. m \in 1 .. Len(Sections(benchmark, r, k)) /\ k \in 0 .. benchmark.sizes + 1
  <2>1. r \in 0 .. benchmark.np - 1
    BY DEF Ranks
  <2>2. m \in 1 .. Len(Sections(benchmark, r, k))
    BY <2>1 DEF Messaging
  <2>3. benchmark.sizes \in Nat
    BY DEF WellFormed
  <2> QED BY <2>2, <2>3
<1>6. IsSpot(benchmark, r, x)
  BY <1>1, <1>2, <1>4, <1>5 DEF IsSpot
<1> QED BY <1>1, <1>2, <1>3, <1>4, <1>6

\* Where a rank is that sends or receives.
LEMMA MailsWhere ==
  ASSUME WellFormed(benchmark), NEW m, Messaging(benchmark, m), NEW r \in Ranks,
         NEW a, IsSpot(benchmark, r, a), OpsIn(benchmark, r, a)[a.pos].op \in Mailing
  PROVE  /\ a.size \in 1 .. benchmark.sizes /\ a.seg = m
         /\ ~OpsIn(benchmark, r, a)[a.pos].at_skip
         /\ OpsIn(benchmark, r, a) = Sections(benchmark, r, a.size)[m].ops
         /\ SectionIn(benchmark, r, a) = Sections(benchmark, r, a.size)[m]
         /\ a.pos \in 1 .. Len(Sections(benchmark, r, a.size)[m].ops)
<1>1. /\ a.size \in 0 .. benchmark.sizes + 1
      /\ a.seg \in 1 .. Len(Sections(benchmark, r, a.size))
      /\ a.pos \in 1 .. Len(OpsIn(benchmark, r, a))
  BY SpotHasOp
<1>2. PICK k \in 0 .. benchmark.sizes + 1 : k = a.size
  BY <1>1
<1>3. PICK s \in 1 .. Len(Sections(benchmark, r, k)) : s = a.seg
  BY <1>1, <1>2
<1>4. OpsIn(benchmark, r, a) = Sections(benchmark, r, k)[s].ops
      /\ SectionIn(benchmark, r, a) = Sections(benchmark, r, k)[s]
  BY <1>2, <1>3 DEF OpsIn, SectionIn
<1>5. PICK n \in 1 .. Len(Sections(benchmark, r, k)[s].ops) : n = a.pos
  BY <1>1, <1>4
<1>6. r \in 0 .. benchmark.np - 1
  BY DEF Ranks
<1>7. LET o == Sections(benchmark, r, k)[s].ops[n]
      IN  o.op \in Mailing => k \in 1 .. benchmark.sizes /\ s = m /\ ~o.at_skip
  BY <1>6, Zenon DEF Messaging
<1> QED BY <1>2, <1>3, <1>4, <1>5, <1>7

\* Where a rank knows its options, it knows how often the section runs.
LEMMA RoundsHere ==
  ASSUME WellFormed(benchmark), IterationInv, OptionsInv, NEW m, Messaging(benchmark, m),
         NEW r \in Ranks, at[r] # Over, at[r].size \in 1 .. benchmark.sizes, at[r].seg = m,
         IsSpot(benchmark, r, at[r])
  PROVE  /\ at[r].iter \in 0 .. Rounds(benchmark, m, at[r].size) - 1
         /\ SectionIn(benchmark, r, at[r]).loop =>
              /\ Rounds(benchmark, m, at[r].size) = Trips(options[r])
              /\ OpsIn(benchmark, r, at[r])[at[r].pos].op # "options"
<1> DEFINE a == at[r]
           k == at[r].size
<1>1. r \in 0 .. benchmark.np - 1 /\ benchmark.sizes \in Nat /\ k \in Nat /\ a.iter \in Nat
  BY SpotNumbers DEF Ranks, WellFormed
<1>2. SectionIn(benchmark, r, a) = Sections(benchmark, r, k)[m]
  BY DEF SectionIn
<1>3. /\ Sections(benchmark, r, k)[m].loop => SetsOptions(benchmark)
      /\ Sections(benchmark, r, k)[m].loop <=> Sections(benchmark, 0, k)[m].loop
  BY <1>1 DEF Messaging
<1>4. Rounds(benchmark, m, k) \in Nat \ {0}
  BY <1>1, RoundsIs
<1>5. CASE SectionIn(benchmark, r, a).loop
  <2>1. SetsOptions(benchmark) /\ Rounds(benchmark, m, k) = Trips(OptionsFrom(k))
    BY <1>2, <1>3, <1>5 DEF Rounds
  <2>2. OptionsAt(benchmark, r, a, options[r])
    BY <2>1 DEF OptionsInv
  <2>3. /\ a.seg # 1
        /\ OpsIn(benchmark, r, a)[a.pos].op # "options"
    BY <1>5, <2>1, OptionsWhere
  <2>4. ~Unset(benchmark, r, a)
    BY <2>3 DEF Unset
  <2>5. options[r] = OptionsFrom(k) /\ a.iter < Trips(options[r])
    BY <1>5, <2>2, <2>4 DEF OptionsAt
  <2>6. a.iter < Rounds(benchmark, m, k)
    BY <2>1, <2>5
  <2>7. a.iter \in 0 .. Rounds(benchmark, m, k) - 1
    BY <1>1, <1>4, <2>6
  <2> QED BY <2>1, <2>3, <2>5, <2>7
<1>6. CASE ~SectionIn(benchmark, r, a).loop
  <2>1. a.iter = 0
    BY <1>6 DEF IterationInv, OnceAt
  <2> QED BY <1>4, <1>6, <2>1
<1> QED BY <1>5, <1>6

\* What a step leaves behind.
LEMMA LeavesBehind ==
  ASSUME WellFormed(benchmark), Placed, IterationInv, OptionsInv, Usable,
         NEW m, Messaging(benchmark, m), NEW r \in Ranks, Mails(r),
         NEW k \in 1 .. benchmark.sizes, NEW i \in 0 .. Rounds(benchmark, m, k) - 1,
         NEW n \in 1 .. Len(Sections(benchmark, r, k)[m].ops),
         Sections(benchmark, r, k)[m].ops[n].op \in Mailing
  PROVE  Earlier(Place(k, m, i, n), at'[r]) <=>
           Earlier(Place(k, m, i, n), at[r]) \/ Place(k, m, i, n) = at[r]
<1>1. PICK x : x = Place(k, m, i, n)
  OBVIOUS
<1>2. r \in 0 .. benchmark.np - 1 /\ benchmark.sizes \in Nat /\ k \in Nat
  BY DEF Ranks, WellFormed
<1>3. Rounds(benchmark, m, k) \in Nat \ {0}
  BY <1>2, RoundsIs
<1>4. i \in Nat /\ i < Rounds(benchmark, m, k)
  BY <1>3
<1>5. /\ x.size = k /\ x.seg = m /\ x.iter = i /\ x.pos = n
      /\ IsSpot(benchmark, r, x)
      /\ SectionIn(benchmark, r, x) = Sections(benchmark, r, k)[m]
      /\ OpsIn(benchmark, r, x) = Sections(benchmark, r, k)[m].ops
  BY <1>1, <1>4, MailSpot
<1>6. ~OpsIn(benchmark, r, x)[x.pos].at_skip /\ OpsIn(benchmark, r, x)[x.pos].op \in Mailing
  BY <1>5, MailsWhere
<1>7. /\ at[r] # Over /\ IsSpot(benchmark, r, at[r])
      /\ Op(r) = OpsIn(benchmark, r, at[r])[at[r].pos]
  BY ActsAt DEF Mails
<1>8. CASE at'[r] = at[r] /\ Op(r).op = "call"
  <2>1. x # at[r]
    BY <1>6, <1>7, <1>8 DEF Mailing
  <2> QED BY <1>1, <1>8, <2>1
<1>9. CASE at'[r] = Following(r, options'[r])
  <2>1. PICK o : o = options'[r]
    OBVIOUS
  <2>2. PICK c : c = Following(r, o)
    OBVIOUS
  <2>3. Goes(benchmark, r, at[r], c, o)
    BY <1>7, <2>2, FollowingGoes
  <2>4. SectionIn(benchmark, r, at[r]).loop /\ (c.size # at[r].size \/ c.seg # at[r].seg)
          => ~(at[r].iter + 1 < Trips(o))
    BY <1>7, <2>2, LeavesLate
  <2>5. SectionIn(benchmark, r, at[r]).loop \/ at[r].iter = 0
    BY <1>7 DEF IterationInv, OnceAt
  <2>6. SectionIn(benchmark, r, x).loop <=> Sections(benchmark, 0, k)[m].loop
    BY <1>2, <1>5 DEF Messaging
  <2>7. SectionIn(benchmark, r, x).loop \/ x.iter = 0
    <3>1. SectionIn(benchmark, r, x).loop \/ Rounds(benchmark, m, k) = 1
      BY <2>6 DEF Rounds
    <3> QED BY <1>4, <1>5, <3>1
  <2>8. ASSUME x.size = at[r].size, x.seg = at[r].seg PROVE Visited(benchmark, r, x, o)
    <3>1. SectionIn(benchmark, r, at[r]) = SectionIn(benchmark, r, x)
      BY <2>8 DEF SectionIn
    <3>2. CASE SectionIn(benchmark, r, x).loop
      <4>1. /\ Rounds(benchmark, m, at[r].size) = Trips(options[r])
            /\ Op(r).op # "options"
        BY <1>5, <1>7, <2>8, <3>1, <3>2, RoundsHere
      <4>2. o = options[r]
        BY <2>1, <4>1 DEF Mails, Acts, Chooses
      <4>3. Trips(o) = Rounds(benchmark, m, k)
        BY <1>5, <2>8, <4>1, <4>2
      <4>4. Trips(o) \in Nat /\ x.iter < Trips(o)
        BY <1>3, <1>4, <1>5, <4>3
      <4> QED BY <1>5, <1>6, <3>2, <4>4 DEF Visited
    <3>3. CASE ~SectionIn(benchmark, r, x).loop
      BY <1>5, <1>6, <2>7, <3>3 DEF Visited
    <3> QED BY <3>2, <3>3
  <2>9. Earlier(x, c) <=> Earlier(x, at[r]) \/ x = at[r]
    BY <1>5, <1>6, <1>7, <2>3, <2>4, <2>5, <2>7, <2>8, NothingLeftOut
  <2> QED BY <1>1, <1>9, <2>1, <2>2, <2>9
<1> QED BY <1>8, <1>9 DEF Mails, Heading

\* A rank that sends or receives is in an iteration of the section.
LEMMA MailsHere ==
  ASSUME WellFormed(benchmark), Placed, IterationInv, OptionsInv,
         \A q \in Ranks : Admitted(at[q]),
         NEW m, Messaging(benchmark, m), NEW r \in Ranks, Mails(r), Op(r).op \in Mailing
  PROVE  LET a == at[r]
         IN  /\ Usable /\ a # Over
             /\ a.size \in 1 .. benchmark.sizes
             /\ a.iter \in 0 .. Rounds(benchmark, m, a.size) - 1
             /\ a.pos \in 1 .. Len(Sections(benchmark, r, a.size)[m].ops)
             /\ Op(r) = Sections(benchmark, r, a.size)[m].ops[a.pos]
             /\ a = Place(a.size, m, a.iter, a.pos)
<1>1. /\ at[r] # Over /\ IsSpot(benchmark, r, at[r])
      /\ Op(r) = OpsIn(benchmark, r, at[r])[at[r].pos]
  BY ActsAt DEF Mails
<1>2. /\ at[r].size \in 1 .. benchmark.sizes /\ at[r].seg = m
      /\ OpsIn(benchmark, r, at[r]) = Sections(benchmark, r, at[r].size)[m].ops
      /\ at[r].pos \in 1 .. Len(Sections(benchmark, r, at[r].size)[m].ops)
  BY <1>1, MailsWhere
<1>3. at[r].iter \in 0 .. Rounds(benchmark, m, at[r].size) - 1
  BY <1>1, <1>2, RoundsHere
<1>4. Usable
  <2>1. at[r] # Place(0, 1, 0, 1)
    BY <1>2 DEF Place
  <2>2. at[r].size # benchmark.sizes + 1
    BY <1>2 DEF WellFormed
  <2> QED BY <1>1, <2>1, <2>2 DEF Admitted
<1>5. at[r] = Place(at[r].size, m, at[r].iter, at[r].pos)
  BY <1>1, <1>2 DEF IsSpot
<1> QED BY <1>1, <1>2, <1>3, <1>4, <1>5

\* Earlier is an order.
LEMMA NotEarlierThanItself ==
  ASSUME NEW k \in Nat, NEW m \in Nat, NEW i \in Nat, NEW n \in Nat
  PROVE  ~Earlier(Place(k, m, i, n), Place(k, m, i, n))
BY DEF Earlier, Place

-----------------------------------------------------------------------------
(***************************************************************************)
(* The messages and receives that wait to be matched.  Each was posted by  *)
(* a statement that its rank has passed, they stand in the order of the    *)
(* iterations they belong to, and no receive is left from before a         *)
(* completed MPI_Waitall.                                                  *)
(***************************************************************************)
Queue(r, op) == IF op = "isend" THEN sends[r] ELSE recvs[r]
Posting == {"isend", "irecv"}

EntryAt(b, m, r, op, e, a) ==
  /\ e.size \in 1 .. b.sizes /\ e.iter \in 0 .. Rounds(b, m, e.size) - 1
  /\ \E n \in Marked(b, m, r, e.size, op, e.peer, e.tag) :
       /\ Sections(b, r, e.size)[m].ops[n].kind = e.kind
       /\ Earlier(Place(e.size, m, e.iter, n), a)
       /\ op = "irecv" => \A w \in n + 1 .. Len(Sections(b, r, e.size)[m].ops) :
            Sections(b, r, e.size)[m].ops[w].op = "waitrecvs"
              => ~Earlier(Place(e.size, m, e.iter, w), a)

Sooner(e, d) == e.size < d.size \/ (e.size = d.size /\ e.iter < d.iter)

Posts(m, r, op) ==
  /\ IsSequence(Queue(r, op))
  /\ \A x \in DOMAIN Queue(r, op) :
       Usable /\ EntryAt(benchmark, m, r, op, Queue(r, op)[x], at[r])
  /\ \A x, y \in DOMAIN Queue(r, op) : x < y => ~Sooner(Queue(r, op)[y], Queue(r, op)[x])

PostedInv ==
  WellFormed(benchmark) =>
    /\ DOMAIN sends = Ranks /\ DOMAIN recvs = Ranks
    /\ \A m : Messaging(benchmark, m) =>
         \A r \in Ranks : \A op \in Posting : Posts(m, r, op)

LEMMA WithoutIs ==
  ASSUME NEW f, IsSequence(f), NEW n \in DOMAIN f
  PROVE  LET g == Without(f, n)
         IN  /\ IsSequence(g) /\ Len(g) = Len(f) - 1
             /\ \A x \in 1 .. Len(g) : g[x] = f[IF x < n THEN x ELSE x + 1]
<1> DEFINE S == {f[j] : j \in 1 .. Len(f)}
           s == SubSeq(f, 1, n - 1)
           t == SubSeq(f, n + 1, Len(f))
<1>1. f \in Seq(S)
  BY SequenceRange
<1>2. DOMAIN f = 1 .. Len(f) /\ Len(f) \in Nat /\ n \in 1 .. Len(f)
  BY SequenceDomain
<1> HIDE DEF S
<1>3. \A x \in 1 .. n - 1 : x \in 1 .. Len(f)
  BY <1>2
<1>4. \A x \in n + 1 .. Len(f) : x \in 1 .. Len(f)
  BY <1>2
<1>5. s \in Seq(S) /\ Len(s) = n - 1 /\ \A x \in 1 .. n - 1 : s[x] = f[x]
  BY <1>1, <1>2, <1>3
<1>6. /\ t \in Seq(S) /\ Len(t) = Len(f) - n
      /\ \A x \in 1 .. Len(f) - n : t[x] = f[x + n]
  <2>1. t \in Seq(S)
    BY <1>1, <1>2, <1>4
  <2>2. Len(t) = Len(f) - n
    BY <1>1, <1>2
  <2>3. ASSUME NEW x \in 1 .. Len(f) - n PROVE t[x] = f[x + n]
    BY <1>1, <1>2
  <2> QED BY <2>1, <2>2, <2>3
<1> HIDE DEF s, t
<1>7. PICK g : g = s \o t
  OBVIOUS
<1>8. IsSequence(s) /\ IsSequence(t)
  BY <1>5, <1>6 DEF IsSequence
<1>9. /\ IsSequence(g) /\ Len(g) = Len(s) + Len(t)
      /\ \A x \in 1 .. Len(g) : \/ x \in 1 .. Len(s) /\ g[x] = s[x]
                                \/ x - Len(s) \in 1 .. Len(t) /\ g[x] = t[x - Len(s)]
  BY <1>7, <1>8, Joined
<1>10. ASSUME NEW x \in 1 .. Len(g) PROVE g[x] = f[IF x < n THEN x ELSE x + 1]
  <2>1. CASE x \in 1 .. Len(s) /\ g[x] = s[x]
    <3>1. x \in 1 .. n - 1 /\ x < n
      BY <1>2, <1>5, <2>1
    <3> QED BY <1>5, <2>1, <3>1
  <2>2. CASE x - Len(s) \in 1 .. Len(t) /\ g[x] = t[x - Len(s)]
    <3>1. PICK y : y = x - Len(s)
      OBVIOUS
    <3>2. y \in 1 .. Len(f) - n /\ y + n = x + 1 /\ ~(x < n)
      BY <1>2, <1>5, <1>6, <2>2, <3>1
    <3>3. g[x] = f[x + 1]
      BY <1>6, <2>2, <3>1, <3>2
    <3> QED BY <3>2, <3>3
  <2> QED BY <1>9, <2>1, <2>2
<1>12. Len(g) = Len(f) - 1
  BY <1>2, <1>5, <1>6, <1>9
<1>11. g = Without(f, n)
  BY <1>7 DEF Without, s, t
<1> QED BY <1>9, <1>10, <1>11, <1>12

LEMMA AppendIs ==
  ASSUME NEW f, IsSequence(f), NEW e
  PROVE  LET g == Append(f, e)
         IN  /\ IsSequence(g) /\ Len(g) = Len(f) + 1
             /\ g[Len(f) + 1] = e /\ \A x \in 1 .. Len(f) : g[x] = f[x]
<1> DEFINE S == {f[j] : j \in 1 .. Len(f)} \cup {e}
<1>1. f \in Seq({f[j] : j \in 1 .. Len(f)})
  BY SequenceRange
<1>2. f \in Seq(S) /\ e \in S
  BY <1>1
<1> HIDE DEF S
<1>3. PICK g : g = Append(f, e)
  OBVIOUS
<1>4. /\ g \in Seq(S) /\ Len(g) = Len(f) + 1 /\ Len(f) \in Nat
      /\ g[Len(f) + 1] = e /\ \A x \in 1 .. Len(f) : g[x] = f[x]
  BY <1>2, <1>3
<1>5. IsSequence(g)
  BY <1>4 DEF IsSequence
<1> QED BY <1>3, <1>4, <1>5

LEMMA FirstIs ==
  ASSUME NEW f, IsSequence(f), NEW peer, NEW tag,
         \E n \in DOMAIN f : f[n].peer = peer /\ f[n].tag = tag
  PROVE  LET n == First(f, peer, tag)
         IN  /\ n \in DOMAIN f /\ f[n].peer = peer /\ f[n].tag = tag
             /\ \A x \in DOMAIN f : f[x].peer = peer /\ f[x].tag = tag => n <= x
<1> DEFINE S == {n \in DOMAIN f : f[n].peer = peer /\ f[n].tag = tag}
<1>1. DOMAIN f = 1 .. Len(f) /\ Len(f) \in Nat
  BY SequenceDomain
<1>2. S # {} /\ S \subseteq Nat
  BY <1>1
<1>3. First(f, peer, tag) = Min(S)
  BY DEF First
<1>4. \A x : x \in S <=> x \in DOMAIN f /\ f[x].peer = peer /\ f[x].tag = tag
  OBVIOUS
<1> HIDE DEF S
<1>5. Min(S) \in S /\ \A x \in S : Min(S) <= x
  BY <1>2, MinOf
<1> QED BY <1>3, <1>4, <1>5

LEMMA QueueWhenMails ==
  ASSUME DOMAIN sends = Ranks, DOMAIN recvs = Ranks, NEW r \in Ranks, Mails(r),
         NEW q \in Ranks, NEW op \in Posting
  PROVE  Queue(q, op)' = IF q = r /\ Op(r).op = op THEN Append(Queue(r, op), Envelope(r))
                         ELSE Queue(q, op)
<1>1. CASE op = "isend"
  BY <1>1 DEF Mails, Queues, Queue
<1>2. CASE op = "irecv"
  BY <1>2 DEF Mails, Queues, Queue
<1> QED BY <1>1, <1>2 DEF Posting

LEMMA QueueWhenMeets ==
  ASSUME DOMAIN sends = Ranks, DOMAIN recvs = Ranks,
         NEW p \in Ranks, NEW q \in Ranks, NEW tag, Meets(p, q, tag),
         NEW z \in Ranks, NEW op \in Posting
  PROVE  Queue(z, op)' = IF op = "isend" /\ z = p
                         THEN Without(Queue(p, "isend"), First(Queue(p, "isend"), q, tag))
                         ELSE IF op = "irecv" /\ z = q
                         THEN Without(Queue(q, "irecv"), First(Queue(q, "irecv"), p, tag))
                         ELSE Queue(z, op)
<1>1. CASE op = "isend"
  BY <1>1 DEF Meets, Queue
<1>2. CASE op = "irecv"
  BY <1>2 DEF Meets, Queue
<1> QED BY <1>1, <1>2 DEF Posting

LEMMA EntryStays ==
  ASSUME WellFormed(benchmark), Placed, IterationInv, OptionsInv, Usable,
         NEW m, Messaging(benchmark, m), NEW r \in Ranks, Mails(r),
         NEW op \in Posting, NEW e, EntryAt(benchmark, m, r, op, e, at[r]),
         op = "irecv" => Op(r).op # "waitrecvs"
  PROVE  EntryAt(benchmark, m, r, op, e, at'[r])
<1>1. PICK k \in 1 .. benchmark.sizes : k = e.size
  BY DEF EntryAt
<1>2. PICK i \in 0 .. Rounds(benchmark, m, k) - 1 : i = e.iter
  BY <1>1 DEF EntryAt
<1>3. PICK ops : ops = Sections(benchmark, r, k)[m].ops
  OBVIOUS
<1>4. PICK n \in 1 .. Len(ops) :
        /\ n \in Marked(benchmark, m, r, k, op, e.peer, e.tag)
        /\ ops[n].op = op
        /\ ops[n].kind = e.kind
        /\ Earlier(Place(k, m, i, n), at[r])
        /\ op = "irecv" => \A w \in n + 1 .. Len(ops) :
             ops[w].op = "waitrecvs" => ~Earlier(Place(k, m, i, w), at[r])
  BY <1>1, <1>2, <1>3 DEF EntryAt, Marked
<1>5. Earlier(Place(k, m, i, n), at'[r])
  <2>1. ops[n].op \in Mailing
    BY <1>4 DEF Posting, Mailing
  <2> QED BY <1>3, <1>4, <2>1, LeavesBehind
<1>6. k \in Nat /\ Rounds(benchmark, m, k) \in Nat \ {0} /\ i \in Nat
  <2>1. k \in Nat /\ Rounds(benchmark, m, k) \in Nat \ {0}
    BY RoundsIs DEF WellFormed
  <2> QED BY <2>1
<1>7. ASSUME op = "irecv", NEW w \in n + 1 .. Len(ops), ops[w].op = "waitrecvs"
      PROVE  ~Earlier(Place(k, m, i, w), at'[r])
  <2>1. ~Earlier(Place(k, m, i, w), at[r])
    BY <1>4, <1>7
  <2>2. w \in 1 .. Len(ops) /\ ops[w].op \in Mailing
    BY <1>4, <1>7 DEF Mailing
  <2>3. Place(k, m, i, w) # at[r]
    <3>1. OpsIn(benchmark, r, Place(k, m, i, w)) = ops /\ Place(k, m, i, w).pos = w
      BY <1>3, <1>6, <2>2, MailSpot
    <3>2. Op(r) = OpsIn(benchmark, r, at[r])[at[r].pos]
      BY ActsAt DEF Mails
    <3> QED BY <1>7, <3>1, <3>2
  <2> QED BY <1>3, <2>1, <2>2, <2>3, LeavesBehind
<1> QED BY <1>1, <1>2, <1>3, <1>4, <1>5, <1>7 DEF EntryAt

LEMMA NewEntry ==
  ASSUME WellFormed(benchmark), Placed, IterationInv, OptionsInv,
         \A q \in Ranks : Admitted(at[q]),
         NEW m, Messaging(benchmark, m), NEW r \in Ranks, Mails(r),
         NEW op \in Posting, Op(r).op = op
  PROVE  Usable /\ EntryAt(benchmark, m, r, op, Envelope(r), at'[r])
<1>1. Op(r).op \in Mailing
  BY DEF Posting, Mailing
<1>2. /\ Usable
      /\ at[r].size \in 1 .. benchmark.sizes
      /\ at[r].iter \in 0 .. Rounds(benchmark, m, at[r].size) - 1
      /\ at[r].pos \in 1 .. Len(Sections(benchmark, r, at[r].size)[m].ops)
      /\ Op(r) = Sections(benchmark, r, at[r].size)[m].ops[at[r].pos]
      /\ at[r] = Place(at[r].size, m, at[r].iter, at[r].pos)
  BY <1>1, MailsHere
<1>3. PICK k \in 1 .. benchmark.sizes : k = at[r].size
  BY <1>2
<1>4. PICK i \in 0 .. Rounds(benchmark, m, k) - 1 : i = at[r].iter
  BY <1>2, <1>3
<1>5. PICK ops : ops = Sections(benchmark, r, k)[m].ops
  OBVIOUS
<1>6. PICK n \in 1 .. Len(ops) : n = at[r].pos
  BY <1>2, <1>3, <1>5
<1>7. Op(r) = ops[n] /\ at[r] = Place(k, m, i, n)
  BY <1>2, <1>3, <1>4, <1>5, <1>6
<1>8. Earlier(Place(k, m, i, n), at'[r])
  BY <1>1, <1>2, <1>5, <1>7, LeavesBehind
<1>9. k \in Nat /\ Rounds(benchmark, m, k) \in Nat \ {0} /\ i \in Nat /\ m \in Nat
  <2>1. k \in Nat /\ Rounds(benchmark, m, k) \in Nat \ {0}
    BY RoundsIs DEF WellFormed
  <2> QED BY <2>1 DEF Messaging
<1>10. n \in Marked(benchmark, m, r, k, op, Op(r).peer, Op(r).tag)
  BY <1>5, <1>7 DEF Marked
<1>11. ASSUME NEW w \in n + 1 .. Len(ops), ops[w].op = "waitrecvs"
       PROVE  ~Earlier(Place(k, m, i, w), at'[r])
  <2>1. w \in 1 .. Len(ops) /\ ops[w].op \in Mailing /\ n < w
    BY <1>6, <1>11 DEF Mailing
  <2>2. ~Earlier(Place(k, m, i, w), Place(k, m, i, n)) /\ Place(k, m, i, w) # Place(k, m, i, n)
    <3>1. w # n /\ ~(w < n)
      BY <2>1
    <3> QED BY <1>9, <3>1 DEF Earlier, Place
  <2> QED BY <1>2, <1>5, <1>7, <2>1, <2>2, LeavesBehind
<1>12. PICK e : e = Envelope(r)
  OBVIOUS
<1>13. /\ e.size = k /\ e.iter = i /\ e.peer = Op(r).peer /\ e.tag = Op(r).tag
       /\ e.kind = Op(r).kind
  BY <1>3, <1>4, <1>12 DEF Envelope
<1>14. EntryAt(benchmark, m, r, op, e, at'[r])
  BY <1>5, <1>7, <1>8, <1>10, <1>11, <1>13 DEF EntryAt
<1> QED BY <1>2, <1>12, <1>14

LEMMA NewIsNotSooner ==
  ASSUME WellFormed(benchmark), Placed, IterationInv, OptionsInv,
         \A q \in Ranks : Admitted(at[q]),
         NEW m, Messaging(benchmark, m), NEW r \in Ranks, Mails(r), Op(r).op \in Mailing,
         NEW op, NEW e, EntryAt(benchmark, m, r, op, e, at[r])
  PROVE  ~Sooner(Envelope(r), e)
<1>1. /\ at[r].size \in Nat /\ at[r].iter \in Nat /\ at[r].pos \in Nat /\ at[r].seg \in Nat
      /\ at[r] = Place(at[r].size, m, at[r].iter, at[r].pos)
  BY MailsHere, ActsAt, SpotNumbers DEF Mails
<1>2. PICK n : Earlier(Place(e.size, m, e.iter, n), at[r])
  BY DEF EntryAt
<1>3. e.size \in 1 .. benchmark.sizes /\ e.iter \in 0 .. Rounds(benchmark, m, e.size) - 1
  BY DEF EntryAt
<1>4. e.size \in Nat /\ Rounds(benchmark, m, e.size) \in Nat
  BY <1>3, RoundsIs DEF WellFormed
<1>5. e.iter \in Nat
  BY <1>3, <1>4
<1>6. m \in Nat
  BY DEF Messaging
<1>7. e.size < at[r].size \/ (e.size = at[r].size /\ e.iter <= at[r].iter)
  <2>1. at[r].seg = m
    BY <1>1 DEF Place
  <2>2. \/ e.size < at[r].size
        \/ /\ e.size = at[r].size
           /\ \/ m < at[r].seg
              \/ m = at[r].seg /\ (e.iter < at[r].iter \/ (e.iter = at[r].iter /\ n < at[r].pos))
    BY <1>2 DEF Earlier, Place
  <2> QED BY <1>1, <1>4, <1>5, <1>6, <2>1, <2>2
<1>8. Envelope(r).size = at[r].size /\ Envelope(r).iter = at[r].iter
  BY DEF Envelope
<1> QED BY <1>1, <1>4, <1>5, <1>7, <1>8 DEF Sooner

LEMMA PostsWhenMails ==
  ASSUME WellFormed(benchmark), Placed, IterationInv, OptionsInv, PostedInv,
         \A q \in Ranks : Admitted(at[q]),
         NEW m, Messaging(benchmark, m), NEW r \in Ranks, Mails(r),
         NEW q \in Ranks, NEW op \in Posting
  PROVE  Posts(m, q, op)'
<1>1. DOMAIN sends = Ranks /\ DOMAIN recvs = Ranks /\ Posts(m, q, op)
  BY DEF PostedInv
<1>2. PICK f : f = Queue(q, op)
  OBVIOUS
<1>3. PICK g : g = Queue(q, op)'
  OBVIOUS
<1>4. g = IF q = r /\ Op(r).op = op THEN Append(f, Envelope(r)) ELSE f
  BY <1>1, <1>2, <1>3, QueueWhenMails
<1>5. /\ IsSequence(f)
      /\ \A x \in DOMAIN f : Usable /\ EntryAt(benchmark, m, q, op, f[x], at[q])
      /\ \A x, y \in DOMAIN f : x < y => ~Sooner(f[y], f[x])
  BY <1>1, <1>2 DEF Posts
<1>6. /\ benchmark' = benchmark /\ (Usable' <=> Usable)
      /\ q # r => at'[q] = at[q]
  <2>1. launch' = launch
    BY DEF Mails, Acts
  <2>2. benchmark' = benchmark /\ po_ret' = po_ret
    BY <2>1, SameLaunch
  <2> QED BY <2>2, ActsAt DEF Usable, Mails
<1>7. SUFFICES /\ IsSequence(g)
               /\ \A x \in DOMAIN g : Usable /\ EntryAt(benchmark, m, q, op, g[x], at'[q])
               /\ \A x, y \in DOMAIN g : x < y => ~Sooner(g[y], g[x])
  BY <1>3, <1>6 DEF Posts
<1>8. CASE q # r
  BY <1>4, <1>5, <1>6, <1>8
<1>9. CASE q = r /\ Op(r).op = op
  <2>1. PICK e : e = Envelope(r)
    OBVIOUS
  <2>2. g = Append(f, e)
    BY <1>4, <1>9, <2>1
  <2>3. /\ IsSequence(g) /\ Len(g) = Len(f) + 1
        /\ g[Len(f) + 1] = e /\ \A x \in 1 .. Len(f) : g[x] = f[x]
    BY <1>5, <2>2, AppendIs
  <2>4. DOMAIN f = 1 .. Len(f) /\ DOMAIN g = 1 .. Len(f) + 1 /\ Len(f) \in Nat
    BY <1>5, <2>3, SequenceDomain
  <2>5. Usable /\ EntryAt(benchmark, m, q, op, e, at'[q])
    BY <1>9, <2>1, NewEntry
  <2>6. ASSUME NEW x \in 1 .. Len(f)
        PROVE  EntryAt(benchmark, m, q, op, g[x], at'[q])
    <3>1. EntryAt(benchmark, m, r, op, f[x], at[r])
      BY <1>5, <1>9, <2>4
    <3>2. op = "irecv" => Op(r).op # "waitrecvs"
      BY <1>9
    <3> QED BY <1>9, <2>3, <2>5, <3>1, <3>2, EntryStays
  <2>7. ASSUME NEW x \in DOMAIN g PROVE Usable /\ EntryAt(benchmark, m, q, op, g[x], at'[q])
    <3>1. x \in 1 .. Len(f) \/ x = Len(f) + 1
      BY <2>4
    <3> QED BY <2>3, <2>5, <2>6, <3>1
  <2>8. ASSUME NEW x \in DOMAIN g, NEW y \in DOMAIN g, x < y PROVE ~Sooner(g[y], g[x])
    <3>1. x \in 1 .. Len(f) /\ (y \in 1 .. Len(f) \/ y = Len(f) + 1)
      BY <2>4, <2>8
    <3>2. CASE y \in 1 .. Len(f)
      BY <1>5, <2>3, <2>4, <2>8, <3>1, <3>2
    <3>3. CASE y = Len(f) + 1
      <4>1. EntryAt(benchmark, m, r, op, f[x], at[r])
        BY <1>5, <1>9, <2>4, <3>1
      <4>2. Op(r).op \in Mailing
        BY <1>9 DEF Posting, Mailing
      <4>3. ~Sooner(e, f[x])
        BY <2>1, <4>1, <4>2, NewIsNotSooner
      <4> QED BY <2>3, <3>1, <3>3, <4>3
    <3> QED BY <3>1, <3>2, <3>3
  <2> QED BY <2>3, <2>7, <2>8
<1>10. CASE q = r /\ Op(r).op # op
  <2>1. g = f
    BY <1>4, <1>10
  <2>2. ASSUME NEW x \in DOMAIN g PROVE Usable /\ EntryAt(benchmark, m, q, op, g[x], at'[q])
    <3>1. Usable /\ EntryAt(benchmark, m, r, op, f[x], at[r])
      BY <1>5, <1>10, <2>1, <2>2
    <3>2. op = "irecv" => Op(r).op # "waitrecvs"
      <4> SUFFICES ASSUME op = "irecv", Op(r).op = "waitrecvs" PROVE FALSE
        OBVIOUS
      <4>1. f = <<>>
        BY <1>2, <1>10 DEF Mails, Receives, Queue
      <4>2. DOMAIN f = {}
        BY <4>1
      <4> QED BY <2>1, <2>2, <4>2
    <3> QED BY <1>10, <2>1, <3>1, <3>2, EntryStays
  <2> QED BY <1>5, <2>1, <2>2
<1> QED BY <1>8, <1>9, <1>10

LEMMA PostsWhenMeets ==
  ASSUME WellFormed(benchmark), PostedInv, NEW m, Messaging(benchmark, m),
         NEW p \in Ranks, NEW q \in Ranks, NEW tag, Meets(p, q, tag),
         NEW z \in Ranks, NEW op \in Posting
  PROVE  Posts(m, z, op)'
<1>1. /\ DOMAIN sends = Ranks /\ DOMAIN recvs = Ranks
      /\ Posts(m, z, op) /\ Posts(m, p, "isend") /\ Posts(m, q, "irecv")
  BY DEF PostedInv, Posting
<1>2. PICK f : f = Queue(z, op)
  OBVIOUS
<1>3. PICK g : g = Queue(z, op)'
  OBVIOUS
<1>4. /\ IsSequence(f)
      /\ \A x \in DOMAIN f : Usable /\ EntryAt(benchmark, m, z, op, f[x], at[z])
      /\ \A x, y \in DOMAIN f : x < y => ~Sooner(f[y], f[x])
  BY <1>1, <1>2 DEF Posts
<1>5. benchmark' = benchmark /\ (Usable' <=> Usable) /\ at' = at
  BY SameLaunch DEF Meets, Usable
<1>6. SUFFICES /\ IsSequence(g)
               /\ \A x \in DOMAIN g : Usable /\ EntryAt(benchmark, m, z, op, g[x], at[z])
               /\ \A x, y \in DOMAIN g : x < y => ~Sooner(g[y], g[x])
  BY <1>3, <1>5 DEF Posts
<1>7. g = f \/ \E n \in DOMAIN f : g = Without(f, n)
  <2>1. CASE op = "isend" /\ z = p
    <3>1. \E n \in DOMAIN f : f[n].peer = q /\ f[n].tag = tag
      BY <1>2, <2>1 DEF Meets, Meeting, Queue
    <3>2. First(f, q, tag) \in DOMAIN f
      BY <1>4, <3>1, FirstIs
    <3>3. g = Without(f, First(f, q, tag))
      BY <1>1, <1>2, <1>3, <2>1, QueueWhenMeets
    <3> QED BY <3>2, <3>3
  <2>2. CASE op = "irecv" /\ z = q
    <3>1. \E n \in DOMAIN f : f[n].peer = p /\ f[n].tag = tag
      BY <1>2, <2>2 DEF Meets, Meeting, Queue
    <3>2. First(f, p, tag) \in DOMAIN f
      BY <1>4, <3>1, FirstIs
    <3>3. g = Without(f, First(f, p, tag))
      BY <1>1, <1>2, <1>3, <2>2, QueueWhenMeets
    <3> QED BY <3>2, <3>3
  <2>3. CASE ~(op = "isend" /\ z = p) /\ ~(op = "irecv" /\ z = q)
    BY <1>1, <1>2, <1>3, <2>3, QueueWhenMeets
  <2> QED BY <2>1, <2>2, <2>3
<1>8. CASE g = f
  BY <1>4, <1>8
<1>9. CASE \E n \in DOMAIN f : g = Without(f, n)
  <2>1. PICK n \in DOMAIN f : g = Without(f, n)
    BY <1>9
  <2>2. /\ IsSequence(g) /\ Len(g) = Len(f) - 1
        /\ \A x \in 1 .. Len(g) : g[x] = f[IF x < n THEN x ELSE x + 1]
    BY <1>4, <2>1, WithoutIs
  <2>3. DOMAIN f = 1 .. Len(f) /\ DOMAIN g = 1 .. Len(g) /\ Len(f) \in Nat /\ n \in 1 .. Len(f)
    BY <1>4, <2>2, SequenceDomain
  <2> DEFINE Was(x) == IF x < n THEN x ELSE x + 1
  <2>4. \A x \in DOMAIN g : Was(x) \in DOMAIN f /\ g[x] = f[Was(x)]
    BY <2>2, <2>3
  <2>5. \A x, y \in DOMAIN g : x < y => Was(x) < Was(y)
    BY <2>2, <2>3
  <2> HIDE DEF Was
  <2> QED BY <1>4, <2>2, <2>4, <2>5
<1> QED BY <1>7, <1>8, <1>9

LEMMA PostedInvariance == WinSpec => []PostedInv
<1>1. WinInit => PostedInv
  <2> SUFFICES ASSUME WinInit PROVE PostedInv
    OBVIOUS
  <2>1. sends = [r \in Ranks |-> <<>>] /\ recvs = [r \in Ranks |-> <<>>]
    BY DEF WinInit, Init
  <2>2. ASSUME NEW m, NEW r \in Ranks, NEW op PROVE Posts(m, r, op)
    <3>1. Queue(r, op) = <<>>
      BY <2>1 DEF Queue
    <3>2. IsSequence(<<>>) /\ DOMAIN <<>> = {}
      BY DEF IsSequence
    <3> QED BY <3>1, <3>2 DEF Posts
  <2> QED BY <2>1, <2>2 DEF PostedInv
<1>2. PlaceInv /\ IterationInv /\ OptionsInv /\ PostedInv /\ [WinNext]_<<vars, windows>>
        => PostedInv'
  <2> SUFFICES ASSUME PlaceInv, IterationInv, OptionsInv, PostedInv,
                      [WinNext]_<<vars, windows>>, WellFormed(benchmark)'
               PROVE  /\ DOMAIN sends' = Ranks' /\ DOMAIN recvs' = Ranks'
                      /\ \A m : Messaging(benchmark, m)' =>
                           \A r \in Ranks' : \A op \in Posting : Posts(m, r, op)'
    BY DEF PostedInv
  <2>1. launch' = launch
    BY LaunchStays
  <2>2. benchmark' = benchmark /\ Ranks' = Ranks /\ po_ret' = po_ret
    BY <2>1, SameLaunch
  <2>3. WellFormed(benchmark) /\ Placed /\ \A q \in Ranks : Admitted(at[q])
    BY <2>2 DEF PlaceInv
  <2>4. /\ DOMAIN sends = Ranks /\ DOMAIN recvs = Ranks
        /\ \A m : Messaging(benchmark, m) =>
             \A r \in Ranks : \A op \in Posting : Posts(m, r, op)
    BY <2>3 DEF PostedInv
  <2>5. DOMAIN sends' = Ranks /\ DOMAIN recvs' = Ranks
    <3>1. CASE \E r \in Ranks : Mails(r)
      BY <2>4, <3>1 DEF Mails, Queues
    <3>2. CASE \E p, r \in Ranks : \E tag : Meets(p, r, tag)
      BY <2>4, <3>2 DEF Meets
    <3>3. CASE Halts
      BY <2>4, <3>3 DEF Halts, messages
    <3> QED BY <2>3, <3>1, <3>2, <3>3, StepMails
  <2>6. ASSUME NEW m, Messaging(benchmark, m), NEW r \in Ranks, NEW op \in Posting
        PROVE  Posts(m, r, op)'
    <3>1. CASE \E q \in Ranks : Mails(q)
      BY <2>3, <2>6, <3>1, PostsWhenMails
    <3>2. CASE \E p, q \in Ranks : \E tag : Meets(p, q, tag)
      BY <2>3, <2>6, <3>2, PostsWhenMeets
    <3>3. CASE Halts
      <4>1. Queue(r, op)' = Queue(r, op) /\ at' = at /\ (Usable' <=> Usable)
        BY <2>2, <3>3 DEF Halts, messages, Queue, Usable
      <4>2. Posts(m, r, op)
        BY <2>4, <2>6
      <4> QED BY <2>2, <4>1, <4>2 DEF Posts
    <3> QED BY <2>3, <3>1, <3>2, <3>3, StepMails
  <2> QED BY <2>2, <2>5, <2>6
<1> QED BY <1>1, <1>2, PlaceInvariance, IterationInvariance, OptionsInvariance, PTL DEF WinSpec

-----------------------------------------------------------------------------
(***************************************************************************)
(* How many messages of iteration i for size k rank r has sent to peer     *)
(* that have been received, and how many of those that it receives from    *)
(* peer have been matched.  The two ends of a channel agree on that.       *)
(***************************************************************************)
Executed(m, r, op, peer, tag, k, i) ==
  {n \in Marked(benchmark, m, r, k, op, peer, tag) : Earlier(Place(k, m, i, n), at[r])}

Unmatched(f, peer, tag, k, i) ==
  {n \in DOMAIN f : /\ f[n].peer = peer /\ f[n].tag = tag
                    /\ f[n].size = k /\ f[n].iter = i}

Matched(m, r, op, peer, tag, k, i) ==
  Cardinality(Executed(m, r, op, peer, tag, k, i))
    - Cardinality(Unmatched(Queue(r, op), peer, tag, k, i))

Balanced(m, p, q, tag) ==
  \A k \in 1 .. benchmark.sizes : \A i \in 0 .. Rounds(benchmark, m, k) - 1 :
    Matched(m, p, "isend", q, tag, k, i) = Matched(m, q, "irecv", p, tag, k, i)

BalanceInv ==
  WellFormed(benchmark) /\ Usable =>
    \A m : Messaging(benchmark, m) =>
      \A p, q \in Ranks : \A tag :
        Matches(benchmark, m, p, q, tag) => Balanced(m, p, q, tag)

LEMMA OneToOne ==
  ASSUME NEW S, NEW T, IsFiniteSet(S), NEW f \in [S -> T],
         \A x, y \in S : f[x] = f[y] => x = y, \A t \in T : \E x \in S : f[x] = t
  PROVE  IsFiniteSet(T) /\ Cardinality(T) = Cardinality(S)
<1>1. f \in Bijection(S, T)
  BY DEF Bijection, Injection, IsInjective, Surjection
<1>2. ExistsBijection(S, T)
  BY <1>1 DEF ExistsBijection
<1> QED BY <1>2, FS_Bijection

LEMMA MarkedIsFinite ==
  ASSUME WellFormed(benchmark), NEW m, Messaging(benchmark, m), NEW r \in Ranks,
         NEW k \in 1 .. benchmark.sizes, NEW op, NEW peer, NEW tag
  PROVE  IsFiniteSet(Marked(benchmark, m, r, k, op, peer, tag))
<1>1. benchmark.sizes \in Nat /\ r \in 0 .. benchmark.np - 1
  BY DEF WellFormed, Ranks
<1>2. m \in 1 .. Len(Sections(benchmark, r, k)) /\ k \in 0 .. benchmark.sizes + 1
  BY <1>1 DEF Messaging
<1>3. IsStraight(Sections(benchmark, r, k)[m].ops)
  BY <1>2, SectionsAreStraight
<1>4. Len(Sections(benchmark, r, k)[m].ops) \in Int
  BY <1>3 DEF IsStraight, IsSequence
<1>5. IsFiniteSet(1 .. Len(Sections(benchmark, r, k)[m].ops))
  BY <1>4, FS_Interval
<1>6. Marked(benchmark, m, r, k, op, peer, tag)
        \in SUBSET (1 .. Len(Sections(benchmark, r, k)[m].ops))
  BY DEF Marked
<1> QED BY <1>5, <1>6, FS_Subset

LEMMA UnmatchedIsFinite ==
  ASSUME NEW f, IsSequence(f), NEW peer, NEW tag, NEW k, NEW i
  PROVE  IsFiniteSet(Unmatched(f, peer, tag, k, i))
<1>1. DOMAIN f = 1 .. Len(f) /\ Len(f) \in Int
  BY SequenceDomain
<1>2. IsFiniteSet(DOMAIN f)
  BY <1>1, FS_Interval
<1>3. Unmatched(f, peer, tag, k, i) \in SUBSET DOMAIN f
  BY DEF Unmatched
<1> QED BY <1>2, <1>3, FS_Subset

LEMMA UnmatchedAppend ==
  ASSUME NEW f, IsSequence(f), NEW e, NEW peer, NEW tag, NEW k, NEW i
  PROVE  Cardinality(Unmatched(Append(f, e), peer, tag, k, i)) =
           Cardinality(Unmatched(f, peer, tag, k, i))
             + (IF e.peer = peer /\ e.tag = tag /\ e.size = k /\ e.iter = i THEN 1 ELSE 0)
<1> DEFINE U == Unmatched(f, peer, tag, k, i)
<1>1. PICK g : g = Append(f, e)
  OBVIOUS
<1>2. /\ IsSequence(g) /\ Len(g) = Len(f) + 1
      /\ g[Len(f) + 1] = e /\ \A x \in 1 .. Len(f) : g[x] = f[x]
  BY <1>1, AppendIs
<1>3. DOMAIN f = 1 .. Len(f) /\ DOMAIN g = 1 .. Len(f) + 1 /\ Len(f) \in Nat
  BY <1>2, SequenceDomain
<1>4. PICK V : V = Unmatched(g, peer, tag, k, i)
  OBVIOUS
<1>5. \A x : x \in V <=> /\ x \in DOMAIN g /\ g[x].peer = peer /\ g[x].tag = tag
                         /\ g[x].size = k /\ g[x].iter = i
  BY <1>4 DEF Unmatched
<1>6. \A x : x \in U <=> /\ x \in DOMAIN f /\ f[x].peer = peer /\ f[x].tag = tag
                         /\ f[x].size = k /\ f[x].iter = i
  BY DEF Unmatched
<1>7. IsFiniteSet(U)
  BY UnmatchedIsFinite
<1> HIDE DEF U
<1>8. Cardinality(U) \in Nat
  BY <1>7, FS_CardinalityType
<1>9. \A x \in 1 .. Len(f) : x \in V <=> x \in U
  BY <1>2, <1>3, <1>5, <1>6
<1>10. PICK l : l = Len(f) + 1 /\ l \notin 1 .. Len(f)
  BY <1>3
<1>11. l \notin U /\ \A x : x \in DOMAIN g <=> x \in 1 .. Len(f) \/ x = l
  BY <1>3, <1>6, <1>10
<1>12. l \in V <=> e.peer = peer /\ e.tag = tag /\ e.size = k /\ e.iter = i
  BY <1>2, <1>5, <1>10, <1>11
<1>13. CASE e.peer = peer /\ e.tag = tag /\ e.size = k /\ e.iter = i
  <2>1. V = U \cup {l}
    <3>1. \A x : x \in V => x \in U \cup {l}
      BY <1>5, <1>9, <1>11
    <3>2. \A x : x \in U \cup {l} => x \in V
      BY <1>3, <1>6, <1>9, <1>12, <1>13
    <3> QED BY <3>1, <3>2
  <2>2. Cardinality(V) = Cardinality(U) + 1
    BY <1>7, <1>11, <2>1, FS_AddElement
  <2> QED BY <1>1, <1>4, <1>13, <2>2 DEF U
<1>14. CASE ~(e.peer = peer /\ e.tag = tag /\ e.size = k /\ e.iter = i)
  <2>1. V = U
    <3>1. \A x : x \in V => x \in U
      BY <1>5, <1>9, <1>11, <1>12, <1>14
    <3>2. \A x : x \in U => x \in V
      BY <1>3, <1>6, <1>9
    <3> QED BY <3>1, <3>2
  <2>2. Cardinality(V) = Cardinality(U) + 0
    BY <1>8, <2>1
  <2> QED BY <1>1, <1>4, <1>14, <2>2 DEF U
<1> QED BY <1>13, <1>14

LEMMA UnmatchedWithout ==
  ASSUME NEW f, IsSequence(f), NEW n \in DOMAIN f, NEW peer, NEW tag, NEW k, NEW i
  PROVE  Cardinality(Unmatched(Without(f, n), peer, tag, k, i)) =
           Cardinality(Unmatched(f, peer, tag, k, i))
             - (IF n \in Unmatched(f, peer, tag, k, i) THEN 1 ELSE 0)
<1>1. PICK U : U = Unmatched(f, peer, tag, k, i)
  OBVIOUS
<1>2. PICK g : g = Without(f, n)
  OBVIOUS
<1>3. PICK V : V = Unmatched(g, peer, tag, k, i)
  OBVIOUS
<1>4. /\ IsSequence(g) /\ Len(g) = Len(f) - 1
      /\ \A x \in 1 .. Len(g) : g[x] = f[IF x < n THEN x ELSE x + 1]
  BY <1>2, WithoutIs
<1>5. /\ DOMAIN f = 1 .. Len(f) /\ DOMAIN g = 1 .. Len(f) - 1 /\ Len(f) \in Nat
      /\ n \in 1 .. Len(f)
  BY <1>4, SequenceDomain
<1>6. \A x : x \in V <=> /\ x \in DOMAIN g /\ g[x].peer = peer /\ g[x].tag = tag
                         /\ g[x].size = k /\ g[x].iter = i
  BY <1>3 DEF Unmatched
<1>7. \A x : x \in U <=> /\ x \in DOMAIN f /\ f[x].peer = peer /\ f[x].tag = tag
                         /\ f[x].size = k /\ f[x].iter = i
  BY <1>1 DEF Unmatched
<1> DEFINE Was(x)  == IF x < n THEN x ELSE x + 1
           Back(x) == IF x < n THEN x ELSE x - 1
<1>8. \A x \in DOMAIN g : g[x] = f[Was(x)] /\ Was(x) \in DOMAIN f \ {n}
  BY <1>4, <1>5
<1>9. \A y \in DOMAIN f \ {n} : Back(y) \in DOMAIN g /\ Was(Back(y)) = y
  BY <1>5
<1>10. \A x, y \in DOMAIN g : Was(x) = Was(y) => x = y
  BY <1>5
<1>11. V \subseteq DOMAIN g /\ U \subseteq DOMAIN f
  BY <1>6, <1>7
<1> HIDE DEF Was, Back
<1>12. \A x \in DOMAIN g : x \in V <=> Was(x) \in U
  BY <1>6, <1>7, <1>8
<1>13. IsFiniteSet(V) /\ IsFiniteSet(U)
  BY <1>1, <1>3, <1>4, UnmatchedIsFinite
<1>14. Cardinality(V) = Cardinality(U \ {n})
  <2>1. PICK h : h = [x \in V |-> Was(x)]
    OBVIOUS
  <2>2. h \in [V -> U \ {n}]
    BY <1>8, <1>11, <1>12, <2>1
  <2>3. \A x, y \in V : h[x] = h[y] => x = y
    BY <1>10, <1>11, <2>1
  <2>4. ASSUME NEW y \in U \ {n} PROVE \E x \in V : h[x] = y
    <3>1. Back(y) \in V /\ Was(Back(y)) = y
      BY <1>9, <1>11, <1>12
    <3> QED BY <2>1, <3>1
  <2> QED BY <1>13, <2>2, <2>3, <2>4, OneToOne
<1>15. Cardinality(U) \in Nat
  BY <1>13, FS_CardinalityType
<1>16. Cardinality(U \ {n}) = IF n \in U THEN Cardinality(U) - 1 ELSE Cardinality(U)
  BY <1>13, FS_RemoveElement
<1>17. Cardinality(V) = Cardinality(U) - (IF n \in U THEN 1 ELSE 0)
  BY <1>14, <1>15, <1>16
<1> QED BY <1>1, <1>2, <1>3, <1>17

\* A rank that posts has one more to match, and one more that waits.
LEMMA MatchedStays ==
  ASSUME WellFormed(benchmark), Placed, IterationInv, OptionsInv, PostedInv, Usable,
         \A z \in Ranks : Admitted(at[z]),
         NEW m, Messaging(benchmark, m), NEW r \in Ranks, Mails(r),
         NEW q \in Ranks, NEW op \in Posting, NEW peer, NEW tag,
         NEW k \in 1 .. benchmark.sizes, NEW i \in 0 .. Rounds(benchmark, m, k) - 1
  PROVE  Matched(m, q, op, peer, tag, k, i)' = Matched(m, q, op, peer, tag, k, i)
<1>1. /\ DOMAIN sends = Ranks /\ DOMAIN recvs = Ranks /\ Posts(m, q, op)
      /\ benchmark' = benchmark
  BY SameLaunch DEF PostedInv, Mails, Acts
<1>2. PICK M : M = Marked(benchmark, m, q, k, op, peer, tag)
  OBVIOUS
<1>3. PICK f : f = Queue(q, op)
  OBVIOUS
<1>4. PICK g : g = Queue(q, op)'
  OBVIOUS
<1>5. PICK E : E = {n \in M : Earlier(Place(k, m, i, n), at[q])}
  OBVIOUS
<1>6. PICK F : F = {n \in M : Earlier(Place(k, m, i, n), at'[q])}
  OBVIOUS
<1>7. PICK u : u = Cardinality(Unmatched(f, peer, tag, k, i))
  OBVIOUS
<1>8. PICK v : v = Cardinality(Unmatched(g, peer, tag, k, i))
  OBVIOUS
<1>9. /\ Matched(m, q, op, peer, tag, k, i) = Cardinality(E) - u
      /\ Matched(m, q, op, peer, tag, k, i)' = Cardinality(F) - v
  BY <1>1, <1>2, <1>3, <1>4, <1>5, <1>6, <1>7, <1>8 DEF Matched, Executed
<1>10. IsSequence(f) /\ g = IF q = r /\ Op(r).op = op THEN Append(f, Envelope(r)) ELSE f
  BY <1>1, <1>3, <1>4, QueueWhenMails DEF Posts
<1>11. /\ IsFiniteSet(E) /\ Cardinality(E) \in Nat /\ u \in Nat
  <2>1. IsFiniteSet(M)
    BY <1>2, MarkedIsFinite
  <2>2. E \in SUBSET M
    BY <1>5
  <2>3. IsFiniteSet(E)
    BY <2>1, <2>2, FS_Subset
  <2>4. IsFiniteSet(Unmatched(f, peer, tag, k, i))
    BY <1>10, UnmatchedIsFinite
  <2> QED BY <1>7, <2>3, <2>4, FS_CardinalityType
<1>12. \A n \in M : /\ n \in 1 .. Len(Sections(benchmark, q, k)[m].ops)
                    /\ Sections(benchmark, q, k)[m].ops[n].op = op
                    /\ Sections(benchmark, q, k)[m].ops[n].peer = peer
                    /\ Sections(benchmark, q, k)[m].ops[n].tag = tag
  BY <1>2 DEF Marked
<1>13. CASE q # r
  <2>1. at'[q] = at[q] /\ g = f
    BY <1>10, <1>13, ActsAt DEF Mails
  <2>2. E = F /\ u = v
    BY <1>5, <1>6, <1>7, <1>8, <2>1
  <2> QED BY <1>9, <2>2
<1>14. ASSUME q = r, NEW n \in M
       PROVE  n \in F <=> n \in E \/ Place(k, m, i, n) = at[r]
  <2>1. Sections(benchmark, r, k)[m].ops[n].op \in Mailing
    BY <1>12, <1>14 DEF Posting, Mailing
  <2>2. Earlier(Place(k, m, i, n), at'[r]) <=>
          Earlier(Place(k, m, i, n), at[r]) \/ Place(k, m, i, n) = at[r]
    BY <1>12, <1>14, <2>1, LeavesBehind
  <2> QED BY <1>5, <1>6, <1>14, <2>2
<1>15. CASE q = r /\ \E n \in M : Place(k, m, i, n) = at[r]
  <2>1. PICK n \in M : Place(k, m, i, n) = at[r]
    BY <1>15
  <2>2. k \in Nat /\ Rounds(benchmark, m, k) \in Nat \ {0} /\ m \in Nat
    BY RoundsIs DEF WellFormed, Messaging
  <2>3. i \in Nat /\ n \in Nat
    BY <1>12, <2>2
  <2>4. Op(r) = Sections(benchmark, q, k)[m].ops[n]
    <3>1. /\ OpsIn(benchmark, q, Place(k, m, i, n)) = Sections(benchmark, q, k)[m].ops
          /\ Place(k, m, i, n).pos = n
      BY <1>12, <2>3, MailSpot
    <3>2. Op(r) = OpsIn(benchmark, r, at[r])[at[r].pos]
      BY ActsAt DEF Mails
    <3> QED BY <1>15, <2>1, <3>1, <3>2
  <2>5. Op(r).op = op /\ Op(r).peer = peer /\ Op(r).tag = tag
    BY <1>12, <2>4
  <2>6. at[r].size = k /\ at[r].iter = i
    BY <2>1 DEF Place
  <2>7. v = u + 1
    <3>1. PICK e : e = Envelope(r)
      OBVIOUS
    <3>2. e.peer = peer /\ e.tag = tag /\ e.size = k /\ e.iter = i
      BY <2>5, <2>6, <3>1 DEF Envelope
    <3>3. g = Append(f, e)
      BY <1>10, <1>15, <2>5, <3>1
    <3> QED BY <1>7, <1>8, <1>10, <3>2, <3>3, UnmatchedAppend
  <2>8. n \notin E
    BY <1>5, <1>15, <2>1, <2>2, <2>3, NotEarlierThanItself
  <2>9. F = E \cup {n}
    <3>1. ASSUME NEW x \in F PROVE x \in E \cup {n}
      <4>1. x \in M
        BY <1>6
      <4>2. x \in E \/ Place(k, m, i, x) = at[r]
        BY <1>14, <1>15, <4>1
      <4>3. Place(k, m, i, x) = at[r] => x = n
        BY <2>1 DEF Place
      <4> QED BY <4>2, <4>3
    <3>2. ASSUME NEW x \in E \cup {n} PROVE x \in F
      <4>1. x \in M
        BY <1>5
      <4> QED BY <1>14, <1>15, <2>1, <4>1
    <3> QED BY <3>1, <3>2
  <2>10. Cardinality(F) = Cardinality(E) + 1
    BY <1>11, <2>8, <2>9, FS_AddElement
  <2> QED BY <1>9, <1>11, <2>7, <2>10
<1>16. CASE q = r /\ ~\E n \in M : Place(k, m, i, n) = at[r]
  <2>1. E = F
    <3>1. \A x \in M : x \in F <=> x \in E
      BY <1>14, <1>16
    <3>2. E \subseteq M /\ F \subseteq M
      BY <1>5, <1>6
    <3> QED BY <3>1, <3>2
  <2>2. v = u
    <3>1. CASE Op(r).op # op
      BY <1>7, <1>8, <1>10, <3>1
    <3>2. CASE Op(r).op = op
      <4>1. PICK e : e = Envelope(r)
        OBVIOUS
      <4>2. /\ e.peer = Op(r).peer /\ e.tag = Op(r).tag /\ e.size = at[r].size
            /\ e.iter = at[r].iter
        BY <4>1 DEF Envelope
      <4>3. /\ at[r].pos \in 1 .. Len(Sections(benchmark, r, at[r].size)[m].ops)
            /\ Op(r) = Sections(benchmark, r, at[r].size)[m].ops[at[r].pos]
            /\ at[r] = Place(at[r].size, m, at[r].iter, at[r].pos)
        <5>1. Op(r).op \in Mailing
          BY <3>2 DEF Posting, Mailing
        <5> QED BY <5>1, MailsHere
      <4>4. ~(e.peer = peer /\ e.tag = tag /\ e.size = k /\ e.iter = i)
        <5> SUFFICES ASSUME e.peer = peer, e.tag = tag, e.size = k, e.iter = i PROVE FALSE
          OBVIOUS
        <5>1. at[r].size = k /\ at[r].iter = i /\ Op(r).peer = peer /\ Op(r).tag = tag
          BY <4>2
        <5>2. PICK n : n = at[r].pos
          OBVIOUS
        <5>3. /\ n \in 1 .. Len(Sections(benchmark, r, k)[m].ops)
              /\ Op(r) = Sections(benchmark, r, k)[m].ops[n]
              /\ at[r] = Place(k, m, i, n)
          BY <4>3, <5>1, <5>2
        <5>4. n \in M
          BY <1>2, <1>16, <3>2, <5>1, <5>3 DEF Marked
        <5> QED BY <1>16, <5>3, <5>4
      <4>5. g = Append(f, e)
        BY <1>10, <1>16, <3>2, <4>1
      <4>6. v = u + 0
        BY <1>7, <1>8, <1>10, <4>4, <4>5, UnmatchedAppend
      <4> QED BY <1>11, <4>6
    <3> QED BY <3>1, <3>2
  <2> QED BY <1>9, <2>1, <2>2
<1> QED BY <1>13, <1>15, <1>16

\* When a message meets a receive, one of its iteration is matched.
LEMMA MatchedGrows ==
  ASSUME WellFormed(benchmark), PostedInv, NEW m, Messaging(benchmark, m),
         NEW p \in Ranks, NEW q \in Ranks, NEW tag, Meets(p, q, tag),
         NEW z \in Ranks, NEW op \in Posting, NEW peer, NEW t,
         NEW k \in 1 .. benchmark.sizes, NEW i \in 0 .. Rounds(benchmark, m, k) - 1
  PROVE  LET s == sends[p][First(sends[p], q, tag)]
             d == recvs[q][First(recvs[q], p, tag)]
         IN  Matched(m, z, op, peer, t, k, i)' =
               Matched(m, z, op, peer, t, k, i)
               + (IF \/ /\ op = "isend" /\ z = p /\ peer = q /\ t = tag
                        /\ s.size = k /\ s.iter = i
                     \/ /\ op = "irecv" /\ z = q /\ peer = p /\ t = tag
                        /\ d.size = k /\ d.iter = i
                  THEN 1 ELSE 0)
<1>1. /\ DOMAIN sends = Ranks /\ DOMAIN recvs = Ranks /\ Posts(m, z, op)
      /\ benchmark' = benchmark /\ at' = at
  BY SameLaunch DEF PostedInv, Meets
<1>2. PICK f : f = Queue(z, op)
  OBVIOUS
<1>3. PICK g : g = Queue(z, op)'
  OBVIOUS
<1>4. PICK e : e = Cardinality(Executed(m, z, op, peer, t, k, i))
  OBVIOUS
<1>5. PICK u : u = Cardinality(Unmatched(f, peer, t, k, i))
  OBVIOUS
<1>6. PICK v : v = Cardinality(Unmatched(g, peer, t, k, i))
  OBVIOUS
<1>7. Executed(m, z, op, peer, t, k, i)' = Executed(m, z, op, peer, t, k, i)
  BY <1>1 DEF Executed
<1>8. /\ Matched(m, z, op, peer, t, k, i) = e - u
      /\ Matched(m, z, op, peer, t, k, i)' = e - v
  BY <1>2, <1>3, <1>4, <1>5, <1>6, <1>7 DEF Matched
<1>9. IsSequence(f)
  BY <1>1, <1>2 DEF Posts
<1>10. e \in Nat /\ u \in Nat
  <2>1. IsFiniteSet(Marked(benchmark, m, z, k, op, peer, t))
    BY MarkedIsFinite
  <2>2. Executed(m, z, op, peer, t, k, i) \in SUBSET Marked(benchmark, m, z, k, op, peer, t)
    BY DEF Executed
  <2>3. IsFiniteSet(Executed(m, z, op, peer, t, k, i))
    BY <2>1, <2>2, FS_Subset
  <2>4. IsFiniteSet(Unmatched(f, peer, t, k, i))
    BY <1>9, UnmatchedIsFinite
  <2> QED BY <1>4, <1>5, <2>3, <2>4, FS_CardinalityType
<1>11. PICK s : s = sends[p][First(sends[p], q, tag)]
  OBVIOUS
<1>12. PICK d : d = recvs[q][First(recvs[q], p, tag)]
  OBVIOUS
<1>13. ASSUME NEW peer2, NEW e2, NEW n, n = First(f, peer2, tag), e2 = f[n],
              \E x \in DOMAIN f : f[x].peer = peer2 /\ f[x].tag = tag,
              g = Without(f, n)
       PROVE  v = u - (IF peer = peer2 /\ t = tag /\ e2.size = k /\ e2.iter = i THEN 1 ELSE 0)
  <2>1. n \in DOMAIN f /\ f[n].peer = peer2 /\ f[n].tag = tag
    BY <1>9, <1>13, FirstIs
  <2>2. v = u - (IF n \in Unmatched(f, peer, t, k, i) THEN 1 ELSE 0)
    BY <1>5, <1>6, <1>9, <1>13, <2>1, UnmatchedWithout
  <2>3. n \in Unmatched(f, peer, t, k, i)
          <=> peer = peer2 /\ t = tag /\ e2.size = k /\ e2.iter = i
    BY <1>13, <2>1 DEF Unmatched
  <2> QED BY <2>2, <2>3
<1>14. CASE op = "isend" /\ z = p
  <2>1. /\ \E x \in DOMAIN f : f[x].peer = q /\ f[x].tag = tag
        /\ s = f[First(f, q, tag)] /\ g = Without(f, First(f, q, tag))
    BY <1>1, <1>2, <1>3, <1>11, <1>14, QueueWhenMeets DEF Queue, Meets, Meeting
  <2>2. v = u - (IF peer = q /\ t = tag /\ s.size = k /\ s.iter = i THEN 1 ELSE 0)
    BY <1>13, <2>1
  <2>3. e - v = (e - u) + (IF peer = q /\ t = tag /\ s.size = k /\ s.iter = i THEN 1 ELSE 0)
    BY <1>10, <2>2
  <2> QED BY <1>8, <1>11, <1>12, <1>14, <2>3
<1>15. CASE op = "irecv" /\ z = q
  <2>1. /\ \E x \in DOMAIN f : f[x].peer = p /\ f[x].tag = tag
        /\ d = f[First(f, p, tag)] /\ g = Without(f, First(f, p, tag))
    BY <1>1, <1>2, <1>3, <1>12, <1>15, QueueWhenMeets DEF Queue, Meets, Meeting
  <2>2. v = u - (IF peer = p /\ t = tag /\ d.size = k /\ d.iter = i THEN 1 ELSE 0)
    BY <1>13, <2>1
  <2>3. e - v = (e - u) + (IF peer = p /\ t = tag /\ d.size = k /\ d.iter = i THEN 1 ELSE 0)
    BY <1>10, <2>2
  <2> QED BY <1>8, <1>11, <1>12, <1>15, <2>3
<1>16. CASE ~(op = "isend" /\ z = p) /\ ~(op = "irecv" /\ z = q)
  <2>1. g = f
    BY <1>1, <1>2, <1>3, <1>16, QueueWhenMeets
  <2>2. u = v /\ e - v = (e - u) + 0
    BY <1>5, <1>6, <1>10, <2>1
  <2> QED BY <1>8, <1>16, <2>2
<1> QED BY <1>14, <1>15, <1>16

\* A rank is past the iterations before that of an entry.
LEMMA SoonerIsPast ==
  ASSUME WellFormed(benchmark), Placed, NEW m, Messaging(benchmark, m), NEW r \in Ranks,
         NEW op, NEW e, EntryAt(benchmark, m, r, op, e, at[r]),
         NEW k \in Nat, NEW i \in Nat, NEW x,
         k < e.size \/ (k = e.size /\ i < e.iter)
  PROVE  Earlier(Place(k, m, i, x), at[r])
<1>1. at[r].size \in Nat /\ at[r].seg \in Nat /\ at[r].iter \in Nat
  <2>1. CASE at[r] = Over
    BY <2>1, CodeIsSections DEF Over, WellFormed
  <2>2. CASE at[r] # Over
    BY <2>2, SpotNumbers DEF Placed, Somewhere
  <2> QED BY <2>1, <2>2
<1>2. PICK n : Earlier(Place(e.size, m, e.iter, n), at[r])
  BY DEF EntryAt
<1>3. e.size \in 1 .. benchmark.sizes /\ e.iter \in 0 .. Rounds(benchmark, m, e.size) - 1
  BY DEF EntryAt
<1>4. e.size \in Nat /\ Rounds(benchmark, m, e.size) \in Nat
  BY <1>3, RoundsIs DEF WellFormed
<1>5. e.iter \in Nat /\ m \in Nat
  BY <1>3, <1>4 DEF Messaging
<1>6. \/ e.size < at[r].size
      \/ /\ e.size = at[r].size
         /\ \/ m < at[r].seg
            \/ m = at[r].seg /\ (e.iter < at[r].iter \/ (e.iter = at[r].iter /\ n < at[r].pos))
  BY <1>2 DEF Earlier, Place
<1>7. \/ k < at[r].size
      \/ /\ k = at[r].size
         /\ \/ m < at[r].seg
            \/ m = at[r].seg /\ i < at[r].iter
  BY <1>1, <1>4, <1>5, <1>6
<1> QED BY <1>7 DEF Earlier, Place

\* No message waits for the first receive of a later iteration, or the other way round.
LEMMA NoneOvertakes ==
  ASSUME WellFormed(benchmark), Placed, PostedInv, NEW m, Messaging(benchmark, m),
         NEW p \in Ranks, NEW q \in Ranks, NEW op1 \in Posting, NEW op2 \in Posting, NEW tag,
         NEW e, NEW d, NEW x, NEW y,
         x \in DOMAIN Queue(p, op1), Queue(p, op1)[x] = e, e.peer = q, e.tag = tag,
         \E n \in DOMAIN Queue(q, op2) :
           Queue(q, op2)[n].peer = p /\ Queue(q, op2)[n].tag = tag,
         y = First(Queue(q, op2), p, tag), Queue(q, op2)[y] = d,
         Matched(m, p, op1, q, tag, e.size, e.iter) = Matched(m, q, op2, p, tag, e.size, e.iter),
         Cardinality(Marked(benchmark, m, p, e.size, op1, q, tag)) =
           Cardinality(Marked(benchmark, m, q, e.size, op2, p, tag))
  PROVE  ~Sooner(e, d)
<1> SUFFICES ASSUME Sooner(e, d) PROVE FALSE
  OBVIOUS
<1>1. PICK f : f = Queue(p, op1)
  OBVIOUS
<1>2. PICK g : g = Queue(q, op2)
  OBVIOUS
<1>3. /\ IsSequence(f) /\ \A n \in DOMAIN f : EntryAt(benchmark, m, p, op1, f[n], at[p])
      /\ IsSequence(g) /\ \A n \in DOMAIN g : EntryAt(benchmark, m, q, op2, g[n], at[q])
      /\ \A n, l \in DOMAIN g : n < l => ~Sooner(g[l], g[n])
  BY <1>1, <1>2 DEF PostedInv, Posts
<1>4. /\ y \in DOMAIN g /\ d = g[y]
      /\ \A n \in DOMAIN g : g[n].peer = p /\ g[n].tag = tag => y <= n
  BY <1>2, <1>3, FirstIs
<1>5. DOMAIN g = 1 .. Len(g) /\ Len(g) \in Nat
  BY <1>3, SequenceDomain
<1>6. EntryAt(benchmark, m, p, op1, e, at[p]) /\ EntryAt(benchmark, m, q, op2, d, at[q])
  BY <1>1, <1>3, <1>4
<1>7. PICK k \in 1 .. benchmark.sizes : k = e.size
  BY <1>6 DEF EntryAt
<1>8. PICK i \in 0 .. Rounds(benchmark, m, k) - 1 : i = e.iter
  BY <1>6, <1>7 DEF EntryAt
<1>9. k \in Nat /\ i \in Nat
  <2>1. k \in Nat /\ Rounds(benchmark, m, k) \in Nat \ {0}
    BY RoundsIs DEF WellFormed
  <2> QED BY <2>1
<1>10. PICK M1 : M1 = Marked(benchmark, m, p, k, op1, q, tag)
  OBVIOUS
<1>11. PICK M2 : M2 = Marked(benchmark, m, q, k, op2, p, tag)
  OBVIOUS
<1>12. PICK U1 : U1 = Unmatched(f, q, tag, k, i)
  OBVIOUS
<1>13. PICK U2 : U2 = Unmatched(g, p, tag, k, i)
  OBVIOUS
<1>14. PICK E1 : E1 = Executed(m, p, op1, q, tag, k, i)
  OBVIOUS
<1>15. IsFiniteSet(M1) /\ IsFiniteSet(M2) /\ IsFiniteSet(U1)
  BY <1>3, <1>10, <1>11, <1>12, MarkedIsFinite, UnmatchedIsFinite
<1>16. U2 = {}
  <2>1. ASSUME NEW n \in U2 PROVE FALSE
    <3>1. n \in DOMAIN g /\ g[n].peer = p /\ g[n].tag = tag /\ g[n].size = k /\ g[n].iter = i
      BY <1>13, <2>1 DEF Unmatched
    <3>2. Sooner(g[n], d)
      BY <1>7, <1>8, <3>1 DEF Sooner
    <3>3. n # y
      BY <1>3, <1>4, <1>6, <1>7, <1>8, <1>9, <3>1, <3>2 DEF Sooner
    <3>4. y < n
      BY <1>4, <1>5, <3>1, <3>3
    <3> QED BY <1>3, <1>4, <3>1, <3>2, <3>4
  <2> QED BY <2>1
<1>17. Executed(m, q, op2, p, tag, k, i) = M2
  <2>1. k < d.size \/ (k = d.size /\ i < d.iter)
    BY <1>7, <1>8 DEF Sooner
  <2>2. \A n : Earlier(Place(k, m, i, n), at[q])
    BY <1>6, <1>9, <2>1, SoonerIsPast
  <2> QED BY <1>11, <2>2 DEF Executed
<1>18. Matched(m, q, op2, p, tag, k, i) = Cardinality(M2)
  <2>1. Cardinality(U2) = 0 /\ Cardinality(M2) \in Nat
    BY <1>15, <1>16, FS_EmptySet, FS_CardinalityType
  <2>2. Matched(m, q, op2, p, tag, k, i) = Cardinality(M2) - Cardinality(U2)
    BY <1>2, <1>13, <1>17 DEF Matched
  <2> QED BY <2>1, <2>2
<1>19. Matched(m, p, op1, q, tag, k, i) = Cardinality(E1) - Cardinality(U1)
  BY <1>1, <1>12, <1>14 DEF Matched
<1>20. Cardinality(E1) \in Nat /\ Cardinality(E1) <= Cardinality(M1) /\ Cardinality(M1) \in Nat
  <2>1. E1 \in SUBSET M1
    BY <1>10, <1>14 DEF Executed
  <2>2. IsFiniteSet(E1) /\ Cardinality(E1) <= Cardinality(M1)
    BY <1>15, <2>1, FS_Subset
  <2> QED BY <1>15, <2>2, FS_CardinalityType
<1>21. Cardinality(U1) \in Nat \ {0}
  <2>1. x \in U1
    BY <1>1, <1>7, <1>8, <1>12 DEF Unmatched
  <2>2. Cardinality(U1) # 0
    BY <1>15, <2>1, FS_EmptySet
  <2> QED BY <1>15, <2>2, FS_CardinalityType
<1>22. /\ Matched(m, p, op1, q, tag, k, i) = Matched(m, q, op2, p, tag, k, i)
       /\ Cardinality(M1) = Cardinality(M2)
  BY <1>7, <1>8, <1>10, <1>11
<1> QED BY <1>18, <1>19, <1>20, <1>21, <1>22

LEMMA HeadsAgree ==
  ASSUME WellFormed(benchmark), Placed, PostedInv, BalanceInv, NEW m, Messaging(benchmark, m),
         NEW p \in Ranks, NEW q \in Ranks, NEW tag, Meeting(p, q, tag)
  PROVE  LET s == sends[p][First(sends[p], q, tag)]
             d == recvs[q][First(recvs[q], p, tag)]
         IN  /\ Matches(benchmark, m, p, q, tag) /\ Usable
             /\ s.kind = d.kind /\ s.size = d.size /\ s.iter = d.iter
<1>1. PICK f : f = sends[p] /\ f = Queue(p, "isend")
  BY DEF Queue
<1>2. PICK g : g = recvs[q] /\ g = Queue(q, "irecv")
  BY DEF Queue
<1>3. PICK x : x = First(f, q, tag)
  OBVIOUS
<1>4. PICK y : y = First(g, p, tag)
  OBVIOUS
<1>5. PICK s : s = f[x]
  OBVIOUS
<1>6. PICK d : d = g[y]
  OBVIOUS
<1>7. /\ IsSequence(f) /\ IsSequence(g)
      /\ \A n \in DOMAIN f : Usable /\ EntryAt(benchmark, m, p, "isend", f[n], at[p])
      /\ \A n \in DOMAIN g : EntryAt(benchmark, m, q, "irecv", g[n], at[q])
  BY <1>1, <1>2 DEF PostedInv, Posts, Posting
<1>8. /\ \E n \in DOMAIN f : f[n].peer = q /\ f[n].tag = tag
      /\ \E n \in DOMAIN g : g[n].peer = p /\ g[n].tag = tag
  BY <1>1, <1>2 DEF Meeting
<1>9. /\ x \in DOMAIN f /\ f[x].peer = q /\ f[x].tag = tag
      /\ y \in DOMAIN g /\ g[y].peer = p /\ g[y].tag = tag
  BY <1>3, <1>4, <1>7, <1>8, FirstIs
<1>10. /\ Usable /\ EntryAt(benchmark, m, p, "isend", s, at[p])
       /\ EntryAt(benchmark, m, q, "irecv", d, at[q])
       /\ s.peer = q /\ s.tag = tag /\ d.peer = p /\ d.tag = tag
  BY <1>5, <1>6, <1>7, <1>9
<1>11. PICK k \in 1 .. benchmark.sizes : k = s.size
  BY <1>10 DEF EntryAt
<1>12. PICK l \in 1 .. benchmark.sizes : l = d.size
  BY <1>10 DEF EntryAt
<1>13. PICK n : /\ n \in Marked(benchmark, m, p, k, "isend", q, tag)
                /\ Sections(benchmark, p, k)[m].ops[n].kind = s.kind
  BY <1>10, <1>11 DEF EntryAt
<1>14. PICK n2 : /\ n2 \in Marked(benchmark, m, q, l, "irecv", p, tag)
                 /\ Sections(benchmark, q, l)[m].ops[n2].kind = d.kind
  BY <1>10, <1>12 DEF EntryAt
<1>15. Connects(benchmark, m, p, q, tag)
  BY <1>13, <1>14 DEF Connects
<1>16. Matches(benchmark, m, p, q, tag)
  BY <1>15 DEF Messaging, Ranks
<1>17. Balanced(m, p, q, tag)
  BY <1>10, <1>16 DEF BalanceInv
<1>18. /\ s.size \in Nat /\ s.iter \in Nat /\ d.size \in Nat /\ d.iter \in Nat
       /\ s.iter \in 0 .. Rounds(benchmark, m, k) - 1
       /\ d.iter \in 0 .. Rounds(benchmark, m, l) - 1
  <2>1. /\ k \in Nat /\ Rounds(benchmark, m, k) \in Nat \ {0}
        /\ l \in Nat /\ Rounds(benchmark, m, l) \in Nat \ {0}
    BY RoundsIs DEF WellFormed
  <2>2. /\ s.iter \in 0 .. Rounds(benchmark, m, k) - 1
        /\ d.iter \in 0 .. Rounds(benchmark, m, l) - 1
    BY <1>10, <1>11, <1>12 DEF EntryAt
  <2> QED BY <1>11, <1>12, <2>1, <2>2
<1>19. ~Sooner(s, d)
  <2>1. Matched(m, p, "isend", q, tag, k, s.iter) = Matched(m, q, "irecv", p, tag, k, s.iter)
    BY <1>17, <1>18 DEF Balanced
  <2>2. Cardinality(Marked(benchmark, m, p, k, "isend", q, tag)) =
          Cardinality(Marked(benchmark, m, q, k, "irecv", p, tag))
    BY <1>16 DEF Matches
  <2>3. "isend" \in Posting /\ "irecv" \in Posting
    BY DEF Posting
  <2> QED BY <1>1, <1>2, <1>4, <1>5, <1>6, <1>8, <1>9, <1>10, <1>11, <2>1, <2>2, <2>3,
             NoneOvertakes
<1>20. ~Sooner(d, s)
  <2>1. Matched(m, q, "irecv", p, tag, l, d.iter) = Matched(m, p, "isend", q, tag, l, d.iter)
    BY <1>17, <1>18 DEF Balanced
  <2>2. Cardinality(Marked(benchmark, m, q, l, "irecv", p, tag)) =
          Cardinality(Marked(benchmark, m, p, l, "isend", q, tag))
    BY <1>16 DEF Matches
  <2>3. "isend" \in Posting /\ "irecv" \in Posting
    BY DEF Posting
  <2> QED BY <1>1, <1>2, <1>3, <1>5, <1>6, <1>8, <1>9, <1>10, <1>12, <2>1, <2>2, <2>3,
             NoneOvertakes
<1>21. s.size = d.size /\ s.iter = d.iter
  BY <1>18, <1>19, <1>20 DEF Sooner
<1>22. s.kind = d.kind
  <2>1. k = l
    BY <1>11, <1>12, <1>21
  <2>2. Sections(benchmark, p, k)[m].ops[n].kind = Sections(benchmark, q, l)[m].ops[n2].kind
    BY <1>13, <1>14, <1>16, <2>1 DEF Matches
  <2> QED BY <1>13, <1>14, <2>2
<1> QED BY <1>1, <1>2, <1>3, <1>4, <1>5, <1>6, <1>10, <1>16, <1>21, <1>22

LEMMA BalanceWhenMeets ==
  ASSUME WellFormed(benchmark), Placed, PostedInv, BalanceInv, NEW m, Messaging(benchmark, m),
         NEW p \in Ranks, NEW q \in Ranks, NEW tag, Meets(p, q, tag),
         NEW p2 \in Ranks, NEW q2 \in Ranks, NEW t, Balanced(m, p2, q2, t)
  PROVE  Balanced(m, p2, q2, t)'
<1>1. benchmark' = benchmark
  BY SameLaunch DEF Meets
<1>2. PICK s : s = sends[p][First(sends[p], q, tag)]
  OBVIOUS
<1>3. PICK d : d = recvs[q][First(recvs[q], p, tag)]
  OBVIOUS
<1>4. s.size = d.size /\ s.iter = d.iter
  BY <1>2, <1>3, HeadsAgree DEF Meets
<1>5. ASSUME NEW k \in 1 .. benchmark.sizes, NEW i \in 0 .. Rounds(benchmark, m, k) - 1
      PROVE  Matched(m, p2, "isend", q2, t, k, i)' = Matched(m, q2, "irecv", p2, t, k, i)'
  <2>1. Matched(m, p2, "isend", q2, t, k, i) = Matched(m, q2, "irecv", p2, t, k, i)
    BY DEF Balanced
  <2>2. "isend" \in Posting /\ "irecv" \in Posting
    BY DEF Posting
  <2>3. Matched(m, p2, "isend", q2, t, k, i)' =
          Matched(m, p2, "isend", q2, t, k, i)
          + (IF p2 = p /\ q2 = q /\ t = tag /\ s.size = k /\ s.iter = i THEN 1 ELSE 0)
    BY <1>2, <2>2, MatchedGrows
  <2>4. Matched(m, q2, "irecv", p2, t, k, i)' =
          Matched(m, q2, "irecv", p2, t, k, i)
          + (IF q2 = q /\ p2 = p /\ t = tag /\ d.size = k /\ d.iter = i THEN 1 ELSE 0)
    BY <1>3, <2>2, MatchedGrows
  <2> QED BY <1>4, <2>1, <2>3, <2>4
<1> QED BY <1>1, <1>5 DEF Balanced

LEMMA BalanceInvariance == WinSpec => []BalanceInv
<1>1. WinInit => BalanceInv
  <2> SUFFICES ASSUME WinInit, WellFormed(benchmark), NEW m, NEW p \in Ranks, NEW q \in Ranks,
                      NEW tag, NEW k \in 1 .. benchmark.sizes, NEW i
               PROVE  Matched(m, p, "isend", q, tag, k, i) = Matched(m, q, "irecv", p, tag, k, i)
    BY DEF BalanceInv, Balanced
  <2>1. ASSUME NEW r \in Ranks, NEW op, NEW peer PROVE Matched(m, r, op, peer, tag, k, i) = 0
    <3>1. at[r].size = 0 /\ Queue(r, op) = <<>>
      BY DEF WinInit, Init, Queue
    <3>2. k \in Nat \ {0}
      BY DEF WellFormed
    <3>3. \A n : ~Earlier(Place(k, m, i, n), at[r])
      BY <3>1, <3>2 DEF Earlier, Place
    <3>4. Executed(m, r, op, peer, tag, k, i) = {}
      BY <3>3 DEF Executed
    <3>5. Unmatched(Queue(r, op), peer, tag, k, i) = {}
      BY <3>1 DEF Unmatched
    <3>6. Cardinality({}) = 0
      BY FS_EmptySet
    <3>7. Matched(m, r, op, peer, tag, k, i) = Cardinality({}) - Cardinality({})
      BY <3>4, <3>5 DEF Matched
    <3> QED BY <3>6, <3>7
  <2> QED BY <2>1
<1>2. PlaceInv /\ IterationInv /\ OptionsInv /\ PostedInv /\ BalanceInv
        /\ [WinNext]_<<vars, windows>> => BalanceInv'
  <2> SUFFICES ASSUME PlaceInv, IterationInv, OptionsInv, PostedInv, BalanceInv,
                      [WinNext]_<<vars, windows>>, WellFormed(benchmark)', Usable',
                      NEW m, Messaging(benchmark, m)', NEW p \in Ranks', NEW q \in Ranks',
                      NEW tag, Matches(benchmark, m, p, q, tag)'
               PROVE  Balanced(m, p, q, tag)'
    BY DEF BalanceInv
  <2>1. launch' = launch
    BY LaunchStays
  <2>2. benchmark' = benchmark /\ Ranks' = Ranks /\ po_ret' = po_ret
    BY <2>1, SameLaunch
  <2>3. WellFormed(benchmark) /\ Placed /\ (\A z \in Ranks : Admitted(at[z])) /\ Usable
    BY <2>2 DEF PlaceInv, Usable
  <2>4. Messaging(benchmark, m) /\ p \in Ranks /\ q \in Ranks /\ Balanced(m, p, q, tag)
    BY <2>2, <2>3 DEF BalanceInv
  <2>5. CASE \E r \in Ranks : Mails(r)
    <3>1. PICK r \in Ranks : Mails(r)
      BY <2>5
    <3>2. ASSUME NEW k \in 1 .. benchmark.sizes, NEW i \in 0 .. Rounds(benchmark, m, k) - 1
          PROVE  Matched(m, p, "isend", q, tag, k, i)' = Matched(m, q, "irecv", p, tag, k, i)'
      <4>1. Matched(m, p, "isend", q, tag, k, i) = Matched(m, q, "irecv", p, tag, k, i)
        BY <2>4 DEF Balanced
      <4>2. "isend" \in Posting /\ "irecv" \in Posting
        BY DEF Posting
      <4>3. /\ Matched(m, p, "isend", q, tag, k, i)' = Matched(m, p, "isend", q, tag, k, i)
            /\ Matched(m, q, "irecv", p, tag, k, i)' = Matched(m, q, "irecv", p, tag, k, i)
        BY <2>3, <2>4, <3>1, <4>2, MatchedStays
      <4> QED BY <4>1, <4>3
    <3> QED BY <2>2, <3>2 DEF Balanced
  <2>6. CASE \E p2, q2 \in Ranks : \E t : Meets(p2, q2, t)
    BY <2>3, <2>4, <2>6, BalanceWhenMeets
  <2>7. CASE Halts
    <3>1. at' = at /\ sends' = sends /\ recvs' = recvs
      BY <2>7 DEF Halts, messages
    <3>2. ASSUME NEW r, NEW op, NEW peer, NEW k, NEW i
          PROVE  Matched(m, r, op, peer, tag, k, i)' = Matched(m, r, op, peer, tag, k, i)
      BY <2>2, <3>1 DEF Matched, Executed, Unmatched, Queue
    <3> QED BY <2>2, <2>4, <3>2 DEF Balanced
  <2> QED BY <2>3, <2>5, <2>6, <2>7, StepMails
<1> QED BY <1>1, <1>2, PlaceInvariance, IterationInvariance, OptionsInvariance,
           PostedInvariance, PTL DEF WinSpec

(***************************************************************************)
(* The message that meets a receive was sent in the same iteration for the *)
(* same size, with as much data: in every program that exchanges its       *)
(* messages in one section of a size, as often in each direction of a      *)
(* channel, although tags say nothing of sizes and iterations.             *)
(***************************************************************************)
THEOREM MessagesTheorem ==
  WinSpec => [](WellFormed(benchmark) /\ (\E m : Messaging(benchmark, m)) => SameTrial)
<1>1. PlaceInv /\ PostedInv /\ BalanceInv
        => (WellFormed(benchmark) /\ (\E m : Messaging(benchmark, m)) => SameTrial)
  <2> SUFFICES ASSUME PlaceInv, PostedInv, BalanceInv, WellFormed(benchmark),
                      NEW m, Messaging(benchmark, m), NEW p \in Ranks, NEW q \in Ranks, NEW tag,
                      Meeting(p, q, tag)
               PROVE  LET s == sends[p][First(sends[p], q, tag)]
                          v == recvs[q][First(recvs[q], p, tag)]
                      IN  s.kind = v.kind /\ s.size = v.size /\ s.iter = v.iter
    BY DEF SameTrial
  <2>1. Placed
    BY DEF PlaceInv
  <2> QED BY <2>1, HeadsAgree
<1> QED BY <1>1, PlaceInvariance, PostedInvariance, BalanceInvariance, PTL

-----------------------------------------------------------------------------
(***************************************************************************)
(* Answers.  A rank that has waited for the answer to its messages knows   *)
(* that they have been received: the other one answers after it has        *)
(* completed its receives.                                                 *)
(***************************************************************************)
\* Statement w completes all receives of section m from peer with tag.
Drains(b, m, r, k, w, peer, tag) ==
  /\ w \in 1 .. Len(Sections(b, r, k)[m].ops)
  /\ Sections(b, r, k)[m].ops[w].op = "waitrecvs"
  /\ \A n \in Marked(b, m, r, k, "irecv", peer, tag) : n < w

Answers(b, m, p, q, k, tag) ==
  /\ q \in 0 .. b.np - 1 /\ Connects(b, m, p, q, tag)
  /\ \E back : /\ Connects(b, m, q, p, back)
               /\ \E w : Drains(b, m, p, k, w, q, back)
               /\ \E u \in Marked(b, m, q, k, "isend", p, back) :
                    \E w \in 1 .. u - 1 : Drains(b, m, q, k, w, p, tag)

Answered(b, m) ==
  b.fits => \A p \in 0 .. b.np - 1 : p < b.np \div 2 =>
    /\ \A k \in 0 .. b.sizes + 1 : \A s \in 1 .. Len(Sections(b, p, k)) :
         \A n \in 1 .. Len(Sections(b, p, k)[s].ops) :
           Sections(b, p, k)[s].ops[n].op = "t_end" => k \in 1 .. b.sizes /\ s > m
    /\ \A k \in 1 .. b.sizes : \A n \in 1 .. Len(Sections(b, p, k)[m].ops) :
         LET o == Sections(b, p, k)[m].ops[n]
         IN  o.op = "isend" => Answers(b, m, p, o.peer, k, o.tag)

LEMMA AtNumbers ==
  ASSUME WellFormed(benchmark), Placed, NEW r \in Ranks
  PROVE  /\ at[r].size \in Nat /\ at[r].seg \in Nat /\ at[r].iter \in Nat /\ at[r].pos \in Nat
<1>1. CASE at[r] = Over
  BY <1>1, CodeIsSections DEF Over, WellFormed
<1>2. CASE at[r] # Over
  BY <1>2, SpotNumbers DEF Placed, Somewhere
<1> QED BY <1>1, <1>2

LEMMA EarlierStill ==
  ASSUME NEW a, a.pos \in Nat, NEW k, NEW m, NEW i, NEW w \in Nat, NEW n \in Nat, n < w,
         Earlier(Place(k, m, i, w), a)
  PROVE  Earlier(Place(k, m, i, n), a)
<1>1. \/ k < a.size
      \/ /\ k = a.size
         /\ \/ m < a.seg
            \/ m = a.seg /\ (i < a.iter \/ (i = a.iter /\ w < a.pos))
  BY DEF Earlier, Place
<1>2. w < a.pos => n < a.pos
  OBVIOUS
<1>3. \/ k < a.size
      \/ /\ k = a.size
         /\ \/ m < a.seg
            \/ m = a.seg /\ (i < a.iter \/ (i = a.iter /\ n < a.pos))
  BY <1>1, <1>2
<1> QED BY <1>3 DEF Earlier, Place

\* A rank that is past the completion of its receives has matched them all.
LEMMA AllMatched ==
  ASSUME WellFormed(benchmark), Placed, PostedInv, NEW m, Messaging(benchmark, m),
         NEW r \in Ranks, NEW k \in 1 .. benchmark.sizes, NEW i \in Nat, NEW peer, NEW tag,
         NEW w, Drains(benchmark, m, r, k, w, peer, tag), Earlier(Place(k, m, i, w), at[r])
  PROVE  Matched(m, r, "irecv", peer, tag, k, i) =
           Cardinality(Marked(benchmark, m, r, k, "irecv", peer, tag))
<1>1. PICK M : M = Marked(benchmark, m, r, k, "irecv", peer, tag)
  OBVIOUS
<1>2. PICK ops : ops = Sections(benchmark, r, k)[m].ops
  OBVIOUS
<1>3. /\ w \in 1 .. Len(ops) /\ ops[w].op = "waitrecvs"
      /\ \A n \in M : n < w /\ n \in 1 .. Len(ops)
  BY <1>1, <1>2 DEF Drains, Marked
<1>4. Executed(m, r, "irecv", peer, tag, k, i) = M
  <2>1. at[r].pos \in Nat
    BY AtNumbers
  <2>2. \A n \in M : n \in Nat /\ w \in Nat /\ n < w
    BY <1>3
  <2>3. \A n \in M : Earlier(Place(k, m, i, n), at[r])
    BY <2>1, <2>2, EarlierStill
  <2> QED BY <1>1, <2>3 DEF Executed
<1>5. PICK f : f = Queue(r, "irecv")
  OBVIOUS
<1>6. \A x \in DOMAIN f : EntryAt(benchmark, m, r, "irecv", f[x], at[r])
  BY <1>5 DEF PostedInv, Posts, Posting
<1>7. Unmatched(f, peer, tag, k, i) = {}
  <2>1. ASSUME NEW x \in Unmatched(f, peer, tag, k, i) PROVE FALSE
    <3>1. /\ x \in DOMAIN f /\ f[x].peer = peer /\ f[x].tag = tag
          /\ f[x].size = k /\ f[x].iter = i
      BY DEF Unmatched
    <3>2. EntryAt(benchmark, m, r, "irecv", f[x], at[r])
      BY <1>6, <3>1
    <3>3. PICK n \in M : \A y \in n + 1 .. Len(ops) :
            ops[y].op = "waitrecvs" => ~Earlier(Place(k, m, i, y), at[r])
      BY <1>1, <1>2, <3>1, <3>2 DEF EntryAt
    <3>4. w \in n + 1 .. Len(ops)
      BY <1>3
    <3> QED BY <1>3, <3>3, <3>4
  <2> QED BY <2>1
<1>8. IsFiniteSet(M)
  BY <1>1, MarkedIsFinite
<1>9. Cardinality(M) \in Nat /\ Cardinality({}) = 0
  BY <1>8, FS_CardinalityType, FS_EmptySet
<1>10. Matched(m, r, "irecv", peer, tag, k, i) = Cardinality(M) - Cardinality({})
  BY <1>4, <1>5, <1>7 DEF Matched
<1> QED BY <1>1, <1>9, <1>10

\* How many are matched at most.
LEMMA MatchedIs ==
  ASSUME WellFormed(benchmark), PostedInv, NEW m, Messaging(benchmark, m),
         NEW r \in Ranks, NEW op \in Posting, NEW k \in 1 .. benchmark.sizes, NEW i,
         NEW peer, NEW tag,
         Matched(m, r, op, peer, tag, k, i) =
           Cardinality(Marked(benchmark, m, r, k, op, peer, tag))
  PROVE  /\ Executed(m, r, op, peer, tag, k, i) = Marked(benchmark, m, r, k, op, peer, tag)
         /\ Unmatched(Queue(r, op), peer, tag, k, i) = {}
<1>1. PICK M : M = Marked(benchmark, m, r, k, op, peer, tag)
  OBVIOUS
<1>2. PICK E : E = Executed(m, r, op, peer, tag, k, i)
  OBVIOUS
<1>3. PICK U : U = Unmatched(Queue(r, op), peer, tag, k, i)
  OBVIOUS
<1>4. IsFiniteSet(M) /\ E \in SUBSET M
  BY <1>1, <1>2, MarkedIsFinite DEF Executed
<1>5. IsSequence(Queue(r, op))
  BY DEF PostedInv, Posts
<1>6. IsFiniteSet(U)
  BY <1>3, <1>5, UnmatchedIsFinite
<1>7. /\ IsFiniteSet(E) /\ Cardinality(E) <= Cardinality(M)
      /\ Cardinality(M) = Cardinality(E) => M = E
  BY <1>4, FS_Subset
<1>8. Cardinality(M) \in Nat /\ Cardinality(E) \in Nat /\ Cardinality(U) \in Nat
  BY <1>4, <1>6, <1>7, FS_CardinalityType
<1>9. Cardinality(M) = Cardinality(E) - Cardinality(U)
  BY <1>1, <1>2, <1>3 DEF Matched
<1>10. Cardinality(M) = Cardinality(E) /\ Cardinality(U) = 0
  BY <1>7, <1>8, <1>9
<1>11. U = {}
  BY <1>6, <1>10, FS_EmptySet
<1> QED BY <1>1, <1>2, <1>3, <1>7, <1>10, <1>11

LEMMA NothingUnderWay ==
  ASSUME PlaceInv, PostedInv, BalanceInv, WellFormed(benchmark),
         NEW m, Messaging(benchmark, m), Answered(benchmark, m),
         NEW p \in Ranks, p < benchmark.np \div 2, At(p, "t_end")
  PROVE  sends[p] = <<>>
<1> SUFFICES ASSUME sends[p] # <<>> PROVE FALSE
  OBVIOUS
<1>1. /\ Placed /\ p \in 0 .. benchmark.np - 1
      /\ IsSequence(sends[p]) /\ sends[p] = Queue(p, "isend")
      /\ \A x \in DOMAIN sends[p] : Usable /\ EntryAt(benchmark, m, p, "isend", sends[p][x], at[p])
      /\ "isend" \in Posting /\ "irecv" \in Posting
  BY DEF PlaceInv, PostedInv, Posts, Posting, Queue, Ranks
<1>2. PICK x : x \in DOMAIN sends[p]
  <2>1. DOMAIN sends[p] = 1 .. Len(sends[p]) /\ Len(sends[p]) \in Nat
    BY <1>1, SequenceDomain
  <2>2. Len(sends[p]) # 0
    BY <1>1 DEF IsSequence
  <2>3. 1 \in DOMAIN sends[p]
    BY <2>1, <2>2
  <2> QED BY <2>3
<1>3. PICK e : e = sends[p][x]
  OBVIOUS
<1>4. Usable /\ EntryAt(benchmark, m, p, "isend", e, at[p])
  BY <1>1, <1>2, <1>3
<1>5. PICK k \in 1 .. benchmark.sizes : k = e.size
  BY <1>4 DEF EntryAt
<1>6. PICK i \in 0 .. Rounds(benchmark, m, k) - 1 : i = e.iter
  BY <1>4, <1>5 DEF EntryAt
<1>7. k \in Nat /\ i \in Nat /\ m \in Nat
  <2>1. k \in Nat /\ Rounds(benchmark, m, k) \in Nat \ {0}
    BY RoundsIs DEF WellFormed
  <2> QED BY <2>1 DEF Messaging
<1>8. PICK q : q = e.peer
  OBVIOUS
<1>9. PICK tag : tag = e.tag
  OBVIOUS
<1>10. PICK j : /\ j \in Marked(benchmark, m, p, k, "isend", q, tag)
                /\ Earlier(Place(k, m, i, j), at[p])
  BY <1>4, <1>5, <1>6, <1>8, <1>9 DEF EntryAt
<1>11. benchmark.fits
  BY <1>4 DEF Usable
<1>12. at[p] # Over /\ IsSpot(benchmark, p, at[p])
       /\ OpsIn(benchmark, p, at[p])[at[p].pos].op = "t_end"
  <2>1. at[p] # Over /\ Op(p).op = "t_end"
    BY DEF At, Running
  <2> QED BY <1>1, <2>1, OpIsAt DEF Placed, Somewhere
<1>13. at[p].seg > m
  <2>1. /\ at[p].size \in 0 .. benchmark.sizes + 1
        /\ at[p].seg \in 1 .. Len(Sections(benchmark, p, at[p].size))
        /\ at[p].pos \in 1 .. Len(OpsIn(benchmark, p, at[p]))
    BY <1>12, SpotHasOp
  <2>2. PICK l \in 0 .. benchmark.sizes + 1 : l = at[p].size
    BY <2>1
  <2>3. PICK s \in 1 .. Len(Sections(benchmark, p, l)) : s = at[p].seg
    BY <2>1, <2>2
  <2>4. OpsIn(benchmark, p, at[p]) = Sections(benchmark, p, l)[s].ops
    BY <2>2, <2>3 DEF OpsIn, SectionIn
  <2>5. PICK n \in 1 .. Len(Sections(benchmark, p, l)[s].ops) : n = at[p].pos
    BY <2>1, <2>4
  <2>6. Sections(benchmark, p, l)[s].ops[n].op = "t_end"
          => l \in 1 .. benchmark.sizes /\ s > m
    BY <1>1, <1>11, Zenon DEF Answered
  <2> QED BY <1>12, <2>3, <2>4, <2>5, <2>6
\* The rank is past the section in which it sent the message.
<1>14. \A n : Earlier(Place(k, m, i, n), at[p])
  <2>1. at[p].size \in Nat /\ at[p].seg \in Nat
    BY <1>1, AtNumbers
  <2>2. k <= at[p].size
    BY <1>7, <1>10, <2>1 DEF Earlier, Place
  <2>3. k < at[p].size \/ (k = at[p].size /\ m < at[p].seg)
    BY <1>7, <1>13, <2>1, <2>2
  <2> QED BY <2>3 DEF Earlier, Place
<1>15. Answers(benchmark, m, p, q, k, tag)
  <2>1. PICK n \in 1 .. Len(Sections(benchmark, p, k)[m].ops) :
          /\ Sections(benchmark, p, k)[m].ops[n].op = "isend"
          /\ Sections(benchmark, p, k)[m].ops[n].peer = q
          /\ Sections(benchmark, p, k)[m].ops[n].tag = tag
    BY <1>10 DEF Marked
  <2>2. Answers(benchmark, m, p, Sections(benchmark, p, k)[m].ops[n].peer, k,
                Sections(benchmark, p, k)[m].ops[n].tag)
    BY <1>1, <1>11, <2>1, Zenon DEF Answered
  <2> QED BY <2>1, <2>2
<1>16. q \in Ranks /\ Connects(benchmark, m, p, q, tag)
  BY <1>15 DEF Answers, Ranks
<1>17. PICK back : /\ Connects(benchmark, m, q, p, back)
                   /\ \E w : Drains(benchmark, m, p, k, w, q, back)
                   /\ \E u \in Marked(benchmark, m, q, k, "isend", p, back) :
                        \E w \in 1 .. u - 1 : Drains(benchmark, m, q, k, w, p, tag)
  BY <1>15 DEF Answers
<1>18. /\ Matches(benchmark, m, p, q, tag) /\ Matches(benchmark, m, q, p, back)
       /\ Balanced(m, p, q, tag) /\ Balanced(m, q, p, back)
  <2>1. Matches(benchmark, m, p, q, tag) /\ Matches(benchmark, m, q, p, back)
    BY <1>1, <1>16, <1>17 DEF Messaging, Ranks
  <2> QED BY <1>4, <1>16, <2>1 DEF BalanceInv
\* It has received the answer, so the answer was sent,
<1>19. Executed(m, q, "isend", p, back, k, i) = Marked(benchmark, m, q, k, "isend", p, back)
  <2>1. Matched(m, p, "irecv", q, back, k, i) =
          Cardinality(Marked(benchmark, m, p, k, "irecv", q, back))
    <3>1. PICK w : Drains(benchmark, m, p, k, w, q, back)
      BY <1>17
    <3>2. Earlier(Place(k, m, i, w), at[p])
      BY <1>14
    <3> QED BY <1>1, <1>7, <3>1, <3>2, AllMatched
  <2>2. Matched(m, q, "isend", p, back, k, i) = Matched(m, p, "irecv", q, back, k, i)
    BY <1>18 DEF Balanced
  <2>3. Cardinality(Marked(benchmark, m, q, k, "isend", p, back)) =
          Cardinality(Marked(benchmark, m, p, k, "irecv", q, back))
    BY <1>18 DEF Matches
  <2> QED BY <1>1, <1>16, <2>1, <2>2, <2>3, MatchedIs
\* and before it was sent, the messages had been received.
<1>20. Unmatched(Queue(p, "isend"), q, tag, k, i) = {}
  <2>1. PICK u \in Marked(benchmark, m, q, k, "isend", p, back) :
          \E w \in 1 .. u - 1 : Drains(benchmark, m, q, k, w, p, tag)
    BY <1>17
  <2>2. PICK w \in 1 .. u - 1 : Drains(benchmark, m, q, k, w, p, tag)
    BY <2>1
  <2>3. u \in Nat /\ w \in Nat /\ w < u
    BY <2>1 DEF Marked
  <2>4. Earlier(Place(k, m, i, u), at[q])
    BY <1>19, <2>1 DEF Executed
  <2>5. at[q].pos \in Nat
    BY <1>1, <1>16, AtNumbers
  <2>6. Earlier(Place(k, m, i, w), at[q])
    BY <2>3, <2>4, <2>5, EarlierStill
  <2>7. Matched(m, q, "irecv", p, tag, k, i) =
          Cardinality(Marked(benchmark, m, q, k, "irecv", p, tag))
    BY <1>1, <1>7, <1>16, <2>2, <2>6, AllMatched
  <2>8. Matched(m, p, "isend", q, tag, k, i) = Matched(m, q, "irecv", p, tag, k, i)
    BY <1>18 DEF Balanced
  <2>9. Cardinality(Marked(benchmark, m, p, k, "isend", q, tag)) =
          Cardinality(Marked(benchmark, m, q, k, "irecv", p, tag))
    BY <1>18 DEF Matches
  <2> QED BY <1>1, <2>7, <2>8, <2>9, MatchedIs
<1>21. x \in Unmatched(Queue(p, "isend"), q, tag, k, i)
  BY <1>1, <1>2, <1>3, <1>5, <1>6, <1>8, <1>9 DEF Unmatched
<1> QED BY <1>20, <1>21

(***************************************************************************)
(* In a program in which every sending rank waits for an answer to what it *)
(* sent, and stops its timer in a later section, nothing that it sent is   *)
(* still on its way when it stops the timer.                               *)
(***************************************************************************)
THEOREM TransferTheorem ==
  WinSpec => [](WellFormed(benchmark) /\ (\E m : Messaging(benchmark, m) /\ Answered(benchmark, m))
                  => TransferOverWhenTimerStops)
<1>1. PlaceInv /\ PostedInv /\ BalanceInv
        => (WellFormed(benchmark) /\ (\E m : Messaging(benchmark, m) /\ Answered(benchmark, m))
              => TransferOverWhenTimerStops)
  <2> SUFFICES ASSUME PlaceInv, PostedInv, BalanceInv, WellFormed(benchmark),
                      NEW m, Messaging(benchmark, m), Answered(benchmark, m),
                      NEW p \in Ranks, p < benchmark.np \div 2, At(p, "t_end")
               PROVE  sends[p] = <<>>
    BY DEF TransferOverWhenTimerStops
  <2> QED BY NothingUnderWay
<1> QED BY <1>1, PlaceInvariance, PostedInvariance, BalanceInvariance, PTL

-----------------------------------------------------------------------------
(***************************************************************************)
(* The exchanges themselves.  In an iteration a rank sends messages of one *)
(* kind in a row and receives messages of one kind in a row.               *)
(***************************************************************************)
\* The statements of ops named op are n in a row, with the given envelope.
Carries(ops, op, a, n) ==
  \E i \in Nat :
    /\ i + n <= Len(ops)
    /\ \A x \in 1 .. Len(ops) :
         /\ ops[x].op = op <=> x \in i + 1 .. i + n
         /\ ops[x].op = op => ops[x].peer = a.peer /\ ops[x].tag = a.tag /\ ops[x].kind = a.kind

\* ops sends n messages as in `to' and receives m as in `from'.
Talks(ops, to, n, from, m) ==
  /\ n \in Nat /\ m \in Nat
  /\ Avoids(ops, {"options", "t_end"})
  /\ \A x \in 1 .. Len(ops) : ops[x].op \in Mailing => ~ops[x].at_skip
  /\ Carries(ops, "isend", to, n)
  /\ Carries(ops, "irecv", from, m)

\* The receives are completed in ops, and that before anything is sent.
Draining(ops) ==
  \E w \in 1 .. Len(ops) : /\ ops[w].op = "waitrecvs"
                           /\ \A x \in 1 .. Len(ops) : ops[x].op = "irecv" => x < w

Replying(ops) ==
  \E w \in 1 .. Len(ops) : /\ ops[w].op = "waitrecvs"
                           /\ \A x \in 1 .. Len(ops) : /\ ops[x].op = "irecv" => x < w
                                                       /\ ops[x].op = "isend" => w < x

LEMMA CarriesJoined ==
  ASSUME NEW f, NEW g, IsSequence(f), IsSequence(g), NEW op, NEW a, NEW n \in Nat, NEW m \in Nat,
         Carries(f, op, a, n), Carries(g, op, a, m), n = 0 \/ m = 0
  PROVE  Carries(f \o g, op, a, n + m)
<1>1. PICK h : h = f \o g
  OBVIOUS
<1>2. PICK lf \in Nat, lg \in Nat : lf = Len(f) /\ lg = Len(g)
  BY DEF IsSequence
<1>3. /\ Len(h) = lf + lg
      /\ \A x \in 1 .. Len(h) : \/ x \in 1 .. lf /\ h[x] = f[x]
                                \/ x - lf \in 1 .. lg /\ h[x] = g[x - lf]
  BY <1>1, <1>2, Joined
<1>4. PICK i \in Nat : /\ i + n <= lf
                       /\ \A x \in 1 .. lf :
                            /\ f[x].op = op <=> x \in i + 1 .. i + n
                            /\ f[x].op = op => /\ f[x].peer = a.peer /\ f[x].tag = a.tag
                                               /\ f[x].kind = a.kind
  BY <1>2 DEF Carries
<1>5. PICK j \in Nat : /\ j + m <= lg
                       /\ \A x \in 1 .. lg :
                            /\ g[x].op = op <=> x \in j + 1 .. j + m
                            /\ g[x].op = op => /\ g[x].peer = a.peer /\ g[x].tag = a.tag
                                               /\ g[x].kind = a.kind
  BY <1>2 DEF Carries
<1>6. \A x \in 1 .. Len(h) :
        h[x].op = op => h[x].peer = a.peer /\ h[x].tag = a.tag /\ h[x].kind = a.kind
  BY <1>3, <1>4, <1>5
<1>7. ASSUME m = 0 PROVE Carries(h, op, a, n + m)
  <2>1. i + (n + m) <= Len(h)
    BY <1>3, <1>4, <1>7
  <2>2. ASSUME NEW x \in 1 .. Len(h) PROVE h[x].op = op <=> x \in i + 1 .. i + (n + m)
    <3>1. CASE x \in 1 .. lf /\ h[x] = f[x]
      BY <1>4, <1>7, <3>1
    <3>2. CASE x - lf \in 1 .. lg /\ h[x] = g[x - lf]
      <4>1. h[x].op # op
        BY <1>5, <1>7, <3>2
      <4>2. x \notin i + 1 .. i + (n + m)
        BY <1>4, <1>7, <3>2
      <4> QED BY <4>1, <4>2
    <3> QED BY <1>3, <3>1, <3>2
  <2> QED BY <1>6, <2>1, <2>2 DEF Carries
<1>8. ASSUME n = 0 PROVE Carries(h, op, a, n + m)
  <2>1. PICK l \in Nat : l = lf + j
    OBVIOUS
  <2>2. l + (n + m) <= Len(h)
    BY <1>3, <1>5, <1>8, <2>1
  <2>3. ASSUME NEW x \in 1 .. Len(h) PROVE h[x].op = op <=> x \in l + 1 .. l + (n + m)
    <3>1. CASE x \in 1 .. lf /\ h[x] = f[x]
      <4>1. h[x].op # op
        BY <1>4, <1>8, <3>1
      <4>2. x \notin l + 1 .. l + (n + m)
        BY <1>8, <2>1, <3>1
      <4> QED BY <4>1, <4>2
    <3>2. CASE x - lf \in 1 .. lg /\ h[x] = g[x - lf]
      <4>1. h[x].op = op <=> x - lf \in j + 1 .. j + m
        BY <1>5, <3>2
      <4>2. x - lf \in j + 1 .. j + m <=> x \in l + 1 .. l + (n + m)
        BY <1>8, <2>1
      <4> QED BY <4>1, <4>2
    <3> QED BY <1>3, <3>1, <3>2
  <2> QED BY <1>6, <2>2, <2>3 DEF Carries
<1> QED BY <1>1, <1>7, <1>8

LEMMA TalksJoined ==
  ASSUME NEW f, NEW g, NEW to, NEW from, NEW n, NEW m, NEW n2, NEW m2,
         Talks(f, to, n, from, m), Talks(g, to, n2, from, m2), n = 0 \/ n2 = 0, m = 0 \/ m2 = 0
  PROVE  Talks(f \o g, to, n + n2, from, m + m2)
<1>1. IsSequence(f) /\ IsSequence(g) /\ n \in Nat /\ n2 \in Nat /\ m \in Nat /\ m2 \in Nat
  BY DEF Talks, Avoids
<1>2. n + n2 \in Nat /\ m + m2 \in Nat
  BY <1>1
<1>3. Avoids(f \o g, {"options", "t_end"})
  BY AvoidsJoined DEF Talks
<1>4. Carries(f \o g, "isend", to, n + n2) /\ Carries(f \o g, "irecv", from, m + m2)
  BY <1>1, CarriesJoined DEF Talks
<1>5. PICK h : h = f \o g
  OBVIOUS
<1>6. \A x \in 1 .. Len(h) : h[x].op \in Mailing => ~h[x].at_skip
  <2>1. \A x \in 1 .. Len(h) : \/ x \in 1 .. Len(f) /\ h[x] = f[x]
                               \/ x - Len(f) \in 1 .. Len(g) /\ h[x] = g[x - Len(f)]
    BY <1>1, <1>5, Joined
  <2> QED BY <2>1 DEF Talks
<1> QED BY <1>2, <1>3, <1>4, <1>5, <1>6 DEF Talks

LEMMA DrainingJoined ==
  ASSUME NEW f, NEW g, IsSequence(f), IsSequence(g)
  PROVE  /\ Draining(g) => Draining(f \o g)
         /\ Draining(f) /\ Avoids(f, {"isend"}) /\ Avoids(g, {"irecv"}) => Replying(f \o g)
         /\ Avoids(f, {"isend", "irecv"}) /\ Replying(g) => Replying(f \o g)
<1>1. PICK h : h = f \o g
  OBVIOUS
<1>2. PICK lf \in Nat, lg \in Nat : lf = Len(f) /\ lg = Len(g)
  BY DEF IsSequence
<1>3. /\ Len(h) = lf + lg
      /\ \A x \in 1 .. lf : h[x] = f[x]
      /\ \A x \in 1 .. lg : h[lf + x] = g[x]
      /\ \A x \in 1 .. Len(h) : \/ x \in 1 .. lf /\ h[x] = f[x]
                                \/ x - lf \in 1 .. lg /\ h[x] = g[x - lf]
  BY <1>1, <1>2, Joined
<1>4. ASSUME Draining(g) PROVE Draining(h)
  <2>1. PICK w \in 1 .. lg : g[w].op = "waitrecvs" /\ \A x \in 1 .. lg : g[x].op = "irecv" => x < w
    BY <1>2, <1>4 DEF Draining
  <2>2. PICK v : v = lf + w
    OBVIOUS
  <2>3. v \in 1 .. Len(h) /\ h[v].op = "waitrecvs"
    BY <1>3, <2>1, <2>2
  <2>4. ASSUME NEW x \in 1 .. Len(h), h[x].op = "irecv" PROVE x < v
    BY <1>3, <2>1, <2>2, <2>4
  <2> QED BY <2>3, <2>4 DEF Draining
<1>5. ASSUME Draining(f), Avoids(f, {"isend"}), Avoids(g, {"irecv"}) PROVE Replying(h)
  <2>1. PICK w \in 1 .. lf : f[w].op = "waitrecvs" /\ \A x \in 1 .. lf : f[x].op = "irecv" => x < w
    BY <1>2, <1>5 DEF Draining
  <2>2. w \in 1 .. Len(h) /\ h[w].op = "waitrecvs"
    BY <1>3, <2>1
  <2>3. (\A x \in 1 .. lf : f[x].op # "isend") /\ (\A x \in 1 .. lg : g[x].op # "irecv")
    BY <1>2, <1>5 DEF Avoids
  <2>4. ASSUME NEW x \in 1 .. Len(h)
        PROVE  (h[x].op = "irecv" => x < w) /\ (h[x].op = "isend" => w < x)
    BY <1>3, <2>1, <2>3
  <2> QED BY <2>2, <2>4 DEF Replying
<1>6. ASSUME Avoids(f, {"isend", "irecv"}), Replying(g) PROVE Replying(h)
  <2>1. PICK w \in 1 .. lg : /\ g[w].op = "waitrecvs"
                             /\ \A x \in 1 .. lg : /\ g[x].op = "irecv" => x < w
                                                   /\ g[x].op = "isend" => w < x
    BY <1>2, <1>6 DEF Replying
  <2>2. PICK v : v = lf + w
    OBVIOUS
  <2>3. v \in 1 .. Len(h) /\ h[v].op = "waitrecvs"
    BY <1>3, <2>1, <2>2
  <2>4. \A x \in 1 .. lf : f[x].op # "isend" /\ f[x].op # "irecv"
    BY <1>2, <1>6 DEF Avoids
  <2>5. ASSUME NEW x \in 1 .. Len(h)
        PROVE  (h[x].op = "irecv" => x < v) /\ (h[x].op = "isend" => v < x)
    BY <1>3, <2>1, <2>2, <2>4
  <2> QED BY <2>3, <2>5 DEF Replying
<1> QED BY <1>1, <1>4, <1>5, <1>6

\* The pieces.
LEMMA MessageIs ==
  \A op, peer, tag, kind :
    LET o == Message(op, peer, tag, kind)
    IN  o.op = op /\ o.peer = peer /\ o.tag = tag /\ o.kind = kind /\ ~o.at_skip
BY DEF Message, Do

LEMMA CarriesNone ==
  ASSUME NEW ops, NEW op, Avoids(ops, {op}), NEW a
  PROVE  Carries(ops, op, a, 0)
<1>1. Len(ops) \in Nat /\ \A x \in 1 .. Len(ops) : ops[x].op # op
  BY DEF Avoids, IsSequence
<1>2. 0 \in Nat /\ 0 + 0 <= Len(ops) /\ \A x \in 1 .. Len(ops) : x \notin 0 + 1 .. 0 + 0
  BY <1>1
<1> QED BY <1>1, <1>2 DEF Carries

LEMMA Silent ==
  ASSUME NEW ops, Avoids(ops, {"isend", "irecv", "options", "t_end"}),
         \A x \in 1 .. Len(ops) : ops[x].op \in Mailing => ~ops[x].at_skip, NEW to, NEW from
  PROVE  Talks(ops, to, 0, from, 0)
<1>1. Avoids(ops, {"isend"}) /\ Avoids(ops, {"irecv"}) /\ Avoids(ops, {"options", "t_end"})
  BY DEF Avoids
<1> QED BY <1>1, CarriesNone DEF Talks

LEMMA OneMessage ==
  ASSUME NEW op \in {"isend", "irecv"}, NEW a, NEW c,
         c.op \notin {"isend", "irecv", "options", "t_end"}, ~c.at_skip, NEW to, NEW from
  PROVE  LET f == <<Message(op, a.peer, a.tag, a.kind), c>>
         IN  /\ op = "isend" /\ to = a => Talks(f, to, 1, from, 0) /\ Avoids(f, {"irecv"})
             /\ op = "irecv" /\ from = a => Talks(f, to, 0, from, 1) /\ Avoids(f, {"isend"})
             /\ op = "irecv" /\ c.op = "waitrecvs" => Draining(f)
<1>1. PICK o : o = Message(op, a.peer, a.tag, a.kind)
  OBVIOUS
<1>2. o.op = op /\ o.peer = a.peer /\ o.tag = a.tag /\ o.kind = a.kind /\ ~o.at_skip
  BY <1>1, MessageIs
<1>3. PICK f : f = <<o, c>>
  OBVIOUS
<1>4. IsSequence(f) /\ Len(f) = 2 /\ f[1] = o /\ f[2] = c
  BY <1>3, ShortSequences
<1>5. \A x \in 1 .. Len(f) : x = 1 \/ x = 2
  BY <1>4
<1>6. Avoids(f, {"options", "t_end"}) /\ Avoids(f, {"isend", "irecv"} \ {op})
  BY <1>2, <1>4, <1>5 DEF Avoids
<1>7. Carries(f, op, a, 1)
  <2>1. 0 \in Nat /\ 0 + 1 <= Len(f)
    BY <1>4
  <2>2. ASSUME NEW x \in 1 .. Len(f)
        PROVE  /\ f[x].op = op <=> x \in 0 + 1 .. 0 + 1
               /\ f[x].op = op => f[x].peer = a.peer /\ f[x].tag = a.tag /\ f[x].kind = a.kind
    <3>1. CASE x = 1
      BY <1>2, <1>4, <3>1
    <3>2. CASE x = 2
      BY <1>2, <1>4, <3>2
    <3> QED BY <1>5, <3>1, <3>2
  <2> QED BY <2>1, <2>2 DEF Carries
<1>8. \A x \in 1 .. Len(f) : ~f[x].at_skip
  BY <1>2, <1>4, <1>5
<1>9. ASSUME op = "isend", to = a PROVE Talks(f, to, 1, from, 0) /\ Avoids(f, {"irecv"})
  <2>1. Avoids(f, {"irecv"})
    BY <1>6, <1>9 DEF Avoids
  <2> QED BY <1>6, <1>7, <1>8, <1>9, <2>1, CarriesNone DEF Talks
<1>10. ASSUME op = "irecv", from = a PROVE Talks(f, to, 0, from, 1) /\ Avoids(f, {"isend"})
  <2>1. Avoids(f, {"isend"})
    BY <1>6, <1>10 DEF Avoids
  <2> QED BY <1>6, <1>7, <1>8, <1>10, <2>1, CarriesNone DEF Talks
<1>11. ASSUME op = "irecv", c.op = "waitrecvs" PROVE Draining(f)
  <2>1. 2 \in 1 .. Len(f) /\ f[2].op = "waitrecvs"
    BY <1>4, <1>11
  <2>2. \A x \in 1 .. Len(f) : f[x].op = "irecv" => x < 2
    BY <1>4, <1>5, <1>11
  <2> QED BY <2>1, <2>2 DEF Draining
<1> QED BY <1>1, <1>3, <1>9, <1>10, <1>11

-----------------------------------------------------------------------------
(***************************************************************************)
(* Programs whose second section for every size is the loop in which every *)
(* rank r sends to d.to[r] and receives from d.from[r], for size k         *)
(* d.out[k][r] and d.got[k][r] messages per iteration.                     *)
(***************************************************************************)
\* The first section for size k: it sets the options and sends nothing.
Prepares(ops, k) ==
  /\ Avoids(ops, Mailing \cup {"t_end"})
  /\ \E u \in 1 .. Len(ops) : /\ ops[u] = SetIfLarge(k)
                              /\ \A n \in 1 .. Len(ops) : ops[n].op = "options" => n = u

Converses(secs, k, to, n, from, m) ==
  /\ Len(secs) \in {2, 3}
  /\ ~secs[1].loop /\ Prepares(secs[1].ops, k)
  /\ secs[2].loop /\ Talks(secs[2].ops, to, n, from, m) /\ n # 0 /\ m # 0
  /\ Len(secs) = 3 => Avoids(secs[3].ops, Mailing \cup {"options"})

Around == Mailing \cup {"options", "t_end"}

IsDialogue(b, d) ==
  /\ WellFormed(b) /\ Avoids(b.start, Around) /\ Avoids(b.finish, Around)
  /\ \A k \in 1 .. b.sizes : \A r \in 0 .. b.np - 1 :
       Converses(b.body[k][r + 1], k, d.to[r], d.out[k][r], d.from[r], d.got[k][r])
  /\ \A p, q \in 0 .. b.np - 1 :
       d.to[p].peer = q /\ d.from[q].peer = p /\ d.to[p].tag = d.from[q].tag
         => d.to[p].kind = d.from[q].kind /\ \A k \in 1 .. b.sizes : d.out[k][p] = d.got[k][q]

\* Every one of the lower half of the ranks gets an answer.
IsAnswering(b, d) ==
  b.fits => \A p \in 0 .. b.np - 1 : p < b.np \div 2 =>
    \E q \in 0 .. b.np - 1 :
      /\ d.to[p].peer = q /\ d.from[q].peer = p /\ d.to[p].tag = d.from[q].tag
      /\ d.to[q].peer = p /\ d.from[p].peer = q /\ d.to[q].tag = d.from[p].tag
      /\ \A k \in 1 .. b.sizes : /\ Draining(b.body[k][p + 1][2].ops)
                                 /\ Replying(b.body[k][q + 1][2].ops)

LEMMA FrameAvoids ==
  ASSUME NEW ops, Avoids(ops, Around)
  PROVE  Avoids(<<Check>> \o ops, Around) /\ Avoids(ops \o <<Finalize>>, Around)
<1>1. Avoids(<<Check>>, Around) /\ Avoids(<<Finalize>>, Around)
  BY CallNames, ShortAvoids DEF Is, Around, Mailing
<1> QED BY <1>1, AvoidsJoined

LEMMA DialogueStatements ==
  ASSUME NEW b, NEW d, IsDialogue(b, d), NEW r \in 0 .. b.np - 1, NEW k \in 0 .. b.sizes + 1,
         NEW s \in 1 .. Len(Sections(b, r, k)), NEW n \in 1 .. Len(Sections(b, r, k)[s].ops)
  PROVE  LET o == Sections(b, r, k)[s].ops[n]
         IN  /\ o.op \in Mailing => k \in 1 .. b.sizes /\ s = 2 /\ ~o.at_skip
             /\ o.op = "options" => k \in 1 .. b.sizes /\ s = 1
             /\ o.op = "t_end" => k \in 1 .. b.sizes /\ s > 2
<1>1. b.sizes \in Nat
  BY DEF IsDialogue, WellFormed
<1>2. PICK secs : secs = Sections(b, r, k)
  OBVIOUS
<1>3. PICK ops : ops = secs[s].ops
  OBVIOUS
<1>4. s \in 1 .. Len(secs) /\ n \in 1 .. Len(ops)
  BY <1>2, <1>3
<1>5. CASE k \notin 1 .. b.sizes
  <2>1. PICK code : secs = <<Once(code)>> /\ Avoids(code, Around)
    <3>1. k = 0 \/ k = b.sizes + 1
      BY <1>1, <1>5
    <3>2. CASE k = 0
      BY <1>2, <3>2, FrameAvoids DEF Sections, IsDialogue
    <3>3. CASE k = b.sizes + 1
      <4>1. k # 0
        BY <1>1, <3>3
      <4> QED BY <1>2, <3>3, <4>1, FrameAvoids DEF Sections, IsDialogue
    <3> QED BY <3>1, <3>2, <3>3
  <2>2. Len(secs) = 1 /\ secs[1] = Once(code)
    BY <2>1, ShortSequences
  <2>3. ops = code
    BY <1>3, <1>4, <2>2 DEF Once
  <2>4. ops[n].op \notin Around
    BY <1>4, <2>1, <2>3 DEF Avoids
  <2> QED BY <1>2, <1>3, <2>4 DEF Around
<1>6. CASE k \in 1 .. b.sizes
  <2>1. Converses(secs, k, d.to[r], d.out[k][r], d.from[r], d.got[k][r])
    <3>1. secs = b.body[k][r + 1]
      <4>1. k # 0 /\ k # b.sizes + 1
        BY <1>1, <1>6
      <4> QED BY <1>2, <4>1 DEF Sections
    <3> QED BY <1>6, <3>1 DEF IsDialogue
  <2>2. s = 1 \/ s = 2 \/ (s = 3 /\ Len(secs) = 3)
    <3>1. PICK len : len = Len(secs)
      OBVIOUS
    <3>2. len = 2 \/ len = 3
      BY <2>1, <3>1 DEF Converses
    <3>3. s \in 1 .. len
      BY <1>4, <3>1
    <3>4. s = 1 \/ s = 2 \/ (s = 3 /\ len = 3)
      BY <3>2, <3>3
    <3> QED BY <3>1, <3>4
  <2>3. ASSUME s = 1 PROVE ops[n].op \notin Mailing \cup {"t_end"}
    BY <1>3, <1>4, <2>1, <2>3 DEF Converses, Prepares, Avoids
  <2>4. ASSUME s = 2
        PROVE  /\ ops[n].op \notin {"options", "t_end"}
               /\ ops[n].op \in Mailing => ~ops[n].at_skip
    BY <1>3, <1>4, <2>1, <2>4 DEF Converses, Talks, Avoids
  <2>5. ASSUME s = 3, Len(secs) = 3 PROVE ops[n].op \notin Mailing \cup {"options"}
    BY <1>3, <1>4, <2>1, <2>5 DEF Converses, Avoids
  <2>6. ops[n].op \in Mailing => s = 2 /\ ~ops[n].at_skip
    BY <2>2, <2>3, <2>4, <2>5
  <2>7. ops[n].op = "options" => s = 1
    BY <2>2, <2>4, <2>5
  <2>8. ops[n].op = "t_end" => s > 2
    BY <2>2, <2>3, <2>4
  <2> QED BY <1>2, <1>3, <1>6, <2>6, <2>7, <2>8
<1> QED BY <1>5, <1>6

Like(ops, op, peer, tag) ==
  {x \in 1 .. Len(ops) : ops[x].op = op /\ ops[x].peer = peer /\ ops[x].tag = tag}

LEMMA CarriedAre ==
  ASSUME NEW ops, IsSequence(ops), NEW op, NEW a, NEW n \in Nat, Carries(ops, op, a, n),
         NEW peer, NEW tag
  PROVE  /\ Cardinality(Like(ops, op, peer, tag)) = IF peer = a.peer /\ tag = a.tag THEN n ELSE 0
         /\ Like(ops, op, peer, tag) # {} <=> n # 0 /\ peer = a.peer /\ tag = a.tag
         /\ \A x \in Like(ops, op, peer, tag) : ops[x].kind = a.kind
<1>0. PICK M : M = Like(ops, op, peer, tag)
  OBVIOUS
<1>1. /\ Len(ops) \in Nat
      /\ \A x : x \in M <=> /\ x \in 1 .. Len(ops) /\ ops[x].op = op
                            /\ ops[x].peer = peer /\ ops[x].tag = tag
  BY <1>0 DEF IsSequence, Like
<1>2. PICK i \in Nat : /\ i + n <= Len(ops)
                       /\ \A x \in 1 .. Len(ops) :
                            /\ ops[x].op = op <=> x \in i + 1 .. i + n
                            /\ ops[x].op = op => /\ ops[x].peer = a.peer /\ ops[x].tag = a.tag
                                                 /\ ops[x].kind = a.kind
  BY DEF Carries
<1>3. \A x \in M : peer = a.peer /\ tag = a.tag /\ ops[x].kind = a.kind /\ x \in i + 1 .. i + n
  BY <1>1, <1>2
<1>4. CASE peer = a.peer /\ tag = a.tag
  <2>1. M = i + 1 .. i + n
    <3>1. \A x \in i + 1 .. i + n : x \in 1 .. Len(ops)
      BY <1>1, <1>2
    <3>2. \A x \in i + 1 .. i + n : x \in M
      BY <1>1, <1>2, <1>4, <3>1
    <3> QED BY <1>3, <3>2
  <2>2. Cardinality(i + 1 .. i + n) = n
    <3>1. i + 1 \in Int /\ i + n \in Int
      OBVIOUS
    <3>2. Cardinality(i + 1 .. i + n) = IF i + 1 > i + n THEN 0 ELSE (i + n) - (i + 1) + 1
      BY <3>1, FS_Interval
    <3> QED BY <3>2
  <2>3. i + 1 .. i + n # {} <=> n # 0
    <3>1. n # 0 => i + 1 \in i + 1 .. i + n
      OBVIOUS
    <3>2. n = 0 => \A x : x \notin i + 1 .. i + n
      OBVIOUS
    <3> QED BY <3>1, <3>2
  <2> QED BY <1>0, <1>3, <1>4, <2>1, <2>2, <2>3
<1>5. CASE ~(peer = a.peer /\ tag = a.tag)
  <2>1. M = {}
    BY <1>3, <1>5
  <2>2. Cardinality({}) = 0
    BY FS_EmptySet
  <2> QED BY <1>0, <1>5, <2>1, <2>2
<1> QED BY <1>4, <1>5

LEMMA Conversing ==
  ASSUME NEW b, NEW d, IsDialogue(b, d), NEW r \in 0 .. b.np - 1, NEW k \in 1 .. b.sizes
  PROVE  /\ Sections(b, r, k) = b.body[k][r + 1]
         /\ Converses(Sections(b, r, k), k, d.to[r], d.out[k][r], d.from[r], d.got[k][r])
<1>1. b.sizes \in Nat
  BY DEF IsDialogue, WellFormed
<1>2. k # 0 /\ k # b.sizes + 1
  BY <1>1
<1> QED BY <1>2 DEF Sections, IsDialogue

LEMMA SentMarked ==
  ASSUME NEW b, NEW d, IsDialogue(b, d), NEW r \in 0 .. b.np - 1, NEW k \in 1 .. b.sizes,
         NEW peer, NEW tag, NEW M, M = Marked(b, 2, r, k, "isend", peer, tag)
  PROVE  /\ M # {} <=> peer = d.to[r].peer /\ tag = d.to[r].tag
         /\ peer = d.to[r].peer /\ tag = d.to[r].tag => Cardinality(M) = d.out[k][r]
         /\ \A x \in M : Sections(b, r, k)[2].ops[x].kind = d.to[r].kind
<1>1. PICK ops, a, n : ops = Sections(b, r, k)[2].ops /\ a = d.to[r] /\ n = d.out[k][r]
  OBVIOUS
<1>2. n \in Nat /\ n # 0 /\ IsSequence(ops) /\ Carries(ops, "isend", a, n)
  BY <1>1, Conversing DEF Converses, Talks, Avoids
<1>3. M = Like(ops, "isend", peer, tag)
  BY <1>1 DEF Marked, Like
<1>4. /\ Cardinality(M) = IF peer = a.peer /\ tag = a.tag THEN n ELSE 0
      /\ M # {} <=> n # 0 /\ peer = a.peer /\ tag = a.tag
      /\ \A x \in M : ops[x].kind = a.kind
  BY <1>2, <1>3, CarriedAre
<1> QED BY <1>1, <1>2, <1>4

LEMMA ReceivedMarked ==
  ASSUME NEW b, NEW d, IsDialogue(b, d), NEW r \in 0 .. b.np - 1, NEW k \in 1 .. b.sizes,
         NEW peer, NEW tag, NEW M, M = Marked(b, 2, r, k, "irecv", peer, tag)
  PROVE  /\ M # {} <=> peer = d.from[r].peer /\ tag = d.from[r].tag
         /\ peer = d.from[r].peer /\ tag = d.from[r].tag => Cardinality(M) = d.got[k][r]
         /\ \A x \in M : Sections(b, r, k)[2].ops[x].kind = d.from[r].kind
<1>1. PICK ops, a, n : ops = Sections(b, r, k)[2].ops /\ a = d.from[r] /\ n = d.got[k][r]
  OBVIOUS
<1>2. n \in Nat /\ n # 0 /\ IsSequence(ops) /\ Carries(ops, "irecv", a, n)
  BY <1>1, Conversing DEF Converses, Talks, Avoids
<1>3. M = Like(ops, "irecv", peer, tag)
  BY <1>1 DEF Marked, Like
<1>4. /\ Cardinality(M) = IF peer = a.peer /\ tag = a.tag THEN n ELSE 0
      /\ M # {} <=> n # 0 /\ peer = a.peer /\ tag = a.tag
      /\ \A x \in M : ops[x].kind = a.kind
  BY <1>2, <1>3, CarriedAre
<1> QED BY <1>1, <1>2, <1>4

\* They are programs that MessagesTheorem is about,
LEMMA DialogueIsMessaging ==
  ASSUME NEW b, NEW d, IsDialogue(b, d)
  PROVE  Messaging(b, 2)
<1>1. b.np \in Nat \ {0} /\ b.sizes \in Nat
  BY DEF IsDialogue, WellFormed
<1>2. ASSUME NEW r \in 0 .. b.np - 1, NEW k \in 1 .. b.sizes
      PROVE  /\ Sections(b, r, k) = b.body[k][r + 1]
             /\ Converses(Sections(b, r, k), k, d.to[r], d.out[k][r], d.from[r], d.got[k][r])
  BY Conversing
<1>3. SetsOptions(b)
  <2>1. ASSUME NEW r \in 0 .. b.np - 1, NEW k \in 0 .. b.sizes + 1,
               NEW s \in 1 .. Len(Sections(b, r, k)), NEW n \in 1 .. Len(Sections(b, r, k)[s].ops),
               Sections(b, r, k)[s].ops[n].op = "options"
        PROVE  k \in 1 .. b.sizes /\ s = 1
    BY <2>1, DialogueStatements
  <2>2. ASSUME NEW r \in 0 .. b.np - 1, NEW k \in 1 .. b.sizes
        PROVE  LET first == Sections(b, r, k)[1]
               IN  /\ ~first.loop
                   /\ \E u \in 1 .. Len(first.ops) :
                        /\ first.ops[u] = SetIfLarge(k)
                        /\ \A n \in 1 .. Len(first.ops) : first.ops[n].op = "options" => n = u
    BY <1>2 DEF Converses, Prepares
  <2> QED BY <2>1, <2>2 DEF SetsOptions
<1>4. ASSUME NEW r \in 0 .. b.np - 1, NEW k \in 1 .. b.sizes
      PROVE  2 \in 1 .. Len(Sections(b, r, k)) /\ Sections(b, r, k)[2].loop
  BY <1>2 DEF Converses
<1>5. ASSUME NEW r \in 0 .. b.np - 1, NEW k \in 1 .. b.sizes
      PROVE  Sections(b, r, k)[2].loop <=> Sections(b, 0, k)[2].loop
  <2>1. 0 \in 0 .. b.np - 1
    BY <1>1
  <2> QED BY <1>4, <2>1
<1>6. ASSUME NEW p \in 0 .. b.np - 1, NEW q \in 0 .. b.np - 1, NEW tag, Connects(b, 2, p, q, tag)
      PROVE  Matches(b, 2, p, q, tag)
  <2>1. d.to[p].peer = q /\ tag = d.to[p].tag
    <3>1. PICK k \in 1 .. b.sizes : Marked(b, 2, p, k, "isend", q, tag) # {}
      BY <1>6 DEF Connects
    <3> QED BY <3>1, SentMarked
  <2>2. d.from[q].peer = p /\ tag = d.from[q].tag
    <3>1. PICK k \in 1 .. b.sizes : Marked(b, 2, q, k, "irecv", p, tag) # {}
      BY <1>6 DEF Connects
    <3> QED BY <3>1, ReceivedMarked
  <2>3. /\ d.to[p].kind = d.from[q].kind
        /\ \A k \in 1 .. b.sizes : d.out[k][p] = d.got[k][q]
    <3>1. d.to[p].peer = q /\ d.from[q].peer = p /\ d.to[p].tag = d.from[q].tag
      BY <2>1, <2>2
    <3>2. \A x, y \in 0 .. b.np - 1 :
            d.to[x].peer = y /\ d.from[y].peer = x /\ d.to[x].tag = d.from[y].tag
              => d.to[x].kind = d.from[y].kind /\ \A k \in 1 .. b.sizes : d.out[k][x] = d.got[k][y]
      BY DEF IsDialogue
    <3> QED BY <3>1, <3>2
  <2>4. ASSUME NEW k \in 1 .. b.sizes
        PROVE  Cardinality(Marked(b, 2, p, k, "isend", q, tag)) =
                 Cardinality(Marked(b, 2, q, k, "irecv", p, tag))
    <3>1. Cardinality(Marked(b, 2, p, k, "isend", q, tag)) = d.out[k][p]
      BY <2>1, SentMarked
    <3>2. Cardinality(Marked(b, 2, q, k, "irecv", p, tag)) = d.got[k][q]
      BY <2>2, ReceivedMarked
    <3> QED BY <2>3, <3>1, <3>2
  <2>5. ASSUME NEW k \in 1 .. b.sizes, NEW k2 \in 1 .. b.sizes,
               NEW n \in Marked(b, 2, p, k, "isend", q, tag),
               NEW n2 \in Marked(b, 2, q, k2, "irecv", p, tag)
        PROVE  Sections(b, p, k)[2].ops[n].kind = Sections(b, q, k2)[2].ops[n2].kind
    <3>1. Sections(b, p, k)[2].ops[n].kind = d.to[p].kind
      BY SentMarked
    <3>2. Sections(b, q, k2)[2].ops[n2].kind = d.from[q].kind
      BY ReceivedMarked
    <3> QED BY <2>3, <3>1, <3>2
  <2> QED BY <2>4, <2>5 DEF Matches
<1>7. \A r \in 0 .. b.np - 1 : \A k \in 0 .. b.sizes + 1 : \A s \in 1 .. Len(Sections(b, r, k)) :
        \A n \in 1 .. Len(Sections(b, r, k)[s].ops) :
          Sections(b, r, k)[s].ops[n].op \in Mailing
            => k \in 1 .. b.sizes /\ s = 2 /\ ~Sections(b, r, k)[s].ops[n].at_skip
  <2> SUFFICES ASSUME NEW r \in 0 .. b.np - 1, NEW k \in 0 .. b.sizes + 1,
                      NEW s \in 1 .. Len(Sections(b, r, k)),
                      NEW n \in 1 .. Len(Sections(b, r, k)[s].ops),
                      Sections(b, r, k)[s].ops[n].op \in Mailing
               PROVE  k \in 1 .. b.sizes /\ s = 2 /\ ~Sections(b, r, k)[s].ops[n].at_skip
    OBVIOUS
  <2> QED BY DialogueStatements
<1>8. \A r \in 0 .. b.np - 1 : \A k \in 1 .. b.sizes :
        /\ 2 \in 1 .. Len(Sections(b, r, k))
        /\ Sections(b, r, k)[2].loop => SetsOptions(b)
        /\ Sections(b, r, k)[2].loop <=> Sections(b, 0, k)[2].loop
  BY <1>3, <1>4, <1>5
<1>9. \A p, q \in 0 .. b.np - 1 : \A tag : Connects(b, 2, p, q, tag) => Matches(b, 2, p, q, tag)
  BY <1>6
<1> QED BY <1>7, <1>8, <1>9 DEF Messaging

\* and those with answers are programs that TransferTheorem is about.
LEMMA DialogueIsAnswered ==
  ASSUME NEW b, NEW d, IsDialogue(b, d), IsAnswering(b, d)
  PROVE  Answered(b, 2)
<1> SUFFICES ASSUME b.fits, NEW p \in 0 .. b.np - 1, p < b.np \div 2
             PROVE  /\ \A k \in 0 .. b.sizes + 1 : \A s \in 1 .. Len(Sections(b, p, k)) :
                         \A n \in 1 .. Len(Sections(b, p, k)[s].ops) :
                           Sections(b, p, k)[s].ops[n].op = "t_end" => k \in 1 .. b.sizes /\ s > 2
                    /\ \A k \in 1 .. b.sizes : \A n \in 1 .. Len(Sections(b, p, k)[2].ops) :
                         LET o == Sections(b, p, k)[2].ops[n]
                         IN  o.op = "isend" => Answers(b, 2, p, o.peer, k, o.tag)
  BY DEF Answered
<1>1. b.np \in Nat \ {0} /\ b.sizes \in Nat
  BY DEF IsDialogue, WellFormed
<1>2. PICK q \in 0 .. b.np - 1 :
        /\ d.to[p].peer = q /\ d.from[q].peer = p /\ d.to[p].tag = d.from[q].tag
        /\ d.to[q].peer = p /\ d.from[p].peer = q /\ d.to[q].tag = d.from[p].tag
        /\ \A k \in 1 .. b.sizes : /\ Draining(b.body[k][p + 1][2].ops)
                                   /\ Replying(b.body[k][q + 1][2].ops)
  BY DEF IsAnswering
<1>3. ASSUME NEW k \in 1 .. b.sizes PROVE Answers(b, 2, p, q, k, d.to[p].tag)
  <2>1. PICK tag, back : tag = d.to[p].tag /\ back = d.to[q].tag
    OBVIOUS
  <2>2. /\ Marked(b, 2, p, k, "isend", q, tag) # {} /\ Marked(b, 2, q, k, "irecv", p, tag) # {}
        /\ Marked(b, 2, q, k, "isend", p, back) # {} /\ Marked(b, 2, p, k, "irecv", q, back) # {}
    <3>1. Marked(b, 2, p, k, "isend", q, tag) # {}
      <4>1. d.to[p].peer = q /\ d.to[p].tag = tag
        BY <1>2, <2>1
      <4> QED BY <4>1, SentMarked
    <3>2. Marked(b, 2, q, k, "irecv", p, tag) # {}
      <4>1. d.from[q].peer = p /\ d.from[q].tag = tag
        BY <1>2, <2>1
      <4> QED BY <4>1, ReceivedMarked
    <3>3. Marked(b, 2, q, k, "isend", p, back) # {}
      <4>1. d.to[q].peer = p /\ d.to[q].tag = back
        BY <1>2, <2>1
      <4> QED BY <4>1, SentMarked
    <3>4. Marked(b, 2, p, k, "irecv", q, back) # {}
      <4>1. d.from[p].peer = q /\ d.from[p].tag = back
        BY <1>2, <2>1
      <4> QED BY <4>1, ReceivedMarked
    <3> QED BY <3>1, <3>2, <3>3, <3>4
  <2>3. Connects(b, 2, p, q, tag) /\ Connects(b, 2, q, p, back)
    BY <2>2 DEF Connects
  <2>4. PICK f, g : f = Sections(b, p, k)[2].ops /\ g = Sections(b, q, k)[2].ops
    OBVIOUS
  <2>5. Draining(f) /\ Replying(g)
    <3>1. k # 0 /\ k # b.sizes + 1
      BY <1>1
    <3> QED BY <1>2, <2>4, <3>1 DEF Sections
  <2>6. \E w : Drains(b, 2, p, k, w, q, back)
    <3>1. PICK w \in 1 .. Len(f) : /\ f[w].op = "waitrecvs"
                                   /\ \A x \in 1 .. Len(f) : f[x].op = "irecv" => x < w
      BY <2>5 DEF Draining
    <3>2. \A x \in Marked(b, 2, p, k, "irecv", q, back) : x < w
      BY <2>4, <3>1 DEF Marked
    <3> QED BY <2>4, <3>1, <3>2 DEF Drains
  <2>7. \E u \in Marked(b, 2, q, k, "isend", p, back) : \E w \in 1 .. u - 1 :
          Drains(b, 2, q, k, w, p, tag)
    <3>1. PICK w \in 1 .. Len(g) : /\ g[w].op = "waitrecvs"
                                   /\ \A x \in 1 .. Len(g) : /\ g[x].op = "irecv" => x < w
                                                             /\ g[x].op = "isend" => w < x
      BY <2>5 DEF Replying
    <3>2. \A x \in Marked(b, 2, q, k, "irecv", p, tag) : x < w
      BY <2>4, <3>1 DEF Marked
    <3>3. PICK u \in Marked(b, 2, q, k, "isend", p, back) : TRUE
      BY <2>2
    <3>4. u \in 1 .. Len(g) /\ w < u
      BY <2>4, <3>1, <3>3 DEF Marked
    <3>5. w \in 1 .. u - 1
      BY <3>4
    <3>6. Drains(b, 2, q, k, w, p, tag)
      BY <2>4, <3>1, <3>2 DEF Drains
    <3> QED BY <3>3, <3>5, <3>6
  <2> QED BY <2>1, <2>3, <2>6, <2>7 DEF Answers
<1>4. ASSUME NEW k \in 1 .. b.sizes, NEW n \in 1 .. Len(Sections(b, p, k)[2].ops),
             Sections(b, p, k)[2].ops[n].op = "isend"
      PROVE  Answers(b, 2, p, Sections(b, p, k)[2].ops[n].peer, k, Sections(b, p, k)[2].ops[n].tag)
  <2>1. PICK peer, tag : /\ peer = Sections(b, p, k)[2].ops[n].peer
                         /\ tag = Sections(b, p, k)[2].ops[n].tag
    OBVIOUS
  <2>2. n \in Marked(b, 2, p, k, "isend", peer, tag)
    BY <1>4, <2>1 DEF Marked
  <2>3. peer = d.to[p].peer /\ tag = d.to[p].tag
    BY <2>2, SentMarked
  <2> QED BY <1>2, <1>3, <2>1, <2>3
<1>5. \A k \in 0 .. b.sizes + 1 : \A s \in 1 .. Len(Sections(b, p, k)) :
        \A n \in 1 .. Len(Sections(b, p, k)[s].ops) :
          Sections(b, p, k)[s].ops[n].op = "t_end" => k \in 1 .. b.sizes /\ s > 2
  BY DialogueStatements
<1> QED BY <1>4, <1>5

-----------------------------------------------------------------------------
(***************************************************************************)
(* osu_latency, osu_bw, osu_bibw and osu_multi_lat are such programs.      *)
(***************************************************************************)
LEMMA TalksAround ==
  ASSUME NEW f, NEW g, NEW to, NEW from, NEW n, NEW m,
         Talks(f, to, 0, from, 0), Talks(g, to, n, from, m)
  PROVE  Talks(f \o g, to, n, from, m) /\ Talks(g \o f, to, n, from, m)
<1>1. n \in Nat /\ m \in Nat
  BY DEF Talks
<1>2. Talks(f \o g, to, 0 + n, from, 0 + m)
  BY TalksJoined
<1>3. Talks(g \o f, to, n + 0, from, m + 0)
  BY TalksJoined
<1>4. 0 + n = n /\ 0 + m = m /\ n + 0 = n /\ m + 0 = m
  BY <1>1
<1> QED BY <1>2, <1>3, <1>4

LEMMA TalksBoth ==
  ASSUME NEW f, NEW g, NEW to, NEW from, NEW n, NEW m,
         Talks(f, to, n, from, 0), Talks(g, to, 0, from, m)
  PROVE  Talks(f \o g, to, n, from, m) /\ Talks(g \o f, to, n, from, m)
<1>1. n \in Nat /\ m \in Nat
  BY DEF Talks
<1>2. Talks(f \o g, to, n + 0, from, 0 + m)
  BY TalksJoined
<1>3. Talks(g \o f, to, 0 + n, from, m + 0)
  BY TalksJoined
<1>4. 0 + n = n /\ 0 + m = m /\ n + 0 = n /\ m + 0 = m
  BY <1>1
<1> QED BY <1>2, <1>3, <1>4

LEMMA SendTalks ==
  ASSUME NEW to, NEW from
  PROVE  LET f == Send(to.peer, to.tag, to.kind)
         IN  Talks(f, to, 1, from, 0) /\ Avoids(f, {"irecv"})
<1>1. WaitSends.op \notin {"isend", "irecv", "options", "t_end"} /\ ~WaitSends.at_skip
  BY CallNames DEF Is
<1>2. PICK f : f = <<Message("isend", to.peer, to.tag, to.kind), WaitSends>>
  OBVIOUS
<1>3. Talks(f, to, 1, from, 0) /\ Avoids(f, {"irecv"})
  BY <1>1, <1>2, OneMessage
<1> QED BY <1>2, <1>3 DEF Send

LEMMA ReceiveTalks ==
  ASSUME NEW to, NEW from, NEW c, c.op = "waitrecvs", ~c.at_skip
  PROVE  LET f == <<Message("irecv", from.peer, from.tag, from.kind), c>>
         IN  Talks(f, to, 0, from, 1) /\ Avoids(f, {"isend"}) /\ Draining(f)
<1>1. c.op \notin {"isend", "irecv", "options", "t_end"}
  OBVIOUS
<1> QED BY <1>1, OneMessage

LEMMA RecvTalks ==
  ASSUME NEW to, NEW from
  PROVE  /\ LET f == Recv(from.peer, from.tag, from.kind)
            IN  Talks(f, to, 0, from, 1) /\ Avoids(f, {"isend"}) /\ Draining(f)
         /\ LET f == TimedRecv(from.peer, from.tag, from.kind)
            IN  Talks(f, to, 0, from, 1) /\ Avoids(f, {"isend"}) /\ Draining(f)
<1>1. WaitRecvs.op = "waitrecvs" /\ ~WaitRecvs.at_skip
  BY CallNames DEF Is
<1>2. Measured(WaitRecvs).op = "waitrecvs" /\ ~Measured(WaitRecvs).at_skip
  BY DEF Measured, WaitRecvs, Do
<1>3. PICK f : f = <<Message("irecv", from.peer, from.tag, from.kind), WaitRecvs>>
  OBVIOUS
<1>4. Talks(f, to, 0, from, 1) /\ Avoids(f, {"isend"}) /\ Draining(f)
  BY <1>1, <1>3, ReceiveTalks
<1>5. PICK g : g = <<Message("irecv", from.peer, from.tag, from.kind), Measured(WaitRecvs)>>
  OBVIOUS
<1>6. Talks(g, to, 0, from, 1) /\ Avoids(g, {"isend"}) /\ Draining(g)
  BY <1>2, <1>5, ReceiveTalks
<1> QED BY <1>3, <1>4, <1>5, <1>6 DEF Recv, TimedRecv

LEMMA WindowTalks ==
  ASSUME NEW w \in Nat, NEW to, NEW from
  PROVE  /\ to.kind = "data" =>
              LET f == Window(w, Isend(to.peer, to.tag))
              IN  Talks(f, to, w, from, 0) /\ Avoids(f, {"irecv"})
         /\ from.kind = "data" =>
              LET f == Window(w, Irecv(from.peer, from.tag))
              IN  Talks(f, to, 0, from, w) /\ Avoids(f, {"isend"})
<1>1. ASSUME NEW op \in {"isend", "irecv"}, NEW a, NEW o,
             o = Message(op, a.peer, a.tag, a.kind), NEW f, f = Window(w, o)
      PROVE  /\ Carries(f, op, a, w) /\ Avoids(f, {"options", "t_end"})
             /\ Avoids(f, {"isend", "irecv"} \ {op})
             /\ \A x \in 1 .. Len(f) : ~f[x].at_skip
  <2>1. o.op = op /\ o.peer = a.peer /\ o.tag = a.tag /\ o.kind = a.kind /\ ~o.at_skip
    BY <1>1, MessageIs
  <2>2. IsSequence(f) /\ Len(f) = w /\ \A x \in 1 .. w : f[x] = o
    BY <1>1, WindowIs
  <2>3. Avoids(f, {"options", "t_end"}) /\ Avoids(f, {"isend", "irecv"} \ {op})
    BY <2>1, <2>2 DEF Avoids
  <2>4. 0 \in Nat /\ 0 + w <= Len(f) /\ \A x \in 1 .. Len(f) : x \in 0 + 1 .. 0 + w
    BY <2>2
  <2>5. Carries(f, op, a, w)
    BY <2>1, <2>2, <2>4 DEF Carries
  <2> QED BY <2>1, <2>2, <2>3, <2>5
<1>2. ASSUME to.kind = "data"
      PROVE  LET f == Window(w, Isend(to.peer, to.tag))
             IN  Talks(f, to, w, from, 0) /\ Avoids(f, {"irecv"})
  <2>1. PICK o : o = Message("isend", to.peer, to.tag, to.kind)
    OBVIOUS
  <2>2. PICK f : f = Window(w, o)
    OBVIOUS
  <2>3. /\ Carries(f, "isend", to, w) /\ Avoids(f, {"options", "t_end"})
        /\ Avoids(f, {"isend", "irecv"} \ {"isend"})
        /\ \A x \in 1 .. Len(f) : ~f[x].at_skip
    BY <1>1, <2>1, <2>2
  <2>4. Avoids(f, {"irecv"})
    BY <2>3 DEF Avoids
  <2>5. Talks(f, to, w, from, 0)
    BY <2>3, <2>4, CarriesNone DEF Talks
  <2>6. f = Window(w, Isend(to.peer, to.tag))
    BY <1>2, <2>1, <2>2 DEF Isend
  <2> QED BY <2>4, <2>5, <2>6
<1>3. ASSUME from.kind = "data"
      PROVE  LET f == Window(w, Irecv(from.peer, from.tag))
             IN  Talks(f, to, 0, from, w) /\ Avoids(f, {"isend"})
  <2>1. PICK o : o = Message("irecv", from.peer, from.tag, from.kind)
    OBVIOUS
  <2>2. PICK f : f = Window(w, o)
    OBVIOUS
  <2>3. /\ Carries(f, "irecv", from, w) /\ Avoids(f, {"options", "t_end"})
        /\ Avoids(f, {"isend", "irecv"} \ {"irecv"})
        /\ \A x \in 1 .. Len(f) : ~f[x].at_skip
    BY <1>1, <2>1, <2>2
  <2>4. Avoids(f, {"isend"})
    BY <2>3 DEF Avoids
  <2>5. Talks(f, to, 0, from, w)
    BY <2>3, <2>4, CarriesNone DEF Talks
  <2>6. f = Window(w, Irecv(from.peer, from.tag))
    BY <1>3, <2>1, <2>2 DEF Irecv
  <2> QED BY <2>4, <2>5, <2>6
<1> QED BY <1>2, <1>3

\* Statements that do not concern messages, and the completions.
LEMMA SilentPieces ==
  ASSUME NEW to, NEW from
  PROVE  /\ Talks(<<>>, to, 0, from, 0) /\ Avoids(<<>>, {"isend", "irecv"})
         /\ Talks(<<AtSkip(TStart)>>, to, 0, from, 0)
         /\ Talks(<<AtSkip(TStart), AtSkip(Barrier)>>, to, 0, from, 0)
         /\ Avoids(<<AtSkip(TStart), AtSkip(Barrier)>>, {"isend", "irecv"})
         /\ Talks(<<WaitSends>>, to, 0, from, 0)
         /\ Talks(<<WaitRecvs>>, to, 0, from, 0) /\ Avoids(<<WaitRecvs>>, {"isend"})
         /\ Draining(<<WaitRecvs>>)
         /\ Talks(<<WaitSends, Measured(WaitRecvs)>>, to, 0, from, 0)
<1> DEFINE Mute(o) == /\ o.op \notin {"isend", "irecv", "options", "t_end"}
                      /\ o.op \in Mailing => ~o.at_skip
<1>1. /\ Mute(AtSkip(TStart)) /\ Mute(AtSkip(Barrier))
  BY GuardedNames DEF IsAtSkip, Mailing
<1>2. Mute(WaitSends) /\ Mute(WaitRecvs) /\ WaitRecvs.op = "waitrecvs"
  BY CallNames DEF Is, Mailing
<1>3. Mute(Measured(WaitRecvs))
  BY DEF Measured, WaitRecvs, Do, Mailing
<1>4. ASSUME NEW o, Mute(o)
      PROVE  Talks(<<o>>, to, 0, from, 0) /\ Avoids(<<o>>, {"isend", "irecv"})
  <2>1. PICK f : f = <<o>>
    OBVIOUS
  <2>2. IsSequence(f) /\ \A x \in 1 .. Len(f) : f[x] = o
    BY <2>1, ShortSequences
  <2>3. /\ Avoids(f, {"isend", "irecv", "options", "t_end"}) /\ Avoids(f, {"isend", "irecv"})
        /\ \A x \in 1 .. Len(f) : f[x].op \in Mailing => ~f[x].at_skip
    <3>1. ASSUME NEW x \in 1 .. Len(f)
          PROVE  /\ f[x].op \notin {"isend", "irecv", "options", "t_end"}
                 /\ f[x].op \in Mailing => ~f[x].at_skip
      BY <1>4, <2>2
    <3> QED BY <2>2, <3>1 DEF Avoids
  <2> QED BY <2>1, <2>3, Silent
<1>5. ASSUME NEW o, NEW p, Mute(o), Mute(p)
      PROVE  Talks(<<o, p>>, to, 0, from, 0) /\ Avoids(<<o, p>>, {"isend", "irecv"})
  <2>1. PICK f : f = <<o, p>>
    OBVIOUS
  <2>2. IsSequence(f) /\ \A x \in 1 .. Len(f) : f[x] = o \/ f[x] = p
    <3>1. IsSequence(f) /\ Len(f) = 2 /\ f[1] = o /\ f[2] = p
      BY <2>1, ShortSequences
    <3>2. \A x \in 1 .. Len(f) : x = 1 \/ x = 2
      BY <3>1
    <3> QED BY <3>1, <3>2
  <2>3. /\ Avoids(f, {"isend", "irecv", "options", "t_end"}) /\ Avoids(f, {"isend", "irecv"})
        /\ \A x \in 1 .. Len(f) : f[x].op \in Mailing => ~f[x].at_skip
    <3>1. ASSUME NEW x \in 1 .. Len(f)
          PROVE  /\ f[x].op \notin {"isend", "irecv", "options", "t_end"}
                 /\ f[x].op \in Mailing => ~f[x].at_skip
      BY <1>5, <2>2
    <3> QED BY <2>2, <3>1 DEF Avoids
  <2> QED BY <2>1, <2>3, Silent
<1>6. Draining(<<WaitRecvs>>)
  <2>1. PICK f : f = <<WaitRecvs>>
    OBVIOUS
  <2>2. Len(f) = 1 /\ f[1] = WaitRecvs
    BY <2>1, ShortSequences
  <2>3. 1 \in 1 .. Len(f) /\ f[1].op = "waitrecvs"
    BY <1>2, <2>2
  <2>4. \A x \in 1 .. Len(f) : f[x].op # "irecv"
    <3>1. \A x \in 1 .. Len(f) : x = 1
      BY <2>2
    <3> QED BY <2>3, <3>1
  <2> QED BY <2>1, <2>3, <2>4 DEF Draining
<1>7. Talks(<<>>, to, 0, from, 0) /\ Avoids(<<>>, {"isend", "irecv"})
  <2>1. Avoids(<<>>, {"isend", "irecv", "options", "t_end"}) /\ Avoids(<<>>, {"isend", "irecv"})
    BY ShortAvoids
  <2>2. \A x \in 1 .. Len(<<>>) : <<>>[x].op \in Mailing => ~<<>>[x].at_skip
    BY ShortSequences
  <2> QED BY <2>1, <2>2, Silent
<1> HIDE DEF Mute
<1>8. /\ Talks(<<AtSkip(TStart)>>, to, 0, from, 0)
      /\ Talks(<<WaitSends>>, to, 0, from, 0)
      /\ Talks(<<WaitRecvs>>, to, 0, from, 0) /\ Avoids(<<WaitRecvs>>, {"isend", "irecv"})
  BY <1>1, <1>2, <1>4
<1>9. /\ Talks(<<AtSkip(TStart), AtSkip(Barrier)>>, to, 0, from, 0)
      /\ Avoids(<<AtSkip(TStart), AtSkip(Barrier)>>, {"isend", "irecv"})
  BY <1>1, <1>5
<1>10. Talks(<<WaitSends, Measured(WaitRecvs)>>, to, 0, from, 0)
  BY <1>2, <1>3, <1>5
<1>11. Avoids(<<WaitRecvs>>, {"isend"})
  BY <1>8 DEF Avoids
<1> QED BY <1>6, <1>7, <1>8, <1>9, <1>10, <1>11

-----------------------------------------------------------------------------
Address(peer, tag, kind) == [peer |-> peer, tag |-> tag, kind |-> kind]

LEMMA LatencyTalks ==
  ASSUME NEW r, NEW a, a = Address(IF r = 0 THEN 1 ELSE 0, 1, "data")
  PROVE  /\ Talks(LatencyLoop(r), a, 1, a, 1)
         /\ r = 0 => Draining(LatencyLoop(r))
         /\ r # 0 => Replying(LatencyLoop(r))
<1>1. PICK peer : peer = IF r = 0 THEN 1 ELSE 0
  OBVIOUS
<1>2. a.peer = peer /\ a.tag = 1 /\ a.kind = "data"
  BY <1>1 DEF Address
<1>3. PICK s, t, v, g :
        /\ s = Send(peer, 1, "data") /\ t = TimedRecv(peer, 1, "data")
        /\ v = Recv(peer, 1, "data") /\ g = <<AtSkip(TStart)>>
  OBVIOUS
<1>4. /\ Talks(s, a, 1, a, 0) /\ Avoids(s, {"irecv"})
      /\ Talks(t, a, 0, a, 1) /\ Draining(t)
      /\ Talks(v, a, 0, a, 1) /\ Draining(v) /\ Avoids(v, {"isend"})
      /\ Talks(g, a, 0, a, 0)
  BY <1>2, <1>3, SendTalks, RecvTalks, SilentPieces
<1>5. ASSUME r = 0 PROVE Talks(LatencyLoop(r), a, 1, a, 1) /\ Draining(LatencyLoop(r))
  <2>1. LatencyLoop(r) = (g \o s) \o t
    BY <1>1, <1>3, <1>5 DEF LatencyLoop
  <2>2. Talks(g \o s, a, 1, a, 0)
    BY <1>4, TalksAround
  <2>3. Talks((g \o s) \o t, a, 1, a, 1)
    BY <1>4, <2>2, TalksBoth
  <2>4. IsSequence(g \o s) /\ IsSequence(t)
    BY <1>4, <2>2 DEF Talks, Avoids
  <2>5. Draining((g \o s) \o t)
    BY <1>4, <2>4, DrainingJoined
  <2> QED BY <2>1, <2>3, <2>5
<1>6. ASSUME r # 0 PROVE Talks(LatencyLoop(r), a, 1, a, 1) /\ Replying(LatencyLoop(r))
  <2>1. LatencyLoop(r) = v \o s
    BY <1>1, <1>3, <1>6 DEF LatencyLoop
  <2>2. Talks(v \o s, a, 1, a, 1)
    BY <1>4, TalksBoth
  <2>3. IsSequence(v) /\ IsSequence(s)
    BY <1>4 DEF Talks, Avoids
  <2>4. Replying(v \o s)
    BY <1>4, <2>3, DrainingJoined
  <2> QED BY <2>1, <2>2, <2>4
<1> QED BY <1>5, <1>6

\* What the answer of osu_bw carries.
Reply == "4 bytes"

LEMMA BwTalks ==
  ASSUME NEW k, NEW r, NEW w \in Nat, w = BwWindow(k), NEW to, NEW from,
         to = (IF r = 0 THEN Address(1, 100, "data") ELSE Address(0, 101, Reply)),
         from = (IF r = 0 THEN Address(1, 101, Reply) ELSE Address(0, 100, "data"))
  PROVE  /\ r = 0 => Talks(BwLoop(k, r), to, w, from, 1) /\ Draining(BwLoop(k, r))
         /\ r # 0 => Talks(BwLoop(k, r), to, 1, from, w) /\ Replying(BwLoop(k, r))
<1>1. ASSUME r = 0 PROVE Talks(BwLoop(k, r), to, w, from, 1) /\ Draining(BwLoop(k, r))
  <2>1. to.peer = 1 /\ to.tag = 100 /\ to.kind = "data"
    BY <1>1 DEF Address
  <2>2. from.peer = 1 /\ from.tag = 101 /\ from.kind = Reply
    BY <1>1 DEF Address
  <2>3. PICK f1, f2, f3, f4 :
          /\ f1 = <<AtSkip(TStart)>> /\ f2 = Window(w, Isend(1, 100))
          /\ f3 = <<WaitSends>> /\ f4 = TimedRecv(1, 101, Reply)
    OBVIOUS
  <2>4. BwLoop(k, r) = ((f1 \o f2) \o f3) \o f4
    BY <1>1, <2>3, Zenon DEF BwLoop, Reply
  <2>5. Talks(f1, to, 0, from, 0) /\ Talks(f3, to, 0, from, 0)
    BY <2>3, SilentPieces
  <2>6. Talks(f2, to, w, from, 0)
    BY <2>1, <2>3, WindowTalks
  <2>7. Talks(f4, to, 0, from, 1) /\ Draining(f4)
    BY <2>2, <2>3, RecvTalks
  <2>8. Talks((f1 \o f2) \o f3, to, w, from, 0)
    BY <2>5, <2>6, TalksAround
  <2>9. Talks(((f1 \o f2) \o f3) \o f4, to, w, from, 1)
    BY <2>7, <2>8, TalksBoth
  <2>10. IsSequence((f1 \o f2) \o f3) /\ IsSequence(f4)
    BY <2>7, <2>8 DEF Talks, Avoids
  <2>11. Draining(((f1 \o f2) \o f3) \o f4)
    BY <2>7, <2>10, DrainingJoined
  <2> QED BY <2>4, <2>9, <2>11
<1>2. ASSUME r # 0 PROVE Talks(BwLoop(k, r), to, 1, from, w) /\ Replying(BwLoop(k, r))
  <2>1. to.peer = 0 /\ to.tag = 101 /\ to.kind = Reply
    BY <1>2 DEF Address
  <2>2. from.peer = 0 /\ from.tag = 100 /\ from.kind = "data"
    BY <1>2 DEF Address
  <2>3. PICK f1, f2, f3 :
          /\ f1 = Window(w, Irecv(0, 100)) /\ f2 = <<WaitRecvs>> /\ f3 = Send(0, 101, Reply)
    OBVIOUS
  <2>4. BwLoop(k, r) = (f1 \o f2) \o f3
    BY <1>2, <2>3, Zenon DEF BwLoop, Reply
  <2>5. Talks(f2, to, 0, from, 0) /\ Avoids(f2, {"isend"}) /\ Draining(f2)
    BY <2>3, SilentPieces
  <2>6. Talks(f1, to, 0, from, w) /\ Avoids(f1, {"isend"})
    BY <2>2, <2>3, WindowTalks
  <2>7. Talks(f3, to, 1, from, 0) /\ Avoids(f3, {"irecv"})
    BY <2>1, <2>3, SendTalks
  <2>8. Talks(f1 \o f2, to, 0, from, w) /\ Avoids(f1 \o f2, {"isend"})
    BY <2>5, <2>6, TalksAround, AvoidsJoined
  <2>9. Talks((f1 \o f2) \o f3, to, 1, from, w)
    BY <2>7, <2>8, TalksBoth
  <2>10. IsSequence(f1) /\ IsSequence(f2) /\ IsSequence(f1 \o f2) /\ IsSequence(f3)
    BY <2>5, <2>6, <2>7, <2>8 DEF Talks, Avoids
  <2>11. Draining(f1 \o f2)
    BY <2>5, <2>10, DrainingJoined
  <2>12. Replying((f1 \o f2) \o f3)
    BY <2>7, <2>8, <2>10, <2>11, DrainingJoined
  <2> QED BY <2>4, <2>9, <2>12
<1> QED BY <1>1, <1>2

LEMMA BibwTalks ==
  ASSUME NEW k, NEW r, NEW w \in Nat, w = BwWindow(k), NEW to, NEW from,
         to = Address(1 - r, IF r = 0 THEN 100 ELSE 10, "data"),
         from = Address(1 - r, IF r = 0 THEN 10 ELSE 100, "data")
  PROVE  Talks(BibwLoop(k, r), to, w, from, w)
<1>1. PICK out, got : out = (IF r = 0 THEN 100 ELSE 10) /\ got = (IF r = 0 THEN 10 ELSE 100)
  OBVIOUS
<1>2. to.peer = 1 - r /\ to.tag = out /\ to.kind = "data"
  BY <1>1 DEF Address
<1>3. from.peer = 1 - r /\ from.tag = got /\ from.kind = "data"
  BY <1>1 DEF Address
<1>4. PICK f1, f2, f3, f4 :
        /\ f1 = (IF r = 0 THEN <<AtSkip(TStart)>> ELSE <<>>)
        /\ f2 = Window(w, Irecv(1 - r, got)) /\ f3 = Window(w, Isend(1 - r, out))
        /\ f4 = <<WaitSends, Measured(WaitRecvs)>>
  OBVIOUS
<1>5. BibwLoop(k, r) = (f1 \o (f2 \o f3)) \o f4
  BY <1>1, <1>4 DEF BibwLoop, BibwWindows
<1>6. Talks(f1, to, 0, from, 0) /\ Talks(f4, to, 0, from, 0)
  BY <1>4, SilentPieces
<1>7. Talks(f2, to, 0, from, w)
  BY <1>3, <1>4, WindowTalks
<1>8. Talks(f3, to, w, from, 0)
  BY <1>2, <1>4, WindowTalks
<1>9. Talks(f2 \o f3, to, w, from, w)
  BY <1>7, <1>8, TalksBoth
<1>10. Talks((f1 \o (f2 \o f3)) \o f4, to, w, from, w)
  BY <1>6, <1>9, TalksAround
<1> QED BY <1>5, <1>10

LEMMA MultiLatTalks ==
  ASSUME NEW r, NEW pairs, NEW a,
         a = Address(IF r < pairs THEN r + pairs ELSE r - pairs, 1, "data")
  PROVE  /\ Talks(MultiLatLoop(r, pairs), a, 1, a, 1)
         /\ r < pairs => Draining(MultiLatLoop(r, pairs))
         /\ ~(r < pairs) => Replying(MultiLatLoop(r, pairs))
<1>1. PICK peer : peer = IF r < pairs THEN r + pairs ELSE r - pairs
  OBVIOUS
<1>2. a.peer = peer /\ a.tag = 1 /\ a.kind = "data"
  BY <1>1 DEF Address
<1>3. PICK g, s, t :
        /\ g = <<AtSkip(TStart), AtSkip(Barrier)>>
        /\ s = Send(peer, 1, "data") /\ t = TimedRecv(peer, 1, "data")
  OBVIOUS
<1>4. /\ Talks(s, a, 1, a, 0) /\ Avoids(s, {"irecv"})
      /\ Talks(t, a, 0, a, 1) /\ Draining(t) /\ Avoids(t, {"isend"})
      /\ Talks(g, a, 0, a, 0) /\ Avoids(g, {"isend", "irecv"})
  BY <1>2, <1>3, SendTalks, RecvTalks, SilentPieces
<1>5. IsSequence(g) /\ IsSequence(s) /\ IsSequence(t)
  BY <1>4 DEF Avoids
<1>6. ASSUME r < pairs
      PROVE  Talks(MultiLatLoop(r, pairs), a, 1, a, 1) /\ Draining(MultiLatLoop(r, pairs))
  <2>1. MultiLatLoop(r, pairs) = g \o (s \o t)
    BY <1>1, <1>3, <1>6 DEF MultiLatLoop, MultiLatExchange
  <2>2. Talks(s \o t, a, 1, a, 1) /\ Draining(s \o t)
    BY <1>4, <1>5, TalksBoth, DrainingJoined
  <2>3. IsSequence(s \o t)
    BY <2>2 DEF Talks, Avoids
  <2>4. Talks(g \o (s \o t), a, 1, a, 1) /\ Draining(g \o (s \o t))
    BY <1>4, <1>5, <2>2, <2>3, TalksAround, DrainingJoined
  <2> QED BY <2>1, <2>4
<1>7. ASSUME ~(r < pairs)
      PROVE  Talks(MultiLatLoop(r, pairs), a, 1, a, 1) /\ Replying(MultiLatLoop(r, pairs))
  <2>1. MultiLatLoop(r, pairs) = g \o (t \o s)
    BY <1>1, <1>3, <1>7 DEF MultiLatLoop, MultiLatExchange
  <2>2. Talks(t \o s, a, 1, a, 1) /\ Replying(t \o s)
    BY <1>4, <1>5, TalksBoth, DrainingJoined
  <2>3. IsSequence(t \o s)
    BY <2>2 DEF Talks, Avoids
  <2>4. Talks(g \o (t \o s), a, 1, a, 1) /\ Replying(g \o (t \o s))
    BY <1>4, <1>5, <2>2, <2>3, TalksAround, DrainingJoined
  <2> QED BY <2>1, <2>4
<1> QED BY <1>6, <1>7

-----------------------------------------------------------------------------
PairwiseFirst(name, k) ==
  IF name = "osu_latency" THEN <<Touch, SetIfLarge(k), Barrier>>
  ELSE IF name = "osu_multi_lat" THEN <<Barrier, SetIfLarge(k)>>
  ELSE <<Touch, SetIfLarge(k)>>

PairwiseLoop(name, np, k, r) ==
  IF name = "osu_latency" THEN LatencyLoop(r)
  ELSE IF name = "osu_bw" THEN BwLoop(k, r)
  ELSE IF name = "osu_bibw" THEN BibwLoop(k, r)
  ELSE MultiLatLoop(r, np \div 2)

PairwiseSize(name, np, k, r) ==
  LET first == Once(PairwiseFirst(name, k))
      loop  == Loop(PairwiseLoop(name, np, k, r))
  IN  IF name = "osu_multi_lat" THEN <<first, loop, Once(<<TEnd, Report, Reduce>>)>>
      ELSE <<first, loop>> \o Result(r)

PairwiseStart(name)  == IF name = "osu_multi_lat" THEN <<Touch, Barrier>> ELSE <<>>
PairwiseFinish(name) == IF name = "osu_multi_lat" THEN <<Barrier>> ELSE <<Touch>>
PairwiseFits(name, np) == name = "osu_multi_lat" \/ np = 2

IsPairwise(b, name, np) ==
  /\ np \in Nat \ {0}
  /\ \/ name = "osu_latency" /\ b = OsuLatency(np)
     \/ name = "osu_bw" /\ b = OsuBw(np)
     \/ name = "osu_bibw" /\ b = OsuBibw(np)
     \/ name = "osu_multi_lat" /\ b = OsuMultiLat(np)

\* The programs whose ranks exchange messages in pairs.
IsPairwiseProgram(b) == \E name, np : IsPairwise(b, name, np)

LEMMA RecordOf ==
  ASSUME NEW b, NEW p, NEW np \in Nat, p.np = np, NEW fits, NEW start, NEW finish, NEW each,
         \A k \in 1 .. NumSizes : each[k] = [r \in 1 .. np |-> each[k][r]],
         b = [program |-> p.program, sync |-> p.sync, win |-> p.win, np |-> p.np, fits |-> fits,
              sizes |-> NumSizes, start |-> start, finish |-> finish,
              body |-> [k \in 1 .. NumSizes |-> each[k] \o <<>>] \o <<>>]
  PROVE  /\ b.program = p.program /\ b.np = np /\ b.fits = fits /\ b.sizes = NumSizes
         /\ b.start = start /\ b.finish = finish
         /\ \A k \in 1 .. NumSizes : \A r \in 1 .. np : b.body[k][r] = each[k][r]
<1>1. PICK body : body = [k \in 1 .. NumSizes |-> each[k] \o <<>>] \o <<>>
  OBVIOUS
<1>2. b = [program |-> p.program, sync |-> p.sync, win |-> p.win, np |-> p.np, fits |-> fits,
           sizes |-> NumSizes, start |-> start, finish |-> finish, body |-> body]
  BY <1>1
<1>3. NumSizes \in Nat
  BY OmbOpsAssumption
<1>4. \A k \in 1 .. NumSizes : \A r \in 1 .. np : body[k][r] = each[k][r]
  BY <1>1, <1>3, RankBodies
<1> QED BY <1>2, <1>4

LEMMA PairwiseRecord ==
  ASSUME NEW b, NEW name, NEW np, IsPairwise(b, name, np)
  PROVE  /\ b.program = name /\ b.np = np /\ b.sizes = NumSizes
         /\ b.fits <=> PairwiseFits(name, np)
         /\ b.start = PairwiseStart(name) /\ b.finish = PairwiseFinish(name)
         /\ \A k \in 1 .. NumSizes : \A r \in 1 .. np :
              b.body[k][r] = PairwiseSize(name, np, k, r - 1)
<1>1. np \in Nat /\ np \in Nat \ {0}
  BY DEF IsPairwise
<1> DEFINE p == Launch(name, np)
<1>0. p.program = name /\ p.np = np
  <2>1. PICK sync, win : p = WithOptions(name, sync, win, np)
    BY Zenon DEF Launch
  <2> QED BY <2>1 DEF WithOptions
<1> HIDE DEF p
<1>2. ASSUME name = "osu_latency", b = OsuLatency(np)
      PROVE  /\ b.program = name /\ b.np = np /\ b.sizes = NumSizes
             /\ b.fits <=> PairwiseFits(name, np)
             /\ b.start = PairwiseStart(name) /\ b.finish = PairwiseFinish(name)
             /\ \A k \in 1 .. NumSizes : \A r \in 1 .. np :
                  b.body[k][r] = PairwiseSize(name, np, k, r - 1)
  <2>1. PICK each : each = [k \in 1 .. NumSizes |-> [r \in 1 .. p.np |->
          <<Once(<<Touch, SetIfLarge(k), Barrier>>), Loop(LatencyLoop(r - 1))>> \o Result(r - 1)]]
    OBVIOUS
  <2>2. PICK fits : fits = (np = 2)
    OBVIOUS
  <2>3. b = [program |-> p.program, sync |-> p.sync, win |-> p.win, np |-> p.np, fits |-> fits,
             sizes |-> NumSizes, start |-> <<>>, finish |-> <<Touch>>,
             body |-> [k \in 1 .. NumSizes |-> each[k] \o <<>>] \o <<>>]
    BY <1>2, <2>1, <2>2 DEF OsuLatency, Benchmark, p
  <2>4. \A k \in 1 .. NumSizes : each[k] = [r \in 1 .. np |-> each[k][r]]
    BY <1>0, <2>1
  <2>5. /\ b.program = name /\ b.np = np /\ b.fits = fits /\ b.sizes = NumSizes
        /\ b.start = <<>> /\ b.finish = <<Touch>>
        /\ \A k \in 1 .. NumSizes : \A r \in 1 .. np : b.body[k][r] = each[k][r]
    BY <1>1, <1>0, <2>3, <2>4, RecordOf
  <2>6. ASSUME NEW k \in 1 .. NumSizes, NEW r \in 1 .. np
        PROVE  each[k][r] = PairwiseSize(name, np, k, r - 1)
    BY <1>0, <1>2, <2>1 DEF PairwiseSize, PairwiseFirst, PairwiseLoop
  <2>7. b.fits <=> PairwiseFits(name, np)
    <3>1. b.fits = (np = 2)
      BY Zenon, <2>2, <2>5
    <3>2. PairwiseFits(name, np) <=> np = 2
      BY <1>2 DEF PairwiseFits
    <3> QED BY Zenon, <3>1, <3>2
  <2>8. b.start = PairwiseStart(name) /\ b.finish = PairwiseFinish(name)
    BY <1>2, <2>5 DEF PairwiseStart, PairwiseFinish
  <2>9. \A k \in 1 .. NumSizes : \A r \in 1 .. np :
          b.body[k][r] = PairwiseSize(name, np, k, r - 1)
    BY <2>5, <2>6
  <2> QED BY <2>5, <2>7, <2>8, <2>9
<1>3. ASSUME name = "osu_bw", b = OsuBw(np)
      PROVE  /\ b.program = name /\ b.np = np /\ b.sizes = NumSizes
             /\ b.fits <=> PairwiseFits(name, np)
             /\ b.start = PairwiseStart(name) /\ b.finish = PairwiseFinish(name)
             /\ \A k \in 1 .. NumSizes : \A r \in 1 .. np :
                  b.body[k][r] = PairwiseSize(name, np, k, r - 1)
  <2>1. PICK each : each = [k \in 1 .. NumSizes |-> [r \in 1 .. p.np |->
          <<Once(<<Touch, SetIfLarge(k)>>), Loop(BwLoop(k, r - 1))>> \o Result(r - 1)]]
    OBVIOUS
  <2>2. PICK fits : fits = (np = 2)
    OBVIOUS
  <2>3. b = [program |-> p.program, sync |-> p.sync, win |-> p.win, np |-> p.np, fits |-> fits,
             sizes |-> NumSizes, start |-> <<>>, finish |-> <<Touch>>,
             body |-> [k \in 1 .. NumSizes |-> each[k] \o <<>>] \o <<>>]
    BY <1>3, <2>1, <2>2 DEF OsuBw, Benchmark, p
  <2>4. \A k \in 1 .. NumSizes : each[k] = [r \in 1 .. np |-> each[k][r]]
    BY <1>0, <2>1
  <2>5. /\ b.program = name /\ b.np = np /\ b.fits = fits /\ b.sizes = NumSizes
        /\ b.start = <<>> /\ b.finish = <<Touch>>
        /\ \A k \in 1 .. NumSizes : \A r \in 1 .. np : b.body[k][r] = each[k][r]
    BY <1>1, <1>0, <2>3, <2>4, RecordOf
  <2>6. ASSUME NEW k \in 1 .. NumSizes, NEW r \in 1 .. np
        PROVE  each[k][r] = PairwiseSize(name, np, k, r - 1)
    BY <1>0, <1>3, <2>1 DEF PairwiseSize, PairwiseFirst, PairwiseLoop
  <2>7. b.fits <=> PairwiseFits(name, np)
    <3>1. b.fits = (np = 2)
      BY Zenon, <2>2, <2>5
    <3>2. PairwiseFits(name, np) <=> np = 2
      BY <1>3 DEF PairwiseFits
    <3> QED BY Zenon, <3>1, <3>2
  <2>8. b.start = PairwiseStart(name) /\ b.finish = PairwiseFinish(name)
    BY <1>3, <2>5 DEF PairwiseStart, PairwiseFinish
  <2>9. \A k \in 1 .. NumSizes : \A r \in 1 .. np :
          b.body[k][r] = PairwiseSize(name, np, k, r - 1)
    BY <2>5, <2>6
  <2> QED BY <2>5, <2>7, <2>8, <2>9
<1>4. ASSUME name = "osu_bibw", b = OsuBibw(np)
      PROVE  /\ b.program = name /\ b.np = np /\ b.sizes = NumSizes
             /\ b.fits <=> PairwiseFits(name, np)
             /\ b.start = PairwiseStart(name) /\ b.finish = PairwiseFinish(name)
             /\ \A k \in 1 .. NumSizes : \A r \in 1 .. np :
                  b.body[k][r] = PairwiseSize(name, np, k, r - 1)
  <2>1. PICK each : each = [k \in 1 .. NumSizes |-> [r \in 1 .. p.np |->
          <<Once(<<Touch, SetIfLarge(k)>>), Loop(BibwLoop(k, r - 1))>> \o Result(r - 1)]]
    OBVIOUS
  <2>2. PICK fits : fits = (np = 2)
    OBVIOUS
  <2>3. b = [program |-> p.program, sync |-> p.sync, win |-> p.win, np |-> p.np, fits |-> fits,
             sizes |-> NumSizes, start |-> <<>>, finish |-> <<Touch>>,
             body |-> [k \in 1 .. NumSizes |-> each[k] \o <<>>] \o <<>>]
    BY <1>4, <2>1, <2>2 DEF OsuBibw, Benchmark, p
  <2>4. \A k \in 1 .. NumSizes : each[k] = [r \in 1 .. np |-> each[k][r]]
    BY <1>0, <2>1
  <2>5. /\ b.program = name /\ b.np = np /\ b.fits = fits /\ b.sizes = NumSizes
        /\ b.start = <<>> /\ b.finish = <<Touch>>
        /\ \A k \in 1 .. NumSizes : \A r \in 1 .. np : b.body[k][r] = each[k][r]
    BY <1>1, <1>0, <2>3, <2>4, RecordOf
  <2>6. ASSUME NEW k \in 1 .. NumSizes, NEW r \in 1 .. np
        PROVE  each[k][r] = PairwiseSize(name, np, k, r - 1)
    BY <1>0, <1>4, <2>1 DEF PairwiseSize, PairwiseFirst, PairwiseLoop
  <2>7. b.fits <=> PairwiseFits(name, np)
    <3>1. b.fits = (np = 2)
      BY Zenon, <2>2, <2>5
    <3>2. PairwiseFits(name, np) <=> np = 2
      BY <1>4 DEF PairwiseFits
    <3> QED BY Zenon, <3>1, <3>2
  <2>8. b.start = PairwiseStart(name) /\ b.finish = PairwiseFinish(name)
    BY <1>4, <2>5 DEF PairwiseStart, PairwiseFinish
  <2>9. \A k \in 1 .. NumSizes : \A r \in 1 .. np :
          b.body[k][r] = PairwiseSize(name, np, k, r - 1)
    BY <2>5, <2>6
  <2> QED BY <2>5, <2>7, <2>8, <2>9
<1>5. ASSUME name = "osu_multi_lat", b = OsuMultiLat(np)
      PROVE  /\ b.program = name /\ b.np = np /\ b.sizes = NumSizes
             /\ b.fits <=> PairwiseFits(name, np)
             /\ b.start = PairwiseStart(name) /\ b.finish = PairwiseFinish(name)
             /\ \A k \in 1 .. NumSizes : \A r \in 1 .. np :
                  b.body[k][r] = PairwiseSize(name, np, k, r - 1)
  <2>1. PICK each : each = [k \in 1 .. NumSizes |-> [r \in 1 .. p.np |->
          <<Once(<<Barrier, SetIfLarge(k)>>), Loop(MultiLatLoop(r - 1, np \div 2)),
            Once(<<TEnd, Report, Reduce>>)>>]]
    OBVIOUS
  <2>2. PICK fits : fits = TRUE
    OBVIOUS
  <2>3. b = [program |-> p.program, sync |-> p.sync, win |-> p.win, np |-> p.np, fits |-> fits,
             sizes |-> NumSizes, start |-> <<Touch, Barrier>>, finish |-> <<Barrier>>,
             body |-> [k \in 1 .. NumSizes |-> each[k] \o <<>>] \o <<>>]
    BY <1>5, <2>1, <2>2 DEF OsuMultiLat, Benchmark, p
  <2>4. \A k \in 1 .. NumSizes : each[k] = [r \in 1 .. np |-> each[k][r]]
    BY <1>0, <2>1
  <2>5. /\ b.program = name /\ b.np = np /\ b.fits = fits /\ b.sizes = NumSizes
        /\ b.start = <<Touch, Barrier>> /\ b.finish = <<Barrier>>
        /\ \A k \in 1 .. NumSizes : \A r \in 1 .. np : b.body[k][r] = each[k][r]
    BY <1>1, <1>0, <2>3, <2>4, RecordOf
  <2>6. ASSUME NEW k \in 1 .. NumSizes, NEW r \in 1 .. np
        PROVE  each[k][r] = PairwiseSize(name, np, k, r - 1)
    BY <1>0, <1>5, <2>1 DEF PairwiseSize, PairwiseFirst, PairwiseLoop
  <2> QED BY <1>5, <2>2, <2>5, <2>6 DEF PairwiseFits, PairwiseStart, PairwiseFinish
<1> QED BY <1>2, <1>3, <1>4, <1>5 DEF IsPairwise

-----------------------------------------------------------------------------
PairwiseNames == {"osu_latency", "osu_bw", "osu_bibw", "osu_multi_lat"}

PairwiseTo(name, np, r) ==
  IF name = "osu_bw" THEN IF r = 0 THEN Address(1, 100, "data") ELSE Address(0, 101, Reply)
  ELSE IF name = "osu_bibw" THEN Address(1 - r, IF r = 0 THEN 100 ELSE 10, "data")
  ELSE IF name = "osu_latency" THEN Address(IF r = 0 THEN 1 ELSE 0, 1, "data")
  ELSE Address(IF r < np \div 2 THEN r + np \div 2 ELSE r - np \div 2, 1, "data")

PairwiseFrom(name, np, r) ==
  IF name = "osu_bw" THEN IF r = 0 THEN Address(1, 101, Reply) ELSE Address(0, 100, "data")
  ELSE IF name = "osu_bibw" THEN Address(1 - r, IF r = 0 THEN 10 ELSE 100, "data")
  ELSE PairwiseTo(name, np, r)

PairwiseOut(name, k, r) ==
  IF name = "osu_bibw" \/ (name = "osu_bw" /\ r = 0) THEN BwWindow(k) ELSE 1

PairwiseGot(name, k, r) ==
  IF name = "osu_bibw" \/ (name = "osu_bw" /\ r # 0) THEN BwWindow(k) ELSE 1

LEMMA FirstPrepares ==
  ASSUME NEW name, NEW k, NEW ops, ops = PairwiseFirst(name, k)
  PROVE  Prepares(ops, k) /\ IsStraight(ops)
<1> DEFINE Mute(o) == o.op \notin Mailing \cup {"t_end", "options"}
<1>1. Mute(Touch) /\ Mute(Barrier)
  BY CallNames DEF Is, Mailing
<1>2. SetIfLarge(k).op = "options" /\ ~SetIfLarge(k).at_skip
  BY DEF SetIfLarge, Assign, Do
<1>3. ASSUME IsSequence(ops), NEW u \in 1 .. Len(ops), ops[u] = SetIfLarge(k),
             \A n \in 1 .. Len(ops) : n # u => Mute(ops[n])
      PROVE  Prepares(ops, k) /\ IsStraight(ops)
  <2>1. \A n \in 1 .. Len(ops) : ops[n].op = "options" => n = u
    BY <1>3
  <2>2. \A n \in 1 .. Len(ops) : ops[n].op \notin Mailing \cup {"t_end"}
    BY <1>2, <1>3 DEF Mailing
  <2>3. IsStraight(ops)
    BY <1>2, <1>3 DEF IsStraight
  <2> QED BY <1>3, <2>1, <2>2, <2>3 DEF Prepares, Avoids
<1> HIDE DEF Mute
<1>4. CASE name = "osu_latency"
  <2>1. IsSequence(ops) /\ Len(ops) = 3 /\ ops[1] = Touch /\ ops[2] = SetIfLarge(k) /\ ops[3] = Barrier
    BY <1>4, ShortSequences DEF PairwiseFirst
  <2>2. \A n \in 1 .. Len(ops) : n # 2 => n = 1 \/ n = 3
    BY <2>1
  <2> QED BY <1>1, <1>3, <2>1, <2>2
<1>5. CASE name = "osu_multi_lat"
  <2>1. IsSequence(ops) /\ Len(ops) = 2 /\ ops[1] = Barrier /\ ops[2] = SetIfLarge(k)
    BY <1>5, ShortSequences DEF PairwiseFirst
  <2>2. \A n \in 1 .. Len(ops) : n # 2 => n = 1
    BY <2>1
  <2> QED BY <1>1, <1>3, <2>1, <2>2
<1>6. CASE name # "osu_latency" /\ name # "osu_multi_lat"
  <2>1. IsSequence(ops) /\ Len(ops) = 2 /\ ops[1] = Touch /\ ops[2] = SetIfLarge(k)
    BY <1>6, ShortSequences DEF PairwiseFirst
  <2>2. \A n \in 1 .. Len(ops) : n # 2 => n = 1
    BY <2>1
  <2> QED BY <1>1, <1>3, <2>1, <2>2
<1> QED BY <1>4, <1>5, <1>6

LEMMA TalkIsStraight ==
  ASSUME NEW ops, NEW to, NEW from, NEW n, NEW m, Talks(ops, to, n, from, m), n # 0
  PROVE  IsStraight(ops)
<1>1. n \in Nat /\ n # 0
  BY DEF Talks
<1>2. IsSequence(ops)
  BY DEF Talks, Avoids
<1>3. PICK i \in Nat : /\ i + n <= Len(ops)
                       /\ \A x \in 1 .. Len(ops) : ops[x].op = "isend" <=> x \in i + 1 .. i + n
  BY DEF Talks, Carries
<1>4. PICK x : x = i + 1
  OBVIOUS
<1>5. x \in 1 .. Len(ops) /\ x \in i + 1 .. i + n
  BY <1>1, <1>2, <1>3, <1>4 DEF IsSequence
<1>6. ops[x].op = "isend"
  BY <1>3, <1>5
<1>7. ~ops[x].at_skip
  BY <1>5, <1>6 DEF Talks, Mailing
<1> QED BY <1>2, <1>5, <1>7 DEF IsStraight

LEMMA PairwiseTalks ==
  ASSUME NEW name \in PairwiseNames, NEW np, NEW k, NEW r,
         NEW to, to = PairwiseTo(name, np, r), NEW from, from = PairwiseFrom(name, np, r),
         NEW n, n = PairwiseOut(name, k, r), NEW m, m = PairwiseGot(name, k, r)
  PROVE  Talks(PairwiseLoop(name, np, k, r), to, n, from, m) /\ n # 0 /\ m # 0
<1>1. PICK w \in Nat : w = BwWindow(k) /\ w # 0
  BY OmbPt2PtAssumption DEF BwWindow
<1>2. CASE name = "osu_latency"
  <2>1. to = Address(IF r = 0 THEN 1 ELSE 0, 1, "data")
    BY <1>2 DEF PairwiseTo
  <2>2. from = to
    BY <1>2 DEF PairwiseFrom
  <2>3. n = 1 /\ m = 1
    BY <1>2 DEF PairwiseOut, PairwiseGot
  <2>4. PairwiseLoop(name, np, k, r) = LatencyLoop(r)
    BY <1>2 DEF PairwiseLoop
  <2>5. Talks(LatencyLoop(r), to, 1, to, 1)
    BY <2>1, LatencyTalks
  <2> QED BY <2>2, <2>3, <2>4, <2>5
<1>3. CASE name = "osu_bw"
  <2>1. to = (IF r = 0 THEN Address(1, 100, "data") ELSE Address(0, 101, Reply))
    BY <1>3 DEF PairwiseTo
  <2>2. from = (IF r = 0 THEN Address(1, 101, Reply) ELSE Address(0, 100, "data"))
    BY <1>3 DEF PairwiseFrom
  <2>3. PairwiseLoop(name, np, k, r) = BwLoop(k, r)
    BY <1>3 DEF PairwiseLoop
  <2>4. /\ r = 0 => Talks(BwLoop(k, r), to, w, from, 1)
        /\ r # 0 => Talks(BwLoop(k, r), to, 1, from, w)
    BY <1>1, <2>1, <2>2, BwTalks
  <2>5. /\ r = 0 => n = w /\ m = 1
        /\ r # 0 => n = 1 /\ m = w
    BY <1>1, <1>3 DEF PairwiseOut, PairwiseGot
  <2>6. CASE r = 0
    BY <1>1, <2>3, <2>4, <2>5, <2>6
  <2>7. CASE r # 0
    BY <1>1, <2>3, <2>4, <2>5, <2>7
  <2> QED BY <2>6, <2>7
<1>4. CASE name = "osu_bibw"
  <2>1. to = Address(1 - r, IF r = 0 THEN 100 ELSE 10, "data")
    BY <1>4 DEF PairwiseTo
  <2>2. from = Address(1 - r, IF r = 0 THEN 10 ELSE 100, "data")
    BY <1>4 DEF PairwiseFrom
  <2>3. n = w /\ m = w
    BY <1>1, <1>4 DEF PairwiseOut, PairwiseGot
  <2>4. PairwiseLoop(name, np, k, r) = BibwLoop(k, r)
    BY <1>4 DEF PairwiseLoop
  <2>5. Talks(BibwLoop(k, r), to, w, from, w)
    BY <1>1, <2>1, <2>2, BibwTalks
  <2> QED BY <1>1, <2>3, <2>4, <2>5
<1>5. CASE name = "osu_multi_lat"
  <2>0. PICK h : h = np \div 2
    OBVIOUS
  <2>1. to = Address(IF r < h THEN r + h ELSE r - h, 1, "data")
    BY <1>5, <2>0 DEF PairwiseTo
  <2>2. from = to
    BY <1>5 DEF PairwiseFrom
  <2>3. n = 1 /\ m = 1
    BY <1>5 DEF PairwiseOut, PairwiseGot
  <2>4. PairwiseLoop(name, np, k, r) = MultiLatLoop(r, h)
    BY <1>5, <2>0 DEF PairwiseLoop
  <2>5. Talks(MultiLatLoop(r, h), to, 1, to, 1)
    BY <2>1, MultiLatTalks
  <2> QED BY <2>2, <2>3, <2>4, <2>5
<1> QED BY <1>2, <1>3, <1>4, <1>5 DEF PairwiseNames

\* The two ends of a channel agree on what goes through it.
LEMMA PairwiseAgrees ==
  ASSUME NEW name \in PairwiseNames, NEW np, NEW p, NEW q,
         PairwiseTo(name, np, p).peer = q, PairwiseFrom(name, np, q).peer = p,
         PairwiseTo(name, np, p).tag = PairwiseFrom(name, np, q).tag
  PROVE  /\ PairwiseTo(name, np, p).kind = PairwiseFrom(name, np, q).kind
         /\ \A k : PairwiseOut(name, k, p) = PairwiseGot(name, k, q)
<1>1. \A peer, tag, kind : LET a == Address(peer, tag, kind)
                           IN  a.peer = peer /\ a.tag = tag /\ a.kind = kind
  BY DEF Address
<1>2. CASE name = "osu_bw"
  <2>1. /\ p = 0 => PairwiseTo(name, np, p) = Address(1, 100, "data")
        /\ p # 0 => PairwiseTo(name, np, p) = Address(0, 101, Reply)
    BY <1>2 DEF PairwiseTo
  <2>2. /\ q = 0 => PairwiseFrom(name, np, q) = Address(1, 101, Reply)
        /\ q # 0 => PairwiseFrom(name, np, q) = Address(0, 100, "data")
    BY <1>2 DEF PairwiseFrom
  <2>3. ASSUME p = 0
        PROVE  /\ q # 0
               /\ PairwiseTo(name, np, p).kind = "data" /\ PairwiseFrom(name, np, q).kind = "data"
    BY <1>1, <2>1, <2>2, <2>3
  <2>4. ASSUME p # 0
        PROVE  /\ q = 0
               /\ PairwiseTo(name, np, p).kind = Reply /\ PairwiseFrom(name, np, q).kind = Reply
    BY <1>1, <2>1, <2>2, <2>4
  <2>5. ASSUME NEW k PROVE PairwiseOut(name, k, p) = PairwiseGot(name, k, q)
    BY <1>2, <2>3, <2>4 DEF PairwiseOut, PairwiseGot
  <2> QED BY <2>3, <2>4, <2>5
<1>3. CASE name # "osu_bw"
  <2>1. ASSUME NEW r
        PROVE  PairwiseTo(name, np, r).kind = "data" /\ PairwiseFrom(name, np, r).kind = "data"
    BY <1>1, <1>3 DEF PairwiseTo, PairwiseFrom
  <2>2. ASSUME NEW k PROVE PairwiseOut(name, k, p) = PairwiseGot(name, k, q)
    BY <1>3 DEF PairwiseOut, PairwiseGot
  <2> QED BY <2>1, <2>2
<1> QED BY <1>2, <1>3

LEMMA PairwiseSections ==
  ASSUME NEW name \in PairwiseNames, NEW np, NEW k, NEW r,
         NEW secs, secs = PairwiseSize(name, np, k, r),
         NEW to, to = PairwiseTo(name, np, r), NEW from, from = PairwiseFrom(name, np, r),
         NEW n, n = PairwiseOut(name, k, r), NEW m, m = PairwiseGot(name, k, r)
  PROVE  /\ Converses(secs, k, to, n, from, m)
         /\ \A s \in 1 .. Len(secs) : IsStraight(secs[s].ops)
         /\ secs[2].ops = PairwiseLoop(name, np, k, r)
<1>1. \A ops : ~Once(ops).loop /\ Once(ops).ops = ops /\ Loop(ops).loop /\ Loop(ops).ops = ops
  BY DEF Once, Loop
<1>2. PICK f, l, x, y :
        /\ f = PairwiseFirst(name, k) /\ l = PairwiseLoop(name, np, k, r)
        /\ x = <<TEnd, Report, Reduce>> /\ y = <<TEnd, Report>>
  OBVIOUS
<1>3. Prepares(f, k) /\ IsStraight(f)
  BY <1>2, FirstPrepares
<1>4. Talks(l, to, n, from, m) /\ n # 0 /\ m # 0
  BY <1>2, PairwiseTalks
<1>5. IsStraight(l)
  BY <1>4, TalkIsStraight
<1>6. /\ Avoids(x, Mailing \cup {"options"}) /\ Avoids(y, Mailing \cup {"options"})
      /\ IsStraight(x) /\ IsStraight(y)
  <2>1. /\ TEnd.op = "t_end" /\ Report.op = "report" /\ ~TEnd.at_skip
    BY CallNames DEF Is
  <2>2. Reduce.op = "call"
    BY CallNames DEF Is, Reduce
  <2>3. \A o \in {TEnd, Report, Reduce} : o.op \notin Mailing \cup {"options"}
    BY <2>1, <2>2 DEF Mailing
  <2> QED BY <1>2, <2>1, <2>3, ShortAvoids, ShortStraight
<1>7. ASSUME Len(secs) \in {2, 3}, secs[1] = Once(f), secs[2] = Loop(l),
             Len(secs) = 3 => secs[3] = Once(x) \/ secs[3] = Once(y)
      PROVE  /\ Converses(secs, k, to, n, from, m)
             /\ \A s \in 1 .. Len(secs) : IsStraight(secs[s].ops)
             /\ secs[2].ops = l
  <2>1. ~secs[1].loop /\ secs[1].ops = f /\ secs[2].loop /\ secs[2].ops = l
    BY <1>1, <1>7
  <2>2. Len(secs) = 3 => secs[3].ops = x \/ secs[3].ops = y
    BY <1>1, <1>7
  <2>3. Len(secs) = 3 => Avoids(secs[3].ops, Mailing \cup {"options"}) /\ IsStraight(secs[3].ops)
    BY <1>6, <2>2
  <2>4. Converses(secs, k, to, n, from, m)
    BY <1>3, <1>4, <1>7, <2>1, <2>3 DEF Converses
  <2>5. ASSUME NEW s \in 1 .. Len(secs) PROVE IsStraight(secs[s].ops)
    <3>0. PICK len : len = Len(secs) /\ (len = 2 \/ len = 3)
      BY <1>7
    <3>1. s = 1 \/ s = 2 \/ (s = 3 /\ Len(secs) = 3)
      BY <3>0
    <3> QED BY <1>3, <1>5, <2>1, <2>3, <3>1
  <2> QED BY <2>1, <2>4, <2>5
<1>8. CASE name = "osu_multi_lat"
  <2>1. secs = <<Once(f), Loop(l), Once(x)>>
    BY <1>2, <1>8 DEF PairwiseSize
  <2>2. Len(secs) = 3 /\ secs[1] = Once(f) /\ secs[2] = Loop(l) /\ secs[3] = Once(x)
    BY <2>1, ShortSequences
  <2> QED BY <1>2, <1>7, <2>2
<1>9. CASE name # "osu_multi_lat"
  <2>1. secs = <<Once(f), Loop(l)>> \o Result(r)
    BY <1>2, <1>9 DEF PairwiseSize
  <2>2. PICK g : g = <<Once(f), Loop(l)>>
    OBVIOUS
  <2>3. IsSequence(g) /\ Len(g) = 2 /\ g[1] = Once(f) /\ g[2] = Loop(l)
    BY <2>2, ShortSequences
  <2>4. PICK h : h = Result(r)
    OBVIOUS
  <2>5. IsSequence(h) /\ (Len(h) = 0 \/ (Len(h) = 1 /\ h[1] = Once(y)))
    BY <1>2, <2>4, ShortSequences DEF Result
  <2>6. /\ Len(g \o h) = Len(g) + Len(h)
        /\ \A i \in 1 .. Len(g) : (g \o h)[i] = g[i]
        /\ \A i \in 1 .. Len(h) : (g \o h)[Len(g) + i] = h[i]
    <3>1. IsSequence(g) /\ IsSequence(h)
      BY <2>3, <2>5
    <3> QED BY <3>1, Joined
  <2>7. Len(secs) = 2 + Len(h) /\ secs[1] = Once(f) /\ secs[2] = Loop(l)
    BY <2>1, <2>2, <2>3, <2>4, <2>6
  <2>8. Len(h) = 1 => secs[3] = Once(y)
    BY <2>1, <2>2, <2>3, <2>4, <2>5, <2>6
  <2>9. Len(secs) \in {2, 3} /\ (Len(secs) = 3 => secs[3] = Once(y))
    <3>1. CASE Len(h) = 0
      <4>1. Len(secs) = 2
        BY <2>7, <3>1
      <4> QED BY <4>1
    <3>2. CASE Len(h) = 1
      <4>1. Len(secs) = 3
        BY <2>7, <3>2
      <4> QED BY <2>8, <3>2, <4>1
    <3> QED BY <2>5, <3>1, <3>2
  <2> QED BY <1>2, <1>7, <2>7, <2>9
<1> QED BY <1>8, <1>9

PairwiseDialogue(name, np) ==
  [to   |-> [r \in 0 .. np - 1 |-> PairwiseTo(name, np, r)],
   from |-> [r \in 0 .. np - 1 |-> PairwiseFrom(name, np, r)],
   out  |-> [k \in 1 .. NumSizes |-> [r \in 0 .. np - 1 |-> PairwiseOut(name, k, r)]],
   got  |-> [k \in 1 .. NumSizes |-> [r \in 0 .. np - 1 |-> PairwiseGot(name, k, r)]]]

LEMMA PairwiseIsDialogue ==
  ASSUME NEW b, NEW name, NEW np, IsPairwise(b, name, np)
  PROVE  IsDialogue(b, PairwiseDialogue(name, np))
<1>1. np \in Nat \ {0} /\ name \in PairwiseNames
  BY DEF IsPairwise, PairwiseNames
<1>2. b.np = np /\ b.sizes = NumSizes /\ NumSizes \in Nat
  BY PairwiseRecord, OmbOpsAssumption
<1>3. PICK d : d = PairwiseDialogue(name, np)
  OBVIOUS
<1>4. /\ \A r \in 0 .. np - 1 : d.to[r] = PairwiseTo(name, np, r) /\ d.from[r] = PairwiseFrom(name, np, r)
      /\ \A k \in 1 .. NumSizes : \A r \in 0 .. np - 1 :
           d.out[k][r] = PairwiseOut(name, k, r) /\ d.got[k][r] = PairwiseGot(name, k, r)
  BY <1>3 DEF PairwiseDialogue
<1>5. Avoids(b.start, Around) /\ Avoids(b.finish, Around)
  <2>1. Touch.op \notin Around /\ Barrier.op \notin Around
    BY CallNames DEF Is, Around, Mailing
  <2>2. b.start = PairwiseStart(name) /\ b.finish = PairwiseFinish(name)
    BY PairwiseRecord
  <2> QED BY <2>1, <2>2, ShortAvoids DEF PairwiseStart, PairwiseFinish
<1>6. ASSUME NEW k \in 1 .. NumSizes, NEW r \in 1 .. np
      PROVE  /\ Converses(b.body[k][r], k, PairwiseTo(name, np, r - 1), PairwiseOut(name, k, r - 1),
                          PairwiseFrom(name, np, r - 1), PairwiseGot(name, k, r - 1))
             /\ \A s \in 1 .. Len(b.body[k][r]) : IsStraight(b.body[k][r][s].ops)
  <2>1. b.body[k][r] = PairwiseSize(name, np, k, r - 1)
    BY PairwiseRecord
  <2> QED BY <1>1, <2>1, PairwiseSections
<1>7. WellFormed(b)
  <2>1. IsSequence(b.start) /\ IsSequence(b.finish)
    BY <1>5 DEF Avoids
  <2>2. ASSUME NEW k \in 1 .. NumSizes, NEW r \in 1 .. np
        PROVE  Len(b.body[k][r]) \in Nat \ {0}
    <3>1. PICK len : len = Len(b.body[k][r]) /\ (len = 2 \/ len = 3)
      BY <1>6 DEF Converses
    <3>2. len \in Nat \ {0}
      BY <3>1
    <3> QED BY <3>1, <3>2
  <2>3. b.np \in Nat \ {0} /\ b.sizes \in Nat
    BY <1>1, <1>2
  <2> QED BY <1>2, <1>6, <2>1, <2>2, <2>3 DEF WellFormed
<1>8. ASSUME NEW k \in 1 .. NumSizes, NEW r \in 0 .. np - 1
      PROVE  Converses(b.body[k][r + 1], k, d.to[r], d.out[k][r], d.from[r], d.got[k][r])
  <2>1. PICK q \in 1 .. np : q = r + 1 /\ q - 1 = r
    BY <1>1
  <2>2. Converses(b.body[k][q], k, PairwiseTo(name, np, r), PairwiseOut(name, k, r),
                  PairwiseFrom(name, np, r), PairwiseGot(name, k, r))
    BY <1>6, <2>1
  <2> QED BY <1>4, <2>1, <2>2
<1>9. ASSUME NEW p \in 0 .. np - 1, NEW q \in 0 .. np - 1,
             d.to[p].peer = q, d.from[q].peer = p, d.to[p].tag = d.from[q].tag
      PROVE  d.to[p].kind = d.from[q].kind /\ \A k \in 1 .. NumSizes : d.out[k][p] = d.got[k][q]
  BY <1>1, <1>4, <1>9, PairwiseAgrees
<1>10. IsDialogue(b, d)
  BY <1>2, <1>5, <1>7, <1>8, <1>9 DEF IsDialogue
<1> QED BY <1>3, <1>10

LEMMA PairwiseIsAnswering ==
  ASSUME NEW b, NEW name, NEW np, IsPairwise(b, name, np), name # "osu_bibw"
  PROVE  IsAnswering(b, PairwiseDialogue(name, np))
<1>1. np \in Nat \ {0} /\ name \in PairwiseNames
  BY DEF IsPairwise, PairwiseNames
<1>2. b.np = np /\ b.sizes = NumSizes /\ NumSizes \in Nat /\ (b.fits <=> PairwiseFits(name, np))
  BY PairwiseRecord, OmbOpsAssumption
<1>3. PICK d : d = PairwiseDialogue(name, np)
  OBVIOUS
<1>4. \A r \in 0 .. np - 1 : d.to[r] = PairwiseTo(name, np, r) /\ d.from[r] = PairwiseFrom(name, np, r)
  BY <1>3 DEF PairwiseDialogue
<1>5. PICK h \in Nat : h = np \div 2 /\ 2 * h <= np
  BY <1>1
<1>6. ASSUME NEW k \in 1 .. NumSizes, NEW r \in 0 .. np - 1
      PROVE  b.body[k][r + 1][2].ops = PairwiseLoop(name, np, k, r)
  <2>1. PICK q \in 1 .. np : q = r + 1 /\ q - 1 = r
    BY <1>1
  <2>2. b.body[k][q] = PairwiseSize(name, np, k, r)
    BY <2>1, PairwiseRecord
  <2> QED BY <1>1, <2>1, <2>2, PairwiseSections
<1>7. \A peer, tag, kind : LET a == Address(peer, tag, kind)
                           IN  a.peer = peer /\ a.tag = tag /\ a.kind = kind
  BY DEF Address
<1>8. ASSUME PairwiseFits(name, np), NEW p \in 0 .. np - 1, p < h
      PROVE  \E q \in 0 .. np - 1 :
               /\ d.to[p].peer = q /\ d.from[q].peer = p /\ d.to[p].tag = d.from[q].tag
               /\ d.to[q].peer = p /\ d.from[p].peer = q /\ d.to[q].tag = d.from[p].tag
               /\ \A k \in 1 .. NumSizes : /\ Draining(PairwiseLoop(name, np, k, p))
                                           /\ Replying(PairwiseLoop(name, np, k, q))
  <2>1. CASE name = "osu_multi_lat"
    <3>1. PICK q : q = p + h
      OBVIOUS
    <3>2. q \in 0 .. np - 1 /\ ~(q < h) /\ q - h = p
      BY <1>1, <1>5, <1>8, <3>1
    <3>3. d.to[p] = Address(q, 1, "data") /\ d.from[p] = Address(q, 1, "data")
      BY <1>4, <1>5, <1>8, <2>1, <3>1 DEF PairwiseTo, PairwiseFrom
    <3>4. d.to[q] = Address(p, 1, "data") /\ d.from[q] = Address(p, 1, "data")
      BY <1>4, <1>5, <2>1, <3>2 DEF PairwiseTo, PairwiseFrom
    <3>5. ASSUME NEW k PROVE Draining(PairwiseLoop(name, np, k, p)) /\ Replying(PairwiseLoop(name, np, k, q))
      <4>1. PairwiseLoop(name, np, k, p) = MultiLatLoop(p, h) /\ PairwiseLoop(name, np, k, q) = MultiLatLoop(q, h)
        BY <1>5, <2>1 DEF PairwiseLoop
      <4> QED BY <1>8, <3>2, <4>1, MultiLatTalks
    <3> QED BY <1>7, <3>2, <3>3, <3>4, <3>5
  <2>2. CASE name \in {"osu_latency", "osu_bw"}
    <3>1. np = 2
      BY <1>8, <2>2 DEF PairwiseFits
    <3>2. p = 0 /\ 1 \in 0 .. np - 1
      BY <1>5, <1>8, <3>1
    <3>3. /\ d.to[0] = PairwiseTo(name, np, 0) /\ d.from[0] = PairwiseFrom(name, np, 0)
          /\ d.to[1] = PairwiseTo(name, np, 1) /\ d.from[1] = PairwiseFrom(name, np, 1)
      BY <1>4, <3>1
    <3>4. /\ d.to[0].peer = 1 /\ d.from[1].peer = 0 /\ d.to[0].tag = d.from[1].tag
          /\ d.to[1].peer = 0 /\ d.from[0].peer = 1 /\ d.to[1].tag = d.from[0].tag
      <4>1. CASE name = "osu_latency"
        BY <1>7, <3>3, <4>1 DEF PairwiseTo, PairwiseFrom
      <4>2. CASE name = "osu_bw"
        BY <1>7, <3>3, <4>2 DEF PairwiseTo, PairwiseFrom
      <4> QED BY <2>2, <4>1, <4>2
    <3>5. ASSUME NEW k PROVE Draining(PairwiseLoop(name, np, k, 0)) /\ Replying(PairwiseLoop(name, np, k, 1))
      <4>1. CASE name = "osu_latency"
        BY <4>1, LatencyTalks DEF PairwiseLoop
      <4>2. CASE name = "osu_bw"
        <5>1. PICK w \in Nat : w = BwWindow(k)
          BY OmbPt2PtAssumption DEF BwWindow
        <5> QED BY <4>2, <5>1, BwTalks DEF PairwiseLoop
      <4> QED BY <2>2, <4>1, <4>2
    <3> QED BY <3>2, <3>4, <3>5
  <2> QED BY <1>1, <2>1, <2>2 DEF PairwiseNames
<1>9. IsAnswering(b, d)
  BY <1>2, <1>5, <1>6, <1>8 DEF IsAnswering
<1> QED BY <1>3, <1>9

-----------------------------------------------------------------------------
(***************************************************************************)
(* In osu_latency, osu_bw, osu_bibw and osu_multi_lat, with any number of  *)
(* processes and any options, windows and sizes, every receive gets the    *)
(* message of its own iteration and size, and as much data as it expects.  *)
(***************************************************************************)
THEOREM PairwiseMessages ==
  WinSpec => [](IsPairwiseProgram(benchmark) => SameTrial)
<1>1. IsPairwiseProgram(benchmark) => WellFormed(benchmark) /\ \E m : Messaging(benchmark, m)
  <2> SUFFICES ASSUME NEW name, NEW np, IsPairwise(benchmark, name, np)
               PROVE  WellFormed(benchmark) /\ Messaging(benchmark, 2)
    BY DEF IsPairwiseProgram
  <2>1. IsDialogue(benchmark, PairwiseDialogue(name, np))
    BY PairwiseIsDialogue
  <2> QED BY <2>1, DialogueIsMessaging DEF IsDialogue
<1> QED BY <1>1, MessagesTheorem, PTL

(***************************************************************************)
(* In osu_latency, osu_bw and osu_multi_lat the receiver has everything    *)
(* that was sent to it when a sender stops its timer.  osu_bibw, where     *)
(* nothing is answered, promises only that its own receives are complete.  *)
(***************************************************************************)
THEOREM PairwiseTransfers ==
  WinSpec => [](IsPairwiseProgram(benchmark) => TransferOverWhenTimerStops)
<1>1. IsPairwiseProgram(benchmark)
        => \/ benchmark.program = "osu_bibw"
           \/ WellFormed(benchmark) /\ \E m : Messaging(benchmark, m) /\ Answered(benchmark, m)
  <2> SUFFICES ASSUME NEW name, NEW np, IsPairwise(benchmark, name, np), name # "osu_bibw"
               PROVE  WellFormed(benchmark) /\ Messaging(benchmark, 2) /\ Answered(benchmark, 2)
    BY PairwiseRecord DEF IsPairwiseProgram
  <2>1. PICK d : IsDialogue(benchmark, d) /\ IsAnswering(benchmark, d)
    BY PairwiseIsDialogue, PairwiseIsAnswering
  <2> QED BY <2>1, DialogueIsMessaging, DialogueIsAnswered DEF IsDialogue
<1>2. benchmark.program = "osu_bibw" => TransferOverWhenTimerStops
  BY DEF TransferOverWhenTimerStops
<1> QED BY <1>1, <1>2, TransferTheorem, PTL

===============================================================================
