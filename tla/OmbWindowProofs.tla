--------------------------- MODULE OmbWindowProofs ---------------------------
(***************************************************************************)
(* The programs of the OSU suite whose ranks do different things: those    *)
(* with one-sided operations.  Where a rank is in its program, what it may *)
(* have executed on the way there, and what that says of its own epochs    *)
(* and operations, does not depend on the other ranks.                     *)
(***************************************************************************)
EXTENDS OmbProofs

\* The sections of size k on rank r of program b.
Sections(b, r, k) ==
  IF k = 0 THEN <<Once(<<Check>> \o b.start)>>
  ELSE IF k = b.sizes + 1 THEN <<Once(b.finish \o <<Finalize>>)>>
  ELSE b.body[k][r + 1]

SectionIn(b, r, a) == Sections(b, r, a.size)[a.seg]
OpsIn(b, r, a)     == SectionIn(b, r, a).ops

\* A place in the program of rank r.
IsSpot(b, r, a) ==
  /\ a = Place(a.size, a.seg, a.iter, a.pos)
  /\ a.size \in 0 .. b.sizes + 1
  /\ a.seg \in 1 .. Len(Sections(b, r, a.size))
  /\ a.iter \in Nat
  /\ a.pos \in 1 .. Len(OpsIn(b, r, a))

\* Going from position p to q of ops, to its end or from its begin, nothing
\* is left out but what is guarded by if (i == options.skip).
Skips(ops, p, q) == p < q /\ \A n \in p + 1 .. q - 1 : ops[n].at_skip
Ends(ops, p)     == \A n \in p + 1 .. Len(ops) : ops[n].at_skip
Begins(ops, q)   == \A n \in 1 .. q - 1 : ops[n].at_skip

\* Rank r goes from place a to place c: within a section, or to the next
\* iteration, section or size.
Within(b, r, a, c) ==
  /\ c.size = a.size /\ c.seg = a.seg /\ c.iter = a.iter
  /\ Skips(OpsIn(b, r, a), a.pos, c.pos)

Crosses(b, r, a, c) ==
  /\ Ends(OpsIn(b, r, a), a.pos)
  /\ Begins(OpsIn(b, r, c), c.pos)
  /\ \/ c.size = a.size /\ c.seg = a.seg /\ c.iter = a.iter + 1 /\ SectionIn(b, r, a).loop
     \/ c.size = a.size /\ c.seg = a.seg + 1 /\ c.iter = 0
     \/ /\ c.size = a.size + 1 /\ c.seg = 1 /\ c.iter = 0
        /\ a.seg = Len(Sections(b, r, a.size))

Finishes(b, r, a, c) ==
  c = Over /\ a.size = b.sizes + 1 /\ Ends(OpsIn(b, r, a), a.pos)

\* The statement at c is due there, with options o.
Arrives(b, r, c, o) ==
  /\ IsSpot(b, r, c)
  /\ c.pos \in Due(SectionIn(b, r, c), c.iter, o)

Goes(b, r, a, c, o) ==
  \/ Arrives(b, r, c, o) /\ Within(b, r, a, c)
  \/ Arrives(b, r, c, o) /\ Crosses(b, r, a, c) /\ (c.iter = 0 \/ c.iter < Trips(o))
  \/ Finishes(b, r, a, c)

-----------------------------------------------------------------------------
LEMMA CodeIsSections ==
  /\ \A r, k : Code(r, k) = Sections(benchmark, r, k)
  /\ Closing = benchmark.sizes + 1
BY DEF Code, Sections, Closing

LEMMA SectionsAreStraight ==
  ASSUME WellFormed(benchmark), NEW r \in Ranks, NEW k \in 0 .. benchmark.sizes + 1
  PROVE  /\ Len(Sections(benchmark, r, k)) \in Nat \ {0}
         /\ \A s \in 1 .. Len(Sections(benchmark, r, k)) :
              IsStraight(Sections(benchmark, r, k)[s].ops)
<1>1. benchmark.sizes \in Nat /\ benchmark.np \in Nat \ {0}
  BY DEF WellFormed
<1>2. CASE k = 0 \/ k = Closing
  <2>1. Sections(benchmark, r, k) = CodeOf(k)
    BY <1>2, CodeIsSections DEF CodeOf, Code
  <2> QED BY <2>1, CodeIsSections, CodeIsStraight
<1>3. CASE k # 0 /\ k # Closing
  <2>1. k \in 1 .. benchmark.sizes /\ r + 1 \in 1 .. benchmark.np
    BY <1>1, <1>3, CodeIsSections DEF Ranks
  <2>2. Sections(benchmark, r, k) = benchmark.body[k][r + 1]
    BY <1>3, CodeIsSections DEF Sections
  <2> QED BY <2>1, <2>2 DEF WellFormed
<1> QED BY <1>2, <1>3

\* The first statement of a section that is due.
LEMMA FirstIsDue ==
  ASSUME NEW section, IsStraight(section.ops), NEW i, NEW o
  PROVE  LET p == Min(Due(section, i, o))
         IN  /\ p \in 1 .. Len(section.ops)
             /\ p \in Due(section, i, o)
             /\ Begins(section.ops, p)
<1> DEFINE due == Due(section, i, o)
<1>1. due # {} /\ due \subseteq Nat /\ due \subseteq 1 .. Len(section.ops)
  BY DueInRange
<1>2. DOMAIN section.ops = 1 .. Len(section.ops) /\ Len(section.ops) \in Nat
  BY DEF IsStraight, IsSequence
<1>3. \A n \in 1 .. Len(section.ops) : n \notin due => section.ops[n].at_skip
  BY <1>2 DEF Due
<1> HIDE DEF due
<1>4. Min(due) \in due /\ \A n \in due : Min(due) <= n
  BY <1>1, MinOf
<1>5. PICK p \in due : p = Min(due)
  BY <1>4
<1>6. ASSUME NEW n \in 1 .. p - 1 PROVE section.ops[n].at_skip
  <2>1. p \in 1 .. Len(section.ops) /\ n \in 1 .. Len(section.ops) /\ n < p
    BY <1>1, <1>2
  <2>2. n \notin due
    <3>1. n \in due => p <= n
      BY <1>4, <1>5
    <3> QED BY <2>1, <3>1
  <2> QED BY <1>3, <2>1, <2>2
<1>7. p \in 1 .. Len(section.ops) /\ p \in Due(section, i, o) /\ Begins(section.ops, p)
  BY <1>1, <1>6 DEF Begins, due
<1> QED BY <1>5, <1>7 DEF due

\* The next one that is due after p, if there is one.
LEMMA NextIsDue ==
  ASSUME NEW section, IsStraight(section.ops), NEW i, NEW o, NEW p \in 1 .. Len(section.ops)
  PROVE  LET rest == {q \in Due(section, i, o) : q > p}
         IN  /\ rest = {} => Ends(section.ops, p)
             /\ rest # {} => /\ Min(rest) \in 1 .. Len(section.ops)
                             /\ Min(rest) \in Due(section, i, o)
                             /\ Skips(section.ops, p, Min(rest))
<1> DEFINE due == Due(section, i, o)
           rest == {q \in due : q > p}
<1>1. due \subseteq Nat /\ due \subseteq 1 .. Len(section.ops)
  BY DueInRange
<1>2. DOMAIN section.ops = 1 .. Len(section.ops) /\ Len(section.ops) \in Nat
  BY DEF IsStraight, IsSequence
<1>3. \A n \in 1 .. Len(section.ops) : n \notin due => section.ops[n].at_skip
  BY <1>2 DEF Due
<1> HIDE DEF due
<1>4. rest \subseteq Nat /\ rest \subseteq 1 .. Len(section.ops)
  BY <1>1
<1>5. ASSUME NEW n \in p + 1 .. Len(section.ops), n \notin rest PROVE section.ops[n].at_skip
  <2>1. n \in 1 .. Len(section.ops) /\ n > p
    BY <1>2
  <2> QED BY <1>3, <1>5, <2>1
<1>6. rest = {} => Ends(section.ops, p)
  BY <1>5 DEF Ends
<1>7. ASSUME rest # {}
      PROVE  /\ Min(rest) \in 1 .. Len(section.ops) /\ Min(rest) \in due
             /\ Skips(section.ops, p, Min(rest))
  <2>1. Min(rest) \in rest /\ \A n \in rest : Min(rest) <= n
    <3> HIDE DEF rest
    <3> QED BY <1>4, <1>7, MinOf
  <2>2. PICK q \in rest : q = Min(rest)
    BY <2>1
  <2>3. \A n \in rest : q <= n
    BY <2>1, <2>2
  <2>4. q \in 1 .. Len(section.ops) /\ q \in due /\ p < q /\ p \in Nat /\ q \in Nat
    BY <1>4
  <2>5. ASSUME NEW n \in p + 1 .. q - 1 PROVE section.ops[n].at_skip
    <3>1. n \in p + 1 .. Len(section.ops) /\ n < q
      BY <1>2, <2>4
    <3>2. n \notin rest
      <4>1. n \in rest => q <= n
        BY <2>3
      <4> QED BY <2>4, <3>1, <4>1
    <3> QED BY <1>5, <3>1, <3>2
  <2>6. Skips(section.ops, p, q)
    BY <2>4, <2>5 DEF Skips
  <2> QED BY <2>2, <2>4, <2>6
<1> QED BY <1>6, <1>7 DEF due

\* Where iteration i of section s begins.
BeginOf(b, r, k, s, i, o) == Place(k, s, i, Min(Due(Sections(b, r, k)[s], i, o)))

LEMMA BeginArrives ==
  ASSUME WellFormed(benchmark), NEW r \in Ranks, NEW k \in 0 .. benchmark.sizes + 1,
         NEW s \in 1 .. Len(Sections(benchmark, r, k)), NEW i \in Nat, NEW o
  PROVE  LET c == BeginOf(benchmark, r, k, s, i, o)
         IN  /\ Arrives(benchmark, r, c, o) /\ Begins(OpsIn(benchmark, r, c), c.pos)
             /\ c.size = k /\ c.seg = s /\ c.iter = i
<1> DEFINE section == Sections(benchmark, r, k)[s]
           p == Min(Due(section, i, o))
           c == BeginOf(benchmark, r, k, s, i, o)
<1>1. IsStraight(section.ops)
  BY SectionsAreStraight
<1>2. p \in 1 .. Len(section.ops) /\ p \in Due(section, i, o) /\ Begins(section.ops, p)
  BY <1>1, FirstIsDue
<1> HIDE DEF p
<1>3. c.size = k /\ c.seg = s /\ c.iter = i /\ c.pos = p
  BY DEF BeginOf, Place, p
<1> HIDE DEF c
<1>4. SectionIn(benchmark, r, c) = section
  BY <1>3 DEF SectionIn
<1>5. OpsIn(benchmark, r, c) = section.ops
  BY <1>4 DEF OpsIn
<1>6. c = Place(c.size, c.seg, c.iter, c.pos)
  BY <1>3 DEF c, p, BeginOf
<1>7. IsSpot(benchmark, r, c)
  BY <1>2, <1>3, <1>5, <1>6 DEF IsSpot
<1>8. c.pos \in Due(SectionIn(benchmark, r, c), c.iter, o)
  BY <1>2, <1>3, <1>4
<1>9. Arrives(benchmark, r, c, o) /\ Begins(OpsIn(benchmark, r, c), c.pos)
  BY <1>2, <1>3, <1>5, <1>7, <1>8 DEF Arrives
<1> QED BY <1>3, <1>9 DEF c

\* Where a rank goes next.
LEMMA FollowingGoes ==
  ASSUME WellFormed(benchmark), NEW r \in Ranks, IsSpot(benchmark, r, at[r]), NEW o
  PROVE  Goes(benchmark, r, at[r], Following(r, o), o)
<1> DEFINE a == at[r]
           b == benchmark
           due == Due(SectionIn(b, r, a), a.iter, o)
           rest == {p \in due : p > a.pos}
           Begin(k, s, i) == BeginOf(b, r, k, s, i, o)
           Skip(p) == [a EXCEPT !.pos = p]
           c == Following(r, o)
<1>1. c = IF rest # {} THEN Skip(Min(rest))
          ELSE IF SectionIn(b, r, a).loop /\ a.iter + 1 < Trips(o)
               THEN Begin(a.size, a.seg, a.iter + 1)
          ELSE IF a.seg < Len(Sections(b, r, a.size)) THEN Begin(a.size, a.seg + 1, 0)
          ELSE IF a.size < b.sizes + 1 THEN Begin(a.size + 1, 1, 0)
          ELSE Over
  BY CodeIsSections DEF Following, Section, SectionIn, Place, BeginOf
<1>2. /\ a.size \in 0 .. b.sizes + 1 /\ a.seg \in 1 .. Len(Sections(b, r, a.size))
      /\ a.iter \in Nat /\ a.pos \in 1 .. Len(OpsIn(b, r, a))
  BY DEF IsSpot
<1>3. IsStraight(OpsIn(b, r, a)) /\ b.sizes \in Nat
      /\ Len(Sections(b, r, a.size)) \in Nat \ {0}
  BY <1>2, SectionsAreStraight DEF SectionIn, OpsIn, WellFormed
<1>13. a.seg \in 1 .. Len(Sections(b, r, a.size)) /\ Len(Sections(b, r, a.size)) \in Nat
  BY <1>2, <1>3
<1>14. a.size \in 0 .. b.sizes + 1 /\ b.sizes \in Nat
  BY <1>2, <1>3
<1>4. /\ rest = {} => Ends(OpsIn(b, r, a), a.pos)
      /\ rest # {} => /\ Min(rest) \in 1 .. Len(OpsIn(b, r, a))
                      /\ Min(rest) \in due
                      /\ Skips(OpsIn(b, r, a), a.pos, Min(rest))
  BY <1>2, <1>3, NextIsDue DEF OpsIn
<1>5. \A p : Skip(p) = Place(a.size, a.seg, a.iter, p)
  BY DEF IsSpot, Place
<1>6. CASE rest # {}
  <2>1. PICK p : p = Min(rest)
    OBVIOUS
  <2>2. c = Place(a.size, a.seg, a.iter, p)
    <3> HIDE DEF rest, Skip, c
    <3> QED BY <1>1, <1>5, <1>6, <2>1
  <2>3. c.size = a.size /\ c.seg = a.seg /\ c.iter = a.iter /\ c.pos = p
    <3> HIDE DEF c
    <3> QED BY <2>2 DEF Place
  <2> HIDE DEF c, rest
  <2>4. SectionIn(b, r, c) = SectionIn(b, r, a) /\ OpsIn(b, r, c) = OpsIn(b, r, a)
    BY <2>3 DEF SectionIn, OpsIn
  <2>5. p \in 1 .. Len(OpsIn(b, r, a)) /\ p \in due /\ Skips(OpsIn(b, r, a), a.pos, p)
    BY <1>4, <1>6, <2>1
  <2>6. c = Place(c.size, c.seg, c.iter, c.pos)
    BY <2>2, <2>3
  <2>7. IsSpot(b, r, c)
    BY <1>2, <2>3, <2>4, <2>5, <2>6 DEF IsSpot
  <2>8. Arrives(b, r, c, o)
    BY <2>3, <2>4, <2>5, <2>7 DEF Arrives
  <2>9. Within(b, r, a, c)
    BY <2>3, <2>5 DEF Within
  <2> QED BY <2>8, <2>9 DEF Goes, c
<1>7. CASE rest = {} /\ SectionIn(b, r, a).loop /\ a.iter + 1 < Trips(o)
  <2>1. c = Begin(a.size, a.seg, a.iter + 1)
    <3> HIDE DEF rest, Skip, Begin
    <3> QED BY <1>1, <1>7
  <2>2. a.iter + 1 \in Nat
    BY <1>2
  <2>3. /\ Arrives(b, r, c, o) /\ Begins(OpsIn(b, r, c), c.pos)
        /\ c.size = a.size /\ c.seg = a.seg /\ c.iter = a.iter + 1
    <3> HIDE DEF c
    <3> QED
        <4>1. LET d == BeginOf(b, r, a.size, a.seg, a.iter + 1, o)
               IN  /\ Arrives(b, r, d, o) /\ Begins(OpsIn(b, r, d), d.pos)
                   /\ d.size = a.size /\ d.seg = a.seg /\ d.iter = a.iter + 1
          BY <1>13, <1>14, <2>2, BeginArrives
        <4> QED BY <2>1, <4>1
  <2> HIDE DEF c
  <2>4. Ends(OpsIn(b, r, a), a.pos)
    BY <1>4, <1>7
  <2>5. Crosses(b, r, a, c) /\ c.iter < Trips(o)
    BY <1>7, <2>3, <2>4 DEF Crosses
  <2> QED BY <2>3, <2>5 DEF Goes, c
<1>8. CASE /\ rest = {} /\ ~(SectionIn(b, r, a).loop /\ a.iter + 1 < Trips(o))
           /\ a.seg < Len(Sections(b, r, a.size))
  <2>1. c = Begin(a.size, a.seg + 1, 0)
    <3> HIDE DEF rest, Skip, Begin
    <3> QED BY <1>1, <1>8
  <2>6. a.seg < Len(Sections(b, r, a.size))
    BY <1>8
  <2>2. a.seg + 1 \in 1 .. Len(Sections(b, r, a.size)) /\ 0 \in Nat
    BY <1>13, <2>6
  <2>3. /\ Arrives(b, r, c, o) /\ Begins(OpsIn(b, r, c), c.pos)
        /\ c.size = a.size /\ c.seg = a.seg + 1 /\ c.iter = 0
    <3> HIDE DEF c
    <3> QED
        <4>1. LET d == BeginOf(b, r, a.size, a.seg + 1, 0, o)
               IN  /\ Arrives(b, r, d, o) /\ Begins(OpsIn(b, r, d), d.pos)
                   /\ d.size = a.size /\ d.seg = a.seg + 1 /\ d.iter = 0
          BY <1>14, <2>2, BeginArrives
        <4> QED BY <2>1, <4>1
  <2> HIDE DEF c
  <2>4. Ends(OpsIn(b, r, a), a.pos)
    BY <1>4, <1>8
  <2>5. Crosses(b, r, a, c) /\ c.iter = 0
    BY <2>3, <2>4 DEF Crosses
  <2> QED BY <2>3, <2>5 DEF Goes, c
<1>9. CASE /\ rest = {} /\ ~(SectionIn(b, r, a).loop /\ a.iter + 1 < Trips(o))
           /\ ~(a.seg < Len(Sections(b, r, a.size))) /\ a.size < b.sizes + 1
  <2>1. c = Begin(a.size + 1, 1, 0)
    <3> HIDE DEF rest, Skip, Begin
    <3> QED BY <1>1, <1>9
  <2>7. a.size < b.sizes + 1
    BY <1>9
  <2>2. a.size + 1 \in 0 .. b.sizes + 1
    BY <1>14, <2>7
  <2>3. 1 \in 1 .. Len(Sections(b, r, a.size + 1)) /\ 0 \in Nat
    BY <2>2, SectionsAreStraight
  <2>4. /\ Arrives(b, r, c, o) /\ Begins(OpsIn(b, r, c), c.pos)
        /\ c.size = a.size + 1 /\ c.seg = 1 /\ c.iter = 0
    <3> HIDE DEF c
    <3> QED BY <2>1, <2>2, <2>3, BeginArrives
  <2> HIDE DEF c
  <2>5. Ends(OpsIn(b, r, a), a.pos) /\ a.seg = Len(Sections(b, r, a.size))
    BY <1>2, <1>3, <1>4, <1>9
  <2>6. Crosses(b, r, a, c) /\ c.iter = 0
    BY <2>4, <2>5 DEF Crosses
  <2> QED BY <2>4, <2>6 DEF Goes, c
<1>10. CASE /\ rest = {} /\ ~(SectionIn(b, r, a).loop /\ a.iter + 1 < Trips(o))
            /\ ~(a.seg < Len(Sections(b, r, a.size))) /\ ~(a.size < b.sizes + 1)
  <2>1. c = Over
    <3> HIDE DEF rest, Skip, Begin
    <3> QED BY <1>1, <1>10
  <2>2. a.size = b.sizes + 1
    BY <1>2, <1>3, <1>10
  <2>3. Finishes(b, r, a, c)
    BY <1>4, <1>10, <2>1, <2>2 DEF Finishes
  <2> HIDE DEF c
  <2> QED BY <2>3 DEF Goes, c
<1> QED BY <1>6, <1>7, <1>8, <1>9, <1>10

-----------------------------------------------------------------------------
\* What a step of rank r does to its place, and what its statement does to
\* the windows.
Usable == po_ret = "po_okay" /\ benchmark.fits

Proceeds(r) ==
  /\ at[r] # Over
  /\ DOMAIN at' = DOMAIN at
  /\ \A q \in Ranks \ {r} : at'[q] = at[q]
  /\ \/ Op(r).op = "check" /\ ~Usable /\ at'[r] = Usage
     \/ Op(r).op = "call" /\ ~inside[r] /\ at'[r] = at[r]
     \/ /\ Op(r).op = "check" => Usable
        /\ Op(r).op = "call" => inside[r]
        /\ Goes(benchmark, r, at[r], at'[r], options'[r])

Issued(r) ==
  [target |-> Op(r).peer, lands |-> Lands(r), kind |-> Op(r).kind,
   size |-> at[r].size, iter |-> at[r].iter,
   epoch |-> IF access[r] = "start" THEN started[r] ELSE 0]

Effects(r) ==
  LET o == Op(r)
  IN  /\ pending' = IF o.op = "access" THEN [pending EXCEPT ![r] = Append(@, Issued(r))]
                    ELSE pending
      /\ disp_remote' = IF o.op = "table" THEN [disp_remote EXCEPT ![r] = TableOf(r)]
                        ELSE IF o.op = "address" THEN [disp_remote EXCEPT ![r] = Base(o.peer)]
                        ELSE disp_remote
      /\ access' = IF o.op = "lock" THEN [access EXCEPT ![r] = "lock"]
                   ELSE IF o.op = "start_epoch" THEN [access EXCEPT ![r] = "start"]
                   ELSE IF o.op \in {"unlock", "complete"} THEN [access EXCEPT ![r] = "none"]
                   ELSE access
      /\ exposed' = IF o.op = "post" THEN [exposed EXCEPT ![r] = TRUE]
                    ELSE IF o.op = "win_wait" THEN [exposed EXCEPT ![r] = FALSE]
                    ELSE exposed
      /\ posted' = IF o.op = "post" THEN [posted EXCEPT ![r] = @ + 1] ELSE posted
      /\ started' = IF o.op = "start_epoch" THEN [started EXCEPT ![r] = @ + 1] ELSE started

\* What the synchronisation calls wait for.
Waits(r) ==
  LET o == Op(r)
  IN  /\ o.op \in {"unlock", "flush"} => pending[r] = <<>>
      /\ o.op \in {"flush_local", "complete"} => LocallyComplete(r)
      /\ o.op = "start_epoch" => eager \/ posted[o.peer] > started[r]
      /\ o.op = "win_wait" => \A q \in Ranks \ {r} :
           /\ HasCompleted(q, r)
           /\ \A n \in DOMAIN pending[q] : pending[q][n].epoch > posted[r]

WindowOps == {"access", "lock", "unlock", "flush", "flush_local", "post", "start_epoch",
              "complete", "win_wait", "table", "address"}

\* Its options.
Chooses(r) ==
  LET s == Op(r).set
  IN  /\ DOMAIN options' = DOMAIN options
      /\ \A q \in Ranks \ {r} : options'[q] = options[q]
      /\ options'[r] = IF Op(r).op = "options"
                       THEN [loop |-> IF s.loop = Keep THEN options[r].loop ELSE s.loop,
                             skip |-> IF s.skip = Keep THEN options[r].skip ELSE s.skip]
                       ELSE options[r]

Acts(r) == launch' = launch /\ Proceeds(r) /\ Chooses(r) /\ Effects(r) /\ Waits(r)

\* A rank is somewhere in its program.
Somewhere(r) == at[r] # Over => IsSpot(benchmark, r, at[r])

Placed ==
  /\ DOMAIN at = Ranks /\ DOMAIN options = Ranks
  /\ DOMAIN access = Ranks /\ DOMAIN exposed = Ranks /\ DOMAIN posted = Ranks
  /\ DOMAIN started = Ranks /\ DOMAIN pending = Ranks /\ DOMAIN disp_remote = Ranks
  /\ \A r \in Ranks : Somewhere(r)

LEMMA GoesOn ==
  ASSUME WellFormed(benchmark), Placed, NEW r \in Ranks, Running(r),
         Op(r).op # "check", Op(r).op = "call" => inside[r],
         at' = [at EXCEPT ![r] = Following(r, options'[r])]
  PROVE  Proceeds(r)
<1>1. IsSpot(benchmark, r, at[r]) /\ at[r] # Over
  BY DEF Placed, Somewhere, Running
<1>2. Goes(benchmark, r, at[r], Following(r, options'[r]), options'[r])
  BY <1>1, FollowingGoes
<1>3. at'[r] = Following(r, options'[r]) /\ DOMAIN at' = DOMAIN at
      /\ \A q \in Ranks \ {r} : at'[q] = at[q]
  BY DEF Placed
<1> QED BY <1>1, <1>2, <1>3 DEF Proceeds

LEMMA NoEffects ==
  ASSUME NEW r, UNCHANGED windows, Op(r).op \notin WindowOps
  PROVE  Effects(r) /\ Waits(r)
<1>1. /\ access' = access /\ exposed' = exposed /\ posted' = posted /\ started' = started
      /\ pending' = pending /\ disp_remote' = disp_remote
  BY DEF windows, epochs
<1>2. \A op \in WindowOps : Op(r).op # op
  OBVIOUS
<1> QED BY <1>1, <1>2 DEF Effects, Waits, WindowOps

LEMMA FrameStep ==
  ASSUME WellFormed(benchmark), Placed, NEW r \in Ranks, Step(r), UNCHANGED windows
  PROVE  Acts(r)
<1>7. options' = options /\ Op(r).op # "options" => Chooses(r)
  BY DEF Chooses
<1>1. ASSUME NEW op, At(r, op), op \notin {"check", "call", "options"}, op \notin WindowOps,
             GoOn(r), options' = options, launch' = launch
      PROVE  Acts(r)
  <2>1. Running(r) /\ Op(r).op = op
    BY <1>1 DEF At
  <2>2. at' = [at EXCEPT ![r] = Following(r, options'[r])]
    BY <1>1 DEF GoOn
  <2>3. Proceeds(r)
    BY <1>1, <2>1, <2>2, GoesOn
  <2> QED BY <1>1, <1>7, <2>1, <2>3, NoEffects DEF Acts
<1>2. CASE Pass(r)
  <2>1. PICK op \in {"touch", "report"} : Op(r).op = op
    BY <1>2 DEF Pass
  <2>2. At(r, op) /\ op \notin {"check", "call", "options"} /\ op \notin WindowOps
    BY <1>2, <2>1 DEF Pass, At, WindowOps
  <2>3. GoOn(r) /\ options' = options /\ launch' = launch
    BY <1>2 DEF Pass
  <2> QED BY <1>1, <2>2, <2>3
<1>3. CASE \/ ReadStart(r) \/ ReadEnd(r) \/ AddSample(r) \/ ResetTimer(r)
           \/ PostSend(r) \/ PostRecv(r) \/ CompleteSends(r) \/ CompleteRecvs(r)
           \/ TestCollective(r) \/ WaitCollective(r) \/ StartCollective(r)
  <2> DEFINE ops == {"t_start", "t_end", "sample", "reset", "isend", "irecv", "waitsends",
                     "waitrecvs", "test", "wait", "start"}
  <2>1. \E op \in ops : At(r, op)
    BY <1>3 DEF ReadStart, ReadEnd, AddSample, ResetTimer, PostSend, PostRecv, CompleteSends,
                CompleteRecvs, TestCollective, WaitCollective, StartCollective
  <2>2. PICK op \in ops : At(r, op)
    BY <2>1
  <2>3. op \notin {"check", "call", "options"} /\ op \notin WindowOps
    BY DEF WindowOps
  <2>4. GoOn(r) /\ options' = options /\ launch' = launch
    BY <1>3 DEF ReadStart, ReadEnd, AddSample, ResetTimer, PostSend, PostRecv, CompleteSends,
                CompleteRecvs, TestCollective, WaitCollective, StartCollective
  <2> QED BY <1>1, <2>2, <2>3, <2>4
<1>4. CASE CheckUsage(r)
  <2>1. Running(r) /\ Op(r).op = "check" /\ launch' = launch /\ options' = options
    BY <1>4 DEF CheckUsage, At
  <2>2. IsSpot(benchmark, r, at[r]) /\ at[r] # Over
    BY <2>1 DEF Placed, Somewhere, Running
  <2>3. CASE Usable
    <3>1. at' = [at EXCEPT ![r] = Following(r, options'[r])]
      BY <1>4, <2>1, <2>3 DEF CheckUsage, GoOn, Usable
    <3>2. Goes(benchmark, r, at[r], Following(r, options'[r]), options'[r])
      BY <2>2, FollowingGoes
    <3>3. at'[r] = Following(r, options'[r]) /\ DOMAIN at' = DOMAIN at
          /\ \A q \in Ranks \ {r} : at'[q] = at[q]
      BY <3>1 DEF Placed
    <3> QED BY <1>7, <2>1, <2>2, <2>3, <3>2, <3>3, NoEffects DEF Proceeds, Acts, WindowOps
  <2>4. CASE ~Usable
    <3>1. at' = [at EXCEPT ![r] = Usage]
      BY <1>4, <2>4 DEF CheckUsage, Usable, Usage
    <3>2. at'[r] = Usage /\ DOMAIN at' = DOMAIN at /\ \A q \in Ranks \ {r} : at'[q] = at[q]
      BY <3>1 DEF Placed
    <3> QED BY <1>7, <2>1, <2>2, <2>4, <3>2, NoEffects DEF Proceeds, Acts, WindowOps
  <2> QED BY <2>3, <2>4
<1>5. CASE SetOptions(r)
  <2>1. Running(r) /\ Op(r).op = "options" /\ launch' = launch
    BY <1>5 DEF SetOptions, At
  <2> DEFINE s == Op(r).set
               o == [loop |-> IF s.loop = Keep THEN options[r].loop ELSE s.loop,
                     skip |-> IF s.skip = Keep THEN options[r].skip ELSE s.skip]
  <2>3. options' = [options EXCEPT ![r] = o] /\ at' = [at EXCEPT ![r] = Following(r, o)]
    BY <1>5 DEF SetOptions
  <2> HIDE DEF o
  <2>4. at' = [at EXCEPT ![r] = Following(r, options'[r])]
    BY <2>3 DEF Placed
  <2>5. Proceeds(r)
    BY <2>1, <2>4, GoesOn
  <2>6. Chooses(r)
    BY <2>1, <2>3 DEF Chooses, Placed, o
  <2> QED BY <2>1, <2>5, <2>6, NoEffects DEF Acts, WindowOps
<1>6. CASE EnterCollective(r)
  <2>1. Running(r) /\ Op(r).op = "call" /\ ~inside[r] /\ launch' = launch /\ at' = at /\ options' = options
    BY <1>6 DEF EnterCollective, At
  <2>2. Proceeds(r)
    BY <2>1 DEF Proceeds, Running
  <2> QED BY <1>7, <2>1, <2>2, NoEffects DEF Acts, WindowOps
<1>8. CASE LeaveCollective(r)
  <2>1. /\ Running(r) /\ Op(r).op = "call" /\ inside[r] /\ launch' = launch
        /\ options' = options /\ GoOn(r)
    BY <1>8 DEF LeaveCollective, At
  <2>2. at' = [at EXCEPT ![r] = Following(r, options'[r])]
    BY <2>1 DEF GoOn
  <2>3. Proceeds(r)
    BY <2>1, <2>2, GoesOn
  <2> QED BY <1>7, <2>1, <2>3, NoEffects DEF Acts, WindowOps
<1> QED BY <1>2, <1>3, <1>4, <1>5, <1>6, <1>8 DEF Step

LEMMA WindowStep ==
  ASSUME WellFormed(benchmark), Placed, NEW r \in Ranks, WinStep(r)
  PROVE  Acts(r)
<1>1. ASSUME NEW op \in WindowOps, Perform(r, op), Effects(r), Waits(r) PROVE Acts(r)
  <2>1. /\ Running(r) /\ Op(r).op = op /\ launch' = launch /\ options' = options /\ GoOn(r)
    BY <1>1 DEF Perform, At, frame
  <2>2. at' = [at EXCEPT ![r] = Following(r, options'[r])]
    BY <2>1 DEF GoOn
  <2>3. op \notin {"check", "call"}
    BY DEF WindowOps
  <2>4. Proceeds(r)
    BY <2>1, <2>2, <2>3, GoesOn
  <2>5. Chooses(r)
    <3>1. op # "options"
      BY DEF WindowOps
    <3> QED BY <2>1, <3>1 DEF Chooses
  <2> QED BY <1>1, <2>1, <2>4, <2>5 DEF Acts
<1>2. \A op : Perform(r, op) => Op(r).op = op
  BY DEF Perform, At
<1>3. CASE Issue(r)
  <2>1. Perform(r, "access") /\ Op(r).op = "access" /\ "access" \in WindowOps
    BY <1>2, <1>3 DEF Issue, WindowOps
  <2>2. Effects(r)
    BY <1>3, <2>1 DEF Issue, Effects, Issued, epochs
  <2>3. Waits(r)
    BY <2>1 DEF Waits
  <2> QED BY <1>1, <2>1, <2>2, <2>3
<1>4. CASE AcquireLock(r)
  <2>1. Perform(r, "lock") /\ Op(r).op = "lock" /\ "lock" \in WindowOps
    BY <1>2, <1>4 DEF AcquireLock, WindowOps
  <2>2. Effects(r)
    BY <1>4, <2>1 DEF AcquireLock, Effects
  <2>3. Waits(r)
    BY <2>1 DEF Waits
  <2> QED BY <1>1, <2>1, <2>2, <2>3
<1>5. CASE ReleaseLock(r)
  <2>1. Perform(r, "unlock") /\ Op(r).op = "unlock" /\ "unlock" \in WindowOps
    BY <1>2, <1>5 DEF ReleaseLock, WindowOps
  <2>2. Effects(r)
    BY <1>5, <2>1 DEF ReleaseLock, Effects
  <2>3. Waits(r)
    BY <1>5, <2>1 DEF ReleaseLock, Waits
  <2> QED BY <1>1, <2>1, <2>2, <2>3
<1>6. CASE FlushAll(r)
  <2>1. Perform(r, "flush") /\ Op(r).op = "flush" /\ "flush" \in WindowOps
    BY <1>2, <1>6 DEF FlushAll, WindowOps
  <2>2. Effects(r)
    BY <1>6, <2>1 DEF FlushAll, Effects, windows, epochs
  <2>3. Waits(r)
    BY <1>6, <2>1 DEF FlushAll, Waits
  <2> QED BY <1>1, <2>1, <2>2, <2>3
<1>7. CASE FlushBuffers(r)
  <2>1. Perform(r, "flush_local") /\ Op(r).op = "flush_local" /\ "flush_local" \in WindowOps
    BY <1>2, <1>7 DEF FlushBuffers, WindowOps
  <2>2. Effects(r)
    BY <1>7, <2>1 DEF FlushBuffers, Effects, windows, epochs
  <2>3. Waits(r)
    BY <1>7, <2>1 DEF FlushBuffers, Waits
  <2> QED BY <1>1, <2>1, <2>2, <2>3
<1>8. CASE PostEpoch(r)
  <2>1. Perform(r, "post") /\ Op(r).op = "post" /\ "post" \in WindowOps
    BY <1>2, <1>8 DEF PostEpoch, WindowOps
  <2>2. Effects(r)
    BY <1>8, <2>1 DEF PostEpoch, Effects
  <2>3. Waits(r)
    BY <2>1 DEF Waits
  <2> QED BY <1>1, <2>1, <2>2, <2>3
<1>9. CASE StartEpoch(r)
  <2>1. Perform(r, "start_epoch") /\ Op(r).op = "start_epoch" /\ "start_epoch" \in WindowOps
    BY <1>2, <1>9 DEF StartEpoch, WindowOps
  <2>2. Effects(r)
    BY <1>9, <2>1 DEF StartEpoch, Effects
  <2>3. Waits(r)
    BY <1>9, <2>1 DEF StartEpoch, Waits
  <2> QED BY <1>1, <2>1, <2>2, <2>3
<1>10. CASE CompleteEpoch(r)
  <2>1. Perform(r, "complete") /\ Op(r).op = "complete" /\ "complete" \in WindowOps
    BY <1>2, <1>10 DEF CompleteEpoch, WindowOps
  <2>2. Effects(r)
    BY <1>10, <2>1 DEF CompleteEpoch, Effects
  <2>3. Waits(r)
    BY <1>10, <2>1 DEF CompleteEpoch, Waits
  <2> QED BY <1>1, <2>1, <2>2, <2>3
<1>11. CASE WaitEpoch(r)
  <2>1. Perform(r, "win_wait") /\ Op(r).op = "win_wait" /\ "win_wait" \in WindowOps
    BY <1>2, <1>11 DEF WaitEpoch, WindowOps
  <2>2. Effects(r)
    BY <1>11, <2>1 DEF WaitEpoch, Effects
  <2>3. Waits(r)
    BY <1>11, <2>1 DEF WaitEpoch, Waits
  <2> QED BY <1>1, <2>1, <2>2, <2>3
<1>12. CASE KeepTable(r)
  <2>1. Perform(r, "table") /\ Op(r).op = "table" /\ "table" \in WindowOps
    BY <1>2, <1>12 DEF KeepTable, WindowOps
  <2>2. Effects(r)
    BY <1>12, <2>1 DEF KeepTable, Effects, epochs
  <2>3. Waits(r)
    BY <2>1 DEF Waits
  <2> QED BY <1>1, <2>1, <2>2, <2>3
<1>13. CASE KeepAddress(r)
  <2>1. Perform(r, "address") /\ Op(r).op = "address" /\ "address" \in WindowOps
    BY <1>2, <1>13 DEF KeepAddress, WindowOps
  <2>2. Effects(r)
    BY <1>13, <2>1 DEF KeepAddress, Effects, epochs
  <2>3. Waits(r)
    BY <2>1 DEF Waits
  <2> QED BY <1>1, <2>1, <2>2, <2>3
<1> QED BY <1>3, <1>4, <1>5, <1>6, <1>7, <1>8, <1>9, <1>10, <1>11, <1>12, <1>13 DEF WinStep

\* Every step is one of a rank, or an operation takes place, or neither the
\* places nor the windows change.
Rests == launch' = launch /\ at' = at /\ options' = options /\ windows' = windows

Lapses(r, n) ==
  /\ n \in DOMAIN pending[r] /\ Exposed(pending[r][n])
  /\ pending' = [pending EXCEPT ![r] = Without(@, n)]
  /\ launch' = launch /\ at' = at /\ options' = options
  /\ access' = access /\ exposed' = exposed /\ posted' = posted /\ started' = started
  /\ disp_remote' = disp_remote

LEMMA StepIs ==
  ASSUME WellFormed(benchmark), Placed, [WinNext]_<<vars, windows>>
  PROVE  \/ \E r \in Ranks : Acts(r)
         \/ \E r \in Ranks : \E n : Lapses(r, n)
         \/ Rests
<1>1. CASE Next /\ UNCHANGED windows
  <2>1. CASE \E r \in Ranks : Step(r)
    BY <1>1, <2>1, FrameStep
  <2>2. CASE \E p, q \in Ranks : \E tag \in Tags(p) : Deliver(p, q, tag)
    BY <1>1, <2>2 DEF Deliver, Rests
  <2>3. CASE Exit
    BY <1>1, <2>3 DEF Exit, vars, Rests
  <2> QED BY <1>1, <2>1, <2>2, <2>3 DEF Next
<1>2. CASE \E r \in Ranks : WinStep(r)
  BY <1>2, WindowStep
<1>3. CASE \E r \in Ranks : \E n \in DOMAIN pending[r] : TakePlace(r, n)
  BY <1>3 DEF TakePlace, Lapses, vars, epochs
<1>4. CASE UNCHANGED <<vars, windows>>
  BY <1>4 DEF vars, Rests
<1> QED BY <1>1, <1>2, <1>3, <1>4 DEF WinNext

-----------------------------------------------------------------------------
LEMMA SameLaunch ==
  ASSUME launch' = launch
  PROVE  /\ benchmark' = benchmark /\ po_ret' = po_ret /\ eager' = eager
         /\ Ranks' = Ranks /\ Over' = Over /\ Usage' = Usage /\ Usable' = Usable
BY DEF launch, Ranks, Over, Closing, Usage, Usable

LEMMA SpotIsNotOver ==
  ASSUME WellFormed(benchmark), NEW r, NEW a, IsSpot(benchmark, r, a)
  PROVE  a # Over
<1>1. a.size \in 0 .. benchmark.sizes + 1 /\ benchmark.sizes \in Nat
  BY DEF IsSpot, WellFormed
<1>2. Over.size = benchmark.sizes + 2
  BY <1>1 DEF Over, Closing
<1> QED BY <1>1, <1>2

LEMMA UsageIsSpot ==
  ASSUME WellFormed(benchmark), NEW r \in Ranks
  PROVE  IsSpot(benchmark, r, Usage) /\ Usage.size = benchmark.sizes + 1
<1>1. IsPlace(Usage) /\ Usage.size = benchmark.sizes + 1
  BY UsageIsPlace, CodeIsSections DEF Usage
<1>2. CodeOf(Usage.size) = Sections(benchmark, r, Usage.size)
  BY <1>1, CodeIsSections DEF CodeOf, Code
<1>3. SectionAt(Usage) = SectionIn(benchmark, r, Usage)
  BY <1>2 DEF SectionAt, SectionIn
<1>4. SectionAt(Usage).ops = OpsIn(benchmark, r, Usage)
  BY <1>3 DEF OpsIn
<1>5. Usage = Place(Usage.size, Usage.seg, Usage.iter, Usage.pos)
  BY DEF Usage, Place
<1> QED BY <1>1, <1>2, <1>4, <1>5, CodeIsSections DEF IsPlace, IsSpot

\* The benchmark begins to work only if it was called rightly.
Admitted(a) == a = Place(0, 1, 0, 1) \/ (a # Over /\ a.size = benchmark.sizes + 1) \/ a = Over \/ Usable

PlaceInv == WellFormed(benchmark) => Placed /\ \A r \in Ranks : Admitted(at[r])

LEMMA OpIsAt ==
  ASSUME NEW r, at[r] # Over
  PROVE  Running(r) /\ Op(r) = OpsIn(benchmark, r, at[r])[at[r].pos]
         /\ Section(r) = SectionIn(benchmark, r, at[r])
BY CodeIsSections DEF Running, Op, Section, OpsIn, SectionIn

\* Where a step of rank r leads.
LEMMA ProceedsWhere ==
  ASSUME WellFormed(benchmark), Placed, NEW r \in Ranks, Proceeds(r)
  PROVE  at'[r] = Over \/ IsSpot(benchmark, r, at'[r])
<1>1. CASE at'[r] = Usage
  BY <1>1, UsageIsSpot
<1>2. CASE at'[r] = at[r]
  BY <1>2 DEF Proceeds, Placed, Somewhere
<1>3. CASE Goes(benchmark, r, at[r], at'[r], options'[r])
  BY <1>3 DEF Goes, Arrives, Finishes
<1> QED BY <1>1, <1>2, <1>3 DEF Proceeds

LEMMA StartsWithCheck ==
  ASSUME WellFormed(benchmark), NEW r \in Ranks
  PROVE  /\ IsSpot(benchmark, r, Place(0, 1, 0, 1))
         /\ OpsIn(benchmark, r, Place(0, 1, 0, 1))[1] = Check
<1> DEFINE ops == <<Check>> \o benchmark.start
           a == Place(0, 1, 0, 1)
<1>1. a.size = 0 /\ a.seg = 1 /\ a.iter = 0 /\ a.pos = 1
  BY DEF Place
<1>2. benchmark.sizes \in Nat
  BY DEF WellFormed
<1> HIDE DEF a
<1>3. Sections(benchmark, r, 0) = <<Once(ops)>>
  BY DEF Sections
<1>4. ops[1] = Check /\ Len(ops) \in Nat /\ Len(ops) >= 1
  <2> DEFINE S == {benchmark.start[n] : n \in 1 .. Len(benchmark.start)} \cup {Check}
  <2>1. benchmark.start \in Seq(S) /\ <<Check>> \in Seq(S)
    <3>1. benchmark.start \in Seq({benchmark.start[n] : n \in 1 .. Len(benchmark.start)})
      BY SequenceRange DEF WellFormed
    <3> QED BY <3>1
  <2> HIDE DEF S
  <2> QED BY <2>1
<1> HIDE DEF ops
<1>5. Len(<<Once(ops)>>) = 1 /\ <<Once(ops)>>[1].ops = ops
  BY DEF Once
<1>6. Len(Sections(benchmark, r, a.size)) = 1 /\ OpsIn(benchmark, r, a) = ops
  BY <1>1, <1>3, <1>5 DEF OpsIn, SectionIn
<1>7. a = Place(a.size, a.seg, a.iter, a.pos)
  BY <1>1 DEF a
<1>8. IsSpot(benchmark, r, a)
  <2>1. a.size \in 0 .. benchmark.sizes + 1 /\ a.iter \in Nat
    BY <1>1, <1>2
  <2>2. a.seg \in 1 .. Len(Sections(benchmark, r, a.size))
    <3>1. 1 .. Len(Sections(benchmark, r, a.size)) = 1 .. 1
      BY <1>6
    <3>2. a.seg \in 1 .. 1
      BY <1>1
    <3> QED BY <3>1, <3>2
  <2>3. a.pos \in 1 .. Len(OpsIn(benchmark, r, a))
    BY <1>1, <1>4, <1>6
  <2> QED BY <1>7, <2>1, <2>2, <2>3 DEF IsSpot
<1> QED BY <1>4, <1>6, <1>8 DEF a

LEMMA AdmittedStep ==
  ASSUME WellFormed(benchmark), Placed, NEW r \in Ranks, Admitted(at[r]), Acts(r)
  PROVE  Admitted(at[r])'
<1>1. launch' = launch /\ Proceeds(r)
  BY DEF Acts
<1>2. benchmark' = benchmark /\ Usable' = Usable /\ Over' = Over
  BY <1>1, SameLaunch
<1>3. at[r] # Over /\ IsSpot(benchmark, r, at[r])
  BY <1>1 DEF Proceeds, Placed, Somewhere
<1>4. CASE Usable
  BY <1>2, <1>4 DEF Admitted
<1>5. CASE ~Usable /\ at[r] = Place(0, 1, 0, 1)
  <2>1. Op(r) = Check
    <3>1. at[r].pos = 1
      BY <1>5 DEF Place
    <3> QED BY <1>3, <1>5, <3>1, OpIsAt, StartsWithCheck
  <2>2. Op(r).op = "check"
    <3>1. Check.op = "check"
      BY DEF Check, Do
    <3> QED BY <2>1, <3>1
  <2>3. at'[r] = Usage
    BY <1>1, <1>5, <2>2 DEF Proceeds
  <2>4. Usage.size = benchmark.sizes + 1 /\ Usage # Over
    BY UsageIsSpot, SpotIsNotOver
  <2> QED BY <1>2, <2>3, <2>4 DEF Admitted
<1>6. CASE ~Usable /\ at[r].size = benchmark.sizes + 1
  <2>1. at'[r] = Over \/ IsSpot(benchmark, r, at'[r])
    BY <1>1, ProceedsWhere
  <2>2. CASE at'[r] = Over
    BY <1>2, <2>2 DEF Admitted
  <2>3. CASE at'[r] # Over
    <3>1. at'[r].size \in 0 .. benchmark.sizes + 1 /\ benchmark.sizes \in Nat
      BY <2>1, <2>3 DEF IsSpot, WellFormed
    <3>2. \/ at'[r] = Usage \/ at'[r] = at[r] \/ at'[r].size = at[r].size
          \/ at'[r].size = at[r].size + 1
      BY <1>1, <2>3 DEF Proceeds, Goes, Within, Crosses, Finishes
    <3>3. at'[r].size = benchmark.sizes + 1
      BY <1>6, <3>1, <3>2, UsageIsSpot
    <3> QED BY <1>2, <2>3, <3>3 DEF Admitted
  <2> QED BY <2>2, <2>3
<1> QED BY <1>3, <1>4, <1>5, <1>6 DEF Admitted

LEMMA PlaceInvStep ==
  ASSUME PlaceInv, [WinNext]_<<vars, windows>>
  PROVE  PlaceInv'
<1> SUFFICES ASSUME WellFormed(benchmark)'
             PROVE  Placed' /\ \A r \in Ranks' : Admitted(at[r])'
  BY DEF PlaceInv
<1>1. launch' = launch
  BY LaunchStays
<1>2. benchmark' = benchmark /\ Ranks' = Ranks /\ Over' = Over /\ Usable' = Usable
  BY <1>1, SameLaunch
<1>3. WellFormed(benchmark)
  BY <1>2
<1>4. Placed /\ \A r \in Ranks : Admitted(at[r])
  BY <1>3 DEF PlaceInv
<1>5. CASE \E r \in Ranks : Acts(r)
  <2>1. PICK r \in Ranks : Acts(r)
    BY <1>5
  <2>2. /\ DOMAIN access' = Ranks /\ DOMAIN exposed' = Ranks /\ DOMAIN posted' = Ranks
        /\ DOMAIN started' = Ranks /\ DOMAIN pending' = Ranks /\ DOMAIN disp_remote' = Ranks
    BY <1>4, <2>1 DEF Acts, Effects, Placed
  <2>3. DOMAIN at' = Ranks /\ DOMAIN options' = Ranks
    BY <1>4, <2>1 DEF Acts, Proceeds, Chooses, Placed
  <2>4. ASSUME NEW q \in Ranks PROVE Somewhere(q)' /\ Admitted(at[q])'
    <3>1. CASE q = r
      <4>1. Admitted(at[r])'
        BY <1>3, <1>4, <2>1, AdmittedStep
      <4>2. at'[r] = Over \/ IsSpot(benchmark, r, at'[r])
        BY <1>3, <1>4, <2>1, ProceedsWhere DEF Acts
      <4>3. Somewhere(r)'
        BY <1>2, <4>2 DEF Somewhere
      <4> QED BY <3>1, <4>1, <4>3
    <3>2. CASE q # r
      <4>1. at'[q] = at[q]
        BY <2>1, <3>2 DEF Acts, Proceeds
      <4> QED BY <1>2, <1>4, <4>1 DEF Placed, Somewhere, Admitted
    <3> QED BY <3>1, <3>2
  <2> QED BY <1>2, <2>2, <2>3, <2>4 DEF Placed
<1>6. CASE \E r \in Ranks : \E n : Lapses(r, n)
  <2>1. PICK r \in Ranks : \E n : Lapses(r, n)
    BY <1>6
  <2>2. PICK n : Lapses(r, n)
    BY <2>1
  <2>3. DOMAIN pending' = Ranks
    BY <1>4, <2>2 DEF Lapses, Placed
  <2>4. \A q \in Ranks : Somewhere(q)' /\ Admitted(at[q])'
    BY <1>2, <1>4, <2>2 DEF Lapses, Placed, Somewhere, Admitted
  <2> QED BY <1>2, <1>4, <2>2, <2>3, <2>4 DEF Lapses, Placed
<1>7. CASE Rests
  <2>1. \A q \in Ranks : Somewhere(q)' /\ Admitted(at[q])'
    BY <1>2, <1>4, <1>7 DEF Rests, Placed, Somewhere, Admitted
  <2> QED BY <1>2, <1>4, <1>7, <2>1 DEF Rests, Placed, windows, epochs
<1> QED BY <1>3, <1>4, <1>5, <1>6, <1>7, StepIs

(***************************************************************************)
(* Every rank is always at a statement of its own program, or it has       *)
(* finished, and it is beyond the checks at its begin only if they allowed *)
(* it.                                                                     *)
(***************************************************************************)
LEMMA PlaceInvariance == WinSpec => []PlaceInv
<1>1. WinInit => PlaceInv
  <2> SUFFICES ASSUME WinInit, WellFormed(benchmark)
               PROVE  Placed /\ \A r \in Ranks : Admitted(at[r])
    BY DEF PlaceInv
  <2>1. \A r \in Ranks : at[r] = Place(0, 1, 0, 1)
    BY DEF WinInit, Init, Place
  <2>2. \A r \in Ranks : Somewhere(r) /\ Admitted(at[r])
    BY <2>1, StartsWithCheck DEF Somewhere, Admitted
  <2> QED BY <2>2 DEF WinInit, Init, Placed
<1>2. PlaceInv /\ [WinNext]_<<vars, windows>> => PlaceInv'
  BY PlaceInvStep
<1> QED BY <1>1, <1>2, PTL DEF WinSpec

-----------------------------------------------------------------------------
\* The operations of rank r that have not taken place.
Elements(f) == {f[n] : n \in DOMAIN f}
Entries(r)  == Elements(pending[r])

QueueInv == WellFormed(benchmark) => \A r \in Ranks : IsSequence(pending[r])

LEMMA SequenceDomain ==
  ASSUME NEW f, IsSequence(f)
  PROVE  DOMAIN f = 1 .. Len(f) /\ Len(f) \in Nat
BY DEF IsSequence

LEMMA Appended ==
  ASSUME NEW f, IsSequence(f), NEW e
  PROVE  /\ IsSequence(Append(f, e))
         /\ Elements(Append(f, e)) = Elements(f) \cup {e}
<1> DEFINE S == {f[n] : n \in 1 .. Len(f)}
           g == Append(f, e)
<1>1. f \in Seq(S)
  BY SequenceRange
<1>2. DOMAIN f = 1 .. Len(f) /\ Len(f) \in Nat
  BY SequenceDomain
<1> HIDE DEF S
<1>3. /\ g \in Seq(S \cup {e}) /\ Len(g) = Len(f) + 1
      /\ \A n \in 1 .. Len(f) : g[n] = f[n]
      /\ g[Len(f) + 1] = e
  BY <1>1, AppendFacts
<1> HIDE DEF g
<1>4. IsSequence(g)
  BY <1>3 DEF IsSequence
<1>5. DOMAIN g = 1 .. Len(f) + 1
  BY <1>3, <1>4, SequenceDomain
<1>6. ASSUME NEW n \in DOMAIN g PROVE g[n] \in {f[m] : m \in DOMAIN f} \cup {e}
  <2>1. n \in 1 .. Len(f) \/ n = Len(f) + 1
    BY <1>2, <1>5
  <2> QED BY <1>2, <1>3, <2>1
<1>7. ASSUME NEW n \in DOMAIN f PROVE n \in DOMAIN g /\ f[n] = g[n]
  BY <1>2, <1>3, <1>5, <1>7
<1>8. Len(f) + 1 \in DOMAIN g /\ g[Len(f) + 1] = e
  BY <1>2, <1>3, <1>5
<1>9. Elements(g) = Elements(f) \cup {e}
  BY <1>6, <1>7, <1>8 DEF Elements
<1> QED BY <1>4, <1>9 DEF g

LEMMA TakenOut ==
  ASSUME NEW f, IsSequence(f), NEW n \in DOMAIN f
  PROVE  /\ IsSequence(Without(f, n))
         /\ Elements(Without(f, n)) \subseteq Elements(f)
<1> DEFINE S == {f[m] : m \in 1 .. Len(f)}
           g == Without(f, n)
<1>1. f \in Seq(S)
  BY SequenceRange
<1>2. DOMAIN f = 1 .. Len(f) /\ Len(f) \in Nat /\ n \in 1 .. Len(f)
  BY SequenceDomain
<1> HIDE DEF S
<1>3. SubSeq(f, 1, n - 1) \in Seq(S) /\ SubSeq(f, n + 1, Len(f)) \in Seq(S)
  <2>1. \A m \in 1 .. n - 1 : m \in 1 .. Len(f)
    BY <1>2
  <2>2. \A m \in n + 1 .. Len(f) : m \in 1 .. Len(f)
    BY <1>2
  <2> QED BY <1>1, <1>2, <2>1, <2>2
<1>4. g \in Seq(S)
  BY <1>3 DEF Without
<1> HIDE DEF g
<1>5. IsSequence(g) /\ \A m \in 1 .. Len(g) : g[m] \in S
  BY <1>4 DEF IsSequence
<1>6. DOMAIN g = 1 .. Len(g)
  BY <1>5, SequenceDomain
<1>7. S = {f[m] : m \in DOMAIN f}
  BY <1>2 DEF S
<1>8. Elements(g) \subseteq Elements(f)
  BY <1>5, <1>6, <1>7 DEF Elements
<1> QED BY <1>5, <1>8 DEF g

\* What a step does to the operations of the ranks.
LEMMA EntriesWhenActs ==
  ASSUME WellFormed(benchmark), Placed, NEW r \in Ranks, Acts(r),
         \A q \in Ranks : IsSequence(pending[q])
  PROVE  /\ \A q \in Ranks : IsSequence(pending'[q])
         /\ \A q \in Ranks \ {r} : Entries(q)' = Entries(q) /\ pending'[q] = pending[q]
         /\ Op(r).op = "access" => Entries(r)' = Entries(r) \cup {Issued(r)}
         /\ Op(r).op # "access" => Entries(r)' = Entries(r) /\ pending'[r] = pending[r]
<1>1. CASE Op(r).op = "access"
  <2>1. pending' = [pending EXCEPT ![r] = Append(pending[r], Issued(r))]
    BY <1>1 DEF Acts, Effects
  <2>2. pending'[r] = Append(pending[r], Issued(r)) /\ \A q \in Ranks \ {r} : pending'[q] = pending[q]
    BY <2>1 DEF Placed
  <2>3. /\ IsSequence(Append(pending[r], Issued(r)))
        /\ Elements(Append(pending[r], Issued(r))) = Elements(pending[r]) \cup {Issued(r)}
    BY Appended
  <2>4. IsSequence(pending'[r])
    BY <2>2, <2>3
  <2>5. Entries(r)' = Entries(r) \cup {Issued(r)}
    BY <2>2, <2>3 DEF Entries
  <2>6. \A q \in Ranks \ {r} : Entries(q)' = Entries(q) /\ IsSequence(pending'[q])
    BY <2>2 DEF Entries
  <2> QED BY <1>1, <2>2, <2>4, <2>5, <2>6
<1>2. CASE Op(r).op # "access"
  <2>1. pending' = pending
    BY <1>2 DEF Acts, Effects
  <2> QED BY <1>2, <2>1 DEF Entries
<1> QED BY <1>1, <1>2

LEMMA EntriesWhenLapses ==
  ASSUME WellFormed(benchmark), Placed, NEW r \in Ranks, NEW n, Lapses(r, n),
         \A q \in Ranks : IsSequence(pending[q])
  PROVE  /\ \A q \in Ranks : IsSequence(pending'[q])
         /\ \A q \in Ranks : Entries(q)' \subseteq Entries(q)
<1>1. pending' = [pending EXCEPT ![r] = Without(pending[r], n)] /\ n \in DOMAIN pending[r]
  BY DEF Lapses
<1>2. pending'[r] = Without(pending[r], n) /\ \A q \in Ranks \ {r} : pending'[q] = pending[q]
  BY <1>1 DEF Placed
<1>3. /\ IsSequence(Without(pending[r], n))
      /\ Elements(Without(pending[r], n)) \subseteq Elements(pending[r])
  BY <1>1, TakenOut
<1>4. Entries(r)' \subseteq Entries(r) /\ IsSequence(pending'[r])
  BY <1>2, <1>3 DEF Entries
<1>5. \A q \in Ranks \ {r} : Entries(q)' = Entries(q) /\ IsSequence(pending'[q])
  BY <1>2 DEF Entries
<1> QED BY <1>4, <1>5

\* The steps, with what is known wherever a rank is.
Standing == WellFormed(benchmark) /\ Placed /\ (\A r \in Ranks : Admitted(at[r]))
            /\ \A r \in Ranks : IsSequence(pending[r])

LEMMA StandingStep ==
  ASSUME PlaceInv, QueueInv, [WinNext]_<<vars, windows>>, WellFormed(benchmark)'
  PROVE  /\ Standing /\ launch' = launch
         /\ \/ \E r \in Ranks : Acts(r)
            \/ \E r \in Ranks : \E n : Lapses(r, n)
            \/ Rests
<1>1. launch' = launch
  BY LaunchStays
<1>2. Standing
  BY <1>1, SameLaunch DEF PlaceInv, QueueInv, Standing
<1> QED BY <1>1, <1>2, StepIs DEF Standing

LEMMA QueueInvariance == WinSpec => []QueueInv
<1>1. WinInit => QueueInv
  <2> SUFFICES ASSUME WinInit, NEW r \in Ranks PROVE IsSequence(pending[r])
    BY DEF QueueInv
  <2>1. pending[r] = <<>>
    BY DEF WinInit
  <2> QED BY <2>1 DEF IsSequence
<1>2. PlaceInv /\ QueueInv /\ [WinNext]_<<vars, windows>> => QueueInv'
  <2> SUFFICES ASSUME PlaceInv, QueueInv, [WinNext]_<<vars, windows>>, WellFormed(benchmark)'
               PROVE  \A r \in Ranks' : IsSequence(pending'[r])
    BY DEF QueueInv
  <2>1. Standing /\ Ranks' = Ranks
    BY StandingStep, SameLaunch
  <2>2. CASE \E r \in Ranks : Acts(r)
    BY <2>1, <2>2, EntriesWhenActs DEF Standing
  <2>3. CASE \E r \in Ranks : \E n : Lapses(r, n)
    BY <2>1, <2>3, EntriesWhenLapses DEF Standing
  <2>4. CASE Rests
    BY <2>1, <2>4 DEF Standing, Rests, windows
  <2> QED BY <2>2, <2>3, <2>4, StandingStep
<1> QED BY <1>1, <1>2, PlaceInvariance, PTL DEF WinSpec

-----------------------------------------------------------------------------
\* A statement that is not guarded by if (i == options.skip) is not passed by.
LEMMA Unpassed ==
  ASSUME NEW b, NEW r, NEW a, NEW c, NEW o, Goes(b, r, a, c, o), a.pos \in Nat,
         NEW w, w \in a.pos + 1 .. Len(OpsIn(b, r, a)), ~OpsIn(b, r, a)[w].at_skip
  PROVE  /\ Within(b, r, a, c) /\ OpsIn(b, r, c) = OpsIn(b, r, a)
         /\ c.pos \in a.pos + 1 .. w
<1> DEFINE ops == OpsIn(b, r, a)
<1>1. ~Ends(ops, a.pos)
  BY DEF Ends
<1>2. Arrives(b, r, c, o) /\ Within(b, r, a, c)
  BY <1>1 DEF Goes, Crosses, Finishes
<1>3. OpsIn(b, r, c) = ops
  BY <1>2 DEF Within, OpsIn, SectionIn
<1>4. a.pos < c.pos /\ c.pos \in 1 .. Len(ops) /\ \A n \in a.pos + 1 .. c.pos - 1 : ops[n].at_skip
  BY <1>2, <1>3 DEF Within, Skips, Arrives, IsSpot
<1> HIDE DEF ops
<1>5. ~(w \in a.pos + 1 .. c.pos - 1)
  BY <1>4 DEF ops
<1>6. c.pos <= w
  BY <1>4, <1>5
<1>7. c.pos \in a.pos + 1 .. w
  BY <1>4, <1>6
<1> QED BY <1>2, <1>3, <1>7 DEF ops

\* What lies before the place where a rank goes, unguarded, it has executed
\* in this section.
LEMMA PassedBefore ==
  ASSUME NEW b, NEW r, NEW a, NEW c, NEW o, Arrives(b, r, c, o), a.pos \in Nat,
         Within(b, r, a, c) \/ Crosses(b, r, a, c),
         NEW m, m \in 1 .. c.pos - 1, ~OpsIn(b, r, c)[m].at_skip
  PROVE  Within(b, r, a, c) /\ OpsIn(b, r, c) = OpsIn(b, r, a) /\ m <= a.pos
<1>1. ~Begins(OpsIn(b, r, c), c.pos)
  BY DEF Begins
<1>2. Within(b, r, a, c)
  BY <1>1 DEF Crosses
<1>3. OpsIn(b, r, c) = OpsIn(b, r, a)
  BY <1>2 DEF Within, OpsIn, SectionIn
<1>4. ~(m \in a.pos + 1 .. c.pos - 1)
  BY <1>2, <1>3 DEF Within, Skips
<1>5. m <= a.pos
  BY <1>4
<1> QED BY <1>2, <1>3, <1>5

\* Where a rank is, there is a statement.
LEMMA SpotHasOp ==
  ASSUME WellFormed(benchmark), NEW r \in Ranks, NEW a, IsSpot(benchmark, r, a)
  PROVE  /\ a.size \in 0 .. benchmark.sizes + 1 /\ benchmark.sizes \in Nat
         /\ a.seg \in 1 .. Len(Sections(benchmark, r, a.size))
         /\ Len(Sections(benchmark, r, a.size)) \in Nat
         /\ a.pos \in 1 .. Len(OpsIn(benchmark, r, a)) /\ a.pos \in Nat
         /\ IsStraight(OpsIn(benchmark, r, a)) /\ Len(OpsIn(benchmark, r, a)) \in Nat
<1>1. a.size \in 0 .. benchmark.sizes + 1 /\ a.seg \in 1 .. Len(Sections(benchmark, r, a.size))
      /\ a.pos \in 1 .. Len(OpsIn(benchmark, r, a))
  BY DEF IsSpot
<1>2. benchmark.sizes \in Nat
  BY DEF WellFormed
<1>3. IsStraight(OpsIn(benchmark, r, a)) /\ Len(Sections(benchmark, r, a.size)) \in Nat
  BY <1>1, SectionsAreStraight DEF SectionIn, OpsIn
<1>4. Len(OpsIn(benchmark, r, a)) \in Nat
  BY <1>3 DEF IsStraight, IsSequence
<1> QED BY <1>1, <1>2, <1>3, <1>4

-----------------------------------------------------------------------------
(***************************************************************************)
(* The displacements.  Program b points disp_remote of rank r at v at the  *)
(* begin of every size, and never at anything else.                        *)
(***************************************************************************)
IsSetter(o) == o.op \in {"table", "address"}

Points(r, o, v) == (o.op = "table" => v = TableOf(r)) /\ (o.op = "address" => v = Base(o.peer))

PointsAt(b, r, v) ==
  /\ \A k \in 0 .. b.sizes + 1 : \A s \in 1 .. Len(Sections(b, r, k)) :
       \A n \in 1 .. Len(Sections(b, r, k)[s].ops) : Points(r, Sections(b, r, k)[s].ops[n], v)
  /\ \A k \in 1 .. b.sizes :
       LET first == Sections(b, r, k)[1]
       IN  /\ ~first.loop
           /\ \E n \in 1 .. Len(first.ops) : IsSetter(first.ops[n]) /\ ~first.ops[n].at_skip

\* The operation hits the window if disp_remote points at v.
Hits(r, o, v) == \/ o.disp = "pointer" /\ v = Base(o.peer)
                 \/ o.disp = "entry" /\ v = TableOf(r)

\* Every operation of program b has a displacement of its own or one that
\* was set up at the begin of the size.
Aimed(b) ==
  \A r \in 0 .. b.np - 1 : \A k \in 0 .. b.sizes + 1 : \A s \in 1 .. Len(Sections(b, r, k)) :
    \A n \in 1 .. Len(Sections(b, r, k)[s].ops) :
      LET o == Sections(b, r, k)[s].ops[n]
      IN  o.op = "access" =>
            /\ k \in 1 .. b.sizes
            /\ b.fits => \/ o.disp = "offset"
                         \/ s # 1 /\ \E v : PointsAt(b, r, v) /\ Hits(r, o, v)

\* Rank r is in a size and has passed the statement that sets disp_remote.
IsSet(b, r, a) ==
  /\ a.size \in 1 .. b.sizes
  /\ \/ a.seg # 1
     \/ \E n \in 1 .. a.pos - 1 : IsSetter(OpsIn(b, r, a)[n]) /\ ~OpsIn(b, r, a)[n].at_skip

PointerInv ==
  WellFormed(benchmark) => \A r \in Ranks : \A v :
    PointsAt(benchmark, r, v) /\ at[r] # Over /\ IsSet(benchmark, r, at[r]) => disp_remote[r] = v

\* A rank that gets past the statement was at it or past it before.
LEMMA SetBefore ==
  ASSUME WellFormed(benchmark), NEW r \in Ranks, NEW a, IsSpot(benchmark, r, a), NEW c, NEW o,
         NEW v, PointsAt(benchmark, r, v), Goes(benchmark, r, a, c, o), c # Over,
         IsSet(benchmark, r, c)
  PROVE  IsSet(benchmark, r, a) \/ IsSetter(OpsIn(benchmark, r, a)[a.pos])
<1> DEFINE b == benchmark
<1>1. a.pos \in Nat /\ a.seg \in Nat /\ a.size \in Nat /\ b.sizes \in Nat
  BY SpotHasOp
<1>2. Arrives(b, r, c, o) /\ (Within(b, r, a, c) \/ Crosses(b, r, a, c))
  BY DEF Goes, Finishes
<1>3. CASE \E n \in 1 .. c.pos - 1 : IsSetter(OpsIn(b, r, c)[n]) /\ ~OpsIn(b, r, c)[n].at_skip
  <2>1. PICK n \in 1 .. c.pos - 1 : IsSetter(OpsIn(b, r, c)[n]) /\ ~OpsIn(b, r, c)[n].at_skip
    BY <1>3
  <2>2. Within(b, r, a, c) /\ OpsIn(b, r, c) = OpsIn(b, r, a) /\ n <= a.pos
    BY <1>1, <1>2, <2>1, PassedBefore
  <2>3. c.size = a.size /\ a.size \in 1 .. b.sizes
    BY <2>2 DEF Within, IsSet
  <2>4. CASE n = a.pos
    BY <2>1, <2>2, <2>4
  <2>5. CASE n # a.pos
    <3>1. n \in 1 .. a.pos - 1
      BY <1>1, <2>2, <2>5
    <3> QED BY <2>1, <2>2, <2>3, <3>1 DEF IsSet
  <2> QED BY <2>4, <2>5
<1>4. CASE c.seg # 1 /\ a.seg # 1
  <2>1. c.size = a.size
    BY <1>2, <1>4 DEF Within, Crosses
  <2> QED BY <1>4, <2>1 DEF IsSet
<1>5. CASE c.seg # 1 /\ a.seg = 1
  <2>1. Crosses(b, r, a, c) /\ c.size = a.size
    BY <1>2, <1>5 DEF Within, Crosses
  <2>2. a.size \in 1 .. b.sizes
    BY <2>1 DEF IsSet
  <2>3. OpsIn(b, r, a) = Sections(b, r, a.size)[1].ops
    BY <1>5 DEF OpsIn, SectionIn
  <2>4. PICK n \in 1 .. Len(OpsIn(b, r, a)) :
          IsSetter(OpsIn(b, r, a)[n]) /\ ~OpsIn(b, r, a)[n].at_skip
    BY <2>2, <2>3 DEF PointsAt
  <2>5. ~(n \in a.pos + 1 .. Len(OpsIn(b, r, a)))
    BY <2>1, <2>4 DEF Crosses, Ends
  <2>6. n \in 1 .. a.pos - 1 \/ n = a.pos
    <3>1. Len(OpsIn(b, r, a)) \in Nat
      BY SpotHasOp
    <3> QED BY <1>1, <2>5, <3>1
  <2> QED BY <2>2, <2>4, <2>6 DEF IsSet
<1> QED BY <1>3, <1>4, <1>5 DEF IsSet

\* The statement of rank r, and its step, in the words of its program.
LEMMA ActsAt ==
  ASSUME WellFormed(benchmark), Placed, NEW r \in Ranks, Acts(r)
  PROVE  /\ at[r] # Over /\ IsSpot(benchmark, r, at[r])
         /\ Op(r) = OpsIn(benchmark, r, at[r])[at[r].pos]
         /\ \/ at'[r] = Usage /\ Op(r).op = "check" /\ ~Usable
            \/ at'[r] = at[r] /\ Op(r).op = "call"
            \/ Goes(benchmark, r, at[r], at'[r], options'[r])
         /\ \A q \in Ranks \ {r} : at'[q] = at[q]
<1>1. at[r] # Over
  BY DEF Acts, Proceeds
<1>2. IsSpot(benchmark, r, at[r])
  BY <1>1 DEF Placed, Somewhere
<1>3. Op(r) = OpsIn(benchmark, r, at[r])[at[r].pos]
  BY <1>1, OpIsAt
<1>4. /\ \/ at'[r] = Usage /\ Op(r).op = "check" /\ ~Usable
         \/ at'[r] = at[r] /\ Op(r).op = "call"
         \/ Goes(benchmark, r, at[r], at'[r], options'[r])
      /\ \A q \in Ranks \ {r} : at'[q] = at[q]
  BY DEF Acts, Proceeds
<1> QED BY <1>1, <1>2, <1>3, <1>4

LEMMA PointsAtOp ==
  ASSUME WellFormed(benchmark), NEW r \in Ranks, NEW a, IsSpot(benchmark, r, a),
         NEW v, PointsAt(benchmark, r, v)
  PROVE  Points(r, OpsIn(benchmark, r, a)[a.pos], v)
<1>1. /\ a.size \in 0 .. benchmark.sizes + 1
      /\ a.seg \in 1 .. Len(Sections(benchmark, r, a.size))
      /\ a.pos \in 1 .. Len(Sections(benchmark, r, a.size)[a.seg].ops)
  BY DEF IsSpot, OpsIn, SectionIn
<1>2. Points(r, Sections(benchmark, r, a.size)[a.seg].ops[a.pos], v)
  BY <1>1 DEF PointsAt
<1> QED BY <1>2 DEF OpsIn, SectionIn

LEMMA PointerStep ==
  ASSUME PlaceInv, QueueInv, PointerInv, [WinNext]_<<vars, windows>>
  PROVE  PointerInv'
<1> SUFFICES ASSUME WellFormed(benchmark)', NEW q \in Ranks', NEW v, PointsAt(benchmark', q, v),
                    at'[q] # Over', IsSet(benchmark', q, at'[q])
             PROVE  disp_remote'[q] = v
  BY DEF PointerInv
<1>1. /\ Standing /\ benchmark' = benchmark /\ Ranks' = Ranks /\ Over' = Over /\ Usage' = Usage
      /\ \/ \E r \in Ranks : Acts(r)
         \/ \E r \in Ranks : \E n : Lapses(r, n)
         \/ Rests
  BY StandingStep, SameLaunch
<1>2. /\ q \in Ranks /\ PointsAt(benchmark, q, v) /\ at'[q] # Over /\ IsSet(benchmark, q, at'[q])
      /\ WellFormed(benchmark) /\ Placed
  BY <1>1 DEF Standing
<1>3. at[q] # Over /\ IsSet(benchmark, q, at[q]) => disp_remote[q] = v
  BY <1>2 DEF PointerInv
<1>4. CASE \E r \in Ranks : Acts(r)
  <2>1. PICK r \in Ranks : Acts(r)
    BY <1>4
  <2>2. CASE q # r
    <3>1. at'[q] = at[q]
      BY <1>2, <2>1, <2>2, ActsAt
    <3>2. disp_remote'[q] = disp_remote[q]
      BY <1>2, <2>1, <2>2 DEF Acts, Effects, Placed
    <3> QED BY <1>2, <1>3, <3>1, <3>2
  <2>3. CASE q = r
    <3>1. /\ at[q] # Over /\ IsSpot(benchmark, q, at[q])
          /\ Op(q) = OpsIn(benchmark, q, at[q])[at[q].pos]
          /\ \/ at'[q] = Usage /\ Op(q).op = "check" /\ ~Usable
             \/ at'[q] = at[q] /\ Op(q).op = "call"
             \/ Goes(benchmark, q, at[q], at'[q], options'[q])
      BY <1>2, <2>1, <2>3, ActsAt
    <3>2. Points(q, Op(q), v)
      BY <1>2, <3>1, PointsAtOp
    <3>3. CASE IsSetter(Op(q))
      <4>1. disp_remote'[q] = IF Op(q).op = "table" THEN TableOf(q) ELSE Base(Op(q).peer)
        BY <1>2, <2>1, <2>3, <3>3 DEF Acts, Effects, Placed, IsSetter
      <4> QED BY <3>2, <3>3, <4>1 DEF Points, IsSetter
    <3>4. CASE ~IsSetter(Op(q))
      <4>1. disp_remote' = disp_remote
        BY <2>1, <2>3, <3>4 DEF Acts, Effects, IsSetter
      <4>2. at'[q] # Usage
        <5>1. benchmark.sizes \in Nat
          BY <1>2 DEF WellFormed
        <5> QED BY <1>2, <5>1, UsageIsSpot DEF IsSet
      <4>3. IsSet(benchmark, q, at[q])
        BY <1>2, <3>1, <3>4, <4>2, SetBefore
      <4> QED BY <1>3, <3>1, <4>1, <4>3
    <3> QED BY <3>3, <3>4
  <2> QED BY <2>2, <2>3
<1>5. CASE \E r \in Ranks : \E n : Lapses(r, n)
  BY <1>2, <1>3, <1>5 DEF Lapses
<1>6. CASE Rests
  BY <1>2, <1>3, <1>6 DEF Rests, windows
<1> QED BY <1>1, <1>4, <1>5, <1>6

LEMMA PointerInvariance == WinSpec => []PointerInv
<1>1. WinInit => PointerInv
  <2> SUFFICES ASSUME WinInit, NEW r \in Ranks, IsSet(benchmark, r, at[r])
               PROVE  FALSE
    BY DEF PointerInv
  <2>1. at[r].size = 0
    BY DEF WinInit, Init
  <2> QED BY <2>1 DEF IsSet
<1>2. PlaceInv /\ QueueInv /\ PointerInv /\ [WinNext]_<<vars, windows>> => PointerInv'
  BY PointerStep
<1> QED BY <1>1, <1>2, PlaceInvariance, QueueInvariance, PTL DEF WinSpec

\* What hits the window when it is issued, hits it.
HitInv == WellFormed(benchmark) /\ Aimed(benchmark) =>
            \A r \in Ranks : \A e \in Entries(r) : e.lands = Base(e.target)

LEMMA IssuedHits ==
  ASSUME Standing, PointerInv, Aimed(benchmark), NEW r \in Ranks, Acts(r), Op(r).op = "access"
  PROVE  Issued(r).lands = Base(Issued(r).target)
<1> DEFINE o == Op(r)
<1>1. Issued(r).lands = Lands(r) /\ Issued(r).target = o.peer
  BY DEF Issued
<1>2. /\ at[r] # Over /\ IsSpot(benchmark, r, at[r])
      /\ Op(r) = OpsIn(benchmark, r, at[r])[at[r].pos]
  BY ActsAt DEF Standing
<1>3. /\ at[r].size \in 0 .. benchmark.sizes + 1
      /\ at[r].seg \in 1 .. Len(Sections(benchmark, r, at[r].size))
      /\ at[r].pos \in 1 .. Len(Sections(benchmark, r, at[r].size)[at[r].seg].ops)
      /\ o = Sections(benchmark, r, at[r].size)[at[r].seg].ops[at[r].pos]
  BY <1>2 DEF IsSpot, OpsIn, SectionIn
<1>4. /\ at[r].size \in 1 .. benchmark.sizes
      /\ benchmark.fits => \/ o.disp = "offset"
                           \/ at[r].seg # 1 /\ \E v : PointsAt(benchmark, r, v) /\ Hits(r, o, v)
  <2>1. PICK k \in 0 .. benchmark.sizes + 1 : k = at[r].size
    BY <1>3
  <2>2. PICK s \in 1 .. Len(Sections(benchmark, r, k)) : s = at[r].seg
    BY <1>3, <2>1
  <2>3. PICK n \in 1 .. Len(Sections(benchmark, r, k)[s].ops) : n = at[r].pos
    BY <1>3, <2>1, <2>2
  <2>4. o = Sections(benchmark, r, k)[s].ops[n] /\ r \in 0 .. benchmark.np - 1
    BY <1>3, <2>1, <2>2, <2>3 DEF Ranks
  <2>5. o.op = "access" =>
          /\ k \in 1 .. benchmark.sizes
          /\ benchmark.fits => \/ o.disp = "offset"
                               \/ s # 1 /\ \E v : PointsAt(benchmark, r, v) /\ Hits(r, o, v)
    <3> HIDE DEF o
    <3> QED BY <2>4, Zenon DEF Aimed
  <2> HIDE DEF o
  <2> QED BY <2>1, <2>2, <2>5 DEF o
<1>5. benchmark.fits
  <2>1. Admitted(at[r]) /\ benchmark.sizes \in Nat
    BY DEF Standing, WellFormed
  <2>2. at[r] # Place(0, 1, 0, 1) /\ at[r].size # benchmark.sizes + 1
    BY <1>4, <2>1 DEF Place
  <2> QED BY <1>2, <2>1, <2>2 DEF Admitted, Usable
<1>6. CASE o.disp = "offset"
  BY <1>1, <1>6 DEF Lands
<1>7. CASE at[r].seg # 1 /\ \E v : PointsAt(benchmark, r, v) /\ Hits(r, o, v)
  <2>1. PICK v : PointsAt(benchmark, r, v) /\ Hits(r, o, v)
    BY <1>7
  <2>2. disp_remote[r] = v
    BY <1>2, <1>4, <1>7, <2>1 DEF PointerInv, IsSet, Standing
  <2>3. Lands(r) = Base(o.peer)
    BY <2>1, <2>2 DEF Hits, Lands
  <2> QED BY <1>1, <2>3
<1> QED BY <1>4, <1>5, <1>6, <1>7

LEMMA HitStep ==
  ASSUME PlaceInv, QueueInv, PointerInv, HitInv, [WinNext]_<<vars, windows>>
  PROVE  HitInv'
<1> SUFFICES ASSUME WellFormed(benchmark)', Aimed(benchmark)', NEW q \in Ranks',
                    NEW e \in Entries(q)'
             PROVE  e.lands = Base(e.target)
  BY DEF HitInv
<1>1. /\ Standing /\ benchmark' = benchmark /\ Ranks' = Ranks
      /\ \/ \E r \in Ranks : Acts(r)
         \/ \E r \in Ranks : \E n : Lapses(r, n)
         \/ Rests
  BY StandingStep, SameLaunch
<1>2. q \in Ranks /\ Aimed(benchmark) /\ WellFormed(benchmark)
  BY <1>1 DEF Standing
<1>3. \A d \in Entries(q) : d.lands = Base(d.target)
  BY <1>2 DEF HitInv
<1>4. CASE \E r \in Ranks : Acts(r)
  <2>1. PICK r \in Ranks : Acts(r)
    BY <1>4
  <2>2. e \in Entries(q) \/ (q = r /\ Op(r).op = "access" /\ e = Issued(r))
    BY <1>1, <1>2, <2>1, EntriesWhenActs DEF Standing
  <2> QED BY <1>1, <1>2, <1>3, <2>1, <2>2, IssuedHits
<1>5. CASE \E r \in Ranks : \E n : Lapses(r, n)
  <2>1. Entries(q)' \subseteq Entries(q)
    BY <1>1, <1>2, <1>5, EntriesWhenLapses DEF Standing
  <2> QED BY <1>3, <2>1
<1>6. CASE Rests
  BY <1>3, <1>6 DEF Rests, windows, Entries
<1> QED BY <1>1, <1>4, <1>5, <1>6

LEMMA NoEntriesInit ==
  ASSUME WinInit, NEW r \in Ranks
  PROVE  Entries(r) = {}
<1>1. pending[r] = <<>>
  BY DEF WinInit
<1> QED BY <1>1 DEF Entries, Elements

LEMMA HitInvariance == WinSpec => []HitInv
<1>1. WinInit => HitInv
  BY NoEntriesInit DEF HitInv
<1>2. PlaceInv /\ QueueInv /\ PointerInv /\ HitInv /\ [WinNext]_<<vars, windows>> => HitInv'
  BY HitStep
<1> QED BY <1>1, <1>2, PlaceInvariance, QueueInvariance, PointerInvariance, PTL DEF WinSpec

(***************************************************************************)
(* In every run of a program of which Aimed says how it gets at its        *)
(* displacements, on any number of ranks, each operation touches the       *)
(* memory of its target rank in the window.                                *)
(***************************************************************************)
THEOREM HitTheorem ==
  WinSpec => [](WellFormed(benchmark) /\ Aimed(benchmark) => AccessesHitTheWindow)
<1>1. HitInv => (WellFormed(benchmark) /\ Aimed(benchmark) => AccessesHitTheWindow)
  BY DEF HitInv, AccessesHitTheWindow, Entries, Elements
<1> QED BY <1>1, HitInvariance, PTL

-----------------------------------------------------------------------------
(***************************************************************************)
(* Completion.  In most programs an iteration, or the section in which an  *)
(* operation is issued, also has the call that completes it: at the target *)
(* or, where the program promises no more, at its origin.                  *)
(***************************************************************************)
\* All operations of program b bring something back, or none does.
EveryAccess(b, kinds) ==
  \A r \in 0 .. b.np - 1 : \A k \in 0 .. b.sizes + 1 : \A s \in 1 .. Len(Sections(b, r, k)) :
    \A n \in 1 .. Len(Sections(b, r, k)[s].ops) :
      LET o == Sections(b, r, k)[s].ops[n]
      IN  o.op = "access" => k \in 1 .. b.sizes /\ (o.kind \in Fetching <=> kinds)

Fetches(b)  == EveryAccess(b, TRUE)
Delivers(b) == EveryAccess(b, FALSE)

\* The statement completes the operations of program b, as far as it promises.
Completing(b, o) ==
  /\ ~o.at_skip
  /\ \/ o.op \in {"unlock", "flush"}
     \/ o.op \in {"flush_local", "complete"} /\ (CompletesLocally(b) \/ Fetches(b))

Settles(b, ops) ==
  \A n \in 1 .. Len(ops) : ops[n].op = "access" =>
    \E m \in n + 1 .. Len(ops) : Completing(b, ops[m])

Settling(b) ==
  /\ Fetches(b) \/ Delivers(b)
  /\ \A r \in 0 .. b.np - 1 : \A k \in 0 .. b.sizes + 1 : \A s \in 1 .. Len(Sections(b, r, k)) :
       Settles(b, Sections(b, r, k)[s].ops)

\* An operation was issued in this section and not completed yet.
IsOpen(b, r, a) ==
  /\ a # Over /\ a.size \in 1 .. b.sizes
  /\ \E n \in 1 .. a.pos - 1 :
       /\ OpsIn(b, r, a)[n].op = "access"
       /\ \A m \in n + 1 .. a.pos - 1 : ~Completing(b, OpsIn(b, r, a)[m])

\* The operations of rank r that it has to wait for.
Owed(e)  == ~CompletesLocally(benchmark) \/ ~eager \/ e.kind \in Fetching
Owing(r) == {e \in Entries(r) : Owed(e)}

SettledOn(r) ==
  /\ Fetches(benchmark) => \A e \in Entries(r) : e.kind \in Fetching
  /\ Delivers(benchmark) => \A e \in Entries(r) : e.kind \notin Fetching
  /\ Owing(r) # {} => IsOpen(benchmark, r, at[r])
  /\ \A e \in Owing(r) : e.size = at[r].size /\ e.iter = at[r].iter

SettledInv == WellFormed(benchmark) /\ Settling(benchmark) => \A r \in Ranks : SettledOn(r)

\* An operation stays in its section until it is completed.
LEMMA StaysOpen ==
  ASSUME NEW b, NEW r, NEW a, NEW c, NEW o, Goes(b, r, a, c, o),
         a.pos \in 1 .. Len(OpsIn(b, r, a)), Len(OpsIn(b, r, a)) \in Nat,
         Settles(b, OpsIn(b, r, a)), a.size \in 1 .. b.sizes, ~Completing(b, OpsIn(b, r, a)[a.pos]),
         IsOpen(b, r, a) \/ OpsIn(b, r, a)[a.pos].op = "access"
  PROVE  /\ c # Over => IsOpen(b, r, c)
         /\ Within(b, r, a, c)
<1> DEFINE ops == OpsIn(b, r, a)
<1>1. PICK n \in 1 .. a.pos : /\ ops[n].op = "access"
                              /\ \A m \in n + 1 .. a.pos : ~Completing(b, ops[m])
  <2>1. CASE ops[a.pos].op = "access"
    <3>1. a.pos \in 1 .. a.pos /\ \A m \in a.pos + 1 .. a.pos : FALSE
      OBVIOUS
    <3> QED BY <2>1, <3>1
  <2>2. CASE IsOpen(b, r, a)
    <3>1. PICK n \in 1 .. a.pos - 1 : /\ ops[n].op = "access"
                                      /\ \A m \in n + 1 .. a.pos - 1 : ~Completing(b, ops[m])
      BY <2>2 DEF IsOpen
    <3>2. ASSUME NEW m \in n + 1 .. a.pos PROVE ~Completing(b, ops[m])
      <4>1. m \in n + 1 .. a.pos - 1 \/ m = a.pos
        OBVIOUS
      <4> QED BY <3>1, <4>1
    <3>3. n \in 1 .. a.pos
      OBVIOUS
    <3> QED BY <3>1, <3>2, <3>3
  <2> QED BY <2>1, <2>2
<1>2. n \in 1 .. Len(ops) /\ a.pos \in Nat
  OBVIOUS
<1>3. PICK w \in n + 1 .. Len(ops) : Completing(b, ops[w])
  BY <1>1, <1>2 DEF Settles
<1> HIDE DEF ops
<1>4. w \in a.pos + 1 .. Len(ops)
  <2>1. ~(w \in n + 1 .. a.pos)
    BY <1>1, <1>3
  <2> QED BY <1>2, <1>3, <2>1
<1>5. ~ops[w].at_skip
  BY <1>3 DEF Completing
<1>6. Within(b, r, a, c) /\ OpsIn(b, r, c) = ops /\ c.pos \in a.pos + 1 .. w
  BY <1>2, <1>4, <1>5, Unpassed DEF ops
<1>7. ASSUME NEW m \in n + 1 .. c.pos - 1 PROVE ~Completing(b, ops[m])
  <2>1. m \in n + 1 .. a.pos \/ m \in a.pos + 1 .. c.pos - 1
    BY <1>2, <1>6
  <2>2. m \in a.pos + 1 .. c.pos - 1 => ops[m].at_skip
    BY <1>6 DEF Within, Skips, ops
  <2> QED BY <1>1, <2>1, <2>2 DEF Completing
<1>8. n \in 1 .. c.pos - 1 /\ c.size = a.size
  BY <1>2, <1>6 DEF Within
<1>9. c # Over => IsOpen(b, r, c)
  BY <1>1, <1>6, <1>7, <1>8 DEF IsOpen
<1> QED BY <1>6, <1>9

LEMMA AccessAt ==
  ASSUME WellFormed(benchmark), NEW r \in Ranks, NEW a, IsSpot(benchmark, r, a), NEW kinds,
         EveryAccess(benchmark, kinds), OpsIn(benchmark, r, a)[a.pos].op = "access"
  PROVE  /\ a.size \in 1 .. benchmark.sizes
         /\ OpsIn(benchmark, r, a)[a.pos].kind \in Fetching <=> kinds
<1>1. /\ a.size \in 0 .. benchmark.sizes + 1
      /\ a.seg \in 1 .. Len(Sections(benchmark, r, a.size))
      /\ a.pos \in 1 .. Len(Sections(benchmark, r, a.size)[a.seg].ops)
      /\ OpsIn(benchmark, r, a) = Sections(benchmark, r, a.size)[a.seg].ops
  BY DEF IsSpot, OpsIn, SectionIn
<1> QED BY <1>1 DEF EveryAccess, Ranks

\* Only a benchmark that was called rightly gets into a size.
LEMMA InSizeUsable ==
  ASSUME Standing, NEW r \in Ranks, at[r] # Over, at[r].size \in 1 .. benchmark.sizes
  PROVE  Usable
<1>1. Admitted(at[r]) /\ benchmark.sizes \in Nat
  BY DEF Standing, WellFormed
<1>2. at[r] # Place(0, 1, 0, 1) /\ at[r].size # benchmark.sizes + 1
  BY <1>1 DEF Place
<1> QED BY <1>1, <1>2 DEF Admitted

LEMMA PendingEntries ==
  ASSUME NEW r, IsSequence(pending[r])
  PROVE  /\ pending[r] = <<>> => Entries(r) = {}
         /\ Entries(r) = {} => pending[r] = <<>>
         /\ LocallyComplete(r) <=> \A e \in Entries(r) : eager /\ e.kind \notin Fetching
<1>1. DOMAIN pending[r] = 1 .. Len(pending[r]) /\ Len(pending[r]) \in Nat
  BY SequenceDomain
<1>2. pending[r] = <<>> => Entries(r) = {}
  BY DEF Entries, Elements
<1>3. Entries(r) = {} => pending[r] = <<>>
  <2> SUFFICES ASSUME Entries(r) = {} PROVE pending[r] = <<>>
    OBVIOUS
  <2>1. Len(pending[r]) = 0
    <3>1. 1 \notin DOMAIN pending[r]
      BY DEF Entries, Elements
    <3> QED BY <1>1, <3>1
  <2>2. pending[r] \in Seq({pending[r][n] : n \in 1 .. Len(pending[r])})
    BY SequenceRange
  <2> QED BY <2>1, <2>2
<1>4. LocallyComplete(r) <=> \A e \in Entries(r) : eager /\ e.kind \notin Fetching
  BY DEF LocallyComplete, Entries, Elements
<1> QED BY <1>2, <1>3, <1>4

\* A rank that has got past a call that completes operations has none left.
LEMMA NothingOwed ==
  ASSUME Standing, NEW r \in Ranks, SettledOn(r), Acts(r), Completing(benchmark, Op(r))
  PROVE  Owing(r) = {} /\ Op(r).op # "access"
<1>1. Waits(r) /\ IsSequence(pending[r])
  BY DEF Acts, Standing
<1>2. CASE Op(r).op \in {"unlock", "flush"}
  <2>1. pending[r] = <<>>
    BY <1>1, <1>2 DEF Waits
  <2> QED BY <1>1, <1>2, <2>1, PendingEntries DEF Owing
<1>3. CASE Op(r).op \in {"flush_local", "complete"} /\ (CompletesLocally(benchmark) \/ Fetches(benchmark))
  <2>1. LocallyComplete(r)
    BY <1>1, <1>3 DEF Waits
  <2>2. \A e \in Entries(r) : eager /\ e.kind \notin Fetching
    BY <1>1, <2>1, PendingEntries
  <2>3. CASE CompletesLocally(benchmark)
    BY <1>3, <2>2, <2>3 DEF Owing, Owed
  <2>4. CASE Fetches(benchmark)
    BY <1>3, <2>2, <2>4 DEF Owing, SettledOn
  <2> QED BY <1>3, <2>3, <2>4
<1> QED BY <1>2, <1>3 DEF Completing

LEMMA MoverSettles ==
  ASSUME Standing, Settling(benchmark), NEW r \in Ranks, SettledOn(r), Acts(r)
  PROVE  SettledOn(r)'
<1> DEFINE b == benchmark
           a == at[r]
<1>1. launch' = launch /\ b' = b /\ Over' = Over /\ eager' = eager /\ WellFormed(b) /\ Placed
  <2>1. launch' = launch
    BY DEF Acts
  <2> QED BY <2>1, SameLaunch DEF Standing
<1>2. /\ a # Over /\ IsSpot(b, r, a) /\ Op(r) = OpsIn(b, r, a)[a.pos]
      /\ \/ at'[r] = Usage /\ Op(r).op = "check" /\ ~Usable
         \/ at'[r] = a /\ Op(r).op = "call"
         \/ Goes(b, r, a, at'[r], options'[r])
  BY <1>1, ActsAt
<1>3. /\ Op(r).op = "access" => Entries(r)' = Entries(r) \cup {Issued(r)}
      /\ Op(r).op # "access" => Entries(r)' = Entries(r)
  BY <1>1, EntriesWhenActs DEF Standing
<1>4. /\ a.size \in 0 .. b.sizes + 1 /\ b.sizes \in Nat
      /\ a.seg \in 1 .. Len(Sections(b, r, a.size))
      /\ a.pos \in 1 .. Len(OpsIn(b, r, a)) /\ Len(OpsIn(b, r, a)) \in Nat
  BY <1>1, <1>2, SpotHasOp
<1>5. Settles(b, OpsIn(b, r, a))
  BY <1>4 DEF Settling, OpsIn, SectionIn, Ranks
<1>6. Issued(r).kind = Op(r).kind /\ Issued(r).size = a.size /\ Issued(r).iter = a.iter
  BY DEF Issued
<1>7. \A kinds : EveryAccess(b, kinds) /\ Op(r).op = "access" =>
        a.size \in 1 .. b.sizes /\ (Op(r).kind \in Fetching <=> kinds)
  BY <1>1, <1>2, AccessAt
<1>8. Fetches(b)' => \A e \in Entries(r)' : e.kind \in Fetching
  <2>1. Fetches(b)' => Fetches(b)
    BY <1>1
  <2> QED BY <1>3, <1>6, <1>7, <2>1 DEF SettledOn, Fetches
<1>9. Delivers(b)' => \A e \in Entries(r)' : e.kind \notin Fetching
  <2>1. Delivers(b)' => Delivers(b)
    BY <1>1
  <2> QED BY <1>3, <1>6, <1>7, <2>1 DEF SettledOn, Delivers
<1>10. Owing(r)' \subseteq Owing(r) \cup (IF Op(r).op = "access" THEN {Issued(r)} ELSE {})
  <2>1. \A e : Owed(e)' <=> Owed(e)
    BY <1>1 DEF Owed
  <2> QED BY <1>3, <2>1 DEF Owing
<1>11. CASE Completing(b, Op(r))
  <2>1. Owing(r)' = {}
    BY <1>10, <1>11, NothingOwed
  <2> QED BY <1>8, <1>9, <2>1 DEF SettledOn
<1>12. CASE ~Completing(b, Op(r)) /\ Owing(r)' = {}
  BY <1>8, <1>9, <1>12 DEF SettledOn
<1>13. CASE ~Completing(b, Op(r)) /\ Owing(r)' # {}
  <2>1. IsOpen(b, r, a) \/ Op(r).op = "access"
    BY <1>10, <1>13 DEF SettledOn
  <2>2. a.size \in 1 .. b.sizes
    BY <1>7, <2>1 DEF IsOpen, Settling, Fetches, Delivers
  <2>3. Usable
    BY <1>2, <2>2, InSizeUsable
  <2>4. \A e \in Owing(r)' : e.size = a.size /\ e.iter = a.iter
    BY <1>6, <1>10 DEF SettledOn
  <2>5. CASE at'[r] = a /\ Op(r).op = "call"
    <3>1. IsOpen(b, r, at'[r])
      BY <2>1, <2>5
    <3>2. IsOpen(b, r, at[r])'
      BY <1>1, <3>1 DEF IsOpen
    <3> QED BY <1>8, <1>9, <2>4, <2>5, <3>2 DEF SettledOn
  <2>6. CASE Goes(b, r, a, at'[r], options'[r])
    <3>1. /\ at'[r] # Over => IsOpen(b, r, at'[r])
          /\ Within(b, r, a, at'[r])
      BY <1>2, <1>4, <1>5, <1>13, <2>1, <2>2, <2>6, StaysOpen
    <3>2. at'[r].size = a.size /\ at'[r].iter = a.iter
      BY <3>1 DEF Within
    <3>3. at'[r] # Over
      <4>1. Over.size = b.sizes + 2
        BY <1>4 DEF Over, Closing
      <4> QED BY <1>4, <2>2, <3>2, <4>1
    <3>4. IsOpen(b, r, at[r])'
      BY <1>1, <3>1, <3>3 DEF IsOpen
    <3> QED BY <1>8, <1>9, <2>4, <3>2, <3>4 DEF SettledOn
  <2> QED BY <1>2, <2>3, <2>5, <2>6
<1> QED BY <1>11, <1>12, <1>13

LEMMA SettledStep ==
  ASSUME PlaceInv, QueueInv, SettledInv, [WinNext]_<<vars, windows>>
  PROVE  SettledInv'
<1> SUFFICES ASSUME WellFormed(benchmark)', Settling(benchmark)', NEW q \in Ranks'
             PROVE  SettledOn(q)'
  BY DEF SettledInv
<1>1. /\ Standing /\ launch' = launch /\ benchmark' = benchmark /\ Ranks' = Ranks /\ Over' = Over
      /\ eager' = eager
      /\ \/ \E r \in Ranks : Acts(r)
         \/ \E r \in Ranks : \E n : Lapses(r, n)
         \/ Rests
  BY StandingStep, SameLaunch
<1>2. q \in Ranks /\ Settling(benchmark) /\ WellFormed(benchmark) /\ Placed /\ SettledOn(q)
  BY <1>1 DEF Standing, SettledInv
<1>3. ASSUME Entries(q)' \subseteq Entries(q), at'[q] = at[q] PROVE SettledOn(q)'
  <2>1. /\ Fetches(benchmark)' => Fetches(benchmark)
        /\ Delivers(benchmark)' => Delivers(benchmark)
        /\ IsOpen(benchmark, q, at[q]) => IsOpen(benchmark, q, at[q])'
    BY <1>1, <1>3 DEF IsOpen
  <2>2. \A e : Owed(e)' <=> Owed(e)
    BY <1>1 DEF Owed
  <2>3. Owing(q)' \subseteq Owing(q)
    BY <1>3, <2>2 DEF Owing
  <2> QED BY <1>2, <1>3, <2>1, <2>3 DEF SettledOn
<1>4. CASE \E r \in Ranks : Acts(r)
  <2>1. PICK r \in Ranks : Acts(r)
    BY <1>4
  <2>2. CASE q = r
    BY <1>1, <1>2, <2>1, <2>2, MoverSettles
  <2>3. CASE q # r
    <3>1. Entries(q)' \subseteq Entries(q)
      BY <1>1, <1>2, <2>1, <2>3, EntriesWhenActs DEF Standing
    <3>2. at'[q] = at[q]
      BY <1>2, <2>1, <2>3, ActsAt
    <3> QED BY <1>3, <3>1, <3>2
  <2> QED BY <2>2, <2>3
<1>5. CASE \E r \in Ranks : \E n : Lapses(r, n)
  <2>1. Entries(q)' \subseteq Entries(q)
    BY <1>1, <1>2, <1>5, EntriesWhenLapses DEF Standing
  <2>2. at'[q] = at[q]
    BY <1>5 DEF Lapses
  <2> QED BY <1>3, <2>1, <2>2
<1>6. CASE Rests
  BY <1>3, <1>6 DEF Rests, windows, Entries
<1> QED BY <1>1, <1>4, <1>5, <1>6

(***************************************************************************)
(* Where an iteration completes its own operations, whatever a rank has to *)
(* wait for was issued in the section and the iteration where it stands.   *)
(***************************************************************************)
THEOREM SettledInvariance == WinSpec => []SettledInv
<1>1. WinInit => SettledInv
  <2> SUFFICES ASSUME WinInit, NEW r \in Ranks PROVE SettledOn(r)
    BY DEF SettledInv
  <2>1. Entries(r) = {} /\ Owing(r) = {}
    BY NoEntriesInit DEF Owing
  <2> QED BY <2>1 DEF SettledOn
<1>2. PlaceInv /\ QueueInv /\ SettledInv /\ [WinNext]_<<vars, windows>> => SettledInv'
  BY SettledStep
<1> QED BY <1>1, <1>2, PlaceInvariance, QueueInvariance, PTL DEF WinSpec

\* The operations of program b overlap only where they may.
SettlesAll(b) ==
  Settling(b) /\ (~CompletesLocally(b) \/ Fetches(b) \/ Sync(b) \in {"flush_local", "wait"})

(***************************************************************************)
(* In such a program no iteration begins while an operation of an earlier  *)
(* one is under way that is not allowed to overlap with others.            *)
(***************************************************************************)
THEOREM SettledTheorem ==
  WinSpec => [](WellFormed(benchmark) /\ SettlesAll(benchmark) => UpdatesSeparated)
<1>1. SettledInv => (WellFormed(benchmark) /\ SettlesAll(benchmark) => UpdatesSeparated)
  <2> SUFFICES ASSUME SettledInv, WellFormed(benchmark), SettlesAll(benchmark),
                      NEW r \in Ranks, NEW m \in DOMAIN pending[r], NEW n \in DOMAIN pending[r],
                      ~MayOverlap(pending[r][m])
               PROVE  pending[r][m].size = pending[r][n].size /\ pending[r][m].iter = pending[r][n].iter
    BY DEF UpdatesSeparated
  <2> DEFINE e == pending[r][m]
             f == pending[r][n]
  <2>1. SettledOn(r) /\ (Fetches(benchmark) \/ Delivers(benchmark))
    BY DEF SettledInv, SettlesAll, Settling
  <2>2. e \in Entries(r) /\ f \in Entries(r)
    BY DEF Entries, Elements
  <2> HIDE DEF e, f
  <2>3. Owed(e) /\ Owed(f)
    <3>1. CASE ~CompletesLocally(benchmark)
      BY <3>1 DEF Owed
    <3>2. CASE Sync(benchmark) \in {"flush_local", "wait"}
      <4>1. e.kind \in Fetching
        BY <3>2 DEF MayOverlap, e
      <4> QED BY <2>1, <2>2, <4>1 DEF SettledOn, Owed
    <3>3. CASE Fetches(benchmark)
      <4>1. e.kind \in Fetching /\ f.kind \in Fetching
        BY <2>1, <2>2, <3>3 DEF SettledOn
      <4> QED BY <4>1 DEF Owed
    <3> QED BY <3>1, <3>2, <3>3 DEF SettlesAll
  <2>4. /\ e.size = at[r].size /\ e.iter = at[r].iter
        /\ f.size = at[r].size /\ f.iter = at[r].iter
    BY <2>1, <2>2, <2>3 DEF SettledOn, Owing
  <2> QED BY <2>4 DEF e, f
<1> QED BY <1>1, SettledInvariance, PTL

-----------------------------------------------------------------------------
(***************************************************************************)
(* The timer.                                                              *)
(***************************************************************************)
\* Everything issued before position p of the section is completed there.
IsClosedAt(b, ops, p) ==
  \A n \in 1 .. p - 1 : ops[n].op = "access" => \E m \in n + 1 .. p - 1 : Completing(b, ops[m])

\* The clock is read where the operations of the rank itself are over.
ReadsBetween(b) ==
  Settling(b) /\ \A r \in 0 .. b.np - 1 : \A k \in 0 .. b.sizes + 1 :
    \A s \in 1 .. Len(Sections(b, r, k)) : \A n \in 1 .. Len(Sections(b, r, k)[s].ops) :
      Sections(b, r, k)[s].ops[n].op \in {"t_start", "t_end"} =>
        IsClosedAt(b, Sections(b, r, k)[s].ops, n)

\* Rank r has an operation on rank t in its program.
Reaches(b, r, t) ==
  \E k \in 0 .. b.sizes + 1 : \E s \in 1 .. Len(Sections(b, r, k)) :
    \E n \in 1 .. Len(Sections(b, r, k)[s].ops) :
      Sections(b, r, k)[s].ops[n].op = "access" /\ Sections(b, r, k)[s].ops[n].peer = t

\* Rank r stops its timer in its program.
Stops(b, r) ==
  \E k \in 0 .. b.sizes + 1 : \E s \in 1 .. Len(Sections(b, r, k)) :
    \E n \in 1 .. Len(Sections(b, r, k)[s].ops) : Sections(b, r, k)[s].ops[n].op = "t_end"

\* The ranks that measure are not those that are accessed.
TimesOneWay(b) ==
  ReadsBetween(b) /\ \A r, q \in 0 .. b.np - 1 : Stops(b, r) /\ q # r => ~Reaches(b, q, r)

ReachInv ==
  WellFormed(benchmark) => \A r \in Ranks : \A e \in Entries(r) : Reaches(benchmark, r, e.target)

LEMMA ReachStep ==
  ASSUME PlaceInv, QueueInv, ReachInv, [WinNext]_<<vars, windows>>
  PROVE  ReachInv'
<1> SUFFICES ASSUME WellFormed(benchmark)', NEW q \in Ranks', NEW e \in Entries(q)'
             PROVE  Reaches(benchmark', q, e.target)
  BY DEF ReachInv
<1>1. /\ Standing /\ benchmark' = benchmark /\ Ranks' = Ranks
      /\ \/ \E r \in Ranks : Acts(r)
         \/ \E r \in Ranks : \E n : Lapses(r, n)
         \/ Rests
  BY StandingStep, SameLaunch
<1>2. q \in Ranks /\ WellFormed(benchmark) /\ Placed
  BY <1>1 DEF Standing
<1>3. \A d \in Entries(q) : Reaches(benchmark, q, d.target)
  BY <1>2 DEF ReachInv
<1>4. CASE \E r \in Ranks : Acts(r)
  <2>1. PICK r \in Ranks : Acts(r)
    BY <1>4
  <2>2. e \in Entries(q) \/ (q = r /\ Op(q).op = "access" /\ e = Issued(q))
    BY <1>1, <1>2, <2>1, EntriesWhenActs DEF Standing
  <2>3. CASE q = r /\ Op(q).op = "access" /\ e = Issued(q)
    <3>1. IsSpot(benchmark, q, at[q]) /\ Op(q) = OpsIn(benchmark, q, at[q])[at[q].pos]
      BY <1>2, <2>1, <2>3, ActsAt
    <3>2. /\ at[q].size \in 0 .. benchmark.sizes + 1
          /\ at[q].seg \in 1 .. Len(Sections(benchmark, q, at[q].size))
          /\ at[q].pos \in 1 .. Len(Sections(benchmark, q, at[q].size)[at[q].seg].ops)
          /\ Op(q) = Sections(benchmark, q, at[q].size)[at[q].seg].ops[at[q].pos]
      BY <3>1 DEF IsSpot, OpsIn, SectionIn
    <3>3. e.target = Op(q).peer
      BY <2>3 DEF Issued
    <3>4. Reaches(benchmark, q, e.target)
      BY <2>3, <3>2, <3>3 DEF Reaches
    <3> QED BY <1>1, <3>4
  <2> QED BY <1>1, <1>3, <2>2, <2>3
<1>5. CASE \E r \in Ranks : \E n : Lapses(r, n)
  <2>1. Entries(q)' \subseteq Entries(q)
    BY <1>1, <1>2, <1>5, EntriesWhenLapses DEF Standing
  <2> QED BY <1>1, <1>3, <2>1
<1>6. CASE Rests
  BY <1>1, <1>3, <1>6 DEF Rests, windows, Entries
<1> QED BY <1>1, <1>4, <1>5, <1>6

LEMMA ReachInvariance == WinSpec => []ReachInv
<1>1. WinInit => ReachInv
  BY NoEntriesInit DEF ReachInv
<1>2. PlaceInv /\ QueueInv /\ ReachInv /\ [WinNext]_<<vars, windows>> => ReachInv'
  BY ReachStep
<1> QED BY <1>1, <1>2, PlaceInvariance, QueueInvariance, PTL DEF WinSpec

\* When a rank reads the clock, its own operations are over.
OwnAccounted ==
  \A r \in Ranks : At(r, "t_start") \/ At(r, "t_end") => Accounted(r)

LEMMA ReadsAccounted ==
  ASSUME Standing, SettledInv, ReadsBetween(benchmark), NEW r \in Ranks,
         At(r, "t_start") \/ At(r, "t_end")
  PROVE  Accounted(r)
<1> DEFINE b == benchmark
           a == at[r]
<1>1. a # Over /\ Op(r).op \in {"t_start", "t_end"}
  BY DEF At, Running
<1>2. IsSpot(b, r, a) /\ Op(r) = OpsIn(b, r, a)[a.pos]
  BY <1>1, OpIsAt DEF Standing, Placed, Somewhere
<1>3. /\ a.size \in 0 .. b.sizes + 1 /\ a.seg \in 1 .. Len(Sections(b, r, a.size))
      /\ a.pos \in 1 .. Len(Sections(b, r, a.size)[a.seg].ops)
      /\ OpsIn(b, r, a) = Sections(b, r, a.size)[a.seg].ops
  BY <1>2 DEF IsSpot, OpsIn, SectionIn
<1>4. IsClosedAt(b, OpsIn(b, r, a), a.pos)
  BY <1>1, <1>2, <1>3 DEF ReadsBetween, Ranks
<1>5. ~IsOpen(b, r, a)
  BY <1>4 DEF IsOpen, IsClosedAt
<1>6. SettledOn(r) /\ IsSequence(pending[r])
  BY DEF SettledInv, Standing, ReadsBetween
<1>7. \A e \in Entries(r) : ~Owed(e)
  BY <1>5, <1>6 DEF SettledOn, Owing
<1>8. CASE CompletesLocally(b)
  <2>1. \A e \in Entries(r) : eager /\ e.kind \notin Fetching
    BY <1>7, <1>8 DEF Owed
  <2> QED BY <1>6, <1>8, <2>1, PendingEntries DEF Accounted
<1>9. CASE ~CompletesLocally(b)
  <2>1. Entries(r) = {}
    BY <1>7, <1>9 DEF Owed
  <2> QED BY <1>6, <1>9, <2>1, PendingEntries DEF Accounted
<1> QED BY <1>8, <1>9

LEMMA StopsAt ==
  ASSUME Standing, NEW r \in Ranks, At(r, "t_end")
  PROVE  Stops(benchmark, r)
<1> DEFINE b == benchmark
           a == at[r]
<1>1. a # Over /\ Op(r).op = "t_end"
  BY DEF At, Running
<1>2. IsSpot(b, r, a) /\ Op(r) = OpsIn(b, r, a)[a.pos]
  BY <1>1, OpIsAt DEF Standing, Placed, Somewhere
<1>3. /\ a.size \in 0 .. b.sizes + 1 /\ a.seg \in 1 .. Len(Sections(b, r, a.size))
      /\ a.pos \in 1 .. Len(Sections(b, r, a.size)[a.seg].ops)
      /\ OpsIn(b, r, a) = Sections(b, r, a.size)[a.seg].ops
  BY <1>2 DEF IsSpot, OpsIn, SectionIn
<1> QED BY <1>1, <1>2, <1>3 DEF Stops

(***************************************************************************)
(* In a program that reads the clock only where its operations are         *)
(* complete, no rank times an operation of the warm-up or leaves out one   *)
(* of its own; and nothing is under way to a rank that stops its timer if  *)
(* those that measure are not accessed by others.                          *)
(***************************************************************************)
THEOREM TimedTheorem ==
  WinSpec => []/\ WellFormed(benchmark) /\ ReadsBetween(benchmark) => OwnAccounted
               /\ WellFormed(benchmark) /\ TimesOneWay(benchmark) => TimedOperations
<1>1. PlaceInv /\ QueueInv /\ SettledInv /\ WellFormed(benchmark) /\ ReadsBetween(benchmark)
        => OwnAccounted
  BY ReadsAccounted DEF OwnAccounted, PlaceInv, QueueInv, Standing
<1>2. PlaceInv /\ QueueInv /\ SettledInv /\ ReachInv /\ WellFormed(benchmark)
        /\ TimesOneWay(benchmark) => TimedOperations
  <2> SUFFICES ASSUME PlaceInv, QueueInv, SettledInv, ReachInv, WellFormed(benchmark),
                      TimesOneWay(benchmark), NEW r \in Ranks
               PROVE  /\ At(r, "t_start") => Accounted(r)
                      /\ At(r, "t_end") => Accounted(r)
                      /\ At(r, "t_end") => \A q \in Ranks \ {r} : \A n \in DOMAIN pending[q] :
                                             pending[q][n].target # r
    BY DEF TimedOperations
  <2>1. Standing /\ ReadsBetween(benchmark)
    BY DEF PlaceInv, QueueInv, Standing, TimesOneWay
  <2>2. At(r, "t_start") \/ At(r, "t_end") => Accounted(r)
    BY <2>1, ReadsAccounted
  <2>3. ASSUME At(r, "t_end"), NEW q \in Ranks \ {r}, NEW n \in DOMAIN pending[q]
        PROVE  pending[q][n].target # r
    <3>1. Stops(benchmark, r)
      BY <2>1, <2>3, StopsAt
    <3>2. Reaches(benchmark, q, pending[q][n].target)
      <4>1. pending[q][n] \in Entries(q)
        BY DEF Entries, Elements
      <4> QED BY <4>1 DEF ReachInv
    <3>3. r \in 0 .. benchmark.np - 1 /\ q \in 0 .. benchmark.np - 1
      BY DEF Ranks
    <3> QED BY <3>1, <3>2, <3>3 DEF TimesOneWay
  <2> QED BY <2>2, <2>3
<1> QED BY <1>1, <1>2, PlaceInvariance, QueueInvariance, SettledInvariance, ReachInvariance, PTL

-----------------------------------------------------------------------------
(***************************************************************************)
(* The programs themselves.                                                *)
(***************************************************************************)
\* A statement of the given name that is always executed.
Is(o, op)       == o.op = op /\ ~o.at_skip
IsAtSkip(o, op) == o.op = op /\ o.at_skip

LEMMA CallNames ==
  /\ Is(Check, "check") /\ Is(Touch, "touch") /\ Is(TEnd, "t_end") /\ Is(Report, "report")
  /\ Is(Lock, "lock") /\ Is(Unlock, "unlock") /\ Is(Flush, "flush")
  /\ Is(FlushLocal, "flush_local") /\ Is(Post, "post") /\ Is(WinWait, "win_wait")
  /\ Is(EndEpoch, "complete") /\ Is(Table, "table") /\ Is(WaitSends, "waitsends")
  /\ Is(WaitRecvs, "waitrecvs") /\ Is(Barrier, "call") /\ Is(Finalize, "call")
  /\ \A c : Is(Call(c), "call")
  /\ \A t : Is(WinStart(t), "start_epoch")
  /\ \A s : Is(Assign(s), "options")
  /\ \A k : Is(SetIfLarge(k), "options")
  /\ \A peer, tag, kind : Is(Message("isend", peer, tag, kind), "isend")
  /\ \A peer, tag, kind : Is(Message("irecv", peer, tag, kind), "irecv")
<1>1. /\ Is(Check, "check") /\ Is(Touch, "touch") /\ Is(TEnd, "t_end") /\ Is(Report, "report")
      /\ Is(Lock, "lock") /\ Is(Unlock, "unlock") /\ Is(Flush, "flush")
      /\ Is(FlushLocal, "flush_local") /\ Is(Post, "post") /\ Is(WinWait, "win_wait")
      /\ Is(EndEpoch, "complete") /\ Is(Table, "table") /\ Is(WaitSends, "waitsends")
      /\ Is(WaitRecvs, "waitrecvs")
  <2>1. \A op, kind : Is(Do(op, kind), op)
    BY DEF Is, Do
  <2>2. /\ Is(Check, "check") /\ Is(Touch, "touch") /\ Is(TEnd, "t_end") /\ Is(Report, "report")
        /\ Is(Lock, "lock") /\ Is(Unlock, "unlock") /\ Is(Flush, "flush")
    BY <2>1, Zenon DEF Check, Touch, TEnd, Report, Lock, Unlock, Flush
  <2>3. /\ Is(FlushLocal, "flush_local") /\ Is(Post, "post") /\ Is(WinWait, "win_wait")
        /\ Is(EndEpoch, "complete") /\ Is(Table, "table") /\ Is(WaitSends, "waitsends")
        /\ Is(WaitRecvs, "waitrecvs")
    BY <2>1, Zenon DEF FlushLocal, Post, WinWait, EndEpoch, Table, WaitSends, WaitRecvs
  <2> QED BY <2>2, <2>3
<1>2. \A c : Is(Call(c), "call")
  BY DEF Is, Do, Call
<1>3. Is(Barrier, "call") /\ Is(Finalize, "call")
  BY <1>2 DEF Barrier, Finalize
<1>4. \A t : Is(WinStart(t), "start_epoch")
  BY DEF Is, Do, WinStart
<1>5. \A s : Is(Assign(s), "options")
  BY DEF Is, Do, Assign
<1>6. \A k : Is(SetIfLarge(k), "options")
  BY <1>5 DEF SetIfLarge
<1>7. /\ \A peer, tag, kind : Is(Message("isend", peer, tag, kind), "isend")
      /\ \A peer, tag, kind : Is(Message("irecv", peer, tag, kind), "irecv")
  BY DEF Is, Do, Message
<1> QED BY <1>1, <1>2, <1>3, <1>4, <1>5, <1>6, <1>7

LEMMA GuardedNames ==
  /\ IsAtSkip(AtSkip(TStart), "t_start") /\ IsAtSkip(AtSkip(Flush), "flush")
  /\ IsAtSkip(AtSkip(Barrier), "call")
BY DEF IsAtSkip, AtSkip, TStart, Flush, Barrier, Call, Do

LEMMA MeasuredNames ==
  /\ Is(Measured(Flush), "flush") /\ Is(Measured(FlushLocal), "flush_local")
  /\ Is(Measured(Unlock), "unlock") /\ Is(Measured(EndEpoch), "complete")
  /\ Is(Measured(WinWait), "win_wait")
  /\ \A c : Is(Measured(Call(c)), "call")
BY DEF Is, Measured, Flush, FlushLocal, Unlock, EndEpoch, WinWait, Call, Do

\* An operation of the program, and what it is like.
IsAccess(o, kind, target, disp) ==
  Is(o, "access") /\ o.kind = kind /\ o.peer = target /\ o.disp = disp

LEMMA AccessIs == \A kind, target, disp : IsAccess(Access(kind, target, disp), kind, target, disp)
BY DEF Access, Is, IsAccess

-----------------------------------------------------------------------------
\* No statement of ops is one of the named ones.
Avoids(ops, names) == IsSequence(ops) /\ \A n \in 1 .. Len(ops) : ops[n].op \notin names

Setters == {"table", "address"}
Timers  == {"t_start", "t_end"}

\* Statements that are neither operations nor set up displacements, and
\* those of them that do not read the clock either.
Free(ops)  == Avoids(ops, {"access"} \cup Setters)
Neutral(ops) == Avoids(ops, {"access"} \cup Setters \cup Timers)

LEMMA AvoidsLess ==
  ASSUME NEW ops, NEW S, NEW T, Avoids(ops, S), T \subseteq S
  PROVE  Avoids(ops, T)
BY DEF Avoids

LEMMA AvoidsJoined ==
  ASSUME NEW f, NEW g, NEW S, Avoids(f, S), Avoids(g, S)
  PROVE  Avoids(f \o g, S)
BY Joined DEF Avoids

LEMMA ShortAvoids ==
  ASSUME NEW S
  PROVE  /\ Avoids(<<>>, S) /\ Len(<<>>) = 0
         /\ \A o : o.op \notin S => Avoids(<<o>>, S)
         /\ \A o, p : o.op \notin S /\ p.op \notin S => Avoids(<<o, p>>, S)
         /\ \A o, p, q : o.op \notin S /\ p.op \notin S /\ q.op \notin S => Avoids(<<o, p, q>>, S)
BY DEF Avoids, IsSequence

LEMMA ShortSequences ==
  /\ IsSequence(<<>>) /\ Len(<<>>) = 0
  /\ \A o : IsSequence(<<o>>) /\ Len(<<o>>) = 1 /\ <<o>>[1] = o
  /\ \A o, p : IsSequence(<<o, p>>) /\ Len(<<o, p>>) = 2 /\ <<o, p>>[1] = o /\ <<o, p>>[2] = p
  /\ \A o, p, q : IsSequence(<<o, p, q>>) /\ Len(<<o, p, q>>) = 3
                    /\ <<o, p, q>>[1] = o /\ <<o, p, q>>[2] = p /\ <<o, p, q>>[3] = q
BY DEF IsSequence

LEMMA WindowIs ==
  ASSUME NEW w \in Nat, NEW o
  PROVE  /\ IsSequence(Window(w, o)) /\ Len(Window(w, o)) = w
         /\ \A n \in 1 .. w : Window(w, o)[n] = o
<1> DEFINE f == Window(w, o)
<1>1. f = [n \in 1 .. w |-> o]
  BY DEF Window
<1> HIDE DEF f
<1>2. f \in Seq({o}) /\ Len(f) = w
  BY <1>1
<1>3. IsSequence(f) /\ \A n \in 1 .. w : f[n] = o
  BY <1>1, <1>2 DEF IsSequence
<1> QED BY <1>2, <1>3 DEF f

-----------------------------------------------------------------------------
\* In ops, nothing but acc is done to other ranks, and the clock is not read
\* after that.
Loads(ops, acc) ==
  /\ IsSequence(ops)
  /\ \E i \in 0 .. Len(ops) : \A n \in 1 .. Len(ops) :
       /\ ops[n].op = "access" => ops[n] = acc /\ ~(n <= i)
       /\ ops[n].op \in Timers => n <= i
       /\ ops[n].op \notin Setters

\* What ops does to other ranks is acc between positions i and m, where it
\* is over; Transfers: at a statement named in closers.
IsTransfer(ops, i, m, acc) ==
  \A n \in 1 .. Len(ops) :
    /\ ops[n].op = "access" => ops[n] = acc /\ n \in i + 1 .. m - 1
    /\ ops[n].op \in Timers => n <= i \/ m < n
    /\ ops[n].op \notin Setters

Transfers(ops, acc, closers) ==
  /\ IsSequence(ops)
  /\ \E i \in 0 .. Len(ops) : \E m \in i + 1 .. Len(ops) :
       ops[m].op \in closers /\ ~ops[m].at_skip /\ IsTransfer(ops, i, m, acc)

IsRepeated(ops, acc) == IsSequence(ops) /\ \A n \in 1 .. Len(ops) : ops[n] = acc

LEMMA LoadsAfter ==
  ASSUME NEW f, NEW g, NEW acc, Free(f), IsRepeated(g, acc), acc.op = "access"
  PROVE  Loads(f \o g, acc)
<1> DEFINE h == f \o g
<1>1. /\ IsSequence(h) /\ Len(h) = Len(f) + Len(g) /\ Len(f) \in Nat /\ Len(g) \in Nat
      /\ \A n \in 1 .. Len(h) : \/ n \in 1 .. Len(f) /\ h[n] = f[n]
                                \/ n - Len(f) \in 1 .. Len(g) /\ h[n] = g[n - Len(f)]
  <2>1. IsSequence(f) /\ IsSequence(g)
    BY DEF Free, Avoids, IsRepeated
  <2>2. Len(f) \in Nat /\ Len(g) \in Nat
    BY <2>1 DEF IsSequence
  <2> QED BY <2>1, <2>2, Joined
<1> HIDE DEF h
<1>2. Len(f) \in 0 .. Len(h)
  BY <1>1
<1>3. ASSUME NEW n \in 1 .. Len(h)
      PROVE  /\ h[n].op = "access" => h[n] = acc /\ ~(n <= Len(f))
             /\ h[n].op \in Timers => n <= Len(f)
             /\ h[n].op \notin Setters
  <2>1. CASE n \in 1 .. Len(f) /\ h[n] = f[n]
    <3>1. h[n].op \notin {"access"} \cup Setters
      BY <2>1 DEF Free, Avoids
    <3> QED BY <2>1, <3>1
  <2>2. CASE n - Len(f) \in 1 .. Len(g) /\ h[n] = g[n - Len(f)]
    <3>1. h[n] = acc
      BY <2>2 DEF IsRepeated
    <3>2. ~(n <= Len(f))
      BY <1>1, <2>2
    <3> QED BY <3>1, <3>2 DEF Timers, Setters
  <2> QED BY <1>1, <2>1, <2>2
<1>4. Loads(h, acc)
  BY <1>1, <1>2, <1>3 DEF Loads
<1> QED BY <1>4 DEF h

LEMMA LoadsAtOnce ==
  ASSUME NEW g, NEW acc, IsRepeated(g, acc), acc.op = "access"
  PROVE  Loads(g, acc)
<1>1. Len(g) \in Nat
  BY DEF IsRepeated, IsSequence
<1>2. 0 \in 0 .. Len(g) /\ \A n \in 1 .. Len(g) : ~(n <= 0)
  BY <1>1
<1> QED BY <1>2 DEF IsRepeated, Loads, Timers, Setters

LEMMA TransfersOver ==
  ASSUME NEW f, NEW g, NEW acc, NEW closers, Loads(f, acc), Neutral(g),
         NEW c \in 1 .. Len(g), g[c].op \in closers, ~g[c].at_skip
  PROVE  Transfers(f \o g, acc, closers)
<1> DEFINE h == f \o g
<1>1. /\ IsSequence(h) /\ Len(h) = Len(f) + Len(g) /\ Len(f) \in Nat /\ Len(g) \in Nat
      /\ \A n \in 1 .. Len(h) : \/ n \in 1 .. Len(f) /\ h[n] = f[n]
                                \/ n - Len(f) \in 1 .. Len(g) /\ h[n] = g[n - Len(f)]
      /\ h[Len(f) + c] = g[c]
  <2>1. IsSequence(f) /\ IsSequence(g)
    BY DEF Loads, Neutral, Avoids
  <2>2. Len(f) \in Nat /\ Len(g) \in Nat
    BY <2>1 DEF IsSequence
  <2> QED BY <2>1, <2>2, Joined
<1>2. PICK i \in 0 .. Len(f) : \A n \in 1 .. Len(f) :
        /\ f[n].op = "access" => f[n] = acc /\ ~(n <= i)
        /\ f[n].op \in Timers => n <= i
        /\ f[n].op \notin Setters
  BY DEF Loads
<1> HIDE DEF h
<1>3. PICK m : m = Len(f) + c
  OBVIOUS
<1>4. i \in 0 .. Len(h) /\ m \in i + 1 .. Len(h)
  BY <1>1, <1>2, <1>3
<1>5. h[m].op \in closers /\ ~h[m].at_skip
  BY <1>1, <1>3
<1>6. ASSUME NEW n \in 1 .. Len(h)
      PROVE  /\ h[n].op = "access" => h[n] = acc /\ n \in i + 1 .. m - 1
             /\ h[n].op \in Timers => n <= i \/ m < n
             /\ h[n].op \notin Setters
  <2>1. CASE n \in 1 .. Len(f) /\ h[n] = f[n]
    <3>1. ~(n <= i) => n \in i + 1 .. m - 1
      BY <1>1, <1>2, <1>3, <2>1
    <3> QED BY <1>2, <2>1, <3>1
  <2>2. CASE n - Len(f) \in 1 .. Len(g) /\ h[n] = g[n - Len(f)]
    <3>1. h[n].op \notin {"access"} \cup Setters \cup Timers
      BY <2>2 DEF Neutral, Avoids
    <3> QED BY <3>1
  <2> QED BY <1>1, <2>1, <2>2
<1>7. Transfers(h, acc, closers)
  BY <1>1, <1>4, <1>5, <1>6 DEF Transfers, IsTransfer
<1> QED BY <1>7 DEF h

LEMMA TransfersLater ==
  ASSUME NEW f, NEW g, NEW acc, NEW closers, Free(f), Transfers(g, acc, closers)
  PROVE  Transfers(f \o g, acc, closers)
<1> DEFINE h == f \o g
<1>1. /\ IsSequence(h) /\ Len(h) = Len(f) + Len(g) /\ Len(f) \in Nat /\ Len(g) \in Nat
      /\ \A n \in 1 .. Len(h) : \/ n \in 1 .. Len(f) /\ h[n] = f[n]
                                \/ n - Len(f) \in 1 .. Len(g) /\ h[n] = g[n - Len(f)]
      /\ \A n \in 1 .. Len(g) : h[Len(f) + n] = g[n]
  <2>1. IsSequence(f) /\ IsSequence(g)
    BY DEF Transfers, Free, Avoids
  <2>2. Len(f) \in Nat /\ Len(g) \in Nat
    BY <2>1 DEF IsSequence
  <2> QED BY <2>1, <2>2, Joined
<1>2. PICK i \in 0 .. Len(g) : \E m \in i + 1 .. Len(g) :
        g[m].op \in closers /\ ~g[m].at_skip /\ IsTransfer(g, i, m, acc)
  BY DEF Transfers
<1>2a. PICK m \in i + 1 .. Len(g) :
        g[m].op \in closers /\ ~g[m].at_skip /\ IsTransfer(g, i, m, acc)
  BY <1>2
<1> HIDE DEF h
<1>3. PICK j, c : j = Len(f) + i /\ c = Len(f) + m
  OBVIOUS
<1>4. j \in 0 .. Len(h) /\ c \in j + 1 .. Len(h) /\ m \in 1 .. Len(g)
  BY <1>1, <1>2, <1>2a, <1>3
<1>5. h[c].op \in closers /\ ~h[c].at_skip
  BY <1>1, <1>2, <1>2a, <1>3, <1>4
<1>6. ASSUME NEW n \in 1 .. Len(h)
      PROVE  /\ h[n].op = "access" => h[n] = acc /\ n \in j + 1 .. c - 1
             /\ h[n].op \in Timers => n <= j \/ c < n
             /\ h[n].op \notin Setters
  <2>1. CASE n \in 1 .. Len(f) /\ h[n] = f[n]
    <3>1. h[n].op \notin {"access"} \cup Setters
      BY <2>1 DEF Free, Avoids
    <3>2. n <= j
      BY <1>1, <1>2, <1>2a, <1>3, <2>1
    <3> QED BY <3>1, <3>2
  <2>2. CASE n - Len(f) \in 1 .. Len(g) /\ h[n] = g[n - Len(f)]
    <3>1. /\ n - Len(f) \in i + 1 .. m - 1 => n \in j + 1 .. c - 1
          /\ n - Len(f) <= i => n <= j
          /\ m < n - Len(f) => c < n
      BY <1>1, <1>2, <1>2a, <1>3, <2>2
    <3> QED BY <1>2a, <2>2, <3>1 DEF IsTransfer
  <2> QED BY <1>1, <2>1, <2>2
<1>7. Transfers(h, acc, closers)
  BY <1>1, <1>4, <1>5, <1>6 DEF Transfers, IsTransfer
<1> QED BY <1>7 DEF h

LEMMA TransfersBefore ==
  ASSUME NEW f, NEW g, NEW acc, NEW closers, Transfers(f, acc, closers), Neutral(g)
  PROVE  Transfers(f \o g, acc, closers)
<1> DEFINE h == f \o g
<1>1. /\ IsSequence(h) /\ Len(h) = Len(f) + Len(g) /\ Len(f) \in Nat /\ Len(g) \in Nat
      /\ \A n \in 1 .. Len(h) : \/ n \in 1 .. Len(f) /\ h[n] = f[n]
                                \/ n - Len(f) \in 1 .. Len(g) /\ h[n] = g[n - Len(f)]
      /\ \A n \in 1 .. Len(f) : h[n] = f[n]
  <2>1. IsSequence(f) /\ IsSequence(g)
    BY DEF Transfers, Neutral, Avoids
  <2>2. Len(f) \in Nat /\ Len(g) \in Nat
    BY <2>1 DEF IsSequence
  <2> QED BY <2>1, <2>2, Joined
<1>2. PICK i \in 0 .. Len(f) : \E m \in i + 1 .. Len(f) :
        f[m].op \in closers /\ ~f[m].at_skip /\ IsTransfer(f, i, m, acc)
  BY DEF Transfers
<1>2a. PICK m \in i + 1 .. Len(f) :
        f[m].op \in closers /\ ~f[m].at_skip /\ IsTransfer(f, i, m, acc)
  BY <1>2
<1> HIDE DEF h
<1>3. i \in 0 .. Len(h) /\ m \in i + 1 .. Len(h) /\ m \in 1 .. Len(f)
  BY <1>1, <1>2
<1>4. h[m].op \in closers /\ ~h[m].at_skip
  BY <1>1, <1>2, <1>2a, <1>3
<1>5. ASSUME NEW n \in 1 .. Len(h)
      PROVE  /\ h[n].op = "access" => h[n] = acc /\ n \in i + 1 .. m - 1
             /\ h[n].op \in Timers => n <= i \/ m < n
             /\ h[n].op \notin Setters
  <2>1. CASE n \in 1 .. Len(f) /\ h[n] = f[n]
    BY <1>2, <1>2a, <2>1 DEF IsTransfer
  <2>2. CASE n - Len(f) \in 1 .. Len(g) /\ h[n] = g[n - Len(f)]
    <3>1. h[n].op \notin {"access"} \cup Setters \cup Timers
      BY <2>2 DEF Neutral, Avoids
    <3> QED BY <3>1
  <2> QED BY <1>1, <2>1, <2>2
<1>6. Transfers(h, acc, closers)
  BY <1>1, <1>3, <1>4, <1>5 DEF Transfers, IsTransfer
<1> QED BY <1>6 DEF h

-----------------------------------------------------------------------------
(***************************************************************************)
(* A program with one-sided operations: the first section of a size        *)
(* prepares it; after that, what rank r does to others is acc[r], and a    *)
(* statement named in closers ends it in the same section.                 *)
(***************************************************************************)
IsSectionOf(ops, acc, closers) ==
  (IsStraight(ops) /\ Free(ops)) \/ Transfers(ops, acc, closers)

IsOneSided(b, acc, closers) ==
  /\ b.np \in Nat \ {0} /\ b.sizes \in Nat
  /\ Free(b.start) /\ Free(b.finish)
  /\ \A k \in 1 .. b.sizes : \A r \in 1 .. b.np :
       /\ Len(b.body[k][r]) \in Nat \ {0}
       /\ IsStraight(b.body[k][r][1].ops) /\ Avoids(b.body[k][r][1].ops, {"access"})
       /\ \A s \in 2 .. Len(b.body[k][r]) :
            IsSectionOf(b.body[k][r][s].ops, acc[r - 1], closers)

LEMMA TransfersAreStraight ==
  ASSUME NEW ops, NEW acc, NEW closers, IsSectionOf(ops, acc, closers)
  PROVE  IsStraight(ops)
<1>1. ASSUME Transfers(ops, acc, closers) PROVE IsStraight(ops)
  <2>1. Len(ops) \in Nat
    BY <1>1 DEF Transfers, IsSequence
  <2>2. PICK i \in 0 .. Len(ops) : \E m \in i + 1 .. Len(ops) : ~ops[m].at_skip
    BY <1>1 DEF Transfers
  <2>3. PICK m \in i + 1 .. Len(ops) : ~ops[m].at_skip
    BY <2>2
  <2>4. m \in 1 .. Len(ops)
    BY <2>1
  <2> QED BY <1>1, <2>3, <2>4 DEF Transfers, IsStraight
<1> QED BY <1>1 DEF IsSectionOf

LEMMA OneSidedIsWellFormed ==
  ASSUME NEW b, NEW acc, NEW closers, IsOneSided(b, acc, closers)
  PROVE  WellFormed(b)
<1>1. ASSUME NEW k \in 1 .. b.sizes, NEW r \in 1 .. b.np, NEW s \in 1 .. Len(b.body[k][r])
      PROVE  IsStraight(b.body[k][r][s].ops)
  <2>1. CASE s = 1
    BY <2>1 DEF IsOneSided
  <2>2. CASE s # 1
    <3>1. s \in 2 .. Len(b.body[k][r])
      BY <2>2
    <3> QED BY <3>1, TransfersAreStraight DEF IsOneSided
  <2> QED BY <2>1, <2>2
<1> QED BY <1>1 DEF IsOneSided, WellFormed, Free, Avoids

\* Where its operations are, and its statements that set up displacements.
LEMMA OneSidedSections ==
  ASSUME NEW b, NEW acc, NEW closers, IsOneSided(b, acc, closers),
         NEW r \in 0 .. b.np - 1, NEW k \in 0 .. b.sizes + 1, NEW s \in 1 .. Len(Sections(b, r, k))
  PROVE  LET ops == Sections(b, r, k)[s].ops
         IN  \/ k \in 1 .. b.sizes /\ s # 1 /\ Transfers(ops, acc[r], closers)
             \/ k \in 1 .. b.sizes /\ s = 1 /\ Avoids(ops, {"access"})
             \/ Free(ops)
<1> DEFINE ops == Sections(b, r, k)[s].ops
<1>1. b.sizes \in Nat /\ b.np \in Nat
  BY DEF IsOneSided
<1>2. CASE k = 0
  <2>1. Sections(b, r, k) = <<Once(<<Check>> \o b.start)>>
    BY <1>2 DEF Sections
  <2>2. s = 1 /\ ops = <<Check>> \o b.start
    BY <2>1 DEF Once
  <2>3. Free(<<Check>>)
    BY CallNames, ShortAvoids DEF Free, Is, Setters
  <2>4. Free(<<Check>> \o b.start)
    BY <2>3, AvoidsJoined DEF IsOneSided, Free
  <2> QED BY <2>2, <2>4
<1>3. CASE k = b.sizes + 1
  <2>1. Sections(b, r, k) = <<Once(b.finish \o <<Finalize>>)>>
    BY <1>1, <1>3 DEF Sections
  <2>2. s = 1 /\ ops = b.finish \o <<Finalize>>
    BY <2>1 DEF Once
  <2>3. Free(<<Finalize>>)
    BY CallNames, ShortAvoids DEF Free, Is, Setters
  <2>4. Free(b.finish \o <<Finalize>>)
    BY <2>3, AvoidsJoined DEF IsOneSided, Free
  <2> QED BY <2>2, <2>4
<1>4. CASE k \in 1 .. b.sizes
  <2>1. Sections(b, r, k) = b.body[k][r + 1]
    BY <1>1, <1>4 DEF Sections
  <2>2. PICK q : q = r + 1
    OBVIOUS
  <2>3. q \in 1 .. b.np /\ q - 1 = r
    BY <1>1, <2>2
  <2>4. s \in 1 .. Len(b.body[k][q]) /\ ops = b.body[k][q][s].ops
    BY <2>1, <2>2
  <2> HIDE DEF ops
  <2>5. CASE s = 1
    BY <1>4, <2>3, <2>4, <2>5 DEF IsOneSided, ops
  <2>6. CASE s # 1
    <3>1. s \in 2 .. Len(b.body[k][q])
      BY <2>4, <2>6
    <3>2. IsSectionOf(ops, acc[r], closers)
      BY <1>4, <2>3, <2>4, <3>1 DEF IsOneSided
    <3> QED BY <1>4, <2>6, <3>2 DEF IsSectionOf, ops
  <2> QED BY <2>5, <2>6
<1>5. k = 0 \/ k = b.sizes + 1 \/ k \in 1 .. b.sizes
  BY <1>1
<1> QED BY <1>2, <1>3, <1>4, <1>5

\* All that rank r does to others is acc[r], after the first section of a size.
DoesAt(b, k, s, ops, a) ==
  \A n \in 1 .. Len(ops) : ops[n].op = "access" => k \in 1 .. b.sizes /\ s # 1 /\ ops[n] = a

OnlyDoes(b, acc) ==
  \A r \in 0 .. b.np - 1 : \A k \in 0 .. b.sizes + 1 : \A s \in 1 .. Len(Sections(b, r, k)) :
    DoesAt(b, k, s, Sections(b, r, k)[s].ops, acc[r])

LEMMA OneSidedAccess ==
  ASSUME NEW b, NEW acc, NEW closers, IsOneSided(b, acc, closers)
  PROVE  OnlyDoes(b, acc)
<1> SUFFICES ASSUME NEW r \in 0 .. b.np - 1, NEW k \in 0 .. b.sizes + 1,
                    NEW s \in 1 .. Len(Sections(b, r, k))
             PROVE  DoesAt(b, k, s, Sections(b, r, k)[s].ops, acc[r])
  BY DEF OnlyDoes
<1> DEFINE ops == Sections(b, r, k)[s].ops
<1>1. \/ k \in 1 .. b.sizes /\ s # 1 /\ Transfers(ops, acc[r], closers)
      \/ k \in 1 .. b.sizes /\ s = 1 /\ Avoids(ops, {"access"})
      \/ Free(ops)
  BY OneSidedSections
<1> HIDE DEF ops
<1>2. ASSUME NEW n \in 1 .. Len(ops), ops[n].op = "access"
      PROVE  k \in 1 .. b.sizes /\ s # 1 /\ ops[n] = acc[r]
  <2>1. ~Avoids(ops, {"access"}) /\ ~Free(ops)
    BY <1>2 DEF Avoids, Free
  <2> QED BY <1>1, <1>2, <2>1 DEF Transfers, IsTransfer
<1>3. DoesAt(b, k, s, ops, acc[r])
  BY <1>2 DEF DoesAt
<1> QED BY <1>3 DEF ops

LEMMA OneSidedKinds ==
  ASSUME NEW b, NEW acc, OnlyDoes(b, acc)
  PROVE  /\ (\A r \in 0 .. b.np - 1 : acc[r].kind \in Fetching) => Fetches(b)
         /\ (\A r \in 0 .. b.np - 1 : acc[r].kind \notin Fetching) => Delivers(b)
<1>1. ASSUME NEW r \in 0 .. b.np - 1, NEW k \in 0 .. b.sizes + 1,
             NEW s \in 1 .. Len(Sections(b, r, k)), NEW n \in 1 .. Len(Sections(b, r, k)[s].ops),
             Sections(b, r, k)[s].ops[n].op = "access"
      PROVE  k \in 1 .. b.sizes /\ Sections(b, r, k)[s].ops[n].kind = acc[r].kind
  <2>1. DoesAt(b, k, s, Sections(b, r, k)[s].ops, acc[r])
    BY DEF OnlyDoes
  <2>2. k \in 1 .. b.sizes /\ Sections(b, r, k)[s].ops[n] = acc[r]
    BY <1>1, <2>1 DEF DoesAt
  <2> QED BY <2>2
<1>2. ASSUME \A r \in 0 .. b.np - 1 : acc[r].kind \in Fetching PROVE EveryAccess(b, TRUE)
  BY <1>1, <1>2 DEF EveryAccess
<1>3. ASSUME \A r \in 0 .. b.np - 1 : acc[r].kind \notin Fetching PROVE EveryAccess(b, FALSE)
  BY <1>1, <1>3 DEF EveryAccess
<1> QED BY <1>2, <1>3 DEF Fetches, Delivers

\* Closers that complete the operations of the program, as far as it promises.
Closes(b, closers) ==
  \/ closers \subseteq {"unlock", "flush"}
  \/ closers \subseteq {"unlock", "flush", "flush_local", "complete"}
       /\ (CompletesLocally(b) \/ Fetches(b))

LEMMA TransfersSettle ==
  ASSUME NEW b, NEW ops, NEW acc, NEW closers, Closes(b, closers), Transfers(ops, acc, closers)
  PROVE  /\ Settles(b, ops)
         /\ \A p \in 1 .. Len(ops) : ops[p].op \in Timers => IsClosedAt(b, ops, p)
<1>1. Len(ops) \in Nat
  BY DEF Transfers, IsSequence
<1>2. PICK i \in 0 .. Len(ops) : \E m \in i + 1 .. Len(ops) :
        ops[m].op \in closers /\ ~ops[m].at_skip /\ IsTransfer(ops, i, m, acc)
  BY DEF Transfers
<1>3. PICK m \in i + 1 .. Len(ops) :
        ops[m].op \in closers /\ ~ops[m].at_skip /\ IsTransfer(ops, i, m, acc)
  BY <1>2
<1>4. Completing(b, ops[m])
  BY <1>3 DEF Completing, Closes
<1>5. \A n \in 1 .. Len(ops) : ops[n].op = "access" => n \in i + 1 .. m - 1
  BY <1>3 DEF IsTransfer
<1>6. ASSUME NEW n \in 1 .. Len(ops), ops[n].op = "access"
      PROVE  m \in n + 1 .. Len(ops)
  BY <1>1, <1>5, <1>6
<1>7. ASSUME NEW p \in 1 .. Len(ops), ops[p].op \in Timers, NEW n \in 1 .. p - 1, ops[n].op = "access"
      PROVE  m \in n + 1 .. p - 1
  <2>1. n \in 1 .. Len(ops)
    BY <1>1
  <2>2. n \in i + 1 .. m - 1
    BY <1>5, <1>7, <2>1
  <2>3. p <= i \/ m < p
    BY <1>3, <1>7 DEF IsTransfer
  <2> QED BY <1>1, <2>2, <2>3
<1> QED BY <1>4, <1>6, <1>7 DEF Settles, IsClosedAt

LEMMA OneSidedSettles ==
  ASSUME NEW b, NEW acc, NEW closers, IsOneSided(b, acc, closers), Fetches(b) \/ Delivers(b),
         Closes(b, closers)
  PROVE  Settling(b) /\ ReadsBetween(b)
<1>1. ASSUME NEW r \in 0 .. b.np - 1, NEW k \in 0 .. b.sizes + 1,
             NEW s \in 1 .. Len(Sections(b, r, k))
      PROVE  LET ops == Sections(b, r, k)[s].ops
             IN  /\ Settles(b, ops)
                 /\ \A p \in 1 .. Len(ops) : ops[p].op \in Timers => IsClosedAt(b, ops, p)
  <2> DEFINE ops == Sections(b, r, k)[s].ops
  <2>1. Transfers(ops, acc[r], closers) \/ Avoids(ops, {"access"})
    <3>1. Free(ops) => Avoids(ops, {"access"})
      BY AvoidsLess DEF Free
    <3> QED BY <3>1, OneSidedSections
  <2> HIDE DEF ops
  <2>2. ASSUME Avoids(ops, {"access"})
        PROVE  /\ Settles(b, ops)
               /\ \A p \in 1 .. Len(ops) : ops[p].op \in Timers => IsClosedAt(b, ops, p)
    <3>1. Len(ops) \in Nat /\ \A n \in 1 .. Len(ops) : ops[n].op # "access"
      BY <2>2 DEF Avoids, IsSequence
    <3>2. \A p \in 1 .. Len(ops) : \A n \in 1 .. p - 1 : n \in 1 .. Len(ops)
      BY <3>1
    <3> QED BY <3>1, <3>2 DEF Settles, IsClosedAt
  <2>3. /\ Settles(b, ops)
        /\ \A p \in 1 .. Len(ops) : ops[p].op \in Timers => IsClosedAt(b, ops, p)
    BY <2>1, <2>2, TransfersSettle
  <2> QED BY <2>3 DEF ops
<1>2. Settling(b)
  BY <1>1 DEF Settling
<1> QED BY <1>1, <1>2 DEF ReadsBetween, Timers

\* The operations of the program have displacements of their own.
LEMMA OneSidedOffsets ==
  ASSUME NEW b, NEW acc, NEW closers, IsOneSided(b, acc, closers),
         \A r \in 0 .. b.np - 1 : acc[r].disp = "offset"
  PROVE  Aimed(b)
BY OneSidedAccess DEF Aimed, OnlyDoes, DoesAt

\* Or the first section of every size sets them up.
SetsUp(r, secs, v) ==
  /\ ~secs[1].loop
  /\ \A n \in 1 .. Len(secs[1].ops) : Points(r, secs[1].ops[n], v)
  /\ \E n \in 1 .. Len(secs[1].ops) : IsSetter(secs[1].ops[n]) /\ ~secs[1].ops[n].at_skip

LEMMA OneSidedPointers ==
  ASSUME NEW b, NEW acc, NEW closers, IsOneSided(b, acc, closers), NEW v,
         b.fits => \A r \in 0 .. b.np - 1 :
           /\ \A k \in 1 .. b.sizes : SetsUp(r, b.body[k][r + 1], v[r])
           /\ Hits(r, acc[r], v[r])
  PROVE  Aimed(b)
<1>1. ASSUME b.fits, NEW r \in 0 .. b.np - 1 PROVE PointsAt(b, r, v[r])
  <2>1. b.sizes \in Nat
    BY DEF IsOneSided
  <2>2. \A k \in 1 .. b.sizes : Sections(b, r, k) = b.body[k][r + 1]
    BY <2>1 DEF Sections
  <2>3. ASSUME NEW k \in 0 .. b.sizes + 1, NEW s \in 1 .. Len(Sections(b, r, k)),
               NEW n \in 1 .. Len(Sections(b, r, k)[s].ops)
        PROVE  Points(r, Sections(b, r, k)[s].ops[n], v[r])
    <3> DEFINE ops == Sections(b, r, k)[s].ops
    <3>1. CASE k \in 1 .. b.sizes /\ s = 1
      BY <1>1, <2>2, <3>1 DEF SetsUp
    <3>2. CASE Transfers(ops, acc[r], closers) \/ Free(ops)
      <4> HIDE DEF ops
      <4>1. n \in 1 .. Len(ops)
        BY DEF ops
      <4>2. ops[n].op \notin Setters
        BY <3>2, <4>1 DEF Transfers, IsTransfer, Free, Avoids
      <4>3. Points(r, ops[n], v[r])
        BY <4>2 DEF Points, Setters
      <4> QED BY <4>3 DEF ops
    <3> QED BY <3>1, <3>2, OneSidedSections
  <2>4. ASSUME NEW k \in 1 .. b.sizes
        PROVE  /\ ~Sections(b, r, k)[1].loop
               /\ \E n \in 1 .. Len(Sections(b, r, k)[1].ops) :
                    IsSetter(Sections(b, r, k)[1].ops[n]) /\ ~Sections(b, r, k)[1].ops[n].at_skip
    BY <1>1, <2>2 DEF SetsUp
  <2> QED BY <2>3, <2>4 DEF PointsAt
<1>2. ASSUME NEW r \in 0 .. b.np - 1, NEW k \in 0 .. b.sizes + 1,
             NEW s \in 1 .. Len(Sections(b, r, k)), NEW n \in 1 .. Len(Sections(b, r, k)[s].ops),
             Sections(b, r, k)[s].ops[n].op = "access"
      PROVE  /\ k \in 1 .. b.sizes
             /\ b.fits => s # 1 /\ \E w : PointsAt(b, r, w) /\ Hits(r, Sections(b, r, k)[s].ops[n], w)
  <2>0. DoesAt(b, k, s, Sections(b, r, k)[s].ops, acc[r])
    BY OneSidedAccess DEF OnlyDoes
  <2>1. k \in 1 .. b.sizes /\ s # 1 /\ Sections(b, r, k)[s].ops[n] = acc[r]
    BY <1>2, <2>0 DEF DoesAt
  <2>2. b.fits => PointsAt(b, r, v[r]) /\ Hits(r, acc[r], v[r])
    BY <1>1
  <2> QED BY <2>1, <2>2
<1> QED BY <1>2 DEF Aimed

\* Only rank 0 does anything to others, and only rank 0 measures.
OnlyRoot(b) ==
  /\ Avoids(b.start, {"access", "t_end"}) /\ Avoids(b.finish, {"access", "t_end"})
  /\ \A k \in 1 .. b.sizes : \A r \in 2 .. b.np : \A s \in 1 .. Len(b.body[k][r]) :
       Avoids(b.body[k][r][s].ops, {"access", "t_end"})

LEMMA RootAlone ==
  ASSUME NEW b, b.np \in Nat, b.sizes \in Nat, OnlyRoot(b), NEW q \in 1 .. b.np - 1
  PROVE  ~Stops(b, q) /\ \A t : ~Reaches(b, q, t)
<1>1. ASSUME NEW r \in 1 .. b.np - 1, NEW k \in 0 .. b.sizes + 1, NEW s \in 1 .. Len(Sections(b, r, k))
      PROVE  Avoids(Sections(b, r, k)[s].ops, {"access", "t_end"})
  <2>1. CASE k = 0
    <3>1. Sections(b, r, k) = <<Once(<<Check>> \o b.start)>>
      BY <2>1 DEF Sections
    <3>2. s = 1 /\ Sections(b, r, k)[s].ops = <<Check>> \o b.start
      BY <3>1 DEF Once
    <3>3. Avoids(<<Check>>, {"access", "t_end"})
      BY CallNames, ShortAvoids DEF Is
    <3> QED BY <3>2, <3>3, AvoidsJoined DEF OnlyRoot
  <2>2. CASE k = b.sizes + 1
    <3>0. PICK ops : ops = b.finish \o <<Finalize>>
      OBVIOUS
    <3>1. Sections(b, r, k) = <<Once(ops)>>
      BY <2>2, <3>0 DEF Sections
    <3>2. Len(Sections(b, r, k)) = 1 /\ Sections(b, r, k)[1] = Once(ops)
      BY <3>1
    <3>3. s = 1 /\ Sections(b, r, k)[s].ops = ops
      BY <3>2 DEF Once
    <3>4. Avoids(<<Finalize>>, {"access", "t_end"})
      BY CallNames, ShortAvoids DEF Is
    <3> QED BY <3>0, <3>3, <3>4, AvoidsJoined DEF OnlyRoot
  <2>3. CASE k \in 1 .. b.sizes
    <3>1. Sections(b, r, k) = b.body[k][r + 1] /\ r + 1 \in 2 .. b.np
      BY <2>3 DEF Sections
    <3> QED BY <2>3, <3>1 DEF OnlyRoot
  <2> QED BY <2>1, <2>2, <2>3
<1>2. ASSUME NEW r \in 1 .. b.np - 1, NEW k \in 0 .. b.sizes + 1,
             NEW s \in 1 .. Len(Sections(b, r, k)), NEW n \in 1 .. Len(Sections(b, r, k)[s].ops)
      PROVE  Sections(b, r, k)[s].ops[n].op \notin {"access", "t_end"}
  <2>1. Avoids(Sections(b, r, k)[s].ops, {"access", "t_end"})
    BY <1>1
  <2> QED BY <2>1 DEF Avoids
<1>3. ~Stops(b, q)
  BY <1>2 DEF Stops
<1>4. ASSUME NEW t PROVE ~Reaches(b, q, t)
  BY <1>2 DEF Reaches
<1> QED BY <1>3, <1>4

LEMMA RootTimes ==
  ASSUME NEW b, b.np \in Nat, b.sizes \in Nat, ReadsBetween(b), OnlyRoot(b)
  PROVE  TimesOneWay(b)
<1>1. ASSUME NEW r \in 0 .. b.np - 1, NEW q \in 0 .. b.np - 1, Stops(b, r), q # r
      PROVE  ~Reaches(b, q, r)
  <2>1. r = 0
    BY <1>1, RootAlone
  <2>2. q \in 1 .. b.np - 1
    BY <1>1, <2>1
  <2> QED BY <2>2, RootAlone
<1> QED BY <1>1 DEF TimesOneWay

-----------------------------------------------------------------------------
\* What Benchmark makes of the sections of each rank, each[k][r].
LEMMA RankBodies ==
  ASSUME NEW np \in Nat, NEW sizes \in Nat, NEW each,
         \A k \in 1 .. sizes : each[k] = [r \in 1 .. np |-> each[k][r]],
         NEW body, body = [k \in 1 .. sizes |-> each[k] \o <<>>] \o <<>>
  PROVE  \A k \in 1 .. sizes : \A r \in 1 .. np : body[k][r] = each[k][r]
<1>1. ASSUME NEW n \in Nat, NEW f, f = [i \in 1 .. n |-> f[i]]
      PROVE  \A i \in 1 .. n : (f \o <<>>)[i] = f[i]
  <2> DEFINE S == {f[i] : i \in 1 .. n}
  <2>1. \A i \in 1 .. n : f[i] \in S
    OBVIOUS
  <2> HIDE DEF S
  <2>2. f \in [1 .. n -> S]
    BY <1>1, <2>1
  <2>3. f \in Seq(S) /\ Len(f) = n
    BY <2>2
  <2> QED BY <2>3
<1> DEFINE all == [k \in 1 .. sizes |-> each[k] \o <<>>]
<1> TAKE k \in 1 .. sizes
<1> TAKE r \in 1 .. np
<1>2. (each[k] \o <<>>)[r] = each[k][r]
  BY <1>1
<1>3. all = [i \in 1 .. sizes |-> all[i]] /\ all[k] = each[k] \o <<>>
  OBVIOUS
<1>4. body[k] = each[k] \o <<>>
  <2> HIDE DEF all
  <2>1. (all \o <<>>)[k] = all[k]
    BY <1>1, <1>3
  <2>2. body = all \o <<>>
    BY DEF all
  <2> QED BY <1>3, <2>1, <2>2
<1> QED BY <1>2, <1>4

\* Sections after the first.
AreSections(secs, acc, closers) ==
  IsSequence(secs) /\ \A s \in 1 .. Len(secs) : IsSectionOf(secs[s].ops, acc, closers)

LEMMA SectionsJoined ==
  ASSUME NEW f, NEW g, NEW acc, NEW closers, AreSections(f, acc, closers), AreSections(g, acc, closers)
  PROVE  AreSections(f \o g, acc, closers)
<1>1. IsSequence(f) /\ IsSequence(g)
  BY DEF AreSections
<1>2. PICK h : h = f \o g
  OBVIOUS
<1>3. /\ IsSequence(h)
      /\ \A n \in 1 .. Len(h) : \/ n \in 1 .. Len(f) /\ h[n] = f[n]
                                \/ n - Len(f) \in 1 .. Len(g) /\ h[n] = g[n - Len(f)]
  BY <1>1, <1>2, Joined
<1>4. AreSections(h, acc, closers)
  <2> SUFFICES ASSUME NEW n \in 1 .. Len(h) PROVE IsSectionOf(h[n].ops, acc, closers)
    BY <1>3 DEF AreSections
  <2> QED BY <1>3 DEF AreSections
<1> QED BY <1>2, <1>4

LEMMA ShortSections ==
  ASSUME NEW acc, NEW closers
  PROVE  /\ AreSections(<<>>, acc, closers)
         /\ \A s : IsSectionOf(s.ops, acc, closers) => AreSections(<<s>>, acc, closers)
BY ShortSequences DEF AreSections

LEMMA StraightJoined ==
  ASSUME NEW f, NEW g, IsSequence(f), IsSequence(g), IsStraight(f) \/ IsStraight(g)
  PROVE  IsStraight(f \o g)
<1>1. PICK h : h = f \o g
  OBVIOUS
<1>2. /\ IsSequence(h) /\ Len(h) = Len(f) + Len(g) /\ Len(f) \in Nat /\ Len(g) \in Nat
      /\ \A n \in 1 .. Len(f) : h[n] = f[n]
      /\ \A n \in 1 .. Len(g) : h[Len(f) + n] = g[n]
  <2>1. Len(f) \in Nat /\ Len(g) \in Nat
    BY DEF IsSequence
  <2> QED BY <1>1, <2>1, Joined
<1>3. CASE IsStraight(f)
  <2>1. PICK n \in 1 .. Len(f) : ~f[n].at_skip
    BY <1>3 DEF IsStraight
  <2>2. n \in 1 .. Len(h) /\ h[n] = f[n]
    BY <1>2
  <2> QED BY <1>1, <1>2, <2>1, <2>2 DEF IsStraight
<1>4. CASE IsStraight(g)
  <2>1. PICK n \in 1 .. Len(g) : ~g[n].at_skip
    BY <1>4 DEF IsStraight
  <2>2. PICK m : m = Len(f) + n
    OBVIOUS
  <2>3. m \in 1 .. Len(h) /\ h[m] = g[n]
    BY <1>2, <2>2
  <2> QED BY <1>1, <1>2, <2>1, <2>3 DEF IsStraight
<1> QED BY <1>3, <1>4

LEMMA ShortStraight ==
  /\ \A o : ~o.at_skip => IsStraight(<<o>>)
  /\ \A o, p : ~o.at_skip \/ ~p.at_skip => IsStraight(<<o, p>>)
  /\ \A o, p, q : ~o.at_skip => IsStraight(<<o, p, q>>)
BY ShortSequences DEF IsStraight

\* The sections of a rank for a size, from what comes first and last.
IsBody(secs, acc, closers) ==
  /\ Len(secs) \in Nat \ {0}
  /\ IsStraight(secs[1].ops) /\ Avoids(secs[1].ops, {"access"})
  /\ \A s \in 2 .. Len(secs) : IsSectionOf(secs[s].ops, acc, closers)

LEMMA BodyIs ==
  ASSUME NEW first, NEW rest, NEW acc, NEW closers, IsStraight(first), Avoids(first, {"access"}),
         AreSections(rest, acc, closers)
  PROVE  /\ IsBody(<<Once(first)>> \o rest, acc, closers)
         /\ (<<Once(first)>> \o rest)[1] = Once(first)
<1>1. IsSequence(<<Once(first)>>) /\ Len(<<Once(first)>>) = 1 /\ <<Once(first)>>[1] = Once(first)
  BY ShortSequences
<1>2. PICK f, h : f = <<Once(first)>> /\ h = f \o rest
  OBVIOUS
<1>3. IsSequence(f) /\ Len(f) = 1 /\ f[1] = Once(first) /\ IsSequence(rest)
  BY <1>1, <1>2 DEF AreSections
<1>4. /\ IsSequence(h) /\ Len(h) = 1 + Len(rest) /\ Len(rest) \in Nat
      /\ \A n \in 1 .. Len(f) : h[n] = f[n]
      /\ \A n \in 1 .. Len(h) : \/ n \in 1 .. Len(f) /\ h[n] = f[n]
                                \/ n - Len(f) \in 1 .. Len(rest) /\ h[n] = rest[n - Len(f)]
  <2>1. Len(rest) \in Nat
    BY <1>3 DEF IsSequence
  <2>2. /\ IsSequence(h) /\ Len(h) = Len(f) + Len(rest)
        /\ \A n \in 1 .. Len(f) : h[n] = f[n]
        /\ \A n \in 1 .. Len(h) : \/ n \in 1 .. Len(f) /\ h[n] = f[n]
                                  \/ n - Len(f) \in 1 .. Len(rest) /\ h[n] = rest[n - Len(f)]
    <3>1. h = f \o rest
      BY <1>2
    <3> QED BY <1>3, <3>1, Joined
  <2> QED BY <1>3, <2>1, <2>2
<1>5. h[1] = Once(first) /\ h[1].ops = first
  <2>1. 1 \in 1 .. Len(f)
    BY <1>3
  <2>2. h[1] = Once(first)
    BY <1>3, <1>4, <2>1
  <2> QED BY <2>2 DEF Once
<1>6. ASSUME NEW s \in 2 .. Len(h) PROVE IsSectionOf(h[s].ops, acc, closers)
  <2>1. s \in 1 .. Len(h) /\ s \notin 1 .. Len(f)
    BY <1>3, <1>4
  <2>2. s - Len(f) \in 1 .. Len(rest) /\ h[s] = rest[s - Len(f)]
    BY <1>4, <2>1
  <2> QED BY <2>2 DEF AreSections
<1>7. IsBody(h, acc, closers)
  BY <1>4, <1>5, <1>6 DEF IsBody
<1> QED BY <1>2, <1>5, <1>7

-----------------------------------------------------------------------------
(***************************************************************************)
(* The MPI programs: what rank r does, and what ends it.                   *)
(***************************************************************************)
PeerOf(p, r) ==
  IF r = 0 THEN IF Sync(p) \in Active THEN 1 ELSE Target(p)
  ELSE IF Sync(p) \notin Active \/ p.program \in PingPong THEN 0 ELSE 1 - r

DoneBy(p, r) == Access(Operation(p.program), PeerOf(p, r), Displacement(p))

Closer(p) ==
  IF Sync(p) \in {"lock", "lock_all"} THEN "unlock"
  ELSE IF Sync(p) \in {"flush", "fence"} THEN "flush"
  ELSE IF Sync(p) = "pscw" THEN "complete" ELSE "flush_local"

LEMMA OperationsAre ==
  ASSUME NEW p, NEW t
  PROVE  IsRepeated(Operations(p, t), Access(Operation(p.program), t, Displacement(p)))
<1>1. WindowSizeLarge \in Nat /\ 1 \in Nat
  BY OmbOneSidedAssumption
<1>2. PICK w, o : /\ w = IF p.program \in Bandwidth THEN WindowSizeLarge ELSE 1
                  /\ o = Access(Operation(p.program), t, Displacement(p))
  OBVIOUS
<1>3. w \in Nat /\ Operations(p, t) = Window(w, o)
  BY <1>1, <1>2 DEF Operations
<1> QED BY <1>2, <1>3, WindowIs DEF IsRepeated

LEMMA LoadsOf ==
  ASSUME NEW p, NEW r, NEW f, Free(f)
  PROVE  /\ Loads(f \o Operations(p, PeerOf(p, r)), DoneBy(p, r))
         /\ Loads(Operations(p, PeerOf(p, r)), DoneBy(p, r))
<1>1. DoneBy(p, r).op = "access"
  BY AccessIs DEF DoneBy, IsAccess, Is
<1>2. IsRepeated(Operations(p, PeerOf(p, r)), DoneBy(p, r))
  BY OperationsAre DEF DoneBy
<1> QED BY <1>1, <1>2, LoadsAfter, LoadsAtOnce

LEMMA Fences ==
  /\ Neutral(Fence) /\ IsStraight(Fence) /\ 1 \in 1 .. Len(Fence)
  /\ Fence[1].op = "flush" /\ ~Fence[1].at_skip
  /\ Neutral(TimedFence) /\ IsStraight(TimedFence) /\ 1 \in 1 .. Len(TimedFence)
  /\ TimedFence[1].op = "flush" /\ ~TimedFence[1].at_skip
<1>1. /\ Flush.op = "flush" /\ ~Flush.at_skip
      /\ Call("fence").op = "call" /\ ~Call("fence").at_skip
      /\ Measured(Call("fence")).op = "call" /\ ~Measured(Call("fence")).at_skip
  BY CallNames, MeasuredNames DEF Is
<1>2. Neutral(Fence) /\ Neutral(TimedFence)
  BY <1>1, ShortAvoids DEF Neutral, Fence, TimedFence, Setters, Timers
<1>3. IsStraight(Fence) /\ IsStraight(TimedFence)
  BY <1>1, ShortStraight DEF Fence, TimedFence
<1>4. Len(Fence) = 2 /\ Fence[1] = Flush /\ Len(TimedFence) = 2 /\ TimedFence[1] = Flush
  BY ShortSequences DEF Fence, TimedFence
<1> QED BY <1>1, <1>2, <1>3, <1>4

LEMMA PlainIsFree ==
  ASSUME NEW ops, Neutral(ops)
  PROVE  Free(ops)
BY DEF Neutral, Free, Avoids

\* One completing statement after the operations.
LEMMA ClosedBy ==
  ASSUME NEW f, NEW acc, NEW closers, Loads(f, acc), NEW o, Is(o, o.op),
         o.op \in closers \cap {"unlock", "flush", "flush_local", "complete"}
  PROVE  Transfers(f \o <<o>>, acc, closers)
<1>1. Neutral(<<o>>)
  BY ShortAvoids DEF Neutral, Setters, Timers
<1>2. 1 \in 1 .. Len(<<o>>) /\ <<o>>[1].op \in closers /\ ~<<o>>[1].at_skip
  BY ShortSequences DEF Is
<1> QED BY <1>1, <1>2, TransfersOver

LEMMA LockedLoopIs ==
  ASSUME NEW p, Sync(p) \in {"flush", "flush_local", "wait"}
  PROVE  AreSections(LockedLoop(p), DoneBy(p, 0), {Closer(p)})
<1> DEFINE first == <<Lock>>
           loop == <<AtSkip(TStart)>> \o Operations(p, Target(p)) \o <<Measured(FlushOf(p))>>
           last == <<TEnd, Unlock>>
<1>1. PeerOf(p, 0) = Target(p)
  BY DEF PeerOf, Active
<1>2. IsStraight(first) /\ Free(first) /\ IsStraight(last) /\ Free(last)
  BY CallNames, ShortAvoids, ShortStraight DEF Is, Free, Setters
<1>3. Free(<<AtSkip(TStart)>>)
  BY GuardedNames, ShortAvoids DEF IsAtSkip, Free, Setters
<1>4. Is(Measured(FlushOf(p)), Closer(p)) /\ Closer(p) \in {"flush", "flush_local"}
  BY MeasuredNames DEF FlushOf, Closer
<1>5. Transfers(loop, DoneBy(p, 0), {Closer(p)})
  <2>1. Loads(<<AtSkip(TStart)>> \o Operations(p, Target(p)), DoneBy(p, 0))
    BY <1>1, <1>3, LoadsOf
  <2>2. Measured(FlushOf(p)).op = Closer(p)
    BY <1>4 DEF Is
  <2> QED BY <1>4, <2>1, <2>2, ClosedBy
<1> HIDE DEF first, loop, last
<1>6. PICK A, B, C : A = Once(first) /\ B = Loop(loop) /\ C = Once(last)
  OBVIOUS
<1>7. A.ops = first /\ B.ops = loop /\ C.ops = last
  BY <1>6 DEF Once, Loop
<1>8. LockedLoop(p) = <<A, B, C>>
  BY <1>6 DEF LockedLoop, first, loop, last
<1> QED BY <1>2, <1>5, <1>7, <1>8, ShortSequences DEF AreSections, IsSectionOf

LEMMA LockingLoopIs ==
  ASSUME NEW p, Sync(p) \in {"lock", "lock_all"}
  PROVE  AreSections(LockingLoop(p), DoneBy(p, 0), {Closer(p)})
<1> DEFINE loop == <<AtSkip(TStart), Lock>> \o Operations(p, Target(p)) \o <<Measured(Unlock)>>
           last == <<TEnd>>
<1>1. PeerOf(p, 0) = Target(p)
  BY DEF PeerOf, Active
<1>2. IsStraight(last) /\ Free(last)
  BY CallNames, ShortAvoids, ShortStraight DEF Is, Free, Setters
<1>3. Free(<<AtSkip(TStart), Lock>>)
  BY GuardedNames, CallNames, ShortAvoids DEF IsAtSkip, Is, Free, Setters
<1>4. Is(Measured(Unlock), Closer(p)) /\ Closer(p) = "unlock"
  BY MeasuredNames DEF Closer
<1>5. Transfers(loop, DoneBy(p, 0), {Closer(p)})
  <2>1. Loads(<<AtSkip(TStart), Lock>> \o Operations(p, Target(p)), DoneBy(p, 0))
    BY <1>1, <1>3, LoadsOf
  <2>2. Measured(Unlock).op = Closer(p)
    BY <1>4 DEF Is
  <2> QED BY <1>4, <2>1, <2>2, ClosedBy
<1> HIDE DEF loop, last
<1>6. PICK B, C : B = Loop(loop) /\ C = Once(last)
  OBVIOUS
<1>7. B.ops = loop /\ C.ops = last
  BY <1>6 DEF Once, Loop
<1>8. LockingLoop(p) = <<B, C>>
  BY <1>6 DEF LockingLoop, loop, last
<1> QED BY <1>2, <1>5, <1>7, <1>8, ShortSequences DEF AreSections, IsSectionOf

LEMMA FencesAre ==
  ASSUME NEW p, NEW r, Sync(p) = "fence"
  PROVE  /\ p.program \in PingPong =>
              IsSectionOf(FencesBackAndForth(p, r), DoneBy(p, r), {Closer(p)})
         /\ p.program \notin PingPong =>
              IsSectionOf(FencesOneWay(p, r), DoneBy(p, r), {Closer(p)})
<1>1. Closer(p) = "flush" /\ Sync(p) \in Active
  BY DEF Closer, Active
<1>2. Free(<<>>) /\ Free(<<AtSkip(TStart)>>)
  BY GuardedNames, ShortAvoids DEF IsAtSkip, Free, Setters
<1>3. Free(Fence)
  BY Fences, PlainIsFree
<1>4. ASSUME NEW f, Loads(f, DoneBy(p, r)) PROVE Transfers(f \o Fence, DoneBy(p, r), {Closer(p)})
  BY <1>1, <1>4, Fences, TransfersOver
<1>5. ASSUME NEW f, Loads(f, DoneBy(p, r)) PROVE Transfers(f \o TimedFence, DoneBy(p, r), {Closer(p)})
  BY <1>1, <1>5, Fences, TransfersOver
<1>6. ASSUME p.program \in PingPong
      PROVE  Transfers(FencesBackAndForth(p, r), DoneBy(p, r), {Closer(p)})
  <2>1. CASE r = 0
    <3>1. PeerOf(p, r) = 1
      BY <1>1, <2>1 DEF PeerOf
    <3>2. Free(<<AtSkip(TStart)>> \o Fence)
      BY <1>2, <1>3, AvoidsJoined DEF Free
    <3>3. Loads(<<AtSkip(TStart)>> \o Fence \o Operations(p, 1), DoneBy(p, r))
      BY <3>1, <3>2, LoadsOf
    <3>4. Transfers(<<AtSkip(TStart)>> \o Fence \o Operations(p, 1) \o Fence, DoneBy(p, r), {Closer(p)})
      BY <1>4, <3>3
    <3>5. Transfers(<<AtSkip(TStart)>> \o Fence \o Operations(p, 1) \o Fence \o TimedFence,
                    DoneBy(p, r), {Closer(p)})
      BY <3>4, Fences, TransfersBefore
    <3> QED BY <2>1, <3>5 DEF FencesBackAndForth
  <2>2. CASE r # 0
    <3>1. PeerOf(p, r) = 0
      BY <1>1, <1>6, <2>2 DEF PeerOf
    <3>2. Free(Fence \o Fence)
      BY <1>3, AvoidsJoined DEF Free
    <3>3. Loads(Fence \o Fence \o Operations(p, 0), DoneBy(p, r))
      BY <3>1, <3>2, LoadsOf
    <3>4. Transfers(Fence \o Fence \o Operations(p, 0) \o Fence, DoneBy(p, r), {Closer(p)})
      BY <1>4, <3>3
    <3> QED BY <2>2, <3>4 DEF FencesBackAndForth
  <2> QED BY <2>1, <2>2
<1>7. ASSUME p.program \notin PingPong
      PROVE  IsSectionOf(FencesOneWay(p, r), DoneBy(p, r), {Closer(p)})
  <2> DEFINE before == Only(r = 0, <<AtSkip(TStart)>>) \o Fence
  <2>1. Free(Only(r = 0, <<AtSkip(TStart)>>))
    BY <1>2 DEF Only
  <2>2. Free(before) /\ IsStraight(before)
    <3>1. IsSequence(Only(r = 0, <<AtSkip(TStart)>>)) /\ IsSequence(Fence)
      BY <1>3, <2>1 DEF Free, Avoids
    <3> QED BY <1>3, <2>1, <3>1, Fences, AvoidsJoined, StraightJoined DEF Free
  <2> HIDE DEF before
  <2>3. CASE r = 0 \/ p.program = "osu_put_bibw"
    <3>1. PeerOf(p, r) = 1 - r
      BY <1>1, <1>7, <2>3 DEF PeerOf
    <3>2. Only(r = 0 \/ p.program = "osu_put_bibw", Operations(p, 1 - r)) = Operations(p, PeerOf(p, r))
      BY <2>3, <3>1 DEF Only
    <3>3. Transfers(before \o Operations(p, PeerOf(p, r)) \o TimedFence, DoneBy(p, r), {Closer(p)})
      BY <1>5, <2>2, LoadsOf
    <3> QED BY <3>2, <3>3 DEF FencesOneWay, IsSectionOf, before
  <2>4. CASE ~(r = 0 \/ p.program = "osu_put_bibw")
    <3>1. Only(r = 0 \/ p.program = "osu_put_bibw", Operations(p, 1 - r)) = <<>>
      BY <2>4 DEF Only
    <3>2. Free(before \o <<>>) /\ IsSequence(before \o <<>>)
      BY <1>2, <2>2, AvoidsJoined DEF Free, Avoids
    <3>3. Free(before \o <<>> \o TimedFence)
      BY <3>2, Fences, PlainIsFree, AvoidsJoined DEF Free
    <3>4. IsStraight(before \o <<>> \o TimedFence)
      <4>1. IsSequence(TimedFence)
        BY Fences DEF IsStraight
      <4> QED BY <3>2, <4>1, Fences, StraightJoined
    <3> QED BY <3>1, <3>3, <3>4 DEF FencesOneWay, IsSectionOf, before
  <2> QED BY <2>3, <2>4
<1> QED BY <1>6, <1>7 DEF IsSectionOf

LEMMA EpochsAre ==
  ASSUME NEW p, NEW r, Sync(p) = "pscw"
  PROVE  IsSectionOf(ActiveIteration(p, r), DoneBy(p, r), {Closer(p)})
<1>1. Closer(p) = "complete" /\ Sync(p) \in Active
  BY DEF Closer, Active
<1>2. /\ EndEpoch.op = "complete" /\ Is(EndEpoch, "complete")
      /\ Measured(EndEpoch).op = "complete" /\ Is(Measured(EndEpoch), "complete")
  BY CallNames, MeasuredNames DEF Is
<1>3. /\ Free(<<>>) /\ Free(<<AtSkip(TStart)>>) /\ Free(<<WinStart(1), AtSkip(TStart)>>)
      /\ Free(<<Post, WinWait, WinStart(0)>>) /\ Free(<<Post, WinStart(1 - r)>>)
      /\ Free(<<Post, WinWait>>) /\ IsStraight(<<Post, WinWait>>)
  BY CallNames, GuardedNames, ShortAvoids, ShortStraight DEF Is, IsAtSkip, Free, Setters
<1>4. Neutral(<<Post, Measured(WinWait)>>) /\ Neutral(<<Measured(WinWait)>>)
  BY CallNames, MeasuredNames, ShortAvoids DEF Is, Neutral, Setters, Timers
<1>5. Transfers(Operations(p, PeerOf(p, r)) \o <<EndEpoch>>, DoneBy(p, r), {Closer(p)})
  BY <1>1, <1>2, <1>3, LoadsOf, ClosedBy
<1>6. ASSUME NEW f, Free(f)
      PROVE  Transfers(f \o (Operations(p, PeerOf(p, r)) \o <<EndEpoch>>), DoneBy(p, r), {Closer(p)})
  BY <1>5, <1>6, TransfersLater
<1>7. ASSUME p.program \in PingPong
      PROVE  IsSectionOf(EpochsBackAndForth(p, r), DoneBy(p, r), {Closer(p)})
  <2>1. CASE r = 0
    <3>1. PeerOf(p, r) = 1 - 0
      BY <1>1, <2>1 DEF PeerOf
    <3>2. AccessEpoch(p, 0) = Operations(p, PeerOf(p, r)) \o <<EndEpoch>>
      BY <3>1 DEF AccessEpoch
    <3>3. Transfers(<<WinStart(1), AtSkip(TStart)>> \o AccessEpoch(p, 0), DoneBy(p, r), {Closer(p)})
      BY <1>3, <1>6, <3>2
    <3>4. Transfers(<<WinStart(1), AtSkip(TStart)>> \o AccessEpoch(p, 0) \o <<Post, Measured(WinWait)>>,
                    DoneBy(p, r), {Closer(p)})
      BY <1>4, <3>3, TransfersBefore
    <3> QED BY <2>1, <3>4 DEF EpochsBackAndForth, IsSectionOf
  <2>2. CASE r # 0
    <3>1. PeerOf(p, r) = 1 - 1
      BY <1>1, <1>7, <2>2 DEF PeerOf
    <3>2. AccessEpoch(p, 1) = Operations(p, PeerOf(p, r)) \o <<EndEpoch>>
      BY <3>1 DEF AccessEpoch
    <3>3. Transfers(<<Post, WinWait, WinStart(0)>> \o AccessEpoch(p, 1), DoneBy(p, r), {Closer(p)})
      BY <1>3, <1>6, <3>2
    <3> QED BY <2>2, <3>3 DEF EpochsBackAndForth, IsSectionOf
  <2> QED BY <2>1, <2>2
<1>8. ASSUME p.program \notin PingPong
      PROVE  IsSectionOf(EpochsBothWays(p, r), DoneBy(p, r), {Closer(p)})
  <2>1. PeerOf(p, r) = 1 - r
    BY <1>1, <1>8 DEF PeerOf
  <2>2. AccessEpoch(p, r) = Operations(p, PeerOf(p, r)) \o <<EndEpoch>>
    BY <2>1 DEF AccessEpoch
  <2>3. Free(Only(r = 0, <<AtSkip(TStart)>>))
    BY <1>3 DEF Only
  <2>4. Free(Only(r = 0, <<AtSkip(TStart)>>) \o <<Post, WinStart(1 - r)>>)
    BY <1>3, <2>3, AvoidsJoined DEF Free
  <2>5. Transfers(Only(r = 0, <<AtSkip(TStart)>>) \o <<Post, WinStart(1 - r)>> \o AccessEpoch(p, r),
                  DoneBy(p, r), {Closer(p)})
    BY <1>6, <2>2, <2>4
  <2>6. Transfers(Only(r = 0, <<AtSkip(TStart)>>) \o <<Post, WinStart(1 - r)>> \o AccessEpoch(p, r)
                    \o <<Measured(WinWait)>>, DoneBy(p, r), {Closer(p)})
    BY <1>4, <2>5, TransfersBefore
  <2> QED BY <2>6 DEF EpochsBothWays, IsSectionOf
<1>9. IsSectionOf(EpochsOneWay(p, r), DoneBy(p, r), {Closer(p)})
  <2>1. CASE r = 0
    <3>1. PeerOf(p, r) = 1
      BY <1>1, <2>1 DEF PeerOf
    <3>2. Loads(<<WinStart(1), AtSkip(TStart)>> \o Operations(p, 1), DoneBy(p, r))
      BY <1>3, <3>1, LoadsOf
    <3>3. Transfers(<<WinStart(1), AtSkip(TStart)>> \o Operations(p, 1) \o <<Measured(EndEpoch)>>,
                    DoneBy(p, r), {Closer(p)})
      BY <1>1, <1>2, <3>2, ClosedBy
    <3> QED BY <2>1, <3>3 DEF EpochsOneWay, IsSectionOf
  <2>2. CASE r # 0
    BY <1>3, <2>2 DEF EpochsOneWay, IsSectionOf
  <2> QED BY <2>1, <2>2
<1>10. "osu_put_bibw" \notin PingPong
  BY DEF PingPong, Atomic
<1>11. ActiveIteration(p, r) =
         IF p.program \in PingPong THEN EpochsBackAndForth(p, r)
         ELSE IF p.program = "osu_put_bibw" THEN EpochsBothWays(p, r) ELSE EpochsOneWay(p, r)
  BY <1>10 DEF ActiveIteration
<1> QED BY <1>7, <1>8, <1>9, <1>11

\* What a rank does between the preparation of a size and its end.
LEMMA WorkIs ==
  ASSUME NEW p, NEW r
  PROVE  AreSections(Work(p, r), DoneBy(p, r), {Closer(p)})
<1>1. CASE Sync(p) \in Active
  <2>1. ASSUME Sync(p) = "fence" PROVE IsSectionOf(ActiveIteration(p, r), DoneBy(p, r), {Closer(p)})
    <3>1. ActiveIteration(p, r) =
            IF p.program \in PingPong THEN FencesBackAndForth(p, r) ELSE FencesOneWay(p, r)
      BY <2>1 DEF ActiveIteration
    <3> QED BY <2>1, <3>1, FencesAre
  <2>2. ASSUME Sync(p) = "pscw" PROVE IsSectionOf(ActiveIteration(p, r), DoneBy(p, r), {Closer(p)})
    BY <2>2, EpochsAre
  <2>3. PICK A, B : A = Loop(ActiveIteration(p, r)) /\ B = Once(<<TEnd>>)
    OBVIOUS
  <2>4. A.ops = ActiveIteration(p, r) /\ B.ops = <<TEnd>>
    BY <2>3 DEF Once, Loop
  <2>5. IsSectionOf(<<TEnd>>, DoneBy(p, r), {Closer(p)})
    BY CallNames, ShortAvoids, ShortStraight DEF Is, Free, Setters, IsSectionOf
  <2>6. IsSectionOf(ActiveIteration(p, r), DoneBy(p, r), {Closer(p)})
    BY <1>1, <2>1, <2>2 DEF Active
  <2>7. AreSections(<<A>>, DoneBy(p, r), {Closer(p)}) /\ AreSections(Only(r = 0, <<B>>), DoneBy(p, r), {Closer(p)})
    BY <2>4, <2>5, <2>6, ShortSections DEF Only
  <2>8. AreSections(<<A>> \o Only(r = 0, <<B>>), DoneBy(p, r), {Closer(p)})
    BY <2>7, SectionsJoined
  <2> QED BY <1>1, <2>3, <2>8 DEF Work
<1>2. CASE Sync(p) \notin Active /\ r # 0
  BY <1>2, ShortSections DEF Work
<1>3. CASE Sync(p) \notin Active /\ r = 0
  <2>1. Sync(p) \in {"lock", "lock_all", "flush", "flush_local", "wait"}
    BY <1>3 DEF Sync, Supported, Active
  <2> QED BY <1>3, <2>1, LockedLoopIs, LockingLoopIs DEF Work
<1> QED BY <1>1, <1>2, <1>3

-----------------------------------------------------------------------------
\* The first section of size k: allocate_memory and the barriers around it.
Preparation(p, k, r) ==
  Header(p, k, r) \o Window(BarriersBefore(p), Barrier) \o Allocate(p, r)
    \o Only(p.program \notin Atomic, <<SetIfLarge(k)>>) \o Window(BarriersAfter(p), Barrier)

LEMMA BarriersAre ==
  ASSUME NEW p
  PROVE  BarriersBefore(p) \in Nat /\ BarriersAfter(p) \in Nat
<1>1. p.program = "osu_fop_latency" => BarriersBefore(p) \in Nat /\ BarriersAfter(p) \in Nat
  BY DEF BarriersBefore, BarriersAfter
<1>2. p.program = "osu_cas_latency" => BarriersBefore(p) \in Nat /\ BarriersAfter(p) \in Nat
  BY DEF BarriersBefore, BarriersAfter
<1>3. p.program \notin Atomic => BarriersBefore(p) = 0
  BY DEF BarriersBefore, Atomic
<1>4. p.program = "osu_get_acc_latency" => BarriersAfter(p) \in Nat
  BY DEF BarriersAfter
<1>5. p.program \notin Atomic /\ p.program # "osu_get_acc_latency" => BarriersAfter(p) \in Nat
  BY DEF BarriersAfter, Atomic
<1> QED BY <1>1, <1>2, <1>3, <1>4, <1>5 DEF Atomic

LEMMA WindowAvoids ==
  ASSUME NEW w \in Nat, NEW o, NEW S, o.op \notin S
  PROVE  Avoids(Window(w, o), S)
BY WindowIs DEF Avoids

LEMMA MessagesAvoid ==
  ASSUME NEW S, S \cap {"isend", "irecv", "waitsends", "waitrecvs"} = {},
         NEW peer, NEW tag, NEW kind
  PROVE  Avoids(Send(peer, tag, kind), S) /\ Avoids(Recv(peer, tag, kind), S)
BY CallNames, ShortAvoids DEF Is, Send, Recv

\* The statements of Allocate: those before the window, the window, and those
\* that set up the displacements in a dynamic one.
Displaces(p, r) ==
  Only(p.win = "dynamic",
       IF p.program \in Atomic \cup {"osu_get_acc_latency"} THEN ExchangeAddresses(r)
       ELSE <<Call("allgather"), Table>>)

\* What a size is prepared with.
Preparing ==
  {"isend", "irecv", "waitsends", "waitrecvs", "address", "call", "touch", "options", "table"}

LEMMA ExchangeAvoids ==
  ASSUME NEW r, NEW S, S \cap Preparing = {}
  PROVE  Avoids(ExchangeAddresses(r), S)
<1> DEFINE keep(q) == <<[Do("address", "") EXCEPT !.peer = q]>>
<1>1. "address" \notin S /\ S \cap {"isend", "irecv", "waitsends", "waitrecvs"} = {}
  BY DEF Preparing
<1>2. \A q : Avoids(keep(q), S)
  <2> TAKE q
  <2>1. [Do("address", "") EXCEPT !.peer = q].op = "address"
    BY DEF Do
  <2> QED BY <1>1, <2>1, ShortAvoids
<1>3. \A q, tag : Avoids(RecvAddress(q, tag), S)
  <2> TAKE q, tag
  <2>1. RecvAddress(q, tag) = Recv(q, tag, "address") \o keep(q)
    BY DEF RecvAddress
  <2>2. Avoids(Recv(q, tag, "address"), S)
    BY <1>1, MessagesAvoid
  <2> QED BY <1>2, <2>1, <2>2, AvoidsJoined
<1>4. \A q, tag : Avoids(Send(q, tag, "address"), S)
  BY <1>1, MessagesAvoid
<1> QED BY <1>3, <1>4, AvoidsJoined DEF ExchangeAddresses

LEMMA PreparationAvoids ==
  ASSUME NEW p, NEW k, NEW r, NEW S, S \cap Preparing = {}
  PROVE  IsStraight(Preparation(p, k, r)) /\ Avoids(Preparation(p, k, r), S)
<1> DEFINE create == Only(p.program # "osu_get_acc_latency", <<Touch>>) \o <<Call("win_create")>>
           before == Header(p, k, r) \o Window(BarriersBefore(p), Barrier)
           large == Only(p.program \notin Atomic, <<SetIfLarge(k)>>)
           after == Window(BarriersAfter(p), Barrier)
<1>0. /\ "call" \notin S /\ "touch" \notin S /\ "options" \notin S /\ "table" \notin S
      /\ S \cap {"isend", "irecv", "waitsends", "waitrecvs"} = {}
  BY DEF Preparing
<1>1. Avoids(before, S)
  <2>1. Avoids(<<>>, S)
    BY ShortAvoids
  <2>2. \A q, kind : Avoids(Send(q, 10, kind), S) /\ Avoids(Recv(q, 10, kind), S)
    BY <1>0, MessagesAvoid
  <2>3. Avoids(Header(p, k, r), S)
    BY <2>1, <2>2, AvoidsJoined DEF Header, Only
  <2>4. Avoids(Window(BarriersBefore(p), Barrier), S)
    BY <1>0, BarriersAre, CallNames, WindowAvoids DEF Is
  <2> QED BY <2>3, <2>4, AvoidsJoined
<1>2. Avoids(large, S) /\ Avoids(after, S)
  BY <1>0, BarriersAre, CallNames, WindowAvoids, ShortAvoids DEF Is, Only
<1>3. Avoids(create, S) /\ IsStraight(create)
  <2>1. Avoids(<<Call("win_create")>>, S) /\ IsStraight(<<Call("win_create")>>)
    BY <1>0, CallNames, ShortAvoids, ShortStraight DEF Is
  <2>2. Avoids(Only(p.program # "osu_get_acc_latency", <<Touch>>), S)
    BY <1>0, CallNames, ShortAvoids DEF Is, Only
  <2> QED BY <2>1, <2>2, AvoidsJoined, StraightJoined DEF Avoids
<1>4. Avoids(Displaces(p, r), S)
  <2>1. Avoids(<<>>, S) /\ Avoids(<<Call("allgather"), Table>>, S)
    BY <1>0, CallNames, ShortAvoids DEF Is
  <2> QED BY <2>1, ExchangeAvoids DEF Displaces, Only
<1>5. Allocate(p, r) = create \o Displaces(p, r)
  BY DEF Allocate, Displaces
<1>6. Preparation(p, k, r) = before \o Allocate(p, r) \o large \o after
  BY DEF Preparation
<1> HIDE DEF create, before, large, after
<1>7. Avoids(Allocate(p, r), S) /\ IsStraight(Allocate(p, r))
  BY <1>3, <1>4, <1>5, AvoidsJoined, StraightJoined DEF Avoids
<1>8. Avoids(before \o Allocate(p, r), S) /\ IsStraight(before \o Allocate(p, r))
  BY <1>1, <1>7, AvoidsJoined, StraightJoined DEF Avoids
<1>9. Avoids(before \o Allocate(p, r) \o large, S) /\ IsStraight(before \o Allocate(p, r) \o large)
  BY <1>2, <1>8, AvoidsJoined, StraightJoined DEF Avoids
<1> QED BY <1>2, <1>6, <1>9, AvoidsJoined, StraightJoined DEF Avoids

LEMMA PreparationIs ==
  ASSUME NEW p, NEW k, NEW r
  PROVE  IsStraight(Preparation(p, k, r)) /\ Avoids(Preparation(p, k, r), {"access", "t_end"})
<1>1. {"access", "t_end"} \cap Preparing = {}
  BY DEF Preparing
<1> QED BY <1>1, PreparationAvoids

\* What rank r does for size k, and all the sizes.
SizeOf(p, k, r) ==
  <<Once(Preparation(p, k, r))>> \o Work(p, r) \o <<Once(Release(r))>>

NumSizesOf(p) == IF p.program \in Atomic THEN 1 ELSE NumSizes

LEMMA SizesAre ==
  ASSUME NEW p
  PROVE  NumSizesOf(p) \in Nat
BY OmbOpsAssumption DEF NumSizesOf

LEMMA OneSidedRecord ==
  ASSUME NEW p, p.np \in Nat \ {0}
  PROVE  LET b == OneSided(p)
         IN  /\ b.program = p.program /\ b.sync = p.sync /\ b.win = p.win /\ b.np = p.np
             /\ b.sizes = NumSizesOf(p) /\ b.start = <<>> /\ b.finish = <<>>
             /\ b.fits = (p.program \in Latency \/ p.np = 2)
             /\ \A k \in 1 .. b.sizes : \A r \in 1 .. b.np : b.body[k][r] = SizeOf(p, k, r - 1)
<1> DEFINE each == [k \in 1 .. NumSizesOf(p) |-> [r \in 1 .. p.np |-> SizeOf(p, k, r - 1)]]
           all == [k \in 1 .. NumSizesOf(p) |-> each[k] \o <<>>] \o <<>>
<1>1. PICK bodies : bodies = [k \in 1 .. NumSizesOf(p) |->
        [r \in 1 .. p.np |-> SizeOf(p, k, r - 1)] \o <<>>] \o <<>>
  OBVIOUS
<1>1a. PICK fits : fits = (p.program \in Latency \/ p.np = 2)
  OBVIOUS
<1>2. OneSided(p) = [program |-> p.program, sync |-> p.sync, win |-> p.win, np |-> p.np,
                     fits |-> fits, sizes |-> NumSizesOf(p),
                     start |-> <<>>, finish |-> <<>>, body |-> bodies]
  BY <1>1, <1>1a, Zenon DEF OneSided, Benchmark, SizeOf, Preparation, NumSizesOf
<1>3. bodies = all
  BY <1>1, Zenon
<1>4. \A k \in 1 .. NumSizesOf(p) : \A r \in 1 .. p.np : bodies[k][r] = each[k][r]
  <2>1. \A k \in 1 .. NumSizesOf(p) : each[k] = [r \in 1 .. p.np |-> each[k][r]]
    OBVIOUS
  <2> HIDE DEF each
  <2> QED BY <1>3, <2>1, SizesAre, RankBodies
<1>5. PICK b : b = OneSided(p)
  OBVIOUS
<1>6. /\ b.program = p.program /\ b.sync = p.sync /\ b.win = p.win /\ b.np = p.np
      /\ b.sizes = NumSizesOf(p) /\ b.start = <<>> /\ b.finish = <<>> /\ b.body = bodies
  BY <1>2, <1>5
<1>7. b.fits = (p.program \in Latency \/ p.np = 2)
  <2>1. b.fits = fits
    BY <1>2, <1>5
  <2> QED BY <1>1a, <2>1
<1>8. \A k \in 1 .. NumSizesOf(p) : \A r \in 1 .. p.np : bodies[k][r] = SizeOf(p, k, r - 1)
  BY <1>4
<1>9. \A k \in 1 .. b.sizes : \A r \in 1 .. b.np : b.body[k][r] = SizeOf(p, k, r - 1)
  BY <1>6, <1>8
<1> QED BY <1>5, <1>6, <1>7, <1>9

LEMMA ReleaseAvoids ==
  ASSUME NEW r, NEW S, S \cap {"call", "report"} = {}
  PROVE  Avoids(Release(r), S) /\ IsStraight(Release(r))
<1>1. /\ Avoids(<<Barrier>>, S) /\ IsStraight(<<Barrier>>) /\ Avoids(<<Report>>, S) /\ Avoids(<<>>, S)
      /\ Avoids(<<Call("win_free")>>, S)
  BY CallNames, ShortAvoids, ShortStraight DEF Is
<1>2. Avoids(Only(r = 0, <<Report>>), S)
  BY <1>1 DEF Only
<1>3. Avoids(<<Barrier>> \o Only(r = 0, <<Report>>), S) /\ IsStraight(<<Barrier>> \o Only(r = 0, <<Report>>))
  BY <1>1, <1>2, AvoidsJoined, StraightJoined DEF Avoids
<1> QED BY <1>1, <1>3, AvoidsJoined, StraightJoined DEF Avoids, Release

LEMMA ReleaseIs ==
  ASSUME NEW r
  PROVE  Free(Release(r)) /\ Avoids(Release(r), {"access", "t_end"}) /\ IsStraight(Release(r))
<1>1. ({"access", "t_end"} \cup Setters) \cap {"call", "report"} = {}
  BY DEF Setters
<1>2. Avoids(Release(r), {"access", "t_end"} \cup Setters) /\ IsStraight(Release(r))
  BY <1>1, ReleaseAvoids
<1> QED BY <1>2, AvoidsLess DEF Free

LEMMA SizeIs ==
  ASSUME NEW p, NEW k, NEW r
  PROVE  /\ IsBody(SizeOf(p, k, r), DoneBy(p, r), {Closer(p)})
         /\ SizeOf(p, k, r)[1] = Once(Preparation(p, k, r))
<1>1. PICK rest, last : last = Once(Release(r)) /\ rest = Work(p, r) \o <<last>>
  OBVIOUS
<1>2. last.ops = Release(r)
  BY <1>1 DEF Once
<1>3. AreSections(<<last>>, DoneBy(p, r), {Closer(p)})
  BY <1>2, ReleaseIs, ShortSections DEF IsSectionOf
<1>4. AreSections(rest, DoneBy(p, r), {Closer(p)})
  BY <1>1, <1>3, WorkIs, SectionsJoined
<1>5. Avoids(Preparation(p, k, r), {"access"})
  BY PreparationIs, AvoidsLess
<1>6. SizeOf(p, k, r) = <<Once(Preparation(p, k, r))>> \o rest
  <2>1. PICK f, g, h : f = <<Once(Preparation(p, k, r))>> /\ g = Work(p, r) /\ h = <<last>>
    OBVIOUS
  <2>2. IsSequence(f) /\ IsSequence(g) /\ IsSequence(h)
    BY <1>3, <2>1, WorkIs, ShortSequences DEF AreSections
  <2>3. (f \o g) \o h = f \o (g \o h)
    BY <2>2 DEF IsSequence
  <2>4. SizeOf(p, k, r) = (f \o g) \o h
    BY <1>1, <2>1 DEF SizeOf
  <2> QED BY <1>1, <2>1, <2>3, <2>4
<1> QED BY <1>4, <1>5, <1>6, PreparationIs, BodyIs

Does(p) == [r \in 0 .. p.np - 1 |-> DoneBy(p, r)]

LEMMA OneSidedIs ==
  ASSUME NEW p, p.np \in Nat \ {0}
  PROVE  IsOneSided(OneSided(p), Does(p), {Closer(p)})
<1>1. PICK b : b = OneSided(p)
  OBVIOUS
<1>2. /\ b.np = p.np /\ b.sizes = NumSizesOf(p) /\ b.start = <<>> /\ b.finish = <<>>
      /\ \A k \in 1 .. b.sizes : \A r \in 1 .. b.np : b.body[k][r] = SizeOf(p, k, r - 1)
  BY <1>1, OneSidedRecord
<1>3. Free(<<>>)
  BY ShortAvoids DEF Free
<1>4. ASSUME NEW k \in 1 .. b.sizes, NEW r \in 1 .. b.np
      PROVE  IsBody(b.body[k][r], Does(p)[r - 1], {Closer(p)})
  <2>1. r - 1 \in 0 .. p.np - 1
    BY <1>2
  <2> QED BY <1>2, <2>1, SizeIs DEF Does
<1> QED BY <1>1, <1>2, <1>3, <1>4, SizesAre DEF IsOneSided, IsBody

-----------------------------------------------------------------------------
(***************************************************************************)
(* What holds of a run of these programs.                                  *)
(***************************************************************************)
OneSidedPrograms == Latency \cup Bandwidth \cup PingPong

IsOneSidedProgram(b) ==
  \E p : p.np \in Nat \ {0} /\ p.program \in OneSidedPrograms /\ b = OneSided(p)

LEMMA SyncIs ==
  ASSUME NEW p
  PROVE  /\ Sync(p) \in {"lock", "lock_all", "flush", "flush_local", "wait", "pscw", "fence"}
         /\ Sync(p) = "wait" => p.program \in Latency
BY DEF Sync, Supported

LEMMA OperationsFetch ==
  ASSUME NEW name \in OneSidedPrograms
  PROVE  Operation(name) \in Fetching
           <=> name \in {"osu_get_latency", "osu_get_bw", "osu_get_acc_latency"} \cup Atomic
<1> DEFINE puts == {"osu_put_latency", "osu_put_bw", "osu_put_bibw"}
<1>1. name \in puts => Operation(name) = "put"
  BY DEF Operation
<1>2. name \in {"osu_get_latency", "osu_get_bw"} => Operation(name) = "get"
  BY DEF Operation
<1>3. name = "osu_acc_latency" => Operation(name) = "accumulate"
  BY DEF Operation
<1>4. name = "osu_get_acc_latency" => Operation(name) = "get_accumulate"
  BY DEF Operation
<1>5. name = "osu_cas_latency" => Operation(name) = "compare_and_swap"
  BY DEF Operation
<1>6. name = "osu_fop_latency" => Operation(name) = "fetch_and_op"
  BY DEF Operation
<1>7. \/ name \in puts \/ name \in {"osu_get_latency", "osu_get_bw"} \/ name = "osu_acc_latency"
      \/ name = "osu_get_acc_latency" \/ name = "osu_cas_latency" \/ name = "osu_fop_latency"
  BY DEF OneSidedPrograms, Latency, Bandwidth, PingPong, Atomic
<1> QED BY <1>1, <1>2, <1>3, <1>4, <1>5, <1>6, <1>7 DEF Fetching, Atomic

LEMMA OneSidedFetches ==
  ASSUME NEW p, p.np \in Nat \ {0}
  PROVE  /\ Operation(p.program) \in Fetching => Fetches(OneSided(p))
         /\ Operation(p.program) \notin Fetching => Delivers(OneSided(p))
<1>1. PICK b : b = OneSided(p)
  OBVIOUS
<1>2. b.np = p.np /\ OnlyDoes(b, Does(p))
  BY <1>1, OneSidedRecord, OneSidedIs, OneSidedAccess
<1>3. \A r \in 0 .. b.np - 1 : Does(p)[r].kind = Operation(p.program)
  BY <1>2, AccessIs DEF Does, DoneBy, IsAccess
<1> QED BY <1>1, <1>2, <1>3, OneSidedKinds

\* The promises of a program are those of its options.
LEMMA SameOptions ==
  ASSUME NEW p, p.np \in Nat \ {0}
  PROVE  /\ Sync(OneSided(p)) = Sync(p)
         /\ CompletesLocally(OneSided(p)) <=>
              Sync(p) \in {"flush_local", "wait"} \/ (Sync(p) = "pscw" /\ p.program \notin PingPong)
<1>1. PICK b : b = OneSided(p)
  OBVIOUS
<1>2. b.sync = p.sync /\ b.program = p.program
  BY <1>1, OneSidedRecord
<1>3. Sync(b) = Sync(p)
  BY <1>2 DEF Sync
<1> QED BY <1>1, <1>2, <1>3 DEF CompletesLocally

\* In all of them but the epochs back and forth of osu_acc_latency, a section
\* completes its operations.
LEMMA OneSidedCompletes ==
  ASSUME NEW p, p.np \in Nat \ {0}, p.program \in OneSidedPrograms,
         p.program = "osu_acc_latency" => Sync(p) # "pscw"
  PROVE  Settling(OneSided(p)) /\ ReadsBetween(OneSided(p))
<1>1. PICK b : b = OneSided(p)
  OBVIOUS
<1>2. Fetches(b) \/ Delivers(b)
  BY <1>1, OneSidedFetches
<1>3. CASE Sync(p) \in {"lock", "lock_all", "flush", "fence"}
  <2>1. Closer(p) \in {"unlock", "flush"}
    BY <1>3 DEF Closer
  <2>2. Closes(b, {Closer(p)})
    BY <2>1 DEF Closes
  <2> QED BY <1>1, <1>2, <2>2, OneSidedIs, OneSidedSettles
<1>4. CASE Sync(p) \in {"flush_local", "wait", "pscw"}
  <2>1. Closer(p) \in {"flush_local", "complete"}
    BY <1>4 DEF Closer
  <2>2. CompletesLocally(b) \/ Fetches(b)
    <3>1. CASE p.program \notin PingPong \/ Sync(p) # "pscw"
      BY <1>1, <1>4, <3>1, SameOptions
    <3>2. CASE p.program \in PingPong /\ Sync(p) = "pscw"
      BY <1>1, <3>2, OperationsFetch, OneSidedFetches DEF PingPong
    <3> QED BY <3>1, <3>2
  <2>3. Closes(b, {Closer(p)})
    BY <2>1, <2>2 DEF Closes
  <2> QED BY <1>1, <1>2, <2>3, OneSidedIs, OneSidedSettles
<1> QED BY <1>1, <1>3, <1>4, SyncIs

-----------------------------------------------------------------------------
\* Statement o of ops is there, whatever the iteration.
Has(ops, o) == IsSequence(ops) /\ \E n \in 1 .. Len(ops) : ops[n] = o

LEMMA HasJoined ==
  ASSUME NEW f, NEW g, NEW o, IsSequence(f), IsSequence(g), Has(f, o) \/ Has(g, o)
  PROVE  Has(f \o g, o)
<1>1. PICK h : h = f \o g
  OBVIOUS
<1>2. /\ IsSequence(h) /\ Len(h) = Len(f) + Len(g) /\ Len(f) \in Nat /\ Len(g) \in Nat
      /\ \A n \in 1 .. Len(f) : h[n] = f[n]
      /\ \A n \in 1 .. Len(g) : h[Len(f) + n] = g[n]
  <2>1. Len(f) \in Nat /\ Len(g) \in Nat
    BY DEF IsSequence
  <2> QED BY <1>1, <2>1, Joined
<1>3. CASE Has(f, o)
  <2>1. PICK n \in 1 .. Len(f) : f[n] = o
    BY <1>3 DEF Has
  <2>2. n \in 1 .. Len(h) /\ h[n] = o
    BY <1>2, <2>1
  <2> QED BY <1>1, <1>2, <2>2 DEF Has
<1>4. CASE Has(g, o)
  <2>1. PICK n \in 1 .. Len(g) : g[n] = o
    BY <1>4 DEF Has
  <2>2. PICK m : m = Len(f) + n
    OBVIOUS
  <2>3. m \in 1 .. Len(h) /\ h[m] = o
    BY <1>2, <2>1, <2>2
  <2> QED BY <1>1, <1>2, <2>3 DEF Has
<1> QED BY <1>3, <1>4

\* Every statement of ops that sets disp_remote lets it point at v.
AllPoint(ops, r, v) == IsSequence(ops) /\ \A n \in 1 .. Len(ops) : Points(r, ops[n], v)

LEMMA AllPointJoined ==
  ASSUME NEW f, NEW g, NEW r, NEW v, AllPoint(f, r, v), AllPoint(g, r, v)
  PROVE  AllPoint(f \o g, r, v)
<1>1. PICK h : h = f \o g
  OBVIOUS
<1>2. /\ IsSequence(h)
      /\ \A n \in 1 .. Len(h) : \/ n \in 1 .. Len(f) /\ h[n] = f[n]
                                \/ n - Len(f) \in 1 .. Len(g) /\ h[n] = g[n - Len(f)]
  <2>1. IsSequence(f) /\ IsSequence(g)
    BY DEF AllPoint
  <2> QED BY <1>1, <2>1, Joined
<1>3. ASSUME NEW n \in 1 .. Len(h) PROVE Points(r, h[n], v)
  BY <1>2 DEF AllPoint
<1> QED BY <1>1, <1>2, <1>3 DEF AllPoint

LEMMA NoSetterPoints ==
  ASSUME NEW ops, NEW r, NEW v, Avoids(ops, Setters)
  PROVE  AllPoint(ops, r, v)
BY DEF AllPoint, Avoids, Points, Setters

\* The statements around those of Displaces do not set disp_remote.
LEMMA PreparationSets ==
  ASSUME NEW p, NEW k, NEW r, NEW v, AllPoint(Displaces(p, r), r, v),
         NEW o, Has(Displaces(p, r), o)
  PROVE  AllPoint(Preparation(p, k, r), r, v) /\ Has(Preparation(p, k, r), o)
<1> DEFINE create == Only(p.program # "osu_get_acc_latency", <<Touch>>) \o <<Call("win_create")>>
           before == Header(p, k, r) \o Window(BarriersBefore(p), Barrier)
           large == Only(p.program \notin Atomic, <<SetIfLarge(k)>>)
           after == Window(BarriersAfter(p), Barrier)
<1>1. Avoids(before, Setters)
  <2>1. Avoids(<<>>, Setters)
    BY ShortAvoids
  <2>2. \A q, kind : Avoids(Send(q, 10, kind), Setters) /\ Avoids(Recv(q, 10, kind), Setters)
    BY MessagesAvoid DEF Setters
  <2>3. Avoids(Header(p, k, r), Setters)
    BY <2>1, <2>2, AvoidsJoined DEF Header, Only
  <2>4. Avoids(Window(BarriersBefore(p), Barrier), Setters)
    BY BarriersAre, CallNames, WindowAvoids DEF Is, Setters
  <2> QED BY <2>3, <2>4, AvoidsJoined
<1>2. Avoids(large, Setters) /\ Avoids(after, Setters)
  BY BarriersAre, CallNames, WindowAvoids, ShortAvoids DEF Is, Only, Setters
<1>3. Avoids(create, Setters)
  <2>1. Avoids(<<Call("win_create")>>, Setters)
    BY CallNames, ShortAvoids DEF Is, Setters
  <2>2. Avoids(Only(p.program # "osu_get_acc_latency", <<Touch>>), Setters)
    BY CallNames, ShortAvoids DEF Is, Only, Setters
  <2> QED BY <2>1, <2>2, AvoidsJoined
<1>4. Allocate(p, r) = create \o Displaces(p, r)
  BY DEF Allocate, Displaces
<1>5. Preparation(p, k, r) = before \o Allocate(p, r) \o large \o after
  BY DEF Preparation
<1> HIDE DEF create, before, large, after
<1>6. AllPoint(create, r, v) /\ AllPoint(before, r, v) /\ AllPoint(large, r, v) /\ AllPoint(after, r, v)
  BY <1>1, <1>2, <1>3, NoSetterPoints
<1>7. AllPoint(Allocate(p, r), r, v) /\ Has(Allocate(p, r), o)
  BY <1>4, <1>6, AllPointJoined, HasJoined DEF AllPoint
<1>8. AllPoint(before \o Allocate(p, r), r, v) /\ Has(before \o Allocate(p, r), o)
  BY <1>6, <1>7, AllPointJoined, HasJoined DEF AllPoint
<1>9. AllPoint(before \o Allocate(p, r) \o large, r, v) /\ Has(before \o Allocate(p, r) \o large, o)
  BY <1>6, <1>8, AllPointJoined, HasJoined DEF AllPoint
<1> QED BY <1>5, <1>6, <1>9, AllPointJoined, HasJoined DEF AllPoint

\* Where disp_remote of rank r points after the allocation.
Displaced(p, r) ==
  IF p.program \in Atomic \cup {"osu_get_acc_latency"} THEN Base(1 - r) ELSE TableOf(r)

\* The statement by which a received address overwrites the pointer.
Keeps(q) == [Do("address", "") EXCEPT !.peer = q]

LEMMA KeepsIs ==
  ASSUME NEW q
  PROVE  /\ Is(Keeps(q), "address") /\ Keeps(q).peer = q
         /\ \A tag : RecvAddress(q, tag) = Recv(q, tag, "address") \o <<Keeps(q)>>
<1>1. Is(Keeps(q), "address") /\ Keeps(q).peer = q
  BY DEF Is, Keeps, Do
<1>2. \A tag : RecvAddress(q, tag) = Recv(q, tag, "address") \o <<Keeps(q)>>
  BY Zenon DEF RecvAddress, Keeps
<1> QED BY <1>1, <1>2

LEMMA DisplacesSet ==
  ASSUME NEW p, NEW r \in Nat, p.win = "dynamic",
         p.program \in Atomic \cup {"osu_get_acc_latency"} => r \in 0 .. 1
  PROVE  \E o : /\ IsSetter(o) /\ ~o.at_skip /\ Has(Displaces(p, r), o)
                /\ AllPoint(Displaces(p, r), r, Displaced(p, r))
<1>1. CASE p.program \notin Atomic \cup {"osu_get_acc_latency"}
  <2>1. Displaces(p, r) = <<Call("allgather"), Table>> /\ Displaced(p, r) = TableOf(r)
    BY <1>1 DEF Displaces, Displaced, Only
  <2>2. Table.op = "table" /\ ~Table.at_skip /\ Call("allgather").op = "call"
    BY CallNames DEF Is
  <2>3. Has(<<Call("allgather"), Table>>, Table)
    BY ShortSequences DEF Has
  <2>4. Points(r, Table, TableOf(r)) /\ Points(r, Call("allgather"), TableOf(r))
    BY <2>2 DEF Points
  <2>5. AllPoint(<<Call("allgather"), Table>>, r, TableOf(r))
    <3>1. PICK ops : ops = <<Call("allgather"), Table>>
      OBVIOUS
    <3>2. IsSequence(ops) /\ Len(ops) = 2 /\ ops[1] = Call("allgather") /\ ops[2] = Table
      BY <3>1, ShortSequences
    <3>3. \A n \in 1 .. Len(ops) : n = 1 \/ n = 2
      BY <3>2
    <3> QED BY <2>4, <3>1, <3>2, <3>3 DEF AllPoint
  <2> QED BY <2>1, <2>2, <2>3, <2>5 DEF IsSetter
<1>2. CASE p.program \in Atomic \cup {"osu_get_acc_latency"}
  <2>1. Displaces(p, r) = ExchangeAddresses(r) /\ Displaced(p, r) = Base(1 - r)
    BY <1>2 DEF Displaces, Displaced, Only
  <2>2. PICK q, o : q = 1 - r /\ o = Keeps(q)
    OBVIOUS
  <2>3. o.op = "address" /\ ~o.at_skip /\ o.peer = q
    BY <2>2, KeepsIs DEF Is
  <2>4. RecvAddress(q, 1) = Recv(q, 1, "address") \o <<o>>
    BY <2>2, KeepsIs
  <2>5. PICK send, recv : send = Send(q, 1, "address") /\ recv = Recv(q, 1, "address")
    OBVIOUS
  <2>6. Avoids(send, Setters) /\ Avoids(recv, Setters)
    BY <2>5, MessagesAvoid DEF Setters
  <2>7. AllPoint(send, r, Base(q)) /\ AllPoint(recv, r, Base(q))
    BY <2>6, NoSetterPoints
  <2>8. Has(<<o>>, o) /\ AllPoint(<<o>>, r, Base(q))
    BY <2>3, ShortSequences DEF Has, AllPoint, Points
  <2>9. Has(RecvAddress(q, 1), o) /\ AllPoint(RecvAddress(q, 1), r, Base(q))
    BY <2>4, <2>5, <2>7, <2>8, HasJoined, AllPointJoined DEF AllPoint
  <2>10. ExchangeAddresses(r) = send \o RecvAddress(q, 1) \/ ExchangeAddresses(r) = RecvAddress(q, 1) \o send
    <3>1. CASE r = 0
      <4>1. q = 1
        BY <2>2, <3>1
      <4> QED BY <2>5, <3>1, <4>1 DEF ExchangeAddresses
    <3>2. CASE r # 0
      <4>1. q = 0
        BY <1>2, <2>2, <3>2
      <4> QED BY <2>5, <3>2, <4>1 DEF ExchangeAddresses
    <3> QED BY <3>1, <3>2
  <2>11. Has(ExchangeAddresses(r), o) /\ AllPoint(ExchangeAddresses(r), r, Base(q))
    BY <2>7, <2>9, <2>10, HasJoined, AllPointJoined DEF AllPoint
  <2> QED BY <2>1, <2>2, <2>3, <2>11 DEF IsSetter
<1> QED BY <1>1, <1>2

\* The programs that can use a window in memory attached later: README, -w
\* dynamic.  The others take the pointer to their table for a displacement.
TakesDynamic(name) == name \in Latency \cup Atomic \cup {"osu_get_acc_latency"}

LEMMA OneSidedAims ==
  ASSUME NEW p, p.np \in Nat \ {0}, p.win = "dynamic" => TakesDynamic(p.program)
  PROVE  Aimed(OneSided(p))
<1>1. PICK b : b = OneSided(p)
  OBVIOUS
<1>2. /\ b.np = p.np /\ b.sizes = NumSizesOf(p)
      /\ b.fits = (p.program \in Latency \/ p.np = 2)
      /\ \A k \in 1 .. b.sizes : \A r \in 1 .. b.np : b.body[k][r] = SizeOf(p, k, r - 1)
  BY <1>1, OneSidedRecord
<1>3. IsOneSided(b, Does(p), {Closer(p)})
  BY <1>1, OneSidedIs
<1>4. ASSUME NEW r \in 0 .. b.np - 1
      PROVE  Does(p)[r].disp = Displacement(p) /\ Does(p)[r].peer = PeerOf(p, r)
  <2>1. Does(p)[r] = DoneBy(p, r)
    BY <1>2, <1>4 DEF Does
  <2> QED BY <2>1, AccessIs DEF DoneBy, IsAccess
<1>5. CASE p.win # "dynamic"
  <2>1. Displacement(p) = "offset"
    BY <1>5 DEF Displacement
  <2> QED BY <1>1, <1>3, <1>4, <2>1, OneSidedOffsets
<1>6. CASE p.win = "dynamic"
  <2> DEFINE v == [r \in 0 .. b.np - 1 |-> Displaced(p, r)]
  <2>1. ASSUME b.fits, NEW r \in 0 .. b.np - 1
        PROVE  /\ r \in Nat
               /\ p.program \in Atomic \cup {"osu_get_acc_latency"} => p.np = 2 /\ r \in 0 .. 1
    <3>1. r \in Nat /\ (p.np = 2 => r \in 0 .. 1)
      BY <1>2
    <3>2. p.program \in Atomic \cup {"osu_get_acc_latency"} => p.program \notin Latency
      BY DEF Atomic, Latency
    <3> QED BY <1>2, <2>1, <3>1, <3>2
  <2>2. ASSUME b.fits, NEW r \in 0 .. b.np - 1, NEW k \in 1 .. b.sizes
        PROVE  SetsUp(r, b.body[k][r + 1], v[r])
    <3>1. b.body[k][r + 1] = SizeOf(p, k, r)
      <4>1. r + 1 \in 1 .. b.np /\ (r + 1) - 1 = r
        BY <1>2
      <4> QED BY <1>2, <4>1
    <3>2. v[r] = Displaced(p, r)
      OBVIOUS
    <3> HIDE DEF v
    <3>3. PICK o : /\ IsSetter(o) /\ ~o.at_skip /\ Has(Displaces(p, r), o)
                   /\ AllPoint(Displaces(p, r), r, Displaced(p, r))
      BY <1>6, <2>1, <2>2, DisplacesSet
    <3>4. AllPoint(Preparation(p, k, r), r, v[r]) /\ Has(Preparation(p, k, r), o)
      BY <3>2, <3>3, PreparationSets
    <3>5. PICK secs, ops : secs = SizeOf(p, k, r) /\ ops = Preparation(p, k, r)
      OBVIOUS
    <3>6. ~secs[1].loop /\ secs[1].ops = ops
      <4>1. secs[1] = Once(ops)
        BY <3>5, SizeIs
      <4> QED BY <4>1 DEF Once
    <3> QED BY <3>1, <3>3, <3>4, <3>5, <3>6 DEF SetsUp, AllPoint, Has
  <2>3. ASSUME b.fits, NEW r \in 0 .. b.np - 1
        PROVE  Hits(r, Does(p)[r], v[r])
    <3>1. v[r] = Displaced(p, r)
      OBVIOUS
    <3> HIDE DEF v
    <3>2. CASE p.program \in Latency
      <4>1. Displacement(p) = "entry" /\ Displaced(p, r) = TableOf(r)
        BY <1>6, <3>2 DEF Displacement, Displaced, Latency, Atomic
      <4> QED BY <1>4, <3>1, <4>1 DEF Hits
    <3>3. CASE p.program \in Atomic \cup {"osu_get_acc_latency"}
      <4>1. p.program \in PingPong /\ p.program \notin Latency
        BY <3>3 DEF PingPong, Atomic, Latency
      <4>2. Displacement(p) = "pointer" /\ Displaced(p, r) = Base(1 - r)
        BY <1>6, <3>3, <4>1 DEF Displacement, Displaced
      <4>3. PeerOf(p, r) = 1 - r
        <5>1. p.np = 2 /\ (r = 0 \/ r = 1)
          BY <2>1, <2>3, <3>3
        <5>2. Target(p) = 1
          BY <5>1 DEF Target
        <5> QED BY <4>1, <5>1, <5>2 DEF PeerOf
      <4> QED BY <1>4, <3>1, <4>2, <4>3 DEF Hits
    <3> QED BY <1>6, <3>2, <3>3 DEF TakesDynamic
  <2> HIDE DEF v
  <2> QED BY <1>1, <1>3, <2>2, <2>3, OneSidedPointers
<1> QED BY <1>5, <1>6

(***************************************************************************)
(* AccessesHitTheWindow for mpi/one-sided: whatever -s, -w and the number  *)
(* of processes are, the operations of every program touch the window of   *)
(* their target, unless it is osu_put_bw, osu_get_bw, osu_put_bibw or      *)
(* osu_acc_latency with -w dynamic.                                        *)
(***************************************************************************)
THEOREM OneSidedHits ==
  WinSpec => [](IsOneSidedProgram(benchmark)
                  /\ (benchmark.win = "dynamic" => TakesDynamic(benchmark.program))
                => AccessesHitTheWindow)
<1>1. ASSUME IsOneSidedProgram(benchmark),
             benchmark.win = "dynamic" => TakesDynamic(benchmark.program)
      PROVE  WellFormed(benchmark) /\ Aimed(benchmark)
  <2>1. PICK p : p.np \in Nat \ {0} /\ benchmark = OneSided(p)
    BY <1>1 DEF IsOneSidedProgram
  <2>2. PICK b : b = OneSided(p)
    OBVIOUS
  <2>3. b.win = p.win /\ b.program = p.program
    BY <2>1, <2>2, OneSidedRecord
  <2>4. Aimed(b)
    BY <1>1, <2>1, <2>2, <2>3, OneSidedAims
  <2>5. WellFormed(b)
    BY <2>1, <2>2, OneSidedIs, OneSidedIsWellFormed
  <2> QED BY <2>1, <2>2, <2>4, <2>5
<1>2. (WellFormed(benchmark) /\ Aimed(benchmark) => AccessesHitTheWindow)
      => (IsOneSidedProgram(benchmark)
            /\ (benchmark.win = "dynamic" => TakesDynamic(benchmark.program))
          => AccessesHitTheWindow)
  BY <1>1
<1> QED BY <1>2, HitTheorem, PTL

(***************************************************************************)
(* UpdatesSeparated for them: no iteration begins while an operation of an *)
(* earlier one is under way that the program does not let overlap.  In the *)
(* epochs of osu_put_bw, osu_put_bibw and osu_acc_latency it is the target *)
(* that sees to that (MPI_Win_wait).                                       *)
(***************************************************************************)
THEOREM OneSidedSeparated ==
  WinSpec => [](IsOneSidedProgram(benchmark)
                  /\ (Sync(benchmark) = "pscw" =>
                        benchmark.program \notin {"osu_put_bw", "osu_put_bibw", "osu_acc_latency"})
                => UpdatesSeparated)
<1>1. ASSUME IsOneSidedProgram(benchmark),
             Sync(benchmark) = "pscw" =>
               benchmark.program \notin {"osu_put_bw", "osu_put_bibw", "osu_acc_latency"}
      PROVE  WellFormed(benchmark) /\ SettlesAll(benchmark)
  <2>1. PICK p : p.np \in Nat \ {0} /\ p.program \in OneSidedPrograms /\ benchmark = OneSided(p)
    BY <1>1 DEF IsOneSidedProgram
  <2>2. PICK b : b = OneSided(p)
    OBVIOUS
  <2>3. /\ b.program = p.program /\ Sync(b) = Sync(p)
        /\ CompletesLocally(b) <=>
              Sync(p) \in {"flush_local", "wait"} \/ (Sync(p) = "pscw" /\ p.program \notin PingPong)
    BY <2>1, <2>2, OneSidedRecord, SameOptions
  <2>4. Sync(p) = "pscw" => p.program \notin {"osu_put_bw", "osu_put_bibw", "osu_acc_latency"}
    BY <1>1, <2>1, <2>2, <2>3
  <2>5. Settling(b)
    BY <2>1, <2>2, <2>4, OneSidedCompletes
  <2>6. Sync(p) = "pscw" /\ p.program \notin PingPong => p.program = "osu_get_bw"
    <3>1. Sync(p) = "pscw" => p.program \notin Latency
      BY DEF Sync, Supported, Latency
    <3> QED BY <2>1, <2>4, <3>1 DEF OneSidedPrograms, Bandwidth
  <2>7. p.program = "osu_get_bw" => Fetches(b)
    BY <2>1, <2>2, OperationsFetch, OneSidedFetches
  <2>8. SettlesAll(b)
    BY <2>3, <2>5, <2>6, <2>7 DEF SettlesAll
  <2>9. WellFormed(b)
    BY <2>1, <2>2, OneSidedIs, OneSidedIsWellFormed
  <2> QED BY <2>1, <2>2, <2>8, <2>9
<1>2. (WellFormed(benchmark) /\ SettlesAll(benchmark) => UpdatesSeparated)
      => (IsOneSidedProgram(benchmark)
            /\ (Sync(benchmark) = "pscw" =>
                  benchmark.program \notin {"osu_put_bw", "osu_put_bibw", "osu_acc_latency"})
          => UpdatesSeparated)
  BY <1>1
<1> QED BY <1>2, SettledTheorem, PTL

-----------------------------------------------------------------------------
\* The other ranks only help rank 0 to measure.
AllAvoid(secs, S) == IsSequence(secs) /\ \A s \in 1 .. Len(secs) : Avoids(secs[s].ops, S)

LEMMA AllAvoidJoined ==
  ASSUME NEW f, NEW g, NEW S, AllAvoid(f, S), AllAvoid(g, S)
  PROVE  AllAvoid(f \o g, S)
<1>1. PICK h : h = f \o g
  OBVIOUS
<1>2. /\ IsSequence(h)
      /\ \A n \in 1 .. Len(h) : \/ n \in 1 .. Len(f) /\ h[n] = f[n]
                                \/ n - Len(f) \in 1 .. Len(g) /\ h[n] = g[n - Len(f)]
  <2>1. IsSequence(f) /\ IsSequence(g)
    BY DEF AllAvoid
  <2> QED BY <1>1, <2>1, Joined
<1>3. ASSUME NEW n \in 1 .. Len(h) PROVE Avoids(h[n].ops, S)
  BY <1>2 DEF AllAvoid
<1> QED BY <1>1, <1>2, <1>3 DEF AllAvoid

LEMMA ShortAllAvoid ==
  ASSUME NEW S
  PROVE  /\ AllAvoid(<<>>, S)
         /\ \A ops : Avoids(ops, S) => AllAvoid(<<Once(ops)>>, S) /\ AllAvoid(<<Loop(ops)>>, S)
<1>1. \A ops : Once(ops).ops = ops /\ Loop(ops).ops = ops
  BY DEF Once, Loop
<1>2. \A sec : Avoids(sec.ops, S) => AllAvoid(<<sec>>, S)
  BY ShortSequences DEF AllAvoid
<1>3. AllAvoid(<<>>, S)
  BY ShortSequences DEF AllAvoid
<1> QED BY <1>1, <1>2, <1>3

\* Operations in one direction: of rank 0, with passive targets or without.
OneWay(b) == Sync(b) \notin Active \/ b.program \in {"osu_put_bw", "osu_get_bw"}

LEMMA OthersAvoid ==
  ASSUME NEW p, OneWay(p), NEW r, r # 0
  PROVE  AllAvoid(Work(p, r), {"access", "t_end"})
<1> DEFINE S == {"access", "t_end"}
<1>1. CASE Sync(p) \notin Active
  BY <1>1, ShortAllAvoid DEF Work
<1>2. CASE Sync(p) \in Active
  <2>1. p.program \notin PingPong \cup {"osu_put_bibw"}
    BY <1>2 DEF OneWay, PingPong, Atomic
  <2>2. Avoids(<<>>, S) /\ Avoids(Fence, S) /\ Avoids(TimedFence, S) /\ Avoids(<<Post, WinWait>>, S)
    <3>1. Avoids(Fence, S) /\ Avoids(TimedFence, S)
      BY Fences, AvoidsLess DEF Neutral, Timers
    <3> QED BY <3>1, CallNames, ShortAvoids DEF Is
  <2>3. ASSUME Sync(p) = "fence" PROVE Avoids(ActiveIteration(p, r), S)
    <3>1. ActiveIteration(p, r) = <<>> \o Fence \o <<>> \o TimedFence
      BY <2>1, <2>3 DEF ActiveIteration, FencesOneWay, Only
    <3> QED BY <2>2, <3>1, AvoidsJoined
  <2>4. ASSUME Sync(p) = "pscw" PROVE Avoids(ActiveIteration(p, r), S)
    <3>1. ActiveIteration(p, r) = <<Post, WinWait>>
      BY <2>1, <2>4 DEF ActiveIteration, EpochsOneWay
    <3> QED BY <2>2, <3>1
  <2>5. PICK A : A = Loop(ActiveIteration(p, r))
    OBVIOUS
  <2>6. AllAvoid(<<A>>, S)
    BY <1>2, <2>3, <2>4, <2>5, ShortAllAvoid DEF Active
  <2>7. Work(p, r) = <<A>> \o <<>>
    BY <1>2, <2>5 DEF Work, Only
  <2> QED BY <2>6, <2>7, ShortAllAvoid, AllAvoidJoined
<1> QED BY <1>1, <1>2

LEMMA OneSidedRoot ==
  ASSUME NEW p, p.np \in Nat \ {0}, p.program \in OneSidedPrograms, OneWay(p)
  PROVE  OnlyRoot(OneSided(p))
<1>1. PICK b : b = OneSided(p)
  OBVIOUS
<1>2. /\ b.np = p.np /\ b.sizes = NumSizesOf(p) /\ b.start = <<>> /\ b.finish = <<>>
      /\ \A k \in 1 .. b.sizes : \A r \in 1 .. b.np : b.body[k][r] = SizeOf(p, k, r - 1)
  BY <1>1, OneSidedRecord
<1>3. ASSUME NEW k \in 1 .. b.sizes, NEW r \in 2 .. b.np
      PROVE  AllAvoid(b.body[k][r], {"access", "t_end"})
  <2>1. r \in 1 .. b.np /\ r - 1 # 0
    BY <1>2
  <2>2. PICK q : q = r - 1
    OBVIOUS
  <2>3. AllAvoid(Work(p, q), {"access", "t_end"})
    BY <2>1, <2>2, OthersAvoid
  <2>4. /\ AllAvoid(<<Once(Preparation(p, k, q))>>, {"access", "t_end"})
        /\ AllAvoid(<<Once(Release(q))>>, {"access", "t_end"})
    BY PreparationIs, ReleaseIs, ShortAllAvoid
  <2>5. AllAvoid(SizeOf(p, k, q), {"access", "t_end"})
    BY <2>3, <2>4, AllAvoidJoined DEF SizeOf
  <2> QED BY <1>2, <2>1, <2>2, <2>5
<1>4. OnlyRoot(b)
  BY <1>2, <1>3, ShortAvoids DEF OnlyRoot, AllAvoid
<1> QED BY <1>1, <1>4

LEMMA OneSidedTimes ==
  ASSUME NEW p, p.np \in Nat \ {0}, p.program \in OneSidedPrograms, OneWay(p)
  PROVE  TimesOneWay(OneSided(p))
<1>1. PICK b : b = OneSided(p)
  OBVIOUS
<1>2. b.np = p.np /\ b.sizes = NumSizesOf(p)
  BY <1>1, OneSidedRecord
<1>3. p.program = "osu_acc_latency" => Sync(p) # "pscw"
  BY DEF OneWay, Active
<1> QED BY <1>1, <1>2, <1>3, OneSidedCompletes, OneSidedRoot, SizesAre, RootTimes

(***************************************************************************)
(* TimedOperations for them, where the operations go in one direction: the *)
(* timer starts and stops where all of them are accounted for.             *)
(***************************************************************************)
THEOREM OneSidedTimed ==
  WinSpec => [](IsOneSidedProgram(benchmark) /\ OneWay(benchmark) => TimedOperations)
<1>1. ASSUME IsOneSidedProgram(benchmark), OneWay(benchmark)
      PROVE  WellFormed(benchmark) /\ TimesOneWay(benchmark)
  <2>1. PICK p : p.np \in Nat \ {0} /\ p.program \in OneSidedPrograms /\ benchmark = OneSided(p)
    BY <1>1 DEF IsOneSidedProgram
  <2>2. PICK b : b = OneSided(p)
    OBVIOUS
  <2>3. b.program = p.program /\ Sync(b) = Sync(p)
    BY <2>1, <2>2, OneSidedRecord, SameOptions
  <2>4. OneWay(p)
    BY <1>1, <2>1, <2>2, <2>3 DEF OneWay
  <2>5. TimesOneWay(b) /\ WellFormed(b)
    BY <2>1, <2>2, <2>4, OneSidedTimes, OneSidedIs, OneSidedIsWellFormed
  <2> QED BY <2>1, <2>2, <2>5
<1>2. (WellFormed(benchmark) /\ TimesOneWay(benchmark) => TimedOperations)
      => (IsOneSidedProgram(benchmark) /\ OneWay(benchmark) => TimedOperations)
  BY <1>1
<1> QED BY <1>2, TimedTheorem, PTL

-----------------------------------------------------------------------------
(***************************************************************************)
(* The programs for DART, OpenSHMEM and UPC that put and get.              *)
(***************************************************************************)
LEMMA ShortTransfers ==
  ASSUME NEW acc, NEW c, NEW d, NEW closers, acc.op = "access", c.op \in closers, ~c.at_skip,
         c.op \notin {"access"} \cup Setters \cup Timers
  PROVE  /\ Transfers(<<acc, c>>, acc, closers)
         /\ d.op \notin {"access"} \cup Setters \cup Timers => Transfers(<<acc, d, c>>, acc, closers)
         /\ d.op \in Timers => Transfers(<<d, acc, c>>, acc, closers)
<1>0. acc.op \notin Setters \cup Timers
  BY DEF Setters, Timers
<1>1. Transfers(<<acc, c>>, acc, closers)
  <2>1. PICK ops : ops = <<acc, c>>
    OBVIOUS
  <2>2. IsSequence(ops) /\ Len(ops) = 2 /\ ops[1] = acc /\ ops[2] = c
    BY <2>1, ShortSequences
  <2>3. 0 \in 0 .. Len(ops) /\ 2 \in 0 + 1 .. Len(ops) /\ \A n \in 1 .. Len(ops) : n = 1 \/ n = 2
    BY <2>2
  <2>4. 1 \in 0 + 1 .. 2 - 1
    OBVIOUS
  <2>5. IsTransfer(ops, 0, 2, acc)
    BY <1>0, <2>2, <2>3, <2>4 DEF IsTransfer
  <2> QED BY <2>1, <2>2, <2>3, <2>5 DEF Transfers
<1>2. ASSUME d.op \notin {"access"} \cup Setters \cup Timers PROVE Transfers(<<acc, d, c>>, acc, closers)
  <2>1. PICK ops : ops = <<acc, d, c>>
    OBVIOUS
  <2>2. IsSequence(ops) /\ Len(ops) = 3 /\ ops[1] = acc /\ ops[2] = d /\ ops[3] = c
    BY <2>1, ShortSequences
  <2>3. /\ 0 \in 0 .. Len(ops) /\ 3 \in 0 + 1 .. Len(ops)
        /\ \A n \in 1 .. Len(ops) : n = 1 \/ n = 2 \/ n = 3
    BY <2>2
  <2>4. 1 \in 0 + 1 .. 3 - 1
    OBVIOUS
  <2>5. IsTransfer(ops, 0, 3, acc)
    BY <1>0, <1>2, <2>2, <2>3, <2>4 DEF IsTransfer
  <2> QED BY <2>1, <2>2, <2>3, <2>5 DEF Transfers
<1>3. ASSUME d.op \in Timers PROVE Transfers(<<d, acc, c>>, acc, closers)
  <2>1. PICK ops : ops = <<d, acc, c>>
    OBVIOUS
  <2>2. IsSequence(ops) /\ Len(ops) = 3 /\ ops[1] = d /\ ops[2] = acc /\ ops[3] = c
    BY <2>1, ShortSequences
  <2>3. /\ 1 \in 0 .. Len(ops) /\ 3 \in 1 + 1 .. Len(ops)
        /\ \A n \in 1 .. Len(ops) : n = 1 \/ n = 2 \/ n = 3
    BY <2>2
  <2>4. 2 \in 1 + 1 .. 3 - 1
    OBVIOUS
  <2>5. d.op \notin {"access"} \cup Setters
    BY <1>3 DEF Timers, Setters
  <2>6. IsTransfer(ops, 1, 3, acc)
    BY <1>0, <2>2, <2>3, <2>4, <2>5 DEF IsTransfer
  <2> QED BY <2>1, <2>2, <2>3, <2>6 DEF Transfers
<1> QED BY <1>1, <1>2, <1>3

\* What a rank does for a size, from its first section to its last.
LEMMA ThreeParts ==
  ASSUME NEW first, NEW mid, NEW last, NEW acc, NEW closers, IsStraight(first),
         Avoids(first, {"access"}), AreSections(mid, acc, closers), IsStraight(last), Free(last)
  PROVE  IsBody(<<Once(first)>> \o mid \o <<Once(last)>>, acc, closers)
<1>1. PICK f, h, rest : f = <<Once(first)>> /\ h = <<Once(last)>> /\ rest = mid \o h
  OBVIOUS
<1>2. Once(last).ops = last
  BY DEF Once
<1>3. AreSections(h, acc, closers)
  BY <1>1, <1>2, ShortSections DEF IsSectionOf
<1>4. AreSections(rest, acc, closers)
  BY <1>1, <1>3, SectionsJoined
<1>5. IsSequence(f) /\ IsSequence(mid) /\ IsSequence(h)
  BY <1>1, <1>3, ShortSequences DEF AreSections
<1>6. (f \o mid) \o h = f \o (mid \o h)
  BY <1>5 DEF IsSequence
<1>7. IsBody(f \o rest, acc, closers)
  BY <1>1, <1>4, BodyIs
<1> QED BY <1>1, <1>6, <1>7

LEMMA BodiesAre ==
  ASSUME NEW b, NEW acc, NEW closers, b.np \in Nat \ {0}, b.sizes \in Nat,
         b.start = <<>> \/ Free(b.start), b.finish = <<>> \/ Free(b.finish),
         \A k \in 1 .. b.sizes : \A r \in 1 .. b.np : IsBody(b.body[k][r], acc[r - 1], closers)
  PROVE  IsOneSided(b, acc, closers)
<1>1. Free(<<>>)
  BY ShortAvoids DEF Free
<1> QED BY <1>1 DEF IsOneSided, IsBody

-----------------------------------------------------------------------------
DartSyncs == {"flush", "flush_local", "blocking", "req_handle"}

DartFirst(np, k, r) == Only(r \in {0, np - 1}, <<Touch>>) \o <<Call("memalloc"), SetIfLarge(k)>>

DartMid(sync, operation, np, r) ==
  Only(r = 0, <<DartLoop(operation, np - 1, sync), Once(<<TEnd>>)>>)

DartSize(sync, operation, np, k, r) ==
  <<Once(DartFirst(np, k, r))>> \o DartMid(sync, operation, np, r) \o <<Once(DartRelease(r))>>

\* OsuDartPut and OsuDartGet: the operation is "put" or "get".
IsDart(b, sync, operation, np) ==
  /\ sync \in DartSyncs /\ np \in Nat \ {0}
  /\ \/ operation = "put" /\ b = OsuDartPut(sync, np)
     \/ operation = "get" /\ b = OsuDartGet(sync, np)

IsDartProgram(b) == \E sync, operation, np : IsDart(b, sync, operation, np)

LEMMA DartRecord ==
  ASSUME NEW b, NEW sync, NEW operation, NEW np, IsDart(b, sync, operation, np)
  PROVE  /\ b.program = (IF operation = "put" THEN "osu_dart_put_latency" ELSE "osu_dart_get_latency")
         /\ b.sync = sync /\ b.np = np /\ b.sizes = NumSizes /\ b.start = <<>> /\ b.finish = <<>>
         /\ \A k \in 1 .. b.sizes : \A r \in 1 .. b.np :
              b.body[k][r] = DartSize(sync, operation, np, k, r - 1)
<1>1. PICK name : name = (IF operation = "put" THEN "osu_dart_put_latency" ELSE "osu_dart_get_latency")
  OBVIOUS
<1>2. PICK win, p : p = WithOptions(name, sync, win, np) /\ b = Dart(p, operation)
  <2>1. operation = "put" \/ operation = "get"
    BY DEF IsDart
  <2>2. operation = "put" => name = "osu_dart_put_latency" /\ b = OsuDartPut(sync, np)
    BY <1>1 DEF IsDart
  <2>3. operation = "get" => name = "osu_dart_get_latency" /\ b = OsuDartGet(sync, np)
    BY <1>1 DEF IsDart
  <2> QED BY <2>1, <2>2, <2>3, Zenon DEF OsuDartPut, OsuDartGet
<1>3. p.program = name /\ p.sync = sync /\ p.np = np
  BY <1>2 DEF WithOptions
<1>4. PICK bodies : bodies = [k \in 1 .. NumSizes |-> [r \in 1 .. p.np |->
        DartSize(p.sync, operation, p.np, k, r - 1)] \o <<>>] \o <<>>
  OBVIOUS
<1>5. PICK each : each = [k \in 1 .. NumSizes |-> [r \in 1 .. p.np |->
        DartSize(p.sync, operation, p.np, k, r - 1)]]
  OBVIOUS
<1>6. bodies = [k \in 1 .. NumSizes |-> each[k] \o <<>>] \o <<>>
  BY <1>4, <1>5
<1>7. \A k \in 1 .. NumSizes : each[k] = [r \in 1 .. p.np |-> each[k][r]]
  BY <1>5
<1>8. np \in Nat /\ NumSizes \in Nat
  BY OmbOpsAssumption DEF IsDart
<1>9. \A k \in 1 .. NumSizes : \A r \in 1 .. np : bodies[k][r] = each[k][r]
  BY <1>3, <1>6, <1>7, <1>8, RankBodies
<1>10. PICK fits : fits = TRUE
  OBVIOUS
<1>11. b = [program |-> p.program, sync |-> p.sync, win |-> p.win, np |-> p.np, fits |-> fits,
            sizes |-> NumSizes, start |-> <<>>, finish |-> <<>>, body |-> bodies]
  <2>1. Dart(p, operation) = [program |-> p.program, sync |-> p.sync, win |-> p.win, np |-> p.np,
           fits |-> fits, sizes |-> NumSizes, start |-> <<>>, finish |-> <<>>, body |-> bodies]
    BY <1>4, <1>10 DEF Dart, Benchmark, DartFirst, DartMid, DartSize
  <2> QED BY <1>2, <2>1
<1>12. /\ b.program = name /\ b.sync = sync /\ b.np = np /\ b.sizes = NumSizes
       /\ b.start = <<>> /\ b.finish = <<>> /\ b.body = bodies
  BY <1>3, <1>11
<1>13. \A k \in 1 .. NumSizes : \A r \in 1 .. np :
         bodies[k][r] = DartSize(sync, operation, np, k, r - 1)
  BY <1>3, <1>5, <1>9
<1> QED BY <1>1, <1>12, <1>13

DartAccess(operation, np) == [r \in 0 .. np - 1 |-> Access(operation, np - 1, "offset")]
DartCloser(sync) == IF sync = "flush_local" THEN "flush_local" ELSE "flush"

LEMMA DartIs ==
  ASSUME NEW b, NEW sync, NEW operation, NEW np, IsDart(b, sync, operation, np)
  PROVE  IsOneSided(b, DartAccess(operation, np), {DartCloser(sync)}) /\ OnlyRoot(b)
<1>1. PICK acc : acc = Access(operation, np - 1, "offset")
  OBVIOUS
<1>2. acc.op = "access"
  BY <1>1, AccessIs DEF IsAccess, Is
<1>3. ASSUME NEW k, NEW r
      PROVE  IsStraight(DartFirst(np, k, r)) /\ Avoids(DartFirst(np, k, r), {"access", "t_end"})
  <2>1. PICK f, g : /\ f = Only(r \in {0, np - 1}, <<Touch>>)
                    /\ g = <<Call("memalloc"), SetIfLarge(k)>>
    OBVIOUS
  <2>2. Avoids(f, {"access", "t_end"})
    BY <2>1, CallNames, ShortAvoids DEF Is, Only
  <2>3. Avoids(g, {"access", "t_end"}) /\ IsStraight(g)
    BY <2>1, CallNames, ShortAvoids, ShortStraight DEF Is
  <2>4. DartFirst(np, k, r) = f \o g
    BY <2>1 DEF DartFirst
  <2> QED BY <2>2, <2>3, <2>4, AvoidsJoined, StraightJoined DEF Avoids
<1>4. ASSUME NEW r
      PROVE  /\ Free(DartRelease(r)) /\ Avoids(DartRelease(r), {"access", "t_end"})
             /\ IsStraight(DartRelease(r))
  <2>1. /\ Avoids(<<Barrier>>, {"access", "t_end"} \cup Setters) /\ IsStraight(<<Barrier>>)
        /\ Avoids(<<Report>>, {"access", "t_end"} \cup Setters) /\ Avoids(<<>>, {"access", "t_end"} \cup Setters)
        /\ Avoids(<<Call("memfree")>>, {"access", "t_end"} \cup Setters)
    BY CallNames, ShortAvoids, ShortStraight DEF Is, Setters
  <2>2. Avoids(Only(r = 0, <<Report>>), {"access", "t_end"} \cup Setters)
    BY <2>1 DEF Only
  <2>3. /\ Avoids(<<Barrier>> \o Only(r = 0, <<Report>>), {"access", "t_end"} \cup Setters)
        /\ IsStraight(<<Barrier>> \o Only(r = 0, <<Report>>))
    BY <2>1, <2>2, AvoidsJoined, StraightJoined DEF Avoids
  <2>4. Avoids(DartRelease(r), {"access", "t_end"} \cup Setters) /\ IsStraight(DartRelease(r))
    BY <2>1, <2>3, AvoidsJoined, StraightJoined DEF Avoids, DartRelease
  <2> QED BY <2>4, AvoidsLess DEF Free
<1>5. AreSections(<<DartLoop(operation, np - 1, sync), Once(<<TEnd>>)>>, acc, {DartCloser(sync)})
  <2>1. PICK c, loop : /\ c = Measured(DartCompletion(sync))
                       /\ loop = <<AtSkip(TStart), acc, c>>
    OBVIOUS
  <2>2. c.op = DartCloser(sync) /\ ~c.at_skip /\ c.op \in {"flush", "flush_local"}
    BY <2>1, MeasuredNames DEF DartCompletion, DartCloser, Is
  <2>3. AtSkip(TStart).op \in Timers
    BY GuardedNames DEF IsAtSkip, Timers
  <2>4. c.op \notin {"access"} \cup Setters \cup Timers
    BY <2>2 DEF Setters, Timers
  <2>5. Transfers(loop, acc, {DartCloser(sync)})
    BY <1>2, <2>1, <2>2, <2>3, <2>4, ShortTransfers
  <2>6. PICK A, B : A = Loop(loop) /\ B = Once(<<TEnd>>)
    OBVIOUS
  <2>7. A.ops = loop /\ B.ops = <<TEnd>>
    BY <2>6 DEF Once, Loop
  <2>8. IsStraight(<<TEnd>>) /\ Free(<<TEnd>>)
    BY CallNames, ShortAvoids, ShortStraight DEF Is, Free, Setters
  <2>9. AreSections(<<A, B>>, acc, {DartCloser(sync)})
    BY <2>5, <2>7, <2>8, ShortSequences DEF AreSections, IsSectionOf
  <2>10. DartLoop(operation, np - 1, sync) = A
    BY <1>1, <2>1, <2>6 DEF DartLoop
  <2> QED BY <2>6, <2>9, <2>10
<1>6. ASSUME NEW k, NEW r PROVE IsBody(DartSize(sync, operation, np, k, r), acc, {DartCloser(sync)})
  <2>1. AreSections(DartMid(sync, operation, np, r), acc, {DartCloser(sync)})
    BY <1>5, ShortSections DEF DartMid, Only
  <2>2. Avoids(DartFirst(np, k, r), {"access"})
    BY <1>3, AvoidsLess
  <2> QED BY <1>3, <1>4, <2>1, <2>2, ThreeParts DEF DartSize
<1>7. /\ b.np = np /\ np \in Nat \ {0} /\ b.sizes = NumSizes /\ NumSizes \in Nat
      /\ b.start = <<>> /\ b.finish = <<>>
      /\ \A k \in 1 .. b.sizes : \A r \in 1 .. b.np :
           b.body[k][r] = DartSize(sync, operation, np, k, r - 1)
  <2>1. np \in Nat \ {0} /\ NumSizes \in Nat
    BY OmbOpsAssumption DEF IsDart
  <2> QED BY <2>1, DartRecord
<1>8. IsOneSided(b, DartAccess(operation, np), {DartCloser(sync)})
  <2>1. ASSUME NEW k \in 1 .. b.sizes, NEW r \in 1 .. b.np
        PROVE  IsBody(b.body[k][r], DartAccess(operation, np)[r - 1], {DartCloser(sync)})
    <3>1. r - 1 \in 0 .. np - 1
      BY <1>7
    <3>2. DartAccess(operation, np)[r - 1] = acc
      BY <1>1, <3>1 DEF DartAccess
    <3> QED BY <1>6, <1>7, <3>2
  <2> QED BY <1>7, <2>1, BodiesAre
<1>9. ASSUME NEW k, NEW r, r # 0
      PROVE  AllAvoid(DartSize(sync, operation, np, k, r), {"access", "t_end"})
  <2>1. DartMid(sync, operation, np, r) = <<>>
    BY <1>9 DEF DartMid, Only
  <2>2. /\ AllAvoid(<<Once(DartFirst(np, k, r))>>, {"access", "t_end"})
        /\ AllAvoid(<<>>, {"access", "t_end"})
        /\ AllAvoid(<<Once(DartRelease(r))>>, {"access", "t_end"})
    BY <1>3, <1>4, ShortAllAvoid
  <2> QED BY <2>1, <2>2, AllAvoidJoined DEF DartSize
<1>10. OnlyRoot(b)
  <2>1. ASSUME NEW k \in 1 .. b.sizes, NEW r \in 2 .. b.np
        PROVE  AllAvoid(b.body[k][r], {"access", "t_end"})
    <3>1. r \in 1 .. b.np /\ r - 1 # 0
      BY <1>7
    <3> QED BY <1>7, <1>9, <3>1
  <2> QED BY <1>7, <2>1, ShortAvoids DEF OnlyRoot, AllAvoid
<1> QED BY <1>8, <1>10

-----------------------------------------------------------------------------
ShmemName(operation) == IF operation = "put" THEN "osu_oshm_put" ELSE "osu_oshm_get"

ShmemTransfer(operation) ==
  IF operation = "put" THEN PutMem(1) \o <<Measured(Quiet)>> ELSE GetMem(1)

ShmemFirst(k) == <<Touch, SetIfLarge(k)>> \o BarrierAll

ShmemMid(operation, r) ==
  Only(r = 0, <<Loop(<<AtSkip(TStart)>> \o ShmemTransfer(operation)), Once(<<TEnd>>)>>)

ShmemLast(r) == BarrierAll \o Only(r = 0, <<Report>>)

ShmemSize(operation, k, r) ==
  <<Once(ShmemFirst(k))>> \o ShmemMid(operation, r) \o <<Once(ShmemLast(r))>>

\* osu_oshm_put and osu_oshm_get.
IsShmem(b, operation, heap, np) ==
  /\ np \in Nat \ {0}
  /\ \/ operation = "put" /\ b = OsuOshmPut(heap, np)
     \/ operation = "get" /\ b = OsuOshmGet(heap, np)

IsShmemProgram(b) == \E operation, heap, np : IsShmem(b, operation, heap, np)

LEMMA ShmemRecord ==
  ASSUME NEW b, NEW operation, NEW heap, NEW np, IsShmem(b, operation, heap, np)
  PROVE  /\ b.program = ShmemName(operation) /\ b.np = np /\ b.sizes = NumSizes
         /\ b.start = Only(heap, Window(2, Call("shmalloc")))
         /\ b.finish = BarrierAll \o Only(heap, Window(2, Call("shfree"))) \o BarrierAll
         /\ \A k \in 1 .. b.sizes : \A r \in 1 .. b.np : b.body[k][r] = ShmemSize(operation, k, r - 1)
<1>1. b = ShmemLatency(ShmemName(operation), heap, np, ShmemTransfer(operation))
  <2>1. operation = "put" \/ operation = "get"
    BY DEF IsShmem
  <2>2. ASSUME operation = "put"
        PROVE  b = ShmemLatency("osu_oshm_put", heap, np, PutMem(1) \o <<Measured(Quiet)>>)
    BY <2>2 DEF IsShmem, OsuOshmPut
  <2>3. ASSUME operation = "get"
        PROVE  b = ShmemLatency("osu_oshm_get", heap, np, GetMem(1))
    BY <2>3 DEF IsShmem, OsuOshmGet
  <2> QED BY <2>1, <2>2, <2>3 DEF ShmemName, ShmemTransfer
<1>2. PICK p, sync, win : /\ p = Launch(ShmemName(operation), np)
                          /\ p = [program |-> ShmemName(operation), sync |-> sync, win |-> win, np |-> np]
  BY Zenon DEF Launch, WithOptions
<1>3. PICK bodies : bodies = [k \in 1 .. NumSizes |-> [r \in 1 .. p.np |->
        ShmemSize(operation, k, r - 1)] \o <<>>] \o <<>>
  OBVIOUS
<1>4. PICK each : each = [k \in 1 .. NumSizes |-> [r \in 1 .. p.np |-> ShmemSize(operation, k, r - 1)]]
  OBVIOUS
<1>5. bodies = [k \in 1 .. NumSizes |-> each[k] \o <<>>] \o <<>>
  BY <1>3, <1>4
<1>6. \A k \in 1 .. NumSizes : each[k] = [r \in 1 .. p.np |-> each[k][r]]
  BY <1>4
<1>7. np \in Nat /\ NumSizes \in Nat /\ p.np = np /\ p.program = ShmemName(operation)
  BY <1>2, OmbOpsAssumption DEF IsShmem
<1>8. \A k \in 1 .. NumSizes : \A r \in 1 .. np : bodies[k][r] = each[k][r]
  BY <1>5, <1>6, <1>7, RankBodies
<1>9. PICK fits, start, finish :
        /\ fits = (np = 2)
        /\ start = Only(heap, Window(2, Call("shmalloc")))
        /\ finish = BarrierAll \o Only(heap, Window(2, Call("shfree"))) \o BarrierAll
  OBVIOUS
<1>10. b = [program |-> p.program, sync |-> p.sync, win |-> p.win, np |-> p.np, fits |-> fits,
            sizes |-> NumSizes, start |-> start, finish |-> finish, body |-> bodies]
  BY <1>1, <1>2, <1>3, <1>9, Zenon DEF ShmemLatency, Benchmark, ShmemFirst, ShmemMid, ShmemLast, ShmemSize
<1>11. /\ b.program = p.program /\ b.np = np /\ b.sizes = NumSizes
       /\ b.start = start /\ b.finish = finish /\ b.body = bodies
  BY <1>7, <1>10
<1>12. \A k \in 1 .. NumSizes : \A r \in 1 .. np : bodies[k][r] = ShmemSize(operation, k, r - 1)
  BY <1>4, <1>7, <1>8
<1> QED BY <1>7, <1>9, <1>11, <1>12

ShmemAccess(operation, np) == [r \in 0 .. np - 1 |-> Access(operation, 1, "offset")]
ShmemCloser(operation) == IF operation = "put" THEN "flush" ELSE "flush_local"

Inert == {"access", "t_end"} \cup Setters

LEMMA FencedIs ==
  /\ Avoids(FencedBarrier, Inert) /\ IsStraight(FencedBarrier)
  /\ Avoids(BarrierAll, Inert) /\ IsStraight(BarrierAll)
<1>1. Avoids(<<Flush, Barrier>>, Inert) /\ IsStraight(<<Flush, Barrier>>)
  BY CallNames, ShortAvoids, ShortStraight DEF Is, Inert, Setters
<1> QED BY <1>1 DEF BarrierAll, FencedBarrier

LEMMA ShmemTransfers ==
  ASSUME NEW operation \in {"put", "get"}, NEW acc, acc = Access(operation, 1, "offset")
  PROVE  Transfers(<<AtSkip(TStart)>> \o ShmemTransfer(operation), acc, {ShmemCloser(operation)})
<1>1. acc.op = "access"
  BY AccessIs DEF IsAccess, Is
<1>2. Free(<<AtSkip(TStart)>>)
  BY GuardedNames, ShortAvoids DEF IsAtSkip, Free, Setters
<1>3. PICK c : c = Measured(IF operation = "put" THEN Flush ELSE FlushLocal)
  OBVIOUS
<1>4. /\ c.op = ShmemCloser(operation) /\ Is(c, c.op)
      /\ c.op \in {ShmemCloser(operation)} \cap {"unlock", "flush", "flush_local", "complete"}
  BY <1>3, MeasuredNames DEF ShmemCloser, Is
<1>5. ASSUME operation = "put"
      PROVE  Transfers(ShmemTransfer(operation), acc, {ShmemCloser(operation)})
  <2>1. PICK f : f = <<acc, FlushLocal>>
    OBVIOUS
  <2>2. IsSequence(f) /\ Len(f) = 2 /\ f[1] = acc /\ f[2] = FlushLocal
    BY <2>1, ShortSequences
  <2>3. FlushLocal.op = "flush_local"
    BY CallNames DEF Is
  <2>4. Loads(f, acc)
    <3>1. 0 \in 0 .. Len(f) /\ \A n \in 1 .. Len(f) : (n = 1 \/ n = 2) /\ ~(n <= 0)
      BY <2>2
    <3> QED BY <1>1, <2>2, <2>3, <3>1 DEF Loads, Timers, Setters
  <2>5. Transfers(f \o <<c>>, acc, {ShmemCloser(operation)})
    BY <1>4, <2>4, ClosedBy
  <2>6. ShmemTransfer(operation) = f \o <<c>>
    BY <1>3, <1>5, <2>1 DEF ShmemTransfer, PutMem, Quiet
  <2> QED BY <2>5, <2>6
<1>6. ASSUME operation = "get"
      PROVE  Transfers(ShmemTransfer(operation), acc, {ShmemCloser(operation)})
  <2>1. Transfers(<<acc, c>>, acc, {ShmemCloser(operation)})
    <3>1. c.op \notin {"access"} \cup Setters \cup Timers
      BY <1>4 DEF Setters, Timers
    <3> QED BY <1>1, <1>4, <3>1, ShortTransfers DEF Is
  <2>2. ShmemTransfer(operation) = <<acc, c>>
    BY <1>3, <1>6 DEF ShmemTransfer, GetMem
  <2> QED BY <2>1, <2>2
<1>7. Transfers(ShmemTransfer(operation), acc, {ShmemCloser(operation)})
  BY <1>5, <1>6
<1> QED BY <1>2, <1>7, TransfersLater

LEMMA ShmemIs ==
  ASSUME NEW b, NEW operation, NEW heap, NEW np, IsShmem(b, operation, heap, np)
  PROVE  IsOneSided(b, ShmemAccess(operation, np), {ShmemCloser(operation)}) /\ OnlyRoot(b)
<1> DEFINE closers == {ShmemCloser(operation)}
<1>1. PICK acc : acc = Access(operation, 1, "offset")
  OBVIOUS
<1>2. ASSUME NEW k PROVE IsStraight(ShmemFirst(k)) /\ Avoids(ShmemFirst(k), Inert)
  <2>1. Avoids(<<Touch, SetIfLarge(k)>>, Inert)
    BY CallNames, ShortAvoids DEF Is, Inert, Setters
  <2> QED BY <2>1, FencedIs, AvoidsJoined, StraightJoined DEF Avoids, ShmemFirst
<1>3. ASSUME NEW r PROVE IsStraight(ShmemLast(r)) /\ Avoids(ShmemLast(r), Inert)
  <2>1. Avoids(Only(r = 0, <<Report>>), Inert)
    BY CallNames, ShortAvoids DEF Is, Only, Inert, Setters
  <2> QED BY <2>1, FencedIs, AvoidsJoined, StraightJoined DEF Avoids, ShmemLast
<1>4. ASSUME NEW ops, Avoids(ops, Inert)
      PROVE  Free(ops) /\ Avoids(ops, {"access", "t_end"}) /\ Avoids(ops, {"access"})
  BY <1>4, AvoidsLess DEF Inert, Free
<1>5. ASSUME NEW r PROVE AreSections(ShmemMid(operation, r), acc, closers)
  <2>1. PICK loop : loop = <<AtSkip(TStart)>> \o ShmemTransfer(operation)
    OBVIOUS
  <2>2. operation \in {"put", "get"}
    BY DEF IsShmem
  <2>3. Transfers(loop, acc, closers)
    BY <1>1, <2>1, <2>2, ShmemTransfers
  <2>4. PICK A, B : A = Loop(loop) /\ B = Once(<<TEnd>>)
    OBVIOUS
  <2>5. A.ops = loop /\ B.ops = <<TEnd>>
    BY <2>4 DEF Once, Loop
  <2>6. IsStraight(<<TEnd>>) /\ Free(<<TEnd>>)
    BY CallNames, ShortAvoids, ShortStraight DEF Is, Free, Setters
  <2>7. AreSections(<<A, B>>, acc, closers)
    BY <2>3, <2>5, <2>6, ShortSequences DEF AreSections, IsSectionOf
  <2>8. ShmemMid(operation, r) = IF r = 0 THEN <<A, B>> ELSE <<>>
    BY <2>1, <2>4 DEF ShmemMid, Only
  <2> QED BY <2>7, <2>8, ShortSections
<1>6. ASSUME NEW k, NEW r PROVE IsBody(ShmemSize(operation, k, r), acc, closers)
  BY <1>2, <1>3, <1>4, <1>5, ThreeParts DEF ShmemSize
<1>7. /\ b.np = np /\ np \in Nat \ {0} /\ b.sizes = NumSizes /\ NumSizes \in Nat
      /\ b.start = Only(heap, Window(2, Call("shmalloc")))
      /\ b.finish = BarrierAll \o Only(heap, Window(2, Call("shfree"))) \o BarrierAll
      /\ \A k \in 1 .. b.sizes : \A r \in 1 .. b.np : b.body[k][r] = ShmemSize(operation, k, r - 1)
  <2>1. np \in Nat \ {0} /\ NumSizes \in Nat
    BY OmbOpsAssumption DEF IsShmem
  <2> QED BY <2>1, ShmemRecord
<1>8. Avoids(b.start, Inert) /\ Avoids(b.finish, Inert)
  <2>1. \A c : Avoids(Only(heap, Window(2, Call(c))), Inert)
    <3>1. Avoids(<<>>, Inert)
      BY ShortAvoids
    <3>2. \A c : Avoids(Window(2, Call(c)), Inert)
      <4>1. \A c : Call(c).op \notin Inert
        BY CallNames DEF Is, Inert, Setters
      <4> QED BY <4>1, WindowAvoids
    <3> QED BY <3>1, <3>2 DEF Only
  <2>2. Avoids(BarrierAll \o Only(heap, Window(2, Call("shfree"))), Inert)
    BY <2>1, FencedIs, AvoidsJoined
  <2> QED BY <1>7, <2>1, <2>2, FencedIs, AvoidsJoined
<1>9. IsOneSided(b, ShmemAccess(operation, np), closers)
  <2>1. ASSUME NEW k \in 1 .. b.sizes, NEW r \in 1 .. b.np
        PROVE  IsBody(b.body[k][r], ShmemAccess(operation, np)[r - 1], closers)
    <3>1. r - 1 \in 0 .. np - 1
      BY <1>7
    <3>2. ShmemAccess(operation, np)[r - 1] = acc
      BY <1>1, <3>1 DEF ShmemAccess
    <3> QED BY <1>6, <1>7, <3>2
  <2> QED BY <1>4, <1>7, <1>8, <2>1, BodiesAre
<1>10. ASSUME NEW k, NEW r, r # 0
      PROVE  AllAvoid(ShmemSize(operation, k, r), {"access", "t_end"})
  <2>1. ShmemMid(operation, r) = <<>>
    BY <1>10 DEF ShmemMid, Only
  <2>2. /\ AllAvoid(<<Once(ShmemFirst(k))>>, {"access", "t_end"})
        /\ AllAvoid(<<>>, {"access", "t_end"})
        /\ AllAvoid(<<Once(ShmemLast(r))>>, {"access", "t_end"})
    BY <1>2, <1>3, <1>4, ShortAllAvoid
  <2> QED BY <2>1, <2>2, AllAvoidJoined DEF ShmemSize
<1>11. OnlyRoot(b)
  <2>1. ASSUME NEW k \in 1 .. b.sizes, NEW r \in 2 .. b.np
        PROVE  AllAvoid(b.body[k][r], {"access", "t_end"})
    <3>1. r \in 1 .. b.np /\ r - 1 # 0
      BY <1>7
    <3> QED BY <1>7, <1>10, <3>1
  <2> QED BY <1>4, <1>8, <2>1 DEF OnlyRoot, AllAvoid
<1> QED BY <1>9, <1>11

-----------------------------------------------------------------------------
\* The put and get programs of DART and OpenSHMEM promise what they do: only
\* dart_flush_local, after a put, leaves operations under way.
LEMMA DartPromises ==
  ASSUME NEW b, NEW sync, NEW operation, NEW np, IsDart(b, sync, operation, np)
  PROVE  /\ Sync(b) = (IF sync = "flush_local" THEN "flush_local" ELSE "flush")
         /\ CompletesLocally(b) <=> sync = "flush_local"
<1>1. b.sync = sync /\ b.program \in {"osu_dart_put_latency", "osu_dart_get_latency"}
  <2>1. PICK name : name = (IF operation = "put" THEN "osu_dart_put_latency"
                            ELSE "osu_dart_get_latency")
    OBVIOUS
  <2> QED BY <2>1, DartRecord
<1>2. Supported(b.program) = {"lock", "lock_all", "flush_local", "pscw", "fence"}
  BY <1>1 DEF Supported, Latency
<1>3. sync \in DartSyncs /\ b.program # "osu_put_bibw"
  BY <1>1 DEF IsDart
<1>4. Sync(b) = (IF sync = "flush_local" THEN "flush_local" ELSE "flush")
  BY <1>1, <1>2, <1>3 DEF Sync, DartSyncs
<1> QED BY <1>4 DEF CompletesLocally

LEMMA DartSettles ==
  ASSUME NEW b, NEW sync, NEW operation, NEW np, IsDart(b, sync, operation, np)
  PROVE  /\ WellFormed(b) /\ Aimed(b) /\ TimesOneWay(b) /\ Settling(b)
         /\ CompletesLocally(b) => Sync(b) = "flush_local"
<1> DEFINE acc == DartAccess(operation, np)
           closers == {DartCloser(sync)}
<1>1. IsOneSided(b, acc, closers) /\ OnlyRoot(b)
  BY DartIs
<1>2. b.np = np /\ b.np \in Nat /\ b.sizes \in Nat
  <2>1. np \in Nat /\ NumSizes \in Nat
    BY OmbOpsAssumption DEF IsDart
  <2>2. b.np = np /\ b.sizes = NumSizes
    BY DartRecord
  <2> QED BY <2>1, <2>2
<1>3. \A r \in 0 .. b.np - 1 : acc[r].disp = "offset" /\ acc[r].kind = operation
  BY <1>2, AccessIs DEF DartAccess, IsAccess
<1> HIDE DEF acc
<1>4. Fetches(b) \/ Delivers(b)
  <2>1. OnlyDoes(b, acc)
    BY <1>1, OneSidedAccess
  <2> QED BY <1>3, <2>1, OneSidedKinds
<1>5. Closes(b, closers)
  <2>1. CASE sync = "flush_local"
    <3>1. CompletesLocally(b)
      BY <2>1, DartPromises
    <3>2. closers = {"flush_local"}
      BY <2>1 DEF DartCloser
    <3> QED BY <3>1, <3>2 DEF Closes
  <2>2. CASE sync # "flush_local"
    BY <2>2 DEF Closes, DartCloser
  <2> QED BY <2>1, <2>2
<1> HIDE DEF closers
<1>6. Settling(b) /\ ReadsBetween(b)
  BY <1>1, <1>4, <1>5, OneSidedSettles
<1>7. WellFormed(b) /\ Aimed(b) /\ TimesOneWay(b)
  BY <1>1, <1>2, <1>3, <1>6, OneSidedIsWellFormed, OneSidedOffsets, RootTimes
<1>8. CompletesLocally(b) => Sync(b) = "flush_local"
  BY DartPromises
<1> QED BY <1>6, <1>7, <1>8

(***************************************************************************)
(* The put and get latency of DART, whatever -s and the number of units    *)
(* are: every operation touches the segment of the last unit, the          *)
(* operations of two iterations are under way at the same time only after  *)
(* dart_flush_local, and unit 0 reads the clock where its own operations   *)
(* are accounted for.                                                      *)
(***************************************************************************)
THEOREM DartTheorem ==
  WinSpec => [](IsDartProgram(benchmark)
                => AccessesHitTheWindow /\ UpdatesSeparated /\ TimedOperations)
<1>1. ASSUME IsDartProgram(benchmark)
      PROVE  WellFormed(benchmark) /\ Aimed(benchmark) /\ SettlesAll(benchmark)
               /\ TimesOneWay(benchmark)
  BY <1>1, DartSettles DEF IsDartProgram, SettlesAll
<1>2. (WellFormed(benchmark) /\ Aimed(benchmark) => AccessesHitTheWindow)
      /\ (WellFormed(benchmark) /\ SettlesAll(benchmark) => UpdatesSeparated)
      /\ (WellFormed(benchmark) /\ TimesOneWay(benchmark) => TimedOperations)
      => (IsDartProgram(benchmark)
          => AccessesHitTheWindow /\ UpdatesSeparated /\ TimedOperations)
  BY <1>1
<1> QED BY <1>2, HitTheorem, SettledTheorem, TimedTheorem, PTL

LEMMA ShmemSettles ==
  ASSUME NEW b, NEW operation, NEW heap, NEW np, IsShmem(b, operation, heap, np)
  PROVE  WellFormed(b) /\ Aimed(b) /\ TimesOneWay(b)
<1> DEFINE acc == ShmemAccess(operation, np)
           closers == {ShmemCloser(operation)}
<1>1. IsOneSided(b, acc, closers) /\ OnlyRoot(b)
  BY ShmemIs
<1>2. b.np = np /\ b.np \in Nat /\ b.sizes \in Nat
  <2>1. np \in Nat /\ NumSizes \in Nat
    BY OmbOpsAssumption DEF IsShmem
  <2>2. b.np = np /\ b.sizes = NumSizes
    BY ShmemRecord
  <2> QED BY <2>1, <2>2
<1>3. \A r \in 0 .. b.np - 1 : acc[r].disp = "offset" /\ acc[r].kind = operation
  BY <1>2, AccessIs DEF ShmemAccess, IsAccess
<1> HIDE DEF acc
<1>4. (operation = "get" => Fetches(b)) /\ (operation = "put" => Delivers(b))
  <2>1. OnlyDoes(b, acc)
    BY <1>1, OneSidedAccess
  <2>2. "get" \in Fetching /\ "put" \notin Fetching
    BY DEF Fetching
  <2> QED BY <1>3, <2>1, <2>2, OneSidedKinds
<1>5. operation \in {"put", "get"} /\ Closes(b, closers)
  <2>1. operation = "put" \/ operation = "get"
    BY DEF IsShmem
  <2>2. CASE operation = "put"
    BY <2>2 DEF Closes, ShmemCloser
  <2>3. CASE operation = "get"
    <3>1. closers = {"flush_local"}
      BY <2>3 DEF ShmemCloser
    <3> QED BY <1>4, <2>3, <3>1 DEF Closes
  <2> QED BY <2>1, <2>2, <2>3
<1> HIDE DEF closers
<1>6. ReadsBetween(b)
  BY <1>1, <1>4, <1>5, OneSidedSettles
<1> QED BY <1>1, <1>2, <1>3, <1>6, OneSidedIsWellFormed, OneSidedOffsets, RootTimes

(***************************************************************************)
(* The same for osu_oshm_put, in which shmem_quiet waits for the target,   *)
(* and osu_oshm_get, in which shmem_getmem returns with the data.          *)
(***************************************************************************)
THEOREM ShmemTheorem ==
  WinSpec => [](IsShmemProgram(benchmark) => AccessesHitTheWindow /\ TimedOperations)
<1>1. ASSUME IsShmemProgram(benchmark)
      PROVE  WellFormed(benchmark) /\ Aimed(benchmark) /\ TimesOneWay(benchmark)
  BY <1>1, ShmemSettles DEF IsShmemProgram
<1>2. (WellFormed(benchmark) /\ Aimed(benchmark) => AccessesHitTheWindow)
      /\ (WellFormed(benchmark) /\ TimesOneWay(benchmark) => TimedOperations)
      => (IsShmemProgram(benchmark) => AccessesHitTheWindow /\ TimedOperations)
  BY <1>1
<1> QED BY <1>2, HitTheorem, TimedTheorem, PTL
-----------------------------------------------------------------------------
(***************************************************************************)
(* Brackets: in a section, statement x opens something that statement y    *)
(* ends.                                                                   *)
(***************************************************************************)
Bracket(ops, x, y) ==
  /\ \A n \in 1 .. Len(ops) : ops[n].op \in {x, y} => ~ops[n].at_skip
  /\ \A m, n \in 1 .. Len(ops) : ops[m].op = x /\ ops[n].op = x => m = n
  /\ \A m, n \in 1 .. Len(ops) : ops[m].op = y /\ ops[n].op = y => m = n
  /\ \A m \in 1 .. Len(ops) : ops[m].op = x => \E w \in m + 1 .. Len(ops) : ops[w].op = y
  /\ \A w \in 1 .. Len(ops) : ops[w].op = y => \E m \in 1 .. w - 1 : ops[m].op = x

\* Between the two: x has been executed, y has not.
Inside(ops, p, x, y) ==
  /\ \E m \in 1 .. p - 1 : ops[m].op = x
  /\ \E w \in p .. Len(ops) : ops[w].op = y

IsIn(b, r, a, x, y) == a # Over /\ Inside(OpsIn(b, r, a), a.pos, x, y)

Brackets(b, r, x, y) ==
  \A k \in 0 .. b.sizes + 1 : \A s \in 1 .. Len(Sections(b, r, k)) :
    /\ Bracket(Sections(b, r, k)[s].ops, x, y)
    /\ \A n \in 1 .. Len(Sections(b, r, k)[s].ops) :
         Sections(b, r, k)[s].ops[n].op \in {x, y} => k \in 1 .. b.sizes

LEMMA BracketAt ==
  ASSUME NEW ops, Len(ops) \in Nat, NEW x, NEW y, Bracket(ops, x, y), x # y, NEW p \in 1 .. Len(ops)
  PROVE  /\ ops[p].op = x => ~Inside(ops, p, x, y) /\ \E w \in p + 1 .. Len(ops) :
                                ops[w].op = y /\ ~ops[w].at_skip
         /\ ops[p].op = y => Inside(ops, p, x, y)
         /\ Inside(ops, p, x, y) /\ ops[p].op # y => \E w \in p + 1 .. Len(ops) :
                                                       ops[w].op = y /\ ~ops[w].at_skip
<1>1. ASSUME ops[p].op = x PROVE ~Inside(ops, p, x, y)
  <2> SUFFICES ASSUME NEW m \in 1 .. p - 1, ops[m].op = x PROVE FALSE
    BY DEF Inside
  <2>1. m \in 1 .. Len(ops) /\ m # p
    OBVIOUS
  <2> QED BY <1>1, <2>1 DEF Bracket
<1>2. ASSUME ops[p].op = x
      PROVE  \E w \in p + 1 .. Len(ops) : ops[w].op = y /\ ~ops[w].at_skip
  <2>1. PICK w \in p + 1 .. Len(ops) : ops[w].op = y
    BY <1>2 DEF Bracket
  <2>2. w \in 1 .. Len(ops)
    OBVIOUS
  <2> QED BY <2>1, <2>2 DEF Bracket
<1>3. ASSUME ops[p].op = y PROVE Inside(ops, p, x, y)
  <2>1. p \in p .. Len(ops)
    OBVIOUS
  <2> QED BY <1>3, <2>1 DEF Bracket, Inside
<1>4. ASSUME Inside(ops, p, x, y), ops[p].op # y
      PROVE  \E w \in p + 1 .. Len(ops) : ops[w].op = y /\ ~ops[w].at_skip
  <2>1. PICK w \in p .. Len(ops) : ops[w].op = y
    BY <1>4 DEF Inside
  <2>2. w # p
    BY <1>4, <2>1
  <2>3. w \in 1 .. Len(ops) /\ w \in p + 1 .. Len(ops)
    BY <2>2
  <2> QED BY <2>1, <2>3 DEF Bracket
<1> QED BY <1>1, <1>2, <1>3, <1>4

\* A step of rank r from place a to place c.
LEMMA BracketMoves ==
  ASSUME NEW b, NEW r, NEW a, NEW c, NEW o, Goes(b, r, a, c, o), NEW x, NEW y, x # y,
         a # Over, Len(OpsIn(b, r, a)) \in Nat, a.pos \in 1 .. Len(OpsIn(b, r, a)),
         Bracket(OpsIn(b, r, a), x, y), c # Over => Bracket(OpsIn(b, r, c), x, y),
         c = Over => Finishes(b, r, a, c)
  PROVE  /\ OpsIn(b, r, a)[a.pos].op = x =>
              IsIn(b, r, c, x, y) /\ ~IsIn(b, r, a, x, y) /\ Within(b, r, a, c)
         /\ OpsIn(b, r, a)[a.pos].op = y => ~IsIn(b, r, c, x, y) /\ IsIn(b, r, a, x, y)
         /\ OpsIn(b, r, a)[a.pos].op \notin {x, y} => (IsIn(b, r, c, x, y) <=> IsIn(b, r, a, x, y))
         /\ IsIn(b, r, a, x, y) /\ OpsIn(b, r, a)[a.pos].op # y => Within(b, r, a, c)
<1> DEFINE ops == OpsIn(b, r, a)
           p == a.pos
<1>1. /\ ops[p].op = x => ~Inside(ops, p, x, y) /\ \E w \in p + 1 .. Len(ops) :
                             ops[w].op = y /\ ~ops[w].at_skip
      /\ ops[p].op = y => Inside(ops, p, x, y)
      /\ Inside(ops, p, x, y) /\ ops[p].op # y => \E w \in p + 1 .. Len(ops) :
                                                    ops[w].op = y /\ ~ops[w].at_skip
  <2> HIDE DEF ops, p
  <2>1. Len(ops) \in Nat /\ p \in 1 .. Len(ops) /\ Bracket(ops, x, y)
    BY DEF ops, p
  <2> QED BY <2>1, BracketAt
<1>2. p \in Nat
  OBVIOUS
<1>3. ASSUME NEW w \in p + 1 .. Len(ops), ~ops[w].at_skip
      PROVE  Within(b, r, a, c) /\ OpsIn(b, r, c) = ops /\ c.pos \in p + 1 .. w
  BY <1>2, <1>3, Unpassed
<1>4. Within(b, r, a, c) => OpsIn(b, r, c) = ops
  BY DEF Within, OpsIn, SectionIn
<1>5. IsIn(b, r, a, x, y) <=> Inside(ops, p, x, y)
  BY DEF IsIn
<1>6. ASSUME IsIn(b, r, c, x, y)
      PROVE  /\ Within(b, r, a, c)
             /\ \E m \in 1 .. p : ops[m].op = x
             /\ \E w \in p + 1 .. Len(ops) : ops[w].op = y
  <2>1. PICK m \in 1 .. c.pos - 1 : OpsIn(b, r, c)[m].op = x
    BY <1>6 DEF IsIn, Inside
  <2>2. Arrives(b, r, c, o) /\ (Within(b, r, a, c) \/ Crosses(b, r, a, c))
    BY <1>6 DEF Goes, Finishes, IsIn
  <2>3. c.pos \in 1 .. Len(OpsIn(b, r, c)) /\ c # Over
    BY <1>6, <2>2 DEF Arrives, IsSpot, IsIn
  <2>4. ~OpsIn(b, r, c)[m].at_skip
    <3>1. m \in 1 .. Len(OpsIn(b, r, c))
      <4>1. Len(OpsIn(b, r, c)) \in Int \/ Len(OpsIn(b, r, c)) \notin Int
        OBVIOUS
      <4> QED BY <2>3, <4>1
    <3> QED BY <2>1, <2>3, <3>1 DEF Bracket
  <2>5. Within(b, r, a, c) /\ OpsIn(b, r, c) = ops /\ m <= p
    BY <1>2, <2>1, <2>2, <2>4, PassedBefore
  <2>6. PICK w \in c.pos .. Len(ops) : ops[w].op = y
    BY <1>6, <2>5 DEF IsIn, Inside
  <2>7. c.pos > p /\ c.pos \in 1 .. Len(ops)
    BY <2>3, <2>5 DEF Within, Skips
  <2> HIDE DEF ops, p
  <2>8. m \in 1 .. p
    BY <1>2, <2>5, <2>7
  <2>9. w \in p + 1 .. Len(ops)
    BY <1>2, <2>7
  <2> QED BY <2>1, <2>5, <2>6, <2>8, <2>9
<1>7. ASSUME NEW w \in p + 1 .. Len(ops), ops[w].op = y, ~ops[w].at_skip,
             NEW m \in 1 .. p, ops[m].op = x
      PROVE  IsIn(b, r, c, x, y)
  <2>1. Within(b, r, a, c) /\ OpsIn(b, r, c) = ops /\ c.pos \in p + 1 .. w
    BY <1>3, <1>7
  <2>2. c # Over
    <3>1. CASE Arrives(b, r, c, o) /\ c # Over
      BY <3>1
    <3>2. CASE c = Over
      <4>1. Finishes(b, r, a, c)
        BY <3>2
      <4>2. Ends(ops, p)
        BY <4>1 DEF Finishes
      <4> QED BY <1>7, <4>2 DEF Ends
    <3> QED BY <3>2
  <2>3. m \in 1 .. c.pos - 1 /\ w \in c.pos .. Len(ops)
    <3> HIDE DEF ops, p
    <3>1. Len(ops) \in Nat
      BY DEF ops
    <3> QED BY <1>2, <2>1, <3>1
  <2> QED BY <1>7, <2>1, <2>2, <2>3 DEF IsIn, Inside
<1>8. ASSUME ops[p].op = x PROVE IsIn(b, r, c, x, y) /\ Within(b, r, a, c)
  <2>1. PICK w \in p + 1 .. Len(ops) : ops[w].op = y /\ ~ops[w].at_skip
    BY <1>1, <1>8
  <2>2. p \in 1 .. p
    OBVIOUS
  <2> QED BY <1>3, <1>7, <1>8, <2>1, <2>2
<1>9. ASSUME ops[p].op = y, IsIn(b, r, c, x, y) PROVE FALSE
  <2>1. PICK w \in p + 1 .. Len(ops) : ops[w].op = y
    BY <1>6, <1>9
  <2>2. w \in 1 .. Len(ops) /\ w # p /\ p \in 1 .. Len(ops)
    OBVIOUS
  <2> QED BY <1>9, <2>1, <2>2 DEF Bracket
<1>10. ASSUME ops[p].op \notin {x, y}, IsIn(b, r, a, x, y) PROVE IsIn(b, r, c, x, y)
  <2>1. PICK w \in p + 1 .. Len(ops) : ops[w].op = y /\ ~ops[w].at_skip
    BY <1>1, <1>5, <1>10
  <2>2. PICK m \in 1 .. p - 1 : ops[m].op = x
    BY <1>5, <1>10 DEF Inside
  <2>3. m \in 1 .. p
    OBVIOUS
  <2> QED BY <1>7, <2>1, <2>2, <2>3
<1>11. ASSUME ops[p].op \notin {x, y}, IsIn(b, r, c, x, y) PROVE IsIn(b, r, a, x, y)
  <2>1. PICK m \in 1 .. p : ops[m].op = x
    BY <1>6, <1>11
  <2>2. PICK w \in p + 1 .. Len(ops) : ops[w].op = y
    BY <1>6, <1>11
  <2>3. m # p
    BY <1>11, <2>1
  <2>4. m \in 1 .. p - 1 /\ w \in p .. Len(ops)
    BY <2>3
  <2> QED BY <1>5, <2>1, <2>2, <2>4 DEF Inside
<1>12. ASSUME IsIn(b, r, a, x, y), ops[p].op # y PROVE Within(b, r, a, c)
  BY <1>1, <1>3, <1>5, <1>12
<1> QED BY <1>1, <1>5, <1>8, <1>9, <1>10, <1>11, <1>12

\* Rank r stays in the section and the iteration where it is.
StaysIn(r) ==
  /\ at'[r] # Over /\ at'[r].size = at[r].size /\ at'[r].iter = at[r].iter
  /\ OpsIn(benchmark, r, at'[r]) = OpsIn(benchmark, r, at[r]) /\ at'[r].pos >= at[r].pos

LEMMA RankBrackets ==
  ASSUME Standing, NEW r \in Ranks, Acts(r), NEW x, NEW y, x # y, {x, y} \cap {"call", "check"} = {},
         Brackets(benchmark, r, x, y)
  PROVE  LET In == IsIn(benchmark, r, at[r], x, y)
             After == IsIn(benchmark, r, at'[r], x, y)
         IN  /\ Op(r).op = x => After /\ ~In /\ StaysIn(r)
             /\ Op(r).op = y => ~After /\ In
             /\ Op(r).op \notin {x, y} => (After <=> In)
             /\ In /\ Op(r).op # y => StaysIn(r)
<1> DEFINE b == benchmark
           a == at[r]
           c == at'[r]
<1>1. WellFormed(b) /\ Placed /\ b' = b
  <2>1. launch' = launch
    BY DEF Acts
  <2> QED BY <2>1, SameLaunch DEF Standing
<1>2. /\ a # Over /\ IsSpot(b, r, a) /\ Op(r) = OpsIn(b, r, a)[a.pos]
      /\ \/ c = Usage /\ Op(r).op = "check" /\ ~Usable
         \/ c = a /\ Op(r).op = "call"
         \/ Goes(b, r, a, c, options'[r])
  BY <1>1, ActsAt
<1>3. /\ a.size \in 0 .. b.sizes + 1 /\ b.sizes \in Nat
      /\ a.seg \in 1 .. Len(Sections(b, r, a.size))
      /\ a.pos \in 1 .. Len(OpsIn(b, r, a)) /\ Len(OpsIn(b, r, a)) \in Nat /\ a.pos \in Nat
  BY <1>1, <1>2, SpotHasOp
<1>4. ASSUME NEW d, IsSpot(b, r, d)
      PROVE  /\ Bracket(OpsIn(b, r, d), x, y)
             /\ IsIn(b, r, d, x, y) => d.size \in 1 .. b.sizes
  <2>1. /\ d.size \in 0 .. b.sizes + 1 /\ d.seg \in 1 .. Len(Sections(b, r, d.size))
        /\ d.pos \in 1 .. Len(OpsIn(b, r, d)) /\ Len(OpsIn(b, r, d)) \in Nat /\ d.pos \in Nat
    BY <1>1, <1>4, SpotHasOp
  <2>2. OpsIn(b, r, d) = Sections(b, r, d.size)[d.seg].ops
    BY DEF OpsIn, SectionIn
  <2>3. /\ Bracket(OpsIn(b, r, d), x, y)
        /\ \A n \in 1 .. Len(OpsIn(b, r, d)) : OpsIn(b, r, d)[n].op \in {x, y} => d.size \in 1 .. b.sizes
    BY <2>1, <2>2 DEF Brackets
  <2>4. ASSUME IsIn(b, r, d, x, y) PROVE d.size \in 1 .. b.sizes
    <3>1. PICK m \in 1 .. d.pos - 1 : OpsIn(b, r, d)[m].op = x
      BY <2>4 DEF IsIn, Inside
    <3>2. m \in 1 .. Len(OpsIn(b, r, d))
      BY <2>1
    <3> QED BY <2>3, <3>1, <3>2
  <2> QED BY <2>3, <2>4
<1>5. CASE c = Usage /\ Op(r).op = "check" /\ ~Usable
  <2>1. IsSpot(b, r, Usage) /\ Usage.size = b.sizes + 1
    BY <1>1, UsageIsSpot
  <2>2. ~IsIn(b, r, c, x, y)
    BY <1>3, <1>4, <1>5, <2>1
  <2>3. ~IsIn(b, r, a, x, y)
    BY <1>2, <1>4, <1>5, InSizeUsable
  <2> QED BY <1>5, <2>2, <2>3
<1>6. CASE c = a /\ Op(r).op = "call"
  <2>1. StaysIn(r)
    BY <1>2, <1>3, <1>6 DEF StaysIn
  <2> QED BY <1>6, <2>1
<1>7. CASE Goes(b, r, a, c, options'[r])
  <2>1. c = Over => Finishes(b, r, a, c)
    BY <1>1, <1>7, SpotIsNotOver DEF Goes, Arrives
  <2>2. c # Over => Bracket(OpsIn(b, r, c), x, y)
    BY <1>4, <1>7 DEF Goes, Arrives, Finishes
  <2>3. Bracket(OpsIn(b, r, a), x, y)
    BY <1>2, <1>4
  <2>4. Within(b, r, a, c) => StaysIn(r)
    <3>1. Within(b, r, a, c) => OpsIn(b, r, c) = OpsIn(b, r, a)
      BY DEF Within, OpsIn, SectionIn
    <3>2. Within(b, r, a, c) => c # Over
      <4>1. Over.size = b.sizes + 2
        BY <1>3 DEF Over, Closing
      <4> QED BY <1>3, <4>1 DEF Within
    <3>3. Within(b, r, a, c) => c.pos >= a.pos /\ c.size = a.size /\ c.iter = a.iter
      <4> SUFFICES ASSUME Within(b, r, a, c) PROVE c.pos >= a.pos /\ c.size = a.size /\ c.iter = a.iter
        OBVIOUS
      <4>1. c.pos \in Nat
        <5>1. IsSpot(b, r, c)
          BY <1>7, <3>2 DEF Goes, Arrives, Finishes
        <5> QED BY <1>1, <5>1, SpotHasOp
      <4> QED BY <1>3, <4>1 DEF Within, Skips
    <3> QED BY <3>1, <3>2, <3>3 DEF StaysIn
  <2> HIDE DEF b, a, c
  <2>5. /\ OpsIn(b, r, a)[a.pos].op = x =>
              IsIn(b, r, c, x, y) /\ ~IsIn(b, r, a, x, y) /\ Within(b, r, a, c)
        /\ OpsIn(b, r, a)[a.pos].op = y => ~IsIn(b, r, c, x, y) /\ IsIn(b, r, a, x, y)
        /\ OpsIn(b, r, a)[a.pos].op \notin {x, y} => (IsIn(b, r, c, x, y) <=> IsIn(b, r, a, x, y))
        /\ IsIn(b, r, a, x, y) /\ OpsIn(b, r, a)[a.pos].op # y => Within(b, r, a, c)
    BY <1>2, <1>3, <1>7, <2>1, <2>2, <2>3, BracketMoves
  <2> QED BY <1>2, <2>4, <2>5 DEF a, b, c
<1> QED BY <1>2, <1>5, <1>6, <1>7

LEMMA EffectsAt ==
  ASSUME Placed, NEW r \in Ranks, Acts(r)
  PROVE  /\ \A q \in Ranks \ {r} : /\ access'[q] = access[q] /\ exposed'[q] = exposed[q]
                                   /\ posted'[q] = posted[q] /\ started'[q] = started[q]
         /\ Op(r).op = "start_epoch" => access'[r] = "start" /\ started'[r] = started[r] + 1
         /\ Op(r).op # "start_epoch" => started'[r] = started[r]
         /\ Op(r).op = "complete" => access'[r] = "none"
         /\ Op(r).op \notin {"lock", "unlock", "start_epoch", "complete"} => access'[r] = access[r]
         /\ Op(r).op = "post" => posted'[r] = posted[r] + 1 /\ exposed'[r] = TRUE
         /\ Op(r).op # "post" => posted'[r] = posted[r]
         /\ Op(r).op = "win_wait" => exposed'[r] = FALSE
         /\ Op(r).op \notin {"post", "win_wait"} => exposed'[r] = exposed[r]
<1>1. Effects(r) /\ DOMAIN access = Ranks /\ DOMAIN exposed = Ranks /\ DOMAIN posted = Ranks
      /\ DOMAIN started = Ranks
  BY DEF Acts, Placed
<1> QED BY <1>1 DEF Effects

-----------------------------------------------------------------------------
(***************************************************************************)
(* Epochs.  Between MPI_Win_start and MPI_Win_complete a rank is inside an *)
(* access epoch, between MPI_Win_post and MPI_Win_wait its window is       *)
(* exposed.                                                                *)
(***************************************************************************)
Opens(r) == IsIn(benchmark, r, at[r], "start_epoch", "complete")
Bares(r) == IsIn(benchmark, r, at[r], "post", "win_wait")

\* In program b all operations belong to access epochs, and epochs to
\* iterations.
InEpochs(b) ==
  \A r \in 0 .. b.np - 1 :
    /\ Brackets(b, r, "start_epoch", "complete") /\ Brackets(b, r, "post", "win_wait")
    /\ \A k \in 0 .. b.sizes + 1 : \A s \in 1 .. Len(Sections(b, r, k)) :
         LET ops == Sections(b, r, k)[s].ops
         IN  \A n \in 1 .. Len(ops) :
               /\ ops[n].op \notin {"lock", "unlock"}
               /\ ops[n].op = "access" => Inside(ops, n, "start_epoch", "complete")

SameTurn(e, f) == e.size = f.size /\ e.iter = f.iter

EpochOn(r) ==
  /\ posted[r] \in Nat /\ started[r] \in Nat /\ exposed[r] \in BOOLEAN
  /\ access[r] = "start" <=> Opens(r)
  /\ exposed[r] <=> Bares(r)
  /\ \A e \in Entries(r) : e.epoch \in Nat /\ e.epoch <= started[r]
  /\ Opens(r) => \A e \in Entries(r) : e.epoch = started[r] => SameTurn(e, at[r])
  /\ \A e, f \in Entries(r) : e.epoch = f.epoch => SameTurn(e, f)
  /\ Entries(r) # {} => Usable

EpochInv == WellFormed(benchmark) /\ InEpochs(benchmark) => \A r \in Ranks : EpochOn(r)

\* How many exposure epochs of r are over.
Closed(r) == IF exposed[r] THEN posted[r] - 1 ELSE posted[r]

\* Rank q has completed the accesses to all of those, and its operations in
\* them have taken place.
Served(q, r) ==
  /\ started[q] > Closed(r) \/ (started[q] = Closed(r) /\ access[q] # "start")
  /\ \A e \in Entries(q) : e.epoch > Closed(r)

ServedInv ==
  WellFormed(benchmark) /\ InEpochs(benchmark) =>
    \A r \in Ranks : \A q \in Ranks \ {r} : Served(q, r)

LEMMA MoverEpoch ==
  ASSUME Standing, InEpochs(benchmark), NEW r \in Ranks, EpochOn(r), Acts(r)
  PROVE  EpochOn(r)'
<1> DEFINE b == benchmark
           a == at[r]
<1>1. launch' = launch /\ b' = b /\ Over' = Over /\ Usable' = Usable /\ WellFormed(b) /\ Placed
  <2>1. launch' = launch
    BY DEF Acts
  <2> QED BY <2>1, SameLaunch DEF Standing
<1>2. \A x, y : IsIn(b, r, at'[r], x, y) <=> IsIn(b, r, at[r], x, y)'
  BY <1>1 DEF IsIn
<1>3. /\ Op(r).op = "start_epoch" => Opens(r)' /\ ~Opens(r) /\ StaysIn(r)
      /\ Op(r).op = "complete" => ~Opens(r)' /\ Opens(r)
      /\ Op(r).op \notin {"start_epoch", "complete"} => (Opens(r)' <=> Opens(r))
      /\ Opens(r) /\ Op(r).op # "complete" => StaysIn(r)
  <2>1. Brackets(b, r, "start_epoch", "complete")
    BY DEF InEpochs, Ranks
  <2> QED BY <1>2, <2>1, RankBrackets DEF Opens
<1>4. /\ Op(r).op = "post" => Bares(r)' /\ ~Bares(r)
      /\ Op(r).op = "win_wait" => ~Bares(r)' /\ Bares(r)
      /\ Op(r).op \notin {"post", "win_wait"} => (Bares(r)' <=> Bares(r))
  <2>1. Brackets(b, r, "post", "win_wait")
    BY DEF InEpochs, Ranks
  <2> QED BY <1>2, <2>1, RankBrackets DEF Bares
<1>5. /\ a # Over /\ IsSpot(b, r, a) /\ Op(r) = OpsIn(b, r, a)[a.pos]
      /\ a.size \in 0 .. b.sizes + 1 /\ a.seg \in 1 .. Len(Sections(b, r, a.size))
      /\ a.pos \in 1 .. Len(OpsIn(b, r, a)) /\ OpsIn(b, r, a) = Sections(b, r, a.size)[a.seg].ops
  BY <1>1, ActsAt, SpotHasOp DEF OpsIn, SectionIn
<1>6. /\ Op(r).op \notin {"lock", "unlock"}
      /\ Op(r).op = "access" => Opens(r)
  <2>1. PICK ops : ops = Sections(b, r, a.size)[a.seg].ops
    OBVIOUS
  <2>2. a.pos \in 1 .. Len(ops) /\ Op(r) = ops[a.pos] /\ ops = OpsIn(b, r, a)
    BY <1>5, <2>1
  <2>3. /\ ops[a.pos].op \notin {"lock", "unlock"}
        /\ ops[a.pos].op = "access" => Inside(ops, a.pos, "start_epoch", "complete")
    BY <1>5, <2>1, <2>2 DEF InEpochs, Ranks
  <2> QED BY <1>5, <2>2, <2>3 DEF Opens, IsIn
<1>7. /\ Op(r).op = "access" => Entries(r)' = Entries(r) \cup {Issued(r)}
      /\ Op(r).op # "access" => Entries(r)' = Entries(r)
  BY <1>1, EntriesWhenActs DEF Standing
<1>8. posted'[r] \in Nat /\ started'[r] \in Nat /\ exposed'[r] \in BOOLEAN
  <2>1. /\ posted'[r] = posted[r] \/ posted'[r] = posted[r] + 1
        /\ started'[r] = started[r] \/ started'[r] = started[r] + 1
        /\ exposed'[r] = exposed[r] \/ exposed'[r] = TRUE \/ exposed'[r] = FALSE
    BY <1>1, EffectsAt
  <2>2. posted[r] \in Nat /\ started[r] \in Nat /\ exposed[r] \in BOOLEAN
    BY DEF EpochOn
  <2>3. posted'[r] \in Nat /\ started'[r] \in Nat
    BY <2>1, <2>2
  <2>4. exposed'[r] \in BOOLEAN
    BY <2>1, <2>2
  <2> QED BY <2>3, <2>4
<1>9. access'[r] = "start" <=> Opens(r)'
  BY <1>1, <1>3, <1>6, EffectsAt DEF EpochOn
<1>10. exposed'[r] <=> Bares(r)'
  BY <1>1, <1>4, EffectsAt DEF EpochOn
<1>11. Op(r).op = "access" => /\ Issued(r).epoch = started[r] /\ SameTurn(Issued(r), a)
                              /\ started'[r] = started[r]
  <2> SUFFICES ASSUME Op(r).op = "access"
               PROVE  /\ Issued(r).epoch = started[r] /\ SameTurn(Issued(r), a)
                      /\ started'[r] = started[r]
    OBVIOUS
  <2>1. access[r] = "start"
    BY <1>6 DEF EpochOn
  <2> QED BY <1>1, <2>1, EffectsAt DEF Issued, SameTurn
<1>12. \A e \in Entries(r)' : e.epoch \in Nat /\ e.epoch <= started'[r]
  <2>1. started'[r] = started[r] \/ started'[r] = started[r] + 1
    BY <1>1, EffectsAt
  <2>2. \A e \in Entries(r) : e.epoch \in Nat /\ e.epoch <= started[r]
    BY DEF EpochOn
  <2>3. started[r] \in Nat
    BY DEF EpochOn
  <2> QED BY <1>7, <1>11, <2>1, <2>2, <2>3
<1>13. Opens(r)' => \A e \in Entries(r)' : e.epoch = started'[r] => SameTurn(e, at'[r])
  <2> SUFFICES ASSUME Opens(r)', NEW e \in Entries(r)', e.epoch = started'[r]
               PROVE  SameTurn(e, at'[r])
    OBVIOUS
  <2>1. CASE Op(r).op = "start_epoch"
    <3>1. started'[r] = started[r] + 1 /\ started[r] \in Nat /\ e \in Entries(r)
      BY <1>1, <1>7, <2>1, EffectsAt DEF EpochOn
    <3>2. e.epoch \in Nat /\ e.epoch <= started[r]
      BY <3>1 DEF EpochOn
    <3> QED BY <3>1, <3>2
  <2>2. CASE Op(r).op # "start_epoch"
    <3>1. Opens(r) /\ StaysIn(r)
      BY <1>3, <2>2
    <3>2. started'[r] = started[r]
      BY <1>1, <2>2, EffectsAt
    <3>3. SameTurn(e, a)
      BY <1>7, <1>11, <3>1, <3>2 DEF EpochOn
    <3> QED BY <3>1, <3>3 DEF StaysIn, SameTurn
  <2> QED BY <2>1, <2>2
<1>14. \A e, f \in Entries(r)' : e.epoch = f.epoch => SameTurn(e, f)
  <2>1. \A e, f \in Entries(r) : e.epoch = f.epoch => SameTurn(e, f)
    BY DEF EpochOn
  <2>2. Op(r).op = "access" =>
          \A e \in Entries(r) : e.epoch = Issued(r).epoch => SameTurn(e, a)
    BY <1>6, <1>11 DEF EpochOn
  <2>3. Op(r).op = "access" =>
          \A e \in Entries(r) : e.epoch = Issued(r).epoch =>
            SameTurn(e, Issued(r)) /\ SameTurn(Issued(r), e)
    BY <1>11, <2>2 DEF SameTurn
  <2>4. SameTurn(Issued(r), Issued(r))
    BY DEF SameTurn
  <2> QED BY <1>7, <2>1, <2>3, <2>4
<1>15. Entries(r)' # {} => Usable
  <2>1. CASE Op(r).op = "access"
    <3>1. Opens(r)
      BY <1>6, <2>1
    <3>2. PICK m \in 1 .. a.pos - 1 : OpsIn(b, r, a)[m].op = "start_epoch"
      BY <3>1 DEF Opens, IsIn, Inside
    <3>3. m \in 1 .. Len(OpsIn(b, r, a))
      BY <1>1, <1>5, <3>2, SpotHasOp
    <3>4. a.size \in 1 .. b.sizes
      BY <1>5, <3>2, <3>3 DEF InEpochs, Brackets, Ranks
    <3> QED BY <1>5, <3>4, InSizeUsable
  <2>2. CASE Op(r).op # "access"
    BY <1>7, <2>2 DEF EpochOn
  <2> QED BY <2>1, <2>2
<1> QED BY <1>1, <1>8, <1>9, <1>10, <1>12, <1>13, <1>14, <1>15 DEF EpochOn

LEMMA OthersStay ==
  ASSUME Placed, NEW r \in Ranks, Acts(r), NEW q \in Ranks \ {r}
  PROVE  /\ access'[q] = access[q] /\ exposed'[q] = exposed[q]
         /\ posted'[q] = posted[q] /\ started'[q] = started[q]
<1>1. Effects(r) /\ DOMAIN access = Ranks /\ DOMAIN exposed = Ranks /\ DOMAIN posted = Ranks
      /\ DOMAIN started = Ranks
  BY DEF Acts, Placed
<1> QED BY <1>1 DEF Effects

LEMMA EpochStep ==
  ASSUME PlaceInv, QueueInv, EpochInv, [WinNext]_<<vars, windows>>
  PROVE  EpochInv'
<1> SUFFICES ASSUME WellFormed(benchmark)', InEpochs(benchmark)', NEW q \in Ranks'
             PROVE  EpochOn(q)'
  BY DEF EpochInv
<1>1. /\ Standing /\ launch' = launch /\ benchmark' = benchmark /\ Ranks' = Ranks /\ Over' = Over
      /\ Usable' = Usable
      /\ \/ \E r \in Ranks : Acts(r)
         \/ \E r \in Ranks : \E n : Lapses(r, n)
         \/ Rests
  BY StandingStep, SameLaunch
<1>2. q \in Ranks /\ InEpochs(benchmark) /\ WellFormed(benchmark) /\ Placed /\ EpochOn(q)
  BY <1>1 DEF Standing, EpochInv
<1>3. ASSUME Entries(q)' \subseteq Entries(q), at'[q] = at[q], posted'[q] = posted[q],
             started'[q] = started[q], exposed'[q] = exposed[q], access'[q] = access[q]
      PROVE  EpochOn(q)'
  <2>1. (Opens(q)' <=> Opens(q)) /\ (Bares(q)' <=> Bares(q))
    BY <1>1, <1>3 DEF Opens, Bares, IsIn
  <2> QED BY <1>1, <1>2, <1>3, <2>1 DEF EpochOn
<1>4. CASE \E r \in Ranks : Acts(r)
  <2>1. PICK r \in Ranks : Acts(r)
    BY <1>4
  <2>2. CASE q = r
    BY <1>1, <1>2, <2>1, <2>2, MoverEpoch
  <2>3. CASE q # r
    <3>1. Entries(q)' \subseteq Entries(q)
      BY <1>1, <1>2, <2>1, <2>3, EntriesWhenActs DEF Standing
    <3>2. at'[q] = at[q]
      BY <1>2, <2>1, <2>3, ActsAt
    <3>3. /\ posted'[q] = posted[q] /\ started'[q] = started[q] /\ exposed'[q] = exposed[q]
          /\ access'[q] = access[q]
      BY <1>2, <2>1, <2>3, OthersStay
    <3> QED BY <1>3, <3>1, <3>2, <3>3
  <2> QED BY <2>2, <2>3
<1>5. CASE \E r \in Ranks : \E n : Lapses(r, n)
  <2>1. Entries(q)' \subseteq Entries(q)
    BY <1>1, <1>2, <1>5, EntriesWhenLapses DEF Standing
  <2> QED BY <1>3, <1>5, <2>1 DEF Lapses
<1>6. CASE Rests
  BY <1>3, <1>6 DEF Rests, windows, epochs, Entries
<1> QED BY <1>1, <1>4, <1>5, <1>6

LEMMA EpochInit ==
  ASSUME WinInit, WellFormed(benchmark), InEpochs(benchmark), NEW r \in Ranks
  PROVE  EpochOn(r)
<1>1. Entries(r) = {}
  BY NoEntriesInit
<1>2. /\ posted[r] = 0 /\ started[r] = 0 /\ exposed[r] = FALSE /\ access[r] = "none"
      /\ at[r] = Place(0, 1, 0, 1)
  BY DEF WinInit, Init, Place
<1>3. \A x, y : ~IsIn(benchmark, r, at[r], x, y)
  <2>1. at[r].pos = 1
    BY <1>2 DEF Place
  <2> QED BY <2>1 DEF IsIn, Inside
<1>4. posted[r] \in Nat /\ started[r] \in Nat
  BY <1>2
<1>5. exposed[r] \in BOOLEAN /\ ~exposed[r] /\ access[r] # "start"
  BY <1>2
<1>6. ~Opens(r) /\ ~Bares(r)
  BY <1>3 DEF Opens, Bares
<1> QED BY <1>1, <1>4, <1>5, <1>6 DEF EpochOn

(***************************************************************************)
(* In such a program the epochs of a rank are those of its place, and the  *)
(* operations of one epoch belong to one iteration.                        *)
(***************************************************************************)
THEOREM EpochInvariance == WinSpec => []EpochInv
<1>1. WinInit => EpochInv
  BY EpochInit DEF EpochInv
<1>2. PlaceInv /\ QueueInv /\ EpochInv /\ [WinNext]_<<vars, windows>> => EpochInv'
  BY EpochStep
<1> QED BY <1>1, <1>2, PlaceInvariance, QueueInvariance, PTL DEF WinSpec

LEMMA TargetServes ==
  ASSUME Standing, InEpochs(benchmark), NEW r \in Ranks, NEW q \in Ranks \ {r}, EpochOn(r),
         EpochOn(q), Served(q, r), Acts(r)
  PROVE  Served(q, r)'
<1>1. Placed /\ WellFormed(benchmark) /\ \A z \in Ranks : IsSequence(pending[z])
  BY DEF Standing
<1>2. started'[q] = started[q] /\ access'[q] = access[q] /\ Entries(q)' = Entries(q)
  BY <1>1, OthersStay, EntriesWhenActs
<1>3. /\ Op(r).op = "post" => ~Bares(r)
      /\ Op(r).op = "win_wait" => Bares(r)
  <2>1. Brackets(benchmark, r, "post", "win_wait")
    BY DEF InEpochs, Ranks
  <2> QED BY <2>1, RankBrackets DEF Bares
<1>4. /\ exposed[r] \in BOOLEAN /\ (exposed[r] <=> Bares(r)) /\ posted[r] \in Nat
      /\ started[q] \in Nat /\ \A e \in Entries(q) : e.epoch \in Nat
  BY DEF EpochOn
<1>5. CASE Op(r).op = "post"
  <2>1. posted'[r] = posted[r] + 1 /\ exposed'[r] = TRUE /\ exposed[r] = FALSE
    BY <1>1, <1>3, <1>4, <1>5, EffectsAt
  <2>2. Closed(r)' = Closed(r)
    BY <1>4, <2>1 DEF Closed
  <2> QED BY <1>2, <2>2 DEF Served
<1>6. CASE Op(r).op = "win_wait"
  <2>1. posted'[r] = posted[r] /\ exposed'[r] = FALSE
    BY <1>1, <1>6, EffectsAt
  <2>2. Closed(r)' = posted[r]
    BY <2>1 DEF Closed
  <2>3. HasCompleted(q, r) /\ \A n \in DOMAIN pending[q] : pending[q][n].epoch > posted[r]
    BY <1>6 DEF Acts, Waits
  <2>4. \A e \in Entries(q) : e.epoch > posted[r]
    BY <2>3 DEF Entries, Elements
  <2> QED BY <1>2, <2>2, <2>3, <2>4 DEF Served, HasCompleted
<1>7. CASE Op(r).op \notin {"post", "win_wait"}
  <2>1. posted'[r] = posted[r] /\ exposed'[r] = exposed[r]
    BY <1>1, <1>7, EffectsAt
  <2>2. Closed(r)' = Closed(r)
    BY <2>1 DEF Closed
  <2> QED BY <1>2, <2>2 DEF Served
<1> QED BY <1>5, <1>6, <1>7

LEMMA OriginServes ==
  ASSUME Standing, InEpochs(benchmark), NEW r \in Ranks, NEW q \in Ranks \ {r}, EpochOn(r),
         EpochOn(q), Served(q, r), Acts(q)
  PROVE  Served(q, r)'
<1>1. Placed /\ WellFormed(benchmark) /\ \A z \in Ranks : IsSequence(pending[z])
  BY DEF Standing
<1>2. exposed'[r] = exposed[r] /\ posted'[r] = posted[r]
  BY <1>1, OthersStay
<1>3. Closed(r)' = Closed(r)
  BY <1>2 DEF Closed
<1>4. PICK c : c = Closed(r)
  OBVIOUS
<1>5. c \in Int /\ started[q] \in Nat
  BY <1>4 DEF EpochOn, Closed
<1>6. CASE Op(q).op = "access"
  <2>1. Entries(q)' = Entries(q) \cup {Issued(q)} /\ started'[q] = started[q] /\ access'[q] = access[q]
    BY <1>1, <1>6, EntriesWhenActs, EffectsAt
  <2>2. access[q] = "start"
    <3>1. IsSpot(benchmark, q, at[q]) /\ Op(q) = OpsIn(benchmark, q, at[q])[at[q].pos] /\ at[q] # Over
      BY <1>1, ActsAt
    <3>2. PICK ops : ops = OpsIn(benchmark, q, at[q])
      OBVIOUS
    <3>3. /\ at[q].size \in 0 .. benchmark.sizes + 1
          /\ at[q].seg \in 1 .. Len(Sections(benchmark, q, at[q].size))
          /\ at[q].pos \in 1 .. Len(ops) /\ ops = Sections(benchmark, q, at[q].size)[at[q].seg].ops
      BY <3>1, <3>2 DEF IsSpot, OpsIn, SectionIn
    <3>4. Inside(ops, at[q].pos, "start_epoch", "complete")
      BY <1>6, <3>1, <3>2, <3>3 DEF InEpochs, Ranks
    <3> QED BY <3>1, <3>2, <3>4 DEF EpochOn, Opens, IsIn
  <2>3. Issued(q).epoch = started[q] /\ started[q] > c
    BY <1>4, <2>2 DEF Issued, Served
  <2> QED BY <1>3, <1>4, <2>1, <2>3 DEF Served
<1>7. CASE Op(q).op # "access"
  <2>1. Entries(q)' = Entries(q)
    BY <1>1, <1>7, EntriesWhenActs
  <2>2. \/ started'[q] = started[q] + 1
        \/ started'[q] = started[q] /\ (access'[q] = access[q] \/ access'[q] = "none")
    <3>1. Op(q).op \notin {"lock", "unlock"}
      <4>1. IsSpot(benchmark, q, at[q]) /\ Op(q) = OpsIn(benchmark, q, at[q])[at[q].pos]
        BY <1>1, ActsAt
      <4>2. PICK ops : ops = OpsIn(benchmark, q, at[q])
        OBVIOUS
      <4>3. /\ at[q].size \in 0 .. benchmark.sizes + 1
            /\ at[q].seg \in 1 .. Len(Sections(benchmark, q, at[q].size))
            /\ at[q].pos \in 1 .. Len(ops) /\ ops = Sections(benchmark, q, at[q].size)[at[q].seg].ops
        BY <4>1, <4>2 DEF IsSpot, OpsIn, SectionIn
      <4> QED BY <4>1, <4>2, <4>3 DEF InEpochs, Ranks
    <3> QED BY <1>1, <3>1, EffectsAt
  <2>3. started[q] > c \/ (started[q] = c /\ access[q] # "start")
    BY <1>4 DEF Served
  <2>4. started'[q] > c \/ (started'[q] = c /\ access'[q] # "start")
    BY <1>5, <2>2, <2>3
  <2> QED BY <1>3, <1>4, <2>1, <2>4 DEF Served
<1> QED BY <1>6, <1>7

LEMMA ServedStep ==
  ASSUME PlaceInv, QueueInv, EpochInv, ServedInv, [WinNext]_<<vars, windows>>
  PROVE  ServedInv'
<1> SUFFICES ASSUME WellFormed(benchmark)', InEpochs(benchmark)', NEW r \in Ranks',
                    NEW q \in Ranks' \ {r}
             PROVE  Served(q, r)'
  BY DEF ServedInv
<1>1. /\ Standing /\ launch' = launch /\ benchmark' = benchmark /\ Ranks' = Ranks
      /\ \/ \E m \in Ranks : Acts(m)
         \/ \E m \in Ranks : \E n : Lapses(m, n)
         \/ Rests
  BY StandingStep, SameLaunch
<1>2. /\ r \in Ranks /\ q \in Ranks \ {r} /\ InEpochs(benchmark) /\ WellFormed(benchmark) /\ Placed
      /\ EpochOn(q) /\ EpochOn(r) /\ Served(q, r)
  BY <1>1 DEF Standing, EpochInv, ServedInv
<1>3. ASSUME Entries(q)' \subseteq Entries(q), posted'[r] = posted[r], started'[q] = started[q],
             exposed'[r] = exposed[r], access'[q] = access[q]
      PROVE  Served(q, r)'
  <2>1. Closed(r)' = Closed(r)
    BY <1>3 DEF Closed
  <2> QED BY <1>2, <1>3, <2>1 DEF Served
<1>4. CASE \E m \in Ranks : Acts(m)
  <2>1. PICK m \in Ranks : Acts(m)
    BY <1>4
  <2>2. CASE m = r
    BY <1>1, <1>2, <2>1, <2>2, TargetServes
  <2>3. CASE m = q
    BY <1>1, <1>2, <2>1, <2>3, OriginServes
  <2>4. CASE m # r /\ m # q
    <3>1. Entries(q)' \subseteq Entries(q)
      BY <1>1, <1>2, <2>1, <2>4, EntriesWhenActs DEF Standing
    <3>2. /\ posted'[r] = posted[r] /\ started'[q] = started[q] /\ exposed'[r] = exposed[r]
          /\ access'[q] = access[q]
      BY <1>2, <2>1, <2>4, OthersStay
    <3> QED BY <1>3, <3>1, <3>2
  <2> QED BY <2>2, <2>3, <2>4
<1>5. CASE \E m \in Ranks : \E n : Lapses(m, n)
  <2>1. Entries(q)' \subseteq Entries(q)
    BY <1>1, <1>2, <1>5, EntriesWhenLapses DEF Standing
  <2> QED BY <1>3, <1>5, <2>1 DEF Lapses
<1>6. CASE Rests
  BY <1>3, <1>6 DEF Rests, windows, epochs, Entries
<1> QED BY <1>1, <1>4, <1>5, <1>6

(***************************************************************************)
(* What an origin has in hand for rank r belongs to exposure epochs of r   *)
(* that are not over.                                                      *)
(***************************************************************************)
THEOREM ServedInvariance == WinSpec => []ServedInv
<1>1. WinInit => ServedInv
  <2> SUFFICES ASSUME WinInit, NEW r \in Ranks, NEW q \in Ranks \ {r} PROVE Served(q, r)
    BY DEF ServedInv
  <2>1. Entries(q) = {}
    BY NoEntriesInit
  <2>2. posted[r] = 0 /\ exposed[r] = FALSE /\ started[q] = 0 /\ access[q] = "none"
    BY DEF WinInit
  <2> QED BY <2>1, <2>2 DEF Served, Closed
<1>2. PlaceInv /\ QueueInv /\ EpochInv /\ ServedInv /\ [WinNext]_<<vars, windows>> => ServedInv'
  BY ServedStep
<1> QED BY <1>1, <1>2, PlaceInvariance, QueueInvariance, EpochInvariance, PTL DEF WinSpec

\* The operations of rank r, if any are issued, are all on one other rank.
OneTarget(b) ==
  b.fits => \A r \in 0 .. b.np - 1 : \E t \in (0 .. b.np - 1) \ {r} :
              \A u : Reaches(b, r, u) => u = t

LEMMA TargetsOf ==
  ASSUME WellFormed(benchmark), InEpochs(benchmark), OneTarget(benchmark), EpochInv, ReachInv,
         NEW r \in Ranks, Entries(r) # {}
  PROVE  \E t \in Ranks \ {r} : \A e \in Entries(r) : e.target = t
<1>1. benchmark.fits
  BY DEF EpochInv, EpochOn, Usable
<1>2. PICK t \in Ranks \ {r} : \A u : Reaches(benchmark, r, u) => u = t
  BY <1>1 DEF OneTarget, Ranks
<1> QED BY <1>2 DEF ReachInv

(***************************************************************************)
(* UpdatesSeparated where epochs separate the iterations: what the target  *)
(* can carry out at a time belongs to one of its exposure epochs, and so   *)
(* to one iteration of the origin.                                         *)
(***************************************************************************)
THEOREM EpochsTheorem ==
  WinSpec => [](WellFormed(benchmark) /\ InEpochs(benchmark) /\ OneTarget(benchmark)
                => UpdatesSeparated)
<1>1. EpochInv /\ ServedInv /\ ReachInv
      => (WellFormed(benchmark) /\ InEpochs(benchmark) /\ OneTarget(benchmark)
          => UpdatesSeparated)
  <2> SUFFICES ASSUME EpochInv, ServedInv, ReachInv, WellFormed(benchmark), InEpochs(benchmark),
                      OneTarget(benchmark), NEW r \in Ranks, NEW m \in DOMAIN pending[r],
                      NEW n \in DOMAIN pending[r], Exposed(pending[r][m]), Exposed(pending[r][n])
               PROVE  SameTurn(pending[r][m], pending[r][n])
    BY DEF UpdatesSeparated, SameTurn
  <2>1. PICK e, f : e = pending[r][m] /\ f = pending[r][n]
    OBVIOUS
  <2>2. e \in Entries(r) /\ f \in Entries(r)
    BY <2>1 DEF Entries, Elements
  <2>3. PICK t \in Ranks \ {r} : e.target = t /\ f.target = t
    BY <2>2, TargetsOf
  <2>4. Served(r, t) /\ EpochOn(r) /\ EpochOn(t)
    BY <2>3 DEF ServedInv, EpochInv
  <2>5. e.epoch <= posted[t] /\ f.epoch <= posted[t]
    BY <2>1, <2>3 DEF Exposed
  <2>6. e.epoch > Closed(t) /\ f.epoch > Closed(t)
    BY <2>2, <2>4 DEF Served
  <2>7. /\ posted[t] \in Nat /\ (Closed(t) = posted[t] - 1 \/ Closed(t) = posted[t])
        /\ e.epoch \in Nat /\ f.epoch \in Nat
    BY <2>2, <2>4 DEF EpochOn, Closed
  <2>8. e.epoch = f.epoch
    <3>1. PICK c : c = Closed(t)
      OBVIOUS
    <3> QED BY <2>5, <2>6, <2>7, <3>1
  <2> QED BY <2>1, <2>2, <2>4, <2>8 DEF EpochOn
<1> QED BY <1>1, EpochInvariance, ServedInvariance, ReachInvariance, PTL

-----------------------------------------------------------------------------
(***************************************************************************)
(* Which programs these are.                                               *)
(***************************************************************************)
\* In ops, x is statement i and y is statement j, both always executed, and
\* the statements named in S are between them.
Encloses(ops, i, j, x, y, S) ==
  \A n \in 1 .. Len(ops) :
    /\ ops[n].op = x <=> n = i
    /\ ops[n].op = y <=> n = j
    /\ ops[n].op \in S => i < n /\ n < j
    /\ n = i \/ n = j => ~ops[n].at_skip

\* Sequences of statements with x only, with y only, and with both.
Opening(ops, x, y, S) ==
  IsSequence(ops) /\ \E i \in 1 .. Len(ops) : Encloses(ops, i, Len(ops) + 1, x, y, S)

Ending(ops, x, y, S) ==
  IsSequence(ops) /\ \E j \in 1 .. Len(ops) : Encloses(ops, 0, j, x, y, S)

Pair(ops, x, y, S) ==
  IsSequence(ops) /\ \E i, j \in 1 .. Len(ops) : i < j /\ Encloses(ops, i, j, x, y, S)

\* The bracket of a section, if it has one.
Paired(ops, x, y, S) == Avoids(ops, {x, y} \cup S) \/ Pair(ops, x, y, S)

\* Where statement n of g is in f \o g.
Behind(f, n) == Len(f) + n

LEMMA EnclosesJoined ==
  ASSUME NEW f, NEW g, IsSequence(f), IsSequence(g), NEW x, NEW y, NEW S, NEW i \in Int, NEW j \in Int,
         Encloses(f, Behind(f, i), Behind(f, j), x, y, S), Encloses(g, i, j, x, y, S)
  PROVE  Encloses(f \o g, Behind(f, i), Behind(f, j), x, y, S)
<1>1. PICK h : h = f \o g
  OBVIOUS
<1>2. /\ Len(f) \in Nat /\ Len(g) \in Nat /\ Len(h) = Len(f) + Len(g)
      /\ \A n \in 1 .. Len(h) : \/ n \in 1 .. Len(f) /\ h[n] = f[n]
                                \/ n - Len(f) \in 1 .. Len(g) /\ h[n] = g[n - Len(f)]
  <2>1. Len(f) \in Nat /\ Len(g) \in Nat
    BY DEF IsSequence
  <2> QED BY <1>1, <2>1, Joined
<1>3. PICK k, l : k = Behind(f, i) /\ l = Behind(f, j)
  OBVIOUS
<1>4. k = Len(f) + i /\ l = Len(f) + j
  BY <1>3 DEF Behind
<1>5. ASSUME NEW n \in 1 .. Len(h)
      PROVE  /\ h[n].op = x <=> n = k
             /\ h[n].op = y <=> n = l
             /\ h[n].op \in S => k < n /\ n < l
             /\ n = k \/ n = l => ~h[n].at_skip
  <2>1. CASE n \in 1 .. Len(f) /\ h[n] = f[n]
    BY <1>3, <2>1 DEF Encloses
  <2>2. CASE n - Len(f) \in 1 .. Len(g) /\ h[n] = g[n - Len(f)]
    <3>1. PICK m \in 1 .. Len(g) : m = n - Len(f) /\ h[n] = g[m]
      BY <2>2
    <3>2. /\ g[m].op = x <=> m = i
          /\ g[m].op = y <=> m = j
          /\ g[m].op \in S => i < m /\ m < j
          /\ m = i \/ m = j => ~g[m].at_skip
      BY DEF Encloses
    <3>3. (m = i <=> n = k) /\ (m = j <=> n = l) /\ (i < m <=> k < n) /\ (m < j <=> n < l)
      BY <1>2, <1>4, <3>1
    <3> QED BY <3>1, <3>2, <3>3
  <2> QED BY <1>2, <2>1, <2>2
<1> QED BY <1>1, <1>3, <1>5 DEF Encloses

LEMMA AvoidsEncloses ==
  ASSUME NEW ops, NEW x, NEW y, NEW S, NEW i \in Int, NEW j \in Int,
         i \notin 1 .. Len(ops), j \notin 1 .. Len(ops),
         \/ Avoids(ops, {x, y} \cup S)
         \/ Avoids(ops, {x, y}) /\ i <= 0 /\ j > Len(ops)
  PROVE  Encloses(ops, i, j, x, y, S)
<1>1. Len(ops) \in Nat
  BY DEF Avoids, IsSequence
<1> SUFFICES ASSUME NEW n \in 1 .. Len(ops)
             PROVE  /\ ops[n].op = x <=> n = i
                    /\ ops[n].op = y <=> n = j
                    /\ ops[n].op \in S => i < n /\ n < j
                    /\ n = i \/ n = j => ~ops[n].at_skip
  BY DEF Encloses
<1>2. ops[n].op # x /\ ops[n].op # y /\ n # i /\ n # j
  BY DEF Avoids
<1>3. ops[n].op \in S => i < n /\ n < j
  <2>1. CASE Avoids(ops, {x, y} \cup S)
    BY <2>1 DEF Avoids
  <2>2. CASE i <= 0 /\ j > Len(ops)
    BY <1>1, <2>2
  <2> QED BY <2>1, <2>2
<1> QED BY <1>2, <1>3

\* Only the place of the statement that is there matters.
LEMMA SameEncloses ==
  ASSUME NEW ops, NEW x, NEW y, NEW S, NEW i \in Int, NEW j \in Int, Encloses(ops, i, j, x, y, S),
         Len(ops) \in Nat, NEW k \in Int
  PROVE  /\ i < 1 /\ k < 1 => Encloses(ops, k, j, x, y, S)
         /\ j > Len(ops) /\ k > Len(ops) => Encloses(ops, i, k, x, y, S)
<1>1. \A n \in 1 .. Len(ops) : /\ ops[n].op = x <=> n = i
                               /\ ops[n].op = y <=> n = j
                               /\ ops[n].op \in S => i < n /\ n < j
                               /\ n = i \/ n = j => ~ops[n].at_skip
  BY DEF Encloses
<1>2. ASSUME i < 1, k < 1 PROVE Encloses(ops, k, j, x, y, S)
  <2>1. \A n \in 1 .. Len(ops) : n # i /\ n # k /\ k < n
    BY <1>2
  <2> QED BY <1>1, <2>1 DEF Encloses
<1>3. ASSUME j > Len(ops), k > Len(ops) PROVE Encloses(ops, i, k, x, y, S)
  <2>1. \A n \in 1 .. Len(ops) : n # j /\ n # k /\ n < k
    BY <1>3
  <2> QED BY <1>1, <2>1 DEF Encloses
<1> QED BY <1>2, <1>3

\* The places of the statements of two sequences one after the other.
LEMMA BehindIs ==
  ASSUME NEW f, NEW g, IsSequence(f), IsSequence(g)
  PROVE  /\ IsSequence(f \o g) /\ Len(f) \in Nat /\ Len(g) \in Nat
         /\ \A n \in 1 .. Len(g) : /\ Behind(f, n) \in 1 .. Len(f \o g) /\ Behind(f, n) > Len(f)
                                   /\ Behind(f, n) \notin 1 .. Len(f) /\ n \in Int
         /\ \A n : n = Len(g) + 1 => /\ Behind(f, n) = Len(f \o g) + 1 /\ Behind(f, n) > Len(f)
                                     /\ Behind(f, n) \notin 1 .. Len(f) /\ n \in Int
<1>1. /\ Len(f) \in Nat /\ Len(g) \in Nat /\ IsSequence(f \o g)
      /\ Len(f \o g) = Len(f) + Len(g)
  BY Joined DEF IsSequence
<1>2. PICK a, b, c : a = Len(f) /\ b = Len(g) /\ c = Len(f \o g)
  OBVIOUS
<1>3. a \in Nat /\ b \in Nat /\ c = a + b /\ \A n : Behind(f, n) = a + n
  BY <1>1, <1>2 DEF Behind
<1>4. ASSUME NEW n \in 1 .. b
      PROVE  Behind(f, n) \in 1 .. c /\ Behind(f, n) > a /\ Behind(f, n) \notin 1 .. a /\ n \in Int
  BY <1>3
<1>5. ASSUME NEW n, n = b + 1
      PROVE  Behind(f, n) = c + 1 /\ Behind(f, n) > a /\ Behind(f, n) \notin 1 .. a /\ n \in Int
  BY <1>3, <1>5
<1> QED BY <1>1, <1>2, <1>4, <1>5

LEMMA AheadIs ==
  ASSUME NEW f, NEW g, IsSequence(f), IsSequence(g), NEW n \in 1 .. Len(f)
  PROVE  /\ n \in 1 .. Len(f \o g)
         /\ \E k \in Int : Behind(f, k) = n /\ k < 1 /\ k \notin 1 .. Len(g)
<1>1. Len(f) \in Nat /\ Len(g) \in Nat /\ Len(f \o g) = Len(f) + Len(g)
  BY Joined DEF IsSequence
<1>2. PICK a, b, c, k : a = Len(f) /\ b = Len(g) /\ c = Len(f \o g) /\ k = n - a
  OBVIOUS
<1>3. a \in Nat /\ b \in Nat /\ c = a + b /\ \A m : Behind(f, m) = a + m
  BY <1>1, <1>2 DEF Behind
<1>4. k \in Int /\ Behind(f, k) = n /\ k < 1 /\ k \notin 1 .. b /\ n \in 1 .. c
  BY <1>2, <1>3
<1> QED BY <1>2, <1>4

LEMMA OpeningJoined ==
  ASSUME NEW f, NEW g, NEW x, NEW y, NEW S
  PROVE  /\ Avoids(f, {x, y} \cup S) /\ Opening(g, x, y, S) => Opening(f \o g, x, y, S)
         /\ Opening(f, x, y, S) /\ Avoids(g, {x, y}) => Opening(f \o g, x, y, S)
         /\ Avoids(f, {x, y}) /\ Ending(g, x, y, S) => Ending(f \o g, x, y, S)
         /\ Opening(f, x, y, S) /\ Ending(g, x, y, S) => Pair(f \o g, x, y, S)
<1>1. ASSUME Avoids(f, {x, y} \cup S), Opening(g, x, y, S) PROVE Opening(f \o g, x, y, S)
  <2>0. PICK i \in 1 .. Len(g) : Encloses(g, i, Len(g) + 1, x, y, S)
    BY <1>1 DEF Opening
  <2>1. PICK j : j = Len(g) + 1 /\ Encloses(g, i, j, x, y, S)
    BY <2>0
  <2>2. IsSequence(f) /\ IsSequence(g)
    BY <1>1 DEF Avoids, Opening
  <2>3. /\ i \in Int /\ j \in Int /\ Behind(f, i) \in 1 .. Len(f \o g) /\ Behind(f, i) \notin 1 .. Len(f)
        /\ Behind(f, j) = Len(f \o g) + 1 /\ Behind(f, j) \notin 1 .. Len(f) /\ IsSequence(f \o g)
    BY <2>1, <2>2, BehindIs
  <2>4. Behind(f, i) \in Int /\ Behind(f, j) \in Int
    BY <2>2, <2>3 DEF IsSequence
  <2>5. Encloses(f, Behind(f, i), Behind(f, j), x, y, S)
    BY <1>1, <2>3, <2>4, AvoidsEncloses
  <2>6. Encloses(f \o g, Behind(f, i), Behind(f, j), x, y, S)
    BY <2>1, <2>2, <2>3, <2>5, EnclosesJoined
  <2> QED BY <2>3, <2>6 DEF Opening
<1>2. ASSUME Opening(f, x, y, S), Avoids(g, {x, y}) PROVE Opening(f \o g, x, y, S)
  <2>0. PICK i \in 1 .. Len(f) : Encloses(f, i, Len(f) + 1, x, y, S)
    BY <1>2 DEF Opening
  <2>1. PICK e : e = Len(f) + 1 /\ Encloses(f, i, e, x, y, S)
    BY <2>0
  <2>2. IsSequence(f) /\ IsSequence(g) /\ Len(f) \in Nat /\ Len(g) \in Nat
    BY <1>2 DEF Avoids, Opening, IsSequence
  <2>3. PICK k \in Int : Behind(f, k) = i /\ k < 1 /\ k \notin 1 .. Len(g)
    BY <2>2, AheadIs
  <2>4. PICK j : j = Len(g) + 1
    OBVIOUS
  <2>5. /\ i \in 1 .. Len(f \o g) /\ Behind(f, j) = Len(f \o g) + 1 /\ Behind(f, j) > Len(f)
        /\ IsSequence(f \o g)
    BY <2>2, <2>4, AheadIs, BehindIs
  <2>6. j \in Int /\ j > Len(g) /\ j \notin 1 .. Len(g) /\ k <= 0
    BY <2>2, <2>3, <2>4
  <2>7. Behind(f, j) \in Int /\ e \in Int /\ e > Len(f) /\ i \in Int
    BY <2>1, <2>2, <2>5 DEF IsSequence
  <2>8. Encloses(g, k, j, x, y, S)
    BY <1>2, <2>3, <2>6, AvoidsEncloses
  <2>9. Encloses(f, i, Behind(f, j), x, y, S)
    BY <2>1, <2>2, <2>5, <2>7, SameEncloses
  <2>10. Encloses(f \o g, i, Behind(f, j), x, y, S)
    BY <2>2, <2>3, <2>6, <2>8, <2>9, EnclosesJoined
  <2> QED BY <2>5, <2>10 DEF Opening
<1>3. ASSUME Avoids(f, {x, y}), Ending(g, x, y, S) PROVE Ending(f \o g, x, y, S)
  <2>0. PICK j \in 1 .. Len(g) : Encloses(g, 0, j, x, y, S)
    BY <1>3 DEF Ending
  <2>1. PICK o : o = 0 /\ Encloses(g, o, j, x, y, S)
    BY <2>0
  <2>2. IsSequence(f) /\ IsSequence(g) /\ Len(f) \in Nat /\ Len(g) \in Nat
    BY <1>3 DEF Avoids, Ending, IsSequence
  <2>3. /\ j \in Int /\ Behind(f, j) \in 1 .. Len(f \o g) /\ Behind(f, j) \notin 1 .. Len(f)
        /\ Behind(f, j) > Len(f) /\ IsSequence(f \o g)
    BY <2>2, BehindIs
  <2>4. PICK z \in Int : z = 0 - Len(f) /\ z < 1 /\ Behind(f, z) = 0
    <3>1. PICK z : z = 0 - Len(f)
      OBVIOUS
    <3>2. z \in Int /\ z < 1 /\ Behind(f, z) = 0
      BY <2>2, <3>1 DEF Behind
    <3> QED BY <3>1, <3>2
  <2>5. Behind(f, j) \in Int /\ o \in Int /\ o < 1 /\ o <= 0 /\ o \notin 1 .. Len(f)
    BY <2>1, <2>2, <2>3 DEF IsSequence
  <2>6. Encloses(f, o, Behind(f, j), x, y, S)
    BY <1>3, <2>3, <2>5, AvoidsEncloses
  <2>7. Encloses(g, z, j, x, y, S)
    BY <2>1, <2>2, <2>3, <2>4, <2>5, SameEncloses
  <2>8. Encloses(f \o g, o, Behind(f, j), x, y, S)
    BY <2>1, <2>2, <2>3, <2>4, <2>6, <2>7, EnclosesJoined
  <2> QED BY <2>1, <2>3, <2>8 DEF Ending
<1>4. ASSUME Opening(f, x, y, S), Ending(g, x, y, S) PROVE Pair(f \o g, x, y, S)
  <2>0. PICK i \in 1 .. Len(f) : Encloses(f, i, Len(f) + 1, x, y, S)
    BY <1>4 DEF Opening
  <2>1. PICK e : e = Len(f) + 1 /\ Encloses(f, i, e, x, y, S)
    BY <2>0
  <2>1a. PICK j \in 1 .. Len(g) : Encloses(g, 0, j, x, y, S)
    BY <1>4 DEF Ending
  <2>2. PICK o : o = 0 /\ Encloses(g, o, j, x, y, S)
    BY <2>1a
  <2>3. IsSequence(f) /\ IsSequence(g) /\ Len(f) \in Nat /\ Len(g) \in Nat
    BY <1>4 DEF Opening, Ending, IsSequence
  <2>4. PICK k \in Int : Behind(f, k) = i /\ k < 1
    BY <2>3, AheadIs
  <2>5. /\ j \in Int /\ i \in Int /\ i \in 1 .. Len(f \o g) /\ Behind(f, j) \in 1 .. Len(f \o g)
        /\ Behind(f, j) > Len(f) /\ IsSequence(f \o g)
    BY <2>3, AheadIs, BehindIs
  <2>6. Behind(f, j) \in Int /\ e \in Int /\ e > Len(f) /\ o \in Int /\ o < 1 /\ i < Behind(f, j)
    BY <2>1, <2>2, <2>3, <2>5 DEF IsSequence
  <2>7. Encloses(f, i, Behind(f, j), x, y, S)
    BY <2>1, <2>3, <2>5, <2>6, SameEncloses
  <2>8. Encloses(g, k, j, x, y, S)
    BY <2>2, <2>3, <2>4, <2>5, <2>6, SameEncloses
  <2>9. Encloses(f \o g, i, Behind(f, j), x, y, S)
    BY <2>3, <2>4, <2>5, <2>7, <2>8, EnclosesJoined
  <2> QED BY <2>5, <2>6, <2>9 DEF Pair
<1> QED BY <1>1, <1>2, <1>3, <1>4

LEMMA PairJoined ==
  ASSUME NEW f, NEW g, NEW x, NEW y, NEW S
  PROVE  /\ Avoids(f, {x, y} \cup S) /\ Pair(g, x, y, S) => Pair(f \o g, x, y, S)
         /\ Pair(f, x, y, S) /\ Avoids(g, {x, y} \cup S) => Pair(f \o g, x, y, S)
<1>1. ASSUME Avoids(f, {x, y} \cup S), Pair(g, x, y, S) PROVE Pair(f \o g, x, y, S)
  <2>1. PICK i \in 1 .. Len(g), j \in 1 .. Len(g) : i < j /\ Encloses(g, i, j, x, y, S)
    BY <1>1 DEF Pair
  <2>2. IsSequence(f) /\ IsSequence(g) /\ Len(f) \in Nat
    BY <1>1 DEF Avoids, Pair, IsSequence
  <2>3. /\ i \in Int /\ Behind(f, i) \in 1 .. Len(f \o g) /\ Behind(f, i) \notin 1 .. Len(f)
        /\ j \in Int /\ Behind(f, j) \in 1 .. Len(f \o g) /\ Behind(f, j) \notin 1 .. Len(f)
        /\ IsSequence(f \o g)
    BY <2>2, BehindIs
  <2>4. Behind(f, i) \in Int /\ Behind(f, j) \in Int /\ Behind(f, i) < Behind(f, j)
    BY <2>1, <2>2, <2>3 DEF Behind
  <2>5. Encloses(f, Behind(f, i), Behind(f, j), x, y, S)
    BY <1>1, <2>3, <2>4, AvoidsEncloses
  <2>6. Encloses(f \o g, Behind(f, i), Behind(f, j), x, y, S)
    BY <2>1, <2>2, <2>3, <2>5, EnclosesJoined
  <2> QED BY <2>3, <2>4, <2>6 DEF Pair
<1>2. ASSUME Pair(f, x, y, S), Avoids(g, {x, y} \cup S) PROVE Pair(f \o g, x, y, S)
  <2>1. PICK i \in 1 .. Len(f), j \in 1 .. Len(f) : i < j /\ Encloses(f, i, j, x, y, S)
    BY <1>2 DEF Pair
  <2>2. IsSequence(f) /\ IsSequence(g)
    BY <1>2 DEF Avoids, Pair
  <2>3. PICK k \in Int : Behind(f, k) = i /\ k \notin 1 .. Len(g)
    BY <2>2, AheadIs
  <2>4. PICK l \in Int : Behind(f, l) = j /\ l \notin 1 .. Len(g)
    BY <2>2, AheadIs
  <2>5. i \in 1 .. Len(f \o g) /\ j \in 1 .. Len(f \o g) /\ IsSequence(f \o g)
    BY <2>2, AheadIs, BehindIs
  <2>6. Encloses(g, k, l, x, y, S)
    BY <1>2, <2>3, <2>4, AvoidsEncloses
  <2>7. Encloses(f \o g, i, j, x, y, S)
    BY <2>1, <2>2, <2>3, <2>4, <2>6, EnclosesJoined
  <2> QED BY <2>1, <2>5, <2>7 DEF Pair
<1> QED BY <1>1, <1>2

\* A pair is a bracket, with the statements named in S inside.
LEMMA PairedIsBracket ==
  ASSUME NEW ops, NEW x, NEW y, NEW S, x # y, Paired(ops, x, y, S)
  PROVE  /\ Bracket(ops, x, y)
         /\ \A n \in 1 .. Len(ops) : ops[n].op \in S => Inside(ops, n, x, y)
<1>1. Len(ops) \in Nat
  BY DEF Paired, Avoids, Pair, IsSequence
<1>2. CASE Avoids(ops, {x, y} \cup S)
  <2>1. \A n \in 1 .. Len(ops) : ops[n].op # x /\ ops[n].op # y /\ ops[n].op \notin S
    BY <1>2 DEF Avoids
  <2> QED BY <2>1 DEF Bracket
<1>3. CASE Pair(ops, x, y, S)
  <2>1. PICK i \in 1 .. Len(ops), j \in 1 .. Len(ops) : i < j /\ Encloses(ops, i, j, x, y, S)
    BY <1>3 DEF Pair
  <2>2. \A n \in 1 .. Len(ops) :
          /\ ops[n].op = x <=> n = i
          /\ ops[n].op = y <=> n = j
          /\ ops[n].op \in S => i < n /\ n < j
          /\ n = i \/ n = j => ~ops[n].at_skip
    BY <2>1 DEF Encloses
  <2>3. j \in i + 1 .. Len(ops) /\ i \in 1 .. j - 1
    BY <1>1, <2>1
  <2>4. Bracket(ops, x, y)
    BY <2>2, <2>3 DEF Bracket
  <2>5. ASSUME NEW n \in 1 .. Len(ops), ops[n].op \in S PROVE Inside(ops, n, x, y)
    <3>1. i \in 1 .. n - 1 /\ j \in n .. Len(ops)
      BY <1>1, <2>2, <2>5
    <3> QED BY <2>2, <3>1 DEF Inside
  <2> QED BY <2>4, <2>5
<1> QED BY <1>2, <1>3 DEF Paired

LEMMA ShortPairs ==
  ASSUME NEW x, NEW y, NEW S, x # y, {x, y} \cap S = {}, NEW o, o.op = x, ~o.at_skip,
         NEW c, c.op = y, ~c.at_skip
  PROVE  /\ Opening(<<o>>, x, y, S) /\ Ending(<<c>>, x, y, S) /\ Pair(<<o, c>>, x, y, S)
         /\ \A m : m.op \notin {x, y} => /\ Opening(<<o, m>>, x, y, S)
                                         /\ Ending(<<m, c>>, x, y, S)
         /\ \A m, n : m.op \notin {x, y} \cup S /\ n.op \notin {x, y} \cup S =>
                        /\ Opening(<<m, o>>, x, y, S) /\ Opening(<<m, n, o>>, x, y, S)
                        /\ Pair(<<o, c, m>>, x, y, S)
<1>1. Opening(<<o>>, x, y, S)
  <2>1. PICK ops : ops = <<o>>
    OBVIOUS
  <2>2. IsSequence(ops) /\ Len(ops) = 1 /\ ops[1] = o
    BY <2>1, ShortSequences
  <2>3. 1 \in 1 .. Len(ops) /\ Encloses(ops, 1, Len(ops) + 1, x, y, S)
    BY <2>2 DEF Encloses
  <2> QED BY <2>1, <2>2, <2>3 DEF Opening
<1>2. Ending(<<c>>, x, y, S)
  <2>1. PICK ops : ops = <<c>>
    OBVIOUS
  <2>2. IsSequence(ops) /\ Len(ops) = 1 /\ ops[1] = c
    BY <2>1, ShortSequences
  <2>3. 1 \in 1 .. Len(ops) /\ Encloses(ops, 0, 1, x, y, S)
    BY <2>2 DEF Encloses
  <2> QED BY <2>1, <2>2, <2>3 DEF Ending
<1>3. Pair(<<o, c>>, x, y, S)
  <2>1. PICK ops : ops = <<o, c>>
    OBVIOUS
  <2>2. IsSequence(ops) /\ Len(ops) = 2 /\ ops[1] = o /\ ops[2] = c
    BY <2>1, ShortSequences
  <2>3. 1 \in 1 .. Len(ops) /\ 2 \in 1 .. Len(ops) /\ 1 < 2 /\ Encloses(ops, 1, 2, x, y, S)
    BY <2>2 DEF Encloses
  <2> QED BY <2>1, <2>2, <2>3 DEF Pair
<1>4. ASSUME NEW m, m.op \notin {x, y} PROVE Opening(<<o, m>>, x, y, S)
  <2>1. PICK ops : ops = <<o, m>>
    OBVIOUS
  <2>2. IsSequence(ops) /\ Len(ops) = 2 /\ ops[1] = o /\ ops[2] = m
    BY <2>1, ShortSequences
  <2>3. 1 \in 1 .. Len(ops) /\ Encloses(ops, 1, Len(ops) + 1, x, y, S)
    BY <1>4, <2>2 DEF Encloses
  <2> QED BY <2>1, <2>2, <2>3 DEF Opening
<1>5. ASSUME NEW m, m.op \notin {x, y} PROVE Ending(<<m, c>>, x, y, S)
  <2>1. PICK ops : ops = <<m, c>>
    OBVIOUS
  <2>2. IsSequence(ops) /\ Len(ops) = 2 /\ ops[1] = m /\ ops[2] = c
    BY <2>1, ShortSequences
  <2>3. 2 \in 1 .. Len(ops) /\ Encloses(ops, 0, 2, x, y, S)
    BY <1>5, <2>2 DEF Encloses
  <2> QED BY <2>1, <2>2, <2>3 DEF Ending
<1>6. ASSUME NEW m, m.op \notin {x, y} \cup S PROVE Opening(<<m, o>>, x, y, S)
  <2>1. PICK ops : ops = <<m, o>>
    OBVIOUS
  <2>2. IsSequence(ops) /\ Len(ops) = 2 /\ ops[1] = m /\ ops[2] = o
    BY <2>1, ShortSequences
  <2>3. 2 \in 1 .. Len(ops) /\ Encloses(ops, 2, Len(ops) + 1, x, y, S)
    BY <1>6, <2>2 DEF Encloses
  <2> QED BY <2>1, <2>2, <2>3 DEF Opening
<1>7. ASSUME NEW m, NEW n, m.op \notin {x, y} \cup S, n.op \notin {x, y} \cup S
      PROVE  Opening(<<m, n, o>>, x, y, S)
  <2>1. PICK ops : ops = <<m, n, o>>
    OBVIOUS
  <2>2. IsSequence(ops) /\ Len(ops) = 3 /\ ops[1] = m /\ ops[2] = n /\ ops[3] = o
    BY <2>1, ShortSequences
  <2>3. 3 \in 1 .. Len(ops) /\ Encloses(ops, 3, Len(ops) + 1, x, y, S)
    BY <1>7, <2>2 DEF Encloses
  <2> QED BY <2>1, <2>2, <2>3 DEF Opening
<1>8. ASSUME NEW m, m.op \notin {x, y} \cup S PROVE Pair(<<o, c, m>>, x, y, S)
  <2>1. PICK ops : ops = <<o, c, m>>
    OBVIOUS
  <2>2. IsSequence(ops) /\ Len(ops) = 3 /\ ops[1] = o /\ ops[2] = c /\ ops[3] = m
    BY <2>1, ShortSequences
  <2>3. 1 \in 1 .. Len(ops) /\ 2 \in 1 .. Len(ops) /\ 1 < 2 /\ Encloses(ops, 1, 2, x, y, S)
    BY <1>8, <2>2 DEF Encloses
  <2> QED BY <2>1, <2>2, <2>3 DEF Pair
<1> QED BY <1>1, <1>2, <1>3, <1>4, <1>5, <1>6, <1>7, <1>8

LEMMA OperationsAvoid ==
  ASSUME NEW p, NEW t, NEW S, "access" \notin S
  PROVE  Avoids(Operations(p, t), S)
<1>1. PICK o : o = Access(Operation(p.program), t, Displacement(p))
  OBVIOUS
<1>2. o.op = "access"
  BY <1>1, AccessIs DEF IsAccess, Is
<1>3. IsRepeated(Operations(p, t), o)
  BY <1>1, OperationsAre
<1> QED BY <1>2, <1>3 DEF IsRepeated, Avoids

-----------------------------------------------------------------------------
(***************************************************************************)
(* An iteration with epochs.                                               *)
(***************************************************************************)
StartToEnd(ops) == Paired(ops, "start_epoch", "complete", {"access"})
PostToWait(ops) == Paired(ops, "post", "win_wait", {})
LockFree(ops)   == Avoids(ops, {"lock", "unlock"})

LEMMA EpochStatements ==
  /\ Is(EndEpoch, "complete") /\ Is(Measured(EndEpoch), "complete") /\ Is(Post, "post")
  /\ Is(WinWait, "win_wait") /\ Is(Measured(WinWait), "win_wait")
  /\ \A t : Is(WinStart(t), "start_epoch")
  /\ AtSkip(TStart).op = "t_start"
BY CallNames, MeasuredNames, GuardedNames DEF IsAtSkip

\* The statements of an iteration before and after its operations.
LEMMA EpochPieces ==
  ASSUME NEW p, NEW t, NEW r
  PROVE  LET start == <<WinStart(t), AtSkip(TStart)>>
             clock0 == Only(r = 0, <<AtSkip(TStart)>>)
             S == {"access"}
         IN  /\ Opening(start, "start_epoch", "complete", S)
             /\ Opening(<<Post, WinWait, WinStart(t)>>, "start_epoch", "complete", S)
             /\ Opening(<<Post, WinStart(t)>>, "start_epoch", "complete", S)
             /\ Ending(<<EndEpoch>>, "start_epoch", "complete", S)
             /\ Ending(<<Measured(EndEpoch)>>, "start_epoch", "complete", S)
             /\ Avoids(<<Post, WinWait>>, {"start_epoch", "complete"} \cup S)
             /\ Avoids(<<Post, Measured(WinWait)>>, {"start_epoch", "complete"} \cup S)
             /\ Avoids(<<Measured(WinWait)>>, {"start_epoch", "complete"} \cup S)
             /\ Avoids(clock0, {"start_epoch", "complete"} \cup S)
<1>1. Opening(<<WinStart(t), AtSkip(TStart)>>, "start_epoch", "complete", {"access"})
  BY EpochStatements, ShortPairs DEF Is
<1>2. Opening(<<Post, WinWait, WinStart(t)>>, "start_epoch", "complete", {"access"})
  BY EpochStatements, ShortPairs DEF Is
<1>3. Opening(<<Post, WinStart(t)>>, "start_epoch", "complete", {"access"})
  BY EpochStatements, ShortPairs DEF Is
<1>4. /\ Ending(<<EndEpoch>>, "start_epoch", "complete", {"access"})
      /\ Ending(<<Measured(EndEpoch)>>, "start_epoch", "complete", {"access"})
  BY EpochStatements, ShortPairs DEF Is
<1>5. /\ Avoids(<<Post, WinWait>>, {"start_epoch", "complete"} \cup {"access"})
      /\ Avoids(<<Post, Measured(WinWait)>>, {"start_epoch", "complete"} \cup {"access"})
      /\ Avoids(<<Measured(WinWait)>>, {"start_epoch", "complete"} \cup {"access"})
  BY EpochStatements, ShortAvoids DEF Is
<1>6. Avoids(Only(r = 0, <<AtSkip(TStart)>>), {"start_epoch", "complete"} \cup {"access"})
  BY EpochStatements, ShortAvoids DEF Only
<1> QED BY <1>1, <1>2, <1>3, <1>4, <1>5, <1>6

LEMMA StartsToEnds ==
  ASSUME NEW p, NEW r, Sync(p) = "pscw"
  PROVE  StartToEnd(ActiveIteration(p, r))
<1> DEFINE S == {"access"}
           E(ops) == Pair(ops, "start_epoch", "complete", S)
<1>1. \A t : Ending(Operations(p, t) \o <<EndEpoch>>, "start_epoch", "complete", S)
  <2> TAKE t
  <2>1. Avoids(Operations(p, t), {"start_epoch", "complete"})
    BY OperationsAvoid
  <2> QED BY <2>1, EpochPieces, OpeningJoined
<1>2. \A q : Ending(AccessEpoch(p, q), "start_epoch", "complete", S)
  BY <1>1 DEF AccessEpoch
<1>3. StartToEnd(EpochsBackAndForth(p, r))
  <2>1. CASE r = 0
    <3>1. E(<<WinStart(1), AtSkip(TStart)>> \o AccessEpoch(p, 0))
      BY <1>2, EpochPieces, OpeningJoined
    <3>2. E(<<WinStart(1), AtSkip(TStart)>> \o AccessEpoch(p, 0) \o <<Post, Measured(WinWait)>>)
      BY <3>1, EpochPieces, PairJoined
    <3> QED BY <2>1, <3>2 DEF EpochsBackAndForth, StartToEnd, Paired
  <2>2. CASE r # 0
    <3>1. E(<<Post, WinWait, WinStart(0)>> \o AccessEpoch(p, 1))
      BY <1>2, EpochPieces, OpeningJoined
    <3> QED BY <2>2, <3>1 DEF EpochsBackAndForth, StartToEnd, Paired
  <2> QED BY <2>1, <2>2
<1>4. StartToEnd(EpochsBothWays(p, r))
  <2>1. Opening(Only(r = 0, <<AtSkip(TStart)>>) \o <<Post, WinStart(1 - r)>>,
                "start_epoch", "complete", S)
    BY EpochPieces, OpeningJoined
  <2>2. E(Only(r = 0, <<AtSkip(TStart)>>) \o <<Post, WinStart(1 - r)>> \o AccessEpoch(p, r))
    BY <1>2, <2>1, OpeningJoined
  <2>3. E(Only(r = 0, <<AtSkip(TStart)>>) \o <<Post, WinStart(1 - r)>> \o AccessEpoch(p, r)
            \o <<Measured(WinWait)>>)
    BY <2>2, EpochPieces, PairJoined
  <2> QED BY <2>3 DEF EpochsBothWays, StartToEnd, Paired
<1>5. StartToEnd(EpochsOneWay(p, r))
  <2>1. CASE r = 0
    <3>1. Avoids(Operations(p, 1), {"start_epoch", "complete"})
      BY OperationsAvoid
    <3>2. Opening(<<WinStart(1), AtSkip(TStart)>> \o Operations(p, 1), "start_epoch", "complete", S)
      BY <3>1, EpochPieces, OpeningJoined
    <3>3. E(<<WinStart(1), AtSkip(TStart)>> \o Operations(p, 1) \o <<Measured(EndEpoch)>>)
      BY <3>2, EpochPieces, OpeningJoined
    <3> QED BY <2>1, <3>3 DEF EpochsOneWay, StartToEnd, Paired
  <2>2. CASE r # 0
    BY <2>2, EpochPieces DEF EpochsOneWay, StartToEnd, Paired
  <2> QED BY <2>1, <2>2
<1>6. "osu_put_bibw" \notin PingPong
  BY DEF PingPong, Atomic
<1>7. ActiveIteration(p, r) =
         IF p.program \in PingPong THEN EpochsBackAndForth(p, r)
         ELSE IF p.program = "osu_put_bibw" THEN EpochsBothWays(p, r) ELSE EpochsOneWay(p, r)
  BY <1>6 DEF ActiveIteration
<1> QED BY <1>3, <1>4, <1>5, <1>7

LEMMA ExposurePieces ==
  ASSUME NEW t, NEW r
  PROVE  LET clock0 == Only(r = 0, <<AtSkip(TStart)>>)
         IN  /\ Opening(<<Post, WinStart(t)>>, "post", "win_wait", {})
             /\ Ending(<<Measured(WinWait)>>, "post", "win_wait", {})
             /\ Pair(<<Post, WinWait>>, "post", "win_wait", {})
             /\ Pair(<<Post, Measured(WinWait)>>, "post", "win_wait", {})
             /\ Pair(<<Post, WinWait, WinStart(t)>>, "post", "win_wait", {})
             /\ Avoids(<<WinStart(t), AtSkip(TStart)>>, {"post", "win_wait"})
             /\ Avoids(<<EndEpoch>>, {"post", "win_wait"})
             /\ Avoids(<<Measured(EndEpoch)>>, {"post", "win_wait"})
             /\ Avoids(clock0, {"post", "win_wait"})
<1>1. Opening(<<Post, WinStart(t)>>, "post", "win_wait", {})
  BY EpochStatements, ShortPairs DEF Is
<1>2. Ending(<<Measured(WinWait)>>, "post", "win_wait", {})
  BY EpochStatements, ShortPairs DEF Is
<1>3. /\ Pair(<<Post, WinWait>>, "post", "win_wait", {})
      /\ Pair(<<Post, Measured(WinWait)>>, "post", "win_wait", {})
  BY EpochStatements, ShortPairs DEF Is
<1>4. Pair(<<Post, WinWait, WinStart(t)>>, "post", "win_wait", {})
  BY EpochStatements, ShortPairs DEF Is
<1>5. /\ Avoids(<<WinStart(t), AtSkip(TStart)>>, {"post", "win_wait"})
      /\ Avoids(<<EndEpoch>>, {"post", "win_wait"})
      /\ Avoids(<<Measured(EndEpoch)>>, {"post", "win_wait"})
  BY EpochStatements, ShortAvoids DEF Is
<1>6. Avoids(Only(r = 0, <<AtSkip(TStart)>>), {"post", "win_wait"})
  BY EpochStatements, ShortAvoids DEF Only
<1> QED BY <1>1, <1>2, <1>3, <1>4, <1>5, <1>6

LEMMA PostsToWaits ==
  ASSUME NEW p, NEW r, Sync(p) = "pscw"
  PROVE  PostToWait(ActiveIteration(p, r))
<1> DEFINE N == {"post", "win_wait"}
           E(ops) == Pair(ops, "post", "win_wait", {})
<1>1. \A t : Avoids(Operations(p, t), N) /\ Avoids(Operations(p, t) \o <<EndEpoch>>, N)
  <2> TAKE t
  <2>1. Avoids(Operations(p, t), N)
    BY OperationsAvoid
  <2> QED BY <2>1, ExposurePieces, AvoidsJoined
<1>2. \A q : Avoids(AccessEpoch(p, q), N)
  BY <1>1 DEF AccessEpoch
<1>3. N = N \cup {}
  OBVIOUS
<1>4. PostToWait(EpochsBackAndForth(p, r))
  <2>1. CASE r = 0
    <3>1. Avoids(<<WinStart(1), AtSkip(TStart)>> \o AccessEpoch(p, 0), N)
      BY <1>2, ExposurePieces, AvoidsJoined
    <3>2. E(<<WinStart(1), AtSkip(TStart)>> \o AccessEpoch(p, 0) \o <<Post, Measured(WinWait)>>)
      BY <1>3, <3>1, ExposurePieces, PairJoined
    <3> QED BY <2>1, <3>2 DEF EpochsBackAndForth, PostToWait, Paired
  <2>2. CASE r # 0
    <3>1. E(<<Post, WinWait, WinStart(0)>> \o AccessEpoch(p, 1))
      BY <1>2, <1>3, ExposurePieces, PairJoined
    <3> QED BY <2>2, <3>1 DEF EpochsBackAndForth, PostToWait, Paired
  <2> QED BY <2>1, <2>2
<1>5. PostToWait(EpochsBothWays(p, r))
  <2>1. Opening(Only(r = 0, <<AtSkip(TStart)>>) \o <<Post, WinStart(1 - r)>>, "post", "win_wait", {})
    BY <1>3, ExposurePieces, OpeningJoined
  <2>2. Opening(Only(r = 0, <<AtSkip(TStart)>>) \o <<Post, WinStart(1 - r)>> \o AccessEpoch(p, r),
                "post", "win_wait", {})
    BY <1>2, <2>1, OpeningJoined
  <2>3. E(Only(r = 0, <<AtSkip(TStart)>>) \o <<Post, WinStart(1 - r)>> \o AccessEpoch(p, r)
            \o <<Measured(WinWait)>>)
    BY <2>2, ExposurePieces, OpeningJoined
  <2> QED BY <2>3 DEF EpochsBothWays, PostToWait, Paired
<1>6. PostToWait(EpochsOneWay(p, r))
  <2>1. CASE r = 0
    <3>1. Avoids(<<WinStart(1), AtSkip(TStart)>> \o Operations(p, 1) \o <<Measured(EndEpoch)>>, N)
      BY <1>1, ExposurePieces, AvoidsJoined
    <3> QED BY <1>3, <2>1, <3>1 DEF EpochsOneWay, PostToWait, Paired
  <2>2. CASE r # 0
    BY <2>2, ExposurePieces DEF EpochsOneWay, PostToWait, Paired
  <2> QED BY <2>1, <2>2
<1>7. "osu_put_bibw" \notin PingPong
  BY DEF PingPong, Atomic
<1>8. ActiveIteration(p, r) =
         IF p.program \in PingPong THEN EpochsBackAndForth(p, r)
         ELSE IF p.program = "osu_put_bibw" THEN EpochsBothWays(p, r) ELSE EpochsOneWay(p, r)
  BY <1>7 DEF ActiveIteration
<1> QED BY <1>4, <1>5, <1>6, <1>8

LEMMA EpochsAreLockFree ==
  ASSUME NEW p, NEW r, Sync(p) = "pscw"
  PROVE  LockFree(ActiveIteration(p, r))
<1> DEFINE N == {"lock", "unlock"}
<1>1. \A t : Avoids(Operations(p, t), N)
  BY OperationsAvoid
<1>2. \A t : /\ Avoids(<<WinStart(t), AtSkip(TStart)>>, N) /\ Avoids(<<Post, WinWait, WinStart(t)>>, N)
             /\ Avoids(<<Post, WinStart(t)>>, N)
  BY EpochStatements, ShortAvoids DEF Is
<1>3. /\ Avoids(<<EndEpoch>>, N) /\ Avoids(<<Measured(EndEpoch)>>, N) /\ Avoids(<<Measured(WinWait)>>, N)
      /\ Avoids(<<Post, Measured(WinWait)>>, N) /\ Avoids(<<Post, WinWait>>, N)
  BY EpochStatements, ShortAvoids DEF Is
<1>4. Avoids(Only(r = 0, <<AtSkip(TStart)>>), N)
  BY EpochStatements, ShortAvoids DEF Only
<1>5. \A q : Avoids(AccessEpoch(p, q), N)
  BY <1>1, <1>3, AvoidsJoined DEF AccessEpoch
<1>6. Avoids(EpochsBackAndForth(p, r), N)
  <2>1. Avoids(<<WinStart(1), AtSkip(TStart)>> \o AccessEpoch(p, 0) \o <<Post, Measured(WinWait)>>, N)
    BY <1>2, <1>3, <1>5, AvoidsJoined
  <2>2. Avoids(<<Post, WinWait, WinStart(0)>> \o AccessEpoch(p, 1), N)
    BY <1>2, <1>5, AvoidsJoined
  <2> QED BY <2>1, <2>2 DEF EpochsBackAndForth
<1>7. Avoids(EpochsBothWays(p, r), N)
  <2>1. Avoids(Only(r = 0, <<AtSkip(TStart)>>) \o <<Post, WinStart(1 - r)>>, N)
    BY <1>2, <1>4, AvoidsJoined
  <2>2. Avoids(Only(r = 0, <<AtSkip(TStart)>>) \o <<Post, WinStart(1 - r)>> \o AccessEpoch(p, r), N)
    BY <1>5, <2>1, AvoidsJoined
  <2> QED BY <1>3, <2>2, AvoidsJoined DEF EpochsBothWays
<1>8. Avoids(EpochsOneWay(p, r), N)
  <2>1. Avoids(<<WinStart(1), AtSkip(TStart)>> \o Operations(p, 1) \o <<Measured(EndEpoch)>>, N)
    BY <1>1, <1>2, <1>3, AvoidsJoined
  <2> QED BY <1>3, <2>1 DEF EpochsOneWay
<1>9. "osu_put_bibw" \notin PingPong
  BY DEF PingPong, Atomic
<1>10. ActiveIteration(p, r) =
         IF p.program \in PingPong THEN EpochsBackAndForth(p, r)
         ELSE IF p.program = "osu_put_bibw" THEN EpochsBothWays(p, r) ELSE EpochsOneWay(p, r)
  BY <1>9 DEF ActiveIteration
<1> QED BY <1>6, <1>7, <1>8, <1>10 DEF LockFree

-----------------------------------------------------------------------------
(***************************************************************************)
(* All that these programs do besides their iterations.                    *)
(***************************************************************************)
Aside == Preparing \cup {"check", "report", "t_end"}

AllPaired(secs, x, y, S) ==
  IsSequence(secs) /\ \A s \in 1 .. Len(secs) : Paired(secs[s].ops, x, y, S)

LEMMA AllPairedJoined ==
  ASSUME NEW f, NEW g, NEW x, NEW y, NEW S, AllPaired(f, x, y, S), AllPaired(g, x, y, S)
  PROVE  AllPaired(f \o g, x, y, S)
<1>1. PICK h : h = f \o g
  OBVIOUS
<1>2. /\ IsSequence(h)
      /\ \A n \in 1 .. Len(h) : \/ n \in 1 .. Len(f) /\ h[n] = f[n]
                                \/ n - Len(f) \in 1 .. Len(g) /\ h[n] = g[n - Len(f)]
  <2>1. IsSequence(f) /\ IsSequence(g)
    BY DEF AllPaired
  <2> QED BY <1>1, <2>1, Joined
<1>3. ASSUME NEW n \in 1 .. Len(h) PROVE Paired(h[n].ops, x, y, S)
  BY <1>2 DEF AllPaired
<1> QED BY <1>1, <1>2, <1>3 DEF AllPaired

LEMMA ShortAllPaired ==
  ASSUME NEW x, NEW y, NEW S
  PROVE  /\ AllPaired(<<>>, x, y, S)
         /\ \A ops : Paired(ops, x, y, S) => /\ AllPaired(<<Once(ops)>>, x, y, S)
                                             /\ AllPaired(<<Loop(ops)>>, x, y, S)
<1>1. \A ops : Once(ops).ops = ops /\ Loop(ops).ops = ops
  BY DEF Once, Loop
<1>2. \A sec : Paired(sec.ops, x, y, S) => AllPaired(<<sec>>, x, y, S)
  BY ShortSequences DEF AllPaired
<1>3. AllPaired(<<>>, x, y, S)
  BY ShortSequences DEF AllPaired
<1> QED BY <1>1, <1>2, <1>3

LEMMA SizePaired ==
  ASSUME NEW p, Sync(p) = "pscw", NEW k, NEW r, NEW x, NEW y, NEW S, ({x, y} \cup S) \cap Aside = {},
         Paired(ActiveIteration(p, r), x, y, S)
  PROVE  AllPaired(SizeOf(p, k, r), x, y, S)
<1> DEFINE N == {x, y} \cup S
<1>1. N \cap Preparing = {} /\ N \cap {"call", "report"} = {} /\ "t_end" \notin N
  BY DEF Aside, Preparing
<1>2. Avoids(Preparation(p, k, r), N) /\ Avoids(Release(r), N)
  BY <1>1, PreparationAvoids, ReleaseAvoids
<1>3. Avoids(<<TEnd>>, N)
  BY <1>1, CallNames, ShortAvoids DEF Is
<1>4. /\ AllPaired(<<Once(Preparation(p, k, r))>>, x, y, S) /\ AllPaired(<<Once(Release(r))>>, x, y, S)
      /\ AllPaired(<<Once(<<TEnd>>)>>, x, y, S) /\ AllPaired(<<>>, x, y, S)
      /\ AllPaired(<<Loop(ActiveIteration(p, r))>>, x, y, S)
  BY <1>2, <1>3, ShortAllPaired DEF Paired
<1>5. AllPaired(Only(r = 0, <<Once(<<TEnd>>)>>), x, y, S)
  BY <1>4 DEF Only
<1>6. Work(p, r) = <<Loop(ActiveIteration(p, r))>> \o Only(r = 0, <<Once(<<TEnd>>)>>)
  BY DEF Work, Active
<1>7. AllPaired(Work(p, r), x, y, S)
  BY <1>4, <1>5, <1>6, AllPairedJoined
<1>8. AllPaired(<<Once(Preparation(p, k, r))>> \o Work(p, r), x, y, S)
  BY <1>4, <1>7, AllPairedJoined
<1> QED BY <1>4, <1>8, AllPairedJoined DEF SizeOf

LEMMA SizeAvoids ==
  ASSUME NEW p, Sync(p) = "pscw", NEW k, NEW r, NEW N, N \cap Aside = {},
         Avoids(ActiveIteration(p, r), N)
  PROVE  AllAvoid(SizeOf(p, k, r), N)
<1>1. N \cap Preparing = {} /\ N \cap {"call", "report"} = {} /\ "t_end" \notin N
  BY DEF Aside, Preparing
<1>2. Avoids(Preparation(p, k, r), N) /\ Avoids(Release(r), N)
  BY <1>1, PreparationAvoids, ReleaseAvoids
<1>3. Avoids(<<TEnd>>, N)
  BY <1>1, CallNames, ShortAvoids DEF Is
<1>4. /\ AllAvoid(<<Once(Preparation(p, k, r))>>, N) /\ AllAvoid(<<Once(Release(r))>>, N)
      /\ AllAvoid(<<Once(<<TEnd>>)>>, N) /\ AllAvoid(<<>>, N)
      /\ AllAvoid(<<Loop(ActiveIteration(p, r))>>, N)
  BY <1>2, <1>3, ShortAllAvoid
<1>5. AllAvoid(Only(r = 0, <<Once(<<TEnd>>)>>), N)
  BY <1>4 DEF Only
<1>6. Work(p, r) = <<Loop(ActiveIteration(p, r))>> \o Only(r = 0, <<Once(<<TEnd>>)>>)
  BY DEF Work, Active
<1>7. AllAvoid(Work(p, r), N)
  BY <1>4, <1>5, <1>6, AllAvoidJoined
<1>8. AllAvoid(<<Once(Preparation(p, k, r))>> \o Work(p, r), N)
  BY <1>4, <1>7, AllAvoidJoined
<1> QED BY <1>4, <1>8, AllAvoidJoined DEF SizeOf

\* The start-up and the clean-up, and the sizes.
LEMMA OneSidedSectionsAre ==
  ASSUME NEW p, p.np \in Nat \ {0}, NEW r \in 0 .. p.np - 1, NEW N, N \cap Aside = {}
  PROVE  LET b == OneSided(p)
         IN  /\ b.np = p.np /\ b.sizes \in Nat
             /\ \A k \in 1 .. b.sizes : Sections(b, r, k) = SizeOf(p, k, r)
             /\ \A k \in 0 .. b.sizes + 1 : k \in 1 .. b.sizes \/ AllAvoid(Sections(b, r, k), N)
<1>1. PICK b : b = OneSided(p)
  OBVIOUS
<1>2. /\ b.np = p.np /\ b.sizes = NumSizesOf(p) /\ b.sizes \in Nat /\ b.start = <<>> /\ b.finish = <<>>
      /\ \A k \in 1 .. b.sizes : \A q \in 1 .. b.np : b.body[k][q] = SizeOf(p, k, q - 1)
  BY <1>1, OneSidedRecord, SizesAre
<1>3. ASSUME NEW k \in 1 .. b.sizes PROVE Sections(b, r, k) = SizeOf(p, k, r)
  <2>0. b.sizes \in Nat
    BY <1>2
  <2>1. Sections(b, r, k) = b.body[k][r + 1]
    <3>1. k # 0 /\ k # b.sizes + 1
      BY <2>0
    <3> QED BY <3>1, Zenon DEF Sections
  <2>2. PICK q : q = r + 1
    OBVIOUS
  <2>3. q \in 1 .. b.np /\ q - 1 = r
    BY <1>2, <2>2
  <2> QED BY <1>2, <2>1, <2>2, <2>3
<1>4. "check" \notin N /\ "call" \notin N
  BY DEF Aside, Preparing
<1>5. Avoids(<<Check>>, N) /\ Avoids(<<>>, N) /\ Avoids(<<Finalize>>, N)
  BY <1>4, CallNames, ShortAvoids DEF Is
<1>6. AllAvoid(Sections(b, r, 0), N)
  <2>1. Sections(b, r, 0) = <<Once(<<Check>> \o <<>>)>>
    BY <1>2 DEF Sections
  <2>2. Avoids(<<Check>> \o <<>>, N)
    BY <1>5, AvoidsJoined
  <2> QED BY <2>1, <2>2, ShortAllAvoid
<1>7. AllAvoid(Sections(b, r, b.sizes + 1), N)
  <2>1. Sections(b, r, b.sizes + 1) = <<Once(<<>> \o <<Finalize>>)>>
    BY <1>2 DEF Sections
  <2>2. Avoids(<<>> \o <<Finalize>>, N)
    BY <1>5, AvoidsJoined
  <2> QED BY <2>1, <2>2, ShortAllAvoid
<1>8. \A k \in 0 .. b.sizes + 1 : k \in 1 .. b.sizes \/ k = 0 \/ k = b.sizes + 1
  BY <1>2
<1> QED BY <1>1, <1>2, <1>3, <1>6, <1>7, <1>8

\* A bracket of an iteration is one of the program, and lets nothing named in
\* S happen outside.
KeptInside(b, r, x, y, S) ==
  \A k \in 0 .. b.sizes + 1 : \A s \in 1 .. Len(Sections(b, r, k)) :
    LET ops == Sections(b, r, k)[s].ops
    IN  \A n \in 1 .. Len(ops) : ops[n].op \in S => Inside(ops, n, x, y)

LEMMA OneSidedBrackets ==
  ASSUME NEW p, p.np \in Nat \ {0}, Sync(p) = "pscw", NEW r \in 0 .. p.np - 1, NEW x, NEW y, NEW S,
         x # y, ({x, y} \cup S) \cap Aside = {}, Paired(ActiveIteration(p, r), x, y, S)
  PROVE  Brackets(OneSided(p), r, x, y) /\ KeptInside(OneSided(p), r, x, y, S)
<1>1. PICK b : b = OneSided(p)
  OBVIOUS
<1>2. PICK N : N = {x, y} \cup S
  OBVIOUS
<1>3. /\ \A k \in 1 .. b.sizes : Sections(b, r, k) = SizeOf(p, k, r)
      /\ \A k \in 0 .. b.sizes + 1 : k \in 1 .. b.sizes \/ AllAvoid(Sections(b, r, k), N)
  BY <1>1, <1>2, OneSidedSectionsAre
<1>4. ASSUME NEW k \in 0 .. b.sizes + 1, NEW s \in 1 .. Len(Sections(b, r, k)), NEW ops,
             ops = Sections(b, r, k)[s].ops
      PROVE  /\ Paired(ops, x, y, S)
             /\ \A n \in 1 .. Len(ops) : ops[n].op \in {x, y} => k \in 1 .. b.sizes
  <2>1. CASE k \in 1 .. b.sizes
    <3>1. AllPaired(Sections(b, r, k), x, y, S)
      BY <1>3, <2>1, SizePaired
    <3> QED BY <1>4, <2>1, <3>1 DEF AllPaired
  <2>2. CASE k \notin 1 .. b.sizes
    <3>1. Avoids(ops, N)
      BY <1>3, <1>4, <2>2 DEF AllAvoid
    <3> QED BY <1>2, <3>1 DEF Paired, Avoids
  <2> QED BY <2>1, <2>2
<1>5. ASSUME NEW k \in 0 .. b.sizes + 1, NEW s \in 1 .. Len(Sections(b, r, k)), NEW ops,
             ops = Sections(b, r, k)[s].ops
      PROVE  /\ Bracket(ops, x, y)
             /\ \A n \in 1 .. Len(ops) : ops[n].op \in {x, y} => k \in 1 .. b.sizes
             /\ \A n \in 1 .. Len(ops) : ops[n].op \in S => Inside(ops, n, x, y)
  BY <1>4, <1>5, PairedIsBracket
<1>6. Brackets(b, r, x, y)
  BY <1>5 DEF Brackets
<1>7. KeptInside(b, r, x, y, S)
  BY <1>5 DEF KeptInside
<1> QED BY <1>1, <1>6, <1>7

LEMMA OneSidedLockFree ==
  ASSUME NEW p, p.np \in Nat \ {0}, Sync(p) = "pscw", NEW r \in 0 .. p.np - 1,
         NEW k \in 0 .. OneSided(p).sizes + 1
  PROVE  AllAvoid(Sections(OneSided(p), r, k), {"lock", "unlock"})
<1>1. PICK b : b = OneSided(p)
  OBVIOUS
<1>2. {"lock", "unlock"} \cap Aside = {}
  BY DEF Aside, Preparing
<1>3. /\ \A m \in 1 .. b.sizes : Sections(b, r, m) = SizeOf(p, m, r)
      /\ \A m \in 0 .. b.sizes + 1 : m \in 1 .. b.sizes \/ AllAvoid(Sections(b, r, m), {"lock", "unlock"})
  BY <1>1, <1>2, OneSidedSectionsAre
<1>4. Avoids(ActiveIteration(p, r), {"lock", "unlock"})
  BY EpochsAreLockFree DEF LockFree
<1> QED BY <1>1, <1>2, <1>3, <1>4, SizeAvoids

LEMMA OneSidedInEpochs ==
  ASSUME NEW p, p.np \in Nat \ {0}, Sync(p) = "pscw"
  PROVE  InEpochs(OneSided(p))
<1>1. PICK b : b = OneSided(p)
  OBVIOUS
<1>2. b.np = p.np
  BY <1>1, OneSidedRecord
<1> SUFFICES ASSUME NEW r \in 0 .. b.np - 1
             PROVE  /\ Brackets(b, r, "start_epoch", "complete") /\ Brackets(b, r, "post", "win_wait")
                    /\ \A k \in 0 .. b.sizes + 1 : \A s \in 1 .. Len(Sections(b, r, k)) :
                         LET ops == Sections(b, r, k)[s].ops
                         IN  \A n \in 1 .. Len(ops) :
                               /\ ops[n].op \notin {"lock", "unlock"}
                               /\ ops[n].op = "access" => Inside(ops, n, "start_epoch", "complete")
  BY <1>1 DEF InEpochs
<1>3. /\ ({"start_epoch", "complete"} \cup {"access"}) \cap Aside = {}
      /\ ({"post", "win_wait"} \cup {}) \cap Aside = {}
  BY DEF Aside, Preparing
<1>4. r \in 0 .. p.np - 1
  BY <1>2
<1>5. Brackets(b, r, "start_epoch", "complete") /\ KeptInside(b, r, "start_epoch", "complete", {"access"})
  BY <1>1, <1>3, <1>4, StartsToEnds, OneSidedBrackets DEF StartToEnd
<1>6. Brackets(b, r, "post", "win_wait")
  BY <1>1, <1>3, <1>4, PostsToWaits, OneSidedBrackets DEF PostToWait
<1>7. ASSUME NEW k \in 0 .. b.sizes + 1, NEW s \in 1 .. Len(Sections(b, r, k)), NEW ops,
             ops = Sections(b, r, k)[s].ops, NEW n \in 1 .. Len(ops)
      PROVE  /\ ops[n].op \notin {"lock", "unlock"}
             /\ ops[n].op = "access" => Inside(ops, n, "start_epoch", "complete")
  <2>1. AllAvoid(Sections(b, r, k), {"lock", "unlock"})
    BY <1>1, <1>4, OneSidedLockFree
  <2>2. ops[n].op \notin {"lock", "unlock"}
    BY <1>7, <2>1 DEF AllAvoid, Avoids
  <2>3. ops[n].op = "access" => Inside(ops, n, "start_epoch", "complete")
    BY <1>5, <1>7 DEF KeptInside
  <2> QED BY <2>2, <2>3
<1> QED BY <1>5, <1>6, <1>7

\* With two ranks, an operation is one on the other rank.
LEMMA EpochsHaveOneTarget ==
  ASSUME NEW p, p.np \in Nat \ {0}, p.program \in OneSidedPrograms, Sync(p) = "pscw"
  PROVE  OneTarget(OneSided(p))
<1>1. PICK b : b = OneSided(p)
  OBVIOUS
<1>2. b.np = p.np /\ b.fits = (p.program \in Latency \/ p.np = 2)
  BY <1>1, OneSidedRecord
<1>3. p.program \notin Latency
  BY DEF Sync, Supported, Latency
<1>4. OnlyDoes(b, Does(p))
  BY <1>1, OneSidedIs, OneSidedAccess
<1> SUFFICES ASSUME b.fits, NEW r \in 0 .. b.np - 1
             PROVE  \E t \in (0 .. b.np - 1) \ {r} : \A u : Reaches(b, r, u) => u = t
  BY <1>1 DEF OneTarget
<1>5. p.np = 2 /\ r \in {0, 1}
  <2>1. p.np = 2
    BY <1>2, <1>3
  <2> QED BY <1>2, <2>1
<1>6. PeerOf(p, r) = 1 - r
  BY <1>5 DEF PeerOf, Active
<1>7. Does(p)[r].peer = 1 - r
  <2>1. Does(p)[r] = DoneBy(p, r)
    BY <1>2 DEF Does
  <2> QED BY <1>6, <2>1, AccessIs DEF DoneBy, IsAccess
<1>8. ASSUME NEW u, Reaches(b, r, u) PROVE u = 1 - r
  <2>1. PICK k \in 0 .. b.sizes + 1 : \E s \in 1 .. Len(Sections(b, r, k)) :
          \E n \in 1 .. Len(Sections(b, r, k)[s].ops) :
            Sections(b, r, k)[s].ops[n].op = "access" /\ Sections(b, r, k)[s].ops[n].peer = u
    BY <1>8 DEF Reaches
  <2>2. PICK s \in 1 .. Len(Sections(b, r, k)) : \E n \in 1 .. Len(Sections(b, r, k)[s].ops) :
            Sections(b, r, k)[s].ops[n].op = "access" /\ Sections(b, r, k)[s].ops[n].peer = u
    BY <2>1
  <2>3. PICK ops : ops = Sections(b, r, k)[s].ops
    OBVIOUS
  <2>4. PICK n \in 1 .. Len(ops) : ops[n].op = "access" /\ ops[n].peer = u
    BY <2>2, <2>3
  <2>5. DoesAt(b, k, s, ops, Does(p)[r])
    BY <1>4, <2>3 DEF OnlyDoes
  <2>6. ops[n] = Does(p)[r]
    BY <2>4, <2>5 DEF DoesAt
  <2> QED BY <1>7, <2>4, <2>6
<1>9. 1 - r \in (0 .. b.np - 1) \ {r}
  BY <1>2, <1>5
<1> QED BY <1>8, <1>9

(***************************************************************************)
(* UpdatesSeparated for all these programs and synchronisations.  Where    *)
(* the program itself waits for its operations, it holds by that; in the   *)
(* epochs of osu_put_bw, osu_put_bibw and osu_acc_latency, where the       *)
(* origin does not, it is MPI_Win_wait of the target that keeps the        *)
(* operations of two iterations apart.                                     *)
(***************************************************************************)
THEOREM OneSidedUpdates == WinSpec => [](IsOneSidedProgram(benchmark) => UpdatesSeparated)
<1>1. ASSUME IsOneSidedProgram(benchmark), Sync(benchmark) = "pscw"
      PROVE  WellFormed(benchmark) /\ InEpochs(benchmark) /\ OneTarget(benchmark)
  <2>1. PICK p : p.np \in Nat \ {0} /\ p.program \in OneSidedPrograms /\ benchmark = OneSided(p)
    BY <1>1 DEF IsOneSidedProgram
  <2>2. Sync(p) = "pscw"
    BY <1>1, <2>1, SameOptions
  <2>3. WellFormed(benchmark)
    BY <2>1, OneSidedIs, OneSidedIsWellFormed
  <2> QED BY <2>1, <2>2, <2>3, OneSidedInEpochs, EpochsHaveOneTarget
<1>2. /\ (WellFormed(benchmark) /\ InEpochs(benchmark) /\ OneTarget(benchmark) => UpdatesSeparated)
      /\ (IsOneSidedProgram(benchmark)
            /\ (Sync(benchmark) = "pscw" =>
                  benchmark.program \notin {"osu_put_bw", "osu_put_bibw", "osu_acc_latency"})
          => UpdatesSeparated)
      => (IsOneSidedProgram(benchmark) => UpdatesSeparated)
  BY <1>1
<1> QED BY <1>2, EpochsTheorem, OneSidedSeparated, PTL

-----------------------------------------------------------------------------
(***************************************************************************)
(* Taking turns.  Rank 0 begins an access epoch, and does not begin        *)
(* another one until it has waited for the epoch in which it is answered;  *)
(* rank 1 begins its access epoch when it has waited for the one before.   *)
(***************************************************************************)
BackAndForth(b) ==
  /\ b.fits => b.np = 2
  /\ \A r \in 0 .. b.np - 1 : /\ r = 0 => Brackets(b, r, "start_epoch", "win_wait")
                              /\ r = 1 => Brackets(b, r, "win_wait", "start_epoch")

\* Rank r has asked and has not been answered; it has been asked and has not
\* answered.
Asks(r)  == IsIn(benchmark, r, at[r], "start_epoch", "win_wait")
Asked(r) == IsIn(benchmark, r, at[r], "win_wait", "start_epoch")

TurnOn(r) ==
  /\ r = 0 => \/ Asks(r) /\ started[r] = Closed(r) + 1
              \/ ~Asks(r) /\ started[r] = Closed(r)
  /\ r = 1 => \/ Asked(r) /\ Closed(r) = started[r] + 1
              \/ ~Asked(r) /\ Closed(r) = started[r]

TurnInv ==
  WellFormed(benchmark) /\ InEpochs(benchmark) /\ BackAndForth(benchmark) =>
    \A r \in Ranks : TurnOn(r)

LEMMA ClosedMoves ==
  ASSUME Standing, InEpochs(benchmark), NEW r \in Ranks, EpochOn(r), Acts(r)
  PROVE  /\ Closed(r) \in Int
         /\ Op(r).op = "win_wait" => Closed(r)' = Closed(r) + 1
         /\ Op(r).op # "win_wait" => Closed(r)' = Closed(r)
<1>1. Placed
  BY DEF Standing
<1>2. /\ Op(r).op = "post" => ~Bares(r)
      /\ Op(r).op = "win_wait" => Bares(r)
  <2>1. Brackets(benchmark, r, "post", "win_wait")
    BY DEF InEpochs, Ranks
  <2> QED BY <2>1, RankBrackets DEF Bares
<1>3. /\ posted[r] \in Nat /\ exposed[r] \in BOOLEAN
      /\ Op(r).op = "post" => ~exposed[r]
      /\ Op(r).op = "win_wait" => exposed[r]
  BY <1>2 DEF EpochOn
<1>4. CASE Op(r).op = "post"
  <2>1. posted'[r] = posted[r] + 1 /\ exposed'[r] = TRUE
    BY <1>1, <1>4, EffectsAt
  <2> QED BY <1>3, <1>4, <2>1 DEF Closed
<1>5. CASE Op(r).op = "win_wait"
  <2>1. posted'[r] = posted[r] /\ exposed'[r] = FALSE
    BY <1>1, <1>5, EffectsAt
  <2> QED BY <1>3, <1>5, <2>1 DEF Closed
<1>6. CASE Op(r).op \notin {"post", "win_wait"}
  <2>1. posted'[r] = posted[r] /\ exposed'[r] = exposed[r]
    BY <1>1, <1>6, EffectsAt
  <2> QED BY <1>3, <1>6, <2>1 DEF Closed
<1> QED BY <1>4, <1>5, <1>6

LEMMA MoverTurns ==
  ASSUME Standing, InEpochs(benchmark), BackAndForth(benchmark), NEW r \in Ranks, EpochOn(r),
         TurnOn(r), Acts(r)
  PROVE  TurnOn(r)'
<1>1. benchmark' = benchmark /\ Over' = Over /\ Placed
  <2>1. launch' = launch
    BY DEF Acts
  <2> QED BY <2>1, SameLaunch DEF Standing
<1>2. \A x, y : IsIn(benchmark, r, at'[r], x, y) <=> IsIn(benchmark, r, at[r], x, y)'
  BY <1>1 DEF IsIn
<1>3. PICK c, d, s, t : c = Closed(r) /\ d = Closed(r)' /\ s = started[r] /\ t = started'[r]
  OBVIOUS
<1>4. /\ c \in Int /\ s \in Nat
      /\ Op(r).op = "win_wait" => d = c + 1
      /\ Op(r).op # "win_wait" => d = c
      /\ Op(r).op = "start_epoch" => t = s + 1
      /\ Op(r).op # "start_epoch" => t = s
  BY <1>1, <1>3, ClosedMoves, EffectsAt DEF EpochOn
<1>5. r = 0 => (Asks(r)' /\ t = d + 1) \/ (~Asks(r)' /\ t = d)
  <2> SUFFICES ASSUME r = 0 PROVE (Asks(r)' /\ t = d + 1) \/ (~Asks(r)' /\ t = d)
    OBVIOUS
  <2>1. Brackets(benchmark, r, "start_epoch", "win_wait")
    BY DEF BackAndForth, Ranks
  <2>2. /\ Op(r).op = "start_epoch" => Asks(r)' /\ ~Asks(r)
        /\ Op(r).op = "win_wait" => ~Asks(r)' /\ Asks(r)
        /\ Op(r).op \notin {"start_epoch", "win_wait"} => (Asks(r)' <=> Asks(r))
    BY <1>2, <2>1, RankBrackets DEF Asks
  <2>3. (Asks(r) /\ s = c + 1) \/ (~Asks(r) /\ s = c)
    BY <1>3 DEF TurnOn
  <2>4. CASE Op(r).op = "start_epoch"
    BY <1>4, <2>2, <2>3, <2>4
  <2>5. CASE Op(r).op = "win_wait"
    BY <1>4, <2>2, <2>3, <2>5
  <2>6. CASE Op(r).op \notin {"start_epoch", "win_wait"}
    BY <1>4, <2>2, <2>3, <2>6
  <2> QED BY <2>4, <2>5, <2>6
<1>6. r = 1 => (Asked(r)' /\ d = t + 1) \/ (~Asked(r)' /\ d = t)
  <2> SUFFICES ASSUME r = 1 PROVE (Asked(r)' /\ d = t + 1) \/ (~Asked(r)' /\ d = t)
    OBVIOUS
  <2>1. Brackets(benchmark, r, "win_wait", "start_epoch")
    BY DEF BackAndForth, Ranks
  <2>2. /\ Op(r).op = "win_wait" => Asked(r)' /\ ~Asked(r)
        /\ Op(r).op = "start_epoch" => ~Asked(r)' /\ Asked(r)
        /\ Op(r).op \notin {"start_epoch", "win_wait"} => (Asked(r)' <=> Asked(r))
    BY <1>2, <2>1, RankBrackets DEF Asked
  <2>3. (Asked(r) /\ c = s + 1) \/ (~Asked(r) /\ c = s)
    BY <1>3 DEF TurnOn
  <2>4. CASE Op(r).op = "start_epoch"
    BY <1>4, <2>2, <2>3, <2>4
  <2>5. CASE Op(r).op = "win_wait"
    BY <1>4, <2>2, <2>3, <2>5
  <2>6. CASE Op(r).op \notin {"start_epoch", "win_wait"}
    BY <1>4, <2>2, <2>3, <2>6
  <2> QED BY <2>4, <2>5, <2>6
<1> QED BY <1>3, <1>5, <1>6 DEF TurnOn

LEMMA TurnStep ==
  ASSUME PlaceInv, QueueInv, EpochInv, TurnInv, [WinNext]_<<vars, windows>>
  PROVE  TurnInv'
<1> SUFFICES ASSUME WellFormed(benchmark)', InEpochs(benchmark)', BackAndForth(benchmark)',
                    NEW q \in Ranks'
             PROVE  TurnOn(q)'
  BY DEF TurnInv
<1>1. /\ Standing /\ launch' = launch /\ benchmark' = benchmark /\ Ranks' = Ranks /\ Over' = Over
      /\ \/ \E r \in Ranks : Acts(r)
         \/ \E r \in Ranks : \E n : Lapses(r, n)
         \/ Rests
  BY StandingStep, SameLaunch
<1>2. /\ q \in Ranks /\ InEpochs(benchmark) /\ BackAndForth(benchmark) /\ WellFormed(benchmark)
      /\ Placed /\ EpochOn(q) /\ TurnOn(q)
  BY <1>1 DEF Standing, EpochInv, TurnInv
<1>3. ASSUME at'[q] = at[q], posted'[q] = posted[q], started'[q] = started[q],
             exposed'[q] = exposed[q]
      PROVE  TurnOn(q)'
  <2>1. (Asks(q)' <=> Asks(q)) /\ (Asked(q)' <=> Asked(q)) /\ Closed(q)' = Closed(q)
    BY <1>1, <1>3 DEF Asks, Asked, IsIn, Closed
  <2> QED BY <1>2, <1>3, <2>1 DEF TurnOn
<1>4. CASE \E r \in Ranks : Acts(r)
  <2>1. PICK r \in Ranks : Acts(r)
    BY <1>4
  <2>2. CASE q = r
    BY <1>1, <1>2, <2>1, <2>2, MoverTurns
  <2>3. CASE q # r
    BY <1>2, <1>3, <2>1, <2>3, ActsAt, OthersStay
  <2> QED BY <2>2, <2>3
<1>5. CASE \E r \in Ranks : \E n : Lapses(r, n)
  BY <1>3, <1>5 DEF Lapses
<1>6. CASE Rests
  BY <1>3, <1>6 DEF Rests, windows, epochs
<1> QED BY <1>1, <1>4, <1>5, <1>6

LEMMA TurnInvariance == WinSpec => []TurnInv
<1>1. WinInit => TurnInv
  <2> SUFFICES ASSUME WinInit, NEW r \in Ranks PROVE TurnOn(r)
    BY DEF TurnInv
  <2>1. posted[r] = 0 /\ started[r] = 0 /\ exposed[r] = FALSE /\ at[r] = Place(0, 1, 0, 1)
    BY DEF WinInit, Init, Place
  <2>2. Closed(r) = 0
    BY <2>1 DEF Closed
  <2>3. at[r].pos = 1
    BY <2>1 DEF Place
  <2>4. ~Asks(r) /\ ~Asked(r)
    BY <2>3 DEF Asks, Asked, IsIn, Inside
  <2> QED BY <2>1, <2>2, <2>4 DEF TurnOn
<1>2. PlaceInv /\ QueueInv /\ EpochInv /\ TurnInv /\ [WinNext]_<<vars, windows>> => TurnInv'
  BY TurnStep
<1> QED BY <1>1, <1>2, PlaceInvariance, QueueInvariance, EpochInvariance, PTL DEF WinSpec

\* With the counters of both in step, one of them has nothing under way.
LEMMA TurnsExclude ==
  ASSUME WellFormed(benchmark), InEpochs(benchmark), BackAndForth(benchmark), EpochInv, ServedInv,
         TurnInv, NEW r \in Ranks, NEW q \in Ranks, Entries(r) # {}, Entries(q) # {}
  PROVE  r = q
<1>1. benchmark.fits
  BY DEF EpochInv, EpochOn, Usable
<1>2. r \in {0, 1} /\ q \in {0, 1}
  <2>1. benchmark.np = 2
    BY <1>1 DEF BackAndForth
  <2> QED BY <2>1 DEF Ranks
<1> SUFFICES ASSUME NEW u \in Ranks, NEW v \in Ranks, u = 0, v = 1, Entries(u) # {}, Entries(v) # {}
             PROVE  FALSE
  BY <1>2
<1>3. PICK e \in Entries(u), f \in Entries(v) : TRUE
  OBVIOUS
<1>4. EpochOn(u) /\ EpochOn(v) /\ Served(u, v) /\ Served(v, u) /\ TurnOn(u) /\ TurnOn(v)
  BY DEF EpochInv, ServedInv, TurnInv
<1>5. PICK c, d, s, t, g, h : c = Closed(u) /\ d = Closed(v) /\ s = started[u] /\ t = started[v]
                              /\ g = e.epoch /\ h = f.epoch
  OBVIOUS
<1>6. s \in Nat /\ t \in Nat /\ g \in Nat /\ g <= s /\ h \in Nat /\ h <= t
  BY <1>3, <1>4, <1>5 DEF EpochOn
<1>7. g > d /\ h > c
  BY <1>3, <1>4, <1>5 DEF Served
<1>8. (s = c + 1 \/ s = c) /\ (d = t + 1 \/ d = t)
  BY <1>4, <1>5 DEF TurnOn
<1>9. c \in Int
  BY <1>4, <1>5 DEF EpochOn, Closed
<1> QED BY <1>6, <1>7, <1>8, <1>9

-----------------------------------------------------------------------------
(***************************************************************************)
(* The programs that go back and forth, where they use epochs.             *)
(***************************************************************************)
LEMMA TurnPieces ==
  /\ Opening(<<WinStart(1), AtSkip(TStart)>>, "start_epoch", "win_wait", {})
  /\ Ending(<<Post, Measured(WinWait)>>, "start_epoch", "win_wait", {})
  /\ Pair(<<Post, WinWait, WinStart(0)>>, "win_wait", "start_epoch", {})
  /\ Avoids(<<EndEpoch>>, {"start_epoch", "win_wait"})
<1>1. Opening(<<WinStart(1), AtSkip(TStart)>>, "start_epoch", "win_wait", {})
  BY EpochStatements, ShortPairs DEF Is
<1>2. Ending(<<Post, Measured(WinWait)>>, "start_epoch", "win_wait", {})
  BY EpochStatements, ShortPairs DEF Is
<1>3. Pair(<<Post, WinWait, WinStart(0)>>, "win_wait", "start_epoch", {})
  <2>1. PICK o, v, c : o = Post /\ v = WinWait /\ c = WinStart(0)
    OBVIOUS
  <2>2. PICK ops : ops = <<o, v, c>>
    OBVIOUS
  <2>3. o.op = "post" /\ v.op = "win_wait" /\ ~v.at_skip /\ c.op = "start_epoch" /\ ~c.at_skip
    BY <2>1, EpochStatements DEF Is
  <2>4. IsSequence(ops) /\ Len(ops) = 3 /\ ops[1] = o /\ ops[2] = v /\ ops[3] = c
    BY <2>2, ShortSequences
  <2>5. 2 \in 1 .. Len(ops) /\ 3 \in 1 .. Len(ops) /\ 2 < 3
        /\ Encloses(ops, 2, 3, "win_wait", "start_epoch", {})
    BY <2>3, <2>4 DEF Encloses
  <2> QED BY <2>1, <2>2, <2>4, <2>5 DEF Pair
<1>4. Avoids(<<EndEpoch>>, {"start_epoch", "win_wait"})
  BY EpochStatements, ShortAvoids DEF Is
<1> QED BY <1>1, <1>2, <1>3, <1>4

LEMMA PingPongTurns ==
  ASSUME NEW p, p.program \in PingPong, Sync(p) = "pscw"
  PROVE  /\ Paired(ActiveIteration(p, 0), "start_epoch", "win_wait", {})
         /\ Paired(ActiveIteration(p, 1), "win_wait", "start_epoch", {})
<1>1. /\ ActiveIteration(p, 0) = <<WinStart(1), AtSkip(TStart)>> \o AccessEpoch(p, 0)
                                    \o <<Post, Measured(WinWait)>>
      /\ ActiveIteration(p, 1) = <<Post, WinWait, WinStart(0)>> \o AccessEpoch(p, 1)
  <2>1. "osu_put_bibw" \notin PingPong
    BY DEF PingPong, Atomic
  <2>2. \A r : ActiveIteration(p, r) =
          IF p.program \in PingPong THEN EpochsBackAndForth(p, r)
          ELSE IF p.program = "osu_put_bibw" THEN EpochsBothWays(p, r) ELSE EpochsOneWay(p, r)
    BY <2>1 DEF ActiveIteration
  <2>3. \A r : ActiveIteration(p, r) = EpochsBackAndForth(p, r)
    BY <2>2
  <2> QED BY <2>3 DEF EpochsBackAndForth
<1>2. \A r : Avoids(AccessEpoch(p, r), {"start_epoch", "win_wait"})
  <2> TAKE r
  <2>1. Avoids(Operations(p, 1 - r), {"start_epoch", "win_wait"})
    BY OperationsAvoid
  <2> QED BY <2>1, TurnPieces, AvoidsJoined DEF AccessEpoch
<1>3. Pair(ActiveIteration(p, 0), "start_epoch", "win_wait", {})
  <2>1. Opening(<<WinStart(1), AtSkip(TStart)>> \o AccessEpoch(p, 0), "start_epoch", "win_wait", {})
    BY <1>2, TurnPieces, OpeningJoined
  <2>2. Pair(<<WinStart(1), AtSkip(TStart)>> \o AccessEpoch(p, 0) \o <<Post, Measured(WinWait)>>,
             "start_epoch", "win_wait", {})
    BY <2>1, TurnPieces, OpeningJoined
  <2> QED BY <1>1, <2>2
<1>4. Pair(ActiveIteration(p, 1), "win_wait", "start_epoch", {})
  <2>1. Avoids(AccessEpoch(p, 1), {"win_wait", "start_epoch"} \cup {})
    <3>1. {"win_wait", "start_epoch"} \cup {} = {"start_epoch", "win_wait"}
      OBVIOUS
    <3> QED BY <1>2, <3>1
  <2>2. Pair(<<Post, WinWait, WinStart(0)>> \o AccessEpoch(p, 1), "win_wait", "start_epoch", {})
    BY <2>1, TurnPieces, PairJoined
  <2> QED BY <1>1, <2>2
<1> QED BY <1>3, <1>4 DEF Paired

LEMMA PingPongFits ==
  ASSUME NEW p, p.np \in Nat \ {0}, p.program \in PingPong, OneSided(p).fits
  PROVE  OneSided(p).np = 2
<1>1. OneSided(p).np = p.np /\ OneSided(p).fits = (p.program \in Latency \/ p.np = 2)
  BY OneSidedRecord
<1>2. p.program \notin Latency
  BY DEF PingPong, Atomic, Latency
<1> QED BY <1>1, <1>2

LEMMA OneSidedTakesTurns ==
  ASSUME NEW p, p.np \in Nat \ {0}, p.program \in PingPong, Sync(p) = "pscw"
  PROVE  BackAndForth(OneSided(p))
<1>1. PICK b : b = OneSided(p)
  OBVIOUS
<1>2. b.np = p.np
  BY <1>1, OneSidedRecord
<1>3. b.fits => b.np = 2
  BY <1>1, PingPongFits
<1>4. ({"start_epoch", "win_wait"} \cup {}) \cap Aside = {} /\ ({"win_wait", "start_epoch"} \cup {}) \cap Aside = {}
  BY DEF Aside, Preparing
<1>5. ASSUME NEW r \in 0 .. b.np - 1
      PROVE  /\ r = 0 => Brackets(b, r, "start_epoch", "win_wait")
             /\ r = 1 => Brackets(b, r, "win_wait", "start_epoch")
  <2>1. r \in 0 .. p.np - 1
    BY <1>2
  <2> QED BY <1>1, <1>4, <2>1, PingPongTurns, OneSidedBrackets
<1> QED BY <1>1, <1>3, <1>5 DEF BackAndForth

LEMMA SomeElement ==
  ASSUME NEW f, IsSequence(f), f # <<>>
  PROVE  Elements(f) # {}
<1>1. DOMAIN f = 1 .. Len(f) /\ Len(f) \in Nat /\ f = [n \in 1 .. Len(f) |-> f[n]]
  BY DEF IsSequence
<1>2. Len(f) # 0
  <2> SUFFICES ASSUME Len(f) = 0 PROVE f = <<>>
    OBVIOUS
  <2>1. 1 .. Len(f) = {}
    OBVIOUS
  <2> QED BY <1>1, <2>1
<1>3. 1 \in DOMAIN f
  BY <1>1, <1>2
<1> QED BY <1>3 DEF Elements

(***************************************************************************)
(* OneWayAtATime in these programs with every synchronisation but the      *)
(* fence.  With passive targets only rank 0 has operations.  With epochs   *)
(* the two ranks take turns: each begins its access epoch when the target  *)
(* of the one before has seen that epoch end.                              *)
(***************************************************************************)
THEOREM OneSidedTurns ==
  WinSpec => [](IsOneSidedProgram(benchmark) /\ Sync(benchmark) # "fence" => OneWayAtATime)
<1>1. ASSUME IsOneSidedProgram(benchmark), Sync(benchmark) # "fence", EpochInv, ServedInv, TurnInv,
             ReachInv, benchmark.program \in PingPong, NEW r \in Ranks, NEW q \in Ranks,
             pending[r] # <<>>, pending[q] # <<>>, QueueInv
      PROVE  r = q
  <2>1. PICK p : p.np \in Nat \ {0} /\ p.program \in OneSidedPrograms /\ benchmark = OneSided(p)
    BY <1>1 DEF IsOneSidedProgram
  <2>2. PICK b : b = OneSided(p)
    OBVIOUS
  <2>3. b.program = p.program /\ b.np = p.np /\ Sync(b) = Sync(p) /\ b.sizes = NumSizesOf(p)
    BY <2>1, <2>2, OneSidedRecord, SameOptions
  <2>4. WellFormed(benchmark)
    BY <2>1, OneSidedIs, OneSidedIsWellFormed
  <2>5. Entries(r) # {} /\ Entries(q) # {}
    BY <1>1, <2>4, SomeElement DEF QueueInv, Entries
  <2>6. CASE Sync(p) = "pscw"
    <3>1. InEpochs(benchmark) /\ BackAndForth(benchmark)
      BY <1>1, <2>1, <2>2, <2>3, <2>6, OneSidedInEpochs, OneSidedTakesTurns
    <3> QED BY <1>1, <2>4, <2>5, <3>1, TurnsExclude
  <2>7. CASE Sync(p) # "pscw"
    <3>1. OneWay(p)
      BY <1>1, <2>1, <2>2, <2>3, <2>7 DEF OneWay, Active
    <3>2. OnlyRoot(b) /\ b.sizes \in Nat /\ b.np \in Nat
      BY <2>1, <2>2, <2>3, <3>1, OneSidedRoot, SizesAre
    <3>3. \A v \in 1 .. b.np - 1 : \A t : ~Reaches(b, v, t)
      BY <3>2, RootAlone
    <3>4. ASSUME NEW v \in Ranks, Entries(v) # {} PROVE v = 0
      <4>1. PICK e \in Entries(v) : Reaches(b, v, e.target)
        BY <1>1, <2>1, <2>2, <2>4, <3>4 DEF ReachInv
      <4>2. v \in 0 .. b.np - 1 /\ v \notin 1 .. b.np - 1
        BY <2>1, <2>2, <3>3, <4>1 DEF Ranks
      <4> QED BY <3>2, <4>2
    <3> QED BY <2>5, <3>4
  <2> QED BY <2>6, <2>7
<1>2. EpochInv /\ ServedInv /\ TurnInv /\ ReachInv /\ QueueInv
      => (IsOneSidedProgram(benchmark) /\ Sync(benchmark) # "fence" => OneWayAtATime)
  BY <1>1 DEF OneWayAtATime
<1> QED BY <1>2, EpochInvariance, ServedInvariance, TurnInvariance, ReachInvariance,
           QueueInvariance, PTL
=============================================================================
