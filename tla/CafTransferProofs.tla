-------------------------- MODULE CafTransferProofs ---------------------------
(***************************************************************************)
(* The control flow of the transfer benchmarks of the CAF suites, for      *)
(* every number of images, every mode of transfer and every choice of the  *)
(* parameters.  Each image decides for itself how often it repeats a trial *)
(* and when it gives up.  They decide alike because what they decide by,   *)
(* the verdict and the time, is common when it is used: votes and the time *)
(* of one image are exchanged between two sync all.                        *)
(*                                                                         *)
(* The sync all an image will enter next is determined by where it is, its *)
(* verdict and its time.  Images that have entered equally many are on the *)
(* way to the same one; this is what the proof is about (SyncInv).         *)
(***************************************************************************)
EXTENDS CafTransfer, NumberLemmas

-----------------------------------------------------------------------------
(***************************************************************************)
(* The statements that decide where an image goes, in the order in which   *)
(* the parts of a call have them.  All images have the same ones.          *)
(***************************************************************************)
Control == {"reset checks", "sync all", "vote", "tally", "exit", "start timer",
            "stop timer", "learn"}

Voting == <<"vote", "sync all", "tally", "sync all", "exit">>

\* The body of the loop, by when it synchronises and whether it verifies.
BodyTrace(c) ==
  IF c.kind = "halo"
  THEN IF c.sync = "all"
       THEN IF c.check
            THEN <<"sync all", "sync all", "vote", "sync all", "tally", "sync all", "exit">>
            ELSE <<"sync all", "sync all">>
       ELSE IF c.check THEN Voting ELSE <<>>
  ELSE IF c.check
  THEN IF c.sync # "all"
       THEN <<"vote", "sync all", "tally", "sync all", "exit",
              "vote", "sync all", "tally", "sync all", "exit">>
       ELSE IF c.mode \in GetModes
       THEN <<"vote", "sync all", "tally", "sync all", "exit", "sync all",
              "vote", "sync all", "tally", "sync all", "exit", "sync all">>
       ELSE <<"sync all", "vote", "sync all", "tally", "sync all", "exit",
              "sync all", "vote", "sync all", "tally", "sync all", "exit">>
  ELSE IF c.sync = "all" THEN <<"sync all", "sync all">> ELSE <<>>

Resizes(c) == c.kind # "halo" /\ c.mode \in AllModes

Trace(c, part) ==
  CASE part = "open"   -> IF c.kind = "halo" THEN <<"sync all">>
                          ELSE <<"reset checks", "sync all">>
    [] part = "resize" -> IF Resizes(c) THEN <<"sync all", "sync all">> ELSE <<>>
    [] part = "trial"  -> IF c.kind = "halo" THEN <<"reset checks", "sync all", "start timer">>
                          ELSE <<"sync all", "start timer">>
    [] part = "body"   -> BodyTrace(c)
    [] part = "close"  -> <<"sync all", "stop timer", "sync all", "learn", "sync all">>
    [] part = "report" -> <<>>
    [] part = "end"    -> <<"sync all">>
    [] part = "done"   -> <<>>

Deciding(s) == {n \in 1 .. Len(s) : s[n].op \in Control}

-----------------------------------------------------------------------------
(***************************************************************************)
(* Sequences of statements, and which of them are in control.              *)
(***************************************************************************)
IsSequence(f) == Len(f) \in Nat /\ f = [n \in 1 .. Len(f) |-> f[n]]

\* The deciding statements of s are those of the trace from a + 1 to b.
Embeds(f, s, trace, a, b) ==
  /\ f \in [a + 1 .. b -> 1 .. Len(s)]
  /\ \A i, j \in a + 1 .. b : i < j => f[i] < f[j]
  /\ \A i \in a + 1 .. b : s[f[i]].op = trace[i] /\ f[i] \in Deciding(s)
  /\ \A n \in Deciding(s) : \E i \in a + 1 .. b : n = f[i]

Covers(s, trace, a, b) ==
  /\ IsSequence(s) /\ a \in Nat /\ b \in Nat /\ a <= b
  /\ \E f : Embeds(f, s, trace, a, b)

\* Statements that move data or wait for an image, and sequences of them.
Others == {"allocate", "assign", "check", "check data", "transfer", "complete",
           "send", "sent", "recv", "sync images"}

Within(s, ops) == \A n \in 1 .. Len(s) : s[n].op \in ops

Tracks(s, trace, a, b) == Covers(s, trace, a, b) /\ Within(s, Control \cup Others)

Free(s) == IsSequence(s) /\ Within(s, Others)

\* Sequences in this sense are those of the standard module.
LEMMA InSeq ==
  ASSUME NEW f, IsSequence(f)
  PROVE  f \in Seq({f[n] : n \in 1 .. Len(f)})
<1> DEFINE S == {f[n] : n \in 1 .. Len(f)}
<1>1. f \in [1 .. Len(f) -> S] /\ Len(f) \in Nat
  <2>1. \A n \in 1 .. Len(f) : f[n] \in S
    OBVIOUS
  <2> HIDE DEF S
  <2> QED BY <2>1 DEF IsSequence
<1> HIDE DEF S
<1> QED BY <1>1

\* One sequence after another.
LEMMA Joined ==
  ASSUME NEW f, NEW g, IsSequence(f), IsSequence(g)
  PROVE  /\ IsSequence(f \o g) /\ Len(f \o g) = Len(f) + Len(g)
         /\ \A n \in 1 .. Len(f) : (f \o g)[n] = f[n]
         /\ \A n \in 1 .. Len(g) : (f \o g)[Len(f) + n] = g[n]
         /\ \A n \in 1 .. Len(f \o g) :
              \/ n \in 1 .. Len(f) /\ (f \o g)[n] = f[n]
              \/ n - Len(f) \in 1 .. Len(g) /\ (f \o g)[n] = g[n - Len(f)]
<1> DEFINE S == {f[n] : n \in 1 .. Len(f)} \cup {g[n] : n \in 1 .. Len(g)}
<1>1. f \in Seq(S) /\ g \in Seq(S)
  <2>1. f \in Seq({f[n] : n \in 1 .. Len(f)}) /\ g \in Seq({g[n] : n \in 1 .. Len(g)})
    BY InSeq
  <2> QED BY <2>1
<1> HIDE DEF S
<1>2. f \o g \in Seq(S) /\ Len(f \o g) = Len(f) + Len(g) /\ Len(f) \in Nat /\ Len(g) \in Nat
  BY <1>1
<1>3. IsSequence(f \o g)
  <2>1. PICK h : h = f \o g
    OBVIOUS
  <2>2. h \in Seq(S)
    BY <1>2, <2>1
  <2>3. IsSequence(h)
    BY <2>2 DEF IsSequence
  <2> QED BY <2>1, <2>3, Zenon
<1>4. /\ \A n \in 1 .. Len(f) : (f \o g)[n] = f[n]
      /\ \A n \in 1 .. Len(g) : (f \o g)[Len(f) + n] = g[n]
  BY <1>1
<1>5. ASSUME NEW n \in 1 .. Len(f \o g)
      PROVE  \/ n \in 1 .. Len(f) /\ (f \o g)[n] = f[n]
             \/ n - Len(f) \in 1 .. Len(g) /\ (f \o g)[n] = g[n - Len(f)]
  BY <1>1, <1>2
<1> QED BY <1>2, <1>3, <1>4, <1>5

\* A sequence without its first statement.
LEMMA Tailed ==
  ASSUME NEW f, IsSequence(f), f # <<>>
  PROVE  /\ Len(f) \in Nat \ {0} /\ Head(f) = f[1]
         /\ IsSequence(Tail(f)) /\ Len(Tail(f)) = Len(f) - 1
         /\ \A n \in 1 .. Len(f) - 1 : Tail(f)[n] = f[n + 1]
<1> DEFINE S == {f[n] : n \in 1 .. Len(f)}
<1>1. f \in Seq(S)
  BY InSeq
<1> HIDE DEF S
<1>2. /\ Len(f) \in Nat \ {0} /\ Head(f) = f[1]
      /\ Tail(f) \in Seq(S) /\ Len(Tail(f)) = Len(f) - 1
      /\ \A n \in 1 .. Len(f) - 1 : Tail(f)[n] = f[n + 1]
  BY <1>1
<1>3. IsSequence(Tail(f))
  <2>1. PICK h : h = Tail(f)
    OBVIOUS
  <2>2. h \in Seq(S)
    BY <1>2, <2>1
  <2>3. IsSequence(h)
    BY <2>2 DEF IsSequence
  <2> QED BY <2>1, <2>3, Zenon
<1> QED BY <1>2, <1>3

\* Nothing, and one statement.
LEMMA Short ==
  /\ IsSequence(<<>>) /\ Len(<<>>) = 0
  /\ \A o : IsSequence(<<o>>) /\ Len(<<o>>) = 1 /\ <<o>>[1] = o
BY DEF IsSequence

\* A sequence of two in which only these statements occur.
LEMMA WithinJoined ==
  ASSUME NEW s, NEW t, NEW ops, IsSequence(s), IsSequence(t), Within(s, ops), Within(t, ops)
  PROVE  Within(s \o t, ops)
<1> SUFFICES ASSUME NEW n \in 1 .. Len(s \o t) PROVE (s \o t)[n].op \in ops
  BY DEF Within
<1>1. CASE n \in 1 .. Len(s) /\ (s \o t)[n] = s[n]
  BY <1>1 DEF Within
<1>2. CASE n - Len(s) \in 1 .. Len(t) /\ (s \o t)[n] = t[n - Len(s)]
  BY <1>2 DEF Within
<1>3. \/ n \in 1 .. Len(s) /\ (s \o t)[n] = s[n]
      \/ n - Len(s) \in 1 .. Len(t) /\ (s \o t)[n] = t[n - Len(s)]
  BY Joined
<1> QED BY <1>1, <1>2, <1>3

\* Two sequences that only move data.
LEMMA FreeJoined ==
  ASSUME NEW s, NEW t, Free(s), Free(t)
  PROVE  Free(s \o t)
<1>1. IsSequence(s \o t)
  BY Joined DEF Free
<1>2. Within(s \o t, Others)
  BY WithinJoined DEF Free
<1> QED BY <1>1, <1>2 DEF Free

\* They do not decide.
LEMMA FreeDecides ==
  ASSUME NEW s, Free(s)
  PROVE  Deciding(s) = {} /\ Within(s, Control \cup Others)
BY DEF Free, Within, Deciding, Control, Others

\* They leave the trace where it is.
LEMMA TracksFree ==
  ASSUME NEW s, Free(s), NEW trace, NEW a \in Nat
  PROVE  Tracks(s, trace, a, a)
<1>1. Deciding(s) = {} /\ Within(s, Control \cup Others)
  BY FreeDecides
<1>2. Embeds([i \in a + 1 .. a |-> 0], s, trace, a, a)
  BY <1>1 DEF Embeds
<1> QED BY <1>1, <1>2 DEF Tracks, Covers, Free

\* Nothing but deciding statements.
LEMMA CoversAll ==
  ASSUME NEW s, IsSequence(s), NEW trace, NEW a \in Nat, NEW b, b = a + Len(s),
         \A n \in 1 .. Len(s) : s[n].op \in Control /\ s[n].op = trace[a + n]
  PROVE  Tracks(s, trace, a, b)
<1>1. Len(s) \in Nat /\ Deciding(s) = 1 .. Len(s)
  BY DEF IsSequence, Deciding
<1> DEFINE f == [i \in a + 1 .. b |-> i - a]
<1>2. \A i \in a + 1 .. b : f[i] = i - a /\ f[i] \in 1 .. Len(s) /\ i = a + f[i]
  BY <1>1
<1>3. f \in [a + 1 .. b -> 1 .. Len(s)]
  BY <1>1
<1> HIDE DEF f
<1>4. \A i, j \in a + 1 .. b : i < j => f[i] < f[j]
  BY <1>1, <1>2
<1>5. \A i \in a + 1 .. b : s[f[i]].op = trace[i] /\ f[i] \in Deciding(s)
  BY <1>1, <1>2
<1>6. \A n \in Deciding(s) : \E i \in a + 1 .. b : n = f[i]
  <2>1. ASSUME NEW n \in Deciding(s) PROVE \E i \in a + 1 .. b : n = f[i]
    <3>1. a + n \in a + 1 .. b
      BY <1>1
    <3>2. n = f[a + n]
      BY <1>1, <1>2, <3>1
    <3> QED BY <3>1, <3>2
  <2> QED BY <2>1
<1>7. Embeds(f, s, trace, a, b)
  BY <1>3, <1>4, <1>5, <1>6 DEF Embeds
<1>8. Within(s, Control \cup Others)
  BY DEF Within
<1> QED BY <1>1, <1>7, <1>8 DEF Tracks, Covers

\* One deciding statement.
LEMMA CoversOne ==
  ASSUME NEW o, NEW trace, NEW a \in Nat, o.op \in Control, trace[a + 1] = o.op
  PROVE  Tracks(<<o>>, trace, a, a + 1)
<1>1. PICK s : s = <<o>>
  OBVIOUS
<1>2. IsSequence(s) /\ Len(s) = 1 /\ s[1] = o
  BY <1>1, Short
<1>3. \A n \in 1 .. Len(s) : s[n].op \in Control /\ s[n].op = trace[a + n]
  BY <1>2
<1>4. Tracks(s, trace, a, a + 1)
  BY <1>2, <1>3, CoversAll
<1> QED BY <1>1, <1>4

\* Two pieces of the trace in a row.
LEMMA CoversJoined ==
  ASSUME NEW s, NEW t, NEW trace, NEW a, NEW b, NEW c,
         Covers(s, trace, a, b), Covers(t, trace, b, c)
  PROVE  Covers(s \o t, trace, a, c)
<1>1. PICK f : Embeds(f, s, trace, a, b)
  BY DEF Covers
<1>2. PICK g : Embeds(g, t, trace, b, c)
  BY DEF Covers
<1>3. IsSequence(s) /\ IsSequence(t) /\ a \in Nat /\ b \in Nat /\ c \in Nat /\ a <= b /\ b <= c
      /\ Len(s) \in Nat /\ Len(t) \in Nat
  BY DEF Covers, IsSequence
<1>4. PICK u : u = s \o t
  OBVIOUS
<1>5. /\ IsSequence(u) /\ Len(u) = Len(s) + Len(t)
      /\ \A n \in 1 .. Len(s) : u[n] = s[n]
      /\ \A n \in 1 .. Len(t) : u[Len(s) + n] = t[n]
      /\ \A n \in 1 .. Len(u) : n \in 1 .. Len(s) \/ n - Len(s) \in 1 .. Len(t)
  BY <1>3, <1>4, Joined
<1>6. /\ \A n \in 1 .. Len(s) : n \in Deciding(u) <=> n \in Deciding(s)
      /\ \A n \in 1 .. Len(t) : Len(s) + n \in Deciding(u) <=> n \in Deciding(t)
  BY <1>3, <1>5 DEF Deciding
<1> DEFINE h == [i \in a + 1 .. c |-> IF i <= b THEN f[i] ELSE Len(s) + g[i]]
<1>7. h \in [a + 1 .. c -> 1 .. Len(u)]
  BY <1>1, <1>2, <1>3, <1>5, SMTT(30) DEF Embeds
<1>8. ASSUME NEW i \in a + 1 .. c, NEW j \in a + 1 .. c, i < j PROVE h[i] < h[j]
  <2>1. CASE j <= b
    <3>1. i \in a + 1 .. b /\ j \in a + 1 .. b /\ h[i] = f[i] /\ h[j] = f[j]
      BY <1>3, <1>8, <2>1
    <3> QED BY <1>1, <1>8, <3>1 DEF Embeds
  <2>2. CASE i <= b /\ ~(j <= b)
    <3>1. i \in a + 1 .. b /\ j \in b + 1 .. c /\ h[i] = f[i] /\ h[j] = Len(s) + g[j]
      BY <1>3, <1>8, <2>2
    <3>2. f[i] \in 1 .. Len(s) /\ g[j] \in 1 .. Len(t)
      BY <1>1, <1>2, <3>1 DEF Embeds
    <3> HIDE DEF h
    <3> QED BY <1>3, <3>1, <3>2
  <2>3. CASE ~(i <= b)
    <3>1. i \in b + 1 .. c /\ j \in b + 1 .. c /\ h[i] = Len(s) + g[i] /\ h[j] = Len(s) + g[j]
      BY <1>3, <1>8, <2>3
    <3>2. g[i] \in 1 .. Len(t) /\ g[j] \in 1 .. Len(t) /\ g[i] < g[j]
      BY <1>2, <1>8, <3>1 DEF Embeds
    <3> HIDE DEF h
    <3> QED BY <1>3, <3>1, <3>2
  <2> QED BY <1>3, <2>1, <2>2, <2>3
<1>9. ASSUME NEW i \in a + 1 .. c PROVE u[h[i]].op = trace[i] /\ h[i] \in Deciding(u)
  <2>1. CASE i <= b
    <3>1. i \in a + 1 .. b /\ h[i] = f[i] /\ f[i] \in 1 .. Len(s)
      BY <1>1, <1>3, <2>1 DEF Embeds
    <3> QED BY <1>1, <1>5, <1>6, <3>1 DEF Embeds
  <2>2. CASE ~(i <= b)
    <3>1. i \in b + 1 .. c /\ h[i] = Len(s) + g[i] /\ g[i] \in 1 .. Len(t)
      BY <1>2, <1>3, <2>2 DEF Embeds
    <3> QED BY <1>2, <1>5, <1>6, <3>1 DEF Embeds
  <2> QED BY <2>1, <2>2
<1>10. ASSUME NEW n \in Deciding(u) PROVE \E i \in a + 1 .. c : n = h[i]
  <2>1. n \in 1 .. Len(u)
    BY DEF Deciding
  <2>2. CASE n \in 1 .. Len(s)
    <3>1. PICK i \in a + 1 .. b : n = f[i]
      BY <1>1, <1>6, <2>2 DEF Embeds
    <3>2. i \in a + 1 .. c /\ h[i] = f[i]
      BY <1>3
    <3> QED BY <3>1, <3>2
  <2>3. CASE n - Len(s) \in 1 .. Len(t)
    <3>1. n - Len(s) \in Deciding(t)
      <4>1. n = Len(s) + (n - Len(s))
        BY <1>3, <2>1
      <4> QED BY <1>6, <2>3, <4>1
    <3>2. PICK i \in b + 1 .. c : n - Len(s) = g[i]
      BY <1>2, <3>1 DEF Embeds
    <3>3. i \in a + 1 .. c /\ h[i] = Len(s) + g[i]
      BY <1>3
    <3>4. n = h[i]
      BY <1>3, <2>1, <3>2, <3>3
    <3> QED BY <3>3, <3>4
  <2> QED BY <1>5, <2>1, <2>2, <2>3
<1> HIDE DEF h
<1>11. Embeds(h, u, trace, a, c)
  BY <1>7, <1>8, <1>9, <1>10 DEF Embeds
<1> QED BY <1>3, <1>4, <1>5, <1>11 DEF Covers

\* Executing the first statement.
LEMMA CoversStep ==
  ASSUME NEW s, NEW trace, NEW a, NEW b, Covers(s, trace, a, b), s # <<>>
  PROVE  IF Head(s).op \in Control
         THEN a < b /\ Head(s).op = trace[a + 1] /\ Covers(Tail(s), trace, a + 1, b)
         ELSE Covers(Tail(s), trace, a, b)
<1>1. PICK f : Embeds(f, s, trace, a, b)
  BY DEF Covers
<1>2. IsSequence(s) /\ a \in Nat /\ b \in Nat /\ a <= b
  BY DEF Covers
<1>3. PICK u : u = Tail(s)
  OBVIOUS
<1>4. /\ Len(s) \in Nat \ {0} /\ Head(s) = s[1]
      /\ IsSequence(u) /\ Len(u) = Len(s) - 1
      /\ \A n \in 1 .. Len(s) - 1 : u[n] = s[n + 1]
  BY <1>2, <1>3, Tailed
<1>5. /\ \A n \in 1 .. Len(u) : n \in Deciding(u) <=> n + 1 \in Deciding(s)
      /\ 1 \in Deciding(s) <=> s[1].op \in Control
  BY <1>4 DEF Deciding
<1>6. /\ f \in [a + 1 .. b -> 1 .. Len(s)]
      /\ \A i, j \in a + 1 .. b : i < j => f[i] < f[j]
      /\ \A i \in a + 1 .. b : s[f[i]].op = trace[i] /\ f[i] \in Deciding(s)
      /\ \A n \in Deciding(s) : \E i \in a + 1 .. b : n = f[i]
  BY <1>1 DEF Embeds
\* What is left, if f is greater than 1 from d + 1 on and covers all but the first.
<1>7. ASSUME NEW d \in a .. b, \A i \in d + 1 .. b : f[i] > 1,
             \A n \in Deciding(s) : n > 1 => \E i \in d + 1 .. b : n = f[i]
      PROVE  Covers(u, trace, d, b)
  <2> DEFINE h == [i \in d + 1 .. b |-> f[i] - 1]
  <2>1. \A i \in d + 1 .. b : i \in a + 1 .. b /\ f[i] \in 2 .. Len(s) /\ h[i] = f[i] - 1
    BY <1>2, <1>4, <1>6, <1>7
  <2>2. h \in [d + 1 .. b -> 1 .. Len(u)]
    <3>1. \A i \in d + 1 .. b : f[i] - 1 \in 1 .. Len(u)
      BY <1>4, <2>1
    <3> QED BY <3>1
  <2> HIDE DEF h
  <2>3. ASSUME NEW i \in d + 1 .. b, NEW j \in d + 1 .. b, i < j PROVE h[i] < h[j]
    BY <1>4, <1>6, <2>1, <2>3, SMTT(30)
  <2>4. ASSUME NEW i \in d + 1 .. b PROVE u[h[i]].op = trace[i] /\ h[i] \in Deciding(u)
    <3>1. h[i] \in 1 .. Len(u) /\ h[i] + 1 = f[i]
      BY <1>4, <2>1, <2>2
    <3>2. u[h[i]] = s[f[i]]
      BY <1>4, <3>1
    <3> QED BY <1>5, <1>6, <2>1, <3>1, <3>2
  <2>5. ASSUME NEW n \in Deciding(u) PROVE \E i \in d + 1 .. b : n = h[i]
    <3>1. n \in 1 .. Len(u) /\ n + 1 \in Deciding(s)
      BY <1>5 DEF Deciding
    <3>2. PICK i \in d + 1 .. b : n + 1 = f[i]
      BY <1>4, <1>7, <3>1
    <3> QED BY <2>1, <3>1, <3>2
  <2>6. Embeds(h, u, trace, d, b)
    BY <2>2, <2>3, <2>4, <2>5 DEF Embeds
  <2>7. IsSequence(u) /\ d \in Nat /\ b \in Nat /\ d <= b
    BY <1>2, <1>4
  <2> QED BY <2>6, <2>7 DEF Covers
<1>8. CASE s[1].op \in Control
  <2>1. PICK i \in a + 1 .. b : f[i] = 1
    BY <1>5, <1>6, <1>8
  <2>2. i = a + 1 /\ a < b
    <3>1. a + 1 \in a + 1 .. b /\ f[a + 1] \in 1 .. Len(s)
      BY <1>2, <1>6
    <3>2. ~(a + 1 < i)
      <4>1. a + 1 < i => f[a + 1] < f[i]
        BY <1>6, <3>1
      <4> QED BY <2>1, <3>1, <4>1
    <3> QED BY <1>2, <3>1, <3>2
  <2>3. \A j \in a + 2 .. b : f[j] > 1
    <3>1. \A j \in a + 2 .. b : j \in a + 1 .. b /\ i < j
      BY <1>2, <2>2
    <3> QED BY <1>6, <2>1, <3>1
  <2>4. ASSUME NEW n \in Deciding(s), n > 1 PROVE \E j \in a + 2 .. b : n = f[j]
    <3>1. PICK j \in a + 1 .. b : n = f[j]
      BY <1>6
    <3>2. j # a + 1
      BY <2>1, <2>2, <2>4, <3>1
    <3>3. j \in a + 2 .. b
      BY <1>2, <3>2
    <3> QED BY <3>1, <3>3
  <2>5. Covers(u, trace, a + 1, b)
    <3>1. a + 1 \in a .. b /\ (a + 1) + 1 = a + 2
      BY <1>2, <2>2
    <3> QED BY <1>7, <2>3, <2>4, <3>1
  <2>6. s[1].op = trace[a + 1]
    BY <1>6, <2>1, <2>2
  <2> QED BY <1>3, <1>4, <1>8, <2>2, <2>5, <2>6
<1>9. CASE s[1].op \notin Control
  <2>1. \A i \in a + 1 .. b : f[i] > 1
    BY <1>4, <1>5, <1>6, <1>9
  <2>2. a \in a .. b
    BY <1>2
  <2>3. Covers(u, trace, a, b)
    BY <1>6, <1>7, <2>1, <2>2
  <2> QED BY <1>3, <1>4, <1>9, <2>3
<1> QED BY <1>8, <1>9

\* How many deciding statements there are.
LEMMA CoversCount ==
  ASSUME NEW s, NEW trace, NEW a, NEW b, Covers(s, trace, a, b)
  PROVE  Cardinality(Deciding(s)) = b - a
<1>1. PICK f : Embeds(f, s, trace, a, b)
  BY DEF Covers
<1>2. a \in Nat /\ b \in Nat /\ a <= b
  BY DEF Covers
<1>3. f \in [a + 1 .. b -> Deciding(s)]
  BY <1>1 DEF Embeds
<1>4. ASSUME NEW i \in a + 1 .. b, NEW j \in a + 1 .. b, f[i] = f[j] PROVE i = j
  <2>1. f[i] \in Nat /\ f[j] \in Nat
    BY <1>1 DEF Embeds
  <2>2. ~(i < j) /\ ~(j < i)
    BY <1>1, <1>4, <2>1 DEF Embeds
  <2> QED BY <1>2, <2>2
<1>5. f \in Bijection(a + 1 .. b, Deciding(s))
  BY <1>1, <1>3, <1>4 DEF Embeds, Bijection, Injection, IsInjective, Surjection
<1>6. IsFiniteSet(a + 1 .. b) /\ Cardinality(a + 1 .. b) = b - a
  <2>1. PICK d \in Int : d = a + 1
    BY <1>2
  <2>2. IsFiniteSet(d .. b) /\ Cardinality(d .. b) = IF d > b THEN 0 ELSE b - d + 1
    BY <1>2, <2>1, FS_Interval
  <2> QED BY <1>2, <2>1, <2>2
<1> QED BY <1>5, <1>6, FS_Bijection DEF ExistsBijection

\* No statement covers nothing.
LEMMA CoversNothing ==
  ASSUME NEW trace, NEW a, NEW b, Covers(<<>>, trace, a, b)
  PROVE  a = b
<1>1. Deciding(<<>>) = {}
  BY DEF Deciding
<1>2. Cardinality(Deciding(<<>>)) = 0
  BY <1>1, FS_EmptySet
<1> QED BY <1>2, CoversCount DEF Covers

\* The same for all statements.
LEMMA TracksJoined ==
  ASSUME NEW s, NEW t, NEW trace, NEW a, NEW b, NEW c,
         Tracks(s, trace, a, b), Tracks(t, trace, b, c)
  PROVE  Tracks(s \o t, trace, a, c)
BY CoversJoined, WithinJoined DEF Tracks, Covers

\* Two statements.
LEMMA Pairs ==
  /\ \A o, v : IsSequence(<<o, v>>) /\ Len(<<o, v>>) = 2 /\ <<o, v>>[1] = o /\ <<o, v>>[2] = v
BY DEF IsSequence

\* None, one and two statements that move data.
LEMMA FreeShort ==
  /\ Free(<<>>)
  /\ \A o : o.op \in Others => Free(<<o>>)
  /\ \A o, v : o.op \in Others /\ v.op \in Others => Free(<<o, v>>)
<1>1. Free(<<>>)
  BY Short DEF Free, Within
<1>2. ASSUME NEW o, o.op \in Others PROVE Free(<<o>>)
  BY <1>2, Short DEF Free, Within
<1>3. ASSUME NEW o, NEW v, o.op \in Others, v.op \in Others PROVE Free(<<o, v>>)
  BY <1>3, Pairs DEF Free, Within
<1> QED BY <1>1, <1>2, <1>3

\* Statements that are only there under a condition.
LEMMA FreeOnly ==
  ASSUME NEW condition, NEW s, Free(s)
  PROVE  Free(Only(condition, s))
BY FreeShort DEF Only

-----------------------------------------------------------------------------
(***************************************************************************)
(* The calls the drivers make.                                             *)
(***************************************************************************)
IsCall(c, jb) ==
  /\ c.kind \in {"pingpong", "halo"}
  /\ c.port = jb.port /\ c.check = jb.check
  /\ c.sync \in {"all", "pt2pt", "null"}
  /\ c.kind = "halo" => c.port = "fortran" /\ c.sync # "null"

CallsAre(s, jb) == IsSequence(s) /\ \A k \in 1 .. Len(s) : IsCall(s[k], jb)

\* Calls in a row.
LEMMA CallsJoined ==
  ASSUME NEW jb, NEW s, NEW t, CallsAre(s, jb), CallsAre(t, jb)
  PROVE  CallsAre(s \o t, jb)
<1>1. IsSequence(s \o t)
  BY Joined DEF CallsAre
<1>2. ASSUME NEW n \in 1 .. Len(s \o t) PROVE IsCall((s \o t)[n], jb)
  BY Joined DEF CallsAre
<1> QED BY <1>1, <1>2 DEF CallsAre

\* A product grows with its factors.
LEMMA Multiples ==
  ASSUME NEW a \in Nat, NEW b \in Nat, a <= b, NEW w \in Nat
  PROVE  a * w <= b * w
<1>1. PICK d \in Nat : b = a + d
  <2>1. b - a \in Nat /\ b = a + (b - a)
    OBVIOUS
  <2> QED BY <2>1
<1>2. b * w = a * w + d * w
  BY <1>1
<1>3. d * w \in Nat /\ a * w \in Nat
  OBVIOUS
<1> QED BY <1>2, <1>3

\* Products of natural numbers are natural numbers.
LEMMA Products ==
  ASSUME NEW m \in Nat, NEW n \in Nat
  PROVE  n * 2 * m \in Nat /\ n * 2 * m = n * (m * 2) /\ m * 2 \in Nat
<1>1. n * 2 * m = n * (m * 2) /\ m * 2 \in Nat
  OBVIOUS
<1>2. PICK w \in Nat : w = m * 2
  BY <1>1
<1>3. n * w \in Nat
  OBVIOUS
<1> QED BY <1>1, <1>2, <1>3

\* The loops of a driver over pairings, synchronisations and modes.
LEMMA Indices ==
  ASSUME NEW m \in Nat, NEW n \in Nat, NEW i \in 1 .. n * 2 * m
  PROVE  ((i - 1) \div (m * 2)) + 1 \in 1 .. n /\ (((i - 1) \div m) % 2) + 1 \in {1, 2}
<1>1. PICK w \in Nat : w = m * 2 /\ n * 2 * m = n * w /\ n * w \in Nat
  BY Products
<1>2. PICK k \in Nat : k = i - 1 /\ k < n * w
  BY <1>1
<1>3. w # 0
  BY <1>1, <1>2
<1>4. PICK d : d = k \div w
  OBVIOUS
<1>5. d \in Nat /\ k = d * w + (k % w) /\ k % w \in 0 .. w - 1
  <2>1. w \in Nat \ {0}
    BY <1>3
  <2> QED BY <1>4, <2>1, Division
<1>6. d * w <= k
  <2>1. d * w \in Nat
    BY <1>5
  <2> QED BY <1>5, <2>1
<1>7. d < n
  <2> SUFFICES ASSUME n <= d PROVE FALSE
    BY <1>5
  <2>1. n * w <= d * w
    BY <1>5, Multiples
  <2>2. d * w \in Nat
    BY <1>5
  <2> QED BY <1>1, <1>2, <1>6, <2>1, <2>2
<1>8. (((i - 1) \div m) % 2) + 1 \in {1, 2}
  <2>1. m \in Nat \ {0}
    BY <1>1, <1>3
  <2>2. PICK e : e = k \div m
    OBVIOUS
  <2>3. e \in Nat
    BY <2>1, <2>2, Division
  <2>4. e % 2 \in 0 .. 1
    BY <2>3
  <2> QED BY <1>2, <2>2, <2>4
<1> QED BY <1>1, <1>2, <1>4, <1>5, <1>7, <1>8

\* The calls of the halo driver.
LEMMA HaloCalls ==
  ASSUME NEW jb, jb.port = "fortran"
  PROVE  CallsAre(HaloDriver(jb), jb)
<1> DEFINE h == HaloDriver(jb)
<1>1. IsSequence(h) /\ Len(h) = 4
  BY DEF HaloDriver, IsSequence
<1>2. ASSUME NEW s \in {"all", "pt2pt"}, NEW m PROVE IsCall(HaloSwap(jb, s, m), jb)
  BY DEF HaloSwap, IsCall
<1>3. /\ h[1] = HaloSwap(jb, "all", "halopp") /\ h[2] = HaloSwap(jb, "pt2pt", "halopp")
      /\ h[3] = HaloSwap(jb, "all", "halogg") /\ h[4] = HaloSwap(jb, "pt2pt", "halogg")
  BY DEF HaloDriver
<1> HIDE DEF h
<1>4. \A k \in 1 .. 4 : k \in {1, 2, 3, 4}
  OBVIOUS
<1>5. ASSUME NEW k \in 1 .. 4 PROVE IsCall(h[k], jb)
  BY <1>2, <1>3, <1>4
<1>6. CallsAre(h, jb)
  BY <1>1, <1>5 DEF CallsAre
<1> QED BY <1>6 DEF h

\* A call of cafpingpong, and who is paired with whom in it.
IsPingPong(c, jb, pairings) ==
  /\ c.kind = "pingpong" /\ c.images = jb.images /\ c.port = jb.port
  /\ \E n \in 1 .. Len(pairings) : c.pairing = pairings[n]

\* The calls of the ping-pong driver.
LEMMA PingPongCalls ==
  ASSUME NEW jb, jb.modes \in Seq(STRING), NEW pairings, Len(pairings) \in Nat,
         NEW types, Len(types) = 2, {types[1], types[2]} \subseteq {"all", "pt2pt"}
  PROVE  /\ CallsAre(CallsOf(jb, pairings, types), jb)
         /\ \A k \in 1 .. Len(CallsOf(jb, pairings, types)) :
              IsPingPong(CallsOf(jb, pairings, types)[k], jb, pairings)
<1> DEFINE m == Len(jb.modes)
           n == Len(pairings)
           P(i) == ((i - 1) \div (m * 2)) + 1
           Q(i) == (((i - 1) \div m) % 2) + 1
           R(i) == ((i - 1) % m) + 1
           F(i) == PingPong(jb, pairings[P(i)], types[Q(i)], jb.modes[R(i)])
           f == CallsOf(jb, pairings, types)
<1>1. m \in Nat /\ n \in Nat
  OBVIOUS
<1>2. f = [i \in 1 .. n * 2 * m |-> F(i)]
  BY DEF CallsOf
<1>3. PICK l : l = n * 2 * m
  OBVIOUS
<1>4. l \in Nat
  <2> HIDE DEF m, n
  <2> QED BY <1>1, <1>3, Products
<1>5. IsSequence(f) /\ Len(f) = l
  <2> HIDE DEF F, f, m, n
  <2>1. f = [i \in 1 .. l |-> F(i)]
    BY <1>2, <1>3
  <2>2. Len(f) = l
    BY <1>4, <2>1
  <2>3. f = [i \in 1 .. Len(f) |-> f[i]]
    BY <2>1, <2>2
  <2> QED BY <1>4, <2>2, <2>3 DEF IsSequence
<1>6. ASSUME NEW a, NEW s \in {"all", "pt2pt"}, NEW o
      PROVE  /\ IsCall(PingPong(jb, a, s, o), jb)
             /\ PingPong(jb, a, s, o).kind = "pingpong"
             /\ PingPong(jb, a, s, o).images = jb.images
             /\ PingPong(jb, a, s, o).port = jb.port
             /\ PingPong(jb, a, s, o).pairing = a
  BY DEF PingPong, IsCall
<1>7. ASSUME NEW i \in 1 .. l PROVE IsCall(f[i], jb) /\ IsPingPong(f[i], jb, pairings)
  <2>1. P(i) \in 1 .. n /\ Q(i) \in {1, 2}
    <3> HIDE DEF m, n
    <3> QED BY <1>1, <1>3, Indices
  <2>2. f[i] = F(i)
    <3> HIDE DEF F, f, m, n
    <3> QED BY <1>2, <1>3
  <2> HIDE DEF f
  <2>3. PICK a, s, o : /\ a = pairings[P(i)] /\ s = types[Q(i)] /\ o = jb.modes[R(i)]
                       /\ f[i] = PingPong(jb, a, s, o)
    BY <2>2
  <2>4. s \in {"all", "pt2pt"}
    BY <2>1, <2>3
  <2>5. \E k \in 1 .. n : a = pairings[k]
    <3> HIDE DEF P, n
    <3> QED BY <2>1, <2>3
  <2> HIDE DEF P, Q, R, F
  <2>6. IsCall(f[i], jb)
    BY <1>6, <2>3, <2>4
  <2>7. f[i].kind = "pingpong" /\ f[i].images = jb.images /\ f[i].port = jb.port /\ f[i].pairing = a
    BY <1>6, <2>3, <2>4
  <2> QED BY <2>5, <2>6, <2>7 DEF IsPingPong
<1> HIDE DEF f, F, P, Q, R
<1>8. CallsAre(f, jb) /\ \A k \in 1 .. Len(f) : IsPingPong(f[k], jb, pairings)
  BY <1>5, <1>7 DEF CallsAre
<1> QED BY <1>8 DEF f

\* The pairings of a driver, on how many images.
LEMMA Pairings ==
  ASSUME NEW a, NEW b
  PROVE  LET s == <<"single">> \o Only(a, <<"multi">>) \o Only(b, <<"cross">>)
         IN  /\ Len(s) \in Nat
             /\ \A n \in 1 .. Len(s) :
                  s[n] = "single" \/ (a /\ s[n] = "multi") \/ (b /\ s[n] = "cross")
<1>1. PICK u, v, w : u = <<"single">> /\ v = Only(a, <<"multi">>) /\ w = Only(b, <<"cross">>)
  OBVIOUS
<1>2. /\ IsSequence(u) /\ IsSequence(v) /\ IsSequence(w)
      /\ \A n \in 1 .. Len(u) : u[n] = "single"
      /\ \A n \in 1 .. Len(v) : a /\ v[n] = "multi"
      /\ \A n \in 1 .. Len(w) : b /\ w[n] = "cross"
  BY <1>1, Short DEF Only
<1>3. PICK t : t = u \o v
  OBVIOUS
<1>4. IsSequence(t) /\ \A n \in 1 .. Len(t) : t[n] = "single" \/ (a /\ t[n] = "multi")
  BY <1>2, <1>3, Joined
<1>5. PICK s : s = t \o w
  OBVIOUS
<1>6. IsSequence(s) /\ \A n \in 1 .. Len(s) :
        s[n] = "single" \/ (a /\ s[n] = "multi") \/ (b /\ s[n] = "cross")
  BY <1>2, <1>4, <1>5, Joined
<1>7. Len(s) \in Nat
  BY <1>6 DEF IsSequence
<1> QED BY <1>1, <1>3, <1>5, <1>6, <1>7

\* Every call, and the pairings that are used on jb.images images.
LEMMA CallFacts ==
  ASSUME NEW jb \in Builds
  PROVE  /\ CallsAre(Calls[jb], jb)
         /\ \A k \in 1 .. Len(Calls[jb]) :
              LET c == Calls[jb][k]
              IN  c.kind # "halo" =>
                    /\ c.images = jb.images /\ c.port = jb.port
                    /\ \/ c.pairing = "single"
                       \/ c.pairing = "multi" /\ jb.images % 2 = 0 /\ jb.images > 2
                       \/ c.pairing = "cross" /\ jb.images % 4 = 0 /\ jb.port = "fortran"
<1> DEFINE a == jb.images > 2 /\ jb.images % 2 = 0
           b == jb.images % 4 = 0
           ps == <<"single">> \o Only(a, <<"multi">>) \o Only(b, <<"cross">>)
           pd == <<"single">> \o Only(a, <<"multi">>)
<1>1. jb.port \in {"fortran", "dash"} /\ jb.modes \in Seq(STRING)
  BY CafTransferAssumption
<1>2. Calls[jb] = Driver(jb)
  BY DEF Calls
<1>3. /\ Len(ps) \in Nat
      /\ \A n \in 1 .. Len(ps) :
           ps[n] = "single" \/ (a /\ ps[n] = "multi") \/ (b /\ ps[n] = "cross")
  <2> HIDE DEF a, b
  <2> QED BY Pairings
<1>4. /\ Len(pd) \in Nat
      /\ \A n \in 1 .. Len(pd) : pd[n] = "single" \/ (a /\ pd[n] = "multi")
  <2>1. PICK u, v : u = <<"single">> /\ v = Only(a, <<"multi">>)
    OBVIOUS
  <2>2. /\ IsSequence(u) /\ IsSequence(v)
        /\ \A n \in 1 .. Len(u) : u[n] = "single"
        /\ \A n \in 1 .. Len(v) : a /\ v[n] = "multi"
    BY <2>1, Short DEF Only
  <2>3. PICK t : t = u \o v
    OBVIOUS
  <2>4. IsSequence(t) /\ \A n \in 1 .. Len(t) : t[n] = "single" \/ (a /\ t[n] = "multi")
    BY <2>2, <2>3, Joined
  <2>5. Len(t) \in Nat
    BY <2>4 DEF IsSequence
  <2> QED BY <2>1, <2>3, <2>4, <2>5
<1>5. CASE jb.port = "fortran"
  <2>1. PICK u, v : u = FortranDriver(jb) /\ v = Only(jb.halo, HaloDriver(jb))
    OBVIOUS
  <2>2. u = CallsOf(jb, ps, <<"all", "pt2pt">>)
    BY <2>1 DEF FortranDriver
  <2>3. CallsAre(u, jb) /\ \A k \in 1 .. Len(u) : IsPingPong(u[k], jb, ps)
    <3> HIDE DEF ps
    <3>1. Len(<<"all", "pt2pt">>) = 2 /\ {<<"all", "pt2pt">>[1], <<"all", "pt2pt">>[2]} \subseteq {"all", "pt2pt"}
      OBVIOUS
    <3> QED BY <1>1, <1>3, <2>2, <3>1, PingPongCalls
  <2>4. CallsAre(v, jb) /\ \A k \in 1 .. Len(v) : v[k].kind = "halo"
    <3>1. CallsAre(HaloDriver(jb), jb) /\ \A k \in 1 .. Len(HaloDriver(jb)) : HaloDriver(jb)[k].kind = "halo"
      <4>1. \A k \in 1 .. 4 : HaloDriver(jb)[k].kind = "halo"
        BY DEF HaloDriver, HaloSwap
      <4>2. Len(HaloDriver(jb)) = 4
        BY DEF HaloDriver
      <4> QED BY <1>5, <4>1, <4>2, HaloCalls
    <3>2. CallsAre(<<>>, jb) /\ Len(<<>>) = 0
      BY Short DEF CallsAre
    <3> QED BY <2>1, <3>1, <3>2 DEF Only
  <2>5. PICK w : w = u \o v
    OBVIOUS
  <2>6. Calls[jb] = w
    BY <1>2, <1>5, <2>1, <2>5 DEF Driver
  <2>7. CallsAre(w, jb)
    BY <2>3, <2>4, <2>5, CallsJoined
  <2>8. ASSUME NEW k \in 1 .. Len(w), w[k].kind # "halo" PROVE IsPingPong(w[k], jb, ps)
    <3> HIDE DEF ps
    <3> QED BY <2>3, <2>4, <2>5, <2>8, Joined DEF CallsAre
  <2>9. ASSUME NEW c, IsPingPong(c, jb, ps)
        PROVE  /\ c.images = jb.images /\ c.port = jb.port
               /\ \/ c.pairing = "single"
                  \/ c.pairing = "multi" /\ jb.images % 2 = 0 /\ jb.images > 2
                  \/ c.pairing = "cross" /\ jb.images % 4 = 0 /\ jb.port = "fortran"
    <3> HIDE DEF ps
    <3> QED BY <1>3, <1>5, <2>9 DEF IsPingPong
  <2> HIDE DEF ps, a, b
  <2> QED BY <2>6, <2>7, <2>8, <2>9
<1>6. CASE jb.port = "dash"
  <2>1. PICK u : u = DashDriver(jb)
    OBVIOUS
  <2>2. u = CallsOf(jb, pd, <<"all", "all">>)
    BY <2>1 DEF DashDriver
  <2>3. CallsAre(u, jb) /\ \A k \in 1 .. Len(u) : IsPingPong(u[k], jb, pd)
    <3> HIDE DEF pd
    <3>1. Len(<<"all", "all">>) = 2 /\ {<<"all", "all">>[1], <<"all", "all">>[2]} \subseteq {"all", "pt2pt"}
      OBVIOUS
    <3> QED BY <1>1, <1>4, <2>2, <3>1, PingPongCalls
  <2>4. Calls[jb] = u
    BY <1>2, <1>6, <2>1 DEF Driver
  <2>5. ASSUME NEW c, IsPingPong(c, jb, pd)
        PROVE  /\ c.images = jb.images /\ c.port = jb.port
               /\ \/ c.pairing = "single"
                  \/ c.pairing = "multi" /\ jb.images % 2 = 0 /\ jb.images > 2
    <3> HIDE DEF pd
    <3> QED BY <1>4, <2>5 DEF IsPingPong
  <2> HIDE DEF pd, a, b
  <2> QED BY <2>3, <2>4, <2>5
<1> HIDE DEF ps, pd, a, b
<1> QED BY <1>1, <1>5, <1>6

-----------------------------------------------------------------------------
(***************************************************************************)
(* The statements of each part follow its trace.                           *)
(***************************************************************************)
\* How many deciding statements a synchronisation and a vote have.
OfSync(c) == IF c.sync = "all" THEN 1 ELSE 0
OfVote(c) == IF c.check THEN 5 ELSE 0

VotesAt(trace, a) ==
  /\ trace[a + 1] = "vote" /\ trace[a + 2] = "sync all" /\ trace[a + 3] = "tally"
  /\ trace[a + 4] = "sync all" /\ trace[a + 5] = "exit"

\* Sequences of five.
LEMMA FivePlaces ==
  /\ \A o1, o2, o3, o4, o5 :
       LET s == <<o1, o2, o3, o4, o5>>
       IN  /\ IsSequence(s) /\ Len(s) = 5
           /\ s[1] = o1 /\ s[2] = o2 /\ s[3] = o3 /\ s[4] = o4 /\ s[5] = o5
  /\ \A n \in 1 .. 5 : n \in {1, 2, 3, 4, 5}
BY DEF IsSequence

\* caf_do_sync is a sync all, or no deciding statement.
LEMMA DoSync ==
  ASSUME NEW s \in {"all", "pt2pt", "null"}, NEW active, NEW neighbours,
         NEW trace, NEW a \in Nat, s = "all" => trace[a + 1] = "sync all"
  PROVE  Tracks(CafDoSync(s, active, neighbours), trace, a, IF s = "all" THEN a + 1 ELSE a)
<1>1. CASE s = "all"
  <2>1. CafDoSync(s, active, neighbours) = <<SyncAll>>
    BY <1>1 DEF CafDoSync
  <2>2. SyncAll.op = "sync all" /\ "sync all" \in Control
    BY DEF SyncAll, Statement, Control
  <2>3. Tracks(<<SyncAll>>, trace, a, a + 1)
    BY <1>1, <2>2, CoversOne
  <2> QED BY <1>1, <2>1, <2>3
<1>2. CASE s = "pt2pt"
  <2>1. CafDoSync(s, active, neighbours) = Only(active, <<SyncImages(neighbours)>>)
    BY <1>2 DEF CafDoSync
  <2>2. Free(<<SyncImages(neighbours)>>)
    <3>1. SyncImages(neighbours).op \in Others
      BY DEF SyncImages, Others
    <3> QED BY <3>1, FreeShort
  <2>3. Free(Only(active, <<SyncImages(neighbours)>>))
    BY <2>2, FreeOnly
  <2> QED BY <1>2, <2>1, <2>3, TracksFree
<1>3. CASE s = "null"
  <2>1. CafDoSync(s, active, neighbours) = <<>>
    BY <1>3 DEF CafDoSync
  <2> QED BY <1>3, <2>1, FreeShort, TracksFree
<1> QED BY <1>1, <1>2, <1>3

\* gand has five deciding statements, if results are verified.
LEMMA VotesTrack ==
  ASSUME NEW c, NEW trace, NEW a \in Nat,
         c.check => VotesAt(trace, a)
  PROVE  Tracks(Gand(c.check), trace, a, a + OfVote(c))
<1>1. CASE c.check
  <2>1. PICK s : s = Gand(c.check)
    OBVIOUS
  <2>2. s = <<Statement("vote"), SyncAll, Statement("tally"), SyncAll, Statement("exit")>>
    BY <1>1, <2>1 DEF Gand, Only
  <2>3. /\ IsSequence(s) /\ Len(s) = 5 /\ s[1].op = "vote" /\ s[2].op = "sync all"
        /\ s[3].op = "tally" /\ s[4].op = "sync all" /\ s[5].op = "exit"
    <3>1. /\ Statement("vote").op = "vote" /\ SyncAll.op = "sync all"
          /\ Statement("tally").op = "tally" /\ Statement("exit").op = "exit"
      BY DEF Statement, SyncAll
    <3>2. PICK o1, o2, o4, o5 : /\ o1 = Statement("vote") /\ o2 = SyncAll
                                /\ o4 = Statement("tally") /\ o5 = Statement("exit")
      OBVIOUS
    <3>3. s = <<o1, o2, o4, o2, o5>>
      BY <2>2, <3>2
    <3> QED BY <3>1, <3>2, <3>3, FivePlaces
  <2>4. /\ trace[a + 1] = "vote" /\ trace[a + 2] = "sync all" /\ trace[a + 3] = "tally"
        /\ trace[a + 4] = "sync all" /\ trace[a + 5] = "exit"
    BY <1>1 DEF VotesAt
  <2>5. ASSUME NEW n \in 1 .. Len(s) PROVE s[n].op \in Control /\ s[n].op = trace[a + n]
    <3>1. n \in {1, 2, 3, 4, 5}
      BY <2>3, FivePlaces
    <3> QED BY <2>3, <2>4, <3>1 DEF Control
  <2>6. a + OfVote(c) = a + Len(s)
    BY <1>1, <2>3 DEF OfVote
  <2> QED BY <2>1, <2>3, <2>5, <2>6, CoversAll
<1>2. CASE ~c.check
  <2>1. Gand(c.check) = <<>> /\ a + OfVote(c) = a
    BY <1>2 DEF Gand, Only, OfVote
  <2> QED BY <2>1, FreeShort, TracksFree
<1> QED BY <1>1, <1>2

\* Statements that only move data.
LEMMA FreePieces ==
  /\ \A c, sh, value : Free(Set(c, sh, value))
  /\ \A c, sh, from, to : Free(Put(c, sh, from, to)) /\ Free(Get(c, sh, from, to))
  /\ \A sh, value, docheck : Free(FortranCafCheck(sh, value, docheck))
                             /\ Free(DashCafCheck(sh, value, docheck))
  /\ \A from : Free(Recv(from))
  /\ Free(<<Complete>>)
<1>1. ASSUME NEW c, NEW sh, NEW value PROVE Free(Set(c, sh, value))
  <2>1. Free(<<Filled(SizeOf(c, sh), sh, value)>>)
    <3>1. Filled(SizeOf(c, sh), sh, value).op \in Others
      BY DEF Filled, Assign, Others
    <3> QED BY <3>1, FreeShort
  <2>2. Set(c, sh, value) \in {<<>>, <<Filled(SizeOf(c, sh), sh, value)>>}
    BY DEF Set, CafSet, Only
  <2> QED BY <2>1, <2>2, FreeShort
<1>2. ASSUME NEW c, NEW sh, NEW from, NEW to
      PROVE Free(Put(c, sh, from, to)) /\ Free(Get(c, sh, from, to))
  <2>1. Free(<<Across(c, sh, from, to)>>) /\ Free(<<Across(c, sh, from, to), Complete>>)
    <3>1. Across(c, sh, from, to).op \in Others /\ Complete.op \in Others
      BY DEF Across, Transfer, Complete, Statement, Others
    <3> QED BY <3>1, FreeShort
  <2>2. Free(Send(to, Moved(c, sh)))
    <3>1. PICK o, v : /\ o = [op |-> "send", to |-> to, cells |-> Moved(c, sh)]
                      /\ v = [op |-> "sent", to |-> to]
      OBVIOUS
    <3>2. o.op \in Others /\ v.op \in Others
      BY <3>1 DEF Others
    <3>3. Send(to, Moved(c, sh)) = <<o, v>>
      BY <3>1 DEF Send
    <3> QED BY <3>2, <3>3, FreeShort
  <2> QED BY <2>1, <2>2 DEF Put, Get
<1>3. ASSUME NEW sh, NEW value, NEW docheck
      PROVE  Free(FortranCafCheck(sh, value, docheck)) /\ Free(DashCafCheck(sh, value, docheck))
  <2>1. \A w, k : Expect(w, k).op \in Others
    BY DEF Expect, Others
  <2>2. ExpectData.op \in Others
    BY DEF ExpectData, Statement, Others
  <2>3. FortranCafCheck(sh, value, docheck)
          \in {<<Expect([i \in Block(sh) \cup Gaps(sh) |-> IF i \in Block(sh) THEN value ELSE 0], FALSE)>>,
               <<ExpectData>>}
    BY DEF FortranCafCheck
  <2>4. DashCafCheck(sh, value, docheck)
          \in {<<Expect([i \in Block(sh) |-> value], FALSE)>>, <<ExpectData>>}
    BY DEF DashCafCheck
  <2> QED BY <2>1, <2>2, <2>3, <2>4, FreeShort
<1>4. ASSUME NEW from PROVE Free(Recv(from))
  <2>1. PICK o : o = [op |-> "recv", from |-> from]
    OBVIOUS
  <2>2. o.op \in Others
    BY <2>1 DEF Others
  <2>3. Recv(from) = <<o>>
    BY <2>1 DEF Recv
  <2> QED BY <2>2, <2>3, FreeShort
<1>5. Free(<<Complete>>)
  <2>1. Complete.op \in Others
    BY DEF Complete, Statement, Others
  <2> QED BY <2>1, FreeShort
<1> QED BY <1>1, <1>2, <1>3, <1>4, <1>5

\* Moving data after deciding.
LEMMA TracksThenFree ==
  ASSUME NEW s, NEW t, NEW trace, NEW a, NEW b, Tracks(s, trace, a, b), Free(t)
  PROVE  Tracks(s \o t, trace, a, b)
<1>1. b \in Nat
  BY DEF Tracks, Covers
<1>2. Tracks(t, trace, b, b)
  BY <1>1, TracksFree
<1> QED BY <1>2, TracksJoined

\* Moving data before deciding.
LEMMA FreeThenTracks ==
  ASSUME NEW s, NEW t, NEW trace, NEW a \in Nat, NEW b, Free(s), Tracks(t, trace, a, b)
  PROVE  Tracks(s \o t, trace, a, b)
<1>1. Tracks(s, trace, a, a)
  BY TracksFree
<1> QED BY <1>1, TracksJoined

\* Zero is neutral.
LEMMA PlusNothing == \A a \in Nat : \A v : v = 0 => a + v = a
OBVIOUS

\* A synchronisation of a ping-pong.
LEMMA SyncTracks ==
  ASSUME NEW c, NEW me, NEW trace, NEW a \in Nat, c.sync \in {"all", "pt2pt", "null"},
         c.sync = "all" => trace[a + 1] = "sync all"
  PROVE  Tracks(Synchronise(c, me), trace, a, a + OfSync(c))
<1>1. Tracks(Synchronise(c, me), trace, a, IF c.sync = "all" THEN a + 1 ELSE a)
  BY DoSync DEF Synchronise
<1>2. a + OfSync(c) = IF c.sync = "all" THEN a + 1 ELSE a
  <2>1. CASE c.sync = "all"
    BY <2>1 DEF OfSync
  <2>2. CASE c.sync # "all"
    <3>1. OfSync(c) = 0
      BY <2>2 DEF OfSync
    <3>2. a + OfSync(c) = a
      BY <3>1, PlusNothing, Zenon
    <3> QED BY <2>2, <3>2
  <2> QED BY <2>1, <2>2
<1> QED BY <1>1, <1>2

\* The halves of a ping-pong: its pieces that move data, and what is between them.
LEMMA FortranPutPieces ==
  ASSUME NEW c, NEW me, NEW sh, NEW rep
  PROVE  \E s : Free(s) /\ FortranPut(c, me, sh, rep) = s \o Synchronise(c, me)
<1> DEFINE i1 == Image1(c, me)
           i2 == Image2(c, me)
<1>1. Free(Set(c, sh, rep) \o Put(c, sh, i1, i2))
  BY FreePieces, FreeJoined
<1>2. Free(Only(me = i1, Set(c, sh, rep) \o Put(c, sh, i1, i2)))
  BY <1>1, FreeOnly
<1>3. Free(Only(me = i2 /\ me # i1 /\ c.mode = "mpisend", Recv(i1)))
  BY FreePieces, FreeOnly
<1>4. Free(Only(me = i1, Set(c, sh, rep) \o Put(c, sh, i1, i2))
           \o Only(me = i2 /\ me # i1 /\ c.mode = "mpisend", Recv(i1)))
  BY <1>2, <1>3, FreeJoined
<1> QED BY <1>4 DEF FortranPut

\* The second half of a put.
LEMMA FortranPutBackPieces ==
  ASSUME NEW c, NEW me, NEW sh, NEW rep
  PROVE  \E s, t : /\ Free(s) /\ Free(t)
                    /\ FortranPutBack(c, me, sh, rep)
                         = (((s \o Gand(c.check)) \o Synchronise(c, me)) \o t) \o Gand(c.check)
<1> DEFINE i1 == Image1(c, me)
           i2 == Image2(c, me)
<1>1. Free(FortranCafCheck(sh, rep, c.check) \o Set(c, sh, -rep) \o Put(c, sh, i2, i1))
  BY FreePieces, FreeJoined
<1>2. Free(Only(me = i2, FortranCafCheck(sh, rep, c.check) \o Set(c, sh, -rep)
                         \o Put(c, sh, i2, i1)))
  BY <1>1, FreeOnly
<1>3. Free(Only(me = i1 /\ me # i2 /\ c.mode = "mpisend", Recv(i2)))
  BY FreePieces, FreeOnly
<1>4. Free(Only(me = i2, FortranCafCheck(sh, rep, c.check) \o Set(c, sh, -rep)
                         \o Put(c, sh, i2, i1))
           \o Only(me = i1 /\ me # i2 /\ c.mode = "mpisend", Recv(i2)))
  BY <1>2, <1>3, FreeJoined
<1>5. Free(Only(me = i1, FortranCafCheck(sh, -rep, c.check)))
  BY FreePieces, FreeOnly
<1> QED BY <1>4, <1>5 DEF FortranPutBack

\* The first half of a get.
LEMMA FortranGetPieces ==
  ASSUME NEW c, NEW me, NEW sh, NEW rep
  PROVE  \E s : /\ Free(s)
                 /\ FortranGet(c, me, sh, rep) = (s \o Gand(c.check)) \o Synchronise(c, me)
<1> DEFINE i1 == Image1(c, me)
           i2 == Image2(c, me)
<1>1. Free(Get(c, sh, i1, i2) \o FortranCafCheck(sh, rep, c.check) \o Set(c, sh, -rep))
  BY FreePieces, FreeJoined
<1>2. Free(Only(me = i2, Get(c, sh, i1, i2) \o FortranCafCheck(sh, rep, c.check)
                         \o Set(c, sh, -rep)))
  BY <1>1, FreeOnly
<1> QED BY <1>2 DEF FortranGet

\* The second half of a get.
LEMMA FortranGetBackPieces ==
  ASSUME NEW c, NEW me, NEW sh, NEW rep
  PROVE  \E s : /\ Free(s)
                 /\ FortranGetBack(c, me, sh, rep) = (s \o Gand(c.check)) \o Synchronise(c, me)
<1> DEFINE i1 == Image1(c, me)
           i2 == Image2(c, me)
<1>1. Free(Get(c, sh, i2, i1) \o FortranCafCheck(sh, -rep, c.check) \o Set(c, sh, rep + 1))
  BY FreePieces, FreeJoined
<1>2. Free(Only(me = i1, Get(c, sh, i2, i1) \o FortranCafCheck(sh, -rep, c.check)
                         \o Set(c, sh, rep + 1)))
  BY <1>1, FreeOnly
<1> QED BY <1>2 DEF FortranGetBack

\* The same in the DASH port, where nothing is verified.
LEMMA DashPutPieces ==
  ASSUME NEW c, NEW me, NEW sh, NEW rep, ~c.check
  PROVE  \E s : Free(s) /\ DashPut(c, me, sh, rep) = s \o Synchronise(c, me)
<1> DEFINE i1 == Image1(c, me)
           i2 == Image2(c, me)
<1>0. AndLocally(c.check) = <<>> /\ Free(AndLocally(c.check))
  BY FreeShort DEF AndLocally, Only
<1>1. Free(Set(c, sh, rep) \o Put(c, sh, i1, i2))
  BY FreePieces, FreeJoined
<1>2. Free(Only(me = i1, Set(c, sh, rep) \o Put(c, sh, i1, i2)))
  BY <1>1, FreeOnly
<1>3. Free(Only(me = i2 /\ c.mode = "mpisend", Recv(i1)))
  BY FreePieces, FreeOnly
<1>4. Free(Only(me = i1, Set(c, sh, rep) \o Put(c, sh, i1, i2))
           \o Only(me = i2 /\ c.mode = "mpisend", Recv(i1)) \o <<Complete>>)
  BY <1>2, <1>3, FreeJoined, FreePieces
<1> QED BY <1>4 DEF DashPut

\* The second half of a put there.
LEMMA DashPutBackPieces ==
  ASSUME NEW c, NEW me, NEW sh, NEW rep, ~c.check
  PROVE  \E s, t : /\ Free(s) /\ Free(t)
                    /\ DashPutBack(c, me, sh, rep)
                         = ((s \o Synchronise(c, me)) \o t) \o AndLocally(c.check)
<1> DEFINE i1 == Image1(c, me)
           i2 == Image2(c, me)
<1>0. AndLocally(c.check) = <<>> /\ Free(AndLocally(c.check))
  BY FreeShort DEF AndLocally, Only
<1>1. Free(DashCafCheck(sh, rep, c.check) \o Set(c, sh, -rep) \o Put(c, sh, i2, i1))
  BY FreePieces, FreeJoined
<1>2. Free(Only(me = i2, DashCafCheck(sh, rep, c.check) \o Set(c, sh, -rep)
                         \o Put(c, sh, i2, i1)))
  BY <1>1, FreeOnly
<1>3. Free(Only(me = i1 /\ c.mode = "mpisend", Recv(i2)))
  BY FreePieces, FreeOnly
<1>4. Free(Only(me = i2, DashCafCheck(sh, rep, c.check) \o Set(c, sh, -rep)
                         \o Put(c, sh, i2, i1))
           \o Only(me = i1 /\ c.mode = "mpisend", Recv(i2))
           \o AndLocally(c.check) \o <<Complete>>)
  BY <1>0, <1>2, <1>3, FreeJoined, FreePieces
<1>5. Free(Only(me = i1, DashCafCheck(sh, -rep, c.check)))
  BY FreePieces, FreeOnly
<1> QED BY <1>4, <1>5 DEF DashPutBack

\* The first half of a get there.
LEMMA DashGetPieces ==
  ASSUME NEW c, NEW me, NEW sh, NEW rep, ~c.check
  PROVE  \E s : Free(s) /\ DashGet(c, me, sh, rep) = s \o Synchronise(c, me)
<1> DEFINE i1 == Image1(c, me)
           i2 == Image2(c, me)
<1>0. AndLocally(c.check) = <<>> /\ Free(AndLocally(c.check))
  BY FreeShort DEF AndLocally, Only
<1>1. Free(Get(c, sh, i1, i2) \o DashCafCheck(sh, rep, c.check) \o Set(c, sh, -rep))
  BY FreePieces, FreeJoined
<1>2. Free(Only(me = i2, Get(c, sh, i1, i2) \o DashCafCheck(sh, rep, c.check)
                         \o Set(c, sh, -rep)) \o AndLocally(c.check))
  BY <1>0, <1>1, FreeOnly, FreeJoined
<1> QED BY <1>2 DEF DashGet

\* The second half of a get there.
LEMMA DashGetBackPieces ==
  ASSUME NEW c, NEW me, NEW sh, NEW rep, ~c.check
  PROVE  \E s : Free(s) /\ DashGetBack(c, me, sh, rep) = s \o Synchronise(c, me)
<1> DEFINE i1 == Image1(c, me)
           i2 == Image2(c, me)
<1>0. AndLocally(c.check) = <<>> /\ Free(AndLocally(c.check))
  BY FreeShort DEF AndLocally, Only
<1>1. Free(Get(c, sh, i2, i1) \o DashCafCheck(sh, -rep, c.check) \o Set(c, sh, rep + 1))
  BY FreePieces, FreeJoined
<1>2. Free(Only(me = i1, Get(c, sh, i2, i1) \o DashCafCheck(sh, -rep, c.check)
                         \o Set(c, sh, rep + 1)) \o AndLocally(c.check))
  BY <1>0, <1>1, FreeOnly, FreeJoined
<1> QED BY <1>2 DEF DashGetBack

\* Sums of small numbers.
LEMMA Sums ==
  /\ 0 + 1 = 1 /\ 0 + 2 = 2 /\ 0 + 3 = 3 /\ 0 + 4 = 4 /\ 0 + 5 = 5
  /\ 1 + 1 = 2 /\ 1 + 2 = 3 /\ 1 + 3 = 4 /\ 1 + 4 = 5 /\ 1 + 5 = 6
  /\ 2 + 1 = 3 /\ 2 + 2 = 4 /\ 2 + 3 = 5 /\ 2 + 4 = 6 /\ 2 + 5 = 7
  /\ 5 + 1 = 6 /\ 5 + 2 = 7 /\ 5 + 3 = 8 /\ 5 + 4 = 9 /\ 5 + 5 = 10
  /\ 6 + 1 = 7 /\ 6 + 2 = 8 /\ 6 + 3 = 9 /\ 6 + 4 = 10 /\ 6 + 5 = 11
  /\ 7 + 1 = 8 /\ 7 + 2 = 9 /\ 7 + 3 = 10 /\ 7 + 4 = 11 /\ 7 + 5 = 12
OBVIOUS

\* The traces of a ping-pong, statement by statement.
LEMMA BodyTraces ==
  \A t :
    /\ t = <<"vote", "sync all", "tally", "sync all", "exit",
             "sync all", "vote", "sync all", "tally", "sync all", "exit",
             "sync all">> =>
         /\ Len(t) = 12 /\ t[6] = "sync all" /\ t[12] = "sync all"
         /\ t[1] = "vote" /\ t[2] = "sync all" /\ t[3] = "tally" /\ t[4] = "sync all" /\ t[5] = "exit"
         /\ t[7] = "vote" /\ t[8] = "sync all" /\ t[9] = "tally" /\ t[10] = "sync all" /\ t[11] = "exit"
    /\ t = <<"sync all", "vote", "sync all", "tally", "sync all", "exit",
             "sync all", "vote", "sync all", "tally", "sync all", "exit">> =>
         /\ Len(t) = 12 /\ t[1] = "sync all" /\ t[7] = "sync all"
         /\ t[2] = "vote" /\ t[3] = "sync all" /\ t[4] = "tally" /\ t[5] = "sync all" /\ t[6] = "exit"
         /\ t[8] = "vote" /\ t[9] = "sync all" /\ t[10] = "tally" /\ t[11] = "sync all" /\ t[12] = "exit"
    /\ t = <<"vote", "sync all", "tally", "sync all", "exit",
             "vote", "sync all", "tally", "sync all", "exit">> =>
         /\ Len(t) = 10
         /\ t[1] = "vote" /\ t[2] = "sync all" /\ t[3] = "tally" /\ t[4] = "sync all" /\ t[5] = "exit"
         /\ t[6] = "vote" /\ t[7] = "sync all" /\ t[8] = "tally" /\ t[9] = "sync all" /\ t[10] = "exit"
    /\ t = <<"sync all", "sync all">> =>
         /\ Len(t) = 2 /\ t[1] = "sync all" /\ t[2] = "sync all"
    /\ t = <<>> =>
         /\ Len(t) = 0
<1>1. ASSUME NEW t, t = <<"vote", "sync all", "tally", "sync all", "exit",
                "sync all", "vote", "sync all", "tally", "sync all", "exit",
                "sync all">>
      PROVE  /\ Len(t) = 12 /\ t[6] = "sync all" /\ t[12] = "sync all"
             /\ t[1] = "vote" /\ t[2] = "sync all" /\ t[3] = "tally" /\ t[4] = "sync all" /\ t[5] = "exit"
             /\ t[7] = "vote" /\ t[8] = "sync all" /\ t[9] = "tally" /\ t[10] = "sync all" /\ t[11] = "exit"
  BY <1>1
<1>2. ASSUME NEW t, t = <<"sync all", "vote", "sync all", "tally", "sync all", "exit",
                "sync all", "vote", "sync all", "tally", "sync all", "exit">>
      PROVE  /\ Len(t) = 12 /\ t[1] = "sync all" /\ t[7] = "sync all"
             /\ t[2] = "vote" /\ t[3] = "sync all" /\ t[4] = "tally" /\ t[5] = "sync all" /\ t[6] = "exit"
             /\ t[8] = "vote" /\ t[9] = "sync all" /\ t[10] = "tally" /\ t[11] = "sync all" /\ t[12] = "exit"
  BY <1>2
<1>3. ASSUME NEW t, t = <<"vote", "sync all", "tally", "sync all", "exit",
                "vote", "sync all", "tally", "sync all", "exit">>
      PROVE  /\ Len(t) = 10
             /\ t[1] = "vote" /\ t[2] = "sync all" /\ t[3] = "tally" /\ t[4] = "sync all" /\ t[5] = "exit"
             /\ t[6] = "vote" /\ t[7] = "sync all" /\ t[8] = "tally" /\ t[9] = "sync all" /\ t[10] = "exit"
  BY <1>3
<1>4. ASSUME NEW t, t = <<"sync all", "sync all">>
      PROVE  /\ Len(t) = 2 /\ t[1] = "sync all" /\ t[2] = "sync all"
  BY <1>4
<1>5. ASSUME NEW t, t = <<>>
      PROVE  /\ Len(t) = 0
  BY <1>5
<1> QED BY <1>1, <1>2, <1>3, <1>4, <1>5, ZenonT(60)

\* Synchronisations of v statements and votes of w.
BodyHas(c, t, v, w) ==
  /\ Len(t) = v + w + v + w
  /\ c.mode \notin GetModes =>
       /\ c.sync = "all" => t[1] = "sync all" /\ t[v + w + 1] = "sync all"
       /\ c.check => VotesAt(t, v) /\ VotesAt(t, v + w + v)
  /\ c.mode \in GetModes =>
       /\ c.sync = "all" => t[w + 1] = "sync all" /\ t[w + v + w + 1] = "sync all"
       /\ c.check => VotesAt(t, 0) /\ VotesAt(t, w + v)

\* Where the synchronisations and votes are in the body of a ping-pong.
LEMMA BodyPlaces ==
  ASSUME NEW c, c.kind # "halo",
         NEW t, NEW v \in Nat, NEW w \in Nat, t = BodyTrace(c), v = OfSync(c), w = OfVote(c)
  PROVE  BodyHas(c, t, v, w)
<1> USE DEF BodyHas
<1>1. CASE c.check /\ c.sync = "all" /\ c.mode \in GetModes
  <2>1. t = <<"vote", "sync all", "tally", "sync all", "exit", "sync all",
              "vote", "sync all", "tally", "sync all", "exit", "sync all">>
    BY <1>1 DEF BodyTrace
  <2>2. v = 1 /\ w = 5
    BY <1>1 DEF OfSync, OfVote
  <2>3. /\ Len(t) = 12 /\ t[6] = "sync all" /\ t[12] = "sync all"
        /\ t[1] = "vote" /\ t[2] = "sync all" /\ t[3] = "tally" /\ t[4] = "sync all" /\ t[5] = "exit"
        /\ t[7] = "vote" /\ t[8] = "sync all" /\ t[9] = "tally" /\ t[10] = "sync all" /\ t[11] = "exit"
    BY <2>1, BodyTraces
  <2>4. VotesAt(t, 0) /\ VotesAt(t, 6)
    BY <2>3, Sums, ZenonT(60) DEF VotesAt
  <2>5. v + w + v + w = 12 /\ w + 1 = 6 /\ w + v + w + 1 = 12 /\ w + v = 6
    BY <2>2
  <2> QED BY <1>1, <2>2, <2>3, <2>4, <2>5, Zenon
<1>2. CASE c.check /\ c.sync = "all" /\ c.mode \notin GetModes
  <2>1. t = <<"sync all", "vote", "sync all", "tally", "sync all", "exit",
              "sync all", "vote", "sync all", "tally", "sync all", "exit">>
    BY <1>2 DEF BodyTrace
  <2>2. v = 1 /\ w = 5
    BY <1>2 DEF OfSync, OfVote
  <2>3. /\ Len(t) = 12 /\ t[1] = "sync all" /\ t[7] = "sync all"
        /\ t[2] = "vote" /\ t[3] = "sync all" /\ t[4] = "tally" /\ t[5] = "sync all" /\ t[6] = "exit"
        /\ t[8] = "vote" /\ t[9] = "sync all" /\ t[10] = "tally" /\ t[11] = "sync all" /\ t[12] = "exit"
    BY <2>1, BodyTraces
  <2>4. VotesAt(t, 1) /\ VotesAt(t, 7)
    BY <2>3, Sums, ZenonT(60) DEF VotesAt
  <2>5. v + w + v + w = 12 /\ v + w + 1 = 7 /\ v + w + v = 7
    BY <2>2
  <2> QED BY <1>2, <2>2, <2>3, <2>4, <2>5, Zenon
<1>3. CASE c.check /\ c.sync # "all"
  <2>1. t = <<"vote", "sync all", "tally", "sync all", "exit",
              "vote", "sync all", "tally", "sync all", "exit">>
    BY <1>3 DEF BodyTrace
  <2>2. v = 0 /\ w = 5
    BY <1>3 DEF OfSync, OfVote
  <2>3. /\ Len(t) = 10
        /\ t[1] = "vote" /\ t[2] = "sync all" /\ t[3] = "tally" /\ t[4] = "sync all" /\ t[5] = "exit"
        /\ t[6] = "vote" /\ t[7] = "sync all" /\ t[8] = "tally" /\ t[9] = "sync all" /\ t[10] = "exit"
    BY <2>1, BodyTraces
  <2>4. VotesAt(t, 0) /\ VotesAt(t, 5)
    BY <2>3, Sums DEF VotesAt
  <2>5. v + w + v + w = 10 /\ w + v = 5 /\ v + w + v = 5
    BY <2>2
  <2> QED BY <1>3, <2>2, <2>3, <2>4, <2>5, Zenon
<1>4. CASE ~c.check /\ c.sync = "all"
  <2>1. t = <<"sync all", "sync all">>
    BY <1>4 DEF BodyTrace
  <2>2. v = 1 /\ w = 0
    BY <1>4 DEF OfSync, OfVote
  <2>3. Len(t) = 2 /\ t[1] = "sync all" /\ t[2] = "sync all"
    BY <2>1, BodyTraces
  <2>4. v + w + v + w = 2 /\ v + w + 1 = 2 /\ w + 1 = 1 /\ w + v + w + 1 = 2
    BY <2>2
  <2> QED BY <1>4, <2>2, <2>3, <2>4, Zenon
<1>5. CASE ~c.check /\ c.sync # "all"
  <2>1. t = <<>>
    BY <1>5 DEF BodyTrace
  <2>2. v = 0 /\ w = 0
    BY <1>5 DEF OfSync, OfVote
  <2>3. Len(t) = 0
    BY <2>1, BodyTraces
  <2>4. v + w + v + w = 0
    BY <2>2
  <2> QED BY <1>5, <2>2, <2>3, <2>4, Zenon
<1> QED BY <1>1, <1>2, <1>3, <1>4, <1>5

\* The body of a ping-pong follows its trace, on every image.
LEMMA PingPongBodyTracks ==
  ASSUME NEW c, NEW jb, IsCall(c, jb), c.kind # "halo", c.port = "fortran" \/ ~c.check,
         NEW me, NEW sh, NEW rep
  PROVE  Tracks(PingPongBody(c, me, sh, rep), BodyTrace(c), 0, Len(BodyTrace(c)))
<1>1. PICK v \in Nat, w \in Nat : v = OfSync(c) /\ w = OfVote(c)
  BY DEF OfSync, OfVote
<1>t. PICK t : t = BodyTrace(c)
  OBVIOUS
<1>b. BodyHas(c, t, v, w)
  BY <1>1, <1>t, BodyPlaces
<1>2. /\ Len(t) = v + w + v + w
      /\ c.mode \notin GetModes =>
           /\ c.sync = "all" => t[1] = "sync all" /\ t[v + w + 1] = "sync all"
           /\ c.check => VotesAt(t, v) /\ VotesAt(t, v + w + v)
      /\ c.mode \in GetModes =>
           /\ c.sync = "all" => t[w + 1] = "sync all" /\ t[w + v + w + 1] = "sync all"
           /\ c.check => VotesAt(t, 0) /\ VotesAt(t, w + v)
  BY <1>b DEF BodyHas
<1>0. Len(t) = v + w + v + w
  BY <1>2
<1>3. c.sync \in {"all", "pt2pt", "null"}
  BY DEF IsCall
\* Where each vote and each synchronisation begins.
<1>4. ASSUME NEW a \in Nat, c.check => VotesAt(t, a)
      PROVE  Tracks(Gand(c.check), t, a, a + w)
  BY <1>1, <1>4, VotesTrack
<1>5. ASSUME NEW a \in Nat, c.sync = "all" => t[a + 1] = "sync all"
      PROVE  Tracks(Synchronise(c, me), t, a, a + v)
  BY <1>1, <1>3, <1>5, SyncTracks
<1>6. CASE c.mode \notin GetModes /\ c.port # "dash"
  <2>1. PICK r : Free(r) /\ FortranPut(c, me, sh, rep) = r \o Synchronise(c, me)
    BY FortranPutPieces
  <2>2. PICK s, u : /\ Free(s) /\ Free(u)
                    /\ FortranPutBack(c, me, sh, rep)
                         = (((s \o Gand(c.check)) \o Synchronise(c, me)) \o u) \o Gand(c.check)
    BY FortranPutBackPieces
  <2>3. Tracks(Synchronise(c, me), t, 0, 0 + v)
    <3>1. c.sync = "all" => t[0 + 1] = "sync all"
      BY <1>2, <1>6, Sums
    <3> QED BY <1>5, <3>1
  <2>4. Tracks(FortranPut(c, me, sh, rep), t, 0, 0 + v)
    BY <2>1, <2>3, FreeThenTracks
  <2>5. Tracks(Gand(c.check), t, v, v + w)
    BY <1>2, <1>4, <1>6
  <2>6. Tracks(s \o Gand(c.check), t, v, v + w)
    BY <1>2, <2>2, <2>5, FreeThenTracks
  <2>7. Tracks(Synchronise(c, me), t, v + w, v + w + v)
    <3>1. v + w \in Nat
      BY <1>0
    <3> QED BY <1>2, <1>5, <1>6, <3>1
  <2>8. Tracks((s \o Gand(c.check)) \o Synchronise(c, me), t, v, v + w + v)
    BY <2>6, <2>7, TracksJoined
  <2>9. Tracks(((s \o Gand(c.check)) \o Synchronise(c, me)) \o u, t, v, v + w + v)
    BY <2>2, <2>8, TracksThenFree
  <2>10. Tracks(Gand(c.check), t, v + w + v, v + w + v + w)
    <3>1. v + w + v \in Nat /\ v + w + v = 2 * v + w
      BY <1>0
    <3> QED BY <1>2, <1>4, <1>6, <3>1
  <2>11. Tracks(FortranPutBack(c, me, sh, rep), t, v, v + w + v + w)
    BY <2>2, <2>9, <2>10, TracksJoined
  <2>12. 0 + v = v /\ v + w + v + w = Len(t)
    BY <1>0
  <2>13. Tracks(FortranPut(c, me, sh, rep) \o FortranPutBack(c, me, sh, rep), t, 0, Len(t))
    BY <2>4, <2>11, <2>12, TracksJoined
  <2> QED BY <1>t, <1>6, <2>13 DEF PingPongBody
<1>7. CASE c.mode \in GetModes /\ c.port # "dash"
  <2>1. PICK r : /\ Free(r)
                 /\ FortranGet(c, me, sh, rep) = (r \o Gand(c.check)) \o Synchronise(c, me)
    BY FortranGetPieces
  <2>2. PICK s : /\ Free(s)
                 /\ FortranGetBack(c, me, sh, rep) = (s \o Gand(c.check)) \o Synchronise(c, me)
    BY FortranGetBackPieces
  <2>3. Tracks(Gand(c.check), t, 0, 0 + w)
    BY <1>2, <1>4, <1>7
  <2>4. 0 + w = w
    BY <1>0
  <2>5. Tracks(r \o Gand(c.check), t, 0, w)
    BY <2>1, <2>3, <2>4, FreeThenTracks
  <2>6. Tracks(Synchronise(c, me), t, w, w + v)
    BY <1>2, <1>5, <1>7
  <2>7. Tracks(FortranGet(c, me, sh, rep), t, 0, w + v)
    BY <2>1, <2>5, <2>6, TracksJoined
  <2>8. Tracks(Gand(c.check), t, w + v, w + v + w)
    <3>1. w + v \in Nat /\ w + v = v + w
      BY <1>0
    <3> QED BY <1>2, <1>4, <1>7, <3>1
  <2>9. Tracks(s \o Gand(c.check), t, w + v, w + v + w)
    <3>1. w + v \in Nat
      BY <1>0
    <3> QED BY <2>2, <2>8, <3>1, FreeThenTracks
  <2>10. Tracks(Synchronise(c, me), t, w + v + w, w + v + w + v)
    <3>1. w + v + w \in Nat /\ (w + v + w) + 1 = 2 * w + v + 1
      BY <1>0
    <3> QED BY <1>2, <1>5, <1>7, <3>1
  <2>11. Tracks(FortranGetBack(c, me, sh, rep), t, w + v, w + v + w + v)
    BY <2>2, <2>9, <2>10, TracksJoined
  <2>12. w + v + w + v = Len(t)
    BY <1>0
  <2>13. Tracks(FortranGet(c, me, sh, rep) \o FortranGetBack(c, me, sh, rep), t, 0, Len(t))
    BY <2>7, <2>11, <2>12, TracksJoined
  <2> QED BY <1>t, <1>7, <2>13 DEF PingPongBody
\* On the DASH port nothing is verified.
<1>8. CASE c.mode \notin GetModes /\ c.port = "dash"
  <2>0. ~c.check /\ w = 0
    BY <1>1, <1>8 DEF OfVote
  <2>1. PICK r : Free(r) /\ DashPut(c, me, sh, rep) = r \o Synchronise(c, me)
    BY <2>0, DashPutPieces
  <2>2. PICK s, u : /\ Free(s) /\ Free(u)
                    /\ DashPutBack(c, me, sh, rep)
                         = ((s \o Synchronise(c, me)) \o u) \o AndLocally(c.check)
    BY <2>0, DashPutBackPieces
  <2>3. Tracks(Synchronise(c, me), t, 0, 0 + v)
    <3>1. c.sync = "all" => t[0 + 1] = "sync all"
      BY <1>2, <1>8, Sums
    <3> QED BY <1>5, <3>1
  <2>4. Tracks(DashPut(c, me, sh, rep), t, 0, 0 + v)
    BY <2>1, <2>3, FreeThenTracks
  <2>5. Tracks(Synchronise(c, me), t, v, v + v)
    <3>1. v + w + 1 = v + 1 /\ w + v + w + 1 = v + 1
      BY <2>0
    <3>2. c.sync = "all" => t[v + 1] = "sync all"
      BY <1>2, <1>8, <3>1
    <3> QED BY <1>5, <3>2
  <2>6. Tracks(s \o Synchronise(c, me), t, v, v + v)
    BY <1>2, <2>2, <2>5, FreeThenTracks
  <2>7. Tracks((s \o Synchronise(c, me)) \o u, t, v, v + v)
    BY <2>2, <2>6, TracksThenFree
  <2>8. Free(AndLocally(c.check))
    BY <2>0, FreeShort DEF AndLocally, Only
  <2>9. Tracks(DashPutBack(c, me, sh, rep), t, v, v + v)
    BY <2>2, <2>7, <2>8, TracksThenFree
  <2>10. 0 + v = v /\ v + v = Len(t)
    BY <1>0, <2>0
  <2>11. Tracks(DashPut(c, me, sh, rep) \o DashPutBack(c, me, sh, rep), t, 0, Len(t))
    BY <2>4, <2>9, <2>10, TracksJoined
  <2> QED BY <1>t, <1>8, <2>11 DEF PingPongBody
<1>9. CASE c.mode \in GetModes /\ c.port = "dash"
  <2>0. ~c.check /\ w = 0
    BY <1>1, <1>9 DEF OfVote
  <2>1. PICK r : Free(r) /\ DashGet(c, me, sh, rep) = r \o Synchronise(c, me)
    BY <2>0, DashGetPieces
  <2>2. PICK s : Free(s) /\ DashGetBack(c, me, sh, rep) = s \o Synchronise(c, me)
    BY <2>0, DashGetBackPieces
  <2>3. Tracks(Synchronise(c, me), t, 0, 0 + v)
    BY <1>2, <1>5, <1>9, <2>0
  <2>4. Tracks(DashGet(c, me, sh, rep), t, 0, 0 + v)
    BY <2>1, <2>3, FreeThenTracks
  <2>5. Tracks(Synchronise(c, me), t, v, v + v)
    <3>1. v + w + 1 = v + 1 /\ w + v + w + 1 = v + 1
      BY <2>0
    <3>2. c.sync = "all" => t[v + 1] = "sync all"
      BY <1>2, <1>9, <3>1
    <3> QED BY <1>5, <3>2
  <2>6. Tracks(DashGetBack(c, me, sh, rep), t, v, v + v)
    BY <2>2, <2>5, FreeThenTracks
  <2>7. 0 + v = v /\ v + v = Len(t)
    BY <1>0, <2>0
  <2>8. Tracks(DashGet(c, me, sh, rep) \o DashGetBack(c, me, sh, rep), t, 0, Len(t))
    BY <2>4, <2>6, <2>7, TracksJoined
  <2> QED BY <1>t, <1>9, <2>8 DEF PingPongBody
<1> QED BY <1>6, <1>7, <1>8, <1>9

-----------------------------------------------------------------------------
(***************************************************************************)
(* The other parts.                                                        *)
(***************************************************************************)
LEMMA SameSequence ==
  ASSUME NEW s, NEW t, IsSequence(s), IsSequence(t), Len(s) = Len(t),
         \A n \in 1 .. Len(s) : s[n] = t[n]
  PROVE  s = t
BY DEF IsSequence

\* Short sequences in a row.
LEMMA Juxtaposed ==
  /\ \A o, v : <<o>> \o <<v>> = <<o, v>>
  /\ \A o1, o2, o3, o4, o5 : (<<o1>> \o <<o2, o3>>) \o <<o4, o5>> = <<o1, o2, o3, o4, o5>>
<1>1. ASSUME NEW o, NEW v PROVE <<o>> \o <<v>> = <<o, v>>
  <2>1. PICK a, b, s, t : a = <<o>> /\ b = <<v>> /\ s = a \o b /\ t = <<o, v>>
    OBVIOUS
  <2>2. IsSequence(a) /\ Len(a) = 1 /\ a[1] = o /\ IsSequence(b) /\ Len(b) = 1 /\ b[1] = v
    BY <2>1, Short
  <2>3. IsSequence(t) /\ Len(t) = 2 /\ t[1] = o /\ t[2] = v
    BY <2>1, Pairs
  <2>4. /\ IsSequence(s) /\ Len(s) = 1 + 1
        /\ \A n \in 1 .. 1 : s[n] = a[n]
        /\ \A n \in 1 .. 1 : s[1 + n] = b[n]
    BY <2>1, <2>2, Joined
  <2>5. Len(s) = 2 /\ s[1] = o /\ s[2] = v
    <3>1. 1 + 1 = 2 /\ 1 \in 1 .. 1
      OBVIOUS
    <3> QED BY <2>2, <2>4, <3>1
  <2>6. \A n \in 1 .. 2 : n = 1 \/ n = 2
    OBVIOUS
  <2>7. s = t
    BY <2>3, <2>4, <2>5, <2>6, SameSequence
  <2> QED BY <2>1, <2>7
<1>2. ASSUME NEW o1, NEW o2, NEW o3, NEW o4, NEW o5
      PROVE  (<<o1>> \o <<o2, o3>>) \o <<o4, o5>> = <<o1, o2, o3, o4, o5>>
  <2>1. PICK a, b, c, s, u, t : /\ a = <<o1>> /\ b = <<o2, o3>> /\ c = <<o4, o5>>
                                /\ s = a \o b /\ u = s \o c /\ t = <<o1, o2, o3, o4, o5>>
    OBVIOUS
  <2>2. /\ IsSequence(a) /\ Len(a) = 1 /\ a[1] = o1
        /\ IsSequence(b) /\ Len(b) = 2 /\ b[1] = o2 /\ b[2] = o3
        /\ IsSequence(c) /\ Len(c) = 2 /\ c[1] = o4 /\ c[2] = o5
    BY <2>1, Short, Pairs
  <2>3. /\ IsSequence(t) /\ Len(t) = 5
        /\ t[1] = o1 /\ t[2] = o2 /\ t[3] = o3 /\ t[4] = o4 /\ t[5] = o5
    BY <2>1, FivePlaces
  <2>4. /\ IsSequence(s) /\ Len(s) = 1 + 2
        /\ \A n \in 1 .. 1 : s[n] = a[n]
        /\ \A n \in 1 .. 2 : s[1 + n] = b[n]
    BY <2>1, <2>2, Joined
  <2>5. Len(s) = 3 /\ s[1] = o1 /\ s[2] = o2 /\ s[3] = o3
    <3>1. 1 + 1 = 2 /\ 1 + 2 = 3 /\ 1 \in 1 .. 1 /\ 1 \in 1 .. 2 /\ 2 \in 1 .. 2
      OBVIOUS
    <3> QED BY <2>2, <2>4, <3>1
  <2>6. /\ IsSequence(u) /\ Len(u) = 3 + 2
        /\ \A n \in 1 .. 3 : u[n] = s[n]
        /\ \A n \in 1 .. 2 : u[3 + n] = c[n]
    BY <2>1, <2>2, <2>4, <2>5, Joined
  <2>7. Len(u) = 5 /\ u[1] = o1 /\ u[2] = o2 /\ u[3] = o3 /\ u[4] = o4 /\ u[5] = o5
    <3>1. /\ 3 + 1 = 4 /\ 3 + 2 = 5 /\ 1 \in 1 .. 2 /\ 2 \in 1 .. 2
          /\ 1 \in 1 .. 3 /\ 2 \in 1 .. 3 /\ 3 \in 1 .. 3
      OBVIOUS
    <3> QED BY <2>2, <2>5, <2>6, <3>1
  <2>8. \A n \in 1 .. 5 : u[n] = t[n]
    BY <2>3, <2>7, FivePlaces
  <2>9. u = t
    BY <2>3, <2>6, <2>7, <2>8, SameSequence
  <2> QED BY <2>1, <2>9
<1> QED BY <1>1, <1>2

\* Two statements of which one decides, or both.
LEMMA TracksTwo ==
  ASSUME NEW o, NEW v, NEW trace, NEW a \in Nat, NEW b, NEW d,
         \/ o.op \in Others /\ b = a
         \/ o.op \in Control /\ trace[a + 1] = o.op /\ b = a + 1,
         \/ v.op \in Others /\ d = b
         \/ v.op \in Control /\ trace[b + 1] = v.op /\ d = b + 1
  PROVE  Tracks(<<o, v>>, trace, a, d)
<1>1. Tracks(<<o>>, trace, a, b)
  BY CoversOne, FreeShort, TracksFree
<1>2. b \in Nat
  OBVIOUS
<1>3. Tracks(<<v>>, trace, b, d)
  BY <1>2, CoversOne, FreeShort, TracksFree
<1>4. Tracks(<<o>> \o <<v>>, trace, a, d)
  BY <1>1, <1>3, TracksJoined
<1> QED BY <1>4, Juxtaposed

\* The statements these parts have.
LEMMA Deciders ==
  /\ SyncAll.op = "sync all" /\ StartTimer.op = "start timer" /\ StopTimer.op = "stop timer"
  /\ \A s : Statement(s).op = s
  /\ \A size : [op |-> "allocate", size |-> size].op \in Others /\ Zero(size).op \in Others
  /\ \A values : Assign(values).op \in Others
  /\ \A size, sh, value : Filled(size, sh, value).op \in Others
  /\ {"reset checks", "sync all", "vote", "tally", "exit", "start timer",
      "stop timer", "learn"} = Control
BY DEF SyncAll, StartTimer, StopTimer, Statement, Zero, Assign, Filled, Others, Control

\* Allocating and deallocating synchronise all images.
LEMMA AllocateTracks ==
  ASSUME NEW trace, NEW a \in Nat, trace[a + 1] = "sync all", NEW size
  PROVE  Tracks(Allocate(size), trace, a, a + 1) /\ Tracks(Deallocate, trace, a, a + 1)
<1>1. PICK o, v, u : /\ o = [op |-> "allocate", size |-> size] /\ v = SyncAll
                     /\ u = [op |-> "allocate", size |-> 0]
  OBVIOUS
<1>2. o.op \in Others /\ v.op = "sync all" /\ v.op \in Control /\ u.op \in Others
  BY <1>1, Deciders
<1>3. Tracks(<<o, v>>, trace, a, a + 1) /\ Tracks(<<v, u>>, trace, a, a + 1)
  BY <1>2, TracksTwo
<1>4. Allocate(size) = <<o, v>> /\ Deallocate = <<v, u>>
  BY <1>1 DEF Allocate, Deallocate
<1> QED BY <1>3, <1>4

\* How statements in todo follow what is left of the trace of a part.
Closing == {"sync all", "stop timer", "share", "learn"}

Follows(s, c, part, a) ==
  /\ Covers(s, Trace(c, part), a, Len(Trace(c, part)))
  /\ Within(s, IF part = "close" THEN Closing ELSE Control \cup Others)
  /\ part = "close" =>
       \A n \in 1 .. Len(s) :
         s[n].op = "share" => Len(s) = n + 3 /\ \A k \in n + 1 .. n + 3 : s[k].op \in Control
  /\ part = "trial" =>
       /\ Len(s) >= 1 => s[Len(s)].op = "start timer"
       /\ Len(s) >= 2 => s[Len(s) - 1].op = "sync all"

\* The traces of a halo swap, statement by statement.
LEMMA HaloTraces ==
  \A t :
    /\ t = <<"sync all", "sync all", "vote", "sync all", "tally", "sync all", "exit">> =>
         /\ Len(t) = 7 /\ t[1] = "sync all" /\ t[2] = "sync all" /\ t[3] = "vote"
         /\ t[4] = "sync all" /\ t[5] = "tally" /\ t[6] = "sync all" /\ t[7] = "exit"
    /\ t = <<"vote", "sync all", "tally", "sync all", "exit">> =>
         /\ Len(t) = 5 /\ t[1] = "vote"
         /\ t[2] = "sync all" /\ t[3] = "tally" /\ t[4] = "sync all" /\ t[5] = "exit"
    /\ t = <<"sync all", "sync all">> =>
         Len(t) = 2 /\ t[1] = "sync all" /\ t[2] = "sync all"
<1>1. ASSUME NEW t, t = <<"sync all", "sync all", "vote", "sync all", "tally", "sync all", "exit">>
      PROVE  /\ Len(t) = 7 /\ t[1] = "sync all" /\ t[2] = "sync all" /\ t[3] = "vote"
             /\ t[4] = "sync all" /\ t[5] = "tally" /\ t[6] = "sync all" /\ t[7] = "exit"
  BY <1>1
<1>2. ASSUME NEW t, t = <<"vote", "sync all", "tally", "sync all", "exit">>
      PROVE  /\ Len(t) = 5 /\ t[1] = "vote"
             /\ t[2] = "sync all" /\ t[3] = "tally" /\ t[4] = "sync all" /\ t[5] = "exit"
  BY <1>2
<1>3. ASSUME NEW t, t = <<"sync all", "sync all">>
      PROVE  Len(t) = 2 /\ t[1] = "sync all" /\ t[2] = "sync all"
  BY <1>3
<1> QED BY <1>1, <1>2, <1>3

\* The body of a halo swap follows its trace, on every image.
LEMMA HaloBodyTracks ==
  ASSUME NEW c, NEW jb, IsCall(c, jb), c.kind = "halo", NEW me, NEW rep
  PROVE  Tracks(HaloBody(c, me, rep), BodyTrace(c), 0, Len(BodyTrace(c)))
<1>1. PICK t : t = BodyTrace(c)
  OBVIOUS
<1>2. c.sync \in {"all", "pt2pt"} /\ c.sync \in {"all", "pt2pt", "null"}
  BY DEF IsCall
<1>3. PICK r, e, sy : /\ r = Only(c.check, <<Assign([i \in {Boundary} |-> HaloVal(me) + rep])>>)
                         /\ e = Only(c.check, <<Expect([h \in 1 .. 6 |->
                                       HaloVal(HaloNeighbour(c.images, me, h)) + rep], TRUE)>>)
                         /\ sy = CafDoSync(c.sync, TRUE, HaloNeighbours(c.images, me))
  OBVIOUS
<1>4. Free(r)
  BY <1>3, FreeShort, FreeOnly, Deciders
<1>6. Free(e)
  <2>1. \A w, k : Expect(w, k).op \in Others
    BY DEF Expect, Others
  <2>2. Free(<<Expect([h \in 1 .. 6 |-> HaloVal(HaloNeighbour(c.images, me, h)) + rep], TRUE)>>)
    BY <2>1, FreeShort
  <2> QED BY <1>3, <2>2, FreeOnly
<1>7. HaloBody(c, me, rep)
        = (((r \o sy) \o <<IF c.mode = "halopp" THEN HaloPut(c.images, me) ELSE HaloGet(c.images, me)>>)
            \o Only(c.mode = "halogg", <<Complete>>))
          \o ((sy \o e) \o Gand(c.check))
  BY <1>3 DEF HaloBody, HaloExchange, HaloVerify
<1>8. PICK v \in Nat : v = OfSync(c)
  BY DEF OfSync
<1>9. PICK w \in Nat : w = OfVote(c)
  BY DEF OfVote
<1>10. /\ Len(t) = v + v + w
       /\ c.sync = "all" => t[0 + 1] = "sync all" /\ t[v + 1] = "sync all"
       /\ c.check => VotesAt(t, v + v)
  <2>1. CASE c.check /\ c.sync = "all"
    <3>1. t = <<"sync all", "sync all", "vote", "sync all", "tally", "sync all", "exit">>
      BY <1>1, <2>1 DEF BodyTrace
    <3>2. v = 1 /\ w = 5 /\ v + v = 2 /\ v + v + w = 7 /\ v + 1 = 2 /\ 0 + 1 = 1
      BY <1>8, <1>9, <2>1 DEF OfSync, OfVote
    <3>3. /\ Len(t) = 7 /\ t[1] = "sync all" /\ t[2] = "sync all" /\ t[3] = "vote"
          /\ t[4] = "sync all" /\ t[5] = "tally" /\ t[6] = "sync all" /\ t[7] = "exit"
      BY <3>1, HaloTraces
    <3>4. VotesAt(t, 2)
      BY <3>3, Sums DEF VotesAt
    <3> QED BY <3>2, <3>3, <3>4, Zenon
  <2>2. CASE c.check /\ c.sync # "all"
    <3>1. t = <<"vote", "sync all", "tally", "sync all", "exit">>
      BY <1>1, <2>2 DEF BodyTrace, Voting
    <3>2. v = 0 /\ w = 5 /\ v + v = 0 /\ v + v + w = 5
      BY <1>8, <1>9, <2>2 DEF OfSync, OfVote
    <3>3. /\ Len(t) = 5 /\ t[1] = "vote"
          /\ t[2] = "sync all" /\ t[3] = "tally" /\ t[4] = "sync all" /\ t[5] = "exit"
      BY <3>1, HaloTraces
    <3>4. VotesAt(t, 0)
      BY <3>3, Sums DEF VotesAt
    <3> QED BY <2>2, <3>2, <3>3, <3>4, Zenon
  <2>3. CASE ~c.check /\ c.sync = "all"
    <3>1. t = <<"sync all", "sync all">>
      BY <1>1, <2>3 DEF BodyTrace
    <3>2. v = 1 /\ w = 0 /\ v + v + w = 2 /\ v + 1 = 2 /\ 0 + 1 = 1
      BY <1>8, <1>9, <2>3 DEF OfSync, OfVote
    <3>3. Len(t) = 2 /\ t[1] = "sync all" /\ t[2] = "sync all"
      BY <3>1, HaloTraces
    <3> QED BY <2>3, <3>2, <3>3, Zenon
  <2>4. CASE ~c.check /\ c.sync # "all"
    <3>1. t = <<>>
      BY <1>1, <2>4 DEF BodyTrace
    <3>2. v = 0 /\ w = 0 /\ v + v + w = 0
      BY <1>8, <1>9, <2>4 DEF OfSync, OfVote
    <3>3. Len(t) = 0
      BY <3>1
    <3> QED BY <2>4, <3>2, <3>3, Zenon
  <2> QED BY <2>1, <2>2, <2>3, <2>4
<1>11. ASSUME NEW a \in Nat, c.sync = "all" => t[a + 1] = "sync all"
       PROVE  Tracks(sy, t, a, a + v)
  <2>1. Tracks(sy, t, a, IF c.sync = "all" THEN a + 1 ELSE a)
    BY <1>2, <1>3, <1>11, DoSync
  <2>2. CASE c.sync = "all"
    BY <1>8, <2>1, <2>2 DEF OfSync
  <2>3. CASE c.sync # "all"
    <3>1. v = 0 /\ a + 0 = a
      BY <1>8, <2>3 DEF OfSync
    <3> QED BY <2>1, <2>3, <3>1
  <2> QED BY <2>2, <2>3
<1>12. Tracks(sy, t, 0, 0 + v)
  BY <1>10, <1>11
<1>13. 0 + v = v /\ v + v \in Nat
  OBVIOUS
<1>14. Tracks(r \o sy, t, 0, v)
  BY <1>4, <1>12, <1>13, FreeThenTracks
<1>15. Tracks(((r \o sy) \o <<IF c.mode = "halopp" THEN HaloPut(c.images, me) ELSE HaloGet(c.images, me)>>)
              \o Only(c.mode = "halogg", <<Complete>>), t, 0, v)
  <2>1. HaloPut(c.images, me).op \in Others /\ HaloGet(c.images, me).op \in Others
    BY DEF HaloPut, HaloGet, Transfer, Others
  <2>2. Free(<<IF c.mode = "halopp" THEN HaloPut(c.images, me) ELSE HaloGet(c.images, me)>>)
    BY <2>1, FreeShort
  <2>3. Free(Only(c.mode = "halogg", <<Complete>>))
    BY FreePieces, FreeOnly
  <2> QED BY <1>14, <2>2, <2>3, TracksThenFree
<1>16. Tracks(sy, t, v, v + v)
  BY <1>10, <1>11
<1>17. Tracks(sy \o e, t, v, v + v)
  BY <1>6, <1>16, TracksThenFree
<1>18. Tracks(Gand(c.check), t, v + v, v + v + w)
  BY <1>9, <1>10, <1>13, VotesTrack
<1>19. Tracks((sy \o e) \o Gand(c.check), t, v, v + v + w)
  BY <1>17, <1>18, TracksJoined
<1>20. Tracks(HaloBody(c, me, rep), t, 0, v + v + w)
  BY <1>7, <1>15, <1>19, TracksJoined
<1> QED BY <1>1, <1>10, <1>20

\* The traces of the parts other than the body, statement by statement.
LEMMA ShortTraces ==
  \A t :
    /\ t = <<"sync all">> =>
         Len(t) = 1 /\ t[1] = "sync all"
    /\ t = <<"sync all", "sync all">> =>
         Len(t) = 2 /\ t[1] = "sync all" /\ t[2] = "sync all"
    /\ t = <<"sync all", "start timer">> =>
         Len(t) = 2 /\ t[1] = "sync all" /\ t[2] = "start timer"
    /\ t = <<"reset checks", "sync all">> =>
         Len(t) = 2 /\ t[1] = "reset checks" /\ t[2] = "sync all"
    /\ t = <<"reset checks", "sync all", "start timer">> =>
         Len(t) = 3 /\ t[1] = "reset checks" /\ t[2] = "sync all" /\ t[3] = "start timer"
<1>1. ASSUME NEW t, t = <<"sync all">>
      PROVE  Len(t) = 1 /\ t[1] = "sync all"
  BY <1>1
<1>2. ASSUME NEW t, t = <<"sync all", "sync all">>
      PROVE  Len(t) = 2 /\ t[1] = "sync all" /\ t[2] = "sync all"
  BY <1>2
<1>3. ASSUME NEW t, t = <<"sync all", "start timer">>
      PROVE  Len(t) = 2 /\ t[1] = "sync all" /\ t[2] = "start timer"
  BY <1>3
<1>4. ASSUME NEW t, t = <<"reset checks", "sync all">>
      PROVE  Len(t) = 2 /\ t[1] = "reset checks" /\ t[2] = "sync all"
  BY <1>4
<1>5. ASSUME NEW t, t = <<"reset checks", "sync all", "start timer">>
      PROVE  Len(t) = 3 /\ t[1] = "reset checks" /\ t[2] = "sync all" /\ t[3] = "start timer"
  BY <1>5
<1> QED BY <1>1, <1>2, <1>3, <1>4, <1>5

\* How a halo swap opens and begins a trial.
LEMMA HaloTrace ==
  ASSUME NEW c, c.kind = "halo"
  PROVE  /\ Len(Trace(c, "open")) = 1 /\ Trace(c, "open")[1] = "sync all"
         /\ Len(Trace(c, "trial")) = 3 /\ Trace(c, "trial")[1] = "reset checks"
         /\ Trace(c, "trial")[2] = "sync all" /\ Trace(c, "trial")[3] = "start timer"
         /\ ~Resizes(c)
<1>1. /\ Trace(c, "open") = <<"sync all">>
      /\ Trace(c, "trial") = <<"reset checks", "sync all", "start timer">>
      /\ ~Resizes(c)
  BY DEF Trace, Resizes
<1>2. PICK t, u : t = Trace(c, "open") /\ u = Trace(c, "trial")
  OBVIOUS
<1>3. t = <<"sync all">> /\ u = <<"reset checks", "sync all", "start timer">>
  BY <1>1, <1>2
<1>4. Len(t) = 1 /\ t[1] = "sync all"
  BY <1>3, ShortTraces
<1>5. Len(u) = 3 /\ u[1] = "reset checks" /\ u[2] = "sync all" /\ u[3] = "start timer"
  BY <1>3, ShortTraces
<1> QED BY <1>1, <1>2, <1>4, <1>5

\* How a ping-pong does.
LEMMA PingPongTrace ==
  ASSUME NEW c, c.kind # "halo"
  PROVE  /\ Len(Trace(c, "open")) = 2 /\ Trace(c, "open")[1] = "reset checks"
         /\ Trace(c, "open")[2] = "sync all"
         /\ Len(Trace(c, "trial")) = 2 /\ Trace(c, "trial")[1] = "sync all"
         /\ Trace(c, "trial")[2] = "start timer"
<1>1. /\ Trace(c, "open") = <<"reset checks", "sync all">>
      /\ Trace(c, "trial") = <<"sync all", "start timer">>
  BY DEF Trace
<1>2. PICK t, u : t = Trace(c, "open") /\ u = Trace(c, "trial")
  OBVIOUS
<1>3. t = <<"reset checks", "sync all">> /\ u = <<"sync all", "start timer">>
  BY <1>1, <1>2
<1>4. Len(t) = 2 /\ t[1] = "reset checks" /\ t[2] = "sync all"
  BY <1>3, ShortTraces
<1>5. Len(u) = 2 /\ u[1] = "sync all" /\ u[2] = "start timer"
  BY <1>3, ShortTraces
<1> QED BY <1>2, <1>4, <1>5

\* Which calls allocate anew for each pattern.
LEMMA ResizeTrace ==
  ASSUME NEW c
  PROVE  /\ Resizes(c) => /\ Len(Trace(c, "resize")) = 2
                          /\ Trace(c, "resize")[1] = "sync all"
                          /\ Trace(c, "resize")[2] = "sync all"
         /\ ~Resizes(c) => Len(Trace(c, "resize")) = 0
<1>1. CASE Resizes(c)
  <2>1. Trace(c, "resize") = <<"sync all", "sync all">>
    BY <1>1 DEF Trace
  <2>2. PICK t : t = Trace(c, "resize")
    OBVIOUS
  <2>3. t = <<"sync all", "sync all">>
    BY <2>1, <2>2
  <2>4. Len(t) = 2 /\ t[1] = "sync all" /\ t[2] = "sync all"
    BY <2>3, ShortTraces
  <2> QED BY <1>1, <2>2, <2>4
<1>2. CASE ~Resizes(c)
  <2>1. Trace(c, "resize") = <<>>
    BY <1>2 DEF Trace
  <2>2. Len(<<>>) = 0
    OBVIOUS
  <2> QED BY <1>2, <2>1, <2>2
<1> QED BY <1>1, <1>2

\* How a trial ends.
LEMMA CloseTrace ==
  ASSUME NEW c
  PROVE  /\ Len(Trace(c, "close")) = 5
         /\ Trace(c, "close")[1] = "sync all" /\ Trace(c, "close")[2] = "stop timer"
         /\ Trace(c, "close")[3] = "sync all" /\ Trace(c, "close")[4] = "learn"
         /\ Trace(c, "close")[5] = "sync all"
<1>1. Trace(c, "close") = <<"sync all", "stop timer", "sync all", "learn", "sync all">>
  BY DEF Trace
<1>2. ASSUME NEW t, t = <<"sync all", "stop timer", "sync all", "learn", "sync all">>
      PROVE  /\ Len(t) = 5 /\ t[1] = "sync all" /\ t[2] = "stop timer" /\ t[3] = "sync all"
             /\ t[4] = "learn" /\ t[5] = "sync all"
  BY <1>2
<1> QED BY <1>1, <1>2

\* How a call ends.
LEMMA EndTrace ==
  ASSUME NEW c
  PROVE  /\ Trace(c, "body") = BodyTrace(c)
         /\ Trace(c, "report") = <<>> /\ Len(Trace(c, "report")) = 0
         /\ Len(Trace(c, "end")) = 1 /\ Trace(c, "end")[1] = "sync all"
<1>1. Trace(c, "body") = BodyTrace(c) /\ Trace(c, "report") = <<>> /\ Trace(c, "end") = <<"sync all">>
  BY DEF Trace
<1>2. Len(<<>>) = 0
  OBVIOUS
<1>3. PICK t : t = Trace(c, "end")
  OBVIOUS
<1>4. t = <<"sync all">>
  BY <1>1, <1>3
<1>5. Len(t) = 1 /\ t[1] = "sync all"
  BY <1>4, ShortTraces
<1> QED BY <1>1, <1>2, <1>3, <1>5

\* For parts without timers, it is enough that they track the trace.
LEMMA TracksFollows ==
  ASSUME NEW s, NEW c, NEW part, NEW l, l = Len(Trace(c, part)), Tracks(s, Trace(c, part), 0, l),
         part \notin {"close", "trial"}
  PROVE  Follows(s, c, part, 0)
BY DEF Tracks, Follows

\* The statements a call opens with.
LEMMA OpenFollows ==
  ASSUME NEW c
  PROVE  Follows(IF c.kind = "halo" THEN HaloOpen ELSE PingPongOpen(c), c, "open", 0)
<1>1. PICK t : t = Trace(c, "open")
  OBVIOUS
<1>2. CASE c.kind = "halo"
  <2>1. Len(t) = 1 /\ t[1] = "sync all"
    BY <1>1, <1>2, HaloTrace
  <2>2. t[0 + 1] = "sync all" /\ 0 + 1 = 1
    BY <2>1, Sums
  <2>3. Tracks(HaloOpen, t, 0, 0 + 1)
    BY <2>2, AllocateTracks DEF HaloOpen
  <2> QED BY <1>1, <1>2, <2>1, <2>2, <2>3, TracksFollows
<1>3. CASE c.kind # "halo"
  <2>1. Len(t) = 2 /\ t[1] = "reset checks" /\ t[2] = "sync all"
    BY <1>1, <1>3, PingPongTrace
  <2>2. t[0 + 1] = "reset checks" /\ t[1 + 1] = "sync all" /\ 0 + 1 = 1 /\ 1 + 1 = 2
    BY <2>1, Sums
  <2>3. Tracks(Allocate(c.maxndata), t, 1, 1 + 1)
    BY <2>2, AllocateTracks
  <2>4. Tracks(<<Statement("reset checks")>>, t, 0, 0 + 1)
    BY <2>2, Deciders, CoversOne
  <2>5. Tracks(PingPongOpen(c), t, 0, 2)
    BY <2>2, <2>3, <2>4, TracksJoined DEF PingPongOpen
  <2> QED BY <1>1, <1>3, <2>1, <2>5, TracksFollows
<1> QED BY <1>2, <1>3

\* Those before the trials of a pattern.
LEMMA ResizeFollows ==
  ASSUME NEW c, NEW sh
  PROVE  Follows(Only(~(c.kind = "halo"), PingPongResize(c, sh)), c, "resize", 0)
<1>1. PICK t : t = Trace(c, "resize")
  OBVIOUS
<1>2. CASE Resizes(c)
  <2>1. Len(t) = 2 /\ t[1] = "sync all" /\ t[2] = "sync all"
    BY <1>1, <1>2, ResizeTrace
  <2>2. t[0 + 1] = "sync all" /\ t[1 + 1] = "sync all" /\ 0 + 1 = 1 /\ 1 + 1 = 2
    BY <2>1, Sums
  <2>3. Tracks(Deallocate, t, 0, 0 + 1) /\ Tracks(Allocate(Ndata(sh)), t, 1, 1 + 1)
    BY <2>2, AllocateTracks
  <2>4. Tracks(Deallocate \o Allocate(Ndata(sh)), t, 0, 2)
    BY <2>2, <2>3, TracksJoined
  <2>5. Only(~(c.kind = "halo"), PingPongResize(c, sh)) = Deallocate \o Allocate(Ndata(sh))
    BY <1>2 DEF Only, PingPongResize, Resizes
  <2> QED BY <1>1, <2>1, <2>4, <2>5, TracksFollows
<1>3. CASE ~Resizes(c)
  <2>1. Len(t) = 0
    BY <1>1, <1>3, ResizeTrace
  <2>2. Only(~(c.kind = "halo"), PingPongResize(c, sh)) = <<>>
    BY <1>3 DEF Only, PingPongResize, Resizes
  <2>3. Tracks(<<>>, t, 0, 0)
    BY FreeShort, TracksFree
  <2> QED BY <1>1, <2>1, <2>2, <2>3, TracksFollows
<1> QED BY <1>2, <1>3

\* How the statements before a trial end.
LEMMA TrialEnd ==
  ASSUME NEW s, IsSequence(s), NEW t, t = s \o <<SyncAll, StartTimer>>
  PROVE  Len(t) = Len(s) + 2 /\ t[Len(t)].op = "start timer" /\ t[Len(t) - 1].op = "sync all"
<1>1. PICK u : u = <<SyncAll, StartTimer>>
  OBVIOUS
<1>2. IsSequence(u) /\ Len(u) = 2 /\ u[1] = SyncAll /\ u[2] = StartTimer
  BY <1>1, Pairs
<1>3. Len(t) = Len(s) + 2 /\ \A n \in 1 .. 2 : t[Len(s) + n] = u[n]
  BY <1>1, <1>2, Joined
<1>4. t[Len(s) + 1] = SyncAll /\ t[Len(s) + 2] = StartTimer
  <2>1. 1 \in 1 .. 2 /\ 2 \in 1 .. 2
    OBVIOUS
  <2> QED BY <1>2, <1>3, <2>1
<1>5. PICK l \in Nat : l = Len(s)
  BY DEF IsSequence
<1>6. Len(t) = l + 2 /\ (l + 2) - 1 = l + 1
  BY <1>3, <1>5
<1> QED BY <1>3, <1>4, <1>5, <1>6, Deciders

\* Those before a trial.
LEMMA TrialFollows ==
  ASSUME NEW c, NEW p, NEW sh
  PROVE  Follows(IF c.kind = "halo" THEN HaloTrial(p) ELSE PingPongTrial(c, p, sh), c, "trial", 0)
<1>1. PICK t : t = Trace(c, "trial")
  OBVIOUS
\* Given the statements up to the sync all.
<1>2. ASSUME NEW s, NEW a \in Nat, Tracks(s, t, 0, a), t[a + 1] = "sync all",
             t[a + 1 + 1] = "start timer", Len(t) = a + 1 + 1,
             NEW u, u = s \o <<SyncAll, StartTimer>>
      PROVE  Follows(u, c, "trial", 0)
  <2>1. Tracks(<<SyncAll, StartTimer>>, t, a, a + 1 + 1)
    BY <1>2, TracksTwo, Deciders
  <2>2. Tracks(u, t, 0, Len(t))
    BY <1>2, <2>1, TracksJoined
  <2>3. IsSequence(s)
    BY <1>2 DEF Tracks, Covers
  <2>4. Len(u) = Len(s) + 2 /\ u[Len(u)].op = "start timer" /\ u[Len(u) - 1].op = "sync all"
    BY <1>2, <2>3, TrialEnd
  <2> QED BY <1>1, <2>2, <2>4 DEF Follows, Tracks
<1>3. CASE c.kind = "halo"
  <2>1. Len(t) = 3 /\ t[1] = "reset checks" /\ t[2] = "sync all" /\ t[3] = "start timer"
    BY <1>1, <1>3, HaloTrace
  <2>a. 0 + 1 = 1 /\ 1 + 1 = 2 /\ 1 + 1 + 1 = 3
    OBVIOUS
  <2>2. t[0 + 1] = "reset checks" /\ t[1 + 1] = "sync all" /\ t[1 + 1 + 1] = "start timer"
    BY <2>1, <2>a
  <2>3. PICK o1, o2, o3 : /\ o1 = Statement("reset checks") /\ o2 = Zero(7)
                          /\ o3 = Assign([i \in {Boundary} |-> HaloVal(p)])
    OBVIOUS
  <2>4. HaloTrial(p) = (<<o1>> \o <<o2, o3>>) \o <<SyncAll, StartTimer>>
    BY <2>3, Juxtaposed, ZenonT(60) DEF HaloTrial
  <2>5. Tracks(<<o1>>, t, 0, 0 + 1)
    BY <2>2, <2>3, Deciders, CoversOne
  <2>6. Free(<<o2, o3>>)
    BY <2>3, Deciders, FreeShort
  <2>7. Tracks(<<o1>> \o <<o2, o3>>, t, 0, 1)
    BY <2>a, <2>5, <2>6, TracksThenFree
  <2>8. Follows(HaloTrial(p), c, "trial", 0)
    BY <1>2, <2>1, <2>a, <2>2, <2>4, <2>7
  <2> QED BY <1>3, <2>8
<1>4. CASE c.kind # "halo"
  <2>1. Len(t) = 2 /\ t[1] = "sync all" /\ t[2] = "start timer"
    BY <1>1, <1>4, PingPongTrace
  <2>a. 0 + 1 = 1 /\ 0 + 1 + 1 = 2
    OBVIOUS
  <2>2. t[0 + 1] = "sync all" /\ t[0 + 1 + 1] = "start timer"
    BY <2>1, <2>a
  <2>3. PICK s : s = <<Zero(SizeOf(c, sh))>>
                     \o Only(p = Image1(c, p), <<Filled(SizeOf(c, sh), sh, 1)>>)
    OBVIOUS
  <2>4. Free(s)
    <3>1. Free(<<Zero(SizeOf(c, sh))>>) /\ Free(<<Filled(SizeOf(c, sh), sh, 1)>>)
      BY Deciders, FreeShort
    <3> QED BY <2>3, <3>1, FreeOnly, FreeJoined
  <2>5. Tracks(s, t, 0, 0)
    BY <2>4, TracksFree
  <2>6. PingPongTrial(c, p, sh) = s \o <<SyncAll, StartTimer>>
    BY <2>3 DEF PingPongTrial, FortranTrial, DashTrial
  <2>7. Follows(PingPongTrial(c, p, sh), c, "trial", 0)
    BY <1>2, <2>1, <2>a, <2>2, <2>5, <2>6
  <2> QED BY <1>4, <2>7
<1> QED BY <1>3, <1>4

\* Two sequences in a row, with their lengths.
IsJoin(h, f, g, l, m) ==
  /\ Len(h) = l + m
  /\ \A n \in 1 .. l : h[n] = f[n]
  /\ \A n \in 1 .. m : h[l + n] = g[n]
  /\ \A n \in 1 .. Len(h) :
       (n \in 1 .. l /\ h[n] = f[n]) \/ (n - l \in 1 .. m /\ h[n] = g[n - l])

\* A sequence that has been put together so.
LEMMA JoinedAt ==
  ASSUME NEW f, NEW g, NEW l \in Nat, NEW m \in Nat, IsSequence(f), IsSequence(g),
         Len(f) = l, Len(g) = m, NEW h, h = f \o g
  PROVE  IsJoin(h, f, g, l, m)
BY Joined DEF IsJoin

Chained(r, s, v, y, u) ==
  /\ IsSequence(r) /\ Len(r) = 2 /\ r[1].op = "sync all" /\ r[2].op = "stop timer"
  /\ IsSequence(s) /\ (Len(s) = 0 \/ Len(s) = 1) /\ \A n \in 1 .. Len(s) : s[n].op = "share"
  /\ IsSequence(v) /\ Len(v) = 3
  /\ v[1].op = "sync all" /\ v[2].op = "learn" /\ v[3].op = "sync all"
  /\ IsSequence(y) /\ y = s \o v /\ u = r \o y

\* What comes after the repetitions: the root shares its time in between.
LEMMA ClosingFollows ==
  ASSUME NEW c, NEW r, NEW s, NEW v, NEW y, NEW u, Chained(r, s, v, y, u)
  PROVE  Follows(u, c, "close", 0)
<1>4. IsSequence(r) /\ Len(r) = 2 /\ r[1].op = "sync all" /\ r[2].op = "stop timer"
  BY DEF Chained
<1>5. IsSequence(s) /\ (Len(s) = 0 \/ Len(s) = 1) /\ \A n \in 1 .. Len(s) : s[n].op = "share"
  BY DEF Chained
<1>6. IsSequence(v) /\ Len(v) = 3 /\ v[1].op = "sync all" /\ v[2].op = "learn" /\ v[3].op = "sync all"
  BY DEF Chained
<1>12. IsSequence(y) /\ y = s \o v
  BY DEF Chained
<1>13. u = r \o y
  BY DEF Chained
<1>1. PICK t : t = Trace(c, "close")
  OBVIOUS
<1>2. /\ Len(t) = 5 /\ t[1] = "sync all" /\ t[2] = "stop timer" /\ t[3] = "sync all"
      /\ t[4] = "learn" /\ t[5] = "sync all"
  BY <1>1, CloseTrace
<1>7. /\ \A n \in 1 .. 2 : n = 1 \/ n = 2
      /\ \A n \in 1 .. 3 : n = 1 \/ n = 2 \/ n = 3
  OBVIOUS
<1>8. /\ {"sync all", "stop timer", "learn"} \subseteq Control \cap Closing
      /\ "share" \in Closing /\ "share" \notin Control
  BY DEF Control, Closing
<1>9. Covers(r, t, 0, 2)
  <2>1. \A n \in 1 .. Len(r) : r[n].op \in Control /\ r[n].op = t[0 + n]
    BY <1>2, <1>4, <1>7, <1>8, Sums
  <2>2. 2 = 0 + Len(r)
    BY <1>4, Sums, Zenon
  <2> QED BY <1>4, <2>1, <2>2, CoversAll DEF Tracks
<1>10. Covers(s, t, 2, 2)
  <2>1. Deciding(s) = {}
    BY <1>5, <1>8 DEF Deciding
  <2>2. Embeds([i \in 3 .. 2 |-> 0], s, t, 2, 2)
    BY <2>1 DEF Embeds
  <2> QED BY <1>5, <2>2 DEF Covers
<1>11. Covers(v, t, 2, 5)
  <2>1. \A n \in 1 .. Len(v) : v[n].op \in Control /\ v[n].op = t[2 + n]
    BY <1>2, <1>6, <1>7, <1>8, Sums
  <2>2. 5 = 2 + Len(v)
    BY <1>6, Sums, Zenon
  <2> QED BY <1>6, <2>1, <2>2, CoversAll DEF Tracks
<1>14. Covers(u, t, 0, 5)
  BY <1>9, <1>10, <1>11, <1>12, <1>13, CoversJoined
<1>15. Within(r, Closing) /\ Within(s, Closing) /\ Within(v, Closing)
  BY <1>4, <1>5, <1>6, <1>7, <1>8 DEF Within
<1>17. Within(u, Closing)
  BY <1>4, <1>5, <1>6, <1>12, <1>13, <1>15, WithinJoined
<1>18. ASSUME NEW n \in 1 .. Len(u), u[n].op = "share"
       PROVE  Len(u) = n + 3 /\ \A k \in n + 1 .. n + 3 : u[k].op \in Control
  <2>0. PICK l \in Nat : l = Len(s) /\ (l = 0 \/ l = 1)
    BY <1>5
  <2>a. PICK m \in Nat : m = Len(y)
    BY <1>12 DEF IsSequence
  <2>1. /\ Len(u) = 2 + m
        /\ \A k \in 1 .. 2 : u[k] = r[k]
        /\ \A k \in 1 .. m : u[2 + k] = y[k]
        /\ (n \in 1 .. 2 /\ u[n] = r[n]) \/ (n - 2 \in 1 .. m /\ u[n] = y[n - 2])
    <3>1. IsJoin(u, r, y, 2, m)
      BY <1>4, <1>12, <1>13, <2>a, JoinedAt
    <3> QED BY <3>1 DEF IsJoin
  <2>2. /\ m = l + 3
        /\ \A k \in 1 .. l : y[k] = s[k]
        /\ \A k \in 1 .. 3 : y[l + k] = v[k]
        /\ \A k \in 1 .. m : \/ (k \in 1 .. l /\ y[k] = s[k])
                            \/ (k - l \in 1 .. 3 /\ y[k] = v[k - l])
    <3>1. IsJoin(y, s, v, l, 3)
      BY <1>5, <1>6, <1>12, <2>0, JoinedAt
    <3> QED BY <2>a, <3>1 DEF IsJoin
  <2>3. n - 2 \in 1 .. m /\ u[n] = y[n - 2]
    BY <1>4, <1>7, <1>18, <2>1
  <2>4. n - 2 \in 1 .. l
    <3>1. \A k \in 1 .. 3 : v[k].op # "share"
      BY <1>6, <1>7
    <3> QED BY <1>18, <2>2, <2>3, <3>1
  <2>b. n \in Int
    OBVIOUS
  <2>5. l = 1 /\ n = 3 /\ m = 4 /\ Len(u) = 6
    BY <2>0, <2>1, <2>2, <2>4, <2>b, SMTT(30)
  <2>c. IsSequence(y) /\ l = 1 /\ m = 4
    BY <1>12, <2>5
  <2>6. y[2] = v[1] /\ y[3] = v[2] /\ y[4] = v[3]
    <3>1. 1 + 1 = 2 /\ 1 + 2 = 3 /\ 1 + 3 = 4 /\ 1 \in 1 .. 3 /\ 2 \in 1 .. 3 /\ 3 \in 1 .. 3
      OBVIOUS
    <3> QED BY <2>2, <2>5, <3>1
  <2>7. u[4] = y[2] /\ u[5] = y[3] /\ u[6] = y[4]
    <3>1. 2 + 2 = 4 /\ 2 + 3 = 5 /\ 2 + 4 = 6 /\ 2 \in 1 .. 4 /\ 3 \in 1 .. 4 /\ 4 \in 1 .. 4
      OBVIOUS
    <3> QED BY <2>1, <2>5, <3>1
  <2>8. \A k \in 4 .. 6 : k = 4 \/ k = 5 \/ k = 6
    OBVIOUS
  <2>9. \A k \in 4 .. 6 : u[k].op \in Control
    BY <1>6, <1>8, <2>6, <2>7, <2>8
  <2>10. n + 1 = 4 /\ n + 3 = 6
    BY <2>5
  <2> QED BY <2>5, <2>9, <2>10
<1> QED BY <1>1, <1>2, <1>14, <1>17, <1>18 DEF Follows

\* The end of a trial, on the image that shares its time and on the others.
LEMMA DbcastFollows ==
  ASSUME NEW c, NEW root
  PROVE  Follows(<<SyncAll, StopTimer>> \o
                   (Only(root, <<Statement("share")>>) \o <<SyncAll, Statement("learn"), SyncAll>>),
                 c, "close", 0)
<1>1. PICK r : r = <<SyncAll, StopTimer>>
  OBVIOUS
<1>2. IsSequence(r) /\ Len(r) = 2 /\ r[1].op = "sync all" /\ r[2].op = "stop timer"
  BY <1>1, Pairs, Deciders
<1>3. PICK s : s = Only(root, <<Statement("share")>>)
  OBVIOUS
<1>4. IsSequence(s) /\ (Len(s) = 0 \/ Len(s) = 1) /\ \A n \in 1 .. Len(s) : s[n].op = "share"
  <2>1. CASE root
    <3>1. s = <<Statement("share")>>
      BY <1>3, <2>1 DEF Only
    <3>2. IsSequence(s) /\ Len(s) = 1 /\ s[1] = Statement("share")
      BY <3>1, Short
    <3>3. \A n \in 1 .. 1 : n = 1
      OBVIOUS
    <3> QED BY <3>2, <3>3, Deciders
  <2>2. CASE ~root
    <3>1. s = <<>>
      BY <1>3, <2>2 DEF Only
    <3>2. IsSequence(s) /\ Len(s) = 0
      BY <3>1, Short
    <3> QED BY <3>2
  <2> QED BY <2>1, <2>2
<1>5. PICK v : v = <<SyncAll, Statement("learn"), SyncAll>>
  OBVIOUS
<1>6. IsSequence(v) /\ Len(v) = 3 /\ v[1].op = "sync all" /\ v[2].op = "learn" /\ v[3].op = "sync all"
  <2>1. ASSUME NEW o1, NEW o2, NEW w, w = <<o1, o2, o1>>
        PROVE  IsSequence(w) /\ Len(w) = 3 /\ w[1] = o1 /\ w[2] = o2 /\ w[3] = o1
    BY <2>1 DEF IsSequence
  <2>2. IsSequence(v) /\ Len(v) = 3 /\ v[1] = SyncAll /\ v[2] = Statement("learn") /\ v[3] = SyncAll
    BY <1>5, <2>1
  <2> QED BY <2>2, Deciders
<1>7. PICK y : y = s \o v
  OBVIOUS
<1>8. IsSequence(y)
  BY <1>4, <1>6, <1>7, Joined
<1>9. PICK u : u = r \o y
  OBVIOUS
<1>10. Follows(u, c, "close", 0)
  <2>1. Chained(r, s, v, y, u)
    BY <1>2, <1>4, <1>6, <1>7, <1>8, <1>9 DEF Chained
  <2> QED BY <2>1, ClosingFollows
<1> QED BY <1>1, <1>3, <1>5, <1>7, <1>9, <1>10

\* Both kinds of call end a trial so.
LEMMA CloseFollows ==
  ASSUME NEW c, NEW p
  PROVE  Follows(IF c.kind = "halo" THEN HaloClose(p) ELSE PingPongClose(c, p), c, "close", 0)
<1>1. /\ HaloClose(p) = <<SyncAll, StopTimer>> \o
           (Only(p = 1, <<Statement("share")>>) \o <<SyncAll, Statement("learn"), SyncAll>>)
      /\ FortranClose(p) = <<SyncAll, StopTimer>> \o
           (Only(p = 1, <<Statement("share")>>) \o <<SyncAll, Statement("learn"), SyncAll>>)
      /\ DashClose(p) = <<SyncAll, StopTimer>> \o
           (Only(p = 0, <<Statement("share")>>) \o <<SyncAll, Statement("learn"), SyncAll>>)
  BY DEF HaloClose, FortranClose, DashClose, Dbcast
<1>2. Follows(HaloClose(p), c, "close", 0)
  BY <1>1, DbcastFollows
<1>3. Follows(FortranClose(p), c, "close", 0)
  BY <1>1, DbcastFollows
<1>4. Follows(DashClose(p), c, "close", 0)
  BY <1>1, DbcastFollows
<1> QED BY <1>2, <1>3, <1>4 DEF PingPongClose

Parts == {"open", "resize", "trial", "body", "close", "report", "end"}

\* The statements of every part follow its trace.
LEMMA PartFollows ==
  ASSUME NEW c, NEW jb, IsCall(c, jb), c.port = "fortran" \/ ~c.check,
         NEW part \in Parts, NEW p, NEW sh, NEW rep
  PROVE  Follows(Part(c, p, part, sh, rep), c, part, 0)
<1>1. CASE part = "open"
  BY <1>1, OpenFollows DEF Part
<1>2. CASE part = "resize"
  BY <1>2, ResizeFollows DEF Part
<1>3. CASE part = "trial"
  BY <1>3, TrialFollows DEF Part
<1>4. CASE part = "body"
  <2>1. Part(c, p, part, sh, rep) = IF c.kind = "halo" THEN HaloBody(c, p, rep)
                                    ELSE PingPongBody(c, p, sh, rep)
    BY <1>4 DEF Part
  <2>2. Trace(c, part) = BodyTrace(c)
    BY <1>4, EndTrace
  <2>3. Tracks(Part(c, p, part, sh, rep), BodyTrace(c), 0, Len(BodyTrace(c)))
    BY <2>1, HaloBodyTracks, PingPongBodyTracks
  <2> QED BY <1>4, <2>2, <2>3, TracksFollows
<1>5. CASE part = "close"
  BY <1>5, CloseFollows DEF Part
<1>6. CASE part = "report"
  <2>1. Part(c, p, part, sh, rep) = <<>> /\ Len(Trace(c, part)) = 0
    BY <1>6, EndTrace DEF Part
  <2>2. Tracks(<<>>, Trace(c, part), 0, 0)
    BY FreeShort, TracksFree
  <2> QED BY <1>6, <2>1, <2>2, TracksFollows
<1>7. CASE part = "end"
  <2>1. PICK t : t = Trace(c, "end")
    OBVIOUS
  <2>2. Len(t) = 1 /\ t[1] = "sync all"
    BY <2>1, EndTrace
  <2>3. t[0 + 1] = "sync all" /\ 0 + 1 = 1
    BY <2>2, Sums
  <2>4. Tracks(Deallocate, t, 0, 0 + 1)
    BY <2>3, AllocateTracks
  <2>5. Part(c, p, part, sh, rep) = Deallocate
    BY <1>7 DEF Part
  <2> QED BY <1>7, <2>1, <2>2, <2>3, <2>4, <2>5, TracksFollows
<1> QED BY <1>1, <1>2, <1>3, <1>4, <1>5, <1>6, <1>7 DEF Parts

-----------------------------------------------------------------------------
(***************************************************************************)
(* What follows a statement in a trace: after one of these a sync all.     *)
(***************************************************************************)
Single == {"reset checks", "vote", "tally", "stop timer", "learn"}

\* The statement at n1, with its successors at n2 and n3, in a trace of length l.
PacedAt(t, n1, n2, n3, l) ==
  \/ t[n1] = "sync all"
  \/ t[n1] \in Single /\ n2 <= l /\ t[n2] = "sync all"
  \/ t[n1] = "start timer" /\ n1 = l
  \/ /\ t[n1] = "exit"
     /\ \/ n1 = l
        \/ n2 <= l /\ t[n2] = "sync all"
        \/ n3 <= l /\ t[n2] = "vote" /\ t[n3] = "sync all"

Paced(t, m) == PacedAt(t, m + 1, m + 2, m + 3, Len(t))

\* How a part begins.
Begins(t) ==
  \/ Len(t) = 0
  \/ Len(t) >= 1 /\ t[1] = "sync all"
  \/ Len(t) >= 2 /\ t[1] \in Single /\ t[2] = "sync all"

\* A vote is followed by nothing, by a synchronisation or by another vote.
Continued(t, a, l) ==
  /\ Len(t) = l
  /\ \/ a + 5 = l
     \/ a + 6 <= l /\ t[a + 6] = "sync all"
     \/ a + 7 <= l /\ t[a + 6] = "vote" /\ t[a + 7] = "sync all"

VotesPace(t, a) ==
  /\ Paced(t, a) /\ Paced(t, a + 1) /\ Paced(t, a + 2) /\ Paced(t, a + 3) /\ Paced(t, a + 4)

\* Places counted from an earlier one.
LEMMA Onwards ==
  ASSUME NEW a \in Nat
  PROVE  /\ (a + 1) + 1 = a + 2 /\ (a + 1) + 2 = a + 3 /\ (a + 1) + 3 = a + 4
         /\ (a + 2) + 1 = a + 3 /\ (a + 2) + 2 = a + 4 /\ (a + 2) + 3 = a + 5
         /\ (a + 3) + 1 = a + 4 /\ (a + 3) + 2 = a + 5 /\ (a + 3) + 3 = a + 6
         /\ (a + 4) + 1 = a + 5 /\ (a + 4) + 2 = a + 6 /\ (a + 4) + 3 = a + 7
OBVIOUS

\* The five statements of a vote.
LEMMA VotesPaced ==
  ASSUME NEW t, NEW a \in Nat, NEW l \in Nat, a + 5 <= l, VotesAt(t, a), Continued(t, a, l)
  PROVE  VotesPace(t, a)
<1>1. /\ t[a + 1] = "vote" /\ t[a + 2] = "sync all" /\ t[a + 3] = "tally"
      /\ t[a + 4] = "sync all" /\ t[a + 5] = "exit"
  BY DEF VotesAt
<1>2. a + 2 <= l /\ a + 4 <= l
  OBVIOUS
<1>3. Len(t) = l
  BY DEF Continued
<1>4. PacedAt(t, a + 1, a + 2, a + 3, l)
  BY <1>1, <1>2 DEF PacedAt, Single
<1>5. PacedAt(t, a + 2, a + 3, a + 4, l) /\ PacedAt(t, a + 4, a + 5, a + 6, l)
  BY <1>1 DEF PacedAt
<1>6. PacedAt(t, a + 3, a + 4, a + 5, l)
  BY <1>1, <1>2 DEF PacedAt, Single
<1>7. PacedAt(t, a + 5, a + 6, a + 7, l)
  BY <1>1 DEF PacedAt, Continued
<1> QED BY <1>3, <1>4, <1>5, <1>6, <1>7, Onwards, Zenon DEF VotesPace, Paced

\* All statements of a trace.
Steady(t) ==
  /\ Len(t) \in Nat /\ Begins(t)
  /\ \A m \in 0 .. Len(t) - 1 : Paced(t, m)

\* A trace whose length is known.
LEMMA SteadyOf ==
  ASSUME NEW t, NEW l, Len(t) = l, l \in Nat, Begins(t), \A m \in 0 .. l - 1 : Paced(t, m)
  PROVE  Steady(t)
BY Zenon DEF Steady

\* A sync all may be followed by anything.
LEMMA SyncPaced ==
  ASSUME NEW t, NEW m, NEW n, m + 1 = n, t[n] = "sync all"
  PROVE  Paced(t, m)
BY DEF Paced, PacedAt

\* The numbers below a small one.
LEMMA UpTo ==
  /\ \A m \in 0 .. 12 - 1 : \/ m = 0 \/ m = 1 \/ m = 2 \/ m = 3 \/ m = 4 \/ m = 5 \/ m = 6
                            \/ m = 7 \/ m = 8 \/ m = 9 \/ m = 10 \/ m = 11
  /\ \A m \in 0 .. 10 - 1 : \/ m = 0 \/ m = 1 \/ m = 2 \/ m = 3 \/ m = 4 \/ m = 5 \/ m = 6
                            \/ m = 7 \/ m = 8 \/ m = 9
  /\ \A m \in 0 .. 7 - 1 : m = 0 \/ m = 1 \/ m = 2 \/ m = 3 \/ m = 4 \/ m = 5 \/ m = 6
  /\ \A m \in 0 .. 5 - 1 : m = 0 \/ m = 1 \/ m = 2 \/ m = 3 \/ m = 4
  /\ \A m \in 0 .. 3 - 1 : m = 0 \/ m = 1 \/ m = 2
  /\ \A m \in 0 .. 2 - 1 : m = 0 \/ m = 1
  /\ \A m \in 0 .. 1 - 1 : m = 0
  /\ \A m \in 0 .. 0 - 1 : FALSE
  /\ {0, 1, 2, 3, 5, 7, 10, 12} \subseteq Nat
OBVIOUS

\* The places of a vote that begins at a given place.
LEMMA VotesPaceAt ==
  /\ \A t : VotesPace(t, 0) => Paced(t, 0) /\ Paced(t, 1) /\ Paced(t, 2) /\ Paced(t, 3) /\ Paced(t, 4)
  /\ \A t : VotesPace(t, 1) => Paced(t, 1) /\ Paced(t, 2) /\ Paced(t, 3) /\ Paced(t, 4) /\ Paced(t, 5)
  /\ \A t : VotesPace(t, 2) => Paced(t, 2) /\ Paced(t, 3) /\ Paced(t, 4) /\ Paced(t, 5) /\ Paced(t, 6)
  /\ \A t : VotesPace(t, 5) => Paced(t, 5) /\ Paced(t, 6) /\ Paced(t, 7) /\ Paced(t, 8) /\ Paced(t, 9)
  /\ \A t : VotesPace(t, 6) => Paced(t, 6) /\ Paced(t, 7) /\ Paced(t, 8) /\ Paced(t, 9) /\ Paced(t, 10)
  /\ \A t : VotesPace(t, 7) => Paced(t, 7) /\ Paced(t, 8) /\ Paced(t, 9) /\ Paced(t, 10) /\ Paced(t, 11)
<1>1. /\ 5 + 1 = 6 /\ 5 + 2 = 7 /\ 5 + 3 = 8 /\ 5 + 4 = 9
      /\ 6 + 1 = 7 /\ 6 + 2 = 8 /\ 6 + 3 = 9 /\ 6 + 4 = 10
      /\ 7 + 1 = 8 /\ 7 + 2 = 9 /\ 7 + 3 = 10 /\ 7 + 4 = 11
  OBVIOUS
<1> QED BY <1>1, Sums, Zenon DEF VotesPace

\* The traces of a body.
LEMMA BodySteady ==
  ASSUME NEW c, c.kind # "halo" \/ c.sync \in {"all", "pt2pt"}
  PROVE  Steady(BodyTrace(c))
<1>1. ASSUME NEW t,
             t = <<"vote", "sync all", "tally", "sync all", "exit", "sync all",
                   "vote", "sync all", "tally", "sync all", "exit", "sync all">>
      PROVE  Steady(t)
  <2>1. /\ Len(t) = 12 /\ t[6] = "sync all" /\ t[12] = "sync all"
        /\ t[1] = "vote" /\ t[2] = "sync all" /\ t[3] = "tally" /\ t[4] = "sync all" /\ t[5] = "exit"
        /\ t[7] = "vote" /\ t[8] = "sync all" /\ t[9] = "tally" /\ t[10] = "sync all" /\ t[11] = "exit"
    BY <1>1, BodyTraces
  <2>2. 6 + 5 = 11 /\ 6 + 6 = 12 /\ 12 <= 12 /\ 11 <= 12 /\ 0 + 6 = 6 /\ 6 <= 12 /\ 5 <= 12
        /\ 5 + 1 = 6 /\ 11 + 1 = 12 /\ 12 >= 2
    OBVIOUS
  <2>3. VotesAt(t, 0) /\ VotesAt(t, 6)
    BY <2>1, Sums DEF VotesAt
  <2>4. Continued(t, 0, 12) /\ Continued(t, 6, 12)
    BY <2>1, <2>2, Zenon DEF Continued
  <2>5. VotesPace(t, 0) /\ VotesPace(t, 6)
    <3>1. 0 \in Nat /\ 6 \in Nat /\ 12 \in Nat /\ 0 + 5 <= 12 /\ 6 + 5 <= 12
      OBVIOUS
    <3> QED BY <2>3, <2>4, <3>1, VotesPaced, Zenon
  <2>6. Paced(t, 5) /\ Paced(t, 11)
    BY <2>1, <2>2, SyncPaced, Zenon
  <2>7. \A m \in 0 .. 12 - 1 : Paced(t, m)
    BY <2>5, <2>6, VotesPaceAt, UpTo, Zenon
  <2>8. Begins(t)
    BY <2>1, <2>2 DEF Begins, Single
  <2> QED BY <2>1, <2>7, <2>8, UpTo, SteadyOf
<1>2. ASSUME NEW t,
             t = <<"sync all", "vote", "sync all", "tally", "sync all", "exit",
                   "sync all", "vote", "sync all", "tally", "sync all", "exit">>
      PROVE  Steady(t)
  <2>1. /\ Len(t) = 12 /\ t[1] = "sync all" /\ t[7] = "sync all"
        /\ t[2] = "vote" /\ t[3] = "sync all" /\ t[4] = "tally" /\ t[5] = "sync all" /\ t[6] = "exit"
        /\ t[8] = "vote" /\ t[9] = "sync all" /\ t[10] = "tally" /\ t[11] = "sync all" /\ t[12] = "exit"
    BY <1>2, BodyTraces
  <2>2. 1 + 6 = 7 /\ 7 + 5 = 12 /\ 7 <= 12 /\ 0 + 1 = 1 /\ 6 + 1 = 7 /\ 12 >= 1
    OBVIOUS
  <2>3. VotesAt(t, 1) /\ VotesAt(t, 7)
    BY <2>1, Sums DEF VotesAt
  <2>4. Continued(t, 1, 12) /\ Continued(t, 7, 12)
    BY <2>1, <2>2, Zenon DEF Continued
  <2>5. VotesPace(t, 1) /\ VotesPace(t, 7)
    <3>1. 1 \in Nat /\ 7 \in Nat /\ 12 \in Nat /\ 1 + 5 <= 12 /\ 7 + 5 <= 12
      OBVIOUS
    <3> QED BY <2>3, <2>4, <3>1, VotesPaced, Zenon
  <2>6. Paced(t, 0) /\ Paced(t, 6)
    BY <2>1, <2>2, SyncPaced, Zenon
  <2>7. \A m \in 0 .. 12 - 1 : Paced(t, m)
    BY <2>5, <2>6, VotesPaceAt, UpTo, Zenon
  <2>8. Begins(t)
    BY <2>1, <2>2 DEF Begins
  <2> QED BY <2>1, <2>7, <2>8, UpTo, SteadyOf
<1>3. ASSUME NEW t,
             t = <<"vote", "sync all", "tally", "sync all", "exit",
                   "vote", "sync all", "tally", "sync all", "exit">>
      PROVE  Steady(t)
  <2>1. /\ Len(t) = 10
        /\ t[1] = "vote" /\ t[2] = "sync all" /\ t[3] = "tally" /\ t[4] = "sync all" /\ t[5] = "exit"
        /\ t[6] = "vote" /\ t[7] = "sync all" /\ t[8] = "tally" /\ t[9] = "sync all" /\ t[10] = "exit"
    BY <1>3, BodyTraces
  <2>2. 0 + 6 = 6 /\ 0 + 7 = 7 /\ 5 + 5 = 10 /\ 7 <= 10 /\ 10 >= 2
    OBVIOUS
  <2>3. VotesAt(t, 0) /\ VotesAt(t, 5)
    BY <2>1, Sums DEF VotesAt
  <2>4. Continued(t, 0, 10) /\ Continued(t, 5, 10)
    BY <2>1, <2>2, Zenon DEF Continued
  <2>5. VotesPace(t, 0) /\ VotesPace(t, 5)
    <3>1. 0 \in Nat /\ 5 \in Nat /\ 10 \in Nat /\ 0 + 5 <= 10 /\ 5 + 5 <= 10
      OBVIOUS
    <3> QED BY <2>3, <2>4, <3>1, VotesPaced, Zenon
  <2>7. \A m \in 0 .. 10 - 1 : Paced(t, m)
    BY <2>5, VotesPaceAt, UpTo, Zenon
  <2>8. Begins(t)
    BY <2>1, <2>2 DEF Begins, Single
  <2> QED BY <2>1, <2>7, <2>8, UpTo, SteadyOf
<1>4. ASSUME NEW t,
             t = <<"sync all", "sync all", "vote", "sync all", "tally", "sync all", "exit">>
      PROVE  Steady(t)
  <2>1. /\ Len(t) = 7 /\ t[1] = "sync all" /\ t[2] = "sync all" /\ t[3] = "vote"
        /\ t[4] = "sync all" /\ t[5] = "tally" /\ t[6] = "sync all" /\ t[7] = "exit"
    BY <1>4, HaloTraces
  <2>2. 0 + 1 = 1 /\ 1 + 1 = 2 /\ 2 + 5 = 7 /\ 7 >= 1
    OBVIOUS
  <2>3. VotesAt(t, 2)
    BY <2>1, Sums DEF VotesAt
  <2>4. Continued(t, 2, 7)
    BY <2>1, <2>2, Zenon DEF Continued
  <2>5. VotesPace(t, 2)
    <3>1. 2 \in Nat /\ 7 \in Nat /\ 2 + 5 <= 7
      OBVIOUS
    <3> QED BY <2>3, <2>4, <3>1, VotesPaced, Zenon
  <2>6. Paced(t, 0) /\ Paced(t, 1)
    BY <2>1, <2>2, SyncPaced, Zenon
  <2>7. \A m \in 0 .. 7 - 1 : Paced(t, m)
    BY <2>5, <2>6, VotesPaceAt, UpTo, Zenon
  <2>8. Begins(t)
    BY <2>1, <2>2 DEF Begins
  <2> QED BY <2>1, <2>7, <2>8, UpTo, SteadyOf
<1>5. ASSUME NEW t, t = <<"vote", "sync all", "tally", "sync all", "exit">>
      PROVE  Steady(t)
  <2>1. /\ Len(t) = 5 /\ t[1] = "vote"
        /\ t[2] = "sync all" /\ t[3] = "tally" /\ t[4] = "sync all" /\ t[5] = "exit"
    BY <1>5, HaloTraces
  <2>2. 0 + 5 = 5 /\ 5 >= 2
    OBVIOUS
  <2>3. VotesAt(t, 0)
    BY <2>1, Sums DEF VotesAt
  <2>4. Continued(t, 0, 5)
    BY <2>1, <2>2, Zenon DEF Continued
  <2>5. VotesPace(t, 0)
    <3>1. 0 \in Nat /\ 5 \in Nat /\ 0 + 5 <= 5
      OBVIOUS
    <3> QED BY <2>3, <2>4, <3>1, VotesPaced, Zenon
  <2>7. \A m \in 0 .. 5 - 1 : Paced(t, m)
    BY <2>5, VotesPaceAt, UpTo, Zenon
  <2>8. Begins(t)
    BY <2>1, <2>2 DEF Begins, Single
  <2> QED BY <2>1, <2>7, <2>8, UpTo, SteadyOf
<1>6. ASSUME NEW t, t = <<"sync all", "sync all">>
      PROVE  Steady(t)
  <2>1. Len(t) = 2 /\ t[1] = "sync all" /\ t[2] = "sync all"
    BY <1>6, HaloTraces
  <2>2. 0 + 1 = 1 /\ 1 + 1 = 2 /\ 2 >= 1
    OBVIOUS
  <2>6. Paced(t, 0) /\ Paced(t, 1)
    BY <2>1, <2>2, SyncPaced, Zenon
  <2>7. \A m \in 0 .. 2 - 1 : Paced(t, m)
    BY <2>6, UpTo, Zenon
  <2>8. Begins(t)
    BY <2>1, <2>2 DEF Begins
  <2> QED BY <2>1, <2>7, <2>8, UpTo, SteadyOf
<1>7. ASSUME NEW t, t = <<>>
      PROVE  Steady(t)
  <2>1. Len(t) = 0
    BY <1>7, BodyTraces
  <2>2. Begins(t)
    BY <2>1 DEF Begins
  <2> QED BY <2>1, <2>2, UpTo, SteadyOf
<1> QED BY <1>1, <1>2, <1>3, <1>4, <1>5, <1>6, <1>7 DEF BodyTrace, Voting

\* Small numbers, and statements that a sync all follows.
LEMMA Few ==
  /\ 3 + 1 = 4 /\ 3 + 2 = 5 /\ 4 + 1 = 5 /\ 2 <= 2 /\ 2 <= 3 /\ 3 <= 5 /\ 5 <= 5
  /\ {"reset checks", "stop timer", "learn"} \subseteq Single
BY DEF Single

\* The other traces.
LEMMA ShortBegins ==
  \A t :
    /\ Len(t) = 0 => Begins(t)
    /\ t[1] = "sync all" /\ (Len(t) = 1 \/ Len(t) = 2 \/ Len(t) = 5) => Begins(t)
    /\ t[1] = "reset checks" /\ t[2] = "sync all" /\ (Len(t) = 2 \/ Len(t) = 3) => Begins(t)
<1>1. ASSUME NEW t, NEW l, Len(t) = l PROVE l = 0 => Begins(t)
  BY <1>1 DEF Begins
<1>2. ASSUME NEW t, NEW l, Len(t) = l, l >= 1, t[1] = "sync all" PROVE Begins(t)
  BY <1>2, Zenon DEF Begins
<1>3. ASSUME NEW t, NEW l, Len(t) = l, l >= 2, t[1] = "reset checks", t[2] = "sync all"
      PROVE  Begins(t)
  BY <1>3, Few, Zenon DEF Begins
<1>4. 1 >= 1 /\ 2 >= 1 /\ 5 >= 1 /\ 2 >= 2 /\ 3 >= 2
  OBVIOUS
<1> QED BY <1>1, <1>2, <1>3, <1>4, Zenon

\* A statement that a sync all follows, and the last one.
LEMMA ShortPaced ==
  ASSUME NEW t, NEW m, NEW n1, NEW n2, NEW l, m + 1 = n1, m + 2 = n2, Len(t) = l
  PROVE  /\ t[n1] \in Single /\ n2 <= l /\ t[n2] = "sync all" => Paced(t, m)
         /\ t[n1] = "start timer" /\ n1 = l => Paced(t, m)
BY Zenon DEF Paced, PacedAt

\* Traces of up to five statements.
LEMMA ShortSteady ==
  \A t :
    /\ Len(t) = 0 => Steady(t)
    /\ Len(t) = 1 /\ t[1] = "sync all" => Steady(t)
    /\ Len(t) = 2 /\ t[1] = "sync all" /\ t[2] = "sync all" => Steady(t)
    /\ Len(t) = 2 /\ t[1] = "sync all" /\ t[2] = "start timer" => Steady(t)
    /\ Len(t) = 2 /\ t[1] = "reset checks" /\ t[2] = "sync all" => Steady(t)
    /\ Len(t) = 3 /\ t[1] = "reset checks" /\ t[2] = "sync all" /\ t[3] = "start timer" => Steady(t)
    /\ Len(t) = 5 /\ t[1] = "sync all" /\ t[2] = "stop timer" /\ t[3] = "sync all"
         /\ t[4] = "learn" /\ t[5] = "sync all" => Steady(t)
<1>1. ASSUME NEW t, Len(t) = 1, t[1] = "sync all" PROVE Steady(t)
  <2>1. Paced(t, 0)
    BY <1>1, Sums, SyncPaced, Zenon
  <2>2. \A m \in 0 .. 1 - 1 : Paced(t, m)
    BY <2>1, UpTo, Zenon
  <2> QED BY <1>1, <2>2, UpTo, ShortBegins, SteadyOf, Zenon
<1>2. ASSUME NEW t, Len(t) = 2, t[1] = "sync all", t[2] = "sync all" PROVE Steady(t)
  <2>1. Paced(t, 0) /\ Paced(t, 1)
    BY <1>2, Sums, SyncPaced, Zenon
  <2>2. \A m \in 0 .. 2 - 1 : Paced(t, m)
    BY <2>1, UpTo, Zenon
  <2> QED BY <1>2, <2>2, UpTo, ShortBegins, SteadyOf, Zenon
<1>3. ASSUME NEW t, Len(t) = 2, t[1] = "sync all", t[2] = "start timer" PROVE Steady(t)
  <2>1. Paced(t, 0)
    BY <1>3, Sums, SyncPaced, Zenon
  <2>3. Paced(t, 1)
    BY <1>3, Few, Sums, ShortPaced, Zenon
  <2>4. \A m \in 0 .. 2 - 1 : Paced(t, m)
    BY <2>1, <2>3, UpTo, Zenon
  <2> QED BY <1>3, <2>4, UpTo, ShortBegins, SteadyOf, Zenon
<1>4. ASSUME NEW t, Len(t) = 2, t[1] = "reset checks", t[2] = "sync all" PROVE Steady(t)
  <2>1. Paced(t, 1)
    BY <1>4, Sums, SyncPaced, Zenon
  <2>3. Paced(t, 0)
    BY <1>4, Few, Sums, ShortPaced, Zenon
  <2>4. \A m \in 0 .. 2 - 1 : Paced(t, m)
    BY <2>1, <2>3, UpTo, Zenon
  <2> QED BY <1>4, <2>4, UpTo, ShortBegins, SteadyOf, Zenon
<1>5. ASSUME NEW t, Len(t) = 3, t[1] = "reset checks", t[2] = "sync all", t[3] = "start timer"
      PROVE  Steady(t)
  <2>1. Paced(t, 1)
    BY <1>5, Sums, SyncPaced, Zenon
  <2>3. Paced(t, 0) /\ Paced(t, 2)
    BY <1>5, Few, Sums, ShortPaced, Zenon
  <2>4. \A m \in 0 .. 3 - 1 : Paced(t, m)
    BY <2>1, <2>3, UpTo, Zenon
  <2> QED BY <1>5, <2>4, UpTo, ShortBegins, SteadyOf, Zenon
<1>6. ASSUME NEW t, Len(t) = 5, t[1] = "sync all", t[2] = "stop timer", t[3] = "sync all",
             t[4] = "learn", t[5] = "sync all"
      PROVE  Steady(t)
  <2>1. Paced(t, 0) /\ Paced(t, 2) /\ Paced(t, 4)
    BY <1>6, Few, Sums, SyncPaced, Zenon
  <2>3. Paced(t, 1) /\ Paced(t, 3)
    BY <1>6, Few, Sums, ShortPaced, ZenonT(60)
  <2>4. \A m \in 0 .. 5 - 1 : Paced(t, m)
    BY <2>1, <2>3, UpTo, Zenon
  <2> QED BY <1>6, <2>4, UpTo, ShortBegins, SteadyOf, Zenon
<1>7. ASSUME NEW t, Len(t) = 0 PROVE Steady(t)
  BY <1>7, UpTo, ShortBegins, SteadyOf, Zenon
<1> QED BY <1>1, <1>2, <1>3, <1>4, <1>5, <1>6, <1>7

\* In every trace a sync all follows after one statement or two.
LEMMA TraceSteady ==
  ASSUME NEW c, NEW jb, IsCall(c, jb), NEW part \in Parts
  PROVE  Steady(Trace(c, part))
<1>8. CASE part = "open" \/ part = "trial"
  <2>1. CASE c.kind = "halo"
    BY <1>8, <2>1, HaloTrace, ShortSteady
  <2>2. CASE c.kind # "halo"
    BY <1>8, <2>2, PingPongTrace, ShortSteady
  <2> QED BY <2>1, <2>2
<1>9. CASE part = "resize"
  BY <1>9, ResizeTrace, ShortSteady
<1>10. CASE part = "body"
  <2>1. c.kind # "halo" \/ c.sync \in {"all", "pt2pt"}
    BY DEF IsCall
  <2> QED BY <1>10, <2>1, EndTrace, BodySteady
<1>11. CASE part = "close"
  BY <1>11, CloseTrace, ShortSteady
<1>12. CASE part = "report" \/ part = "end"
  BY <1>12, EndTrace, ShortSteady
<1> QED BY <1>8, <1>9, <1>10, <1>11, <1>12 DEF Parts

\* Which statement is in which part.
LEMMA UpToOne ==
  /\ \A m \in 1 .. 12 : \/ m = 1 \/ m = 2 \/ m = 3 \/ m = 4 \/ m = 5 \/ m = 6
                        \/ m = 7 \/ m = 8 \/ m = 9 \/ m = 10 \/ m = 11 \/ m = 12
  /\ \A m \in 1 .. 10 : \/ m = 1 \/ m = 2 \/ m = 3 \/ m = 4 \/ m = 5 \/ m = 6
                        \/ m = 7 \/ m = 8 \/ m = 9 \/ m = 10
  /\ \A m \in 1 .. 7 : m = 1 \/ m = 2 \/ m = 3 \/ m = 4 \/ m = 5 \/ m = 6 \/ m = 7
  /\ \A m \in 1 .. 5 : m = 1 \/ m = 2 \/ m = 3 \/ m = 4 \/ m = 5
  /\ \A m \in 1 .. 3 : m = 1 \/ m = 2 \/ m = 3
  /\ \A m \in 1 .. 2 : m = 1 \/ m = 2
  /\ \A m \in 1 .. 1 : m = 1
  /\ \A m \in 1 .. 0 : FALSE
OBVIOUS

BodyOps == {"sync all", "vote", "tally", "exit"}

HasBodyOps(t) ==
  /\ \A m \in 1 .. Len(t) : t[m] \in BodyOps
  /\ Len(t) = 0 \/ t[1] # "tally"

\* What the body of the loop decides by.
LEMMA BodyOnly ==
  ASSUME NEW c, c.kind # "halo" \/ c.sync \in {"all", "pt2pt"}
  PROVE  HasBodyOps(BodyTrace(c))
<1>0. /\ "sync all" \in BodyOps /\ "vote" \in BodyOps /\ "tally" \in BodyOps /\ "exit" \in BodyOps
      /\ "sync all" # "tally" /\ "vote" # "tally"
  BY DEF BodyOps
<1>1. ASSUME NEW t,
             t = <<"vote", "sync all", "tally", "sync all", "exit", "sync all",
                   "vote", "sync all", "tally", "sync all", "exit", "sync all">>
      PROVE  HasBodyOps(t)
  <2>1. /\ Len(t) = 12 /\ t[6] = "sync all" /\ t[12] = "sync all"
        /\ t[1] = "vote" /\ t[2] = "sync all" /\ t[3] = "tally" /\ t[4] = "sync all" /\ t[5] = "exit"
        /\ t[7] = "vote" /\ t[8] = "sync all" /\ t[9] = "tally" /\ t[10] = "sync all" /\ t[11] = "exit"
    BY <1>1, BodyTraces
  <2> QED BY <1>0, <2>1, UpToOne, Zenon DEF HasBodyOps
<1>2. ASSUME NEW t,
             t = <<"sync all", "vote", "sync all", "tally", "sync all", "exit",
                   "sync all", "vote", "sync all", "tally", "sync all", "exit">>
      PROVE  HasBodyOps(t)
  <2>1. /\ Len(t) = 12 /\ t[1] = "sync all" /\ t[7] = "sync all"
        /\ t[2] = "vote" /\ t[3] = "sync all" /\ t[4] = "tally" /\ t[5] = "sync all" /\ t[6] = "exit"
        /\ t[8] = "vote" /\ t[9] = "sync all" /\ t[10] = "tally" /\ t[11] = "sync all" /\ t[12] = "exit"
    BY <1>2, BodyTraces
  <2> QED BY <1>0, <2>1, UpToOne, Zenon DEF HasBodyOps
<1>3. ASSUME NEW t,
             t = <<"vote", "sync all", "tally", "sync all", "exit",
                   "vote", "sync all", "tally", "sync all", "exit">>
      PROVE  HasBodyOps(t)
  <2>1. /\ Len(t) = 10
        /\ t[1] = "vote" /\ t[2] = "sync all" /\ t[3] = "tally" /\ t[4] = "sync all" /\ t[5] = "exit"
        /\ t[6] = "vote" /\ t[7] = "sync all" /\ t[8] = "tally" /\ t[9] = "sync all" /\ t[10] = "exit"
    BY <1>3, BodyTraces
  <2> QED BY <1>0, <2>1, UpToOne, Zenon DEF HasBodyOps
<1>4. ASSUME NEW t,
             t = <<"sync all", "sync all", "vote", "sync all", "tally", "sync all", "exit">>
      PROVE  HasBodyOps(t)
  <2>1. /\ Len(t) = 7 /\ t[1] = "sync all" /\ t[2] = "sync all" /\ t[3] = "vote"
        /\ t[4] = "sync all" /\ t[5] = "tally" /\ t[6] = "sync all" /\ t[7] = "exit"
    BY <1>4, HaloTraces
  <2> QED BY <1>0, <2>1, UpToOne, Zenon DEF HasBodyOps
<1>5. ASSUME NEW t, t = <<"vote", "sync all", "tally", "sync all", "exit">>
      PROVE  HasBodyOps(t)
  <2>1. /\ Len(t) = 5 /\ t[1] = "vote"
        /\ t[2] = "sync all" /\ t[3] = "tally" /\ t[4] = "sync all" /\ t[5] = "exit"
    BY <1>5, HaloTraces
  <2> QED BY <1>0, <2>1, UpToOne, Zenon DEF HasBodyOps
<1>6. ASSUME NEW t, t = <<"sync all", "sync all">>
      PROVE  HasBodyOps(t)
  <2>1. Len(t) = 2 /\ t[1] = "sync all" /\ t[2] = "sync all"
    BY <1>6, HaloTraces
  <2> QED BY <1>0, <2>1, UpToOne, Zenon DEF HasBodyOps
<1>7. ASSUME NEW t, t = <<>>
      PROVE  HasBodyOps(t)
  <2>1. Len(t) = 0
    BY <1>7, BodyTraces
  <2> QED BY <2>1, UpToOne, Zenon DEF HasBodyOps
<1> QED BY <1>1, <1>2, <1>3, <1>4, <1>5, <1>6, <1>7 DEF BodyTrace, Voting

\* The part and the place a statement is at.
PlacedIn(op, part, m) ==
  /\ op \in {"vote", "tally", "exit"} => part = "body"
  /\ op = "start timer" => part = "trial"
  /\ op = "stop timer" => part = "close" /\ m = 2
  /\ op = "learn" => part = "close" /\ m = 4
  /\ op = "reset checks" => part \in {"open", "trial"} /\ m = 1

\* Statements at their places.
LEMMA OpsPlaced ==
  /\ \A part, m : PlacedIn("sync all", part, m)
  /\ \A op, m : op \in BodyOps => PlacedIn(op, "body", m)
  /\ \A m : PlacedIn("start timer", "trial", m)
  /\ PlacedIn("reset checks", "open", 1) /\ PlacedIn("reset checks", "trial", 1)
  /\ PlacedIn("stop timer", "close", 2) /\ PlacedIn("learn", "close", 4)
BY DEF PlacedIn, BodyOps

\* Every statement of every trace is at its place.
LEMMA TracePlaces ==
  ASSUME NEW c, NEW jb, IsCall(c, jb), NEW part \in Parts,
         NEW m, m \in 1 .. Len(Trace(c, part))
  PROVE  PlacedIn(Trace(c, part)[m], part, m)
<1>1. CASE part = "open" /\ c.kind = "halo"
  BY <1>1, HaloTrace, UpToOne, OpsPlaced, Zenon
<1>2. CASE part = "trial" /\ c.kind = "halo"
  BY <1>2, HaloTrace, UpToOne, OpsPlaced, Zenon
<1>3. CASE part = "open" /\ c.kind # "halo"
  BY <1>3, PingPongTrace, UpToOne, OpsPlaced, Zenon
<1>4. CASE part = "trial" /\ c.kind # "halo"
  BY <1>4, PingPongTrace, UpToOne, OpsPlaced, Zenon
<1>5. CASE part = "resize"
  BY <1>5, ResizeTrace, UpToOne, OpsPlaced, Zenon
<1>6. CASE part = "body"
  <2>1. c.kind # "halo" \/ c.sync \in {"all", "pt2pt"}
    BY DEF IsCall
  <2> QED BY <1>6, <2>1, EndTrace, BodyOnly, OpsPlaced, Zenon DEF HasBodyOps
<1>7. CASE part = "close"
  BY <1>7, CloseTrace, UpToOne, OpsPlaced, Zenon
<1>8. CASE part = "report"
  BY <1>8, EndTrace, UpToOne, Zenon
<1>9. CASE part = "end"
  BY <1>9, EndTrace, UpToOne, OpsPlaced, Zenon
<1> QED BY <1>1, <1>2, <1>3, <1>4, <1>5, <1>6, <1>7, <1>8, <1>9 DEF Parts

-----------------------------------------------------------------------------
(***************************************************************************)
(* An image executes the first of its statements.                          *)
(***************************************************************************)
LEMMA WithinTail ==
  ASSUME NEW s, NEW ops, IsSequence(s), s # <<>>, Within(s, ops)
  PROVE  Head(s).op \in ops /\ Within(Tail(s), ops)
<1>1. PICK l \in Nat : l = Len(s) /\ l >= 1
  BY Tailed
<1>2. Head(s) = s[1] /\ Len(Tail(s)) = l - 1 /\ \A n \in 1 .. l - 1 : Tail(s)[n] = s[n + 1]
  BY <1>1, Tailed
<1>3. \A n \in 1 .. l : s[n].op \in ops
  BY <1>1 DEF Within
<1>4. 1 \in 1 .. l /\ \A n \in 1 .. l - 1 : n + 1 \in 1 .. l
  BY <1>1
<1>5. \A n \in 1 .. Len(Tail(s)) : Tail(s)[n].op \in ops
  BY <1>2, <1>3, <1>4
<1> QED BY <1>2, <1>3, <1>4, <1>5 DEF Within

\* Executing a statement leaves the rest, one further in the trace if it
\* decides.
LEMMA FollowsStep ==
  ASSUME NEW s, NEW c, NEW part, NEW a, Follows(s, c, part, a), s # <<>>
  PROVE  IF Head(s).op \in Control
         THEN a < Len(Trace(c, part)) /\ Head(s).op = Trace(c, part)[a + 1]
              /\ Follows(Tail(s), c, part, a + 1)
         ELSE Follows(Tail(s), c, part, a)
<1>1. PICK t, b : t = Trace(c, part) /\ b = Len(t)
  OBVIOUS
<1>2. Covers(s, t, a, b)
  BY <1>1 DEF Follows
<1>3. IsSequence(s)
  BY <1>2 DEF Covers
<1>4. IF Head(s).op \in Control
      THEN a < b /\ Head(s).op = t[a + 1] /\ Covers(Tail(s), t, a + 1, b)
      ELSE Covers(Tail(s), t, a, b)
  BY <1>2, CoversStep
<1>5. Within(Tail(s), IF part = "close" THEN Closing ELSE Control \cup Others)
  <2>1. Within(s, IF part = "close" THEN Closing ELSE Control \cup Others)
    BY DEF Follows
  <2> QED BY <1>3, <2>1, WithinTail
<1>u. PICK u : u = Tail(s)
  OBVIOUS
<1>6. PICK l \in Nat : /\ u = Tail(s) /\ l = Len(s) /\ l >= 1 /\ Len(u) = l - 1
                       /\ \A n \in 1 .. l - 1 : u[n] = s[n + 1]
  BY <1>3, <1>u, Tailed
<1>7. ASSUME part = "close", NEW n \in 1 .. Len(u), u[n].op = "share"
      PROVE  Len(u) = n + 3 /\ \A k \in n + 1 .. n + 3 : u[k].op \in Control
  <2>1. \A i \in 1 .. l : s[i].op = "share" =>
          l = i + 3 /\ \A k \in i + 1 .. i + 3 : s[k].op \in Control
    BY <1>6, <1>7 DEF Follows
  <2>2. n \in 1 .. l - 1 /\ n \in Nat /\ n + 1 \in 1 .. l
    BY <1>6
  <2>3. s[n + 1].op = "share"
    BY <1>6, <1>7, <2>2
  <2>4. l = n + 1 + 3 /\ \A k \in n + 1 + 1 .. n + 1 + 3 : s[k].op \in Control
    BY <2>1, <2>2, <2>3
  <2>5. \A k \in n + 1 .. n + 3 : k \in 1 .. l - 1 /\ k + 1 \in n + 1 + 1 .. n + 1 + 3
    BY <2>2, <2>4
  <2>6. l - 1 = n + 3
    BY <2>2, <2>4
  <2> QED BY <1>6, <2>4, <2>5, <2>6
<1>8. ASSUME part = "trial"
      PROVE  /\ Len(u) >= 1 => u[Len(u)].op = "start timer"
             /\ Len(u) >= 2 => u[Len(u) - 1].op = "sync all"
  <2>1. /\ s[l].op = "start timer"
        /\ l >= 2 => s[l - 1].op = "sync all"
    BY <1>6, <1>8 DEF Follows
  <2>2. CASE l - 1 >= 1
    <3>1. l - 1 \in 1 .. l - 1 /\ (l - 1) + 1 = l
      BY <2>2
    <3>2. u[l - 1] = s[l]
      BY <1>6, <3>1
    <3>3. ASSUME l - 1 >= 2 PROVE u[l - 1 - 1].op = "sync all"
      <4>1. l - 1 - 1 \in 1 .. l - 1 /\ (l - 1 - 1) + 1 = l - 1 /\ l >= 2
        BY <3>3
      <4> QED BY <1>6, <2>1, <4>1
    <3> QED BY <1>6, <2>1, <3>2, <3>3
  <2>3. CASE ~(l - 1 >= 1)
    <3>1. ~(Len(u) >= 1) /\ ~(Len(u) >= 2)
      <4>1. ~(l - 1 >= 2)
        BY <2>3
      <4> QED BY <1>6, <2>3, <4>1, Zenon
    <3> QED BY <3>1
  <2> QED BY <2>2, <2>3
<1>9. \A k : Covers(u, t, k, b) => Follows(u, c, part, k)
  BY <1>1, <1>5, <1>6, <1>7, <1>8 DEF Follows
<1> QED BY <1>1, <1>4, <1>6, <1>9

\* Which statements there are at all.
LEMMA FollowsOps ==
  ASSUME NEW s, NEW c, NEW part, NEW a, Follows(s, c, part, a), s # <<>>
  PROVE  /\ Head(s).op \in Control \cup Others \cup {"share"}
         /\ Head(s).op = "share" => part = "close"
         /\ part = "close" => Head(s).op \in Closing
<1>1. Within(s, IF part = "close" THEN Closing ELSE Control \cup Others) /\ IsSequence(s)
  BY DEF Follows, Covers
<1>2. Head(s).op \in IF part = "close" THEN Closing ELSE Control \cup Others
  BY <1>1, WithinTail
<1>3. Closing \subseteq Control \cup {"share"} /\ "share" \notin Control \cup Others
  BY DEF Closing, Control, Others
<1> QED BY <1>2, <1>3

\* How far an image is in its part can be read from the statements it has
\* left.
LEMMA FollowsCount ==
  ASSUME NEW s, NEW c, NEW part, NEW a, Follows(s, c, part, a)
  PROVE  /\ a \in Nat /\ Len(Trace(c, part)) \in Nat /\ a <= Len(Trace(c, part))
         /\ Cardinality(Deciding(s)) = Len(Trace(c, part)) - a
         /\ Len(Trace(c, part)) - Cardinality(Deciding(s)) = a
         /\ s = <<>> => a = Len(Trace(c, part))
<1>1. PICK t, b : t = Trace(c, part) /\ b = Len(t)
  OBVIOUS
<1>2. Covers(s, t, a, b)
  BY <1>1 DEF Follows
<1>3. a \in Nat /\ b \in Nat /\ a <= b
  BY <1>2 DEF Covers
<1>4. Cardinality(Deciding(s)) = b - a
  BY <1>2, CoversCount
<1>5. s = <<>> => a = b
  BY <1>2, CoversNothing
<1>6. b - (b - a) = a
  BY <1>3
<1> QED BY <1>1, <1>3, <1>4, <1>5, <1>6

\* The root shares its time before the third of the statements that decide.
LEMMA FollowsShare ==
  ASSUME NEW s, NEW c, NEW a, Follows(s, c, "close", a), s # <<>>, Head(s).op = "share"
  PROVE  a = 2
<1>1. IsSequence(s)
  BY DEF Follows, Covers
<1>2. PICK l \in Nat : l = Len(s) /\ l >= 1
  BY <1>1, Tailed
<1>3. Head(s) = s[1]
  BY <1>1, Tailed
<1>4. l = 4 /\ \A k \in 2 .. 4 : s[k].op \in Control
  <2>1. \A n \in 1 .. l : s[n].op = "share" =>
          l = n + 3 /\ \A k \in n + 1 .. n + 3 : s[k].op \in Control
    BY <1>2 DEF Follows
  <2>2. 1 \in 1 .. l /\ 1 + 1 = 2 /\ 1 + 3 = 4
    BY <1>2
  <2> QED BY <1>3, <2>1, <2>2
<1>5. Deciding(s) = 2 .. 4
  <2>1. "share" \notin Control
    BY DEF Control
  <2>2. Deciding(s) = {n \in 1 .. 4 : s[n].op \in Control}
    BY <1>2, <1>4 DEF Deciding
  <2>3. \A n \in 1 .. 4 : n = 1 \/ n \in 2 .. 4
    OBVIOUS
  <2>4. 2 .. 4 \subseteq 1 .. 4 /\ 1 \notin 2 .. 4
    OBVIOUS
  <2> QED BY <1>3, <1>4, <2>1, <2>2, <2>3, <2>4
<1>6. Cardinality(Deciding(s)) = 3
  <2>1. Cardinality(2 .. 4) = 3
    <3>1. 2 \in Int /\ 4 \in Int /\ ~(2 > 4) /\ (4 - 2) + 1 = 3
      OBVIOUS
    <3> QED BY <3>1, FS_Interval
  <2> QED BY <1>5, <2>1
<1>7. a \in Nat /\ 3 = 5 - a
  <2>1. a \in Nat /\ Cardinality(Deciding(s)) = Len(Trace(c, "close")) - a
    BY FollowsCount
  <2>2. Len(Trace(c, "close")) = 5
    BY CloseTrace
  <2> QED BY <1>6, <2>1, <2>2
<1> QED BY <1>7

\* Behind the last sync all before a trial only the clock is read.
LEMMA FollowsTrialEnd ==
  ASSUME NEW s, NEW c, NEW a, Follows(s, c, "trial", a), Len(Trace(c, "trial")) <= a + 1, s # <<>>
  PROVE  Head(s).op = "start timer"
<1>1. IsSequence(s)
  BY DEF Follows, Covers
<1>2. PICK l \in Nat : l = Len(s) /\ l >= 1
  BY <1>1, Tailed
<1>3. Head(s) = s[1]
  BY <1>1, Tailed
<1>4. s[l].op = "start timer" /\ (l >= 2 => s[l - 1].op = "sync all")
  BY <1>2 DEF Follows
<1>5. ASSUME l >= 2 PROVE FALSE
  <2>1. {l - 1, l} \subseteq Deciding(s)
    <3>1. "start timer" \in Control /\ "sync all" \in Control
      BY DEF Control
    <3>2. l \in 1 .. l /\ l - 1 \in 1 .. l
      BY <1>5
    <3> QED BY <1>2, <1>4, <1>5, <3>1, <3>2 DEF Deciding
  <2>2. IsFiniteSet(Deciding(s))
    <3>1. IsFiniteSet(1 .. l)
      BY FS_Interval
    <3>2. Deciding(s) \subseteq 1 .. l
      BY <1>2 DEF Deciding
    <3> QED BY <3>1, <3>2, FS_Subset
  <2>3. Cardinality({l - 1, l}) <= Cardinality(Deciding(s)) 
    BY <2>1, <2>2, FS_Subset
  <2>4. Cardinality({l - 1, l}) = 2
    <3>1. {l - 1, l} = l - 1 .. l
      OBVIOUS
    <3>2. Cardinality(l - 1 .. l) = 2
      <4>1. l - 1 \in Int /\ l \in Int /\ ~(l - 1 > l) /\ (l - (l - 1)) + 1 = 2
        OBVIOUS
      <4> QED BY <4>1, FS_Interval
    <3> QED BY <3>1, <3>2
  <2>5. /\ a \in Nat /\ Len(Trace(c, "trial")) \in Nat
        /\ Cardinality(Deciding(s)) = Len(Trace(c, "trial")) - a
    BY FollowsCount
  <2> QED BY <2>3, <2>4, <2>5
<1>6. l = 1
  BY <1>2, <1>5
<1> QED BY <1>3, <1>4, <1>6

-----------------------------------------------------------------------------
\* The builds in which images leave the loop together, if they do at all.
Orderly == build.port = "fortran" \/ ~build.check

-----------------------------------------------------------------------------
(***************************************************************************)
(* What of an image decides where it goes, and the places it goes to: the  *)
(* sync all of a call, with the shape, the repetitions and the repetition  *)
(* the image is at; at is its place in the trace of the part.              *)
(***************************************************************************)
View(p) ==
  [build |-> build, until |-> until, call |-> call[p], section |-> section[p],
   shape |-> shape[p], nrep |-> trialnrep[p], irep |-> irep[p],
   ok |-> gcheck[p], time |-> time[p]]

CallAt(v)  == Calls[v.build][v.call]
TraceAt(v) == IF v.section = "done" THEN <<>> ELSE Trace(CallAt(v), v.section)

\* A view in the middle of a call.
InPart(v) ==
  /\ v.build \in Builds /\ v.until \in Nat /\ v.until <= Len(Calls[v.build])
  /\ v.call \in 1 .. v.until /\ v.section \in Parts

Place(k, part, sh, n, i, m) ==
  [call |-> k, section |-> part, shape |-> sh, nrep |-> n, irep |-> i, at |-> m]

\* What of it matters in this part.
PlaceOf(v, m) ==
  IF v.section = "open" \/ v.section = "end" THEN Place(v.call, v.section, NoShape, 1, 0, m)
  ELSE Place(v.call, v.section, v.shape, v.nrep, IF v.section = "body" THEN v.irep ELSE 0, m)

\* At most two other statements come in front of a sync all.
NextSync(trace, m) ==
  IF m + 1 <= Len(trace) /\ trace[m + 1] = "sync all" THEN m + 1
  ELSE IF m + 2 <= Len(trace) /\ trace[m + 2] = "sync all" THEN m + 2
  ELSE IF m + 3 <= Len(trace) /\ trace[m + 3] = "sync all" THEN m + 3
  ELSE 0

First(c, part) == NextSync(Trace(c, part), 0)

ToOpen(v, k) ==
  IF k > v.until THEN Place(k, "done", NoShape, 1, 0, 0)
  ELSE Place(k, "open", NoShape, 1, 0, First(Calls[v.build][k], "open"))
ToTrial(v, sh, n) == Place(v.call, "trial", sh, n, 0, First(CallAt(v), "trial"))
ToShape(v, sh, n) ==
  IF Resizes(CallAt(v)) THEN Place(v.call, "resize", sh, n, 0, 1) ELSE ToTrial(v, sh, n)
ToClose(v) == Place(v.call, "close", v.shape, v.nrep, 0, 1)

\* After repetition i.
ToBody(v, i) ==
  IF i < v.nrep /\ Len(BodyTrace(CallAt(v))) # 0
  THEN Place(v.call, "body", v.shape, v.nrep, i + 1, First(CallAt(v), "body"))
  ELSE ToClose(v)

Over(v) ==
  CallAt(v).kind = "halo" \/ ~v.ok \/ Finished(CallAt(v), NextShape(CallAt(v), v.shape))

AfterReport(v, n) ==
  IF Over(v) THEN Place(v.call, "end", NoShape, 1, 0, 1)
  ELSE ToShape(v, NextShape(CallAt(v), v.shape), n)

Settled(v)      == LongEnough(v.build.port, v.time) \/ ~v.ok
Adjusted(v)     == NextNrep(v.build.port, v.time, v.nrep)
AfterClose(v) ==
  IF Settled(v) THEN AfterReport(v, Adjusted(v)) ELSE ToTrial(v, v.shape, Adjusted(v))

FirstOf(c) == IF c.kind = "halo" THEN NoShape ELSE FirstShape(c)

AfterPart(v) ==
  CASE v.section = "open"   -> ToShape(v, FirstOf(CallAt(v)), v.nrep)
    [] v.section = "resize" -> ToTrial(v, v.shape, v.nrep)
    [] v.section = "trial"  -> ToBody(v, 0)
    [] v.section = "body"   -> ToBody(v, v.irep)
    [] v.section = "close"  -> AfterClose(v)
    [] v.section = "report" -> AfterReport(v, v.nrep)
    [] v.section = "end"    -> ToOpen(v, v.call + 1)
    [] v.section = "done"   -> Place(v.call, "done", NoShape, 1, 0, 0)

Exits(v, m) == m + 1 <= Len(TraceAt(v)) /\ TraceAt(v)[m + 1] = "exit" /\ ~v.ok

\* The next sync all from where m statements of its part are behind the image.
Onward(v, m) ==
  IF Exits(v, m) THEN ToClose(v)
  ELSE IF NextSync(TraceAt(v), m) # 0 THEN PlaceOf(v, NextSync(TraceAt(v), m))
  ELSE AfterPart(v)

\* Which statement comes right before the sync all g.
Prior(jb, g) ==
  IF g.section = "done" \/ g.at < 2 THEN "" ELSE Trace(Calls[jb][g.call], g.section)[g.at - 1]

-----------------------------------------------------------------------------
(***************************************************************************)
(* Where images are, and what they know of each other.                     *)
(***************************************************************************)
\* How many deciding statements image p has behind it in this part; Passed
\* counts the sync all it is in.
Behind(p) == Len(TraceAt(View(p))) - Cardinality(Deciding(todo[p]))
InAll(p)  == inside[p] /\ About(p, "sync all")
Passed(p) == IF InAll(p) THEN Behind(p) + 1 ELSE Behind(p)

\* The sync all it enters next, and the one that it is in or at.
Goal(p) == Onward(View(p), Passed(p))
Here(p) == PlaceOf(View(p), Behind(p) + 1)

SyncInv ==
  \A p, q \in Im :
    /\ arrivals[p] <= arrivals[q] + 1
    /\ arrivals[p] = arrivals[q] => Goal(p) = Goal(q)
    /\ arrivals[p] = arrivals[q] + 1 => InAll(p) /\ Goal(q) = Here(p)

\* The image has executed what comes before that sync all, or has yet to.
Ready(p) == section[p] = Goal(p).section /\ Passed(p) + 1 = Goal(p).at
Due(p, ops) == Prior(build, Goal(p)) \in ops /\ ~Ready(p)
Learns(p)   == Goal(p).section = "close" /\ Goal(p).at = 5 /\ ~Ready(p)

\* The statements that set the verdict.
Settings == {"tally", "reset checks"}

\* The verdicts are equal, except that some images have yet to set theirs; an
\* image that does so by counting votes finds them as the others did.
VerdictInv ==
  \A p, q \in Im :
    /\ \/ arrivals[p] = arrivals[q] /\ (Due(p, Settings) <=> Due(q, Settings))
       \/ arrivals[p] = arrivals[q] + 1 /\ ~Due(q, Settings)
       => gcheck[p] = gcheck[q]
    /\ /\ Due(q, {"tally"})
       /\ \/ arrivals[p] = arrivals[q] /\ ~Due(p, {"tally"})
          \/ arrivals[p] = arrivals[q] + 1
       => gcheck[p] = \A r \in Im : ltmp[r]

\* The same for the time, from when it is learnt to when it is judged.
Timed(p) == section[p] = "close" /\ Behind(p) >= 4

TimeInv ==
  \A p, q \in Im :
    /\ Timed(p) /\ Timed(q) => time[p] = time[q]
    /\ /\ Learns(q) /\ Timed(p)
       /\ arrivals[p] = arrivals[q] \/ arrivals[p] = arrivals[q] + 1
       => time[p] = dtmp

\* What holds of each image by itself.
TypesInv ==
  /\ build \in Builds /\ until \in Nat /\ until <= Len(Calls[build])
  /\ DOMAIN call = Im /\ DOMAIN section = Im /\ DOMAIN todo = Im /\ DOMAIN shape = Im
  /\ DOMAIN nrep = Im /\ DOMAIN lcheck = Im /\ DOMAIN ltmp = Im /\ DOMAIN time = Im
  /\ DOMAIN underway = Im
  /\ DOMAIN trialnrep = Im /\ DOMAIN irep = Im /\ DOMAIN arrivals = Im
  /\ DOMAIN inside = Im /\ DOMAIN gcheck = Im

\* Its statements are what is left of its part of a call.
PlacedAt(p) ==
  IF section[p] = "done" THEN call[p] = until + 1 /\ todo[p] = <<>>
  ELSE /\ InPart(View(p))
       /\ Follows(todo[p], Current(p), section[p], Behind(p))

\* Its variables say what they should where it is.
LoopAt(p) ==
  /\ trialnrep[p] \in Nat \ {0} /\ irep[p] \in Nat /\ arrivals[p] \in Nat
  /\ inside[p] \in BOOLEAN /\ gcheck[p] \in BOOLEAN
  /\ inside[p] => About(p, "sync all") \/ About(p, "sync images")
  /\ section[p] = "open" => trialnrep[p] = 1
  /\ section[p] \in {"open", "resize", "trial"} => irep[p] = 0
  /\ section[p] = "report" => AtEnd(p)
  /\ section[p] = "body" => irep[p] <= trialnrep[p]
  /\ section[p] = "close" /\ gcheck[p] => irep[p] = trialnrep[p]
  /\ section[p] = "report" /\ gcheck[p] => nrep[p] = irep[p]
  /\ /\ section[p] \in {"open", "trial"} /\ Behind(p) >= 1
     /\ TraceAt(View(p))[1] = "reset checks"
     => gcheck[p]
  /\ build.port = "fortran" /\ section[p] = "close" /\ Passed(p) >= 1 => underway[p] = {}

ImagesInv == TypesInv /\ \A p \in Im : PlacedAt(p) /\ LoopAt(p)

-----------------------------------------------------------------------------
(***************************************************************************)
(* The next sync all from a place.                                         *)
(***************************************************************************)
\* The calls are such calls.
LEMMA CallIs ==
  ASSUME NEW v, InPart(v)
  PROVE  IsCall(CallAt(v), v.build)
<1>1. CallsAre(Calls[v.build], v.build)
  BY CallFacts DEF InPart
<1>2. Len(Calls[v.build]) \in Nat
  BY <1>1 DEF CallsAre, IsSequence
<1>3. v.call \in 1 .. Len(Calls[v.build])
  BY <1>2 DEF InPart
<1> QED BY <1>1, <1>3 DEF CallsAre, CallAt

\* A trace is a sequence, with one or two statements in front of each sync all.
LEMMA SteadyAt ==
  ASSUME NEW v, InPart(v)
  PROVE  /\ Steady(TraceAt(v)) /\ Len(TraceAt(v)) \in Nat
         /\ TraceAt(v) = Trace(CallAt(v), v.section)
<1>1. v.section \in Parts /\ v.section # "done"
  BY DEF InPart, Parts
<1>2. Steady(Trace(CallAt(v), v.section))
  BY <1>1, CallIs, TraceSteady
<1> QED BY <1>1, <1>2 DEF TraceAt, Steady

\* What a place says.
LEMMA PlaceFields ==
  ASSUME NEW k, NEW part, NEW sh, NEW n, NEW i, NEW m, NEW g, g = Place(k, part, sh, n, i, m)
  PROVE  /\ g.call = k /\ g.section = part /\ g.shape = sh /\ g.nrep = n /\ g.irep = i
         /\ g.at = m
BY DEF Place

\* What the place of a view says: outside open and end also the shape, the
\* repetitions and the repetition.
LEMMA PlaceOfFields ==
  ASSUME NEW v, NEW m, NEW g, g = PlaceOf(v, m)
  PROVE  /\ g.call = v.call /\ g.section = v.section /\ g.at = m
         /\ v.section \notin {"open", "end"} => g.shape = v.shape /\ g.nrep = v.nrep
         /\ v.section = "body" => g.irep = v.irep
BY PlaceFields DEF PlaceOf

\* Places in a trace of length l.
LEMMA Ahead ==
  ASSUME NEW m \in Nat
  PROVE  /\ (m + 1) + 1 = m + 2 /\ (m + 1) + 2 = m + 3 /\ (m + 2) - 1 = m + 1
         /\ m + 1 # 0 /\ m + 2 # 0 /\ m + 3 # 0 /\ m + 1 \in Nat /\ m + 2 \in Nat /\ ~(m + 2 < 2)
OBVIOUS

\* The same for a place before the end of the trace, at it and behind it.
LEMMA Before ==
  ASSUME NEW m \in Nat, NEW l \in Nat
  PROVE  /\ m < l => m + 1 <= l /\ m \in 0 .. l - 1 /\ m + 1 \in 1 .. l
         /\ m + 2 <= l => m + 1 < l
         /\ m + 1 = l => ~(m + 2 <= l) /\ ~(m + 3 <= l)
         /\ l <= m => ~(m + 1 <= l) /\ ~(m + 2 <= l) /\ ~(m + 3 <= l)
OBVIOUS

\* A sync all that comes first is the next one.
LEMMA NextSyncHere ==
  ASSUME NEW t, NEW m, m + 1 <= Len(t), t[m + 1] = "sync all"
  PROVE  NextSync(t, m) = m + 1
BY Zenon DEF NextSync

\* Behind the last statement there is none.
LEMMA NextSyncEnd ==
  ASSUME NEW t, NEW m \in Nat, NEW l \in Nat, Len(t) = l, l <= m
  PROVE  NextSync(t, m) = 0
BY Before, Zenon DEF NextSync

\* Statement m + 1 of t is op.
Stands(t, m, op) == Steady(t) /\ m < Len(t) /\ t[m + 1] = op /\ op # "sync all"

\* A statement that is not a sync all does not change which one is next.
LEMMA NextSyncOver ==
  ASSUME NEW t, NEW m \in Nat, NEW op, Stands(t, m, op)
  PROVE  /\ NextSync(t, m) = NextSync(t, m + 1)
         /\ ~(m + 2 <= Len(t) /\ t[m + 2] = "exit")
         /\ op \in Single => m + 2 <= Len(t) /\ t[m + 2] = "sync all" /\ NextSync(t, m) = m + 2
<1>1. PICK l \in Nat : l = Len(t)
  BY DEF Steady, Stands
<1>s. t[m + 1] = op /\ op # "sync all" /\ m < l
  BY <1>1 DEF Stands
<1>2. PacedAt(t, m + 1, m + 2, m + 3, l)
  <2>1. m \in 0 .. l - 1
    BY <1>s, Before, Zenon
  <2> QED BY <1>1, <2>1, Zenon DEF Steady, Paced, Stands
<1>3. (m + 1) + 1 = m + 2 /\ (m + 1) + 2 = m + 3 /\ m + 1 \in Nat
  BY Ahead
<1>0. "start timer" \notin Single /\ "exit" \notin Single /\ "exit" # "sync all"
      /\ "vote" # "sync all" /\ "vote" # "exit"
  BY DEF Single
<1>4. CASE op \in Single /\ m + 2 <= l /\ t[m + 2] = "sync all"
  <2>1. NextSync(t, m) = m + 2
    BY <1>1, <1>s, <1>4, Zenon DEF NextSync
  <2>2. NextSync(t, m + 1) = m + 2
    BY <1>1, <1>3, <1>4, NextSyncHere, Zenon
  <2> QED BY <1>0, <1>1, <1>4, <2>1, <2>2, Zenon
<1>5. CASE m + 1 = l /\ op \notin Single
  <2>1. ~(m + 2 <= l) /\ ~(m + 3 <= l)
    BY <1>5, Before, Zenon
  <2>2. NextSync(t, m) = 0
    BY <1>1, <1>s, <2>1, Zenon DEF NextSync
  <2>3. l <= m + 1
    BY <1>5
  <2>4. NextSync(t, m + 1) = 0
    BY <1>1, <1>3, <2>3, NextSyncEnd, Zenon
  <2> QED BY <1>1, <1>5, <2>1, <2>2, <2>4, Zenon
<1>6. CASE op \notin Single /\ m + 2 <= l /\ t[m + 2] = "sync all"
  <2>1. NextSync(t, m) = m + 2
    BY <1>1, <1>s, <1>6, Zenon DEF NextSync
  <2>2. NextSync(t, m + 1) = m + 2
    BY <1>1, <1>3, <1>6, NextSyncHere, Zenon
  <2> QED BY <1>0, <1>6, <2>1, <2>2, Zenon
<1>7. CASE op \notin Single /\ m + 3 <= l /\ t[m + 2] = "vote" /\ t[m + 3] = "sync all"
  <2>1. NextSync(t, m) = m + 3
    BY <1>0, <1>1, <1>s, <1>7, Zenon DEF NextSync
  <2>2. NextSync(t, m + 1) = m + 3
    BY <1>0, <1>1, <1>3, <1>7, Zenon DEF NextSync
  <2> QED BY <1>0, <1>7, <2>1, <2>2, Zenon
<1>8. \/ op \in Single /\ m + 2 <= l /\ t[m + 2] = "sync all"
      \/ m + 1 = l /\ op \notin Single
      \/ op \notin Single /\ m + 2 <= l /\ t[m + 2] = "sync all"
      \/ op \notin Single /\ m + 3 <= l /\ t[m + 2] = "vote" /\ t[m + 3] = "sync all"
  BY <1>0, <1>2, <1>s, Zenon DEF PacedAt
<1> QED BY <1>4, <1>5, <1>6, <1>7, <1>8

\* The first sync all of a part comes first, or after one statement.
LEMMA NextSyncFirst ==
  ASSUME NEW t, Steady(t), Len(t) # 0
  PROVE  /\ 1 <= Len(t) /\ t[1] # "exit"
         /\ \/ NextSync(t, 0) = 1 /\ t[1] = "sync all"
            \/ NextSync(t, 0) = 2 /\ t[1] \in Single
<1>0. "exit" \notin Single /\ "exit" # "sync all" /\ "sync all" \notin Single
  BY DEF Single
<1>1. PICK l \in Nat : l = Len(t)
  BY DEF Steady
<1>2. (l >= 1 => 1 <= l) /\ (l >= 2 => 2 <= l /\ 1 <= l)
  OBVIOUS
<1>3. CASE l >= 1 /\ t[1] = "sync all"
  <2>1. NextSync(t, 0) = 1
    BY <1>1, <1>2, <1>3, Sums, NextSyncHere, ZenonT(60)
  <2> QED BY <1>0, <1>1, <1>2, <1>3, <2>1, Zenon
<1>4. CASE l >= 2 /\ t[1] \in Single /\ t[2] = "sync all"
  <2>1. t[1] # "sync all"
    BY <1>0, <1>4
  <2>2. NextSync(t, 0) = 2
    BY <1>1, <1>2, <1>4, <2>1, Sums, Zenon DEF NextSync
  <2> QED BY <1>0, <1>1, <1>2, <1>4, <2>2, Zenon
<1> QED BY <1>1, <1>3, <1>4, Zenon DEF Steady, Begins

\* Statement m + 1 of the part is op.
At(v, m, op) ==
  /\ InPart(v) /\ m \in Nat
  /\ m < Len(TraceAt(v)) /\ TraceAt(v)[m + 1] = op

\* What is known where statement m + 1 is op.
LEMMA AtPart ==
  ASSUME NEW v, NEW m, NEW op, At(v, m, op)
  PROVE  /\ InPart(v) /\ m \in Nat /\ v.section # "done"
         /\ Steady(TraceAt(v)) /\ Len(TraceAt(v)) \in Nat
         /\ TraceAt(v)[m + 1] = op /\ m < Len(TraceAt(v)) /\ m + 1 <= Len(TraceAt(v))
         /\ op # "sync all" => Stands(TraceAt(v), m, op)
<1>1. InPart(v) /\ m \in Nat /\ TraceAt(v)[m + 1] = op /\ m < Len(TraceAt(v))
  BY DEF At
<1>2. PICK l : l = TraceAt(v)
  OBVIOUS
<1>3. Steady(l) /\ Len(l) \in Nat
  BY <1>1, <1>2, SteadyAt
<1>5. m + 1 <= Len(l)
  BY <1>1, <1>2, <1>3, Before, Zenon
<1>6. v.section # "done"
  BY <1>1 DEF InPart, Parts
<1>7. op # "sync all" => Stands(l, m, op)
  BY <1>1, <1>2, <1>3, Zenon DEF Stands
<1> QED BY <1>1, <1>2, <1>3, <1>5, <1>6, <1>7, Zenon

\* Past a statement that is not a sync all.
LEMMA OnwardStep ==
  ASSUME NEW v, NEW m, NEW op, At(v, m, op), op # "sync all", op = "exit" => v.ok
  PROVE  Onward(v, m) = Onward(v, m + 1)
<1>1. PICK l : l = TraceAt(v)
  OBVIOUS
<1>2. l[m + 1] = op /\ Stands(l, m, op) /\ m \in Nat
  BY <1>1, AtPart, Zenon
<1>3. NextSync(l, m) = NextSync(l, m + 1) /\ ~(m + 2 <= Len(l) /\ l[m + 2] = "exit")
  BY <1>2, NextSyncOver, Zenon
<1>4. (m + 1) + 1 = m + 2
  BY <1>2, Ahead, Zenon
<1>5. ~Exits(v, m) /\ ~Exits(v, m + 1)
  BY <1>1, <1>2, <1>3, <1>4, Zenon DEF Exits
<1> QED BY <1>1, <1>3, <1>5, Zenon DEF Onward

\* An image right before a sync all is on the way to it.
LEMMA OnwardSync ==
  ASSUME NEW v, NEW m, At(v, m, "sync all")
  PROVE  Onward(v, m) = PlaceOf(v, m + 1)
<1>1. PICK l : l = TraceAt(v)
  OBVIOUS
<1>2. l[m + 1] = "sync all" /\ m + 1 <= Len(l) /\ m \in Nat
  BY <1>1, AtPart, Zenon
<1>3. NextSync(l, m) = m + 1
  BY <1>2, NextSyncHere, Zenon
<1>4. "exit" # "sync all"
  OBVIOUS
<1>5. ~Exits(v, m)
  BY <1>1, <1>2, <1>4, Zenon DEF Exits
<1> QED BY <1>1, <1>2, <1>3, <1>5, Ahead, Zenon DEF Onward

\* Before a statement that a sync all follows.
LEMMA OnwardSingle ==
  ASSUME NEW v, NEW m, NEW op, At(v, m, op), op \in Single
  PROVE  /\ Onward(v, m) = PlaceOf(v, m + 2) /\ Onward(v, m + 1) = PlaceOf(v, m + 2)
         /\ Prior(v.build, PlaceOf(v, m + 2)) = op
<1>0. op # "sync all" /\ op # "exit" /\ "exit" # "sync all"
  BY DEF Single
<1>1. PICK l : l = TraceAt(v)
  OBVIOUS
<1>2. /\ l[m + 1] = op /\ Stands(l, m, op) /\ Len(l) \in Nat /\ m \in Nat
      /\ InPart(v) /\ v.section # "done"
  BY <1>0, <1>1, AtPart, Zenon
<1>3. m + 2 <= Len(l) /\ l[m + 2] = "sync all" /\ NextSync(l, m) = m + 2
  BY <1>2, NextSyncOver, Zenon
<1>4. Onward(v, m) = Onward(v, m + 1)
  BY <1>0, OnwardStep, Zenon
<1>5. At(v, m + 1, "sync all")
  BY <1>1, <1>2, <1>3, Before, Ahead, Zenon DEF At
<1>6. Onward(v, m + 1) = PlaceOf(v, m + 2)
  <2>1. (m + 1) + 1 = m + 2
    BY <1>2, Ahead, Zenon
  <2> QED BY <1>5, <2>1, OnwardSync, Zenon
<1>7. PICK g : g = PlaceOf(v, m + 2)
  OBVIOUS
<1>8. g.call = v.call /\ g.section = v.section /\ g.at = m + 2
  BY <1>7, PlaceOfFields
<1>9. Prior(v.build, g) = op
  <2>1. Trace(CallAt(v), v.section) = l
    BY <1>1, <1>2, SteadyAt, Zenon
  <2>2. ~(g.at < 2) /\ g.at - 1 = m + 1 /\ g.section # "done"
    BY <1>2, <1>8, Ahead, Zenon
  <2> QED BY <1>2, <1>8, <2>1, <2>2, Zenon DEF Prior, CallAt
<1> QED BY <1>4, <1>6, <1>7, <1>9, Zenon

\* At the end of a part.
LEMMA OnwardEnd ==
  ASSUME NEW v, InPart(v)
  PROVE  Onward(v, Len(TraceAt(v))) = AfterPart(v)
<1>1. PICK l : l = TraceAt(v)
  OBVIOUS
<1>2. PICK m \in Nat : m = Len(l) /\ m <= m
  BY <1>1, SteadyAt
<1>4. NextSync(l, m) = 0 /\ ~(m + 1 <= Len(l))
  BY <1>2, NextSyncEnd, Before, Zenon
<1>5. ~Exits(v, m)
  BY <1>1, <1>4, Zenon DEF Exits
<1> QED BY <1>1, <1>2, <1>4, <1>5, Zenon DEF Onward

\* At its beginning.
LEMMA OnwardBegin ==
  ASSUME NEW v, InPart(v), Len(TraceAt(v)) # 0
  PROVE  Onward(v, 0) = PlaceOf(v, First(CallAt(v), v.section))
<1>1. PICK l : l = TraceAt(v)
  OBVIOUS
<1>2. Steady(l) /\ l = Trace(CallAt(v), v.section) /\ Len(l) # 0
  BY <1>1, SteadyAt, Zenon
<1>3. 1 # 0 /\ 2 # 0 /\ "exit" \notin Single /\ "exit" # "sync all"
  BY DEF Single
<1>4. l[0 + 1] # "exit" /\ NextSync(l, 0) # 0
  BY <1>2, <1>3, Sums, NextSyncFirst, Zenon
<1>5. First(CallAt(v), v.section) = NextSync(l, 0)
  BY <1>2, Zenon DEF First
<1>6. ~Exits(v, 0)
  BY <1>1, <1>4, Zenon DEF Exits
<1> QED BY <1>1, <1>4, <1>5, <1>6, Zenon DEF Onward

-----------------------------------------------------------------------------
(***************************************************************************)
(* From one part to another.                                               *)
(***************************************************************************)
\* w is v further on, in another part of the same call.
Further(v, w, part, sh, n, i) ==
  /\ w.build = v.build /\ w.until = v.until /\ w.call = v.call
  /\ w.section = part /\ w.shape = sh /\ w.nrep = n /\ w.irep = i
  /\ w.ok = v.ok /\ w.time = v.time

\* v returns: to the driver, that makes the next call or is done.
Returned(v, w) ==
  /\ w.build = v.build /\ w.until = v.until /\ w.call = v.call + 1
  /\ w.section = (IF v.call = v.until THEN "done" ELSE "open")
  /\ w.shape = NoShape /\ w.nrep = 1 /\ w.irep = 0
  /\ w.ok = v.ok /\ w.time = v.time

\* The loops: what follows when a part is over.
Continues(v, w) ==
  \/ v.section = "open" /\ Further(v, w, "resize", FirstOf(CallAt(v)), v.nrep, 0)
  \/ v.section = "resize" /\ Further(v, w, "trial", v.shape, v.nrep, 0)
  \/ v.section = "trial" /\ 0 < v.nrep /\ Further(v, w, "body", v.shape, v.nrep, 1)
  \/ v.section = "body" /\ v.irep < v.nrep /\ Further(v, w, "body", v.shape, v.nrep, v.irep + 1)
  \/ v.section = "body" /\ ~(v.irep < v.nrep) /\ Further(v, w, "close", v.shape, v.nrep, v.irep)
  \/ v.section = "close" /\ Settled(v) /\ Further(v, w, "report", v.shape, Adjusted(v), v.irep)
  \/ v.section = "close" /\ ~Settled(v) /\ Further(v, w, "trial", v.shape, Adjusted(v), 0)
  \/ v.section = "report" /\ Over(v) /\ Further(v, w, "end", v.shape, v.nrep, v.irep)
  \/ /\ v.section = "report" /\ ~Over(v)
     /\ Further(v, w, "resize", NextShape(CallAt(v), v.shape), v.nrep, 0)
  \/ v.section = "end" /\ Returned(v, w)

\* Such a view is in the call it was in.
LEMMA FurtherIn ==
  ASSUME NEW v, NEW w, NEW part, NEW sh, NEW n, NEW i, InPart(v), part \in Parts,
         Further(v, w, part, sh, n, i)
  PROVE  /\ InPart(w) /\ CallAt(w) = CallAt(v) /\ TraceAt(w) = Trace(CallAt(v), part)
         /\ w.section = part /\ w.call = v.call /\ w.shape = sh /\ w.nrep = n /\ w.irep = i
<1> QED BY SteadyAt DEF Further, InPart, CallAt, TraceAt, Parts, Over

\* Into a part that synchronises, at its first sync all.
LEMMA EntersPart ==
  ASSUME NEW v, NEW w, NEW part, NEW sh, NEW n, NEW i, InPart(v), part \in Parts,
         Further(v, w, part, sh, n, i), Len(Trace(CallAt(v), part)) # 0
  PROVE  Onward(w, 0) = PlaceOf(w, First(CallAt(v), part))
BY FurtherIn, OnwardBegin

\* Into one that does not.
LEMMA PassesPart ==
  ASSUME NEW v, NEW w, NEW part, NEW sh, NEW n, NEW i, InPart(v), part \in Parts,
         Further(v, w, part, sh, n, i), Len(Trace(CallAt(v), part)) = 0
  PROVE  Onward(w, 0) = AfterPart(w)
<1>1. InPart(w) /\ Len(TraceAt(w)) = 0
  BY FurtherIn
<1> QED BY <1>1, OnwardEnd

\* Which parts have a sync all at all, and where the first one is.
LEMMA FirstAre ==
  ASSUME NEW c
  PROVE  /\ First(c, "close") = 1 /\ First(c, "end") = 1
         /\ Resizes(c) => First(c, "resize") = 1
         /\ Len(Trace(c, "close")) # 0 /\ Len(Trace(c, "end")) # 0 /\ Len(Trace(c, "trial")) # 0
         /\ Len(Trace(c, "open")) # 0 /\ Len(Trace(c, "report")) = 0
         /\ Resizes(c) => Len(Trace(c, "resize")) # 0
         /\ ~Resizes(c) => Len(Trace(c, "resize")) = 0
<1>1. 0 + 1 = 1 /\ 1 <= 1 /\ 1 <= 2 /\ 1 <= 5
  OBVIOUS
<1>2. Len(Trace(c, "close")) = 5 /\ Trace(c, "close")[1] = "sync all"
  BY CloseTrace
<1>3. /\ Len(Trace(c, "end")) = 1 /\ Trace(c, "end")[1] = "sync all"
      /\ Len(Trace(c, "report")) = 0
  BY EndTrace
<1>4. First(c, "close") = 1 /\ First(c, "end") = 1
  BY <1>1, <1>2, <1>3, NextSyncHere, Zenon DEF First
<1>5. Resizes(c) => Len(Trace(c, "resize")) = 2 /\ Trace(c, "resize")[1] = "sync all"
  BY ResizeTrace
<1>6. ~Resizes(c) => Len(Trace(c, "resize")) = 0
  BY ResizeTrace
<1>7. Resizes(c) => First(c, "resize") = 1
  BY <1>1, <1>5, NextSyncHere, Zenon DEF First
<1>8. Len(Trace(c, "open")) # 0 /\ Len(Trace(c, "trial")) # 0
  <2>1. 1 # 0 /\ 2 # 0 /\ 3 # 0
    OBVIOUS
  <2> QED BY <2>1, HaloTrace, PingPongTrace, Zenon
<1>9. 1 # 0 /\ 2 # 0 /\ 5 # 0
  OBVIOUS
<1> QED BY <1>2, <1>3, <1>4, <1>5, <1>6, <1>7, <1>8, <1>9, Zenon

\* The next sync all is what follows the part.
LEMMA OnwardNext ==
  ASSUME NEW v, NEW w, InPart(v), Continues(v, w)
  PROVE  Onward(w, 0) = AfterPart(v)
<1> DEFINE c == CallAt(v)
<1>0. /\ "open" \in Parts /\ "resize" \in Parts /\ "trial" \in Parts /\ "body" \in Parts
      /\ "close" \in Parts /\ "report" \in Parts /\ "end" \in Parts
  BY DEF Parts
\* Where a trial, a pattern, the body and the end of the trial loop begin.
<1>1. ASSUME NEW sh, NEW n, NEW i, Further(v, w, "trial", sh, n, 0)
      PROVE  Onward(w, 0) = ToTrial(v, sh, n)
  <2>1. Onward(w, 0) = PlaceOf(w, First(c, "trial"))
    BY <1>0, <1>1, EntersPart, FirstAre
  <2> QED BY <1>1, <2>1 DEF PlaceOf, ToTrial, Further
<1>2. ASSUME NEW sh, NEW n, Further(v, w, "resize", sh, n, 0)
      PROVE  Onward(w, 0) = ToShape(v, sh, n)
  <2>1. CASE Resizes(c)
    <3>1. Onward(w, 0) = PlaceOf(w, 1)
      BY <1>0, <1>2, <2>1, EntersPart, FirstAre
    <3> QED BY <1>2, <2>1, <3>1 DEF PlaceOf, ToShape, Further
  <2>2. CASE ~Resizes(c)
    <3>1. Onward(w, 0) = AfterPart(w)
      BY <1>0, <1>2, <2>2, PassesPart, FirstAre
    <3>2. AfterPart(w) = ToTrial(w, sh, n)
      BY <1>2 DEF AfterPart, Further
    <3>3. ToTrial(w, sh, n) = ToTrial(v, sh, n)
      BY <1>2 DEF ToTrial, Further, CallAt
    <3> QED BY <2>2, <3>1, <3>2, <3>3 DEF ToShape
  <2> QED BY <2>1, <2>2
<1>3. ASSUME NEW i, Further(v, w, "close", v.shape, v.nrep, i)
      PROVE  Onward(w, 0) = ToClose(v)
  <2>1. Onward(w, 0) = PlaceOf(w, 1)
    BY <1>0, <1>3, EntersPart, FirstAre
  <2> QED BY <1>3, <2>1 DEF PlaceOf, ToClose, Further
<1>4. ASSUME NEW i, i < v.nrep, Further(v, w, "body", v.shape, v.nrep, i + 1)
      PROVE  Onward(w, 0) = ToBody(v, i)
  <2>0. Trace(c, "body") = BodyTrace(c)
    BY EndTrace
  <2>1. CASE Len(BodyTrace(c)) # 0
    <3>1. Onward(w, 0) = PlaceOf(w, First(c, "body"))
      BY <1>0, <1>4, <2>0, <2>1, EntersPart
    <3> QED BY <1>4, <2>1, <3>1 DEF PlaceOf, ToBody, Further
  <2>2. CASE Len(BodyTrace(c)) = 0
    <3>1. Onward(w, 0) = AfterPart(w)
      BY <1>0, <1>4, <2>0, <2>2, PassesPart
    <3>2. AfterPart(w) = ToBody(w, i + 1)
      BY <1>4 DEF AfterPart, Further
    <3>3. ToBody(w, i + 1) = ToClose(w)
      BY <1>4, <2>2 DEF ToBody, Further, CallAt
    <3>4. ToClose(w) = ToClose(v)
      BY <1>4 DEF ToClose, Further
    <3> QED BY <2>2, <3>1, <3>2, <3>3, <3>4 DEF ToBody
  <2> QED BY <2>1, <2>2
<1>5. ASSUME NEW n, NEW i, Further(v, w, "report", v.shape, n, i)
      PROVE  Onward(w, 0) = AfterReport(v, n)
  <2>1. Onward(w, 0) = AfterPart(w)
    BY <1>0, <1>5, PassesPart, FirstAre
  <2>2. AfterPart(w) = AfterReport(w, n)
    BY <1>5 DEF AfterPart, Further
  <2>3. CallAt(w) = c /\ (Over(w) <=> Over(v)) /\ w.call = v.call /\ w.shape = v.shape
    BY <1>5 DEF Over, Further, CallAt
  <2>4. AfterReport(w, n) = AfterReport(v, n)
    BY <2>3 DEF AfterReport, ToShape, ToTrial
  <2> QED BY <2>1, <2>2, <2>4
<1>6. ASSUME NEW n, NEW i, Further(v, w, "end", v.shape, n, i)
      PROVE  Onward(w, 0) = Place(v.call, "end", NoShape, 1, 0, 1)
  <2>1. Onward(w, 0) = PlaceOf(w, 1)
    BY <1>0, <1>6, EntersPart, FirstAre
  <2> QED BY <1>6, <2>1 DEF PlaceOf, Further
<1>7. ASSUME Returned(v, w)
      PROVE  Onward(w, 0) = ToOpen(v, v.call + 1)
  <2>0. /\ v.build \in Builds /\ v.until \in Nat /\ v.until <= Len(Calls[v.build])
        /\ v.call \in 1 .. v.until
    BY DEF InPart
  <2>1. CASE v.call = v.until
    <3>1. w.section = "done" /\ TraceAt(w) = <<>> /\ w.call = v.call + 1
      BY <1>7, <2>1 DEF Returned, TraceAt
    <3>2. Onward(w, 0) = AfterPart(w)
      <4>1. Len(<<>>) = 0 /\ 0 \in Nat /\ 0 <= 0 /\ ~(0 + 1 <= 0)
        OBVIOUS
      <4>2. NextSync(TraceAt(w), 0) = 0
        BY <3>1, <4>1, NextSyncEnd, Zenon
      <4>3. ~Exits(w, 0)
        BY <3>1, <4>1, Zenon DEF Exits
      <4> QED BY <4>2, <4>3, Zenon DEF Onward
    <3>3. AfterPart(w) = Place(v.call + 1, "done", NoShape, 1, 0, 0)
      BY <3>1 DEF AfterPart
    <3>4. v.call + 1 > v.until
      BY <2>0, <2>1
    <3> QED BY <3>2, <3>3, <3>4, Zenon DEF ToOpen
  <2>2. CASE v.call # v.until
    <3>1. ~(v.call + 1 > v.until) /\ v.call + 1 \in 1 .. v.until
      BY <2>0, <2>2
    <3>2. InPart(w) /\ w.section = "open" /\ w.call = v.call + 1 /\ w.build = v.build
      BY <1>0, <1>7, <2>0, <2>2, <3>1 DEF Returned, InPart
    <3>3. Len(TraceAt(w)) # 0
      <4>1. TraceAt(w) = Trace(CallAt(w), "open")
        BY <3>2, SteadyAt
      <4> QED BY <4>1, FirstAre
    <3>4. Onward(w, 0) = PlaceOf(w, First(CallAt(w), "open"))
      BY <3>2, <3>3, OnwardBegin
    <3>5. PlaceOf(w, First(CallAt(w), "open"))
            = Place(v.call + 1, "open", NoShape, 1, 0, First(Calls[v.build][v.call + 1], "open"))
      BY <3>2 DEF PlaceOf, CallAt
    <3> QED BY <3>1, <3>4, <3>5, Zenon DEF ToOpen
  <2> QED BY <2>1, <2>2
<1>8. CASE v.section = "open" /\ Further(v, w, "resize", FirstOf(CallAt(v)), v.nrep, 0)
  BY <1>2, <1>8 DEF AfterPart
<1>9. CASE v.section = "resize" /\ Further(v, w, "trial", v.shape, v.nrep, 0)
  BY <1>1, <1>9 DEF AfterPart
<1>10. CASE v.section = "trial" /\ 0 < v.nrep /\ Further(v, w, "body", v.shape, v.nrep, 1)
  <2>1. 0 + 1 = 1
    OBVIOUS
  <2>2. Onward(w, 0) = ToBody(v, 0)
    BY <1>4, <1>10, <2>1, Zenon
  <2> QED BY <1>10, <2>2 DEF AfterPart
<1>11. CASE /\ v.section = "body" /\ v.irep < v.nrep
            /\ Further(v, w, "body", v.shape, v.nrep, v.irep + 1)
  BY <1>4, <1>11 DEF AfterPart
<1>12. CASE /\ v.section = "body" /\ ~(v.irep < v.nrep)
            /\ Further(v, w, "close", v.shape, v.nrep, v.irep)
  BY <1>3, <1>12 DEF AfterPart, ToBody
<1>13. CASE /\ v.section = "close" /\ Settled(v)
            /\ Further(v, w, "report", v.shape, Adjusted(v), v.irep)
  BY <1>5, <1>13 DEF AfterPart, AfterClose
<1>14. CASE v.section = "close" /\ ~Settled(v) /\ Further(v, w, "trial", v.shape, Adjusted(v), 0)
  BY <1>1, <1>14 DEF AfterPart, AfterClose
<1>15. CASE v.section = "report" /\ Over(v) /\ Further(v, w, "end", v.shape, v.nrep, v.irep)
  BY <1>6, <1>15 DEF AfterPart, AfterReport
<1>16. CASE /\ v.section = "report" /\ ~Over(v)
            /\ Further(v, w, "resize", NextShape(CallAt(v), v.shape), v.nrep, 0)
  BY <1>2, <1>16 DEF AfterPart, AfterReport
<1>17. CASE v.section = "end" /\ Returned(v, w)
  BY <1>7, <1>17 DEF AfterPart
<1> QED BY <1>8, <1>9, <1>10, <1>11, <1>12, <1>13, <1>14, <1>15, <1>16, <1>17 DEF Continues

\* The exit from the loop when verification has failed.
LEMMA OnwardExit ==
  ASSUME NEW v, NEW m, NEW w, At(v, m, "exit"), ~v.ok,
         Further(v, w, "close", v.shape, v.nrep, v.irep)
  PROVE  Onward(v, m) = ToClose(v) /\ Onward(w, 0) = ToClose(v)
<1>1. Onward(v, m) = ToClose(v)
  BY AtPart, Zenon DEF Onward, Exits
<1>2. "close" \in Parts /\ InPart(v)
  BY DEF Parts, At
<1>3. Onward(w, 0) = PlaceOf(w, 1)
  BY <1>2, EntersPart, FirstAre
<1>4. PlaceOf(w, 1) = ToClose(v)
  BY DEF PlaceOf, ToClose, Further
<1> QED BY <1>1, <1>3, <1>4

\* Where an image goes at the end of a part.
Inner(g, v) ==
  /\ g.section = "body" \/ (g.section = "close" /\ g.at = 1)
  /\ g.call = v.call /\ g.shape = v.shape /\ g.nrep = v.nrep

Outer(g) == g.section # "body" /\ g.section # "close"

\* From the beginning of a trial and from the body the loop goes on; from the
\* other parts it does not.
LEMMA AfterPartWhere ==
  ASSUME NEW v, NEW g, InPart(v), g = AfterPart(v)
  PROVE  /\ v.section \in {"trial", "body"} => Inner(g, v)
         /\ v.section \notin {"trial", "body"} => Outer(g)
         /\ v.section # "body" => g.section # v.section
<1>0. /\ Outer(ToTrial(v, v.shape, v.nrep)) /\ ToTrial(v, v.shape, v.nrep).section = "trial"
      /\ \A sh, n : ToTrial(v, sh, n).section = "trial"
      /\ \A sh, n : ToShape(v, sh, n).section \in {"resize", "trial"}
      /\ ToOpen(v, v.call + 1).section \in {"open", "done"}
  BY DEF ToTrial, ToShape, ToOpen, Place, Outer
<1>1. \A n : AfterReport(v, n).section \in {"end", "resize", "trial"}
  BY <1>0 DEF AfterReport, Place
<1>2. AfterClose(v).section \in {"end", "resize", "trial"}
  BY <1>0, <1>1 DEF AfterClose
<1>3. \A i : Inner(ToBody(v, i), v)
  BY DEF ToBody, ToClose, Place, Inner
<1>4. CASE v.section = "trial"
  BY <1>3, <1>4 DEF AfterPart, ToBody, ToClose, Place
<1>5. CASE v.section = "body"
  BY <1>3, <1>5 DEF AfterPart
<1>6. CASE v.section = "open"
  BY <1>0, <1>6 DEF AfterPart, Outer
<1>7. CASE v.section = "resize"
  BY <1>0, <1>7 DEF AfterPart, Outer
<1>8. CASE v.section = "close"
  BY <1>2, <1>8 DEF AfterPart, Outer
<1>9. CASE v.section = "report"
  BY <1>1, <1>9 DEF AfterPart, Outer
<1>10. CASE v.section = "end"
  BY <1>0, <1>10 DEF AfterPart, Outer
<1> QED BY <1>4, <1>5, <1>6, <1>7, <1>8, <1>9, <1>10 DEF InPart, Parts

\* The next sync all is in this part or behind it.
LEMMA OnwardWhere ==
  ASSUME NEW v, NEW m, NEW g, g = Onward(v, m)
  PROVE  \/ g = ToClose(v) /\ Exits(v, m)
         \/ g = PlaceOf(v, NextSync(TraceAt(v), m)) /\ NextSync(TraceAt(v), m) # 0
         \/ g = AfterPart(v) /\ NextSync(TraceAt(v), m) = 0
BY Zenon DEF Onward

\* An exit is in the body.
LEMMA OpsAt ==
  ASSUME NEW v, NEW m, NEW op, At(v, m, op)
  PROVE  PlacedIn(op, v.section, m + 1)
<1>1. InPart(v) /\ m \in Nat /\ TraceAt(v)[m + 1] = op /\ m < Len(TraceAt(v))
  BY DEF At
<1>2. TraceAt(v) = Trace(CallAt(v), v.section) /\ Len(TraceAt(v)) \in Nat
  BY <1>1, SteadyAt
<1>3. m + 1 \in 1 .. Len(TraceAt(v))
  BY <1>1, <1>2, Before, Zenon
<1>4. IsCall(CallAt(v), v.build) /\ v.section \in Parts
  BY <1>1, CallIs DEF InPart
<1> QED BY <1>1, <1>2, <1>3, <1>4, TracePlaces

\* Only the body is left early.
LEMMA ExitsInBody ==
  ASSUME NEW v, NEW m \in Nat, InPart(v), Exits(v, m)
  PROVE  v.section = "body"
<1>1. m + 1 <= Len(TraceAt(v)) /\ TraceAt(v)[m + 1] = "exit"
  BY DEF Exits
<1>2. m < Len(TraceAt(v))
  <2>1. Len(TraceAt(v)) \in Nat
    BY SteadyAt
  <2> QED BY <1>1, <2>1
<1>3. At(v, m, "exit")
  BY <1>1, <1>2, Zenon DEF At
<1> QED BY <1>3, OpsAt DEF PlacedIn

\* The body leads to its sync all or to the end of the loop, and with the
\* beginning of a trial it is the only part that does.
LEMMA OnwardInner ==
  ASSUME NEW v, NEW m \in Nat, NEW g, InPart(v), g = Onward(v, m)
  PROVE  /\ v.section = "body" => Inner(g, v)
         /\ v.section = "trial" => Inner(g, v) \/ g.section = "trial"
         /\ v.section \notin {"trial", "body", "close"} => Outer(g)
         /\ g.section \in {"body", "close"} => g.call = v.call
<1>1. CASE g = ToClose(v) /\ Exits(v, m)
  <2>1. v.section = "body"
    BY <1>1, ExitsInBody
  <2> QED BY <1>1, <2>1 DEF ToClose, Place, Inner
<1>2. CASE g = PlaceOf(v, NextSync(TraceAt(v), m))
  BY <1>2, PlaceOfFields DEF Inner, Outer
<1>3. CASE g = AfterPart(v)
  BY <1>3, AfterPartWhere DEF Inner, Outer
<1> QED BY <1>1, <1>2, <1>3, OnwardWhere

\* A trial begins with a sync all, and then reads the clock.
LEMMA OnwardTrial ==
  ASSUME NEW v, NEW m \in Nat, NEW g, InPart(v), v.section = "trial", g = Onward(v, m)
  PROVE  IF m + 1 < Len(TraceAt(v)) THEN g.section = "trial" ELSE Inner(g, v)
<1>1. PICK t : t = TraceAt(v)
  OBVIOUS
<1>2. t = Trace(CallAt(v), "trial")
  BY <1>1, SteadyAt
<1>3. \/ Len(t) = 3 /\ t[1] = "reset checks" /\ t[2] = "sync all" /\ t[3] = "start timer"
      \/ Len(t) = 2 /\ t[1] = "sync all" /\ t[2] = "start timer"
  BY <1>2, HaloTrace, PingPongTrace, Zenon
<1>4. ~Exits(v, m)
  <2>1. "trial" # "body"
    OBVIOUS
  <2> QED BY <2>1, ExitsInBody
<1>5. ASSUME m + 1 < Len(t) PROVE NextSync(t, m) # 0
  <2>1. (m = 0 \/ m = 1) /\ (Len(t) = 2 => m = 0)
    <3>1. (m + 1 < 3 => m = 0 \/ m = 1) /\ (m + 1 < 2 => m = 0) /\ 2 # 3
      OBVIOUS
    <3> QED BY <1>3, <1>5, <3>1, Zenon
  <2>2. 1 <= 2 /\ 2 <= 3 /\ 1 # 0 /\ 2 # 0
    OBVIOUS
  <2>3. CASE Len(t) = 2 /\ t[1] = "sync all"
    <3>1. m = 0
      BY <2>1, <2>3
    <3>2. 0 + 1 <= Len(t) /\ t[0 + 1] = "sync all"
      BY <2>2, <2>3, Sums
    <3>3. NextSync(t, 0) = 1
      BY <3>2, NextSyncHere, Sums
    <3> QED BY <2>2, <3>1, <3>3
  <2>4. CASE Len(t) = 3 /\ t[1] = "reset checks" /\ t[2] = "sync all" /\ m = 0
    <3>1. t[1] # "sync all"
      BY <2>4
    <3>2. NextSync(t, 0) = 2
      BY <2>2, <2>4, <3>1, Sums, Zenon DEF NextSync
    <3> QED BY <2>2, <2>4, <3>2, Zenon
  <2>5. CASE Len(t) = 3 /\ t[2] = "sync all" /\ m = 1
    <3>1. 1 + 1 <= Len(t) /\ t[1 + 1] = "sync all"
      BY <2>2, <2>5, Sums
    <3>2. NextSync(t, 1) = 2
      BY <3>1, NextSyncHere, Sums
    <3> QED BY <2>2, <2>5, <3>2
  <2> QED BY <1>3, <2>1, <2>3, <2>4, <2>5
<1>6. ASSUME ~(m + 1 < Len(t)) PROVE NextSync(t, m) = 0
  <2>1. PICK l \in Nat : l = Len(t)
    BY <1>3
  <2>2. t[l] # "sync all"
    BY <1>3, <2>1
  <2>3. ~(m + 2 <= l) /\ ~(m + 3 <= l) /\ (m + 1 <= l => m + 1 = l)
    BY <1>6, <2>1
  <2> QED BY <2>1, <2>2, <2>3, Zenon DEF NextSync
<1>7. CASE m + 1 < Len(t)
  <2>1. g = PlaceOf(v, NextSync(t, m))
    BY <1>1, <1>4, <1>5, <1>7, OnwardWhere
  <2>2. g.section = "trial"
    BY <2>1, PlaceOfFields
  <2> QED BY <1>1, <1>7, <2>2
<1>8. CASE ~(m + 1 < Len(t))
  <2>1. g = AfterPart(v)
    BY <1>1, <1>4, <1>6, <1>8, OnwardWhere
  <2>2. Inner(g, v)
    BY <2>1, AfterPartWhere
  <2> QED BY <1>1, <1>8, <2>2
<1> QED BY <1>7, <1>8

\* The end of a trial has three.
ClosingPlace(m) == IF m = 0 THEN 1 ELSE IF m \in {1, 2} THEN 3 ELSE 5

\* From where in the end of a trial images go to which of these; from behind
\* the last one to another part.
LEMMA OnwardClose ==
  ASSUME NEW v, NEW m \in 0 .. 5, NEW g, InPart(v), v.section = "close", g = Onward(v, m)
  PROVE  /\ m # 5 => g = PlaceOf(v, ClosingPlace(m)) /\ g.section = "close" /\ g.at = ClosingPlace(m)
         /\ m = 5 => Outer(g)
<1>1. PICK t : t = TraceAt(v)
  OBVIOUS
<1>2. t = Trace(CallAt(v), "close")
  BY <1>1, SteadyAt
<1>3. /\ Len(t) = 5 /\ t[1] = "sync all" /\ t[2] # "sync all" /\ t[3] = "sync all"
      /\ t[4] # "sync all" /\ t[5] = "sync all"
  <2>1. /\ Len(t) = 5 /\ t[1] = "sync all" /\ t[2] = "stop timer" /\ t[3] = "sync all"
        /\ t[4] = "learn" /\ t[5] = "sync all"
    BY <1>2, CloseTrace
  <2>2. "stop timer" # "sync all" /\ "learn" # "sync all"
    OBVIOUS
  <2> QED BY <2>1, <2>2, Zenon
<1>4. ~Exits(v, m)
  <2>1. "close" # "body" /\ m \in Nat
    OBVIOUS
  <2> QED BY <2>1, ExitsInBody
<1>5. /\ NextSync(t, 0) = 1 /\ NextSync(t, 1) = 3 /\ NextSync(t, 2) = 3
      /\ NextSync(t, 3) = 5 /\ NextSync(t, 4) = 5 /\ NextSync(t, 5) = 0
  <2>1. /\ 1 <= 5 /\ 2 <= 5 /\ 3 <= 5 /\ 4 <= 5 /\ 5 <= 5 /\ ~(6 <= 5) /\ ~(7 <= 5) /\ ~(8 <= 5)
        /\ 3 + 1 = 4 /\ 3 + 2 = 5 /\ 4 + 1 = 5
    OBVIOUS
  <2>a. NextSync(t, 0) = 1
    BY <1>3, <2>1, Sums, Zenon DEF NextSync
  <2>b. NextSync(t, 2) = 3
    BY <1>3, <2>1, Sums, Zenon DEF NextSync
  <2>c. NextSync(t, 4) = 5
    BY <1>3, <2>1, Sums, Zenon DEF NextSync
  <2>2. NextSync(t, 0) = 1 /\ NextSync(t, 2) = 3 /\ NextSync(t, 4) = 5
    BY <2>a, <2>b, <2>c
  <2>3. NextSync(t, 1) = 3
    BY <1>3, <2>1, Sums, Zenon DEF NextSync
  <2>4. NextSync(t, 3) = 5
    BY <1>3, <2>1, Sums, Zenon DEF NextSync
  <2>5. NextSync(t, 5) = 0
    BY <1>3, <2>1, Sums, Zenon DEF NextSync
  <2> QED BY <2>2, <2>3, <2>4, <2>5
<1>6. m = 0 \/ m = 1 \/ m = 2 \/ m = 3 \/ m = 4 \/ m = 5
  OBVIOUS
<1>7. CASE m # 5
  <2>1. NextSync(t, m) = ClosingPlace(m) /\ ClosingPlace(m) # 0
    BY <1>5, <1>6, <1>7 DEF ClosingPlace
  <2>2. g = PlaceOf(v, ClosingPlace(m))
    BY <1>1, <1>4, <2>1, OnwardWhere
  <2>3. g.section = "close" /\ g.at = ClosingPlace(m)
    BY <2>2, PlaceOfFields
  <2> QED BY <1>7, <2>2, <2>3
<1>8. CASE m = 5
  <2>1. g = AfterPart(v)
    BY <1>1, <1>4, <1>5, <1>8, OnwardWhere
  <2>2. Outer(g)
    <3>1. v.section \notin {"trial", "body"}
      OBVIOUS
    <3> QED BY <2>1, <3>1, AfterPartWhere
  <2> QED BY <1>8, <2>2
<1> QED BY <1>7, <1>8

\* Images at the same sync all, with the same verdict, go on to the same one.
\* The time matters behind the last one of a trial.
Alike(v, w, m) ==
  /\ InPart(v) /\ InPart(w) /\ v.build = w.build /\ v.until = w.until
  /\ v.ok = w.ok
  /\ v.section = "close" /\ m >= 4 => v.time = w.time
  /\ v.section = "open" => v.nrep = 1 /\ w.nrep = 1

\* Images at the same sync all are at the same place of the same part.
LEMMA SamePlace ==
  ASSUME NEW v, NEW w, NEW m \in Nat, NEW n \in Nat, PlaceOf(v, m + 1) = PlaceOf(w, n + 1)
  PROVE  /\ v.call = w.call /\ v.section = w.section /\ m = n
         /\ v.section \notin {"open", "end"} => v.shape = w.shape /\ v.nrep = w.nrep
         /\ v.section = "body" => v.irep = w.irep
<1>1. PICK g : g = PlaceOf(v, m + 1) /\ g = PlaceOf(w, n + 1)
  OBVIOUS
<1>2. g.at = m + 1 /\ g.at = n + 1
  BY <1>1, PlaceOfFields
<1>3. m = n
  BY <1>2
<1> QED BY <1>1, <1>3, PlaceOfFields

\* If they decide alike, they go on to the same one.
LEMMA OnwardAlike ==
  ASSUME NEW v, NEW w, NEW m \in Nat, NEW n \in Nat, PlaceOf(v, m + 1) = PlaceOf(w, n + 1),
         Alike(v, w, m)
  PROVE  Onward(v, m + 1) = Onward(w, n + 1)
<1>1. /\ v.call = w.call /\ v.section = w.section /\ m = n
      /\ v.section \notin {"open", "end"} => v.shape = w.shape /\ v.nrep = w.nrep
      /\ v.section = "body" => v.irep = w.irep
  BY SamePlace
<1>2. CallAt(v) = CallAt(w) /\ TraceAt(v) = TraceAt(w)
  BY <1>1 DEF Alike, CallAt, TraceAt
<1>3. Exits(v, m + 1) <=> Exits(w, n + 1)
  BY <1>1, <1>2 DEF Exits, Alike
<1>4. CASE Exits(v, m + 1)
  <2>1. v.section = "body"
    <3>1. m + 1 \in Nat
      OBVIOUS
    <3> QED BY <1>4, <3>1, ExitsInBody DEF Alike
  <2>2. ToClose(v) = ToClose(w)
    BY <1>1, <2>1 DEF ToClose
  <2> QED BY <1>3, <1>4, <2>2 DEF Onward
<1>5. CASE ~Exits(v, m + 1) /\ NextSync(TraceAt(v), m + 1) # 0
  <2>1. PICK j : j = NextSync(TraceAt(v), m + 1)
    OBVIOUS
  <2>2. PlaceOf(v, j) = PlaceOf(w, j)
    BY <1>1 DEF PlaceOf
  <2> QED BY <1>1, <1>2, <1>3, <1>5, <2>1, <2>2, Zenon DEF Onward
<1>6. CASE ~Exits(v, m + 1) /\ NextSync(TraceAt(v), m + 1) = 0
  <2>1. v.section = "close" => v.time = w.time
    <3>1. ASSUME v.section = "close", ~(m >= 4) PROVE FALSE
      <4>1. m + 1 \in 0 .. 5 /\ m + 1 # 5
        BY <3>1
      <4>2. PICK g : g = Onward(v, m + 1)
        OBVIOUS
      <4>3. g = AfterPart(v)
        BY <1>6, <4>2 DEF Onward
      <4>4. g.section = "close"
        BY <3>1, <4>1, <4>2, OnwardClose DEF Alike
      <4>5. g.section # v.section
        BY <3>1, <4>3, AfterPartWhere DEF Alike
      <4> QED BY <3>1, <4>4, <4>5
    <3> QED BY <3>1 DEF Alike
  <2>2. AfterPart(v) = AfterPart(w)
    <3>0. /\ v.build = w.build /\ v.until = w.until /\ v.ok = w.ok /\ v.call = w.call
          /\ CallAt(v) = CallAt(w) /\ v.section = w.section /\ v.section \in Parts
          /\ v.section = "open" => v.nrep = 1 /\ w.nrep = 1
      BY <1>1, <1>2 DEF Alike, InPart
    <3>1. \A sh, k : ToTrial(v, sh, k) = ToTrial(w, sh, k) /\ ToShape(v, sh, k) = ToShape(w, sh, k)
      BY <3>0 DEF ToTrial, ToShape
    <3>2. CASE v.section = "open"
      BY <3>0, <3>1, <3>2 DEF AfterPart
    <3>3. CASE v.section = "resize"
      BY <1>1, <3>0, <3>1, <3>3 DEF AfterPart
    <3>4. CASE v.section \in {"trial", "body"}
      <4>1. \A i : ToBody(v, i) = ToBody(w, i)
        BY <1>1, <3>0, <3>4 DEF ToBody, ToClose
      <4> QED BY <1>1, <3>0, <3>4, <4>1 DEF AfterPart
    <3>5. CASE v.section \in {"close", "report"}
      <4>1. v.shape = w.shape /\ v.nrep = w.nrep
        BY <1>1, <3>5
      <4>2. \A k : AfterReport(v, k) = AfterReport(w, k)
        BY <3>0, <3>1, <4>1 DEF AfterReport, Over
      <4>3. v.section = "close" => AfterClose(v) = AfterClose(w)
        BY <2>1, <3>0, <3>1, <4>1, <4>2 DEF AfterClose, Settled, Adjusted
      <4>4. CASE v.section = "close"
        BY <3>0, <4>3, <4>4 DEF AfterPart
      <4>5. CASE v.section = "report"
        BY <3>0, <4>1, <4>2, <4>5 DEF AfterPart
      <4> QED BY <3>5, <4>4, <4>5
    <3>6. CASE v.section = "end"
      BY <3>0, <3>6 DEF AfterPart, ToOpen
    <3> QED BY <3>0, <3>2, <3>3, <3>4, <3>5, <3>6 DEF Parts
  <2> QED BY <1>1, <1>2, <1>3, <1>6, <2>2, Zenon DEF Onward
<1> QED BY <1>4, <1>5, <1>6

\* What leads out of a part leads to no sync all that a verdict is set before,
\* unless to another part.
Leads(v, m, g) ==
  /\ InPart(v) /\ g = Onward(v, m) /\ g.section = v.section
  /\ \/ m = Len(TraceAt(v))
     \/ At(v, m, "start timer")
     \/ At(v, m, "exit") /\ v.ok

\* Places counted from a later one.
LEMMA Behinds ==
  ASSUME NEW m \in Nat
  PROVE  /\ (m + 2) - 1 = m + 1 /\ (m + 3) - 1 = m + 2 /\ ~(m + 2 < 2) /\ ~(m + 3 < 2)
         /\ ~(m + 1 <= m)
OBVIOUS

\* Where a view leads out of a part, no verdict is set before the next sync
\* all of the same part.
LEMMA PriorBehind ==
  ASSUME NEW v, NEW m, NEW g, Leads(v, m, g)
  PROVE  Prior(v.build, g) \notin Settings
<1>0. InPart(v) /\ g = Onward(v, m) /\ g.section = v.section
  BY DEF Leads
<1>1. PICK t : t = TraceAt(v) /\ t = Trace(CallAt(v), v.section) /\ Len(t) \in Nat
  BY <1>0, SteadyAt
<1>4. \/ m = Len(t)
      \/ At(v, m, "start timer")
      \/ At(v, m, "exit") /\ v.ok
  BY <1>1 DEF Leads
<1>2. CASE g = AfterPart(v)
  <2>1. v.section = "body"
    BY <1>0, <1>2, AfterPartWhere
  <2>2. g = ToBody(v, v.irep) /\ g.section = "body"
    BY <1>0, <1>2, <2>1 DEF AfterPart
  <2>3. g.call = v.call /\ g.at = First(CallAt(v), "body") /\ Len(BodyTrace(CallAt(v))) # 0
    <3>1. ToClose(v).section # "body"
      BY DEF ToClose, Place
    <3>2. /\ v.irep < v.nrep /\ Len(BodyTrace(CallAt(v))) # 0
          /\ g = Place(v.call, "body", v.shape, v.nrep, v.irep + 1, First(CallAt(v), "body"))
      BY <2>2, <3>1, Zenon DEF ToBody
    <3> QED BY <3>2, PlaceFields
  <2>4. t = BodyTrace(CallAt(v)) /\ Steady(t)
    BY <1>0, <1>1, <2>1, SteadyAt, EndTrace
  <2>5. t[1] \notin Settings
    <3>1. CallAt(v).kind # "halo" \/ CallAt(v).sync \in {"all", "pt2pt"}
      BY <1>0, CallIs DEF IsCall
    <3>2. HasBodyOps(t) /\ 1 \in 1 .. Len(t)
      <4>1. PICK l \in Nat : l = Len(t) /\ l # 0
        BY <1>1, <2>3, <2>4
      <4>2. 1 \in 1 .. l
        BY <4>1
      <4>3. HasBodyOps(t)
        BY <2>4, <3>1, BodyOnly
      <4> QED BY <4>1, <4>2, <4>3
    <3>3. t[1] \in BodyOps /\ t[1] # "tally"
      BY <2>3, <2>4, <3>2, Zenon DEF HasBodyOps
    <3> QED BY <3>3 DEF BodyOps, Settings
  <2>6. g.at = 1 \/ g.at = 2
    BY <2>3, <2>4, <1>1, <2>1, NextSyncFirst DEF First
  <2>7. 1 < 2 /\ ~(2 < 2) /\ 2 - 1 = 1 /\ "" \notin Settings
    <3>1. 1 < 2 /\ ~(2 < 2) /\ 2 - 1 = 1
      OBVIOUS
    <3>2. "" \notin Settings
      BY DEF Settings
    <3> QED BY <3>1, <3>2
  <2>8. CallAt(v) = Calls[v.build][g.call]
    BY <2>3 DEF CallAt
  <2>9. Prior(v.build, g) = IF g.at < 2 THEN "" ELSE t[g.at - 1]
    <3>1. "body" # "done"
      OBVIOUS
    <3> QED BY <1>0, <1>1, <2>1, <2>2, <2>8, <3>1, Zenon DEF Prior
  <2> QED BY <2>5, <2>6, <2>7, <2>9, Zenon
<1>3. CASE g # AfterPart(v)
  <2>1. PICK j : j = NextSync(t, m) /\ j # 0 /\ g = PlaceOf(v, j)
    <3>1. ~Exits(v, m)
      <4>1. CASE m = Len(t)
        <5>1. ~(m + 1 <= Len(t))
          BY <1>1, <4>1, Behinds, Zenon
        <5> QED BY <1>1, <5>1, Zenon DEF Exits
      <4>2. CASE At(v, m, "start timer")
        <5>1. "start timer" # "exit"
          OBVIOUS
        <5> QED BY <4>2, <5>1, AtPart, Zenon DEF Exits
      <4> QED BY <1>4, <4>1, <4>2, Zenon DEF Exits
    <3> QED BY <1>0, <1>1, <1>3, <3>1, OnwardWhere, Zenon
  <2>2. m # Len(t)
    BY <1>0, <1>1, <1>3, OnwardEnd
  <2>3. PICK op : op \in {"start timer", "exit"} /\ At(v, m, op)
    BY <1>4, <2>2
  <2>4. m \in Nat /\ t[m + 1] = op /\ op # "sync all" /\ op \notin Single /\ Stands(t, m, op)
    BY <1>1, <2>3, AtPart DEF Single
  <2>5. \/ j = m + 2 /\ t[m + 1] = op
        \/ j = m + 3 /\ t[m + 2] = "vote"
    <3>1. PICK l \in Nat : l = Len(t)
      BY <1>1
    <3>2. PacedAt(t, m + 1, m + 2, m + 3, l)
      <4>1. m \in 0 .. l - 1
        BY <2>4, <3>1, Before, Zenon DEF Stands
      <4> QED BY <2>4, <3>1, <4>1, Zenon DEF Steady, Paced, Stands
    <3>3. CASE m + 2 <= l /\ t[m + 2] = "sync all"
      BY <2>1, <2>4, <3>1, <3>3, Zenon DEF NextSync
    <3>4. CASE m + 3 <= l /\ t[m + 2] = "vote" /\ t[m + 3] = "sync all"
      <4>1. "vote" # "sync all"
        OBVIOUS
      <4> QED BY <2>1, <2>4, <3>1, <3>4, <4>1, Zenon DEF NextSync
    <3>5. CASE m + 1 = l
      <4>1. ~(m + 2 <= l) /\ ~(m + 3 <= l)
        BY <2>4, <3>1, <3>5, Before, Zenon
      <4>2. NextSync(t, m) = 0
        BY <2>4, <3>1, <4>1, Zenon DEF NextSync
      <4> QED BY <2>1, <4>2
    <3> QED BY <2>4, <3>2, <3>3, <3>4, <3>5, Zenon DEF PacedAt
  <2>6. g.section = v.section /\ g.call = v.call /\ g.at = j
    BY <2>1, PlaceOfFields
  <2>7. t[j - 1] \in {"start timer", "exit", "vote"}
    <3>1. (m + 2) - 1 = m + 1 /\ (m + 3) - 1 = m + 2
      BY <2>4, Behinds, Zenon
    <3> QED BY <2>3, <2>4, <2>5, <3>1, Zenon
  <2>8. ~(j < 2) /\ v.section # "done"
    <3>1. ~(j < 2)
      BY <2>4, <2>5, Behinds, Zenon
    <3>2. v.section # "done"
      BY <1>0 DEF InPart, Parts
    <3> QED BY <3>1, <3>2
  <2>9. Prior(v.build, g) = t[j - 1]
    BY <1>0, <1>1, <2>6, <2>8, Zenon DEF Prior, CallAt
  <2> QED BY <2>7, <2>9 DEF Settings
<1> QED BY <1>2, <1>3

-----------------------------------------------------------------------------
(***************************************************************************)
(* A step of one image leaves the others alone.                            *)
(***************************************************************************)
Elsewhere(f, g, p) == DOMAIN g = DOMAIN f /\ \A q \in DOMAIN f \ {p} : g[q] = f[q]

Alone(p) ==
  /\ build' = build /\ until' = until
  /\ Elsewhere(call, call', p) /\ Elsewhere(section, section', p)
  /\ Elsewhere(todo, todo', p) /\ Elsewhere(shape, shape', p)
  /\ Elsewhere(trialnrep, trialnrep', p) /\ Elsewhere(irep, irep', p)
  /\ Elsewhere(nrep, nrep', p) /\ Elsewhere(gcheck, gcheck', p)
  /\ Elsewhere(time, time', p) /\ Elsewhere(inside, inside', p)
  /\ Elsewhere(arrivals, arrivals', p) /\ Elsewhere(underway, underway', p)
  /\ Elsewhere(lcheck, lcheck', p) /\ Elsewhere(ltmp, ltmp', p)

\* What changing a function at one point leaves as it is.
LEMMA Excepts ==
  /\ \A f, p : Elsewhere(f, f, p)
  /\ \A f, p, e : Elsewhere(f, [f EXCEPT ![p] = e], p)
  /\ \A f, p, e : p \in DOMAIN f => [f EXCEPT ![p] = e][p] = e
BY DEF Elsewhere

\* The image itself executes its first statement, and stays where it is.
Advanced(p, op) ==
  /\ About(p, op) /\ todo'[p] = Tail(todo[p])
  /\ call'[p] = call[p] /\ section'[p] = section[p] /\ shape'[p] = shape[p]
  /\ trialnrep'[p] = trialnrep[p] /\ irep'[p] = irep[p] /\ nrep'[p] = nrep[p]

Quiet(p)   == inside'[p] = inside[p] /\ arrivals'[p] = arrivals[p]
Decided(p) == gcheck'[p] = gcheck[p] /\ time'[p] = time[p]
Common     == ltmp' = ltmp /\ dtmp' = dtmp

Plain(p, op) ==
  /\ op \in Others \ {"sync images"}
  /\ Alone(p) /\ Advanced(p, op) /\ Quiet(p) /\ Decided(p) /\ Common

\* Advance changes nothing but the statements of the image.
LEMMA Advancing ==
  ASSUME TypesInv, NEW p \in Im, NEW op, About(p, op), Advance(p)
  PROVE  /\ Advanced(p, op)
         /\ Elsewhere(call, call', p) /\ Elsewhere(section, section', p)
         /\ Elsewhere(todo, todo', p) /\ Elsewhere(shape, shape', p)
         /\ Elsewhere(trialnrep, trialnrep', p) /\ Elsewhere(irep, irep', p)
         /\ Elsewhere(nrep, nrep', p)
<1>1. /\ call' = call /\ section' = section /\ shape' = shape
      /\ trialnrep' = trialnrep /\ irep' = irep /\ nrep' = nrep
      /\ todo' = [todo EXCEPT ![p] = Tail(todo[p])]
  BY DEF Advance
<1>2. p \in DOMAIN todo
  BY DEF TypesInv
<1>3. todo'[p] = Tail(todo[p]) /\ Elsewhere(todo, todo', p)
  BY <1>1, <1>2, Excepts, Zenon
<1> QED BY <1>1, <1>3, Excepts, Zenon DEF Advanced

\* Data is moved.
PlainAction(p) ==
  \/ AllocateArray(p) \/ AssignArray(p) \/ CheckArray(p) \/ CheckData(p)
  \/ StartTransfer(p) \/ CompleteTransfer(p)
  \/ SendMessage(p) \/ ReturnFromSend(p) \/ Receive(p)

\* Each of these actions executes such a statement.
LEMMA PlainSteps ==
  ASSUME TypesInv, NEW p \in Im, PlainAction(p)
  PROVE  \E op : Plain(p, op)
<1>0. {"allocate", "assign", "check", "check data", "transfer", "complete", "send", "sent",
       "recv"} \subseteq Others \ {"sync images"}
  BY DEF Others
<1>1. ASSUME NEW op \in Others \ {"sync images"}, About(p, op), Advance(p),
             UNCHANGED <<build, until, arrivals, inside, gcheck, ltmp, time, dtmp>>,
             Elsewhere(underway, underway', p), Elsewhere(lcheck, lcheck', p)
      PROVE  Plain(p, op)
  <2>1. /\ build' = build /\ until' = until /\ arrivals' = arrivals /\ inside' = inside
        /\ gcheck' = gcheck /\ ltmp' = ltmp /\ time' = time /\ dtmp' = dtmp
    BY <1>1
  <2>2. Alone(p) /\ Advanced(p, op)
    BY <1>1, <2>1, Advancing, Excepts, Zenon DEF Alone
  <2> QED BY <1>1, <2>1, <2>2, Zenon DEF Plain, Quiet, Decided, Common
<1>2. CASE AllocateArray(p)
  BY <1>0, <1>1, <1>2, Excepts DEF AllocateArray, images, verdicts, clocks, program
<1>3. CASE AssignArray(p)
  BY <1>0, <1>1, <1>3, Excepts DEF AssignArray, images, verdicts, clocks, program
<1>4. CASE CheckArray(p)
  BY <1>0, <1>1, <1>4, Excepts DEF CheckArray, arrays, images, clocks, program
<1>5. CASE CheckData(p)
  BY <1>0, <1>1, <1>5, Excepts DEF CheckData, arrays, images, clocks, program
<1>6. CASE StartTransfer(p)
  BY <1>0, <1>1, <1>6, Excepts DEF StartTransfer, images, verdicts, clocks, program
<1>7. CASE CompleteTransfer(p)
  BY <1>0, <1>1, <1>7, Excepts DEF CompleteTransfer, arrays, images, verdicts, clocks, program
<1>8. CASE SendMessage(p)
  BY <1>0, <1>1, <1>8, Excepts DEF SendMessage, images, verdicts, clocks, program
<1>9. CASE ReturnFromSend(p)
  BY <1>0, <1>1, <1>9, Excepts DEF ReturnFromSend, arrays, images, verdicts, clocks, program
<1>10. CASE Receive(p)
  BY <1>0, <1>1, <1>10, Excepts DEF Receive, images, verdicts, clocks, program
<1> QED BY <1>2, <1>3, <1>4, <1>5, <1>6, <1>7, <1>8, <1>9, <1>10 DEF PlainAction

\* Statements that decide, other than sync all.
Settles(p, op) ==
  /\ op = "reset checks" => gcheck'[p] = TRUE
  /\ op = "tally" => gcheck'[p] = \A q \in Im : ltmp[q]
  /\ op \notin Settings => gcheck'[p] = gcheck[p]
  /\ op = "learn" => time'[p] = dtmp
  /\ op \notin {"stop timer", "learn"} => time'[p] = time[p]
  /\ op = "exit" => gcheck[p]
  /\ op # "vote" => ltmp' = ltmp

Decides(p, op) ==
  /\ op \in Control \ {"sync all"}
  /\ Alone(p) /\ Advanced(p, op) /\ Quiet(p) /\ Settles(p, op)
  /\ underway' = underway /\ dtmp' = dtmp

DecidingAction(p) ==
  \/ ResetChecks(p) \/ Vote(p) \/ Tally(p) \/ (ExitLoop(p) /\ gcheck[p])
  \/ ReadClock(p) \/ Measure(p) \/ Learn(p)

\* Each of these actions does.
LEMMA DecidingSteps ==
  ASSUME TypesInv, NEW p \in Im, DecidingAction(p)
  PROVE  \E op : Decides(p, op)
<1>0. {"reset checks", "vote", "tally", "exit", "start timer", "stop timer", "learn"}
        \subseteq Control \ {"sync all"}
  BY DEF Control
<1>1. ASSUME NEW op \in Control \ {"sync all"}, About(p, op), Advance(p),
             UNCHANGED <<build, until, arrivals, inside, underway, dtmp>>, Settles(p, op),
             Elsewhere(gcheck, gcheck', p), Elsewhere(lcheck, lcheck', p),
             Elsewhere(ltmp, ltmp', p), Elsewhere(time, time', p)
      PROVE  Decides(p, op)
  <2>1. /\ build' = build /\ until' = until /\ arrivals' = arrivals /\ inside' = inside
        /\ underway' = underway /\ dtmp' = dtmp
    BY <1>1
  <2>2. Alone(p) /\ Advanced(p, op)
    BY <1>1, <2>1, Advancing, Excepts, Zenon DEF Alone
  <2> QED BY <1>1, <2>1, <2>2, Zenon DEF Decides, Quiet
<1>p. p \in DOMAIN gcheck /\ p \in DOMAIN time
  BY DEF TypesInv
<1>2. CASE ResetChecks(p)
  <2>1. Settles(p, "reset checks")
    BY <1>2, <1>p, Excepts DEF ResetChecks, Settles, Settings, clocks
  <2> QED BY <1>0, <1>1, <1>2, <2>1, Excepts DEF ResetChecks, arrays, images, clocks, program
<1>3. CASE Vote(p)
  <2>1. Settles(p, "vote")
    BY <1>3, <1>p, Excepts DEF Vote, Settles, Settings, clocks
  <2> QED BY <1>0, <1>1, <1>3, <2>1, Excepts DEF Vote, arrays, images, clocks, program
<1>4. CASE Tally(p)
  <2>1. Settles(p, "tally")
    BY <1>4, <1>p, Excepts DEF Tally, Settles, Settings, clocks
  <2> QED BY <1>0, <1>1, <1>4, <2>1, Excepts DEF Tally, arrays, images, clocks, program
<1>5. CASE ExitLoop(p) /\ gcheck[p]
  <2>1. Settles(p, "exit") /\ About(p, "exit") /\ Advance(p)
    BY <1>5, Excepts DEF ExitLoop, Settles, Settings, clocks, verdicts
  <2> QED BY <1>0, <1>1, <1>5, <2>1, Excepts
          DEF ExitLoop, arrays, images, clocks, program, verdicts
<1>6. CASE ReadClock(p)
  <2>1. Settles(p, "start timer")
    BY <1>6, Excepts DEF ReadClock, Settles, Settings, clocks, verdicts
  <2> QED BY <1>0, <1>1, <1>6, <2>1, Excepts
          DEF ReadClock, arrays, images, clocks, program, verdicts
<1>7. CASE Measure(p)
  <2>1. Settles(p, "stop timer")
    BY <1>7 DEF Measure, Settles, Settings, verdicts
  <2>2. PICK d : time' = [time EXCEPT ![p] = d]
    BY <1>7 DEF Measure
  <2>3. Elsewhere(time, time', p)
    BY <2>2, Excepts
  <2> QED BY <1>0, <1>1, <1>7, <2>1, <2>3, Excepts DEF Measure, arrays, images, program, verdicts
<1>8. CASE Learn(p)
  <2>1. Settles(p, "learn")
    BY <1>8, <1>p, Excepts DEF Learn, Settles, Settings, verdicts
  <2> QED BY <1>0, <1>1, <1>8, <2>1, Excepts DEF Learn, arrays, images, program, verdicts
<1> QED BY <1>2, <1>3, <1>4, <1>5, <1>6, <1>7, <1>8 DEF DecidingAction

\* The root shares its time.
Shares(p) ==
  /\ Alone(p) /\ Advanced(p, "share") /\ Quiet(p) /\ Decided(p) /\ underway' = underway
  /\ ltmp' = ltmp /\ dtmp' = time[p]

\* Share does this.
LEMMA ShareStep ==
  ASSUME TypesInv, NEW p \in Im, Share(p)
  PROVE  Shares(p)
<1>1. About(p, "share") /\ Advance(p)
  BY DEF Share
<1>2. /\ build' = build /\ until' = until /\ arrivals' = arrivals /\ inside' = inside
      /\ underway' = underway /\ ltmp' = ltmp /\ gcheck' = gcheck /\ lcheck' = lcheck
      /\ time' = time /\ dtmp' = time[p]
  BY DEF Share, program, arrays, images, verdicts
<1> QED BY <1>1, <1>2, Advancing, Excepts, Zenon DEF Shares, Alone, Quiet, Decided

\* Synchronisations.
Enters(p, op) ==
  /\ Alone(p) /\ About(p, op) /\ ~inside[p] /\ inside'[p] = TRUE
  /\ build.port = "fortran" => underway[p] = {}
  /\ arrivals'[p] = (IF op = "sync all" THEN arrivals[p] + 1 ELSE arrivals[p])
  /\ UNCHANGED <<control, underway, gcheck, time>> /\ Common

Leaves(p, op) ==
  /\ Alone(p) /\ Advanced(p, op) /\ inside[p] /\ inside'[p] = FALSE
  /\ op = "sync all" => \A q \in Im : arrivals[q] >= arrivals[p]
  /\ arrivals'[p] = arrivals[p] /\ Decided(p) /\ underway' = underway /\ Common

\* The two actions that enter a synchronisation.
LEMMA EnterSteps ==
  ASSUME TypesInv, NEW p \in Im, EnterSyncAll(p) \/ EnterSyncImages(p)
  PROVE  \E op \in {"sync all", "sync images"} : Enters(p, op)
<1>p. p \in DOMAIN inside /\ p \in DOMAIN arrivals
  BY DEF TypesInv
<1>1. ASSUME NEW op, About(p, op), MayEnter(p), inside' = [inside EXCEPT ![p] = TRUE],
             UNCHANGED <<build, until, call, section, todo, shape, trialnrep, irep, nrep, underway,
                         lcheck, gcheck, ltmp, time, dtmp>>,
             Elsewhere(arrivals, arrivals', p),
             arrivals'[p] = (IF op = "sync all" THEN arrivals[p] + 1 ELSE arrivals[p])
      PROVE  Enters(p, op)
  <2>1. /\ build' = build /\ until' = until /\ call' = call /\ section' = section /\ todo' = todo
        /\ shape' = shape /\ trialnrep' = trialnrep /\ irep' = irep /\ nrep' = nrep
        /\ underway' = underway /\ lcheck' = lcheck /\ gcheck' = gcheck /\ ltmp' = ltmp
        /\ time' = time /\ dtmp' = dtmp
    BY <1>1
  <2>2. inside'[p] = TRUE /\ Elsewhere(inside, inside', p)
    BY <1>1, <1>p, Excepts, Zenon
  <2>3. Alone(p)
    BY <1>1, <2>1, <2>2, Excepts, Zenon DEF Alone
  <2> QED BY <1>1, <2>1, <2>2, <2>3 DEF Enters, MayEnter, control, Common
<1>2. CASE EnterSyncAll(p)
  <2>1. arrivals' = [arrivals EXCEPT ![p] = arrivals[p] + 1]
    BY <1>2 DEF EnterSyncAll
  <2>2. Elsewhere(arrivals, arrivals', p) /\ arrivals'[p] = arrivals[p] + 1
    BY <1>p, <2>1, Excepts, Zenon
  <2> QED BY <1>1, <1>2, <2>2
          DEF EnterSyncAll, program, control, arrays, verdicts, clocks
<1>3. CASE EnterSyncImages(p)
  BY <1>1, <1>3, Excepts DEF EnterSyncImages, program, control, arrays, verdicts, clocks
<1> QED BY <1>2, <1>3

\* The two actions that leave it.
LEMMA LeaveSteps ==
  ASSUME TypesInv, NEW p \in Im, LeaveSyncAll(p) \/ LeaveSyncImages(p)
  PROVE  \E op \in {"sync all", "sync images"} : Leaves(p, op)
<1>p. p \in DOMAIN inside
  BY DEF TypesInv
<1>1. ASSUME NEW op, About(p, op), Advance(p), inside[p], inside' = [inside EXCEPT ![p] = FALSE],
             UNCHANGED <<build, until, arrivals, underway, lcheck, gcheck, ltmp, time, dtmp>>,
             op = "sync all" => \A q \in Im : arrivals[q] >= arrivals[p]
      PROVE  Leaves(p, op)
  <2>1. /\ build' = build /\ until' = until /\ arrivals' = arrivals
        /\ underway' = underway /\ lcheck' = lcheck /\ gcheck' = gcheck /\ ltmp' = ltmp
        /\ time' = time /\ dtmp' = dtmp
    BY <1>1
  <2>2. inside'[p] = FALSE /\ Elsewhere(inside, inside', p)
    BY <1>1, <1>p, Excepts, Zenon
  <2>3. Alone(p) /\ Advanced(p, op)
    BY <1>1, <2>1, <2>2, Advancing, Excepts, Zenon DEF Alone
  <2> QED BY <1>1, <2>1, <2>2, <2>3, Zenon DEF Leaves, Common, Decided
<1>2. CASE LeaveSyncAll(p)
  BY <1>1, <1>2 DEF LeaveSyncAll, program, arrays, verdicts, clocks
<1>3. CASE LeaveSyncImages(p)
  BY <1>1, <1>3 DEF LeaveSyncImages, program, arrays, verdicts, clocks
<1> QED BY <1>2, <1>3

\* The loops around the statements, and the exit from the loop.
Begun(p) ==
  todo'[p] = IF section'[p] = "done" THEN <<>>
             ELSE Part(Current(p)', p, section'[p], shape'[p], irep'[p])

Proceeds(p) ==
  /\ Alone(p) /\ Quiet(p) /\ Decided(p) /\ Common /\ underway' = underway
  /\ section[p] = "close" => nrep'[p] = trialnrep[p]
  /\ Begun(p)
  /\ \/ AtEnd(p) /\ Continues(View(p), View(p)')
     \/ /\ About(p, "exit") /\ ~gcheck[p]
        /\ Further(View(p), View(p)', "close", shape[p], trialnrep[p], irep[p])

\* What a view of an image says.
LEMMA ViewFields ==
  ASSUME NEW p
  PROVE  /\ View(p).build = build /\ View(p).until = until /\ View(p).call = call[p]
         /\ View(p).section = section[p] /\ View(p).shape = shape[p]
         /\ View(p).nrep = trialnrep[p] /\ View(p).irep = irep[p]
         /\ View(p).ok = gcheck[p] /\ View(p).time = time[p]
         /\ CallAt(View(p)) = Current(p)
BY DEF View, CallAt, Current

\* The same after a step.
LEMMA ViewFieldsNext ==
  ASSUME NEW p
  PROVE  /\ View(p)'.build = build' /\ View(p)'.until = until' /\ View(p)'.call = call'[p]
         /\ View(p)'.section = section'[p] /\ View(p)'.shape = shape'[p]
         /\ View(p)'.nrep = trialnrep'[p] /\ View(p)'.irep = irep'[p]
         /\ View(p)'.ok = gcheck'[p] /\ View(p)'.time = time'[p]
         /\ CallAt(View(p)') = Current(p)'
BY DEF View, CallAt, Current

\* On to another part.
LEMMA GoingTo ==
  ASSUME TypesInv, NEW p \in Im, NEW part, part # "done", NEW sh, NEW rep, NEW n,
         Goto(p, part, sh, rep), trialnrep'[p] = n,
         Elsewhere(trialnrep, trialnrep', p), Elsewhere(nrep, nrep', p),
         UNCHANGED <<program, arrays, images, verdicts, clocks>>
  PROVE  /\ Alone(p) /\ Quiet(p) /\ Decided(p) /\ Common /\ underway' = underway
         /\ Begun(p) /\ Further(View(p), View(p)', part, sh, n, rep)
<1>1. /\ build' = build /\ until' = until /\ underway' = underway /\ arrivals' = arrivals
      /\ inside' = inside /\ lcheck' = lcheck /\ gcheck' = gcheck /\ ltmp' = ltmp
      /\ time' = time /\ dtmp' = dtmp
  BY DEF program, arrays, images, verdicts, clocks
<1>2. /\ section' = [section EXCEPT ![p] = part]
      /\ shape' = [shape EXCEPT ![p] = sh]
      /\ irep' = [irep EXCEPT ![p] = rep]
      /\ todo' = [todo EXCEPT ![p] = Part(Current(p), p, part, sh, rep)]
      /\ call' = call
  BY DEF Goto
<1>3. p \in DOMAIN section /\ p \in DOMAIN shape /\ p \in DOMAIN irep /\ p \in DOMAIN todo
  BY DEF TypesInv
<1>4. /\ section'[p] = part /\ shape'[p] = sh /\ irep'[p] = rep
      /\ todo'[p] = Part(Current(p), p, part, sh, rep)
      /\ Elsewhere(section, section', p) /\ Elsewhere(shape, shape', p)
      /\ Elsewhere(irep, irep', p) /\ Elsewhere(todo, todo', p)
  BY <1>2, <1>3, Excepts, Zenon
<1>5. Alone(p) /\ Quiet(p) /\ Decided(p) /\ Common
  BY <1>1, <1>2, <1>4, Excepts, Zenon DEF Alone, Quiet, Decided, Common
<1>6. Current(p)' = Current(p)
  BY <1>1, <1>2 DEF Current
<1>7. Begun(p)
  BY <1>4, <1>6, Zenon DEF Begun
<1>8. Further(View(p), View(p)', part, sh, n, rep)
  <2>1. gcheck'[p] = gcheck[p] /\ time'[p] = time[p] /\ call'[p] = call[p]
    BY <1>1, <1>2
  <2> QED BY <1>1, <1>4, <2>1, ViewFields, ViewFieldsNext DEF Further
<1> QED BY <1>1, <1>5, <1>7, <1>8

\* On to the next call.
LEMMA Returning ==
  ASSUME TypesInv, NEW p \in Im, NextCall(p),
         UNCHANGED <<program, arrays, images, verdicts, clocks>>
  PROVE  /\ Alone(p) /\ Quiet(p) /\ Decided(p) /\ Common /\ underway' = underway
         /\ Begun(p) /\ Returned(View(p), View(p)')
<1>1. /\ build' = build /\ until' = until /\ underway' = underway /\ arrivals' = arrivals
      /\ inside' = inside /\ lcheck' = lcheck /\ gcheck' = gcheck /\ ltmp' = ltmp
      /\ time' = time /\ dtmp' = dtmp
  BY DEF program, arrays, images, verdicts, clocks
<1>2. /\ call' = [call EXCEPT ![p] = call[p] + 1]
      /\ trialnrep' = [trialnrep EXCEPT ![p] = 1]
      /\ irep' = [irep EXCEPT ![p] = 0]
      /\ nrep' = [nrep EXCEPT ![p] = 0]
      /\ shape' = [shape EXCEPT ![p] = NoShape]
      /\ section' = [section EXCEPT ![p] = IF call[p] = until THEN "done" ELSE "open"]
      /\ todo' = [todo EXCEPT ![p] =
           Only(call[p] # until, Part(Calls[build][call[p] + 1], p, "open", NoShape, 0))]
  BY DEF NextCall
<1>3. /\ p \in DOMAIN section /\ p \in DOMAIN shape /\ p \in DOMAIN irep /\ p \in DOMAIN todo
      /\ p \in DOMAIN call /\ p \in DOMAIN trialnrep /\ p \in DOMAIN nrep
  BY DEF TypesInv
<1>4. /\ section'[p] = (IF call[p] = until THEN "done" ELSE "open")
      /\ shape'[p] = NoShape /\ irep'[p] = 0 /\ trialnrep'[p] = 1 /\ call'[p] = call[p] + 1
      /\ todo'[p] = Only(call[p] # until, Part(Calls[build][call[p] + 1], p, "open", NoShape, 0))
  BY <1>2, <1>3, Excepts, Zenon
<1>5. /\ Elsewhere(section, section', p) /\ Elsewhere(shape, shape', p)
      /\ Elsewhere(irep, irep', p) /\ Elsewhere(todo, todo', p) /\ Elsewhere(call, call', p)
      /\ Elsewhere(trialnrep, trialnrep', p) /\ Elsewhere(nrep, nrep', p)
  BY <1>2, Excepts, Zenon
<1>6. Alone(p) /\ Quiet(p) /\ Decided(p) /\ Common
  BY <1>1, <1>5, Excepts, Zenon DEF Alone, Quiet, Decided, Common
<1>7. Current(p)' = Calls[build][call[p] + 1]
  BY <1>1, <1>4, Zenon DEF Current
<1>8. Begun(p)
  <2>1. "open" # "done"
    OBVIOUS
  <2> QED BY <1>4, <1>7, <2>1, Zenon DEF Begun, Only
<1>9. Returned(View(p), View(p)')
  BY <1>1, <1>4, ViewFields, ViewFieldsNext, ZenonT(60) DEF Returned
<1> QED BY <1>1, <1>6, <1>8, <1>9

LoopAction(p) == Loop(p) \/ (ExitLoop(p) /\ ~gcheck[p])

\* Each of the loop actions, and the exit from the loop, is such a step.
LEMMA ProceedSteps ==
  ASSUME TypesInv, NEW p \in Im, PlacedAt(p), LoopAt(p), LoopAction(p)
  PROVE  Proceeds(p)
<1>0. trialnrep[p] \in Nat \ {0} /\ irep[p] \in Nat
  BY DEF LoopAt
<1>p. p \in DOMAIN trialnrep /\ p \in DOMAIN nrep
  BY DEF TypesInv
<1>v. PICK v : /\ v = View(p) /\ CallAt(v) = Current(p)
               /\ v.section = section[p] /\ v.shape = shape[p]
               /\ v.nrep = trialnrep[p] /\ v.irep = irep[p]
               /\ v.ok = gcheck[p] /\ v.time = time[p] /\ v.build = build
  BY ViewFields
<1>w. PICK w : w = View(p)'
  OBVIOUS
\* Trials of as many repetitions as before.
<1>1. ASSUME NEW part, part # "done", NEW sh, NEW rep, Goto(p, part, sh, rep),
             UNCHANGED <<program, trialnrep, nrep, arrays, images, verdicts, clocks>>,
             section[p] # "close"
      PROVE  /\ AtEnd(p) /\ (Further(v, w, part, sh, v.nrep, rep) => Continues(v, w))
                => Proceeds(p)
             /\ /\ About(p, "exit") /\ ~gcheck[p] /\ part = "close" /\ sh = shape[p]
                /\ rep = irep[p]
                => Proceeds(p)
  <2>1. trialnrep' = trialnrep /\ nrep' = nrep
    BY <1>1
  <2>2. /\ trialnrep'[p] = trialnrep[p] /\ Elsewhere(trialnrep, trialnrep', p)
        /\ Elsewhere(nrep, nrep', p)
    BY <2>1, Excepts, Zenon
  <2>3. UNCHANGED <<program, arrays, images, verdicts, clocks>>
    BY <1>1
  <2>4. /\ Alone(p) /\ Quiet(p) /\ Decided(p) /\ Common /\ underway' = underway
        /\ Begun(p) /\ Further(View(p), View(p)', part, sh, trialnrep[p], rep)
    BY <1>1, <2>2, <2>3, GoingTo
  <2>5. Further(v, w, part, sh, v.nrep, rep)
    BY <1>v, <1>w, <2>4
  <2> QED BY <1>1, <1>v, <1>w, <2>4, <2>5, Zenon DEF Proceeds
<1>2. CASE BeginShape(p)
  <2>1. /\ AtEnd(p) /\ section[p] = "open" /\ Goto(p, "resize", FirstOf(Current(p)), 0)
        /\ UNCHANGED <<program, trialnrep, nrep, arrays, images, verdicts, clocks>>
    BY <1>2 DEF BeginShape, FirstOf, Halo
  <2> QED BY <1>1, <1>v, <2>1 DEF Continues
<1>3. CASE BeginTrial(p)
  <2>1. /\ AtEnd(p) /\ section[p] = "resize" /\ Goto(p, "trial", shape[p], 0)
        /\ UNCHANGED <<program, trialnrep, nrep, arrays, images, verdicts, clocks>>
    BY <1>3 DEF BeginTrial
  <2> QED BY <1>1, <1>v, <2>1 DEF Continues
<1>4. CASE Repeat(p)
  <2>1. /\ AtEnd(p) /\ section[p] \in {"trial", "body"} /\ irep[p] < trialnrep[p]
        /\ Goto(p, "body", shape[p], irep[p] + 1)
        /\ UNCHANGED <<program, trialnrep, nrep, arrays, images, verdicts, clocks>>
    BY <1>4 DEF Repeat
  <2>2. section[p] = "trial" => irep[p] = 0 /\ irep[p] + 1 = 1
    <3>1. section[p] \in {"open", "resize", "trial"} => irep[p] = 0
      BY DEF LoopAt
    <3>2. 0 + 1 = 1
      OBVIOUS
    <3> QED BY <3>1, <3>2
  <2>3. Further(v, w, "body", shape[p], v.nrep, irep[p] + 1) => Continues(v, w)
    BY <1>v, <2>1, <2>2 DEF Continues
  <2>4. section[p] # "close"
    BY <2>1
  <2> QED BY <1>1, <2>1, <2>3, <2>4
<1>5. CASE EndLoop(p)
  <2>1. /\ AtEnd(p) /\ section[p] = "body" /\ irep[p] >= trialnrep[p]
        /\ Goto(p, "close", shape[p], irep[p])
        /\ UNCHANGED <<program, trialnrep, nrep, arrays, images, verdicts, clocks>>
    BY <1>5 DEF EndLoop
  <2>2. ~(irep[p] < trialnrep[p])
    BY <1>0, <2>1
  <2> QED BY <1>1, <1>v, <2>1, <2>2 DEF Continues
<1>6. CASE JudgeTrial(p)
  <2>1. /\ AtEnd(p) /\ section[p] = "close"
        /\ nrep' = [nrep EXCEPT ![p] = trialnrep[p]]
        /\ trialnrep' = [trialnrep EXCEPT ![p] = NextNrep(build.port, time[p], trialnrep[p])]
        /\ IF Settled(v) THEN Goto(p, "report", shape[p], irep[p])
           ELSE Goto(p, "trial", shape[p], 0)
        /\ UNCHANGED <<program, arrays, images, verdicts, clocks>>
    BY <1>6, <1>v DEF JudgeTrial, Settled, Verdict
  <2>2. /\ nrep'[p] = trialnrep[p] /\ trialnrep'[p] = Adjusted(v)
        /\ Elsewhere(nrep, nrep', p) /\ Elsewhere(trialnrep, trialnrep', p)
    <3>1. Adjusted(v) = NextNrep(build.port, time[p], trialnrep[p])
      BY <1>v DEF Adjusted
    <3> QED BY <1>p, <2>1, <3>1, Excepts, Zenon
  <2>3. CASE Settled(v)
    <3>1. Goto(p, "report", shape[p], irep[p])
      BY <2>1, <2>3
    <3>2. /\ Alone(p) /\ Quiet(p) /\ Decided(p) /\ Common /\ underway' = underway
          /\ Begun(p) /\ Further(View(p), View(p)', "report", shape[p], Adjusted(v), irep[p])
      BY <2>1, <2>2, <3>1, GoingTo
    <3>3. Continues(v, w)
      BY <1>v, <1>w, <2>1, <2>3, <3>2 DEF Continues
    <3> QED BY <1>v, <1>w, <2>1, <2>2, <3>2, <3>3, Zenon DEF Proceeds
  <2>4. CASE ~Settled(v)
    <3>1. Goto(p, "trial", shape[p], 0)
      BY <2>1, <2>4
    <3>2. /\ Alone(p) /\ Quiet(p) /\ Decided(p) /\ Common /\ underway' = underway
          /\ Begun(p) /\ Further(View(p), View(p)', "trial", shape[p], Adjusted(v), 0)
      BY <2>1, <2>2, <3>1, GoingTo
    <3>3. Continues(v, w)
      BY <1>v, <1>w, <2>1, <2>4, <3>2 DEF Continues
    <3> QED BY <1>v, <1>w, <2>1, <2>2, <3>2, <3>3, Zenon DEF Proceeds
  <2> QED BY <2>3, <2>4
<1>7. CASE Report(p)
  <2>1. /\ section[p] = "report" /\ AtEnd(p)
        /\ IF Over(v) THEN Goto(p, "end", shape[p], irep[p])
           ELSE Goto(p, "resize", NextShape(Current(p), shape[p]), 0)
        /\ UNCHANGED <<program, trialnrep, nrep, arrays, images, verdicts, clocks>>
    BY <1>7, <1>v DEF Report, Over, Halo, LoopAt
  <2>2. CASE Over(v)
    BY <1>1, <1>v, <2>1, <2>2 DEF Continues
  <2>3. CASE ~Over(v)
    BY <1>1, <1>v, <2>1, <2>3 DEF Continues
  <2> QED BY <2>2, <2>3
<1>8. CASE Return(p)
  <2>1. /\ AtEnd(p) /\ section[p] = "end" /\ NextCall(p)
        /\ UNCHANGED <<program, arrays, images, verdicts, clocks>>
    BY <1>8 DEF Return
  <2>2. /\ Alone(p) /\ Quiet(p) /\ Decided(p) /\ Common /\ underway' = underway
        /\ Begun(p) /\ Returned(View(p), View(p)')
    BY <2>1, Returning
  <2>3. Continues(v, w)
    BY <1>v, <1>w, <2>1, <2>2 DEF Continues
  <2> QED BY <1>v, <1>w, <2>1, <2>2, <2>3 DEF Proceeds
<1>9. CASE ExitLoop(p) /\ ~gcheck[p]
  <2>1. /\ About(p, "exit") /\ Goto(p, "close", shape[p], irep[p])
        /\ UNCHANGED <<program, trialnrep, nrep, arrays, images, verdicts, clocks>>
    BY <1>9 DEF ExitLoop
  <2>2. section[p] # "close"
    <3>1. todo[p] # <<>> /\ Head(todo[p]).op = "exit"
      BY <2>1 DEF About, AtEnd, Now
    <3>2. ASSUME section[p] = "close" PROVE FALSE
      <4>1. Follows(todo[p], Current(p), "close", Behind(p))
        BY <3>2 DEF PlacedAt
      <4>2. Head(todo[p]).op \in Closing
        BY <3>1, <4>1, FollowsOps
      <4> QED BY <3>1, <4>2 DEF Closing
    <3> QED BY <3>2
  <2> QED BY <1>1, <1>9, <2>1, <2>2
<1> QED BY <1>2, <1>3, <1>4, <1>5, <1>6, <1>7, <1>8, <1>9 DEF LoopAction, Loop

-----------------------------------------------------------------------------
(***************************************************************************)
(* What a step of one image leaves as it is.                               *)
(***************************************************************************)
Keeps(q) ==
  /\ View(q)' = View(q) /\ Behind(q)' = Behind(q) /\ InAll(q)' = InAll(q)
  /\ arrivals'[q] = arrivals[q]

\* Other images do not notice it.
LEMMA AloneFields ==
  ASSUME TypesInv, NEW p \in Im, Alone(p), NEW q \in Im, q # p
  PROVE  /\ build' = build /\ until' = until
         /\ call'[q] = call[q] /\ section'[q] = section[q] /\ todo'[q] = todo[q]
         /\ shape'[q] = shape[q] /\ trialnrep'[q] = trialnrep[q] /\ irep'[q] = irep[q]
         /\ nrep'[q] = nrep[q] /\ gcheck'[q] = gcheck[q] /\ time'[q] = time[q]
         /\ inside'[q] = inside[q] /\ arrivals'[q] = arrivals[q] /\ underway'[q] = underway[q]
<1>1. \A f, g : Elsewhere(f, g, p) /\ DOMAIN f = Im => g[q] = f[q]
  BY DEF Elsewhere
<1>2. build' = build /\ until' = until
  BY DEF Alone
<1>3. /\ call'[q] = call[q] /\ section'[q] = section[q] /\ todo'[q] = todo[q]
      /\ shape'[q] = shape[q]
  BY <1>1, Zenon DEF Alone, TypesInv
<1>4. /\ trialnrep'[q] = trialnrep[q] /\ irep'[q] = irep[q]
      /\ nrep'[q] = nrep[q] /\ gcheck'[q] = gcheck[q]
  BY <1>1, Zenon DEF Alone, TypesInv
<1>5. /\ time'[q] = time[q] /\ inside'[q] = inside[q] /\ arrivals'[q] = arrivals[q]
      /\ underway'[q] = underway[q]
  BY <1>1, Zenon DEF Alone, TypesInv
<1> QED BY <1>2, <1>3, <1>4, <1>5

\* They are where they were, and their variables still say what they should.
LEMMA AloneKeeps ==
  ASSUME TypesInv, NEW p \in Im, Alone(p), NEW q \in Im, q # p
  PROVE  /\ Keeps(q)
         /\ PlacedAt(q) => PlacedAt(q)'
         /\ LoopAt(q) => LoopAt(q)'
<1>0. /\ build' = build /\ until' = until
      /\ call'[q] = call[q] /\ section'[q] = section[q] /\ todo'[q] = todo[q]
      /\ shape'[q] = shape[q] /\ trialnrep'[q] = trialnrep[q] /\ irep'[q] = irep[q]
      /\ nrep'[q] = nrep[q] /\ gcheck'[q] = gcheck[q] /\ time'[q] = time[q]
      /\ inside'[q] = inside[q] /\ arrivals'[q] = arrivals[q] /\ underway'[q] = underway[q]
  BY AloneFields
<1>1. View(q)' = View(q)
  BY <1>0, Zenon DEF View
<1>2. Behind(q)' = Behind(q)
  BY <1>0, <1>1, Zenon DEF Behind
<1>3. \A op : About(q, op)' = About(q, op)
  BY <1>0, Zenon DEF About, AtEnd, Now
<1>4. InAll(q)' = InAll(q) /\ AtEnd(q)' = AtEnd(q)
  BY <1>0, <1>3, Zenon DEF InAll, AtEnd
<1>5. Keeps(q)
  BY <1>0, <1>1, <1>2, <1>4, Zenon DEF Keeps
<1>6. Current(q)' = Current(q) /\ Passed(q)' = Passed(q)
  BY <1>0, <1>2, <1>4, Zenon DEF Current, Passed
<1>7. PlacedAt(q) => PlacedAt(q)'
  BY <1>0, <1>1, <1>2, <1>6, Zenon DEF PlacedAt
<1>8. LoopAt(q) => LoopAt(q)'
  BY <1>0, <1>1, <1>2, <1>3, <1>4, <1>6, Zenon DEF LoopAt
<1> QED BY <1>5, <1>7, <1>8

\* What follows for where the image goes, and what it knows.
Stays(q) ==
  /\ Goal(q)' = Goal(q) /\ Here(q)' = Here(q) /\ InAll(q)' = InAll(q)
  /\ Passed(q)' = Passed(q) /\ Ready(q)' = Ready(q)
  /\ section'[q] = section[q] /\ gcheck'[q] = gcheck[q] /\ time'[q] = time[q]
  /\ arrivals'[q] = arrivals[q] /\ Timed(q)' = Timed(q)

\* An image that is where it was, with the same verdict and time, is on the
\* way to the same sync all.
LEMMA KeepsStays ==
  ASSUME NEW q, Keeps(q)
  PROVE  Stays(q)
<1>1. /\ View(q)' = View(q) /\ Behind(q)' = Behind(q) /\ InAll(q)' = InAll(q)
      /\ arrivals'[q] = arrivals[q]
  BY DEF Keeps
<1>2. section'[q] = section[q] /\ gcheck'[q] = gcheck[q] /\ time'[q] = time[q]
  <2>1. PICK v : v = View(q) /\ v.section = section[q] /\ v.ok = gcheck[q] /\ v.time = time[q]
    BY ViewFields
  <2>2. PICK w : w = View(q)' /\ w.section = section'[q] /\ w.ok = gcheck'[q] /\ w.time = time'[q]
    BY ViewFieldsNext
  <2>3. v = w
    BY <1>1, <2>1, <2>2
  <2> QED BY <2>1, <2>2, <2>3
<1>3. Passed(q)' = Passed(q)
  BY <1>1, Zenon DEF Passed
<1>4. Goal(q)' = Goal(q) /\ Here(q)' = Here(q)
  BY <1>1, <1>3, Zenon DEF Goal, Here
<1>5. Ready(q)' = Ready(q) /\ Timed(q)' = Timed(q)
  BY <1>1, <1>2, <1>3, <1>4, Zenon DEF Ready, Timed
<1> QED BY <1>1, <1>2, <1>3, <1>4, <1>5, Zenon DEF Stays

-----------------------------------------------------------------------------
(***************************************************************************)
(* Where an image is in its part.                                          *)
(***************************************************************************)
LEMMA Placing ==
  ASSUME NEW p, PlacedAt(p), section[p] # "done"
  PROVE  /\ InPart(View(p)) /\ Follows(todo[p], Current(p), section[p], Behind(p))
         /\ TraceAt(View(p)) = Trace(Current(p), section[p])
         /\ Behind(p) \in Nat /\ Behind(p) <= Len(TraceAt(View(p)))
         /\ Len(TraceAt(View(p))) \in Nat
         /\ AtEnd(p) => Behind(p) = Len(TraceAt(View(p)))
<1>1. InPart(View(p)) /\ Follows(todo[p], Current(p), section[p], Behind(p))
  BY DEF PlacedAt
<1>2. TraceAt(View(p)) = Trace(Current(p), section[p])
  BY ViewFields, Zenon DEF TraceAt
<1>3. PICK t : t = Trace(Current(p), section[p])
  OBVIOUS
<1>4. /\ Behind(p) \in Nat /\ Len(t) \in Nat /\ Behind(p) <= Len(t)
      /\ todo[p] = <<>> => Behind(p) = Len(t)
  BY <1>1, <1>3, FollowsCount
<1> QED BY <1>1, <1>2, <1>3, <1>4, Zenon DEF AtEnd

\* The same behind the last call.
LEMMA PlacingDone ==
  ASSUME NEW p, PlacedAt(p), section[p] = "done"
  PROVE  TraceAt(View(p)) = <<>> /\ Behind(p) = 0 /\ AtEnd(p) /\ todo[p] = <<>>
<1>1. TraceAt(View(p)) = <<>>
  BY ViewFields DEF TraceAt
<1>2. todo[p] = <<>>
  BY DEF PlacedAt
<1>3. Deciding(<<>>) = {} /\ Len(<<>>) = 0
  BY Short DEF Deciding
<1>4. Cardinality({}) = 0
  BY FS_EmptySet
<1>5. Behind(p) = 0 - 0
  BY <1>1, <1>2, <1>3, <1>4, Zenon DEF Behind
<1> QED BY <1>1, <1>2, <1>5 DEF AtEnd

\* The statement an image is about to execute is one of its part.
LEMMA AboutOp ==
  ASSUME NEW p, PlacedAt(p), NEW op, About(p, op)
  PROVE  /\ todo[p] # <<>> /\ Head(todo[p]).op = op /\ section[p] # "done"
         /\ op \in Control \cup Others \cup {"share"}
         /\ op \in Control => At(View(p), Behind(p), op)
         /\ op = "share" => section[p] = "close" /\ Behind(p) = 2
         /\ section[p] = "close" => op \in Closing
<1>1. todo[p] # <<>> /\ Head(todo[p]).op = op
  BY DEF About, AtEnd, Now
<1>2. section[p] # "done"
  BY <1>1, PlacingDone
<1>3. Follows(todo[p], Current(p), section[p], Behind(p))
  BY <1>2, Placing
<1>4. /\ op \in Control \cup Others \cup {"share"}
      /\ op = "share" => section[p] = "close"
      /\ section[p] = "close" => op \in Closing
  <2>1. PICK o : o = Head(todo[p]).op
    OBVIOUS
  <2>2. /\ o \in Control \cup Others \cup {"share"}
        /\ o = "share" => section[p] = "close"
        /\ section[p] = "close" => o \in Closing
    BY <1>1, <1>3, <2>1, FollowsOps
  <2> QED BY <1>1, <2>1, <2>2
<1>5. ASSUME op = "share" PROVE Behind(p) = 2
  <2>1. section[p] = "close"
    BY <1>4, <1>5
  <2> QED BY <1>1, <1>3, <1>5, <2>1, FollowsShare, Zenon
<1>6. ASSUME op \in Control PROVE At(View(p), Behind(p), op)
  <2>1. Behind(p) < Len(Trace(Current(p), section[p])) /\ op = Trace(Current(p), section[p])[Behind(p) + 1]
    BY <1>1, <1>3, <1>6, FollowsStep, Zenon
  <2> QED BY <1>2, <2>1, Placing, Zenon DEF At
<1> QED BY <1>1, <1>2, <1>4, <1>5, <1>6

\* w is v after a statement.
Beside(v, w) ==
  /\ w.build = v.build /\ w.until = v.until /\ w.call = v.call /\ w.section = v.section
  /\ w.shape = v.shape /\ w.nrep = v.nrep /\ w.irep = v.irep

\* The two are at the same places of the same part.
LEMMA BesideSame ==
  ASSUME NEW v, NEW w, Beside(v, w)
  PROVE  /\ CallAt(w) = CallAt(v) /\ TraceAt(w) = TraceAt(v) /\ (InPart(v) => InPart(w))
         /\ \A m : PlaceOf(w, m) = PlaceOf(v, m)
         /\ \A m, op : At(v, m, op) => At(w, m, op)
<1>1. CallAt(w) = CallAt(v)
  BY Zenon DEF Beside, CallAt
<1>2. TraceAt(w) = TraceAt(v)
  BY <1>1, Zenon DEF Beside, TraceAt
<1>3. InPart(v) => InPart(w)
  BY Zenon DEF Beside, InPart
<1>4. \A m : PlaceOf(w, m) = PlaceOf(v, m)
  BY Zenon DEF Beside, PlaceOf
<1>5. \A m, op : At(v, m, op) => At(w, m, op)
  BY <1>2, <1>3, Zenon DEF At
<1> QED BY <1>1, <1>2, <1>3, <1>4, <1>5

\* A statement is executed.
LEMMA AdvancedSteps ==
  ASSUME NEW p, PlacedAt(p), Alone(p), NEW op, Advanced(p, op)
  PROVE  /\ PlacedAt(p)' /\ Beside(View(p), View(p)') /\ Current(p)' = Current(p)
         /\ op \in Control => Behind(p)' = Behind(p) + 1
         /\ op \notin Control => Behind(p)' = Behind(p)
<1>1. /\ build' = build /\ until' = until
      /\ call'[p] = call[p] /\ section'[p] = section[p] /\ shape'[p] = shape[p]
      /\ trialnrep'[p] = trialnrep[p] /\ irep'[p] = irep[p] /\ todo'[p] = Tail(todo[p])
  BY DEF Alone, Advanced
<1>2. Beside(View(p), View(p)')
  BY <1>1, ViewFields, ViewFieldsNext, Zenon DEF Beside
<1>3. Current(p)' = Current(p)
  BY <1>1, Zenon DEF Current
<1>4. /\ todo[p] # <<>> /\ Head(todo[p]).op = op /\ section[p] # "done"
  BY AboutOp, Zenon DEF Advanced
<1>5. /\ InPart(View(p)) /\ Follows(todo[p], Current(p), section[p], Behind(p))
      /\ TraceAt(View(p)) = Trace(Current(p), section[p])
  BY <1>4, Placing
<1>6. InPart(View(p)') /\ TraceAt(View(p)') = Trace(Current(p), section[p])
  BY <1>2, <1>5, BesideSame, Zenon
<1>7. Behind(p)' = Len(Trace(Current(p), section[p])) - Cardinality(Deciding(Tail(todo[p])))
  BY <1>1, <1>6, Zenon DEF Behind
<1>8. ASSUME NEW b, Follows(Tail(todo[p]), Current(p), section[p], b)
      PROVE  PlacedAt(p)' /\ Behind(p)' = b
  <2>1. Behind(p)' = b
    BY <1>7, <1>8, FollowsCount, Zenon
  <2>2. section'[p] # "done" /\ Follows(todo'[p], Current(p)', section'[p], Behind(p)')
    BY <1>1, <1>3, <1>4, <1>8, <2>1, Zenon
  <2> QED BY <1>6, <2>1, <2>2, Zenon DEF PlacedAt
<1>9. /\ op \in Control => Follows(Tail(todo[p]), Current(p), section[p], Behind(p) + 1)
      /\ op \notin Control => Follows(Tail(todo[p]), Current(p), section[p], Behind(p))
  BY <1>4, <1>5, FollowsStep, Zenon
<1> QED BY <1>2, <1>3, <1>8, <1>9, Zenon

\* The variables of an image that executes a statement.
Executes(p, op) ==
  /\ PlacedAt(p) /\ LoopAt(p) /\ Alone(p) /\ Advanced(p, op)
  /\ inside'[p] = FALSE /\ arrivals'[p] = arrivals[p]
  /\ inside[p] <=> op \in {"sync all", "sync images"}
  /\ gcheck'[p] \in BOOLEAN
  /\ op = "reset checks" => gcheck'[p]
  /\ op \notin Settings => gcheck'[p] = gcheck[p]
  /\ op \in Control \cup {"share"} => underway'[p] = underway[p]

\* It is at the next statement of the trace, if the one it executes decides.
LEMMA ExecutesPlace ==
  ASSUME NEW p, NEW op, Executes(p, op)
  PROVE  /\ PlacedAt(p)' /\ Beside(View(p), View(p)') /\ Current(p)' = Current(p)
         /\ section[p] # "done" /\ section'[p] = section[p]
         /\ op \in Control => At(View(p), Behind(p), op) /\ Behind(p)' = Behind(p) + 1
         /\ op \notin Control => Behind(p)' = Behind(p)
         /\ ~InAll(p)' /\ (InAll(p) <=> op = "sync all")
         /\ Passed(p)' = Behind(p)'
<1>1. /\ PlacedAt(p) /\ Alone(p) /\ Advanced(p, op) /\ About(p, op) /\ inside'[p] = FALSE
      /\ section'[p] = section[p]
      /\ inside[p] <=> op \in {"sync all", "sync images"}
  BY DEF Executes, Advanced
<1>2. /\ PlacedAt(p)' /\ Beside(View(p), View(p)') /\ Current(p)' = Current(p)
      /\ op \in Control => Behind(p)' = Behind(p) + 1
      /\ op \notin Control => Behind(p)' = Behind(p)
  BY <1>1, AdvancedSteps
<1>3. section[p] # "done" /\ (op \in Control => At(View(p), Behind(p), op))
  BY <1>1, AboutOp
<1>4. ~InAll(p)'
  BY <1>1 DEF InAll
<1>5. InAll(p) <=> op = "sync all"
  BY <1>1 DEF InAll, About
<1>6. Passed(p)' = Behind(p)'
  BY <1>4, Zenon DEF Passed
<1> QED BY <1>1, <1>2, <1>3, <1>4, <1>5, <1>6

\* Its variables say what they should.
LEMMA ExecutesLoop ==
  ASSUME NEW p, NEW op, Executes(p, op)
  PROVE  LoopAt(p)'
<1>1. /\ PlacedAt(p) /\ LoopAt(p) /\ Alone(p) /\ Advanced(p, op)
      /\ inside'[p] = FALSE /\ arrivals'[p] = arrivals[p] /\ gcheck'[p] \in BOOLEAN
      /\ op = "reset checks" => gcheck'[p]
      /\ op \notin Settings => gcheck'[p] = gcheck[p]
      /\ op \in Control \cup {"share"} => underway'[p] = underway[p]
  BY DEF Executes
<1>2. /\ About(p, op) /\ section'[p] = section[p] /\ trialnrep'[p] = trialnrep[p]
      /\ irep'[p] = irep[p] /\ nrep'[p] = nrep[p] /\ build' = build
  BY <1>1 DEF Advanced, Alone
<1>3. /\ Beside(View(p), View(p)') /\ ~InAll(p)' /\ (InAll(p) <=> op = "sync all")
      /\ op \in Control => At(View(p), Behind(p), op) /\ Behind(p)' = Behind(p) + 1
      /\ op \notin Control => Behind(p)' = Behind(p)
      /\ Passed(p)' = Behind(p)' /\ section[p] # "done"
  BY ExecutesPlace
<1>4. /\ section[p] = "close" => op \in Closing
      /\ op = "share" => section[p] = "close" /\ Behind(p) = 2
      /\ op \in Control \cup Others \cup {"share"}
  BY <1>1, <1>2, AboutOp
<1>5. Behind(p) \in Nat /\ TraceAt(View(p)') = TraceAt(View(p))
  BY <1>1, <1>3, Placing, BesideSame
<1>6. /\ trialnrep'[p] \in Nat \ {0} /\ irep'[p] \in Nat /\ arrivals'[p] \in Nat
      /\ inside'[p] \in BOOLEAN /\ gcheck'[p] \in BOOLEAN
      /\ inside'[p] => About(p, "sync all")' \/ About(p, "sync images")'
      /\ section'[p] = "open" => trialnrep'[p] = 1
      /\ section'[p] \in {"open", "resize", "trial"} => irep'[p] = 0
      /\ section'[p] = "body" => irep'[p] <= trialnrep'[p]
  <2>1. /\ trialnrep[p] \in Nat \ {0} /\ irep[p] \in Nat /\ arrivals[p] \in Nat
        /\ section[p] = "open" => trialnrep[p] = 1
        /\ section[p] \in {"open", "resize", "trial"} => irep[p] = 0
        /\ section[p] = "body" => irep[p] <= trialnrep[p]
    BY <1>1 DEF LoopAt
  <2> QED BY <1>1, <1>2, <2>1
<1>7. section[p] # "report"
  BY <1>1, <1>2 DEF LoopAt, About
<1>8. section'[p] = "close" /\ gcheck'[p] => irep'[p] = trialnrep'[p]
  <2>1. section[p] = "close" /\ gcheck[p] => irep[p] = trialnrep[p]
    BY <1>1 DEF LoopAt
  <2>2. section[p] = "close" => op \notin Settings
    BY <1>4 DEF Closing, Settings
  <2> QED BY <1>1, <1>2, <2>1, <2>2
<1>9. /\ section'[p] \in {"open", "trial"} /\ Behind(p)' >= 1
      /\ TraceAt(View(p)')[1] = "reset checks"
      => gcheck'[p]
  <2>1. ASSUME section[p] \in {"open", "trial"}, op # "reset checks"
        PROVE  gcheck'[p] = gcheck[p]
    <3>1. ASSUME op = "tally" PROVE FALSE
      <4>1. At(View(p), Behind(p), op)
        BY <1>3, <3>1 DEF Control
      <4>2. PlacedIn(op, section[p], Behind(p) + 1)
        BY <4>1, OpsAt, ViewFields
      <4> QED BY <2>1, <3>1, <4>2 DEF PlacedIn
    <3> QED BY <1>1, <2>1, <3>1 DEF Settings
  <2>2. ASSUME TraceAt(View(p))[1] = "reset checks", op # "reset checks", Behind(p)' >= 1
        PROVE  Behind(p) >= 1
    <3>1. ASSUME Behind(p) = 0 PROVE FALSE
      <4>0. ~(0 >= 1)
        OBVIOUS
      <4>1. op \in Control
        BY <1>3, <2>2, <3>1, <4>0, Zenon
      <4>2. TraceAt(View(p))[0 + 1] = op
        BY <1>3, <3>1, <4>1, Zenon DEF At
      <4> QED BY <2>2, <4>2, Sums, Zenon
    <3> QED BY <1>5, <3>1
  <2>3. /\ section[p] \in {"open", "trial"} /\ Behind(p) >= 1
        /\ TraceAt(View(p))[1] = "reset checks"
        => gcheck[p]
    BY <1>1 DEF LoopAt
  <2> QED BY <1>1, <1>2, <1>5, <2>1, <2>2, <2>3
<1>10. build'.port = "fortran" /\ section'[p] = "close" /\ Passed(p)' >= 1 => underway'[p] = {}
  <2>1. ASSUME section[p] = "close" PROVE op \in Control \cup {"share"}
    BY <1>4, <2>1 DEF Closing, Control
  <2>2. ASSUME section[p] = "close", Passed(p)' >= 1 PROVE Passed(p) >= 1
    <3>1. CASE op = "sync all"
      <4>1. Passed(p) = Behind(p) + 1
        BY <1>3, <3>1, Zenon DEF Passed
      <4> QED BY <1>5, <4>1
    <3>2. CASE op = "share"
      BY <1>3, <1>4, <3>2 DEF Passed
    <3>3. CASE op # "sync all" /\ op # "share"
      <4>1. op \in Control /\ Passed(p) = Behind(p)
        BY <1>3, <2>1, <2>2, <3>3 DEF Passed
      <4>2. ASSUME Behind(p) = 0 PROVE FALSE
        <5>1. TraceAt(View(p))[0 + 1] = op
          BY <1>3, <4>1, <4>2, Zenon DEF At
        <5>2. TraceAt(View(p)) = Trace(Current(p), "close")
          BY <1>1, <1>3, <2>2, Placing
        <5> QED BY <3>3, <5>1, <5>2, Sums, CloseTrace, Zenon
      <4> QED BY <1>5, <4>1, <4>2
    <3> QED BY <3>1, <3>2, <3>3
  <2>3. build.port = "fortran" /\ section[p] = "close" /\ Passed(p) >= 1 => underway[p] = {}
    BY <1>1 DEF LoopAt
  <2> QED BY <1>1, <1>2, <2>1, <2>2, <2>3
<1> QED BY <1>2, <1>6, <1>7, <1>8, <1>9, <1>10 DEF LoopAt

-----------------------------------------------------------------------------
(***************************************************************************)
(* Each kind of step leaves the image itself where it should be.           *)
(***************************************************************************)
LEMMA SyncsOnly ==
  ASSUME NEW p, LoopAt(p), NEW op, About(p, op)
  PROVE  inside[p] => op \in {"sync all", "sync images"}
BY DEF LoopAt, About

\* Moving data.
LEMMA PlainExecutes ==
  ASSUME NEW p, PlacedAt(p), LoopAt(p), NEW op, Plain(p, op)
  PROVE  Executes(p, op)
<1>1. /\ op \in Others \ {"sync images"} /\ Alone(p) /\ Advanced(p, op) /\ About(p, op)
      /\ inside'[p] = inside[p] /\ arrivals'[p] = arrivals[p] /\ gcheck'[p] = gcheck[p]
  BY DEF Plain, Quiet, Decided, Advanced
<1>2. op \notin {"sync all", "sync images", "reset checks", "share"} \cup Control
  BY <1>1 DEF Others, Control
<1>3. ~inside[p]
  BY <1>1, <1>2, SyncsOnly
<1>4. inside[p] \in BOOLEAN /\ gcheck[p] \in BOOLEAN
  BY DEF LoopAt
<1> QED BY <1>1, <1>2, <1>3, <1>4 DEF Executes

\* Deciding.
LEMMA DecidesExecutes ==
  ASSUME NEW p, PlacedAt(p), LoopAt(p), NEW op, Decides(p, op)
  PROVE  Executes(p, op)
<1>1. /\ op \in Control \ {"sync all"} /\ Alone(p) /\ Advanced(p, op) /\ About(p, op)
      /\ inside'[p] = inside[p] /\ arrivals'[p] = arrivals[p] /\ underway' = underway
  BY DEF Decides, Quiet, Advanced
<1>2. op \notin {"sync all", "sync images"}
  BY <1>1 DEF Control
<1>3. ~inside[p]
  BY <1>1, <1>2, SyncsOnly
<1>4. inside[p] \in BOOLEAN /\ gcheck[p] \in BOOLEAN
  BY DEF LoopAt
<1>5. /\ gcheck'[p] \in BOOLEAN
      /\ op = "reset checks" => gcheck'[p]
      /\ op \notin Settings => gcheck'[p] = gcheck[p]
  BY <1>4 DEF Decides, Settles, Settings
<1> QED BY <1>1, <1>2, <1>3, <1>4, <1>5 DEF Executes

\* Sharing the time.
LEMMA ShareExecutes ==
  ASSUME NEW p, PlacedAt(p), LoopAt(p), Shares(p)
  PROVE  Executes(p, "share")
<1>1. /\ Alone(p) /\ Advanced(p, "share") /\ About(p, "share")
      /\ inside'[p] = inside[p] /\ arrivals'[p] = arrivals[p] /\ underway' = underway
      /\ gcheck'[p] = gcheck[p]
  BY DEF Shares, Quiet, Decided, Advanced
<1>2. "share" \notin {"sync all", "sync images"}
  OBVIOUS
<1>3. ~inside[p]
  BY <1>1, <1>2, SyncsOnly, Zenon
<1>4. inside[p] \in BOOLEAN /\ gcheck[p] \in BOOLEAN
  BY DEF LoopAt
<1> QED BY <1>1, <1>3, <1>4 DEF Executes

\* Going on when the others have come.
LEMMA LeavesExecutes ==
  ASSUME NEW p, PlacedAt(p), LoopAt(p), NEW op \in {"sync all", "sync images"}, Leaves(p, op)
  PROVE  Executes(p, op)
<1>1. /\ Alone(p) /\ Advanced(p, op) /\ inside[p] /\ inside'[p] = FALSE
      /\ arrivals'[p] = arrivals[p] /\ gcheck'[p] = gcheck[p] /\ underway' = underway
  BY DEF Leaves, Decided
<1>2. inside[p] \in BOOLEAN /\ gcheck[p] \in BOOLEAN
  BY DEF LoopAt
<1>3. op \notin Settings /\ op # "reset checks"
  BY DEF Settings
<1> QED BY <1>1, <1>2, <1>3 DEF Executes

\* It waits for the others.
LEMMA EntersPlace ==
  ASSUME NEW p, PlacedAt(p), LoopAt(p), NEW op \in {"sync all", "sync images"}, Enters(p, op)
  PROVE  /\ View(p)' = View(p) /\ Behind(p)' = Behind(p) /\ ~InAll(p)
         /\ InAll(p)' <=> op = "sync all"
         /\ op = "sync all" => At(View(p), Behind(p), op)
         /\ PlacedAt(p)' /\ LoopAt(p)'
<1>1. /\ build' = build /\ until' = until
      /\ call' = call /\ section' = section /\ todo' = todo /\ shape' = shape
      /\ trialnrep' = trialnrep /\ irep' = irep /\ nrep' = nrep /\ gcheck' = gcheck
      /\ time' = time /\ underway' = underway
      /\ About(p, op) /\ ~inside[p] /\ inside'[p] = TRUE
      /\ build.port = "fortran" => underway[p] = {}
      /\ arrivals'[p] = (IF op = "sync all" THEN arrivals[p] + 1 ELSE arrivals[p])
  BY DEF Enters, Alone, control
<1>2. View(p)' = View(p)
  BY <1>1, Zenon DEF View
<1>3. Behind(p)' = Behind(p)
  BY <1>1, <1>2, Zenon DEF Behind
<1>4. \A o : About(p, o)' = About(p, o)
  BY <1>1, Zenon DEF About, AtEnd, Now
<1>5. ~InAll(p)
  BY <1>1 DEF InAll
<1>6. InAll(p)' <=> op = "sync all"
  <2>1. About(p, "sync all") <=> op = "sync all"
    BY <1>1 DEF About
  <2> QED BY <1>1, <1>4, <2>1 DEF InAll
<1>7. ASSUME op = "sync all" PROVE At(View(p), Behind(p), op)
  BY <1>1, <1>7, AboutOp DEF Control
<1>8. Current(p)' = Current(p) /\ AtEnd(p)' = AtEnd(p)
  BY <1>1, Zenon DEF Current, AtEnd
<1>9. PlacedAt(p)'
  BY <1>1, <1>2, <1>3, <1>8, Zenon DEF PlacedAt
<1>10. LoopAt(p)'
  <2>1. arrivals'[p] \in Nat
    <3>1. arrivals[p] \in Nat
      BY DEF LoopAt
    <3>2. arrivals'[p] = arrivals[p] + 1 \/ arrivals'[p] = arrivals[p]
      BY <1>1, Zenon
    <3> QED BY <3>1, <3>2, Ahead, Zenon
  <2>2. inside'[p] \in BOOLEAN /\ (inside'[p] => About(p, "sync all")' \/ About(p, "sync images")')
    BY <1>1, <1>4
  <2>3. build'.port = "fortran" /\ section'[p] = "close" /\ Passed(p)' >= 1 => underway'[p] = {}
    BY <1>1
  <2>4. /\ trialnrep'[p] \in Nat \ {0} /\ irep'[p] \in Nat /\ gcheck'[p] \in BOOLEAN
        /\ section'[p] = "open" => trialnrep'[p] = 1
        /\ section'[p] \in {"open", "resize", "trial"} => irep'[p] = 0
        /\ section'[p] = "report" => AtEnd(p)'
        /\ section'[p] = "body" => irep'[p] <= trialnrep'[p]
    BY <1>1, <1>8 DEF LoopAt
  <2>5. /\ section'[p] = "close" /\ gcheck'[p] => irep'[p] = trialnrep'[p]
        /\ section'[p] = "report" /\ gcheck'[p] => nrep'[p] = irep'[p]
        /\ /\ section'[p] \in {"open", "trial"} /\ Behind(p)' >= 1
           /\ TraceAt(View(p)')[1] = "reset checks"
           => gcheck'[p]
    BY <1>1, <1>2, <1>3 DEF LoopAt
  <2> QED BY <2>1, <2>2, <2>3, <2>4, <2>5 DEF LoopAt
<1> QED BY <1>2, <1>3, <1>5, <1>6, <1>7, <1>9, <1>10

\* The number of repetitions stays positive.
LEMMA NextNrepPositive ==
  ASSUME NEW port, NEW t, NEW n \in Nat \ {0}
  PROVE  NextNrep(port, t, n) \in Nat \ {0}
<1>1. AtLeastOne(n \div 2) \in Nat \ {0}
  BY DEF AtLeastOne
<1>2. 2 * n \in Nat \ {0}
  OBVIOUS
<1> QED BY <1>1, <1>2, Zenon DEF NextNrep

\* What goes on at the beginning of a part.
Starts(p) ==
  /\ Behind(p)' = 0 /\ ~InAll(p) /\ ~InAll(p)' /\ ~inside'[p]
  /\ section[p] # "done"
  /\ section'[p] # "done" => InPart(View(p)')

\* An image that goes on to another part is at its beginning.
LEMMA ProceedsPlace ==
  ASSUME Orderly, NEW p, PlacedAt(p), LoopAt(p), Proceeds(p)
  PROVE  Starts(p) /\ PlacedAt(p)'
<1>1. /\ build' = build /\ until' = until /\ inside'[p] = inside[p] /\ Begun(p)
      /\ \/ AtEnd(p) /\ Continues(View(p), View(p)')
         \/ /\ About(p, "exit")
            /\ Further(View(p), View(p)', "close", shape[p], trialnrep[p], irep[p])
  BY DEF Proceeds, Alone, Quiet
<1>2. ~inside[p] /\ ~inside'[p] /\ ~InAll(p) /\ ~InAll(p)'
  <2>1. "exit" \notin {"sync all", "sync images"}
    OBVIOUS
  <2>2. ~inside[p]
    <3>1. ASSUME AtEnd(p) PROVE ~inside[p]
      BY <3>1 DEF LoopAt, About
    <3>2. ASSUME About(p, "exit") PROVE ~inside[p]
      BY <2>1, <3>2, SyncsOnly, Zenon
    <3> QED BY <1>1, <3>1, <3>2
  <2> QED BY <1>1, <2>2 DEF InAll
<1>v. PICK v : /\ v = View(p) /\ v.section = section[p] /\ v.call = call[p] /\ v.until = until
               /\ v.build = build
  BY ViewFields
<1>w. PICK w : /\ w = View(p)' /\ w.section = section'[p] /\ w.call = call'[p]
               /\ w.until = until' /\ CallAt(w) = Current(p)' /\ w.build = build'
  BY ViewFieldsNext
<1>3. section[p] # "done"
  <2>1. ASSUME Continues(v, w) PROVE v.section # "done"
    BY <2>1 DEF Continues
  <2>2. ASSUME About(p, "exit") PROVE section[p] # "done"
    BY <2>2, AboutOp
  <2> QED BY <1>1, <1>v, <1>w, <2>1, <2>2
<1>4. InPart(v)
  BY <1>v, <1>3, Placing
<1>5. \/ InPart(w) /\ w.section \in Parts
      \/ w.section = "done" /\ w.call = w.until + 1
  <2>1. ASSUME NEW part, NEW sh, NEW n, NEW i, part \in Parts, Further(v, w, part, sh, n, i)
        PROVE  InPart(w) /\ w.section \in Parts
    BY <1>4, <2>1, FurtherIn, Zenon
  <2>2. {"open", "resize", "trial", "body", "close", "report", "end"} = Parts
    BY DEF Parts
  <2>3. ASSUME Returned(v, w) PROVE <1>5!1 \/ <1>5!2
    <3>1. CASE v.call = v.until
      <4>1. w.section = "done" /\ w.call = w.until + 1
        BY <2>3, <3>1, Zenon DEF Returned
      <4> QED BY <4>1
    <3>2. CASE v.call # v.until
      <4>1. /\ w.section = "open" /\ w.call = v.call + 1 /\ w.until = v.until
            /\ w.build = v.build
        BY <2>3, <3>2, Zenon DEF Returned
      <4>2. /\ v.build \in Builds /\ v.until \in Nat /\ v.until <= Len(Calls[v.build])
            /\ v.call \in 1 .. v.until
        BY <1>4 DEF InPart
      <4>3. v.call + 1 \in 1 .. v.until
        BY <3>2, <4>2
      <4>4. w.section \in Parts
        BY <2>2, <4>1
      <4> QED BY <4>1, <4>2, <4>3, <4>4, Zenon DEF InPart
    <3> QED BY <3>1, <3>2
  <2>4. ASSUME Continues(v, w) PROVE <1>5!1 \/ <1>5!2
    BY <2>1, <2>2, <2>3, <2>4 DEF Continues
  <2>5. "close" \in Parts
    BY <2>2
  <2> QED BY <1>1, <1>v, <1>w, <2>1, <2>4, <2>5, Zenon
<1>6. CASE InPart(w) /\ w.section \in Parts
  <2>1. section'[p] # "done" /\ section'[p] \in Parts
    BY <1>w, <1>6 DEF Parts
  <2>2. IsCall(Current(p)', build) /\ (Current(p)'.port = "fortran" \/ ~Current(p)'.check)
    <3>1. IsCall(CallAt(w), w.build)
      BY <1>6, CallIs
    <3>2. IsCall(Current(p)', build)
      BY <1>1, <1>w, <3>1
    <3> QED BY <3>2 DEF IsCall, Orderly
  <2>3. todo'[p] = Part(Current(p)', p, section'[p], shape'[p], irep'[p])
    BY <1>1, <2>1, Zenon DEF Begun
  <2>4. Follows(todo'[p], Current(p)', section'[p], 0)
    BY <2>1, <2>2, <2>3, PartFollows, Zenon
  <2>5. TraceAt(View(p)') = Trace(Current(p)', section'[p])
    BY <1>w, <2>1, Zenon DEF TraceAt
  <2>6. Behind(p)' = 0
    <3>1. PICK t : t = Trace(Current(p)', section'[p])
      OBVIOUS
    <3>2. Len(t) - Cardinality(Deciding(todo'[p])) = 0
      BY <2>4, <3>1, FollowsCount, Zenon
    <3> QED BY <2>5, <3>1, <3>2, Zenon DEF Behind
  <2>7. PlacedAt(p)'
    BY <1>w, <1>6, <2>1, <2>4, <2>6, Zenon DEF PlacedAt
  <2> QED BY <1>2, <1>3, <1>w, <1>6, <2>6, <2>7, Zenon DEF Starts
<1>7. CASE w.section = "done" /\ w.call = w.until + 1
  <2>1. section'[p] = "done" /\ call'[p] = until' + 1 /\ todo'[p] = <<>>
    BY <1>1, <1>w, <1>7, Zenon DEF Begun
  <2>2. PlacedAt(p)'
    BY <2>1 DEF PlacedAt
  <2>3. Behind(p)' = 0
    <3>1. TraceAt(View(p)') = <<>>
      BY <1>w, <1>7 DEF TraceAt
    <3>2. Deciding(<<>>) = {} /\ Len(<<>>) = 0
      BY Short DEF Deciding
    <3>3. Cardinality({}) = 0
      BY FS_EmptySet
    <3>4. Behind(p)' = 0 - 0
      BY <2>1, <3>1, <3>2, <3>3, Zenon DEF Behind
    <3> QED BY <3>4
  <2> QED BY <1>2, <1>3, <2>1, <2>2, <2>3, Zenon DEF Starts
<1> QED BY <1>5, <1>6, <1>7

\* Its variables say what they should there: the loop counts up to trialnrep,
\* the end of the loop is reached with all repetitions made unless
\* verification has failed.
LEMMA ProceedsLoop ==
  ASSUME Orderly, NEW p, PlacedAt(p), LoopAt(p), Proceeds(p)
  PROVE  LoopAt(p)'
<1>1. /\ build' = build /\ inside'[p] = inside[p] /\ arrivals'[p] = arrivals[p]
      /\ gcheck'[p] = gcheck[p] /\ Begun(p)
      /\ section[p] = "close" => nrep'[p] = trialnrep[p]
      /\ \/ Continues(View(p), View(p)')
         \/ /\ ~gcheck[p]
            /\ Further(View(p), View(p)', "close", shape[p], trialnrep[p], irep[p])
  BY DEF Proceeds, Alone, Quiet, Decided
<1>2. Starts(p) /\ PlacedAt(p)'
  BY ProceedsPlace
<1>3. Behind(p)' = 0 /\ Passed(p)' = 0 /\ ~inside'[p]
  BY <1>2 DEF Starts, Passed
<1>v. PICK v : /\ v = View(p) /\ v.section = section[p] /\ v.nrep = trialnrep[p]
               /\ v.irep = irep[p] /\ v.ok = gcheck[p]
  BY ViewFields
<1>w. PICK w : /\ w = View(p)' /\ w.section = section'[p] /\ w.nrep = trialnrep'[p]
               /\ w.irep = irep'[p] /\ w.ok = gcheck'[p]
  BY ViewFieldsNext
<1>4. /\ v.nrep \in Nat \ {0} /\ v.irep \in Nat
      /\ v.section = "open" => v.nrep = 1
      /\ v.section \in {"open", "resize", "trial"} => v.irep = 0
      /\ v.section = "body" => v.irep <= v.nrep
      /\ v.section = "close" /\ v.ok => v.irep = v.nrep
  BY <1>v, Zenon DEF LoopAt
<1>5. Adjusted(v) \in Nat \ {0}
  BY <1>4, NextNrepPositive, Zenon DEF Adjusted
\* Numbers that the parts begin with.
<1>6. /\ w.nrep \in Nat \ {0} /\ w.irep \in Nat
      /\ w.section = "open" => w.nrep = 1
      /\ w.section \in {"open", "resize", "trial"} => w.irep = 0
      /\ w.section = "body" => w.irep <= w.nrep
      /\ w.section = "close" /\ w.ok => w.irep = w.nrep
      /\ w.section = "report" => v.section = "close" /\ w.irep = v.irep
  <2>1. ASSUME ~v.ok, Further(v, w, "close", shape[p], v.nrep, v.irep) PROVE <1>6!:
    BY <1>4, <2>1 DEF Further
  <2>2. ASSUME Returned(v, w) PROVE <1>6!:
    BY <2>2 DEF Returned
  <2>3. CASE Continues(v, w)
    <3>1. CASE v.section \in {"open", "resize"}
      BY <1>4, <2>3, <3>1 DEF Continues, Further
    <3>2. CASE v.section \in {"trial", "body"}
      BY <1>4, <2>3, <3>2 DEF Continues, Further
    <3>3. CASE v.section = "close"
      BY <1>4, <1>5, <2>3, <3>3 DEF Continues, Further
    <3>4. CASE v.section \in {"report", "end"}
      BY <1>4, <2>2, <2>3, <3>4 DEF Continues, Further
    <3> QED BY <2>3, <3>1, <3>2, <3>3, <3>4 DEF Continues
  <2> QED BY <1>1, <1>v, <1>w, <2>1, <2>3
<1>7. section'[p] = "report" => AtEnd(p)'
  <2>1. ASSUME section'[p] = "report" PROVE todo'[p] = <<>>
    <3>1. todo'[p] = Part(Current(p)', p, "report", shape'[p], irep'[p])
      BY <1>1, <2>1 DEF Begun
    <3> QED BY <3>1 DEF Part
  <2> QED BY <2>1 DEF AtEnd
<1>8. section'[p] = "report" /\ gcheck'[p] => nrep'[p] = irep'[p]
  BY <1>1, <1>v, <1>w, <1>4, <1>6
<1>9. arrivals'[p] \in Nat /\ gcheck'[p] \in BOOLEAN /\ inside'[p] \in BOOLEAN
  BY <1>1 DEF LoopAt
<1>10. ~(Behind(p)' >= 1) /\ ~(Passed(p)' >= 1)
  BY <1>3
<1> QED BY <1>3, <1>w, <1>6, <1>7, <1>8, <1>9, <1>10 DEF LoopAt

-----------------------------------------------------------------------------
(***************************************************************************)
(* Where the image is going.                                               *)
(***************************************************************************)
LEMMA PassedWithin ==
  ASSUME NEW p, PlacedAt(p), section[p] # "done"
  PROVE  /\ Passed(p) \in Nat /\ Passed(p) <= Len(TraceAt(View(p)))
         /\ InAll(p) => At(View(p), Behind(p), "sync all") /\ Passed(p) = Behind(p) + 1
         /\ ~InAll(p) => Passed(p) = Behind(p)
<1>1. Behind(p) \in Nat /\ Behind(p) <= Len(TraceAt(View(p)))
  BY Placing
<1>2. ASSUME InAll(p) PROVE At(View(p), Behind(p), "sync all") /\ Passed(p) = Behind(p) + 1
  <2>1. About(p, "sync all") /\ Passed(p) = Behind(p) + 1
    BY <1>2 DEF InAll, Passed
  <2>2. "sync all" \in Control
    BY DEF Control
  <2> QED BY <2>1, <2>2, AboutOp, Zenon
<1>3. ~InAll(p) => Passed(p) = Behind(p)
  BY DEF Passed
<1>4. ASSUME InAll(p) PROVE Behind(p) + 1 <= Len(TraceAt(View(p)))
  BY <1>2, <1>4, AtPart, Zenon
<1> QED BY <1>1, <1>2, <1>3, <1>4, Ahead, Zenon

\* Into the last sync all of a trial it goes from right before it.
LEMMA OnwardAt5 ==
  ASSUME NEW v, NEW m \in Nat, NEW g, InPart(v), m <= Len(TraceAt(v)), g = Onward(v, m),
         g.section = "close", g.at = 5
  PROVE  v.section = "close" /\ m \in {3, 4}
<1>3. v.section = "close"
  <2>1. CASE g = ToClose(v)
    <3>1. g.at = 1
      BY <2>1, PlaceFields DEF ToClose
    <3> QED BY <3>1
  <2>2. CASE g = PlaceOf(v, NextSync(TraceAt(v), m))
    <3>1. g.section = v.section
      BY <2>2, PlaceOfFields
    <3> QED BY <3>1
  <2>3. CASE g = AfterPart(v)
    <3>1. Inner(g, v) \/ Outer(g)
      BY <2>3, AfterPartWhere
    <3> QED BY <3>1 DEF Inner, Outer
  <2> QED BY <2>1, <2>2, <2>3, OnwardWhere
<1>4. Len(TraceAt(v)) = 5
  <2>1. TraceAt(v) = Trace(CallAt(v), "close")
    BY <1>3, SteadyAt
  <2> QED BY <2>1, CloseTrace
<1>5. m \in 0 .. 5
  BY <1>4
<1>6. /\ m # 5 => g.at = ClosingPlace(m)
      /\ m = 5 => Outer(g)
  BY <1>3, <1>5, OnwardClose
<1>7. m # 5 /\ ClosingPlace(m) = 5
  BY <1>6 DEF Outer
<1>8. m \in {3, 4}
  BY <1>5, <1>7 DEF ClosingPlace
<1> QED BY <1>3, <1>8

\* The same of an image.
LEMMA GoalAt5 ==
  ASSUME NEW p, PlacedAt(p), Goal(p).section = "close", Goal(p).at = 5
  PROVE  section[p] = "close" /\ Passed(p) \in {3, 4}
<1>v. PICK v : v = View(p) /\ v.section = section[p]
  BY ViewFields
<1>m. PICK m : m = Passed(p)
  OBVIOUS
<1>g. PICK g : g = Onward(v, m) /\ g.section = "close" /\ g.at = 5
  BY <1>v, <1>m DEF Goal
<1>1. section[p] # "done"
  <2>1. ASSUME section[p] = "done" PROVE FALSE
    <3>1. TraceAt(v) = <<>> /\ Behind(p) = 0 /\ AtEnd(p)
      BY <1>v, <2>1, PlacingDone
    <3>2. m = 0
      BY <1>m, <3>1 DEF Passed, InAll, About
    <3>3. Len(<<>>) = 0
      BY Short
    <3>4. NextSync(TraceAt(v), m) = 0 /\ ~Exits(v, m)
      BY <3>1, <3>2, <3>3 DEF NextSync, Exits
    <3>5. g = AfterPart(v)
      BY <1>g, <3>4 DEF Onward
    <3>6. g = Place(v.call, "done", NoShape, 1, 0, 0)
      BY <1>v, <2>1, <3>5 DEF AfterPart
    <3> QED BY <1>g, <3>6 DEF Place
  <2> QED BY <2>1
<1>2. InPart(v) /\ m \in Nat /\ m <= Len(TraceAt(v))
  BY <1>v, <1>m, <1>1, Placing, PassedWithin
<1> QED BY <1>v, <1>m, <1>g, <1>2, OnwardAt5

\* An image that knows the time is before or behind that sync all.
LEMMA TimedGoal ==
  ASSUME NEW p, PlacedAt(p), Timed(p)
  PROVE  /\ Behind(p) \in {4, 5}
         /\ Goal(p).section # "close" \/ Goal(p).at # 3
         /\ Here(p).at # 3
<1>1. section[p] = "close" /\ Behind(p) >= 4
  BY DEF Timed
<1>v. PICK v : v = View(p) /\ v.section = "close"
  BY <1>1, ViewFields
<1>m. PICK m : m = Passed(p)
  OBVIOUS
<1>2. /\ InPart(v) /\ TraceAt(v) = Trace(Current(p), "close")
      /\ Behind(p) \in Nat /\ Behind(p) <= Len(TraceAt(v))
      /\ m \in Nat /\ m <= Len(TraceAt(v))
      /\ m = Behind(p) \/ m = Behind(p) + 1
  BY <1>1, <1>v, <1>m, Placing, PassedWithin
<1>3. Len(TraceAt(v)) = 5
  BY <1>2, CloseTrace
<1>4. Behind(p) \in {4, 5} /\ m \in {4, 5} /\ m \in 0 .. 5
  <2>1. PICK b : b = Behind(p)
    OBVIOUS
  <2>2. b \in Nat /\ b >= 4 /\ b <= 5
    BY <1>1, <1>2, <1>3, <2>1, Zenon
  <2>3. m \in Nat /\ m <= 5 /\ (m = b \/ m = b + 1)
    BY <1>2, <1>3, <2>1, Zenon
  <2>4. b \in {4, 5} /\ m \in {4, 5} /\ m \in 0 .. 5
    BY <2>2, <2>3
  <2> QED BY <2>1, <2>4, Zenon
<1>5. PICK g : g = Onward(v, m) /\ g = Goal(p)
  BY <1>v, <1>m DEF Goal
<1>6. /\ m # 5 => g.at = ClosingPlace(m)
      /\ m = 5 => Outer(g)
  BY <1>5, <1>v, <1>2, <1>4, OnwardClose
<1>7. g.section # "close" \/ g.at # 3
  BY <1>4, <1>6 DEF Outer, ClosingPlace
<1>8. Here(p).at # 3
  <2>1. Here(p).at = Behind(p) + 1
    BY PlaceOfFields DEF Here
  <2> QED BY <1>4, <2>1
<1> QED BY <1>4, <1>5, <1>7, <1>8

-----------------------------------------------------------------------------
(***************************************************************************)
(* How far the others are when an image takes a step.                      *)
(***************************************************************************)
Level(p, q)   == arrivals[q] = arrivals[p] /\ Goal(q) = Goal(p)
Leading(q, p) == arrivals[q] = arrivals[p] + 1 /\ InAll(q) /\ Goal(p) = Here(q)

\* Nobody has yet to enter the sync all this image has entered last.
Caught(p) == \A q \in Im : arrivals[p] # arrivals[q] + 1

\* What is needed of numbers that differ by at most one.
LEMMA Counts ==
  \A a, b \in Nat :
    /\ a <= b + 1 /\ a # b + 1 => a <= b
    /\ a <= b /\ b <= a + 1 => b = a \/ b = a + 1
    /\ a + 1 # a /\ a # a + 1 + 1 /\ a + 1 <= a + 1 /\ a <= a + 1 + 1 /\ a + 1 <= a + 1 + 1
    /\ b = a + 1 => a <= b + 1 /\ a # b /\ a # b + 1 /\ b <= a + 1
    /\ a + 1 = b + 1 => a = b
    /\ a + 1 = b => b = a + 1
    /\ a \in Nat /\ a + 1 \in Nat /\ a + 1 + 1 \in Nat /\ a <= a + 1
    /\ a + 1 + 1 # a /\ a + 1 # a + 1 + 1 /\ ~(a + 1 + 1 <= a + 1)
OBVIOUS

\* An image that is in no sync all has not entered one more than another.
LEMMA NotInside ==
  ASSUME SyncInv, NEW p \in Im, ~InAll(p)
  PROVE  Caught(p)
BY DEF SyncInv, Caught

\* Then the others have entered as many, or one more and wait there for this
\* one.
LEMMA Abreast ==
  ASSUME ImagesInv, SyncInv, NEW p \in Im, Caught(p), NEW q \in Im
  PROVE  Level(p, q) \/ Leading(q, p)
<1>1. arrivals[p] \in Nat /\ arrivals[q] \in Nat
  BY DEF ImagesInv, LoopAt
<1>2. /\ arrivals[p] <= arrivals[q] + 1 /\ arrivals[q] <= arrivals[p] + 1
      /\ arrivals[p] # arrivals[q] + 1
  BY DEF SyncInv, Caught
<1>3. arrivals[q] = arrivals[p] \/ arrivals[q] = arrivals[p] + 1
  BY <1>1, <1>2, Counts, Zenon
<1> QED BY <1>3 DEF SyncInv, Level, Leading

\* Before the time is known nobody judges by it.
LEMMA NobodyTimed ==
  ASSUME ImagesInv, SyncInv, NEW p \in Im, ~InAll(p), section[p] = "close", Behind(p) = 2,
         NEW q \in Im
  PROVE  ~Timed(q)
<1>1. PlacedAt(p) /\ PlacedAt(q)
  BY DEF ImagesInv
<1>v. PICK v : v = View(p) /\ v.section = "close"
  BY ViewFields
<1>2. PICK g : g = Onward(v, 2) /\ g = Goal(p)
  BY <1>v DEF Goal, Passed
<1>3. InPart(v) /\ 2 \in 0 .. 5
  BY <1>1, <1>v, Placing
<1>4. g.section = "close" /\ g.at = 3
  BY <1>v, <1>2, <1>3, OnwardClose DEF ClosingPlace
<1>5. Goal(q) = g \/ Here(q) = g
  BY <1>2, NotInside, Abreast DEF Level, Leading
<1> QED BY <1>1, <1>4, <1>5, TimedGoal

-----------------------------------------------------------------------------
(***************************************************************************)
(* Steps that keep what images know of each other.                         *)
(***************************************************************************)
LEMMA Undisturbed ==
  ASSUME TypesInv, NEW p \in Im, Alone(p), NEW q \in Im, q # p
  PROVE  /\ Stays(q) /\ (Learns(q)' <=> Learns(q)) /\ \A ops : Due(q, ops)' <=> Due(q, ops)
<1>1. Stays(q) /\ build' = build
  BY AloneKeeps, KeepsStays DEF Alone
<1>2. Goal(q)' = Goal(q) /\ Ready(q)' = Ready(q)
  BY <1>1 DEF Stays
<1>3. Learns(q)' <=> Learns(q)
  BY <1>2, Zenon DEF Learns
<1>4. \A ops : Due(q, ops)' <=> Due(q, ops)
  BY <1>1, <1>2, Zenon DEF Due
<1> QED BY <1>1, <1>3, <1>4

\* The images are the same ones.
LEMMA SameImages ==
  ASSUME NEW p, Alone(p)
  PROVE  Im' = Im
BY DEF Alone, Im

\* It is on the way to the same sync all as before.
LEMMA SyncKept ==
  ASSUME ImagesInv, SyncInv, NEW p \in Im, Alone(p), Caught(p), Goal(p)' = Goal(p),
         arrivals'[p] = arrivals[p]
  PROVE  SyncInv'
<1>0. TypesInv
  BY DEF ImagesInv
<1>1. \A q \in Im : Goal(q)' = Goal(q) /\ arrivals'[q] = arrivals[q]
  BY <1>0, Undisturbed, Zenon DEF Stays
<1>2. \A q \in Im : q # p => InAll(q)' = InAll(q) /\ Here(q)' = Here(q)
  BY <1>0, Undisturbed, Zenon DEF Stays
<1>3. SUFFICES ASSUME NEW a \in Im, NEW b \in Im
               PROVE  /\ arrivals'[a] <= arrivals'[b] + 1
                      /\ arrivals'[a] = arrivals'[b] => Goal(a)' = Goal(b)'
                      /\ arrivals'[a] = arrivals'[b] + 1 => InAll(a)' /\ Goal(b)' = Here(a)'
  BY SameImages, Zenon DEF SyncInv
<1>4. /\ arrivals[a] <= arrivals[b] + 1
      /\ arrivals[a] = arrivals[b] => Goal(a) = Goal(b)
      /\ arrivals[a] = arrivals[b] + 1 => InAll(a) /\ Goal(b) = Here(a)
  BY DEF SyncInv
<1>5. arrivals[a] = arrivals[b] + 1 => a # p
  BY DEF Caught
<1> QED BY <1>1, <1>2, <1>3, <1>4, <1>5, Zenon

\* It has its verdict, if it had to set it, and keeps it.
LEMMA VerdictKept ==
  ASSUME TypesInv, VerdictInv, NEW p \in Im, Alone(p), Goal(p)' = Goal(p),
         arrivals'[p] = arrivals[p], gcheck'[p] = gcheck[p], ltmp' = ltmp,
         (Ready(p)' <=> Ready(p)) \/ Prior(build, Goal(p)) \notin Settings
  PROVE  VerdictInv'
<1>1. \A q \in Im : arrivals'[q] = arrivals[q] /\ gcheck'[q] = gcheck[q]
  BY Undisturbed, Zenon DEF Stays
<1>2. /\ Due(p, Settings)' <=> Due(p, Settings)
      /\ Due(p, {"tally"})' <=> Due(p, {"tally"})
  <2>1. build' = build
    BY DEF Alone
  <2>2. CASE Ready(p)' <=> Ready(p)
    BY <2>1, <2>2, Zenon DEF Due
  <2>3. CASE Prior(build, Goal(p)) \notin Settings
    <3>1. Prior(build, Goal(p)) \notin {"tally"}
      BY <2>3 DEF Settings
    <3> QED BY <2>1, <2>3, <3>1, Zenon DEF Due
  <2> QED BY <2>2, <2>3
<1>3. \A q \in Im : /\ Due(q, Settings)' <=> Due(q, Settings)
                    /\ Due(q, {"tally"})' <=> Due(q, {"tally"})
  BY <1>2, Undisturbed, Zenon
<1>4. SUFFICES ASSUME NEW a \in Im, NEW b \in Im
      PROVE  /\ \/ arrivals'[a] = arrivals'[b] /\ (Due(a, Settings)' <=> Due(b, Settings)')
                \/ arrivals'[a] = arrivals'[b] + 1 /\ ~Due(b, Settings)'
                => gcheck'[a] = gcheck'[b]
             /\ /\ Due(b, {"tally"})'
                /\ \/ arrivals'[a] = arrivals'[b] /\ ~Due(a, {"tally"})'
                   \/ arrivals'[a] = arrivals'[b] + 1
                => gcheck'[a] = \A r \in Im : ltmp'[r]
  BY SameImages, Zenon DEF VerdictInv
<1>5. /\ \/ arrivals[a] = arrivals[b] /\ (Due(a, Settings) <=> Due(b, Settings))
         \/ arrivals[a] = arrivals[b] + 1 /\ ~Due(b, Settings)
         => gcheck[a] = gcheck[b]
      /\ /\ Due(b, {"tally"})
         /\ \/ arrivals[a] = arrivals[b] /\ ~Due(a, {"tally"})
            \/ arrivals[a] = arrivals[b] + 1
         => gcheck[a] = \A r \in Im : ltmp[r]
  BY Zenon DEF VerdictInv
<1> QED BY <1>1, <1>3, <1>4, <1>5, Zenon

\* It knows the time only if it did before, and keeps it.
LEMMA TimeKept ==
  ASSUME TypesInv, TimeInv, NEW p \in Im, Alone(p), arrivals'[p] = arrivals[p], dtmp' = dtmp,
         Learns(p)' => Learns(p), Timed(p)' => Timed(p) /\ time'[p] = time[p]
  PROVE  TimeInv'
<1>1. \A q \in Im : /\ arrivals'[q] = arrivals[q]
                    /\ Learns(q)' => Learns(q)
                    /\ Timed(q)' => Timed(q) /\ time'[q] = time[q]
  BY Undisturbed, Zenon DEF Stays
<1>2. SUFFICES ASSUME NEW a \in Im, NEW b \in Im
      PROVE  /\ Timed(a)' /\ Timed(b)' => time'[a] = time'[b]
             /\ /\ Learns(b)' /\ Timed(a)'
                /\ arrivals'[a] = arrivals'[b] \/ arrivals'[a] = arrivals'[b] + 1
                => time'[a] = dtmp'
  BY SameImages, Zenon DEF TimeInv
<1>3. /\ Timed(a) /\ Timed(b) => time[a] = time[b]
      /\ /\ Learns(b) /\ Timed(a)
         /\ arrivals[a] = arrivals[b] \/ arrivals[a] = arrivals[b] + 1
         => time[a] = dtmp
  BY Zenon DEF TimeInv
<1> QED BY <1>1, <1>2, <1>3, Zenon

-----------------------------------------------------------------------------
(***************************************************************************)
(* A statement leads on to the sync all the image was on the way to.       *)
(***************************************************************************)
Acts(p, op) ==
  /\ Executes(p, op)
  /\ op \notin {"stop timer", "learn"} => time'[p] = time[p]
  /\ op = "exit" => gcheck[p]

\* A statement with a sync all behind it.
LEMMA SingleActs ==
  ASSUME NEW p, NEW op \in Single, Acts(p, op)
  PROVE  /\ Goal(p)' = Goal(p) /\ Goal(p) = PlaceOf(View(p), Behind(p) + 2)
         /\ Goal(p).section = section[p] /\ Goal(p).at = Behind(p) + 2
         /\ Prior(build, Goal(p)) = op /\ ~Ready(p) /\ Ready(p)' /\ ~InAll(p)
<1>1. op \in Control /\ op # "sync all"
  BY DEF Single, Control
<1>2. /\ Beside(View(p), View(p)') /\ section'[p] = section[p] /\ section[p] # "done"
      /\ At(View(p), Behind(p), op) /\ Behind(p)' = Behind(p) + 1
      /\ ~InAll(p)' /\ ~InAll(p) /\ Passed(p)' = Behind(p)'
  BY <1>1, ExecutesPlace, Zenon DEF Acts
<1>3. Passed(p) = Behind(p) /\ Passed(p)' = Behind(p) + 1
  BY <1>2, Zenon DEF Passed
<1>v. PICK v : v = View(p) /\ v.section = section[p] /\ v.build = build
  BY ViewFields
<1>w. PICK w : w = View(p)'
  OBVIOUS
<1>m. PICK m : m = Behind(p) /\ m \in Nat
  BY <1>2, AtPart
<1>4. Beside(v, w) /\ At(v, m, op) /\ At(w, m, op)
  BY <1>2, <1>v, <1>w, <1>m, BesideSame
<1>5. PICK g : g = PlaceOf(v, m + 2)
  OBVIOUS
<1>6. Onward(v, m) = g /\ Prior(v.build, g) = op
  BY <1>4, <1>5, OnwardSingle, Zenon
<1>7. Onward(w, m + 1) = g
  <2>1. Onward(w, m + 1) = PlaceOf(w, m + 2)
    BY <1>4, OnwardSingle, Zenon
  <2> QED BY <1>4, <1>5, <2>1, BesideSame, Zenon
<1>8. Goal(p) = g
  BY <1>3, <1>6, <1>v, <1>m, Zenon DEF Goal
<1>9. Goal(p)' = g
  BY <1>3, <1>7, <1>w, <1>m, Zenon DEF Goal
<1>10. g.section = v.section /\ g.at = m + 2
  BY <1>5, PlaceOfFields
<1>11. /\ (m + 1) + 1 = m + 2 /\ m + 1 # m + 2
  BY <1>m
<1>12. ~Ready(p)
  BY <1>3, <1>8, <1>10, <1>11, <1>m, Zenon DEF Ready
<1>13. Ready(p)'
  BY <1>2, <1>3, <1>9, <1>10, <1>11, <1>v, <1>m, Zenon DEF Ready
<1> QED BY <1>2, <1>5, <1>6, <1>8, <1>9, <1>10, <1>12, <1>13, <1>v, <1>m, Zenon

\* Nothing it decides by has changed.
LEMMA SameView ==
  ASSUME NEW p, NEW op, Acts(p, op), op \notin Settings \cup {"stop timer", "learn"}
  PROVE  View(p)' = View(p)
<1>1. /\ Alone(p) /\ Advanced(p, op) /\ gcheck'[p] = gcheck[p] /\ time'[p] = time[p]
  BY DEF Acts, Executes
<1>2. /\ build' = build /\ until' = until
      /\ call'[p] = call[p] /\ section'[p] = section[p] /\ shape'[p] = shape[p]
      /\ trialnrep'[p] = trialnrep[p] /\ irep'[p] = irep[p]
  BY <1>1 DEF Alone, Advanced
<1> QED BY <1>1, <1>2, Zenon DEF View

\* The clock is read, or the loop not left.
LEMMA PassingActs ==
  ASSUME NEW p, NEW op \in {"start timer", "exit"}, Acts(p, op)
  PROVE  /\ Goal(p)' = Goal(p) /\ ~InAll(p)
         /\ (Ready(p)' <=> Ready(p)) \/ Prior(build, Goal(p)) \notin Settings
<1>1. op \in Control /\ op # "sync all" /\ op \notin Settings \cup {"stop timer", "learn"}
  BY DEF Settings, Control
<1>2. /\ section'[p] = section[p]
      /\ At(View(p), Behind(p), op) /\ Behind(p)' = Behind(p) + 1
      /\ ~InAll(p)' /\ ~InAll(p) /\ Passed(p)' = Behind(p)'
  BY <1>1, ExecutesPlace, Zenon DEF Acts
<1>3. Passed(p) = Behind(p) /\ Passed(p)' = Behind(p) + 1
  BY <1>2, Zenon DEF Passed
<1>v. PICK v : v = View(p) /\ v.section = section[p] /\ v.build = build /\ v.ok = gcheck[p]
  BY ViewFields
<1>4. View(p)' = v
  BY <1>1, <1>v, SameView
<1>m. PICK m : m = Behind(p)
  OBVIOUS
<1>5. At(v, m, op) /\ (op = "exit" => v.ok)
  BY <1>2, <1>v, <1>m DEF Acts
<1>6. PICK g : g = Onward(v, m)
  OBVIOUS
<1>7. Onward(v, m + 1) = g
  BY <1>1, <1>5, <1>6, OnwardStep, Zenon
<1>8. Goal(p) = g /\ Goal(p)' = g
  BY <1>3, <1>4, <1>6, <1>7, <1>v, <1>m, Zenon DEF Goal
<1>9. CASE g.section = v.section
  <2>1. Leads(v, m, g)
    BY <1>5, <1>6, <1>9, AtPart DEF Leads
  <2>2. Prior(v.build, g) \notin Settings
    BY <2>1, PriorBehind
  <2> QED BY <1>2, <1>8, <1>v, <2>2, Zenon
<1>10. CASE g.section # v.section
  <2>1. ~Ready(p) /\ ~Ready(p)'
    BY <1>2, <1>8, <1>10, <1>v, Zenon DEF Ready
  <2> QED BY <1>2, <1>8, <2>1
<1> QED BY <1>9, <1>10

\* What does not decide.
LEMMA OtherActs ==
  ASSUME NEW p, NEW op, op \notin Control, Acts(p, op)
  PROVE  /\ Goal(p)' = Goal(p) /\ ~InAll(p) /\ (Ready(p)' <=> Ready(p))
         /\ (Learns(p)' <=> Learns(p)) /\ (Timed(p)' <=> Timed(p))
<1>1. op # "sync all" /\ op \notin Settings \cup {"stop timer", "learn"}
  BY DEF Settings, Control
<1>2. /\ section'[p] = section[p] /\ Behind(p)' = Behind(p)
      /\ ~InAll(p)' /\ ~InAll(p) /\ Passed(p)' = Behind(p)'
  BY <1>1, ExecutesPlace, Zenon DEF Acts
<1>3. Passed(p)' = Passed(p)
  BY <1>2, Zenon DEF Passed
<1>4. View(p)' = View(p)
  BY <1>1, SameView
<1>5. Goal(p)' = Goal(p)
  BY <1>3, <1>4, Zenon DEF Goal
<1>6. Ready(p)' <=> Ready(p)
  BY <1>2, <1>3, <1>5, Zenon DEF Ready
<1>7. (Learns(p)' <=> Learns(p)) /\ (Timed(p)' <=> Timed(p))
  BY <1>2, <1>5, <1>6, Zenon DEF Learns, Timed
<1> QED BY <1>2, <1>5, <1>6, <1>7

\* A number above 3.
LEMMA FourAtLeast ==
  \A b \in Nat : b + 1 >= 4 /\ b # 3 => b >= 4
OBVIOUS

\* A sync all is left that all images have entered.
LEMMA LeavingActs ==
  ASSUME NEW p, Acts(p, "sync all")
  PROVE  /\ Goal(p)' = Goal(p) /\ (Ready(p)' <=> Ready(p))
         /\ (Learns(p)' <=> Learns(p)) /\ (Timed(p)' => Timed(p))
<1>1. "sync all" \in Control /\ "sync all" \notin Settings \cup {"stop timer", "learn"}
  BY DEF Settings, Control
<1>2. /\ section'[p] = section[p] /\ Behind(p)' = Behind(p) + 1
      /\ At(View(p), Behind(p), "sync all")
      /\ ~InAll(p)' /\ InAll(p) /\ Passed(p)' = Behind(p)' /\ PlacedAt(p)
  BY <1>1, ExecutesPlace, Zenon DEF Acts, Executes
<1>3. Passed(p)' = Passed(p)
  BY <1>2, Zenon DEF Passed
<1>4. View(p)' = View(p)
  BY <1>1, SameView
<1>5. Goal(p)' = Goal(p)
  BY <1>3, <1>4, Zenon DEF Goal
<1>6. Ready(p)' <=> Ready(p)
  BY <1>2, <1>3, <1>5, Zenon DEF Ready
<1>7. Learns(p)' <=> Learns(p)
  BY <1>5, <1>6, Zenon DEF Learns
<1>8. ASSUME Timed(p)' PROVE Timed(p)
  <2>1. section[p] = "close" /\ Behind(p) + 1 >= 4
    BY <1>2, <1>8 DEF Timed
  <2>2. ASSUME Behind(p) = 3 PROVE FALSE
    <3>1. TraceAt(View(p)) = Trace(Current(p), "close")
      BY <1>2, <2>1, Placing
    <3>2. TraceAt(View(p))[3 + 1] = "sync all"
      BY <1>2, <2>2, AtPart, ZenonT(60)
    <3>3. Trace(Current(p), "close")[3 + 1] = "learn"
      BY CloseTrace, Few, Zenon
    <3>4. "learn" # "sync all"
      OBVIOUS
    <3> QED BY <3>1, <3>2, <3>3, <3>4, Zenon
  <2>3. PICK b : b = Behind(p) /\ b \in Nat
    BY <1>2, AtPart
  <2>4. b + 1 >= 4 /\ b # 3
    BY <2>1, <2>2, <2>3, Zenon
  <2>5. b >= 4
    BY <2>3, <2>4, FourAtLeast, Zenon
  <2> QED BY <2>1, <2>3, <2>5, Zenon DEF Timed
<1> QED BY <1>5, <1>6, <1>7, <1>8

\* The loops, and the exit from the loop.
LEMMA ProceedsGoal ==
  ASSUME Orderly, NEW p, PlacedAt(p), LoopAt(p), Proceeds(p)
  PROVE  /\ Goal(p)' = Goal(p) /\ ~InAll(p)
         /\ (Ready(p)' <=> Ready(p)) \/ Prior(build, Goal(p)) \notin Settings
         /\ ~Learns(p)' /\ ~Timed(p)'
<1>1. /\ build' = build
      /\ \/ AtEnd(p) /\ Continues(View(p), View(p)')
         \/ /\ About(p, "exit") /\ ~gcheck[p]
            /\ Further(View(p), View(p)', "close", shape[p], trialnrep[p], irep[p])
  BY DEF Proceeds, Alone
<1>2. /\ Behind(p)' = 0 /\ ~InAll(p) /\ ~InAll(p)' /\ section[p] # "done" /\ PlacedAt(p)'
  BY ProceedsPlace DEF Starts
<1>3. Passed(p) = Behind(p) /\ Passed(p)' = 0
  BY <1>2, Zenon DEF Passed
<1>v. PICK v : /\ v = View(p) /\ v.section = section[p] /\ v.build = build /\ v.ok = gcheck[p]
               /\ v.shape = shape[p] /\ v.nrep = trialnrep[p] /\ v.irep = irep[p]
  BY ViewFields
<1>w. PICK w : w = View(p)' /\ w.section = section'[p]
  BY ViewFieldsNext
<1>m. PICK m : m = Behind(p)
  OBVIOUS
<1>4. InPart(v) /\ (AtEnd(p) => m = Len(TraceAt(v)))
  BY <1>2, <1>v, <1>m, Placing
<1>5. PICK g : g = Onward(v, m)
  OBVIOUS
<1>6. Goal(p) = g
  BY <1>3, <1>5, <1>v, <1>m, Zenon DEF Goal
<1>7. ASSUME AtEnd(p), Continues(v, w) PROVE Onward(w, 0) = g
  <2>1. Onward(v, m) = AfterPart(v)
    BY <1>4, <1>7, OnwardEnd, Zenon
  <2>2. Onward(w, 0) = AfterPart(v)
    BY <1>4, <1>7, OnwardNext, Zenon
  <2> QED BY <1>5, <2>1, <2>2
<1>8. ASSUME About(p, "exit"), ~v.ok, Further(v, w, "close", v.shape, v.nrep, v.irep)
      PROVE  g = ToClose(v) /\ Onward(w, 0) = g
  <2>1. At(v, m, "exit")
    <3>1. "exit" \in Control
      BY DEF Control
    <3> QED BY <1>8, <1>v, <1>m, <3>1, AboutOp, Zenon
  <2> QED BY <1>5, <1>8, <2>1, OnwardExit, Zenon
<1>9. Onward(w, 0) = g
  BY <1>1, <1>v, <1>w, <1>7, <1>8, Zenon
<1>10. Goal(p)' = g
  BY <1>3, <1>9, <1>w, Zenon DEF Goal
<1>11. (Ready(p)' <=> Ready(p)) \/ Prior(build, g) \notin Settings
  <2>1. ASSUME g.at = 1 PROVE Prior(build, g) \notin Settings
    <3>1. Prior(build, g) = ""
      BY <2>1 DEF Prior
    <3> QED BY <3>1 DEF Settings
  <2>2. CASE About(p, "exit") /\ ~v.ok /\ Further(v, w, "close", v.shape, v.nrep, v.irep)
    <3>1. g.at = 1
      BY <1>8, <2>2, PlaceFields DEF ToClose
    <3> QED BY <2>1, <3>1
  <2>3. CASE AtEnd(p)
    <3>1. CASE g.section = v.section
      <4>1. Leads(v, m, g)
        BY <1>4, <1>5, <2>3, <3>1 DEF Leads
      <4> QED BY <1>v, <4>1, PriorBehind
    <3>2. CASE g.section # v.section
      <4>1. ~Ready(p)
        BY <1>6, <1>v, <3>2, Zenon DEF Ready
      <4>2. Ready(p)' => 0 + 1 = g.at
        BY <1>3, <1>10, Zenon DEF Ready
      <4> QED BY <2>1, <4>1, <4>2
    <3> QED BY <3>1, <3>2
  <2> QED BY <1>1, <1>v, <1>w, <2>2, <2>3
<1>12. ~Learns(p)'
  <2>1. ASSUME Goal(p)'.section = "close", Goal(p)'.at = 5 PROVE FALSE
    <3>1. Passed(p) \in {3, 4} /\ section[p] = "close"
      BY <1>2, <1>6, <1>10, <2>1, GoalAt5
    <3>2. CASE About(p, "exit") /\ ~v.ok /\ Further(v, w, "close", v.shape, v.nrep, v.irep)
      <4>1. "exit" \in Closing
        BY <3>1, <3>2, AboutOp
      <4> QED BY <4>1 DEF Closing
    <3>3. CASE AtEnd(p)
      <4>1. Passed(p) = Len(Trace(Current(p), "close"))
        BY <1>2, <1>3, <3>1, <3>3, Placing
      <4>2. Passed(p) = 5
        BY <4>1, CloseTrace
      <4>3. 5 \notin {3, 4}
        OBVIOUS
      <4> QED BY <3>1, <4>2, <4>3, Zenon
    <3> QED BY <1>1, <1>v, <1>w, <3>2, <3>3
  <2> QED BY <2>1 DEF Learns
<1>13. ~Timed(p)'
  BY <1>2 DEF Timed
<1> QED BY <1>2, <1>6, <1>10, <1>11, <1>12, <1>13

-----------------------------------------------------------------------------
(***************************************************************************)
(* Setting the verdict.                                                    *)
(***************************************************************************)
LEMMA OnlyOne ==
  /\ \A n \in Nat : (n + 1 = 1 => n = 0) /\ (n + 1 = 2 => n = 1)
  /\ 1 >= 1 /\ ~(2 < 2) /\ 2 - 1 = 1 /\ ~(2 >= 4) /\ 3 # 5
OBVIOUS

\* The number before 3.
LEMMA TwoBefore ==
  \A n \in Nat : n + 1 = 3 => n = 2
OBVIOUS

\* The number before 4.
LEMMA ThreeBefore ==
  \A n \in Nat : n + 1 = 4 => n = 3 /\ n + 2 = 5
OBVIOUS

\* Where the sync all is that an image is at.
LEMMA HereFields ==
  ASSUME NEW q
  PROVE  Here(q).call = call[q] /\ Here(q).section = section[q] /\ Here(q).at = Behind(q) + 1
<1>v. PICK v : v = View(q) /\ v.call = call[q] /\ v.section = section[q]
  BY ViewFields
<1>n. PICK n : n = Behind(q) + 1
  OBVIOUS
<1>g. PICK g : g = PlaceOf(v, n)
  OBVIOUS
<1>1. g.call = v.call /\ g.section = v.section /\ g.at = n
  BY <1>g, PlaceOfFields
<1>2. g = Here(q)
  BY <1>v, <1>n, <1>g, Zenon DEF Here
<1> QED BY <1>v, <1>n, <1>1, <1>2, Zenon

\* An image that has set it before finds the same.
LEMMA SetVerdict ==
  ASSUME ImagesInv, SyncInv, VerdictInv, NEW p \in Im, NEW op \in Settings,
         Acts(p, op), ltmp' = ltmp,
         \A q \in Im : (Level(p, q) /\ Ready(q)) \/ Leading(q, p) => gcheck[q] = gcheck'[p],
         op = "tally" => gcheck'[p] = \A r \in Im : ltmp[r]
  PROVE  VerdictInv'
<1>0. TypesInv /\ Alone(p) /\ arrivals'[p] = arrivals[p]
  BY DEF ImagesInv, Acts, Executes
<1>1. op \in Single
  BY DEF Settings, Single
<1>2. /\ Goal(p)' = Goal(p) /\ Prior(build, Goal(p)) = op
      /\ ~Ready(p) /\ Ready(p)' /\ ~InAll(p)
  BY <1>1, SingleActs, Zenon
<1>3. Caught(p)
  BY <1>2, NotInside
<1>4. \A ops : ~Due(p, ops)'
  BY <1>2 DEF Due
<1>5. \A q \in Im : arrivals'[q] = arrivals[q]
  BY <1>0, Undisturbed, Zenon DEF Stays
<1>6. \A q \in Im \ {p} :
        /\ gcheck'[q] = gcheck[q]
        /\ Due(q, Settings)' <=> Due(q, Settings)
        /\ Due(q, {"tally"})' <=> Due(q, {"tally"})
  BY <1>0, Undisturbed DEF Stays
\* Those as far as p, and those ahead of it.
<1>7. ASSUME NEW q \in Im, arrivals[q] = arrivals[p], ~Due(q, Settings)
      PROVE  gcheck[q] = gcheck'[p]
  <2>1. Level(p, q)
    BY <1>7 DEF Level, SyncInv
  <2>2. Prior(build, Goal(q)) \in Settings
    BY <1>2, <2>1 DEF Level
  <2>3. Ready(q)
    BY <1>7, <2>2 DEF Due
  <2> QED BY <2>1, <2>3
<1>8. ASSUME NEW q \in Im, arrivals[q] = arrivals[p] + 1
      PROVE  gcheck[q] = gcheck'[p]
  <2>1. Leading(q, p)
    BY <1>8 DEF Leading, SyncInv
  <2> QED BY <2>1
<1>9. ASSUME NEW q \in Im, arrivals[q] = arrivals[p], Due(q, {"tally"})
      PROVE  gcheck'[p] = \A r \in Im : ltmp[r]
  <2>1. Level(p, q)
    BY <1>9 DEF Level, SyncInv
  <2>2. op = "tally"
    BY <1>2, <1>9, <2>1 DEF Due, Level
  <2> QED BY <2>2
<1>10. SUFFICES ASSUME NEW a \in Im, NEW b \in Im
      PROVE  /\ \/ arrivals'[a] = arrivals'[b] /\ (Due(a, Settings)' <=> Due(b, Settings)')
                \/ arrivals'[a] = arrivals'[b] + 1 /\ ~Due(b, Settings)'
                => gcheck'[a] = gcheck'[b]
             /\ /\ Due(b, {"tally"})'
                /\ \/ arrivals'[a] = arrivals'[b] /\ ~Due(a, {"tally"})'
                   \/ arrivals'[a] = arrivals'[b] + 1
                => gcheck'[a] = \A r \in Im : ltmp'[r]
  BY <1>0, SameImages, Zenon DEF VerdictInv
<1>11. CASE a # p /\ b # p
  <2>1. /\ \/ arrivals[a] = arrivals[b] /\ (Due(a, Settings) <=> Due(b, Settings))
           \/ arrivals[a] = arrivals[b] + 1 /\ ~Due(b, Settings)
           => gcheck[a] = gcheck[b]
        /\ /\ Due(b, {"tally"})
           /\ \/ arrivals[a] = arrivals[b] /\ ~Due(a, {"tally"})
              \/ arrivals[a] = arrivals[b] + 1
           => gcheck[a] = \A r \in Im : ltmp[r]
    BY Zenon DEF VerdictInv
  <2>2. a \in Im \ {p} /\ b \in Im \ {p}
    BY <1>11
  <2> QED BY <1>5, <1>6, <2>1, <2>2, Zenon
<1>12. CASE a = p /\ b = p
  <2>1. arrivals'[a] = arrivals'[b] /\ gcheck'[a] = gcheck'[b] /\ ~Due(b, {"tally"})'
    BY <1>4, <1>12
  <2> QED BY <2>1
<1>13. CASE a = p /\ b # p
  <2>1. b \in Im \ {p}
    BY <1>13
  <2>2. ~(arrivals[p] = arrivals[b] + 1)
    BY <1>3 DEF Caught
  <2>3. ~Due(p, Settings)'
    BY <1>4
  <2>4. arrivals[b] = arrivals[p] /\ ~Due(b, Settings) => gcheck[b] = gcheck'[p]
    BY <1>7, <2>1
  <2>5. arrivals[b] = arrivals[p] /\ Due(b, {"tally"}) => (gcheck'[p] = \A r \in Im : ltmp[r])
    BY <1>9, <2>1
  <2> QED BY <1>5, <1>6, <1>13, <2>1, <2>2, <2>3, <2>4, <2>5, Zenon
<1>14. CASE a # p /\ b = p
  <2>1. a \in Im \ {p}
    BY <1>14
  <2>2. ~Due(p, Settings)' /\ ~Due(p, {"tally"})'
    BY <1>4
  <2>3. arrivals[a] = arrivals[p] /\ ~Due(a, Settings) => gcheck[a] = gcheck'[p]
    BY <1>7, <2>1
  <2>4. arrivals[a] = arrivals[p] + 1 => gcheck[a] = gcheck'[p]
    BY <1>8, <2>1
  <2> QED BY <1>5, <1>6, <1>14, <2>1, <2>2, <2>3, <2>4, Zenon
<1> QED BY <1>11, <1>12, <1>13, <1>14

\* Which call the next sync all of a part is in.
LEMMA GoalCall ==
  ASSUME NEW q, PlacedAt(q), section[q] # "done", Goal(q).section = section[q]
  PROVE  Goal(q).call = call[q]
<1>v. PICK v : v = View(q) /\ v.section = section[q] /\ v.call = call[q]
  BY ViewFields
<1>m. PICK m : m = Passed(q)
  OBVIOUS
<1>g. PICK g : g = Onward(v, m) /\ g = Goal(q) /\ g.section = v.section
  BY <1>v, <1>m DEF Goal
<1>1. CASE g = ToClose(v)
  <2>1. g.call = v.call
    BY <1>1, PlaceFields DEF ToClose
  <2> QED BY <1>g, <1>v, <2>1
<1>2. CASE g = PlaceOf(v, NextSync(TraceAt(v), m))
  <2>1. g.call = v.call
    BY <1>2, PlaceOfFields
  <2> QED BY <1>g, <1>v, <2>1
<1>3. CASE g = AfterPart(v)
  <2>1. InPart(v)
    BY <1>v, Placing
  <2>2. v.section = "body" /\ Inner(g, v)
    BY <1>g, <1>3, <2>1, AfterPartWhere
  <2>3. g.call = v.call
    BY <2>2 DEF Inner
  <2> QED BY <1>g, <1>v, <2>3
<1> QED BY <1>g, <1>1, <1>2, <1>3, OnwardWhere

\* An image that is behind a reset has its verdict from it.
LEMMA ResetBehind ==
  ASSUME NEW q, PlacedAt(q), LoopAt(q), section[q] \in {"open", "trial"},
         TraceAt(View(q))[1] = "reset checks", Passed(q) = 1 \/ Behind(q) = 1
  PROVE  gcheck[q] = TRUE
<1>1. section[q] # "done"
  OBVIOUS
<1>2. Behind(q) \in Nat
  BY <1>1, Placing
<1>3. ASSUME InAll(q), Passed(q) = 1 PROVE FALSE
  <2>1. At(View(q), Behind(q), "sync all") /\ Passed(q) = Behind(q) + 1
    BY <1>1, <1>3, PassedWithin
  <2>2. TraceAt(View(q))[Behind(q) + 1] = "sync all"
    BY <2>1, AtPart, Zenon
  <2>3. TraceAt(View(q))[1] = "sync all"
    BY <1>3, <2>1, <2>2
  <2> QED BY <2>3
<1>4. Behind(q) = 1
  BY <1>3 DEF Passed
<1>5. Behind(q) >= 1
  BY <1>4, OnlyOne, Zenon
<1> QED BY <1>5 DEF LoopAt

\* ResetChecks: those who have set the verdict before, at the same place, have
\* set it to TRUE as well.
LEMMA ResetVerdict ==
  ASSUME ImagesInv, SyncInv, VerdictInv, NEW p \in Im, Acts(p, "reset checks"), ltmp' = ltmp
  PROVE  VerdictInv'
<1>1. /\ "reset checks" \in Single /\ "reset checks" \in Settings /\ "reset checks" \in Control
      /\ "reset checks" # "tally"
  BY DEF Single, Settings, Control
<1>2. PlacedAt(p) /\ gcheck'[p] = TRUE /\ LoopAt(p)
  BY DEF Acts, Executes
<1>3. /\ Goal(p) = PlaceOf(View(p), Behind(p) + 2) /\ Goal(p).section = section[p]
      /\ Goal(p).at = Behind(p) + 2 /\ Prior(build, Goal(p)) = "reset checks"
  BY <1>1, SingleActs, Zenon
<1>4. section[p] # "done" /\ At(View(p), Behind(p), "reset checks")
  BY <1>1, ExecutesPlace, Zenon DEF Acts
<1>5. section[p] \in {"open", "trial"} /\ Behind(p) = 0
  <2>1. PlacedIn("reset checks", section[p], Behind(p) + 1)
    BY <1>4, OpsAt, ViewFields
  <2>2. section[p] \in {"open", "trial"} /\ Behind(p) + 1 = 1
    BY <2>1 DEF PlacedIn
  <2>3. Behind(p) \in Nat
    BY <1>4, AtPart
  <2> QED BY <2>2, <2>3, OnlyOne, Zenon
<1>6. PICK g : g = Goal(p) /\ g.section = section[p] /\ g.at = 2 /\ g.section \in {"open", "trial"}
  BY <1>3, <1>5, Sums, Zenon
<1>7. Trace(Calls[build][g.call], g.section)[1] = "reset checks"
  <2>1. g.section # "done" /\ ~(g.at < 2) /\ g.at - 1 = 1
    <3>1. g.section # "done"
      BY <1>6
    <3> QED BY <1>6, <3>1, OnlyOne, Zenon
  <2> QED BY <1>3, <1>6, <2>1 DEF Prior
<1>8. ASSUME NEW q \in Im, section[q] = g.section, g.call = call[q],
             Passed(q) = 1 \/ Behind(q) = 1
      PROVE  gcheck[q] = TRUE
  <2>1. TraceAt(View(q))[1] = "reset checks"
    <3>1. CallAt(View(q)) = Calls[build][g.call] /\ View(q).section = g.section
      BY <1>8, ViewFields, ZenonT(60) DEF Current
    <3>2. g.section # "done"
      BY <1>6
    <3> QED BY <1>7, <3>1, <3>2, Zenon DEF TraceAt
  <2>2. PlacedAt(q) /\ LoopAt(q)
    BY DEF ImagesInv
  <2> QED BY <1>6, <1>8, <2>1, <2>2, ResetBehind
<1>9. ASSUME NEW q \in Im, Level(p, q), Ready(q) PROVE gcheck[q] = gcheck'[p]
  <2>1. Goal(q) = g /\ section[q] = g.section /\ Passed(q) + 1 = 2
    BY <1>6, <1>9 DEF Level, Ready
  <2>2. PlacedAt(q) /\ section[q] # "done"
    BY <1>6, <2>1 DEF ImagesInv
  <2>3. g.call = call[q]
    BY <2>1, <2>2, GoalCall
  <2>4. Passed(q) \in Nat
    BY <2>2, PassedWithin
  <2>5. Passed(q) = 1
    BY <2>1, <2>4, OnlyOne, Zenon
  <2> QED BY <1>2, <1>8, <2>1, <2>3, <2>5
<1>10. ASSUME NEW q \in Im, Leading(q, p) PROVE gcheck[q] = gcheck'[p]
  <2>1. InAll(q) /\ g = Here(q)
    BY <1>6, <1>10 DEF Leading
  <2>3. g.call = call[q] /\ g.section = section[q] /\ g.at = Behind(q) + 1
    BY <2>1, HereFields
  <2>4. PlacedAt(q) /\ section[q] # "done"
    BY <1>6, <2>3 DEF ImagesInv
  <2>5. Behind(q) = 1
    <3>1. Behind(q) + 1 = 2 /\ Behind(q) \in Nat
      BY <1>6, <2>3, <2>4, Placing, Zenon
    <3> QED BY <3>1, OnlyOne, Zenon
  <2> QED BY <1>2, <1>8, <2>3, <2>5
<1>11. gcheck'[p] = TRUE
  BY <1>2
<1> QED BY <1>1, <1>9, <1>10, SetVerdict

\* Tally: those who have counted the votes before have counted the same.
LEMMA TallyVerdict ==
  ASSUME ImagesInv, SyncInv, VerdictInv, NEW p \in Im, Acts(p, "tally"), ltmp' = ltmp,
         gcheck'[p] = \A r \in Im : ltmp[r]
  PROVE  VerdictInv'
<1>1. "tally" \in Single /\ "tally" \in Settings
  BY DEF Single, Settings
<1>2. Prior(build, Goal(p)) = "tally" /\ ~Ready(p)
  BY <1>1, SingleActs, Zenon
<1>3. Due(p, {"tally"})
  BY <1>2 DEF Due
<1>4. ASSUME NEW q \in Im, (Level(p, q) /\ Ready(q)) \/ Leading(q, p)
      PROVE  gcheck[q] = gcheck'[p]
  <2>1. \/ arrivals[q] = arrivals[p] /\ ~Due(q, {"tally"})
        \/ arrivals[q] = arrivals[p] + 1
    BY <1>4 DEF Level, Leading, Due
  <2>2. gcheck[q] = \A r \in Im : ltmp[r]
    BY <1>3, <2>1, Zenon DEF VerdictInv
  <2> QED BY <2>2, Zenon
<1> QED BY <1>1, <1>4, SetVerdict, Zenon

\* Images vote when all have counted the votes before.
LEMMA VoteVerdict ==
  ASSUME ImagesInv, SyncInv, VerdictInv, NEW p \in Im, Acts(p, "vote")
  PROVE  VerdictInv'
<1>0. TypesInv /\ Alone(p) /\ arrivals'[p] = arrivals[p]
  BY DEF ImagesInv, Acts, Executes
<1>1. "vote" \in Single /\ "vote" \notin Settings
  BY DEF Single, Settings
<1>2. /\ Goal(p)' = Goal(p) /\ Prior(build, Goal(p)) = "vote" /\ ~InAll(p)
  BY <1>1, SingleActs, Zenon
<1>3. gcheck'[p] = gcheck[p]
  BY <1>1 DEF Acts, Executes
<1>4. \A ops \in {Settings, {"tally"}} : ~Due(p, ops) /\ ~Due(p, ops)'
  <2>1. \A ops \in {Settings, {"tally"}} : "vote" \notin ops
    BY <1>1
  <2>2. build' = build
    BY <1>0 DEF Alone
  <2> QED BY <1>2, <2>1, <2>2 DEF Due
<1>5. \A q \in Im : arrivals'[q] = arrivals[q] /\ gcheck'[q] = gcheck[q]
  BY <1>0, <1>3, Undisturbed, Zenon DEF Stays
<1>6. \A q \in Im : /\ Due(q, Settings)' <=> Due(q, Settings)
                    /\ Due(q, {"tally"})' <=> Due(q, {"tally"})
  BY <1>0, <1>4, Undisturbed
\* Nobody has yet to count votes, except where all others have yet to.
<1>7. ASSUME NEW a \in Im, NEW b \in Im, Due(b, {"tally"}),
             \/ arrivals[a] = arrivals[b] /\ ~Due(a, {"tally"})
             \/ arrivals[a] = arrivals[b] + 1
      PROVE  FALSE
  <2>1. Level(p, b) \/ Leading(b, p)
    BY <1>2, NotInside, Abreast
  <2>2. ~Level(p, b)
    BY <1>2, <1>7 DEF Level, Due
  <2>3. Leading(b, p)
    BY <2>1, <2>2
  <2>4. Level(p, a) \/ Leading(a, p)
    BY <1>2, NotInside, Abreast
  <2>5. arrivals[p] \in Nat
    BY DEF ImagesInv, LoopAt
  <2>6. arrivals[b] = arrivals[p] + 1 /\ (arrivals[a] = arrivals[p] \/ arrivals[a] = arrivals[p] + 1)
    BY <2>3, <2>4 DEF Level, Leading
  <2>7. arrivals[a] = arrivals[b] /\ Leading(a, p) /\ ~Due(a, {"tally"})
    <3>1. arrivals[a] # arrivals[b] + 1
      BY <2>5, <2>6, Counts, Zenon
    <3>2. arrivals[a] = arrivals[b] /\ ~Due(a, {"tally"})
      BY <1>7, <3>1
    <3>3. ~Level(p, a)
      BY <2>5, <2>6, <3>2, Counts, Zenon DEF Level
    <3> QED BY <2>4, <3>2, <3>3
  <2>8. Goal(a) = Goal(b)
    BY <2>7 DEF SyncInv
  <2>9. Ready(a) /\ ~Ready(b)
    BY <1>7, <2>7, <2>8 DEF Due
  <2>10. Here(a) = Here(b) /\ InAll(a) /\ InAll(b)
    BY <2>3, <2>7 DEF Leading
  <2>11. section[a] = section[b] /\ Behind(a) + 1 = Behind(b) + 1
    BY <2>10, HereFields, Zenon
  <2>12. Passed(a) = Passed(b)
    BY <2>10, <2>11, Zenon DEF Passed
  <2> QED BY <2>8, <2>9, <2>11, <2>12, Zenon DEF Ready
<1>8. SUFFICES ASSUME NEW a \in Im, NEW b \in Im
      PROVE  /\ \/ arrivals'[a] = arrivals'[b] /\ (Due(a, Settings)' <=> Due(b, Settings)')
                \/ arrivals'[a] = arrivals'[b] + 1 /\ ~Due(b, Settings)'
                => gcheck'[a] = gcheck'[b]
             /\ /\ Due(b, {"tally"})'
                /\ \/ arrivals'[a] = arrivals'[b] /\ ~Due(a, {"tally"})'
                   \/ arrivals'[a] = arrivals'[b] + 1
                => gcheck'[a] = \A r \in Im : ltmp'[r]
  BY <1>0, SameImages, Zenon DEF VerdictInv
<1>9. /\ \/ arrivals[a] = arrivals[b] /\ (Due(a, Settings) <=> Due(b, Settings))
         \/ arrivals[a] = arrivals[b] + 1 /\ ~Due(b, Settings)
         => gcheck[a] = gcheck[b]
  BY Zenon DEF VerdictInv
<1> QED BY <1>5, <1>6, <1>7, <1>9, Zenon

-----------------------------------------------------------------------------
(***************************************************************************)
(* Measuring, sharing and learning the time.                               *)
(***************************************************************************)
\* The time changes when nobody judges by it yet.
LEMMA StopTime ==
  ASSUME TypesInv, TimeInv, NEW p \in Im, Acts(p, "stop timer"), dtmp' = dtmp
  PROVE  TimeInv'
<1>1. "stop timer" \in Single /\ "stop timer" \in Control
  BY DEF Single, Control
<1>2. /\ Goal(p)' = Goal(p) /\ Goal(p).at = Behind(p) + 2 /\ ~Ready(p)
  BY <1>1, SingleActs, Zenon
<1>3. At(View(p), Behind(p), "stop timer") /\ Behind(p)' = Behind(p) + 1
  BY <1>1, ExecutesPlace, Zenon DEF Acts
<1>4. Behind(p) = 1
  <2>1. PlacedIn("stop timer", View(p).section, Behind(p) + 1)
    BY <1>3, OpsAt
  <2>2. Behind(p) + 1 = 2 /\ Behind(p) \in Nat
    BY <1>3, <2>1, AtPart DEF PlacedIn
  <2> QED BY <2>2, OnlyOne, Zenon
<1>5. ~Timed(p)'
  <2>1. Behind(p)' = 2
    BY <1>3, <1>4, Sums, Zenon
  <2> QED BY <2>1, OnlyOne, Zenon DEF Timed
<1>6. ~Learns(p)'
  <2>1. Goal(p)'.at = 3
    BY <1>2, <1>4, Sums, Zenon
  <2> QED BY <2>1, OnlyOne, Zenon DEF Learns
<1>7. Alone(p) /\ arrivals'[p] = arrivals[p]
  BY DEF Acts, Executes
<1> QED BY <1>5, <1>6, <1>7, TimeKept

\* Learn: an image that knows the time has it from the same dbcast.
LEMMA LearnTime ==
  ASSUME ImagesInv, SyncInv, TimeInv, NEW p \in Im, Acts(p, "learn"), dtmp' = dtmp,
         time'[p] = dtmp
  PROVE  TimeInv'
<1>0. TypesInv /\ Alone(p) /\ arrivals'[p] = arrivals[p]
  BY DEF ImagesInv, Acts, Executes
<1>1. "learn" \in Single /\ "learn" \in Control
  BY DEF Single, Control
<1>2. /\ Goal(p)' = Goal(p) /\ Goal(p).at = Behind(p) + 2 /\ Goal(p).section = section[p]
      /\ ~Ready(p) /\ Ready(p)' /\ ~InAll(p)
  BY <1>1, SingleActs, Zenon
<1>3. At(View(p), Behind(p), "learn")
  BY <1>1, ExecutesPlace, Zenon DEF Acts
<1>4. section[p] = "close" /\ Goal(p).at = 5
  <2>1. PlacedIn("learn", View(p).section, Behind(p) + 1)
    BY <1>3, OpsAt
  <2>2. Behind(p) + 1 = 4 /\ Behind(p) \in Nat /\ View(p).section = "close"
    BY <1>3, <2>1, AtPart DEF PlacedIn
  <2>3. Behind(p) + 2 = 5
    BY <2>2, ThreeBefore, Zenon
  <2> QED BY <1>2, <2>2, <2>3, ViewFields
<1>5. Learns(p)
  BY <1>2, <1>4 DEF Learns
<1>6. ~Learns(p)'
  BY <1>2 DEF Learns
<1>7. ASSUME NEW q \in Im, Timed(q) PROVE time[q] = dtmp
  <2>1. Level(p, q) \/ Leading(q, p)
    BY <1>2, NotInside, Abreast
  <2>2. arrivals[q] = arrivals[p] \/ arrivals[q] = arrivals[p] + 1
    BY <2>1 DEF Level, Leading
  <2> QED BY <1>5, <1>7, <2>2, Zenon DEF TimeInv
<1>8. \A q \in Im \ {p} : /\ Timed(q)' <=> Timed(q)
                          /\ time'[q] = time[q] /\ arrivals'[q] = arrivals[q]
                          /\ Learns(q)' <=> Learns(q)
  BY <1>0, Undisturbed DEF Stays
<1>9. SUFFICES ASSUME NEW a \in Im, NEW b \in Im
      PROVE  /\ Timed(a)' /\ Timed(b)' => time'[a] = time'[b]
             /\ /\ Learns(b)' /\ Timed(a)'
                /\ arrivals'[a] = arrivals'[b] \/ arrivals'[a] = arrivals'[b] + 1
                => time'[a] = dtmp'
  BY <1>0, SameImages, Zenon DEF TimeInv
<1>10. \A q \in Im : Timed(q)' => time'[q] = dtmp
  BY <1>7, <1>8
<1> QED BY <1>10, Zenon

\* Share: nobody judges by the time yet.
LEMMA ShareTime ==
  ASSUME ImagesInv, SyncInv, TimeInv, NEW p \in Im, Acts(p, "share"), About(p, "share")
  PROVE  TimeInv'
<1>0. TypesInv /\ Alone(p) /\ arrivals'[p] = arrivals[p] /\ PlacedAt(p)
  BY DEF ImagesInv, Acts, Executes
<1>1. "share" \notin Control
  BY DEF Control
<1>2. ~InAll(p) /\ (Timed(p)' <=> Timed(p))
  BY <1>1, OtherActs, Zenon
<1>3. section[p] = "close" /\ Behind(p) = 2
  BY <1>0, AboutOp
<1>4. \A q \in Im : ~Timed(q)
  BY <1>2, <1>3, NobodyTimed, Zenon
<1>5. \A q \in Im : ~Timed(q)'
  BY <1>0, <1>2, <1>4, Undisturbed DEF Stays
<1> QED BY <1>0, <1>5, SameImages, Zenon DEF TimeInv

-----------------------------------------------------------------------------
(***************************************************************************)
(* Entering a sync all.                                                    *)
(***************************************************************************)
Entering(p) ==
  /\ ~InAll(p) /\ InAll(p)' /\ arrivals'[p] = arrivals[p] + 1
  /\ View(p)' = View(p) /\ Behind(p)' = Behind(p)
  /\ At(View(p), Behind(p), "sync all")
  /\ Alone(p) /\ Common

\* EnterSyncAll does this.
LEMMA EntersEntering ==
  ASSUME NEW p, PlacedAt(p), LoopAt(p), Enters(p, "sync all")
  PROVE  Entering(p)
<1>1. /\ View(p)' = View(p) /\ Behind(p)' = Behind(p) /\ ~InAll(p) /\ InAll(p)'
      /\ At(View(p), Behind(p), "sync all")
  BY EntersPlace
<1>2. arrivals'[p] = arrivals[p] + 1 /\ Alone(p) /\ Common
  BY DEF Enters
<1> QED BY <1>1, <1>2, Zenon DEF Entering

\* It is on the way to the sync all that it is at, and then in it.
LEMMA EnteringFields ==
  ASSUME NEW p, PlacedAt(p), Entering(p)
  PROVE  /\ section'[p] = section[p] /\ gcheck'[p] = gcheck[p] /\ time'[p] = time[p]
         /\ Here(p)' = Here(p) /\ Goal(p) = Here(p) /\ Ready(p)
         /\ Passed(p)' = Behind(p) + 1 /\ (Timed(p)' <=> Timed(p))
<1>1. /\ View(p)' = View(p) /\ Behind(p)' = Behind(p) /\ ~InAll(p) /\ InAll(p)'
      /\ At(View(p), Behind(p), "sync all")
  BY DEF Entering
<1>2. section'[p] = section[p] /\ gcheck'[p] = gcheck[p] /\ time'[p] = time[p]
  <2>1. PICK v : v = View(p) /\ v.section = section[p] /\ v.ok = gcheck[p] /\ v.time = time[p]
    BY ViewFields
  <2>2. PICK w : w = View(p)' /\ w.section = section'[p] /\ w.ok = gcheck'[p] /\ w.time = time'[p]
    BY ViewFieldsNext
  <2>3. v = w
    BY <1>1, <2>1, <2>2
  <2> QED BY <2>1, <2>2, <2>3
<1>3. Passed(p) = Behind(p) /\ Passed(p)' = Behind(p) + 1
  BY <1>1, Zenon DEF Passed
<1>4. Goal(p) = Here(p) /\ Here(p)' = Here(p)
  BY <1>1, <1>3, OnwardSync, Zenon DEF Goal, Here
<1>5. Ready(p)
  BY <1>3, <1>4, HereFields, Zenon DEF Ready
<1>6. Timed(p)' <=> Timed(p)
  BY <1>1, <1>2, Zenon DEF Timed
<1> QED BY <1>2, <1>3, <1>4, <1>5, <1>6

\* Those who have entered it before have the same verdict and the same time.
LEMMA SameVerdict ==
  ASSUME VerdictInv, NEW p \in Im, NEW q \in Im, PlacedAt(p), Entering(p), Leading(q, p)
  PROVE  gcheck[q] = gcheck[p]
<1>1. ~Due(p, Settings)
  BY EnteringFields DEF Due
<1>2. arrivals[q] = arrivals[p] + 1
  BY DEF Leading
<1> QED BY <1>1, <1>2, Zenon DEF VerdictInv

\* They go on to the same one.
LEMMA SameGoal ==
  ASSUME ImagesInv, VerdictInv, TimeInv, NEW p \in Im, NEW q \in Im, Entering(p), Leading(q, p)
  PROVE  /\ Goal(p)' = Goal(q) /\ (Ready(p)' <=> Ready(q)) /\ section[p] = section[q]
         /\ Behind(p) = Behind(q)
<1>1. PlacedAt(p) /\ PlacedAt(q) /\ LoopAt(p) /\ LoopAt(q)
  BY DEF ImagesInv
<1>2. InAll(q) /\ Goal(p) = Here(q)
  BY DEF Leading
<1>3. /\ Here(p) = Here(q) /\ section'[p] = section[p] /\ Passed(p)' = Behind(p) + 1
  BY <1>1, <1>2, EnteringFields
<1>4. gcheck[q] = gcheck[p]
  BY <1>1, SameVerdict
<1>5. Passed(q) = Behind(q) + 1
  BY <1>2 DEF Passed
<1>v. PICK v : /\ v = View(p) /\ v.section = section[p] /\ v.build = build /\ v.until = until
               /\ v.ok = gcheck[p] /\ v.time = time[p] /\ v.nrep = trialnrep[p]
  BY ViewFields
<1>w. PICK w : /\ w = View(q) /\ w.section = section[q] /\ w.build = build /\ w.until = until
               /\ w.ok = gcheck[q] /\ w.time = time[q] /\ w.nrep = trialnrep[q]
  BY ViewFields
<1>m. PICK m : m = Behind(p) /\ m \in Nat
  BY AtPart, Zenon DEF Entering
<1>6. section[p] = section[q] /\ section[p] # "done"
  <2>1. section[p] # "done"
    <3>1. At(View(p), Behind(p), "sync all")
      BY DEF Entering
    <3>2. v.section # "done"
      BY <1>v, <3>1, AtPart, Zenon
    <3> QED BY <1>v, <3>2
  <2> QED BY <1>3, <2>1, HereFields, Zenon
<1>7. InPart(v) /\ InPart(w) /\ Behind(q) \in Nat
  BY <1>1, <1>6, <1>v, <1>w, Placing
<1>n. PICK n : n = Behind(q) /\ n \in Nat
  BY <1>7
<1>8. PlaceOf(v, m + 1) = PlaceOf(w, n + 1)
  BY <1>3, <1>v, <1>w, <1>m, <1>n, Zenon DEF Here
<1>9. m = n
  <2>1. m + 1 = n + 1
    BY <1>3, <1>m, <1>n, HereFields, Zenon
  <2> QED BY <1>m, <1>n, <2>1, Counts, Zenon
<1>10. Alike(v, w, m)
  <2>1. ASSUME v.section = "close", m >= 4 PROVE v.time = w.time
    <3>1. Timed(p) /\ Timed(q)
      BY <1>6, <1>9, <1>v, <1>m, <1>n, <2>1 DEF Timed
    <3> QED BY <1>v, <1>w, <3>1 DEF TimeInv
  <2>2. v.section = "open" => v.nrep = 1 /\ w.nrep = 1
    BY <1>1, <1>6, <1>v, <1>w DEF LoopAt
  <2> QED BY <1>4, <1>7, <1>v, <1>w, <2>1, <2>2 DEF Alike
<1>11. Onward(v, m + 1) = Onward(w, n + 1)
  BY <1>8, <1>10, <1>m, <1>n, OnwardAlike
<1>12. Goal(p)' = Goal(q)
  <2>1. View(p)' = v
    BY <1>v DEF Entering
  <2> QED BY <1>3, <1>5, <1>11, <1>v, <1>w, <1>m, <1>n, <2>1, Zenon DEF Goal
<1>13. Ready(p)' <=> Ready(q)
  BY <1>3, <1>5, <1>6, <1>9, <1>12, <1>m, <1>n, Zenon DEF Ready
<1> QED BY <1>6, <1>9, <1>12, <1>13, <1>m, <1>n

\* Counts of which one has been increased.
LEMMA OneMore ==
  ASSUME NEW a \in Nat, NEW m, NEW n, m = a + 1, n = a
  PROVE  m <= n + 1 /\ n <= m + 1 /\ m # n /\ n # m + 1
BY Counts, Zenon

\* Afterwards it is one ahead of those who have not entered it, and on the way
\* to the same one as those who have.
LEMMA EnterSync ==
  ASSUME ImagesInv, SyncInv, VerdictInv, TimeInv, NEW p \in Im, Entering(p)
  PROVE  SyncInv'
<1>0. TypesInv /\ Alone(p) /\ PlacedAt(p) /\ ~InAll(p) /\ InAll(p)' /\ arrivals[p] \in Nat
  BY DEF ImagesInv, Entering, LoopAt
<1>1. arrivals'[p] = arrivals[p] + 1
  BY DEF Entering
<1>2. \A q \in Im \ {p} : Stays(q)
  BY <1>0, Undisturbed
<1>3. Goal(p) = Here(p) /\ Here(p)' = Here(p)
  BY <1>0, EnteringFields
\* Each other image against this one.
<1>4. ASSUME NEW q \in Im \ {p}
      PROVE  /\ arrivals'[p] <= arrivals'[q] + 1 /\ arrivals'[q] <= arrivals'[p] + 1
             /\ arrivals'[p] = arrivals'[q] => Goal(p)' = Goal(q)'
             /\ arrivals'[p] = arrivals'[q] + 1 => InAll(p)' /\ Goal(q)' = Here(p)'
             /\ arrivals'[q] # arrivals'[p] + 1
  <2>1. arrivals'[q] = arrivals[q] /\ Goal(q)' = Goal(q)
    BY <1>2 DEF Stays
  <2>2. CASE Level(p, q)
    <3>1. arrivals[q] = arrivals[p] /\ Goal(q) = Goal(p)
      BY <2>2 DEF Level
    <3>2. /\ arrivals'[p] <= arrivals'[q] + 1 /\ arrivals'[q] <= arrivals'[p] + 1
          /\ arrivals'[p] # arrivals'[q] /\ arrivals'[q] # arrivals'[p] + 1
      <4>1. arrivals'[p] = arrivals[p] + 1 /\ arrivals'[q] = arrivals[p]
        BY <1>1, <2>1, <3>1
      <4> QED BY <1>0, <4>1, OneMore, Zenon
    <3> QED BY <1>0, <1>3, <2>1, <3>1, <3>2, Zenon
  <2>3. CASE Leading(q, p)
    <3>1. arrivals[q] = arrivals[p] + 1
      BY <2>3 DEF Leading
    <3>2. /\ arrivals'[p] <= arrivals'[q] + 1 /\ arrivals'[q] <= arrivals'[p] + 1
          /\ arrivals'[p] # arrivals'[q] + 1 /\ arrivals'[q] # arrivals'[p] + 1
      <4>1. arrivals'[p] = arrivals[p] + 1 /\ arrivals'[q] = arrivals[p] + 1
        BY <1>1, <2>1, <3>1
      <4> QED BY <1>0, <4>1, Counts, ZenonT(60)
    <3>3. Goal(p)' = Goal(q)
      BY <2>3, SameGoal
    <3> QED BY <2>1, <3>2, <3>3, Zenon
  <2> QED BY <1>0, <2>2, <2>3, NotInside, Abreast
<1>5. SUFFICES ASSUME NEW a \in Im, NEW b \in Im
               PROVE  /\ arrivals'[a] <= arrivals'[b] + 1
                      /\ arrivals'[a] = arrivals'[b] => Goal(a)' = Goal(b)'
                      /\ arrivals'[a] = arrivals'[b] + 1 => InAll(a)' /\ Goal(b)' = Here(a)'
  BY <1>0, SameImages, Zenon DEF SyncInv
<1>6. CASE a # p /\ b # p
  <2>1. Stays(a) /\ Stays(b)
    BY <1>2, <1>6
  <2>2. /\ arrivals[a] <= arrivals[b] + 1
        /\ arrivals[a] = arrivals[b] => Goal(a) = Goal(b)
        /\ arrivals[a] = arrivals[b] + 1 => InAll(a) /\ Goal(b) = Here(a)
    BY DEF SyncInv
  <2> QED BY <2>1, <2>2, Zenon DEF Stays
<1>7. CASE a = p /\ b = p
  <2>1. arrivals'[p] \in Nat /\ arrivals'[p] <= arrivals'[p] + 1 /\ arrivals'[p] # arrivals'[p] + 1
    BY <1>0, <1>1, Counts, Ahead, Zenon
  <2> QED BY <1>7, <2>1, Zenon
<1>8. CASE a = p /\ b # p
  BY <1>4, <1>8
<1>9. CASE a # p /\ b = p
  BY <1>4, <1>9
<1> QED BY <1>6, <1>7, <1>8, <1>9

\* Its verdict is that of those it joins.
LEMMA EnterVerdict ==
  ASSUME ImagesInv, SyncInv, VerdictInv, TimeInv, NEW p \in Im, Entering(p)
  PROVE  VerdictInv'
<1>0. TypesInv /\ Alone(p) /\ PlacedAt(p) /\ ~InAll(p) /\ InAll(p)' /\ arrivals[p] \in Nat
  BY DEF ImagesInv, Entering, LoopAt
<1>1. arrivals'[p] = arrivals[p] + 1 /\ ltmp' = ltmp /\ build' = build
  BY DEF Entering, Common, Alone
<1>2. \A q \in Im \ {p} : /\ Stays(q)
                          /\ Due(q, Settings)' <=> Due(q, Settings)
                          /\ Due(q, {"tally"})' <=> Due(q, {"tally"})
  BY <1>0, Undisturbed
<1>3. gcheck'[p] = gcheck[p] /\ Ready(p)
  BY <1>0, EnteringFields
<1>4. ~Due(p, Settings) /\ ~Due(p, {"tally"})
  BY <1>3 DEF Due
\* Each other image is level with this one after the step, or one behind.
<1>5. ASSUME NEW q \in Im \ {p}
      PROVE  /\ \/ /\ arrivals'[q] = arrivals'[p] /\ gcheck'[q] = gcheck'[p]
                   /\ Due(p, {"tally"})' <=> Due(q, {"tally"})'
                \/ /\ arrivals'[p] = arrivals'[q] + 1
                   /\ ~Due(q, Settings)' => gcheck'[p] = gcheck'[q]
                   /\ Due(q, {"tally"})' => gcheck'[p] = \A r \in Im : ltmp'[r]
  <2>1. /\ arrivals'[q] = arrivals[q] /\ gcheck'[q] = gcheck[q] /\ Goal(q)' = Goal(q)
        /\ Ready(q)' = Ready(q)
    BY <1>2 DEF Stays
  <2>2. CASE Level(p, q)
    <3>1. arrivals[q] = arrivals[p]
      BY <2>2 DEF Level
    <3>2. arrivals'[p] = arrivals'[q] + 1
      BY <1>1, <2>1, <3>1
    <3>3. ~Due(q, Settings) => gcheck[p] = gcheck[q]
      BY <1>4, <3>1, Zenon DEF VerdictInv
    <3>4. Due(q, {"tally"}) => gcheck[p] = \A r \in Im : ltmp[r]
      BY <1>4, <3>1, Zenon DEF VerdictInv
    <3> QED BY <1>1, <1>2, <1>3, <2>1, <3>2, <3>3, <3>4, Zenon
  <2>3. CASE Leading(q, p)
    <3>1. arrivals'[q] = arrivals'[p]
      BY <1>1, <2>1, <2>3 DEF Leading
    <3>2. gcheck[q] = gcheck[p]
      BY <1>0, <2>3, SameVerdict
    <3>3. Goal(p)' = Goal(q) /\ (Ready(p)' <=> Ready(q))
      BY <2>3, SameGoal
    <3>4. Due(p, {"tally"})' <=> Due(q, {"tally"})'
      BY <2>1, <3>3, Zenon DEF Due
    <3> QED BY <1>3, <2>1, <3>1, <3>2, <3>4, Zenon
  <2> QED BY <1>0, <2>2, <2>3, NotInside, Abreast
<1>6. SUFFICES ASSUME NEW a \in Im, NEW b \in Im
      PROVE  /\ \/ arrivals'[a] = arrivals'[b] /\ (Due(a, Settings)' <=> Due(b, Settings)')
                \/ arrivals'[a] = arrivals'[b] + 1 /\ ~Due(b, Settings)'
                => gcheck'[a] = gcheck'[b]
             /\ /\ Due(b, {"tally"})'
                /\ \/ arrivals'[a] = arrivals'[b] /\ ~Due(a, {"tally"})'
                   \/ arrivals'[a] = arrivals'[b] + 1
                => gcheck'[a] = \A r \in Im : ltmp'[r]
  BY <1>0, SameImages, Zenon DEF VerdictInv
<1>7. CASE a # p /\ b # p
  <2>1. /\ \/ arrivals[a] = arrivals[b] /\ (Due(a, Settings) <=> Due(b, Settings))
           \/ arrivals[a] = arrivals[b] + 1 /\ ~Due(b, Settings)
           => gcheck[a] = gcheck[b]
        /\ /\ Due(b, {"tally"})
           /\ \/ arrivals[a] = arrivals[b] /\ ~Due(a, {"tally"})
              \/ arrivals[a] = arrivals[b] + 1
           => gcheck[a] = \A r \in Im : ltmp[r]
    BY Zenon DEF VerdictInv
  <2>2. a \in Im \ {p} /\ b \in Im \ {p}
    BY <1>7
  <2>3. Stays(a) /\ Stays(b)
    BY <1>2, <2>2
  <2> QED BY <1>1, <1>2, <2>1, <2>2, <2>3, Zenon DEF Stays
<1>8. arrivals'[p] \in Nat /\ arrivals'[p] # arrivals'[p] + 1
  BY <1>0, <1>1, Counts, Ahead, Zenon
<1>9. CASE a = p /\ b = p
  BY <1>8, <1>9
<1>10. CASE a = p /\ b # p
  <2>1. b \in Im \ {p}
    BY <1>10
  <2>2. CASE arrivals'[b] = arrivals'[p]
    <3>1. arrivals'[p] # arrivals'[b] + 1
      BY <1>8, <2>2, Zenon
    <3>2. /\ gcheck'[b] = gcheck'[p]
          /\ Due(p, {"tally"})' <=> Due(b, {"tally"})'
      BY <1>5, <2>1, <3>1, Zenon
    <3> QED BY <1>10, <3>1, <3>2, Zenon
  <2>3. CASE arrivals'[p] = arrivals'[b] + 1
    <3>1. arrivals'[b] # arrivals'[p]
      BY <1>8, <2>3, Zenon
    <3>2. /\ ~Due(b, Settings)' => gcheck'[p] = gcheck'[b]
          /\ Due(b, {"tally"})' => gcheck'[p] = \A r \in Im : ltmp'[r]
      BY <1>5, <2>1, <3>1, Zenon
    <3> QED BY <1>10, <3>1, <3>2, Zenon
  <2> QED BY <1>5, <2>1, <2>2, <2>3, Zenon
<1>11. CASE a # p /\ b = p
  <2>1. a \in Im \ {p}
    BY <1>11
  <2>2. CASE arrivals'[a] = arrivals'[p]
    <3>1. arrivals'[p] # arrivals'[a] + 1 /\ arrivals'[a] # arrivals'[p] + 1
      BY <1>8, <2>2, Zenon
    <3>2. /\ gcheck'[a] = gcheck'[p]
          /\ Due(p, {"tally"})' <=> Due(a, {"tally"})'
      BY <1>5, <2>1, <3>1, Zenon
    <3> QED BY <1>11, <3>1, <3>2, Zenon
  <2>3. CASE arrivals'[p] = arrivals'[a] + 1
    <3>1. arrivals'[a] \in Nat
      BY <1>2, <2>1 DEF Stays, ImagesInv, LoopAt
    <3>2. arrivals'[a] # arrivals'[p] /\ arrivals'[a] # arrivals'[p] + 1
      BY <2>3, <3>1, Counts, Zenon
    <3> QED BY <1>11, <3>2, Zenon
  <2> QED BY <1>5, <2>1, <2>2, <2>3, Zenon
<1> QED BY <1>7, <1>9, <1>10, <1>11

\* Its time is.
LEMMA EnterTime ==
  ASSUME ImagesInv, SyncInv, VerdictInv, TimeInv, NEW p \in Im, Entering(p)
  PROVE  TimeInv'
<1>0. TypesInv /\ Alone(p) /\ PlacedAt(p) /\ ~InAll(p) /\ arrivals[p] \in Nat
  BY DEF ImagesInv, Entering, LoopAt
<1>1. arrivals'[p] = arrivals[p] + 1 /\ dtmp' = dtmp
  BY DEF Entering, Common
<1>2. \A q \in Im \ {p} : Stays(q) /\ (Learns(q)' <=> Learns(q))
  BY <1>0, Undisturbed
<1>3. /\ time'[p] = time[p] /\ (Timed(p)' <=> Timed(p)) /\ Goal(p) = Here(p)
      /\ section'[p] = section[p] /\ Behind(p)' = Behind(p) /\ Passed(p)' = Behind(p) + 1
  BY <1>0, EnteringFields DEF Entering
<1>4. \A q \in Im : time'[q] = time[q] /\ (Timed(q)' <=> Timed(q))
  BY <1>2, <1>3 DEF Stays
\* The image has yet to learn the time: nobody knows it.
<1>5. ASSUME Learns(p)' PROVE \A q \in Im : ~Timed(q)
  <2>1. section[p] = "close" /\ Behind(p) = 2
    <3>1. PICK v : v = View(p) /\ v.section = section[p]
      BY ViewFields
    <3>2. section'[p] = "close" /\ Behind(p) + 1 \in {3, 4}
      <4>1. Goal(p)'.section = "close" /\ Goal(p)'.at = 5
        BY <1>5 DEF Learns
      <4>2. PICK m : m = Behind(p) + 1
        OBVIOUS
      <4>3. PICK g : g = Onward(v, m) /\ g.section = "close" /\ g.at = 5
        BY <1>3, <3>1, <4>1, <4>2 DEF Goal, Entering
      <4>4. At(v, Behind(p), "sync all")
        BY <3>1 DEF Entering
      <4>5. InPart(v) /\ m \in Nat /\ m <= Len(TraceAt(v))
        BY <4>2, <4>4, AtPart, Ahead, Zenon
      <4>6. v.section = "close" /\ m \in {3, 4}
        BY <4>3, <4>5, OnwardAt5
      <4> QED BY <1>3, <3>1, <4>2, <4>6
    <3>3. TraceAt(View(p)) = Trace(Current(p), "close")
      BY <1>0, <1>3, <3>2, Placing
    <3>4. At(View(p), Behind(p), "sync all")
      BY DEF Entering
    <3>5. TraceAt(View(p))[Behind(p) + 1] = "sync all" /\ Behind(p) \in Nat
      BY <3>4, AtPart
    <3>6. Behind(p) + 1 # 4
      <4>1. "learn" # "sync all"
        OBVIOUS
      <4> QED BY <3>3, <3>5, <4>1, CloseTrace, Zenon
    <3>7. Behind(p) + 1 = 3
      BY <3>2, <3>6
    <3> QED BY <1>3, <3>2, <3>5, <3>7, TwoBefore, Zenon
  <2> QED BY <1>0, <2>1, NobodyTimed, Zenon
\* An image that is ahead of it has learnt it.
<1>6. ASSUME NEW q \in Im \ {p}, Timed(p), Learns(q), arrivals'[p] = arrivals[q]
      PROVE  FALSE
  <2>1. Leading(q, p)
    <3>1. ~Level(p, q)
      BY <1>0, <1>1, <1>6, Counts, Zenon DEF Level
    <3> QED BY <1>0, <3>1, NotInside, Abreast
  <2>2. section[p] = section[q] /\ Behind(p) = Behind(q) /\ InAll(q)
    BY <2>1, SameGoal DEF Leading
  <2>3. Behind(q) \in {4, 5}
    BY <1>0, <1>6, <2>2, TimedGoal
  <2>4. Passed(q) = Behind(q) + 1
    BY <2>2 DEF Passed
  <2>5. Passed(q) \in {3, 4}
    BY <1>6, GoalAt5 DEF Learns, ImagesInv
  <2> QED BY <2>3, <2>4, <2>5
<1>7. SUFFICES ASSUME NEW a \in Im, NEW b \in Im
      PROVE  /\ Timed(a)' /\ Timed(b)' => time'[a] = time'[b]
             /\ /\ Learns(b)' /\ Timed(a)'
                /\ arrivals'[a] = arrivals'[b] \/ arrivals'[a] = arrivals'[b] + 1
                => time'[a] = dtmp'
  BY <1>0, SameImages, Zenon DEF TimeInv
<1>8. /\ Timed(a) /\ Timed(b) => time[a] = time[b]
      /\ /\ Learns(b) /\ Timed(a)
         /\ arrivals[a] = arrivals[b] \/ arrivals[a] = arrivals[b] + 1
         => time[a] = dtmp
  BY Zenon DEF TimeInv
<1>9. CASE b = p
  <2>1. Learns(b)' => ~Timed(a)'
    BY <1>4, <1>5, <1>9
  <2> QED BY <1>4, <1>8, <2>1, Zenon
<1>10. CASE a # p /\ b # p
  <2>1. a \in Im \ {p} /\ b \in Im \ {p}
    BY <1>10
  <2>2. arrivals'[a] = arrivals[a] /\ arrivals'[b] = arrivals[b] /\ (Learns(b)' <=> Learns(b))
    BY <1>2, <2>1 DEF Stays
  <2> QED BY <1>1, <1>4, <1>8, <2>2, Zenon
<1>11. CASE a = p /\ b # p
  <2>1. b \in Im \ {p}
    BY <1>11
  <2>2. arrivals'[b] = arrivals[b] /\ (Learns(b)' <=> Learns(b)) /\ arrivals[b] \in Nat
    BY <1>2, <2>1 DEF Stays, ImagesInv, LoopAt
  <2>3. arrivals'[p] = arrivals'[b] + 1 => arrivals[p] = arrivals[b]
    BY <1>0, <1>1, <2>2, Counts, Zenon
  <2>4. Timed(a) /\ Learns(b) => arrivals'[p] # arrivals[b]
    BY <1>6, <1>11, <2>1
  <2> QED BY <1>1, <1>4, <1>8, <1>11, <2>2, <2>3, <2>4, Zenon
<1> QED BY <1>9, <1>10, <1>11

-----------------------------------------------------------------------------
(***************************************************************************)
(* Every step keeps what images know of each other.                        *)
(***************************************************************************)
\* The inductive invariant, in the builds in which images decide together.
ControlInv == ImagesInv /\ SyncInv /\ VerdictInv /\ TimeInv

\* It is enough to look at the image that takes the step.
LEMMA ImagesKept ==
  ASSUME ImagesInv, NEW p \in Im, Alone(p), PlacedAt(p)', LoopAt(p)'
  PROVE  ImagesInv'
<1>1. Im' = Im
  BY SameImages
<1>2. TypesInv'
  BY <1>1 DEF ImagesInv, TypesInv, Alone, Elsewhere
<1>3. \A q \in Im \ {p} : PlacedAt(q)' /\ LoopAt(q)'
  BY AloneKeeps DEF ImagesInv
<1> QED BY <1>1, <1>2, <1>3 DEF ImagesInv

\* Steps by which no image gets on.
LEMMA KeptHolds ==
  ASSUME ControlInv, NEW p \in Im, Alone(p), Keeps(p), Common, PlacedAt(p)', LoopAt(p)'
  PROVE  ControlInv'
<1>0. TypesInv /\ ImagesInv /\ SyncInv /\ VerdictInv /\ TimeInv
  BY DEF ControlInv, ImagesInv
<1>1. Stays(p) /\ Im' = Im
  BY KeepsStays, SameImages
<1>2. \A q \in Im : Stays(q)
  BY <1>0, <1>1, Undisturbed
<1>3. SyncInv'
  <2>1. SUFFICES ASSUME NEW a \in Im, NEW b \in Im
                 PROVE  /\ arrivals'[a] <= arrivals'[b] + 1
                        /\ arrivals'[a] = arrivals'[b] => Goal(a)' = Goal(b)'
                        /\ arrivals'[a] = arrivals'[b] + 1 => InAll(a)' /\ Goal(b)' = Here(a)'
    BY <1>1, Zenon DEF SyncInv
  <2>2. /\ arrivals[a] <= arrivals[b] + 1
        /\ arrivals[a] = arrivals[b] => Goal(a) = Goal(b)
        /\ arrivals[a] = arrivals[b] + 1 => InAll(a) /\ Goal(b) = Here(a)
    BY <1>0 DEF SyncInv
  <2>3. Stays(a) /\ Stays(b)
    BY <1>2
  <2> QED BY <2>2, <2>3, Zenon DEF Stays
<1>4. /\ Goal(p)' = Goal(p) /\ arrivals'[p] = arrivals[p] /\ gcheck'[p] = gcheck[p]
      /\ (Ready(p)' <=> Ready(p)) /\ (Timed(p)' <=> Timed(p)) /\ time'[p] = time[p]
      /\ ltmp' = ltmp /\ dtmp' = dtmp
  BY <1>1 DEF Stays, Common
<1>5. VerdictInv'
  BY <1>0, <1>4, VerdictKept
<1>6. Learns(p)' <=> Learns(p)
  BY <1>4 DEF Learns
<1>7. TimeInv'
  BY <1>0, <1>4, <1>6, TimeKept
<1> QED BY <1>0, <1>3, <1>5, <1>7, ImagesKept DEF ControlInv

\* Statements that do not decide.
LEMMA OtherHolds ==
  ASSUME ControlInv, NEW p \in Im, NEW op, op \notin Control, Acts(p, op), ltmp' = ltmp,
         dtmp' = dtmp \/ TimeInv'
  PROVE  ControlInv'
<1>0. TypesInv /\ ImagesInv /\ SyncInv /\ VerdictInv /\ TimeInv /\ Executes(p, op) /\ Alone(p)
  BY DEF ControlInv, ImagesInv, Acts, Executes
<1>1. op \notin Settings /\ op \notin {"stop timer", "learn"}
  BY DEF Settings, Control
<1>2. gcheck'[p] = gcheck[p] /\ arrivals'[p] = arrivals[p] /\ time'[p] = time[p]
  BY <1>0, <1>1 DEF Executes, Acts
<1>3. /\ Goal(p)' = Goal(p) /\ ~InAll(p) /\ (Ready(p)' <=> Ready(p))
      /\ (Learns(p)' <=> Learns(p)) /\ (Timed(p)' <=> Timed(p))
  BY OtherActs
<1>4. ImagesInv'
  BY <1>0, ImagesKept, ExecutesPlace, ExecutesLoop
<1>5. SyncInv'
  BY <1>0, <1>2, <1>3, NotInside, SyncKept
<1>6. VerdictInv'
  BY <1>0, <1>2, <1>3, VerdictKept
<1>7. TimeInv'
  BY <1>0, <1>2, <1>3, TimeKept
<1> QED BY <1>4, <1>5, <1>6, <1>7 DEF ControlInv

\* Outside the end of a trial no time is learnt.
LEMMA Untimed ==
  ASSUME NEW p, NEW op, op \notin Closing, Acts(p, op), Goal(p)' = Goal(p)
  PROVE  ~Learns(p)' /\ ~Timed(p)'
<1>1. PlacedAt(p) /\ About(p, op) /\ section'[p] = section[p]
  BY DEF Acts, Executes, Advanced
<1>2. section[p] # "close"
  BY <1>1, AboutOp
<1>3. ~(Goal(p).section = "close" /\ Goal(p).at = 5)
  BY <1>1, <1>2, GoalAt5
<1> QED BY <1>1, <1>2, <1>3 DEF Learns, Timed

\* Statements that do.
LEMMA DecideHolds ==
  ASSUME ControlInv, NEW p \in Im, NEW op, Decides(p, op)
  PROVE  ControlInv'
<1>0. /\ TypesInv /\ ImagesInv /\ SyncInv /\ VerdictInv /\ TimeInv
      /\ PlacedAt(p) /\ LoopAt(p) /\ Alone(p) /\ dtmp' = dtmp /\ Settles(p, op)
  BY DEF ControlInv, ImagesInv, Decides
<1>1. Executes(p, op)
  BY <1>0, DecidesExecutes
<1>2. Acts(p, op) /\ arrivals'[p] = arrivals[p]
  BY <1>0, <1>1 DEF Acts, Settles, Executes
<1>3. ImagesInv'
  BY <1>0, <1>1, ImagesKept, ExecutesPlace, ExecutesLoop
<1>4. op \in Single \cup {"start timer", "exit"}
  BY DEF Decides, Control, Single
<1>5. Goal(p)' = Goal(p) /\ ~InAll(p)
  <2>1. CASE op \in Single
    BY <1>2, <2>1, SingleActs
  <2>2. CASE op \in {"start timer", "exit"}
    BY <1>2, <2>2, PassingActs
  <2> QED BY <1>4, <2>1, <2>2
<1>6. SyncInv'
  BY <1>0, <1>2, <1>5, NotInside, SyncKept
<1>7. VerdictInv'
  <2>1. CASE op = "reset checks"
    <3>1. ltmp' = ltmp
      BY <1>0, <2>1 DEF Settles
    <3> QED BY <1>0, <1>2, <2>1, <3>1, ResetVerdict
  <2>2. CASE op = "tally"
    <3>1. ltmp' = ltmp /\ gcheck'[p] = \A r \in Im : ltmp[r]
      BY <1>0, <2>2 DEF Settles
    <3> QED BY <1>0, <1>2, <2>2, <3>1, TallyVerdict
  <2>3. CASE op = "vote"
    BY <1>0, <1>2, <2>3, VoteVerdict
  <2>4. CASE op \in {"stop timer", "learn"}
    <3>1. ltmp' = ltmp /\ gcheck'[p] = gcheck[p]
      BY <1>0, <2>4 DEF Settles, Settings
    <3>2. Prior(build, Goal(p)) = op
      BY <1>2, <2>4, SingleActs DEF Single
    <3>3. Prior(build, Goal(p)) \notin Settings
      BY <2>4, <3>2 DEF Settings
    <3> QED BY <1>0, <1>2, <1>5, <3>1, <3>3, VerdictKept
  <2>5. CASE op \in {"start timer", "exit"}
    <3>1. ltmp' = ltmp /\ gcheck'[p] = gcheck[p]
      BY <1>0, <2>5 DEF Settles, Settings
    <3>2. (Ready(p)' <=> Ready(p)) \/ Prior(build, Goal(p)) \notin Settings
      BY <1>2, <2>5, PassingActs
    <3> QED BY <1>0, <1>2, <1>5, <3>1, <3>2, VerdictKept
  <2> QED BY <1>4, <2>1, <2>2, <2>3, <2>4, <2>5 DEF Single
<1>8. TimeInv'
  <2>1. CASE op = "stop timer"
    BY <1>0, <1>2, <2>1, StopTime
  <2>2. CASE op = "learn"
    <3>1. time'[p] = dtmp
      BY <1>0, <2>2 DEF Settles
    <3> QED BY <1>0, <1>2, <2>2, <3>1, LearnTime
  <2>3. CASE op \notin {"stop timer", "learn"}
    <3>1. op \notin Closing
      BY <1>4, <2>3 DEF Single, Closing
    <3>2. ~Learns(p)' /\ ~Timed(p)'
      BY <1>2, <1>5, <3>1, Untimed
    <3> QED BY <1>0, <1>2, <3>2, TimeKept
  <2> QED BY <2>1, <2>2, <2>3
<1> QED BY <1>3, <1>6, <1>7, <1>8 DEF ControlInv

\* Moving data.
LEMMA PlainHolds ==
  ASSUME ControlInv, NEW p \in Im, NEW op, Plain(p, op)
  PROVE  ControlInv'
<1>1. /\ PlacedAt(p) /\ LoopAt(p) /\ ltmp' = ltmp /\ dtmp' = dtmp /\ time'[p] = time[p]
      /\ op \in Others
  BY DEF ControlInv, ImagesInv, Plain, Common, Decided
<1>2. op \notin Control
  BY <1>1 DEF Others, Control
<1>3. op # "exit"
  BY <1>2 DEF Control
<1>4. Acts(p, op)
  BY <1>1, <1>3, PlainExecutes DEF Acts
<1> QED BY <1>1, <1>2, <1>4, OtherHolds

\* Sharing the time.
LEMMA ShareHolds ==
  ASSUME ControlInv, NEW p \in Im, Shares(p)
  PROVE  ControlInv'
<1>1. /\ PlacedAt(p) /\ LoopAt(p) /\ ltmp' = ltmp /\ time'[p] = time[p]
      /\ About(p, "share")
      /\ ImagesInv /\ SyncInv /\ TimeInv
  BY DEF ControlInv, ImagesInv, Shares, Decided, Advanced
<1>2. Acts(p, "share")
  BY <1>1, ShareExecutes DEF Acts
<1>3. "share" \notin Control
  BY DEF Control
<1>4. TimeInv'
  BY <1>1, <1>2, ShareTime
<1> QED BY <1>1, <1>2, <1>3, <1>4, OtherHolds

\* A number that another reaches is not greater.
LEMMA NotLess ==
  \A a, b \in Nat : a >= b => b # a + 1
OBVIOUS

\* Leaving a synchronisation.
LEMMA LeaveHolds ==
  ASSUME ControlInv, NEW p \in Im, NEW op \in {"sync all", "sync images"}, Leaves(p, op)
  PROVE  ControlInv'
<1>0. /\ TypesInv /\ ImagesInv /\ SyncInv /\ VerdictInv /\ TimeInv
      /\ PlacedAt(p) /\ LoopAt(p) /\ Alone(p) /\ ltmp' = ltmp /\ dtmp' = dtmp
      /\ time'[p] = time[p] /\ gcheck'[p] = gcheck[p] /\ arrivals'[p] = arrivals[p]
  BY DEF ControlInv, ImagesInv, Leaves, Common, Decided
<1>1. Executes(p, op)
  BY <1>0, LeavesExecutes
<1>2. Acts(p, op)
  BY <1>0, <1>1 DEF Acts
<1>3. CASE op = "sync images"
  BY <1>0, <1>2, <1>3, OtherHolds DEF Control
<1>4. CASE op = "sync all"
  <2>1. ImagesInv'
    BY <1>0, <1>1, ImagesKept, ExecutesPlace, ExecutesLoop
  <2>2. Caught(p)
    <3>1. SUFFICES ASSUME NEW q \in Im, arrivals[p] = arrivals[q] + 1
                   PROVE  FALSE
      BY DEF Caught
    <3>2. arrivals[q] >= arrivals[p] /\ arrivals[p] \in Nat /\ arrivals[q] \in Nat
      BY <1>0, <1>4 DEF Leaves, ImagesInv, LoopAt
    <3> QED BY <3>1, <3>2, NotLess
  <2>3. /\ Goal(p)' = Goal(p) /\ (Ready(p)' <=> Ready(p))
        /\ (Learns(p)' <=> Learns(p)) /\ (Timed(p)' => Timed(p))
    BY <1>2, <1>4, LeavingActs
  <2>4. SyncInv' /\ VerdictInv' /\ TimeInv'
    BY <1>0, <2>2, <2>3, SyncKept, VerdictKept, TimeKept
  <2> QED BY <2>1, <2>4 DEF ControlInv
<1> QED BY <1>3, <1>4

\* Entering a synchronisation.
LEMMA EnterHolds ==
  ASSUME ControlInv, NEW p \in Im, NEW op \in {"sync all", "sync images"}, Enters(p, op)
  PROVE  ControlInv'
<1>0. /\ TypesInv /\ ImagesInv /\ SyncInv /\ VerdictInv /\ TimeInv
      /\ PlacedAt(p) /\ LoopAt(p) /\ Alone(p) /\ Common
  BY DEF ControlInv, ImagesInv, Enters
<1>1. /\ View(p)' = View(p) /\ Behind(p)' = Behind(p) /\ ~InAll(p)
      /\ InAll(p)' <=> op = "sync all"
      /\ PlacedAt(p)' /\ LoopAt(p)'
  BY <1>0, EntersPlace
<1>2. CASE op = "sync images"
  <2>1. arrivals'[p] = arrivals[p]
    BY <1>2 DEF Enters
  <2>2. InAll(p)' = InAll(p)
    BY <1>1, <1>2 DEF InAll
  <2>3. Keeps(p)
    BY <1>1, <2>1, <2>2 DEF Keeps
  <2> QED BY <1>0, <1>1, <2>3, KeptHolds
<1>3. CASE op = "sync all"
  <2>1. Entering(p)
    BY <1>0, <1>3, EntersEntering
  <2>2. ImagesInv'
    BY <1>0, <1>1, ImagesKept
  <2> QED BY <1>0, <2>1, <2>2, EnterSync, EnterVerdict, EnterTime DEF ControlInv
<1> QED BY <1>2, <1>3

\* Going on to another part.
LEMMA ProceedHolds ==
  ASSUME Orderly, ControlInv, NEW p \in Im, Proceeds(p)
  PROVE  ControlInv'
<1>0. /\ TypesInv /\ ImagesInv /\ SyncInv /\ VerdictInv /\ TimeInv
      /\ PlacedAt(p) /\ LoopAt(p) /\ Alone(p) /\ ltmp' = ltmp /\ dtmp' = dtmp
      /\ gcheck'[p] = gcheck[p] /\ arrivals'[p] = arrivals[p]
  BY DEF ControlInv, ImagesInv, Proceeds, Common, Quiet, Decided
<1>1. /\ Goal(p)' = Goal(p) /\ ~InAll(p)
      /\ (Ready(p)' <=> Ready(p)) \/ Prior(build, Goal(p)) \notin Settings
      /\ ~Learns(p)' /\ ~Timed(p)'
  BY <1>0, ProceedsGoal
<1>2. ImagesInv'
  BY <1>0, ImagesKept, ProceedsPlace, ProceedsLoop
<1>3. SyncInv' /\ VerdictInv' /\ TimeInv'
  BY <1>0, <1>1, NotInside, SyncKept, VerdictKept, TimeKept
<1> QED BY <1>2, <1>3 DEF ControlInv

\* An image that executes nothing: its copies may be made.
Idle(p) ==
  /\ build' = build /\ until' = until
  /\ call' = call /\ section' = section /\ todo' = todo /\ shape' = shape
  /\ trialnrep' = trialnrep /\ irep' = irep /\ nrep' = nrep /\ gcheck' = gcheck /\ time' = time
  /\ inside' = inside /\ arrivals' = arrivals /\ lcheck' = lcheck /\ Common
  /\ Elsewhere(underway, underway', p)
  /\ underway'[p] = underway[p] \/ underway'[p] = {}

\* It stays where it is, and its variables say what they should.
LEMMA IdleKeeps ==
  ASSUME NEW q, Idle(q), PlacedAt(q), LoopAt(q)
  PROVE  Keeps(q) /\ PlacedAt(q)' /\ LoopAt(q)'
<1>0. /\ build' = build /\ until' = until
      /\ call'[q] = call[q] /\ section'[q] = section[q] /\ todo'[q] = todo[q]
      /\ shape'[q] = shape[q] /\ trialnrep'[q] = trialnrep[q] /\ irep'[q] = irep[q]
      /\ nrep'[q] = nrep[q] /\ gcheck'[q] = gcheck[q] /\ time'[q] = time[q]
      /\ inside'[q] = inside[q] /\ arrivals'[q] = arrivals[q]
      /\ underway'[q] = underway[q] \/ underway'[q] = {}
  BY Zenon DEF Idle
<1>1. View(q)' = View(q)
  BY <1>0, Zenon DEF View
<1>2. Behind(q)' = Behind(q)
  BY <1>0, <1>1, Zenon DEF Behind
<1>3. \A op : About(q, op)' = About(q, op)
  BY <1>0, Zenon DEF About, AtEnd, Now
<1>4. InAll(q)' = InAll(q) /\ AtEnd(q)' = AtEnd(q)
  BY <1>0, <1>3, Zenon DEF InAll, AtEnd
<1>5. Keeps(q)
  BY <1>0, <1>1, <1>2, <1>4, Zenon DEF Keeps
<1>6. Current(q)' = Current(q) /\ Passed(q)' = Passed(q)
  BY <1>0, <1>2, <1>4, Zenon DEF Current, Passed
<1>7. PlacedAt(q)'
  BY <1>0, <1>1, <1>2, <1>6, Zenon DEF PlacedAt
<1>8. LoopAt(q)'
  BY <1>0, <1>1, <1>2, <1>3, <1>4, <1>6, Zenon DEF LoopAt
<1> QED BY <1>5, <1>7, <1>8

\* Such a step keeps the invariant.
LEMMA IdleHolds ==
  ASSUME ControlInv, NEW p \in Im, Idle(p)
  PROVE  ControlInv'
<1>1. PlacedAt(p) /\ LoopAt(p)
  BY DEF ControlInv, ImagesInv
<1>2. Keeps(p) /\ PlacedAt(p)' /\ LoopAt(p)'
  BY <1>1, IdleKeeps
<1>3. Alone(p) /\ Common
  BY Excepts, Zenon DEF Idle, Alone, Common
<1> QED BY <1>2, <1>3, KeptHolds

\* Deliver is one.
LEMMA DeliverIdle ==
  ASSUME TypesInv, NEW p \in Im, Deliver(p)
  PROVE  Idle(p)
<1>1. underway' = [underway EXCEPT ![p] = {}] /\ p \in DOMAIN underway
  BY DEF Deliver, TypesInv
<1>2. Elsewhere(underway, underway', p) /\ underway'[p] = {}
  BY <1>1, Excepts, Zenon
<1> QED BY <1>2 DEF Deliver, Idle, Common, program, control, images, verdicts, clocks

\* So is a step that changes nothing.
LEMMA ExitIdle ==
  ASSUME NEW p, UNCHANGED vars
  PROVE  Idle(p)
<1>1. underway' = underway
  BY DEF vars, arrays
<1>2. Elsewhere(underway, underway', p) /\ underway'[p] = underway[p]
  BY <1>1, Excepts, Zenon
<1> QED BY <1>2 DEF vars, Idle, Common, program, control, images, verdicts, clocks

\* Nobody returns early where nothing is verified, or votes are taken.
LEMMA NoEarlyReturn ==
  ASSUME NEW p, PlacedAt(p)
  PROVE  ~ReturnEarly(p)
<1>1. "return" \notin Control \cup Others \cup {"share"}
  BY DEF Control, Others
<1> QED BY <1>1, AboutOp DEF ReturnEarly

\* Every step keeps the invariant, action by action.
LEMMA StepHolds ==
  ASSUME Orderly, ControlInv, [Next]_vars
  PROVE  ControlInv' /\ Orderly'
<1>0. TypesInv /\ \A p \in Im : PlacedAt(p) /\ LoopAt(p)
  BY DEF ControlInv, ImagesInv
<1>1. PICK p \in Im : TRUE
  <2>1. build \in Builds
    BY <1>0 DEF TypesInv
  <2>2. build.images \in Nat \ {0}
    BY <2>1, CafTransferAssumption
  <2>3. build.images - 1 >= 0 /\ build.images >= 1
    BY <2>2
  <2>4. 0 \in 0 .. build.images - 1 /\ 1 \in 1 .. build.images
    BY <2>2, <2>3
  <2> QED BY <2>4 DEF Im
<1>2. CASE UNCHANGED vars
  <2>1. Idle(p)
    BY <1>2, ExitIdle
  <2> QED BY <2>1, IdleHolds DEF Idle, Orderly
<1>3. ASSUME NEW q \in Im, Execute(q) \/ Loop(q) \/ Deliver(q)
      PROVE  ControlInv' /\ build' = build
  <2>1. CASE Deliver(q)
    BY <1>0, <2>1, DeliverIdle, IdleHolds DEF Idle
  <2>2. CASE PlainAction(q)
    <3>1. PICK op : Plain(q, op)
      BY <1>0, <2>2, PlainSteps
    <3> QED BY <3>1, PlainHolds DEF Plain, Alone
  <2>3. CASE DecidingAction(q)
    <3>1. PICK op : Decides(q, op)
      BY <1>0, <2>3, DecidingSteps
    <3> QED BY <3>1, DecideHolds DEF Decides, Alone
  <2>4. CASE Share(q)
    <3>1. Shares(q)
      BY <1>0, <2>4, ShareStep
    <3> QED BY <3>1, ShareHolds DEF Shares, Alone
  <2>5. CASE EnterSyncAll(q) \/ EnterSyncImages(q)
    <3>1. PICK op \in {"sync all", "sync images"} : Enters(q, op)
      BY <1>0, <2>5, EnterSteps
    <3> QED BY <3>1, EnterHolds DEF Enters, Alone
  <2>6. CASE LeaveSyncAll(q) \/ LeaveSyncImages(q)
    <3>1. PICK op \in {"sync all", "sync images"} : Leaves(q, op)
      BY <1>0, <2>6, LeaveSteps
    <3> QED BY <3>1, LeaveHolds DEF Leaves, Alone
  <2>7. CASE LoopAction(q)
    <3>1. Proceeds(q)
      BY <1>0, <2>7, ProceedSteps
    <3> QED BY <3>1, ProceedHolds DEF Proceeds, Alone
  <2>8. ~ReturnEarly(q)
    BY <1>0, NoEarlyReturn
  <2> QED BY <1>3, <2>1, <2>2, <2>3, <2>4, <2>5, <2>6, <2>7, <2>8, Zenon
          DEF Execute, PlainAction, DecidingAction, LoopAction
<1> QED BY <1>2, <1>3, Zenon DEF Next, Exit, Orderly

-----------------------------------------------------------------------------
(***************************************************************************)
(* At the beginning all images are before the first call.                  *)
(***************************************************************************)
LEMMA UntilBounds ==
  ASSUME NEW k, NEW r \in Nat \ {0}, NEW l \in Nat, k \in 1 .. l
  PROVE  /\ AtMost(k + r - 1, l) \in Nat /\ AtMost(k + r - 1, l) <= l
         /\ k \in 1 .. AtMost(k + r - 1, l)
BY DEF AtMost

\* What is needed of zero.
LEMMA Zeros == 0 \in Nat /\ 1 \in Nat \ {0} /\ 0 <= 0 + 1 /\ 0 # 0 + 1
OBVIOUS

\* What an image begins with.
Begin(p, k) ==
  /\ call[p] = k /\ section[p] = "open" /\ todo[p] = Part(Current(p), p, "open", NoShape, 0)
  /\ shape[p] = NoShape /\ trialnrep[p] = 1 /\ irep[p] = 0 /\ arrivals[p] = 0
  /\ inside[p] = FALSE /\ gcheck[p] = TRUE /\ ltmp[p] = TRUE /\ time[p] = "short"

\* Init gives every image this.
LEMMA InitBegin ==
  ASSUME Init
  PROVE  /\ TypesInv
         /\ \E k : k \in 1 .. until /\ \A p \in Im : Begin(p, k)
<1>1. build \in Builds
  BY DEF Init
<1>2. PICK first \in DOMAIN Calls[build] :
        /\ call = [p \in Im |-> first]
        /\ until = AtMost(first + build.row - 1, Len(Calls[build]))
  BY Zenon DEF Init
<1>3. IsSequence(Calls[build])
  BY <1>1, CallFacts DEF CallsAre
<1>4. Len(Calls[build]) \in Nat /\ first \in 1 .. Len(Calls[build])
  BY <1>3 DEF IsSequence
<1>5. build.row \in Nat \ {0}
  BY <1>1, CafTransferAssumption
<1>6. until \in Nat /\ until <= Len(Calls[build]) /\ first \in 1 .. until
  BY <1>2, <1>4, <1>5, UntilBounds
<1>7. TypesInv
  BY <1>1, <1>2, <1>6 DEF Init, TypesInv
<1>8. \A p \in Im : Begin(p, first)
  BY <1>2 DEF Init, Begin
<1> QED BY <1>6, <1>7, <1>8

\* An image that begins so is before the first statement of a call.
LEMMA BeginPlace ==
  ASSUME Orderly, TypesInv, NEW k \in 1 .. until, NEW p, Begin(p, k)
  PROVE  /\ PlacedAt(p) /\ LoopAt(p) /\ Behind(p) = 0 /\ ~InAll(p) /\ Passed(p) = 0
<1>1. PICK v : v = View(p) /\ v.build = build /\ v.until = until /\ v.call = call[p]
               /\ v.section = section[p] /\ CallAt(v) = Current(p)
  BY ViewFields
<1>2. InPart(v)
  BY <1>1 DEF TypesInv, InPart, Begin, Parts
<1>3. IsCall(CallAt(v), build)
  BY <1>1, <1>2, CallIs
<1>4. Current(p).port = "fortran" \/ ~Current(p).check
  BY <1>1, <1>3 DEF IsCall, Orderly
<1>5. Follows(todo[p], Current(p), "open", 0)
  BY <1>1, <1>3, <1>4, PartFollows DEF Begin, Parts
<1>6. TraceAt(v) = Trace(Current(p), "open")
  BY <1>1 DEF TraceAt, Begin
<1>7. Behind(p) = 0
  BY <1>1, <1>5, <1>6, FollowsCount DEF Behind
<1>8. ~InAll(p) /\ Passed(p) = 0
  BY <1>7 DEF InAll, Passed, Begin
<1>9. PlacedAt(p)
  BY <1>1, <1>2, <1>5, <1>7 DEF PlacedAt, Begin
<1>10. LoopAt(p)
  BY Zeros DEF LoopAt, Begin
<1> QED BY <1>7, <1>8, <1>9, <1>10

\* Nobody has entered a sync all, and all are on the way to the first.
LEMMA InitHolds ==
  ASSUME Orderly, Init
  PROVE  ControlInv
<1>1. PICK k : TypesInv /\ k \in 1 .. until /\ \A p \in Im : Begin(p, k)
  BY InitBegin
<1>2. \A p \in Im : PlacedAt(p) /\ LoopAt(p) /\ Behind(p) = 0 /\ ~InAll(p) /\ Passed(p) = 0
  BY <1>1, BeginPlace
<1>3. ImagesInv
  BY <1>1, <1>2 DEF ImagesInv
<1>4. \A p, q \in Im : View(p) = View(q)
  BY <1>1 DEF View, Begin
<1>5. \A p, q \in Im : Goal(p) = Goal(q)
  BY <1>2, <1>4 DEF Goal
<1>6. SyncInv
  <2>1. \A p \in Im : arrivals[p] = 0
    BY <1>1 DEF Begin
  <2> QED BY <1>5, <2>1, Zeros, Zenon DEF SyncInv
<1>7. VerdictInv
  <2>1. \A p \in Im : gcheck[p] = TRUE /\ ltmp[p] = TRUE
    BY <1>1 DEF Begin
  <2>2. \A r \in Im : ltmp[r]
    BY <2>1
  <2> QED BY <2>1, <2>2, Zenon DEF VerdictInv
<1>8. TimeInv
  <2>1. \A p \in Im : section[p] = "open" /\ time[p] = "short"
    BY <1>1 DEF Begin
  <2>2. \A p \in Im : ~Timed(p)
    BY <2>1 DEF Timed
  <2> QED BY <2>2, Zenon DEF TimeInv
<1> QED BY <1>3, <1>6, <1>7, <1>8 DEF ControlInv

\* The build is chosen once.
LEMMA ProgramKept ==
  ASSUME [Next]_vars
  PROVE  build' = build
<1>1. ASSUME NEW p \in Im, Execute(p)
      PROVE  build' = build
  BY <1>1 DEF Execute, program, AllocateArray, AssignArray, CheckArray, CheckData, ResetChecks,
     StartTransfer, CompleteTransfer, SendMessage, ReturnFromSend, Receive, EnterSyncAll,
     LeaveSyncAll, EnterSyncImages, LeaveSyncImages, Vote, Tally, ExitLoop, ReturnEarly,
     ReadClock, Measure, Share, Learn
<1>2. ASSUME NEW p \in Im, Loop(p) \/ Deliver(p)
      PROVE  build' = build
  BY <1>2 DEF Loop, program, BeginShape, BeginTrial, Repeat, EndLoop, JudgeTrial, Report, Return,
     Deliver
<1>3. CASE UNCHANGED vars
  BY <1>3 DEF vars, program
<1> QED BY <1>1, <1>2, <1>3 DEF Next, Exit

(***************************************************************************)
(* The invariant: images that have entered equally many sync all are on    *)
(* the way to the same one (EnterSyncAll, LeaveSyncAll, Vote, Tally,       *)
(* ExitLoop, Measure, Share, Learn and the loops around them).             *)
(***************************************************************************)
THEOREM ControlInvariance == Spec => [](Orderly => ControlInv)
<1>1. Init => (Orderly => ControlInv)
  BY InitHolds
<1>2. (Orderly => ControlInv) /\ [Next]_vars => (Orderly => ControlInv)'
  <2>1. SUFFICES ASSUME Orderly => ControlInv, [Next]_vars, Orderly'
                 PROVE  ControlInv'
    OBVIOUS
  <2>2. build' = build
    BY <2>1, ProgramKept
  <2>3. Orderly
    BY <2>1, <2>2 DEF Orderly
  <2> QED BY <2>1, <2>3, StepHolds
<1> QED BY <1>1, <1>2, PTL DEF Spec

-----------------------------------------------------------------------------
(***************************************************************************)
(* What follows for images in the repetitions.                             *)
(***************************************************************************)
\* The goal of an image in a part of a call.
LEMMA GoalIs ==
  ASSUME NEW p, PlacedAt(p), section[p] # "done"
  PROVE  \E v, m : /\ v = View(p) /\ InPart(v) /\ m = Passed(p) /\ m \in Nat
                   /\ Goal(p) = Onward(v, m)
                   /\ v.section = section[p] /\ v.call = call[p] /\ v.shape = shape[p]
                   /\ v.nrep = trialnrep[p] /\ TraceAt(v) = Trace(Current(p), section[p])
<1>1. PICK v : /\ v = View(p) /\ v.section = section[p] /\ v.call = call[p]
               /\ v.shape = shape[p] /\ v.nrep = trialnrep[p]
  BY ViewFields
<1>2. InPart(v) /\ TraceAt(v) = Trace(Current(p), section[p])
  BY <1>1, Placing
<1>3. PICK m : m = Passed(p) /\ m \in Nat
  BY PassedWithin
<1>4. Goal(p) = Onward(v, m)
  BY <1>1, <1>3 DEF Goal
<1> QED BY <1>1, <1>2, <1>3, <1>4

\* Nobody who has made all calls has another sync all to enter.
LEMMA GoalDone ==
  ASSUME NEW p, PlacedAt(p), section[p] = "done"
  PROVE  Goal(p).section = "done"
<1>1. PICK v : v = View(p) /\ v.section = "done"
  BY ViewFields
<1>2. PICK m : m = Passed(p)
  OBVIOUS
<1>3. TraceAt(v) = <<>> /\ Behind(p) = 0 /\ AtEnd(p)
  BY <1>1, PlacingDone
<1>4. m = 0
  BY <1>2, <1>3 DEF Passed, InAll, About
<1>5. Len(TraceAt(v)) = 0
  BY <1>3
<1>6. ~Exits(v, m) /\ NextSync(TraceAt(v), m) = 0
  <2>1. ~(0 + 1 <= 0)
    OBVIOUS
  <2>2. ~(m + 1 <= Len(TraceAt(v)))
    BY <1>4, <1>5, <2>1
  <2>3. NextSync(TraceAt(v), m) = 0
    BY <1>4, <1>5, NextSyncEnd, Zeros
  <2> QED BY <2>2, <2>3 DEF Exits
<1>7. Goal(p) = AfterPart(v)
  BY <1>1, <1>2, <1>6 DEF Goal, Onward
<1>8. AfterPart(v) = Place(v.call, "done", NoShape, 1, 0, 0)
  BY <1>1 DEF AfterPart
<1> QED BY <1>7, <1>8, PlaceFields

\* Who has a sync all of the loop before it is in the trial.
LEMMA GoalInLoop ==
  ASSUME NEW q, PlacedAt(q), NEW g, g = Goal(q),
         g.section = "body" \/ g.section = "close"
  PROVE  section[q] \in {"trial", "body", "close"} /\ call[q] = g.call
<1>1. section[q] # "done"
  BY GoalDone
<1>2. PICK v, m : /\ v = View(q) /\ InPart(v) /\ m \in Nat /\ g = Onward(v, m)
                  /\ v.section = section[q] /\ v.call = call[q]
  BY <1>1, GoalIs
<1>3. /\ v.section \notin {"trial", "body", "close"} => Outer(g)
      /\ g.section \in {"body", "close"} => g.call = v.call
  BY <1>2, OnwardInner
<1> QED BY <1>2, <1>3 DEF Outer

\* An image in the body is on the way to a sync all of the loop.
LEMMA GoalInBody ==
  ASSUME NEW p, PlacedAt(p), section[p] = "body"
  PROVE  /\ Goal(p).section = "body" \/ (Goal(p).section = "close" /\ Goal(p).at = 1)
         /\ Goal(p).call = call[p] /\ Goal(p).shape = shape[p] /\ Goal(p).nrep = trialnrep[p]
<1>1. PICK v, m : /\ InPart(v) /\ m \in Nat /\ Goal(p) = Onward(v, m)
                  /\ v.section = section[p] /\ v.call = call[p] /\ v.shape = shape[p]
                  /\ v.nrep = trialnrep[p]
  BY GoalIs
<1>2. Inner(Goal(p), v)
  BY <1>1, OnwardInner
<1> QED BY <1>1, <1>2 DEF Inner

\* The sync all an image of the body is at.
LEMMA HereInBody ==
  ASSUME NEW p, section[p] = "body"
  PROVE  /\ Here(p).section = "body" /\ Here(p).call = call[p]
         /\ Here(p).shape = shape[p] /\ Here(p).nrep = trialnrep[p]
<1>1. PICK v : /\ v = View(p) /\ v.section = section[p] /\ v.call = call[p]
               /\ v.shape = shape[p] /\ v.nrep = trialnrep[p]
  BY ViewFields
<1>2. PICK m : m = Behind(p) + 1
  OBVIOUS
<1>3. Here(p) = PlaceOf(v, m)
  BY <1>1, <1>2 DEF Here
<1> QED BY <1>1, <1>3, PlaceOfFields

\* How far two images are apart.
LEMMA Apart ==
  ASSUME ImagesInv, SyncInv, NEW p \in Im, NEW q \in Im
  PROVE  \/ arrivals[p] = arrivals[q] /\ Goal(q) = Goal(p)
         \/ Leading(q, p) \/ Leading(p, q)
<1>1. arrivals[p] \in Nat /\ arrivals[q] \in Nat
  BY DEF ImagesInv, LoopAt
<1>2. arrivals[p] <= arrivals[q] + 1 /\ arrivals[q] <= arrivals[p] + 1
  BY DEF SyncInv
<1>3. arrivals[p] = arrivals[q] + 1 \/ arrivals[p] <= arrivals[q]
  BY <1>1, <1>2, Counts, Zenon
<1>4. arrivals[p] <= arrivals[q] => arrivals[q] = arrivals[p] \/ arrivals[q] = arrivals[p] + 1
  BY <1>1, <1>2, Counts, Zenon
<1> QED BY <1>3, <1>4 DEF SyncInv, Leading

\* Images on the way to the same sync all, or at it, are in the same trial.
LEMMA RepetitionsSame ==
  ASSUME ControlInv
  PROVE  SameRepetitions
<1>0. ImagesInv /\ SyncInv
  BY DEF ControlInv
<1>1. SUFFICES ASSUME NEW p \in Im, NEW q \in Im, section[p] = "body", section[q] = "body"
               PROVE  call[p] = call[q] /\ shape[p] = shape[q] /\ trialnrep[p] = trialnrep[q]
  BY DEF SameRepetitions
<1>2. PlacedAt(p) /\ PlacedAt(q)
  BY <1>0 DEF ImagesInv
<1>3. /\ Goal(p).call = call[p] /\ Goal(p).shape = shape[p] /\ Goal(p).nrep = trialnrep[p]
      /\ Goal(q).call = call[q] /\ Goal(q).shape = shape[q] /\ Goal(q).nrep = trialnrep[q]
  BY <1>1, <1>2, GoalInBody
<1>4. /\ Here(p).call = call[p] /\ Here(p).shape = shape[p] /\ Here(p).nrep = trialnrep[p]
      /\ Here(q).call = call[q] /\ Here(q).shape = shape[q] /\ Here(q).nrep = trialnrep[q]
  BY <1>1, HereInBody
<1>5. Goal(q) = Goal(p) \/ Goal(p) = Here(q) \/ Goal(q) = Here(p)
  BY <1>0, Apart DEF Leading
<1> QED BY <1>3, <1>4, <1>5

\* An image that has left the test is on the way out of the call, one in the
\* loop is not.
LEMMA LeavingTogether ==
  ASSUME ControlInv
  PROVE  LeaveTogether
<1>0. ImagesInv /\ SyncInv
  BY DEF ControlInv
<1>1. SUFFICES ASSUME NEW p \in Im, NEW q \in Im, section[p] = "body"
               PROVE  call[q] = call[p] /\ section[q] # "end"
  BY DEF LeaveTogether
<1>2. PlacedAt(p) /\ PlacedAt(q)
  BY <1>0 DEF ImagesInv
<1>3. PICK g : /\ g = Goal(p) /\ g.call = call[p]
               /\ g.section = "body" \/ g.section = "close"
  BY <1>1, <1>2, GoalInBody
<1>4. CASE Goal(q) = Goal(p)
  BY <1>2, <1>3, <1>4, GoalInLoop
<1>5. CASE Goal(p) = Here(q)
  <2>1. call[q] = g.call /\ section[q] = g.section
    BY <1>3, <1>5, HereFields
  <2> QED BY <1>3, <2>1
<1>6. CASE Goal(q) = Here(p)
  <2>1. PICK h : h = Goal(q) /\ h.section = "body" /\ h.call = call[p]
    BY <1>1, <1>6, HereInBody
  <2> QED BY <1>2, <2>1, GoalInLoop
<1> QED BY <1>0, <1>4, <1>5, <1>6, Apart DEF Leading

(***************************************************************************)
(* SameRepetitions: images that are in the loop at the same time make the  *)
(* same repetitions of the same transfer (cafchecktime, on the time that   *)
(* one image has broadcast).                                               *)
(***************************************************************************)
THEOREM RepetitionsTheorem == Spec => [](Orderly => SameRepetitions)
<1>1. ControlInv => SameRepetitions
  BY RepetitionsSame
<1> QED BY <1>1, ControlInvariance, PTL

(***************************************************************************)
(* LeaveTogether: while an image is in the loop no other has left the test *)
(* (the exits from the loops of cafpingpong and cafhaloswap, after gand).  *)
(***************************************************************************)
THEOREM LeaveTheorem == Spec => [](Orderly => LeaveTogether)
<1>1. ControlInv => LeaveTogether
  BY LeavingTogether
<1> QED BY <1>1, ControlInvariance, PTL

-----------------------------------------------------------------------------
(***************************************************************************)
(* When the timers start and stop.                                         *)
(***************************************************************************)
LEMMA BelowThree ==
  \A m \in Nat :
    /\ m < 3 => m = 0 \/ m = 1 \/ m = 2
    /\ m < 2 => m = 0 \/ m = 1
    /\ m = 2 => ~(m + 1 < 3)
    /\ m = 1 => ~(m + 1 < 2)
OBVIOUS

\* Comparisons of natural numbers the wrong way round.
LEMMA More == \A m, l \in Nat : ~(l <= m + 1) => m + 1 < l
OBVIOUS

\* The first of the five statements at the end of a trial.
LEMMA OneOfFive == 1 \in 0 .. 5 /\ 1 # 5 /\ 1 # 0
OBVIOUS

\* A natural number other than zero.
LEMMA Positive == \A m \in Nat : m # 0 => m >= 1
OBVIOUS

\* The clock is read at the end of the beginning of a trial.
LEMMA StartIsLast ==
  ASSUME NEW v, NEW m, At(v, m, "start timer")
  PROVE  v.section = "trial" /\ ~(m + 1 < Len(TraceAt(v)))
<1>1. v.section = "trial" /\ InPart(v) /\ m \in Nat /\ TraceAt(v)[m + 1] = "start timer"
  BY OpsAt, AtPart DEF PlacedIn
<1>2. TraceAt(v) = Trace(CallAt(v), "trial") /\ m < Len(TraceAt(v))
  BY <1>1, SteadyAt DEF At
<1>3. PICK t : t = TraceAt(v)
  OBVIOUS
<1>4. CASE CallAt(v).kind = "halo"
  <2>1. Len(t) = 3 /\ t[1] = "reset checks" /\ t[2] = "sync all"
    BY <1>2, <1>3, <1>4, HaloTrace
  <2>2. m = 0 \/ m = 1 \/ m = 2
    BY <1>1, <1>2, <1>3, <2>1, BelowThree
  <2>3. m # 0 /\ m # 1
    BY <1>1, <1>3, <2>1, Sums
  <2> QED BY <1>1, <1>3, <2>1, <2>2, <2>3, BelowThree
<1>5. CASE CallAt(v).kind # "halo"
  <2>1. Len(t) = 2 /\ t[1] = "sync all"
    BY <1>2, <1>3, <1>5, PingPongTrace
  <2>2. m = 0 \/ m = 1
    BY <1>1, <1>2, <1>3, <2>1, BelowThree
  <2>3. m # 0
    BY <1>1, <1>3, <2>1, Sums
  <2> QED BY <1>1, <1>3, <2>1, <2>2, <2>3, BelowThree
<1> QED BY <1>4, <1>5

\* An image whose timer starts, or is running, is on the way into the loop.
LEMMA GoalInside ==
  ASSUME NEW p, PlacedAt(p), About(p, "start timer") \/ section[p] = "body"
  PROVE  Goal(p).section = "body" \/ Goal(p).section = "close"
<1>1. CASE section[p] = "body"
  BY <1>1, GoalInBody
<1>2. CASE About(p, "start timer")
  <2>1. ~InAll(p) /\ At(View(p), Behind(p), "start timer")
    BY <1>2, AboutOp DEF InAll, About, Control
  <2>2. PICK v : v = View(p) /\ v.section = section[p]
    BY ViewFields
  <2>3. PICK m : m = Behind(p)
    OBVIOUS
  <2>4. InPart(v) /\ m \in Nat /\ v.section = "trial" /\ ~(m + 1 < Len(TraceAt(v)))
    BY <2>1, <2>2, <2>3, StartIsLast DEF At
  <2>5. Goal(p) = Onward(v, m)
    BY <2>1, <2>2, <2>3 DEF Goal, Passed
  <2>6. Inner(Goal(p), v)
    BY <2>4, <2>5, OnwardTrial
  <2> QED BY <2>6 DEF Inner
<1> QED BY <1>1, <1>2

\* One that still initialises its array is before the sync all of the trial.
LEMMA GoalInTrial ==
  ASSUME NEW q, PlacedAt(q), section[q] = "trial",
         ~inside[q], ~About(q, "start timer"), ~AtEnd(q)
  PROVE  Goal(q).section = "trial"
<1>1. PICK v, m : /\ v = View(q) /\ InPart(v) /\ m = Passed(q) /\ m \in Nat
                  /\ Goal(q) = Onward(v, m) /\ v.section = section[q]
                  /\ TraceAt(v) = Trace(Current(q), section[q])
  BY GoalIs
<1>2. m = Behind(q)
  BY <1>1 DEF Passed, InAll
<1>3. Follows(todo[q], Current(q), "trial", m)
  BY <1>2, Placing
<1>4. todo[q] # <<>>
  BY DEF AtEnd
<1>5. Head(todo[q]).op # "start timer"
  BY DEF About, Now
<1>6. ~(Len(Trace(Current(q), "trial")) <= m + 1)
  BY <1>3, <1>4, <1>5, FollowsTrialEnd
<1>7. Len(TraceAt(v)) \in Nat
  BY <1>1, SteadyAt
<1>8. m + 1 < Len(TraceAt(v))
  BY <1>1, <1>6, <1>7, More
<1> QED BY <1>1, <1>8, OnwardTrial

\* An image whose timer stops is on the way to the second sync all of the end
\* of the trial.
LEMMA GoalAtStop ==
  ASSUME NEW p, PlacedAt(p), About(p, "stop timer")
  PROVE  ~InAll(p) /\ Goal(p).section = "close" /\ Goal(p).at = 3
<1>1. ~InAll(p) /\ At(View(p), Behind(p), "stop timer")
  BY AboutOp DEF InAll, About, Control
<1>2. PICK v : v = View(p)
  OBVIOUS
<1>3. PICK m : m = Behind(p)
  OBVIOUS
<1>4. v.section = "close" /\ m + 1 = 2
  BY <1>1, <1>2, <1>3, OpsAt DEF PlacedIn
<1>5. InPart(v) /\ m \in Nat
  BY <1>1, <1>2, <1>3 DEF At
<1>6. m = 1
  BY <1>4, <1>5, OnlyOne
<1>7. Goal(p) = Onward(v, m)
  BY <1>1, <1>2, <1>3 DEF Goal, Passed
<1>8. 1 \in 0 .. 5 /\ 1 # 5 /\ ClosingPlace(1) = 3
  BY OneOfFive DEF ClosingPlace
<1> QED BY <1>1, <1>4, <1>5, <1>6, <1>7, <1>8, OnwardClose

\* Who else is on the way to it has entered the first one.
LEMMA GoalAt3 ==
  ASSUME NEW q, PlacedAt(q), Goal(q).section = "close", Goal(q).at = 3
  PROVE  section[q] = "close" /\ Passed(q) >= 1
<1>1. section[q] \in {"trial", "body", "close"}
  BY GoalInLoop
<1>2. section[q] # "done"
  BY <1>1
<1>3. PICK v, m : /\ v = View(q) /\ InPart(v) /\ m = Passed(q) /\ m \in Nat
                  /\ Goal(q) = Onward(v, m) /\ v.section = section[q]
                  /\ TraceAt(v) = Trace(Current(q), section[q])
  BY <1>2, GoalIs
<1>4. 3 # 1
  OBVIOUS
<1>5. ~Inner(Goal(q), v)
  BY <1>4 DEF Inner
<1>6. v.section = "close"
  BY <1>1, <1>3, <1>5, OnwardInner
<1>7. m # 0
  <2>1. 0 \in 0 .. 5 /\ 0 # 5 /\ ClosingPlace(0) = 1
    BY DEF ClosingPlace
  <2>2. m = 0 => Goal(q).at = 1
    BY <1>3, <1>6, <2>1, OnwardClose
  <2> QED BY <1>4, <2>2
<1>8. m >= 1
  BY <1>3, <1>7, Positive
<1> QED BY <1>3, <1>6, <1>8

\* Where images are when the timer of one of them starts or stops.
LEMMA TimersCover ==
  ASSUME build.port = "fortran", ControlInv
  PROVE  TimerCoversTransfers
<1>0. ImagesInv /\ SyncInv
  BY DEF ControlInv
<1>1. SUFFICES ASSUME NEW p \in Im, NEW q \in Im
               PROVE  /\ section[p] = "report" /\ gcheck[p] => nrep[p] = irep[p]
                      /\ (About(p, "start timer") \/ section[p] = "body") /\ section[q] = "trial"
                         => inside[q] \/ About(q, "start timer") \/ AtEnd(q)
                      /\ About(p, "stop timer") => section[q] # "body" /\ underway[q] = {}
  BY Zenon DEF TimerCoversTransfers
<1>2. PlacedAt(p) /\ PlacedAt(q) /\ LoopAt(p) /\ LoopAt(q)
  BY <1>0 DEF ImagesInv
<1>3. section[p] = "report" /\ gcheck[p] => nrep[p] = irep[p]
  BY <1>2 DEF LoopAt
<1>4. (arrivals[p] = arrivals[q] /\ Goal(q) = Goal(p)) \/ Leading(q, p) \/ Leading(p, q)
  BY <1>0, Apart
<1>5. ASSUME About(p, "start timer") \/ section[p] = "body", section[q] = "trial",
             ~inside[q], ~About(q, "start timer"), ~AtEnd(q)
      PROVE  FALSE
  <2>1. Goal(q).section = "trial"
    BY <1>2, <1>5, GoalInTrial
  <2>2. Goal(p).section = "body" \/ Goal(p).section = "close"
    BY <1>2, <1>5, GoalInside
  <2>3. Goal(q) # Goal(p)
    BY <2>1, <2>2
  <2>4. ~InAll(q) /\ ~Leading(q, p)
    BY <1>5 DEF InAll, Leading
  <2>5. InAll(p) /\ Goal(q) = Here(p)
    BY <1>4, <2>3, <2>4 DEF Leading
  <2>6. Here(p).section = "trial"
    BY <2>1, <2>5
  <2>7. section[p] = "trial"
    BY <2>6, HereFields
  <2>8. ~About(p, "start timer")
    BY <2>5 DEF InAll, About
  <2> QED BY <1>5, <2>7, <2>8
<1>6. ASSUME About(p, "stop timer")
      PROVE  section[q] # "body" /\ underway[q] = {}
  <2>1. ~InAll(p) /\ Goal(p).section = "close" /\ Goal(p).at = 3
    BY <1>2, <1>6, GoalAtStop
  <2>2. section[q] = "close" /\ Passed(q) >= 1
    <3>1. CASE Goal(q) = Goal(p)
      BY <1>2, <2>1, <3>1, GoalAt3
    <3>2. CASE Leading(q, p)
      <4>1. InAll(q) /\ section[q] = "close" /\ Behind(q) + 1 = 3
        BY <2>1, <3>2, HereFields DEF Leading
      <4>2. Passed(q) = 3
        BY <4>1 DEF Passed
      <4>3. 3 >= 1
        OBVIOUS
      <4> QED BY <4>1, <4>2, <4>3
    <3> QED BY <1>4, <2>1, <3>1, <3>2 DEF Leading
  <2>3. underway[q] = {}
    BY <1>2, <2>2 DEF LoopAt
  <2> QED BY <2>2, <2>3
<1> QED BY <1>3, <1>5, <1>6

(***************************************************************************)
(* TimerCoversTransfers, in the Fortran suite: the timers of a trial start *)
(* when every array is initialised and stop when nobody repeats and no     *)
(* copy is underway, and their time is divided by the repetitions made.    *)
(***************************************************************************)
THEOREM TimerTheorem == Spec => [](build.port = "fortran" => TimerCoversTransfers)
<1>1. build.port = "fortran" /\ (Orderly => ControlInv) => TimerCoversTransfers
  BY TimersCover DEF Orderly
<1> QED BY <1>1, ControlInvariance, PTL

-----------------------------------------------------------------------------
(***************************************************************************)
(* Who is paired with whom.                                                *)
(***************************************************************************)
\* The DASH port pairs up more than two images with others than there are.
PairsFit(jb) == jb.port = "fortran" \/ jb.images <= 2 \/ jb.images % 2 = 1

\* An even number of images, and one that four divides.
LEMMA Halves ==
  /\ \A n \in Nat \ {0} : n % 2 = 0 => n \div 2 \in Nat \ {0} /\ n = n \div 2 + n \div 2
  /\ \A n \in Nat \ {0} :
       n % 4 = 0 => /\ n \div 2 \in Nat \ {0} /\ n = n \div 2 + n \div 2
                    /\ \A i \in Nat : (i + n \div 2) % 2 = i % 2
OBVIOUS

\* The partner of an image, h images further on or back.
LEMMA Partners ==
  ASSUME NEW h \in Nat \ {0}, NEW n, n = h + h, NEW i \in 1 .. n
  PROVE  /\ i \in Nat
         /\ i <= h => i + h \in 1 .. n /\ ~(i + h <= h) /\ (i + h) - h = i
         /\ ~(i <= h) => i - h \in 1 .. n /\ i - h <= h /\ (i - h) + h = i
OBVIOUS

\* The pairs of the Fortran suite, before roles are swapped.
PlainPair(h, i) == IF i <= h THEN <<i, i + h>> ELSE <<i - h, i>>

\* An image and its partner work out the same pair.
LEMMA PlainPairs ==
  ASSUME NEW h \in Nat \ {0}, NEW n, n = h + h, NEW i \in 1 .. n
  PROVE  \E a, b : /\ a \in 1 .. n /\ b \in 1 .. n /\ a \in Nat /\ b = a + h /\ i \in {a, b}
                   /\ PlainPair(h, i) = <<a, b>>
                   /\ PlainPair(h, a) = <<a, b>> /\ PlainPair(h, b) = <<a, b>>
<1>1. CASE i <= h
  <2>1. i + h \in 1 .. n /\ ~(i + h <= h) /\ (i + h) - h = i /\ i \in Nat
    BY <1>1, Partners
  <2>2. PlainPair(h, i) = <<i, i + h>> /\ PlainPair(h, i + h) = <<i, i + h>>
    BY <1>1, <2>1 DEF PlainPair
  <2> QED BY <2>1, <2>2, Zenon
<1>2. CASE ~(i <= h)
  <2>1. i - h \in 1 .. n /\ i - h <= h /\ (i - h) + h = i
    BY <1>2, Partners
  <2>2. PlainPair(h, i) = <<i - h, i>> /\ PlainPair(h, i - h) = <<i - h, i>>
    BY <1>2, <2>1 DEF PlainPair
  <2>3. i - h \in Nat /\ i = (i - h) + h
    BY <2>1
  <2> QED BY <2>1, <2>2, <2>3, Zenon
<1> QED BY <1>1, <1>2

\* What PairsAgree says of one image and a call.
Agree(c, n0, n1, p) ==
  /\ Pair(c, p)[1] \in n0 .. n1 /\ Pair(c, p)[2] \in n0 .. n1
  /\ c.pairing # "single" => p \in {Pair(c, p)[1], Pair(c, p)[2]}
  /\ Pair(c, Pair(c, p)[1]) = Pair(c, p) /\ Pair(c, Pair(c, p)[2]) = Pair(c, p)

\* The components of a pair.
LEMMA Components ==
  \A a, b : <<a, b>>[1] = a /\ <<a, b>>[2] = b
OBVIOUS

\* It holds of an image whose pair is that of both its components.
LEMMA AgreeOf ==
  ASSUME NEW c, NEW n0, NEW n1, NEW p, NEW a \in n0 .. n1, NEW b \in n0 .. n1,
         Pair(c, p) = <<a, b>>, Pair(c, a) = <<a, b>>, Pair(c, b) = <<a, b>>,
         c.pairing # "single" => p \in {a, b}
  PROVE  Agree(c, n0, n1, p)
<1>1. PICK g : g = <<a, b>>
  OBVIOUS
<1>2. g[1] = a /\ g[2] = b
  BY <1>1
<1>3. Pair(c, p) = g /\ Pair(c, a) = g /\ Pair(c, b) = g
  BY <1>1
<1> QED BY <1>2, <1>3, Zenon DEF Agree

\* Two images exchange data, whichever call it is.
LEMMA SinglePairs ==
  ASSUME NEW c, c.pairing = "single", NEW n \in Nat \ {0}, c.images = n, NEW p
  PROVE  IF c.port = "dash" THEN Agree(c, 0, n - 1, p) ELSE Agree(c, 1, n, p)
<1>1. CASE c.port = "dash"
  <2>1. \A q : Pair(c, q) = <<0, n - 1>>
    BY <1>1 DEF Pair, DashPair
  <2>2. PICK a, b : a = 0 /\ b = n - 1
    OBVIOUS
  <2>3. a \in 0 .. n - 1 /\ b \in 0 .. n - 1
    BY <2>2
  <2>4. Pair(c, p) = <<a, b>> /\ Pair(c, a) = <<a, b>> /\ Pair(c, b) = <<a, b>>
    BY <2>1, <2>2
  <2>5. Agree(c, 0, n - 1, p)
    BY <2>3, <2>4, AgreeOf
  <2> QED BY <1>1, <2>5
<1>2. CASE c.port # "dash"
  <2>1. \A q : Pair(c, q) = <<1, n>>
    BY <1>2 DEF Pair, FortranPair
  <2>2. PICK a, b : a = 1 /\ b = n
    OBVIOUS
  <2>3. a \in 1 .. n /\ b \in 1 .. n
    BY <2>2
  <2>4. Pair(c, p) = <<a, b>> /\ Pair(c, a) = <<a, b>> /\ Pair(c, b) = <<a, b>>
    BY <2>1, <2>2
  <2>5. Agree(c, 1, n, p)
    BY <2>3, <2>4, AgreeOf
  <2> QED BY <1>2, <2>5
<1> QED BY <1>1, <1>2

\* All images of the Fortran suite do, in pairs.
LEMMA FortranPairs ==
  ASSUME NEW c, c.port = "fortran", NEW n \in Nat \ {0}, c.images = n,
         \/ c.pairing = "multi" /\ n % 2 = 0
         \/ c.pairing = "cross" /\ n % 4 = 0,
         NEW p \in 1 .. n
  PROVE  Agree(c, 1, n, p)
<1>1. PICK h : h = n \div 2
  OBVIOUS
<1>2. h \in Nat \ {0} /\ n = h + h
  BY <1>1, Halves
<1>3. \A q : Pair(c, q) = IF Swapped(c.pairing, n, q)
                          THEN <<PlainPair(h, q)[2], PlainPair(h, q)[1]>> ELSE PlainPair(h, q)
  BY <1>1 DEF Pair, FortranPair, PlainPair
<1>4. PICK a, b : /\ a \in 1 .. n /\ b \in 1 .. n /\ a \in Nat /\ b = a + h /\ p \in {a, b}
                  /\ PlainPair(h, p) = <<a, b>>
                  /\ PlainPair(h, a) = <<a, b>> /\ PlainPair(h, b) = <<a, b>>
  BY <1>2, PlainPairs
<1>5. Swapped(c.pairing, n, b) <=> Swapped(c.pairing, n, a)
  <2>1. CASE c.pairing = "multi"
    BY <2>1 DEF Swapped
  <2>2. CASE n % 4 = 0
    <3>1. (a + n \div 2) % 2 = a % 2
      BY <1>4, <2>2, Halves, Zenon
    <3>2. b % 2 = a % 2
      BY <1>1, <1>4, <3>1
    <3> QED BY <3>2, Zenon DEF Swapped
  <2> QED BY <2>1, <2>2
<1>6. Swapped(c.pairing, n, p) <=> Swapped(c.pairing, n, a)
  BY <1>4, <1>5
<1>7. CASE Swapped(c.pairing, n, a)
  <2>1. ASSUME NEW q, PlainPair(h, q) = <<a, b>>, Swapped(c.pairing, n, q)
        PROVE  Pair(c, q) = <<b, a>>
    BY <1>3, <2>1
  <2>2. Pair(c, p) = <<b, a>> /\ Pair(c, a) = <<b, a>> /\ Pair(c, b) = <<b, a>>
    BY <1>4, <1>5, <1>6, <1>7, <2>1, Zenon
  <2>3. p \in {b, a}
    BY <1>4
  <2> QED BY <1>4, <2>2, <2>3, AgreeOf, Zenon
<1>8. CASE ~Swapped(c.pairing, n, a)
  <2>1. Pair(c, p) = <<a, b>> /\ Pair(c, a) = <<a, b>> /\ Pair(c, b) = <<a, b>>
    BY <1>3, <1>4, <1>5, <1>6, <1>8, Components, Zenon
  <2> QED BY <1>4, <2>1, AgreeOf, Zenon
<1> QED BY <1>7, <1>8

\* No image is in a call that is not made, whether results are verified or not.
CallInv ==
  /\ build \in Builds /\ until \in Nat /\ until <= Len(Calls[build])
  /\ DOMAIN call = Im /\ DOMAIN section = Im /\ DOMAIN todo = Im
  /\ \A p \in Im : IF section[p] = "done" THEN todo[p] = <<>> ELSE call[p] \in 1 .. until

\* Before the last number there is a next one.
LEMMA NotLast ==
  \A n \in Nat : \A k \in 1 .. n : k # n => k + 1 \in 1 .. n
OBVIOUS

\* How an image gets on, if it does.
Moves(p) ==
  /\ build' = build /\ until' = until
  /\ \/ UNCHANGED <<call, section, todo>>
     \/ section[p] # "done" /\ Advance(p)
     \/ section[p] # "done" /\ \E part, sh, rep : part # "done" /\ Goto(p, part, sh, rep)
     \/ section[p] # "done" /\ NextCall(p)

\* However it gets on, it is in a call that is made.
LEMMA MovesCall ==
  ASSUME CallInv, NEW p \in Im, Moves(p)
  PROVE  CallInv'
<1>1. Im' = Im
  BY DEF Moves, Im
<1>2. CASE UNCHANGED <<call, section, todo>>
  BY <1>1, <1>2 DEF CallInv, Moves
<1>3. CASE section[p] # "done" /\ Advance(p)
  BY <1>1, <1>3 DEF CallInv, Moves, Advance
<1>4. ASSUME section[p] # "done", NEW part, NEW sh, NEW rep, part # "done", Goto(p, part, sh, rep)
      PROVE  CallInv'
  <2>1. /\ call' = call /\ section' = [section EXCEPT ![p] = part]
        /\ \E e : todo' = [todo EXCEPT ![p] = e]
    BY <1>4 DEF Goto
  <2> QED BY <1>1, <1>4, <2>1 DEF CallInv, Moves
<1>5. CASE section[p] # "done" /\ NextCall(p)
  <2>1. PICK e : todo' = [todo EXCEPT ![p] = Only(~(call[p] = until), e)]
    BY <1>5, Zenon DEF NextCall
  <2>2. /\ call' = [call EXCEPT ![p] = call[p] + 1]
        /\ section' = [section EXCEPT ![p] = IF call[p] = until THEN "done" ELSE "open"]
    BY <1>5 DEF NextCall
  <2>3. call[p] \in 1 .. until /\ until \in Nat
    BY <1>5 DEF CallInv
  <2>4. CASE call[p] = until
    <3>1. Only(~(call[p] = until), e) = <<>>
      BY <2>4 DEF Only
    <3>2. section'[p] = "done" /\ todo'[p] = <<>>
      BY <2>1, <2>2, <2>4, <3>1 DEF CallInv
    <3> QED BY <1>1, <2>1, <2>2, <3>2 DEF CallInv, Moves
  <2>5. CASE call[p] # until
    <3>1. call[p] + 1 \in 1 .. until
      BY <2>3, <2>5, NotLast
    <3>2. section'[p] = "open" /\ call'[p] = call[p] + 1
      BY <2>2, <2>5 DEF CallInv
    <3> QED BY <1>1, <2>1, <2>2, <3>1, <3>2 DEF CallInv, Moves
  <2> QED BY <2>4, <2>5
<1> QED BY <1>2, <1>3, <1>4, <1>5 DEF Moves

\* Every action is such a step.
LEMMA StepMoves ==
  ASSUME CallInv, NEW p \in Im, Execute(p) \/ Loop(p) \/ Deliver(p)
  PROVE  Moves(p)
<1>1. ASSUME NEW op, About(p, op)
      PROVE  section[p] # "done"
  BY <1>1 DEF CallInv, About, AtEnd
<1>2. CASE Deliver(p)
  BY <1>2 DEF Deliver, Moves, program, control
<1>3. CASE EnterSyncAll(p) \/ EnterSyncImages(p)
  BY <1>3 DEF EnterSyncAll, EnterSyncImages, Moves, program, control
<1>4. CASE \/ AllocateArray(p) \/ AssignArray(p) \/ CheckArray(p) \/ CheckData(p)
           \/ ResetChecks(p) \/ StartTransfer(p) \/ CompleteTransfer(p)
           \/ SendMessage(p) \/ ReturnFromSend(p) \/ Receive(p)
  BY <1>1, <1>4 DEF AllocateArray, AssignArray, CheckArray, CheckData, ResetChecks, StartTransfer,
     CompleteTransfer, SendMessage, ReturnFromSend, Receive, Moves, program
<1>5. CASE \/ LeaveSyncAll(p) \/ LeaveSyncImages(p) \/ Vote(p) \/ Tally(p)
           \/ ReadClock(p) \/ Measure(p) \/ Share(p) \/ Learn(p)
  BY <1>1, <1>5 DEF LeaveSyncAll, LeaveSyncImages, Vote, Tally, ReadClock, Measure, Share, Learn,
     Moves, program
<1>6. CASE ExitLoop(p)
  <2>1. section[p] # "done" /\ build' = build /\ until' = until
    BY <1>1, <1>6 DEF ExitLoop, program
  <2>2. Advance(p) \/ Goto(p, "close", shape[p], irep[p])
    BY <1>6 DEF ExitLoop
  <2> QED BY <2>1, <2>2 DEF Moves
<1>7. CASE ReturnEarly(p)
  <2>1. section[p] # "done" /\ build' = build /\ until' = until
    BY <1>1, <1>7 DEF ReturnEarly, program
  <2>2. Advance(p) \/ NextCall(p)
    BY <1>7, Zenon DEF ReturnEarly
  <2> QED BY <2>1, <2>2, Zenon DEF Moves
<1>8. CASE Loop(p)
  <2>1. section[p] # "done" /\ build' = build /\ until' = until
    BY <1>8 DEF Loop, BeginShape, BeginTrial, Repeat, EndLoop, JudgeTrial, Report, Return, program
  <2>2. NextCall(p) \/ \E part, sh, rep : part # "done" /\ Goto(p, part, sh, rep)
    <3>1. CASE BeginShape(p)
      BY <3>1 DEF BeginShape
    <3>2. CASE BeginTrial(p)
      BY <3>2 DEF BeginTrial
    <3>3. CASE Repeat(p)
      BY <3>3 DEF Repeat
    <3>4. CASE EndLoop(p)
      BY <3>4 DEF EndLoop
    <3>5. CASE JudgeTrial(p)
      BY <3>5 DEF JudgeTrial
    <3>6. CASE Report(p)
      BY <3>6 DEF Report
    <3>7. CASE Return(p)
      BY <3>7 DEF Return
    <3> QED BY <1>8, <3>1, <3>2, <3>3, <3>4, <3>5, <3>6, <3>7, Zenon DEF Loop
  <2> QED BY <2>1, <2>2, Zenon DEF Moves
<1> QED BY <1>2, <1>3, <1>4, <1>5, <1>6, <1>7, <1>8, Zenon DEF Execute

(***************************************************************************)
(* The calls an image makes are those of the driver, one after the other   *)
(* (NextCall), in every build.                                             *)
(***************************************************************************)
THEOREM CallInvariance == Spec => []CallInv
<1>1. Init => CallInv
  <2>1. SUFFICES ASSUME Init
                 PROVE  CallInv
    OBVIOUS
  <2>2. PICK k : k \in 1 .. until /\ \A p \in Im : Begin(p, k)
    BY <2>1, InitBegin
  <2>3. TypesInv
    BY <2>1, InitBegin
  <2> QED BY <2>2, <2>3 DEF CallInv, TypesInv, Begin
<1>2. CallInv /\ [Next]_vars => CallInv'
  <2>1. SUFFICES ASSUME CallInv, [Next]_vars
                 PROVE  CallInv'
    OBVIOUS
  <2>2. CASE UNCHANGED vars
    <3>1. build' = build /\ until' = until /\ UNCHANGED <<call, section, todo>>
      BY <2>2 DEF vars, program, control
    <3>2. Im' = Im
      BY <3>1 DEF Im
    <3> QED BY <2>1, <3>1, <3>2 DEF CallInv
  <2>3. CASE \E p \in Im : Execute(p) \/ Loop(p) \/ Deliver(p)
    BY <2>1, <2>3, StepMoves, MovesCall
  <2> QED BY <2>1, <2>2, <2>3 DEF Next, Exit
<1> QED BY <1>1, <1>2, PTL DEF Spec

\* Each pairing that is used on so many images matches.
LEMMA PairsMatch ==
  ASSUME CallInv, PairsFit(build)
  PROVE  PairsAgree
<1>1. SUFFICES ASSUME NEW p \in Im, InCall(p), ~Halo(p)
               PROVE  LET c == Current(p)
                          pair == Pair(c, p)
                      IN  /\ pair[1] \in Im /\ pair[2] \in Im
                          /\ c.pairing # "single" => p \in {pair[1], pair[2]}
                          /\ Pair(c, pair[1]) = pair /\ Pair(c, pair[2]) = pair
  BY DEF PairsAgree
<1>2. PICK c : c = Current(p)
  OBVIOUS
<1>3. PICK n : n = build.images
  OBVIOUS
<1>4. build \in Builds /\ n \in Nat \ {0} /\ build.port \in {"fortran", "dash"}
  BY <1>3, CafTransferAssumption DEF CallInv
<1>5. call[p] \in 1 .. Len(Calls[build])
  <2>1. call[p] \in 1 .. until /\ until \in Nat /\ until <= Len(Calls[build])
    BY <1>1 DEF CallInv, InCall
  <2>2. Len(Calls[build]) \in Nat
    BY <1>4, CallFacts DEF CallsAre, IsSequence
  <2> QED BY <2>1, <2>2
<1>6. /\ c.images = n /\ c.port = build.port
      /\ \/ c.pairing = "single"
         \/ c.pairing = "multi" /\ n % 2 = 0 /\ n > 2
         \/ c.pairing = "cross" /\ n % 4 = 0 /\ build.port = "fortran"
  BY <1>1, <1>2, <1>3, <1>4, <1>5, CallFacts DEF Current, Halo
<1>7. IF build.port = "dash" THEN Agree(c, 0, n - 1, p) /\ Im = 0 .. n - 1
      ELSE Agree(c, 1, n, p) /\ Im = 1 .. n
  <2>1. Im = IF build.port = "dash" THEN 0 .. n - 1 ELSE 1 .. n
    BY <1>3 DEF Im
  <2>2. CASE c.pairing = "single"
    BY <1>4, <1>6, <2>1, <2>2, SinglePairs
  <2>3. CASE build.port = "fortran" /\ c.pairing # "single"
    <3>1. p \in 1 .. n
      BY <2>1, <2>3
    <3>2. Agree(c, 1, n, p)
      BY <1>4, <1>6, <2>3, <3>1, FortranPairs
    <3> QED BY <2>1, <2>3, <3>2
  <2>4. CASE build.port = "dash" /\ c.pairing # "single"
    <3>1. n <= 2 \/ n % 2 = 1
      BY <1>3, <2>4 DEF PairsFit
    <3>2. n % 2 = 0 /\ n > 2
      BY <1>6, <2>4
    <3> QED BY <1>4, <3>1, <3>2
  <2> QED BY <1>4, <2>2, <2>3, <2>4
<1> QED BY <1>2, <1>7, Zenon DEF Agree

(***************************************************************************)
(* PairsAgree: the partner an image works out has it for its partner, with *)
(* the opposite role (README, Multiple and Crossing ping-pong), for every  *)
(* number of images in the Fortran suite, and in the DASH port where it    *)
(* uses only the first and the last image.                                 *)
(***************************************************************************)
THEOREM PairsTheorem == Spec => [](PairsFit(build) => PairsAgree)
<1>1. CallInv /\ PairsFit(build) => PairsAgree
  BY PairsMatch
<1> QED BY <1>1, CallInvariance, PTL
=============================================================================
