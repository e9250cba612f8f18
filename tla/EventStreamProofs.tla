------------------------- MODULE EventStreamProofs -------------------------
(***************************************************************************)
(* What EventStream promises for every number of events, cuts, heartbeats  *)
(* and failures: a stream that ends by itself has carried the job's end,   *)
(* and the core's log is, whole and in order, a prefix of the worker's.    *)
(* So the stream implements EventLog.                                      *)
(***************************************************************************)
EXTENDS EventStream, SequenceTheorems, WellFoundedInduction, TLAPS

-----------------------------------------------------------------------------
(* What is kept of a sequence.  Kept is a recursive function, so its value *)
(* is found by induction, with the values for which it is right as a set.  *)

\* A set that has 0 and with each number its successor has them all.
LEMMA NatSetInduction ==
    ASSUME NEW S, 0 \in S, \A n \in Nat : n \in S => n + 1 \in S
    PROVE  Nat \subseteq S
<1> DEFINE T == {n \in Nat : n \notin S}
           R == {ss \in Nat \X Nat : ss[1] < ss[2]}
<1>1. IsWellFoundedOn(R, Nat)
  BY NatLessThanWellFounded DEF OpToRel
<1>2. ASSUME T # {} PROVE FALSE
  <2>1. T \subseteq Nat
    OBVIOUS
  <2> HIDE DEF R, T
  <2>2. PICK x \in T : \A y \in T : ~ (<<y, x>> \in R)
    BY <1>1, <1>2, <2>1, WFMin
  <2> USE DEF R, T
  <2>3. x \in Nat /\ x # 0
    BY <2>2
  <2>4. x - 1 \in Nat /\ (x - 1) + 1 = x /\ <<x - 1, x>> \in R
    BY <2>3
  <2> QED
    BY <2>2, <2>3, <2>4
<1> QED
  BY <1>2

\* f has the values of the recursion in Kept, up to n.
IsKeptTo(f, s, S, n) ==
    f = [i \in 0 .. n |-> IF i = 0 THEN <<>>
                          ELSE IF s[i] \in S THEN Append(f[i - 1], s[i]) ELSE f[i - 1]]

\* The recursion has a solution, so that Kept is its last value.
LEMMA KeptExists ==
    ASSUME NEW U, NEW s \in Seq(U), NEW S
    PROVE  \E f : IsKeptTo(f, s, S, Len(s)) /\ Kept(s, S) = f[Len(s)]
<1> DEFINE N == {n \in Nat : n <= Len(s) => \E f : IsKeptTo(f, s, S, n)}
<1>1. 0 \in N
  <2>1. IsKeptTo([i \in 0 .. 0 |-> <<>>], s, S, 0)
    BY DEF IsKeptTo
  <2> QED
    BY <2>1
<1>2. ASSUME NEW n \in Nat, n \in N PROVE n + 1 \in N
  <2> SUFFICES ASSUME n + 1 <= Len(s) PROVE \E f : IsKeptTo(f, s, S, n + 1)
    OBVIOUS
  <2>1. PICK f : IsKeptTo(f, s, S, n)
    BY <1>2
  <2> DEFINE g == [i \in 0 .. (n + 1) |->
                     IF i <= n THEN f[i]
                     ELSE IF s[n + 1] \in S THEN Append(f[n], s[n + 1]) ELSE f[n]]
  <2>2. ASSUME NEW i \in 0 .. (n + 1)
        PROVE  g[i] = IF i = 0 THEN <<>>
                      ELSE IF s[i] \in S THEN Append(g[i - 1], s[i]) ELSE g[i - 1]
    <3>1. CASE i = 0
      BY <2>1, <3>1 DEF IsKeptTo
    <3>2. CASE i # 0 /\ i <= n
      <4>1. i \in 0 .. n /\ i - 1 \in 0 .. n /\ i - 1 \in 0 .. (n + 1)
        BY <3>2
      <4>2. g[i] = f[i] /\ g[i - 1] = f[i - 1]
        BY <4>1
      <4>3. f[i] = IF s[i] \in S THEN Append(f[i - 1], s[i]) ELSE f[i - 1]
        BY <2>1, <3>2, <4>1 DEF IsKeptTo
      <4> QED
        BY <3>2, <4>2, <4>3
    <3>3. CASE i = n + 1
      BY <3>3
    <3> QED
      BY <3>1, <3>2, <3>3
  <2>3. IsKeptTo(g, s, S, n + 1)
    <3> DEFINE h == [i \in 0 .. (n + 1) |-> IF i = 0 THEN <<>>
                       ELSE IF s[i] \in S THEN Append(g[i - 1], s[i]) ELSE g[i - 1]]
    <3>1. \A i \in 0 .. (n + 1) : g[i] = h[i]
      BY <2>2
    <3>2. g = h
      <4> HIDE DEF h
      <4>1. g = [i \in 0 .. (n + 1) |-> g[i]]
        OBVIOUS
      <4>2. h = [i \in 0 .. (n + 1) |-> h[i]]
        BY DEF h
      <4> QED
        BY <3>1, <4>1, <4>2
    <3> QED
      BY <3>2 DEF IsKeptTo
  <2> QED
    BY <2>3
<1>3. \E f : IsKeptTo(f, s, S, Len(s))
  <2> HIDE DEF N
  <2>1. Nat \subseteq N
    BY <1>1, <1>2, NatSetInduction
  <2>2. Len(s) \in N
    BY <2>1
  <2> QED
    BY <2>2 DEF N
<1> DEFINE f == CHOOSE f : IsKeptTo(f, s, S, Len(s))
<1>4. IsKeptTo(f, s, S, Len(s))
  BY <1>3
<1>5. Kept(s, S) = f[Len(s)]
  BY DEF Kept, IsKeptTo
<1> HIDE DEF f
<1> QED
  BY <1>4, <1>5

\* A further element is kept or not, behind what is kept already.
LEMMA KeptAppend ==
    ASSUME NEW U, NEW s \in Seq(U), NEW x \in U, NEW S
    PROVE  Kept(Append(s, x), S) = IF x \in S THEN Append(Kept(s, S), x) ELSE Kept(s, S)
<1> DEFINE t == Append(s, x)
<1>1. t \in Seq(U) /\ Len(t) = Len(s) + 1 /\ t[Len(s) + 1] = x
      /\ \A i \in 1 .. Len(s) : t[i] = s[i]
  OBVIOUS
<1> HIDE DEF t
<1>2. PICK f : IsKeptTo(f, s, S, Len(s)) /\ Kept(s, S) = f[Len(s)]
  BY KeptExists
<1>3. PICK g : IsKeptTo(g, t, S, Len(t)) /\ Kept(t, S) = g[Len(t)]
  BY KeptExists, <1>1
<1> DEFINE N == {n \in Nat : n <= Len(s) => f[n] = g[n]}
<1>4. 0 \in N
  BY <1>1, <1>2, <1>3 DEF IsKeptTo
<1>5. ASSUME NEW n \in Nat, n \in N PROVE n + 1 \in N
  <2> SUFFICES ASSUME n + 1 <= Len(s) PROVE f[n + 1] = g[n + 1]
    OBVIOUS
  <2>1. n + 1 \in 0 .. Len(s) /\ n + 1 \in 0 .. Len(t) /\ n + 1 # 0 /\ (n + 1) - 1 = n
        /\ n + 1 \in 1 .. Len(s)
    BY <1>1
  <2>2. f[n] = g[n]
    BY <1>5
  <2>3. f[n + 1] = IF s[n + 1] \in S THEN Append(f[n], s[n + 1]) ELSE f[n]
    BY <1>2, <2>1 DEF IsKeptTo
  <2>4. g[n + 1] = IF t[n + 1] \in S THEN Append(g[n], t[n + 1]) ELSE g[n]
    BY <1>3, <2>1 DEF IsKeptTo
  <2> QED
    BY <1>1, <2>1, <2>2, <2>3, <2>4
<1>6. f[Len(s)] = g[Len(s)]
  <2> HIDE DEF N
  <2>1. Nat \subseteq N
    BY <1>4, <1>5, NatSetInduction
  <2>2. Len(s) \in N
    BY <2>1
  <2> QED
    BY <2>2 DEF N
<1>7. Len(t) \in 0 .. Len(t) /\ Len(t) # 0 /\ Len(t) - 1 = Len(s)
  BY <1>1
<1>8. g[Len(t)] = IF t[Len(t)] \in S THEN Append(g[Len(s)], t[Len(t)]) ELSE g[Len(s)]
  BY <1>3, <1>7 DEF IsKeptTo
<1> QED
  BY <1>1, <1>2, <1>3, <1>6, <1>8 DEF t

\* Nothing is kept of nothing.
LEMMA KeptOfNone == ASSUME NEW S PROVE Kept(<<>>, S) = <<>>
<1>1. <<>> \in Seq({}) /\ Len(<<>>) = 0
  OBVIOUS
<1>2. PICK f : IsKeptTo(f, <<>>, S, Len(<<>>)) /\ Kept(<<>>, S) = f[Len(<<>>)]
  BY <1>1, KeptExists
<1> QED
  BY <1>1, <1>2 DEF IsKeptTo

\* A sequence over S is kept whole.
LEMMA KeptOfAll == ASSUME NEW S, NEW s \in Seq(S) PROVE Kept(s, S) = s
<1>1. PICK f : IsKeptTo(f, s, S, Len(s)) /\ Kept(s, S) = f[Len(s)]
  BY KeptExists
<1> DEFINE N == {n \in Nat : n <= Len(s) => f[n] = SubSeq(s, 1, n)}
<1>2. 0 \in N
  BY <1>1 DEF IsKeptTo
<1>3. ASSUME NEW n \in Nat, n \in N PROVE n + 1 \in N
  <2> SUFFICES ASSUME n + 1 <= Len(s) PROVE f[n + 1] = SubSeq(s, 1, n + 1)
    OBVIOUS
  <2>1. n + 1 \in 0 .. Len(s) /\ n + 1 # 0 /\ (n + 1) - 1 = n /\ n + 1 \in 1 .. Len(s)
    OBVIOUS
  <2>2. f[n] = SubSeq(s, 1, n)
    BY <1>3
  <2>3. f[n + 1] = Append(f[n], s[n + 1])
    <3>1. f[n + 1] = IF s[n + 1] \in S THEN Append(f[n], s[n + 1]) ELSE f[n]
      BY <1>1, <2>1 DEF IsKeptTo
    <3>2. s[n + 1] \in S
      BY <2>1
    <3> QED
      BY <3>1, <3>2
  <2>4. SubSeq(s, 1, n + 1) = Append(SubSeq(s, 1, n), s[n + 1])
    BY <2>1
  <2> QED
    BY <2>2, <2>3, <2>4
<1>4. f[Len(s)] = SubSeq(s, 1, Len(s))
  <2> HIDE DEF N
  <2>1. Nat \subseteq N
    BY <1>2, <1>3, NatSetInduction
  <2>2. Len(s) \in N
    BY <2>1
  <2> QED
    BY <2>2 DEF N
<1> QED
  BY <1>1, <1>4
-----------------------------------------------------------------------------
(* The invariant.                                                          *)

Unit  == [event : 0 .. MaxEvents, part : Parts]

\* The ends of the frames of k events after a, and the entries they are for.
Run(a, k)     == [i \in 1 .. k |-> [event |-> a + i, part |-> 3]]
Entries(a, k) == [i \in 1 .. k |-> [seq |-> a + i, whole |-> TRUE]]

\* What the server has sent of the current poll's answer or is about to.
Sent == buf \o wire \o stream.out

\* The units A bring every event between c and a, once and in order; cut
\* anywhere, they bring a beginning of them; and they bring nothing else.
Carries(A, c, a) ==
    /\ A \in Seq(Unit)
    /\ \A i \in DOMAIN A : A[i] = Comment \/ A[i].event > c
    /\ Kept(A, FrameEnds) = Run(c, a - c)
    /\ \A n \in 0 .. Len(A) : \E k \in 0 .. (a - c) :
          Kept(SubSeq(A, 1, n), FrameEnds) = Run(c, k)

\* The status follows the end, and a place of the log is left for the end.
EndFits ==
    /\ marked => ended
    /\ ~ended => appended < MaxEvents

\* A stream belongs to a poll; its backlog is a piece of the log from its place.
StreamFits ==
    /\ pump # "reading" => stream = NoStream /\ wire = <<>> /\ buf = <<>>
    /\ pump = "reading" =>
          /\ stream.pc # "none"
          /\ cursor <= stream.at
          /\ stream.at + Len(stream.todo) <= appended
          /\ stream.todo = From(stream.at, stream.at + Len(stream.todo))
          /\ stream.pc \in {"replay", "check", "wait"} => stream.out = <<>>

\* A stream is a record, whatever its fields hold.
StreamIsRecord ==
    stream = [pc |-> stream.pc, at |-> stream.at, todo |-> stream.todo,
              out |-> stream.out, seen |-> stream.seen]

CarryFits == pump = "reading" => Carries(Sent, cursor, stream.at)

\* Between batches the core's log is as long as the cursor; within one it is as
\* long as what the batch has got through, and the batch goes on from there.
LogFits ==
    /\ persisted = Entries(0, Len(persisted))
    /\ pump # "persisting" => batch = <<>> /\ Len(persisted) = cursor
    /\ pump = "persisting" =>
          /\ batch = Entries(Len(persisted), Len(batch))
          /\ Len(persisted) + Len(batch) <= appended
          /\ through = 0 => Len(persisted) = cursor
          /\ through # 0 => through = Len(persisted) /\ through > cursor

IInv == TypeOK /\ EndFits /\ StreamIsRecord /\ StreamFits /\ CarryFits /\ LogFits

-----------------------------------------------------------------------------
(* What is sent.                                                           *)

\* A poll that has brought nothing is at its cursor.
LEMMA NothingCarried == ASSUME NEW c \in Nat PROVE Carries(<<>>, c, c)
<1>1. Run(c, c - c) = <<>>
  BY DEF Run
<1>2. <<>> \in Seq(Unit) /\ SubSeq(<<>>, 1, 0) = <<>> /\ Len(<<>>) = 0 /\ DOMAIN <<>> = {}
  OBVIOUS
<1>3. 0 \in 0 .. (c - c) /\ \A n \in 0 .. 0 : n = 0
  OBVIOUS
<1>4. Kept(<<>>, FrameEnds) = Run(c, c - c) /\ Kept(<<>>, FrameEnds) = Run(c, 0)
  BY <1>1, KeptOfNone
<1> QED
  BY <1>2, <1>3, <1>4 DEF Carries

\* A unit that ends no frame changes nothing.
LEMMA FillerCarried ==
    ASSUME NEW c \in Nat, NEW a \in Nat, c <= a, NEW A, Carries(A, c, a),
           NEW u \in Unit, u \notin FrameEnds, u = Comment \/ u.event > c,
           NEW B, B = Append(A, u)
    PROVE  Carries(B, c, a)
<1>1. A \in Seq(Unit)
  BY DEF Carries
<1>2. B \in Seq(Unit) /\ Len(B) = Len(A) + 1 /\ B[Len(A) + 1] = u
      /\ \A i \in 1 .. Len(A) : B[i] = A[i]
  BY <1>1
<1>3. Kept(B, FrameEnds) = Run(c, a - c)
  BY <1>1, KeptAppend DEF Carries
<1>4. \A n \in 0 .. Len(A) : SubSeq(B, 1, n) = SubSeq(A, 1, n)
  BY <1>1, <1>2
<1>5. SubSeq(B, 1, Len(A) + 1) = B
  BY <1>2
<1>6. ASSUME NEW i \in DOMAIN B PROVE B[i] = Comment \/ B[i].event > c
  <2>1. i \in 1 .. Len(A) \/ i = Len(A) + 1
    BY <1>1, <1>2
  <2>2. DOMAIN A = 1 .. Len(A)
    BY <1>1
  <2> QED
    BY <1>2, <2>1, <2>2 DEF Carries
<1>7. ASSUME NEW n \in 0 .. Len(B)
      PROVE  \E k \in 0 .. (a - c) : Kept(SubSeq(B, 1, n), FrameEnds) = Run(c, k)
  <2>1. CASE n \in 0 .. Len(A)
    BY <1>4, <2>1 DEF Carries
  <2>2. CASE n = Len(A) + 1
    <3>1. a - c \in 0 .. (a - c)
      OBVIOUS
    <3> QED
      BY <1>3, <1>5, <2>2, <3>1
  <2>3. n \in 0 .. Len(A) \/ n = Len(A) + 1
    BY <1>1, <1>2
  <2> QED
    BY <2>1, <2>2, <2>3
<1> QED
  BY <1>2, <1>3, <1>6, <1>7 DEF Carries

\* A run grows at its end.
LEMMA RunGrows ==
    ASSUME NEW c \in Nat, NEW k \in Nat
    PROVE  Append(Run(c, k), [event |-> c + k + 1, part |-> 3]) = Run(c, k + 1)
BY DEF Run

\* The end of the next event's frame makes the run longer by one.
LEMMA EndCarried ==
    ASSUME NEW c \in Nat, NEW a \in Nat, c <= a, a + 1 <= MaxEvents,
           NEW A, Carries(A, c, a), NEW u, u = [event |-> a + 1, part |-> 3],
           NEW B, B = Append(A, u)
    PROVE  Carries(B, c, a + 1)
<1>0. u \in Unit /\ u \in FrameEnds /\ u.event > c
  BY BoundsAssumption DEF Unit, FrameEnds, Parts
<1>1. A \in Seq(Unit)
  BY DEF Carries
<1>2. B \in Seq(Unit) /\ Len(B) = Len(A) + 1 /\ B[Len(A) + 1] = u
      /\ \A i \in 1 .. Len(A) : B[i] = A[i]
  BY <1>0, <1>1
<1>3. Kept(B, FrameEnds) = Run(c, (a + 1) - c)
  <2>1. Kept(B, FrameEnds) = Append(Run(c, a - c), u)
    BY <1>0, <1>1, KeptAppend DEF Carries
  <2>2. a - c \in Nat /\ c + (a - c) + 1 = a + 1 /\ (a - c) + 1 = (a + 1) - c
    OBVIOUS
  <2> QED
    BY <2>1, <2>2, RunGrows
<1>4. \A n \in 0 .. Len(A) : SubSeq(B, 1, n) = SubSeq(A, 1, n)
  BY <1>1, <1>2
<1>5. SubSeq(B, 1, Len(A) + 1) = B
  BY <1>2
<1>6. ASSUME NEW i \in DOMAIN B PROVE B[i] = Comment \/ B[i].event > c
  <2>1. i \in 1 .. Len(A) \/ i = Len(A) + 1
    BY <1>1, <1>2
  <2>2. DOMAIN A = 1 .. Len(A)
    BY <1>1
  <2> QED
    BY <1>0, <1>2, <2>1, <2>2 DEF Carries
<1>7. ASSUME NEW n \in 0 .. Len(B)
      PROVE  \E k \in 0 .. ((a + 1) - c) : Kept(SubSeq(B, 1, n), FrameEnds) = Run(c, k)
  <2>1. CASE n \in 0 .. Len(A)
    <3>1. PICK k \in 0 .. (a - c) : Kept(SubSeq(A, 1, n), FrameEnds) = Run(c, k)
      BY <2>1 DEF Carries
    <3>2. k \in 0 .. ((a + 1) - c)
      OBVIOUS
    <3> QED
      BY <1>4, <2>1, <3>1, <3>2
  <2>2. CASE n = Len(A) + 1
    <3>1. (a + 1) - c \in 0 .. ((a + 1) - c)
      OBVIOUS
    <3> QED
      BY <1>3, <1>5, <2>2, <3>1
  <2>3. n \in 0 .. Len(A) \/ n = Len(A) + 1
    BY <1>1, <1>2
  <2> QED
    BY <2>1, <2>2, <2>3
<1> QED
  BY <1>2, <1>3, <1>6, <1>7 DEF Carries

\* Writing a unit, and reading some, moves it along and changes nothing of
\* what is sent.
LEMMA WritePreserves ==
    \A b, w, o \in Seq(Unit) :
        o # <<>> => b \o Append(w, Head(o)) \o Tail(o) = b \o w \o o
<1> SUFFICES ASSUME NEW b \in Seq(Unit), NEW w \in Seq(Unit), NEW o \in Seq(Unit), o # <<>>
             PROVE  b \o Append(w, Head(o)) \o Tail(o) = b \o w \o o
  OBVIOUS
<1>1. PICK h \in Seq(Unit) : h = <<Head(o)>>
  <2>1. <<Head(o)>> \in Seq(Unit)
    OBVIOUS
  <2> QED
    BY <2>1
<1>2. PICK y \in Seq(Unit) : y = Tail(o)
  <2>1. Tail(o) \in Seq(Unit)
    OBVIOUS
  <2> QED
    BY <2>1
<1>3. Append(w, Head(o)) = w \o h /\ h \o y = o
  BY <1>1, <1>2
<1>4. PICK x \in Seq(Unit) : x = b \o w
  <2>1. b \o w \in Seq(Unit)
    OBVIOUS
  <2> QED
    BY <2>1
<1>5. b \o (w \o h) = x \o h
  BY <1>4
<1>6. (x \o h) \o y = x \o (h \o y)
  BY SMTT(20)
<1> QED
  BY <1>2, <1>3, <1>4, <1>5, <1>6

\* Frames that go from the wire to the buffer leave the whole as it was.
LEMMA FillPreserves ==
    \A b, w, o \in Seq(Unit) : \A n \in 1 .. Len(w) :
        (b \o SubSeq(w, 1, n)) \o SubSeq(w, n + 1, Len(w)) \o o = b \o w \o o
<1> SUFFICES ASSUME NEW b \in Seq(Unit), NEW w \in Seq(Unit), NEW o \in Seq(Unit),
                    NEW n \in 1 .. Len(w)
             PROVE  (b \o SubSeq(w, 1, n)) \o SubSeq(w, n + 1, Len(w)) \o o = b \o w \o o
  OBVIOUS
<1>1. PICK x \in Seq(Unit), y \in Seq(Unit) :
        x = SubSeq(w, 1, n) /\ y = SubSeq(w, n + 1, Len(w))
  <2>1. SubSeq(w, 1, n) \in Seq(Unit) /\ SubSeq(w, n + 1, Len(w)) \in Seq(Unit)
    OBVIOUS
  <2> QED
    BY <2>1
<1>2. x \o y = w
  BY <1>1, ConcatAdjacentSubSeq
<1>3. (b \o x) \o y = b \o (x \o y)
  BY SMTT(20)
<1> QED
  BY <1>1, <1>2, <1>3

\* A frame is sent as its three units.
LEMMA FrameAppends ==
    ASSUME NEW s \in Seq(Unit), NEW e \in 1 .. MaxEvents
    PROVE  s \o Frame(e) = Append(Append(Append(s, [event |-> e, part |-> 1]),
                                  [event |-> e, part |-> 2]), [event |-> e, part |-> 3])
BY DEF Frame, Parts

\* A comment is one unit.
LEMMA CommentAppends ==
    ASSUME NEW s \in Seq(Unit)
    PROVE  s \o <<Comment>> = Append(s, Comment)
BY DEF Comment, Unit
\* A poll that stops hands on the next events of the log in their order, or
\* none when it stopped inside a data line.
LEMMA StoppedPoll ==
    ASSUME cursor \in Nat, stream.at \in Nat, cursor <= stream.at, stream.at <= MaxEvents,
           Carries(Sent, cursor, stream.at),
           Len(buf) \in 0 .. Len(Sent), buf = SubSeq(Sent, 1, Len(buf))
    PROVE  \E k \in 0 .. (stream.at - cursor) : Fresh(Decoded(buf)) = Entries(cursor, k)
<1> DEFINE c == cursor
           a == stream.at
           b == buf
<1>0. c \in Nat /\ a \in Nat /\ c <= a /\ a <= MaxEvents
  OBVIOUS
<1>1. CASE Torn(b)
  <2>1. Fresh(Decoded(b)) = <<>>
    BY <1>1, KeptOfNone DEF Decoded, Fresh
  <2>2. Entries(c, 0) = <<>> /\ 0 \in 0 .. (a - c)
    BY DEF Entries
  <2> QED
    BY <2>1, <2>2
<1>2. CASE ~Torn(b)
  <2>1. PICK k \in 0 .. (a - c) : Kept(b, FrameEnds) = Run(c, k)
    BY Zenon DEF Carries
  <2>2. WholeFrames(b) = Entries(c, k)
    <3>1. DOMAIN Run(c, k) = 1 .. k /\ \A i \in 1 .. k : Run(c, k)[i].event = c + i
      BY DEF Run
    <3> QED
      BY <2>1, <3>1 DEF WholeFrames, Entries
  <2>3. Entries(c, k) \in Seq([seq : c + 1 .. MaxEvents, whole : BOOLEAN])
    <3>1. \A i \in 1 .. k : [seq |-> c + i, whole |-> TRUE]
                               \in [seq : c + 1 .. MaxEvents, whole : BOOLEAN]
      BY BoundsAssumption
    <3> QED
      BY <3>1 DEF Entries
  <2>4. Fresh(Entries(c, k)) = Entries(c, k)
    BY <2>3, KeptOfAll DEF Fresh
  <2> QED
    BY <1>2, <2>1, <2>2, <2>4 DEF Decoded
<1> QED
  BY <1>1, <1>2

-----------------------------------------------------------------------------
(* The steps.                                                              *)

\* The job's thread appends to the log and leaves the rest alone.
LEMMA JobKeepsIInv == ASSUME IInv, JobStep PROVE IInv'
<1> USE BoundsAssumption
<1>1. appended' \in appended .. MaxEvents /\ appended' \in 0 .. MaxEvents /\ appended \in Nat
      /\ endAt' \in 0 .. appended' /\ marked' \in BOOLEAN /\ EndFits'
  <2> USE DEF IInv, TypeOK, EndFits, ended
  <2>1. CASE AppendEvent
    BY <2>1 DEF AppendEvent
  <2>2. CASE AppendTerminal
    BY <2>2 DEF AppendTerminal
  <2>3. CASE MarkTerminal
    BY <2>3 DEF MarkTerminal
  <2> QED
    BY <2>1, <2>2, <2>3 DEF JobStep
<1>2. UNCHANGED <<stream, wire, buf, core, cuts, beats, failures>>
  BY DEF JobStep, AppendEvent, AppendTerminal, MarkTerminal
<1>3. TypeOK'
  BY <1>1, <1>2 DEF IInv, TypeOK, core
<1>4. StreamIsRecord' /\ CarryFits'
  BY <1>2 DEF IInv, StreamIsRecord, CarryFits, Sent, core
<1>5. StreamFits'
  BY <1>1, <1>2 DEF IInv, TypeOK, StreamFits, core
<1>6. LogFits'
  BY <1>1, <1>2 DEF IInv, TypeOK, LogFits, core
<1> QED
  BY <1>1, <1>3, <1>4, <1>5, <1>6 DEF IInv

\* The pump lets go of the job between two polls.
LEMMA RetireKeepsIInv == ASSUME IInv, Retire PROVE IInv'
<1>1. /\ pump = "idle" /\ pump' = "retired"
      /\ UNCHANGED <<log, stream, wire, buf, batch, through, cursor, persisted, cuts, beats,
                     failures>>
  BY DEF Retire
<1> QED
  BY <1>1 DEF IInv, TypeOK, EndFits, ended, StreamIsRecord, StreamFits, CarryFits, LogFits, log

\* A server thread runs only while a poll reads from it.
LEMMA ServerStepReads == ASSUME IInv, ServerStep \/ Beat PROVE pump = "reading"
BY DEF IInv, StreamFits, ServerStep, Beat, Replay, Yield, Write, ReadStatus, ReadCursor,
       Wake, Close, NoStream

\* What is asked of a step of the server thread: the stream's place stays
\* inside the log, and what was sent is the run up to that place.
LEMMA ServedKeepsIInv ==
    ASSUME IInv, pump = "reading",
           UNCHANGED <<log, core, buf, cuts, failures>>, beats' \in 0 .. MaxBeats,
           NEW p \in {"replay", "yield", "check", "wait", "closing", "closed"},
           NEW a \in Nat, cursor <= a, NEW t \in Seq(1 .. MaxEvents),
           a + Len(t) <= appended, t = From(a, a + Len(t)),
           NEW o \in Seq(Unit), p \in {"replay", "check", "wait"} => o = <<>>,
           NEW z \in BOOLEAN, wire' \in Seq(Unit),
           stream' = [pc |-> p, at |-> a, todo |-> t, out |-> o, seen |-> z],
           NEW A, A = buf \o wire' \o o, Carries(A, cursor, a)
    PROVE  IInv'
<1> USE BoundsAssumption
<1>1. EndFits' /\ LogFits'
  BY DEF IInv, EndFits, ended, LogFits, log, core
<1>2. StreamIsRecord' /\ CarryFits' /\ StreamFits'
  BY DEF StreamIsRecord, CarryFits, StreamFits, Sent, log, core
<1>3. a \in 0 .. appended
  BY DEF IInv, TypeOK
<1>4. TypeOK'
  BY <1>3 DEF IInv, TypeOK, log, core, Unit
<1> QED
  BY <1>1, <1>2, <1>4 DEF IInv

\* The backlog of a stream is the part of the log behind its place.
LEMMA FromIsRun ==
    ASSUME NEW a \in Nat, NEW b \in Nat, a <= b, b <= MaxEvents
    PROVE  /\ From(a, b) \in Seq(1 .. MaxEvents)
           /\ Len(From(a, b)) = b - a
           /\ a + Len(From(a, b)) = b
           /\ From(a, b) = From(a, a + Len(From(a, b)))
<1>1. \A i \in 1 .. (b - a) : a + i \in 1 .. MaxEvents
  BY BoundsAssumption
<1>2. From(a, b) \in Seq(1 .. MaxEvents) /\ Len(From(a, b)) = b - a
  BY <1>1 DEF From
<1>3. a + Len(From(a, b)) = b
  BY <1>2
<1> QED
  BY <1>2, <1>3

\* Yielding an event takes the first of the backlog.
LEMMA TailOfRun ==
    ASSUME NEW a \in Nat, NEW b \in Nat, a < b, b <= MaxEvents, NEW t, t = From(a, b)
    PROVE  Head(t) = a + 1 /\ Tail(t) = From(a + 1, b)
<1>1. t \in Seq(1 .. MaxEvents) /\ Len(t) = b - a /\ t # <<>>
  <2>1. a <= b
    OBVIOUS
  <2>2. t \in Seq(1 .. MaxEvents) /\ Len(t) = b - a
    BY <2>1, FromIsRun, Zenon
  <2> QED
    BY <2>2
<1>2. \A i \in 1 .. (b - a) : t[i] = a + i
  BY DEF From
<1>3. Head(t) = a + 1
  BY <1>1, <1>2
<1>4. PICK r : r = From(a + 1, b)
  OBVIOUS
<1>5. r \in Seq(1 .. MaxEvents) /\ Len(r) = b - (a + 1)
  <2>1. a + 1 \in Nat /\ a + 1 <= b
    OBVIOUS
  <2> QED
    BY <1>4, <2>1, FromIsRun, Zenon
<1>6. \A i \in 1 .. (b - (a + 1)) : r[i] = (a + 1) + i
  BY <1>4 DEF From
<1>7. Tail(t) = r
  BY <1>1, <1>2, <1>5, <1>6, HeadTailProperties, SeqEqual
<1> QED
  BY <1>3, <1>4, <1>7

\* A frame carries the run on by one event, a comment by none, and the other
\* steps send nothing.
LEMMA ServerKeepsIInv == ASSUME IInv, ServerStep \/ Beat PROVE IInv'
<1> USE BoundsAssumption
<1>1. pump = "reading" /\ UNCHANGED <<log, core, buf, cuts, failures>> /\ beats' \in 0 .. MaxBeats
  <2>1. UNCHANGED <<log, core, buf, cuts, failures>>
    BY DEF Serve, ServerStep, Beat, Replay, Yield, Write, ReadStatus, ReadCursor, Wake, Close
  <2>2. beats' = beats \/ (beats < MaxBeats /\ beats' = beats + 1)
    BY Zenon DEF Serve, ServerStep, Beat, Replay, Yield, Write, ReadStatus, ReadCursor, Wake, Close
  <2>3. beats' \in 0 .. MaxBeats
    BY <2>2 DEF IInv, TypeOK
  <2> QED
    BY <2>1, <2>3, ServerStepReads
<1>2. /\ stream.out \in Seq(Unit) /\ wire \in Seq(Unit) /\ buf \in Seq(Unit)
      /\ buf \o wire \in Seq(Unit) /\ stream.todo \in Seq(1 .. MaxEvents)
      /\ stream.pc \in {"replay", "yield", "check", "wait", "closing", "closed"}
      /\ stream.seen \in BOOLEAN /\ marked \in BOOLEAN
  <2>1. stream.out \in Seq(Unit) /\ wire \in Seq(Unit) /\ buf \in Seq(Unit)
        /\ stream.todo \in Seq(1 .. MaxEvents)
    BY DEF IInv, TypeOK, Unit
  <2>2. buf \o wire \in Seq(Unit)
    BY <2>1
  <2>3. /\ stream.pc \in {"replay", "yield", "check", "wait", "closing", "closed"}
        /\ stream.seen \in BOOLEAN /\ marked \in BOOLEAN
    BY <1>1 DEF IInv, TypeOK, StreamFits
  <2> QED
    BY <2>1, <2>2, <2>3
<1>3. /\ appended \in Nat /\ appended <= MaxEvents /\ cursor \in Nat /\ stream.at \in Nat
      /\ stream.at <= appended /\ cursor <= stream.at
      /\ stream.at + Len(stream.todo) <= appended
      /\ stream.todo = From(stream.at, stream.at + Len(stream.todo))
      /\ stream.pc \in {"replay", "check", "wait"} => stream.out = <<>>
  BY <1>1 DEF IInv, TypeOK, StreamFits
<1>4. stream = [pc |-> stream.pc, at |-> stream.at, todo |-> stream.todo,
                out |-> stream.out, seen |-> stream.seen]
  BY DEF IInv, StreamIsRecord
<1>5. Carries(buf \o wire \o stream.out, cursor, stream.at)
  BY <1>1 DEF IInv, CarryFits, Sent
<1>6. /\ From(stream.at, appended) \in Seq(1 .. MaxEvents)
      /\ stream.at + Len(From(stream.at, appended)) <= appended
      /\ From(stream.at, appended) = From(stream.at, stream.at + Len(From(stream.at, appended)))
  <2>1. stream.at + Len(From(stream.at, appended)) = appended
    BY <1>3, FromIsRun, Zenon
  <2>2. /\ From(stream.at, appended) \in Seq(1 .. MaxEvents)
        /\ From(stream.at, appended) = From(stream.at, stream.at + Len(From(stream.at, appended)))
    BY <1>3, FromIsRun, Zenon
  <2> QED
    BY <1>3, <2>1, <2>2
<1>7. Comment \in Unit /\ Comment \notin FrameEnds
  BY DEF Comment, Unit, FrameEnds, Parts
<1>8. stream.out = <<>> => /\ buf \o wire \o stream.out = buf \o wire
                           /\ <<Comment>> \in Seq(Unit)
                           /\ Carries(buf \o wire \o <<Comment>>, cursor, stream.at)
  <2> SUFFICES ASSUME stream.out = <<>>
               PROVE  /\ buf \o wire \o stream.out = buf \o wire
                      /\ <<Comment>> \in Seq(Unit)
                      /\ Carries(buf \o wire \o <<Comment>>, cursor, stream.at)
    OBVIOUS
  <2>1. buf \o wire \o stream.out = buf \o wire
    BY <1>2
  <2>2. Carries(buf \o wire, cursor, stream.at)
    BY <1>5, <2>1
  <2>3. Carries(Append(buf \o wire, Comment), cursor, stream.at)
    BY <1>3, <1>7, <2>2, FillerCarried
  <2>4. buf \o wire \o <<Comment>> = Append(buf \o wire, Comment)
    BY <1>2, CommentAppends, Zenon
  <2>5. <<Comment>> \in Seq(Unit)
    BY <1>7
  <2> QED
    BY <2>1, <2>3, <2>4, <2>5, Zenon
<1>9. CASE Replay
  <2>1. PICK t \in Seq(1 .. MaxEvents) : /\ t = From(stream.at, appended)
                                        /\ t = From(stream.at, stream.at + Len(t))
                                        /\ stream.at + Len(t) <= appended
    BY <1>3, <1>6, Zenon
  <2>2. stream' = [pc |-> "yield", at |-> stream.at, todo |-> t,
                   out |-> stream.out, seen |-> stream.seen] /\ wire' = wire
    BY <1>4, <1>9, <2>1 DEF Replay, Serve
  <2> QED
    BY <1>1, <1>2, <1>3, <1>5, <2>1, <2>2, ServedKeepsIInv
<1>10. CASE Yield
  <2> DEFINE e == stream.at + 1
             b == stream.at + Len(stream.todo)
  <2>1. stream.out = <<>> /\ Len(stream.todo) \in Nat \ {0}
    BY <1>2, <1>10 DEF Yield
  <2>2. e \in 1 .. MaxEvents /\ e <= appended /\ cursor <= e /\ stream.at < b /\ b <= appended
        /\ b \in Nat /\ b <= MaxEvents
    BY <1>3, <2>1
  <2>3. Head(stream.todo) = e /\ Tail(stream.todo) = From(e, b)
    BY <1>3, <2>2, TailOfRun
  <2>4. stream' = [pc |-> "yield", at |-> e, todo |-> From(e, b),
                   out |-> Frame(e), seen |-> stream.seen] /\ wire' = wire
    BY <1>4, <1>10, <2>3 DEF Yield, Serve
  <2>5. /\ From(e, b) \in Seq(1 .. MaxEvents) /\ e + Len(From(e, b)) = b
        /\ From(e, b) = From(e, e + Len(From(e, b))) /\ e <= b
    <3>1. e <= b
      BY <1>3, <2>2
    <3> HIDE DEF e, b
    <3> QED
      BY <2>2, <3>1, FromIsRun
  <2>6. Frame(e) \in Seq(Unit)
    BY <2>2 DEF Frame, Unit, Parts
  <2>7. Carries(buf \o wire \o Frame(e), cursor, e)
    <3> DEFINE u1 == [event |-> e, part |-> 1]
               u2 == [event |-> e, part |-> 2]
               u3 == [event |-> e, part |-> 3]
               s  == buf \o wire
    <3>1. \A u \in {u1, u2} : u \in Unit /\ u \notin FrameEnds /\ u.event > cursor
      BY <1>3, <2>2 DEF Unit, FrameEnds, Parts
    <3>2. Carries(s, cursor, stream.at)
      BY <1>5, <1>8, <2>1
    <3>3. u3 = [event |-> stream.at + 1, part |-> 3] /\ stream.at + 1 <= MaxEvents
      BY <2>2
    <3> HIDE DEF u1, u2, u3, s
    <3>4. Carries(Append(s, u1), cursor, stream.at)
      BY <1>3, <3>1, <3>2, FillerCarried
    <3>5. Carries(Append(Append(s, u1), u2), cursor, stream.at)
      BY <1>3, <3>1, <3>4, FillerCarried
    <3>6. Carries(Append(Append(Append(s, u1), u2), u3), cursor, stream.at + 1)
      BY <1>3, <3>3, <3>5, EndCarried, Zenon
    <3> QED
      BY <1>2, <2>2, <3>6, FrameAppends, Zenon DEF u1, u2, u3, s
  <2> HIDE DEF e, b
  <2>8. PICK t \in Seq(1 .. MaxEvents) : t = From(e, b) /\ t = From(e, e + Len(t)) /\ e + Len(t) = b
    BY <2>5, Zenon
  <2>9. PICK o \in Seq(Unit) : o = Frame(e)
    BY <2>6, Zenon
  <2>10. PICK s : s = buf \o wire' \o o /\ Carries(s, cursor, e)
    BY <2>4, <2>7, <2>9, Zenon
  <2>11. e \in Nat /\ cursor <= e /\ e + Len(t) <= appended
    BY <1>3, <2>2, <2>8
  <2> QED
    BY <1>1, <1>2, <2>4, <2>8, <2>9, <2>10, <2>11, ServedKeepsIInv
<1>11. CASE Write
  <2>1. stream' = [pc |-> stream.pc, at |-> stream.at, todo |-> stream.todo,
                   out |-> Tail(stream.out), seen |-> stream.seen]
        /\ wire' = Append(wire, Head(stream.out)) /\ stream.out # <<>>
    BY <1>4, <1>11 DEF Write
  <2>2. Tail(stream.out) \in Seq(Unit) /\ wire' \in Seq(Unit)
    BY <1>2, <2>1
  <2>3. buf \o wire' \o Tail(stream.out) = buf \o wire \o stream.out
    BY <1>2, <2>1, WritePreserves, Zenon
  <2>4. Carries(buf \o wire' \o Tail(stream.out), cursor, stream.at)
    BY <1>5, <2>3
  <2> QED
    BY <1>1, <1>2, <1>3, <2>1, <2>2, <2>4, ServedKeepsIInv
<1>12. CASE ReadStatus
  <2>1. stream' = [pc |-> "check", at |-> stream.at, todo |-> stream.todo,
                   out |-> stream.out, seen |-> marked] /\ wire' = wire /\ stream.out = <<>>
    BY <1>4, <1>12 DEF ReadStatus, Serve
  <2> QED
    BY <1>1, <1>2, <1>3, <1>5, <2>1, ServedKeepsIInv
<1>13. CASE ReadCursor
  <2>1. CASE stream.seen /\ Delivered
    <3>1. stream' = [pc |-> "closing", at |-> stream.at, todo |-> stream.todo,
                     out |-> <<Comment>>, seen |-> stream.seen] /\ wire' = wire
      BY <1>4, <1>13, <2>1 DEF ReadCursor, Serve
    <3>2. stream.out = <<>>
      BY <1>3, <1>13 DEF ReadCursor
    <3> QED
      BY <1>1, <1>2, <1>3, <1>8, <3>1, <3>2, ServedKeepsIInv
  <2>2. CASE ~(stream.seen /\ Delivered)
    <3>1. stream' = [pc |-> "wait", at |-> stream.at, todo |-> stream.todo,
                     out |-> stream.out, seen |-> stream.seen] /\ wire' = wire
      BY <1>4, <1>13, <2>2 DEF ReadCursor, Serve
    <3>2. stream.out = <<>>
      BY <1>3, <1>13 DEF ReadCursor
    <3> QED
      BY <1>1, <1>2, <1>3, <1>5, <3>1, <3>2, ServedKeepsIInv
  <2> QED
    BY <2>1, <2>2
<1>14. CASE Wake
  <2>1. PICK t \in Seq(1 .. MaxEvents) : /\ t = From(stream.at, appended)
                                        /\ t = From(stream.at, stream.at + Len(t))
                                        /\ stream.at + Len(t) <= appended
    BY <1>3, <1>6, Zenon
  <2>2. stream' = [pc |-> "yield", at |-> stream.at, todo |-> t,
                   out |-> stream.out, seen |-> stream.seen] /\ wire' = wire
    BY <1>4, <1>14, <2>1 DEF Wake, Serve
  <2> QED
    BY <1>1, <1>2, <1>3, <1>5, <2>1, <2>2, ServedKeepsIInv
<1>15. CASE Beat
  <2>1. stream' = [pc |-> "yield", at |-> stream.at, todo |-> stream.todo,
                   out |-> <<Comment>>, seen |-> stream.seen] /\ wire' = wire
    BY <1>4, <1>15 DEF Beat, Serve
  <2>2. stream.out = <<>>
    BY <1>3, <1>15 DEF Beat
  <2> QED
    BY <1>1, <1>2, <1>3, <1>8, <2>1, <2>2, ServedKeepsIInv
<1>16. CASE Close
  <2>1. stream' = [pc |-> "closed", at |-> stream.at, todo |-> stream.todo,
                   out |-> stream.out, seen |-> stream.seen] /\ wire' = wire
    BY <1>4, <1>16 DEF Close, Serve
  <2> QED
    BY <1>1, <1>2, <1>3, <1>5, <2>1, ServedKeepsIInv
<1> QED
  BY <1>9, <1>10, <1>11, <1>12, <1>13, <1>14, <1>15, <1>16 DEF ServerStep

\* What is read is the beginning of what is sent.
LEMMA SentBegins ==
    \A b, w, o \in Seq(Unit) :
        /\ Len(b) \in 0 .. Len(b \o w \o o)
        /\ b = SubSeq(b \o w \o o, 1, Len(b))
        /\ \A i \in DOMAIN b : i \in DOMAIN (b \o w \o o) /\ (b \o w \o o)[i] = b[i]
<1> SUFFICES ASSUME NEW b \in Seq(Unit), NEW w \in Seq(Unit), NEW o \in Seq(Unit), 
                    NEW s, s = b \o w \o o
             PROVE  /\ Len(b) \in 0 .. Len(s) /\ b = SubSeq(s, 1, Len(b))
                    /\ \A i \in DOMAIN b : i \in DOMAIN s /\ s[i] = b[i]
  BY Zenon
<1>1. PICK x \in Seq(Unit) : x = w \o o
  <2>1. w \o o \in Seq(Unit)
    OBVIOUS
  <2> QED
    BY <2>1
<1>2. s = b \o x
  BY <1>1, SMTT(20)
<1>3. s \in Seq(Unit) /\ Len(b) \in 0 .. Len(s)
  BY <1>2
<1>4. \A i \in DOMAIN b : i \in DOMAIN s /\ s[i] = b[i]
  BY <1>2
<1>5. b = SubSeq(s, 1, Len(b))
  BY <1>3, <1>4
<1> QED
  BY <1>3, <1>4, <1>5

\* A poll starts at the cursor with nothing sent, reads without changing what
\* is sent, and hands on a part of the run when it stops.
LEMMA ClientKeepsIInv ==
    ASSUME IInv, ClientStep \/ StopEarly \/ StopFull PROVE IInv'
<1> USE BoundsAssumption
<1>1. UNCHANGED <<log, beats, failures>> /\ cuts' \in 0 .. MaxCuts
  <2>1. UNCHANGED <<log, beats, failures>>
    BY DEF ClientStep, Poll, Fill, StopAtEnd, StopIdle, StopEarly, StopFull, Stop
  <2>2. cuts' = cuts \/ (cuts < MaxCuts /\ cuts' = cuts + 1)
    BY Zenon DEF ClientStep, Poll, Fill, StopAtEnd, StopIdle, StopEarly, StopFull
  <2> QED
    BY <2>1, <2>2 DEF IInv, TypeOK
<1>2. EndFits'
  BY <1>1 DEF IInv, EndFits, ended, log
<1>3. CASE Poll
  <2>1. /\ stream' = [pc |-> "replay", at |-> cursor, todo |-> <<>>, out |-> <<>>, seen |-> FALSE]
        /\ pump' = "reading" /\ wire' = <<>> /\ buf' = <<>>
        /\ UNCHANGED <<batch, through, cursor, persisted>>
        /\ pump = "idle"
    BY <1>3 DEF Poll, NoStream, CursorSent
  <2>2. cursor \in Nat /\ cursor <= appended
    BY DEF IInv, TypeOK
  <2>3. TypeOK'
    BY <1>1, <2>1, <2>2 DEF IInv, TypeOK, log
  <2>4. StreamIsRecord' /\ StreamFits'
    BY <1>1, <2>1, <2>2 DEF StreamIsRecord, StreamFits, From, log
  <2>5. CarryFits'
    <3>1. <<>> \o <<>> \o <<>> = <<>>
      OBVIOUS
    <3> QED
      BY <2>1, <2>2, <3>1, NothingCarried DEF CarryFits, Sent
  <2>6. LogFits'
    BY <1>1, <2>1 DEF IInv, LogFits, log
  <2> QED
    BY <1>2, <2>3, <2>4, <2>5, <2>6 DEF IInv
<1>4. CASE Fill
  <2>1. PICK n \in 1 .. Len(wire) : /\ buf' = buf \o SubSeq(wire, 1, n)
                                    /\ wire' = SubSeq(wire, n + 1, Len(wire))
    BY <1>4 DEF Fill
  <2>2. UNCHANGED <<log, stream, core, cuts, beats, failures>> /\ pump = "reading"
    BY <1>4 DEF Fill
  <2>3. stream.out \in Seq(Unit) /\ wire \in Seq(Unit) /\ buf \in Seq(Unit)
    BY DEF IInv, TypeOK, Unit
  <2>4. Sent' = Sent
    <3>1. (buf \o SubSeq(wire, 1, n)) \o SubSeq(wire, n + 1, Len(wire)) \o stream.out
          = buf \o wire \o stream.out
      BY <2>3, FillPreserves, Zenon
    <3> QED
      BY <2>1, <2>2, <3>1, Zenon DEF Sent
  <2>5. wire' \in Seq(Unit) /\ buf' \in Seq(Unit)
    BY <2>1, <2>3
  <2>6. TypeOK'
    BY <2>2, <2>5 DEF IInv, TypeOK, Unit, log, core
  <2>7. StreamIsRecord' /\ StreamFits' /\ CarryFits' /\ LogFits'
    BY <2>2, <2>4 DEF IInv, StreamIsRecord, StreamFits, CarryFits, LogFits, log, core
  <2> QED
    BY <1>2, <2>6, <2>7 DEF IInv
<1>5. CASE pump = "reading" /\ Stop
  <2>1. stream.out \in Seq(Unit) /\ wire \in Seq(Unit) /\ buf \in Seq(Unit)
    BY DEF IInv, TypeOK, Unit
  <2>2. cursor \in Nat /\ stream.at \in Nat /\ cursor <= stream.at /\ stream.at <= appended
        /\ appended \in Nat /\ appended <= MaxEvents /\ cursor <= MaxEvents
        /\ Len(persisted) = cursor
    BY <1>5 DEF IInv, TypeOK, StreamFits, LogFits
  <2>3. Len(buf) \in 0 .. Len(Sent) /\ buf = SubSeq(Sent, 1, Len(buf))
    BY <2>1, SentBegins, Zenon DEF Sent
  <2>4. PICK k \in 0 .. (stream.at - cursor) : Fresh(Decoded(buf)) = Entries(cursor, k)
    <3>1. Carries(Sent, cursor, stream.at) /\ stream.at <= MaxEvents
      BY <1>5, <2>2 DEF IInv, CarryFits
    <3> QED
      BY <2>2, <2>3, <3>1, StoppedPoll
  <2>5. /\ pump' = "persisting" /\ batch' = Entries(cursor, k) /\ through' = 0
        /\ stream' = NoStream /\ wire' = <<>> /\ buf' = <<>>
        /\ UNCHANGED <<cursor, persisted>>
    BY <1>5, <2>4 DEF Stop
  <2>6. batch' \in Seq([seq : 1 .. MaxEvents, whole : BOOLEAN]) /\ Len(batch') = k
    <3>1. \A i \in 1 .. k : [seq |-> cursor + i, whole |-> TRUE]
                               \in [seq : 1 .. MaxEvents, whole : BOOLEAN]
      BY <2>2
    <3> QED
      BY <2>5, <3>1 DEF Entries
  <2>7. TypeOK'
    BY <1>1, <2>2, <2>5, <2>6 DEF IInv, TypeOK, NoStream, log
  <2>8. StreamIsRecord' /\ StreamFits' /\ CarryFits'
    BY <2>5 DEF StreamIsRecord, StreamFits, CarryFits, NoStream
  <2>9. LogFits'
    BY <1>1, <2>2, <2>5, <2>6 DEF IInv, LogFits, log
  <2> QED
    BY <1>2, <2>7, <2>8, <2>9 DEF IInv
<1> QED
  BY <1>3, <1>4, <1>5 DEF ClientStep, StopAtEnd, StopIdle, StopEarly, StopFull

\* One event more at the end of the core's log ...
LEMMA EntriesGrow ==
    \A n \in Nat : Append(Entries(0, n), [seq |-> n + 1, whole |-> TRUE]) = Entries(0, n + 1)
<1> SUFFICES ASSUME NEW n \in Nat
             PROVE  Append(Entries(0, n), [seq |-> n + 1, whole |-> TRUE]) = Entries(0, n + 1)
  OBVIOUS
<1> DEFINE x == [seq |-> n + 1, whole |-> TRUE]
<1>1. \A i \in 1 .. n : Entries(0, n)[i] = [seq |-> i, whole |-> TRUE]
  BY DEF Entries
<1>2. \A i \in 1 .. (n + 1) : Entries(0, n + 1)[i] = [seq |-> i, whole |-> TRUE]
  BY DEF Entries
<1>3. Entries(0, n) \in Seq([seq : Nat, whole : BOOLEAN]) /\ Len(Entries(0, n)) = n
  <2>1. \A i \in 1 .. n : [seq |-> 0 + i, whole |-> TRUE] \in [seq : Nat, whole : BOOLEAN]
    OBVIOUS
  <2> QED
    BY <2>1 DEF Entries
<1>4. Entries(0, n + 1) = [i \in 1 .. (n + 1) |-> [seq |-> i, whole |-> TRUE]]
  <2>1. \A i \in 1 .. (n + 1) : 0 + i = i
    OBVIOUS
  <2> QED
    BY <2>1 DEF Entries
<1>5. Append(Entries(0, n), x) = [i \in 1 .. (n + 1) |-> IF i \in 1 .. n THEN Entries(0, n)[i] ELSE x]
  BY <1>3
<1>6. \A i \in 1 .. (n + 1) : (IF i \in 1 .. n THEN Entries(0, n)[i] ELSE x) = [seq |-> i, whole |-> TRUE]
  <2> SUFFICES ASSUME NEW i \in 1 .. (n + 1)
               PROVE  (IF i \in 1 .. n THEN Entries(0, n)[i] ELSE x) = [seq |-> i, whole |-> TRUE]
    OBVIOUS
  <2>1. CASE i \in 1 .. n
    BY <1>1, <2>1
  <2>2. CASE i = n + 1
    BY <2>2
  <2> QED
    BY <2>1, <2>2
<1> QED
  BY <1>4, <1>5, <1>6, Zenon

\* ... is one less at the front of the batch.
LEMMA EntriesShrink ==
    \A a \in Nat : \A n \in Nat \ {0} : Tail(Entries(a, n)) = Entries(a + 1, n - 1)
<1> SUFFICES ASSUME NEW a \in Nat, NEW n \in Nat \ {0}
             PROVE  Tail(Entries(a, n)) = Entries(a + 1, n - 1)
  OBVIOUS
<1> DEFINE U == [seq : Nat, whole : BOOLEAN]
<1>1. PICK s : s = Entries(a, n) /\ s \in Seq(U) /\ Len(s) = n /\ s # <<>>
  <2>1. \A i \in 1 .. n : [seq |-> a + i, whole |-> TRUE] \in U
    OBVIOUS
  <2>2. Entries(a, n) \in Seq(U) /\ Len(Entries(a, n)) = n
    BY <2>1 DEF Entries
  <2> QED
    BY <2>2
<1>2. PICK t : t = Entries(a + 1, n - 1) /\ t \in Seq(U) /\ Len(t) = n - 1
  <2>1. \A i \in 1 .. (n - 1) : [seq |-> (a + 1) + i, whole |-> TRUE] \in U
    OBVIOUS
  <2>2. Entries(a + 1, n - 1) \in Seq(U) /\ Len(Entries(a + 1, n - 1)) = n - 1
    BY <2>1 DEF Entries
  <2> QED
    BY <2>2
<1>3. \A i \in 1 .. (n - 1) : t[i] = s[i + 1]
  <2>1. \A i \in 1 .. (n - 1) : /\ t[i] = [seq |-> (a + 1) + i, whole |-> TRUE]
                                /\ s[i + 1] = [seq |-> a + (i + 1), whole |-> TRUE]
    BY <1>1, <1>2 DEF Entries
  <2>2. \A i \in 1 .. (n - 1) : (a + 1) + i = a + (i + 1)
    OBVIOUS
  <2> QED
    BY <2>1, <2>2
<1>4. Tail(s) = t
  <2> HIDE DEF U
  <2> QED
    BY <1>1, <1>2, <1>3, HeadTailProperties, SeqEqual
<1> QED
  BY <1>1, <1>2, <1>4

\* The pump persists the next event or stops, and acknowledges what it has
\* persisted.
LEMMA PumpKeepsIInv == ASSUME IInv, PumpStep \/ PersistFails PROVE IInv'
<1> USE BoundsAssumption
<1>1. pump = "persisting" /\ UNCHANGED <<log, stream, wire, buf, cuts, beats>>
  BY DEF PumpStep, Persist, Acknowledge, PersistFails
<1>2. EndFits' /\ StreamIsRecord'
  BY <1>1 DEF IInv, EndFits, ended, StreamIsRecord, log
<1>3. StreamFits' /\ CarryFits'
  BY <1>1 DEF IInv, StreamFits, CarryFits, PumpStep, Persist, Acknowledge, PersistFails
<1>4. /\ Len(persisted) \in Nat /\ Len(batch) \in Nat /\ appended \in Nat /\ appended <= MaxEvents
      /\ persisted = Entries(0, Len(persisted)) /\ batch = Entries(Len(persisted), Len(batch))
      /\ Len(persisted) + Len(batch) <= appended
      /\ through = 0 => Len(persisted) = cursor
      /\ through # 0 => through = Len(persisted) /\ through > cursor
      /\ cursor \in Nat /\ cursor <= appended /\ through \in Nat
  BY <1>1 DEF IInv, TypeOK, LogFits
<1>5. CASE Persist
  <2>1. Len(batch) # 0 /\ Head(batch) = [seq |-> Len(persisted) + 1, whole |-> TRUE]
    <3>1. Len(batch) # 0 /\ 1 \in 1 .. Len(batch)
      BY <1>4, <1>5 DEF Persist, IInv, TypeOK
    <3>2. batch[1] = [seq |-> Len(persisted) + 1, whole |-> TRUE]
      BY <1>4, <3>1 DEF Entries
    <3> QED
      BY <3>1, <3>2
  <2>2. /\ persisted' = Append(persisted, [seq |-> Len(persisted) + 1, whole |-> TRUE])
        /\ through' = Len(persisted) + 1 /\ batch' = Tail(batch)
        /\ UNCHANGED <<pump, cursor, failures>>
    <3>1. [seq |-> Len(persisted) + 1, whole |-> TRUE].seq = Len(persisted) + 1
      OBVIOUS
    <3> QED
      BY <1>5, <2>1, <3>1, Zenon DEF Persist
  <2>3. Len(persisted') = Len(persisted) + 1 /\ Len(batch') = Len(batch) - 1
    BY <1>4, <2>1, <2>2 DEF IInv, TypeOK
  <2>4. persisted' = Entries(0, Len(persisted'))
    BY <1>4, <2>2, <2>3, EntriesGrow
  <2>5. batch' = Entries(Len(persisted'), Len(batch'))
    <3>1. Tail(Entries(Len(persisted), Len(batch))) = Entries(Len(persisted) + 1, Len(batch) - 1)
      BY <1>4, <2>1, EntriesShrink
    <3>2. Len(persisted') = Len(persisted) + 1
      BY <1>4, <2>3
    <3> QED
      BY <1>4, <2>2, <2>3, <3>1, <3>2, Zenon
  <2>6. LogFits'
    BY <1>1, <1>4, <2>1, <2>2, <2>3, <2>4, <2>5 DEF LogFits, log
  <2>7. TypeOK'
    <3>1. [seq |-> Len(persisted) + 1, whole |-> TRUE] \in [seq : 1 .. MaxEvents, whole : BOOLEAN]
      BY <1>4, <2>1
    <3>2. persisted' \in Seq([seq : 1 .. MaxEvents, whole : BOOLEAN])
          /\ batch' \in Seq([seq : 1 .. MaxEvents, whole : BOOLEAN])
      BY <2>1, <2>2, <3>1 DEF IInv, TypeOK
    <3>3. through' \in 0 .. MaxEvents
      BY <1>4, <2>1, <2>2
    <3> QED
      BY <1>1, <2>2, <3>2, <3>3 DEF IInv, TypeOK, log
  <2> QED
    BY <1>2, <1>3, <2>6, <2>7 DEF IInv
<1>6. CASE Acknowledge
  <2>1. batch = <<>> /\ cursor' = Len(persisted) /\ pump' = "idle"
        /\ UNCHANGED <<batch, through, persisted, failures>>
    BY <1>4, <1>6 DEF Acknowledge
  <2>2. TypeOK'
    BY <1>1, <1>4, <2>1 DEF IInv, TypeOK, log
  <2>3. LogFits'
    BY <1>4, <2>1 DEF LogFits
  <2> QED
    BY <1>2, <1>3, <2>2, <2>3 DEF IInv
<1>7. CASE PersistFails
  <2>1. batch' = <<>> /\ UNCHANGED <<pump, through, cursor, persisted>>
        /\ failures' \in 0 .. MaxFailures
    BY <1>7 DEF PersistFails, IInv, TypeOK
  <2>2. TypeOK'
    BY <1>1, <2>1 DEF IInv, TypeOK, log
  <2>3. <<>> = Entries(Len(persisted), 0) /\ Len(<<>>) = 0
    BY DEF Entries
  <2>4. LogFits'
    BY <1>1, <1>4, <2>1, <2>3 DEF LogFits, log
  <2> QED
    BY <1>2, <1>3, <2>2, <2>4 DEF IInv
<1> QED
  BY <1>5, <1>6, <1>7 DEF PumpStep

\* The invariant says what the core's log must be.
LEMMA IInvSuffices == ASSUME IInv PROVE StreamInv
<1>1. PersistedIsPrefix /\ NothingTornPersists
  <2>1. Len(persisted) \in Nat /\ DOMAIN persisted = 1 .. Len(persisted)
    BY DEF IInv, TypeOK
  <2>2. \A i \in DOMAIN persisted : persisted[i] = [seq |-> i, whole |-> TRUE]
    BY <2>1 DEF IInv, LogFits, Entries
  <2>3. cursor <= Len(persisted) /\ Len(persisted) <= appended
    <3>1. /\ cursor \in Nat /\ cursor <= appended /\ appended \in Nat /\ Len(batch) \in Nat
          /\ through \in Nat
      BY BoundsAssumption DEF IInv, TypeOK
    <3>2. CASE pump = "persisting"
      <4>1. /\ Len(persisted) + Len(batch) <= appended
            /\ through = 0 => Len(persisted) = cursor
            /\ through # 0 => through = Len(persisted) /\ through > cursor
        BY <3>2 DEF IInv, LogFits
      <4>2. Len(persisted) >= cursor
        <5>1. CASE through = 0
          BY <3>1, <4>1, <5>1
        <5>2. CASE through # 0
          BY <3>1, <4>1, <5>2
        <5> QED
          BY <5>1, <5>2
      <4>3. Len(persisted) <= appended
        <5>1. \A p, b, a \in Nat : p + b <= a => p <= a
          OBVIOUS
        <5> QED
          BY <2>1, <3>1, <4>1, <5>1
      <4> QED
        BY <2>1, <3>1, <4>2, <4>3
    <3>3. CASE pump # "persisting"
      BY <3>1, <3>3 DEF IInv, LogFits
    <3> QED
      BY <3>2, <3>3
  <2> QED
    BY <2>2, <2>3 DEF PersistedIsPrefix, NothingTornPersists
<1>2. PollReadsNewOnly
  <2>1. CASE pump # "reading"
    BY <2>1 DEF IInv, StreamFits, PollReadsNewOnly
  <2>2. CASE pump = "reading"
    <3>1. stream.out \in Seq(Unit) /\ wire \in Seq(Unit) /\ buf \in Seq(Unit)
      BY DEF IInv, TypeOK, Unit
    <3>2. \A i \in DOMAIN buf : i \in DOMAIN Sent /\ Sent[i] = buf[i]
      BY <3>1, SentBegins, Zenon DEF Sent
    <3> QED
      BY <2>2, <3>2 DEF IInv, CarryFits, Carries, PollReadsNewOnly
  <2> QED
    BY <2>1, <2>2
<1> QED
  BY <1>1, <1>2 DEF IInv, StreamInv

\* Nothing has happened yet.
LEMMA InitHoldsIInv == ASSUME Init PROVE IInv
<1> USE BoundsAssumption
<1>1. TypeOK
  <2>1. stream.out = <<>> /\ wire = <<>> /\ buf = <<>> /\ stream.todo = <<>>
        /\ stream.at = 0 /\ stream.seen = FALSE /\ stream.pc = "none"
    BY DEF Init, NoStream
  <2> QED
    <3>1. \A s \in {stream.out, wire, buf} : s \in Seq([event : 0 .. MaxEvents, part : Parts])
      <4>1. <<>> \in Seq([event : 0 .. MaxEvents, part : Parts])
        OBVIOUS
      <4> QED
        BY <2>1, <4>1, Zenon
    <3>2. stream.todo \in Seq(1 .. MaxEvents)
          /\ batch \in Seq([seq : 1 .. MaxEvents, whole : BOOLEAN])
          /\ persisted \in Seq([seq : 1 .. MaxEvents, whole : BOOLEAN])
      BY <2>1 DEF Init
    <3>3. /\ appended \in 0 .. MaxEvents /\ endAt \in 0 .. appended /\ marked \in BOOLEAN
          /\ through \in 0 .. MaxEvents /\ cursor \in 0 .. MaxEvents /\ cursor <= appended
          /\ cuts \in 0 .. MaxCuts /\ beats \in 0 .. MaxBeats /\ failures \in 0 .. MaxFailures
          /\ 0 \in 0 .. appended /\ pump \in {"idle", "reading", "persisting", "retired"}
      <4>1. /\ appended = 0 /\ through = 0 /\ cursor = 0 /\ cuts = 0 /\ beats = 0 /\ failures = 0
            /\ endAt = 0 /\ marked = FALSE /\ pump = "idle"
        BY Zenon DEF Init
      <4>2. 0 \in 0 .. MaxEvents /\ 0 \in 0 .. MaxCuts /\ 0 \in 0 .. MaxBeats
            /\ 0 \in 0 .. MaxFailures /\ 0 \in 0 .. 0 /\ 0 <= 0
        OBVIOUS
      <4> QED
        BY <4>1, <4>2, Zenon
    <3>4. stream.at \in 0 .. appended /\ stream.seen \in BOOLEAN
          /\ stream.pc \in {"none", "replay", "yield", "check", "wait", "closing", "closed"}
      BY <2>1, <3>3, Zenon
    <3> QED
      BY <3>1, <3>2, <3>3, <3>4, Zenon DEF TypeOK
<1>2. <<>> = Entries(0, 0) /\ Len(<<>>) = 0
  BY DEF Entries
<1> QED
  BY <1>1, <1>2 DEF Init, IInv, EndFits, ended, StreamIsRecord, StreamFits, CarryFits, LogFits,
     NoStream

\* The inductive invariant of the stream.
LEMMA IInvHolds == Spec => []IInv
<1>1. IInv /\ [Next]_vars => IInv'
  <2> SUFFICES ASSUME IInv, [Next]_vars PROVE IInv'
    OBVIOUS
  <2>1. CASE UNCHANGED vars
    BY <2>1 DEF IInv, TypeOK, EndFits, ended, StreamIsRecord, StreamFits, CarryFits, LogFits,
                Sent, vars, log, core
  <2> QED
    BY <2>1, JobKeepsIInv, ServerKeepsIInv, ClientKeepsIInv, PumpKeepsIInv, RetireKeepsIInv
       DEF Next, Done
<1> QED
  BY <1>1, InitHoldsIInv, PTL DEF Spec

\* The core's event log is a prefix of the worker's, event by event and whole,
\* and no poll reads what is acknowledged, for every number of events, cuts,
\* heartbeats and failures (poll_events, decode_sse and pump_cycle).
THEOREM StreamInvHolds == Spec => []StreamInv
BY IInvHolds, IInvSuffices, PTL

-----------------------------------------------------------------------------
(* The end of a stream.                                                    *)

\* What is between the job's end and the sentinel: the status is published
\* after the terminal event is in the log (EndFits), and the stream saw the
\* status published before it compared the cursors.
EndIsOrdered == (stream.seen => ended) /\ CleanEndIsComplete

\* The threads of the job append, and the status is published.
LEMMA JobKeepsOrder == ASSUME IInv, EndIsOrdered, JobStep PROVE EndIsOrdered'
<1> USE DEF IInv, TypeOK, EndIsOrdered, CleanEndIsComplete, ended
<1>1. CASE AppendEvent
  BY <1>1 DEF AppendEvent
<1>2. CASE AppendTerminal
  BY <1>2 DEF AppendTerminal
<1>3. CASE MarkTerminal
  BY <1>3 DEF MarkTerminal
<1> QED
  BY <1>1, <1>2, <1>3 DEF JobStep

\* The server thread closes a stream only when it saw the status first and then
\* found the log delivered: whatever came behind the terminal event since, that
\* event was in the log before.
LEMMA ServerKeepsOrder == ASSUME IInv, EndIsOrdered, ServerStep \/ Beat PROVE EndIsOrdered'
<1> USE DEF IInv, EndIsOrdered, StreamIsRecord, CleanEndIsComplete, ended, Serve, log, core
<1>1. CASE Replay
  BY <1>1 DEF Replay
<1>2. CASE Yield
  BY <1>2 DEF Yield
<1>3. CASE Write
  BY <1>3 DEF Write
<1>4. CASE ReadStatus
  BY <1>4 DEF ReadStatus, EndFits
<1>5. CASE ReadCursor
  <2>1. CASE stream.seen /\ Delivered
    <3>1. endAt <= stream.at
      <4>1. endAt \in Nat /\ appended \in Nat /\ stream.at \in Nat
            /\ endAt <= appended /\ appended <= stream.at
        BY <2>1, BoundsAssumption DEF TypeOK, Delivered
      <4> QED
        BY <4>1
    <3> QED
      BY <1>5, <2>1, <3>1 DEF ReadCursor
  <2>2. CASE ~(stream.seen /\ Delivered)
    BY <1>5, <2>2 DEF ReadCursor
  <2> QED
    BY <2>1, <2>2
<1>6. CASE Wake
  BY <1>6 DEF Wake
<1>7. CASE Beat
  BY <1>7 DEF Beat
<1>8. CASE Close
  BY <1>8 DEF Close
<1> QED
  BY <1>1, <1>2, <1>3, <1>4, <1>5, <1>6, <1>7, <1>8 DEF ServerStep

\* A poll begins with a stream that has seen nothing, and every stop drops it.
LEMMA ClientKeepsOrder ==
    ASSUME EndIsOrdered, ClientStep \/ StopEarly \/ StopFull PROVE EndIsOrdered'
<1> USE DEF EndIsOrdered, CleanEndIsComplete, ended, log, core, NoStream
<1>1. CASE Poll
  BY <1>1 DEF Poll
<1>2. CASE Fill
  BY <1>2 DEF Fill
<1>3. ASSUME Stop PROVE EndIsOrdered'
  BY <1>3 DEF Stop
<1> QED
  BY <1>1, <1>2, <1>3 DEF ClientStep, StopAtEnd, StopIdle, StopEarly, StopFull

\* Persisting, acknowledging and retiring touch neither the worker's log nor a
\* stream.
LEMMA PumpKeepsOrder ==
    ASSUME EndIsOrdered, PumpStep \/ PersistFails \/ Retire PROVE EndIsOrdered'
<1>1. UNCHANGED <<log, stream>>
  BY DEF PumpStep, Persist, Acknowledge, PersistFails, Retire, log
<1> QED
  BY <1>1 DEF EndIsOrdered, CleanEndIsComplete, ended, log

\* A stream that ends by itself has carried the job's terminal event, for every
\* bound and whatever is appended behind that event (_sse_chunks and
\* _mark_terminal in jobs.py): a core that has read a stream to its end knows how
\* the job ended, and never takes a pause of the job for its end.
THEOREM CleanEndSound == Spec => []CleanEndIsComplete
<1>1. Init => EndIsOrdered
  BY DEF Init, EndIsOrdered, CleanEndIsComplete, NoStream
<1>2. IInv /\ EndIsOrdered /\ [Next]_vars => EndIsOrdered'
  <2> SUFFICES ASSUME IInv, EndIsOrdered, [Next]_vars PROVE EndIsOrdered'
    OBVIOUS
  <2>1. CASE JobStep
    BY <2>1, JobKeepsOrder
  <2>2. CASE ServerStep \/ Beat
    BY <2>2, ServerKeepsOrder
  <2>3. CASE ClientStep \/ StopEarly \/ StopFull
    BY <2>3, ClientKeepsOrder
  <2>4. CASE PumpStep \/ PersistFails \/ Retire
    BY <2>4, PumpKeepsOrder
  <2>5. CASE UNCHANGED vars
    BY <2>5 DEF vars, log, core, EndIsOrdered, CleanEndIsComplete, ended
  <2> QED
    BY <2>1, <2>2, <2>3, <2>4, <2>5 DEF Next, Done
<1>3. EndIsOrdered => CleanEndIsComplete
  BY DEF EndIsOrdered
<1> QED
  BY <1>1, <1>2, <1>3, IInvHolds, PTL DEF Spec

-----------------------------------------------------------------------------
(* The stream implements the two logs of EventLog.                         *)

\* The sequence numbers of the core's log.
Numbers(s) == [i \in DOMAIN s |-> s[i].seq]

Log == INSTANCE EventLog WITH persisted <- Numbers(persisted), acknowledged <- cursor

\* Of the first n events whole, they are 1 .. n, in order.
LEMMA NumbersOfEntries ==
    ASSUME NEW n \in Nat PROVE Numbers(Entries(0, n)) = [i \in 1 .. n |-> i]
<1>1. DOMAIN Entries(0, n) = 1 .. n /\ \A i \in 1 .. n : Entries(0, n)[i].seq = i
  BY DEF Entries
<1> QED
  BY <1>1 DEF Numbers

\* The numbers of one event more.
LEMMA OneNumberMore ==
    ASSUME NEW n \in Nat PROVE Append([i \in 1 .. n |-> i], n + 1) = [i \in 1 .. n + 1 |-> i]
<1> DEFINE s == [i \in 1 .. n |-> i]
<1>1. s \in Seq(Nat) /\ Len(s) = n
  OBVIOUS
<1>2. Append(s, n + 1) = [i \in 1 .. n + 1 |-> IF i \in 1 .. n THEN s[i] ELSE n + 1]
  BY <1>1
<1>3. \A i \in 1 .. n + 1 : (IF i \in 1 .. n THEN s[i] ELSE n + 1) = i
  OBVIOUS
<1> QED
  BY <1>2, <1>3, Zenon

\* However polls are cut and persisting fails, the core takes over the worker's
\* events one by one, behind the last, and acknowledges what it has: what
\* RunDelivery builds on, of the wire (poll_events, decode_sse, pump_cycle).
THEOREM StreamImplementsLog == Spec => Log!Spec
<1>1. Init => Log!Init
  <2> SUFFICES ASSUME Init PROVE Numbers(<<>>) = <<>>
    BY DEF Init, Log!Init
  <2> QED
    BY DEF Numbers
<1>2. ASSUME IInv, IInv', [Next]_vars PROVE [Log!Next]_(Log!vars)
  <2> USE DEF Log!vars
  <2>1. /\ Len(persisted) \in Nat /\ persisted = Entries(0, Len(persisted))
        /\ Len(persisted') \in Nat /\ persisted' = Entries(0, Len(persisted'))
        /\ cursor \in Nat /\ through \in Nat /\ appended \in Nat
    <3>1. LogFits /\ LogFits' /\ TypeOK /\ TypeOK'
      BY <1>2 DEF IInv
    <3>2. Len(persisted) \in Nat /\ Len(persisted') \in Nat
      <4> DEFINE Rows == [seq : 1 .. MaxEvents, whole : BOOLEAN]
      <4>1. persisted \in Seq(Rows) /\ persisted' \in Seq(Rows)
        BY <3>1 DEF TypeOK
      <4> HIDE DEF Rows
      <4> QED
        BY <4>1
    <3>3. cursor \in Nat /\ through \in Nat /\ appended \in Nat
      BY <3>1, BoundsAssumption DEF TypeOK
    <3> QED
      BY <3>1, <3>2, <3>3 DEF LogFits
  <2>2. /\ Numbers(persisted) = [i \in 1 .. Len(persisted) |-> i]
        /\ Numbers(persisted') = [i \in 1 .. Len(persisted') |-> i]
    BY <2>1, NumbersOfEntries
  <2>3. Len(Numbers(persisted)) = Len(persisted)
    BY <2>1, <2>2
  <2>4. CASE Persist
    <3>1. persisted' = Append(persisted, Head(batch)) /\ UNCHANGED <<appended, cursor>>
      BY <2>4 DEF Persist, log
    <3>2. Len(persisted') = Len(persisted) + 1
      BY <1>2, <3>1 DEF IInv, TypeOK
    <3>3. Len(persisted) < appended
      BY <1>2, <2>1, <2>4 DEF Persist, IInv, TypeOK, LogFits
    <3>4. Numbers(persisted') = Append(Numbers(persisted), Len(persisted) + 1)
      BY <2>1, <2>2, <3>2, OneNumberMore
    <3>5. Log!Persist
      BY <2>3, <3>1, <3>3, <3>4 DEF Log!Persist
    <3> QED
      BY <3>5 DEF Log!Next
  <2>5. CASE Acknowledge
    <3>1. UNCHANGED <<appended, persisted>>
          /\ cursor' = IF through > cursor THEN through ELSE cursor
      BY <2>5 DEF Acknowledge, log
    <3>2. cursor' = cursor \/ (cursor' = Len(persisted) /\ cursor < Len(persisted))
      BY <1>2, <2>1, <2>5, <3>1 DEF Acknowledge, IInv, LogFits
    <3>3. Log!Acknowledge \/ UNCHANGED Log!vars
      BY <2>3, <3>1, <3>2 DEF Log!Acknowledge
    <3> QED
      BY <3>3 DEF Log!Next
  <2>6. CASE JobStep
    <3>1. Log!AppendEvent \/ UNCHANGED Log!vars
      BY <2>6 DEF JobStep, AppendEvent, AppendTerminal, MarkTerminal, core, Log!AppendEvent
    <3> QED
      BY <3>1 DEF Log!Next
  <2>7. CASE ServerStep \/ Beat \/ PersistFails \/ Retire \/ Done
    BY <2>7 DEF ServerStep, Replay, Yield, Write, ReadStatus, ReadCursor, Wake, Close, Beat,
                Serve, PersistFails, Retire, Done, log, core, vars
  <2>8. CASE ClientStep \/ StopEarly \/ StopFull
    BY <2>8 DEF ClientStep, Poll, Fill, StopAtEnd, StopIdle, StopEarly, StopFull, Stop, log, core
  <2>9. CASE UNCHANGED vars
    BY <2>9 DEF vars, log, core
  <2> QED
    BY <1>2, <2>4, <2>5, <2>6, <2>7, <2>8, <2>9 DEF Next, PumpStep
<1> QED
  BY <1>1, <1>2, IInvHolds, PTL DEF Spec, Log!Spec
=============================================================================
