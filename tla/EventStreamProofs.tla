------------------------- MODULE EventStreamProofs -------------------------
(***************************************************************************)
(* Proofs about how the events of a turn reach the page (EventStream.tla), *)
(* for any number of events and any way to cut their text: the stream is   *)
(* the channel of EventChannel.tla.  Induction and the lemmas about folds  *)
(* are those of ChatTimelineProofs.tla.                                    *)
(***************************************************************************)
EXTENDS ChatTimelineProofs, EventStream

-----------------------------------------------------------------------------
(* The events with a schema, and what the page makes of frames.            *)

(* Two folds of the same steps agree.                                      *)
LEMMA FoldsAgree ==
  ASSUME NEW n \in Nat, NEW m \in Nat, n <= m, NEW T, NEW base, NEW stepF, NEW stepG, NEW F, NEW G,
         FoldsOver(F, n, T, base, stepF), FoldsOver(G, m, T, base, stepG),
         \A k \in 1..n : \A t \in T : stepF[<<k, t>>] = stepG[<<k, t>>]
  PROVE  F[1..n] = G[1..n]
<1>1. F[1..0] = base /\ \A k \in 1..n : F[1..k] = stepF[<<k, F[1..(k - 1)]>>] /\ F[1..(k - 1)] \in T
  BY FoldIsRecursion
<1>2. G[1..0] = base /\ \A k \in 1..m : G[1..k] = stepG[<<k, G[1..(k - 1)]>>] /\ G[1..(k - 1)] \in T
  BY FoldIsRecursion
<1> DEFINE S == {k \in Nat : k <= n => F[1..k] = G[1..k]}
<1>3. 0 \in S
  BY <1>1, <1>2
<1>4. ASSUME NEW k \in Nat, k \in S
      PROVE  k + 1 \in S
  <2> SUFFICES ASSUME k + 1 <= n
               PROVE  F[1..(k + 1)] = G[1..(k + 1)]
    OBVIOUS
  <2>1. F[1..k] = G[1..k]
    BY <1>4
  <2>2. k + 1 \in 1..n /\ k + 1 \in 1..m /\ (k + 1) - 1 = k
    OBVIOUS
  <2>3. F[1..(k + 1)] = stepF[<<k + 1, F[1..k]>>] /\ F[1..k] \in T
    BY <1>1, <2>2
  <2>4. G[1..(k + 1)] = stepG[<<k + 1, G[1..k]>>]
    BY <1>2, <2>2
  <2> QED
    BY <2>1, <2>2, <2>3, <2>4
<1> HIDE DEF S
<1>5. n \in S
  BY <1>3, <1>4, SetInduction
<1> QED
  BY <1>5 DEF S

(* Adding an event if it has a schema, as a function.                      *)
KnownStep(e) ==
  [p \in (1..Len(e)) \X Seq(Event) |->
     IF e[p[1]][1] \in EventSchemaMap THEN Append(p[2], e[p[1]]) ELSE p[2]]

(* The events with a schema are those of the fold over all.                *)
LEMMA KnownIsFolded ==
  ASSUME NEW e \in Seq(Event)
  PROVE  \E F : /\ FoldsOver(F, Len(e), Seq(Event), <<>>, KnownStep(e))
                /\ Known(e) = F[1..Len(e)]
<1> DEFINE T == Seq(Event)
           m == Len(e)
           Added(t, x) == IF x[1] \in EventSchemaMap THEN Append(t, x) ELSE t
           Recursion(F) == F = [s \in SUBSET (1..m) |->
                                  IF s = {} THEN <<>> ELSE Added(F[s \ {Max(s)}], e[Max(s)])]
           G == CHOOSE F : Recursion(F)
<1>1. m \in Nat /\ DOMAIN e = 1..m /\ \A k \in 1..m : e[k] \in Event
  OBVIOUS
<1>2. \A t \in T : \A x \in Event : Added(t, x) \in T
  OBVIOUS
<1>3. <<>> \in T
  OBVIOUS
<1> HIDE DEF m, T
<1>4. KnownStep(e) \in [(1..m) \X T -> T]
  BY <1>1, <1>2 DEF KnownStep, m, T
<1>5. PICK F : FoldsOver(F, m, T, <<>>, KnownStep(e))
  BY <1>1, <1>3, <1>4, FoldExists
<1>6. \A s \in SUBSET (1..m) : s # {} => Max(s) \in 1..m
  <2> SUFFICES ASSUME NEW s \in SUBSET (1..m), s # {}
               PROVE  Max(s) \in 1..m
    OBVIOUS
  <2>1. Max(s) \in s
    BY <1>1, LargestIsInside
  <2> QED
    BY <2>1
<1>7. \A s \in SUBSET (1..m) : s # {} => \A t \in T :
         KnownStep(e)[<<Max(s), t>>] = Added(t, e[Max(s)])
  BY <1>1, <1>6 DEF KnownStep, T, m
<1>8. Recursion(F)
  <2>1. F \in [SUBSET (1..m) -> T] /\ F[{}] = <<>>
    BY <1>5 DEF FoldsOver
  <2>2. ASSUME NEW s \in SUBSET (1..m), s # {}
        PROVE  F[s] = Added(F[s \ {Max(s)}], e[Max(s)])
    <3>1. s \ {Max(s)} \in SUBSET (1..m)
      OBVIOUS
    <3>2. F[s] = KnownStep(e)[<<Max(s), F[s \ {Max(s)}]>>]
      BY <1>5, <2>2 DEF FoldsOver
    <3>3. F[s \ {Max(s)}] \in T
      BY <2>1, <3>1
    <3> HIDE DEF Added
    <3> QED
      BY <1>7, <2>2, <3>2, <3>3
  <2> HIDE DEF Added
  <2> QED
    BY <2>1, <2>2
<1>9. Recursion(G)
  <2> HIDE DEF Recursion
  <2> QED
    BY <1>8
<1>10. Known(e) = G[1..m]
  BY <1>1 DEF Known, FoldLeft, MapThenFoldSet
<1>11. FoldsOver(G, m, T, <<>>, KnownStep(e))
  <2> HIDE DEF Added
  <2>1. G = [s \in SUBSET (1..m) |-> G[s]] /\ G[{}] = <<>>
    BY <1>9
  <2>2. ASSUME NEW s \in SUBSET (1..m), s # {}, G[s \ {Max(s)}] \in T
        PROVE  G[s] = KnownStep(e)[<<Max(s), G[s \ {Max(s)}]>>]
    BY <1>7, <1>9, <2>2
  <2> HIDE DEF G
  <2> QED
    BY <1>1, <1>3, <1>4, <2>1, <2>2, FoldStaysInside
<1> QED
  BY <1>10, <1>11 DEF T, m

(* No event has a schema when there is none.                               *)
LEMMA KnownOfNone == Known(<<>>) = <<>>
<1>1. <<>> \in Seq(Event) /\ Len(<<>>) = 0
  OBVIOUS
<1>2. PICK F : /\ FoldsOver(F, Len(<<>>), Seq(Event), <<>>, KnownStep(<<>>))
               /\ Known(<<>>) = F[1..Len(<<>>)]
  BY <1>1, KnownIsFolded
<1>3. 1..0 = {}
  OBVIOUS
<1> QED
  BY <1>1, <1>2, <1>3 DEF FoldsOver

(* Another event is one more with a schema, or changes nothing.            *)
LEMMA KnownOfMore ==
  ASSUME NEW e \in Seq(Event), NEW x \in Event
  PROVE  /\ Known(e) \in Seq(Event)
         /\ Known(Append(e, x)) = IF x[1] \in EventSchemaMap THEN Append(Known(e), x) ELSE Known(e)
<1> DEFINE n == Len(e)
           d == Append(e, x)
<1>1. n \in Nat /\ n + 1 \in Nat /\ n <= n + 1
  OBVIOUS
<1>2. d \in Seq(Event) /\ Len(d) = n + 1 /\ d[n + 1] = x /\ \A k \in 1..n : d[k] = e[k]
  OBVIOUS
<1> HIDE DEF d
<1>3. PICK F : FoldsOver(F, n, Seq(Event), <<>>, KnownStep(e)) /\ Known(e) = F[1..n]
  BY KnownIsFolded
<1>4. PICK G : FoldsOver(G, n + 1, Seq(Event), <<>>, KnownStep(d)) /\ Known(d) = G[1..(n + 1)]
  BY <1>2, KnownIsFolded
<1>5. \A k \in 1..n : \A t \in Seq(Event) : KnownStep(e)[<<k, t>>] = KnownStep(d)[<<k, t>>]
  BY <1>1, <1>2 DEF KnownStep
<1> HIDE DEF n
<1>6. F[1..n] = G[1..n]
  <2> DEFINE T == Seq(Event)
             m == n + 1
             stepF == KnownStep(e)
             stepG == KnownStep(d)
  <2>1. /\ n \in Nat /\ m \in Nat /\ n <= m
        /\ FoldsOver(F, n, T, <<>>, stepF) /\ FoldsOver(G, m, T, <<>>, stepG)
        /\ \A k \in 1..n : \A t \in T : stepF[<<k, t>>] = stepG[<<k, t>>]
    BY <1>1, <1>3, <1>4, <1>5
  <2> HIDE DEF T, m, stepF, stepG
  <2> QED
    BY <2>1, FoldsAgree
<1>7. n + 1 \in 1..(n + 1) /\ (n + 1) - 1 = n
  BY <1>1
<1>8. G[1..(n + 1)] = KnownStep(d)[<<n + 1, G[1..n]>>] /\ G[1..n] \in Seq(Event)
  <2> DEFINE T == Seq(Event)
             m == n + 1
             step == KnownStep(d)
  <2>1. m \in Nat /\ FoldsOver(G, m, T, <<>>, step) /\ m \in 1..m /\ m - 1 = n
    BY <1>1, <1>4, <1>7
  <2> HIDE DEF T, m, step
  <2>2. \A k \in 1..m : G[1..k] = step[<<k, G[1..(k - 1)]>>] /\ G[1..(k - 1)] \in T
    BY <2>1, FoldIsRecursion
  <2>3. G[1..m] = step[<<m, G[1..(m - 1)]>>] /\ G[1..(m - 1)] \in T
    BY <2>1, <2>2
  <2> QED
    BY <2>1, <2>3 DEF T, m, step
<1>9. \A t \in Seq(Event) :
        KnownStep(d)[<<n + 1, t>>] = IF x[1] \in EventSchemaMap THEN Append(t, x) ELSE t
  BY <1>2, <1>7 DEF KnownStep
<1> QED
  BY <1>3, <1>4, <1>6, <1>8, <1>9 DEF d
(* The events up to the c-th.                                              *)
LEMMA UpTo ==
  ASSUME NEW e \in Seq(Event), NEW c \in 0..Len(e)
  PROVE  /\ SubSeq(e, 1, c) \in Seq(Event) /\ Len(SubSeq(e, 1, c)) = c
         /\ \A i \in 1..c : SubSeq(e, 1, c)[i] = e[i]
<1> DEFINE s == SubSeq(e, 1, c)
<1>1. /\ Len(e) \in Nat /\ c \in Nat /\ c <= Len(e)
      /\ \A i \in 1..c : i \in 1..Len(e) /\ e[i] \in Event
  OBVIOUS
<1>2. s = [i \in 1..c |-> e[i]]
  BY <1>1 DEF SubSeq
<1> HIDE DEF s
<1>3. s \in [1..c -> Event]
  BY <1>1, <1>2
<1> QED
  BY <1>1, <1>2, <1>3, LenProperties DEF s

(* None, all, one more, and those of a longer sequence.                    *)
LEMMA UpToSteps ==
  ASSUME NEW e \in Seq(Event)
  PROVE  /\ SubSeq(e, 1, 0) = <<>> /\ SubSeq(e, 1, Len(e)) = e
         /\ \A c \in 0..(Len(e) - 1) : SubSeq(e, 1, c + 1) = Append(SubSeq(e, 1, c), e[c + 1])
         /\ \A x \in Event : \A c \in 0..Len(e) : SubSeq(Append(e, x), 1, c) = SubSeq(e, 1, c)
<1>1. Len(e) \in Nat /\ 0 \in 0..Len(e) /\ Len(e) \in 0..Len(e) /\ <<>> \in Seq(Event)
  OBVIOUS
<1>2. SubSeq(e, 1, 0) = <<>>
  <2>1. Len(SubSeq(e, 1, 0)) = 0 /\ SubSeq(e, 1, 0) \in Seq(Event)
    BY <1>1, UpTo
  <2> QED
    BY <2>1
<1>3. SubSeq(e, 1, Len(e)) = e
  <2>1. /\ SubSeq(e, 1, Len(e)) \in Seq(Event) /\ Len(SubSeq(e, 1, Len(e))) = Len(e)
        /\ \A i \in 1..Len(e) : SubSeq(e, 1, Len(e))[i] = e[i]
    BY <1>1, UpTo
  <2> QED
    BY <2>1, SeqEqual
<1>4. ASSUME NEW c \in 0..(Len(e) - 1)
      PROVE  SubSeq(e, 1, c + 1) = Append(SubSeq(e, 1, c), e[c + 1])
  <2> DEFINE a == SubSeq(e, 1, c)
             b == SubSeq(e, 1, c + 1)
             x == e[c + 1]
             r == Append(a, x)
  <2>1. c \in 0..Len(e) /\ c + 1 \in 0..Len(e) /\ c \in Nat /\ x \in Event
    BY <1>1
  <2>2. a \in Seq(Event) /\ Len(a) = c /\ \A i \in 1..c : a[i] = e[i]
    BY <2>1, UpTo
  <2>3. b \in Seq(Event) /\ Len(b) = c + 1 /\ \A i \in 1..(c + 1) : b[i] = e[i]
    BY <2>1, UpTo
  <2> HIDE DEF a, b
  <2>4. r \in Seq(Event) /\ Len(r) = c + 1 /\ r[c + 1] = x /\ \A i \in 1..c : r[i] = a[i]
    BY <2>1, <2>2
  <2> HIDE DEF r
  <2>5. \A i \in 1..(c + 1) : b[i] = r[i]
    BY <2>1, <2>2, <2>3, <2>4
  <2>6. b = r
    BY <2>3, <2>4, <2>5, SeqEqual
  <2> QED
    BY <2>6 DEF a, b, r
<1>5. ASSUME NEW x \in Event, NEW c \in 0..Len(e)
      PROVE  SubSeq(Append(e, x), 1, c) = SubSeq(e, 1, c)
  <2> DEFINE r == Append(e, x)
             a == SubSeq(r, 1, c)
             b == SubSeq(e, 1, c)
  <2>1. r \in Seq(Event) /\ c \in 0..Len(r) /\ c \in Nat /\ \A i \in 1..Len(e) : r[i] = e[i]
    BY <1>1
  <2> HIDE DEF r
  <2>2. a \in Seq(Event) /\ Len(a) = c /\ \A i \in 1..c : a[i] = r[i]
    BY <2>1, UpTo
  <2>3. b \in Seq(Event) /\ Len(b) = c /\ \A i \in 1..c : b[i] = e[i]
    BY UpTo
  <2> HIDE DEF a, b
  <2>4. \A i \in 1..c : a[i] = b[i]
    BY <2>1, <2>2, <2>3
  <2>5. a = b
    BY <2>2, <2>3, <2>4, SeqEqual
  <2> QED
    BY <2>5 DEF a, b, r
<1> QED
  BY <1>2, <1>3, <1>4, <1>5

(* The events of e with a schema among the first c.                        *)
KnownUpTo(e, c) == Known(SubSeq(e, 1, c))

(* They are one more, or the same, with the next event.                    *)
LEMMA KnownUpToNext ==
  ASSUME NEW e \in Seq(Event)
  PROVE  /\ KnownUpTo(e, 0) = <<>> /\ KnownUpTo(e, Len(e)) = Known(e)
         /\ \A c \in 0..Len(e) : KnownUpTo(e, c) \in Seq(Event)
         /\ \A c \in 0..(Len(e) - 1) :
              KnownUpTo(e, c + 1) = IF e[c + 1][1] \in EventSchemaMap THEN Append(KnownUpTo(e, c), e[c + 1])
                                    ELSE KnownUpTo(e, c)
<1>1. KnownUpTo(e, 0) = <<>> /\ KnownUpTo(e, Len(e)) = Known(e)
  BY UpToSteps, KnownOfNone DEF KnownUpTo
<1>2. ASSUME NEW c \in 0..(Len(e) - 1)
      PROVE  /\ KnownUpTo(e, c) \in Seq(Event)
             /\ KnownUpTo(e, c + 1) =
                  IF e[c + 1][1] \in EventSchemaMap THEN Append(KnownUpTo(e, c), e[c + 1])
                  ELSE KnownUpTo(e, c)
  <2> DEFINE a == SubSeq(e, 1, c)
             x == e[c + 1]
  <2>1. c \in 0..Len(e) /\ x \in Event
    OBVIOUS
  <2>2. a \in Seq(Event)
    BY <2>1, UpTo
  <2>3. SubSeq(e, 1, c + 1) = Append(a, x)
    BY UpToSteps
  <2> HIDE DEF a, x
  <2>4. /\ Known(a) \in Seq(Event)
        /\ Known(Append(a, x)) = IF x[1] \in EventSchemaMap THEN Append(Known(a), x) ELSE Known(a)
    BY <2>1, <2>2, KnownOfMore
  <2> QED
    BY <2>3, <2>4 DEF KnownUpTo, a, x
<1>3. ASSUME NEW c \in 0..Len(e)
      PROVE  KnownUpTo(e, c) \in Seq(Event)
  <2>1. SubSeq(e, 1, c) \in Seq(Event)
    BY UpTo
  <2>2. <<Done, 1>> \in Event
    BY EventStreamAssumption DEF Event, Names
  <2> DEFINE a == SubSeq(e, 1, c)
  <2> HIDE DEF a
  <2>3. Known(a) \in Seq(Event)
    BY <2>1, <2>2, KnownOfMore DEF a
  <2> QED
    BY <2>3 DEF KnownUpTo, a
<1> QED
  BY <1>1, <1>2, <1>3

(* The events with a schema among fewer events are the first of those      *)
(* among more.                                                             *)
LEMMA KnownInOrder ==
  ASSUME NEW e \in Seq(Event), NEW c \in 0..Len(e), NEW d \in c..Len(e)
  PROVE  /\ Len(KnownUpTo(e, c)) <= Len(KnownUpTo(e, d))
         /\ KnownUpTo(e, c) = SubSeq(KnownUpTo(e, d), 1, Len(KnownUpTo(e, c)))
<1> DEFINE a == KnownUpTo(e, c)
           Begun(b) == b \in Seq(Event) /\ Len(a) <= Len(b) /\ \A i \in 1..Len(a) : a[i] = b[i]
           S == {k \in Nat : c + k <= Len(e) => Begun(KnownUpTo(e, c + k))}
<1>1. Len(e) \in Nat /\ c \in Nat /\ c <= Len(e) /\ c + 0 = c
  OBVIOUS
<1>2. a \in Seq(Event) /\ Len(a) \in Nat
  <2>1. a \in Seq(Event)
    BY KnownUpToNext
  <2> QED
    BY <2>1
<1>3. Begun(KnownUpTo(e, c + 0))
  BY <1>1, <1>2
<1> HIDE DEF a
<1>4. ASSUME NEW k \in Nat, c + (k + 1) <= Len(e), Begun(KnownUpTo(e, c + k))
      PROVE  Begun(KnownUpTo(e, c + (k + 1)))
  <2> DEFINE j == c + k
             b == KnownUpTo(e, j)
             x == e[j + 1]
  <2>1. j \in 0..(Len(e) - 1) /\ c + (k + 1) = j + 1 /\ x \in Event
    BY <1>1, <1>4
  <2>2. KnownUpTo(e, j + 1) = IF x[1] \in EventSchemaMap THEN Append(b, x) ELSE b
    BY <2>1, KnownUpToNext
  <2>3. Begun(b)
    BY <1>4
  <2> HIDE DEF b, x, j
  <2>4. Begun(Append(b, x))
    BY <1>2, <2>1, <2>3
  <2> QED
    BY <2>1, <2>2, <2>3, <2>4
<1> HIDE DEF Begun
<1>5. d - c \in S
  <2>1. 0 \in S
    BY <1>3
  <2>2. \A k \in Nat : k \in S => k + 1 \in S
    <3> SUFFICES ASSUME NEW k \in Nat, k \in S, c + (k + 1) <= Len(e)
                 PROVE  Begun(KnownUpTo(e, c + (k + 1)))
      OBVIOUS
    <3>1. c + k <= Len(e)
      BY <1>1
    <3>2. Begun(KnownUpTo(e, c + k))
      BY <3>1
    <3> QED
      BY <1>4, <3>2
  <2>3. d - c \in Nat
    BY <1>1
  <2> HIDE DEF S
  <2> QED
    BY <2>1, <2>2, <2>3, SetInduction
<1> DEFINE b == KnownUpTo(e, d)
<1>6. Begun(b)
  <2>1. c + (d - c) = d /\ d <= Len(e)
    BY <1>1
  <2> QED
    BY <1>5, <2>1
<1>7. b \in Seq(Event) /\ Len(a) <= Len(b) /\ \A i \in 1..Len(a) : a[i] = b[i]
  BY <1>6 DEF Begun
<1> HIDE DEF b
<1>8. a = SubSeq(b, 1, Len(a))
  <2> DEFINE r == SubSeq(b, 1, Len(a))
  <2>1. Len(a) \in 0..Len(b)
    BY <1>2, <1>7
  <2>2. r \in Seq(Event) /\ Len(r) = Len(a) /\ \A i \in 1..Len(a) : r[i] = b[i]
    BY <1>7, <2>1, UpTo
  <2> HIDE DEF r
  <2>3. a = r
    BY <1>2, <1>7, <2>2, SeqEqual
  <2> QED
    BY <2>3 DEF r
<1> QED
  BY <1>7, <1>8 DEF a, b
(* Hearing the event of a frame, as a function.                            *)
HeardStep(frames) ==
  [p \in (1..Len(frames)) \X Seq(Event) |-> p[2] \o ParseSseFrame(frames[p[1]])]

(* What onEvent was called with is the fold over the frames.               *)
LEMMA HeardIsFolded ==
  ASSUME NEW n \in Nat, NEW frames, Len(frames) = n, DOMAIN frames = 1..n,
         \A k \in 1..n : ParseSseFrame(frames[k]) \in Seq(Event),
         NEW base \in Seq(Event)
  PROVE  \E F : /\ FoldsOver(F, n, Seq(Event), base, HeardStep(frames))
                /\ OnEvents(base, frames) = F[1..n]
<1> DEFINE T == Seq(Event)
           Recursion(F) == F = [s \in SUBSET (1..n) |->
                                  IF s = {} THEN base ELSE F[s \ {Max(s)}] \o ParseSseFrame(frames[Max(s)])]
           G == CHOOSE F : Recursion(F)
<1>1. \A t \in T : \A k \in 1..n : t \o ParseSseFrame(frames[k]) \in T
  <2> SUFFICES ASSUME NEW t \in T, NEW k \in 1..n
               PROVE  t \o ParseSseFrame(frames[k]) \in T
    OBVIOUS
  <2> DEFINE u == ParseSseFrame(frames[k])
  <2>1. u \in Seq(Event)
    OBVIOUS
  <2> HIDE DEF u
  <2>2. t \o u \in Seq(Event)
    BY <2>1
  <2> QED
    BY <2>2 DEF u
<1> HIDE DEF T
<1>2. HeardStep(frames) \in [(1..n) \X T -> T]
  BY <1>1 DEF HeardStep, T
<1>3. base \in T
  BY DEF T
<1>4. PICK F : FoldsOver(F, n, T, base, HeardStep(frames))
  BY <1>2, <1>3, FoldExists
<1>5. \A s \in SUBSET (1..n) : s # {} => Max(s) \in 1..n
  <2> SUFFICES ASSUME NEW s \in SUBSET (1..n), s # {}
               PROVE  Max(s) \in 1..n
    OBVIOUS
  <2>1. Max(s) \in s
    BY LargestIsInside
  <2> QED
    BY <2>1
<1>6. \A s \in SUBSET (1..n) : s # {} => \A t \in T :
         HeardStep(frames)[<<Max(s), t>>] = t \o ParseSseFrame(frames[Max(s)])
  BY <1>5 DEF HeardStep, T
<1>7. Recursion(F)
  <2>1. F \in [SUBSET (1..n) -> T] /\ F[{}] = base
    BY <1>4 DEF FoldsOver
  <2>2. ASSUME NEW s \in SUBSET (1..n), s # {}
        PROVE  F[s] = F[s \ {Max(s)}] \o ParseSseFrame(frames[Max(s)])
    <3>1. s \ {Max(s)} \in SUBSET (1..n)
      OBVIOUS
    <3>2. F[s] = HeardStep(frames)[<<Max(s), F[s \ {Max(s)}]>>]
      BY <1>4, <2>2 DEF FoldsOver
    <3>3. F[s \ {Max(s)}] \in T
      BY <2>1, <3>1
    <3> QED
      BY <1>6, <2>2, <3>2, <3>3
  <2> QED
    BY <2>1, <2>2
<1>8. Recursion(G)
  <2> HIDE DEF Recursion
  <2> QED
    BY <1>7
<1>9. OnEvents(base, frames) = G[1..n]
  BY DEF OnEvents, FoldLeft, MapThenFoldSet
<1>10. FoldsOver(G, n, T, base, HeardStep(frames))
  <2>1. G = [s \in SUBSET (1..n) |-> G[s]] /\ G[{}] = base
    BY <1>8
  <2>2. ASSUME NEW s \in SUBSET (1..n), s # {}, G[s \ {Max(s)}] \in T
        PROVE  G[s] = HeardStep(frames)[<<Max(s), G[s \ {Max(s)}]>>]
    <3>1. G[s] = G[s \ {Max(s)}] \o ParseSseFrame(frames[Max(s)])
      BY <1>8, <2>2
    <3> HIDE DEF G
    <3> QED
      BY <1>6, <2>2, <3>1
  <2> HIDE DEF G
  <2> QED
    BY <1>2, <1>3, <2>1, <2>2, FoldStaysInside
<1> QED
  BY <1>9, <1>10 DEF T

(* If the frames are those of the events of e after the first c, the page  *)
(* has heard of the events up to the last of them.                         *)
LEMMA EventsHeard ==
  ASSUME NEW e \in Seq(Event), NEW c \in Nat, NEW n \in Nat, c + n <= Len(e),
         NEW frames, Len(frames) = n, DOMAIN frames = 1..n,
         \A k \in 1..n : ParseSseFrame(frames[k]) =
                           IF e[c + k][1] \in EventSchemaMap THEN <<e[c + k]>> ELSE <<>>
  PROVE  OnEvents(KnownUpTo(e, c), frames) = KnownUpTo(e, c + n)
<1>1. Len(e) \in Nat /\ c \in 0..Len(e) /\ \A k \in 1..n : e[c + k] \in Event
  OBVIOUS
<1> DEFINE base == KnownUpTo(e, c)
<1>2. base \in Seq(Event)
  BY <1>1, KnownUpToNext
<1>3. ASSUME NEW k \in 1..n
      PROVE  ParseSseFrame(frames[k]) \in Seq(Event)
  <2> DEFINE x == e[c + k]
             u == ParseSseFrame(frames[k])
  <2>1. x \in Event /\ u = IF x[1] \in EventSchemaMap THEN <<x>> ELSE <<>>
    BY <1>1
  <2> HIDE DEF x, u
  <2>2. u \in Seq(Event)
    BY <2>1
  <2> QED
    BY <2>2 DEF u
<1> HIDE DEF base
<1>4. PICK F : FoldsOver(F, n, Seq(Event), base, HeardStep(frames)) /\ OnEvents(base, frames) = F[1..n]
  BY <1>2, <1>3, HeardIsFolded
<1>5. F[1..0] = base /\ \A k \in 1..n : /\ F[1..k] = HeardStep(frames)[<<k, F[1..(k - 1)]>>]
                                        /\ F[1..(k - 1)] \in Seq(Event)
  BY <1>4, FoldIsRecursion
<1> DEFINE S == {k \in Nat : k <= n => F[1..k] = KnownUpTo(e, c + k)}
<1>6. 0 \in S
  BY <1>1, <1>5 DEF base
<1>7. ASSUME NEW k \in Nat, k \in S
      PROVE  k + 1 \in S
  <2> SUFFICES ASSUME k + 1 <= n
               PROVE  F[1..(k + 1)] = KnownUpTo(e, c + (k + 1))
    OBVIOUS
  <2> DEFINE old == F[1..k]
             x == e[c + (k + 1)]
             j == c + k
  <2>1. old = KnownUpTo(e, j)
    BY <1>7
  <2>2. k + 1 \in 1..n /\ (k + 1) - 1 = k /\ j \in 0..(Len(e) - 1) /\ c + (k + 1) = j + 1
    BY <1>1
  <2>3. F[1..(k + 1)] = HeardStep(frames)[<<k + 1, old>>] /\ old \in Seq(Event)
    BY <1>5, <2>2
  <2> HIDE DEF old
  <2>4. F[1..(k + 1)] = old \o ParseSseFrame(frames[k + 1])
    BY <2>2, <2>3 DEF HeardStep
  <2>5. x \in Event /\ ParseSseFrame(frames[k + 1]) = IF x[1] \in EventSchemaMap THEN <<x>> ELSE <<>>
    BY <1>1, <2>2
  <2>6. x = e[j + 1]
    BY <2>2
  <2> HIDE DEF x, j
  <2>7. KnownUpTo(e, j + 1) = IF x[1] \in EventSchemaMap THEN Append(old, x) ELSE old
    BY <2>1, <2>2, <2>6, KnownUpToNext
  <2>8. old \o <<x>> = Append(old, x) /\ old \o <<>> = old
    BY <2>3, <2>5
  <2> QED
    BY <2>2, <2>4, <2>5, <2>7, <2>8
<1> HIDE DEF S
<1>8. n \in S
  BY <1>6, <1>7, SetInduction
<1> QED
  BY <1>4, <1>8 DEF S, base
-----------------------------------------------------------------------------
(* Events as text.                                                         *)

(* Every event on its way is in the text four pieces long: the text has    *)
(* the pieces of the events of e after the first c, in order.              *)
TextOf(text, e, c) ==
  \A k \in Nat \ {0} :
    /\ 4 * k - 3 <= Len(text) => c + k <= Len(e) /\ text[4 * k - 3] = <<"event", e[c + k]>>
    /\ 4 * k - 2 <= Len(text) => text[4 * k - 2] = <<"data", e[c + k]>>
    /\ 4 * k - 1 <= Len(text) => text[4 * k - 1] = <<"nl", e[c + k]>>
    /\ 4 * k <= Len(text) => text[4 * k] = <<"nl", e[c + k]>>

(* A number is past a multiple of four by less than four.                  *)
LEMMA Fours ==
  ASSUME NEW n \in Nat
  PROVE  \E q \in Nat : 4 * q <= n /\ n < 4 * q + 4
<1> DEFINE S == {m \in Nat : \E q \in Nat : 4 * q <= m /\ m < 4 * q + 4}
<1>1. 0 \in S
  <2>1. 0 \in Nat /\ 4 * 0 <= 0 /\ 0 < 4 * 0 + 4
    OBVIOUS
  <2> QED
    BY <2>1
<1>2. ASSUME NEW m \in Nat, m \in S
      PROVE  m + 1 \in S
  <2>1. PICK q \in Nat : 4 * q <= m /\ m < 4 * q + 4
    BY <1>2
  <2>2. CASE m + 1 < 4 * q + 4
    BY <2>1, <2>2
  <2>3. CASE m + 1 = 4 * q + 4
    <3> DEFINE r == q + 1
    <3>1. r \in Nat /\ 4 * r <= m + 1 /\ m + 1 < 4 * r + 4
      BY <2>1, <2>3
    <3> HIDE DEF r
    <3> QED
      BY <3>1
  <2> QED
    BY <2>1, <2>2, <2>3
<1> HIDE DEF S
<1>3. n \in S
  BY <1>1, <1>2, SetInduction
<1> QED
  BY <1>3 DEF S

(* The multiples of four up to the q-th.                                   *)
FirstFours(q) == {4 * i : i \in 1..q}

(* There are q of them, the i-th is four times i.                          *)
LEMMA FoursCounted ==
  ASSUME NEW q \in Nat
  PROVE  /\ IsFiniteSet(FirstFours(q)) /\ Cardinality(FirstFours(q)) = q
         /\ FirstFours(q) = {} <=> q = 0
<1> DEFINE S == {n \in Nat : IsFiniteSet(FirstFours(n)) /\ Cardinality(FirstFours(n)) = n}
<1>1. FirstFours(0) = {}
  BY DEF FirstFours
<1>2. 0 \in S
  BY <1>1, FS_EmptySet
<1>3. ASSUME NEW n \in Nat, n \in S
      PROVE  n + 1 \in S
  <2> DEFINE A == FirstFours(n)
             x == 4 * (n + 1)
  <2>1. FirstFours(n + 1) = A \cup {x}
    <3>1. \A i \in 1..(n + 1) : i \in 1..n \/ i = n + 1
      OBVIOUS
    <3>2. n + 1 \in 1..(n + 1) /\ \A i \in 1..n : i \in 1..(n + 1)
      OBVIOUS
    <3> QED
      BY <3>1, <3>2 DEF FirstFours
  <2>2. x \notin A
    BY DEF FirstFours
  <2>3. IsFiniteSet(A) /\ Cardinality(A) = n
    BY <1>3
  <2> HIDE DEF A, x
  <2>4. IsFiniteSet(A \cup {x}) /\ Cardinality(A \cup {x}) = n + 1
    BY <2>2, <2>3, FS_AddElement
  <2> QED
    BY <2>1, <2>4
<1>4. q = 0 \/ 4 * q \in FirstFours(q)
  BY DEF FirstFours
<1> HIDE DEF S
<1>5. q \in S
  BY <1>2, <1>3, SetInduction
<1> QED
  BY <1>1, <1>4, <1>5 DEF S

(* The i-th of them is four times i.                                       *)
LEMMA FoursInOrder ==
  ASSUME NEW q \in Nat, NEW i \in 1..q
  PROVE  /\ Nth(FirstFours(q), i) = 4 * i
         /\ Max(FirstFours(q)) = 4 * q
<1> DEFINE Below(k) == {j \in FirstFours(q) : j <= k}
<1>1. \A n \in 1..q : Below(4 * n) = FirstFours(n)
  <2> SUFFICES ASSUME NEW n \in 1..q
               PROVE  Below(4 * n) = FirstFours(n)
    OBVIOUS
  <2>1. \A m \in 1..q : 4 * m <= 4 * n <=> m \in 1..n
    OBVIOUS
  <2>2. \A m \in 1..n : m \in 1..q
    OBVIOUS
  <2> QED
    BY <2>1, <2>2 DEF FirstFours
<1>2. \A n \in 1..q : n \in Nat /\ Cardinality(Below(4 * n)) = n
  BY <1>1, FoursCounted
<1>3. \A k \in FirstFours(q) : \E n \in 1..q : k = 4 * n
  BY DEF FirstFours
<1>4. 4 * i \in FirstFours(q) /\ 4 * q \in FirstFours(q)
  BY DEF FirstFours
<1>5. \A k \in FirstFours(q) : Cardinality(Below(k)) = i => k = 4 * i
  BY <1>2, <1>3
<1>6. Nth(FirstFours(q), i) = 4 * i
  <2>1. Nth(FirstFours(q), i) = CHOOSE k \in FirstFours(q) : Cardinality(Below(k)) = i
    BY DEF Nth
  <2> HIDE DEF Below
  <2> QED
    BY <1>2, <1>4, <1>5, <2>1
<1>7. Max(FirstFours(q)) = 4 * q
  <2>1. \A k \in FirstFours(q) : 4 * q >= k /\ (k >= 4 * q => k = 4 * q)
    BY <1>3
  <2> QED
    BY <1>4, <2>1 DEF Max
<1> QED
  BY <1>6, <1>7


(* The empty lines of a text of events end at the multiples of four.       *)
LEMMA EmptyLinesOfText ==
  ASSUME NEW text \in Seq(Token), NEW e, NEW c, TextOf(text, e, c),
         NEW q \in Nat, 4 * q <= Len(text), Len(text) < 4 * q + 4
  PROVE  EmptyLines(text) = FirstFours(q)
<1>1. Len(text) \in Nat
  OBVIOUS
<1>2. ASSUME NEW k \in 2..Len(text), text[k][1] = "nl", text[k - 1][1] = "nl"
      PROVE  k \in FirstFours(q)
  <2>0. k \in Nat /\ k - 1 \in Nat
    OBVIOUS
  <2>1. PICK r \in Nat : 4 * r <= k /\ k < 4 * r + 4
    BY <2>0, Fours
  <2> DEFINE i == r + 1
  <2>2. i \in Nat \ {0} /\ 4 * i - 3 = 4 * r + 1 /\ 4 * i - 2 = 4 * r + 2
    OBVIOUS
  <2> HIDE DEF i
  <2>3. k # 4 * r + 1
    <3> SUFFICES ASSUME k = 4 * r + 1
                 PROVE  FALSE
      OBVIOUS
    <3>1. k = 4 * i - 3 /\ 4 * i - 3 <= Len(text)
      BY <1>1, <2>2
    <3>2. text[k] = <<"event", e[c + i]>>
      BY <2>2, <3>1 DEF TextOf
    <3> QED
      BY <1>2, <3>2
  <2>4. k # 4 * r + 2
    <3> SUFFICES ASSUME k = 4 * r + 2
                 PROVE  FALSE
      OBVIOUS
    <3>1. k = 4 * i - 2 /\ 4 * i - 2 <= Len(text)
      BY <1>1, <2>2
    <3>2. text[k] = <<"data", e[c + i]>>
      BY <2>2, <3>1 DEF TextOf
    <3> QED
      BY <1>2, <3>2
  <2>5. k # 4 * r + 3
    <3> SUFFICES ASSUME k = 4 * r + 3
                 PROVE  FALSE
      OBVIOUS
    <3>1. k - 1 = 4 * i - 2 /\ 4 * i - 2 <= Len(text)
      BY <1>1, <2>2
    <3>2. text[k - 1] = <<"data", e[c + i]>>
      BY <2>2, <3>1 DEF TextOf
    <3> QED
      BY <1>2, <3>2
  <2>6. k = 4 * r
    BY <2>1, <2>3, <2>4, <2>5
  <2>7. r \in 1..q
    BY <1>1, <2>6
  <2> QED
    BY <2>6, <2>7 DEF FirstFours
<1>3. ASSUME NEW i \in 1..q
      PROVE  4 * i \in EmptyLines(text)
  <2>1. i \in Nat \ {0} /\ 4 * i <= Len(text) /\ 4 * i - 1 <= Len(text) /\ 4 * i \in 2..Len(text)
    BY <1>1
  <2>2. text[4 * i] = <<"nl", e[c + i]>> /\ text[4 * i - 1] = <<"nl", e[c + i]>>
    BY <2>1 DEF TextOf
  <2> QED
    BY <2>1, <2>2 DEF EmptyLines
<1> QED
  BY <1>2, <1>3 DEF EmptyLines, FirstFours

(* A part of a text.                                                       *)
LEMMA PartOfText ==
  ASSUME NEW text \in Seq(Token), NEW a \in Nat \ {0}, NEW b \in Nat, b <= Len(text), a <= b + 1
  PROVE  /\ SubSeq(text, a, b) \in Seq(Token) /\ Len(SubSeq(text, a, b)) = b - a + 1
         /\ \A j \in 1..(b - a + 1) : SubSeq(text, a, b)[j] = text[a + j - 1]
<1> DEFINE s == SubSeq(text, a, b)
           n == b - a + 1
<1>1. /\ Len(text) \in Nat /\ n \in Nat
      /\ \A j \in 1..n : a + j - 1 \in 1..Len(text) /\ text[a + j - 1] \in Token
  OBVIOUS
<1>2. s = [j \in 1..n |-> text[a + j - 1]]
  BY <1>1 DEF SubSeq
<1> HIDE DEF s, n
<1>3. s \in [1..n -> Token]
  BY <1>1, <1>2
<1>4. s \in Seq(Token) /\ Len(s) = n /\ \A j \in 1..n : s[j] = text[a + j - 1]
  BY <1>1, <1>2, <1>3, LenProperties
<1> QED
  BY <1>4 DEF s, n

(* Frame f is that of event x: its name and its data, and perhaps the end  *)
(* of that line.                                                           *)
FrameOf(f, x) ==
  /\ Len(f) \in 2..3 /\ f[1] = <<"event", x>> /\ f[2] = <<"data", x>>
  /\ Len(f) = 3 => f[3] = <<"nl", x>>

(* It does not throw and is the event, if that has a schema.               *)
LEMMA WholeFrame ==
  ASSUME NEW f \in Seq(Token), NEW x \in Event, FrameOf(f, x)
  PROVE  /\ ~Throws(f)
         /\ ParseSseFrame(f) = IF x[1] \in EventSchemaMap THEN <<x>> ELSE <<>>
<1>1. /\ DOMAIN f = 1..Len(f) /\ Len(f) \in Nat /\ Len(f) \in 2..3
      /\ f[1][1] = "event" /\ f[1][2] = x /\ f[2][1] = "data" /\ f[2][2] = x
      /\ (Len(f) = 3 => f[3][1] = "nl")
  BY DEF FrameOf
<1>2. {k \in DOMAIN f : f[k][1] = "event"} = {1}
  <2>1. \A k \in DOMAIN f : k = 1 \/ k = 2 \/ (k = 3 /\ Len(f) = 3)
    BY <1>1
  <2> QED
    BY <1>1, <2>1
<1>3. DataLines(f) = {2}
  <2>1. \A k \in DOMAIN f : k = 1 \/ k = 2 \/ (k = 3 /\ Len(f) = 3)
    BY <1>1
  <2> QED
    BY <1>1, <2>1 DEF DataLines
<1>4. Max({1}) = 1
  <2>1. 1 \in Nat /\ {1} \in SUBSET (1..1) /\ 1 \in {1}
    OBVIOUS
  <2> QED
    BY <2>1, MaxOfPart
<1>5. NameOf(f) = x[1]
  BY <1>1, <1>2, <1>4 DEF NameOf
<1>6. Cardinality(DataLines(f)) = 1
  BY <1>3, FS_Singleton
<1>7. ~Throws(f)
  BY <1>6 DEF Throws
<1>8. f[CHOOSE k \in DataLines(f) : TRUE][2][2] = x[2]
  <2>1. (CHOOSE k \in {2} : TRUE) = 2
    OBVIOUS
  <2> QED
    BY <1>1, <1>3, <2>1
<1>9. <<x[1], x[2]>> = x
  BY DEF Event
<1>10. ParseSseFrame(f) = IF x[1] \in EventSchemaMap THEN <<<<x[1], x[2]>>>> ELSE <<>>
  BY <1>5, <1>8 DEF ParseSseFrame
<1> QED
  BY <1>7, <1>9, <1>10

(* A frame cut after its name throws, unless the name has no schema, and   *)
(* then it is nothing.                                                     *)
LEMMA CutFrame ==
  ASSUME NEW f \in Seq(Token), NEW x \in Event, Len(f) = 1, f[1] = <<"event", x>>
  PROVE  /\ Throws(f) <=> x[1] \in EventSchemaMap
         /\ x[1] \notin EventSchemaMap => ParseSseFrame(f) = <<>>
<1>1. DOMAIN f = {1} /\ f[1][1] = "event" /\ f[1][2] = x
  OBVIOUS
<1>2. {k \in DOMAIN f : f[k][1] = "event"} = {1}
  BY <1>1
<1>3. DataLines(f) = {}
  BY <1>1 DEF DataLines
<1>4. Max({1}) = 1
  <2>1. 1 \in Nat /\ {1} \in SUBSET (1..1) /\ 1 \in {1}
    OBVIOUS
  <2> QED
    BY <2>1, MaxOfPart
<1>5. NameOf(f) = x[1]
  BY <1>1, <1>2, <1>4 DEF NameOf
<1>6. Cardinality(DataLines(f)) = 0
  BY <1>3, FS_EmptySet
<1> QED
  BY <1>5, <1>6 DEF Throws, ParseSseFrame

(* The frames of a text are those of its events, and what is left is less  *)
(* than the text of one.                                                   *)
LEMMA FramesOfText ==
  ASSUME NEW text \in Seq(Token), NEW e, NEW c \in Nat, TextOf(text, e, c),
         NEW q \in Nat, 4 * q <= Len(text), Len(text) < 4 * q + 4
  PROVE  /\ Len(Frames(text)) = q /\ DOMAIN Frames(text) = 1..q
         /\ \A i \in 1..q : Frames(text)[i] \in Seq(Token) /\ FrameOf(Frames(text)[i], e[c + i])
         /\ Remainder(text) = SubSeq(text, 4 * q + 1, Len(text))
<1> DEFINE A == FirstFours(q)
<1>1. EmptyLines(text) = A
  BY EmptyLinesOfText
<1>2. Cardinality(A) = q /\ (A = {} <=> q = 0)
  BY FoursCounted
<1>3. \A i \in 1..q : Nth(A, i) = 4 * i /\ Max(A) = 4 * q
  BY FoursInOrder
<1> HIDE DEF A
<1>4. Frames(text) = [i \in 1..q |->
                        SubSeq(text, IF i = 1 THEN 1 ELSE Nth(A, i - 1) + 1, Nth(A, i) - 2)]
  BY <1>1, <1>2 DEF Frames
<1>5. ASSUME NEW i \in 1..q
      PROVE  Frames(text)[i] \in Seq(Token) /\ FrameOf(Frames(text)[i], e[c + i])
  <2> DEFINE a == 4 * i - 3
             b == 4 * i - 2
             f == SubSeq(text, a, b)
  <2>1. Nth(A, i) - 2 = b /\ (IF i = 1 THEN 1 ELSE Nth(A, i - 1) + 1) = a
    <3>1. CASE i = 1
      BY <1>3, <3>1
    <3>2. CASE i # 1
      <4>1. i - 1 \in 1..q /\ i \in 1..q
        BY <3>2
      <4>2. Nth(A, i - 1) = 4 * (i - 1) /\ Nth(A, i) = 4 * i
        BY <1>3, <4>1
      <4> QED
        BY <3>2, <4>2
    <3> QED
      BY <3>1, <3>2
  <2>2. Frames(text)[i] = f
    BY <1>4, <2>1
  <2>3. i \in Nat \ {0} /\ a \in Nat \ {0} /\ b \in Nat /\ b <= Len(text) /\ a <= b + 1 /\ b - a + 1 = 2
        /\ a <= Len(text) /\ Len(text) \in Nat
    OBVIOUS
  <2>4. text[a] = <<"event", e[c + i]>> /\ text[b] = <<"data", e[c + i]>>
    BY <2>3 DEF TextOf
  <2>5. a + 1 - 1 = a /\ a + 2 - 1 = b
    OBVIOUS
  <2> HIDE DEF a, b
  <2>6. f \in Seq(Token) /\ Len(f) = 2 /\ f[1] = text[a + 1 - 1] /\ f[2] = text[a + 2 - 1]
    BY <2>3, PartOfText
  <2> HIDE DEF f
  <2>7. f[1] = <<"event", e[c + i]>> /\ f[2] = <<"data", e[c + i]>> /\ Len(f) = 2 /\ f \in Seq(Token)
    BY <2>4, <2>5, <2>6
  <2>8. FrameOf(f, e[c + i])
    BY <2>7 DEF FrameOf
  <2> QED
    BY <2>2, <2>7, <2>8
<1>6. Remainder(text) = SubSeq(text, 4 * q + 1, Len(text))
  <2>1. CASE q = 0
    BY <1>1, <1>2, <2>1 DEF Remainder
  <2>2. CASE q # 0
    <3>1. Max(A) = 4 * q
      BY <1>3, <2>2
    <3> QED
      BY <1>1, <1>2, <2>2, <3>1 DEF Remainder
  <2> QED
    BY <2>1, <2>2
<1>7. Len(Frames(text)) = q /\ DOMAIN Frames(text) = 1..q
  BY <1>4
<1> QED
  BY <1>5, <1>6, <1>7
(* A text cut short is a text.                                             *)
LEMMA TextCut ==
  ASSUME NEW full \in Seq(Token), NEW text \in Seq(Token), NEW e, NEW c, TextOf(full, e, c),
         Len(text) <= Len(full), \A j \in 1..Len(text) : text[j] = full[j]
  PROVE  TextOf(text, e, c)
<1> SUFFICES ASSUME NEW k \in Nat \ {0}
             PROVE  /\ 4 * k - 3 <= Len(text) => c + k <= Len(e) /\ text[4 * k - 3] = <<"event", e[c + k]>>
                    /\ 4 * k - 2 <= Len(text) => text[4 * k - 2] = <<"data", e[c + k]>>
                    /\ 4 * k - 1 <= Len(text) => text[4 * k - 1] = <<"nl", e[c + k]>>
                    /\ 4 * k <= Len(text) => text[4 * k] = <<"nl", e[c + k]>>
  BY DEF TextOf
<1>1. /\ 4 * k - 3 <= Len(full) => c + k <= Len(e) /\ full[4 * k - 3] = <<"event", e[c + k]>>
      /\ 4 * k - 2 <= Len(full) => full[4 * k - 2] = <<"data", e[c + k]>>
      /\ 4 * k - 1 <= Len(full) => full[4 * k - 1] = <<"nl", e[c + k]>>
      /\ 4 * k <= Len(full) => full[4 * k] = <<"nl", e[c + k]>>
  BY DEF TextOf
<1>2. Len(text) \in Nat /\ Len(full) \in Nat
  OBVIOUS
<1>3. \A j \in {4 * k - 3, 4 * k - 2, 4 * k - 1, 4 * k} :
        j <= Len(text) => j <= Len(full) /\ text[j] = full[j]
  BY <1>2
<1> QED
  BY <1>1, <1>3

(* What is left of a text after q events is a text.                        *)
LEMMA TextLeft ==
  ASSUME NEW full \in Seq(Token), NEW text \in Seq(Token), NEW e, NEW c \in Nat, TextOf(full, e, c),
         NEW q \in Nat, Len(full) = 4 * q + Len(text), \A j \in 1..Len(text) : text[j] = full[4 * q + j]
  PROVE  TextOf(text, e, c + q)
<1> SUFFICES ASSUME NEW k \in Nat \ {0}
             PROVE  /\ 4 * k - 3 <= Len(text) =>
                         c + q + k <= Len(e) /\ text[4 * k - 3] = <<"event", e[c + q + k]>>
                    /\ 4 * k - 2 <= Len(text) => text[4 * k - 2] = <<"data", e[c + q + k]>>
                    /\ 4 * k - 1 <= Len(text) => text[4 * k - 1] = <<"nl", e[c + q + k]>>
                    /\ 4 * k <= Len(text) => text[4 * k] = <<"nl", e[c + q + k]>>
  BY DEF TextOf
<1> DEFINE i == q + k
<1>1. i \in Nat \ {0} /\ c + q + k = c + i /\ Len(text) \in Nat
      /\ 4 * i - 3 = 4 * q + (4 * k - 3) /\ 4 * i - 2 = 4 * q + (4 * k - 2)
      /\ 4 * i - 1 = 4 * q + (4 * k - 1) /\ 4 * i = 4 * q + 4 * k
  <2>1. Len(text) \in Nat
    OBVIOUS
  <2>2. i \in Nat \ {0} /\ c + q + k = c + i
    OBVIOUS
  <2>3. 4 * i = 4 * q + 4 * k
    OBVIOUS
  <2>4. k \in Nat
    OBVIOUS
  <2> HIDE DEF i
  <2>5. 4 * i - 3 = 4 * q + (4 * k - 3)
    BY <2>2, <2>3, <2>4
  <2>6. 4 * i - 2 = 4 * q + (4 * k - 2)
    BY <2>2, <2>3, <2>4
  <2>7. 4 * i - 1 = 4 * q + (4 * k - 1)
    BY <2>2, <2>3, <2>4
  <2> QED
    BY <2>1, <2>2, <2>3, <2>5, <2>6, <2>7
<1> HIDE DEF i
<1>2. /\ 4 * i - 3 <= Len(full) => c + i <= Len(e) /\ full[4 * i - 3] = <<"event", e[c + i]>>
      /\ 4 * i - 2 <= Len(full) => full[4 * i - 2] = <<"data", e[c + i]>>
      /\ 4 * i - 1 <= Len(full) => full[4 * i - 1] = <<"nl", e[c + i]>>
      /\ 4 * i <= Len(full) => full[4 * i] = <<"nl", e[c + i]>>
  BY <1>1 DEF TextOf
<1>3. \A j \in {4 * k - 3, 4 * k - 2, 4 * k - 1, 4 * k} :
        j <= Len(text) => 4 * q + j <= Len(full) /\ text[j] = full[4 * q + j]
  <2> SUFFICES ASSUME NEW j \in {4 * k - 3, 4 * k - 2, 4 * k - 1, 4 * k}, j <= Len(text)
               PROVE  4 * q + j <= Len(full) /\ text[j] = full[4 * q + j]
    OBVIOUS
  <2>1. j \in 1..Len(text)
    BY <1>1
  <2> QED
    BY <1>1, <2>1
<1> QED
  BY <1>1, <1>2, <1>3

(* Writing the next event makes the text longer by its four pieces.        *)
LEMMA TextWritten ==
  ASSUME NEW text \in Seq(Token), NEW e \in Seq(Event), NEW c \in Nat, TextOf(text, e, c),
         NEW m \in Nat, Len(text) = 4 * m, c + m + 1 <= Len(e)
  PROVE  /\ text \o FormatSse(e[c + m + 1]) \in Seq(Token)
         /\ Len(text \o FormatSse(e[c + m + 1])) = 4 * (m + 1)
         /\ TextOf(text \o FormatSse(e[c + m + 1]), e, c)
<1> DEFINE x == e[c + m + 1]
           f == FormatSse(x)
           r == text \o f
<1>1. c + m + 1 \in 1..Len(e) /\ x \in Event
  OBVIOUS
<1>2. /\ f \in Seq(Token) /\ Len(f) = 4
      /\ f[1] = <<"event", x>> /\ f[2] = <<"data", x>> /\ f[3] = <<"nl", x>> /\ f[4] = <<"nl", x>>
  <2>1. /\ <<"event", x>> \in Token /\ <<"data", x>> \in Token /\ <<"nl", x>> \in Token
    BY <1>1 DEF Token
  <2> HIDE DEF x
  <2> QED
    BY <2>1 DEF FormatSse
<1> HIDE DEF f
<1>3. /\ r \in Seq(Token) /\ Len(r) = 4 * m + 4
      /\ \A j \in 1..(4 * m) : r[j] = text[j]
      /\ r[4 * m + 1] = f[1] /\ r[4 * m + 2] = f[2] /\ r[4 * m + 3] = f[3] /\ r[4 * m + 4] = f[4]
  <2>1. /\ r \in Seq(Token) /\ Len(r) = Len(text) + Len(f)
        /\ \A j \in 1..(Len(text) + Len(f)) : r[j] = IF j <= Len(text) THEN text[j] ELSE f[j - Len(text)]
    BY <1>2, ConcatProperties
  <2> HIDE DEF r
  <2> DEFINE n == Len(text)
  <2>2. n \in Nat /\ n = 4 * m /\ Len(f) = 4
    BY <1>2
  <2> HIDE DEF n
  <2>3. /\ \A j \in 1..n : r[j] = text[j]
        /\ r[n + 1] = f[1] /\ r[n + 2] = f[2] /\ r[n + 3] = f[3] /\ r[n + 4] = f[4]
    <3>1. \A j \in 1..(n + 4) : r[j] = IF j <= n THEN text[j] ELSE f[j - n]
      BY <2>1, <2>2 DEF n
    <3>2. n + 1 \in 1..(n + 4) /\ n + 2 \in 1..(n + 4) /\ n + 3 \in 1..(n + 4) /\ n + 4 \in 1..(n + 4)
      BY <2>2
    <3>3. (n + 1) - n = 1 /\ (n + 2) - n = 2 /\ (n + 3) - n = 3 /\ (n + 4) - n = 4
      BY <2>2
    <3> QED
      BY <2>2, <3>1, <3>2, <3>3
  <2> QED
    BY <2>1, <2>2, <2>3 DEF n
<1> HIDE DEF r
<1>4. ASSUME NEW k \in Nat \ {0}
      PROVE  /\ 4 * k - 3 <= Len(r) => c + k <= Len(e) /\ r[4 * k - 3] = <<"event", e[c + k]>>
             /\ 4 * k - 2 <= Len(r) => r[4 * k - 2] = <<"data", e[c + k]>>
             /\ 4 * k - 1 <= Len(r) => r[4 * k - 1] = <<"nl", e[c + k]>>
             /\ 4 * k <= Len(r) => r[4 * k] = <<"nl", e[c + k]>>
  <2>1. CASE k <= m
    <3>1. /\ 4 * k - 3 <= Len(text) => c + k <= Len(e) /\ text[4 * k - 3] = <<"event", e[c + k]>>
          /\ 4 * k - 2 <= Len(text) => text[4 * k - 2] = <<"data", e[c + k]>>
          /\ 4 * k - 1 <= Len(text) => text[4 * k - 1] = <<"nl", e[c + k]>>
          /\ 4 * k <= Len(text) => text[4 * k] = <<"nl", e[c + k]>>
      BY DEF TextOf
    <3>2. \A j \in {4 * k - 3, 4 * k - 2, 4 * k - 1, 4 * k} : j <= Len(text) /\ r[j] = text[j]
      BY <1>3, <2>1
    <3> QED
      BY <3>1, <3>2
  <2>2. CASE k = m + 1
    <3>1. c + k <= Len(e) /\ e[c + k] = x
      BY <2>2
    <3>2. 4 * k - 3 = 4 * m + 1 /\ 4 * k - 2 = 4 * m + 2 /\ 4 * k - 1 = 4 * m + 3 /\ 4 * k = 4 * m + 4
      BY <2>2
    <3> HIDE DEF x
    <3> QED
      BY <1>2, <1>3, <3>1, <3>2
  <2>3. CASE k > m + 1
    <3> DEFINE j == 4 * k
               n == 4 * m
    <3>1. j \in Nat /\ n \in Nat /\ j >= n + 8 /\ Len(r) = n + 4
      <4>1. k \in Nat /\ k >= m + 2
        BY <2>3
      <4> QED
        BY <1>3, <4>1
    <3> HIDE DEF j, n
    <3>2. ~(j - 3 <= Len(r)) /\ ~(j - 2 <= Len(r)) /\ ~(j - 1 <= Len(r)) /\ ~(j <= Len(r))
      BY <3>1
    <3> QED
      BY <3>2 DEF j
  <2>4. k <= m \/ k = m + 1 \/ k > m + 1
    OBVIOUS
  <2> QED
    BY <2>1, <2>2, <2>3, <2>4, Zenon
<1>5. TextOf(r, e, c)
  BY <1>4 DEF TextOf
<1>6. 4 * (m + 1) = 4 * m + 4
  OBVIOUS
<1> QED
  BY <1>3, <1>5, <1>6 DEF r, f, x

(* It stays a text when there are more events.                             *)
LEMMA TextOfMore ==
  ASSUME NEW text \in Seq(Token), NEW e \in Seq(Event), NEW c \in Nat, TextOf(text, e, c), NEW x \in Event
  PROVE  TextOf(text, Append(e, x), c)
<1> DEFINE r == Append(e, x)
<1>1. Len(e) \in Nat /\ Len(r) = Len(e) + 1 /\ (\A i \in 1..Len(e) : r[i] = e[i]) /\ Len(text) \in Nat
  OBVIOUS
<1> HIDE DEF r
<1>2. ASSUME NEW k \in Nat \ {0}
      PROVE  /\ 4 * k - 3 <= Len(text) => c + k <= Len(r) /\ text[4 * k - 3] = <<"event", r[c + k]>>
             /\ 4 * k - 2 <= Len(text) => text[4 * k - 2] = <<"data", r[c + k]>>
             /\ 4 * k - 1 <= Len(text) => text[4 * k - 1] = <<"nl", r[c + k]>>
             /\ 4 * k <= Len(text) => text[4 * k] = <<"nl", r[c + k]>>
  <2>1. /\ 4 * k - 3 <= Len(text) => c + k <= Len(e) /\ text[4 * k - 3] = <<"event", e[c + k]>>
        /\ 4 * k - 2 <= Len(text) => text[4 * k - 2] = <<"data", e[c + k]>>
        /\ 4 * k - 1 <= Len(text) => text[4 * k - 1] = <<"nl", e[c + k]>>
        /\ 4 * k <= Len(text) => text[4 * k] = <<"nl", e[c + k]>>
    BY DEF TextOf
  <2>2. 4 * k - 3 <= Len(text) => c + k <= Len(r) /\ r[c + k] = e[c + k]
    BY <1>1, <2>1
  <2>3. /\ 4 * k <= Len(text) => 4 * k - 1 <= Len(text)
        /\ 4 * k - 1 <= Len(text) => 4 * k - 2 <= Len(text)
        /\ 4 * k - 2 <= Len(text) => 4 * k - 3 <= Len(text)
    BY <1>1
  <2> QED
    BY <2>1, <2>2, <2>3
<1> QED
  BY <1>2 DEF TextOf, r

(* A text has events of e only, and as many as there are.                  *)
LEMMA TextInside ==
  ASSUME NEW text \in Seq(Token), NEW e, NEW c \in Nat, TextOf(text, e, c), c <= Len(e), Len(e) \in Nat,
         NEW q \in Nat, 4 * q <= Len(text)
  PROVE  c + q <= Len(e)
<1>1. CASE q = 0
  BY <1>1
<1>2. CASE q # 0
  <2>1. q \in Nat \ {0} /\ 4 * q - 3 <= Len(text)
    BY <1>2
  <2> QED
    BY <2>1 DEF TextOf
<1> QED
  BY <1>1, <1>2
-----------------------------------------------------------------------------
(* What holds of the events on their way.                                  *)

(* The first c events of e have arrived as a, those with a schema.         *)
ArrivedUpTo(e, c, a) == c \in 0..Len(e) /\ a = KnownUpTo(e, c)

(* The text b \o w of those after them is on its way, b less than an       *)
(* event; up to the n last, which are in the queue, if it is all there.    *)
OnItsWay(e, c, b, w, all, n) ==
  /\ Len(b) < 4 /\ TextOf(b \o w, e, c)
  /\ all => Len(b \o w) = 4 * (Len(e) - n - c)

Delivery ==
  \E c \in Nat :
    /\ ArrivedUpTo(emitted, c, arrived)
    /\ client \in {"fetching", "reading"} =>
         OnItsWay(emitted, c, buffer, wire, link = "up", Len(eventQueue))

(* What is in the queue was put there last.                                *)
TailOf(q, e) ==
  /\ Len(q) <= Len(e)
  /\ \A i \in 1..Len(q) : q[i] = e[Len(e) - Len(q) + i]
QueueIsTail == TailOf(eventQueue, emitted)

(* Before the route has answered there is nothing.                         *)
NotStarted ==
  client = "fetching" => /\ runner = "none" /\ generator = "none" /\ link = "up" /\ emitted = <<>>
                         /\ buffer = <<>> /\ wire = <<>> /\ arrived = <<>>

(* The response adds two events at most, to what the runner may emit.      *)
Bounds ==
  /\ Len(emitted) <= MaxEvents + 2
  /\ generator \in {"none", "loop", "waiting"} => Len(emitted) <= MaxEvents
  /\ generator = "raised" => Len(emitted) <= MaxEvents + 1

(* "done" is emitted when nothing else can be, and before the response     *)
(* ends, unless the connection is lost.                                    *)
DoneIsLast ==
  /\ \A i \in DOMAIN emitted : emitted[i][1] = Done => runner # "running" /\ generator = "closed"
  /\ generator = "raised" => runner # "running" /\ eventQueue = <<>>
  /\ generator # "closed" => link = "up"
  /\ generator = "none" => client = "fetching"
  /\ generator = "closed" /\ link = "up" =>
       /\ runner # "running" /\ eventQueue = <<>>
       /\ emitted # <<>> /\ emitted[Len(emitted)][1] = Done

StreamInv == StreamTypeOK /\ Delivery /\ QueueIsTail /\ NotStarted /\ Bounds /\ DoneIsLast
(* The text of an event is text, and goes to the end of what is under way. *)
LEMMA WriteEvent ==
  ASSUME NEW b \in Seq(Token), NEW w \in Seq(Token), NEW x \in Event
  PROVE  /\ w \o FormatSse(x) \in Seq(Token)
         /\ b \o (w \o FormatSse(x)) = (b \o w) \o FormatSse(x)
         /\ b \o w \in Seq(Token)
<1>1. FormatSse(x) \in Seq(Token)
  <2>1. <<"event", x>> \in Token /\ <<"data", x>> \in Token /\ <<"nl", x>> \in Token
    BY DEF Token
  <2> QED
    BY <2>1 DEF FormatSse
<1> DEFINE f == FormatSse(x)
<1> HIDE DEF f
<1>2. f \in Seq(Token)
  BY <1>1 DEF f
<1>3. w \o f \in Seq(Token) /\ b \o w \in Seq(Token)
  BY <1>2
<1>4. b \o (w \o f) = (b \o w) \o f
  BY <1>2, ConcatAssociative
<1> QED
  BY <1>3, <1>4 DEF f

(* When the first n tokens of w are read, they and b complete q events,    *)
(* and what is left is the text of those after them.                       *)
PieceCompletes(b, w, e, c, n, q) ==
  \E text \in Seq(Token) :
    /\ text = b \o SubSeq(w, 1, n) /\ c + q <= Len(e)
    /\ Len(Frames(text)) = q /\ DOMAIN Frames(text) = 1..q
    /\ \A i \in 1..q : Frames(text)[i] \in Seq(Token) /\ FrameOf(Frames(text)[i], e[c + i])
    /\ Remainder(text) \in Seq(Token) /\ Len(Remainder(text)) < 4
    /\ SubSeq(w, n + 1, Len(w)) \in Seq(Token)
    /\ TextOf(Remainder(text) \o SubSeq(w, n + 1, Len(w)), e, c + q)
    /\ Len(Remainder(text) \o SubSeq(w, n + 1, Len(w))) = Len(b \o w) - 4 * q

(* A piece of text is read.                                                *)
LEMMA PieceRead ==
  ASSUME NEW b \in Seq(Token), NEW w \in Seq(Token), NEW e \in Seq(Event), NEW c \in 0..Len(e),
         TextOf(b \o w, e, c), NEW n \in 1..Len(w)
  PROVE  \E q \in Nat : PieceCompletes(b, w, e, c, n, q)
<1> DEFINE full == b \o w
           u == SubSeq(w, 1, n)
           v == SubSeq(w, n + 1, Len(w))
           text == b \o u
           B == Len(b)
           W == Len(w)
<1>1. B \in Nat /\ W \in Nat /\ Len(e) \in Nat /\ c \in Nat /\ c <= Len(e) /\ n \in Nat /\ 1 <= n /\ n <= W
  OBVIOUS
<1>2. full \in Seq(Token) /\ Len(full) = B + W
      /\ \A j \in 1..(B + W) : full[j] = IF j <= B THEN b[j] ELSE w[j - B]
  BY ConcatProperties
<1>3. u \in Seq(Token) /\ Len(u) = n /\ \A j \in 1..n : u[j] = w[j]
  <2>1. 1 \in Nat \ {0} /\ n <= Len(w) /\ 1 <= n + 1 /\ n - 1 + 1 = n /\ \A j \in 1..n : 1 + j - 1 = j
    BY <1>1
  <2>2. /\ u \in Seq(Token) /\ Len(u) = n - 1 + 1
        /\ \A j \in 1..(n - 1 + 1) : u[j] = w[1 + j - 1]
    BY <1>1, <2>1, PartOfText
  <2> HIDE DEF u
  <2> QED
    BY <2>1, <2>2
<1>4. v \in Seq(Token) /\ Len(v) = W - n /\ \A j \in 1..(W - n) : v[j] = w[n + j]
  <2> DEFINE a == n + 1
  <2>1. /\ a \in Nat \ {0} /\ W <= Len(w) /\ a <= W + 1 /\ W - a + 1 = W - n
        /\ \A j \in 1..(W - n) : a + j - 1 = n + j
    BY <1>1
  <2>2. v = SubSeq(w, a, W)
    OBVIOUS
  <2> HIDE DEF a, v, W
  <2>3. /\ SubSeq(w, a, W) \in Seq(Token) /\ Len(SubSeq(w, a, W)) = W - a + 1
        /\ \A j \in 1..(W - a + 1) : SubSeq(w, a, W)[j] = w[a + j - 1]
    BY <1>1, <2>1, PartOfText
  <2> QED
    BY <2>1, <2>2, <2>3
<1> HIDE DEF full, u, v
<1>5. text \in Seq(Token) /\ Len(text) = B + n
      /\ \A j \in 1..(B + n) : text[j] = IF j <= B THEN b[j] ELSE u[j - B]
  BY <1>3, ConcatProperties
<1> HIDE DEF text, B, W
<1>6. \A j \in 1..(B + n) : text[j] = full[j]
  <2> SUFFICES ASSUME NEW j \in 1..(B + n)
               PROVE  text[j] = full[j]
    OBVIOUS
  <2>1. j \in 1..(B + W)
    BY <1>1
  <2>2. CASE j <= B
    BY <1>2, <1>5, <2>1, <2>2
  <2>3. CASE ~(j <= B)
    <3>1. j - B \in 1..n
      BY <1>1, <2>3
    <3> QED
      BY <1>2, <1>3, <1>5, <2>1, <2>3, <3>1
  <2> QED
    BY <2>2, <2>3
<1>7. TextOf(text, e, c)
  <2>1. TextOf(full, e, c)
    BY DEF full
  <2>2. Len(text) <= Len(full) /\ \A j \in 1..Len(text) : text[j] = full[j]
    <3>1. B + n <= B + W
      BY <1>1
    <3>2. Len(text) <= Len(full)
      BY <1>2, <1>5, <3>1
    <3> QED
      BY <1>5, <1>6, <3>2
  <2> QED
    BY <1>2, <1>5, <2>1, <2>2, TextCut
<1>8. PICK q \in Nat : 4 * q <= Len(text) /\ Len(text) < 4 * q + 4
  <2>1. Len(text) \in Nat
    BY <1>1, <1>5
  <2> QED
    BY <2>1, Fours
<1>9. c + q <= Len(e)
  BY <1>1, <1>5, <1>7, <1>8, TextInside
<1>10. /\ Len(Frames(text)) = q /\ DOMAIN Frames(text) = 1..q
       /\ \A i \in 1..q : Frames(text)[i] \in Seq(Token) /\ FrameOf(Frames(text)[i], e[c + i])
       /\ Remainder(text) = SubSeq(text, 4 * q + 1, Len(text))
  BY <1>1, <1>5, <1>7, <1>8, FramesOfText
<1> DEFINE r == Remainder(text)
           R == Len(text) - 4 * q
<1>11. r \in Seq(Token) /\ Len(r) = R /\ R \in Nat /\ R < 4 /\ \A j \in 1..R : r[j] = text[4 * q + j]
  <2> DEFINE a == 4 * q + 1
             m == Len(text)
  <2>1. /\ a \in Nat \ {0} /\ m \in Nat /\ m <= Len(text) /\ a <= m + 1 /\ m - a + 1 = R
        /\ \A j \in 1..R : a + j - 1 = 4 * q + j
    BY <1>1, <1>5, <1>8
  <2>2. r = SubSeq(text, a, m) /\ R \in Nat /\ R < 4
    BY <1>1, <1>5, <1>8, <1>10
  <2> HIDE DEF a, m, r, R
  <2>3. /\ SubSeq(text, a, m) \in Seq(Token) /\ Len(SubSeq(text, a, m)) = m - a + 1
        /\ \A j \in 1..(m - a + 1) : SubSeq(text, a, m)[j] = text[a + j - 1]
    BY <1>5, <2>1, PartOfText
  <2> QED
    BY <2>1, <2>2, <2>3
<1> HIDE DEF r
<1> DEFINE left == r \o v
<1>12. left \in Seq(Token) /\ Len(left) = R + (W - n)
       /\ \A j \in 1..(R + (W - n)) : left[j] = IF j <= R THEN r[j] ELSE v[j - R]
  <2> HIDE DEF R
  <2>1. left \in Seq(Token) /\ Len(left) = Len(r) + Len(v)
        /\ \A j \in 1..(Len(r) + Len(v)) : left[j] = IF j <= Len(r) THEN r[j] ELSE v[j - Len(r)]
    BY <1>4, <1>11, ConcatProperties
  <2> HIDE DEF left
  <2> QED
    BY <1>4, <1>11, <2>1
<1>13. R = B + n - 4 * q /\ Len(full) = 4 * q + Len(left) /\ Len(left) = Len(full) - 4 * q
  BY <1>1, <1>2, <1>5, <1>12
<1> HIDE DEF left, R
<1>14. \A j \in 1..Len(left) : left[j] = full[4 * q + j]
  <2> SUFFICES ASSUME NEW j \in 1..Len(left)
               PROVE  left[j] = full[4 * q + j]
    OBVIOUS
  <2>1. j \in 1..(R + (W - n)) /\ 4 * q + j \in 1..(B + W)
    <3> DEFINE p == 4 * q
    <3>1. p \in Nat /\ R + p = B + n /\ Len(left) = R + (W - n)
      BY <1>1, <1>12, <1>13
    <3> HIDE DEF p
    <3>2. j \in 1..(R + (W - n))
      BY <3>1
    <3>3. p + j \in 1..(B + W)
      BY <1>1, <1>11, <3>1, <3>2
    <3> QED
      BY <3>2, <3>3 DEF p
  <2>2. CASE j <= R
    <3>1. j \in 1..R /\ 4 * q + j \in 1..(B + n)
      BY <1>1, <1>11, <1>13, <2>2
    <3>2. left[j] = r[j]
      BY <1>12, <2>1, <2>2
    <3> QED
      BY <1>6, <1>11, <3>1, <3>2
  <2>3. CASE ~(j <= R)
    <3>1. j - R \in 1..(W - n) /\ n + (j - R) = 4 * q + j - B /\ ~(4 * q + j <= B)
      BY <1>1, <1>11, <1>13, <2>1, <2>3
    <3>2. left[j] = v[j - R]
      BY <1>12, <2>1, <2>3
    <3>3. v[j - R] = w[4 * q + j - B]
      BY <1>4, <3>1
    <3>4. full[4 * q + j] = w[4 * q + j - B]
      <4> DEFINE i == 4 * q + j
      <4>1. i \in 1..(B + W) /\ ~(i <= B)
        BY <2>1, <3>1
      <4>2. i - B = 4 * q + j - B
        BY <1>1
      <4> HIDE DEF i
      <4>3. full[i] = w[i - B]
        BY <1>2, <4>1
      <4> QED
        BY <4>2, <4>3 DEF i
    <3> QED
      BY <3>2, <3>3, <3>4
  <2> QED
    BY <2>2, <2>3
<1>15. TextOf(left, e, c + q)
  <2>1. TextOf(full, e, c)
    BY DEF full
  <2> QED
    BY <1>1, <1>2, <1>12, <1>13, <1>14, <2>1, TextLeft
<1>16. text = b \o SubSeq(w, 1, n) /\ v = SubSeq(w, n + 1, Len(w)) /\ left = Remainder(text) \o v
       /\ full = b \o w
  BY DEF text, u, v, left, r, full, W
<1>17. PieceCompletes(b, w, e, c, n, q)
  BY <1>4, <1>5, <1>9, <1>10, <1>11, <1>13, <1>15, <1>16 DEF PieceCompletes, r
<1> QED
  BY <1>17
(* A new event is one, if there are not too many.                          *)
LEMMA NewEventIsEvent ==
  ASSUME StreamTypeOK, Len(emitted) <= MaxEvents + 1, NEW name \in Names
  PROVE  NewEvent(name) \in Event /\ NewEvent(name)[1] = name
<1>1. Len(emitted) \in Nat /\ MaxEvents \in Nat
  BY EventStreamAssumption DEF StreamTypeOK
<1>2. Len(emitted) + 1 \in 1..(MaxEvents + 2)
  BY <1>1
<1> QED
  BY <1>2 DEF NewEvent, Event

(* With another event as many have arrived as before.                      *)
LEMMA EmittedMore ==
  ASSUME NEW e \in Seq(Event), NEW x \in Event
  PROVE  /\ Append(e, x) \in Seq(Event) /\ Len(Append(e, x)) = Len(e) + 1 /\ Append(e, x)[Len(e) + 1] = x
         /\ \A i \in 1..Len(e) : Append(e, x)[i] = e[i]
         /\ \A c \in Nat : \A a : ArrivedUpTo(e, c, a) => ArrivedUpTo(Append(e, x), c, a)
<1> DEFINE r == Append(e, x)
<1>1. r \in Seq(Event) /\ Len(r) = Len(e) + 1 /\ r[Len(e) + 1] = x /\ Len(e) \in Nat
      /\ \A i \in 1..Len(e) : r[i] = e[i]
  OBVIOUS
<1>2. \A c \in 0..Len(e) : KnownUpTo(r, c) = KnownUpTo(e, c)
  BY UpToSteps DEF KnownUpTo
<1> HIDE DEF r
<1>3. ASSUME NEW c \in Nat, NEW a, ArrivedUpTo(e, c, a)
      PROVE  ArrivedUpTo(r, c, a)
  BY <1>1, <1>2, <1>3 DEF ArrivedUpTo
<1> QED
  BY <1>1, <1>3 DEF r

(* The types, by the variables.                                            *)
LEMMA StreamTypes ==
  ASSUME StreamTypeOK
  PROVE  /\ eventQueue \in Seq(Event) /\ emitted \in Seq(Event) /\ arrived \in Seq(Event)
         /\ wire \in Seq(Token) /\ buffer \in Seq(Token)
         /\ Len(eventQueue) \in Nat /\ Len(emitted) \in Nat /\ Len(wire) \in Nat /\ Len(buffer) \in Nat
         /\ MaxEvents \in Nat
BY EventStreamAssumption DEF StreamTypeOK

(* The invariant holds at first.                                           *)
LEMMA StreamInvInit == StreamInit => StreamInv
<1> SUFFICES ASSUME StreamInit
             PROVE  StreamInv
  OBVIOUS
<1>1. StreamTypeOK
  BY DEF StreamInit, StreamTypeOK
<1>2. Delivery
  <2>1. <<>> \in Seq(Event) /\ Len(<<>>) = 0 /\ 0 \in 0..0 /\ <<>> \in Seq(Token) /\ <<>> \o <<>> = <<>>
    OBVIOUS
  <2>2. ArrivedUpTo(<<>>, 0, <<>>)
    BY <2>1, KnownUpToNext DEF ArrivedUpTo
  <2>3. TextOf(<<>>, <<>>, 0)
    <3>1. \A k \in Nat \ {0} : /\ ~(4 * k - 3 <= 0) /\ ~(4 * k - 2 <= 0)
                               /\ ~(4 * k - 1 <= 0) /\ ~(4 * k <= 0)
      OBVIOUS
    <3> QED
      BY <2>1, <3>1, Zenon DEF TextOf
  <2>4. OnItsWay(<<>>, 0, <<>>, <<>>, link = "up", 0)
    BY <2>1, <2>3 DEF OnItsWay
  <2> QED
    BY <2>1, <2>2, <2>4 DEF StreamInit, Delivery
<1>3. QueueIsTail /\ NotStarted /\ DoneIsLast
  BY DEF StreamInit, QueueIsTail, TailOf, NotStarted, DoneIsLast
<1>4. Bounds
  BY EventStreamAssumption DEF StreamInit, Bounds
<1> QED
  BY <1>1, <1>2, <1>3, <1>4 DEF StreamInv

(* The request is answered, or fails.                                      *)
LEMMA RequestSteps ==
  ASSUME StreamInv, BuildStreamingResponse \/ RequestFails
  PROVE  StreamInv'
<1>1. client = "fetching" /\ UNCHANGED <<eventQueue, emitted, buffer, arrived, wire>>
  BY DEF BuildStreamingResponse, RequestFails
<1>2. runner = "none" /\ emitted = <<>> /\ link = "up" /\ wire = <<>> /\ buffer = <<>>
  BY <1>1 DEF StreamInv, NotStarted
<1>3. eventQueue = <<>>
  BY <1>2, StreamTypes DEF StreamInv, QueueIsTail, TailOf
<1>4. StreamTypeOK'
  BY <1>1 DEF BuildStreamingResponse, RequestFails, StreamInv, StreamTypeOK
<1>5. QueueIsTail'
  BY <1>1 DEF StreamInv, QueueIsTail
<1>6. PICK c \in Nat : ArrivedUpTo(emitted, c, arrived)
                       /\ OnItsWay(emitted, c, buffer, wire, link = "up", Len(eventQueue))
  BY <1>1 DEF StreamInv, Delivery
<1>7. CASE BuildStreamingResponse
  <2>1. link' = link /\ client' = "reading" /\ runner' = "running" /\ generator' = "loop"
    BY <1>7 DEF BuildStreamingResponse
  <2>2. Delivery'
    BY <1>1, <1>6, <2>1 DEF Delivery
  <2>3. NotStarted' /\ DoneIsLast'
    BY <1>1, <1>2, <2>1 DEF NotStarted, DoneIsLast
  <2>4. Bounds'
    BY <1>1, <1>2, <2>1, EventStreamAssumption DEF Bounds
  <2> QED
    BY <1>4, <1>5, <2>2, <2>3, <2>4 DEF StreamInv
<1>8. CASE RequestFails
  <2>1. link' = "broken" /\ client' = "rejected" /\ generator' = "closed"
    BY <1>8 DEF RequestFails
  <2>2. Delivery'
    BY <1>1, <1>6, <2>1 DEF Delivery
  <2>3. NotStarted' /\ DoneIsLast'
    BY <1>1, <1>2, <2>1 DEF NotStarted, DoneIsLast
  <2>4. Bounds'
    BY <1>1, <1>2, <2>1, EventStreamAssumption DEF Bounds
  <2> QED
    BY <1>4, <1>5, <2>2, <2>3, <2>4 DEF StreamInv
<1> QED
  BY <1>7, <1>8

(* The runner puts an event into the queue.                                *)
LEMMA PutStep ==
  ASSUME StreamInv, PutEvent
  PROVE  StreamInv'
<1>1. PICK name \in Names \ {Done} : /\ eventQueue' = Append(eventQueue, NewEvent(name))
                                     /\ emitted' = Append(emitted, NewEvent(name))
  BY DEF PutEvent
<1>2. /\ runner = "running" /\ Len(emitted) < MaxEvents
      /\ UNCHANGED <<runner, generator, client, buffer, arrived, wire, link>>
  BY DEF PutEvent, clientVars
<1> DEFINE x == NewEvent(name)
           e == emitted
           q == eventQueue
<1>3. e \in Seq(Event) /\ q \in Seq(Event) /\ Len(e) \in Nat /\ Len(q) \in Nat /\ MaxEvents \in Nat
      /\ buffer \in Seq(Token) /\ wire \in Seq(Token)
  BY StreamTypes DEF StreamInv
<1>4. x \in Event /\ x[1] = name
  <2>1. Len(emitted) <= MaxEvents + 1
    BY <1>2, <1>3
  <2> QED
    BY <2>1, NewEventIsEvent DEF StreamInv
<1> HIDE DEF x
<1>5. emitted' = Append(e, x) /\ eventQueue' = Append(q, x)
  BY <1>1 DEF x
<1>6. /\ emitted' \in Seq(Event) /\ Len(emitted') = Len(e) + 1 /\ emitted'[Len(e) + 1] = x
      /\ \A i \in 1..Len(e) : emitted'[i] = e[i]
      /\ \A c \in Nat : \A a : ArrivedUpTo(e, c, a) => ArrivedUpTo(emitted', c, a)
  BY <1>3, <1>4, <1>5, EmittedMore
<1>7. /\ eventQueue' \in Seq(Event) /\ Len(eventQueue') = Len(q) + 1 /\ eventQueue'[Len(q) + 1] = x
      /\ \A i \in 1..Len(q) : eventQueue'[i] = q[i]
  BY <1>3, <1>4, <1>5
<1>8. StreamTypeOK'
  BY <1>2, <1>6, <1>7 DEF StreamInv, StreamTypeOK
<1>9. Delivery'
  <2>1. PICK c \in Nat : /\ ArrivedUpTo(e, c, arrived)
                         /\ client \in {"fetching", "reading"} =>
                              OnItsWay(e, c, buffer, wire, link = "up", Len(q))
    BY DEF StreamInv, Delivery
  <2>2. ArrivedUpTo(emitted', c, arrived')
    BY <1>2, <1>6, <2>1
  <2>3. ASSUME client \in {"fetching", "reading"}
        PROVE  OnItsWay(emitted', c, buffer, wire, link = "up", Len(q) + 1)
    <3>1. Len(buffer) < 4 /\ TextOf(buffer \o wire, e, c)
          /\ (link = "up" => Len(buffer \o wire) = 4 * (Len(e) - Len(q) - c))
      BY <2>1, <2>3 DEF OnItsWay
    <3>2. buffer \o wire \in Seq(Token)
      BY <1>3
    <3>3. TextOf(buffer \o wire, emitted', c)
      BY <1>3, <1>4, <1>5, <3>1, <3>2, TextOfMore
    <3>4. Len(emitted') - (Len(q) + 1) - c = Len(e) - Len(q) - c
      BY <1>3, <1>6
    <3> QED
      BY <3>1, <3>3, <3>4 DEF OnItsWay
  <2> QED
    BY <1>2, <1>7, <2>2, <2>3 DEF Delivery
<1>10. QueueIsTail'
  <2>1. Len(q) <= Len(e) /\ \A i \in 1..Len(q) : q[i] = e[Len(e) - Len(q) + i]
    BY DEF StreamInv, QueueIsTail, TailOf
  <2>2. Len(eventQueue') <= Len(emitted') /\ Len(emitted') - Len(eventQueue') = Len(e) - Len(q)
    BY <1>3, <1>6, <1>7, <2>1
  <2>3. ASSUME NEW i \in 1..Len(eventQueue')
        PROVE  eventQueue'[i] = emitted'[Len(emitted') - Len(eventQueue') + i]
    <3>1. CASE i = Len(q) + 1
      <4> DEFINE m == Len(e)
                 n == Len(q)
      <4>1. m \in Nat /\ n \in Nat /\ Len(emitted') - Len(eventQueue') = m - n
        BY <1>3, <2>2
      <4>2. i = n + 1
        BY <3>1
      <4> HIDE DEF m, n
      <4>3. m - n + i = m + 1
        BY <4>1, <4>2
      <4>4. Len(emitted') - Len(eventQueue') + i = m + 1
        BY <4>1, <4>3
      <4>5. emitted'[m + 1] = x
        BY <1>6 DEF m
      <4> QED
        BY <1>7, <3>1, <4>4, <4>5
    <3>2. CASE i # Len(q) + 1
      <4>1. i \in 1..Len(q) /\ Len(e) - Len(q) + i \in 1..Len(e)
        BY <1>3, <1>7, <2>1, <3>2
      <4> QED
        BY <1>6, <1>7, <2>1, <2>2, <4>1
    <3> QED
      BY <3>1, <3>2
  <2> QED
    BY <2>2, <2>3 DEF QueueIsTail, TailOf
<1>11. NotStarted'
  BY <1>2 DEF StreamInv, NotStarted
<1>12. Bounds'
  BY <1>2, <1>3, <1>6 DEF StreamInv, Bounds
<1>13. DoneIsLast'
  <2>1. /\ \A i \in DOMAIN e : e[i][1] # Done
        /\ generator # "raised" /\ (generator # "closed" => link = "up")
        /\ (generator = "none" => client = "fetching") /\ ~(generator = "closed" /\ link = "up")
    BY <1>2 DEF StreamInv, DoneIsLast
  <2>2. DOMAIN emitted' = 1..(Len(e) + 1) /\ DOMAIN e = 1..Len(e)
    BY <1>3, <1>6
  <2>3. ASSUME NEW i \in DOMAIN emitted'
        PROVE  emitted'[i][1] # Done
    <3>1. i = Len(e) + 1 \/ i \in 1..Len(e)
      BY <1>3, <2>2
    <3>2. x[1] # Done
      BY <1>4
    <3>3. CASE i = Len(e) + 1
      BY <1>6, <3>2, <3>3
    <3>4. CASE i \in 1..Len(e)
      <4>1. e[i][1] # Done
        BY <2>1, <2>2, <3>4
      <4> QED
        BY <1>6, <3>4, <4>1
    <3> QED
      BY <3>1, <3>3, <3>4
  <2> QED
    BY <1>2, <2>1, <2>3 DEF DoneIsLast
<1> QED
  BY <1>8, <1>9, <1>10, <1>11, <1>12, <1>13 DEF StreamInv

(* The runner ends, and the response waits, or has waited long enough.     *)
LEMMA QuietSteps ==
  ASSUME StreamInv, RunnerEnds \/ GetTimesOut \/ (Round /\ ~Exhausted)
  PROVE  StreamInv' /\ UNCHANGED <<emitted, arrived, client, link>>
<1>1. UNCHANGED <<eventQueue, emitted, client, buffer, arrived, wire, link>>
  BY DEF RunnerEnds, GetTimesOut, Round, clientVars
<1>2. \/ runner = "running" /\ runner' \in {"succeeded", "failed"} /\ generator' = generator
      \/ generator \in {"loop", "waiting"} /\ generator' \in {"loop", "waiting"} /\ runner' = runner
  BY DEF RunnerEnds, GetTimesOut, Round
<1>3. StreamTypeOK'
  BY <1>1, <1>2 DEF StreamInv, StreamTypeOK
<1>4. Delivery'
  BY <1>1, Zenon DEF StreamInv, Delivery
<1>5. QueueIsTail'
  BY <1>1 DEF StreamInv, QueueIsTail
<1>6. NotStarted' /\ Bounds' /\ DoneIsLast'
  <2>1. NotStarted /\ Bounds /\ DoneIsLast
    BY DEF StreamInv
  <2>2. NotStarted'
    BY <1>1, <1>2, <2>1 DEF NotStarted
  <2>3. Bounds'
    BY <1>1, <1>2, <2>1 DEF Bounds
  <2>4. DoneIsLast'
    BY <1>1, <1>2, <2>1 DEF DoneIsLast
  <2> QED
    BY <2>2, <2>3, <2>4
<1> QED
  BY <1>1, <1>3, <1>4, <1>5, <1>6 DEF StreamInv

(* An event of the response itself is the last of what is under way.       *)
LEMMA OwnEvent ==
  ASSUME StreamInv, NEW name \in Names, generator \in {"loop", "raised"}, Exhausted, YieldOwn(name),
         IF name = Done THEN generator' = "closed" ELSE generator = "loop" /\ generator' = "raised",
         UNCHANGED <<runner, eventQueue, client, buffer, arrived, link>>
  PROVE  /\ StreamInv' /\ Len(emitted) <= MaxEvents + 1
         /\ \A i \in DOMAIN emitted : emitted[i][1] # Done
<1> DEFINE x == NewEvent(name)
           e == emitted
<1>1. /\ e \in Seq(Event) /\ Len(e) \in Nat /\ MaxEvents \in Nat
      /\ buffer \in Seq(Token) /\ wire \in Seq(Token)
  BY StreamTypes DEF StreamInv
<1>2. Len(e) <= MaxEvents + 1 /\ (generator = "loop" => Len(e) <= MaxEvents)
  BY <1>1 DEF StreamInv, Bounds
<1>3. x \in Event /\ x[1] = name
  BY <1>2, NewEventIsEvent DEF StreamInv
<1> HIDE DEF x
<1>4. emitted' = Append(e, x) /\ wire' = wire \o FormatSse(x)
  BY DEF YieldOwn, Yield, x
<1>5. /\ emitted' \in Seq(Event) /\ Len(emitted') = Len(e) + 1 /\ emitted'[Len(e) + 1] = x
      /\ \A i \in 1..Len(e) : emitted'[i] = e[i]
      /\ \A c \in Nat : \A a : ArrivedUpTo(e, c, a) => ArrivedUpTo(emitted', c, a)
  BY <1>1, <1>3, <1>4, EmittedMore
<1>6. /\ wire' \in Seq(Token) /\ buffer \o wire \in Seq(Token)
      /\ buffer \o wire' = (buffer \o wire) \o FormatSse(x)
  BY <1>1, <1>3, <1>4, WriteEvent
<1>7. /\ client # "fetching" /\ link = "up" /\ eventQueue = <<>> /\ runner # "running"
      /\ \A i \in DOMAIN e : e[i][1] # Done
  BY DEF StreamInv, NotStarted, DoneIsLast, Exhausted
<1>8. StreamTypeOK'
  BY <1>5, <1>6 DEF StreamInv, StreamTypeOK
<1>9. Delivery'
  <2>1. PICK c \in Nat : /\ ArrivedUpTo(e, c, arrived)
                         /\ client \in {"fetching", "reading"} =>
                              OnItsWay(e, c, buffer, wire, link = "up", Len(eventQueue))
    BY DEF StreamInv, Delivery
  <2>2. ArrivedUpTo(emitted', c, arrived')
    BY <1>5, <2>1
  <2>3. ASSUME client = "reading"
        PROVE  OnItsWay(emitted', c, buffer, wire', TRUE, 0)
    <3> DEFINE text == buffer \o wire
               m == Len(e) - c
    <3>1. Len(buffer) < 4 /\ TextOf(text, e, c) /\ Len(text) = 4 * (Len(e) - 0 - c)
      BY <1>7, <2>1, <2>3 DEF OnItsWay
    <3>2. m \in Nat /\ c + m = Len(e) /\ c + m + 1 <= Len(emitted') /\ Len(e) - 0 - c = m
      BY <1>1, <1>5, <2>1 DEF ArrivedUpTo
    <3>3. TextOf(text, emitted', c)
      BY <1>1, <1>3, <1>4, <1>6, <3>1, TextOfMore
    <3>4. emitted'[c + m + 1] = x
      BY <1>5, <3>2
    <3> HIDE DEF text
    <3>5. Len(text) = 4 * m /\ text \in Seq(Token)
      BY <1>6, <3>1, <3>2 DEF text
    <3> HIDE DEF m
    <3> DEFINE r == Append(e, x)
    <3>6. r \in Seq(Event) /\ c + m + 1 <= Len(r) /\ TextOf(text, r, c) /\ r[c + m + 1] = x
      BY <1>4, <1>5, <3>2, <3>3, <3>4
    <3> HIDE DEF r
    <3>7. Len(text \o FormatSse(x)) = 4 * (m + 1) /\ TextOf(text \o FormatSse(x), r, c)
      BY <3>2, <3>5, <3>6, TextWritten
    <3>8. Len(emitted') - 0 - c = m + 1
      BY <1>1, <1>5, <3>2
    <3> QED
      BY <1>4, <1>6, <3>1, <3>7, <3>8 DEF OnItsWay, text, r
  <2>4. client' = client /\ buffer' = buffer /\ arrived' = arrived /\ (link' = "up") = TRUE
        /\ Len(eventQueue') = 0
    BY <1>7
  <2>5. client' \in {"fetching", "reading"} =>
          OnItsWay(emitted', c, buffer', wire', link' = "up", Len(eventQueue'))
    BY <1>7, <2>3, <2>4
  <2> QED
    BY <2>2, <2>4, <2>5 DEF Delivery
<1>10. QueueIsTail'
  BY <1>1, <1>5, <1>7 DEF QueueIsTail, TailOf
<1>11. NotStarted'
  BY <1>7 DEF NotStarted
<1>12. Bounds'
  BY <1>1, <1>2, <1>5 DEF Bounds
<1>13. DoneIsLast'
  <2>1. DOMAIN emitted' = 1..(Len(e) + 1) /\ DOMAIN e = 1..Len(e)
    BY <1>1, <1>5
  <2>2. ASSUME NEW i \in DOMAIN emitted', emitted'[i][1] = Done
        PROVE  generator' = "closed"
    <3>1. i = Len(e) + 1 \/ i \in 1..Len(e)
      BY <1>1, <2>1
    <3>2. i \notin 1..Len(e)
      BY <1>5, <1>7, <2>1, <2>2
    <3> QED
      BY <1>3, <1>5, <2>2, <3>1, <3>2
  <2>3. generator' = "closed" => name = Done
    OBVIOUS
  <2>4. generator' = "closed" => emitted' # <<>> /\ emitted'[Len(emitted')][1] = Done
    BY <1>1, <1>3, <1>5, <2>3
  <2>5. generator' \in {"closed", "raised"}
    OBVIOUS
  <2> QED
    BY <1>7, <2>2, <2>4, <2>5 DEF DoneIsLast
<1> QED
  BY <1>2, <1>7, <1>8, <1>9, <1>10, <1>11, <1>12, <1>13 DEF StreamInv

(* The response takes an event out of the queue.                           *)
LEMMA GetStep ==
  ASSUME StreamInv, GetEvent
  PROVE  StreamInv' /\ UNCHANGED <<emitted, arrived, client, link>>
<1> DEFINE e == emitted
           q == eventQueue
           E == Len(e)
           Q == Len(q)
<1>1. /\ e \in Seq(Event) /\ q \in Seq(Event) /\ E \in Nat /\ Q \in Nat
      /\ buffer \in Seq(Token) /\ wire \in Seq(Token)
  BY StreamTypes DEF StreamInv
<1>2. /\ generator = "waiting" /\ generator' = "loop" /\ q # <<>> /\ eventQueue' = Tail(q)
      /\ wire' = wire \o FormatSse(Head(q))
      /\ UNCHANGED <<runner, emitted, client, buffer, arrived, link>>
  BY DEF GetEvent, Yield, clientVars
<1>3. /\ 1 <= Q /\ Head(q) = q[1] /\ eventQueue' \in Seq(Event) /\ Len(eventQueue') = Q - 1
      /\ \A i \in 1..(Q - 1) : eventQueue'[i] = q[i + 1]
  BY <1>1, <1>2
<1>4. client # "fetching" /\ link = "up" /\ Q <= E /\ \A i \in 1..Q : q[i] = e[E - Q + i]
  BY <1>2 DEF StreamInv, NotStarted, DoneIsLast, QueueIsTail, TailOf
<1> HIDE DEF E, Q
<1> DEFINE x == e[E - Q + 1]
<1>5. Head(q) = x /\ x \in Event
  <2>1. 1 \in 1..Q /\ E - Q + 1 \in 1..E
    BY <1>1, <1>3, <1>4
  <2> QED
    BY <1>1, <1>3, <1>4, <2>1 DEF E
<1> HIDE DEF x
<1>6. /\ wire' \in Seq(Token) /\ buffer \o wire \in Seq(Token)
      /\ buffer \o wire' = (buffer \o wire) \o FormatSse(x)
  BY <1>1, <1>2, <1>5, WriteEvent
<1>7. StreamTypeOK'
  BY <1>2, <1>3, <1>6 DEF StreamInv, StreamTypeOK
<1>8. Delivery'
  <2>1. PICK c \in Nat : /\ ArrivedUpTo(e, c, arrived)
                         /\ client \in {"fetching", "reading"} =>
                              OnItsWay(e, c, buffer, wire, link = "up", Q)
    BY DEF StreamInv, Delivery, Q
  <2>2. ASSUME client = "reading"
        PROVE  OnItsWay(e, c, buffer, wire', TRUE, Q - 1)
    <3> DEFINE text == buffer \o wire
               m == E - Q - c
    <3>1. Len(buffer) < 4 /\ TextOf(text, e, c) /\ Len(text) = 4 * m
      BY <1>4, <2>1, <2>2 DEF OnItsWay, E
    <3>2. text \in Seq(Token) /\ Len(text) \in Nat
      BY <1>6
    <3> HIDE DEF text
    <3>3. m \in Nat /\ c + m + 1 = E - Q + 1 /\ c + m + 1 <= E /\ E - (Q - 1) - c = m + 1
      BY <1>1, <1>3, <1>4, <3>1, <3>2
    <3> HIDE DEF m
    <3>4. x = e[c + m + 1] /\ c + m + 1 <= Len(e)
      BY <3>3 DEF x, E
    <3>5. Len(text \o FormatSse(x)) = 4 * (m + 1) /\ TextOf(text \o FormatSse(x), e, c)
      BY <1>1, <3>1, <3>2, <3>3, <3>4, TextWritten
    <3> QED
      BY <1>6, <3>1, <3>3, <3>5 DEF OnItsWay, text, E
  <2>3. client' \in {"fetching", "reading"} =>
          OnItsWay(emitted', c, buffer', wire', link' = "up", Len(eventQueue'))
    BY <1>2, <1>3, <1>4, <2>2
  <2> QED
    BY <1>2, <2>1, <2>3 DEF Delivery
<1>9. QueueIsTail'
  <2>1. ASSUME NEW i \in 1..(Q - 1)
        PROVE  eventQueue'[i] = e[E - (Q - 1) + i]
    <3>1. i + 1 \in 1..Q /\ E - Q + (i + 1) = E - (Q - 1) + i
      BY <1>1, <1>3
    <3> QED
      BY <1>3, <1>4, <2>1, <3>1
  <2>2. Q - 1 <= E
    BY <1>1, <1>4
  <2> QED
    BY <1>2, <1>3, <2>1, <2>2 DEF QueueIsTail, TailOf, E
<1>10. NotStarted'
  BY <1>2, <1>4 DEF NotStarted
<1>11. Bounds'
  BY <1>2 DEF StreamInv, Bounds
<1>12. DoneIsLast'
  BY <1>2, <1>4 DEF StreamInv, DoneIsLast
<1> QED
  BY <1>2, <1>7, <1>8, <1>9, <1>10, <1>11, <1>12 DEF StreamInv

(* Lost with the connection is only the end of the text.                   *)
LEMMA LoseStep ==
  ASSUME StreamInv, LoseConnection
  PROVE  /\ StreamInv' /\ UNCHANGED <<emitted, arrived, client>>
         /\ client = "reading" /\ link = "up" /\ link' # "up"
<1>1. /\ client = "reading" /\ link = "up" /\ link' \in {"cut", "broken"} /\ generator' = "closed"
      /\ UNCHANGED <<runner, eventQueue, emitted, client, buffer, arrived>>
  BY DEF LoseConnection, clientVars
<1>2. PICK n \in 0..Len(wire) : wire' = SubSeq(wire, 1, n)
  BY DEF LoseConnection
<1>3. emitted \in Seq(Event) /\ buffer \in Seq(Token) /\ wire \in Seq(Token) /\ Len(wire) \in Nat
  BY StreamTypes DEF StreamInv
<1>4. wire' \in Seq(Token) /\ Len(wire') = n /\ \A j \in 1..n : wire'[j] = wire[j]
  <2>1. 1 \in Nat \ {0} /\ n \in Nat /\ n <= Len(wire) /\ 1 <= n + 1 /\ n - 1 + 1 = n
        /\ \A j \in 1..n : 1 + j - 1 = j
    BY <1>3
  <2>2. /\ SubSeq(wire, 1, n) \in Seq(Token) /\ Len(SubSeq(wire, 1, n)) = n - 1 + 1
        /\ \A j \in 1..(n - 1 + 1) : SubSeq(wire, 1, n)[j] = wire[1 + j - 1]
    BY <1>3, <2>1, PartOfText
  <2> QED
    BY <1>2, <2>1, <2>2
<1>5. StreamTypeOK'
  BY <1>1, <1>4 DEF StreamInv, StreamTypeOK
<1>6. Delivery'
  <2>1. PICK c \in Nat : /\ ArrivedUpTo(emitted, c, arrived)
                         /\ OnItsWay(emitted, c, buffer, wire, link = "up", Len(eventQueue))
    BY <1>1 DEF StreamInv, Delivery
  <2> DEFINE full == buffer \o wire
             text == buffer \o wire'
             B == Len(buffer)
             W == Len(wire)
  <2>2. Len(buffer) < 4 /\ TextOf(full, emitted, c)
    BY <2>1 DEF OnItsWay
  <2>3. /\ full \in Seq(Token) /\ Len(full) = B + W
        /\ \A j \in 1..(B + W) : full[j] = IF j <= B THEN buffer[j] ELSE wire[j - B]
    BY <1>3, ConcatProperties
  <2>4. /\ text \in Seq(Token) /\ Len(text) = B + n
        /\ \A j \in 1..(B + n) : text[j] = IF j <= B THEN buffer[j] ELSE wire'[j - B]
    BY <1>3, <1>4, ConcatProperties
  <2>5. B \in Nat /\ W \in Nat /\ n \in Nat /\ n <= W
    BY <1>3
  <2> HIDE DEF full, text, B, W
  <2>6. Len(text) <= Len(full)
    BY <2>3, <2>4, <2>5
  <2>7. ASSUME NEW j \in 1..Len(text)
        PROVE  text[j] = full[j]
    <3>1. j \in 1..(B + n) /\ j \in 1..(B + W)
      BY <2>4, <2>5
    <3>2. CASE j <= B
      BY <2>3, <2>4, <3>1, <3>2
    <3>3. CASE ~(j <= B)
      <4>1. j - B \in 1..n
        BY <2>5, <3>1, <3>3
      <4> QED
        BY <1>4, <2>3, <2>4, <3>1, <3>3, <4>1
    <3> QED
      BY <3>2, <3>3
  <2>8. TextOf(text, emitted, c)
    BY <2>2, <2>3, <2>4, <2>6, <2>7, TextCut
  <2>9. OnItsWay(emitted, c, buffer, wire', FALSE, Len(eventQueue))
    BY <2>2, <2>8 DEF OnItsWay, text
  <2>10. (link' = "up") = FALSE
    BY <1>1
  <2> QED
    BY <1>1, <2>1, <2>9, <2>10 DEF Delivery
<1>7. QueueIsTail'
  BY <1>1 DEF StreamInv, QueueIsTail
<1>8. NotStarted' /\ DoneIsLast'
  BY <1>1 DEF StreamInv, NotStarted, DoneIsLast
<1>9. Bounds'
  BY <1>1 DEF StreamInv, Bounds
<1> QED
  BY <1>1, <1>5, <1>6, <1>7, <1>8, <1>9 DEF StreamInv

(* The frames of events are handled one by one, and none throws.           *)
LEMMA FramesHeard ==
  ASSUME NEW e \in Seq(Event), NEW c \in Nat, NEW q \in Nat, c + q <= Len(e),
         NEW frames, Len(frames) = q, DOMAIN frames = 1..q,
         \A i \in 1..q : /\ ~Throws(frames[i])
                         /\ ParseSseFrame(frames[i]) =
                              IF e[c + i][1] \in EventSchemaMap THEN <<e[c + i]>> ELSE <<>>,
         arrived = KnownUpTo(e, c), NEW next, HandleFrames(frames, next)
  PROVE  arrived' = KnownUpTo(e, c + q) /\ client' = next
<1> DEFINE T == {frames[i] : i \in 1..q}
           good == SubSeq(frames, 1, q)
<1>1. {i \in DOMAIN frames : Throws(frames[i])} = {}
  OBVIOUS
<1>2. arrived' = OnEvents(arrived, good) /\ client' = next
  BY <1>1 DEF HandleFrames
<1>3. good = [i \in 1..q |-> frames[i]]
  BY DEF SubSeq
<1> HIDE DEF good
<1>4. \A i \in 1..q : frames[i] \in T
  OBVIOUS
<1> HIDE DEF T
<1>5. good \in [1..q -> T]
  BY <1>3, <1>4
<1>6. Len(good) = q /\ DOMAIN good = 1..q /\ \A k \in 1..q : good[k] = frames[k]
  BY <1>3, <1>5, LenProperties
<1>7. \A k \in 1..q : ParseSseFrame(good[k]) =
                        IF e[c + k][1] \in EventSchemaMap THEN <<e[c + k]>> ELSE <<>>
  BY <1>6
<1>8. OnEvents(KnownUpTo(e, c), good) = KnownUpTo(e, c + q)
  BY <1>6, <1>7, EventsHeard
<1> QED
  BY <1>2, <1>8

(* What a reading of the page does: more of the events arrive, in order;   *)
(* while the connection is up the page does not reject what it reads, and  *)
(* it resolves when everything has arrived and the response has ended.     *)
ReadsOn ==
  /\ \E c \in 0..Len(emitted) : \E d \in c..Len(emitted) :
       arrived = KnownUpTo(emitted, c) /\ arrived' = KnownUpTo(emitted, d)
  /\ link = "up" => \/ client' = "reading"
                    \/ /\ client' = "resolved" /\ generator = "closed"
                       /\ arrived' = arrived /\ arrived = Known(emitted)

(* The conjuncts about the response are not touched by a reading.          *)
LEMMA ResponseKept ==
  ASSUME StreamInv, client = "reading", UNCHANGED <<responseVars, link>>,
         client' \in {"reading", "resolved", "rejected"}
  PROVE  QueueIsTail' /\ NotStarted' /\ Bounds' /\ DoneIsLast'
<1>1. UNCHANGED <<runner, eventQueue, generator, emitted, link>>
  BY DEF responseVars
<1>2. QueueIsTail /\ Bounds /\ DoneIsLast
  BY DEF StreamInv
<1>3. QueueIsTail' /\ Bounds'
  BY <1>1, <1>2 DEF QueueIsTail, Bounds
<1>4. NotStarted' /\ DoneIsLast'
  BY <1>1, <1>2 DEF NotStarted, DoneIsLast
<1> QED
  BY <1>3, <1>4

(* A piece of the text is read.                                            *)
LEMMA ChunkStep ==
  ASSUME StreamInv, ReadChunk
  PROVE  StreamInv' /\ ReadsOn
<1> DEFINE e == emitted
           Q == Len(eventQueue)
<1>1. PICK n \in 1..Len(wire) :
        /\ HandleFrames(Frames(buffer \o SubSeq(wire, 1, n)), "reading")
        /\ buffer' = Remainder(buffer \o SubSeq(wire, 1, n))
        /\ wire' = SubSeq(wire, n + 1, Len(wire))
  BY DEF ReadChunk
<1>2. client = "reading" /\ UNCHANGED <<responseVars, link>>
      /\ UNCHANGED <<runner, eventQueue, generator, emitted, link>>
  BY DEF ReadChunk, responseVars
<1>3. /\ e \in Seq(Event) /\ Len(e) \in Nat /\ Q \in Nat
      /\ buffer \in Seq(Token) /\ wire \in Seq(Token)
  BY StreamTypes DEF StreamInv
<1>4. PICK c \in Nat : ArrivedUpTo(e, c, arrived) /\ OnItsWay(e, c, buffer, wire, link = "up", Q)
  BY <1>2 DEF StreamInv, Delivery
<1>5. /\ c \in 0..Len(e) /\ arrived = KnownUpTo(e, c) /\ TextOf(buffer \o wire, e, c)
      /\ (link = "up" => Len(buffer \o wire) = 4 * (Len(e) - Q - c))
  BY <1>4 DEF ArrivedUpTo, OnItsWay
<1>6. PICK q \in Nat : PieceCompletes(buffer, wire, e, c, n, q)
  BY <1>3, <1>5, PieceRead
<1> DEFINE frames == Frames(buffer \o SubSeq(wire, 1, n))
<1>7. /\ c + q <= Len(e) /\ Len(frames) = q /\ DOMAIN frames = 1..q
      /\ \A i \in 1..q : frames[i] \in Seq(Token) /\ FrameOf(frames[i], e[c + i])
  BY <1>6 DEF PieceCompletes
<1>8. /\ buffer' \in Seq(Token) /\ Len(buffer') < 4 /\ wire' \in Seq(Token)
      /\ TextOf(buffer' \o wire', e, c + q)
      /\ Len(buffer' \o wire') = Len(buffer \o wire) - 4 * q
  BY <1>1, <1>6 DEF PieceCompletes
<1> HIDE DEF frames
<1>9. ASSUME NEW i \in 1..q
      PROVE  /\ ~Throws(frames[i])
             /\ ParseSseFrame(frames[i]) = IF e[c + i][1] \in EventSchemaMap THEN <<e[c + i]>> ELSE <<>>
  <2>1. e[c + i] \in Event
    <3>1. c + i \in 1..Len(e)
      BY <1>3, <1>5, <1>7
    <3> QED
      BY <1>3, <3>1
  <2> QED
    BY <1>7, <2>1, WholeFrame
<1>10. arrived' = KnownUpTo(e, c + q) /\ client' = "reading"
  <2>1. HandleFrames(frames, "reading")
    BY <1>1 DEF frames
  <2> QED
    BY <1>3, <1>5, <1>7, <1>9, <2>1, FramesHeard
<1>11. c + q \in c..Len(e) /\ c + q \in 0..Len(e) /\ c + q \in Nat
  BY <1>3, <1>5, <1>7
<1>12. arrived' \in Seq(Event)
  BY <1>3, <1>10, <1>11, KnownUpToNext
<1>13. StreamTypeOK'
  BY <1>2, <1>8, <1>10, <1>12 DEF StreamInv, StreamTypeOK
<1>14. Delivery'
  <2>1. ArrivedUpTo(emitted', c + q, arrived')
    BY <1>2, <1>10, <1>11 DEF ArrivedUpTo
  <2>2. link = "up" => Len(buffer' \o wire') = 4 * (Len(e) - Q - (c + q))
    BY <1>3, <1>5, <1>8
  <2>3. OnItsWay(emitted', c + q, buffer', wire', link' = "up", Len(eventQueue'))
    BY <1>2, <1>8, <2>2 DEF OnItsWay
  <2> QED
    BY <1>11, <2>1, <2>3 DEF Delivery
<1>15. QueueIsTail' /\ NotStarted' /\ Bounds' /\ DoneIsLast'
  BY <1>2, <1>10, ResponseKept
<1>16. ReadsOn
  BY <1>5, <1>10, <1>11 DEF ReadsOn
<1> QED
  BY <1>13, <1>14, <1>15, <1>16 DEF StreamInv

(* The text has ended.                                                     *)
LEMMA ReadDoneStep ==
  ASSUME StreamInv, ReadDone
  PROVE  StreamInv' /\ ReadsOn
<1> DEFINE e == emitted
           b == buffer
           Q == Len(eventQueue)
<1>1. /\ client = "reading" /\ wire = <<>> /\ (link = "cut" \/ (link = "up" /\ generator = "closed"))
      /\ HandleFrames(IF b = <<>> THEN <<>> ELSE <<b>>, "resolved")
      /\ UNCHANGED <<responseVars, buffer, wire, link>>
      /\ UNCHANGED <<runner, eventQueue, generator, emitted, link>>
  BY DEF ReadDone, responseVars
<1>2. e \in Seq(Event) /\ Len(e) \in Nat /\ Q \in Nat /\ b \in Seq(Token) /\ Len(b) \in Nat
  BY StreamTypes DEF StreamInv
<1>3. PICK c \in Nat : ArrivedUpTo(e, c, arrived) /\ OnItsWay(e, c, b, wire, link = "up", Q)
  BY <1>1 DEF StreamInv, Delivery
<1>4. b \o wire = b
  BY <1>1, <1>2
<1>5. /\ c \in 0..Len(e) /\ arrived = KnownUpTo(e, c) /\ TextOf(b, e, c) /\ Len(b) < 4
      /\ (link = "up" => Len(b) = 4 * (Len(e) - Q - c))
  BY <1>3, <1>4 DEF ArrivedUpTo, OnItsWay
<1>6. link = "up" => b = <<>> /\ c = Len(e) /\ generator = "closed"
  <2> SUFFICES ASSUME link = "up"
               PROVE  b = <<>> /\ c = Len(e) /\ generator = "closed"
    OBVIOUS
  <2>1. generator = "closed"
    BY <1>1
  <2>2. eventQueue = <<>>
    BY <2>1 DEF StreamInv, DoneIsLast
  <2>3. Q = 0
    BY <2>2
  <2>4. Len(b) = 4 * (Len(e) - Q - c)
    BY <1>5
  <2> HIDE DEF Q
  <2>5. Len(b) = 0 /\ c = Len(e)
    BY <1>2, <1>5, <2>3, <2>4
  <2> QED
    BY <1>2, <2>1, <2>5
<1>7. \E d \in c..Len(e) : /\ arrived' = KnownUpTo(e, d) /\ client' \in {"resolved", "rejected"}
                           /\ (b = <<>> => d = c /\ client' = "resolved")
  <2>1. CASE b = <<>>
    <3> DEFINE frames == <<>>
    <3>1. HandleFrames(frames, "resolved") /\ Len(frames) = 0 /\ DOMAIN frames = 1..0
          /\ c + 0 = c /\ c <= Len(e) /\ 0 \in Nat /\ \A i \in 1..0 : FALSE
      BY <1>1, <1>5, <2>1
    <3> HIDE DEF frames
    <3>2. arrived' = KnownUpTo(e, c + 0) /\ client' = "resolved"
      <4>1. \A i \in 1..0 : /\ ~Throws(frames[i])
                            /\ ParseSseFrame(frames[i]) =
                                 IF e[c + i][1] \in EventSchemaMap THEN <<e[c + i]>> ELSE <<>>
        BY <3>1
      <4> QED
        BY <1>2, <1>5, <3>1, <4>1, FramesHeard
    <3>3. c \in c..Len(e)
      BY <1>2, <1>5
    <3> QED
      BY <3>1, <3>2, <3>3
  <2>2. CASE b # <<>>
    <3> DEFINE frames == <<b>>
               x == e[c + 1]
    <3>1. HandleFrames(frames, "resolved") /\ Len(frames) = 1 /\ DOMAIN frames = 1..1 /\ frames[1] = b
      BY <1>1, <2>2
    <3>2. Len(b) \in 1..3
      <4>1. Len(b) # 0
        BY <1>2, <2>2
      <4>2. \A n \in Nat : n # 0 /\ n < 4 => n \in 1..3
        OBVIOUS
      <4> QED
        BY <1>2, <1>5, <4>1, <4>2
    <3>3. /\ c + 1 <= Len(e) /\ b[1] = <<"event", x>>
          /\ (2 <= Len(b) => b[2] = <<"data", x>>) /\ (3 <= Len(b) => b[3] = <<"nl", x>>)
      <4>1. 1 \in Nat \ {0} /\ 4 * 1 - 3 = 1 /\ 4 * 1 - 2 = 2 /\ 4 * 1 - 1 = 3 /\ 1 <= Len(b)
        BY <3>2
      <4> QED
        BY <1>5, <4>1 DEF TextOf
    <3>4. x \in Event /\ c + 1 \in c..Len(e)
      <4>1. c + 1 \in 1..Len(e) /\ c + 1 \in c..Len(e)
        BY <1>2, <3>3
      <4> QED
        BY <1>2, <4>1
    <3> HIDE DEF frames
    <3>5. CASE ~Throws(b) /\ ParseSseFrame(b) = IF x[1] \in EventSchemaMap THEN <<x>> ELSE <<>>
      <4>1. \A i \in 1..1 : /\ ~Throws(frames[i])
                            /\ ParseSseFrame(frames[i]) =
                                 IF e[c + i][1] \in EventSchemaMap THEN <<e[c + i]>> ELSE <<>>
        BY <3>1, <3>5
      <4>2. 1 \in Nat
        OBVIOUS
      <4>3. arrived' = KnownUpTo(e, c + 1) /\ client' = "resolved"
        BY <1>2, <1>5, <3>1, <3>3, <4>1, <4>2, FramesHeard
      <4> QED
        BY <2>2, <3>4, <4>3
    <3>6. CASE Throws(b)
      <4>1. {i \in DOMAIN frames : Throws(frames[i])} = {1}
        BY <3>1, <3>6
      <4>2. Min({1}) = 1
        BY DEF Min
      <4>3. arrived' = OnEvents(arrived, SubSeq(frames, 1, 1 - 1)) /\ client' = "rejected"
        BY <3>1, <4>1, <4>2 DEF HandleFrames
      <4> DEFINE none == SubSeq(frames, 1, 1 - 1)
      <4>4. none = <<>>
        BY DEF frames
      <4>5. Len(none) = 0 /\ DOMAIN none = 1..0 /\ c + 0 = c /\ c <= Len(e) /\ 0 \in Nat
            /\ \A i \in 1..0 : FALSE
        BY <1>5, <4>4
      <4> HIDE DEF none
      <4>6. \A i \in 1..0 : ParseSseFrame(none[i]) =
                              IF e[c + i][1] \in EventSchemaMap THEN <<e[c + i]>> ELSE <<>>
        BY <4>5
      <4>7. OnEvents(KnownUpTo(e, c), none) = KnownUpTo(e, c + 0)
        BY <1>2, <4>5, <4>6, EventsHeard
      <4>8. c \in c..Len(e)
        BY <1>2, <1>5
      <4> QED
        BY <1>5, <2>2, <4>3, <4>5, <4>7, <4>8 DEF none
    <3>7. ~Throws(b) => ParseSseFrame(b) = IF x[1] \in EventSchemaMap THEN <<x>> ELSE <<>>
      <4>1. CASE Len(b) = 1
        BY <1>2, <3>3, <3>4, <4>1, CutFrame
      <4>2. CASE Len(b) # 1
        <5>1. FrameOf(b, x)
          BY <3>2, <3>3, <4>2 DEF FrameOf
        <5> QED
          BY <1>2, <3>4, <5>1, WholeFrame
      <4> QED
        BY <4>1, <4>2
    <3> QED
      BY <3>5, <3>6, <3>7
  <2> QED
    BY <2>1, <2>2
<1>8. PICK d \in c..Len(e) : /\ arrived' = KnownUpTo(e, d) /\ client' \in {"resolved", "rejected"}
                             /\ (b = <<>> => d = c /\ client' = "resolved")
  BY <1>7
<1>9. d \in 0..Len(e) /\ d \in Nat
  BY <1>2, <1>5
<1>10. arrived' \in Seq(Event)
  BY <1>2, <1>8, <1>9, KnownUpToNext
<1>11. StreamTypeOK'
  BY <1>1, <1>8, <1>10 DEF StreamInv, StreamTypeOK
<1>12. Delivery'
  <2>1. ArrivedUpTo(emitted', d, arrived')
    BY <1>1, <1>8, <1>9 DEF ArrivedUpTo
  <2>2. ~(client' \in {"fetching", "reading"})
    BY <1>8
  <2> QED
    BY <1>9, <2>1, <2>2 DEF Delivery
<1>13. QueueIsTail' /\ NotStarted' /\ Bounds' /\ DoneIsLast'
  <2>1. client' \in {"reading", "resolved", "rejected"}
    BY <1>8
  <2> QED
    BY <1>1, <2>1, ResponseKept
<1>14. ReadsOn
  <2>1. KnownUpTo(e, Len(e)) = Known(e)
    BY <1>2, KnownUpToNext
  <2>2. link = "up" => client' = "resolved" /\ generator = "closed"
                       /\ arrived' = arrived /\ arrived = Known(emitted)
    BY <1>5, <1>6, <1>8, <2>1
  <2> QED
    BY <1>5, <1>8, <2>2 DEF ReadsOn
<1> QED
  BY <1>11, <1>12, <1>13, <1>14 DEF StreamInv

(* The reader fails.                                                       *)
LEMMA ReadFailsStep ==
  ASSUME StreamInv, ReadFails
  PROVE  StreamInv' /\ ReadsOn
<1>1. /\ client = "reading" /\ link = "broken" /\ client' = "rejected"
      /\ UNCHANGED <<responseVars, buffer, arrived, wire, link>>
      /\ UNCHANGED <<runner, eventQueue, generator, emitted, link>>
  BY DEF ReadFails, responseVars
<1>2. PICK c \in Nat : ArrivedUpTo(emitted, c, arrived)
  BY DEF StreamInv, Delivery
<1>3. StreamTypeOK'
  BY <1>1 DEF StreamInv, StreamTypeOK
<1>4. Delivery'
  BY <1>1, <1>2 DEF Delivery
<1>5. QueueIsTail' /\ NotStarted' /\ Bounds' /\ DoneIsLast'
  BY <1>1, ResponseKept
<1>6. ReadsOn
  <2>1. c \in c..Len(emitted) /\ c \in 0..Len(emitted)
    BY <1>2, StreamTypes DEF StreamInv, ArrivedUpTo
  <2> QED
    BY <1>1, <1>2, <2>1 DEF ReadsOn, ArrivedUpTo
<1> QED
  BY <1>3, <1>4, <1>5, <1>6 DEF StreamInv

(* Every step keeps the invariant.                                         *)
LEMMA StreamStep ==
  ASSUME StreamInv, StreamNext
  PROVE  StreamInv'
<1>1. CASE Round /\ Exhausted
  <2>1. /\ UNCHANGED <<runner, eventQueue, client, buffer, arrived, link>> /\ generator = "loop"
        /\ \/ generator' = "closed" /\ YieldOwn(Done)
           \/ generator' = "raised" /\ YieldOwn(Error)
    BY <1>1 DEF Round, clientVars
  <2>2. Done \in Names /\ Error \in Names /\ Error # Done
    BY DEF Names, Done, Error
  <2> QED
    BY <1>1, <2>1, <2>2, OwnEvent
<1>2. CASE YieldDone
  <2>1. /\ UNCHANGED <<runner, eventQueue, client, buffer, arrived, link>>
        /\ generator = "raised" /\ generator' = "closed" /\ YieldOwn(Done)
    BY <1>2 DEF YieldDone, clientVars
  <2>2. Done \in Names /\ Exhausted
    BY <2>1 DEF StreamInv, DoneIsLast, Names, Exhausted
  <2> QED
    BY <2>1, <2>2, OwnEvent
<1> QED
  BY <1>1, <1>2, RequestSteps, PutStep, QuietSteps, GetStep, LoseStep, ChunkStep, ReadDoneStep, ReadFailsStep
     DEF StreamNext, EventStreamStep, ReadStream

(* No step, no change.                                                     *)
LEMMA StreamStutters ==
  ASSUME StreamInv, UNCHANGED streamVars
  PROVE  StreamInv'
<1>1. UNCHANGED <<runner, eventQueue, generator, emitted, client, buffer, arrived, wire, link>>
  BY DEF streamVars, responseVars, clientVars
<1>2. StreamTypeOK' /\ QueueIsTail' /\ NotStarted' /\ Bounds' /\ DoneIsLast'
  <2>1. StreamTypeOK /\ QueueIsTail /\ NotStarted /\ Bounds /\ DoneIsLast
    BY DEF StreamInv
  <2>2. StreamTypeOK' /\ QueueIsTail'
    BY <1>1, <2>1 DEF StreamTypeOK, QueueIsTail
  <2>3. NotStarted' /\ Bounds' /\ DoneIsLast'
    BY <1>1, <2>1 DEF NotStarted, Bounds, DoneIsLast
  <2> QED
    BY <2>2, <2>3
<1>3. Delivery'
  BY <1>1, Zenon DEF StreamInv, Delivery
<1> QED
  BY <1>2, <1>3 DEF StreamInv

(* However the text is cut: what has arrived is what was emitted up to     *)
(* some event, and the text of the events after it, and no other, is on    *)
(* its way (sse.ts, streamSseRequest; sessions.py, event_stream).          *)
THEOREM StreamInvariant == StreamSpec => []StreamInv
<1>1. ASSUME StreamInv, [StreamNext]_streamVars
      PROVE  StreamInv'
  BY <1>1, StreamStep, StreamStutters
<1> QED
  BY <1>1, StreamInvInit, PTL DEF StreamSpec

(* The variables of the stream keep their types.                           *)
THEOREM StreamTypeCorrect == StreamSpec => []StreamTypeOK
<1>1. StreamInv => StreamTypeOK
  BY DEF StreamInv
<1> QED
  BY <1>1, StreamInvariant, PTL

-----------------------------------------------------------------------------
(* The stream is a channel.                                                *)

(* What the channel takes for its end.                                     *)
EndOf(l, c) ==
  IF l # "up" THEN "broken"
  ELSE IF c \in {"fetching", "reading"} THEN "open"
  ELSE IF c = "resolved" THEN "closed" ELSE "rejected"

(* A step of the channel, or none.                                         *)
ChannelStep == [Channel!Next]_<<Known(emitted), arrived, EndOf(link, client)>>

(* An event with a schema is one of those emitted.                         *)
LEMMA KnownWereEmitted ==
  ASSUME NEW e \in Seq(Event)
  PROVE  \A j \in 1..Len(Known(e)) : \E i \in 1..Len(e) : Known(e)[j] = e[i]
<1> DEFINE Inside(s) == \A j \in 1..Len(s) : \E i \in 1..Len(e) : s[j] = e[i]
           S == {c \in Nat : c <= Len(e) => Inside(KnownUpTo(e, c))}
<1>1. Len(e) \in Nat
  OBVIOUS
<1>2. \A c \in Nat : c \in S <=> (c <= Len(e) => Inside(KnownUpTo(e, c)))
  <2> HIDE DEF Inside
  <2> QED
    OBVIOUS
<1>3. 0 \in S
  <2>1. KnownUpTo(e, 0) = <<>>
    BY KnownUpToNext
  <2>2. Inside(<<>>)
    OBVIOUS
  <2> QED
    BY <1>2, <2>1, <2>2
<1> HIDE DEF S
<1>4. ASSUME NEW c \in Nat, c \in S
      PROVE  c + 1 \in S
  <2> SUFFICES ASSUME c + 1 <= Len(e)
               PROVE  Inside(KnownUpTo(e, c + 1))
    BY <1>2
  <2> DEFINE s == KnownUpTo(e, c)
             t == KnownUpTo(e, c + 1)
  <2>1. c \in 0..(Len(e) - 1) /\ c \in 0..Len(e) /\ c + 1 \in 1..Len(e)
    BY <1>1
  <2>2. s \in Seq(Event) /\ (t = Append(s, e[c + 1]) \/ t = s)
    BY <2>1, KnownUpToNext
  <2>3. Inside(s)
    <3> HIDE DEF Inside
    <3>1. c <= Len(e)
      BY <1>1, <2>1
    <3>2. c \in S => (c <= Len(e) => Inside(KnownUpTo(e, c)))
      BY <1>2
    <3> QED
      BY <1>4, <3>1, <3>2
  <2> HIDE DEF s, t
  <2>4. CASE t = s
    BY <2>3, <2>4 DEF t
  <2>5. CASE t = Append(s, e[c + 1])
    <3>1. Len(t) = Len(s) + 1 /\ t[Len(s) + 1] = e[c + 1] /\ Len(s) \in Nat
          /\ \A j \in 1..Len(s) : t[j] = s[j]
      BY <2>2, <2>5
    <3>2. ASSUME NEW j \in 1..Len(t)
          PROVE  \E i \in 1..Len(e) : t[j] = e[i]
      <4>1. CASE j = Len(s) + 1
        BY <2>1, <3>1, <4>1
      <4>2. CASE j # Len(s) + 1
        <5>1. j \in 1..Len(s)
          BY <3>1, <4>2
        <5> QED
          BY <2>3, <3>1, <5>1
      <4> QED
        BY <4>1, <4>2
    <3> QED
      BY <3>2 DEF t
  <2> QED
    BY <2>2, <2>4, <2>5
<1>5. Len(e) \in S
  BY <1>1, <1>3, <1>4, SetInduction
<1>6. Inside(KnownUpTo(e, Len(e)))
  <2>1. Len(e) <= Len(e)
    BY <1>1
  <2> QED
    BY <1>1, <1>2, <1>5, <2>1
<1>7. KnownUpTo(e, Len(e)) = Known(e)
  BY KnownUpToNext
<1> QED
  BY <1>6, <1>7

(* While "done" was not emitted, another event is sent or has no schema.   *)
LEMMA SendStep ==
  ASSUME emitted \in Seq(Event), NEW x \in Event, emitted' = Append(emitted, x),
         \A i \in DOMAIN emitted : emitted[i][1] # Done, UNCHANGED <<arrived, client, link>>
  PROVE  ChannelStep
<1> DEFINE k == Known(emitted)
<1>1. k \in Seq(Event) /\ Known(Append(emitted, x)) = IF x[1] \in EventSchemaMap THEN Append(k, x) ELSE k
  BY KnownOfMore
<1>2. Known(emitted)' = Known(Append(emitted, x))
  OBVIOUS
<1>3. EndOf(link, client)' = EndOf(link, client)
  OBVIOUS
<1>4. CASE x[1] \in EventSchemaMap
  <2>1. ~(k # <<>> /\ Last(k) \in {Done} \X (1..MaxEvents + 2))
    <3> SUFFICES ASSUME k # <<>>
                 PROVE  Last(k) \notin {Done} \X (1..MaxEvents + 2)
      OBVIOUS
    <3>1. Len(k) \in 1..Len(k)
      BY <1>1
    <3>2. PICK i \in 1..Len(emitted) : k[Len(k)] = emitted[i]
      BY <3>1, KnownWereEmitted
    <3>3. emitted[i][1] # Done
      BY <3>2
    <3> QED
      BY <3>2, <3>3 DEF Last
  <2> HIDE DEF k
  <2> DEFINE t == Append(k, x)
  <2>2. Len(t) = Len(k) + 1
    BY <1>1
  <2>3. IsPrefix(k, t)
    <3>1. Len(k) <= Len(t) /\ SubSeq(t, 1, Len(k)) = SubSeq(k, 1, Len(k))
      <4>1. Len(k) \in 0..Len(k) /\ Len(k) <= Len(k) + 1
        BY <1>1
      <4> QED
        BY <1>1, <2>2, <4>1, UpToSteps
    <3> QED
      BY <3>1 DEF IsPrefix
  <2>4. Known(emitted)' = t /\ Known(emitted) = k
    BY <1>1, <1>2, <1>4 DEF k
  <2> HIDE DEF t
  <2>5. Channel!Send
    BY <1>3, <2>1, <2>2, <2>3, <2>4
       DEF Channel!Send, Channel!Finished, Channel!Last, Last, Channel!IsPrefix, IsPrefix, EndOf
  <2> QED
    BY <2>5 DEF ChannelStep, Channel!Next
<1>5. CASE x[1] \notin EventSchemaMap
  BY <1>1, <1>2, <1>3, <1>5 DEF ChannelStep
<1> QED
  BY <1>4, <1>5

(* The page reads what was sent, in order, or the channel is closed.       *)
LEMMA ReceiveStep ==
  ASSUME StreamInv, ReadsOn, client = "reading", UNCHANGED <<emitted, link>>,
         client' \in {"reading", "resolved", "rejected"}
  PROVE  ChannelStep
<1> DEFINE e == emitted
           k == Known(e)
           a == arrived
           b == arrived'
<1>1. e \in Seq(Event) /\ Len(e) \in Nat /\ MaxEvents \in Nat
  BY StreamTypes DEF StreamInv
<1>2. PICK c \in 0..Len(e) : \E d \in c..Len(e) : a = KnownUpTo(e, c) /\ b = KnownUpTo(e, d)
  BY DEF ReadsOn
<1>3. PICK d \in c..Len(e) : a = KnownUpTo(e, c) /\ b = KnownUpTo(e, d)
  BY <1>2
<1>4. d \in 0..Len(e) /\ Len(e) \in d..Len(e)
  BY <1>1
<1>5. /\ a \in Seq(Event) /\ b \in Seq(Event) /\ k \in Seq(Event)
      /\ Len(a) <= Len(b) /\ a = SubSeq(b, 1, Len(a))
      /\ Len(b) <= Len(k) /\ b = SubSeq(k, 1, Len(b))
  <2>1. KnownUpTo(e, Len(e)) = k /\ Len(e) \in 0..Len(e)
    BY <1>1, KnownUpToNext
  <2>2. a \in Seq(Event) /\ b \in Seq(Event) /\ k \in Seq(Event)
    BY <1>1, <1>3, <1>4, <2>1, KnownUpToNext
  <2>3. Len(a) <= Len(b) /\ a = SubSeq(b, 1, Len(a))
    BY <1>1, <1>3, KnownInOrder
  <2>4. Len(b) <= Len(k) /\ b = SubSeq(k, 1, Len(b))
    BY <1>1, <1>3, <1>4, <2>1, KnownInOrder
  <2> QED
    BY <2>2, <2>3, <2>4
<1>6. Known(emitted)' = k
  OBVIOUS
<1>7. CASE EndOf(link, client)' = EndOf(link, client)
  <2>1. CASE Len(a) = Len(b)
    <3>1. b = a
      BY <1>5, <2>1, UpToSteps
    <3> QED
      BY <1>6, <1>7, <3>1 DEF ChannelStep
  <2>2. CASE Len(a) # Len(b)
    <3>1. Len(b) \in Len(a) + 1..Len(k)
      <4>1. Len(a) \in Nat /\ Len(b) \in Nat /\ Len(k) \in Nat
        BY <1>5
      <4>2. Len(a) <= Len(b) /\ Len(b) <= Len(k)
        BY <1>5
      <4> HIDE DEF a, b, k
      <4> QED
        BY <2>2, <4>1, <4>2
    <3>2. EndOf(link, client) # "closed"
      BY DEF EndOf
    <3>3. Channel!Receive
      BY <1>5, <1>6, <1>7, <3>1, <3>2 DEF Channel!Receive, EndOf
    <3> QED
      BY <3>3 DEF ChannelStep, Channel!Next
  <2> QED
    BY <2>1, <2>2
<1>8. CASE EndOf(link, client)' # EndOf(link, client)
  <2>1. link = "up" /\ client' # "reading"
    BY <1>8 DEF EndOf
  <2>2. client' = "resolved" /\ generator = "closed" /\ b = a /\ a = k
    BY <2>1 DEF ReadsOn
  <2>3. EndOf(link, client) = "open" /\ EndOf(link, client)' = "closed"
    BY <2>1, <2>2 DEF EndOf
  <2>4. k # <<>> /\ Last(k) \in {Done} \X (1..MaxEvents + 2)
    <3> DEFINE m == Len(e) - 1
               z == e[m + 1]
    <3>1. e # <<>> /\ e[Len(e)][1] = Done
      BY <2>1, <2>2 DEF StreamInv, DoneIsLast
    <3>2. m \in 0..(Len(e) - 1) /\ m \in 0..Len(e) /\ m + 1 = Len(e) /\ Len(e) \in 1..Len(e)
      BY <1>1, <3>1
    <3>3. z \in Event /\ z[1] = Done
      BY <1>1, <3>1, <3>2
    <3>4. z \in {Done} \X (1..MaxEvents + 2)
      BY <3>3 DEF Event
    <3>5. k = KnownUpTo(e, m + 1)
      BY <1>1, <3>2, KnownUpToNext
    <3>6. KnownUpTo(e, m) \in Seq(Event) /\ KnownUpTo(e, m + 1) = Append(KnownUpTo(e, m), z)
      <4>1. Done \in EventSchemaMap
        BY DEF EventSchemaMap
      <4> QED
        BY <1>1, <3>2, <3>3, <4>1, KnownUpToNext
    <3> HIDE DEF m, z, k
    <3>7. k # <<>> /\ k[Len(k)] = z
      BY <3>3, <3>5, <3>6
    <3> QED
      BY <3>4, <3>7 DEF Last
  <2>5. Channel!Close
    BY <1>6, <2>2, <2>3, <2>4 DEF Channel!Close, Channel!Finished, Channel!Last, Last, EndOf
  <2> QED
    BY <2>5 DEF ChannelStep, Channel!Next
<1> QED
  BY <1>7, <1>8

(* The channel breaks when the connection does.                            *)
LEMMA BreakStep ==
  ASSUME client \in {"fetching", "reading"}, link = "up", link' # "up", UNCHANGED <<emitted, arrived>>
  PROVE  ChannelStep
<1>1. EndOf(link, client) = "open" /\ EndOf(link, client)' = "broken" /\ Known(emitted)' = Known(emitted)
  BY DEF EndOf
<1>2. Channel!Break
  BY <1>1 DEF Channel!Break, EndOf
<1> QED
  BY <1>2 DEF ChannelStep, Channel!Next

(* A step that changes neither the events nor the connection is none.      *)
LEMMA HiddenStep ==
  ASSUME UNCHANGED <<emitted, arrived, link>>,
         client' = client \/ {client, client'} \subseteq {"fetching", "reading"}
  PROVE  ChannelStep
<1>1. EndOf(link, client)' = EndOf(link, client) /\ Known(emitted)' = Known(emitted)
  BY DEF EndOf
<1> QED
  BY <1>1 DEF ChannelStep

(* A response's own event is one sent.                                     *)
LEMMA OwnIsSent ==
  ASSUME StreamInv, NEW name \in Names, generator \in {"loop", "raised"}, Exhausted, YieldOwn(name),
         IF name = Done THEN generator' = "closed" ELSE generator = "loop" /\ generator' = "raised",
         UNCHANGED <<runner, eventQueue, client, buffer, arrived, link>>
  PROVE  ChannelStep
<1>1. Len(emitted) <= MaxEvents + 1 /\ \A i \in DOMAIN emitted : emitted[i][1] # Done
  BY OwnEvent
<1>2. NewEvent(name) \in Event
  BY <1>1, NewEventIsEvent DEF StreamInv
<1>3. emitted' = Append(emitted, NewEvent(name)) /\ emitted \in Seq(Event)
  BY StreamTypes DEF StreamInv, YieldOwn
<1> QED
  BY <1>1, <1>2, <1>3, SendStep

(* Every step of the stream is one of the channel, or none.                *)
LEMMA StreamStepIsChannelStep ==
  ASSUME StreamInv, StreamNext
  PROVE  ChannelStep
<1>1. CASE BuildStreamingResponse
  BY <1>1, HiddenStep DEF BuildStreamingResponse
<1>2. CASE RequestFails
  <2>1. client = "fetching" /\ link = "up" /\ link' # "up" /\ UNCHANGED <<emitted, arrived>>
    BY <1>2 DEF RequestFails, StreamInv, NotStarted
  <2> QED
    BY <2>1, BreakStep
<1>3. CASE PutEvent
  <2>1. PICK name \in Names \ {Done} : emitted' = Append(emitted, NewEvent(name))
    BY <1>3 DEF PutEvent
  <2>2. runner = "running" /\ Len(emitted) < MaxEvents /\ UNCHANGED <<arrived, client, link>>
    BY <1>3 DEF PutEvent, clientVars
  <2>3. emitted \in Seq(Event) /\ Len(emitted) <= MaxEvents + 1
    BY <2>2, StreamTypes DEF StreamInv
  <2>4. NewEvent(name) \in Event
    BY <2>3, NewEventIsEvent DEF StreamInv
  <2>5. \A i \in DOMAIN emitted : emitted[i][1] # Done
    BY <2>2 DEF StreamInv, DoneIsLast
  <2> QED
    BY <2>1, <2>2, <2>3, <2>4, <2>5, SendStep
<1>4. CASE RunnerEnds \/ GetTimesOut \/ (Round /\ ~Exhausted)
  BY <1>4, QuietSteps, HiddenStep
<1>5. CASE Round /\ Exhausted
  <2>1. /\ UNCHANGED <<runner, eventQueue, client, buffer, arrived, link>> /\ generator = "loop"
        /\ \/ generator' = "closed" /\ YieldOwn(Done)
           \/ generator' = "raised" /\ YieldOwn(Error)
    BY <1>5 DEF Round, clientVars
  <2>2. Done \in Names /\ Error \in Names /\ Error # Done
    BY DEF Names, Done, Error
  <2> QED
    BY <1>5, <2>1, <2>2, OwnIsSent
<1>6. CASE GetEvent
  BY <1>6, GetStep, HiddenStep
<1>7. CASE YieldDone
  <2>1. /\ UNCHANGED <<runner, eventQueue, client, buffer, arrived, link>>
        /\ generator = "raised" /\ generator' = "closed" /\ YieldOwn(Done)
    BY <1>7 DEF YieldDone, clientVars
  <2>2. Done \in Names /\ Exhausted
    BY <2>1 DEF StreamInv, DoneIsLast, Names, Exhausted
  <2> QED
    BY <2>1, <2>2, OwnIsSent
<1>8. CASE LoseConnection
  BY <1>8, LoseStep, BreakStep
<1>9. CASE ReadStream
  <2>1. client = "reading" /\ UNCHANGED <<emitted, link>>
    BY <1>9 DEF ReadStream, ReadChunk, ReadDone, ReadFails, responseVars
  <2>2. StreamInv' /\ ReadsOn
    BY <1>9, ChunkStep, ReadDoneStep, ReadFailsStep DEF ReadStream
  <2>3. client' \in {"reading", "resolved", "rejected"}
    BY <1>9 DEF ReadStream, ReadChunk, ReadDone, ReadFails, HandleFrames
  <2> QED
    BY <2>1, <2>2, <2>3, ReceiveStep
<1> QED
  BY <1>1, <1>2, <1>3, <1>4, <1>5, <1>6, <1>7, <1>8, <1>9 DEF StreamNext, EventStreamStep

(* However the text is cut, the page gets the events it has schemas for in *)
(* order and each once; unless the connection is lost it gets all of them, *)
(* "done" last, and rejects nothing.                                       *)
THEOREM StreamIsChannel == StreamSpec => EventsArriveInOrder
<1>1. StreamInit => Channel!Init
  <2> SUFFICES ASSUME StreamInit
               PROVE  Channel!Init
    OBVIOUS
  <2>1. Known(emitted) = <<>>
    BY KnownOfNone DEF StreamInit
  <2> QED
    BY <2>1 DEF StreamInit, Channel!Init
<1>2. ASSUME StreamInv, [StreamNext]_streamVars
      PROVE  [Channel!Next]_<<Known(emitted), arrived, EndOf(link, client)>>
  <2>1. CASE StreamNext
    BY <1>2, <2>1, StreamStepIsChannelStep DEF ChannelStep
  <2>2. CASE UNCHANGED streamVars
    BY <2>2, HiddenStep DEF ChannelStep, streamVars, responseVars, clientVars
  <2> QED
    BY <1>2, <2>1, <2>2
<1>3. StreamSpec => Channel!Init /\ [][Channel!Next]_<<Known(emitted), arrived, EndOf(link, client)>>
  BY <1>1, <1>2, StreamInvariant, PTL DEF StreamSpec
<1> QED
  BY <1>3, PTL DEF EventsArriveInOrder, Channel!Spec, EndOf
=============================================================================
