------------------------- MODULE ChatTimelineProofs -------------------------
(***************************************************************************)
(* Proofs about how messages are shown and deleted (ChatTimeline.tla), for *)
(* any number of messages.                                                 *)
(*                                                                         *)
(* The operators of the model are folds over sequences, and so the proofs  *)
(* rest on induction.  The provers cannot instantiate an induction rule    *)
(* about a formula; they can instantiate one about a set, which follows    *)
(* from the order of the natural numbers being well founded.               *)
(***************************************************************************)
EXTENDS ChatTimeline, SequenceTheorems, FiniteSetTheorems, WellFoundedInduction, TLAPS

-----------------------------------------------------------------------------
(* Induction and recursion.                                                *)

(* The order of the natural numbers, as a relation.                        *)
NatOrder == {p \in Nat \X Nat : p[1] < p[2]}

(* A set of natural numbers that is not empty has a least one.             *)
LEMMA LeastNumber ==
  ASSUME NEW T, T \subseteq Nat, T # {}
  PROVE  \E x \in T : \A y \in T : x <= y
<1>1. IsWellFoundedOn(NatOrder, Nat)
  <2>1. OpToRel(<, Nat) = NatOrder
    BY Zenon DEF OpToRel, NatOrder
  <2> QED
    BY <2>1, NatLessThanWellFounded, Zenon
<1>2. PICK x \in T : \A y \in T : <<y, x>> \notin NatOrder
  BY <1>1, WFMin
<1>3. ASSUME NEW y \in T
      PROVE  x <= y
  <2>1. <<y, x>> \notin NatOrder /\ x \in Nat /\ y \in Nat
    BY <1>2
  <2>2. ~(y < x)
    BY <2>1 DEF NatOrder
  <2> QED
    BY <2>1, <2>2
<1> QED
  BY <1>3

(* A set that has 0 and with every natural number the next has all of them. *)
LEMMA SetInduction ==
  ASSUME NEW S, 0 \in S, \A n \in Nat : n \in S => n + 1 \in S
  PROVE  Nat \subseteq S
<1> SUFFICES ASSUME Nat \ S # {}
             PROVE  FALSE
  OBVIOUS
<1>1. PICK x \in Nat \ S : \A y \in Nat \ S : x <= y
  BY LeastNumber
<1>2. x # 0 /\ x - 1 \in Nat /\ ~(x <= x - 1)
  BY <1>1
<1>3. x - 1 \in S
  BY <1>1, <1>2
<1>4. (x - 1) + 1 \in S
  BY <1>2, <1>3
<1> QED
  BY <1>1, <1>4

(* The largest number of a part of 1..n with n in it, and of 1..n.         *)
LEMMA MaxOfPart ==
  ASSUME NEW n \in Nat, NEW d \in SUBSET (1..n), n \in d
  PROVE  Max(d) = n
<1>1. \A y \in d : n >= y
  OBVIOUS
<1>2. \A x \in d : (\A y \in d : x >= y) => x = n
  OBVIOUS
<1> QED
  BY <1>1, <1>2 DEF Max

(* A part of 1..n that is not empty has a largest number.                  *)
LEMMA LargestIsInside ==
  ASSUME NEW n \in Nat, NEW d \in SUBSET (1..n), d # {}
  PROVE  Max(d) \in d
<1> DEFINE T == {n - x : x \in d}
<1>1. T \subseteq Nat /\ T # {}
  <2>1. \A x \in d : n - x \in Nat
    OBVIOUS
  <2>2. PICK x : x \in d
    OBVIOUS
  <2>3. n - x \in T
    BY <2>2
  <2> QED
    BY <2>1, <2>3
<1>2. PICK y \in T : \A z \in T : y <= z
  BY <1>1, LeastNumber
<1>3. PICK x \in d : y = n - x
  BY <1>2
<1>4. \A z \in d : x >= z
  <2> SUFFICES ASSUME NEW z \in d
               PROVE  x >= z
    OBVIOUS
  <2>1. n - x <= n - z
    BY <1>2, <1>3
  <2> QED
    BY <2>1
<1> QED
  BY <1>4 DEF Max

(* F folds "step" over the parts of 1..n, largest number last.             *)
FoldsOver(F, n, T, base, step) ==
  /\ F \in [SUBSET (1..n) -> T]
  /\ F[{}] = base
  /\ \A d \in SUBSET (1..n) : d # {} => F[d] = step[<<Max(d), F[d \ {Max(d)}]>>]

(* There is such a function.                                               *)
LEMMA FoldExists ==
  ASSUME NEW n \in Nat, NEW T, NEW base \in T, NEW step \in [(1..n) \X T -> T]
  PROVE  \E F : FoldsOver(F, n, T, base, step)
<1> DEFINE S == {m \in Nat : m <= n => \E F : FoldsOver(F, m, T, base, step)}
<1>1. 0 \in S
  <2> DEFINE F == [d \in SUBSET (1..0) |-> base]
  <2>1. 1..0 = {}
    OBVIOUS
  <2>2. \A d \in SUBSET (1..0) : d = {}
    BY <2>1
  <2>3. FoldsOver(F, 0, T, base, step)
    BY <2>1, <2>2 DEF FoldsOver
  <2> QED
    BY <2>3
<1>2. ASSUME NEW m \in Nat, m \in S
      PROVE  m + 1 \in S
  <2> SUFFICES ASSUME m + 1 <= n
               PROVE  \E F : FoldsOver(F, m + 1, T, base, step)
    BY DEF S
  <2>1. PICK F : FoldsOver(F, m, T, base, step)
    BY <1>2
  <2> DEFINE k == m + 1
             G == [d \in SUBSET (1..k) |-> IF k \in d THEN step[<<k, F[d \ {k}]>>] ELSE F[d]]
  <2>2. \A d \in SUBSET (1..k) : (d \ {k} \in SUBSET (1..m)) /\ (k \notin d => d \in SUBSET (1..m))
    OBVIOUS
  <2>3. F \in [SUBSET (1..m) -> T] /\ F[{}] = base
    BY <2>1 DEF FoldsOver
  <2>4. \A d \in SUBSET (1..m) : F[d] \in T
    BY <2>3
  <2>5. k \in 1..n
    OBVIOUS
  <2>6. \A t \in T : step[<<k, t>>] \in T
    BY <2>5
  <2>7. ASSUME NEW d \in SUBSET (1..k)
        PROVE  (IF k \in d THEN step[<<k, F[d \ {k}]>>] ELSE F[d]) \in T
    BY <2>2, <2>4, <2>6
  <2>8. G \in [SUBSET (1..k) -> T]
    BY <2>7
  <2>9. G[{}] = base
    BY <2>3
  <2>10. ASSUME NEW d \in SUBSET (1..k), d # {}
         PROVE  G[d] = step[<<Max(d), G[d \ {Max(d)}]>>]
    <3>1. CASE k \in d
      <4>1. Max(d) = k
        BY <3>1, MaxOfPart
      <4>2. G[d] = step[<<k, F[d \ {k}]>>]
        BY <3>1
      <4>3. G[d \ {k}] = F[d \ {k}]
        OBVIOUS
      <4> QED
        BY <4>1, <4>2, <4>3
    <3>2. CASE k \notin d
      <4>1. d \in SUBSET (1..m)
        BY <2>2, <3>2
      <4>2. F[d] = step[<<Max(d), F[d \ {Max(d)}]>>]
        BY <2>1, <2>10, <4>1 DEF FoldsOver
      <4>3. G[d] = F[d] /\ G[d \ {Max(d)}] = F[d \ {Max(d)}]
        BY <3>2
      <4> QED
        BY <4>2, <4>3
    <3> QED
      BY <3>1, <3>2
  <2> HIDE DEF G
  <2>11. FoldsOver(G, k, T, base, step)
    BY <2>8, <2>9, <2>10 DEF FoldsOver
  <2> QED
    BY <2>11
<1> HIDE DEF S
<1>3. n \in S
  BY <1>1, <1>2, SetInduction
<1> QED
  BY <1>3 DEF S

(* Its values at 1..k are those of the recursion over k.                   *)
LEMMA FoldIsRecursion ==
  ASSUME NEW n \in Nat, NEW T, NEW base, NEW step, NEW F, FoldsOver(F, n, T, base, step)
  PROVE  /\ F[1..0] = base
         /\ \A k \in 1..n : F[1..k] = step[<<k, F[1..(k - 1)]>>] /\ F[1..(k - 1)] \in T
<1>1. 1..0 = {}
  OBVIOUS
<1>2. ASSUME NEW k \in 1..n
      PROVE  F[1..k] = step[<<k, F[1..(k - 1)]>>] /\ F[1..(k - 1)] \in T
  <2>1. 1..k \in SUBSET (1..n) /\ 1..k # {} /\ k \in 1..k /\ (1..k) \ {k} = 1..(k - 1)
    OBVIOUS
  <2>2. Max(1..k) = k
    BY <2>1, MaxOfPart
  <2>3. 1..(k - 1) \in SUBSET (1..n)
    OBVIOUS
  <2> QED
    BY <2>1, <2>2, <2>3 DEF FoldsOver
<1> QED
  BY <1>1, <1>2 DEF FoldsOver

(* Whatever obeys the recursion at values in T has only such values.       *)
LEMMA FoldStaysInside ==
  ASSUME NEW n \in Nat, NEW T, NEW base \in T, NEW step \in [(1..n) \X T -> T],
         NEW F, F = [d \in SUBSET (1..n) |-> F[d]], F[{}] = base,
         \A d \in SUBSET (1..n) :
            d # {} /\ F[d \ {Max(d)}] \in T => F[d] = step[<<Max(d), F[d \ {Max(d)}]>>]
  PROVE  FoldsOver(F, n, T, base, step)
<1> DEFINE Inside(m) == \A d \in SUBSET (1..m) : F[d] \in T
           S == {m \in Nat : m <= n => Inside(m)}
<1>1. 0 \in S
  <2>1. \A d \in SUBSET (1..0) : d = {}
    OBVIOUS
  <2> QED
    BY <2>1
<1>a. \A m \in Nat : m \in S <=> (m <= n => Inside(m))
  <2> HIDE DEF Inside
  <2> QED
    OBVIOUS
<1> HIDE DEF S, Inside
<1>2. ASSUME NEW m \in Nat, m \in S
      PROVE  m + 1 \in S
  <2> SUFFICES ASSUME m + 1 <= n
               PROVE  Inside(m + 1)
    BY <1>a
  <2>1. Inside(m)
    <3>1. m <= n
      OBVIOUS
    <3> QED
      BY <1>2, <1>a, <3>1
  <2>2. ASSUME NEW d \in SUBSET (1..(m + 1))
        PROVE  F[d] \in T
    <3>1. CASE m + 1 \in d
      <4>1. Max(d) = m + 1
        BY <3>1, MaxOfPart
      <4> DEFINE e == d \ {m + 1}
      <4>2. e \in SUBSET (1..m)
        OBVIOUS
      <4>3. F[e] \in T
        BY <2>1, <4>2 DEF Inside
      <4>4. d \in SUBSET (1..n) /\ d # {} /\ m + 1 \in 1..n
        BY <3>1
      <4>5. F[d] = step[<<m + 1, F[e]>>]
        BY <4>1, <4>3, <4>4
      <4> HIDE DEF e
      <4> QED
        BY <4>3, <4>4, <4>5
    <3>2. CASE m + 1 \notin d
      <4>1. d \in SUBSET (1..m)
        BY <3>2
      <4> QED
        BY <2>1, <4>1 DEF Inside
    <3> QED
      BY <3>1, <3>2
  <2> QED
    BY <2>2 DEF Inside
<1>3. n \in S
  BY <1>1, <1>2, SetInduction
<1>4. \A d \in SUBSET (1..n) : F[d] \in T
  <2>1. n <= n
    OBVIOUS
  <2>2. Inside(n)
    BY <1>3, <1>a, <2>1
  <2> QED
    BY <2>2 DEF Inside
<1>5. F \in [SUBSET (1..n) -> T]
  BY <1>4
<1>6. ASSUME NEW d \in SUBSET (1..n), d # {}
      PROVE  F[d] = step[<<Max(d), F[d \ {Max(d)}]>>]
  <2>1. d \ {Max(d)} \in SUBSET (1..n)
    OBVIOUS
  <2> QED
    BY <1>4, <1>6, <2>1
<1> QED
  BY <1>5, <1>6 DEF FoldsOver
-----------------------------------------------------------------------------
(* The turns of a list.                                                    *)

(* Turns of n messages: their places.                                      *)
Turn(n) == [user : 0..n, tools : Seq(1..n), assistants : Seq(1..n)]

(* Message i of list l is where its kind belongs.                          *)
PlacedIn(l, t, i) ==
  /\ l[i].kind = "user" => t.user = i
  /\ l[i].kind \in ToolKinds => i \in ToSet(t.tools)
  /\ l[i].kind = "answer" => i \in ToSet(t.assistants)

Placed(l, turns, i) == l[i].kind \in {"blank", "todo"} \/ \E k \in DOMAIN turns : PlacedIn(l, turns[k], i)

(* What appending does to the members of a sequence.                       *)
LEMMA AppendedMembers ==
  ASSUME NEW T, NEW s \in Seq(T), NEW x \in T
  PROVE  Append(s, x) \in Seq(T) /\ ToSet(Append(s, x)) = ToSet(s) \cup {x}
<1>1. /\ Append(s, x) \in Seq(T) /\ Len(Append(s, x)) = Len(s) + 1 /\ Len(s) \in Nat
      /\ Append(s, x)[Len(s) + 1] = x
      /\ \A k \in 1..Len(s) : Append(s, x)[k] = s[k]
      /\ DOMAIN s = 1..Len(s) /\ DOMAIN Append(s, x) = 1..(Len(s) + 1)
  OBVIOUS
<1> DEFINE r == Append(s, x)
<1> HIDE DEF r
<1>2. ASSUME NEW y \in ToSet(r)
      PROVE  y \in ToSet(s) \cup {x}
  <2>1. PICK k \in 1..(Len(s) + 1) : y = r[k]
    BY <1>1, <1>2 DEF ToSet, r
  <2>2. CASE k = Len(s) + 1
    BY <1>1, <2>1, <2>2 DEF r
  <2>3. CASE k \in 1..Len(s)
    BY <1>1, <2>1, <2>3 DEF ToSet, r
  <2> QED
    BY <1>1, <2>2, <2>3
<1>3. ASSUME NEW y \in ToSet(s) \cup {x}
      PROVE  y \in ToSet(r)
  <2>1. CASE y = x
    BY <1>1, <2>1 DEF ToSet, r
  <2>2. CASE y \in ToSet(s)
    <3>1. PICK k \in 1..Len(s) : y = s[k]
      BY <1>1, <2>2 DEF ToSet
    <3>2. k \in 1..(Len(s) + 1) /\ r[k] = y
      BY <1>1, <3>1 DEF r
    <3> QED
      BY <1>1, <3>2 DEF ToSet, r
  <2> QED
    BY <1>3, <2>1, <2>2
<1> QED
  BY <1>1, <1>2, <1>3 DEF r

(* The members of a sequence of T are in T.                                *)
LEMMA MembersInside ==
  ASSUME NEW T, NEW s \in Seq(T)
  PROVE  ToSet(s) \subseteq T
BY DEF ToSet

(* A sequence with another last element, if it had one, keeps the others.  *)
LEMMA LastReplaced ==
  ASSUME NEW T, NEW s \in Seq(T), s # <<>>, NEW x \in T
  PROVE  /\ Append(Front(s), x) \in Seq(T) /\ Len(Append(Front(s), x)) = Len(s)
         /\ Append(Front(s), x)[Len(s)] = x
         /\ \A k \in 1..(Len(s) - 1) : Append(Front(s), x)[k] = s[k]
<1>1. Len(s) \in Nat /\ Len(s) # 0 /\ Len(s) - 1 \in Nat
  OBVIOUS
<1> DEFINE f == SubSeq(s, 1, Len(s) - 1)
<1>2. f \in Seq(T) /\ Len(f) = Len(s) - 1 /\ \A k \in 1..(Len(s) - 1) : f[k] = s[k]
  <2>1. \A k \in 1..(Len(s) - 1) : k \in 1..Len(s) /\ s[k] \in T
    BY <1>1
  <2>2. f = [k \in 1..(Len(s) - 1) |-> s[k]]
    BY <1>1 DEF SubSeq
  <2> HIDE DEF f
  <2>3. f \in [1..(Len(s) - 1) -> T]
    BY <2>1, <2>2
  <2> QED
    BY <1>1, <2>2, <2>3, LenProperties
<1> HIDE DEF f
<1>3. /\ Append(f, x) \in Seq(T) /\ Len(Append(f, x)) = Len(f) + 1 /\ Append(f, x)[Len(f) + 1] = x
      /\ \A k \in 1..Len(f) : Append(f, x)[k] = f[k]
  BY <1>2
<1> QED
  BY <1>1, <1>2, <1>3 DEF Front, f

(* Adding message i gives turns again, in which i is where it belongs and  *)
(* so is what was.                                                         *)
LEMMA AddedToTurns ==
  ASSUME NEW l, NEW n \in Nat, NEW i \in 1..n, l[i].kind \in Kinds,
         NEW turns \in Seq(Turn(n))
  PROVE  /\ AddToTurns(l, turns, i) \in Seq(Turn(n))
         /\ Placed(l, AddToTurns(l, turns, i), i)
         /\ \A j \in 1..n : Placed(l, turns, j) => Placed(l, AddToTurns(l, turns, i), j)
<1> DEFINE last == IF turns = <<>> THEN NoTurn ELSE Last(turns)
           others == IF turns = <<>> THEN <<>> ELSE Front(turns)
           r == AddToTurns(l, turns, i)
<1>1. NoTurn \in Turn(n) /\ last \in Turn(n)
  <2>1. NoTurn \in Turn(n)
    <3>1. 0 \in 0..n /\ <<>> \in Seq(1..n)
      OBVIOUS
    <3> QED
      BY <3>1 DEF NoTurn, Turn
  <2>2. CASE turns # <<>>
    <3>1. Len(turns) \in 1..Len(turns)
      BY <2>2
    <3>2. turns[Len(turns)] \in Turn(n)
      BY <3>1
    <3> QED
      BY <2>1, <2>2, <3>2 DEF Last, last
  <2> QED
    BY <2>1, <2>2
<1>2. /\ l[i].kind = "user" => r = Append(turns, [NoTurn EXCEPT !.user = i])
      /\ l[i].kind = "todo" => r = turns
      /\ l[i].kind \in ToolKinds => r = Append(others, [last EXCEPT !.tools = Append(last.tools, i)])
      /\ l[i].kind \in {"answer", "blank"} =>
           r = Append(others, [last EXCEPT !.assistants = Append(last.assistants, i)])
  BY DEF AddToTurns, ToolKinds
<1> HIDE DEF last, r
<1>3. CASE l[i].kind = "user"
  <2> DEFINE t == [NoTurn EXCEPT !.user = i]
  <2>1. t \in Turn(n) /\ t.user = i
    <3>1. i \in 0..n /\ NoTurn \in Turn(n)
      BY <1>1
    <3> QED
      BY <3>1 DEF NoTurn, Turn
  <2>2. r = Append(turns, t)
    BY <1>2, <1>3
  <2> HIDE DEF t
  <2>3. r \in Seq(Turn(n)) /\ DOMAIN r = 1..(Len(turns) + 1) /\ r[Len(turns) + 1] = t
        /\ (\A k \in 1..Len(turns) : r[k] = turns[k]) /\ Len(turns) \in Nat /\ DOMAIN turns = 1..Len(turns)
    BY <2>1, <2>2
  <2>4. PlacedIn(l, t, i)
    BY <1>3, <2>1 DEF PlacedIn, ToolKinds
  <2>5. Placed(l, r, i)
    BY <2>3, <2>4 DEF Placed
  <2>6. \A j \in 1..n : Placed(l, turns, j) => Placed(l, r, j)
    BY <2>3 DEF Placed
  <2> QED
    BY <2>3, <2>5, <2>6 DEF r
<1>4. CASE l[i].kind = "todo"
  <2>1. r = turns
    BY <1>2, <1>4
  <2> QED
    BY <1>4, <2>1 DEF Placed, r
<1>5. ASSUME NEW t \in Turn(n), PlacedIn(l, t, i) \/ l[i].kind = "blank",
             t.user = last.user, ToSet(last.tools) \subseteq ToSet(t.tools),
             ToSet(last.assistants) \subseteq ToSet(t.assistants),
             r = Append(others, t)
      PROVE  /\ r \in Seq(Turn(n)) /\ Placed(l, r, i)
             /\ \A j \in 1..n : Placed(l, turns, j) => Placed(l, r, j)
  <2>1. CASE turns = <<>>
    <3>1. others = <<>>
      BY <2>1
    <3> HIDE DEF others
    <3>2. r \in Seq(Turn(n)) /\ DOMAIN r = 1..1 /\ r[1] = t
      BY <1>5, <3>1
    <3>3. Placed(l, r, i)
      BY <1>5, <3>2 DEF Placed
    <3>4. DOMAIN turns = {}
      BY <2>1
    <3> QED
      BY <3>2, <3>3, <3>4 DEF Placed
  <2>2. CASE turns # <<>>
    <3>1. others = Front(turns) /\ last = turns[Len(turns)] /\ Len(turns) \in Nat
          /\ DOMAIN turns = 1..Len(turns) /\ Len(turns) \in DOMAIN turns
      BY <2>2 DEF last, Last
    <3>2. /\ r \in Seq(Turn(n)) /\ Len(r) = Len(turns) /\ r[Len(turns)] = t
          /\ \A k \in 1..(Len(turns) - 1) : r[k] = turns[k]
      <4>1. r = Append(Front(turns), t)
        BY <1>5, <3>1
      <4>2. \A p \in Seq(Turn(n)) : p # <<>> => \A x \in Turn(n) :
              /\ Append(Front(p), x) \in Seq(Turn(n)) /\ Len(Append(Front(p), x)) = Len(p)
              /\ Append(Front(p), x)[Len(p)] = x
              /\ \A k \in 1..(Len(p) - 1) : Append(Front(p), x)[k] = p[k]
        BY LastReplaced, Zenon
      <4> QED
        BY <2>2, <4>1, <4>2
    <3>3. DOMAIN r = DOMAIN turns
      BY <3>1, <3>2
    <3>4. Placed(l, r, i)
      BY <1>5, <3>1, <3>2, <3>3 DEF Placed
    <3>5. ASSUME NEW j \in 1..n, Placed(l, turns, j)
          PROVE  Placed(l, r, j)
      <4>1. CASE l[j].kind \in {"blank", "todo"}
        BY <4>1 DEF Placed
      <4>2. CASE \E k \in DOMAIN turns : PlacedIn(l, turns[k], j)
        <5>1. PICK k \in DOMAIN turns : PlacedIn(l, turns[k], j)
          BY <4>2
        <5>2. CASE k = Len(turns)
          <6>1. PlacedIn(l, t, j)
            BY <1>5, <3>1, <5>1, <5>2 DEF PlacedIn
          <6> QED
            BY <3>1, <3>2, <3>3, <6>1 DEF Placed
        <5>3. CASE k # Len(turns)
          <6>1. k \in 1..(Len(turns) - 1)
            BY <3>1, <5>1, <5>3
          <6> QED
            BY <3>2, <3>3, <5>1, <6>1 DEF Placed
        <5> QED
          BY <5>2, <5>3
      <4> QED
        BY <3>5, <4>1, <4>2 DEF Placed
    <3> QED
      BY <3>2, <3>4, <3>5
  <2> QED
    BY <2>1, <2>2
<1>6. last.tools \in Seq(1..n) /\ last.assistants \in Seq(1..n) /\ last.user \in 0..n
  BY <1>1 DEF Turn
<1>7. CASE l[i].kind \in ToolKinds
  <2> DEFINE s == Append(last.tools, i)
             t == [last EXCEPT !.tools = s]
  <2>1. s \in Seq(1..n) /\ ToSet(s) = ToSet(last.tools) \cup {i}
    <3>1. \A p \in Seq(1..n) : \A x \in 1..n :
             Append(p, x) \in Seq(1..n) /\ ToSet(Append(p, x)) = ToSet(p) \cup {x}
      BY AppendedMembers, Zenon
    <3> QED
      BY <1>6, <3>1
  <2> HIDE DEF s
  <2>2. t \in Turn(n) /\ t.tools = s /\ t.user = last.user /\ t.assistants = last.assistants
    BY <1>1, <2>1 DEF Turn
  <2>3. r = Append(others, t)
    BY <1>2, <1>7 DEF s, ToolKinds
  <2> HIDE DEF t
  <2>4. PlacedIn(l, t, i)
    BY <1>7, <2>1, <2>2 DEF PlacedIn, ToolKinds
  <2> QED
    BY <1>5, <2>1, <2>2, <2>3, <2>4 DEF r
<1>8. CASE l[i].kind \in {"answer", "blank"}
  <2> DEFINE s == Append(last.assistants, i)
             t == [last EXCEPT !.assistants = s]
  <2>1. s \in Seq(1..n) /\ ToSet(s) = ToSet(last.assistants) \cup {i}
    <3>1. \A p \in Seq(1..n) : \A x \in 1..n :
             Append(p, x) \in Seq(1..n) /\ ToSet(Append(p, x)) = ToSet(p) \cup {x}
      BY AppendedMembers, Zenon
    <3> QED
      BY <1>6, <3>1
  <2> HIDE DEF s
  <2>2. t \in Turn(n) /\ t.assistants = s /\ t.user = last.user /\ t.tools = last.tools
    BY <1>1, <2>1 DEF Turn
  <2>3. r = Append(others, t)
    BY <1>2, <1>8 DEF s, ToolKinds
  <2> HIDE DEF t
  <2>4. PlacedIn(l, t, i)
    BY <1>8, <2>1, <2>2 DEF PlacedIn, ToolKinds
  <2> QED
    BY <1>5, <2>1, <2>2, <2>3, <2>4 DEF r
<1> QED
  BY <1>3, <1>4, <1>7, <1>8 DEF Kinds
(* Adding a message, as a function.                                        *)
TurnStep(l, n) == [p \in (1..n) \X Seq(Turn(n)) |-> AddToTurns(l, p[2], p[1])]

(* The turns of a list are those of the fold over its places.              *)
LEMMA TurnsAreFolded ==
  ASSUME NEW n \in Nat, NEW l, DOMAIN l = 1..n, \A i \in 1..n : l[i].kind \in Kinds
  PROVE  \E F : /\ FoldsOver(F, n, Seq(Turn(n)), <<>>, TurnStep(l, n))
                /\ BuildTurns(l) = F[1..n]
<1> DEFINE T == Seq(Turn(n))
           Recursion(F) == F = [s \in SUBSET (1..n) |->
                                  IF s = {} THEN <<>>
                                  ELSE AddToTurns(l, F[s \ {Max(s)}], IndexedMessages(l)[Max(s)])]
           G == CHOOSE F : Recursion(F)
<1>1. \A t \in T : \A i \in 1..n : AddToTurns(l, t, i) \in T
  BY AddedToTurns
<1>2. TurnStep(l, n) \in [(1..n) \X T -> T]
  BY <1>1 DEF TurnStep
<1>3. <<>> \in T
  OBVIOUS
<1> HIDE DEF T
<1>4. PICK F : FoldsOver(F, n, T, <<>>, TurnStep(l, n))
  BY <1>2, <1>3, FoldExists
<1>5. \A s \in SUBSET (1..n) : s # {} => Max(s) \in 1..n
  <2> SUFFICES ASSUME NEW s \in SUBSET (1..n), s # {}
               PROVE  Max(s) \in 1..n
    OBVIOUS
  <2>1. Max(s) \in s
    BY LargestIsInside
  <2> QED
    BY <2>1
<1>6. \A s \in SUBSET (1..n) : s # {} => \A t \in T :
         TurnStep(l, n)[<<Max(s), t>>] = AddToTurns(l, t, IndexedMessages(l)[Max(s)])
  BY <1>5 DEF TurnStep, T, IndexedMessages
<1>7. Recursion(F)
  <2>1. F \in [SUBSET (1..n) -> T] /\ F[{}] = <<>>
    BY <1>4 DEF FoldsOver
  <2>2. ASSUME NEW s \in SUBSET (1..n), s # {}
        PROVE  F[s] = AddToTurns(l, F[s \ {Max(s)}], IndexedMessages(l)[Max(s)])
    <3>1. s \ {Max(s)} \in SUBSET (1..n)
      OBVIOUS
    <3>2. F[s] = TurnStep(l, n)[<<Max(s), F[s \ {Max(s)}]>>]
      BY <1>4, <2>2 DEF FoldsOver
    <3>3. F[s \ {Max(s)}] \in T
      BY <2>1, <3>1
    <3> QED
      BY <1>6, <2>2, <3>2, <3>3
  <2> QED
    BY <2>1, <2>2
<1>8. Recursion(G)
  <2> HIDE DEF Recursion
  <2> QED
    BY <1>7
<1>9. BuildTurns(l) = G[1..n]
  BY DEF BuildTurns, FoldLeft, MapThenFoldSet, IndexedMessages
<1>10. FoldsOver(G, n, T, <<>>, TurnStep(l, n))
  <2>1. G = [s \in SUBSET (1..n) |-> G[s]] /\ G[{}] = <<>>
    BY <1>8
  <2>2. ASSUME NEW s \in SUBSET (1..n), s # {}, G[s \ {Max(s)}] \in T
        PROVE  G[s] = TurnStep(l, n)[<<Max(s), G[s \ {Max(s)}]>>]
    BY <1>6, <1>8, <2>2
  <2> HIDE DEF G
  <2> QED
    BY <1>2, <1>3, <2>1, <2>2, FoldStaysInside
<1> QED
  BY <1>9, <1>10 DEF T

(* Every message of a list is in one of its turns, where its kind belongs. *)
LEMMA TurnsPlaceAll ==
  ASSUME NEW n \in Nat, NEW l, DOMAIN l = 1..n, \A i \in 1..n : l[i].kind \in Kinds
  PROVE  /\ BuildTurns(l) \in Seq(Turn(n))
         /\ \A i \in 1..n : Placed(l, BuildTurns(l), i)
<1>1. PICK F : /\ FoldsOver(F, n, Seq(Turn(n)), <<>>, TurnStep(l, n))
               /\ BuildTurns(l) = F[1..n]
  BY TurnsAreFolded
<1> DEFINE PlacedTo(m) == /\ F[1..m] \in Seq(Turn(n))
                          /\ \A i \in 1..m : Placed(l, F[1..m], i)
           S == {m \in Nat : m <= n => PlacedTo(m)}
<1>2. F[1..0] = <<>> /\ \A k \in 1..n : /\ F[1..k] = TurnStep(l, n)[<<k, F[1..(k - 1)]>>]
                                        /\ F[1..(k - 1)] \in Seq(Turn(n))
  BY <1>1, FoldIsRecursion
<1>3. PlacedTo(0)
  BY <1>2
<1>4. ASSUME NEW m \in Nat, m + 1 <= n, PlacedTo(m)
      PROVE  PlacedTo(m + 1)
  <2> DEFINE old == F[1..m]
             new == F[1..(m + 1)]
  <2>1. m + 1 \in 1..n /\ (m + 1) - 1 = m
    BY <1>4
  <2>2. old \in Seq(Turn(n)) /\ new = TurnStep(l, n)[<<m + 1, old>>]
    BY <1>2, <2>1
  <2>3. \A i \in 1..m : Placed(l, old, i)
    BY <1>4
  <2> HIDE DEF old, new
  <2>4. new = AddToTurns(l, old, m + 1)
    BY <2>1, <2>2 DEF TurnStep
  <2>5. /\ new \in Seq(Turn(n)) /\ Placed(l, new, m + 1)
        /\ \A j \in 1..n : Placed(l, old, j) => Placed(l, new, j)
    BY <2>1, <2>2, <2>4, AddedToTurns
  <2>6. ASSUME NEW i \in 1..(m + 1)
        PROVE  Placed(l, new, i)
    <3>1. i \in 1..n
      BY <2>1
    <3>2. CASE i = m + 1
      BY <2>5, <3>2
    <3>3. CASE i # m + 1
      <4>1. i \in 1..m
        BY <3>3
      <4> QED
        BY <2>3, <2>5, <3>1, <4>1
    <3> QED
      BY <3>2, <3>3
  <2> QED
    BY <2>5, <2>6 DEF new
<1> HIDE DEF PlacedTo
<1>5. n \in S
  <2>1. 0 \in S
    BY <1>3
  <2>2. \A m \in Nat : m \in S => m + 1 \in S
    BY <1>4
  <2> HIDE DEF S
  <2> QED
    BY <2>1, <2>2, SetInduction
<1>6. PlacedTo(n)
  BY <1>5
<1> QED
  BY <1>1, <1>6 DEF PlacedTo
-----------------------------------------------------------------------------
(* The batches of tool messages.                                           *)

(* Batches of the messages at the places 1..n: sequences that are not empty. *)
Batch(n) == {b \in Seq(1..n) : b # <<>>}

(* Place i is in one of the batches.                                       *)
Batched(batches, i) == \E k \in DOMAIN batches : i \in ToSet(batches[k])

(* Adding a message gives batches again, with that message and those that  *)
(* were there.                                                             *)
LEMMA AddedToBatches ==
  ASSUME NEW l, NEW n \in Nat, NEW i \in 1..n, NEW batches \in Seq(Batch(n))
  PROVE  /\ AddToBatches(l, batches, i) \in Seq(Batch(n))
         /\ Batched(AddToBatches(l, batches, i), i)
         /\ \A j \in 1..n : Batched(batches, j) => Batched(AddToBatches(l, batches, i), j)
<1> DEFINE r == AddToBatches(l, batches, i)
           joins == batches # <<>> /\ l[Last(Last(batches))].kind = l[i].kind
<1>1. \A p \in Seq(1..n) : \A x \in 1..n :
        Append(p, x) \in Seq(1..n) /\ ToSet(Append(p, x)) = ToSet(p) \cup {x}
  BY AppendedMembers, Zenon
<1>2. CASE joins
  <2> DEFINE last == batches[Len(batches)]
             b == Append(last, i)
  <2>1. Len(batches) \in Nat /\ Len(batches) \in 1..Len(batches) /\ DOMAIN batches = 1..Len(batches)
    BY <1>2
  <2>2. last \in Batch(n)
    BY <2>1
  <2>3. r = Append(Front(batches), b)
    BY <1>2 DEF AddToBatches, Last
  <2> HIDE DEF last
  <2>4. b \in Batch(n) /\ ToSet(b) = ToSet(last) \cup {i}
    <3>1. last \in Seq(1..n)
      BY <2>2 DEF Batch
    <3>2. b \in Seq(1..n) /\ ToSet(b) = ToSet(last) \cup {i}
      BY <1>1, <3>1
    <3>3. b # <<>>
      BY <3>1
    <3> HIDE DEF b
    <3> QED
      BY <3>2, <3>3 DEF Batch
  <2> HIDE DEF b, r
  <2>5. \A p \in Seq(Batch(n)) : p # <<>> => \A x \in Batch(n) :
          /\ Append(Front(p), x) \in Seq(Batch(n)) /\ Len(Append(Front(p), x)) = Len(p)
          /\ Append(Front(p), x)[Len(p)] = x
          /\ \A k \in 1..(Len(p) - 1) : Append(Front(p), x)[k] = p[k]
    BY LastReplaced, Zenon
  <2>6. /\ r \in Seq(Batch(n)) /\ Len(r) = Len(batches) /\ r[Len(batches)] = b
        /\ \A k \in 1..(Len(batches) - 1) : r[k] = batches[k]
    BY <1>2, <2>3, <2>4, <2>5
  <2>7. DOMAIN r = DOMAIN batches
    BY <2>1, <2>6
  <2>8. Batched(r, i)
    BY <2>1, <2>4, <2>6, <2>7 DEF Batched
  <2>9. ASSUME NEW j \in 1..n, Batched(batches, j)
        PROVE  Batched(r, j)
    <3>1. PICK k \in DOMAIN batches : j \in ToSet(batches[k])
      BY <2>9 DEF Batched
    <3>2. CASE k = Len(batches)
      BY <2>1, <2>4, <2>6, <2>7, <3>1, <3>2 DEF Batched, last
    <3>3. CASE k # Len(batches)
      <4>1. k \in 1..(Len(batches) - 1)
        BY <2>1, <3>1, <3>3
      <4> QED
        BY <2>6, <2>7, <3>1, <4>1 DEF Batched
    <3> QED
      BY <3>2, <3>3
  <2> QED
    BY <2>6, <2>8, <2>9 DEF r
<1>3. CASE ~joins
  <2> DEFINE b == <<i>>
  <2>1. r = Append(batches, b)
    BY <1>3 DEF AddToBatches
  <2>2. b \in Batch(n) /\ i \in ToSet(b)
    BY DEF Batch, ToSet
  <2> HIDE DEF b, r
  <2>3. /\ r \in Seq(Batch(n)) /\ DOMAIN r = 1..(Len(batches) + 1) /\ r[Len(batches) + 1] = b
        /\ \A k \in 1..Len(batches) : r[k] = batches[k]
        /\ Len(batches) \in Nat /\ DOMAIN batches = 1..Len(batches)
    BY <2>1, <2>2
  <2>4. Batched(r, i)
    BY <2>2, <2>3 DEF Batched
  <2>5. \A j \in 1..n : Batched(batches, j) => Batched(r, j)
    BY <2>3 DEF Batched
  <2> QED
    BY <2>3, <2>4, <2>5 DEF r
<1> QED
  BY <1>2, <1>3

(* Adding the tool message at a place of s, as a function.                 *)
BatchStep(l, s, n) == [p \in (1..Len(s)) \X Seq(Batch(n)) |-> AddToBatches(l, p[2], s[p[1]])]

(* The batches of the tool messages s are those of the fold over s.        *)
LEMMA BatchesAreFolded ==
  ASSUME NEW n \in Nat, NEW l, NEW tools \in Seq(1..n)
  PROVE  \E F : /\ FoldsOver(F, Len(tools), Seq(Batch(n)), <<>>, BatchStep(l, tools, n))
                /\ BatchToolMessages(l, tools) = F[1..Len(tools)]
<1> DEFINE T == Seq(Batch(n))
           m == Len(tools)
           Recursion(F) == F = [s \in SUBSET (1..m) |->
                                  IF s = {} THEN <<>>
                                  ELSE AddToBatches(l, F[s \ {Max(s)}], tools[Max(s)])]
           G == CHOOSE F : Recursion(F)
<1>a. m \in Nat /\ DOMAIN tools = 1..m /\ \A k \in 1..m : tools[k] \in 1..n
  OBVIOUS
<1> HIDE DEF m
<1>1. \A t \in T : \A i \in 1..n : AddToBatches(l, t, i) \in T
  BY AddedToBatches
<1>2. BatchStep(l, tools, n) \in [(1..m) \X T -> T]
  BY <1>1, <1>a DEF BatchStep, m
<1>3. <<>> \in T
  OBVIOUS
<1> HIDE DEF T
<1>4. PICK F : FoldsOver(F, m, T, <<>>, BatchStep(l, tools, n))
  BY <1>2, <1>3, <1>a, FoldExists
<1>5. \A s \in SUBSET (1..m) : s # {} => Max(s) \in 1..m
  <2> SUFFICES ASSUME NEW s \in SUBSET (1..m), s # {}
               PROVE  Max(s) \in 1..m
    OBVIOUS
  <2>1. Max(s) \in s
    BY <1>a, LargestIsInside
  <2> QED
    BY <2>1
<1>6. \A s \in SUBSET (1..m) : s # {} => \A t \in T :
         BatchStep(l, tools, n)[<<Max(s), t>>] = AddToBatches(l, t, tools[Max(s)])
  BY <1>5 DEF BatchStep, T, m
<1>7. Recursion(F)
  <2>1. F \in [SUBSET (1..m) -> T] /\ F[{}] = <<>>
    BY <1>4 DEF FoldsOver
  <2>2. ASSUME NEW s \in SUBSET (1..m), s # {}
        PROVE  F[s] = AddToBatches(l, F[s \ {Max(s)}], tools[Max(s)])
    <3>1. s \ {Max(s)} \in SUBSET (1..m)
      OBVIOUS
    <3>2. F[s] = BatchStep(l, tools, n)[<<Max(s), F[s \ {Max(s)}]>>]
      BY <1>4, <2>2 DEF FoldsOver
    <3>3. F[s \ {Max(s)}] \in T
      BY <2>1, <3>1
    <3> QED
      BY <1>6, <2>2, <3>2, <3>3
  <2> QED
    BY <2>1, <2>2
<1>8. Recursion(G)
  <2> HIDE DEF Recursion
  <2> QED
    BY <1>7
<1>9. BatchToolMessages(l, tools) = G[1..m]
  BY <1>a DEF BatchToolMessages, FoldLeft, MapThenFoldSet
<1>10. FoldsOver(G, m, T, <<>>, BatchStep(l, tools, n))
  <2>1. G = [s \in SUBSET (1..m) |-> G[s]] /\ G[{}] = <<>>
    BY <1>8
  <2>2. ASSUME NEW s \in SUBSET (1..m), s # {}, G[s \ {Max(s)}] \in T
        PROVE  G[s] = BatchStep(l, tools, n)[<<Max(s), G[s \ {Max(s)}]>>]
    BY <1>6, <1>8, <2>2
  <2> HIDE DEF G
  <2> QED
    BY <1>2, <1>3, <1>a, <2>1, <2>2, FoldStaysInside
<1> QED
  BY <1>9, <1>10 DEF T, m

(* Every tool message is in a batch, and the batches have only them.       *)
LEMMA BatchesHaveAll ==
  ASSUME NEW n \in Nat, NEW l, NEW tools \in Seq(1..n)
  PROVE  /\ BatchToolMessages(l, tools) \in Seq(Batch(n))
         /\ \A i \in ToSet(tools) : Batched(BatchToolMessages(l, tools), i)
<1> DEFINE m == Len(tools)
<1>1. PICK F : /\ FoldsOver(F, m, Seq(Batch(n)), <<>>, BatchStep(l, tools, n))
               /\ BatchToolMessages(l, tools) = F[1..m]
  BY BatchesAreFolded
<1>a. m \in Nat /\ DOMAIN tools = 1..m /\ \A k \in 1..m : tools[k] \in 1..n
  OBVIOUS
<1> DEFINE Has(j) == /\ F[1..j] \in Seq(Batch(n))
                     /\ \A k \in 1..j : Batched(F[1..j], tools[k])
           S == {j \in Nat : j <= m => Has(j)}
<1> HIDE DEF m
<1>2. F[1..0] = <<>> /\ \A k \in 1..m : /\ F[1..k] = BatchStep(l, tools, n)[<<k, F[1..(k - 1)]>>]
                                        /\ F[1..(k - 1)] \in Seq(Batch(n))
  BY <1>1, <1>a, FoldIsRecursion
<1>3. Has(0)
  BY <1>2
<1>4. ASSUME NEW j \in Nat, j + 1 <= m, Has(j)
      PROVE  Has(j + 1)
  <2> DEFINE old == F[1..j]
             new == F[1..(j + 1)]
  <2>1. j + 1 \in 1..m /\ (j + 1) - 1 = j
    BY <1>4, <1>a
  <2>2. old \in Seq(Batch(n)) /\ new = BatchStep(l, tools, n)[<<j + 1, old>>]
    BY <1>2, <2>1
  <2>3. \A k \in 1..j : Batched(old, tools[k])
    BY <1>4
  <2> HIDE DEF old, new
  <2>4. new = AddToBatches(l, old, tools[j + 1])
    BY <2>1, <2>2 DEF BatchStep, m
  <2>5. /\ new \in Seq(Batch(n)) /\ Batched(new, tools[j + 1])
        /\ \A i \in 1..n : Batched(old, i) => Batched(new, i)
    <3> DEFINE i == tools[j + 1]
    <3>1. i \in 1..n
      BY <1>a, <2>1
    <3> HIDE DEF i
    <3>2. AddToBatches(l, old, i) \in Seq(Batch(n)) /\ Batched(AddToBatches(l, old, i), i)
          /\ \A o \in 1..n : Batched(old, o) => Batched(AddToBatches(l, old, i), o)
      BY <2>2, <3>1, AddedToBatches
    <3> QED
      BY <2>4, <3>2 DEF i
  <2>6. ASSUME NEW k \in 1..(j + 1)
        PROVE  Batched(new, tools[k])
    <3>1. k \in 1..m
      BY <1>a, <2>1
    <3>2. CASE k = j + 1
      BY <2>5, <3>2
    <3>3. CASE k # j + 1
      <4>1. k \in 1..j
        BY <3>3
      <4> QED
        BY <1>a, <2>3, <2>5, <3>1, <4>1
    <3> QED
      BY <3>2, <3>3
  <2> QED
    BY <2>5, <2>6 DEF new
<1> HIDE DEF Has
<1>5. m \in S
  <2>1. 0 \in S
    BY <1>3
  <2>2. \A j \in Nat : j \in S => j + 1 \in S
    BY <1>4, <1>a
  <2> HIDE DEF S
  <2> QED
    BY <1>a, <2>1, <2>2, SetInduction
<1>6. Has(m)
  BY <1>5, <1>a
<1>7. /\ F[1..m] \in Seq(Batch(n))
      /\ \A k \in 1..m : Batched(F[1..m], tools[k])
  BY <1>6 DEF Has
<1> QED
  BY <1>1, <1>7, <1>a DEF ToSet
-----------------------------------------------------------------------------
(* The list without some of its messages.                                  *)

(* Keeping the message at a place or not, as a function.                   *)
KeepStep(l, at, M) ==
  [p \in (1..Len(l)) \X Seq(M) |-> IF p[1] \in at THEN p[2] ELSE Append(p[2], l[p[1]])]

(* It is a list of the same kind of messages.                              *)
LEMMA WithoutIsList ==
  ASSUME NEW M, NEW l \in Seq(M), NEW at
  PROVE  Without(l, at) \in Seq(M)
<1> DEFINE T == Seq(M)
           m == Len(l)
           Recursion(F) == F = [s \in SUBSET (1..m) |->
                                  IF s = {} THEN <<>>
                                  ELSE IF IndexedMessages(l)[Max(s)] \in at THEN F[s \ {Max(s)}]
                                       ELSE Append(F[s \ {Max(s)}], l[IndexedMessages(l)[Max(s)]])]
           G == CHOOSE F : Recursion(F)
<1>1. m \in Nat /\ DOMAIN l = 1..m /\ \A k \in 1..m : l[k] \in M
  OBVIOUS
<1>2. \A t \in T : \A x \in M : Append(t, x) \in T
  OBVIOUS
<1>3. <<>> \in T
  OBVIOUS
<1> HIDE DEF m, T
<1>4. KeepStep(l, at, M) \in [(1..m) \X T -> T]
  BY <1>1, <1>2 DEF KeepStep, m, T
<1>5. PICK F : FoldsOver(F, m, T, <<>>, KeepStep(l, at, M))
  BY <1>1, <1>3, <1>4, FoldExists
<1>6. \A s \in SUBSET (1..m) : s # {} => Max(s) \in 1..m
  <2> SUFFICES ASSUME NEW s \in SUBSET (1..m), s # {}
               PROVE  Max(s) \in 1..m
    OBVIOUS
  <2>1. Max(s) \in s
    BY <1>1, LargestIsInside
  <2> QED
    BY <2>1
<1>7. \A s \in SUBSET (1..m) : s # {} => \A t \in T :
         KeepStep(l, at, M)[<<Max(s), t>>] = IF IndexedMessages(l)[Max(s)] \in at THEN t
                                             ELSE Append(t, l[IndexedMessages(l)[Max(s)]])
  BY <1>1, <1>6 DEF KeepStep, T, m, IndexedMessages
<1>8. Recursion(F)
  <2>1. F \in [SUBSET (1..m) -> T] /\ F[{}] = <<>>
    BY <1>5 DEF FoldsOver
  <2>2. ASSUME NEW s \in SUBSET (1..m), s # {}
        PROVE  F[s] = IF IndexedMessages(l)[Max(s)] \in at THEN F[s \ {Max(s)}]
                      ELSE Append(F[s \ {Max(s)}], l[IndexedMessages(l)[Max(s)]])
    <3>1. s \ {Max(s)} \in SUBSET (1..m)
      OBVIOUS
    <3>2. F[s] = KeepStep(l, at, M)[<<Max(s), F[s \ {Max(s)}]>>]
      BY <1>5, <2>2 DEF FoldsOver
    <3>3. F[s \ {Max(s)}] \in T
      BY <2>1, <3>1
    <3> QED
      BY <1>7, <2>2, <3>2, <3>3
  <2> QED
    BY <2>1, <2>2
<1>9. Recursion(G)
  <2> HIDE DEF Recursion
  <2> QED
    BY <1>8
<1>10. Without(l, at) = G[1..m]
  BY <1>1 DEF Without, FoldLeft, MapThenFoldSet, IndexedMessages
<1>11. FoldsOver(G, m, T, <<>>, KeepStep(l, at, M))
  <2>1. G = [s \in SUBSET (1..m) |-> G[s]] /\ G[{}] = <<>>
    BY <1>9
  <2>2. ASSUME NEW s \in SUBSET (1..m), s # {}, G[s \ {Max(s)}] \in T
        PROVE  G[s] = KeepStep(l, at, M)[<<Max(s), G[s \ {Max(s)}]>>]
    BY <1>7, <1>9, <2>2
  <2> HIDE DEF G
  <2> QED
    BY <1>1, <1>3, <1>4, <2>1, <2>2, FoldStaysInside
<1>12. 1..m \in SUBSET (1..m) /\ G \in [SUBSET (1..m) -> T]
  BY <1>11 DEF FoldsOver
<1> HIDE DEF G
<1> QED
  BY <1>10, <1>12 DEF T

-----------------------------------------------------------------------------
(* The delete buttons.                                                     *)

(* What the buttons of turn t of list l delete, when "cards" has the turns *)
(* with a step group.                                                      *)
TurnButtons(l, cards, t, turn) ==
  {BubbleButton(i) : i \in {turn.user} \ {0}}
     \cup {BubbleButton(i) : i \in AssistantItems(l, turn.assistants)}
     \cup IF t \in cards THEN StepCardButtons(l, turn.tools)
          ELSE ToolGroupButtons(l, turn.tools)

(* The buttons of the tool messages of a turn delete these, and no others, *)
(* whatever they are shown as.                                             *)
LEMMA ToolButtons ==
  ASSUME NEW n \in Nat, NEW l, NEW tools \in Seq(1..n),
         NEW B \in {StepCardButtons(l, tools), ToolGroupButtons(l, tools)}
  PROVE  /\ \A b \in B : b \subseteq 1..n
         /\ \A i \in ToSet(tools) : \E b \in B : i \in b
<1> DEFINE batches == BatchToolMessages(l, tools)
<1>1. batches \in Seq(Batch(n)) /\ \A i \in ToSet(tools) : Batched(batches, i)
  BY BatchesHaveAll
<1> HIDE DEF batches
<1>2. \A b \in ToSet(batches) : b \in Seq(1..n)
  BY <1>1, MembersInside DEF Batch
<1>3. \A b \in ToSet(batches) : BatchButton(b) \subseteq 1..n
  <2> SUFFICES ASSUME NEW b \in ToSet(batches)
               PROVE  ToSet(b) \subseteq 1..n
    BY DEF BatchButton
  <2>1. b \in Seq(1..n)
    BY <1>2
  <2> QED
    BY <2>1, MembersInside
<1>4. ToSet(tools) \subseteq 1..n
  BY MembersInside
<1>5. \A i \in ToSet(tools) : \E b \in ToSet(batches) : i \in BatchButton(b)
  <2> SUFFICES ASSUME NEW i \in ToSet(tools)
               PROVE  \E b \in ToSet(batches) : i \in BatchButton(b)
    OBVIOUS
  <2>1. PICK k \in DOMAIN batches : i \in ToSet(batches[k])
    BY <1>1 DEF Batched
  <2>2. batches[k] \in ToSet(batches)
    BY DEF ToSet
  <2> QED
    BY <2>1, <2>2 DEF BatchButton
<1>6. StepCardButtons(l, tools) = {BatchButton(b) : b \in ToSet(batches)}
  BY DEF StepCardButtons, batches
<1>7. ToolGroupButtons(l, tools) =
        IF tools = <<>> THEN {}
        ELSE {ToSet(tools)} \cup {BatchButton(b) : b \in ToSet(batches)}
  BY DEF ToolGroupButtons, batches
<1>8. tools = <<>> => ToSet(tools) = {}
  BY DEF ToSet
<1> QED
  BY <1>3, <1>4, <1>5, <1>6, <1>7, <1>8

(* The buttons of a list delete messages of it, and every message with a   *)
(* text has a button.                                                      *)
LEMMA ButtonsOfList ==
  ASSUME NEW M, NEW l \in Seq(M), \A x \in M : x.kind \in Kinds, NEW cards
  PROVE  /\ \A b \in DeleteButtons(l, cards) : b \subseteq DOMAIN l
         /\ \A i \in DOMAIN l : l[i].kind \notin {"blank", "todo"} => i \in UNION DeleteButtons(l, cards)
<1> DEFINE n == Len(l)
           turns == BuildTurns(l)
<1>1. n \in Nat /\ DOMAIN l = 1..n /\ \A i \in 1..n : l[i].kind \in Kinds
  OBVIOUS
<1> HIDE DEF n
<1>2. turns \in Seq(Turn(n)) /\ \A i \in 1..n : Placed(l, turns, i)
  BY <1>1, TurnsPlaceAll
<1>3. DeleteButtons(l, cards) = UNION {TurnButtons(l, cards, t, turns[t]) : t \in DOMAIN turns}
  BY DEF DeleteButtons, TurnButtons
<1> HIDE DEF turns
<1>4. \A t \in DOMAIN turns : turns[t] \in Turn(n)
  BY <1>2
<1>5. ASSUME NEW t \in DOMAIN turns, NEW b \in TurnButtons(l, cards, t, turns[t])
      PROVE  b \subseteq 1..n
  <2>1. /\ turns[t].user \in 0..n /\ turns[t].tools \in Seq(1..n)
        /\ turns[t].assistants \in Seq(1..n)
    BY <1>4 DEF Turn
  <2>2. CASE b \in {BubbleButton(i) : i \in {turns[t].user} \ {0}}
    BY <1>1, <2>1, <2>2 DEF BubbleButton
  <2>3. CASE b \in {BubbleButton(i) : i \in AssistantItems(l, turns[t].assistants)}
    <3>1. ToSet(turns[t].assistants) \subseteq 1..n
      BY <2>1, MembersInside
    <3> QED
      BY <2>3, <3>1 DEF BubbleButton, AssistantItems
  <2>4. CASE b \in StepCardButtons(l, turns[t].tools)
    <3> DEFINE B == StepCardButtons(l, turns[t].tools)
               tools == turns[t].tools
    <3>1. \A c \in B : c \subseteq 1..n
      BY <1>1, <2>1, ToolButtons
    <3> QED
      BY <2>4, <3>1
  <2>5. CASE b \in ToolGroupButtons(l, turns[t].tools)
    <3> DEFINE B == ToolGroupButtons(l, turns[t].tools)
    <3>1. \A c \in B : c \subseteq 1..n
      BY <1>1, <2>1, ToolButtons
    <3> QED
      BY <2>5, <3>1
  <2> QED
    BY <2>2, <2>3, <2>4, <2>5 DEF TurnButtons
<1>6. ASSUME NEW i \in 1..n, l[i].kind \notin {"blank", "todo"}
      PROVE  \E t \in DOMAIN turns : \E b \in TurnButtons(l, cards, t, turns[t]) : i \in b
  <2>1. PICK t \in DOMAIN turns : PlacedIn(l, turns[t], i)
    BY <1>2, <1>6 DEF Placed
  <2> DEFINE turn == turns[t]
  <2>2. turn.user \in 0..n /\ turn.tools \in Seq(1..n) /\ turn.assistants \in Seq(1..n)
    BY <1>4 DEF Turn
  <2>3. l[i].kind = "user" \/ l[i].kind = "answer" \/ l[i].kind \in ToolKinds
    BY <1>1, <1>6 DEF Kinds
  <2> HIDE DEF turn
  <2>4. PlacedIn(l, turn, i)
    BY <2>1 DEF turn
  <2>5. CASE l[i].kind = "user"
    <3>1. i \in {turn.user} \ {0}
      BY <1>1, <2>4, <2>5 DEF PlacedIn
    <3>2. BubbleButton(i) \in TurnButtons(l, cards, t, turn)
      BY <3>1 DEF TurnButtons
    <3> QED
      BY <3>2 DEF BubbleButton, turn
  <2>6. CASE l[i].kind = "answer"
    <3>1. i \in AssistantItems(l, turn.assistants)
      BY <1>6, <2>4, <2>6 DEF PlacedIn, AssistantItems
    <3>2. BubbleButton(i) \in TurnButtons(l, cards, t, turn)
      BY <3>1 DEF TurnButtons
    <3> QED
      BY <3>2 DEF BubbleButton, turn
  <2>7. CASE l[i].kind \in ToolKinds
    <3>1. i \in ToSet(turn.tools)
      BY <2>4, <2>7 DEF PlacedIn
    <3>2. \E b \in StepCardButtons(l, turn.tools) : i \in b
      BY <1>1, <2>2, <3>1, ToolButtons
    <3>3. \E b \in ToolGroupButtons(l, turn.tools) : i \in b
      BY <1>1, <2>2, <3>1, ToolButtons
    <3>4. \E b \in TurnButtons(l, cards, t, turn) : i \in b
      BY <3>2, <3>3 DEF TurnButtons
    <3> QED
      BY <3>4 DEF turn
  <2> QED
    BY <2>3, <2>5, <2>6, <2>7
<1> QED
  BY <1>1, <1>3, <1>5, <1>6
-----------------------------------------------------------------------------
(* What holds of the lists and the deletion.                               *)

(* List a is what list h begins with.                                      *)
Begins(a, h) == DOMAIN a \subseteq DOMAIN h /\ \A i \in DOMAIN a : a[i] = h[i]

(* Deletion d is not hasty only if it names what it means in history h.    *)
Means(d, h) == ~d.hasty => /\ d.at \subseteq DOMAIN h
                           /\ {h[i].id : i \in d.at} = d.meant

(* At most one deletion is in flight, and a final event is on its way only *)
(* while the page reads.                                                   *)
OneRemoval == Len(removal) <= 1
ReadsAnswer == answer # <<>> => reading

(* When no later list is to arrive and nothing is added to the list, it is *)
(* what the history begins with; and so is a list under way, unless it may *)
(* have been read before a deletion the page has not heard of.             *)
ListIsKnown == awaited = 0 /\ ~reading /\ removal # Served => Begins(sessionMessages, history)
FetchedIsKnown == fetched # <<>> /\ awaited # 2 /\ removal # Served => Begins(fetched[1], history)

(* The deletion in flight names what it means.                             *)
RemovalMeans == removal # <<>> => Means(removal[1], history)

TimelineInv ==
  /\ TimelineTypeOK /\ OneRemoval /\ ReadsAnswer
  /\ ListIsKnown /\ FetchedIsKnown /\ RemovalMeans
(* A history that grows begins with what it began with, and a deletion     *)
(* goes on naming what it means.                                           *)
LEMMA LongerHistory ==
  ASSUME NEW h \in Seq(Message), NEW x \in Message
  PROVE  /\ Append(h, x) \in Seq(Message)
         /\ \A a : Begins(a, h) => Begins(a, Append(h, x))
         /\ \A d : Means(d, h) => Means(d, Append(h, x))
<1> DEFINE r == Append(h, x)
<1>1. /\ r \in Seq(Message) /\ DOMAIN h \subseteq DOMAIN r
      /\ \A i \in DOMAIN h : r[i] = h[i]
  OBVIOUS
<1> HIDE DEF r
<1>2. ASSUME NEW a, Begins(a, h)
      PROVE  Begins(a, r)
  BY <1>1, <1>2 DEF Begins
<1>3. ASSUME NEW d, Means(d, h)
      PROVE  Means(d, r)
  <2> SUFFICES ASSUME ~d.hasty
               PROVE  d.at \subseteq DOMAIN r /\ {r[i].id : i \in d.at} = d.meant
    BY DEF Means
  <2>1. d.at \subseteq DOMAIN h /\ {h[i].id : i \in d.at} = d.meant
    BY <1>3 DEF Means
  <2>2. \A i \in d.at : r[i] = h[i]
    BY <1>1, <2>1
  <2>3. {r[i].id : i \in d.at} = {h[i].id : i \in d.at}
    BY <2>2
  <2> QED
    BY <1>1, <2>1, <2>3
<1> QED
  BY <1>1, <1>2, <1>3 DEF r

(* A new message is one.                                                   *)
LEMMA WrittenIsMessage ==
  ASSUME TimelineTypeOK, lastId < MaxMessages, NEW k \in Kinds
  PROVE  Written(k) \in Message /\ lastId + 1 \in 1..MaxMessages
<1>1. lastId \in Nat /\ MaxMessages \in Nat
  BY MaxMessagesAssumption DEF TimelineTypeOK
<1>2. lastId + 1 \in 1..MaxMessages
  BY <1>1
<1> QED
  BY <1>2 DEF Written, Message

(* Nothing is a list of lists, of messages and of deletions.               *)
LEMMA NothingIsList ==
  /\ <<>> \in Seq(Message) /\ <<>> \in Seq(Seq(Message))
  /\ <<>> \in Seq([at : SUBSET Places, hasty : BOOLEAN, meant : SUBSET (1..MaxMessages)])
<1>1. ASSUME NEW S
      PROVE  <<>> \in Seq(S)
  OBVIOUS
<1> QED
  BY <1>1, Zenon

(* The invariant holds at first.                                           *)
LEMMA TimelineInvInit == TimelineInit => TimelineInv
<1> SUFFICES ASSUME TimelineInit
             PROVE  TimelineInv
  OBVIOUS
<1>1. 0 \in 0..MaxMessages
  BY MaxMessagesAssumption
<1> QED
  <2>1. TimelineTypeOK
    <3>1. /\ history = <<>> /\ sessionMessages = <<>> /\ fetched = <<>> /\ answer = <<>> /\ removal = <<>>
          /\ loading = FALSE /\ awaited = 0 /\ reading = FALSE /\ working = FALSE
          /\ asked_ = 0 /\ lastId = 0 /\ 0 \in 0..2
      BY DEF TimelineInit
    <3> QED
      BY <1>1, <3>1, NothingIsList, Zenon DEF TimelineTypeOK
  <2>2. OneRemoval /\ ReadsAnswer /\ ListIsKnown /\ FetchedIsKnown /\ RemovalMeans
    BY DEF TimelineInit, OneRemoval, ReadsAnswer, ListIsKnown, FetchedIsKnown, RemovalMeans, Begins
  <2> QED
    BY <2>1, <2>2 DEF TimelineInv

(* The requests for the list.                                              *)
LEMMA ListSteps ==
  ASSUME TimelineInv, PollMessages \/ GetSessionMessages \/ MessagesArrive \/ FetchFails
  PROVE  TimelineInv'
<1> USE DEF TimelineInv, OneRemoval, ReadsAnswer, turnVars
<1>1. CASE PollMessages
  BY <1>1 DEF PollMessages, TimelineTypeOK, ListIsKnown, FetchedIsKnown, RemovalMeans
<1>2. CASE GetSessionMessages
  <2>1. TimelineTypeOK'
    BY <1>2 DEF GetSessionMessages, TimelineTypeOK
  <2>2. Begins(history, history)
    BY DEF Begins
  <2>3. fetched'[1] = history
    BY <1>2 DEF GetSessionMessages
  <2> QED
    BY <1>2, <2>1, <2>2, <2>3 DEF GetSessionMessages, ListIsKnown, FetchedIsKnown, RemovalMeans
<1>3. CASE MessagesArrive
  <2>1. fetched[1] \in Seq(Message)
    BY <1>3 DEF MessagesArrive, TimelineTypeOK
  <2>2. awaited \in 0..2 /\ awaited' \in 0..2 /\ (awaited' = 0 => awaited # 2)
    BY <1>3 DEF MessagesArrive, TimelineTypeOK
  <2>3. TimelineTypeOK'
    BY <1>3, <2>1, <2>2, NothingIsList DEF MessagesArrive, TimelineTypeOK
  <2>4. ListIsKnown'
    BY <1>3, <2>2 DEF MessagesArrive, ListIsKnown, FetchedIsKnown
  <2> QED
    BY <1>3, <2>3, <2>4 DEF MessagesArrive, FetchedIsKnown, RemovalMeans
<1>4. CASE FetchFails
  BY <1>4, NothingIsList DEF FetchFails, TimelineTypeOK, ListIsKnown, FetchedIsKnown, RemovalMeans
<1> QED
  BY <1>1, <1>2, <1>3, <1>4

(* A message is sent, or an interrupt is answered.                         *)
LEMMA SendSteps ==
  ASSUME TimelineInv, SendMessage \/ AnswerInterrupt
  PROVE  TimelineInv'
<1> USE DEF TimelineInv, OneRemoval, ReadsAnswer
<1>1. CASE SendMessage
  <2>1. Written("user") \in Message /\ lastId + 1 \in 1..MaxMessages
    BY <1>1, WrittenIsMessage DEF SendMessage, Kinds
  <2>2. sessionMessages' \in Seq(Message)
    BY <1>1, <2>1 DEF SendMessage, TimelineTypeOK
  <2>3. lastId + 1 \in 0..MaxMessages
    BY <2>1
  <2>4. TimelineTypeOK'
    BY <1>1, <2>2, <2>3 DEF SendMessage, TimelineTypeOK
  <2> QED
    BY <1>1, <2>4 DEF SendMessage, ListIsKnown, FetchedIsKnown, RemovalMeans
<1>2. CASE AnswerInterrupt
  BY <1>2 DEF AnswerInterrupt, TimelineTypeOK, ListIsKnown, FetchedIsKnown, RemovalMeans, listVars
<1> QED
  BY <1>1, <1>2

(* The server adds message x to its history, whatever else changes.        *)
LEMMA HistoryGrows ==
  ASSUME TimelineInv, NEW x \in Message, history' = Append(history, x),
         UNCHANGED <<listVars, reading, removal>>
  PROVE  /\ history' \in Seq(Message)
         /\ OneRemoval' /\ ListIsKnown' /\ FetchedIsKnown' /\ RemovalMeans'
<1>1. history \in Seq(Message)
  BY DEF TimelineInv, TimelineTypeOK
<1>2. /\ history' \in Seq(Message)
      /\ \A a : Begins(a, history) => Begins(a, history')
      /\ \A d : Means(d, history) => Means(d, history')
  BY <1>1, LongerHistory
<1>3. OneRemoval'
  BY DEF TimelineInv, OneRemoval
<1>4. ListIsKnown'
  BY <1>2 DEF TimelineInv, ListIsKnown, listVars
<1>5. FetchedIsKnown'
  BY <1>2 DEF TimelineInv, FetchedIsKnown, listVars
<1>6. RemovalMeans'
  BY <1>2 DEF TimelineInv, RemovalMeans
<1> QED
  BY <1>2, <1>3, <1>4, <1>5, <1>6

(* The server at the turn.                                                 *)
LEMMA ServerSteps ==
  ASSUME TimelineInv, TurnAccepted \/ StepWritten \/ TurnAnswered \/ TurnStops
  PROVE  TimelineInv'
<1>1. CASE TurnAccepted
  <2> DEFINE x == [id |-> asked_, kind |-> "user"]
  <2>1. asked_ \in 1..MaxMessages /\ 0 \in 0..MaxMessages
    BY <1>1, MaxMessagesAssumption DEF TurnAccepted, TimelineInv, TimelineTypeOK
  <2>2. x \in Message
    BY <2>1 DEF Message, Kinds
  <2>3. history' = Append(history, x) /\ UNCHANGED <<listVars, reading, removal>>
    BY <1>1 DEF TurnAccepted
  <2> HIDE DEF x
  <2>4. /\ history' \in Seq(Message)
        /\ OneRemoval' /\ ListIsKnown' /\ FetchedIsKnown' /\ RemovalMeans'
    BY <2>2, <2>3, HistoryGrows
  <2> QED
    BY <1>1, <2>1, <2>4 DEF TurnAccepted, TimelineInv, TimelineTypeOK, ReadsAnswer, listVars
<1>2. CASE StepWritten
  <2>1. PICK k \in {"blank", "todo"} \cup ToolKinds : history' = Append(history, Written(k))
    BY <1>2 DEF StepWritten
  <2>2. k \in Kinds
    BY DEF Kinds
  <2> DEFINE x == Written(k)
  <2>3. x \in Message /\ lastId + 1 \in 1..MaxMessages
    BY <1>2, <2>2, WrittenIsMessage DEF StepWritten, TimelineInv
  <2>4. history' = Append(history, x) /\ UNCHANGED <<listVars, reading, removal>>
    BY <1>2, <2>1 DEF StepWritten, turnVars
  <2> HIDE DEF x
  <2>5. /\ history' \in Seq(Message)
        /\ OneRemoval' /\ ListIsKnown' /\ FetchedIsKnown' /\ RemovalMeans'
    BY <2>3, <2>4, HistoryGrows
  <2>6. lastId + 1 \in 0..MaxMessages
    BY <2>3
  <2> QED
    BY <1>2, <2>5, <2>6 DEF StepWritten, TimelineInv, TimelineTypeOK, ReadsAnswer, listVars, turnVars
<1>3. CASE TurnAnswered
  <2> DEFINE x == Written("answer")
  <2>1. x \in Message /\ lastId + 1 \in 1..MaxMessages
    BY <1>3, WrittenIsMessage DEF TurnAnswered, TimelineInv, Kinds
  <2>2. /\ history' = Append(history, x) /\ UNCHANGED <<listVars, reading, removal>>
        /\ answer' = (IF reading THEN <<x>> ELSE <<>>)
    BY <1>3 DEF TurnAnswered
  <2> HIDE DEF x
  <2>3. /\ history' \in Seq(Message)
        /\ OneRemoval' /\ ListIsKnown' /\ FetchedIsKnown' /\ RemovalMeans'
    BY <2>1, <2>2, HistoryGrows
  <2>4. lastId + 1 \in 0..MaxMessages /\ answer' \in Seq(Message) /\ ReadsAnswer'
    BY <2>1, <2>2 DEF ReadsAnswer
  <2> QED
    BY <1>3, <2>3, <2>4 DEF TurnAnswered, TimelineInv, TimelineTypeOK, listVars
<1>4. CASE TurnStops
  BY <1>4 DEF TurnStops, TimelineInv, TimelineTypeOK, OneRemoval, ReadsAnswer, ListIsKnown,
              FetchedIsKnown, RemovalMeans, listVars
<1> QED
  BY <1>1, <1>2, <1>3, <1>4

(* What the page hears of the turn.                                        *)
LEMMA StreamSteps ==
  ASSUME TimelineInv, OnAssistantFinal \/ StreamDone \/ StreamBreaks
  PROVE  TimelineInv'
<1> USE DEF TimelineInv, OneRemoval, ReadsAnswer, Reread
<1>1. CASE OnAssistantFinal
  <2>1. answer[1] \in Message
    BY <1>1 DEF OnAssistantFinal, TimelineTypeOK
  <2>2. sessionMessages' \in Seq(Message)
    BY <1>1, <2>1 DEF OnAssistantFinal, TimelineTypeOK
  <2>3. TimelineTypeOK'
    BY <1>1, <2>2 DEF OnAssistantFinal, TimelineTypeOK
  <2>4. reading'
    BY <1>1 DEF OnAssistantFinal
  <2> QED
    BY <1>1, <2>3, <2>4 DEF OnAssistantFinal, ListIsKnown, FetchedIsKnown, RemovalMeans
<1>2. CASE StreamDone
  <2>1. TimelineTypeOK'
    <3>1. fetched' \in Seq(Seq(Message))
      BY <1>2, NothingIsList, Zenon DEF StreamDone
    <3>2. history' \in Seq(Message) /\ sessionMessages' \in Seq(Message) /\ answer' \in Seq(Message)
      BY <1>2 DEF StreamDone, TimelineTypeOK
    <3>3. awaited' \in 0..2 /\ asked_' \in 0..MaxMessages /\ lastId' \in 0..MaxMessages
      BY <1>2 DEF StreamDone, TimelineTypeOK
    <3>5. loading' \in BOOLEAN /\ reading' \in BOOLEAN /\ working' \in BOOLEAN
      BY <1>2, Zenon DEF StreamDone, TimelineTypeOK
    <3>4. removal' = removal
      BY <1>2 DEF StreamDone
    <3> QED
      BY <3>1, <3>2, <3>3, <3>4, <3>5 DEF TimelineTypeOK
  <2> QED
    BY <1>2, <2>1 DEF StreamDone, ListIsKnown, FetchedIsKnown, RemovalMeans
<1>3. CASE StreamBreaks
  <2>1. 0 \in 0..MaxMessages
    BY MaxMessagesAssumption
  <2> QED
    <3>1. TimelineTypeOK'
      <4>1. fetched' \in Seq(Seq(Message)) /\ answer' \in Seq(Message)
        BY <1>3, NothingIsList, Zenon DEF StreamBreaks
      <4>2. history' \in Seq(Message) /\ sessionMessages' \in Seq(Message)
        BY <1>3 DEF StreamBreaks, TimelineTypeOK
      <4>3. awaited' \in 0..2 /\ asked_' \in 0..MaxMessages /\ lastId' \in 0..MaxMessages
        BY <1>3, <2>1 DEF StreamBreaks, TimelineTypeOK
      <4>5. loading' \in BOOLEAN /\ reading' \in BOOLEAN /\ working' \in BOOLEAN
        BY <1>3, Zenon DEF StreamBreaks, TimelineTypeOK
      <4>4. removal' = removal
        BY <1>3 DEF StreamBreaks
      <4> QED
        BY <4>1, <4>2, <4>3, <4>4, <4>5 DEF TimelineTypeOK
    <3> QED
      BY <1>3, <3>1 DEF StreamBreaks, ListIsKnown, FetchedIsKnown, RemovalMeans
<1> QED
  BY <1>1, <1>2, <1>3

(* Every button of the list shown deletes messages of it.                  *)
LEMMA ShownButtons ==
  ASSUME TimelineTypeOK
  PROVE  /\ \A b \in UNION Shown(sessionMessages) : b \subseteq DOMAIN sessionMessages
         /\ \A i \in DOMAIN sessionMessages :
              sessionMessages[i].kind \notin {"blank", "todo"} =>
                \A buttons \in Shown(sessionMessages) : i \in UNION buttons
<1> DEFINE l == sessionMessages
<1>1. l \in Seq(Message) /\ \A x \in Message : x.kind \in Kinds
  BY DEF TimelineTypeOK, Message
<1>2. \A cards :
        /\ \A b \in DeleteButtons(l, cards) : b \subseteq DOMAIN l
        /\ \A i \in DOMAIN l :
             l[i].kind \notin {"blank", "todo"} => i \in UNION DeleteButtons(l, cards)
  BY <1>1, ButtonsOfList
<1>3. Shown(l) = {DeleteButtons(l, cards) : cards \in SUBSET DOMAIN BuildTurns(l)}
  BY DEF Shown
<1> HIDE DEF l
<1> QED
  BY <1>2, <1>3 DEF l

(* A deletion is asked for, made, and answered or not.                     *)
LEMMA DeleteSteps ==
  ASSUME TimelineInv, ConfirmDelete \/ DeleteSessionMessages \/ DeletionAnswered \/ DeletionFails
  PROVE  TimelineInv'
<1>1. CASE ConfirmDelete
  <2>1. PICK b \in UNION Shown(sessionMessages) :
          removal' = <<[at |-> b, hasty |-> awaited > 0,
                        meant |-> IF awaited > 0 THEN {} ELSE {sessionMessages[i].id : i \in b}]>>
    BY <1>1 DEF ConfirmDelete
  <2>2. b \subseteq DOMAIN sessionMessages
    BY ShownButtons DEF TimelineInv
  <2> DEFINE hasty == awaited > 0
             meant == IF awaited > 0 THEN {} ELSE {sessionMessages[i].id : i \in b}
             d == [at |-> b, hasty |-> hasty, meant |-> meant]
  <2>3. \A i \in DOMAIN sessionMessages : i \in Places /\ sessionMessages[i].id \in 1..MaxMessages
    <3>1. sessionMessages \in Seq(Message)
      BY DEF TimelineInv, TimelineTypeOK
    <3>2. \A i \in DOMAIN sessionMessages : i \in Places /\ sessionMessages[i] \in Message
      BY <3>1 DEF Places
    <3> QED
      BY <3>2 DEF Message
  <2>4. b \in SUBSET Places /\ meant \in SUBSET (1..MaxMessages) /\ hasty \in BOOLEAN
    BY <2>2, <2>3
  <2>5. ~reading /\ removal = <<>> /\ awaited \in 0..2
    BY <1>1 DEF ConfirmDelete, DeleteDisabled, TimelineInv, TimelineTypeOK
  <2>6. ~hasty => Begins(sessionMessages, history)
    BY <2>5 DEF TimelineInv, ListIsKnown, Served
  <2>7. ASSUME ~hasty
        PROVE  b \subseteq DOMAIN history /\ {history[i].id : i \in b} = meant
    <3>1. b \subseteq DOMAIN history /\ \A i \in b : history[i] = sessionMessages[i]
      BY <2>2, <2>6, <2>7 DEF Begins
    <3>2. {history[i].id : i \in b} = {sessionMessages[i].id : i \in b}
      BY <3>1
    <3> QED
      BY <2>7, <3>1, <3>2
  <2>8. removal' = <<d>>
    BY <2>1
  <2> HIDE DEF hasty, meant
  <2>9. d \in [at : SUBSET Places, hasty : BOOLEAN, meant : SUBSET (1..MaxMessages)]
    BY <2>4
  <2>10. Means(d, history)
    BY <2>7 DEF Means
  <2> HIDE DEF d
  <2>11. /\ removal' \in Seq([at : SUBSET Places, hasty : BOOLEAN, meant : SUBSET (1..MaxMessages)])
         /\ Len(removal') <= 1 /\ removal'[1] = d
    BY <2>8, <2>9
  <2>12. TimelineTypeOK' /\ OneRemoval' /\ ReadsAnswer'
    BY <1>1, <2>11 DEF ConfirmDelete, TimelineInv, TimelineTypeOK, OneRemoval, ReadsAnswer, listVars, turnVars
  <2>13. ListIsKnown' /\ FetchedIsKnown'
    BY <1>1, <2>5 DEF ConfirmDelete, TimelineInv, ListIsKnown, FetchedIsKnown, Served, listVars, turnVars
  <2>14. RemovalMeans'
    BY <1>1, <2>10, <2>11 DEF ConfirmDelete, RemovalMeans
  <2> QED
    BY <2>12, <2>13, <2>14 DEF TimelineInv
<1>2. CASE DeleteSessionMessages
  <2> DEFINE R == [at : SUBSET Places, hasty : BOOLEAN, meant : SUBSET (1..MaxMessages)]
  <2>1. history' \in Seq(Message)
    BY <1>2, WithoutIsList DEF DeleteSessionMessages, TimelineInv, TimelineTypeOK
  <2>2. [at |-> {}, hasty |-> TRUE, meant |-> {}] \in R
    OBVIOUS
  <2>3. removal' = Served /\ Served \in Seq(R) /\ Len(Served) = 1 /\ Served[1].hasty
    BY <1>2, <2>2 DEF DeleteSessionMessages, Served
  <2>4. TimelineTypeOK'
    BY <1>2, <2>1, <2>3 DEF DeleteSessionMessages, TimelineInv, TimelineTypeOK, listVars, turnVars
  <2>5. OneRemoval' /\ ReadsAnswer' /\ ListIsKnown' /\ FetchedIsKnown'
    BY <1>2, <2>3 DEF DeleteSessionMessages, TimelineInv, OneRemoval, ReadsAnswer, ListIsKnown,
                      FetchedIsKnown, turnVars
  <2>6. RemovalMeans'
    BY <2>3 DEF RemovalMeans, Means
  <2> QED
    BY <2>4, <2>5, <2>6 DEF TimelineInv
<1>3. CASE DeletionAnswered
  BY <1>3 DEF DeletionAnswered, Reread, TimelineInv, TimelineTypeOK, OneRemoval, ReadsAnswer, ListIsKnown,
              FetchedIsKnown, RemovalMeans, turnVars
<1>4. CASE DeletionFails
  <2>1. TimelineTypeOK' /\ OneRemoval' /\ ReadsAnswer' /\ RemovalMeans'
    BY <1>4 DEF DeletionFails, TimelineInv, TimelineTypeOK, OneRemoval, ReadsAnswer, RemovalMeans, turnVars
  <2>2. ListIsKnown' /\ FetchedIsKnown'
    BY <1>4 DEF DeletionFails, TimelineInv, ListIsKnown, FetchedIsKnown, turnVars
  <2> QED
    BY <2>1, <2>2 DEF TimelineInv
<1> QED
  BY <1>1, <1>2, <1>3, <1>4

(* The invariant holds of every behaviour: the lists are what the history  *)
(* begins with whenever nothing is known to be on its way, and the         *)
(* deletion in flight names what it means.                                 *)
THEOREM TimelineInvariant == TimelineSpec => []TimelineInv
<1>1. TimelineInit => TimelineInv
  BY TimelineInvInit
<1>2. TimelineInv /\ [TimelineNext]_timelineVars => TimelineInv'
  <2> SUFFICES ASSUME TimelineInv, [TimelineNext]_timelineVars
               PROVE  TimelineInv'
    OBVIOUS
  <2>1. CASE PollMessages \/ GetSessionMessages \/ MessagesArrive \/ FetchFails
    BY <2>1, ListSteps
  <2>2. CASE SendMessage \/ AnswerInterrupt
    BY <2>2, SendSteps
  <2>3. CASE TurnAccepted \/ StepWritten \/ TurnAnswered \/ TurnStops
    BY <2>3, ServerSteps
  <2>4. CASE OnAssistantFinal \/ StreamDone \/ StreamBreaks
    BY <2>4, StreamSteps
  <2>5. CASE ConfirmDelete \/ DeleteSessionMessages \/ DeletionAnswered \/ DeletionFails
    BY <2>5, DeleteSteps
  <2>6. CASE UNCHANGED timelineVars
    BY <2>6 DEF timelineVars, listVars, turnVars, TimelineInv, TimelineTypeOK, OneRemoval, ReadsAnswer,
                ListIsKnown, FetchedIsKnown, RemovalMeans
  <2> QED
    BY <2>1, <2>2, <2>3, <2>4, <2>5, <2>6 DEF TimelineNext
<1> QED
  BY <1>1, <1>2, PTL DEF TimelineSpec

(* Every variable keeps its type.                                          *)
THEOREM TimelineTypeCorrect == TimelineSpec => []TimelineTypeOK
<1>1. TimelineInv => TimelineTypeOK
  BY DEF TimelineInv
<1> QED
  BY <1>1, TimelineInvariant, PTL

(* Every message with a text can be deleted from its card, and a deletion  *)
(* that was not hasty is of the messages that were on the card, however    *)
(* much the history grows before the server makes it (deleteMessages of    *)
(* the page, which names places only).                                     *)
THEOREM DeletionsAreMeant == TimelineSpec => []DeletesWhatWasShown
<1>1. TimelineInv => DeletesWhatWasShown
  <2> SUFFICES ASSUME TimelineInv
               PROVE  DeletesWhatWasShown
    OBVIOUS
  <2>1. ASSUME NEW d \in ToSet(removal), ~d.hasty
        PROVE  d.at \subseteq DOMAIN history /\ {history[i].id : i \in d.at} = d.meant
    <3>1. PICK k \in DOMAIN removal : d = removal[k]
      BY <2>1 DEF ToSet
    <3>2. removal # <<>> /\ k = 1
      BY <3>1 DEF TimelineInv, OneRemoval, TimelineTypeOK
    <3> QED
      BY <2>1, <3>1, <3>2 DEF TimelineInv, RemovalMeans, Means
  <2>2. \A i \in DOMAIN sessionMessages :
          sessionMessages[i].kind \notin {"blank", "todo"} =>
            \A buttons \in Shown(sessionMessages) : i \in UNION buttons
    BY ShownButtons DEF TimelineInv
  <2> QED
    BY <2>1, <2>2 DEF DeletesWhatWasShown
<1> QED
  BY <1>1, TimelineInvariant, PTL
=============================================================================
