----------------------------- MODULE Recursions -----------------------------
(***************************************************************************)
(* Induction on a position, as an induction on the set of positions for    *)
(* which a formula holds (the least one outside it has a predecessor), and *)
(* functions defined by recursion on a position; among them the elements   *)
(* of a sequence that are in a set.  Induction on a sequence, sequences    *)
(* put one after the other, and beginnings of sequences.                   *)
(***************************************************************************)
EXTENDS Integers, SequencesExt, SequenceTheorems, WellFoundedInduction, TLAPS

LEMMA Least ==
  ASSUME NEW T, T \subseteq Nat, T # {}
  PROVE  \E x \in T : \A y \in T : x <= y
  <1> DEFINE R == OpToRel(<, Nat)
  <1>1. PICK x \in T : \A y \in T : <<y, x>> \notin R
    <2> HIDE DEF R
    <2>1. IsWellFoundedOn(R, Nat)
      BY NatLessThanWellFounded, Zenon DEF R
    <2> QED
      BY <2>1, WFMin
  <1>2. \A y \in T : y \in Nat /\ x \in Nat /\ ~ (y < x)
    BY <1>1 DEF OpToRel
  <1> QED
    BY <1>2

LEMMA Induction ==
  ASSUME NEW n \in Nat, NEW S, 0 \in S,
         \A m \in 0 .. n - 1 : m \in S => m + 1 \in S
  PROVE  0 .. n \subseteq S
  <1> DEFINE T == {m \in 0 .. n : m \notin S}
  <1>1. SUFFICES ASSUME T # {} PROVE FALSE
    OBVIOUS
  <1>2. PICK x \in T : \A y \in T : x <= y
    <2>1. T \subseteq Nat
      OBVIOUS
    <2> HIDE DEF T
    <2> QED
      BY <1>1, <2>1, Least
  <1>3. x \in 0 .. n /\ x \notin S /\ x # 0
    BY <1>2
  <1>4. x - 1 \in 0 .. n - 1 /\ (x - 1) + 1 = x /\ x - 1 \in 0 .. n /\ ~ (x <= x - 1)
    BY <1>3
  <1>5. x - 1 \in S
    BY <1>2, <1>4
  <1> QED
    BY <1>3, <1>4, <1>5

\* A recursion on the positions up to n, and what solves it.
Steps(A, a, n, next) == a \in A /\ n \in Nat /\ next \in [(1 .. n) \X A -> A]
Solves(g, A, a, n, next) ==
  /\ g \in [0 .. n -> A]
  /\ g[0] = a /\ \A i \in 1 .. n : g[i] = next[<<i, g[i - 1]>>]

\* A solution for the first m positions extends to one more.
LEMMA Recursion ==
  ASSUME NEW A, NEW a, NEW n, NEW next, Steps(A, a, n, next)
  PROVE  \E g : Solves(g, A, a, n, next)
  <1> SUFFICES ASSUME a \in A, n \in Nat, next \in [(1 .. n) \X A -> A]
               PROVE  \E g \in [0 .. n -> A] :
                        g[0] = a /\ \A i \in 1 .. n : g[i] = next[<<i, g[i - 1]>>]
    BY DEF Steps, Solves
  <1> DEFINE Upto(g, m) == g[0] = a /\ \A i \in 1 .. m : g[i] = next[<<i, g[i - 1]>>]
             S == {m \in 0 .. n : \E g \in [0 .. m -> A] : Upto(g, m)}
  <1>1. 0 \in S
    <2>1. [i \in 0 .. 0 |-> a] \in [0 .. 0 -> A] /\ Upto([i \in 0 .. 0 |-> a], 0)
      OBVIOUS
    <2>2. 0 \in 0 .. n
      OBVIOUS
    <2> QED
      BY <2>1, <2>2
  <1>2. ASSUME NEW m \in 0 .. n - 1, m \in S PROVE m + 1 \in S
    <2>1. PICK g \in [0 .. m -> A] : Upto(g, m)
      BY <1>2
    <2>2. /\ m \in Nat /\ m \in 0 .. m /\ m + 1 \in 0 .. n /\ m + 1 \in 1 .. n
          /\ (m + 1) - 1 = m /\ m # m + 1 /\ m + 1 # 0
          /\ 0 .. m \subseteq 0 .. m + 1 /\ m + 1 \in 0 .. m + 1 /\ m + 1 \notin 0 .. m
          /\ \A i \in 0 .. m + 1 : i # m + 1 => i \in 0 .. m
          /\ \A i \in 1 .. m : i - 1 \in 0 .. m /\ i \in 0 .. m
          /\ \A i \in 1 .. m + 1 : i # m + 1 => i \in 1 .. m
      BY <1>2
    <2> DEFINE h == [i \in 0 .. m + 1 |-> IF i = m + 1 THEN next[<<m + 1, g[m]>>] ELSE g[i]]
    <2>3. next[<<m + 1, g[m]>>] \in A
      BY <2>2
    <2>4. h[m + 1] = next[<<m + 1, g[m]>>] /\ \A i \in 0 .. m : h[i] = g[i]
      BY <2>2
    <2>5. h \in [0 .. m + 1 -> A]
      BY <2>2, <2>3
    <2> HIDE DEF h
    <2>6. h[0] = a
      <3>1. 0 \in 0 .. m
        BY <2>2
      <3> QED
        BY <2>1, <2>4, <3>1
    <2>7. ASSUME NEW i \in 1 .. m + 1 PROVE h[i] = next[<<i, h[i - 1]>>]
      <3>1. CASE i = m + 1
        BY <2>2, <2>4, <3>1
      <3>2. CASE i # m + 1
        <4>1. i \in 1 .. m
          BY <2>2, <3>2
        <4>2. h[i] = g[i] /\ h[i - 1] = g[i - 1]
          BY <2>2, <2>4, <4>1
        <4> QED
          BY <2>1, <4>1, <4>2
      <3> QED
        BY <3>1, <3>2
    <2> QED
      BY <2>2, <2>5, <2>6, <2>7
  <1>3. n \in S
    <2> HIDE DEF S
    <2>1. 0 .. n \subseteq S
      BY <1>1, <1>2, Induction
    <2> QED
      BY <2>1
  <1> QED
    BY <1>3

(***************************************************************************)
(* The elements of a sequence that are in a set, in their order.           *)
(***************************************************************************)
Selected(s, S) ==
  LET upTo[i \in 0 .. Len(s)] ==
        IF i = 0 THEN << >>
        ELSE IF s[i] \in S THEN Append(upTo[i - 1], s[i]) ELSE upTo[i - 1]
  IN  upTo[Len(s)]

\* g[i] is what is kept of the first i elements of s, which are in E.
SelectedUpto(g, s, S, E) ==
  /\ g \in [0 .. Len(s) -> Seq(E)]
  /\ g[0] = << >>
  /\ \A m \in 0 .. Len(s) - 1 :
       g[m + 1] = IF s[m + 1] \in S THEN Append(g[m], s[m + 1]) ELSE g[m]

LEMMA SelectedIs ==
  ASSUME NEW E, NEW s \in Seq(E), NEW S
  PROVE  \E g : SelectedUpto(g, s, S, E) /\ Selected(s, S) = g[Len(s)]
  <1> DEFINE n == Len(s)
             A == Seq(E)
             Left(g) == g = [i \in 0 .. n |->
                               IF i = 0 THEN << >>
                               ELSE IF s[i] \in S THEN Append(g[i - 1], s[i])
                               ELSE g[i - 1]]
             f == CHOOSE g : Left(g)
             next == [ix \in (1 .. n) \X A |->
                        IF s[ix[1]] \in S THEN Append(ix[2], s[ix[1]]) ELSE ix[2]]
  <1>1. n \in Nat /\ (\A i \in 1 .. n : s[i] \in E)
    OBVIOUS
  <1>2. << >> \in A /\ \A x \in A, e \in E : Append(x, e) \in A
    BY EmptySeq
  <1>3. \A i \in 1 .. n, x \in A :
          next[<<i, x>>] = IF s[i] \in S THEN Append(x, s[i]) ELSE x
    OBVIOUS
  <1>4. Selected(s, S) = f[n]
    BY DEF Selected
  <1>5. Steps(A, << >>, n, next)
    <2>1. ASSUME NEW ix \in (1 .. n) \X A
          PROVE  (IF s[ix[1]] \in S THEN Append(ix[2], s[ix[1]]) ELSE ix[2]) \in A
      BY <1>1, <1>2
    <2>2. next \in [(1 .. n) \X A -> A]
      BY <2>1
    <2> QED
      BY <1>1, <1>2, <2>2 DEF Steps
  <1> HIDE DEF next, A
  <1>6. \E g : Solves(g, A, << >>, n, next)
    BY <1>5, Recursion
  <1>7. \A i \in 0 .. n : i # 0 => i \in 1 .. n /\ i - 1 \in 0 .. n
    BY <1>1
  <1>8. \E g : Left(g) 
    <2>1. PICK g : Solves(g, A, << >>, n, next)
      BY <1>6
    <2> HIDE DEF n
    <2>2. \A i \in 0 .. n : i # 0 =>
             g[i] = IF s[i] \in S THEN Append(g[i - 1], s[i]) ELSE g[i - 1]
      BY <1>3, <1>7, <2>1 DEF Solves
    <2>3. Left(g)
      BY <2>1, <2>2 DEF Solves
    <2> QED
      BY <2>3
  <1>9. Left(f)
    <2> HIDE DEF Left
    <2> QED
      BY <1>8
  <1> HIDE DEF f
  <1>10. 0 \in 0 .. n /\ \A m \in 0 .. n - 1 :
            m \in 0 .. n /\ m + 1 \in 0 .. n /\ m + 1 \in 1 .. n /\ m + 1 # 0 /\ (m + 1) - 1 = m
    BY <1>1
  <1>11. f[0] = << >> /\ DOMAIN f = 0 .. n /\ f = [i \in 0 .. n |-> f[i]]
    <2> HIDE DEF n
    <2> QED
      BY <1>9, <1>10
  <1>12. ASSUME NEW m \in 0 .. n - 1
         PROVE  f[m + 1] = IF s[m + 1] \in S THEN Append(f[m], s[m + 1]) ELSE f[m]
    <2> HIDE DEF n
    <2> QED
      BY <1>9, <1>10
  <1> HIDE DEF Left
  <1> DEFINE T == {m \in 0 .. n : f[m] \in A}
  <1>13. 0 \in T /\ \A m \in 0 .. n - 1 : m \in T => m + 1 \in T
    <2>1. 0 \in T
      BY <1>2, <1>10, <1>11
    <2>2. ASSUME NEW m \in 0 .. n - 1, m \in T PROVE m + 1 \in T
      <3>1. f[m] \in A /\ s[m + 1] \in E
        BY <1>1, <1>10, <2>2
      <3>2. f[m + 1] \in A
        BY <1>2, <1>12, <3>1
      <3> QED
        BY <1>10, <3>2
    <2> QED
      BY <2>1, <2>2
  <1>14. 0 .. n \subseteq T
    <2> HIDE DEF T, n
    <2> QED
      BY <1>1, <1>13, Induction
  <1>15. f \in [0 .. n -> A]
    BY <1>11, <1>14
  <1>16. SelectedUpto(f, s, S, E)
    BY <1>11, <1>12, <1>15 DEF SelectedUpto, A
  <1> QED
    BY <1>4, <1>16

LEMMA SelectedType ==
  ASSUME NEW E, NEW s \in Seq(E), NEW S
  PROVE  Selected(s, S) \in Seq(E)
  <1>1. PICK g : SelectedUpto(g, s, S, E) /\ Selected(s, S) = g[Len(s)]
    BY SelectedIs
  <1>2. Len(s) \in 0 .. Len(s)
    OBVIOUS
  <1> QED
    BY <1>1, <1>2 DEF SelectedUpto

\* Of no elements none are kept.
LEMMA SelectedNone ==
  ASSUME NEW S PROVE Selected(<< >>, S) = << >>
  <1>1. << >> \in Seq({}) /\ Len(<< >>) = 0
    BY EmptySeq
  <1>2. PICK g : SelectedUpto(g, << >>, S, {}) /\ Selected(<< >>, S) = g[0]
    BY <1>1, SelectedIs
  <1> QED
    BY <1>2 DEF SelectedUpto

\* What is kept of a sequence with element e at its end.
LEMMA SelectedAppend ==
  ASSUME NEW E, NEW s \in Seq(E), NEW e \in E, NEW S
  PROVE  /\ Selected(s, S) \in Seq(E)
         /\ Selected(Append(s, e), S) = IF e \in S THEN Append(Selected(s, S), e) ELSE Selected(s, S)
  <1> DEFINE n == Len(s)
             t == Append(s, e)
  <1>1. n \in Nat /\ t \in Seq(E) /\ Len(t) = n + 1 /\ t[n + 1] = e
        /\ (\A i \in 1 .. n : t[i] = s[i])
    OBVIOUS
  <1>2. PICK g : SelectedUpto(g, s, S, E) /\ Selected(s, S) = g[n]
    BY SelectedIs
  <1> HIDE DEF t
  <1>3. PICK h : SelectedUpto(h, t, S, E) /\ Selected(t, S) = h[n + 1]
    <2>1. \E h : SelectedUpto(h, t, S, E) /\ Selected(t, S) = h[Len(t)]
      BY <1>1, SelectedIs
    <2> QED
      BY <1>1, <2>1
  <1> HIDE DEF n
  <1>4. /\ g \in [0 .. n -> Seq(E)] /\ g[0] = << >>
        /\ \A m \in 0 .. n - 1 :
             g[m + 1] = IF s[m + 1] \in S THEN Append(g[m], s[m + 1]) ELSE g[m]
    BY <1>2 DEF SelectedUpto, n
  <1>5. /\ (n + 1) - 1 = n /\ n \in 0 .. n
        /\ \A m \in 0 .. n - 1 : m \in 0 .. n /\ m + 1 \in 1 .. n
    BY <1>1
  <1>6. /\ h[0] = << >>
        /\ \A m \in 0 .. n :
             h[m + 1] = IF t[m + 1] \in S THEN Append(h[m], t[m + 1]) ELSE h[m]
    BY <1>1, <1>3, <1>5 DEF SelectedUpto
  <1> DEFINE T == {m \in 0 .. n : h[m] = g[m]}
  <1>7. 0 .. n \subseteq T
    <2>1. 0 \in T
      BY <1>1, <1>4, <1>6
    <2>2. ASSUME NEW m \in 0 .. n - 1, m \in T PROVE m + 1 \in T
      <3>1. m \in 0 .. n /\ m + 1 \in 1 .. n /\ m + 1 \in 0 .. n
        BY <1>1
      <3>2. t[m + 1] = s[m + 1] /\ h[m] = g[m]
        BY <1>1, <2>2, <3>1
      <3>3. h[m + 1] = g[m + 1]
        BY <1>4, <1>6, <3>1, <3>2
      <3> QED
        BY <3>1, <3>3
    <2> HIDE DEF T
    <2> QED
      BY <1>1, <2>1, <2>2, Induction
  <1>8. h[n] = g[n] /\ g[n] \in Seq(E)
    BY <1>4, <1>5, <1>7
  <1> QED
    BY <1>1, <1>2, <1>3, <1>5, <1>6, <1>8 DEF t

\* What is kept of a sequence that is not empty, from its beginning.
LEMMA SelectedHead ==
  ASSUME NEW E, NEW s \in Seq(E), s # << >>, NEW S
  PROVE  Selected(s, S) = (IF Head(s) \in S THEN <<Head(s)>> ELSE << >>) \o Selected(Tail(s), S)
  <1> DEFINE t == Tail(s)
             n == Len(t)
             first == IF Head(s) \in S THEN <<Head(s)>> ELSE << >>
  <1>1. n \in Nat /\ t \in Seq(E) /\ Len(s) = n + 1 /\ s[1] = Head(s) /\ Head(s) \in E
        /\ (\A i \in 1 .. n : t[i] = s[i + 1])
    OBVIOUS
  <1>2. first \in Seq(E)
    BY <1>1, EmptySeq
  <1> HIDE DEF t
  <1>3. PICK h : SelectedUpto(h, t, S, E) /\ Selected(t, S) = h[n]
    BY <1>1, SelectedIs
  <1>4. PICK g : SelectedUpto(g, s, S, E) /\ Selected(s, S) = g[n + 1]
    <2>1. \E g : SelectedUpto(g, s, S, E) /\ Selected(s, S) = g[Len(s)]
      BY SelectedIs
    <2> QED
      BY <1>1, <2>1
  <1>5. /\ h \in [0 .. n -> Seq(E)] /\ h[0] = << >>
        /\ \A m \in 0 .. n - 1 :
             h[m + 1] = IF t[m + 1] \in S THEN Append(h[m], t[m + 1]) ELSE h[m]
    BY <1>3 DEF SelectedUpto
  <1> HIDE DEF n
  <1>6. /\ (n + 1) - 1 = n /\ 0 + 1 = 1 /\ 0 \in 0 .. n /\ n \in 0 .. n
        /\ \A m \in 0 .. n - 1 : m \in 0 .. n /\ m + 1 \in 1 .. n /\ m + 1 \in 0 .. n
    BY <1>1
  <1>7. /\ g[0] = << >>
        /\ \A m \in 0 .. n :
             g[m + 1] = IF s[m + 1] \in S THEN Append(g[m], s[m + 1]) ELSE g[m]
    BY <1>1, <1>4, <1>6 DEF SelectedUpto
  <1> DEFINE T == {m \in 0 .. n : g[m + 1] = first \o h[m]}
  <1>8. 0 \in T
    <2>1. g[1] = IF s[1] \in S THEN Append(<< >>, s[1]) ELSE << >>
      BY <1>6, <1>7
    <2>2. g[1] = first
      BY <1>1, <2>1
    <2>3. first \o << >> = first
      BY <1>2
    <2> QED
      BY <1>5, <1>6, <2>2, <2>3
  <1> HIDE DEF first
  <1>9. ASSUME NEW m \in 0 .. n - 1, m \in T PROVE m + 1 \in T
    <2>1. h[m] \in Seq(E) /\ t[m + 1] \in E /\ t[m + 1] = s[(m + 1) + 1]
      <3>1. m \in 0 .. n /\ m + 1 \in 1 .. n
        BY <1>6
      <3>2. n = Len(t)
        BY DEF n
      <3> QED
        BY <1>1, <1>5, <3>1, <3>2, ElementOfSeq
    <2>2. g[(m + 1) + 1] = IF t[m + 1] \in S THEN Append(first \o h[m], t[m + 1])
                           ELSE first \o h[m]
      BY <1>6, <1>7, <1>9, <2>1
    <2>3. Append(first \o h[m], t[m + 1]) = first \o Append(h[m], t[m + 1])
      <3>1. ASSUME NEW x \in Seq(E), NEW y \in Seq(E), NEW e \in E
            PROVE  Append(x \o y, e) = x \o Append(y, e)
        OBVIOUS
      <3> QED
        BY <1>2, <2>1, <3>1
    <2>4. g[(m + 1) + 1] = first \o h[m + 1]
      BY <1>5, <2>2, <2>3
    <2> QED
      BY <1>6, <2>4
  <1>10. 0 .. n \subseteq T
    <2> HIDE DEF T
    <2> QED
      BY <1>1, <1>8, <1>9, Induction
  <1> QED
    BY <1>3, <1>4, <1>6, <1>10 DEF first, t

(***************************************************************************)
(* Induction on a sequence that grows at its end.                          *)
(***************************************************************************)
LEMMA SeqInduction ==
  ASSUME NEW T, NEW s \in Seq(T), NEW U, << >> \in U,
         \A v \in Seq(T), x \in T : v \in U => Append(v, x) \in U
  PROVE  s \in U
  <1> DEFINE n == Len(s)
             M == {m \in 0 .. n : SubSeq(s, 1, m) \in U}
  <1>1. n \in Nat /\ n \in 0 .. n /\ SubSeq(s, 1, n) = s /\ SubSeq(s, 1, 0) = << >>
    OBVIOUS
  <1>2. 0 \in M
    <2>1. 0 \in 0 .. n
      BY <1>1
    <2>2. SubSeq(s, 1, 0) \in U
      BY <1>1, Zenon
    <2> QED
      BY <2>1, <2>2, Zenon
  <1>3. ASSUME NEW m \in 0 .. n - 1, m \in M PROVE m + 1 \in M
    <2>1. m + 1 \in 0 .. n
      BY <1>1
    <2>2. /\ SubSeq(s, 1, m) \in Seq(T) /\ s[m + 1] \in T
          /\ SubSeq(s, 1, m + 1) = Append(SubSeq(s, 1, m), s[m + 1])
      OBVIOUS
    <2>3. Append(SubSeq(s, 1, m), s[m + 1]) \in U
      BY <1>3, <2>2
    <2> QED
      BY <2>1, <2>2, <2>3
  <1>4. 0 .. n \subseteq M
    <2> HIDE DEF M, n
    <2> QED
      BY <1>1, <1>2, <1>3, Induction
  <1> QED
    BY <1>1, <1>4

(***************************************************************************)
(* Sequences put one after the other.                                      *)
(***************************************************************************)

\* What is in a sequence put together from two is in one of them.
LEMMA ConcatParts ==
  ASSUME NEW E, NEW a \in Seq(E), NEW b \in Seq(E), NEW S, a \o b \in Seq(S)
  PROVE  a \in Seq(S) /\ b \in Seq(S)
  <1> DEFINE c == a \o b
  <1>1. /\ Len(a) \in Nat /\ Len(b) \in Nat /\ Len(c) = Len(a) + Len(b)
        /\ a = [i \in 1 .. Len(a) |-> a[i]] /\ b = [i \in 1 .. Len(b) |-> b[i]]
        /\ \A i \in 1 .. Len(a) : c[i] = a[i]
        /\ \A i \in 1 .. Len(b) : c[Len(a) + i] = b[i]
    OBVIOUS
  <1>2. \A i \in 1 .. Len(c) : c[i] \in S
    OBVIOUS
  <1> HIDE DEF c
  <1>3. \A i \in 1 .. Len(a) : i \in 1 .. Len(c)
    BY <1>1
  <1>4. \A i \in 1 .. Len(b) : Len(a) + i \in 1 .. Len(c)
    <2>1. ASSUME NEW k \in Nat, NEW l \in Nat, NEW i \in 1 .. l PROVE k + i \in 1 .. k + l
      OBVIOUS
    <2> QED
      BY <1>1, <2>1
  <1>5. ASSUME NEW d \in Seq(E), \A i \in 1 .. Len(d) : d[i] \in S,
               d = [i \in 1 .. Len(d) |-> d[i]], Len(d) \in Nat
        PROVE  d \in Seq(S)
    BY <1>5
  <1> QED
    BY <1>1, <1>2, <1>3, <1>4, <1>5

\* f[i] is the first i of the sequences ss, whose elements are in E.
FlattenedUpto(f, ss, E) ==
  /\ f \in [0 .. Len(ss) -> Seq(E)]
  /\ f[0] = << >>
  /\ \A i \in 1 .. Len(ss) : f[i] = f[i - 1] \o ss[i]

LEMMA FlattenIs ==
  ASSUME NEW E, NEW ss \in Seq(Seq(E))
  PROVE  \E f : FlattenedUpto(f, ss, E) /\ FlattenSeq(ss) = f[Len(ss)]
  <1> DEFINE n == Len(ss)
             A == Seq(E)
             Left(g) == g = [i \in 1 .. n |-> IF i = 1 THEN ss[i] ELSE g[i - 1] \o ss[i]]
             c == CHOOSE g : Left(g)
             next == [ix \in (1 .. n) \X A |-> ix[2] \o ss[ix[1]]]
             f == [i \in 0 .. n |-> IF i = 0 THEN << >> ELSE c[i]]
  <1>1. n \in Nat /\ \A i \in 1 .. n : ss[i] \in A
    OBVIOUS
  <1>2. /\ << >> \in A /\ (\A x, y \in A : x \o y \in A)
        /\ (\A y \in A : << >> \o y = y)
    BY EmptySeq
  <1>3. FlattenSeq(ss) = IF n = 0 THEN ss ELSE c[n]
    BY DEF FlattenSeq
  <1>4. n = 0 => ss = << >>
    OBVIOUS
  <1>5. \A i \in 1 .. n, x \in A : next[<<i, x>>] = x \o ss[i]
    OBVIOUS
  <1>6. Steps(A, << >>, n, next)
    <2>1. ASSUME NEW ix \in (1 .. n) \X A PROVE ix[2] \o ss[ix[1]] \in A
      BY <1>1, <1>2
    <2>2. next \in [(1 .. n) \X A -> A]
      BY <2>1
    <2> QED
      BY <1>1, <1>2, <2>2 DEF Steps
  <1> HIDE DEF next, A
  <1>7. /\ \A i \in 1 .. n : /\ i \in 0 .. n /\ i # 0 /\ i - 1 \in 0 .. n
                             /\ i # 1 => i - 1 \in 1 .. n /\ i - 1 # 0
                             /\ i = 1 => i - 1 = 0
        /\ 0 \in 0 .. n /\ n \in 0 .. n
    BY <1>1
  <1>8. \E g : Left(g)
    <2>1. PICK h : Solves(h, A, << >>, n, next)
      BY <1>6, Recursion
    <2> HIDE DEF n
    <2>2. /\ h[0] = << >> /\ \A i \in 0 .. n : h[i] \in A
          /\ \A i \in 1 .. n : h[i] = next[<<i, h[i - 1]>>]
      BY <2>1 DEF Solves
    <2>3. \A i \in 1 .. n : h[i] = h[i - 1] \o ss[i]
      BY <1>5, <1>7, <2>2
    <2> DEFINE g == [i \in 1 .. n |-> h[i]]
    <2>4. \A i \in 1 .. n : g[i] = IF i = 1 THEN ss[i] ELSE g[i - 1] \o ss[i]
      BY <1>1, <1>2, <1>7, <2>2, <2>3
    <2>5. Left(g)
      BY <2>4
    <2> QED
      BY <2>5
  <1>9. Left(c)
    <2> HIDE DEF Left
    <2> QED
      BY <1>8
  <1> HIDE DEF c
  <1>10. \A i \in 1 .. n : c[i] = IF i = 1 THEN ss[i] ELSE c[i - 1] \o ss[i]
    <2> HIDE DEF n
    <2> QED
      BY <1>9
  <1> HIDE DEF Left
  <1>11. f[0] = << >> /\ \A i \in 1 .. n : f[i] = f[i - 1] \o ss[i]
    <2> HIDE DEF n
    <2> QED
      BY <1>1, <1>2, <1>7, <1>10
  <1>12. f = [i \in 0 .. n |-> f[i]] /\ (n = 0 => FlattenSeq(ss) = f[n])
         /\ (n # 0 => FlattenSeq(ss) = f[n])
    BY <1>1, <1>3, <1>4
  <1> HIDE DEF f
  <1> DEFINE T == {m \in 0 .. n : f[m] \in A}
  <1>13. 0 .. n \subseteq T
    <2>1. 0 \in T
      BY <1>2, <1>7, <1>11
    <2>2. ASSUME NEW m \in 0 .. n - 1, m \in T PROVE m + 1 \in T
      <3>1. m + 1 \in 1 .. n /\ (m + 1) - 1 = m
        BY <1>1
      <3>2. f[m + 1] = f[m] \o ss[m + 1] /\ f[m] \in A /\ ss[m + 1] \in A
        BY <1>1, <1>11, <2>2, <3>1
      <3> QED
        BY <1>2, <1>7, <3>1, <3>2
    <2> HIDE DEF T, n
    <2> QED
      BY <1>1, <2>1, <2>2, Induction
  <1>14. f \in [0 .. n -> A]
    <2> HIDE DEF n
    <2> QED
      BY <1>12, <1>13
  <1>15. FlattenedUpto(f, ss, E)
    BY <1>11, <1>14 DEF FlattenedUpto, A
  <1> QED
    BY <1>12, <1>15

LEMMA FlattenNone == FlattenSeq(<< >>) = << >>
  BY DEF FlattenSeq

\* Another sequence at the end.
LEMMA FlattenAppend ==
  ASSUME NEW E, NEW ss \in Seq(Seq(E)), NEW x \in Seq(E)
  PROVE  /\ FlattenSeq(ss) \in Seq(E)
         /\ FlattenSeq(Append(ss, x)) = FlattenSeq(ss) \o x
  <1> DEFINE n == Len(ss)
             tt == Append(ss, x)
  <1>1. n \in Nat /\ tt \in Seq(Seq(E)) /\ Len(tt) = n + 1 /\ tt[n + 1] = x
        /\ (\A i \in 1 .. n : tt[i] = ss[i])
    OBVIOUS
  <1>2. PICK g : FlattenedUpto(g, ss, E) /\ FlattenSeq(ss) = g[n]
    BY FlattenIs
  <1> HIDE DEF tt
  <1>3. PICK h : FlattenedUpto(h, tt, E) /\ FlattenSeq(tt) = h[Len(tt)]
    BY <1>1, FlattenIs
  <1>4. /\ g \in [0 .. n -> Seq(E)] /\ g[0] = << >>
        /\ \A i \in 1 .. n : g[i] = g[i - 1] \o ss[i]
    BY <1>2 DEF FlattenedUpto
  <1>5. /\ h[0] = << >>
        /\ \A i \in 1 .. n + 1 : h[i] = h[i - 1] \o tt[i]
    BY <1>1, <1>3 DEF FlattenedUpto
  <1> HIDE DEF n
  <1> DEFINE T == {m \in 0 .. n : h[m] = g[m]}
  <1>6. 0 .. n \subseteq T
    <2>1. 0 \in T
      BY <1>1, <1>4, <1>5
    <2>2. ASSUME NEW m \in 0 .. n - 1, m \in T PROVE m + 1 \in T
      <3>1. m + 1 \in 1 .. n /\ m + 1 \in 1 .. n + 1 /\ (m + 1) - 1 = m /\ m + 1 \in 0 .. n
        BY <1>1
      <3>2. h[m + 1] = g[m + 1]
        BY <1>1, <1>4, <1>5, <2>2, <3>1
      <3> QED
        BY <3>1, <3>2
    <2> HIDE DEF T
    <2> QED
      BY <1>1, <2>1, <2>2, Induction
  <1>7. n \in 0 .. n /\ n + 1 \in 1 .. n + 1 /\ (n + 1) - 1 = n
    BY <1>1
  <1>8. h[n] = g[n] /\ g[n] \in Seq(E) /\ h[n + 1] = h[n] \o x
    BY <1>1, <1>4, <1>5, <1>6, <1>7
  <1> QED
    BY <1>1, <1>2, <1>3, <1>8 DEF tt

LEMMA FlattenType ==
  ASSUME NEW E, NEW ss \in Seq(Seq(E))
  PROVE  FlattenSeq(ss) \in Seq(E)
  BY EmptySeq, FlattenAppend

\* Nothing is lost: where the result has elements of S only, so have the parts.
LEMMA FlattenFrom ==
  ASSUME NEW E, NEW ss \in Seq(Seq(E)), NEW S, FlattenSeq(ss) \in Seq(S)
  PROVE  ss \in Seq(Seq(S))
  <1> DEFINE U == {v \in Seq(Seq(E)) : FlattenSeq(v) \in Seq(S) => v \in Seq(Seq(S))}
  <1>1. << >> \in U
    BY EmptySeq
  <1>2. ASSUME NEW v \in Seq(Seq(E)), NEW x \in Seq(E), v \in U
        PROVE  Append(v, x) \in U
    <2>1. Append(v, x) \in Seq(Seq(E))
      OBVIOUS
    <2>2. ASSUME FlattenSeq(Append(v, x)) \in Seq(S) PROVE Append(v, x) \in Seq(Seq(S))
      <3>1. FlattenSeq(v) \in Seq(E) /\ FlattenSeq(v) \o x \in Seq(S)
        BY <2>2, FlattenAppend
      <3>2. \A a, b \in Seq(E) : a \o b \in Seq(S) => a \in Seq(S) /\ b \in Seq(S)
        BY ConcatParts
      <3>3. FlattenSeq(v) \in Seq(S) /\ x \in Seq(S)
        BY <3>1, <3>2
      <3>4. v \in Seq(Seq(S))
        BY <1>2, <3>3
      <3> QED
        BY <3>3, <3>4
    <2> QED
      BY <2>1, <2>2
  <1>3. ss \in U
    <2> HIDE DEF U
    <2> QED
      BY <1>1, <1>2, SeqInduction
  <1> QED
    BY <1>3

\* A function from positions to sequences, with one position more.
OneMore(g, h, n, E) ==
  /\ g = [i \in 1 .. n |-> g[i]] /\ h = [i \in 1 .. n + 1 |-> h[i]]
  /\ \A i \in 1 .. n : h[i] = g[i]
  /\ \A i \in 1 .. n + 1 : h[i] \in Seq(E)

LEMMA FlattenGrows ==
  ASSUME NEW E, NEW n \in Nat, NEW g, NEW h, OneMore(g, h, n, E)
  PROVE  /\ FlattenSeq(g) \in Seq(E) /\ FlattenSeq(h) \in Seq(E)
         /\ FlattenSeq(h) = FlattenSeq(g) \o h[n + 1]
  <1>0. /\ g = [i \in 1 .. n |-> g[i]] /\ h = [i \in 1 .. n + 1 |-> h[i]]
        /\ \A i \in 1 .. n : h[i] = g[i]
        /\ \A i \in 1 .. n + 1 : h[i] \in Seq(E)
    BY DEF OneMore
  <1>1. /\ n + 1 \in 1 .. n + 1 /\ h[n + 1] \in Seq(E)
        /\ \A i \in 1 .. n : i \in 1 .. n + 1 /\ g[i] \in Seq(E)
    <2>1. /\ n + 1 \in 1 .. n + 1
          /\ \A i \in 1 .. n : i \in 1 .. n + 1
      OBVIOUS
    <2> QED
      BY <1>0, <2>1, Zenon
  <1>2. g \in [1 .. n -> Seq(E)] /\ h \in [1 .. n + 1 -> Seq(E)]
    BY <1>0, <1>1
  <1>3. g \in Seq(Seq(E)) /\ Len(g) = n /\ h \in Seq(Seq(E)) /\ Len(h) = n + 1
    BY <1>2
  <1> DEFINE a == Append(g, h[n + 1])
  <1>4. h = a
    <2>1. /\ a \in Seq(Seq(E)) /\ Len(a) = n + 1 /\ a[n + 1] = h[n + 1]
          /\ \A i \in 1 .. n : a[i] = g[i]
      BY <1>1, <1>3
    <2> HIDE DEF a
    <2>2. \A i \in 1 .. n + 1 : i = n + 1 \/ i \in 1 .. n
      OBVIOUS
    <2>3. \A i \in 1 .. n + 1 : a[i] = h[i]
      BY <1>0, <2>1, <2>2, Zenon
    <2>4. a = [i \in 1 .. n + 1 |-> a[i]]
      BY <2>1
    <2> QED
      BY <1>0, <2>3, <2>4, Zenon
  <1> QED
    BY <1>1, <1>3, <1>4, FlattenAppend, FlattenType

LEMMA FlattenSingles ==
  ASSUME NEW E, NEW s \in Seq(E)
  PROVE  FlattenSeq([i \in 1 .. Len(s) |-> <<s[i]>>]) = s
  <1> DEFINE U == {v \in Seq(E) : FlattenSeq([i \in 1 .. Len(v) |-> <<v[i]>>]) = v}
  <1>1. << >> \in U
    <2>1. [i \in 1 .. Len(<< >>) |-> <<(<< >>)[i]>>] = << >> /\ << >> \in Seq(E)
      BY EmptySeq
    <2> QED
      BY <2>1, FlattenNone
  <1>2. ASSUME NEW v \in Seq(E), NEW x \in E, v \in U PROVE Append(v, x) \in U
    <2> DEFINE w == Append(v, x)
               g == [i \in 1 .. Len(v) |-> <<v[i]>>]
               h == [i \in 1 .. Len(w) |-> <<w[i]>>]
    <2>1. /\ w \in Seq(E) /\ Len(v) \in Nat /\ Len(w) = Len(v) + 1 /\ w[Len(v) + 1] = x
          /\ v \o <<x>> = w
          /\ \A i \in 1 .. Len(v) : w[i] = v[i]
      OBVIOUS
    <2>2. \A i \in 1 .. Len(w) : w[i] \in E
      OBVIOUS
    <2>6. FlattenSeq(g) = v
      BY <1>2
    <2> HIDE DEF w
    <2>3. Len(v) + 1 \in 1 .. Len(v) + 1 /\ \A i \in 1 .. Len(v) : i \in 1 .. Len(v) + 1
      BY <2>1
    <2>4. OneMore(g, h, Len(v), E) /\ h[Len(v) + 1] = <<x>>
      BY <2>1, <2>2, <2>3 DEF OneMore
    <2>7. Append(v, x) \in U <=> w \in Seq(E) /\ FlattenSeq(h) = w
      BY Zenon DEF w
    <2> HIDE DEF g, h, U
    <2>5. FlattenSeq(h) = FlattenSeq(g) \o h[Len(v) + 1]
      <3>1. PICK n : n = Len(v)
        OBVIOUS
      <3>2. n \in Nat /\ OneMore(g, h, n, E)
        BY <2>1, <2>4, <3>1
      <3>3. FlattenSeq(h) = FlattenSeq(g) \o h[n + 1]
        BY <3>2, FlattenGrows
      <3> QED
        BY <3>1, <3>3
    <2> QED
      BY <2>1, <2>4, <2>5, <2>6, <2>7
  <1>3. s \in U
    <2> HIDE DEF U
    <2> QED
      BY <1>1, <1>2, SeqInduction
  <1> QED
    BY <1>3

(***************************************************************************)
(* Beginnings of sequences.                                                *)
(***************************************************************************)
Begins(a, b) == Len(a) <= Len(b) /\ \A i \in 1 .. Len(a) : a[i] = b[i]

LEMMA PrefixIs ==
  ASSUME NEW E, NEW a \in Seq(E), NEW b \in Seq(E)
  PROVE  IsPrefix(a, b) <=> Begins(a, b)
  <1> DEFINE n == Len(a)
             c == SubSeq(b, 1, n)
  <1>1. SubSeq(a, 1, n) = a /\ n \in Nat /\ Len(b) \in Nat /\ a = [i \in 1 .. n |-> a[i]]
    OBVIOUS
  <1>2. IsPrefix(a, b) <=> n <= Len(b) /\ a = c
    BY <1>1 DEF IsPrefix
  <1>3. ASSUME n <= Len(b)
        PROVE  c = [i \in 1 .. n |-> c[i]] /\ \A i \in 1 .. n : c[i] = b[i]
    BY <1>3
  <1> HIDE DEF c, n
  <1>4. ASSUME n <= Len(b) PROVE a = c <=> \A i \in 1 .. n : a[i] = b[i]
    <2>1. ASSUME \A i \in 1 .. n : a[i] = b[i] PROVE a = c
      <3>1. \A i \in 1 .. n : a[i] = c[i]
        BY <1>3, <1>4, <2>1
      <3> QED
        BY <1>1, <1>3, <1>4, <3>1, Zenon
    <2>2. ASSUME a = c PROVE \A i \in 1 .. n : a[i] = b[i]
      BY <1>3, <1>4, <2>2, Zenon
    <2> QED
      BY <2>1, <2>2
  <1> QED
    BY <1>2, <1>4, Zenon DEF Begins, n

LEMMA BeginsInto ==
  ASSUME NEW E, NEW S, NEW a \in Seq(E), NEW b \in Seq(S), Begins(a, b)
  PROVE  a \in Seq(S)
  <1>1. /\ Len(a) \in Nat /\ a = [i \in 1 .. Len(a) |-> a[i]]
        /\ \A i \in 1 .. Len(a) : a[i] = b[i] /\ i \in 1 .. Len(b)
    BY DEF Begins
  <1>2. \A i \in 1 .. Len(b) : b[i] \in S
    OBVIOUS
  <1>3. \A i \in 1 .. Len(a) : a[i] \in S
    BY <1>1, <1>2
  <1> QED
    BY <1>1, <1>3

LEMMA BeginsTwice ==
  ASSUME NEW E, NEW a \in Seq(E), NEW b \in Seq(E), NEW c \in Seq(E), Begins(a, b), Begins(b, c)
  PROVE  Begins(a, c)
  BY DEF Begins

LEMMA BeginsConcat ==
  ASSUME NEW E, NEW a \in Seq(E), NEW b \in Seq(E), NEW c \in Seq(E), Begins(a \o b, c)
  PROVE  /\ Begins(a, c)
         /\ b # << >> => Len(a) < Len(c)
         /\ \A i \in 1 .. Len(b) : b[i] = c[Len(a) + i]
  <1> DEFINE d == a \o b
  <1>1. /\ Len(a) \in Nat /\ Len(b) \in Nat /\ Len(c) \in Nat /\ Len(d) = Len(a) + Len(b)
        /\ \A i \in 1 .. Len(a) : d[i] = a[i]
        /\ \A i \in 1 .. Len(b) : d[Len(a) + i] = b[i]
        /\ b # << >> => Len(b) > 0
    OBVIOUS
  <1>2. Len(d) <= Len(c) /\ \A i \in 1 .. Len(d) : d[i] = c[i]
    BY Zenon DEF Begins
  <1> HIDE DEF d
  <1>3. /\ \A i \in 1 .. Len(a) : i \in 1 .. Len(d)
        /\ Len(a) <= Len(c) /\ (Len(b) > 0 => Len(a) < Len(c))
    BY <1>1, <1>2
  <1>4. \A i \in 1 .. Len(b) : Len(a) + i \in 1 .. Len(d)
    <2>1. ASSUME NEW k \in Nat, NEW l \in Nat, NEW i \in 1 .. l PROVE k + i \in 1 .. k + l
      OBVIOUS
    <2> QED
      BY <1>1, <2>1
  <1>5. \A i \in 1 .. Len(a) : a[i] = c[i]
    BY <1>1, <1>2, <1>3, Zenon
  <1>6. \A i \in 1 .. Len(b) : b[i] = c[Len(a) + i]
    BY <1>1, <1>2, <1>4, Zenon
  <1> QED
    BY <1>1, <1>3, <1>5, <1>6, Zenon DEF Begins

LEMMA BeginsAppend ==
  ASSUME NEW E, NEW v \in Seq(E), NEW x \in E, NEW b \in Seq(E), Begins(b, Append(v, x))
  PROVE  b = Append(v, x) \/ Begins(b, v)
  <1> DEFINE w == Append(v, x)
  <1>1. /\ Len(w) = Len(v) + 1 /\ Len(v) \in Nat /\ Len(b) \in Nat
        /\ \A i \in 1 .. Len(v) : w[i] = v[i]
        /\ w = [i \in 1 .. Len(w) |-> w[i]] /\ b = [i \in 1 .. Len(b) |-> b[i]]
    <2>1. /\ Len(w) = Len(v) + 1 /\ Len(v) \in Nat /\ w \in Seq(E)
          /\ \A i \in 1 .. Len(v) : w[i] = v[i]
      OBVIOUS
    <2>2. ASSUME NEW d \in Seq(E) PROVE Len(d) \in Nat /\ d = [i \in 1 .. Len(d) |-> d[i]]
      OBVIOUS
    <2> QED
      BY <2>1, <2>2, Zenon
  <1>2. Len(b) <= Len(w) /\ \A i \in 1 .. Len(b) : b[i] = w[i]
    BY Zenon DEF Begins
  <1> HIDE DEF w
  <1>3. CASE Len(b) = Len(w)
    <2>1. b = w
      BY <1>1, <1>2, <1>3, Zenon
    <2> QED
      BY <2>1 DEF w
  <1>4. CASE Len(b) # Len(w)
    <2>1. Len(b) <= Len(v) /\ \A i \in 1 .. Len(b) : i \in 1 .. Len(v)
      <3>1. ASSUME NEW j \in Nat, NEW k \in Nat, k <= j + 1, k # j + 1
            PROVE  k <= j /\ \A i \in 1 .. k : i \in 1 .. j
        BY <3>1
      <3> QED
        BY <1>1, <1>2, <1>4, <3>1
    <2> QED
      BY <1>1, <1>2, <2>1, Zenon DEF Begins
  <1> QED
    BY <1>3, <1>4
=============================================================================
