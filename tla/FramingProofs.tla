---------------------------- MODULE FramingProofs ----------------------------
(***************************************************************************)
(* Theorems of Framing, for every set of frames, any number of them, and   *)
(* whatever the reads cut the stream into.                                 *)
(*                                                                         *)
(* Stuffing and destuffing are folds over bytes, so the first part is an   *)
(* induction over data: what a fold does with one byte more, and from it   *)
(* that destuffing undoes stuffing.  The library's induction theorems take *)
(* an operator; the ones here take the set of what the claim holds of.     *)
(***************************************************************************)
EXTENDS Framing, SequenceTheorems, WellFoundedInduction, TLAPS

-----------------------------------------------------------------------------
(* Induction.                                                              *)

LEMMA LeastNumber ==
    ASSUME NEW T, T \subseteq Nat, T # {}
    PROVE  \E x \in T : \A y \in T : x <= y
<1>1. PICK x \in T : \A y \in T : ~(<<y, x>> \in OpToRel(<, Nat))
  BY NatLessThanWellFounded, WFMin
<1>2. \A y \in T : ~(y < x)
  BY <1>1 DEF OpToRel
<1> QED
  BY <1>2

LEMMA NumberInduction ==
    ASSUME NEW T, 0 \in T, \A n \in Nat : n \in T => n + 1 \in T
    PROVE  Nat \subseteq T
<1> SUFFICES ASSUME Nat \ T # {} PROVE FALSE
  OBVIOUS
<1>1. PICK x \in Nat \ T : \A y \in Nat \ T : x <= y
  BY LeastNumber
<1>2. x # 0 /\ x - 1 \in Nat
  BY <1>1
<1>3. x - 1 \in T
  BY <1>1, <1>2
<1> QED
  BY <1>2, <1>3

\* A set that has the empty sequence, and with a sequence every longer one by
\* one element, has them all.
LEMMA SeqInduction ==
    ASSUME NEW S, NEW T, <<>> \in T, \A s \in Seq(S), x \in S : s \in T => Append(s, x) \in T
    PROVE  Seq(S) \subseteq T
<1> DEFINE N == {n \in Nat : \A s \in Seq(S) : Len(s) = n => s \in T}
<1>1. 0 \in N
  BY EmptySeq
<1>2. ASSUME NEW n \in Nat, n \in N PROVE n + 1 \in N
  <2>1. ASSUME NEW s \in Seq(S), Len(s) = n + 1 PROVE s \in T
    <3>1. s # <<>>
      BY <2>1, EmptySeq
    <3>2. PICK r \in Seq(S), x \in S : s = Append(r, x)
      BY <3>1, SequenceEmptyOrAppend
    <3>3. Len(r) = n
      BY <2>1, <3>2, AppendProperties, LenProperties
    <3> QED
      BY <1>2, <3>2, <3>3
  <2> QED
    BY <2>1
<1> HIDE DEF N
<1>3. Nat \subseteq N
  BY <1>1, <1>2, NumberInduction
<1> QED
  BY <1>3, LenProperties DEF N

-----------------------------------------------------------------------------
(* Folds.                                                                  *)

LEMMA MaxOfSet ==
    ASSUME NEW L \in Nat
    PROVE  /\ \A S \in SUBSET (1..L) : S # {} => Max(S) \in S
           /\ \A S \in SUBSET (1..(L + 1)) : L + 1 \in S => Max(S) = L + 1
<1> DEFINE N == {n \in Nat : \A S \in SUBSET (1..n) : S # {} => \E x \in S : \A y \in S : x >= y}
<1>1. 0 \in N
  <2>1. 1..0 = {}
    OBVIOUS
  <2> QED
    BY <2>1
<1>2. ASSUME NEW n \in Nat, n \in N PROVE n + 1 \in N
  <2>1. ASSUME NEW S \in SUBSET (1..(n + 1)), S # {} PROVE \E x \in S : \A y \in S : x >= y
    <3>1. CASE n + 1 \in S
      BY <3>1
    <3>2. CASE n + 1 \notin S
      <4>1. S \in SUBSET (1..n)
        BY <3>2
      <4> QED
        BY <1>2, <2>1, <4>1
    <3> QED
      BY <3>1, <3>2
  <2> QED
    BY <2>1
<1> HIDE DEF N
<1>3. L \in N
  BY <1>1, <1>2, NumberInduction
<1>4. ASSUME NEW S \in SUBSET (1..L), S # {} PROVE Max(S) \in S
  BY <1>3, <1>4 DEF N, Max
<1>5. ASSUME NEW S \in SUBSET (1..(L + 1)), L + 1 \in S PROVE Max(S) = L + 1
  <2>1. \A y \in S : y \in Nat /\ L + 1 >= y
    OBVIOUS
  <2>2. Max(S) \in S /\ \A y \in S : Max(S) >= y
    BY <1>5, <2>1 DEF Max
  <2>3. Max(S) \in Nat /\ L + 1 >= Max(S) /\ Max(S) >= L + 1
    BY <1>5, <2>1, <2>2
  <2> QED
    BY <2>3
<1> QED
  BY <1>4, <1>5

LEMMA MaxOfInterval ==
    ASSUME NEW n \in Nat \ {0}
    PROVE  Max(1..n) = n
<1>1. n - 1 \in Nat /\ (n - 1) + 1 = n
  OBVIOUS
<1>2. \A S \in SUBSET (1..((n - 1) + 1)) : (n - 1) + 1 \in S => Max(S) = (n - 1) + 1
  BY <1>1, MaxOfSet
<1> QED
  BY <1>1, <1>2

Iterates(h, X, x0, L, st) ==
    /\ h \in [SUBSET (1..L) -> X]
    /\ \A S \in SUBSET (1..L) : h[S] = IF S = {} THEN x0 ELSE st[Max(S)][h[S \ {Max(S)}]]

\* A fold applies the steps st[1], st[2], ... in this order: the function the
\* community modules define it with exists.
LEMMA FoldExists ==
    ASSUME NEW X, NEW x0 \in X, NEW L \in Nat, NEW st \in [1..L -> [X -> X]]
    PROVE  \E h : Iterates(h, X, x0, L, st)
<1> DEFINE Good(h, n) ==
               /\ h \in [SUBSET (1..n) -> X]
               /\ \A S \in SUBSET (1..n) : h[S] = IF S = {} THEN x0 ELSE st[Max(S)][h[S \ {Max(S)}]]
           N == {n \in Nat : n <= L => \E h : Good(h, n)}
<1>1. 0 \in N
  <2>1. 1..0 = {} /\ SUBSET {} = {{}}
    OBVIOUS
  <2>2. Good([S \in SUBSET (1..0) |-> x0], 0)
    BY <2>1
  <2> HIDE DEF Good
  <2> QED
    BY <2>2
<1>2. ASSUME NEW n \in Nat, n \in N PROVE n + 1 \in N
  <2> SUFFICES ASSUME n + 1 <= L PROVE \E h : Good(h, n + 1)
    <3> HIDE DEF Good
    <3> QED
      OBVIOUS
  <2>0. \E g : Good(g, n)
    <3> HIDE DEF Good
    <3> QED
      BY <1>2
  <2>1. PICK g : Good(g, n)
    BY <2>0
  <2> DEFINE h == [S \in SUBSET (1..(n + 1)) |->
                      IF n + 1 \in S THEN st[n + 1][g[S \ {n + 1}]] ELSE g[S]]
  <2>2. \A S \in SUBSET (1..(n + 1)) : /\ S \ {n + 1} \in SUBSET (1..n)
                                       /\ n + 1 \notin S => S \in SUBSET (1..n)
    OBVIOUS
  <2>3. n + 1 \in 1..L /\ st[n + 1] \in [X -> X]
    OBVIOUS
  <2>4. h \in [SUBSET (1..(n + 1)) -> X]
    BY <2>1, <2>2, <2>3
  <2>5. ASSUME NEW S \in SUBSET (1..(n + 1))
        PROVE  h[S] = IF S = {} THEN x0 ELSE st[Max(S)][h[S \ {Max(S)}]]
    <3>1. CASE n + 1 \in S
      <4>1. Max(S) = n + 1
        BY <3>1, MaxOfSet
      <4>2. S \ {n + 1} \in SUBSET (1..(n + 1)) /\ n + 1 \notin S \ {n + 1}
        OBVIOUS
      <4>3. h[S \ {n + 1}] = g[S \ {n + 1}]
        BY <4>2
      <4> QED
        BY <3>1, <4>1, <4>3
    <3>2. CASE n + 1 \notin S
      <4>1. S \in SUBSET (1..n) /\ h[S] = g[S]
        BY <2>2, <3>2
      <4>2. S \ {Max(S)} \in SUBSET (1..(n + 1)) /\ n + 1 \notin S \ {Max(S)}
        BY <3>2
      <4>3. h[S \ {Max(S)}] = g[S \ {Max(S)}]
        BY <4>2
      <4> QED
        BY <2>1, <4>1, <4>3
    <3> QED
      BY <3>1, <3>2
  <2>6. Good(h, n + 1)
    BY <2>4, <2>5
  <2> HIDE DEF Good, h
  <2> QED
    BY <2>6
<1> HIDE DEF N
<1>3. L \in N
  BY <1>1, <1>2, NumberInduction
<1>4. \E h : Good(h, L)
  <2> HIDE DEF Good
  <2> QED
    BY <1>3 DEF N
<1> QED
  BY <1>4 DEF Iterates

-----------------------------------------------------------------------------
(* Destuffing, one byte more.                                              *)

Automaton == [state : {"normal", "possible_stuff"}, out : Seq(Byte)]

LEMMA StoreByteType ==
    ASSUME NEW s \in Automaton, NEW byte \in Byte
    PROVE  store_byte(s, byte) \in Automaton
<1>1. s.state \in {"normal", "possible_stuff"} /\ s.out \in Seq(Byte)
  BY DEF Automaton
<1>2. Append(s.out, byte) \in Seq(Byte)
  BY <1>1
<1>3. <<Prefix>> \in Seq(Byte) /\ <<Escape>> \in Seq(Byte) /\ <<Escape, byte>> \in Seq(Byte)
  BY DEF Prefix, Escape, Byte
<1>4. \A x \in Seq(Byte) : s.out \o x \in Seq(Byte)
  BY <1>1, ConcatProperties
<1>5. CASE s.state = "normal"
  BY <1>1, <1>2, <1>5 DEF store_byte, Automaton
<1>6. CASE s.state # "normal"
  BY <1>3, <1>4, <1>6 DEF store_byte, Automaton
<1> QED
  BY <1>5, <1>6

\* The states of the automaton, byte by byte.
IsRun(f, s0, d) ==
    /\ f[0] = s0
    /\ \A n \in 1..Len(d) : f[n] = store_byte(f[n - 1], d[n])

LEMMA FoldIsRun ==
    ASSUME NEW s0 \in Automaton, NEW d \in Seq(Byte)
    PROVE  \E f : IsRun(f, s0, d) /\ FoldLeft(store_byte, s0, d) = f[Len(d)]
<1> DEFINE L == Len(d)
           st == [i \in 1..L |-> [x \in Automaton |-> store_byte(x, d[i])]]
           P(h) == h = [S \in SUBSET DOMAIN d |->
                           IF S = {} THEN s0 ELSE store_byte(h[S \ {Max(S)}], d[Max(S)])]
           it == CHOOSE h : P(h)
           f == [n \in 0..L |-> it[1..n]]
<1>1. L \in Nat /\ DOMAIN d = 1..L /\ \A i \in 1..L : d[i] \in Byte
  OBVIOUS
<1>2. st \in [1..L -> [Automaton -> Automaton]]
  <2>1. \A i \in 1..L, x \in Automaton : store_byte(x, d[i]) \in Automaton
    BY <1>1, StoreByteType
  <2> QED
    BY <2>1
<1>g. PICK g : Iterates(g, Automaton, s0, L, st)
  <2> HIDE DEF st, L
  <2> QED
    BY <1>1, <1>2, FoldExists
<1>3. /\ g \in [SUBSET (1..L) -> Automaton]
      /\ \A S \in SUBSET (1..L) : g[S] = IF S = {} THEN s0 ELSE st[Max(S)][g[S \ {Max(S)}]]
  <2> HIDE DEF st, L
  <2> QED
    BY <1>g DEF Iterates
<1>4. ASSUME NEW S \in SUBSET (1..L), S # {}
      PROVE  st[Max(S)][g[S \ {Max(S)}]] = store_byte(g[S \ {Max(S)}], d[Max(S)])
  <2>1. Max(S) \in 1..L
    <3> HIDE DEF L
    <3> QED
      BY <1>1, <1>4, MaxOfSet
  <2>2. g[S \ {Max(S)}] \in Automaton
    BY <1>3
  <2> QED
    BY <2>1, <2>2
<1>5. P(g)
  <2> HIDE DEF st, L
  <2>1. \A S \in SUBSET (1..L) : g[S] = IF S = {} THEN s0 ELSE store_byte(g[S \ {Max(S)}], d[Max(S)])
    BY <1>3, <1>4
  <2> QED
    BY <1>1, <1>3, <2>1
<1>6. P(it)
  BY <1>5
<1>7. FoldLeft(store_byte, s0, d) = it[DOMAIN d]
  BY DEF FoldLeft, MapThenFoldSet
<1>8. \A S \in SUBSET (1..L) : it[S] = IF S = {} THEN s0 ELSE store_byte(it[S \ {Max(S)}], d[Max(S)])
  <2> HIDE DEF it, L
  <2> QED
    BY <1>1, <1>6
<1> HIDE DEF it, L
<1>9. f[0] = s0
  <2>1. 1..0 = {} /\ {} \in SUBSET (1..L)
    OBVIOUS
  <2>2. f[0] = it[{}]
    BY <1>1, <2>1
  <2> QED
    BY <1>8, <2>1, <2>2
<1>10. ASSUME NEW n \in 1..L PROVE f[n] = store_byte(f[n - 1], d[n])
  <2>1. n - 1 \in Nat /\ (n - 1) + 1 = n
    BY <1>1
  <2>2. 1..n \in SUBSET (1..L) /\ n \in 1..n /\ (1..n) \ {n} = 1..(n - 1)
    BY <1>1, <2>1
  <2>3. Max(1..n) = n
    BY <2>1, MaxOfInterval
  <2>4. it[1..n] = store_byte(it[1..(n - 1)], d[n])
    BY <1>8, <2>2, <2>3
  <2>5. f[n] = it[1..n] /\ f[n - 1] = it[1..(n - 1)]
    BY <1>1, <2>1
  <2> QED
    BY <2>4, <2>5
<1>11. FoldLeft(store_byte, s0, d) = f[L]
  BY <1>1, <1>7
<1> HIDE DEF f
<1>12. IsRun(f, s0, d) /\ FoldLeft(store_byte, s0, d) = f[Len(d)]
  BY <1>9, <1>10, <1>11 DEF IsRun, L
<1> QED
  BY <1>12

LEMMA SameRuns ==
    ASSUME NEW f, NEW g, NEW L \in Nat, f[0] = g[0],
           \A n \in 1..L : f[n - 1] = g[n - 1] => f[n] = g[n]
    PROVE  f[L] = g[L]
<1> DEFINE N == {n \in Nat : n <= L => f[n] = g[n]}
<1>1. 0 \in N
  OBVIOUS
<1>2. ASSUME NEW n \in Nat, n \in N PROVE n + 1 \in N
  <2> SUFFICES ASSUME n + 1 <= L PROVE f[n + 1] = g[n + 1]
    OBVIOUS
  <2>1. n + 1 \in 1..L /\ (n + 1) - 1 = n /\ n <= L
    OBVIOUS
  <2> QED
    BY <1>2, <2>1
<1> HIDE DEF N
<1>3. L \in N
  BY <1>1, <1>2, NumberInduction
<1> QED
  BY <1>3 DEF N

LEMMA AppendFacts ==
    ASSUME NEW S, NEW d \in Seq(S), NEW x \in S
    PROVE  /\ Append(d, x) \in Seq(S)
           /\ Len(Append(d, x)) = Len(d) + 1
           /\ Len(d) \in Nat
           /\ \A n \in 1..Len(d) : Append(d, x)[n] = d[n]
           /\ Append(d, x)[Len(d) + 1] = x
  BY AppendProperties, LenProperties

Grown(c, d) == Len(c) = Len(d) + 1 /\ \A n \in 1..Len(d) : c[n] = d[n]

LEMMA AppendGrows ==
    ASSUME NEW S, NEW d \in Seq(S), NEW x \in S
    PROVE  Append(d, x) \in Seq(S) /\ Grown(Append(d, x), d)
  BY AppendFacts DEF Grown

LEMMA StoreEmpty ==
    ASSUME NEW s0 \in Automaton
    PROVE  FoldLeft(store_byte, s0, <<>>) = s0
<1>1. <<>> \in Seq(Byte) /\ Len(<<>>) = 0
  BY EmptySeq
<1>2. PICK f : IsRun(f, s0, <<>>) /\ FoldLeft(store_byte, s0, <<>>) = f[Len(<<>>)]
  BY <1>1, FoldIsRun
<1> QED
  BY <1>1, <1>2 DEF IsRun

LEMMA StoreAppend ==
    ASSUME NEW s0 \in Automaton, NEW d \in Seq(Byte), NEW x \in Byte
    PROVE  FoldLeft(store_byte, s0, Append(d, x)) = store_byte(FoldLeft(store_byte, s0, d), x)
<1> DEFINE L == Len(d)
           e == Append(d, x)
<1>1. /\ e \in Seq(Byte) /\ Len(e) = L + 1 /\ L \in Nat /\ e[L + 1] = x
      /\ \A n \in 1..L : e[n] = d[n]
  BY AppendFacts
<1> HIDE DEF e
<1>2. PICK f : IsRun(f, s0, d) /\ FoldLeft(store_byte, s0, d) = f[Len(d)]
  BY FoldIsRun
<1>3. PICK g : IsRun(g, s0, e) /\ FoldLeft(store_byte, s0, e) = g[Len(e)]
  BY <1>1, FoldIsRun
<1> HIDE DEF L
<1>4. f[0] = g[0]
  BY <1>2, <1>3 DEF IsRun
<1>5. ASSUME NEW n \in 1..L, f[n - 1] = g[n - 1] PROVE f[n] = g[n]
  <2>1. n \in 1..Len(e) /\ n \in 1..Len(d)
    BY <1>1 DEF L
  <2>2. f[n] = store_byte(f[n - 1], d[n])
    BY <1>2, <2>1 DEF IsRun
  <2>3. g[n] = store_byte(g[n - 1], e[n])
    BY <1>3, <2>1 DEF IsRun
  <2> QED
    BY <1>1, <1>5, <2>2, <2>3
<1>6. f[L] = g[L]
  BY <1>1, <1>4, <1>5, SameRuns
<1>7. L + 1 \in 1..Len(e) /\ (L + 1) - 1 = L
  BY <1>1
<1>8. g[L + 1] = store_byte(g[(L + 1) - 1], e[L + 1])
  BY <1>3, <1>7 DEF IsRun
<1>9. g[L + 1] = store_byte(g[L], x)
  BY <1>1, <1>7, <1>8
<1> QED
  BY <1>1, <1>2, <1>3, <1>6, <1>9 DEF L, e

Destuff(s0, d) == FoldLeft(store_byte, s0, d)

\* store_data starts from the state the previous read left.
LEMMA DestuffStep ==
    ASSUME NEW s0 \in Automaton
    PROVE  /\ Destuff(s0, <<>>) = s0
           /\ \A d \in Seq(Byte), x \in Byte : Destuff(s0, Append(d, x)) = store_byte(Destuff(s0, d), x)
  BY StoreEmpty, StoreAppend DEF Destuff

LEMMA DestuffType ==
    ASSUME NEW s0 \in Automaton, NEW d \in Seq(Byte)
    PROVE  Destuff(s0, d) \in Automaton
<1> DEFINE T == {e \in Seq(Byte) : Destuff(s0, e) \in Automaton}
<1>1. <<>> \in T
  BY DestuffStep, EmptySeq
<1>2. ASSUME NEW e \in Seq(Byte), NEW x \in Byte, e \in T PROVE Append(e, x) \in T
  <2>1. Destuff(s0, Append(e, x)) = store_byte(Destuff(s0, e), x)
    BY DestuffStep
  <2>2. store_byte(Destuff(s0, e), x) \in Automaton
    BY <1>2, StoreByteType
  <2> QED
    BY <2>1, <2>2, AppendFacts
<1> HIDE DEF T
<1>3. Seq(Byte) \subseteq T
  BY <1>1, <1>2, SeqInduction
<1> QED
  BY <1>3 DEF T

LEMMA ConcatAppend ==
    ASSUME NEW S, NEW d \in Seq(S), NEW e \in Seq(S), NEW x \in S
    PROVE  /\ d \o e \in Seq(S)
           /\ d \o <<>> = d
           /\ <<>> \o d = d
           /\ d \o Append(e, x) = Append(d \o e, x)
           /\ Append(d, x) = d \o <<x>>
<1>1. d \o e \in Seq(S)
  BY ConcatProperties
<1>2. d \o <<>> = d /\ <<>> \o d = d
  BY ConcatEmptySeq
<1>3. d \o Append(e, x) = Append(d \o e, x)
  OBVIOUS
<1>4. Append(d, x) = d \o <<x>>
  OBVIOUS
<1> QED
  BY <1>1, <1>2, <1>3, <1>4

Joined(c, d, e) ==
    /\ Len(c) = Len(d) + Len(e)
    /\ \A m \in 1..Len(d) : c[m] = d[m]
    /\ \A m \in 1..Len(e) : c[Len(d) + m] = e[m]

LEMMA ConcatFacts ==
    ASSUME NEW S, NEW d \in Seq(S), NEW e \in Seq(S)
    PROVE  /\ d \o e \in Seq(S)
           /\ Len(d) \in Nat /\ Len(e) \in Nat
           /\ Joined(d \o e, d, e)
<1>1. \A m \in 1..Len(d) : (d \o e)[m] = d[m]
  OBVIOUS
<1>2. \A m \in 1..Len(e) : (d \o e)[Len(d) + m] = e[m]
  OBVIOUS
<1> QED
  BY <1>1, <1>2, ConcatProperties, LenProperties DEF Joined

\* Cutting the stream changes nothing.
LEMMA DestuffConcat ==
    ASSUME NEW s0 \in Automaton, NEW d \in Seq(Byte), NEW e \in Seq(Byte)
    PROVE  Destuff(s0, d \o e) = Destuff(Destuff(s0, d), e)
<1> DEFINE T == {r \in Seq(Byte) : Destuff(s0, d \o r) = Destuff(Destuff(s0, d), r)}
<1>0. Destuff(s0, d) \in Automaton
  BY DestuffType
<1>1. <<>> \in T
  BY <1>0, DestuffStep, EmptySeq, ConcatEmptySeq
<1>2. ASSUME NEW r \in Seq(Byte), NEW x \in Byte, r \in T PROVE Append(r, x) \in T
  <2>1. d \o Append(r, x) = Append(d \o r, x) /\ d \o r \in Seq(Byte)
    BY ConcatAppend
  <2>2. Destuff(s0, Append(d \o r, x)) = store_byte(Destuff(s0, d \o r), x)
    BY <2>1, DestuffStep
  <2>3. Destuff(Destuff(s0, d), Append(r, x)) = store_byte(Destuff(Destuff(s0, d), r), x)
    BY <1>0, DestuffStep
  <2> QED
    BY <1>2, <2>1, <2>2, <2>3, AppendFacts
<1> HIDE DEF T
<1>3. Seq(Byte) \subseteq T
  BY <1>1, <1>2, SeqInduction
<1> QED
  BY <1>3 DEF T

LEMMA ByteConcat ==
    ASSUME NEW c \in Seq(Byte), NEW d \in Seq(Byte), NEW e \in Seq(Byte)
    PROVE  (c \o d) \o e = c \o (d \o e)
  BY ConcatAssociative

\* What is in the buffer already stays in front.
Behind(o, s) == [state |-> s.state, out |-> o \o s.out]

LEMMA StoreByteBehind ==
    ASSUME NEW o \in Seq(Byte), NEW s \in Automaton, NEW x \in Byte
    PROVE  Behind(o, s) \in Automaton /\ store_byte(Behind(o, s), x) = Behind(o, store_byte(s, x))
<1>1. s.state \in {"normal", "possible_stuff"} /\ s.out \in Seq(Byte)
  BY DEF Automaton
<1>2. o \o s.out \in Seq(Byte) /\ o \o Append(s.out, x) = Append(o \o s.out, x)
  BY <1>1, ConcatAppend
<1>3. Behind(o, s) \in Automaton
  BY <1>1, <1>2 DEF Behind, Automaton
<1>4. <<Prefix>> \in Seq(Byte) /\ <<Escape>> \in Seq(Byte) /\ <<Escape, x>> \in Seq(Byte)
  BY DEF Prefix, Escape, Byte
<1>5. ASSUME NEW r \in Seq(Byte) PROVE o \o (s.out \o r) = (o \o s.out) \o r
  BY <1>1, ByteConcat
<1>6. CASE s.state = "normal"
  <2>1. CASE x = Escape
    <3>1. store_byte(s, x) = [state |-> "possible_stuff", out |-> s.out]
      BY <1>6, <2>1 DEF store_byte, Automaton
    <3>2. store_byte(Behind(o, s), x) = [state |-> "possible_stuff", out |-> o \o s.out]
      BY <1>6, <2>1 DEF store_byte, Behind
    <3> QED
      BY <1>3, <3>1, <3>2 DEF Behind
  <2>2. CASE x # Escape
    BY <1>2, <1>6, <2>2 DEF Behind, store_byte, Automaton
  <2> QED
    BY <1>3, <2>1, <2>2
<1>7. CASE s.state = "possible_stuff"
  BY <1>3, <1>4, <1>5, <1>7 DEF Behind, store_byte
<1> QED
  BY <1>1, <1>6, <1>7

LEMMA DestuffBehind ==
    ASSUME NEW o \in Seq(Byte), NEW s0 \in Automaton, NEW d \in Seq(Byte)
    PROVE  Destuff(Behind(o, s0), d) = Behind(o, Destuff(s0, d))
<1> DEFINE T == {r \in Seq(Byte) : Destuff(Behind(o, s0), r) = Behind(o, Destuff(s0, r))}
<1>0. Behind(o, s0) \in Automaton
  BY StoreByteBehind, 0 \in Byte DEF Byte
<1>1. <<>> \in T
  BY <1>0, DestuffStep, EmptySeq
<1>2. ASSUME NEW r \in Seq(Byte), NEW x \in Byte, r \in T PROVE Append(r, x) \in T
  <2>1. Destuff(s0, r) \in Automaton
    BY DestuffType
  <2>2. Destuff(Behind(o, s0), Append(r, x)) = store_byte(Destuff(Behind(o, s0), r), x)
    BY <1>0, DestuffStep
  <2>3. Destuff(s0, Append(r, x)) = store_byte(Destuff(s0, r), x)
    BY DestuffStep
  <2>4. store_byte(Behind(o, Destuff(s0, r)), x) = Behind(o, store_byte(Destuff(s0, r), x))
    BY <2>1, StoreByteBehind
  <2> QED
    BY <1>2, <2>2, <2>3, <2>4, AppendFacts
<1> HIDE DEF T
<1>3. Seq(Byte) \subseteq T
  BY <1>1, <1>2, SeqInduction
<1> QED
  BY <1>3 DEF T

-----------------------------------------------------------------------------
(* Stuffing, one byte more.                                                *)

LEMMA StuffByteType ==
    ASSUME NEW o \in Seq(Byte \ {Prefix}), NEW x \in Byte
    PROVE  stuff_byte(x) \in Seq(Byte \ {Prefix}) /\ o \o stuff_byte(x) \in Seq(Byte \ {Prefix})
<1>1. /\ <<Escape, EscapedPrefix>> \in Seq(Byte \ {Prefix})
      /\ <<Escape, EscapedEscape>> \in Seq(Byte \ {Prefix})
      /\ x # Prefix => <<x>> \in Seq(Byte \ {Prefix})
  BY DEF Prefix, Escape, EscapedPrefix, EscapedEscape, Byte
<1>2. stuff_byte(x) \in Seq(Byte \ {Prefix})
  BY <1>1 DEF stuff_byte
<1> QED
  BY <1>2, ConcatProperties

IsStuffing(f, d) ==
    /\ f[0] = <<>>
    /\ \A n \in 1..Len(d) : f[n] = f[n - 1] \o stuff_byte(d[n])

LEMMA FoldIsStuffing ==
    ASSUME NEW d \in Seq(Byte)
    PROVE  \E f : IsStuffing(f, d) /\ Stuff(d) = f[Len(d)]
<1> DEFINE L == Len(d)
           X == Seq(Byte \ {Prefix})
           st == [i \in 1..L |-> [x \in X |-> x \o stuff_byte(d[i])]]
           P(h) == h = [S \in SUBSET DOMAIN d |->
                           IF S = {} THEN <<>> ELSE h[S \ {Max(S)}] \o stuff_byte(d[Max(S)])]
           it == CHOOSE h : P(h)
           f == [n \in 0..L |-> it[1..n]]
<1>1. L \in Nat /\ DOMAIN d = 1..L /\ (\A i \in 1..L : d[i] \in Byte) /\ <<>> \in X
  BY EmptySeq
<1>2. st \in [1..L -> [X -> X]]
  <2>1. \A i \in 1..L, x \in X : x \o stuff_byte(d[i]) \in X
    BY <1>1, StuffByteType
  <2> HIDE DEF X
  <2> QED
    BY <2>1
<1>3. PICK g : Iterates(g, X, <<>>, L, st)
  <2> HIDE DEF st, L, X
  <2> QED
    BY <1>1, <1>2, FoldExists
<1>4. /\ g \in [SUBSET (1..L) -> X]
      /\ \A S \in SUBSET (1..L) : g[S] = IF S = {} THEN <<>> ELSE st[Max(S)][g[S \ {Max(S)}]]
  <2> HIDE DEF st, L, X
  <2> QED
    BY <1>3 DEF Iterates
<1>5. ASSUME NEW S \in SUBSET (1..L), S # {}
      PROVE  st[Max(S)][g[S \ {Max(S)}]] = g[S \ {Max(S)}] \o stuff_byte(d[Max(S)])
  <2>1. Max(S) \in 1..L
    <3> HIDE DEF L
    <3> QED
      BY <1>1, <1>5, MaxOfSet
  <2>2. g[S \ {Max(S)}] \in X
    BY <1>4
  <2> HIDE DEF X
  <2> QED
    BY <2>1, <2>2
<1>6. P(g)
  <2> HIDE DEF st, L, X
  <2>1. \A S \in SUBSET (1..L) : g[S] = IF S = {} THEN <<>> ELSE g[S \ {Max(S)}] \o stuff_byte(d[Max(S)])
    BY <1>4, <1>5
  <2> QED
    BY <1>1, <1>4, <2>1
<1>7. P(it)
  BY <1>6
<1>8. Stuff(d) = it[DOMAIN d]
  BY DEF Stuff, FoldLeft, MapThenFoldSet
<1>9. \A S \in SUBSET (1..L) : it[S] = IF S = {} THEN <<>> ELSE it[S \ {Max(S)}] \o stuff_byte(d[Max(S)])
  <2> HIDE DEF it, L
  <2> QED
    BY <1>1, <1>7
<1> HIDE DEF it, L
<1>10. f[0] = <<>>
  <2>1. 1..0 = {} /\ {} \in SUBSET (1..L)
    OBVIOUS
  <2>2. f[0] = it[{}]
    BY <1>1, <2>1
  <2> QED
    BY <1>9, <2>1, <2>2
<1>11. ASSUME NEW n \in 1..L PROVE f[n] = f[n - 1] \o stuff_byte(d[n])
  <2>1. n - 1 \in Nat /\ n \in Nat \ {0}
    BY <1>1
  <2>2. 1..n \in SUBSET (1..L) /\ n \in 1..n /\ (1..n) \ {n} = 1..(n - 1)
    BY <1>1, <2>1
  <2>3. Max(1..n) = n
    BY <2>1, MaxOfInterval
  <2>4. it[1..n] = it[1..(n - 1)] \o stuff_byte(d[n])
    BY <1>9, <2>2, <2>3
  <2>5. f[n] = it[1..n] /\ f[n - 1] = it[1..(n - 1)]
    BY <1>1, <2>1
  <2> QED
    BY <2>4, <2>5
<1>12. Stuff(d) = f[L]
  BY <1>1, <1>8
<1> HIDE DEF f
<1>13. IsStuffing(f, d) /\ Stuff(d) = f[Len(d)]
  BY <1>10, <1>11, <1>12 DEF IsStuffing, L
<1> QED
  BY <1>13

LEMMA StuffStep ==
    /\ Stuff(<<>>) = <<>>
    /\ \A d \in Seq(Byte), x \in Byte : Stuff(Append(d, x)) = Stuff(d) \o stuff_byte(x)
<1>1. Stuff(<<>>) = <<>>
  <2>1. <<>> \in Seq(Byte) /\ Len(<<>>) = 0
    BY EmptySeq
  <2>2. PICK f : IsStuffing(f, <<>>) /\ Stuff(<<>>) = f[Len(<<>>)]
    BY <2>1, FoldIsStuffing
  <2> QED
    BY <2>1, <2>2 DEF IsStuffing
<1>2. ASSUME NEW d \in Seq(Byte), NEW x \in Byte
      PROVE  Stuff(Append(d, x)) = Stuff(d) \o stuff_byte(x)
  <2> DEFINE L == Len(d)
             e == Append(d, x)
  <2>1. /\ e \in Seq(Byte) /\ Len(e) = L + 1 /\ L \in Nat /\ e[L + 1] = x
        /\ \A n \in 1..L : e[n] = d[n]
    BY AppendFacts
  <2> HIDE DEF e
  <2>2. PICK f : IsStuffing(f, d) /\ Stuff(d) = f[Len(d)]
    BY FoldIsStuffing
  <2>3. PICK g : IsStuffing(g, e) /\ Stuff(e) = g[Len(e)]
    BY <2>1, FoldIsStuffing
  <2> HIDE DEF L
  <2>4. f[0] = g[0]
    BY <2>2, <2>3 DEF IsStuffing
  <2>5. ASSUME NEW n \in 1..L, f[n - 1] = g[n - 1] PROVE f[n] = g[n]
    <3>1. n \in 1..Len(e) /\ n \in 1..Len(d)
      BY <2>1 DEF L
    <3>2. f[n] = f[n - 1] \o stuff_byte(d[n])
      BY <2>2, <3>1 DEF IsStuffing
    <3>3. g[n] = g[n - 1] \o stuff_byte(e[n])
      BY <2>3, <3>1 DEF IsStuffing
    <3> QED
      BY <2>1, <2>5, <3>2, <3>3
  <2>6. f[L] = g[L]
    BY <2>1, <2>4, <2>5, SameRuns
  <2>7. L + 1 \in 1..Len(e) /\ (L + 1) - 1 = L
    BY <2>1
  <2>8. g[L + 1] = g[(L + 1) - 1] \o stuff_byte(e[L + 1])
    BY <2>3, <2>7 DEF IsStuffing
  <2>9. g[L + 1] = g[L] \o stuff_byte(x)
    BY <2>1, <2>7, <2>8
  <2> QED
    BY <2>1, <2>2, <2>3, <2>6, <2>9 DEF L, e
<1> QED
  BY <1>1, <1>2

LEMMA StuffType ==
    ASSUME NEW d \in Seq(Byte)
    PROVE  Stuff(d) \in Seq(Byte \ {Prefix})
<1> DEFINE T == {e \in Seq(Byte) : Stuff(e) \in Seq(Byte \ {Prefix})}
<1>1. <<>> \in T
  BY StuffStep, EmptySeq
<1>2. ASSUME NEW e \in Seq(Byte), NEW x \in Byte, e \in T PROVE Append(e, x) \in T
  <2>1. Stuff(Append(e, x)) = Stuff(e) \o stuff_byte(x)
    BY StuffStep
  <2>2. Stuff(e) \o stuff_byte(x) \in Seq(Byte \ {Prefix})
    BY <1>2, StuffByteType
  <2> QED
    BY <2>1, <2>2, AppendFacts
<1> HIDE DEF T
<1>3. Seq(Byte) \subseteq T
  BY <1>1, <1>2, SeqInduction
<1> QED
  BY <1>3 DEF T

-----------------------------------------------------------------------------
(* Destuffing undoes stuffing.                                             *)

Normal(o) == [state |-> "normal", out |-> o]

LEMMA DestuffOne ==
    ASSUME NEW s0 \in Automaton, NEW x \in Byte, NEW y \in Byte
    PROVE  /\ Destuff(s0, <<x>>) = store_byte(s0, x)
           /\ Destuff(s0, <<x, y>>) = store_byte(store_byte(s0, x), y)
<1>1. <<x>> = Append(<<>>, x) /\ <<x, y>> = Append(<<x>>, y) /\ <<x>> \in Seq(Byte) /\ <<>> \in Seq(Byte)
  OBVIOUS
<1>2. Destuff(s0, Append(<<>>, x)) = store_byte(Destuff(s0, <<>>), x)
  BY <1>1, DestuffStep
<1>3. Destuff(s0, <<x>>) = store_byte(s0, x)
  BY <1>1, <1>2, DestuffStep
<1>4. Destuff(s0, Append(<<x>>, y)) = store_byte(Destuff(s0, <<x>>), y)
  BY <1>1, DestuffStep
<1> QED
  BY <1>1, <1>3, <1>4

LEMMA NormalType ==
    ASSUME NEW o \in Seq(Byte)
    PROVE  Normal(o) \in Automaton
  BY DEF Normal, Automaton

LEMMA DestuffStuffByte ==
    ASSUME NEW o \in Seq(Byte), NEW x \in Byte
    PROVE  Destuff(Normal(o), stuff_byte(x)) = Normal(Append(o, x))
<1>1. /\ Escape \in Byte /\ EscapedPrefix \in Byte /\ EscapedEscape \in Byte
      /\ EscapedPrefix # EscapedEscape /\ Prefix # Escape
  BY DEF Escape, EscapedPrefix, EscapedEscape, Prefix, Byte
<1>2. Normal(o) \in Automaton
  BY NormalType
<1>3. store_byte(Normal(o), Escape) = [state |-> "possible_stuff", out |-> o]
  BY DEF store_byte, Normal
<1>7. Append(o, x) = o \o <<x>>
  OBVIOUS
<1>4. CASE x = Prefix
  <2>1. stuff_byte(x) = <<Escape, EscapedPrefix>>
    BY <1>1, <1>4 DEF stuff_byte
  <2>2. Destuff(Normal(o), <<Escape, EscapedPrefix>>) = store_byte(store_byte(Normal(o), Escape), EscapedPrefix)
    BY <1>1, <1>2, DestuffOne
  <2>3. store_byte(store_byte(Normal(o), Escape), EscapedPrefix) = Normal(o \o <<Prefix>>)
    BY <1>1, <1>3 DEF store_byte, Normal
  <2> QED
    BY <1>4, <1>7, <2>1, <2>2, <2>3
<1>5. CASE x = Escape
  <2>1. stuff_byte(x) = <<Escape, EscapedEscape>>
    BY <1>1, <1>5 DEF stuff_byte
  <2>2. Destuff(Normal(o), <<Escape, EscapedEscape>>) = store_byte(store_byte(Normal(o), Escape), EscapedEscape)
    BY <1>1, <1>2, DestuffOne
  <2>3. store_byte(store_byte(Normal(o), Escape), EscapedEscape) = Normal(o \o <<Escape>>)
    BY <1>1, <1>3 DEF store_byte, Normal
  <2> QED
    BY <1>5, <1>7, <2>1, <2>2, <2>3
<1>6. CASE x # Prefix /\ x # Escape
  <2>1. stuff_byte(x) = <<x>>
    BY <1>6 DEF stuff_byte
  <2>2. Destuff(Normal(o), stuff_byte(x)) = store_byte(Normal(o), x)
    BY <1>2, <2>1, DestuffOne
  <2>3. store_byte(Normal(o), x) = Normal(Append(o, x))
    BY <1>6 DEF store_byte, Normal
  <2> QED
    BY <2>2, <2>3
<1> QED
  BY <1>4, <1>5, <1>6

\* Destuffing undoes stuffing (store_data, protocol.cpp 525-557, and
\* stuff_byte_to_buffer, protocol.cpp 503-519).
LEMMA DestuffStuff ==
    ASSUME NEW o \in Seq(Byte), NEW d \in Seq(Byte)
    PROVE  Destuff(Normal(o), Stuff(d)) = Normal(o \o d)
<1> DEFINE T == {e \in Seq(Byte) : Destuff(Normal(o), Stuff(e)) = Normal(o \o e)}
<1>0. Normal(o) \in Automaton
  BY NormalType
<1>1. <<>> \in T
  BY <1>0, DestuffStep, StuffStep, EmptySeq, ConcatEmptySeq
<1>2. ASSUME NEW e \in Seq(Byte), NEW x \in Byte, e \in T PROVE Append(e, x) \in T
  <2>1. Stuff(Append(e, x)) = Stuff(e) \o stuff_byte(x)
    BY StuffStep
  <2>2. Stuff(e) \in Seq(Byte) /\ stuff_byte(x) \in Seq(Byte)
    <3>1. Stuff(e) \in Seq(Byte \ {Prefix})
      BY StuffType
    <3>2. stuff_byte(x) \in Seq(Byte \ {Prefix})
      BY <3>1, StuffByteType
    <3>3. \A r \in Seq(Byte \ {Prefix}) : r \in Seq(Byte)
      OBVIOUS
    <3> QED
      BY <3>1, <3>2, <3>3
  <2>3. Destuff(Normal(o), Stuff(e) \o stuff_byte(x)) = Destuff(Destuff(Normal(o), Stuff(e)), stuff_byte(x))
    BY <1>0, <2>2, DestuffConcat
  <2>4. o \o e \in Seq(Byte) /\ o \o Append(e, x) = Append(o \o e, x)
    BY ConcatAppend
  <2>5. Destuff(Normal(o \o e), stuff_byte(x)) = Normal(Append(o \o e, x))
    BY <2>4, DestuffStuffByte
  <2> QED
    BY <1>2, <2>1, <2>3, <2>4, <2>5, AppendFacts
<1> HIDE DEF T
<1>3. Seq(Byte) \subseteq T
  BY <1>1, <1>2, SeqInduction
<1> QED
  BY <1>3 DEF T

NoEscapedPrefix(e) == \A i \in 1..Len(e) - 1 : e[i] = Escape => e[i + 1] # EscapedPrefix

\* Bytes without a prefix give none, and an escape is open only after one.
LEMMA JunkDestuffed ==
    ASSUME NEW d \in Seq(Byte \ {Prefix}), NoEscapedPrefix(d)
    PROVE  LET s == Destuff(Normal(<<>>), d)
           IN  /\ s.out \in Seq(Byte \ {Prefix})
               /\ s.state = "normal" \/ (d # <<>> /\ d[Len(d)] = Escape)
<1> DEFINE B == Byte \ {Prefix}
           D(e) == Destuff(Normal(<<>>), e)
           OK(e) == /\ D(e).out \in Seq(B)
                    /\ D(e).state = "normal" \/ (e # <<>> /\ e[Len(e)] = Escape)
           T == {e \in Seq(B) : NoEscapedPrefix(e) => OK(e)}
<1>0. Normal(<<>>) \in Automaton /\ <<>> \in Seq(B)
  BY NormalType, EmptySeq
<1>1. <<>> \in T
  <2>1. D(<<>>) = Normal(<<>>)
    BY <1>0, DestuffStep
  <2> HIDE DEF D
  <2>2. D(<<>>).out = <<>> /\ D(<<>>).state = "normal"
    BY <2>1 DEF Normal
  <2>3. OK(<<>>)
    BY <1>0, <2>2
  <2> HIDE DEF OK
  <2> QED
    BY <1>0, <2>3
<1>2. ASSUME NEW e \in Seq(B), NEW x \in B, e \in T PROVE Append(e, x) \in T
  <2> SUFFICES ASSUME NoEscapedPrefix(Append(e, x)) PROVE OK(Append(e, x))
    BY AppendFacts
  <2>1. /\ Append(e, x) \in Seq(B) /\ Len(Append(e, x)) = Len(e) + 1 /\ Len(e) \in Nat
        /\ \A n \in 1..Len(e) : Append(e, x)[n] = e[n]
        /\ Append(e, x)[Len(e) + 1] = x
    BY AppendFacts
  <2>2. NoEscapedPrefix(e)
    <3>1. ASSUME NEW i \in 1..Len(e) - 1, e[i] = Escape PROVE e[i + 1] # EscapedPrefix
      <4>1. i \in 1..Len(Append(e, x)) - 1 /\ i \in 1..Len(e) /\ i + 1 \in 1..Len(e)
        BY <2>1
      <4>2. Append(e, x)[i] = e[i] /\ Append(e, x)[i + 1] = e[i + 1]
        BY <2>1, <4>1
      <4> QED
        BY <3>1, <4>1, <4>2 DEF NoEscapedPrefix
    <3> QED
      BY <3>1 DEF NoEscapedPrefix
  <2>3. OK(e)
    BY <1>2, <2>2
  <2>4. e \in Seq(Byte) /\ x \in Byte /\ x # Prefix /\ D(e) \in Automaton
    <3>1. e \in Seq(Byte) /\ x \in Byte /\ x # Prefix
      OBVIOUS
    <3> QED
      BY <1>0, <3>1, DestuffType
  <2>5. D(Append(e, x)) = store_byte(D(e), x)
    BY <1>0, <2>4, DestuffStep
  <2> HIDE DEF D
  <2>6. CASE D(e).state = "normal"
    <3>1. CASE x = Escape
      <4>1. D(Append(e, x)).out = D(e).out
        BY <2>4, <2>5, <2>6, <3>1 DEF store_byte, Automaton
      <4>2. Append(e, x) # <<>> /\ Append(e, x)[Len(Append(e, x))] = Escape
        BY <2>1, <3>1
      <4> QED
        BY <2>3, <4>1, <4>2
    <3>2. CASE x # Escape
      <4>1. D(Append(e, x)).out = Append(D(e).out, x) /\ D(Append(e, x)).state = "normal"
        BY <2>4, <2>5, <2>6, <3>2 DEF store_byte, Automaton
      <4>2. Append(D(e).out, x) \in Seq(B)
        BY <2>3, AppendFacts
      <4> QED
        BY <4>1, <4>2
    <3> QED
      BY <3>1, <3>2
  <2>7. CASE D(e).state # "normal"
    <3>1. e # <<>> /\ e[Len(e)] = Escape /\ Len(e) \in 1..Len(e)
      BY <2>1, <2>3, <2>7
    <3>2. x # EscapedPrefix
      <4>1. Len(e) \in 1..Len(Append(e, x)) - 1 /\ Append(e, x)[Len(e)] = e[Len(e)]
        BY <2>1, <3>1
      <4> QED
        BY <2>1, <3>1, <4>1 DEF NoEscapedPrefix
    <3>3. <<Escape>> \in Seq(B) /\ <<Escape, x>> \in Seq(B)
      BY DEF Escape, Prefix, Byte
    <3>4. PICK r \in Seq(B) : D(Append(e, x)) = [state |-> "normal", out |-> D(e).out \o r]
      BY <2>5, <2>7, <3>2, <3>3 DEF store_byte
    <3>5. D(e).out \o r \in Seq(B)
      BY <2>3, ConcatProperties
    <3> QED
      BY <3>4, <3>5
  <2> QED
    BY <2>6, <2>7
<1> HIDE DEF T
<1>3. Seq(B) \subseteq T
  BY <1>1, <1>2, SeqInduction
<1> QED
  BY <1>3 DEF T

-----------------------------------------------------------------------------
(* One frame.                                                              *)

Checksum(body, good) == (Crc(Content(body)) + (IF good THEN 0 ELSE 1)) % Word

\* What the header, the data and the checksum of a frame are before stuffing.
Payload(body, good) ==
    Content(body) \o <<Checksum(body, good) \div 256, Checksum(body, good) % 256>>

LEMMA WordArithmetic ==
    ASSUME NEW n \in Nat, n < Word
    PROVE  /\ n % 256 \in Byte /\ n \div 256 \in Byte
           /\ 256 * (n \div 256) + (n % 256) = n
           /\ n % Word = n
           /\ (n + 1) % Word \in Nat /\ (n + 1) % Word < Word /\ (n + 1) % Word # n
<1>1. n < 65536
  BY DEF Word
<1>2. n % 256 < 256 /\ n % 256 \in Nat /\ n \div 256 \in Nat /\ n \div 256 < 256
  BY <1>1
<1>3. 256 * (n \div 256) + (n % 256) = n
  BY <1>1
<1>4. n % 65536 = n /\ (n + 1) % 65536 \in Nat /\ (n + 1) % 65536 < 65536 /\ (n + 1) % 65536 # n
  BY <1>1
<1>5. n % Word = n /\ (n + 1) % Word \in Nat /\ (n + 1) % Word < Word /\ (n + 1) % Word # n
  BY <1>4 DEF Word
<1>6. n % 256 \in Byte /\ n \div 256 \in Byte
  BY <1>2 DEF Byte
<1> QED
  BY <1>3, <1>5, <1>6

LEMMA ContentType ==
    ASSUME NEW body \in Body
    PROVE  /\ body \in Seq(Byte) /\ Len(body) \in Nat \ {0} /\ Len(body) <= Word
           /\ Cmd(body) \in Byte
           /\ Data(body) \in Seq(Byte) /\ Len(Data(body)) = Len(body) - 1
           /\ Len(Data(body)) \in Nat /\ Len(Data(body)) < Word
           /\ Content(body) \in Seq(Byte) /\ Len(Content(body)) = Len(body) + 2
           /\ Crc(Content(body)) \in Nat /\ Crc(Content(body)) < Word
<1>0. Word \in Nat
  BY DEF Word
<1>1. body \in Seq(Byte) /\ Len(body) \in Nat \ {0} /\ Len(body) <= Word /\ body # <<>>
  <2>1. body \in Seq(Byte) /\ body # <<>> /\ Len(body) <= Word
    BY BodyAssumption
  <2> QED
    BY <2>1, EmptySeq, LenProperties
<1>2. Data(body) \in Seq(Byte) /\ Len(Data(body)) = Len(body) - 1 /\ Cmd(body) \in Byte
  BY <1>1 DEF Data, Cmd
<1>3. Len(Data(body)) \in Nat /\ Len(Data(body)) < Word
  BY <1>0, <1>1, <1>2
<1>4. Len(Data(body)) % 256 \in Byte /\ Len(Data(body)) \div 256 \in Byte
  BY <1>3, WordArithmetic
<1> DEFINE head == <<Cmd(body), Len(Data(body)) % 256, Len(Data(body)) \div 256>>
<1>5. head \in Seq(Byte) /\ Len(head) = 3
  BY <1>2, <1>4
<1>6. Content(body) = head \o Data(body)
  BY DEF Content
<1> HIDE DEF head
<1>7. Content(body) \in Seq(Byte) /\ Len(Content(body)) = 3 + Len(Data(body))
  <2> DEFINE data == Data(body)
  <2>1. data \in Seq(Byte)
    BY <1>2
  <2> HIDE DEF data
  <2>2. head \o data \in Seq(Byte) /\ Len(head \o data) = Len(head) + Len(data)
    BY <1>5, <2>1, ConcatProperties
  <2> QED
    BY <1>5, <1>6, <2>2 DEF data
<1>8. Len(Content(body)) = Len(body) + 2
  BY <1>1, <1>2, <1>7
<1> QED
  BY <1>1, <1>2, <1>3, <1>7, <1>8, CrcAssumption

LEMMA PayloadType ==
    ASSUME NEW body \in Body, NEW good \in BOOLEAN
    PROVE  /\ Payload(body, good) \in Seq(Byte) /\ Len(Payload(body, good)) = Len(body) + 4
           /\ Checksum(body, good) \in Nat /\ Checksum(body, good) < Word
           /\ (Checksum(body, good) = Crc(Content(body))) <=> good
<1> DEFINE c == Crc(Content(body))
<1>1. /\ body \in Seq(Byte) /\ Len(body) \in Nat
      /\ Content(body) \in Seq(Byte) /\ Len(Content(body)) = Len(body) + 2
      /\ c \in Nat /\ c < Word
  BY ContentType
<1>2. /\ Checksum(body, good) \in Nat /\ Checksum(body, good) < Word
      /\ (Checksum(body, good) = c) <=> good
  <2>1. CASE good
    <3>1. Checksum(body, good) = (c + 0) % Word
      BY <2>1 DEF Checksum
    <3> HIDE DEF c
    <3>2. Checksum(body, good) = c % Word
      BY <1>1, <3>1
    <3>3. c % Word = c
      BY <1>1, WordArithmetic
    <3> QED
      BY <1>1, <2>1, <3>2, <3>3
  <2>2. CASE ~good
    <3>1. Checksum(body, good) = (c + 1) % Word
      BY <2>2 DEF Checksum
    <3> HIDE DEF c
    <3> QED
      BY <1>1, <2>2, <3>1, WordArithmetic
  <2> QED
    BY <2>1, <2>2
<1> DEFINE tail == <<Checksum(body, good) \div 256, Checksum(body, good) % 256>>
<1>3. Checksum(body, good) \div 256 \in Byte /\ Checksum(body, good) % 256 \in Byte
  BY <1>2, WordArithmetic
<1>4. tail \in Seq(Byte) /\ Len(tail) = 2
  BY <1>3
<1>5. Payload(body, good) = Content(body) \o tail
  BY DEF Payload
<1> HIDE DEF tail
<1>6. Payload(body, good) \in Seq(Byte) /\ Len(Payload(body, good)) = Len(Content(body)) + 2
  <2>1. Content(body) \o tail \in Seq(Byte) /\ Len(Content(body) \o tail) = Len(Content(body)) + Len(tail)
    BY <1>1, <1>4, ConcatProperties
  <2> QED
    BY <1>4, <1>5, <2>1
<1>7. Len(Payload(body, good)) = Len(body) + 4
  BY <1>1, <1>6
<1> QED
  BY <1>2, <1>6, <1>7

\* A prefix, whatever the automaton waits for, and a stuffed payload.
LEMMA PrefixedDestuffed ==
    ASSUME NEW s \in Automaton, NEW d \in Seq(Byte)
    PROVE  \E e \in {<<>>, <<Escape>>} :
               /\ s.state = "normal" => e = <<>>
               /\ Destuff(s, <<Prefix>> \o Stuff(d)) = Normal(((s.out \o e) \o <<Prefix>>) \o d)
<1>1. s.state \in {"normal", "possible_stuff"} /\ s.out \in Seq(Byte)
  BY DEF Automaton
<1>2. /\ <<Prefix>> \in Seq(Byte) /\ Prefix \in Byte /\ <<Escape>> \in Seq(Byte)
      /\ Prefix # Escape /\ Prefix # EscapedPrefix /\ Prefix # EscapedEscape
  BY DEF Prefix, Escape, EscapedPrefix, EscapedEscape, Byte
<1>3. Stuff(d) \in Seq(Byte)
  <2>1. Stuff(d) \in Seq(Byte \ {Prefix})
    BY StuffType
  <2> QED
    BY <2>1
<1>4. Destuff(s, <<Prefix>> \o Stuff(d)) = Destuff(Destuff(s, <<Prefix>>), Stuff(d))
  BY <1>2, <1>3, DestuffConcat
<1>5. Destuff(s, <<Prefix>>) = store_byte(s, Prefix)
  BY <1>2, DestuffOne
<1>6. PICK e \in {<<>>, <<Escape>>} :
          /\ s.state = "normal" => e = <<>>
          /\ store_byte(s, Prefix) = Normal((s.out \o e) \o <<Prefix>>)
  <2>1. CASE s.state = "normal"
    <3>1. store_byte(s, Prefix) = [state |-> "normal", out |-> Append(s.out, Prefix)]
      BY <1>2, <2>1 DEF store_byte, Automaton
    <3>2. Append(s.out, Prefix) = (s.out \o <<>>) \o <<Prefix>>
      BY <1>1
    <3> QED
      BY <3>1, <3>2 DEF Normal
  <2>2. CASE s.state = "possible_stuff"
    <3>1. store_byte(s, Prefix) = [state |-> "normal", out |-> s.out \o <<Escape, Prefix>>]
      BY <1>2, <2>2 DEF store_byte
    <3>2. <<Escape, Prefix>> = <<Escape>> \o <<Prefix>>
      OBVIOUS
    <3>3. s.out \o (<<Escape>> \o <<Prefix>>) = (s.out \o <<Escape>>) \o <<Prefix>>
      BY <1>1, <1>2, ByteConcat
    <3> QED
      BY <2>2, <3>1, <3>2, <3>3 DEF Normal
  <2> QED
    BY <1>1, <2>1, <2>2
<1>7. (s.out \o e) \o <<Prefix>> \in Seq(Byte)
  <2>1. e \in Seq(Byte)
    BY <1>2, EmptySeq
  <2>2. s.out \o e \in Seq(Byte)
    BY <1>1, <2>1, ConcatProperties
  <2> QED
    BY <1>2, <2>2, ConcatProperties
<1>8. Destuff(Normal((s.out \o e) \o <<Prefix>>), Stuff(d)) = Normal(((s.out \o e) \o <<Prefix>>) \o d)
  BY <1>7, DestuffStuff
<1> QED
  BY <1>4, <1>5, <1>6, <1>8

LEMMA FrameDestuffed ==
    ASSUME NEW o \in Seq(Byte), NEW junk \in Junk, NEW body \in Body, NEW good \in BOOLEAN
    PROVE  /\ junk \o DeviceFrame(body, good) \in Seq(Byte)
           /\ \E j \in Seq(Byte \ {Prefix}) :
                  Destuff(Normal(o), junk \o DeviceFrame(body, good)) =
                      Normal(o \o ((j \o <<Prefix>>) \o Payload(body, good)))
<1> DEFINE d == Payload(body, good)
           frame == <<Prefix>> \o Stuff(d)
           s == Destuff(Normal(<<>>), junk)
           t == Behind(o, s)
<1>1. d \in Seq(Byte)
  BY PayloadType
<1>2. DeviceFrame(body, good) = frame
  BY DEF DeviceFrame, Payload, Checksum
<1> HIDE DEF d
<1>3. /\ junk \in Seq(Byte \ {Prefix}) /\ junk \in Seq(Byte) /\ NoEscapedPrefix(junk)
      /\ <<Prefix>> \in Seq(Byte) /\ <<Escape>> \in Seq(Byte \ {Prefix}) /\ <<>> \in Seq(Byte \ {Prefix})
  <2>1. junk \in Seq(Byte \ {Prefix})
    BY JunkAssumption
  <2>2. junk \in Seq(Byte)
    BY <2>1
  <2>3. NoEscapedPrefix(junk)
    BY JunkAssumption DEF NoEscapedPrefix
  <2>4. <<Prefix>> \in Seq(Byte) /\ <<Escape>> \in Seq(Byte \ {Prefix}) /\ <<>> \in Seq(Byte \ {Prefix})
    BY DEF Prefix, Escape, Byte
  <2> QED
    BY <2>1, <2>2, <2>3, <2>4
<1>4. frame \in Seq(Byte) /\ junk \o frame \in Seq(Byte)
  <2>1. Stuff(d) \in Seq(Byte \ {Prefix})
    BY <1>1, StuffType
  <2>2. Stuff(d) \in Seq(Byte)
    BY <2>1
  <2>3. frame \in Seq(Byte)
    BY <1>3, <2>2, ConcatProperties
  <2> HIDE DEF frame
  <2> QED
    BY <1>3, <2>3, ConcatProperties
<1>5. Normal(<<>>) \in Automaton /\ Normal(o) \in Automaton /\ Normal(o) = Behind(o, Normal(<<>>))
  <2>1. Normal(<<>>) \in Automaton /\ Normal(o) \in Automaton
    BY NormalType, EmptySeq
  <2>2. o \o <<>> = o
    BY ConcatEmptySeq
  <2>3. Normal(o) = Behind(o, Normal(<<>>))
    BY <2>2 DEF Behind, Normal
  <2> QED
    BY <2>1, <2>3
<1>6. s \in Automaton /\ s.out \in Seq(Byte \ {Prefix})
  <2>1. s \in Automaton
    BY <1>3, <1>5, DestuffType
  <2> QED
    BY <1>3, <2>1, JunkDestuffed
<1>7. Destuff(Normal(o), junk) = t
  BY <1>3, <1>5, DestuffBehind
<1>8. Destuff(Normal(o), junk \o frame) = Destuff(t, frame)
  <2> HIDE DEF t, frame
  <2> QED
    BY <1>3, <1>4, <1>5, <1>7, DestuffConcat
<1>9. t \in Automaton /\ t.out = o \o s.out
  <2> HIDE DEF s
  <2>1. 0 \in Byte
    BY DEF Byte
  <2>2. t \in Automaton
    BY <1>6, <2>1, StoreByteBehind
  <2> QED
    BY <2>2 DEF Behind
<1> HIDE DEF t, s
<1>10. PICK e \in {<<>>, <<Escape>>} : Destuff(t, frame) = Normal(((t.out \o e) \o <<Prefix>>) \o d)
  BY <1>1, <1>9, PrefixedDestuffed
<1> DEFINE j == s.out \o e
<1>11. j \in Seq(Byte \ {Prefix}) /\ e \in Seq(Byte) /\ s.out \in Seq(Byte) /\ j \in Seq(Byte)
  <2>1. e \in Seq(Byte \ {Prefix})
    BY <1>3
  <2>2. j \in Seq(Byte \ {Prefix})
    BY <1>6, <2>1, ConcatProperties
  <2>3. \A r \in Seq(Byte \ {Prefix}) : r \in Seq(Byte)
    OBVIOUS
  <2> QED
    BY <1>6, <2>1, <2>2, <2>3
<1>12. ((t.out \o e) \o <<Prefix>>) \o d = o \o ((j \o <<Prefix>>) \o d)
  <2>1. (o \o s.out) \o e = o \o j
    BY <1>11, ByteConcat
  <2> HIDE DEF j
  <2>2. (o \o j) \o <<Prefix>> = o \o (j \o <<Prefix>>)
    BY <1>3, <1>11, ByteConcat
  <2>3. j \o <<Prefix>> \in Seq(Byte)
    BY <1>3, <1>11, ConcatProperties
  <2>4. (o \o (j \o <<Prefix>>)) \o d = o \o ((j \o <<Prefix>>) \o d)
    BY <1>1, <2>3, ByteConcat
  <2> QED
    BY <1>9, <2>1, <2>2, <2>4
<1> HIDE DEF j, frame
<1>13. Destuff(Normal(o), junk \o frame) = Normal(o \o ((j \o <<Prefix>>) \o d))
  BY <1>8, <1>10, <1>12
<1>14. \E r \in Seq(Byte \ {Prefix}) : Destuff(Normal(o), junk \o frame) = Normal(o \o ((r \o <<Prefix>>) \o d))
  BY <1>11, <1>13
<1> QED
  BY <1>2, <1>4, <1>14 DEF d

LEMMA FrameNotEmpty ==
    ASSUME NEW junk \in Junk, NEW body \in Body, NEW good \in BOOLEAN
    PROVE  junk \o DeviceFrame(body, good) # <<>>
<1> DEFINE x == Stuff(Payload(body, good))
<1>1. junk \in Seq(Byte)
  BY JunkAssumption
<1>2. DeviceFrame(body, good) = <<Prefix>> \o x
  BY DEF DeviceFrame, Payload, Checksum
<1>3. x \in Seq(Byte) /\ <<Prefix>> \in Seq(Byte)
  <2>1. x \in Seq(Byte \ {Prefix})
    BY PayloadType, StuffType
  <2> QED
    BY <2>1 DEF Prefix, Byte
<1> HIDE DEF x
<1>4. <<Prefix>> \o x \in Seq(Byte) /\ Len(<<Prefix>> \o x) = 1 + Len(x) /\ Len(x) \in Nat
  BY <1>3, ConcatProperties, LenProperties
<1>5. Len(junk \o (<<Prefix>> \o x)) = Len(junk) + (1 + Len(x)) /\ Len(junk) \in Nat
  BY <1>1, <1>4, ConcatProperties, LenProperties
<1> QED
  BY <1>2, <1>4, <1>5, EmptySeq

\* What the server sends of a body.
Decodes(body) ==
    LET frame == ServerFrame(body)
        crc == Crc(Content(body))
    IN  /\ \A i \in 2..Len(frame) : frame[i] # Prefix
        /\ store_data("normal", <<>>, frame) =
               [state |-> "normal",
                out |-> <<Prefix>> \o Content(body) \o <<crc % 256, crc \div 256>>]

LEMMA AnswerDecodes ==
    ASSUME NEW body \in Body
    PROVE  Decodes(body)
<1> DEFINE crc == Crc(Content(body))
           tail == <<crc % 256, crc \div 256>>
           d == Content(body) \o tail
           frame == ServerFrame(body)
<1>1. Content(body) \in Seq(Byte) /\ crc \in Nat /\ crc < Word
  BY ContentType
<1>2. tail \in Seq(Byte)
  <2> HIDE DEF crc
  <2>1. crc % 256 \in Byte /\ crc \div 256 \in Byte
    BY <1>1, WordArithmetic
  <2> QED
    BY <2>1
<1>3. frame = <<Prefix>> \o Stuff(d)
  BY DEF ServerFrame
<1> HIDE DEF tail, frame
<1>4. d \in Seq(Byte)
  BY <1>1, <1>2, ConcatProperties
<1>5. Stuff(d) \in Seq(Byte \ {Prefix})
  BY <1>4, StuffType
<1>6. ASSUME NEW i \in 2..Len(frame) PROVE frame[i] # Prefix
  <2>1. frame[i] = Stuff(d)[i - 1] /\ i - 1 \in 1..Len(Stuff(d))
    BY <1>3, <1>5
  <2> QED
    BY <1>5, <2>1
<1>7. store_data("normal", <<>>, frame) = Destuff(Normal(<<>>), frame)
  BY DEF store_data, Destuff, Normal
<1>8. Normal(<<>>) \in Automaton /\ Normal(<<>>).state = "normal" /\ Normal(<<>>).out = <<>>
  BY NormalType, EmptySeq DEF Normal
<1>9. Destuff(Normal(<<>>), frame) = Normal(((<<>> \o <<>>) \o <<Prefix>>) \o d)
  BY <1>3, <1>4, <1>8, PrefixedDestuffed
<1>10. ((<<>> \o <<>>) \o <<Prefix>>) \o d = (<<Prefix>> \o Content(body)) \o tail
  <2>1. <<Prefix>> \in Seq(Byte) /\ (<<>> \o <<>>) \o <<Prefix>> = <<Prefix>>
    BY DEF Prefix, Byte
  <2> QED
    BY <1>1, <1>2, <2>1, ByteConcat
<1> QED
  BY <1>6, <1>7, <1>9, <1>10 DEF Decodes, Normal, tail, frame

-----------------------------------------------------------------------------
(* The destuffed stream, cut into frames.                                  *)

Frame == [body : Body, good : BOOLEAN, upto : Nat]

\* Between u and v: bytes that are no prefix, a prefix, and the payload.
Piece(F, u, v, frame) ==
    LET d == Payload(frame.body, frame.good)
    IN  /\ u + Len(d) + 1 <= v
        /\ \A m \in u + 1..v - Len(d) - 1 : F[m] # Prefix
        /\ F[v - Len(d)] = Prefix
        /\ \A m \in 1..Len(d) : F[v - Len(d) + m] = d[m]

\* Frame i of those after the b-th ends at p[i].
Cut(fr, F, b, p) ==
    /\ b \in 0..Len(fr)
    /\ p \in [b..Len(fr) -> 0..Len(F)]
    /\ p[b] = 0 /\ p[Len(fr)] = Len(F)
    /\ \A i, j \in b..Len(fr) : i <= j => p[i] <= p[j]
    /\ \A i \in b + 1..Len(fr) : Piece(F, p[i - 1], p[i], fr[i])

LEMMA FrameType ==
    ASSUME NEW r \in Frame
    PROVE  /\ r.body \in Body /\ r.good \in BOOLEAN
           /\ Payload(r.body, r.good) \in Seq(Byte)
           /\ Len(Payload(r.body, r.good)) \in Nat
           /\ Len(Payload(r.body, r.good)) = Len(r.body) + 4
           /\ Len(r.body) \in Nat \ {0}
<1>1. r.body \in Body /\ r.good \in BOOLEAN
  BY DEF Frame
<1>2. Len(r.body) \in Nat \ {0}
  BY <1>1, ContentType
<1>3. Payload(r.body, r.good) \in Seq(Byte) /\ Len(Payload(r.body, r.good)) = Len(r.body) + 4
  BY <1>1, PayloadType
<1> QED
  BY <1>1, <1>2, <1>3

\* A piece of a stream is one of any stream that has the same bytes there.
LEMMA PieceMoves ==
    ASSUME NEW F, NEW G, NEW r \in Frame, NEW u \in Nat, NEW v \in Nat, NEW s \in Nat,
           Piece(F, u, v, r), s <= u,
           \A m \in u + 1..v : G[m - s] = F[m]
    PROVE  Piece(G, u - s, v - s, r)
<1> DEFINE L == Len(Payload(r.body, r.good))
<1>1. L \in Nat
  BY FrameType
<1>2. /\ u + L + 1 <= v
      /\ \A m \in u + 1..v - L - 1 : F[m] # Prefix
      /\ F[v - L] = Prefix
      /\ \A m \in 1..L : F[v - L + m] = Payload(r.body, r.good)[m]
  BY DEF Piece
<1> HIDE DEF L
<1>3. (u - s) + L + 1 <= v - s
  BY <1>1, <1>2
<1>4. ASSUME NEW m \in (u - s) + 1..(v - s) - L - 1 PROVE G[m] # Prefix
  <2>1. m + s \in u + 1..v - L - 1 /\ m + s \in u + 1..v /\ (m + s) - s = m
    BY <1>1, <1>2
  <2>2. G[(m + s) - s] = F[m + s]
    BY <2>1
  <2> QED
    BY <1>2, <2>1, <2>2
<1>5. G[(v - s) - L] = Prefix
  <2>1. v - L \in u + 1..v /\ (v - L) - s = (v - s) - L
    BY <1>1, <1>2
  <2>2. G[(v - L) - s] = F[v - L]
    BY <2>1
  <2> QED
    BY <1>2, <2>1, <2>2
<1>6. ASSUME NEW m \in 1..L PROVE G[(v - s) - L + m] = Payload(r.body, r.good)[m]
  <2>1. v - L + m \in u + 1..v /\ (v - L + m) - s = (v - s) - L + m
    BY <1>1, <1>2
  <2>2. G[(v - L + m) - s] = F[v - L + m]
    BY <2>1
  <2> QED
    BY <1>2, <2>1, <2>2
<1> QED
  BY <1>3, <1>4, <1>5, <1>6 DEF Piece, L

\* The device sends one frame more.
Extends(fr, r, G, b, p) ==
    \E q : Cut(Append(fr, r), G, b, q) /\ \A i \in b..Len(fr) : q[i] = p[i]

LEMMA CutAppend ==
    ASSUME NEW fr \in Seq(Frame), NEW r \in Frame, NEW F \in Seq(Byte), NEW b, NEW p, Cut(fr, F, b, p),
           NEW j \in Seq(Byte \ {Prefix})
    PROVE  Extends(fr, r, F \o ((j \o <<Prefix>>) \o Payload(r.body, r.good)), b, p)
<1> DEFINE d == Payload(r.body, r.good)
           t == (j \o <<Prefix>>) \o d
           G == F \o t
           n == Len(fr)
           gr == Append(fr, r)
           q == [i \in b..n + 1 |-> IF i = n + 1 THEN Len(G) ELSE p[i]]
<1>1. d \in Seq(Byte) /\ Len(d) \in Nat
  BY FrameType
<1> HIDE DEF d
<1>2. /\ t \in Seq(Byte) /\ Len(t) = Len(j) + 1 + Len(d) /\ Len(j) \in Nat
      /\ \A m \in 1..Len(j) : t[m] # Prefix
      /\ t[Len(j) + 1] = Prefix
      /\ \A m \in 1..Len(d) : t[Len(j) + 1 + m] = d[m]
  <2>1. <<Prefix>> \in Seq(Byte) /\ j \in Seq(Byte) /\ Len(j) \in Nat
    BY DEF Prefix, Byte
  <2> DEFINE x == j \o <<Prefix>>
  <2>2. /\ x \in Seq(Byte) /\ Len(x) = Len(j) + 1 /\ x[Len(j) + 1] = Prefix
        /\ \A m \in 1..Len(j) : x[m] = j[m]
    BY <2>1
  <2>3. t = x \o d
    OBVIOUS
  <2> HIDE DEF x, t
  <2>4. t \in Seq(Byte) /\ Len(t) = Len(x) + Len(d)
    BY <1>1, <2>2, <2>3, ConcatProperties
  <2>5. \A m \in 1..Len(x) : t[m] = x[m]
    BY <1>1, <2>2, <2>3, ConcatProperties
  <2>6. \A m \in 1..Len(d) : t[Len(x) + m] = d[m]
    BY <1>1, <2>2, <2>3
  <2>7. \A m \in 1..Len(j) : j[m] # Prefix
    OBVIOUS
  <2> QED
    BY <1>1, <2>1, <2>2, <2>4, <2>5, <2>6, <2>7
<1> HIDE DEF t
<1>3. /\ G \in Seq(Byte) /\ Len(G) = Len(F) + Len(t) /\ Len(F) \in Nat
      /\ \A m \in 1..Len(F) : G[m] = F[m]
      /\ \A m \in 1..Len(t) : G[Len(F) + m] = t[m]
  <2>1. Joined(G, F, t) /\ G \in Seq(Byte) /\ Len(F) \in Nat
    BY <1>2, ConcatFacts
  <2> HIDE DEF G
  <2> QED
    BY <2>1 DEF Joined
<1> HIDE DEF G
<1>4. /\ gr \in Seq(Frame) /\ Len(gr) = n + 1 /\ n \in Nat /\ gr[n + 1] = r
      /\ \A i \in 1..n : gr[i] = fr[i]
  BY AppendFacts
<1>5. /\ b \in 0..n
      /\ p \in [b..n -> 0..Len(F)]
      /\ p[b] = 0 /\ p[n] = Len(F)
      /\ \A i, k \in b..n : i <= k => p[i] <= p[k]
      /\ \A i \in b + 1..n : Piece(F, p[i - 1], p[i], fr[i])
  BY DEF Cut
<1> HIDE DEF n, gr
<1>6. b \in 0..Len(gr)
  BY <1>4, <1>5
<1>7. /\ q \in [b..Len(gr) -> 0..Len(G)]
      /\ \A i \in b..n : q[i] = p[i] /\ q[i] \in 0..Len(F)
      /\ q[n + 1] = Len(G)
      /\ q[b] = 0 /\ q[Len(gr)] = Len(G)
  <2>1. Len(G) \in Nat /\ Len(F) <= Len(G)
    BY <1>1, <1>2, <1>3
  <2>2. b..Len(gr) = b..n + 1 /\ b \in b..n /\ n + 1 \in b..n + 1 /\ \A i \in b..n : i \in b..n + 1 /\ i # n + 1
    BY <1>4, <1>5
  <2>3. \A i \in b..n : q[i] = p[i] /\ q[i] \in 0..Len(F)
    BY <1>5, <2>2
  <2>4. q[n + 1] = Len(G)
    BY <2>2
  <2>5. \A i \in b..n + 1 : i \in b..n \/ i = n + 1
    BY <1>4, <1>5
  <2>6. q \in [b..n + 1 -> 0..Len(G)]
    <3>1. \A i \in b..n : p[i] \in 0..Len(F)
      BY <1>5
    <3>2. \A x \in 0..Len(F) : x \in 0..Len(G)
      BY <1>3, <2>1
    <3> QED
      BY <2>1, <2>5, <3>1, <3>2
  <2> HIDE DEF q
  <2> QED
    BY <1>4, <1>5, <2>2, <2>3, <2>4, <2>6
<1> HIDE DEF q
<1>8. ASSUME NEW i \in b..Len(gr), NEW k \in b..Len(gr), i <= k PROVE q[i] <= q[k]
  <2>1. CASE k = n + 1
    <3>1. q[k] = Len(G) /\ q[i] \in 0..Len(G)
      BY <1>7, <2>1
    <3> QED
      BY <3>1, <1>3
  <2>2. CASE k # n + 1
    <3>1. i \in b..n /\ k \in b..n
      BY <1>4, <1>5, <1>8, <2>2
    <3> QED
      BY <1>5, <1>7, <1>8, <3>1
  <2> QED
    BY <2>1, <2>2
<1>9. ASSUME NEW i \in b + 1..Len(gr) PROVE Piece(G, q[i - 1], q[i], gr[i])
  <2>1. CASE i = n + 1
    <3>1. q[i] = Len(G) /\ q[i - 1] = Len(F) /\ gr[i] = r
      <4>1. i - 1 = n /\ n \in b..n
        <5>1. b \in Nat /\ b <= n /\ n \in Nat
          BY <1>4, <1>5
        <5> QED
          BY <2>1, <5>1
      <4>2. q[i] = Len(G) /\ gr[i] = r
        BY <1>4, <1>7, <2>1
      <4> QED
        BY <1>5, <1>7, <4>1, <4>2
    <3>2. Len(G) - Len(d) = Len(F) + (Len(j) + 1) /\ Len(F) + Len(d) + 1 <= Len(G) /\ Len(j) + 1 \in 1..Len(t)
      BY <1>1, <1>2, <1>3
    <3>3. ASSUME NEW m \in Len(F) + 1..Len(G) - Len(d) - 1 PROVE G[m] # Prefix
      <4>1. m - Len(F) \in 1..Len(j) /\ m - Len(F) \in 1..Len(t) /\ Len(F) + (m - Len(F)) = m
        BY <1>1, <1>2, <1>3, <3>2
      <4>2. G[Len(F) + (m - Len(F))] = t[m - Len(F)]
        BY <1>3, <4>1
      <4> QED
        BY <1>2, <4>1, <4>2
    <3>4. G[Len(G) - Len(d)] = Prefix
      BY <1>2, <1>3, <3>2
    <3>5. ASSUME NEW m \in 1..Len(d) PROVE G[Len(G) - Len(d) + m] = d[m]
      <4>1. Len(j) + 1 + m \in 1..Len(t) /\ Len(G) - Len(d) + m = Len(F) + (Len(j) + 1 + m)
        BY <1>1, <1>2, <1>3, <3>2
      <4> QED
        BY <1>2, <1>3, <4>1
    <3> QED
      BY <3>1, <3>2, <3>3, <3>4, <3>5 DEF Piece, d
  <2>2. CASE i # n + 1
    <3>1. i \in b + 1..n /\ i - 1 \in b..n /\ i \in b..n /\ i \in 1..n
      BY <1>4, <1>5, <2>2
    <3>2. gr[i] = fr[i] /\ q[i] = p[i] /\ q[i - 1] = p[i - 1] /\ fr[i] \in Frame
      BY <1>4, <1>7, <3>1 DEF n
    <3>3. p[i] \in Nat /\ p[i - 1] \in Nat /\ p[i] <= Len(F)
      <4>1. p[i] \in 0..Len(F) /\ p[i - 1] \in 0..Len(F)
        BY <1>5, <3>1
      <4> QED
        BY <1>3, <4>1
    <3>4. Piece(F, p[i - 1], p[i], fr[i])
      BY <1>5, <3>1
    <3>5. \A m \in p[i - 1] + 1..p[i] : G[m - 0] = F[m]
      BY <1>3, <3>3, SMTT(30)
    <3>6. Piece(G, p[i - 1] - 0, p[i] - 0, fr[i])
      <4> DEFINE u == p[i - 1]
                 v == p[i]
                 x == fr[i]
      <4>1. u \in Nat /\ v \in Nat /\ x \in Frame /\ Piece(F, u, v, x) /\ 0 \in Nat /\ 0 <= u
        BY <3>2, <3>3, <3>4
      <4>2. \A m \in u + 1..v : G[m - 0] = F[m]
        BY <3>5
      <4> HIDE DEF u, v, x
      <4>3. Piece(G, u - 0, v - 0, x)
        BY <4>1, <4>2, PieceMoves
      <4> QED
        BY <4>3 DEF u, v, x
    <3>7. p[i - 1] - 0 = p[i - 1] /\ p[i] - 0 = p[i]
      BY <3>3
    <3> QED
      BY <3>2, <3>6, <3>7
  <2> QED
    BY <2>1, <2>2
<1>10. Cut(gr, G, b, q)
  BY <1>6, <1>7, <1>8, <1>9 DEF Cut
<1> QED
  BY <1>7, <1>10 DEF Extends, G, t, d, gr, n

\* The processed frames are erased.
LEMMA CutErase ==
    ASSUME NEW fr \in Seq(Frame), NEW F \in Seq(Byte), NEW b, NEW p, Cut(fr, F, b, p),
           NEW k \in b..Len(fr), NEW G \in Seq(Byte), NEW e \in Seq(Byte),
           F = e \o G, Len(e) = p[k]
    PROVE  Cut(fr, G, k, [i \in k..Len(fr) |-> p[i] - p[k]])
<1> DEFINE n == Len(fr)
           s == Len(e)
           q == [i \in k..n |-> p[i] - p[k]]
<1>1. /\ b \in 0..n
      /\ p \in [b..n -> 0..Len(F)]
      /\ p[b] = 0 /\ p[n] = Len(F)
      /\ \A i, j \in b..n : i <= j => p[i] <= p[j]
      /\ \A i \in b + 1..n : Piece(F, p[i - 1], p[i], fr[i])
  BY DEF Cut
<1>2. /\ Len(F) = s + Len(G) /\ s \in Nat /\ Len(G) \in Nat
      /\ \A m \in 1..Len(G) : F[s + m] = G[m]
  <2>1. Joined(F, e, G) /\ s \in Nat /\ Len(G) \in Nat
    BY ConcatFacts
  <2> QED
    BY <2>1 DEF Joined
<1>3. n \in Nat /\ k \in b..n /\ p[k] = s /\ b \in Nat
  BY <1>1, LenProperties
<1> HIDE DEF n, s
<1>4. \A i \in k..n : /\ i \in b..n /\ p[i] \in Nat /\ s <= p[i] /\ p[i] <= s + Len(G)
                      /\ q[i] = p[i] - s
  <2>1. \A i \in k..n : i \in b..n /\ k <= i
    BY <1>3
  <2>2. \A i \in b..n : p[i] \in 0..Len(F)
    BY <1>1
  <2>3. \A i \in k..n : q[i] = p[i] - s
    BY <1>3
  <2>4. \A i \in k..n : s <= p[i]
    BY <1>1, <1>3, <2>1
  <2>5. \A x \in 0..Len(F) : x \in Nat /\ x <= s + Len(G)
    BY <1>2
  <2> HIDE DEF q
  <2> QED
    BY <2>1, <2>2, <2>3, <2>4, <2>5
<1>5. \A i \in k..n : p[i] - s \in 0..Len(G)
  BY <1>2, <1>4
<1>6. q \in [k..n -> 0..Len(G)]
  BY <1>3, <1>5
<1> HIDE DEF q
<1>7. k \in k..n /\ n \in k..n /\ k \in 0..n
  BY <1>3
<1>8. q[k] = 0 /\ q[n] = Len(G)
  <2>1. q[k] = p[k] - s /\ q[n] = p[n] - s
    BY <1>4, <1>7
  <2> QED
    BY <1>1, <1>2, <1>3, <2>1
<1>9. ASSUME NEW i \in k..n, NEW j \in k..n, i <= j PROVE q[i] <= q[j]
  <2>1. p[i] <= p[j]
    BY <1>1, <1>4, <1>9
  <2>2. q[i] = p[i] - s /\ q[j] = p[j] - s /\ p[i] \in Nat /\ p[j] \in Nat
    BY <1>4
  <2> QED
    BY <1>2, <2>1, <2>2
<1>10. ASSUME NEW i \in k + 1..n PROVE Piece(G, q[i - 1], q[i], fr[i])
  <2>1. i \in b + 1..n /\ i - 1 \in k..n /\ i \in k..n /\ i \in 1..n
    BY <1>3
  <2> DEFINE u == p[i - 1]
             v == p[i]
             x == fr[i]
  <2>2. u \in Nat /\ v \in Nat /\ s <= u /\ v <= s + Len(G) /\ q[i - 1] = u - s /\ q[i] = v - s
    BY <1>4, <2>1
  <2>3. x \in Frame
    BY <2>1 DEF n
  <2>4. Piece(F, u, v, x)
    BY <1>1, <2>1
  <2> HIDE DEF u, v, x
  <2>5. ASSUME NEW m \in u + 1..v PROVE G[m - s] = F[m]
    <3>1. m - s \in 1..Len(G) /\ s + (m - s) = m
      <4>1. s \in Nat /\ Len(G) \in Nat /\ u \in Nat /\ v \in Nat /\ s <= u /\ v <= s + Len(G)
        BY <1>2, <2>2
      <4>2. m \in Nat /\ u < m /\ m <= v
        BY <4>1
      <4> QED
        BY <4>1, <4>2
    <3>2. F[s + (m - s)] = G[m - s]
      BY <1>2, <3>1
    <3> QED
      BY <3>1, <3>2
  <2>6. Piece(G, u - s, v - s, x)
    BY <1>2, <2>2, <2>3, <2>4, <2>5, PieceMoves
  <2> QED
    BY <2>2, <2>6 DEF x
<1>11. Cut(fr, G, k, q)
  BY <1>6, <1>7, <1>8, <1>9, <1>10 DEF Cut, n
<1> QED
  BY <1>11 DEF q, n

\* What has been stored and what will be, once all of wire has arrived.
Stream(st, buf, w) == Destuff([state |-> st, out |-> buf], w)

LEMMA StreamFacts ==
    ASSUME NEW st \in {"normal", "possible_stuff"}, NEW buf \in Seq(Byte), NEW w \in Seq(Byte)
    PROVE  /\ Stream(st, buf, w) \in Automaton
           /\ Stream(st, buf, w).out \in Seq(Byte)
           /\ Len(buf) \in Nat /\ Len(Stream(st, buf, w).out) \in Nat
           /\ Len(buf) <= Len(Stream(st, buf, w).out)
           /\ \A m \in 1..Len(buf) : Stream(st, buf, w).out[m] = buf[m]
<1> DEFINE s0 == [state |-> st, out |-> <<>>]
           r == Destuff(s0, w)
           F == Stream(st, buf, w)
<1>1. s0 \in Automaton /\ [state |-> st, out |-> buf] \in Automaton
  BY EmptySeq DEF Automaton
<1>2. buf \o <<>> = buf
  BY ConcatEmptySeq
<1>3. Behind(buf, s0) = [state |-> st, out |-> buf]
  BY <1>2 DEF Behind
<1> HIDE DEF s0
<1>4. F = Behind(buf, r)
  BY <1>1, <1>3, DestuffBehind DEF Stream
<1>5. r \in Automaton /\ F \in Automaton
  BY <1>1, DestuffType DEF Stream
<1> HIDE DEF r, F
<1>6. F.out = buf \o r.out /\ r.out \in Seq(Byte) /\ F.out \in Seq(Byte)
  BY <1>4, <1>5 DEF Behind, Automaton
<1>7. Joined(F.out, buf, r.out) /\ Len(buf) \in Nat /\ Len(r.out) \in Nat
  BY <1>6, ConcatFacts
<1>8. Len(F.out) = Len(buf) + Len(r.out) /\ \A m \in 1..Len(buf) : F.out[m] = buf[m]
  BY <1>7 DEF Joined
<1> QED
  BY <1>5, <1>6, <1>7, <1>8 DEF F

LEMMA SubSeqSplit ==
    ASSUME NEW w \in Seq(Byte), NEW n \in 0..Len(w)
    PROVE  /\ SubSeq(w, 1, n) \in Seq(Byte) /\ Len(SubSeq(w, 1, n)) = n
           /\ SubSeq(w, n + 1, Len(w)) \in Seq(Byte)
           /\ SubSeq(w, 1, n) \o SubSeq(w, n + 1, Len(w)) = w
<1>1. SubSeq(w, 1, n) \in Seq(Byte) /\ Len(SubSeq(w, 1, n)) = n
  OBVIOUS
<1>2. SubSeq(w, n + 1, Len(w)) \in Seq(Byte)
  OBVIOUS
<1>3. SubSeq(w, 1, n) \o SubSeq(w, n + 1, Len(w)) = w
  <2> DEFINE d == SubSeq(w, 1, n)
             e == SubSeq(w, n + 1, Len(w))
  <2>1. Len(e) = Len(w) - n /\ Len(w) \in Nat
    OBVIOUS
  <2>2. \A m \in 1..n : d[m] = w[m]
    OBVIOUS
  <2>3. \A m \in 1..Len(e) : e[m] = w[n + m]
    OBVIOUS
  <2>4. d \o e \in Seq(Byte) /\ Joined(d \o e, d, e)
    BY <1>1, <1>2, ConcatFacts
  <2> HIDE DEF d, e
  <2>5. Len(d \o e) = Len(w)
    BY <1>1, <2>1, <2>4 DEF Joined, d
  <2>6. ASSUME NEW m \in 1..Len(w) PROVE (d \o e)[m] = w[m]
    <3>1. CASE m <= n
      BY <1>1, <2>2, <2>4, <3>1 DEF Joined, d
    <3>2. CASE ~(m <= n)
      <4>1. m - n \in 1..Len(e) /\ n + (m - n) = m
        BY <2>1, <3>2
      <4>2. (d \o e)[Len(d) + (m - n)] = e[m - n]
        BY <2>4, <4>1 DEF Joined
      <4>3. e[m - n] = w[n + (m - n)]
        BY <2>3, <4>1
      <4> QED
        BY <1>1, <4>1, <4>2, <4>3 DEF d
    <3> QED
      BY <3>1, <3>2
  <2>7. d \o e = w
    BY <2>4, <2>5, <2>6, SeqEqual
  <2> QED
    BY <2>7 DEF d, e
<1> QED
  BY <1>1, <1>2, <1>3

\* A read moves bytes from wire into the buffer.
LEMMA StreamRead ==
    ASSUME NEW st \in {"normal", "possible_stuff"}, NEW buf \in Seq(Byte), NEW w \in Seq(Byte),
           NEW n \in 0..Len(w), NEW s, s = store_data(st, buf, SubSeq(w, 1, n))
    PROVE  /\ s.state \in {"normal", "possible_stuff"} /\ s.out \in Seq(Byte)
           /\ SubSeq(w, n + 1, Len(w)) \in Seq(Byte)
           /\ Stream(s.state, s.out, SubSeq(w, n + 1, Len(w))) = Stream(st, buf, w)
<1> DEFINE d == SubSeq(w, 1, n)
           e == SubSeq(w, n + 1, Len(w))
           s0 == [state |-> st, out |-> buf]
<1>1. d \in Seq(Byte) /\ e \in Seq(Byte) /\ d \o e = w
  BY SubSeqSplit
<1>2. s0 \in Automaton
  BY DEF Automaton
<1>3. s = Destuff(s0, d)
  BY DEF store_data, Destuff
<1> HIDE DEF d, e, s0
<1>4. s \in Automaton
  BY <1>1, <1>2, <1>3, DestuffType
<1>5. s = [state |-> s.state, out |-> s.out] /\ s.state \in {"normal", "possible_stuff"} /\ s.out \in Seq(Byte)
  BY <1>4 DEF Automaton
<1>6. Destuff(s0, w) = Destuff(s, e)
  <2>1. Destuff(s0, d \o e) = Destuff(Destuff(s0, d), e)
    BY <1>1, <1>2, DestuffConcat
  <2> QED
    BY <1>1, <1>3, <2>1
<1> QED
  BY <1>1, <1>5, <1>6 DEF Stream, s0, e

\* Erasing takes bytes from its front.
LEMMA StreamErase ==
    ASSUME NEW st \in {"normal", "possible_stuff"}, NEW buf \in Seq(Byte), NEW w \in Seq(Byte),
           NEW n \in 0..Len(buf)
    PROVE  LET rest == SubSeq(buf, n + 1, Len(buf))
           IN  /\ rest \in Seq(Byte)
               /\ SubSeq(buf, 1, n) \in Seq(Byte) /\ Len(SubSeq(buf, 1, n)) = n
               /\ Stream(st, buf, w).state = Stream(st, rest, w).state
               /\ Stream(st, buf, w).out = SubSeq(buf, 1, n) \o Stream(st, rest, w).out
<1> DEFINE e == SubSeq(buf, 1, n)
           rest == SubSeq(buf, n + 1, Len(buf))
           s0 == [state |-> st, out |-> rest]
<1>1. e \in Seq(Byte) /\ Len(e) = n /\ rest \in Seq(Byte) /\ e \o rest = buf
  BY SubSeqSplit
<1>2. s0 \in Automaton
  BY <1>1 DEF Automaton
<1>3. Behind(e, s0) = [state |-> st, out |-> buf]
  BY <1>1 DEF Behind
<1>4. Destuff(Behind(e, s0), w) = Behind(e, Destuff(s0, w))
  <2> HIDE DEF e, s0
  <2> QED
    BY <1>1, <1>2, DestuffBehind
<1>5. Stream(st, buf, w) = Behind(e, Stream(st, rest, w))
  BY <1>3, <1>4 DEF Stream
<1> HIDE DEF e, rest
<1>6. /\ Stream(st, buf, w).state = Stream(st, rest, w).state
      /\ Stream(st, buf, w).out = e \o Stream(st, rest, w).out
  BY <1>5 DEF Behind
<1> QED
  BY <1>1, <1>6 DEF e, rest

-----------------------------------------------------------------------------
(* Where a frame ends, in the bytes on the wire and in the stored ones.    *)

\* The automaton never gives less, and a byte that leaves no escape open
\* gives at least one.
LEMMA DestuffGrows ==
    ASSUME NEW s \in Automaton, NEW d \in Seq(Byte)
    PROVE  /\ Len(s.out) \in Nat /\ Len(Destuff(s, d).out) \in Nat
           /\ Len(s.out) <= Len(Destuff(s, d).out)
           /\ d # <<>> /\ Destuff(s, d).state = "normal" => Len(s.out) < Len(Destuff(s, d).out)
<1>1. ASSUME NEW r \in Automaton, NEW x \in Byte
      PROVE  /\ Len(r.out) \in Nat /\ Len(store_byte(r, x).out) \in Nat
             /\ Len(r.out) <= Len(store_byte(r, x).out)
             /\ store_byte(r, x).state = "normal" => Len(r.out) < Len(store_byte(r, x).out)
  <2>1. r.state \in {"normal", "possible_stuff"} /\ r.out \in Seq(Byte) /\ Len(r.out) \in Nat
    BY LenProperties DEF Automaton
  <2>2. CASE r.state = "normal" /\ x = Escape
    <3>1. store_byte(r, x) = [state |-> "possible_stuff", out |-> r.out]
      BY <2>2 DEF store_byte, Automaton
    <3> QED
      BY <2>1, <3>1
  <2>3. CASE r.state = "normal" /\ x # Escape
    <3>1. store_byte(r, x).out = Append(r.out, x)
      BY <2>1, <2>3 DEF store_byte, Automaton
    <3>2. Len(Append(r.out, x)) = Len(r.out) + 1
      BY <2>1, AppendFacts
    <3> QED
      BY <2>1, <3>1, <3>2
  <2>4. CASE r.state = "possible_stuff"
    <3>1. /\ <<Prefix>> \in Seq(Byte) /\ <<Escape>> \in Seq(Byte) /\ <<Escape, x>> \in Seq(Byte)
          /\ Len(<<Prefix>>) = 1 /\ Len(<<Escape>>) = 1 /\ Len(<<Escape, x>>) = 2
      BY DEF Prefix, Escape, Byte
    <3> DEFINE y == CASE x = EscapedPrefix -> <<Prefix>>
                      [] x = EscapedEscape -> <<Escape>>
                      [] OTHER -> <<Escape, x>>
    <3>2. store_byte(r, x).out = r.out \o y
      BY <2>4 DEF store_byte
    <3>3. y \in Seq(Byte) /\ Len(y) \in Nat /\ Len(y) > 0
      <4>1. EscapedPrefix # EscapedEscape
        BY DEF EscapedPrefix, EscapedEscape
      <4>2. CASE x = EscapedPrefix
        BY <3>1, <4>1, <4>2
      <4>3. CASE x = EscapedEscape
        BY <3>1, <4>1, <4>3
      <4>4. CASE x # EscapedPrefix /\ x # EscapedEscape
        BY <3>1, <4>4
      <4> QED
        BY <4>2, <4>3, <4>4
    <3> HIDE DEF y
    <3>4. Len(r.out \o y) = Len(r.out) + Len(y)
      BY <2>1, <3>3, ConcatProperties
    <3> QED
      BY <2>1, <3>2, <3>3, <3>4
  <2> QED
    BY <2>1, <2>2, <2>3, <2>4
<1> DEFINE OK(e) == /\ Len(s.out) \in Nat /\ Len(Destuff(s, e).out) \in Nat
                    /\ Len(s.out) <= Len(Destuff(s, e).out)
                    /\ e # <<>> /\ Destuff(s, e).state = "normal" => Len(s.out) < Len(Destuff(s, e).out)
           T == {e \in Seq(Byte) : OK(e)}
<1>2. <<>> \in T
  <2>1. Destuff(s, <<>>) = s /\ <<>> \in Seq(Byte)
    BY DestuffStep, EmptySeq
  <2>2. Len(s.out) \in Nat
    BY LenProperties DEF Automaton
  <2> QED
    BY <2>1, <2>2
<1>3. ASSUME NEW e \in Seq(Byte), NEW x \in Byte, e \in T PROVE Append(e, x) \in T
  <2>1. Destuff(s, e) \in Automaton /\ Destuff(s, Append(e, x)) = store_byte(Destuff(s, e), x)
    BY DestuffType, DestuffStep
  <2>2. OK(e)
    BY <1>3
  <2> DEFINE r == Destuff(s, e)
  <2>3. /\ Len(r.out) <= Len(store_byte(r, x).out) /\ Len(store_byte(r, x).out) \in Nat
        /\ store_byte(r, x).state = "normal" => Len(r.out) < Len(store_byte(r, x).out)
    BY <1>1, <2>1
  <2>4. Len(s.out) \in Nat /\ Len(r.out) \in Nat /\ Len(s.out) <= Len(r.out)
    BY <2>2
  <2> HIDE DEF r
  <2>5. /\ Len(s.out) <= Len(store_byte(r, x).out)
        /\ store_byte(r, x).state = "normal" => Len(s.out) < Len(store_byte(r, x).out)
    BY <2>3, <2>4
  <2>6. OK(Append(e, x))
    BY <2>1, <2>3, <2>4, <2>5 DEF r
  <2> HIDE DEF OK
  <2> QED
    BY <2>6, AppendFacts
<1> HIDE DEF T
<1>4. Seq(Byte) \subseteq T
  BY <1>2, <1>3, SeqInduction
<1> QED
  BY <1>4 DEF T

\* A frame that ends t bytes before the end of the wire ends at v in the
\* stored bytes: the automaton will be there when it has read so far, or was.
Ends(st, buf, w, t, v) ==
    IF t <= Len(w)
    THEN LET s == Stream(st, buf, SubSeq(w, 1, Len(w) - t))
         IN  s.state = "normal" /\ Len(s.out) = v
    ELSE v <= Len(buf)

\* It has arrived whole when it is stored whole.
LEMMA EndsMeans ==
    ASSUME NEW st \in {"normal", "possible_stuff"}, NEW buf \in Seq(Byte), NEW w \in Seq(Byte),
           NEW t \in Nat, NEW v \in Nat, Ends(st, buf, w, t, v)
    PROVE  v <= Len(buf) <=> Len(w) <= t
<1> DEFINE s0 == [state |-> st, out |-> buf]
           x == SubSeq(w, 1, Len(w) - t)
<1>1. s0 \in Automaton /\ Len(w) \in Nat /\ Len(buf) \in Nat
  BY LenProperties DEF Automaton
<1>2. CASE t <= Len(w)
  <2>1. Len(w) - t \in 0..Len(w)
    BY <1>1, <1>2
  <2>2. x \in Seq(Byte) /\ Len(x) = Len(w) - t
    BY <2>1, SubSeqSplit
  <2>3. Destuff(s0, x).state = "normal" /\ Len(Destuff(s0, x).out) = v
    BY <1>2 DEF Ends, Stream
  <2> HIDE DEF x, s0
  <2>4. s0.out = buf
    BY DEF s0
  <2>5. CASE t = Len(w)
    <3>1. x = <<>>
      BY <1>1, <2>2, <2>5, EmptySeq
    <3>2. Destuff(s0, x) = s0
      BY <1>1, <3>1, DestuffStep
    <3>3. v = Len(buf)
      BY <2>3, <2>4, <3>2
    <3> QED
      BY <1>1, <2>5, <3>3
  <2>6. CASE t # Len(w)
    <3>1. x # <<>>
      BY <1>1, <1>2, <2>2, <2>6, EmptySeq
    <3>2. Len(buf) < v
      BY <1>1, <2>2, <2>3, <2>4, <3>1, DestuffGrows
    <3> QED
      BY <1>1, <1>2, <2>6, <3>2
  <2> QED
    BY <2>5, <2>6
<1>3. CASE ~(t <= Len(w))
  <2>1. v <= Len(buf)
    BY <1>3 DEF Ends
  <2> QED
    BY <1>1, <1>3, <2>1
<1> QED
  BY <1>2, <1>3

LEMMA EndsSend ==
    ASSUME NEW st \in {"normal", "possible_stuff"}, NEW buf \in Seq(Byte), NEW w \in Seq(Byte),
           NEW t \in Nat, NEW v \in Nat, Ends(st, buf, w, t, v), NEW x \in Seq(Byte)
    PROVE  Ends(st, buf, w \o x, t + Len(x), v)
<1>1. Len(w \o x) = Len(w) + Len(x) /\ Len(w) \in Nat /\ Len(x) \in Nat /\ w \o x \in Seq(Byte)
  BY ConcatProperties, LenProperties
<1>2. CASE t <= Len(w)
  <2> DEFINE n == Len(w) - t
  <2>1. n \in 0..Len(w) /\ n \in 0..Len(w \o x) /\ Len(w \o x) - (t + Len(x)) = n /\ t + Len(x) <= Len(w \o x)
    BY <1>1, <1>2
  <2> HIDE DEF n
  <2>2. SubSeq(w \o x, 1, n) = SubSeq(w, 1, n)
    <3> DEFINE c == SubSeq(w \o x, 1, n)
               d == SubSeq(w, 1, n)
    <3>1. c \in Seq(Byte) /\ d \in Seq(Byte) /\ Len(c) = n /\ Len(d) = n
      BY <1>1, <2>1, SubSeqSplit
    <3>2. ASSUME NEW m \in 1..n PROVE c[m] = d[m]
      <4>1. m \in 1..Len(w) /\ m \in 1..Len(w \o x)
        BY <1>1, <2>1
      <4>2. (w \o x)[m] = w[m]
        BY <1>1, <4>1
      <4>3. c[m] = (w \o x)[m] /\ d[m] = w[m]
        BY <1>1, <2>1, <4>1
      <4> QED
        BY <4>2, <4>3
    <3> HIDE DEF c, d
    <3>3. c = d
      BY <3>1, <3>2, SeqEqual
    <3> QED
      BY <3>3 DEF c, d
  <2> QED
    BY <1>2, <2>1, <2>2 DEF Ends, n
<1>3. CASE ~(t <= Len(w))
  <2>1. ~(t + Len(x) <= Len(w \o x))
    BY <1>1, <1>3
  <2> QED
    BY <1>3, <2>1 DEF Ends
<1> QED
  BY <1>2, <1>3

LEMMA EndsNew ==
    ASSUME NEW st \in {"normal", "possible_stuff"}, NEW buf \in Seq(Byte), NEW w \in Seq(Byte),
           NEW G, Stream(st, buf, w) = Normal(G)
    PROVE  Ends(st, buf, w, 0, Len(G))
<1>1. Len(w) \in Nat /\ 0 <= Len(w) /\ Len(w) - 0 = Len(w)
  BY LenProperties
<1>2. SubSeq(w, 1, Len(w)) = w
  BY SubSeqFull
<1>3. Normal(G).state = "normal" /\ Normal(G).out = G
  BY DEF Normal
<1> QED
  BY <1>1, <1>2, <1>3 DEF Ends

LEMMA EndsRead ==
    ASSUME NEW st \in {"normal", "possible_stuff"}, NEW buf \in Seq(Byte), NEW w \in Seq(Byte),
           NEW t \in Nat, NEW v \in Nat, Ends(st, buf, w, t, v),
           NEW n \in 0..Len(w), NEW s, s = store_data(st, buf, SubSeq(w, 1, n))
    PROVE  Ends(s.state, s.out, SubSeq(w, n + 1, Len(w)), t, v)
<1> DEFINE d == SubSeq(w, 1, n)
           e == SubSeq(w, n + 1, Len(w))
           s0 == [state |-> st, out |-> buf]
           L == Len(w)
<1>1. d \in Seq(Byte) /\ Len(d) = n /\ e \in Seq(Byte) /\ d \o e = w
  BY SubSeqSplit
<1>2. s0 \in Automaton /\ L \in Nat /\ Len(buf) \in Nat
  BY LenProperties DEF Automaton
<1>3. s = Destuff(s0, d)
  BY DEF store_data, Destuff
<1>4. s \in Automaton
  BY <1>1, <1>2, <1>3, DestuffType
<1>5. s = [state |-> s.state, out |-> s.out] /\ s.out \in Seq(Byte) /\ Len(s.out) \in Nat
  BY <1>4, LenProperties DEF Automaton
<1>6. Len(e) = L - n
  BY <1>2
<1>7. \A i \in 1..L - n : e[i] = w[n + i]
  BY <1>2
<1> HIDE DEF d, e, s0, L
<1>8. n \in Nat /\ n <= L
  BY <1>2 DEF L
<1>9. CASE t <= Len(e)
  <2> DEFINE m == (L - n) - t
             x == SubSeq(e, 1, m)
             y == SubSeq(w, 1, L - t)
  <2>1. m \in 0..Len(e) /\ t <= L /\ L - t \in 0..L /\ Len(e) - t = m /\ m \in Nat /\ L - t = n + m
    BY <1>2, <1>6, <1>8, <1>9
  <2> HIDE DEF m
  <2>2. x \in Seq(Byte) /\ Len(x) = m /\ \A i \in 1..m : x[i] = e[i]
    <3>1. x \in Seq(Byte) /\ Len(x) = m
      BY <1>1, <2>1, SubSeqSplit
    <3>2. \A i \in 1..m : x[i] = e[i]
      BY <1>1, <2>1
    <3> QED
      BY <3>1, <3>2
  <2>3. y \in Seq(Byte) /\ Len(y) = n + m /\ \A i \in 1..n + m : y[i] = w[i]
    <3>1. y \in Seq(Byte) /\ Len(y) = L - t
      BY <2>1, SubSeqSplit DEF L
    <3>2. \A i \in 1..L - t : y[i] = w[i]
      BY <2>1 DEF L
    <3> QED
      BY <2>1, <3>1, <3>2
  <2>4. Stream(st, buf, y).state = "normal" /\ Len(Stream(st, buf, y).out) = v
    BY <2>1 DEF Ends, L
  <2> HIDE DEF x, y
  <2>5. d \o x = y
    <3>1. d \o x \in Seq(Byte) /\ Joined(d \o x, d, x)
      BY <1>1, <2>2, ConcatFacts
    <3>2. Joined(w, d, e)
      BY <1>1, ConcatFacts
    <3>3. Len(d \o x) = n + m
      BY <1>1, <2>2, <3>1 DEF Joined
    <3>4. ASSUME NEW i \in 1..n + m PROVE (d \o x)[i] = y[i]
      <4>1. CASE i \in 1..n
        BY <1>1, <2>3, <3>1, <3>2, <4>1 DEF Joined
      <4>2. CASE ~(i \in 1..n)
        <5>1. i - n \in 1..m /\ n + (i - n) = i /\ i - n \in 1..L - n
          BY <1>2, <1>8, <2>1, <4>2
        <5>2. (d \o x)[Len(d) + (i - n)] = x[i - n]
          BY <2>2, <3>1, <5>1 DEF Joined
        <5>3. x[i - n] = e[i - n] /\ e[i - n] = w[n + (i - n)]
          BY <1>7, <2>2, <5>1
        <5> QED
          BY <1>1, <2>3, <5>1, <5>2, <5>3
      <4> QED
        BY <4>1, <4>2
    <3> QED
      BY <2>3, <3>1, <3>3, <3>4, SeqEqual
  <2>6. Destuff(s0, y) = Destuff(s, x)
    <3>1. Destuff(s0, d \o x) = Destuff(Destuff(s0, d), x)
      BY <1>1, <1>2, <2>2, DestuffConcat
    <3> QED
      BY <1>3, <2>5, <3>1
  <2>7. Stream(s.state, s.out, x) = Stream(st, buf, y)
    BY <1>5, <2>6 DEF Stream, s0
  <2>8. Ends(s.state, s.out, e, t, v)
    BY <1>9, <2>1, <2>4, <2>7 DEF Ends, x
  <2> QED
    BY <2>8 DEF e
<1>10. CASE ~(t <= Len(e))
  <2>1. v <= Len(s.out)
    <3>1. CASE t <= L
      <4> DEFINE m == L - t
                 y == SubSeq(w, 1, m)
                 z == SubSeq(d, m + 1, Len(d))
      <4>1. m \in 0..L /\ m \in 0..Len(d)
        BY <1>1, <1>2, <1>6, <1>8, <1>10, <3>1
      <4>2. Stream(st, buf, y).state = "normal" /\ Len(Stream(st, buf, y).out) = v
        BY <3>1 DEF Ends, L
      <4> HIDE DEF m
      <4>3. /\ SubSeq(d, 1, m) \in Seq(Byte) /\ Len(SubSeq(d, 1, m)) = m
            /\ z \in Seq(Byte) /\ SubSeq(d, 1, m) \o z = d
        BY <1>1, <4>1, SubSeqSplit
      <4>4. y \in Seq(Byte) /\ Len(y) = m
        BY <4>1, SubSeqSplit DEF L
      <4>5. SubSeq(d, 1, m) = y
        <5>1. ASSUME NEW i \in 1..m PROVE SubSeq(d, 1, m)[i] = y[i]
          <6>1. i \in 1..n /\ i \in 1..L
            BY <1>1, <1>2, <1>8, <4>1
          <6>2. SubSeq(d, 1, m)[i] = d[i]
            BY <1>1, <4>1
          <6>3. y[i] = w[i]
            BY <4>1 DEF L
          <6>4. Joined(w, d, e)
            BY <1>1, ConcatFacts
          <6>5. d[i] = w[i]
            BY <1>1, <6>1, <6>4 DEF Joined
          <6> QED
            BY <6>2, <6>3, <6>5
        <5> HIDE DEF y
        <5> QED
          BY <4>3, <4>4, <5>1, SeqEqual
      <4> HIDE DEF y, z
      <4>6. s = Destuff(Destuff(s0, y), z)
        <5>1. Destuff(s0, y \o z) = Destuff(Destuff(s0, y), z)
          BY <1>2, <4>3, <4>4, DestuffConcat
        <5> QED
          BY <1>3, <4>3, <4>5, <5>1
      <4>7. Destuff(s0, y) \in Automaton
        BY <1>2, <4>4, DestuffType
      <4>8. Len(Destuff(s0, y).out) <= Len(s.out)
        BY <4>3, <4>6, <4>7, DestuffGrows
      <4> QED
        BY <4>2, <4>8 DEF Stream, s0
    <3>2. CASE ~(t <= L)
      <4>1. v <= Len(buf)
        BY <3>2 DEF Ends, L
      <4>2. s0.out = buf
        BY DEF s0
      <4>3. Len(buf) <= Len(s.out)
        BY <1>1, <1>2, <1>3, <4>2, DestuffGrows
      <4> QED
        BY <1>2, <1>5, <4>1, <4>3
    <3> QED
      BY <3>1, <3>2
  <2> QED
    BY <1>10, <2>1 DEF Ends, e
<1> QED
  BY <1>9, <1>10

LEMMA EndsErase ==
    ASSUME NEW st \in {"normal", "possible_stuff"}, NEW buf \in Seq(Byte), NEW w \in Seq(Byte),
           NEW t \in Nat, NEW v \in Nat, Ends(st, buf, w, t, v), NEW n \in 0..Len(buf), n <= v
    PROVE  Ends(st, SubSeq(buf, n + 1, Len(buf)), w, t, v - n)
<1> DEFINE rest == SubSeq(buf, n + 1, Len(buf))
           x == SubSeq(w, 1, Len(w) - t)
           e == SubSeq(buf, 1, n)
<1>1. Len(w) \in Nat /\ Len(buf) \in Nat /\ n \in Nat
  BY LenProperties
<1>2. CASE t <= Len(w)
  <2>1. Len(w) - t \in 0..Len(w)
    BY <1>1, <1>2
  <2>2. x \in Seq(Byte)
    BY <2>1, SubSeqSplit
  <2>3. Stream(st, buf, x).state = "normal" /\ Len(Stream(st, buf, x).out) = v
    BY <1>2 DEF Ends
  <2> HIDE DEF x
  <2>4. /\ rest \in Seq(Byte) /\ e \in Seq(Byte) /\ Len(e) = n
        /\ Stream(st, buf, x).state = Stream(st, rest, x).state
        /\ Stream(st, buf, x).out = e \o Stream(st, rest, x).out
    BY <2>2, StreamErase
  <2> HIDE DEF rest, e
  <2>5. Stream(st, rest, x).out \in Seq(Byte) /\ Len(Stream(st, rest, x).out) \in Nat
    BY <2>2, <2>4, StreamFacts
  <2>6. Len(e \o Stream(st, rest, x).out) = n + Len(Stream(st, rest, x).out)
    BY <2>4, <2>5, ConcatProperties
  <2>7. Len(Stream(st, rest, x).out) = v - n
    BY <1>1, <2>3, <2>4, <2>5, <2>6
  <2>8. Ends(st, rest, w, t, v - n)
    BY <1>2, <2>3, <2>4, <2>7 DEF Ends, x
  <2> QED
    BY <2>8 DEF rest
<1>3. CASE ~(t <= Len(w))
  <2>1. v <= Len(buf)
    BY <1>3 DEF Ends
  <2>2. Len(rest) = Len(buf) - n
    BY <1>1
  <2>3. v - n <= Len(rest)
    BY <1>1, <2>1, <2>2
  <2> QED
    BY <1>3, <2>3 DEF Ends
<1> QED
  BY <1>2, <1>3

-----------------------------------------------------------------------------
(* The frame the loop finds.                                               *)

LEMMA StartFacts ==
    ASSUME buffer_ \in Seq(Byte), end \in 0..Len(buffer_), start # 0
    PROVE  /\ start \in end + 1..Len(buffer_)
           /\ buffer_[start] = Prefix
           /\ \A m \in end + 1..start - 1 : buffer_[m] # Prefix
<1> DEFINE I == {i \in end + 1..Len(buffer_) : buffer_[i] = Prefix}
<1>0. Len(buffer_) \in Nat /\ end \in Nat
  BY LenProperties
<1>1. start = IF I # {} THEN Min(I) ELSE 0
  BY DEF start, SelectInSubSeq
<1>2. I # {} /\ start = Min(I)
  BY <1>1
<1>3. I \subseteq Nat
  BY <1>0
<1>4. \E x \in I : \A y \in I : x <= y
  <2> HIDE DEF I
  <2> QED
    BY <1>2, <1>3, LeastNumber
<1>5. Min(I) \in I /\ \A y \in I : Min(I) <= y
  <2> HIDE DEF I
  <2> QED
    BY <1>4 DEF Min
<1> HIDE DEF start
<1>6. start \in I /\ \A y \in I : start <= y
  BY <1>2, <1>5
<1>7. start \in end + 1..Len(buffer_) /\ buffer_[start] = Prefix
  BY <1>6
<1>8. ASSUME NEW m \in end + 1..start - 1 PROVE buffer_[m] # Prefix
  <2>1. m \in end + 1..Len(buffer_) /\ ~(start <= m)
    BY <1>0, <1>7
  <2>2. m \notin I
    BY <1>6, <2>1
  <2> QED
    BY <2>1, <2>2
<1> QED
  BY <1>7, <1>8

\* The bytes of a payload.
LEMMA PayloadFacts ==
    ASSUME NEW r \in Frame
    PROVE  LET d == Payload(r.body, r.good)
               n == Len(r.body) - 1
           IN  /\ d[1] = r.body[1]
               /\ d[2] \in Nat /\ d[3] \in Nat /\ d[2] + 256 * d[3] = n
               /\ \A m \in 1..n : d[3 + m] = r.body[m + 1]
               /\ d[n + 4] \in Nat /\ d[n + 5] \in Nat
               /\ 256 * d[n + 4] + d[n + 5] = Checksum(r.body, r.good)
               /\ \A m \in 1..n + 3 : d[m] = Content(r.body)[m]
               /\ Len(Content(r.body)) = n + 3
<1> DEFINE body == r.body
           good == r.good
           d == Payload(body, good)
           n == Len(body) - 1
           c == Content(body)
           crc == Checksum(body, good)
           tail == <<crc \div 256, crc % 256>>
           head == <<Cmd(body), Len(Data(body)) % 256, Len(Data(body)) \div 256>>
<1>1. body \in Body /\ good \in BOOLEAN
  BY FrameType
<1> HIDE DEF body, good
<1>2. /\ body \in Seq(Byte) /\ Len(body) \in Nat \ {0}
      /\ Cmd(body) \in Byte
      /\ Data(body) \in Seq(Byte) /\ Len(Data(body)) = n /\ n \in Nat /\ n < Word
      /\ c \in Seq(Byte) /\ Len(c) = n + 3
  <2>1. /\ body \in Seq(Byte) /\ Len(body) \in Nat \ {0} /\ Cmd(body) \in Byte
        /\ Data(body) \in Seq(Byte) /\ Len(Data(body)) = Len(body) - 1
        /\ Len(Data(body)) \in Nat /\ Len(Data(body)) < Word
        /\ c \in Seq(Byte) /\ Len(c) = Len(body) + 2
    BY <1>1, ContentType
  <2> HIDE DEF c
  <2> QED
    BY <2>1
<1>3. crc \in Nat /\ crc < Word
  BY <1>1, PayloadType
<1>4. c = head \o Data(body) /\ d = c \o tail
  BY DEF Content, Payload
<1> HIDE DEF n, c, d, crc
<1>5. /\ n % 256 \in Byte /\ n \div 256 \in Byte /\ 256 * (n \div 256) + (n % 256) = n
      /\ crc % 256 \in Byte /\ crc \div 256 \in Byte /\ 256 * (crc \div 256) + (crc % 256) = crc
  BY <1>2, <1>3, WordArithmetic
<1>6. /\ head \in Seq(Byte) /\ Len(head) = 3
      /\ head[1] = Cmd(body) /\ head[2] = n % 256 /\ head[3] = n \div 256
  BY <1>2, <1>5
<1>7. tail \in Seq(Byte) /\ Len(tail) = 2 /\ tail[1] = crc \div 256 /\ tail[2] = crc % 256
  BY <1>5
<1> HIDE DEF head, tail
<1>8. Joined(c, head, Data(body)) /\ Joined(d, c, tail)
  BY <1>2, <1>4, <1>6, <1>7, ConcatFacts
<1>9. \A m \in 1..3 : c[m] = head[m]
  BY <1>6, <1>8 DEF Joined
<1>10. \A m \in 1..n : c[3 + m] = Data(body)[m]
  BY <1>2, <1>6, <1>8 DEF Joined
<1>11. \A m \in 1..n + 3 : d[m] = c[m]
  BY <1>2, <1>8 DEF Joined
<1>12. d[(n + 3) + 1] = tail[1] /\ d[(n + 3) + 2] = tail[2]
  BY <1>2, <1>7, <1>8 DEF Joined
<1>13. \A m \in 1..n : Data(body)[m] = body[m + 1]
  BY <1>2 DEF Data
<1>14. 1 \in 1..n + 3 /\ 2 \in 1..n + 3 /\ 3 \in 1..n + 3 /\ \A m \in 1..n : 3 + m \in 1..n + 3
  BY <1>2
<1>15. d[1] = body[1] /\ d[2] = n % 256 /\ d[3] = n \div 256
  BY <1>6, <1>9, <1>11, <1>14 DEF Cmd
<1>16. \A m \in 1..n : d[3 + m] = body[m + 1]
  BY <1>10, <1>11, <1>13, <1>14
<1>17. d[n + 4] = crc \div 256 /\ d[n + 5] = crc % 256
  <2>1. (n + 3) + 1 = n + 4 /\ (n + 3) + 2 = n + 5
    BY <1>2
  <2> QED
    BY <1>7, <1>12, <2>1
<1>18. \A x \in Byte : x \in Nat
  BY DEF Byte
<1>19. d[2] \in Nat /\ d[3] \in Nat /\ d[2] + 256 * d[3] = n
  BY <1>2, <1>5, <1>15, <1>18
<1>20. d[n + 4] \in Nat /\ d[n + 5] \in Nat /\ 256 * d[n + 4] + d[n + 5] = crc
  BY <1>5, <1>17, <1>18
<1> QED
  BY <1>2, <1>11, <1>15, <1>16, <1>19, <1>20 DEF d, n, c, crc, body, good

\* A prefix that the loop finds is the one of the next frame of the stream.
LEMMA PrefixFound ==
    ASSUME buffer_ \in Seq(Byte), end \in 0..Len(buffer_), start # 0,
           NEW F \in Seq(Byte), \A m \in 1..Len(buffer_) : F[m] = buffer_[m],
           NEW r \in Frame, NEW v \in Nat, Piece(F, end, v, r)
    PROVE  start = v - Len(Payload(r.body, r.good))
<1> DEFINE d == Payload(r.body, r.good)
           q == v - Len(d)
           B == Len(buffer_)
<1>1. Len(d) \in Nat
  BY FrameType, LenProperties
<1>2. /\ end + Len(d) + 1 <= v
      /\ \A m \in end + 1..v - Len(d) - 1 : F[m] # Prefix
      /\ F[v - Len(d)] = Prefix
  BY DEF Piece
<1> HIDE DEF d
<1>3. /\ q \in Nat /\ end + 1 <= q /\ end \in Nat /\ B \in Nat
      /\ \A m \in end + 1..q - 1 : F[m] # Prefix
      /\ F[q] = Prefix
  BY <1>1, <1>2, LenProperties
<1> HIDE DEF q
<1>4. /\ start \in end + 1..B
      /\ buffer_[start] = Prefix
      /\ \A m \in end + 1..start - 1 : buffer_[m] # Prefix
  BY StartFacts
<1> HIDE DEF start, B
<1>5. start \in Nat /\ start <= B /\ end + 1 <= start
  BY <1>3, <1>4
<1>6. ASSUME start < q PROVE FALSE
  <2>1. start \in end + 1..q - 1 /\ start \in 1..B
    BY <1>3, <1>5, <1>6
  <2>2. F[start] = buffer_[start]
    BY <2>1 DEF B
  <2> QED
    BY <1>3, <1>4, <2>1, <2>2
<1>7. ASSUME q < start PROVE FALSE
  <2>1. q \in end + 1..start - 1 /\ q \in 1..B
    BY <1>3, <1>5, <1>7
  <2>2. F[q] = buffer_[q]
    BY <2>1 DEF B
  <2> QED
    BY <1>3, <1>4, <2>1, <2>2
<1>8. start = q
  BY <1>3, <1>5, <1>6, <1>7
<1> QED
  BY <1>8 DEF q, d

Found(frame, v) ==
    /\ FrameBody = frame.body
    /\ check_crc <=> frame.good
    /\ start + full_length - 1 = v
    /\ v <= Len(buffer_)

\* A complete frame in the buffer is the next one of the stream, whole.
LEMMA FrameFound ==
    ASSUME buffer_ \in Seq(Byte), end \in 0..Len(buffer_), FrameComplete,
           NEW F \in Seq(Byte), \A m \in 1..Len(buffer_) : F[m] = buffer_[m],
           NEW r \in Frame, NEW v \in Nat, Piece(F, end, v, r)
    PROVE  Found(r, v)
<1> DEFINE body == r.body
           d == Payload(r.body, r.good)
           n == Len(body) - 1
           q == v - Len(d)
           B == Len(buffer_)
<1>1. /\ body \in Body /\ body \in Seq(Byte) /\ Len(body) \in Nat \ {0} /\ n \in Nat
      /\ d \in Seq(Byte) /\ Len(d) = n + 5
  <2>1. r.body \in Body /\ Len(r.body) \in Nat \ {0} /\ d \in Seq(Byte) /\ Len(d) = Len(r.body) + 4
    BY FrameType
  <2>2. r.body \in Seq(Byte)
    BY <2>1, ContentType
  <2> HIDE DEF d
  <2> QED
    BY <2>1, <2>2
<1>2. /\ d[1] = body[1]
      /\ d[2] \in Nat /\ d[3] \in Nat /\ d[2] + 256 * d[3] = n
      /\ \A m \in 1..n : d[3 + m] = body[m + 1]
      /\ d[n + 4] \in Nat /\ d[n + 5] \in Nat
      /\ 256 * d[n + 4] + d[n + 5] = Checksum(r.body, r.good)
      /\ \A m \in 1..n + 3 : d[m] = Content(r.body)[m]
      /\ Len(Content(r.body)) = n + 3
  BY PayloadFacts
<1>3. /\ end + Len(d) + 1 <= v
      /\ \A m \in end + 1..v - Len(d) - 1 : F[m] # Prefix
      /\ F[v - Len(d)] = Prefix
      /\ \A m \in 1..Len(d) : F[v - Len(d) + m] = d[m]
  BY DEF Piece
<1>f. start = q /\ start # 0
  BY PrefixFound DEF FrameComplete
<1> HIDE DEF d, n, body
<1>4. /\ q \in Nat /\ end + 1 <= q /\ v = q + (n + 5) /\ end \in Nat /\ B \in Nat
      /\ \A m \in end + 1..q - 1 : F[m] # Prefix
      /\ F[q] = Prefix
      /\ \A m \in 1..n + 5 : F[q + m] = d[m]
  BY <1>1, <1>3, LenProperties
<1> HIDE DEF q
<1>5. /\ start # 0 /\ start \in end + 1..B
      /\ buffer_[start] = Prefix
      /\ \A m \in end + 1..start - 1 : buffer_[m] # Prefix
  BY StartFacts DEF FrameComplete
<1>6. B - start + 1 >= 4 /\ B - start + 1 >= full_length
  BY DEF FrameComplete, remain_len, HeaderSize
<1> HIDE DEF start, full_length, B
<1>7. start = q
  BY <1>f
<1>8. \A m \in 1..n + 5 : q + m <= B => buffer_[q + m] = d[m]
  <2>1. ASSUME NEW m \in 1..n + 5, q + m <= B PROVE buffer_[q + m] = d[m]
    <3>1. q + m \in 1..B
      BY <1>1, <1>4, <2>1
    <3>2. F[q + m] = buffer_[q + m]
      BY <3>1 DEF B
    <3> QED
      BY <1>4, <3>2
  <2> QED
    BY <2>1
<1>9. data_len = n
  <2>1. q + 2 <= B /\ q + 3 <= B /\ 2 \in 1..n + 5 /\ 3 \in 1..n + 5
    BY <1>1, <1>4, <1>6, <1>7
  <2>2. buffer_[q + 2] = d[2] /\ buffer_[q + 3] = d[3]
    BY <1>8, <2>1
  <2> QED
    BY <1>2, <1>7, <2>2 DEF data_len
<1>10. full_length = n + 6
  BY <1>1, <1>9 DEF full_length, HeaderSize
<1>11. start + full_length - 1 = v /\ v <= B
  <2>1. q \in Nat /\ n \in Nat /\ B \in Nat /\ v = q + (n + 5)
    BY <1>1, <1>4
  <2>2. B - q + 1 >= n + 6
    BY <1>6, <1>7, <1>10
  <2>3. q + (n + 6) - 1 = v /\ v <= B
    BY <2>1, <2>2
  <2> QED
    BY <1>7, <1>10, <2>3
<1>12. \A m \in 1..n + 5 : buffer_[q + m] = d[m] /\ q + m \in 1..B
  <2>1. \A m \in 1..n + 5 : q + m <= B /\ q + m \in 1..B
    BY <1>1, <1>4, <1>11
  <2> QED
    BY <1>8, <2>1
<1>13. FrameBody = body
  <2> DEFINE x == <<buffer_[q + 1]>>
             y == SubSeq(buffer_, q + 4, q + 4 + n - 1)
  <2>1. FrameBody = x \o y
    BY <1>7, <1>9 DEF FrameBody, HeaderSize
  <2>2. x[1] = d[1] /\ x \in Seq(Byte) /\ Len(x) = 1
    <3>1. 1 \in 1..n + 5
      BY <1>1
    <3>2. buffer_[q + 1] = d[1] /\ buffer_[q + 1] \in Byte
      BY <1>12, <3>1 DEF B
    <3> QED
      BY <3>2
  <2>3. y \in Seq(Byte) /\ Len(y) = n /\ \A m \in 1..n : y[m] = buffer_[q + 3 + m]
    <3>1. q + 4 \in Int /\ q + 4 + n - 1 \in Int /\ \A m \in q + 4..q + 4 + n - 1 : buffer_[m] \in Byte
      <4>1. \A m \in q + 4..q + 4 + n - 1 : m \in 1..B
        BY <1>1, <1>4, <1>11
      <4> QED
        BY <1>1, <1>4, <4>1 DEF B
    <3>2. y \in Seq(Byte) /\ Len(y) = IF q + 4 <= q + 4 + n - 1 THEN (q + 4 + n - 1) - (q + 4) + 1 ELSE 0
      BY <3>1, SubSeqProperties
    <3>3. Len(y) = n
      <4>1. q \in Nat /\ n \in Nat
        BY <1>1, <1>4
      <4> QED
        BY <3>2, <4>1
    <3>4. \A m \in 1..n : y[m] = buffer_[(q + 4) + m - 1]
      BY <3>1, <3>3, SubSeqProperties
    <3>5. \A m \in 1..n : (q + 4) + m - 1 = q + 3 + m
      BY <1>1, <1>4
    <3> QED
      BY <3>2, <3>3, <3>4, <3>5
  <2> HIDE DEF x, y
  <2>4. x \o y \in Seq(Byte) /\ Joined(x \o y, x, y)
    BY <2>2, <2>3, ConcatFacts
  <2>5. Len(x \o y) = Len(body)
    BY <1>1, <2>2, <2>3, <2>4 DEF Joined, n
  <2>6. ASSUME NEW m \in 1..Len(body) PROVE (x \o y)[m] = body[m]
    <3>1. CASE m = 1
      BY <1>2, <2>2, <2>4, <3>1 DEF Joined
    <3>2. CASE m # 1
      <4>1. m - 1 \in 1..n /\ 1 + (m - 1) = m /\ 3 + (m - 1) \in 1..n + 5 /\ (m - 1) + 1 = m
        BY <1>1, <3>2 DEF n
      <4>2. (x \o y)[Len(x) + (m - 1)] = y[m - 1]
        BY <2>3, <2>4, <4>1 DEF Joined
      <4>3. y[m - 1] = buffer_[q + 3 + (m - 1)]
        BY <2>3, <4>1
      <4>4. buffer_[q + (3 + (m - 1))] = d[3 + (m - 1)]
        BY <1>12, <4>1
      <4>5. d[3 + (m - 1)] = body[(m - 1) + 1]
        BY <1>2, <4>1
      <4>6. q + 3 + (m - 1) = q + (3 + (m - 1))
        BY <1>4, <4>1
      <4> QED
        BY <2>2, <4>1, <4>2, <4>3, <4>4, <4>5, <4>6
    <3> QED
      BY <3>1, <3>2
  <2>7. x \o y = body
    BY <1>1, <2>4, <2>5, <2>6, SeqEqual
  <2> QED
    BY <2>1, <2>7
<1>14. calc_crc = Crc(Content(r.body))
  <2> DEFINE y == SubSeq(buffer_, q + 1, q + 4 + n - 1)
             c == Content(r.body)
  <2>1. calc_crc = Crc(y)
    BY <1>7, <1>9 DEF calc_crc, HeaderSize
  <2>2. y \in Seq(Byte) /\ Len(y) = n + 3 /\ \A m \in 1..n + 3 : y[m] = buffer_[q + m]
    <3>1. q + 1 \in Int /\ q + 4 + n - 1 \in Int /\ \A m \in q + 1..q + 4 + n - 1 : buffer_[m] \in Byte
      <4>1. \A m \in q + 1..q + 4 + n - 1 : m \in 1..B
        BY <1>1, <1>4, <1>11
      <4> QED
        BY <1>1, <1>4, <4>1 DEF B
    <3>2. y \in Seq(Byte) /\ Len(y) = IF q + 1 <= q + 4 + n - 1 THEN (q + 4 + n - 1) - (q + 1) + 1 ELSE 0
      BY <3>1, SubSeqProperties
    <3>3. Len(y) = n + 3
      BY <1>1, <1>4, <3>2, SMTT(30)
    <3>4. \A m \in 1..n + 3 : y[m] = buffer_[(q + 1) + m - 1]
      BY <3>1, <3>3, SubSeqProperties
    <3>5. \A m \in 1..n + 3 : (q + 1) + m - 1 = q + m
      BY <1>1, <1>4
    <3> QED
      BY <3>2, <3>3, <3>4, <3>5
  <2>3. c \in Seq(Byte) /\ Len(c) = n + 3
    BY <1>1, <1>2, ContentType DEF body
  <2>4. \A m \in 1..n + 3 : y[m] = c[m]
    <3>1. \A m \in 1..n + 3 : m \in 1..n + 5
      BY <1>1
    <3> QED
      BY <1>2, <1>12, <2>2, <3>1
  <2> HIDE DEF y, c
  <2>5. y = c
    BY <2>2, <2>3, <2>4, SeqEqual
  <2> QED
    BY <2>1, <2>5 DEF c
<1>15. get_crc = Checksum(r.body, r.good)
  <2>1. n + 4 \in 1..n + 5 /\ n + 5 \in 1..n + 5 /\ q + 4 + n = q + (n + 4) /\ q + 4 + n + 1 = q + (n + 5)
    <3>1. q \in Nat /\ n \in Nat
      BY <1>1, <1>4
    <3> QED
      BY <3>1
  <2>2. get_crc = 256 * buffer_[q + 4 + n] + buffer_[q + 4 + n + 1]
    BY <1>7, <1>9 DEF get_crc, HeaderSize
  <2>3. buffer_[q + (n + 4)] = d[n + 4] /\ buffer_[q + (n + 5)] = d[n + 5]
    BY <1>12, <2>1
  <2> QED
    BY <1>2, <2>1, <2>2, <2>3
<1>16. (Checksum(r.body, r.good) = Crc(Content(r.body))) <=> r.good
  BY FrameType, PayloadType
<1>17. check_crc <=> r.good
  BY <1>14, <1>15, <1>16 DEF check_crc
<1> QED
  BY <1>11, <1>13, <1>17 DEF Found, B, body

\* The loop takes the next frame of the stream as soon as it is stored whole.
LEMMA FrameThere ==
    ASSUME buffer_ \in Seq(Byte), end \in 0..Len(buffer_),
           NEW F \in Seq(Byte), \A m \in 1..Len(buffer_) : F[m] = buffer_[m],
           NEW r \in Frame, NEW v \in Nat, Piece(F, end, v, r), v <= Len(buffer_)
    PROVE  FrameComplete
<1> DEFINE d == Payload(r.body, r.good)
           n == Len(r.body) - 1
           q == v - Len(d)
           B == Len(buffer_)
           I == {i \in end + 1..Len(buffer_) : buffer_[i] = Prefix}
<1>1. n \in Nat /\ d \in Seq(Byte) /\ Len(d) = n + 5
  <2>1. Len(r.body) \in Nat \ {0} /\ d \in Seq(Byte) /\ Len(d) = Len(r.body) + 4
    BY FrameType
  <2> HIDE DEF d
  <2> QED
    BY <2>1
<1>2. d[2] \in Nat /\ d[3] \in Nat /\ d[2] + 256 * d[3] = n
  BY PayloadFacts
<1>3. /\ end + Len(d) + 1 <= v
      /\ \A m \in end + 1..v - Len(d) - 1 : F[m] # Prefix
      /\ F[v - Len(d)] = Prefix
      /\ \A m \in 1..Len(d) : F[v - Len(d) + m] = d[m]
  BY DEF Piece
<1> HIDE DEF d, n
<1>4. /\ q \in Nat /\ end + 1 <= q /\ v = q + (n + 5) /\ end \in Nat /\ B \in Nat
      /\ \A m \in end + 1..q - 1 : F[m] # Prefix
      /\ F[q] = Prefix
      /\ \A m \in 1..n + 5 : F[q + m] = d[m]
  BY <1>1, <1>3, LenProperties
<1> HIDE DEF q
<1>5. q + (n + 5) <= B
  BY <1>4
<1>6. \A m \in 0..n + 5 : q + m \in 1..B
  BY <1>1, <1>4, <1>5
<1>7. buffer_[q] = Prefix /\ q \in end + 1..B
  <2>1. q \in 1..B /\ q \in end + 1..B
    BY <1>1, <1>4, <1>5
  <2>2. F[q] = buffer_[q]
    BY <2>1 DEF B
  <2> QED
    BY <1>4, <2>1, <2>2
<1>8. start # 0
  <2>1. q \in I /\ I \subseteq Nat \ {0}
    BY <1>4, <1>7 DEF B
  <2>2. start = IF I # {} THEN Min(I) ELSE 0
    BY DEF start, SelectInSubSeq
  <2> HIDE DEF I
  <2>3. I \subseteq Nat
    BY <2>1
  <2>4. \E x \in I : \A y \in I : x <= y
    BY <2>1, <2>3, LeastNumber
  <2>5. Min(I) \in I
    BY <2>4 DEF Min
  <2> QED
    BY <2>1, <2>2, <2>5
<1>9. start = q
  BY <1>8, PrefixFound DEF q, d
<1> HIDE DEF start, B
<1>11. data_len = n
  <2>1. 2 \in 1..n + 5 /\ 3 \in 1..n + 5 /\ q + 2 \in 1..B /\ q + 3 \in 1..B
    BY <1>1, <1>6
  <2>2. F[q + 2] = buffer_[q + 2] /\ F[q + 3] = buffer_[q + 3]
    BY <2>1 DEF B
  <2>3. buffer_[q + 2] = d[2] /\ buffer_[q + 3] = d[3]
    BY <1>4, <2>1, <2>2
  <2> QED
    BY <1>2, <1>9, <2>3 DEF data_len
<1>12. full_length = n + 6
  BY <1>1, <1>11 DEF full_length, HeaderSize
<1>13. B - q + 1 >= n + 6 /\ n + 6 >= 4
  <2>1. q \in Nat /\ n \in Nat /\ B \in Nat
    BY <1>1, <1>4
  <2> QED
    BY <1>5, <2>1
<1>14. remain_len = B - q + 1
  BY <1>9 DEF remain_len, B
<1>15. B - q + 1 >= 4
  <2>1. q \in Nat /\ n \in Nat /\ B \in Nat
    BY <1>1, <1>4
  <2> QED
    BY <1>13, <2>1
<1> QED
  BY <1>8, <1>12, <1>13, <1>14, <1>15 DEF FrameComplete, HeaderSize

-----------------------------------------------------------------------------
(* The invariant.                                                          *)

\* A read can still be handled.
Live == open \/ late \/ pc = "scan"

Flags ==
    /\ open <=> cause = "none"
    /\ pc = "idle" => end = 0
    /\ cause = "full read" => ~Live

\* k frames have been processed, unless a handler threw, and the checksum
\* closes for the next one.
Reached(k, fr, h, c) ==
    /\ c # "handler" => k = Len(h)
    /\ c = "checksum" => k < Len(fr) /\ ~fr[k + 1].good

\* The erased frames have arrived, and where the others end.
Counted(st, buf, w, fr, b, p) ==
    /\ \A i \in 1..Len(fr) : fr[i].upto <= Total(fr)
    /\ \A i \in 1..b : Len(w) <= Total(fr) - fr[i].upto
    /\ \A i \in b + 1..Len(fr) : Ends(st, buf, w, Total(fr) - fr[i].upto, p[i])

\* Between reads the next frame is not complete.
Waits(buf, fr, k, p, idle) == idle => k = Len(fr) \/ Len(buf) < p[k + 1]

\* What is stored and what is still on the wire are whole frames, and the
\* loop stands between two of them.
Aligned(st, buf, w, fr, e, h, c, idle) ==
    /\ Stream(st, buf, w).state = "normal"
    /\ \E b, k, p : /\ Cut(fr, Stream(st, buf, w).out, b, p)
                    /\ k \in b..Len(fr) /\ p[k] = e
                    /\ Reached(k, fr, h, c)
                    /\ Counted(st, buf, w, fr, b, p)
                    /\ Waits(buf, fr, k, p, idle)

Idle == pc = "idle" /\ open

Whole == Live => Aligned(state_, buffer_, wire, sent, end, handled, cause, Idle)

DamageArrived == cause = "checksum" => \E i \in Arrived : ~sent[i].good

IInv == TypeOK /\ Flags /\ Whole /\ FramesInOrder /\ DamageArrived

LEMMA InitInv ==
    Init => IInv
<1> SUFFICES ASSUME Init PROVE IInv
  OBVIOUS
<1> USE DEF Init
<1>1. TypeOK
  <2>1. end \in 0..Len(buffer_)
    BY EmptySeq
  <2>2. <<>> \in Seq(Byte) /\ <<>> \in Seq(Seq(Byte)) /\ <<>> \in Seq([body : Body, good : BOOLEAN, upto : Nat])
    BY EmptySeq
  <2> QED
    BY <2>1, <2>2 DEF TypeOK
<1>2. Flags
  BY DEF Flags
<1>3. FramesInOrder
  <2>1. Len(<<>>) = 0 /\ 1..0 = {}
    OBVIOUS
  <2> QED
    BY <2>1 DEF FramesInOrder
<1>4. Aligned(state_, buffer_, wire, sent, end, handled, cause, Idle)
  <2>1. Normal(<<>>) \in Automaton /\ Len(<<>>) = 0
    BY NormalType, EmptySeq
  <2>2. Stream("normal", <<>>, <<>>) = Normal(<<>>)
    BY <2>1, DestuffStep DEF Stream, Normal
  <2>3. Normal(<<>>).state = "normal" /\ Normal(<<>>).out = <<>>
    BY DEF Normal
  <2> DEFINE p == [i \in 0..0 |-> 0]
  <2>4. /\ p \in [0..0 -> 0..0] /\ p[0] = 0 /\ 0..0 = {0} /\ 0 + 1..0 = {}
    OBVIOUS
  <2> HIDE DEF p
  <2>5. Cut(<<>>, <<>>, 0, p)
    BY <2>1, <2>4 DEF Cut
  <2>6. Reached(0, <<>>, <<>>, "none")
    BY <2>1 DEF Reached
  <2>7. Counted("normal", <<>>, <<>>, <<>>, 0, p)
    BY <2>1, <2>4 DEF Counted
  <2>8. Waits(<<>>, <<>>, 0, p, Idle)
    BY <2>1 DEF Waits
  <2> QED
    BY <2>1, <2>2, <2>3, <2>4, <2>5, <2>6, <2>7, <2>8 DEF Aligned
<1>5. DamageArrived
  BY DEF DamageArrived
<1> QED
  BY <1>1, <1>2, <1>3, <1>4, <1>5 DEF IInv, Whole

LEMMA TypeFacts ==
    ASSUME TypeOK
    PROVE  /\ wire \in Seq(Byte) /\ buffer_ \in Seq(Byte) /\ sent \in Seq(Frame)
           /\ handled \in Seq(Seq(Byte)) /\ Len(handled) \in Nat /\ Len(sent) \in Nat
           /\ state_ \in {"normal", "possible_stuff"}
           /\ end \in 0..Len(buffer_) /\ Len(buffer_) \in Nat
           /\ open \in BOOLEAN /\ late \in BOOLEAN
           /\ cause \in {"none", "handler", "checksum", "full read"} /\ pc \in {"idle", "scan"}
<1>1. wire \in Seq(Byte) /\ buffer_ \in Seq(Byte) /\ sent \in Seq(Frame) /\ handled \in Seq(Seq(Byte))
  BY DEF TypeOK, Frame
<1>2. Len(handled) \in Nat /\ Len(sent) \in Nat /\ Len(buffer_) \in Nat
  BY <1>1, LenProperties
<1> QED
  BY <1>1, <1>2 DEF TypeOK

LEMMA TotalType ==
    ASSUME NEW fr \in Seq(Frame)
    PROVE  Total(fr) \in Nat
<1>1. CASE fr = <<>>
  BY <1>1 DEF Total
<1>2. CASE fr # <<>>
  <2>1. Len(fr) \in 1..Len(fr)
    BY <1>2, EmptySeq, LenProperties
  <2>2. fr[Len(fr)] \in Frame
    BY <2>1, ElementOfSeq
  <2> QED
    BY <1>2, <2>2 DEF Total, Last, Frame
<1> QED
  BY <1>1, <1>2

\* One frame more is sent.
LEMMA AlignedSend ==
    ASSUME NEW st \in {"normal", "possible_stuff"}, NEW buf \in Seq(Byte), NEW w \in Seq(Byte),
           NEW fr \in Seq(Frame), NEW e, NEW h, NEW c, NEW idle,
           Aligned(st, buf, w, fr, e, h, c, idle),
           NEW junk \in Junk, NEW r \in Frame,
           r.upto = Total(fr) + Len(junk \o DeviceFrame(r.body, r.good))
    PROVE  Aligned(st, buf, w \o (junk \o DeviceFrame(r.body, r.good)), Append(fr, r), e, h, c, idle)
<1> DEFINE bytes == junk \o DeviceFrame(r.body, r.good)
           F == Stream(st, buf, w).out
           s0 == [state |-> st, out |-> buf]
           gr == Append(fr, r)
           d == Payload(r.body, r.good)
<1>1. Stream(st, buf, w) \in Automaton /\ F \in Seq(Byte)
  BY StreamFacts
<1>2. Stream(st, buf, w).state = "normal"
  BY DEF Aligned
<1>3. Stream(st, buf, w) = Normal(F)
  BY <1>1, <1>2 DEF Automaton, Normal
<1>4. PICK b, k, p : /\ Cut(fr, F, b, p) /\ k \in b..Len(fr) /\ p[k] = e /\ Reached(k, fr, h, c)
                     /\ Counted(st, buf, w, fr, b, p) /\ Waits(buf, fr, k, p, idle)
  BY DEF Aligned
<1> HIDE DEF F
<1>5. r.body \in Body /\ r.good \in BOOLEAN
  BY FrameType
<1>6. bytes \in Seq(Byte)
  BY <1>1, <1>5, FrameDestuffed
<1>f. junk \o DeviceFrame(r.body, r.good) # <<>>
  BY <1>1, <1>5, FrameNotEmpty
<1>7. PICK j \in Seq(Byte \ {Prefix}) : Destuff(Normal(F), bytes) = Normal(F \o ((j \o <<Prefix>>) \o d))
  BY <1>1, <1>5, FrameDestuffed
<1> DEFINE G == F \o ((j \o <<Prefix>>) \o d)
<1>8. Stream(st, buf, w \o bytes) = Normal(G)
  <2>1. s0 \in Automaton
    BY DEF Automaton
  <2>2. Destuff(s0, w \o bytes) = Destuff(Destuff(s0, w), bytes)
    <3> HIDE DEF s0, bytes
    <3> QED
      BY <1>6, <2>1, DestuffConcat
  <2>3. Destuff(s0, w) = Normal(F)
    BY <1>3 DEF Stream
  <2>4. Stream(st, buf, w \o bytes) = Destuff(s0, w \o bytes)
    BY DEF Stream
  <2> QED
    BY <1>7, <2>2, <2>3, <2>4
<1>9. Extends(fr, r, G, b, p)
  BY <1>1, <1>4, CutAppend
<1> HIDE DEF G, bytes
<1>10. PICK q : Cut(gr, G, b, q) /\ \A i \in b..Len(fr) : q[i] = p[i]
  BY <1>9 DEF Extends
<1>11. /\ Len(gr) = Len(fr) + 1 /\ Len(fr) \in Nat /\ gr[Len(fr) + 1] = r
       /\ \A i \in 1..Len(fr) : gr[i] = fr[i]
  BY AppendFacts
<1>u. Total(gr) = r.upto /\ r.upto = Total(fr) + Len(bytes) /\ Total(fr) \in Nat
  <2>0. Len(gr) # 0
    BY <1>11
  <2>1. gr # <<>> /\ Last(gr) = r
    <3>1. gr # <<>>
      <4> HIDE DEF gr
      <4> QED
        BY <2>0, EmptySeq
    <3> QED
      BY <1>11, <3>1 DEF Last
  <2>2. r.upto = Total(fr) + Len(bytes)
    BY DEF bytes
  <2> QED
    BY <2>1, <2>2, TotalType DEF Total
<1> HIDE DEF gr
<1>12. b \in 0..Len(fr)
  BY <1>4 DEF Cut
<1>13. k \in b..Len(gr) /\ q[k] = e /\ k \in Nat
  BY <1>4, <1>10, <1>11, <1>12
<1>14. Reached(k, gr, h, c)
  <2>1. ASSUME c = "checksum" PROVE k < Len(gr) /\ ~gr[k + 1].good
    <3>1. k < Len(fr) /\ ~fr[k + 1].good
      BY <1>4, <2>1 DEF Reached
    <3>2. k + 1 \in 1..Len(fr) /\ k < Len(gr)
      BY <1>11, <1>13, <3>1
    <3> QED
      BY <1>11, <3>1, <3>2
  <2> QED
    BY <1>4, <2>1 DEF Reached
<1>15. Normal(G).state = "normal" /\ Normal(G).out = G
  BY DEF Normal
<1> DEFINE w1 == w \o bytes
           x == Len(bytes)
<1>16. w1 \in Seq(Byte) /\ Len(w1) = Len(w) + x /\ Len(w) \in Nat /\ x \in Nat /\ x > 0
  <2>1. bytes # <<>>
    BY <1>6, <1>f DEF bytes
  <2>2. w1 \in Seq(Byte) /\ Len(w1) = Len(w) + x /\ Len(w) \in Nat /\ x \in Nat
    BY <1>6, ConcatProperties, LenProperties
  <2>3. x # 0
    BY <1>6, <2>1, EmptySeq
  <2> HIDE DEF w1, x
  <2>4. x > 0
    BY <2>2, <2>3
  <2> QED
    BY <2>2, <2>4
<1> HIDE DEF w1, x
<1>17. \A i \in 1..Len(fr) : /\ gr[i] = fr[i] /\ fr[i].upto \in Nat /\ fr[i].upto <= Total(fr)
                             /\ Total(gr) - gr[i].upto = (Total(fr) - fr[i].upto) + x
                             /\ Total(fr) - fr[i].upto \in Nat
                             /\ gr[i].upto <= Total(gr)
  <2>1. ASSUME NEW i \in 1..Len(fr)
        PROVE  gr[i] = fr[i] /\ fr[i].upto \in Nat /\ fr[i].upto <= Total(fr)
    <3>1. fr[i] \in Frame
      BY ElementOfSeq
    <3> QED
      BY <1>4, <1>11, <3>1 DEF Counted, Frame
  <2>2. Total(gr) = Total(fr) + x /\ Total(fr) \in Nat
    BY <1>u DEF x
  <2>3. ASSUME NEW i \in 1..Len(fr)
        PROVE  /\ Total(gr) - gr[i].upto = (Total(fr) - fr[i].upto) + x
               /\ Total(fr) - fr[i].upto \in Nat
               /\ gr[i].upto <= Total(gr)
    <3> DEFINE y == fr[i].upto
               z == Total(fr)
    <3>1. y \in Nat /\ y <= z /\ z \in Nat /\ x \in Nat
      BY <1>16, <2>1, <2>2
    <3>2. gr[i].upto = y /\ Total(gr) = z + x
      BY <2>1, <2>2
    <3> HIDE DEF y, z
    <3>3. (z + x) - y = (z - y) + x /\ z - y \in Nat /\ y <= z + x
      BY <3>1
    <3> QED
      BY <3>2, <3>3 DEF y, z
  <2> QED
    BY <2>1, <2>3
<1>18. Total(gr) - gr[Len(gr)].upto = 0 /\ gr[Len(gr)].upto <= Total(gr)
  <2>1. Total(gr) \in Nat /\ gr[Len(gr)].upto = Total(gr)
    BY <1>11, <1>16, <1>u DEF x
  <2> QED
    BY <2>1
<1>19. \A i \in 1..Len(gr) : i \in 1..Len(fr) \/ i = Len(gr)
  BY <1>11
<1>20. q[Len(gr)] = Len(G) /\ \A i \in b..Len(gr) : q[i] \in Nat
  <2>1. q \in [b..Len(gr) -> 0..Len(G)] /\ q[Len(gr)] = Len(G)
    BY <1>10 DEF Cut
  <2>2. \A i \in b..Len(gr) : q[i] \in 0..Len(G)
    BY <2>1
  <2> QED
    BY <2>1, <2>2
<1>21. Ends(st, buf, w1, 0, Len(G))
  BY <1>8, <1>16, EndsNew DEF w1
<1>22. Counted(st, buf, w1, gr, b, q)
  <2>1. ASSUME NEW i \in 1..Len(gr) PROVE gr[i].upto <= Total(gr)
    BY <1>17, <1>18, <1>19
  <2>2. ASSUME NEW i \in 1..b PROVE Len(w1) <= Total(gr) - gr[i].upto
    <3>1. i \in 1..Len(fr)
      BY <1>11, <1>12
    <3>2. Len(w) <= Total(fr) - fr[i].upto
      BY <1>4 DEF Counted
    <3> QED
      BY <1>16, <1>17, <3>1, <3>2
  <2>3. ASSUME NEW i \in b + 1..Len(gr) PROVE Ends(st, buf, w1, Total(gr) - gr[i].upto, q[i])
    <3>1. CASE i = Len(gr)
      BY <1>18, <1>20, <1>21, <3>1
    <3>2. CASE i # Len(gr)
      <4>1. i \in 1..Len(fr) /\ i \in b + 1..Len(fr) /\ i \in b..Len(fr) /\ i \in b..Len(gr)
        BY <1>11, <1>12, <3>2
      <4> DEFINE t == Total(fr) - fr[i].upto
      <4>2. Ends(st, buf, w, t, p[i])
        BY <1>4, <4>1 DEF Counted
      <4>3. q[i] = p[i] /\ p[i] \in Nat /\ t \in Nat /\ Total(gr) - gr[i].upto = t + x
        BY <1>10, <1>17, <1>20, <4>1
      <4> HIDE DEF t
      <4>4. Ends(st, buf, w \o bytes, t + Len(bytes), p[i])
        BY <1>6, <4>2, <4>3, EndsSend
      <4> QED
        BY <4>3, <4>4 DEF w1, x
    <3> QED
      BY <3>1, <3>2
  <2> QED
    BY <2>1, <2>2, <2>3 DEF Counted
<1>23. Waits(buf, gr, k, q, idle)
  <2> SUFFICES ASSUME idle PROVE k = Len(gr) \/ Len(buf) < q[k + 1]
    BY DEF Waits
  <2>1. k = Len(fr) \/ Len(buf) < p[k + 1]
    BY <1>4 DEF Waits
  <2>2. CASE k = Len(fr)
    <3>1. k + 1 = Len(gr) /\ Len(G) \in Nat /\ Len(buf) \in Nat
      BY <1>11, <1>13, <1>20, <2>2, LenProperties
    <3>2. Len(G) <= Len(buf) <=> Len(w1) <= 0
      BY <1>16, <1>21, <3>1, EndsMeans
    <3>3. Len(buf) < Len(G)
      BY <1>16, <3>1, <3>2
    <3> QED
      BY <1>20, <3>1, <3>3
  <2>3. CASE k # Len(fr)
    <3>1. k + 1 \in b..Len(fr)
      BY <1>4, <1>11, <1>12, <1>13, <2>3
    <3> QED
      BY <1>10, <2>1, <2>3, <3>1
  <2> QED
    BY <2>2, <2>3
<1>24. Aligned(st, buf, w1, gr, e, h, c, idle)
  BY <1>8, <1>10, <1>13, <1>14, <1>15, <1>22, <1>23 DEF Aligned, w1
<1> QED
  BY <1>24 DEF bytes, gr, w1

\* The processed frames are erased: the stream begins with the next one.
LEMMA AlignedErase ==
    ASSUME NEW st \in {"normal", "possible_stuff"}, NEW buf \in Seq(Byte), NEW w \in Seq(Byte),
           NEW fr \in Seq(Frame), NEW h, NEW c, NEW b, NEW k, NEW p, NEW idle,
           Stream(st, buf, w).state = "normal",
           Cut(fr, Stream(st, buf, w).out, b, p), k \in b..Len(fr), p[k] \in 0..Len(buf),
           Reached(k, fr, h, c), Counted(st, buf, w, fr, b, p), Waits(buf, fr, k, p, idle)
    PROVE  Aligned(st, SubSeq(buf, p[k] + 1, Len(buf)), w, fr, 0, h, c, idle)
<1> DEFINE rest == SubSeq(buf, p[k] + 1, Len(buf))
           e == SubSeq(buf, 1, p[k])
           F == Stream(st, buf, w).out
           G == Stream(st, rest, w).out
           q == [i \in k..Len(fr) |-> p[i] - p[k]]
<1>1. /\ rest \in Seq(Byte) /\ e \in Seq(Byte) /\ Len(e) = p[k]
      /\ Stream(st, buf, w).state = Stream(st, rest, w).state
      /\ F = e \o G
  BY StreamErase, ZenonT(30)
<1>e. e \o rest = buf
  BY SubSeqSplit
<1>2. F \in Seq(Byte)
  BY StreamFacts
<1> HIDE DEF rest, e
<1>3. G \in Seq(Byte)
  BY <1>1, StreamFacts
<1> HIDE DEF F, G
<1>4. Cut(fr, F, b, p)
  BY DEF F
<1>5. Cut(fr, G, k, q)
  BY <1>1, <1>2, <1>3, <1>4, CutErase
<1>6. k \in k..Len(fr) /\ q[k] = 0
  <2>1. b \in 0..Len(fr) /\ Len(fr) \in Nat
    BY <1>4, LenProperties DEF Cut
  <2>2. k \in k..Len(fr) /\ p[k] \in Int
    BY <2>1
  <2>3. q[k] = p[k] - p[k]
    BY <2>2
  <2> QED
    BY <2>2, <2>3
<1> HIDE DEF q
<1>7. b \in Nat /\ k \in Nat /\ b <= k /\ k <= Len(fr) /\ Len(fr) \in Nat /\ Len(w) \in Nat /\ Len(buf) \in Nat
  <2>1. b \in 0..Len(fr) /\ Len(fr) \in Nat
    BY <1>4, LenProperties DEF Cut
  <2> QED
    BY <2>1, LenProperties
<1>8. \A i \in b..Len(fr) : p[i] \in Nat
  <2>1. p \in [b..Len(fr) -> 0..Len(F)] /\ Len(F) \in Nat
    BY <1>2, <1>4, LenProperties DEF Cut
  <2>2. \A i \in b..Len(fr) : p[i] \in 0..Len(F)
    BY <2>1
  <2> QED
    BY <2>1, <2>2
<1>9. \A i, j \in b..Len(fr) : i <= j => p[i] <= p[j]
  BY <1>4 DEF Cut
<1>10. \A i \in 1..Len(fr) : Total(fr) - fr[i].upto \in Nat
  <2>1. ASSUME NEW i \in 1..Len(fr) PROVE Total(fr) - fr[i].upto \in Nat
    <3>1. fr[i] \in Frame
      BY ElementOfSeq
    <3>2. fr[i].upto \in Nat /\ fr[i].upto <= Total(fr) /\ Total(fr) \in Nat
      BY <3>1, TotalType DEF Counted, Frame
    <3> QED
      BY <3>2
  <2> QED
    BY <2>1
<1>11. ASSUME NEW i \in b + 1..Len(fr)
       PROVE  Ends(st, buf, w, Total(fr) - fr[i].upto, p[i])
  BY <1>11 DEF Counted
<1>12. ASSUME NEW i \in 1..k PROVE Len(w) <= Total(fr) - fr[i].upto
  <2>1. CASE i \in 1..b
    BY <2>1 DEF Counted
  <2>2. CASE ~(i \in 1..b)
    <3>1. i \in b + 1..Len(fr) /\ i \in b..Len(fr) /\ k \in b..Len(fr) /\ i <= k /\ i \in 1..Len(fr)
      BY <1>7, <2>2
    <3>2. p[i] <= p[k] /\ p[i] \in Nat /\ p[k] \in Nat
      BY <1>8, <1>9, <3>1
    <3>3. p[i] <= Len(buf)
      BY <1>7, <3>2
    <3>4. Ends(st, buf, w, Total(fr) - fr[i].upto, p[i])
      BY <1>11, <3>1
    <3>5. Total(fr) - fr[i].upto \in Nat
      BY <1>10, <3>1
    <3> QED
      BY <3>2, <3>3, <3>4, <3>5, EndsMeans
  <2> QED
    BY <2>1, <2>2
<1>13. ASSUME NEW i \in k..Len(fr) PROVE q[i] = p[i] - p[k]
  BY DEF q
<1>14. ASSUME NEW i \in k + 1..Len(fr) PROVE Ends(st, rest, w, Total(fr) - fr[i].upto, q[i])
  <2>1. i \in b + 1..Len(fr) /\ i \in b..Len(fr) /\ k \in b..Len(fr) /\ k <= i /\ i \in 1..Len(fr) /\ i \in k..Len(fr)
    BY <1>7
  <2> DEFINE t == Total(fr) - fr[i].upto
  <2>2. t \in Nat /\ p[i] \in Nat /\ p[k] <= p[i] /\ q[i] = p[i] - p[k]
    BY <1>8, <1>9, <1>10, <1>13, <2>1
  <2>3. Ends(st, buf, w, t, p[i])
    BY <1>11, <2>1
  <2> HIDE DEF t
  <2>4. Ends(st, SubSeq(buf, p[k] + 1, Len(buf)), w, t, p[i] - p[k])
    BY <2>2, <2>3, EndsErase
  <2> QED
    BY <2>2, <2>4 DEF t, rest
<1>15. Counted(st, rest, w, fr, k, q)
  BY <1>12, <1>14 DEF Counted
<1>16. Waits(rest, fr, k, q, idle)
  <2> SUFFICES ASSUME idle, k # Len(fr) PROVE Len(rest) < q[k + 1]
    BY DEF Waits
  <2>1. Len(buf) < p[k + 1]
    BY DEF Waits
  <2>2. k + 1 \in k..Len(fr) /\ k + 1 \in b..Len(fr) /\ k \in b..Len(fr)
    BY <1>7
  <2>3. q[k + 1] = p[k + 1] - p[k] /\ p[k + 1] \in Nat /\ p[k] \in Nat
    BY <1>8, <1>13, <2>2
  <2>4. Len(rest) = Len(buf) - p[k]
    <3>1. Joined(buf, e, rest)
      BY <1>1, <1>e, ConcatFacts
    <3>2. Len(rest) \in Nat
      BY <1>1, LenProperties
    <3> QED
      BY <1>1, <1>7, <2>3, <3>1, <3>2 DEF Joined
  <2> QED
    BY <1>7, <2>1, <2>3, <2>4
<1>17. Aligned(st, rest, w, fr, 0, h, c, idle)
  BY <1>1, <1>5, <1>6, <1>15, <1>16 DEF Aligned, G
<1> QED
  BY <1>17 DEF rest

LEMMA SendStep ==
    ASSUME IInv, DeviceSends
    PROVE  IInv'
<1>0. TypeOK /\ Flags /\ Whole /\ FramesInOrder /\ DamageArrived
  BY DEF IInv
<1> USE <1>0
<1>t. /\ wire \in Seq(Byte) /\ buffer_ \in Seq(Byte) /\ sent \in Seq(Frame)
      /\ handled \in Seq(Seq(Byte)) /\ state_ \in {"normal", "possible_stuff"}
  BY TypeFacts
<1>l. Len(handled) \in Nat /\ Len(sent) \in Nat /\ Len(buffer_) \in Nat /\ Len(wire) \in Nat
  BY <1>t, LenProperties
<1>1. PICK junk \in Junk, body \in Body, good \in BOOLEAN :
          /\ wire' = wire \o (junk \o DeviceFrame(body, good))
          /\ sent' = Append(sent, [body |-> body, good |-> good,
                                   upto |-> Total(sent) + Len(junk \o DeviceFrame(body, good))])
  BY DEF DeviceSends
<1>2. UNCHANGED <<buffer_, state_, end, pc, handled, open, late, cause>>
  BY DEF DeviceSends
<1> DEFINE bytes == junk \o DeviceFrame(body, good)
           r == [body |-> body, good |-> good, upto |-> Total(sent) + Len(bytes)]
<1>3. bytes \in Seq(Byte) /\ Len(bytes) \in Nat
  <2>1. bytes \in Seq(Byte)
    BY <1>1, EmptySeq, FrameDestuffed
  <2> QED
    BY <2>1, LenProperties
<1> HIDE DEF bytes
<1>4. r \in Frame /\ r.body = body /\ r.good = good /\ r.upto = Total(sent) + Len(bytes)
  <2>1. Total(sent) \in Nat
    BY <1>t, TotalType
  <2>2. Total(sent) + Len(bytes) \in Nat
    BY <1>3, <2>1
  <2> QED
    BY <1>1, <2>2 DEF Frame
<1>5. sent' = Append(sent, r) /\ wire' = wire \o bytes
  BY <1>1 DEF bytes
<1>6. /\ sent' \in Seq(Frame) /\ Len(sent') = Len(sent) + 1
      /\ \A i \in 1..Len(sent) : sent'[i] = sent[i]
  <2>1. Append(sent, r) \in Seq(Frame) /\ Grown(Append(sent, r), sent)
    BY <1>t, <1>4, AppendGrows
  <2> QED
    BY <1>5, <2>1 DEF Grown
<1> HIDE DEF r
<1>7. TypeOK'
  <2>1. wire' \in Seq(Byte)
    BY <1>t, <1>3, <1>5, ConcatProperties
  <2> QED
    BY <1>2, <1>6, <2>1 DEF TypeOK, Frame
<1>8. Flags'
  BY <1>2 DEF Flags, Live
<1>9. Whole'
  <2> SUFFICES ASSUME Live' PROVE Aligned(state_, buffer_, wire', sent', end, handled, cause, Idle)
    BY <1>2 DEF Whole, Idle
  <2>1. Aligned(state_, buffer_, wire, sent, end, handled, cause, Idle)
    BY <1>2 DEF Whole, Live
  <2>2. r.upto = Total(sent) + Len(junk \o DeviceFrame(r.body, r.good))
    BY <1>4 DEF bytes
  <2>3. Aligned(state_, buffer_, wire \o (junk \o DeviceFrame(r.body, r.good)), Append(sent, r), end, handled, cause, Idle)
    BY <1>t, <1>1, <1>4, <2>1, <2>2, AlignedSend
  <2> QED
    BY <1>4, <1>5, <2>3 DEF bytes
<1>11. DamageArrived'
  <2> SUFFICES ASSUME cause = "checksum" PROVE \E i \in Arrived' : ~sent'[i].good
    BY <1>2 DEF DamageArrived
  <2>1. PICK i \in Arrived : ~sent[i].good
    BY DEF DamageArrived
  <2>2. i \in 1..Len(sent) /\ sent[i].upto + Len(wire) <= Total(sent)
    BY DEF Arrived
  <2>3. i \in 1..Len(sent') /\ sent'[i] = sent[i]
    BY <1>l, <1>6, <2>2
  <2>4. Total(sent') = Total(sent) + Len(bytes) /\ Total(sent) \in Nat /\ sent[i].upto \in Nat
    <3>1. Last(sent') = r /\ sent' # <<>>
      <4>1. Append(sent, r)[Len(sent) + 1] = r
        BY <1>t, <1>4, AppendProperties
      <4> QED
        BY <1>l, <1>5, <1>6, <4>1, EmptySeq DEF Last
    <3>2. Total(sent') = r.upto
      BY <3>1 DEF Total
    <3>3. sent[i] \in Frame
      BY <1>t, <2>2, ElementOfSeq
    <3> QED
      BY <1>t, <1>4, <3>2, <3>3, TotalType DEF Frame
  <2>5. Len(wire') = Len(wire) + Len(bytes)
    BY <1>t, <1>3, <1>5, ConcatProperties
  <2>6. sent'[i].upto + Len(wire') <= Total(sent')
    BY <1>l, <1>3, <2>2, <2>3, <2>4, <2>5
  <2> QED
    BY <2>1, <2>3, <2>6 DEF Arrived
<1>10. FramesInOrder'
  <2>1. CASE cause = "handler"
    <3>1. ASSUME NEW i \in 1..Len(handled)
          PROVE  \E j \in 1..Len(sent') : sent'[j].good /\ sent'[j].body = handled[i]
      <4>1. PICK j \in 1..Len(sent) : sent[j].good /\ sent[j].body = handled[i]
        BY <2>1 DEF FramesInOrder
      <4>2. j \in 1..Len(sent') /\ sent'[j] = sent[j]
        BY <1>l, <1>6
      <4> QED
        BY <4>1, <4>2
    <3> QED
      BY <1>2, <2>1, <3>1 DEF FramesInOrder
  <2>2. CASE cause # "handler"
    <3>1. /\ Len(handled) <= Len(sent)
          /\ \A i \in 1..Len(handled) : sent[i].good /\ sent[i].body = handled[i]
      BY <2>2 DEF FramesInOrder
    <3>2. /\ Len(handled) <= Len(sent')
          /\ \A i \in 1..Len(handled) : i \in 1..Len(sent)
      BY <1>l, <1>6, <3>1
    <3>3. \A i \in 1..Len(handled) : sent'[i].good /\ sent'[i].body = handled[i]
      BY <1>6, <3>1, <3>2
    <3> QED
      BY <1>2, <2>2, <3>2, <3>3 DEF FramesInOrder
  <2> QED
    BY <2>1, <2>2
<1> QED
  BY <1>7, <1>8, <1>9, <1>10, <1>11 DEF IInv

\* Nothing changes for the frames that were handled.
LEMMA OrderKept ==
    ASSUME FramesInOrder, UNCHANGED <<sent, handled>>, cause = "handler" <=> cause' = "handler"
    PROVE  FramesInOrder'
  BY DEF FramesInOrder

LEMMA DamageKept ==
    ASSUME TypeOK, DamageArrived, sent' = sent, Len(wire') \in Nat, Len(wire') <= Len(wire),
           cause' = "checksum" => cause = "checksum"
    PROVE  DamageArrived'
<1> SUFFICES ASSUME cause = "checksum" PROVE \E i \in Arrived' : ~sent'[i].good
  BY DEF DamageArrived
<1>1. PICK i \in Arrived : ~sent[i].good
  BY DEF DamageArrived
<1>2. i \in 1..Len(sent) /\ sent[i].upto + Len(wire) <= Total(sent)
  BY DEF Arrived
<1>3. sent \in Seq(Frame) /\ wire \in Seq(Byte)
  BY TypeFacts
<1>4. sent[i] \in Frame /\ Len(wire) \in Nat
  BY <1>2, <1>3, ElementOfSeq, LenProperties
<1>5. sent[i].upto \in Nat /\ Total(sent) \in Nat
  BY <1>3, <1>4, TotalType DEF Frame
<1>6. sent[i].upto + Len(wire') <= Total(sent)
  BY <1>2, <1>4, <1>5
<1>7. i \in Arrived'
  BY <1>2, <1>6 DEF Arrived
<1> QED
  BY <1>1, <1>7

LEMMA ReceiveStep ==
    ASSUME IInv, Receive
    PROVE  IInv'
<1>0. TypeOK /\ Flags /\ Whole /\ FramesInOrder /\ DamageArrived
  BY DEF IInv
<1> USE <1>0
<1>t. /\ wire \in Seq(Byte) /\ buffer_ \in Seq(Byte) /\ sent \in Seq(Frame)
      /\ handled \in Seq(Seq(Byte)) /\ state_ \in {"normal", "possible_stuff"}
  BY TypeFacts
<1>l. Len(handled) \in Nat /\ Len(sent) \in Nat /\ Len(buffer_) \in Nat /\ Len(wire) \in Nat
  BY <1>t, LenProperties
<1>1. PICK n \in 1..Len(wire) :
          /\ wire' = SubSeq(wire, n + 1, Len(wire))
          /\ state_' = store_data(state_, buffer_, SubSeq(wire, 1, n)).state
          /\ buffer_' = store_data(state_, buffer_, SubSeq(wire, 1, n)).out
  BY DEF Receive
<1>2. /\ pc = "idle" /\ (open \/ late) /\ pc' = "scan" /\ end' = 0 /\ late' = FALSE
      /\ UNCHANGED <<sent, handled, open, cause>>
  BY DEF Receive
<1> DEFINE s == store_data(state_, buffer_, SubSeq(wire, 1, n))
<1>3. n \in 0..Len(wire)
  BY <1>l
<1>4. /\ s.state \in {"normal", "possible_stuff"} /\ s.out \in Seq(Byte)
      /\ SubSeq(wire, n + 1, Len(wire)) \in Seq(Byte)
      /\ Stream(s.state, s.out, SubSeq(wire, n + 1, Len(wire))) = Stream(state_, buffer_, wire)
  BY <1>t, <1>3, StreamRead
<1> HIDE DEF s
<1>5. state_' = s.state /\ buffer_' = s.out
  BY <1>1 DEF s
<1>6. Stream(state_', buffer_', wire') = Stream(state_, buffer_, wire)
  BY <1>1, <1>4, <1>5
<1>7. TypeOK'
  <2>1. buffer_' \in Seq(Byte) /\ Len(buffer_') \in Nat
    BY <1>4, <1>5, LenProperties
  <2>2. end' \in 0..Len(buffer_')
    BY <1>2, <2>1
  <2> QED
    BY <1>1, <1>2, <1>4, <1>5, <2>1, <2>2 DEF TypeOK
<1>8. Flags'
  BY <1>2 DEF Flags, Live
<1>9. end' = end
  BY <1>2 DEF Flags
<1>10. Aligned(state_, buffer_, wire, sent, end, handled, cause, Idle)
  BY <1>2 DEF Whole, Live
<1>a. PICK b, k, p : /\ Cut(sent, Stream(state_, buffer_, wire).out, b, p)
                     /\ k \in b..Len(sent) /\ p[k] = end /\ Reached(k, sent, handled, cause)
                     /\ Counted(state_, buffer_, wire, sent, b, p)
  BY <1>10 DEF Aligned
<1>w. Len(wire') \in Nat /\ Len(wire') <= Len(wire)
  <2>1. Len(SubSeq(wire, n + 1, Len(wire))) = Len(wire) - n
    BY <1>t, <1>3
  <2> QED
    BY <1>l, <1>1, <1>3, <2>1
<1>c. Counted(state_', buffer_', wire', sent, b, p)
  <2>1. \A i \in 1..Len(sent) : sent[i].upto <= Total(sent)
    BY <1>a DEF Counted
  <2>2. \A i \in 1..Len(sent) : Total(sent) - sent[i].upto \in Nat
    <3>1. ASSUME NEW i \in 1..Len(sent) PROVE Total(sent) - sent[i].upto \in Nat
      <4>1. sent[i] \in Frame
        BY <1>t, ElementOfSeq
      <4>2. sent[i].upto \in Nat /\ Total(sent) \in Nat /\ sent[i].upto <= Total(sent)
        BY <1>t, <2>1, <4>1, TotalType DEF Frame
      <4> QED
        BY <4>2
    <3> QED
      BY <3>1
  <2>3. b \in 0..Len(sent) /\ p \in [b..Len(sent) -> 0..Len(Stream(state_, buffer_, wire).out)]
    BY <1>a DEF Cut
  <2>4. ASSUME NEW i \in 1..b PROVE Len(wire') <= Total(sent) - sent[i].upto
    <3>1. Len(wire) <= Total(sent) - sent[i].upto /\ i \in 1..Len(sent)
      BY <1>l, <1>a, <2>3 DEF Counted
    <3>2. Total(sent) - sent[i].upto \in Nat
      BY <2>2, <3>1
    <3> QED
      BY <1>l, <1>w, <3>1, <3>2
  <2>5. ASSUME NEW i \in b + 1..Len(sent) PROVE Ends(state_', buffer_', wire', Total(sent) - sent[i].upto, p[i])
    <3> DEFINE t == Total(sent) - sent[i].upto
               v == p[i]
               w == SubSeq(wire, n + 1, Len(wire))
    <3>1. i \in 1..Len(sent) /\ i \in b..Len(sent)
      BY <1>l, <2>3
    <3>2. t \in Nat /\ Ends(state_, buffer_, wire, t, v)
      BY <1>a, <2>2, <3>1 DEF Counted
    <3>3. v \in Nat
      <4>1. v \in 0..Len(Stream(state_, buffer_, wire).out)
        BY <2>3, <3>1
      <4> QED
        BY <4>1
    <3> HIDE DEF t, v
    <3>4. Ends(s.state, s.out, SubSeq(wire, n + 1, Len(wire)), t, v)
      BY <1>t, <1>3, <3>2, <3>3, EndsRead DEF s
    <3> QED
      BY <1>1, <1>5, <3>4 DEF t, v
  <2> QED
    BY <2>1, <2>4, <2>5 DEF Counted
<1>11. Aligned(state_', buffer_', wire', sent', end', handled', cause', Idle')
  <2>1. Waits(buffer_', sent, k, p, Idle')
    BY <1>2 DEF Waits, Idle
  <2>2. Stream(state_, buffer_, wire).state = "normal"
    BY <1>10 DEF Aligned
  <2> QED
    BY <1>2, <1>6, <1>9, <1>a, <1>c, <2>1, <2>2 DEF Aligned
<1>d. DamageArrived'
  BY <1>2, <1>w, DamageKept
<1>12. FramesInOrder'
  BY <1>2, OrderKept
<1> QED
  BY <1>7, <1>8, <1>11, <1>12, <1>d DEF IInv, Whole

LEMMA FullReadStep ==
    ASSUME IInv, FullRead
    PROVE  IInv'
<1>0. TypeOK /\ Flags /\ Whole /\ FramesInOrder /\ DamageArrived
  BY DEF IInv
<1> USE <1>0
<1>t. /\ wire \in Seq(Byte) /\ buffer_ \in Seq(Byte) /\ sent \in Seq(Frame)
      /\ handled \in Seq(Seq(Byte)) /\ state_ \in {"normal", "possible_stuff"}
  BY TypeFacts
<1>l. Len(handled) \in Nat /\ Len(sent) \in Nat /\ Len(buffer_) \in Nat /\ Len(wire) \in Nat
  BY <1>t, LenProperties
<1>1. /\ pc = "idle" /\ pc' = "idle" /\ open' = FALSE /\ late' = FALSE
      /\ wire' = SubSeq(wire, ReadSize + 1, Len(wire)) /\ Len(wire) >= ReadSize
      /\ cause' = IF open THEN "full read" ELSE cause
      /\ UNCHANGED <<sent, buffer_, state_, end, handled>>
  BY DEF FullRead
<1>2. TypeOK'
  <2>1. ReadSize \in Nat
    BY BoundsAssumption
  <2>2. ReadSize \in 0..Len(wire)
    <3>1. Len(wire) >= ReadSize
      BY <1>1
    <3> QED
      BY <1>l, <2>1, <3>1
  <2>3. wire' \in Seq(Byte)
    BY <1>t, <1>1, <2>2, SubSeqSplit
  <2> QED
    BY <1>1, <2>3 DEF TypeOK
<1>3. ~Live'
  BY <1>1 DEF Live
<1>4. Flags'
  <2>1. cause' # "none"
    BY <1>1 DEF Flags
  <2> QED
    BY <1>1, <1>3, <2>1 DEF Flags
<1>5. FramesInOrder'
  BY <1>1, OrderKept DEF Flags
<1>6. DamageArrived'
  <2>1. ReadSize \in Nat
    BY BoundsAssumption
  <2>2. Len(wire) >= ReadSize
    BY <1>1
  <2>3. Len(SubSeq(wire, ReadSize + 1, Len(wire))) = Len(wire) - ReadSize
    BY <1>t, <1>l, <2>1, <2>2
  <2>4. Len(wire') \in Nat /\ Len(wire') <= Len(wire)
    <3>1. Len(wire) - ReadSize \in Nat /\ Len(wire) - ReadSize <= Len(wire)
      BY <1>l, <2>1, <2>2
    <3>2. Len(wire') = Len(wire) - ReadSize
      BY <1>1, <2>3
    <3> QED
      BY <3>1, <3>2
  <2>5. cause' = "checksum" => cause = "checksum"
    BY <1>1
  <2> QED
    BY <1>1, <2>4, <2>5, DamageKept
<1> QED
  BY <1>2, <1>3, <1>4, <1>5, <1>6 DEF IInv, Whole

\* The loop stands before frame k + 1, and that frame is complete.
AtFrame(b, k, p) ==
    /\ Stream(state_, buffer_, wire).state = "normal"
    /\ Cut(sent, Stream(state_, buffer_, wire).out, b, p)
    /\ k \in b..Len(sent) /\ p[k] = end
    /\ Reached(k, sent, handled, cause)
    /\ Counted(state_, buffer_, wire, sent, b, p)
    /\ k \in Nat /\ b \in Nat /\ k + 1 \in 1..Len(sent) /\ k + 1 \in b..Len(sent)
    /\ Found(sent[k + 1], p[k + 1])

LEMMA ScanFinds ==
    ASSUME IInv, pc = "scan", FrameComplete
    PROVE  \E b, k, p : AtFrame(b, k, p)
<1>0. TypeOK /\ Whole
  BY DEF IInv
<1>t. /\ wire \in Seq(Byte) /\ buffer_ \in Seq(Byte) /\ sent \in Seq(Frame)
      /\ state_ \in {"normal", "possible_stuff"} /\ end \in 0..Len(buffer_)
  BY <1>0, TypeFacts
<1>l. Len(sent) \in Nat /\ Len(buffer_) \in Nat /\ end \in Nat
  BY <1>t, LenProperties
<1> DEFINE F == Stream(state_, buffer_, wire).out
<1>1. Aligned(state_, buffer_, wire, sent, end, handled, cause, Idle)
  BY <1>0 DEF Whole, Live
<1>2. PICK b, k, p : /\ Cut(sent, F, b, p) /\ k \in b..Len(sent) /\ p[k] = end /\ Reached(k, sent, handled, cause)
                     /\ Counted(state_, buffer_, wire, sent, b, p)
  BY <1>1 DEF Aligned
<1>3. /\ F \in Seq(Byte) /\ Len(F) \in Nat /\ Len(buffer_) <= Len(F)
      /\ \A m \in 1..Len(buffer_) : F[m] = buffer_[m]
  BY <1>t, StreamFacts
<1> HIDE DEF F
<1>4. /\ b \in 0..Len(sent)
      /\ p \in [b..Len(sent) -> 0..Len(F)]
      /\ p[Len(sent)] = Len(F)
      /\ \A i \in b + 1..Len(sent) : Piece(F, p[i - 1], p[i], sent[i])
  BY <1>2 DEF Cut
<1>5. b \in Nat /\ k \in Nat /\ b <= k /\ k <= Len(sent)
  BY <1>l, <1>2, <1>4
<1>6. k # Len(sent)
  <2> SUFFICES ASSUME k = Len(sent) PROVE FALSE
    OBVIOUS
  <2>1. end = Len(F)
    BY <1>2, <1>4
  <2>2. start \in end + 1..Len(buffer_)
    BY <1>t, StartFacts DEF FrameComplete
  <2> HIDE DEF start
  <2> QED
    BY <1>l, <1>3, <2>1, <2>2
<1>7. /\ k + 1 \in 1..Len(sent) /\ k + 1 \in b + 1..Len(sent) /\ k + 1 \in b..Len(sent)
      /\ (k + 1) - 1 = k
  BY <1>l, <1>5, <1>6
<1> DEFINE v == p[k + 1]
           r == sent[k + 1]
<1>8. v \in Nat /\ r \in Frame
  <2>1. v \in 0..Len(F)
    BY <1>4, <1>7
  <2>2. v \in Nat
    BY <1>3, <2>1
  <2>3. r \in Frame
    BY <1>t, <1>7
  <2> QED
    BY <2>2, <2>3
<1>9. Piece(F, end, v, r)
  <2>1. Piece(F, p[(k + 1) - 1], p[k + 1], sent[k + 1])
    BY <1>4, <1>7
  <2> QED
    BY <1>2, <1>7, <2>1
<1> HIDE DEF v, r
<1>10. Found(r, v)
  BY <1>t, <1>3, <1>8, <1>9, FrameFound
<1>11. AtFrame(b, k, p)
  BY <1>1, <1>2, <1>5, <1>7, <1>10 DEF AtFrame, Aligned, F, v, r
<1> QED
  BY <1>11

\* A frame that passes the check is the next one, good, and sent before.
LEMMA ProcessedInOrder ==
    ASSUME IInv, pc = "scan", FrameComplete, check_crc, NEW b, NEW k, NEW p, AtFrame(b, k, p),
           handled' = Append(handled, FrameBody)
    PROVE  /\ cause \in {"none", "handler"}
           /\ handled' \in Seq(Seq(Byte)) /\ Len(handled') = Len(handled) + 1
           /\ \A i \in 1..Len(handled') : \E j \in 1..Len(sent) : sent[j].good /\ sent[j].body = handled'[i]
           /\ cause # "handler" => /\ Len(handled') <= Len(sent)
                                   /\ \A i \in 1..Len(handled') : sent[i].good /\ sent[i].body = handled'[i]
<1>0. TypeOK /\ Flags /\ FramesInOrder
  BY DEF IInv
<1>t. /\ sent \in Seq(Frame) /\ handled \in Seq(Seq(Byte))
      /\ cause \in {"none", "handler", "checksum", "full read"}
  BY <1>0, TypeFacts
<1>l. Len(sent) \in Nat /\ Len(handled) \in Nat
  BY <1>t, LenProperties
<1> DEFINE r == sent[k + 1]
<1>1. k \in Nat /\ k + 1 \in 1..Len(sent) /\ FrameBody = r.body /\ r.good /\ Reached(k, sent, handled, cause)
  BY DEF AtFrame, Found
<1>2. r \in Frame
  BY <1>t, <1>1, ElementOfSeq
<1>3. r.body \in Seq(Byte)
  <2>1. r.body \in Body
    BY <1>2, FrameType
  <2> QED
    BY <2>1, ContentType
<1>4. cause \in {"none", "handler"}
  <2>1. cause # "checksum"
    BY <1>1 DEF Reached
  <2>2. cause # "full read"
    BY <1>0 DEF Flags, Live
  <2> QED
    BY <1>t, <2>1, <2>2
<1>5. handled' = Append(handled, r.body)
  BY <1>1
<1>6. /\ handled' \in Seq(Seq(Byte)) /\ Len(handled') = Len(handled) + 1
      /\ \A i \in 1..Len(handled) : handled'[i] = handled[i]
      /\ handled'[Len(handled) + 1] = r.body
  <2>1. Append(handled, r.body) \in Seq(Seq(Byte)) /\ Grown(Append(handled, r.body), handled)
    BY <1>t, <1>3, AppendGrows
  <2>2. Append(handled, r.body)[Len(handled) + 1] = r.body
    BY <1>t, <1>3, AppendProperties
  <2> QED
    BY <1>5, <2>1, <2>2 DEF Grown
<1>7. \A i \in 1..Len(handled') : i \in 1..Len(handled) \/ i = Len(handled) + 1
  BY <1>l, <1>6
<1>8. \A i \in 1..Len(handled) : \E j \in 1..Len(sent) : sent[j].good /\ sent[j].body = handled[i]
  <2>1. CASE cause = "handler"
    BY <1>0, <2>1 DEF FramesInOrder
  <2>2. CASE cause # "handler"
    <3>1. /\ Len(handled) <= Len(sent)
          /\ \A i \in 1..Len(handled) : sent[i].good /\ sent[i].body = handled[i]
      BY <1>0, <2>2 DEF FramesInOrder
    <3>2. \A i \in 1..Len(handled) : i \in 1..Len(sent)
      BY <1>l, <3>1
    <3> QED
      BY <3>1, <3>2
  <2> QED
    BY <2>1, <2>2
<1>9. \A i \in 1..Len(handled') : \E j \in 1..Len(sent) : sent[j].good /\ sent[j].body = handled'[i]
  <2>1. ASSUME NEW i \in 1..Len(handled')
        PROVE  \E j \in 1..Len(sent) : sent[j].good /\ sent[j].body = handled'[i]
    <3>1. CASE i \in 1..Len(handled)
      BY <1>6, <1>8, <3>1
    <3>2. CASE i = Len(handled) + 1
      BY <1>1, <1>6, <3>2
    <3> QED
      BY <1>7, <2>1, <3>1, <3>2
  <2> QED
    BY <2>1
<1>10. ASSUME cause # "handler"
       PROVE  /\ Len(handled') <= Len(sent)
              /\ \A i \in 1..Len(handled') : sent[i].good /\ sent[i].body = handled'[i]
  <2>1. k = Len(handled)
    BY <1>1, <1>10 DEF Reached
  <2>2. \A i \in 1..Len(handled) : sent[i].good /\ sent[i].body = handled[i]
    BY <1>0, <1>10 DEF FramesInOrder
  <2>3. Len(handled') <= Len(sent)
    BY <1>l, <1>1, <1>6, <2>1
  <2>4. ASSUME NEW i \in 1..Len(handled') PROVE sent[i].good /\ sent[i].body = handled'[i]
    <3>1. CASE i \in 1..Len(handled)
      BY <1>6, <2>2, <3>1
    <3>2. CASE i = Len(handled) + 1
      BY <1>1, <1>6, <2>1, <3>2
    <3> QED
      BY <1>7, <2>4, <3>1, <3>2
  <2> QED
    BY <2>3, <2>4
<1> QED
  BY <1>4, <1>6, <1>9, <1>10

LEMMA ProcessStep ==
    ASSUME IInv, ProcessMessage
    PROVE  IInv'
<1>0. TypeOK /\ Flags /\ Whole /\ FramesInOrder /\ DamageArrived
  BY DEF IInv
<1>1. /\ pc = "scan" /\ FrameComplete /\ check_crc
      /\ handled' = Append(handled, FrameBody)
      /\ end' = start + full_length - 1
      /\ UNCHANGED <<wire, sent, buffer_, state_, pc, open, late, cause>>
  BY DEF ProcessMessage
<1>2. PICK b, k, p : AtFrame(b, k, p)
  BY <1>1, ScanFinds
<1>3. /\ cause \in {"none", "handler"}
      /\ handled' \in Seq(Seq(Byte)) /\ Len(handled') = Len(handled) + 1
      /\ \A i \in 1..Len(handled') : \E j \in 1..Len(sent) : sent[j].good /\ sent[j].body = handled'[i]
      /\ cause # "handler" => /\ Len(handled') <= Len(sent)
                              /\ \A i \in 1..Len(handled') : sent[i].good /\ sent[i].body = handled'[i]
  BY <1>1, <1>2, ProcessedInOrder
<1> DEFINE F == Stream(state_, buffer_, wire).out
<1>4. /\ Cut(sent, F, b, p) /\ k \in Nat /\ k + 1 \in b..Len(sent) /\ Stream(state_, buffer_, wire).state = "normal"
      /\ Counted(state_, buffer_, wire, sent, b, p)
      /\ Reached(k, sent, handled, cause) /\ end' = p[k + 1] /\ p[k + 1] <= Len(buffer_)
  BY <1>1, <1>2 DEF AtFrame, Found
<1>5. TypeOK'
  <2>1. end' \in Nat
    <3>1. p \in [b..Len(sent) -> 0..Len(F)]
      BY <1>4 DEF Cut
    <3>2. p[k + 1] \in 0..Len(F)
      BY <1>4, <3>1
    <3> QED
      BY <1>4, <3>2
  <2>2. Len(buffer_) \in Nat
    BY <1>0, TypeFacts
  <2>3. end' \in 0..Len(buffer_)
    BY <1>4, <2>1, <2>2
  <2> QED
    BY <1>0, <1>1, <1>3, <2>3 DEF TypeOK
<1>6. Flags'
  BY <1>0, <1>1 DEF Flags, Live
<1>7. Aligned(state_', buffer_', wire', sent', end', handled', cause', Idle')
  <2>1. Reached(k + 1, sent, handled', cause)
    <3>1. cause # "checksum"
      BY <1>3
    <3>2. cause # "handler" => k + 1 = Len(handled')
      BY <1>3, <1>4 DEF Reached
    <3> QED
      BY <3>1, <3>2 DEF Reached
  <2> HIDE DEF F
  <2>3. Waits(buffer_, sent, k + 1, p, Idle')
    BY <1>1 DEF Waits, Idle
  <2>2. Aligned(state_, buffer_, wire, sent, end', handled', cause, Idle')
    BY <1>4, <2>1, <2>3 DEF Aligned, F
  <2> QED
    BY <1>1, <2>2
<1>8. FramesInOrder'
  BY <1>1, <1>3 DEF FramesInOrder
<1>9. DamageArrived'
  BY <1>1, <1>3 DEF DamageArrived
<1> QED
  BY <1>5, <1>6, <1>7, <1>8, <1>9 DEF IInv, Whole

LEMMA ThrowStep ==
    ASSUME IInv, HandlerThrows
    PROVE  IInv'
<1>0. TypeOK /\ Flags /\ Whole /\ FramesInOrder /\ DamageArrived
  BY DEF IInv
<1>1. /\ pc = "scan" /\ FrameComplete /\ check_crc
      /\ handled' = Append(handled, FrameBody)
      /\ pc' = "idle" /\ end' = 0
      /\ UNCHANGED <<wire, sent, buffer_, state_>>
  BY DEF HandlerThrows
<1>2. /\ open' = FALSE /\ late' \in {FALSE, open /\ wire # <<>>}
      /\ cause' = IF open THEN "handler" ELSE cause
  BY DEF HandlerThrows, Stop
<1>3. PICK b, k, p : AtFrame(b, k, p)
  BY <1>1, ScanFinds
<1>4. /\ cause \in {"none", "handler"}
      /\ handled' \in Seq(Seq(Byte)) /\ Len(handled') = Len(handled) + 1
      /\ \A i \in 1..Len(handled') : \E j \in 1..Len(sent) : sent[j].good /\ sent[j].body = handled'[i]
  BY <1>1, <1>3, ProcessedInOrder
<1>5. cause' = "handler"
  BY <1>0, <1>2, <1>4 DEF Flags
<1>6. TypeOK'
  <2>1. Len(buffer_) \in Nat /\ open \in BOOLEAN
    BY <1>0, TypeFacts
  <2>2. 0 \in 0..Len(buffer_)
    BY <2>1
  <2>3. late' \in BOOLEAN
    BY <1>2, <2>1
  <2> QED
    BY <1>0, <1>1, <1>2, <1>4, <1>5, <2>2, <2>3 DEF TypeOK
<1>7. Flags'
  BY <1>1, <1>2, <1>5 DEF Flags
<1>8. Aligned(state_', buffer_', wire', sent', end', handled', cause', Idle')
  <2> DEFINE F == Stream(state_, buffer_, wire).out
  <2>1. /\ Cut(sent, F, b, p) /\ Stream(state_, buffer_, wire).state = "normal"
        /\ Counted(state_, buffer_, wire, sent, b, p)
    BY <1>3 DEF AtFrame
  <2>2. b \in 0..Len(sent) /\ p[b] = 0
    BY <2>1 DEF Cut
  <2>3. b \in b..Len(sent)
    <3>1. Len(sent) \in Nat
      BY <1>0, TypeFacts
    <3> QED
      BY <2>2, <3>1
  <2>4. Reached(b, sent, handled', "handler")
    BY DEF Reached
  <2> HIDE DEF F
  <2>6. Waits(buffer_, sent, b, p, Idle')
    BY <1>2 DEF Waits, Idle
  <2>5. Aligned(state_, buffer_, wire, sent, 0, handled', "handler", Idle')
    BY <2>1, <2>2, <2>3, <2>4, <2>6 DEF Aligned, F
  <2> QED
    BY <1>1, <1>5, <2>5
<1>9. FramesInOrder'
  BY <1>1, <1>4, <1>5 DEF FramesInOrder
<1>10. DamageArrived'
  BY <1>5 DEF DamageArrived
<1> QED
  BY <1>6, <1>7, <1>8, <1>9, <1>10 DEF IInv, Whole

\* What the end of recive_impl does with a buffer whose frames before end are
\* processed.
LEMMA Erased ==
    ASSUME IInv, EraseProcessed, pc = "scan",
           UNCHANGED <<wire, sent, state_, handled>>,
           NEW b, NEW k, NEW p, NEW c, NEW idle,
           Stream(state_, buffer_, wire).state = "normal",
           Cut(sent, Stream(state_, buffer_, wire).out, b, p),
           k \in b..Len(sent), p[k] = end, Reached(k, sent, handled, c),
           Counted(state_, buffer_, wire, sent, b, p), Waits(buffer_, sent, k, p, idle)
    PROVE  /\ buffer_' \in Seq(Byte) /\ end' \in 0..Len(buffer_') /\ end' = 0 /\ pc' = "idle"
           /\ Aligned(state_', buffer_', wire', sent', end', handled', c, idle)
<1>0. TypeOK
  BY DEF IInv
<1>t. /\ wire \in Seq(Byte) /\ buffer_ \in Seq(Byte) /\ sent \in Seq(Frame)
      /\ state_ \in {"normal", "possible_stuff"} /\ end \in 0..Len(buffer_)
  BY <1>0, TypeFacts
<1>1. buffer_' = SubSeq(buffer_, end + 1, Len(buffer_)) /\ end' = 0 /\ pc' = "idle"
  BY DEF EraseProcessed
<1>2. buffer_' \in Seq(Byte)
  BY <1>t, <1>1, SubSeqSplit
<1>3. end' \in 0..Len(buffer_')
  <2>1. Len(buffer_') \in Nat
    BY <1>2, LenProperties
  <2>2. 0 \in 0..Len(buffer_')
    BY <2>1
  <2> QED
    BY <1>1, <2>2
<1>4. Aligned(state_, SubSeq(buffer_, p[k] + 1, Len(buffer_)), wire, sent, 0, handled, c, idle)
  BY <1>t, AlignedErase
<1>5. Aligned(state_', buffer_', wire', sent', end', handled', c, idle)
  BY <1>1, <1>4
<1> QED
  BY <1>1, <1>2, <1>3, <1>5

\* A frame that is in the buffer whole has arrived, the others have not.
LEMMA StoredArrived ==
    ASSUME TypeOK, NEW b, NEW p,
           Cut(sent, Stream(state_, buffer_, wire).out, b, p), Counted(state_, buffer_, wire, sent, b, p),
           NEW i \in 1..Len(sent)
    PROVE  i \in Arrived <=> (i \in 1..b \/ p[i] <= Len(buffer_))
<1> DEFINE t == Total(sent) - sent[i].upto
           F == Stream(state_, buffer_, wire).out
<1>1. /\ wire \in Seq(Byte) /\ buffer_ \in Seq(Byte) /\ sent \in Seq(Frame)
      /\ state_ \in {"normal", "possible_stuff"}
  BY TypeFacts
<1>2. Len(wire) \in Nat /\ Len(sent) \in Nat
  BY <1>1, LenProperties
<1>3. sent[i].upto \in Nat /\ Total(sent) \in Nat /\ sent[i].upto <= Total(sent)
  <2>1. sent[i] \in Frame
    BY <1>1, ElementOfSeq
  <2> QED
    BY <1>1, <2>1, TotalType DEF Frame, Counted
<1>4. t \in Nat /\ (sent[i].upto + Len(wire) <= Total(sent) <=> Len(wire) <= t)
  BY <1>2, <1>3
<1>5. i \in Arrived <=> Len(wire) <= t
  BY <1>4 DEF Arrived
<1>6. b \in 0..Len(sent) /\ p \in [b..Len(sent) -> 0..Len(F)]
  BY DEF Cut
<1>7. CASE i \in 1..b
  BY <1>5, <1>7 DEF Counted
<1>8. CASE ~(i \in 1..b)
  <2>1. i \in b + 1..Len(sent) /\ i \in b..Len(sent)
    BY <1>2, <1>6, <1>8
  <2>2. Ends(state_, buffer_, wire, t, p[i])
    BY <2>1 DEF Counted
  <2>3. p[i] \in Nat
    <3>1. p[i] \in 0..Len(F)
      BY <1>6, <2>1
    <3> QED
      BY <3>1
  <2> HIDE DEF t
  <2>4. p[i] <= Len(buffer_) <=> Len(wire) <= t
    BY <1>1, <1>4, <2>2, <2>3, EndsMeans
  <2> QED
    BY <1>5, <1>8, <2>4
<1> QED
  BY <1>7, <1>8

LEMMA ChecksumStep ==
    ASSUME IInv, ChecksumError
    PROVE  IInv'
<1>0. TypeOK /\ Flags /\ Whole /\ FramesInOrder /\ DamageArrived
  BY DEF IInv
<1>1. /\ pc = "scan" /\ FrameComplete /\ ~check_crc /\ EraseProcessed
      /\ UNCHANGED <<wire, sent, state_, handled>>
  BY DEF ChecksumError
<1>2. /\ open' = FALSE /\ late' \in {FALSE, open /\ wire # <<>>}
      /\ cause' = IF open THEN "checksum" ELSE cause
  BY DEF ChecksumError, Stop
<1>3. PICK b, k, p : AtFrame(b, k, p)
  BY <1>1, ScanFinds
<1>4. /\ Stream(state_, buffer_, wire).state = "normal"
      /\ Cut(sent, Stream(state_, buffer_, wire).out, b, p)
      /\ k \in b..Len(sent) /\ p[k] = end /\ Reached(k, sent, handled, cause)
      /\ Counted(state_, buffer_, wire, sent, b, p)
      /\ k \in Nat /\ b \in Nat /\ k + 1 \in 1..Len(sent) /\ k + 1 \in b..Len(sent)
      /\ ~sent[k + 1].good /\ p[k + 1] <= Len(buffer_)
  BY <1>1, <1>3 DEF AtFrame, Found
<1>5. cause' # "none" /\ cause' # "full read" /\ (cause' = "handler" <=> cause = "handler")
  BY <1>0, <1>1, <1>2 DEF Flags, Live
<1>6. Reached(k, sent, handled, cause')
  <2>1. k < Len(sent)
    <3>1. Len(sent) \in Nat
      BY <1>0, TypeFacts
    <3> QED
      BY <1>4, <3>1
  <2> QED
    BY <1>4, <1>5, <2>1 DEF Reached
<1>7. /\ buffer_' \in Seq(Byte) /\ end' \in 0..Len(buffer_') /\ end' = 0 /\ pc' = "idle"
      /\ Aligned(state_', buffer_', wire', sent', end', handled', cause', Idle')
  <2>1. Waits(buffer_, sent, k, p, Idle')
    BY <1>2 DEF Waits, Idle
  <2> QED
    BY <1>1, <1>4, <1>6, <2>1, Erased
<1>8. TypeOK'
  <2>1. late' \in BOOLEAN
    BY <1>0, <1>2, TypeFacts
  <2>2. cause' \in {"none", "handler", "checksum", "full read"}
    BY <1>0, <1>2, TypeFacts
  <2> QED
    BY <1>0, <1>1, <1>2, <1>7, <2>1, <2>2 DEF TypeOK
<1>9. Flags'
  BY <1>2, <1>5, <1>7 DEF Flags
<1>10. FramesInOrder'
  BY <1>0, <1>1, <1>5, OrderKept
<1>11. DamageArrived'
  <2>1. k + 1 \in Arrived
    BY <1>0, <1>4, StoredArrived
  <2>2. k + 1 \in Arrived'
    BY <1>1, <2>1 DEF Arrived
  <2> QED
    BY <1>1, <1>4, <2>2 DEF DamageArrived
<1> QED
  BY <1>7, <1>8, <1>9, <1>10, <1>11 DEF IInv, Whole

\* The loop ends only when the next frame is not whole.
LEMMA FrameMissing ==
    ASSUME TypeOK, ~FrameComplete, NEW b, NEW k, NEW p,
           Cut(sent, Stream(state_, buffer_, wire).out, b, p),
           k \in b..Len(sent), p[k] = end
    PROVE  k = Len(sent) \/ Len(buffer_) < p[k + 1]
<1>t. /\ wire \in Seq(Byte) /\ buffer_ \in Seq(Byte) /\ sent \in Seq(Frame)
      /\ state_ \in {"normal", "possible_stuff"} /\ end \in 0..Len(buffer_)
  BY TypeFacts
<1>l. Len(sent) \in Nat /\ Len(buffer_) \in Nat /\ end \in Nat
  BY <1>t, LenProperties
<1> SUFFICES ASSUME k # Len(sent), ~(Len(buffer_) < p[k + 1]) PROVE FALSE
  OBVIOUS
<1> DEFINE F == Stream(state_, buffer_, wire).out
           v == p[k + 1]
           r == sent[k + 1]
<1>1. F \in Seq(Byte) /\ Len(F) \in Nat /\ \A m \in 1..Len(buffer_) : F[m] = buffer_[m]
  BY <1>t, StreamFacts
<1> HIDE DEF F
<1>2. /\ b \in 0..Len(sent)
      /\ p \in [b..Len(sent) -> 0..Len(F)]
      /\ \A i \in b + 1..Len(sent) : Piece(F, p[i - 1], p[i], sent[i])
  BY DEF Cut, F
<1>3. k + 1 \in 1..Len(sent) /\ k + 1 \in b + 1..Len(sent) /\ k + 1 \in b..Len(sent) /\ (k + 1) - 1 = k
  BY <1>l, <1>2
<1>4. Piece(F, end, v, r)
  <2>1. Piece(F, p[(k + 1) - 1], p[k + 1], sent[k + 1])
    BY <1>2, <1>3
  <2> QED
    BY <1>3, <2>1
<1>5. v \in Nat /\ r \in Frame
  <2>1. v \in 0..Len(F)
    BY <1>2, <1>3
  <2>2. r \in Frame
    BY <1>t, <1>3, ElementOfSeq
  <2> QED
    BY <2>1, <2>2
<1>6. v <= Len(buffer_)
  BY <1>l, <1>5
<1> HIDE DEF v, r
<1>7. FrameComplete
  BY <1>t, <1>1, <1>4, <1>5, <1>6, FrameThere
<1> QED
  BY <1>7

LEMMA LoopEndsStep ==
    ASSUME IInv, LoopEnds
    PROVE  IInv'
<1>0. TypeOK /\ Flags /\ Whole /\ FramesInOrder /\ DamageArrived
  BY DEF IInv
<1>1. /\ pc = "scan" /\ EraseProcessed /\ ~FrameComplete
      /\ UNCHANGED <<wire, sent, state_, handled, open, late, cause>>
  BY DEF LoopEnds
<1>2. Aligned(state_, buffer_, wire, sent, end, handled, cause, Idle)
  BY <1>0, <1>1 DEF Whole, Live
<1>3. PICK b, k, p : /\ Cut(sent, Stream(state_, buffer_, wire).out, b, p)
                     /\ k \in b..Len(sent) /\ p[k] = end /\ Reached(k, sent, handled, cause)
                     /\ Counted(state_, buffer_, wire, sent, b, p)
  BY <1>2 DEF Aligned
<1>4. Stream(state_, buffer_, wire).state = "normal"
  BY <1>2 DEF Aligned
<1>5. /\ buffer_' \in Seq(Byte) /\ end' \in 0..Len(buffer_') /\ end' = 0 /\ pc' = "idle"
      /\ Aligned(state_', buffer_', wire', sent', end', handled', cause, Idle')
  <2>1. k = Len(sent) \/ Len(buffer_) < p[k + 1]
    BY <1>0, <1>1, <1>3, FrameMissing
  <2>2. Waits(buffer_, sent, k, p, Idle')
    BY <2>1 DEF Waits
  <2> QED
    BY <1>1, <1>3, <1>4, <2>2, Erased
<1>6. TypeOK'
  BY <1>0, <1>1, <1>5 DEF TypeOK
<1>7. Flags'
  BY <1>0, <1>1, <1>5 DEF Flags, Live
<1>8. FramesInOrder'
  BY <1>0, <1>1, OrderKept
<1>9. DamageArrived'
  BY <1>0, <1>1 DEF DamageArrived, Arrived
<1> QED
  BY <1>1, <1>5, <1>6, <1>7, <1>8, <1>9 DEF IInv, Whole

LEMMA StepInv ==
    IInv /\ [Next]_vars => IInv'
<1> SUFFICES ASSUME IInv, [Next]_vars PROVE IInv'
  OBVIOUS
<1>1. CASE DeviceSends
  BY <1>1, SendStep
<1>2. CASE Receive
  BY <1>2, ReceiveStep
<1>3. CASE FullRead
  BY <1>3, FullReadStep
<1>4. CASE ProcessMessage
  BY <1>4, ProcessStep
<1>5. CASE HandlerThrows
  BY <1>5, ThrowStep
<1>6. CASE ChecksumError
  BY <1>6, ChecksumStep
<1>7. CASE LoopEnds
  BY <1>7, LoopEndsStep
<1>8. CASE UNCHANGED vars
  BY <1>8 DEF vars, IInv, TypeOK, Flags, Whole, Live, Idle, FramesInOrder, DamageArrived, Arrived
<1> QED
  BY <1>1, <1>2, <1>3, <1>4, <1>5, <1>6, <1>7, <1>8 DEF Next

LEMMA Inductive ==
    Spec => []IInv
  BY InitInv, StepInv, PTL DEF Spec

-----------------------------------------------------------------------------
(* The theorems.                                                           *)

\* The state of the receiving side has its types: the position end of the
\* processed bytes never leaves the buffer (recive_impl, protocol.cpp
\* 189-258).
THEOREM TypeCorrect == Spec => []TypeOK
  BY Inductive, PTL DEF IInv

\* Whatever the reads cut the stream into, process_message sees the frames of
\* the device, whole, in order and once, up to the first damaged one
\* (recive_impl and store_data, protocol.cpp 189-258 and 525-557).
THEOREM InOrder == Spec => []FramesInOrder
  BY Inductive, PTL DEF IInv

LEMMA InvDecodes ==
    IInv => AnswersDecode
<1> SUFFICES ASSUME IInv PROVE AnswersDecode
  OBVIOUS
<1>0. TypeOK /\ FramesInOrder
  BY DEF IInv
<1>t. handled \in Seq(Seq(Byte)) /\ sent \in Seq(Frame) /\ Len(handled) \in Nat /\ Len(sent) \in Nat
  BY <1>0, TypeFacts
<1>1. ASSUME NEW i \in 1..Len(handled) PROVE handled[i] \in Body
  <2>1. PICK j \in 1..Len(sent) : sent[j].body = handled[i]
    <3>1. CASE cause = "handler"
      BY <1>0, <3>1 DEF FramesInOrder
    <3>2. CASE cause # "handler"
      <4>1. Len(handled) <= Len(sent) /\ sent[i].body = handled[i]
        BY <1>0, <3>2 DEF FramesInOrder
      <4>2. i \in 1..Len(sent)
        BY <1>t, <4>1
      <4> QED
        BY <4>1, <4>2
    <3> QED
      BY <3>1, <3>2
  <2>2. sent[j] \in Frame
    BY <1>t, ElementOfSeq
  <2>3. sent[j].body \in Body
    BY <2>2, FrameType
  <2> QED
    BY <2>1, <2>3
<1>2. DOMAIN handled = 1..Len(handled)
  BY <1>t, LenProperties
<1>3. \A body \in Range(handled) : body \in Body
  BY <1>1, <1>2 DEF Range
<1>4. \A body \in Range(handled) : Decodes(body)
  BY <1>3, AnswerDecodes
<1> QED
  BY <1>4 DEF AnswersDecode, Decodes

\* Whatever message the server has taken, a frame of its own with the same
\* body can be found and decoded again (send and stuff_byte_to_buffer,
\* protocol.cpp 482-519).
THEOREM Decodable == Spec => []AnswersDecode
<1>1. IInv => AnswersDecode
  BY InvDecodes
<1> QED
  BY <1>1, Inductive, PTL

LEMMA InvPrompt ==
    IInv => PromptDelivery
<1> SUFFICES ASSUME IInv PROVE PromptDelivery
  OBVIOUS
<1>0. TypeOK /\ Flags /\ Whole /\ FramesInOrder /\ DamageArrived
  BY DEF IInv
<1>t. sent \in Seq(Frame) /\ Len(handled) \in Nat /\ Len(sent) \in Nat /\ Len(buffer_) \in Nat
  BY <1>0, TypeFacts
<1>1. ASSUME pc = "idle", open
      PROVE  Arrived = 1..Len(handled) /\ \A i \in Arrived : sent[i].good
  <2> DEFINE F == Stream(state_, buffer_, wire).out
             k == Len(handled)
  <2>1. cause = "none" /\ end = 0
    BY <1>0, <1>1 DEF Flags
  <2>2. Aligned(state_, buffer_, wire, sent, end, handled, cause, TRUE)
    BY <1>0, <1>1 DEF Whole, Live, Idle
  <2>3. PICK b, p : /\ Cut(sent, F, b, p) /\ k \in b..Len(sent) /\ p[k] = 0
                    /\ Counted(state_, buffer_, wire, sent, b, p)
                    /\ k = Len(sent) \/ Len(buffer_) < p[k + 1]
    <3>1. PICK b, k1, p : /\ Cut(sent, F, b, p) /\ k1 \in b..Len(sent) /\ p[k1] = end
                          /\ Reached(k1, sent, handled, cause)
                          /\ Counted(state_, buffer_, wire, sent, b, p)
                          /\ Waits(buffer_, sent, k1, p, TRUE)
      BY <2>2 DEF Aligned
    <3>2. k1 = k
      BY <2>1, <3>1 DEF Reached
    <3>3. k = Len(sent) \/ Len(buffer_) < p[k + 1]
      BY <3>1, <3>2 DEF Waits
    <3> HIDE DEF F, k
    <3> QED
      BY <2>1, <3>1, <3>2, <3>3
  <2> HIDE DEF F
  <2>4. /\ b \in 0..Len(sent) /\ p[b] = 0
        /\ p \in [b..Len(sent) -> 0..Len(F)]
        /\ \A i \in b + 1..Len(sent) : Piece(F, p[i - 1], p[i], sent[i])
    BY <2>3 DEF Cut
  <2> HIDE DEF k
  <2>5. \A i \in b..Len(sent) : p[i] \in Nat
    <3>1. \A i \in b..Len(sent) : p[i] \in 0..Len(F)
      BY <2>4
    <3> QED
      BY <3>1
  <2>6. ASSUME NEW i \in b + 1..Len(sent) PROVE i \in b..Len(sent) /\ i - 1 \in b..Len(sent) /\ p[i - 1] < p[i]
    <3>1. i \in b..Len(sent) /\ i - 1 \in b..Len(sent)
      BY <1>t, <2>4
    <3>2. p[i] \in Nat /\ p[i - 1] \in Nat
      BY <2>5, <3>1
    <3>3. sent[i] \in Frame
      <4>1. i \in 1..Len(sent)
        BY <1>t, <2>4
      <4> QED
        BY <1>t, <4>1, ElementOfSeq
    <3>4. Len(Payload(sent[i].body, sent[i].good)) \in Nat
      BY <3>3, FrameType, LenProperties
    <3>5. p[i - 1] + Len(Payload(sent[i].body, sent[i].good)) + 1 <= p[i]
      BY <2>4 DEF Piece
    <3> QED
      BY <3>1, <3>2, <3>4, <3>5
  \* Nothing precedes the first frame that is not erased.
  <2>7. k = b
    <3> SUFFICES ASSUME k # b PROVE FALSE
      OBVIOUS
    <3>1. k \in b + 1..Len(sent)
      BY <1>t, <2>3, <2>4
    <3>2. p[k - 1] < p[k] /\ p[k - 1] \in Nat
      BY <2>5, <2>6, <3>1
    <3> QED
      BY <2>3, <3>2
  <2>8. ASSUME NEW i \in b + 1..Len(sent) PROVE Len(buffer_) < p[i]
    <3> DEFINE Later == {m \in Nat : b + 1 + m <= Len(sent) => Len(buffer_) < p[b + 1 + m]}
    <3>1. 0 \in Later
      <4>1. b + 1 + 0 <= Len(sent) => b # Len(sent)
        BY <1>t, <2>4
      <4>2. b + 1 + 0 = b + 1
        BY <2>4
      <4> QED
        BY <2>3, <2>7, <4>1, <4>2
    <3>2. ASSUME NEW m \in Later PROVE m + 1 \in Later
      <4>1. m \in Nat
        OBVIOUS
      <4> SUFFICES ASSUME b + 1 + (m + 1) <= Len(sent) PROVE Len(buffer_) < p[b + 1 + (m + 1)]
        BY <4>1
      <4>2. /\ b + 1 + (m + 1) \in b + 1..Len(sent) /\ b + 1 + (m + 1) - 1 = b + 1 + m
            /\ b + 1 + m <= Len(sent) /\ b + 1 + m \in b..Len(sent) /\ b + 1 + (m + 1) \in b..Len(sent)
        BY <1>t, <2>4, <4>1
      <4>3. p[b + 1 + m] < p[b + 1 + (m + 1)]
        <5> DEFINE j == b + 1 + (m + 1)
        <5>1. j \in b + 1..Len(sent) /\ j - 1 = b + 1 + m
          BY <1>t, <2>4, <4>1
        <5> HIDE DEF j
        <5>2. p[j - 1] < p[j]
          BY <2>6, <5>1
        <5> QED
          BY <5>1, <5>2 DEF j
      <4>4. Len(buffer_) < p[b + 1 + m]
        BY <4>2
      <4>5. p[b + 1 + m] \in Nat /\ p[b + 1 + (m + 1)] \in Nat
        BY <2>5, <4>2
      <4> QED
        BY <1>t, <4>3, <4>4, <4>5
    <3>3. Later \subseteq Nat
      OBVIOUS
    <3> HIDE DEF Later
    <3>4. Nat \subseteq Later
      BY <3>1, <3>2, <3>3, NumberInduction
    <3>5. i - (b + 1) \in Nat /\ b + 1 + (i - (b + 1)) = i /\ i <= Len(sent)
      BY <1>t, <2>4
    <3>6. i - (b + 1) \in Later
      BY <3>4, <3>5
    <3> QED
      BY <3>5, <3>6 DEF Later
  <2>9. ASSUME NEW i \in 1..Len(sent) PROVE i \in Arrived <=> i \in 1..b
    <3>1. i \in Arrived <=> (i \in 1..b \/ p[i] <= Len(buffer_))
      BY <1>0, <2>3, StoredArrived DEF F
    <3>2. CASE i \in 1..b
      BY <3>1, <3>2
    <3>3. CASE ~(i \in 1..b)
      <4>1. i \in b + 1..Len(sent) /\ i \in b..Len(sent)
        BY <1>t, <2>4, <3>3
      <4>2. Len(buffer_) < p[i] /\ p[i] \in Nat
        BY <2>5, <2>8, <4>1
      <4>3. ~(p[i] <= Len(buffer_))
        BY <1>t, <4>2
      <4> QED
        BY <3>1, <3>3, <4>3
    <3> QED
      BY <3>2, <3>3
  <2>10. Arrived = 1..b
    <3>1. Arrived \subseteq 1..Len(sent)
      BY DEF Arrived
    <3>2. 1..b \subseteq 1..Len(sent)
      BY <1>t, <2>4
    <3> QED
      BY <2>9, <3>1, <3>2
  <2>11. \A i \in 1..k : sent[i].good
    BY <1>0, <2>1 DEF FramesInOrder, k
  <2> QED
    BY <2>7, <2>10, <2>11 DEF k
<1> QED
  BY <1>0, <1>1 DEF PromptDelivery, DamageArrived

\* A frame is processed by the read that completes it, and a checksum closes
\* the connection for a damaged frame only, however TCP cuts the stream and
\* whatever its frames hold (recive_impl and store_data, protocol.cpp 189-258
\* and 525-557).
THEOREM Prompt == Spec => []PromptDelivery
<1>1. IInv => PromptDelivery
  BY InvPrompt
<1> QED
  BY <1>1, Inductive, PTL
=============================================================================
