-------------------------- MODULE InfoPackageProofs --------------------------
(***************************************************************************)
(* Theorems of InfoPackage, for every packet of any number of records.     *)
(*                                                                         *)
(* The first parts are about the parser of RecReg: what it makes of the    *)
(* items of a group, and then of a record, that encode a message or its    *)
(* beginning (Encodes), and that the serializer's items do encode theirs.  *)
(* Then what extract prints of a record, and from both the inductive       *)
(* invariant of parse_info_package.                                        *)
(***************************************************************************)
EXTENDS InfoPackage, SequenceTheorems, WellFoundedInduction, TLAPS

-----------------------------------------------------------------------------
(* Induction, and folds.                                                   *)

LEMMA LeastNumber ==
    ASSUME NEW T, T \subseteq Nat, T # {}
    PROVE  \E x \in T : \A y \in T : x <= y
<1>1. PICK x \in T : \A y \in T : ~(<<y, x>> \in OpToRel(<, Nat))
  BY NatLessThanWellFounded, WFMin
<1>2. \A y \in T : ~(y < x)
  BY <1>1 DEF OpToRel
<1> QED
  BY <1>2

LEMMA NumberInduction ==
    ASSUME NEW T, 0 \in T, \A n \in Nat : n \in T => n + 1 \in T
    PROVE  Nat \subseteq T
<1> SUFFICES ASSUME Nat \ T # {} PROVE FALSE
  OBVIOUS
<1>1. PICK x \in Nat \ T : \A y \in Nat \ T : x <= y
  BY LeastNumber
<1>2. x # 0 /\ x - 1 \in Nat
  BY <1>1
<1>3. x - 1 \in T
  BY <1>1, <1>2
<1> QED
  BY <1>2, <1>3

LEMMA MaxOfSet ==
    ASSUME NEW L \in Nat
    PROVE  /\ \A S \in SUBSET (1..L) : S # {} => Max(S) \in S
           /\ \A S \in SUBSET (1..(L + 1)) : L + 1 \in S => Max(S) = L + 1
<1> DEFINE N == {n \in Nat : \A S \in SUBSET (1..n) : S # {} => \E x \in S : \A y \in S : x >= y}
<1>1. 0 \in N
  <2>1. 1..0 = {}
    OBVIOUS
  <2> QED
    BY <2>1
<1>2. ASSUME NEW n \in Nat, n \in N PROVE n + 1 \in N
  <2>1. ASSUME NEW S \in SUBSET (1..(n + 1)), S # {} PROVE \E x \in S : \A y \in S : x >= y
    <3>1. CASE n + 1 \in S
      BY <3>1
    <3>2. CASE n + 1 \notin S
      <4>1. S \in SUBSET (1..n)
        BY <3>2
      <4> QED
        BY <1>2, <2>1, <4>1
    <3> QED
      BY <3>1, <3>2
  <2> QED
    BY <2>1
<1> HIDE DEF N
<1>3. L \in N
  BY <1>1, <1>2, NumberInduction
<1>4. ASSUME NEW S \in SUBSET (1..L), S # {} PROVE Max(S) \in S
  BY <1>3, <1>4 DEF N, Max
<1>5. ASSUME NEW S \in SUBSET (1..(L + 1)), L + 1 \in S PROVE Max(S) = L + 1
  <2>1. \A y \in S : y \in Nat /\ L + 1 >= y
    OBVIOUS
  <2>2. Max(S) \in S /\ \A y \in S : Max(S) >= y
    BY <1>5, <2>1 DEF Max
  <2>3. Max(S) \in Nat /\ L + 1 >= Max(S) /\ Max(S) >= L + 1
    BY <1>5, <2>1, <2>2
  <2> QED
    BY <2>3
<1> QED
  BY <1>4, <1>5

LEMMA MaxOfInterval ==
    ASSUME NEW n \in Nat \ {0}
    PROVE  Max(1..n) = n
<1>1. n - 1 \in Nat /\ (n - 1) + 1 = n
  OBVIOUS
<1>2. \A S \in SUBSET (1..((n - 1) + 1)) : (n - 1) + 1 \in S => Max(S) = (n - 1) + 1
  BY <1>1, MaxOfSet
<1> QED
  BY <1>1, <1>2

\* One turn of the loop, in the record or in one of its groups.
Step(name, s, item) ==
    IF name = "RecReg" THEN RecReg_MergePartial(s, item)
    ELSE MergePartialFromCodedStream(Group[name], s, item)

Iterates(h, name, s0, d, L) ==
    h = [S \in SUBSET (1..L) |-> IF S = {} THEN s0 ELSE Step(name, h[S \ {Max(S)}], d[Max(S)])]

\* The function the community modules define a fold with exists.
LEMMA FoldExists ==
    ASSUME NEW name, NEW s0, NEW d, NEW L \in Nat
    PROVE  \E h : Iterates(h, name, s0, d, L)
<1> DEFINE N == {n \in Nat : \E h : Iterates(h, name, s0, d, n)}
<1>1. 0 \in N
  <2>1. 1..0 = {} /\ SUBSET {} = {{}}
    OBVIOUS
  <2>2. Iterates([S \in SUBSET (1..0) |-> s0], name, s0, d, 0)
    BY <2>1 DEF Iterates
  <2> QED
    BY <2>2
<1>2. ASSUME NEW n \in Nat, n \in N PROVE n + 1 \in N
  <2>1. PICK g : Iterates(g, name, s0, d, n)
    BY <1>2
  <2>2. \A S \in SUBSET (1..n) : g[S] = IF S = {} THEN s0 ELSE Step(name, g[S \ {Max(S)}], d[Max(S)])
    BY <2>1 DEF Iterates
  <2> DEFINE h == [S \in SUBSET (1..(n + 1)) |->
                      IF n + 1 \in S THEN Step(name, g[S \ {n + 1}], d[n + 1]) ELSE g[S]]
  <2>3. \A S \in SUBSET (1..(n + 1)) : n + 1 \notin S => S \in SUBSET (1..n)
    OBVIOUS
  <2>4. ASSUME NEW S \in SUBSET (1..(n + 1))
        PROVE  h[S] = IF S = {} THEN s0 ELSE Step(name, h[S \ {Max(S)}], d[Max(S)])
    <3>1. CASE n + 1 \in S
      <4>1. Max(S) = n + 1
        BY <3>1, MaxOfSet
      <4>2. S \ {n + 1} \in SUBSET (1..(n + 1)) /\ n + 1 \notin S \ {n + 1}
        OBVIOUS
      <4>3. h[S \ {n + 1}] = g[S \ {n + 1}]
        BY <4>2
      <4> QED
        BY <3>1, <4>1, <4>3
    <3>2. CASE n + 1 \notin S
      <4>1. S \in SUBSET (1..n) /\ h[S] = g[S]
        BY <2>3, <3>2
      <4>2. S \ {Max(S)} \in SUBSET (1..(n + 1)) /\ n + 1 \notin S \ {Max(S)}
        BY <3>2
      <4>3. h[S \ {Max(S)}] = g[S \ {Max(S)}]
        BY <4>2
      <4> QED
        BY <2>2, <4>1, <4>3
    <3> QED
      BY <3>1, <3>2
  <2>5. h = [S \in SUBSET (1..(n + 1)) |-> h[S]]
    OBVIOUS
  <2> HIDE DEF h
  <2>6. Iterates(h, name, s0, d, n + 1)
    BY <2>4, <2>5 DEF Iterates
  <2> QED
    BY <2>6
<1> HIDE DEF N
<1>3. Nat \subseteq N
  BY <1>1, <1>2, NumberInduction
<1> QED
  BY <1>3 DEF N

\* The states of the loop, item by item.
IsRun(f, name, s0, d) ==
    /\ f[0] = s0
    /\ \A n \in 1..Len(d) : f[n] = Step(name, f[n - 1], d[n])

LEMMA IteratesIsRun ==
    ASSUME NEW name, NEW s0, NEW V, NEW d \in Seq(V), NEW h, Iterates(h, name, s0, d, Len(d))
    PROVE  \E f : IsRun(f, name, s0, d) /\ h[DOMAIN d] = f[Len(d)]
<1> DEFINE L == Len(d)
           f == [n \in 0..L |-> h[1..n]]
<1>1. L \in Nat /\ DOMAIN d = 1..L
  OBVIOUS
<1>2. \A S \in SUBSET (1..L) : h[S] = IF S = {} THEN s0 ELSE Step(name, h[S \ {Max(S)}], d[Max(S)])
  BY DEF Iterates
<1> HIDE DEF L
<1>3. f[0] = s0
  <2>1. 1..0 = {} /\ {} \in SUBSET (1..L)
    OBVIOUS
  <2>2. f[0] = h[{}]
    BY <1>1, <2>1
  <2> QED
    BY <1>2, <2>1, <2>2
<1>4. ASSUME NEW n \in 1..L PROVE f[n] = Step(name, f[n - 1], d[n])
  <2>1. n - 1 \in Nat /\ n \in Nat \ {0}
    BY <1>1
  <2>2. 1..n \in SUBSET (1..L) /\ n \in 1..n /\ (1..n) \ {n} = 1..(n - 1)
    BY <1>1, <2>1
  <2>3. Max(1..n) = n
    BY <2>1, MaxOfInterval
  <2>4. h[1..n] = Step(name, h[1..(n - 1)], d[n])
    BY <1>2, <2>2, <2>3
  <2>5. f[n] = h[1..n] /\ f[n - 1] = h[1..(n - 1)]
    BY <1>1, <2>1
  <2> QED
    BY <2>4, <2>5
<1>5. f[L] = h[DOMAIN d]
  BY <1>1
<1> HIDE DEF f
<1> QED
  BY <1>3, <1>4, <1>5 DEF IsRun, L

LEMMA RecordRun ==
    ASSUME NEW s0, NEW V, NEW d \in Seq(V)
    PROVE  \E f : IsRun(f, "RecReg", s0, d) /\ FoldLeft(RecReg_MergePartial, s0, d) = f[Len(d)]
<1> DEFINE P(h) == h = [S \in SUBSET DOMAIN d |->
                           IF S = {} THEN s0 ELSE RecReg_MergePartial(h[S \ {Max(S)}], d[Max(S)])]
           it == CHOOSE h : P(h)
<1>1. Len(d) \in Nat /\ DOMAIN d = 1..Len(d)
  OBVIOUS
<1>2. PICK g : Iterates(g, "RecReg", s0, d, Len(d))
  BY <1>1, FoldExists
<1>3. \A x, y : Step("RecReg", x, y) = RecReg_MergePartial(x, y)
  BY DEF Step
<1>4. P(g)
  BY <1>1, <1>2, <1>3 DEF Iterates
<1>5. P(it)
  BY <1>4
<1>6. FoldLeft(RecReg_MergePartial, s0, d) = it[DOMAIN d]
  BY DEF FoldLeft, MapThenFoldSet
<1> HIDE DEF it
<1>7. Iterates(it, "RecReg", s0, d, Len(d))
  BY <1>1, <1>3, <1>5 DEF Iterates
<1> QED
  BY <1>6, <1>7, IteratesIsRun

LEMMA GroupRun ==
    ASSUME NEW name, name # "RecReg", NEW s0, NEW V, NEW d \in Seq(V)
    PROVE  \E f : IsRun(f, name, s0, d) /\ ReadItems(name, s0, d) = f[Len(d)]
<1> DEFINE P(h) == h = [S \in SUBSET DOMAIN d |->
                           IF S = {} THEN s0
                           ELSE MergePartialFromCodedStream(Group[name], h[S \ {Max(S)}], d[Max(S)])]
           it == CHOOSE h : P(h)
<1>1. Len(d) \in Nat /\ DOMAIN d = 1..Len(d)
  OBVIOUS
<1>2. PICK g : Iterates(g, name, s0, d, Len(d))
  BY <1>1, FoldExists
<1>3. \A x, y : Step(name, x, y) = MergePartialFromCodedStream(Group[name], x, y)
  BY DEF Step
<1>4. P(g)
  BY <1>1, <1>2, <1>3 DEF Iterates
<1>5. P(it)
  BY <1>4
<1>6. ReadItems(name, s0, d) = it[DOMAIN d]
  BY DEF ReadItems, FoldLeft, MapThenFoldSet
<1> HIDE DEF it
<1>7. Iterates(it, name, s0, d, Len(d))
  BY <1>1, <1>3, <1>5 DEF Iterates
<1> QED
  BY <1>6, <1>7, IteratesIsRun
-----------------------------------------------------------------------------
(* The lists of fields.                                                    *)

Kinds == {"uint32", "sint32", "bytes", "string", "packed"}

\* A number stands for one field, which is read as it is declared; and every
\* field is written, as it is read.
RowsOK(name) ==
    /\ \A r, q \in Group[name].parse : r[1] = q[1] => r = q
    /\ \A r \in Group[name].parse : /\ r[2] \in DOMAIN Group[name].fields
                                    /\ r[3] = Group[name].fields[r[2]]
                                    /\ r[3] \in Kinds
    /\ ToSet(Group[name].serialize) \subseteq Group[name].parse
    /\ \A field \in DOMAIN Group[name].fields :
           \E r \in ToSet(Group[name].serialize) : r[2] = field

LEMMA GeneralRows == RowsOK("General")
<1>1. /\ Group["General"].parse = General_Parse
      /\ Group["General"].serialize = General_Serialize
      /\ Group["General"].fields = General
  BY DEF Group, Table
<1>2. \A r, q \in General_Parse : r[1] = q[1] => r = q
  BY DEF General_Parse
<1>3. \A r \in General_Parse : r[2] \in DOMAIN General /\ r[3] = General[r[2]] /\ r[3] \in Kinds
  BY DEF General_Parse, General, Kinds
<1>4. ToSet(General_Serialize) \subseteq General_Parse
  BY DEF ToSet, General_Serialize, General_Parse
<1>5. \A field \in DOMAIN General : \E r \in ToSet(General_Serialize) : r[2] = field
  BY DEF ToSet, General_Serialize, General
<1> QED
  BY <1>1, <1>2, <1>3, <1>4, <1>5 DEF RowsOK
LEMMA PhotoRows == RowsOK("Photo")
<1>1. /\ Group["Photo"].parse = Photo_Parse
      /\ Group["Photo"].serialize = Photo_Serialize
      /\ Group["Photo"].fields = Photo
  BY DEF Group, Table
<1>2. \A r, q \in Photo_Parse : r[1] = q[1] => r = q
  BY DEF Photo_Parse
<1>3. \A r \in Photo_Parse : r[2] \in DOMAIN Photo /\ r[3] = Photo[r[2]] /\ r[3] \in Kinds
  BY DEF Photo_Parse, Photo, Kinds
<1>4. ToSet(Photo_Serialize) \subseteq Photo_Parse
  BY DEF ToSet, Photo_Serialize, Photo_Parse
<1>5. \A field \in DOMAIN Photo : \E r \in ToSet(Photo_Serialize) : r[2] = field
  BY DEF ToSet, Photo_Serialize, Photo
<1> QED
  BY <1>1, <1>2, <1>3, <1>4, <1>5 DEF RowsOK

LEMMA NAVRows == RowsOK("NAV")
<1>1. /\ Group["NAV"].parse = NAV_Parse
      /\ Group["NAV"].serialize = NAV_Serialize
      /\ Group["NAV"].fields = NAV
  BY DEF Group, Table
<1>2. \A r, q \in NAV_Parse : r[1] = q[1] => r = q
  BY DEF NAV_Parse
<1>3. \A r \in NAV_Parse : r[2] \in DOMAIN NAV /\ r[3] = NAV[r[2]] /\ r[3] \in Kinds
  BY DEF NAV_Parse, NAV, Kinds
<1>4. ToSet(NAV_Serialize) \subseteq NAV_Parse
  BY DEF ToSet, NAV_Serialize, NAV_Parse
<1>5. \A field \in DOMAIN NAV : \E r \in ToSet(NAV_Serialize) : r[2] = field
  BY DEF ToSet, NAV_Serialize, NAV
<1> QED
  BY <1>1, <1>2, <1>3, <1>4, <1>5 DEF RowsOK

LEMMA UniDtRows == RowsOK("UniDt")
<1>1. /\ Group["UniDt"].parse = UniDt_Parse
      /\ Group["UniDt"].serialize = UniDt_Serialize
      /\ Group["UniDt"].fields = UniDt
  BY DEF Group, Table
<1>2. \A r, q \in UniDt_Parse : r[1] = q[1] => r = q
  BY DEF UniDt_Parse, UniVal
<1>3. \A r \in UniDt_Parse : r[2] \in DOMAIN UniDt /\ r[3] = UniDt[r[2]] /\ r[3] \in Kinds
  BY DEF UniDt_Parse, UniDt, Kinds, UniVal
<1>4. ToSet(UniDt_Serialize) \subseteq UniDt_Parse
  BY DEF ToSet, UniDt_Serialize, UniDt_Parse, UniVal
<1>5. \A field \in DOMAIN UniDt : \E r \in ToSet(UniDt_Serialize) : r[2] = field
  <2>1. \A j \in 1..4 : /\ UniDt_Serialize[j] \in ToSet(UniDt_Serialize)
                        /\ UniDt_Serialize[j][2] = UniVal(j - 1)
    BY DEF ToSet, UniDt_Serialize
  <2>2. /\ UniVal(1 - 1) = "UniVal0" /\ UniVal(2 - 1) = "UniVal1"
        /\ UniVal(3 - 1) = "UniVal2" /\ UniVal(4 - 1) = "UniVal3"
    BY DEF UniVal
  <2>3. \A field \in DOMAIN UniDt : \E j \in 1..4 : field = UniVal(j - 1)
    BY <2>2 DEF UniDt
  <2> QED
    BY <2>1, <2>3
<1> QED
  BY <1>1, <1>2, <1>3, <1>4, <1>5 DEF RowsOK

LEMMA LLSDtRows == RowsOK("LLSDt")
<1>1. /\ Group["LLSDt"].parse = LLSDt_Parse
      /\ Group["LLSDt"].serialize = LLSDt_Serialize
      /\ Group["LLSDt"].fields = LLSDt
  BY DEF Group, Table
<1>2. \A r, q \in LLSDt_Parse : r[1] = q[1] => r = q
  BY DEF LLSDt_Parse, LLS
<1>3. \A r \in LLSDt_Parse : r[2] \in DOMAIN LLSDt /\ r[3] = LLSDt[r[2]] /\ r[3] \in Kinds
  BY DEF LLSDt_Parse, LLSDt, Kinds, LLS
<1>4. ToSet(LLSDt_Serialize) \subseteq LLSDt_Parse
  BY DEF ToSet, LLSDt_Serialize, LLSDt_Parse, LLS
<1>5. \A field \in DOMAIN LLSDt : \E r \in ToSet(LLSDt_Serialize) : r[2] = field
  BY DEF ToSet, LLSDt_Serialize, LLSDt
<1> QED
  BY <1>1, <1>2, <1>3, <1>4, <1>5 DEF RowsOK

LEMMA LOGRows == RowsOK("LOG")
<1>1. /\ Group["LOG"].parse = LOG_Parse
      /\ Group["LOG"].serialize = LOG_Serialize
      /\ Group["LOG"].fields = LOG
  BY DEF Group, Table
<1>2. \A r, q \in LOG_Parse : r[1] = q[1] => r = q
  BY DEF LOG_Parse
<1>3. \A r \in LOG_Parse : r[2] \in DOMAIN LOG /\ r[3] = LOG[r[2]] /\ r[3] \in Kinds
  BY DEF LOG_Parse, LOG, Kinds
<1>4. ToSet(LOG_Serialize) \subseteq LOG_Parse
  BY DEF ToSet, LOG_Serialize, LOG_Parse
<1>5. \A field \in DOMAIN LOG : \E r \in ToSet(LOG_Serialize) : r[2] = field
  BY DEF ToSet, LOG_Serialize, LOG
<1> QED
  BY <1>1, <1>2, <1>3, <1>4, <1>5 DEF RowsOK

LEMMA SPNNames ==
    /\ SPN(70) = "SPN70"
    /\ SPN(91) = "SPN91"
    /\ SPN(100) = "SPN100"
    /\ SPN(110) = "SPN110"
    /\ SPN(174) = "SPN174"
    /\ SPN(175) = "SPN175"
    /\ SPN(182) = "SPN182"
    /\ SPN(184) = "SPN184"
    /\ SPN(190) = "SPN190"
    /\ SPN(244) = "SPN244"
    /\ SPN(245) = "SPN245"
    /\ SPN(247) = "SPN247"
    /\ SPN(250) = "SPN250"
    /\ SPN(521) = "SPN521"
    /\ SPN(522) = "SPN522"
    /\ SPN(527) = "SPN527"
    /\ SPN(582) = "SPN582"
    /\ SPN(597) = "SPN597"
    /\ SPN(598) = "SPN598"
    /\ SPN(914) = "SPN914"
    /\ SPN(916) = "SPN916"
    /\ SPN(928) = "SPN928"
    /\ SPN(1624) = "SPN1624"
    /\ SPN(1821) = "SPN1821"
    /\ SPN(1856) = "SPN1856"
<1>1. SPN(70) = "SPN70"
  BY DEF SPN, SPNs
<1>2. SPN(91) = "SPN91"
  BY DEF SPN, SPNs
<1>3. SPN(100) = "SPN100"
  BY DEF SPN, SPNs
<1>4. SPN(110) = "SPN110"
  BY DEF SPN, SPNs
<1>5. SPN(174) = "SPN174"
  BY DEF SPN, SPNs
<1>6. SPN(175) = "SPN175"
  BY DEF SPN, SPNs
<1>7. SPN(182) = "SPN182"
  BY DEF SPN, SPNs
<1>8. SPN(184) = "SPN184"
  BY DEF SPN, SPNs
<1>9. SPN(190) = "SPN190"
  BY DEF SPN, SPNs
<1>10. SPN(244) = "SPN244"
  BY DEF SPN, SPNs
<1>11. SPN(245) = "SPN245"
  BY DEF SPN, SPNs
<1>12. SPN(247) = "SPN247"
  BY DEF SPN, SPNs
<1>13. SPN(250) = "SPN250"
  BY DEF SPN, SPNs
<1>14. SPN(521) = "SPN521"
  BY DEF SPN, SPNs
<1>15. SPN(522) = "SPN522"
  BY DEF SPN, SPNs
<1>16. SPN(527) = "SPN527"
  BY DEF SPN, SPNs
<1>17. SPN(582) = "SPN582"
  BY DEF SPN, SPNs
<1>18. SPN(597) = "SPN597"
  BY DEF SPN, SPNs
<1>19. SPN(598) = "SPN598"
  BY DEF SPN, SPNs
<1>20. SPN(914) = "SPN914"
  BY DEF SPN, SPNs
<1>21. SPN(916) = "SPN916"
  BY DEF SPN, SPNs
<1>22. SPN(928) = "SPN928"
  BY DEF SPN, SPNs
<1>23. SPN(1624) = "SPN1624"
  BY DEF SPN, SPNs
<1>24. SPN(1821) = "SPN1821"
  BY DEF SPN, SPNs
<1>25. SPN(1856) = "SPN1856"
  BY DEF SPN, SPNs
<1> QED
  BY <1>1, <1>2, <1>3, <1>4, <1>5, <1>6, <1>7, <1>8, <1>9, <1>10, <1>11, <1>12, <1>13, <1>14, <1>15, <1>16, <1>17, <1>18, <1>19, <1>20, <1>21, <1>22, <1>23, <1>24, <1>25
LEMMA CanDtRows == RowsOK("CanDt")
<1> DEFINE Numbers == {70, 91, 100, 110, 174, 175, 182, 184, 190, 244, 245, 247, 250,
                       521, 522, 527, 582, 597, 598, 914, 916, 928, 1624, 1821, 1856}
           numbers == <<70, 91, 100, 110, 174, 175, 182, 184, 190, 244, 245, 247, 250,
                        521, 522, 527, 582, 597, 598, 914, 916, 928, 1624, 1821, 1856>>
           row(n) == <<n, SPN(n), IF n \in {582, 928} THEN "packed" ELSE "uint32">>
<1>1. /\ Group["CanDt"].parse = CanDt_Parse
      /\ Group["CanDt"].serialize = CanDt_Serialize
      /\ Group["CanDt"].fields = CanDt
  BY DEF Group, Table
<1>2. \A r \in CanDt_Parse : \E n \in Numbers : r = row(n)
  BY DEF CanDt_Parse
<1>3. \A n \in Numbers : row(n) \in CanDt_Parse
  BY DEF CanDt_Parse
<1>4. \A n \in Numbers : /\ SPN(n) \in DOMAIN CanDt
                         /\ CanDt[SPN(n)] = IF n \in {582, 928} THEN "packed" ELSE "uint32"
  BY SPNNames DEF CanDt, SPNs
<1>5. \A field \in DOMAIN CanDt : \E n \in Numbers : field = SPN(n)
  BY SPNNames DEF CanDt, SPNs
<1>6. \A j \in DOMAIN numbers : numbers[j] \in Numbers
  OBVIOUS
<1>7. \A n \in Numbers : \E j \in DOMAIN numbers : numbers[j] = n
  OBVIOUS
<1>8. DOMAIN CanDt_Serialize = DOMAIN numbers /\ \A j \in DOMAIN numbers : CanDt_Serialize[j] = row(numbers[j])
  BY DEF CanDt_Serialize
<1> HIDE DEF Numbers, numbers
<1>9. \A r, q \in CanDt_Parse : r[1] = q[1] => r = q
  BY <1>2
<1>10. \A r \in CanDt_Parse : r[2] \in DOMAIN CanDt /\ r[3] = CanDt[r[2]] /\ r[3] \in Kinds
  BY <1>2, <1>4 DEF Kinds
<1>11. ToSet(CanDt_Serialize) \subseteq CanDt_Parse
  BY <1>3, <1>6, <1>8 DEF ToSet
<1>12. \A field \in DOMAIN CanDt : \E r \in ToSet(CanDt_Serialize) : r[2] = field
  <2>1. SUFFICES ASSUME NEW field \in DOMAIN CanDt PROVE \E r \in ToSet(CanDt_Serialize) : r[2] = field
    OBVIOUS
  <2>2. PICK n \in Numbers : field = SPN(n)
    BY <1>5
  <2>3. PICK j \in DOMAIN numbers : numbers[j] = n
    BY <1>7
  <2>4. CanDt_Serialize[j] \in ToSet(CanDt_Serialize) /\ CanDt_Serialize[j][2] = SPN(n)
    BY <1>8, <2>3 DEF ToSet
  <2> QED
    BY <2>2, <2>4
<1> QED
  BY <1>1, <1>9, <1>10, <1>11, <1>12 DEF RowsOK

LEMMA Rows == \A name \in DOMAIN Group : RowsOK(name)
<1>1. \A name \in DOMAIN Group :
         name \in {"General", "Photo", "NAV", "UniDt", "CanDt", "LLSDt", "LOG"}
  BY DEF Group
<1> QED
  BY <1>1, GeneralRows, PhotoRows, NAVRows, UniDtRows, CanDtRows, LLSDtRows, LOGRows

\* The same of the record itself.
LEMMA RecRegRows ==
    /\ \A r, q \in RecReg_Parse : r[1] = q[1] => r = q
    /\ \A r \in RecReg_Parse : /\ r[2] \in DOMAIN RecReg /\ r[3] = RecReg[r[2]]
                               /\ r[3] = "group" => r[2] \in DOMAIN Group
                               /\ r[3] # "group" => r = <<1, "mID", "packed">>
    /\ ToSet(RecReg_Serialize) = RecReg_Parse
    /\ \A name \in DOMAIN Group : \E r \in RecReg_Parse : r[2] = name /\ r[3] = "group"
    /\ <<1, "mID", "packed">> \in RecReg_Parse
    /\ DOMAIN RecReg = DOMAIN Group \cup {"mID"} /\ "mID" \notin DOMAIN Group
    /\ "RecReg" \notin DOMAIN Group
    /\ RecReg.mID = "packed" /\ \A name \in DOMAIN Group : RecReg[name] = "group"
<1>1. \A r, q \in RecReg_Parse : r[1] = q[1] => r = q
  BY DEF RecReg_Parse
<1>2. \A r \in RecReg_Parse : /\ r[2] \in DOMAIN RecReg /\ r[3] = RecReg[r[2]]
                              /\ r[3] = "group" => r[2] \in DOMAIN Group
                              /\ r[3] # "group" => r = <<1, "mID", "packed">>
  BY DEF RecReg_Parse, RecReg, Group
<1>3. ToSet(RecReg_Serialize) = RecReg_Parse
  BY DEF ToSet, RecReg_Parse, RecReg_Serialize
<1>4. \A name \in DOMAIN Group : \E r \in RecReg_Parse : r[2] = name /\ r[3] = "group"
  BY DEF RecReg_Parse, Group
<1>5. <<1, "mID", "packed">> \in RecReg_Parse
  BY DEF RecReg_Parse
<1>6. /\ DOMAIN RecReg = DOMAIN Group \cup {"mID"} /\ "mID" \notin DOMAIN Group
      /\ "RecReg" \notin DOMAIN Group
      /\ RecReg.mID = "packed" /\ \A name \in DOMAIN Group : RecReg[name] = "group"
  BY DEF RecReg, Group
<1> QED
  BY <1>1, <1>2, <1>3, <1>4, <1>5, <1>6

-----------------------------------------------------------------------------
(* One item of a group.                                                    *)

LEMMA ZigZag ==
    /\ \A n \in Int : ZigZagEncode(n) \in Nat /\ ZigZagDecode(ZigZagEncode(n)) = n
    /\ \A v \in Nat : ZigZagDecode(v) \in Int
<1>1. ASSUME NEW n \in Int, n >= 0 PROVE ZigZagEncode(n) \in Nat /\ ZigZagDecode(ZigZagEncode(n)) = n
  <2>1. ZigZagEncode(n) = 2 * n
    BY <1>1 DEF ZigZagEncode
  <2>2. 2 * n \in Nat /\ (2 * n) % 2 = 0 /\ (2 * n) \div 2 = n
    BY <1>1
  <2> QED
    BY <2>1, <2>2 DEF ZigZagDecode
<1>2. ASSUME NEW n \in Int, n < 0 PROVE ZigZagEncode(n) \in Nat /\ ZigZagDecode(ZigZagEncode(n)) = n
  <2> DEFINE m == -2 * n - 1
  <2>1. ZigZagEncode(n) = m
    BY <1>2 DEF ZigZagEncode
  <2>2. m \in Nat /\ m % 2 = 1 /\ (m + 1) \div 2 = -n /\ -(-n) = n
    BY <1>2
  <2> HIDE DEF m
  <2> QED
    BY <2>1, <2>2 DEF ZigZagDecode
<1>3. ASSUME NEW v \in Nat PROVE ZigZagDecode(v) \in Int
  BY DEF ZigZagDecode
<1> QED
  BY <1>1, <1>2, <1>3

\* The value of an item is one the field can take.
Suits(kind, item) ==
    /\ kind \in {"uint32", "sint32"} => item.value \in Nat
    /\ kind \in {"bytes", "string"} => item.value \in Seq(Nat)
    /\ kind = "packed" => IF item.wire = "varint" THEN item.value \in Nat ELSE item.value \in Seq(Nat)

LEMMA ReadType ==
    ASSUME NEW kind \in Kinds, NEW old, NEW item, Suits(kind, item),
           kind \in Repeated => old \in Value(kind)
    PROVE  Read(kind, old, item) \in Value(kind)
<1>1. CASE kind = "uint32"
  BY <1>1 DEF Suits, Value, Read
<1>2. CASE kind = "bytes"
  BY <1>2 DEF Suits, Value, Read
<1>3. CASE kind = "sint32"
  <2>1. item.value \in Nat /\ Value(kind) = Int /\ Read(kind, old, item) = ZigZagDecode(item.value)
    BY <1>3 DEF Suits, Value, Read
  <2> QED
    BY <2>1, ZigZag
<1>4. CASE kind = "string"
  <2>1. item.value \in Seq(Nat) /\ Value(kind) = Seq(Seq(Nat)) /\ old \in Seq(Seq(Nat))
    BY <1>4 DEF Suits, Value, Repeated
  <2>2. Read(kind, old, item) = Append(old, item.value)
    BY <1>4 DEF Read
  <2> QED
    BY <2>1, <2>2, AppendProperties
<1>5. CASE kind = "packed"
  <2>1. Value(kind) = Seq(Nat) /\ old \in Seq(Nat)
    BY <1>5 DEF Value, Repeated
  <2>2. CASE item.wire = "varint"
    <3>1. item.value \in Nat /\ Read(kind, old, item) = Append(old, item.value)
      BY <1>5, <2>2 DEF Suits, Read
    <3> QED
      BY <2>1, <3>1, AppendProperties
  <2>3. CASE item.wire # "varint"
    <3>1. item.value \in Seq(Nat) /\ Read(kind, old, item) = old \o item.value
      BY <1>5, <2>3 DEF Suits, Read
    <3> QED
      BY <2>1, <3>1, ConcatProperties
  <2> QED
    BY <2>2, <2>3
<1> QED
  BY <1>1, <1>2, <1>3, <1>4, <1>5 DEF Kinds

IsMessage(m) == m = [fields |-> m.fields, unknown |-> m.unknown]

\* The fields of a group hold what the device wrote there, except that a text
\* may be only its beginning when the bytes ended in it.
Says(kinds, part, full, exact) ==
    \A f \in DOMAIN part :
        kinds[f] \notin Repeated =>
            /\ f \in DOMAIN full
            /\ \/ part[f] = full[f]
               \/ ~exact /\ kinds[f] = "bytes" /\ IsPrefix(part[f], full[f])

\* The state of the loop while and after reading what encodes this group.
GroupState(s, name, group, exact) ==
    /\ IsMessage(s.message)
    /\ FieldsOK(Group[name].fields, s.message.fields)
    /\ Says(Group[name].fields, s.message.fields, group.fields, exact)

\* What the serializer writes for one row of its list.
Shaped(item, row, value) ==
    /\ value \in Value(row[3])
    /\ item.number = row[1] /\ item.whole = TRUE /\ item.wire \in Wire[row[3]]
    /\ item.wire = (IF row[3] \in {"uint32", "sint32"} THEN "varint" ELSE "length")
    /\ Suits(row[3], item)
    /\ row[3] \in {"uint32", "bytes"} => item.value = value
    /\ row[3] = "sint32" => item.value = ZigZagEncode(value)

LEMMA WriteShape ==
    ASSUME NEW name \in DOMAIN Group, NEW group, FieldsOK(Group[name].fields, group.fields),
           NEW row \in Group[name].parse, NEW item \in ToSet(Write(row, group))
    PROVE  row[2] \in DOMAIN group.fields /\ Shaped(item, row, group.fields[row[2]])
<1> DEFINE value == group.fields[row[2]]
<1>1. row[2] \in DOMAIN Group[name].fields /\ row[3] = Group[name].fields[row[2]] /\ row[3] \in Kinds
  BY Rows DEF RowsOK
<1>2. row[2] \in DOMAIN group.fields
  <2>1. ToSet(<<>>) = {}
    BY DEF ToSet
  <2> QED
    BY <2>1 DEF Write, has
<1>3. row[3] # "group"
  BY <1>1 DEF Kinds
<1>4. value \in Value(row[3])
  BY <1>1, <1>2, <1>3 DEF FieldsOK
<1>5. \A x : ToSet(<<x>>) = {x}
  BY DEF ToSet
<1>6. CASE row[3] = "uint32"
  <2>1. item = Item(row[1], "varint", value)
    BY <1>2, <1>5, <1>6 DEF Write, has
  <2> QED
    BY <1>2, <1>4, <1>6, <2>1 DEF Item, Wire, Shaped, Suits, Value
<1>7. CASE row[3] = "sint32"
  <2>1. item = Item(row[1], "varint", ZigZagEncode(value))
    BY <1>2, <1>5, <1>7 DEF Write, has
  <2>2. ZigZagEncode(value) \in Nat
    BY <1>4, <1>7, ZigZag DEF Value
  <2> QED
    BY <1>2, <1>4, <1>7, <2>1, <2>2 DEF Item, Wire, Shaped, Suits
<1>8. CASE row[3] = "bytes"
  <2>1. item = Item(row[1], "length", value)
    BY <1>2, <1>5, <1>8 DEF Write, has
  <2> QED
    BY <1>2, <1>4, <1>8, <2>1 DEF Item, Wire, Shaped, Suits, Value
<1>9. CASE row[3] = "string"
  <2>1. Write(row, group) = [j \in DOMAIN value |-> Item(row[1], "length", value[j])]
    BY <1>2, <1>9 DEF Write, has
  <2>2. PICK j \in DOMAIN value : item = Item(row[1], "length", value[j])
    BY <2>1 DEF ToSet
  <2>3. value[j] \in Seq(Nat)
    <3>1. value \in Seq(Seq(Nat))
      BY <1>4, <1>9 DEF Value
    <3> QED
      BY <3>1, ElementOfSeq
  <2> QED
    BY <1>2, <1>4, <1>9, <2>2, <2>3 DEF Item, Wire, Shaped, Suits
<1>10. CASE row[3] = "packed"
  <2>1. item = Item(row[1], "length", value)
    <3>1. ToSet(<<>>) = {}
      BY DEF ToSet
    <3> QED
      BY <1>2, <1>5, <1>10, <3>1 DEF Write, has
  <2> QED
    BY <1>2, <1>4, <1>10, <2>1 DEF Item, Wire, Shaped, Suits, Value
<1> QED
  BY <1>1, <1>2, <1>4, <1>6, <1>7, <1>8, <1>9, <1>10 DEF Kinds, Shaped

LEMMA StepFound ==
    ASSUME NEW name \in DOMAIN Group, NEW s, s.status = "reading", NEW item,
           NEW row \in Group[name].parse, row[1] = item.number, item.wire \in Wire[row[3]]
    PROVE  Step(name, s, item) = ReadField(Group[name].clear, row, s, item)
<1> DEFINE rows == {r \in Group[name].parse : r[1] = item.number /\ item.wire \in Wire[r[3]]}
<1>1. rows = {row}
  BY Rows DEF RowsOK
<1>2. item.wire # "end"
  <2>1. row[3] \in Kinds
    BY Rows DEF RowsOK
  <2> QED
    BY <2>1 DEF Kinds, Wire
<1>3. (CHOOSE r \in rows : TRUE) = row
  BY <1>1
<1>4. Step(name, s, item) = MergePartialFromCodedStream(Group[name], s, item)
  BY RecRegRows DEF Step
<1>5. MergePartialFromCodedStream(Group[name], s, item)
        = ReadField(Group[name].clear, CHOOSE r \in rows : TRUE, s, item)
  BY <1>1, <1>2 DEF MergePartialFromCodedStream
<1> QED
  BY <1>3, <1>4, <1>5

LEMMA StepForeign ==
    ASSUME NEW name \in DOMAIN Group, NEW s, s.status = "reading", NEW item,
           Foreign(Group[name].parse, item)
    PROVE  Step(name, s, item) = SkipField(s, item)
<1>1. {r \in Group[name].parse : r[1] = item.number /\ item.wire \in Wire[r[3]]} = {}
  BY DEF Foreign
<1>2. Step(name, s, item) = MergePartialFromCodedStream(Group[name], s, item)
  BY RecRegRows DEF Step
<1> QED
  BY <1>1, <1>2 DEF MergePartialFromCodedStream, Foreign

\* What a field foreign to this message.proto leaves alone.
LEMMA SkipForeign ==
    ASSUME NEW s, s.status = "reading", NEW item, item.whole, IsMessage(s.message)
    PROVE  /\ SkipField(s, item).status = "reading"
           /\ SkipField(s, item).message.fields = s.message.fields
           /\ IsMessage(SkipField(s, item).message)
<1> DEFINE m == [s.message EXCEPT !.unknown = Append(@, item)]
<1>1. m.fields = s.message.fields /\ IsMessage(m)
  BY DEF IsMessage
<1> QED
  BY <1>1 DEF SkipField

LEMMA PutFacts ==
    ASSUME NEW m, NEW name, NEW value
    PROVE  /\ IsMessage(put(m, name, value))
           /\ DOMAIN put(m, name, value).fields = DOMAIN m.fields \cup {name}
           /\ put(m, name, value).fields[name] = value
           /\ \A f \in DOMAIN m.fields \ {name} : put(m, name, value).fields[f] = m.fields[f]
<1> QED
  BY DEF put, IsMessage

\* A field read keeps the kinds of the message.
LEMMA PutType ==
    ASSUME NEW name \in DOMAIN Group, NEW m, FieldsOK(Group[name].fields, m.fields),
           NEW f \in DOMAIN Group[name].fields, NEW value \in Value(Group[name].fields[f])
    PROVE  FieldsOK(Group[name].fields, put(m, f, value).fields)
<1> HIDE DEF Value
<1> QED
  BY PutFacts DEF FieldsOK

LEMMA OldType ==
    ASSUME NEW name \in DOMAIN Group, NEW m, FieldsOK(Group[name].fields, m.fields), NEW clear,
           NEW f \in DOMAIN Group[name].fields, Group[name].fields[f] \in Repeated
    PROVE  get(m, clear, f) \in Value(Group[name].fields[f])
<1>1. Group[name].fields[f] # "group"
  BY DEF Repeated
<1> QED
  BY <1>1 DEF FieldsOK, get, has

\* A field more was read.
ReadsField(t, s, name, group, row) ==
    /\ t.status = "reading" /\ GroupState(t, name, group, TRUE)
    /\ DOMAIN t.message.fields = DOMAIN s.message.fields \cup {row[2]}

LEMMA StepWritten ==
    ASSUME NEW name \in DOMAIN Group, NEW group, FieldsOK(Group[name].fields, group.fields),
           NEW s, s.status = "reading", GroupState(s, name, group, TRUE),
           NEW row \in Group[name].parse, NEW item \in ToSet(Write(row, group))
    PROVE  ReadsField(Step(name, s, item), s, name, group, row)
<1> DEFINE t == Step(name, s, item)
           f == row[2]
           kinds == Group[name].fields
           clear == Group[name].clear
           value == Read(row[3], get(s.message, clear, f), item)
<1>1. f \in DOMAIN kinds /\ row[3] = kinds[f] /\ row[3] \in Kinds
  BY Rows DEF RowsOK
<1>2. /\ f \in DOMAIN group.fields /\ group.fields[f] \in Value(row[3])
      /\ item.number = row[1] /\ item.whole = TRUE /\ item.wire \in Wire[row[3]]
      /\ Suits(row[3], item)
      /\ row[3] \in {"uint32", "bytes"} => item.value = group.fields[f]
      /\ row[3] = "sint32" => item.value = ZigZagEncode(group.fields[f])
  <2>1. row[2] \in DOMAIN group.fields /\ Shaped(item, row, group.fields[row[2]])
    BY WriteShape
  <2> QED
    BY <2>1 DEF Shaped
<1>3. t = ReadField(clear, row, s, item)
  BY <1>2, StepFound
<1>4. t.message = put(s.message, f, value) /\ t.status = "reading"
  BY <1>2, <1>3 DEF ReadField
<1>5. IsMessage(s.message) /\ FieldsOK(kinds, s.message.fields) /\ Says(kinds, s.message.fields, group.fields, TRUE)
  BY DEF GroupState
<1>6. row[3] \in Repeated => get(s.message, clear, f) \in Value(row[3])
  BY <1>1, <1>5, OldType
<1>7. value \in Value(row[3])
  BY <1>1, <1>2, <1>6, ReadType
<1>8. row[3] \notin Repeated => value = group.fields[f]
  <2>1. CASE row[3] = "sint32"
    <3>1. group.fields[f] \in Int
      BY <1>2, <2>1 DEF Value
    <3> QED
      BY <1>2, <2>1, <3>1, ZigZag DEF Read
  <2>2. CASE row[3] \in {"uint32", "bytes"}
    BY <1>2, <2>2 DEF Read
  <2> QED
    BY <1>1, <2>1, <2>2 DEF Kinds, Repeated
<1> HIDE DEF t, value, f, kinds, clear
<1>9. FieldsOK(kinds, t.message.fields)
  BY <1>1, <1>4, <1>5, <1>7, PutType DEF kinds
<1>10. Says(kinds, t.message.fields, group.fields, TRUE)
  BY <1>1, <1>2, <1>4, <1>5, <1>8, PutFacts DEF Says
<1>11. IsMessage(t.message) /\ DOMAIN t.message.fields = DOMAIN s.message.fields \cup {f}
  BY <1>4, PutFacts
<1>12. GroupState(t, name, group, TRUE)
  BY <1>9, <1>10, <1>11 DEF GroupState, kinds
<1> QED
  BY <1>4, <1>11, <1>12 DEF t, f, ReadsField

LEMMA PrefixFacts ==
    ASSUME NEW S, NEW q \in Seq(S), NEW n \in 0..Len(q)
    PROVE  SubSeq(q, 1, n) \in Seq(S) /\ IsPrefix(SubSeq(q, 1, n), q)
<1>1. SubSeq(q, 1, n) \in Seq(S) /\ Len(SubSeq(q, 1, n)) = n
      /\ \A j \in 1..n : SubSeq(q, 1, n)[j] = q[j]
  BY SubSeqProperties
<1> DEFINE p == SubSeq(q, 1, n)
<1> HIDE DEF p
<1>2. p \in Seq(S) /\ Len(p) = n
  BY <1>1 DEF p
<1>3. SubSeq(p, 1, Len(p)) = p
  BY <1>2
<1>4. Len(p) <= Len(q) /\ SubSeq(q, 1, Len(p)) = p
  BY <1>2 DEF p
<1> QED
  BY <1>1, <1>3, <1>4 DEF IsPrefix, p

LEMMA StepBeginning ==
    ASSUME NEW name \in DOMAIN Group, NEW group, FieldsOK(Group[name].fields, group.fields),
           NEW s, s.status = "reading", GroupState(s, name, group, TRUE),
           NEW row \in Group[name].parse, NEW full \in ToSet(Write(row, group)),
           NEW item, Beginning(item, full)
    PROVE  /\ GroupState(Step(name, s, item), name, group, FALSE)
           /\ DOMAIN s.message.fields \subseteq DOMAIN Step(name, s, item).message.fields
<1> DEFINE t == Step(name, s, item)
           f == row[2]
           kinds == Group[name].fields
           clear == Group[name].clear
           value == Read(row[3], get(s.message, clear, f), item)
<1>1. f \in DOMAIN kinds /\ row[3] = kinds[f] /\ row[3] \in Kinds
  BY Rows DEF RowsOK
<1>2. /\ f \in DOMAIN group.fields /\ group.fields[f] \in Value(row[3])
      /\ full.number = row[1] /\ full.wire \in Wire[row[3]]
      /\ full.wire = (IF row[3] \in {"uint32", "sint32"} THEN "varint" ELSE "length")
      /\ Suits(row[3], full)
      /\ row[3] = "bytes" => full.value = group.fields[f]
  <2>1. row[2] \in DOMAIN group.fields /\ Shaped(full, row, group.fields[row[2]])
    BY WriteShape
  <2> QED
    BY <2>1 DEF Shaped
<1>3. ~item.whole /\ item.number = row[1] /\ item.wire = full.wire
  BY <1>2 DEF Beginning
<1>4. t = ReadField(clear, row, s, item)
  BY <1>2, <1>3, StepFound
<1>5. IsMessage(s.message) /\ FieldsOK(kinds, s.message.fields) /\ Says(kinds, s.message.fields, group.fields, TRUE)
  BY DEF GroupState
<1>6. Says(kinds, s.message.fields, group.fields, FALSE)
  BY <1>5 DEF Says
<1>7. CASE item.wire # "length"
  <2>1. t.message = s.message
    BY <1>3, <1>4, <1>7 DEF ReadField
  <2> QED
    BY <1>5, <1>6, <2>1 DEF GroupState
<1>8. CASE item.wire = "length"
  <2>1. t.message = put(s.message, f, value)
    BY <1>3, <1>4, <1>8 DEF ReadField
  <2>2. row[3] \in {"bytes", "string", "packed"} /\ full.value \in Seq(Nat)
    BY <1>1, <1>2, <1>3, <1>8 DEF Suits, Kinds
  <2>3. PICK n \in 0..Len(full.value) : item.value = SubSeq(full.value, 1, n)
    BY <1>3, <1>8 DEF Beginning
  <2>4. item.value \in Seq(Nat) /\ IsPrefix(item.value, full.value)
    BY <2>2, <2>3, PrefixFacts
  <2>5. Suits(row[3], item)
    BY <1>8, <2>2, <2>4 DEF Suits
  <2>6. row[3] \in Repeated => get(s.message, clear, f) \in Value(row[3])
    BY <1>1, <1>5, OldType
  <2>7. value \in Value(row[3])
    BY <1>1, <2>5, <2>6, ReadType
  <2>8. row[3] \notin Repeated => row[3] = "bytes" /\ IsPrefix(value, group.fields[f])
    BY <1>2, <2>2, <2>4 DEF Repeated, Read
  <2> HIDE DEF t, value, f, kinds, clear
  <2>9. FieldsOK(kinds, t.message.fields)
    BY <1>1, <1>5, <2>1, <2>7, PutType DEF kinds
  <2>10. Says(kinds, t.message.fields, group.fields, FALSE)
    BY <1>1, <1>2, <1>6, <2>1, <2>8, PutFacts DEF Says
  <2>11. IsMessage(t.message) /\ DOMAIN t.message.fields = DOMAIN s.message.fields \cup {f}
    BY <2>1, PutFacts
  <2>12. GroupState(t, name, group, FALSE)
    BY <2>9, <2>10, <2>11 DEF GroupState, kinds
  <2> QED
    BY <2>1, <2>11, <2>12 DEF t, f
<1> QED
  BY <1>7, <1>8

-----------------------------------------------------------------------------
(* All items of a group.                                                   *)

LEMMA SeqFacts ==
    ASSUME NEW s, IsSeq(s)
    PROVE  s \in Seq(ToSet(s)) /\ Len(s) \in Nat /\ DOMAIN s = 1..Len(s)
<1>1. Len(s) \in Nat /\ s = [n \in 1..Len(s) |-> s[n]]
  BY DEF IsSeq
<1>2. DOMAIN s = 1..Len(s)
  BY <1>1
<1>3. \A n \in 1..Len(s) : s[n] \in ToSet(s)
  BY <1>2 DEF ToSet
<1>4. [n \in 1..Len(s) |-> s[n]] \in Seq(ToSet(s))
  BY <1>1, <1>3, IsASeq
<1> QED
  BY <1>1, <1>2, <1>4

\* The items of a group's fields.
Written(name, group) == UNION {ToSet(Write(row, group)) : row \in ToSet(Group[name].serialize)}

LEMMA GroupItems ==
    ASSUME NEW items, NEW name, NEW group, NEW whole \in BOOLEAN, EncodesGroup(items, name, group, whole)
    PROVE  /\ items \in Seq(ToSet(items))
           /\ \A n \in DOMAIN items :
                 \/ items[n] \in Written(name, group)
                 \/ Foreign(Group[name].parse, items[n])
                 \/ /\ ~whole /\ n = Len(items)
                    /\ \E full \in Written(name, group) : Beginning(items[n], full)
           /\ whole => Written(name, group) \subseteq ToSet(items)
<1> DEFINE rows == ToSet(Group[name].serialize)
<1>1. \A row \in rows : \A full \in ToSet(Write(row, group)) : full \in Written(name, group)
  BY DEF Written
<1>2. \A full \in Written(name, group) : \E row \in rows : full \in ToSet(Write(row, group))
  BY DEF Written
<1>3. \A x, y : Same(x, y) => x = y
  BY DEF Same
<1> HIDE DEF rows
<1>4. items \in Seq(ToSet(items))
  BY SeqFacts DEF EncodesGroup
<1>5. ASSUME NEW n \in DOMAIN items
      PROVE  \/ items[n] \in Written(name, group)
             \/ Foreign(Group[name].parse, items[n])
             \/ /\ ~whole /\ n = Len(items)
                /\ \E full \in Written(name, group) : Beginning(items[n], full)
  BY <1>1, <1>3 DEF EncodesGroup, rows
<1>6. ASSUME whole, NEW full \in Written(name, group) PROVE full \in ToSet(items)
  <2>1. PICK row \in rows : full \in ToSet(Write(row, group))
    BY <1>2
  <2>2. PICK n \in DOMAIN items : Same(items[n], full)
    BY <1>6, <2>1 DEF EncodesGroup, rows
  <2> QED
    BY <1>3, <2>2 DEF ToSet
<1> QED
  BY <1>4, <1>5, <1>6

\* Every field that can be printed was read.
Complete(kinds, part, full) ==
    \A f \in DOMAIN full : kinds[f] \notin Repeated => f \in DOMAIN part

LEMMA GroupRead ==
    ASSUME NEW name \in DOMAIN Group, NEW group, FieldsOK(Group[name].fields, group.fields),
           NEW s0, s0.status = "reading", GroupState(s0, name, group, TRUE),
           NEW whole \in BOOLEAN, NEW items, EncodesGroup(items, name, group, whole)
    PROVE  LET t == ReadItems(name, s0, items)
           IN  /\ GroupState(t, name, group, whole)
               /\ DOMAIN s0.message.fields \subseteq DOMAIN t.message.fields
               /\ whole => /\ t.status = "reading"
                           /\ Complete(Group[name].fields, t.message.fields, group.fields)
<1> DEFINE L == Len(items)
           V == ToSet(items)
           P == Group[name].parse
<1>1. /\ items \in Seq(V)
      /\ \A n \in DOMAIN items :
            \/ items[n] \in Written(name, group)
            \/ Foreign(P, items[n])
            \/ /\ ~whole /\ n = L
               /\ \E full \in Written(name, group) : Beginning(items[n], full)
      /\ whole => Written(name, group) \subseteq V
  BY GroupItems
<1>2. L \in Nat /\ DOMAIN items = 1..L
  BY <1>1
<1>3. name # "RecReg"
  BY RecRegRows
<1>4. PICK g : IsRun(g, name, s0, items) /\ ReadItems(name, s0, items) = g[L]
  BY <1>1, <1>3, GroupRun
<1>5. g[0] = s0 /\ \A n \in 1..L : g[n] = Step(name, g[n - 1], items[n])
  BY <1>4 DEF IsRun
<1>6. /\ \A r, q \in P : r[1] = q[1] => r = q
      /\ ToSet(Group[name].serialize) \subseteq P
      /\ \A f \in DOMAIN Group[name].fields : \E r \in ToSet(Group[name].serialize) : r[2] = f
      /\ \A r \in P : r[3] = Group[name].fields[r[2]] /\ r[3] \in Kinds
  BY Rows DEF RowsOK
<1>7. \A x \in Written(name, group) : \E r \in P : x \in ToSet(Write(r, group))
  BY <1>6 DEF Written
<1> DEFINE Here(n) == \A m \in 1..n : \A r \in P : items[m] \in ToSet(Write(r, group)) => r[2] \in DOMAIN g[n].message.fields
           Good(n) == /\ GroupState(g[n], name, group, TRUE) /\ g[n].status = "reading"
                      /\ DOMAIN s0.message.fields \subseteq DOMAIN g[n].message.fields
                      /\ Here(n)
           Bad(n) == /\ n = L /\ ~whole /\ GroupState(g[n], name, group, FALSE)
                     /\ DOMAIN s0.message.fields \subseteq DOMAIN g[n].message.fields
           N == {n \in Nat : n <= L => Good(n) \/ Bad(n)}
<1>8. 0 \in N
  <2>1. 1..0 = {}
    OBVIOUS
  <2>2. Good(0)
    BY <1>5, <2>1
  <2> HIDE DEF Good, Bad
  <2> QED
    BY <2>2
<1>9. ASSUME NEW n \in Nat, n \in N PROVE n + 1 \in N
  <2> HIDE DEF Good, Bad
  <2> SUFFICES ASSUME n + 1 <= L PROVE Good(n + 1) \/ Bad(n + 1)
    OBVIOUS
  <2> DEFINE x == items[n + 1]
             t == Step(name, g[n], x)
  <2>1. n + 1 \in 1..L /\ (n + 1) - 1 = n /\ n <= L /\ n # L
    <3> HIDE DEF L
    <3> QED
      BY <1>2
  <2>2. /\ GroupState(g[n], name, group, TRUE) /\ g[n].status = "reading"
        /\ DOMAIN s0.message.fields \subseteq DOMAIN g[n].message.fields
        /\ Here(n)
    BY <1>9, <2>1 DEF Good, Bad
  <2>3. g[n + 1] = t
    BY <1>5, <2>1
  <2> HIDE DEF L, V, P
  <2>4. CASE x \in Written(name, group)
    <3>1. PICK r \in P : x \in ToSet(Write(r, group))
      BY <1>7, <2>4
    <3>2. /\ t.status = "reading" /\ GroupState(t, name, group, TRUE)
          /\ DOMAIN t.message.fields = DOMAIN g[n].message.fields \cup {r[2]}
      <4>1. r \in Group[name].parse /\ x \in ToSet(Write(r, group))
        BY <3>1 DEF P
      <4>2. GroupState(g[n], name, group, TRUE) /\ g[n].status = "reading"
        BY <2>2
      <4>3. ReadsField(t, g[n], name, group, r)
        BY <4>1, <4>2, StepWritten
      <4> QED
        BY <4>3 DEF ReadsField
    <3>3. ASSUME NEW q \in P, x \in ToSet(Write(q, group)) PROVE q = r
      <4>1. Shaped(x, q, group.fields[q[2]]) /\ Shaped(x, r, group.fields[r[2]])
        BY <3>1, <3>3, WriteShape DEF P
      <4>2. q[1] = r[1]
        BY <4>1 DEF Shaped
      <4> QED
        BY <1>6, <4>2
    <3> HIDE DEF t, x
    <3>4. Here(n + 1)
      <4>1. SUFFICES ASSUME NEW m \in 1..(n + 1), NEW q \in P, items[m] \in ToSet(Write(q, group))
                     PROVE  q[2] \in DOMAIN g[n + 1].message.fields
        OBVIOUS
      <4>2. CASE m = n + 1
        BY <2>3, <3>2, <3>3, <4>1, <4>2 DEF x
      <4>3. CASE m # n + 1
        <5>1. m \in 1..n
          BY <4>3
        <5>2. q[2] \in DOMAIN g[n].message.fields
          BY <2>2, <4>1, <5>1
        <5> QED
          BY <2>3, <3>2, <5>2
      <4> QED
        BY <4>2, <4>3
    <3> HIDE DEF Here
    <3> QED
      BY <2>2, <2>3, <3>2, <3>4 DEF Good
  <2>5. CASE Foreign(P, x) /\ x \notin Written(name, group)
    <3>1. t = SkipField(g[n], x)
      BY <2>2, <2>5, StepForeign DEF P
    <3>2. IsMessage(g[n].message) /\ x.whole
      BY <2>2, <2>5 DEF GroupState, Foreign
    <3>3. /\ t.status = "reading" /\ t.message.fields = g[n].message.fields
          /\ IsMessage(t.message)
      BY <2>2, <3>1, <3>2, SkipForeign
    <3>4. GroupState(t, name, group, TRUE)
      BY <2>2, <3>3 DEF GroupState
    <3>5. ASSUME NEW q \in P, x \in ToSet(Write(q, group)) PROVE FALSE
      <4>1. Shaped(x, q, group.fields[q[2]])
        BY <3>5, WriteShape DEF P
      <4>2. x.number = q[1] /\ x.wire \in Wire[q[3]]
        BY <4>1 DEF Shaped
      <4> QED
        BY <2>5, <4>2 DEF Foreign
    <3> HIDE DEF t, x
    <3>6. Here(n + 1)
      <4>1. SUFFICES ASSUME NEW m \in 1..(n + 1), NEW q \in P, items[m] \in ToSet(Write(q, group))
                     PROVE  q[2] \in DOMAIN g[n + 1].message.fields
        OBVIOUS
      <4>2. CASE m = n + 1
        BY <3>5, <4>1, <4>2 DEF x
      <4>3. CASE m # n + 1
        <5>1. m \in 1..n
          BY <4>3
        <5>2. q[2] \in DOMAIN g[n].message.fields
          BY <2>2, <4>1, <5>1
        <5> QED
          BY <2>3, <3>3, <5>2
      <4> QED
        BY <4>2, <4>3
    <3> HIDE DEF Here
    <3> QED
      BY <2>2, <2>3, <3>3, <3>4, <3>6 DEF Good
  <2>6. CASE ~whole /\ n + 1 = L /\ \E full \in Written(name, group) : Beginning(x, full)
    <3>0. PICK full \in Written(name, group) : Beginning(x, full)
      BY <2>6
    <3>1. PICK r \in P : full \in ToSet(Write(r, group))
      BY <1>7
    <3>2. /\ GroupState(t, name, group, FALSE)
          /\ DOMAIN g[n].message.fields \subseteq DOMAIN t.message.fields
      BY <2>2, <3>0, <3>1, StepBeginning DEF P
    <3> QED
      BY <2>2, <2>3, <2>6, <3>2 DEF Bad
  <2> QED
    BY <1>1, <1>2, <2>1, <2>4, <2>5, <2>6 DEF P, L
<1> HIDE DEF N
<1>10. L \in N
  BY <1>2, <1>8, <1>9, NumberInduction
<1>11. Good(L) \/ Bad(L)
  <2> HIDE DEF Good, Bad, L
  <2> QED
    BY <1>2, <1>10 DEF N
<1>12. CASE Bad(L)
  BY <1>4, <1>12
<1>13. CASE Good(L)
  <2>1. GroupState(g[L], name, group, whole)
    BY <1>13 DEF GroupState, Says
  <2>2. ASSUME whole, NEW f \in DOMAIN group.fields, Group[name].fields[f] \notin Repeated
        PROVE  f \in DOMAIN g[L].message.fields
    <3>1. f \in DOMAIN Group[name].fields
      BY <2>2 DEF FieldsOK
    <3>2. PICK r \in ToSet(Group[name].serialize) : r[2] = f
      BY <1>6, <3>1
    <3>3. r \in P /\ r[3] \in {"uint32", "sint32", "bytes"}
      BY <1>6, <2>2, <3>2 DEF Kinds, Repeated
    <3>4. \E x : x \in ToSet(Write(r, group))
      <4>1. \A x : x \in ToSet(<<x>>)
        BY DEF ToSet
      <4>2. \E x : Write(r, group) = <<x>>
        BY <2>2, <3>2, <3>3 DEF Write, has
      <4> QED
        BY <4>1, <4>2
    <3>5. PICK x : x \in ToSet(Write(r, group))
      BY <3>4
    <3>6. x \in V
      BY <1>1, <2>2, <3>2, <3>5 DEF Written
    <3>7. PICK m \in 1..L : items[m] = x
      BY <1>2, <3>6 DEF ToSet
    <3> QED
      BY <1>13, <3>2, <3>3, <3>5, <3>7
  <2> QED
    BY <1>4, <1>13, <2>1, <2>2 DEF Complete
<1> QED
  BY <1>11, <1>12, <1>13

-----------------------------------------------------------------------------
(* One item of a record.                                                   *)

\* The same as GroupState, of a record.
RecordState(s, m, exact) ==
    /\ IsMessage(s.message) /\ MessageOK(s.message)
    /\ \A name \in DOMAIN s.message.fields \ {"mID"} :
          /\ name \in DOMAIN m.fields
          /\ IsMessage(s.message.fields[name])
          /\ Says(Group[name].fields, s.message.fields[name].fields, m.fields[name].fields, exact)

LEMMA MessageFacts ==
    ASSUME NEW m, MessageOK(m)
    PROVE  /\ "mID" \in DOMAIN m.fields /\ m.fields.mID \in Seq(Nat)
           /\ DOMAIN m.fields \ {"mID"} \subseteq DOMAIN Group
           /\ \A name \in DOMAIN m.fields \ {"mID"} : FieldsOK(Group[name].fields, m.fields[name].fields)
<1>1. FieldsOK(RecReg, m.fields) /\ RecReg["mID"] = "packed" /\ "mID" \in DOMAIN RecReg
  BY RecRegRows DEF MessageOK
<1>2. Value("packed") = Seq(Nat)
  BY DEF Value
<1>3. "mID" \in DOMAIN m.fields /\ m.fields["mID"] \in Value("packed")
  BY <1>1 DEF FieldsOK, Repeated
<1>4. DOMAIN m.fields \ {"mID"} \subseteq DOMAIN Group
  BY <1>1, RecRegRows DEF FieldsOK
<1> QED
  BY <1>2, <1>3, <1>4 DEF MessageOK

LEMMA PutGroup ==
    ASSUME NEW m, MessageOK(m), NEW name \in DOMAIN Group, NEW group,
           FieldsOK(Group[name].fields, group.fields)
    PROVE  MessageOK(put(m, name, group))
<1> DEFINE p == put(m, name, group)
<1>1. /\ DOMAIN p.fields = DOMAIN m.fields \cup {name} /\ p.fields[name] = group
      /\ \A f \in DOMAIN m.fields \ {name} : p.fields[f] = m.fields[f]
  BY PutFacts
<1>2. name \in DOMAIN RecReg /\ RecReg[name] = "group" /\ name # "mID"
  BY RecRegRows
<1> HIDE DEF p
<1>3. FieldsOK(RecReg, p.fields)
  BY <1>1, <1>2 DEF MessageOK, FieldsOK
<1>4. \A n \in DOMAIN p.fields \ {"mID"} : FieldsOK(Group[n].fields, p.fields[n].fields)
  BY <1>1 DEF MessageOK
<1>5. MessageOK(p)
  BY <1>3, <1>4 DEF MessageOK
<1> QED
  BY <1>5 DEF p

LEMMA PutEvents ==
    ASSUME NEW m, MessageOK(m), NEW mids \in Seq(Nat)
    PROVE  MessageOK(put(m, "mID", mids))
<1> DEFINE p == put(m, "mID", mids)
<1>1. /\ DOMAIN p.fields = DOMAIN m.fields \cup {"mID"} /\ p.fields["mID"] = mids
      /\ \A f \in DOMAIN m.fields \ {"mID"} : p.fields[f] = m.fields[f]
  BY PutFacts
<1>2. "mID" \in DOMAIN RecReg /\ RecReg["mID"] = "packed"
  BY RecRegRows
<1>3. mids \in Value("packed")
  BY DEF Value
<1> HIDE DEF p
<1>4. FieldsOK(RecReg, p.fields)
  BY <1>1, <1>2, <1>3 DEF MessageOK, FieldsOK
<1>5. \A n \in DOMAIN p.fields \ {"mID"} : FieldsOK(Group[n].fields, p.fields[n].fields)
  BY <1>1 DEF MessageOK
<1>6. MessageOK(p)
  BY <1>4, <1>5 DEF MessageOK
<1> QED
  BY <1>6 DEF p

\* A group just made holds nothing that could be printed.
LEMMA MutableState ==
    ASSUME NEW m, MessageOK(m), NEW s, RecordState(s, m, TRUE),
           NEW name \in DOMAIN Group, name \in DOMAIN m.fields
    PROVE  GroupState([message |-> mutable(s.message, name), status |-> "reading"], name,
                      m.fields[name], TRUE)
<1> DEFINE kinds == Group[name].fields
           p == mutable(s.message, name)
<1>1. name # "mID"
  BY RecRegRows
<1>2. CASE name \in DOMAIN s.message.fields
  <2>1. p = s.message.fields[name]
    BY <1>2 DEF mutable, has
  <2>2. IsMessage(p) /\ Says(kinds, p.fields, m.fields[name].fields, TRUE) /\ FieldsOK(kinds, p.fields)
    BY <1>1, <1>2, <2>1 DEF RecordState, MessageOK
  <2> HIDE DEF p
  <2> QED
    BY <2>2 DEF GroupState, p
<1>3. CASE name \notin DOMAIN s.message.fields
  <2>1. p = SharedCtor(kinds)
    BY <1>3 DEF mutable, has
  <2>2. /\ IsMessage(p) /\ DOMAIN p.fields = {n \in DOMAIN kinds : kinds[n] \in Repeated}
        /\ \A n \in DOMAIN p.fields : p.fields[n] = <<>>
    BY <2>1 DEF SharedCtor, IsMessage
  <2>3. <<>> \in Value("packed") /\ <<>> \in Value("string")
    BY EmptySeq DEF Value
  <2> HIDE DEF p, kinds
  <2>4. FieldsOK(kinds, p.fields)
    BY <2>2, <2>3 DEF FieldsOK, Repeated
  <2>5. Says(kinds, p.fields, m.fields[name].fields, TRUE)
    BY <2>2 DEF Says
  <2> QED
    BY <2>2, <2>4, <2>5 DEF GroupState, p, kinds
<1> QED
  BY <1>2, <1>3

LEMMA RecordGroup ==
    ASSUME NEW s, s.status = "reading", NEW item, item.wire = "group",
           NEW row \in RecReg_Parse, row[3] = "group", row[1] = item.number
    PROVE  Step("RecReg", s, item) = ReadGroup(row[2], s, item)
<1> DEFINE group == {r \in RecReg_Parse : r[1] = item.number /\ r[3] = "group"}
<1>1. group = {row}
  BY RecRegRows
<1>2. (CHOOSE r \in group : TRUE) = row
  BY <1>1
<1>3. Step("RecReg", s, item) = RecReg_MergePartial(s, item)
  BY DEF Step
<1>4. RecReg_MergePartial(s, item) = ReadGroup((CHOOSE r \in group : TRUE)[2], s, item)
  BY <1>1 DEF RecReg_MergePartial
<1> QED
  BY <1>2, <1>3, <1>4

LEMMA RecordEvents ==
    ASSUME NEW s, s.status = "reading", NEW item, item.wire = "length", item.number = 1
    PROVE  Step("RecReg", s, item) = ReadField([mID |-> <<>>], <<1, "mID", "packed">>, s, item)
<1> DEFINE row == <<1, "mID", "packed">>
           parse == {r \in RecReg_Parse : r[3] # "group"}
           rows == {r \in parse : r[1] = item.number /\ item.wire \in Wire[r[3]]}
<1>1. parse = {row}
  BY RecRegRows
<1>2. item.wire \in Wire["packed"]
  BY DEF Wire
<1>3. rows = {row}
  BY <1>1, <1>2
<1>4. (CHOOSE r \in rows : TRUE) = row
  BY <1>3
<1>5. Step("RecReg", s, item) = RecReg_MergePartial(s, item)
  BY DEF Step
<1>6. RecReg_MergePartial(s, item) = MergePartialFromCodedStream([clear |-> [mID |-> <<>>], parse |-> parse], s, item)
  BY DEF RecReg_MergePartial
<1>7. MergePartialFromCodedStream([clear |-> [mID |-> <<>>], parse |-> parse], s, item)
        = ReadField([mID |-> <<>>], CHOOSE r \in rows : TRUE, s, item)
  BY <1>3 DEF MergePartialFromCodedStream
<1> QED
  BY <1>4, <1>5, <1>6, <1>7

LEMMA RecordForeign ==
    ASSUME NEW s, s.status = "reading", NEW item, Foreign(RecReg_Parse, item)
    PROVE  Step("RecReg", s, item) = SkipField(s, item)
<1> DEFINE parse == {r \in RecReg_Parse : r[3] # "group"}
           table == [clear |-> [mID |-> <<>>], parse |-> parse]
<1>1. {r \in parse : r[1] = item.number /\ item.wire \in Wire[r[3]]} = {}
  BY DEF Foreign
<1>2. item.wire = "group" => {r \in RecReg_Parse : r[1] = item.number /\ r[3] = "group"} = {}
  BY DEF Foreign, Wire
<1>3. Step("RecReg", s, item) = RecReg_MergePartial(s, item)
  BY DEF Step
<1>4. RecReg_MergePartial(s, item) = MergePartialFromCodedStream(table, s, item)
  BY <1>2 DEF RecReg_MergePartial
<1>5. MergePartialFromCodedStream(table, s, item) = SkipField(s, item)
  BY <1>1 DEF MergePartialFromCodedStream, Foreign
<1> QED
  BY <1>3, <1>4, <1>5

\* A group of the record was read.
TakesGroup(t, s, m, name, whole) ==
    /\ RecordState(t, m, whole)
    /\ t.message.fields["mID"] = s.message.fields["mID"]
    /\ DOMAIN t.message.fields = DOMAIN s.message.fields \cup {name}
    /\ \A f \in DOMAIN s.message.fields \ {name} : t.message.fields[f] = s.message.fields[f]
    /\ whole => /\ t.status = "reading"
                /\ Complete(Group[name].fields, t.message.fields[name].fields, m.fields[name].fields)

LEMMA StepGroup ==
    ASSUME NEW m, MessageOK(m), NEW s, s.status = "reading", RecordState(s, m, TRUE),
           NEW row \in RecReg_Parse, row[3] = "group", NEW item, Encoded(item, row, m)
    PROVE  TakesGroup(Step("RecReg", s, item), s, m, row[2], item.whole)
<1> DEFINE name == row[2]
           t == Step("RecReg", s, item)
           s0 == [message |-> mutable(s.message, name), status |-> "reading"]
           end == ReadItems(name, s0, item.value)
           whole == item.whole
<1>1. name \in DOMAIN Group /\ name # "mID"
  BY RecRegRows
<1>2. /\ name \in DOMAIN m.fields /\ item.number = row[1] /\ item.wire = "group"
      /\ whole \in BOOLEAN /\ EncodesGroup(item.value, name, m.fields[name], whole)
  BY DEF Encoded, has
<1>3. FieldsOK(Group[name].fields, m.fields[name].fields)
  BY <1>1, <1>2 DEF MessageOK
<1>4. GroupState(s0, name, m.fields[name], TRUE)
  BY <1>1, <1>2, MutableState
<1>5. s0.status = "reading"
  OBVIOUS
<1>6. t = ReadGroup(name, s, item)
  BY <1>2, RecordGroup
<1>7. /\ t.message = put(s.message, name, end.message)
      /\ t.status = IF end.status = "reading" /\ whole THEN "reading" ELSE "failed"
  BY <1>6 DEF ReadGroup
<1> HIDE DEF s0, name, whole
<1>8. /\ GroupState(end, name, m.fields[name], whole)
      /\ whole => /\ end.status = "reading"
                  /\ Complete(Group[name].fields, end.message.fields, m.fields[name].fields)
  BY <1>1, <1>2, <1>3, <1>4, <1>5, GroupRead
<1> HIDE DEF t, end
<1> DEFINE old == s.message.fields
           new == t.message.fields
<1>9. /\ IsMessage(t.message) /\ DOMAIN new = DOMAIN old \cup {name} /\ new[name] = end.message
      /\ \A f \in DOMAIN old \ {name} : new[f] = old[f]
  BY <1>7, PutFacts
<1>10. IsMessage(s.message) /\ MessageOK(s.message) /\ "mID" \in DOMAIN old
  BY MessageFacts DEF RecordState
<1>11. IsMessage(end.message) /\ FieldsOK(Group[name].fields, end.message.fields)
       /\ Says(Group[name].fields, end.message.fields, m.fields[name].fields, whole)
  BY <1>8 DEF GroupState
<1>12. MessageOK(t.message)
  BY <1>1, <1>7, <1>10, <1>11, PutGroup
<1>13. ASSUME NEW n \in DOMAIN new \ {"mID"}
       PROVE  /\ n \in DOMAIN m.fields
              /\ IsMessage(new[n])
              /\ Says(Group[n].fields, new[n].fields, m.fields[n].fields, whole)
  <2>1. CASE n = name
    BY <1>2, <1>9, <1>11, <2>1
  <2>2. CASE n # name
    <3>1. n \in DOMAIN old \ {"mID"} /\ new[n] = old[n]
      BY <1>9, <2>2
    <3>2. /\ n \in DOMAIN m.fields
          /\ IsMessage(old[n])
          /\ Says(Group[n].fields, old[n].fields, m.fields[n].fields, TRUE)
      BY <3>1 DEF RecordState
    <3>3. Says(Group[n].fields, old[n].fields, m.fields[n].fields, whole)
      BY <3>2 DEF Says
    <3> QED
      BY <3>1, <3>2, <3>3
  <2> QED
    BY <2>1, <2>2
<1>14. RecordState(t, m, whole)
  BY <1>9, <1>12, <1>13 DEF RecordState
<1>15. new["mID"] = old["mID"]
  BY <1>1, <1>9, <1>10
<1>16. TakesGroup(t, s, m, name, whole)
  BY <1>7, <1>8, <1>9, <1>14, <1>15 DEF TakesGroup
<1> QED
  BY <1>16 DEF t, name, whole

\* The events of the record were read, or the first of them.
TakesEvents(t, s, m, item) ==
    /\ RecordState(t, m, TRUE)
    /\ t.message.fields["mID"] = item.value
    /\ DOMAIN t.message.fields = DOMAIN s.message.fields
    /\ \A f \in DOMAIN s.message.fields \ {"mID"} : t.message.fields[f] = s.message.fields[f]
    /\ item.whole => t.status = "reading"

LEMMA StepEvents ==
    ASSUME NEW m, MessageOK(m), NEW s, s.status = "reading", RecordState(s, m, TRUE),
           s.message.fields["mID"] = <<>>,
           NEW item, IsEvents(item), item.value \in Seq(Nat)
    PROVE  TakesEvents(Step("RecReg", s, item), s, m, item)
<1> DEFINE t == Step("RecReg", s, item)
           row == <<1, "mID", "packed">>
           clear == [mID |-> <<>>]
           value == Read(row[3], get(s.message, clear, row[2]), item)
           old == s.message.fields
           new == t.message.fields
<1>1. item.wire = "length" /\ item.number = 1
  BY DEF IsEvents
<1>2. t = ReadField(clear, row, s, item)
  BY <1>1, RecordEvents
<1>3. t.message = put(s.message, "mID", value) /\ (item.whole => t.status = "reading")
  BY <1>1, <1>2 DEF ReadField
<1>4. IsMessage(s.message) /\ MessageOK(s.message) /\ "mID" \in DOMAIN old
  BY MessageFacts DEF RecordState
<1>5. get(s.message, clear, "mID") = <<>>
  BY <1>4 DEF get, has
<1>6. value = <<>> \o item.value
  BY <1>1, <1>5 DEF Read
<1>7. <<>> \o item.value = item.value
  BY ConcatEmptySeq
<1>8. value = item.value
  BY <1>6, <1>7
<1> HIDE DEF t, value
<1>9. /\ IsMessage(t.message) /\ DOMAIN new = DOMAIN old \cup {"mID"} /\ new["mID"] = item.value
      /\ \A f \in DOMAIN old \ {"mID"} : new[f] = old[f]
  BY <1>3, <1>8, PutFacts
<1>10. MessageOK(t.message)
  BY <1>3, <1>4, <1>8, PutEvents
<1>11. RecordState(t, m, TRUE)
  <2>1. ASSUME NEW n \in DOMAIN new \ {"mID"}
        PROVE  /\ n \in DOMAIN m.fields
               /\ IsMessage(new[n])
               /\ Says(Group[n].fields, new[n].fields, m.fields[n].fields, TRUE)
    <3>1. n \in DOMAIN old \ {"mID"} /\ new[n] = old[n]
      BY <1>9
    <3> QED
      BY <3>1 DEF RecordState
  <2> QED
    BY <1>9, <1>10, <2>1 DEF RecordState
<1>12. TakesEvents(t, s, m, item)
  BY <1>3, <1>4, <1>9, <1>11 DEF TakesEvents
<1> QED
  BY <1>12 DEF t

\* An item of the events' row holds them, or the first of them.
LEMMA EventsShape ==
    ASSUME NEW m, MessageOK(m), NEW row \in RecReg_Parse, row[3] # "group",
           NEW item, Encoded(item, row, m)
    PROVE  /\ IsEvents(item) /\ item.value \in Seq(Nat) /\ IsPrefix(item.value, m.fields["mID"])
           /\ item.whole => item.value = m.fields["mID"]
<1> DEFINE mids == m.fields["mID"]
<1>1. row = <<1, "mID", "packed">>
  BY RecRegRows
<1>2. "mID" \in DOMAIN m.fields /\ mids \in Seq(Nat)
  BY MessageFacts
<1>3. PICK full \in ToSet(Write(row, m)) : item = full \/ Beginning(item, full)
  BY <1>1 DEF Encoded, Same
<1>4. full = Item(1, "length", mids)
  <2>1. ToSet(<<>>) = {} /\ \A x : ToSet(<<x>>) = {x}
    BY DEF ToSet
  <2> QED
    BY <1>1, <1>2, <2>1 DEF Write, has
<1>5. full.number = 1 /\ full.wire = "length" /\ full.value = mids /\ full.whole = TRUE
  BY <1>4 DEF Item
<1>6. mids \in Seq(Nat) /\ IsPrefix(mids, mids)
  <2>1. SubSeq(mids, 1, Len(mids)) = mids /\ Len(mids) \in 0..Len(mids)
    BY <1>2
  <2> QED
    BY <1>2, <2>1, PrefixFacts
<1>7. CASE item = full
  BY <1>5, <1>6, <1>7 DEF IsEvents
<1>8. CASE Beginning(item, full)
  <2>1. PICK n \in 0..Len(mids) : item.value = SubSeq(mids, 1, n)
    BY <1>5, <1>8 DEF Beginning
  <2>2. item.value \in Seq(Nat) /\ IsPrefix(item.value, mids)
    BY <1>2, <2>1, PrefixFacts
  <2> QED
    BY <1>5, <1>8, <2>2 DEF IsEvents, Beginning
<1> QED
  BY <1>3, <1>7, <1>8

-----------------------------------------------------------------------------
(* A whole record.                                                         *)

\* What the parser makes of the bytes of a message, or of their beginning.
Reads(p, m, whole) ==
    /\ MessageOK(p)
    /\ IsPrefix(p.fields["mID"], m.fields["mID"])
    /\ whole => p.fields["mID"] = m.fields["mID"]
    /\ \A name \in DOMAIN p.fields \ {"mID"} :
          /\ name \in DOMAIN m.fields
          /\ Says(Group[name].fields, p.fields[name].fields, m.fields[name].fields, whole)
    /\ whole => \A name \in DOMAIN m.fields \ {"mID"} :
                   /\ name \in DOMAIN p.fields
                   /\ Complete(Group[name].fields, p.fields[name].fields, m.fields[name].fields)

LEMMA EmptyRecord ==
    ASSUME NEW m
    PROVE  /\ RecordState(Reading, m, TRUE) /\ Reading.status = "reading"
           /\ Reading.message.fields["mID"] = <<>>
<1>1. {n \in DOMAIN RecReg : RecReg[n] \in Repeated} = {"mID"}
  BY DEF RecReg, Repeated
<1>2. Reading.message = [fields |-> [n \in {"mID"} |-> <<>>], unknown |-> <<>>]
  BY <1>1 DEF Reading, SharedCtor
<1>3. Reading.status = "reading"
  BY DEF Reading
<1> DEFINE p == Reading.message
<1>4. p.fields = [n \in {"mID"} |-> <<>>] /\ IsMessage(p)
  BY <1>2 DEF IsMessage
<1> HIDE DEF p
<1>5. DOMAIN p.fields = {"mID"} /\ p.fields["mID"] = <<>>
  BY <1>4
<1>6. <<>> \in Value("packed")
  BY EmptySeq DEF Value
<1>7. MessageOK(p)
  <2>1. \A n \in DOMAIN RecReg : RecReg[n] \in Repeated => n = "mID"
    BY <1>1
  <2>2. RecReg["mID"] = "packed" /\ "mID" \in DOMAIN RecReg
    BY RecRegRows
  <2> QED
    BY <1>5, <1>6, <2>1, <2>2 DEF MessageOK, FieldsOK
<1>8. RecordState(Reading, m, TRUE)
  BY <1>4, <1>5, <1>7 DEF RecordState, p
<1> QED
  BY <1>3, <1>5, <1>8 DEF p

\* Whatever the order of the fields and whatever foreign ones stand between
\* them, ParseFromArray makes of the bytes of a message that message, and of
\* their beginning one that says less: the first events, fields with their
\* values, the beginning of a text (MergePartialFromCodedStream of the record
\* and its groups, message.pb.cc).
THEOREM RecordRead ==
    ASSUME NEW m, MessageOK(m), NEW whole \in BOOLEAN, NEW items, Encodes(items, m, whole)
    PROVE  Reads(ParseFromArray(items).message, m, whole)
<1> DEFINE L == Len(items)
           V == ToSet(items)
           mids == m.fields["mID"]
           Groups == DOMAIN m.fields \ {"mID"}
<1>1. /\ items \in Seq(V)
      /\ \A n \in DOMAIN items :
            /\ \/ Foreign(RecReg_Parse, items[n])
               \/ \E row \in RecReg_Parse : Encoded(items[n], row, m)
            /\ ~items[n].whole => ~whole /\ n = L
            /\ IsEvents(items[n]) => \A j \in 1..n - 1 : ~IsEvents(items[j])
      /\ whole => \A row \in RecReg_Parse :
                     (IF row[3] = "group" THEN has(m, row[2]) ELSE Write(row, m) # <<>>)
                         => \E n \in DOMAIN items : Encoded(items[n], row, m)
  <2>1. ToSet(RecReg_Serialize) = RecReg_Parse
    BY RecRegRows
  <2>2. items \in Seq(V)
    BY SeqFacts DEF Encodes
  <2> QED
    BY <2>1, <2>2 DEF Encodes
<1>2. L \in Nat /\ DOMAIN items = 1..L
  BY <1>1
<1>3. PICK g : IsRun(g, "RecReg", Reading, items) /\ FoldLeft(RecReg_MergePartial, Reading, items) = g[L]
  BY <1>1, RecordRun
<1>4. g[0] = Reading /\ \A n \in 1..L : g[n] = Step("RecReg", g[n - 1], items[n])
  BY <1>3 DEF IsRun
<1>5. ParseFromArray(items).message = g[L].message
  BY <1>3 DEF ParseFromArray
<1>6. mids \in Seq(Nat) /\ IsPrefix(mids, mids) /\ IsPrefix(<<>>, mids)
  <2>1. mids \in Seq(Nat)
    BY MessageFacts
  <2>2. Len(mids) \in 0..Len(mids) /\ 0 \in 0..Len(mids) /\ SubSeq(mids, 1, Len(mids)) = mids
        /\ SubSeq(mids, 1, 0) = <<>>
    BY <2>1
  <2> QED
    BY <2>1, <2>2, PrefixFacts
<1> DEFINE Has(n, row) == /\ row[2] \in DOMAIN g[n].message.fields
                          /\ Complete(Group[row[2]].fields, g[n].message.fields[row[2]].fields,
                                      m.fields[row[2]].fields)
           Here(n) == \A j \in 1..n : \A row \in RecReg_Parse :
                         row[3] = "group" /\ Encoded(items[j], row, m) => Has(n, row)
           Events(n) == g[n].message.fields["mID"]
           Good(n) == /\ RecordState(g[n], m, TRUE) /\ g[n].status = "reading"
                      /\ IF \E j \in 1..n : IsEvents(items[j]) THEN Events(n) = mids ELSE Events(n) = <<>>
                      /\ Here(n)
           Bad(n) == n = L /\ ~whole /\ RecordState(g[n], m, FALSE) /\ IsPrefix(Events(n), mids)
           N == {n \in Nat : n <= L => Good(n) \/ Bad(n)}
<1>7. 0 \in N
  <2>1. 1..0 = {} /\ g[0] = Reading
    BY <1>4
  <2>2. RecordState(g[0], m, TRUE) /\ g[0].status = "reading" /\ Events(0) = <<>>
    BY <2>1, EmptyRecord
  <2>3. Good(0)
    BY <2>1, <2>2
  <2> HIDE DEF Good, Bad
  <2> QED
    BY <2>3
<1>8. ASSUME NEW n \in Nat, n \in N PROVE n + 1 \in N
  <2> HIDE DEF Good, Bad
  <2> SUFFICES ASSUME n + 1 <= L PROVE Good(n + 1) \/ Bad(n + 1)
    OBVIOUS
  <2> DEFINE s == g[n]
             x == items[n + 1]
             t == Step("RecReg", s, x)
  <2>1. n + 1 \in 1..L /\ (n + 1) - 1 = n /\ n <= L /\ n # L
    <3> HIDE DEF L
    <3> QED
      BY <1>2
  <2>2. /\ RecordState(s, m, TRUE) /\ s.status = "reading"
        /\ IF \E j \in 1..n : IsEvents(items[j]) THEN Events(n) = mids ELSE Events(n) = <<>>
        /\ Here(n)
    BY <1>8, <2>1 DEF Good, Bad
  <2>3. g[n + 1] = t
    BY <1>4, <2>1
  <2> HIDE DEF L, V
  <2>4. /\ \/ Foreign(RecReg_Parse, x)
           \/ \E row \in RecReg_Parse : Encoded(x, row, m)
        /\ ~x.whole => ~whole /\ n + 1 = L
        /\ IsEvents(x) => \A j \in 1..(n + 1) - 1 : ~IsEvents(items[j])
    BY <1>1, <1>2, <2>1 DEF L
  <2>5. IsEvents(x) => Events(n) = <<>>
    BY <2>1, <2>2, <2>4
  <2> HIDE DEF t, x, s
  \* Of the later items only x can differ.
  <2>6. \A j \in 1..(n + 1) : j \in 1..n \/ items[j] = x
    BY DEF x
  <2>7. items[n + 1] = x /\ n + 1 \in 1..(n + 1) /\ 1..n \subseteq 1..(n + 1)
    BY <2>1 DEF x
  <2>8. CASE \E row \in RecReg_Parse : row[3] = "group" /\ Encoded(x, row, m)
    <3>1. PICK row \in RecReg_Parse : row[3] = "group" /\ Encoded(x, row, m)
      BY <2>8
    <3>2. TakesGroup(t, s, m, row[2], x.whole)
      BY <2>2, <3>1, StepGroup DEF t
    <3>3. x.number = row[1] /\ x.wire = "group"
      BY <3>1 DEF Encoded
    <3>4. ~IsEvents(x)
      BY <3>3 DEF IsEvents
    <3>5. Events(n + 1) = Events(n)
      BY <2>3, <3>2 DEF TakesGroup, s
    <3>6. CASE x.whole
      <4>1. RecordState(t, m, TRUE) /\ t.status = "reading"
        BY <3>2, <3>6 DEF TakesGroup, RecordState, Says
      <4>2. (\E j \in 1..(n + 1) : IsEvents(items[j])) <=> (\E j \in 1..n : IsEvents(items[j]))
        BY <2>6, <2>7, <3>4
      <4>3. ASSUME NEW j \in 1..(n + 1), NEW q \in RecReg_Parse, q[3] = "group", Encoded(items[j], q, m)
            PROVE  Has(n + 1, q)
        <5>1. CASE q = row
          <6>1. row[2] \in DOMAIN t.message.fields
                /\ Complete(Group[row[2]].fields, t.message.fields[row[2]].fields, m.fields[row[2]].fields)
            BY <3>2, <3>6 DEF TakesGroup
          <6> QED
            BY <2>3, <5>1, <6>1
        <5>2. CASE q # row
          <6>1. items[j] # x
            BY <3>3, <4>3, <5>2, RecRegRows DEF Encoded
          <6>2. Has(n, q)
            BY <2>2, <2>6, <4>3, <6>1
          <6>3. q[2] # row[2]
            BY <3>1, <4>3, <5>2 DEF RecReg_Parse
          <6>4. q[2] \in DOMAIN t.message.fields /\ t.message.fields[q[2]] = s.message.fields[q[2]]
            BY <3>2, <6>2, <6>3 DEF TakesGroup, s
          <6> QED
            BY <2>3, <6>2, <6>4 DEF s
        <5> QED
          BY <5>1, <5>2
      <4>4. Here(n + 1)
        BY <4>3
      <4> QED
        BY <2>2, <2>3, <3>5, <4>1, <4>2, <4>4 DEF Good
    <3>7. CASE ~x.whole
      <4>1. RecordState(t, m, FALSE)
        BY <3>2, <3>7 DEF TakesGroup, RecordState, Says
      <4>2. IsPrefix(Events(n + 1), mids)
        BY <1>6, <2>2, <3>5
      <4> QED
        BY <2>3, <2>4, <3>7, <4>1, <4>2 DEF Bad
    <3> QED
      BY <3>6, <3>7
  <2>9. CASE \E row \in RecReg_Parse : row[3] # "group" /\ Encoded(x, row, m)
    <3>1. PICK row \in RecReg_Parse : row[3] # "group" /\ Encoded(x, row, m)
      BY <2>9
    <3>2. /\ IsEvents(x) /\ x.value \in Seq(Nat) /\ IsPrefix(x.value, mids)
          /\ x.whole => x.value = mids
      BY <3>1, EventsShape
    <3>3. TakesEvents(t, s, m, x)
      BY <2>2, <2>5, <3>2, StepEvents DEF t, s
    <3>4. Events(n + 1) = x.value /\ RecordState(t, m, TRUE)
      BY <2>3, <3>3 DEF TakesEvents
    <3>5. CASE x.whole
      <4>1. t.status = "reading" /\ Events(n + 1) = mids
        BY <3>2, <3>3, <3>4, <3>5 DEF TakesEvents
      <4>2. \E j \in 1..(n + 1) : IsEvents(items[j])
        BY <2>7, <3>2
      <4>3. ASSUME NEW j \in 1..(n + 1), NEW q \in RecReg_Parse, q[3] = "group", Encoded(items[j], q, m)
            PROVE  Has(n + 1, q)
        <5>1. items[j] # x
          BY <3>2, <4>3 DEF Encoded, IsEvents
        <5>2. Has(n, q)
          BY <2>2, <2>6, <4>3, <5>1
        <5>3. q[2] # "mID"
          BY <4>3, RecRegRows
        <5>4. q[2] \in DOMAIN t.message.fields /\ t.message.fields[q[2]] = s.message.fields[q[2]]
          BY <3>3, <5>2, <5>3 DEF TakesEvents, s
        <5> QED
          BY <2>3, <5>2, <5>4 DEF s
      <4>4. Here(n + 1)
        BY <4>3
      <4> QED
        BY <2>3, <3>4, <4>1, <4>2, <4>4 DEF Good
    <3>6. CASE ~x.whole
      <4>1. RecordState(t, m, FALSE)
        BY <3>4 DEF RecordState, Says
      <4> QED
        BY <2>3, <2>4, <3>2, <3>4, <3>6, <4>1 DEF Bad
    <3> QED
      BY <3>5, <3>6
  <2>10. CASE Foreign(RecReg_Parse, x)
    <3>1. x.whole /\ IsMessage(s.message)
      BY <2>2, <2>10 DEF Foreign, RecordState
    <3>2. t = SkipField(s, x)
      BY <2>2, <2>10, RecordForeign DEF t
    <3>3. /\ t.status = "reading" /\ t.message.fields = s.message.fields
          /\ IsMessage(t.message)
      BY <2>2, <3>1, <3>2, SkipForeign
    <3>4. RecordState(t, m, TRUE)
      BY <2>2, <3>3 DEF RecordState, MessageOK
    <3>5. ~IsEvents(x)
      <4>1. <<1, "mID", "packed">> \in RecReg_Parse /\ "length" \in Wire["packed"]
        BY RecRegRows DEF Wire
      <4> QED
        BY <2>10, <4>1 DEF Foreign, IsEvents
    <3>6. (\E j \in 1..(n + 1) : IsEvents(items[j])) <=> (\E j \in 1..n : IsEvents(items[j]))
      BY <2>6, <2>7, <3>5
    <3>7. ASSUME NEW j \in 1..(n + 1), NEW q \in RecReg_Parse, q[3] = "group", Encoded(items[j], q, m)
          PROVE  Has(n + 1, q)
      <4>1. items[j] # x
        BY <2>10, <3>7 DEF Foreign, Encoded, Wire
      <4>2. Has(n, q)
        BY <2>2, <2>6, <3>7, <4>1
      <4> QED
        BY <2>3, <3>3, <4>2 DEF s
    <3>8. Here(n + 1)
      BY <3>7
    <3> QED
      BY <2>2, <2>3, <3>3, <3>4, <3>6, <3>8 DEF Good, s
  <2> QED
    BY <2>4, <2>8, <2>9, <2>10
<1> HIDE DEF N
<1>9. L \in N
  BY <1>2, <1>7, <1>8, NumberInduction
<1>10. Good(L) \/ Bad(L)
  <2> HIDE DEF Good, Bad, L
  <2> QED
    BY <1>2, <1>9 DEF N
<1> DEFINE p == g[L].message
<1>11. CASE Bad(L)
  <2>1. ~whole /\ RecordState(g[L], m, FALSE) /\ IsPrefix(p.fields["mID"], mids)
    BY <1>11 DEF Bad
  <2>2. Reads(p, m, whole)
    BY <2>1 DEF Reads, RecordState
  <2> QED
    BY <1>5, <2>2
<1>12. CASE Good(L)
  <2>1. RecordState(g[L], m, TRUE) /\ Here(L)
        /\ IF \E j \in 1..L : IsEvents(items[j]) THEN Events(L) = mids ELSE Events(L) = <<>>
    BY <1>12 DEF Good
  <2>2. IsPrefix(p.fields["mID"], mids)
    BY <1>6, <2>1
  <2>3. ASSUME whole PROVE p.fields["mID"] = mids
    <3>1. CASE mids = <<>>
      BY <2>1, <3>1
    <3>2. CASE mids # <<>>
      <4> DEFINE row == <<1, "mID", "packed">>
      <4>1. row \in RecReg_Parse /\ "mID" \in DOMAIN m.fields
        BY RecRegRows, MessageFacts
      <4>2. Write(row, m) = <<Item(1, "length", mids)>>
        BY <3>2, <4>1 DEF Write, has
      <4>3. row[3] # "group" /\ Write(row, m) # <<>>
        BY <4>2
      <4>4. PICK j \in 1..L : Encoded(items[j], row, m)
        BY <1>1, <1>2, <2>3, <4>1, <4>3
      <4>5. IsEvents(items[j])
        BY <4>1, <4>3, <4>4, EventsShape
      <4> QED
        BY <2>1, <4>5
    <3> QED
      BY <3>1, <3>2
  <2>4. \A name \in DOMAIN p.fields \ {"mID"} :
           /\ name \in DOMAIN m.fields
           /\ Says(Group[name].fields, p.fields[name].fields, m.fields[name].fields, whole)
    BY <2>1 DEF RecordState, Says
  <2>5. ASSUME whole, NEW name \in Groups
        PROVE  /\ name \in DOMAIN p.fields
               /\ Complete(Group[name].fields, p.fields[name].fields, m.fields[name].fields)
    <3>1. name \in DOMAIN Group
      BY MessageFacts
    <3>2. PICK row \in RecReg_Parse : row[2] = name /\ row[3] = "group"
      BY <3>1, RecRegRows
    <3>3. PICK j \in 1..L : Encoded(items[j], row, m)
      BY <1>1, <1>2, <2>5, <3>2 DEF has
    <3>4. Has(L, row)
      BY <2>1, <3>2, <3>3
    <3> QED
      BY <3>2, <3>4
  <2>6. Reads(p, m, whole)
    BY <2>1, <2>2, <2>3, <2>4, <2>5 DEF Reads, RecordState
  <2> QED
    BY <1>5, <2>6
<1> QED
  BY <1>10, <1>11, <1>12

-----------------------------------------------------------------------------
(* The serializer writes what the parser reads.                            *)

Flattens(h, q, L) == h = [j \in 1..L |-> IF j = 1 THEN q[j] ELSE h[j - 1] \o q[j]]

\* The function the community modules flatten with exists.
LEMMA FlattenExists ==
    ASSUME NEW q, NEW L \in Nat
    PROVE  \E h : Flattens(h, q, L)
<1> DEFINE N == {n \in Nat : \E h : Flattens(h, q, n)}
<1>1. 0 \in N
  <2>1. Flattens([j \in 1..0 |-> q[j]], q, 0)
    BY DEF Flattens
  <2> QED
    BY <2>1
<1>2. ASSUME NEW n \in Nat, n \in N PROVE n + 1 \in N
  <2>1. PICK g : Flattens(g, q, n)
    BY <1>2
  <2>2. \A j \in 1..n : g[j] = IF j = 1 THEN q[j] ELSE g[j - 1] \o q[j]
    BY <2>1 DEF Flattens
  <2> DEFINE h == [j \in 1..(n + 1) |->
                      IF j \in 1..n THEN g[j] ELSE IF j = 1 THEN q[j] ELSE g[j - 1] \o q[j]]
  <2>3. ASSUME NEW j \in 1..(n + 1)
        PROVE  h[j] = IF j = 1 THEN q[j] ELSE h[j - 1] \o q[j]
    <3>1. j # 1 => j - 1 \in 1..n /\ j - 1 \in 1..(n + 1)
      OBVIOUS
    <3>2. j # 1 => h[j - 1] = g[j - 1]
      BY <3>1
    <3>3. h[j] = IF j \in 1..n THEN g[j] ELSE IF j = 1 THEN q[j] ELSE g[j - 1] \o q[j]
      OBVIOUS
    <3> HIDE DEF h
    <3> QED
      BY <2>2, <3>2, <3>3
  <2>4. h = [j \in 1..(n + 1) |-> h[j]]
    OBVIOUS
  <2> HIDE DEF h
  <2>5. Flattens(h, q, n + 1)
    BY <2>3, <2>4 DEF Flattens
  <2> QED
    BY <2>5
<1> HIDE DEF N
<1>3. Nat \subseteq N
  BY <1>1, <1>2, NumberInduction
<1> QED
  BY <1>3 DEF N

\* The elements of the first n sequences, those of the first one first.
Flat(t, q, n, S) ==
    /\ t \in Seq(S)
    /\ \A j \in 1..Len(t) : /\ \E r \in 1..n : t[j] \in ToSet(q[r])
                            /\ j > Len(q[1]) => \E r \in 2..n : t[j] \in ToSet(q[r])
    /\ \A r \in 1..n : ToSet(q[r]) \subseteq ToSet(t)

LEMMA FlatStep ==
    ASSUME NEW S, NEW q \in Seq(Seq(S)), NEW n \in 1..Len(q), n + 1 \in 1..Len(q),
           NEW t, Flat(t, q, n, S)
    PROVE  Flat(t \o q[n + 1], q, n + 1, S)
<1> DEFINE x == q[n + 1]
           u == t \o x
<1>1. t \in Seq(S) /\ x \in Seq(S) /\ n \in Nat
  BY ElementOfSeq DEF Flat
<1>2. /\ u \in Seq(S) /\ Len(u) = Len(t) + Len(x)
      /\ \A j \in 1..Len(u) : u[j] = IF j <= Len(t) THEN t[j] ELSE x[j - Len(t)]
  <2> HIDE DEF x
  <2> QED
    BY <1>1, ConcatProperties
<1>3. Len(t) \in Nat /\ Len(x) \in Nat /\ DOMAIN t = 1..Len(t) /\ DOMAIN x = 1..Len(x)
  <2> HIDE DEF x
  <2> QED
    BY <1>1
<1>4. DOMAIN u = 1..Len(u)
  <2> HIDE DEF u
  <2> QED
    BY <1>2
<1> HIDE DEF u
<1>5. ASSUME NEW j \in 1..Len(u)
      PROVE  /\ \E r \in 1..(n + 1) : u[j] \in ToSet(q[r])
             /\ j > Len(q[1]) => \E r \in 2..(n + 1) : u[j] \in ToSet(q[r])
  <2>1. CASE j <= Len(t)
    <3>1. j \in 1..Len(t) /\ u[j] = t[j]
      BY <1>2, <1>3, <2>1
    <3>2. 1..n \subseteq 1..(n + 1) /\ 2..n \subseteq 2..(n + 1)
      BY <1>1
    <3> QED
      BY <3>1, <3>2 DEF Flat
  <2>2. CASE ~(j <= Len(t))
    <3> HIDE DEF x
    <3>1. j - Len(t) \in 1..Len(x) /\ u[j] = x[j - Len(t)]
      BY <1>2, <1>3, <2>2
    <3>2. u[j] \in ToSet(x)
      BY <1>3, <3>1 DEF ToSet
    <3>3. n + 1 \in 1..(n + 1) /\ n + 1 \in 2..(n + 1)
      BY <1>1
    <3> QED
      BY <3>2, <3>3 DEF x
  <2> QED
    BY <2>1, <2>2
<1>6. ToSet(t) \subseteq ToSet(u) /\ ToSet(x) \subseteq ToSet(u)
  <2> HIDE DEF x
  <2>1. \A j \in 1..Len(t) : j \in 1..Len(u) /\ u[j] = t[j]
    BY <1>2, <1>3
  <2>2. ASSUME NEW j \in 1..Len(x)
        PROVE  j + Len(t) \in 1..Len(u) /\ u[j + Len(t)] = x[j]
    <3>1. j + Len(t) \in 1..Len(u) /\ ~(j + Len(t) <= Len(t)) /\ (j + Len(t)) - Len(t) = j
      BY <1>2, <1>3
    <3> QED
      BY <1>2, <3>1
  <2> QED
    BY <1>3, <1>4, <2>1, <2>2 DEF ToSet
<1>7. ASSUME NEW r \in 1..(n + 1) PROVE ToSet(q[r]) \subseteq ToSet(u)
  <2>1. r \in 1..n \/ r = n + 1
    BY <1>1
  <2> QED
    BY <1>6, <2>1 DEF Flat
<1> QED
  BY <1>2, <1>5, <1>7 DEF Flat, u

LEMMA FlattenFacts ==
    ASSUME NEW S, NEW q \in Seq(Seq(S)), Len(q) # 0
    PROVE  Flat(FlattenSeq(q), q, Len(q), S)
<1> DEFINE L == Len(q)
           P(h) == h = [j \in 1..Len(q) |-> IF j = 1 THEN q[j] ELSE h[j - 1] \o q[j]]
           it == CHOOSE h : P(h)
<1>1. L \in Nat /\ L # 0 /\ q[1] \in Seq(S)
  BY ElementOfSeq
<1>2. PICK g : Flattens(g, q, L)
  BY <1>1, FlattenExists
<1>3. P(g)
  BY <1>2 DEF Flattens
<1>4. P(it)
  BY <1>3
<1>5. FlattenSeq(q) = it[L]
  BY <1>1 DEF FlattenSeq
<1> HIDE DEF it
<1>6. \A j \in 1..L : it[j] = IF j = 1 THEN q[j] ELSE it[j - 1] \o q[j]
  BY <1>4
<1> HIDE DEF L, P
<1> DEFINE N == {n \in Nat : n + 1 \in 1..L => Flat(it[n + 1], q, n + 1, S)}
<1>7. 0 \in N
  <2>1. it[1] = q[1]
    BY <1>1, <1>6
  <2>2. Len(q[1]) \in Nat /\ DOMAIN q[1] = 1..Len(q[1])
    BY <1>1
  <2>3. \A j \in 1..Len(q[1]) : q[1][j] \in ToSet(q[1]) /\ ~(j > Len(q[1]))
    BY <2>2 DEF ToSet
  <2>4. Flat(q[1], q, 1, S)
    BY <1>1, <2>3 DEF Flat
  <2> QED
    BY <2>1, <2>4
<1>8. ASSUME NEW n \in Nat, n \in N PROVE n + 1 \in N
  <2> SUFFICES ASSUME (n + 1) + 1 \in 1..L PROVE Flat(it[(n + 1) + 1], q, (n + 1) + 1, S)
    OBVIOUS
  <2>1. n + 1 \in 1..L /\ (n + 1) + 1 # 1 /\ ((n + 1) + 1) - 1 = n + 1
    BY <1>1
  <2>2. Flat(it[n + 1], q, n + 1, S)
    BY <1>8, <2>1
  <2>3. it[(n + 1) + 1] = it[n + 1] \o q[(n + 1) + 1]
    BY <1>6, <2>1
  <2> QED
    BY <2>1, <2>2, <2>3, FlatStep DEF L
<1> HIDE DEF N
<1>9. Nat \subseteq N
  BY <1>7, <1>8, NumberInduction
<1>10. L - 1 \in N /\ (L - 1) + 1 = L /\ L \in 1..L
  BY <1>1, <1>9
<1> QED
  BY <1>5, <1>10 DEF N, L

\* The lists of the serializers are sequences.
LEMMA Lists ==
    /\ \A name \in DOMAIN Group : IsSeq(Group[name].serialize) /\ Len(Group[name].serialize) # 0
    /\ IsSeq(RecReg_Serialize) /\ Len(RecReg_Serialize) = 8
<1>1. IsSeq(General_Serialize) /\ Len(General_Serialize) # 0
  BY DEF IsSeq, General_Serialize
<1>2. IsSeq(Photo_Serialize) /\ Len(Photo_Serialize) # 0
  BY DEF IsSeq, Photo_Serialize
<1>3. IsSeq(NAV_Serialize) /\ Len(NAV_Serialize) # 0
  BY DEF IsSeq, NAV_Serialize
<1>4. IsSeq(UniDt_Serialize) /\ Len(UniDt_Serialize) # 0
  BY DEF IsSeq, UniDt_Serialize
<1>5. IsSeq(CanDt_Serialize) /\ Len(CanDt_Serialize) # 0
  BY DEF IsSeq, CanDt_Serialize
<1>6. IsSeq(LLSDt_Serialize) /\ Len(LLSDt_Serialize) # 0
  BY DEF IsSeq, LLSDt_Serialize
<1>7. IsSeq(LOG_Serialize) /\ Len(LOG_Serialize) # 0
  BY DEF IsSeq, LOG_Serialize
<1>8. IsSeq(RecReg_Serialize) /\ Len(RecReg_Serialize) = 8
  BY DEF IsSeq, RecReg_Serialize
<1> QED
  BY <1>1, <1>2, <1>3, <1>4, <1>5, <1>6, <1>7, <1>8 DEF Group, Table

\* One field is written as a sequence of items.
LEMMA WriteSeq ==
    ASSUME NEW row, NEW m,
           row[3] = "string" /\ row[2] \in DOMAIN m.fields => m.fields[row[2]] \in Seq(Seq(Nat)),
           row[3] \in Kinds
    PROVE  /\ Write(row, m) \in Seq(ToSet(Write(row, m)))
           /\ row[3] # "string" => Len(Write(row, m)) <= 1
<1> DEFINE value == m.fields[row[2]]
<1>1. \A x : /\ <<x>> \in Seq(ToSet(<<x>>)) /\ Len(<<x>>) = 1
  <2>1. \A x : ToSet(<<x>>) = {x}
    BY DEF ToSet
  <2> QED
    BY <2>1
<1>2. <<>> \in Seq(ToSet(<<>>)) /\ Len(<<>>) = 0
  BY EmptySeq
<1>3. CASE ~has(m, row[2])
  BY <1>2, <1>3 DEF Write
<1>4. CASE has(m, row[2]) /\ row[3] = "string"
  <2>1. value \in Seq(Seq(Nat))
    BY <1>4 DEF has
  <2> DEFINE w == [j \in DOMAIN value |-> Item(row[1], "length", value[j])]
  <2>2. Write(row, m) = w
    BY <1>4 DEF Write
  <2> HIDE DEF value
  <2>3. Len(value) \in Nat /\ DOMAIN value = 1..Len(value)
    BY <2>1
  <2>4. w = [j \in 1..Len(value) |-> Item(row[1], "length", value[j])]
    BY <2>3
  <2>5. \A j \in 1..Len(value) : Item(row[1], "length", value[j]) \in ToSet(w)
    BY <2>3 DEF ToSet
  <2>6. [j \in 1..Len(value) |-> Item(row[1], "length", value[j])] \in Seq(ToSet(w))
    BY <2>3, <2>5, IsASeq
  <2> QED
    BY <1>4, <2>2, <2>4, <2>6
<1>5. CASE has(m, row[2]) /\ row[3] \in {"uint32", "sint32", "bytes"}
  <2>1. \E x : Write(row, m) = <<x>>
    BY <1>5 DEF Write
  <2> QED
    BY <1>1, <2>1
<1>6. CASE has(m, row[2]) /\ row[3] = "packed"
  <2>1. CASE value = <<>>
    <3>1. Write(row, m) = <<>>
      BY <1>6, <2>1 DEF Write
    <3> QED
      BY <1>2, <3>1
  <2>2. CASE value # <<>>
    <3>1. Write(row, m) = <<Item(row[1], "length", value)>>
      BY <1>6, <2>2 DEF Write
    <3> QED
      BY <1>1, <3>1
  <2> QED
    BY <2>1, <2>2
<1> QED
  BY <1>3, <1>4, <1>5, <1>6 DEF Kinds

LEMMA GroupEncoded ==
    ASSUME NEW name \in DOMAIN Group, NEW group, FieldsOK(Group[name].fields, group.fields), group.unknown = <<>>
    PROVE  EncodesGroup(SerializeWithCachedSizes(Group[name], group), name, group, TRUE)
<1> DEFINE list == Group[name].serialize
           L == Len(list)
           q == [j \in DOMAIN list |-> Write(list[j], group)]
           S == UNION {ToSet(Write(row, group)) : row \in ToSet(list)}
           items == FlattenSeq(q)
<1>1. L \in Nat /\ L # 0 /\ DOMAIN list = 1..L /\ \A j \in 1..L : list[j] \in ToSet(list)
  <2>1. IsSeq(list) /\ L # 0
    BY Lists
  <2>2. L \in Nat /\ DOMAIN list = 1..L
    BY <2>1, SeqFacts
  <2> HIDE DEF list
  <2> QED
    BY <2>1, <2>2 DEF ToSet
<1>2. \A row \in ToSet(list) :
          /\ row \in Group[name].parse /\ row[3] \in Kinds /\ row[2] \in DOMAIN Group[name].fields
          /\ row[3] = Group[name].fields[row[2]]
  BY Rows DEF RowsOK
<1>3. ASSUME NEW j \in 1..L
      PROVE  Write(list[j], group) \in Seq(S)
  <2> DEFINE row == list[j]
  <2>1. row \in ToSet(list)
    BY <1>1
  <2>2. row[3] = "string" /\ row[2] \in DOMAIN group.fields => group.fields[row[2]] \in Seq(Seq(Nat))
    BY <1>2, <2>1 DEF FieldsOK, Value
  <2>3. Write(row, group) \in Seq(ToSet(Write(row, group)))
    BY <1>2, <2>1, <2>2, WriteSeq
  <2>4. ToSet(Write(row, group)) \subseteq S
    BY <2>1
  <2> HIDE DEF S, row
  <2>5. Write(row, group) \in Seq(S)
    BY <2>3, <2>4, SeqMonotonic
  <2> QED
    BY <2>5 DEF row
<1>4. q \in Seq(Seq(S)) /\ Len(q) = L /\ \A j \in 1..L : q[j] = Write(list[j], group)
  <2>1. q = [j \in 1..L |-> Write(list[j], group)]
    BY <1>1
  <2> HIDE DEF list, q, S
  <2>2. [j \in 1..L |-> Write(list[j], group)] \in Seq(Seq(S))
    BY <1>1, <1>3, IsASeq
  <2> QED
    BY <1>1, <2>1, <2>2
<1>5. Flat(items, q, L, S)
  <2> HIDE DEF q, S
  <2> QED
    BY <1>1, <1>4, FlattenFacts
<1>6. SerializeWithCachedSizes(Group[name], group) = items
  <2>1. SerializeWithCachedSizes(Group[name], group) = items \o <<>>
    BY DEF SerializeWithCachedSizes
  <2>2. items \in Seq(S)
    BY <1>5 DEF Flat
  <2> HIDE DEF items, S
  <2> QED
    BY <2>1, <2>2, ConcatEmptySeq
<1> HIDE DEF items, q, S
<1>7. IsSeq(items) /\ DOMAIN items = 1..Len(items)
  BY <1>5 DEF Flat, IsSeq
<1>8. \A n \in DOMAIN items : \E row \in ToSet(list) : \E full \in ToSet(Write(row, group)) : Same(items[n], full)
  <2>1. \A n \in DOMAIN items : \E r \in 1..L : items[n] \in ToSet(Write(list[r], group))
    BY <1>4, <1>5, <1>7 DEF Flat
  <2> HIDE DEF list
  <2> QED
    BY <1>1, <2>1 DEF Same
<1>9. ASSUME NEW row \in ToSet(list), NEW full \in ToSet(Write(row, group))
      PROVE  \E n \in DOMAIN items : Same(items[n], full)
  <2>1. PICK r \in 1..L : list[r] = row
    BY <1>1 DEF ToSet
  <2>2. full \in ToSet(items)
    BY <1>4, <1>5, <2>1 DEF Flat
  <2> QED
    BY <2>2 DEF ToSet, Same
<1> QED
  BY <1>6, <1>7, <1>8, <1>9 DEF EncodesGroup

\* Nothing in it that is not of message.proto.
NothingUnknown(m) ==
    m.unknown = <<>> /\ \A name \in DOMAIN m.fields \ {"mID"} : m.fields[name].unknown = <<>>

WriteRow(row, m) == IF row[3] = "group" THEN WriteGroup(row, m) ELSE Write(row, m)

\* A row of the record's list writes one item or none.
LEMMA RowEncoded ==
    ASSUME NEW m, MessageOK(m), NothingUnknown(m), NEW row \in RecReg_Parse
    PROVE  /\ WriteRow(row, m) \in Seq(ToSet(WriteRow(row, m))) /\ Len(WriteRow(row, m)) <= 1
           /\ \A item \in ToSet(WriteRow(row, m)) : Encoded(item, row, m) /\ item.whole = TRUE
           /\ row[3] = "group" => \A item \in ToSet(WriteRow(row, m)) : item.wire = "group"
           /\ (IF row[3] = "group" THEN has(m, row[2]) ELSE Write(row, m) # <<>>)
                 => ToSet(WriteRow(row, m)) # {}
<1>1. \A x : /\ <<x>> \in Seq(ToSet(<<x>>)) /\ Len(<<x>>) = 1 /\ ToSet(<<x>>) = {x}
  <2>1. \A x : ToSet(<<x>>) = {x}
    BY DEF ToSet
  <2> QED
    BY <2>1
<1>2. <<>> \in Seq(ToSet(<<>>)) /\ Len(<<>>) = 0 /\ ToSet(<<>>) = {}
  BY EmptySeq DEF ToSet
<1>3. CASE row[3] = "group" /\ ~has(m, row[2])
  BY <1>2, <1>3 DEF WriteRow, WriteGroup
<1>4. CASE row[3] = "group" /\ has(m, row[2])
  <2> DEFINE name == row[2]
             group == m.fields[name]
             value == SerializeWithCachedSizes(Group[name], group)
             item == Item(row[1], "group", value)
  <2>1. name \in DOMAIN Group /\ name \in DOMAIN m.fields \ {"mID"}
    BY <1>4, RecRegRows DEF has
  <2>2. FieldsOK(Group[name].fields, group.fields) /\ group.unknown = <<>>
    BY <2>1 DEF MessageOK, NothingUnknown
  <2>3. EncodesGroup(value, name, group, TRUE)
    <3> HIDE DEF name, group
    <3> QED
      BY <2>1, <2>2, GroupEncoded
  <2>4. WriteRow(row, m) = <<item>>
    BY <1>4 DEF WriteRow, WriteGroup
  <2> HIDE DEF value
  <2>5. item.number = row[1] /\ item.wire = "group" /\ item.whole = TRUE /\ item.value = value
    BY DEF Item
  <2> HIDE DEF item
  <2>6. Encoded(item, row, m)
    BY <1>4, <2>3, <2>5 DEF Encoded
  <2> QED
    BY <1>1, <2>4, <2>5, <2>6
<1>5. CASE row[3] # "group"
  <2>1. row = <<1, "mID", "packed">>
    BY <1>5, RecRegRows
  <2>2. row[3] = "packed" /\ row[2] = "mID" /\ row[1] = 1
    BY <2>1
  <2>3. WriteRow(row, m) = Write(row, m)
    BY <2>2 DEF WriteRow
  <2>4. Write(row, m) \in Seq(ToSet(Write(row, m))) /\ Len(Write(row, m)) <= 1
    BY <2>2, WriteSeq DEF Kinds
  <2>5. ASSUME NEW item \in ToSet(Write(row, m))
        PROVE  Encoded(item, row, m) /\ item.whole = TRUE
    <3>1. Encoded(item, row, m)
      BY <2>2 DEF Encoded, Same
    <3>2. item = Item(row[1], "length", m.fields[row[2]])
      BY <1>1, <1>2, <2>2 DEF Write, has
    <3> QED
      BY <3>1, <3>2 DEF Item
  <2>6. Write(row, m) # <<>> => ToSet(Write(row, m)) # {}
    <3>1. Write(row, m) = <<>> \/ \E x : Write(row, m) = <<x>>
      BY <2>2 DEF Write
    <3> QED
      BY <1>1, <3>1
  <2> QED
    BY <2>2, <2>3, <2>4, <2>5, <2>6
<1> QED
  BY <1>3, <1>4, <1>5

LEMMA MessageEncoded ==
    ASSUME NEW m, MessageOK(m), NothingUnknown(m)
    PROVE  Encodes(Serialize(m), m, TRUE)
<1> DEFINE list == RecReg_Serialize
           q == [j \in DOMAIN list |-> WriteRow(list[j], m)]
           S == UNION {ToSet(WriteRow(row, m)) : row \in ToSet(list)}
           items == FlattenSeq(q)
<1>1. DOMAIN list = 1..8 /\ \A j \in 1..8 : list[j] \in ToSet(list)
  <2>1. IsSeq(list) /\ Len(list) = 8
    BY Lists
  <2>2. DOMAIN list = 1..8
    BY <2>1, SeqFacts
  <2> HIDE DEF list
  <2> QED
    BY <2>2 DEF ToSet
<1>2. ToSet(list) = RecReg_Parse
  BY RecRegRows
<1>3. list[1] = <<1, "mID", "packed">> /\ \A j \in 2..8 : list[j][3] = "group"
  BY DEF RecReg_Serialize
<1> HIDE DEF list
<1>4. ASSUME NEW j \in 1..8
      PROVE  WriteRow(list[j], m) \in Seq(S)
  <2> DEFINE row == list[j]
  <2>1. row \in ToSet(list) /\ row \in RecReg_Parse
    BY <1>1, <1>2
  <2>2. WriteRow(row, m) \in Seq(ToSet(WriteRow(row, m)))
    BY <2>1, RowEncoded
  <2>3. ToSet(WriteRow(row, m)) \subseteq S
    BY <2>1
  <2> HIDE DEF S, row
  <2>4. WriteRow(row, m) \in Seq(S)
    BY <2>2, <2>3, SeqMonotonic
  <2> QED
    BY <2>4 DEF row
<1>5. q \in Seq(Seq(S)) /\ Len(q) = 8 /\ \A j \in 1..8 : q[j] = WriteRow(list[j], m)
  <2>1. q = [j \in 1..8 |-> WriteRow(list[j], m)]
    BY <1>1
  <2> HIDE DEF q, S
  <2>2. [j \in 1..8 |-> WriteRow(list[j], m)] \in Seq(Seq(S))
    BY <1>4, IsASeq
  <2> QED
    BY <2>1, <2>2
<1>6. Flat(items, q, 8, S)
  <2> HIDE DEF q, S
  <2>1. Len(q) # 0
    BY <1>5
  <2>2. Flat(FlattenSeq(q), q, Len(q), S)
    BY <1>5, <2>1, FlattenFacts
  <2> QED
    BY <1>5, <2>2
<1>7. Serialize(m) = items
  <2>1. Serialize(m) = items \o <<>>
    BY DEF Serialize, NothingUnknown, WriteRow, list
  <2>2. items \in Seq(S)
    BY <1>6 DEF Flat
  <2> HIDE DEF items, S
  <2> QED
    BY <2>1, <2>2, ConcatEmptySeq
<1> HIDE DEF items, q, S
<1>8. IsSeq(items) /\ DOMAIN items = 1..Len(items) /\ Len(items) \in Nat
  BY <1>6 DEF Flat, IsSeq
<1>9. ASSUME NEW n \in DOMAIN items
      PROVE  \E row \in RecReg_Parse : Encoded(items[n], row, m) /\ items[n].whole = TRUE
  <2>1. PICK r \in 1..8 : items[n] \in ToSet(WriteRow(list[r], m))
    BY <1>5, <1>6, <1>8 DEF Flat
  <2> QED
    BY <1>1, <1>2, <2>1, RowEncoded
<1>10. ASSUME NEW n \in DOMAIN items, IsEvents(items[n]), NEW j \in 1..n - 1
       PROVE  ~IsEvents(items[j])
  <2>1. Len(q[1]) <= 1 /\ n \in 2..Len(items)
    <3>1. list[1] \in RecReg_Parse /\ q[1] = WriteRow(list[1], m)
      BY <1>1, <1>2, <1>5
    <3>2. Len(WriteRow(list[1], m)) <= 1
      BY <3>1, RowEncoded
    <3>3. n \in 1..Len(items) /\ n - 1 \in Nat /\ n - 1 # 0
      BY <1>8
    <3>4. n \in 2..Len(items)
      BY <1>8, <3>3
    <3> QED
      BY <3>1, <3>2, <3>4
  <2>2. Len(q[1]) \in Nat
    <3>1. q[1] \in Seq(S)
      BY <1>4, <1>5
    <3> QED
      BY <3>1
  <2>3. PICK r \in 2..8 : items[n] \in ToSet(WriteRow(list[r], m))
    <3>1. n \in 1..Len(items) /\ n > Len(q[1])
      BY <2>1, <2>2
    <3>2. \E r \in 2..8 : items[n] \in ToSet(q[r])
      BY <1>6, <3>1 DEF Flat
    <3>3. 2..8 \subseteq 1..8
      OBVIOUS
    <3> QED
      BY <1>5, <3>2, <3>3
  <2>4. list[r] \in RecReg_Parse /\ list[r][3] = "group"
    BY <1>1, <1>2, <1>3
  <2>5. items[n].wire = "group"
    BY <2>3, <2>4, RowEncoded
  <2> QED
    BY <1>10, <2>5 DEF IsEvents
<1>11. ASSUME NEW row \in RecReg_Parse, IF row[3] = "group" THEN has(m, row[2]) ELSE Write(row, m) # <<>>
       PROVE  \E n \in DOMAIN items : Encoded(items[n], row, m)
  <2>1. PICK r \in 1..8 : list[r] = row
    BY <1>1, <1>2 DEF ToSet
  <2>2. PICK item \in ToSet(WriteRow(row, m)) : TRUE
    BY <1>11, RowEncoded
  <2>3. item \in ToSet(items) /\ Encoded(item, row, m)
    <3>1. ToSet(WriteRow(row, m)) \subseteq ToSet(items)
      BY <1>5, <1>6, <2>1 DEF Flat
    <3> QED
      BY <2>2, <3>1, RowEncoded
  <2> QED
    BY <2>3 DEF ToSet
<1>12. Encodes(items, m, TRUE)
  <2>1. \A n \in DOMAIN items :
            /\ \E row \in RecReg_Parse : Encoded(items[n], row, m)
            /\ items[n].whole
            /\ IsEvents(items[n]) => \A j \in 1..n - 1 : ~IsEvents(items[j])
    BY <1>9, <1>10
  <2>2. ToSet(RecReg_Serialize) = RecReg_Parse
    BY RecRegRows
  <2> QED
    BY <1>8, <1>11, <2>1, <2>2 DEF Encodes
<1> QED
  BY <1>7, <1>12

\* What the generated code writes it reads back: the events in their order,
\* the groups, and every field of each with its value, whatever the values
\* are (the lists of SerializeWithCachedSizes and of the parser's switch in
\* message.pb.cc agree).  Of the repeated fields of a group nothing is said.
THEOREM RoundTrip ==
    ASSUME NEW m, MessageOK(m), NothingUnknown(m)
    PROVE  LET read == ParseFromArray(Serialize(m)).message
           IN  /\ MessageOK(read)
               /\ read.fields["mID"] = m.fields["mID"]
               /\ DOMAIN read.fields = DOMAIN m.fields
               /\ \A name \in DOMAIN m.fields \ {"mID"} :
                     \A f \in DOMAIN Group[name].fields :
                         Group[name].fields[f] \notin Repeated =>
                             /\ has(read.fields[name], f) <=> has(m.fields[name], f)
                             /\ has(m.fields[name], f) => read.fields[name].fields[f] = m.fields[name].fields[f]
<1> DEFINE read == ParseFromArray(Serialize(m)).message
<1>1. Reads(read, m, TRUE)
  <2>1. Encodes(Serialize(m), m, TRUE)
    BY MessageEncoded
  <2> QED
    BY <2>1, RecordRead
<1> HIDE DEF read
<1>2. MessageOK(read) /\ read.fields["mID"] = m.fields["mID"]
  BY <1>1 DEF Reads
<1>3. DOMAIN read.fields = DOMAIN m.fields
  <2>1. "mID" \in DOMAIN read.fields /\ "mID" \in DOMAIN m.fields
    BY <1>2, MessageFacts
  <2>2. DOMAIN read.fields \subseteq DOMAIN m.fields
    BY <1>1, <2>1 DEF Reads
  <2>3. DOMAIN m.fields \subseteq DOMAIN read.fields
    BY <1>1, <2>1 DEF Reads
  <2> QED
    BY <2>2, <2>3
<1>4. ASSUME NEW name \in DOMAIN m.fields \ {"mID"}, NEW f \in DOMAIN Group[name].fields,
             Group[name].fields[f] \notin Repeated
      PROVE  /\ has(read.fields[name], f) <=> has(m.fields[name], f)
             /\ has(m.fields[name], f) => read.fields[name].fields[f] = m.fields[name].fields[f]
  <2>1. name \in DOMAIN read.fields \ {"mID"}
    BY <1>3
  <2>2. /\ Says(Group[name].fields, read.fields[name].fields, m.fields[name].fields, TRUE)
        /\ Complete(Group[name].fields, read.fields[name].fields, m.fields[name].fields)
    BY <1>1, <2>1 DEF Reads
  <2> QED
    BY <1>4, <2>2 DEF Says, Complete, has
<1> QED
  BY <1>2, <1>3, <1>4 DEF read

-----------------------------------------------------------------------------
(* What is printed.                                                        *)

\* The field each key is for.
Owner ==
    [time |-> <<"General", "Time">>, controller_id |-> <<"General", "IDFAS">>,
     ignition |-> <<"General", "FLG">>, gsm_status |-> <<"General", "FLG">>,
     gps_status |-> <<"General", "FLG">>, roaming |-> <<"General", "FLG">>,
     power_status |-> <<"General", "FLG">>, alarm |-> <<"General", "FLG">>,
     open_case |-> <<"General", "FLG">>, discrete_input |-> <<"General", "FLG">>,
     flags |-> <<"General", "FLG">>, mileage |-> <<"General", "Mileage">>,
     speed_by_sensor |-> <<"General", "VImp">>, engine_speed |-> <<"General", "TImp">>,
     power_main |-> <<"General", "Uboard">>, battery_level |-> <<"General", "BatLife">>,
     a_total |-> <<"General", "SumAcc">>, phone |-> <<"General", "Phone">>,
     a_x |-> <<"General", "AmtrX">>, a_y |-> <<"General", "AmtrY">>,
     a_z |-> <<"General", "AmtrZ">>, lat |-> <<"NAV", "LAT">>, lon |-> <<"NAV", "LON">>,
     speed_by_gps |-> <<"NAV", "GPSVel">>, course |-> <<"NAV", "GPSDir">>,
     satellites |-> <<"NAV", "GPSNSat">>, altitude |-> <<"NAV", "GPSAlt">>,
     univ0 |-> <<"UniDt", "UniVal0">>, univ1 |-> <<"UniDt", "UniVal1">>,
     univ2 |-> <<"UniDt", "UniVal2">>, univ3 |-> <<"UniDt", "UniVal3">>,
     lls1_value |-> <<"LLSDt", "CLLS1">>, lls1_temp |-> <<"LLSDt", "TLLS1">>,
     lls1_flags |-> <<"LLSDt", "FLLS1">>, lls2_value |-> <<"LLSDt", "CLLS2">>,
     lls2_temp |-> <<"LLSDt", "TLLS2">>, lls2_flags |-> <<"LLSDt", "FLLS2">>,
     lls3_value |-> <<"LLSDt", "CLLS3">>, lls3_temp |-> <<"LLSDt", "TLLS3">>,
     lls3_flags |-> <<"LLSDt", "FLLS3">>, lls4_value |-> <<"LLSDt", "CLLS4">>,
     lls4_temp |-> <<"LLSDt", "TLLS4">>, lls4_flags |-> <<"LLSDt", "FLLS4">>,
     lls5_value |-> <<"LLSDt", "CLLS5">>, lls5_temp |-> <<"LLSDt", "TLLS5">>,
     lls5_flags |-> <<"LLSDt", "FLLS5">>, lls6_value |-> <<"LLSDt", "CLLS6">>,
     lls6_temp |-> <<"LLSDt", "TLLS6">>, lls6_flags |-> <<"LLSDt", "FLLS6">>]

KeysOK(name) ==
    /\ DOMAIN Keys[name] = DOMAIN Group[name].fields
    /\ \A f \in DOMAIN Keys[name] :
          \A key \in Keys[name][f] : /\ key # "message_type" /\ Owner[key] = <<name, f>>
                                    /\ Group[name].fields[f] \notin Repeated

LEMMA GeneralKeys == KeysOK("General")
<1>1. Keys["General"] = extract_General /\ Group["General"].fields = General
  BY DEF Keys, Group, Table
<1>2. DOMAIN extract_General = DOMAIN General
  BY DEF extract_General, General
<1>3. \A f \in DOMAIN extract_General :
         \A key \in extract_General[f] : /\ key # "message_type" /\ Owner[key] = <<"General", f>>
                                     /\ General[f] \notin Repeated
  BY DEF extract_General, General, Owner, Repeated
<1> QED
  BY <1>1, <1>2, <1>3 DEF KeysOK

LEMMA NAVKeys == KeysOK("NAV")
<1>1. Keys["NAV"] = extract_NAV /\ Group["NAV"].fields = NAV
  BY DEF Keys, Group, Table
<1>2. DOMAIN extract_NAV = DOMAIN NAV
  BY DEF extract_NAV, NAV
<1>3. \A f \in DOMAIN extract_NAV :
         \A key \in extract_NAV[f] : /\ key # "message_type" /\ Owner[key] = <<"NAV", f>>
                                     /\ NAV[f] \notin Repeated
  BY DEF extract_NAV, NAV, Owner, Repeated
<1> QED
  BY <1>1, <1>2, <1>3 DEF KeysOK

LEMMA UniDtKeys == KeysOK("UniDt")
<1>1. Keys["UniDt"] = extract_UniDt /\ Group["UniDt"].fields = UniDt
  BY DEF Keys, Group, Table
<1>2. DOMAIN extract_UniDt = DOMAIN UniDt
  BY DEF extract_UniDt, UniDt
<1>3. \A f \in DOMAIN extract_UniDt :
         \A key \in extract_UniDt[f] : /\ key # "message_type" /\ Owner[key] = <<"UniDt", f>>
                                     /\ UniDt[f] \notin Repeated
  BY DEF extract_UniDt, UniDt, Owner, Repeated
<1> QED
  BY <1>1, <1>2, <1>3 DEF KeysOK

LEMMA LLSDtKeys == KeysOK("LLSDt")
<1>1. Keys["LLSDt"] = extract_LLSDt /\ Group["LLSDt"].fields = LLSDt
  BY DEF Keys, Group, Table
<1>2. DOMAIN extract_LLSDt = DOMAIN LLSDt
  BY DEF extract_LLSDt, LLSKeys, LLSKey, LLSDt
<1>3. \A f \in DOMAIN extract_LLSDt :
         \A key \in extract_LLSDt[f] : /\ key # "message_type" /\ Owner[key] = <<"LLSDt", f>>
                                     /\ LLSDt[f] \notin Repeated
  BY DEF extract_LLSDt, LLSKeys, LLSKey, LLSDt, Owner, Repeated
<1> QED
  BY <1>1, <1>2, <1>3 DEF KeysOK

LEMMA CanDtKeys == KeysOK("CanDt")
<1>1. Keys["CanDt"] = extract_CanDt /\ Group["CanDt"].fields = CanDt
  BY DEF Keys, Group, Table
<1>2. DOMAIN extract_CanDt = DOMAIN CanDt
  BY DEF extract_CanDt
<1>3. \A f \in DOMAIN extract_CanDt :
         \A key \in extract_CanDt[f] : /\ key # "message_type" /\ Owner[key] = <<"CanDt", f>>
                                     /\ CanDt[f] \notin Repeated
  BY DEF extract_CanDt, Owner, Repeated
<1> QED
  BY <1>1, <1>2, <1>3 DEF KeysOK

LEMMA LOGKeys == KeysOK("LOG")
<1>1. Keys["LOG"] = extract_LOG /\ Group["LOG"].fields = LOG
  BY DEF Keys, Group, Table
<1>2. DOMAIN extract_LOG = DOMAIN LOG
  BY DEF extract_LOG, LOG
<1>3. \A f \in DOMAIN extract_LOG :
         \A key \in extract_LOG[f] : /\ key # "message_type" /\ Owner[key] = <<"LOG", f>>
                                     /\ LOG[f] \notin Repeated
  BY DEF extract_LOG, LOG, Owner, Repeated
<1> QED
  BY <1>1, <1>2, <1>3 DEF KeysOK

LEMMA KeysRight ==
    /\ DOMAIN Keys \subseteq DOMAIN Group /\ "mID" \notin DOMAIN Keys
    /\ \A name \in DOMAIN Keys : KeysOK(name)
<1>1. \A name \in DOMAIN Keys : name \in {"General", "NAV", "UniDt", "LLSDt", "CanDt", "LOG"}
  BY DEF Keys
<1>2. \A name \in {"General", "NAV", "UniDt", "LLSDt", "CanDt", "LOG"} : name \in DOMAIN Group
  BY DEF Group
<1>3. "mID" \notin DOMAIN Keys
  BY DEF Keys
<1> QED
  BY <1>1, <1>2, <1>3, GeneralKeys, NAVKeys, UniDtKeys, LLSDtKeys, CanDtKeys, LOGKeys

\* The fields of a group that are printed, and what of each.
Shown(name, group) == IF name = "NAV" THEN DOMAIN NAV ELSE DOMAIN group.fields

Shows(name, group, f) == Entry(f, get(group, Group[name].clear, f))

LEMMA PrintGroupFacts ==
    ASSUME NEW name \in DOMAIN Keys, NEW group, DOMAIN group.fields \subseteq DOMAIN Group[name].fields
    PROVE  /\ \A key \in DOMAIN PrintGroup(name, group) :
                 \E f \in Shown(name, group) : key \in Keys[name][f]
           /\ \A f \in Shown(name, group) :
                 \A key \in Keys[name][f] : /\ key \in DOMAIN PrintGroup(name, group)
                                           /\ PrintGroup(name, group)[key] = Shows(name, group, f)
<1> DEFINE shown == Shown(name, group)
           P == PrintGroup(name, group)
           Field(key) == CHOOSE f \in shown : key \in Keys[name][f]
           keys == UNION {Keys[name][f] : f \in shown}
<1>1. P = [key \in keys |-> Entry(Field(key), get(group, Group[name].clear, Field(key)))]
  BY DEF PrintGroup, Shown
<1>2. KeysOK(name) /\ name \in DOMAIN Group
  BY KeysRight
<1>3. shown \subseteq DOMAIN Keys[name]
  <2>1. Group["NAV"].fields = NAV
    BY DEF Group, Table
  <2> QED
    BY <1>2, <2>1 DEF KeysOK, Shown
<1>4. DOMAIN P = keys
  BY <1>1
<1> HIDE DEF shown
<1>5. \A key \in keys : \E f \in shown : key \in Keys[name][f]
  OBVIOUS
<1>6. ASSUME NEW f \in shown, NEW key \in Keys[name][f]
      PROVE  key \in keys /\ P[key] = Shows(name, group, f)
  <2>1. key \in keys
    OBVIOUS
  <2>2. Field(key) \in shown /\ key \in Keys[name][Field(key)]
    BY <1>6
  <2> HIDE DEF Field
  <2>3. Owner[key] = <<name, f>> /\ Owner[key] = <<name, Field(key)>>
    BY <1>2, <1>3, <1>6, <2>2 DEF KeysOK
  <2>4. Field(key) = f
    BY <2>3
  <2>5. P[key] = Entry(Field(key), get(group, Group[name].clear, Field(key)))
    <3> HIDE DEF P, keys
    <3> QED
      BY <1>1, <2>1
  <2> QED
    BY <2>1, <2>4, <2>5 DEF Shows
<1> HIDE DEF keys, P
<1> QED
  BY <1>4, <1>5, <1>6 DEF P, shown

\* The map after these groups of a message were printed.
Extraction(map, m, mid, groups) ==
    /\ "message_type" \in DOMAIN map /\ map["message_type"] = Entry("mID", mid)
    /\ \A key \in DOMAIN map \ {"message_type"} :
          \E name \in groups : /\ has(m, name)
                               /\ \E f \in Shown(name, m.fields[name]) :
                                     key \in Keys[name][f] /\ map[key] = Shows(name, m.fields[name], f)
    /\ \A name \in groups :
          has(m, name) =>
              \A f \in Shown(name, m.fields[name]) :
                  \A key \in Keys[name][f] : /\ key \in DOMAIN map
                                            /\ map[key] = Shows(name, m.fields[name], f)

LEMMA ExtractStep ==
    ASSUME NEW m, MessageOK(m), NEW mid, NEW map, NEW groups \in SUBSET DOMAIN Keys,
           Extraction(map, m, mid, groups), NEW name \in DOMAIN Keys \ groups
    PROVE  Extraction(Extracted(map, name, m), m, mid, groups \cup {name})
<1>1. CASE ~has(m, name)
  <2>1. Extracted(map, name, m) = map
    BY <1>1 DEF Extracted
  <2> QED
    BY <1>1, <2>1 DEF Extraction
<1>2. CASE has(m, name)
  <2> DEFINE group == m.fields[name]
             P == PrintGroup(name, group)
             new == Extracted(map, name, m)
  <2>1. new = Assigned(map, P)
    BY <1>2 DEF Extracted
  <2>2. /\ DOMAIN new = DOMAIN map \cup DOMAIN P
        /\ \A key \in DOMAIN P : new[key] = P[key]
        /\ \A key \in DOMAIN map \ DOMAIN P : new[key] = map[key]
    BY <2>1 DEF Assigned
  <2>3. DOMAIN group.fields \subseteq DOMAIN Group[name].fields
    BY <1>2, KeysRight, MessageFacts DEF has, FieldsOK
  <2>4. /\ \A key \in DOMAIN P : \E f \in Shown(name, group) : key \in Keys[name][f]
        /\ \A f \in Shown(name, group) :
              \A key \in Keys[name][f] : key \in DOMAIN P /\ P[key] = Shows(name, group, f)
    BY <2>3, PrintGroupFacts
  <2>5. ASSUME NEW n \in DOMAIN Keys, has(m, n), NEW f \in Shown(n, m.fields[n])
        PROVE  \A key \in Keys[n][f] : key # "message_type" /\ Owner[key] = <<n, f>>
    <3>1. DOMAIN m.fields[n].fields \subseteq DOMAIN Group[n].fields /\ KeysOK(n) /\ n \in DOMAIN Group
      BY <2>5, KeysRight, MessageFacts DEF has, FieldsOK
    <3>2. Group["NAV"].fields = NAV
      BY DEF Group, Table
    <3>3. f \in DOMAIN Keys[n]
      BY <3>1, <3>2 DEF KeysOK, Shown
    <3> QED
      BY <3>1, <3>3 DEF KeysOK
  <2> HIDE DEF new, P, group
  <2>6. "message_type" \notin DOMAIN P
    BY <1>2, <2>4, <2>5 DEF group
  <2>7. "message_type" \in DOMAIN new /\ new["message_type"] = Entry("mID", mid)
    BY <2>2, <2>6 DEF Extraction
  <2>8. ASSUME NEW key \in DOMAIN new \ {"message_type"}
        PROVE  \E n \in groups \cup {name} :
                   /\ has(m, n)
                   /\ \E f \in Shown(n, m.fields[n]) :
                          key \in Keys[n][f] /\ new[key] = Shows(n, m.fields[n], f)
    <3>1. CASE key \in DOMAIN P
      <4>1. PICK f \in Shown(name, group) : key \in Keys[name][f]
        BY <2>4, <3>1
      <4>2. new[key] = Shows(name, group, f)
        BY <2>2, <2>4, <3>1, <4>1
      <4> QED
        BY <1>2, <4>1, <4>2 DEF group
    <3>2. CASE key \notin DOMAIN P
      <4>1. key \in DOMAIN map \ {"message_type"} /\ new[key] = map[key]
        BY <2>2, <3>2
      <4> QED
        BY <4>1 DEF Extraction
    <3> QED
      BY <3>1, <3>2
  <2>9. ASSUME NEW n \in groups \cup {name}, has(m, n), NEW f \in Shown(n, m.fields[n]), NEW key \in Keys[n][f]
        PROVE  key \in DOMAIN new /\ new[key] = Shows(n, m.fields[n], f)
    <3>1. CASE n = name
      BY <2>2, <2>4, <2>9, <3>1 DEF group
    <3>2. CASE n # name
      <4>1. n \in groups /\ n \in DOMAIN Keys
        BY <3>2
      <4>2. key \in DOMAIN map /\ map[key] = Shows(n, m.fields[n], f)
        BY <2>9, <4>1 DEF Extraction
      <4>3. key \notin DOMAIN P
        <5>1. SUFFICES ASSUME key \in DOMAIN P PROVE FALSE
          OBVIOUS
        <5>2. PICK g \in Shown(name, group) : key \in Keys[name][g]
          BY <2>4, <5>1
        <5>3. Owner[key] = <<name, g>>
          BY <1>2, <2>5, <5>2 DEF group
        <5>4. Owner[key] = <<n, f>>
          BY <2>5, <2>9, <4>1
        <5> QED
          BY <3>2, <5>3, <5>4
      <4> QED
        BY <2>2, <4>2, <4>3
    <3> QED
      BY <3>1, <3>2
  <2>10. Extraction(new, m, mid, groups \cup {name})
    BY <2>7, <2>8, <2>9 DEF Extraction
  <2> QED
    BY <2>10 DEF new
<1> QED
  BY <1>1, <1>2

LEMMA Extract ==
    ASSUME NEW m, MessageOK(m), NEW mid, NEW old
    PROVE  Extraction(extract(mid, m, clear_data(old)), m, mid, DOMAIN Keys)
<1> DEFINE typed == Assigned(clear_data(old), [message_type |-> Entry("mID", mid)])
           general == Extracted(typed, "General", m)
           nav == Extracted(general, "NAV", m)
           unidt == Extracted(nav, "UniDt", m)
           llsdt == Extracted(unidt, "LLSDt", m)
           candt == Extracted(llsdt, "CanDt", m)
           log == Extracted(candt, "LOG", m)
<1>1. extract(mid, m, clear_data(old)) = log
  BY DEF extract
<1>2. DOMAIN Keys = {"General", "NAV", "UniDt", "LLSDt", "CanDt", "LOG"}
  BY DEF Keys
<1>3. Extraction(typed, m, mid, {})
  <2>1. DOMAIN clear_data(old) = {}
    BY EmptySeq DEF clear_data
  <2>2. typed = [key \in {"message_type"} |-> Entry("mID", mid)]
    BY <2>1 DEF Assigned
  <2> HIDE DEF typed
  <2> QED
    BY <2>2 DEF Extraction
<1> HIDE DEF typed
<1>4. Extraction(general, m, mid, {} \cup {"General"})
  BY <1>2, <1>3, ExtractStep
<1> HIDE DEF general
<1>5. Extraction(nav, m, mid, {"General"} \cup {"NAV"})
  BY <1>2, <1>4, ExtractStep
<1> HIDE DEF nav
<1>6. Extraction(unidt, m, mid, {"General", "NAV"} \cup {"UniDt"})
  BY <1>2, <1>5, ExtractStep
<1> HIDE DEF unidt
<1>7. Extraction(llsdt, m, mid, {"General", "NAV", "UniDt"} \cup {"LLSDt"})
  BY <1>2, <1>6, ExtractStep
<1> HIDE DEF llsdt
<1>8. Extraction(candt, m, mid, {"General", "NAV", "UniDt", "LLSDt"} \cup {"CanDt"})
  BY <1>2, <1>7, ExtractStep
<1> HIDE DEF candt
<1>9. Extraction(log, m, mid, {"General", "NAV", "UniDt", "LLSDt", "CanDt"} \cup {"LOG"})
  BY <1>2, <1>8, ExtractStep
<1> HIDE DEF log
<1>10. {"General", "NAV", "UniDt", "LLSDt", "CanDt"} \cup {"LOG"} = DOMAIN Keys
  BY <1>2
<1> QED
  BY <1>1, <1>9, <1>10

\* What a message may say of its record.
Own(map, fields) ==
    \A key \in DOMAIN map \ {"message_type"} :
        LET entry == map[key]
        IN  \E name \in DOMAIN Keys \cap DOMAIN fields :
                \/ /\ entry.field \in DOMAIN fields[name].fields
                   /\ IF Group[name].fields[entry.field] = "bytes"
                      THEN IsPrefix(entry.value, fields[name].fields[entry.field])
                      ELSE entry.value = fields[name].fields[entry.field]
                \/ name = "NAV" /\ entry.field \in DOMAIN NAV /\ entry.value = 0

\* What it must say.
All(map, fields) ==
    \A name \in DOMAIN Keys \cap DOMAIN fields :
        \A f \in DOMAIN fields[name].fields :
            \A key \in Keys[name][f] :
                key \in DOMAIN map /\ map[key] = Entry(f, fields[name].fields[f])

LEMMA MapRight ==
    ASSUME NEW p, NEW m, MessageOK(p), MessageOK(m), NEW whole \in BOOLEAN, Reads(p, m, whole),
           NEW mid, NEW map, Extraction(map, p, mid, DOMAIN Keys)
    PROVE  Own(map, m.fields) /\ (whole => All(map, m.fields))
<1>1. DOMAIN Keys \subseteq DOMAIN Group /\ "mID" \notin DOMAIN Keys /\ \A name \in DOMAIN Keys : KeysOK(name)
  BY KeysRight
<1>2. ASSUME NEW name \in DOMAIN Keys, has(p, name)
      PROVE  /\ name \in DOMAIN m.fields
             /\ Says(Group[name].fields, p.fields[name].fields, m.fields[name].fields, whole)
             /\ FieldsOK(Group[name].fields, p.fields[name].fields)
             /\ FieldsOK(Group[name].fields, m.fields[name].fields)
  <2>1. name \in DOMAIN p.fields \ {"mID"}
    BY <1>1, <1>2 DEF has
  <2> QED
    BY <2>1 DEF Reads, MessageOK
<1>3. ASSUME NEW key \in DOMAIN map \ {"message_type"}
      PROVE  LET entry == map[key]
             IN  \E name \in DOMAIN Keys \cap DOMAIN m.fields :
                     \/ /\ entry.field \in DOMAIN m.fields[name].fields
                        /\ IF Group[name].fields[entry.field] = "bytes"
                           THEN IsPrefix(entry.value, m.fields[name].fields[entry.field])
                           ELSE entry.value = m.fields[name].fields[entry.field]
                     \/ name = "NAV" /\ entry.field \in DOMAIN NAV /\ entry.value = 0
  <2>1. PICK name \in DOMAIN Keys :
            /\ has(p, name)
            /\ \E f \in Shown(name, p.fields[name]) :
                   key \in Keys[name][f] /\ map[key] = Shows(name, p.fields[name], f)
    BY DEF Extraction
  <2>2. PICK f \in Shown(name, p.fields[name]) :
            key \in Keys[name][f] /\ map[key] = Shows(name, p.fields[name], f)
    BY <2>1
  <2> DEFINE group == p.fields[name]
             sent == m.fields[name]
             kinds == Group[name].fields
  <2>3. /\ name \in DOMAIN m.fields
        /\ Says(kinds, group.fields, sent.fields, whole)
        /\ FieldsOK(kinds, group.fields) /\ FieldsOK(kinds, sent.fields)
    BY <1>2, <2>1
  <2>4. map[key].field = f /\ map[key].value = get(group, Group[name].clear, f)
    BY <2>2 DEF Shows, Entry
  <2>5. Group["NAV"].fields = NAV /\ Group["NAV"].clear = NAV_Clear
    BY DEF Group, Table
  <2>6. f \in DOMAIN kinds
    BY <2>2, <2>3, <2>5 DEF Shown, FieldsOK
  <2>7. kinds[f] \notin Repeated
    BY <1>1, <2>2, <2>6 DEF KeysOK
  <2>8. CASE f \in DOMAIN group.fields
    <3>1. map[key].value = group.fields[f]
      BY <2>4, <2>8 DEF get, has
    <3>2. /\ f \in DOMAIN sent.fields
          /\ \/ group.fields[f] = sent.fields[f]
             \/ kinds[f] = "bytes" /\ IsPrefix(group.fields[f], sent.fields[f])
      BY <2>3, <2>7, <2>8 DEF Says
    <3>3. kinds[f] = "bytes" => IsPrefix(sent.fields[f], sent.fields[f])
      <4>1. SUFFICES ASSUME kinds[f] = "bytes" PROVE IsPrefix(sent.fields[f], sent.fields[f])
        OBVIOUS
      <4>2. sent.fields[f] \in Seq(Nat)
        BY <2>3, <2>6, <3>2, <4>1 DEF FieldsOK, Value
      <4>3. \A q \in Seq(Nat) : Len(q) \in 0..Len(q) /\ SubSeq(q, 1, Len(q)) = q
        OBVIOUS
      <4> HIDE DEF sent
      <4> QED
        BY <4>2, <4>3, PrefixFacts
    <3> QED
      BY <2>3, <2>4, <3>1, <3>2, <3>3
  <2>9. CASE f \notin DOMAIN group.fields
    <3>1. name = "NAV" /\ f \in DOMAIN NAV
      BY <2>9 DEF Shown
    <3>2. NAV_Clear[f] = 0
      BY <3>1 DEF NAV, NAV_Clear
    <3>3. map[key].value = 0
      BY <2>4, <2>5, <2>9, <3>1, <3>2 DEF get, has
    <3> QED
      BY <2>3, <2>4, <3>1, <3>3
  <2> QED
    BY <2>8, <2>9
<1>4. Own(map, m.fields)
  BY <1>3 DEF Own
<1>5. ASSUME whole, NEW name \in DOMAIN Keys \cap DOMAIN m.fields, NEW f \in DOMAIN m.fields[name].fields,
             NEW key \in Keys[name][f]
      PROVE  key \in DOMAIN map /\ map[key] = Entry(f, m.fields[name].fields[f])
  <2> DEFINE group == p.fields[name]
             sent == m.fields[name]
             kinds == Group[name].fields
  <2>1. /\ name \in DOMAIN p.fields /\ Complete(kinds, group.fields, sent.fields)
        /\ FieldsOK(kinds, sent.fields)
    BY <1>1, <1>5 DEF Reads, MessageOK
  <2>2. /\ has(p, name) /\ FieldsOK(kinds, group.fields)
        /\ Says(kinds, group.fields, sent.fields, whole)
    BY <1>2, <2>1 DEF has
  <2>3. f \in DOMAIN kinds
    BY <2>1 DEF FieldsOK
  <2>5. kinds[f] \notin Repeated
    BY <1>1, <1>5, <2>3 DEF KeysOK
  <2>6. f \in DOMAIN group.fields
    BY <2>1, <2>5 DEF Complete
  <2>7. group.fields[f] = sent.fields[f]
    BY <1>5, <2>2, <2>5, <2>6 DEF Says
  <2>8. Group["NAV"].fields = NAV
    BY DEF Group, Table
  <2>9. f \in Shown(name, group)
    BY <2>3, <2>6, <2>8 DEF Shown
  <2>10. key \in DOMAIN map /\ map[key] = Shows(name, group, f)
    BY <1>5, <2>2, <2>9 DEF Extraction
  <2>11. Shows(name, group, f) = Entry(f, sent.fields[f])
    BY <2>6, <2>7 DEF Shows, get, has
  <2> QED
    BY <2>10, <2>11
<1> QED
  BY <1>4, <1>5 DEF All

-----------------------------------------------------------------------------
(* The inductive invariant.                                                *)

\* Where the parser stands in the chain of records.
Place ==
    /\ k \in 0..Len(packet.records)
    /\ i \in Nat /\ i = IF k = 0 THEN 0 ELSE packet.records[k].at + size(packet.records[k])
    /\ k > 0 => i <= im_length(packet)
    /\ result \in {"parse", "events", "returned", "thrown"}
    /\ result = "returned" => k = Len(packet.records)

\* What it holds of the record under work.
AtWork ==
    /\ MessageOK(message) /\ event \in 0..Len(message.fields.mID)
    /\ result = "events" =>
          /\ k < Len(packet.records)
          /\ i + size(packet.records[k + 1]) <= im_length(packet)
          /\ Reads(message, packet.records[k + 1].sent, packet.records[k + 1].whole)

\* A message tells an event passed already, and tells it right.
Right(m) ==
    LET record == packet.records[m.record]
    IN  /\ m.record \in 1..Len(packet.records)
        /\ \/ m.record <= k
           \/ m.record = k + 1 /\ result = "events" /\ m.event <= event
        /\ m.event \in DOMAIN record.sent.fields.mID
        /\ "message_type" \in DOMAIN m.data
        /\ m.data["message_type"] = Entry("mID", record.sent.fields.mID[m.event])
        /\ Own(m.data, record.sent.fields)
        /\ record.whole => All(m.data, record.sent.fields)

Left ==
    /\ \A j \in DOMAIN messages : Right(messages[j])
    /\ messages # <<>> => data = Last(messages).data

Ascending ==
    \A j \in 1..Len(messages) - 1 :
        \/ messages[j].record < messages[j + 1].record
        \/ /\ messages[j].record = messages[j + 1].record
           /\ messages[j].event < messages[j + 1].event

\* Every event passed has its message.
Passed ==
    /\ \A r \in 1..k :
          \A e \in DOMAIN packet.records[r].sent.fields.mID :
              IF packet.records[r].whole THEN Told(r, e) ELSE Told(r, e) => \A d \in 1..e : Told(r, d)
    /\ result = "events" => \A d \in 1..event : Told(k + 1, d)

IInv ==
    /\ packet \in Packet
    /\ \E S : messages \in Seq(S)
    /\ Place /\ AtWork /\ Left /\ Ascending /\ Passed

-----------------------------------------------------------------------------
(* What the invariant's proof needs of packets and sequences.              *)

LEMMA PacketFacts ==
    ASSUME NEW p \in Packet
    PROVE  /\ Len(p.records) \in Nat /\ DOMAIN p.records = 1..Len(p.records)
           /\ full_length(p) \in Int /\ im_length(p) \in Int
           /\ im_length(p) = full_length(p) - 15
           /\ full_length(p) >= ResponseSize => im_length(p) \in Nat
<1>1. p.data_len \in Nat \ {7, 8} /\ IsSeq(p.records)
  BY PacketAssumption
<1>2. Len(p.records) \in Nat /\ DOMAIN p.records = 1..Len(p.records)
  BY <1>1, SeqFacts
<1> QED
  BY <1>1, <1>2 DEF full_length, im_length, HeaderSize, ResponseSize

LEMMA RecordFacts ==
    ASSUME NEW p \in Packet, NEW r \in 1..Len(p.records)
    PROVE  LET record == p.records[r]
           IN  /\ record.data_size \in Nat /\ size(record) = record.data_size + 2 /\ size(record) \in Nat
               /\ record.at = IF r = 1 THEN 0 ELSE p.records[r - 1].at + size(p.records[r - 1])
               /\ record.at < im_length(p)
               /\ record.whole \in BOOLEAN
               /\ MessageOK(record.sent)
               /\ Encodes(record.wire, record.sent, record.whole)
<1>1. r \in DOMAIN p.records
  BY PacketFacts
<1>2. LET record == p.records[r]
      IN  /\ record.data_size \in Nat
          /\ record.at < im_length(p)
          /\ record.whole \in BOOLEAN
          /\ MessageOK(record.sent)
          /\ Encodes(record.wire, record.sent, record.whole)
  BY <1>1, PacketAssumption
<1>3. p.records[r].at = IF r = 1 THEN 0 ELSE p.records[r - 1].at + size(p.records[r - 1])
  BY <1>1, PacketAssumption DEF Chained
<1> QED
  BY <1>2, <1>3 DEF size

\* The first sequence is the second with one more element.
Longer(t, q, x) ==
    /\ \E S : t \in Seq(S)
    /\ Len(t) = Len(q) + 1 /\ DOMAIN t = 1..Len(q) + 1
    /\ \A j \in 1..Len(q) : t[j] = q[j]
    /\ t[Len(q) + 1] = x /\ Last(t) = x

LEMMA AppendFacts ==
    ASSUME NEW S, NEW q \in Seq(S), NEW x
    PROVE  Longer(Append(q, x), q, x)
<1>1. q \in Seq(S \cup {x})
  <2>1. Len(q) \in Nat /\ q = [n \in 1..Len(q) |-> q[n]] /\ \A n \in 1..Len(q) : q[n] \in S
    OBVIOUS
  <2>2. [n \in 1..Len(q) |-> q[n]] \in Seq(S \cup {x})
    BY <2>1, IsASeq
  <2> QED
    BY <2>1, <2>2
<1>2. /\ Append(q, x) \in Seq(S \cup {x}) /\ Len(Append(q, x)) = Len(q) + 1
      /\ \A j \in 1..Len(q) : Append(q, x)[j] = q[j]
      /\ Append(q, x)[Len(q) + 1] = x
  BY <1>1, AppendProperties
<1> DEFINE t == Append(q, x)
<1> HIDE DEF t
<1>3. t \in Seq(S \cup {x}) /\ Len(t) = Len(q) + 1 /\ t[Len(q) + 1] = x
  BY <1>2 DEF t
<1>4. Last(t) = x /\ DOMAIN t = 1..Len(q) + 1
  BY <1>3 DEF Last
<1> QED
  BY <1>2, <1>3, <1>4 DEF t, Longer

LEMMA PrefixElement ==
    ASSUME NEW S, NEW T, NEW p \in Seq(S), NEW q \in Seq(T), IsPrefix(p, q)
    PROVE  /\ Len(p) <= Len(q)
           /\ \A j \in 1..Len(p) : j \in DOMAIN q /\ p[j] = q[j]
<1>1. Len(p) <= Len(q) /\ SubSeq(p, 1, Len(p)) = SubSeq(q, 1, Len(p))
  BY DEF IsPrefix
<1>2. \A j \in 1..Len(p) : SubSeq(p, 1, Len(p))[j] = p[j]
  OBVIOUS
<1>3. \A j \in 1..Len(p) : SubSeq(q, 1, Len(p))[j] = q[j]
  BY <1>1
<1> QED
  BY <1>1, <1>2, <1>3

-----------------------------------------------------------------------------
(* The invariant holds at the start and is kept by every step.             *)

LEMMA InitInv ==
    ASSUME Init
    PROVE  IInv
<1>1. /\ packet \in Packet /\ k = 0 /\ i = 0 /\ message = SharedCtor(RecReg) /\ event = 0
      /\ messages = <<>> /\ result = "parse"
  BY DEF Init
<1>2. MessageOK(message)
  <2>1. Reading.message = SharedCtor(RecReg)
    BY DEF Reading
  <2>2. RecordState(Reading, message, TRUE)
    BY EmptyRecord
  <2> QED
    BY <1>1, <2>1, <2>2 DEF RecordState
<1>3. Len(message.fields.mID) \in Nat
  BY <1>2, MessageFacts
<1>4. Place
  BY <1>1, PacketFacts DEF Place
<1>5. AtWork
  BY <1>1, <1>2, <1>3 DEF AtWork
<1>6. Left /\ Ascending /\ Passed /\ messages \in Seq({})
  BY <1>1 DEF Left, Ascending, Passed
<1> QED
  BY <1>1, <1>4, <1>5, <1>6 DEF IInv

\* What every step needs of the invariant.
LEMMA InvFacts ==
    ASSUME IInv
    PROVE  /\ packet \in Packet /\ k \in Nat /\ i \in Nat
           /\ Len(packet.records) \in Nat /\ DOMAIN packet.records = 1..Len(packet.records)
           /\ k <= Len(packet.records)
           /\ message.fields.mID \in Seq(Nat) /\ Len(message.fields.mID) \in Nat
           /\ event \in Nat /\ event <= Len(message.fields.mID)
<1>1. packet \in Packet /\ Place /\ AtWork
  BY DEF IInv
<1>2. message.fields.mID \in Seq(Nat)
  BY <1>1, MessageFacts DEF AtWork
<1> QED
  BY <1>1, <1>2, PacketFacts DEF Place, AtWork

\* A step that adds no message and forgets no event keeps them as they are.
LEMMA MessagesKept ==
    ASSUME IInv, UNCHANGED <<packet, data, messages>>,
           \/ k' = k /\ event' = event /\ result' = result
           \/ k' = k /\ result # "events"
           \/ k' = k + 1
    PROVE  (\E S : messages \in Seq(S))' /\ Left' /\ Ascending'
<1>1. k \in Nat /\ Left /\ Ascending /\ \E S : messages \in Seq(S)
  BY InvFacts DEF IInv
<1>2. ASSUME NEW m, Right(m)
      PROVE  Right(m)'
  <2>1. m.record \in 1..Len(packet.records)
    BY <1>2 DEF Right
  <2>2. \/ m.record <= k'
        \/ m.record = k' + 1 /\ result' = "events" /\ m.event <= event'
    BY <1>1, <1>2, <2>1, InvFacts DEF Right
  <2> QED
    BY <1>2, <2>2 DEF Right
<1>3. Left'
  BY <1>1, <1>2 DEF Left, Right
<1> QED
  BY <1>1, <1>3 DEF Ascending

LEMMA StutterInv ==
    ASSUME IInv, UNCHANGED vars
    PROVE  IInv'
<1> USE DEF vars
<1>1. (\E S : messages \in Seq(S))' /\ Left' /\ Ascending'
  BY MessagesKept
<1>2. Place' /\ AtWork' /\ packet' \in Packet
  BY DEF IInv, Place, AtWork
<1>3. Passed'
  BY DEF IInv, Passed, Told
<1> QED
  BY <1>1, <1>2, <1>3 DEF IInv

LEMMA TooShortInv ==
    ASSUME IInv, TooShort
    PROVE  IInv'
<1>1. UNCHANGED <<packet, k, i, message, event, data, messages>> /\ result = "parse" /\ result' = "thrown"
  BY DEF TooShort
<1>2. (\E S : messages \in Seq(S))' /\ Left' /\ Ascending'
  BY <1>1, MessagesKept
<1>3. Place' /\ AtWork' /\ packet' \in Packet
  BY <1>1 DEF IInv, Place, AtWork
<1>4. Passed'
  BY <1>1 DEF IInv, Passed, Told
<1> QED
  BY <1>2, <1>3, <1>4 DEF IInv

LEMMA OverrunInv ==
    ASSUME IInv, Overrun
    PROVE  IInv'
<1>1. UNCHANGED <<packet, k, i, message, event, data, messages>> /\ result = "parse" /\ result' = "thrown"
  BY DEF Overrun, Parsing
<1>2. (\E S : messages \in Seq(S))' /\ Left' /\ Ascending'
  BY <1>1, MessagesKept
<1>3. Place' /\ AtWork' /\ packet' \in Packet
  BY <1>1 DEF IInv, Place, AtWork
<1>4. Passed'
  BY <1>1 DEF IInv, Passed, Told
<1> QED
  BY <1>2, <1>3, <1>4 DEF IInv

\* The loop ends at the end of the data, where every record has been passed:
\* the next one would begin before it.
LEMMA ReturnInv ==
    ASSUME IInv, Return
    PROVE  IInv'
<1>1. /\ UNCHANGED <<packet, k, i, message, event, data, messages>>
      /\ result = "parse" /\ result' = "returned" /\ i >= im_length(packet)
  BY DEF Return, Parsing
<1>2. (\E S : messages \in Seq(S))' /\ Left' /\ Ascending'
  BY <1>1, MessagesKept
<1>3. k = Len(packet.records)
  <2> SUFFICES ASSUME k < Len(packet.records) PROVE FALSE
    BY InvFacts
  <2>1. packet \in Packet /\ k + 1 \in 1..Len(packet.records)
    BY InvFacts
  <2>2. packet.records[k + 1].at < im_length(packet)
    BY <2>1, RecordFacts
  <2>3. packet.records[k + 1].at = IF k + 1 = 1 THEN 0 ELSE packet.records[(k + 1) - 1].at + size(packet.records[(k + 1) - 1])
    BY <2>1, RecordFacts
  <2>4. i = packet.records[k + 1].at
    BY <2>3, InvFacts DEF IInv, Place
  <2> QED
    BY <1>1, <2>1, <2>2, <2>4, InvFacts, PacketFacts
<1>4. Place' /\ AtWork' /\ packet' \in Packet
  BY <1>1, <1>3 DEF IInv, Place, AtWork
<1>5. Passed'
  BY <1>1 DEF IInv, Passed, Told
<1> QED
  BY <1>2, <1>4, <1>5 DEF IInv

\* The record is one the device made of a message: the parser has read that
\* message, or its beginning.
LEMMA ReadRecordInv ==
    ASSUME IInv, ReadRecord
    PROVE  IInv'
<1> DEFINE record == packet.records[k + 1]
<1>1. /\ UNCHANGED <<packet, k, i, data, messages>>
      /\ result = "parse" /\ result' = "events" /\ event' = 0
      /\ message' = ParseFromArray(record.wire).message
      /\ k < Len(packet.records) /\ i + size(record) <= im_length(packet)
  BY DEF ReadRecord, Parsing, Fits
<1>2. (\E S : messages \in Seq(S))' /\ Left' /\ Ascending'
  BY <1>1, MessagesKept
<1>3. /\ MessageOK(record.sent) /\ record.whole \in BOOLEAN
      /\ Encodes(record.wire, record.sent, record.whole)
  <2>1. packet \in Packet /\ k + 1 \in 1..Len(packet.records)
    BY <1>1, InvFacts
  <2> QED
    BY <2>1, RecordFacts
<1>4. Reads(message', record.sent, record.whole)
  <2> DEFINE p == ParseFromArray(record.wire).message
  <2>1. Reads(p, record.sent, record.whole)
    BY <1>3, RecordRead
  <2> HIDE DEF p
  <2>2. message' = p
    BY <1>1 DEF p
  <2> QED
    BY <2>1, <2>2
<1>5. MessageOK(message') /\ Len(message'.fields.mID) \in Nat
  <2>1. MessageOK(message')
    BY <1>4 DEF Reads
  <2> QED
    BY <2>1, MessageFacts
<1>6. AtWork'
  <2>1. record' = record
    BY <1>1
  <2> HIDE DEF record
  <2> QED
    BY <1>1, <1>4, <1>5, <2>1 DEF AtWork, record
<1>7. Place' /\ packet' \in Packet
  BY <1>1 DEF IInv, Place
<1>8. Passed'
  <2>1. 1..event' = {}
    BY <1>1
  <2> QED
    BY <1>1, <2>1 DEF IInv, Passed, Told
<1> QED
  BY <1>2, <1>6, <1>7, <1>8 DEF IInv

\* The map is printed anew from the record, under keys no two fields share,
\* and the message comes after those of earlier events and records.
LEMMA AddEventInv ==
    ASSUME IInv, AddEvent
    PROVE  IInv'
<1> DEFINE record == packet.records[k + 1]
           mids == message.fields.mID
           x == [record |-> k + 1, event |-> event + 1, data |-> data']
           n == Len(messages)
<1>1. /\ UNCHANGED <<packet, k, i, message, result>>
      /\ result = "events" /\ event < Len(mids) /\ event' = event + 1
      /\ data' = extract(mids[event + 1], message, clear_data(data))
      /\ messages' = Append(messages, x)
  BY DEF AddEvent
<1>2. /\ packet \in Packet /\ k \in Nat /\ k + 1 \in 1..Len(packet.records)
      /\ event \in Nat /\ event + 1 \in 1..Len(mids) /\ mids \in Seq(Nat)
      /\ MessageOK(message) /\ Reads(message, record.sent, record.whole)
  BY <1>1, InvFacts DEF IInv, AtWork
<1>3. MessageOK(record.sent) /\ record.whole \in BOOLEAN
  BY <1>2, RecordFacts
<1>4. Extraction(data', message, mids[event + 1], DOMAIN Keys)
  BY <1>1, <1>2, Extract
<1>5. Own(data', record.sent.fields) /\ (record.whole => All(data', record.sent.fields))
  BY <1>2, <1>3, <1>4, MapRight
<1>6. event + 1 \in DOMAIN record.sent.fields.mID /\ mids[event + 1] = record.sent.fields.mID[event + 1]
  <2> DEFINE sent == record.sent.fields.mID
  <2>1. sent \in Seq(Nat) /\ IsPrefix(mids, sent)
    BY <1>2, <1>3, MessageFacts DEF Reads
  <2>2. mids \in Seq(Nat) /\ event + 1 \in 1..Len(mids)
    BY <1>2
  <2> HIDE DEF sent, mids
  <2>3. \A j \in 1..Len(mids) : j \in DOMAIN sent /\ mids[j] = sent[j]
    BY <2>1, <2>2, PrefixElement
  <2> QED
    BY <2>2, <2>3 DEF sent
<1>7. /\ "message_type" \in DOMAIN data'
      /\ data'["message_type"] = Entry("mID", record.sent.fields.mID[event + 1])
  BY <1>4, <1>6 DEF Extraction
<1>8. /\ n \in Nat /\ \E S : messages' \in Seq(S)
      /\ DOMAIN messages = 1..n /\ DOMAIN messages' = 1..n + 1 /\ Len(messages') = n + 1
      /\ \A j \in 1..n : messages'[j] = messages[j]
      /\ messages'[n + 1] = x /\ Last(messages') = x
  <2>1. PICK S : messages \in Seq(S)
    BY DEF IInv
  <2>2. messages' = Append(messages, x)
    BY <1>1
  <2> HIDE DEF x
  <2>3. Longer(Append(messages, x), messages, x)
    BY <2>1, AppendFacts
  <2>4. n \in Nat /\ DOMAIN messages = 1..n
    BY <2>1
  <2> QED
    BY <2>2, <2>3, <2>4 DEF Longer
<1>9. ASSUME NEW m, m = x
      PROVE  Right(m)'
  <2>1. m.record = k + 1 /\ m.event = event + 1 /\ m.data = data'
    BY <1>9
  <2>2. /\ packet' = packet /\ k' = k /\ event' = event + 1 /\ result' = "events"
        /\ k + 1 \in 1..Len(packet.records) /\ event + 1 <= event + 1
    BY <1>1, <1>2
  <2> HIDE DEF x
  <2> QED
    BY <1>5, <1>6, <1>7, <2>1, <2>2 DEF Right
<1>10. ASSUME NEW j \in 1..n
       PROVE  /\ Right(messages[j]) /\ messages[j].event \in Nat
              /\ \/ messages[j].record < k + 1
                 \/ messages[j].record = k + 1 /\ messages[j].event < event + 1
  <2>1. Right(messages[j])
    BY <1>8 DEF IInv, Left
  <2>2. /\ messages[j].record \in 1..Len(packet.records)
        /\ messages[j].event \in DOMAIN packet.records[messages[j].record].sent.fields.mID
    BY <2>1 DEF Right
  <2>3. messages[j].event \in Nat
    <3>1. MessageOK(packet.records[messages[j].record].sent)
      BY <1>2, <2>2, RecordFacts
    <3>2. packet.records[messages[j].record].sent.fields.mID \in Seq(Nat)
      BY <3>1, MessageFacts
    <3>3. \A s \in Seq(Nat) : DOMAIN s \subseteq Nat
      OBVIOUS
    <3> QED
      BY <2>2, <3>2, <3>3
  <2>4. messages[j].record \in Nat /\ k \in Nat /\ event \in Nat
    BY <2>2, InvFacts
  <2>5. \/ messages[j].record <= k
        \/ messages[j].record = k + 1 /\ messages[j].event <= event
    BY <2>1 DEF Right
  <2> QED
    BY <2>1, <2>3, <2>4, <2>5
<1>11. ASSUME NEW m, Right(m), m.record \in Nat, m.event \in Nat,
              \/ m.record < k + 1
              \/ m.record = k + 1 /\ m.event < event + 1
       PROVE  Right(m)'
  <2>1. k \in Nat /\ event \in Nat /\ k' = k /\ event' = event + 1 /\ result' = "events" /\ packet' = packet
    BY <1>1, <1>2
  <2>2. \/ m.record <= k'
        \/ m.record = k' + 1 /\ result' = "events" /\ m.event <= event'
    BY <1>11, <2>1
  <2> QED
    BY <1>11, <2>1, <2>2 DEF Right
<1>12. Left'
  <2>1. ASSUME NEW j \in 1..n + 1, NEW m, m = messages'[j]
        PROVE  Right(m)'
    <3>1. CASE j = n + 1
      <4>1. m = x
        BY <1>8, <2>1, <3>1
      <4> QED
        BY <1>9, <4>1
    <3>2. CASE j # n + 1
      <4>1. j \in 1..n /\ m = messages[j]
        BY <1>8, <2>1, <3>2
      <4>2. Right(m) /\ m.event \in Nat
            /\ \/ m.record < k + 1
               \/ m.record = k + 1 /\ m.event < event + 1
        BY <1>10, <4>1
      <4>3. m.record \in Nat
        BY <1>2, <4>2, InvFacts DEF Right
      <4> QED
        BY <1>11, <4>2, <4>3
    <3> QED
      BY <3>1, <3>2
  <2>2. DOMAIN messages' = 1..n + 1 /\ data' = Last(messages').data
    BY <1>8
  <2> HIDE DEF n
  <2>3. (\A j \in DOMAIN messages : Right(messages[j]))'
    BY <2>1, <2>2 DEF Right
  <2> QED
    BY <2>2, <2>3 DEF Left
<1>13. Ascending'
  <2>1. ASSUME NEW j \in 1..n
        PROVE  \/ messages'[j].record < messages'[j + 1].record
               \/ /\ messages'[j].record = messages'[j + 1].record
                  /\ messages'[j].event < messages'[j + 1].event
    <3>1. CASE j = n
      BY <1>8, <1>10, <3>1
    <3>2. CASE j # n
      <4>0. n \in Nat
        BY <1>8
      <4>1. j \in 1..n - 1 /\ j + 1 \in 1..n
        <5> HIDE DEF n
        <5> QED
          BY <3>2, <4>0
      <4>2. messages'[j] = messages[j] /\ messages'[j + 1] = messages[j + 1]
        BY <1>8, <4>1
      <4> QED
        BY <4>1, <4>2 DEF IInv, Ascending
    <3> QED
      BY <3>1, <3>2
  <2>2. (Len(messages) - 1)' = n
    BY <1>8
  <2> QED
    BY <2>1, <2>2 DEF Ascending
<1>14. ASSUME NEW r, NEW e
       PROVE  Told(r, e)' <=> Told(r, e) \/ (r = k + 1 /\ e = event + 1)
  BY <1>8 DEF Told
<1>15. Passed'
  <2>1. ASSUME NEW r \in 1..k, NEW e
        PROVE  Told(r, e)' <=> Told(r, e)
    BY <1>2, <1>14
  <2>2. \A r \in 1..k :
            \A e \in DOMAIN packet.records[r].sent.fields.mID :
                IF packet.records[r].whole THEN Told(r, e)'
                ELSE Told(r, e)' => \A d \in 1..e : Told(r, d)'
    BY <2>1 DEF IInv, Passed
  <2>3. ASSUME NEW r, r = k + 1
        PROVE  \A d \in 1..event + 1 : Told(r, d)'
    <3>1. \A d \in 1..event : Told(k + 1, d)
      BY <1>1 DEF IInv, Passed
    <3>2. \A d \in 1..event + 1 : d \in 1..event \/ d = event + 1
      BY <1>2
    <3> QED
      BY <1>14, <2>3, <3>1, <3>2
  <2> QED
    BY <1>1, <2>2, <2>3 DEF Passed
<1>16. Place' /\ AtWork' /\ packet' \in Packet
  <2>1. Place' /\ packet' \in Packet
    BY <1>1 DEF IInv, Place
  <2>2. event' \in 0..Len(message'.fields.mID)
    BY <1>1, <1>2
  <2> HIDE DEF record, mids, x
  <2> QED
    BY <1>1, <2>1, <2>2 DEF IInv, AtWork
<1>17. (\E S : messages \in Seq(S))'
  BY <1>8
<1> QED
  BY <1>12, <1>13, <1>15, <1>16, <1>17 DEF IInv

\* The record is passed when each of its events has a message; of a record
\* cut short these are the first ones.
LEMMA NextRecordInv ==
    ASSUME IInv, NextRecord
    PROVE  IInv'
<1> DEFINE record == packet.records[k + 1]
           mids == message.fields.mID
<1>1. /\ UNCHANGED <<packet, message, event, data, messages>>
      /\ result = "events" /\ result' = "parse" /\ event = Len(mids)
      /\ i' = i + size(record) /\ k' = k + 1
  BY DEF NextRecord
<1>2. /\ packet \in Packet /\ k \in Nat /\ i \in Nat /\ k + 1 \in 1..Len(packet.records)
      /\ Len(packet.records) \in Nat
      /\ event \in Nat /\ mids \in Seq(Nat)
      /\ i + size(record) <= im_length(packet) /\ Reads(message, record.sent, record.whole)
  BY <1>1, InvFacts DEF IInv, AtWork
<1>3. (\E S : messages \in Seq(S))' /\ Left' /\ Ascending'
  BY <1>1, MessagesKept
<1>4. record.at = i /\ size(record) \in Nat /\ MessageOK(record.sent)
  <2>1. /\ record.at = IF k + 1 = 1 THEN 0 ELSE packet.records[(k + 1) - 1].at + size(packet.records[(k + 1) - 1])
        /\ size(record) \in Nat /\ MessageOK(record.sent)
    BY <1>2, RecordFacts
  <2>2. (k + 1) - 1 = k /\ (k + 1 = 1 <=> k = 0)
    BY <1>2
  <2>3. i = IF k = 0 THEN 0 ELSE packet.records[k].at + size(packet.records[k])
    BY DEF IInv, Place
  <2> QED
    BY <2>1, <2>2, <2>3
<1>5. Place'
  <2>1. k' \in 0..Len(packet'.records) /\ i' \in Nat /\ i' <= im_length(packet')
    BY <1>1, <1>2, <1>4
  <2>2. i' = packet'.records[k'].at + size(packet'.records[k']) /\ k' # 0
    BY <1>1, <1>2, <1>4
  <2> QED
    BY <1>1, <2>1, <2>2 DEF Place
<1>6. AtWork' /\ packet' \in Packet
  BY <1>1 DEF IInv, AtWork
<1>7. ASSUME NEW e \in DOMAIN record.sent.fields.mID
      PROVE  IF record.whole THEN Told(k + 1, e) ELSE Told(k + 1, e) => \A d \in 1..e : Told(k + 1, d)
  <2>1. \A d \in 1..Len(mids) : Told(k + 1, d)
    BY <1>1 DEF IInv, Passed
  <2>2. record.sent.fields.mID \in Seq(Nat)
    BY <1>4, MessageFacts
  <2>3. e \in 1..Len(record.sent.fields.mID)
    <3> \A s \in Seq(Nat) : DOMAIN s = 1..Len(s)
      OBVIOUS
    <3> HIDE DEF record
    <3> QED
      BY <2>2
  <2>4. CASE record.whole
    <3>1. mids = record.sent.fields.mID
      BY <1>2, <2>4 DEF Reads
    <3> QED
      BY <2>1, <2>3, <2>4, <3>1
  <2>5. CASE ~record.whole
    <3> SUFFICES ASSUME Told(k + 1, e) PROVE \A d \in 1..e : Told(k + 1, d)
      BY <2>5
    <3>1. PICK j \in DOMAIN messages : messages[j].record = k + 1 /\ messages[j].event = e
      BY DEF Told
    <3>2. Right(messages[j])
      BY DEF IInv, Left
    <3>3. e <= event
      BY <1>2, <3>1, <3>2 DEF Right
    <3>4. 1..e \subseteq 1..Len(mids)
      BY <1>1, <1>2, <2>3, <3>3
    <3> QED
      BY <2>1, <3>4
  <2> QED
    BY <2>4, <2>5
<1>8. ASSUME NEW r \in 1..k + 1, NEW e \in DOMAIN packet.records[r].sent.fields.mID
      PROVE  IF packet.records[r].whole THEN Told(r, e) ELSE Told(r, e) => \A d \in 1..e : Told(r, d)
  <2>1. CASE r = k + 1
    BY <1>7, <2>1
  <2>2. CASE r # k + 1
    <3>1. r \in 1..k
      BY <1>2, <2>2
    <3> QED
      BY <3>1 DEF IInv, Passed
  <2> QED
    BY <2>1, <2>2
<1>9. Passed'
  BY <1>1, <1>8 DEF Passed, Told
<1> QED
  BY <1>3, <1>5, <1>6, <1>9 DEF IInv

LEMMA NextInv ==
    ASSUME IInv, [Next]_vars
    PROVE  IInv'
<1>1. CASE TooShort
  BY <1>1, TooShortInv
<1>2. CASE ReadRecord
  BY <1>2, ReadRecordInv
<1>3. CASE AddEvent
  BY <1>3, AddEventInv
<1>4. CASE NextRecord
  BY <1>4, NextRecordInv
<1>5. CASE Overrun
  BY <1>5, OverrunInv
<1>6. CASE Return
  BY <1>6, ReturnInv
<1>7. CASE UNCHANGED vars
  BY <1>7, StutterInv
<1> QED
  BY <1>1, <1>2, <1>3, <1>4, <1>5, <1>6, <1>7 DEF Next

-----------------------------------------------------------------------------
(* The theorems.                                                           *)

\* The parser stands at the beginning of a record or at the end of the data,
\* holds what the record under work says, and has left for every event it
\* passed a message that is right (parse_info_package, info_package.cpp
\* 73-112).
THEOREM Parses == Spec => []IInv
<1>1. Init => IInv
  BY InitInv
<1>2. IInv /\ [Next]_vars => IInv'
  BY NextInv
<1> QED
  BY <1>1, <1>2, PTL DEF Spec

\* The type invariant: the offset never leaves the data of the packet, and
\* every message names its type (info_package.cpp 80-106).
THEOREM TypeCorrect == Spec => []TypeOK
<1>1. ASSUME IInv
      PROVE  TypeOK
  <2>1. /\ k \in 0..Len(packet.records) /\ i \in Nat
        /\ result \in {"parse", "events", "returned", "thrown"}
        /\ MessageOK(message) /\ event \in 0..Len(message.fields.mID)
        /\ messages # <<>> => data = Last(messages).data
    BY <1>1 DEF IInv, Place, AtWork, Left
  <2>2. i > 0 => i <= im_length(packet)
    BY <1>1 DEF IInv, Place
  <2>3. \A j \in DOMAIN messages : "message_type" \in DOMAIN messages[j].data
    BY <1>1 DEF IInv, Left, Right
  <2> QED
    BY <2>1, <2>2, <2>3 DEF TypeOK
<1> QED
  BY <1>1, Parses, PTL

\* Whatever the device sends, and wherever it is cut: what a message says is
\* in its own record, never left in the map or the parser by an earlier one.
THEOREM SaysOwnRecord == Spec => []OwnRecordOnly
<1>1. ASSUME IInv
      PROVE  OwnRecordOnly
  <2>1. \A j \in DOMAIN messages : Own(messages[j].data, Sent(j))
    BY <1>1 DEF IInv, Left, Right, Sent
  <2> QED
    BY <2>1 DEF OwnRecordOnly, Own
<1> QED
  BY <1>1, Parses, PTL

\* Of a record that came whole nothing that is printed gets lost on the way
\* through the parser and the map, whatever else the record has.
THEOREM LosesNoField == Spec => []NoFieldOverwritten
<1>1. ASSUME IInv
      PROVE  NoFieldOverwritten
  <2>1. \A j \in DOMAIN messages :
            packet.records[messages[j].record].whole => All(messages[j].data, Sent(j))
    BY <1>1 DEF IInv, Left, Right, Sent
  <2> QED
    BY <2>1 DEF NoFieldOverwritten, All
<1> QED
  BY <1>1, Parses, PTL

\* The caller gets the events of the packet in the device's order and under
\* its numbers, and when the parser returns, none is missing that came.
THEOREM KeepsEvents == Spec => []EventsInOrder
<1>1. ASSUME IInv
      PROVE  EventsInOrder
  <2>1. \A j \in DOMAIN messages :
          /\ messages[j].event \in DOMAIN Sent(j).mID
          /\ messages[j].data["message_type"] = Entry("mID", Sent(j).mID[messages[j].event])
    BY <1>1 DEF IInv, Left, Right, Sent
  <2>2. ASSUME result = "returned", NEW r \in DOMAIN packet.records,
               NEW e \in DOMAIN packet.records[r].sent.fields.mID
        PROVE  IF packet.records[r].whole THEN Told(r, e) ELSE Told(r, e) => \A d \in 1..e : Told(r, d)
    <3>1. k = Len(packet.records)
      BY <1>1, <2>2 DEF IInv, Place
    <3>2. r \in 1..k
      BY <1>1, <2>2, <3>1, InvFacts
    <3> QED
      BY <1>1, <3>2 DEF IInv, Passed
  <2>3. Ascending
    BY <1>1 DEF IInv
  <2> QED
    BY <2>1, <2>2, <2>3 DEF EventsInOrder, Ascending
<1> QED
  BY <1>1, Parses, PTL
=============================================================================
