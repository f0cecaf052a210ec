-------------------------- MODULE BPlusTree_proofs --------------------------
(***************************************************************************)
(* Proofs about the B+ tree, for pages of any size and any set of keys.    *)
(***************************************************************************)
EXTENDS BPlusTree, FiniteSetTheorems, NaturalsInduction, WellFoundedInduction, TLAPS

USE SizesAssumption

-----------------------------------------------------------------------------
(***************************************************************************)
(* Numbers and sequences.                                                  *)
(***************************************************************************)
\* Every set of naturals has a least element.
LEMMA LeastElement ==
  ASSUME NEW S, S \subseteq Nat, S # {}
  PROVE  \E x \in S : \A y \in S : x <= y
<1> DEFINE R == {ss \in Nat \X Nat : ss[1] < ss[2]}
<1>1. IsWellFoundedOn(R, Nat)
  BY NatLessThanWellFounded, Zenon DEF OpToRel
<1>2. PICK x \in S : \A y \in S : ~(<<y, x>> \in R)
  <2> HIDE DEF R
  <2>1. QED
    BY <1>1, WFMin, Zenon
<1>3. \A y, z \in Nat : y < z => <<y, z>> \in R
  OBVIOUS
<1> HIDE DEF R
<1>4. ASSUME NEW y \in S PROVE x <= y
  <2>1. x \in Nat /\ y \in Nat
    OBVIOUS
  <2>2. ~(y < x)
    BY <1>2, <1>3, <2>1, Zenon
  <2>3. QED
    BY <2>1, <2>2
<1>5. QED
  BY <1>4

\* A sequence, whatever its elements are.
IsSeq(s) == s \in Seq({s[i] : i \in DOMAIN s})

\* Its elements are counted from 1.
LEMMA SeqFacts ==
  ASSUME NEW s, IsSeq(s)
  PROVE  Len(s) \in Nat /\ DOMAIN s = 1 .. Len(s)
BY DEF IsSeq

\* A function over the first numbers is a sequence.
LEMMA MakeSeq ==
  ASSUME NEW s, NEW n \in Nat, s = [i \in 1 .. n |-> s[i]]
  PROVE  IsSeq(s) /\ Len(s) = n
<1>1. DOMAIN s = 1 .. n
  OBVIOUS
<1>2. s \in Seq({s[i] : i \in 1 .. n})
  OBVIOUS
<1>3. QED
  BY <1>1, <1>2 DEF IsSeq

\* Sequences over a set are sequences.
LEMMA SeqOver ==
  ASSUME NEW S, NEW s \in Seq(S)
  PROVE  IsSeq(s)
<1>1. Len(s) \in Nat /\ s = [i \in 1 .. Len(s) |-> s[i]]
  OBVIOUS
<1>2. QED
  BY <1>1, MakeSeq

\* The part of a sequence from m to n.
LEMMA CutSeq ==
  ASSUME NEW s, IsSeq(s), NEW m \in 1 .. Len(s) + 1, NEW n \in 0 .. Len(s), m <= n + 1
  PROVE  /\ IsSeq(SubSeq(s, m, n))
         /\ Len(SubSeq(s, m, n)) = n - m + 1
         /\ \A i \in 1 .. n - m + 1 : SubSeq(s, m, n)[i] = s[m + i - 1]
<1> DEFINE S == {s[i] : i \in DOMAIN s}
<1>1. s \in Seq(S)
  BY DEF IsSeq
<1> HIDE DEF S
<1>2. Len(s) \in Nat
  BY <1>1
<1>3. SubSeq(s, m, n) \in Seq(S)
  BY <1>1, <1>2, SMTT(30)
<1>4. Len(SubSeq(s, m, n)) = n - m + 1
  BY <1>1, <1>2, SMTT(30)
<1>5. \A i \in 1 .. n - m + 1 : SubSeq(s, m, n)[i] = s[m + i - 1]
  BY <1>1, <1>2, SMTT(30)
<1>6. QED
  BY <1>3, <1>4, <1>5, SeqOver

\* One sequence behind another.
LEMMA JoinSeq ==
  ASSUME NEW s, IsSeq(s), NEW t, IsSeq(t)
  PROVE  /\ IsSeq(s \o t)
         /\ Len(s \o t) = Len(s) + Len(t)
         /\ \A i \in 1 .. Len(s) + Len(t) :
              (s \o t)[i] = IF i <= Len(s) THEN s[i] ELSE t[i - Len(s)]
<1> DEFINE S == {s[i] : i \in DOMAIN s} \union {t[i] : i \in DOMAIN t}
<1>1. s \in Seq(S) /\ t \in Seq(S)
  BY SeqFacts DEF IsSeq
<1> HIDE DEF S
<1>2. /\ s \o t \in Seq(S)
      /\ Len(s \o t) = Len(s) + Len(t)
      /\ \A i \in 1 .. Len(s) + Len(t) :
              (s \o t)[i] = IF i <= Len(s) THEN s[i] ELSE t[i - Len(s)]
  BY <1>1
<1>3. QED
  BY <1>2, SeqOver

\* A sequence of one element.
LEMMA OneSeq ==
  ASSUME NEW e
  PROVE  IsSeq(<<e>>) /\ Len(<<e>>) = 1 /\ <<e>>[1] = e
<1>1. <<e>> \in Seq({e}) /\ Len(<<e>>) = 1 /\ <<e>>[1] = e
  OBVIOUS
<1>2. QED
  BY <1>1, SeqOver

\* An element is put in at place i.
LEMMA InsertSeq ==
  ASSUME NEW s, IsSeq(s), NEW i \in 1 .. Len(s) + 1, NEW e
  PROVE  /\ IsSeq(InsertAt(s, i, e))
         /\ Len(InsertAt(s, i, e)) = Len(s) + 1
         /\ \A j \in 1 .. Len(s) + 1 :
              InsertAt(s, i, e)[j] = IF j < i THEN s[j] ELSE IF j = i THEN e ELSE s[j - 1]
<1> DEFINE a == SubSeq(s, 1, i - 1)
           b == SubSeq(s, i, Len(s))
           c == a \o <<e>>
<1>1. Len(s) \in Nat
  BY SeqFacts
<1>2. IsSeq(a) /\ Len(a) = i - 1 /\ \A j \in 1 .. i - 1 : a[j] = s[j]
  BY <1>1, CutSeq
<1>3. IsSeq(b) /\ Len(b) = Len(s) - i + 1 /\ \A j \in 1 .. Len(s) - i + 1 : b[j] = s[i + j - 1]
  BY <1>1, CutSeq
<1> HIDE DEF a, b
<1>4. /\ IsSeq(c) /\ Len(c) = i
      /\ \A j \in 1 .. i : c[j] = IF j <= i - 1 THEN a[j] ELSE <<e>>[j - (i - 1)]
  BY <1>1, <1>2, OneSeq, JoinSeq
<1>5. \A j \in 1 .. i : c[j] = IF j < i THEN s[j] ELSE e
  <2>1. <<e>>[1] = e
    OBVIOUS
  <2>2. QED
    BY <1>1, <1>2, <1>4, <2>1
<1> HIDE DEF c
<1>6. /\ IsSeq(c \o b) /\ Len(c \o b) = Len(s) + 1
      /\ \A j \in 1 .. Len(s) + 1 : (c \o b)[j] = IF j <= i THEN c[j] ELSE b[j - i]
  BY <1>1, <1>3, <1>4, JoinSeq
<1>7. InsertAt(s, i, e) = c \o b
  BY DEF InsertAt, a, b, c
<1>8. \A j \in 1 .. Len(s) + 1 :
        (c \o b)[j] = IF j < i THEN s[j] ELSE IF j = i THEN e ELSE s[j - 1]
  BY <1>1, <1>3, <1>5, <1>6
<1>9. QED
  BY <1>6, <1>7, <1>8

\* The element at place i is taken out.
LEMMA RemoveSeq ==
  ASSUME NEW s, IsSeq(s), NEW i \in 1 .. Len(s)
  PROVE  /\ IsSeq(RemoveAt(s, i))
         /\ Len(RemoveAt(s, i)) = Len(s) - 1
         /\ \A j \in 1 .. Len(s) - 1 :
              RemoveAt(s, i)[j] = IF j < i THEN s[j] ELSE s[j + 1]
<1> DEFINE a == SubSeq(s, 1, i - 1)
           b == SubSeq(s, i + 1, Len(s))
<1>1. Len(s) \in Nat
  BY SeqFacts
<1>2. IsSeq(a) /\ Len(a) = i - 1 /\ \A j \in 1 .. i - 1 : a[j] = s[j]
  BY <1>1, CutSeq
<1>3. IsSeq(b) /\ Len(b) = Len(s) - i /\ \A j \in 1 .. Len(s) - i : b[j] = s[i + j]
  BY <1>1, CutSeq
<1> HIDE DEF a, b
<1>4. /\ IsSeq(a \o b) /\ Len(a \o b) = Len(s) - 1
      /\ \A j \in 1 .. Len(s) - 1 : (a \o b)[j] = IF j <= i - 1 THEN a[j] ELSE b[j - (i - 1)]
  <2>1. /\ IsSeq(a \o b) /\ Len(a \o b) = Len(a) + Len(b)
        /\ \A j \in 1 .. Len(a) + Len(b) :
             (a \o b)[j] = IF j <= Len(a) THEN a[j] ELSE b[j - Len(a)]
    BY <1>2, <1>3, JoinSeq
  <2>2. Len(a) + Len(b) = Len(s) - 1
    BY <1>1, <1>2, <1>3
  <2>3. QED
    BY <1>2, <2>1, <2>2
<1>5. RemoveAt(s, i) = a \o b
  BY DEF RemoveAt, a, b
<1>6. \A j \in 1 .. Len(s) - 1 : (a \o b)[j] = IF j < i THEN s[j] ELSE s[j + 1]
  BY <1>1, <1>2, <1>3, <1>4
<1>7. QED
  BY <1>4, <1>5, <1>6

\* The elements of a sequence but the first, and but the last.
LEMMA ShortSeq ==
  ASSUME NEW s, IsSeq(s), Len(s) >= 1
  PROVE  /\ IsSeq(Tail(s)) /\ Len(Tail(s)) = Len(s) - 1
         /\ \A j \in 1 .. Len(s) - 1 : Tail(s)[j] = s[j + 1]
         /\ IsSeq(Front(s)) /\ Len(Front(s)) = Len(s) - 1
         /\ \A j \in 1 .. Len(s) - 1 : Front(s)[j] = s[j]
<1>1. Len(s) \in Nat /\ Len(s) - 1 \in 0 .. Len(s) /\ 1 \in 1 .. Len(s) + 1
  BY SeqFacts
<1>2. /\ IsSeq(SubSeq(s, 1, Len(s) - 1)) /\ Len(SubSeq(s, 1, Len(s) - 1)) = Len(s) - 1
      /\ \A j \in 1 .. Len(s) - 1 : SubSeq(s, 1, Len(s) - 1)[j] = s[j]
  <2> DEFINE c == Len(s) - 1
  <2>1. /\ 1 \in 1 .. Len(s) + 1 /\ c \in 0 .. Len(s) /\ 1 <= c + 1 /\ c - 1 + 1 = c
        /\ \A j \in 1 .. c : 1 + j - 1 = j
    BY <1>1
  <2> HIDE DEF c
  <2>2. /\ IsSeq(SubSeq(s, 1, c)) /\ Len(SubSeq(s, 1, c)) = c - 1 + 1
        /\ \A j \in 1 .. c - 1 + 1 : SubSeq(s, 1, c)[j] = s[1 + j - 1]
    BY <2>1, CutSeq
  <2>3. QED
    BY <2>1, <2>2 DEF c
<1>3. /\ Tail(s) \in Seq({s[i] : i \in DOMAIN s}) /\ Len(Tail(s)) = Len(s) - 1
      /\ \A j \in 1 .. Len(s) - 1 : Tail(s)[j] = s[j + 1]
  <2> DEFINE S == {s[i] : i \in DOMAIN s}
  <2>1. s \in Seq(S) /\ s # <<>>
    BY <1>1 DEF IsSeq
  <2> HIDE DEF S
  <2>2. Tail(s) \in Seq(S) /\ Len(Tail(s)) = Len(s) - 1
        /\ \A j \in 1 .. Len(s) - 1 : Tail(s)[j] = s[j + 1]
    BY <1>1, <2>1
  <2>3. QED
    BY <2>2 DEF S
<1>4. QED
  BY <1>2, <1>3, SeqOver DEF Front

\* A sequence with one more element at its end.
LEMMA AppendSeq ==
  ASSUME NEW s, IsSeq(s), NEW e
  PROVE  Append(s, e) = s \o <<e>>
<1>1. s \in Seq({s[i] : i \in DOMAIN s} \union {e})
  BY SeqFacts DEF IsSeq
<1>2. QED
  BY <1>1

-----------------------------------------------------------------------------
(***************************************************************************)
(* The pairs of a page: their values, and whether each is there once.      *)
(***************************************************************************)
Vals(s) == {s[i][2] : i \in 1 .. Len(s)}
Uniq(s) == \A i, j \in 1 .. Len(s) : s[i][2] = s[j][2] => i = j

Pair == Key \X {FirstRow, OtherRow}
Pairs(s) == \A i \in 1 .. Len(s) : s[i] \in Pair

\* A sequence is cut in two.
LEMMA CutVals ==
  ASSUME NEW s, IsSeq(s), NEW h \in 0 .. Len(s)
  PROVE  LET a == SubSeq(s, 1, h)
             b == SubSeq(s, h + 1, Len(s))
         IN  /\ IsSeq(a) /\ IsSeq(b) /\ Len(a) = h /\ Len(b) = Len(s) - h
             /\ Pairs(s) => Pairs(a) /\ Pairs(b)
             /\ Vals(s) = Vals(a) \union Vals(b)
             /\ Uniq(s) => Uniq(a) /\ Uniq(b) /\ Vals(a) \intersect Vals(b) = {}
<1> DEFINE a == SubSeq(s, 1, h)
           b == SubSeq(s, h + 1, Len(s))
<1>1. Len(s) \in Nat /\ h \in Nat /\ h <= Len(s)
  BY SeqFacts
<1>2. IsSeq(a) /\ Len(a) = h /\ \A i \in 1 .. h : a[i] = s[i]
  <2>1. 1 \in 1 .. Len(s) + 1 /\ h - 1 + 1 = h /\ \A i \in 1 .. h : 1 + i - 1 = i
    BY <1>1
  <2>2. QED
    BY <1>1, <2>1, CutSeq
<1>3. IsSeq(b) /\ Len(b) = Len(s) - h /\ \A i \in 1 .. Len(s) - h : b[i] = s[h + i]
  <2>1. /\ h + 1 \in 1 .. Len(s) + 1 /\ Len(s) \in 0 .. Len(s) /\ h + 1 <= Len(s) + 1
        /\ Len(s) - (h + 1) + 1 = Len(s) - h
        /\ \A i \in 1 .. Len(s) - h : h + 1 + i - 1 = h + i
    BY <1>1
  <2>2. /\ IsSeq(b) /\ Len(b) = Len(s) - (h + 1) + 1
        /\ \A i \in 1 .. Len(s) - (h + 1) + 1 : b[i] = s[h + 1 + i - 1]
    BY <2>1, CutSeq
  <2>3. QED
    BY <2>1, <2>2
<1> HIDE DEF a, b
<1>4. Pairs(s) => Pairs(a) /\ Pairs(b)
  BY <1>1, <1>2, <1>3, SMTT(30) DEF Pairs
<1>5. Vals(s) = Vals(a) \union Vals(b)
  <2>1. ASSUME NEW i \in 1 .. Len(s) PROVE s[i][2] \in Vals(a) \union Vals(b)
    <3>1. CASE i <= h
      BY <1>1, <1>2, <3>1 DEF Vals
    <3>2. CASE i > h
      <4>1. i - h \in 1 .. Len(b) /\ b[i - h] = s[i]
        BY <1>1, <1>3, <3>2
      <4>2. QED
        BY <4>1 DEF Vals
    <3>3. QED
      BY <1>1, <3>1, <3>2
  <2>2. Vals(a) \subseteq Vals(s)
    BY <1>1, <1>2 DEF Vals
  <2>3. Vals(b) \subseteq Vals(s)
    <3>1. ASSUME NEW i \in 1 .. Len(b) PROVE h + i \in 1 .. Len(s) /\ b[i] = s[h + i]
      BY <1>1, <1>3
    <3>2. QED
      BY <3>1 DEF Vals
  <2>4. QED
    BY <2>1, <2>2, <2>3 DEF Vals
<1>6. ASSUME Uniq(s) PROVE Uniq(a) /\ Uniq(b) /\ Vals(a) \intersect Vals(b) = {}
  <2>1. Uniq(a)
    BY <1>1, <1>2, <1>6 DEF Uniq
  <2>2. ASSUME NEW i \in 1 .. Len(b) PROVE h + i \in 1 .. Len(s) /\ b[i] = s[h + i]
    BY <1>1, <1>3
  <2>3. Uniq(b)
    <3>1. ASSUME NEW i \in 1 .. Len(b), NEW j \in 1 .. Len(b), b[i][2] = b[j][2] PROVE i = j
      <4>1. h + i = h + j
        BY <1>6, <2>2, <3>1, SMTT(30) DEF Uniq
      <4>2. QED
        BY <1>1, <4>1
    <3>2. QED
      BY <3>1 DEF Uniq
  <2>4. ASSUME NEW i \in 1 .. Len(a), NEW j \in 1 .. Len(b), a[i][2] = b[j][2] PROVE FALSE
    <3>1. i \in 1 .. Len(s) /\ a[i] = s[i] /\ i # h + j
      BY <1>1, <1>2, <1>3
    <3>2. QED
      BY <1>6, <2>2, <2>4, <3>1 DEF Uniq
  <2>5. QED
    BY <2>1, <2>3, <2>4 DEF Vals
<1>7. QED
  BY <1>2, <1>3, <1>4, <1>5, <1>6 DEF a, b

\* One sequence comes behind another.
LEMMA JoinVals ==
  ASSUME NEW s, IsSeq(s), NEW t, IsSeq(t)
  PROVE  /\ IsSeq(s \o t) /\ Len(s \o t) = Len(s) + Len(t)
         /\ Pairs(s) /\ Pairs(t) => Pairs(s \o t)
         /\ Vals(s \o t) = Vals(s) \union Vals(t)
         /\ Uniq(s) /\ Uniq(t) /\ Vals(s) \intersect Vals(t) = {} => Uniq(s \o t)
<1> DEFINE r == s \o t
<1>1. Len(s) \in Nat /\ Len(t) \in Nat
  BY SeqFacts
<1>2. /\ IsSeq(r) /\ Len(r) = Len(s) + Len(t)
      /\ \A i \in 1 .. Len(s) + Len(t) : r[i] = IF i <= Len(s) THEN s[i] ELSE t[i - Len(s)]
  BY JoinSeq
<1> HIDE DEF r
<1>3. ASSUME NEW i \in 1 .. Len(r)
      PROVE  \/ i <= Len(s) /\ i \in 1 .. Len(s) /\ r[i] = s[i]
             \/ i > Len(s) /\ i - Len(s) \in 1 .. Len(t) /\ r[i] = t[i - Len(s)]
  BY <1>1, <1>2
<1>4. \A i \in 1 .. Len(s) : i \in 1 .. Len(r) /\ r[i] = s[i]
  BY <1>1, <1>2
<1>5. \A i \in 1 .. Len(t) : Len(s) + i \in 1 .. Len(r) /\ r[Len(s) + i] = t[i]
  <2>1. ASSUME NEW i \in 1 .. Len(t)
        PROVE  Len(s) + i \in 1 .. Len(r) /\ ~(Len(s) + i <= Len(s)) /\ (Len(s) + i) - Len(s) = i
    BY <1>1, <1>2
  <2>2. QED
    BY <1>2, <2>1
<1>6. Pairs(s) /\ Pairs(t) => Pairs(r)
  BY <1>3 DEF Pairs
<1>7. Vals(r) = Vals(s) \union Vals(t)
  <2>1. ASSUME NEW i \in 1 .. Len(r) PROVE r[i][2] \in Vals(s) \union Vals(t)
    BY <1>3 DEF Vals
  <2>2. ASSUME NEW i \in 1 .. Len(s) PROVE s[i][2] \in Vals(r)
    BY <1>4 DEF Vals
  <2>3. ASSUME NEW i \in 1 .. Len(t) PROVE t[i][2] \in Vals(r)
    BY <1>5 DEF Vals
  <2>4. QED
    BY <2>1, <2>2, <2>3, Zenon DEF Vals
<1>8. ASSUME Uniq(s), Uniq(t), Vals(s) \intersect Vals(t) = {} PROVE Uniq(r)
  <2>1. SUFFICES ASSUME NEW i \in 1 .. Len(r), NEW j \in 1 .. Len(r), r[i][2] = r[j][2]
                 PROVE  i = j
    BY DEF Uniq
  <2>2. ASSUME NEW x \in 1 .. Len(s), NEW y \in 1 .. Len(t) PROVE s[x][2] # t[y][2]
    BY <1>8 DEF Vals
  <2>3. CASE i <= Len(s) /\ j <= Len(s)
    BY <1>1, <1>3, <1>8, <2>1, <2>3 DEF Uniq
  <2>4. CASE i > Len(s) /\ j > Len(s)
    <3>1. i - Len(s) = j - Len(s)
      <4>1. /\ i - Len(s) \in 1 .. Len(t) /\ r[i] = t[i - Len(s)]
            /\ j - Len(s) \in 1 .. Len(t) /\ r[j] = t[j - Len(s)]
        BY <1>1, <1>2, <1>3, <2>4
      <4>2. QED
        BY <1>8, <2>1, <4>1 DEF Uniq
    <3>2. QED
      BY <1>1, <1>2, <3>1
  <2>5. ASSUME NEW x \in 1 .. Len(r), NEW y \in 1 .. Len(r), x <= Len(s), y > Len(s)
        PROVE  r[x][2] # r[y][2]
    <3>1. /\ x \in 1 .. Len(s) /\ r[x] = s[x]
          /\ y - Len(s) \in 1 .. Len(t) /\ r[y] = t[y - Len(s)]
      BY <1>1, <1>2, <1>3, <2>5
    <3>2. QED
      BY <2>2, <3>1
  <2>6. i \in Int /\ j \in Int /\ Len(s) \in Int
    BY <1>1, <1>2
  <2>7. QED
    BY <2>1, <2>3, <2>4, <2>5, <2>6
<1>9. QED
  BY <1>2, <1>6, <1>7, <1>8 DEF r

\* A sequence of one pair.
LEMMA OneVals ==
  ASSUME NEW e
  PROVE  /\ IsSeq(<<e>>) /\ Len(<<e>>) = 1
         /\ e \in Pair => Pairs(<<e>>)
         /\ Vals(<<e>>) = {e[2]}
         /\ Uniq(<<e>>)
<1> DEFINE s == <<e>>
<1>1. IsSeq(s) /\ Len(s) = 1 /\ s[1] = e
  BY OneSeq
<1> HIDE DEF s
<1>2. (e \in Pair => Pairs(s)) /\ Vals(s) = {e[2]} /\ Uniq(s)
  BY <1>1 DEF Pairs, Vals, Uniq
<1>3. QED
  BY <1>1, <1>2 DEF s

\* A pair is put in at place i.
LEMMA InsertVals ==
  ASSUME NEW s, IsSeq(s), NEW i \in 1 .. Len(s) + 1, NEW e, NEW r, r = InsertAt(s, i, e)
  PROVE  /\ IsSeq(r) /\ Len(r) = Len(s) + 1
         /\ Pairs(s) /\ e \in Pair => Pairs(r)
         /\ Vals(r) = Vals(s) \union {e[2]}
         /\ Uniq(s) /\ e[2] \notin Vals(s) => Uniq(r)
<1>1. Len(s) \in Nat
  BY SeqFacts
<1>2. /\ IsSeq(r) /\ Len(r) = Len(s) + 1
      /\ \A j \in 1 .. Len(s) + 1 :
           r[j] = IF j < i THEN s[j] ELSE IF j = i THEN e ELSE s[j - 1]
  BY InsertSeq
<1>3. ASSUME NEW j \in 1 .. Len(r)
      PROVE  \/ j < i /\ j \in 1 .. Len(s) /\ r[j] = s[j]
             \/ j = i /\ r[j] = e
             \/ j > i /\ j - 1 \in 1 .. Len(s) /\ r[j] = s[j - 1]
  BY <1>1, <1>2
<1>4. ASSUME NEW j \in 1 .. Len(s)
      PROVE  \E x \in 1 .. Len(r) : r[x] = s[j]
  <2>1. CASE j < i
    BY <1>1, <1>2, <2>1
  <2>2. CASE j >= i
    <3>1. j + 1 \in 1 .. Len(r) /\ ~(j + 1 < i) /\ j + 1 # i /\ (j + 1) - 1 = j
      BY <1>1, <1>2, <2>2
    <3>2. r[j + 1] = s[j]
      BY <1>2, <3>1
    <3>3. QED
      BY <3>1, <3>2
  <2>3. QED
    BY <1>1, <2>1, <2>2
<1>5. i \in 1 .. Len(r) /\ r[i] = e
  BY <1>1, <1>2
<1>6. Pairs(s) /\ e \in Pair => Pairs(r)
  BY <1>3 DEF Pairs
<1>7. Vals(r) = Vals(s) \union {e[2]}
  <2>1. ASSUME NEW j \in 1 .. Len(r) PROVE r[j][2] \in Vals(s) \union {e[2]}
    BY <1>3 DEF Vals
  <2>2. ASSUME NEW j \in 1 .. Len(s) PROVE s[j][2] \in Vals(r)
    BY <1>4 DEF Vals
  <2>3. e[2] \in Vals(r)
    BY <1>5 DEF Vals
  <2>4. QED
    BY <2>1, <2>2, <2>3, ZenonT(60) DEF Vals
<1>8. ASSUME Uniq(s), e[2] \notin Vals(s) PROVE Uniq(r)
  <2>1. SUFFICES ASSUME NEW x \in 1 .. Len(r), NEW y \in 1 .. Len(r), r[x][2] = r[y][2], x < y
                 PROVE  FALSE
    BY <1>1, <1>2 DEF Uniq
  <2>2. \A j \in 1 .. Len(s) : s[j][2] # e[2]
    BY <1>8 DEF Vals
  <2>3. x \in Nat /\ y \in Nat /\ i \in Nat
    BY <1>1, <1>2
  <2>4. CASE y < i
    BY <1>3, <1>8, <2>1, <2>3, <2>4 DEF Uniq
  <2>5. CASE x = i \/ y = i
    BY <1>3, <2>1, <2>2, <2>3, <2>5
  <2>6. CASE x > i
    <3>1. x - 1 = y - 1
      BY <1>3, <1>8, <2>1, <2>3, <2>6 DEF Uniq
    <3>2. QED
      BY <2>1, <2>3, <3>1
  <2>7. CASE x < i /\ y > i
    <3>1. x = y - 1
      BY <1>3, <1>8, <2>1, <2>3, <2>7 DEF Uniq
    <3>2. QED
      BY <2>3, <2>7, <3>1
  <2>8. QED
    BY <2>1, <2>3, <2>4, <2>5, <2>6, <2>7
<1>9. QED
  BY <1>2, <1>6, <1>7, <1>8

\* The pair at place i is taken out.
LEMMA RemoveVals ==
  ASSUME NEW s, IsSeq(s), NEW i \in 1 .. Len(s), NEW r,
         IsSeq(r), Len(r) = Len(s) - 1,
         \A j \in 1 .. Len(s) - 1 : r[j] = IF j < i THEN s[j] ELSE s[j + 1]
  PROVE  /\ Pairs(s) => Pairs(r)
         /\ Uniq(s) => Uniq(r) /\ Vals(r) = Vals(s) \ {s[i][2]}
<1>1. Len(s) \in Nat
  BY SeqFacts
<1>2. ASSUME NEW j \in 1 .. Len(r)
      PROVE  \/ j < i /\ j \in 1 .. Len(s) /\ r[j] = s[j]
             \/ j >= i /\ j + 1 \in 1 .. Len(s) /\ r[j] = s[j + 1]
  BY <1>1
<1>3. ASSUME NEW j \in 1 .. Len(s), j # i
      PROVE  \E x \in 1 .. Len(r) : r[x] = s[j]
  <2>1. CASE j < i
    <3>1. j \in 1 .. Len(r) /\ j \in 1 .. Len(s) - 1
      BY <1>1, <2>1
    <3>2. r[j] = s[j]
      BY <2>1, <3>1
    <3>3. QED
      BY <3>1, <3>2
  <2>2. CASE j > i
    <3>1. j - 1 \in 1 .. Len(r) /\ j - 1 \in 1 .. Len(s) - 1 /\ ~(j - 1 < i) /\ (j - 1) + 1 = j
      BY <1>1, <2>2
    <3>2. r[j - 1] = s[j]
      BY <3>1
    <3>3. QED
      BY <3>1, <3>2
  <2>3. QED
    BY <1>1, <1>3, <2>1, <2>2
<1>4. Pairs(s) => Pairs(r)
  BY <1>2 DEF Pairs
<1>5. ASSUME Uniq(s) PROVE Uniq(r) /\ Vals(r) = Vals(s) \ {s[i][2]}
  <2>1. ASSUME NEW x \in 1 .. Len(r), NEW y \in 1 .. Len(r), r[x][2] = r[y][2], x < y
        PROVE  FALSE
    <3>1. x \in Nat /\ y \in Nat /\ i \in Nat
      BY <1>1
    <3>2. CASE y < i
      BY <1>2, <1>5, <2>1, <3>1, <3>2 DEF Uniq
    <3>3. CASE x >= i
      <4>1. x + 1 = y + 1
        BY <1>2, <1>5, <2>1, <3>1, <3>3 DEF Uniq
      <4>2. QED
        BY <2>1, <3>1, <4>1
    <3>4. CASE x < i /\ y >= i
      <4>1. x = y + 1
        BY <1>2, <1>5, <2>1, <3>1, <3>4 DEF Uniq
      <4>2. QED
        BY <3>1, <3>4, <4>1
    <3>5. QED
      BY <2>1, <3>1, <3>2, <3>3, <3>4
  <2>2. Uniq(r)
    BY <1>1, <2>1 DEF Uniq
  <2>3. ASSUME NEW j \in 1 .. Len(r) PROVE r[j][2] # s[i][2] /\ r[j][2] \in Vals(s)
    <3>1. CASE j < i
      <4>1. j \in 1 .. Len(s) /\ r[j] = s[j] /\ j # i
        BY <1>1, <1>2, <3>1
      <4>2. QED
        BY <1>5, <4>1 DEF Uniq, Vals
    <3>2. CASE j >= i
      <4>1. j + 1 \in 1 .. Len(s) /\ r[j] = s[j + 1] /\ j + 1 # i
        BY <1>1, <1>2, <3>2
      <4>2. QED
        BY <1>5, <4>1 DEF Uniq, Vals
    <3>3. QED
      BY <1>1, <3>1, <3>2
  <2>4. Vals(r) = Vals(s) \ {s[i][2]}
    <3>1. ASSUME NEW j \in 1 .. Len(s), j # i PROVE s[j][2] \in Vals(r)
      BY <1>3, <3>1 DEF Vals
    <3>2. QED
      BY <2>3, <3>1 DEF Vals
  <2>5. QED
    BY <2>2, <2>4
<1>6. QED
  BY <1>4, <1>5

\* A pair gets another key.
LEMMA SetVals ==
  ASSUME NEW s, IsSeq(s), NEW i \in 1 .. Len(s), NEW k, NEW r,
         IsSeq(r), Len(r) = Len(s),
         \A j \in 1 .. Len(s) : r[j] = IF j = i THEN <<k, s[i][2]>> ELSE s[j]
  PROVE  /\ \A j \in 1 .. Len(s) : r[j][2] = s[j][2]
         /\ \A j \in 1 .. Len(s) : j # i => r[j] = s[j]
         /\ r[i][1] = k
         /\ Vals(r) = Vals(s)
         /\ Uniq(s) => Uniq(r)
<1>1. \A j \in 1 .. Len(s) : r[j][2] = s[j][2]
  OBVIOUS
<1>2. Vals(r) = Vals(s) /\ (Uniq(s) => Uniq(r))
  BY <1>1 DEF Vals, Uniq
<1>3. QED
  BY <1>1, <1>2

-----------------------------------------------------------------------------
(***************************************************************************)
(* The pages of a tree, and what the operations on one page make of it.    *)
(***************************************************************************)
\* A leaf holds pairs of a key and a row, an internal page children, each once.
IsNode(n) ==
  /\ n = [leaf |-> n.leaf, parent |-> n.parent, next |-> n.next, array_ |-> n.array_]
  /\ n.leaf \in BOOLEAN
  /\ IsSeq(n.array_)
  /\ IF n.leaf THEN Pairs(n.array_) ELSE Uniq(n.array_)

\* The children of a page.
Kin(n) == IF n.leaf THEN {} ELSE Vals(n.array_)

\* The sizes between which pages are.
LEMMA Limits ==
  ASSUME NEW n, n.leaf \in BOOLEAN
  PROVE  /\ GetMinSize(n) \in Nat /\ GetMaxSize(n) \in Nat
         /\ GetMinSize(n) >= 1 /\ GetMaxSize(n) >= 3 /\ GetMinSize(n) < GetMaxSize(n)
         /\ ~n.leaf => GetMinSize(n) >= 2
         /\ 2 * GetMinSize(n) <= GetMaxSize(n) + 1
BY DEF GetMinSize, GetMaxSize

\* The size of a page, and where its pairs are.
LEMMA NodeSize ==
  ASSUME NEW n, IsNode(n)
  PROVE  /\ GetSize(n) \in Nat /\ GetSize(n) = Len(n.array_)
         /\ DOMAIN n.array_ = 1 .. GetSize(n)
         /\ n.leaf \in BOOLEAN /\ IsSeq(n.array_)
BY SeqFacts DEF IsNode, GetSize

\* A page is made of its parts.
LEMMA MakeNode ==
  ASSUME NEW l \in BOOLEAN, NEW up, NEW nx, NEW s, IsSeq(s), IF l THEN Pairs(s) ELSE Uniq(s),
         NEW n, n = [leaf |-> l, parent |-> up, next |-> nx, array_ |-> s]
  PROVE  /\ IsNode(n) /\ GetSize(n) = Len(s) /\ Kin(n) = IF l THEN {} ELSE Vals(s)
         /\ n.leaf = l /\ n.parent = up /\ n.next = nx /\ n.array_ = s
<1>1. n.leaf = l /\ n.parent = up /\ n.next = nx /\ n.array_ = s
  OBVIOUS
<1>2. QED
  BY <1>1 DEF IsNode, GetSize, Kin

\* A page whose pairs change.
LEMMA ChangeNode ==
  ASSUME NEW n, IsNode(n), NEW s, IsSeq(s), IF n.leaf THEN Pairs(s) ELSE Uniq(s),
         NEW r, r = [n EXCEPT !.array_ = s]
  PROVE  /\ IsNode(r) /\ GetSize(r) = Len(s) /\ Kin(r) = IF n.leaf THEN {} ELSE Vals(s)
         /\ r.leaf = n.leaf /\ r.parent = n.parent /\ r.next = n.next /\ r.array_ = s
<1>1. /\ n = [leaf |-> n.leaf, parent |-> n.parent, next |-> n.next, array_ |-> n.array_]
      /\ n.leaf \in BOOLEAN
  BY DEF IsNode
<1>2. r = [leaf |-> n.leaf, parent |-> n.parent, next |-> n.next, array_ |-> s]
  BY <1>1
<1>3. QED
  BY <1>1, <1>2, MakeNode

\* KeyIndex is a place of the page, or the one behind its last.
LEMMA KeyIndexPlace ==
  ASSUME NEW n, IsNode(n), NEW k
  PROVE  KeyIndex(n, k) \in 1 .. GetSize(n) + 1
<1> DEFINE g == GetSize(n)
           S == {i \in 1 .. g : KeyAt(n, i) < k}
<1>1. g \in Nat
  BY NodeSize
<1> HIDE DEF g
<1>2. IsFiniteSet(1 .. g) /\ Cardinality(1 .. g) = g
  BY <1>1, FS_Interval
<1>3. S \subseteq 1 .. g
  OBVIOUS
<1> HIDE DEF S
<1>4. Cardinality(S) \in Nat /\ Cardinality(S) <= g
  BY <1>2, <1>3, FS_Subset, FS_CardinalityType
<1>5. KeyIndex(n, k) = 1 + Cardinality(S)
  BY DEF KeyIndex, S, g
<1>6. QED
  BY <1>1, <1>4, <1>5 DEF g

\* Insert of a leaf.
LEMMA LeafInsertNode ==
  ASSUME NEW n, IsNode(n), n.leaf, NEW k \in Key, NEW v \in {FirstRow, OtherRow}
  PROVE  LET r == LeafInsert(n, k, v)
         IN  /\ IsNode(r) /\ GetSize(r) = GetSize(n) + 1 /\ Kin(r) = {}
             /\ r.leaf /\ r.parent = n.parent /\ r.next = n.next
<1> SUFFICES ASSUME NEW r, r = LeafInsert(n, k, v)
             PROVE  /\ IsNode(r) /\ GetSize(r) = GetSize(n) + 1 /\ Kin(r) = {}
                    /\ r.leaf /\ r.parent = n.parent /\ r.next = n.next
  OBVIOUS
<1> DEFINE s == InsertAt(n.array_, KeyIndex(n, k), <<k, v>>)
           e == <<k, v>>
<1>1. e \in Pair
  BY DEF Pair
<1> HIDE DEF e
<1>2. IsSeq(n.array_) /\ Pairs(n.array_) /\ GetSize(n) = Len(n.array_)
  BY NodeSize DEF IsNode
<1>3. IsSeq(s) /\ Len(s) = GetSize(n) + 1 /\ Pairs(s)
  <2>1. s = InsertAt(n.array_, KeyIndex(n, k), e) /\ KeyIndex(n, k) \in 1 .. Len(n.array_) + 1
    BY <1>2, KeyIndexPlace DEF e
  <2> HIDE DEF s
  <2>2. QED
    BY <1>1, <1>2, <2>1, InsertVals
<1>4. r = [n EXCEPT !.array_ = s]
  BY DEF LeafInsert
<1> HIDE DEF s
<1>5. QED
  BY <1>2, <1>3, <1>4, ChangeNode DEF s

\* RemoveAndDeleteRecord of a leaf.
LEMMA RemoveNode ==
  ASSUME NEW n, IsNode(n), n.leaf, NEW k
  PROVE  LET r == RemoveAndDeleteRecord(n, k)
         IN  /\ IsNode(r) /\ GetSize(r) \in {GetSize(n), GetSize(n) - 1} /\ Kin(r) = {}
             /\ r.leaf /\ r.parent = n.parent /\ r.next = n.next
             /\ ~Holds(n, k) => r = n
             /\ Holds(n, k) => /\ r.array_ = RemoveAt(n.array_, KeyIndex(n, k))
                               /\ GetSize(r) = GetSize(n) - 1
<1> SUFFICES ASSUME NEW r, r = RemoveAndDeleteRecord(n, k)
             PROVE  /\ IsNode(r) /\ GetSize(r) \in {GetSize(n), GetSize(n) - 1} /\ Kin(r) = {}
                    /\ r.leaf /\ r.parent = n.parent /\ r.next = n.next
                    /\ ~Holds(n, k) => r = n
                    /\ Holds(n, k) => /\ r.array_ = RemoveAt(n.array_, KeyIndex(n, k))
                                      /\ GetSize(r) = GetSize(n) - 1
  OBVIOUS
<1>1. IsSeq(n.array_) /\ Pairs(n.array_) /\ GetSize(n) = Len(n.array_) /\ GetSize(n) \in Nat
  BY NodeSize DEF IsNode
<1>2. CASE Holds(n, k)
  <2> DEFINE i == KeyIndex(n, k)
             s == RemoveAt(n.array_, i)
  <2>1. i \in 1 .. Len(n.array_)
    BY <1>1, <1>2, KeyIndexPlace DEF Holds
  <2>2. r = [n EXCEPT !.array_ = s]
    BY <1>2 DEF RemoveAndDeleteRecord
  <2> HIDE DEF i
  <2>3. /\ IsSeq(s) /\ Len(s) = Len(n.array_) - 1
        /\ \A j \in 1 .. Len(n.array_) - 1 :
             s[j] = IF j < i THEN n.array_[j] ELSE n.array_[j + 1]
    BY <1>1, <2>1, RemoveSeq
  <2> HIDE DEF s
  <2>4. Pairs(s)
    BY <1>1, <2>1, <2>3, RemoveVals
  <2>5. /\ IsNode(r) /\ GetSize(r) = Len(s) /\ Kin(r) = {} /\ r.array_ = s
        /\ r.leaf /\ r.parent = n.parent /\ r.next = n.next
    <3>1. IF n.leaf THEN Pairs(s) ELSE Uniq(s)
      BY <2>4
    <3>2. IsSeq(s)
      BY <2>3
    <3>3. QED
      BY <2>2, <3>1, <3>2, ChangeNode
  <2>6. QED
    BY <1>1, <1>2, <2>3, <2>5 DEF s, i
<1>3. CASE ~Holds(n, k)
  BY <1>3 DEF RemoveAndDeleteRecord, Kin
<1>4. QED
  BY <1>2, <1>3

\* Where a child is.
LEMMA ValuePlace ==
  ASSUME NEW n, IsNode(n), ~n.leaf, NEW c \in Kin(n)
  PROVE  ValueIndex(n, c) \in 1 .. GetSize(n) /\ ValueAt(n, ValueIndex(n, c)) = c
<1>1. \E i \in 1 .. GetSize(n) : ValueAt(n, i) = c
  BY DEF Kin, Vals, ValueAt, GetSize
<1>2. QED
  BY <1>1 DEF ValueIndex

\* InsertNodeAfter of an internal page.
LEMMA InsertAfterNode ==
  ASSUME NEW n, IsNode(n), ~n.leaf, NEW p \in Kin(n), NEW k, NEW q, q \notin Kin(n)
  PROVE  LET r == InsertNodeAfter(n, p, k, q)
         IN  /\ IsNode(r) /\ GetSize(r) = GetSize(n) + 1 /\ Kin(r) = Kin(n) \union {q}
             /\ ~r.leaf /\ r.parent = n.parent /\ r.next = n.next
<1> SUFFICES ASSUME NEW r, r = InsertNodeAfter(n, p, k, q)
             PROVE  /\ IsNode(r) /\ GetSize(r) = GetSize(n) + 1 /\ Kin(r) = Kin(n) \union {q}
                    /\ ~r.leaf /\ r.parent = n.parent /\ r.next = n.next
  OBVIOUS
<1> DEFINE i == ValueIndex(n, p) + 1
           e == <<k, q>>
           s == InsertAt(n.array_, i, e)
<1>1. IsSeq(n.array_) /\ Uniq(n.array_) /\ GetSize(n) = Len(n.array_) /\ GetSize(n) \in Nat
  BY NodeSize DEF IsNode
<1>2. i \in 1 .. Len(n.array_) + 1
  BY <1>1, ValuePlace
<1>3. r = [n EXCEPT !.array_ = s]
  BY DEF InsertNodeAfter
<1>4. e[2] = q
  OBVIOUS
<1>5. Kin(n) = Vals(n.array_)
  BY DEF Kin
<1> HIDE DEF i, e
<1>6. IsSeq(s) /\ Len(s) = GetSize(n) + 1 /\ Uniq(s) /\ Vals(s) = Kin(n) \union {q}
  BY <1>1, <1>2, <1>4, <1>5, InsertVals
<1> HIDE DEF s
<1>7. QED
  BY <1>3, <1>6, ChangeNode DEF s, i, e

\* SetKeyAt of an internal page.
LEMMA SetKeyNode ==
  ASSUME NEW n, IsNode(n), ~n.leaf, NEW i \in 1 .. GetSize(n), NEW k
  PROVE  LET r == SetKey(n, i, k)
         IN  /\ IsNode(r) /\ GetSize(r) = GetSize(n) /\ Kin(r) = Kin(n)
             /\ ~r.leaf /\ r.parent = n.parent /\ r.next = n.next
             /\ \A j \in 1 .. GetSize(n) : ValueAt(r, j) = ValueAt(n, j)
             /\ \A j \in 1 .. GetSize(n) : j # i => KeyAt(r, j) = KeyAt(n, j)
             /\ KeyAt(r, i) = k
<1> SUFFICES ASSUME NEW r, r = SetKey(n, i, k)
             PROVE  /\ IsNode(r) /\ GetSize(r) = GetSize(n) /\ Kin(r) = Kin(n)
                    /\ ~r.leaf /\ r.parent = n.parent /\ r.next = n.next
                    /\ \A j \in 1 .. GetSize(n) : ValueAt(r, j) = ValueAt(n, j)
                    /\ \A j \in 1 .. GetSize(n) : j # i => KeyAt(r, j) = KeyAt(n, j)
                    /\ KeyAt(r, i) = k
  OBVIOUS
<1> DEFINE s == n.array_
           a == [s EXCEPT ![i] = <<k, s[i][2]>>]
<1>1. IsSeq(s) /\ Uniq(s) /\ GetSize(n) = Len(s) /\ GetSize(n) \in Nat /\ DOMAIN s = 1 .. Len(s)
  BY NodeSize DEF IsNode
<1>2. n = [leaf |-> n.leaf, parent |-> n.parent, next |-> n.next, array_ |-> n.array_]
  BY DEF IsNode
<1>3. r = [n EXCEPT !.array_ = a]
  BY <1>1, <1>2 DEF SetKey
<1>4. Kin(n) = Vals(s)
  BY DEF Kin
<1> HIDE DEF s
<1>a. /\ IsSeq(a) /\ Len(a) = Len(s)
      /\ \A j \in 1 .. Len(s) : a[j] = IF j = i THEN <<k, s[i][2]>> ELSE s[j]
  <2>1. /\ a = [j \in 1 .. Len(s) |-> a[j]]
        /\ \A j \in 1 .. Len(s) : a[j] = IF j = i THEN <<k, s[i][2]>> ELSE s[j]
    BY <1>1
  <2> HIDE DEF a
  <2>2. QED
    BY <1>1, <2>1, MakeSeq
<1> HIDE DEF a
<1>5. /\ IsSeq(a) /\ Len(a) = Len(s)
      /\ \A j \in 1 .. Len(s) : a[j][2] = s[j][2]
      /\ \A j \in 1 .. Len(s) : j # i => a[j] = s[j]
      /\ a[i][1] = k
      /\ Vals(a) = Vals(s)
      /\ Uniq(s) => Uniq(a)
  BY <1>1, <1>a, SetVals
<1>6. /\ IsNode(r) /\ GetSize(r) = Len(a) /\ Kin(r) = Vals(a) /\ r.array_ = a
      /\ r.leaf = n.leaf /\ r.parent = n.parent /\ r.next = n.next
  BY <1>1, <1>3, <1>5, ChangeNode
<1>7. QED
  BY <1>1, <1>4, <1>5, <1>6 DEF s, ValueAt, KeyAt

\* MoveHalfTo: the halves of a page.
LEMMA HalfNodes ==
  ASSUME NEW n, IsNode(n), NEW q
  PROVE  LET r == UpperHalf(n)
             l == LowerHalf(n, q)
         IN  /\ IsNode(r) /\ GetSize(r) = GetSize(n) - GetSize(n) \div 2
             /\ r.leaf = n.leaf /\ r.parent = n.parent /\ r.next = n.next
             /\ IsNode(l) /\ GetSize(l) = GetSize(n) \div 2
             /\ l.leaf = n.leaf /\ l.parent = n.parent
             /\ l.next = IF n.leaf THEN q ELSE n.next
             /\ Kin(n) = Kin(l) \union Kin(r) /\ Kin(l) \intersect Kin(r) = {}
             /\ l.array_ = SubSeq(n.array_, 1, GetSize(n) \div 2)
             /\ r.array_ = SubSeq(n.array_, GetSize(n) \div 2 + 1, GetSize(n))
<1> SUFFICES ASSUME NEW r, r = UpperHalf(n),
                  NEW l, l = LowerHalf(n, q)
             PROVE  /\ IsNode(r) /\ GetSize(r) = GetSize(n) - GetSize(n) \div 2
                    /\ r.leaf = n.leaf /\ r.parent = n.parent /\ r.next = n.next
                    /\ IsNode(l) /\ GetSize(l) = GetSize(n) \div 2
                    /\ l.leaf = n.leaf /\ l.parent = n.parent
                    /\ l.next = IF n.leaf THEN q ELSE n.next
                    /\ Kin(n) = Kin(l) \union Kin(r) /\ Kin(l) \intersect Kin(r) = {}
                    /\ l.array_ = SubSeq(n.array_, 1, GetSize(n) \div 2)
                    /\ r.array_ = SubSeq(n.array_, GetSize(n) \div 2 + 1, GetSize(n))
  OBVIOUS
<1> DEFINE s == n.array_
           h == GetSize(n) \div 2
           a == SubSeq(s, 1, h)
           b == SubSeq(s, h + 1, Len(s))
<1>1. /\ IsSeq(s) /\ (IF n.leaf THEN Pairs(s) ELSE Uniq(s)) /\ GetSize(n) = Len(s)
      /\ GetSize(n) \in Nat /\ n.leaf \in BOOLEAN
      /\ n = [leaf |-> n.leaf, parent |-> n.parent, next |-> n.next, array_ |-> n.array_]
  BY NodeSize DEF IsNode
<1>2. h \in 0 .. Len(s)
  BY <1>1
<1>3. r = [leaf |-> n.leaf, parent |-> n.parent, next |-> n.next, array_ |-> b]
  BY <1>1 DEF UpperHalf
<1>4. l = [leaf |-> n.leaf, parent |-> n.parent, next |-> IF n.leaf THEN q ELSE n.next,
           array_ |-> a]
  BY <1>1 DEF LowerHalf
<1>5. Kin(n) = IF n.leaf THEN {} ELSE Vals(s)
  BY DEF Kin
<1> HIDE DEF s, h
<1>6. /\ IsSeq(a) /\ IsSeq(b) /\ Len(a) = h /\ Len(b) = Len(s) - h
      /\ Pairs(s) => Pairs(a) /\ Pairs(b)
      /\ Vals(s) = Vals(a) \union Vals(b)
      /\ Uniq(s) => Uniq(a) /\ Uniq(b) /\ Vals(a) \intersect Vals(b) = {}
  BY <1>1, <1>2, CutVals
<1> HIDE DEF a, b
<1>7. /\ IsNode(r) /\ GetSize(r) = Len(b) /\ Kin(r) = IF n.leaf THEN {} ELSE Vals(b)
      /\ r.leaf = n.leaf /\ r.parent = n.parent /\ r.next = n.next /\ r.array_ = b
  <2>1. IF n.leaf THEN Pairs(b) ELSE Uniq(b)
    BY <1>1, <1>6
  <2>2. QED
    BY <1>1, <1>3, <1>6, <2>1 DEF IsNode, GetSize, Kin
<1>8. /\ IsNode(l) /\ GetSize(l) = Len(a) /\ Kin(l) = IF n.leaf THEN {} ELSE Vals(a)
      /\ l.leaf = n.leaf /\ l.parent = n.parent /\ l.array_ = a
      /\ l.next = IF n.leaf THEN q ELSE n.next
  <2> DEFINE nx == IF n.leaf THEN q ELSE n.next
  <2>1. l = [leaf |-> n.leaf, parent |-> n.parent, next |-> nx, array_ |-> a]
    BY <1>4
  <2>2. IF n.leaf THEN Pairs(a) ELSE Uniq(a)
    BY <1>1, <1>6
  <2> HIDE DEF nx
  <2>3. /\ IsNode(l) /\ GetSize(l) = Len(a) /\ Kin(l) = IF n.leaf THEN {} ELSE Vals(a)
        /\ l.leaf = n.leaf /\ l.parent = n.parent /\ l.next = nx /\ l.array_ = a
    BY <1>1, <1>6, <2>1, <2>2 DEF IsNode, GetSize, Kin
  <2>4. QED
    BY <2>3 DEF nx
<1>9. Kin(n) = Kin(l) \union Kin(r) /\ Kin(l) \intersect Kin(r) = {}
  BY <1>1, <1>5, <1>6, <1>7, <1>8
<1>10. QED
  BY <1>1, <1>6, <1>7, <1>8, <1>9 DEF s, h, a, b

\* MoveAllTo: a page gets the pairs of another one behind its own.
LEMMA MoveAllNode ==
  ASSUME NEW l, IsNode(l), NEW n, IsNode(n), l.leaf = n.leaf, GetSize(n) >= 1,
         Kin(l) \intersect Kin(n) = {}, NEW k
  PROVE  LET r == MoveAllTo(l, n, k)
         IN  /\ IsNode(r) /\ GetSize(r) = GetSize(l) + GetSize(n)
             /\ r.leaf = l.leaf /\ r.parent = l.parent
             /\ r.next = IF n.leaf THEN n.next ELSE l.next
             /\ Kin(r) = Kin(l) \union Kin(n)
             /\ \A i \in 1 .. GetSize(r) :
                  ValueAt(r, i) = IF i <= GetSize(l) THEN ValueAt(l, i) ELSE ValueAt(n, i - GetSize(l))
<1> SUFFICES ASSUME NEW r, r = MoveAllTo(l, n, k)
             PROVE  /\ IsNode(r) /\ GetSize(r) = GetSize(l) + GetSize(n)
                    /\ r.leaf = l.leaf /\ r.parent = l.parent
                    /\ r.next = IF n.leaf THEN n.next ELSE l.next
                    /\ Kin(r) = Kin(l) \union Kin(n)
                    /\ \A i \in 1 .. GetSize(r) :
                         ValueAt(r, i) = IF i <= GetSize(l) THEN ValueAt(l, i) ELSE ValueAt(n, i - GetSize(l))
  OBVIOUS
<1> DEFINE w == IF n.leaf THEN n ELSE SetKey(n, 1, k)
           s == l.array_
           b == w.array_
           a == s \o b
           nx == IF n.leaf THEN n.next ELSE l.next
<1>1. /\ IsSeq(s) /\ (IF l.leaf THEN Pairs(s) ELSE Uniq(s)) /\ GetSize(l) = Len(s)
      /\ GetSize(l) \in Nat /\ GetSize(n) \in Nat /\ l.leaf \in BOOLEAN /\ n.leaf \in BOOLEAN
      /\ l = [leaf |-> l.leaf, parent |-> l.parent, next |-> l.next, array_ |-> l.array_]
  BY NodeSize DEF IsNode
<1>2. /\ IsNode(w) /\ GetSize(w) = GetSize(n) /\ Kin(w) = Kin(n) /\ w.leaf = n.leaf
      /\ \A i \in 1 .. GetSize(n) : ValueAt(w, i) = ValueAt(n, i)
  <2>1. CASE n.leaf
    BY <2>1
  <2>2. CASE ~n.leaf
    <3>1. w = SetKey(n, 1, k) /\ 1 \in 1 .. GetSize(n)
      BY <1>1, <2>2
    <3> HIDE DEF w
    <3>2. IsNode(w) /\ GetSize(w) = GetSize(n) /\ Kin(w) = Kin(n) /\ ~w.leaf
          /\ \A i \in 1 .. GetSize(n) : ValueAt(w, i) = ValueAt(n, i)
      BY <2>2, <3>1, SetKeyNode
    <3>3. w.leaf = FALSE /\ n.leaf = FALSE
      BY <1>1, <2>2, <3>2 DEF IsNode
    <3>4. QED
      BY <3>2, <3>3
  <2>3. QED
    BY <1>1, <2>1, <2>2
<1>3. r = [leaf |-> l.leaf, parent |-> l.parent, next |-> nx, array_ |-> a]
  <2>1. CASE n.leaf
    BY <1>1, <2>1 DEF MoveAllTo
  <2>2. CASE ~n.leaf
    <3> DEFINE x == SetKey(n, 1, k).array_
    <3>1. a = s \o x /\ nx = l.next
      BY <2>2
    <3>2. r = [l EXCEPT !.array_ = s \o x]
      BY <2>2 DEF MoveAllTo
    <3> HIDE DEF x, a, nx
    <3>3. QED
      BY <1>1, <3>1, <3>2
  <2>3. QED
    BY <1>1, <2>1, <2>2
<1>4. /\ Kin(l) = IF n.leaf THEN {} ELSE Vals(s) 
      /\ Kin(n) = IF n.leaf THEN {} ELSE Vals(b)
      /\ IsSeq(b) /\ Len(b) = GetSize(n) /\ (IF n.leaf THEN Pairs(b) ELSE Uniq(b))
  <2> HIDE DEF w
  <2>1. Kin(l) = IF n.leaf THEN {} ELSE Vals(s)
    BY DEF Kin
  <2>2. Kin(w) = IF n.leaf THEN {} ELSE Vals(b)
    BY <1>2 DEF Kin
  <2>3. IsSeq(b) /\ Len(b) = GetSize(n) /\ (IF n.leaf THEN Pairs(b) ELSE Uniq(b))
    BY <1>2, NodeSize DEF IsNode
  <2>4. QED
    BY <1>2, <2>1, <2>2, <2>3
<1>5. \A i \in 1 .. GetSize(l) + GetSize(n) :
        a[i] = IF i <= GetSize(l) THEN s[i] ELSE b[i - GetSize(l)]
  <2> HIDE DEF s, b
  <2>1. /\ Len(a) = Len(s) + Len(b)
        /\ \A i \in 1 .. Len(s) + Len(b) : a[i] = IF i <= Len(s) THEN s[i] ELSE b[i - Len(s)]
    BY <1>1, <1>4, JoinSeq
  <2>2. QED
    BY <1>1, <1>4, <2>1
<1>6. /\ IsSeq(a) /\ Len(a) = GetSize(l) + GetSize(n)
      /\ (IF n.leaf THEN Pairs(a) ELSE Uniq(a))
      /\ Vals(a) = Vals(s) \union Vals(b)
  <2> HIDE DEF s, b
  <2>1. a = s \o b
    OBVIOUS
  <2> HIDE DEF a
  <2>2. /\ IsSeq(a) /\ Len(a) = Len(s) + Len(b)
        /\ Pairs(s) /\ Pairs(b) => Pairs(a)
        /\ Vals(a) = Vals(s) \union Vals(b)
        /\ Uniq(s) /\ Uniq(b) /\ Vals(s) \intersect Vals(b) = {} => Uniq(a)
    BY <1>1, <1>4, <2>1, JoinVals
  <2>3. QED
    BY <1>1, <1>4, <2>2
<1> HIDE DEF a, s, nx
<1>7. /\ IsNode(r) /\ GetSize(r) = Len(a) /\ Kin(r) = IF l.leaf THEN {} ELSE Vals(a)
      /\ r.leaf = l.leaf /\ r.parent = l.parent /\ r.next = nx /\ r.array_ = a
  <2>1. IF l.leaf THEN Pairs(a) ELSE Uniq(a)
    BY <1>6
  <2> HIDE DEF w, b
  <2>2. l.leaf \in BOOLEAN /\ IsSeq(a)
    BY <1>1, <1>6
  <2>3. r.leaf = l.leaf /\ r.parent = l.parent /\ r.next = nx /\ r.array_ = a
    BY <1>3
  <2>4. IsNode(r)
    BY <1>3, <2>1, <2>2, <2>3 DEF IsNode
  <2>5. GetSize(r) = Len(a) /\ Kin(r) = IF l.leaf THEN {} ELSE Vals(a)
    BY <2>3 DEF GetSize, Kin
  <2>6. QED
    BY <2>3, <2>4, <2>5
<1>8. ASSUME NEW i \in 1 .. GetSize(r)
      PROVE  ValueAt(r, i) = IF i <= GetSize(l) THEN ValueAt(l, i) ELSE ValueAt(n, i - GetSize(l))
  <2> HIDE DEF w, b
  <2>1. ValueAt(r, i) = IF i <= GetSize(l) THEN s[i][2] ELSE b[i - GetSize(l)][2]
    BY <1>5, <1>6, <1>7 DEF ValueAt
  <2>2. CASE i <= GetSize(l)
    BY <2>1, <2>2 DEF ValueAt, s
  <2>3. CASE ~(i <= GetSize(l))
    <3>1. i - GetSize(l) \in 1 .. GetSize(n)
      BY <1>1, <1>6, <1>7, <2>3
    <3>2. ValueAt(w, i - GetSize(l)) = ValueAt(n, i - GetSize(l))
      BY <1>2, <3>1
    <3>3. b[i - GetSize(l)][2] = ValueAt(w, i - GetSize(l))
      BY DEF b, ValueAt
    <3>4. QED
      BY <2>1, <2>3, <3>2, <3>3
  <2>4. QED
    BY <2>2, <2>3
<1>9. Kin(r) = Kin(l) \union Kin(n)
  <2> HIDE DEF w, b
  <2>1. QED
    BY <1>1, <1>4, <1>6, <1>7
<1>10. QED
  BY <1>6, <1>7, <1>8, <1>9 DEF nx

\* A leaf borrows a pair.
LEMMA LeafBorrowNode ==
  ASSUME NEW n, IsNode(n), n.leaf, NEW m, IsNode(m), m.leaf, GetSize(m) >= 1,
         NEW first \in BOOLEAN
  PROVE  LET r == LeafBorrow(n, m, first)
         IN  /\ IsNode(r) /\ GetSize(r) = GetSize(n) + 1 /\ Kin(r) = {}
             /\ r.leaf /\ r.parent = n.parent /\ r.next = n.next
<1> SUFFICES ASSUME NEW r, r = LeafBorrow(n, m, first)
             PROVE  /\ IsNode(r) /\ GetSize(r) = GetSize(n) + 1 /\ Kin(r) = {}
                    /\ r.leaf /\ r.parent = n.parent /\ r.next = n.next
  OBVIOUS
<1> DEFINE s == n.array_
           e == IF first THEN m.array_[1] ELSE Last(m.array_)
           a == IF first THEN s \o <<e>> ELSE <<e>> \o s
<1>1. /\ IsSeq(s) /\ Pairs(s) /\ GetSize(n) = Len(s) /\ GetSize(n) \in Nat
      /\ IsSeq(m.array_) /\ Pairs(m.array_) /\ GetSize(m) = Len(m.array_) /\ GetSize(m) \in Nat
  BY NodeSize DEF IsNode
<1>2. e \in Pair
  BY <1>1 DEF Pairs, Last
<1>3. Append(s, e) = s \o <<e>>
  <2> HIDE DEF e, s
  <2>1. QED
    BY <1>1, AppendSeq
<1>4. r = [n EXCEPT !.array_ = a]
  <2>1. CASE first
    BY <1>3, <2>1 DEF LeafBorrow
  <2>2. CASE ~first
    BY <2>2 DEF LeafBorrow
  <2>3. QED
    BY <2>1, <2>2
<1> HIDE DEF e, s
<1>5. IsSeq(a) /\ Len(a) = Len(s) + 1 /\ Pairs(a)
  <2> DEFINE o == <<e>>
  <2>1. IsSeq(o) /\ Len(o) = 1 /\ Pairs(o)
    BY <1>2, OneVals
  <2>2. a = IF first THEN s \o o ELSE o \o s
    OBVIOUS
  <2> HIDE DEF o, a
  <2>3. CASE first
    <3>1. IsSeq(s \o o) /\ Len(s \o o) = Len(s) + Len(o) /\ (Pairs(s) /\ Pairs(o) => Pairs(s \o o))
      BY <1>1, <2>1, JoinVals
    <3>2. QED
      BY <1>1, <2>1, <2>2, <2>3, <3>1
  <2>4. CASE ~first
    <3>1. IsSeq(o \o s) /\ Len(o \o s) = Len(o) + Len(s) /\ (Pairs(o) /\ Pairs(s) => Pairs(o \o s))
      BY <1>1, <2>1, JoinVals
    <3>2. QED
      BY <1>1, <2>1, <2>2, <2>4, <3>1
  <2>5. QED
    BY <2>3, <2>4
<1> HIDE DEF a
<1>6. IF n.leaf THEN Pairs(a) ELSE Uniq(a)
  BY <1>5
<1>7. QED
  BY <1>1, <1>4, <1>5, <1>6, ChangeNode DEF s

\* An internal page borrows a child.
LEMMA InternalBorrowNode ==
  ASSUME NEW n, IsNode(n), ~n.leaf, GetSize(n) >= 1,
         NEW m, IsNode(m), ~m.leaf, GetSize(m) >= 1,
         NEW first \in BOOLEAN, NEW k, NEW c, c = ValueAt(m, IF first THEN 1 ELSE GetSize(m)),
         c \notin Kin(n)
  PROVE  LET r == InternalBorrow(n, m, first, k)
         IN  /\ IsNode(r) /\ GetSize(r) = GetSize(n) + 1 /\ Kin(r) = Kin(n) \union {c}
             /\ ~r.leaf /\ r.parent = n.parent /\ r.next = n.next
<1> SUFFICES ASSUME NEW r, r = InternalBorrow(n, m, first, k)
             PROVE  /\ IsNode(r) /\ GetSize(r) = GetSize(n) + 1 /\ Kin(r) = Kin(n) \union {c}
                    /\ ~r.leaf /\ r.parent = n.parent /\ r.next = n.next
  OBVIOUS
<1> DEFINE s == n.array_
           w == SetKey(n, 1, k)
           b == w.array_
           e == IF first THEN <<k, ValueAt(m, 1)>> ELSE Last(m.array_)
           a == IF first THEN s \o <<e>> ELSE <<e>> \o b
<1>1. /\ IsSeq(s) /\ Uniq(s) /\ GetSize(n) = Len(s) /\ GetSize(n) \in Nat
      /\ GetSize(m) = Len(m.array_) /\ GetSize(m) \in Nat /\ Kin(n) = Vals(s)
  BY NodeSize DEF IsNode, Kin
<1>2. e[2] = c
  BY <1>1 DEF Last, ValueAt
<1>3. Append(s, e) = s \o <<e>>
  <2> HIDE DEF e, s
  <2>1. QED
    BY <1>1, AppendSeq
<1>4. r = [n EXCEPT !.array_ = a]
  <2>1. CASE first
    BY <1>3, <2>1 DEF InternalBorrow
  <2>2. CASE ~first
    BY <2>2 DEF InternalBorrow
  <2>3. QED
    BY <2>1, <2>2
<1>5. IsSeq(b) /\ Uniq(b) /\ Len(b) = Len(s) /\ Vals(b) = Vals(s)
  <2>1. 1 \in 1 .. GetSize(n)
    BY <1>1
  <2> HIDE DEF w
  <2>2. IsNode(w) /\ GetSize(w) = GetSize(n) /\ Kin(w) = Kin(n) /\ ~w.leaf
    BY <2>1, SetKeyNode DEF w
  <2>3. QED
    BY <1>1, <2>2 DEF IsNode, Kin, GetSize
<1> HIDE DEF e, s, b
<1>6. IsSeq(a) /\ Len(a) = Len(s) + 1 /\ Uniq(a) /\ Vals(a) = Vals(s) \union {c}
  <2> DEFINE o == <<e>>
  <2>1. IsSeq(o) /\ Len(o) = 1 /\ Uniq(o) /\ Vals(o) = {c}
    BY <1>2, OneVals
  <2>2. a = IF first THEN s \o o ELSE o \o b
    OBVIOUS
  <2>3. c \notin Vals(s) /\ c \notin Vals(b)
    BY <1>1, <1>5
  <2> HIDE DEF o, a
  <2>4. CASE first
    <3>1. Vals(s) \intersect Vals(o) = {}
      BY <2>1, <2>3
    <3>2. QED
      BY <1>1, <2>1, <2>2, <2>4, <3>1, JoinVals
  <2>5. CASE ~first
    <3>1. Vals(o) \intersect Vals(b) = {}
      BY <2>1, <2>3
    <3>2. IsSeq(a) /\ Len(a) = 1 + Len(b) /\ Uniq(a) /\ Vals(a) = {c} \union Vals(b)
      BY <1>5, <2>1, <2>2, <2>5, <3>1, JoinVals
    <3>3. QED
      BY <1>1, <1>5, <3>2
  <2>6. QED
    BY <2>4, <2>5
<1> HIDE DEF a
<1>7. IF n.leaf THEN Pairs(a) ELSE Uniq(a)
  BY <1>6
<1>8. QED
  BY <1>1, <1>4, <1>6, <1>7, ChangeNode

\* The neighbor lends its first or its last pair.
LEMMA LendNode ==
  ASSUME NEW m, IsNode(m), GetSize(m) >= 1, NEW first \in BOOLEAN,
         NEW c, c = ValueAt(m, IF first THEN 1 ELSE GetSize(m))
  PROVE  LET r == Lend(m, first)
         IN  /\ IsNode(r) /\ GetSize(r) = GetSize(m) - 1
             /\ Kin(r) = IF m.leaf THEN {} ELSE Kin(m) \ {c}
             /\ r.leaf = m.leaf /\ r.parent = m.parent /\ r.next = m.next
             /\ r.array_ = IF first THEN Tail(m.array_) ELSE Front(m.array_)
<1> SUFFICES ASSUME NEW r, r = Lend(m, first)
             PROVE  /\ IsNode(r) /\ GetSize(r) = GetSize(m) - 1
                    /\ Kin(r) = IF m.leaf THEN {} ELSE Kin(m) \ {c}
                    /\ r.leaf = m.leaf /\ r.parent = m.parent /\ r.next = m.next
                    /\ r.array_ = IF first THEN Tail(m.array_) ELSE Front(m.array_)
  OBVIOUS
<1> DEFINE s == m.array_
           a == IF first THEN Tail(s) ELSE Front(s)
           i == IF first THEN 1 ELSE Len(s)
<1>1. /\ IsSeq(s) /\ (IF m.leaf THEN Pairs(s) ELSE Uniq(s)) /\ GetSize(m) = Len(s)
      /\ GetSize(m) \in Nat /\ Kin(m) = IF m.leaf THEN {} ELSE Vals(s)
  BY NodeSize DEF IsNode, Kin
<1>2. r = [m EXCEPT !.array_ = a]
  BY DEF Lend
<1>3. c = s[i][2]
  BY <1>1 DEF ValueAt
<1> HIDE DEF s
<1>4. /\ IsSeq(a) /\ Len(a) = Len(s) - 1
      /\ \A j \in 1 .. Len(s) - 1 : a[j] = IF j < i THEN s[j] ELSE s[j + 1]
      /\ i \in 1 .. Len(s)
  <2>1. /\ IsSeq(Tail(s)) /\ Len(Tail(s)) = Len(s) - 1
        /\ \A j \in 1 .. Len(s) - 1 : Tail(s)[j] = s[j + 1]
        /\ IsSeq(Front(s)) /\ Len(Front(s)) = Len(s) - 1
        /\ \A j \in 1 .. Len(s) - 1 : Front(s)[j] = s[j]
    BY <1>1, ShortSeq
  <2>2. CASE first
    BY <1>1, <2>1, <2>2
  <2>3. CASE ~first
    BY <1>1, <2>1, <2>3
  <2>4. QED
    BY <2>2, <2>3
<1> HIDE DEF a, i
<1>5. /\ Pairs(s) => Pairs(a)
      /\ Uniq(s) => Uniq(a) /\ Vals(a) = Vals(s) \ {c}
  <2>1. IsSeq(s)
    BY <1>1
  <2>2. /\ Pairs(s) => Pairs(a)
        /\ Uniq(s) => Uniq(a) /\ Vals(a) = Vals(s) \ {s[i][2]}
    BY <1>4, <2>1, RemoveVals
  <2>3. QED
    BY <1>3, <2>2
<1>6. IF m.leaf THEN Pairs(a) ELSE Uniq(a)
  BY <1>1, <1>5
<1>7. /\ IsNode(r) /\ GetSize(r) = Len(a) /\ Kin(r) = IF m.leaf THEN {} ELSE Vals(a)
      /\ r.leaf = m.leaf /\ r.parent = m.parent /\ r.next = m.next /\ r.array_ = a
  BY <1>2, <1>4, <1>6, ChangeNode
<1>8. QED
  BY <1>1, <1>4, <1>5, <1>7 DEF a, s

\* A child is taken out of an internal page.
LEMMA DropChildNode ==
  ASSUME NEW n, IsNode(n), ~n.leaf, NEW c \in Kin(n)
  PROVE  LET r == [n EXCEPT !.array_ = RemoveAt(n.array_, ValueIndex(n, c))]
         IN  /\ IsNode(r) /\ GetSize(r) = GetSize(n) - 1 /\ Kin(r) = Kin(n) \ {c}
             /\ ~r.leaf /\ r.parent = n.parent /\ r.next = n.next
             /\ r.array_ = RemoveAt(n.array_, ValueIndex(n, c))
<1> SUFFICES ASSUME NEW r, r = [n EXCEPT !.array_ = RemoveAt(n.array_, ValueIndex(n, c))]
             PROVE  /\ IsNode(r) /\ GetSize(r) = GetSize(n) - 1 /\ Kin(r) = Kin(n) \ {c}
                    /\ ~r.leaf /\ r.parent = n.parent /\ r.next = n.next
                    /\ r.array_ = RemoveAt(n.array_, ValueIndex(n, c))
  OBVIOUS
<1> DEFINE s == n.array_
           i == ValueIndex(n, c)
           a == RemoveAt(s, i)
<1>1. /\ IsSeq(s) /\ Uniq(s) /\ GetSize(n) = Len(s) /\ GetSize(n) \in Nat /\ Kin(n) = Vals(s)
  BY NodeSize DEF IsNode, Kin
<1>2. i \in 1 .. Len(s) /\ s[i][2] = c
  BY <1>1, ValuePlace DEF ValueAt
<1>3. r = [n EXCEPT !.array_ = a]
  OBVIOUS
<1> HIDE DEF s, i
<1>4. /\ IsSeq(a) /\ Len(a) = Len(s) - 1
      /\ \A j \in 1 .. Len(s) - 1 : a[j] = IF j < i THEN s[j] ELSE s[j + 1]
  BY <1>1, <1>2, RemoveSeq
<1> HIDE DEF a
<1>5. Uniq(a) /\ Vals(a) = Vals(s) \ {c}
  BY <1>1, <1>2, <1>4, RemoveVals
<1>6. IF n.leaf THEN Pairs(a) ELSE Uniq(a)
  BY <1>5
<1>7. IsSeq(a) /\ Len(a) = Len(s) - 1
  BY <1>4
<1>8. QED
  BY <1>1, <1>3, <1>5, <1>6, <1>7, ChangeNode DEF a, s, i

-----------------------------------------------------------------------------
(***************************************************************************)
(* The shape of a tree.                                                    *)
(***************************************************************************)
Pages(P) ==
  /\ IsFiniteSet(DOMAIN P)
  /\ DOMAIN P \subseteq Nat \ {0, 1}
  /\ \A p \in DOMAIN P : IsNode(P[p])

\* Every page but the root is listed by the parent it names; lev is the height
\* of a page above the leaves.
Parents(P, root, lev) ==
  \A p \in DOMAIN P :
    IF p = root THEN P[p].parent = INVALID_PAGE_ID
    ELSE /\ P[p].parent \in DOMAIN P
         /\ p \in Kin(P[P[p].parent])
         /\ lev[p] < lev[root]

\* The children of a page name it as their parent, and lie one level below.
Kids(P, lev) ==
  \A p \in DOMAIN P : \A c \in Kin(P[p]) :
    c \in DOMAIN P /\ P[c].parent = p /\ lev[p] = lev[c] + 1

Levels(P, lev) ==
  /\ \A p \in DOMAIN P : lev[p] \in Nat
  /\ \A p \in DOMAIN P : P[p].leaf <=> lev[p] = 0

Family(P, root, lev) ==
  root \in DOMAIN P /\ Levels(P, lev) /\ Parents(P, root, lev) /\ Kids(P, lev)

\* No page but x has too many or too few pairs.
Filled(n) == GetSize(n) \in GetMinSize(n) .. GetMaxSize(n)
Sizes(P, x) == \A p \in DOMAIN P \ {x} : Filled(P[p])

Shape(P, root, lev, x) == Pages(P) /\ Family(P, root, lev) /\ Sizes(P, x)

\* A bounded set of positive numbers has a greatest one.
LEMMA MaxElement ==
  ASSUME NEW m \in Nat, NEW S, S \subseteq 1 .. m, S # {}
  PROVE  Max(S) \in S /\ \A x \in S : Max(S) >= x
<1> DEFINE T == {m - x : x \in S}
<1>1. T \subseteq Nat /\ T # {}
  <2>1. \A x \in S : x \in 1 .. m
    OBVIOUS
  <2>2. \A x \in S : m - x \in Nat
    BY <2>1
  <2>3. T \subseteq Nat
    BY <2>2
  <2>4. PICK e : e \in S
    OBVIOUS
  <2>5. m - e \in T
    BY <2>4
  <2>6. QED
    BY <2>3, <2>5
<1>2. PICK z \in T : \A y \in T : z <= y
  <2> HIDE DEF T
  <2>1. QED
    BY <1>1, LeastElement
<1>3. PICK x \in S : z = m - x
  OBVIOUS
<1>4. \A y \in S : m - x <= m - y
  BY <1>2, <1>3
<1>5. \A y \in S : x >= y
  BY <1>4
<1>6. QED
  BY <1>5 DEF Max

\* A finite set of numbers is bounded.
LEMMA FiniteBound ==
  ASSUME NEW S, IsFiniteSet(S), S \subseteq Nat
  PROVE  \E m \in Nat : \A x \in S : x < m
<1> DEFINE From(m) == {x \in S : x >= m}
           f(m) == Cardinality(From(m))
           V == {f(m) : m \in Nat}
<1>1. ASSUME NEW m \in Nat PROVE IsFiniteSet(From(m)) /\ f(m) \in Nat
  <2>1. From(m) \subseteq S
    OBVIOUS
  <2> HIDE DEF From
  <2>2. IsFiniteSet(From(m))
    BY <2>1, FS_Subset
  <2>3. QED
    BY <2>2, FS_CardinalityType
<1>2. V \subseteq Nat /\ f(0) \in V
  BY <1>1
<1>3. PICK c \in V : \A d \in V : c <= d
  <2> HIDE DEF V, f
  <2>1. QED
    BY <1>2, LeastElement
<1>4. PICK m \in Nat : c = f(m)
  OBVIOUS
<1>5. ASSUME NEW x \in S, ~(x < m) PROVE FALSE
  <2>1. x \in Nat /\ x + 1 \in Nat /\ x \in From(m)
    BY <1>5
  <2>2. From(x + 1) \subseteq From(m) /\ x \notin From(x + 1)
    <3>1. ASSUME NEW y \in From(x + 1) PROVE y \in From(m)
      <4>1. y \in S /\ y >= x + 1 /\ y \in Nat
        BY <3>1
      <4>2. y >= m
        BY <1>5, <2>1, <4>1
      <4>3. QED
        BY <4>1, <4>2
    <3>2. ~(x >= x + 1)
      BY <2>1
    <3>3. x \notin From(x + 1)
      BY <3>2
    <3> HIDE DEF From
    <3>4. QED
      BY <3>1, <3>3
  <2>3. f(x + 1) \in V
    BY <2>1
  <2>4. IsFiniteSet(From(m)) /\ f(m) \in Nat /\ f(x + 1) \in Nat
    BY <1>1, <2>1
  <2> DEFINE A == From(m)
             B == From(x + 1)
  <2>5. IsFiniteSet(A) /\ B \subseteq A /\ A # B
    BY <2>1, <2>2, <2>4
  <2>6. f(m) = Cardinality(A) /\ f(x + 1) = Cardinality(B)
    OBVIOUS
  <2> HIDE DEF A, B, f, V, From
  <2>7. Cardinality(B) < Cardinality(A)
    <3>1. Cardinality(B) <= Cardinality(A) /\ (Cardinality(A) = Cardinality(B) => A = B)
      BY <2>5, FS_Subset, Zenon
    <3>2. Cardinality(A) \in Nat /\ Cardinality(B) \in Nat
      BY <2>4, <2>6
    <3>3. QED
      BY <2>5, <3>1, <3>2
  <2>8. f(m) <= f(x + 1)
    BY <1>3, <1>4, <2>3
  <2>9. QED
    BY <2>4, <2>6, <2>7, <2>8
<1>6. QED
  BY <1>5

\* The greatest of some page ids and the last one that was allocated.
LEMMA LastOf ==
  ASSUME last \in Nat \ {0}, NEW D, IsFiniteSet(D), D \subseteq Nat \ {0, 1}
  PROVE  /\ Max({last} \union D) \in Nat \ {0}
         /\ \A p \in D : p <= Max({last} \union D)
<1> DEFINE S == {last} \union D
<1>1. IsFiniteSet(S) /\ S \subseteq Nat
  <2>1. IsFiniteSet(D \union {last})
    BY FS_AddElement
  <2>2. S = D \union {last}
    OBVIOUS
  <2>3. QED
    BY <2>1, <2>2
<1>2. S # {} /\ D \subseteq S /\ \A x \in S : x \in Nat \ {0}
  OBVIOUS
<1>3. QED
  <2> HIDE DEF S
  <2>1. PICK m \in Nat : \A x \in S : x < m
    BY <1>1, FiniteBound
  <2>2. S \subseteq 1 .. m
    BY <1>2, <2>1
  <2>3. Max(S) \in S /\ \A x \in S : Max(S) >= x
    BY <1>2, <2>1, <2>2, MaxElement
  <2>4. Max(S) \in Nat \ {0} /\ \A x \in D : x <= Max(S)
    BY <1>2, <2>3
  <2>5. QED
    BY <2>4 DEF S

\* The page the buffer pool gives is a new one.
LEMMA NewPageIsNew ==
  ASSUME last \in Nat \ {0}, NEW t,
         IsFiniteSet(DOMAIN t.pages), DOMAIN t.pages \subseteq Nat \ {0, 1}
  PROVE  NewPageId(t) \in Nat \ {0, 1} /\ NewPageId(t) \notin DOMAIN t.pages
<1> DEFINE D == DOMAIN t.pages
           m == Max({last} \union D)
<1>1. m \in Nat \ {0} /\ \A p \in D : p <= m
  BY LastOf
<1>2. NewPageId(t) = 1 + m
  BY DEF NewPageId
<1> HIDE DEF m
<1>3. \A p \in D : p \in Nat
  OBVIOUS
<1>4. QED
  BY <1>1, <1>2, <1>3

\* Page r is page n, but for its parent.
Moved(r, n, up) ==
  /\ r.leaf = n.leaf /\ r.next = n.next /\ r.array_ = n.array_ /\ r.parent = up
  /\ IsNode(r) /\ Kin(r) = Kin(n) /\ GetSize(r) = GetSize(n)

\* A page gets another parent.
LEMMA MoveNode ==
  ASSUME NEW n, IsNode(n), NEW up, NEW r, r = [n EXCEPT !.parent = up]
  PROVE  Moved(r, n, up)
<1>1. /\ n = [leaf |-> n.leaf, parent |-> n.parent, next |-> n.next, array_ |-> n.array_]
      /\ n.leaf \in BOOLEAN /\ IsSeq(n.array_) /\ IF n.leaf THEN Pairs(n.array_) ELSE Uniq(n.array_)
  BY DEF IsNode
<1>2. r = [leaf |-> n.leaf, parent |-> up, next |-> n.next, array_ |-> n.array_]
  BY <1>1
<1>3. r.leaf = n.leaf /\ r.parent = up /\ r.next = n.next /\ r.array_ = n.array_
  BY <1>2
<1>4. IsNode(r)
  BY <1>1, <1>2, <1>3 DEF IsNode
<1>5. QED
  BY <1>3, <1>4 DEF Moved, Kin, GetSize

\* Adopt changes the parent of some pages.
LEMMA AdoptPages ==
  ASSUME NEW P, \A x \in DOMAIN P : IsNode(P[x]), NEW S, NEW c
  PROVE  /\ DOMAIN Adopt(P, S, c) = DOMAIN P
         /\ \A x \in DOMAIN P :
              /\ x \in S => Moved(Adopt(P, S, c)[x], P[x], c)
              /\ x \notin S => Adopt(P, S, c)[x] = P[x]
<1> DEFINE A == Adopt(P, S, c)
<1>1. /\ DOMAIN A = DOMAIN P
      /\ \A x \in DOMAIN P : A[x] = IF x \in S THEN [P[x] EXCEPT !.parent = c] ELSE P[x]
  BY DEF Adopt
<1> HIDE DEF A
<1>2. ASSUME NEW x \in DOMAIN P, x \in S PROVE Moved(A[x], P[x], c)
  <2>1. A[x] = [P[x] EXCEPT !.parent = c] /\ IsNode(P[x])
    BY <1>1, <1>2
  <2>2. QED
    BY <2>1, MoveNode
<1>3. QED
  BY <1>1, <1>2 DEF A

\* The children of page n get parent c.
LEMMA AdoptKin ==
  ASSUME NEW P, \A x \in DOMAIN P : IsNode(P[x]), NEW n, NEW c
  PROVE  /\ DOMAIN AdoptChildren(P, n, c) = DOMAIN P
         /\ \A x \in DOMAIN P :
              /\ x \in Kin(n) => Moved(AdoptChildren(P, n, c)[x], P[x], c)
              /\ x \notin Kin(n) => AdoptChildren(P, n, c)[x] = P[x]
<1>1. CASE n.leaf
  BY <1>1 DEF AdoptChildren, Kin
<1>2. CASE ~n.leaf
  <2>1. Kin(n) = Children(n)
    BY <1>2 DEF Kin, Vals, Children, ValueAt, GetSize
  <2>2. AdoptChildren(P, n, c) = Adopt(P, Kin(n), c)
    BY <1>2, <2>1 DEF AdoptChildren
  <2>3. QED
    BY <2>2, AdoptPages
<1>3. QED
  BY <1>1, <1>2

\* No page is its own child, the root is no child, and a child has one parent.
LEMMA FamilyFacts ==
  ASSUME NEW P, NEW root, NEW lev, Pages(P), Family(P, root, lev)
  PROVE  /\ \A p \in DOMAIN P : p \notin Kin(P[p]) /\ root \notin Kin(P[p])
         /\ \A p, q \in DOMAIN P : \A c \in Kin(P[p]) : c \in Kin(P[q]) => p = q
         /\ \A p, q \in DOMAIN P : q \in Kin(P[p]) => p \notin Kin(P[q])
         /\ INVALID_PAGE_ID \notin DOMAIN P
         /\ \A p \in DOMAIN P : P[p].parent = INVALID_PAGE_ID <=> p = root
         /\ \A p \in DOMAIN P : lev[p] <= lev[root]
         /\ \A p \in DOMAIN P : P[p].leaf => Kin(P[p]) = {}
<1>1. INVALID_PAGE_ID \notin DOMAIN P
  BY DEF Pages, INVALID_PAGE_ID
<1>2. \A p, q \in DOMAIN P : \A c \in Kin(P[p]) : c \in Kin(P[q]) => p = q
  BY DEF Family, Kids
<1>3. ASSUME NEW p \in DOMAIN P PROVE p \notin Kin(P[p]) /\ root \notin Kin(P[p])
  <2>1. p \notin Kin(P[p])
    BY DEF Family, Kids, Levels
  <2>2. root \notin Kin(P[p])
    BY <1>1 DEF Family, Kids, Parents
  <2>3. QED
    BY <2>1, <2>2
<1>4. ASSUME NEW p \in DOMAIN P, NEW q \in DOMAIN P, q \in Kin(P[p]), p \in Kin(P[q]) PROVE FALSE
  <2>1. lev[p] = lev[q] + 1 /\ lev[q] = lev[p] + 1 /\ lev[p] \in Nat /\ lev[q] \in Nat
    BY <1>4 DEF Family, Kids, Levels
  <2>2. QED
    BY <2>1
<1>5. \A p \in DOMAIN P : P[p].parent = INVALID_PAGE_ID <=> p = root
  BY <1>1 DEF Family, Parents
<1>6. \A p \in DOMAIN P : lev[p] <= lev[root]
  BY DEF Family, Parents, Levels
<1>7. \A p \in DOMAIN P : P[p].leaf => Kin(P[p]) = {}
  BY DEF Kin
<1>8. QED
  BY <1>1, <1>2, <1>3, <1>4, <1>5, <1>6, <1>7

-----------------------------------------------------------------------------
(***************************************************************************)
(* What splitting, merging and borrowing make of parents and children.     *)
(***************************************************************************)
\* Children and parents stay.
SameKin(P, Q) ==
  /\ DOMAIN Q = DOMAIN P
  /\ \A p \in DOMAIN P :
       Q[p].leaf = P[p].leaf /\ Q[p].parent = P[p].parent /\ Kin(Q[p]) = Kin(P[p])

\* Then the tree keeps its shape.
LEMMA SameFamily ==
  ASSUME NEW P, NEW Q, NEW root, NEW lev, Family(P, root, lev), SameKin(P, Q)
  PROVE  Family(Q, root, lev)
<1> USE DEF SameKin
<1>1. Parents(Q, root, lev)
  BY DEF Family, Parents
<1>2. Kids(Q, lev)
  BY DEF Family, Kids
<1>3. Levels(Q, lev)
  BY DEF Family, Levels
<1>4. QED
  BY <1>1, <1>2, <1>3 DEF Family

\* Some children of page p move to page q, a new child of its parent.
SplitOff(P, Q, root, lev, h, p, q, up) ==
  /\ p \in DOMAIN P /\ p # root /\ q \notin DOMAIN P /\ up = P[p].parent
  /\ DOMAIN Q = DOMAIN P \union {q}
  /\ Q[p].leaf = P[p].leaf /\ Q[q].leaf = P[p].leaf /\ Q[up].leaf = P[up].leaf
  /\ Q[p].parent = up /\ Q[q].parent = up
  /\ Kin(P[p]) = Kin(Q[p]) \union Kin(Q[q]) /\ Kin(Q[p]) \intersect Kin(Q[q]) = {}
  /\ Kin(Q[up]) = Kin(P[up]) \union {q}
  /\ \A x \in DOMAIN P \ {p, up} : Q[x].leaf = P[x].leaf /\ Kin(Q[x]) = Kin(P[x])
  /\ \A x \in DOMAIN P \ {p} :
       Q[x].parent = IF x \in Kin(Q[q]) THEN q ELSE P[x].parent
  /\ h[q] = lev[p] /\ \A x \in DOMAIN P : h[x] = lev[x]

\* Then every page is still listed by its parent, and leaves are equally deep.
LEMMA SplitFamily ==
  ASSUME NEW P, NEW Q, NEW root, NEW lev, NEW h, NEW p, NEW q, NEW up,
         Pages(P), Family(P, root, lev), SplitOff(P, Q, root, lev, h, p, q, up)
  PROVE  Family(Q, root, h)
<1> USE DEF SplitOff
<1>1. /\ root \in DOMAIN P /\ up \in DOMAIN P /\ p \in Kin(P[up]) /\ up # p /\ root # q /\ up # q
      /\ root \notin Kin(P[p]) /\ p \notin Kin(P[p]) /\ up \notin Kin(P[p]) /\ p # q
  <2>1. root \in DOMAIN P /\ up \in DOMAIN P /\ p \in Kin(P[up]) /\ root # q /\ up # q /\ p # q
    BY DEF Family, Parents
  <2>2. root \notin Kin(P[p]) /\ p \notin Kin(P[p])
    BY FamilyFacts
  <2>3. up \notin Kin(P[p])
    BY <2>1, FamilyFacts
  <2>4. QED
    BY <2>1, <2>2, <2>3
<1>2. /\ h[q] = lev[p] /\ \A x \in DOMAIN P : h[x] = lev[x]
      /\ \A x \in DOMAIN P : lev[x] \in Nat
  BY DEF Family, Levels
<1>3. \A x \in DOMAIN P : Q[x].leaf = P[x].leaf
  BY <1>1
<1>4. Levels(Q, h)
  BY <1>2, <1>3 DEF Family, Levels
<1>5. Parents(Q, root, h)
  <2>1. SUFFICES ASSUME NEW x \in DOMAIN Q
                 PROVE  IF x = root THEN Q[x].parent = INVALID_PAGE_ID
                        ELSE /\ Q[x].parent \in DOMAIN Q
                             /\ x \in Kin(Q[Q[x].parent])
                             /\ h[x] < h[root]
    BY DEF Parents
  <2>2. CASE x = root
    BY <1>1, <2>2 DEF Family, Parents
  <2>3. CASE x = q \/ x = p
    <3>1. lev[p] < lev[root]
      BY DEF Family, Parents
    <3>2. QED
      BY <1>1, <1>2, <2>3, <3>1
  <2>4. CASE x \notin {root, q, p} /\ x \in Kin(Q[q])
    <3>1. lev[x] < lev[root]
      BY <2>4 DEF Family, Parents
    <3>2. QED
      BY <1>1, <1>2, <2>4, <3>1
  <2>5. CASE x \notin {root, q, p} /\ x \notin Kin(Q[q])
    <3>1. /\ lev[x] < lev[root] /\ P[x].parent \in DOMAIN P /\ x \in Kin(P[P[x].parent])
          /\ Q[x].parent = P[x].parent /\ x \in DOMAIN P
      BY <2>5 DEF Family, Parents
    <3>2. x \in Kin(Q[P[x].parent])
      <4>1. CASE P[x].parent = p
        BY <2>5, <3>1, <4>1
      <4>2. CASE P[x].parent = up
        BY <1>1, <3>1, <4>2
      <4>3. CASE P[x].parent \notin {p, up}
        BY <3>1, <4>3
      <4>4. QED
        BY <4>1, <4>2, <4>3
    <3>3. QED
      BY <1>1, <1>2, <2>5, <3>1, <3>2
  <2>6. QED
    BY <2>2, <2>3, <2>4, <2>5
<1>6. Kids(Q, h)
  <2>1. SUFFICES ASSUME NEW x \in DOMAIN Q, NEW c \in Kin(Q[x])
                 PROVE  c \in DOMAIN Q /\ Q[c].parent = x /\ h[x] = h[c] + 1
    BY DEF Kids
  <2>2. \A y \in DOMAIN P : \A d \in Kin(P[y]) :
          d \in DOMAIN P /\ P[d].parent = y /\ lev[y] = lev[d] + 1
    BY DEF Family, Kids
  <2>3. CASE x = q
    BY <1>1, <1>2, <2>2, <2>3
  <2>4. CASE x = p
    BY <1>1, <1>2, <2>2, <2>4
  <2>5. CASE x = up
    <3>1. CASE c = q
      BY <1>1, <1>2, <2>2, <2>5, <3>1
    <3>2. CASE c # q
      <4>1. c \in Kin(P[up]) /\ c \in DOMAIN P /\ c \notin Kin(P[p])
        BY <1>1, <2>2, <2>5, <3>2
      <4>2. QED
        BY <1>1, <1>2, <2>2, <2>5, <4>1
    <3>3. QED
      BY <3>1, <3>2
  <2>6. CASE x \notin {p, q, up}
    <3>1. c \in Kin(P[x]) /\ c \in DOMAIN P /\ c \notin Kin(P[p]) /\ c # p /\ x \in DOMAIN P
      BY <1>1, <2>2, <2>6
    <3>2. QED
      BY <1>1, <1>2, <2>2, <2>6, <3>1
  <2>7. QED
    BY <2>3, <2>4, <2>5, <2>6
<1>7. QED
  BY <1>1, <1>2, <1>4, <1>5, <1>6 DEF Family

\* Some children of the root p move to a new page q, and both get the parent r,
\* the new root.
SplitOffRoot(P, Q, lev, h, p, q, r) ==
  /\ q \notin DOMAIN P /\ r \notin DOMAIN P /\ r # q
  /\ DOMAIN Q = DOMAIN P \union {q, r}
  /\ Q[p].leaf = P[p].leaf /\ Q[q].leaf = P[p].leaf /\ ~Q[r].leaf
  /\ Q[p].parent = r /\ Q[q].parent = r /\ Q[r].parent = INVALID_PAGE_ID
  /\ Kin(P[p]) = Kin(Q[p]) \union Kin(Q[q]) /\ Kin(Q[p]) \intersect Kin(Q[q]) = {}
  /\ Kin(Q[r]) = {p, q}
  /\ \A x \in DOMAIN P \ {p} : Q[x].leaf = P[x].leaf /\ Kin(Q[x]) = Kin(P[x])
  /\ \A x \in DOMAIN P \ {p} :
       Q[x].parent = IF x \in Kin(Q[q]) THEN q ELSE P[x].parent
  /\ h[q] = lev[p] /\ h[r] = lev[p] + 1 /\ \A x \in DOMAIN P : h[x] = lev[x]

\* Then the tree is one level higher.
LEMMA RootFamily ==
  ASSUME NEW P, NEW Q, NEW lev, NEW h, NEW p, NEW q, NEW r,
         Pages(P), Family(P, p, lev), SplitOffRoot(P, Q, lev, h, p, q, r)
  PROVE  Family(Q, r, h)
<1> USE DEF SplitOffRoot
<1>1. p \in DOMAIN P /\ p # q /\ p # r /\ p \notin Kin(P[p])
  BY FamilyFacts DEF Family
<1>2. /\ h[q] = lev[p] /\ h[r] = lev[p] + 1 /\ \A x \in DOMAIN P : h[x] = lev[x]
      /\ \A x \in DOMAIN P : lev[x] \in Nat
  BY <1>1 DEF Family, Levels
<1>3. \A x \in DOMAIN P : Q[x].leaf = P[x].leaf
  BY <1>1
<1>4. Levels(Q, h)
  BY <1>1, <1>2, <1>3 DEF Family, Levels
<1>5. Parents(Q, r, h)
  <2>1. SUFFICES ASSUME NEW x \in DOMAIN Q, x # r
                 PROVE  /\ Q[x].parent \in DOMAIN Q
                        /\ x \in Kin(Q[Q[x].parent])
                        /\ h[x] < h[r]
    BY DEF Parents
  <2>2. CASE x = q \/ x = p
    BY <1>1, <1>2, <2>2
  <2>3. CASE x \notin {q, p}
    <3>1. /\ lev[x] < lev[p] /\ P[x].parent \in DOMAIN P /\ x \in Kin(P[P[x].parent])
          /\ x \in DOMAIN P
      BY <2>1, <2>3 DEF Family, Parents
    <3>2. h[x] < h[r]
      BY <1>1, <1>2, <3>1
    <3>3. CASE x \in Kin(Q[q])
      BY <1>1, <2>3, <3>1, <3>2, <3>3
    <3>4. CASE x \notin Kin(Q[q])
      <4>1. Q[x].parent = P[x].parent
        BY <2>3, <3>1, <3>4
      <4>2. CASE P[x].parent = p
        BY <1>1, <3>1, <3>2, <3>4, <4>1, <4>2
      <4>3. CASE P[x].parent # p
        BY <3>1, <3>2, <4>1, <4>3
      <4>4. QED
        BY <4>2, <4>3
    <3>5. QED
      BY <3>3, <3>4
  <2>4. QED
    BY <2>2, <2>3
<1>6. Kids(Q, h)
  <2>1. SUFFICES ASSUME NEW x \in DOMAIN Q, NEW c \in Kin(Q[x])
                 PROVE  c \in DOMAIN Q /\ Q[c].parent = x /\ h[x] = h[c] + 1
    BY DEF Kids
  <2>2. \A y \in DOMAIN P : \A d \in Kin(P[y]) :
          d \in DOMAIN P /\ P[d].parent = y /\ lev[y] = lev[d] + 1
    BY DEF Family, Kids
  <2>3. CASE x = q \/ x = p
    BY <1>1, <1>2, <2>2, <2>3
  <2>4. CASE x = r
    BY <1>1, <1>2, <2>4
  <2>5. CASE x \notin {p, q, r}
    <3>1. c \in Kin(P[x]) /\ c \in DOMAIN P /\ c \notin Kin(P[p]) /\ c # p /\ x \in DOMAIN P
      <4>1. c \in Kin(P[x]) /\ x \in DOMAIN P
        BY <2>5
      <4>2. c # p
        BY <4>1, FamilyFacts
      <4>3. QED
        BY <1>1, <2>2, <2>5, <4>1, <4>2
    <3>2. QED
      BY <1>1, <1>2, <2>2, <2>5, <3>1
  <2>6. QED
    BY <2>3, <2>4, <2>5
<1>7. QED
  BY <1>4, <1>5, <1>6 DEF Family

\* The children of page right move to its neighbor left, and right is deleted.
MergeInto(P, Q, left, right, up) ==
  /\ left \in DOMAIN P /\ right \in DOMAIN P /\ left # right
  /\ up \in DOMAIN P /\ left \in Kin(P[up]) /\ right \in Kin(P[up])
  /\ DOMAIN Q = DOMAIN P \ {right}
  /\ Kin(Q[left]) = Kin(P[left]) \union Kin(P[right])
  /\ Kin(Q[up]) = Kin(P[up]) \ {right}
  /\ \A x \in DOMAIN P \ {right, left, up} : Kin(Q[x]) = Kin(P[x])
  /\ \A x \in DOMAIN P \ {right} :
       /\ Q[x].leaf = P[x].leaf
       /\ Q[x].parent = IF x \in Kin(P[right]) THEN left ELSE P[x].parent

\* Then no page has lost its parent.
LEMMA MergeFamily ==
  ASSUME NEW P, NEW Q, NEW root, NEW lev, NEW left, NEW right, NEW up,
         Pages(P), Family(P, root, lev), MergeInto(P, Q, left, right, up)
  PROVE  Family(Q, root, lev)
<1> USE DEF MergeInto
<1>1. /\ left # up /\ right # up /\ root # left /\ root # right /\ root \in DOMAIN P
      /\ root \notin Kin(P[right]) /\ left \notin Kin(P[right]) /\ up \notin Kin(P[right])
      /\ up \notin Kin(P[left])
  <2>1. /\ left # up /\ right # up /\ root # left /\ root # right
    BY FamilyFacts
  <2>2. root \notin Kin(P[right]) /\ root \in DOMAIN P
    BY FamilyFacts DEF Family
  <2>3. left \notin Kin(P[right])
    BY <2>1, FamilyFacts
  <2>4. up \notin Kin(P[right]) /\ up \notin Kin(P[left])
    BY FamilyFacts
  <2>5. QED
    BY <2>1, <2>2, <2>3, <2>4
<1>2. /\ \A y \in DOMAIN P : \A d \in Kin(P[y]) :
          d \in DOMAIN P /\ P[d].parent = y /\ lev[y] = lev[d] + 1
      /\ \A x \in DOMAIN P : lev[x] \in Nat
  BY DEF Family, Kids, Levels
<1>3. lev[left] = lev[right]
  <2>1. lev[up] = lev[left] + 1 /\ lev[up] = lev[right] + 1 /\ lev[left] \in Nat /\ lev[right] \in Nat
    BY <1>2
  <2>2. QED
    BY <2>1
<1>4. Levels(Q, lev)
  BY DEF Family, Levels
<1>5. Parents(Q, root, lev)
  <2>1. SUFFICES ASSUME NEW x \in DOMAIN Q
                 PROVE  IF x = root THEN Q[x].parent = INVALID_PAGE_ID
                        ELSE /\ Q[x].parent \in DOMAIN Q
                             /\ x \in Kin(Q[Q[x].parent])
                             /\ lev[x] < lev[root]
    BY DEF Parents
  <2>2. CASE x = root
    BY <1>1, <2>2 DEF Family, Parents
  <2>3. CASE x # root /\ x \in Kin(P[right])
    <3>1. lev[x] < lev[root]
      BY <2>3 DEF Family, Parents
    <3>2. QED
      BY <1>1, <2>3, <3>1
  <2>4. CASE x # root /\ x \notin Kin(P[right])
    <3>1. /\ lev[x] < lev[root] /\ P[x].parent \in DOMAIN P /\ x \in Kin(P[P[x].parent])
          /\ Q[x].parent = P[x].parent /\ x \in DOMAIN P /\ x # right
      BY <2>4 DEF Family, Parents
    <3>2. P[x].parent # right
      BY <2>4, <3>1
    <3>3. x \in Kin(Q[P[x].parent])
      <4>1. CASE P[x].parent = left
        BY <3>1, <4>1
      <4>2. CASE P[x].parent = up
        BY <3>1, <4>2
      <4>3. CASE P[x].parent \notin {left, up}
        BY <3>1, <3>2, <4>3
      <4>4. QED
        BY <4>1, <4>2, <4>3
    <3>4. QED
      BY <2>4, <3>1, <3>2, <3>3
  <2>5. QED
    BY <2>2, <2>3, <2>4
<1>6. Kids(Q, lev)
  <2>1. SUFFICES ASSUME NEW x \in DOMAIN Q, NEW c \in Kin(Q[x])
                 PROVE  c \in DOMAIN Q /\ Q[c].parent = x /\ lev[x] = lev[c] + 1
    BY DEF Kids
  <2>2. CASE x = left
    <3>1. CASE c \in Kin(P[right])
      <4>1. c \in DOMAIN P /\ c # right /\ lev[right] = lev[c] + 1
        BY <1>2, <3>1, FamilyFacts
      <4>2. QED
        BY <1>3, <2>2, <3>1, <4>1
    <3>2. CASE c \notin Kin(P[right])
      <4>1. c \in Kin(P[left])
        BY <2>2, <3>2
      <4>2. c \in DOMAIN P /\ P[c].parent = left /\ lev[left] = lev[c] + 1
        BY <1>2, <4>1
      <4>3. c # right
        BY <1>1, <1>2, <4>2
      <4>4. QED
        BY <2>2, <3>2, <4>2, <4>3
    <3>3. QED
      BY <3>1, <3>2
  <2>3. CASE x = up
    <3>1. c \in Kin(P[up]) /\ c # right
      BY <2>3
    <3>2. c \in DOMAIN P /\ P[c].parent = up /\ lev[up] = lev[c] + 1 /\ c \notin Kin(P[right])
      BY <1>1, <1>2, <3>1
    <3>3. QED
      BY <2>3, <3>1, <3>2
  <2>4. CASE x \notin {left, up}
    <3>1. c \in Kin(P[x]) /\ x \in DOMAIN P /\ x # right
      BY <2>4
    <3>2. c \in DOMAIN P /\ P[c].parent = x /\ lev[x] = lev[c] + 1
      BY <1>2, <3>1
    <3>3. c \notin Kin(P[right]) /\ c # right
      BY <1>2, <2>4, <3>1, <3>2
    <3>4. QED
      BY <3>2, <3>3
  <2>5. QED
    BY <2>2, <2>3, <2>4
<1>7. QED
  BY <1>1, <1>4, <1>5, <1>6 DEF Family

\* Child c of page q moves to page p, on the same level.
LendTo(P, Q, lev, p, q, c) ==
  /\ p \in DOMAIN P /\ q \in DOMAIN P /\ p # q /\ lev[p] = lev[q] /\ c \in Kin(P[q])
  /\ DOMAIN Q = DOMAIN P
  /\ Kin(Q[p]) = Kin(P[p]) \union {c} /\ Kin(Q[q]) = Kin(P[q]) \ {c}
  /\ \A x \in DOMAIN P \ {p, q} : Kin(Q[x]) = Kin(P[x])
  /\ \A x \in DOMAIN P :
       /\ Q[x].leaf = P[x].leaf
       /\ Q[x].parent = IF x = c THEN p ELSE P[x].parent

\* Then parents and children still know each other.
LEMMA LendFamily ==
  ASSUME NEW P, NEW Q, NEW root, NEW lev, NEW p, NEW q, NEW c,
         Pages(P), Family(P, root, lev), LendTo(P, Q, lev, p, q, c)
  PROVE  Family(Q, root, lev)
<1> USE DEF LendTo
<1>1. root # c /\ root \in DOMAIN P /\ c \in DOMAIN P
  BY FamilyFacts DEF Family, Kids
<1>2. /\ \A y \in DOMAIN P : \A d \in Kin(P[y]) :
          d \in DOMAIN P /\ P[d].parent = y /\ lev[y] = lev[d] + 1
      /\ \A x \in DOMAIN P : lev[x] \in Nat
  BY DEF Family, Kids, Levels
<1>3. Levels(Q, lev)
  BY DEF Family, Levels
<1>4. Parents(Q, root, lev)
  <2>1. SUFFICES ASSUME NEW x \in DOMAIN P
                 PROVE  IF x = root THEN Q[x].parent = INVALID_PAGE_ID
                        ELSE /\ Q[x].parent \in DOMAIN P
                             /\ x \in Kin(Q[Q[x].parent])
                             /\ lev[x] < lev[root]
    BY DEF Parents
  <2>2. CASE x = root
    BY <1>1, <2>2 DEF Family, Parents
  <2>3. CASE x # root /\ x = c
    <3>1. lev[x] < lev[root]
      BY <2>3 DEF Family, Parents
    <3>2. QED
      BY <2>3, <3>1
  <2>4. CASE x # root /\ x # c
    <3>1. /\ lev[x] < lev[root] /\ P[x].parent \in DOMAIN P /\ x \in Kin(P[P[x].parent])
          /\ Q[x].parent = P[x].parent
      BY <2>4 DEF Family, Parents
    <3>2. x \in Kin(Q[P[x].parent])
      <4>1. CASE P[x].parent = p
        BY <3>1, <4>1
      <4>2. CASE P[x].parent = q
        BY <2>4, <3>1, <4>2
      <4>3. CASE P[x].parent \notin {p, q}
        BY <3>1, <4>3
      <4>4. QED
        BY <4>1, <4>2, <4>3
    <3>3. QED
      BY <2>4, <3>1, <3>2
  <2>5. QED
    BY <2>2, <2>3, <2>4
<1>5. Kids(Q, lev)
  <2>1. SUFFICES ASSUME NEW x \in DOMAIN P, NEW d \in Kin(Q[x])
                 PROVE  d \in DOMAIN P /\ Q[d].parent = x /\ lev[x] = lev[d] + 1
    BY DEF Kids
  <2>2. CASE d = c
    <3>1. x = p
      BY <1>2, <2>2
    <3>2. QED
      BY <1>1, <1>2, <2>2, <3>1
  <2>3. CASE d # c
    <3>1. d \in Kin(P[x])
      BY <2>3
    <3>2. QED
      BY <1>2, <2>3, <3>1
  <2>4. QED
    BY <2>2, <2>3
<1>6. QED
  BY <1>1, <1>3, <1>4, <1>5 DEF Family

\* The only child of the root becomes the root.
RootGoes(P, Q, p, c) ==
  /\ Kin(P[p]) = {c}
  /\ DOMAIN Q = DOMAIN P \ {p}
  /\ \A x \in DOMAIN P \ {p} :
       /\ Q[x].leaf = P[x].leaf /\ Kin(Q[x]) = Kin(P[x])
       /\ Q[x].parent = IF x = c THEN INVALID_PAGE_ID ELSE P[x].parent

\* Then the tree is one level lower.
LEMMA ChildRootFamily ==
  ASSUME NEW P, NEW Q, NEW lev, NEW p, NEW c,
         Pages(P), Family(P, p, lev), RootGoes(P, Q, p, c)
  PROVE  Family(Q, c, lev)
<1> USE DEF RootGoes
<1>1. p \in DOMAIN P /\ c \in DOMAIN P /\ c # p /\ lev[p] = lev[c] + 1
  BY FamilyFacts DEF Family, Kids
<1>2. /\ \A y \in DOMAIN P : \A d \in Kin(P[y]) :
          d \in DOMAIN P /\ P[d].parent = y /\ lev[y] = lev[d] + 1
      /\ \A x \in DOMAIN P : lev[x] \in Nat
  BY DEF Family, Kids, Levels
<1>3. Levels(Q, lev)
  BY DEF Family, Levels
<1>4. Parents(Q, c, lev)
  <2>1. SUFFICES ASSUME NEW x \in DOMAIN Q, x # c
                 PROVE  /\ Q[x].parent \in DOMAIN Q
                        /\ x \in Kin(Q[Q[x].parent])
                        /\ lev[x] < lev[c]
    BY <1>1 DEF Parents
  <2>2. /\ P[x].parent \in DOMAIN P /\ x \in Kin(P[P[x].parent])
        /\ Q[x].parent = P[x].parent /\ x \in DOMAIN P
    BY <2>1 DEF Family, Parents
  <2>3. P[x].parent # p
    BY <2>1, <2>2
  <2>4. lev[P[x].parent] < lev[p] /\ lev[P[x].parent] = lev[x] + 1
    BY <1>2, <2>2, <2>3 DEF Family, Parents
  <2>5. lev[x] < lev[c]
    <3>1. lev[x] \in Nat /\ lev[c] \in Nat
      BY <1>1, <1>2, <2>2
    <3>2. QED
      BY <1>1, <2>4, <3>1
  <2>6. QED
    BY <2>2, <2>3, <2>5
<1>5. Kids(Q, lev)
  <2>1. SUFFICES ASSUME NEW x \in DOMAIN Q, NEW d \in Kin(Q[x])
                 PROVE  d \in DOMAIN Q /\ Q[d].parent = x /\ lev[x] = lev[d] + 1
    BY DEF Kids
  <2>2. d \in Kin(P[x]) /\ x \in DOMAIN P /\ x # p
    OBVIOUS
  <2>3. d \in DOMAIN P /\ P[d].parent = x /\ lev[x] = lev[d] + 1
    BY <1>2, <2>2
  <2>4. d # p
    BY <2>2, FamilyFacts
  <2>5. d # c
    BY <1>1, <1>2, <2>2, <2>3
  <2>6. QED
    BY <2>3, <2>4, <2>5
<1>6. QED
  BY <1>1, <1>3, <1>4, <1>5 DEF Family

\* A tree whose root is a leaf has no other page.
LEMMA LeafRoot ==
  ASSUME NEW P, NEW root, NEW lev, Family(P, root, lev), P[root].leaf
  PROVE  DOMAIN P = {root}
BY DEF Family, Levels, Parents

-----------------------------------------------------------------------------
(***************************************************************************)
(* A page is split.                                                        *)
(***************************************************************************)
IsTree(t) == \E a, b, c : t = [root_page_id_ |-> a, pages |-> b, recorded |-> c]

\* A page of a tree, and a page in its place.
LEMMA PutPage ==
  ASSUME NEW P, NEW p, NEW n
  PROVE  /\ DOMAIN Put(P, p, n) = DOMAIN P \union {p}
         /\ Put(P, p, n)[p] = n
         /\ \A x \in DOMAIN P : x # p => Put(P, p, n)[x] = P[x]
BY DEF Put

\* The pages after MoveHalfTo: the halves, and the children with their parents.
LEMMA SplitPages ==
  ASSUME NEW t, IsTree(t), Pages(t.pages),
         NEW p \in DOMAIN t.pages, NEW q, q \notin DOMAIN t.pages,
         NEW u, u = Split(t, p, q),
         NEW l, l = LowerHalf(t.pages[p], q), NEW r, r = UpperHalf(t.pages[p])
  PROVE  /\ IsTree(u) /\ u.root_page_id_ = t.root_page_id_ /\ u.recorded = t.recorded
         /\ DOMAIN u.pages = DOMAIN t.pages \union {q}
         /\ u.pages[p] = l /\ u.pages[q] = r
         /\ \A x \in DOMAIN t.pages \ {p} :
              /\ x \in Kin(r) => Moved(u.pages[x], t.pages[x], q)
              /\ x \notin Kin(r) => u.pages[x] = t.pages[x]
         /\ \A x \in DOMAIN u.pages : IsNode(u.pages[x])
<1> DEFINE P == t.pages
           A == AdoptChildren(P, r, q)
           B == Put(A, p, l)
           C == Put(B, q, r)
<1>1. \A x \in DOMAIN P : IsNode(P[x])
  BY DEF Pages
<1>2. u = [t EXCEPT !.pages = C]
  BY DEF Split
<1> HIDE DEF C
<1>3. IsTree(u) /\ u.root_page_id_ = t.root_page_id_ /\ u.recorded = t.recorded /\ u.pages = C
  BY <1>2 DEF IsTree
<1>4. IsNode(l) /\ IsNode(r)
  <2>1. IsNode(P[p])
    BY <1>1
  <2>2. QED
    BY <2>1, HalfNodes
<1>5. /\ DOMAIN A = DOMAIN P
      /\ \A x \in DOMAIN P :
           /\ x \in Kin(r) => Moved(A[x], P[x], q)
           /\ x \notin Kin(r) => A[x] = P[x]
  BY <1>1, AdoptKin
<1> HIDE DEF A
<1>6. DOMAIN B = DOMAIN P /\ B[p] = l /\ \A x \in DOMAIN P : x # p => B[x] = A[x]
  <2>1. DOMAIN B = DOMAIN A \union {p} /\ B[p] = l /\ \A x \in DOMAIN A : x # p => B[x] = A[x]
    BY DEF Put
  <2> HIDE DEF B
  <2>2. QED
    BY <1>5, <2>1
<1> HIDE DEF B
<1>7. DOMAIN C = DOMAIN P \union {q} /\ C[q] = r /\ \A x \in DOMAIN P : x # q => C[x] = B[x]
  <2>1. DOMAIN C = DOMAIN B \union {q} /\ C[q] = r /\ \A x \in DOMAIN B : x # q => C[x] = B[x]
    BY DEF C, Put
  <2>2. QED
    BY <1>6, <2>1
<1>8. /\ C[p] = l /\ \A x \in DOMAIN P \ {p} :
           /\ x \in Kin(r) => Moved(C[x], P[x], q)
           /\ x \notin Kin(r) => C[x] = P[x]
  <2>1. \A x \in DOMAIN P \ {p} : C[x] = A[x]
    BY <1>6, <1>7
  <2>2. C[p] = l
    BY <1>6, <1>7
  <2>3. QED
    BY <1>5, <2>1, <2>2
<1>9. ASSUME NEW x \in DOMAIN C PROVE IsNode(C[x])
  <2>1. CASE x \in {p, q}
    BY <1>4, <1>7, <1>8, <2>1
  <2>2. CASE x \notin {p, q}
    BY <1>1, <1>7, <1>8, <2>2 DEF Moved
  <2>3. QED
    BY <2>1, <2>2
<1>10. QED
  BY <1>3, <1>7, <1>8, <1>9

\* A page below the root is split, and its new neighbor entered in the parent.
LEMMA SplitBelowPages ==
  ASSUME NEW t, IsTree(t), NEW lev, Pages(t.pages), Family(t.pages, t.root_page_id_, lev),
         NEW p \in DOMAIN t.pages, p # t.root_page_id_, NEW q, q \notin DOMAIN t.pages,
         NEW u, u = InsertIntoParent(Split(t, p, q), p, q),
         NEW l, l = LowerHalf(t.pages[p], q), NEW r, r = UpperHalf(t.pages[p]),
         NEW up, up = t.pages[p].parent
  PROVE  /\ IsTree(u) /\ u.root_page_id_ = t.root_page_id_ /\ u.recorded = t.recorded
         /\ DOMAIN u.pages = DOMAIN t.pages \union {q}
         /\ up \in DOMAIN t.pages /\ up # p /\ up \notin Kin(r) /\ p \in Kin(t.pages[up])
         /\ u.pages[p] = l /\ Moved(u.pages[q], r, up)
         /\ u.pages[up] = InsertNodeAfter(t.pages[up], p, KeyAt(r, 1), q)
         /\ \A x \in DOMAIN t.pages \ {p, up} :
              /\ x \in Kin(r) => Moved(u.pages[x], t.pages[x], q)
              /\ x \notin Kin(r) => u.pages[x] = t.pages[x]
<1> DEFINE P == t.pages
           s == Split(t, p, q)
           A == Adopt(s.pages, {q}, up)
           n == InsertNodeAfter(s.pages[up], p, KeyAt(r, 1), q)
           C == Put(A, up, n)
<1>1. /\ up \in DOMAIN P /\ up # p /\ p \in Kin(P[up]) /\ up # q /\ up # INVALID_PAGE_ID
      /\ up \notin Kin(P[p]) /\ p # q
  <2>1. up \in DOMAIN P /\ p \in Kin(P[up]) /\ up # q /\ p # q
    BY DEF Family, Parents
  <2>2. QED
    BY <2>1, FamilyFacts
<1>2. /\ IsNode(P[p]) /\ l.parent = up /\ Kin(P[p]) = Kin(l) \union Kin(r)
  <2>1. IsNode(P[p])
    BY DEF Pages
  <2>2. QED
    BY <2>1, HalfNodes
<1>3. /\ IsTree(s) /\ s.root_page_id_ = t.root_page_id_ /\ s.recorded = t.recorded
      /\ DOMAIN s.pages = DOMAIN P \union {q}
      /\ s.pages[p] = l /\ s.pages[q] = r
      /\ \A x \in DOMAIN P \ {p} :
              /\ x \in Kin(r) => Moved(s.pages[x], P[x], q)
              /\ x \notin Kin(r) => s.pages[x] = P[x]
      /\ \A x \in DOMAIN s.pages : IsNode(s.pages[x])
  BY SplitPages
<1>4. u = [s EXCEPT !.pages = C]
  <2> HIDE DEF s
  <2>1. ~IsRootPage(s.pages[p]) /\ s.pages[p].parent = up /\ KeyAt(s.pages[q], 1) = KeyAt(r, 1)
    BY <1>1, <1>2, <1>3 DEF IsRootPage
  <2>2. u = InsertIntoParent(s, p, q)
    BY DEF s
  <2>3. u = [s EXCEPT !.pages = Put(Adopt(s.pages, {q}, s.pages[p].parent), s.pages[p].parent,
                           InsertNodeAfter(s.pages[s.pages[p].parent], p, KeyAt(s.pages[q], 1), q))]
    BY <2>1, <2>2, Zenon DEF InsertIntoParent
  <2>4. QED
    BY <2>1, <2>3, Zenon
<1> HIDE DEF s
<1>5. /\ DOMAIN A = DOMAIN P \union {q}
      /\ Moved(A[q], r, up)
      /\ \A x \in DOMAIN P : A[x] = s.pages[x]
  <2>1. /\ DOMAIN A = DOMAIN s.pages
        /\ \A x \in DOMAIN s.pages :
              /\ x \in {q} => Moved(A[x], s.pages[x], up)
              /\ x \notin {q} => A[x] = s.pages[x]
    BY <1>3, AdoptPages
  <2>2. QED
    BY <1>3, <2>1
<1> HIDE DEF A
<1>6. DOMAIN C = DOMAIN A /\ C[up] = n /\ \A x \in DOMAIN A : x # up => C[x] = A[x]
  BY <1>1, <1>5 DEF Put
<1> HIDE DEF C
<1>7. IsTree(u) /\ u.root_page_id_ = t.root_page_id_ /\ u.recorded = t.recorded /\ u.pages = C
  <2>1. IsTree(s) /\ s.root_page_id_ = t.root_page_id_ /\ s.recorded = t.recorded
    BY <1>3
  <2>2. QED
    BY <1>4, <2>1 DEF IsTree
<1>8. s.pages[up] = P[up]
  BY <1>1, <1>2, <1>3
<1>9. /\ C[p] = l /\ Moved(C[q], r, up)
      /\ \A x \in DOMAIN P \ {p, up} : C[x] = s.pages[x]
  BY <1>1, <1>3, <1>5, <1>6
<1>10. up \notin Kin(r)
  BY <1>1, <1>2
<1>11. QED
  BY <1>1, <1>3, <1>5, <1>6, <1>7, <1>8, <1>9, <1>10

\* A tree is made of its parts.
LEMMA MakeTree ==
  ASSUME NEW a, NEW b, NEW c, NEW u, u = [root_page_id_ |-> a, pages |-> b, recorded |-> c]
  PROVE  IsTree(u) /\ u.root_page_id_ = a /\ u.pages = b /\ u.recorded = c
<1>1. u.root_page_id_ = a /\ u.pages = b /\ u.recorded = c
  OBVIOUS
<1>2. QED
  BY <1>1 DEF IsTree

\* UpdateRootPageId, without a new record.
LEMMA UpdateTree ==
  ASSUME NEW t, IsTree(t), NEW u, u = UpdateRecord(t)
  PROVE  /\ IsTree(u) /\ u.root_page_id_ = t.root_page_id_ /\ u.pages = t.pages
         /\ u.recorded = IF t.recorded = NoRecord THEN NoRecord ELSE t.root_page_id_
<1>1. CASE t.recorded = NoRecord
  BY <1>1 DEF UpdateRecord
<1>2. CASE t.recorded # NoRecord
  <2>1. u = [t EXCEPT !.recorded = t.root_page_id_]
    BY <1>2 DEF UpdateRecord
  <2>2. /\ IsTree(u) /\ u.root_page_id_ = t.root_page_id_ /\ u.pages = t.pages
        /\ u.recorded = t.root_page_id_
    BY <2>1 DEF IsTree
  <2>3. QED
    BY <1>2, <2>2
<1>3. QED
  BY <1>1, <1>2

\* The page that becomes the root over pages p and q.
RootOver(p, k, q) ==
  [leaf |-> FALSE, parent |-> INVALID_PAGE_ID, next |-> ZeroLink,
   array_ |-> << <<ZeroKey, p>>, <<k, q>> >>]

\* The root is split, and a new root made over the halves.
LEMMA SplitRootPages ==
  ASSUME last \in Nat \ {0}, NEW t, IsTree(t), NEW lev, Pages(t.pages), Family(t.pages, t.root_page_id_, lev),
         NEW p, p = t.root_page_id_, NEW q, q \in Nat \ {0, 1}, q \notin DOMAIN t.pages,
         NEW u, u = InsertIntoParent(Split(t, p, q), p, q),
         NEW l, l = LowerHalf(t.pages[p], q), NEW r, r = UpperHalf(t.pages[p]),
         NEW c, c = u.root_page_id_
  PROVE  /\ IsTree(u)
         /\ u.recorded = IF t.recorded = NoRecord THEN NoRecord ELSE c
         /\ c \in Nat \ {0, 1} /\ c \notin DOMAIN t.pages /\ c # q
         /\ DOMAIN u.pages = DOMAIN t.pages \union {q, c}
         /\ Moved(u.pages[p], l, c) /\ Moved(u.pages[q], r, c)
         /\ u.pages[c] = RootOver(p, KeyAt(r, 1), q)
         /\ \A x \in DOMAIN t.pages \ {p} :
              /\ x \in Kin(r) => Moved(u.pages[x], t.pages[x], q)
              /\ x \notin Kin(r) => u.pages[x] = t.pages[x]
<1> DEFINE P == t.pages
           s == Split(t, p, q)
           w == NewPageId(s)
           n == RootOver(p, KeyAt(r, 1), q)
           A == Adopt(s.pages, {p, q}, w)
           C == Put(A, w, n)
<1>1. p \in DOMAIN P /\ P[p].parent = INVALID_PAGE_ID
  BY DEF Family, Parents
<1>2. IsNode(P[p]) /\ l.parent = INVALID_PAGE_ID
  <2>1. IsNode(P[p])
    BY <1>1 DEF Pages
  <2>2. QED
    BY <1>1, <2>1, HalfNodes
<1>3. /\ IsTree(s) /\ s.root_page_id_ = t.root_page_id_ /\ s.recorded = t.recorded
      /\ DOMAIN s.pages = DOMAIN P \union {q}
      /\ s.pages[p] = l /\ s.pages[q] = r
      /\ \A x \in DOMAIN P \ {p} :
              /\ x \in Kin(r) => Moved(s.pages[x], P[x], q)
              /\ x \notin Kin(r) => s.pages[x] = P[x]
      /\ \A x \in DOMAIN s.pages : IsNode(s.pages[x])
  <2>1. Family(t.pages, p, lev) /\ p \in DOMAIN t.pages
    BY <1>1
  <2>2. QED
    <3>1. s = Split(t, p, q)
      OBVIOUS
    <3> HIDE DEF s
    <3>2. QED
      BY <2>1, <3>1, SplitPages
<1> DEFINE v == [s EXCEPT !.root_page_id_ = w, !.pages = C]
<1>4. u = UpdateRecord(v)
  <2> HIDE DEF s
  <2>1. IsRootPage(s.pages[p]) /\ KeyAt(s.pages[q], 1) = KeyAt(r, 1)
    BY <1>2, <1>3 DEF IsRootPage
  <2>2. u = InsertIntoParent(s, p, q)
    BY DEF s
  <2>3. QED
    BY <2>1, <2>2, Zenon DEF InsertIntoParent, UpdateRootPageId, RootOver
<1> HIDE DEF s
<1>5. w \in Nat \ {0, 1} /\ w \notin DOMAIN P /\ w # q
  <2>1. IsFiniteSet(DOMAIN s.pages)
    <3>1. IsFiniteSet(DOMAIN P)
      BY DEF Pages
    <3>2. IsFiniteSet(DOMAIN P \union {q})
      BY <3>1, FS_AddElement
    <3>3. QED
      BY <1>3, <3>2
  <2>2. DOMAIN s.pages \subseteq Nat \ {0, 1}
    BY <1>3 DEF Pages
  <2>3. QED
    BY <1>3, <2>1, <2>2, NewPageIsNew
<1> HIDE DEF w, n, C
<1>6. /\ IsTree(u) /\ u.root_page_id_ = w /\ u.pages = C
      /\ u.recorded = IF t.recorded = NoRecord THEN NoRecord ELSE w
  <2>1. IsTree(s) /\ s.recorded = t.recorded
    BY <1>3
  <2>2. v = [s EXCEPT !.root_page_id_ = w, !.pages = C]
    OBVIOUS
  <2> HIDE DEF v
  <2>3. IsTree(v) /\ v.root_page_id_ = w /\ v.pages = C /\ v.recorded = t.recorded
    <3>1. v = [root_page_id_ |-> w, pages |-> C, recorded |-> s.recorded]
      BY <2>1, <2>2 DEF IsTree
    <3>2. QED
      BY <2>1, <3>1, MakeTree
  <2>4. /\ IsTree(u) /\ u.root_page_id_ = v.root_page_id_ /\ u.pages = v.pages
        /\ u.recorded = IF v.recorded = NoRecord THEN NoRecord ELSE v.root_page_id_
    BY <1>4, <2>3, UpdateTree
  <2>5. QED
    BY <2>3, <2>4
<1>7. /\ DOMAIN A = DOMAIN P \union {q}
      /\ Moved(A[p], l, w) /\ Moved(A[q], r, w)
      /\ \A x \in DOMAIN P \ {p} : A[x] = s.pages[x]
  <2> DEFINE S == {p, q}
  <2>0. \A x \in DOMAIN s.pages : IsNode(s.pages[x])
    BY <1>3
  <2>1. /\ DOMAIN A = DOMAIN s.pages
        /\ \A x \in DOMAIN s.pages :
              /\ x \in {p, q} => Moved(A[x], s.pages[x], w)
              /\ x \notin {p, q} => A[x] = s.pages[x]
    <3>1. A = Adopt(s.pages, S, w)
      OBVIOUS
    <3> HIDE DEF A, S
    <3>2. /\ DOMAIN A = DOMAIN s.pages
          /\ \A x \in DOMAIN s.pages :
                /\ x \in S => Moved(A[x], s.pages[x], w)
                /\ x \notin S => A[x] = s.pages[x]
      BY <2>0, <3>1, AdoptPages
    <3>3. QED
      BY <3>2 DEF S
  <2> HIDE DEF A
  <2>2. DOMAIN A = DOMAIN P \union {q}
    BY <1>3, <2>1
  <2>3. p \in DOMAIN s.pages /\ q \in DOMAIN s.pages
    BY <1>1, <1>3
  <2>4. Moved(A[p], l, w) /\ Moved(A[q], r, w)
    BY <1>3, <2>1, <2>3
  <2>5. ASSUME NEW x \in DOMAIN P \ {p} PROVE A[x] = s.pages[x]
    BY <1>3, <2>1, <2>5
  <2>6. QED
    BY <2>2, <2>4, <2>5
<1> HIDE DEF A
<1>8. DOMAIN C = DOMAIN A \union {w} /\ C[w] = n /\ \A x \in DOMAIN A : x # w => C[x] = A[x]
  BY DEF Put, C
<1>9. /\ Moved(C[p], l, w) /\ Moved(C[q], r, w)
      /\ \A x \in DOMAIN P \ {p} : C[x] = s.pages[x]
  BY <1>1, <1>5, <1>7, <1>8
<1>10. DOMAIN C = DOMAIN P \union {q, w}
  BY <1>7, <1>8
<1>11. QED
  BY <1>3, <1>5, <1>6, <1>8, <1>9, <1>10 DEF n

\* A page that may be one over its size.
IsOver(n) == GetSize(n) \in GetMinSize(n) .. GetMaxSize(n) + 1

\* A tree in which page x alone may have too many or too few pairs.
Good(t, lev, x) ==
  /\ IsTree(t) /\ Shape(t.pages, t.root_page_id_, lev, x)
  /\ t.recorded \in {t.root_page_id_, INVALID_PAGE_ID}

\* What the size of a page may be depends on whether it is a leaf, and the root.
LEMMA SameLimits ==
  ASSUME NEW n, NEW r, r.leaf = n.leaf,
         r.parent = INVALID_PAGE_ID <=> n.parent = INVALID_PAGE_ID
  PROVE  GetMinSize(r) = GetMinSize(n) /\ GetMaxSize(r) = GetMaxSize(n)
BY DEF GetMinSize, GetMaxSize, IsRootPage

\* The halves of a page that was one over its size are not too small.
LEMMA HalvesFilled ==
  ASSUME NEW n, n.leaf \in BOOLEAN, GetSize(n) = GetMaxSize(n) + 1,
         NEW l, l.leaf = n.leaf, l.parent # INVALID_PAGE_ID,
         GetSize(l) \in {GetSize(n) \div 2, GetSize(n) - GetSize(n) \div 2}
  PROVE  Filled(l)
BY DEF Filled, GetMinSize, GetMaxSize, IsRootPage

\* A page below the root is split.
LEMMA SplitBelow ==
  ASSUME NEW t, NEW lev, NEW p \in DOMAIN t.pages, Good(t, lev, p), p # t.root_page_id_,
         GetSize(t.pages[p]) = GetMaxSize(t.pages[p]) + 1,
         NEW q, q \in Nat \ {0, 1}, q \notin DOMAIN t.pages,
         NEW u, u = InsertIntoParent(Split(t, p, q), p, q),
         NEW up, up = t.pages[p].parent
  PROVE  /\ up \in DOMAIN u.pages /\ IsOver(u.pages[up]) /\ u.root_page_id_ = t.root_page_id_
         /\ \E h : /\ Good(u, h, up) /\ h[up] = lev[p] + 1
                   /\ h[t.root_page_id_] = lev[t.root_page_id_]
<1> DEFINE P == t.pages
           Q == u.pages
           root == t.root_page_id_
           l == LowerHalf(P[p], q)
           r == UpperHalf(P[p])
           k == KeyAt(r, 1)
<1>1. IsTree(t) /\ Pages(P) /\ Family(P, root, lev) /\ Sizes(P, p) /\ t.recorded \in {root, INVALID_PAGE_ID}
  BY DEF Good, Shape
<1>2. /\ IsTree(u) /\ u.root_page_id_ = t.root_page_id_ /\ u.recorded = t.recorded
      /\ DOMAIN Q = DOMAIN P \union {q}
      /\ up \in DOMAIN P /\ up # p /\ up \notin Kin(r) /\ p \in Kin(P[up])
      /\ Q[p] = l /\ Moved(Q[q], r, up)
      /\ Q[up] = InsertNodeAfter(P[up], p, k, q)
      /\ \A x \in DOMAIN P \ {p, up} :
           /\ x \in Kin(r) => Moved(Q[x], P[x], q)
           /\ x \notin Kin(r) => Q[x] = P[x]
  BY <1>1, SplitBelowPages
<1>3. /\ \A x \in DOMAIN P : IsNode(P[x])
      /\ \A x \in DOMAIN P : P[x].parent = INVALID_PAGE_ID <=> x = root
      /\ root \in DOMAIN P /\ \A x \in DOMAIN P : root \notin Kin(P[x])
      /\ q # INVALID_PAGE_ID /\ up # INVALID_PAGE_ID /\ q # p /\ q # up
      /\ \A x \in DOMAIN P : \A c \in Kin(P[x]) : c \in DOMAIN P
  <2>1. \A x \in DOMAIN P : IsNode(P[x])
    BY <1>1 DEF Pages
  <2>2. \A x \in DOMAIN P : P[x].parent = INVALID_PAGE_ID <=> x = root
    BY <1>1, FamilyFacts
  <2>3. root \in DOMAIN P /\ \A x \in DOMAIN P : root \notin Kin(P[x])
    BY <1>1, FamilyFacts DEF Family
  <2>4. q # INVALID_PAGE_ID /\ up # INVALID_PAGE_ID /\ q # p /\ q # up
    BY <1>1, <1>2 DEF INVALID_PAGE_ID, Pages
  <2>5. \A x \in DOMAIN P : \A c \in Kin(P[x]) : c \in DOMAIN P
    BY <1>1 DEF Family, Kids
  <2>6. QED
    BY <2>1, <2>2, <2>3, <2>4, <2>5
<1>4. /\ IsNode(r) /\ GetSize(r) = GetSize(P[p]) - GetSize(P[p]) \div 2 /\ r.leaf = P[p].leaf
      /\ IsNode(l) /\ GetSize(l) = GetSize(P[p]) \div 2
      /\ l.leaf = P[p].leaf /\ l.parent = up
      /\ Kin(P[p]) = Kin(l) \union Kin(r) /\ Kin(l) \intersect Kin(r) = {}
  BY <1>3, HalfNodes
<1> HIDE DEF l, r, k
<1>5. /\ IsNode(Q[up]) /\ GetSize(Q[up]) = GetSize(P[up]) + 1 /\ Kin(Q[up]) = Kin(P[up]) \union {q}
      /\ ~Q[up].leaf /\ ~P[up].leaf /\ Q[up].parent = P[up].parent
  <2>1. IsNode(P[up]) /\ ~P[up].leaf /\ q \notin Kin(P[up])
    BY <1>2, <1>3 DEF Kin
  <2>2. p \in Kin(P[up]) /\ Q[up] = InsertNodeAfter(P[up], p, k, q)
    BY <1>2
  <2> DEFINE m == InsertNodeAfter(P[up], p, k, q)
  <2>3. /\ IsNode(m) /\ GetSize(m) = GetSize(P[up]) + 1 /\ Kin(m) = Kin(P[up]) \union {q}
        /\ ~m.leaf /\ m.parent = P[up].parent
    BY <2>1, <2>2, InsertAfterNode
  <2>4. Q[up] = m
    BY <2>2
  <2> HIDE DEF m
  <2>5. QED
    BY <2>1, <2>3, <2>4
<1>6. /\ Q[q].leaf = P[p].leaf /\ Q[q].parent = up /\ IsNode(Q[q]) /\ Kin(Q[q]) = Kin(r)
      /\ GetSize(Q[q]) = GetSize(r)
  BY <1>2, <1>4 DEF Moved
<1>7. ASSUME NEW x \in DOMAIN P \ {p, up}
      PROVE  /\ Q[x].leaf = P[x].leaf /\ Kin(Q[x]) = Kin(P[x]) /\ GetSize(Q[x]) = GetSize(P[x])
             /\ IsNode(Q[x])
             /\ Q[x].parent = IF x \in Kin(r) THEN q ELSE P[x].parent
  BY <1>2, <1>3 DEF Moved
<1> DEFINE h == [x \in DOMAIN Q |-> IF x = q THEN lev[p] ELSE lev[x]]
<1>8. Family(Q, root, h) /\ h[root] = lev[root] /\ h[p] = lev[p] /\ h[up] = lev[up]
  <2>1. Q[up].leaf = P[up].leaf
    <3>1. Q[up].leaf \in BOOLEAN /\ P[up].leaf \in BOOLEAN
      BY <1>2, <1>3, <1>5 DEF IsNode
    <3>2. QED
      BY <1>5, <3>1
  <2>2. \A x \in DOMAIN P \ {p} : Q[x].parent = IF x \in Kin(Q[q]) THEN q ELSE P[x].parent
    BY <1>2, <1>5, <1>6, <1>7
  <2>3. /\ Q[p].leaf = P[p].leaf /\ Q[p].parent = up
        /\ Kin(P[p]) = Kin(Q[p]) \union Kin(Q[q]) /\ Kin(Q[p]) \intersect Kin(Q[q]) = {}
    BY <1>2, <1>4, <1>6
  <2>4. \A x \in DOMAIN P \ {p, up} : Q[x].leaf = P[x].leaf /\ Kin(Q[x]) = Kin(P[x])
    BY <1>7
  <2>5. h[q] = lev[p] /\ \A x \in DOMAIN P : h[x] = lev[x]
    BY <1>2
  <2> HIDE DEF h
  <2>6. Family(Q, root, h)
    <3>1. /\ Pages(P) /\ Family(P, root, lev) /\ DOMAIN Q = DOMAIN P \union {q}
          /\ Q[q].leaf = P[p].leaf /\ Q[q].parent = up /\ Kin(Q[up]) = Kin(P[up]) \union {q}
      BY <1>1, <1>2, <1>5, <1>6
    <3>2. SplitOff(P, Q, root, lev, h, p, q, up)
      BY <2>1, <2>2, <2>3, <2>4, <2>5, <3>1 DEF SplitOff
    <3>3. QED
      BY <3>1, <3>2, SplitFamily
  <2>7. QED
    BY <1>2, <1>3, <2>5, <2>6
<1> HIDE DEF h
<1>9. Pages(Q)
  <2>1. IsFiniteSet(DOMAIN Q)
    BY <1>1, <1>2, FS_AddElement DEF Pages
  <2>2. DOMAIN Q \subseteq Nat \ {0, 1}
    BY <1>1, <1>2 DEF Pages
  <2>3. \A x \in DOMAIN Q : IsNode(Q[x])
    BY <1>2, <1>4, <1>5, <1>6, <1>7
  <2>4. QED
    BY <2>1, <2>2, <2>3 DEF Pages
<1>10. Sizes(Q, up)
  <2>1. SUFFICES ASSUME NEW x \in DOMAIN Q \ {up} PROVE Filled(Q[x])
    BY DEF Sizes
  <2>2. P[p].leaf \in BOOLEAN
    BY <1>3 DEF IsNode
  <2>3. CASE x = p
    BY <1>2, <1>3, <1>4, <2>2, <2>3, HalvesFilled
  <2>4. CASE x = q
    BY <1>3, <1>4, <1>6, <2>2, <2>4, HalvesFilled
  <2>5. CASE x \notin {p, q}
    <3>1. x \in DOMAIN P \ {p, up} /\ Filled(P[x])
      BY <1>1, <1>2, <2>1, <2>5 DEF Sizes
    <3>2. Q[x].parent = INVALID_PAGE_ID <=> P[x].parent = INVALID_PAGE_ID
      BY <1>3, <1>4, <1>7, <3>1
    <3>3. Q[x].leaf = P[x].leaf /\ GetSize(Q[x]) = GetSize(P[x])
      BY <1>7, <3>1
    <3>4. QED
      BY <3>1, <3>2, <3>3, SameLimits DEF Filled
  <2>6. QED
    BY <2>3, <2>4, <2>5
<1>11. IsOver(Q[up])
  <2>1. Filled(P[up])
    BY <1>1, <1>2 DEF Sizes
  <2>2. GetMinSize(Q[up]) = GetMinSize(P[up]) /\ GetMaxSize(Q[up]) = GetMaxSize(P[up])
    BY <1>5 DEF GetMinSize, GetMaxSize, IsRootPage
  <2>3. /\ GetMinSize(P[up]) \in Nat /\ GetMaxSize(P[up]) \in Nat
    <3>1. P[up].leaf \in BOOLEAN
      BY <1>2, <1>3 DEF IsNode
    <3>2. QED
      BY <3>1, Limits
  <2>4. QED
    <3> DEFINE lo == GetMinSize(P[up])
               hi == GetMaxSize(P[up])
               g == GetSize(P[up])
    <3>1. g \in lo .. hi /\ lo \in Nat /\ hi \in Nat
      BY <2>1, <2>3 DEF Filled
    <3>2. GetSize(Q[up]) = g + 1 /\ GetMinSize(Q[up]) = lo /\ GetMaxSize(Q[up]) = hi
      BY <1>5, <2>2, Zenon
    <3> HIDE DEF lo, hi, g
    <3>3. g + 1 \in lo .. hi + 1
      BY <3>1
    <3>4. QED
      BY <3>2, <3>3, Zenon DEF IsOver
<1>12. Good(u, h, up)
  BY <1>1, <1>2, <1>8, <1>9, <1>10 DEF Good, Shape
<1>13. h[up] = lev[p] + 1
  BY <1>1, <1>2, <1>8 DEF Family, Kids
<1>14. QED
  BY <1>2, <1>8, <1>11, <1>12, <1>13

\* The new root of a tree has the halves of the old one as children.
LEMMA NewRootNode ==
  ASSUME NEW p, NEW q, p # q, NEW k,
         NEW n, n = RootOver(p, k, q)
  PROVE  /\ IsNode(n) /\ GetSize(n) = 2 /\ Kin(n) = {p, q}
         /\ ~n.leaf /\ n.parent = INVALID_PAGE_ID /\ Filled(n)
<1> DEFINE s == << <<ZeroKey, p>>, <<k, q>> >>
<1> USE DEF RootOver
<1>1. s \in Seq({<<ZeroKey, p>>, <<k, q>>}) /\ Len(s) = 2 /\ s[1] = <<ZeroKey, p>> /\ s[2] = <<k, q>>
  OBVIOUS
<1>2. n.leaf = FALSE /\ n.parent = INVALID_PAGE_ID /\ n.next = ZeroLink /\ n.array_ = s
  OBVIOUS
<1>3. s[1][2] = p /\ s[2][2] = q
  BY <1>1
<1> HIDE DEF s
<1>4. IsSeq(s)
  BY <1>1, SeqOver
<1>5. Vals(s) = {p, q} /\ Uniq(s)
  BY <1>1, <1>3 DEF Vals, Uniq
<1>6. GetSize(n) = 2 /\ Kin(n) = {p, q}
  BY <1>1, <1>2, <1>5 DEF GetSize, Kin
<1>7. IsNode(n)
  <2>1. n = [leaf |-> n.leaf, parent |-> n.parent, next |-> n.next, array_ |-> n.array_]
    BY <1>2 DEF s
  <2>2. QED
    BY <1>2, <1>4, <1>5, <2>1 DEF IsNode
<1>8. Filled(n)
  <2>1. GetMinSize(n) = 2 /\ GetMaxSize(n) = internal_max_size_
    BY <1>2 DEF GetMinSize, GetMaxSize, IsRootPage
  <2>2. QED
    BY <1>6, <2>1 DEF Filled
<1>9. QED
  BY <1>2, <1>6, <1>7, <1>8

\* The root is split.
LEMMA SplitRoot ==
  ASSUME last \in Nat \ {0}, NEW t, NEW lev, NEW p, p = t.root_page_id_, Good(t, lev, p),
         GetSize(t.pages[p]) = GetMaxSize(t.pages[p]) + 1,
         NEW q, q \in Nat \ {0, 1}, q \notin DOMAIN t.pages,
         NEW u, u = InsertIntoParent(Split(t, p, q), p, q)
  PROVE  \E h : Good(u, h, INVALID_PAGE_ID)
<1> DEFINE P == t.pages
           Q == u.pages
           c == u.root_page_id_
           l == LowerHalf(P[p], q)
           r == UpperHalf(P[p])
           k == KeyAt(r, 1)
<1>1. IsTree(t) /\ Pages(P) /\ Family(P, p, lev) /\ Sizes(P, p) /\ t.recorded \in {p, INVALID_PAGE_ID}
  BY DEF Good, Shape
<1>2. /\ IsTree(u)
      /\ u.recorded = IF t.recorded = NoRecord THEN NoRecord ELSE c
      /\ c \in Nat \ {0, 1} /\ c \notin DOMAIN P /\ c # q
      /\ DOMAIN Q = DOMAIN P \union {q, c}
      /\ Moved(Q[p], l, c) /\ Moved(Q[q], r, c)
      /\ Q[c] = RootOver(p, k, q)
      /\ \A x \in DOMAIN P \ {p} :
           /\ x \in Kin(r) => Moved(Q[x], P[x], q)
           /\ x \notin Kin(r) => Q[x] = P[x]
  BY <1>1, SplitRootPages
<1>3. /\ \A x \in DOMAIN P : IsNode(P[x])
      /\ \A x \in DOMAIN P : P[x].parent = INVALID_PAGE_ID <=> x = p
      /\ p \in DOMAIN P /\ p # INVALID_PAGE_ID
      /\ q # INVALID_PAGE_ID /\ c # INVALID_PAGE_ID /\ q # p /\ c # p
  <2>1. \A x \in DOMAIN P : IsNode(P[x])
    BY <1>1 DEF Pages
  <2>2. \A x \in DOMAIN P : P[x].parent = INVALID_PAGE_ID <=> x = p
    BY <1>1, FamilyFacts
  <2>3. p \in DOMAIN P
    BY <1>1 DEF Family
  <2>4. q # INVALID_PAGE_ID /\ c # INVALID_PAGE_ID /\ q # p /\ c # p /\ p # INVALID_PAGE_ID
    BY <1>1, <1>2, <2>3 DEF INVALID_PAGE_ID, Pages
  <2>5. QED
    BY <2>1, <2>2, <2>3, <2>4
<1>4. /\ IsNode(r) /\ GetSize(r) = GetSize(P[p]) - GetSize(P[p]) \div 2 /\ r.leaf = P[p].leaf
      /\ IsNode(l) /\ GetSize(l) = GetSize(P[p]) \div 2
      /\ l.leaf = P[p].leaf
      /\ Kin(P[p]) = Kin(l) \union Kin(r) /\ Kin(l) \intersect Kin(r) = {}
  BY <1>3, HalfNodes
<1> HIDE DEF l, r, k
<1>5. /\ IsNode(Q[c]) /\ Kin(Q[c]) = {p, q} /\ ~Q[c].leaf
      /\ Q[c].parent = INVALID_PAGE_ID /\ Filled(Q[c])
  <2>1. /\ Q[c] = RootOver(p, k, q)
        /\ p # q
    BY <1>2, <1>3
  <2>2. QED
    BY <2>1, NewRootNode
<1>6. /\ Q[q].leaf = P[p].leaf /\ Q[q].parent = c /\ IsNode(Q[q]) /\ Kin(Q[q]) = Kin(r)
      /\ GetSize(Q[q]) = GetSize(r)
      /\ Q[p].leaf = P[p].leaf /\ Q[p].parent = c /\ IsNode(Q[p]) /\ Kin(Q[p]) = Kin(l)
      /\ GetSize(Q[p]) = GetSize(l)
  BY <1>2, <1>4 DEF Moved
<1>7. ASSUME NEW x \in DOMAIN P \ {p}
      PROVE  /\ Q[x].leaf = P[x].leaf /\ Kin(Q[x]) = Kin(P[x]) /\ GetSize(Q[x]) = GetSize(P[x])
             /\ IsNode(Q[x])
             /\ Q[x].parent = IF x \in Kin(r) THEN q ELSE P[x].parent
  BY <1>2, <1>3 DEF Moved
<1> DEFINE h == [x \in DOMAIN Q |-> IF x = q THEN lev[p] ELSE IF x = c THEN lev[p] + 1 ELSE lev[x]]
<1>8. Family(Q, c, h)
  <2>1. h[q] = lev[p] /\ h[c] = lev[p] + 1 /\ \A x \in DOMAIN P : h[x] = lev[x]
    BY <1>2
  <2> HIDE DEF h
  <2>2. /\ q \notin DOMAIN P /\ c \notin DOMAIN P /\ c # q
        /\ DOMAIN Q = DOMAIN P \union {q, c}
    BY <1>2
  <2>3. /\ Q[p].leaf = P[p].leaf /\ Q[q].leaf = P[p].leaf /\ ~Q[c].leaf
        /\ Q[p].parent = c /\ Q[q].parent = c /\ Q[c].parent = INVALID_PAGE_ID
        /\ Kin(P[p]) = Kin(Q[p]) \union Kin(Q[q]) /\ Kin(Q[p]) \intersect Kin(Q[q]) = {}
        /\ Kin(Q[c]) = {p, q}
    BY <1>4, <1>5, <1>6
  <2>4. \A x \in DOMAIN P \ {p} :
          /\ Q[x].leaf = P[x].leaf /\ Kin(Q[x]) = Kin(P[x])
          /\ Q[x].parent = IF x \in Kin(Q[q]) THEN q ELSE P[x].parent
    BY <1>6, <1>7
  <2>5. SplitOffRoot(P, Q, lev, h, p, q, c)
    BY <2>1, <2>2, <2>3, <2>4 DEF SplitOffRoot
  <2>6. QED
    BY <1>1, <2>5, RootFamily
<1> HIDE DEF h
<1>9. Pages(Q)
  <2>1. IsFiniteSet(DOMAIN Q)
    <3>1. IsFiniteSet(DOMAIN P \union {q})
      BY <1>1, FS_AddElement DEF Pages
    <3>2. IsFiniteSet((DOMAIN P \union {q}) \union {c})
      BY <3>1, FS_AddElement
    <3>3. DOMAIN Q = (DOMAIN P \union {q}) \union {c}
      BY <1>2
    <3>4. QED
      BY <3>2, <3>3
  <2>2. DOMAIN Q \subseteq Nat \ {0, 1}
    BY <1>1, <1>2 DEF Pages
  <2>3. \A x \in DOMAIN Q : IsNode(Q[x])
    BY <1>2, <1>5, <1>6, <1>7, ZenonT(60)
  <2>4. QED
    BY <2>1, <2>2, <2>3 DEF Pages
<1>10. Sizes(Q, INVALID_PAGE_ID)
  <2>1. SUFFICES ASSUME NEW x \in DOMAIN Q PROVE Filled(Q[x])
    BY DEF Sizes
  <2>2. P[p].leaf \in BOOLEAN
    BY <1>3 DEF IsNode
  <2>3. CASE x = p
    BY <1>3, <1>4, <1>6, <2>2, <2>3, HalvesFilled
  <2>4. CASE x = q
    BY <1>3, <1>4, <1>6, <2>2, <2>4, HalvesFilled
  <2>5. CASE x = c
    BY <1>5, <2>5
  <2>6. CASE x \notin {p, q, c}
    <3>1. x \in DOMAIN P \ {p} /\ Filled(P[x])
      BY <1>1, <1>2, <2>1, <2>6 DEF Sizes
    <3>2. Q[x].parent = INVALID_PAGE_ID <=> P[x].parent = INVALID_PAGE_ID
      BY <1>3, <1>4, <1>7, <3>1
    <3>3. Q[x].leaf = P[x].leaf /\ GetSize(Q[x]) = GetSize(P[x])
      BY <1>7, <3>1
    <3>4. QED
      BY <3>1, <3>2, <3>3, SameLimits DEF Filled
  <2>7. QED
    BY <2>3, <2>4, <2>5, <2>6
<1>11. u.recorded = c
  BY <1>1, <1>2, <1>3 DEF NoRecord, INVALID_PAGE_ID, Pages
<1>12. Good(u, h, INVALID_PAGE_ID)
  BY <1>2, <1>8, <1>9, <1>10, <1>11 DEF Good, Shape
<1>13. QED
  BY <1>12

\* SplitIfFull at page p: the tree is in order again, or its parent is next.
LEMMA SplitStep ==
  ASSUME last \in Nat \ {0}, NEW t, NEW lev, NEW p \in DOMAIN t.pages, Good(t, lev, p), IsOver(t.pages[p]),
         NEW a, a = SplitIfFull(t, p)
  PROVE  \E h : /\ Good(a.tree, h, a.page)
                /\ a.page # INVALID_PAGE_ID =>
                     /\ a.page \in DOMAIN a.tree.pages
                     /\ IsOver(a.tree.pages[a.page])
                     /\ h[a.page] = lev[p] + 1
                     /\ h[a.tree.root_page_id_] = lev[t.root_page_id_]
<1> DEFINE n == t.pages[p]
           q == NewPageId(t)
           u == InsertIntoParent(Split(t, p, q), p, q)
<1>1. /\ n.leaf \in BOOLEAN /\ GetSize(n) \in Nat /\ GetMinSize(n) \in Nat /\ GetMaxSize(n) \in Nat
      /\ IsFiniteSet(DOMAIN t.pages) /\ DOMAIN t.pages \subseteq Nat \ {0, 1}
  <2>1. IsNode(n) /\ IsFiniteSet(DOMAIN t.pages) /\ DOMAIN t.pages \subseteq Nat \ {0, 1}
    BY DEF Good, Shape, Pages
  <2>2. GetSize(n) \in Nat /\ n.leaf \in BOOLEAN
    BY <2>1, NodeSize
  <2>3. QED
    BY <2>1, <2>2, Limits
<1>2. CASE GetSize(n) <= GetMaxSize(n)
  <2>1. a = Arrived(t, INVALID_PAGE_ID)
    BY <1>2 DEF SplitIfFull
  <2>2. a.tree = t /\ a.page = INVALID_PAGE_ID
    BY <2>1 DEF Arrived
  <2>3. Filled(n)
    BY <1>1, <1>2 DEF IsOver, Filled
  <2>4. Good(t, lev, INVALID_PAGE_ID)
    BY <2>3 DEF Good, Shape, Sizes
  <2>5. QED
    BY <2>2, <2>4
<1>3. CASE ~(GetSize(n) <= GetMaxSize(n))
  <2>1. a = Arrived(u, n.parent)
    BY <1>3 DEF SplitIfFull
  <2> HIDE DEF u
  <2>2. a.tree = u /\ a.page = n.parent
    BY <2>1 DEF Arrived
  <2>3. GetSize(n) = GetMaxSize(n) + 1
    BY <1>1, <1>3 DEF IsOver
  <2>4. q \in Nat \ {0, 1} /\ q \notin DOMAIN t.pages
    BY <1>1, NewPageIsNew
  <2>5. u = InsertIntoParent(Split(t, p, q), p, q)
    BY DEF u
  <2> HIDE DEF q
  <2>6. CASE p = t.root_page_id_
    <3>1. n.parent = INVALID_PAGE_ID
      BY <2>6 DEF Good, Shape, Family, Parents
    <3>2. \E h : Good(u, h, INVALID_PAGE_ID)
      BY <2>3, <2>4, <2>5, <2>6, SplitRoot
    <3>3. QED
      BY <2>2, <3>1, <3>2
  <2>7. CASE p # t.root_page_id_
    <3> DEFINE up == n.parent
    <3>1. /\ up \in DOMAIN u.pages /\ IsOver(u.pages[up]) /\ u.root_page_id_ = t.root_page_id_
          /\ \E h : /\ Good(u, h, up) /\ h[up] = lev[p] + 1
                    /\ h[t.root_page_id_] = lev[t.root_page_id_]
      BY <2>3, <2>4, <2>5, <2>7, SplitBelow
    <3>2. QED
      BY <2>2, <3>1
  <2>8. QED
    BY <2>6, <2>7
<1>4. QED
  BY <1>2, <1>3


-----------------------------------------------------------------------------
(***************************************************************************)
(* A page is merged with its neighbor, or borrows from it.                 *)
(***************************************************************************)
\* Pages a and b are children of page up.
Siblings(P, a, b, up) ==
  /\ a \in DOMAIN P /\ b \in DOMAIN P /\ up \in DOMAIN P
  /\ a # b /\ a # up /\ b # up
  /\ a \in Kin(P[up]) /\ b \in Kin(P[up]) /\ P[a].parent = up /\ P[b].parent = up
  /\ a \notin Kin(P[a]) /\ b \notin Kin(P[a]) /\ up \notin Kin(P[a])
  /\ a \notin Kin(P[b]) /\ b \notin Kin(P[b]) /\ up \notin Kin(P[b])
  /\ Kin(P[a]) \intersect Kin(P[b]) = {}
  /\ P[a].leaf = P[b].leaf /\ ~P[up].leaf
  /\ IsNode(P[a]) /\ IsNode(P[b]) /\ IsNode(P[up])

\* Siblings have the same level, and no children in common.
LEMMA SiblingFacts ==
  ASSUME NEW P, NEW root, NEW lev, Pages(P), Family(P, root, lev),
         NEW up \in DOMAIN P, NEW a \in Kin(P[up]), NEW b \in Kin(P[up]), a # b
  PROVE  Siblings(P, a, b, up) /\ lev[a] = lev[b] /\ lev[up] = lev[a] + 1 /\ a # root /\ b # root
<1>1. /\ a \in DOMAIN P /\ b \in DOMAIN P /\ P[a].parent = up /\ P[b].parent = up
      /\ lev[up] = lev[a] + 1 /\ lev[up] = lev[b] + 1
  BY DEF Family, Kids
<1>2. lev[a] = lev[b]
  <2>1. lev[a] \in Nat /\ lev[b] \in Nat
    BY <1>1 DEF Family, Levels
  <2>2. QED
    BY <1>1, <2>1
<1>3. /\ a # up /\ b # up /\ a # root /\ b # root
      /\ a \notin Kin(P[a]) /\ b \notin Kin(P[b])
  BY <1>1, FamilyFacts
<1>4. up \notin Kin(P[a]) /\ up \notin Kin(P[b])
  BY <1>1, FamilyFacts
<1>5. b \notin Kin(P[a]) /\ a \notin Kin(P[b]) /\ Kin(P[a]) \intersect Kin(P[b]) = {}
  <2>1. \A x, y \in DOMAIN P : \A c \in Kin(P[x]) : c \in Kin(P[y]) => x = y
    BY FamilyFacts
  <2>2. QED
    BY <1>1, <1>3, <2>1
<1>6. P[a].leaf = P[b].leaf
  <2>1. /\ P[a].leaf <=> lev[a] = 0
        /\ P[b].leaf <=> lev[b] = 0
        /\ P[a].leaf \in BOOLEAN /\ P[b].leaf \in BOOLEAN
    BY <1>1 DEF Family, Levels, Pages, IsNode
  <2>2. QED
    BY <1>2, <2>1
<1>7. ~P[up].leaf
  BY DEF Kin
<1>8. IsNode(P[a]) /\ IsNode(P[b]) /\ IsNode(P[up])
  BY <1>1 DEF Pages
<1>9. QED
  BY <1>1, <1>2, <1>3, <1>4, <1>5, <1>6, <1>7, <1>8 DEF Siblings

\* The pages after Coalesce.
Coalesced(t, u, left, right, up) ==
  /\ IsTree(u) /\ u.root_page_id_ = t.root_page_id_ /\ u.recorded = t.recorded
  /\ DOMAIN u.pages = DOMAIN t.pages \ {right}
  /\ \E k : u.pages[left] = MoveAllTo(t.pages[left], t.pages[right], k)
  /\ u.pages[up] = [t.pages[up] EXCEPT
                      !.array_ = RemoveAt(t.pages[up].array_, ValueIndex(t.pages[up], right))]
  /\ \A x \in DOMAIN t.pages \ {left, right, up} :
       /\ x \in Kin(t.pages[right]) => Moved(u.pages[x], t.pages[x], left)
       /\ x \notin Kin(t.pages[right]) => u.pages[x] = t.pages[x]

\* Coalesce changes the neighbor, the parent and the children that move.
LEMMA CoalescePages ==
  ASSUME NEW t, IsTree(t), Pages(t.pages), NEW left, NEW right, NEW up,
         Siblings(t.pages, left, right, up)
  PROVE  Coalesced(t, Coalesce(t, left, right, up), left, right, up)
<1> DEFINE P == t.pages
           n == P[right]
           i == ValueIndex(P[up], right)
           k == KeyAt(P[up], i)
           A == AdoptChildren(P, n, left)
           B == Put(Put(A, left, MoveAllTo(P[left], n, k)),
                    up, [P[up] EXCEPT !.array_ = RemoveAt(P[up].array_, i)])
           C == Without(B, right)
           u == Coalesce(t, left, right, up)
<1> USE DEF Siblings
<1>1. u = [t EXCEPT !.pages = C]
  BY Zenon DEF Coalesce
<1> HIDE DEF C, u
<1>2. IsTree(u) /\ u.root_page_id_ = t.root_page_id_ /\ u.recorded = t.recorded /\ u.pages = C
  BY <1>1 DEF IsTree
<1>3. /\ DOMAIN A = DOMAIN P
      /\ \A x \in DOMAIN P :
              /\ x \in Kin(n) => Moved(A[x], P[x], left)
              /\ x \notin Kin(n) => A[x] = P[x]
  <2>1. \A x \in DOMAIN P : IsNode(P[x])
    BY DEF Pages
  <2>2. QED
    BY <2>1, AdoptKin
<1> HIDE DEF A, i, k
<1>5. /\ DOMAIN B = DOMAIN P
      /\ B[left] = MoveAllTo(P[left], n, k)
      /\ B[up] = [P[up] EXCEPT !.array_ = RemoveAt(P[up].array_, i)]
      /\ \A x \in DOMAIN P \ {left, up} : B[x] = A[x]
  <2> DEFINE m == MoveAllTo(P[left], n, k)
             w == [P[up] EXCEPT !.array_ = RemoveAt(P[up].array_, i)]
             D == Put(A, left, m)
  <2>1. B = Put(D, up, w)
    OBVIOUS
  <2>2. DOMAIN D = DOMAIN P /\ D[left] = m /\ \A x \in DOMAIN P \ {left} : D[x] = A[x]
    <3> HIDE DEF m
    <3>1. QED
      BY <1>3 DEF Put
  <2> HIDE DEF D, B
  <2>3. DOMAIN B = DOMAIN P /\ B[up] = w /\ \A x \in DOMAIN P \ {up} : B[x] = D[x]
    <3> HIDE DEF w, m
    <3>1. QED
      BY <2>1, <2>2 DEF Put
  <2>4. B[left] = m
    BY <2>2, <2>3
  <2>5. QED
    BY <2>2, <2>3, <2>4
<1> HIDE DEF B
<1>6. DOMAIN C = DOMAIN P \ {right} /\ \A x \in DOMAIN P \ {right} : C[x] = B[x]
  BY <1>5 DEF C, Without
<1>7. /\ C[left] = MoveAllTo(P[left], n, k)
      /\ C[up] = [P[up] EXCEPT !.array_ = RemoveAt(P[up].array_, i)]
  BY <1>5, <1>6
<1>8. \A x \in DOMAIN P \ {left, right, up} :
         /\ x \in Kin(P[right]) => Moved(C[x], P[x], left)
         /\ x \notin Kin(P[right]) => C[x] = P[x]
  BY <1>3, <1>5, <1>6
<1>9. QED
  BY <1>2, <1>6, <1>7, <1>8 DEF Coalesced, i, u

\* Page p, one below its least size, and its neighbor become one page.
LEMMA CoalesceTree ==
  ASSUME NEW t, NEW lev, NEW p, Good(t, lev, p), NEW left, NEW right, NEW up \in DOMAIN t.pages,
         left \in Kin(t.pages[up]), right \in Kin(t.pages[up]), left # right,
         p = left \/ p = right,
         GetSize(t.pages[left]) + GetSize(t.pages[right]) <= GetMaxSize(t.pages[left]),
         GetSize(t.pages[right]) >= 1
  PROVE  LET u == Coalesce(t, left, right, up)
         IN  /\ Good(u, lev, up) /\ u.root_page_id_ = t.root_page_id_
             /\ up \in DOMAIN u.pages
             /\ GetSize(u.pages[up]) = GetSize(t.pages[up]) - 1
             /\ u.pages[up].parent = t.pages[up].parent /\ ~u.pages[up].leaf
             /\ ~t.pages[up].leaf
<1> DEFINE P == t.pages
           u == Coalesce(t, left, right, up)
           Q == u.pages
           root == t.root_page_id_
<1>1. IsTree(t) /\ Pages(P) /\ Family(P, root, lev) /\ Sizes(P, p) /\ t.recorded \in {root, INVALID_PAGE_ID}
  BY DEF Good, Shape
<1>2. Siblings(P, left, right, up) /\ left # root /\ right # root
  BY <1>1, SiblingFacts
<1>3. Coalesced(t, u, left, right, up)
  BY <1>1, <1>2, CoalescePages
<1> HIDE DEF u
<1>4. /\ IsTree(u) /\ u.root_page_id_ = root /\ u.recorded = t.recorded
      /\ DOMAIN Q = DOMAIN P \ {right}
  BY <1>3 DEF Coalesced
<1>5. /\ IsNode(Q[left]) /\ GetSize(Q[left]) = GetSize(P[left]) + GetSize(P[right])
      /\ Q[left].leaf = P[left].leaf /\ Q[left].parent = P[left].parent
      /\ Kin(Q[left]) = Kin(P[left]) \union Kin(P[right])
  <2>1. PICK k : Q[left] = MoveAllTo(P[left], P[right], k)
    BY <1>3 DEF Coalesced
  <2>2. /\ IsNode(P[left]) /\ IsNode(P[right]) /\ P[left].leaf = P[right].leaf
        /\ Kin(P[left]) \intersect Kin(P[right]) = {}
    BY <1>2 DEF Siblings
  <2> DEFINE l == P[left]
             n == P[right]
             r == MoveAllTo(l, n, k)
  <2>3. /\ IsNode(r) /\ GetSize(r) = GetSize(l) + GetSize(n)
        /\ r.leaf = l.leaf /\ r.parent = l.parent
        /\ Kin(r) = Kin(l) \union Kin(n)
    <3>1. IsNode(l) /\ IsNode(n) /\ l.leaf = n.leaf /\ GetSize(n) >= 1 /\ Kin(l) \intersect Kin(n) = {}
      BY <2>2
    <3> HIDE DEF l, n
    <3>2. QED
      BY <3>1, MoveAllNode
  <2>4. Q[left] = r
    BY <2>1
  <2> HIDE DEF r
  <2>5. QED
    BY <2>3, <2>4
<1>6. /\ IsNode(Q[up]) /\ GetSize(Q[up]) = GetSize(P[up]) - 1
      /\ Kin(Q[up]) = Kin(P[up]) \ {right}
      /\ ~Q[up].leaf /\ ~P[up].leaf /\ Q[up].parent = P[up].parent
  <2>1. Q[up] = [P[up] EXCEPT !.array_ = RemoveAt(P[up].array_, ValueIndex(P[up], right))]
    BY <1>3 DEF Coalesced
  <2>2. IsNode(P[up]) /\ ~P[up].leaf /\ right \in Kin(P[up])
    BY <1>2 DEF Siblings
  <2> DEFINE n == P[up]
             r == [n EXCEPT !.array_ = RemoveAt(n.array_, ValueIndex(n, right))]
  <2>3. /\ IsNode(r) /\ GetSize(r) = GetSize(n) - 1 /\ Kin(r) = Kin(n) \ {right}
        /\ ~r.leaf /\ r.parent = n.parent
    <3>1. IsNode(n) /\ ~n.leaf /\ right \in Kin(n)
      BY <2>2
    <3> HIDE DEF n
    <3>2. QED
      BY <3>1, DropChildNode
  <2>4. Q[up] = r
    BY <2>1
  <2> HIDE DEF r
  <2>5. QED
    BY <2>2, <2>3, <2>4
<1>7. ASSUME NEW x \in DOMAIN P \ {left, right, up}
      PROVE  /\ Q[x].leaf = P[x].leaf /\ Kin(Q[x]) = Kin(P[x]) /\ GetSize(Q[x]) = GetSize(P[x])
             /\ IsNode(Q[x])
             /\ Q[x].parent = IF x \in Kin(P[right]) THEN left ELSE P[x].parent
  <2>1. /\ x \in Kin(P[right]) => Moved(Q[x], P[x], left)
        /\ x \notin Kin(P[right]) => Q[x] = P[x]
    BY <1>3 DEF Coalesced
  <2>2. IsNode(P[x])
    BY <1>1 DEF Pages
  <2>3. QED
    BY <2>1, <2>2 DEF Moved
<1>8. Family(Q, root, lev)
  <2>1. Q[up].leaf = P[up].leaf
    <3>1. Q[up].leaf \in BOOLEAN /\ P[up].leaf \in BOOLEAN
      BY <1>1, <1>6 DEF IsNode, Pages
    <3>2. QED
      BY <1>6, <3>1
  <2>2. left \notin Kin(P[right]) /\ up \notin Kin(P[right]) /\ up # left /\ up # right
    BY <1>2 DEF Siblings
  <2>3. MergeInto(P, Q, left, right, up)
    <3>1. /\ left \in DOMAIN P /\ right \in DOMAIN P /\ left # right
          /\ up \in DOMAIN P /\ left \in Kin(P[up]) /\ right \in Kin(P[up])
      BY <1>2 DEF Siblings
    <3>2. \A x \in DOMAIN P \ {right, left, up} : Kin(Q[x]) = Kin(P[x])
      BY <1>7
    <3>3. \A x \in DOMAIN P \ {right} :
             /\ Q[x].leaf = P[x].leaf
             /\ Q[x].parent = IF x \in Kin(P[right]) THEN left ELSE P[x].parent
      BY <1>5, <1>6, <1>7, <2>1, <2>2
    <3>4. QED
      BY <1>4, <1>5, <1>6, <3>1, <3>2, <3>3 DEF MergeInto
  <2>4. QED
    BY <1>1, <2>3, MergeFamily
<1>9. Pages(Q)
  <2>1. IsFiniteSet(DOMAIN Q)
    BY <1>1, <1>4, FS_RemoveElement DEF Pages
  <2>2. DOMAIN Q \subseteq Nat \ {0, 1}
    BY <1>1, <1>4 DEF Pages
  <2>3. \A x \in DOMAIN Q : IsNode(Q[x])
    BY <1>4, <1>5, <1>6, <1>7
  <2>4. QED
    BY <2>1, <2>2, <2>3 DEF Pages
<1>10. Sizes(Q, up)
  <2>1. SUFFICES ASSUME NEW x \in DOMAIN Q \ {up} PROVE Filled(Q[x])
    BY DEF Sizes
  <2>2. left \in DOMAIN P /\ right \in DOMAIN P
    BY <1>2 DEF Siblings
  <2>3. \A y \in DOMAIN P : P[y].parent = INVALID_PAGE_ID <=> y = root
    BY <1>1, FamilyFacts
  <2>4. CASE x = left
    <3> DEFINE l == P[left]
               r == P[right]
    <3>1. /\ GetMinSize(r) = GetMinSize(l) /\ GetMinSize(Q[left]) = GetMinSize(l)
          /\ GetMaxSize(Q[left]) = GetMaxSize(l)
      <4>1. r.leaf = l.leaf /\ l.parent # INVALID_PAGE_ID /\ r.parent # INVALID_PAGE_ID
        BY <1>2, <2>2, <2>3 DEF Siblings
      <4>2. GetMinSize(r) = GetMinSize(l)
        BY <4>1, SameLimits
      <4>3. QED
        BY <1>5, <4>2, SameLimits
    <3>2. /\ GetSize(l) \in Nat /\ GetSize(r) \in Nat /\ GetMinSize(l) \in Nat /\ GetMaxSize(l) \in Nat
      <4>1. IsNode(l) /\ IsNode(r)
        BY <1>2 DEF Siblings
      <4>2. QED
        BY <4>1, NodeSize, Limits
    <3>3. GetSize(l) >= GetMinSize(l) \/ GetSize(r) >= GetMinSize(l)
      <4>1. Filled(l) \/ Filled(r)
        BY <1>1, <2>2 DEF Sizes
      <4>2. QED
        BY <3>1, <3>2, <4>1 DEF Filled
    <3>4. GetSize(Q[left]) = GetSize(l) + GetSize(r) /\ GetSize(l) + GetSize(r) <= GetMaxSize(l)
      BY <1>5
    <3> HIDE DEF l, r
    <3>5. QED
      BY <2>4, <3>1, <3>2, <3>3, <3>4 DEF Filled
  <2>5. CASE x # left
    <3>1. x \in DOMAIN P \ {left, right, up} /\ Filled(P[x])
      BY <1>1, <1>4, <2>1, <2>5 DEF Sizes
    <3>2. x \in Kin(P[right]) => x # root
      BY <1>1, <2>2, FamilyFacts
    <3>3. left # INVALID_PAGE_ID
      BY <1>1, <2>2, FamilyFacts
    <3>4. Q[x].parent = INVALID_PAGE_ID <=> P[x].parent = INVALID_PAGE_ID
      BY <1>7, <2>3, <3>1, <3>2, <3>3
    <3>5. Q[x].leaf = P[x].leaf /\ GetSize(Q[x]) = GetSize(P[x])
      BY <1>7, <3>1
    <3>6. QED
      BY <3>1, <3>4, <3>5, SameLimits DEF Filled
  <2>6. QED
    BY <2>4, <2>5
<1>11. Good(u, lev, up)
  BY <1>1, <1>4, <1>8, <1>9, <1>10 DEF Good, Shape
<1>12. up \in DOMAIN Q
  BY <1>2, <1>4 DEF Siblings
<1>13. QED
  BY <1>4, <1>6, <1>11, <1>12 DEF u

\* A page with too few pairs and a neighbor with too many for one page: one pair
\* is enough for the page, and not too much for the neighbor.
LEMMA LendSizes ==
  ASSUME NEW n, IsNode(n), NEW m, IsNode(m), n.leaf = m.leaf,
         n.parent # INVALID_PAGE_ID, m.parent # INVALID_PAGE_ID,
         GetSize(n) + 1 = GetMinSize(n), Filled(m), ~Fit(n, m)
  PROVE  /\ GetSize(n) >= 1 /\ GetSize(m) >= 1
         /\ GetSize(m) - 1 \in GetMinSize(m) .. GetMaxSize(m)
         /\ GetSize(n) + 1 \in GetMinSize(n) .. GetMaxSize(n)
<1>1. GetMinSize(n) = GetMinSize(m) /\ GetMaxSize(n) = GetMaxSize(m)
  BY SameLimits
<1>2. /\ GetMinSize(n) \in Nat /\ GetMaxSize(n) \in Nat /\ GetMinSize(n) < GetMaxSize(n)
      /\ 2 * GetMinSize(n) <= GetMaxSize(n) + 1
      /\ GetSize(n) \in Nat /\ GetSize(m) \in Nat
  BY NodeSize, Limits
<1>3. GetMinSize(n) >= 2
  BY NodeSize DEF GetMinSize, IsRootPage
<1>4. ~(GetSize(n) + GetSize(m) <= GetMaxSize(n)) /\ GetSize(m) \in GetMinSize(m) .. GetMaxSize(m)
  BY DEF Fit, Filled
<1>5. QED
  BY <1>1, <1>2, <1>3, <1>4

\* The pages after Redistribute between leaves.
LeafLent(t, u, p, q, up) ==
  /\ IsTree(u) /\ u.root_page_id_ = t.root_page_id_ /\ u.recorded = t.recorded
  /\ DOMAIN u.pages = DOMAIN t.pages
  /\ \E first \in BOOLEAN : /\ u.pages[p] = LeafBorrow(t.pages[p], t.pages[q], first)
                            /\ u.pages[q] = Lend(t.pages[q], first)
  /\ \E i \in 1 .. GetSize(t.pages[up]) : \E k : u.pages[up] = SetKey(t.pages[up], i, k)
  /\ \A x \in DOMAIN t.pages \ {p, q, up} : u.pages[x] = t.pages[x]

\* Redistribute changes the two leaves and their parent.
LEMMA RedistributeLeafPages ==
  ASSUME NEW t, IsTree(t), NEW p, NEW q, NEW up, Siblings(t.pages, p, q, up)
  PROVE  LeafLent(t, RedistributeLeaf(t, p, q, up), p, q, up)
<1> DEFINE P == t.pages
           n == P[p]
           m == P[q]
           w == P[up]
           first == ValueIndex(w, p) = 1
           i == ValueIndex(w, IF first THEN q ELSE p)
           k == LeafSeparator(t, n, m, first)
           a == SetKey(w, i, k)
           b == LeafBorrow(n, m, first)
           c == Lend(m, first)
           u == RedistributeLeaf(t, p, q, up)
<1> USE DEF Siblings
<1>1. u = [t EXCEPT !.pages[up] = a, !.pages[p] = b, !.pages[q] = c]
  BY Zenon DEF RedistributeLeaf
<1>2. first \in BOOLEAN /\ i \in 1 .. GetSize(w)
  <2>1. ValueIndex(w, p) \in 1 .. GetSize(w) /\ ValueIndex(w, q) \in 1 .. GetSize(w)
    BY ValuePlace
  <2>2. QED
    BY <2>1
<1> HIDE DEF a, b, c, u
<1>3. /\ IsTree(u) /\ u.root_page_id_ = t.root_page_id_ /\ u.recorded = t.recorded
      /\ u.pages = [P EXCEPT ![up] = a, ![p] = b, ![q] = c]
  BY <1>1 DEF IsTree
<1>4. /\ DOMAIN u.pages = DOMAIN P /\ u.pages[up] = a /\ u.pages[p] = b /\ u.pages[q] = c
      /\ \A x \in DOMAIN P \ {p, q, up} : u.pages[x] = P[x]
  BY <1>3
<1>5. /\ \E f \in BOOLEAN : u.pages[p] = LeafBorrow(n, m, f) /\ u.pages[q] = Lend(m, f)
      /\ \E j \in 1 .. GetSize(w) : \E l : u.pages[up] = SetKey(w, j, l)
  <2> HIDE DEF first, i, k
  <2>1. b = LeafBorrow(n, m, first) /\ c = Lend(m, first) /\ a = SetKey(w, i, k)
    BY DEF a, b, c
  <2>2. QED
    BY <1>2, <1>4, <2>1
<1>6. QED
  BY <1>3, <1>4, <1>5 DEF LeafLent, u

\* The pages after Redistribute between internal pages: child c goes to page p.
InternalLent(t, u, p, q, up) ==
  /\ IsTree(u) /\ u.root_page_id_ = t.root_page_id_ /\ u.recorded = t.recorded
  /\ DOMAIN u.pages = DOMAIN t.pages
  /\ \E first \in BOOLEAN : \E k :
       LET c == ValueAt(t.pages[q], IF first THEN 1 ELSE GetSize(t.pages[q]))
       IN  /\ u.pages[p] = InternalBorrow(t.pages[p], t.pages[q], first, k)
           /\ u.pages[q] = Lend(t.pages[q], first)
           /\ c \in Kin(t.pages[q]) /\ Moved(u.pages[c], t.pages[c], p)
           /\ \A x \in DOMAIN t.pages \ {p, q, up, c} : u.pages[x] = t.pages[x]
  /\ \E i \in 1 .. GetSize(t.pages[up]) : \E k : u.pages[up] = SetKey(t.pages[up], i, k)

\* Redistribute changes the two pages, their parent, and the child that moves.
LEMMA RedistributeInternalPages ==
  ASSUME NEW t, IsTree(t), Pages(t.pages), NEW p, NEW q, NEW up, Siblings(t.pages, p, q, up),
         ~t.pages[q].leaf, GetSize(t.pages[q]) >= 1, GetSize(t.pages[p]) >= 1,
         Kin(t.pages[q]) \subseteq DOMAIN t.pages
  PROVE  InternalLent(t, RedistributeInternal(t, p, q, up), p, q, up)
<1> DEFINE P == t.pages
           n == P[p]
           m == P[q]
           w == P[up]
           first == ValueIndex(w, p) = 1
           pre == P[FindLeafPage(t, KeyAt(IF first THEN n ELSE m, GetSize(IF first THEN n ELSE m)))]
           middle == LinkedPage(t, pre.next)
           k == KeyAt(middle, 1)
           separator == KeyAt(IF first THEN LinkedPage(t, middle.next) ELSE pre, 1)
           i == ValueIndex(w, IF first THEN q ELSE p)
           g == ValueAt(m, IF first THEN 1 ELSE GetSize(m))
           a == SetKey(w, i, separator)
           b == InternalBorrow(n, m, first, k)
           c == Lend(m, first)
           B == [P EXCEPT ![up] = a, ![p] = b, ![q] = c]
           A == Adopt(B, {g}, p)
           u == RedistributeInternal(t, p, q, up)
<1> USE DEF Siblings
<1>1. u = [t EXCEPT !.pages = A]
  BY Zenon DEF RedistributeInternal
<1>2. first \in BOOLEAN /\ i \in 1 .. GetSize(w)
  <2>1. ValueIndex(w, p) \in 1 .. GetSize(w) /\ ValueIndex(w, q) \in 1 .. GetSize(w)
    BY ValuePlace
  <2>2. QED
    BY <2>1
<1> HIDE DEF A, B, u
<1>3. /\ IsTree(u) /\ u.root_page_id_ = t.root_page_id_ /\ u.recorded = t.recorded
      /\ u.pages = A
  BY <1>1 DEF IsTree
<1>4. g \in Kin(m) /\ g \in DOMAIN P /\ g \notin {p, q, up} /\ g \notin Kin(n)
  <2>1. g \in Kin(m)
    <3>1. GetSize(m) \in Nat
      BY NodeSize
    <3>2. g = ValueAt(m, 1) \/ g = ValueAt(m, GetSize(m))
      OBVIOUS
    <3> HIDE DEF g
    <3>3. \A j \in 1 .. GetSize(m) : ValueAt(m, j) \in Kin(m)
      BY DEF Kin, Vals, ValueAt, GetSize
    <3>4. 1 \in 1 .. GetSize(m) /\ GetSize(m) \in 1 .. GetSize(m)
      BY <3>1
    <3>5. QED
      BY <3>2, <3>3, <3>4
  <2> HIDE DEF g
  <2>2. QED
    BY <2>1
<1> HIDE DEF first, k, separator, i
<1>5. IsNode(a) /\ IsNode(b) /\ IsNode(c)
  <2>1. IsNode(a)
    BY <1>2, SetKeyNode
  <2>2. ~n.leaf
    OBVIOUS
  <2>3. IsNode(b)
    BY <1>2, <1>4, <2>2, InternalBorrowNode
  <2>4. IsNode(c)
    BY <1>2, LendNode
  <2>5. QED
    BY <2>1, <2>3, <2>4
<1> HIDE DEF a, b, c, g
<1>6. /\ DOMAIN B = DOMAIN P /\ B[up] = a /\ B[p] = b /\ B[q] = c
      /\ \A x \in DOMAIN P \ {p, q, up} : B[x] = P[x]
  BY DEF B
<1>7. \A x \in DOMAIN B : IsNode(B[x])
  BY <1>5, <1>6 DEF Pages
<1>8. /\ DOMAIN A = DOMAIN P /\ Moved(A[g], B[g], p)
      /\ \A x \in DOMAIN P \ {g} : A[x] = B[x]
  <2> DEFINE S == {g}
  <2>1. A = Adopt(B, S, p)
    BY DEF A
  <2>2. \A x : x \in S <=> x = g
    OBVIOUS
  <2> HIDE DEF S
  <2>3. /\ DOMAIN A = DOMAIN B
        /\ \A x \in DOMAIN B :
             /\ x \in S => Moved(A[x], B[x], p)
             /\ x \notin S => A[x] = B[x]
    BY <1>7, <2>1, AdoptPages
  <2>4. QED
    BY <1>4, <1>6, <2>2, <2>3
<1>9. /\ A[up] = a /\ A[p] = b /\ A[q] = c /\ Moved(A[g], P[g], p)
      /\ \A x \in DOMAIN P \ {p, q, up, g} : A[x] = P[x]
  BY <1>4, <1>6, <1>8
<1>10. \E j \in 1 .. GetSize(w) : \E l : A[up] = SetKey(w, j, l)
  BY <1>2, <1>9 DEF a
<1>11. \E f \in BOOLEAN : \E l :
         LET e == ValueAt(m, IF f THEN 1 ELSE GetSize(m))
         IN  /\ A[p] = InternalBorrow(n, m, f, l) /\ A[q] = Lend(m, f)
             /\ e \in Kin(m) /\ Moved(A[e], P[e], p)
             /\ \A x \in DOMAIN P \ {p, q, up, e} : A[x] = P[x]
  <2>1. g = ValueAt(m, IF first THEN 1 ELSE GetSize(m))
    BY DEF g
  <2>2. A[p] = InternalBorrow(n, m, first, k) /\ A[q] = Lend(m, first)
    BY <1>9 DEF b, c
  <2>3. QED
    BY <1>2, <1>4, <1>9, <2>1, <2>2
<1>12. QED
  BY <1>3, <1>8, <1>10, <1>11 DEF InternalLent, u

\* A leaf that is one below its least size borrows a pair.
LEMMA LeafLentTree ==
  ASSUME NEW t, NEW lev, NEW p, Good(t, lev, p), NEW q, NEW up \in DOMAIN t.pages,
         p \in Kin(t.pages[up]), q \in Kin(t.pages[up]), p # q, t.pages[p].leaf,
         GetSize(t.pages[p]) + 1 = GetMinSize(t.pages[p]), ~Fit(t.pages[p], t.pages[q])
  PROVE  Good(RedistributeLeaf(t, p, q, up), lev, INVALID_PAGE_ID)
<1> DEFINE P == t.pages
           u == RedistributeLeaf(t, p, q, up)
           Q == u.pages
           root == t.root_page_id_
           n == P[p]
           m == P[q]
           w == P[up]
<1>1. IsTree(t) /\ Pages(P) /\ Family(P, root, lev) /\ Sizes(P, p) /\ t.recorded \in {root, INVALID_PAGE_ID}
  BY DEF Good, Shape
<1>2. Siblings(P, p, q, up) /\ p # root /\ q # root
  BY <1>1, SiblingFacts
<1>3. LeafLent(t, u, p, q, up)
  BY <1>1, <1>2, RedistributeLeafPages
<1> HIDE DEF u
<1>4. /\ IsTree(u) /\ u.root_page_id_ = root /\ u.recorded = t.recorded
      /\ DOMAIN Q = DOMAIN P
      /\ \A x \in DOMAIN P \ {p, q, up} : Q[x] = P[x]
  BY <1>3 DEF LeafLent
<1>5. /\ IsNode(n) /\ IsNode(m) /\ IsNode(w) /\ n.leaf /\ m.leaf /\ ~w.leaf /\ n.leaf = m.leaf
      /\ p \in DOMAIN P /\ q \in DOMAIN P /\ p # up /\ q # up
      /\ Kin(n) = {} /\ Kin(m) = {}
  BY <1>2 DEF Siblings, Kin
<1>6. /\ GetSize(n) >= 1 /\ GetSize(m) >= 1
      /\ GetSize(m) - 1 \in GetMinSize(m) .. GetMaxSize(m)
      /\ GetSize(n) + 1 \in GetMinSize(n) .. GetMaxSize(n)
  <2>1. n.parent # INVALID_PAGE_ID /\ m.parent # INVALID_PAGE_ID
    BY <1>1, <1>2, <1>5, FamilyFacts
  <2>2. Filled(m)
    BY <1>1, <1>5 DEF Sizes
  <2>3. GetSize(n) + 1 = GetMinSize(n) /\ ~Fit(n, m)
    OBVIOUS
  <2> HIDE DEF n, m
  <2>4. QED
    BY <1>5, <2>1, <2>2, <2>3, LendSizes
<1>7. /\ IsNode(Q[p]) /\ GetSize(Q[p]) = GetSize(n) + 1 /\ Kin(Q[p]) = {}
      /\ Q[p].leaf /\ Q[p].parent = n.parent
      /\ IsNode(Q[q]) /\ GetSize(Q[q]) = GetSize(m) - 1 /\ Kin(Q[q]) = {}
      /\ Q[q].leaf /\ Q[q].parent = m.parent
  <2>1. PICK first \in BOOLEAN : Q[p] = LeafBorrow(n, m, first) /\ Q[q] = Lend(m, first)
    BY <1>3 DEF LeafLent
  <2> DEFINE b == LeafBorrow(n, m, first)
             c == Lend(m, first)
  <2>2. Q[p] = b /\ Q[q] = c
    BY <2>1
  <2> HIDE DEF n, m
  <2>3. /\ IsNode(b) /\ GetSize(b) = GetSize(n) + 1 /\ Kin(b) = {}
        /\ b.leaf /\ b.parent = n.parent
    BY <1>5, <1>6, LeafBorrowNode
  <2>4. /\ IsNode(c) /\ GetSize(c) = GetSize(m) - 1
        /\ Kin(c) = {}
        /\ c.leaf = m.leaf /\ c.parent = m.parent
    <3>1. IsNode(m) /\ GetSize(m) >= 1 /\ m.leaf
      BY <1>5, <1>6
    <3>2. PICK g : g = ValueAt(m, IF first THEN 1 ELSE GetSize(m))
      OBVIOUS
    <3>3. LET r == Lend(m, first)
          IN  /\ IsNode(r) /\ GetSize(r) = GetSize(m) - 1
              /\ Kin(r) = IF m.leaf THEN {} ELSE Kin(m) \ {g}
              /\ r.leaf = m.leaf /\ r.parent = m.parent
      BY <3>1, <3>2, LendNode
    <3>4. QED
      BY <3>1, <3>3
  <2> HIDE DEF b, c
  <2>5. QED
    BY <1>5, <2>2, <2>3, <2>4
<1>8. /\ IsNode(Q[up]) /\ GetSize(Q[up]) = GetSize(w) /\ Kin(Q[up]) = Kin(w)
      /\ ~Q[up].leaf /\ Q[up].parent = w.parent
  <2>0. PICK i \in 1 .. GetSize(w) : \E k : Q[up] = SetKey(w, i, k)
    BY <1>3 DEF LeafLent
  <2>1. PICK k : Q[up] = SetKey(w, i, k)
    BY <2>0
  <2> DEFINE a == SetKey(w, i, k)
  <2>2. Q[up] = a
    BY <2>1
  <2> HIDE DEF w
  <2>3. IsNode(a) /\ GetSize(a) = GetSize(w) /\ Kin(a) = Kin(w) /\ ~a.leaf /\ a.parent = w.parent
    BY <1>5, SetKeyNode
  <2> HIDE DEF a
  <2>4. QED
    BY <2>2, <2>3
<1>9. ASSUME NEW x \in DOMAIN P
      PROVE  Q[x].leaf = P[x].leaf /\ Q[x].parent = P[x].parent /\ Kin(Q[x]) = Kin(P[x]) /\ IsNode(Q[x])
  <2>1. CASE x \in {p, q, up}
    <3>1. Q[x].leaf \in BOOLEAN /\ P[x].leaf \in BOOLEAN
      BY <1>5, <1>7, <1>8, <2>1 DEF IsNode
    <3>2. Q[x].leaf <=> P[x].leaf
      BY <1>5, <1>7, <1>8, <2>1
    <3>3. Q[x].leaf = P[x].leaf
      BY <3>1, <3>2
    <3>4. QED
      BY <1>5, <1>7, <1>8, <2>1, <3>3
  <2>2. CASE x \notin {p, q, up}
    BY <1>1, <1>4, <2>2 DEF Pages
  <2>3. QED
    BY <2>1, <2>2
<1>10. Family(Q, root, lev)
  <2>1. SameKin(P, Q)
    BY <1>4, <1>9 DEF SameKin
  <2>2. QED
    BY <1>1, <2>1, SameFamily
<1>11. Pages(Q)
  BY <1>1, <1>4, <1>9 DEF Pages
<1>12. Sizes(Q, INVALID_PAGE_ID)
  <2>1. SUFFICES ASSUME NEW x \in DOMAIN P PROVE Filled(Q[x])
    BY <1>4 DEF Sizes
  <2>2. GetMinSize(Q[x]) = GetMinSize(P[x]) /\ GetMaxSize(Q[x]) = GetMaxSize(P[x])
    BY <1>9, SameLimits
  <2>3. CASE x = p
    BY <1>6, <1>7, <2>2, <2>3 DEF Filled
  <2>4. CASE x = q
    BY <1>6, <1>7, <2>2, <2>4 DEF Filled
  <2>5. CASE x = up
    <3>1. Filled(w)
      BY <1>1, <1>5 DEF Sizes
    <3>2. QED
      BY <1>8, <2>2, <2>5, <3>1 DEF Filled
  <2>6. CASE x \notin {p, q, up}
    <3>1. Filled(P[x])
      BY <1>1, <2>6 DEF Sizes
    <3>2. QED
      BY <1>4, <2>6, <3>1
  <2>7. QED
    BY <2>3, <2>4, <2>5, <2>6
<1>13. Good(u, lev, INVALID_PAGE_ID)
  BY <1>1, <1>4, <1>10, <1>11, <1>12 DEF Good, Shape
<1>14. QED
  BY <1>13 DEF u

\* An internal page that is one below its least size borrows a child.
LEMMA InternalLentTree ==
  ASSUME NEW t, NEW lev, NEW p, Good(t, lev, p), NEW q, NEW up \in DOMAIN t.pages,
         p \in Kin(t.pages[up]), q \in Kin(t.pages[up]), p # q, ~t.pages[p].leaf,
         GetSize(t.pages[p]) + 1 = GetMinSize(t.pages[p]), ~Fit(t.pages[p], t.pages[q])
  PROVE  Good(RedistributeInternal(t, p, q, up), lev, INVALID_PAGE_ID)
<1> DEFINE P == t.pages
           u == RedistributeInternal(t, p, q, up)
           Q == u.pages
           root == t.root_page_id_
           n == P[p]
           m == P[q]
           w == P[up]
<1>1. IsTree(t) /\ Pages(P) /\ Family(P, root, lev) /\ Sizes(P, p) /\ t.recorded \in {root, INVALID_PAGE_ID}
  BY DEF Good, Shape
<1>2. Siblings(P, p, q, up) /\ p # root /\ q # root /\ lev[p] = lev[q]
  BY <1>1, SiblingFacts
<1>3. /\ IsNode(n) /\ IsNode(m) /\ IsNode(w) /\ ~n.leaf /\ ~m.leaf /\ ~w.leaf /\ n.leaf = m.leaf
      /\ p \in DOMAIN P /\ q \in DOMAIN P /\ p # up /\ q # up
      /\ Kin(n) \intersect Kin(m) = {} /\ p \notin Kin(m) /\ q \notin Kin(m) /\ up \notin Kin(m)
  BY <1>2 DEF Siblings
<1>4. /\ GetSize(n) >= 1 /\ GetSize(m) >= 1
      /\ GetSize(m) - 1 \in GetMinSize(m) .. GetMaxSize(m)
      /\ GetSize(n) + 1 \in GetMinSize(n) .. GetMaxSize(n)
  <2>1. n.parent # INVALID_PAGE_ID /\ m.parent # INVALID_PAGE_ID
    BY <1>1, <1>2, <1>3, FamilyFacts
  <2>2. Filled(m)
    BY <1>1, <1>3 DEF Sizes
  <2>3. GetSize(n) + 1 = GetMinSize(n) /\ ~Fit(n, m)
    OBVIOUS
  <2> HIDE DEF n, m
  <2>4. QED
    BY <1>3, <2>1, <2>2, <2>3, LendSizes
<1>5. InternalLent(t, u, p, q, up)
  <2>1. Kin(m) \subseteq DOMAIN P
    BY <1>1, <1>3 DEF Family, Kids
  <2>2. QED
    BY <1>1, <1>2, <1>3, <1>4, <2>1, RedistributeInternalPages
<1> HIDE DEF u
<1>6. IsTree(u) /\ u.root_page_id_ = root /\ u.recorded = t.recorded /\ DOMAIN Q = DOMAIN P
  BY <1>5 DEF InternalLent
<1>7a. PICK first \in BOOLEAN : \E k :
       LET c == ValueAt(m, IF first THEN 1 ELSE GetSize(m))
       IN  /\ Q[p] = InternalBorrow(n, m, first, k)
           /\ Q[q] = Lend(m, first)
           /\ c \in Kin(m) /\ Moved(Q[c], P[c], p)
           /\ \A x \in DOMAIN P \ {p, q, up, c} : Q[x] = P[x]
  BY <1>5 DEF InternalLent
<1>7. PICK k :
       LET c == ValueAt(m, IF first THEN 1 ELSE GetSize(m))
       IN  /\ Q[p] = InternalBorrow(n, m, first, k)
           /\ Q[q] = Lend(m, first)
           /\ c \in Kin(m) /\ Moved(Q[c], P[c], p)
           /\ \A x \in DOMAIN P \ {p, q, up, c} : Q[x] = P[x]
  BY <1>7a
<1> DEFINE c == ValueAt(m, IF first THEN 1 ELSE GetSize(m))
<1>8. /\ c \in Kin(m) /\ Moved(Q[c], P[c], p) /\ c \in DOMAIN P /\ c \notin {p, q, up, root}
      /\ c \notin Kin(n)
      /\ \A x \in DOMAIN P \ {p, q, up, c} : Q[x] = P[x]
  <2>1. c \in Kin(m) /\ Moved(Q[c], P[c], p) /\ \A x \in DOMAIN P \ {p, q, up, c} : Q[x] = P[x]
    BY <1>7
  <2> HIDE DEF c
  <2>2. c \in DOMAIN P /\ c # root
    BY <1>1, <1>3, <2>1, FamilyFacts DEF Family, Kids
  <2>3. QED
    BY <1>3, <2>1, <2>2
<1>9. /\ IsNode(Q[p]) /\ GetSize(Q[p]) = GetSize(n) + 1 /\ Kin(Q[p]) = Kin(n) \union {c}
      /\ ~Q[p].leaf /\ Q[p].parent = n.parent
  <2> DEFINE b == InternalBorrow(n, m, first, k)
  <2>1. Q[p] = b
    BY <1>7
  <2>2. c = ValueAt(m, IF first THEN 1 ELSE GetSize(m)) /\ c \notin Kin(n)
    BY <1>8
  <2> HIDE DEF n, m, c
  <2>3. /\ IsNode(b) /\ GetSize(b) = GetSize(n) + 1 /\ Kin(b) = Kin(n) \union {c}
        /\ ~b.leaf /\ b.parent = n.parent
    BY <1>3, <1>4, <2>2, InternalBorrowNode
  <2> HIDE DEF b
  <2>4. QED
    BY <2>1, <2>3
<1>10. /\ IsNode(Q[q]) /\ GetSize(Q[q]) = GetSize(m) - 1 /\ Kin(Q[q]) = Kin(m) \ {c}
       /\ ~Q[q].leaf /\ Q[q].parent = m.parent
  <2> DEFINE b == Lend(m, first)
  <2>1. Q[q] = b
    BY <1>7
  <2>2. c = ValueAt(m, IF first THEN 1 ELSE GetSize(m))
    OBVIOUS
  <2> HIDE DEF n, m, c
  <2>3. /\ IsNode(b) /\ GetSize(b) = GetSize(m) - 1
        /\ Kin(b) = IF m.leaf THEN {} ELSE Kin(m) \ {c}
        /\ b.leaf = m.leaf /\ b.parent = m.parent
    BY <1>3, <1>4, <2>2, LendNode
  <2> HIDE DEF b
  <2>4. QED
    BY <1>3, <2>1, <2>3
<1> HIDE DEF c
<1>11. /\ IsNode(Q[up]) /\ GetSize(Q[up]) = GetSize(w) /\ Kin(Q[up]) = Kin(w)
       /\ ~Q[up].leaf /\ Q[up].parent = w.parent
  <2>0. PICK i \in 1 .. GetSize(w) : \E l : Q[up] = SetKey(w, i, l)
    BY <1>5 DEF InternalLent
  <2>1. PICK l : Q[up] = SetKey(w, i, l)
    BY <2>0
  <2> DEFINE a == SetKey(w, i, l)
  <2>2. Q[up] = a
    BY <2>1
  <2> HIDE DEF w
  <2>3. IsNode(a) /\ GetSize(a) = GetSize(w) /\ Kin(a) = Kin(w) /\ ~a.leaf /\ a.parent = w.parent
    BY <1>3, SetKeyNode
  <2> HIDE DEF a
  <2>4. QED
    BY <2>2, <2>3
<1>12. ASSUME NEW x \in DOMAIN P
       PROVE  /\ Q[x].leaf = P[x].leaf /\ IsNode(Q[x])
              /\ Q[x].parent = IF x = c THEN p ELSE P[x].parent
  <2>1. CASE x \in {p, q, up}
    <3>1. Q[x].leaf \in BOOLEAN /\ P[x].leaf \in BOOLEAN
      BY <1>3, <1>9, <1>10, <1>11, <2>1 DEF IsNode
    <3>2. Q[x].leaf <=> P[x].leaf
      BY <1>3, <1>9, <1>10, <1>11, <2>1
    <3>3. Q[x].leaf = P[x].leaf
      BY <3>1, <3>2
    <3>4. QED
      BY <1>3, <1>8, <1>9, <1>10, <1>11, <2>1, <3>3
  <2>2. CASE x \notin {p, q, up, c}
    BY <1>1, <1>8, <2>2 DEF Pages
  <2>3. CASE x = c
    BY <1>8, <2>3 DEF Moved
  <2>4. QED
    BY <2>1, <2>2, <2>3
<1>13. Family(Q, root, lev)
  <2>1. \A x \in DOMAIN P \ {p, q} : Kin(Q[x]) = Kin(P[x])
    BY <1>8, <1>11 DEF Moved
  <2>2. LendTo(P, Q, lev, p, q, c)
    BY <1>2, <1>6, <1>3, <1>8, <1>9, <1>10, <1>12, <2>1 DEF LendTo
  <2>3. QED
    BY <1>1, <2>2, LendFamily
<1>14. Pages(Q)
  BY <1>1, <1>6, <1>12 DEF Pages
<1>15. Sizes(Q, INVALID_PAGE_ID)
  <2>1. SUFFICES ASSUME NEW x \in DOMAIN P PROVE Filled(Q[x])
    BY <1>6 DEF Sizes
  <2>2. GetMinSize(Q[x]) = GetMinSize(P[x]) /\ GetMaxSize(Q[x]) = GetMaxSize(P[x])
    <3>1. Q[x].leaf = P[x].leaf
      BY <1>12
    <3>2. Q[x].parent = INVALID_PAGE_ID <=> P[x].parent = INVALID_PAGE_ID
      <4>1. p # INVALID_PAGE_ID /\ P[c].parent # INVALID_PAGE_ID
        BY <1>1, <1>3, <1>8, FamilyFacts
      <4>2. QED
        BY <1>12, <4>1
    <3>3. QED
      BY <3>1, <3>2, SameLimits
  <2>3. CASE x = p
    BY <1>4, <1>9, <2>2, <2>3 DEF Filled
  <2>4. CASE x = q
    BY <1>4, <1>10, <2>2, <2>4 DEF Filled
  <2>5. CASE x = up
    <3>1. Filled(w)
      BY <1>1, <1>3 DEF Sizes
    <3>2. QED
      BY <1>11, <2>2, <2>5, <3>1 DEF Filled
  <2>6. CASE x \notin {p, q, up}
    <3>1. Filled(P[x])
      BY <1>1, <2>6 DEF Sizes
    <3>2. GetSize(Q[x]) = GetSize(P[x])
      BY <1>8, <2>6 DEF Moved
    <3>3. QED
      BY <2>2, <3>1, <3>2 DEF Filled
  <2>7. QED
    BY <2>3, <2>4, <2>5, <2>6
<1>16. Good(u, lev, INVALID_PAGE_ID)
  BY <1>1, <1>6, <1>13, <1>14, <1>15 DEF Good, Shape
<1>17. QED
  BY <1>16 DEF u

\* A tree without pages.
Emptied(t) ==
  /\ IsTree(t) /\ t.root_page_id_ = INVALID_PAGE_ID /\ DOMAIN t.pages = {}
  /\ t.recorded \in {NoRecord, INVALID_PAGE_ID}

\* An empty root leaf ends the tree.
LEMMA AdjustRootLeaf ==
  ASSUME NEW t, NEW lev, NEW p, p = t.root_page_id_, Good(t, lev, p), t.pages[p].leaf
  PROVE  Emptied(AdjustRoot(t, p))
<1> DEFINE P == t.pages
           C == Without(P, p)
           v == [t EXCEPT !.root_page_id_ = INVALID_PAGE_ID, !.pages = C]
           u == AdjustRoot(t, p)
<1>1. IsTree(t) /\ Family(P, p, lev)
  BY DEF Good, Shape
<1>2. u = UpdateRecord(v)
  BY Zenon DEF AdjustRoot, UpdateRootPageId
<1>3. DOMAIN C = {}
  <2>1. DOMAIN P = {p}
    BY <1>1, LeafRoot
  <2>2. QED
    BY <2>1 DEF Without
<1> HIDE DEF u, C
<1>4. IsTree(v) /\ v.root_page_id_ = INVALID_PAGE_ID /\ v.pages = C
  <2>0. v = [t EXCEPT !.root_page_id_ = INVALID_PAGE_ID, !.pages = C] /\ IsTree(t)
    BY <1>1
  <2> HIDE DEF v
  <2>1. v = [root_page_id_ |-> INVALID_PAGE_ID, pages |-> C, recorded |-> t.recorded]
    BY <2>0 DEF IsTree
  <2>2. QED
    BY <2>1, MakeTree
<1> HIDE DEF v
<1>5. /\ IsTree(u) /\ u.root_page_id_ = v.root_page_id_ /\ u.pages = v.pages
      /\ u.recorded = IF v.recorded = NoRecord THEN NoRecord ELSE v.root_page_id_
  BY <1>2, <1>4, UpdateTree
<1>6. QED
  BY <1>3, <1>4, <1>5 DEF Emptied, u

\* The only child of the root becomes the root.
LEMMA AdjustRootChild ==
  ASSUME NEW t, NEW lev, NEW p, p = t.root_page_id_, Good(t, lev, p), ~t.pages[p].leaf,
         GetSize(t.pages[p]) = 1
  PROVE  Good(AdjustRoot(t, p), lev, INVALID_PAGE_ID)
<1> DEFINE P == t.pages
           n == P[p]
           c == ValueAt(n, 1)
           A == Adopt(P, {c}, INVALID_PAGE_ID)
           Q == Without(A, p)
           v == [t EXCEPT !.root_page_id_ = c, !.pages = Q]
           u == AdjustRoot(t, p)
<1>1. IsTree(t) /\ Pages(P) /\ Family(P, p, lev) /\ Sizes(P, p) /\ t.recorded \in {p, INVALID_PAGE_ID}
  BY DEF Good, Shape
<1>2. u = UpdateRecord(v)
  BY Zenon DEF AdjustRoot, UpdateRootPageId
<1>3. Kin(n) = {c}
  <2>1. Kin(n) = {n.array_[i][2] : i \in 1 .. 1}
    BY DEF Kin, Vals, GetSize
  <2>2. c = n.array_[1][2]
    BY DEF ValueAt
  <2> HIDE DEF c
  <2>3. QED
    BY <2>1, <2>2
<1> HIDE DEF c, u, Q, A
<1>4. p \in DOMAIN P /\ c \in DOMAIN P /\ c # p /\ c # INVALID_PAGE_ID /\ p # INVALID_PAGE_ID
  <2>1. p \in DOMAIN P
    BY <1>1 DEF Family
  <2>2. c \in DOMAIN P /\ c # p
    BY <1>1, <1>3, <2>1, FamilyFacts DEF Family, Kids
  <2>3. QED
    BY <1>1, <2>1, <2>2, FamilyFacts
<1>5. /\ IsTree(u) /\ u.root_page_id_ = c /\ u.pages = Q
      /\ u.recorded = IF t.recorded = NoRecord THEN NoRecord ELSE c
  <2>0. v = [t EXCEPT !.root_page_id_ = c, !.pages = Q] /\ IsTree(t)
    BY <1>1
  <2> HIDE DEF v
  <2>1. v = [root_page_id_ |-> c, pages |-> Q, recorded |-> t.recorded]
    BY <2>0 DEF IsTree
  <2>2. IsTree(v) /\ v.root_page_id_ = c /\ v.pages = Q /\ v.recorded = t.recorded
    BY <2>1, MakeTree
  <2>3. /\ IsTree(u) /\ u.root_page_id_ = v.root_page_id_ /\ u.pages = v.pages
        /\ u.recorded = IF v.recorded = NoRecord THEN NoRecord ELSE v.root_page_id_
    BY <1>2, <2>2, UpdateTree
  <2>4. QED
    BY <2>2, <2>3
<1>6. DOMAIN A = DOMAIN P /\ Moved(A[c], P[c], INVALID_PAGE_ID) /\ \A x \in DOMAIN P \ {c} : A[x] = P[x]
  <2> DEFINE S == {c}
  <2>1. A = Adopt(P, S, INVALID_PAGE_ID)
    BY DEF A
  <2>2. \A x : x \in S <=> x = c
    OBVIOUS
  <2>3. \A x \in DOMAIN P : IsNode(P[x])
    BY <1>1 DEF Pages
  <2> HIDE DEF S
  <2>4. /\ DOMAIN A = DOMAIN P
        /\ \A x \in DOMAIN P :
             /\ x \in S => Moved(A[x], P[x], INVALID_PAGE_ID)
             /\ x \notin S => A[x] = P[x]
    BY <2>1, <2>3, AdoptPages
  <2>5. QED
    BY <1>4, <2>2, <2>4
<1>7. DOMAIN Q = DOMAIN P \ {p} /\ \A x \in DOMAIN P \ {p} : Q[x] = A[x]
  BY <1>6 DEF Q, Without
<1>8. ASSUME NEW x \in DOMAIN P \ {p}
      PROVE  /\ Q[x].leaf = P[x].leaf /\ Kin(Q[x]) = Kin(P[x]) /\ GetSize(Q[x]) = GetSize(P[x])
             /\ IsNode(Q[x])
             /\ Q[x].parent = IF x = c THEN INVALID_PAGE_ID ELSE P[x].parent
  <2>1. IsNode(P[x])
    BY <1>1 DEF Pages
  <2>2. QED
    BY <1>6, <1>7, <2>1 DEF Moved
<1>9. Family(Q, c, lev)
  <2>1. RootGoes(P, Q, p, c)
    BY <1>3, <1>7, <1>8 DEF RootGoes
  <2>2. QED
    BY <1>1, <2>1, ChildRootFamily
<1>10. Pages(Q)
  <2>1. IsFiniteSet(DOMAIN Q)
    BY <1>1, <1>7, FS_RemoveElement DEF Pages
  <2>2. QED
    BY <1>1, <1>7, <1>8, <2>1 DEF Pages
<1>11. Sizes(Q, INVALID_PAGE_ID)
  <2>1. SUFFICES ASSUME NEW x \in DOMAIN P \ {p} PROVE Filled(Q[x])
    BY <1>7 DEF Sizes
  <2>2. Filled(P[x]) /\ Q[x].leaf = P[x].leaf /\ GetSize(Q[x]) = GetSize(P[x])
    BY <1>1, <1>8 DEF Sizes
  <2>3. P[x].parent # INVALID_PAGE_ID
    BY <1>1, FamilyFacts
  <2>4. CASE x = c
    <3>1. IsNode(P[x]) /\ GetSize(P[x]) \in Nat /\ P[x].leaf \in BOOLEAN
      BY <1>1, NodeSize DEF Pages
    <3>2. Q[x].parent = INVALID_PAGE_ID
      BY <1>8, <2>4
    <3>3. GetMaxSize(Q[x]) = GetMaxSize(P[x])
      BY <2>2 DEF GetMaxSize
    <3>4. GetMinSize(Q[x]) <= GetMinSize(P[x]) /\ GetMinSize(Q[x]) \in Nat
      BY <2>2, <2>3, <3>1, <3>2 DEF GetMinSize, IsRootPage
    <3>5. GetMinSize(P[x]) \in Nat /\ GetMaxSize(P[x]) \in Nat
      BY <3>1, Limits
    <3>6. QED
      BY <2>2, <3>1, <3>3, <3>4, <3>5 DEF Filled
  <2>5. CASE x # c
    <3>1. Q[x].parent = P[x].parent
      BY <1>8, <2>5
    <3>2. QED
      BY <2>2, <3>1, SameLimits DEF Filled
  <2>6. QED
    BY <2>4, <2>5
<1>12. u.recorded = c
  BY <1>1, <1>4, <1>5 DEF NoRecord, INVALID_PAGE_ID, Pages
<1>13. Good(u, lev, INVALID_PAGE_ID)
  BY <1>5, <1>9, <1>10, <1>11, <1>12 DEF Good, Shape
<1>14. QED
  BY <1>13 DEF u

\* A page with one pair too few.
IsUnder(n) == GetSize(n) + 1 = GetMinSize(n)

\* CoalesceOrRedistribute at the root.
LEMMA JoinRoot ==
  ASSUME NEW t, NEW lev, NEW p, p = t.root_page_id_, Good(t, lev, p), IsUnder(t.pages[p])
  PROVE  LET a == CoalesceOrRedistribute(t, p)
         IN  /\ a.page = INVALID_PAGE_ID
             /\ Emptied(a.tree) \/ Good(a.tree, lev, INVALID_PAGE_ID)
<1> DEFINE n == t.pages[p]
           a == CoalesceOrRedistribute(t, p)
           u == AdjustRoot(t, p)
<1>1. p \in DOMAIN t.pages /\ n.parent = INVALID_PAGE_ID /\ IsNode(n)
  BY DEF Good, Shape, Family, Parents, Pages
<1>2. a = Arrived(u, INVALID_PAGE_ID)
  BY <1>1, Zenon DEF CoalesceOrRedistribute, IsRootPage
<1>3. a.tree = u /\ a.page = INVALID_PAGE_ID
  <2> HIDE DEF a, u
  <2>1. QED
    BY <1>2 DEF Arrived
<1>4. CASE n.leaf
  <2>1. Emptied(u)
    BY <1>4, AdjustRootLeaf
  <2>2. QED
    BY <1>3, <2>1
<1>5. CASE ~n.leaf
  <2>1. GetMinSize(n) = 2
    BY <1>1, <1>5 DEF GetMinSize, IsRootPage
  <2>2. GetSize(n) \in Nat
    BY <1>1, NodeSize
  <2>3. GetSize(n) = 1
    BY <2>1, <2>2 DEF IsUnder
  <2>4. Good(u, lev, INVALID_PAGE_ID)
    BY <1>5, <2>3, AdjustRootChild
  <2>5. QED
    BY <1>3, <2>4
<1>6. QED
  BY <1>4, <1>5

\* A page below the root has a neighbor.
LEMMA Neighbor ==
  ASSUME NEW t, NEW lev, NEW p \in DOMAIN t.pages, p # t.root_page_id_, Good(t, lev, p)
  PROVE  LET up == t.pages[p].parent
             i == ValueIndex(t.pages[up], p)
             q == ValueAt(t.pages[up], IF i = 1 THEN 2 ELSE i - 1)
         IN  /\ up \in DOMAIN t.pages /\ p \in Kin(t.pages[up]) /\ q \in Kin(t.pages[up])
             /\ p # q /\ lev[up] = lev[p] + 1
<1> DEFINE P == t.pages
           up == P[p].parent
           w == P[up]
           i == ValueIndex(w, p)
           j == IF i = 1 THEN 2 ELSE i - 1
           q == ValueAt(w, j)
<1>1. Pages(P) /\ Family(P, t.root_page_id_, lev) /\ Sizes(P, p)
  BY DEF Good, Shape
<1>2. up \in DOMAIN P /\ p \in Kin(w) /\ ~w.leaf /\ IsNode(w) /\ lev[up] = lev[p] + 1
  <2>1. up \in DOMAIN P /\ p \in Kin(w)
    BY <1>1 DEF Family, Parents
  <2>2. ~w.leaf
    BY <2>1 DEF Kin
  <2>3. lev[up] = lev[p] + 1
    BY <1>1, <2>1 DEF Family, Kids
  <2>4. QED
    BY <1>1, <2>1, <2>2, <2>3 DEF Pages
<1>3. GetSize(w) \in Nat /\ GetSize(w) >= 2
  <2>1. Filled(w)
    <3>1. up # p
      BY <1>1, <1>2, FamilyFacts
    <3>2. QED
      BY <1>1, <1>2, <3>1 DEF Sizes
  <2>2. GetSize(w) \in Nat /\ w.leaf \in BOOLEAN
    BY <1>2, NodeSize
  <2>3. GetMinSize(w) \in Nat /\ GetMaxSize(w) \in Nat /\ GetMinSize(w) >= 2
    BY <1>2, <2>2, Limits
  <2>4. QED
    BY <2>1, <2>2, <2>3 DEF Filled
<1>4. i \in 1 .. GetSize(w) /\ ValueAt(w, i) = p
  BY <1>2, ValuePlace
<1> HIDE DEF i
<1>5. j \in 1 .. GetSize(w) /\ j # i
  BY <1>3, <1>4
<1> HIDE DEF j
<1>6. q \in Kin(w)
  BY <1>2, <1>5 DEF Kin, Vals, ValueAt, GetSize
<1>7. q # p
  BY <1>2, <1>4, <1>5 DEF IsNode, Uniq, ValueAt, GetSize
<1>8. QED
  BY <1>2, <1>6, <1>7 DEF i, j

\* CoalesceOrRedistribute below the root: the tree is in order again, or a pair is
\* missing in the parent.
LEMMA JoinBelow ==
  ASSUME NEW t, NEW lev, NEW p \in DOMAIN t.pages, p # t.root_page_id_, Good(t, lev, p),
         IsUnder(t.pages[p])
  PROVE  LET a == CoalesceOrRedistribute(t, p)
         IN  /\ Good(a.tree, lev, a.page)
             /\ a.page # INVALID_PAGE_ID =>
                  /\ a.page \in DOMAIN a.tree.pages
                  /\ IsUnder(a.tree.pages[a.page])
                  /\ lev[a.page] = lev[p] + 1
                  /\ a.tree.root_page_id_ = t.root_page_id_
<1> SUFFICES ASSUME NEW a, a = CoalesceOrRedistribute(t, p)
             PROVE  /\ Good(a.tree, lev, a.page)
                    /\ a.page # INVALID_PAGE_ID =>
                         /\ a.page \in DOMAIN a.tree.pages
                         /\ IsUnder(a.tree.pages[a.page])
                         /\ lev[a.page] = lev[p] + 1
                         /\ a.tree.root_page_id_ = t.root_page_id_
  OBVIOUS
<1> DEFINE P == t.pages
           n == P[p]
           up == n.parent
           w == P[up]
           i == ValueIndex(w, p)
           q == ValueAt(w, IF i = 1 THEN 2 ELSE i - 1)
           m == P[q]
           joined == IF i = 1 THEN Coalesce(t, p, q, up) ELSE Coalesce(t, q, p, up)
           lent == IF n.leaf THEN RedistributeLeaf(t, p, q, up)
                   ELSE RedistributeInternal(t, p, q, up)
           next == IF GetSize(joined.pages[up]) < GetMinSize(w) THEN up ELSE INVALID_PAGE_ID
<1>1. IsTree(t) /\ Pages(P) /\ Family(P, t.root_page_id_, lev) /\ Sizes(P, p)
  BY DEF Good, Shape
<1>2. /\ up \in DOMAIN P /\ p \in Kin(w) /\ q \in Kin(w) /\ p # q /\ lev[up] = lev[p] + 1
  BY Neighbor
<1>3. ~IsRootPage(n)
  BY <1>1, FamilyFacts DEF IsRootPage
<1>4. a = IF Fit(n, m) THEN Arrived(joined, next) ELSE Arrived(lent, INVALID_PAGE_ID)
  BY <1>3, Zenon DEF CoalesceOrRedistribute
<1> HIDE DEF q, i
<1>5. /\ Siblings(P, p, q, up) /\ p # t.root_page_id_ /\ q # t.root_page_id_
  BY <1>1, <1>2, SiblingFacts
<1>6. /\ n.leaf = m.leaf /\ IsNode(n) /\ IsNode(m) /\ IsNode(w) /\ q \in DOMAIN P /\ up # p
  BY <1>5 DEF Siblings
<1>7. CASE Fit(n, m)
  <2>1. a.tree = joined /\ a.page = next
    <3> HIDE DEF joined, next
    <3>1. a = Arrived(joined, next)
      BY <1>4, <1>7
    <3>2. QED
      BY <3>1 DEF Arrived
  <2>2. /\ GetSize(n) \in Nat /\ GetSize(m) \in Nat /\ GetSize(n) >= 1 /\ GetSize(m) >= 1
        /\ GetMaxSize(n) = GetMaxSize(m) /\ GetSize(n) + GetSize(m) <= GetMaxSize(n)
    <3>1. GetSize(n) \in Nat /\ GetSize(m) \in Nat /\ n.leaf \in BOOLEAN /\ m.leaf \in BOOLEAN
      BY <1>6, NodeSize
    <3>2. GetMaxSize(n) = GetMaxSize(m)
      BY <1>6 DEF GetMaxSize
    <3>3. GetSize(n) >= 1
      <4>1. GetMinSize(n) >= 2 /\ GetMinSize(n) \in Nat
        BY <1>3, <3>1 DEF GetMinSize
      <4>2. QED
        BY <3>1, <4>1 DEF IsUnder
    <3>4. GetSize(m) >= 1
      <4>1. Filled(m)
        BY <1>1, <1>2, <1>6 DEF Sizes
      <4>2. GetMinSize(m) \in Nat /\ GetMinSize(m) >= 1 /\ GetMaxSize(m) \in Nat
        BY <3>1, Limits
      <4>3. QED
        BY <3>1, <4>1, <4>2 DEF Filled
    <3>5. QED
      BY <1>7, <3>1, <3>2, <3>3, <3>4 DEF Fit
  <2>3. /\ Good(joined, lev, up) /\ joined.root_page_id_ = t.root_page_id_
        /\ up \in DOMAIN joined.pages
        /\ GetSize(joined.pages[up]) = GetSize(w) - 1
        /\ joined.pages[up].parent = w.parent /\ ~joined.pages[up].leaf /\ ~w.leaf
    <3>1. CASE i = 1
      <4>1. joined = Coalesce(t, p, q, up)
        BY <3>1
      <4> HIDE DEF joined
      <4>2. GetSize(P[p]) + GetSize(P[q]) <= GetMaxSize(P[p]) /\ GetSize(P[q]) >= 1
        BY <2>2
      <4> HIDE DEF up
      <4>3. QED
        BY <1>2, <4>1, <4>2, CoalesceTree
    <3>2. CASE i # 1
      <4>1. joined = Coalesce(t, q, p, up)
        BY <3>2
      <4> HIDE DEF joined
      <4>2. GetSize(P[q]) + GetSize(P[p]) <= GetMaxSize(P[q]) /\ GetSize(P[p]) >= 1
        BY <2>2
      <4> HIDE DEF up
      <4>3. QED
        BY <1>2, <4>1, <4>2, CoalesceTree
    <3>3. QED
      BY <3>1, <3>2
  <2> HIDE DEF joined
  <2> DEFINE v == joined.pages[up]
  <2>4. GetMinSize(v) = GetMinSize(w) /\ GetMaxSize(v) = GetMaxSize(w)
    BY <2>3 DEF GetMinSize, GetMaxSize, IsRootPage
  <2>5. /\ GetSize(w) \in Nat /\ GetMinSize(w) \in Nat /\ GetMaxSize(w) \in Nat
        /\ GetMinSize(w) <= GetSize(w) /\ GetSize(w) <= GetMaxSize(w)
    <3>1. GetSize(w) \in Nat /\ w.leaf \in BOOLEAN
      BY <1>6, NodeSize
    <3>2. GetMinSize(w) \in Nat /\ GetMaxSize(w) \in Nat
      BY <3>1, Limits
    <3>3. Filled(w)
      BY <1>1, <1>2, <1>6 DEF Sizes
    <3>4. QED
      BY <3>1, <3>2, <3>3 DEF Filled
  <2>6. GetSize(v) = GetSize(w) - 1
    BY <2>3
  <2>7. CASE GetSize(v) < GetMinSize(w)
    <3>1. a.page = up
      BY <2>1, <2>7
    <3>2. IsUnder(v)
      <4> HIDE DEF v, w
      <4>1. QED
        BY <2>4, <2>5, <2>6, <2>7 DEF IsUnder
    <3>3. QED
      BY <1>2, <2>1, <2>3, <3>1, <3>2
  <2>8. CASE ~(GetSize(v) < GetMinSize(w))
    <3>1. a.page = INVALID_PAGE_ID
      BY <2>1, <2>8
    <3>2. Filled(v)
      <4> HIDE DEF v, w
      <4>1. QED
        BY <2>4, <2>5, <2>6, <2>8 DEF Filled
    <3>3. Good(joined, lev, INVALID_PAGE_ID)
      <4> HIDE DEF up
      <4>1. QED
        BY <2>3, <3>2 DEF Good, Shape, Sizes
    <3>4. QED
      BY <2>1, <3>1, <3>3
  <2>9. QED
    BY <2>7, <2>8
<1>8. CASE ~Fit(n, m)
  <2>1. a.tree = lent /\ a.page = INVALID_PAGE_ID
    <3> HIDE DEF lent
    <3>1. a = Arrived(lent, INVALID_PAGE_ID)
      BY <1>4, <1>8
    <3>2. QED
      BY <3>1 DEF Arrived
  <2>2. Good(lent, lev, INVALID_PAGE_ID)
    <3>1. GetSize(P[p]) + 1 = GetMinSize(P[p]) /\ ~Fit(P[p], P[q])
      BY <1>8 DEF IsUnder
    <3>2. CASE n.leaf
      <4>1. lent = RedistributeLeaf(t, p, q, up)
        BY <3>2
      <4>2. P[p].leaf
        BY <3>2
      <4> HIDE DEF lent, up
      <4>3. QED
        BY <1>2, <3>1, <4>1, <4>2, LeafLentTree
    <3>3. CASE ~n.leaf
      <4>1. lent = RedistributeInternal(t, p, q, up)
        BY <3>3
      <4>2. ~P[p].leaf
        BY <3>3
      <4> HIDE DEF lent, up
      <4>3. QED
        BY <1>2, <3>1, <4>1, <4>2, InternalLentTree
    <3>4. QED
      BY <3>2, <3>3
  <2>3. QED
    BY <2>1, <2>2
<1>9. QED
  BY <1>7, <1>8

-----------------------------------------------------------------------------
(***************************************************************************)
(* The ways through a tree, down to a leaf and up to the root.             *)
(***************************************************************************)
\* One step of FindLeafPage from page p.
Down(t, k, leftMost, p) ==
  LET n == t.pages[p]
  IN  IF n.leaf THEN p ELSE IF leftMost THEN ValueAt(n, 1) ELSE ChildFor(n, k)

IsDescend(t, key, leftMost, n, f) ==
  f = [d \in 0 .. n |-> IF d = 0 THEN t.root_page_id_ ELSE Down(t, key, leftMost, f[d - 1])]

\* The way down exists.
LEMMA DescendExists ==
  ASSUME NEW t, NEW key, NEW leftMost, NEW n \in Nat
  PROVE  \E f : IsDescend(t, key, leftMost, n, f)
<1> DEFINE IsWay(f, k) == f = [d \in 0 .. k |-> IF d = 0 THEN t.root_page_id_ ELSE Down(t, key, leftMost, f[d - 1])]
           Bad == {k \in Nat : ~ \E f : IsWay(f, k)}
<1>1. SUFFICES Bad = {}
  BY DEF IsDescend
<1>2. SUFFICES ASSUME NEW k \in Bad, \A j \in Bad : k <= j PROVE FALSE
  <2>1. Bad \subseteq Nat
    OBVIOUS
  <2> HIDE DEF Bad
  <2>2. QED
    BY <2>1, LeastElement
<1>3. CASE k = 0
  <2>1. IsWay([d \in 0 .. 0 |-> t.root_page_id_], 0)
    OBVIOUS
  <2>2. QED
    BY <1>3, <2>1
<1>4. CASE k # 0
  <2>1. k \in Nat /\ k - 1 \in Nat /\ k - 1 \notin Bad
    <3>1. k \in Nat
      OBVIOUS
    <3> HIDE DEF Bad
    <3>2. QED
      BY <1>2, <1>4, <3>1
  <2>2. PICK f : IsWay(f, k - 1)
    BY <2>1
  <2> DEFINE g == [d \in 0 .. k |-> IF d = k THEN Down(t, key, leftMost, f[k - 1]) ELSE f[d]]
  <2>3. ASSUME NEW d \in 0 .. k
        PROVE  g[d] = IF d = 0 THEN t.root_page_id_ ELSE Down(t, key, leftMost, g[d - 1])
    <3>1. CASE d = k
      BY <1>4, <2>1, <3>1
    <3>2. CASE d # k
      <4>1. d \in 0 .. k - 1 /\ g[d] = f[d] /\ (d # 0 => g[d - 1] = f[d - 1])
        BY <2>1, <3>2
      <4>2. f[d] = IF d = 0 THEN t.root_page_id_ ELSE Down(t, key, leftMost, f[d - 1])
        BY <2>2, <4>1
      <4>3. QED
        BY <4>1, <4>2
    <3>3. QED
      BY <3>1, <3>2
  <2>4. IsWay(g, k)
    BY <2>3
  <2>5. QED
    BY <2>4
<1>5. QED
  BY <1>3, <1>4

\* The pages on the way down.
LEMMA DescendDef ==
  ASSUME NEW t, Steps(t) \in Nat, NEW key, NEW leftMost
  PROVE  LET f == Descend(t, key, leftMost)
         IN  /\ f[0] = t.root_page_id_
             /\ \A d \in 1 .. Steps(t) : f[d] = Down(t, key, leftMost, f[d - 1])
<1> DEFINE n == Steps(t)
           way == CHOOSE f : IsDescend(t, key, leftMost, n, f)
<1>1. Descend(t, key, leftMost) = way
  BY DEF Descend, IsDescend, Down
<1>2. way = [d \in 0 .. n |-> IF d = 0 THEN t.root_page_id_ ELSE Down(t, key, leftMost, way[d - 1])]
  <2> HIDE DEF n
  <2>1. n \in Nat
    BY DEF n
  <2>2. \E f : IsDescend(t, key, leftMost, n, f)
    BY <2>1, DescendExists
  <2>3. IsDescend(t, key, leftMost, n, way)
    BY <2>2, Zenon
  <2>4. QED
    BY <2>3, Zenon DEF IsDescend
<1> HIDE DEF way
<1>3. \A d \in 0 .. n : way[d] = IF d = 0 THEN t.root_page_id_ ELSE Down(t, key, leftMost, way[d - 1])
  BY <1>2
<1> HIDE DEF n
<1>4. n \in Nat
  BY DEF n
<1>5. way[0] = t.root_page_id_ /\ \A d \in 1 .. n : way[d] = Down(t, key, leftMost, way[d - 1])
  BY <1>3, <1>4
<1>6. QED
  BY <1>1, <1>5 DEF n

\* One step up from page q.
Up(t, q) ==
  IF IsRootPage(t.pages[q]) THEN q ELSE t.pages[q].parent

IsAncestors(t, p, n, f) ==
  f = [d \in 0 .. n |-> IF d = 0 THEN p ELSE Up(t, f[d - 1])]

\* The way up exists.
LEMMA AncestorsExists ==
  ASSUME NEW t, NEW p, NEW n \in Nat
  PROVE  \E f : IsAncestors(t, p, n, f)
<1> DEFINE IsWay(f, k) == f = [d \in 0 .. k |-> IF d = 0 THEN p ELSE Up(t, f[d - 1])]
           Bad == {k \in Nat : ~ \E f : IsWay(f, k)}
<1>1. SUFFICES Bad = {}
  BY DEF IsAncestors
<1>2. SUFFICES ASSUME NEW k \in Bad, \A j \in Bad : k <= j PROVE FALSE
  <2>1. Bad \subseteq Nat
    OBVIOUS
  <2> HIDE DEF Bad
  <2>2. QED
    BY <2>1, LeastElement
<1>3. CASE k = 0
  <2>1. IsWay([d \in 0 .. 0 |-> p], 0)
    OBVIOUS
  <2>2. QED
    BY <1>3, <2>1
<1>4. CASE k # 0
  <2>1. k \in Nat /\ k - 1 \in Nat /\ k - 1 \notin Bad
    <3>1. k \in Nat
      OBVIOUS
    <3> HIDE DEF Bad
    <3>2. QED
      BY <1>2, <1>4, <3>1
  <2>2. PICK f : IsWay(f, k - 1)
    BY <2>1
  <2> DEFINE g == [d \in 0 .. k |-> IF d = k THEN Up(t, f[k - 1]) ELSE f[d]]
  <2>3. ASSUME NEW d \in 0 .. k
        PROVE  g[d] = IF d = 0 THEN p ELSE Up(t, g[d - 1])
    <3>1. CASE d = k
      BY <1>4, <2>1, <3>1
    <3>2. CASE d # k
      <4>1. d \in 0 .. k - 1 /\ g[d] = f[d] /\ (d # 0 => g[d - 1] = f[d - 1])
        BY <2>1, <3>2
      <4>2. f[d] = IF d = 0 THEN p ELSE Up(t, f[d - 1])
        BY <2>2, <4>1
      <4>3. QED
        BY <4>1, <4>2
    <3>3. QED
      BY <3>1, <3>2
  <2>4. IsWay(g, k)
    BY <2>3
  <2>5. QED
    BY <2>4
<1>5. QED
  BY <1>3, <1>4

\* The pages on the way up.
LEMMA AncestorsDef ==
  ASSUME NEW t, Steps(t) \in Nat, NEW p
  PROVE  LET f == Ancestors(t, p)
         IN  /\ f[0] = p
             /\ \A d \in 1 .. Steps(t) : f[d] = Up(t, f[d - 1])
<1> DEFINE n == Steps(t)
           way == CHOOSE f : IsAncestors(t, p, n, f)
<1>1. Ancestors(t, p) = way
  BY DEF Ancestors, IsAncestors, Up
<1>2. way = [d \in 0 .. n |-> IF d = 0 THEN p ELSE Up(t, way[d - 1])]
  <2> HIDE DEF n
  <2>1. n \in Nat
    BY DEF n
  <2>2. \E f : IsAncestors(t, p, n, f)
    BY <2>1, AncestorsExists
  <2>3. IsAncestors(t, p, n, way)
    BY <2>2, Zenon
  <2>4. QED
    BY <2>3, Zenon DEF IsAncestors
<1> HIDE DEF way
<1>3. \A d \in 0 .. n : way[d] = IF d = 0 THEN p ELSE Up(t, way[d - 1])
  BY <1>2
<1> HIDE DEF n
<1>4. n \in Nat
  BY DEF n
<1>5. way[0] = p /\ \A d \in 1 .. n : way[d] = Up(t, way[d - 1])
  BY <1>3, <1>4
<1>6. QED
  BY <1>1, <1>5 DEF n

\* One call of InsertIntoParent, on the way to the root.
SplitOn(a) ==
  IF a.page = INVALID_PAGE_ID THEN a ELSE SplitIfFull(a.tree, a.page)

IsSplitUpwards(t, p, n, f) ==
  f = [d \in 0 .. n |-> IF d = 0 THEN Arrived(t, p) ELSE SplitOn(f[d - 1])]

\* The calls of InsertIntoParent, as a function.
LEMMA SplitUpwardsExists ==
  ASSUME NEW t, NEW p, NEW n \in Nat
  PROVE  \E f : IsSplitUpwards(t, p, n, f)
<1> DEFINE IsWay(f, k) == f = [d \in 0 .. k |-> IF d = 0 THEN Arrived(t, p) ELSE SplitOn(f[d - 1])]
           Bad == {k \in Nat : ~ \E f : IsWay(f, k)}
<1>1. SUFFICES Bad = {}
  BY DEF IsSplitUpwards
<1>2. SUFFICES ASSUME NEW k \in Bad, \A j \in Bad : k <= j PROVE FALSE
  <2>1. Bad \subseteq Nat
    OBVIOUS
  <2> HIDE DEF Bad
  <2>2. QED
    BY <2>1, LeastElement
<1>3. CASE k = 0
  <2>1. IsWay([d \in 0 .. 0 |-> Arrived(t, p)], 0)
    OBVIOUS
  <2>2. QED
    BY <1>3, <2>1
<1>4. CASE k # 0
  <2>1. k \in Nat /\ k - 1 \in Nat /\ k - 1 \notin Bad
    <3>1. k \in Nat
      OBVIOUS
    <3> HIDE DEF Bad
    <3>2. QED
      BY <1>2, <1>4, <3>1
  <2>2. PICK f : IsWay(f, k - 1)
    BY <2>1
  <2> DEFINE g == [d \in 0 .. k |-> IF d = k THEN SplitOn(f[k - 1]) ELSE f[d]]
  <2>3. ASSUME NEW d \in 0 .. k
        PROVE  g[d] = IF d = 0 THEN Arrived(t, p) ELSE SplitOn(g[d - 1])
    <3>1. CASE d = k
      BY <1>4, <2>1, <3>1
    <3>2. CASE d # k
      <4>1. d \in 0 .. k - 1 /\ g[d] = f[d] /\ (d # 0 => g[d - 1] = f[d - 1])
        BY <2>1, <3>2
      <4>2. f[d] = IF d = 0 THEN Arrived(t, p) ELSE SplitOn(f[d - 1])
        BY <2>2, <4>1
      <4>3. QED
        BY <4>1, <4>2
    <3>3. QED
      BY <3>1, <3>2
  <2>4. IsWay(g, k)
    BY <2>3
  <2>5. QED
    BY <2>4
<1>5. QED
  BY <1>3, <1>4

\* The calls of InsertIntoParent, one after the other.
LEMMA SplitUpwardsDef ==
  ASSUME NEW t, Steps(t) \in Nat, NEW p
  PROVE  LET f == SplitUpwards(t, p)
         IN  /\ f[0] = Arrived(t, p)
             /\ \A d \in 1 .. Steps(t) : f[d] = SplitOn(f[d - 1])
<1> DEFINE n == Steps(t)
           way == CHOOSE f : IsSplitUpwards(t, p, n, f)
<1>1. SplitUpwards(t, p) = way
  BY DEF SplitUpwards, IsSplitUpwards, SplitOn
<1>2. way = [d \in 0 .. n |-> IF d = 0 THEN Arrived(t, p) ELSE SplitOn(way[d - 1])]
  <2> HIDE DEF n
  <2>1. n \in Nat
    BY DEF n
  <2>2. \E f : IsSplitUpwards(t, p, n, f)
    BY <2>1, SplitUpwardsExists
  <2>3. IsSplitUpwards(t, p, n, way)
    BY <2>2, Zenon
  <2>4. QED
    BY <2>3, Zenon DEF IsSplitUpwards
<1> HIDE DEF way
<1>3. \A d \in 0 .. n : way[d] = IF d = 0 THEN Arrived(t, p) ELSE SplitOn(way[d - 1])
  BY <1>2
<1> HIDE DEF n
<1>4. n \in Nat
  BY DEF n
<1>5. way[0] = Arrived(t, p) /\ \A d \in 1 .. n : way[d] = SplitOn(way[d - 1])
  BY <1>3, <1>4
<1>6. QED
  BY <1>1, <1>5 DEF n

\* One call of CoalesceOrRedistribute, on the way to the root.
JoinOn(a) ==
  IF a.page = INVALID_PAGE_ID THEN a ELSE CoalesceOrRedistribute(a.tree, a.page)

IsJoinUpwards(t, p, n, f) ==
  f = [d \in 0 .. n |-> IF d = 0 THEN Arrived(t, p) ELSE JoinOn(f[d - 1])]

\* The calls of CoalesceOrRedistribute, as a function.
LEMMA JoinUpwardsExists ==
  ASSUME NEW t, NEW p, NEW n \in Nat
  PROVE  \E f : IsJoinUpwards(t, p, n, f)
<1> DEFINE IsWay(f, k) == f = [d \in 0 .. k |-> IF d = 0 THEN Arrived(t, p) ELSE JoinOn(f[d - 1])]
           Bad == {k \in Nat : ~ \E f : IsWay(f, k)}
<1>1. SUFFICES Bad = {}
  BY DEF IsJoinUpwards
<1>2. SUFFICES ASSUME NEW k \in Bad, \A j \in Bad : k <= j PROVE FALSE
  <2>1. Bad \subseteq Nat
    OBVIOUS
  <2> HIDE DEF Bad
  <2>2. QED
    BY <2>1, LeastElement
<1>3. CASE k = 0
  <2>1. IsWay([d \in 0 .. 0 |-> Arrived(t, p)], 0)
    OBVIOUS
  <2>2. QED
    BY <1>3, <2>1
<1>4. CASE k # 0
  <2>1. k \in Nat /\ k - 1 \in Nat /\ k - 1 \notin Bad
    <3>1. k \in Nat
      OBVIOUS
    <3> HIDE DEF Bad
    <3>2. QED
      BY <1>2, <1>4, <3>1
  <2>2. PICK f : IsWay(f, k - 1)
    BY <2>1
  <2> DEFINE g == [d \in 0 .. k |-> IF d = k THEN JoinOn(f[k - 1]) ELSE f[d]]
  <2>3. ASSUME NEW d \in 0 .. k
        PROVE  g[d] = IF d = 0 THEN Arrived(t, p) ELSE JoinOn(g[d - 1])
    <3>1. CASE d = k
      BY <1>4, <2>1, <3>1
    <3>2. CASE d # k
      <4>1. d \in 0 .. k - 1 /\ g[d] = f[d] /\ (d # 0 => g[d - 1] = f[d - 1])
        BY <2>1, <3>2
      <4>2. f[d] = IF d = 0 THEN Arrived(t, p) ELSE JoinOn(f[d - 1])
        BY <2>2, <4>1
      <4>3. QED
        BY <4>1, <4>2
    <3>3. QED
      BY <3>1, <3>2
  <2>4. IsWay(g, k)
    BY <2>3
  <2>5. QED
    BY <2>4
<1>5. QED
  BY <1>3, <1>4

\* The calls of CoalesceOrRedistribute, one after the other.
LEMMA JoinUpwardsDef ==
  ASSUME NEW t, Steps(t) \in Nat, NEW p
  PROVE  LET f == JoinUpwards(t, p)
         IN  /\ f[0] = Arrived(t, p)
             /\ \A d \in 1 .. Steps(t) : f[d] = JoinOn(f[d - 1])
<1> DEFINE n == Steps(t)
           way == CHOOSE f : IsJoinUpwards(t, p, n, f)
<1>1. JoinUpwards(t, p) = way
  BY DEF JoinUpwards, IsJoinUpwards, JoinOn
<1>2. way = [d \in 0 .. n |-> IF d = 0 THEN Arrived(t, p) ELSE JoinOn(way[d - 1])]
  <2> HIDE DEF n
  <2>1. n \in Nat
    BY DEF n
  <2>2. \E f : IsJoinUpwards(t, p, n, f)
    BY <2>1, JoinUpwardsExists
  <2>3. IsJoinUpwards(t, p, n, way)
    BY <2>2, Zenon
  <2>4. QED
    BY <2>3, Zenon DEF IsJoinUpwards
<1> HIDE DEF way
<1>3. \A d \in 0 .. n : way[d] = IF d = 0 THEN Arrived(t, p) ELSE JoinOn(way[d - 1])
  BY <1>2
<1> HIDE DEF n
<1>4. n \in Nat
  BY DEF n
<1>5. way[0] = Arrived(t, p) /\ \A d \in 1 .. n : way[d] = JoinOn(way[d - 1])
  BY <1>3, <1>4
<1>6. QED
  BY <1>1, <1>5 DEF n

-----------------------------------------------------------------------------
(***************************************************************************)
(* A tree is not higher than it has pages, and every way ends.             *)
(***************************************************************************)
\* Lookup of an internal page gives a child.
LEMMA ChildForKin ==
  ASSUME NEW n, IsNode(n), ~n.leaf, GetSize(n) >= 1, NEW k
  PROVE  ChildFor(n, k) \in Kin(n) /\ ValueAt(n, 1) \in Kin(n)
<1> DEFINE m == GetSize(n)
           T == {i \in 2 .. m : KeyAt(n, i) <= k}
           S == {1} \union T
<1>1. m \in Nat /\ m >= 1
  BY NodeSize
<1>2. \A j \in 1 .. m : ValueAt(n, j) \in Kin(n)
  BY DEF Kin, Vals, ValueAt, GetSize
<1>3. T \subseteq 2 .. m
  OBVIOUS
<1>4. ChildFor(n, k) = ValueAt(n, Max(S))
  BY DEF ChildFor
<1> HIDE DEF m, T
<1>5. S \subseteq 1 .. m /\ S # {}
  BY <1>1, <1>3
<1> HIDE DEF S
<1>6. Max(S) \in 1 .. m
  BY <1>1, <1>5, MaxElement
<1>7. QED
  BY <1>1, <1>2, <1>4, <1>6

\* The pages of a tree in which no page is short of pairs.
Sound(P, root, lev) == Pages(P) /\ Family(P, root, lev) /\ Sizes(P, INVALID_PAGE_ID)

\* Its internal pages have children.
LEMMA HasKin ==
  ASSUME NEW P, NEW root, NEW lev, Sound(P, root, lev), NEW p \in DOMAIN P, ~P[p].leaf
  PROVE  IsNode(P[p]) /\ GetSize(P[p]) >= 1
<1>1. IsNode(P[p]) /\ Filled(P[p])
  <2>1. p # INVALID_PAGE_ID
    BY DEF Sound, Pages, INVALID_PAGE_ID
  <2>2. QED
    BY <2>1 DEF Sound, Sizes, Pages
<1>2. GetSize(P[p]) \in Nat /\ GetMinSize(P[p]) \in Nat /\ GetMaxSize(P[p]) \in Nat /\ GetMinSize(P[p]) >= 1
  BY <1>1, NodeSize, Limits
<1>3. QED
  BY <1>1, <1>2 DEF Filled

\* There is a page on every level.
LEMMA LevelsInhabited ==
  ASSUME NEW P, NEW root, NEW lev, Sound(P, root, lev), NEW d \in 0 .. lev[root]
  PROVE  \E p \in DOMAIN P : lev[p] = d
<1> DEFINE L == lev[root]
           Bad == {e \in Nat : e <= L /\ ~ \E p \in DOMAIN P : lev[p] = L - e}
<1>1. L \in Nat /\ root \in DOMAIN P /\ \A p \in DOMAIN P : lev[p] \in Nat
  BY DEF Sound, Family, Levels
<1>2. Bad = {}
  <2>1. SUFFICES ASSUME NEW e \in Bad, \A j \in Bad : e <= j PROVE FALSE
    <3>1. Bad \subseteq Nat
      OBVIOUS
    <3> HIDE DEF Bad
    <3>2. QED
      BY <3>1, LeastElement
  <2>2. e \in Nat /\ e <= L /\ ~ \E p \in DOMAIN P : lev[p] = L - e
    OBVIOUS
  <2> HIDE DEF L
  <2>3. e # 0
    BY <1>1, <2>2 DEF L
  <2>4. e - 1 \in Nat /\ e - 1 \notin Bad /\ e - 1 <= L
    <3> HIDE DEF Bad
    <3>1. QED
      BY <1>1, <2>1, <2>2, <2>3
  <2>5. PICK p \in DOMAIN P : lev[p] = L - (e - 1)
    BY <2>4
  <2>6. lev[p] # 0
    BY <1>1, <2>2, <2>3, <2>5
  <2>7. ~P[p].leaf
    BY <2>6 DEF Sound, Family, Levels
  <2>8. PICK c : c \in Kin(P[p])
    BY <2>7, HasKin, ChildForKin
  <2>9. c \in DOMAIN P /\ lev[p] = lev[c] + 1
    BY <2>8 DEF Sound, Family, Kids
  <2>10. lev[c] \in Nat /\ lev[p] \in Nat
    BY <1>1, <2>9
  <2>11. lev[c] = L - e
    BY <1>1, <2>2, <2>5, <2>9, <2>10
  <2>12. QED
    BY <2>2, <2>9, <2>11
<1>3. L - d \notin Bad
  BY <1>2
<1>4. L - d \in Nat /\ L - d <= L /\ L - (L - d) = d
  BY <1>1
<1> HIDE DEF L
<1>5. QED
  BY <1>3, <1>4

\* The height of a tree is less than the number of its pages.
LEMMA Height ==
  ASSUME NEW P, NEW root, NEW lev, Sound(P, root, lev)
  PROVE  /\ Cardinality(DOMAIN P) \in Nat /\ lev[root] \in Nat
         /\ lev[root] < Cardinality(DOMAIN P)
<1> DEFINE L == lev[root]
           D == DOMAIN P
           c == Cardinality(D)
           I == 0 .. L
           f == [d \in I |-> CHOOSE p \in D : lev[p] = d]
<1>1. L \in Nat /\ IsFiniteSet(D) /\ c \in Nat
  <2>1. L \in Nat /\ IsFiniteSet(D)
    BY DEF Sound, Family, Levels, Pages
  <2>2. QED
    BY <2>1, FS_CardinalityType
<1>2. IsFiniteSet(I) /\ Cardinality(I) = L + 1
  <2> HIDE DEF L
  <2>1. 0 \in Int /\ L \in Int /\ ~(0 > L) /\ L - 0 + 1 = L + 1
    BY <1>1
  <2>2. IsFiniteSet(0 .. L) /\ Cardinality(0 .. L) = IF 0 > L THEN 0 ELSE L - 0 + 1
    BY <2>1, FS_Interval, Zenon
  <2>3. QED
    BY <2>1, <2>2, Zenon
<1>3. \A d \in I : \E p \in D : lev[p] = d
  BY LevelsInhabited
<1> HIDE DEF I, D, L
<1>4. \A d \in I : f[d] \in D /\ lev[f[d]] = d
  BY <1>3
<1>5. f \in [I -> D]
  <2>1. f = [d \in I |-> f[d]]
    OBVIOUS
  <2> HIDE DEF f
  <2>2. QED
    BY <1>4, <2>1
<1> HIDE DEF f, c
<1>6. ~(c < L + 1)
  <2>1. SUFFICES ASSUME c < L + 1 PROVE FALSE
    OBVIOUS
  <2>2. Cardinality(D) < Cardinality(I)
    BY <1>2, <2>1 DEF c
  <2>3. PICK x \in I, y \in I : x # y /\ f[x] = f[y]
    BY <1>1, <1>2, <1>5, <2>2, FS_PigeonHole
  <2>4. QED
    BY <1>4, <2>3
<1>7. L < c
  BY <1>1, <1>6
<1>8. QED
  BY <1>1, <1>7 DEF c, L, D

\* FindLeafPage comes to a leaf.
LEMMA FindLeaf ==
  ASSUME NEW t, NEW lev, Sound(t.pages, t.root_page_id_, lev), NEW k
  PROVE  FindLeafPage(t, k) \in DOMAIN t.pages /\ t.pages[FindLeafPage(t, k)].leaf
<1> DEFINE P == t.pages
           L == lev[t.root_page_id_]
           n == Steps(t)
           m == FALSE
           way == Descend(t, k, m)
           At(d) == way[d] \in DOMAIN P /\ (P[way[d]].leaf \/ lev[way[d]] = L - d)
           Bad == {d \in Nat : d <= n /\ ~At(d)}
<1>1. n \in Nat /\ L \in Nat /\ L < n /\ \A p \in DOMAIN P : lev[p] \in Nat
  BY Height DEF Steps, Sound, Family, Levels
<1>2. FindLeafPage(t, k) = way[n]
  BY Zenon DEF FindLeafPage
<1> HIDE DEF m
<1>3. way[0] = t.root_page_id_ /\ \A d \in 1 .. n : way[d] = Down(t, k, m, way[d - 1])
  BY <1>1, DescendDef
<1> HIDE DEF way
<1>4. Bad = {}
  <2>1. SUFFICES ASSUME NEW d \in Bad, \A j \in Bad : d <= j PROVE FALSE
    <3>1. Bad \subseteq Nat
      OBVIOUS
    <3> HIDE DEF Bad
    <3>2. QED
      BY <3>1, LeastElement
  <2>2. d \in Nat /\ d <= n /\ ~At(d)
    OBVIOUS
  <2>3. d # 0
    <3>1. At(0)
      BY <1>1, <1>3 DEF Sound, Family
    <3>2. QED
      BY <2>2, <3>1
  <2>4. d - 1 \in Nat /\ d - 1 \notin Bad /\ d - 1 <= n /\ d \in 1 .. n
    <3> HIDE DEF Bad, n
    <3>1. QED
      BY <1>1, <2>1, <2>2, <2>3
  <2>5. At(d - 1)
    BY <2>4
  <2> DEFINE q == way[d - 1]
  <2>6. way[d] = Down(t, k, m, q)
    BY <1>3, <2>4
  <2>7. q \in DOMAIN P /\ (P[q].leaf \/ lev[q] = L - (d - 1))
    BY <2>5
  <2> HIDE DEF q
  <2>8. CASE P[q].leaf
    <3>1. way[d] = q
      BY <2>6, <2>8 DEF Down
    <3>2. QED
      BY <2>2, <2>7, <2>8, <3>1
  <2>9. CASE ~P[q].leaf
    <3>1. ChildFor(P[q], k) \in Kin(P[q]) /\ ValueAt(P[q], 1) \in Kin(P[q])
      BY <2>7, <2>9, HasKin, ChildForKin
    <3>2. way[d] \in Kin(P[q])
      BY <2>6, <2>9, <3>1 DEF Down
    <3>3. way[d] \in DOMAIN P /\ lev[q] = lev[way[d]] + 1
      BY <2>7, <3>2 DEF Sound, Family, Kids
    <3>4. lev[way[d]] = L - d
      <4>1. lev[way[d]] \in Nat /\ lev[q] = L - (d - 1)
        BY <1>1, <2>7, <2>9, <3>3
      <4>2. QED
        BY <1>1, <2>2, <3>3, <4>1
    <3>5. QED
      BY <2>2, <3>3, <3>4
  <2>10. QED
    BY <2>8, <2>9
<1>5. At(n)
  BY <1>1, <1>4
<1>6. P[way[n]].leaf
  <2>1. CASE lev[way[n]] = L - n
    BY <1>1, <1>5, <2>1
  <2>2. QED
    BY <1>5, <2>1
<1>7. QED
  BY <1>2, <1>5, <1>6

\* After d calls of InsertIntoParent: the tree is in order, or a page d levels above
\* the leaves may be one over its size, in a tree of height L.
OnWayUp(a, d, L) ==
  \E h : /\ Good(a.tree, h, a.page)
         /\ a.page # INVALID_PAGE_ID =>
              /\ a.page \in DOMAIN a.tree.pages /\ IsOver(a.tree.pages[a.page])
              /\ h[a.page] = d /\ h[a.tree.root_page_id_] = L

\* A further call takes it one level up.
LEMMA SplitOnUp ==
  ASSUME last \in Nat \ {0}, NEW a, NEW d, NEW L, OnWayUp(a, d, L)
  PROVE  OnWayUp(SplitOn(a), d + 1, L)
<1>1. PICK h : /\ Good(a.tree, h, a.page)
               /\ a.page # INVALID_PAGE_ID =>
                    /\ a.page \in DOMAIN a.tree.pages /\ IsOver(a.tree.pages[a.page])
                    /\ h[a.page] = d /\ h[a.tree.root_page_id_] = L
  BY DEF OnWayUp
<1>2. CASE a.page = INVALID_PAGE_ID
  <2>1. SplitOn(a) = a
    BY <1>2 DEF SplitOn
  <2>2. QED
    BY <1>1, <1>2, <2>1 DEF OnWayUp
<1>3. CASE a.page # INVALID_PAGE_ID
  <2> DEFINE t == a.tree
             p == a.page
             b == SplitIfFull(t, p)
  <2>1. SplitOn(a) = b
    BY <1>3 DEF SplitOn
  <2>2. p \in DOMAIN t.pages /\ Good(t, h, p) /\ IsOver(t.pages[p])
    BY <1>1, <1>3
  <2>3. \E g : /\ Good(b.tree, g, b.page)
               /\ b.page # INVALID_PAGE_ID =>
                     /\ b.page \in DOMAIN b.tree.pages
                     /\ IsOver(b.tree.pages[b.page])
                     /\ g[b.page] = h[p] + 1
                     /\ g[b.tree.root_page_id_] = h[t.root_page_id_]
    BY <2>2, SplitStep
  <2> HIDE DEF b
  <2>4. QED
    BY <1>1, <1>3, <2>1, <2>3 DEF OnWayUp
<1>4. QED
  BY <1>2, <1>3

\* The calls of InsertIntoParent end with a tree that is in order.
LEMMA SplitLoop ==
  ASSUME last \in Nat \ {0}, NEW t, NEW lev, NEW p \in DOMAIN t.pages, Good(t, lev, p), IsOver(t.pages[p]),
         lev[p] = 0, Steps(t) \in Nat, lev[t.root_page_id_] < Steps(t)
  PROVE  \E h : Good(SplitUpwards(t, p)[Steps(t)].tree, h, INVALID_PAGE_ID)
<1> DEFINE L == lev[t.root_page_id_]
           n == Steps(t)
           at == SplitUpwards(t, p)
           Bad == {d \in Nat : d <= n /\ ~OnWayUp(at[d], d, L)}
<1>1. L \in Nat /\ n \in Nat /\ L < n
  BY DEF Good, Shape, Family, Levels
<1>2. at[0] = Arrived(t, p) /\ \A d \in 1 .. n : at[d] = SplitOn(at[d - 1])
  BY SplitUpwardsDef
<1> HIDE DEF at
<1>3. Bad = {}
  <2>1. SUFFICES ASSUME NEW d \in Bad, \A j \in Bad : d <= j PROVE FALSE
    <3>1. Bad \subseteq Nat
      OBVIOUS
    <3> HIDE DEF Bad
    <3>2. QED
      BY <3>1, LeastElement
  <2>2. d \in Nat /\ d <= n /\ ~OnWayUp(at[d], d, L)
    OBVIOUS
  <2>3. d # 0
    <3>1. at[0].tree = t /\ at[0].page = p
      BY <1>2 DEF Arrived
    <3>2. OnWayUp(at[0], 0, L)
      BY <3>1 DEF OnWayUp
    <3>3. QED
      BY <2>2, <3>2
  <2>4. d - 1 \in Nat /\ d - 1 \notin Bad /\ d - 1 <= n /\ d \in 1 .. n
    <3> HIDE DEF Bad, n
    <3>1. QED
      BY <1>1, <2>1, <2>2, <2>3
  <2>5. OnWayUp(at[d - 1], d - 1, L)
    BY <2>4
  <2>6. at[d] = SplitOn(at[d - 1]) /\ d - 1 + 1 = d
    BY <1>2, <2>4
  <2> DEFINE e == d - 1
             b == at[e]
  <2>7. OnWayUp(b, e, L) /\ at[d] = SplitOn(b) /\ e + 1 = d
    BY <2>5, <2>6
  <2> HIDE DEF b, e, L
  <2>8. OnWayUp(SplitOn(b), e + 1, L)
    BY <2>7, SplitOnUp
  <2>9. OnWayUp(at[d], d, L)
    BY <2>7, <2>8
  <2>10. QED
    BY <2>2, <2>9
<1>4. OnWayUp(at[n], n, L)
  BY <1>1, <1>3
<1> DEFINE a == at[n]
<1>5. PICK h : /\ Good(a.tree, h, a.page)
               /\ a.page # INVALID_PAGE_ID =>
                    /\ a.page \in DOMAIN a.tree.pages /\ IsOver(a.tree.pages[a.page])
                    /\ h[a.page] = n /\ h[a.tree.root_page_id_] = L
  BY <1>4 DEF OnWayUp
<1> HIDE DEF a
<1>6. a.page = INVALID_PAGE_ID
  <2>1. SUFFICES ASSUME a.page # INVALID_PAGE_ID PROVE FALSE
    OBVIOUS
  <2>2. h[a.page] <= h[a.tree.root_page_id_]
    BY <1>5, <2>1, FamilyFacts DEF Good, Shape
  <2>3. QED
    BY <1>1, <1>5, <2>1, <2>2
<1>7. QED
  BY <1>5, <1>6 DEF a, at

\* After d calls of CoalesceOrRedistribute: the tree is empty or in order, or a page
\* d levels above the leaves has one pair too few, in a tree of height L.
OnWayBack(a, d, L) ==
  \/ Emptied(a.tree) /\ a.page = INVALID_PAGE_ID
  \/ \E h : /\ Good(a.tree, h, a.page)
            /\ a.page # INVALID_PAGE_ID =>
                 /\ a.page \in DOMAIN a.tree.pages /\ IsUnder(a.tree.pages[a.page])
                 /\ h[a.page] = d /\ h[a.tree.root_page_id_] = L

\* A further call takes it one level up.
LEMMA JoinOnUp ==
  ASSUME NEW a, NEW d, NEW L, OnWayBack(a, d, L)
  PROVE  OnWayBack(JoinOn(a), d + 1, L)
<1>1. CASE a.page = INVALID_PAGE_ID
  <2>1. JoinOn(a) = a
    BY <1>1 DEF JoinOn
  <2>2. QED
    BY <1>1, <2>1 DEF OnWayBack
<1>2. CASE a.page # INVALID_PAGE_ID
  <2> DEFINE t == a.tree
             p == a.page
             b == CoalesceOrRedistribute(t, p)
  <2>1. JoinOn(a) = b
    BY <1>2 DEF JoinOn
  <2>2. PICK h : /\ p \in DOMAIN t.pages /\ Good(t, h, p) /\ IsUnder(t.pages[p])
                 /\ h[p] = d /\ h[t.root_page_id_] = L
    BY <1>2 DEF OnWayBack
  <2>3. CASE p = t.root_page_id_
    <3>1. b.page = INVALID_PAGE_ID /\ (Emptied(b.tree) \/ Good(b.tree, h, INVALID_PAGE_ID))
      BY <2>2, <2>3, JoinRoot
    <3> HIDE DEF b
    <3>2. QED
      BY <2>1, <3>1 DEF OnWayBack
  <2>4. CASE p # t.root_page_id_
    <3>1. /\ Good(b.tree, h, b.page)
          /\ b.page # INVALID_PAGE_ID =>
               /\ b.page \in DOMAIN b.tree.pages
               /\ IsUnder(b.tree.pages[b.page])
               /\ h[b.page] = h[p] + 1
               /\ b.tree.root_page_id_ = t.root_page_id_
      BY <2>2, <2>4, JoinBelow
    <3> HIDE DEF b
    <3>2. QED
      BY <2>1, <2>2, <3>1 DEF OnWayBack
  <2>5. QED
    BY <2>3, <2>4
<1>3. QED
  BY <1>1, <1>2

\* The calls of CoalesceOrRedistribute end with a tree that is empty or in order.
LEMMA JoinLoop ==
  ASSUME NEW t, NEW lev, NEW p \in DOMAIN t.pages, Good(t, lev, p), IsUnder(t.pages[p]),
         lev[p] = 0, Steps(t) \in Nat, lev[t.root_page_id_] < Steps(t)
  PROVE  LET u == JoinUpwards(t, p)[Steps(t)].tree
         IN  Emptied(u) \/ \E h : Good(u, h, INVALID_PAGE_ID)
<1> DEFINE L == lev[t.root_page_id_]
           n == Steps(t)
           at == JoinUpwards(t, p)
           Bad == {d \in Nat : d <= n /\ ~OnWayBack(at[d], d, L)}
<1>1. L \in Nat /\ n \in Nat /\ L < n
  BY DEF Good, Shape, Family, Levels
<1>2. at[0] = Arrived(t, p) /\ \A d \in 1 .. n : at[d] = JoinOn(at[d - 1])
  BY JoinUpwardsDef
<1> HIDE DEF at
<1>3. Bad = {}
  <2>1. SUFFICES ASSUME NEW d \in Bad, \A j \in Bad : d <= j PROVE FALSE
    <3>1. Bad \subseteq Nat
      OBVIOUS
    <3> HIDE DEF Bad
    <3>2. QED
      BY <3>1, LeastElement
  <2>2. d \in Nat /\ d <= n /\ ~OnWayBack(at[d], d, L)
    OBVIOUS
  <2>3. d # 0
    <3>1. at[0].tree = t /\ at[0].page = p
      BY <1>2 DEF Arrived
    <3>2. OnWayBack(at[0], 0, L)
      BY <3>1 DEF OnWayBack
    <3>3. QED
      BY <2>2, <3>2
  <2>4. d - 1 \in Nat /\ d - 1 \notin Bad /\ d - 1 <= n /\ d \in 1 .. n
    <3> HIDE DEF Bad, n
    <3>1. QED
      BY <1>1, <2>1, <2>2, <2>3
  <2>5. OnWayBack(at[d - 1], d - 1, L)
    BY <2>4
  <2>6. at[d] = JoinOn(at[d - 1]) /\ d - 1 + 1 = d
    BY <1>2, <2>4
  <2> DEFINE e == d - 1
             b == at[e]
  <2>7. OnWayBack(b, e, L) /\ at[d] = JoinOn(b) /\ e + 1 = d
    BY <2>5, <2>6
  <2> HIDE DEF b, e, L
  <2>8. OnWayBack(JoinOn(b), e + 1, L)
    BY <2>7, JoinOnUp
  <2>9. OnWayBack(at[d], d, L)
    BY <2>7, <2>8
  <2>10. QED
    BY <2>2, <2>9
<1>4. OnWayBack(at[n], n, L)
  BY <1>1, <1>3
<1> DEFINE a == at[n]
<1>5. CASE Emptied(a.tree)
  BY <1>5 DEF at
<1>6. CASE ~Emptied(a.tree)
  <2>1. PICK h : /\ Good(a.tree, h, a.page)
                 /\ a.page # INVALID_PAGE_ID =>
                      /\ a.page \in DOMAIN a.tree.pages /\ IsUnder(a.tree.pages[a.page])
                      /\ h[a.page] = n /\ h[a.tree.root_page_id_] = L
    BY <1>4, <1>6 DEF OnWayBack
  <2> HIDE DEF a
  <2>2. a.page = INVALID_PAGE_ID
    <3>1. SUFFICES ASSUME a.page # INVALID_PAGE_ID PROVE FALSE
      OBVIOUS
    <3>2. h[a.page] <= h[a.tree.root_page_id_]
      BY <2>1, <3>1, FamilyFacts DEF Good, Shape
    <3>3. QED
      BY <1>1, <2>1, <3>1, <3>2
  <2>3. QED
    BY <2>1, <2>2 DEF a, at
<1>7. QED
  BY <1>5, <1>6

\* A leaf lies as many levels below the root as the tree is high.
LEMMA LeafDepth ==
  ASSUME NEW t, NEW lev, Sound(t.pages, t.root_page_id_, lev),
         NEW p \in DOMAIN t.pages, t.pages[p].leaf
  PROVE  IsDepth(t, p, lev[t.root_page_id_])
<1> DEFINE P == t.pages
           root == t.root_page_id_
           L == lev[root]
           n == Steps(t)
           up == Ancestors(t, p)
           At(d) == up[d] \in DOMAIN P /\ lev[up[d]] = d
           Bad == {d \in Nat : d <= L /\ ~At(d)}
<1>1. n \in Nat /\ L \in Nat /\ L < n /\ \A q \in DOMAIN P : lev[q] \in Nat
  BY Height DEF Steps, Sound, Family, Levels
<1>2. up[0] = p /\ \A d \in 1 .. n : up[d] = Up(t, up[d - 1])
  BY <1>1, AncestorsDef
<1>3. \A q \in DOMAIN P : IsRootPage(P[q]) <=> q = root
  BY FamilyFacts DEF Sound, IsRootPage
<1>4. \A q \in DOMAIN P : q = root <=> lev[q] = L
  BY <1>1 DEF Sound, Family, Parents
<1> HIDE DEF up
<1>5. Bad = {}
  <2>1. SUFFICES ASSUME NEW d \in Bad, \A j \in Bad : d <= j PROVE FALSE
    <3>1. Bad \subseteq Nat
      OBVIOUS
    <3> HIDE DEF Bad
    <3>2. QED
      BY <3>1, LeastElement
  <2>2. d \in Nat /\ d <= L /\ ~At(d)
    OBVIOUS
  <2>3. d # 0
    <3>1. At(0)
      BY <1>1, <1>2 DEF Sound, Family, Levels
    <3>2. QED
      BY <2>2, <3>1
  <2>4. d - 1 \in Nat /\ d - 1 \notin Bad /\ d - 1 <= L /\ d \in 1 .. n /\ d - 1 # L
    <3> HIDE DEF Bad, n, L
    <3>1. QED
      BY <1>1, <2>1, <2>2, <2>3
  <2>5. At(d - 1)
    BY <2>4
  <2> DEFINE q == up[d - 1]
  <2>6. up[d] = Up(t, q) /\ q \in DOMAIN P /\ lev[q] = d - 1
    BY <1>2, <2>4, <2>5
  <2> HIDE DEF q
  <2>7. q # root
    BY <1>4, <2>4, <2>6
  <2>8. up[d] = P[q].parent
    BY <1>3, <2>6, <2>7 DEF Up
  <2>9. up[d] \in DOMAIN P /\ q \in Kin(P[up[d]])
    BY <2>6, <2>7, <2>8 DEF Sound, Family, Parents
  <2>10. lev[up[d]] = lev[q] + 1
    BY <2>9 DEF Sound, Family, Kids
  <2>11. lev[up[d]] = d
    BY <2>2, <2>6, <2>10
  <2>12. QED
    BY <2>2, <2>9, <2>11
<1>6. \A d \in 0 .. L : At(d)
  BY <1>1, <1>5
<1>7. IsRootPage(P[up[L]])
  BY <1>1, <1>3, <1>4, <1>6
<1>8. \A e \in 0 .. L - 1 : ~IsRootPage(P[up[e]])
  <2>1. SUFFICES ASSUME NEW e \in 0 .. L - 1 PROVE ~IsRootPage(P[up[e]])
    OBVIOUS
  <2>2. e \in 0 .. L /\ e # L
    BY <1>1
  <2>3. QED
    BY <1>3, <1>4, <1>6, <2>2
<1>9. QED
  BY <1>7, <1>8 DEF IsDepth, up

-----------------------------------------------------------------------------
(***************************************************************************)
(* The operations of the index.                                            *)
(***************************************************************************)
\* Page p of the tree becomes r, with the same parent and children.
Replaced(t, u, p, r) ==
  /\ IsTree(t) /\ p \in DOMAIN t.pages /\ u = [t EXCEPT !.pages[p] = r]
  /\ IsNode(r) /\ r.leaf = t.pages[p].leaf /\ r.parent = t.pages[p].parent
  /\ Kin(r) = Kin(t.pages[p])

\* Only the size of the page changes.
LEMMA ReplacePage ==
  ASSUME NEW t, NEW u, NEW p, NEW r, NEW lev, Replaced(t, u, p, r), Good(t, lev, INVALID_PAGE_ID)
  PROVE  /\ Good(u, lev, p) /\ DOMAIN u.pages = DOMAIN t.pages
         /\ u.pages[p] = r /\ \A x \in DOMAIN t.pages \ {p} : u.pages[x] = t.pages[x]
         /\ u.root_page_id_ = t.root_page_id_
         /\ Filled(r) => Good(u, lev, INVALID_PAGE_ID)
<1> DEFINE P == t.pages
           Q == u.pages
           root == t.root_page_id_
<1>1. IsTree(t) /\ Pages(P) /\ Family(P, root, lev) /\ Sizes(P, INVALID_PAGE_ID) /\ t.recorded \in {root, INVALID_PAGE_ID}
  BY DEF Good, Shape
<1>2. IsTree(u) /\ u.root_page_id_ = root /\ u.recorded = t.recorded /\ Q = [P EXCEPT ![p] = r]
  BY DEF Replaced, IsTree
<1>3. /\ DOMAIN Q = DOMAIN P /\ Q[p] = r /\ \A x \in DOMAIN P \ {p} : Q[x] = P[x]
      /\ p \in DOMAIN P
  BY <1>2 DEF Replaced
<1>4. IsNode(r) /\ r.leaf = P[p].leaf /\ r.parent = P[p].parent /\ Kin(r) = Kin(P[p])
  BY DEF Replaced
<1> HIDE DEF P, Q
<1>5. SameKin(P, Q)
  BY <1>3, <1>4 DEF SameKin
<1>6. Family(Q, root, lev)
  BY <1>1, <1>5, SameFamily
<1>7. Pages(Q)
  BY <1>1, <1>3, <1>4 DEF Pages
<1>8. Sizes(Q, p) /\ (Filled(r) => Sizes(Q, INVALID_PAGE_ID))
  <2>1. \A x \in DOMAIN P : Filled(P[x])
    BY <1>1 DEF Sizes, Pages, INVALID_PAGE_ID
  <2>2. QED
    BY <1>3, <2>1 DEF Sizes
<1>9. QED
  BY <1>1, <1>2, <1>3, <1>6, <1>7, <1>8 DEF Good, Shape, P, Q

\* A tree with pages that are all in order.
InOrder(t) == \E lev : Good(t, lev, INVALID_PAGE_ID)

\* Such a tree is not empty, and the first steps down end in a leaf.
LEMMA InOrderFacts ==
  ASSUME NEW t, NEW lev, Good(t, lev, INVALID_PAGE_ID)
  PROVE  /\ Sound(t.pages, t.root_page_id_, lev) /\ t.root_page_id_ \in DOMAIN t.pages
         /\ ~IsEmpty(t) /\ Steps(t) \in Nat /\ lev[t.root_page_id_] < Steps(t)
         /\ \A p \in DOMAIN t.pages : IsNode(t.pages[p]) /\ Filled(t.pages[p])
         /\ \A p \in DOMAIN t.pages : t.pages[p].leaf => lev[p] = 0
<1>1. Sound(t.pages, t.root_page_id_, lev) /\ t.root_page_id_ \in DOMAIN t.pages
  BY DEF Good, Shape, Sound, Family
<1>2. Steps(t) \in Nat /\ lev[t.root_page_id_] < Steps(t)
  BY <1>1, Height DEF Steps
<1>3. INVALID_PAGE_ID \notin DOMAIN t.pages
  BY <1>1 DEF Sound, Pages, INVALID_PAGE_ID
<1>4. QED
  BY <1>1, <1>2, <1>3 DEF Sound, Sizes, Pages, IsEmpty, Family, Levels

\* StartNewTree makes a tree of one leaf.
LEMMA StartTree ==
  ASSUME last \in Nat \ {0}, NEW t, Emptied(t), NEW k \in Key, NEW v \in {FirstRow, OtherRow}
  PROVE  InOrder(StartNewTree(t, k, v))
<1> DEFINE p == NewPageId(t)
           s == << <<k, v>> >>
           e == <<k, v>>
           n == NewLeaf(s)
           C == Put(t.pages, p, n)
           w == [t EXCEPT !.root_page_id_ = p, !.pages = C]
           u == StartNewTree(t, k, v)
<1>1. IsTree(t) /\ DOMAIN t.pages = {} /\ t.recorded \in {NoRecord, INVALID_PAGE_ID}
  BY DEF Emptied
<1>2. u = InsertRecord(w)
  BY Zenon DEF StartNewTree, UpdateRootPageId
<1>3. p \in Nat \ {0, 1}
  <2>1. IsFiniteSet(DOMAIN t.pages) /\ DOMAIN t.pages \subseteq Nat \ {0, 1}
    BY <1>1, FS_EmptySet
  <2>2. QED
    BY <2>1, NewPageIsNew
<1>4. IsNode(n) /\ n.leaf /\ n.parent = INVALID_PAGE_ID /\ Kin(n) = {} /\ GetSize(n) = 1
  <2>1. IsSeq(s) /\ Len(s) = 1 /\ Pairs(s)
    <3>1. e \in Pair
      BY DEF Pair
    <3>2. s = <<e>>
      OBVIOUS
    <3> HIDE DEF e, s
    <3>3. QED
      BY <3>1, <3>2, OneVals
  <2> HIDE DEF s
  <2>2. n = [leaf |-> TRUE, parent |-> INVALID_PAGE_ID, next |-> ZeroLink, array_ |-> s]
    BY DEF NewLeaf
  <2> HIDE DEF n
  <2>3. /\ n.leaf = TRUE /\ n.parent = INVALID_PAGE_ID /\ n.next = ZeroLink /\ n.array_ = s
    BY <2>2
  <2>4. IsNode(n)
    <3>1. n = [leaf |-> n.leaf, parent |-> n.parent, next |-> n.next, array_ |-> n.array_]
      BY <2>2, <2>3
    <3>2. QED
      BY <2>1, <2>3, <3>1 DEF IsNode
  <2>5. QED
    BY <2>1, <2>3, <2>4 DEF Kin, GetSize
<1> HIDE DEF p, n, u
<1>5. DOMAIN C = {p} /\ C[p] = n
  BY <1>1 DEF Put
<1> HIDE DEF C
<1>6. IsTree(w) /\ w.root_page_id_ = p /\ w.pages = C /\ w.recorded = t.recorded
  <2>1. w = [t EXCEPT !.root_page_id_ = p, !.pages = C] /\ IsTree(t)
    BY <1>1
  <2> HIDE DEF w
  <2>2. w = [root_page_id_ |-> p, pages |-> C, recorded |-> t.recorded]
    BY <2>1 DEF IsTree
  <2>3. QED
    BY <2>2, MakeTree
<1> HIDE DEF w
<1>7. /\ IsTree(u) /\ u.root_page_id_ = p /\ u.pages = C
      /\ u.recorded \in {p, INVALID_PAGE_ID}
  <2>1. CASE w.recorded = NoRecord
    <3>1. u = [w EXCEPT !.recorded = w.root_page_id_]
      BY <1>2, <2>1 DEF InsertRecord
    <3>2. QED
      BY <1>6, <3>1 DEF IsTree
  <2>2. CASE w.recorded # NoRecord
    <3>1. u = w
      BY <1>2, <2>2 DEF InsertRecord
    <3>2. QED
      BY <1>1, <1>6, <2>2, <3>1
  <2>3. QED
    BY <2>1, <2>2
<1> DEFINE lev == [x \in {p} |-> 0]
<1>8. Family(C, p, lev)
  <2>1. Levels(C, lev)
    BY <1>4, <1>5 DEF Levels
  <2>2. Parents(C, p, lev)
    BY <1>4, <1>5 DEF Parents
  <2>3. Kids(C, lev)
    BY <1>4, <1>5 DEF Kids
  <2>4. QED
    BY <1>5, <2>1, <2>2, <2>3 DEF Family
<1>9. Pages(C)
  <2>1. IsFiniteSet({p})
    BY FS_Singleton
  <2>2. IsFiniteSet(DOMAIN C)
    BY <1>5, <2>1
  <2>3. DOMAIN C \subseteq Nat \ {0, 1} /\ \A x \in DOMAIN C : IsNode(C[x])
    BY <1>3, <1>4, <1>5
  <2>4. QED
    BY <2>2, <2>3 DEF Pages
<1>10. Sizes(C, INVALID_PAGE_ID)
  <2>1. GetMinSize(n) = 1 /\ GetMaxSize(n) = leaf_max_size_
    BY <1>4 DEF GetMinSize, GetMaxSize, IsRootPage
  <2>2. Filled(n)
    BY <1>4, <2>1 DEF Filled
  <2>3. QED
    BY <1>5, <2>2 DEF Sizes
<1> HIDE DEF lev
<1>11. Good(u, lev, INVALID_PAGE_ID)
  BY <1>7, <1>8, <1>9, <1>10 DEF Good, Shape
<1>12. QED
  BY <1>11 DEF InOrder, u

\* InsertIntoLeaf leaves a tree in order.
LEMMA InsertTree ==
  ASSUME last \in Nat \ {0}, NEW t, InOrder(t), NEW k \in Key, NEW v \in {FirstRow, OtherRow}
  PROVE  InOrder(InsertIntoLeaf(t, k, v))
<1>1. PICK lev : Good(t, lev, INVALID_PAGE_ID)
  BY DEF InOrder
<1> DEFINE P == t.pages
           p == FindLeafPage(t, k)
           n == P[p]
           r == LeafInsert(n, k, v)
           s == [t EXCEPT !.pages[p] = r]
           u == InsertIntoLeaf(t, k, v)
<1>2. /\ Sound(P, t.root_page_id_, lev)
      /\ Steps(t) \in Nat /\ lev[t.root_page_id_] < Steps(t)
      /\ \A q \in DOMAIN P : IsNode(P[q]) /\ Filled(P[q])
      /\ \A q \in DOMAIN P : P[q].leaf => lev[q] = 0
  BY <1>1, InOrderFacts
<1>3. p \in DOMAIN P /\ n.leaf
  BY <1>2, FindLeaf
<1>4. u = IF Holds(n, k) THEN t ELSE SplitUpwards(s, p)[Steps(t)].tree
  BY Zenon DEF InsertIntoLeaf
<1> HIDE DEF p, u
<1>5. IsNode(n) /\ Filled(n) /\ lev[p] = 0
  BY <1>2, <1>3
<1>6. /\ IsNode(r) /\ GetSize(r) = GetSize(n) + 1 /\ Kin(r) = {}
      /\ r.leaf /\ r.parent = n.parent
  <2> HIDE DEF n
  <2>1. QED
    BY <1>3, <1>5, LeafInsertNode
<1> HIDE DEF r
<1>7. Replaced(t, s, p, r)
  <2>1. r.leaf = n.leaf
    <3>1. r.leaf \in BOOLEAN /\ n.leaf \in BOOLEAN
      BY <1>5, <1>6 DEF IsNode
    <3>2. QED
      BY <1>3, <1>6, <3>1
  <2>2. Kin(n) = {}
    BY <1>3 DEF Kin
  <2>3. IsTree(t)
    BY <1>1 DEF Good
  <2>4. QED
    BY <1>3, <1>6, <2>1, <2>2, <2>3 DEF Replaced
<1> HIDE DEF s
<1>8. /\ Good(s, lev, p) /\ DOMAIN s.pages = DOMAIN P
      /\ s.pages[p] = r /\ s.root_page_id_ = t.root_page_id_
  BY <1>1, <1>7, ReplacePage
<1>9. IsOver(r)
  <2>1. GetMinSize(r) = GetMinSize(n) /\ GetMaxSize(r) = GetMaxSize(n)
    BY <1>3, <1>6 DEF GetMinSize, GetMaxSize, IsRootPage
  <2>2. GetMinSize(n) \in Nat /\ GetMaxSize(n) \in Nat /\ GetSize(n) \in Nat
    BY <1>5, NodeSize, Limits
  <2>3. QED
    BY <1>5, <1>6, <2>1, <2>2 DEF Filled, IsOver
<1>10. Steps(s) = Steps(t)
  BY <1>8 DEF Steps
<1>11. \E h : Good(SplitUpwards(s, p)[Steps(s)].tree, h, INVALID_PAGE_ID)
  <2>1. /\ p \in DOMAIN s.pages /\ IsOver(s.pages[p]) /\ lev[p] = 0
        /\ Steps(s) \in Nat /\ lev[s.root_page_id_] < Steps(s)
    BY <1>2, <1>3, <1>5, <1>8, <1>9, <1>10
  <2>2. QED
    BY <1>8, <2>1, SplitLoop
<1>12. InOrder(u)
  <2>1. CASE Holds(n, k)
    BY <1>1, <1>4, <2>1 DEF InOrder
  <2>2. CASE ~Holds(n, k)
    <3>1. u = SplitUpwards(s, p)[Steps(s)].tree
      BY <1>4, <1>10, <2>2
    <3>2. QED
      BY <1>11, <3>1 DEF InOrder
  <2>3. QED
    BY <2>1, <2>2
<1>13. QED
  BY <1>12 DEF u

\* Remove leaves a tree in order, or empty.
LEMMA RemoveTree ==
  ASSUME NEW t, InOrder(t), NEW k
  PROVE  Emptied(AfterRemove(t, k)) \/ InOrder(AfterRemove(t, k))
<1>1. PICK lev : Good(t, lev, INVALID_PAGE_ID)
  BY DEF InOrder
<1> DEFINE P == t.pages
           p == FindLeafPage(t, k)
           n == P[p]
           up == n.parent
           a == SetKey(P[up], ValueIndex(P[up], p), KeyAt(n, 2))
           s == IF KeyIndex(n, k) = 1 /\ ~IsRootPage(n) THEN [t EXCEPT !.pages[up] = a] ELSE t
           b == RemoveAndDeleteRecord(s.pages[p], k)
           r == [s EXCEPT !.pages[p] = b]
           u == AfterRemove(t, k)
<1>2. /\ Sound(P, t.root_page_id_, lev) /\ ~IsEmpty(t)
      /\ Steps(t) \in Nat /\ lev[t.root_page_id_] < Steps(t)
      /\ \A q \in DOMAIN P : IsNode(P[q]) /\ Filled(P[q])
      /\ \A q \in DOMAIN P : P[q].leaf => lev[q] = 0
  BY <1>1, InOrderFacts
<1>3. p \in DOMAIN P /\ n.leaf
  BY <1>2, FindLeaf
<1>4. u = IF GetSize(r.pages[p]) < GetMinSize(r.pages[p])
          THEN JoinUpwards(r, p)[Steps(t)].tree ELSE r
  BY <1>2, Zenon DEF AfterRemove
<1> HIDE DEF p, u
<1>5. IsNode(n) /\ Filled(n) /\ lev[p] = 0
  BY <1>2, <1>3
<1>6. /\ Good(s, lev, INVALID_PAGE_ID) /\ DOMAIN s.pages = DOMAIN P /\ s.pages[p] = n
      /\ s.root_page_id_ = t.root_page_id_
  <2>1. CASE KeyIndex(n, k) = 1 /\ ~IsRootPage(n)
    <3>1. s = [t EXCEPT !.pages[up] = a]
      BY <2>1
    <3> HIDE DEF s
    <3>2. up \in DOMAIN P /\ p \in Kin(P[up]) /\ up # p
      <4>1. p # t.root_page_id_
        BY <1>2, <1>3, <2>1, FamilyFacts DEF Sound, IsRootPage
      <4>2. up \in DOMAIN P /\ p \in Kin(P[up])
        BY <1>2, <1>3, <4>1 DEF Sound, Family, Parents
      <4>3. QED
        BY <1>2, <1>3, <4>2, FamilyFacts DEF Sound
    <3> HIDE DEF up, n
    <3>3. IsNode(P[up]) /\ Filled(P[up]) /\ ~P[up].leaf
      BY <1>2, <3>2 DEF Kin
    <3>4. ValueIndex(P[up], p) \in 1 .. GetSize(P[up])
      BY <3>2, <3>3, ValuePlace
    <3>5. /\ IsNode(a) /\ GetSize(a) = GetSize(P[up]) /\ Kin(a) = Kin(P[up])
          /\ ~a.leaf /\ a.parent = P[up].parent
      BY <3>3, <3>4, SetKeyNode
    <3> HIDE DEF a
    <3>6. a.leaf = P[up].leaf
      <4>1. a.leaf \in BOOLEAN /\ P[up].leaf \in BOOLEAN
        BY <3>3, <3>5 DEF IsNode
      <4>2. QED
        BY <3>3, <3>5, <4>1
    <3>7. Replaced(t, s, up, a)
      <4>1. IsTree(t)
        BY <1>1 DEF Good
      <4>2. QED
        BY <3>1, <3>2, <3>5, <3>6, <4>1 DEF Replaced
    <3>8. Filled(a)
      BY <3>3, <3>5, <3>6, SameLimits DEF Filled
    <3>9. /\ DOMAIN s.pages = DOMAIN P /\ \A x \in DOMAIN P \ {up} : s.pages[x] = P[x]
          /\ s.root_page_id_ = t.root_page_id_
          /\ Good(s, lev, INVALID_PAGE_ID)
      <4>1. Replaced(t, s, up, a) /\ Good(t, lev, INVALID_PAGE_ID)
        BY <1>1, <3>7
      <4>2. DOMAIN s.pages = DOMAIN t.pages /\ s.root_page_id_ = t.root_page_id_
        BY <4>1, ReplacePage
      <4>3. ASSUME NEW x \in DOMAIN t.pages \ {up} PROVE s.pages[x] = t.pages[x]
        BY <4>1 DEF Replaced, IsTree
      <4>4. Filled(a) => Good(s, lev, INVALID_PAGE_ID)
        BY <4>1, ReplacePage
      <4>5. QED
        BY <3>8, <4>2, <4>3, <4>4
    <3>10. QED
      BY <1>3, <3>2, <3>9 DEF n
  <2>2. CASE ~(KeyIndex(n, k) = 1 /\ ~IsRootPage(n))
    <3>1. s = t
      BY <2>2
    <3> HIDE DEF s
    <3>2. QED
      BY <1>1, <3>1
  <2>3. QED
    BY <2>1, <2>2
<1>7. r = [s EXCEPT !.pages[p] = b]
  OBVIOUS
<1>8. b = RemoveAndDeleteRecord(n, k)
  BY <1>6
<1> HIDE DEF s, b, r
<1>9. /\ IsNode(b) /\ GetSize(b) \in {GetSize(n), GetSize(n) - 1} /\ Kin(b) = {}
      /\ b.leaf /\ b.parent = n.parent
  <2> DEFINE c == RemoveAndDeleteRecord(n, k)
  <2> HIDE DEF n
  <2>1. /\ IsNode(c) /\ GetSize(c) \in {GetSize(n), GetSize(n) - 1} /\ Kin(c) = {}
        /\ c.leaf /\ c.parent = n.parent
    BY <1>3, <1>5, RemoveNode
  <2>2. b = c
    BY <1>8
  <2> HIDE DEF c
  <2>3. QED
    BY <2>1, <2>2
<1>10. Replaced(s, r, p, b)
  <2>1. b.leaf = n.leaf
    <3>1. b.leaf \in BOOLEAN /\ n.leaf \in BOOLEAN
      BY <1>5, <1>9 DEF IsNode
    <3>2. QED
      BY <1>3, <1>9, <3>1
  <2>2. Kin(n) = {}
    BY <1>3 DEF Kin
  <2>3. IsTree(s)
    BY <1>6 DEF Good
  <2>4. QED
    BY <1>3, <1>6, <1>7, <1>9, <2>1, <2>2, <2>3 DEF Replaced
<1>11. /\ Good(r, lev, p) /\ DOMAIN r.pages = DOMAIN P
       /\ r.pages[p] = b /\ r.root_page_id_ = t.root_page_id_
       /\ Filled(b) => Good(r, lev, INVALID_PAGE_ID)
  <2>1. /\ Good(r, lev, p) /\ DOMAIN r.pages = DOMAIN s.pages
        /\ r.pages[p] = b /\ r.root_page_id_ = s.root_page_id_
        /\ Filled(b) => Good(r, lev, INVALID_PAGE_ID)
    BY <1>6, <1>10, ReplacePage
  <2>2. QED
    BY <1>6, <2>1
<1>12. /\ GetMinSize(b) = GetMinSize(n) /\ GetMaxSize(b) = GetMaxSize(n)
       /\ GetMinSize(n) \in Nat /\ GetMaxSize(n) \in Nat /\ GetSize(n) \in Nat
       /\ GetMinSize(n) <= GetSize(n) /\ GetSize(n) <= GetMaxSize(n)
  <2>1. GetMinSize(b) = GetMinSize(n) /\ GetMaxSize(b) = GetMaxSize(n)
    BY <1>3, <1>9 DEF GetMinSize, GetMaxSize, IsRootPage
  <2>2. GetMinSize(n) \in Nat /\ GetMaxSize(n) \in Nat /\ GetSize(n) \in Nat
    BY <1>5, NodeSize, Limits
  <2>3. QED
    BY <1>5, <2>1, <2>2 DEF Filled
<1>13. CASE GetSize(b) < GetMinSize(b)
  <2>1. IsUnder(b)
    <3> HIDE DEF n
    <3>1. QED
      BY <1>9, <1>12, <1>13 DEF IsUnder
  <2>2. Steps(r) = Steps(t)
    BY <1>11 DEF Steps
  <2>3. u = JoinUpwards(r, p)[Steps(r)].tree
    BY <1>4, <1>11, <1>13, <2>2
  <2>4. Emptied(u) \/ \E h : Good(u, h, INVALID_PAGE_ID)
    <3>1. /\ p \in DOMAIN r.pages /\ IsUnder(r.pages[p]) /\ lev[p] = 0
          /\ Steps(r) \in Nat /\ lev[r.root_page_id_] < Steps(r)
      BY <1>2, <1>3, <1>5, <1>11, <2>1, <2>2
    <3>2. QED
      BY <1>11, <2>3, <3>1, JoinLoop
  <2>5. QED
    BY <2>4 DEF InOrder, u
<1>14. CASE ~(GetSize(b) < GetMinSize(b))
  <2>1. Filled(b)
    <3> HIDE DEF n
    <3>1. QED
      BY <1>9, <1>12, <1>14 DEF Filled
  <2>2. u = r
    BY <1>4, <1>11, <1>14
  <2>3. QED
    BY <1>11, <2>1, <2>2 DEF InOrder, u
<1>15. QED
  BY <1>13, <1>14

-----------------------------------------------------------------------------
(***************************************************************************)
(* The index is empty, or its pages form a tree that is in order.          *)
(***************************************************************************)
TreeInv == last \in Nat \ {0} /\ (Emptied(tree) \/ InOrder(tree))

\* The last id that was allocated, after an operation that has made tree u.
LEMMA LastStep ==
  ASSUME last \in Nat \ {0}, NEW u, Emptied(u) \/ InOrder(u)
  PROVE  Max({last} \union DOMAIN u.pages) \in Nat \ {0}
<1>1. IsFiniteSet(DOMAIN u.pages) /\ DOMAIN u.pages \subseteq Nat \ {0, 1}
  <2>1. CASE Emptied(u)
    BY <2>1, FS_EmptySet DEF Emptied
  <2>2. CASE InOrder(u)
    BY <2>2 DEF InOrder, Good, Shape, Pages
  <2>3. QED
    BY <2>1, <2>2
<1>2. QED
  BY <1>1, LastOf

\* A new index has no pages.
LEMMA TreeInit ==
  Init => TreeInv
<1>1. ASSUME Init PROVE Emptied(tree)
  <2>1. tree = [root_page_id_ |-> INVALID_PAGE_ID, pages |-> <<>>, recorded |-> NoRecord]
    BY <1>1 DEF Init
  <2>2. IsTree(tree) /\ tree.root_page_id_ = INVALID_PAGE_ID /\ tree.pages = <<>> /\ tree.recorded = NoRecord
    BY <2>1 DEF IsTree
  <2>3. DOMAIN tree.pages = {}
    BY <2>2
  <2>4. QED
    BY <2>2, <2>3 DEF Emptied
<1>2. ASSUME Init PROVE last \in Nat \ {0}
  <2>1. last = 2 - 1
    BY <1>2 DEF Init, FirstPage
  <2>2. QED
    BY <2>1
<1>3. QED
  BY <1>1, <1>2 DEF TreeInv

\* An index that is opened again with its recorded root is the same.
LEMMA ReopenTree ==
  ASSUME TreeInv, ~Unrecorded
  PROVE  [tree EXCEPT !.root_page_id_ = GetRootId(tree)] = tree
<1>1. IsTree(tree)
  BY DEF TreeInv, Emptied, InOrder, Good
<1>2. GetRootId(tree) = tree.root_page_id_
  <2>1. CASE Emptied(tree)
    BY <2>1 DEF Emptied, GetRootId, NoRecord, INVALID_PAGE_ID
  <2>2. CASE InOrder(tree)
    <3>1. PICK lev : Good(tree, lev, INVALID_PAGE_ID)
      BY <2>2 DEF InOrder
    <3>2. ~IsEmpty(tree) /\ tree.root_page_id_ \in DOMAIN tree.pages
      BY <3>1, InOrderFacts
    <3>3. tree.root_page_id_ \in Nat
      BY <3>1, <3>2 DEF Good, Shape, Pages
    <3>4. tree.recorded = tree.root_page_id_
      BY <3>1, <3>2 DEF Good, Unrecorded
    <3>5. QED
      BY <3>3, <3>4 DEF GetRootId, NoRecord
  <2>3. QED
    BY <2>1, <2>2 DEF TreeInv
<1>3. QED
  BY <1>1, <1>2 DEF IsTree

\* Every operation keeps the tree in order.
LEMMA TreeStep ==
  TreeInv /\ [Next]_vars => TreeInv'
<1> SUFFICES ASSUME TreeInv, [Next]_vars PROVE TreeInv'
  OBVIOUS
<1>0. last \in Nat \ {0}
  BY DEF TreeInv
<1>1. ASSUME NEW k \in Key, NEW v \in {FirstRow, OtherRow}, InsertEntry(k, v) PROVE TreeInv'
  <2>1. tree' = AfterInsert(tree, k, v) /\ last' = Max({last} \union DOMAIN tree'.pages)
    BY <1>1 DEF InsertEntry
  <2>2. CASE Emptied(tree)
    <3>1. tree' = StartNewTree(tree, k, v)
      BY <2>1, <2>2 DEF AfterInsert, IsEmpty, Emptied
    <3>2. InOrder(StartNewTree(tree, k, v))
      BY <1>0, <2>2, StartTree
    <3>3. InOrder(tree')
      BY <3>1, <3>2
    <3>4. last' \in Nat \ {0}
      BY <1>0, <2>1, <3>3, LastStep
    <3>5. QED
      BY <3>3, <3>4 DEF TreeInv, InOrder
  <2>3. CASE InOrder(tree)
    <3>1. ~IsEmpty(tree)
      BY <2>3, InOrderFacts DEF InOrder
    <3>2. tree' = InsertIntoLeaf(tree, k, v)
      BY <2>1, <3>1 DEF AfterInsert
    <3>3. InOrder(InsertIntoLeaf(tree, k, v))
      BY <1>0, <2>3, InsertTree
    <3>4. InOrder(tree')
      BY <3>2, <3>3
    <3>5. last' \in Nat \ {0}
      BY <1>0, <2>1, <3>4, LastStep
    <3>6. QED
      BY <3>4, <3>5 DEF TreeInv, InOrder
  <2>4. QED
    BY <2>2, <2>3 DEF TreeInv
<1>2. ASSUME NEW k \in Key, RemoveEntry(k) PROVE TreeInv'
  <2>1. tree' = AfterRemove(tree, k) /\ last' = last
    BY <1>2 DEF RemoveEntry
  <2>2. Emptied(AfterRemove(tree, k)) \/ InOrder(AfterRemove(tree, k))
    <3>1. CASE Emptied(tree)
      <4>1. IsEmpty(tree)
        BY <3>1 DEF Emptied, IsEmpty
      <4>2. AfterRemove(tree, k) = tree
        BY <4>1, Zenon DEF AfterRemove
      <4>3. QED
        BY <3>1, <4>2
    <3>2. CASE InOrder(tree)
      BY <3>2, RemoveTree
    <3>3. QED
      BY <3>1, <3>2 DEF TreeInv
  <2>3. Emptied(tree') \/ InOrder(tree')
    BY <2>1, <2>2
  <2>4. QED
    BY <1>0, <2>1, <2>3 DEF TreeInv, InOrder, Emptied
<1>3. ASSUME ~Unrecorded, Reopen PROVE TreeInv'
  <2>1. tree' = tree /\ last' = last
    BY <1>3, ReopenTree DEF Reopen
  <2>2. QED
    BY <1>0, <2>1 DEF TreeInv, InOrder, Emptied
<1>4. CASE UNCHANGED vars
  <2>1. tree' = tree /\ last' = last
    BY <1>4 DEF vars
  <2>2. QED
    BY <1>0, <2>1 DEF TreeInv, InOrder, Emptied
<1>5. QED
  BY <1>1, <1>2, <1>3, <1>4 DEF Next

\* The invariant gives the sizes of all pages.
LEMMA TreeSizes ==
  TreeInv => Occupancy
<1>1. CASE Emptied(tree)
  BY <1>1 DEF Emptied, Occupancy
<1>2. CASE InOrder(tree)
  BY <1>2, InOrderFacts DEF InOrder, Occupancy, Filled
<1>3. QED
  BY <1>1, <1>2 DEF TreeInv

\* The invariant gives parents, children and depths.
LEMMA TreeShape ==
  TreeInv => Balanced
<1>1. CASE Emptied(tree)
  <2>1. DOMAIN tree.pages = {} /\ tree.root_page_id_ = INVALID_PAGE_ID /\ tree.recorded \in {NoRecord, INVALID_PAGE_ID}
    BY <1>1 DEF Emptied
  <2>2. TypeOK
    BY <2>1 DEF TypeOK
  <2>3. Steps(tree) = 0
    BY <2>1, FS_EmptySet DEF Steps
  <2>4. QED
    BY <2>1, <2>2, <2>3 DEF Balanced, Leaves
<1>2. CASE InOrder(tree)
  <2> DEFINE P == tree.pages
             root == tree.root_page_id_
  <2>1. PICK lev : Good(tree, lev, INVALID_PAGE_ID)
    BY <1>2 DEF InOrder
  <2>2. /\ Sound(P, root, lev) /\ root \in DOMAIN P
        /\ Steps(tree) \in Nat /\ lev[root] < Steps(tree)
        /\ \A p \in DOMAIN P : IsNode(P[p])
    BY <2>1, InOrderFacts
  <2>3. TypeOK
    <3>1. root \in DOMAIN P \union {INVALID_PAGE_ID}
      BY <2>2
    <3>2. tree.recorded \in DOMAIN P \union {INVALID_PAGE_ID, NoRecord}
      BY <2>1, <2>2 DEF Good
    <3>3. ASSUME NEW p \in DOMAIN P, NEW i \in 1 .. GetSize(P[p])
          PROVE  IF P[p].leaf THEN P[p].array_[i] \in Key \X {FirstRow, OtherRow}
                 ELSE ValueAt(P[p], i) \in DOMAIN P
      <4>1. IsNode(P[p])
        BY <2>2
      <4>2. CASE P[p].leaf
        BY <4>1, <4>2 DEF IsNode, Pairs, Pair, GetSize
      <4>3. CASE ~P[p].leaf
        <5>1. ValueAt(P[p], i) \in Kin(P[p])
          BY <4>3 DEF Kin, Vals, ValueAt, GetSize
        <5>2. QED
          BY <2>2, <4>3, <5>1 DEF Sound, Family, Kids
      <4>4. QED
        BY <4>2, <4>3
    <3>4. QED
      BY <3>1, <3>2, <3>3 DEF TypeOK
  <2>4. ASSUME NEW p \in DOMAIN P \ {root}
        PROVE  /\ P[p].parent \in DOMAIN P
               /\ LET up == P[P[p].parent]
                  IN  ~up.leaf /\ Cardinality({i \in 1 .. GetSize(up) : ValueAt(up, i) = p}) = 1
    <3> DEFINE up == P[P[p].parent]
               S == {i \in 1 .. GetSize(up) : ValueAt(up, i) = p}
               j == ValueIndex(up, p)
    <3>1. P[p].parent \in DOMAIN P /\ p \in Kin(up)
      BY <2>2 DEF Sound, Family, Parents
    <3>2. ~up.leaf /\ IsNode(up)
      BY <2>2, <3>1 DEF Kin
    <3>3. j \in 1 .. GetSize(up) /\ ValueAt(up, j) = p
      BY <3>1, <3>2, ValuePlace
    <3>4. \A i \in 1 .. GetSize(up) : ValueAt(up, i) = p => i = j
      BY <3>2, <3>3 DEF IsNode, Uniq, ValueAt, GetSize
    <3> HIDE DEF j, up
    <3>5. S = {j}
      BY <3>3, <3>4
    <3> HIDE DEF S
    <3>6. Cardinality(S) = 1
      BY <3>5, FS_Singleton
    <3>7. QED
      BY <3>1, <3>2, <3>6 DEF S, up
  <2>5. \E d \in 0 .. Steps(tree) : \A p \in Leaves : IsDepth(tree, p, d)
    <3>1. lev[root] \in 0 .. Steps(tree)
      BY <2>2, Height
    <3>2. \A p \in Leaves : IsDepth(tree, p, lev[root])
      BY <2>2, LeafDepth DEF Leaves
    <3>3. QED
      BY <3>1, <3>2
  <2>6. QED
    BY <2>3, <2>4, <2>5 DEF Balanced
<1>3. QED
  BY <1>1, <1>2 DEF TreeInv

\* The invariant holds throughout.
LEMMA TreeAlways ==
  Spec => []TreeInv
BY TreeInit, TreeStep, PTL DEF Spec

\* Whatever is inserted and removed, and however often the index is opened again,
\* no page has more pairs than fit, and none but the root fewer than half: splits,
\* merges and borrowing of Insert and Remove leave no page over or under its size.
THEOREM TreeOccupancy == Spec => []Occupancy
BY TreeAlways, TreeSizes, PTL

\* The pages always form a tree: the parent a page names lists it, once, the root,
\* its record and all children are pages that were not deleted, and all leaves are
\* equally deep.
THEOREM TreeBalanced == Spec => []Balanced
BY TreeAlways, TreeShape, PTL

-----------------------------------------------------------------------------
(***************************************************************************)
(* The search order. A page has a set of keys of its own: those that       *)
(* FindLeafPage looks for below it, or in it if it is a leaf.              *)
(***************************************************************************)
\* The rows a leaf has under a key.
Rows(n, k) == {ValueAt(n, i) : i \in {j \in 1 .. GetSize(n) : KeyAt(n, j) = k}}

\* The keys of a page ascend from place f on, and are keys of its own.
Sorted(n, f, K) ==
  /\ \A i \in f .. GetSize(n) : KeyAt(n, i) \in K
  /\ \A i, j \in f .. GetSize(n) : i < j => KeyAt(n, i) < KeyAt(n, j)

\* Lookup takes the child at place i for key k.
Place(n, k, i) ==
  /\ i \in 1 .. GetSize(n)
  /\ i >= 2 => KeyAt(n, i) <= k
  /\ \A j \in 2 .. GetSize(n) : j > i => ~(KeyAt(n, j) <= k)

\* Max of a set with a greatest element is that element.
LEMMA MaxIs ==
  ASSUME NEW S, S \subseteq Int, NEW x \in S, \A y \in S : x >= y
  PROVE  Max(S) = x
<1>1. \A z \in S : (\A y \in S : z >= y) => z = x
  <2>1. SUFFICES ASSUME NEW z \in S, \A y \in S : z >= y PROVE z = x
    OBVIOUS
  <2>2. z >= x /\ x >= z /\ x \in Int /\ z \in Int
    BY <2>1
  <2>3. QED
    BY <2>2
<1>2. QED
  BY <1>1 DEF Max

\* There is such a place.
LEMMA PlaceExists ==
  ASSUME NEW n, IsNode(n), GetSize(n) >= 1, NEW k
  PROVE  \E i : Place(n, k, i)
<1> DEFINE m == GetSize(n)
           T == {i \in 2 .. m : KeyAt(n, i) <= k}
           S == {1} \union T
           B == {m - i : i \in S}
<1>1. m \in Nat /\ m >= 1
  BY NodeSize
<1>2. S \subseteq 1 .. m /\ 1 \in S
  BY <1>1
<1>3. B \subseteq Nat /\ B # {}
  <2>1. \A i \in S : m - i \in Nat
    BY <1>1, <1>2
  <2>2. m - 1 \in B
    BY <1>2
  <2>3. QED
    BY <2>1, <2>2
<1>4. PICK b \in B : \A c \in B : b <= c
  <2> HIDE DEF B
  <2>1. QED
    BY <1>3, LeastElement
<1>5. PICK i \in S : b = m - i
  OBVIOUS
<1>6. \A j \in S : i >= j
  <2>1. \A j \in S : m - i <= m - j
    BY <1>4, <1>5
  <2>2. QED
    BY <1>1, <1>2, <2>1
<1>7. i \in 1 .. m /\ (i >= 2 => KeyAt(n, i) <= k)
  BY <1>1, <1>2
<1>8. \A j \in 2 .. m : j > i => ~(KeyAt(n, j) <= k)
  <2>1. SUFFICES ASSUME NEW j \in 2 .. m, j > i, KeyAt(n, j) <= k PROVE FALSE
    OBVIOUS
  <2>2. j \in S
    BY <2>1
  <2>3. i >= j
    BY <1>6, <2>2
  <2>4. QED
    BY <1>1, <1>7, <2>1, <2>3
<1>9. QED
  BY <1>7, <1>8 DEF Place

\* Lookup takes the child there.
LEMMA PlaceChild ==
  ASSUME NEW n, IsNode(n), NEW k, NEW i, Place(n, k, i)
  PROVE  ChildFor(n, k) = ValueAt(n, i)
<1> DEFINE m == GetSize(n)
           T == {j \in 2 .. m : KeyAt(n, j) <= k}
           S == {1} \union T
<1>1. m \in Nat
  BY NodeSize
<1>2. ChildFor(n, k) = ValueAt(n, Max(S))
  BY DEF ChildFor
<1>3. S \subseteq Int
  BY <1>1
<1>4. i \in S
  BY <1>1 DEF Place
<1>5. \A j \in S : i >= j
  BY <1>1 DEF Place
<1> HIDE DEF S
<1>6. Max(S) = i
  BY <1>3, <1>4, <1>5, MaxIs
<1>7. QED
  BY <1>2, <1>6

\* And no other place has the child that is taken.
LEMMA ChildPlace ==
  ASSUME NEW n, IsNode(n), ~n.leaf, NEW k, NEW i \in 1 .. GetSize(n), ChildFor(n, k) = ValueAt(n, i)
  PROVE  Place(n, k, i)
<1>1. GetSize(n) \in Nat /\ GetSize(n) >= 1
  BY NodeSize
<1>2. PICK j : Place(n, k, j)
  BY <1>1, PlaceExists
<1>3. ValueAt(n, j) = ValueAt(n, i)
  BY <1>2, PlaceChild
<1>4. j \in 1 .. GetSize(n)
  BY <1>2 DEF Place
<1>5. i = j
  BY <1>3, <1>4 DEF IsNode, Uniq, ValueAt, GetSize
<1>6. QED
  BY <1>2, <1>5

\* The pairs of the halves of a page.
LEMMA HalfPairs ==
  ASSUME NEW n, IsNode(n), NEW q, NEW m, m = GetSize(n) \div 2,
         NEW l, l = LowerHalf(n, q), NEW r, r = UpperHalf(n)
  PROVE  /\ IsNode(l) /\ GetSize(l) = m /\ IsNode(r) /\ GetSize(r) = GetSize(n) - m
         /\ l.leaf = n.leaf /\ r.leaf = n.leaf
         /\ m \in 0 .. GetSize(n) /\ GetSize(n) \in Nat
         /\ \A i \in 1 .. m : KeyAt(l, i) = KeyAt(n, i) /\ ValueAt(l, i) = ValueAt(n, i)
         /\ \A i \in 1 .. GetSize(n) - m :
              KeyAt(r, i) = KeyAt(n, m + i) /\ ValueAt(r, i) = ValueAt(n, m + i)
<1> DEFINE s == n.array_
           g == GetSize(n)
<1>1. IsSeq(s) /\ g = Len(s) /\ g \in Nat
  BY NodeSize
<1>2. /\ IsNode(r) /\ GetSize(r) = g - g \div 2 /\ IsNode(l) /\ GetSize(l) = g \div 2
      /\ l.leaf = n.leaf /\ r.leaf = n.leaf
      /\ l.array_ = SubSeq(s, 1, g \div 2) /\ r.array_ = SubSeq(s, g \div 2 + 1, g)
  BY HalfNodes
<1> HIDE DEF s, g
<1>3. m = g \div 2 /\ m \in 0 .. g /\ m \in Nat
  BY <1>1 DEF g
<1> HIDE DEF g
<1>4. \A i \in 1 .. m : SubSeq(s, 1, m)[i] = s[i]
  <2>1. \A i \in 1 .. m - 1 + 1 : SubSeq(s, 1, m)[i] = s[1 + i - 1]
    BY <1>1, <1>3, CutSeq
  <2>2. QED
    BY <1>3, <2>1
<1>5. \A i \in 1 .. g - m : SubSeq(s, m + 1, g)[i] = s[m + i]
  <2> DEFINE f == m + 1
  <2>1. f \in 1 .. Len(s) + 1 /\ g \in 0 .. Len(s) /\ f <= g + 1
    BY <1>1, <1>3
  <2>2. \A i \in 1 .. g - m : i \in 1 .. g - f + 1 /\ f + i - 1 = m + i
    BY <1>1, <1>3
  <2> HIDE DEF f
  <2>3. \A i \in 1 .. g - f + 1 : SubSeq(s, f, g)[i] = s[f + i - 1]
    BY <1>1, <2>1, CutSeq
  <2>4. \A i \in 1 .. g - m : SubSeq(s, f, g)[i] = s[m + i]
    BY <2>2, <2>3
  <2>5. QED
    BY <2>4 DEF f
<1>6. \A i \in 1 .. m : l.array_[i] = n.array_[i]
  BY <1>2, <1>3, <1>4 DEF s
<1>7. \A i \in 1 .. g - m : r.array_[i] = n.array_[m + i]
  BY <1>2, <1>3, <1>5 DEF s
<1>8. QED
  BY <1>1, <1>2, <1>3, <1>6, <1>7 DEF KeyAt, ValueAt, g

\* The keys of a page that is split, below and from the separator on.
Below(K, k) == {j \in K : j < k}
From(K, k) == {j \in K : ~(j < k)}

\* Split of a leaf: each key stays with its row.
LEMMA SplitLeafKeys ==
  ASSUME NEW n, IsNode(n), n.leaf, GetSize(n) >= 2, NEW K, K \subseteq Key, Sorted(n, 1, K),
         NEW q, NEW l, l = LowerHalf(n, q), NEW r, r = UpperHalf(n), NEW k, k = KeyAt(r, 1)
  PROVE  /\ k \in K /\ \E z \in K : z < k
         /\ Sorted(l, 1, Below(K, k)) /\ Sorted(r, 1, From(K, k))
         /\ \A j \in Below(K, k) : Rows(l, j) = Rows(n, j)
         /\ \A j \in From(K, k) : Rows(r, j) = Rows(n, j)
<1> DEFINE g == GetSize(n)
           m == g \div 2
<1>1. /\ GetSize(l) = m /\ GetSize(r) = g - m /\ g \in Nat
      /\ \A i \in 1 .. m : KeyAt(l, i) = KeyAt(n, i) /\ ValueAt(l, i) = ValueAt(n, i)
      /\ \A i \in 1 .. g - m : KeyAt(r, i) = KeyAt(n, m + i) /\ ValueAt(r, i) = ValueAt(n, m + i)
  BY HalfPairs
<1>2. m \in 1 .. g - 1
  BY <1>1
<1>3. /\ \A i \in 1 .. g : KeyAt(n, i) \in K /\ KeyAt(n, i) \in Int
      /\ \A i, j \in 1 .. g : i < j => KeyAt(n, i) < KeyAt(n, j)
  <2>1. K \subseteq Int
    BY KeyAssumption
  <2>2. QED
    BY <2>1 DEF Sorted
<1> HIDE DEF g, m
<1>4. k = KeyAt(n, m + 1) /\ k \in K /\ k \in Int
  BY <1>1, <1>2, <1>3
<1>5. \A i \in 1 .. m : KeyAt(n, i) < k
  BY <1>1, <1>2, <1>3, <1>4
<1>6. \A i \in m + 1 .. g : ~(KeyAt(n, i) < k)
  <2>1. SUFFICES ASSUME NEW i \in m + 1 .. g PROVE ~(KeyAt(n, i) < k)
    OBVIOUS
  <2>2. i = m + 1 \/ m + 1 < i
    BY <1>1, <1>2
  <2>3. KeyAt(n, i) = k \/ k < KeyAt(n, i)
    BY <1>1, <1>2, <1>3, <1>4, <2>2
  <2>4. KeyAt(n, i) \in Int
    BY <1>1, <1>2, <1>3
  <2>5. QED
    BY <1>4, <2>3, <2>4
<1>7. Sorted(l, 1, Below(K, k))
  BY <1>1, <1>2, <1>3, <1>5 DEF Sorted, Below
<1>8. Sorted(r, 1, From(K, k))
  <2>1. \A i \in 1 .. g - m : m + i \in m + 1 .. g /\ m + i \in 1 .. g
    BY <1>1, <1>2
  <2>2. \A i \in 1 .. g - m : KeyAt(r, i) \in From(K, k)
    BY <1>1, <1>3, <1>6, <2>1 DEF From
  <2>3. \A i, j \in 1 .. g - m : i < j => m + i < m + j
    BY <1>1, <1>2
  <2>4. \A i, j \in 1 .. g - m : i < j => KeyAt(r, i) < KeyAt(r, j)
    BY <1>1, <1>3, <2>1, <2>3
  <2>5. QED
    BY <1>1, <2>2, <2>4 DEF Sorted
<1>9. ASSUME NEW j \in Below(K, k) PROVE Rows(l, j) = Rows(n, j)
  <2>1. j < k /\ j \in Int
    BY <1>9, KeyAssumption DEF Below
  <2>2. \A i \in 1 .. g : KeyAt(n, i) = j => i \in 1 .. m
    BY <1>1, <1>2, <1>6, <2>1
  <2>3. {i \in 1 .. g : KeyAt(n, i) = j} = {i \in 1 .. m : KeyAt(l, i) = j}
    BY <1>1, <1>2, <2>2
  <2>4. \A i \in {e \in 1 .. m : KeyAt(l, e) = j} : ValueAt(l, i) = ValueAt(n, i)
    BY <1>1
  <2>5. QED
    BY <1>1, <2>3, <2>4 DEF Rows, g
<1>10. ASSUME NEW j \in From(K, k) PROVE Rows(r, j) = Rows(n, j)
  <2>1. ~(j < k) /\ j \in Int
    BY <1>10, KeyAssumption DEF From
  <2>2. ASSUME NEW v \in Rows(n, j) PROVE v \in Rows(r, j)
    <3>1. PICK i \in 1 .. g : KeyAt(n, i) = j /\ v = ValueAt(n, i)
      BY <2>2 DEF Rows, g
    <3>2. i - m \in 1 .. g - m /\ m + (i - m) = i
      BY <1>1, <1>2, <1>5, <2>1, <3>1
    <3>3. KeyAt(r, i - m) = j /\ v = ValueAt(r, i - m)
      BY <1>1, <3>1, <3>2
    <3>4. QED
      BY <1>1, <3>2, <3>3 DEF Rows
  <2>3. ASSUME NEW v \in Rows(r, j) PROVE v \in Rows(n, j)
    <3>1. PICK i \in 1 .. g - m : KeyAt(r, i) = j /\ v = ValueAt(r, i)
      BY <1>1, <2>3 DEF Rows
    <3>2. m + i \in 1 .. g
      BY <1>1, <1>2
    <3>3. KeyAt(n, m + i) = j /\ v = ValueAt(n, m + i)
      BY <1>1, <3>1
    <3>4. QED
      BY <3>2, <3>3 DEF Rows, g
  <2>4. QED
    BY <2>2, <2>3
<1>11. KeyAt(n, 1) \in K /\ KeyAt(n, 1) < k
  BY <1>1, <1>2, <1>3, <1>5
<1>12. QED
  BY <1>4, <1>7, <1>8, <1>9, <1>10, <1>11

\* Split of an internal page: each key is looked for below the same child.
LEMMA SplitSeparators ==
  ASSUME NEW n, IsNode(n), ~n.leaf, GetSize(n) >= 4, NEW K, K \subseteq Key, Sorted(n, 2, K),
         NEW q, NEW l, l = LowerHalf(n, q), NEW r, r = UpperHalf(n), NEW k, k = KeyAt(r, 1)
  PROVE  /\ k \in K /\ \E z \in K : z < k
         /\ Sorted(l, 2, Below(K, k)) /\ Sorted(r, 2, From(K, k))
         /\ \A j \in Below(K, k) : ChildFor(l, j) = ChildFor(n, j)
         /\ \A j \in From(K, k) : ChildFor(r, j) = ChildFor(n, j)
<1> DEFINE g == GetSize(n)
           m == g \div 2
<1>1. /\ GetSize(l) = m /\ GetSize(r) = g - m /\ g \in Nat
      /\ IsNode(l) /\ IsNode(r)
      /\ \A i \in 1 .. m : KeyAt(l, i) = KeyAt(n, i) /\ ValueAt(l, i) = ValueAt(n, i)
      /\ \A i \in 1 .. g - m : KeyAt(r, i) = KeyAt(n, m + i) /\ ValueAt(r, i) = ValueAt(n, m + i)
  BY HalfPairs
<1>2. m \in 2 .. g - 1
  BY <1>1
<1>3. /\ \A i \in 2 .. g : KeyAt(n, i) \in K /\ KeyAt(n, i) \in Int
      /\ \A i, j \in 2 .. g : i < j => KeyAt(n, i) < KeyAt(n, j)
  <2>1. K \subseteq Int
    BY KeyAssumption
  <2>2. QED
    BY <2>1 DEF Sorted
<1>g. GetSize(n) = g
  OBVIOUS
<1> HIDE DEF g, m
<1>4. k = KeyAt(n, m + 1) /\ k \in K /\ k \in Int
  BY <1>1, <1>2, <1>3
<1>5. \A i \in 2 .. m : KeyAt(n, i) < k
  BY <1>1, <1>2, <1>3, <1>4
<1>6. \A i \in m + 1 .. g : ~(KeyAt(n, i) < k)
  <2>1. SUFFICES ASSUME NEW i \in m + 1 .. g PROVE ~(KeyAt(n, i) < k)
    OBVIOUS
  <2>2. i = m + 1 \/ m + 1 < i
    BY <1>1, <1>2
  <2>3. KeyAt(n, i) = k \/ k < KeyAt(n, i)
    BY <1>1, <1>2, <1>3, <1>4, <2>2
  <2>4. KeyAt(n, i) \in Int
    BY <1>1, <1>2, <1>3
  <2>5. QED
    BY <1>4, <2>3, <2>4
<1>7. Sorted(l, 2, Below(K, k))
  BY <1>1, <1>2, <1>3, <1>5 DEF Sorted, Below
<1>8. Sorted(r, 2, From(K, k))
  <2>1. \A i \in 2 .. g - m : m + i \in m + 1 .. g /\ m + i \in 2 .. g /\ i \in 1 .. g - m
    BY <1>1, <1>2
  <2>2. \A i \in 2 .. g - m : KeyAt(r, i) \in From(K, k)
    BY <1>1, <1>3, <1>6, <2>1 DEF From
  <2>3. \A i, j \in 2 .. g - m : i < j => m + i < m + j
    BY <1>1, <1>2
  <2>4. \A i, j \in 2 .. g - m : i < j => KeyAt(r, i) < KeyAt(r, j)
    BY <1>1, <1>3, <2>1, <2>3
  <2>5. QED
    BY <1>1, <2>2, <2>4 DEF Sorted
<1>9. ASSUME NEW j \in Below(K, k) PROVE ChildFor(l, j) = ChildFor(n, j)
  <2>1. j < k /\ j \in Int
    BY <1>9, KeyAssumption DEF Below
  <2>2. PICK i : Place(n, j, i)
    BY <1>1, <1>2, <1>g, PlaceExists
  <2>3. i \in 1 .. g /\ (i >= 2 => KeyAt(n, i) <= j) /\ \A e \in 2 .. g : e > i => ~(KeyAt(n, e) <= j)
    BY <2>2, <1>g DEF Place
  <2>4. i \in 1 .. m
    <3>1. CASE i >= m + 1
      <4>1. KeyAt(n, i) \in Int /\ KeyAt(n, i) <= j /\ ~(KeyAt(n, i) < k)
        BY <1>1, <1>2, <1>3, <1>6, <2>3, <3>1
      <4>2. QED
        BY <1>4, <2>1, <4>1
    <3>2. QED
      BY <1>1, <1>2, <2>3, <3>1
  <2>5. Place(l, j, i)
    BY <1>1, <1>2, <2>3, <2>4 DEF Place
  <2>6. ChildFor(l, j) = ValueAt(l, i) /\ ChildFor(n, j) = ValueAt(n, i)
    BY <1>1, <2>2, <2>5, PlaceChild
  <2>7. QED
    BY <1>1, <2>4, <2>6
<1>10. ASSUME NEW j \in From(K, k) PROVE ChildFor(r, j) = ChildFor(n, j)
  <2>1. ~(j < k) /\ j \in Int
    BY <1>10, KeyAssumption DEF From
  <2>2. PICK i : Place(n, j, i)
    BY <1>1, <1>2, <1>g, PlaceExists
  <2>3. i \in 1 .. g /\ (i >= 2 => KeyAt(n, i) <= j) /\ \A e \in 2 .. g : e > i => ~(KeyAt(n, e) <= j)
    BY <2>2, <1>g DEF Place
  <2>4. i - m \in 1 .. g - m /\ m + (i - m) = i
    <3>1. KeyAt(n, m + 1) <= j
      BY <1>4, <2>1
    <3>2. ~(m + 1 > i)
      BY <1>1, <1>2, <2>3, <3>1
    <3>3. QED
      BY <1>1, <1>2, <2>3, <3>2
  <2>5. Place(r, j, i - m)
    <3>1. i - m >= 2 => KeyAt(r, i - m) <= j
      <4>1. KeyAt(r, i - m) = KeyAt(n, i) /\ i >= 2
        BY <1>1, <1>2, <2>4
      <4>2. QED
        BY <2>3, <4>1
    <3>2. ASSUME NEW e \in 2 .. g - m, e > i - m PROVE ~(KeyAt(r, e) <= j)
      <4>1. m + e \in 2 .. g /\ m + e > i /\ e \in 1 .. g - m
        BY <1>1, <1>2, <2>3, <3>2
      <4>2. KeyAt(r, e) = KeyAt(n, m + e)
        BY <1>1, <4>1
      <4>3. QED
        BY <2>3, <4>1, <4>2
    <3>3. QED
      BY <1>1, <2>4, <3>1, <3>2 DEF Place
  <2>6. ChildFor(r, j) = ValueAt(r, i - m) /\ ChildFor(n, j) = ValueAt(n, i)
    BY <1>1, <2>2, <2>5, PlaceChild
  <2>7. QED
    BY <1>1, <2>4, <2>6
<1>11. KeyAt(n, 2) \in K /\ KeyAt(n, 2) < k
  BY <1>1, <1>2, <1>3, <1>5
<1>12. QED
  BY <1>4, <1>7, <1>8, <1>9, <1>10, <1>11

\* The pairs of a page into which InsertNodeAfter puts one behind place i.
LEMMA InsertAfterPairs ==
  ASSUME NEW n, IsNode(n), ~n.leaf, NEW p \in Kin(n), NEW k, NEW q,
         NEW i, i = ValueIndex(n, p), NEW r, r = InsertNodeAfter(n, p, k, q)
  PROVE  /\ GetSize(r) = GetSize(n) + 1 /\ GetSize(n) \in Nat
         /\ i \in 1 .. GetSize(n) /\ ValueAt(n, i) = p
         /\ KeyAt(r, i + 1) = k /\ ValueAt(r, i + 1) = q
         /\ \A j \in 1 .. i : KeyAt(r, j) = KeyAt(n, j) /\ ValueAt(r, j) = ValueAt(n, j)
         /\ \A j \in i + 1 .. GetSize(n) :
              KeyAt(r, j + 1) = KeyAt(n, j) /\ ValueAt(r, j + 1) = ValueAt(n, j)
<1> DEFINE s == n.array_
           g == GetSize(n)
           e == <<k, q>>
           a == InsertAt(s, i + 1, e)
<1>1. IsSeq(s) /\ g = Len(s) /\ g \in Nat
  BY NodeSize
<1>2. i \in 1 .. g /\ ValueAt(n, i) = p
  BY ValuePlace
<1>3. r = [n EXCEPT !.array_ = a]
  BY DEF InsertNodeAfter
<1>4. e[1] = k /\ e[2] = q
  OBVIOUS
<1>5. r.array_ = a
  BY <1>3 DEF IsNode
<1>6. GetSize(n) = g
  OBVIOUS
<1> HIDE DEF e, g
<1>7. /\ Len(a) = g + 1
      /\ \A j \in 1 .. g + 1 : a[j] = IF j < i + 1 THEN s[j] ELSE IF j = i + 1 THEN e ELSE s[j - 1]
  <2> DEFINE f == i + 1
  <2>1. f \in 1 .. Len(s) + 1 /\ a = InsertAt(s, f, e)
    BY <1>1, <1>2
  <2> HIDE DEF f, a, s
  <2>2. /\ Len(a) = Len(s) + 1
        /\ \A j \in 1 .. Len(s) + 1 : a[j] = IF j < f THEN s[j] ELSE IF j = f THEN e ELSE s[j - 1]
    BY <1>1, <2>1, InsertSeq
  <2>3. QED
    BY <1>1, <2>2 DEF f
<1> HIDE DEF a
<1>8. a[i + 1] = e
  BY <1>1, <1>2, <1>7
<1>9. \A j \in 1 .. i : a[j] = s[j]
  BY <1>1, <1>2, <1>7
<1>10. \A j \in i + 1 .. g : a[j + 1] = s[j]
  <2>1. SUFFICES ASSUME NEW j \in i + 1 .. g PROVE a[j + 1] = s[j]
    OBVIOUS
  <2>2. j + 1 \in 1 .. g + 1 /\ ~(j + 1 < i + 1) /\ j + 1 # i + 1 /\ j + 1 - 1 = j
    BY <1>1, <1>2
  <2> DEFINE f == j + 1
  <2>3. a[f] = s[f - 1]
    BY <1>7, <2>2
  <2>4. QED
    BY <2>2, <2>3
<1>11. GetSize(r) = g + 1
  BY <1>5, <1>7 DEF GetSize
<1>12. QED
  BY <1>1, <1>2, <1>4, <1>5, <1>6, <1>8, <1>9, <1>10, <1>11 DEF KeyAt, ValueAt

\* A new child takes over the keys from its separator on, and no others.
LEMMA InsertSeparator ==
  ASSUME NEW n, IsNode(n), ~n.leaf, NEW K, K \subseteq Key, Sorted(n, 2, K),
         NEW p \in Kin(n), NEW q, q \notin Kin(n),
         NEW k \in K, ChildFor(n, k) = p, NEW z \in K, z < k, ChildFor(n, z) = p,
         NEW r, r = InsertNodeAfter(n, p, k, q)
  PROVE  /\ Sorted(r, 2, K)
         /\ \A j \in K : ChildFor(r, j) = IF ChildFor(n, j) = p
                                          THEN IF j < k THEN p ELSE q ELSE ChildFor(n, j)
<1> DEFINE g == GetSize(n)
           i == ValueIndex(n, p)
<1>1. /\ GetSize(r) = g + 1 /\ g \in Nat
      /\ i \in 1 .. g /\ ValueAt(n, i) = p
      /\ KeyAt(r, i + 1) = k /\ ValueAt(r, i + 1) = q
      /\ \A j \in 1 .. i : KeyAt(r, j) = KeyAt(n, j) /\ ValueAt(r, j) = ValueAt(n, j)
      /\ \A j \in i + 1 .. g : KeyAt(r, j + 1) = KeyAt(n, j) /\ ValueAt(r, j + 1) = ValueAt(n, j)
  BY InsertAfterPairs
<1>2. IsNode(r)
  BY InsertAfterNode
<1>3. K \subseteq Int
  BY KeyAssumption
<1>4. /\ \A j \in 2 .. g : KeyAt(n, j) \in K /\ KeyAt(n, j) \in Int
      /\ \A j, e \in 2 .. g : j < e => KeyAt(n, j) < KeyAt(n, e)
  BY <1>3 DEF Sorted
<1>5. GetSize(n) = g
  OBVIOUS
<1> HIDE DEF g, i
<1>6. Place(n, k, i) /\ Place(n, z, i)
  BY <1>1, <1>5, ChildPlace
<1>7. \A j \in 2 .. g : j <= i => KeyAt(n, j) < k
  <2>1. SUFFICES ASSUME NEW j \in 2 .. g, j <= i PROVE KeyAt(n, j) < k
    OBVIOUS
  <2>2. i >= 2 /\ KeyAt(n, i) <= z
    BY <1>1, <1>5, <1>6, <2>1 DEF Place
  <2>3. KeyAt(n, i) \in Int /\ KeyAt(n, j) \in Int /\ k \in Int /\ z \in Int
    BY <1>1, <1>3, <1>4, <2>2
  <2>4. KeyAt(n, j) <= KeyAt(n, i)
    <3>1. CASE j = i
      BY <2>3, <3>1
    <3>2. CASE j < i
      <4>1. KeyAt(n, j) < KeyAt(n, i)
        BY <1>1, <1>4, <2>2, <3>2
      <4>2. QED
        BY <2>3, <4>1
    <3>3. QED
      BY <1>1, <2>1, <3>1, <3>2
  <2>5. QED
    BY <2>2, <2>3, <2>4
<1>8. \A j \in 2 .. g : j > i => k < KeyAt(n, j)
  BY <1>1, <1>3, <1>4, <1>5, <1>6 DEF Place
<1> DEFINE At(j) == IF j <= i THEN j ELSE j - 1
<1>9. \A j \in 2 .. g + 1 : j # i + 1 =>
         At(j) \in 2 .. g /\ KeyAt(r, j) = KeyAt(n, At(j)) /\ ValueAt(r, j) = ValueAt(n, At(j))
  <2>1. SUFFICES ASSUME NEW j \in 2 .. g + 1, j # i + 1
                 PROVE  At(j) \in 2 .. g /\ KeyAt(r, j) = KeyAt(n, At(j)) /\ ValueAt(r, j) = ValueAt(n, At(j))
    OBVIOUS
  <2>2. CASE j <= i
    BY <1>1, <2>2
  <2>3. CASE ~(j <= i)
    <3> DEFINE e == j - 1
    <3>1. e \in i + 1 .. g /\ e + 1 = j /\ At(j) = e /\ e \in 2 .. g
      BY <1>1, <2>1, <2>3
    <3> HIDE DEF e, At
    <3>2. KeyAt(r, e + 1) = KeyAt(n, e) /\ ValueAt(r, e + 1) = ValueAt(n, e)
      BY <1>1, <3>1
    <3>3. QED
      BY <3>1, <3>2
  <2>4. QED
    BY <2>2, <2>3
<1>10. Sorted(r, 2, K)
  <2>1. ASSUME NEW j \in 2 .. g + 1 PROVE KeyAt(r, j) \in K
    BY <1>1, <1>4, <1>9
  <2>2. ASSUME NEW j \in 2 .. g + 1, NEW e \in 2 .. g + 1, j < e PROVE KeyAt(r, j) < KeyAt(r, e)
    <3>1. CASE j = i + 1
      <4>1. e # i + 1 /\ At(e) > i
        BY <1>1, <2>2, <3>1
      <4>2. QED
        BY <1>1, <1>8, <1>9, <3>1, <4>1
    <3>2. CASE e = i + 1
      <4>1. j # i + 1 /\ At(j) <= i
        BY <1>1, <2>2, <3>2
      <4>2. QED
        BY <1>1, <1>7, <1>9, <3>2, <4>1
    <3>3. CASE j # i + 1 /\ e # i + 1
      <4>1. At(j) < At(e)
        BY <1>1, <2>2, <3>3
      <4>2. QED
        BY <1>4, <1>9, <3>3, <4>1
    <3>4. QED
      BY <3>1, <3>2, <3>3
  <2>3. QED
    BY <1>1, <2>1, <2>2 DEF Sorted
<1>11. ASSUME NEW j \in K
       PROVE  ChildFor(r, j) = IF ChildFor(n, j) = p
                               THEN IF j < k THEN p ELSE q ELSE ChildFor(n, j)
  <2>1. j \in Int /\ k \in Int
    BY <1>3
  <2>2. PICK e : Place(n, j, e)
    BY <1>1, <1>5, PlaceExists
  <2>3. e \in 1 .. g /\ (e >= 2 => KeyAt(n, e) <= j) /\ \A f \in 2 .. g : f > e => ~(KeyAt(n, f) <= j)
    BY <1>5, <2>2 DEF Place
  <2>4. ChildFor(n, j) = ValueAt(n, e)
    BY <2>2, PlaceChild
  <2>5. ChildFor(n, j) = p <=> e = i
    <3>1. ValueAt(n, e) = ValueAt(n, i) => e = i
      BY <1>1, <1>5, <2>3 DEF IsNode, Uniq, ValueAt, GetSize
    <3>2. QED
      BY <1>1, <2>4, <3>1
  <2>6. CASE e < i
    <3>1. ~(KeyAt(n, i) <= j) /\ KeyAt(n, i) < k /\ KeyAt(n, i) \in Int /\ i >= 2
      BY <1>1, <1>4, <1>7, <2>3, <2>6
    <3>2. ~(k <= j)
      BY <2>1, <3>1
    <3>3. \A f \in 2 .. g + 1 : f > e => ~(KeyAt(r, f) <= j)
      <4>1. SUFFICES ASSUME NEW f \in 2 .. g + 1, f > e PROVE ~(KeyAt(r, f) <= j)
        OBVIOUS
      <4>2. CASE f = i + 1
        BY <1>1, <3>2, <4>2
      <4>3. CASE f # i + 1
        <5>1. At(f) \in 2 .. g /\ At(f) > e /\ KeyAt(r, f) = KeyAt(n, At(f))
          BY <1>1, <1>9, <2>3, <2>6, <4>1, <4>3
        <5>2. QED
          BY <2>3, <5>1
      <4>4. QED
        BY <4>2, <4>3
    <3>4. Place(r, j, e)
      BY <1>1, <2>3, <2>6, <3>3 DEF Place
    <3>5. ChildFor(r, j) = ValueAt(r, e) /\ ValueAt(r, e) = ValueAt(n, e)
      BY <1>1, <1>2, <2>3, <2>6, <3>4, PlaceChild
    <3>6. QED
      BY <1>1, <2>3, <2>4, <2>5, <2>6, <3>5
  <2>7. CASE e = i
    <3>1. \A f \in 2 .. g + 1 : f > i + 1 => ~(KeyAt(r, f) <= j)
      <4>1. SUFFICES ASSUME NEW f \in 2 .. g + 1, f > i + 1 PROVE ~(KeyAt(r, f) <= j)
        OBVIOUS
      <4>2. At(f) \in 2 .. g /\ At(f) > e /\ KeyAt(r, f) = KeyAt(n, At(f))
        BY <1>1, <1>9, <2>7, <4>1
      <4>3. QED
        BY <2>3, <4>2
    <3>2. CASE j < k
      <4>1. ~(k <= j)
        BY <2>1, <3>2
      <4>2. \A f \in 2 .. g + 1 : f > i => ~(KeyAt(r, f) <= j)
        BY <1>1, <3>1, <4>1
      <4>3. Place(r, j, i)
        BY <1>1, <2>3, <2>7, <4>2 DEF Place
      <4>4. ChildFor(r, j) = p
        BY <1>1, <1>2, <4>3, PlaceChild
      <4>5. QED
        BY <2>5, <2>7, <3>2, <4>4
    <3>3. CASE ~(j < k)
      <4>1. k <= j /\ i + 1 \in 1 .. g + 1
        BY <1>1, <2>1, <3>3
      <4>2. Place(r, j, i + 1)
        BY <1>1, <3>1, <4>1 DEF Place
      <4>3. ChildFor(r, j) = q
        BY <1>1, <1>2, <4>2, PlaceChild
      <4>4. QED
        BY <2>5, <2>7, <3>3, <4>3
    <3>4. QED
      BY <3>2, <3>3
  <2>8. CASE e > i
    <3>1. \A f \in 2 .. g + 1 : f > e + 1 => ~(KeyAt(r, f) <= j)
      <4>1. SUFFICES ASSUME NEW f \in 2 .. g + 1, f > e + 1 PROVE ~(KeyAt(r, f) <= j)
        OBVIOUS
      <4>2. At(f) \in 2 .. g /\ At(f) > e /\ KeyAt(r, f) = KeyAt(n, At(f))
        BY <1>1, <1>9, <2>3, <2>8, <4>1
      <4>3. QED
        BY <2>3, <4>2
    <3>2. e \in i + 1 .. g /\ e + 1 \in 1 .. g + 1 /\ e >= 2
      BY <1>1, <2>3, <2>8
    <3>3. KeyAt(r, e + 1) = KeyAt(n, e) /\ ValueAt(r, e + 1) = ValueAt(n, e)
      BY <1>1, <3>2
    <3>4. Place(r, j, e + 1)
      BY <1>1, <2>3, <3>1, <3>2, <3>3 DEF Place
    <3>5. ChildFor(r, j) = ValueAt(n, e)
      BY <1>2, <3>3, <3>4, PlaceChild
    <3>6. QED
      BY <1>1, <2>3, <2>4, <2>5, <2>8, <3>5
  <2>9. QED
    BY <1>1, <2>3, <2>6, <2>7, <2>8
<1>12. QED
  BY <1>10, <1>11

\* A new root sends the keys from the separator on to its second child.
LEMMA RootSeparator ==
  ASSUME NEW p, NEW q, p # q, NEW k \in Key, NEW n, n = RootOver(p, k, q)
  PROVE  /\ Sorted(n, 2, Key)
         /\ \A j \in Key : ChildFor(n, j) = IF j < k THEN p ELSE q
<1>1. IsNode(n) /\ GetSize(n) = 2 /\ ~n.leaf
  BY NewRootNode
<1>2. KeyAt(n, 2) = k /\ ValueAt(n, 1) = p /\ ValueAt(n, 2) = q
  BY DEF RootOver, KeyAt, ValueAt
<1>3. Sorted(n, 2, Key)
  BY <1>1, <1>2 DEF Sorted
<1>4. ASSUME NEW j \in Key PROVE ChildFor(n, j) = IF j < k THEN p ELSE q
  <2>1. j \in Int /\ k \in Int
    BY KeyAssumption
  <2>2. CASE j < k
    <3>1. Place(n, j, 1)
      BY <1>1, <1>2, <2>1, <2>2 DEF Place
    <3>2. QED
      BY <1>1, <1>2, <2>2, <3>1, PlaceChild
  <2>3. CASE ~(j < k)
    <3>1. Place(n, j, 2)
      BY <1>1, <1>2, <2>1, <2>3 DEF Place
    <3>2. QED
      BY <1>1, <1>2, <2>3, <3>1, PlaceChild
  <2>4. QED
    BY <2>2, <2>3
<1>5. QED
  BY <1>3, <1>4

\* KeyIndex of a sorted leaf: the keys in front of it are less, the others not.
LEMMA KeyIndexParts ==
  ASSUME NEW n, IsNode(n), NEW K, K \subseteq Key, Sorted(n, 1, K), NEW k \in Key
  PROVE  /\ KeyIndex(n, k) \in 1 .. GetSize(n) + 1
         /\ \A i \in 1 .. GetSize(n) : KeyAt(n, i) < k <=> i < KeyIndex(n, k)
<1> DEFINE g == GetSize(n)
           S == {i \in 1 .. g : KeyAt(n, i) < k}
           T == {i \in 1 .. g + 1 : i \notin S}
<1>1. g \in Nat
  BY NodeSize
<1>2. /\ \A i \in 1 .. g : KeyAt(n, i) \in Int
      /\ \A i, j \in 1 .. g : i < j => KeyAt(n, i) < KeyAt(n, j)
      /\ k \in Int
  <2>1. K \subseteq Int /\ k \in Int
    BY KeyAssumption
  <2>2. QED
    BY <2>1 DEF Sorted
<1>3. KeyIndex(n, k) = 1 + Cardinality(S)
  BY DEF KeyIndex
<1>4. GetSize(n) = g
  OBVIOUS
<1> HIDE DEF g
<1>5. T \subseteq Nat /\ g + 1 \in T
  BY <1>1
<1>6. PICK c \in T : \A j \in T : c <= j
  <2> HIDE DEF T
  <2>1. QED
    BY <1>5, LeastElement
<1>7. c \in 1 .. g + 1 /\ c \notin S
  BY <1>6
<1>8. \A i \in 1 .. g : i < c => KeyAt(n, i) < k
  <2>1. SUFFICES ASSUME NEW i \in 1 .. g, i < c, ~(KeyAt(n, i) < k) PROVE FALSE
    OBVIOUS
  <2>2. i \in T
    BY <1>1, <2>1
  <2>3. c <= i
    BY <1>6, <2>2
  <2>4. QED
    BY <1>1, <1>7, <2>1, <2>3
<1>9. \A i \in 1 .. g : ~(i < c) => ~(KeyAt(n, i) < k)
  <2>1. SUFFICES ASSUME NEW i \in 1 .. g, ~(i < c) PROVE ~(KeyAt(n, i) < k)
    OBVIOUS
  <2>2. c \in 1 .. g /\ ~(KeyAt(n, c) < k)
    BY <1>1, <1>7, <2>1
  <2>3. i = c \/ c < i
    BY <1>1, <2>1, <2>2
  <2>4. i = c \/ KeyAt(n, c) < KeyAt(n, i)
    BY <1>2, <2>2, <2>3
  <2>5. KeyAt(n, i) \in Int /\ KeyAt(n, c) \in Int
    BY <1>2, <2>2
  <2>6. QED
    BY <1>2, <2>2, <2>4, <2>5
<1>10. S = 1 .. c - 1
  <2>1. \A i \in S : i \in 1 .. c - 1
    BY <1>1, <1>7, <1>9
  <2>2. \A i \in 1 .. c - 1 : i \in S
    BY <1>1, <1>7, <1>8
  <2>3. QED
    BY <2>1, <2>2
<1> HIDE DEF S
<1>11. Cardinality(S) = c - 1
  <2> DEFINE b == c - 1
  <2>1. b \in Nat
    BY <1>1, <1>7
  <2>2. S = 1 .. b
    BY <1>10
  <2> HIDE DEF b
  <2>3. Cardinality(1 .. b) = IF 1 > b THEN 0 ELSE b - 1 + 1
    BY <2>1, FS_Interval
  <2>4. Cardinality(S) = b
    BY <2>1, <2>2, <2>3
  <2>5. QED
    BY <2>4 DEF b
<1>12. KeyIndex(n, k) = c
  BY <1>1, <1>3, <1>7, <1>11
<1>13. QED
  BY <1>4, <1>7, <1>8, <1>9, <1>12

\* A sorted leaf holds a key if it has a row under it, and has no second one.
LEMMA HoldsRows ==
  ASSUME NEW n, IsNode(n), NEW K, K \subseteq Key, Sorted(n, 1, K), NEW k \in Key
  PROVE  Rows(n, k) = IF Holds(n, k) THEN {ValueAt(n, KeyIndex(n, k))} ELSE {}
<1> DEFINE g == GetSize(n)
           c == KeyIndex(n, k)
           S == {i \in 1 .. g : KeyAt(n, i) = k}
<1>1. g \in Nat
  BY NodeSize
<1>2. c \in 1 .. g + 1 /\ \A i \in 1 .. g : KeyAt(n, i) < k <=> i < c
  BY KeyIndexParts
<1>3. /\ \A i \in 1 .. g : KeyAt(n, i) \in Int
      /\ \A i, j \in 1 .. g : i < j => KeyAt(n, i) < KeyAt(n, j)
      /\ k \in Int
  <2>1. K \subseteq Int /\ k \in Int
    BY KeyAssumption
  <2>2. QED
    BY <2>1 DEF Sorted
<1>4. Holds(n, k) <=> c <= g /\ KeyAt(n, c) = k
  BY DEF Holds
<1>5. Rows(n, k) = {ValueAt(n, i) : i \in S}
  BY DEF Rows
<1> HIDE DEF g, c
<1>6. \A i \in 1 .. g : KeyAt(n, i) = k => i = c
  <2>1. SUFFICES ASSUME NEW i \in 1 .. g, KeyAt(n, i) = k PROVE i = c
    OBVIOUS
  <2>2. ~(i < c)
    BY <1>2, <1>3, <2>1
  <2>3. CASE c < i
    <3>1. c \in 1 .. g /\ ~(c < c) /\ KeyAt(n, c) < KeyAt(n, i)
      BY <1>1, <1>2, <1>3, <2>3
    <3>2. QED
      BY <1>2, <2>1, <3>1
  <2>4. QED
    BY <1>1, <1>2, <2>2, <2>3
<1>7. CASE Holds(n, k)
  <2>1. S = {c}
    BY <1>1, <1>2, <1>4, <1>6, <1>7
  <2>2. Rows(n, k) = {ValueAt(n, c)}
    BY <1>5, <2>1
  <2>3. QED
    BY <1>7, <2>2 DEF c
<1>8. CASE ~Holds(n, k)
  <2>1. S = {}
    BY <1>1, <1>2, <1>4, <1>6, <1>8
  <2>2. QED
    BY <1>5, <1>8, <2>1
<1>9. QED
  BY <1>7, <1>8

\* Insert of a sorted leaf: one row more, and the others where they were.
LEMMA InsertKey ==
  ASSUME NEW n, IsNode(n), n.leaf, NEW K, K \subseteq Key, Sorted(n, 1, K),
         NEW k \in K, NEW v \in {FirstRow, OtherRow}, ~Holds(n, k),
         NEW r, r = LeafInsert(n, k, v)
  PROVE  /\ Sorted(r, 1, K)
         /\ \A j \in Key : Rows(r, j) = IF j = k THEN {v} ELSE Rows(n, j)
<1> DEFINE s == n.array_
           g == GetSize(n)
           c == KeyIndex(n, k)
           e == <<k, v>>
           a == InsertAt(s, c, e)
<1>1. IsSeq(s) /\ g = Len(s) /\ g \in Nat
  BY NodeSize
<1>2. c \in 1 .. g + 1 /\ \A i \in 1 .. g : KeyAt(n, i) < k <=> i < c
  BY KeyIndexParts
<1>3. /\ \A i \in 1 .. g : KeyAt(n, i) \in Int /\ KeyAt(n, i) \in K
      /\ \A i, j \in 1 .. g : i < j => KeyAt(n, i) < KeyAt(n, j)
      /\ k \in Int
  <2>1. K \subseteq Int /\ k \in Int
    BY KeyAssumption
  <2>2. QED
    BY <2>1 DEF Sorted
<1>4. r = [n EXCEPT !.array_ = a]
  BY DEF LeafInsert
<1>5. r.array_ = a
  BY <1>4 DEF IsNode
<1>6. e[1] = k /\ e[2] = v
  OBVIOUS
<1>7. Rows(n, k) = {}
  BY HoldsRows
<1>8. GetSize(n) = g
  OBVIOUS
<1> HIDE DEF g, c, e
<1>9. /\ Len(a) = g + 1
      /\ \A j \in 1 .. g + 1 : a[j] = IF j < c THEN s[j] ELSE IF j = c THEN e ELSE s[j - 1]
  BY <1>1, <1>2, InsertSeq
<1> HIDE DEF a
<1> DEFINE At(j) == IF j < c THEN j ELSE j - 1
<1>10. GetSize(r) = g + 1 /\ KeyAt(r, c) = k /\ ValueAt(r, c) = v
  BY <1>1, <1>2, <1>5, <1>6, <1>9 DEF GetSize, KeyAt, ValueAt
<1>11. \A j \in 1 .. g + 1 : j # c =>
         At(j) \in 1 .. g /\ KeyAt(r, j) = KeyAt(n, At(j)) /\ ValueAt(r, j) = ValueAt(n, At(j))
  <2>1. SUFFICES ASSUME NEW j \in 1 .. g + 1, j # c
                 PROVE  At(j) \in 1 .. g /\ a[j] = s[At(j)]
    BY <1>5 DEF KeyAt, ValueAt
  <2>2. CASE j < c
    BY <1>1, <1>2, <1>9, <2>2
  <2>3. CASE ~(j < c)
    BY <1>1, <1>2, <1>9, <2>1, <2>3
  <2>4. QED
    BY <2>2, <2>3
<1>12. \A i \in 1 .. g : KeyAt(n, i) # k
  BY <1>7, <1>8 DEF Rows
<1>13. \A i \in 1 .. g : ~(i < c) => k < KeyAt(n, i)
  <2>1. SUFFICES ASSUME NEW i \in 1 .. g, ~(i < c) PROVE k < KeyAt(n, i)
    OBVIOUS
  <2>2. ~(KeyAt(n, i) < k) /\ KeyAt(n, i) # k /\ KeyAt(n, i) \in Int
    BY <1>2, <1>3, <1>12, <2>1
  <2>3. QED
    BY <1>3, <2>2
<1>14. Sorted(r, 1, K)
  <2>1. ASSUME NEW j \in 1 .. g + 1 PROVE KeyAt(r, j) \in K
    BY <1>3, <1>10, <1>11
  <2>2. ASSUME NEW j \in 1 .. g + 1, NEW i \in 1 .. g + 1, j < i PROVE KeyAt(r, j) < KeyAt(r, i)
    <3>1. CASE j = c
      <4>1. i # c /\ ~(At(i) < c)
        BY <1>2, <2>2, <3>1
      <4>2. QED
        BY <1>10, <1>11, <1>13, <3>1, <4>1
    <3>2. CASE i = c
      <4>1. j # c /\ At(j) < c
        BY <1>2, <2>2, <3>2
      <4>2. QED
        BY <1>2, <1>10, <1>11, <3>2, <4>1
    <3>3. CASE j # c /\ i # c
      <4>1. At(j) < At(i)
        BY <1>1, <1>2, <2>2, <3>3
      <4>2. QED
        BY <1>3, <1>11, <3>3, <4>1
    <3>4. QED
      BY <3>1, <3>2, <3>3
  <2>3. QED
    BY <1>10, <2>1, <2>2 DEF Sorted
<1>15. ASSUME NEW j \in Key PROVE Rows(r, j) = IF j = k THEN {v} ELSE Rows(n, j)
  <2> DEFINE A == {i \in 1 .. g + 1 : KeyAt(r, i) = j}
             B == {i \in 1 .. g : KeyAt(n, i) = j}
  <2>1. Rows(r, j) = {ValueAt(r, i) : i \in A} /\ Rows(n, j) = {ValueAt(n, i) : i \in B}
    BY <1>8, <1>10 DEF Rows
  <2>2. CASE j = k
    <3>1. A = {c}
      <4>1. \A i \in 1 .. g + 1 : i # c => KeyAt(r, i) # k
        BY <1>11, <1>12
      <4>2. QED
        BY <1>2, <1>10, <2>2, <4>1
    <3> HIDE DEF A
    <3>2. QED
      BY <1>10, <2>1, <2>2, <3>1
  <2>3. CASE j # k
    <3>1. ASSUME NEW w \in Rows(r, j) PROVE w \in Rows(n, j)
      <4>1. PICK i \in A : w = ValueAt(r, i)
        BY <2>1, <3>1
      <4>2. i \in 1 .. g + 1 /\ i # c
        BY <1>10, <2>3
      <4>3. At(i) \in B /\ w = ValueAt(n, At(i))
        BY <1>11, <4>1, <4>2
      <4>4. QED
        BY <2>1, <4>3
    <3>2. ASSUME NEW w \in Rows(n, j) PROVE w \in Rows(r, j)
      <4>1. PICK i \in B : w = ValueAt(n, i)
        BY <2>1, <3>2
      <4> DEFINE f == IF i < c THEN i ELSE i + 1
      <4>2. f \in 1 .. g + 1 /\ f # c /\ At(f) = i
        BY <1>1, <1>2
      <4>3. f \in A /\ w = ValueAt(r, f)
        BY <1>11, <4>1, <4>2
      <4>4. QED
        BY <2>1, <4>3
    <3>3. QED
      BY <2>3, <3>1, <3>2
  <2>4. QED
    BY <2>2, <2>3
<1>16. QED
  BY <1>14, <1>15

\* The keys of an internal page are those of its children, and Lookup leads to them.
Leads(n, K, own) ==
  /\ \A k \in K : k \in own[ChildFor(n, k)]
  /\ \A c \in Kin(n) : \A k \in own[c] : k \in K /\ ChildFor(n, k) = c

\* Page n answers for the keys K with the rows E.
Answers(n, K, own, E) ==
  IF n.leaf THEN Sorted(n, 1, K) /\ \A k \in K : Rows(n, k) = E[k]
  ELSE Sorted(n, 2, K) /\ Leads(n, K, own)

\* No key belongs to two leaves.
Apart(P, own) ==
  \A p, q \in DOMAIN P : P[p].leaf /\ P[q].leaf /\ p # q => own[p] \intersect own[q] = {}

\* The keys K lie together, and those of L come next.
Together(K) == \A i, k \in K : \A j \in Key : i < j /\ j < k => j \in K
Follows(L, K) ==
  \A i \in K : \A k \in L : i < k /\ \A j \in Key : i < j /\ j < k => j \in K \union L

\* The link of a leaf leads to the leaf with the next keys.
Linked(P, own) ==
  \A x \in DOMAIN P :
    P[x].leaf =>
      /\ Together(own[x])
      /\ IF P[x].next = ZeroLink
         THEN \A i \in own[x] : \A j \in Key : i < j => j \in own[x]
         ELSE LET y == P[x].next IN y \in DOMAIN P /\ P[y].leaf /\ Follows(own[y], own[x])

\* All keys belong to the root, and each to one leaf, linked in the order of their keys.
Search(P, root, own, E) ==
  /\ own[root] = Key
  /\ \A p \in DOMAIN P : own[p] \subseteq Key /\ Answers(P[p], own[p], own, E)
  /\ Apart(P, own) /\ Linked(P, own)

\* A page with the same pairs answers for the same keys, if its children do.
LEMMA SameAnswers ==
  ASSUME NEW n, IsNode(n), ~n.leaf => GetSize(n) >= 1, NEW K, NEW own, NEW E, Answers(n, K, own, E),
         NEW r, r.leaf = n.leaf, r.array_ = n.array_, Kin(r) = Kin(n),
         NEW own2, \A c \in Kin(n) : own2[c] = own[c]
  PROVE  Answers(r, K, own2, E)
<1>1. GetSize(r) = GetSize(n)
  BY DEF GetSize
<1>2. \A i : KeyAt(r, i) = KeyAt(n, i) /\ ValueAt(r, i) = ValueAt(n, i)
  BY DEF KeyAt, ValueAt
<1>3. \A f : Sorted(n, f, K) => Sorted(r, f, K)
  BY <1>1, <1>2 DEF Sorted
<1>4. \A k : Rows(r, k) = Rows(n, k)
  BY <1>1, <1>2 DEF Rows
<1>5. \A k : ChildFor(r, k) = ChildFor(n, k)
  BY <1>1, <1>2 DEF ChildFor
<1>6. CASE n.leaf
  BY <1>3, <1>4, <1>6 DEF Answers
<1>7. CASE ~n.leaf
  <2>1. \A k : ChildFor(n, k) \in Kin(n)
    BY <1>7, ChildForKin
  <2>2. Leads(n, K, own) /\ Sorted(n, 2, K)
    BY <1>7 DEF Answers
  <2>3. Leads(r, K, own2)
    BY <1>5, <2>1, <2>2 DEF Leads
  <2>4. QED
    BY <1>3, <1>7, <2>2, <2>3 DEF Answers
<1>8. QED
  BY <1>6, <1>7

\* The halves of a page answer for the keys below the separator and from it on.
LEMMA SplitAnswers ==
  ASSUME NEW n, IsNode(n), GetSize(n) >= 4, NEW K, K \subseteq Key, NEW own, NEW E,
         Answers(n, K, own, E), NEW own2, \A c \in Kin(n) : own2[c] = own[c],
         NEW q, NEW l, l = LowerHalf(n, q), NEW r, r = UpperHalf(n), NEW k, k = KeyAt(r, 1)
  PROVE  /\ k \in K /\ \E z \in K : z < k
         /\ Answers(l, Below(K, k), own2, E) /\ Answers(r, From(K, k), own2, E)
<1>1. /\ IsNode(l) /\ IsNode(r) /\ l.leaf = n.leaf /\ r.leaf = n.leaf
      /\ GetSize(n) \in Nat /\ GetSize(l) = GetSize(n) \div 2
      /\ GetSize(r) = GetSize(n) - GetSize(n) \div 2
      /\ Kin(n) = Kin(l) \union Kin(r) /\ Kin(l) \intersect Kin(r) = {}
  BY NodeSize, HalfNodes
<1>2. CASE n.leaf
  <2>1. Sorted(n, 1, K) /\ \A j \in K : Rows(n, j) = E[j]
    BY <1>2 DEF Answers
  <2>2. /\ k \in K /\ \E z \in K : z < k
        /\ Sorted(l, 1, Below(K, k)) /\ Sorted(r, 1, From(K, k))
        /\ \A j \in Below(K, k) : Rows(l, j) = Rows(n, j)
        /\ \A j \in From(K, k) : Rows(r, j) = Rows(n, j)
    <3>1. GetSize(n) >= 2
      BY <1>1
    <3>2. QED
      BY <1>2, <2>1, <3>1, SplitLeafKeys
  <2>3. Below(K, k) \subseteq K /\ From(K, k) \subseteq K
    BY DEF Below, From
  <2>4. QED
    BY <1>1, <1>2, <2>1, <2>2, <2>3 DEF Answers
<1>3. CASE ~n.leaf
  <2>1. Sorted(n, 2, K) /\ Leads(n, K, own)
    BY <1>3 DEF Answers
  <2>2. /\ k \in K /\ \E z \in K : z < k
        /\ Sorted(l, 2, Below(K, k)) /\ Sorted(r, 2, From(K, k))
        /\ \A j \in Below(K, k) : ChildFor(l, j) = ChildFor(n, j)
        /\ \A j \in From(K, k) : ChildFor(r, j) = ChildFor(n, j)
    BY <1>3, <2>1, SplitSeparators
  <2>3. \A j : ChildFor(l, j) \in Kin(l) /\ ChildFor(r, j) \in Kin(r)
    <3>1. ~l.leaf /\ ~r.leaf /\ GetSize(l) >= 1 /\ GetSize(r) >= 1
      BY <1>1, <1>3
    <3>2. QED
      BY <1>1, <3>1, ChildForKin
  <2>4. \A j \in K : j \in Below(K, k) \/ j \in From(K, k)
    BY DEF Below, From
  <2>5. Below(K, k) \subseteq K /\ From(K, k) \subseteq K
    BY DEF Below, From
  <2>6. Leads(l, Below(K, k), own2)
    <3>1. ASSUME NEW j \in Below(K, k) PROVE j \in own2[ChildFor(l, j)]
      BY <1>1, <2>1, <2>2, <2>3, <2>5, <3>1 DEF Leads
    <3>2. ASSUME NEW c \in Kin(l), NEW j \in own2[c]
          PROVE  j \in Below(K, k) /\ ChildFor(l, j) = c
      <4>1. j \in K /\ ChildFor(n, j) = c
        BY <1>1, <2>1, <3>2 DEF Leads
      <4>2. j \notin From(K, k)
        BY <1>1, <2>2, <2>3, <3>2, <4>1
      <4>3. QED
        BY <2>2, <2>4, <4>1, <4>2
    <3>3. QED
      BY <3>1, <3>2 DEF Leads
  <2>7. Leads(r, From(K, k), own2)
    <3>1. ASSUME NEW j \in From(K, k) PROVE j \in own2[ChildFor(r, j)]
      BY <1>1, <2>1, <2>2, <2>3, <2>5, <3>1 DEF Leads
    <3>2. ASSUME NEW c \in Kin(r), NEW j \in own2[c]
          PROVE  j \in From(K, k) /\ ChildFor(r, j) = c
      <4>1. j \in K /\ ChildFor(n, j) = c
        BY <1>1, <2>1, <3>2 DEF Leads
      <4>2. j \notin Below(K, k)
        BY <1>1, <2>2, <2>3, <3>2, <4>1
      <4>3. QED
        BY <2>2, <2>4, <4>1, <4>2
    <3>3. QED
      BY <3>1, <3>2 DEF Leads
  <2>8. QED
    BY <1>1, <1>3, <2>2, <2>6, <2>7 DEF Answers
<1>4. QED
  BY <1>2, <1>3

\* The keys of page p go to p and q, which are no longer there for the same ones.
Divided(own, own2, p, q, k) ==
  /\ own2[p] = Below(own[p], k) /\ own2[q] = From(own[p], k)

\* The leaves are those there were, and q if p was one.
SplitLeaves(P, Q, p, q) ==
  \A x \in DOMAIN Q : Q[x].leaf => (x \in DOMAIN P /\ P[x].leaf) \/ (x = q /\ P[p].leaf)

\* Two parts of a page have no key in common, and none with other pages.
LEMMA DividedApart ==
  ASSUME NEW P, NEW Q, NEW own, NEW own2, NEW p \in DOMAIN P, NEW q, NEW k,
         q \notin DOMAIN P, Divided(own, own2, p, q, k), Apart(P, own),
         \A x \in DOMAIN P \ {p} : own2[x] = own[x], SplitLeaves(P, Q, p, q)
  PROVE  Apart(Q, own2)
<1> SUFFICES ASSUME NEW x \in DOMAIN Q, NEW y \in DOMAIN Q, Q[x].leaf, Q[y].leaf, x # y
             PROVE  own2[x] \intersect own2[y] = {}
  BY DEF Apart
<1>1. Below(own[p], k) \intersect From(own[p], k) = {}
  BY DEF Below, From
<1>2. Below(own[p], k) \subseteq own[p] /\ From(own[p], k) \subseteq own[p]
  BY DEF Below, From
<1> DEFINE Of(z) == IF z = q THEN p ELSE z
<1>3. ASSUME NEW z \in DOMAIN Q, Q[z].leaf
      PROVE  Of(z) \in DOMAIN P /\ P[Of(z)].leaf /\ own2[z] \subseteq own[Of(z)]
  <2>1. CASE z = q
    BY <1>2, <1>3, <2>1 DEF Divided, SplitLeaves
  <2>2. CASE z = p
    BY <1>2, <1>3, <2>2 DEF Divided, SplitLeaves
  <2>3. CASE z # p /\ z # q
    BY <1>3, <2>3 DEF SplitLeaves
  <2>4. QED
    BY <2>1, <2>2, <2>3
<1>4. CASE Of(x) # Of(y)
  BY <1>3, <1>4 DEF Apart
<1>5. CASE Of(x) = Of(y)
  <2>1. {x, y} = {p, q}
    BY <1>3, <1>5
  <2>2. QED
    BY <1>1, <2>1 DEF Divided
<1>6. QED
  BY <1>4, <1>5

\* The links are those there were, but for q, which comes behind p if that is a leaf.
SplitLinks(P, Q, p, q) ==
  /\ \A x \in DOMAIN P : P[x].leaf =>
       x \in DOMAIN Q /\ Q[x].leaf /\ (x # p => Q[x].next = P[x].next)
  /\ P[p].leaf => q \in DOMAIN Q /\ Q[q].leaf /\ Q[p].next = q /\ Q[q].next = P[p].next

\* The keys of the two parts, and of what comes before and behind them.
LEMMA PartKeys ==
  ASSUME NEW K, K \subseteq Key, Together(K), NEW k \in K
  PROVE  /\ Together(Below(K, k)) /\ Together(From(K, k)) /\ Follows(From(K, k), Below(K, k))
         /\ \A L : Follows(L, K) => Follows(L, From(K, k))
         /\ \A L : L \subseteq Key /\ Follows(K, L) => Follows(Below(K, k), L)
         /\ (\A i \in K : \A j \in Key : i < j => j \in K) =>
              \A i \in From(K, k) : \A j \in Key : i < j => j \in From(K, k)
<1> DEFINE B == Below(K, k)
           F == From(K, k)
<1>1. (\A j \in Key : j \in Int) /\ (\A j \in K : j \in Key) /\ k \in Int
  BY KeyAssumption
<1>2. \A j : j \in B <=> j \in K /\ j < k
  BY DEF Below
<1>3. \A j : j \in F <=> j \in K /\ ~(j < k)
  BY DEF From
<1> HIDE DEF B, F
<1>4. Together(B)
  <2>1. SUFFICES ASSUME NEW i \in B, NEW h \in B, NEW j \in Key, i < j, j < h PROVE j \in B
    BY DEF Together
  <2>2. i \in K /\ h \in K /\ h < k /\ h \in Int /\ j \in Int
    BY <1>1, <1>2
  <2>3. j \in K
    BY <2>1, <2>2 DEF Together
  <2>4. j < k
    BY <1>1, <2>1, <2>2
  <2>5. QED
    BY <1>2, <2>3, <2>4
<1>5. Together(F)
  <2>1. SUFFICES ASSUME NEW i \in F, NEW h \in F, NEW j \in Key, i < j, j < h PROVE j \in F
    BY DEF Together
  <2>2. i \in K /\ h \in K /\ ~(i < k) /\ i \in Int /\ j \in Int
    BY <1>1, <1>3
  <2>3. j \in K
    BY <2>1, <2>2 DEF Together
  <2>4. ~(j < k)
    BY <1>1, <2>1, <2>2
  <2>5. QED
    BY <1>3, <2>3, <2>4
<1>6. Follows(F, B)
  <2>1. SUFFICES ASSUME NEW i \in B, NEW h \in F
                 PROVE  i < h /\ \A j \in Key : i < j /\ j < h => j \in B \union F
    BY DEF Follows
  <2>2. i \in K /\ h \in K /\ i < k /\ ~(h < k) /\ i \in Int /\ h \in Int
    BY <1>1, <1>2, <1>3
  <2>3. i < h
    BY <1>1, <2>2
  <2>4. \A j \in Key : i < j /\ j < h => j \in K
    BY <2>2 DEF Together
  <2>5. QED
    BY <1>2, <1>3, <2>3, <2>4
<1>7. ASSUME NEW L, Follows(L, K) PROVE Follows(L, F)
  <2>1. SUFFICES ASSUME NEW i \in F, NEW h \in L
                 PROVE  i < h /\ \A j \in Key : i < j /\ j < h => j \in F \union L
    BY DEF Follows
  <2>2. i \in K /\ ~(i < k) /\ i \in Int
    BY <1>1, <1>3
  <2>3. i < h /\ \A j \in Key : i < j /\ j < h => j \in K \union L
    BY <1>7, <2>2 DEF Follows
  <2>4. \A j \in Key : i < j => ~(j < k)
    BY <1>1, <2>2
  <2>5. QED
    BY <1>3, <2>3, <2>4
<1>8. ASSUME NEW L, L \subseteq Key, Follows(K, L) PROVE Follows(B, L)
  <2>1. SUFFICES ASSUME NEW i \in L, NEW h \in B
                 PROVE  i < h /\ \A j \in Key : i < j /\ j < h => j \in L \union B
    BY DEF Follows
  <2>2. h \in K /\ h < k /\ h \in Int
    BY <1>1, <1>2
  <2>3. i < h /\ \A j \in Key : i < j /\ j < h => j \in L \union K
    BY <1>8, <2>2 DEF Follows
  <2>4. \A j \in Key : j < h => j < k
    BY <1>1, <2>2
  <2>5. QED
    BY <1>2, <2>3, <2>4
<1>9. ASSUME \A i \in K : \A j \in Key : i < j => j \in K
      PROVE  \A i \in F : \A j \in Key : i < j => j \in F
  <2>1. SUFFICES ASSUME NEW i \in F, NEW j \in Key, i < j PROVE j \in F
    OBVIOUS
  <2>2. i \in K /\ ~(i < k) /\ i \in Int /\ j \in Int
    BY <1>1, <1>3
  <2>3. ~(j < k)
    BY <1>1, <2>1, <2>2
  <2>4. j \in K
    BY <1>9, <2>1, <2>2
  <2>5. QED
    BY <1>3, <2>3, <2>4
<1>10. QED
  BY <1>4, <1>5, <1>6, <1>7, <1>8, <1>9 DEF B, F

\* After a split the links still lead from keys to the next ones.
LEMMA DividedLinked ==
  ASSUME NEW P, NEW Q, NEW own, NEW own2, NEW p \in DOMAIN P, NEW q, NEW k \in own[p],
         q \notin DOMAIN P, q # ZeroLink, Divided(own, own2, p, q, k),
         \A x \in DOMAIN P : own[x] \subseteq Key, Linked(P, own),
         \A x \in DOMAIN P \ {p} : own2[x] = own[x],
         SplitLeaves(P, Q, p, q), SplitLinks(P, Q, p, q)
  PROVE  Linked(Q, own2)
<1> SUFFICES ASSUME NEW x \in DOMAIN Q, Q[x].leaf
             PROVE  /\ Together(own2[x])
                    /\ IF Q[x].next = ZeroLink
                       THEN \A i \in own2[x] : \A j \in Key : i < j => j \in own2[x]
                       ELSE /\ Q[x].next \in DOMAIN Q /\ Q[Q[x].next].leaf
                            /\ Follows(own2[Q[x].next], own2[x])
  BY DEF Linked
<1> DEFINE K == own[p]
           y == P[p].next
           a == P[x].next
<1>1. CASE P[p].leaf
  <2>1. /\ K \subseteq Key /\ Together(K)
        /\ IF y = ZeroLink THEN \A i \in K : \A j \in Key : i < j => j \in K
           ELSE y \in DOMAIN P /\ P[y].leaf /\ Follows(own[y], K)
    BY <1>1 DEF Linked
  <2>2. own2[p] = Below(K, k) /\ own2[q] = From(K, k)
    BY DEF Divided
  <2>3. /\ q \in DOMAIN Q /\ Q[q].leaf /\ Q[p].next = q /\ Q[q].next = y
        /\ \A z \in DOMAIN P : P[z].leaf => z \in DOMAIN Q /\ Q[z].leaf
    BY <1>1 DEF SplitLinks
  <2>4. k \in K /\ k \in Int
    <3>1. k \in Key
      BY <2>1
    <3>2. QED
      BY <3>1, KeyAssumption
  <2> HIDE DEF K, y
  <2>5. /\ Together(Below(K, k)) /\ Together(From(K, k)) /\ Follows(From(K, k), Below(K, k))
        /\ \A L : Follows(L, K) => Follows(L, From(K, k))
        /\ \A L : L \subseteq Key /\ Follows(K, L) => Follows(Below(K, k), L)
        /\ (\A i \in K : \A j \in Key : i < j => j \in K) =>
             \A i \in From(K, k) : \A j \in Key : i < j => j \in From(K, k)
    BY <2>1, <2>4, PartKeys
  <2>6. CASE x = p
    BY <2>2, <2>3, <2>5, <2>6
  <2>7. CASE x = q
    <3>1. CASE y = ZeroLink
      BY <2>1, <2>2, <2>3, <2>5, <2>7, <3>1
    <3>2. CASE y # ZeroLink
      <4>1. y \in DOMAIN P /\ P[y].leaf /\ Follows(own[y], K)
        BY <2>1, <3>2
      <4>2. y # p
        BY <2>4, <4>1 DEF Follows, K
      <4>3. own2[y] = own[y]
        BY <4>1, <4>2
      <4>4. QED
        BY <2>2, <2>3, <2>5, <2>7, <3>2, <4>1, <4>3
    <3>3. QED
      BY <3>1, <3>2
  <2>8. CASE x # p /\ x # q
    <3>1. x \in DOMAIN P /\ P[x].leaf
      BY <2>8 DEF SplitLeaves
    <3>2. Q[x].next = a /\ own2[x] = own[x]
      BY <2>8, <3>1 DEF SplitLinks
    <3>3. /\ Together(own[x]) /\ own[x] \subseteq Key
          /\ IF a = ZeroLink THEN \A i \in own[x] : \A j \in Key : i < j => j \in own[x]
             ELSE a \in DOMAIN P /\ P[a].leaf /\ Follows(own[a], own[x])
      BY <3>1 DEF Linked
    <3> HIDE DEF a
    <3>4. CASE a = ZeroLink
      BY <3>2, <3>3, <3>4
    <3>5. CASE a = p
      <4>1. p # ZeroLink => Follows(K, own[x])
        BY <3>3, <3>5 DEF K
      <4>2. QED
        BY <2>2, <2>3, <2>5, <3>2, <3>3, <3>5, <4>1
    <3>6. CASE a # ZeroLink /\ a # p
      BY <2>3, <3>2, <3>3, <3>6
    <3>7. QED
      BY <3>4, <3>5, <3>6
  <2>9. QED
    BY <2>6, <2>7, <2>8
<1>2. CASE ~P[p].leaf
  <2>1. x \in DOMAIN P /\ P[x].leaf /\ x # p
    BY <1>2 DEF SplitLeaves
  <2>2. Q[x].next = a /\ own2[x] = own[x]
    BY <2>1 DEF SplitLinks
  <2>3. /\ Together(own[x])
        /\ IF a = ZeroLink THEN \A i \in own[x] : \A j \in Key : i < j => j \in own[x]
           ELSE a \in DOMAIN P /\ P[a].leaf /\ Follows(own[a], own[x])
    BY <2>1 DEF Linked
  <2> HIDE DEF a
  <2>4. a # ZeroLink => a \in DOMAIN Q /\ Q[a].leaf /\ own2[a] = own[a]
    BY <1>2, <2>3 DEF SplitLinks
  <2>5. QED
    BY <2>2, <2>3, <2>4
<1>3. QED
  BY <1>1, <1>2

\* The parent of a page that was split answers with both halves.
LEMMA ParentAnswers ==
  ASSUME NEW n, IsNode(n), ~n.leaf, GetSize(n) >= 1, NEW K, K \subseteq Key, NEW own, NEW E,
         Answers(n, K, own, E), NEW p \in Kin(n), NEW q, q \notin Kin(n),
         NEW k \in own[p], NEW z \in own[p], z < k,
         NEW own2, Divided(own, own2, p, q, k), \A c \in Kin(n) \ {p} : own2[c] = own[c],
         NEW r, r = InsertNodeAfter(n, p, k, q)
  PROVE  Answers(r, K, own2, E)
<1>1. Sorted(n, 2, K) /\ Leads(n, K, own)
  BY DEF Answers
<1>2. k \in K /\ z \in K /\ ChildFor(n, k) = p /\ ChildFor(n, z) = p
  BY <1>1 DEF Leads
<1>3. /\ Sorted(r, 2, K)
      /\ \A j \in K : ChildFor(r, j) = IF ChildFor(n, j) = p
                                       THEN IF j < k THEN p ELSE q ELSE ChildFor(n, j)
  BY <1>1, <1>2, InsertSeparator
<1>4. ~r.leaf /\ Kin(r) = Kin(n) \union {q}
  BY InsertAfterNode
<1>5. ASSUME NEW j \in K PROVE j \in own2[ChildFor(r, j)]
  <2>1. j \in own[ChildFor(n, j)] /\ ChildFor(n, j) \in Kin(n)
    BY <1>1, ChildForKin DEF Leads
  <2>2. CASE ChildFor(n, j) = p
    BY <1>3, <2>1, <2>2 DEF Divided, Below, From
  <2>3. CASE ChildFor(n, j) # p
    BY <1>3, <2>1, <2>3
  <2>4. QED
    BY <2>2, <2>3
<1>6. ASSUME NEW c \in Kin(r), NEW j \in own2[c] PROVE j \in K /\ ChildFor(r, j) = c
  <2>1. CASE c = q
    <3>1. j \in own[p] /\ ~(j < k)
      BY <1>6, <2>1 DEF Divided, From
    <3>2. QED
      BY <1>1, <1>3, <2>1, <3>1 DEF Leads
  <2>2. CASE c = p
    <3>1. j \in own[p] /\ j < k
      BY <1>6, <2>2 DEF Divided, Below
    <3>2. QED
      BY <1>1, <1>3, <2>2, <3>1 DEF Leads
  <2>3. CASE c # p /\ c # q
    <3>1. c \in Kin(n) /\ j \in own[c]
      BY <1>4, <1>6, <2>3
    <3>2. QED
      BY <1>1, <1>3, <2>3, <3>1 DEF Leads
  <2>4. QED
    BY <2>1, <2>2, <2>3
<1>7. QED
  BY <1>3, <1>4, <1>5, <1>6 DEF Answers, Leads

\* Page p of a tree is full, one over its size.
LEMMA FullPage ==
  ASSUME NEW t, NEW lev, NEW p \in DOMAIN t.pages, Good(t, lev, p),
         GetSize(t.pages[p]) = GetMaxSize(t.pages[p]) + 1
  PROVE  /\ IsTree(t) /\ Pages(t.pages) /\ Family(t.pages, t.root_page_id_, lev)
         /\ GetSize(t.pages[p]) >= 4
         /\ \A x \in DOMAIN t.pages : IsNode(t.pages[x]) /\ GetSize(t.pages[x]) >= 1
<1>1. IsTree(t) /\ Pages(t.pages) /\ Family(t.pages, t.root_page_id_, lev) /\ Sizes(t.pages, p)
  BY DEF Good, Shape
<1>2. \A x \in DOMAIN t.pages : IsNode(t.pages[x])
  BY <1>1 DEF Pages
<1>3. \A x \in DOMAIN t.pages : /\ GetMinSize(t.pages[x]) \in Nat /\ GetMaxSize(t.pages[x]) \in Nat
                                /\ GetMinSize(t.pages[x]) >= 1 /\ GetMaxSize(t.pages[x]) >= 3
  <2>1. SUFFICES ASSUME NEW x \in DOMAIN t.pages
                 PROVE  /\ GetMinSize(t.pages[x]) \in Nat /\ GetMaxSize(t.pages[x]) \in Nat
                        /\ GetMinSize(t.pages[x]) >= 1 /\ GetMaxSize(t.pages[x]) >= 3
    OBVIOUS
  <2> DEFINE n == t.pages[x]
  <2>2. n.leaf \in BOOLEAN
    BY <1>2 DEF IsNode
  <2> HIDE DEF n
  <2>3. /\ GetMinSize(n) \in Nat /\ GetMaxSize(n) \in Nat
        /\ GetMinSize(n) >= 1 /\ GetMaxSize(n) >= 3
    BY <2>2, Limits
  <2>4. QED
    BY <2>3 DEF n
<1>4. GetSize(t.pages[p]) >= 4 /\ GetSize(t.pages[p]) >= 1
  BY <1>3
<1>5. \A x \in DOMAIN t.pages \ {p} : GetSize(t.pages[x]) >= 1
  BY <1>1, <1>3 DEF Sizes, Filled
<1>6. QED
  BY <1>1, <1>2, <1>4, <1>5

\* The keys of the pages after page p was split.
OwnAfter(own, D, p, q, k) ==
  [x \in D |-> IF x = p THEN Below(own[p], k) ELSE IF x = q THEN From(own[p], k) ELSE own[x]]

\* Every key is found with its rows, from the root that is on record.
Searchable(t, E) ==
  t.recorded = t.root_page_id_ /\ \E own : Search(t.pages, t.root_page_id_, own, E)

\* A page below the root is split: every key is found where it was.
LEMMA SplitBelowSearch ==
  ASSUME NEW t, NEW lev, NEW p \in DOMAIN t.pages, Good(t, lev, p), p # t.root_page_id_,
         GetSize(t.pages[p]) = GetMaxSize(t.pages[p]) + 1,
         NEW q, q \in Nat \ {0, 1}, q \notin DOMAIN t.pages,
         NEW u, u = InsertIntoParent(Split(t, p, q), p, q),
         NEW E, Searchable(t, E)
  PROVE  Searchable(u, E)
<1>own. PICK own : Search(t.pages, t.root_page_id_, own, E)
  BY DEF Searchable
<1> DEFINE P == t.pages
           Q == u.pages
           root == t.root_page_id_
           n == P[p]
           l == LowerHalf(n, q)
           r == UpperHalf(n)
           k == KeyAt(r, 1)
           up == n.parent
           own2 == OwnAfter(own, DOMAIN Q, p, q, k)
<1>1. /\ IsTree(t) /\ Pages(P) /\ Family(P, root, lev) /\ GetSize(n) >= 4
      /\ \A x \in DOMAIN P : IsNode(P[x]) /\ GetSize(P[x]) >= 1
  BY FullPage
<1>2. /\ u.root_page_id_ = root /\ u.recorded = t.recorded
      /\ DOMAIN Q = DOMAIN P \union {q}
      /\ up \in DOMAIN P /\ up # p /\ up \notin Kin(r) /\ p \in Kin(P[up])
      /\ Q[p] = l /\ Moved(Q[q], r, up)
      /\ Q[up] = InsertNodeAfter(P[up], p, k, q)
      /\ \A x \in DOMAIN P \ {p, up} :
           /\ x \in Kin(r) => Moved(Q[x], P[x], q)
           /\ x \notin Kin(r) => Q[x] = P[x]
  BY <1>1, SplitBelowPages
<1>3. /\ own2[p] = Below(own[p], k) /\ own2[q] = From(own[p], k)
      /\ \A x \in DOMAIN P \ {p} : own2[x] = own[x]
  BY <1>2 DEF OwnAfter
<1>4. /\ own[root] = Key
      /\ \A x \in DOMAIN P : own[x] \subseteq Key /\ Answers(P[x], own[x], own, E)
      /\ Apart(P, own) /\ Linked(P, own)
  BY <1>own DEF Search
<1> HIDE DEF own2, P, Q, root, up, k
<1>5. Divided(own, own2, p, q, k) /\ p \in DOMAIN P /\ q \notin DOMAIN P
  BY <1>3 DEF Divided, P
<1>6. /\ \A x \in DOMAIN P : Kin(P[x]) \subseteq DOMAIN P
      /\ \A x \in DOMAIN P \ {up} : p \notin Kin(P[x])
  BY <1>1, <1>2, FamilyFacts DEF Family, Kids
<1>7. \A x \in DOMAIN P \ {up} : \A c \in Kin(P[x]) : own2[c] = own[c]
  BY <1>3, <1>6
<1>8. IsNode(n) /\ own[p] \subseteq Key /\ Answers(n, own[p], own, E) /\ \A c \in Kin(n) : own2[c] = own[c]
  BY <1>1, <1>2, <1>4, <1>7 DEF P
<1>9. /\ k \in own[p] /\ \E z \in own[p] : z < k
      /\ Answers(l, own2[p], own2, E) /\ Answers(r, own2[q], own2, E)
  <2> DEFINE K == own[p]
  <2>1. /\ k \in K /\ \E z \in K : z < k
        /\ Answers(l, Below(K, k), own2, E) /\ Answers(r, From(K, k), own2, E)
    <3> HIDE DEF K, n
    <3>1. GetSize(n) >= 4 /\ K \subseteq Key /\ Answers(n, K, own, E)
      BY <1>1, <1>8 DEF K
    <3>2. QED
      BY <1>8, <3>1, SplitAnswers DEF k
  <2>2. QED
    BY <1>3, <2>1
<1>10. /\ IsNode(r) /\ GetSize(r) >= 1 /\ l.leaf = n.leaf /\ r.leaf = n.leaf
       /\ r.next = n.next /\ (n.leaf => l.next = q)
  <2>1. /\ IsNode(r) /\ GetSize(r) = GetSize(n) - GetSize(n) \div 2
        /\ l.leaf = n.leaf /\ r.leaf = n.leaf /\ GetSize(n) \in Nat
        /\ r.next = n.next /\ (n.leaf => l.next = q)
    <3> HIDE DEF n
    <3>1. QED
      BY <1>8, HalfNodes, NodeSize
  <2>2. QED
    BY <1>1, <2>1
<1> HIDE DEF l, r, n
<1>11. ASSUME NEW x \in DOMAIN Q PROVE own2[x] \subseteq Key /\ Answers(Q[x], own2[x], own2, E)
  <2>1. CASE x = p
    BY <1>2, <1>3, <1>4, <1>5, <1>9, <2>1 DEF Below
  <2>2. CASE x = q
    <3>1. own2[x] \subseteq Key
      BY <1>3, <1>4, <1>5, <2>2 DEF From
    <3>2. Answers(Q[q], own2[q], own2, E)
      BY <1>2, <1>9, <1>10, SameAnswers DEF Moved
    <3>3. QED
      BY <2>2, <3>1, <3>2
  <2>3. CASE x = up
    <3>1. own2[x] = own[up] /\ own[up] \subseteq Key /\ Answers(P[up], own[up], own, E)
      BY <1>2, <1>3, <1>4, <2>3
    <3>2. /\ IsNode(P[up]) /\ GetSize(P[up]) >= 1 /\ ~P[up].leaf /\ q \notin Kin(P[up])
          /\ \A c \in Kin(P[up]) \ {p} : own2[c] = own[c]
      BY <1>1, <1>2, <1>3, <1>6 DEF Kin, P
    <3>3. PICK z \in own[p] : z < k
      BY <1>9
    <3>4. p \in Kin(P[up]) /\ k \in own[p] /\ Q[up] = InsertNodeAfter(P[up], p, k, q)
      BY <1>2, <1>9
    <3>5. Answers(Q[up], own[up], own2, E)
      BY <1>5, <3>1, <3>2, <3>3, <3>4, ParentAnswers
    <3>6. QED
      BY <2>3, <3>1, <3>5
  <2>4. CASE x \notin {p, q, up}
    <3>1. x \in DOMAIN P \ {p, up}
      BY <1>2, <2>4
    <3>2. /\ own2[x] = own[x] /\ own[x] \subseteq Key /\ Answers(P[x], own[x], own, E)
          /\ IsNode(P[x]) /\ GetSize(P[x]) >= 1 /\ \A c \in Kin(P[x]) : own2[c] = own[c]
      BY <1>1, <1>3, <1>4, <1>7, <3>1
    <3>3. Q[x].leaf = P[x].leaf /\ Q[x].array_ = P[x].array_ /\ Kin(Q[x]) = Kin(P[x])
      BY <1>2, <3>1 DEF Moved
    <3>4. Answers(Q[x], own[x], own2, E)
      BY <3>2, <3>3, SameAnswers
    <3>5. QED
      BY <3>2, <3>4
  <2>5. QED
    BY <2>1, <2>2, <2>3, <2>4
<1>12. SplitLeaves(P, Q, p, q)
  <2>1. SUFFICES ASSUME NEW x \in DOMAIN Q, Q[x].leaf
                 PROVE  (x \in DOMAIN P /\ P[x].leaf) \/ (x = q /\ P[p].leaf)
    BY DEF SplitLeaves
  <2>2. CASE x = p
    BY <1>2, <1>10, <2>1, <2>2 DEF n, P
  <2>3. CASE x = q
    BY <1>2, <1>10, <2>1, <2>3 DEF Moved, n, P
  <2>4. CASE x = up
    <3>1. IsNode(P[up]) /\ ~P[up].leaf /\ q \notin Kin(P[up])
      BY <1>1, <1>2, <1>6 DEF Kin, P
    <3>2. ~Q[up].leaf
      BY <1>2, <3>1, InsertAfterNode
    <3>3. QED
      BY <2>1, <2>4, <3>2
  <2>5. CASE x \notin {p, q, up}
    BY <1>2, <2>1, <2>5 DEF Moved
  <2>6. QED
    BY <2>2, <2>3, <2>4, <2>5
<1>13. Apart(Q, own2)
  BY <1>3, <1>4, <1>5, <1>12, DividedApart
<1>14. SplitLinks(P, Q, p, q)
  <2>1. ASSUME NEW x \in DOMAIN P, P[x].leaf
        PROVE  x \in DOMAIN Q /\ Q[x].leaf /\ (x # p => Q[x].next = P[x].next)
    <3>1. x # up
      BY <1>2, <2>1 DEF Kin
    <3>2. CASE x = p
      BY <1>2, <1>10, <2>1, <3>2 DEF n, P
    <3>3. CASE x # p
      BY <1>2, <2>1, <3>1, <3>3 DEF Moved
    <3>4. QED
      BY <3>2, <3>3
  <2>2. P[p].leaf => q \in DOMAIN Q /\ Q[q].leaf /\ Q[p].next = q /\ Q[q].next = P[p].next
    BY <1>2, <1>10 DEF Moved, n, P
  <2>3. QED
    BY <2>1, <2>2 DEF SplitLinks
<1>15. Linked(Q, own2)
  BY <1>3, <1>4, <1>5, <1>9, <1>12, <1>14, DividedLinked DEF ZeroLink
<1>16. root # p /\ root \in DOMAIN P
  BY <1>1 DEF Family, root, P
<1>17. Search(Q, root, own2, E)
  BY <1>3, <1>4, <1>11, <1>13, <1>15, <1>16 DEF Search
<1>18. QED
  BY <1>2, <1>17 DEF Q, root, Searchable

\* The root is split: every key is found below the new root.
LEMMA SplitRootSearch ==
  ASSUME last \in Nat \ {0}, NEW t, NEW lev, NEW p, p = t.root_page_id_, Good(t, lev, p),
         GetSize(t.pages[p]) = GetMaxSize(t.pages[p]) + 1,
         NEW q, q \in Nat \ {0, 1}, q \notin DOMAIN t.pages,
         NEW u, u = InsertIntoParent(Split(t, p, q), p, q),
         NEW E, Searchable(t, E)
  PROVE  Searchable(u, E)
<1>own. PICK own : Search(t.pages, t.root_page_id_, own, E)
  BY DEF Searchable
<1> DEFINE P == t.pages
           Q == u.pages
           n == P[p]
           l == LowerHalf(n, q)
           r == UpperHalf(n)
           k == KeyAt(r, 1)
           c == u.root_page_id_
           own1 == OwnAfter(own, DOMAIN Q, p, q, k)
           own2 == [x \in DOMAIN Q |-> IF x = c THEN Key ELSE own1[x]]
<1>0. p \in DOMAIN P
  BY DEF Good, Shape, Family
<1>1. /\ IsTree(t) /\ Pages(P) /\ Family(P, p, lev) /\ GetSize(n) >= 4
      /\ \A x \in DOMAIN P : IsNode(P[x]) /\ GetSize(P[x]) >= 1
  BY <1>0, FullPage
<1>2. /\ u.recorded = IF t.recorded = NoRecord THEN NoRecord ELSE c
      /\ c \notin DOMAIN P /\ c # q
      /\ DOMAIN Q = DOMAIN P \union {q, c}
      /\ Moved(Q[p], l, c) /\ Moved(Q[q], r, c)
      /\ Q[c] = RootOver(p, k, q)
      /\ \A x \in DOMAIN P \ {p} :
           /\ x \in Kin(r) => Moved(Q[x], P[x], q)
           /\ x \notin Kin(r) => Q[x] = P[x]
  BY <1>1, SplitRootPages
<1>3. /\ own2[p] = Below(own[p], k) /\ own2[q] = From(own[p], k) /\ own2[c] = Key
      /\ \A x \in DOMAIN P \ {p} : own2[x] = own[x]
  BY <1>0, <1>2 DEF OwnAfter
<1>4. /\ own[p] = Key
      /\ \A x \in DOMAIN P : own[x] \subseteq Key /\ Answers(P[x], own[x], own, E)
      /\ Apart(P, own) /\ Linked(P, own)
  BY <1>own DEF Search
<1>5. u.recorded = c
  <2>1. t.recorded # NoRecord
    BY <1>0, <1>1 DEF NoRecord, Pages, Searchable
  <2>2. QED
    BY <1>2, <2>1
<1> HIDE DEF own2, P, Q, k, c
<1>6. Divided(own, own2, p, q, k) /\ q \notin DOMAIN P
  BY <1>3 DEF Divided, P
<1>7. \A x \in DOMAIN P : \A y \in Kin(P[x]) : own2[y] = own[y]
  <2>1. \A x \in DOMAIN P : Kin(P[x]) \subseteq DOMAIN P /\ p \notin Kin(P[x])
    BY <1>1, FamilyFacts DEF Family, Kids
  <2>2. QED
    BY <1>3, <2>1
<1>8. IsNode(n) /\ own[p] \subseteq Key /\ Answers(n, own[p], own, E) /\ \A y \in Kin(n) : own2[y] = own[y]
  BY <1>0, <1>1, <1>4, <1>7
<1>9. /\ k \in own[p]
      /\ Answers(l, own2[p], own2, E) /\ Answers(r, own2[q], own2, E)
  <2> DEFINE K == own[p]
  <2>1. k \in K /\ Answers(l, Below(K, k), own2, E) /\ Answers(r, From(K, k), own2, E)
    <3> HIDE DEF K, n
    <3>1. GetSize(n) >= 4 /\ K \subseteq Key /\ Answers(n, K, own, E)
      BY <1>1, <1>8 DEF K
    <3>2. QED
      BY <1>8, <3>1, SplitAnswers DEF k
  <2>2. QED
    BY <1>3, <2>1
<1>10. /\ IsNode(r) /\ GetSize(r) >= 1 /\ IsNode(l) /\ GetSize(l) >= 1
       /\ l.leaf = n.leaf /\ r.leaf = n.leaf
       /\ r.next = n.next /\ (n.leaf => l.next = q)
  <2>1. /\ IsNode(r) /\ GetSize(r) = GetSize(n) - GetSize(n) \div 2
        /\ IsNode(l) /\ GetSize(l) = GetSize(n) \div 2
        /\ l.leaf = n.leaf /\ r.leaf = n.leaf /\ GetSize(n) \in Nat
        /\ r.next = n.next /\ (n.leaf => l.next = q)
    <3> HIDE DEF n
    <3>1. QED
      BY <1>8, HalfNodes, NodeSize
  <2>2. QED
    BY <1>1, <2>1
<1>11. p # q /\ k \in Key
  BY <1>0, <1>4, <1>6, <1>9
<1> HIDE DEF l, r, n
<1>12. ~Q[c].leaf /\ Answers(Q[c], Key, own2, E)
  <2>1. ~Q[c].leaf /\ Kin(Q[c]) = {p, q}
    BY <1>2, <1>11, NewRootNode
  <2>2. /\ Sorted(Q[c], 2, Key)
        /\ \A j \in Key : ChildFor(Q[c], j) = IF j < k THEN p ELSE q
    BY <1>2, <1>11, RootSeparator
  <2>3. own2[p] = Below(Key, k) /\ own2[q] = From(Key, k)
    BY <1>3, <1>4
  <2>4. \A j \in Key : j \in own2[ChildFor(Q[c], j)]
    BY <2>2, <2>3 DEF Below, From
  <2>5. \A y \in {p, q} : \A j \in own2[y] : j \in Key /\ ChildFor(Q[c], j) = y
    BY <2>2, <2>3 DEF Below, From
  <2>6. QED
    BY <2>1, <2>2, <2>4, <2>5 DEF Answers, Leads
<1>13. ASSUME NEW x \in DOMAIN Q PROVE own2[x] \subseteq Key /\ Answers(Q[x], own2[x], own2, E)
  <2>1. CASE x = p
    <3>1. own2[x] \subseteq Key
      BY <1>3, <1>4, <2>1 DEF Below
    <3>2. Answers(Q[p], own2[p], own2, E)
      BY <1>2, <1>9, <1>10, SameAnswers DEF Moved
    <3>3. QED
      BY <2>1, <3>1, <3>2
  <2>2. CASE x = q
    <3>1. own2[x] \subseteq Key
      BY <1>3, <1>4, <2>2 DEF From
    <3>2. Answers(Q[q], own2[q], own2, E)
      BY <1>2, <1>9, <1>10, SameAnswers DEF Moved
    <3>3. QED
      BY <2>2, <3>1, <3>2
  <2>3. CASE x = c
    BY <1>3, <1>12, <2>3
  <2>4. CASE x \notin {p, q, c}
    <3>1. x \in DOMAIN P \ {p}
      BY <1>2, <2>4
    <3>2. /\ own2[x] = own[x] /\ own[x] \subseteq Key /\ Answers(P[x], own[x], own, E)
          /\ IsNode(P[x]) /\ GetSize(P[x]) >= 1 /\ \A y \in Kin(P[x]) : own2[y] = own[y]
      BY <1>1, <1>3, <1>4, <1>7, <3>1
    <3>3. Q[x].leaf = P[x].leaf /\ Q[x].array_ = P[x].array_ /\ Kin(Q[x]) = Kin(P[x])
      BY <1>2, <3>1 DEF Moved
    <3>4. Answers(Q[x], own[x], own2, E)
      BY <3>2, <3>3, SameAnswers
    <3>5. QED
      BY <3>2, <3>4
  <2>5. QED
    BY <2>1, <2>2, <2>3, <2>4
<1>14. SplitLeaves(P, Q, p, q)
  <2>1. SUFFICES ASSUME NEW x \in DOMAIN Q, Q[x].leaf
                 PROVE  (x \in DOMAIN P /\ P[x].leaf) \/ (x = q /\ P[p].leaf)
    BY DEF SplitLeaves
  <2>2. CASE x = p
    BY <1>0, <1>2, <1>10, <2>1, <2>2 DEF Moved, n
  <2>3. CASE x = q
    BY <1>2, <1>10, <2>1, <2>3 DEF Moved, n
  <2>4. CASE x = c
    BY <1>12, <2>1, <2>4
  <2>5. CASE x \notin {p, q, c}
    BY <1>2, <2>1, <2>5 DEF Moved
  <2>6. QED
    BY <2>2, <2>3, <2>4, <2>5
<1>15. Apart(Q, own2)
  BY <1>0, <1>3, <1>4, <1>6, <1>14, DividedApart
<1>16. SplitLinks(P, Q, p, q)
  <2>1. ASSUME NEW x \in DOMAIN P, P[x].leaf
        PROVE  x \in DOMAIN Q /\ Q[x].leaf /\ (x # p => Q[x].next = P[x].next)
    <3>1. CASE x = p
      BY <1>2, <1>10, <2>1, <3>1 DEF Moved, n
    <3>2. CASE x # p
      BY <1>2, <2>1, <3>2 DEF Moved
    <3>3. QED
      BY <3>1, <3>2
  <2>2. P[p].leaf => q \in DOMAIN Q /\ Q[q].leaf /\ Q[p].next = q /\ Q[q].next = P[p].next
    BY <1>2, <1>10 DEF Moved, n
  <2>3. QED
    BY <2>1, <2>2 DEF SplitLinks
<1>17. Linked(Q, own2)
  BY <1>0, <1>3, <1>4, <1>6, <1>9, <1>14, <1>16, DividedLinked DEF ZeroLink
<1>18. Search(Q, c, own2, E)
  BY <1>3, <1>13, <1>15, <1>17 DEF Search
<1>19. QED
  BY <1>5, <1>18 DEF Q, c, Searchable

\* SplitIfFull: every key is still found.
LEMMA SplitSearch ==
  ASSUME last \in Nat \ {0}, NEW t, NEW lev, NEW p \in DOMAIN t.pages, Good(t, lev, p), IsOver(t.pages[p]),
         NEW E, Searchable(t, E)
  PROVE  Searchable(SplitIfFull(t, p).tree, E)
<1> DEFINE n == t.pages[p]
           q == NewPageId(t)
           u == InsertIntoParent(Split(t, p, q), p, q)
           a == SplitIfFull(t, p)
<1>3. GetSize(n) \in Nat /\ GetMinSize(n) \in Nat /\ GetMaxSize(n) \in Nat /\ IsFiniteSet(DOMAIN t.pages) /\ DOMAIN t.pages \subseteq Nat \ {0, 1}
  <2>1. IsNode(n) /\ IsFiniteSet(DOMAIN t.pages) /\ DOMAIN t.pages \subseteq Nat \ {0, 1}
    BY DEF Good, Shape, Pages
  <2>2. QED
    BY <2>1, NodeSize, Limits
<1>4. CASE GetSize(n) <= GetMaxSize(n)
  <2>1. a.tree = t
    BY <1>4 DEF SplitIfFull, Arrived
  <2>2. QED
    BY <2>1
<1>5. CASE ~(GetSize(n) <= GetMaxSize(n))
  <2>1. a = Arrived(u, n.parent)
    BY <1>5 DEF SplitIfFull
  <2> HIDE DEF u, a
  <2>2. a.tree = u
    BY <2>1 DEF Arrived
  <2>3. GetSize(n) = GetMaxSize(n) + 1
    BY <1>3, <1>5 DEF IsOver
  <2>4. q \in Nat \ {0, 1} /\ q \notin DOMAIN t.pages
    BY <1>3, NewPageIsNew
  <2>5. u = InsertIntoParent(Split(t, p, q), p, q)
    BY DEF u
  <2> HIDE DEF q
  <2>6. Searchable(u, E)
    <3>1. CASE p = t.root_page_id_
      BY <2>3, <2>4, <2>5, <3>1, SplitRootSearch
    <3>2. CASE p # t.root_page_id_
      BY <2>3, <2>4, <2>5, <3>2, SplitBelowSearch
    <3>3. QED
      BY <3>1, <3>2
  <2>7. QED
    BY <2>2, <2>6 DEF a
<1>6. QED
  BY <1>4, <1>5

\* The calls of InsertIntoParent leave every key to be found.
LEMMA SplitLoopSearch ==
  ASSUME last \in Nat \ {0}, NEW t, NEW lev, NEW p \in DOMAIN t.pages, Good(t, lev, p), IsOver(t.pages[p]),
         lev[p] = 0, Steps(t) \in Nat, NEW E, Searchable(t, E)
  PROVE  Searchable(SplitUpwards(t, p)[Steps(t)].tree, E)
<1> DEFINE L == lev[t.root_page_id_]
           n == Steps(t)
           at == SplitUpwards(t, p)
           Fine(d) == OnWayUp(at[d], d, L) /\ Searchable(at[d].tree, E)
           Bad == {d \in Nat : d <= n /\ ~Fine(d)}
<1>1. n \in Nat
  OBVIOUS
<1>2. at[0] = Arrived(t, p) /\ \A d \in 1 .. n : at[d] = SplitOn(at[d - 1])
  BY SplitUpwardsDef
<1> HIDE DEF at
<1>3. Bad = {}
  <2>1. SUFFICES ASSUME NEW d \in Bad, \A j \in Bad : d <= j PROVE FALSE
    <3>1. Bad \subseteq Nat
      OBVIOUS
    <3> HIDE DEF Bad
    <3>2. QED
      BY <3>1, LeastElement
  <2>2. d \in Nat /\ d <= n /\ ~Fine(d)
    OBVIOUS
  <2>3. d # 0
    <3>1. at[0].tree = t /\ at[0].page = p
      BY <1>2 DEF Arrived
    <3>2. OnWayUp(at[0], 0, L)
      BY <3>1 DEF OnWayUp
    <3>3. QED
      BY <2>2, <3>1, <3>2
  <2>4. d - 1 \in Nat /\ d - 1 \notin Bad /\ d - 1 <= n /\ d \in 1 .. n
    <3> HIDE DEF Bad, n
    <3>1. QED
      BY <1>1, <2>1, <2>2, <2>3
  <2>5. Fine(d - 1)
    BY <2>4
  <2> DEFINE e == d - 1
             b == at[e]
  <2>6. OnWayUp(b, e, L) /\ Searchable(b.tree, E) /\ at[d] = SplitOn(b) /\ e + 1 = d
    BY <1>2, <2>4, <2>5
  <2> HIDE DEF b, e, L
  <2>7. OnWayUp(SplitOn(b), e + 1, L)
    BY <2>6, SplitOnUp
  <2>8. Searchable(SplitOn(b).tree, E)
    <3>1. CASE b.page = INVALID_PAGE_ID
      BY <2>6, <3>1 DEF SplitOn
    <3>2. CASE b.page # INVALID_PAGE_ID
      <4>1. PICK h : /\ Good(b.tree, h, b.page)
                     /\ b.page \in DOMAIN b.tree.pages /\ IsOver(b.tree.pages[b.page])
        BY <2>6, <3>2 DEF OnWayUp
      <4>2. Searchable(SplitIfFull(b.tree, b.page).tree, E)
        BY <2>6, <4>1, SplitSearch
      <4>3. QED
        BY <3>2, <4>2 DEF SplitOn
    <3>3. QED
      BY <3>1, <3>2
  <2>9. Fine(d)
    BY <2>6, <2>7, <2>8
  <2>10. QED
    BY <2>2, <2>9
<1>4. Fine(n)
  BY <1>1, <1>3
<1>5. QED
  BY <1>4 DEF at

\* FindLeafPage comes to the leaf to which the key belongs.
LEMMA FindLeafOwn ==
  ASSUME NEW t, NEW lev, Sound(t.pages, t.root_page_id_, lev), NEW k \in Key,
         NEW own, NEW E, Search(t.pages, t.root_page_id_, own, E)
  PROVE  k \in own[FindLeafPage(t, k)]
<1> DEFINE P == t.pages
           n == Steps(t)
           m == FALSE
           way == Descend(t, k, m)
           At(d) == way[d] \in DOMAIN P /\ k \in own[way[d]]
           Bad == {d \in Nat : d <= n /\ ~At(d)}
<1>1. n \in Nat
  BY Height DEF Steps
<1>2. FindLeafPage(t, k) = way[n]
  BY Zenon DEF FindLeafPage
<1>3. way[0] = t.root_page_id_ /\ \A d \in 1 .. n : way[d] = Down(t, k, m, way[d - 1])
  <2> HIDE DEF m
  <2>1. QED
    BY <1>1, DescendDef
<1> HIDE DEF way
<1>4. Bad = {}
  <2>1. SUFFICES ASSUME NEW d \in Bad, \A j \in Bad : d <= j PROVE FALSE
    <3>1. Bad \subseteq Nat
      OBVIOUS
    <3> HIDE DEF Bad
    <3>2. QED
      BY <3>1, LeastElement
  <2>2. d \in Nat /\ d <= n /\ ~At(d)
    OBVIOUS
  <2>3. d # 0
    <3>1. At(0)
      BY <1>3 DEF Sound, Family, Search
    <3>2. QED
      BY <2>2, <3>1
  <2>4. d - 1 \in Nat /\ d - 1 \notin Bad /\ d - 1 <= n /\ d \in 1 .. n
    <3> HIDE DEF Bad, n
    <3>1. QED
      BY <1>1, <2>1, <2>2, <2>3
  <2>5. At(d - 1)
    BY <2>4
  <2> DEFINE q == way[d - 1]
  <2>6. way[d] = Down(t, k, m, q)
    BY <1>3, <2>4
  <2>7. q \in DOMAIN P /\ k \in own[q]
    BY <2>5
  <2> HIDE DEF q
  <2>8. CASE P[q].leaf
    <3>1. way[d] = q
      BY <2>6, <2>8 DEF Down
    <3>2. QED
      BY <2>2, <2>7, <3>1
  <2>9. CASE ~P[q].leaf
    <3>1. ChildFor(P[q], k) \in Kin(P[q])
      BY <2>7, <2>9, HasKin, ChildForKin
    <3>2. way[d] = ChildFor(P[q], k)
      BY <2>6, <2>9 DEF Down
    <3>3. way[d] \in DOMAIN P
      BY <2>7, <3>1, <3>2 DEF Sound, Family, Kids
    <3>4. k \in own[ChildFor(P[q], k)]
      BY <2>7, <2>9 DEF Search, Answers, Leads
    <3>5. QED
      BY <2>2, <3>2, <3>3, <3>4
  <2>10. QED
    BY <2>8, <2>9
<1>5. At(n)
  BY <1>1, <1>4
<1>6. QED
  BY <1>2, <1>5

\* What the callers have put in the index, after they put in a row under a key.
Entered(E, k, v) == [E EXCEPT ![k] = IF @ = {} THEN {v} ELSE @]

Entries == [Key -> SUBSET {FirstRow, OtherRow}]

\* A pair is put in the leaf to which its key belongs.
LEMMA PutSearch ==
  ASSUME NEW P, NEW root, NEW own, NEW E \in Entries, Search(P, root, own, E),
         NEW p \in DOMAIN P, P[p].leaf, IsNode(P[p]),
         NEW k \in own[p], NEW v \in {FirstRow, OtherRow}, ~Holds(P[p], k),
         NEW Q, DOMAIN Q = DOMAIN P, Q[p] = LeafInsert(P[p], k, v), Q[p].leaf,
         Q[p].next = P[p].next,
         \A x \in DOMAIN P \ {p} : Q[x] = P[x]
  PROVE  Search(Q, root, own, Entered(E, k, v))
<1> DEFINE F == Entered(E, k, v)
<1>1. /\ own[root] = Key
      /\ \A x \in DOMAIN P : own[x] \subseteq Key /\ Answers(P[x], own[x], own, E)
      /\ Apart(P, own) /\ Linked(P, own)
  BY DEF Search
<1>2. Sorted(P[p], 1, own[p]) /\ \A j \in own[p] : Rows(P[p], j) = E[j]
  BY <1>1 DEF Answers
<1>3. k \in Key /\ own[p] \subseteq Key
  BY <1>1
<1>4. E[k] = {}
  <2>1. Rows(P[p], k) = {}
    BY <1>2, <1>3, HoldsRows
  <2>2. QED
    BY <1>2, <2>1
<1>5. F[k] = {v} /\ \A j \in Key : j # k => F[j] = E[j]
  BY <1>3, <1>4 DEF Entered, Entries
<1> HIDE DEF F
<1>6. Answers(Q[p], own[p], own, F)
  <2>1. /\ Sorted(Q[p], 1, own[p])
        /\ \A j \in Key : Rows(Q[p], j) = IF j = k THEN {v} ELSE Rows(P[p], j)
    BY <1>2, <1>3, InsertKey
  <2>2. \A j \in own[p] : Rows(Q[p], j) = F[j]
    BY <1>2, <1>3, <1>5, <2>1
  <2>3. QED
    BY <2>1, <2>2 DEF Answers
<1>7. ASSUME NEW x \in DOMAIN P, x # p PROVE Answers(Q[x], own[x], own, F)
  <2>1. Q[x] = P[x] /\ Answers(P[x], own[x], own, E) /\ own[x] \subseteq Key
    BY <1>1, <1>7
  <2>2. CASE P[x].leaf
    <3>1. own[x] \intersect own[p] = {}
      BY <1>1, <1>7, <2>2 DEF Apart
    <3>2. \A j \in own[x] : F[j] = E[j]
      BY <1>5, <2>1, <3>1
    <3>3. QED
      BY <2>1, <2>2, <3>2 DEF Answers
  <2>3. CASE ~P[x].leaf
    BY <2>1, <2>3 DEF Answers
  <2>4. QED
    BY <2>2, <2>3
<1>8. Apart(Q, own)
  <2>1. SUFFICES ASSUME NEW x \in DOMAIN P, NEW y \in DOMAIN P, Q[x].leaf, Q[y].leaf, x # y
                 PROVE  own[x] \intersect own[y] = {}
    BY DEF Apart
  <2>2. P[x].leaf /\ P[y].leaf
    BY <2>1
  <2>3. QED
    BY <1>1, <2>1, <2>2 DEF Apart
<1>9. Linked(Q, own)
  <2>1. \A x \in DOMAIN P : Q[x].next = P[x].next /\ (Q[x].leaf <=> P[x].leaf)
    OBVIOUS
  <2>2. QED
    BY <1>1, <2>1 DEF Linked
<1>10. QED
  BY <1>1, <1>6, <1>7, <1>8, <1>9 DEF Search, F

\* InsertIntoLeaf: the row is found under its key, if there was none, and the rows
\* of other keys are found as before.
LEMMA InsertSearch ==
  ASSUME last \in Nat \ {0}, NEW t, InOrder(t), NEW E \in Entries, Searchable(t, E),
         NEW k \in Key, NEW v \in {FirstRow, OtherRow}
  PROVE  Searchable(InsertIntoLeaf(t, k, v), Entered(E, k, v))
<1>1. PICK lev : Good(t, lev, INVALID_PAGE_ID)
  BY DEF InOrder
<1>2. PICK own : Search(t.pages, t.root_page_id_, own, E)
  BY DEF Searchable
<1> DEFINE P == t.pages
           p == FindLeafPage(t, k)
           n == P[p]
           r == LeafInsert(n, k, v)
           s == [t EXCEPT !.pages[p] = r]
           u == InsertIntoLeaf(t, k, v)
           F == Entered(E, k, v)
<1>3. /\ Sound(P, t.root_page_id_, lev) /\ Steps(t) \in Nat
      /\ \A q \in DOMAIN P : IsNode(P[q]) /\ Filled(P[q])
      /\ \A q \in DOMAIN P : P[q].leaf => lev[q] = 0
  BY <1>1, InOrderFacts
<1>4. p \in DOMAIN P /\ n.leaf /\ k \in own[p]
  BY <1>2, <1>3, FindLeaf, FindLeafOwn
<1>5. u = IF Holds(n, k) THEN t ELSE SplitUpwards(s, p)[Steps(t)].tree
  BY Zenon DEF InsertIntoLeaf
<1> HIDE DEF p, u
<1>6. IsNode(n) /\ Filled(n) /\ lev[p] = 0
  BY <1>3, <1>4
<1>7. /\ IsNode(r) /\ GetSize(r) = GetSize(n) + 1 /\ Kin(r) = {}
      /\ r.leaf /\ r.parent = n.parent /\ r.next = n.next
  <2> HIDE DEF n
  <2>1. QED
    BY <1>4, <1>6, LeafInsertNode
<1>8. CASE Holds(n, k)
  <2>1. own[p] \subseteq Key /\ Sorted(n, 1, own[p]) /\ Rows(n, k) = E[k]
    BY <1>2, <1>4 DEF Search, Answers
  <2>2. Rows(n, k) # {}
    <3> HIDE DEF n
    <3>1. QED
      BY <1>6, <1>8, <2>1, HoldsRows
  <2>3. F = E
    BY <2>1, <2>2 DEF Entered, Entries
  <2>4. QED
    BY <1>5, <1>8, <2>3 DEF u
<1>9. CASE ~Holds(n, k)
  <2>0. r = LeafInsert(n, k, v)
    OBVIOUS
  <2> HIDE DEF r
  <2>1. Replaced(t, s, p, r)
    <3>1. r.leaf = n.leaf
      <4>1. r.leaf \in BOOLEAN /\ n.leaf \in BOOLEAN
        BY <1>6, <1>7 DEF IsNode
      <4>2. QED
        BY <1>4, <1>7, <4>1
    <3>2. Kin(n) = {}
      BY <1>4 DEF Kin
    <3>3. IsTree(t)
      BY <1>1 DEF Good
    <3>4. QED
      BY <1>4, <1>7, <3>1, <3>2, <3>3 DEF Replaced
  <2>2. s.recorded = t.recorded /\ \A x \in DOMAIN P \ {p} : s.pages[x] = P[x]
    BY <1>1 DEF Good, IsTree
  <2> HIDE DEF s
  <2>3. /\ Good(s, lev, p) /\ DOMAIN s.pages = DOMAIN P
        /\ s.pages[p] = r /\ \A x \in DOMAIN P \ {p} : s.pages[x] = P[x]
        /\ s.root_page_id_ = t.root_page_id_
    <3>1. /\ Good(s, lev, p) /\ DOMAIN s.pages = DOMAIN P
          /\ s.pages[p] = r /\ s.root_page_id_ = t.root_page_id_
      BY <1>1, <2>1, ReplacePage
    <3>2. \A x \in DOMAIN P \ {p} : s.pages[x] = P[x]
      BY <2>2
    <3>3. QED
      BY <3>1, <3>2
  <2>4. Search(s.pages, t.root_page_id_, own, F)
    BY <1>2, <1>4, <1>6, <1>7, <1>9, <2>0, <2>3, PutSearch
  <2>5. Searchable(s, F)
    BY <2>2, <2>3, <2>4 DEF Searchable
  <2>6. IsOver(r)
    <3>1. GetMinSize(r) = GetMinSize(n) /\ GetMaxSize(r) = GetMaxSize(n)
      BY <1>4, <1>7 DEF GetMinSize, GetMaxSize, IsRootPage
    <3>2. GetMinSize(n) \in Nat /\ GetMaxSize(n) \in Nat /\ GetSize(n) \in Nat
      BY <1>6, NodeSize, Limits
    <3>3. QED
      BY <1>6, <1>7, <3>1, <3>2 DEF Filled, IsOver
  <2>7. Steps(s) = Steps(t) /\ Steps(s) \in Nat
    BY <1>3, <2>3 DEF Steps
  <2> HIDE DEF F
  <2>8. Searchable(SplitUpwards(s, p)[Steps(s)].tree, F)
    BY <1>4, <1>6, <2>3, <2>5, <2>6, <2>7, SplitLoopSearch
  <2>9. u = SplitUpwards(s, p)[Steps(s)].tree
    BY <1>5, <1>9, <2>7
  <2>10. QED
    BY <2>8, <2>9 DEF u, F
<1>10. QED
  BY <1>8, <1>9

\* The rows that are found are those that were put in.
LEMMA SearchLookups ==
  ASSUME NEW t, InOrder(t), NEW E, Searchable(t, E), NEW k \in Key
  PROVE  GetValue(t, k) = E[k]
<1>1. PICK lev : Good(t, lev, INVALID_PAGE_ID)
  BY DEF InOrder
<1>2. PICK own : Search(t.pages, t.root_page_id_, own, E)
  BY DEF Searchable
<1> DEFINE p == FindLeafPage(t, k)
           n == t.pages[p]
<1>3. /\ Sound(t.pages, t.root_page_id_, lev) /\ ~IsEmpty(t)
      /\ \A q \in DOMAIN t.pages : IsNode(t.pages[q])
  BY <1>1, InOrderFacts
<1>4. p \in DOMAIN t.pages /\ n.leaf /\ k \in own[p]
  BY <1>2, <1>3, FindLeaf, FindLeafOwn
<1>5. GetValue(t, k) = IF Holds(n, k) THEN {ValueAt(n, KeyIndex(n, k))} ELSE {}
  BY <1>3, Zenon DEF GetValue
<1> HIDE DEF p
<1>6. IsNode(n) /\ own[p] \subseteq Key /\ Sorted(n, 1, own[p]) /\ Rows(n, k) = E[k]
  BY <1>2, <1>3, <1>4 DEF Search, Answers
<1> HIDE DEF n
<1>7. Rows(n, k) = IF Holds(n, k) THEN {ValueAt(n, KeyIndex(n, k))} ELSE {}
  BY <1>6, HoldsRows
<1>8. QED
  BY <1>5, <1>6, <1>7

\* StartNewTree: the row is found under its key, and no other one.
LEMMA StartSearch ==
  ASSUME NEW t, Emptied(t), t.recorded = NoRecord, NEW k \in Key, NEW v \in {FirstRow, OtherRow},
         NEW E \in Entries, \A j \in Key : E[j] = {}
  PROVE  Searchable(StartNewTree(t, k, v), Entered(E, k, v))
<1> DEFINE p == NewPageId(t)
           e == <<k, v>>
           n == NewLeaf(<<e>>)
           C == Put(t.pages, p, n)
           w == [t EXCEPT !.root_page_id_ = p, !.pages = C]
           u == StartNewTree(t, k, v)
           F == Entered(E, k, v)
           own == [x \in {p} |-> Key]
<1>1. IsTree(t) /\ DOMAIN t.pages = {}
  BY DEF Emptied
<1>2. u = InsertRecord(w)
  BY Zenon DEF StartNewTree, UpdateRootPageId
<1> HIDE DEF p, u
<1>3. n.leaf /\ n.array_ = <<e>> /\ n.next = ZeroLink
  BY DEF NewLeaf
<1>4. GetSize(n) = 1 /\ KeyAt(n, 1) = k /\ ValueAt(n, 1) = v
  BY <1>3 DEF GetSize, KeyAt, ValueAt
<1> HIDE DEF n
<1>5. DOMAIN C = {p} /\ C[p] = n
  BY <1>1 DEF Put
<1> HIDE DEF C
<1>6. IsTree(w) /\ w.root_page_id_ = p /\ w.pages = C /\ w.recorded = NoRecord
  <2>1. w = [t EXCEPT !.root_page_id_ = p, !.pages = C] /\ IsTree(t)
    BY <1>1
  <2> HIDE DEF w
  <2>2. w = [root_page_id_ |-> p, pages |-> C, recorded |-> t.recorded]
    BY <2>1 DEF IsTree
  <2>3. QED
    BY <2>2, MakeTree
<1> HIDE DEF w
<1>7. u.root_page_id_ = p /\ u.pages = C /\ u.recorded = p
  <2>1. u = [w EXCEPT !.recorded = w.root_page_id_]
    BY <1>2, <1>6 DEF InsertRecord
  <2>2. QED
    BY <1>6, <2>1 DEF IsTree
<1>8. F[k] = {v} /\ \A j \in Key : j # k => F[j] = {}
  BY DEF Entered, Entries
<1> HIDE DEF F
<1>9. Sorted(n, 1, Key)
  BY <1>4 DEF Sorted
<1>10. ASSUME NEW j \in Key PROVE Rows(n, j) = F[j]
  <2>1. CASE j = k
    BY <1>4, <1>8, <2>1 DEF Rows
  <2>2. CASE j # k
    BY <1>4, <1>8, <2>2 DEF Rows
  <2>3. QED
    BY <2>1, <2>2
<1>11. Answers(n, Key, own, F)
  BY <1>3, <1>9, <1>10 DEF Answers
<1>12. own[p] = Key
  OBVIOUS
<1> HIDE DEF own
<1>13. Linked(C, own)
  BY <1>3, <1>5, <1>12 DEF Linked, Together
<1>14. Search(C, p, own, F)
  BY <1>5, <1>11, <1>12, <1>13 DEF Search, Apart
<1>15. Searchable(u, F)
  BY <1>7, <1>14 DEF Searchable
<1>16. QED
  BY <1>15 DEF u, F

-----------------------------------------------------------------------------
(***************************************************************************)
(* An index that only grows is empty, or its pages form a tree that is in  *)
(* order and in which every key is found and every leaf linked to the next.*)
(***************************************************************************)
NewIndex == Emptied(tree) /\ tree.recorded = NoRecord /\ \A k \in Key : entries[k] = {}

GrowInv ==
  /\ last \in Nat \ {0} /\ borrowed = FALSE
  /\ entries \in Entries
  /\ NewIndex \/ (InOrder(tree) /\ Searchable(tree, entries))

\* A new index is empty.
LEMMA GrowInit ==
  Init => GrowInv
<1>1. ASSUME Init PROVE GrowInv
  <2>1. tree = [root_page_id_ |-> INVALID_PAGE_ID, pages |-> <<>>, recorded |-> NoRecord]
    BY <1>1 DEF Init
  <2>2. IsTree(tree) /\ tree.root_page_id_ = INVALID_PAGE_ID /\ tree.pages = <<>> /\ tree.recorded = NoRecord
    BY <2>1 DEF IsTree
  <2>3. DOMAIN tree.pages = {}
    BY <2>2
  <2>4. entries = [k \in Key |-> {}]
    BY <1>1 DEF Init
  <2>5. entries \in Entries /\ \A k \in Key : entries[k] = {}
    BY <2>4 DEF Entries
  <2>6. QED
    BY <1>1, <2>2, <2>3, <2>5 DEF GrowInv, NewIndex, Emptied, Init, FirstPage
<1>2. QED
  BY <1>1

\* An insertion keeps every key to be found.
LEMMA GrowInsert ==
  ASSUME GrowInv, NEW k \in Key, NEW v \in {FirstRow, OtherRow}, InsertEntry(k, v)
  PROVE  GrowInv'
<1>1. /\ tree' = AfterInsert(tree, k, v) /\ entries' = Entered(entries, k, v)
      /\ last' = Max({last} \union DOMAIN tree'.pages) /\ borrowed' = borrowed
  BY DEF InsertEntry, Entered
<1>0. last \in Nat \ {0} /\ borrowed' = FALSE
  BY <1>1 DEF GrowInv
<1>2. entries \in Entries /\ Entered(entries, k, v) \in Entries
  BY DEF GrowInv, Entered, Entries
<1>3. CASE NewIndex
  <2>1. Emptied(tree) /\ tree.recorded = NoRecord /\ \A j \in Key : entries[j] = {}
    BY <1>3 DEF NewIndex
  <2>2. tree' = StartNewTree(tree, k, v)
    BY <1>1, <2>1 DEF AfterInsert, Emptied, IsEmpty
  <2>3. InOrder(StartNewTree(tree, k, v))
    BY <1>0, <2>1, StartTree
  <2>4. Searchable(StartNewTree(tree, k, v), Entered(entries, k, v))
    BY <1>2, <2>1, StartSearch
  <2>5. last' \in Nat \ {0}
    BY <1>0, <1>1, <2>2, <2>3, LastStep
  <2>6. QED
    BY <1>0, <1>1, <1>2, <2>2, <2>3, <2>4, <2>5 DEF GrowInv
<1>4. CASE InOrder(tree) /\ Searchable(tree, entries)
  <2>1. PICK lev : Good(tree, lev, INVALID_PAGE_ID)
    BY <1>4 DEF InOrder
  <2>2. ~IsEmpty(tree)
    BY <2>1, InOrderFacts
  <2>3. tree' = InsertIntoLeaf(tree, k, v)
    BY <1>1, <2>2 DEF AfterInsert
  <2>4. InOrder(InsertIntoLeaf(tree, k, v))
    BY <1>0, <1>4, InsertTree
  <2>5. Searchable(InsertIntoLeaf(tree, k, v), Entered(entries, k, v))
    BY <1>0, <1>2, <1>4, InsertSearch
  <2>6. last' \in Nat \ {0}
    BY <1>0, <1>1, <2>3, <2>4, LastStep
  <2>7. QED
    BY <1>0, <1>1, <1>2, <2>3, <2>4, <2>5, <2>6 DEF GrowInv
<1>5. QED
  BY <1>3, <1>4 DEF GrowInv

\* Every step of an index that only grows keeps every key to be found.
LEMMA GrowStep ==
  GrowInv /\ [GrowNext]_vars => GrowInv'
<1> SUFFICES ASSUME GrowInv, [GrowNext]_vars PROVE GrowInv'
  OBVIOUS
<1>1. CASE UNCHANGED vars
  BY <1>1 DEF vars, GrowInv, NewIndex
<1>2. ASSUME NEW k \in Key, InsertEntry(k, FirstRow) PROVE GrowInv'
  BY <1>2, GrowInsert
<1>3. ASSUME NEW k \in Key, InsertEntry(k, OtherRow) PROVE GrowInv'
  BY <1>3, GrowInsert
<1>4. CASE Reopen
  <2>1. TreeInv /\ ~Unrecorded
    <3>1. CASE NewIndex
      BY <3>1 DEF GrowInv, NewIndex, TreeInv, Unrecorded, Emptied, IsEmpty
    <3>2. CASE InOrder(tree) /\ Searchable(tree, entries)
      BY <3>2 DEF GrowInv, TreeInv, Searchable, Unrecorded, IsEmpty
    <3>3. QED
      BY <3>1, <3>2 DEF GrowInv
  <2>2. tree' = tree /\ entries' = entries /\ last' = last /\ borrowed' = borrowed
    BY <1>4, <2>1, ReopenTree DEF Reopen
  <2>3. QED
    BY <2>2 DEF GrowInv, NewIndex
<1>5. QED
  BY <1>1, <1>2, <1>3, <1>4 DEF GrowNext

\* The invariant gives what GetValue answers.
LEMMA GrowFound ==
  GrowInv => Lookups
<1> SUFFICES ASSUME GrowInv, NEW k \in Key PROVE GetValue(tree, k) = entries[k]
  BY DEF Lookups
<1>1. CASE NewIndex
  BY <1>1 DEF NewIndex, Emptied, GetValue, IsEmpty
<1>2. CASE InOrder(tree) /\ Searchable(tree, entries)
  BY <1>2, SearchLookups
<1>3. QED
  BY <1>1, <1>2 DEF GrowInv

\* Keys may come in any order, pages of any size be split up to any height, and the
\* index be closed and opened at any time: as long as no key is removed, GetValue
\* answers for every key with the first row that was inserted under it, and for a
\* key that was never inserted with none.
THEOREM GrowLookups == GrowSpec => []Lookups
BY GrowInit, GrowStep, GrowFound, PTL DEF GrowSpec

-----------------------------------------------------------------------------
(***************************************************************************)
(* The iterator. It starts at the leaf with the least keys, and the links  *)
(* lead it to the next ones.                                               *)
(***************************************************************************)
\* All keys outside K are greater.
Least(K) == \A j \in K : \A k \in Key : k \notin K => j < k

\* The first child of a page with the least keys has the least keys.
LEMMA FirstChildLeast ==
  ASSUME NEW n, IsNode(n), ~n.leaf, GetSize(n) >= 1, NEW K, K \subseteq Key, NEW own, NEW E,
         Answers(n, K, own, E), Least(K)
  PROVE  ValueAt(n, 1) \in Kin(n) /\ Least(own[ValueAt(n, 1)])
<1> DEFINE c == ValueAt(n, 1)
<1>1. Sorted(n, 2, K) /\ Leads(n, K, own)
  BY DEF Answers
<1>2. c \in Kin(n) /\ GetSize(n) \in Nat
  BY NodeSize, ChildForKin
<1>3. ASSUME NEW j \in own[c], NEW k \in Key, k \notin own[c] PROVE j < k
  <2>1. j \in K /\ ChildFor(n, j) = c
    BY <1>1, <1>2, <1>3 DEF Leads
  <2>2. Place(n, j, 1)
    BY <1>2, <2>1, ChildPlace
  <2>3. j \in Int /\ k \in Int /\ \A i \in 2 .. GetSize(n) : KeyAt(n, i) \in Int
    <3>1. K \subseteq Int /\ k \in Int
      BY KeyAssumption
    <3>2. QED
      BY <1>1, <2>1, <3>1 DEF Sorted
  <2>4. CASE k \notin K
    BY <1>3, <2>1, <2>4 DEF Least
  <2>5. CASE k \in K
    <3>1. ChildFor(n, k) # c
      BY <1>1, <1>3, <2>5 DEF Leads
    <3>2. PICK i : Place(n, k, i)
      BY PlaceExists
    <3>3. i # 1
      BY <3>1, <3>2, PlaceChild
    <3>4. i \in 2 .. GetSize(n) /\ i > 1 /\ KeyAt(n, i) <= k
      BY <1>2, <3>2, <3>3 DEF Place
    <3>5. ~(KeyAt(n, i) <= j)
      BY <2>2, <3>4 DEF Place
    <3>6. QED
      BY <2>3, <3>4, <3>5
  <2>6. QED
    BY <2>4, <2>5
<1>4. QED
  BY <1>2, <1>3 DEF Least

\* Begin: FindLeafPage with leftMost comes to the leaf with the least keys.
LEMMA FirstLeaf ==
  ASSUME NEW t, NEW lev, Sound(t.pages, t.root_page_id_, lev),
         NEW own, NEW E, Search(t.pages, t.root_page_id_, own, E)
  PROVE  LET p == LeftMost(t) IN p \in DOMAIN t.pages /\ t.pages[p].leaf /\ Least(own[p])
<1> DEFINE P == t.pages
           L == lev[t.root_page_id_]
           n == Steps(t)
           m == TRUE
           k == ZeroKey
           way == Descend(t, k, m)
           At(d) == /\ way[d] \in DOMAIN P /\ (P[way[d]].leaf \/ lev[way[d]] = L - d)
                    /\ Least(own[way[d]])
           Bad == {d \in Nat : d <= n /\ ~At(d)}
<1>1. n \in Nat /\ L \in Nat /\ L < n /\ \A p \in DOMAIN P : lev[p] \in Nat
  BY Height DEF Steps, Sound, Family, Levels
<1>2. LeftMost(t) = way[n]
  BY Zenon DEF LeftMost
<1>m. m = TRUE
  OBVIOUS
<1> HIDE DEF m, k
<1>3. way[0] = t.root_page_id_ /\ \A d \in 1 .. n : way[d] = Down(t, k, m, way[d - 1])
  BY <1>1, DescendDef
<1> HIDE DEF way
<1>4. Bad = {}
  <2>1. SUFFICES ASSUME NEW d \in Bad, \A j \in Bad : d <= j PROVE FALSE
    <3>1. Bad \subseteq Nat
      OBVIOUS
    <3> HIDE DEF Bad
    <3>2. QED
      BY <3>1, LeastElement
  <2>2. d \in Nat /\ d <= n /\ ~At(d)
    OBVIOUS
  <2>3. d # 0
    <3>1. At(0)
      BY <1>1, <1>3 DEF Sound, Family, Search, Least
    <3>2. QED
      BY <2>2, <3>1
  <2>4. d - 1 \in Nat /\ d - 1 \notin Bad /\ d - 1 <= n /\ d \in 1 .. n
    <3> HIDE DEF Bad, n
    <3>1. QED
      BY <1>1, <2>1, <2>2, <2>3
  <2>5. At(d - 1)
    BY <2>4
  <2> DEFINE q == way[d - 1]
  <2>6. way[d] = Down(t, k, m, q)
    BY <1>3, <2>4
  <2>7. q \in DOMAIN P /\ (P[q].leaf \/ lev[q] = L - (d - 1)) /\ Least(own[q])
    BY <2>5
  <2> HIDE DEF q
  <2>8. CASE P[q].leaf
    <3>1. way[d] = q
      BY <2>6, <2>8 DEF Down
    <3>2. QED
      BY <2>2, <2>7, <2>8, <3>1
  <2>9. CASE ~P[q].leaf
    <3>1. IsNode(P[q]) /\ GetSize(P[q]) >= 1
      BY <2>7, <2>9, HasKin
    <3>2. own[q] \subseteq Key /\ Answers(P[q], own[q], own, E)
      BY <2>7 DEF Search
    <3>3. way[d] = ValueAt(P[q], 1)
      BY <1>m, <2>6, <2>9 DEF Down
    <3>4. way[d] \in Kin(P[q]) /\ Least(own[way[d]])
      BY <2>7, <2>9, <3>1, <3>2, <3>3, FirstChildLeast
    <3>5. way[d] \in DOMAIN P /\ lev[q] = lev[way[d]] + 1
      BY <2>7, <3>4 DEF Sound, Family, Kids
    <3>6. lev[way[d]] = L - d
      <4>1. lev[way[d]] \in Nat /\ lev[q] = L - (d - 1)
        BY <1>1, <2>7, <2>9, <3>5
      <4>2. QED
        BY <1>1, <2>2, <3>5, <4>1
    <3>7. QED
      BY <2>2, <3>4, <3>5, <3>6
  <2>10. QED
    BY <2>8, <2>9
<1>5. At(n)
  BY <1>1, <1>4
<1>6. P[way[n]].leaf
  <2>1. CASE lev[way[n]] = L - n
    BY <1>1, <1>5, <2>1
  <2>2. QED
    BY <1>5, <2>1
<1>7. QED
  BY <1>2, <1>5, <1>6

\* One step of the iterator, over the leaf at which it is.
Advance(t, i) ==
  IF i.leaf \notin DOMAIN t.pages THEN i
  ELSE [leaf |-> t.pages[i.leaf].next, pairs |-> i.pairs \o t.pages[i.leaf].array_]

FirstPosition(t) == [leaf |-> LeftMost(t), pairs |-> <<>>]

IsIterate(t, n, f) ==
  f = [d \in 0 .. n |-> IF d = 0 THEN FirstPosition(t) ELSE Advance(t, f[d - 1])]

\* The iterator's way exists.
LEMMA IterateExists ==
  ASSUME NEW t, NEW n \in Nat
  PROVE  \E f : IsIterate(t, n, f)
<1> DEFINE IsWay(f, k) == f = [d \in 0 .. k |-> IF d = 0 THEN FirstPosition(t) ELSE Advance(t, f[d - 1])]
           Bad == {k \in Nat : ~ \E f : IsWay(f, k)}
<1>1. SUFFICES Bad = {}
  BY DEF IsIterate
<1>2. SUFFICES ASSUME NEW k \in Bad, \A j \in Bad : k <= j PROVE FALSE
  <2>1. Bad \subseteq Nat
    OBVIOUS
  <2> HIDE DEF Bad
  <2>2. QED
    BY <2>1, LeastElement
<1>3. CASE k = 0
  <2>1. IsWay([d \in 0 .. 0 |-> FirstPosition(t)], 0)
    OBVIOUS
  <2>2. QED
    BY <1>3, <2>1
<1>4. CASE k # 0
  <2>1. k \in Nat /\ k - 1 \in Nat /\ k - 1 \notin Bad
    <3>1. k \in Nat
      OBVIOUS
    <3> HIDE DEF Bad
    <3>2. QED
      BY <1>2, <1>4, <3>1
  <2>2. PICK f : IsWay(f, k - 1)
    BY <2>1
  <2> DEFINE g == [d \in 0 .. k |-> IF d = k THEN Advance(t, f[k - 1]) ELSE f[d]]
  <2>3. ASSUME NEW d \in 0 .. k
        PROVE  g[d] = IF d = 0 THEN FirstPosition(t) ELSE Advance(t, g[d - 1])
    <3>1. CASE d = k
      BY <1>4, <2>1, <3>1
    <3>2. CASE d # k
      <4>1. d \in 0 .. k - 1 /\ g[d] = f[d] /\ (d # 0 => g[d - 1] = f[d - 1])
        BY <2>1, <3>2
      <4>2. f[d] = IF d = 0 THEN FirstPosition(t) ELSE Advance(t, f[d - 1])
        BY <2>2, <4>1
      <4>3. QED
        BY <4>1, <4>2
    <3>3. QED
      BY <3>1, <3>2
  <2>4. IsWay(g, k)
    BY <2>3
  <2>5. QED
    BY <2>4
<1>5. QED
  BY <1>3, <1>4

\* The steps of the iterator.
LEMMA IterateDef ==
  ASSUME NEW t, Steps(t) \in Nat
  PROVE  LET f == Iterate(t)
         IN  f[0] = FirstPosition(t) /\ \A d \in 1 .. Steps(t) : f[d] = Advance(t, f[d - 1])
<1> DEFINE n == Steps(t)
           way == CHOOSE f : IsIterate(t, n, f)
<1>1. Iterate(t) = way
  BY DEF Iterate, IsIterate, Advance, FirstPosition
<1>2. way = [d \in 0 .. n |-> IF d = 0 THEN FirstPosition(t) ELSE Advance(t, way[d - 1])]
  <2> HIDE DEF n
  <2>1. n \in Nat
    BY DEF n
  <2>2. \E f : IsIterate(t, n, f)
    BY <2>1, IterateExists
  <2>3. IsIterate(t, n, way)
    BY <2>2, Zenon
  <2>4. QED
    BY <2>3, Zenon DEF IsIterate
<1> HIDE DEF way
<1>3. \A d \in 0 .. n : way[d] = IF d = 0 THEN FirstPosition(t) ELSE Advance(t, way[d - 1])
  BY <1>2
<1> HIDE DEF n
<1>4. n \in Nat
  BY DEF n
<1>5. way[0] = FirstPosition(t) /\ \A d \in 1 .. n : way[d] = Advance(t, way[d - 1])
  BY <1>3, <1>4
<1>6. QED
  BY <1>1, <1>5 DEF n

\* The pairs s have the keys K, in order, each with its row.
Listed(s, K, E) ==
  /\ IsSeq(s)
  /\ \A i \in 1 .. Len(s) : s[i] = <<s[i][1], s[i][2]>> /\ E[s[i][1]] = {s[i][2]}
  /\ \A k : k \in K <=> \E i \in 1 .. Len(s) : s[i][1] = k
  /\ \A i, j \in 1 .. Len(s) : i < j => s[i][1] < s[j][1]

\* Two lists, one behind the other.
LEMMA JoinLists ==
  ASSUME NEW E, NEW s, NEW K, Listed(s, K, E), NEW r, NEW L, Listed(r, L, E),
         \A i \in K : \A j \in L : i < j
  PROVE  Listed(s \o r, K \union L, E)
<1> DEFINE c == s \o r
           m == Len(s)
           n == Len(r)
<1>1. IsSeq(s) /\ IsSeq(r) /\ m \in Nat /\ n \in Nat
  BY SeqFacts DEF Listed
<1>2. /\ IsSeq(c) /\ Len(c) = m + n
      /\ \A i \in 1 .. m + n : c[i] = IF i <= m THEN s[i] ELSE r[i - m]
  BY <1>1, JoinSeq
<1>3. /\ \A k : k \in K <=> \E i \in 1 .. m : s[i][1] = k
      /\ \A i, j \in 1 .. m : i < j => s[i][1] < s[j][1]
      /\ \A k : k \in L <=> \E i \in 1 .. n : r[i][1] = k
      /\ \A i, j \in 1 .. n : i < j => r[i][1] < r[j][1]
  BY DEF Listed
<1> HIDE DEF c, m, n
<1>4. \A i \in 1 .. m : i \in 1 .. m + n /\ c[i] = s[i]
  BY <1>1, <1>2
<1>5. \A i \in 1 .. n : m + i \in 1 .. m + n /\ c[m + i] = r[i]
  <2>1. SUFFICES ASSUME NEW i \in 1 .. n PROVE m + i \in 1 .. m + n /\ c[m + i] = r[i]
    OBVIOUS
  <2>2. m + i \in 1 .. m + n /\ ~(m + i <= m) /\ (m + i) - m = i
    BY <1>1
  <2>3. QED
    BY <1>2, <2>2
<1>6. \A i \in 1 .. m + n : i \in 1 .. m \/ (i - m \in 1 .. n /\ c[i] = r[i - m] /\ ~(i <= m))
  BY <1>1, <1>2
<1>7. ASSUME NEW k PROVE k \in K \union L <=> \E i \in 1 .. m + n : c[i][1] = k
  BY <1>3, <1>4, <1>5, <1>6
<1>8. ASSUME NEW i \in 1 .. m + n, NEW j \in 1 .. m + n, i < j PROVE c[i][1] < c[j][1]
  <2>1. CASE i \in 1 .. m /\ j \in 1 .. m
    BY <1>3, <1>4, <1>8, <2>1
  <2>2. CASE i \in 1 .. m /\ j \notin 1 .. m
    <3>1. c[i][1] \in K
      BY <1>3, <1>4, <2>2
    <3>2. c[j][1] \in L
      BY <1>3, <1>6, <2>2
    <3>3. QED
      BY <3>1, <3>2
  <2>3. CASE i \notin 1 .. m
    <3>1. i - m \in 1 .. n /\ c[i] = r[i - m] /\ j - m \in 1 .. n /\ c[j] = r[j - m] /\ i - m < j - m
      BY <1>1, <1>6, <1>8, <2>3
    <3>2. QED
      BY <1>3, <3>1
  <2>4. QED
    BY <2>1, <2>2, <2>3
<1>9. \A i \in 1 .. m + n : c[i] = <<c[i][1], c[i][2]>> /\ E[c[i][1]] = {c[i][2]}
  <2>1. /\ \A i \in 1 .. m : s[i] = <<s[i][1], s[i][2]>> /\ E[s[i][1]] = {s[i][2]}
        /\ \A i \in 1 .. n : r[i] = <<r[i][1], r[i][2]>> /\ E[r[i][1]] = {r[i][2]}
    BY DEF Listed, m, n
  <2>2. QED
    BY <1>4, <1>6, <2>1
<1>10. QED
  BY <1>2, <1>7, <1>8, <1>9 DEF Listed, c

\* A list is as long as it has keys.
LEMMA ListLength ==
  ASSUME NEW E, NEW s, NEW K, Listed(s, K, E), \A k \in K : k \in Int
  PROVE  Len(s) = Cardinality(K)
<1> DEFINE n == Len(s)
           I == 1 .. n
           f == [i \in I |-> s[i][1]]
<1>1. n \in Nat
  BY SeqFacts DEF Listed
<1>2. /\ \A k : k \in K <=> \E i \in I : s[i][1] = k
      /\ \A i, j \in I : i < j => s[i][1] < s[j][1]
  BY DEF Listed
<1>3. IsFiniteSet(I) /\ Cardinality(I) = n
  <2> HIDE DEF n
  <2>1. 1 \in Int /\ n \in Int
    BY <1>1
  <2>2. IsFiniteSet(1 .. n) /\ Cardinality(1 .. n) = IF 1 > n THEN 0 ELSE n - 1 + 1
    BY <2>1, FS_Interval, Zenon
  <2>3. QED
    BY <1>1, <2>2
<1>4. \A i, j \in I : i # j => f[i] # f[j]
  <2>1. SUFFICES ASSUME NEW i \in I, NEW j \in I, i # j PROVE s[i][1] # s[j][1]
    OBVIOUS
  <2>2. s[i][1] \in Int /\ s[j][1] \in Int
    BY <1>2
  <2>3. i < j \/ j < i
    BY <1>1, <2>1
  <2>4. QED
    BY <1>2, <2>2, <2>3
<1>5. f \in [I -> K] /\ \A k \in K : \E i \in I : f[i] = k
  <2> HIDE DEF n
  <2>1. \A i \in I : s[i][1] \in K
    BY <1>2
  <2>2. QED
    BY <1>2, <2>1
<1> HIDE DEF f, I
<1>6. f \in Bijection(I, K)
  BY <1>4, <1>5 DEF Bijection, Injection, Surjection, IsInjective
<1>7. Cardinality(K) = Cardinality(I)
  BY <1>3, <1>6, FS_Bijection DEF ExistsBijection
<1>8. QED
  BY <1>3, <1>7

\* The keys in front of leaf x, and those of K that are in the index.
Passed(own, x) == IF x = ZeroLink THEN Key ELSE {k \in Key : \A j \in own[x] : k < j}
Reached(E, K) == {k \in K : E[k] # {}}

\* The pairs of a leaf are a list of its keys that are in the index.
LEMMA LeafList ==
  ASSUME NEW n, IsNode(n), n.leaf, NEW K, K \subseteq Key, NEW own, NEW E, Answers(n, K, own, E)
  PROVE  Listed(n.array_, Reached(E, K), E)
<1> DEFINE s == n.array_
           g == Len(s)
<1>1. Sorted(n, 1, K) /\ \A k \in K : Rows(n, k) = E[k]
  BY DEF Answers
<1>2. IsSeq(s) /\ g = GetSize(n)
  BY NodeSize
<1>3. /\ \A i \in 1 .. g : s[i][1] \in K
      /\ \A i, j \in 1 .. g : i < j => s[i][1] < s[j][1]
  BY <1>1, <1>2 DEF Sorted, KeyAt
<1>4. ASSUME NEW k \in K PROVE E[k] # {} <=> \E i \in 1 .. g : s[i][1] = k
  <2>1. Rows(n, k) # {} <=> \E i \in 1 .. g : s[i][1] = k
    BY <1>2 DEF Rows, KeyAt
  <2>2. QED
    BY <1>1, <2>1
<1>5. \A i \in 1 .. g : s[i] = <<s[i][1], s[i][2]>> /\ E[s[i][1]] = {s[i][2]}
  <2>1. SUFFICES ASSUME NEW i \in 1 .. g PROVE s[i] = <<s[i][1], s[i][2]>> /\ E[s[i][1]] = {s[i][2]}
    OBVIOUS
  <2> DEFINE k == KeyAt(n, i)
             v == ValueAt(n, i)
  <2>2. k = s[i][1] /\ v = s[i][2] /\ k \in K /\ k \in Key
    BY <1>3 DEF KeyAt, ValueAt
  <2>3. s[i] = <<s[i][1], s[i][2]>>
    BY DEF IsNode, Pairs, Pair
  <2>4. v \in Rows(n, k)
    BY <1>2 DEF Rows
  <2> HIDE DEF k, v
  <2>5. Rows(n, k) = {v}
    BY <1>1, <2>2, <2>4, HoldsRows
  <2>6. QED
    BY <1>1, <2>2, <2>3, <2>5
<1> HIDE DEF s, g
<1>6. \A k : k \in Reached(E, K) <=> \E i \in 1 .. g : s[i][1] = k
  BY <1>3, <1>4 DEF Reached
<1>7. QED
  BY <1>2, <1>3, <1>5, <1>6 DEF Listed, g, s

\* The pages have keys of their own, the links lead to the next ones.
Chained(P, own) ==
  /\ Linked(P, own) /\ ZeroLink \notin DOMAIN P
  /\ \A x \in DOMAIN P : own[x] \subseteq Key
  /\ \A x \in DOMAIN P : P[x].leaf => own[x] # {}

\* What lies in front of the next leaf: what lay in front of this one, and its keys.
LEMMA PassLeaf ==
  ASSUME NEW P, NEW own, Chained(P, own), NEW x \in DOMAIN P, P[x].leaf,
         NEW y, y = P[x].next
  PROVE  /\ y = ZeroLink \/ (y \in DOMAIN P /\ P[y].leaf)
         /\ Passed(own, y) = Passed(own, x) \union own[x]
<1> DEFINE K == own[x]
<1>1. /\ K \subseteq Key /\ K # {} /\ x # ZeroLink
      /\ IF y = ZeroLink THEN \A i \in K : \A j \in Key : i < j => j \in K
         ELSE y \in DOMAIN P /\ P[y].leaf /\ Follows(own[y], K)
  BY DEF Chained, Linked
<1> HIDE DEF K
<1>2. Passed(own, x) = {k \in Key : \A j \in K : k < j}
  BY <1>1 DEF Passed, K
<1>3. (\A k \in Key : k \in Int) /\ \A k \in K : k \in Key
  BY <1>1, KeyAssumption
<1>4. CASE y = ZeroLink
  <2>1. ASSUME NEW k \in Key, k \notin K, NEW j \in K PROVE k < j
    <3>1. k \in Int /\ j \in Int /\ k # j
      BY <1>3, <2>1
    <3>2. ~(j < k)
      BY <1>1, <1>4, <2>1
    <3>3. QED
      BY <3>1, <3>2
  <2>2. Passed(own, x) \union K = Key
    BY <1>1, <1>2, <2>1
  <2>3. QED
    BY <1>4, <2>2 DEF Passed, K
<1>5. CASE y # ZeroLink
  <2> DEFINE L == own[y]
  <2>1. y \in DOMAIN P /\ P[y].leaf /\ Follows(L, K)
    BY <1>1, <1>5
  <2>2. L \subseteq Key /\ L # {}
    BY <2>1 DEF Chained
  <2>3. Passed(own, y) = {k \in Key : \A j \in L : k < j}
    BY <1>5 DEF Passed
  <2> HIDE DEF L
  <2>4. \A k \in L : k \in Key /\ k \in Int
    BY <1>3, <2>2
  <2>5. ASSUME NEW k \in Key, \A j \in L : k < j, k \notin K, NEW i \in K PROVE k < i
    <3>1. PICK j \in L : TRUE
      BY <2>2
    <3>2. k \in Int /\ i \in Int /\ k # i /\ k < j
      BY <1>3, <2>5
    <3>3. i < k => k \in K \union L
      BY <2>1, <2>5, <3>1, <3>2 DEF Follows
    <3>4. k \notin L
      BY <2>5, <3>2
    <3>5. QED
      BY <2>5, <3>2, <3>3, <3>4
  <2>6. ASSUME NEW k \in Key, k \in K \/ (\A i \in K : k < i), NEW j \in L PROVE k < j
    <3>1. PICK i \in K : k = i \/ k < i
      BY <1>1, <2>6
    <3>2. i < j
      BY <2>1 DEF Follows
    <3>3. QED
      BY <1>3, <2>4, <3>1, <3>2
  <2>7. \A k : k \in Passed(own, y) <=> k \in Passed(own, x) \union K
    <3>1. ASSUME NEW k \in Passed(own, y) PROVE k \in Passed(own, x) \union K
      BY <1>2, <2>3, <2>5
    <3>2. ASSUME NEW k \in Passed(own, x) \union K PROVE k \in Passed(own, y)
      <4>1. k \in Key /\ (k \in K \/ \A i \in K : k < i)
        BY <1>2, <1>3
      <4>2. QED
        BY <2>3, <2>6, <4>1
    <3>3. QED
      BY <3>1, <3>2
  <2>8. QED
    BY <2>1, <2>7 DEF K
<1>6. QED
  BY <1>4, <1>5

\* The iterator has listed the keys in front of the leaf at which it is.
Position(P, own, E, i) ==
  /\ i.leaf = ZeroLink \/ (i.leaf \in DOMAIN P /\ P[i.leaf].leaf)
  /\ Listed(i.pairs, Reached(E, Passed(own, i.leaf)), E)

\* A step of the iterator.
LEMMA AdvanceStep ==
  ASSUME NEW t, NEW own, NEW E, Chained(t.pages, own),
         \A x \in DOMAIN t.pages : IsNode(t.pages[x]) /\ Answers(t.pages[x], own[x], own, E),
         NEW i, Position(t.pages, own, E, i), NEW a, a = Advance(t, i)
  PROVE  /\ Position(t.pages, own, E, a)
         /\ Passed(own, i.leaf) \subseteq Passed(own, a.leaf)
         /\ i.leaf # ZeroLink => own[i.leaf] \subseteq Passed(own, a.leaf)
         /\ i.leaf = ZeroLink => a.leaf = ZeroLink
<1> DEFINE P == t.pages
           x == i.leaf
           n == P[x]
           y == n.next
<1>1. CASE x = ZeroLink
  <2>1. x \notin DOMAIN P
    BY <1>1 DEF Chained
  <2>2. QED
    BY <1>1, <2>1 DEF Advance
<1>2. CASE x # ZeroLink
  <2>1. x \in DOMAIN P /\ n.leaf /\ Listed(i.pairs, Reached(E, Passed(own, x)), E)
    BY <1>2 DEF Position
  <2>2. a.leaf = y /\ a.pairs = i.pairs \o n.array_
    BY <2>1 DEF Advance
  <2>3. /\ y = ZeroLink \/ (y \in DOMAIN P /\ P[y].leaf)
        /\ Passed(own, y) = Passed(own, x) \union own[x]
    BY <2>1, PassLeaf
  <2>4. own[x] \subseteq Key /\ IsNode(n) /\ Answers(n, own[x], own, E)
    BY <2>1 DEF Chained
  <2>5. Listed(n.array_, Reached(E, own[x]), E)
    <3> DEFINE K == own[x]
    <3> HIDE DEF n, K
    <3>1. K \subseteq Key /\ Answers(n, K, own, E)
      BY <2>4 DEF K
    <3>2. Listed(n.array_, Reached(E, K), E)
      BY <2>1, <2>4, <3>1, LeafList
    <3>3. QED
      BY <3>2 DEF K
  <2>6. \A k \in Reached(E, Passed(own, x)) : \A j \in Reached(E, own[x]) : k < j
    BY <1>2 DEF Passed, Reached
  <2>7. Reached(E, Passed(own, x)) \union Reached(E, own[x]) = Reached(E, Passed(own, y))
    BY <2>3 DEF Reached
  <2>8. Listed(a.pairs, Reached(E, Passed(own, y)), E)
    <3> DEFINE s == i.pairs
               r == n.array_
               A == Reached(E, Passed(own, x))
               B == Reached(E, own[x])
    <3>1. Listed(s, A, E) /\ Listed(r, B, E) /\ \A k \in A : \A j \in B : k < j
      BY <2>1, <2>5, <2>6
    <3> HIDE DEF s, r, A, B
    <3>2. Listed(s \o r, A \union B, E)
      BY <3>1, JoinLists
    <3>3. QED
      BY <2>2, <2>7, <3>2 DEF s, r, A, B
  <2>9. QED
    BY <1>2, <2>2, <2>3, <2>8 DEF Position
<1>3. QED
  BY <1>1, <1>2

\* The iterator comes to the last leaf, and has then listed all keys in the index.
LEMMA ScanList ==
  ASSUME NEW t, NEW lev, Good(t, lev, INVALID_PAGE_ID),
         NEW own, NEW E, Search(t.pages, t.root_page_id_, own, E)
  PROVE  Listed(Scan(t), Reached(E, Key), E)
<1> DEFINE P == t.pages
           n == Steps(t)
           at == Iterate(t)
           Fine(d) == Position(P, own, E, at[d])
           Lost == {d \in Nat : d <= n /\ ~Fine(d)}
           Behind(e, d) == /\ at[d].leaf # ZeroLink => at[e].leaf # ZeroLink
                           /\ at[e].leaf # ZeroLink => own[at[e].leaf] \subseteq Passed(own, at[d].leaf)
<1>1. /\ Sound(P, t.root_page_id_, lev) /\ n \in Nat /\ ~IsEmpty(t)
      /\ \A x \in DOMAIN P : IsNode(P[x]) /\ Filled(P[x])
  BY InOrderFacts
<1>2. /\ \A x \in DOMAIN P : own[x] \subseteq Key /\ Answers(P[x], own[x], own, E)
      /\ Linked(P, own)
  BY DEF Search
<1>3. Chained(P, own)
  <2>1. ZeroLink \notin DOMAIN P
    BY <1>1 DEF Sound, Pages, ZeroLink
  <2>2. ASSUME NEW x \in DOMAIN P, P[x].leaf PROVE own[x] # {}
    <3>1. IsNode(P[x]) /\ Filled(P[x]) /\ Answers(P[x], own[x], own, E)
      BY <1>1, <1>2
    <3>2. GetSize(P[x]) \in Nat /\ GetMinSize(P[x]) \in Nat /\ GetMaxSize(P[x]) \in Nat /\ GetMinSize(P[x]) >= 1
      BY <3>1, NodeSize, Limits
    <3>3. GetSize(P[x]) >= 1
      BY <3>1, <3>2 DEF Filled
    <3>4. KeyAt(P[x], 1) \in own[x]
      BY <2>2, <3>1, <3>2, <3>3 DEF Answers, Sorted
    <3>5. QED
      BY <3>4
  <2>3. QED
    BY <1>2, <2>1, <2>2 DEF Chained
<1>4. at[0] = FirstPosition(t) /\ \A d \in 1 .. n : at[d] = Advance(t, at[d - 1])
  BY <1>1, IterateDef
<1>5. Scan(t) = at[n].pairs
  BY <1>1, Zenon DEF Scan
<1> HIDE DEF at
<1>6. Fine(0)
  <2> DEFINE p == LeftMost(t)
  <2>1. p \in DOMAIN P /\ P[p].leaf /\ Least(own[p])
    BY <1>1, FirstLeaf
  <2>2. at[0].leaf = p /\ at[0].pairs = <<>>
    BY <1>4 DEF FirstPosition
  <2> HIDE DEF p
  <2>3. own[p] # {} /\ own[p] \subseteq Key /\ p # ZeroLink
    BY <1>3, <2>1 DEF Chained
  <2>4. Passed(own, p) = {}
    <3>1. SUFFICES ASSUME NEW k \in Key, \A j \in own[p] : k < j PROVE FALSE
      BY <2>3 DEF Passed
    <3>2. PICK j \in own[p] : TRUE
      BY <2>3
    <3>3. j \in Int /\ k \in Int /\ k < j
      <4>1. \A i \in Key : i \in Int
        BY KeyAssumption
      <4>2. QED
        BY <2>3, <3>1, <4>1
    <3>4. k \notin own[p]
      BY <3>1, <3>3
    <3>5. j < k
      BY <2>1, <3>4 DEF Least
    <3>6. QED
      BY <3>3, <3>5
  <2>5. Listed(<<>>, {}, E)
    <3>1. IsSeq(<<>>) /\ Len(<<>>) = 0
      BY DEF IsSeq
    <3>2. QED
      BY <3>1 DEF Listed
  <2>6. Reached(E, Passed(own, p)) = {}
    BY <2>4 DEF Reached
  <2>7. QED
    BY <2>1, <2>2, <2>5, <2>6 DEF Position
<1>7. ASSUME NEW d \in 1 .. n, Fine(d - 1)
      PROVE  /\ Fine(d) /\ Behind(d - 1, d)
             /\ Passed(own, at[d - 1].leaf) \subseteq Passed(own, at[d].leaf)
  <2> DEFINE i == at[d - 1]
             a == at[d]
  <2>1. a = Advance(t, i) /\ Position(t.pages, own, E, i)
    BY <1>4, <1>7
  <2>2. /\ Chained(t.pages, own)
        /\ \A x \in DOMAIN t.pages : IsNode(t.pages[x]) /\ Answers(t.pages[x], own[x], own, E)
    BY <1>1, <1>2, <1>3
  <2> HIDE DEF i, a
  <2>3. /\ Position(t.pages, own, E, a)
        /\ Passed(own, i.leaf) \subseteq Passed(own, a.leaf)
        /\ i.leaf # ZeroLink => own[i.leaf] \subseteq Passed(own, a.leaf)
        /\ i.leaf = ZeroLink => a.leaf = ZeroLink
    BY <2>1, <2>2, AdvanceStep
  <2>4. QED
    BY <2>3, Zenon DEF i, a
<1>8. Lost = {}
  <2>1. SUFFICES ASSUME NEW d \in Lost, \A j \in Lost : d <= j PROVE FALSE
    <3>1. Lost \subseteq Nat
      OBVIOUS
    <3> HIDE DEF Lost
    <3>2. QED
      BY <3>1, LeastElement
  <2>2. d \in Nat /\ d <= n /\ ~Fine(d) /\ d # 0
    BY <1>6
  <2>3. d - 1 \in Nat /\ d - 1 \notin Lost /\ d - 1 <= n /\ d \in 1 .. n
    <3> HIDE DEF Lost, n
    <3>1. QED
      BY <1>1, <2>1, <2>2
  <2>4. Fine(d - 1)
    BY <2>3
  <2>5. QED
    BY <1>7, <2>2, <2>3, <2>4
<1>9. \A d \in 0 .. n : Fine(d)
  <2>1. \A d \in 0 .. n : d \in Nat /\ d <= n
    BY <1>1
  <2>2. QED
    BY <1>8, <2>1
<1> HIDE DEF Fine, Lost
<1>10. ASSUME NEW e \in 0 .. n PROVE \A d \in e + 1 .. n : Behind(e, d)
  <2> DEFINE Missed == {d \in Nat : d \in e + 1 .. n /\ ~Behind(e, d)}
  <2>1. Missed = {}
    <3>1. SUFFICES ASSUME NEW d \in Missed, \A j \in Missed : d <= j PROVE FALSE
      <4>1. Missed \subseteq Nat
        OBVIOUS
      <4> HIDE DEF Missed
      <4>2. QED
        BY <4>1, LeastElement
    <3>2. d \in Nat /\ d \in e + 1 .. n /\ ~Behind(e, d)
      OBVIOUS
    <3>3. d - 1 \in 0 .. n /\ d - 1 \in Nat /\ d \in 1 .. n /\ ~(d <= d - 1)
      BY <1>1, <3>2
    <3>4. /\ Behind(d - 1, d) /\ Passed(own, at[d - 1].leaf) \subseteq Passed(own, at[d].leaf)
      BY <1>7, <1>9, <3>3
    <3>5. d - 1 # e
      BY <3>2, <3>4
    <3>6. d - 1 \in e + 1 .. n
      BY <1>1, <3>2, <3>3, <3>5
    <3>7. Behind(e, d - 1)
      BY <3>1, <3>3, <3>6
    <3>8. QED
      BY <3>2, <3>4, <3>7
  <2>2. \A d \in e + 1 .. n : d \in Nat
    BY <1>1
  <2>3. QED
    BY <2>1, <2>2
<1>11. at[n].leaf = ZeroLink
  <2>1. SUFFICES ASSUME at[n].leaf # ZeroLink PROVE FALSE
    OBVIOUS
  <2> DEFINE I == 0 .. n
             D == DOMAIN P
             f == [d \in I |-> at[d].leaf]
  <2>2. ASSUME NEW d \in I PROVE at[d].leaf # ZeroLink /\ at[d].leaf \in D /\ P[at[d].leaf].leaf
    <3>1. at[d].leaf # ZeroLink
      <4>1. CASE d = n
        BY <2>1, <4>1
      <4>2. CASE d # n
        <5>1. n \in d + 1 .. n
          BY <1>1, <4>2
        <5>2. QED
          BY <1>10, <2>1, <5>1
      <4>3. QED
        BY <4>1, <4>2
    <3>2. QED
      BY <1>9, <3>1 DEF Fine, Position
  <2>3. f \in [I -> D]
    BY <2>2
  <2>4. IsFiniteSet(I) /\ Cardinality(I) = n + 1
    <3> HIDE DEF n
    <3>1. 0 \in Int /\ n \in Int /\ ~(0 > n) /\ n - 0 + 1 = n + 1
      BY <1>1
    <3>2. IsFiniteSet(0 .. n) /\ Cardinality(0 .. n) = IF 0 > n THEN 0 ELSE n - 0 + 1
      BY <3>1, FS_Interval, Zenon
    <3>3. QED
      BY <3>1, <3>2, Zenon
  <2>5. IsFiniteSet(D) /\ Cardinality(D) = n
    BY <1>1 DEF Sound, Pages, Steps
  <2>6. Cardinality(D) < Cardinality(I)
    <3> HIDE DEF n, D, I
    <3>1. QED
      BY <1>1, <2>4, <2>5
  <2> HIDE DEF f
  <2>7. PICK x \in I, y \in I : x # y /\ f[x] = f[y]
    <3> HIDE DEF I, D
    <3>1. QED
      BY <2>3, <2>4, <2>5, <2>6, FS_PigeonHole
  <2>8. at[x].leaf = at[y].leaf
    BY <2>7 DEF f
  <2> DEFINE p == at[x].leaf
  <2>9. p # ZeroLink /\ p \in D /\ P[p].leaf /\ own[p] # {} /\ own[p] \subseteq Key
    BY <1>3, <2>2 DEF Chained
  <2>10. own[p] \subseteq Passed(own, p)
    <3>1. CASE x < y
      <4>1. y \in x + 1 .. n
        BY <1>1, <3>1
      <4>2. QED
        BY <1>10, <2>8, <2>9, <4>1
    <3>2. CASE y < x
      <4>1. x \in y + 1 .. n
        BY <1>1, <3>2
      <4>2. QED
        BY <1>10, <2>8, <2>9, <4>1
    <3>3. x < y \/ y < x
      BY <1>1, <2>7
    <3>4. QED
      BY <3>1, <3>2, <3>3
  <2> HIDE DEF p
  <2>11. PICK k \in own[p] : k \in Int
    <3>1. \A k \in Key : k \in Int
      BY KeyAssumption
    <3>2. QED
      BY <2>9, <3>1
  <2>12. k < k
    BY <2>9, <2>10, <2>11 DEF Passed
  <2>13. QED
    BY <2>11, <2>12
<1>12. Fine(n)
  BY <1>1, <1>9
<1>13. Listed(at[n].pairs, Reached(E, Key), E)
  BY <1>11, <1>12 DEF Fine, Position, Passed
<1>14. QED
  BY <1>5, <1>13

\* The invariant gives what an iterator comes to.
LEMMA GrowListed ==
  GrowInv => ScanInOrder
<1> SUFFICES ASSUME GrowInv PROVE ScanInOrder
  OBVIOUS
<1> DEFINE keys == {k \in Key : entries[k] # {}}
           scan == Scan(tree)
<1>1. Listed(scan, keys, entries) /\ \A p \in Leaves : tree.pages[p].next \in Leaves \union {ZeroLink}
  <2>1. CASE NewIndex
    <3>1. IsEmpty(tree) /\ DOMAIN tree.pages = {} /\ \A k \in Key : entries[k] = {}
      BY <2>1 DEF NewIndex, Emptied, IsEmpty
    <3>2. scan = <<>> /\ keys = {} /\ Leaves = {}
      BY <3>1 DEF Scan, Leaves
    <3>3. IsSeq(<<>>) /\ Len(<<>>) = 0
      BY DEF IsSeq
    <3>4. Listed(<<>>, {}, entries)
      BY <3>3 DEF Listed
    <3>5. QED
      BY <3>2, <3>4
  <2>2. CASE InOrder(tree) /\ Searchable(tree, entries)
    <3>1. PICK lev : Good(tree, lev, INVALID_PAGE_ID)
      BY <2>2 DEF InOrder
    <3>2. PICK own : Search(tree.pages, tree.root_page_id_, own, entries)
      BY <2>2 DEF Searchable
    <3>3. Listed(scan, Reached(entries, Key), entries)
      BY <3>1, <3>2, ScanList
    <3>4. Reached(entries, Key) = keys
      BY DEF Reached
    <3>5. \A p \in Leaves : tree.pages[p].next \in Leaves \union {ZeroLink}
      BY <3>2 DEF Search, Linked, Leaves
    <3>6. QED
      BY <3>3, <3>4, <3>5
  <2>3. QED
    BY <2>1, <2>2 DEF GrowInv
<1> HIDE DEF scan
<1>2. Len(scan) \in Nat
  BY <1>1, SeqFacts DEF Listed
<1>3. Len(scan) = Cardinality(keys)
  <2>1. \A k \in keys : k \in Int
    <3>1. \A k \in Key : k \in Int
      BY KeyAssumption
    <3>2. keys \subseteq Key
      OBVIOUS
    <3> HIDE DEF keys
    <3>3. QED
      BY <3>1, <3>2
  <2> HIDE DEF keys
  <2>2. QED
    BY <1>1, <2>1, ListLength
<1>4. \A i \in 1 .. Len(scan) : scan[i][1] \in keys
  <2> HIDE DEF keys
  <2>1. QED
    BY <1>1 DEF Listed
<1>5. \A i \in 2 .. Len(scan) : scan[i - 1][1] < scan[i][1]
  <2>1. \A i \in 2 .. Len(scan) : i - 1 \in 1 .. Len(scan) /\ i \in 1 .. Len(scan) /\ i - 1 < i
    BY <1>2
  <2> HIDE DEF keys
  <2>2. QED
    BY <1>1, <2>1 DEF Listed
<1>6. QED
  BY <1>1, <1>3, <1>4, <1>5 DEF ScanInOrder, scan

\* As long as no key is removed, an iterator from Begin comes over the links of the
\* leaves to every key that was inserted, once and in order, whatever was split, up
\* to any height, and also after the index was closed and opened again; only then
\* does it leave the pages of the tree.
THEOREM GrowScan == GrowSpec => [](~borrowed /\ ScanInOrder)
<1>1. GrowInv => ~borrowed /\ ScanInOrder
  BY GrowListed DEF GrowInv
<1>2. QED
  BY <1>1, GrowInit, GrowStep, PTL DEF GrowSpec
=============================================================================
