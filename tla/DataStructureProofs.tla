-------------------------- MODULE DataStructureProofs -------------------------
(***************************************************************************)
(* Proofs about two components that keep their state in sequences and      *)
(* edit it, one caller at a time.                                          *)
(*                                                                         *)
(* IdGenerator, for any number of ids and any bound on those in use: the   *)
(* deque is at any time a sequence of ranges that are not empty, ascend    *)
(* and do not touch (Neat), and covers the ids that are not in use.  Each  *)
(* way in which new_id and reuse_id change the deque is a lemma on         *)
(* sequences of ranges.                                                    *)
(*                                                                         *)
(* Collections, for any finite sets of containers and keys, items and      *)
(* bound: edits of arrays, loops over maps that are changed meanwhile, and *)
(* graphs that are written to JSON and read back.  What is written is at   *)
(* any time a tree (Tree), at the end one that is closed (AllMet), and a   *)
(* path up the tree, taken backwards, leads down again (LeadsTo).          *)
(***************************************************************************)
EXTENDS IdGenerator, Collections, FiniteSetTheorems, SequenceTheorems, TLAPS

Ranges == [first : Ids, last : Ids]

Apart(s) == \A i, j \in 1 .. Len(s) : i < j => s[i].last + 1 < s[j].first

NoneEmpty(s) == \A i \in 1 .. Len(s) : s[i].first <= s[i].last

Neat(s) == s \in Seq(Ranges) /\ Apart(s) /\ NoneEmpty(s)

Within(val, r) == r.first <= val /\ val <= r.last

Covered(s) == {val \in Ids : \E i \in 1 .. Len(s) : Within(val, s[i])}

IdsInv ==
  /\ Neat(_empty_ranges)
  /\ _current_range \in 1 .. Len(_empty_ranges) + 1
  /\ handed = Ids \ Covered(_empty_ranges)

USE IdAssumption DEF Ids

-----------------------------------------------------------------------------
(* Sequences and numbers.                                                  *)
LEMMA LeastIndex ==
  ASSUME NEW F \in SUBSET Nat, F # {}
  PROVE  \E i \in F : \A j \in F : i <= j
<1> DEFINE R == OpToRel(<, Nat)
<1>1. \A i, j \in Nat : i < j => << i, j >> \in R
  BY DEF OpToRel
<1>2. IsWellFoundedOn(R, Nat)
  BY NatLessThanWellFounded
<1> HIDE DEF R
<1>3. \E i \in F : \A j \in F : ~ (<< j, i >> \in R)
  BY <1>2, WFMin
<1>4. PICK i \in F : \A j \in F : ~ (<< j, i >> \in R)
  BY <1>3
<1>5. ASSUME NEW j \in F PROVE i <= j
  <2>1. i \in Nat /\ j \in Nat /\ ~(j < i)
    BY <1>1, <1>4
  <2> QED
    BY <2>1
<1> QED
  BY <1>4, <1>5

LEMMA InsertedAt ==
  ASSUME NEW S, NEW s \in Seq(S), NEW i \in 1 .. Len(s) + 1, NEW e \in S
  PROVE  /\ InsertAt(s, i, e) \in Seq(S)
         /\ Len(InsertAt(s, i, e)) = Len(s) + 1
         /\ \A j \in 1 .. Len(s) + 1 :
              InsertAt(s, i, e)[j] = IF j < i THEN s[j] ELSE IF j = i THEN e ELSE s[j - 1]
<1> DEFINE a == SubSeq(s, 1, i - 1)
           b == << e >>
           c == SubSeq(s, i, Len(s))
<1>0. Len(s) \in Nat
  BY LenProperties
<1>1. a \in Seq(S) /\ Len(a) = i - 1 /\ \A j \in 1 .. i - 1 : a[j] = s[j]
  BY <1>0, SubSeqProperties
<1>2. b \in Seq(S) /\ Len(b) = 1 /\ b[1] = e
  OBVIOUS
<1>3. c \in Seq(S) /\ Len(c) = Len(s) - i + 1 /\ \A j \in 1 .. Len(s) - i + 1 : c[j] = s[i + j - 1]
  BY <1>0, SubSeqProperties
<1> HIDE DEF a, b, c
<1>4. /\ a \o b \in Seq(S) /\ Len(a \o b) = i
      /\ \A j \in 1 .. i : (a \o b)[j] = IF j < i THEN s[j] ELSE e
  <2>1. /\ a \o b \in Seq(S) /\ Len(a \o b) = Len(a) + Len(b)
        /\ \A j \in 1 .. Len(a) + Len(b) :
             (a \o b)[j] = IF j <= Len(a) THEN a[j] ELSE b[j - Len(a)]
    BY <1>1, <1>2, ConcatProperties
  <2>2. ASSUME NEW j \in 1 .. i PROVE (a \o b)[j] = IF j < i THEN s[j] ELSE e
    BY <1>0, <1>1, <1>2, <2>1
  <2> QED
    BY <1>0, <1>1, <1>2, <2>1, <2>2
<1>5. /\ (a \o b) \o c \in Seq(S) /\ Len((a \o b) \o c) = Len(s) + 1
      /\ \A j \in 1 .. Len(s) + 1 :
           ((a \o b) \o c)[j] = IF j < i THEN s[j] ELSE IF j = i THEN e ELSE s[j - 1]
  <2> DEFINE d == a \o b
  <2>1. d \in Seq(S) /\ Len(d) = i /\ \A j \in 1 .. i : d[j] = IF j < i THEN s[j] ELSE e
    BY <1>4
  <2> HIDE DEF d
  <2>2. /\ d \o c \in Seq(S) /\ Len(d \o c) = Len(d) + Len(c)
        /\ \A j \in 1 .. Len(d) + Len(c) :
             (d \o c)[j] = IF j <= Len(d) THEN d[j] ELSE c[j - Len(d)]
    BY <1>3, <2>1, ConcatProperties
  <2>3. ASSUME NEW j \in 1 .. Len(s) + 1
        PROVE  (d \o c)[j] = IF j < i THEN s[j] ELSE IF j = i THEN e ELSE s[j - 1]
    BY <1>0, <1>3, <2>1, <2>2
  <2>4. Len(d \o c) = Len(s) + 1
    BY <1>0, <1>3, <2>1, <2>2
  <2> QED
    BY <2>2, <2>3, <2>4 DEF d
<1>6. InsertAt(s, i, e) = (a \o b) \o c
  BY DEF InsertAt, a, b, c
<1> QED
  BY <1>5, <1>6

LEMMA RemovedAt ==
  ASSUME NEW S, NEW s \in Seq(S), NEW i \in 1 .. Len(s)
  PROVE  /\ RemoveAt(s, i) \in Seq(S)
         /\ Len(RemoveAt(s, i)) = Len(s) - 1
         /\ \A j \in 1 .. Len(s) - 1 :
              RemoveAt(s, i)[j] = IF j < i THEN s[j] ELSE s[j + 1]
<1> DEFINE a == SubSeq(s, 1, i - 1)
           c == SubSeq(s, i + 1, Len(s))
<1>0. Len(s) \in Nat
  BY LenProperties
<1>1. a \in Seq(S) /\ Len(a) = i - 1 /\ \A j \in 1 .. i - 1 : a[j] = s[j]
  BY <1>0, SubSeqProperties
<1>2. c \in Seq(S) /\ Len(c) = Len(s) - i /\ \A j \in 1 .. Len(s) - i : c[j] = s[i + j]
  BY <1>0, SubSeqProperties
<1> HIDE DEF a, c
<1>3. /\ a \o c \in Seq(S) /\ Len(a \o c) = Len(s) - 1
      /\ \A j \in 1 .. Len(s) - 1 : (a \o c)[j] = IF j < i THEN s[j] ELSE s[j + 1]
  <2>1. /\ a \o c \in Seq(S) /\ Len(a \o c) = Len(a) + Len(c)
        /\ \A j \in 1 .. Len(a) + Len(c) :
             (a \o c)[j] = IF j <= Len(a) THEN a[j] ELSE c[j - Len(a)]
    BY <1>1, <1>2, ConcatProperties
  <2>2. ASSUME NEW j \in 1 .. Len(s) - 1
        PROVE  (a \o c)[j] = IF j < i THEN s[j] ELSE s[j + 1]
    BY <1>0, <1>1, <1>2, <2>1
  <2> QED
    BY <1>0, <1>1, <1>2, <2>1, <2>2
<1>4. RemoveAt(s, i) = a \o c
  BY DEF RemoveAt, a, c
<1> QED
  BY <1>3, <1>4

-----------------------------------------------------------------------------
(* Sequences of ranges.                                                    *)
LEMMA RangeAt ==
  ASSUME NEW s \in Seq(Ranges), NEW i \in 1 .. Len(s)
  PROVE  /\ s[i] \in Ranges
         /\ s[i].first \in Ids /\ s[i].last \in Ids
         /\ s[i].first \in Int /\ s[i].last \in Int
<1>1. s[i] \in Ranges
  BY ElementOfSeq
<1>2. s[i].first \in Ids /\ s[i].last \in Ids
  BY <1>1 DEF Ranges
<1> QED
  BY <1>1, <1>2

LEMMA NewRange ==
  ASSUME NEW a \in Ids, NEW b \in Ids
  PROVE  /\ with_first_last(a, b) \in Ranges
         /\ with_first_last(a, b).first = a
         /\ with_first_last(a, b).last = b
BY DEF with_first_last, Ranges

LEMMA OneEndMoved ==
  ASSUME NEW x \in Ranges, NEW b \in Ids
  PROVE  /\ [x EXCEPT !.last = b] = with_first_last(x.first, b)
         /\ [x EXCEPT !.first = b] = with_first_last(b, x.last)
<1>1. x = [first |-> x.first, last |-> x.last]
  BY DEF Ranges
<1>2. /\ [[first |-> x.first, last |-> x.last] EXCEPT !.last = b] = [first |-> x.first, last |-> b]
      /\ [[first |-> x.first, last |-> x.last] EXCEPT !.first = b] = [first |-> b, last |-> x.last]
  OBVIOUS
<1> QED
  BY <1>1, <1>2 DEF with_first_last

(* No id is in two ranges.                                                 *)
LEMMA InOneRange ==
  ASSUME NEW s, Neat(s), NEW i \in 1 .. Len(s), NEW j \in 1 .. Len(s),
         NEW val \in Ids, Within(val, s[i]), Within(val, s[j])
  PROVE  i = j
<1> USE DEF Neat
<1>1. /\ s[i].first \in Int /\ s[i].last \in Int
      /\ s[j].first \in Int /\ s[j].last \in Int
      /\ i \in Int /\ j \in Int /\ val \in Int
  BY RangeAt, LenProperties
<1>2. ~(i < j)
  <2> SUFFICES ASSUME i < j PROVE FALSE
    OBVIOUS
  <2>1. s[i].last + 1 < s[j].first
    BY DEF Apart
  <2> QED
    BY <1>1, <2>1 DEF Within
<1>3. ~(j < i)
  <2> SUFFICES ASSUME j < i PROVE FALSE
    OBVIOUS
  <2>1. s[j].last + 1 < s[i].first
    BY DEF Apart
  <2> QED
    BY <1>1, <2>1 DEF Within
<1> QED
  BY <1>1, <1>2, <1>3

(* new_id takes the last id of a range: the range goes.                    *)
LEMMA RangeUsedUp ==
  ASSUME NEW s, Neat(s), NEW c \in 1 .. Len(s), s[c].first = s[c].last
  PROVE  /\ Neat(RemoveAt(s, c))
         /\ Covered(RemoveAt(s, c)) = Covered(s) \ {s[c].first}
<1> USE DEF Neat
<1> DEFINE t == RemoveAt(s, c)
           n == Len(s)
           at(j) == IF j < c THEN j ELSE j + 1
<1>0. n \in Nat /\ c \in Int
  BY LenProperties
<1>1. t \in Seq(Ranges) /\ Len(t) = n - 1 /\ \A j \in 1 .. n - 1 : t[j] = s[at(j)]
  BY RemovedAt
<1> HIDE DEF t
<1>2. \A j \in 1 .. n - 1 : at(j) \in 1 .. n /\ at(j) # c
  BY <1>0
<1>3. Apart(t)
  <2> SUFFICES ASSUME NEW i \in 1 .. n - 1, NEW j \in 1 .. n - 1, i < j
               PROVE  t[i].last + 1 < t[j].first
    BY <1>1 DEF Apart
  <2>1. at(i) < at(j) /\ at(i) \in 1 .. n /\ at(j) \in 1 .. n
    BY <1>0
  <2>2. s[at(i)].last + 1 < s[at(j)].first
    BY <2>1 DEF Apart
  <2> QED
    BY <1>1, <2>2
<1>4. NoneEmpty(t)
  BY <1>1, <1>2 DEF NoneEmpty
<1>5. ASSUME NEW val \in Covered(t)
      PROVE  val \in Covered(s) /\ val # s[c].first
  <2>1. PICK j \in 1 .. n - 1 : Within(val, t[j])
    BY <1>1 DEF Covered
  <2>2. Within(val, s[at(j)]) /\ at(j) \in 1 .. n /\ at(j) # c /\ val \in Ids
    BY <1>1, <1>2, <2>1 DEF Covered
  <2> HIDE DEF at
  <2>3. val \in Covered(s)
    BY <2>2 DEF Covered
  <2>4. ~Within(val, s[c])
    BY <2>2, InOneRange
  <2>5. val # s[c].first
    BY <2>4, RangeAt DEF Within
  <2> QED
    BY <2>3, <2>5
<1>6. ASSUME NEW val \in Covered(s), val # s[c].first
      PROVE  val \in Covered(t)
  <2>1. PICK i \in 1 .. n : Within(val, s[i])
    BY DEF Covered
  <2>2. i # c
    BY <1>6, <2>1, RangeAt DEF Within, Covered
  <2> DEFINE j == IF i < c THEN i ELSE i - 1
  <2>3. j \in 1 .. n - 1 /\ at(j) = i
    BY <1>0, <2>2
  <2>4. Within(val, t[j])
    BY <1>1, <2>1, <2>3
  <2> HIDE DEF j
  <2> QED
    BY <1>1, <2>3, <2>4 DEF Covered
<1> QED
  BY <1>1, <1>3, <1>4, <1>5, <1>6 DEF t

Fits(s, c, r) ==
  \A i \in 1 .. Len(s) : /\ i < c => s[i].last + 1 < r.first
                         /\ i > c => r.last + 1 < s[i].first

(* One range is replaced by another one, in the room its neighbours leave. *)
LEMMA RangeReplaced ==
  ASSUME NEW s, Neat(s), NEW c \in 1 .. Len(s), NEW r \in Ranges, r.first <= r.last,
         Fits(s, c, r)
  PROVE  LET t == [s EXCEPT ![c] = r] IN
         /\ Neat(t)
         /\ \A val \in Ids : val \in Covered(t) <=>
              Within(val, r) \/ (val \in Covered(s) /\ ~Within(val, s[c]))
<1> USE DEF Neat, Fits
<1> DEFINE t == [s EXCEPT ![c] = r]
           n == Len(s)
<1>0. n \in Nat /\ c \in Int
  BY LenProperties
<1>1. t \in Seq(Ranges) /\ Len(t) = n /\ \A j \in 1 .. n : t[j] = IF j = c THEN r ELSE s[j]
  BY ExceptSeq
<1> HIDE DEF t
<1>2. Apart(t)
  <2> SUFFICES ASSUME NEW i \in 1 .. n, NEW j \in 1 .. n, i < j
               PROVE  t[i].last + 1 < t[j].first
    BY <1>1 DEF Apart
  <2>1. i # c /\ j # c => s[i].last + 1 < s[j].first
    BY DEF Apart
  <2> QED
    BY <1>0, <1>1, <2>1
<1>3. NoneEmpty(t)
  BY <1>1 DEF NoneEmpty
<1>4. ASSUME NEW val \in Ids
      PROVE  val \in Covered(t) <=> Within(val, r) \/ (val \in Covered(s) /\ ~Within(val, s[c]))
  <2>1. ASSUME val \in Covered(t), ~Within(val, r)
        PROVE  val \in Covered(s) /\ ~Within(val, s[c])
    <3>1. PICK j \in 1 .. n : Within(val, t[j])
      BY <1>1, <2>1 DEF Covered
    <3>2. j # c /\ Within(val, s[j])
      BY <1>1, <2>1, <3>1
    <3>3. ~Within(val, s[c])
      BY <3>2, InOneRange
    <3> QED
      BY <3>2, <3>3 DEF Covered
  <2>2. ASSUME Within(val, r) PROVE val \in Covered(t)
    <3>1. Within(val, t[c])
      BY <1>1, <2>2
    <3> QED
      BY <1>1, <3>1 DEF Covered
  <2>3. ASSUME val \in Covered(s), ~Within(val, s[c]) PROVE val \in Covered(t)
    <3>1. PICK j \in 1 .. n : Within(val, s[j])
      BY <2>3 DEF Covered
    <3>2. Within(val, t[j])
      BY <1>1, <2>3, <3>1
    <3> QED
      BY <1>1, <3>2 DEF Covered
  <2> QED
    BY <2>1, <2>2, <2>3
<1> QED
  BY <1>1, <1>2, <1>3, <1>4 DEF t

(* An id that touches no range becomes a range of its own.                 *)
LEMMA RangeInserted ==
  ASSUME NEW s, Neat(s), NEW r \in 1 .. Len(s) + 1, NEW val \in Ids,
         \A i \in 1 .. Len(s) : /\ i < r => s[i].last + 1 < val
                                /\ i >= r => val + 1 < s[i].first
  PROVE  LET t == InsertAt(s, r, with_first_last(val, val)) IN
         Neat(t) /\ Covered(t) = Covered(s) \cup {val}
<1> USE DEF Neat
<1> DEFINE e == with_first_last(val, val)
           t == InsertAt(s, r, e)
           n == Len(s)
           at(j) == IF j < r THEN j ELSE j - 1
<1>0. n \in Nat /\ r \in Int /\ val \in Int
  BY LenProperties
<1>e. e \in Ranges /\ e.first = val /\ e.last = val
  BY NewRange
<1> HIDE DEF e
<1>1. /\ t \in Seq(Ranges) /\ Len(t) = n + 1
      /\ \A j \in 1 .. n + 1 : t[j] = IF j < r THEN s[j] ELSE IF j = r THEN e ELSE s[j - 1]
  BY <1>e, InsertedAt
<1> HIDE DEF t
<1>2. \A j \in 1 .. n + 1 : j # r => at(j) \in 1 .. n /\ t[j] = s[at(j)]
  <2>1. ASSUME NEW j \in 1 .. n + 1, j # r PROVE at(j) \in 1 .. n
    BY <1>0, <2>1
  <2>2. ASSUME NEW j \in 1 .. n + 1, j # r PROVE t[j] = s[at(j)]
    BY <1>1, <2>2
  <2> QED
    BY <2>1, <2>2
<1>3. Apart(t)
  <2> SUFFICES ASSUME NEW i \in 1 .. n + 1, NEW j \in 1 .. n + 1, i < j
               PROVE  t[i].last + 1 < t[j].first
    BY <1>1 DEF Apart
  <2>1. CASE i # r /\ j # r
    <3>1. at(i) < at(j) /\ at(i) \in 1 .. n /\ at(j) \in 1 .. n
      BY <1>0, <2>1
    <3>2. s[at(i)].last + 1 < s[at(j)].first
      BY <3>1 DEF Apart
    <3> QED
      BY <1>2, <2>1, <3>2
  <2>2. CASE i = r
    <3>1. j - 1 \in 1 .. n /\ j - 1 >= r /\ t[i] = e /\ t[j] = s[j - 1]
      BY <1>0, <1>1, <2>2
    <3> QED
      BY <1>e, <3>1
  <2>3. CASE j = r
    <3>1. i \in 1 .. n /\ t[i] = s[i] /\ t[j] = e
      BY <1>0, <1>1, <2>3
    <3> QED
      BY <1>e, <2>3, <3>1
  <2> QED
    BY <2>1, <2>2, <2>3
<1>4. NoneEmpty(t)
  <2> SUFFICES ASSUME NEW j \in 1 .. n + 1 PROVE t[j].first <= t[j].last
    BY <1>1 DEF NoneEmpty
  <2>1. CASE j = r
    BY <1>0, <1>1, <1>e, <2>1
  <2>2. CASE j # r
    BY <1>2, <2>2 DEF NoneEmpty
  <2> QED
    BY <2>1, <2>2
<1>5. ASSUME NEW w \in Covered(t), w # val PROVE w \in Covered(s)
  <2>1. PICK j \in 1 .. n + 1 : Within(w, t[j])
    BY <1>1 DEF Covered
  <2>2. j # r
    BY <1>0, <1>1, <1>5, <1>e, <2>1 DEF Within, Covered
  <2>3. at(j) \in 1 .. n /\ Within(w, s[at(j)]) /\ w \in Ids
    BY <1>2, <2>1, <2>2 DEF Covered
  <2> HIDE DEF at
  <2> QED
    BY <2>3 DEF Covered
<1>6. ASSUME NEW w \in Covered(s) PROVE w \in Covered(t)
  <2>1. PICK i \in 1 .. n : Within(w, s[i])
    BY DEF Covered
  <2> DEFINE j == IF i < r THEN i ELSE i + 1
  <2>2. j \in 1 .. n + 1 /\ t[j] = s[i]
    <3>1. CASE i < r
      BY <1>0, <1>1, <3>1
    <3>2. CASE i >= r
      <4>1. j = i + 1 /\ j \in 1 .. n + 1 /\ ~(j < r) /\ j # r /\ j - 1 = i
        BY <1>0, <3>2
      <4> HIDE DEF j
      <4>2. t[j] = s[j - 1]
        BY <1>1, <4>1
      <4> QED
        BY <4>1, <4>2
    <3> QED
      BY <1>0, <3>1, <3>2
  <2> HIDE DEF j
  <2> QED
    BY <1>1, <2>1, <2>2 DEF Covered
<1>7. val \in Covered(t)
  <2>1. r \in 1 .. n + 1 /\ Within(val, t[r])
    BY <1>0, <1>1, <1>e DEF Within
  <2> QED
    BY <1>1, <2>1 DEF Covered
<1>8. Covered(t) = Covered(s) \cup {val}
  BY <1>5, <1>6, <1>7
<1> QED
  BY <1>1, <1>3, <1>4, <1>8 DEF t, e

(* An id that fills the gap between two ranges makes one of them.          *)
LEMMA RangesMerged ==
  ASSUME NEW s, Neat(s), NEW r \in 2 .. Len(s), NEW val \in Ids,
         s[r - 1].last + 1 = val, s[r].first - 1 = val
  PROVE  LET t == RemoveAt([s EXCEPT ![r - 1].last = s[r].last], r) IN
         Neat(t) /\ Covered(t) = Covered(s) \cup {val}
<1> USE DEF Neat
<1> DEFINE u == [s EXCEPT ![r - 1].last = s[r].last]
           t == RemoveAt(u, r)
           n == Len(s)
           lo(j) == IF j < r THEN j ELSE j + 1
           hi(j) == IF j < r - 1 THEN j ELSE j + 1
           e == with_first_last(s[r - 1].first, s[r].last)
<1>0. n \in Nat /\ r \in Int /\ val \in Int /\ r \in 1 .. n /\ r - 1 \in 1 .. n
  BY LenProperties
<1>e. e \in Ranges /\ e.first = s[r - 1].first /\ e.last = s[r].last
  BY <1>0, RangeAt, NewRange
<1>a. u = [s EXCEPT ![r - 1] = e]
  <2>1. s[r - 1] \in Ranges /\ s[r].last \in Ids
    BY <1>0, RangeAt
  <2>2. [s[r - 1] EXCEPT !.last = s[r].last] = e
    BY <2>1, OneEndMoved
  <2> QED
    BY <2>2
<1> HIDE DEF e, u
<1>b. u \in Seq(Ranges) /\ Len(u) = n /\ \A j \in 1 .. n : u[j] = IF j = r - 1 THEN e ELSE s[j]
  BY <1>0, <1>a, <1>e, ExceptSeq
<1>c. /\ t \in Seq(Ranges) /\ Len(t) = n - 1
      /\ \A j \in 1 .. n - 1 : t[j] = IF j < r THEN u[j] ELSE u[j + 1]
  BY <1>0, <1>b, RemovedAt
<1> HIDE DEF t
<1>1. ASSUME NEW j \in 1 .. n - 1
      PROVE  /\ lo(j) \in 1 .. n /\ t[j].first = s[lo(j)].first
             /\ hi(j) \in 1 .. n /\ t[j].last = s[hi(j)].last
  <2>1. CASE j < r - 1
    <3>1. lo(j) = j /\ hi(j) = j /\ j \in 1 .. n /\ j # r - 1 /\ j < r
      BY <1>0, <2>1
    <3>2. t[j] = s[j]
      BY <1>b, <1>c, <3>1
    <3> QED
      BY <3>1, <3>2
  <2>2. CASE j = r - 1
    <3>1. lo(j) = r - 1 /\ hi(j) = r /\ t[j] = e
      BY <1>0, <1>b, <1>c, <2>2
    <3> QED
      BY <1>0, <1>e, <3>1
  <2>3. CASE j >= r
    <3>1. lo(j) = j + 1 /\ hi(j) = j + 1 /\ j + 1 \in 1 .. n /\ j + 1 # r - 1 /\ ~(j < r)
      BY <1>0, <2>3
    <3>2. t[j] = s[j + 1]
      BY <1>b, <1>c, <3>1
    <3> QED
      BY <3>1, <3>2
  <2> QED
    BY <1>0, <2>1, <2>2, <2>3
<1>2. Apart(t)
  <2> SUFFICES ASSUME NEW i \in 1 .. n - 1, NEW j \in 1 .. n - 1, i < j
               PROVE  t[i].last + 1 < t[j].first
    BY <1>c DEF Apart
  <2>1. hi(i) < lo(j)
    BY <1>0
  <2> HIDE DEF hi, lo
  <2>2. s[hi(i)].last + 1 < s[lo(j)].first
    BY <1>1, <2>1 DEF Apart
  <2> QED
    BY <1>1, <2>2
<1>3. NoneEmpty(t)
  <2> SUFFICES ASSUME NEW j \in 1 .. n - 1 PROVE t[j].first <= t[j].last
    BY <1>c DEF NoneEmpty
  <2>1. s[lo(j)].first <= s[hi(j)].last
    <3>1. CASE lo(j) = hi(j)
      BY <1>1, <3>1 DEF NoneEmpty
    <3>2. CASE lo(j) # hi(j)
      <4>1. lo(j) = r - 1 /\ hi(j) = r
        BY <1>0, <3>2
      <4>2. s[r - 1].first <= s[r - 1].last /\ s[r].first <= s[r].last
        BY <1>0 DEF NoneEmpty
      <4>3. /\ s[r - 1].first \in Int /\ s[r - 1].last \in Int
            /\ s[r].first \in Int /\ s[r].last \in Int
        BY <1>0, RangeAt
      <4> QED
        BY <1>0, <4>1, <4>2, <4>3
    <3> QED
      BY <3>1, <3>2
  <2> QED
    BY <1>1, <2>1
<1>n. /\ s[r - 1].first \in Int /\ s[r - 1].last \in Int
      /\ s[r].first \in Int /\ s[r].last \in Int
      /\ s[r - 1].first <= s[r - 1].last /\ s[r].first <= s[r].last
  BY <1>0, RangeAt DEF NoneEmpty
<1>4. ASSUME NEW w \in Covered(t), w # val PROVE w \in Covered(s)
  <2>1. PICK j \in 1 .. n - 1 : Within(w, t[j])
    BY <1>c DEF Covered
  <2>2. w \in Ids /\ w \in Int /\ s[lo(j)].first <= w /\ w <= s[hi(j)].last
    BY <1>1, <2>1 DEF Within, Covered
  <2>3. CASE lo(j) = hi(j)
    BY <1>1, <2>2, <2>3 DEF Within, Covered
  <2>4. CASE lo(j) # hi(j)
    <3>1. lo(j) = r - 1 /\ hi(j) = r
      BY <1>0, <2>4
    <3>2. Within(w, s[r - 1]) \/ Within(w, s[r])
      BY <1>0, <1>4, <1>n, <2>2, <3>1 DEF Within
    <3> QED
      BY <1>0, <2>2, <3>2 DEF Covered
  <2> QED
    BY <2>3, <2>4
<1>5. ASSUME NEW w \in Covered(s) PROVE w \in Covered(t)
  <2>1. PICK i \in 1 .. n : Within(w, s[i])
    BY DEF Covered
  <2>2. w \in Ids /\ w \in Int /\ i \in Int
    BY <2>1 DEF Covered
  <2>3. CASE i # r - 1 /\ i # r
    <3> DEFINE j == IF i < r THEN i ELSE i - 1
    <3>1. j \in 1 .. n - 1 /\ lo(j) = i /\ hi(j) = i
      BY <1>0, <2>2, <2>3
    <3>2. Within(w, t[j])
      BY <1>1, <2>1, <3>1 DEF Within
    <3> HIDE DEF j
    <3> QED
      BY <1>c, <2>2, <3>1, <3>2 DEF Covered
  <2>4. CASE i = r - 1 \/ i = r
    <3>1. r - 1 \in 1 .. n - 1 /\ lo(r - 1) = r - 1 /\ hi(r - 1) = r
      BY <1>0
    <3>2. t[r - 1].first = s[r - 1].first /\ t[r - 1].last = s[r].last
      BY <1>1, <3>1
    <3>3. Within(w, t[r - 1])
      BY <1>0, <1>n, <2>1, <2>2, <2>4, <3>2 DEF Within
    <3> QED
      BY <1>c, <2>2, <3>1, <3>3 DEF Covered
  <2> QED
    BY <2>3, <2>4
<1>6. val \in Covered(t)
  <2>1. r - 1 \in 1 .. n - 1 /\ lo(r - 1) = r - 1 /\ hi(r - 1) = r
    BY <1>0
  <2>2. t[r - 1].first = s[r - 1].first /\ t[r - 1].last = s[r].last
    BY <1>1, <2>1
  <2>3. Within(val, t[r - 1])
    BY <1>0, <1>n, <2>2 DEF Within
  <2> QED
    BY <1>c, <2>1, <2>3 DEF Covered
<1>7. Covered(t) = Covered(s) \cup {val}
  BY <1>4, <1>5, <1>6
<1> QED
  BY <1>2, <1>3, <1>c, <1>7 DEF t, u

-----------------------------------------------------------------------------
(* The binary searches.                                                    *)
LEMMA FirstsAscend ==
  ASSUME NEW s, Neat(s), NEW i \in 1 .. Len(s), NEW j \in 1 .. Len(s), i <= j
  PROVE  s[i].first <= s[j].first
<1>1. /\ s[i].first \in Int /\ s[i].last \in Int
      /\ s[j].first \in Int /\ s[j].last \in Int
  BY RangeAt DEF Neat
<1>2. CASE i = j
  BY <1>1, <1>2
<1>3. CASE i < j
  BY <1>1, <1>3 DEF Neat, Apart, NoneEmpty
<1> QED
  BY <1>2, <1>3, LenProperties DEF Neat

LEMMA Searched ==
  ASSUME _empty_ranges \in Seq(Ranges), NEW F \in SUBSET (1 .. Len(_empty_ranges)),
         \A i \in F : \A j \in 1 .. Len(_empty_ranges) : i <= j => j \in F
  PROVE  /\ FirstIndex(F) \in 1 .. Len(_empty_ranges) + 1
         /\ \A i \in 1 .. Len(_empty_ranges) : i >= FirstIndex(F) <=> i \in F
<1>0. Len(_empty_ranges) \in Nat
  BY LenProperties
<1>1. CASE F = {}
  BY <1>0, <1>1 DEF FirstIndex
<1>2. CASE F # {}
  <2>1. \E i \in F : \A j \in F : i <= j
    BY <1>2, LeastIndex
  <2> DEFINE k == FirstIndex(F)
  <2>2. k \in F /\ \A j \in F : k <= j
    BY <1>2, <2>1 DEF FirstIndex
  <2> HIDE DEF k
  <2>3. k \in 1 .. Len(_empty_ranges)
    BY <2>2
  <2>4. ASSUME NEW i \in 1 .. Len(_empty_ranges) PROVE i >= k <=> i \in F
    <3>1. i \in F => k <= i
      BY <2>2
    <3>2. k <= i => i \in F
      BY <2>2
    <3> QED
      BY <1>0, <2>3, <3>1, <3>2
  <2> QED
    BY <1>0, <2>3, <2>4 DEF k
<1> QED
  BY <1>1, <1>2

LEMMA LowerBound ==
  ASSUME Neat(_empty_ranges), NEW val \in Ids
  PROVE  /\ lower_bound(val) \in 1 .. Len(_empty_ranges) + 1
         /\ \A i \in 1 .. Len(_empty_ranges) :
              /\ i < lower_bound(val) => _empty_ranges[i].first < val
              /\ i >= lower_bound(val) => _empty_ranges[i].first >= val
<1> DEFINE n == Len(_empty_ranges)
           F == {i \in 1 .. n : _empty_ranges[i].first >= val}
<1>0. _empty_ranges \in Seq(Ranges) /\ n \in Nat /\ DOMAIN _empty_ranges = 1 .. n
  BY LenProperties DEF Neat
<1>1. \A i \in 1 .. n : _empty_ranges[i].first \in Int
  BY <1>0, RangeAt
<1>2. \A i \in F : \A j \in 1 .. n : i <= j => j \in F
  BY <1>1, FirstsAscend
<1>3. lower_bound(val) = FirstIndex(F)
  BY <1>0 DEF lower_bound, NotBefore
<1>4. /\ FirstIndex(F) \in 1 .. n + 1
      /\ \A i \in 1 .. n : i >= FirstIndex(F) <=> i \in F
  <2> HIDE DEF F
  <2>1. F \in SUBSET (1 .. n)
    BY DEF F
  <2> QED
    BY <1>0, <1>2, <2>1, Searched
<1> DEFINE k == lower_bound(val)
<1>5. k \in 1 .. n + 1 /\ \A i \in 1 .. n : i >= k <=> i \in F
  BY <1>3, <1>4
<1> HIDE DEF k
<1>6. ASSUME NEW i \in 1 .. n
      PROVE  /\ i < k => _empty_ranges[i].first < val
             /\ i >= k => _empty_ranges[i].first >= val
  <2>1. i \in Int /\ k \in Int /\ val \in Int /\ _empty_ranges[i].first \in Int
    BY <1>0, <1>1, <1>5
  <2>2. i >= k <=> _empty_ranges[i].first >= val
    BY <1>5
  <2> QED
    BY <2>1, <2>2
<1> QED
  BY <1>5, <1>6 DEF k

LEMMA UpperBound ==
  ASSUME Neat(_empty_ranges), NEW val \in Ids
  PROVE  /\ upper_bound(val) \in 1 .. Len(_empty_ranges) + 1
         /\ \A i \in 1 .. Len(_empty_ranges) :
              /\ i < upper_bound(val) => _empty_ranges[i].first <= val
              /\ i >= upper_bound(val) => _empty_ranges[i].first > val
<1> DEFINE n == Len(_empty_ranges)
           F == {i \in 1 .. n : _empty_ranges[i].first > val}
<1>0. _empty_ranges \in Seq(Ranges) /\ n \in Nat /\ DOMAIN _empty_ranges = 1 .. n
  BY LenProperties DEF Neat
<1>1. \A i \in 1 .. n : _empty_ranges[i].first \in Int
  BY <1>0, RangeAt
<1>2. \A i \in F : \A j \in 1 .. n : i <= j => j \in F
  BY <1>1, FirstsAscend
<1>3. upper_bound(val) = FirstIndex(F)
  BY <1>0 DEF upper_bound, Behind
<1>4. /\ FirstIndex(F) \in 1 .. n + 1
      /\ \A i \in 1 .. n : i >= FirstIndex(F) <=> i \in F
  <2> HIDE DEF F
  <2>1. F \in SUBSET (1 .. n)
    BY DEF F
  <2> QED
    BY <1>0, <1>2, <2>1, Searched
<1> DEFINE k == upper_bound(val)
<1>5. k \in 1 .. n + 1 /\ \A i \in 1 .. n : i >= k <=> i \in F
  BY <1>3, <1>4
<1> HIDE DEF k
<1>6. ASSUME NEW i \in 1 .. n
      PROVE  /\ i < k => _empty_ranges[i].first <= val
             /\ i >= k => _empty_ranges[i].first > val
  <2>1. i \in Int /\ k \in Int /\ val \in Int /\ _empty_ranges[i].first \in Int
    BY <1>0, <1>1, <1>5
  <2>2. i >= k <=> _empty_ranges[i].first > val
    BY <1>5
  <2> QED
    BY <2>1, <2>2
<1> QED
  BY <1>5, <1>6 DEF k

(* The search of is_free_id decides whether a range holds the id.          *)
LEMMA FreeIfCovered ==
  ASSUME Neat(_empty_ranges), NEW val \in Ids
  PROVE  is_free_id(val) <=> val \in Covered(_empty_ranges)
<1> DEFINE n == Len(_empty_ranges)
           right == upper_bound(val)
<1>0. n \in Nat /\ val \in Int /\ _empty_ranges \in Seq(Ranges)
  BY LenProperties DEF Neat
<1>1. /\ right \in 1 .. n + 1
      /\ \A i \in 1 .. n : /\ i < right => _empty_ranges[i].first <= val
                           /\ i >= right => _empty_ranges[i].first > val
  BY UpperBound
<1>2. is_free_id(val) <=> /\ right > 1 /\ _empty_ranges[right - 1].first <= val
                          /\ val <= _empty_ranges[right - 1].last
  BY DEF is_free_id
<1> HIDE DEF right
<1>3. ASSUME is_free_id(val) PROVE val \in Covered(_empty_ranges)
  <2>1. right - 1 \in 1 .. n /\ Within(val, _empty_ranges[right - 1])
    BY <1>0, <1>1, <1>2, <1>3 DEF Within
  <2> QED
    BY <2>1 DEF Covered
<1>4. ASSUME val \in Covered(_empty_ranges) PROVE is_free_id(val)
  <2>1. PICK i \in 1 .. n : Within(val, _empty_ranges[i])
    BY <1>4 DEF Covered
  <2>2. /\ _empty_ranges[i].first \in Int /\ _empty_ranges[i].last \in Int
    BY <1>0, RangeAt
  <2>3. i < right
    BY <1>0, <1>1, <2>1, <2>2 DEF Within
  <2>4. right > 1 /\ right - 1 \in 1 .. n
    BY <1>0, <1>1, <2>3
  <2>5. /\ _empty_ranges[right - 1].first \in Int /\ _empty_ranges[right - 1].last \in Int
        /\ _empty_ranges[right - 1].first <= val
    BY <1>0, <1>1, <2>4, RangeAt
  <2>6. ~(i < right - 1)
    <3> SUFFICES ASSUME i < right - 1 PROVE FALSE
      OBVIOUS
    <3>1. _empty_ranges[i].last + 1 < _empty_ranges[right - 1].first
      BY <2>4 DEF Neat, Apart
    <3> QED
      BY <1>0, <2>1, <2>2, <2>5, <3>1 DEF Within
  <2>7. i = right - 1
    BY <1>1, <2>3, <2>6
  <2> QED
    BY <1>2, <2>1, <2>4, <2>7 DEF Within
<1> QED
  BY <1>3, <1>4

-----------------------------------------------------------------------------
(* Nobody uses two ids at once, and none is lost: each operation keeps the *)
(* deque neat and its ranges the complement of the ids in use.             *)
LEMMA ClearedKeeps ==
  LET s == << with_first_last(1, max_identifier) >>
  IN  Neat(s) /\ Len(s) = 1 /\ Covered(s) = Ids
<1> DEFINE e == with_first_last(1, max_identifier)
<1>1. e \in Ranges /\ e.first = 1 /\ e.last = max_identifier
  BY NewRange
<1> HIDE DEF e
<1>2. << e >> \in Seq(Ranges) /\ Len(<< e >>) = 1 /\ << e >>[1] = e
  BY <1>1
<1>3. Apart(<< e >>)
  BY <1>2 DEF Apart
<1>4. NoneEmpty(<< e >>)
  BY <1>1, <1>2 DEF NoneEmpty
<1>5. Covered(<< e >>) = Ids
  BY <1>1, <1>2 DEF Covered, Within
<1> QED
  BY <1>2, <1>3, <1>4, <1>5 DEF Neat, e

LEMMA NewIdKeeps ==
  ASSUME IdsInv, new_id
  PROVE  /\ IdsInv'
         /\ _empty_ranges[_current_range].first \in Ids \ handed
         /\ handed' = handed \cup {_empty_ranges[_current_range].first}
<1> DEFINE n == Len(_empty_ranges)
           c == _current_range
           rn == _empty_ranges[c]
           rest == with_first_last(rn.first + 1, rn.last)
<1>0. /\ n \in Nat /\ c \in 1 .. n /\ _empty_ranges \in Seq(Ranges)
      /\ Neat(_empty_ranges) /\ handed = Ids \ Covered(_empty_ranges)
  BY LenProperties DEF IdsInv, Neat, new_id
<1>1. /\ rn \in Ranges /\ rn.first \in Ids /\ rn.last \in Ids
      /\ rn.first \in Int /\ rn.last \in Int /\ rn.first <= rn.last
  BY <1>0, RangeAt DEF Neat, NoneEmpty
<1>2. rn.first \in Covered(_empty_ranges)
  BY <1>0, <1>1 DEF Covered, Within
<1>3. handed' = handed \cup {rn.first}
  BY DEF new_id
<1>r. rest.first = rn.first + 1 /\ rest.last = rn.last
  BY DEF with_first_last
<1>4. CASE IsEmpty(rest)
  <2>1. /\ _empty_ranges' = RemoveAt(_empty_ranges, c)
        /\ _current_range' = IF c = n THEN 1 ELSE c
    BY <1>4 DEF new_id
  <2>2. rn.first = rn.last
    BY <1>1, <1>4, <1>r DEF IsEmpty
  <2>3. Neat(_empty_ranges') /\ Covered(_empty_ranges') = Covered(_empty_ranges) \ {rn.first}
    BY <1>0, <2>1, <2>2, RangeUsedUp
  <2>4. Len(_empty_ranges') = n - 1
    BY <1>0, <2>1, RemovedAt
  <2>5. _current_range' \in 1 .. Len(_empty_ranges') + 1
    BY <1>0, <2>1, <2>4
  <2>6. handed' = Ids \ Covered(_empty_ranges')
    BY <1>0, <1>1, <1>3, <2>3
  <2> QED
    BY <1>0, <1>1, <1>2, <1>3, <2>3, <2>5, <2>6 DEF IdsInv
<1>5. CASE ~IsEmpty(rest)
  <2>1. /\ _empty_ranges' = [_empty_ranges EXCEPT ![c] = rest]
        /\ _current_range' = c
    BY <1>5 DEF new_id
  <2>2. rn.first + 1 <= rn.last
    BY <1>1, <1>5, <1>r DEF IsEmpty
  <2>3. rest \in Ranges /\ rest.first <= rest.last
    BY <1>1, <1>r, <2>2, NewRange
  <2> HIDE DEF rest
  <2>4. ASSUME NEW i \in 1 .. n
        PROVE  /\ i < c => _empty_ranges[i].last + 1 < rest.first
               /\ i > c => rest.last + 1 < _empty_ranges[i].first
    <3>1. _empty_ranges[i].last \in Int /\ _empty_ranges[i].first \in Int
      BY <1>0, RangeAt
    <3>2. /\ i < c => _empty_ranges[i].last + 1 < rn.first
          /\ c < i => rn.last + 1 < _empty_ranges[i].first
      BY <1>0 DEF Neat, Apart
    <3> QED
      BY <1>0, <1>1, <1>r, <3>1, <3>2
  <2>5. /\ Neat(_empty_ranges')
        /\ \A w \in Ids : w \in Covered(_empty_ranges') <=>
             Within(w, rest) \/ (w \in Covered(_empty_ranges) /\ ~Within(w, rn))
    <3> DEFINE t == [_empty_ranges EXCEPT ![c] = rest]
    <3>1. Fits(_empty_ranges, c, rest)
      BY <2>4 DEF Fits
    <3>2. /\ Neat(t)
          /\ \A w \in Ids : w \in Covered(t) <=>
               Within(w, rest) \/ (w \in Covered(_empty_ranges) /\ ~Within(w, rn))
      BY <1>0, <2>3, <3>1, RangeReplaced
    <3> QED
      BY <2>1, <3>2
  <2>6. ASSUME NEW w \in Ids
        PROVE  w \in Covered(_empty_ranges') <=> w \in Covered(_empty_ranges) /\ w # rn.first
    <3>1. Within(w, rest) <=> Within(w, rn) /\ w # rn.first
      BY <1>1, <1>r DEF Within
    <3>2. Within(w, rn) => w \in Covered(_empty_ranges)
      BY <1>0 DEF Covered
    <3> QED
      BY <1>1, <2>5, <3>1, <3>2 DEF Within
  <2>7. Len(_empty_ranges') = n
    BY <1>0, <2>1, <2>3, ExceptSeq
  <2>8. handed' = Ids \ Covered(_empty_ranges')
    BY <1>0, <1>1, <1>3, <2>6
  <2> QED
    BY <1>0, <1>1, <1>2, <1>3, <2>1, <2>5, <2>7, <2>8 DEF IdsInv
<1> QED
  BY <1>4, <1>5

(* Behind the ranges before index right and before the others: what the    *)
(* search for the place of an id in use finds.                             *)
LEMMA PlaceOfUsed ==
  ASSUME IdsInv, NEW val \in handed
  PROVE  /\ lower_bound(val) \in 1 .. Len(_empty_ranges) + 1
         /\ \A i \in 1 .. Len(_empty_ranges) :
              /\ i < lower_bound(val) => _empty_ranges[i].last < val
              /\ i >= lower_bound(val) => val < _empty_ranges[i].first
<1>0. /\ _empty_ranges \in Seq(Ranges) /\ Neat(_empty_ranges)
      /\ val \in Ids /\ val \notin Covered(_empty_ranges)
      /\ Len(_empty_ranges) \in Nat
  BY LenProperties DEF IdsInv, Neat
<1> DEFINE k == lower_bound(val)
<1>1. /\ k \in 1 .. Len(_empty_ranges) + 1
      /\ \A i \in 1 .. Len(_empty_ranges) : /\ i < k => _empty_ranges[i].first < val
                                            /\ i >= k => _empty_ranges[i].first >= val
  BY <1>0, LowerBound
<1> HIDE DEF k
<1>2. ASSUME NEW i \in 1 .. Len(_empty_ranges)
      PROVE  /\ i < k => _empty_ranges[i].last < val
             /\ i >= k => val < _empty_ranges[i].first
  <2>1. /\ _empty_ranges[i].first \in Int /\ _empty_ranges[i].last \in Int
        /\ _empty_ranges[i].first <= _empty_ranges[i].last
    BY <1>0, RangeAt DEF Neat, NoneEmpty
  <2>2. ~Within(val, _empty_ranges[i])
    BY <1>0 DEF Covered
  <2> QED
    BY <1>0, <1>1, <2>1, <2>2 DEF Within
<1> QED
  BY <1>1, <1>2 DEF k

LEMMA ReuseIdKeeps ==
  ASSUME IdsInv, NEW val \in Ids, reuse_id(val)
  PROVE  IdsInv'
<1> DEFINE s == _empty_ranges
           n == Len(_empty_ranges)
           r == lower_bound(val)
<1>0. /\ n \in Nat /\ s \in Seq(Ranges) /\ Neat(s) /\ val \in Int
      /\ _current_range \in 1 .. n + 1
      /\ val \in handed /\ handed' = handed \ {val} /\ handed = Ids \ Covered(s)
  BY LenProperties DEF IdsInv, Neat, reuse_id
<1>1. /\ r \in 1 .. n + 1
      /\ \A i \in 1 .. n : /\ i < r => s[i].last < val
                           /\ i >= r => val < s[i].first
  BY <1>0, PlaceOfUsed
<1>2. \A i \in 1 .. n : /\ s[i] \in Ranges /\ s[i].first \in Ids /\ s[i].last \in Ids
                        /\ s[i].first \in Int /\ s[i].last \in Int /\ s[i].first <= s[i].last
  BY <1>0, RangeAt DEF Neat, NoneEmpty
<1>3. \A i, j \in 1 .. n : i < j => s[i].last + 1 < s[j].first
  BY <1>0 DEF Neat, Apart
<1>l. left_meets(r, val) <=> r > 1 /\ s[r - 1].last + 1 = val
  BY DEF left_meets
<1>r. right_meets(r, val) <=> r <= n /\ s[r].first - 1 = val
  BY DEF right_meets
(* Unless the id continues the range on the left, there is room on the left. *)
<1>4. ASSUME ~left_meets(r, val), NEW i \in 1 .. n, i < r PROVE s[i].last + 1 < val
  <2>1. r - 1 \in 1 .. n /\ r > 1
    BY <1>0, <1>1, <1>4
  <2>2. s[r - 1].last + 1 < val
    <3>1. s[r - 1].last < val /\ s[r - 1].last \in Int
      BY <1>1, <1>2, <2>1
    <3>2. s[r - 1].last + 1 # val
      BY <1>4, <1>l, <2>1
    <3> HIDE DEF r, s
    <3> QED
      BY <1>0, <3>1, <3>2
  <2>3. CASE i = r - 1
    BY <2>2, <2>3
  <2>4. CASE i < r - 1
    <3>1. s[i].last + 1 < s[r - 1].first
      BY <1>3, <2>1, <2>4
    <3>2. s[r - 1].first <= s[r - 1].last /\ s[r - 1].first \in Int /\ s[r - 1].last \in Int
      BY <1>2, <2>1
    <3>3. s[i].last \in Int
      BY <1>2
    <3>4. val \in Int
      BY <1>0
    <3> HIDE DEF r, s
    <3> QED
      BY <2>2, <3>1, <3>2, <3>3, <3>4
  <2> QED
    BY <1>1, <1>4, <2>3, <2>4
<1>5. ASSUME ~right_meets(r, val), NEW i \in 1 .. n, i >= r PROVE val + 1 < s[i].first
  <2>1. r \in 1 .. n
    BY <1>0, <1>1, <1>5
  <2>2. val + 1 < s[r].first
    <3>1. val < s[r].first /\ s[r].first \in Int
      BY <1>1, <1>2, <2>1
    <3>2. s[r].first - 1 # val
      BY <1>5, <1>r, <2>1
    <3> HIDE DEF r, s
    <3> QED
      BY <1>0, <3>1, <3>2
  <2>3. CASE i = r
    BY <2>2, <2>3
  <2>4. CASE i > r
    <3>1. s[r].last + 1 < s[i].first
      BY <1>3, <2>1, <2>4
    <3>2. s[r].first <= s[r].last /\ s[r].first \in Int /\ s[r].last \in Int
      BY <1>2, <2>1
    <3>3. s[i].first \in Int
      BY <1>2
    <3> HIDE DEF r, s
    <3> QED
      BY <1>0, <2>2, <3>1, <3>2, <3>3
  <2> QED
    BY <1>1, <1>5, <2>3, <2>4
<1>6. SUFFICES /\ Neat(_empty_ranges')
               /\ Covered(_empty_ranges') = Covered(s) \cup {val}
               /\ _current_range' \in 1 .. Len(_empty_ranges') + 1
  BY <1>0 DEF IdsInv
<1>7. CASE ~left_meets(r, val) /\ ~right_meets(r, val)
  <2>1. /\ s' = InsertAt(s, r, with_first_last(val, val))
        /\ _current_range' = index_after_insert(r)
    BY <1>7 DEF reuse_id
  <2>2. \A i \in 1 .. n : /\ i < r => s[i].last + 1 < val
                          /\ i >= r => val + 1 < s[i].first
    BY <1>4, <1>5, <1>7
  <2>3. Neat(s') /\ Covered(s') = Covered(s) \cup {val}
    BY <1>0, <1>1, <2>1, <2>2, RangeInserted
  <2>4. Len(s') = n + 1
    BY <1>0, <1>1, <2>1, NewRange, InsertedAt
  <2>5. _current_range' \in 1 .. Len(s') + 1
    BY <1>0, <1>1, <2>1, <2>4 DEF index_after_insert
  <2> QED
    BY <2>3, <2>5
<1>8. CASE left_meets(r, val) /\ right_meets(r, val)
  <2> DEFINE u == [s EXCEPT ![r - 1].last = s[r].last]
  <2>1. /\ s' = RemoveAt(u, r)
        /\ _current_range' = index_after_merge(r)
    BY <1>8 DEF reuse_id
  <2>2. r \in 2 .. n /\ s[r - 1].last + 1 = val /\ s[r].first - 1 = val
    BY <1>0, <1>1, <1>8, <1>l, <1>r
  <2>3. Neat(s') /\ Covered(s') = Covered(s) \cup {val}
    BY <1>0, <2>1, <2>2, RangesMerged
  <2>4. Len(s') = n - 1
    <3>1. r - 1 \in 1 .. n /\ r \in 1 .. n
      BY <1>0, <2>2
    <3>2. u = [s EXCEPT ![r - 1] = with_first_last(s[r - 1].first, s[r].last)]
      BY <1>2, <3>1, OneEndMoved
    <3>3. with_first_last(s[r - 1].first, s[r].last) \in Ranges
      BY <1>2, <3>1, NewRange
    <3>4. u \in Seq(Ranges) /\ Len(u) = n
      BY <1>0, <3>1, <3>2, <3>3, ExceptSeq
    <3> HIDE DEF u
    <3> QED
      BY <2>1, <3>1, <3>4, RemovedAt
  <2>5. _current_range' \in 1 .. Len(s') + 1
    BY <1>0, <2>1, <2>2, <2>4 DEF index_after_merge
  <2> QED
    BY <2>3, <2>5
<1>9. CASE left_meets(r, val) /\ ~right_meets(r, val)
  <2> DEFINE c == r - 1
             e == with_first_last(s[c].first, val)
  <2>1. s' = [s EXCEPT ![c].last = val] /\ _current_range' = _current_range
    BY <1>9 DEF reuse_id
  <2>2. c \in 1 .. n /\ s[c].last + 1 = val
    BY <1>0, <1>1, <1>9, <1>l
  <2> HIDE DEF c
  <2>3. /\ s[c] \in Ranges /\ s[c].first \in Int /\ s[c].last \in Int
        /\ s[c].first \in Ids /\ s[c].first <= s[c].last
    BY <1>2, <2>2
  <2>4. e \in Ranges /\ e.first = s[c].first /\ e.last = val
    BY <1>0, <2>3, NewRange
  <2>5. s' = [s EXCEPT ![c] = e]
    BY <1>0, <2>1, <2>3, OneEndMoved
  <2> HIDE DEF e
  <2>6. Fits(s, c, e)
    <3> SUFFICES ASSUME NEW i \in 1 .. n
                 PROVE  /\ i < c => s[i].last + 1 < e.first
                        /\ i > c => e.last + 1 < s[i].first
      BY DEF Fits
    <3>1. i < c => s[i].last + 1 < s[c].first
      BY <1>3, <2>2
    <3>2. i > c => i >= r
      BY <1>0, <1>1, <2>2 DEF c
    <3> QED
      BY <1>5, <1>9, <2>4, <3>1, <3>2
  <2>7. e.first <= e.last
    BY <1>0, <2>2, <2>3, <2>4
  <2>8. /\ Neat(s')
        /\ \A w \in Ids : w \in Covered(s') <=>
             Within(w, e) \/ (w \in Covered(s) /\ ~Within(w, s[c]))
    BY <1>0, <2>2, <2>4, <2>5, <2>6, <2>7, RangeReplaced
  <2>9. ASSUME NEW w \in Ids PROVE w \in Covered(s') <=> w \in Covered(s) \/ w = val
    <3>1. Within(w, e) <=> Within(w, s[c]) \/ w = val
      BY <1>0, <2>2, <2>3, <2>4 DEF Within
    <3>2. Within(w, s[c]) => w \in Covered(s)
      BY <2>2 DEF Covered
    <3> QED
      BY <2>8, <3>1, <3>2
  <2>10. Covered(s') = Covered(s) \cup {val}
    BY <1>0, <2>9 DEF Covered
  <2>11. Len(s') = n
    BY <1>0, <2>2, <2>4, <2>5, ExceptSeq
  <2> QED
    BY <1>0, <2>1, <2>8, <2>10, <2>11
<1>10. CASE right_meets(r, val) /\ ~left_meets(r, val)
  <2> DEFINE e == with_first_last(val, s[r].last)
  <2>1. s' = [s EXCEPT ![r].first = val] /\ _current_range' = _current_range
    BY <1>10 DEF reuse_id
  <2>2. r \in 1 .. n /\ s[r].first - 1 = val
    BY <1>0, <1>1, <1>10, <1>r
  <2>3. /\ s[r] \in Ranges /\ s[r].first \in Int /\ s[r].last \in Int
        /\ s[r].last \in Ids /\ s[r].first <= s[r].last
    BY <1>2, <2>2
  <2>4. e \in Ranges /\ e.first = val /\ e.last = s[r].last
    BY <1>0, <2>3, NewRange
  <2>5. s' = [s EXCEPT ![r] = e]
    BY <1>0, <2>1, <2>3, OneEndMoved
  <2> HIDE DEF e
  <2>6. Fits(s, r, e)
    <3> SUFFICES ASSUME NEW i \in 1 .. n
                 PROVE  /\ i < r => s[i].last + 1 < e.first
                        /\ i > r => e.last + 1 < s[i].first
      BY DEF Fits
    <3>1. i > r => s[r].last + 1 < s[i].first
      BY <1>3, <2>2
    <3> QED
      BY <1>4, <1>10, <2>4, <3>1
  <2>7. e.first <= e.last
    BY <1>0, <2>2, <2>3, <2>4
  <2>8. /\ Neat(s')
        /\ \A w \in Ids : w \in Covered(s') <=>
             Within(w, e) \/ (w \in Covered(s) /\ ~Within(w, s[r]))
    BY <1>0, <2>2, <2>4, <2>5, <2>6, <2>7, RangeReplaced
  <2>9. ASSUME NEW w \in Ids PROVE w \in Covered(s') <=> w \in Covered(s) \/ w = val
    <3>1. Within(w, e) <=> Within(w, s[r]) \/ w = val
      BY <1>0, <2>2, <2>3, <2>4 DEF Within
    <3>2. Within(w, s[r]) => w \in Covered(s)
      BY <2>2 DEF Covered
    <3> QED
      BY <2>8, <3>1, <3>2
  <2>10. Covered(s') = Covered(s) \cup {val}
    BY <1>0, <2>9 DEF Covered
  <2>11. Len(s') = n
    BY <1>0, <2>2, <2>4, <2>5, ExceptSeq
  <2> QED
    BY <1>0, <2>1, <2>8, <2>10, <2>11
<1> QED
  BY <1>7, <1>8, <1>9, <1>10

-----------------------------------------------------------------------------
LEMMA InitNeat == IdsInit => IdsInv
BY ClearedKeeps DEF IdsInit, IdsInv

LEMMA ClearKeeps ==
  ASSUME u_clear
  PROVE  IdsInv'
BY ClearedKeeps DEF u_clear, IdsInv

LEMMA IdsInductive == IdsInv /\ [IdsNext]_idVars => IdsInv'
<1> SUFFICES ASSUME IdsInv, [IdsNext]_idVars PROVE IdsInv'
  OBVIOUS
<1>1. CASE new_id
  BY <1>1, NewIdKeeps
<1>2. ASSUME NEW val \in Ids, reuse_id(val) PROVE IdsInv'
  BY <1>2, ReuseIdKeeps
<1>3. CASE u_clear
  BY <1>3, ClearKeeps
<1>4. CASE UNCHANGED idVars
  BY <1>4 DEF idVars, IdsInv
<1> QED
  BY <1>1, <1>2, <1>3, <1>4 DEF IdsNext

LEMMA IdsInvariant == IdsSpec => []IdsInv
BY InitNeat, IdsInductive, PTL DEF IdsSpec

(* The free ranges ascend and never touch, whatever the order in which ids *)
(* are taken and given back: what is_valid asserts of them.                *)
THEOREM RangesStayApart == IdsSpec => []RangesApart
<1>1. IdsInv => RangesApart
  BY LenProperties DEF IdsInv, Neat, Apart, RangesApart
<1> QED
  BY <1>1, IdsInvariant, PTL

(* is_free_id tells exactly the ids nobody uses: none is lost, and none is *)
(* free and in use at the same time.                                       *)
THEOREM SearchIsExact == IdsSpec => []FreeIffNotHanded
<1>1. IdsInv => FreeIffNotHanded
  BY FreeIfCovered DEF IdsInv, FreeIffNotHanded
<1> QED
  BY <1>1, IdsInvariant, PTL

(* The generator implements the pool of ids: new_id returns an id that is  *)
(* not in use, for any number of ids.                                      *)
THEOREM ImplementsPool == IdsSpec => HandsOutFreeIds
<1>1. IdsInit => Pool!Init
  BY DEF IdsInit, Pool!Init
<1>2. IdsInv /\ [IdsNext]_idVars => [Pool!Next]_handed
  <2> SUFFICES ASSUME IdsInv, [IdsNext]_idVars PROVE [Pool!Next]_handed
    OBVIOUS
  <2>1. CASE new_id
    <3> DEFINE id == _empty_ranges[_current_range].first
    <3>1. id \in Ids /\ Pool!New(id)
      BY <2>1, NewIdKeeps DEF Pool!New
    <3> HIDE DEF id
    <3> QED
      BY <3>1 DEF Pool!Next
  <2>2. ASSUME NEW val \in Ids, reuse_id(val) PROVE Pool!Next
    <3>1. Pool!Reuse(val)
      BY <2>2 DEF reuse_id, Pool!Reuse
    <3> QED
      BY <3>1 DEF Pool!Next
  <2>3. CASE u_clear
    BY <2>3 DEF u_clear, Pool!Next, Pool!Clear
  <2>4. CASE UNCHANGED idVars
    BY <2>4 DEF idVars
  <2> QED
    BY <2>1, <2>2, <2>3, <2>4 DEF IdsNext
<1>3. IdsSpec => Pool!Spec
  BY <1>1, <1>2, IdsInvariant, PTL DEF IdsSpec, Pool!Spec
<1> QED
  BY <1>3 DEF HandsOutFreeIds

-----------------------------------------------------------------------------
(* While an id is left, the current range is a range and not end().        *)
IdLeft ==
  /\ IsFiniteSet(handed) /\ Cardinality(handed) <= MaxHanded
  /\ _current_range <= Len(_empty_ranges)

LEMMA SomeRange ==
  ASSUME NEW s, Neat(s), NEW used, used = Ids \ Covered(s),
         Cardinality(used) < max_identifier
  PROVE  Len(s) >= 1
<1>1. Len(s) \in Nat
  BY LenProperties DEF Neat
<1>2. SUFFICES ASSUME Len(s) = 0 PROVE FALSE
  BY <1>1
<1>3. Covered(s) = {}
  BY <1>2 DEF Covered
<1>4. used = 1 .. max_identifier
  BY <1>3
<1>5. Cardinality(1 .. max_identifier) = max_identifier
  <2>1. Cardinality(1 .. max_identifier) =
          IF 1 > max_identifier THEN 0 ELSE max_identifier - 1 + 1
    BY FS_Interval
  <2> QED
    BY <2>1
<1>6. Cardinality(used) = max_identifier
  BY <1>4, <1>5, Zenon
<1> QED
  BY <1>6

LEMMA NewIdLeaves ==
  ASSUME MaxHanded < max_identifier, IdsInv, IdLeft, new_id
  PROVE  IdLeft'
<1> DEFINE n == Len(_empty_ranges)
           c == _current_range
           id == _empty_ranges[c].first
           rest == with_first_last(id + 1, _empty_ranges[c].last)
<1>1. IdsInv' /\ id \in Ids \ handed /\ handed' = handed \cup {id}
  BY NewIdKeeps
<1>2. IsFiniteSet(handed') /\ Cardinality(handed') = Cardinality(handed) + 1
  BY <1>1, FS_AddElement DEF IdLeft
<1>3. Cardinality(handed) \in Nat /\ Cardinality(handed) < MaxHanded
  BY FS_CardinalityType DEF IdLeft, new_id
<1>4. Cardinality(handed') <= MaxHanded
  BY <1>2, <1>3
<1>5. Len(_empty_ranges') >= 1
  <2>1. Neat(_empty_ranges') /\ handed' = Ids \ Covered(_empty_ranges')
    BY <1>1 DEF IdsInv
  <2>2. Cardinality(handed') < max_identifier
    BY <1>2, <1>3
  <2> QED
    BY <2>1, <2>2, SomeRange
<1>6. n \in Nat /\ _empty_ranges \in Seq(Ranges) /\ c \in 1 .. n
  BY LenProperties DEF IdsInv, Neat, new_id
<1>7. _current_range' <= Len(_empty_ranges')
  <2>1. CASE IsEmpty(rest)
    <3>1. /\ _empty_ranges' = RemoveAt(_empty_ranges, c)
          /\ _current_range' = IF c = n THEN 1 ELSE c
      BY <2>1 DEF new_id
    <3>2. Len(_empty_ranges') = n - 1
      BY <1>6, <3>1, RemovedAt
    <3> QED
      BY <1>5, <1>6, <3>1, <3>2
  <2>2. CASE ~IsEmpty(rest)
    <3>1. _empty_ranges' = [_empty_ranges EXCEPT ![c] = rest] /\ _current_range' = c
      BY <2>2 DEF new_id
    <3>2. Len(_empty_ranges') = n
      BY <1>6, <3>1
    <3> QED
      BY <1>6, <3>1, <3>2
  <2> QED
    BY <2>1, <2>2
<1> QED
  BY <1>2, <1>4, <1>7 DEF IdLeft

LEMMA ReuseIdLeaves ==
  ASSUME IdsInv, IdLeft, NEW val \in Ids, reuse_id(val)
  PROVE  IdLeft'
<1> DEFINE s == _empty_ranges
           n == Len(_empty_ranges)
           r == lower_bound(val)
<1>1. /\ IsFiniteSet(handed') /\ Cardinality(handed') <= Cardinality(handed)
      /\ Cardinality(handed') \in Nat /\ Cardinality(handed) \in Nat
  <2>1. IsFiniteSet(handed) /\ val \in handed /\ handed' = handed \ {val}
    BY DEF IdLeft, reuse_id
  <2>2. IsFiniteSet(handed') /\ Cardinality(handed') = Cardinality(handed) - 1
    BY <2>1, FS_RemoveElement
  <2> QED
    BY <2>1, <2>2, FS_CardinalityType
<1>2. Cardinality(handed') <= MaxHanded
  BY <1>1 DEF IdLeft
<1>3. /\ n \in Nat /\ s \in Seq(Ranges) /\ _current_range \in 1 .. n /\ val \in handed
      /\ r \in 1 .. n + 1
  BY LenProperties, PlaceOfUsed DEF IdsInv, Neat, IdLeft, reuse_id
<1>4. _current_range' <= Len(s')
  <2>1. CASE ~left_meets(r, val) /\ ~right_meets(r, val)
    <3>1. /\ s' = InsertAt(s, r, with_first_last(val, val))
          /\ _current_range' = index_after_insert(r)
      BY <2>1 DEF reuse_id
    <3>2. Len(s') = n + 1
      BY <1>3, <3>1, NewRange, InsertedAt
    <3> QED
      BY <1>3, <3>1, <3>2 DEF index_after_insert
  <2>2. CASE left_meets(r, val) /\ right_meets(r, val)
    <3> DEFINE u == [s EXCEPT ![r - 1].last = s[r].last]
    <3>1. s' = RemoveAt(u, r) /\ _current_range' = index_after_merge(r)
      BY <2>2 DEF reuse_id
    <3>2. r \in 1 .. n /\ r - 1 \in 1 .. n
      BY <1>3, <2>2 DEF left_meets, right_meets
    <3>3. s[r - 1] \in Ranges /\ s[r - 1].first \in Ids /\ s[r].last \in Ids
      BY <1>3, <3>2, RangeAt
    <3>4. u = [s EXCEPT ![r - 1] = with_first_last(s[r - 1].first, s[r].last)]
      BY <3>3, OneEndMoved
    <3>5. u \in Seq(Ranges) /\ Len(u) = n
      <4> DEFINE e == with_first_last(s[r - 1].first, s[r].last)
      <4>1. e \in Ranges /\ u = [s EXCEPT ![r - 1] = e]
        BY <3>3, <3>4, NewRange
      <4> HIDE DEF e, u, r
      <4> QED
        BY <1>3, <3>2, <4>1, ExceptSeq
    <3> HIDE DEF u
    <3>6. Len(s') = n - 1
      BY <3>1, <3>2, <3>5, RemovedAt
    <3> QED
      BY <1>3, <3>1, <3>2, <3>6 DEF index_after_merge
  <2>3. CASE left_meets(r, val) /\ ~right_meets(r, val)
    <3>1. s' = [s EXCEPT ![r - 1].last = val] /\ _current_range' = _current_range
      BY <2>3 DEF reuse_id
    <3>2. Len(s') = n
      BY <1>3, <3>1
    <3> QED
      BY <1>3, <3>1, <3>2
  <2>4. CASE right_meets(r, val) /\ ~left_meets(r, val)
    <3>1. s' = [s EXCEPT ![r].first = val] /\ _current_range' = _current_range
      BY <2>4 DEF reuse_id
    <3>2. Len(s') = n
      BY <1>3, <3>1
    <3> QED
      BY <1>3, <3>1, <3>2
  <2> QED
    BY <2>1, <2>2, <2>3, <2>4
<1> QED
  BY <1>1, <1>2, <1>4 DEF IdLeft

LEMMA IdLeftInvariant ==
  ASSUME MaxHanded < max_identifier
  PROVE  IdsSpec => [](IdsInv /\ IdLeft)
<1>0. IsFiniteSet({}) /\ Cardinality({}) = 0
  BY FS_EmptySet
<1>1. IdsInit => IdLeft
  BY <1>0, ClearedKeeps DEF IdsInit, IdLeft
<1>2. IdsInv /\ IdLeft /\ [IdsNext]_idVars => IdLeft'
  <2> SUFFICES ASSUME IdsInv, IdLeft, [IdsNext]_idVars PROVE IdLeft'
    OBVIOUS
  <2>1. CASE new_id
    BY <2>1, NewIdLeaves
  <2>2. ASSUME NEW val \in Ids, reuse_id(val) PROVE IdLeft'
    BY <2>2, ReuseIdLeaves
  <2>3. CASE u_clear
    BY <1>0, <2>3, ClearedKeeps DEF u_clear, IdLeft
  <2>4. CASE UNCHANGED idVars
    BY <2>4 DEF idVars, IdLeft
  <2> QED
    BY <2>1, <2>2, <2>3, <2>4 DEF IdsNext
<1> QED
  BY <1>1, <1>2, InitNeat, IdsInductive, PTL DEF IdsSpec

(* As long as not all ids are in use at once, new_id never dereferences    *)
(* end().  Without the premise it can: an id given back to an empty deque  *)
(* is inserted before the current position, which stays end().             *)
THEOREM TypeCorrect ==
  ASSUME MaxHanded < max_identifier
  PROVE  IdsSpec => []TypeOK
<1>1. IdsInv /\ IdLeft => TypeOK
  <2> SUFFICES ASSUME IdsInv, IdLeft PROVE TypeOK
    OBVIOUS
  <2>1. _empty_ranges \in Seq([first : Ids, last : Ids])
    BY DEF IdsInv, Neat, Ranges
  <2>2. handed \in SUBSET Ids
    BY DEF IdsInv
  <2> QED
    BY <2>1, <2>2, LenProperties DEF IdsInv, IdLeft, TypeOK
<1> QED
  BY <1>1, IdLeftInvariant, PTL

-----------------------------------------------------------------------------
(* The containers of one script: edits of arrays, and loops over maps.     *)
USE CollectionsAssumption

ArraysTyped == arr \in [Arrays -> Seq(Items)]

(* No string precedes the empty one.                                       *)
MapsTyped ==
  /\ map \in [AllMaps -> [Keys -> Items \cup {Absent}]]
  /\ \A m \in Maps : \A k \in KeysOf(m) : k >= 0

(* A key that was in the map all along was given by the loop, or is still  *)
(* ahead of it.                                                            *)
LoopKeeps ==
  loop.over # Null =>
    /\ loop.over \in AllMaps
    /\ loop.given \in Seq(Int) /\ loop.at \in Int
    /\ loop.since \subseteq KeysOf(loop.over)
    /\ loop.at # 0 =>
         \A k \in loop.since \ {0} : k \in Range(loop.given) \/ k > loop.at

LoopTyped ==
  loop \in [over : AllMaps \cup {Null}, at : Int, given : Seq(Int), since : SUBSET Int]

LoopInv == MapsTyped /\ LoopTyped /\ LoopKeeps

-----------------------------------------------------------------------------
LEMMA LeastKey ==
  ASSUME NEW S \in SUBSET Keys, S # {}
  PROVE  Min(S) \in S /\ \A k \in S : Min(S) <= k
<1>1. PICK q \in Seq(Keys) : \A k \in Keys : \E n \in 1 .. Len(q) : q[n] = k
  BY DEF CollectionsAssumption, IsFiniteSet
<1>2. Len(q) \in Nat /\ Keys \subseteq Int /\ \A n \in 1 .. Len(q) : q[n] \in Int
  BY ElementOfSeq, LenProperties DEF CollectionsAssumption
<1> DEFINE Bounded(n) == \E b \in Int : \A i \in 1 .. n : b <= q[i]
           F == {n \in 0 .. Len(q) : ~Bounded(n)}
<1>3. F = {}
  <2> SUFFICES ASSUME F # {} PROVE FALSE
    OBVIOUS
  <2>1. Bounded(0)
    OBVIOUS
  <2> HIDE DEF Bounded
  <2>2. F \in SUBSET Nat
    BY <1>2
  <2>3. PICK n \in F : \A j \in F : n <= j
    BY <2>2, LeastIndex
  <2>4. n \in 1 .. Len(q) /\ ~Bounded(n)
    BY <1>2, <2>1, <2>3
  <2>5. n - 1 \in 0 .. Len(q) /\ ~(n <= n - 1)
    BY <1>2, <2>4
  <2>6. Bounded(n - 1)
    BY <2>3, <2>5
  <2>7. PICK b \in Int : \A i \in 1 .. n - 1 : b <= q[i]
    BY <2>6 DEF Bounded
  <2>8. q[n] \in Int
    BY <1>2, <2>4
  <2>9. PICK c \in Int : c <= b /\ c <= q[n]
    <3>1. CASE b <= q[n]
      BY <3>1
    <3>2. CASE q[n] <= b
      BY <2>8, <3>2
    <3> QED
      BY <2>8, <3>1, <3>2
  <2>10. ASSUME NEW i \in 1 .. n PROVE c <= q[i]
    <3>1. CASE i = n
      BY <2>9, <3>1
    <3>2. CASE i # n
      <4>1. i \in 1 .. n - 1 /\ i \in 1 .. Len(q)
        BY <1>2, <2>4, <3>2
      <4>2. b <= q[i] /\ q[i] \in Int
        BY <1>2, <2>7, <4>1
      <4> QED
        BY <2>9, <4>2
    <3> QED
      BY <3>1, <3>2
  <2>11. Bounded(n)
    BY <2>10 DEF Bounded
  <2> QED
    BY <2>4, <2>11
<1>4. PICK b \in Int : \A k \in S : b <= k
  <2>1. Bounded(Len(q))
    <3> HIDE DEF Bounded
    <3> QED
      BY <1>2, <1>3
  <2>2. PICK b \in Int : \A i \in 1 .. Len(q) : b <= q[i]
    BY <2>1
  <2> QED
    BY <1>1, <2>2
<1> DEFINE D == {n \in Nat : \E k \in S : n = k - b}
<1>5. D # {}
  <2>1. PICK k \in S : k \in Int /\ b <= k
    BY <1>2, <1>4
  <2>2. k - b \in Nat
    BY <2>1
  <2> QED
    BY <2>2
<1>6. PICK d \in D : \A e \in D : d <= e
  BY <1>5, LeastIndex
<1>7. PICK l \in S : d = l - b
  BY <1>6
<1>8. ASSUME NEW k \in S PROVE l <= k
  <2>1. k \in Int /\ l \in Int /\ k - b \in D
    BY <1>2, <1>4
  <2>2. l - b <= k - b
    BY <1>6, <1>7, <2>1
  <2> QED
    BY <2>1, <2>2
<1> QED
  BY <1>8 DEF Min

(* Edits of arrays.                                                        *)
LEMMA PiecesTyped ==
  ASSUME NEW S, NEW s \in Seq(S), NEW xs \in Seq(S), NEW i \in Int, NEW j \in Int,
         0 <= i, i <= Len(s), 0 < j, j <= Len(s) + 1
  PROVE  /\ SubSeq(s, 1, i) \in Seq(S) /\ SubSeq(s, j, Len(s)) \in Seq(S)
         /\ SubSeq(s, 1, i) \o SubSeq(s, j, Len(s)) \in Seq(S)
         /\ SubSeq(s, 1, i) \o xs \o SubSeq(s, j, Len(s)) \in Seq(S)
<1>1. Len(s) \in Nat
  BY LenProperties
<1>2. SubSeq(s, 1, i) \in Seq(S) /\ SubSeq(s, j, Len(s)) \in Seq(S)
  BY <1>1, SubSeqProperties
<1> QED
  BY <1>2, ConcatProperties

LEMMA AddedAt ==
  ASSUME NEW S, NEW s \in Seq(S), NEW x \in S, NEW v \in 1 .. Len(s) + 1,
         NEW t, t = InsertAt(s, v, x)
  PROVE  t \in Seq(S) /\ t[v] = x /\ RemoveAt(t, v) = s
<1>1. Len(s) \in Nat
  BY LenProperties
<1>3. /\ t \in Seq(S) /\ Len(t) = Len(s) + 1
      /\ \A j \in 1 .. Len(s) + 1 :
           t[j] = IF j < v THEN s[j] ELSE IF j = v THEN x ELSE s[j - 1]
  <2> DEFINE u == InsertAt(s, v, x)
  <2>1. /\ u \in Seq(S) /\ Len(u) = Len(s) + 1
        /\ \A j \in 1 .. Len(s) + 1 :
             u[j] = IF j < v THEN s[j] ELSE IF j = v THEN x ELSE s[j - 1]
    BY InsertedAt
  <2> HIDE DEF u
  <2>2. t = u
    BY DEF u
  <2> QED
    BY <2>1, <2>2
<1>4. v \in 1 .. Len(t)
  BY <1>1, <1>3
<1> DEFINE r == RemoveAt(t, v)
<1>5. /\ r \in Seq(S) /\ Len(r) = Len(t) - 1
      /\ \A j \in 1 .. Len(t) - 1 : r[j] = IF j < v THEN t[j] ELSE t[j + 1]
  BY <1>3, <1>4, RemovedAt
<1> HIDE DEF r
<1>6. Len(r) = Len(s)
  BY <1>1, <1>3, <1>5
<1>7. ASSUME NEW j \in 1 .. Len(s) PROVE r[j] = s[j]
  <2>1. j \in 1 .. Len(s) + 1 /\ j + 1 \in 1 .. Len(s) + 1 /\ j \in 1 .. Len(t) - 1
    BY <1>1, <1>3
  <2>2. CASE j < v
    BY <1>3, <1>5, <2>1, <2>2
  <2>3. CASE ~(j < v)
    <3>1. r[j] = t[j + 1] /\ ~(j + 1 < v) /\ j + 1 # v /\ (j + 1) - 1 = j
      BY <1>1, <1>5, <2>1, <2>3
    <3> QED
      BY <1>3, <2>1, <3>1
  <2> QED
    BY <2>2, <2>3
<1>8. r = s
  BY <1>5, <1>6, <1>7, SeqEqual
<1>9. t[v] = x
  BY <1>1, <1>3
<1> QED
  BY <1>3, <1>4, <1>8, <1>9 DEF r

Outside(s, f, l) == SubSeq(s, 1, f) \o SubSeq(s, l + 2, Len(s))

LEMMA ErasedBetween ==
  ASSUME NEW S, NEW s \in Seq(S), NEW f \in Int, NEW l \in Int,
         0 <= f, f <= l, l < Len(s),
         NEW gone \in Int, gone = l - f + 1, NEW t, t = Outside(s, f, l)
  PROVE  /\ Len(Outside(s, f, l)) = Len(s) - gone
         /\ \A q \in 1 .. f : t[q] = s[q]
         /\ \A q \in l + 2 .. Len(s) : t[q - gone] = s[q]
<1> DEFINE a == SubSeq(s, 1, f)
           c == SubSeq(s, l + 2, Len(s))
<1>0. Len(s) \in Nat
  BY LenProperties
<1>1. a \in Seq(S) /\ Len(a) = f /\ \A j \in 1 .. f : a[j] = s[j]
  BY <1>0, SubSeqProperties
<1>2. /\ c \in Seq(S) /\ Len(c) = Len(s) - l - 1
      /\ \A j \in 1 .. Len(s) - l - 1 : c[j] = s[l + 1 + j]
  BY <1>0, SubSeqProperties
<1>3. t = a \o c
  BY DEF Outside
<1> HIDE DEF a, c
<1>4. /\ a \o c \in Seq(S) /\ Len(a \o c) = Len(a) + Len(c)
      /\ \A j \in 1 .. Len(a) + Len(c) :
           (a \o c)[j] = IF j <= Len(a) THEN a[j] ELSE c[j - Len(a)]
  <2>1. a \in Seq(S) /\ c \in Seq(S)
    BY <1>1, <1>2
  <2> QED
    BY <2>1, ConcatProperties
<1>5. ASSUME NEW q \in l + 2 .. Len(s) PROVE t[q - gone] = s[q]
  <2> DEFINE p == q - gone
  <2>1. p \in 1 .. Len(a) + Len(c) /\ ~(p <= Len(a)) /\ p - Len(a) = q - l - 1
    BY <1>0, <1>1, <1>2
  <2>2. q - l - 1 \in 1 .. Len(s) - l - 1 /\ l + 1 + (q - l - 1) = q
    BY <1>0
  <2> HIDE DEF p
  <2>3. t[p] = c[q - l - 1]
    BY <1>3, <1>4, <2>1
  <2> QED
    BY <1>2, <2>2, <2>3 DEF p
<1>6. ASSUME NEW q \in 1 .. f PROVE t[q] = s[q]
  <2>1. q \in 1 .. Len(a) + Len(c) /\ q <= Len(a)
    BY <1>0, <1>1, <1>2
  <2> QED
    BY <1>1, <1>3, <1>4, <2>1
<1>7. Len(t) = Len(s) - gone
  BY <1>0, <1>1, <1>2, <1>3, <1>4
<1> QED
  BY <1>5, <1>6, <1>7, Zenon

LEMMA EditsExact ==
  ASSUME ArraysTyped PROVE EditsAreExact
<1> SUFFICES ASSUME NEW a \in Arrays
    PROVE  LET s == arr[a]
               n == Len(s)
           IN  /\ \A i \in Indices(n + 1), x \in Scalars :
                    \A t \in Inserted(s, i, << x >>) :
                      \E r \in ReadIndex(i, n + 1) : t[r + 1] = x /\ RemoveAt(t, r + 1) = s
               /\ \A i, j \in AnyIndex : \A t \in Erased(s, i, j) :
                    LET first == FromEnd(i, n)
                        last  == FromEnd(j, n)
                        gone  == last - first + 1
                    IN  /\ Len(t) = n - gone
                        /\ \A q \in 1 .. first : t[q] = s[q]
                        /\ \A q \in last + 2 .. n : t[q - gone] = s[q]
  BY DEF EditsAreExact
<1> DEFINE s == arr[a]
           n == Len(s)
<1>1. s \in Seq(Items) /\ n \in Nat /\ \A i \in AnyIndex : i \in Int
  BY LenProperties DEF ArraysTyped, AnyIndex, CollectionsAssumption
<1> HIDE DEF s, n
<1>2. ASSUME NEW i \in Indices(n + 1), NEW x \in Scalars, NEW t \in Inserted(s, i, << x >>)
      PROVE  \E r \in ReadIndex(i, n + 1) : t[r + 1] = x /\ RemoveAt(t, r + 1) = s
  <2>1. PICK w \in WriteIndex(i, n) : t = SubSeq(s, 1, w) \o << x >> \o SubSeq(s, w + 1, n)
    BY <1>2 DEF Inserted, n
  <2>2. i \in Int /\ i >= -(n + 1)
    BY <1>1 DEF Indices
  <2>3. w = FromEnd(i, n + 1) /\ w \in 0 .. n
    BY <1>1, <2>2 DEF WriteIndex, FromEnd
  <2>4. w \in ReadIndex(i, n + 1)
    BY <1>1, <2>3 DEF ReadIndex
  <2>5. w + 1 \in 1 .. n + 1 /\ (w + 1) - 1 = w
    BY <1>1, <2>3
  <2>6. t = InsertAt(s, w + 1, x)
    BY <2>1, <2>5 DEF InsertAt, n
  <2>7. x \in Items
    BY DEF Items
  <2>8. t[w + 1] = x /\ RemoveAt(t, w + 1) = s
    BY <1>1, <2>5, <2>6, <2>7, AddedAt DEF n
  <2> QED
    BY <2>4, <2>8
<1>3. ASSUME NEW i \in AnyIndex, NEW j \in AnyIndex, NEW t \in Erased(s, i, j),
             NEW first, first = FromEnd(i, n), NEW last, last = FromEnd(j, n),
             NEW gone, gone = last - first + 1
      PROVE  /\ Len(t) = n - gone
             /\ \A q \in 1 .. first : t[q] = s[q]
             /\ \A q \in last + 2 .. n : t[q - gone] = s[q]
  <2>1. PICK r \in ReadIndices(i, j, n) :
          r[1] <= r[2] /\ t = SubSeq(s, 1, r[1]) \o SubSeq(s, r[2] + 2, n)
    BY <1>3 DEF Erased, n
  <2>2. r[1] = first /\ r[2] = last /\ first \in 0 .. n - 1 /\ last \in 0 .. n - 1
    BY <1>3 DEF ReadIndices
  <2>3. /\ first \in Int /\ last \in Int /\ 0 <= first /\ first <= last /\ last < Len(s)
        /\ t = Outside(s, first, last)
    BY <1>1, <2>1, <2>2 DEF Outside, n
  <2>4. gone \in Int /\ gone = last - first + 1
    BY <1>1, <1>3, <2>3 DEF n
  <2>5. /\ Len(t) = Len(s) - gone
        /\ \A q \in 1 .. first : t[q] = s[q]
        /\ \A q \in last + 2 .. Len(s) : t[q - gone] = s[q]
    <3>1. s \in Seq(Items) /\ Len(s) \in Int
      BY <1>1 DEF n
    <3>2. Len(Outside(s, first, last)) = Len(s) - gone
      BY <2>3, <2>4, <3>1, ErasedBetween
    <3>3. \A q \in 1 .. first : t[q] = s[q]
      BY <2>3, <2>4, <3>1, ErasedBetween
    <3>4. \A q \in last + 2 .. Len(s) : t[q - gone] = s[q]
      BY <2>3, <2>4, <3>1, ErasedBetween
    <3> QED
      BY <2>3, <3>2, <3>3, <3>4
  <2> QED
    BY <2>5 DEF n
<1> QED
  BY <1>2, <1>3 DEF s, n

LEMMA ArraysStayTyped ==
  ASSUME ArraysTyped, Next
  PROVE  ArraysTyped'
<1> SUFFICES ASSUME ArrayNext PROVE ArraysTyped'
  <2>1. CASE ~ArrayNext
    BY <2>1 DEF Next, MapNext, MapSet, RemoveKey, Clear, MapErase, LoopBegin,
                LoopNext, LoopEnd, ArraysTyped
  <2> QED
    BY <2>1
<1>1. \A a \in Arrays, s \in Seq(Items) : SetArray(a, s) => ArraysTyped'
  BY DEF ArraysTyped, SetArray
<1>2. \A a \in Arrays : arr[a] \in Seq(Items) /\ Count(a) = Len(arr[a]) /\ Len(arr[a]) \in Nat
  BY LenProperties DEF ArraysTyped, Count
<1>3. ASSUME NEW a \in Arrays, NEW i \in Int, NEW xs \in Seq(Items),
             i >= -(Count(a) + 1), NEW s \in Inserted(arr[a], i, xs)
      PROVE  s \in Seq(Items)
  <2>1. PICK w \in WriteIndex(i, Len(arr[a])) :
          s = SubSeq(arr[a], 1, w) \o xs \o SubSeq(arr[a], w + 1, Len(arr[a]))
    BY <1>3 DEF Inserted
  <2>2. w \in Int /\ 0 <= w /\ w <= Len(arr[a])
    BY <1>2, <1>3 DEF WriteIndex, FromEnd
  <2> QED
    BY <1>2, <1>3, <2>1, <2>2, PiecesTyped
<1>4. ASSUME NEW a \in Arrays, NEW i \in Int, i >= -Count(a),
             NEW r \in ReadIndex(i, Count(a))
      PROVE  r + 1 \in 1 .. Len(arr[a])
  BY <1>2, <1>4 DEF ReadIndex, FromEnd
<1>5. PICK a \in Arrays :
        \/ \E i \in Indices(Count(a)), x \in Items : SetItem(a, i, x) \/ FindVal(a, i, x)
        \/ \E i \in Indices(Count(a)) : EraseIndex(a, i)
        \/ \E i \in Indices(Count(a) + 1), x \in Items : AddItem(a, i, x)
        \/ \E i \in Indices(Count(a) + 1), b \in Arrays : AddFromArray(a, b, i)
        \/ \E i, j \in AnyIndex : EraseRange(a, i, j) \/ SwapItems(a, i, j)
  BY DEF ArrayNext
<1>6. \A m \in Int : \A i \in Indices(m) : i \in Int /\ i >= -m
  BY DEF Indices, AnyIndex, CollectionsAssumption
<1>7. ASSUME NEW i \in Indices(Count(a)), NEW x \in Items, SetItem(a, i, x)
      PROVE  ArraysTyped'
  <2>1. PICK r \in ReadIndex(i, Count(a)) : SetArray(a, [arr[a] EXCEPT ![r + 1] = x])
    BY <1>7 DEF SetItem
  <2>2. r + 1 \in 1 .. Len(arr[a])
    BY <1>2, <1>4, <1>6
  <2>3. [arr[a] EXCEPT ![r + 1] = x] \in Seq(Items)
    BY <1>2, <2>2, ExceptSeq
  <2> QED
    BY <1>1, <2>1, <2>3
<1>8. ASSUME NEW i, NEW x, FindVal(a, i, x) PROVE ArraysTyped'
  BY <1>8 DEF FindVal, ArraysTyped
<1>9. ASSUME NEW i \in Indices(Count(a)), EraseIndex(a, i) PROVE ArraysTyped'
  <2>1. PICK r \in ReadIndex(i, Count(a)) : SetArray(a, RemoveAt(arr[a], r + 1))
    BY <1>9 DEF EraseIndex
  <2>2. r + 1 \in 1 .. Len(arr[a])
    BY <1>2, <1>4, <1>6
  <2>4. RemoveAt(arr[a], r + 1) \in Seq(Items)
    BY <1>2, <2>2, RemovedAt
  <2> QED
    BY <1>1, <2>1, <2>4
<1>10. ASSUME NEW i \in Indices(Count(a) + 1), NEW x \in Items, AddItem(a, i, x)
       PROVE  ArraysTyped'
  <2>1. PICK s \in Inserted(arr[a], i, << x >>) : SetArray(a, s)
    BY <1>10 DEF AddItem
  <2>2. << x >> \in Seq(Items) /\ i \in Int /\ i >= -(Count(a) + 1)
    BY <1>2, <1>6
  <2>3. s \in Seq(Items)
    BY <1>3, <2>2
  <2> QED
    BY <1>1, <2>1, <2>3
<1>11. ASSUME NEW i \in Indices(Count(a) + 1), NEW b \in Arrays, AddFromArray(a, b, i)
       PROVE  ArraysTyped'
  <2>1. PICK s \in Inserted(arr[a], i, arr[b]) : SetArray(a, s)
    BY <1>11 DEF AddFromArray
  <2>2. s \in Seq(Items)
    BY <1>2, <1>3, <1>6
  <2> QED
    BY <1>1, <2>1, <2>2
<1>12. ASSUME NEW i \in AnyIndex, NEW j \in AnyIndex, EraseRange(a, i, j)
       PROVE  ArraysTyped'
  <2>1. PICK s \in Erased(arr[a], i, j) : SetArray(a, s)
    BY <1>12 DEF EraseRange
  <2>2. PICK r \in ReadIndices(i, j, Len(arr[a])) :
          r[1] <= r[2] /\ s = SubSeq(arr[a], 1, r[1]) \o SubSeq(arr[a], r[2] + 2, Len(arr[a]))
    BY <2>1 DEF Erased
  <2>3. r[1] \in 0 .. Len(arr[a]) - 1 /\ r[2] \in 0 .. Len(arr[a]) - 1
    BY DEF ReadIndices
  <2>4. /\ r[1] \in Int /\ 0 <= r[1] /\ r[1] <= Len(arr[a])
        /\ r[2] + 2 \in Int /\ 0 < r[2] + 2 /\ r[2] + 2 <= Len(arr[a]) + 1
    BY <1>2, <2>3
  <2>5. s \in Seq(Items)
    BY <1>2, <2>2, <2>4, PiecesTyped
  <2> QED
    BY <1>1, <2>1, <2>5
<1>13. ASSUME NEW i \in AnyIndex, NEW j \in AnyIndex, SwapItems(a, i, j)
       PROVE  ArraysTyped'
  <2>1. PICK r \in ReadIndices(i, j, Count(a)) :
          SetArray(a, [arr[a] EXCEPT ![r[1] + 1] = arr[a][r[2] + 1],
                                       ![r[2] + 1] = arr[a][r[1] + 1]])
    BY <1>13 DEF SwapItems
  <2>2. r[1] + 1 \in 1 .. Len(arr[a]) /\ r[2] + 1 \in 1 .. Len(arr[a])
    BY <1>2 DEF ReadIndices
  <2> DEFINE s == [arr[a] EXCEPT ![r[1] + 1] = arr[a][r[2] + 1]]
  <2>3. arr[a][r[2] + 1] \in Items /\ arr[a][r[1] + 1] \in Items
    BY <1>2, <2>2, ElementOfSeq
  <2>4. s \in Seq(Items) /\ Len(s) = Len(arr[a])
    BY <1>2, <2>2, <2>3, ExceptSeq
  <2>5. [s EXCEPT ![r[2] + 1] = arr[a][r[1] + 1]] \in Seq(Items)
    <3> HIDE DEF s
    <3> QED
      BY <2>2, <2>3, <2>4, ExceptSeq
  <2> QED
    BY <1>1, <2>1, <2>5
<1> QED
  BY <1>5, <1>7, <1>8, <1>9, <1>10, <1>11, <1>12, <1>13

LEMMA ArraysTypedInvariant == Spec => []ArraysTyped
<1>1. Init => ArraysTyped
  BY DEF Init, ArraysTyped
<1>2. ArraysTyped /\ [Next]_vars => ArraysTyped'
  <2>1. ArraysTyped /\ UNCHANGED vars => ArraysTyped'
    BY DEF vars, ArraysTyped
  <2> QED
    BY <2>1, ArraysStayTyped
<1> QED
  BY <1>1, <1>2, PTL DEF Spec

(* Loops over maps.                                                        *)
LEMMA FirstIs ==
  ASSUME NEW S \in SUBSET Keys
  PROVE  /\ FirstOf(S) \in Int
         /\ S = {} => FirstOf(S) = 0
         /\ S # {} => FirstOf(S) \in S /\ \A k \in S : FirstOf(S) <= k
<1>1. Keys \subseteq Int
  BY DEF CollectionsAssumption
<1>2. CASE S = {}
  BY <1>2 DEF FirstOf, EndKey
<1>3. CASE S # {}
  BY <1>1, <1>3, LeastKey DEF FirstOf
<1> QED
  BY <1>2, <1>3

LEMMA NextIs ==
  ASSUME MapsTyped, NEW m \in AllMaps, NEW k \in Int,
         NEW n, n = NextKey(m, k)
  PROVE  /\ n \in Int
         /\ n # 0 => \A q \in KeysOf(m) \ {0} : k = 0 \/ q > k => q >= n
         /\ n = 0 /\ k # 0 /\ k \in KeysOf(m) => \A q \in KeysOf(m) \ {0} : ~(q > k)
<1> DEFINE keys == IF m \in IntMaps THEN KeysOf(m) \ {0} ELSE KeysOf(m)
           later == After(m, k) \cap keys
<1>1. /\ KeysOf(m) \in SUBSET Keys /\ Keys \subseteq Int
      /\ m \notin IntMaps => \A q \in KeysOf(m) : q >= 0
  BY DEF KeysOf, CollectionsAssumption, MapsTyped, AllMaps
<1>2. keys \in SUBSET Keys /\ later \in SUBSET Keys /\ \A q \in KeysOf(m) \ {0} : q \in keys
  BY <1>1 DEF After
<1>3. \A q : q \in later <=> q \in keys /\ q > k
  BY <1>1 DEF After
<1>4. n = IF k = 0 THEN FirstOf(keys)
          ELSE IF k \in KeysOf(m) THEN FirstOf(later) ELSE 0
  BY DEF NextKey, EndKey
<1>5. 0 \in keys => m \notin IntMaps
  OBVIOUS
<1> HIDE DEF keys, later
<1>6. CASE k = 0
  <2>1. n = FirstOf(keys)
    BY <1>4, <1>6
  <2>2. CASE keys = {}
    <3>1. n = 0
      BY <1>2, <2>1, <2>2, FirstIs
    <3> QED
      BY <1>6, <3>1
  <2>3. CASE keys # {}
    <3>1. n \in Int /\ \A q \in keys : n <= q
      BY <1>2, <2>1, <2>3, FirstIs
    <3>2. \A q \in KeysOf(m) \ {0} : q >= n
      BY <1>1, <1>2, <3>1
    <3> QED
      BY <1>6, <3>1, <3>2
  <2> QED
    BY <2>2, <2>3
<1>7. CASE k # 0 /\ k \notin KeysOf(m)
  BY <1>4, <1>7
<1>8. CASE k # 0 /\ k \in KeysOf(m)
  <2>1. n = FirstOf(later)
    BY <1>4, <1>8
  <2>2. CASE later = {}
    <3>1. n = 0 /\ n \in Int
      BY <1>2, <2>1, <2>2, FirstIs
    <3>2. \A q \in KeysOf(m) \ {0} : ~(q > k)
      BY <1>2, <1>3, <2>2
    <3> QED
      BY <3>1, <3>2
  <2>3. CASE later # {}
    <3>0. later \in SUBSET Keys
      BY <1>2
    <3>1. n \in later /\ n \in Int /\ \A q \in later : n <= q
      BY <2>1, <2>3, <3>0, FirstIs
    <3>2. n # 0
      BY <1>1, <1>3, <1>5, <1>8, <3>1
    <3>3. ASSUME NEW q \in KeysOf(m) \ {0}, q > k PROVE q >= n
      <4>1. q \in later /\ q \in Int
        BY <1>1, <1>2, <1>3, <3>3
      <4> QED
        BY <3>1, <4>1
    <3> QED
      BY <1>8, <3>1, <3>2, <3>3
  <2> QED
    BY <2>2, <2>3
<1> QED
  BY <1>6, <1>7, <1>8

LEMMA GivenGrows ==
  ASSUME NEW s \in Seq(Int), NEW n \in Int
  PROVE  /\ Append(s, n) \in Seq(Int)
         /\ n \in Range(Append(s, n))
         /\ \A x \in Range(s) : x \in Range(Append(s, n))
<1>1. /\ Len(s) \in Nat /\ DOMAIN s = 1 .. Len(s)
      /\ Append(s, n) \in Seq(Int) /\ DOMAIN Append(s, n) = 1 .. Len(s) + 1
  BY LenProperties, AppendProperties
<1>2. \A i \in 1 .. Len(s) : i \in 1 .. Len(s) + 1 /\ Append(s, n)[i] = s[i]
  BY <1>1, AppendProperties
<1>3. Append(s, n)[Len(s) + 1] = n /\ Len(s) + 1 \in 1 .. Len(s) + 1
  BY <1>1, AppendProperties
<1> QED
  BY <1>1, <1>2, <1>3 DEF Range

LEMMA LoopInit == ASSUME Init PROVE LoopInv
<1>1. MapsTyped
  <2>1. map \in [AllMaps -> [Keys -> Items \cup {Absent}]]
    BY DEF Init, Items
  <2>2. ASSUME NEW m \in Maps, NEW k \in KeysOf(m) PROVE k >= 0
    <3>1. k \in Keys /\ map[m][k] # Absent /\ m \in AllMaps
      BY DEF KeysOf, AllMaps
    <3>2. k = 0
      BY <3>1 DEF Init, EndKey
    <3> QED
      BY <3>2
  <2> QED
    BY <2>1, <2>2 DEF MapsTyped
<1>2. loop = [over |-> Null, at |-> 0, given |-> << >>, since |-> {}]
  BY DEF Init, NoLoop, EndKey
<1> QED
  BY <1>1, <1>2 DEF LoopInv, LoopTyped, LoopKeeps

(* Items are added to a map, or keys are erased.                           *)
LEMMA MapSetKeeps ==
  ASSUME LoopInv, NEW m \in AllMaps, NEW k \in Keys,
         NEW x \in Items, MapSet(m, k, x)
  PROVE  LoopInv'
<1>1. /\ map' = [map EXCEPT ![m][k] = x] /\ loop' = loop /\ k \in Int /\ x # Absent
      /\ m \in Maps => k >= 0
  BY DEF MapSet, CollectionsAssumption, EndKey, Items, Containers, AllMaps
<1>2. \A q \in AllMaps, j \in Keys :
        map'[q][j] = IF q = m /\ j = k THEN x ELSE map[q][j]
  BY <1>1 DEF LoopInv, MapsTyped
<1>3. \A q \in AllMaps : \A j :
        /\ j \in KeysOf(q) => j \in KeysOf(q)'
        /\ j \in KeysOf(q)' => j \in KeysOf(q) \/ (q = m /\ j = k)
  BY <1>1, <1>2 DEF KeysOf
<1>4. MapsTyped'
  <2>1. map' \in [AllMaps -> [Keys -> Items \cup {Absent}]]
    BY <1>1 DEF LoopInv, MapsTyped
  <2>2. \A q \in Maps : q \in AllMaps
    BY DEF AllMaps
  <2> QED
    BY <1>1, <1>3, <2>1, <2>2 DEF LoopInv, MapsTyped
<1>5. LoopTyped' /\ LoopKeeps'
  BY <1>1, <1>3 DEF LoopInv, LoopTyped, LoopKeeps
<1> QED
  BY <1>4, <1>5 DEF LoopInv

LEMMA MapEraseKeeps ==
  ASSUME LoopInv, NEW m \in AllMaps, NEW gone, MapErase(m, gone)
  PROVE  LoopInv'
<1>1. map' = [map EXCEPT ![m] = [k \in Keys |-> IF k \in gone THEN Absent ELSE map[m][k]]]
  BY DEF MapErase
<1>2. loop' = IF m = loop.over THEN [loop EXCEPT !.since = loop.since \ gone] ELSE loop
  BY DEF MapErase
<1>3. \A q \in AllMaps, j \in Keys :
        map'[q][j] = IF q = m /\ j \in gone THEN Absent ELSE map[q][j]
  BY <1>1 DEF LoopInv, MapsTyped
<1>4. \A q \in AllMaps : \A j :
        j \in KeysOf(q)' <=> j \in KeysOf(q) /\ ~(q = m /\ j \in gone)
  BY <1>3 DEF KeysOf
<1>5. MapsTyped'
  <2>1. [k \in Keys |-> IF k \in gone THEN Absent ELSE map[m][k]]
          \in [Keys -> Items \cup {Absent}]
    BY DEF LoopInv, MapsTyped
  <2>2. map' \in [AllMaps -> [Keys -> Items \cup {Absent}]]
    BY <1>1, <2>1 DEF LoopInv, MapsTyped
  <2>3. \A q \in Maps : q \in AllMaps
    BY DEF AllMaps
  <2> QED
    BY <1>4, <2>2, <2>3 DEF LoopInv, MapsTyped
<1>6. /\ loop'.over = loop.over /\ loop'.at = loop.at /\ loop'.given = loop.given
      /\ loop'.since = IF m = loop.over THEN loop.since \ gone ELSE loop.since
      /\ LoopTyped'
  BY <1>2 DEF LoopInv, LoopTyped
<1>7. LoopKeeps'
  BY <1>4, <1>6 DEF LoopInv, LoopKeeps
<1> QED
  BY <1>5, <1>6, <1>7 DEF LoopInv

LEMMA LoopBeginKeeps ==
  ASSUME LoopInv, NEW m \in AllMaps, LoopBegin(m)
  PROVE  LoopInv'
<1> DEFINE n == NextKey(m, 0)
<1>1. /\ n \in Int
      /\ n # 0 => \A q \in KeysOf(m) \ {0} : q >= n
  BY NextIs DEF LoopInv
<1>2. /\ loop' = [over |-> m, at |-> n, given |-> << n >>, since |-> KeysOf(m)]
      /\ map' = map
  BY DEF LoopBegin, EndKey
<1> HIDE DEF n
<1>3. MapsTyped' /\ \A q : KeysOf(q)' = KeysOf(q)
  BY <1>2 DEF LoopInv, MapsTyped, KeysOf
<1>4. KeysOf(m) \subseteq Keys /\ Keys \subseteq Int
  BY DEF KeysOf, CollectionsAssumption
<1>5. LoopTyped'
  <2>1. << n >> \in Seq(Int)
    BY <1>1
  <2>2. KeysOf(m) \in SUBSET Int
    BY <1>4, Zenon
  <2> QED
    BY <1>1, <1>2, <2>1, <2>2 DEF LoopTyped
<1>6. n \in Range(<< n >>)
  <2>1. 1 \in DOMAIN << n >> /\ << n >>[1] = n
    OBVIOUS
  <2> QED
    BY <2>1 DEF Range
<1>7. LoopKeeps'
  <2>1. loop'.over = m /\ loop'.at = n /\ loop'.given = << n >> /\ loop'.since = KeysOf(m)
    BY <1>2
  <2>2. << n >> \in Seq(Int) /\ KeysOf(m)' = KeysOf(m)
    BY <1>1, <1>3
  <2>3. ASSUME n # 0, NEW q \in KeysOf(m) \ {0}
        PROVE  q \in Range(<< n >>) \/ q > n
    <3>1. q \in Int /\ q >= n
      BY <1>1, <1>4, <2>3
    <3>2. q = n \/ q > n
      BY <1>1, <3>1
    <3> QED
      BY <1>6, <3>2
  <2> QED
    BY <1>1, <2>1, <2>2, <2>3 DEF LoopKeeps
<1> QED
  BY <1>3, <1>5, <1>7 DEF LoopInv

LEMMA LoopNextKeeps ==
  ASSUME LoopInv, LoopNext
  PROVE  /\ LoopInv'
         /\ loop.at \in KeysOf(loop.over) /\ loop'.at = 0 =>
              loop.since \ {0} \subseteq Range(loop.given)
<1> DEFINE m == loop.over
           k == loop.at
           n == NextKey(m, k)
<1>0. m # Null /\ k # 0 /\ m \in AllMaps /\ k \in Int /\ loop.given \in Seq(Int)
  BY DEF LoopNext, EndKey, LoopInv, LoopKeeps
<1>1. /\ n \in Int
      /\ n # 0 => \A q \in KeysOf(m) \ {0} : q > k => q >= n
      /\ n = 0 /\ k \in KeysOf(m) => \A q \in KeysOf(m) \ {0} : ~(q > k)
  BY <1>0, NextIs DEF LoopInv
<1>2. /\ loop' = [loop EXCEPT !.at = n, !.given = Append(loop.given, n)]
      /\ map' = map
  BY DEF LoopNext
<1> HIDE DEF n
<1>3. /\ loop'.over = m /\ loop'.at = n /\ loop'.given = Append(loop.given, n)
      /\ loop'.since = loop.since
  BY <1>2 DEF LoopInv, LoopTyped
<1>4. /\ loop.since \subseteq KeysOf(m) /\ KeysOf(m) \subseteq Keys /\ Keys \subseteq Int
      /\ \A q \in loop.since \ {0} : q \in Range(loop.given) \/ q > k
  BY <1>0 DEF LoopInv, LoopKeeps, KeysOf, CollectionsAssumption
<1>5. MapsTyped' /\ KeysOf(m)' = KeysOf(m)
  BY <1>2 DEF LoopInv, MapsTyped, KeysOf
<1>6. LoopTyped'
  <2>1. Append(loop.given, n) \in Seq(Int)
    BY <1>0, <1>1, GivenGrows
  <2> QED
    BY <1>1, <1>2, <2>1 DEF LoopInv, LoopTyped
<1>7. ASSUME n # 0, NEW q \in loop.since \ {0}
      PROVE  q \in Range(Append(loop.given, n)) \/ q > n
  <2>1. q \in Int /\ q \in KeysOf(m) \ {0}
    BY <1>4
  <2>2. CASE q \in Range(loop.given)
    BY <1>0, <1>1, <2>2, GivenGrows
  <2>3. CASE q > k
    <3>1. q >= n
      BY <1>1, <1>7, <2>1, <2>3
    <3>2. q = n \/ q > n
      BY <1>1, <2>1, <3>1
    <3> QED
      BY <1>0, <1>1, <3>2, GivenGrows
  <2> QED
    BY <1>4, <2>2, <2>3
<1>8. LoopKeeps'
  <2>1. Append(loop.given, n) \in Seq(Int)
    BY <1>0, <1>1, GivenGrows
  <2> QED
    BY <1>0, <1>1, <1>3, <1>4, <1>5, <1>7, <2>1 DEF LoopKeeps
<1>9. ASSUME k \in KeysOf(m), loop'.at = 0 PROVE loop.since \ {0} \subseteq Range(loop.given)
  BY <1>1, <1>3, <1>4, <1>9
<1> QED
  BY <1>5, <1>6, <1>8, <1>9 DEF LoopInv

LEMMA LoopStep ==
  ASSUME LoopInv, Next
  PROVE  LoopInv'
<1>1. CASE ArrayNext
  <2>1. map' = map /\ loop' = loop
    BY <1>1 DEF ArrayNext, SetItem, FindVal, EraseIndex, AddItem, AddFromArray,
                EraseRange, SwapItems, SetArray
  <2> QED
    BY <2>1 DEF LoopInv, MapsTyped, LoopTyped, LoopKeeps, KeysOf
<1>2. CASE MapNext
  <2>1. PICK m \in AllMaps, k \in Keys :
          \/ \E x \in Items : MapSet(m, k, x)
          \/ RemoveKey(m, k)
          \/ Clear(m)
    BY <1>2 DEF MapNext
  <2>2. ASSUME NEW x \in Items, MapSet(m, k, x) PROVE LoopInv'
    BY <2>2, MapSetKeeps
  <2>3. ASSUME NEW gone, MapErase(m, gone) PROVE LoopInv'
    BY <2>3, MapEraseKeeps
  <2> QED
    BY <2>1, <2>2, <2>3 DEF RemoveKey, Clear
<1>3. ASSUME NEW m \in AllMaps, LoopBegin(m) PROVE LoopInv'
  BY <1>3, LoopBeginKeeps
<1>4. CASE LoopNext
  BY <1>4, LoopNextKeeps
<1>5. CASE LoopEnd
  <2>1. loop' = [over |-> Null, at |-> 0, given |-> << >>, since |-> {}] /\ map' = map
    BY <1>5 DEF LoopEnd, NoLoop, EndKey
  <2> QED
    BY <2>1 DEF LoopInv, MapsTyped, LoopTyped, LoopKeeps, KeysOf
<1> QED
  BY <1>1, <1>2, <1>3, <1>4, <1>5 DEF Next

LEMMA LoopStands == ASSUME LoopInv, [Next]_vars PROVE LoopInv'
<1>1. CASE UNCHANGED vars
  BY <1>1 DEF vars, LoopInv, MapsTyped, LoopTyped, LoopKeeps, KeysOf
<1> QED
  BY <1>1, LoopStep

(* An item that is added at an index of an array is at that index then,    *)
(* and of a range that is erased only what is outside is left: whatever    *)
(* the arrays, the items, the indices and the bound are.                   *)
THEOREM EditsStayExact == Spec => []EditsAreExact
<1>1. ArraysTyped => EditsAreExact
  BY EditsExact
<1> QED
  BY <1>1, ArraysTypedInvariant, PTL

(* A loop over nextKey returns every key that is there from its begin to   *)
(* its end, whatever other keys scripts add and remove meanwhile: however  *)
(* many keys there are, in JMaps and in JIntMaps.                          *)
THEOREM LoopsVisitAll == Spec => LoopVisitsAll
<1>1. Init => LoopInv
  BY LoopInit
<1>2. LoopInv /\ [Next]_vars => LoopInv'
  BY LoopStands
<1>3. LoopInv /\ [Next]_vars =>
        [ LET m == loop.over IN
          LoopNext /\ loop.at \in KeysOf(m) /\ loop.at' = EndKey
            => loop.since \ {EndKey} \subseteq Range(loop.given) ]_vars
  BY LoopNextKeeps DEF EndKey
<1> QED
  BY <1>1, <1>2, <1>3, PTL DEF Spec, LoopVisitsAll

-----------------------------------------------------------------------------
(* What JSON makes of a graph.                                             *)
LEMMA UpTo ==
  ASSUME NEW n \in Nat, NEW B, 0 \in B, \A j \in 1 .. n : j - 1 \in B => j \in B
  PROVE  \A j \in 0 .. n : j \in B
<1> DEFINE F == {j \in 0 .. n : j \notin B}
<1> SUFFICES ASSUME F # {} PROVE FALSE
  OBVIOUS
<1>1. F \in SUBSET Nat
  OBVIOUS
<1>2. PICK j \in F : \A i \in F : j <= i
  BY <1>1, LeastIndex
<1>3. j \in 1 .. n
  BY <1>2
<1>4. j - 1 \in 0 .. n /\ ~(j <= j - 1)
  BY <1>3
<1> QED
  BY <1>2, <1>3, <1>4

(* A finite set of keys has its ascending sequence: its least key, and     *)
(* then the others.                                                        *)
Lists(s, S) == s \in [1 .. Cardinality(S) -> S] /\ Ascends(s)

LEMMA Listed ==
  ASSUME NEW S \in SUBSET Keys
  PROVE  \E s : Lists(s, S)
<1> DEFINE B == {n \in Nat : \A T \in SUBSET Keys : Cardinality(T) = n => \E s : Lists(s, T)}
<1>1. \A T \in SUBSET Keys : IsFiniteSet(T) /\ Cardinality(T) \in Nat
  BY FS_Subset, FS_CardinalityType DEF CollectionsAssumption
<1>2. 0 \in B
  <2> SUFFICES ASSUME NEW T \in SUBSET Keys, Cardinality(T) = 0
               PROVE  \E s : Lists(s, T)
    OBVIOUS
  <2> DEFINE s == [i \in {} |-> 0]
  <2>1. T = {} /\ 1 .. Cardinality(T) = {}
    BY <1>1, FS_EmptySet
  <2>2. s \in [1 .. Cardinality(T) -> T] /\ Ascends(s)
    BY <2>1 DEF Ascends
  <2> QED
    BY <2>2 DEF Lists
<1>3. ASSUME NEW n \in Nat \ {0}, n - 1 \in B PROVE n \in B
  <2> SUFFICES ASSUME NEW T \in SUBSET Keys, Cardinality(T) = n
               PROVE  \E s : Lists(s, T)
    OBVIOUS
  <2>1. T # {}
    BY FS_EmptySet
  <2>2. PICK l \in T : \A k \in T : l <= k
    BY <2>1, LeastKey
  <2> DEFINE R == T \ {l}
  <2>3. R \in SUBSET Keys /\ Cardinality(R) = n - 1
    BY <1>1, FS_RemoveElement
  <2>4. PICK r : Lists(r, R)
    BY <1>3, <2>3
  <2>5. r \in [1 .. n - 1 -> R] /\ \A i, j \in 1 .. n - 1 : i < j => r[i] < r[j]
    BY <2>3, <2>4 DEF Lists, Ascends
  <2> DEFINE s == [i \in 1 .. n |-> IF i = 1 THEN l ELSE r[i - 1]]
  <2>6. \A i \in 2 .. n : i - 1 \in 1 .. n - 1
    OBVIOUS
  <2>7. \A i \in 2 .. n : s[i] = r[i - 1] /\ r[i - 1] \in R
    BY <2>5, <2>6
  <2>8. s[1] = l
    OBVIOUS
  <2>9. s \in [1 .. n -> T]
    BY <2>5, <2>6
  <2> HIDE DEF s
  <2>10. ASSUME NEW i \in 1 .. n, NEW j \in 1 .. n, i < j PROVE s[i] < s[j]
    <3>1. j \in 2 .. n
      BY <2>10
    <3>2. CASE i = 1
      <4>1. s[j] \in T /\ s[j] # l
        BY <2>7, <3>1
      <4>2. s[j] \in Int /\ l \in Int
        BY <4>1 DEF CollectionsAssumption
      <4> QED
        BY <2>2, <2>8, <3>2, <4>1, <4>2
    <3>3. CASE i # 1
      <4>1. i \in 2 .. n /\ i - 1 < j - 1
        BY <2>10, <3>1, <3>3
      <4> QED
        BY <2>5, <2>6, <2>7, <3>1, <4>1
    <3> QED
      BY <3>2, <3>3
  <2>11. Lists(s, T)
    BY <2>9, <2>10 DEF Lists, Ascends
  <2> QED
    BY <2>11
<1>4. Cardinality(S) \in Nat
  BY <1>1
<1> HIDE DEF B
<1>5. Cardinality(S) \in B
  <2>1. \A j \in 1 .. Cardinality(S) : j - 1 \in B => j \in B
    BY <1>3, <1>4
  <2>2. \A j \in 0 .. Cardinality(S) : j \in B
    BY <1>2, <1>4, <2>1, UpTo
  <2> QED
    BY <1>4, <2>2
<1> QED
  BY <1>5 DEF B

LEMMA EntryKeysTyped ==
  ASSUME ArraysTyped, NEW c \in Containers
  PROVE  /\ EntryKeys(c) \in Seq(Int) /\ Len(EntryKeys(c)) \in Nat
         /\ DOMAIN EntryKeys(c) = 1 .. Len(EntryKeys(c))
         /\ c \in Maps => Range(EntryKeys(c)) \subseteq KeysOf(c)
<1>1. CASE c \in Arrays
  <2>1. Count(c) \in Nat
    BY <1>1, LenProperties DEF ArraysTyped, Count
  <2>2. c \notin Maps
    BY <1>1 DEF CollectionsAssumption
  <2>3. EntryKeys(c) \in [1 .. Count(c) -> Int]
    BY <1>1, <2>1 DEF EntryKeys
  <2>4. EntryKeys(c) \in Seq(Int)
    BY <2>1, <2>3, SeqDef
  <2> QED
    BY <2>2, <2>4, LenProperties
<1>2. CASE c \notin Arrays
  <2> DEFINE S == KeysOf(c)
  <2>1. S \in SUBSET Keys
    BY DEF KeysOf
  <2>2. Cardinality(S) \in Nat
    BY <2>1, FS_Subset, FS_CardinalityType DEF CollectionsAssumption
  <2>3. \E s \in [1 .. Cardinality(S) -> S] : Ascends(s)
    BY <2>1, Listed DEF Lists
  <2>4. EntryKeys(c) \in [1 .. Cardinality(S) -> S]
    BY <1>2, <2>3 DEF EntryKeys
  <2>5. S \subseteq Int
    BY <2>1 DEF CollectionsAssumption
  <2> HIDE DEF S
  <2>6. EntryKeys(c) \in [1 .. Cardinality(S) -> Int]
    BY <2>4, <2>5
  <2>7. EntryKeys(c) \in Seq(Int)
    BY <2>2, <2>6, SeqDef
  <2>8. Range(EntryKeys(c)) \subseteq S
    BY <2>4 DEF Range
  <2> QED
    BY <2>7, <2>8, LenProperties DEF S
<1> QED
  BY <1>1, <1>2

(* What is written: a container is held by one that is written before it,  *)
(* where it is in full, and is in full once.                               *)
Records == [obj : Containers, owner : Containers \cup {Null}, key : Int \cup {Null}]

Hung(found, i) ==
  /\ found[i].owner \in Containers
  /\ found[i].key \in Range(EntryKeys(found[i].owner))
  /\ Entry(found[i].owner, found[i].key) = found[i].obj
  /\ \E j \in 1 .. i - 1 : found[j].obj = found[i].owner

Tree(found) ==
  /\ found \in Seq(Records) /\ Len(found) \in Nat \ {0}
  /\ \A i, j \in 1 .. Len(found) : found[i].obj = found[j].obj => i = j
  /\ \A i \in 2 .. Len(found) : Hung(found, i)

Grown(found, more) ==
  Len(found) <= Len(more) /\ \A i \in 1 .. Len(found) : more[i] = found[i]

(* The containers that the n-th one holds are written, too.                *)
AllMet(found, c) ==
  \A k \in Range(EntryKeys(c)) : Entry(c, k) \in Containers => Met(found, Entry(c, k))

LEMMA MetIs ==
  ASSUME NEW found, Tree(found), NEW c
  PROVE  Met(found, c) <=> \E i \in 1 .. Len(found) : found[i].obj = c
<1>1. DOMAIN found = 1 .. Len(found)
  BY LenProperties DEF Tree
<1> QED
  BY <1>1 DEF Met

LEMMA GrownMore ==
  ASSUME NEW found, NEW more, NEW most, Tree(found), Tree(more), Tree(most),
         Grown(found, more), Grown(more, most)
  PROVE  Grown(found, most)
<1>1. Len(found) \in Nat /\ Len(more) \in Nat /\ Len(most) \in Nat
  BY DEF Tree
<1>2. \A i \in 1 .. Len(found) : i \in 1 .. Len(more)
  BY <1>1 DEF Grown
<1> QED
  BY <1>1, <1>2 DEF Grown

LEMMA MetStays ==
  ASSUME NEW found, NEW more, Tree(found), Tree(more), Grown(found, more), NEW c, Met(found, c)
  PROVE  Met(more, c)
<1>1. PICK i \in 1 .. Len(found) : found[i].obj = c
  BY MetIs
<1>2. i \in 1 .. Len(more) /\ more[i].obj = c
  BY <1>1 DEF Grown, Tree
<1> QED
  BY <1>2, MetIs

LEMMA MeetKeeps ==
  ASSUME ArraysTyped, NEW found, Tree(found), NEW c, Met(found, c), NEW k \in Range(EntryKeys(c))
  PROVE  /\ Tree(Meet(c, found, k))
         /\ Grown(found, Meet(c, found, k))
         /\ Entry(c, k) \in Containers => Met(Meet(c, found, k), Entry(c, k))
<1> DEFINE e == [obj |-> Entry(c, k), owner |-> c, key |-> k]
           more == Append(found, e)
<1>1. CASE ~(Entry(c, k) \in Containers /\ ~Met(found, Entry(c, k)))
  <2>1. Meet(c, found, k) = found
    BY <1>1 DEF Meet
  <2> QED
    BY <1>1, <2>1 DEF Grown, Tree
<1>2. CASE Entry(c, k) \in Containers /\ ~Met(found, Entry(c, k))
  <2>1. Meet(c, found, k) = more
    BY <1>2 DEF Meet
  <2>2. PICK n \in 1 .. Len(found) : found[n].obj = c
    BY MetIs
  <2>3. found \in Seq(Records) /\ Len(found) \in Nat \ {0}
    BY DEF Tree
  <2>4. c \in Containers
    <3>1. found[n] \in Records
      BY <2>2, <2>3, ElementOfSeq
    <3> QED
      BY <2>2, <3>1 DEF Records
  <2>5. k \in Int
    BY <2>4, EntryKeysTyped, ElementOfSeq DEF Range
  <2>6. e \in Records
    BY <1>2, <2>4, <2>5 DEF Records
  <2> HIDE DEF e
  <2>7. /\ more \in Seq(Records) /\ Len(more) = Len(found) + 1
        /\ \A i \in 1 .. Len(found) : more[i] = found[i]
        /\ more[Len(found) + 1] = e
    BY <2>3, <2>6, AppendProperties
  <2>8. e.obj = Entry(c, k) /\ e.owner = c /\ e.key = k
    BY DEF e
  <2> HIDE DEF more
  <2>9. \A i \in 1 .. Len(found) : found[i].obj # e.obj
    BY <1>2, <2>8, MetIs
  <2>10. ASSUME NEW i \in 1 .. Len(more), NEW j \in 1 .. Len(more), more[i].obj = more[j].obj
         PROVE  i = j
    <3>1. CASE i \in 1 .. Len(found) /\ j \in 1 .. Len(found)
      BY <2>7, <2>10, <3>1 DEF Tree
    <3>2. CASE i \in 1 .. Len(found) /\ j = Len(found) + 1
      BY <2>7, <2>9, <2>10, <3>2
    <3>3. CASE i = Len(found) + 1 /\ j \in 1 .. Len(found)
      BY <2>7, <2>9, <2>10, <3>3
    <3>4. CASE i = Len(found) + 1 /\ j = Len(found) + 1
      BY <3>4
    <3> QED
      BY <2>3, <2>7, <3>1, <3>2, <3>3, <3>4
  <2>11. ASSUME NEW i \in 2 .. Len(more) PROVE Hung(more, i)
    <3>1. CASE i \in 2 .. Len(found)
      <4>1. Hung(found, i) /\ i \in 1 .. Len(found)
        BY <3>1 DEF Tree
      <4>2. more[i] = found[i] /\ \A j \in 1 .. i - 1 : more[j] = found[j]
        BY <2>3, <2>7, <3>1
      <4> QED
        BY <4>1, <4>2 DEF Hung
    <3>2. CASE i = Len(found) + 1
      <4>1. more[i] = e /\ n \in 1 .. i - 1 /\ more[n].obj = c
        BY <2>2, <2>3, <2>7, <3>2
      <4> QED
        BY <2>4, <2>8, <4>1 DEF Hung
    <3> QED
      BY <2>3, <2>7, <3>1, <3>2
  <2>12. Tree(more)
    BY <2>3, <2>7, <2>10, <2>11 DEF Tree
  <2>13. Grown(found, more)
    BY <2>3, <2>7 DEF Grown
  <2>14. Met(more, Entry(c, k))
    <3>1. Len(found) + 1 \in 1 .. Len(more) /\ more[Len(found) + 1].obj = Entry(c, k)
      BY <2>3, <2>7, <2>8
    <3> QED
      BY <2>12, <3>1, MetIs
  <2> QED
    BY <2>1, <2>12, <2>13, <2>14
<1> QED
  BY <1>1, <1>2

(* A function whose values are made one of the other exists.               *)
Chains(f, n, S, a, G) ==
  /\ f \in [0 .. n -> S]
  /\ f[0] = a
  /\ \A j \in 1 .. n : f[j] = G[j][f[j - 1]]

LEMMA ChainExists ==
  ASSUME NEW n \in Nat, NEW S, NEW a \in S, NEW G \in [1 .. n -> [S -> S]]
  PROVE  \E f : Chains(f, n, S, a, G)
<1> DEFINE B == {m \in Nat : m <= n => \E f : Chains(f, m, S, a, G)}
<1>1. 0 \in B
  <2> DEFINE f == [j \in 0 .. 0 |-> a]
  <2>1. Chains(f, 0, S, a, G)
    BY DEF Chains
  <2> QED
    BY <2>1
<1>2. ASSUME NEW m \in 1 .. n, m - 1 \in B PROVE m \in B
  <2>1. PICK g : Chains(g, m - 1, S, a, G)
    BY <1>2
  <2> DEFINE f == [j \in 0 .. m |-> IF j < m THEN g[j] ELSE G[m][g[m - 1]]]
  <2>2. /\ g \in [0 .. m - 1 -> S] /\ g[0] = a
        /\ \A j \in 1 .. m - 1 : g[j] = G[j][g[j - 1]]
    BY <2>1 DEF Chains
  <2>3. m - 1 \in 0 .. m - 1 /\ g[m - 1] \in S
    BY <2>2
  <2>4. G[m][g[m - 1]] \in S
    BY <2>3
  <2>5. \A j \in 0 .. m - 1 : f[j] = g[j]
    OBVIOUS
  <2>6. f[m] = G[m][g[m - 1]]
    OBVIOUS
  <2>7. f \in [0 .. m -> S]
    BY <2>2, <2>4
  <2> HIDE DEF f
  <2>8. ASSUME NEW j \in 1 .. m PROVE f[j] = G[j][f[j - 1]]
    <3>1. j - 1 \in 0 .. m - 1 /\ f[j - 1] = g[j - 1]
      BY <2>5
    <3>2. CASE j = m
      BY <2>6, <3>1, <3>2
    <3>3. CASE j # m
      <4>1. j \in 1 .. m - 1 /\ j \in 0 .. m - 1
        BY <3>3
      <4> QED
        BY <2>2, <2>5, <3>1, <4>1
    <3> QED
      BY <3>2, <3>3
  <2>9. 0 \in 0 .. m - 1
    OBVIOUS
  <2>10. f[0] = a
    BY <2>2, <2>5, <2>9
  <2>11. Chains(f, m, S, a, G)
    BY <2>7, <2>8, <2>10 DEF Chains
  <2> QED
    BY <2>11
<1> HIDE DEF B
<1>3. \A m \in 1 .. n : m - 1 \in B => m \in B
  BY <1>2
<1>4. \A m \in 0 .. n : m \in B
  BY <1>1, <1>3, UpTo
<1>5. n \in B
  BY <1>4
<1> QED
  BY <1>5 DEF B

(* What a container holds is met key by key.                               *)
Trees == {found \in Seq(Records) : Tree(found)}

Meets(f, found, c) ==
  f = [j \in 0 .. Len(EntryKeys(c)) |->
         IF j = 0 THEN found ELSE Meet(c, f[j - 1], EntryKeys(c)[j])]

LEMMA MeetsExist ==
  ASSUME ArraysTyped, NEW found, Tree(found), NEW c \in Containers, Met(found, c)
  PROVE  \E f : Meets(f, found, c)
<1> DEFINE n == Len(EntryKeys(c))
           S == {more \in Trees : Met(more, c)}
           G == [j \in 1 .. n |-> [more \in S |-> Meet(c, more, EntryKeys(c)[j])]]
<1>1. n \in Nat /\ DOMAIN EntryKeys(c) = 1 .. n
  BY EntryKeysTyped
<1>2. \A j \in 1 .. n : EntryKeys(c)[j] \in Range(EntryKeys(c))
  BY <1>1 DEF Range
<1>3. found \in S
  BY DEF Trees, Tree
<1> HIDE DEF n
<1>4. ASSUME NEW j \in 1 .. n, NEW more \in S PROVE Meet(c, more, EntryKeys(c)[j]) \in S
  <2>1. Tree(more) /\ Met(more, c)
    BY DEF Trees
  <2>2. PICK next : next = Meet(c, more, EntryKeys(c)[j])
    OBVIOUS
  <2>3. Tree(next) /\ Grown(more, next)
    BY <1>2, <2>1, <2>2, MeetKeeps
  <2>4. Met(next, c)
    BY <2>1, <2>3, MetStays
  <2> QED
    BY <2>2, <2>3, <2>4 DEF Trees, Tree
<1> HIDE DEF S
<1>5. G \in [1 .. n -> [S -> S]]
  BY <1>4
<1> HIDE DEF G
<1>6. PICK f : Chains(f, n, S, found, G)
  BY <1>1, <1>3, <1>5, ChainExists
<1>7. /\ f \in [0 .. n -> S] /\ f[0] = found
      /\ \A j \in 1 .. n : f[j] = G[j][f[j - 1]]
  BY <1>6 DEF Chains
<1>8. ASSUME NEW j \in 0 .. n
      PROVE  f[j] = IF j = 0 THEN found ELSE Meet(c, f[j - 1], EntryKeys(c)[j])
  <2>1. CASE j = 0
    BY <1>7, <2>1
  <2>2. CASE j # 0
    <3>1. j \in 1 .. n /\ j - 1 \in 0 .. n
      BY <1>1, <2>2
    <3>2. f[j - 1] \in S /\ f[j] = G[j][f[j - 1]]
      BY <1>7, <3>1
    <3>3. G[j][f[j - 1]] = Meet(c, f[j - 1], EntryKeys(c)[j])
      BY <3>1, <3>2 DEF G
    <3> QED
      BY <2>2, <3>2, <3>3
  <2> QED
    BY <2>1, <2>2
<1>9. f = [j \in 0 .. n |-> IF j = 0 THEN found ELSE Meet(c, f[j - 1], EntryKeys(c)[j])]
  BY <1>7, <1>8
<1> QED
  BY <1>9 DEF Meets, n

LEMMA MeetsKeep ==
  ASSUME ArraysTyped, NEW found, Tree(found), NEW c \in Containers, Met(found, c),
         NEW f, Meets(f, found, c)
  PROVE  /\ Tree(f[Len(EntryKeys(c))])
         /\ Grown(found, f[Len(EntryKeys(c))])
         /\ AllMet(f[Len(EntryKeys(c))], c)
<1> DEFINE n == Len(EntryKeys(c))
           Got(j) == \A i \in 1 .. j : LET x == Entry(c, EntryKeys(c)[i]) IN
                       x \in Containers => Met(f[j], x)
           B == {j \in Nat : j <= n => Tree(f[j]) /\ Grown(found, f[j]) /\ Got(j)}
<1>1. n \in Nat /\ DOMAIN EntryKeys(c) = 1 .. n
  BY EntryKeysTyped
<1>2. \A j \in 1 .. n : EntryKeys(c)[j] \in Range(EntryKeys(c))
  BY <1>1 DEF Range
<1>3. f[0] = found /\ \A j \in 1 .. n : f[j] = Meet(c, f[j - 1], EntryKeys(c)[j])
  BY <1>1 DEF Meets
<1> HIDE DEF n
<1>4. 0 \in B
  BY <1>3 DEF Grown, Tree
<1>5. ASSUME NEW j \in 1 .. n, j - 1 \in B PROVE j \in B
  <2>1. Tree(f[j - 1]) /\ Grown(found, f[j - 1]) /\ Got(j - 1)
    BY <1>1, <1>5
  <2>2. PICK now, next, k : now = f[j - 1] /\ next = f[j] /\ k = EntryKeys(c)[j]
    OBVIOUS
  <2>3. next = Meet(c, now, k) /\ k \in Range(EntryKeys(c))
    BY <1>2, <1>3, <2>2
  <2>4. Tree(now) /\ Met(now, c)
    BY <2>1, <2>2, MetStays
  <2>5. Tree(next) /\ Grown(now, next) /\ (Entry(c, k) \in Containers => Met(next, Entry(c, k)))
    BY <2>3, <2>4, MeetKeeps
  <2>6. Grown(found, next)
    BY <2>1, <2>2, <2>4, <2>5, GrownMore
  <2>7. ASSUME NEW i \in 1 .. j, Entry(c, EntryKeys(c)[i]) \in Containers
        PROVE  Met(next, Entry(c, EntryKeys(c)[i]))
    <3>1. CASE i = j
      BY <2>2, <2>5, <2>7, <3>1
    <3>2. CASE i # j
      <4>1. i \in 1 .. j - 1
        BY <1>1, <3>2
      <4>2. Met(now, Entry(c, EntryKeys(c)[i]))
        BY <2>1, <2>2, <2>7, <4>1
      <4> QED
        BY <2>4, <2>5, <4>2, MetStays
    <3> QED
      BY <3>1, <3>2
  <2>8. Got(j)
    BY <2>2, <2>7
  <2> HIDE DEF Got
  <2> QED
    BY <1>1, <2>2, <2>5, <2>6, <2>8
<1> HIDE DEF B
<1>6. \A j \in 1 .. n : j - 1 \in B => j \in B
  BY <1>5
<1>7. n \in B
  <2>1. \A j \in 0 .. n : j \in B
    BY <1>1, <1>4, <1>6, UpTo
  <2> QED
    BY <1>1, <2>1
<1>8. Tree(f[n]) /\ Grown(found, f[n]) /\ Got(n)
  BY <1>1, <1>7 DEF B
<1>9. AllMet(f[n], c)
  BY <1>1, <1>8 DEF AllMet, Range
<1> QED
  BY <1>8, <1>9 DEF n

LEMMA WriteNextKeeps ==
  ASSUME ArraysTyped, NEW found, Tree(found), NEW n \in Nat \ {0}
  PROVE  /\ Tree(WriteNext(found, n))
         /\ Grown(found, WriteNext(found, n))
         /\ n <= Len(found) => AllMet(WriteNext(found, n), found[n].obj)
<1>1. CASE n > Len(found)
  <2>1. WriteNext(found, n) = found
    BY <1>1 DEF WriteNext
  <2> QED
    BY <1>1, <2>1 DEF Tree, Grown
<1>2. CASE ~(n > Len(found))
  <2> DEFINE c == found[n].obj
             keys == EntryKeys(c)
             met[j \in 0 .. Len(keys)] == IF j = 0 THEN found ELSE Meet(c, met[j - 1], keys[j])
  <2>1. n \in 1 .. Len(found)
    BY <1>2 DEF Tree
  <2>2. c \in Containers
    <3>1. found[n] \in Records
      BY <2>1, ElementOfSeq DEF Tree
    <3> QED
      BY <3>1 DEF Records
  <2>3. Met(found, c)
    BY <2>1, MetIs
  <2>4. \E f : f = [j \in 0 .. Len(keys) |-> IF j = 0 THEN found ELSE Meet(c, f[j - 1], keys[j])]
    <3> HIDE DEF c
    <3>1. PICK f : Meets(f, found, c)
      BY <2>2, <2>3, MeetsExist
    <3> QED
      BY <3>1 DEF Meets
  <2>5. met = [j \in 0 .. Len(keys) |-> IF j = 0 THEN found ELSE Meet(c, met[j - 1], keys[j])]
    BY <2>4
  <2>6. WriteNext(found, n) = met[Len(keys)]
    BY <1>2 DEF WriteNext
  <2> HIDE DEF met
  <2>7. PICK f, d : f = met /\ d = c
    OBVIOUS
  <2>8. d \in Containers /\ Met(found, d) /\ Meets(f, found, d)
    BY <2>2, <2>3, <2>5, <2>7 DEF Meets
  <2>9. Tree(f[Len(EntryKeys(d))]) /\ Grown(found, f[Len(EntryKeys(d))]) /\ AllMet(f[Len(EntryKeys(d))], d)
    BY <2>8, MeetsKeep
  <2> QED
    BY <2>6, <2>7, <2>9
<1> QED
  BY <1>1, <1>2

(* Every container is written at most once, hence after as many steps as   *)
(* there are containers, all that is held by one that is written is, too.  *)
LEMMA NotLonger ==
  ASSUME NEW found, Tree(found)
  PROVE  Len(found) <= Cardinality(Containers)
<1> DEFINE S == 1 .. Len(found)
           f == [i \in S |-> found[i].obj]
<1>1. Len(found) \in Nat \ {0} /\ found \in Seq(Records)
  BY DEF Tree
<1>2. \A i \in S : found[i].obj \in Containers
  <2> SUFFICES ASSUME NEW i \in S PROVE found[i].obj \in Containers
    OBVIOUS
  <2>1. found[i] \in Records
    BY <1>1, ElementOfSeq
  <2> QED
    BY <2>1 DEF Records
<1>3. \A i, j \in S : f[i] = f[j] => i = j
  BY DEF Tree
<1>4. f \in Injection(S, Containers)
  <2>1. f \in [S -> Containers]
    BY <1>2
  <2> HIDE DEF f, S
  <2> QED
    BY <1>3, <2>1 DEF Injection, IsInjective
<1>5. IsFiniteSet(Containers)
  <2>1. Containers = Arrays \cup Maps \cup IntMaps
    BY DEF Containers, AllMaps
  <2> QED
    BY <2>1 DEF CollectionsAssumption
<1> HIDE DEF f
<1>6. Cardinality(S) <= Cardinality(Containers)
  BY <1>4, <1>5, FS_Injection
<1>7. Cardinality(S) = Len(found)
  <2>1. Cardinality(1 .. Len(found)) = IF 1 > Len(found) THEN 0 ELSE Len(found) - 1 + 1
    BY <1>1, FS_Interval
  <2> QED
    BY <1>1, <2>1
<1> QED
  BY <1>6, <1>7

Start(root) == << [obj |-> root, owner |-> Null, key |-> Null] >>

Writes(f, root, n) ==
  f = [i \in 0 .. n |-> IF i = 0 THEN Start(root) ELSE WriteNext(f[i - 1], i)]

LEMMA StartIsTree ==
  ASSUME NEW root \in Containers
  PROVE  Tree(Start(root))
<1>1. [obj |-> root, owner |-> Null, key |-> Null] \in Records
  BY DEF Records
<1>2. Start(root) \in Seq(Records) /\ Len(Start(root)) = 1
  BY <1>1 DEF Start
<1> QED
  BY <1>2 DEF Tree

LEMMA WritesExist ==
  ASSUME ArraysTyped, NEW root \in Containers, NEW n \in Nat
  PROVE  \E f : Writes(f, root, n)
<1> DEFINE G == [i \in 1 .. n |-> [found \in Trees |-> WriteNext(found, i)]]
<1>1. Start(root) \in Trees
  BY StartIsTree DEF Trees, Tree
<1>2. ASSUME NEW i \in 1 .. n, NEW found \in Trees PROVE WriteNext(found, i) \in Trees
  <2>1. Tree(found)
    BY DEF Trees
  <2>2. Tree(WriteNext(found, i))
    BY <2>1, WriteNextKeeps
  <2> QED
    BY <2>2 DEF Trees, Tree
<1>3. G \in [1 .. n -> [Trees -> Trees]]
  BY <1>2
<1> HIDE DEF G
<1>4. PICK f : Chains(f, n, Trees, Start(root), G)
  BY <1>1, <1>3, ChainExists
<1>5. /\ f \in [0 .. n -> Trees] /\ f[0] = Start(root)
      /\ \A i \in 1 .. n : f[i] = G[i][f[i - 1]]
  BY <1>4 DEF Chains
<1>6. ASSUME NEW i \in 0 .. n
      PROVE  f[i] = IF i = 0 THEN Start(root) ELSE WriteNext(f[i - 1], i)
  <2>1. CASE i = 0
    BY <1>5, <2>1
  <2>2. CASE i # 0
    <3>1. i \in 1 .. n /\ i - 1 \in 0 .. n
      BY <2>2
    <3>2. f[i - 1] \in Trees /\ f[i] = G[i][f[i - 1]]
      BY <1>5, <3>1
    <3>3. G[i][f[i - 1]] = WriteNext(f[i - 1], i)
      BY <3>1, <3>2 DEF G
    <3> QED
      BY <2>2, <3>2, <3>3
  <2> QED
    BY <2>1, <2>2
<1> QED
  BY <1>5, <1>6 DEF Writes

LEMMA WritesKeep ==
  ASSUME ArraysTyped, NEW root \in Containers, NEW n \in Nat, NEW f, Writes(f, root, n)
  PROVE  /\ Tree(f[n])
         /\ \A i \in 1 .. Len(f[n]) : i <= n => AllMet(f[n], f[n][i].obj)
<1> DEFINE Done(j) == \A i \in 1 .. Len(f[j]) : i <= j => AllMet(f[j], f[j][i].obj)
           B == {j \in Nat : j <= n => Tree(f[j]) /\ Done(j)}
<1>1. f[0] = Start(root) /\ \A j \in 1 .. n : f[j] = WriteNext(f[j - 1], j)
  BY DEF Writes
<1>2. 0 \in B
  BY <1>1, StartIsTree
<1>3. ASSUME NEW j \in 1 .. n, j - 1 \in B PROVE j \in B
  <2>1. Tree(f[j - 1]) /\ Done(j - 1)
    BY <1>3
  <2>2. PICK now, next : now = f[j - 1] /\ next = f[j]
    OBVIOUS
  <2>3. next = WriteNext(now, j) /\ Tree(now)
    BY <1>1, <2>1, <2>2
  <2>4. Tree(next) /\ Grown(now, next) /\ (j <= Len(now) => AllMet(next, now[j].obj))
    BY <2>3, WriteNextKeeps
  <2>5. Len(now) \in Nat /\ Len(next) \in Nat
    BY <2>3, <2>4 DEF Tree
  <2>6. ASSUME NEW i \in 1 .. Len(next), i <= j PROVE AllMet(next, next[i].obj)
    <3>1. i <= Len(now)
      <4>1. CASE j > Len(now)
        BY <2>3, <2>5, <4>1 DEF WriteNext
      <4>2. CASE ~(j > Len(now))
        BY <2>5, <2>6, <4>2
      <4> QED
        BY <4>1, <4>2
    <3>2. next[i] = now[i] /\ i \in 1 .. Len(now)
      BY <2>4, <2>5, <3>1 DEF Grown
    <3>3. CASE i = j
      BY <2>4, <3>1, <3>2, <3>3
    <3>4. CASE i # j
      <4>1. AllMet(now, now[i].obj)
        <5>1. i <= j - 1 /\ i \in 1 .. Len(f[j - 1])
          BY <2>2, <2>5, <2>6, <3>2, <3>4
        <5> QED
          BY <2>1, <2>2, <5>1
      <4>2. ASSUME NEW x, Met(now, x) PROVE Met(next, x)
        BY <2>3, <2>4, <4>2, MetStays
      <4> QED
        BY <3>2, <4>1, <4>2 DEF AllMet
    <3> QED
      BY <3>3, <3>4
  <2>7. Done(j)
    BY <2>2, <2>6
  <2> HIDE DEF Done
  <2> QED
    BY <2>2, <2>4, <2>7
<1> HIDE DEF B
<1>4. \A j \in 1 .. n : j - 1 \in B => j \in B
  BY <1>3
<1>5. n \in B
  <2>1. \A j \in 0 .. n : j \in B
    BY <1>2, <1>4, UpTo
  <2> QED
    BY <2>1
<1> QED
  BY <1>5 DEF B

LEMMA WrittenIsClosed ==
  ASSUME ArraysTyped, NEW root \in Containers, NEW found, found = Written(root)
  PROVE  /\ Tree(found)
         /\ \A i \in 1 .. Len(found) : AllMet(found, found[i].obj)
<1> DEFINE n == Cardinality(Containers)
           upto[i \in 0 .. n] ==
             IF i = 0 THEN << [obj |-> root, owner |-> Null, key |-> Null] >>
             ELSE WriteNext(upto[i - 1], i)
<1>1. n \in Nat
  <2>1. Containers = Arrays \cup Maps \cup IntMaps
    BY DEF Containers, AllMaps
  <2> QED
    BY <2>1, FS_CardinalityType DEF CollectionsAssumption
<1>2. \E f : f = [i \in 0 .. n |->
                    IF i = 0 THEN << [obj |-> root, owner |-> Null, key |-> Null] >>
                    ELSE WriteNext(f[i - 1], i)]
  <2> HIDE DEF n
  <2>1. PICK f : Writes(f, root, n)
    BY <1>1, WritesExist
  <2> QED
    BY <2>1 DEF Writes, Start
<1>3. upto = [i \in 0 .. n |->
                IF i = 0 THEN << [obj |-> root, owner |-> Null, key |-> Null] >>
                ELSE WriteNext(upto[i - 1], i)]
  BY <1>2
<1>4. found = upto[n]
  BY DEF Written
<1> HIDE DEF upto
<1>5. Writes(upto, root, n)
  BY <1>3 DEF Writes, Start
<1>6. PICK f : f = upto
  OBVIOUS
<1>7. Tree(f[n]) /\ \A i \in 1 .. Len(f[n]) : i <= n => AllMet(f[n], f[n][i].obj)
  <2> HIDE DEF n
  <2> QED
    BY <1>1, <1>5, <1>6, WritesKeep
<1>8. Tree(found) /\ Len(found) <= n
  BY <1>4, <1>6, <1>7, NotLonger
<1>9. \A i \in 1 .. Len(found) : i <= n
  BY <1>1, <1>8 DEF Tree
<1> QED
  BY <1>4, <1>6, <1>7, <1>8, <1>9

(* The way back: what path_to_object gives leads to the container again.   *)
LEMMA IndexIs ==
  ASSUME NEW found, Tree(found), NEW i \in 1 .. Len(found)
  PROVE  IndexIn(found, found[i].obj) = i
<1>1. DOMAIN found = 1 .. Len(found)
  BY LenProperties DEF Tree
<1>2. \A j \in DOMAIN found : found[j].obj = found[i].obj => j = i
  BY <1>1 DEF Tree
<1> QED
  BY <1>1, <1>2 DEF IndexIn

LEMMA HolderIs ==
  ASSUME NEW found, Tree(found), NEW i \in 2 .. Len(found)
  PROVE  \E j \in 1 .. i - 1 : j \in 1 .. Len(found) /\ found[j].obj = found[i].owner
                               /\ IndexIn(found, found[i].owner) = j
<1>1. Hung(found, i) /\ Len(found) \in Nat
  BY DEF Tree
<1>2. PICK j \in 1 .. i - 1 : found[j].obj = found[i].owner
  BY <1>1 DEF Hung
<1>3. j \in 1 .. Len(found)
  BY <1>1, <1>2
<1>4. IndexIn(found, found[j].obj) = j
  BY <1>3, IndexIs
<1> QED
  BY <1>2, <1>3, <1>4

PathFrom(p, found, i) ==
  IF i = 1 THEN << >> ELSE p[IndexIn(found, found[i].owner)] \o Step(found[i])

Paths(p, found, n) == p = [i \in 1 .. n |-> PathFrom(p, found, i)]

LEMMA PathsExist ==
  ASSUME NEW found, Tree(found)
  PROVE  \E p : Paths(p, found, Len(found))
<1> DEFINE B == {n \in Nat : n <= Len(found) => \E p : Paths(p, found, n)}
<1>1. Len(found) \in Nat
  BY DEF Tree
<1>2. 0 \in B
  <2> DEFINE p == [i \in {} |-> << >>]
  <2>1. p = [i \in 1 .. 0 |-> PathFrom(p, found, i)]
    OBVIOUS
  <2>2. Paths(p, found, 0)
    BY <2>1 DEF Paths
  <2> QED
    BY <2>2
<1>3. ASSUME NEW n \in 1 .. Len(found), n - 1 \in B PROVE n \in B
  <2>1. PICK q : Paths(q, found, n - 1)
    BY <1>1, <1>3
  <2>2. PICK last : last = PathFrom(q, found, n)
    OBVIOUS
  <2> DEFINE p == [i \in 1 .. n |-> IF i < n THEN q[i] ELSE last]
  <2>3. p[n] = last /\ \A i \in 1 .. n - 1 : p[i] = q[i]
    OBVIOUS
  <2>4. p = [i \in 1 .. n |-> p[i]]
    OBVIOUS
  <2> HIDE DEF p
  <2>5. ASSUME NEW i \in 1 .. n PROVE PathFrom(p, found, i) = PathFrom(q, found, i)
    <3>1. CASE i = 1
      BY <3>1 DEF PathFrom
    <3>2. CASE i # 1
      <4>1. i \in 2 .. Len(found)
        BY <1>1, <3>2
      <4>2. PICK j \in 1 .. i - 1 : IndexIn(found, found[i].owner) = j
        BY <4>1, HolderIs
      <4>3. j \in 1 .. n - 1
        BY <4>2
      <4>4. p[j] = q[j]
        BY <2>3, <4>3
      <4> QED
        BY <4>2, <4>4 DEF PathFrom
    <3> QED
      BY <3>1, <3>2
  <2>6. ASSUME NEW i \in 1 .. n PROVE p[i] = PathFrom(p, found, i)
    <3>1. CASE i = n
      BY <2>2, <2>3, <2>5, <3>1
    <3>2. CASE i # n
      <4>1. i \in 1 .. n - 1
        BY <3>2
      <4>2. q[i] = PathFrom(q, found, i)
        BY <2>1, <4>1 DEF Paths
      <4> QED
        BY <2>3, <2>5, <4>1, <4>2
    <3> QED
      BY <3>1, <3>2
  <2>7. Paths(p, found, n)
    BY <2>4, <2>6 DEF Paths
  <2> QED
    BY <2>7
<1> HIDE DEF B
<1>4. \A n \in 1 .. Len(found) : n - 1 \in B => n \in B
  BY <1>3
<1>5. Len(found) \in B
  <2>1. \A n \in 0 .. Len(found) : n \in B
    BY <1>1, <1>2, <1>4, UpTo
  <2> QED
    BY <1>1, <2>1
<1> QED
  BY <1>1, <1>5 DEF B

LEMMA PathToIs ==
  ASSUME NEW found, Tree(found)
  PROVE  \E p : /\ Paths(p, found, Len(found))
                /\ \A c : PathTo(found, c) = p[IndexIn(found, c)]
<1> DEFINE path[i \in DOMAIN found] ==
             IF i = 1 THEN << >> ELSE path[IndexIn(found, found[i].owner)] \o Step(found[i])
<1>1. DOMAIN found = 1 .. Len(found)
  BY LenProperties DEF Tree
<1>2. \E p : p = [i \in DOMAIN found |->
                    IF i = 1 THEN << >> ELSE p[IndexIn(found, found[i].owner)] \o Step(found[i])]
  <2>1. PICK p : Paths(p, found, Len(found))
    BY PathsExist
  <2> QED
    BY <1>1, <2>1 DEF Paths, PathFrom
<1>3. path = [i \in DOMAIN found |->
                IF i = 1 THEN << >> ELSE path[IndexIn(found, found[i].owner)] \o Step(found[i])]
  BY <1>2
<1>4. \A c : PathTo(found, c) = path[IndexIn(found, c)]
  BY DEF PathTo
<1> HIDE DEF path
<1>5. Paths(path, found, Len(found))
  BY <1>1, <1>3 DEF Paths, PathFrom
<1> QED
  BY <1>4, <1>5

(* resolve_references: from the root along the keys.                       *)
LEMMA FollowTyped ==
  ASSUME NEW found, Tree(found), NEW n, NEW k
  PROVE  Follow(found, n, k) \in 0 .. Len(found)
<1>1. DOMAIN found = 1 .. Len(found) /\ Len(found) \in Nat
  BY LenProperties DEF Tree
<1>2. CASE InFull(found, found[n].obj, k)
  <2>1. PICK i \in DOMAIN found :
          found[i] = [obj |-> Entry(found[n].obj, k), owner |-> found[n].obj, key |-> k]
    BY <1>2 DEF InFull
  <2>2. found[i].obj = Entry(found[n].obj, k)
    BY <2>1
  <2>3. IndexIn(found, found[i].obj) = i
    BY <1>1, <2>1, IndexIs
  <2> QED
    BY <1>1, <2>1, <2>2, <2>3 DEF Follow
<1>3. CASE ~InFull(found, found[n].obj, k)
  BY <1>1, <1>3 DEF Follow
<1> QED
  BY <1>2, <1>3

Walks(f, found, path) ==
  f = [n \in 0 .. Len(path) |-> IF n = 0 THEN 1 ELSE Follow(found, f[n - 1], path[n])]

LEMMA WalksExist ==
  ASSUME NEW found, Tree(found), NEW path \in Seq(Int)
  PROVE  \E f : Walks(f, found, path)
<1> DEFINE S == 0 .. Len(found)
           m == Len(path)
           G == [n \in 1 .. m |-> [i \in S |-> Follow(found, i, path[n])]]
<1>1. m \in Nat /\ 1 \in S
  BY LenProperties DEF Tree
<1> HIDE DEF m
<1>2. G \in [1 .. m -> [S -> S]]
  BY FollowTyped
<1> HIDE DEF G, S
<1>3. PICK f : Chains(f, m, S, 1, G)
  BY <1>1, <1>2, ChainExists
<1>4. f \in [0 .. m -> S] /\ f[0] = 1 /\ \A n \in 1 .. m : f[n] = G[n][f[n - 1]]
  BY <1>3 DEF Chains
<1>5. ASSUME NEW n \in 0 .. m
      PROVE  f[n] = IF n = 0 THEN 1 ELSE Follow(found, f[n - 1], path[n])
  <2>1. CASE n = 0
    BY <1>4, <2>1
  <2>2. CASE n # 0
    <3>1. n \in 1 .. m /\ n - 1 \in 0 .. m
      BY <1>1, <2>2
    <3>2. f[n - 1] \in S /\ f[n] = G[n][f[n - 1]]
      BY <1>4, <3>1
    <3>3. G[n][f[n - 1]] = Follow(found, f[n - 1], path[n])
      BY <3>1, <3>2 DEF G
    <3> QED
      BY <2>2, <3>2, <3>3
  <2> QED
    BY <2>1, <2>2
<1>6. f = [n \in 0 .. m |-> IF n = 0 THEN 1 ELSE Follow(found, f[n - 1], path[n])]
  BY <1>4, <1>5
<1> QED
  BY <1>6 DEF Walks, m

LEMMA WalkIs ==
  ASSUME NEW found, Tree(found), NEW path \in Seq(Int)
  PROVE  \E f : Walks(f, found, path) /\ Walk(found, path) = f[Len(path)]
<1> DEFINE at[n \in 0 .. Len(path)] ==
             IF n = 0 THEN 1 ELSE Follow(found, at[n - 1], path[n])
<1>1. \E f : f = [n \in 0 .. Len(path) |-> IF n = 0 THEN 1 ELSE Follow(found, f[n - 1], path[n])]
  <2>1. PICK f : Walks(f, found, path)
    BY WalksExist
  <2> QED
    BY <2>1 DEF Walks
<1>2. at = [n \in 0 .. Len(path) |-> IF n = 0 THEN 1 ELSE Follow(found, at[n - 1], path[n])]
  BY <1>1
<1>3. Walk(found, path) = at[Len(path)]
  BY DEF Walk
<1> HIDE DEF at
<1>4. Walks(at, found, path)
  BY <1>2 DEF Walks
<1> QED
  BY <1>3, <1>4

LEMMA WalkFromRoot ==
  ASSUME NEW found, Tree(found)
  PROVE  Walk(found, << >>) = 1
<1>1. << >> \in Seq(Int) /\ Len(<< >>) = 0
  OBVIOUS
<1>2. PICK f : Walks(f, found, << >>) /\ Walk(found, << >>) = f[0]
  BY <1>1, WalkIs
<1> QED
  BY <1>1, <1>2 DEF Walks

LEMMA WalkOn ==
  ASSUME NEW found, Tree(found), NEW path \in Seq(Int), NEW k \in Int
  PROVE  Walk(found, path \o << k >>) = Follow(found, Walk(found, path), k)
<1>1. PICK long : long = path \o << k >>
  OBVIOUS
<1>2. PICK n : n = Len(path)
  OBVIOUS
<1>3. /\ n \in Nat /\ long \in Seq(Int) /\ Len(long) = n + 1
      /\ long[n + 1] = k /\ \A i \in 1 .. n : long[i] = path[i]
  BY <1>1, <1>2
<1>4. PICK f : Walks(f, found, path) /\ Walk(found, path) = f[n]
  BY <1>2, WalkIs
<1>5. PICK g : Walks(g, found, long) /\ Walk(found, long) = g[n + 1]
  BY <1>3, WalkIs
<1>6. f[0] = 1 /\ \A i \in 1 .. n : f[i] = Follow(found, f[i - 1], path[i])
  <2>1. f = [i \in 0 .. n |-> IF i = 0 THEN 1 ELSE Follow(found, f[i - 1], path[i])]
    BY <1>2, <1>4 DEF Walks
  <2> QED
    BY <1>3, <2>1
<1>7. g[0] = 1 /\ \A i \in 1 .. n + 1 : g[i] = Follow(found, g[i - 1], long[i])
  BY <1>3, <1>5 DEF Walks
<1> DEFINE B == {i \in Nat : i <= n => f[i] = g[i]}
<1>8. f[n] = g[n]
  <2>1. 0 \in B
    BY <1>6, <1>7
  <2>2. ASSUME NEW i \in 1 .. n, i - 1 \in B PROVE i \in B
    <3>1. f[i - 1] = g[i - 1] /\ i \in 1 .. n + 1
      BY <1>3, <2>2
    <3> QED
      BY <1>3, <1>6, <1>7, <3>1
  <2> HIDE DEF B
  <2>3. \A i \in 1 .. n : i - 1 \in B => i \in B
    BY <2>2
  <2>4. n \in B
    <3>1. \A i \in 0 .. n : i \in B
      BY <1>3, <2>1, <2>3, UpTo
    <3> QED
      BY <1>3, <3>1
  <2> QED
    BY <1>3, <2>4 DEF B
<1>9. g[n + 1] = Follow(found, g[n], k)
  BY <1>3, <1>7
<1> QED
  BY <1>1, <1>4, <1>5, <1>8, <1>9

AllPlain(found) == \A i \in 1 .. Len(found) : Plain(found[i].obj)

(* Where no key is a name of meta information, nothing is taken for it.    *)
LEMMA NotSwallowed ==
  ASSUME ArraysTyped, NEW found, NEW c, Plain(c), NEW k \in Range(EntryKeys(c))
  PROVE  ~Swallowed(found, c, k)
<1>1. CASE c \in Maps
  <2>1. c \in Containers
    BY <1>1 DEF Containers, AllMaps
  <2>2. k \in KeysOf(c)
    BY <1>1, <2>1, EntryKeysTyped
  <2>3. \A q \in KeysOf(c) : q \notin MetaKeys
    BY <1>1 DEF Plain
  <2> QED
    BY <2>2, <2>3 DEF Swallowed
<1>2. CASE c \notin Maps
  BY <1>2 DEF Swallowed
<1> QED
  BY <1>1, <1>2

LEMMA LeadsTo ==
  ASSUME ArraysTyped, NEW found, Tree(found), AllPlain(found), NEW p, Paths(p, found, Len(found)),
         NEW i \in 1 .. Len(found)
  PROVE  Walk(found, p[i]) = i
<1> DEFINE Leads(j) == p[j] \in Seq(Int) /\ Walk(found, p[j]) = j
           F == {j \in 1 .. Len(found) : ~Leads(j)}
<1> SUFFICES F = {}
  OBVIOUS
<1> SUFFICES ASSUME F # {} PROVE FALSE
  OBVIOUS
<1>1. F \in SUBSET Nat
  OBVIOUS
<1>2. PICK n \in F : \A j \in F : n <= j
  BY <1>1, LeastIndex
<1>3. n \in 1 .. Len(found) /\ ~Leads(n) /\ Len(found) \in Nat
  BY <1>2 DEF Tree
<1>4. p[n] = PathFrom(p, found, n)
  BY <1>3 DEF Paths
<1>5. CASE n = 1
  <2>1. p[n] = << >>
    BY <1>4, <1>5 DEF PathFrom
  <2> QED
    BY <1>3, <1>5, <2>1, WalkFromRoot
<1>6. CASE n # 1
  <2>1. n \in 2 .. Len(found)
    BY <1>3, <1>6
  <2>2. PICK j \in 1 .. n - 1 : /\ j \in 1 .. Len(found) /\ found[j].obj = found[n].owner
                                /\ IndexIn(found, found[n].owner) = j
    BY <2>1, HolderIs
  <2>3. Leads(j)
    <3>1. ~(n <= j)
      BY <1>3, <2>2
    <3> QED
      BY <1>2, <2>2, <3>1
  <2>4. PICK c, k, x : c = found[n].owner /\ k = found[n].key /\ x = found[n].obj
    OBVIOUS
  <2>5. c \in Containers /\ k \in Range(EntryKeys(c)) /\ Entry(c, k) = x
    BY <2>1, <2>4 DEF Tree, Hung
  <2>6. k \in Int
    BY <2>5, EntryKeysTyped, ElementOfSeq DEF Range
  <2>7. Step(found[n]) = << k >>
    <3>1. CASE c \in Maps
      <4>1. k \in KeysOf(c)
        BY <2>5, <3>1, EntryKeysTyped
      <4>2. Plain(c)
        BY <2>2, <2>4 DEF AllPlain
      <4> QED
        BY <2>4, <3>1, <4>1, <4>2 DEF Plain, Step
    <3>2. CASE c \notin Maps
      BY <2>4, <3>2 DEF Step
    <3> QED
      BY <3>1, <3>2
  <2>8. p[n] = p[j] \o << k >>
    BY <1>4, <1>6, <2>2, <2>7 DEF PathFrom
  <2>9. PICK q : q = p[j]
    OBVIOUS
  <2>10. q \in Seq(Int) /\ Walk(found, q) = j
    BY <2>3, <2>9
  <2>11. q \o << k >> \in Seq(Int) /\ Walk(found, q \o << k >>) = Follow(found, j, k)
    BY <2>6, <2>10, WalkOn
  <2>12. InFull(found, c, k)
    <3>1. found[n] \in Records
      BY <1>3, ElementOfSeq DEF Tree
    <3>2. found[n] = [obj |-> Entry(c, k), owner |-> c, key |-> k]
      BY <2>4, <2>5, <3>1 DEF Records
    <3>3. n \in DOMAIN found
      BY <1>3, LenProperties DEF Tree
    <3> QED
      BY <3>2, <3>3 DEF InFull
  <2>13. IndexIn(found, x) = n
    BY <1>3, <2>4, IndexIs
  <2>14. Follow(found, j, k) = n
    <3>1. Plain(c)
      BY <2>2, <2>4 DEF AllPlain
    <3>2. ~Swallowed(found, c, k)
      BY <2>5, <3>1, NotSwallowed
    <3>3. found[j].obj = c /\ j # 0
      BY <2>2, <2>4
    <3> QED
      BY <2>5, <2>12, <2>13, <3>2, <3>3 DEF Follow
  <2>15. Leads(n)
    BY <2>8, <2>9, <2>11, <2>14
  <2> QED
    BY <1>3, <2>15
<1> QED
  BY <1>5, <1>6

(* What an item is to be read back as, where its reference is not cut.     *)
Kept(found, c, k) ==
  LET x == Entry(c, k) IN
  /\ x \notin Containers => ReadBack(found, c, k) = x
  /\ x \in Containers /\ (InFull(found, c, k) \/ Length(PathTo(found, x)) <= MaxPath)
       => ReadBack(found, c, k) = Copy(IndexIn(found, x))

LEMMA ReadBackIs ==
  ASSUME ArraysTyped, NEW found, Tree(found), AllPlain(found),
         NEW c, Plain(c), NEW k \in Range(EntryKeys(c)), AllMet(found, c)
  PROVE  Kept(found, c, k)
<1> DEFINE x == Entry(c, k)
<1>1. ~Swallowed(found, c, k)
  BY NotSwallowed
<1>2. ASSUME x \notin Containers PROVE ReadBack(found, c, k) = x
  BY <1>1, <1>2 DEF ReadBack
<1>3. ASSUME x \in Containers, InFull(found, c, k) PROVE ReadBack(found, c, k) = Copy(IndexIn(found, x))
  BY <1>1, <1>3 DEF ReadBack
<1>4. ASSUME x \in Containers, ~InFull(found, c, k), Length(PathTo(found, x)) <= MaxPath
      PROVE  ReadBack(found, c, k) = Copy(IndexIn(found, x))
  <2>1. PICK i \in 1 .. Len(found) : found[i].obj = x
    BY <1>4, MetIs DEF AllMet
  <2>2. IndexIn(found, x) = i
    BY <2>1, IndexIs
  <2>3. PICK p : Paths(p, found, Len(found)) /\ PathTo(found, x) = p[i]
    BY <2>2, PathToIs
  <2>4. Walk(found, PathTo(found, x)) = i
    BY <2>3, LeadsTo
  <2>5. Cut(PathTo(found, x)) = PathTo(found, x)
    BY <1>4 DEF Cut
  <2>6. i # 0
    OBVIOUS
  <2> QED
    BY <1>1, <1>4, <2>2, <2>4, <2>5, <2>6 DEF ReadBack
<1> QED
  BY <1>2, <1>3, <1>4 DEF Kept

LEMMA JsonKeeps ==
  ASSUME ArraysTyped PROVE JsonKeepsGraph
<1> SUFFICES ASSUME NEW root \in Containers, NEW found, found = Written(root),
                    \A i \in DOMAIN found : Plain(found[i].obj),
                    NEW i \in DOMAIN found, NEW k \in Range(EntryKeys(found[i].obj))
             PROVE  Kept(found, found[i].obj, k)
  BY DEF JsonKeepsGraph, Kept
<1>1. Tree(found) /\ \A j \in 1 .. Len(found) : AllMet(found, found[j].obj)
  BY WrittenIsClosed
<1>2. DOMAIN found = 1 .. Len(found)
  BY <1>1, LenProperties DEF Tree
<1>3. AllPlain(found) /\ AllMet(found, found[i].obj) /\ Plain(found[i].obj)
  BY <1>1, <1>2 DEF AllPlain
<1>4. PICK c : c = found[i].obj
  OBVIOUS
<1> QED
  BY <1>1, <1>3, <1>4, ReadBackIs

(* Whatever graph scripts build is the same after it was written to JSON   *)
(* and read back, if no key of a JMap is empty, is read as more than one   *)
(* key or is a name of meta information, and except for references whose   *)
(* path is cut: whatever the containers, the keys, how long they are and   *)
(* the bounds.                                                             *)
THEOREM JsonIsFaithful == Spec => []JsonKeepsGraph
<1>1. ArraysTyped => JsonKeepsGraph
  BY JsonKeeps
<1> QED
  BY <1>1, ArraysTypedInvariant, PTL
=============================================================================
