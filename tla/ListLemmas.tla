------------------------------ MODULE ListLemmas ------------------------------
(***************************************************************************)
(* What the operations on lists that the models use (append, insert,       *)
(* remove the first element or any element, move a prefix to another list) *)
(* do to the elements of a list and to their order.  The code's list_t and *)
(* fixed_queue_t are sequences in the models.                              *)
(***************************************************************************)
EXTENDS Integers, Sequences, SequencesExt, SequenceTheorems, TLAPS

\* No element is in the list twice.
NoRepeat(s) == \A i, j \in DOMAIN s : s[i] = s[j] => i = j

\* R is the set of the elements at the positions m..n of s.
ElementsAt(R, s, m, n) == \A y : y \in R <=> \E i \in m..n : s[i] = y

\* The positions 1..n of s hold different elements.
Distinct(s, n) == \A i, j \in 1..n : s[i] = s[j] => i = j

\* The first l elements of r are those of a, the next k elements those of b.
Spliced(r, a, b, l, k) ==
  /\ \A i \in 1..l : i \in 1..(l + k) /\ r[i] = a[i]
  /\ \A i \in 1..k : l + i \in 1..(l + k) /\ r[l + i] = b[i]
  /\ \A i \in 1..(l + k) : \/ i \in 1..l /\ r[i] = a[i]
                           \/ i - l \in 1..k /\ r[i] = b[i - l] /\ i > l

\* The same elements under other positions.  (These facts about functions are
\* stated without sequences because the provers find them more easily so.)
LEMMA Reindexed ==
  ASSUME NEW p, NEW s, NEW m \in Int, NEW n \in Int, NEW l \in Int, NEW P,
         ElementsAt(P, p, 1, l),
         \A i \in m..n : i - m + 1 \in 1..l /\ p[i - m + 1] = s[i],
         \A i \in 1..l : m + i - 1 \in m..n /\ p[i] = s[m + i - 1]
  PROVE  ElementsAt(P, s, m, n)
  BY DEF ElementsAt

LEMMA Joined ==
  ASSUME NEW r, NEW a, NEW b, NEW l \in Nat, NEW k \in Nat, NEW R, NEW A, NEW B,
         ElementsAt(R, r, 1, l + k), ElementsAt(A, a, 1, l), ElementsAt(B, b, 1, k),
         Spliced(r, a, b, l, k)
  PROVE  R = A \cup B
<1>1. \A y : y \in R <=> y \in A \/ y \in B
  BY DEF ElementsAt, Spliced
<1> QED
  BY <1>1

LEMMA Splicing ==
  ASSUME NEW r, NEW a, NEW b, NEW l \in Nat, NEW k \in Nat,
         \A i \in 1..(l + k) : r[i] = IF i <= l THEN a[i] ELSE b[i - l]
  PROVE  Spliced(r, a, b, l, k)
<1>1. ASSUME NEW i \in 1..k PROVE l + i \in 1..(l + k) /\ r[l + i] = b[i]
  <2>1. l + i \in 1..(l + k) /\ ~(l + i <= l) /\ (l + i) - l = i
    OBVIOUS
  <2> QED
    BY <2>1
<1>2. ASSUME NEW i \in 1..(l + k)
      PROVE  \/ i \in 1..l /\ r[i] = a[i]
             \/ i - l \in 1..k /\ r[i] = b[i - l] /\ i > l
  <2>1. CASE i <= l
    BY <2>1
  <2>2. CASE ~(i <= l)
    <3>1. i - l \in 1..k /\ i > l
      BY <2>2
    <3> QED
      BY <2>2, <3>1
  <2> QED
    BY <2>1, <2>2
<1>3. ASSUME NEW i \in 1..l PROVE i \in 1..(l + k) /\ r[i] = a[i]
  OBVIOUS
<1> QED
  BY <1>1, <1>2, <1>3 DEF Spliced

LEMMA JoinedInjective ==
  ASSUME NEW r, NEW a, NEW b, NEW l \in Nat, NEW k \in Nat,
         Distinct(a, l), Distinct(b, k), Spliced(r, a, b, l, k),
         \A i \in 1..l, j \in 1..k : a[i] # b[j]
  PROVE  Distinct(r, l + k)
<1> SUFFICES ASSUME NEW i \in 1..(l + k), NEW j \in 1..(l + k), r[i] = r[j]
             PROVE  i = j
  BY DEF Distinct
<1>1. CASE i - l \in 1..k /\ r[i] = b[i - l] /\ j - l \in 1..k /\ r[j] = b[j - l]
  <2>1. i - l = j - l
    BY <1>1 DEF Distinct
  <2> QED
    BY <2>1
<1> QED
  BY <1>1 DEF Distinct, Spliced

LEMMA SeparateParts ==
  ASSUME NEW s, NEW k \in Int, NEW m \in Int, NEW n \in Int, NEW A, NEW B,
         k < m, 0 <= k, m <= n + 1,
         \A i, j \in 1..n : s[i] = s[j] => i = j,
         \A y : y \in A <=> \E i \in 1..k : s[i] = y,
         \A y : y \in B <=> \E i \in m..n : s[i] = y
  PROVE  /\ A \cap B = {}
         /\ \A i \in 1..n : k < i /\ i < m => s[i] \notin A /\ s[i] \notin B
<1>1. \A i \in 1..k, j \in m..n : i \in 1..n /\ j \in 1..n /\ i # j
  OBVIOUS
<1>2. \A y : ~(y \in A /\ y \in B)
  BY <1>1
<1>3. ASSUME NEW i \in 1..n, k < i, i < m PROVE s[i] \notin A /\ s[i] \notin B
  <2>1. \A j \in 1..k : j \in 1..n /\ j # i
    BY <1>3
  <2>2. \A j \in m..n : j \in 1..n /\ j # i
    BY <1>3
  <2> QED
    BY <2>1, <2>2
<1> QED
  BY <1>2, <1>3

LEMMA WholeFromParts ==
  ASSUME NEW s, NEW k \in Int, NEW n \in Int, NEW R, NEW A, NEW B, 0 <= k, k <= n,
         \A y : y \in R <=> \E i \in 1..n : s[i] = y,
         \A y : y \in A <=> \E i \in 1..k : s[i] = y,
         \A y : y \in B <=> \E i \in (k + 1)..n : s[i] = y
  PROVE  R = A \cup B
<1>1. /\ \A i \in 1..n : i \in 1..k \/ i \in (k + 1)..n
      /\ \A i \in 1..k : i \in 1..n
      /\ \A i \in (k + 1)..n : i \in 1..n
  OBVIOUS
<1>2. \A y : y \in R <=> y \in A \/ y \in B
  BY <1>1
<1> QED
  BY <1>2

LEMMA WithoutOne ==
  ASSUME NEW s, NEW k \in Int, NEW n \in Int, NEW R, NEW A, NEW B, 1 <= k, k <= n,
         \A y : y \in R <=> \E i \in 1..n : s[i] = y,
         \A y : y \in A <=> \E i \in 1..(k - 1) : s[i] = y,
         \A y : y \in B <=> \E i \in (k + 1)..n : s[i] = y
  PROVE  R = (A \cup B) \cup {s[k]}
<1>1. /\ \A i \in 1..n : i \in 1..(k - 1) \/ i = k \/ i \in (k + 1)..n
      /\ \A i \in 1..(k - 1) : i \in 1..n
      /\ \A i \in (k + 1)..n : i \in 1..n
      /\ k \in 1..n
  OBVIOUS
<1>2. \A y : y \in R <=> y \in A \/ y \in B \/ y = s[k]
  BY <1>1
<1> QED
  BY <1>2

\* The positions and elements of a list.
Listed(S, s) ==
  /\ Len(s) \in Nat /\ DOMAIN s = 1..Len(s)
  /\ \A i \in 1..Len(s) : s[i] \in S
  /\ \A x : x \in Range(s) <=> \E i \in 1..Len(s) : s[i] = x
  /\ Range(s) \subseteq S
  /\ s = <<>> <=> Len(s) = 0
  /\ s = <<>> <=> Range(s) = {}
  /\ NoRepeat(s) <=> \A i, j \in 1..Len(s) : s[i] = s[j] => i = j

\* The elements of a sequence are the ones at its positions.
LEMMA ElementsOf ==
  ASSUME NEW S, NEW s \in Seq(S)
  PROVE  Listed(S, s)
<1>1. /\ Len(s) \in Nat /\ DOMAIN s = 1..Len(s) /\ \A i \in 1..Len(s) : s[i] \in S
      /\ s = <<>> <=> Len(s) = 0
  OBVIOUS
<1>2. \A x : x \in Range(s) <=> \E i \in 1..Len(s) : s[i] = x
  BY <1>1 DEF Range
<1>3. Range(s) \subseteq S
  BY <1>1, <1>2
<1>4. Len(s) = 0 <=> Range(s) = {}
  <2>1. CASE Len(s) = 0
    <3>1. \A x : x \notin Range(s)
      BY <1>2, <2>1
    <3> QED
      BY <2>1, <3>1
  <2>2. CASE Len(s) # 0
    <3>1. 1 \in 1..Len(s)
      BY <1>1, <2>2
    <3>2. s[1] \in Range(s)
      BY <1>2, <3>1
    <3> QED
      BY <2>2, <3>2
  <2> QED
    BY <2>1, <2>2
<1> QED
  BY <1>1, <1>2, <1>3, <1>4, Zenon DEF Listed, NoRepeat

\* Appending adds one element, at the end.
AppendedTo(S, r, s, x) ==
  /\ r \in Seq(S) /\ Len(r) = Len(s) + 1 /\ r # <<>>
  /\ \A i \in 1..Len(s) : r[i] = s[i]
  /\ r[Len(s) + 1] = x
  /\ Range(r) = Range(s) \cup {x}
  /\ NoRepeat(s) /\ x \notin Range(s) => NoRepeat(r)

LEMMA Appended ==
  ASSUME NEW S, NEW s \in Seq(S), NEW x \in S
  PROVE  AppendedTo(S, Append(s, x), s, x)
<1> DEFINE r == Append(s, x)
<1>1. /\ r \in Seq(S) /\ Len(r) = Len(s) + 1 /\ Len(s) \in Nat /\ r # <<>>
      /\ \A i \in 1..Len(s) : r[i] = s[i]
      /\ r[Len(s) + 1] = x
  OBVIOUS
<1> HIDE DEF r
<1>2. Listed(S, r) /\ Listed(S, s)
  BY <1>1, ElementsOf
<1>3. \A y : y \in Range(r) <=> y \in Range(s) \/ y = x
  BY <1>1, <1>2 DEF Listed
<1>4. Range(r) = Range(s) \cup {x}
  BY <1>3
<1>5. NoRepeat(s) /\ x \notin Range(s) => NoRepeat(r)
  BY <1>1, <1>2 DEF NoRepeat, Listed
<1> QED
  BY <1>1, <1>4, <1>5 DEF r, AppendedTo

\* Taking the head away takes one element away.
TailOf(S, r, s) ==
  /\ r \in Seq(S) /\ Len(r) = Len(s) - 1 /\ Len(s) \in Nat \ {0}
  /\ Head(s) \in S /\ Head(s) = s[1]
  /\ \A i \in 1..Len(r) : i + 1 \in 1..Len(s) /\ r[i] = s[i + 1]
  /\ \A i \in 1..Len(s) : i = 1 \/ (i - 1 \in 1..Len(r) /\ r[i - 1] = s[i])
  /\ Range(s) = Range(r) \cup {Head(s)}
  /\ NoRepeat(s) => NoRepeat(r) /\ Head(s) \notin Range(r)

LEMMA Tailed ==
  ASSUME NEW S, NEW s \in Seq(S), s # <<>>
  PROVE  TailOf(S, Tail(s), s)
<1> DEFINE r == Tail(s)
<1>1. /\ r \in Seq(S) /\ Len(r) = Len(s) - 1 /\ Len(s) \in Nat \ {0}
      /\ Head(s) \in S /\ Head(s) = s[1]
      /\ \A i \in 1..(Len(s) - 1) : r[i] = s[i + 1]
  OBVIOUS
<1> HIDE DEF r
<1>2. Listed(S, r) /\ Listed(S, s)
  BY <1>1, ElementsOf
<1>3. \A i \in 1..Len(s) : i = 1 \/ (i - 1 \in 1..Len(r) /\ r[i - 1] = s[i])
  BY <1>1
<1>4. \A i \in 1..Len(r) : i + 1 \in 1..Len(s) /\ i + 1 # 1 /\ r[i] = s[i + 1]
  BY <1>1
<1>5. Range(s) = Range(r) \cup {Head(s)}
  <2>1. \A y \in Range(r) : y \in Range(s)
    BY <1>2, <1>4 DEF Listed
  <2>2. Head(s) \in Range(s)
    BY <1>1, <1>2 DEF Listed
  <2>3. \A y \in Range(s) : y \in Range(r) \/ y = Head(s)
    BY <1>1, <1>2, <1>3 DEF Listed
  <2> QED
    BY <2>1, <2>2, <2>3
<1>6. ASSUME NoRepeat(s) PROVE NoRepeat(r) /\ Head(s) \notin Range(r)
  <2>1. ASSUME NEW i \in 1..Len(r), NEW j \in 1..Len(r), r[i] = r[j] PROVE i = j
    <3>1. i + 1 = j + 1
      BY <1>2, <1>4, <1>6, <2>1 DEF Listed
    <3> QED
      BY <1>1, <3>1
  <2>2. ASSUME NEW i \in 1..Len(r) PROVE r[i] # s[1]
    BY <1>1, <1>2, <1>4, <1>6 DEF Listed
  <2> QED
    BY <1>1, <1>2, <2>1, <2>2 DEF Listed
<1> QED
  BY <1>1, <1>3, <1>4, <1>5, <1>6 DEF r, TailOf

\* Concatenation keeps the elements of both and their order.
ConcatOf(S, r, a, b) ==
  /\ r \in Seq(S) /\ Len(r) = Len(a) + Len(b) /\ Len(a) \in Nat /\ Len(b) \in Nat
  /\ \A i \in 1..Len(r) : \/ i \in 1..Len(a) /\ r[i] = a[i]
                          \/ i - Len(a) \in 1..Len(b) /\ r[i] = b[i - Len(a)] /\ i > Len(a)
  /\ Range(r) = Range(a) \cup Range(b)
  /\ NoRepeat(a) /\ NoRepeat(b) /\ Range(a) \cap Range(b) = {} => NoRepeat(r)

LEMMA Concatenated ==
  ASSUME NEW S, NEW a \in Seq(S), NEW b \in Seq(S)
  PROVE  ConcatOf(S, a \o b, a, b)
<1> DEFINE r == a \o b
<1>1. /\ r \in Seq(S) /\ Len(r) = Len(a) + Len(b)
      /\ \A i \in 1..(Len(a) + Len(b)) : r[i] = IF i <= Len(a) THEN a[i] ELSE b[i - Len(a)]
  BY ConcatProperties, Zenon
<1> HIDE DEF r
<1>2. Listed(S, r) /\ Listed(S, a) /\ Listed(S, b)
  BY <1>1, ElementsOf
<1>3. Len(a) \in Nat /\ Len(b) \in Nat
  BY <1>2 DEF Listed
<1>4. Spliced(r, a, b, Len(a), Len(b))
  BY <1>1, <1>3, Splicing, Zenon
<1>5. /\ ElementsAt(Range(r), r, 1, Len(a) + Len(b))
      /\ ElementsAt(Range(a), a, 1, Len(a)) /\ ElementsAt(Range(b), b, 1, Len(b))
  BY <1>1, <1>2, Zenon DEF Listed, ElementsAt
<1>6. Range(r) = Range(a) \cup Range(b)
  BY <1>3, <1>4, <1>5, Joined, Zenon
<1>7. ASSUME NoRepeat(a), NoRepeat(b), Range(a) \cap Range(b) = {}
      PROVE  NoRepeat(r)
  <2>1. \A i \in 1..Len(a), j \in 1..Len(b) : a[i] # b[j]
    BY <1>5, <1>7 DEF ElementsAt
  <2>2. Distinct(a, Len(a)) /\ Distinct(b, Len(b))
    BY <1>2, <1>7, Zenon DEF Listed, Distinct
  <2>3. Distinct(r, Len(a) + Len(b))
    BY <1>3, <1>4, <2>1, <2>2, JoinedInjective, Zenon
  <2> QED
    BY <1>1, <1>2, <2>3, Zenon DEF Listed, Distinct
<1> QED
  BY <1>1, <1>3, <1>4, <1>6, <1>7 DEF r, ConcatOf, Spliced

\* A piece of a list.
PieceOf(S, p, s, m, n) ==
  /\ p \in Seq(S) /\ Len(p) = n - m + 1
  /\ \A i \in 1..Len(p) : m + i - 1 \in m..n /\ p[i] = s[m + i - 1]
  /\ \A y : y \in Range(p) <=> \E i \in m..n : s[i] = y
  /\ NoRepeat(s) => NoRepeat(p)

LEMMA Piece ==
  ASSUME NEW S, NEW s \in Seq(S), NEW m \in 1..(Len(s) + 1), NEW n \in 0..Len(s), m <= n + 1
  PROVE  PieceOf(S, SubSeq(s, m, n), s, m, n)
<1> DEFINE p == SubSeq(s, m, n)
<1>1. Listed(S, s)
  BY ElementsOf
<1>2. \A i \in m..n : i \in 1..Len(s) /\ s[i] \in S
  BY <1>1 DEF Listed
<1>3. /\ p \in Seq(S) /\ Len(p) = IF m <= n THEN n - m + 1 ELSE 0
      /\ \A i \in 1..(n - m + 1) : p[i] = s[m + i - 1]
  BY <1>1, <1>2, SubSeqProperties DEF Listed
<1> HIDE DEF p
<1>4. Listed(S, p)
  BY <1>3, ElementsOf
<1>5. Len(p) = n - m + 1 /\ m \in Int /\ n \in Int /\ Len(p) \in Int
  BY <1>1, <1>3 DEF Listed
<1>6. \A i \in m..n : i - m + 1 \in 1..Len(p) /\ p[i - m + 1] = s[i]
  BY <1>3, <1>5
<1>7. \A i \in 1..Len(p) : m + i - 1 \in m..n /\ p[i] = s[m + i - 1]
  BY <1>3, <1>5
<1>8. ElementsAt(Range(p), p, 1, Len(p))
  BY <1>4, Zenon DEF Listed, ElementsAt
<1>9. ElementsAt(Range(p), s, m, n)
  BY <1>5, <1>6, <1>7, <1>8, Reindexed, Zenon
<1>10. ASSUME NoRepeat(s), NEW i \in 1..Len(p), NEW j \in 1..Len(p), p[i] = p[j]
       PROVE  i = j
  <2>1. m + i - 1 \in 1..Len(s) /\ m + j - 1 \in 1..Len(s) /\ s[m + i - 1] = s[m + j - 1]
    BY <1>2, <1>7, <1>10
  <2>2. \A k, l \in 1..Len(s) : s[k] = s[l] => k = l
    BY <1>1, <1>10, Zenon DEF Listed
  <2>3. m + i - 1 = m + j - 1
    BY <2>1, <2>2, Zenon
  <2> QED
    BY <1>5, <2>3
<1>11. NoRepeat(s) => NoRepeat(p)
  BY <1>4, <1>10, Zenon DEF Listed
<1> QED
  BY <1>3, <1>5, <1>7, <1>9, <1>11 DEF p, PieceOf, ElementsAt

\* Removing a position takes its element away and keeps the order.
RemovedFrom(S, r, s, i) ==
  /\ r \in Seq(S) /\ Len(r) = Len(s) - 1
  /\ \A j \in 1..Len(r) : \/ j < i /\ r[j] = s[j]
                          \/ j >= i /\ r[j] = s[j + 1]
  /\ \A j \in 1..Len(s) : \/ j < i /\ j \in 1..Len(r) /\ r[j] = s[j]
                          \/ j > i /\ j - 1 \in 1..Len(r) /\ r[j - 1] = s[j]
                          \/ j = i
  /\ Range(s) = Range(r) \cup {s[i]}
  /\ NoRepeat(s) => NoRepeat(r) /\ s[i] \notin Range(r)

LEMMA Removed ==
  ASSUME NEW S, NEW s \in Seq(S), NEW i \in 1..Len(s)
  PROVE  RemovedFrom(S, RemoveAt(s, i), s, i)
<1> DEFINE a == SubSeq(s, 1, i - 1)
           b == SubSeq(s, i + 1, Len(s))
           r == a \o b
<1>1. RemoveAt(s, i) = r
  BY DEF RemoveAt
<1>2. Listed(S, s)
  BY ElementsOf
<1>3. i \in Int /\ 1 <= i /\ i <= Len(s) /\ Len(s) \in Nat
  BY <1>2 DEF Listed
<1>4. PieceOf(S, a, s, 1, i - 1) /\ PieceOf(S, b, s, i + 1, Len(s))
  <2>1. 1 \in 1..(Len(s) + 1) /\ i - 1 \in 0..Len(s) /\ 1 <= (i - 1) + 1
    BY <1>3
  <2>2. i + 1 \in 1..(Len(s) + 1) /\ Len(s) \in 0..Len(s) /\ i + 1 <= Len(s) + 1
    BY <1>3
  <2>3. PieceOf(S, a, s, 1, i - 1)
    BY <2>1, Piece
  <2>4. PieceOf(S, b, s, i + 1, Len(s))
    BY <2>2, Piece
  <2> QED
    BY <2>3, <2>4
<1> HIDE DEF a, b
<1>5. ConcatOf(S, r, a, b)
  BY <1>4, Concatenated DEF PieceOf
<1> HIDE DEF r
<1>6. /\ r \in Seq(S) /\ Len(a) = i - 1 /\ Len(b) = Len(s) - i /\ Len(r) = Len(s) - 1
  BY <1>3, <1>4, <1>5 DEF PieceOf, ConcatOf
<1>7. ASSUME NEW j \in 1..Len(r)
      PROVE  \/ j < i /\ r[j] = s[j]
             \/ j >= i /\ r[j] = s[j + 1]
  <2>1. CASE j \in 1..Len(a) /\ r[j] = a[j]
    <3>1. 1 + j - 1 = j /\ j < i
      BY <1>3, <1>6, <2>1
    <3>2. a[j] = s[1 + j - 1]
      BY <1>4, <2>1, Zenon DEF PieceOf
    <3> QED
      BY <2>1, <3>1, <3>2
  <2>2. CASE j - Len(a) \in 1..Len(b) /\ r[j] = b[j - Len(a)] /\ j > Len(a)
    <3>1. (i + 1) + (j - Len(a)) - 1 = j + 1 /\ j >= i
      BY <1>3, <1>6, <2>2
    <3>2. b[j - Len(a)] = s[(i + 1) + (j - Len(a)) - 1]
      BY <1>4, <2>2, Zenon DEF PieceOf
    <3> QED
      BY <2>2, <3>1, <3>2
  <2> QED
    BY <1>5, <2>1, <2>2, Zenon DEF ConcatOf
<1>8. /\ \A y : y \in Range(s) <=> \E j \in 1..Len(s) : s[j] = y
      /\ \A y : y \in Range(a) <=> \E j \in 1..(i - 1) : s[j] = y
      /\ \A y : y \in Range(b) <=> \E j \in (i + 1)..Len(s) : s[j] = y
      /\ Range(r) = Range(a) \cup Range(b)
  BY <1>2, <1>4, <1>5, Zenon DEF PieceOf, Listed, ConcatOf
<1>9. Range(s) = (Range(a) \cup Range(b)) \cup {s[i]}
  BY <1>3, <1>8, WithoutOne
<1>10. ASSUME NoRepeat(s) PROVE NoRepeat(r) /\ s[i] \notin Range(r)
  <2>1. \A k, l \in 1..Len(s) : s[k] = s[l] => k = l
    BY <1>2, <1>10, Zenon DEF Listed
  <2>2. i - 1 \in Int /\ i + 1 \in Int /\ i - 1 < i + 1 /\ 0 <= i - 1 /\ i + 1 <= Len(s) + 1
        /\ i - 1 < i /\ i < i + 1
    BY <1>3
  <2>3. /\ Range(a) \cap Range(b) = {}
        /\ \A k \in 1..Len(s) :
             i - 1 < k /\ k < i + 1 => s[k] \notin Range(a) /\ s[k] \notin Range(b)
    BY <1>3, <1>8, <2>1, <2>2, SeparateParts
  <2>4. s[i] \notin Range(a) /\ s[i] \notin Range(b)
    BY <1>3, <2>2, <2>3
  <2>5. NoRepeat(r)
    BY <1>4, <1>5, <1>10, <2>3, Zenon DEF PieceOf, ConcatOf
  <2> QED
    BY <1>8, <2>4, <2>5
<1>11. ASSUME NEW j \in 1..Len(s)
       PROVE  \/ j < i /\ j \in 1..Len(r) /\ r[j] = s[j]
              \/ j > i /\ j - 1 \in 1..Len(r) /\ r[j - 1] = s[j]
              \/ j = i
  <2>1. CASE j < i
    <3>1. j \in 1..Len(r) /\ ~(j >= i)
      BY <1>3, <1>6, <2>1
    <3> QED
      BY <1>7, <2>1, <3>1
  <2>2. CASE j > i
    <3>1. j - 1 \in 1..Len(r) /\ ~(j - 1 < i) /\ (j - 1) + 1 = j
      BY <1>3, <1>6, <2>2
    <3>2. r[j - 1] = s[(j - 1) + 1]
      BY <1>7, <3>1, Zenon
    <3> QED
      BY <2>2, <3>1, <3>2
  <2>3. j < i \/ j > i \/ j = i
    BY <1>3
  <2> QED
    BY <2>1, <2>2, <2>3
<1> QED
  BY <1>1, <1>6, <1>7, <1>8, <1>9, <1>10, <1>11 DEF RemovedFrom

\* The first n elements of s are moved to the end of t: u and v are the lists
\* afterwards.
MovedFrom(S, u, v, t, s, n) ==
  /\ u \in Seq(S) /\ Len(u) = Len(t) + n
  /\ v \in Seq(S) /\ Len(v) = Len(s) - n
  /\ \A i \in 1..Len(u) : \/ i \in 1..Len(t) /\ u[i] = t[i]
                          \/ i - Len(t) \in 1..n /\ u[i] = s[i - Len(t)] /\ i > Len(t)
  /\ \A i \in 1..Len(v) : n + i \in (n + 1)..Len(s) /\ v[i] = s[n + i]
  /\ \A y : y \in Range(u) <=> y \in Range(t) \/ \E i \in 1..n : s[i] = y
  /\ \A y : y \in Range(v) <=> \E i \in (n + 1)..Len(s) : s[i] = y
  /\ Range(u) \cup Range(v) = Range(s) \cup Range(t)
  /\ NoRepeat(s) /\ NoRepeat(t) /\ Range(s) \cap Range(t) = {} =>
       NoRepeat(u) /\ NoRepeat(v) /\ Range(u) \cap Range(v) = {}

LEMMA Moved ==
  ASSUME NEW S, NEW s \in Seq(S), NEW t \in Seq(S), NEW n \in 0..Len(s)
  PROVE  MovedFrom(S, t \o SubSeq(s, 1, n), SubSeq(s, n + 1, Len(s)), t, s, n)
<1> DEFINE a == SubSeq(s, 1, n)
           v == SubSeq(s, n + 1, Len(s))
           u == t \o a
<1>1. Listed(S, s) /\ Listed(S, t)
  BY ElementsOf
<1>2. Len(s) \in Nat /\ Len(t) \in Nat /\ n \in Int /\ 0 <= n /\ n <= Len(s)
  BY <1>1 DEF Listed
<1>3. PieceOf(S, a, s, 1, n) /\ PieceOf(S, v, s, n + 1, Len(s))
  <2>1. 1 \in 1..(Len(s) + 1) /\ 1 <= n + 1
    BY <1>2
  <2>2. n + 1 \in 1..(Len(s) + 1) /\ Len(s) \in 0..Len(s) /\ n + 1 <= Len(s) + 1
    BY <1>2
  <2>3. PieceOf(S, a, s, 1, n)
    BY <2>1, Piece
  <2>4. PieceOf(S, v, s, n + 1, Len(s))
    BY <2>2, Piece
  <2> QED
    BY <2>3, <2>4
<1> HIDE DEF a, v
<1>4. ConcatOf(S, u, t, a)
  BY <1>3, Concatenated DEF PieceOf
<1> HIDE DEF u
<1>5. u \in Seq(S) /\ v \in Seq(S) /\ Len(a) = n /\ Len(u) = Len(t) + n /\ Len(v) = Len(s) - n
  BY <1>2, <1>3, <1>4 DEF PieceOf, ConcatOf
<1>6. \A i \in 1..n : a[i] = s[i]
  <2>1. \A i \in 1..n : 1 + i - 1 = i /\ a[i] = s[1 + i - 1]
    BY <1>2, <1>3, <1>5 DEF PieceOf
  <2> QED
    BY <2>1
<1>7. \A i \in 1..Len(v) : n + i \in (n + 1)..Len(s) /\ v[i] = s[n + i]
  <2>1. \A i \in 1..Len(v) : (n + 1) + i - 1 = n + i
    BY <1>2, <1>5
  <2>2. \A i \in 1..Len(v) : (n + 1) + i - 1 \in (n + 1)..Len(s) /\ v[i] = s[(n + 1) + i - 1]
    BY <1>3, Zenon DEF PieceOf
  <2> QED
    BY <2>1, <2>2
<1>8. \A i \in 1..Len(u) : \/ i \in 1..Len(t) /\ u[i] = t[i]
                           \/ i - Len(t) \in 1..n /\ u[i] = s[i - Len(t)] /\ i > Len(t)
  BY <1>4, <1>5, <1>6 DEF ConcatOf
<1>9. /\ \A y : y \in Range(s) <=> \E i \in 1..Len(s) : s[i] = y
      /\ \A y : y \in Range(a) <=> \E i \in 1..n : s[i] = y
      /\ \A y : y \in Range(v) <=> \E i \in (n + 1)..Len(s) : s[i] = y
      /\ Range(u) = Range(t) \cup Range(a)
  BY <1>1, <1>3, <1>4, Zenon DEF PieceOf, Listed, ConcatOf
<1>10. Range(s) = Range(a) \cup Range(v)
  BY <1>2, <1>9, WholeFromParts
<1>11. ASSUME NoRepeat(s), NoRepeat(t), Range(s) \cap Range(t) = {}
       PROVE  NoRepeat(u) /\ NoRepeat(v) /\ Range(u) \cap Range(v) = {}
  <2>1. \A k, l \in 1..Len(s) : s[k] = s[l] => k = l
    BY <1>1, <1>11, Zenon DEF Listed
  <2>2. Range(a) \cap Range(v) = {}
    BY <1>2, <1>9, <2>1, SeparateParts
  <2>3. NoRepeat(a) /\ NoRepeat(v)
    BY <1>3, <1>11, Zenon DEF PieceOf
  <2>4. Range(t) \cap Range(a) = {} /\ Range(t) \cap Range(v) = {}
    BY <1>10, <1>11
  <2>5. NoRepeat(u)
    BY <1>4, <1>11, <2>3, <2>4, Zenon DEF ConcatOf
  <2> QED
    BY <1>9, <2>2, <2>3, <2>4, <2>5
<1>12. \A y : y \in Range(u) <=> y \in Range(t) \/ \E i \in 1..n : s[i] = y
  BY <1>9
<1>13. Range(u) \cup Range(v) = Range(s) \cup Range(t)
  BY <1>9, <1>10
<1> QED
  BY <1>5, <1>7, <1>8, <1>9, <1>11, <1>12, <1>13, Zenon DEF u, v, a, MovedFrom

-----------------------------------------------------------------------------
\* The elements of s are in the order R.
InOrder(R, s) == \A i, j \in DOMAIN s : i < j => <<s[i], s[j]>> \in R

\* Every element of X comes before every element of Y.
AllBefore(R, X, Y) == \A x \in X, y \in Y : <<x, y>> \in R

LEMMA AppendedInOrder ==
  ASSUME NEW R, NEW S, NEW s \in Seq(S), NEW x \in S,
         InOrder(R, s), AllBefore(R, Range(s), {x})
  PROVE  InOrder(R, Append(s, x))
<1> DEFINE r == Append(s, x)
<1>1. AppendedTo(S, r, s, x)
  BY Appended
<1> HIDE DEF r
<1>2. Listed(S, r) /\ Listed(S, s)
  BY <1>1, ElementsOf DEF AppendedTo
<1> SUFFICES ASSUME NEW i \in 1..Len(r), NEW j \in 1..Len(r), i < j
             PROVE  <<r[i], r[j]>> \in R
  BY <1>2, Zenon DEF InOrder, Listed, r
<1>3. i \in 1..Len(s) /\ (j \in 1..Len(s) \/ j = Len(s) + 1)
  BY <1>1, <1>2 DEF AppendedTo, Listed
<1>4. r[i] = s[i] /\ s[i] \in Range(s)
  BY <1>1, <1>2, <1>3, Zenon DEF AppendedTo, Listed
<1>5. CASE j \in 1..Len(s)
  <2>1. r[j] = s[j] /\ i \in DOMAIN s /\ j \in DOMAIN s
    BY <1>1, <1>2, <1>3, <1>5, Zenon DEF AppendedTo, Listed
  <2> QED
    BY <1>4, <2>1, Zenon DEF InOrder
<1>6. CASE j = Len(s) + 1
  <2>1. r[j] = x
    BY <1>1, <1>6, Zenon DEF AppendedTo
  <2> QED
    BY <1>4, <2>1, Zenon DEF AllBefore
<1> QED
  BY <1>3, <1>5, <1>6

LEMMA TailInOrder ==
  ASSUME NEW R, NEW S, NEW s \in Seq(S), s # <<>>, InOrder(R, s)
  PROVE  InOrder(R, Tail(s)) /\ AllBefore(R, {Head(s)}, Range(Tail(s)))
<1> DEFINE r == Tail(s)
<1>1. TailOf(S, r, s)
  BY Tailed
<1> HIDE DEF r
<1>2. Listed(S, r) /\ Listed(S, s)
  BY <1>1, ElementsOf DEF TailOf
<1>3. ASSUME NEW i \in 1..Len(r), NEW j \in 1..Len(r), i < j
      PROVE  <<r[i], r[j]>> \in R
  <2>1. i + 1 \in 1..Len(s) /\ j + 1 \in 1..Len(s) /\ r[i] = s[i + 1] /\ r[j] = s[j + 1]
    BY <1>1, Zenon DEF TailOf
  <2>2. i + 1 < j + 1
    BY <1>3
  <2>3. i + 1 \in DOMAIN s /\ j + 1 \in DOMAIN s
    BY <1>2, <2>1, Zenon DEF Listed
  <2> QED
    BY <2>1, <2>2, <2>3, Zenon DEF InOrder
<1>4. ASSUME NEW y \in Range(r) PROVE <<Head(s), y>> \in R
  <2>1. PICK i \in 1..Len(r) : r[i] = y
    BY <1>2, Zenon DEF Listed
  <2>2. i + 1 \in 1..Len(s) /\ y = s[i + 1] /\ Head(s) = s[1]
    BY <1>1, <2>1, Zenon DEF TailOf
  <2>3. 1 < i + 1 /\ 1 \in 1..Len(s)
    BY <2>2
  <2>4. i + 1 \in DOMAIN s /\ 1 \in DOMAIN s
    BY <1>2, <2>2, <2>3, Zenon DEF Listed
  <2> QED
    BY <2>2, <2>3, <2>4, Zenon DEF InOrder
<1> QED
  BY <1>2, <1>3, <1>4, Zenon DEF InOrder, AllBefore, Listed, r

\* Two lists in order, the one before the other, are in order together.
LEMMA ConcatInOrder ==
  ASSUME NEW R, NEW S, NEW a \in Seq(S), NEW b \in Seq(S),
         InOrder(R, a), InOrder(R, b), AllBefore(R, Range(a), Range(b))
  PROVE  InOrder(R, a \o b)
<1> DEFINE r == a \o b
<1>1. ConcatOf(S, r, a, b)
  BY Concatenated
<1> HIDE DEF r
<1>2. Listed(S, r) /\ Listed(S, a) /\ Listed(S, b)
  BY <1>1, ElementsOf DEF ConcatOf
<1>3. ASSUME NEW i \in 1..Len(r), NEW j \in 1..Len(r), i < j
      PROVE  <<r[i], r[j]>> \in R
  <2>1. /\ \/ i \in 1..Len(a) /\ r[i] = a[i]
           \/ i - Len(a) \in 1..Len(b) /\ r[i] = b[i - Len(a)] /\ i > Len(a)
        /\ \/ j \in 1..Len(a) /\ r[j] = a[j]
           \/ j - Len(a) \in 1..Len(b) /\ r[j] = b[j - Len(a)] /\ j > Len(a)
    BY <1>1, Zenon DEF ConcatOf
  <2>2. CASE i \in 1..Len(a) /\ r[i] = a[i] /\ j \in 1..Len(a) /\ r[j] = a[j]
    BY <1>2, <1>3, <2>2, Zenon DEF InOrder, Listed
  <2>3. CASE i \in 1..Len(a) /\ r[i] = a[i] /\ j - Len(a) \in 1..Len(b) /\ r[j] = b[j - Len(a)]
    <3>1. a[i] \in Range(a) /\ b[j - Len(a)] \in Range(b)
      BY <1>2, <2>3, Zenon DEF Listed
    <3>2. <<a[i], b[j - Len(a)]>> \in R
      BY <3>1, Zenon DEF AllBefore
    <3> QED
      BY <2>3, <3>2, Zenon
  <2>4. CASE /\ i - Len(a) \in 1..Len(b) /\ r[i] = b[i - Len(a)]
             /\ j - Len(a) \in 1..Len(b) /\ r[j] = b[j - Len(a)]
    <3>1. i - Len(a) < j - Len(a)
      BY <1>1, <1>3 DEF ConcatOf
    <3>2. \A x, y \in 1..Len(b) : x < y => <<b[x], b[y]>> \in R
      BY <1>2, Zenon DEF InOrder, Listed
    <3>3. <<b[i - Len(a)], b[j - Len(a)]>> \in R
      BY <2>4, <3>1, <3>2, Zenon
    <3> QED
      BY <2>4, <3>3, Zenon
  <2>5. ~(i > Len(a) /\ j \in 1..Len(a))
    BY <1>1, <1>3 DEF ConcatOf
  <2> QED
    BY <2>1, <2>2, <2>3, <2>4, <2>5, Zenon
<1>4. DOMAIN r = 1..Len(r)
  BY <1>2 DEF Listed
<1> QED
  BY <1>3, <1>4 DEF InOrder, r

LEMMA MovedInOrder ==
  ASSUME NEW R, NEW S, NEW s \in Seq(S), NEW t \in Seq(S), NEW n \in 0..Len(s),
         InOrder(R, s), InOrder(R, t), AllBefore(R, Range(t), Range(s))
  PROVE  LET u == t \o SubSeq(s, 1, n)
             v == SubSeq(s, n + 1, Len(s))
         IN InOrder(R, u) /\ InOrder(R, v) /\ AllBefore(R, Range(u), Range(v))
<1> DEFINE u == t \o SubSeq(s, 1, n)
           v == SubSeq(s, n + 1, Len(s))
<1>1. MovedFrom(S, u, v, t, s, n)
  BY Moved
<1> HIDE DEF u, v
<1>2. Listed(S, u) /\ Listed(S, v) /\ Listed(S, s) /\ Listed(S, t)
  BY <1>1, ElementsOf DEF MovedFrom
<1>3. Len(s) \in Nat /\ n \in Int /\ n <= Len(s) /\ 0 <= n /\ Len(t) \in Nat
  BY <1>2 DEF Listed
<1>4. ASSUME NEW i \in 1..Len(u), NEW j \in 1..Len(u), i < j
      PROVE  <<u[i], u[j]>> \in R
  <2>1. /\ \/ i \in 1..Len(t) /\ u[i] = t[i]
           \/ i - Len(t) \in 1..n /\ u[i] = s[i - Len(t)] /\ i > Len(t)
        /\ \/ j \in 1..Len(t) /\ u[j] = t[j]
           \/ j - Len(t) \in 1..n /\ u[j] = s[j - Len(t)] /\ j > Len(t)
    BY <1>1, Zenon DEF MovedFrom
  <2>2. CASE i \in 1..Len(t) /\ u[i] = t[i] /\ j \in 1..Len(t) /\ u[j] = t[j]
    BY <1>2, <1>4, <2>2, Zenon DEF InOrder, Listed
  <2>3. CASE i \in 1..Len(t) /\ u[i] = t[i] /\ j - Len(t) \in 1..n /\ u[j] = s[j - Len(t)]
    <3>1. j - Len(t) \in 1..Len(s)
      BY <1>3, <2>3
    <3> QED
      BY <1>2, <2>3, <3>1, Zenon DEF AllBefore, Listed
  <2>4. CASE i - Len(t) \in 1..n /\ u[i] = s[i - Len(t)] /\ j - Len(t) \in 1..n /\ u[j] = s[j - Len(t)]
    <3>1. i - Len(t) \in 1..Len(s) /\ j - Len(t) \in 1..Len(s) /\ i - Len(t) < j - Len(t)
      BY <1>3, <1>4, <2>4
    <3>2. DOMAIN s = 1..Len(s)
      BY <1>2, Zenon DEF Listed
    <3>3. <<s[i - Len(t)], s[j - Len(t)]>> \in R
      BY <3>1, <3>2, Zenon DEF InOrder
    <3> QED
      BY <2>4, <3>3, Zenon
  <2>5. ~(i > Len(t) /\ j \in 1..Len(t))
    BY <1>3, <1>4
  <2> QED
    BY <2>1, <2>2, <2>3, <2>4, <2>5, Zenon
<1>5. ASSUME NEW i \in 1..Len(v), NEW j \in 1..Len(v), i < j
      PROVE  <<v[i], v[j]>> \in R
  <2>1. /\ n + i \in (n + 1)..Len(s) /\ v[i] = s[n + i]
        /\ n + j \in (n + 1)..Len(s) /\ v[j] = s[n + j]
    BY <1>1, Zenon DEF MovedFrom
  <2>2. n + i \in 1..Len(s) /\ n + j \in 1..Len(s) /\ n + i < n + j
    BY <1>3, <1>5, <2>1
  <2> QED
    BY <1>2, <2>1, <2>2, Zenon DEF InOrder, Listed
<1>6. ASSUME NEW x \in Range(u), NEW y \in Range(v)
      PROVE  <<x, y>> \in R
  <2>1. PICK j \in (n + 1)..Len(s) : s[j] = y
    BY <1>1, Zenon DEF MovedFrom
  <2>2. j \in 1..Len(s) /\ \A i \in 1..n : i \in 1..Len(s) /\ i < j
    BY <1>3, <2>1
  <2>3. x \in Range(t) \/ \E i \in 1..n : s[i] = x
    BY <1>1, Zenon DEF MovedFrom
  <2>4. CASE x \in Range(t)
    BY <1>2, <2>1, <2>2, <2>4, Zenon DEF AllBefore, Listed
  <2>5. ASSUME NEW i \in 1..n, s[i] = x PROVE <<x, y>> \in R
    BY <1>2, <2>1, <2>2, <2>5, Zenon DEF InOrder, Listed
  <2> QED
    BY <2>3, <2>4, <2>5, Zenon
<1>7. InOrder(R, u) /\ InOrder(R, v)
  BY <1>2, <1>4, <1>5, Zenon DEF InOrder, Listed
<1>8. AllBefore(R, Range(u), Range(v))
  BY <1>6, Zenon DEF AllBefore
<1> QED
  BY <1>7, <1>8, Zenon DEF u, v

-----------------------------------------------------------------------------
\* Inserting puts one element at position k.
InsertedInto(S, r, s, k, x) ==
  /\ r \in Seq(S) /\ r # <<>> /\ Len(r) = Len(s) + 1
  /\ \A i \in 1..Len(r) : \/ i < k /\ i \in 1..Len(s) /\ r[i] = s[i]
                          \/ i = k /\ r[i] = x
                          \/ i > k /\ i - 1 \in 1..Len(s) /\ r[i] = s[i - 1]
  /\ Head(r) = IF k = 1 THEN x ELSE Head(s)
  /\ Range(r) = Range(s) \cup {x}
  /\ NoRepeat(s) /\ x \notin Range(s) => NoRepeat(r)

LEMMA Inserted ==
  ASSUME NEW S, NEW s \in Seq(S), NEW x \in S, NEW k \in 1..(Len(s) + 1)
  PROVE  InsertedInto(S, InsertAt(s, k, x), s, k, x)
<1> DEFINE a == SubSeq(s, 1, k - 1)
           b == SubSeq(s, k, Len(s))
           c == <<x>>
           m == a \o c
           r == m \o b
<1>1. InsertAt(s, k, x) = r
  BY DEF InsertAt
<1>2. Listed(S, s)
  BY ElementsOf
<1>3. k \in Int /\ 1 <= k /\ k <= Len(s) + 1 /\ Len(s) \in Nat
  BY <1>2 DEF Listed
<1>4. PieceOf(S, a, s, 1, k - 1) /\ PieceOf(S, b, s, k, Len(s))
  <2>1. 1 \in 1..(Len(s) + 1) /\ k - 1 \in 0..Len(s) /\ 1 <= (k - 1) + 1
    BY <1>3
  <2>2. Len(s) \in 0..Len(s) /\ k <= Len(s) + 1
    BY <1>3
  <2>3. PieceOf(S, a, s, 1, k - 1)
    BY <2>1, Piece
  <2>4. PieceOf(S, b, s, k, Len(s))
    BY <2>2, Piece
  <2> QED
    BY <2>3, <2>4
<1>5. c \in Seq(S) /\ Len(c) = 1 /\ c[1] = x
  OBVIOUS
<1>6. Range(c) = {x} /\ NoRepeat(c)
  <2>1. Listed(S, c)
    BY <1>5, ElementsOf
  <2>2. \A y : y \in Range(c) <=> y = x
    BY <1>5, <2>1 DEF Listed
  <2>3. \A i, j \in 1..Len(c) : i = j
    BY <1>5
  <2> QED
    BY <2>1, <2>2, <2>3 DEF Listed
<1> HIDE DEF a, b, c
<1>7. ConcatOf(S, m, a, c)
  BY <1>4, <1>5, Concatenated DEF PieceOf
<1> HIDE DEF m
<1>8. ConcatOf(S, r, m, b)
  BY <1>4, <1>7, Concatenated DEF PieceOf, ConcatOf
<1> HIDE DEF r
<1>9. /\ r \in Seq(S) /\ Len(a) = k - 1 /\ Len(m) = k /\ Len(b) = Len(s) - k + 1
      /\ Len(r) = Len(s) + 1
  BY <1>3, <1>4, <1>5, <1>7, <1>8 DEF PieceOf, ConcatOf
<1>10. \A i \in 1..(k - 1) : a[i] = s[i]
  <2>1. \A i \in 1..(k - 1) : 1 + i - 1 = i /\ a[i] = s[1 + i - 1]
    BY <1>3, <1>4, <1>9 DEF PieceOf
  <2> QED
    BY <2>1
<1>11. \A i \in 1..Len(b) : b[i] = s[k + i - 1]
  BY <1>4 DEF PieceOf
<1>12. ASSUME NEW i \in 1..Len(r)
       PROVE  \/ i < k /\ i \in 1..Len(s) /\ r[i] = s[i]
              \/ i = k /\ r[i] = x
              \/ i > k /\ i - 1 \in 1..Len(s) /\ r[i] = s[i - 1]
  <2>1. CASE i < k
    <3>1. i \in 1..Len(s) /\ i \in 1..Len(m) /\ i \in 1..Len(a) /\ i \in 1..(k - 1)
      BY <1>3, <1>9, <2>1
    <3>2. r[i] = m[i]
      BY <1>8, <2>1, <3>1, <1>9, <1>3 DEF ConcatOf
    <3>3. m[i] = a[i]
      BY <1>7, <2>1, <3>1, <1>9, <1>3 DEF ConcatOf
    <3> QED
      BY <2>1, <3>1, <3>2, <3>3, <1>10
  <2>2. CASE i = k
    <3>1. i \in 1..Len(m) /\ ~(i \in 1..Len(a)) /\ i - Len(a) = 1
      BY <1>3, <1>9, <2>2
    <3>2. r[i] = m[i]
      BY <1>8, <2>2, <3>1, <1>9, <1>3 DEF ConcatOf
    <3>3. m[i] = c[1]
      BY <1>7, <3>1 DEF ConcatOf
    <3> QED
      BY <2>2, <3>2, <3>3, <1>5
  <2>3. CASE i > k
    <3>1. ~(i \in 1..Len(m)) /\ i - 1 \in 1..Len(s) /\ k + (i - k) - 1 = i - 1
      BY <1>3, <1>9, <2>3
    <3>2. i - k \in 1..Len(b) /\ r[i] = b[i - k]
      BY <1>8, <3>1, <1>9 DEF ConcatOf
    <3>3. b[i - k] = s[k + (i - k) - 1]
      BY <1>11, <3>2
    <3>4. b[i - k] = s[i - 1]
      BY <3>1, <3>3
    <3> QED
      BY <2>3, <3>1, <3>2, <3>4
  <2> QED
    BY <1>3, <2>1, <2>2, <2>3
<1>13. Range(r) = Range(s) \cup {x} /\ (NoRepeat(s) /\ x \notin Range(s) => NoRepeat(r))
  <2>1. /\ \A y : y \in Range(s) <=> \E j \in 1..Len(s) : s[j] = y
        /\ \A y : y \in Range(a) <=> \E j \in 1..(k - 1) : s[j] = y
        /\ \A y : y \in Range(b) <=> \E j \in k..Len(s) : s[j] = y
        /\ Range(m) = Range(a) \cup Range(c)
        /\ Range(r) = Range(m) \cup Range(b)
    BY <1>2, <1>4, <1>7, <1>8, Zenon DEF PieceOf, Listed, ConcatOf
  <2>2. Range(s) = Range(a) \cup Range(b)
    <3>1. k - 1 \in Int /\ 0 <= k - 1 /\ k - 1 <= Len(s) /\ (k - 1) + 1 = k
      BY <1>3
    <3>2. \A y : y \in Range(b) <=> \E j \in ((k - 1) + 1)..Len(s) : s[j] = y
      BY <2>1, <3>1
    <3> QED
      BY <1>3, <2>1, <3>1, <3>2, WholeFromParts
  <2>3. ASSUME NoRepeat(s), x \notin Range(s) PROVE NoRepeat(r)
    <3>1. \A i, j \in 1..Len(s) : s[i] = s[j] => i = j
      BY <1>2, <2>3, Zenon DEF Listed
    <3>2. Range(a) \cap Range(b) = {}
      <4>1. k - 1 \in Int /\ k - 1 < k /\ 0 <= k - 1
        BY <1>3
      <4> QED
        BY <1>3, <2>1, <3>1, <4>1, SeparateParts
    <3>3. NoRepeat(a) /\ NoRepeat(b)
      BY <1>4, <2>3, Zenon DEF PieceOf
    <3>4. Range(a) \cap Range(c) = {} /\ Range(m) \cap Range(b) = {}
      BY <1>6, <2>1, <2>2, <2>3, <3>2
    <3>5. NoRepeat(m)
      BY <1>6, <1>7, <3>3, <3>4, Zenon DEF ConcatOf
    <3> QED
      BY <1>8, <3>3, <3>4, <3>5, Zenon DEF ConcatOf
  <2> QED
    BY <1>6, <2>1, <2>2, <2>3
<1>14. r # <<>> /\ Head(r) = IF k = 1 THEN x ELSE Head(s)
  <2>1. r # <<>> /\ Head(r) = r[1] /\ 1 \in 1..Len(r)
    BY <1>3, <1>9
  <2>2. CASE k = 1
    BY <1>12, <2>1, <2>2
  <2>3. CASE k # 1
    <3>1. 1 < k /\ ~(1 > k) /\ Len(s) > 0
      BY <1>3, <2>3
    <3>2. r[1] = s[1]
      BY <1>12, <2>1, <3>1
    <3>3. Head(s) = s[1]
      BY <3>1
    <3> QED
      BY <2>1, <2>3, <3>2, <3>3
  <2> QED
    BY <2>2, <2>3
<1> QED
  BY <1>1, <1>9, <1>12, <1>13, <1>14 DEF InsertedInto

LEMMA InsertedInOrder ==
  ASSUME NEW R, NEW S, NEW s \in Seq(S), NEW x \in S, NEW k \in 1..(Len(s) + 1),
         InOrder(R, s),
         \A i \in 1..Len(s) : i < k => <<s[i], x>> \in R,
         \A i \in 1..Len(s) : i >= k => <<x, s[i]>> \in R
  PROVE  InOrder(R, InsertAt(s, k, x))
<1> DEFINE r == InsertAt(s, k, x)
<1>1. InsertedInto(S, r, s, k, x)
  BY Inserted
<1> HIDE DEF r
<1>2. Listed(S, r) /\ Listed(S, s)
  BY <1>1, ElementsOf DEF InsertedInto
<1>3. \A i, j \in 1..Len(s) : i < j => <<s[i], s[j]>> \in R
  BY <1>2, Zenon DEF InOrder, Listed
<1> SUFFICES ASSUME NEW i \in 1..Len(r), NEW j \in 1..Len(r), i < j
             PROVE  <<r[i], r[j]>> \in R
  BY <1>2, Zenon DEF InOrder, Listed, r
<1>4. k \in Int /\ i \in Int /\ j \in Int /\ Len(s) \in Nat
  BY <1>2 DEF Listed
<1>5. /\ \/ i < k /\ i \in 1..Len(s) /\ r[i] = s[i]
         \/ i = k /\ r[i] = x
         \/ i > k /\ i - 1 \in 1..Len(s) /\ r[i] = s[i - 1]
      /\ \/ j < k /\ j \in 1..Len(s) /\ r[j] = s[j]
         \/ j = k /\ r[j] = x
         \/ j > k /\ j - 1 \in 1..Len(s) /\ r[j] = s[j - 1]
  BY <1>1, Zenon DEF InsertedInto
<1>6. CASE i < k /\ i \in 1..Len(s) /\ r[i] = s[i]
  <2>1. CASE j > k /\ j - 1 \in 1..Len(s) /\ r[j] = s[j - 1]
    <3>1. i < j - 1
      BY <1>4, <1>6, <2>1
    <3>2. <<s[i], s[j - 1]>> \in R
      BY <1>3, <1>6, <2>1, <3>1
    <3> QED
      BY <1>6, <2>1, <3>2
  <2>2. CASE j = k /\ r[j] = x
    BY <1>6, <2>2
  <2>3. CASE j < k /\ j \in 1..Len(s) /\ r[j] = s[j]
    BY <1>3, <1>6, <2>3
  <2> QED
    BY <1>5, <2>1, <2>2, <2>3
<1>7. CASE i = k /\ r[i] = x
  <2>1. j > k /\ ~(j < k) /\ j # k
    BY <1>4, <1>7
  <2>2. j - 1 \in 1..Len(s) /\ r[j] = s[j - 1] /\ j - 1 >= k
    BY <1>4, <1>5, <2>1
  <2>3. <<x, s[j - 1]>> \in R
    BY <2>2
  <2> QED
    BY <1>7, <2>2, <2>3
<1>8. CASE i > k /\ i - 1 \in 1..Len(s) /\ r[i] = s[i - 1]
  <2>1. j > k /\ ~(j < k) /\ j # k /\ i - 1 < j - 1
    BY <1>4, <1>8
  <2>2. j - 1 \in 1..Len(s) /\ r[j] = s[j - 1]
    BY <1>5, <2>1
  <2>3. <<s[i - 1], s[j - 1]>> \in R
    BY <1>3, <1>8, <2>1, <2>2
  <2> QED
    BY <1>8, <2>2, <2>3
<1> QED
  BY <1>5, <1>6, <1>7, <1>8

LEMMA RemovedInOrder ==
  ASSUME NEW R, NEW S, NEW s \in Seq(S), NEW k \in 1..Len(s), InOrder(R, s)
  PROVE  InOrder(R, RemoveAt(s, k))
<1> DEFINE r == RemoveAt(s, k)
<1>1. RemovedFrom(S, r, s, k)
  BY Removed
<1> HIDE DEF r
<1>2. Listed(S, r) /\ Listed(S, s)
  BY <1>1, ElementsOf DEF RemovedFrom
<1>3. \A i, j \in 1..Len(s) : i < j => <<s[i], s[j]>> \in R
  BY <1>2, Zenon DEF InOrder, Listed
<1> SUFFICES ASSUME NEW i \in 1..Len(r), NEW j \in 1..Len(r), i < j
             PROVE  <<r[i], r[j]>> \in R
  BY <1>2, Zenon DEF InOrder, Listed, r
<1>4. Len(r) = Len(s) - 1 /\ Len(s) \in Nat
  BY <1>1, <1>2 DEF RemovedFrom, Listed
<1>5. /\ i \in 1..Len(s) /\ i + 1 \in 1..Len(s) /\ j \in 1..Len(s) /\ j + 1 \in 1..Len(s)
      /\ i < j + 1 /\ i + 1 < j + 1 /\ (j < k => i < k)
  BY <1>4
<1>6. /\ \/ i < k /\ r[i] = s[i]
         \/ i >= k /\ r[i] = s[i + 1]
      /\ \/ j < k /\ r[j] = s[j]
         \/ j >= k /\ r[j] = s[j + 1]
  BY <1>1, Zenon DEF RemovedFrom
<1>7. <<s[i], s[j]>> \in R /\ <<s[i], s[j + 1]>> \in R /\ <<s[i + 1], s[j + 1]>> \in R
  BY <1>3, <1>5
<1>8. ~(i >= k /\ j < k)
  BY <1>5
<1> QED
  BY <1>6, <1>7, <1>8, Zenon

-----------------------------------------------------------------------------
\* The list r is s without x.
Dropped(S, r, s, x) ==
  /\ r \in Seq(S) /\ NoRepeat(r) /\ Range(r) = Range(s) \ {x}
  /\ x \notin Range(s) => r = s
  /\ s # <<>> /\ Head(s) # x => r # <<>> /\ Head(r) = Head(s)
  /\ \A R : InOrder(R, s) => InOrder(R, r)

LEMMA DroppedAt ==
  ASSUME NEW S, NEW s \in Seq(S), NoRepeat(s), NEW k \in 1..Len(s)
  PROVE  Dropped(S, RemoveAt(s, k), s, s[k])
<1> DEFINE r == RemoveAt(s, k)
<1>1. RemovedFrom(S, r, s, k)
  BY Removed
<1>2. \A R : InOrder(R, s) => InOrder(R, r)
  BY RemovedInOrder
<1> HIDE DEF r
<1>3. Listed(S, r) /\ Listed(S, s) /\ r \in Seq(S)
  BY <1>1, ElementsOf DEF RemovedFrom
<1>4. NoRepeat(r) /\ Range(r) = Range(s) \ {s[k]} /\ s[k] \in Range(s)
  BY <1>1 DEF RemovedFrom
<1>5. ASSUME s # <<>>, Head(s) # s[k] PROVE r # <<>> /\ Head(r) = Head(s)
  <2>1. Head(s) = s[1] /\ Len(s) \in Nat
    BY <1>5
  <2>2. 1 < k /\ ~(1 > k) /\ 1 # k /\ 1 \in 1..Len(s)
    BY <1>5, <2>1
  <2>3. 1 \in 1..Len(r) /\ r[1] = s[1]
    BY <1>1, <2>2 DEF RemovedFrom
  <2>4. r # <<>> /\ Head(r) = r[1]
    BY <1>3, <2>3
  <2> QED
    BY <2>1, <2>3, <2>4
<1> QED
  BY <1>2, <1>3, <1>4, <1>5, Zenon DEF Dropped, r

LEMMA DroppedFirst ==
  ASSUME NEW S, NEW s \in Seq(S), NoRepeat(s), NEW x
  PROVE  Dropped(S, RemoveFirst(s, x), s, x)
<1>1. Listed(S, s)
  BY ElementsOf
<1>2. CASE \E i \in 1..Len(s) : s[i] = x
  <2>1. PICK k \in 1..Len(s) : s[k] = x
    BY <1>2
  <2>2. \A i \in 1..Len(s) : s[i] = x => i = k
    BY <1>1, <2>1 DEF Listed
  <2>3. {i \in 1..Len(s) : s[i] = x} = {k}
    BY <2>1, <2>2
  <2>4. Min({k}) = k
    <3>1. \E z \in {k} : \A y \in {k} : z <= y
      OBVIOUS
    <3> QED
      BY <3>1, Zenon DEF Min
  <2>5. RemoveFirst(s, x) = RemoveAt(s, k)
    BY <1>2, <2>3, <2>4 DEF RemoveFirst, SelectInSeq
  <2> QED
    BY <2>1, <2>5, DroppedAt
<1>3. CASE ~\E i \in 1..Len(s) : s[i] = x
  <2>1. RemoveFirst(s, x) = s
    BY <1>3 DEF RemoveFirst
  <2>2. x \notin Range(s)
    BY <1>1, <1>3 DEF Listed
  <2> QED
    BY <2>1, <2>2 DEF Dropped
<1> QED
  BY <1>2, <1>3

===============================================================================
