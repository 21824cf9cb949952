--------------------------- MODULE WaitListsProofs ---------------------------
(* What the list operations do to the set of waiters and to its order.     *)
EXTENDS WaitLists, WellFoundedInduction, TLAPS

(* A set of numbers that is not empty has a least element: the induction   *)
(* that the lemmas about lists of any length need.                         *)
LEMMA LeastLemma ==
  ASSUME NEW S \in SUBSET Nat, S # {}
  PROVE  \E n \in S : \A m \in S : n <= m
<1> DEFINE R == OpToRel(<, Nat)
<1>1. R = {p \in Nat \X Nat : p[1] < p[2]}
  BY Zenon DEF OpToRel
<1>2. PICK n \in S : \A m \in S : ~(<<m, n>> \in R)
  <2>1. IsWellFoundedOn(R, Nat)
    BY Zenon, NatLessThanWellFounded
  <2> HIDE DEF R
  <2>. QED
    BY ZenonT(60), <2>1, WFMin
<1> HIDE DEF R
<1>3. ASSUME NEW m \in S PROVE n <= m
  <2>1. m \in Nat /\ n \in Nat
    OBVIOUS
  <2>2. m < n => <<m, n>> \in R
    BY <1>1, <2>1
  <2>. QED
    BY <1>2, <2>1, <2>2
<1>. QED
  BY <1>3

(* The places and the elements of a list. *)
LEMMA LenLemma ==
  ASSUME NEW S, NEW q \in Seq(S)
  PROVE  /\ Len(q) \in Nat /\ (q # <<>> => Len(q) > 0)
         /\ DOMAIN q = 1..Len(q) /\ q \in [1..Len(q) -> S]
         /\ \A i \in 1..Len(q) : q[i] \in S
BY SMT

(* Two lists with the same elements in the same places. *)
LEMMA SameElements ==
  ASSUME NEW S, NEW q \in Seq(S), NEW r \in Seq(S), Len(q) = Len(r),
         \A k \in 1..Len(q) : q[k] = r[k]
  PROVE  q = r
BY SMT

(* The part of a list from one place to another. *)
LEMMA SliceLemma ==
  ASSUME NEW S, NEW q, NEW m \in Nat, NEW n \in Nat, m <= n + 1, \A i \in m..n : q[i] \in S
  PROVE  /\ SubSeq(q, m, n) \in Seq(S) /\ Len(SubSeq(q, m, n)) = n - m + 1
         /\ \A i \in 1..(n - m + 1) : SubSeq(q, m, n)[i] = q[m + i - 1]
BY SMT

(* One list after another. *)
LEMMA JoinLemma ==
  ASSUME NEW S, NEW q \in Seq(S), NEW r \in Seq(S)
  PROVE  /\ q \o r \in Seq(S) /\ Len(q \o r) = Len(q) + Len(r)
         /\ \A i \in 1..(Len(q) + Len(r)) :
              (q \o r)[i] = IF i <= Len(q) THEN q[i] ELSE r[i - Len(q)]
BY SMT

(* An element after a list. *)
LEMMA PushLemma ==
  ASSUME NEW S, NEW q \in Seq(S), NEW x \in S
  PROVE  /\ Append(q, x) \in Seq(S) /\ Len(Append(q, x)) = Len(q) + 1
         /\ Append(q, x)[Len(q) + 1] = x
         /\ \A i \in 1..Len(q) : Append(q, x)[i] = q[i]
BY SMT

(* Appending a new element to a wait list. *)
LEMMA AppendLemma ==
  ASSUME NEW S, NEW q \in Seq(S), NEW x \in S, ~InList(q, x), Distinct(q)
  PROVE  /\ Append(q, x) \in Seq(S)
         /\ Distinct(Append(q, x))
         /\ \A y : InList(Append(q, x), y) <=> y = x \/ InList(q, y)
         /\ Append(q, x) # <<>>
BY PushLemma DEF InList, Distinct

(* Taking the first element off a wait list. *)
LEMMA TailLemma ==
  ASSUME NEW S, NEW q \in Seq(S), q # <<>>, Distinct(q)
  PROVE  /\ Head(q) \in S /\ InList(q, Head(q))
         /\ Tail(q) \in Seq(S)
         /\ Distinct(Tail(q))
         /\ \A y : InList(Tail(q), y) <=> y # Head(q) /\ InList(q, y)
<1>1. /\ Tail(q) \in Seq(S) /\ Len(q) \in Nat /\ Len(q) > 0
      /\ Len(Tail(q)) = Len(q) - 1 /\ Head(q) = q[1]
      /\ \A i \in 1..(Len(q) - 1) : Tail(q)[i] = q[i + 1]
  BY LenLemma
<1>2. Head(q) \in S /\ InList(q, Head(q))
  BY <1>1, LenLemma DEF InList
<1>3. Distinct(Tail(q))
  BY <1>1 DEF Distinct
<1>4. ASSUME NEW y, InList(Tail(q), y) PROVE y # Head(q) /\ InList(q, y)
  <2>1. PICK i \in 1..(Len(q) - 1) : Tail(q)[i] = y
    BY <1>1, <1>4 DEF InList
  <2>. QED
    BY <1>1, <2>1, i + 1 \in 1..Len(q) DEF InList, Distinct
<1>5. ASSUME NEW y, y # Head(q), InList(q, y) PROVE InList(Tail(q), y)
  <2>1. PICK i \in 1..Len(q) : q[i] = y
    BY <1>5 DEF InList
  <2>. QED
    <3>1. i # 1 /\ i - 1 \in 1..(Len(q) - 1)
      BY <1>1, <1>5, <2>1
    <3>2. Tail(q)[i - 1] = q[(i - 1) + 1] /\ (i - 1) + 1 = i
      BY <1>1, <3>1
    <3>. QED
      BY <1>1, <2>1, <3>1, <3>2 DEF InList
<1>. QED
  BY <1>1, <1>2, <1>3, <1>4, <1>5

(* list_remove of the k-th node closes the gap. *)
LEMMA RemoveNodeIndex ==
  ASSUME NEW S, NEW q \in Seq(S), NEW k \in 1..Len(q)
  PROVE  /\ RemoveNode(q, k) \in Seq(S) /\ Len(RemoveNode(q, k)) = Len(q) - 1
         /\ \A i \in 1..Len(RemoveNode(q, k)) :
              RemoveNode(q, k)[i] = IF i < k THEN q[i] ELSE q[i + 1]
<1> DEFINE a == SubSeq(q, 1, k - 1)
           b == SubSeq(q, k + 1, Len(q))
           r == RemoveNode(q, k)
<1>1. /\ a \in Seq(S) /\ Len(a) = k - 1
      /\ \A i \in 1..(k - 1) : a[i] = q[i]
  BY SliceLemma
<1>2. /\ b \in Seq(S) /\ Len(b) = Len(q) - k
      /\ \A i \in 1..(Len(q) - k) : b[i] = q[k + i]
  BY SliceLemma
<1>r. r = a \o b
  BY DEF RemoveNode
<1> HIDE DEF a, b, r
<1>3. /\ r \in Seq(S) /\ Len(r) = Len(q) - 1
      /\ \A i \in 1..Len(r) : r[i] = IF i < k THEN q[i] ELSE q[i + 1]
  <2>2. /\ r \in Seq(S) /\ Len(r) = Len(a) + Len(b)
        /\ \A i \in 1..(Len(a) + Len(b)) :
             r[i] = IF i <= Len(a) THEN a[i] ELSE b[i - Len(a)]
    BY ZenonT(60), <1>1, <1>2, <1>r, JoinLemma
  <2>3. Len(q) \in Nat /\ Len(r) = Len(q) - 1
    BY <1>1, <1>2, <2>2, LenLemma
  <2>4. ASSUME NEW i \in 1..Len(r)
        PROVE  r[i] = IF i < k THEN q[i] ELSE q[i + 1]
    <3>1. CASE i < k
      <4>1. i \in 1..(k - 1) /\ i <= Len(a) /\ i \in 1..(Len(a) + Len(b))
        BY SMTT(60), <1>1, <2>2, <2>3, <3>1
      <4>2. r[i] = a[i] /\ a[i] = q[i]
        BY <1>1, <2>2, <4>1
      <4>. QED
        BY <3>1, <4>2
    <3>2. CASE i >= k
      <4>1. i - Len(a) \in 1..(Len(q) - k) /\ k + (i - Len(a)) = i + 1
        BY <1>1, <2>3, <3>2
      <4>2. r[i] = b[i - Len(a)]
        <5>1. i \in 1..(Len(a) + Len(b)) /\ ~(i <= Len(a))
          BY <1>1, <2>2, <2>3, <3>2
        <5>. QED
          BY <2>2, <5>1
      <4>3. b[i - Len(a)] = q[k + (i - Len(a))]
        BY ZenonT(60), <1>2, <4>1
      <4>4. ~(i < k) /\ r[i] = q[i + 1]
        BY SMTT(60), <3>2, <4>1, <4>2, <4>3
      <4>. QED
        BY <4>4
    <3>. QED
      BY <2>3, <3>1, <3>2
  <2>. QED
    BY ZenonT(60), <2>2, <2>3, <2>4
<1>. QED
  BY <1>3 DEF r

(* Taking any element off a wait list. *)
LEMMA RemoveNodeLemma ==
  ASSUME NEW S, NEW q \in Seq(S), NEW k \in 1..Len(q), Distinct(q)
  PROVE  /\ RemoveNode(q, k) \in Seq(S)
         /\ Distinct(RemoveNode(q, k))
         /\ \A y : InList(RemoveNode(q, k), y) <=> y # q[k] /\ InList(q, y)
<1> DEFINE r == RemoveNode(q, k)
<1>3. /\ r \in Seq(S) /\ Len(r) = Len(q) - 1
      /\ \A i \in 1..Len(r) : r[i] = IF i < k THEN q[i] ELSE q[i + 1]
  BY RemoveNodeIndex
<1> HIDE DEF r
<1>4. Distinct(r)
  <2> SUFFICES ASSUME NEW i \in 1..Len(r), NEW j \in 1..Len(r), r[i] = r[j]
               PROVE  i = j
    BY DEF Distinct
  <2>1. Len(q) \in Nat
    BY LenLemma
  <2> DEFINE f(n) == IF n < k THEN n ELSE n + 1
  <2>2. f(i) \in 1..Len(q) /\ f(j) \in 1..Len(q) /\ q[f(i)] = q[f(j)]
    BY <1>3, <2>1
  <2>3. f(i) = f(j)
    BY SMTT(60), <2>2 DEF Distinct
  <2>. QED
    BY <2>3
<1>5. ASSUME NEW y, InList(r, y) PROVE y # q[k] /\ InList(q, y)
  BY <1>3, <1>5 DEF InList, Distinct
<1>6. ASSUME NEW y, y # q[k], InList(q, y) PROVE InList(r, y)
  <2>1. PICK i \in 1..Len(q) : q[i] = y
    BY <1>6 DEF InList
  <2>2. CASE i < k
    BY <1>3, <2>1, <2>2 DEF InList
  <2>3. CASE i > k
    BY <1>3, <2>1, <2>3, i - 1 \in 1..Len(r), r[i - 1] = y DEF InList
  <2>. QED
    BY <1>6, <2>1, <2>2, <2>3
<1>. QED
  BY <1>3, <1>4, <1>5, <1>6 DEF r

(* list_remove of the node of x, when x has one. *)
LEMMA UnlinkLemma ==
  ASSUME NEW S, NEW q \in Seq(S), Distinct(q), NEW x
  PROVE  /\ Unlink(q, x) \in Seq(S)
         /\ Distinct(Unlink(q, x))
         /\ \A y : InList(Unlink(q, x), y) <=> y # x /\ InList(q, y)
<1>1. CASE \E i \in 1..Len(q) : q[i] = x
  <2> DEFINE k == CHOOSE i \in 1..Len(q) : q[i] = x
  <2>1. k \in 1..Len(q) /\ q[k] = x
    BY <1>1
  <2>2. Unlink(q, x) = RemoveNode(q, k)
    BY <1>1 DEF Unlink, InList
  <2> HIDE DEF k
  <2>. QED
    BY <2>1, <2>2, RemoveNodeLemma
<1>2. CASE ~\E i \in 1..Len(q) : q[i] = x
  BY <1>2 DEF Unlink, InList
<1>. QED
  BY <1>1, <1>2

(* It leaves the first node alone, if that is another one.                 *)
LEMMA UnlinkHeadLemma ==
  ASSUME NEW S, NEW q \in Seq(S), NEW x, q # <<>>, q[1] # x
  PROVE  Unlink(q, x)[1] = q[1]
<1>1. CASE \E i \in 1..Len(q) : q[i] = x
  <2> DEFINE k == CHOOSE i \in 1..Len(q) : q[i] = x
             a == SubSeq(q, 1, k - 1)
             b == SubSeq(q, k + 1, Len(q))
  <2>1. k \in 1..Len(q) /\ q[k] = x
    BY SMTT(60), <1>1
  <2>2. Unlink(q, x) = a \o b
    BY ZenonT(60), <1>1 DEF Unlink, InList, RemoveNode
  <2> HIDE DEF k
  <2>3. k # 1 /\ Len(q) \in Nat
    BY <2>1, LenLemma
  <2>4. a \in Seq(S) /\ Len(a) = k - 1 /\ a[1] = q[1]
    BY <2>1, <2>3, SliceLemma
  <2>5. b \in Seq(S)
    BY <2>1, <2>3, SliceLemma
  <2> HIDE DEF a, b
  <2>6. 1 \in 1..(Len(a) + Len(b)) /\ 1 <= Len(a)
    BY <2>1, <2>3, <2>4, <2>5, LenLemma
  <2>. QED
    BY <2>2, <2>4, <2>5, <2>6, JoinLemma
<1>2. CASE ~\E i \in 1..Len(q) : q[i] = x
  BY <1>2 DEF Unlink, InList
<1>. QED
  BY <1>1, <1>2

(* Dropping all the nodes but those of `kept` while walking the list.      *)
LEMMA ReducedLemma ==
  ASSUME NEW S, NEW q \in Seq(S), Distinct(q), NEW kept \in SUBSET S,
         NEW rest \in ListsOf(kept, Len(q)), ListReduced(q, kept, rest)
  PROVE  /\ rest \in Seq(S)
         /\ Distinct(rest)
         /\ \A y : InList(rest, y) <=> y \in kept
<1>1. PICK m \in 0..Len(q) : rest \in [1..m -> kept]
  BY DEF ListsOf
<1>2. rest \in Seq(S) /\ Len(rest) = m /\ m \in Nat
  BY <1>1
<1>3. ASSUME NEW i \in 1..Len(rest), NEW j \in 1..Len(rest), i < j
      PROVE  rest[i] # rest[j]
  <2>1. PICK k \in 1..Len(q), l \in 1..Len(q) :
          k < l /\ q[k] = rest[i] /\ q[l] = rest[j]
    BY <1>3 DEF ListReduced
  <2>. QED
    BY SMTT(60), <2>1 DEF Distinct
<1>4. Distinct(rest)
  BY <1>2, <1>3 DEF Distinct
<1>5. \A y : InList(rest, y) <=> y \in kept
  BY <1>1, <1>2 DEF ListReduced, InList
<1>. QED
  BY <1>2, <1>4, <1>5

=============================================================================
