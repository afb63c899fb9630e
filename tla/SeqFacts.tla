------------------------------ MODULE SeqFacts ------------------------------
(***************************************************************************)
(* Facts about sequences that the proofs of several modules cite.          *)
(***************************************************************************)
EXTENDS Integers, Sequences, TLAPS, SequenceTheorems, WellFoundedInduction

\* A function on 1 .. n is a sequence of length n.
LEMMA SeqOfFunction ==
  ASSUME NEW S, NEW n \in Nat, NEW f \in [1 .. n -> S]
  PROVE  f \in Seq(S) /\ Len(f) = n
<1>1. f \in Seq(S)
  BY SeqDef
<1>. QED  BY <1>1, LenProperties

\* Appending an element.
LEMMA AppendFact ==
  ASSUME NEW S, NEW s \in Seq(S), NEW x \in S
  PROVE  /\ Append(s, x) \in Seq(S)
         /\ Len(Append(s, x)) = Len(s) + 1
         /\ \A i \in 1 .. Len(s) : Append(s, x)[i] = s[i]
         /\ Append(s, x)[Len(s) + 1] = x
<1>. QED  BY LenProperties

\* Inserting an element after the k-th.
LEMMA InsertFact ==
  ASSUME NEW S, NEW s \in Seq(S), NEW x \in S, NEW k \in 1 .. Len(s)
  PROVE  LET t == SubSeq(s, 1, k) \o <<x>> \o SubSeq(s, k + 1, Len(s))
         IN  t \in Seq(S) /\ Len(t) = Len(s) + 1
<1>1. Len(s) \in Nat /\ \A i \in 1 .. Len(s) : s[i] \in S
  BY LenProperties, ElementOfSeq
<1>2. SubSeq(s, 1, k) \in Seq(S) /\ Len(SubSeq(s, 1, k)) = k
  BY <1>1, SubSeqProperties
<1>3. /\ SubSeq(s, k + 1, Len(s)) \in Seq(S)
      /\ Len(SubSeq(s, k + 1, Len(s))) = Len(s) - k
  <2>1. \A i \in k + 1 .. Len(s) : s[i] \in S
    BY <1>1
  <2>2. k + 1 \in Int /\ Len(s) \in Int
    BY <1>1
  <2>. QED  BY <2>1, <2>2, <1>1, SubSeqProperties
<1>4. <<x>> \in Seq(S) /\ Len(<<x>>) = 1
  OBVIOUS
<1>5. /\ SubSeq(s, 1, k) \o <<x>> \in Seq(S)
      /\ Len(SubSeq(s, 1, k) \o <<x>>) = k + 1
  BY <1>2, <1>4, ConcatProperties
<1>. DEFINE head == SubSeq(s, 1, k) \o <<x>>
            tail == SubSeq(s, k + 1, Len(s))
<1>6. head \o tail \in Seq(S) /\ Len(head \o tail) = Len(s) + 1
  <2>. HIDE DEF head, tail
  <2>1. head \in Seq(S) /\ tail \in Seq(S) /\ Len(head) = k + 1 /\ Len(tail) = Len(s) - k
    BY <1>3, <1>5 DEF head, tail
  <2>2. head \o tail \in Seq(S) /\ Len(head \o tail) = Len(head) + Len(tail)
    BY <2>1, ConcatProperties
  <2>. QED  BY <1>1, <2>1, <2>2
<1>. QED  BY <1>6

\* Where the elements of a concatenation are.
LEMMA ConcatFact ==
  ASSUME NEW S, NEW s \in Seq(S), NEW t \in Seq(S)
  PROVE  /\ s \o t \in Seq(S) /\ Len(s) \in Nat /\ Len(t) \in Nat
         /\ Len(s \o t) = Len(s) + Len(t)
         /\ \A i \in 1 .. Len(s) : (s \o t)[i] = s[i]
         /\ \A i \in 1 .. Len(t) : (s \o t)[Len(s) + i] = t[i]
<1>1. s \o t \in Seq(S) /\ Len(s) \in Nat /\ Len(t) \in Nat /\ Len(s \o t) = Len(s) + Len(t)
  OBVIOUS
<1>2. \A i \in 1 .. Len(s) + Len(t) :
        (s \o t)[i] = IF i <= Len(s) THEN s[i] ELSE t[i - Len(s)]
  OBVIOUS
<1>3. ASSUME NEW i \in 1 .. Len(s) PROVE (s \o t)[i] = s[i]
  BY <1>1, <1>2
<1>4. ASSUME NEW i \in 1 .. Len(t) PROVE (s \o t)[Len(s) + i] = t[i]
  <2>1. Len(s) + i \in 1 .. Len(s) + Len(t) /\ ~(Len(s) + i <= Len(s)) /\ (Len(s) + i) - Len(s) = i
    BY <1>1
  <2>. QED  BY <1>2, <2>1
<1>. QED  BY <1>1, <1>3, <1>4

\* The same of a sequence known to be a concatenation.
LEMMA ConcatIs ==
  ASSUME NEW S, NEW s \in Seq(S), NEW t \in Seq(S), NEW u, u = s \o t
  PROVE  /\ u \in Seq(S) /\ Len(u) = Len(s) + Len(t)
         /\ Len(s) \in Nat /\ Len(t) \in Nat
         /\ \A i \in 1 .. Len(s) : u[i] = s[i]
         /\ \A i \in 1 .. Len(t) : u[Len(s) + i] = t[i]
<1>. QED  BY ConcatFact

\* Where every element is after an insertion after the k-th.
Inserted(s, k, x) == SubSeq(s, 1, k) \o <<x>> \o SubSeq(s, k + 1, Len(s))

\* Where the elements are after one is inserted.
LEMMA InsertPositions ==
  ASSUME NEW S, NEW s \in Seq(S), NEW x \in S, NEW k \in 1 .. Len(s)
  PROVE  /\ Inserted(s, k, x) \in Seq(S) /\ Len(Inserted(s, k, x)) = Len(s) + 1
         /\ \A i \in 1 .. k : Inserted(s, k, x)[i] = s[i]
         /\ Inserted(s, k, x)[k + 1] = x
         /\ \A i \in k + 1 .. Len(s) : Inserted(s, k, x)[i + 1] = s[i]
<1>. DEFINE head == SubSeq(s, 1, k)
            tail == SubSeq(s, k + 1, Len(s))
            front == head \o <<x>>
            t == front \o tail
<1>1. Len(s) \in Nat /\ \A i \in 1 .. Len(s) : s[i] \in S
  BY LenProperties, ElementOfSeq
<1>2. /\ head \in Seq(S) /\ Len(head) = k
      /\ \A i \in 1 .. k : head[i] = s[i]
  BY <1>1, SubSeqProperties
<1>3. /\ tail \in Seq(S) /\ Len(tail) = Len(s) - k
      /\ \A i \in 1 .. Len(s) - k : tail[i] = s[k + i]
  <2>1. \A i \in k + 1 .. Len(s) : s[i] \in S
    BY <1>1
  <2>2. k + 1 \in Int /\ Len(s) \in Int
    BY <1>1
  <2>. QED  BY <2>1, <2>2, <1>1, SubSeqProperties
<1>4. <<x>> \in Seq(S) /\ Len(<<x>>) = 1 /\ <<x>>[1] = x
  OBVIOUS
<1>a. front = head \o <<x>> /\ t = front \o tail /\ Inserted(s, k, x) = t
  BY DEF Inserted
<1>. HIDE DEF head, tail, front, t
<1>5. /\ front \in Seq(S) /\ Len(front) = Len(head) + Len(<<x>>)
      /\ \A i \in 1 .. Len(head) : front[i] = head[i]
      /\ \A i \in 1 .. Len(<<x>>) : front[Len(head) + i] = <<x>>[i]
  BY <1>2, <1>4, <1>a, ConcatIs
<1>6. /\ t \in Seq(S) /\ Len(t) = Len(front) + Len(tail)
      /\ \A i \in 1 .. Len(front) : t[i] = front[i]
      /\ \A i \in 1 .. Len(tail) : t[Len(front) + i] = tail[i]
  <2>1. front \in Seq(S) /\ tail \in Seq(S) /\ t = front \o tail
    BY <1>a, <1>3, <1>5
  <2>. QED  BY <2>1, ConcatIs
<1>7. /\ Len(front) = k + 1 /\ front[k + 1] = x
      /\ \A i \in 1 .. k : front[i] = s[i]
  <2>1. 1 \in 1 .. Len(<<x>>)
    BY <1>4
  <2>. QED  BY <1>1, <1>2, <1>4, <1>5, <2>1
<1>8. ASSUME NEW i \in k + 1 .. Len(s) PROVE t[i + 1] = s[i]
  <2>1. i - k \in 1 .. Len(s) - k /\ k + 1 + (i - k) = i + 1 /\ k + (i - k) = i
    BY <1>1
  <2>2. i - k \in 1 .. Len(tail)
    BY <1>3, <2>1
  <2>3. t[Len(front) + (i - k)] = tail[i - k]
    BY <1>6, <2>2
  <2>4. tail[i - k] = s[k + (i - k)]
    BY <1>3, <2>1
  <2>5. Len(front) + (i - k) = i + 1
    BY <1>7, <2>1
  <2>. QED  BY <2>1, <2>3, <2>4, <2>5
<1>9. /\ Len(t) = Len(s) + 1
      /\ \A i \in 1 .. k + 1 : t[i] = front[i]
  BY <1>1, <1>3, <1>6, <1>7
<1>10. \A i \in 1 .. k : t[i] = s[i]
  BY <1>7, <1>9
<1>11. t[k + 1] = x
  BY <1>7, <1>9
<1>. QED  BY <1>a, <1>6, <1>8, <1>9, <1>10, <1>11

\* What follows an inserted element.
LEMMA InsertedTail ==
  \A S : \A s, x, k : s \in Seq(S) /\ x \in S /\ k \in 1 .. Len(s)
     => \A i \in k + 1 .. Len(s) : Inserted(s, k, x)[i + 1] = s[i]
BY InsertPositions

\* The order of the numbers is well-founded, as a relation.
LEMMA LessIsWellFounded == IsWellFoundedOn({ss \in Nat \X Nat : ss[1] < ss[2]}, Nat)
BY NatLessThanWellFounded, Zenon DEF OpToRel

\* Every set of numbers that is not empty has a least element.
LEMMA LeastNat ==
  ASSUME NEW T, T \subseteq Nat, T # {}
  PROVE  \E x \in T : \A y \in T : x <= y
<1>1. \E x \in T : \A y \in T : ~ (<<y, x>> \in {ss \in Nat \X Nat : ss[1] < ss[2]})
  BY LessIsWellFounded, WFMin
<1>2. PICK x \in T : \A y \in T : ~ (<<y, x>> \in {ss \in Nat \X Nat : ss[1] < ss[2]})
  BY <1>1
<1>3. ASSUME NEW y \in T PROVE x <= y
  <2>1. x \in Nat /\ y \in Nat /\ ~ (y < x)
    BY <1>2
  <2>. QED  BY <2>1
<1>. QED  BY <1>3

\* And a set of positions has a last one.
LEMMA GreatestUpTo ==
  ASSUME NEW n \in Nat, NEW T, T \subseteq 1 .. n, T # {}
  PROVE  \E x \in T : \A y \in T : y <= x
<1>. DEFINE R == {n - y : y \in T}
<1>1. R \subseteq Nat /\ R # {}
  OBVIOUS
<1>2. PICK z \in R : \A u \in R : z <= u
  <2>. HIDE DEF R
  <2>. QED  BY <1>1, LeastNat
<1>3. PICK x \in T : z = n - x
  OBVIOUS
<1>4. ASSUME NEW y \in T PROVE y <= x
  <2>1. n - x <= n - y
    BY <1>2, <1>3
  <2>2. x \in Int /\ y \in Int
    OBVIOUS
  <2>. QED  BY <2>1, <2>2
<1>. QED  BY <1>4

\* Induction up to n, over a set.
LEMMA UpTo ==
  ASSUME NEW n \in Nat, NEW T, 0 \in T, \A k \in 1 .. n : k - 1 \in T => k \in T
  PROVE  \A k \in 0 .. n : k \in T
<1>. DEFINE Bad == {k \in 0 .. n : k \notin T}
<1>. SUFFICES ASSUME Bad # {} PROVE FALSE
  OBVIOUS
<1>1. PICK x \in Bad : \A y \in Bad : x <= y
  <2>1. Bad \subseteq Nat
    OBVIOUS
  <2>. HIDE DEF Bad
  <2>. QED  BY <2>1, LeastNat
<1>2. x \in 1 .. n /\ x - 1 \in 0 .. n /\ ~(x <= x - 1)
  OBVIOUS
<1>3. x - 1 \in T
  BY <1>1, <1>2
<1>. QED  BY <1>2, <1>3

\* h is a at 0, and at k what F makes of k and what it was at the parent of k.
IsTreeRecursion(h, n, D, a, F, parent) ==
  h \in [0 .. n -> D] /\ h[0] = a /\ \A k \in 1 .. n : h[k] = F[<<k, h[parent[k]]>>]

\* A function that is defined by recursion from each number to a smaller one exists.
LEMMA TreeRecursion ==
  ASSUME NEW n \in Nat, NEW D, NEW a \in D, NEW F \in [(1 .. n) \X D -> D],
         NEW parent \in [1 .. n -> Nat], \A k \in 1 .. n : parent[k] < k
  PROVE  \E h : IsTreeRecursion(h, n, D, a, F, parent)
<1>. DEFINE Good(h, k) == h[0] = a /\ \A i \in 1 .. k : h[i] = F[<<i, h[parent[i]]>>]
<1>t. PICK T : T = {k \in 0 .. n : \E h \in [0 .. n -> D] : Good(h, k)}
  OBVIOUS
<1>1. 0 \in T
  <2>1. PICK h : h = [i \in 0 .. n |-> a]
    OBVIOUS
  <2>2. h \in [0 .. n -> D] /\ Good(h, 0)
    BY <2>1
  <2>. HIDE DEF Good
  <2>. QED  BY <1>t, <2>2
<1>2. ASSUME NEW k \in 1 .. n, k - 1 \in T PROVE k \in T
  <2>1. PICK h \in [0 .. n -> D] : Good(h, k - 1)
    BY <1>2, <1>t
  <2>p. \A i \in 1 .. k : parent[i] \in 0 .. n /\ parent[i] # k /\ parent[i] < i
    OBVIOUS
  <2>2. h[parent[k]] \in D
    BY <2>p
  <2>3. PICK x : x = F[<<k, h[parent[k]]>>]
    OBVIOUS
  <2>4. x \in D
    BY <2>2, <2>3
  <2>5. PICK f : f = [h EXCEPT ![k] = x]
    OBVIOUS
  <2>6. f \in [0 .. n -> D] /\ f[k] = x /\ \A i \in 0 .. n : i # k => f[i] = h[i]
    BY <2>4, <2>5
  <2>7. f[0] = a
    BY <2>1, <2>6
  <2>8. ASSUME NEW i \in 1 .. k PROVE f[i] = F[<<i, f[parent[i]]>>]
    <3>1. i \in 0 .. n /\ parent[i] \in 0 .. n /\ parent[i] # k
      BY <2>p
    <3>2. f[parent[i]] = h[parent[i]]
      BY <2>6, <3>1
    <3>3. CASE i = k
      BY <2>3, <2>6, <3>2, <3>3
    <3>4. CASE i # k
      <4>1. i \in 1 .. k - 1
        BY <3>4
      <4>2. h[i] = F[<<i, h[parent[i]]>>]
        BY <2>1, <4>1
      <4>. QED  BY <2>6, <3>1, <3>2, <3>4, <4>2
    <3>. QED  BY <3>3, <3>4
  <2>9. Good(f, k)
    BY <2>7, <2>8
  <2>. HIDE DEF Good
  <2>. QED  BY <1>t, <2>6, <2>9
<1>3. \A k \in 0 .. n : k \in T
  BY <1>1, <1>2, UpTo
<1>4. n \in T
  BY <1>3
<1>5. PICK h \in [0 .. n -> D] : Good(h, n)
  BY <1>4, <1>t
<1>6. IsTreeRecursion(h, n, D, a, F, parent)
  BY <1>5 DEF IsTreeRecursion
<1>. QED  BY <1>6

\* h is a at 0, and at k what F makes of k and what it was before.
IsRecursion(h, n, D, a, F) ==
  h \in [0 .. n -> D] /\ h[0] = a /\ \A k \in 1 .. n : h[k] = F[<<k, h[k - 1]>>]

\* A function that is defined by recursion from 0 to n exists.
LEMMA RecursionUpTo ==
  ASSUME NEW n \in Nat, NEW D, NEW a \in D, NEW F \in [(1 .. n) \X D -> D]
  PROVE  \E h : IsRecursion(h, n, D, a, F)
<1>1. PICK parent : parent = [k \in 1 .. n |-> k - 1]
  OBVIOUS
<1>2. parent \in [1 .. n -> Nat] /\ \A k \in 1 .. n : parent[k] < k /\ parent[k] = k - 1
  BY <1>1
<1>3. PICK h : IsTreeRecursion(h, n, D, a, F, parent)
  BY <1>2, TreeRecursion
<1>4. IsRecursion(h, n, D, a, F)
  BY <1>2, <1>3 DEF IsTreeRecursion, IsRecursion
<1>. QED  BY <1>4
=============================================================================
