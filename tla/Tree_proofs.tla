---------------------------- MODULE Tree_proofs -----------------------------
(***************************************************************************)
(* Proofs about Tree, for any paths, descriptors and streams.              *)
(***************************************************************************)
EXTENDS Tree, TLAPS, FiniteSetTheorems, SequenceTheorems, WellFoundedInduction

-----------------------------------------------------------------------------
(***************************************************************************)
(* Paths, as sequences of names.                                           *)
(***************************************************************************)

Routes == Seq(Nat \ {0})

(* A path above another, by its names.                                     *)
LEMMA PrefixByIndex ==
  ASSUME NEW p \in Routes, NEW q \in Routes
  PROVE  IsPrefix(p, q) <=> Len(p) <= Len(q) /\ \A i \in 1 .. Len(p) : p[i] = q[i]
  BY DEF IsPrefix, Routes

(* Paths with the same names are one.                                      *)
LEMMA SameRoute ==
  ASSUME NEW p \in Routes, NEW q \in Routes, Len(p) = Len(q), \A i \in 1 .. Len(p) : p[i] = q[i]
  PROVE  p = q
  BY DEF Routes

(* The length of a path.                                                   *)
LEMMA LenIsNat ==
  ASSUME NEW p \in Routes
  PROVE  Len(p) \in Nat
  BY DEF Routes

(* To be above is an order, and linear above one path.                     *)
LEMMA PrefixIsOrder ==
  ASSUME NEW p \in Routes, NEW q \in Routes, NEW r \in Routes
  PROVE  /\ IsPrefix(p, p)
         /\ IsPrefix(p, q) /\ IsPrefix(q, r) => IsPrefix(p, r)
         /\ IsPrefix(p, q) /\ IsPrefix(q, p) => p = q
         /\ IsPrefix(p, r) /\ IsPrefix(q, r) => IsPrefix(p, q) \/ IsPrefix(q, p)
  <1>1. IsPrefix(p, p)
    BY PrefixByIndex, LenIsNat
  <1>2. IsPrefix(p, q) /\ IsPrefix(q, r) => IsPrefix(p, r)
    BY PrefixByIndex, LenIsNat
  <1>3. IsPrefix(p, q) /\ IsPrefix(q, p) => p = q
    BY PrefixByIndex, LenIsNat, SameRoute
  <1>4. IsPrefix(p, r) /\ IsPrefix(q, r) => IsPrefix(p, q) \/ IsPrefix(q, p)
    <2> SUFFICES ASSUME IsPrefix(p, r), IsPrefix(q, r) PROVE IsPrefix(p, q) \/ IsPrefix(q, p)
      OBVIOUS
    <2>1. /\ Len(p) <= Len(r) /\ \A i \in 1 .. Len(p) : p[i] = r[i]
          /\ Len(q) <= Len(r) /\ \A i \in 1 .. Len(q) : q[i] = r[i]
      BY PrefixByIndex
    <2>2. CASE Len(p) <= Len(q)
      BY <2>1, <2>2, PrefixByIndex, LenIsNat
    <2>3. CASE Len(q) <= Len(p)
      BY <2>1, <2>3, PrefixByIndex, LenIsNat
    <2> QED BY <2>2, <2>3, LenIsNat
  <1> QED BY <1>1, <1>2, <1>3, <1>4

(* The beginning of a path.                                                *)
LEMMA PrefixOfLength ==
  ASSUME NEW p \in Routes, NEW k \in 0 .. Len(p)
  PROVE  /\ SubSeq(p, 1, k) \in Routes /\ Len(SubSeq(p, 1, k)) = k
         /\ IsPrefix(SubSeq(p, 1, k), p)
  <1>1. /\ SubSeq(p, 1, k) \in Routes /\ Len(SubSeq(p, 1, k)) = k
        /\ \A i \in 1 .. k : SubSeq(p, 1, k)[i] = p[i]
    BY DEF Routes
  <1>2. Len(p) \in Nat /\ k <= Len(p)
    BY LenIsNat
  <1>3. IsPrefix(SubSeq(p, 1, k), p)
    BY <1>1, <1>2, PrefixByIndex
  <1> QED BY <1>1, <1>3

(* What is above a path is its beginning.                                  *)
LEMMA PrefixIsCut ==
  ASSUME NEW p \in Routes, NEW r \in Routes, IsPrefix(p, r)
  PROVE  Len(p) \in 0 .. Len(r) /\ p = SubSeq(r, 1, Len(p))
  <1>1. Len(p) \in 0 .. Len(r) /\ \A i \in 1 .. Len(p) : p[i] = r[i]
    BY PrefixByIndex, LenIsNat
  <1>2. IsPrefix(SubSeq(r, 1, Len(p)), r) /\ SubSeq(r, 1, Len(p)) \in Routes
        /\ Len(SubSeq(r, 1, Len(p))) = Len(p)
    BY <1>1, PrefixOfLength
  <1>3. \A i \in 1 .. Len(p) : SubSeq(r, 1, Len(p))[i] = r[i]
    BY <1>2, PrefixByIndex
  <1> QED BY <1>1, <1>2, <1>3, SameRoute

(* The parent is the longest path above another.                           *)
LEMMA FrontIsPrefix ==
  ASSUME NEW r \in Routes, r # <<>>
  PROVE  /\ Front(r) \in Routes /\ Len(Front(r)) = Len(r) - 1 /\ Len(r) \in Nat \ {0}
         /\ IsStrictPrefix(Front(r), r)
         /\ \A p \in Routes : IsStrictPrefix(p, r) => IsPrefix(p, Front(r))
  <1>1. Len(r) \in Nat \ {0}
    BY DEF Routes
  <1>2. Front(r) \in Routes /\ Len(Front(r)) = Len(r) - 1 /\ IsPrefix(Front(r), r)
    <2>1. Len(r) - 1 \in 0 .. Len(r)
      BY <1>1
    <2> QED BY <2>1, PrefixOfLength DEF Front
  <1>3. Front(r) # r
    BY <1>1, <1>2
  <1>4. ASSUME NEW p \in Routes, IsStrictPrefix(p, r)
        PROVE  IsPrefix(p, Front(r))
    <2>1. IsPrefix(p, r) /\ p # r
      BY <1>4 DEF IsStrictPrefix
    <2>2. Len(p) # Len(r)
      BY <2>1, PrefixByIndex, SameRoute, LenIsNat
    <2>3. Len(p) <= Len(Front(r)) /\ \A i \in 1 .. Len(p) : p[i] = r[i]
      BY <1>1, <1>2, <2>1, <2>2, PrefixByIndex, LenIsNat
    <2>4. \A i \in 1 .. Len(Front(r)) : Front(r)[i] = r[i]
      BY <1>2, PrefixByIndex
    <2> QED BY <1>1, <1>2, <2>3, <2>4, PrefixByIndex, LenIsNat
  <1> QED BY <1>1, <1>2, <1>3, <1>4 DEF IsStrictPrefix

(* Where r, below p, is when p has become q.                               *)
Rebase(r, p, q) == q \o SubSeq(r, Len(p) + 1, Len(r))

(* The names of a path that has moved.                                     *)
LEMMA RebaseByIndex ==
  ASSUME NEW p \in Routes, NEW q \in Routes, NEW r \in Routes, IsPrefix(p, r)
  PROVE  /\ Rebase(r, p, q) \in Routes
         /\ Len(Rebase(r, p, q)) = Len(q) + Len(r) - Len(p)
         /\ \A i \in 1 .. Len(q) : Rebase(r, p, q)[i] = q[i]
         /\ \A i \in Len(p) + 1 .. Len(r) : Rebase(r, p, q)[Len(q) + i - Len(p)] = r[i]
  <1>1. Len(p) <= Len(r)
    BY PrefixByIndex
  <1> DEFINE t == SubSeq(r, Len(p) + 1, Len(r))
  <1>2. Len(p) \in Nat /\ Len(q) \in Nat /\ Len(r) \in Nat
    BY LenIsNat
  <1>3. /\ t \in Routes /\ Len(t) = Len(r) - Len(p)
        /\ \A i \in 1 .. Len(r) - Len(p) : t[i] = r[Len(p) + i]
    BY <1>1, <1>2 DEF Routes
  <1> HIDE DEF t
  <1>a. q \o t \in Routes /\ Len(q \o t) = Len(q) + Len(t)
    BY <1>3, ConcatProperties DEF Routes
  <1>4. q \o t \in Routes /\ Len(q \o t) = Len(q) + Len(r) - Len(p)
    BY <1>1, <1>2, <1>3, <1>a
  <1>5. ASSUME NEW i \in 1 .. Len(q)
        PROVE  (q \o t)[i] = q[i]
    <2>1. i \in 1 .. Len(q) + Len(t) /\ i <= Len(q)
      BY <1>1, <1>2, <1>3
    <2> QED BY <2>1, <1>3, ConcatProperties DEF Routes
  <1>6. ASSUME NEW i \in Len(p) + 1 .. Len(r)
        PROVE  (q \o t)[Len(q) + i - Len(p)] = r[i]
    <2> DEFINE j == i - Len(p)
    <2>1. j \in 1 .. Len(t) /\ Len(q) + i - Len(p) = Len(q) + j /\ Len(p) + j = i
      BY <1>1, <1>2, <1>3
    <2> HIDE DEF j
    <2>2. (q \o t)[Len(q) + j] = t[j]
      <3> DEFINE k == Len(q) + j
      <3>1. q \in Seq(Nat \ {0}) /\ t \in Seq(Nat \ {0})
        BY <1>3 DEF Routes
      <3>2. k \in 1 .. Len(q) + Len(t) /\ ~ (k <= Len(q)) /\ k - Len(q) = j
        <4>1. Len(t) \in Nat /\ j \in Nat
          BY <1>1, <1>2, <1>3, <2>1
        <4> QED BY <1>2, <2>1, <4>1
      <3> HIDE DEF k
      <3>3. (q \o t)[k] = t[k - Len(q)]
        BY <3>1, <3>2, ConcatProperties
      <3> QED BY <3>2, <3>3 DEF k
    <2>3. j \in 1 .. Len(r) - Len(p)
      BY <1>3, <2>1
    <2>4. t[j] = r[Len(p) + j]
      BY <1>3, <2>3, Zenon
    <2> QED BY <2>1, <2>2, <2>4, Zenon
  <1> QED BY <1>4, <1>5, <1>6 DEF Rebase, t

(* Paths that move together keep their order, and no two become one.       *)
LEMMA RebaseFacts ==
  ASSUME NEW p \in Routes, NEW q \in Routes, NEW r \in Routes, NEW s \in Routes,
         IsPrefix(p, r), IsPrefix(p, s)
  PROVE  /\ Rebase(r, p, q) \in Routes /\ IsPrefix(q, Rebase(r, p, q))
         /\ IsPrefix(r, s) <=> IsPrefix(Rebase(r, p, q), Rebase(s, p, q))
         /\ Rebase(r, p, q) = Rebase(s, p, q) => r = s
  <1> DEFINE m == Rebase(r, p, q)  n == Rebase(s, p, q)
  <1>1. /\ m \in Routes /\ Len(m) = Len(q) + Len(r) - Len(p)
        /\ \A i \in 1 .. Len(q) : m[i] = q[i]
        /\ \A i \in Len(p) + 1 .. Len(r) : m[Len(q) + i - Len(p)] = r[i]
    BY RebaseByIndex, ZenonT(60)
  <1>2. /\ n \in Routes /\ Len(n) = Len(q) + Len(s) - Len(p)
        /\ \A i \in 1 .. Len(q) : n[i] = q[i]
        /\ \A i \in Len(p) + 1 .. Len(s) : n[Len(q) + i - Len(p)] = s[i]
    BY RebaseByIndex, ZenonT(60)
  <1>3. /\ Len(p) <= Len(r) /\ \A i \in 1 .. Len(p) : p[i] = r[i]
        /\ Len(p) <= Len(s) /\ \A i \in 1 .. Len(p) : p[i] = s[i]
        /\ Len(p) \in Nat /\ Len(q) \in Nat /\ Len(r) \in Nat /\ Len(s) \in Nat
    BY PrefixByIndex, LenIsNat
  <1> HIDE DEF m, n
  <1>4. IsPrefix(q, m)
    BY <1>1, <1>3, PrefixByIndex
  <1>5. ASSUME IsPrefix(r, s) PROVE IsPrefix(m, n)
    <2>1. Len(r) <= Len(s) /\ \A i \in 1 .. Len(r) : r[i] = s[i]
      BY <1>5, PrefixByIndex
    <2>2. Len(m) <= Len(n)
      BY <1>1, <1>2, <1>3, <2>1
    <2>3. ASSUME NEW j \in 1 .. Len(m) PROVE m[j] = n[j]
      <3>1. CASE j <= Len(q)
        BY <1>1, <1>2, <1>3, <3>1
      <3>2. CASE j > Len(q)
        <4> DEFINE i == j - Len(q) + Len(p)
        <4>1. i \in Len(p) + 1 .. Len(r) /\ i \in Len(p) + 1 .. Len(s) /\ i \in 1 .. Len(r)
              /\ Len(q) + i - Len(p) = j
          BY <1>1, <1>3, <2>1, <3>2
        <4> HIDE DEF i
        <4>2. m[j] = r[i] /\ n[j] = s[i] /\ r[i] = s[i]
          <5>1. m[Len(q) + i - Len(p)] = r[i] /\ n[Len(q) + i - Len(p)] = s[i] /\ r[i] = s[i]
            BY <1>1, <1>2, <2>1, <4>1, Zenon
          <5> QED BY <4>1, <5>1, Zenon
        <4> QED BY <4>2, Zenon
      <3> QED BY <3>1, <3>2, <1>1, <1>3
    <2> QED BY <1>1, <1>2, <2>2, <2>3, PrefixByIndex
  <1>6. ASSUME IsPrefix(m, n) PROVE IsPrefix(r, s)
    <2>1. Len(m) <= Len(n) /\ \A i \in 1 .. Len(m) : m[i] = n[i]
      BY <1>1, <1>2, <1>6, PrefixByIndex
    <2>2. Len(r) <= Len(s)
      BY <1>1, <1>2, <1>3, <2>1
    <2>3. ASSUME NEW i \in 1 .. Len(r) PROVE r[i] = s[i]
      <3>1. CASE i <= Len(p)
        BY <1>3, <3>1
      <3>2. CASE i > Len(p)
        <4> DEFINE j == Len(q) + i - Len(p)
        <4>1. j \in 1 .. Len(m) /\ i \in Len(p) + 1 .. Len(r) /\ i \in Len(p) + 1 .. Len(s)
          BY <1>1, <1>3, <2>2, <3>2
        <4> QED BY <1>1, <1>2, <2>1, <4>1
      <3> QED BY <3>1, <3>2, <1>3
    <2> QED BY <2>2, <2>3, PrefixByIndex
  <1>7. ASSUME m = n PROVE r = s
    <2>1. IsPrefix(m, n)
      BY <1>1, <1>7, PrefixIsOrder
    <2>2. IsPrefix(r, s)
      BY <1>6, <2>1
    <2>3. Len(r) = Len(s)
      BY <1>1, <1>2, <1>3, <1>7
    <2> QED BY <2>2, <2>3, PrefixByIndex, SameRoute
  <1> QED BY <1>1, <1>4, <1>5, <1>6, <1>7 DEF m, n

(* Moving back.                                                            *)
LEMMA RebaseBack ==
  ASSUME NEW p \in Routes, NEW q \in Routes, NEW r \in Routes, IsPrefix(p, r)
  PROVE  /\ Rebase(Rebase(r, p, q), q, p) = r
         /\ Rebase(p, p, q) = q
  <1> DEFINE m == Rebase(r, p, q)  b == Rebase(m, q, p)
  <1>1. /\ m \in Routes /\ Len(m) = Len(q) + Len(r) - Len(p)
        /\ \A i \in Len(p) + 1 .. Len(r) : m[Len(q) + i - Len(p)] = r[i]
    BY RebaseByIndex, ZenonT(60)
  <1>2. IsPrefix(q, m)
    BY RebaseFacts
  <1> HIDE DEF m
  <1>3. /\ b \in Routes /\ Len(b) = Len(p) + Len(m) - Len(q)
        /\ \A i \in 1 .. Len(p) : b[i] = p[i]
        /\ \A i \in Len(q) + 1 .. Len(m) : b[Len(p) + i - Len(q)] = m[i]
    BY <1>1, <1>2, RebaseByIndex, ZenonT(60)
  <1> HIDE DEF b
  <1>4. /\ Len(p) <= Len(r) /\ \A i \in 1 .. Len(p) : p[i] = r[i]
        /\ Len(p) \in Nat /\ Len(q) \in Nat /\ Len(r) \in Nat
    BY PrefixByIndex, LenIsNat
  <1>5. Len(b) = Len(r)
    BY <1>1, <1>3, <1>4
  <1>6. ASSUME NEW i \in 1 .. Len(b) PROVE b[i] = r[i]
    <2>1. CASE i <= Len(p)
      BY <1>3, <1>4, <2>1
    <2>2. CASE i > Len(p)
      <3> DEFINE j == Len(q) + i - Len(p)
      <3>1. j \in Len(q) + 1 .. Len(m) /\ Len(p) + j - Len(q) = i /\ i \in Len(p) + 1 .. Len(r)
        BY <1>1, <1>4, <1>5, <2>2
      <3> QED BY <1>1, <1>3, <3>1
    <2> QED BY <2>1, <2>2, <1>4, <1>5
  <1>7. b = r
    BY <1>3, <1>5, <1>6, SameRoute
  <1>8. Rebase(p, p, q) = q
    <2>1. IsPrefix(p, p)
      BY PrefixIsOrder
    <2>a. Len(q) + Len(p) - Len(p) = Len(q)
      BY <1>4
    <2>2. /\ Rebase(p, p, q) \in Routes /\ Len(Rebase(p, p, q)) = Len(q)
          /\ \A i \in 1 .. Len(q) : Rebase(p, p, q)[i] = q[i]
      BY <2>1, <2>a, RebaseByIndex
    <2> QED BY <2>2, SameRoute
  <1> QED BY <1>7, <1>8 DEF b, m

-----------------------------------------------------------------------------
(***************************************************************************)
(* The tree.                                                               *)
(***************************************************************************)

(* The paths of callers.                                                   *)
LEMMA PathsAreRoutes ==
  /\ Paths \subseteq Routes /\ <<>> \notin Paths /\ <<>> \in Routes /\ Dirs \subseteq Routes
  /\ \A p \in Paths : Len(p) \in Nat \ {0} /\ p # <<>> /\ p \in Dirs
  /\ <<>> \in Dirs
  <1>1. /\ Paths \subseteq Routes /\ <<>> \notin Paths /\ <<>> \in Routes
    BY TreeAssumption DEF Routes
  <1>2. ASSUME NEW p \in Paths PROVE Len(p) \in Nat \ {0} /\ p # <<>>
    BY <1>1 DEF Routes
  <1> QED BY <1>1, <1>2 DEF Dirs

(* The root is above every path.                                           *)
LEMMA RootIsPrefix ==
  ASSUME NEW p \in Routes
  PROVE  IsPrefix(<<>>, p)
  BY DEF IsPrefix, Routes

(* What is above a path is a path or the root.                             *)
LEMMA PrefixesArePaths ==
  ASSUME NEW p \in Paths, NEW d \in Routes, IsPrefix(d, p)
  PROVE  d \in Dirs /\ (d # <<>> => d \in Paths)
  <1>1. Len(d) \in 0 .. Len(p) /\ d = SubSeq(p, 1, Len(d))
    BY PathsAreRoutes, PrefixIsCut
  <1>2. d \in Prefixes(p)
    BY <1>1 DEF Prefixes
  <1> QED BY <1>2, TreeAssumption DEF Dirs

(* The directory that a path is in.                                        *)
LEMMA FrontOfPath ==
  ASSUME NEW p \in Paths
  PROVE  /\ Front(p) \in Routes /\ Front(p) \in Dirs /\ IsStrictPrefix(Front(p), p) /\ Front(p) # p
         /\ Len(Front(p)) = Len(p) - 1
         /\ Front(p) # <<>> => Front(p) \in Paths
         /\ \A d \in Routes : IsStrictPrefix(d, p) => IsPrefix(d, Front(p))
  <1>1. /\ Front(p) \in Routes /\ IsStrictPrefix(Front(p), p)
        /\ Len(Front(p)) = Len(p) - 1
        /\ \A d \in Routes : IsStrictPrefix(d, p) => IsPrefix(d, Front(p))
    BY PathsAreRoutes, FrontIsPrefix
  <1>2. IsPrefix(Front(p), p) /\ Front(p) # p
    BY <1>1 DEF IsStrictPrefix
  <1> QED BY <1>1, <1>2, PrefixesArePaths

(* The parents that mkdirs and rmdirs visit.                               *)
LEMMA ParentIsPath ==
  ASSUME NEW p \in Paths, NEW i \in 1 .. Len(p) - 1
  PROVE  /\ Parent(p, i) \in Paths /\ IsStrictPrefix(Parent(p, i), p)
         /\ Len(Parent(p, i)) = i
  <1>1. p \in Routes /\ Len(p) \in Nat
    BY PathsAreRoutes
  <1>2. i \in 0 .. Len(p) /\ i # 0 /\ i # Len(p)
    BY <1>1
  <1>3. Parent(p, i) \in Routes /\ Len(Parent(p, i)) = i /\ IsPrefix(Parent(p, i), p)
    BY <1>1, <1>2, PrefixOfLength DEF Parent
  <1>4. Len(<<>>) = 0
    OBVIOUS
  <1> QED BY <1>2, <1>3, <1>4, PrefixesArePaths DEF IsStrictPrefix

(* There are at most as many of them as a path has, and as are covered.    *)
LEMMA ParentsAreSome ==
  ASSUME NEW p \in Paths
  PROVE  Parents(p) \in Nat /\ Parents(p) <= Len(p) - 1 /\ Parents(p) <= COVERED
  BY PathsAreRoutes, TreeAssumption DEF Parents

Kinds == {"none", "file", "dir"}
Trees == [Paths -> Kinds]

(* The second conjunct of TypeOK: what exists is in a directory.           *)
IsTree(T) == T \in Trees /\ \A p \in Paths : T[p] # "none" => Kind(T, Front(p)) = "dir"

(* A set of naturals that has an element has a least one.                  *)
LEMMA Least ==
  ASSUME NEW S \in SUBSET Nat, S # {}
  PROVE  \E n \in S : \A m \in 0 .. n - 1 : m \notin S
  <1>1. \E x \in S : \A y \in S : ~ (<<y, x>> \in OpToRel(<, Nat))
    BY WFMin, NatLessThanWellFounded
  <1>2. PICK x \in S : \A y \in S : ~ (y < x)
    BY <1>1 DEF OpToRel
  <1> QED BY <1>2

(* Everything above what exists is a directory, by the shortest path for   *)
(* which it is not.                                                        *)
LEMMA AncestorsAreDirs ==
  ASSUME NEW T, IsTree(T), NEW p \in Paths, T[p] # "none",
         NEW d \in Routes, IsStrictPrefix(d, p)
  PROVE  d \in Dirs /\ Kind(T, d) = "dir"
  <1> DEFINE Claim(r) == \A e \in Routes : IsStrictPrefix(e, r) => Kind(T, e) = "dir"
             Bad == {n \in Nat : \E r \in Paths : Len(r) = n /\ T[r] # "none" /\ ~ Claim(r)}
  <1>1. ASSUME Bad # {} PROVE FALSE
    <2>1. PICK n \in Bad : \A m \in 0 .. n - 1 : m \notin Bad
      BY <1>1, Least
    <2> HIDE DEF Bad
    <2>2. PICK r \in Paths : n \in Nat /\ Len(r) = n /\ T[r] # "none" /\ ~ Claim(r)
      BY <2>1 DEF Bad
    <2>3. PICK e \in Routes : IsStrictPrefix(e, r) /\ Kind(T, e) # "dir"
      BY <2>2
    <2>4. /\ Kind(T, Front(r)) = "dir" /\ IsPrefix(e, Front(r)) /\ Front(r) \in Routes
          /\ Len(Front(r)) = n - 1 /\ n # 0
      BY <2>2, <2>3, FrontOfPath, PathsAreRoutes DEF IsTree
    <2>5. e # Front(r) /\ IsStrictPrefix(e, Front(r))
      BY <2>3, <2>4 DEF IsStrictPrefix
    <2>6. Front(r) # <<>>
      BY <2>3, <2>4, <2>5, RootIsPrefix, PrefixIsOrder, PathsAreRoutes
    <2>7. Front(r) \in Paths /\ T[Front(r)] # "none"
      BY <2>2, <2>4, <2>6, FrontOfPath DEF Kind
    <2>8. n - 1 \in 0 .. n - 1 /\ n - 1 \in Nat
      BY <2>2, <2>4
    <2>9. n - 1 \notin Bad
      BY <2>1, <2>8
    <2>10. Claim(Front(r))
      BY <2>4, <2>7, <2>8, <2>9 DEF Bad
    <2> QED BY <2>3, <2>5, <2>10
  <1>2. Len(p) \in Nat /\ Len(p) \notin Bad
    BY <1>1, PathsAreRoutes
  <1>3. Claim(p)
    BY <1>2
  <1>4. d \in Dirs
    BY PrefixesArePaths DEF IsStrictPrefix
  <1> QED BY <1>3, <1>4

(* Making a directory keeps the tree one.                                  *)
LEMMA MkdirTree ==
  ASSUME NEW T, IsTree(T), NEW r \in Paths, NEW X
  PROVE  IsTree(Mkdir(T, r, X))
  <1>1. CASE CanMake(T, r) /\ r \notin X
    <2> DEFINE U == [T EXCEPT ![r] = "dir"]
    <2>1. U \in Trees /\ Mkdir(T, r, X) = U
      BY <1>1 DEF IsTree, Trees, Kinds, Mkdir
    <2>2. ASSUME NEW p \in Paths, U[p] # "none"
          PROVE  Kind(U, Front(p)) = "dir"
      <3>1. Kind(T, Front(p)) = "dir"
        BY <1>1, <2>2 DEF IsTree, CanMake, Trees
      <3> QED BY <3>1, FrontOfPath DEF Kind, IsTree, Trees
    <2> QED BY <2>1, <2>2 DEF IsTree
  <1> QED BY <1>1 DEF Mkdir

(* So does removing one that is empty.                                     *)
LEMMA RmdirTree ==
  ASSUME NEW T, IsTree(T), NEW r \in Paths, NEW X
  PROVE  IsTree(Rmdir(T, r, X))
  <1>1. CASE r \in EmptyDirs(T) \ X
    <2> DEFINE U == [T EXCEPT ![r] = "none"]
    <2>1. U \in Trees /\ Rmdir(T, r, X) = U
      BY <1>1 DEF IsTree, Trees, Kinds, Rmdir
    <2>2. ASSUME NEW p \in Paths, U[p] # "none"
          PROVE  Kind(U, Front(p)) = "dir"
      <3>1. Kind(T, Front(p)) = "dir" /\ T[p] # "none"
        BY <2>2 DEF IsTree, Trees
      <3>2. Front(p) # r
        BY <1>1, <3>1, FrontOfPath DEF EmptyDirs, Below
      <3> QED BY <3>1, <3>2, FrontOfPath DEF Kind, IsTree, Trees
    <2> QED BY <2>1, <2>2 DEF IsTree
  <1> QED BY <1>1 DEF Rmdir

-----------------------------------------------------------------------------
(***************************************************************************)
(* The parents that are made and removed.                                  *)
(***************************************************************************)

(* The first n values of an iteration.                                     *)
Iterated(S, n, x, step) ==
  \E f \in [0 .. n -> S] : f[0] = x /\ \A i \in 1 .. n : f[i] = step[<<f[i - 1], i>>]

(* Every iteration has them, by the least number of steps for which it has *)
(* not: so the recursive definitions of MadeParents and RemovedParents may *)
(* be unfolded.                                                            *)
LEMMA Iterates ==
  ASSUME NEW S, NEW n \in Nat, NEW x \in S, NEW step \in [S \X (1 .. n) -> S]
  PROVE  Iterated(S, n, x, step)
  <1> DEFINE Good(k) == \E f \in [0 .. k -> S] :
                          f[0] = x /\ \A i \in 1 .. k : f[i] = step[<<f[i - 1], i>>]
             Bad == {k \in 0 .. n : ~ Good(k)}
  <1>1. ASSUME Bad # {} PROVE FALSE
    <2>1. PICK k \in Bad : \A m \in 0 .. k - 1 : m \notin Bad
      <3>1. Bad \in SUBSET Nat
        OBVIOUS
      <3> HIDE DEF Bad
      <3> QED BY <1>1, <3>1, Least
    <2>2. k \in 0 .. n /\ ~ Good(k)
      OBVIOUS
    <2>3. k # 0
      <3>1. ASSUME k = 0 PROVE Good(0)
        <4> DEFINE f == [i \in 0 .. 0 |-> x]
        <4>1. f \in [0 .. 0 -> S] /\ f[0] = x /\ \A i \in 1 .. 0 : FALSE
          OBVIOUS
        <4> QED BY <4>1
      <3> QED BY <2>2, <3>1
    <2>4. k - 1 \in 0 .. k - 1 /\ k - 1 \in 0 .. n /\ k \in Nat
      BY <2>2, <2>3
    <2>5. Good(k - 1)
      BY <2>1, <2>4
    <2>6. PICK f \in [0 .. k - 1 -> S] :
            f[0] = x /\ \A i \in 1 .. k - 1 : f[i] = step[<<f[i - 1], i>>]
      BY <2>5
    <2> DEFINE g == [i \in 0 .. k |-> IF i = k THEN step[<<f[k - 1], k>>] ELSE f[i]]
    <2>7. step[<<f[k - 1], k>>] \in S
      BY <2>2, <2>3, <2>4, <2>6
    <2>8. g \in [0 .. k -> S]
      BY <2>4, <2>6, <2>7
    <2>9. g[0] = x
      BY <2>3, <2>4, <2>6
    <2>10. ASSUME NEW i \in 1 .. k PROVE g[i] = step[<<g[i - 1], i>>]
      <3>1. i - 1 \in 0 .. k /\ i - 1 # k /\ i \in 0 .. k
        BY <2>4
      <3>2. g[i - 1] = f[i - 1]
        BY <3>1
      <3>3. CASE i = k
        BY <3>1, <3>2, <3>3
      <3>4. CASE i # k
        <4>1. i \in 1 .. k - 1 /\ g[i] = f[i]
          BY <2>4, <3>1, <3>4
        <4> QED BY <2>6, <3>2, <4>1
      <3> QED BY <3>3, <3>4
    <2>11. Good(k)
      BY <2>8, <2>9, <2>10
    <2> QED BY <2>2, <2>11
  <1>2. n \in 0 .. n
    OBVIOUS
  <1>3. n \notin Bad
    <2> HIDE DEF Bad
    <2> QED BY <1>1
  <1> QED BY <1>2, <1>3 DEF Iterated

(* The parents that are made.                                              *)
LEMMA MadeDef ==
  ASSUME NEW T \in Trees, NEW p \in Paths, NEW X
  PROVE  LET m == MadeParents(T, p, X) IN
         m = [i \in 0 .. Parents(p) |-> IF i = 0 THEN T ELSE Mkdir(m[i - 1], Parent(p, i), X)]
  <1> DEFINE n == Parents(p)
             step == [x \in Trees \X (1 .. n) |-> Mkdir(x[1], Parent(p, x[2]), X)]
  <1>1. n \in Nat
    BY ParentsAreSome
  <1>2. step \in [Trees \X (1 .. n) -> Trees]
    BY DEF Mkdir, Trees, Kinds
  <1> HIDE DEF n
  <1>3. PICK f \in [0 .. n -> Trees] : f[0] = T /\ \A i \in 1 .. n : f[i] = step[<<f[i - 1], i>>]
    <2> HIDE DEF step
    <2>1. Iterated(Trees, n, T, step)
      BY <1>1, <1>2, Iterates
    <2> QED BY <2>1 DEF Iterated
  <1>4. ASSUME NEW i \in 0 .. n
        PROVE  f[i] = IF i = 0 THEN T ELSE Mkdir(f[i - 1], Parent(p, i), X)
    <2>1. CASE i # 0
      <3>1. i \in 1 .. n /\ f[i - 1] \in Trees
        BY <1>1, <1>3, <2>1
      <3> QED BY <1>3, <3>1, <2>1
    <2> QED BY <1>3, <2>1
  <1>5. f = [i \in 0 .. n |-> IF i = 0 THEN T ELSE Mkdir(f[i - 1], Parent(p, i), X)]
    BY <1>4
  <1> QED BY <1>5 DEF MadeParents, n

(* The parents that are removed.                                           *)
LEMMA RemovedDef ==
  ASSUME NEW T \in Trees, NEW p \in Paths, NEW X
  PROVE  LET m == RemovedParents(T, p, X) IN
         m = [i \in 0 .. Parents(p) |->
                IF i = 0 THEN T ELSE Rmdir(m[i - 1], Parent(p, Parents(p) - i + 1), X)]
  <1> DEFINE n == Parents(p)
             step == [x \in Trees \X (1 .. n) |-> Rmdir(x[1], Parent(p, n - x[2] + 1), X)]
  <1>1. n \in Nat
    BY ParentsAreSome
  <1>2. step \in [Trees \X (1 .. n) -> Trees]
    BY DEF Rmdir, Trees, Kinds
  <1> HIDE DEF n
  <1>3. PICK f \in [0 .. n -> Trees] : f[0] = T /\ \A i \in 1 .. n : f[i] = step[<<f[i - 1], i>>]
    <2> HIDE DEF step
    <2>1. Iterated(Trees, n, T, step)
      BY <1>1, <1>2, Iterates
    <2> QED BY <2>1 DEF Iterated
  <1>4. ASSUME NEW i \in 0 .. n
        PROVE  f[i] = IF i = 0 THEN T ELSE Rmdir(f[i - 1], Parent(p, n - i + 1), X)
    <2>1. CASE i # 0
      <3>1. i \in 1 .. n /\ f[i - 1] \in Trees
        BY <1>1, <1>3, <2>1
      <3> QED BY <1>3, <3>1, <2>1
    <2> QED BY <1>3, <2>1
  <1>5. f = [i \in 0 .. n |-> IF i = 0 THEN T ELSE Rmdir(f[i - 1], Parent(p, n - i + 1), X)]
    BY <1>4
  <1> QED BY <1>5 DEF RemovedParents, n

(* Directories above p were added to T.                                    *)
Grown(T, U, p) ==
  /\ IsTree(U)
  /\ \A r \in Paths :
       \/ U[r] = T[r]
       \/ T[r] = "none" /\ U[r] = "dir" /\ IsStrictPrefix(r, p)

(* Directories above p, as far as they are covered, were removed from T.   *)
Shrunk(T, U, p) ==
  /\ IsTree(U)
  /\ \A r \in Paths :
       \/ U[r] = T[r]
       \/ T[r] = "dir" /\ U[r] = "none" /\ IsStrictPrefix(r, p) /\ Len(r) <= Parents(p)

(* One step of mkdirs.                                                     *)
LEMMA MkdirGrows ==
  ASSUME NEW T, NEW V, NEW X, NEW p \in Paths, Grown(T, V, p), NEW r \in Paths, IsStrictPrefix(r, p)
  PROVE  Grown(T, Mkdir(V, r, X), p)
  <1>1. IsTree(Mkdir(V, r, X))
    BY MkdirTree DEF Grown
  <1>2. ASSUME NEW s \in Paths
        PROVE  \/ Mkdir(V, r, X)[s] = V[s]
               \/ V[s] = "none" /\ Mkdir(V, r, X)[s] = "dir" /\ s = r
    BY DEF Mkdir, CanMake, Grown, IsTree, Trees
  <1> QED BY <1>1, <1>2 DEF Grown

(* mkdirs only adds parents of the path, by the least step for which it    *)
(* has not.                                                                *)
LEMMA MkdirsGrow ==
  ASSUME NEW T, IsTree(T), NEW p \in Paths, NEW X
  PROVE  Grown(T, mkdirs(T, p, X), p)
  <1> DEFINE n == Parents(p)
             m == MadeParents(T, p, X)
             Bad == {i \in 0 .. n : ~ Grown(T, m[i], p)}
  <1>0. Grown(T, T, p)
    BY DEF Grown
  <1>1. /\ n \in Nat /\ n <= Len(p) - 1
        /\ m = [i \in 0 .. n |-> IF i = 0 THEN T ELSE Mkdir(m[i - 1], Parent(p, i), X)]
    BY ParentsAreSome, MadeDef DEF IsTree
  <1> HIDE DEF m, n
  <1>2. ASSUME Bad # {} PROVE FALSE
    <2>1. PICK i \in Bad : \A j \in 0 .. i - 1 : j \notin Bad
      <3>1. Bad \in SUBSET Nat
        BY <1>1
      <3> HIDE DEF Bad
      <3> QED BY <1>2, <3>1, Least
    <2>2. i \in 0 .. n /\ ~ Grown(T, m[i], p)
      OBVIOUS
    <2>3. i # 0 /\ m[i] = Mkdir(m[i - 1], Parent(p, i), X)
      BY <1>0, <1>1, <2>2
    <2>4. i - 1 \in 0 .. i - 1 /\ i - 1 \in 0 .. n /\ i \in 1 .. Len(p) - 1
      BY <1>1, <2>2, <2>3, PathsAreRoutes
    <2>5. Grown(T, m[i - 1], p)
      BY <2>1, <2>4
    <2> QED BY <2>2, <2>3, <2>4, <2>5, MkdirGrows, ParentIsPath
  <1>3. n \in 0 .. n
    BY <1>1
  <1>4. Grown(T, m[n], p)
    <2>1. n \notin Bad
      <3> HIDE DEF Bad
      <3> QED BY <1>2
    <2> QED BY <1>3, <2>1
  <1> QED BY <1>0, <1>4 DEF mkdirs, m, n

(* One step of rmdirs.                                                     *)
LEMMA RmdirShrinks ==
  ASSUME NEW T, NEW V, NEW X, NEW p \in Paths, Shrunk(T, V, p),
         NEW r \in Paths, IsStrictPrefix(r, p), Len(r) <= Parents(p)
  PROVE  Shrunk(T, Rmdir(V, r, X), p)
  <1>1. IsTree(Rmdir(V, r, X))
    BY RmdirTree DEF Shrunk
  <1>2. ASSUME NEW s \in Paths
        PROVE  \/ Rmdir(V, r, X)[s] = V[s]
               \/ V[s] = "dir" /\ Rmdir(V, r, X)[s] = "none" /\ s = r
    BY DEF Rmdir, EmptyDirs, Shrunk, IsTree, Trees
  <1> QED BY <1>1, <1>2 DEF Shrunk

(* The directory that rmdirs tries is gone, not empty, or refused; those   *)
(* below that were so stay so.                                             *)
LEMMA RmdirLeaves ==
  ASSUME NEW V, IsTree(V), NEW r \in Paths, NEW X
  PROVE  /\ r \notin EmptyDirs(Rmdir(V, r, X)) \ X
         /\ \A d \in Paths :
              d \notin EmptyDirs(V) \ X /\ ~ IsStrictPrefix(d, r) =>
                d \notin EmptyDirs(Rmdir(V, r, X)) \ X
  <1>1. CASE r \notin EmptyDirs(V) \ X
    BY <1>1 DEF Rmdir
  <1>2. CASE r \in EmptyDirs(V) \ X
    <2> DEFINE U == [V EXCEPT ![r] = "none"]
    <2>1. Rmdir(V, r, X) = U /\ V \in Trees
      BY <1>2 DEF Rmdir, IsTree
    <2>2. U[r] = "none" /\ \A s \in Paths : s # r => U[s] = V[s]
      BY <2>1 DEF Trees
    <2> HIDE DEF U
    <2>3. r \notin EmptyDirs(U)
      BY <2>2 DEF EmptyDirs
    <2>4. ASSUME NEW d \in Paths, d \in EmptyDirs(U), ~ IsStrictPrefix(d, r)
          PROVE  d \in EmptyDirs(V)
      <3>1. U[d] = "dir" /\ Below(U, d) = {}
        BY <2>4 DEF EmptyDirs
      <3>2. V[d] = "dir"
        BY <2>2, <3>1
      <3>3. Below(V, d) \subseteq Below(U, d)
        BY <2>2, <2>4 DEF Below
      <3> QED BY <3>1, <3>2, <3>3 DEF EmptyDirs
    <2> QED BY <2>1, <2>3, <2>4
  <1> QED BY <1>1, <1>2

(* rmdirs removes no more than covered parents, and leaves none of them    *)
(* empty that littlefs does not refuse to remove.                          *)
LEMMA RmdirsShrink ==
  ASSUME NEW T, IsTree(T), NEW p \in Paths, NEW X
  PROVE  /\ Shrunk(T, rmdirs(T, p, X), p)
         /\ SPIFFS_COMPAT =>
              \A k \in 1 .. Parents(p) : Parent(p, k) \notin EmptyDirs(rmdirs(T, p, X)) \ X
  <1> DEFINE n == Parents(p)
             m == RemovedParents(T, p, X)
             Good(i) == /\ Shrunk(T, m[i], p)
                        /\ \A k \in n - i + 1 .. n : Parent(p, k) \notin EmptyDirs(m[i]) \ X
             Bad == {i \in 0 .. n : ~ Good(i)}
  <1>0. Shrunk(T, T, p)
    BY DEF Shrunk
  <1>1. /\ n \in Nat /\ n <= Len(p) - 1
        /\ m = [i \in 0 .. n |-> IF i = 0 THEN T ELSE Rmdir(m[i - 1], Parent(p, n - i + 1), X)]
    BY ParentsAreSome, RemovedDef DEF IsTree
  <1>2. n = Parents(p)
    OBVIOUS
  <1> HIDE DEF m, n
  <1>3. ASSUME Bad # {} PROVE FALSE
    <2>1. PICK i \in Bad : \A j \in 0 .. i - 1 : j \notin Bad
      <3>1. Bad \in SUBSET Nat
        BY <1>1
      <3> HIDE DEF Bad
      <3> QED BY <1>3, <3>1, Least
    <2>2. i \in 0 .. n /\ ~ Good(i)
      OBVIOUS
    <2>3. i # 0
      <3>1. m[0] = T /\ \A k \in n - 0 + 1 .. n : FALSE
        BY <1>1
      <3> QED BY <1>0, <2>2, <3>1
    <2> DEFINE r == Parent(p, n - i + 1)  V == m[i - 1]
    <2>4. m[i] = Rmdir(V, r, X)
      BY <1>1, <2>2, <2>3
    <2>5. i - 1 \in 0 .. i - 1 /\ i - 1 \in 0 .. n /\ n - i + 1 \in 1 .. Len(p) - 1 /\ n - i + 1 <= n
      BY <1>1, <2>2, <2>3, PathsAreRoutes
    <2>6. Good(i - 1)
      BY <2>1, <2>5
    <2>7. r \in Paths /\ IsStrictPrefix(r, p) /\ Len(r) = n - i + 1
      BY <2>5, ParentIsPath
    <2>8. Shrunk(T, m[i], p)
      BY <1>2, <2>4, <2>5, <2>6, <2>7, RmdirShrinks
    <2>9. ASSUME NEW k \in n - i + 1 .. n PROVE Parent(p, k) \notin EmptyDirs(m[i]) \ X
      <3>1. IsTree(V)
        BY <2>6 DEF Shrunk
      <3>2. CASE k = n - i + 1
        BY <2>4, <2>7, <3>1, <3>2, RmdirLeaves
      <3>3. CASE k # n - i + 1
        <4>1. k \in n - (i - 1) + 1 .. n /\ k \in 1 .. Len(p) - 1 /\ k > n - i + 1
          BY <1>1, <2>2, <2>3, <3>3, PathsAreRoutes
        <4>2. Parent(p, k) \notin EmptyDirs(V) \ X
          BY <2>6, <4>1
        <4>3. Parent(p, k) \in Paths /\ Len(Parent(p, k)) = k
          BY <4>1, ParentIsPath
        <4>4. ~ IsStrictPrefix(Parent(p, k), r)
          BY <2>5, <2>7, <4>1, <4>3 DEF IsStrictPrefix, IsPrefix
        <4> QED BY <2>4, <2>7, <3>1, <4>2, <4>3, <4>4, RmdirLeaves
      <3> QED BY <3>2, <3>3
    <2> QED BY <2>2, <2>8, <2>9
  <1>4. n \in 0 .. n /\ n - n + 1 = 1
    BY <1>1
  <1>5. Good(n)
    <2>1. n \notin Bad
      <3> HIDE DEF Bad
      <3> QED BY <1>3
    <2> QED BY <1>4, <2>1
  <1>6. Shrunk(T, m[n], p) /\ \A k \in 1 .. n : Parent(p, k) \notin EmptyDirs(m[n]) \ X
    BY <1>4, <1>5
  <1> QED BY <1>0, <1>6 DEF rmdirs, m, n

-----------------------------------------------------------------------------
(***************************************************************************)
(* Rename.                                                                 *)
(***************************************************************************)

(* MovedPath by its cases.                                                 *)
LEMMA MovedIsRebased ==
  ASSUME NEW r \in Routes, NEW p \in Routes, NEW q \in Routes, r # NULL
  PROVE  /\ IsPrefix(p, r) => MovedPath(r, p, q) = Rebase(r, p, q)
         /\ ~ IsPrefix(p, r) => MovedPath(r, p, q) = r
  BY DEF MovedPath, Rebase

(* NULL is not the directory of a stream.                                  *)
LEMMA NullIsNoDir == NULL \notin Dirs
  BY TreeAssumption DEF Dirs

(* What moves with p.                                                      *)
Movers(T, p) == {p} \cup Below(T, p)

(* It moves below q.                                                       *)
LEMMA MoversFacts ==
  ASSUME NEW T, IsTree(T), NEW p \in Paths, NEW q \in Paths, CanRename(T, p, q),
         NEW o \in Movers(T, p)
  PROVE  /\ o \in Paths /\ T[o] # "none" /\ IsPrefix(p, o)
         /\ MovedPath(o, p, q) = Rebase(o, p, q)
         /\ MovedPath(o, p, q) \in Paths /\ IsPrefix(q, MovedPath(o, p, q))
         /\ MovedPath(p, p, q) = q
         /\ o = p \/ IsStrictPrefix(p, o)
  <1>1. /\ o \in Paths /\ T[o] # "none" /\ (o = p \/ IsStrictPrefix(p, o))
        /\ p \in Routes /\ q \in Routes /\ o \in Routes
    BY PathsAreRoutes DEF Movers, Below, CanRename
  <1>2. IsPrefix(p, o) /\ IsPrefix(p, p)
    BY <1>1, PrefixIsOrder DEF IsStrictPrefix
  <1>3. o # NULL /\ p # NULL
    BY <1>1, NullIsNoDir, PathsAreRoutes
  <1>4. MovedPath(o, p, q) = Rebase(o, p, q) /\ MovedPath(p, p, q) = q
    BY <1>1, <1>2, <1>3, MovedIsRebased, RebaseBack
  <1>5. MovedPath(o, p, q) \in Paths
    BY <1>4 DEF CanRename, Movers
  <1>6. IsPrefix(q, MovedPath(o, p, q))
    BY <1>1, <1>2, <1>4, RebaseFacts
  <1> QED BY <1>1, <1>2, <1>4, <1>5, <1>6

(* No two entries move to the same place.                                  *)
LEMMA MoversDiffer ==
  ASSUME NEW T, IsTree(T), NEW p \in Paths, NEW q \in Paths, CanRename(T, p, q),
         NEW o \in Movers(T, p), NEW u \in Movers(T, p)
  PROVE  /\ MovedPath(o, p, q) = MovedPath(u, p, q) => o = u
         /\ IsPrefix(o, u) <=> IsPrefix(MovedPath(o, p, q), MovedPath(u, p, q))
  <1>1. o \in Paths /\ IsPrefix(p, o) /\ MovedPath(o, p, q) = Rebase(o, p, q)
    BY MoversFacts
  <1>2. u \in Paths /\ IsPrefix(p, u) /\ MovedPath(u, p, q) = Rebase(u, p, q)
    BY MoversFacts
  <1>3. o \in Routes /\ u \in Routes /\ p \in Routes /\ q \in Routes
    BY <1>1, <1>2, PathsAreRoutes
  <1>4. /\ IsPrefix(o, u) <=> IsPrefix(Rebase(o, p, q), Rebase(u, p, q))
        /\ Rebase(o, p, q) = Rebase(u, p, q) => o = u
    BY <1>1, <1>2, <1>3, RebaseFacts
  <1> QED BY <1>1, <1>2, <1>4

(* Neither of the paths of a rename is above the other, and nothing is     *)
(* below the destination.                                                  *)
LEMMA RenameApart ==
  ASSUME NEW T, IsTree(T), NEW p \in Paths, NEW q \in Paths, CanRename(T, p, q)
  PROVE  /\ ~ IsPrefix(p, q) /\ ~ IsPrefix(q, p)
         /\ \A r \in Paths : IsStrictPrefix(q, r) => T[r] = "none"
  <1>1. ASSUME NEW r \in Paths, IsStrictPrefix(q, r), T[r] # "none" PROVE FALSE
    <2>1. Kind(T, q) = "dir"
      BY <1>1, AncestorsAreDirs, PathsAreRoutes
    <2>2. T[q] = "dir"
      BY <2>1, PathsAreRoutes DEF Kind
    <2> QED BY <1>1, <2>2 DEF CanRename, Below
  <1>2. ~ IsPrefix(p, q) /\ T[p] # "none"
    BY DEF CanRename
  <1>3. ~ IsPrefix(q, p)
    BY <1>1, <1>2, PathsAreRoutes, PrefixIsOrder DEF IsStrictPrefix
  <1> QED BY <1>1, <1>2, <1>3

(* The tree after a rename: what is at or below the destination came from  *)
(* the source, nothing is left there, and the rest is as it was.           *)
LEMMA RenamedTree ==
  ASSUME NEW T, IsTree(T), NEW p \in Paths, NEW q \in Paths, CanRename(T, p, q)
  PROVE  LET R == lfs_rename(T, p, q) IN
         /\ R \in Trees
         /\ \A o \in Movers(T, p) : R[MovedPath(o, p, q)] = T[o]
         /\ \A r \in Paths : IsPrefix(q, r) /\ R[r] # "none" =>
              \E o \in Movers(T, p) : r = MovedPath(o, p, q) /\ R[r] = T[o]
         /\ \A r \in Paths : IsPrefix(p, r) => R[r] = "none"
         /\ \A r \in Paths : ~ IsPrefix(q, r) /\ ~ IsPrefix(p, r) => R[r] = T[r]
  <1> DEFINE R == lfs_rename(T, p, q)
             MovesTo(r) == {o \in Movers(T, p) : MovedPath(o, p, q) = r}
  <1>1. R = [r \in Paths |-> IF MovesTo(r) # {} THEN T[CHOOSE o \in MovesTo(r) : TRUE]
                             ELSE IF IsPrefix(p, r) THEN "none" ELSE T[r]]
    BY DEF lfs_rename, Movers
  <1> HIDE DEF R
  <1>2. ASSUME NEW r \in Paths, NEW o \in MovesTo(r)
        PROVE  R[r] = T[o] /\ o \in Movers(T, p) /\ r = MovedPath(o, p, q)
    <2>1. \A u \in MovesTo(r) : u = o
      BY MoversDiffer
    <2>2. (CHOOSE u \in MovesTo(r) : TRUE) = o
      <3> HIDE DEF MovesTo
      <3> QED BY <2>1
    <2> QED BY <1>1, <2>2
  <1>3. ASSUME NEW r \in Paths, MovesTo(r) = {}
        PROVE  R[r] = IF IsPrefix(p, r) THEN "none" ELSE T[r]
    BY <1>1, <1>3
  <1>4. ASSUME NEW o \in Movers(T, p)
        PROVE  R[MovedPath(o, p, q)] = T[o] /\ MovedPath(o, p, q) \in Paths
    <2>1. MovedPath(o, p, q) \in Paths /\ o \in MovesTo(MovedPath(o, p, q))
      BY MoversFacts
    <2> QED BY <1>2, <2>1
  <1>5. ASSUME NEW r \in Paths, IsPrefix(q, r), R[r] # "none"
        PROVE  \E o \in Movers(T, p) : r = MovedPath(o, p, q) /\ R[r] = T[o]
    <2>1. CASE MovesTo(r) # {}
      BY <1>2, <2>1
    <2>2. CASE MovesTo(r) = {}
      <3>1. ~ IsPrefix(p, r) /\ R[r] = T[r]
        BY <1>3, <1>5, <2>2
      <3>2. p \in Movers(T, p)
        BY DEF Movers
      <3>3. q # r
        BY <2>2, <3>2, MoversFacts
      <3>4. T[r] = "none"
        BY <1>5, <3>3, RenameApart DEF IsStrictPrefix
      <3> QED BY <1>5, <3>1, <3>4
    <2> QED BY <2>1, <2>2
  <1>6. ASSUME NEW r \in Paths, ~ IsPrefix(q, r)
        PROVE  MovesTo(r) = {}
    BY <1>6, MoversFacts
  <1>7. ASSUME NEW r \in Paths, IsPrefix(p, r) PROVE R[r] = "none"
    <2>1. ~ IsPrefix(q, r)
      BY <1>7, RenameApart, PathsAreRoutes, PrefixIsOrder
    <2> QED BY <1>3, <1>6, <1>7, <2>1
  <1>8. ASSUME NEW r \in Paths, ~ IsPrefix(p, r), ~ IsPrefix(q, r) PROVE R[r] = T[r]
    BY <1>3, <1>6, <1>8
  <1>9. R \in Trees
    <2>1. ASSUME NEW r \in Paths PROVE R[r] \in Kinds
      <3>1. CASE MovesTo(r) = {}
        BY <1>3, <3>1 DEF IsTree, Trees, Kinds
      <3>2. CASE MovesTo(r) # {}
        BY <1>2, <3>2, MoversFacts DEF IsTree, Trees
      <3> QED BY <3>1, <3>2
    <2> QED BY <1>1, <2>1 DEF Trees
  <1> QED BY <1>4, <1>5, <1>7, <1>8, <1>9 DEF R

(* An entry below the source moves with its directory.                     *)
LEMMA FrontMoves ==
  ASSUME NEW T, IsTree(T), NEW p \in Paths, NEW q \in Paths, CanRename(T, p, q),
         NEW o \in Movers(T, p), o # p
  PROVE  Front(o) \in Movers(T, p) /\ Front(MovedPath(o, p, q)) = MovedPath(Front(o), p, q)
         /\ T[Front(o)] = "dir"
  <1> DEFINE f == Front(o)  m == MovedPath(o, p, q)  n == MovedPath(f, p, q)
  <1>1. /\ o \in Paths /\ T[o] # "none" /\ IsStrictPrefix(p, o)
        /\ p \in Routes /\ q \in Routes /\ o \in Routes
    BY MoversFacts, PathsAreRoutes
  <1>2. IsPrefix(p, f) /\ f \in Routes /\ Len(f) = Len(o) - 1 /\ IsPrefix(f, o)
    BY <1>1, FrontOfPath DEF IsStrictPrefix
  <1>3. f # <<>> /\ f \in Paths
    <2>1. f # <<>>
      BY <1>1, <1>2, RootIsPrefix, PrefixIsOrder, PathsAreRoutes
    <2> QED BY <1>1, <2>1, FrontOfPath
  <1>4. T[f] = "dir"
    BY <1>1, <1>3 DEF IsTree, Kind
  <1>5. f \in Movers(T, p)
    BY <1>2, <1>3, <1>4 DEF Movers, Below, IsStrictPrefix
  <1>6. m = Rebase(o, p, q) /\ n = Rebase(f, p, q) /\ m \in Paths /\ n \in Paths /\ IsPrefix(p, o)
    BY <1>5, MoversFacts
  <1>7. IsPrefix(n, m)
    BY <1>2, <1>5, MoversDiffer
  <1>8. Len(m) = Len(q) + Len(o) - Len(p) /\ Len(n) = Len(q) + Len(f) - Len(p)
    <2>1. Len(Rebase(o, p, q)) = Len(q) + Len(o) - Len(p)
      BY <1>1, <1>6, RebaseByIndex, ZenonT(60)
    <2>2. Len(Rebase(f, p, q)) = Len(q) + Len(f) - Len(p)
      BY <1>1, <1>2, RebaseByIndex, ZenonT(60)
    <2> QED BY <1>6, <2>1, <2>2, Zenon
  <1>9. Len(n) = Len(m) - 1
    BY <1>1, <1>2, <1>8, LenIsNat
  <1>10. n = SubSeq(m, 1, Len(n))
    BY <1>6, <1>7, PathsAreRoutes, PrefixIsCut
  <1> QED BY <1>4, <1>5, <1>9, <1>10 DEF Front

(* A rename keeps the tree one: no entry is left without its directory.    *)
LEMMA RenameKeepsTree ==
  ASSUME NEW T, IsTree(T), NEW p \in Paths, NEW q \in Paths, CanRename(T, p, q)
  PROVE  IsTree(lfs_rename(T, p, q))
  <1> DEFINE R == lfs_rename(T, p, q)
  <1>1. /\ R \in Trees
        /\ \A o \in Movers(T, p) : R[MovedPath(o, p, q)] = T[o]
        /\ \A r \in Paths : IsPrefix(q, r) /\ R[r] # "none" =>
             \E o \in Movers(T, p) : r = MovedPath(o, p, q) /\ R[r] = T[o]
        /\ \A r \in Paths : IsPrefix(p, r) => R[r] = "none"
        /\ \A r \in Paths : ~ IsPrefix(q, r) /\ ~ IsPrefix(p, r) => R[r] = T[r]
    BY RenamedTree
  <1> HIDE DEF R
  <1>2. ASSUME NEW d \in Dirs, ~ IsPrefix(p, d), ~ IsPrefix(q, d)
        PROVE  Kind(R, d) = Kind(T, d)
    BY <1>1, <1>2 DEF Dirs, Kind
  <1>3. ASSUME NEW r \in Paths, R[r] # "none"
        PROVE  Kind(R, Front(r)) = "dir"
    <2>1. /\ r \in Routes /\ p \in Routes /\ q \in Routes
          /\ Front(r) \in Dirs /\ Front(r) \in Routes /\ IsPrefix(Front(r), r)
      BY FrontOfPath, PathsAreRoutes DEF IsStrictPrefix
    <2>2. ~ IsPrefix(p, r) /\ ~ IsPrefix(p, Front(r))
      BY <1>1, <1>3, <2>1, PrefixIsOrder
    <2>3. CASE ~ IsPrefix(q, r)
      <3>1. ~ IsPrefix(q, Front(r)) /\ R[r] = T[r]
        BY <1>1, <2>1, <2>2, <2>3, PrefixIsOrder
      <3> QED BY <1>2, <1>3, <2>1, <2>2, <3>1 DEF IsTree
    <2>4. CASE IsPrefix(q, r)
      <3>1. PICK o \in Movers(T, p) : r = MovedPath(o, p, q)
        BY <1>1, <1>3, <2>4
      <3>2. CASE o = p
        <4>1. r = q
          BY <3>1, <3>2, MoversFacts
        <4>2. ~ IsPrefix(q, Front(q))
          BY <2>1, <4>1, FrontOfPath, PrefixIsOrder
        <4>3. Kind(T, Front(q)) = "dir"
          BY DEF CanRename
        <4> QED BY <1>2, <2>1, <2>2, <4>1, <4>2, <4>3
      <3>3. CASE o # p
        <4>1. Front(o) \in Movers(T, p) /\ Front(r) = MovedPath(Front(o), p, q) /\ T[Front(o)] = "dir"
          BY <3>1, <3>3, FrontMoves
        <4>2. R[Front(r)] = "dir" /\ Front(r) \in Paths
          BY <1>1, <4>1, MoversFacts
        <4> QED BY <4>2, PathsAreRoutes DEF Kind
      <3> QED BY <3>2, <3>3
    <2> QED BY <2>3, <2>4
  <1> QED BY <1>1, <1>3 DEF IsTree, R

-----------------------------------------------------------------------------
(***************************************************************************)
(* The inductive invariant, and streams through the calls on the tree.     *)
(***************************************************************************)

(* The states of a stream that is open.                                    *)
StreamStates ==
  [dir : Dirs \cup {NULL}, pos : Names \cup {0}, offset : 0 .. MaxOffset,
   seek : 0 .. MaxOffset \cup {NULL}, stable : BOOLEAN]

StreamsAreTyped == stream \in [Streams -> StreamStates \cup {NULL}]

(* A stream is on a directory, or on none once that was removed.           *)
StreamDirsExist ==
  \A s \in Streams : stream[s] # NULL /\ stream[s].dir # NULL => Kind(tree, stream[s].dir) = "dir"

(* The inductive invariant.  The paths that streams hold are needed for    *)
(* the types: a rename moves them with the tree.                           *)
TreeInv ==
  /\ IsTree(tree)
  /\ open \in [Handles -> Paths \cup {NULL}]
  /\ StreamsAreTyped
  /\ StreamDirsExist
  /\ kept \subseteq EmptyDirs(tree)

(* Names are larger than the position of a stream at the beginning.        *)
LEMMA NamesArePositive ==
  /\ Names \subseteq Nat \ {0}
  /\ \A T, d : Children(T, d) \subseteq Names
  <1>1. ASSUME NEW n \in Names PROVE n \in Nat \ {0}
    <2>1. PICK p \in Paths : n \in ToSet(p)
      BY DEF Names
    <2>2. p \in Seq(Nat \ {0})
      BY TreeAssumption
    <2>3. PICK i \in DOMAIN p : n = p[i]
      BY <2>1 DEF ToSet
    <2> QED BY <2>2, <2>3
  <1>2. \A T, d : Children(T, d) \subseteq Names
    BY DEF Children
  <1> QED BY <1>1, <1>2

(* Min of a set of naturals.                                               *)
LEMMA MinIsLeast ==
  ASSUME NEW S \in SUBSET Nat, S # {}
  PROVE  Min(S) \in S /\ \A n \in S : Min(S) <= n
  <1>1. PICK m \in S : \A k \in 0 .. m - 1 : k \notin S
    BY Least
  <1>2. \A n \in S : m <= n
    BY <1>1
  <1> QED BY <1>1, <1>2 DEF Min

(* If nothing is renamed, streams stay.                                    *)
LEMMA NotMoved ==
  ASSUME NEW d \in Dirs \cup {NULL}
  PROVE  MovedPath(d, <<>>, <<>>) = d
  <1>1. CASE d = NULL
    BY <1>1 DEF MovedPath
  <1>2. CASE d # NULL
    <2>1. d \in Routes
      BY <1>2, PathsAreRoutes
    <2>2. SubSeq(d, 1, Len(d)) = d /\ Len(<<>>) = 0 /\ <<>> \o d = d
      BY <2>1 DEF Routes
    <2>3. <<>> \o SubSeq(d, Len(<<>>) + 1, Len(d)) = d
      BY <2>2
    <2> QED BY <2>3 DEF MovedPath
  <1> QED BY <1>1, <1>2

(* Streams after a call: on a directory that exists, and with the same     *)
(* listing if they are stable.                                             *)
LEMMA StreamsFollow ==
  ASSUME StreamsAreTyped, NEW T, NEW p, NEW q, FollowStreams(T, p, q),
         \A s \in Streams : stream[s] # NULL /\ stream[s].dir # NULL =>
           MovedPath(stream[s].dir, p, q) \in Dirs
  PROVE  /\ StreamsAreTyped'
         /\ \A s \in Streams : stream'[s] # NULL =>
              /\ stream[s] # NULL
              /\ stream'[s].dir # NULL => Kind(T, stream'[s].dir) = "dir"
              /\ stream'[s].stable =>
                   stream[s].stable /\ Children(tree, stream[s].dir) = Children(T, stream'[s].dir)
              /\ stream'[s].pos = stream[s].pos /\ stream'[s].offset = stream[s].offset
  <1> DEFINE new(d) == IF MovedPath(d, p, q) # NULL /\ Kind(T, MovedPath(d, p, q)) = "dir"
                       THEN MovedPath(d, p, q) ELSE NULL
             same(d) == new(d) # NULL /\ Children(tree, d) = Children(T, new(d))
  <1>1. \A s \in Streams : stream'[s] =
          IF stream[s] = NULL THEN NULL
          ELSE [stream[s] EXCEPT !.dir = new(stream[s].dir), !.stable = @ /\ same(stream[s].dir)]
    BY DEF FollowStreams
  <1>2. stream' = [s \in Streams |-> stream'[s]]
    BY DEF FollowStreams
  <1>3. ASSUME NEW s \in Streams, stream[s] # NULL
        PROVE  /\ new(stream[s].dir) \in Dirs \cup {NULL}
               /\ same(stream[s].dir) \in BOOLEAN
               /\ new(stream[s].dir) # NULL => Kind(T, new(stream[s].dir)) = "dir"
               /\ stream[s] \in StreamStates
    <2>1. CASE stream[s].dir = NULL
      <3>1. MovedPath(stream[s].dir, p, q) = NULL
        BY <2>1 DEF MovedPath
      <3> QED BY <1>3, <3>1 DEF StreamsAreTyped
    <2>2. CASE stream[s].dir # NULL
      BY <1>3, <2>2 DEF StreamsAreTyped
    <2> QED BY <2>1, <2>2
  <1>4. ASSUME NEW d PROVE same(d) => Children(tree, d) = Children(T, new(d))
    OBVIOUS
  <1> HIDE DEF new, same
  <1>5. ASSUME NEW s \in Streams, stream[s] # NULL
        PROVE  /\ stream'[s] \in StreamStates
               /\ stream'[s].dir = new(stream[s].dir)
               /\ stream'[s].pos = stream[s].pos /\ stream'[s].offset = stream[s].offset
               /\ stream'[s].stable <=> stream[s].stable /\ same(stream[s].dir)
    <2> DEFINE st == stream[s]  n == new(stream[s].dir)  b == same(stream[s].dir)
    <2>1. stream'[s] = [st EXCEPT !.dir = n, !.stable = @ /\ b]
      BY <1>1, <1>5
    <2>2. st \in StreamStates /\ n \in Dirs \cup {NULL} /\ b \in BOOLEAN
      BY <1>3, <1>5
    <2> HIDE DEF st, n, b
    <2>3. (st.stable /\ b) \in BOOLEAN
      BY <2>2 DEF StreamStates
    <2>4. /\ stream'[s].dir = n /\ stream'[s].pos = st.pos /\ stream'[s].offset = st.offset
          /\ stream'[s].stable = (st.stable /\ b)
      BY <2>1, <2>2 DEF StreamStates
    <2>5. stream'[s] \in StreamStates
      <3> DEFINE c == (st.stable /\ b)
      <3>1. c \in BOOLEAN
        BY <2>3
      <3>2. stream'[s] = [st EXCEPT !.dir = n, !.stable = c]
        BY <2>1, <2>2 DEF StreamStates
      <3> HIDE DEF c
      <3> QED BY <2>2, <3>1, <3>2 DEF StreamStates
    <2> QED BY <2>4, <2>5 DEF st, n, b
  <1>6. StreamsAreTyped'
    <2>1. \A s \in Streams : stream'[s] \in StreamStates \cup {NULL}
      BY <1>1, <1>5
    <2>2. StreamStates' = StreamStates
      BY DEF StreamStates
    <2> QED BY <1>2, <2>1, <2>2 DEF StreamsAreTyped
  <1>7. ASSUME NEW s \in Streams, stream'[s] # NULL
        PROVE  /\ stream[s] # NULL
               /\ stream'[s].dir # NULL => Kind(T, stream'[s].dir) = "dir"
               /\ stream'[s].stable =>
                    stream[s].stable /\ Children(tree, stream[s].dir) = Children(T, stream'[s].dir)
               /\ stream'[s].pos = stream[s].pos /\ stream'[s].offset = stream[s].offset
    <2>1. stream[s] # NULL
      BY <1>1, <1>7
    <2> QED BY <1>3, <1>4, <1>5, <2>1
  <1> QED BY <1>6, <1>7

(* For every call but rename.                                              *)
LEMMA BecomeKeepsStreams ==
  ASSUME TreeInv, NEW T, IsTree(T), NEW more, Become(T, more)
  PROVE  /\ IsTree(tree') /\ StreamsAreTyped' /\ StreamDirsExist'
         /\ kept' \subseteq EmptyDirs(tree')
         /\ \A s \in Streams : stream'[s] # NULL =>
              /\ stream[s] # NULL
              /\ stream'[s].stable =>
                   stream[s].stable /\ Children(tree, stream[s].dir) = Children(tree', stream'[s].dir)
              /\ stream'[s].pos = stream[s].pos /\ stream'[s].offset = stream[s].offset
  <1>1. tree' = T /\ FollowStreams(T, <<>>, <<>>) /\ kept' \subseteq EmptyDirs(T)
    BY DEF Become
  <1>2. \A s \in Streams : stream[s] # NULL /\ stream[s].dir # NULL =>
          MovedPath(stream[s].dir, <<>>, <<>>) \in Dirs
    <2>1. \A s \in Streams : stream[s] # NULL => stream[s].dir \in Dirs \cup {NULL}
      BY DEF TreeInv, StreamsAreTyped, StreamStates
    <2> QED BY <2>1, NotMoved
  <1>3. StreamsAreTyped
    BY DEF TreeInv
  <1>4. /\ StreamsAreTyped'
        /\ \A s \in Streams : stream'[s] # NULL =>
             /\ stream[s] # NULL
             /\ stream'[s].dir # NULL => Kind(T, stream'[s].dir) = "dir"
             /\ stream'[s].stable =>
                  stream[s].stable /\ Children(tree, stream[s].dir) = Children(T, stream'[s].dir)
             /\ stream'[s].pos = stream[s].pos /\ stream'[s].offset = stream[s].offset
    BY <1>1, <1>2, <1>3, StreamsFollow
  <1>5. StreamDirsExist'
    BY <1>1, <1>4 DEF StreamDirsExist
  <1> QED BY <1>1, <1>4, <1>5

(* Making a file keeps the tree one.                                       *)
LEMMA FileMadeTree ==
  ASSUME NEW T, IsTree(T), NEW p \in Paths, CanMake(T, p)
  PROVE  /\ IsTree([T EXCEPT ![p] = "file"])
         /\ [T EXCEPT ![p] = "file"][p] = "file"
         /\ \A r \in Paths : r # p => [T EXCEPT ![p] = "file"][r] = T[r]
  <1> DEFINE U == [T EXCEPT ![p] = "file"]
  <1>1. U \in Trees /\ U[p] = "file" /\ \A r \in Paths : r # p => U[r] = T[r]
    BY DEF IsTree, Trees, Kinds
  <1> HIDE DEF U
  <1>2. ASSUME NEW r \in Paths, U[r] # "none"
        PROVE  Kind(U, Front(r)) = "dir"
    <2>1. Front(r) \in Dirs /\ (Front(r) # <<>> => Front(r) \in Paths) /\ Front(p) # p
      BY FrontOfPath
    <2>2. Kind(T, Front(r)) = "dir"
      BY <1>1, <1>2 DEF IsTree, CanMake
    <2>3. Front(r) # p
      BY <2>2, PathsAreRoutes DEF CanMake, Kind
    <2> QED BY <1>1, <2>1, <2>2, <2>3 DEF Kind
  <1> QED BY <1>1, <1>2 DEF IsTree, U

(* So does removing one.                                                   *)
LEMMA FileRemovedTree ==
  ASSUME NEW T, IsTree(T), NEW p \in Paths, T[p] = "file"
  PROVE  /\ IsTree([T EXCEPT ![p] = "none"])
         /\ [T EXCEPT ![p] = "none"][p] = "none"
         /\ \A r \in Paths : r # p => [T EXCEPT ![p] = "none"][r] = T[r]
  <1> DEFINE U == [T EXCEPT ![p] = "none"]
  <1>1. U \in Trees /\ U[p] = "none" /\ \A r \in Paths : r # p => U[r] = T[r]
    BY DEF IsTree, Trees, Kinds
  <1> HIDE DEF U
  <1>2. ASSUME NEW r \in Paths, U[r] # "none"
        PROVE  Kind(U, Front(r)) = "dir"
    <2>1. Front(r) \in Dirs /\ (Front(r) # <<>> => Front(r) \in Paths)
      BY FrontOfPath
    <2>2. Kind(T, Front(r)) = "dir"
      BY <1>1, <1>2 DEF IsTree
    <2>3. Front(r) # p
      BY <2>2, PathsAreRoutes DEF Kind
    <2> QED BY <1>1, <2>1, <2>2, <2>3 DEF Kind
  <1> QED BY <1>1, <1>2 DEF IsTree, U

-----------------------------------------------------------------------------
(***************************************************************************)
(* The calls.                                                              *)
(***************************************************************************)

(* The tree of a file that is open.                                        *)
Opened(U, p) ==
  /\ IsTree(U) /\ Become(U, {}) /\ U[p] = "file"
  /\ \A r \in Paths : r # p => U[r] = mkdirs(tree, p, {})[r]
  /\ mkdirs(tree, p, {})[p] \in {"none", "file"}

(* vfs_littlefs_open.                                                      *)
LEMMA OpenMakesFile ==
  ASSUME TreeInv, NEW h \in Handles, NEW p \in Paths, NEW create, OpenFile(h, p, create)
  PROVE  \E U : Opened(U, p)
  <1> DEFINE T == mkdirs(tree, p, {})
  <1>1. IsTree(T)
    BY MkdirsGrow DEF TreeInv, Grown
  <1> HIDE DEF T
  <1>2. \/ T[p] = "file" /\ Become(T, {})
        \/ CanMake(T, p) /\ Become([T EXCEPT ![p] = "file"], {})
    BY DEF OpenFile, T
  <1>3. CASE T[p] = "file" /\ Become(T, {})
    <2>1. Opened(T, p)
      BY <1>1, <1>3 DEF Opened, T
    <2> QED BY <2>1
  <1>4. CASE CanMake(T, p) /\ Become([T EXCEPT ![p] = "file"], {})
    <2> DEFINE U == [T EXCEPT ![p] = "file"]
    <2>1. IsTree(U) /\ U[p] = "file" /\ \A r \in Paths : r # p => U[r] = T[r]
      BY <1>1, <1>4, FileMadeTree
    <2>2. Become(U, {}) /\ T[p] = "none"
      BY <1>4 DEF CanMake
    <2> HIDE DEF U
    <2>3. Opened(U, p)
      BY <2>1, <2>2 DEF Opened, T
    <2> QED BY <2>3
  <1> QED BY <1>2, <1>3, <1>4

(* vfs_littlefs_unlink.                                                    *)
LEMMA UnlinkRemovesFile ==
  ASSUME TreeInv, NEW p \in Paths, Unlink(p)
  PROVE  LET R == [tree EXCEPT ![p] = "none"] IN
         /\ IsTree(R) /\ R[p] = "none" /\ \A r \in Paths : r # p => R[r] = tree[r]
         /\ \E X : LET U == rmdirs(R, p, X) IN Shrunk(R, U, p) /\ Become(U, Uncovered(p) \cup X)
  <1> DEFINE R == [tree EXCEPT ![p] = "none"]
  <1>0. PICK X \in SUBSET Covered(p) : Become(rmdirs(R, p, X), Uncovered(p) \cup X)
    BY DEF Unlink
  <1>1. IsTree(tree) /\ tree[p] = "file"
    BY DEF TreeInv, Unlink
  <1>2. IsTree(R) /\ R[p] = "none" /\ \A r \in Paths : r # p => R[r] = tree[r]
    BY <1>1, FileRemovedTree
  <1> HIDE DEF R
  <1>3. Shrunk(R, rmdirs(R, p, X), p)
    BY <1>2, RmdirsShrink
  <1> QED BY <1>0, <1>2, <1>3 DEF R

(* What rename leaves in the tree R, if littlefs refuses to remove X.      *)
RenameLeaves(R, p, q, X) ==
  /\ tree' = rmdirs(R, p, X)
  /\ kept' = {MovedPath(d, p, q) : d \in kept \cup Uncovered(p) \cup X} \cap EmptyDirs(tree')

(* vfs_littlefs_rename, from the parents that are made to those that are   *)
(* removed.                                                                *)
LEMMA RenameMovesTree ==
  ASSUME TreeInv, NEW p \in Paths, NEW q \in Paths, Rename(p, q)
  PROVE  LET T == mkdirs(tree, q, {})  R == lfs_rename(T, p, q) IN
         /\ Grown(tree, T, q) /\ CanRename(T, p, q) /\ IsTree(T) /\ IsTree(R)
         /\ Shrunk(R, tree', p) /\ IsTree(tree')
         /\ \E X \in SUBSET Covered(p) : RenameLeaves(R, p, q, X)
  <1> DEFINE T == mkdirs(tree, q, {})  R == lfs_rename(T, p, q)
  <1>0. CanRename(T, p, q) /\ \E X \in SUBSET Covered(p) : RenameLeaves(R, p, q, X)
    BY DEF Rename, RenameLeaves
  <1>1. PICK X \in SUBSET Covered(p) : tree' = rmdirs(R, p, X)
    BY <1>0 DEF RenameLeaves
  <1>2. Grown(tree, T, q)
    BY MkdirsGrow DEF TreeInv
  <1> HIDE DEF T
  <1>3. IsTree(T)
    BY <1>2 DEF Grown
  <1>4. IsTree(R)
    BY <1>0, <1>3, RenameKeepsTree
  <1> HIDE DEF R
  <1>5. Shrunk(R, tree', p)
    BY <1>1, <1>4, RmdirsShrink
  <1> QED BY <1>0, <1>2, <1>3, <1>4, <1>5 DEF T, R, Shrunk

(* The directory of a stream moves to a path of the tree.                  *)
LEMMA RenameMovesStreams ==
  ASSUME TreeInv, NEW p \in Paths, NEW q \in Paths, Rename(p, q)
  PROVE  /\ StreamsAreTyped' /\ StreamDirsExist'
         /\ \A s \in Streams : stream'[s] # NULL =>
              /\ stream[s] # NULL
              /\ stream'[s].stable =>
                   stream[s].stable /\ Children(tree, stream[s].dir) = Children(tree', stream'[s].dir)
              /\ stream'[s].pos = stream[s].pos /\ stream'[s].offset = stream[s].offset
  <1> DEFINE T == mkdirs(tree, q, {})
  <1>1. Grown(tree, T, q) /\ CanRename(T, p, q) /\ IsTree(T)
    BY RenameMovesTree
  <1> HIDE DEF T
  <1>2. ASSUME NEW d \in Dirs, Kind(tree, d) = "dir"
        PROVE  MovedPath(d, p, q) \in Dirs
    <2>0. d \in Routes /\ p \in Routes /\ q \in Routes /\ d # NULL
      BY PathsAreRoutes, NullIsNoDir
    <2>1. CASE ~ IsPrefix(p, d)
      BY <2>0, <2>1, MovedIsRebased
    <2>2. CASE IsPrefix(p, d)
      <3>1. d # <<>>
        BY <2>0, <2>2, RootIsPrefix, PrefixIsOrder, PathsAreRoutes
      <3>2. d \in Paths /\ tree[d] = "dir"
        BY <1>2, <3>1 DEF Kind, Dirs
      <3>3. T[d] # "none"
        BY <1>1, <3>2 DEF Grown
      <3>4. d \in Movers(T, p)
        BY <2>2, <3>2, <3>3 DEF Movers, Below, IsStrictPrefix
      <3> QED BY <1>1, <3>4, MoversFacts, PathsAreRoutes
    <2> QED BY <2>1, <2>2
  <1>3. \A s \in Streams : stream[s] # NULL /\ stream[s].dir # NULL =>
          MovedPath(stream[s].dir, p, q) \in Dirs
    <2>1. \A s \in Streams : stream[s] # NULL /\ stream[s].dir # NULL =>
            stream[s].dir \in Dirs /\ Kind(tree, stream[s].dir) = "dir"
      BY DEF TreeInv, StreamsAreTyped, StreamStates, StreamDirsExist
    <2> QED BY <1>2, <2>1
  <1>4. FollowStreams(tree', p, q) /\ StreamsAreTyped
    BY DEF Rename, TreeInv
  <1>5. /\ StreamsAreTyped'
        /\ \A s \in Streams : stream'[s] # NULL =>
             /\ stream[s] # NULL
             /\ stream'[s].dir # NULL => Kind(tree', stream'[s].dir) = "dir"
             /\ stream'[s].stable =>
                  stream[s].stable /\ Children(tree, stream[s].dir) = Children(tree', stream'[s].dir)
             /\ stream'[s].pos = stream[s].pos /\ stream'[s].offset = stream[s].offset
    BY <1>3, <1>4, StreamsFollow
  <1>6. StreamDirsExist'
    BY <1>5 DEF StreamDirsExist
  <1> QED BY <1>5, <1>6

(* vfs_littlefs_mkdir.                                                     *)
LEMMA MakeDirTree ==
  ASSUME TreeInv, NEW p \in Paths, MakeDir(p)
  PROVE  LET U == Mkdir(tree, p, {}) IN
         /\ IsTree(U) /\ Become(U, {p}) /\ tree[p] = "none"
         /\ U[p] = "dir" /\ \A r \in Paths : r # p => U[r] = tree[r]
  <1> DEFINE U == Mkdir(tree, p, {})
  <1>1. tree \in Trees /\ CanMake(tree, p) /\ Become(U, {p}) /\ IsTree(tree)
    BY DEF MakeDir, TreeInv, IsTree
  <1>2. IsTree(U)
    BY <1>1, MkdirTree
  <1>3. U = [tree EXCEPT ![p] = "dir"]
    BY <1>1 DEF Mkdir
  <1> QED BY <1>1, <1>2, <1>3 DEF CanMake, Trees

(* vfs_littlefs_rmdir.                                                     *)
LEMMA RemoveDirTree ==
  ASSUME TreeInv, NEW p \in Paths, RemoveDir(p)
  PROVE  LET U == Rmdir(tree, p, {}) IN
         /\ IsTree(U) /\ Become(U, {Front(p)}) /\ tree[p] = "dir" /\ Below(tree, p) = {}
         /\ U[p] = "none" /\ \A r \in Paths : r # p => U[r] = tree[r]
  BY RmdirTree DEF RemoveDir, TreeInv, Rmdir, EmptyDirs, IsTree, Trees

(* What readdir_r does to a stream.                                        *)
LEMMA ReadKeepsTypes ==
  ASSUME NEW st \in StreamStates, st.offset < MaxOffset
  PROVE  /\ readdir_r(st) \in StreamStates
         /\ readdir_r(st).dir = st.dir /\ readdir_r(st).stable = st.stable
         /\ readdir_r(st).offset = st.offset + 1
         /\ LET rest == {n \in Children(tree, st.dir) : n > st.pos} IN
            readdir_r(st).pos = IF rest = {} THEN st.pos ELSE Min(rest)
  <1> DEFINE rest == {n \in Children(tree, st.dir) : n > st.pos}
             pos == IF rest = {} THEN st.pos ELSE Min(rest)
  <1>1. rest \subseteq Names /\ rest \in SUBSET Nat
    BY NamesArePositive
  <1>2. readdir_r(st) = [st EXCEPT !.pos = pos, !.offset = @ + 1]
    BY DEF readdir_r
  <1> HIDE DEF rest
  <1>3. rest # {} => Min(rest) \in rest
    BY <1>1, MinIsLeast
  <1>4. pos \in Names \cup {0}
    BY <1>1, <1>3 DEF StreamStates
  <1> HIDE DEF pos
  <1>5. st.offset + 1 \in 0 .. MaxOffset
    BY TreeAssumption DEF StreamStates
  <1> QED BY <1>2, <1>4, <1>5 DEF StreamStates, pos, rest

(* What a rewind does to it.                                               *)
LEMMA RewindKeepsTypes ==
  ASSUME NEW st \in StreamStates
  PROVE  /\ Rewound(st) \in StreamStates
         /\ Rewound(st).dir = st.dir /\ Rewound(st).pos = 0 /\ Rewound(st).offset = 0
         /\ Rewound(st).stable = (st.dir # NULL)
  <1> DEFINE b == (st.dir # NULL)
  <1>1. b \in BOOLEAN /\ 0 \in 0 .. MaxOffset
    BY TreeAssumption
  <1>2. Rewound(st) = [st EXCEPT !.pos = 0, !.offset = 0, !.stable = b]
    BY DEF Rewound
  <1> HIDE DEF b
  <1>3. /\ Rewound(st) \in StreamStates
        /\ Rewound(st).dir = st.dir /\ Rewound(st).pos = 0 /\ Rewound(st).offset = 0
        /\ Rewound(st).stable = b
    BY <1>1, <1>2 DEF StreamStates
  <1> QED BY <1>3 DEF b

(* The ways in which a call takes a stream from st to new.                 *)
StreamCalls(s, st, new) ==
  \/ st = NULL /\ \E d \in Dirs : Kind(tree, d) = "dir" /\
       new = [dir |-> d, pos |-> 0, offset |-> 0, seek |-> NULL, stable |-> TRUE]
  \/ st # NULL /\ new = NULL
  \/ st # NULL /\ st.offset < MaxOffset /\ new = readdir_r(st)
  \/ st # NULL /\ \E k \in 0 .. MaxOffset \cup {NULL} : 
        new = [st EXCEPT !.seek = k] \/ new = [Rewound(st) EXCEPT !.seek = k]

StreamStep(s) ==
  /\ StreamCalls(s, stream[s], stream'[s])
  /\ stream' = [stream EXCEPT ![s] = stream'[s]]
  /\ UNCHANGED <<tree, open, kept>>

(* They keep its types and its directory.                                  *)
LEMMA StreamStepTyped ==
  ASSUME TreeInv, NEW s \in Streams, StreamStep(s)
  PROVE  StreamsAreTyped' /\ StreamDirsExist'
  <1> DEFINE st == stream[s]  new == stream'[s]
  <1>1. st \in StreamStates \cup {NULL} /\ (st # NULL /\ st.dir # NULL => Kind(tree, st.dir) = "dir")
    BY DEF TreeInv, StreamsAreTyped, StreamDirsExist
  <1>2. StreamCalls(s, st, new) /\ stream' = [stream EXCEPT ![s] = new]
    BY DEF StreamStep
  <1>3. tree' = tree
    BY DEF StreamStep
  <1> HIDE DEF st, new
  <1>4. new \in StreamStates \cup {NULL} /\ (new # NULL /\ new.dir # NULL => Kind(tree, new.dir) = "dir")
    <2>1. CASE st = NULL /\ \E d \in Dirs : Kind(tree, d) = "dir" /\
                 new = [dir |-> d, pos |-> 0, offset |-> 0, seek |-> NULL, stable |-> TRUE]
      BY <2>1, TreeAssumption DEF StreamStates
    <2>2. CASE st # NULL /\ new = NULL
      BY <2>2
    <2>3. CASE st # NULL /\ st.offset < MaxOffset /\ new = readdir_r(st)
      BY <1>1, <2>3, ReadKeepsTypes
    <2>4. CASE st # NULL /\ \E k \in 0 .. MaxOffset \cup {NULL} :
                 new = [st EXCEPT !.seek = k] \/ new = [Rewound(st) EXCEPT !.seek = k]
      <3>1. PICK k \in 0 .. MaxOffset \cup {NULL}, u \in {st, Rewound(st)} : new = [u EXCEPT !.seek = k]
        BY <2>4
      <3>2. st \in StreamStates
        BY <1>1, <2>4
      <3>3. u \in StreamStates /\ u.dir = st.dir
        BY <3>2, RewindKeepsTypes
      <3>4. new \in StreamStates /\ new.dir = st.dir
        BY <3>1, <3>3 DEF StreamStates
      <3> QED BY <1>1, <2>4, <3>4
    <2> QED BY <1>2, <2>1, <2>2, <2>3, <2>4 DEF StreamCalls
  <1>5. /\ stream' \in [Streams -> StreamStates \cup {NULL}] /\ stream'[s] = new
        /\ \A u \in Streams : u # s => stream'[u] = stream[u]
    BY <1>2, <1>4 DEF TreeInv, StreamsAreTyped
  <1>6. StreamsAreTyped'
    BY <1>5 DEF StreamsAreTyped, StreamStates
  <1>7. \A u \in Streams : stream'[u] # NULL /\ stream'[u].dir # NULL => Kind(tree', stream'[u].dir) = "dir"
    BY <1>3, <1>4, <1>5 DEF TreeInv, StreamDirsExist
  <1> QED BY <1>6, <1>7 DEF StreamDirsExist

(* The calls on streams are such steps.                                    *)
LEMMA StreamActions ==
  ASSUME TreeInv, NEW s \in Streams
  PROVE  /\ \A d \in Dirs : OpenDir(s, d) => StreamStep(s)
         /\ \A target \in 0 .. MaxOffset : SeekDir(s, target) => StreamStep(s)
         /\ CloseDir(s) \/ ReadDir(s) \/ SeekStep(s) \/ SeekFails(s) => StreamStep(s)
  <1>0. stream = [u \in Streams |-> stream[u]] /\ stream[s] \in StreamStates \cup {NULL}
    BY DEF TreeInv, StreamsAreTyped
  <1>1. ASSUME NEW d \in Dirs, OpenDir(s, d) PROVE StreamStep(s)
    BY <1>0, <1>1 DEF OpenDir, StreamStep, StreamCalls
  <1>2. ASSUME NEW target \in 0 .. MaxOffset, SeekDir(s, target) PROVE StreamStep(s)
    BY <1>0, <1>2 DEF SeekDir, StreamStep, StreamCalls
  <1>3. ASSUME CloseDir(s) PROVE StreamStep(s)
    BY <1>0, <1>3 DEF CloseDir, StreamStep, StreamCalls
  <1>4. ASSUME ReadDir(s) PROVE StreamStep(s)
    BY <1>0, <1>4 DEF ReadDir, StreamStep, StreamCalls
  <1>5. ASSUME SeekStep(s) PROVE StreamStep(s)
    <2>1. stream[s] # NULL /\ stream[s].seek # NULL /\ stream[s] \in StreamStates
      BY <1>0, <1>5 DEF SeekStep
    <2>2. stream[s].seek \in 0 .. MaxOffset /\ stream[s].offset \in 0 .. MaxOffset
      BY <2>1 DEF StreamStates
    <2>3. stream[s].offset < stream[s].seek => stream[s].offset < MaxOffset
      BY <2>2, TreeAssumption
    <2> QED BY <1>0, <1>5, <2>1, <2>3 DEF SeekStep, StreamStep, StreamCalls
  <1>6. ASSUME SeekFails(s) PROVE StreamStep(s)
    BY <1>0, <1>6 DEF SeekFails, StreamStep, StreamCalls
  <1> QED BY <1>1, <1>2, <1>3, <1>4, <1>5, <1>6

-----------------------------------------------------------------------------
(***************************************************************************)
(* Types.                                                                  *)
(***************************************************************************)

(* A volume that is mounted is a tree.                                     *)
LEMMA InitIsTree == Init => TreeInv
  <1> SUFFICES ASSUME Init PROVE TreeInv
    OBVIOUS
  <1>1. IsTree(tree)
    BY DEF Init, IsTree, Trees, Kinds
  <1>2. open \in [Handles -> Paths \cup {NULL}]
    BY DEF Init
  <1>3. StreamsAreTyped /\ StreamDirsExist
    BY DEF Init, StreamsAreTyped, StreamDirsExist
  <1>4. kept \subseteq EmptyDirs(tree)
    BY DEF Init
  <1> QED BY <1>1, <1>2, <1>3, <1>4 DEF TreeInv

(* The calls that change the tree.                                         *)
TreeCall ==
  \/ \E h \in Handles, p \in Paths, create \in BOOLEAN : OpenFile(h, p, create)
  \/ \E p \in Paths, create \in BOOLEAN : OpenRefused(p, create)
  \/ \E p \in Paths : Unlink(p) \/ MakeDir(p) \/ RemoveDir(p)
  \/ \E p, q \in Paths : Rename(p, q) \/ RenameRefused(p, q)

(* They leave the position of every stream, and its listing if it stays    *)
(* stable.                                                                 *)
StreamsStay ==
  \A s \in Streams : stream'[s] # NULL =>
    /\ stream[s] # NULL
    /\ stream'[s].stable =>
         stream[s].stable /\ Children(tree, stream[s].dir) = Children(tree', stream'[s].dir)
    /\ stream'[s].pos = stream[s].pos /\ stream'[s].offset = stream[s].offset

(* A step is a call on the tree, a close, or a call on a stream.           *)
LEMMA StepIsCall ==
  ASSUME TreeInv, Next
  PROVE  \/ TreeCall
         \/ \E h \in Handles : Close(h)
         \/ \E s \in Streams : StreamStep(s)
  <1>1. CASE \/ \E h \in Handles, p \in Paths, create \in BOOLEAN : OpenFile(h, p, create)
             \/ \E p \in Paths, create \in BOOLEAN : OpenRefused(p, create)
             \/ \E p \in Paths : Unlink(p) \/ MakeDir(p) \/ RemoveDir(p)
             \/ \E p, q \in Paths : Rename(p, q) \/ RenameRefused(p, q)
    BY <1>1 DEF TreeCall
  <1>2. CASE \E h \in Handles : Close(h)
    BY <1>2
  <1>3. CASE \/ \E s \in Streams, d \in Dirs : OpenDir(s, d)
             \/ \E s \in Streams, target \in 0 .. MaxOffset : SeekDir(s, target)
             \/ \E s \in Streams : CloseDir(s) \/ ReadDir(s) \/ SeekStep(s) \/ SeekFails(s)
    BY <1>3, StreamActions
  <1> QED BY <1>1, <1>2, <1>3 DEF Next

(* The calls on the tree keep the invariant.                               *)
LEMMA TreeCallKeepsInv ==
  ASSUME TreeInv, TreeCall
  PROVE  TreeInv' /\ StreamsStay
  <1>0. ASSUME NEW T, IsTree(T), NEW more, Become(T, more), open' \in [Handles -> Paths \cup {NULL}]
        PROVE  TreeInv' /\ StreamsStay
    <2>1. /\ IsTree(tree') /\ StreamsAreTyped' /\ StreamDirsExist' /\ kept' \subseteq EmptyDirs(tree')
          /\ StreamsStay
      BY <1>0, BecomeKeepsStreams DEF StreamsStay
    <2> QED BY <1>0, <2>1 DEF TreeInv, IsTree, EmptyDirs, Below, Kind, Trees
  <1>1. open \in [Handles -> Paths \cup {NULL}] /\ IsTree(tree)
    BY DEF TreeInv
  <1>2. ASSUME NEW h \in Handles, NEW p \in Paths, NEW create, OpenFile(h, p, create)
        PROVE  TreeInv' /\ StreamsStay
    <2>1. PICK U : Opened(U, p)
      BY <1>2, OpenMakesFile
    <2>2. open' \in [Handles -> Paths \cup {NULL}]
      BY <1>1, <1>2 DEF OpenFile
    <2>3. IsTree(U) /\ Become(U, {})
      BY <2>1 DEF Opened
    <2> QED BY <1>0, <2>2, <2>3
  <1>3. ASSUME NEW p \in Paths, NEW create, OpenRefused(p, create)
        PROVE  TreeInv' /\ StreamsStay
    <2>1. PICK X \in SUBSET Covered(p) : Become(mkdirs(tree, p, X), Made(mkdirs(tree, p, X)))
      BY <1>3 DEF OpenRefused
    <2> DEFINE T == mkdirs(tree, p, X)
    <2>2. IsTree(T)
      BY <1>1, MkdirsGrow DEF Grown
    <2>3. Become(T, Made(T)) /\ open' = open
      BY <1>3, <2>1 DEF OpenRefused
    <2> HIDE DEF T
    <2> QED BY <1>0, <1>1, <2>2, <2>3
  <1>4. ASSUME NEW p \in Paths, Unlink(p)
        PROVE  TreeInv' /\ StreamsStay
    <2>1. PICK X : LET U == rmdirs([tree EXCEPT ![p] = "none"], p, X) IN
                   IsTree(U) /\ Become(U, Uncovered(p) \cup X)
      BY <1>4, UnlinkRemovesFile DEF Shrunk
    <2>2. open' = open
      BY <1>4 DEF Unlink
    <2> QED BY <1>0, <1>1, <2>1, <2>2
  <1>5. ASSUME NEW p \in Paths, MakeDir(p)
        PROVE  TreeInv' /\ StreamsStay
    <2>1. IsTree(Mkdir(tree, p, {})) /\ Become(Mkdir(tree, p, {}), {p}) /\ open' = open
      BY <1>5, MakeDirTree DEF MakeDir
    <2> QED BY <1>0, <1>1, <2>1
  <1>6. ASSUME NEW p \in Paths, RemoveDir(p)
        PROVE  TreeInv' /\ StreamsStay
    <2>1. IsTree(Rmdir(tree, p, {})) /\ Become(Rmdir(tree, p, {}), {Front(p)}) /\ open' = open
      BY <1>6, RemoveDirTree DEF RemoveDir
    <2> QED BY <1>0, <1>1, <2>1
  <1>7. ASSUME NEW p \in Paths, NEW q \in Paths, Rename(p, q)
        PROVE  TreeInv' /\ StreamsStay
    <2>1. IsTree(tree')
      BY <1>7, RenameMovesTree
    <2>2. StreamsAreTyped' /\ StreamDirsExist' /\ StreamsStay
      BY <1>7, RenameMovesStreams DEF StreamsStay
    <2>3. kept' \subseteq EmptyDirs(tree') /\ open' = open
      BY <1>7 DEF Rename
    <2> QED BY <1>1, <2>1, <2>2, <2>3 DEF TreeInv, IsTree, EmptyDirs, Below, Kind, Trees
  <1>8. ASSUME NEW p \in Paths, NEW q \in Paths, RenameRefused(p, q)
        PROVE  TreeInv' /\ StreamsStay
    <2>1. PICK X \in SUBSET Covered(q) : Become(mkdirs(tree, q, X), Made(mkdirs(tree, q, X)))
      BY <1>8 DEF RenameRefused
    <2> DEFINE T == mkdirs(tree, q, X)
    <2>2. IsTree(T)
      BY <1>1, MkdirsGrow DEF Grown
    <2>3. Become(T, Made(T)) /\ open' = open
      BY <1>8, <2>1 DEF RenameRefused
    <2> HIDE DEF T
    <2> QED BY <1>0, <1>1, <2>2, <2>3
  <1> QED BY <1>2, <1>3, <1>4, <1>5, <1>6, <1>7, <1>8 DEF TreeCall

(* The invariant is inductive.                                             *)
LEMMA TreeInvStep == TreeInv /\ [Next]_vars => TreeInv'
  <1> SUFFICES ASSUME TreeInv, [Next]_vars PROVE TreeInv'
    OBVIOUS
  <1>0. ASSUME tree' = tree, kept' = kept
        PROVE  IsTree(tree)' /\ (kept \subseteq EmptyDirs(tree))'
    BY <1>0 DEF TreeInv, IsTree, EmptyDirs, Below, Kind, Trees
  <1>1. CASE UNCHANGED vars
    BY <1>0, <1>1 DEF vars, TreeInv, StreamsAreTyped, StreamDirsExist, StreamStates, Kind
  <1>2. CASE TreeCall
    BY <1>2, TreeCallKeepsInv
  <1>3. ASSUME NEW h \in Handles, Close(h) PROVE TreeInv'
    <2>1. open' \in [Handles -> Paths \cup {NULL}]
      BY <1>3 DEF Close, TreeInv
    <2> QED BY <1>0, <1>3, <2>1 DEF Close, TreeInv, StreamsAreTyped, StreamDirsExist, StreamStates, Kind
  <1>4. ASSUME NEW s \in Streams, StreamStep(s) PROVE TreeInv'
    <2>1. StreamsAreTyped' /\ StreamDirsExist'
      BY <1>4, StreamStepTyped
    <2>2. tree' = tree /\ open' = open /\ kept' = kept
      BY <1>4 DEF StreamStep
    <2> QED BY <1>0, <2>1, <2>2 DEF TreeInv
  <1> QED BY <1>1, <1>2, <1>3, <1>4, StepIsCall

(* The tree stays one, and streams are on directories of it.               *)
THEOREM TreeAlwaysConsistent == Spec => []TreeInv
  BY InitIsTree, TreeInvStep, PTL DEF Spec

(* The types, and that whatever exists is in a directory: the parents that *)
(* open and rename make and unlink and rename remove leave no hole in the  *)
(* tree (mkdirs, rmdirs), and a rename leaves nothing behind.              *)
THEOREM TreeTypeCorrect == Spec => []TypeOK
  <1>1. TreeInv => TypeOK
    BY DEF TreeInv, TypeOK, IsTree, Trees, Kinds, StreamsAreTyped, StreamStates
  <1> QED BY <1>1, TreeAlwaysConsistent, PTL

-----------------------------------------------------------------------------
(***************************************************************************)
(* Open files.                                                             *)
(***************************************************************************)

(* mkdirs touches no file.                                                 *)
LEMMA GrowKeepsFiles ==
  ASSUME NEW T, NEW U, NEW p, Grown(T, U, p), NEW r \in Paths, T[r] = "file"
  PROVE  U[r] = "file"
  BY DEF Grown

(* Neither does rmdirs.                                                    *)
LEMMA ShrinkKeepsFiles ==
  ASSUME NEW T, NEW U, NEW p, Shrunk(T, U, p), NEW r \in Paths, T[r] = "file"
  PROVE  U[r] = "file"
  BY DEF Shrunk

(* A call leaves an open file where it is: it is not the path of the call, *)
(* and not below one that is renamed.                                      *)
LEMMA CallKeepsOpenFiles ==
  ASSUME ~ RenameOpen, TreeInv, TreeCall, NEW r \in Paths, tree[r] = "file", IsOpen(r)
  PROVE  tree'[r] = "file"
  <1>0. IsTree(tree)
    BY DEF TreeInv
  <1>1. ASSUME NEW h \in Handles, NEW p \in Paths, NEW create, OpenFile(h, p, create)
        PROVE  tree'[r] = "file"
    <2>1. PICK U : Opened(U, p)
      BY <1>1, OpenMakesFile
    <2>2. tree' = U /\ U[p] = "file" /\ (r # p => U[r] = mkdirs(tree, p, {})[r])
      BY <2>1 DEF Opened, Become
    <2>3. mkdirs(tree, p, {})[r] = "file"
      BY <1>0, MkdirsGrow, GrowKeepsFiles
    <2> QED BY <2>2, <2>3
  <1>2. ASSUME NEW p \in Paths, NEW create, OpenRefused(p, create)
        PROVE  tree'[r] = "file"
    <2>1. PICK X : tree' = mkdirs(tree, p, X)
      BY <1>2 DEF OpenRefused, Become
    <2> QED BY <1>0, <2>1, MkdirsGrow, GrowKeepsFiles
  <1>3. ASSUME NEW p \in Paths, Unlink(p)
        PROVE  tree'[r] = "file"
    <2>1. r # p
      BY <1>3 DEF Unlink
    <2>2. [tree EXCEPT ![p] = "none"][r] = "file"
      BY <1>3, <2>1, UnlinkRemovesFile
    <2>3. Shrunk([tree EXCEPT ![p] = "none"], tree', p)
      BY <1>3, UnlinkRemovesFile DEF Become
    <2> QED BY <2>2, <2>3, ShrinkKeepsFiles
  <1>4. ASSUME NEW p \in Paths, MakeDir(p)
        PROVE  tree'[r] = "file"
    <2>1. tree' = Mkdir(tree, p, {})
      BY <1>4 DEF MakeDir, Become
    <2> QED BY <1>4, <2>1, MakeDirTree
  <1>5. ASSUME NEW p \in Paths, RemoveDir(p)
        PROVE  tree'[r] = "file"
    <2>1. tree' = Rmdir(tree, p, {})
      BY <1>5 DEF RemoveDir, Become
    <2> QED BY <1>5, <2>1, RemoveDirTree
  <1>6. ASSUME NEW p \in Paths, NEW q \in Paths, Rename(p, q)
        PROVE  tree'[r] = "file"
    <2> DEFINE T == mkdirs(tree, q, {})  R == lfs_rename(T, p, q)
    <2>1. Grown(tree, T, q) /\ CanRename(T, p, q) /\ IsTree(T) /\ Shrunk(R, tree', p)
      BY <1>6, RenameMovesTree
    <2>2. r # p /\ r # q /\ ~ IsStrictPrefix(p, r)
      <3>1. r # NULL
        BY TreeAssumption
      <3> QED BY <1>6, <3>1 DEF Rename, RenameBusy, RenameAllowed, IsOpen
    <2> HIDE DEF T
    <2>3. T[r] = "file"
      BY <2>1, GrowKeepsFiles
    <2>4. ~ IsPrefix(p, r) /\ ~ IsPrefix(q, r)
      BY <2>1, <2>2, <2>3, RenameApart DEF IsStrictPrefix
    <2>5. R[r] = T[r]
      BY <2>1, <2>4, RenamedTree
    <2> HIDE DEF R
    <2> QED BY <2>1, <2>3, <2>5, ShrinkKeepsFiles
  <1>7. ASSUME NEW p \in Paths, NEW q \in Paths, RenameRefused(p, q)
        PROVE  tree'[r] = "file"
    <2>1. PICK X : tree' = mkdirs(tree, q, X)
      BY <1>7 DEF RenameRefused, Become
    <2> QED BY <1>0, <2>1, MkdirsGrow, GrowKeepsFiles
  <1> QED BY <1>1, <1>2, <1>3, <1>4, <1>5, <1>6, <1>7 DEF TreeCall

(* The property is inductive with the invariant.                           *)
LEMMA OpenNamesStep ==
  ASSUME ~ RenameOpen, TreeInv, OpenNamesExist, [Next]_vars
  PROVE  OpenNamesExist'
  <1>0. open \in [Handles -> Paths \cup {NULL}]
    BY DEF TreeInv
  <1>1. CASE UNCHANGED vars
    BY <1>1 DEF vars, OpenNamesExist
  <1>2. ASSUME TreeCall PROVE OpenNamesExist'
    <2>1. ASSUME NEW g \in Handles, open[g] # NULL PROVE tree'[open[g]] = "file"
      BY <1>0, <1>2, <2>1, CallKeepsOpenFiles DEF OpenNamesExist, IsOpen
    <2>2. CASE open' = open
      BY <2>1, <2>2 DEF OpenNamesExist
    <2>3. ASSUME NEW h \in Handles, NEW p \in Paths, NEW create, OpenFile(h, p, create)
          PROVE  OpenNamesExist'
      <3>1. PICK U : Opened(U, p)
        BY <2>3, OpenMakesFile
      <3>2. tree'[p] = "file"
        BY <3>1 DEF Opened, Become
      <3>3. open' = [open EXCEPT ![h] = p]
        BY <2>3 DEF OpenFile
      <3> QED BY <1>0, <2>1, <3>2, <3>3 DEF OpenNamesExist
    <2> QED BY <1>2, <2>2, <2>3 DEF TreeCall, OpenRefused, Unlink, MakeDir, RemoveDir, Rename, RenameRefused
  <1>3. ASSUME NEW h \in Handles, Close(h) PROVE OpenNamesExist'
    BY <1>0, <1>3 DEF Close, OpenNamesExist
  <1>4. ASSUME NEW s \in Streams, StreamStep(s) PROVE OpenNamesExist'
    BY <1>4 DEF StreamStep, OpenNamesExist
  <1> QED BY <1>1, <1>2, <1>3, <1>4, StepIsCall

(* The path stored with a descriptor names a file as long as it is open,   *)
(* provided callers rename no directory with open files below: that unlink *)
(* and rename look for the very path is enough                             *)
(* (esp_littlefs_get_fd_by_name).                                          *)
THEOREM OpenFilesKeepTheirNames ==
  ASSUME ~ RenameOpen
  PROVE  Spec => []OpenNamesExist
  <1>1. Init => OpenNamesExist
    BY DEF Init, OpenNamesExist
  <1>2. TreeInv /\ OpenNamesExist /\ [Next]_vars => OpenNamesExist'
    BY OpenNamesStep
  <1> QED BY <1>1, <1>2, TreeAlwaysConsistent, PTL DEF Spec

-----------------------------------------------------------------------------
(***************************************************************************)
(* Offsets of streams.                                                     *)
(***************************************************************************)

(* A directory lists finitely many names.                                  *)
LEMMA ChildrenAreFinite ==
  \A T, d : d \in Dirs \cup {NULL} => IsFiniteSet(Children(T, d))
  <1> DEFINE Ends == {p[Len(p)] : p \in Paths}
             f == [p \in Paths |-> p[Len(p)]]
  <1>1. IsFiniteSet(Ends)
    <2>1. f \in Surjection(Paths, Ends)
      BY DEF Surjection
    <2> QED BY <2>1, FS_Surjection, TreeAssumption
  <1>2. ASSUME NEW T, NEW d \in Dirs, NEW n \in Children(T, d) PROVE n \in Ends
    <2>1. Append(d, n) \in Paths /\ d \in Routes /\ n \in Nat \ {0}
      BY <1>2, NullIsNoDir, NamesArePositive, PathsAreRoutes DEF Children
    <2>2. Append(d, n)[Len(Append(d, n))] = n
      BY <2>1 DEF Routes
    <2> QED BY <2>1, <2>2
  <1>3. ASSUME NEW T PROVE Children(T, NULL) = {}
    BY DEF Children
  <1>4. ASSUME NEW T, NEW d \in Dirs \cup {NULL} PROVE Children(T, d) \in SUBSET Ends
    BY <1>2, <1>3
  <1> HIDE DEF Ends
  <1> QED BY <1>1, <1>4, FS_Subset

(* The entries that were returned.                                         *)
UpTo(S, n) == {m \in S : m <= n}

(* The smaller of two numbers.                                             *)
LEMMA MinOfTwo ==
  ASSUME NEW a \in Nat, NEW b \in Nat
  PROVE  Min({a, b}) = IF a <= b THEN a ELSE b
  <1>1. {a, b} \in SUBSET Nat /\ {a, b} # {}
    OBVIOUS
  <1>2. Min({a, b}) \in {a, b} /\ \A n \in {a, b} : Min({a, b}) <= n
    BY <1>1, MinIsLeast
  <1>3. Min({a, b}) \in {a, b} /\ Min({a, b}) <= a /\ Min({a, b}) <= b
    BY <1>2
  <1> HIDE <1>2
  <1> QED BY <1>3

(* The next entry is one more.                                             *)
LEMMA NextIsOneMore ==
  ASSUME NEW S \in SUBSET Nat, IsFiniteSet(S), NEW n \in Nat
  PROVE  LET rest == {m \in S : m > n} IN
         /\ Cardinality(S) \in Nat /\ Cardinality(UpTo(S, n)) \in Nat
         /\ rest = {} => Cardinality(UpTo(S, n)) = Cardinality(S)
         /\ rest # {} => /\ Cardinality(UpTo(S, n)) < Cardinality(S)
                         /\ Cardinality(UpTo(S, Min(rest))) = Cardinality(UpTo(S, n)) + 1
  <1> DEFINE rest == {m \in S : m > n}  low == UpTo(S, n)  next == Min(rest)
  <1>1. low \in SUBSET S /\ IsFiniteSet(low) /\ Cardinality(low) \in Nat /\ Cardinality(S) \in Nat
    <2>1. low \in SUBSET S
      BY DEF UpTo
    <2> HIDE DEF low
    <2> QED BY <2>1, FS_Subset, FS_CardinalityType
  <1>2. ASSUME rest = {} PROVE Cardinality(low) = Cardinality(S)
    <2>1. \A m \in S : m \in Nat /\ ~ (m > n)
      BY <1>2
    <2>2. \A m \in S : m <= n
      BY <2>1
    <2>3. low = S
      BY <2>2 DEF UpTo
    <2> QED BY <2>3
  <1>3. ASSUME rest # {}
        PROVE  /\ Cardinality(low) < Cardinality(S)
               /\ Cardinality(UpTo(S, next)) = Cardinality(low) + 1
    <2>1. next \in S /\ next > n /\ \A m \in S : m > n => next <= m
      <3>1. rest \in SUBSET Nat
        OBVIOUS
      <3> HIDE DEF rest
      <3>2. next \in rest /\ \A m \in rest : next <= m
        BY <1>3, <3>1, MinIsLeast
      <3> QED BY <3>2 DEF rest
    <2> HIDE DEF next
    <2>2. \A m \in S : m <= next <=> m <= n \/ m = next
      <3>1. next \in Nat /\ \A m \in S : m \in Nat
        BY <2>1
      <3> QED BY <2>1, <3>1
    <2>3. next \notin low
      BY <2>1 DEF UpTo
    <2>4. UpTo(S, next) = low \cup {next}
      BY <2>1, <2>2 DEF UpTo
    <2>5. UpTo(S, next) \in SUBSET S
      BY DEF UpTo
    <2> HIDE DEF low
    <2>6. Cardinality(low \cup {next}) = Cardinality(low) + 1
      BY <1>1, <2>3, FS_AddElement
    <2>7. Cardinality(UpTo(S, next)) <= Cardinality(S)
      BY <2>5, FS_Subset
    <2> QED BY <1>1, <2>4, <2>6, <2>7
  <1> QED BY <1>1, <1>2, <1>3

(* The property, of one stream.                                            *)
Tells(st) ==
  LET all == Children(tree, st.dir) IN
  Cardinality(UpTo(all, st.pos)) = Min({st.offset, Cardinality(all)})

(* The numbers it is about.                                                *)
LEMMA StreamSet ==
  ASSUME NEW st \in StreamStates
  PROVE  /\ Children(tree, st.dir) \in SUBSET Nat /\ IsFiniteSet(Children(tree, st.dir))
         /\ Cardinality(Children(tree, st.dir)) \in Nat
         /\ st.pos \in Nat /\ st.offset \in Nat
  <1>1. st.dir \in Dirs \cup {NULL} /\ st.pos \in Names \cup {0} /\ st.offset \in 0 .. MaxOffset
    BY DEF StreamStates
  <1>2. IsFiniteSet(Children(tree, st.dir))
    BY <1>1, ChildrenAreFinite
  <1>3. Children(tree, st.dir) \subseteq Names /\ Names \subseteq Nat \ {0}
    BY NamesArePositive
  <1>4. st.offset \in Nat
    BY <1>1, TreeAssumption
  <1>5. Cardinality(Children(tree, st.dir)) \in Nat
    BY <1>2, FS_CardinalityType
  <1>6. st.pos \in Nat
    <2>1. \A n \in Names \cup {0} : n \in Nat
      BY <1>3
    <2> QED BY <1>1, <2>1
  <1> QED BY <1>2, <1>3, <1>4, <1>5, <1>6

(* Reading an entry, or the end of the directory, keeps it.                *)
LEMMA ReadTells ==
  ASSUME NEW st \in StreamStates, st.offset < MaxOffset, Tells(st)
  PROVE  Tells(readdir_r(st))
  <1> DEFINE all == Children(tree, st.dir)
             new == readdir_r(st)
             rest == {n \in all : n > st.pos}
             c == Cardinality(all)
             k == Cardinality(UpTo(all, st.pos))
             o == st.offset
  <1>1. /\ new.dir = st.dir /\ new.offset = o + 1
        /\ new.pos = IF rest = {} THEN st.pos ELSE Min(rest)
    BY ReadKeepsTypes
  <1>2. all \in SUBSET Nat /\ IsFiniteSet(all) /\ st.pos \in Nat /\ o \in Nat
    BY StreamSet
  <1>3. k = Min({o, c})
    BY DEF Tells
  <1> HIDE DEF new
  <1>4. /\ c \in Nat /\ k \in Nat /\ (rest = {} => k = c)
        /\ rest # {} => k < c /\ Cardinality(UpTo(all, Min(rest))) = k + 1
    <2> HIDE DEF all
    <2> QED BY <1>2, NextIsOneMore
  <1>5. Cardinality(UpTo(all, new.pos)) = IF rest = {} THEN k ELSE k + 1
    BY <1>1, <1>4
  <1> HIDE DEF all, rest, c, k, o
  <1>6. k = IF o <= c THEN o ELSE c
    BY <1>2, <1>3, <1>4, MinOfTwo
  <1>7. Min({o + 1, c}) = IF o + 1 <= c THEN o + 1 ELSE c
    BY <1>2, <1>4, MinOfTwo
  <1>8. Cardinality(UpTo(all, new.pos)) = Min({o + 1, c})
    BY <1>2, <1>4, <1>5, <1>6, <1>7
  <1> QED BY <1>1, <1>8 DEF Tells, new, all, c

(* It holds at the beginning of any directory.                             *)
LEMMA BeginTells ==
  ASSUME NEW st \in StreamStates, st.pos = 0, st.offset = 0
  PROVE  Tells(st)
  <1> DEFINE all == Children(tree, st.dir)  c == Cardinality(all)
  <1>1. all \subseteq Nat \ {0} /\ c \in Nat
    BY NamesArePositive, StreamSet
  <1>2. UpTo(all, 0) = {}
    BY <1>1 DEF UpTo
  <1>3. Cardinality(UpTo(all, 0)) = 0
    BY <1>2, FS_EmptySet
  <1> HIDE DEF all, c
  <1>4. Min({0, c}) = 0
    BY <1>1, MinOfTwo
  <1> QED BY <1>3, <1>4 DEF Tells, all, c

(* Every call on a stream keeps it.                                        *)
LEMMA CallTells ==
  ASSUME NEW st \in StreamStates \cup {NULL}, NEW new, NEW s, StreamCalls(s, st, new),
         st # NULL /\ st.stable => Tells(st), new # NULL, new.stable
  PROVE  Tells(new)
  <1>1. CASE \E d \in Dirs : new = [dir |-> d, pos |-> 0, offset |-> 0, seek |-> NULL, stable |-> TRUE]
    <2>1. new \in StreamStates /\ new.pos = 0 /\ new.offset = 0
      BY <1>1, TreeAssumption DEF StreamStates
    <2> QED BY <2>1, BeginTells
  <1>2. CASE st # NULL /\ st.offset < MaxOffset /\ new = readdir_r(st)
    <2>1. st.stable
      BY <1>2, ReadKeepsTypes
    <2> QED BY <1>2, <2>1, ReadTells
  <1>3. CASE st # NULL /\ \E k \in 0 .. MaxOffset \cup {NULL} : new = [st EXCEPT !.seek = k]
    <2>1. new.dir = st.dir /\ new.pos = st.pos /\ new.offset = st.offset /\ new.stable = st.stable
      BY <1>3 DEF StreamStates
    <2> QED BY <1>3, <2>1 DEF Tells
  <1>4. CASE st # NULL /\ \E k \in 0 .. MaxOffset \cup {NULL} : new = [Rewound(st) EXCEPT !.seek = k]
    <2>1. Rewound(st) \in StreamStates /\ Rewound(st).pos = 0 /\ Rewound(st).offset = 0
      BY <1>4, RewindKeepsTypes
    <2>2. Tells(Rewound(st))
      BY <2>1, BeginTells
    <2>3. new.dir = Rewound(st).dir /\ new.pos = Rewound(st).pos /\ new.offset = Rewound(st).offset
      BY <1>4, <2>1 DEF StreamStates
    <2> QED BY <2>2, <2>3 DEF Tells
  <1> QED BY <1>1, <1>2, <1>3, <1>4 DEF StreamCalls

(* The property, of every stream.                                          *)
StreamsTell == \A s \in Streams : stream[s] # NULL /\ stream[s].stable => Tells(stream[s])

(* It is inductive with the invariant.                                     *)
LEMMA StreamsTellStep ==
  ASSUME TreeInv, StreamsTell, [Next]_vars
  PROVE  StreamsTell'
  <1>1. CASE UNCHANGED vars
    BY <1>1 DEF vars, StreamsTell, Tells, Children
  <1>2. ASSUME TreeCall PROVE StreamsTell'
    <2>1. StreamsStay
      BY <1>2, TreeCallKeepsInv
    <2>2. ASSUME NEW s \in Streams, stream'[s] # NULL, stream'[s].stable
          PROVE  LET all == Children(tree', stream'[s].dir) IN
                 Cardinality(UpTo(all, stream'[s].pos)) = Min({stream'[s].offset, Cardinality(all)})
      <3>1. /\ Tells(stream[s]) /\ Children(tree, stream[s].dir) = Children(tree', stream'[s].dir)
            /\ stream'[s].pos = stream[s].pos /\ stream'[s].offset = stream[s].offset
        BY <2>1, <2>2 DEF StreamsStay, StreamsTell
      <3> QED BY <3>1 DEF Tells
    <2> QED BY <2>2 DEF StreamsTell, Tells, Children
  <1>3. ASSUME NEW h \in Handles, Close(h) PROVE StreamsTell'
    BY <1>3 DEF Close, StreamsTell, Tells, Children
  <1>4. ASSUME NEW s \in Streams, StreamStep(s) PROVE StreamsTell'
    <2>1. StreamCalls(s, stream[s], stream'[s]) /\ stream[s] \in StreamStates \cup {NULL}
      BY <1>4 DEF StreamStep, TreeInv, StreamsAreTyped
    <2>2. stream'[s] # NULL /\ stream'[s].stable => Tells(stream'[s])
      BY <2>1, CallTells DEF StreamsTell
    <2>3. ASSUME NEW u \in Streams, stream'[u] # NULL, stream'[u].stable
          PROVE  Tells(stream'[u])
      <3>1. CASE u = s
        BY <2>2, <2>3, <3>1
      <3>2. CASE u # s
        BY <1>4, <2>3, <3>2 DEF StreamStep, StreamsTell, TreeInv, StreamsAreTyped
      <3> QED BY <3>1, <3>2
    <2>4. tree' = tree
      BY <1>4 DEF StreamStep
    <2> QED BY <2>3, <2>4 DEF StreamsTell, Tells, Children
  <1> QED BY <1>1, <1>2, <1>3, <1>4, StepIsCall

(* The offset that telldir returns tells where a stream is while the       *)
(* listing of its directory is what it was, so seekdir leads back to the   *)
(* entry (vfs_littlefs_telldir, vfs_littlefs_seekdir).                     *)
THEOREM OffsetsLeadBack == Spec => []OffsetTellsPosition
  <1>1. Init => StreamsTell
    BY DEF Init, StreamsTell
  <1>2. TreeInv /\ StreamsTell /\ [Next]_vars => StreamsTell'
    BY StreamsTellStep
  <1>3. StreamsTell => OffsetTellsPosition
    BY DEF StreamsTell, Tells, UpTo, OffsetTellsPosition
  <1> QED BY <1>1, <1>2, <1>3, TreeAlwaysConsistent, PTL DEF Spec

-----------------------------------------------------------------------------
(***************************************************************************)
(* Empty directories (SPIFFS compatibility).                               *)
(***************************************************************************)

(* What rmdirs leaves empty above the path is what littlefs has refused to *)
(* remove, or its parent, if it is not covered: rmdirs visits the others,  *)
(* and those between are not empty.                                        *)
LEMMA RmdirsLeave ==
  ASSUME SPIFFS_COMPAT, NEW R, IsTree(R), NEW p \in Paths, Kind(R, Front(p)) = "dir", NEW X,
         NEW d \in EmptyDirs(rmdirs(R, p, X)) \ X, IsStrictPrefix(d, p)
  PROVE  d \in Uncovered(p)
  <1> DEFINE U == rmdirs(R, p, X)  f == Front(p)
  <1>1. Shrunk(R, U, p) /\ \A k \in 1 .. Parents(p) : Parent(p, k) \notin EmptyDirs(U) \ X
    BY RmdirsShrink
  <1>2. d \in Paths /\ Below(U, d) = {} /\ d \in Routes /\ p \in Routes /\ Len(d) \in Nat \ {0}
    BY PathsAreRoutes DEF EmptyDirs
  <1>3. IsPrefix(d, f) /\ Len(f) = Len(p) - 1 /\ f \in Routes /\ (f # <<>> => f \in Paths)
    BY <1>2, FrontOfPath
  <1>4. Len(d) > Parents(p)
    <2>1. IsPrefix(d, p)
      BY DEF IsStrictPrefix
    <2>2. d = Parent(p, Len(d))
      BY <1>2, <2>1, PrefixIsCut DEF Parent
    <2>3. Len(d) \notin 1 .. Parents(p)
      BY <1>1, <2>2
    <2> QED BY <1>2, <2>3, ParentsAreSome
  <1>5. Len(d) <= Len(f)
    BY <1>2, <1>3, PrefixIsCut
  <1>6. Len(p) - 1 > COVERED
    <2>1. Len(p) \in Nat /\ COVERED \in Nat
      BY TreeAssumption, PathsAreRoutes
    <2>2. Len(d) > Parents(p) /\ Len(d) <= Len(p) - 1
      BY <1>3, <1>4, <1>5
    <2> QED BY <1>2, <2>1, <2>2 DEF Parents
  <1> HIDE DEF U
  <1>7. d = f
    <2>1. ASSUME d # f PROVE FALSE
      <3>1. f # <<>> /\ f \in Paths
        BY <1>2, <1>3, <1>5, PathsAreRoutes
      <3>2. R[f] = "dir"
        BY <3>1 DEF Kind
      <3>3. ~ (Len(f) <= Parents(p))
        BY <1>2, <1>3, <1>4, <1>5, ParentsAreSome, PathsAreRoutes
      <3>4. U[f] = "dir"
        BY <1>1, <3>1, <3>2, <3>3 DEF Shrunk
      <3>5. f \in Below(U, d)
        BY <1>3, <2>1, <3>1, <3>4 DEF Below, IsStrictPrefix
      <3> QED BY <1>2, <3>5
    <2> QED BY <2>1
  <1> QED BY <1>6, <1>7 DEF Uncovered

(* A directory that lost nothing was as empty before.                      *)
LEMMA EmptyBefore ==
  ASSUME NEW T, NEW U, NEW d \in Paths, d \in EmptyDirs(U), T[d] = "dir",
         \A r \in Paths : IsStrictPrefix(d, r) /\ T[r] # "none" => U[r] # "none"
  PROVE  d \in EmptyDirs(T)
  BY DEF EmptyDirs, Below

(* A step that explains what it leaves empty.                              *)
Explains == EmptyDirs(tree') \subseteq kept'

(* What it takes for every call but rename.                                *)
LEMMA BecomeExplains ==
  ASSUME NEW T, NEW more, Become(T, more), EmptyDirs(tree) \subseteq kept,
         \A d \in EmptyDirs(T) : d \in EmptyDirs(tree) \/ d \in more
  PROVE  Explains
  BY DEF Become, Explains

(* Refused calls keep the parents they have made.                          *)
LEMMA GrowExplains ==
  ASSUME TreeInv, EmptyDirs(tree) \subseteq kept,
         NEW p \in Paths, NEW X, Become(mkdirs(tree, p, X), Made(mkdirs(tree, p, X)))
  PROVE  Explains
  <1> DEFINE T == mkdirs(tree, p, X)
  <1>1. Grown(tree, T, p) /\ Become(T, Made(T))
    BY MkdirsGrow DEF TreeInv
  <1> HIDE DEF T
  <1>2. ASSUME NEW d \in EmptyDirs(T), d \notin Made(T) PROVE d \in EmptyDirs(tree)
    <2>1. d \in Paths /\ T[d] = "dir"
      BY DEF EmptyDirs
    <2>2. tree[d] = "dir"
      BY <1>1, <1>2, <2>1 DEF Grown, Made
    <2>3. \A r \in Paths : tree[r] # "none" => T[r] # "none"
      BY <1>1 DEF Grown
    <2> QED BY <2>1, <2>2, <2>3, EmptyBefore
  <1> QED BY <1>1, <1>2, BecomeExplains

(* The parents that open makes are not empty, as the file is below them.   *)
LEMMA OpenExplains ==
  ASSUME TreeInv, EmptyDirs(tree) \subseteq kept,
         NEW h \in Handles, NEW p \in Paths, NEW create, OpenFile(h, p, create)
  PROVE  Explains
  <1>1. PICK U : Opened(U, p)
    BY OpenMakesFile
  <1> DEFINE T == mkdirs(tree, p, {})
  <1>2. Grown(tree, T, p) /\ Become(U, {}) /\ U[p] = "file" /\ \A r \in Paths : r # p => U[r] = T[r]
    BY <1>1, MkdirsGrow DEF TreeInv, Opened
  <1> HIDE DEF T
  <1>3. ASSUME NEW d \in EmptyDirs(U) PROVE d \in EmptyDirs(tree)
    <2>1. d \in Paths /\ U[d] = "dir" /\ Below(U, d) = {}
      BY DEF EmptyDirs
    <2>2. d # p /\ p \notin Below(U, d)
      BY <1>2, <2>1
    <2>3. ~ IsStrictPrefix(d, p)
      BY <1>2, <2>2 DEF Below
    <2>4. tree[d] = "dir"
      BY <1>2, <2>1, <2>2, <2>3 DEF Grown
    <2>5. \A r \in Paths : tree[r] # "none" => U[r] # "none"
      BY <1>2 DEF Grown
    <2> QED BY <2>1, <2>4, <2>5, EmptyBefore
  <1> QED BY <1>2, <1>3, BecomeExplains

(* The parents of the last file go with it, but for those refused.         *)
LEMMA UnlinkExplains ==
  ASSUME SPIFFS_COMPAT, TreeInv, EmptyDirs(tree) \subseteq kept, NEW p \in Paths, Unlink(p)
  PROVE  Explains
  <1> DEFINE R == [tree EXCEPT ![p] = "none"]
  <1>0. PICK X : LET U == rmdirs(R, p, X) IN Shrunk(R, U, p) /\ Become(U, Uncovered(p) \cup X)
    BY UnlinkRemovesFile
  <1> DEFINE U == rmdirs(R, p, X)
  <1>1. /\ IsTree(R) /\ R[p] = "none" /\ \A r \in Paths : r # p => R[r] = tree[r]
        /\ Shrunk(R, U, p) /\ Become(U, Uncovered(p) \cup X)
    BY <1>0, UnlinkRemovesFile
  <1>2. Kind(R, Front(p)) = "dir"
    <2>1. Kind(tree, Front(p)) = "dir"
      BY DEF TreeInv, IsTree, Unlink
    <2> QED BY <1>1, <2>1, FrontOfPath DEF Kind
  <1> HIDE DEF R
  <1>3. ASSUME NEW d \in EmptyDirs(U) \ X, IsStrictPrefix(d, p) PROVE d \in Uncovered(p)
    BY <1>1, <1>2, <1>3, RmdirsLeave
  <1> HIDE DEF U
  <1>4. ASSUME NEW d \in EmptyDirs(U), ~ IsStrictPrefix(d, p) PROVE d \in EmptyDirs(tree)
    <2>1. d \in Paths /\ U[d] = "dir"
      BY DEF EmptyDirs
    <2>2. R[d] = "dir" /\ tree[d] = "dir"
      BY <1>1, <2>1 DEF Shrunk
    <2>3. ASSUME NEW r \in Paths, IsStrictPrefix(d, r), tree[r] # "none" PROVE U[r] # "none"
      <3>1. ~ IsStrictPrefix(r, p) /\ r # p
        BY <1>4, <2>1, <2>3, PathsAreRoutes, PrefixIsOrder DEF IsStrictPrefix
      <3> QED BY <1>1, <2>3, <3>1 DEF Shrunk
    <2> QED BY <2>1, <2>2, <2>3, EmptyBefore
  <1> QED BY <1>1, <1>3, <1>4, BecomeExplains

(* A directory made by a caller is one.                                    *)
LEMMA MakeDirExplains ==
  ASSUME TreeInv, EmptyDirs(tree) \subseteq kept, NEW p \in Paths, MakeDir(p)
  PROVE  Explains
  <1> DEFINE U == Mkdir(tree, p, {})
  <1>1. Become(U, {p}) /\ U[p] = "dir" /\ \A r \in Paths : r # p => U[r] = tree[r]
    BY MakeDirTree
  <1> HIDE DEF U
  <1>2. ASSUME NEW d \in EmptyDirs(U), d # p PROVE d \in EmptyDirs(tree)
    <2>1. d \in Paths /\ tree[d] = "dir" /\ \A r \in Paths : tree[r] # "none" => U[r] # "none"
      BY <1>1, <1>2 DEF EmptyDirs
    <2> QED BY <2>1, EmptyBefore
  <1> QED BY <1>1, <1>2, BecomeExplains

(* The parent of a directory that a caller has removed.                    *)
LEMMA RemoveDirExplains ==
  ASSUME TreeInv, EmptyDirs(tree) \subseteq kept, NEW p \in Paths, RemoveDir(p)
  PROVE  Explains
  <1> DEFINE U == Rmdir(tree, p, {})  f == Front(p)
  <1>1. /\ Become(U, {f}) /\ tree[p] = "dir" /\ U[p] = "none"
        /\ \A r \in Paths : r # p => U[r] = tree[r]
    BY RemoveDirTree
  <1>2. Kind(tree, f) = "dir"
    BY <1>1 DEF TreeInv, IsTree
  <1> HIDE DEF U
  <1>3. ASSUME NEW d \in EmptyDirs(U), d # f PROVE d \in EmptyDirs(tree)
    <2>1. d \in Paths /\ U[d] = "dir" /\ Below(U, d) = {} /\ d \in Routes
      BY PathsAreRoutes DEF EmptyDirs
    <2>2. tree[d] = "dir"
      BY <1>1, <2>1
    <2>3. ~ IsStrictPrefix(d, p)
      <3>1. ASSUME IsStrictPrefix(d, p) PROVE FALSE
        <4>1. IsPrefix(d, f) /\ f \in Routes /\ f # p /\ (f # <<>> => f \in Paths)
          BY <2>1, <3>1, FrontOfPath
        <4>2. f # <<>>
          BY <2>1, <4>1, RootIsPrefix, PrefixIsOrder, PathsAreRoutes
        <4>3. f \in Paths /\ U[f] = "dir"
          BY <1>1, <1>2, <4>1, <4>2 DEF Kind
        <4>4. f \in Below(U, d)
          BY <1>3, <4>1, <4>3 DEF Below, IsStrictPrefix
        <4> QED BY <2>1, <4>4
      <3> QED BY <3>1
    <2>4. \A r \in Paths : IsStrictPrefix(d, r) /\ tree[r] # "none" => U[r] # "none"
      BY <1>1, <2>3
    <2> QED BY <2>1, <2>2, <2>4, EmptyBefore
  <1> QED BY <1>1, <1>3, BecomeExplains

(* The destination holds what has moved, with the empty directories in it; *)
(* the source leaves its parents to rmdirs.                                *)
LEMMA RenameExplains ==
  ASSUME SPIFFS_COMPAT, TreeInv, EmptyDirs(tree) \subseteq kept,
         NEW p \in Paths, NEW q \in Paths, Rename(p, q)
  PROVE  Explains
  <1> DEFINE T == mkdirs(tree, q, {})  R == lfs_rename(T, p, q)
  <1>0. PICK X \in SUBSET Covered(p) : RenameLeaves(R, p, q, X)
    BY RenameMovesTree
  <1>1. /\ Grown(tree, T, q) /\ CanRename(T, p, q) /\ IsTree(T) /\ IsTree(R)
        /\ tree' = rmdirs(R, p, X) /\ Shrunk(R, tree', p)
    BY <1>0, RenameMovesTree DEF RenameLeaves
  <1>2. kept' = {MovedPath(d, p, q) : d \in kept \cup Uncovered(p) \cup X} \cap EmptyDirs(tree')
    BY <1>0 DEF RenameLeaves
  <1> HIDE DEF T
  <1>3. /\ ~ IsPrefix(p, q) /\ ~ IsPrefix(q, p) /\ p \in Routes /\ q \in Routes
        /\ \A r \in Paths : IsStrictPrefix(q, r) => T[r] = "none"
    BY <1>1, RenameApart, PathsAreRoutes
  <1>4. /\ \A o \in Movers(T, p) : R[MovedPath(o, p, q)] = T[o]
        /\ \A r \in Paths : IsPrefix(q, r) /\ R[r] # "none" =>
             \E o \in Movers(T, p) : r = MovedPath(o, p, q) /\ R[r] = T[o]
        /\ \A r \in Paths : IsPrefix(p, r) => R[r] = "none"
        /\ \A r \in Paths : ~ IsPrefix(q, r) /\ ~ IsPrefix(p, r) => R[r] = T[r]
    BY <1>1, RenamedTree
  <1> HIDE DEF R
  <1>5. ASSUME NEW r \in Paths, R[r] # "none", tree'[r] = "none" PROVE IsStrictPrefix(r, p)
    BY <1>1, <1>5 DEF Shrunk
  <1>6. p \in Movers(T, p) /\ T[p] # "none" /\ MovedPath(p, p, q) = q
    <2>1. p \in Movers(T, p)
      BY DEF Movers
    <2> QED BY <1>1, <2>1, MoversFacts
  <1>7. tree'[q] # "none"
    BY <1>3, <1>4, <1>5, <1>6 DEF IsStrictPrefix
  <1>8. ASSUME NEW d \in EmptyDirs(tree')
        PROVE  \E e \in kept \cup Uncovered(p) \cup X : d = MovedPath(e, p, q)
    <2>1. d \in Paths /\ tree'[d] = "dir" /\ Below(tree', d) = {} /\ d \in Routes
      BY PathsAreRoutes DEF EmptyDirs
    <2>2. R[d] = "dir"
      BY <1>1, <2>1 DEF Shrunk
    <2>3. CASE IsPrefix(q, d)
      <3>1. PICK o \in Movers(T, p) : d = MovedPath(o, p, q) /\ R[d] = T[o]
        BY <1>4, <2>1, <2>2, <2>3
      <3>2. o \in Paths /\ T[o] = "dir" /\ IsPrefix(p, o) /\ o \in Routes
        BY <1>1, <2>2, <3>1, MoversFacts, PathsAreRoutes
      <3>3. tree[o] = "dir"
        <4>1. ~ IsStrictPrefix(o, q)
          BY <1>3, <3>2, PrefixIsOrder DEF IsStrictPrefix
        <4> QED BY <1>1, <3>2, <4>1 DEF Grown
      <3>4. ASSUME NEW r \in Paths, IsStrictPrefix(o, r), tree[r] # "none" PROVE FALSE
        <4>1. T[r] # "none" /\ r \in Routes
          BY <1>1, <3>4, PathsAreRoutes DEF Grown
        <4>2. IsStrictPrefix(p, r)
          BY <1>3, <3>2, <3>4, <4>1, PrefixIsOrder DEF IsStrictPrefix
        <4>3. r \in Movers(T, p)
          BY <4>1, <4>2 DEF Movers, Below
        <4> DEFINE m == MovedPath(r, p, q)
        <4>4. m \in Paths /\ IsPrefix(q, m) /\ R[m] = T[r] /\ m \in Routes
          BY <1>1, <1>4, <4>3, MoversFacts, PathsAreRoutes
        <4>5. IsPrefix(d, m) /\ d # m
          <5>1. o # r /\ IsPrefix(o, r)
            BY <3>4 DEF IsStrictPrefix
          <5> QED BY <1>1, <3>1, <4>3, <5>1, MoversDiffer
        <4> HIDE DEF m
        <4>6. ~ IsStrictPrefix(m, p)
          BY <1>3, <4>4, PrefixIsOrder DEF IsStrictPrefix
        <4>7. tree'[m] # "none"
          BY <1>5, <4>1, <4>4, <4>6
        <4>8. m \in Below(tree', d)
          BY <4>4, <4>5, <4>7 DEF Below, IsStrictPrefix
        <4> QED BY <2>1, <4>8
      <3>5. o \in EmptyDirs(tree)
        BY <3>2, <3>3, <3>4 DEF EmptyDirs, Below
      <3> QED BY <3>1, <3>5
    <2>4. CASE ~ IsPrefix(q, d)
      <3>1. ~ IsPrefix(p, d) /\ T[d] = "dir"
        BY <1>4, <2>1, <2>2, <2>4
      <3>2. MovedPath(d, p, q) = d
        <4>1. d # NULL
          BY <2>1, TreeAssumption
        <4> QED BY <1>3, <2>1, <3>1, <4>1, MovedIsRebased
      <3>3. CASE IsStrictPrefix(d, p)
        <4>1. Kind(R, Front(p)) = "dir"
          <5>1. /\ Kind(T, Front(p)) = "dir" /\ Front(p) \in Dirs /\ Front(p) \in Routes
                /\ IsPrefix(Front(p), p) /\ Front(p) # p
            BY <1>1, <1>6, FrontOfPath DEF IsTree, IsStrictPrefix
          <5>2. ~ IsPrefix(p, Front(p)) /\ ~ IsPrefix(q, Front(p))
            BY <1>3, <5>1, PrefixIsOrder
          <5> QED BY <1>4, <5>1, <5>2 DEF Kind, Dirs
        <4>2. d \in Uncovered(p) \cup X
          BY <1>1, <3>3, <4>1, RmdirsLeave
        <4> QED BY <3>2, <4>2
      <3>4. CASE ~ IsStrictPrefix(d, p)
        <4>1. ~ IsStrictPrefix(d, q)
          BY <1>7, <2>1 DEF Below
        <4>2. tree[d] = "dir"
          BY <1>1, <2>1, <3>1, <4>1 DEF Grown
        <4>3. ASSUME NEW r \in Paths, IsStrictPrefix(d, r), tree[r] # "none" PROVE tree'[r] # "none"
          <5>1. T[r] # "none" /\ r \in Routes /\ IsPrefix(d, r) /\ d # r
            BY <1>1, <4>3, PathsAreRoutes DEF Grown, IsStrictPrefix
          <5>2. ~ IsPrefix(p, r)
            BY <1>3, <2>1, <3>1, <3>4, <5>1, PrefixIsOrder DEF IsStrictPrefix
          <5>3. ~ IsStrictPrefix(r, p)
            BY <1>3, <2>1, <3>4, <5>1, PrefixIsOrder DEF IsStrictPrefix
          <5>4. CASE IsPrefix(q, r)
            <6>1. r = q
              BY <1>3, <5>1, <5>4 DEF IsStrictPrefix
            <6> QED BY <1>7, <6>1
          <5>5. CASE ~ IsPrefix(q, r)
            BY <1>4, <1>5, <5>1, <5>2, <5>3, <5>5
          <5> QED BY <5>4, <5>5
        <4>4. d \in EmptyDirs(tree)
          BY <2>1, <4>2, <4>3, EmptyBefore
        <4> QED BY <3>2, <4>4
      <3> QED BY <3>3, <3>4
    <2> QED BY <2>3, <2>4
  <1> QED BY <1>2, <1>8 DEF Explains

(* Every step explains.                                                    *)
LEMMA CallExplains ==
  ASSUME SPIFFS_COMPAT, TreeInv, EmptyDirs(tree) \subseteq kept, [Next]_vars
  PROVE  Explains
  <1>1. ASSUME tree' = tree, kept' = kept PROVE Explains
    BY <1>1 DEF Explains
  <1>2. ASSUME TreeCall PROVE Explains
    <2>1. ASSUME NEW p \in Paths, NEW create, OpenRefused(p, create) PROVE Explains
      BY <2>1, GrowExplains DEF OpenRefused
    <2>2. ASSUME NEW p \in Paths, NEW q \in Paths, RenameRefused(p, q) PROVE Explains
      BY <2>2, GrowExplains DEF RenameRefused
    <2> QED BY <1>2, <2>1, <2>2, OpenExplains, UnlinkExplains, MakeDirExplains, RemoveDirExplains,
               RenameExplains DEF TreeCall
  <1> QED BY <1>1, <1>2, StepIsCall DEF vars, Close, StreamStep

(* With SPIFFS compatibility, a directory is empty only if a caller has    *)
(* made it or emptied it by rmdir, a refused call has left it, littlefs    *)
(* refused to remove that very one, or the path was too long for the       *)
(* buffer (mkdirs, rmdirs).                                                *)
THEOREM NoUnexplainedEmptyDirs == Spec => []EmptyDirsExplained
  <1>1. Init => EmptyDirsExplained
    BY DEF Init, EmptyDirsExplained
  <1>2. TreeInv /\ EmptyDirsExplained /\ [Next]_vars => EmptyDirsExplained'
    <2> SUFFICES ASSUME TreeInv, EmptyDirsExplained, [Next]_vars, SPIFFS_COMPAT
                 PROVE  EmptyDirs(tree') \subseteq kept'
      BY DEF EmptyDirsExplained, EmptyDirs, Below
    <2>1. EmptyDirs(tree) \subseteq kept
      BY DEF EmptyDirsExplained
    <2> QED BY <2>1, CallExplains DEF Explains
  <1> QED BY <1>1, <1>2, TreeAlwaysConsistent, PTL DEF Spec
=============================================================================
