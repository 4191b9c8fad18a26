-------------------------- MODULE FdTableOps_proofs -------------------------
(***************************************************************************)
(* What each function of the code does to a consistent descriptor table,   *)
(* for the proofs about the modules that use it.                           *)
(***************************************************************************)
EXTENDS FdTableOps, FiniteSetTheorems, SequenceTheorems, WellFoundedInduction, TLAPS

(***************************************************************************)
(* A well-formed table: its type, spelled out field by field.              *)
(***************************************************************************)
LEMMA TableType ==
  ASSUME NEW t
  PROVE  t \in Table <=>
           /\ t = [cache |-> t.cache, cache_size |-> t.cache_size, file |-> t.file,
                   fd_count |-> t.fd_count, heap |-> t.heap]
           /\ \E n \in 0 .. UINT16_MAX : t.cache \in [0 .. n - 1 -> Files \cup {NULL}]
           /\ t.cache_size \in 0 .. UINT16_MAX
           /\ t.file \in Seq(Files)
           /\ t.fd_count \in Nat
           /\ t.heap \in SUBSET Files
  BY DEF Table, Caches

(* The occupied slots of a table are finitely many.                        *)
LEMMA OccupiedFinite ==
  ASSUME NEW t \in Table
  PROVE  IsFiniteSet(Occupied(t))
  <1>1. PICK n \in 0 .. UINT16_MAX : t.cache \in [0 .. n - 1 -> Files \cup {NULL}]
    BY TableType
  <1>2. n \in Int /\ 0 \in Int /\ n - 1 \in Int
    BY TableAssumption
  <1>3. IsFiniteSet(0 .. n - 1)
    BY <1>2, FS_Interval, Zenon
  <1>4. Occupied(t) \in SUBSET (0 .. n - 1)
    BY <1>1 DEF Occupied
  <1> QED
    BY <1>3, <1>4, FS_Subset

(* The search loop of esp_littlefs_allocate_fd ends at the first null slot *)
(* or at cache_size: the operator's CHOOSE has a witness.                  *)
LEMMA FreeSlotDefined ==
  ASSUME NEW t \in Table, DOMAIN t.cache = 0 .. t.cache_size - 1
  PROVE  /\ FreeSlot(t) \in 0 .. t.cache_size
         /\ FreeSlot(t) = t.cache_size \/ t.cache[FreeSlot(t)] = NULL
         /\ \A k \in 0 .. FreeSlot(t) - 1 : t.cache[k] # NULL
  <1> DEFINE T == {i \in 0 .. t.cache_size : i = t.cache_size \/ t.cache[i] = NULL}
  <1>1. t.cache_size \in Nat
    BY TableType, TableAssumption
  <1>2. T \subseteq Nat /\ T # {}
    BY <1>1
  <1>3. \E x \in T : \A y \in T : ~ (<<y, x>> \in OpToRel(<, Nat))
    BY <1>2, WFMin, NatLessThanWellFounded
  <1>4. PICK x \in T : \A y \in T : ~ (y < x)
    BY <1>2, <1>3 DEF OpToRel
  <1>5. \A k \in 0 .. x - 1 : t.cache[k] # NULL
    BY <1>1, <1>4
  <1> QED
    BY <1>4, <1>5 DEF FreeSlot

(* A table with a free slot: fewer files than slots.                       *)
HasRoom(t) == DOMAIN t.cache = 0 .. t.cache_size - 1 /\ t.fd_count < t.cache_size

(* If fd_count counts the occupied slots and is below cache_size, the      *)
(* search loop finds a slot inside the cache and the slot is free.         *)
LEMMA FreeSlotFound ==
  ASSUME NEW t \in Table, HasRoom(t), CountIsOccupancy(t)
  PROVE  FreeSlot(t) \in 0 .. t.cache_size - 1 /\ t.cache[FreeSlot(t)] = NULL
  <1>1. t.cache_size \in Nat /\ t.fd_count \in Nat
    BY TableType, TableAssumption
  <1>2. SUFFICES ASSUME FreeSlot(t) = t.cache_size
                 PROVE  FALSE
    BY <1>1, FreeSlotDefined DEF HasRoom
  <1>3. \A k \in 0 .. t.cache_size - 1 : t.cache[k] # NULL
    BY <1>2, FreeSlotDefined DEF HasRoom
  <1>4. Occupied(t) = 0 .. t.cache_size - 1
    BY <1>3 DEF Occupied, HasRoom
  <1>5. Cardinality(0 .. t.cache_size - 1) = t.cache_size
    <2>1. 0 \in Int /\ t.cache_size - 1 \in Int
      BY <1>1
    <2>2. Cardinality(0 .. t.cache_size - 1)
            = IF 0 > t.cache_size - 1 THEN 0 ELSE (t.cache_size - 1) - 0 + 1
      BY <2>1, FS_Interval, Zenon
    <2> QED
      BY <1>1, <2>2
  <1> QED
    BY <1>1, <1>4, <1>5 DEF CountIsOccupancy, HasRoom

(* A consistent table never holds more files than its cache has slots.     *)
LEMMA CountBounded ==
  ASSUME NEW t \in Table, CountIsOccupancy(t), CacheAllocated(t)
  PROVE  t.fd_count <= t.cache_size
  <1>1. t.cache_size \in Nat
    BY TableType, TableAssumption
  <1>2. 0 \in Int /\ t.cache_size - 1 \in Int
    BY <1>1
  <1>3. /\ IsFiniteSet(0 .. t.cache_size - 1)
        /\ Cardinality(0 .. t.cache_size - 1)
             = IF 0 > t.cache_size - 1 THEN 0 ELSE (t.cache_size - 1) - 0 + 1
    BY <1>2, FS_Interval, Zenon
  <1>4. Occupied(t) \in SUBSET (0 .. t.cache_size - 1)
    BY DEF Occupied, CacheAllocated
  <1>5. Cardinality(Occupied(t)) <= Cardinality(0 .. t.cache_size - 1)
    BY <1>3, <1>4, FS_Subset
  <1> QED
    BY <1>1, <1>3, <1>5 DEF CountIsOccupancy

(* The guard under which the code grows the cache without a null access.   *)
CanAllocate(t) ==
  /\ t.cache_size < UINT16_MAX
  /\ NeedsGrowth(t) \/ DOMAIN t.cache # {}
  /\ NeedsGrowth(t) => t.cache_size > 0

(* Doubling a cache that is neither empty nor at the limit makes room.     *)
LEMMA NewSizeLarger ==
  ASSUME NEW t \in Table, 0 < t.cache_size, t.cache_size < UINT16_MAX
  PROVE  NewSize(t) \in 0 .. UINT16_MAX /\ NewSize(t) > t.cache_size
  <1>1. t.cache_size \in Nat /\ UINT16_MAX \in Nat /\ REALLOC_FACTOR \in Nat /\ REALLOC_FACTOR >= 2
    BY TableType, TableAssumption
  <1>2. \A a, b \in Nat : a >= 2 /\ b > 0 => a * b \in Nat /\ a * b > b
    OBVIOUS
  <1>3. REALLOC_FACTOR * t.cache_size \in Nat /\ REALLOC_FACTOR * t.cache_size > t.cache_size
    BY <1>1, <1>2
  <1> QED
    BY <1>1, <1>3 DEF NewSize

(* Growth keeps every file in its slot and the table consistent, and       *)
(* leaves room for one more.                                               *)
LEMMA GrowCorrect ==
  ASSUME NEW t \in Table, Consistent(t), NeedsGrowth(t) => t.cache_size > 0,
         t.cache_size < UINT16_MAX
  PROVE  /\ Grow(t) \in Table
         /\ Consistent(Grow(t))
         /\ Occupied(Grow(t)) = Occupied(t)
         /\ \A i \in Occupied(t) : Grow(t).cache[i] = t.cache[i]
         /\ Grow(t).heap = t.heap /\ Grow(t).file = t.file /\ Grow(t).fd_count = t.fd_count
         /\ CanAllocate(t) => HasRoom(Grow(t))
  <1>1. CASE ~NeedsGrowth(t)
    <2>1. Grow(t) = t
      BY <1>1 DEF Grow
    <2>2. CanAllocate(t) => HasRoom(t)
      BY <1>1, TableType, TableAssumption
      DEF CanAllocate, HasRoom, Consistent, CacheAllocated, NeedsGrowth
    <2> QED
      BY <2>1, <2>2
  <1>2. CASE NeedsGrowth(t)
    <2> DEFINE n == NewSize(t)
               c == [i \in 0 .. n - 1 |-> IF i \in DOMAIN t.cache THEN t.cache[i] ELSE NULL]
    <2>1. n \in 0 .. UINT16_MAX /\ n > t.cache_size
      BY <1>2, NewSizeLarger, TableType, TableAssumption
    <2>2. Grow(t) = [t EXCEPT !.cache = c, !.cache_size = n]
      BY <1>2 DEF Grow
    <2>3. /\ t.cache_size \in 0 .. UINT16_MAX /\ UINT16_MAX \in Nat
          /\ t.fd_count \in Nat
          /\ \A i \in DOMAIN t.cache : t.cache[i] \in Files \cup {NULL}
          /\ DOMAIN t.cache \subseteq 0 .. n - 1
      <3>1. DOMAIN t.cache \subseteq 0 .. t.cache_size - 1
        BY DEF Consistent, CacheAllocated
      <3> QED
        BY <2>1, <3>1, TableType, TableAssumption
    <2> HIDE DEF n
    <2>4. c \in [0 .. n - 1 -> Files \cup {NULL}]
      BY <2>3
    <2>5. /\ Grow(t).cache = c /\ Grow(t).cache_size = n
          /\ Grow(t).file = t.file /\ Grow(t).fd_count = t.fd_count /\ Grow(t).heap = t.heap
          /\ DOMAIN Grow(t).cache = 0 .. n - 1
      BY <2>2 DEF Table
    <2>6. Grow(t) \in Table
      <3>1. c \in Caches
        BY <2>1, <2>4 DEF Caches
      <3> HIDE DEF c
      <3> QED
        BY <2>1, <2>2, <3>1 DEF Table
    <2>7. /\ Occupied(Grow(t)) = Occupied(t)
          /\ \A i \in Occupied(t) : Grow(t).cache[i] = t.cache[i]
      BY <2>3, <2>5 DEF Occupied
    <2> HIDE DEF c
    <2>8. Consistent(Grow(t))
      <3>1. CacheAllocated(Grow(t))
        BY <2>5 DEF CacheAllocated
      <3>2. NoSharedObject(Grow(t))
        BY <2>5, <2>7 DEF NoSharedObject, Consistent
      <3>4. ListIsArray(Grow(t))
        <4>1. Listed(Grow(t)) = Listed(t)
          BY <2>5 DEF Listed
        <4>2. {Grow(t).cache[i] : i \in Occupied(Grow(t))} = {t.cache[i] : i \in Occupied(t)}
          BY <2>7
        <4> QED
          BY <4>1, <4>2 DEF ListIsArray, Consistent
      <3>3. CountIsOccupancy(Grow(t)) /\ NothingLeaked(Grow(t))
        BY <2>5, <2>7 DEF CountIsOccupancy, NothingLeaked, Listed, Consistent
      <3> QED
        BY <3>1, <3>2, <3>3, <3>4 DEF Consistent
    <2>9. HasRoom(Grow(t))
      <3>1. t.fd_count <= t.cache_size
        BY CountBounded DEF Consistent
      <3> QED
        BY <2>1, <2>3, <2>5, <3>1 DEF HasRoom
    <2> QED
      BY <2>5, <2>6, <2>7, <2>8, <2>9
  <1> QED
    BY <1>1, <1>2

(* A growth leaves the array as long as cache_size says.                   *)
LEMMA GrowDomain ==
  ASSUME NEW t \in Table, DOMAIN t.cache = 0 .. t.cache_size - 1
  PROVE  DOMAIN Grow(t).cache = 0 .. Grow(t).cache_size - 1
  <1>1. CASE ~NeedsGrowth(t)
    BY <1>1 DEF Grow
  <1>2. CASE NeedsGrowth(t)
    <2> DEFINE c == [i \in 0 .. NewSize(t) - 1 |->
                       IF i \in DOMAIN t.cache THEN t.cache[i] ELSE NULL]
    <2>1. Grow(t) = [t EXCEPT !.cache = c, !.cache_size = NewSize(t)]
      BY <1>2 DEF Grow
    <2>2. DOMAIN c = 0 .. NewSize(t) - 1
      OBVIOUS
    <2> HIDE DEF c
    <2> QED
      BY <2>1, <2>2 DEF Table
  <1> QED
    BY <1>1, <1>2

(* Adding a file object that was not allocated, in a free slot, keeps the  *)
(* table consistent and touches no other slot.                             *)
LEMMA InsertCorrect ==
  ASSUME NEW t \in Table, Consistent(t), HasRoom(t), NEW f \in Files \ t.heap
  PROVE  /\ Insert(t, f) \in Table
         /\ Consistent(Insert(t, f))
         /\ FreeSlot(t) \in DOMAIN t.cache \ Occupied(t)
         /\ Occupied(Insert(t, f)) = Occupied(t) \cup {FreeSlot(t)}
         /\ Insert(t, f).cache[FreeSlot(t)] = f
         /\ \A i \in Occupied(t) : Insert(t, f).cache[i] = t.cache[i]
         /\ DOMAIN Insert(t, f).cache = DOMAIN t.cache
         /\ Insert(t, f).cache_size = t.cache_size
  <1> DEFINE s == FreeSlot(t)
             c == [i \in DOMAIN t.cache |-> IF i = s THEN f ELSE t.cache[i]]
             u == Insert(t, f)
             l == <<f>> \o t.file
  <1>1. s \in DOMAIN t.cache /\ t.cache[s] = NULL /\ s \notin Occupied(t)
    BY FreeSlotFound DEF HasRoom, Occupied, Consistent
  <1>2. /\ t.file \in Seq(Files) /\ t.fd_count \in Nat /\ t.heap \in SUBSET Files
        /\ f \in Files /\ f # NULL /\ f \notin t.heap
    BY TableType, TableAssumption
  <1> HIDE DEF s
  <1>3. u = [t EXCEPT !.cache = c, !.file = l, !.fd_count = t.fd_count + 1,
                      !.heap = t.heap \cup {f}]
    BY DEF Insert, Place, Link, s
  <1>4. /\ u.cache = c /\ u.file = l /\ u.fd_count = t.fd_count + 1
        /\ u.heap = t.heap \cup {f} /\ u.cache_size = t.cache_size
    BY <1>3 DEF Table
  <1>5. /\ l \in Seq(Files) /\ Len(l) = Len(t.file) + 1 /\ l[1] = f
        /\ \A k \in 2 .. Len(l) : l[k] = t.file[k - 1]
    BY <1>2
  <1>6. u \in Table
    <2>1. PICK n \in 0 .. UINT16_MAX : t.cache \in [0 .. n - 1 -> Files \cup {NULL}]
      BY TableType
    <2>2. c \in [0 .. n - 1 -> Files \cup {NULL}]
      BY <1>2, <2>1
    <2>3. c \in Caches
      BY <2>2 DEF Caches
    <2>4. t.fd_count + 1 \in Nat /\ t.heap \cup {f} \in SUBSET Files
      BY <1>2
    <2> HIDE DEF c, l
    <2> QED
      BY <1>3, <1>5, <2>3, <2>4 DEF Table
  <1>7. Occupied(u) = Occupied(t) \cup {s} /\ \A i \in Occupied(t) : u.cache[i] = t.cache[i]
    BY <1>1, <1>2, <1>4 DEF Occupied
  <1>8. u.cache[s] = f /\ DOMAIN u.cache = DOMAIN t.cache
    BY <1>1, <1>4
  <1> HIDE DEF c, u
  <1>9. Listed(u) = Listed(t) \cup {f}
    <2>1. DOMAIN l = 1 .. Len(l) /\ DOMAIN t.file = 1 .. Len(t.file) /\ Len(t.file) \in Nat
      BY <1>2, <1>5
    <2> HIDE DEF l
    <2>2. \A k \in DOMAIN t.file : k + 1 \in DOMAIN l /\ l[k + 1] = t.file[k]
      BY <1>5, <2>1
    <2>3. \A k \in DOMAIN l : k = 1 \/ (k - 1 \in DOMAIN t.file /\ l[k] = t.file[k - 1])
      BY <1>5, <2>1
    <2>4. 1 \in DOMAIN l
      BY <1>5, <2>1
    <2>5. Listed(u) = {l[k] : k \in DOMAIN l}
      BY <1>4 DEF Listed
    <2>6. ASSUME NEW x \in Listed(u)
          PROVE  x \in Listed(t) \cup {f}
      <3>1. PICK k \in DOMAIN l : x = l[k]
        BY <2>5, <2>6
      <3>2. l[1] = f
        BY <1>5
      <3> QED
        BY <2>3, <3>1, <3>2 DEF Listed
    <2>7. ASSUME NEW x \in Listed(t) \cup {f}
          PROVE  x \in Listed(u)
      <3>1. l[1] = f
        BY <1>5
      <3>2. CASE x = f
        BY <2>4, <2>5, <3>1, <3>2
      <3>3. CASE x \in Listed(t)
        <4>1. PICK k \in DOMAIN t.file : x = t.file[k]
          BY <3>3 DEF Listed
        <4> QED
          BY <2>2, <2>5, <4>1
      <3> QED
        BY <2>7, <3>2, <3>3
    <2> QED
      BY <2>6, <2>7
  <1>10. f \notin Listed(t) /\ \A i \in Occupied(t) : t.cache[i] # f
    <2>1. f \notin Listed(t)
      BY <1>2 DEF Consistent, NothingLeaked
    <2> QED
      BY <2>1 DEF Consistent, ListIsArray
  <1>11. Consistent(u)
    <2>1. CacheAllocated(u)
      BY <1>4, <1>8 DEF CacheAllocated, Consistent
    <2>2. \A i, j \in Occupied(u) : u.cache[i] = u.cache[j] => i = j
      BY <1>7, <1>8, <1>10 DEF Consistent, NoSharedObject
    <2>3. \A k, m \in DOMAIN u.file : u.file[k] = u.file[m] => k = m
      <3>1. DOMAIN l = 1 .. Len(t.file) + 1 /\ DOMAIN t.file = 1 .. Len(t.file) /\ Len(t.file) \in Nat
        BY <1>2, <1>5
      <3> HIDE DEF l
      <3>2. \A k \in DOMAIN l : k = 1 \/ (k - 1 \in DOMAIN t.file /\ l[k] = t.file[k - 1])
        BY <1>5, <3>1
      <3>3. \A k \in DOMAIN t.file : t.file[k] # f
        BY <1>10 DEF Listed
      <3>4. \A k, m \in DOMAIN t.file : t.file[k] = t.file[m] => k = m
        BY DEF Consistent, NoSharedObject
      <3>5. \A k, m \in DOMAIN l : l[k] = l[m] => k = m
        BY <1>5, <3>1, <3>2, <3>3, <3>4
      <3> QED
        BY <1>4, <3>5
    <2>4. ListIsArray(u)
      <3>1. {u.cache[i] : i \in Occupied(u)} = {t.cache[i] : i \in Occupied(t)} \cup {f}
        BY <1>7, <1>8
      <3> QED
        BY <1>9, <3>1 DEF Consistent, ListIsArray
    <2>5. CountIsOccupancy(u)
      <3>1. Cardinality(Occupied(t) \cup {s}) = Cardinality(Occupied(t)) + 1
        BY <1>1, OccupiedFinite, FS_AddElement
      <3> QED
        BY <1>4, <1>7, <3>1 DEF Consistent, CountIsOccupancy
    <2>6. NothingLeaked(u)
      BY <1>4, <1>9 DEF Consistent, NothingLeaked
    <2> QED
      BY <2>1, <2>2, <2>3, <2>4, <2>5, <2>6 DEF Consistent, NoSharedObject
  <1> QED
    BY <1>1, <1>4, <1>6, <1>7, <1>8, <1>11 DEF s, u

(* Taking one node out of the list shifts the nodes behind it.             *)
LEMMA RemoveAtShifts ==
  ASSUME NEW S, NEW s \in Seq(S), NEW p \in 1 .. Len(s)
  PROVE  /\ RemoveAt(s, p) \in Seq(S)
         /\ Len(RemoveAt(s, p)) = Len(s) - 1
         /\ \A j \in 1 .. Len(s) - 1 : RemoveAt(s, p)[j] = IF j < p THEN s[j] ELSE s[j + 1]
  <1> DEFINE a == SubSeq(s, 1, p - 1)
             b == SubSeq(s, p + 1, Len(s))
  <1>1. /\ Len(s) \in Nat /\ p \in Int /\ 1 <= p /\ p <= Len(s)
        /\ \A i \in 1 .. Len(s) : s[i] \in S
    BY ElementOfSeq, LenProperties
  <1>2. a \in Seq(S) /\ Len(a) = p - 1 /\ \A j \in 1 .. p - 1 : a[j] = s[j]
    <2>1. \A j \in 1 .. p - 1 : s[j] \in S
      BY <1>1
    <2>2. 1 \in Int /\ p - 1 \in Int
      BY <1>1
    <2>3. /\ a \in Seq(S)
          /\ Len(a) = IF 1 <= p - 1 THEN (p - 1) - 1 + 1 ELSE 0
          /\ \A i \in 1 .. (p - 1) - 1 + 1 : a[i] = s[1 + i - 1]
      BY <2>1, <2>2, SubSeqProperties
    <2> HIDE DEF a
    <2> QED
      BY <1>1, <2>3
  <1>3. /\ b \in Seq(S) /\ Len(b) = Len(s) - p
        /\ \A j \in 1 .. Len(s) - p : b[j] = s[p + j]
    <2>1. \A j \in p + 1 .. Len(s) : s[j] \in S
      BY <1>1
    <2>2. p + 1 \in Int /\ Len(s) \in Int
      BY <1>1
    <2>3. /\ b \in Seq(S)
          /\ Len(b) = IF p + 1 <= Len(s) THEN Len(s) - (p + 1) + 1 ELSE 0
          /\ \A i \in 1 .. Len(s) - (p + 1) + 1 : b[i] = s[(p + 1) + i - 1]
      BY <2>1, <2>2, SubSeqProperties
    <2> HIDE DEF b
    <2>4. \A j \in 1 .. Len(s) - p : j \in 1 .. Len(s) - (p + 1) + 1 /\ (p + 1) + j - 1 = p + j
      BY <1>1
    <2> QED
      BY <1>1, <2>3, <2>4
  <1>4. RemoveAt(s, p) = a \o b
    BY DEF RemoveAt
  <1> HIDE DEF a, b
  <1>5. /\ a \o b \in Seq(S)
        /\ Len(a \o b) = Len(a) + Len(b)
        /\ \A i \in 1 .. Len(a) + Len(b) : (a \o b)[i] = IF i <= Len(a) THEN a[i] ELSE b[i - Len(a)]
    BY <1>2, <1>3, ConcatProperties, Zenon
  <1>6. ASSUME NEW j \in 1 .. Len(s) - 1
        PROVE  (a \o b)[j] = IF j < p THEN s[j] ELSE s[j + 1]
    <2>1. CASE j < p
      BY <1>1, <1>2, <1>3, <1>5, <2>1
    <2>2. CASE ~(j < p)
      <3>1. /\ j - (p - 1) \in 1 .. Len(s) - p /\ p + (j - (p - 1)) = j + 1
            /\ j \in 1 .. (p - 1) + (Len(s) - p) /\ ~(j <= p - 1)
        BY <1>1, <2>2
      <3>2. (a \o b)[j] = b[j - (p - 1)]
        BY <1>2, <1>3, <1>5, <3>1
      <3>3. b[j - (p - 1)] = s[j + 1]
        BY <1>3, <3>1
      <3> QED
        BY <2>2, <3>2, <3>3
    <2> QED
      BY <2>1, <2>2
  <1> QED
    BY <1>1, <1>2, <1>3, <1>4, <1>5, <1>6

Elements(s)  == {s[k] : k \in DOMAIN s}
Injective(s) == \A k, l \in DOMAIN s : s[k] = s[l] => k = l

(* In a list without repetition, removing the node of a file removes that  *)
(* file and nothing else.                                                  *)
LEMMA RemoveNode ==
  ASSUME NEW s \in Seq(Files), NEW f \in Elements(s), Injective(s)
  PROVE  /\ RemoveAt(s, PositionOf(s, f)) \in Seq(Files)
         /\ Elements(RemoveAt(s, PositionOf(s, f))) = Elements(s) \ {f}
         /\ Injective(RemoveAt(s, PositionOf(s, f)))
  <1> DEFINE p == PositionOf(s, f)
             r == RemoveAt(s, p)
  <1> USE DEF Elements, Injective
  <1>1. Len(s) \in Nat /\ DOMAIN s = 1 .. Len(s)
    OBVIOUS
  <1>2. p \in 1 .. Len(s) /\ s[p] = f
    <2>1. PICK k \in DOMAIN s : s[k] = f
      OBVIOUS
    <2>2. \A j \in 1 .. k - 1 : s[j] # f
      BY <1>1, <2>1
    <2>3. s[p] = f /\ p \in DOMAIN s
      BY <2>1, <2>2 DEF PositionOf
    <2> QED
      BY <1>1, <2>3
  <1> HIDE DEF p
  <1>3. /\ r \in Seq(Files) /\ Len(r) = Len(s) - 1 /\ DOMAIN r = 1 .. Len(s) - 1
        /\ \A j \in 1 .. Len(s) - 1 : r[j] = IF j < p THEN s[j] ELSE s[j + 1]
    <2>1. /\ r \in Seq(Files)
          /\ Len(r) = Len(s) - 1
          /\ \A j \in 1 .. Len(s) - 1 : r[j] = IF j < p THEN s[j] ELSE s[j + 1]
      BY <1>2, RemoveAtShifts, Zenon
    <2> HIDE DEF r
    <2> QED
      BY <2>1
  <1> HIDE DEF r
  <1>4. ASSUME NEW k \in DOMAIN r
        PROVE  r[k] \in {s[j] : j \in DOMAIN s} /\ r[k] # f
    <2>1. CASE k < p
      <3>1. r[k] = s[k] /\ k \in DOMAIN s /\ k # p
        BY <1>1, <1>2, <1>3, <2>1
      <3> QED
        BY <1>1, <1>2, <3>1
    <2>2. CASE ~(k < p)
      <3>1. r[k] = s[k + 1] /\ k + 1 \in DOMAIN s /\ k + 1 # p
        BY <1>1, <1>2, <1>3, <2>2
      <3> QED
        BY <1>1, <1>2, <3>1
    <2> QED
      BY <2>1, <2>2
  <1>5. ASSUME NEW j \in DOMAIN s, s[j] # f
        PROVE  \E k \in DOMAIN r : r[k] = s[j]
    <2>1. CASE j < p
      BY <1>1, <1>2, <1>3, <1>5, <2>1
    <2>2. CASE j > p
      <3>1. j - 1 \in 1 .. Len(s) - 1 /\ ~(j - 1 < p) /\ (j - 1) + 1 = j
        BY <1>1, <1>2, <2>2
      <3> QED
        BY <1>3, <3>1
    <2> QED
      BY <1>1, <1>2, <1>5, <2>1, <2>2
  <1>6. ASSUME NEW k \in DOMAIN r, NEW l \in DOMAIN r, r[k] = r[l]
        PROVE  k = l
    <2> DEFINE at(j) == IF j < p THEN j ELSE j + 1
    <2>1. at(k) \in DOMAIN s /\ at(l) \in DOMAIN s /\ r[k] = s[at(k)] /\ r[l] = s[at(l)]
      BY <1>1, <1>2, <1>3
    <2>2. at(k) = at(l)
      BY <1>6, <2>1
    <2> QED
      BY <1>2, <1>3, <2>2
  <1> QED
    BY <1>3, <1>4, <1>5, <1>6 DEF p, r

(* Freeing an occupied descriptor empties its slot, takes its object out   *)
(* of list and heap, and touches no other slot.                            *)
LEMMA FreeFdCorrect ==
  ASSUME NEW t \in Table, Consistent(t), NEW fd \in Occupied(t)
  PROVE  /\ FreeFd(t, fd) \in Table
         /\ Consistent(FreeFd(t, fd))
         /\ Occupied(FreeFd(t, fd)) = Occupied(t) \ {fd}
         /\ \A i \in Occupied(t) \ {fd} : FreeFd(t, fd).cache[i] = t.cache[i]
         /\ DOMAIN FreeFd(t, fd).cache = DOMAIN t.cache
         /\ FreeFd(t, fd).cache_size = t.cache_size
         /\ FreeFd(t, fd).heap = t.heap \ {t.cache[fd]}
  <1> DEFINE f == t.cache[fd]
             c == [i \in DOMAIN t.cache |-> IF i = fd THEN NULL ELSE t.cache[i]]
             r == RemoveAt(t.file, PositionOf(t.file, f))
             u == FreeFd(t, fd)
  <1>1. /\ fd \in DOMAIN t.cache /\ f # NULL /\ f \in Listed(t)
        /\ t.cache_size \in Nat /\ t.fd_count \in Nat
        /\ t.file \in Seq(Files) /\ t.heap \in SUBSET Files
    BY TableType, TableAssumption DEF Occupied, Consistent, ListIsArray
  <1>2. ~(fd >= t.cache_size)
    <2>1. fd \in 0 .. t.cache_size - 1
      BY <1>1 DEF Consistent, CacheAllocated
    <2> QED
      BY <1>1, <2>1
  <1>3. u = [t EXCEPT !.file = r, !.cache = c, !.fd_count = t.fd_count - 1, !.heap = t.heap \ {f}]
    BY <1>1, <1>2 DEF FreeFd
  <1>4. /\ u.cache = c /\ u.file = r /\ u.fd_count = t.fd_count - 1
        /\ u.heap = t.heap \ {f} /\ u.cache_size = t.cache_size
    BY <1>3 DEF Table
  <1>5. r \in Seq(Files) /\ Elements(r) = Listed(t) \ {f} /\ Injective(r)
    <2>1. Injective(t.file)
      BY DEF Consistent, NoSharedObject, Injective
    <2>2. Listed(t) = Elements(t.file)
      BY DEF Listed, Elements
    <2> HIDE DEF f
    <2> QED
      BY <1>1, <2>1, <2>2, RemoveNode, Zenon
  <1>6. /\ Occupied(u) = Occupied(t) \ {fd}
        /\ \A i \in Occupied(t) \ {fd} : u.cache[i] = t.cache[i]
        /\ DOMAIN u.cache = DOMAIN t.cache
    BY <1>4 DEF Occupied
  <1>7. /\ Cardinality(Occupied(u)) = Cardinality(Occupied(t)) - 1
        /\ Cardinality(Occupied(u)) \in Nat
    BY <1>6, OccupiedFinite, FS_RemoveElement, FS_CardinalityType
  <1>8. u \in Table
    <2>1. PICK n \in 0 .. UINT16_MAX : t.cache \in [0 .. n - 1 -> Files \cup {NULL}]
      BY TableType
    <2>2. c \in [0 .. n - 1 -> Files \cup {NULL}]
      BY <2>1
    <2>3. c \in Caches
      BY <2>2 DEF Caches
    <2>4. t.fd_count - 1 \in Nat
      BY <1>1, <1>7 DEF Consistent, CountIsOccupancy
    <2>5. t.heap \ {f} \in SUBSET Files
      BY <1>1
    <2> HIDE DEF c, r, f
    <2> QED
      BY <1>3, <1>5, <2>3, <2>4, <2>5 DEF Table
  <1> HIDE DEF c, r, u
  <1>9. Listed(u) = Listed(t) \ {f}
    <2>1. Listed(u) = Elements(r)
      BY <1>4 DEF Listed, Elements
    <2> QED
      BY <1>5, <2>1
  <1>10. Consistent(u)
    <2>1. CacheAllocated(u)
      BY <1>4, <1>6 DEF CacheAllocated, Consistent
    <2>2. NoSharedObject(u)
      BY <1>4, <1>5, <1>6 DEF Consistent, NoSharedObject, Injective
    <2>3. ListIsArray(u)
      <3>1. \A i \in Occupied(t) : t.cache[i] = f => i = fd
        BY DEF Consistent, NoSharedObject
      <3>2. {u.cache[i] : i \in Occupied(u)} = {t.cache[i] : i \in Occupied(t)} \ {f}
        BY <1>6, <3>1
      <3> QED
        BY <1>9, <3>2 DEF Consistent, ListIsArray
    <2>4. CountIsOccupancy(u)
      BY <1>4, <1>7 DEF Consistent, CountIsOccupancy
    <2>5. NothingLeaked(u)
      BY <1>4, <1>9 DEF Consistent, NothingLeaked
    <2> QED
      BY <2>1, <2>2, <2>3, <2>4, <2>5 DEF Consistent
  <1> QED
    BY <1>4, <1>6, <1>8, <1>10 DEF u

(* esp_littlefs_allocate_fd as a whole: the descriptor it returns was      *)
(* free, and every open descriptor keeps its file.                         *)
LEMMA AllocateCorrect ==
  ASSUME NEW t \in Table, Consistent(t), CanAllocate(t), NEW f \in Files \ t.heap
  PROVE  /\ AllocateFd(t, f) \in Table
         /\ Consistent(AllocateFd(t, f))
         /\ AllocatedFd(t) \in 0 .. UINT16_MAX
         /\ AllocatedFd(t) \notin Occupied(t)
         /\ Occupied(AllocateFd(t, f)) = Occupied(t) \cup {AllocatedFd(t)}
         /\ AllocateFd(t, f).cache[AllocatedFd(t)] = f
         /\ \A i \in Occupied(t) : AllocateFd(t, f).cache[i] = t.cache[i]
         /\ DOMAIN AllocateFd(t, f).cache = 0 .. AllocateFd(t, f).cache_size - 1
         /\ AllocateFd(t, f).cache_size > 0
  <1> DEFINE g == Grow(t)
  <1>1. /\ g \in Table /\ Consistent(g) /\ HasRoom(g) /\ g.heap = t.heap
        /\ Occupied(g) = Occupied(t) /\ \A i \in Occupied(t) : g.cache[i] = t.cache[i]
    BY GrowCorrect DEF CanAllocate
  <1>2. f \in Files \ g.heap
    BY <1>1
  <1>3. AllocateFd(t, f) = Insert(g, f) /\ AllocatedFd(t) = FreeSlot(g)
    BY DEF AllocateFd, AllocatedFd
  <1> HIDE DEF g
  <1>4. /\ Insert(g, f) \in Table
        /\ Consistent(Insert(g, f))
        /\ FreeSlot(g) \in DOMAIN g.cache \ Occupied(g)
        /\ Occupied(Insert(g, f)) = Occupied(g) \cup {FreeSlot(g)}
        /\ Insert(g, f).cache[FreeSlot(g)] = f
        /\ \A i \in Occupied(g) : Insert(g, f).cache[i] = g.cache[i]
        /\ DOMAIN Insert(g, f).cache = DOMAIN g.cache
        /\ Insert(g, f).cache_size = g.cache_size
    BY <1>1, <1>2, InsertCorrect
  <1>5. g.cache_size \in 0 .. UINT16_MAX /\ g.fd_count \in Nat /\ UINT16_MAX \in Nat
    BY <1>1, TableType, TableAssumption
  <1>6. FreeSlot(g) \in 0 .. UINT16_MAX /\ g.cache_size > 0
    BY <1>1, <1>4, <1>5 DEF HasRoom
  <1> QED
    BY <1>1, <1>3, <1>4, <1>6 DEF HasRoom

(* Unmounting frees everything, and a fresh cache is empty.                *)
LEMMA FreeFdsCorrect ==
  ASSUME NEW t \in Table, Consistent(t)
  PROVE  FreeFds(t) \in Table /\ Consistent(FreeFds(t)) /\ Occupied(FreeFds(t)) = {}
  <1> DEFINE u == FreeFds(t)
  <1>1. /\ u.cache = <<>> /\ u.cache_size = 0 /\ u.file = <<>> /\ u.fd_count = 0
        /\ u.heap = {}
    BY DEF FreeFds, Consistent, NothingLeaked
  <1>2. u \in Table
    <2>1. <<>> \in [0 .. 0 - 1 -> Files \cup {NULL}] /\ <<>> \in Seq(Files)
      OBVIOUS
    <2>2. <<>> \in Caches
      <3>1. 0 \in 0 .. UINT16_MAX
        BY TableAssumption
      <3> QED
        BY <2>1, <3>1 DEF Caches
    <2>3. t.heap \ Listed(t) \in SUBSET Files /\ 0 \in 0 .. UINT16_MAX
      BY TableType, TableAssumption
    <2> QED
      BY <2>1, <2>2, <2>3 DEF FreeFds, Table
  <1>3. Occupied(u) = {} /\ Listed(u) = {}
    BY <1>1 DEF Occupied, Listed
  <1>4. Cardinality({}) = 0
    BY FS_EmptySet
  <1> HIDE DEF u
  <1>5. CacheAllocated(u) /\ NoSharedObject(u)
    BY <1>1, <1>3 DEF CacheAllocated, NoSharedObject
  <1>6. ListIsArray(u) /\ CountIsOccupancy(u) /\ NothingLeaked(u)
    BY <1>1, <1>3, <1>4 DEF ListIsArray, CountIsOccupancy, NothingLeaked
  <1> QED
    BY <1>2, <1>3, <1>5, <1>6 DEF Consistent, u

(* A table without files.                                                  *)
EmptyShape(t) == t.file = <<>> /\ t.fd_count = 0 /\ t.heap = {}

LEMMA EmptyTableType ==
  ASSUME NEW t, t = [cache |-> <<>>, cache_size |-> 0, file |-> <<>>, fd_count |-> 0, heap |-> {}]
  PROVE  t \in Table /\ EmptyShape(t)
  <1>1. 0 \in 0 .. UINT16_MAX
    BY TableAssumption
  <1>2. <<>> \in [0 .. 0 - 1 -> Files \cup {NULL}] /\ <<>> \in Seq(Files)
    OBVIOUS
  <1>3. <<>> \in Caches
    BY <1>1, <1>2 DEF Caches
  <1> QED
    BY <1>1, <1>2, <1>3 DEF Table, EmptyShape

(* A mount gives the table a cache of the least size, unless calloc fails. *)
LEMMA FreshCacheCorrect ==
  ASSUME NEW t \in Table, EmptyShape(t), NEW ok \in BOOLEAN
  PROVE  /\ FreshCache(t, ok) \in Table /\ Consistent(FreshCache(t, ok))
         /\ Occupied(FreshCache(t, ok)) = {}
         /\ FreshCache(t, ok).cache_size = MIN_SIZE
         /\ ok => DOMAIN FreshCache(t, ok).cache = 0 .. FreshCache(t, ok).cache_size - 1
  <1> DEFINE u == FreshCache(t, ok)
             c == IF ok THEN [i \in 0 .. MIN_SIZE - 1 |-> NULL] ELSE <<>>
  <1>1. u = [t EXCEPT !.cache = c, !.cache_size = MIN_SIZE]
    BY DEF FreshCache
  <1>2. /\ u.cache = c /\ u.cache_size = MIN_SIZE /\ u.file = <<>> /\ u.fd_count = 0
        /\ u.heap = {}
    BY <1>1 DEF Table, EmptyShape
  <1>3. MIN_SIZE \in 0 .. UINT16_MAX /\ 0 \in 0 .. UINT16_MAX
    BY TableAssumption
  <1>4. c \in Caches
    <2>1. CASE ok
      BY <1>3, <2>1 DEF Caches
    <2>2. CASE ~ok
      <3>1. <<>> \in [0 .. 0 - 1 -> Files \cup {NULL}]
        OBVIOUS
      <3> QED
        BY <1>3, <2>2, <3>1 DEF Caches
    <2> QED
      BY <2>1, <2>2
  <1>5. DOMAIN c \in {{}, 0 .. MIN_SIZE - 1} /\ \A i \in DOMAIN c : c[i] = NULL
    OBVIOUS
  <1>6. ok => DOMAIN c = 0 .. MIN_SIZE - 1
    OBVIOUS
  <1> HIDE DEF c
  <1>7. u \in Table
    BY <1>1, <1>3, <1>4 DEF Table
  <1> HIDE DEF u
  <1>8. Occupied(u) = {} /\ Listed(u) = {}
    BY <1>2, <1>5 DEF Occupied, Listed
  <1>9. Cardinality({}) = 0
    BY FS_EmptySet
  <1>10. CacheAllocated(u) /\ NoSharedObject(u)
    BY <1>2, <1>5, <1>8 DEF CacheAllocated, NoSharedObject
  <1>11. ListIsArray(u) /\ CountIsOccupancy(u) /\ NothingLeaked(u)
    BY <1>2, <1>8, <1>9 DEF ListIsArray, CountIsOccupancy, NothingLeaked
  <1> QED
    BY <1>2, <1>6, <1>7, <1>8, <1>10, <1>11 DEF Consistent, u

(* A search by name meets an occupied slot before it has seen fd_count.    *)
LEMMA LookupCompleteLemma ==
  ASSUME NEW t \in Table, Consistent(t), NEW pathOf, NEW i \in Occupied(t), NEW p \in Paths,
         Matches(pathOf, t.cache[i], p)
  PROVE  HasFdByName(t, pathOf, p)
  <1> DEFINE B == {k \in Occupied(t) : k < i}
  <1>1. IsFiniteSet(Occupied(t))
    BY OccupiedFinite
  <1>2. i \in Int
    BY TableType, TableAssumption DEF Occupied, Consistent, CacheAllocated
  <1>3. B \in SUBSET Occupied(t) /\ B # Occupied(t)
    <2>1. i \notin B
      BY <1>2
    <2> QED
      BY <2>1
  <1> HIDE DEF B
  <1>4. /\ Cardinality(B) <= Cardinality(Occupied(t))
        /\ Cardinality(B) # Cardinality(Occupied(t))
        /\ IsFiniteSet(B)
    BY <1>1, <1>3, FS_Subset
  <1>5. Cardinality(B) \in Nat /\ Cardinality(Occupied(t)) \in Nat
    BY <1>1, <1>4, FS_CardinalityType
  <1>6. Cardinality(B) < t.fd_count
    BY <1>4, <1>5 DEF Consistent, CountIsOccupancy
  <1> QED
    BY <1>6 DEF HasFdByName, B

(* A file object in use is on the heap.                                    *)
LEMMA OccupiedOnHeap ==
  ASSUME NEW t \in Table, Consistent(t), NEW i \in Occupied(t)
  PROVE  t.cache[i] \in t.heap
  BY DEF Consistent, NothingLeaked, ListIsArray
=============================================================================
