----------------------------- MODULE FdTableOps -----------------------------
(***************************************************************************)
(* The descriptor table of one mounted volume: the fields cache,           *)
(* cache_size, file and fd_count of esp_littlefs_t (littlefs_api.h) and    *)
(* the functions of esp_littlefs.c that change or search them.  A table is *)
(* a record, and every function of the code is an operator from tables to  *)
(* tables, so that the state machines of FdTable and VolumeLock apply the  *)
(* same operators with different atomicity.                                *)
(*                                                                         *)
(* A file object (vfs_littlefs_file_t) is an element of Files; "heap" is   *)
(* the set of objects allocated and not freed.  The singly linked list     *)
(* that starts at efs->file is the sequence "file".  A cache pointer that  *)
(* is NULL is a function with an empty domain.                             *)
(***************************************************************************)
EXTENDS Integers, Sequences, FiniteSets, SequencesExt

CONSTANTS
  Files,            (* file objects the heap can hold                       *)
  Paths,            (* path strings                                         *)
  NULL,             (* the null pointer                                     *)
  Hash,             (* compute_hash: [Paths -> Nat], collisions allowed     *)
  USE_ONLY_HASH,    (* CONFIG_LITTLEFS_USE_ONLY_HASH                        *)
  MIN_SIZE,         (* CONFIG_LITTLEFS_FD_CACHE_MIN_SIZE                    *)
  REALLOC_FACTOR,   (* CONFIG_LITTLEFS_FD_CACHE_REALLOC_FACTOR              *)
  UINT16_MAX        (* largest cache_size, a bound of the model             *)

ASSUME TableAssumption ==
  /\ NULL \notin Files
  /\ Hash \in [Paths -> Nat]
  /\ USE_ONLY_HASH \in BOOLEAN
  /\ MIN_SIZE \in Nat \ {0}
  /\ REALLOC_FACTOR \in Nat \ {0, 1}
  /\ UINT16_MAX \in Nat
  /\ MIN_SIZE <= UINT16_MAX

(***************************************************************************)
(* The types of a table.                                                   *)
(***************************************************************************)
Caches == UNION {[0 .. n - 1 -> Files \cup {NULL}] : n \in 0 .. UINT16_MAX}

Table == [cache      : Caches,
          cache_size : 0 .. UINT16_MAX,
          file       : Seq(Files),
          fd_count   : Nat,
          heap       : SUBSET Files]

Occupied(t) == {i \in DOMAIN t.cache : t.cache[i] # NULL}
Listed(t) == {t.file[k] : k \in DOMAIN t.file}

(* Faulty variant: the "mounted" mark survives the unmount.                *)
FreeFdsKeepSize(t) ==
  [cache |-> <<>>, cache_size |-> t.cache_size, file |-> <<>>, fd_count |-> 0,
   heap |-> t.heap \ Listed(t)]

(* The table esp_littlefs_free_fds leaves: no list, no cache, sizes 0.     *)
FreeFds(t) == [cache |-> <<>>, cache_size |-> 0, file |-> <<>>, fd_count |-> 0,
               heap |-> t.heap \ Listed(t)]

(* The cache of a volume that was just mounted.  Neither caller checks the *)
(* calloc: when it fails the size is set and the pointer is NULL.          *)
FreshCache(t, callocOk) ==
  [t EXCEPT !.cache      = IF callocOk THEN [i \in 0 .. MIN_SIZE - 1 |-> NULL] ELSE <<>>,
            !.cache_size = MIN_SIZE]

(***************************************************************************)
(* esp_littlefs_allocate_fd, in three parts: the growth of the cache, the  *)
(* search for a free slot that receives the new object, and the insertion  *)
(* in list and count.                                                      *)
(***************************************************************************)
NeedsGrowth(t) == t.fd_count + 1 > t.cache_size

(* Faulty variant: the product is not limited to UINT16_MAX.               *)
NewSizeUnbounded(t) == REALLOC_FACTOR * t.cache_size

NewSize(t) ==
  LET doubled == REALLOC_FACTOR * t.cache_size
  IN  IF doubled < UINT16_MAX THEN doubled ELSE UINT16_MAX

Grow(t) ==
  IF ~NeedsGrowth(t) THEN t
  ELSE [t EXCEPT !.cache = [i \in 0 .. NewSize(t) - 1 |->
                              IF i \in DOMAIN t.cache THEN t.cache[i] ELSE NULL],
                 !.cache_size = NewSize(t)]

(* Faulty variant: the number of open files taken for a free index.        *)
FreeSlotAtCount(t) == t.fd_count

(* The index the search loop ends with: the first free slot, or cache_size *)
(* when the loop runs off the end, which the code returns all the same.    *)
FreeSlot(t) ==
  CHOOSE i \in 0 .. t.cache_size :
    /\ i = t.cache_size \/ t.cache[i] = NULL
    /\ \A k \in 0 .. i - 1 : t.cache[k] # NULL

Place(t, f) ==
  [t EXCEPT !.cache = [i \in DOMAIN t.cache |-> IF i = FreeSlot(t) THEN f ELSE t.cache[i]],
            !.heap  = t.heap \cup {f}]

Link(t, f) ==
  [t EXCEPT !.file     = <<f>> \o t.file,
            !.fd_count = t.fd_count + 1]

Insert(t, f) == Link(Place(t, f), f)

AllocateFd(t, f) == Insert(Grow(t), f)
AllocatedFd(t)   == FreeSlot(Grow(t))

(***************************************************************************)
(* esp_littlefs_free_fd.  The walk stops at the first node that is the     *)
(* file; "Inconsistent list" leaves the table alone.                       *)
(***************************************************************************)
PositionOf(s, f) ==
  CHOOSE k \in DOMAIN s : s[k] = f /\ \A j \in 1 .. k - 1 : s[j] # f

(* Faulty variants: the count is not updated, the slot is not cleared, or  *)
(* the later slots move down to keep the array dense.                      *)
FreeFdNoCount(t, fd) ==
  IF fd >= t.cache_size \/ t.cache[fd] \notin Listed(t) THEN t
  ELSE [t EXCEPT !.file  = RemoveAt(t.file, PositionOf(t.file, t.cache[fd])),
                 !.cache = [i \in DOMAIN t.cache |-> IF i = fd THEN NULL ELSE t.cache[i]],
                 !.heap  = t.heap \ {t.cache[fd]}]

FreeFdNoClear(t, fd) ==
  IF fd >= t.cache_size \/ t.cache[fd] \notin Listed(t) THEN t
  ELSE [t EXCEPT !.file     = RemoveAt(t.file, PositionOf(t.file, t.cache[fd])),
                 !.fd_count = t.fd_count - 1,
                 !.heap     = t.heap \ {t.cache[fd]}]

FreeFdCompacting(t, fd) ==
  IF fd >= t.cache_size \/ t.cache[fd] \notin Listed(t) THEN t
  ELSE [t EXCEPT !.file     = RemoveAt(t.file, PositionOf(t.file, t.cache[fd])),
                 !.cache    = [i \in DOMAIN t.cache |->
                                 IF i < fd THEN t.cache[i]
                                 ELSE IF i + 1 \in DOMAIN t.cache THEN t.cache[i + 1]
                                 ELSE NULL],
                 !.fd_count = t.fd_count - 1,
                 !.heap     = t.heap \ {t.cache[fd]}]

FreeFd(t, fd) ==
  IF fd >= t.cache_size \/ t.cache[fd] \notin Listed(t) THEN t
  ELSE [t EXCEPT !.file     = RemoveAt(t.file, PositionOf(t.file, t.cache[fd])),
                 !.cache    = [i \in DOMAIN t.cache |-> IF i = fd THEN NULL ELSE t.cache[i]],
                 !.fd_count = t.fd_count - 1,
                 !.heap     = t.heap \ {t.cache[fd]}]

(***************************************************************************)
(* esp_littlefs_get_fd_by_name.  pathOf gives the path each object stores. *)
(* The loop stops once it has seen fd_count occupied slots, so a match is  *)
(* found only in a slot with fewer occupied slots before it.               *)
(***************************************************************************)
Matches(pathOf, f, p) ==
  /\ Hash[pathOf[f]] = Hash[p]
  /\ USE_ONLY_HASH \/ pathOf[f] = p

(* Faulty variant: the loop stops at index fd_count.                       *)
HasFdByNameBelowCount(t, pathOf, p) ==
  \E i \in Occupied(t) : Matches(pathOf, t.cache[i], p) /\ i < t.fd_count

HasFdByName(t, pathOf, p) ==
  \E i \in Occupied(t) :
    /\ Matches(pathOf, t.cache[i], p)
    /\ Cardinality({k \in Occupied(t) : k < i}) < t.fd_count

(***************************************************************************)
(* What "the chained list stays consistent" (comment before                *)
(* esp_littlefs_allocate_fd) means: array, list, count and heap describe   *)
(* the same set of open files.                                             *)
(***************************************************************************)
CacheAllocated(t) == DOMAIN t.cache \in {{}, 0 .. t.cache_size - 1}

NoSharedObject(t) ==
  /\ \A i, j \in Occupied(t) : t.cache[i] = t.cache[j] => i = j
  /\ \A k, l \in DOMAIN t.file : t.file[k] = t.file[l] => k = l

ListIsArray(t) == Listed(t) = {t.cache[i] : i \in Occupied(t)}

CountIsOccupancy(t) == t.fd_count = Cardinality(Occupied(t))

NothingLeaked(t) == t.heap = Listed(t)

Consistent(t) ==
  /\ CacheAllocated(t)
  /\ NoSharedObject(t)
  /\ ListIsArray(t)
  /\ CountIsOccupancy(t)
  /\ NothingLeaked(t)
=============================================================================
