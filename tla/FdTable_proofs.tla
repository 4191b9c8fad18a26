--------------------------- MODULE FdTable_proofs ---------------------------
(***************************************************************************)
(* Proofs about the descriptor table as its callers use it.                *)
(***************************************************************************)
EXTENDS FdTable, FdTableOps_proofs

(***************************************************************************)
(* The invariant that needs no discipline of the callers.                  *)
(***************************************************************************)
TableInv == TypeOK /\ TableConsistent /\ CacheSizeTellsMounted

LEMMA TypesOfConstants ==
  /\ UINT16_MAX \in Nat /\ MIN_SIZE \in 0 .. UINT16_MAX /\ MIN_SIZE > 0
  /\ NULL \notin Files
  /\ \A r \in HandleRecord : r # Closed
  BY TableAssumption, CallerAssumption DEF HandleRecord

(* A descriptor whose access is safe is an occupied slot.                  *)
LEMMA GoodFdOccupied ==
  ASSUME NEW fd, GoodFd(fd)
  PROVE  fd \in Occupied(efs)
  BY DEF GoodFd, AccessFault, Occupied

LEMMA TableInvInit == Init => TableInv
  <1> SUFFICES ASSUME Init
               PROVE  TableInv
    OBVIOUS
  <1>1. efs = FreshCache(EmptyTable, TRUE)
    BY DEF Init
  <1>2. efs \in Table /\ Consistent(efs) /\ efs.cache_size = MIN_SIZE
    BY <1>1, EmptyTableType, FreshCacheCorrect DEF EmptyTable
  <1>3. pathOf \in [Files -> Paths]
    BY CallerAssumption DEF Init
  <1> QED
    BY <1>2, <1>3, TypesOfConstants
    DEF Init, TableInv, TypeOK, TableConsistent, CacheSizeTellsMounted, Faults

(* The guards of an open that reaches littlefs are what allocation needs.  *)
LEMMA OpenCanAllocate ==
  ASSUME NEW g, OpenRequest(g), CachePointerOK, NeedsGrowth(efs) => CanGrow
  PROVE  CanAllocate(efs)
  BY DEF OpenRequest, CachePointerOK, CanGrow, CanAllocate

(* A table that was unmounted is empty and consistent.                     *)
LEMMA UnmountedCorrect ==
  ASSUME TableInv
  PROVE  /\ Unmounted \in Table /\ Consistent(Unmounted) /\ Unmounted.cache_size = 0
         /\ WasMounted => EmptyShape(Unmounted)
  <1>1. efs \in Table /\ Consistent(efs) /\ efs.cache_size \in Nat
    BY TableType, TypesOfConstants DEF TableInv, TypeOK, TableConsistent
  <1>2. CASE WasMounted
    <2>1. Unmounted = FreeFds(efs)
      BY <1>2 DEF Unmounted
    <2>2. EmptyShape(FreeFds(efs)) /\ FreeFds(efs).cache_size = 0
      BY <1>1 DEF FreeFds, EmptyShape, Consistent, NothingLeaked
    <2> QED
      BY <1>1, <2>1, <2>2, FreeFdsCorrect
  <1>3. CASE ~WasMounted
    BY <1>1, <1>3 DEF Unmounted, WasMounted
  <1> QED
    BY <1>2, <1>3

LEMMA TableInvNext == TableInv /\ [Next]_vars => TableInv'
  <1> SUFFICES ASSUME TableInv, [Next]_vars
               PROVE  TableInv'
    OBVIOUS
  <1> USE DEF TableInv, TableConsistent, CacheSizeTellsMounted
  <1>0. /\ efs \in Table /\ Consistent(efs) /\ pathOf \in [Files -> Paths]
        /\ mounted \in BOOLEAN /\ names \in SUBSET Paths
        /\ handle \in [Handles -> HandleRecord \cup {Closed}] /\ fault \in Faults
        /\ efs.cache_size \in Nat /\ efs.fd_count \in Nat
    BY TableType, TypesOfConstants DEF TypeOK
  <1>1. ASSUME NEW g \in Handles, NEW p \in Paths, NEW create \in BOOLEAN, Open(g, p, create)
        PROVE  TableInv'
    <2>1. CanAllocate(efs) /\ efs.cache_size > 0
      <3>1. CanAllocate(efs)
        BY <1>1, OpenCanAllocate DEF Open
      <3>2. efs.cache_size > 0
        BY <1>0, <3>1 DEF CanAllocate, NeedsGrowth
      <3> QED
        BY <3>1, <3>2
    <2>2. PICK f \in Files \ efs.heap :
            efs' = AllocateFd(efs, f) /\ pathOf' = [pathOf EXCEPT ![f] = p]
      BY <1>1 DEF Open
    <2>3. /\ efs' \in Table /\ Consistent(efs') /\ efs'.cache_size > 0
          /\ AllocatedFd(efs) \in 0 .. UINT16_MAX
      BY <1>0, <2>1, <2>2, AllocateCorrect
    <2>4. [fd |-> AllocatedFd(efs), path |-> p, fresh |-> TRUE] \in HandleRecord
      BY <2>3 DEF HandleRecord
    <2> QED
      BY <1>0, <1>1, <2>1, <2>2, <2>3, <2>4 DEF Open, TypeOK
  <1>2. ASSUME NEW g \in Handles, NEW p \in Paths, NEW create \in BOOLEAN, OpenRefused(g, p, create)
        PROVE  TableInv'
    <2>1. CanAllocate(efs) /\ efs.cache_size > 0
      <3>1. CanAllocate(efs)
        BY <1>2, OpenCanAllocate DEF OpenRefused
      <3>2. efs.cache_size > 0
        BY <1>0, <3>1 DEF CanAllocate, NeedsGrowth
      <3> QED
        BY <3>1, <3>2
    <2>2. PICK f \in Files \ efs.heap : efs' = FreeFd(AllocateFd(efs, f), AllocatedFd(efs))
      BY <1>2 DEF OpenRefused
    <2> DEFINE a == AllocateFd(efs, f)
    <2>3. /\ a \in Table /\ Consistent(a) /\ a.cache_size > 0
          /\ AllocatedFd(efs) \in Occupied(a)
      BY <1>0, <2>1, AllocateCorrect
    <2> HIDE DEF a
    <2>4. efs' \in Table /\ Consistent(efs') /\ efs'.cache_size > 0
      BY <2>2, <2>3, FreeFdCorrect DEF a
    <2> QED
      BY <1>0, <1>2, <2>1, <2>4 DEF OpenRefused, TypeOK
  <1>3. ASSUME NEW g \in Handles, OpenNoCache(g)
        PROVE  TableInv'
    BY <1>0, <1>3 DEF OpenNoCache, vars, TypeOK
  <1>4. ASSUME NEW g \in Handles, OpenNoObject(g)
        PROVE  TableInv'
    <2>1. Grow(efs) \in Table /\ Consistent(Grow(efs))
      BY <1>0, <1>4, GrowCorrect DEF OpenNoObject, OpenRequest, CanGrow
    <2>2. Grow(efs).cache_size > 0 <=> efs.cache_size > 0
      <3>1. CASE NeedsGrowth(efs)
        <4>1. NewSize(efs) > efs.cache_size /\ NewSize(efs) \in 0 .. UINT16_MAX /\ efs.cache_size > 0
          BY <1>0, <1>4, <3>1, NewSizeLarger DEF OpenNoObject, OpenRequest, CanGrow
        <4>2. Grow(efs).cache_size = NewSize(efs)
          BY <1>0, <3>1 DEF Grow, Table
        <4> QED
          BY <1>0, <4>1, <4>2, TypesOfConstants
      <3> QED
        BY <3>1 DEF Grow
    <2>3. efs' = Grow(efs) /\ UNCHANGED <<pathOf, mounted, names, handle, fault>>
      BY <1>4 DEF OpenNoObject
    <2>4. efs'.cache_size > 0 <=> efs.cache_size > 0
      BY <2>2, <2>3
    <2>5. TypeOK' /\ Consistent(efs')
      BY <1>0, <2>1, <2>3 DEF TypeOK
    <2>6. CacheSizeTellsMounted'
      BY <2>3, <2>4
    <2> QED
      BY <2>5, <2>6
  <1>5. ASSUME NEW g \in Handles, OpenNullCache(g)
        PROVE  TableInv'
    BY <1>0, <1>5 DEF OpenNullCache, TypeOK, Faults
  <1>6. ASSUME NEW g \in Handles, BadAccess(g)
        PROVE  TableInv'
    BY <1>0, <1>6 DEF BadAccess, AccessFault, TypeOK, Faults
  <1>7. ASSUME NEW g \in Handles, Close(g)
        PROVE  TableInv'
    <2>1. handle[g].fd \in Occupied(efs)
      BY <1>7, GoodFdOccupied DEF Close
    <2>2. efs' \in Table /\ Consistent(efs') /\ efs'.cache_size = efs.cache_size
      BY <1>0, <1>7, <2>1, FreeFdCorrect DEF Close
    <2> QED
      BY <1>0, <1>7, <2>2 DEF Close, TypeOK
  <1>8. ASSUME NEW g \in Handles, CloseFails(g)
        PROVE  TableInv'
    BY <1>0, <1>8 DEF CloseFails, TypeOK
  <1>9. ASSUME NEW p \in Paths, NEW q \in Paths, Unlink(p) \/ Rename(p, q)
        PROVE  TableInv'
    BY <1>0, <1>9 DEF Unlink, Rename, TypeOK
  <1>10. CASE PathCallUnmounted
    BY <1>0, <1>10 DEF PathCallUnmounted, TypeOK, Faults
  <1>11. Stale \in [Handles -> HandleRecord \cup {Closed}]
    BY <1>0 DEF Stale, HandleRecord
  <1>12. CASE FormatAndRemount
    <2>1. PICK ok \in BOOLEAN : efs' = FreshCache(Unmounted, ok)
      BY <1>12 DEF FormatAndRemount
    <2>2. Unmounted \in Table /\ EmptyShape(Unmounted)
      BY <1>12, UnmountedCorrect DEF FormatAndRemount
    <2>3. efs' \in Table /\ Consistent(efs') /\ efs'.cache_size > 0
      BY <2>1, <2>2, FreshCacheCorrect, TypesOfConstants
    <2> QED
      BY <1>0, <1>11, <1>12, <2>3 DEF FormatAndRemount, TypeOK
  <1>13. CASE FormatOnly
    BY <1>0, <1>13 DEF FormatOnly, TypeOK
  <1>14. CASE FormatFails
    <2>1. efs' \in Table /\ Consistent(efs') /\ ~(efs'.cache_size > 0)
      BY <1>14, UnmountedCorrect DEF FormatFails
    <2> QED
      BY <1>0, <1>11, <1>14, <2>1 DEF FormatFails, TypeOK
  <1>15. CASE UNCHANGED vars
    BY <1>0, <1>15 DEF vars, TypeOK
  <1> QED
    BY <1>1, <1>2, <1>3, <1>4, <1>5, <1>6, <1>7, <1>8, <1>9, <1>10, <1>12, <1>13, <1>14, <1>15
    DEF Next

(* For every size of the cache, growth factor, number of files and         *)
(* handles, and whatever fails or is formatted when: array, list, count    *)
(* and heap agree, and cache_size tells whether the volume is mounted.     *)
THEOREM TableAlwaysConsistent == Spec => [](TypeOK /\ TableConsistent /\ CacheSizeTellsMounted)
  <1>1. Init => TableInv
    BY TableInvInit
  <1>2. TableInv /\ [Next]_vars => TableInv'
    BY TableInvNext
  <1>3. TableInv => TypeOK /\ TableConsistent /\ CacheSizeTellsMounted
    BY DEF TableInv
  <1> QED
    BY <1>1, <1>2, <1>3, PTL DEF Spec

(* The types: whatever is opened, closed, grown or formatted, the table    *)
(* holds what its functions can have put there, and every handle, stale or *)
(* not, a descriptor that fits its word.                                   *)
THEOREM TableTypeCorrect == Spec => []TypeOK
  BY TableAlwaysConsistent, PTL

(* cache_size, which format_from_efs and esp_littlefs_mounted take for the *)
(* sign that the volume is mounted, agrees with littlefs after every call  *)
(* and failure (esp_littlefs_init, format_from_efs, esp_littlefs_free_fds).*)
THEOREM SizeTellsMounted == Spec => []CacheSizeTellsMounted
  BY TableAlwaysConsistent, PTL

(* Whatever the callers do, a search by name finds every open file.        *)
THEOREM LookupAlwaysComplete == Spec => []LookupComplete
  <1>1. TableInv => LookupComplete
    BY LookupCompleteLemma DEF TableInv, TypeOK, TableConsistent, LookupComplete
  <1> QED
    BY <1>1, TableInvInit, TableInvNext, PTL DEF Spec

(***************************************************************************)
(* The invariant of callers that close their files before a format, on a   *)
(* system where the remount gets its memory.  It is TableInv strengthened  *)
(* by: every open handle is fresh, and the cache pointer is never null     *)
(* while cache_size is not 0.                                              *)
(***************************************************************************)
CallerInv ==
  /\ TableInv
  /\ FreshHandlesLive
  /\ NoFdFault
  /\ OpenNamesExist
  /\ Opened = Fresh
  /\ DOMAIN efs.cache = 0 .. efs.cache_size - 1

Discipline == FormatWhileOpen = FALSE /\ MountAllocFails = FALSE

LEMMA CallerInvInit == Init => CallerInv
  <1> SUFFICES ASSUME Init
               PROVE  CallerInv
    OBVIOUS
  <1>1. Opened = {} /\ Fresh = {}
    BY DEF Init, Opened, Fresh
  <1>2. DOMAIN efs.cache = 0 .. efs.cache_size - 1
    BY EmptyTableType, FreshCacheCorrect DEF Init, EmptyTable
  <1> QED
    BY <1>1, <1>2, TableInvInit
    DEF CallerInv, FreshHandlesLive, NoFdFault, OpenNamesExist, Init

(* A path no search by name finds is not the path of an open handle.       *)
LEMMA NotFoundNotOpen ==
  ASSUME CallerInv, NEW p \in Paths, ~HasFdByName(efs, pathOf, p), NEW g \in Fresh
  PROVE  handle[g].path # p
  <1>1. SUFFICES ASSUME handle[g].path = p
                 PROVE  FALSE
    OBVIOUS
  <1>2. handle[g].fd \in Occupied(efs) /\ pathOf[efs.cache[handle[g].fd]] = p
    BY <1>1 DEF CallerInv, FreshHandlesLive
  <1>3. Matches(pathOf, efs.cache[handle[g].fd], p)
    BY <1>2 DEF Matches
  <1> QED
    BY <1>2, <1>3, LookupCompleteLemma DEF CallerInv, TableInv, TypeOK, TableConsistent

(* Opening: the new handle gets a slot nobody holds.                       *)
LEMMA CallerInvOpen ==
  ASSUME CallerInv, NEW g \in Handles, NEW p \in Paths, NEW create \in BOOLEAN,
         Open(g, p, create), TableInv'
  PROVE  /\ CallerInv'
         /\ \A h \in Fresh : /\ handle'[h] = handle[h]
                             /\ efs'.cache[handle[h].fd] = efs.cache[handle[h].fd]
  <1>1. /\ efs \in Table /\ Consistent(efs) /\ pathOf \in [Files -> Paths]
        /\ handle \in [Handles -> HandleRecord \cup {Closed}]
    BY DEF CallerInv, TableInv, TypeOK, TableConsistent
  <1>2. PICK f \in Files \ efs.heap :
          efs' = AllocateFd(efs, f) /\ pathOf' = [pathOf EXCEPT ![f] = p]
    BY DEF Open
  <1> DEFINE n == AllocatedFd(efs)
             r == [fd |-> n, path |-> p, fresh |-> TRUE]
  <1>3. /\ n \in 0 .. UINT16_MAX /\ n \notin Occupied(efs)
        /\ Occupied(efs') = Occupied(efs) \cup {n} /\ efs'.cache[n] = f
        /\ \A i \in Occupied(efs) : efs'.cache[i] = efs.cache[i]
        /\ DOMAIN efs'.cache = 0 .. efs'.cache_size - 1
    BY <1>1, <1>2, OpenCanAllocate, AllocateCorrect DEF Open
  <1> HIDE DEF n
  <1>4. /\ handle' = [handle EXCEPT ![g] = r] /\ g \notin Opened
        /\ names' = names \cup {p} /\ fault' = fault
    BY DEF Open, OpenRequest, n
  <1>5. r \in HandleRecord /\ r # Closed /\ r.fresh = TRUE /\ r.fd = n /\ r.path = p
    BY <1>3, TypesOfConstants DEF HandleRecord
  <1> HIDE DEF r
  <1>6. handle'[g] = r /\ \A h \in Handles \ {g} : handle'[h] = handle[h]
    BY <1>1, <1>4
  <1>7. Opened' = Opened \cup {g} /\ Fresh' = Fresh \cup {g} /\ g \notin Fresh
    BY <1>4, <1>5, <1>6 DEF Opened, Fresh
  <1>8. \A h \in Fresh : /\ h \in Handles /\ h # g /\ handle'[h] = handle[h]
                        /\ handle[h].fd \in Occupied(efs) /\ handle[h].fd # n
                        /\ efs'.cache[handle[h].fd] = efs.cache[handle[h].fd]
                        /\ pathOf[efs.cache[handle[h].fd]] = handle[h].path
                        /\ handle[h].path \in names
    BY <1>3, <1>6, <1>7 DEF CallerInv, FreshHandlesLive, OpenNamesExist, Fresh, Opened
  <1>9. \A h \in Fresh : pathOf'[efs'.cache[handle'[h].fd]] = handle'[h].path
    <2>1. \A h \in Fresh : efs.cache[handle[h].fd] \in efs.heap
      BY <1>1, <1>8, OccupiedOnHeap
    <2>2. \A x \in efs.heap : pathOf'[x] = pathOf[x]
      BY <1>1, <1>2, TableType
    <2> QED
      BY <1>8, <2>1, <2>2
  <1>10. pathOf'[f] = p
    BY <1>1, <1>2
  <1>11. FreshHandlesLive'
    <2>1. ASSUME NEW h \in Fresh'
          PROVE  /\ handle'[h].fd \in Occupied(efs')
                 /\ pathOf'[efs'.cache[handle'[h].fd]] = handle'[h].path
      BY <1>3, <1>5, <1>6, <1>7, <1>8, <1>9, <1>10
    <2>2. ASSUME NEW h \in Fresh', NEW k \in Fresh', handle'[h].fd = handle'[k].fd
          PROVE  h = k
      BY <1>5, <1>6, <1>7, <1>8, <2>2 DEF CallerInv, FreshHandlesLive
    <2> QED
      BY <2>1, <2>2 DEF FreshHandlesLive
  <1>12. OpenNamesExist' /\ NoFdFault'
    BY <1>4, <1>5, <1>6, <1>7, <1>8 DEF OpenNamesExist, NoFdFault, CallerInv
  <1> QED
    BY <1>3, <1>7, <1>8, <1>11, <1>12 DEF CallerInv

(* A step that opens nothing keeps the invariant if the slots of the       *)
(* handles that stay open keep their objects and their names stay.         *)
LEMMA CallerInvKeep ==
  ASSUME CallerInv, TableInv', pathOf' = pathOf,
         \A g \in Opened' : g \in Opened /\ handle'[g] = handle[g],
         \A g \in Opened' : /\ handle[g].fd \in Occupied(efs')
                           /\ efs'.cache[handle[g].fd] = efs.cache[handle[g].fd]
                           /\ handle[g].path \in names',
         fault' \in {"none", "unmounted"},
         DOMAIN efs'.cache = 0 .. efs'.cache_size - 1
  PROVE  CallerInv'
  <1>1. Opened' = Fresh'
    BY DEF CallerInv, Fresh
  <1>2. FreshHandlesLive'
    <2>1. \A g \in Opened' : g \in Fresh /\ handle'[g] = handle[g]
      BY DEF CallerInv
    <2>2. \A g \in Fresh' : /\ handle'[g].fd \in Occupied(efs')
                          /\ pathOf'[efs'.cache[handle'[g].fd]] = handle'[g].path
      BY <1>1, <2>1 DEF CallerInv, FreshHandlesLive
    <2>3. \A g, h \in Fresh' : handle'[g].fd = handle'[h].fd => g = h
      BY <1>1, <2>1 DEF CallerInv, FreshHandlesLive
    <2> QED
      BY <2>2, <2>3 DEF FreshHandlesLive
  <1>3. OpenNamesExist' /\ NoFdFault'
    BY <1>1 DEF OpenNamesExist, NoFdFault
  <1> QED
    BY <1>1, <1>2, <1>3 DEF CallerInv

KeepsObjects == \A g \in Fresh : (handle'[g] = handle[g]) =>
                   efs'.cache[handle[g].fd] = efs.cache[handle[g].fd]

LEMMA CallerInvNext == Discipline /\ CallerInv /\ [Next]_vars => CallerInv' /\ KeepsObjects
  <1> SUFFICES ASSUME Discipline, CallerInv, [Next]_vars
               PROVE  CallerInv' /\ KeepsObjects
    OBVIOUS
  <1>0. /\ TableInv'
        /\ efs \in Table /\ Consistent(efs) /\ handle \in [Handles -> HandleRecord \cup {Closed}]
        /\ efs.cache_size \in Nat /\ efs.fd_count \in Nat /\ fault \in {"none", "unmounted"}
        /\ DOMAIN efs.cache = 0 .. efs.cache_size - 1
        /\ \A g \in Opened : /\ g \in Fresh /\ handle[g].fd \in Occupied(efs)
                            /\ handle[g].path \in names /\ handle[g] \in HandleRecord
    <2>1. TableInv'
      BY TableInvNext DEF CallerInv
    <2>2. efs \in Table /\ Consistent(efs) /\ handle \in [Handles -> HandleRecord \cup {Closed}]
      BY DEF CallerInv, TableInv, TypeOK, TableConsistent
    <2>3. efs.cache_size \in Nat /\ efs.fd_count \in Nat
      BY <2>2, TableType, TypesOfConstants
    <2>4. \A g \in Opened : g \in Handles /\ handle[g] \in HandleRecord
      BY <2>2 DEF Opened
    <2>5. \A g \in Opened : /\ g \in Fresh /\ handle[g].fd \in Occupied(efs)
                          /\ handle[g].path \in names
      BY DEF CallerInv, FreshHandlesLive, OpenNamesExist
    <2> QED
      BY <2>1, <2>2, <2>3, <2>4, <2>5 DEF CallerInv, NoFdFault
  <1>1. ASSUME NEW g \in Handles, NEW p \in Paths, NEW create \in BOOLEAN, Open(g, p, create)
        PROVE  CallerInv' /\ KeepsObjects
    BY <1>0, <1>1, CallerInvOpen DEF KeepsObjects
  <1>2. ASSUME UNCHANGED <<efs, pathOf, handle>>, names \subseteq names',
               fault' \in {"none", "unmounted"}
        PROVE  CallerInv' /\ KeepsObjects
    <2>1. Opened' = Opened
      BY <1>2 DEF Opened
    <2>2. \A g \in Opened' : /\ g \in Opened /\ handle'[g] = handle[g]
                           /\ handle[g].fd \in Occupied(efs')
                           /\ efs'.cache[handle[g].fd] = efs.cache[handle[g].fd]
                           /\ handle[g].path \in names'
      BY <1>0, <1>2, <2>1
    <2> QED
      BY <1>0, <1>2, <2>2, CallerInvKeep DEF KeepsObjects
  <1>3. ASSUME NEW g \in Handles, NEW p \in Paths, NEW create \in BOOLEAN, OpenRefused(g, p, create)
        PROVE  CallerInv' /\ KeepsObjects
    <2>1. CanAllocate(efs)
      BY <1>3, OpenCanAllocate DEF OpenRefused
    <2>2. PICK f \in Files \ efs.heap : efs' = FreeFd(AllocateFd(efs, f), AllocatedFd(efs))
      BY <1>3 DEF OpenRefused
    <2> DEFINE a == AllocateFd(efs, f)
               n == AllocatedFd(efs)
    <2>3. /\ a \in Table /\ Consistent(a) /\ n \notin Occupied(efs)
          /\ Occupied(a) = Occupied(efs) \cup {n}
          /\ \A i \in Occupied(efs) : a.cache[i] = efs.cache[i]
          /\ DOMAIN a.cache = 0 .. a.cache_size - 1
      BY <1>0, <2>1, AllocateCorrect
    <2>4. efs' = FreeFd(a, n)
      BY <2>2
    <2> HIDE DEF a, n
    <2>5. /\ Occupied(efs') = Occupied(a) \ {n}
          /\ \A i \in Occupied(a) \ {n} : efs'.cache[i] = a.cache[i]
          /\ DOMAIN efs'.cache = DOMAIN a.cache /\ efs'.cache_size = a.cache_size
      BY <2>3, <2>4, FreeFdCorrect
    <2>6. handle' = handle /\ pathOf' = pathOf /\ fault' = fault /\ names \subseteq names'
      BY <1>3 DEF OpenRefused
    <2>7. Opened' = Opened
      BY <2>6 DEF Opened
    <2>8. \A g1 \in Opened' : /\ g1 \in Opened /\ handle'[g1] = handle[g1]
                            /\ handle[g1].fd \in Occupied(efs')
                            /\ efs'.cache[handle[g1].fd] = efs.cache[handle[g1].fd]
                            /\ handle[g1].path \in names'
      BY <1>0, <2>3, <2>5, <2>6, <2>7
    <2>9. DOMAIN efs'.cache = 0 .. efs'.cache_size - 1
      BY <2>3, <2>5
    <2>10. CallerInv'
      BY <1>0, <2>6, <2>8, <2>9, CallerInvKeep
    <2>11. KeepsObjects
      BY <2>7, <2>8 DEF KeepsObjects, Fresh
    <2> QED
      BY <2>10, <2>11
  <1>4. ASSUME NEW g \in Handles, OpenNoObject(g)
        PROVE  CallerInv' /\ KeepsObjects
    <2>1. /\ Occupied(Grow(efs)) = Occupied(efs)
          /\ \A i \in Occupied(efs) : Grow(efs).cache[i] = efs.cache[i]
      BY <1>0, <1>4, GrowCorrect DEF OpenNoObject, OpenRequest, CanGrow
    <2>2. DOMAIN Grow(efs).cache = 0 .. Grow(efs).cache_size - 1
      BY <1>0, GrowDomain
    <2>3. /\ efs' = Grow(efs) /\ handle' = handle /\ pathOf' = pathOf /\ fault' = fault
          /\ names' = names /\ Opened' = Opened
      BY <1>4 DEF OpenNoObject, Opened
    <2>4. \A h \in Opened' : /\ h \in Opened /\ handle'[h] = handle[h]
                           /\ handle[h].fd \in Occupied(efs')
                           /\ efs'.cache[handle[h].fd] = efs.cache[handle[h].fd]
                           /\ handle[h].path \in names'
      BY <1>0, <2>1, <2>3
    <2>5. CallerInv'
      BY <1>0, <2>2, <2>3, <2>4, CallerInvKeep
    <2>6. KeepsObjects
      BY <2>3, <2>4 DEF KeepsObjects, Fresh
    <2> QED
      BY <2>5, <2>6
  <1>5. ASSUME NEW g \in Handles, OpenNoCache(g)
        PROVE  CallerInv' /\ KeepsObjects
    BY <1>0, <1>2, <1>5 DEF OpenNoCache, vars
  <1>6. ASSUME NEW g \in Handles, OpenNullCache(g)
        PROVE  FALSE
    <2>1. ~NeedsGrowth(efs) /\ DOMAIN efs.cache = {}
      BY <1>6 DEF OpenNullCache, CachePointerOK
    <2>2. efs.cache_size > 0
      BY <1>0, <2>1 DEF NeedsGrowth
    <2>3. 0 \in 0 .. efs.cache_size - 1
      BY <1>0, <2>2
    <2>4. 0 \in DOMAIN efs.cache
      BY <1>0, <2>3
    <2> QED
      BY <2>1, <2>4
  <1>7. ASSUME NEW g \in Handles, BadAccess(g)
        PROVE  FALSE
    BY <1>0, <1>7 DEF BadAccess, AccessFault, Occupied
  <1>8. ASSUME NEW g \in Handles, Close(g)
        PROVE  CallerInv' /\ KeepsObjects
    <2>1. g \in Opened /\ handle[g].fd \in Occupied(efs)
      BY <1>0, <1>8 DEF Close
    <2>2. /\ efs' = FreeFd(efs, handle[g].fd) /\ handle' = [handle EXCEPT ![g] = Closed]
          /\ pathOf' = pathOf /\ names' = names /\ fault' = fault
      BY <1>8 DEF Close
    <2>3. /\ Occupied(efs') = Occupied(efs) \ {handle[g].fd}
          /\ \A i \in Occupied(efs) \ {handle[g].fd} : efs'.cache[i] = efs.cache[i]
          /\ DOMAIN efs'.cache = 0 .. efs'.cache_size - 1
      BY <1>0, <2>1, <2>2, FreeFdCorrect
    <2>4. handle'[g] = Closed /\ \A h \in Handles \ {g} : handle'[h] = handle[h]
      BY <1>0, <2>2
    <2>5. Opened' = Opened \ {g}
      BY <2>4 DEF Opened
    <2>6. \A h \in Opened \ {g} : handle[h].fd # handle[g].fd
      BY <1>0, <2>1 DEF CallerInv, FreshHandlesLive
    <2>7. \A h \in Opened' : /\ h \in Opened /\ handle'[h] = handle[h]
                           /\ handle[h].fd \in Occupied(efs')
                           /\ efs'.cache[handle[h].fd] = efs.cache[handle[h].fd]
                           /\ handle[h].path \in names'
      BY <1>0, <2>2, <2>3, <2>4, <2>5, <2>6 DEF Opened
    <2>8. CallerInv'
      BY <1>0, <2>2, <2>3, <2>7, CallerInvKeep
    <2>9. KeepsObjects
      BY <2>1, <2>4, <2>5, <2>7 DEF KeepsObjects, Fresh, Opened
    <2> QED
      BY <2>8, <2>9
  <1>9. ASSUME NEW g \in Handles, CloseFails(g)
        PROVE  CallerInv' /\ KeepsObjects
    <2>1. /\ handle' = [handle EXCEPT ![g] = Closed]
          /\ efs' = efs /\ pathOf' = pathOf /\ names' = names /\ fault' = fault
      BY <1>9 DEF CloseFails
    <2>2. handle'[g] = Closed /\ \A h \in Handles \ {g} : handle'[h] = handle[h]
      BY <1>0, <2>1
    <2>3. Opened' = Opened \ {g}
      BY <2>2 DEF Opened
    <2>4. \A h \in Opened' : /\ h \in Opened /\ handle'[h] = handle[h]
                           /\ handle[h].fd \in Occupied(efs')
                           /\ efs'.cache[handle[h].fd] = efs.cache[handle[h].fd]
                           /\ handle[h].path \in names'
      BY <1>0, <2>1, <2>2, <2>3 DEF Opened
    <2> QED
      BY <1>0, <2>1, <2>4, CallerInvKeep DEF KeepsObjects
  <1>10. ASSUME NEW p \in Paths, NEW q \in Paths, Unlink(p) \/ Rename(p, q)
         PROVE  CallerInv' /\ KeepsObjects
    <2>1. /\ efs' = efs /\ handle' = handle /\ pathOf' = pathOf /\ fault' = fault
          /\ ~HasFdByName(efs, pathOf, p) /\ names \ {p} \subseteq names'
      BY <1>10 DEF Unlink, Rename
    <2>2. Opened' = Opened
      BY <2>1 DEF Opened
    <2>3. \A h \in Opened : handle[h].path # p
      BY <1>0, <2>1, NotFoundNotOpen
    <2>4. \A h \in Opened' : /\ h \in Opened /\ handle'[h] = handle[h]
                           /\ handle[h].fd \in Occupied(efs')
                           /\ efs'.cache[handle[h].fd] = efs.cache[handle[h].fd]
                           /\ handle[h].path \in names'
      BY <1>0, <2>1, <2>2, <2>3
    <2> QED
      BY <1>0, <2>1, <2>4, CallerInvKeep DEF KeepsObjects
  <1>11. CASE PathCallUnmounted
    BY <1>0, <1>2, <1>11 DEF PathCallUnmounted
  <1>12. CASE FormatAndRemount
    <2>1. Opened = {} /\ efs' = FreshCache(Unmounted, TRUE) /\ WasMounted
      BY <1>12 DEF FormatAndRemount, FormatRequest, Discipline
    <2>2. DOMAIN efs'.cache = 0 .. efs'.cache_size - 1
      BY <2>1, UnmountedCorrect, FreshCacheCorrect DEF CallerInv
    <2>3. handle' = Stale /\ pathOf' = pathOf /\ fault' = fault
      BY <1>12 DEF FormatAndRemount
    <2>4. Opened' = {}
      BY <2>1, <2>3 DEF Opened, Stale
    <2> QED
      BY <1>0, <2>1, <2>2, <2>3, <2>4, CallerInvKeep DEF KeepsObjects, Fresh
  <1>13. CASE FormatOnly
    <2>1. Opened = {} /\ UNCHANGED <<efs, pathOf, handle, fault>>
      BY <1>13 DEF FormatOnly, FormatRequest, Discipline
    <2>2. Opened' = {}
      BY <2>1 DEF Opened
    <2> QED
      BY <1>0, <2>1, <2>2, CallerInvKeep DEF KeepsObjects
  <1>14. CASE FormatFails
    <2>1. Opened = {} /\ efs' = Unmounted /\ handle' = Stale /\ pathOf' = pathOf /\ fault' = fault
      BY <1>14 DEF FormatFails, FormatRequest, Discipline
    <2>2. Opened' = {}
      BY <2>1 DEF Opened, Stale
    <2>3. DOMAIN efs'.cache = 0 .. efs'.cache_size - 1
      <3>1. CASE WasMounted
        BY <2>1, <3>1 DEF Unmounted, FreeFds
      <3>2. CASE ~WasMounted
        BY <1>0, <2>1, <3>2 DEF Unmounted
      <3> QED
        BY <3>1, <3>2
    <2> QED
      BY <1>0, <2>1, <2>2, <2>3, CallerInvKeep DEF KeepsObjects, Fresh
  <1>15. CASE UNCHANGED vars
    BY <1>0, <1>2, <1>15 DEF vars
  <1> QED
    BY <1>1, <1>3, <1>4, <1>5, <1>6, <1>7, <1>8, <1>9, <1>10, <1>11, <1>12, <1>13, <1>14, <1>15
    DEF Next

(* With callers that close their files before a format: every descriptor   *)
(* the driver returned leads to its own file and to nobody else's, no call *)
(* meets a null or missing cache entry, and no open file loses its name.   *)
THEOREM CallersAreSafe ==
  ASSUME Discipline
  PROVE  Spec => [](FreshHandlesLive /\ NoFdFault /\ OpenNamesExist)
  <1>1. Init => CallerInv
    BY CallerInvInit
  <1>2. CallerInv /\ [Next]_vars => CallerInv'
    BY CallerInvNext
  <1>3. CallerInv => FreshHandlesLive /\ NoFdFault /\ OpenNamesExist
    BY DEF CallerInv
  <1> QED
    BY <1>1, <1>2, <1>3, PTL DEF Spec

(* In particular no call with a descriptor that the driver has returned    *)
(* reads outside of the array or follows an empty entry of it.             *)
THEOREM NoCallFaults ==
  ASSUME Discipline
  PROVE  Spec => []NoFdFault
  BY CallersAreSafe, PTL

(* Under the same assumption no step moves or replaces the file object     *)
(* behind a handle that stays open, in particular no growth of the cache.  *)
THEOREM HandlesKeepTheirObject ==
  ASSUME Discipline
  PROVE  Spec => HandleKeepsObject
  <1>1. Init => CallerInv
    BY CallerInvInit
  <1>2. CallerInv /\ [Next]_vars => CallerInv'
    BY CallerInvNext
  <1>3. CallerInv /\ [Next]_vars =>
          [\A g \in Fresh : (handle'[g] = handle[g]) =>
              efs'.cache[handle[g].fd] = efs.cache[handle[g].fd]]_vars
    BY CallerInvNext DEF KeepsObjects
  <1> QED
    BY <1>1, <1>2, <1>3, PTL DEF Spec, HandleKeepsObject

-----------------------------------------------------------------------------
(***************************************************************************)
(* The table implements FdSpec.  CallerInv says what the mapping needs:    *)
(* the descriptors of open handles are occupied and no two are the same.   *)
(***************************************************************************)

(* The mapping opens and closes the same handles.                          *)
LEMMA MappedHandles ==
  ASSUME TypeOK
  PROVE  /\ Abstract!Opened = Opened
         /\ \A g \in Opened : /\ VfsHandle[g] # Closed
                             /\ VfsHandle[g].fd = handle[g].fd
                             /\ VfsHandle[g].path = handle[g].path
         /\ \A g \in Handles \ Opened : VfsHandle[g] = Closed
         /\ Abstract!InUse = {handle[g].fd : g \in Opened}
  <1>1. \A g \in Opened : handle[g].fd \in 0 .. UINT16_MAX /\ handle[g].path \in Paths
    BY DEF TypeOK, Opened, HandleRecord
  <1>2. \A g \in Opened : /\ VfsHandle[g] = [fd |-> handle[g].fd, path |-> handle[g].path]
                         /\ VfsHandle[g] # Closed
    BY <1>1, CallerAssumption DEF VfsHandle, Opened
  <1>3. \A g \in Handles \ Opened : VfsHandle[g] = Closed
    BY DEF VfsHandle, Opened
  <1>4. Abstract!Opened = Opened
    BY <1>2, <1>3 DEF Abstract!Opened, Opened
  <1>5. ASSUME NEW g \in Opened
        PROVE  VfsHandle[g].fd = handle[g].fd /\ VfsHandle[g].path = handle[g].path
    <2>1. VfsHandle[g] = [fd |-> handle[g].fd, path |-> handle[g].path]
      BY <1>2
    <2> QED BY ONLY <2>1
  <1>6. {VfsHandle[g].fd : g \in Opened} = {handle[g].fd : g \in Opened}
    BY <1>5
  <1>7. Abstract!InUse = {VfsHandle[g].fd : g \in Opened}
    BY <1>4, Zenon DEF Abstract!InUse
  <1> QED BY <1>2, <1>3, <1>4, <1>5, <1>6, <1>7

(* The facts every step starts from.                                       *)
LEMMA CallerFacts ==
  ASSUME CallerInv
  PROVE  /\ TypeOK /\ efs \in Table /\ Consistent(efs)
         /\ DOMAIN efs.cache = 0 .. efs.cache_size - 1
         /\ efs.cache_size \in 0 .. UINT16_MAX /\ efs.fd_count \in Nat
         /\ handle \in [Handles -> HandleRecord \cup {Closed}]
         /\ \A g \in Opened : handle[g].fd \in Occupied(efs) /\ handle[g] \in HandleRecord
         /\ \A g, h \in Opened : handle[g].fd = handle[h].fd => g = h
  <1>1. TypeOK /\ efs \in Table /\ Consistent(efs)
    BY DEF CallerInv, TableInv, TypeOK, TableConsistent
  <1>2. \A g \in Opened : g \in Handles
    BY DEF Opened
  <1>3. handle \in [Handles -> HandleRecord \cup {Closed}]
    BY <1>1 DEF TypeOK
  <1>4. \A g \in Opened : handle[g] \in HandleRecord
    BY <1>2, <1>3 DEF Opened
  <1> QED BY <1>1, <1>3, <1>4, TableType DEF CallerInv, FreshHandlesLive

LEMMA MapInit == Init => Abstract!Init
  <1> SUFFICES ASSUME Init PROVE Abstract!Init
    OBVIOUS
  <1>1. Occupied(efs) = {}
    BY EmptyTableType, FreshCacheCorrect DEF Init, EmptyTable
  <1>2. VfsHandle = [g \in Handles |-> Closed]
    BY DEF Init, VfsHandle
  <1>3. LostFds = {}
    BY <1>1 DEF LostFds
  <1> QED BY <1>2, <1>3 DEF Init, Abstract!Init

(* A step that neither occupies nor frees a slot, nor opens a handle or    *)
(* closes one, is invisible but for the names.                             *)
LEMMA MapSame ==
  ASSUME handle' = handle, Occupied(efs') = Occupied(efs)
  PROVE  UNCHANGED <<VfsHandle, LostFds>>
  <1>1. Opened' = Opened
    BY DEF Opened
  <1> QED BY <1>1 DEF VfsHandle, LostFds

(* open: the descriptor was neither in use nor lost.                       *)
LEMMA MapOpen ==
  ASSUME CallerInv, CallerInv', NEW g \in Handles, NEW p \in Paths, NEW create \in BOOLEAN,
         Open(g, p, create)
  PROVE  Abstract!Open(g, p)
  <1> DEFINE n == AllocatedFd(efs)
             r == [fd |-> n, path |-> p, fresh |-> TRUE]
  <1>1. PICK f \in Files \ efs.heap : efs' = AllocateFd(efs, f)
    BY DEF Open
  <1>2. /\ n \in 0 .. UINT16_MAX /\ n \notin Occupied(efs)
        /\ Occupied(efs') = Occupied(efs) \cup {n}
    BY <1>1, CallerFacts, OpenCanAllocate, AllocateCorrect DEF Open
  <1>3. /\ g \notin Opened /\ handle' = [handle EXCEPT ![g] = r] /\ names' = names \cup {p}
    BY DEF Open, OpenRequest
  <1>4. n \in 0 .. UINT16_MAX - 1
    <2>1. DOMAIN efs'.cache = 0 .. efs'.cache_size - 1
      BY DEF CallerInv
    <2>3. efs' \in Table
      BY DEF CallerInv, TableInv, TypeOK
    <2>4. efs'.cache_size \in 0 .. UINT16_MAX /\ UINT16_MAX \in Nat
      BY <2>3, TableType, TableAssumption
    <2>2. n \in DOMAIN efs'.cache
      BY <1>2 DEF Occupied
    <2> HIDE DEF n
    <2> QED BY <2>1, <2>2, <2>4
  <1> HIDE DEF n
  <1>5. r # Closed /\ r.fd = n /\ r.path = p /\ [fd |-> n, path |-> p] # Closed
    BY <1>2, CallerAssumption
  <1>6. handle'[g] = r /\ \A h \in Handles \ {g} : handle'[h] = handle[h]
    BY <1>3, CallerFacts
  <1> HIDE DEF r
  <1>7. VfsHandle' = [VfsHandle EXCEPT ![g] = [fd |-> n, path |-> p]]
    BY <1>5, <1>6 DEF VfsHandle
  <1>8. Opened' = Opened \cup {g}
    BY <1>5, <1>6 DEF Opened
  <1>9. {handle'[h].fd : h \in Opened'} = {handle[h].fd : h \in Opened} \cup {n}
    BY <1>3, <1>5, <1>6, <1>8 DEF Opened
  <1>10. LostFds' = LostFds
    BY <1>2, <1>9 DEF LostFds
  <1>11. g \notin Abstract!Opened /\ n \notin Abstract!InUse \cup LostFds
    BY <1>2, <1>3, CallerFacts, MappedHandles DEF LostFds
  <1> QED BY <1>3, <1>4, <1>7, <1>10, <1>11 DEF Abstract!Open

(* close: the slot is freed, or, when littlefs fails, lost.                *)
LEMMA MapClose ==
  ASSUME CallerInv, NEW g \in Handles, Close(g) \/ CloseFails(g)
  PROVE  Abstract!Close(g) \/ Abstract!CloseFails(g)
  <1>1. /\ g \in Opened /\ handle' = [handle EXCEPT ![g] = Closed] /\ names' = names
        /\ handle[g].fd \in Occupied(efs)
    BY CallerFacts DEF Close, CloseFails
  <1>2. handle'[g] = Closed /\ \A h \in Handles \ {g} : handle'[h] = handle[h]
    BY <1>1, CallerFacts
  <1>3. Opened' = Opened \ {g}
    BY <1>2 DEF Opened
  <1>4. {handle'[h].fd : h \in Opened'} = {handle[h].fd : h \in Opened} \ {handle[g].fd}
    <2>1. \A h \in Opened \ {g} : handle'[h] = handle[h] /\ handle[h].fd # handle[g].fd
      BY <1>1, <1>2, CallerFacts DEF Opened
    <2> QED BY <1>3, <2>1
  <1>5. VfsHandle' = [VfsHandle EXCEPT ![g] = Closed]
    BY <1>2 DEF VfsHandle
  <1>6. g \in Abstract!Opened /\ VfsHandle[g].fd = handle[g].fd
    BY <1>1, CallerFacts, MappedHandles, Zenon
  <1>7. CASE Close(g)
    <2>1. Occupied(efs') = Occupied(efs) \ {handle[g].fd}
      BY <1>1, <1>7, CallerFacts, FreeFdCorrect DEF Close
    <2>2. handle[g].fd \in {handle[h].fd : h \in Opened}
      BY <1>1
    <2>3. LostFds' = (Occupied(efs) \ {handle[g].fd})
                       \ ({handle[h].fd : h \in Opened} \ {handle[g].fd})
      BY <1>4, <2>1 DEF LostFds
    <2>4. LostFds' = LostFds
      BY <2>2, <2>3 DEF LostFds
    <2> QED BY <1>1, <1>5, <1>6, <2>4 DEF Abstract!Close
  <1>8. CASE CloseFails(g)
    <2>1. efs' = efs
      BY <1>8 DEF CloseFails
    <2>2. LostFds' = LostFds \cup {handle[g].fd}
      BY <1>1, <1>4, <2>1 DEF LostFds
    <2> QED BY <1>1, <1>5, <1>6, <2>2 DEF Abstract!CloseFails
  <1> QED BY <1>7, <1>8

(* unlink and rename: a path that is not found is not that of an open      *)
(* handle.                                                                 *)
LEMMA MapPaths ==
  ASSUME CallerInv, NEW p \in Paths, NEW q \in Paths, Unlink(p) \/ Rename(p, q)
  PROVE  Abstract!Unlink(p) \/ Abstract!Rename(p, q)
  <1>1. UNCHANGED <<VfsHandle, LostFds>>
    <2>1. handle' = handle /\ efs' = efs
      BY DEF Unlink, Rename
    <2> QED BY <2>1, MapSame
  <1>2. ASSUME NEW x \in Paths, ~HasFdByName(efs, pathOf, x)
        PROVE  \A g \in Abstract!Opened : VfsHandle[g].path # x
    <2>1. \A g \in Opened : handle[g].path # x
      BY <1>2, NotFoundNotOpen DEF CallerInv
    <2> QED BY <2>1, CallerFacts, MappedHandles
  <1>3. CASE Unlink(p)
    BY <1>1, <1>2, <1>3 DEF Unlink, Abstract!Unlink
  <1>4. CASE Rename(p, q)
    BY <1>1, <1>2, <1>4 DEF Rename, Abstract!Rename
  <1> QED BY <1>3, <1>4

(* A format with all files closed, whatever its outcome: the lost slots    *)
(* are free again.                                                         *)
LEMMA MapFormat ==
  ASSUME Discipline, CallerInv, FormatAndRemount \/ FormatOnly \/ FormatFails
  PROVE  Abstract!Format
  <1>1. Opened = {}
    BY DEF FormatAndRemount, FormatOnly, FormatFails, FormatRequest, Discipline
  <1>2. handle' = handle
    <2>1. Stale = handle
      BY <1>1, CallerFacts DEF Stale, Opened
    <2> QED BY <2>1 DEF FormatAndRemount, FormatOnly, FormatFails
  <1>3. ~WasMounted => Occupied(efs) = {}
    BY CallerFacts DEF WasMounted, Occupied
  <1>4. Unmounted \in Table /\ Occupied(Unmounted) = {} /\ (WasMounted => EmptyShape(Unmounted))
    BY <1>3, CallerFacts, UnmountedCorrect, FreeFdsCorrect DEF Unmounted, CallerInv
  <1>5. Occupied(efs') = {}
    <2>1. CASE FormatAndRemount
      BY <1>4, <2>1, FreshCacheCorrect DEF FormatAndRemount
    <2>2. CASE FormatOnly
      BY <1>3, <2>2 DEF FormatOnly
    <2>3. CASE FormatFails
      BY <1>4, <2>3 DEF FormatFails
    <2> QED BY <2>1, <2>2, <2>3
  <1>6. VfsHandle' = VfsHandle
    BY <1>2 DEF VfsHandle
  <1>7. LostFds' = {}
    BY <1>5 DEF LostFds
  <1>8. Abstract!Opened = {}
    BY <1>1, CallerFacts, MappedHandles
  <1> QED
    BY <1>6, <1>7, <1>8 DEF Abstract!Format, FormatAndRemount, FormatOnly, FormatFails

(* An open that fails leaves at most the name.                             *)
LEMMA MapOpenFails ==
  ASSUME CallerInv, NEW g \in Handles, NEW p \in Paths, NEW create \in BOOLEAN,
         OpenRefused(g, p, create) \/ OpenNoObject(g) \/ OpenNoCache(g)
  PROVE  Abstract!OpenFails(p) \/ UNCHANGED Abstract!vars
  <1>1. Occupied(efs') = Occupied(efs)
    <2>1. CASE OpenRefused(g, p, create)
      <3>1. PICK f \in Files \ efs.heap : efs' = FreeFd(AllocateFd(efs, f), AllocatedFd(efs))
        BY <2>1 DEF OpenRefused
      <3>2. /\ AllocateFd(efs, f) \in Table /\ Consistent(AllocateFd(efs, f))
            /\ AllocatedFd(efs) \notin Occupied(efs)
            /\ Occupied(AllocateFd(efs, f)) = Occupied(efs) \cup {AllocatedFd(efs)}
        BY <2>1, CallerFacts, OpenCanAllocate, AllocateCorrect DEF OpenRefused
      <3>3. Occupied(efs') = (Occupied(efs) \cup {AllocatedFd(efs)}) \ {AllocatedFd(efs)}
        BY <3>1, <3>2, FreeFdCorrect
      <3> QED BY <3>2, <3>3
    <2>2. CASE OpenNoObject(g)
      BY <2>2, CallerFacts, GrowCorrect DEF OpenNoObject, OpenRequest, CanGrow
    <2>3. CASE OpenNoCache(g)
      BY <2>3 DEF OpenNoCache, vars
    <2> QED BY <2>1, <2>2, <2>3
  <1>2. handle' = handle /\ names' \in {names, names \cup {p}}
    BY DEF OpenRefused, OpenNoObject, OpenNoCache, vars
  <1>3. UNCHANGED <<VfsHandle, LostFds>>
    BY <1>1, <1>2, MapSame
  <1> QED BY <1>2, <1>3 DEF Abstract!OpenFails, Abstract!vars

LEMMA MapNext ==
  ASSUME Discipline, CallerInv, [Next]_vars
  PROVE  [Abstract!Next]_Abstract!vars
  <1>1. CallerInv'
    BY CallerInvNext
  <1>2. ASSUME NEW g \in Handles, NEW p \in Paths, NEW create \in BOOLEAN, Open(g, p, create)
        PROVE  Abstract!Next
    BY <1>1, <1>2, MapOpen DEF Abstract!Next
  <1>3. ASSUME NEW g \in Handles, NEW p \in Paths, NEW create \in BOOLEAN,
               OpenRefused(g, p, create) \/ OpenNoObject(g) \/ OpenNoCache(g)
        PROVE  [Abstract!Next]_Abstract!vars
    BY <1>3, MapOpenFails DEF Abstract!Next
  <1>4. ASSUME NEW g \in Handles, Close(g) \/ CloseFails(g)
        PROVE  Abstract!Next
    BY <1>4, MapClose DEF Abstract!Next
  <1>5. ASSUME NEW p \in Paths, NEW q \in Paths, Unlink(p) \/ Rename(p, q)
        PROVE  Abstract!Next
    BY <1>5, MapPaths DEF Abstract!Next
  <1>6. CASE FormatAndRemount \/ FormatOnly \/ FormatFails
    BY <1>6, MapFormat DEF Abstract!Next
  <1>7. ASSUME UNCHANGED <<efs, names, handle>>
        PROVE  UNCHANGED Abstract!vars
    BY <1>7, MapSame DEF Abstract!vars
  <1>8. ASSUME NEW g \in Handles, BadAccess(g) \/ OpenNullCache(g)
        PROVE  UNCHANGED Abstract!vars
    BY <1>7, <1>8 DEF BadAccess, OpenNullCache
  <1>9. CASE PathCallUnmounted \/ UNCHANGED vars
    BY <1>7, <1>9 DEF PathCallUnmounted, vars
  <1>10. \E p \in Paths : TRUE
    BY CallerAssumption
  <1> QED BY <1>2, <1>3, <1>4, <1>5, <1>6, <1>8, <1>9, <1>10 DEF Next

(* open, close, unlink, rename and format, with the array, the list, the   *)
(* count and the growth of esp_littlefs.c, behave as the VFS layer may     *)
(* expect: a descriptor of its own for each open handle until it is        *)
(* closed, and no name taken from under it.                                *)
THEOREM TableImplementsFdSpec ==
  ASSUME Discipline
  PROVE  Spec => ImplementsFdSpec
  <1>1. CallerInv /\ [Next]_vars => CallerInv' /\ [Abstract!Next]_Abstract!vars
    BY CallerInvNext, MapNext
  <1> QED BY CallerInvInit, MapInit, <1>1, PTL DEF Spec, ImplementsFdSpec, Abstract!Spec
=============================================================================
