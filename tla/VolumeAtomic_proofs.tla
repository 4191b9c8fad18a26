------------------------- MODULE VolumeAtomic_proofs ------------------------
(***************************************************************************)
(* Proofs about VolumeLock, for any number of tasks, handles and paths.    *)
(* Whatever the tasks do with shared descriptors, and even when a failing  *)
(* seek keeps the mutex for ever, a file object given to littlefs is       *)
(* allocated and the table is consistent when no section runs.  When no    *)
(* two tasks use a handle at a time, every call is one step of FdTable.    *)
(*                                                                         *)
(* The argument: at most one task is inside a section, and at each of its  *)
(* steps the volume is known exactly in terms of the volume the last       *)
(* section left (committed) and the task's locals.                         *)
(***************************************************************************)
EXTENDS VolumeLock, FdTableOps_proofs

(***************************************************************************)
(* The mutex, in the form that survives a section that never gives it.     *)
(***************************************************************************)
MutexInv ==
  /\ owner = NULL <=> depth = 0
  /\ \A t \in Tasks : Holding(t) > 0 => owner = t /\ depth >= Holding(t)

(***************************************************************************)
(* What the fields of a call say about each other, and about the place in  *)
(* the code the task has reached.                                          *)
(***************************************************************************)
GoodCall(c) ==
  /\ c \in Call
  /\ c.op \in OpenOps => c.path \in Paths
  /\ c.op \in OpenOps \cup FdOps => c.slot \in Slots
  /\ c.op \in PathOps \cup {"rename"} => c.path \in Paths
  /\ c.op = "rename" => c.to \in Paths
  /\ c.op \in PathOps \cup {"rename", "none"} => c.slot = NULL /\ c.file = NULL
  /\ c.stage = 2 => c.op \in {"truncate", "write"}
  /\ c.stage = 3 => c.op = "truncate"

AtLabel(c, l) ==
  /\ l = "idle" <=> c.op = "none"
  /\ Nested(c) => l \in {"take", "check", "lfs", "give"}
  /\ l \in {"grow", "object", "link", "name"} => OpenSection(c)
  /\ l = "check" => ~OpenSection(c) /\ c.op \in FdOps \cup {"truncate"}
  /\ l = "busy" => c.op \in {"unlink", "rename"}
  /\ l \in {"take", "grow", "object"} /\ OpenSection(c) => c.fd = NoFd

(***************************************************************************)
(* A table between two calls, and the volume in the course of one.         *)
(***************************************************************************)
Ready(u) ==
  /\ u \in Table /\ Consistent(u)
  /\ DOMAIN u.cache = 0 .. u.cache_size - 1
  /\ u.cache_size > 0

(* The assertions of esp_littlefs_allocate_fd.                             *)
BelowLimit(u) == u.fd_count < UINT16_MAX /\ u.cache_size < UINT16_MAX

SameFiles  == pathOf = committed.pathOf /\ names = committed.names
SameVolume == efs = committed.efs /\ SameFiles

NewObject(c) ==
  /\ c.file \in Files \ committed.efs.heap
  /\ c.fd = AllocatedFd(committed.efs)

(* The names after a creat, or an open, that reached littlefs.             *)
NamesOpened(c) ==
  /\ names = committed.names \cup {c.path}
  /\ c.op = "creat" \/ c.path \in committed.names

OpenEnded(c) ==
  \/ /\ NewObject(c) /\ efs = AllocateFd(committed.efs, c.file)
     /\ pathOf = [committed.pathOf EXCEPT ![c.file] = c.path]
     /\ NamesOpened(c)
  \/ /\ c.fd = NoFd /\ pathOf = committed.pathOf
     /\ \E f \in Files \ committed.efs.heap :
          efs = FreeFd(AllocateFd(committed.efs, f), AllocatedFd(committed.efs))
     /\ names = committed.names \/ (c.op = "creat" /\ NamesOpened(c))
  \/ c.fd = NoFd /\ SameFiles /\ efs = Grow(committed.efs)
  \/ c.fd = NoFd /\ SameVolume /\ NeedsGrowth(committed.efs)

CloseEnded(c) ==
  /\ SameFiles
  /\ \/ c.fd \in Occupied(committed.efs) /\ efs = FreeFd(committed.efs, c.fd)
     \/ /\ efs = committed.efs
        /\ c.fd \in Occupied(efs) \/ ~PassesCheck(c.fd)

PathEnded(c) ==
  /\ efs = committed.efs /\ pathOf = committed.pathOf
  /\ \/ names = committed.names
     \/ /\ ~Busy(c) /\ c.path \in committed.names
        /\ names = (committed.names \ {c.path})
                     \cup (IF c.op = "rename" THEN {c.to} ELSE {})

Ended(c) ==
  IF OpenSection(c) THEN BelowLimit(committed.efs) /\ OpenEnded(c)
  ELSE IF CloseSection(c) THEN CloseEnded(c)
  ELSE IF c.op \in {"unlink", "rename"} THEN PathEnded(c)
  ELSE SameVolume

(* The volume when the task in call c has reached label l of its section.  *)
Progress(c, l) ==
  /\ l \in {"grow", "check", "busy"} => SameVolume
  /\ l \in {"object", "link", "name"} \/ (l = "lfs" /\ OpenSection(c)) =>
       BelowLimit(committed.efs)
  /\ l = "object" => efs = Grow(committed.efs) /\ SameFiles
  /\ l = "link" => /\ NewObject(c) /\ efs = Place(Grow(committed.efs), c.file)
                   /\ SameFiles
  /\ l \in {"lfs", "name"} /\ OpenSection(c) =>
       NewObject(c) /\ efs = AllocateFd(committed.efs, c.file) /\ pathOf = committed.pathOf
  /\ l = "lfs" /\ OpenSection(c) => names = committed.names
  /\ l = "name" => NamesOpened(c)
  /\ l = "lfs" /\ ~OpenSection(c) =>
       /\ SameVolume
       /\ c.op \in FdOps \cup {"truncate"} => c.fd \in Occupied(efs) /\ c.file = efs.cache[c.fd]
       /\ c.op \in {"unlink", "rename"} => c.path \in names /\ ~Busy(c)
  /\ l = "give" => Ended(c)

VolumeInv ==
  /\ TypeOK
  /\ MutexInv
  /\ Ready(committed.efs)
  /\ \A t \in Tasks : GoodCall(call[t]) /\ AtLabel(call[t], pc[t])
  /\ \A t \in Tasks : Progress(call[t], pc[t])
  /\ (\A t \in Tasks : pc[t] \in {"idle", "take"}) => SameVolume

(***************************************************************************)
(* With one task at a time per handle, the descriptor a call carries is    *)
(* the one its handle has.                                                 *)
(***************************************************************************)
SlotOK(t, c) ==
  /\ c.op \in FdOps => /\ c.slot \in Handles /\ handle[c.slot] # Closed
                       /\ handle[c.slot].fd = c.fd
  /\ c.op \in {"open", "creat"} => c.slot \in Handles /\ handle[c.slot] = Closed
  /\ c.op = "truncate" => c.slot = t
  /\ c.op # "truncate" \/ c.stage = 1 \/ c.fd = NoFd => handle[t] = Closed
  /\ c.op = "truncate" /\ c.stage > 1 /\ c.fd # NoFd =>
       handle[t] = [fd |-> c.fd, path |-> c.path]
  /\ c.op = "truncate" /\ c.stage = 3 => c.fd # NoFd

SlotInv ==
  /\ \A t, u \in Tasks : t # u /\ call[t].slot # NULL => call[t].slot # call[u].slot
  /\ \A t \in Tasks : SlotOK(t, call[t])
  /\ \A g \in Opened : handle[g].fd < committed.efs.cache_size

-----------------------------------------------------------------------------
(***************************************************************************)
(* Tables.                                                                 *)
(***************************************************************************)
LEMMA ReadyTypes ==
  ASSUME NEW u, Ready(u)
  PROVE  /\ u.cache_size \in Nat /\ u.fd_count \in Nat /\ UINT16_MAX \in Nat
         /\ u.cache_size <= UINT16_MAX /\ u.heap \subseteq Files
  BY TableType, TableAssumption DEF Ready

(* A volume that is ready can open one file more, below the limit.         *)
LEMMA ReadyCanAllocate ==
  ASSUME NEW u, Ready(u), BelowLimit(u)
  PROVE  CanAllocate(u)
  <1>1. u.cache_size \in Nat /\ u.fd_count \in Nat /\ u.cache_size > 0
    BY ReadyTypes DEF Ready
  <1>2. 0 \in DOMAIN u.cache
    BY <1>1 DEF Ready
  <1> QED BY <1>1, <1>2 DEF CanAllocate, BelowLimit

LEMMA GrowReady ==
  ASSUME NEW u, Ready(u), BelowLimit(u)
  PROVE  /\ Ready(Grow(u)) /\ HasRoom(Grow(u)) /\ Grow(u).heap = u.heap
         /\ Grow(u).cache_size >= u.cache_size
         /\ Occupied(Grow(u)) = Occupied(u)
  <1>1. CanAllocate(u) /\ u \in Table /\ Consistent(u) /\ DOMAIN u.cache = 0 .. u.cache_size - 1
    BY ReadyCanAllocate DEF Ready
  <1>2. /\ Grow(u) \in Table /\ Consistent(Grow(u)) /\ Grow(u).heap = u.heap
        /\ Occupied(Grow(u)) = Occupied(u) /\ HasRoom(Grow(u))
    BY <1>1, GrowCorrect DEF CanAllocate
  <1>3. DOMAIN Grow(u).cache = 0 .. Grow(u).cache_size - 1
    BY <1>1, GrowDomain
  <1>4. Grow(u).cache_size >= u.cache_size
    <2>1. CASE ~NeedsGrowth(u)
      BY <2>1, ReadyTypes DEF Grow
    <2>2. CASE NeedsGrowth(u)
      <3>1. Grow(u).cache_size = NewSize(u)
        BY <1>1, <2>2 DEF Grow, Table
      <3>2. NewSize(u) \in 0 .. UINT16_MAX /\ NewSize(u) > u.cache_size
        BY <1>1, NewSizeLarger DEF Ready, BelowLimit
      <3> QED BY <3>1, <3>2, ReadyTypes
    <2> QED BY <2>1, <2>2
  <1>5. Grow(u).cache_size > 0
    <2>1. Grow(u).cache_size \in 0 .. UINT16_MAX /\ UINT16_MAX \in Nat
      BY <1>2, TableType, TableAssumption
    <2>2. u.cache_size \in Nat /\ u.cache_size > 0
      BY ReadyTypes DEF Ready
    <2> QED BY <1>4, <2>1, <2>2
  <1> QED BY <1>2, <1>3, <1>4, <1>5 DEF Ready

LEMMA AllocateReady ==
  ASSUME NEW u, Ready(u), BelowLimit(u), NEW f \in Files \ u.heap
  PROVE  /\ Ready(AllocateFd(u, f))
         /\ AllocateFd(u, f) = Link(Place(Grow(u), f), f)
         /\ AllocatedFd(u) = FreeSlot(Grow(u))
         /\ AllocatedFd(u) \in 0 .. UINT16_MAX /\ AllocatedFd(u) # NoFd
         /\ AllocatedFd(u) \in Occupied(AllocateFd(u, f)) \ Occupied(u)
         /\ AllocateFd(u, f).cache[AllocatedFd(u)] = f
         /\ AllocateFd(u, f).cache_size >= u.cache_size
  <1>1. u \in Table /\ Consistent(u) /\ CanAllocate(u)
    BY ReadyCanAllocate DEF Ready
  <1>2. AllocatedFd(u) = FreeSlot(Grow(u)) /\ AllocateFd(u, f) = Insert(Grow(u), f)
    BY DEF AllocatedFd, AllocateFd
  <1>3. /\ AllocateFd(u, f) \in Table /\ Consistent(AllocateFd(u, f))
        /\ AllocatedFd(u) \in 0 .. UINT16_MAX
        /\ AllocatedFd(u) \notin Occupied(u)
        /\ Occupied(AllocateFd(u, f)) = Occupied(u) \cup {AllocatedFd(u)}
        /\ AllocateFd(u, f).cache[AllocatedFd(u)] = f
        /\ DOMAIN AllocateFd(u, f).cache = 0 .. AllocateFd(u, f).cache_size - 1
        /\ AllocateFd(u, f).cache_size > 0
    BY <1>1, AllocateCorrect
  <1>4. AllocatedFd(u) # NoFd
    BY <1>3, TableAssumption DEF NoFd
  <1>5. AllocateFd(u, f).cache_size >= u.cache_size
    <2>1. /\ Grow(u) \in Table /\ Consistent(Grow(u)) /\ HasRoom(Grow(u))
          /\ f \in Files \ Grow(u).heap /\ Grow(u).cache_size >= u.cache_size
      BY GrowReady DEF Ready
    <2>2. Insert(Grow(u), f).cache_size = Grow(u).cache_size
      BY <2>1, InsertCorrect
    <2> QED BY <1>2, <2>1, <2>2
  <1> QED BY <1>2, <1>3, <1>4, <1>5 DEF Ready, Insert

(* A new object that is in its slot but not yet in the list.               *)
LEMMA PlaceType ==
  ASSUME NEW t \in Table, NEW f \in Files
  PROVE  Place(t, f) \in Table
  <1> DEFINE c == [i \in DOMAIN t.cache |-> IF i = FreeSlot(t) THEN f ELSE t.cache[i]]
  <1>1. PICK n \in 0 .. UINT16_MAX : t.cache \in [0 .. n - 1 -> Files \cup {NULL}]
    BY TableType
  <1>2. c \in [0 .. n - 1 -> Files \cup {NULL}]
    BY <1>1
  <1>3. c \in Caches
    BY <1>2 DEF Caches
  <1>4. Place(t, f) = [t EXCEPT !.cache = c, !.heap = t.heap \cup {f}]
    BY DEF Place
  <1>5. t.heap \cup {f} \in SUBSET Files
    BY TableType
  <1> HIDE DEF c
  <1> QED BY <1>3, <1>4, <1>5 DEF Table

LEMMA FreeReady ==
  ASSUME NEW u, Ready(u), NEW fd \in Occupied(u)
  PROVE  Ready(FreeFd(u, fd)) /\ FreeFd(u, fd).cache_size = u.cache_size
  BY FreeFdCorrect DEF Ready

(* The file behind an occupied slot is allocated and in the list.          *)
LEMMA SlotInUse ==
  ASSUME NEW u, Ready(u), NEW fd \in Occupied(u)
  PROVE  u.cache[fd] \in u.heap \cap Listed(u)
  BY DEF Ready, Consistent, NothingLeaked, ListIsArray

(* A section ends with a table that is ready for the next.                 *)
LEMMA EndedReady ==
  ASSUME Ready(committed.efs), NEW c, Ended(c)
  PROVE  Ready(efs) /\ efs.cache_size >= committed.efs.cache_size
  <1> DEFINE u == committed.efs
  <1>0. u.cache_size \in Nat
    BY ReadyTypes
  <1>1. CASE efs = u
    BY <1>0, <1>1
  <1>2. CASE BelowLimit(u) /\ OpenEnded(c)
    <2>1. ASSUME NewObject(c), efs = AllocateFd(u, c.file)
          PROVE  Ready(efs) /\ efs.cache_size >= u.cache_size
      BY <1>2, <2>1, AllocateReady DEF NewObject
    <2>2. ASSUME NEW f \in Files \ u.heap, efs = FreeFd(AllocateFd(u, f), AllocatedFd(u))
          PROVE  Ready(efs) /\ efs.cache_size >= u.cache_size
      <3>1. /\ Ready(AllocateFd(u, f)) /\ AllocatedFd(u) \in Occupied(AllocateFd(u, f))
            /\ AllocateFd(u, f).cache_size >= u.cache_size
        BY <1>2, AllocateReady
      <3> QED BY <2>2, <3>1, FreeReady
    <2>3. ASSUME efs = Grow(u)
          PROVE  Ready(efs) /\ efs.cache_size >= u.cache_size
      BY <1>2, <2>3, GrowReady
    <2> QED BY <1>1, <1>2, <2>1, <2>2, <2>3 DEF OpenEnded, SameVolume
  <1>3. CASE CloseEnded(c)
    BY <1>0, <1>1, <1>3, FreeReady DEF CloseEnded
  <1> QED BY <1>1, <1>2, <1>3 DEF Ended, PathEnded, SameVolume

-----------------------------------------------------------------------------
(***************************************************************************)
(* The type, the mutex and the progress of the sections, for any constants.*)
(***************************************************************************)

(* The task inside a section is alone.                                     *)
LEMMA Alone ==
  ASSUME VolumeInv, NEW t \in Tasks, pc[t] \notin {"idle", "take"}
  PROVE  /\ owner = t /\ t # NULL /\ depth \in Nat /\ depth >= Holding(t)
         /\ Holding(t) = IF Nested(call[t]) THEN 2 ELSE 1
         /\ \A u \in Tasks \ {t} : pc[u] \in {"idle", "take"} /\ ~(Holding(u) > 0)
  <1>1. Holding(t) = IF Nested(call[t]) THEN 2 ELSE 1
    BY DEF Holding, At
  <1>2. owner = t /\ depth >= Holding(t)
    BY <1>1 DEF VolumeInv, MutexInv
  <1>3. t # NULL /\ depth \in Nat
    BY VolumeAssumption DEF VolumeInv, TypeOK
  <1>4. \A u \in Tasks \ {t} : ~(Holding(u) > 0)
    BY <1>2 DEF VolumeInv, MutexInv
  <1>5. \A u \in Tasks \ {t} : pc[u] \in {"idle", "take"}
    BY <1>4 DEF Holding, At
  <1> QED BY <1>1, <1>2, <1>3, <1>4, <1>5

(* Other tasks are not disturbed by what a task does to the volume.        *)
LEMMA OthersProgress ==
  ASSUME NEW c, NEW l \in {"idle", "take"}
  PROVE  Progress(c, l)
  BY DEF Progress

(* A call with new locals, and in another stage.                           *)
WithLocals(c, d, f) == [c EXCEPT !.fd = d, !.file = f]
WithFile(c, f)      == [c EXCEPT !.file = f]
WithStage(c, n)     == [c EXCEPT !.stage = n]
NextStage(c)        == [c EXCEPT !.stage = c.stage + 1, !.file = NULL]

(* e is c but for the locals and the stage.                                *)
SameRequest(e, c) ==
  /\ GoodCall(e)
  /\ e.op = c.op /\ e.slot = c.slot /\ e.path = c.path /\ e.to = c.to

LEMMA CallLocals ==
  ASSUME NEW c, GoodCall(c), NEW d \in 0 .. UINT16_MAX \cup {NoFd}, NEW f \in Files \cup {NULL},
         c.op \notin PathOps \cup {"rename", "none"}
  PROVE  /\ SameRequest(WithLocals(c, d, f), c) /\ WithLocals(c, d, f).stage = c.stage
         /\ WithLocals(c, d, f).fd = d /\ WithLocals(c, d, f).file = f
  <1> DEFINE e == WithLocals(c, d, f)
  <1>1. c \in Call
    BY DEF GoodCall
  <1>2. /\ e \in Call /\ e.fd = d /\ e.file = f
        /\ e.op = c.op /\ e.stage = c.stage /\ e.slot = c.slot /\ e.path = c.path /\ e.to = c.to
    BY <1>1 DEF Call, WithLocals
  <1> HIDE DEF e
  <1>3. GoodCall(e)
    BY <1>2 DEF GoodCall
  <1> QED BY <1>2, <1>3 DEF SameRequest, e

LEMMA CallFile ==
  ASSUME NEW c, GoodCall(c), NEW f \in Files, c.op \notin PathOps \cup {"rename", "none"}
  PROVE  /\ SameRequest(WithFile(c, f), c) /\ WithFile(c, f).stage = c.stage
         /\ WithFile(c, f).fd = c.fd /\ WithFile(c, f).file = f
  <1> DEFINE e == WithFile(c, f)
  <1>1. c \in Call
    BY DEF GoodCall
  <1>2. /\ e \in Call /\ e.fd = c.fd /\ e.file = f
        /\ e.op = c.op /\ e.stage = c.stage /\ e.slot = c.slot /\ e.path = c.path /\ e.to = c.to
    BY <1>1 DEF Call, WithFile
  <1> HIDE DEF e
  <1>3. GoodCall(e)
    BY <1>2 DEF GoodCall
  <1> QED BY <1>2, <1>3 DEF SameRequest, e

LEMMA CallStage ==
  ASSUME NEW c, GoodCall(c), c.op = "write", NEW n \in {1, 2}
  PROVE  /\ SameRequest(WithStage(c, n), c) /\ WithStage(c, n).stage = n
         /\ WithStage(c, n).fd = c.fd
  <1> DEFINE e == WithStage(c, n)
  <1>1. c \in Call
    BY DEF GoodCall
  <1>2. /\ e \in Call /\ e.fd = c.fd /\ e.file = c.file
        /\ e.op = c.op /\ e.stage = n /\ e.slot = c.slot /\ e.path = c.path /\ e.to = c.to
    BY <1>1 DEF Call, WithStage
  <1> HIDE DEF e
  <1>3. GoodCall(e)
    BY <1>2 DEF GoodCall
  <1> QED BY <1>2, <1>3 DEF SameRequest, e

LEMMA CallNextStage ==
  ASSUME NEW c, GoodCall(c), c.op = "truncate", c.stage \in {1, 2}
  PROVE  /\ SameRequest(NextStage(c), c) /\ NextStage(c).stage = c.stage + 1
         /\ NextStage(c).fd = c.fd
  <1> DEFINE e == NextStage(c)
  <1>1. c \in Call
    BY DEF GoodCall
  <1>2. /\ e \in Call /\ e.fd = c.fd /\ e.file = NULL
        /\ e.op = c.op /\ e.stage = c.stage + 1 /\ e.slot = c.slot /\ e.path = c.path
        /\ e.to = c.to
    <2>1. PICK n : n = c.stage + 1
      OBVIOUS
    <2>2. n \in 1 .. 3 /\ e = [c EXCEPT !.stage = n, !.file = NULL]
      BY <2>1 DEF NextStage
    <2> HIDE DEF e
    <2>3. /\ e \in Call /\ e.fd = c.fd /\ e.file = NULL
          /\ e.op = c.op /\ e.stage = n /\ e.slot = c.slot /\ e.path = c.path /\ e.to = c.to
      BY <1>1, <2>2 DEF Call
    <2> QED BY <2>1, <2>3
  <1> HIDE DEF e
  <1>3. GoodCall(e)
    BY <1>2 DEF GoodCall
  <1> QED BY <1>2, <1>3 DEF SameRequest, e

(* The kind of section is that of the request and its stage.               *)
LEMMA SameSection ==
  ASSUME NEW c, NEW e, e.op = c.op, e.stage = c.stage
  PROVE  /\ OpenSection(e) <=> OpenSection(c)
         /\ CloseSection(e) <=> CloseSection(c)
         /\ Nested(e) <=> Nested(c)
  BY DEF OpenSection, CloseSection, Nested

(* A step inside a section.                                                *)
LEMMA InnerStep ==
  ASSUME VolumeInv, NEW t \in Tasks, pc[t] \notin {"idle", "take"},
         UNCHANGED <<lock, committed, handle>>,
         NEW l \in Labels \ {"idle", "take"}, Goto(t, l),
         NEW c, call' = [call EXCEPT ![t] = c], GoodCall(c), AtLabel(c, l),
         Nested(c) <=> Nested(call[t]),
         efs' \in Table, pathOf' \in [Files -> Paths], names' \in SUBSET Paths,
         fault' \in {"none", "null_deref", "out_of_bounds"},
         Progress(c, l)'
  PROVE  VolumeInv'
  <1>1. /\ pc' \in [Tasks -> Labels] /\ pc'[t] = l /\ \A u \in Tasks \ {t} : pc'[u] = pc[u]
        /\ call' \in [Tasks -> Call] /\ call'[t] = c /\ \A u \in Tasks \ {t} : call'[u] = call[u]
        /\ owner' = owner /\ depth' = depth /\ handle' = handle /\ committed' = committed
    BY DEF VolumeInv, TypeOK, Goto, GoodCall, lock
  <1>2. TypeOK'
    BY <1>1 DEF VolumeInv, TypeOK
  <1>3. \A u \in Tasks : Holding(u)' = Holding(u)
    <2>1. Holding(t)' = IF Nested(c) THEN 2 ELSE 1
      BY <1>1 DEF Holding, At
    <2>2. \A u \in Tasks \ {t} : Holding(u)' = Holding(u)
      BY <1>1 DEF Holding, At
    <2> QED BY <2>1, <2>2, Alone
  <1>4. MutexInv'
    BY <1>1, <1>3 DEF VolumeInv, MutexInv
  <1>5. \A u \in Tasks : GoodCall(call'[u]) /\ AtLabel(call'[u], pc'[u])
    BY <1>1 DEF VolumeInv
  <1>6. \A u \in Tasks : Progress(call[u], pc[u])'
    <2>1. Progress(call[t], pc[t])'
      BY <1>1 DEF Progress
    <2>2. ASSUME NEW u \in Tasks \ {t}
          PROVE  Progress(call[u], pc[u])'
      BY <1>1, Alone DEF Progress
    <2> QED BY <2>1, <2>2
  <1>7. ~(\A u \in Tasks : pc'[u] \in {"idle", "take"})
    BY <1>1
  <1>8. Ready(committed'.efs)
    BY <1>1 DEF VolumeInv
  <1> QED BY <1>2, <1>4, <1>5, <1>6, <1>7, <1>8 DEF VolumeInv

(* A call before its first section.                                        *)
NewCall(c, op, g, d, p, q) ==
  /\ c \in Call /\ c.stage = 1 /\ c.file = NULL
  /\ c.op = op /\ c.slot = g /\ c.fd = d /\ c.path = p /\ c.to = q

LEMMA NewCallGood ==
  ASSUME NEW op \in FdOps \cup OpenOps \cup PathOps \cup {"rename"}, NEW g, NEW d, NEW p, NEW q,
         op \in OpenOps => p \in Paths /\ d = NoFd,
         op \in OpenOps \cup FdOps => g \in Slots,
         op \in PathOps \cup {"rename"} => p \in Paths /\ g = NULL,
         op = "rename" => q \in Paths,
         NEW c, NewCall(c, op, g, d, p, q)
  PROVE  GoodCall(c) /\ AtLabel(c, "take") /\ ~Nested(c)
  <1>1. op # "none"
    BY DEF FdOps, OpenOps, PathOps
  <1>2. GoodCall(c)
    BY <1>1 DEF GoodCall, NewCall
  <1>3. ~Nested(c) /\ (OpenSection(c) => op \in OpenOps)
    BY DEF Nested, OpenSection, OpenOps, NewCall
  <1>4. AtLabel(c, "take")
    BY <1>1, <1>3 DEF AtLabel, NewCall
  <1> QED BY <1>2, <1>3, <1>4

LEMMA NoCallType ==
  /\ NewCall(NoCall, "none", NULL, NoFd, NULL, NULL)
  /\ GoodCall(NoCall) /\ AtLabel(NoCall, "idle") /\ ~Nested(NoCall)
  <1>1. NewCall(NoCall, "none", NULL, NoFd, NULL, NULL)
    BY DEF NewCall, NoCall, Call
  <1>2. GoodCall(NoCall) /\ AtLabel(NoCall, "idle") /\ ~Nested(NoCall)
    BY <1>1 DEF NewCall, GoodCall, AtLabel, Nested, OpenOps, FdOps, PathOps
  <1> QED BY <1>1, <1>2

LEMMA VolumeInit == Init => VolumeInv
  <1> SUFFICES ASSUME Init PROVE VolumeInv
    OBVIOUS
  <1> DEFINE e == [cache |-> <<>>, cache_size |-> 0, file |-> <<>>, fd_count |-> 0, heap |-> {}]
  <1>1. e \in Table /\ EmptyShape(e)
    BY EmptyTableType
  <1>2. /\ FreshCache(e, TRUE) \in Table /\ Consistent(FreshCache(e, TRUE))
        /\ FreshCache(e, TRUE).cache_size = MIN_SIZE
        /\ DOMAIN FreshCache(e, TRUE).cache = 0 .. FreshCache(e, TRUE).cache_size - 1
    BY <1>1, FreshCacheCorrect
  <1>3. efs = FreshCache(e, TRUE)
    BY DEF Init
  <1> HIDE DEF e
  <1>4. Ready(efs)
    <2>1. MIN_SIZE > 0
      BY TableAssumption
    <2> QED BY <1>2, <1>3, <2>1, Zenon DEF Ready
  <1>5. pathOf \in [Files -> Paths]
    <2>1. (CHOOSE p \in Paths : TRUE) \in Paths
      BY VolumeAssumption
    <2> QED BY <2>1 DEF Init
  <1>6. /\ committed.efs = efs /\ committed.pathOf = pathOf /\ committed.names = names
        /\ committed \in [efs : Table, pathOf : [Files -> Paths], names : SUBSET Paths]
    BY <1>4, <1>5 DEF Init, Ready
  <1>8. GoodCall(NoCall) /\ AtLabel(NoCall, "idle") /\ ~Nested(NoCall)
    BY NoCallType
  <1>9. \A t \in Tasks : pc[t] = "idle" /\ call[t] = NoCall
    BY DEF Init
  <1>10. \A t \in Tasks : ~(Holding(t) > 0)
    BY <1>8, <1>9 DEF Holding
  <1>11. TypeOK
    <2>1. NoCall \in Call /\ 0 \in 0 .. MaxDepth /\ "idle" \in Labels
      BY NoCallType, VolumeAssumption DEF NewCall, Labels
    <2>2. /\ handle \in [Slots -> [fd : 0 .. UINT16_MAX, path : Paths] \cup {Closed}]
          /\ pc \in [Tasks -> Labels] /\ call \in [Tasks -> Call]
      BY <2>1 DEF Init
    <2> QED BY <1>4, <1>5, <1>6, <2>1, <2>2 DEF Init, TypeOK, Ready
  <1>12. MutexInv
    BY <1>10 DEF Init, MutexInv
  <1>13. SameVolume
    BY <1>6 DEF SameVolume, SameFiles
  <1>14. \A t \in Tasks : Progress(call[t], pc[t])
    BY <1>9, OthersProgress
  <1> QED BY <1>4, <1>6, <1>8, <1>9, <1>11, <1>12, <1>13, <1>14 DEF VolumeInv

(* The VFS layer starts a call: nothing of the volume changes.             *)
LEMMA BeginKeeps ==
  ASSUME VolumeInv, NEW t \in Tasks, NEW c, GoodCall(c), AtLabel(c, "take"), ~Nested(c),
         Begin(t, c)
  PROVE  VolumeInv'
  <1>1. pc[t] = "idle" /\ UNCHANGED <<efs, pathOf, names, handle, owner, depth, fault, committed>>
    BY DEF Begin, At, volume, lock
  <1>2. /\ pc' \in [Tasks -> Labels] /\ pc'[t] = "take" /\ \A u \in Tasks \ {t} : pc'[u] = pc[u]
        /\ call' \in [Tasks -> Call] /\ call'[t] = c /\ \A u \in Tasks \ {t} : call'[u] = call[u]
    BY DEF VolumeInv, TypeOK, Begin, Goto, Local, GoodCall, Labels
  <1>3. TypeOK'
    BY <1>1, <1>2 DEF VolumeInv, TypeOK
  <1>4. \A u \in Tasks \ {t} : Holding(u)' = Holding(u)
    BY <1>2 DEF Holding, At
  <1>5. ~(Holding(t)' > 0)
    BY <1>2 DEF Holding
  <1>6. MutexInv'
    BY <1>1, <1>4, <1>5 DEF VolumeInv, MutexInv
  <1>7. \A u \in Tasks : GoodCall(call'[u]) /\ AtLabel(call'[u], pc'[u])
    BY <1>2 DEF VolumeInv
  <1>8. Progress(call[t], pc[t])'
    BY <1>2 DEF Progress
  <1>9. ASSUME NEW u \in Tasks \ {t}
        PROVE  Progress(call[u], pc[u])'
    <2>1. Progress(call[u], pc[u]) /\ call'[u] = call[u] /\ pc'[u] = pc[u]
      BY <1>2 DEF VolumeInv
    <2> QED BY <1>1, <2>1 DEF Progress, SameVolume, SameFiles, NewObject, NamesOpened, Busy,
               Ended, OpenEnded, CloseEnded, PathEnded, PassesCheck
  <1>10. (\A u \in Tasks : pc'[u] \in {"idle", "take"}) => SameVolume'
    BY <1>1, <1>2 DEF VolumeInv, SameVolume, SameFiles
  <1>11. Ready(committed'.efs)
    BY <1>1 DEF VolumeInv
  <1> QED BY <1>3, <1>6, <1>7, <1>8, <1>9, <1>10, <1>11 DEF VolumeInv

LEMMA StartKeeps ==
  ASSUME VolumeInv, NEW t \in Tasks, Start(t)
  PROVE  VolumeInv'
  <1> DEFINE Good(c) == GoodCall(c) /\ AtLabel(c, "take") /\ ~Nested(c)
  <1>1. ASSUME NEW g \in Handles, NEW p \in Paths, NEW op \in {"open", "creat"},
               BeginOpen(t, g, p, op)
        PROVE  \E c : Begin(t, c) /\ Good(c)
    <2> DEFINE c == [NoCall EXCEPT !.op = op, !.slot = g, !.path = p]
    <2>1. op \in OpenOps /\ op \notin PathOps \cup FdOps \cup {"rename"} /\ g \in Slots
      BY DEF OpenOps, PathOps, FdOps, Slots
    <2>2. NewCall(c, op, g, NoFd, p, NULL)
      BY <2>1, NoCallType DEF NewCall, Call
    <2>3. Begin(t, c)
      BY <1>1 DEF BeginOpen
    <2> HIDE DEF c
    <2>4. Good(c)
      BY <2>1, <2>2, NewCallGood
    <2> QED BY <2>3, <2>4
  <1>2. ASSUME NEW g \in Handles, NEW op \in FdOps, BeginFd(t, g, op)
        PROVE  \E c : Begin(t, c) /\ Good(c)
    <2> DEFINE c == [NoCall EXCEPT !.op = op, !.slot = g, !.fd = handle[g].fd]
    <2>1. op \notin OpenOps \cup PathOps \cup {"rename"} /\ g \in Slots
      BY DEF OpenOps, PathOps, FdOps, Slots
    <2>2. handle[g].fd \in 0 .. UINT16_MAX
      BY <1>2, <2>1 DEF BeginFd, VolumeInv, TypeOK
    <2>3. NewCall(c, op, g, handle[g].fd, NULL, NULL)
      BY <2>1, <2>2, NoCallType DEF NewCall, Call
    <2>4. Begin(t, c)
      BY <1>2 DEF BeginFd
    <2> HIDE DEF c
    <2>5. Good(c)
      BY <2>1, <2>3, NewCallGood
    <2> QED BY <2>4, <2>5
  <1>3. ASSUME NEW p \in Paths, BeginTruncate(t, p)
        PROVE  \E c : Begin(t, c) /\ Good(c)
    <2> DEFINE c == [NoCall EXCEPT !.op = "truncate", !.slot = t, !.path = p]
    <2>1. "truncate" \in OpenOps /\ "truncate" \notin PathOps \cup FdOps /\ t \in Slots
      BY DEF OpenOps, PathOps, FdOps, Slots
    <2>2. NewCall(c, "truncate", t, NoFd, p, NULL)
      BY <2>1, NoCallType DEF NewCall, Call
    <2>3. Begin(t, c)
      BY <1>3 DEF BeginTruncate
    <2> HIDE DEF c
    <2>4. Good(c)
      BY <2>1, <2>2, NewCallGood
    <2> QED BY <2>3, <2>4
  <1>4. ASSUME NEW p \in Paths, NEW op \in PathOps, BeginPath(t, p, op)
        PROVE  \E c : Begin(t, c) /\ Good(c)
    <2> DEFINE c == [NoCall EXCEPT !.op = op, !.path = p]
    <2>1. op \notin OpenOps \cup FdOps \cup {"rename"}
      BY DEF OpenOps, PathOps, FdOps
    <2>2. NewCall(c, op, NULL, NoFd, p, NULL)
      BY NoCallType DEF NewCall, Call
    <2>3. Begin(t, c)
      BY <1>4 DEF BeginPath
    <2> HIDE DEF c
    <2>4. Good(c)
      BY <2>1, <2>2, NewCallGood
    <2> QED BY <2>3, <2>4
  <1>5. ASSUME NEW p \in Paths, NEW q \in Paths, BeginRename(t, p, q)
        PROVE  \E c : Begin(t, c) /\ Good(c)
    <2> DEFINE c == [NoCall EXCEPT !.op = "rename", !.path = p, !.to = q]
    <2>1. "rename" \notin OpenOps \cup FdOps
      BY DEF OpenOps, FdOps
    <2>2. NewCall(c, "rename", NULL, NoFd, p, q)
      BY NoCallType DEF NewCall, Call
    <2>3. Begin(t, c)
      BY <1>5 DEF BeginRename
    <2> HIDE DEF c
    <2>4. Good(c)
      BY <2>1, <2>2, NewCallGood
    <2> QED BY <2>3, <2>4
  <1>6. \E c : Begin(t, c) /\ Good(c)
    BY <1>1, <1>2, <1>3, <1>4, <1>5 DEF Start
  <1> QED BY <1>6, BeginKeeps

LEMMA TakeKeeps ==
  ASSUME VolumeInv, NEW t \in Tasks, Take(t)
  PROVE  VolumeInv'
  <1> DEFINE l == FirstStep(call[t])
  <1>1. /\ pc[t] = "take" /\ owner \in {NULL, t} /\ owner' = t /\ depth' = depth + 1
        /\ depth < MaxDepth
        /\ UNCHANGED <<efs, pathOf, names, handle, call, fault, committed>>
        /\ pc' = [pc EXCEPT ![t] = l]
    BY DEF Take, SemTake, At, Goto, volume
  <1>2. GoodCall(call[t]) /\ AtLabel(call[t], "take")
    BY <1>1 DEF VolumeInv
  <1>3. l \in {"grow", "busy", "lfs", "check"} /\ AtLabel(call[t], l)
    <2>1. CASE OpenSection(call[t])
      BY <1>2, <2>1 DEF FirstStep, AtLabel, OpenSection, Nested
    <2>2. CASE ~OpenSection(call[t])
      <3>1. call[t].op \in FdOps \cup {"truncate", "unlink", "rename", "info"}
        BY <1>2, <2>2 DEF GoodCall, Call, AtLabel, OpenSection, OpenOps, PathOps, FdOps
      <3> QED BY <1>2, <2>2, <3>1 DEF FirstStep, AtLabel, Nested, FdOps
    <2> QED BY <2>1, <2>2
  <1>4. (l = "grow" <=> OpenSection(call[t])) /\ (l = "lfs" => call[t].op = "info")
    BY DEF FirstStep, OpenSection
  <1> HIDE DEF l
  <1>5. /\ pc' \in [Tasks -> Labels] /\ pc'[t] = l /\ \A u \in Tasks \ {t} : pc'[u] = pc[u]
    BY <1>1, <1>3 DEF VolumeInv, TypeOK, Labels
  <1>6. t # NULL /\ depth \in Nat /\ MaxDepth \in Nat /\ (owner = NULL => depth = 0)
    BY VolumeAssumption DEF VolumeInv, TypeOK, MutexInv
  <1>7. \A u \in Tasks \ {t} : ~(Holding(u) > 0) /\ Holding(u)' = Holding(u)
    <2>1. \A u \in Tasks \ {t} : ~(Holding(u) > 0)
      BY <1>1, VolumeAssumption DEF VolumeInv, MutexInv
    <2>2. \A u \in Tasks \ {t} : Holding(u)' = Holding(u)
      BY <1>1, <1>5 DEF Holding, At
    <2> QED BY <2>1, <2>2
  <1>8. TypeOK'
    BY <1>1, <1>5, <1>6 DEF VolumeInv, TypeOK
  <1>9. MutexInv'
    <2>1. Holding(t) = IF Nested(call[t]) THEN 1 ELSE 0
      BY <1>1 DEF Holding, At
    <2>2. Holding(t)' = IF Nested(call[t]) THEN 2 ELSE 1
      BY <1>1, <1>3, <1>5 DEF Holding, At
    <2>3. Holding(t) > 0 => depth >= 1
      BY <1>6, <2>1 DEF VolumeInv, MutexInv
    <2>4. depth' >= Holding(t)'
      BY <1>1, <1>6, <2>1, <2>2, <2>3
    <2> QED BY <1>1, <1>6, <1>7, <2>4 DEF MutexInv
  <1>10. SameVolume /\ SameVolume'
    <2>1. \A u \in Tasks : pc[u] \in {"idle", "take"}
      BY <1>1, <1>7 DEF Holding, At
    <2> QED BY <1>1, <2>1 DEF VolumeInv, SameVolume, SameFiles
  <1>11. \A u \in Tasks : GoodCall(call'[u]) /\ AtLabel(call'[u], pc'[u])
    BY <1>1, <1>3, <1>5 DEF VolumeInv
  <1>12. \A u \in Tasks : Progress(call[u], pc[u])'
    <2>1. Progress(call[t], pc[t])'
      <3>1. call'[t] = call[t]
        BY <1>1
      <3>2. l = "lfs" => call[t].op \notin FdOps \cup {"truncate", "unlink", "rename"}
                         /\ ~OpenSection(call[t])
        BY <1>4 DEF FdOps
      <3> QED BY <1>3, <1>4, <1>5, <1>10, <3>1, <3>2 DEF Progress
    <2>2. ASSUME NEW u \in Tasks \ {t}
          PROVE  Progress(call[u], pc[u])'
      <3>1. pc'[u] \in {"idle", "take"}
        BY <1>5, <1>7 DEF Holding, At
      <3> QED BY <3>1 DEF Progress
    <2> QED BY <2>1, <2>2
  <1>13. Ready(committed'.efs)
    BY <1>1 DEF VolumeInv
  <1> QED BY <1>8, <1>9, <1>10, <1>11, <1>12, <1>13 DEF VolumeInv

(* A task leaves the volume as the last section did, and is in none: it    *)
(* waits to enter a nested one, or has returned after a failing seek.      *)
LEMMA LeaveKeeps ==
  ASSUME VolumeInv, NEW t \in Tasks, pc[t] = "lfs", ~OpenSection(call[t]),
         UNCHANGED <<efs, pathOf, names, handle, owner, depth, fault, committed>>,
         NEW l \in {"idle", "take"}, Goto(t, l),
         NEW c, call' = [call EXCEPT ![t] = c], GoodCall(c), AtLabel(c, l),
         Nested(c) => l = "take"
  PROVE  VolumeInv'
  <1>1. /\ pc' \in [Tasks -> Labels] /\ pc'[t] = l /\ \A u \in Tasks \ {t} : pc'[u] = pc[u]
        /\ call' \in [Tasks -> Call] /\ call'[t] = c /\ \A u \in Tasks \ {t} : call'[u] = call[u]
    BY DEF VolumeInv, TypeOK, Goto, GoodCall, Labels
  <1>2. TypeOK'
    BY <1>1 DEF VolumeInv, TypeOK
  <1>3. /\ owner = t /\ t # NULL /\ depth \in Nat /\ depth >= Holding(t) /\ Holding(t) \in {1, 2}
        /\ \A u \in Tasks \ {t} : pc[u] \in {"idle", "take"} /\ ~(Holding(u) > 0)
    BY Alone
  <1>4. Holding(t)' \in {0, 1}
    BY <1>1 DEF Holding, At
  <1>5. \A u \in Tasks \ {t} : Holding(u)' = Holding(u)
    BY <1>1 DEF Holding, At
  <1>6. MutexInv'
    <2>1. owner' = t /\ depth' = depth /\ depth >= 1
      BY <1>3
    <2> QED BY <1>3, <1>4, <1>5, <2>1 DEF VolumeInv, MutexInv
  <1>7. SameVolume /\ SameVolume'
    <2>1. Progress(call[t], "lfs")
      BY DEF VolumeInv
    <2>2. SameVolume
      BY <2>1 DEF Progress
    <2> QED BY <2>2 DEF SameVolume, SameFiles
  <1>8. \A u \in Tasks : GoodCall(call'[u]) /\ AtLabel(call'[u], pc'[u])
    BY <1>1 DEF VolumeInv
  <1>9. \A u \in Tasks : Progress(call[u], pc[u])'
    <2>1. \A u \in Tasks : pc'[u] \in {"idle", "take"}
      BY <1>1, <1>3
    <2> QED BY <2>1 DEF Progress
  <1>10. Ready(committed'.efs)
    BY DEF VolumeInv
  <1> QED BY <1>2, <1>6, <1>7, <1>8, <1>9, <1>10 DEF VolumeInv

LEMMA FlushKeeps ==
  ASSUME VolumeInv, NEW t \in Tasks, WriteFlush(t)
  PROVE  VolumeInv'
  <1>0. PICK c : c = WithStage(call[t], 2)
    OBVIOUS
  <1>1. /\ pc[t] = "lfs" /\ call[t].op = "write" /\ call' = [call EXCEPT ![t] = c]
        /\ Goto(t, "take")
        /\ UNCHANGED <<efs, pathOf, names, handle, owner, depth, fault, committed>>
    BY <1>0 DEF WriteFlush, At, Local, volume, lock, WithStage
  <1>2. GoodCall(call[t]) /\ ~OpenSection(call[t])
    BY <1>1 DEF VolumeInv, OpenSection
  <1>3. GoodCall(c) /\ c.op = "write" /\ c.stage = 2
    BY <1>0, <1>1, <1>2, CallStage DEF SameRequest
  <1>4. AtLabel(c, "take")
    BY <1>3 DEF AtLabel, OpenSection
  <1> QED BY <1>1, <1>2, <1>3, <1>4, LeaveKeeps

LEMMA SeekFailsKeeps ==
  ASSUME VolumeInv, NEW t \in Tasks, SeekFails(t)
  PROVE  VolumeInv'
  <1>1. /\ pc[t] = "lfs" /\ call[t].op = "pread" /\ call' = [call EXCEPT ![t] = NoCall]
        /\ Goto(t, "idle")
        /\ UNCHANGED <<efs, pathOf, names, handle, owner, depth, fault, committed>>
    BY DEF SeekFails, At, Local, volume, lock
  <1>2. ~OpenSection(call[t])
    BY <1>1 DEF OpenSection
  <1> QED BY <1>1, <1>2, NoCallType, LeaveKeeps

(* The end of a section.                                                   *)
LEMMA GiveKeeps ==
  ASSUME VolumeInv, NEW t \in Tasks, Give(t)
  PROVE  VolumeInv'
  <1>1. /\ pc[t] = "give" /\ depth' = depth - 1 /\ owner' = IF depth = 1 THEN NULL ELSE owner
        /\ committed' = [efs |-> efs, pathOf |-> pathOf, names |-> names]
        /\ UNCHANGED <<efs, pathOf, names, fault>>
    BY DEF Give, SemGive, At, volume
  <1>2. GoodCall(call[t]) /\ AtLabel(call[t], "give") /\ Ended(call[t]) /\ Ready(committed.efs)
    BY <1>1 DEF VolumeInv, Progress
  <1>3. Ready(efs)
    BY <1>2, EndedReady
  <1>4. /\ owner = t /\ t # NULL /\ depth \in Nat /\ depth >= Holding(t)
        /\ Holding(t) = IF Nested(call[t]) THEN 2 ELSE 1
        /\ \A u \in Tasks \ {t} : pc[u] \in {"idle", "take"} /\ ~(Holding(u) > 0)
    BY <1>1, Alone
  <1>5. \E l \in {"take", "give", "idle"} : \E c :
          /\ pc' = [pc EXCEPT ![t] = l] /\ call' = [call EXCEPT ![t] = c] /\ ~Nested(c)
          /\ GoodCall(c) /\ AtLabel(c, l)
          /\ l = "give" <=> Nested(call[t])
          /\ l = "give" => ~OpenSection(c) /\ ~CloseSection(c) /\ c.op = "write"
    <2>1. CASE MoreToDo(call[t])
      <3>0. PICK c : c = NextStage(call[t])
        OBVIOUS
      <3>1. /\ pc' = [pc EXCEPT ![t] = "take"] /\ ~Nested(call[t])
            /\ call' = [call EXCEPT ![t] = c]
        BY <2>1, <3>0 DEF Give, MoreToDo, Nested, Goto, Local, NextStage
      <3>2. call[t].op = "truncate" /\ call[t].stage \in {1, 2}
        BY <2>1 DEF MoreToDo
      <3>3. GoodCall(c) /\ c.op = "truncate" /\ c.stage \in {2, 3}
        BY <1>2, <3>0, <3>2, CallNextStage DEF SameRequest
      <3>4. ~Nested(c) /\ AtLabel(c, "take")
        BY <3>3 DEF Nested, AtLabel, OpenSection
      <3> QED BY <3>1, <3>3, <3>4
    <2>2. CASE Nested(call[t])
      <3>0. PICK c : c = WithStage(call[t], 1)
        OBVIOUS
      <3>1. pc' = pc /\ call' = [call EXCEPT ![t] = c] /\ call[t].op = "write"
        BY <2>2, <3>0 DEF Give, MoreToDo, Nested, Local, WithStage
      <3>2. pc' = [pc EXCEPT ![t] = "give"]
        BY <1>1, <3>1 DEF VolumeInv, TypeOK
      <3>3. GoodCall(c) /\ c.op = "write" /\ c.stage = 1
        BY <1>2, <3>0, <3>1, CallStage DEF SameRequest
      <3>4. ~Nested(c) /\ AtLabel(c, "give") /\ ~OpenSection(c) /\ ~CloseSection(c)
        BY <3>3 DEF Nested, AtLabel, OpenSection, CloseSection
      <3> QED BY <2>2, <3>1, <3>2, <3>3, <3>4
    <2>3. CASE ~MoreToDo(call[t]) /\ ~Nested(call[t])
      BY <2>3, NoCallType DEF Give, Goto, Local
    <2> QED BY <2>1, <2>2, <2>3
  <1>6. PICK l \in {"take", "give", "idle"} : \E c :
          /\ pc' = [pc EXCEPT ![t] = l] /\ call' = [call EXCEPT ![t] = c] /\ ~Nested(c)
          /\ GoodCall(c) /\ AtLabel(c, l)
          /\ l = "give" <=> Nested(call[t])
          /\ l = "give" => ~OpenSection(c) /\ ~CloseSection(c) /\ c.op = "write"
    BY <1>5
  <1>7. PICK c :
          /\ pc' = [pc EXCEPT ![t] = l] /\ call' = [call EXCEPT ![t] = c] /\ ~Nested(c)
          /\ GoodCall(c) /\ AtLabel(c, l)
          /\ l = "give" <=> Nested(call[t])
          /\ l = "give" => ~OpenSection(c) /\ ~CloseSection(c) /\ c.op = "write"
    BY <1>6
  <1>8. /\ pc' \in [Tasks -> Labels] /\ pc'[t] = l /\ \A u \in Tasks \ {t} : pc'[u] = pc[u]
        /\ call' \in [Tasks -> Call] /\ call'[t] = c /\ \A u \in Tasks \ {t} : call'[u] = call[u]
    BY <1>7 DEF VolumeInv, TypeOK, GoodCall, Labels
  <1>9. Holding(t)' = IF Nested(call[t]) THEN 1 ELSE 0
    BY <1>7, <1>8 DEF Holding
  <1>10. \A u \in Tasks \ {t} : Holding(u)' = Holding(u)
    BY <1>8 DEF Holding, At
  <1>11. MutexInv'
    <2>1. depth' \in Nat /\ depth' >= Holding(t)' /\ (owner' = NULL <=> depth' = 0)
      BY <1>1, <1>4, <1>9
    <2>2. Holding(t)' > 0 => owner' = t
      BY <1>1, <1>4, <1>9
    <2> QED BY <1>4, <1>10, <2>1, <2>2 DEF MutexInv
  <1>12. handle' \in [Slots -> [fd : 0 .. UINT16_MAX, path : Paths] \cup {Closed}]
    <2>1. handle \in [Slots -> [fd : 0 .. UINT16_MAX, path : Paths] \cup {Closed}]
      BY DEF VolumeInv, TypeOK
    <2>2. CASE call[t].slot = NULL
      BY <2>1, <2>2 DEF Give
    <2>3. CASE call[t].slot # NULL
      <3>1. call[t].slot \in Slots /\ handle' = [handle EXCEPT ![call[t].slot] = Outcome(call[t])]
        BY <1>2, <2>3 DEF Give, GoodCall, Call
      <3>2. Outcome(call[t]) \in [fd : 0 .. UINT16_MAX, path : Paths] \cup {Closed}
        <4>1. CASE OpenSection(call[t]) /\ call[t].fd # NoFd
          <5>1. call[t].fd \in 0 .. UINT16_MAX /\ call[t].path \in Paths
            BY <1>2, <4>1 DEF GoodCall, Call, OpenSection, OpenOps
          <5> QED BY <4>1, <5>1 DEF Outcome
        <4>2. CASE OpenSection(call[t]) /\ call[t].fd = NoFd
          BY <4>2 DEF Outcome
        <4>3. CASE ~OpenSection(call[t])
          BY <2>1, <3>1, <4>3 DEF Outcome
        <4> QED BY <4>1, <4>2, <4>3
      <3> QED BY <2>1, <3>1, <3>2
    <2> QED BY <2>2, <2>3
  <1>13. TypeOK'
    <2>1. owner' \in Tasks \cup {NULL} /\ depth' \in 0 .. MaxDepth
      BY <1>1, <1>4, <1>9, VolumeAssumption DEF VolumeInv, TypeOK
    <2>2. committed' \in [efs : Table, pathOf : [Files -> Paths], names : SUBSET Paths]
      BY <1>1 DEF VolumeInv, TypeOK
    <2> QED BY <1>1, <1>8, <1>12, <2>1, <2>2 DEF VolumeInv, TypeOK
  <1>14. SameVolume'
    BY <1>1 DEF SameVolume, SameFiles
  <1>15. \A u \in Tasks : GoodCall(call'[u]) /\ AtLabel(call'[u], pc'[u])
    BY <1>7, <1>8 DEF VolumeInv
  <1>16. \A u \in Tasks : Progress(call[u], pc[u])'
    <2>1. Progress(call[t], pc[t])'
      BY <1>7, <1>8, <1>14 DEF Progress, Ended
    <2>2. ASSUME NEW u \in Tasks \ {t}
          PROVE  Progress(call[u], pc[u])'
      BY <1>4, <1>8 DEF Progress
    <2> QED BY <2>1, <2>2
  <1>17. Ready(committed'.efs)
    BY <1>1, <1>3
  <1> QED BY <1>11, <1>13, <1>14, <1>15, <1>16, <1>17 DEF VolumeInv

(***************************************************************************)
(* The steps inside the section of open.                                   *)
(***************************************************************************)

(* The call of a task that opens keeps its place in the code.              *)
LEMMA OpenLabels ==
  ASSUME NEW c, OpenSection(c), c.op # "none"
  PROVE  /\ ~Nested(c)
         /\ \A l \in {"link", "lfs", "name", "give"} : AtLabel(c, l)
         /\ c.fd = NoFd => AtLabel(c, "object")
  BY DEF AtLabel, OpenSection, Nested

LEMMA OpenOp ==
  ASSUME NEW c, GoodCall(c), OpenSection(c)
  PROVE  c.op \notin PathOps \cup {"rename", "none"} /\ c.op \in OpenOps /\ c.path \in Paths
  BY DEF GoodCall, OpenSection, OpenOps, PathOps

(* Where a task that is inside a section starts from.                      *)
LEMMA Here ==
  ASSUME VolumeInv, NEW t \in Tasks, NEW l, pc[t] = l
  PROVE  \E c : /\ c = call[t] /\ call = [call EXCEPT ![t] = c]
                /\ GoodCall(c) /\ AtLabel(c, l) /\ Progress(c, l)
  BY DEF VolumeInv, TypeOK

LEMMA GrowKeeps ==
  ASSUME VolumeInv, NEW t \in Tasks, OpenGrow(t)
  PROVE  VolumeInv'
  <1>1. /\ pc[t] = "grow" /\ BelowLimit(efs)
        /\ UNCHANGED <<pathOf, names, handle, owner, depth, call, fault, committed>>
        /\ \/ efs' = Grow(efs) /\ Goto(t, "object")
           \/ NeedsGrowth(efs) /\ efs' = efs /\ Goto(t, "give")
    BY DEF OpenGrow, At, lock, BelowLimit
  <1>2. Ready(committed.efs) /\ TypeOK
    BY DEF VolumeInv
  <1>3. PICK c : /\ c = call[t] /\ call = [call EXCEPT ![t] = c]
                 /\ GoodCall(c) /\ AtLabel(c, "grow") /\ Progress(c, "grow")
    BY <1>1, Here
  <1>4. OpenSection(c) /\ c.fd = NoFd /\ c.op # "none" /\ SameVolume
    BY <1>3 DEF AtLabel, Progress
  <1>5. /\ efs = committed.efs /\ BelowLimit(committed.efs) /\ committed' = committed
        /\ Ready(Grow(committed.efs)) /\ SameFiles /\ SameFiles'
    BY <1>1, <1>2, <1>4, GrowReady DEF SameVolume, SameFiles
  <1>6. AtLabel(c, "object") /\ AtLabel(c, "give")
    BY <1>4, OpenLabels
  <1>7. CASE efs' = Grow(efs) /\ Goto(t, "object")
    <2>1. Progress(c, "object")'
      BY <1>1, <1>5, <1>7 DEF Progress
    <2>2. efs' \in Table
      BY <1>5, <1>7 DEF Ready
    <2> QED BY <1>1, <1>2, <1>3, <1>6, <1>7, <2>1, <2>2, InnerStep DEF TypeOK, Labels, lock
  <1>8. CASE NeedsGrowth(efs) /\ efs' = efs /\ Goto(t, "give")
    <2>1. OpenEnded(c)'
      BY <1>1, <1>4, <1>5, <1>8 DEF OpenEnded, SameVolume
    <2>2. Progress(c, "give")'
      BY <1>4, <1>5, <2>1 DEF Progress, Ended
    <2> QED BY <1>1, <1>2, <1>3, <1>6, <1>8, <2>2, InnerStep DEF TypeOK, Labels, lock
  <1> QED BY <1>1, <1>7, <1>8

LEMMA ObjectKeeps ==
  ASSUME VolumeInv, NEW t \in Tasks, OpenObject(t)
  PROVE  VolumeInv'
  <1>1. /\ pc[t] = "object"
        /\ UNCHANGED <<pathOf, names, handle, owner, depth, fault, committed>>
    BY DEF OpenObject, At, lock
  <1>2. Ready(committed.efs) /\ TypeOK
    BY DEF VolumeInv
  <1>3. PICK c : /\ c = call[t] /\ call = [call EXCEPT ![t] = c]
                 /\ GoodCall(c) /\ AtLabel(c, "object") /\ Progress(c, "object")
    BY <1>1, Here
  <1>4. OpenSection(c) /\ c.fd = NoFd /\ c.op # "none"
    BY <1>3 DEF AtLabel
  <1>5. /\ efs = Grow(committed.efs) /\ BelowLimit(committed.efs) /\ committed' = committed
        /\ SameFiles /\ SameFiles'
    BY <1>1, <1>3 DEF SameFiles, Progress
  <1>6. Ready(efs) /\ efs.heap = committed.efs.heap
    BY <1>2, <1>5, GrowReady
  <1>7. CASE Goto(t, "give") /\ efs' = efs /\ call' = call
    <2>1. OpenEnded(c)'
      BY <1>4, <1>5, <1>7 DEF OpenEnded
    <2>2. Progress(c, "give")'
      BY <1>4, <1>5, <2>1 DEF Progress, Ended
    <2>3. AtLabel(c, "give")
      BY <1>4, OpenLabels
    <2> QED BY <1>1, <1>2, <1>3, <1>7, <2>2, <2>3, InnerStep DEF TypeOK, Labels, lock
  <1>8. ASSUME NEW f \in Files \ efs.heap, efs' = Place(efs, f),
               Local(t, [c EXCEPT !.fd = FreeSlot(efs), !.file = f]), Goto(t, "link")
        PROVE  VolumeInv'
    <2>1. PICK d : d = AllocatedFd(committed.efs)
      OBVIOUS
    <2>2. PICK e : e = WithLocals(c, d, f)
      OBVIOUS
    <2>3. FreeSlot(efs) = d /\ d \in 0 .. UINT16_MAX
      BY <1>2, <1>5, <1>6, <1>8, <2>1, AllocateReady
    <2>4. call' = [call EXCEPT ![t] = e]
      BY <1>8, <2>2, <2>3 DEF Local, WithLocals
    <2>5. c.op \notin PathOps \cup {"rename", "none"}
      BY <1>3, <1>4, OpenOp
    <2>6. GoodCall(e) /\ e.fd = d /\ e.file = f /\ e.op = c.op /\ e.stage = c.stage
      BY <1>3, <2>2, <2>3, <2>5, CallLocals DEF SameRequest
    <2>7. OpenSection(e) /\ (Nested(e) <=> Nested(c)) /\ ~Nested(e)
      BY <1>4, <2>6, SameSection, OpenLabels
    <2>8. AtLabel(e, "link")
      BY <1>4, <2>6, <2>7 DEF AtLabel
    <2>9. Progress(e, "link")'
      <3>1. NewObject(e)'
        BY <1>5, <1>6, <1>8, <2>1, <2>6 DEF NewObject
      <3>2. efs' = Place(Grow(committed'.efs), e.file) /\ BelowLimit(committed'.efs)
        BY <1>5, <1>8, <2>6
      <3> QED BY <1>5, <3>1, <3>2 DEF Progress
    <2>10. efs' \in Table
      BY <1>6, <1>8, PlaceType DEF Ready
    <2> QED BY <1>1, <1>2, <1>3, <1>8, <2>4, <2>6, <2>7, <2>8, <2>9, <2>10, InnerStep
            DEF TypeOK, Labels, lock
  <1> QED BY <1>3, <1>7, <1>8 DEF OpenObject

LEMMA LinkKeeps ==
  ASSUME VolumeInv, NEW t \in Tasks, OpenLink(t)
  PROVE  VolumeInv'
  <1>1. /\ pc[t] = "link" /\ efs' = Link(efs, call[t].file) /\ Goto(t, "lfs")
        /\ UNCHANGED <<pathOf, names, handle, owner, depth, call, fault, committed>>
    BY DEF OpenLink, At, lock
  <1>2. Ready(committed.efs) /\ TypeOK
    BY DEF VolumeInv
  <1>3. PICK c : /\ c = call[t] /\ call = [call EXCEPT ![t] = c]
                 /\ GoodCall(c) /\ AtLabel(c, "link") /\ Progress(c, "link")
    BY <1>1, Here
  <1>4. /\ OpenSection(c) /\ NewObject(c) /\ BelowLimit(committed.efs) /\ committed' = committed
        /\ efs = Place(Grow(committed.efs), c.file) /\ SameFiles /\ SameFiles'
    BY <1>1, <1>3 DEF AtLabel, Progress, SameFiles
  <1>5. efs' = AllocateFd(committed.efs, c.file) /\ efs' \in Table
    BY <1>1, <1>2, <1>3, <1>4, AllocateReady DEF NewObject, Ready
  <1>6. NewObject(c)'
    BY <1>4 DEF NewObject
  <1>7. AtLabel(c, "lfs")
    BY <1>3, <1>4 DEF AtLabel, OpenSection, Nested
  <1>8. Progress(c, "lfs")'
    BY <1>4, <1>5, <1>6 DEF Progress, SameFiles
  <1> QED BY <1>1, <1>2, <1>3, <1>5, <1>7, <1>8, InnerStep DEF TypeOK, Labels, lock

LEMMA FileKeeps ==
  ASSUME VolumeInv, NEW t \in Tasks, OpenFile(t)
  PROVE  VolumeInv'
  <1>1. /\ pc[t] = "lfs" /\ OpenSection(call[t]) /\ Goto(t, "name")
        /\ call[t].op = "creat" \/ call[t].path \in names
        /\ names' = names \cup {call[t].path}
        /\ UNCHANGED <<efs, pathOf, handle, owner, depth, call, fault, committed>>
    BY DEF OpenFile, At, lock
  <1>2. TypeOK
    BY DEF VolumeInv
  <1>3. PICK c : /\ c = call[t] /\ call = [call EXCEPT ![t] = c]
                 /\ GoodCall(c) /\ AtLabel(c, "lfs") /\ Progress(c, "lfs")
    BY <1>1, Here
  <1>4. c.op # "none" /\ OpenSection(c) /\ c.path \in Paths
    BY <1>1, <1>3, OpenOp DEF AtLabel
  <1>5. /\ NewObject(c) /\ efs = AllocateFd(committed.efs, c.file) /\ BelowLimit(committed.efs)
        /\ pathOf = committed.pathOf /\ names = committed.names
    BY <1>3, <1>4 DEF Progress
  <1>6. NamesOpened(c)' /\ NewObject(c)'
    BY <1>1, <1>3, <1>5 DEF NamesOpened, NewObject
  <1>7. Progress(c, "name")'
    BY <1>1, <1>5, <1>6 DEF Progress
  <1>8. AtLabel(c, "name") /\ names' \in SUBSET Paths
    BY <1>1, <1>2, <1>3, <1>4, OpenLabels DEF TypeOK
  <1> QED BY <1>1, <1>2, <1>3, <1>7, <1>8, InnerStep DEF TypeOK, Labels, lock

LEMMA FileFailsKeeps ==
  ASSUME VolumeInv, NEW t \in Tasks, OpenFileFails(t)
  PROVE  VolumeInv'
  <1>1. /\ pc[t] = "lfs" /\ OpenSection(call[t]) /\ Goto(t, "give")
        /\ names' \in {names} \cup (IF call[t].op = "creat" THEN {names \cup {call[t].path}} ELSE {})
        /\ efs' = FreeFd(efs, call[t].fd)
        /\ UNCHANGED <<pathOf, handle, owner, depth, fault, committed>>
    BY DEF OpenFileFails, At, lock
  <1>2. TypeOK /\ Ready(committed.efs)
    BY DEF VolumeInv
  <1>3. PICK c : /\ c = call[t] /\ call = [call EXCEPT ![t] = c]
                 /\ GoodCall(c) /\ AtLabel(c, "lfs") /\ Progress(c, "lfs")
    BY <1>1, Here
  <1>4. /\ c.op # "none" /\ OpenSection(c) /\ c.path \in Paths
        /\ c.op \notin PathOps \cup {"rename", "none"}
    BY <1>1, <1>3, OpenOp DEF AtLabel
  <1>5. /\ NewObject(c) /\ efs = AllocateFd(committed.efs, c.file) /\ BelowLimit(committed.efs)
        /\ pathOf = committed.pathOf /\ names = committed.names
    BY <1>3, <1>4 DEF Progress
  <1>6. PICK e : e = WithLocals(c, NoFd, NULL)
    OBVIOUS
  <1>7. call' = [call EXCEPT ![t] = e]
    BY <1>3, <1>6 DEF OpenFileFails, Local, WithLocals
  <1>8. /\ GoodCall(e) /\ e.fd = NoFd /\ e.op = c.op /\ e.stage = c.stage /\ e.path = c.path
    BY <1>3, <1>4, <1>6, CallLocals DEF SameRequest
  <1>9. OpenSection(e) /\ (Nested(e) <=> Nested(c)) /\ AtLabel(e, "give")
    BY <1>4, <1>8, SameSection, OpenLabels
  <1>10. efs' = FreeFd(AllocateFd(committed.efs, c.file), AllocatedFd(committed.efs))
         /\ c.file \in Files \ committed.efs.heap
    BY <1>1, <1>3, <1>5 DEF NewObject
  <1>11. OpenEnded(e)'
    <2>1. names' = committed'.names \/ (e.op = "creat" /\ NamesOpened(e)')
      BY <1>1, <1>3, <1>5, <1>8 DEF NamesOpened
    <2> QED BY <1>1, <1>5, <1>8, <1>10, <2>1 DEF OpenEnded
  <1>12. Progress(e, "give")'
    BY <1>1, <1>5, <1>9, <1>11 DEF Progress, Ended
  <1>13. efs' \in Table
    <2>1. Ready(AllocateFd(committed.efs, c.file))
          /\ AllocatedFd(committed.efs) \in Occupied(AllocateFd(committed.efs, c.file))
      BY <1>2, <1>5, <1>10, AllocateReady
    <2> QED BY <1>10, <2>1, FreeReady DEF Ready
  <1>14. names' \in SUBSET Paths
    BY <1>1, <1>2, <1>3, <1>4 DEF TypeOK
  <1> QED BY <1>1, <1>2, <1>3, <1>7, <1>8, <1>9, <1>12, <1>13, <1>14, InnerStep
          DEF TypeOK, Labels, lock

LEMMA NameKeeps ==
  ASSUME VolumeInv, NEW t \in Tasks, OpenName(t)
  PROVE  VolumeInv'
  <1>1. /\ pc[t] = "name" /\ Goto(t, "give")
        /\ pathOf' = [pathOf EXCEPT ![call[t].file] = call[t].path]
        /\ UNCHANGED <<efs, names, handle, owner, depth, call, fault, committed>>
    BY DEF OpenName, At, lock
  <1>2. TypeOK
    BY DEF VolumeInv
  <1>3. PICK c : /\ c = call[t] /\ call = [call EXCEPT ![t] = c]
                 /\ GoodCall(c) /\ AtLabel(c, "name") /\ Progress(c, "name")
    BY <1>1, Here
  <1>4. c.op # "none" /\ OpenSection(c) /\ c.path \in Paths
    BY <1>3, OpenOp DEF AtLabel
  <1>5. /\ NewObject(c) /\ efs = AllocateFd(committed.efs, c.file) /\ BelowLimit(committed.efs)
        /\ pathOf = committed.pathOf /\ NamesOpened(c)
    BY <1>3, <1>4 DEF Progress
  <1>6. NamesOpened(c)' /\ NewObject(c)'
    BY <1>1, <1>5 DEF NamesOpened, NewObject
  <1>7. OpenEnded(c)'
    BY <1>1, <1>3, <1>5, <1>6 DEF OpenEnded
  <1>8. Progress(c, "give")'
    BY <1>1, <1>4, <1>5, <1>7 DEF Progress, Ended
  <1>9. AtLabel(c, "give") /\ pathOf' \in [Files -> Paths]
    BY <1>1, <1>2, <1>3, <1>4, OpenLabels DEF TypeOK
  <1> QED BY <1>1, <1>2, <1>3, <1>8, <1>9, InnerStep DEF TypeOK, Labels, lock

(***************************************************************************)
(* The steps inside the other sections.                                    *)
(***************************************************************************)
LEMMA StopKeeps ==
  ASSUME VolumeInv, UNCHANGED <<volume, handle, lock, pc, call, committed>>,
         fault' \in {"none", "null_deref", "out_of_bounds"}
  PROVE  VolumeInv'
  <1>1. UNCHANGED <<efs, pathOf, names, handle, owner, depth, pc, call, committed>>
    BY DEF volume, lock
  <1>2. TypeOK'
    BY <1>1 DEF VolumeInv, TypeOK
  <1>3. MutexInv'
    BY <1>1 DEF VolumeInv, MutexInv, Holding, At, Nested
  <1>4. \A t \in Tasks : GoodCall(call'[t]) /\ AtLabel(call'[t], pc'[t])
    BY <1>1 DEF VolumeInv
  <1>5. \A t \in Tasks : Progress(call[t], pc[t])'
    BY <1>1 DEF VolumeInv, Progress, SameVolume, SameFiles, NewObject, NamesOpened, Busy,
                Ended, OpenEnded, CloseEnded, PathEnded, PassesCheck
  <1>6. (\A t \in Tasks : pc'[t] \in {"idle", "take"}) => SameVolume'
    BY <1>1 DEF VolumeInv, SameVolume, SameFiles
  <1>7. Ready(committed'.efs)
    BY <1>1 DEF VolumeInv
  <1> QED BY <1>2, <1>3, <1>4, <1>5, <1>6, <1>7 DEF VolumeInv

LEMMA CheckKeeps ==
  ASSUME VolumeInv, NEW t \in Tasks, FdCheck(t)
  PROVE  VolumeInv'
  <1>1. /\ pc[t] = "check"
        /\ UNCHANGED <<efs, pathOf, names, handle, owner, depth, committed>>
    BY DEF FdCheck, At, volume, lock
  <1>2. TypeOK
    BY DEF VolumeInv
  <1>3. PICK c : /\ c = call[t] /\ call = [call EXCEPT ![t] = c]
                 /\ GoodCall(c) /\ AtLabel(c, "check") /\ Progress(c, "check")
    BY <1>1, Here
  <1>4. /\ ~OpenSection(c) /\ c.op \in FdOps \cup {"truncate"}
        /\ c.op \notin PathOps \cup {"rename", "none"} /\ c.op \notin {"unlink", "rename"}
    BY <1>3 DEF AtLabel, FdOps, PathOps
  <1>5. SameVolume /\ SameVolume'
    BY <1>1, <1>3 DEF Progress, SameVolume, SameFiles
  <1>6. CASE fault' # fault \/ UNCHANGED <<pc, call>>
    <2>1. UNCHANGED <<pc, call>> /\ fault' \in {"none", "null_deref", "out_of_bounds"}
      BY <1>2, <1>6 DEF FdCheck, TypeOK
    <2> QED BY <1>1, <2>1, StopKeeps DEF volume, lock
  <1>7. CASE Goto(t, "give") /\ UNCHANGED <<call, fault>>
             /\ (~PassesCheck(c.fd) \/ c.op = "fcntl")
    <2>1. CloseSection(c) => CloseEnded(c)'
      BY <1>1, <1>5, <1>7 DEF CloseEnded, CloseSection, SameVolume, PassesCheck
    <2>2. Progress(c, "give")'
      BY <1>4, <1>5, <2>1 DEF Progress, Ended
    <2>3. AtLabel(c, "give")
      BY <1>3 DEF AtLabel
    <2> QED BY <1>1, <1>2, <1>3, <1>7, <2>2, <2>3, InnerStep DEF TypeOK, Labels, lock
  <1>8. CASE /\ c.fd \in Occupied(efs) /\ Local(t, [c EXCEPT !.file = efs.cache[c.fd]])
             /\ Goto(t, "lfs") /\ UNCHANGED fault
    <2>1. PICK e : e = WithFile(c, efs.cache[c.fd])
      OBVIOUS
    <2>2. call' = [call EXCEPT ![t] = e]
      BY <1>8, <2>1 DEF Local, WithFile
    <2>3. efs.cache[c.fd] \in Files
      <3>1. PICK n \in 0 .. UINT16_MAX : efs.cache \in [0 .. n - 1 -> Files \cup {NULL}]
        BY <1>2, TableType DEF TypeOK
      <3> QED BY <1>8, <3>1 DEF Occupied
    <2>4. GoodCall(e) /\ e.fd = c.fd /\ e.file = efs.cache[c.fd] /\ e.op = c.op
          /\ e.stage = c.stage
      BY <1>3, <1>4, <2>1, <2>3, CallFile DEF SameRequest
    <2>5. ~OpenSection(e) /\ (Nested(e) <=> Nested(c)) /\ AtLabel(e, "lfs")
      <3>1. ~OpenSection(e) /\ (Nested(e) <=> Nested(c))
        BY <1>4, <2>4, SameSection
      <3> QED BY <1>4, <2>4, <3>1 DEF AtLabel
    <2>6. Progress(e, "lfs")'
      BY <1>1, <1>4, <1>5, <1>8, <2>4, <2>5 DEF Progress
    <2> QED BY <1>1, <1>2, <1>3, <1>8, <2>2, <2>4, <2>5, <2>6, InnerStep DEF TypeOK, Labels, lock
  <1> QED BY <1>3, <1>6, <1>7, <1>8 DEF FdCheck

(* A task at its littlefs call that does not open a file.                  *)
LEMMA AtLfs ==
  ASSUME VolumeInv, NEW t \in Tasks, pc[t] = "lfs", ~OpenSection(call[t])
  PROVE  \E c : /\ c = call[t] /\ call = [call EXCEPT ![t] = c]
                /\ GoodCall(c) /\ ~OpenSection(c) /\ AtLabel(c, "give") /\ SameVolume
                /\ c.op \in FdOps \cup {"truncate"} =>
                     c.fd \in Occupied(efs) /\ c.file = efs.cache[c.fd]
                /\ c.op \in {"unlink", "rename"} => c.path \in names /\ ~Busy(c)
  <1>1. PICK c : /\ c = call[t] /\ call = [call EXCEPT ![t] = c]
                 /\ GoodCall(c) /\ AtLabel(c, "lfs") /\ Progress(c, "lfs")
    BY Here
  <1>2. AtLabel(c, "give")
    BY <1>1 DEF AtLabel
  <1> QED BY <1>1, <1>2 DEF Progress

LEMMA LfsKeeps ==
  ASSUME VolumeInv, NEW t \in Tasks, LfsCall(t)
  PROVE  VolumeInv'
  <1>1. /\ pc[t] = "lfs" /\ Goto(t, "give")
        /\ UNCHANGED <<efs, pathOf, names, handle, owner, depth, call, fault, committed>>
    BY DEF LfsCall, At, volume, lock
  <1>2. /\ ~OpenSection(call[t]) /\ ~CloseSection(call[t])
        /\ call[t].op \notin {"unlink", "rename"}
    BY DEF LfsCall, OpenSection, CloseSection
  <1>3. PICK c : /\ c = call[t] /\ call = [call EXCEPT ![t] = c]
                 /\ GoodCall(c) /\ ~OpenSection(c) /\ AtLabel(c, "give") /\ SameVolume
    BY <1>1, <1>2, AtLfs
  <1>4. SameVolume'
    BY <1>1, <1>3 DEF SameVolume, SameFiles
  <1>5. Progress(c, "give")'
    BY <1>2, <1>3, <1>4 DEF Progress, Ended
  <1>6. TypeOK
    BY DEF VolumeInv
  <1> QED BY <1>1, <1>3, <1>5, <1>6, InnerStep DEF TypeOK, Labels, lock

LEMMA CloseKeeps ==
  ASSUME VolumeInv, NEW t \in Tasks, CloseFile(t) \/ CloseFileFails(t)
  PROVE  VolumeInv'
  <1>1. /\ pc[t] = "lfs" /\ CloseSection(call[t]) /\ Goto(t, "give")
        /\ efs' = FreeFd(efs, call[t].fd) \/ efs' = efs
        /\ UNCHANGED <<pathOf, names, handle, owner, depth, call, fault, committed>>
    BY DEF CloseFile, CloseFileFails, At, volume, lock
  <1>2. ~OpenSection(call[t]) /\ call[t].op \in FdOps \cup {"truncate"}
    BY <1>1 DEF OpenSection, CloseSection, FdOps
  <1>3. PICK c : /\ c = call[t] /\ call = [call EXCEPT ![t] = c]
                 /\ GoodCall(c) /\ ~OpenSection(c) /\ AtLabel(c, "give") /\ SameVolume
                 /\ c.op \in FdOps \cup {"truncate"} => c.fd \in Occupied(efs)
    BY <1>1, <1>2, AtLfs
  <1>4. Ready(efs) /\ c.fd \in Occupied(efs) /\ CloseSection(c)
    BY <1>1, <1>2, <1>3 DEF VolumeInv, SameVolume
  <1>5. CloseEnded(c)'
    BY <1>1, <1>3, <1>4 DEF CloseEnded, SameVolume, SameFiles
  <1>6. Progress(c, "give")'
    BY <1>3, <1>4, <1>5 DEF Progress, Ended
  <1>7. TypeOK /\ efs' \in Table
    BY <1>1, <1>3, <1>4, FreeReady DEF VolumeInv, Ready
  <1> QED BY <1>1, <1>3, <1>6, <1>7, InnerStep DEF TypeOK, Labels, lock

LEMMA BusyKeeps ==
  ASSUME VolumeInv, NEW t \in Tasks, BusyCheck(t)
  PROVE  VolumeInv'
  <1>1. /\ pc[t] = "busy"
        /\ Goto(t, IF Busy(call[t]) \/ call[t].path \notin names THEN "give" ELSE "lfs")
        /\ UNCHANGED <<efs, pathOf, names, handle, owner, depth, call, fault, committed>>
    BY DEF BusyCheck, At, volume, lock
  <1>2. TypeOK
    BY DEF VolumeInv
  <1>3. PICK c : /\ c = call[t] /\ call = [call EXCEPT ![t] = c]
                 /\ GoodCall(c) /\ AtLabel(c, "busy") /\ Progress(c, "busy")
    BY <1>1, Here
  <1>4. /\ c.op \in {"unlink", "rename"} /\ c.op \notin FdOps \cup {"truncate"}
        /\ ~OpenSection(c) /\ ~CloseSection(c)
    BY <1>3 DEF AtLabel, OpenSection, CloseSection, FdOps
  <1>5. SameVolume /\ SameVolume' /\ (Busy(c) <=> Busy(c)')
    BY <1>1, <1>3 DEF Progress, SameVolume, SameFiles, Busy
  <1>6. AtLabel(c, "give") /\ AtLabel(c, "lfs")
    BY <1>3 DEF AtLabel
  <1>7. CASE Busy(c) \/ c.path \notin names
    <2>1. PathEnded(c)'
      BY <1>5 DEF PathEnded, SameVolume, SameFiles
    <2>2. Progress(c, "give")'
      BY <1>4, <2>1 DEF Progress, Ended
    <2>3. Goto(t, "give")
      BY <1>1, <1>3, <1>7
    <2> QED BY <1>1, <1>2, <1>3, <1>6, <2>2, <2>3, InnerStep DEF TypeOK, Labels, lock
  <1>8. CASE ~(Busy(c) \/ c.path \notin names)
    <2>1. Progress(c, "lfs")'
      BY <1>1, <1>4, <1>5, <1>8 DEF Progress
    <2>2. Goto(t, "lfs")
      BY <1>1, <1>3, <1>8
    <2> QED BY <1>1, <1>2, <1>3, <1>6, <2>1, <2>2, InnerStep DEF TypeOK, Labels, lock
  <1> QED BY <1>7, <1>8

LEMMA MoveKeeps ==
  ASSUME VolumeInv, NEW t \in Tasks, RemoveOrMove(t)
  PROVE  VolumeInv'
  <1>1. /\ pc[t] = "lfs" /\ call[t].op \in {"unlink", "rename"} /\ Goto(t, "give")
        /\ names' \in {names, (names \ {call[t].path})
                                \cup (IF call[t].op = "rename" THEN {call[t].to} ELSE {})}
        /\ UNCHANGED <<efs, pathOf, handle, owner, depth, call, fault, committed>>
    BY DEF RemoveOrMove, At, lock
  <1>2. ~OpenSection(call[t]) /\ ~CloseSection(call[t])
    BY <1>1 DEF OpenSection, CloseSection
  <1>3. PICK c : /\ c = call[t] /\ call = [call EXCEPT ![t] = c]
                 /\ GoodCall(c) /\ ~OpenSection(c) /\ AtLabel(c, "give") /\ SameVolume
                 /\ c.op \in {"unlink", "rename"} => c.path \in names /\ ~Busy(c)
    BY <1>1, <1>2, AtLfs
  <1>4. Busy(c)' <=> Busy(c)
    BY <1>1 DEF Busy
  <1>5. PathEnded(c)'
    BY <1>1, <1>3, <1>4 DEF PathEnded, SameVolume, SameFiles
  <1>6. Progress(c, "give")'
    BY <1>1, <1>2, <1>3, <1>5 DEF Progress, Ended
  <1>7. TypeOK /\ names' \in SUBSET Paths
    BY <1>1, <1>3 DEF VolumeInv, TypeOK, GoodCall
  <1> QED BY <1>1, <1>3, <1>6, <1>7, InnerStep DEF TypeOK, Labels, lock

LEMMA VolumeNext == VolumeInv /\ [Next]_vars => VolumeInv'
  <1> SUFFICES ASSUME VolumeInv, [Next]_vars PROVE VolumeInv'
    OBVIOUS
  <1>1. CASE Next
    <2>1. PICK t \in Tasks : Start(t) \/ Take(t) \/ Work(t)
      BY <1>1 DEF Next
    <2>2. CASE Work(t)
      BY <2>2, GrowKeeps, ObjectKeeps, LinkKeeps, FileKeeps, FileFailsKeeps, NameKeeps,
         CheckKeeps, LfsKeeps, FlushKeeps, SeekFailsKeeps, CloseKeeps, BusyKeeps, MoveKeeps,
         GiveKeeps DEF Work
    <2> QED BY <2>1, <2>2, StartKeeps, TakeKeeps
  <1>2. CASE UNCHANGED vars
    BY <1>2, StopKeeps DEF vars, volume, lock, VolumeInv, TypeOK
  <1> QED BY <1>1, <1>2

(* Tables, handles, locals and the mutex keep their types, whatever the    *)
(* tasks share and whichever littlefs calls fail.                          *)
THEOREM VolumeTypeCorrect == Spec => []TypeOK
  <1>1. VolumeInv => TypeOK
    BY DEF VolumeInv
  <1> QED BY VolumeInit, VolumeNext, <1>1, PTL DEF Spec

(* No task closes the file object another task has given to littlefs, even *)
(* when both use one descriptor (the section of every call).               *)
THEOREM FilesInUseStayAllocated == Spec => []FileInUseAllocated
  <1>1. VolumeInv => FileInUseAllocated
    <2> SUFFICES ASSUME VolumeInv, NEW t \in Tasks, pc[t] = "lfs", call[t].file # NULL
                 PROVE  call[t].file \in efs.heap \cap Listed(efs)
      BY DEF FileInUseAllocated, At
    <2>1. PICK c : /\ c = call[t] /\ call = [call EXCEPT ![t] = c]
                   /\ GoodCall(c) /\ AtLabel(c, "lfs") /\ Progress(c, "lfs")
      BY Here
    <2>2. Ready(committed.efs)
      BY DEF VolumeInv
    <2>3. CASE OpenSection(c)
      <3>1. /\ c.file \in Files \ committed.efs.heap /\ efs = AllocateFd(committed.efs, c.file)
            /\ BelowLimit(committed.efs)
        BY <2>1, <2>3 DEF Progress, NewObject
      <3>2. /\ Ready(efs) /\ AllocatedFd(committed.efs) \in Occupied(efs)
            /\ efs.cache[AllocatedFd(committed.efs)] = c.file
        BY <2>2, <3>1, AllocateReady
      <3> QED BY <2>1, <3>2, SlotInUse
    <2>4. CASE ~OpenSection(c)
      <3>1. c.op \in FdOps \cup {"truncate"}
        BY <2>1, <2>4 DEF GoodCall, Call, OpenSection, OpenOps
      <3>2. c.fd \in Occupied(efs) /\ c.file = efs.cache[c.fd] /\ efs = committed.efs
        BY <2>1, <2>4, <3>1 DEF Progress, SameVolume
      <3> QED BY <2>1, <2>2, <3>2, SlotInUse
    <2> QED BY <2>3, <2>4
  <1> QED BY VolumeInit, VolumeNext, <1>1, PTL DEF Spec

(* Between sections the array, the list, the count and the heap agree.     *)
THEOREM FreeMeansConsistent == Spec => []TableConsistentWhenFree
  <1>1. VolumeInv => TableConsistentWhenFree
    <2> SUFFICES ASSUME VolumeInv, owner = NULL
                 PROVE  Consistent(efs)
      BY DEF TableConsistentWhenFree
    <2>1. \A t \in Tasks : pc[t] \in {"idle", "take"}
      BY Alone
    <2> QED BY <2>1 DEF VolumeInv, SameVolume, Ready
  <1> QED BY VolumeInit, VolumeNext, <1>1, PTL DEF Spec

-----------------------------------------------------------------------------
(***************************************************************************)
(* Atomicity.  When no two tasks use a handle at a time, the descriptor a  *)
(* call carries stays the one of its handle (SlotInv), and every step maps *)
(* to a step of FdTable: the end of a section to the call, the rest to     *)
(* nothing.                                                                *)
(***************************************************************************)
LEMMA SlotsInit == Init => SlotInv
  <1> SUFFICES ASSUME Init PROVE SlotInv
    OBVIOUS
  <1>1. \A t \in Tasks : call[t] = NoCall /\ handle[t] = Closed
    BY DEF Init, Slots
  <1>2. NoCall.slot = NULL /\ NoCall.op = "none"
    BY NoCallType DEF NewCall
  <1>3. \A t \in Tasks : SlotOK(t, call[t])
    BY <1>1, <1>2 DEF SlotOK, FdOps
  <1>4. Opened = {}
    BY DEF Opened, Init
  <1> QED BY <1>1, <1>2, <1>3, <1>4 DEF SlotInv

(* A step in which no handle changes.                                      *)
LEMMA SlotStep ==
  ASSUME VolumeInv, SlotInv, NEW t \in Tasks, UNCHANGED <<handle, committed>>,
         NEW e, call' = [call EXCEPT ![t] = e], SlotOK(t, e),
         \A u \in Tasks \ {t} : e.slot # NULL => e.slot # call[u].slot
  PROVE  SlotInv'
  <1>1. call'[t] = e /\ \A u \in Tasks \ {t} : call'[u] = call[u]
    BY DEF VolumeInv, TypeOK
  <1>2. \A u \in Tasks : SlotOK(u, call[u])'
    <2>1. SlotOK(t, call[t])'
      BY <1>1 DEF SlotOK
    <2>2. ASSUME NEW u \in Tasks \ {t}
          PROVE  SlotOK(u, call[u])'
      <3>1. SlotOK(u, call[u]) /\ call'[u] = call[u]
        BY <1>1 DEF SlotInv
      <3> QED BY <3>1 DEF SlotOK
    <2> QED BY <2>1, <2>2
  <1>3. \A u, v \in Tasks : u # v /\ call'[u].slot # NULL => call'[u].slot # call'[v].slot
    BY <1>1 DEF SlotInv
  <1>4. Opened' = Opened
    BY DEF Opened
  <1> QED BY <1>2, <1>3, <1>4 DEF SlotInv

LEMMA SlotSame ==
  ASSUME SlotInv, UNCHANGED <<handle, committed, call>>
  PROVE  SlotInv'
  <1>1. \A u \in Tasks : SlotOK(u, call[u])'
    BY DEF SlotInv, SlotOK
  <1>2. Opened' = Opened
    BY DEF Opened
  <1> QED BY <1>1, <1>2 DEF SlotInv

(* An idle task has no descriptor of its own.                              *)
LEMMA StartSlots ==
  ASSUME ~SharedHandles, VolumeInv, SlotInv, NEW t \in Tasks, Start(t)
  PROVE  SlotInv'
  <1>1. /\ \A g \in Handles : g \notin Tasks /\ g # NULL /\ g \in Slots
        /\ \A u \in Tasks : u \notin Handles /\ u # NULL /\ u \in Slots
    BY VolumeAssumption DEF Slots
  <1>2. pc[t] = "idle" /\ UNCHANGED <<handle, committed>>
    BY DEF Start, BeginOpen, BeginFd, BeginTruncate, BeginPath, BeginRename, Begin, At
  <1>3. handle[t] = Closed
    <2>1. call[t].op = "none" /\ SlotOK(t, call[t])
      BY <1>2 DEF VolumeInv, SlotInv, AtLabel
    <2> QED BY <2>1 DEF SlotOK
  <1>4. ASSUME NEW g \in Handles, NEW p \in Paths, NEW op \in {"open", "creat"},
               BeginOpen(t, g, p, op)
        PROVE  SlotInv'
    <2>1. PICK c : c = [NoCall EXCEPT !.op = op, !.slot = g, !.path = p]
      OBVIOUS
    <2>2. c.op = op /\ c.slot = g /\ op \notin FdOps
      BY <2>1, NoCallType DEF NewCall, Call, FdOps
    <2>3. call' = [call EXCEPT ![t] = c] /\ handle[g] = Closed
          /\ \A u \in Tasks : call[u].slot # g
      BY <1>4, <2>1 DEF BeginOpen, Begin, Local, InUse
    <2>4. SlotOK(t, c)
      BY <1>3, <2>2, <2>3 DEF SlotOK
    <2> QED BY <1>2, <2>2, <2>3, <2>4, SlotStep
  <1>5. ASSUME NEW g \in Handles, NEW op \in FdOps, BeginFd(t, g, op)
        PROVE  SlotInv'
    <2>1. PICK c : c = [NoCall EXCEPT !.op = op, !.slot = g, !.fd = handle[g].fd]
      OBVIOUS
    <2>2. c.op = op /\ c.slot = g /\ c.fd = handle[g].fd /\ op \notin {"open", "creat", "truncate"}
      BY <2>1, NoCallType DEF NewCall, Call, FdOps
    <2>3. call' = [call EXCEPT ![t] = c] /\ handle[g] # Closed
          /\ \A u \in Tasks : call[u].slot # g
      BY <1>5, <2>1 DEF BeginFd, Begin, Local, InUse
    <2>4. SlotOK(t, c)
      BY <1>3, <2>2, <2>3 DEF SlotOK
    <2> QED BY <1>2, <2>2, <2>3, <2>4, SlotStep
  <1>6. ASSUME NEW p \in Paths, BeginTruncate(t, p)
        PROVE  SlotInv'
    <2>1. PICK c : c = [NoCall EXCEPT !.op = "truncate", !.slot = t, !.path = p]
      OBVIOUS
    <2>2. c.op = "truncate" /\ c.slot = t /\ c.stage = 1 /\ "truncate" \notin FdOps
      BY <2>1, NoCallType DEF NewCall, Call, FdOps
    <2>3. call' = [call EXCEPT ![t] = c]
      BY <1>6, <2>1 DEF BeginTruncate, Begin, Local
    <2>4. SlotOK(t, c)
      BY <1>3, <2>2 DEF SlotOK
    <2>5. \A u \in Tasks \ {t} : call[u].slot # t
      <3> SUFFICES ASSUME NEW u \in Tasks \ {t} PROVE call[u].slot # t
        OBVIOUS
      <3>1. GoodCall(call[u]) /\ SlotOK(u, call[u])
        BY DEF VolumeInv, SlotInv
      <3>2. call[u].slot \in Handles \cup {u, NULL}
        BY <3>1 DEF GoodCall, SlotOK, Call, FdOps, OpenOps, PathOps
      <3> QED BY <1>1, <3>2
    <2> QED BY <1>2, <2>2, <2>3, <2>4, <2>5, SlotStep
  <1>7. ASSUME NEW c, NEW p, NEW q, NEW op \in PathOps \cup {"rename"},
               NewCall(c, op, NULL, NoFd, p, q), Begin(t, c)
        PROVE  SlotInv'
    <2>1. c.slot = NULL /\ c.op \notin FdOps \cup {"open", "creat", "truncate"}
      BY <1>7 DEF NewCall, PathOps, FdOps
    <2>2. SlotOK(t, c)
      BY <1>3, <2>1 DEF SlotOK
    <2>3. call' = [call EXCEPT ![t] = c]
      BY <1>7 DEF Begin, Local
    <2> QED BY <1>2, <2>1, <2>2, <2>3, SlotStep
  <1>8. ASSUME NEW p \in Paths, NEW op \in PathOps, BeginPath(t, p, op)
        PROVE  SlotInv'
    <2>1. PICK c : c = [NoCall EXCEPT !.op = op, !.path = p]
      OBVIOUS
    <2>2. NewCall(c, op, NULL, NoFd, p, NULL)
      BY <2>1, NoCallType DEF NewCall, Call
    <2> QED BY <1>7, <1>8, <2>1, <2>2 DEF BeginPath
  <1>9. ASSUME NEW p \in Paths, NEW q \in Paths, BeginRename(t, p, q)
        PROVE  SlotInv'
    <2>1. PICK c : c = [NoCall EXCEPT !.op = "rename", !.path = p, !.to = q]
      OBVIOUS
    <2>2. NewCall(c, "rename", NULL, NoFd, p, q)
      BY <2>1, NoCallType DEF NewCall, Call
    <2> QED BY <1>7, <1>9, <2>1, <2>2 DEF BeginRename
  <1> QED BY <1>4, <1>5, <1>6, <1>8, <1>9 DEF Start

(* A call whose locals changed keeps its slot.                             *)
LEMMA SlotLocals ==
  ASSUME SlotInv, NEW t \in Tasks, NEW e, e.op = call[t].op, e.slot = call[t].slot,
         \/ e.stage = call[t].stage /\ e.fd = call[t].fd /\ e.path = call[t].path
         \/ OpenSection(call[t]) /\ e.stage = call[t].stage
         \/ call[t].op = "write" /\ e.fd = call[t].fd
  PROVE  SlotOK(t, e)
  <1>1. SlotOK(t, call[t])
    BY DEF SlotInv
  <1>2. CASE e.stage = call[t].stage /\ e.fd = call[t].fd /\ e.path = call[t].path
    BY <1>1, <1>2 DEF SlotOK
  <1>3. CASE OpenSection(call[t]) /\ e.stage = call[t].stage
    BY <1>1, <1>3 DEF SlotOK, OpenSection, FdOps
  <1>4. CASE call[t].op = "write" /\ e.fd = call[t].fd
    BY <1>1, <1>4 DEF SlotOK, FdOps
  <1> QED BY <1>2, <1>3, <1>4

LEMMA InnerSlots ==
  ASSUME VolumeInv, SlotInv, NEW t \in Tasks, Take(t) \/ Work(t), ~Give(t)
  PROVE  SlotInv' /\ handle' = handle /\ committed' = committed
  <1>0. handle' = handle /\ committed' = committed
    BY DEF Take, Work, OpenGrow, OpenObject, OpenLink, OpenFile, OpenFileFails, OpenName, FdCheck,
           LfsCall, WriteFlush, SeekFails, CloseFile, CloseFileFails, BusyCheck, RemoveOrMove
  <1>1. CASE call' = call
    BY <1>0, <1>1, SlotSame
  <1>2. GoodCall(call[t]) /\ AtLabel(call[t], pc[t]) /\ SlotOK(t, call[t])
        /\ \A u \in Tasks \ {t} : call[t].slot # NULL => call[t].slot # call[u].slot
    BY DEF VolumeInv, SlotInv
  <1>3. ASSUME NEW e, call' = [call EXCEPT ![t] = e], SlotOK(t, e),
               e.slot = call[t].slot \/ e.slot = NULL
        PROVE  SlotInv'
    BY <1>0, <1>2, <1>3, SlotStep
  <1>4. CASE OpenObject(t) /\ call' # call
    <2>1. PICK f \in Files : Local(t, [call[t] EXCEPT !.fd = FreeSlot(efs), !.file = f])
      BY <1>4 DEF OpenObject
    <2>2. PICK e : e = [call[t] EXCEPT !.fd = FreeSlot(efs), !.file = f]
      OBVIOUS
    <2>3. e.op = call[t].op /\ e.slot = call[t].slot /\ e.stage = call[t].stage
      BY <1>2, <2>2 DEF GoodCall, Call
    <2>4. OpenSection(call[t])
      BY <1>2, <1>4 DEF OpenObject, At, AtLabel
    <2>5. SlotOK(t, e)
      BY <2>3, <2>4, SlotLocals
    <2>6. call' = [call EXCEPT ![t] = e]
      BY <2>1, <2>2 DEF Local
    <2> QED BY <1>0, <1>3, <2>3, <2>5, <2>6
  <1>5. CASE OpenFileFails(t)
    <2>1. PICK e : e = [call[t] EXCEPT !.fd = NoFd, !.file = NULL]
      OBVIOUS
    <2>2. e.op = call[t].op /\ e.slot = call[t].slot /\ e.stage = call[t].stage
      BY <1>2, <2>1 DEF GoodCall, Call
    <2> QED BY <1>3, <1>5, <2>1, <2>2, SlotLocals DEF OpenFileFails, Local
  <1>6. CASE FdCheck(t) /\ call' # call
    <2>1. PICK e : e = [call[t] EXCEPT !.file = efs.cache[call[t].fd]]
      OBVIOUS
    <2>2. e.op = call[t].op /\ e.slot = call[t].slot /\ e.stage = call[t].stage
          /\ e.fd = call[t].fd /\ e.path = call[t].path
      BY <1>2, <2>1 DEF GoodCall, Call
    <2>3. call' = [call EXCEPT ![t] = e]
      BY <1>6, <2>1 DEF FdCheck, Local
    <2>4. SlotOK(t, e)
      BY <2>2, SlotLocals
    <2> QED BY <1>0, <1>3, <2>2, <2>3, <2>4
  <1>7. CASE WriteFlush(t)
    <2>1. PICK e : e = WithStage(call[t], 2)
      OBVIOUS
    <2>2. call[t].op = "write" /\ call' = [call EXCEPT ![t] = e]
      BY <1>7, <2>1 DEF WriteFlush, Local, WithStage
    <2>3. e.op = call[t].op /\ e.slot = call[t].slot /\ e.fd = call[t].fd
      BY <1>2, <2>1, <2>2, CallStage DEF SameRequest
    <2>4. SlotOK(t, e)
      BY <2>2, <2>3, SlotLocals
    <2> QED BY <1>0, <1>3, <2>2, <2>3, <2>4
  <1>8. CASE SeekFails(t)
    <2>1. call' = [call EXCEPT ![t] = NoCall] /\ handle[t] = Closed
      BY <1>2, <1>8 DEF SeekFails, Local, SlotOK
    <2>2. NoCall.slot = NULL /\ NoCall.op = "none"
      BY NoCallType DEF NewCall
    <2>3. SlotOK(t, NoCall)
      BY <2>1, <2>2 DEF SlotOK, FdOps
    <2> QED BY <1>0, <1>3, <2>1, <2>2, <2>3
  <1>9. Take(t) \/ OpenGrow(t) \/ OpenLink(t) \/ OpenFile(t) \/ OpenName(t) \/ LfsCall(t)
          \/ CloseFile(t) \/ CloseFileFails(t) \/ BusyCheck(t) \/ RemoveOrMove(t)
          => call' = call
    BY DEF Take, OpenGrow, OpenLink, OpenFile, OpenName, LfsCall, CloseFile, CloseFileFails,
           BusyCheck, RemoveOrMove
  <1> QED BY <1>0, <1>1, <1>4, <1>5, <1>6, <1>7, <1>8, <1>9 DEF Work

(***************************************************************************)
(* The end of a section.                                                   *)
(***************************************************************************)

(* What sem_give leaves, whichever way the call goes on.                   *)
LEMMA GiveShape ==
  ASSUME VolumeInv, NEW t \in Tasks, Give(t)
  PROVE  \E c, e :
           /\ c = call[t] /\ GoodCall(c) /\ Ended(c)
           /\ call' = [call EXCEPT ![t] = e]
           /\ committed' = [efs |-> efs, pathOf |-> pathOf, names |-> names]
           /\ handle' = IF c.slot = NULL THEN handle
                        ELSE [handle EXCEPT ![c.slot] = Outcome(c)]
           /\ \/ MoreToDo(c) /\ e = NextStage(c)
              \/ Nested(c) /\ e = WithStage(c, 1)
              \/ ~MoreToDo(c) /\ ~Nested(c) /\ e = NoCall
  <1>1. PICK c : c = call[t]
    OBVIOUS
  <1>2. /\ pc[t] = "give"
        /\ committed' = [efs |-> efs, pathOf |-> pathOf, names |-> names]
        /\ handle' = IF c.slot = NULL THEN handle
                     ELSE [handle EXCEPT ![c.slot] = Outcome(c)]
    BY <1>1 DEF Give, At
  <1>3. GoodCall(c) /\ Ended(c)
    BY <1>1, <1>2 DEF VolumeInv, Progress
  <1>4. \E e : /\ call' = [call EXCEPT ![t] = e]
               /\ \/ MoreToDo(c) /\ e = NextStage(c)
                  \/ Nested(c) /\ e = WithStage(c, 1)
                  \/ ~MoreToDo(c) /\ ~Nested(c) /\ e = NoCall
    <2>1. CASE MoreToDo(c) /\ Local(t, [c EXCEPT !.stage = c.stage + 1, !.file = NULL])
      BY <2>1 DEF Local, NextStage
    <2>2. CASE Nested(c) /\ Local(t, [c EXCEPT !.stage = 1])
      BY <2>2 DEF Local, WithStage
    <2>3. CASE ~MoreToDo(c) /\ ~Nested(c) /\ Local(t, NoCall)
      BY <2>3 DEF Local
    <2> QED BY <1>1, <2>1, <2>2, <2>3 DEF Give
  <1> QED BY <1>1, <1>2, <1>3, <1>4

(* Handles and slots after a step that ends the section of call c.         *)
LEMMA EndSlots ==
  ASSUME VolumeInv, SlotInv, NEW t \in Tasks, NEW c, c = call[t], GoodCall(c), Ended(c),
         committed' = [efs |-> efs, pathOf |-> pathOf, names |-> names],
         NEW e, call' = [call EXCEPT ![t] = e], e.slot \in {c.slot, NULL},
         \A g \in Slots : g # c.slot => handle'[g] = handle[g],
         SlotOK(t, e)',
         c.slot # NULL => \/ handle'[c.slot] = Closed
                          \/ handle'[c.slot] = handle[c.slot]
                          \/ handle'[c.slot].fd < efs.cache_size
  PROVE  SlotInv'
  <1>1. call'[t] = e /\ \A u \in Tasks \ {t} : call'[u] = call[u]
    BY DEF VolumeInv, TypeOK
  <1>2. \A u, v \in Tasks : u # v /\ call'[u].slot # NULL => call'[u].slot # call'[v].slot
    BY <1>1 DEF SlotInv
  <1>3. c.slot \in Handles \cup {t, NULL}
    <2>1. SlotOK(t, c)
      BY DEF SlotInv
    <2> QED BY <2>1 DEF GoodCall, SlotOK, Call, FdOps, OpenOps, PathOps
  <1>4. \A u \in Tasks : SlotOK(u, call[u])'
    <2>1. SlotOK(t, call[t])'
      BY <1>1 DEF SlotOK
    <2>2. ASSUME NEW u \in Tasks \ {t}
          PROVE  SlotOK(u, call[u])'
      <3>1. SlotOK(u, call[u]) /\ call'[u] = call[u] /\ GoodCall(call[u])
        BY <1>1 DEF SlotInv, VolumeInv
      <3>2. handle'[u] = handle[u]
        BY <1>3, VolumeAssumption DEF Slots
      <3>3. call[u].slot # NULL => call[u].slot # c.slot
        BY DEF SlotInv
      <3>4. call[u].op \in FdOps \cup {"open", "creat"} =>
              handle'[call[u].slot] = handle[call[u].slot]
        <4>1. call[u].op \in FdOps \cup {"open", "creat"} =>
                call[u].slot \in Handles /\ call[u].slot # NULL
          BY <3>1, VolumeAssumption DEF SlotOK, Slots
        <4> QED BY <3>3, <4>1 DEF Slots
      <3> QED BY <3>1, <3>2, <3>4 DEF SlotOK
    <2> QED BY <2>1, <2>2
  <1>5. \A g \in Opened' : handle'[g].fd < committed'.efs.cache_size
    <2> SUFFICES ASSUME NEW g \in Opened' PROVE handle'[g].fd < efs.cache_size
      OBVIOUS
    <2>1. g \in Slots /\ handle'[g] # Closed /\ NULL \notin Slots
      BY VolumeAssumption DEF Opened
    <2>2. CASE handle'[g] = handle[g]
      <3>1. g \in Opened /\ handle[g].fd < committed.efs.cache_size
        BY <2>1, <2>2 DEF Opened, SlotInv
      <3>2. handle[g].fd \in Nat
        <4>1. UINT16_MAX \in Nat
          BY TableAssumption
        <4>2. handle[g].fd \in 0 .. UINT16_MAX
          BY <3>1 DEF VolumeInv, TypeOK, Opened
        <4> QED BY <4>1, <4>2
      <3>3. Ready(efs) /\ efs.cache_size >= committed.efs.cache_size /\ Ready(committed.efs)
        BY EndedReady DEF VolumeInv
      <3>4. efs.cache_size \in Nat /\ committed.efs.cache_size \in Nat
        BY <3>3, ReadyTypes
      <3> QED BY <2>2, <3>1, <3>2, <3>3, <3>4
    <2>3. CASE handle'[g] # handle[g]
      BY <2>1, <2>3
    <2> QED BY <2>2, <2>3
  <1> QED BY <1>2, <1>4, <1>5 DEF SlotInv

-----------------------------------------------------------------------------
(***************************************************************************)
(* The step of FdTable behind each section.                                *)
(***************************************************************************)
(* FdTable's copy of the table operators is the one used here.             *)
LEMMA SameGrow == \A u : Atomic!Grow(u) = Grow(u) /\ (Atomic!NeedsGrowth(u) <=> NeedsGrowth(u))
  BY DEF Atomic!Grow, Grow, Atomic!NeedsGrowth, NeedsGrowth, Atomic!NewSize, NewSize

LEMMA SameFreeSlot == \A u : Atomic!FreeSlot(u) = FreeSlot(u)
  BY DEF Atomic!FreeSlot, FreeSlot

LEMMA SameAllocated == \A u : Atomic!AllocatedFd(u) = AllocatedFd(u)
  BY SameGrow, SameFreeSlot DEF Atomic!AllocatedFd, AllocatedFd

LEMMA SameAllocate == \A u, f : Atomic!AllocateFd(u, f) = AllocateFd(u, f)
  <1>1. \A u, f : Atomic!Place(u, f) = Place(u, f)
    BY DEF Atomic!Place, Place, Atomic!FreeSlot, FreeSlot
  <1>2. \A u, f : Atomic!Link(u, f) = Link(u, f)
    BY DEF Atomic!Link, Link
  <1> QED BY <1>1, <1>2, SameGrow DEF Atomic!AllocateFd, AllocateFd, Atomic!Insert, Insert

LEMMA SameFree == \A u, fd : Atomic!FreeFd(u, fd) = FreeFd(u, fd)
  BY DEF Atomic!FreeFd, FreeFd, Atomic!RemoveAt, RemoveAt, Atomic!PositionOf, PositionOf,
         Atomic!Listed, Listed

LEMMA SameLookup == \A u, q, p : Atomic!HasFdByName(u, q, p) <=> HasFdByName(u, q, p)
  BY DEF Atomic!HasFdByName, HasFdByName, Atomic!Occupied, Occupied, Atomic!Matches, Matches,
         Atomic!Cardinality, Cardinality

LEMMA Mapped ==
  ASSUME TypeOK
  PROVE  /\ Atomic!Opened = Opened
         /\ \A g \in Opened : CallerHandle[g].fd = handle[g].fd
         /\ \A g \in Opened : handle[g].fd \in 0 .. UINT16_MAX
  <1>1. \A g \in Slots : handle[g] # Closed =>
          handle[g].fd \in 0 .. UINT16_MAX /\ handle[g].path \in Paths
    BY DEF TypeOK
  <1>2. \A g \in Slots : CallerHandle[g] = IF handle[g] = Closed THEN Closed
           ELSE [fd |-> handle[g].fd, path |-> handle[g].path, fresh |-> TRUE]
    BY DEF CallerHandle
  <1>3. \A g \in Slots : CallerHandle[g] = Closed <=> handle[g] = Closed
    BY <1>1, <1>2, VolumeAssumption
  <1>4. Atomic!Opened = Opened
    BY <1>3 DEF Atomic!Opened, Opened
  <1>5. \A g \in Opened : CallerHandle[g].fd = handle[g].fd /\ handle[g].fd \in 0 .. UINT16_MAX
    <2> SUFFICES ASSUME NEW g \in Opened
                 PROVE  CallerHandle[g].fd = handle[g].fd /\ handle[g].fd \in 0 .. UINT16_MAX
      OBVIOUS
    <2>1. g \in Slots /\ handle[g] # Closed
      BY DEF Opened
    <2>2. CallerHandle[g] = [fd |-> handle[g].fd, path |-> handle[g].path, fresh |-> TRUE]
      BY <1>2, <2>1
    <2>3. CallerHandle[g].fd = handle[g].fd
      BY <2>2
    <2> QED BY <1>1, <2>1, <2>3
  <1> QED BY <1>4, <1>5

LEMMA MappedOpen ==
  ASSUME NEW g \in Slots, NEW fd \in 0 .. UINT16_MAX, NEW p \in Paths, TypeOK,
         handle' = [handle EXCEPT ![g] = [fd |-> fd, path |-> p]]
  PROVE  CallerHandle' = [CallerHandle EXCEPT ![g] = [fd |-> fd, path |-> p, fresh |-> TRUE]]
  <1>1. handle'[g] = [fd |-> fd, path |-> p] /\ \A h \in Slots \ {g} : handle'[h] = handle[h]
    BY DEF TypeOK
  <1>2. Closed # [fd |-> fd, path |-> p]
    BY VolumeAssumption
  <1>3. handle'[g] # Closed /\ handle'[g].fd = fd /\ handle'[g].path = p
    BY <1>1, <1>2
  <1>4. CallerHandle'[g] = [fd |-> fd, path |-> p, fresh |-> TRUE]
    BY <1>3 DEF CallerHandle
  <1>5. \A h \in Slots \ {g} : CallerHandle'[h] = CallerHandle[h]
    BY <1>1 DEF CallerHandle
  <1> QED BY <1>4, <1>5, ZenonT(30) DEF CallerHandle

LEMMA MappedClose ==
  ASSUME NEW g \in Slots, TypeOK, handle' = [handle EXCEPT ![g] = Closed]
  PROVE  CallerHandle' = [CallerHandle EXCEPT ![g] = Closed]
  <1>1. handle'[g] = Closed /\ \A h \in Slots \ {g} : handle'[h] = handle[h]
    BY DEF TypeOK
  <1> QED BY <1>1 DEF CallerHandle

LEMMA MappedSame ==
  ASSUME handle' = handle PROVE CallerHandle' = CallerHandle
  BY DEF CallerHandle

(* What FdTable asks of a volume on which a file can be opened.            *)
LEMMA MappedRequest ==
  ASSUME VolumeInv, BelowLimit(committed.efs), NEW g \in Slots, handle[g] = Closed
  PROVE  Atomic!OpenRequest(g) /\ Atomic!CachePointerOK /\ Atomic!CanGrow
  <1>1. committed.efs.cache_size \in Nat
    BY ReadyTypes DEF VolumeInv
  <1>2. 0 \in DOMAIN committed.efs.cache /\ committed.efs.cache_size > 0
    BY <1>1 DEF VolumeInv, Ready
  <1>3. g \notin Atomic!Opened
    BY Mapped DEF VolumeInv, Opened
  <1> QED BY <1>2, <1>3 DEF Atomic!OpenRequest, Atomic!CachePointerOK, Atomic!CanGrow, BelowLimit

(* The end of a section that opens a file.                                 *)
LEMMA OpenMaps ==
  ASSUME VolumeInv, fault = "none", fault' = fault,
         NEW c, GoodCall(c), OpenSection(c), Ended(c), handle[c.slot] = Closed,
         committed' = [efs |-> efs, pathOf |-> pathOf, names |-> names],
         handle' = [handle EXCEPT ![c.slot] = Outcome(c)]
  PROVE  Atomic!Next \/ UNCHANGED Atomic!vars
  <1> DEFINE g == c.slot
             u == committed.efs
  <1>1. g \in Slots /\ c.path \in Paths /\ c.op \in OpenOps
    BY DEF GoodCall, OpenSection, OpenOps
  <1>2. BelowLimit(u) /\ OpenEnded(c) /\ TypeOK /\ Ready(u)
    BY DEF Ended, VolumeInv
  <1>3. Atomic!OpenRequest(g) /\ Atomic!CachePointerOK /\ Atomic!CanGrow
    BY <1>1, <1>2, MappedRequest
  <1>4. /\ committed'.efs = efs /\ committed'.pathOf = pathOf /\ committed'.names = names
    OBVIOUS
  <1>5. Outcome(c) = IF c.fd = NoFd THEN Closed ELSE [fd |-> c.fd, path |-> c.path]
    <2>1. ~CloseSection(c)
      BY DEF OpenSection, CloseSection
    <2> QED BY <2>1 DEF Outcome
  <1>6. CASE /\ NewObject(c) /\ efs = AllocateFd(u, c.file)
             /\ pathOf = [committed.pathOf EXCEPT ![c.file] = c.path]
             /\ NamesOpened(c)
    <2>1. /\ c.fd = AllocatedFd(u) /\ c.file \in Files \ u.heap
          /\ c.fd \in 0 .. UINT16_MAX /\ c.fd # NoFd
      BY <1>2, <1>6, AllocateReady DEF NewObject
    <2>2. CallerHandle' = [CallerHandle EXCEPT ![g] = [fd |-> c.fd, path |-> c.path, fresh |-> TRUE]]
      BY <1>1, <1>2, <1>5, <2>1, MappedOpen
    <2>3. PICK create \in BOOLEAN : create <=> c.op = "creat"
      OBVIOUS
    <2>4. Atomic!Open(g, c.path, create)
      BY <1>3, <1>4, <1>6, <2>1, <2>2, <2>3, SameAllocated, SameAllocate DEF Atomic!Open, NamesOpened
    <2> QED BY <1>1, <2>4 DEF Atomic!Next, Atomic!Running
  <1>7. c.fd = NoFd => CallerHandle' = CallerHandle
    <2>1. c.fd = NoFd => handle' = handle
      BY <1>1, <1>2, <1>5 DEF TypeOK
    <2> QED BY <2>1, MappedSame
  <1>8. CASE /\ c.fd = NoFd /\ pathOf = committed.pathOf
             /\ \E f \in Files \ committed.efs.heap :
                  efs = FreeFd(AllocateFd(committed.efs, f), AllocatedFd(committed.efs))
             /\ names = committed.names \/ (c.op = "creat" /\ NamesOpened(c))
    <2>1. PICK create \in BOOLEAN : create <=> c.op = "creat"
      OBVIOUS
    <2>2. Atomic!OpenRefused(g, c.path, create)
      BY <1>3, <1>4, <1>7, <1>8, <2>1, SameAllocated, SameAllocate, SameFree
         DEF Atomic!OpenRefused, NamesOpened
    <2> QED BY <1>1, <2>2 DEF Atomic!Next, Atomic!Running
  <1>9. CASE c.fd = NoFd /\ SameFiles /\ efs = Grow(committed.efs)
    <2>1. Atomic!OpenNoObject(g)
      BY <1>3, <1>4, <1>7, <1>9, SameGrow DEF Atomic!OpenNoObject, SameFiles
    <2> QED BY <1>1, <2>1 DEF Atomic!Next, Atomic!Running
  <1>10. CASE c.fd = NoFd /\ SameVolume
    BY <1>4, <1>7, <1>10 DEF Atomic!vars, SameVolume, SameFiles
  <1> QED BY <1>2, <1>6, <1>8, <1>9, <1>10 DEF OpenEnded

(* The end of a section that closes a file.                                *)
LEMMA CloseMaps ==
  ASSUME VolumeInv, fault = "none", fault' = fault,
         NEW c, GoodCall(c), CloseSection(c), Ended(c),
         c.slot \in Opened, handle[c.slot].fd = c.fd,
         committed' = [efs |-> efs, pathOf |-> pathOf, names |-> names],
         handle' = [handle EXCEPT ![c.slot] = Outcome(c)]
  PROVE  Atomic!Next \/ UNCHANGED Atomic!vars
  <1> DEFINE g == c.slot
             u == committed.efs
  <1>1. g \in Slots /\ ~OpenSection(c) /\ CloseEnded(c) /\ TypeOK /\ Ready(u)
    BY DEF Opened, CloseSection, OpenSection, Ended, VolumeInv
  <1>2. /\ committed'.efs = efs /\ committed'.pathOf = pathOf /\ committed'.names = names
    OBVIOUS
  <1>3. CallerHandle' = [CallerHandle EXCEPT ![g] = Closed]
    BY <1>1, MappedClose DEF Outcome
  <1>4. g \in Atomic!Opened /\ CallerHandle[g].fd = c.fd /\ c.fd # NoFd
    BY <1>1, Mapped, TableAssumption DEF NoFd
  <1>5. c.fd \in Occupied(u) => Atomic!GoodFd(c.fd)
    <2>1. u.cache_size \in Nat
      BY <1>1, ReadyTypes
    <2> QED BY <1>1, <2>1 DEF Ready, Occupied, Atomic!GoodFd, Atomic!PassesCheck, Atomic!AccessFault
  <1>6. CASE c.fd \in Occupied(u) /\ efs = FreeFd(u, c.fd)
    <2>1. Atomic!Close(g)
      BY <1>1, <1>2, <1>3, <1>4, <1>5, <1>6, SameFree DEF Atomic!Close, CloseEnded, SameFiles
    <2> QED BY <1>1, <2>1 DEF Atomic!Next, Atomic!Running
  <1>7. CASE efs = u /\ (c.fd \in Occupied(efs) \/ ~PassesCheck(c.fd))
    <2>1. Atomic!GoodFd(c.fd) \/ ~Atomic!PassesCheck(c.fd)
      BY <1>4, <1>5, <1>7 DEF PassesCheck, Atomic!PassesCheck
    <2>2. Atomic!CloseFails(g)
      BY <1>1, <1>2, <1>3, <1>4, <1>7, <2>1 DEF Atomic!CloseFails, CloseEnded, SameFiles
    <2> QED BY <1>1, <2>2 DEF Atomic!Next, Atomic!Running
  <1> QED BY <1>1, <1>6, <1>7 DEF CloseEnded

(* The end of a section of unlink or rename.                               *)
LEMMA PathMaps ==
  ASSUME VolumeInv, fault = "none", fault' = fault,
         NEW c, GoodCall(c), c.op \in {"unlink", "rename"}, Ended(c), handle' = handle,
         committed' = [efs |-> efs, pathOf |-> pathOf, names |-> names]
  PROVE  Atomic!Next \/ UNCHANGED Atomic!vars
  <1>1. /\ committed'.efs = efs /\ committed'.pathOf = pathOf /\ committed'.names = names
        /\ CallerHandle' = CallerHandle
    BY MappedSame
  <1>2. ~OpenSection(c) /\ ~CloseSection(c) /\ PathEnded(c) /\ c.path \in Paths
    BY DEF OpenSection, CloseSection, Ended, GoodCall, PathOps
  <1>3. CASE names = committed.names
    BY <1>1, <1>2, <1>3 DEF Atomic!vars, PathEnded
  <1>4. CASE /\ ~Busy(c) /\ c.path \in committed.names
             /\ names = (committed.names \ {c.path})
                          \cup (IF c.op = "rename" THEN {c.to} ELSE {})
    <2>1. efs = committed.efs /\ pathOf = committed.pathOf
      BY <1>2 DEF PathEnded
    <2>2. ~Atomic!HasFdByName(committed.efs, committed.pathOf, c.path)
      BY <1>4, <2>1, SameLookup DEF Busy
    <2>3. CASE c.op = "unlink"
      <3>1. Atomic!Unlink(c.path)
        BY <1>1, <1>4, <2>1, <2>2, <2>3 DEF Atomic!Unlink
      <3> QED BY <1>2, <3>1 DEF Atomic!Next, Atomic!Running
    <2>4. CASE c.op = "rename"
      <3>1. c.to \in Paths
        BY <2>4 DEF GoodCall
      <3>2. ~Atomic!HasFdByName(committed.efs, committed.pathOf, c.to)
        BY <1>4, <2>1, <2>4, SameLookup DEF Busy
      <3>3. Atomic!Rename(c.path, c.to)
        BY <1>1, <1>4, <2>1, <2>2, <2>4, <3>2 DEF Atomic!Rename
      <3> QED BY <1>2, <3>1, <3>3 DEF Atomic!Next, Atomic!Running
    <2> QED BY <2>3, <2>4
  <1> QED BY <1>2, <1>3, <1>4 DEF PathEnded

(* The handle of a call with a descriptor.                                 *)
LEMMA SlotOpen ==
  ASSUME VolumeInv, SlotInv, NEW t \in Tasks, NEW c, c = call[t],
         \/ c.op \in FdOps
         \/ c.op = "truncate" /\ c.stage # 1 /\ c.fd # NoFd
  PROVE  c.slot \in Opened /\ handle[c.slot].fd = c.fd
  <1>1. GoodCall(c) /\ SlotOK(t, c)
    BY DEF VolumeInv, SlotInv
  <1>2. CASE c.op \in FdOps
    BY <1>1, <1>2 DEF SlotOK, Opened, Slots
  <1>3. CASE c.op = "truncate" /\ c.stage # 1 /\ c.fd # NoFd
    <2>1. c.slot = t /\ t \in Slots /\ c.stage > 1
      BY <1>1, <1>3 DEF SlotOK, GoodCall, Call, Slots
    <2>2. handle[t] = [fd |-> c.fd, path |-> c.path]
      BY <1>1, <1>3, <2>1 DEF SlotOK
    <2>3. c.fd \in 0 .. UINT16_MAX /\ c.path \in Paths
      BY <1>1, <1>3 DEF GoodCall, Call, OpenOps
    <2>4. handle[t] # Closed
      BY <2>2, <2>3, VolumeAssumption
    <2> QED BY <2>1, <2>2, <2>4 DEF Opened
  <1> QED BY <1>2, <1>3

(* The end of a section is the call as FdTable has it, or invisible.       *)
LEMMA GiveMaps ==
  ASSUME VolumeInv, SlotInv, fault = "none", NEW t \in Tasks, Give(t)
  PROVE  Atomic!Next \/ UNCHANGED Atomic!vars
  <1>1. PICK c : /\ c = call[t] /\ GoodCall(c) /\ Ended(c)
                 /\ committed' = [efs |-> efs, pathOf |-> pathOf, names |-> names]
                 /\ handle' = IF c.slot = NULL THEN handle
                              ELSE [handle EXCEPT ![c.slot] = Outcome(c)]
    BY GiveShape
  <1>2. fault' = fault /\ SlotOK(t, c)
    BY <1>1 DEF Give, SlotInv
  <1>3. \A g \in Slots : g # NULL
    BY VolumeAssumption
  <1>4. CASE OpenSection(c)
    <2>1. c.slot \in Slots /\ handle[c.slot] = Closed
      BY <1>1, <1>2, <1>4 DEF OpenSection, GoodCall, SlotOK, OpenOps
    <2> QED BY <1>1, <1>2, <1>3, <1>4, <2>1, OpenMaps
  <1>5. CASE CloseSection(c)
    <2>1. c.op \in FdOps \/ (c.op = "truncate" /\ c.stage # 1 /\ c.fd # NoFd)
      BY <1>2, <1>5 DEF CloseSection, FdOps, SlotOK
    <2>2. c.slot \in Opened /\ handle[c.slot].fd = c.fd
      BY <1>1, <2>1, SlotOpen
    <2> QED BY <1>1, <1>2, <1>3, <1>5, <2>2, CloseMaps DEF Opened
  <1>6. CASE c.op \in {"unlink", "rename"}
    <2>1. c.slot = NULL
      BY <1>1, <1>6 DEF GoodCall, PathOps
    <2> QED BY <1>1, <1>2, <1>6, <2>1, PathMaps
  <1>7. CASE ~OpenSection(c) /\ ~CloseSection(c) /\ c.op \notin {"unlink", "rename"}
    <2>1. SameVolume
      BY <1>1, <1>7 DEF Ended
    <2>2. handle' = handle
      <3>1. Outcome(c) = handle[c.slot]
        BY <1>7 DEF Outcome
      <3>2. handle \in [Slots -> [fd : 0 .. UINT16_MAX, path : Paths] \cup {Closed}]
        BY DEF VolumeInv, TypeOK
      <3> QED BY <1>1, <3>1, <3>2
    <2>3. CallerHandle' = CallerHandle
      BY <2>2, MappedSame
    <2>4. committed'.efs = efs /\ committed'.pathOf = pathOf /\ committed'.names = names
      BY <1>1
    <2> QED BY <1>2, <2>1, <2>3, <2>4 DEF Atomic!vars, SameVolume, SameFiles
  <1> QED BY <1>4, <1>5, <1>6, <1>7

LEMMA GiveSlots ==
  ASSUME VolumeInv, SlotInv, NEW t \in Tasks, Give(t)
  PROVE  SlotInv'
  <1>1. PICK c, e :
           /\ c = call[t] /\ GoodCall(c) /\ Ended(c)
           /\ call' = [call EXCEPT ![t] = e]
           /\ committed' = [efs |-> efs, pathOf |-> pathOf, names |-> names]
           /\ handle' = IF c.slot = NULL THEN handle
                        ELSE [handle EXCEPT ![c.slot] = Outcome(c)]
           /\ \/ MoreToDo(c) /\ e = NextStage(c)
              \/ Nested(c) /\ e = WithStage(c, 1)
              \/ ~MoreToDo(c) /\ ~Nested(c) /\ e = NoCall
    BY GiveShape
  <1>2. SlotOK(t, c) /\ t \in Slots /\ NULL \notin Slots /\ t \notin Handles
    BY <1>1, VolumeAssumption DEF SlotInv, Slots
  <1>3. handle \in [Slots -> [fd : 0 .. UINT16_MAX, path : Paths] \cup {Closed}]
    BY DEF VolumeInv, TypeOK
  <1>4. c.slot \in Slots \cup {NULL}
    BY <1>1 DEF GoodCall, Call
  <1>5. \A g \in Slots : g # c.slot => handle'[g] = handle[g]
    BY <1>1, <1>3
  <1>6. c.slot # NULL => handle'[c.slot] = Outcome(c)
    BY <1>1, <1>3, <1>4
  <1>7. c.slot # NULL => \/ handle'[c.slot] = Closed
                         \/ handle'[c.slot] = handle[c.slot]
                         \/ handle'[c.slot].fd < efs.cache_size
    <2>1. CASE OpenSection(c)
      <3>1. ~CloseSection(c)
        BY <2>1 DEF OpenSection, CloseSection
      <3>2. Outcome(c) = IF c.fd = NoFd THEN Closed ELSE [fd |-> c.fd, path |-> c.path]
        BY <2>1, <3>1 DEF Outcome
      <3>3. c.fd # NoFd => c.fd < efs.cache_size
        <4> SUFFICES ASSUME c.fd # NoFd PROVE c.fd < efs.cache_size
          OBVIOUS
        <4>1. NewObject(c) /\ efs = AllocateFd(committed.efs, c.file) /\ BelowLimit(committed.efs)
          BY <1>1, <2>1 DEF Ended, OpenEnded
        <4>2. Ready(committed.efs) /\ c.file \in Files \ committed.efs.heap
          BY <4>1 DEF VolumeInv, NewObject
        <4>3. Ready(efs) /\ c.fd \in Occupied(efs)
          BY <4>1, <4>2, AllocateReady DEF NewObject
        <4>4. efs.cache_size \in Nat
          BY <4>3, ReadyTypes
        <4> QED BY <4>3, <4>4 DEF Ready, Occupied
      <3> QED BY <1>6, <3>2, <3>3
    <2>2. CASE ~OpenSection(c)
      BY <1>6, <2>2 DEF Outcome
    <2> QED BY <2>1, <2>2
  <1>8. ASSUME MoreToDo(c), e = NextStage(c)
        PROVE  e.slot = c.slot /\ SlotOK(t, e)'
    <2>1. c.op = "truncate" /\ (c.stage = 1 \/ (c.stage = 2 /\ c.fd # NoFd))
      BY <1>8 DEF MoreToDo, PassesCheck
    <2>2. e.op = c.op /\ e.slot = c.slot /\ e.path = c.path /\ e.stage = c.stage + 1 /\ e.fd = c.fd
      BY <1>1, <1>8, <2>1, CallNextStage DEF SameRequest
    <2>3. c.slot = t /\ t # NULL
      BY <1>2, <2>1 DEF SlotOK
    <2>4. c.fd = NoFd => handle'[t] = Closed
      <3>1. CASE c.stage = 1
        BY <1>6, <2>1, <2>3, <3>1 DEF Outcome, OpenSection, CloseSection
      <3> QED BY <2>1, <3>1
    <2>5. c.fd # NoFd => handle'[t] = [fd |-> c.fd, path |-> c.path]
      <3>1. CASE c.stage = 1
        BY <1>6, <2>1, <2>3, <3>1 DEF Outcome, OpenSection, CloseSection
      <3>2. CASE c.stage = 2
        BY <1>2, <1>6, <2>1, <2>3, <3>2 DEF Outcome, OpenSection, CloseSection, SlotOK
      <3> QED BY <2>1, <3>1, <3>2
    <2>6. e.op \notin FdOps \cup {"open", "creat"} /\ e.stage \in {2, 3}
          /\ (e.stage = 3 => c.fd # NoFd)
      BY <2>1, <2>2 DEF FdOps
    <2> QED BY <2>1, <2>2, <2>3, <2>4, <2>5, <2>6 DEF SlotOK
  <1>9. ASSUME Nested(c), e = WithStage(c, 1)
        PROVE  e.slot = c.slot /\ SlotOK(t, e)'
    <2>1. c.op = "write" /\ c.slot \in Handles /\ c.slot # NULL /\ c.slot # t
      BY <1>2, <1>9 DEF Nested, SlotOK, FdOps, Slots
    <2>2. e.op = c.op /\ e.slot = c.slot /\ e.fd = c.fd
      BY <1>1, <1>9, <2>1, CallStage DEF SameRequest
    <2>3. handle'[c.slot] = handle[c.slot] /\ handle'[t] = handle[t]
      BY <1>2, <1>5, <1>6, <2>1 DEF Outcome, OpenSection, CloseSection
    <2> QED BY <1>2, <2>1, <2>2, <2>3 DEF SlotOK
  <1>10. ASSUME ~MoreToDo(c), ~Nested(c), e = NoCall
         PROVE  e.slot = NULL /\ SlotOK(t, e)'
    <2>1. e.slot = NULL /\ e.op = "none"
      BY <1>10, NoCallType DEF NewCall
    <2>2. CASE c.op # "truncate"
      <3>1. c.slot # t /\ handle[t] = Closed
        BY <1>1, <1>2, <2>2 DEF GoodCall, SlotOK, Call, FdOps, OpenOps, PathOps
      <3>2. handle'[t] = Closed
        BY <1>2, <1>5, <3>1
      <3> QED BY <2>1, <3>2 DEF SlotOK, FdOps
    <2>3. CASE c.op = "truncate"
      <3>1. c.slot = t /\ t # NULL /\ c.stage \in {2, 3}
        BY <1>1, <1>2, <1>10, <2>3 DEF SlotOK, MoreToDo, GoodCall, Call
      <3>2. CASE c.stage = 3
        <4>1. Outcome(c) = Closed
          BY <2>3, <3>2 DEF Outcome, OpenSection, CloseSection
        <4> QED BY <1>6, <2>1, <3>1, <4>1 DEF SlotOK, FdOps
      <3>3. CASE c.stage = 2
        <4>1. handle'[t] = handle[t]
          BY <1>6, <2>3, <3>1, <3>3 DEF Outcome, OpenSection, CloseSection
        <4>2. c.fd = NoFd
          <5> SUFFICES ASSUME c.fd # NoFd PROVE FALSE
            OBVIOUS
          <5>1. t \in Opened /\ handle[t].fd = c.fd
            BY <1>1, <2>3, <3>1, <3>3, SlotOpen
          <5>2. c.fd > efs.cache_size /\ c.fd < committed.efs.cache_size
            BY <1>10, <2>3, <3>3, <5>1 DEF MoreToDo, PassesCheck, SlotInv
          <5>3. Ready(efs) /\ efs.cache_size >= committed.efs.cache_size /\ Ready(committed.efs)
            BY <1>1, EndedReady DEF VolumeInv
          <5>4. efs.cache_size \in Nat /\ committed.efs.cache_size \in Nat
            BY <5>3, ReadyTypes
          <5>5. c.fd \in Int
            BY <1>1, TableAssumption DEF GoodCall, Call, NoFd
          <5> QED BY <5>2, <5>3, <5>4, <5>5
        <4>3. handle[t] = Closed
          BY <1>2, <4>2 DEF SlotOK
        <4> QED BY <2>1, <4>1, <4>3 DEF SlotOK, FdOps
      <3> QED BY <3>1, <3>2, <3>3
    <2> QED BY <2>2, <2>3
  <1>11. e.slot \in {c.slot, NULL} /\ SlotOK(t, e)'
    BY <1>1, <1>8, <1>9, <1>10
  <1> QED BY <1>1, <1>5, <1>7, <1>11, EndSlots, ZenonT(30)

(* A descriptor check that ends in a fault is the BadAccess of FdTable.    *)
LEMMA FaultMaps ==
  ASSUME VolumeInv, SlotInv, fault = "none", NEW t \in Tasks, FdCheck(t)
  PROVE  Atomic!Next \/ UNCHANGED Atomic!vars
  <1>1. handle' = handle /\ committed' = committed /\ CallerHandle' = CallerHandle
    BY MappedSame DEF FdCheck
  <1>2. PICK c : c = call[t] /\ GoodCall(c) /\ AtLabel(c, "check") /\ Progress(c, "check")
    BY Here DEF FdCheck, At
  <1>3. CASE fault' = fault
    BY <1>1, <1>3 DEF Atomic!vars
  <1>4. CASE fault' # fault
    <2>1. efs = committed.efs
      BY <1>2 DEF Progress, SameVolume
    <2>2. Ready(efs) /\ efs.cache_size \in Nat /\ UINT16_MAX \in Nat
      BY <2>1, ReadyTypes DEF VolumeInv
    <2>3. \/ PassesCheck(c.fd) /\ c.fd \notin DOMAIN efs.cache /\ fault' = "out_of_bounds"
          \/ c.fd \in DOMAIN efs.cache \ Occupied(efs) /\ fault' = "null_deref"
      BY <1>2, <1>4 DEF FdCheck
    <2>4. c.fd # NoFd /\ PassesCheck(c.fd)
      BY <2>2, <2>3 DEF Ready, PassesCheck, NoFd
    <2>5. c.slot \in Opened /\ handle[c.slot].fd = c.fd
      <3>1. c.op \in FdOps \/ (c.op = "truncate" /\ c.stage # 1)
        BY <1>2 DEF AtLabel, OpenSection
      <3> QED BY <1>2, <2>4, <3>1, SlotOpen
    <2>6. c.slot \in Slots /\ c.slot \in Atomic!Opened /\ CallerHandle[c.slot].fd = c.fd
      BY <2>5, Mapped DEF VolumeInv, Opened
    <2>7. Atomic!PassesCheck(c.fd)
      BY <2>1, <2>4 DEF PassesCheck, Atomic!PassesCheck
    <2>8. Atomic!AccessFault(c.fd) = fault' /\ fault' # "none"
      BY <2>1, <2>3 DEF Atomic!AccessFault, Occupied
    <2>9. Atomic!BadAccess(c.slot)
      BY <1>1, <2>6, <2>7, <2>8 DEF Atomic!BadAccess
    <2> QED BY <2>6, <2>9 DEF Atomic!Next, Atomic!Running
  <1> QED BY <1>3, <1>4

LEMMA AtomicInit == Init => Atomic!Init
  <1> SUFFICES ASSUME Init PROVE Atomic!Init
    OBVIOUS
  <1>1. /\ committed.efs = efs /\ committed.pathOf = pathOf /\ committed.names = names
    BY DEF Init
  <1>2. CallerHandle = [g \in Slots |-> Closed]
    BY DEF Init, CallerHandle
  <1>3. efs = Atomic!FreshCache(Atomic!EmptyTable, TRUE)
    BY DEF Init, Atomic!FreshCache, FreshCache, Atomic!EmptyTable
  <1> QED BY <1>1, <1>2, <1>3 DEF Init, Atomic!Init

LEMMA AtomicNext ==
  ASSUME ~SharedHandles, VolumeInv, SlotInv, [Next]_vars
  PROVE  SlotInv' /\ [Atomic!Next]_Atomic!vars
  <1>1. CASE Next
    <2>1. PICK t \in Tasks : fault = "none" /\ (Start(t) \/ Take(t) \/ Work(t))
      BY <1>1 DEF Next
    <2>2. CASE Start(t)
      <3>1. UNCHANGED <<handle, committed, fault>>
        BY <2>2 DEF Start, BeginOpen, BeginFd, BeginTruncate, BeginPath, BeginRename, Begin
      <3> QED BY <2>2, <3>1, StartSlots, MappedSame DEF Atomic!vars
    <2>3. CASE Give(t)
      BY <2>1, <2>3, GiveMaps, GiveSlots
    <2>4. CASE FdCheck(t) /\ ~Give(t)
      BY <2>1, <2>4, FaultMaps, InnerSlots DEF Work
    <2>5. CASE (Take(t) \/ Work(t)) /\ ~Give(t) /\ ~FdCheck(t)
      <3>1. SlotInv' /\ handle' = handle /\ committed' = committed
        BY <2>5, InnerSlots
      <3>2. fault' = fault
        BY <2>5 DEF Take, Work, OpenGrow, OpenObject, OpenLink, OpenFile, OpenFileFails, OpenName,
           LfsCall, WriteFlush, SeekFails, CloseFile, CloseFileFails, BusyCheck, RemoveOrMove
      <3> QED BY <3>1, <3>2, MappedSame DEF Atomic!vars
    <2> QED BY <2>1, <2>2, <2>3, <2>4, <2>5
  <1>2. CASE UNCHANGED vars
    BY <1>2, SlotSame, MappedSame DEF vars, Atomic!vars
  <1> QED BY <1>1, <1>2

(* The sections make the calls atomic: when no two tasks use a handle at   *)
(* the same time, the volume as the last sem_give left it goes through the *)
(* states of FdTable, whatever tasks, handles, paths and sizes there are.  *)
THEOREM VolumeImplementsFdTable ==
  ASSUME ~SharedHandles
  PROVE  Spec => ImplementsFdTable
  <1>1. Init => VolumeInv /\ SlotInv /\ Atomic!Init
    BY VolumeInit, SlotsInit, AtomicInit
  <1>2. VolumeInv /\ SlotInv /\ [Next]_vars
          => VolumeInv' /\ SlotInv' /\ [Atomic!Next]_Atomic!vars
    BY VolumeNext, AtomicNext
  <1> QED BY <1>1, <1>2, PTL DEF Spec, ImplementsFdTable, Atomic!Spec
=============================================================================
