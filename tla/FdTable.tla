------------------------------ MODULE FdTable -------------------------------
(***************************************************************************)
(* One mounted volume as its callers see it when every VFS call runs to    *)
(* its end under efs->lock: open, close, the calls that only use a         *)
(* descriptor, unlink and rename, and the format of the volume.            *)
(*                                                                         *)
(* The VFS layer is external: a table of handles, each remembering the     *)
(* descriptor the driver returned.  It hands the driver only descriptors   *)
(* it holds, and forgets a handle whatever close returns.                  *)
(*                                                                         *)
(* littlefs is external: it may refuse any call with an error, and names   *)
(* is the set of files it stores (regular files of one directory).         *)
(***************************************************************************)
EXTENDS FdTableOps

CONSTANTS
  Handles,           (* descriptors of the VFS layer                        *)
  Closed,            (* a handle that is not open                           *)
  FormatWhileOpen,   (* do callers format a volume with open files?         *)
  MountAllocFails    (* may the unchecked calloc of a remount fail?         *)

ASSUME CallerAssumption ==
  /\ Paths # {}
  /\ FormatWhileOpen \in BOOLEAN
  /\ MountAllocFails \in BOOLEAN
  /\ \A fd \in 0 .. UINT16_MAX, p \in Paths, b \in BOOLEAN :
       Closed \notin {[fd |-> fd, path |-> p, fresh |-> b], [fd |-> fd, path |-> p]}

VARIABLES
  efs,               (* the descriptor table of the volume                  *)
  pathOf,            (* the path (and hash) stored in each file object      *)
  mounted,           (* is the littlefs instance mounted?                   *)
  names,             (* files littlefs stores                               *)
  handle,            (* handle[g]: Closed or [fd, path, fresh]; fresh means *)
                     (* opened since the last format                        *)
  fault              (* first access through a bad descriptor, or "none"    *)

vars == <<efs, pathOf, mounted, names, handle, fault>>

(***************************************************************************)
(* Types and initial state: a volume that was just mounted.                *)
(***************************************************************************)
Faults == {"none", "null_deref", "out_of_bounds", "no_cache", "unmounted"}

HandleRecord == [fd : 0 .. UINT16_MAX, path : Paths, fresh : BOOLEAN]

TypeOK ==
  /\ efs \in Table
  /\ pathOf \in [Files -> Paths]
  /\ mounted \in BOOLEAN
  /\ names \in SUBSET Paths
  /\ handle \in [Handles -> HandleRecord \cup {Closed}]
  /\ fault \in Faults

EmptyTable == [cache |-> <<>>, cache_size |-> 0, file |-> <<>>, fd_count |-> 0, heap |-> {}]

Init ==
  /\ efs = FreshCache(EmptyTable, TRUE)
  /\ pathOf = [f \in Files |-> CHOOSE p \in Paths : TRUE]
  /\ mounted = TRUE
  /\ names \in SUBSET Paths
  /\ handle = [g \in Handles |-> Closed]
  /\ fault = "none"

Opened == {g \in Handles : handle[g] # Closed}
Fresh  == {g \in Opened : handle[g].fresh}

(***************************************************************************)
(* vfs_littlefs_open.  The assertions on fd_count and cache_size are the   *)
(* guard: where they fail the program stops.  A cache the remount could    *)
(* not allocate is the fault "no_cache".                                   *)
(***************************************************************************)
OpenRequest(g) ==
  /\ g \notin Opened
  /\ efs.fd_count < UINT16_MAX
  /\ efs.cache_size < UINT16_MAX

CachePointerOK == NeedsGrowth(efs) \/ DOMAIN efs.cache # {}

(* Growing a cache of size 0 asks realloc for 0 bytes, which returns NULL. *)
CanGrow == efs.cache_size > 0

Open(g, p, create) ==
  /\ OpenRequest(g)
  /\ CachePointerOK
  /\ NeedsGrowth(efs) => CanGrow
  /\ create \/ p \in names
  /\ \E f \in Files \ efs.heap :
       /\ efs' = AllocateFd(efs, f)
       /\ pathOf' = [pathOf EXCEPT ![f] = p]
  /\ names' = names \cup {p}
  /\ handle' = [handle EXCEPT ![g] = [fd |-> AllocatedFd(efs), path |-> p, fresh |-> TRUE]]
  /\ UNCHANGED <<mounted, fault>>

(* realloc fails, or has nothing to allocate.                              *)
OpenNoCache(g) ==
  /\ OpenRequest(g)
  /\ NeedsGrowth(efs)
  /\ UNCHANGED vars

(* calloc of the file object fails: the larger cache is kept.              *)
OpenNoObject(g) ==
  /\ OpenRequest(g)
  /\ NeedsGrowth(efs) => CanGrow
  /\ efs' = Grow(efs)
  /\ UNCHANGED <<pathOf, mounted, names, handle, fault>>

(* littlefs refuses: the descriptor is allocated and freed again.          *)
OpenRefused(g, p, create) ==
  /\ OpenRequest(g)
  /\ CachePointerOK
  /\ NeedsGrowth(efs) => CanGrow
  /\ \E f \in Files \ efs.heap :
       efs' = FreeFd(AllocateFd(efs, f), AllocatedFd(efs))
  /\ names' \in {names} \cup (IF create THEN {names \cup {p}} ELSE {})
  /\ UNCHANGED <<pathOf, mounted, handle, fault>>

OpenNullCache(g) ==
  /\ OpenRequest(g)
  /\ ~CachePointerOK
  /\ fault' = "no_cache"
  /\ UNCHANGED <<efs, pathOf, mounted, names, handle>>

(***************************************************************************)
(* The check every call with a descriptor starts with, and what is behind  *)
(* it.  The check lets fd = cache_size through.                            *)
(***************************************************************************)
PassesCheck(fd) == ~(fd > efs.cache_size)

AccessFault(fd) ==
  IF fd \notin DOMAIN efs.cache THEN "out_of_bounds"
  ELSE IF efs.cache[fd] = NULL THEN "null_deref"
  ELSE "none"

GoodFd(fd) == PassesCheck(fd) /\ AccessFault(fd) = "none"

(* A call that looks up the descriptor and finds no file object there.     *)
BadAccess(g) ==
  /\ g \in Opened
  /\ PassesCheck(handle[g].fd)
  /\ AccessFault(handle[g].fd) # "none"
  /\ fault' = AccessFault(handle[g].fd)
  /\ UNCHANGED <<efs, pathOf, mounted, names, handle>>

(* close: littlefs succeeds and the descriptor is freed ...                *)
Close(g) ==
  /\ g \in Opened
  /\ GoodFd(handle[g].fd)
  /\ efs' = FreeFd(efs, handle[g].fd)
  /\ handle' = [handle EXCEPT ![g] = Closed]
  /\ UNCHANGED <<pathOf, mounted, names, fault>>

(* ... or fails, and close returns before esp_littlefs_free_fd; or the     *)
(* descriptor is beyond the cache and is refused with EBADF.               *)
CloseFails(g) ==
  /\ g \in Opened
  /\ ~PassesCheck(handle[g].fd) \/ GoodFd(handle[g].fd)
  /\ handle' = [handle EXCEPT ![g] = Closed]
  /\ UNCHANGED <<efs, pathOf, mounted, names, fault>>

(***************************************************************************)
(* unlink and rename.  Both refuse a path that some descriptor has open.   *)
(***************************************************************************)
Unlink(p) ==
  /\ mounted
  /\ p \in names
  /\ ~HasFdByName(efs, pathOf, p)
  /\ names' = names \ {p}
  /\ UNCHANGED <<efs, pathOf, mounted, handle, fault>>

(* Faulty variant: only the target of a rename is tested.                  *)
RenameTargetOnly(p, q) ==
  /\ mounted
  /\ p \in names
  /\ ~HasFdByName(efs, pathOf, q)
  /\ names' = (names \ {p}) \cup {q}
  /\ UNCHANGED <<efs, pathOf, mounted, handle, fault>>

Rename(p, q) ==
  /\ mounted
  /\ p \in names
  /\ ~HasFdByName(efs, pathOf, p)
  /\ ~HasFdByName(efs, pathOf, q)
  /\ names' = (names \ {p}) \cup {q}
  /\ UNCHANGED <<efs, pathOf, mounted, handle, fault>>

(* A path call on a volume that a failed format left unmounted.            *)
PathCallUnmounted ==
  /\ ~mounted
  /\ fault' = "unmounted"
  /\ UNCHANGED <<efs, pathOf, mounted, names, handle>>

(***************************************************************************)
(* format_from_efs on a registered volume.  It takes no lock and does not  *)
(* look at the open files: it frees them, so the handles that had them     *)
(* are no longer fresh.  cache_size > 0 is how it knows the volume is      *)
(* mounted.  Remounting without a format failure also makes a new cache.   *)
(***************************************************************************)
FormatRequest == FormatWhileOpen \/ Opened = {}

WasMounted == efs.cache_size > 0

Stale == [g \in Handles |-> IF handle[g] = Closed THEN Closed
                            ELSE [handle[g] EXCEPT !.fresh = FALSE]]

Unmounted == IF WasMounted THEN FreeFds(efs) ELSE efs

FormatAndRemount ==
  /\ FormatRequest
  /\ WasMounted
  /\ \E callocOk \in {TRUE} \cup (IF MountAllocFails THEN {FALSE} ELSE {}) :
       efs' = FreshCache(Unmounted, callocOk)
  /\ mounted' = TRUE
  /\ names' = {}
  /\ handle' = Stale
  /\ UNCHANGED <<pathOf, fault>>

(* The format of a volume an earlier format left unmounted succeeds and    *)
(* does not mount it.                                                      *)
FormatOnly ==
  /\ FormatRequest
  /\ ~WasMounted
  /\ names' = {}
  /\ UNCHANGED <<efs, pathOf, mounted, handle, fault>>

(* lfs_format or the remount fails: the volume stays unmounted.            *)
FormatFails ==
  /\ FormatRequest
  /\ efs' = Unmounted
  /\ mounted' = FALSE
  /\ names' \in {names, {}}
  /\ handle' = Stale
  /\ UNCHANGED <<pathOf, fault>>

-----------------------------------------------------------------------------
Running == fault = "none"

Next ==
  /\ Running
  /\ \/ \E g \in Handles, p \in Paths, create \in BOOLEAN :
          Open(g, p, create) \/ OpenRefused(g, p, create)
     \/ \E g \in Handles :
          OpenNoCache(g) \/ OpenNoObject(g) \/ OpenNullCache(g)
     \/ \E g \in Handles : BadAccess(g) \/ Close(g) \/ CloseFails(g)
     \/ \E p \in Paths : Unlink(p)
     \/ \E p, q \in Paths : Rename(p, q)
     \/ PathCallUnmounted
     \/ FormatAndRemount \/ FormatOnly \/ FormatFails

Spec == Init /\ [][Next]_vars

(***************************************************************************)
(* Properties.                                                             *)
(***************************************************************************)

(* The cache array, the linked list, fd_count and the heap always describe *)
(* the same set of open files: through growth, a failed allocation or      *)
(* open, a failed close and a format, whoever calls when.                  *)
TableConsistent == Consistent(efs)

(* A descriptor the driver handed out since the last format lies inside    *)
(* the cache, leads to an object of the path it was opened with, and       *)
(* belongs to one handle only.                                             *)
FreshHandlesLive ==
  /\ \A g \in Fresh : LET fd == handle[g].fd IN
       /\ fd \in Occupied(efs)
       /\ pathOf[efs.cache[fd]] = handle[g].path
  /\ \A g, h \in Fresh : handle[g].fd = handle[h].fd => g = h

(* No call reaches a descriptor through a null or missing cache entry when *)
(* the volume is only formatted with all its files closed.                 *)
NoFdFault == fault \in {"none", "unmounted"}

(* Neither unlink nor rename takes away the name of an open file.          *)
OpenNamesExist == \A g \in Fresh : handle[g].path \in names

(* The early exit of esp_littlefs_get_fd_by_name, which counts to          *)
(* fd_count, never hides an open file.                                     *)
LookupComplete ==
  \A p \in Paths :
    (\E i \in Occupied(efs) : Matches(pathOf, efs.cache[i], p)) => HasFdByName(efs, pathOf, p)

(* cache_size, which mount, format and free use as the "is mounted" flag,  *)
(* agrees with the state of littlefs.                                      *)
CacheSizeTellsMounted == mounted <=> efs.cache_size > 0

(* While a handle stays open its descriptor keeps leading to the same file *)
(* object, whatever other handles do and however often the cache moves.    *)
HandleKeepsObject ==
  [][\A g \in Fresh : (handle'[g] = handle[g]) =>
        efs'.cache[handle[g].fd] = efs.cache[handle[g].fd]]_vars

(* "FD %d must be <%d." (the error text of every descriptor check): a      *)
(* descriptor that passes the check is smaller than cache_size.            *)
CheckedFdIsInRange ==
  \A g \in Opened : PassesCheck(handle[g].fd) => handle[g].fd < efs.cache_size

(* The abstract promise: a slot no handle holds is a lost descriptor.      *)
VfsHandle == [g \in Handles |-> IF handle[g] = Closed THEN Closed
                                ELSE [fd |-> handle[g].fd, path |-> handle[g].path]]

LostFds == Occupied(efs) \ {handle[g].fd : g \in Opened}

Abstract == INSTANCE FdSpec WITH Fds    <- 0 .. UINT16_MAX - 1,
                                 handle <- VfsHandle,
                                 lost   <- LostFds

(* Every step of the table is a step of FdSpec or invisible to the VFS.    *)
ImplementsFdSpec == Abstract!Spec
=============================================================================
