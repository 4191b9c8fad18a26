----------------------------- MODULE VolumeLock -----------------------------
(***************************************************************************)
(* The tasks that call one mounted volume, step by step under the          *)
(* recursive mutex efs->lock.  A call is one or more sections: the task    *)
(* takes the lock, works on the descriptor table and on littlefs in        *)
(* several steps, and gives the lock.  truncate is three sections in a row *)
(* (open, truncate, close) with the lock free between them, and a write    *)
(* with CONFIG_LITTLEFS_FLUSH_FILE_EVERY_WRITE has the section of fsync    *)
(* nested in its own.                                                      *)
(*                                                                         *)
(* The VFS layer, external, translates its handle into the driver's        *)
(* descriptor before the call, so a task that waits for the lock already   *)
(* carries the number it will use.  A task that runs truncate holds a      *)
(* descriptor of its own, kept here like a handle named after the task.    *)
(*                                                                         *)
(* littlefs is external: it may refuse any request.                        *)
(***************************************************************************)
EXTENDS FdTableOps

CONSTANTS
  Tasks,             (* FreeRTOS tasks                                      *)
  Handles,           (* descriptors of the VFS layer                        *)
  Closed,            (* a handle that is not open                           *)
  FLUSH,             (* CONFIG_LITTLEFS_FLUSH_FILE_EVERY_WRITE              *)
  SharedHandles,     (* may two tasks use one handle at the same time?      *)
  SeekErrors,        (* may lfs_file_seek fail in pread and pwrite?         *)
  MaxDepth           (* bound on the count of the mutex                     *)

Slots == Handles \cup Tasks

ASSUME VolumeAssumption ==
  /\ Paths # {}
  /\ NULL \notin Tasks \cup Slots \cup Paths
  /\ Handles \cap Tasks = {}
  /\ {FLUSH, SharedHandles, SeekErrors} \subseteq BOOLEAN
  /\ MaxDepth \in Nat \ {0, 1}
  /\ \A fd \in 0 .. UINT16_MAX, p \in Paths :
       Closed \notin {[fd |-> fd, path |-> p], [fd |-> fd, path |-> p, fresh |-> TRUE]}

VARIABLES
  efs,               (* the descriptor table                                *)
  pathOf,            (* the path (and hash) stored in each file object      *)
  names,             (* files littlefs stores                               *)
  handle,            (* handle[g]: Closed or [fd, path]                     *)
  owner, depth,      (* the mutex: its holder, or NULL, and its count       *)
  pc,                (* where each task is                                  *)
  call,              (* the call each task is in: arguments and locals      *)
  fault,             (* first access through a bad descriptor, or "none"    *)
  committed          (* ghost: table, paths and names when a section last   *)
                     (* gave the lock                                       *)

volume == <<efs, pathOf, names>>
lock   == <<owner, depth>>
vars   == <<efs, pathOf, names, handle, owner, depth, pc, call, fault, committed>>

(***************************************************************************)
(* Calls.  "use" stands for read, lseek, fsync, fstat and ftruncate,       *)
(* "pread" for pread and pwrite, "info" for the path calls that leave the  *)
(* descriptor table alone (stat, mkdir, rmdir, opendir, readdir, utime,    *)
(* esp_littlefs_info).                                                     *)
(***************************************************************************)
FdOps   == {"use", "write", "pread", "fcntl", "close"}
OpenOps == {"open", "creat", "truncate"}
PathOps == {"unlink", "info"}
NoFd    == -1

Labels == {"idle", "take", "grow", "object", "link", "check", "busy", "lfs", "name", "give"}

NoCall == [op |-> "none", stage |-> 1, slot |-> NULL, fd |-> NoFd,
           path |-> NULL, to |-> NULL, file |-> NULL]

Call == [op    : FdOps \cup OpenOps \cup PathOps \cup {"rename", "none"},
         stage : 1 .. 3,
         slot  : Slots \cup {NULL},
         fd    : 0 .. UINT16_MAX \cup {NoFd},
         path  : Paths \cup {NULL},
         to    : Paths \cup {NULL},
         file  : Files \cup {NULL}]

OpenSection(c)  == c.op \in {"open", "creat"} \/ (c.op = "truncate" /\ c.stage = 1)
CloseSection(c) == c.op = "close" \/ (c.op = "truncate" /\ c.stage = 3)
Nested(c)       == c.op = "write" /\ c.stage = 2

FirstStep(c) ==
  CASE OpenSection(c)                -> "grow"
    [] c.op \in {"unlink", "rename"} -> "busy"
    [] c.op = "info"                 -> "lfs"
    [] OTHER                         -> "check"

TypeOK ==
  /\ efs \in Table
  /\ pathOf \in [Files -> Paths]
  /\ names \in SUBSET Paths
  /\ handle \in [Slots -> [fd : 0 .. UINT16_MAX, path : Paths] \cup {Closed}]
  /\ owner \in Tasks \cup {NULL}
  /\ depth \in 0 .. MaxDepth
  /\ pc \in [Tasks -> Labels]
  /\ call \in [Tasks -> Call]
  /\ fault \in {"none", "null_deref", "out_of_bounds"}
  /\ committed \in [efs : Table, pathOf : [Files -> Paths], names : SUBSET Paths]

Init ==
  /\ efs = FreshCache([cache |-> <<>>, cache_size |-> 0, file |-> <<>>,
                       fd_count |-> 0, heap |-> {}], TRUE)
  /\ pathOf = [f \in Files |-> CHOOSE p \in Paths : TRUE]
  /\ names \in SUBSET Paths
  /\ handle = [g \in Slots |-> Closed]
  /\ owner = NULL /\ depth = 0
  /\ pc = [t \in Tasks |-> "idle"]
  /\ call = [t \in Tasks |-> NoCall]
  /\ fault = "none"
  /\ committed = [efs |-> efs, pathOf |-> pathOf, names |-> names]

Opened == {g \in Slots : handle[g] # Closed}

At(t, label)  == pc[t] = label
Goto(t, label) == pc' = [pc EXCEPT ![t] = label]
Local(t, c)   == call' = [call EXCEPT ![t] = c]

(***************************************************************************)
(* The VFS layer starts a call.                                            *)
(***************************************************************************)
InUse(g) == \E t \in Tasks : call[t].slot = g

Begin(t, c) ==
  /\ At(t, "idle")
  /\ Local(t, c)
  /\ Goto(t, "take")
  /\ UNCHANGED <<volume, handle, lock, fault, committed>>

BeginOpen(t, g, p, op) ==
  /\ handle[g] = Closed /\ ~InUse(g)
  /\ Begin(t, [NoCall EXCEPT !.op = op, !.slot = g, !.path = p])

BeginFd(t, g, op) ==
  /\ handle[g] # Closed
  /\ SharedHandles \/ ~InUse(g)
  /\ Begin(t, [NoCall EXCEPT !.op = op, !.slot = g, !.fd = handle[g].fd])

BeginTruncate(t, p) == Begin(t, [NoCall EXCEPT !.op = "truncate", !.slot = t, !.path = p])
BeginPath(t, p, op) == Begin(t, [NoCall EXCEPT !.op = op, !.path = p])
BeginRename(t, p, q) == Begin(t, [NoCall EXCEPT !.op = "rename", !.path = p, !.to = q])

(***************************************************************************)
(* sem_take and sem_give on the recursive mutex.                           *)
(***************************************************************************)
(* Faulty variants: the lock is taken although another task has it, or     *)
(* cannot be taken twice.                                                  *)
SemTakeUnguarded(t) == depth < MaxDepth /\ owner' = t /\ depth' = depth + 1
SemTakeOnce(t)      == owner = NULL /\ owner' = t /\ depth' = depth + 1

SemTake(t) ==
  /\ owner \in {NULL, t} /\ depth < MaxDepth
  /\ owner' = t
  /\ depth' = depth + 1

SemGive(t) ==
  /\ depth' = depth - 1
  /\ owner' = IF depth = 1 THEN NULL ELSE owner

Take(t) ==
  /\ At(t, "take")
  /\ SemTake(t)
  /\ Goto(t, FirstStep(call[t]))
  /\ UNCHANGED <<volume, handle, call, fault, committed>>

(***************************************************************************)
(* The section of open: grow the cache, allocate the object, put it in     *)
(* array, list and count, open the file, store path and hash.              *)
(***************************************************************************)
OpenGrow(t) ==
  /\ At(t, "grow")
  /\ efs.fd_count < UINT16_MAX /\ efs.cache_size < UINT16_MAX
  /\ \/ efs' = Grow(efs) /\ Goto(t, "object")
     \/ NeedsGrowth(efs) /\ UNCHANGED efs /\ Goto(t, "give")
  /\ UNCHANGED <<pathOf, names, handle, lock, call, fault, committed>>

(* Faulty variant: the failure returns without sem_give.                   *)
OpenObjectLeaks(t) ==
  /\ At(t, "object")
  /\ \/ \E f \in Files \ efs.heap :
          /\ efs' = Place(efs, f)
          /\ Local(t, [call[t] EXCEPT !.fd = FreeSlot(efs), !.file = f])
          /\ Goto(t, "link")
     \/ Goto(t, "idle") /\ Local(t, NoCall) /\ UNCHANGED efs
  /\ UNCHANGED <<pathOf, names, handle, lock, fault, committed>>

OpenObject(t) ==
  /\ At(t, "object")
  /\ \/ \E f \in Files \ efs.heap :
          /\ efs' = Place(efs, f)
          /\ Local(t, [call[t] EXCEPT !.fd = FreeSlot(efs), !.file = f])
          /\ Goto(t, "link")
     \/ Goto(t, "give") /\ UNCHANGED <<efs, call>>
  /\ UNCHANGED <<pathOf, names, handle, lock, fault, committed>>

OpenLink(t) ==
  /\ At(t, "link")
  /\ efs' = Link(efs, call[t].file)
  /\ Goto(t, "lfs")
  /\ UNCHANGED <<pathOf, names, handle, lock, call, fault, committed>>

OpenFile(t) ==
  /\ At(t, "lfs") /\ OpenSection(call[t])
  /\ call[t].op = "creat" \/ call[t].path \in names
  /\ names' = names \cup {call[t].path}
  /\ Goto(t, "name")
  /\ UNCHANGED <<efs, pathOf, handle, lock, call, fault, committed>>

OpenFileFails(t) ==
  /\ At(t, "lfs") /\ OpenSection(call[t])
  /\ names' \in {names} \cup (IF call[t].op = "creat" THEN {names \cup {call[t].path}} ELSE {})
  /\ efs' = FreeFd(efs, call[t].fd)
  /\ Local(t, [call[t] EXCEPT !.fd = NoFd, !.file = NULL])
  /\ Goto(t, "give")
  /\ UNCHANGED <<pathOf, handle, lock, fault, committed>>

OpenName(t) ==
  /\ At(t, "name")
  /\ pathOf' = [pathOf EXCEPT ![call[t].file] = call[t].path]
  /\ Goto(t, "give")
  /\ UNCHANGED <<efs, names, handle, lock, call, fault, committed>>

(***************************************************************************)
(* The sections of the calls with a descriptor start with its check.  The  *)
(* descriptor of a failed open is -1, far beyond the cache as a uint32_t.  *)
(***************************************************************************)
PassesCheck(fd) == fd # NoFd /\ ~(fd > efs.cache_size)

FdCheck(t) ==
  LET c == call[t] IN
  /\ At(t, "check")
  /\ \/ /\ ~PassesCheck(c.fd)
        /\ Goto(t, "give")
        /\ UNCHANGED <<call, fault>>
     \/ /\ PassesCheck(c.fd) /\ c.fd \in Occupied(efs)
        /\ Local(t, [c EXCEPT !.file = efs.cache[c.fd]])
        /\ Goto(t, "lfs")
        /\ UNCHANGED fault
     \/ /\ PassesCheck(c.fd) /\ c.fd \notin DOMAIN efs.cache
        /\ fault' = "out_of_bounds"
        /\ UNCHANGED <<pc, call>>
     \/ /\ c.fd \in DOMAIN efs.cache \ Occupied(efs)
        /\ IF c.op = "fcntl"
           THEN Goto(t, "give") /\ UNCHANGED fault
           ELSE fault' = "null_deref" /\ UNCHANGED pc
        /\ UNCHANGED call
  /\ UNCHANGED <<volume, handle, lock, committed>>

(* One or more littlefs calls on the file object, or on a path.            *)
LfsCall(t) ==
  LET c == call[t] IN
  /\ At(t, "lfs")
  /\ \/ c.op \in {"use", "fcntl", "write", "pread", "info"}
     \/ c.op = "truncate" /\ c.stage = 2
  /\ Goto(t, "give")
  /\ UNCHANGED <<volume, handle, lock, call, fault, committed>>

(* A write that is flushed calls fsync with the lock held.                 *)
WriteFlush(t) ==
  /\ At(t, "lfs") /\ call[t].op = "write" /\ call[t].stage = 1 /\ FLUSH
  /\ Local(t, [call[t] EXCEPT !.stage = 2])
  /\ Goto(t, "take")
  /\ UNCHANGED <<volume, handle, lock, fault, committed>>

(* goto exit: past the sem_give.                                           *)
SeekFails(t) ==
  /\ At(t, "lfs") /\ call[t].op = "pread" /\ SeekErrors
  /\ Local(t, NoCall)
  /\ Goto(t, "idle")
  /\ UNCHANGED <<volume, handle, lock, fault, committed>>

CloseFile(t) ==
  /\ At(t, "lfs") /\ CloseSection(call[t])
  /\ efs' = FreeFd(efs, call[t].fd)
  /\ Goto(t, "give")
  /\ UNCHANGED <<pathOf, names, handle, lock, call, fault, committed>>

(* lfs_file_close fails: the descriptor stays allocated.                   *)
CloseFileFails(t) ==
  /\ At(t, "lfs") /\ CloseSection(call[t])
  /\ Goto(t, "give")
  /\ UNCHANGED <<volume, handle, lock, call, fault, committed>>

(***************************************************************************)
(* The sections of unlink and rename.                                      *)
(***************************************************************************)
Busy(c) ==
  \E p \in {c.path} \cup (IF c.op = "rename" THEN {c.to} ELSE {}) :
    HasFdByName(efs, pathOf, p)

BusyCheck(t) ==
  /\ At(t, "busy")
  /\ Goto(t, IF Busy(call[t]) \/ call[t].path \notin names THEN "give" ELSE "lfs")
  /\ UNCHANGED <<volume, handle, lock, call, fault, committed>>

RemoveOrMove(t) ==
  LET c == call[t] IN
  /\ At(t, "lfs") /\ c.op \in {"unlink", "rename"}
  /\ names' \in {names, (names \ {c.path}) \cup (IF c.op = "rename" THEN {c.to} ELSE {})}
  /\ Goto(t, "give")
  /\ UNCHANGED <<efs, pathOf, handle, lock, call, fault, committed>>

(***************************************************************************)
(* The end of a section.  The caller gets its descriptor, or loses it      *)
(* whatever close returned; truncate goes on with its next section, and    *)
(* the fsync of a flushed write returns into the write.                    *)
(***************************************************************************)
Outcome(c) ==
  CASE OpenSection(c)  -> IF c.fd = NoFd THEN Closed ELSE [fd |-> c.fd, path |-> c.path]
    [] CloseSection(c) -> Closed
    [] OTHER           -> handle[c.slot]

(* Faulty variant: truncate does not notice that it is done.               *)
MoreToDoAlways(c) == c.op = "truncate"

MoreToDo(c) == c.op = "truncate" /\ (c.stage = 1 \/ (c.stage = 2 /\ PassesCheck(c.fd)))

Give(t) ==
  LET c == call[t] IN
  /\ At(t, "give")
  /\ SemGive(t)
  /\ handle' = IF c.slot = NULL THEN handle ELSE [handle EXCEPT ![c.slot] = Outcome(c)]
  /\ committed' = [efs |-> efs, pathOf |-> pathOf, names |-> names]
  /\ \/ /\ MoreToDo(c)
        /\ Local(t, [c EXCEPT !.stage = c.stage + 1, !.file = NULL])
        /\ Goto(t, "take")
     \/ /\ Nested(c)
        /\ Local(t, [c EXCEPT !.stage = 1])
        /\ UNCHANGED pc
     \/ /\ ~MoreToDo(c) /\ ~Nested(c)
        /\ Local(t, NoCall)
        /\ Goto(t, "idle")
  /\ UNCHANGED <<volume, fault>>

-----------------------------------------------------------------------------
Start(t) ==
  \/ \E g \in Handles, p \in Paths, op \in {"open", "creat"} : BeginOpen(t, g, p, op)
  \/ \E g \in Handles, op \in FdOps : BeginFd(t, g, op)
  \/ \E p \in Paths : BeginTruncate(t, p)
  \/ \E p \in Paths, op \in PathOps : BeginPath(t, p, op)
  \/ \E p, q \in Paths : BeginRename(t, p, q)

Work(t) ==
  \/ OpenGrow(t) \/ OpenObject(t) \/ OpenLink(t)
  \/ OpenFile(t) \/ OpenFileFails(t) \/ OpenName(t)
  \/ FdCheck(t) \/ LfsCall(t) \/ WriteFlush(t) \/ SeekFails(t)
  \/ CloseFile(t) \/ CloseFileFails(t)
  \/ BusyCheck(t) \/ RemoveOrMove(t)
  \/ Give(t)

Next ==
  /\ fault = "none"
  /\ \E t \in Tasks : Start(t) \/ Take(t) \/ Work(t)

Spec == Init /\ [][Next]_vars

(* The scheduler runs every task that can run.  A waiting task is not      *)
(* passed over for ever: FreeRTOS wakes the waiters of a mutex in turn     *)
(* when their priorities are equal.  No task has to start a call.          *)
Fairness ==
  \A t \in Tasks : /\ WF_vars(fault = "none" /\ Work(t))
                   /\ SF_vars(fault = "none" /\ Take(t))

FairSpec == Spec /\ Fairness

(***************************************************************************)
(* Properties.                                                             *)
(***************************************************************************)
Holding(t) ==
  IF Nested(call[t]) THEN (IF At(t, "take") THEN 1 ELSE 2)
  ELSE IF pc[t] \in {"idle", "take"} THEN 0 ELSE 1

(* The mutex is held exactly by the sections that are running: a task that *)
(* is in none does not hold it, a flushed write holds it twice.            *)
LockMatchesSections ==
  /\ \A t \in Tasks : Holding(t) > 0 => owner = t
  /\ depth = IF owner = NULL THEN 0 ELSE Holding(owner)

(* A file object that a task fetched from the cache and is about to give   *)
(* to littlefs is still allocated and still in the table.                  *)
FileInUseAllocated ==
  \A t \in Tasks :
    (At(t, "lfs") /\ call[t].file # NULL) => call[t].file \in efs.heap \cap Listed(efs)

(* Whenever no section is running, array, list, count and heap agree, even *)
(* when tasks use, close and reopen the same descriptors.                  *)
TableConsistentWhenFree == owner = NULL => Consistent(efs)

(* Every call returns.  ("multiple tasks can use same volume",             *)
(* test_littlefs.c.)                                                       *)
CallsReturn == \A t \in Tasks : ~At(t, "idle") ~> At(t, "idle")

(* The handles as FdTable has them: no format makes one stale here.        *)
CallerHandle == [g \in Slots |-> IF handle[g] = Closed THEN Closed
                                 ELSE [fd |-> handle[g].fd, path |-> handle[g].path,
                                       fresh |-> TRUE]]

Atomic ==
  INSTANCE FdTable WITH
    Handles         <- Slots,
    FormatWhileOpen <- FALSE,
    MountAllocFails <- FALSE,
    efs             <- committed.efs,
    pathOf          <- committed.pathOf,
    names           <- committed.names,
    mounted         <- TRUE,
    fault           <- fault,
    handle          <- CallerHandle

(* The sections make every call atomic: the volume as it was when the lock *)
(* was last given behaves as FdTable, where each call is one step.         *)
ImplementsFdTable == Atomic!Spec
=============================================================================
