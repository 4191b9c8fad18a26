------------------------------ MODULE Registry ------------------------------
(***************************************************************************)
(* The table _efs[] of volume contexts, the public functions that          *)
(* register, unregister, format and query a volume, and file calls that    *)
(* use the contexts, made by tasks that run at the same time.  Only        *)
(* esp_littlefs_init works under _efs_lock; the other functions read and   *)
(* write _efs[] without it.  A walk of the table reads a slot in one step  *)
(* and the context it found there in another, so other tasks may come in   *)
(* between.  A file call has the context from the VFS layer and works      *)
(* under the lock of the volume; what it does there is the subject of      *)
(* module VolumeLock.                                                      *)
(*                                                                         *)
(* A configuration stands for esp_vfs_littlefs_conf_t: a device and a base *)
(* path of its own.  A context (esp_littlefs_t) is an element of Ctxs.     *)
(* The VFS layer, littlefs, the partition table and the heap are external: *)
(* they may refuse any request.                                            *)
(***************************************************************************)
EXTENDS Naturals, FiniteSets

CONSTANTS
  Tasks,             (* FreeRTOS tasks                                      *)
  Confs,             (* configurations                                      *)
  Devices,           (* partitions, SD cards and block devices              *)
  Device,            (* Device[c]: the device of a configuration            *)
  Unchecked,         (* configurations that name no partition, or an SD     *)
                     (* card: esp_littlefs_init looks for no duplicate      *)
  NoMount,           (* configurations with dont_mount                      *)
  BlockDevs,         (* devices whose handle the driver releases            *)
  Ctxs,              (* contexts the heap can hold                          *)
  NULL,              (* the null pointer                                    *)
  MAX,               (* CONFIG_LITTLEFS_MAX_PARTITIONS                      *)
  Overlap,           (* sets of operations that callers run at the same     *)
                     (* time on different devices                           *)
  OneDevice,         (* and on one device                                   *)
  VfsRefuses         (* whether the VFS layer may refuse a registration     *)

Ops == {"register", "unregister", "format", "query", "file"}

ASSUME RegistryAssumption ==
  /\ Devices # {} /\ Device \in [Confs -> Devices]
  /\ Unchecked \subseteq Confs /\ NoMount \subseteq Confs
  /\ BlockDevs \subseteq Devices
  /\ NULL \notin Ctxs \cup Tasks \cup Confs
  /\ MAX \in Nat \ {0}
  /\ Overlap \subseteq SUBSET Ops
  /\ OneDevice \subseteq SUBSET Ops
  /\ IsFiniteSet(Tasks)
  /\ VfsRefuses \in BOOLEAN

VARIABLES
  slot,              (* _efs[]                                              *)
  heap,              (* contexts allocated and not freed                    *)
  ctx,               (* ctx[c]: device, mounted (cache_size > 0), base      *)
                     (* path, and who holds the volume's lock               *)
  vfs,               (* vfs[p]: the context the VFS has under a base path   *)
  released,          (* released[d]: the operation that released the handle *)
                     (* of a block device, or "no"                          *)
  efsLock,           (* _efs_lock: 0 (not created) or a mutex               *)
  made,              (* mutexes created for it                              *)
  holder,            (* holder[m]: the task that holds mutex m, or NULL     *)
  pc, call,          (* where each task is, with its arguments and locals   *)
  fault              (* first bad access, or "none"                         *)

data  == <<slot, heap, ctx, vfs, released>>
locks == <<efsLock, made, holder>>
vars  == <<slot, heap, ctx, vfs, released, efsLock, made, holder, pc, call, fault>>

Indices == 1 .. MAX
Mutexes == 1 .. Cardinality(Tasks)

(* The labels of esp_littlefs_init once it has the lock.                   *)
Inside == {"empty", "dup", "create", "publish", "mount", "relookup", "reformat",
           "remount", "finish", "fail", "done", "stuck"}

Labels == Inside \cup {"idle", "init", "make", "take", "base", "vfs", "lookup",
                       "unvfs", "free", "clear", "format", "cleanup", "deref", "use",
                       "enter", "leave"}

(* The arguments and locals of a call; i and p are those of the walks.     *)
NoCall == [op |-> "none", conf |-> NULL, idx |-> 0, efs |-> NULL, tmp |-> FALSE,
           i |-> 1, p |-> NULL]

TypeOK ==
  /\ slot \in [Indices -> Ctxs \cup {NULL}]
  /\ heap \in SUBSET Ctxs
  /\ ctx \in [Ctxs -> [dev : Devices, mounted : BOOLEAN, base : SUBSET Confs,
                     lock : Tasks \cup {NULL}]]
  /\ vfs \in [Confs -> Ctxs \cup {NULL}]
  /\ released \in [Devices -> Ops \cup {"no"}]
  /\ efsLock \in {0} \cup Mutexes
  /\ made \in {0} \cup Mutexes
  /\ holder \in [Mutexes -> Tasks \cup {NULL}]
  /\ pc \in [Tasks -> Labels]
  /\ call \in [Tasks -> [op : Ops \cup {"none"}, conf : Confs \cup {NULL},
                         idx : {0} \cup Indices, efs : Ctxs \cup {NULL}, tmp : BOOLEAN,
                         i : 1 .. MAX + 1, p : Ctxs \cup {NULL}]]
  /\ fault \in {"none", "null_deref", "use_after_free", "stale_entry"}

FreshCtx(d) == [dev |-> d, mounted |-> FALSE, base |-> {}, lock |-> NULL]

Init ==
  /\ slot = [i \in Indices |-> NULL]
  /\ heap = {}
  /\ ctx = [c \in Ctxs |-> FreshCtx(CHOOSE d \in Devices : TRUE)]
  /\ vfs = [p \in Confs |-> NULL]
  /\ released = [d \in Devices |-> "no"]
  /\ efsLock = 0 /\ made = 0 /\ holder = [m \in Mutexes |-> NULL]
  /\ pc = [t \in Tasks |-> "idle"]
  /\ call = [t \in Tasks |-> NoCall]
  /\ fault = "none"

At(t, label)   == pc[t] = label
Goto(t, label) == pc' = [pc EXCEPT ![t] = label]
Local(t, c)    == call' = [call EXCEPT ![t] = c]
Return(t)      == Goto(t, "idle") /\ Local(t, NoCall)
Crash(what)    == fault' = what /\ UNCHANGED <<pc, call>>

Dev(t) == Device[call[t].conf]

(***************************************************************************)
(* The callers.  What they overlap is their discipline; a handle that was  *)
(* released is not used again.  The VFS layer starts a file call with the  *)
(* context it has for the path or the descriptor.                          *)
(***************************************************************************)
Active == {t \in Tasks : ~At(t, "idle")}

(* What the table allows callers who want no surprise: nothing else on a   *)
(* device that is unregistered or formatted, no query while it is being    *)
(* registered; registrations may overlap, unregistrations of different     *)
(* devices too; and a device that is registered without a check for        *)
(* duplicates has one configuration.                                       *)
Changes == {"register", "unregister", "format"}

CallersTakeCare ==
  /\ \A s \in OneDevice : s \cap {"unregister", "format"} = {} /\ s # {"register", "query"}
  /\ \A s \in Overlap : s \subseteq Changes => s \subseteq {"register"} \/ s \subseteq {"unregister"}
  /\ \A c \in Unchecked, d \in Confs : Device[c] = Device[d] => c = d

(* What keeps the walks of the table from a context that is freed between  *)
(* two of their steps: no lookup while anything is unregistered, formatted *)
(* or registered, and registrations that overlap are not refused by the    *)
(* VFS layer, because the free that follows a refusal is not under         *)
(* _efs_lock.                                                              *)
CallersSerialise ==
  /\ \A s \in Overlap \cup OneDevice :
       s \cap Changes # {} => s \subseteq {"register"} \/ "file" \in s
  /\ {"register"} \in Overlap \cup OneDevice => ~VfsRefuses

Begin(t, op, c) ==
  /\ At(t, "idle")
  /\ \A u \in Active :
       {op, call[u].op} \in IF Dev(u) = Device[c] THEN OneDevice ELSE Overlap
  /\ released[Device[c]] = "no"
  /\ op = "register" => vfs[c] = NULL /\ \A u \in Active : call[u].conf # c
  /\ op = "file" => vfs[c] # NULL
  /\ Local(t, [NoCall EXCEPT !.op = op, !.conf = c,
                             !.efs = IF op = "file" THEN vfs[c] ELSE NULL])
  /\ Goto(t, CASE op = "register" -> "init"
               [] op = "file"     -> "enter"
               [] OTHER           -> "lookup")
  /\ UNCHANGED <<data, locks, fault>>

(***************************************************************************)
(* esp_littlefs_take_efs_lock: creation with a second check inside a       *)
(* critical section, then the mutex, which is not recursive.               *)
(***************************************************************************)
LockExists(t) ==
  /\ At(t, "init")
  /\ Goto(t, IF efsLock = 0 THEN "make" ELSE "take")
  /\ UNCHANGED <<data, locks, call, fault>>

(* Faulty variant: no second check inside the critical section.            *)
CreateLockUnchecked(t) ==
  /\ At(t, "make")
  /\ made' = made + 1 /\ efsLock' = made + 1
  /\ Goto(t, "take")
  /\ UNCHANGED <<data, holder, call, fault>>

CreateLock(t) ==
  /\ At(t, "make")
  /\ IF efsLock = 0
     THEN made' = made + 1 /\ efsLock' = made + 1
     ELSE UNCHANGED <<made, efsLock>>
  /\ Goto(t, "take")
  /\ UNCHANGED <<data, holder, call, fault>>

TakeLock(t) ==
  /\ At(t, "take")
  /\ holder[efsLock] = NULL
  /\ holder' = [holder EXCEPT ![efsLock] = t]
  /\ Goto(t, "empty")
  /\ UNCHANGED <<data, efsLock, made, call, fault>>

GiveLock == holder' = [holder EXCEPT ![efsLock] = NULL] /\ UNCHANGED <<efsLock, made>>

(***************************************************************************)
(* esp_littlefs_free(&_efs[i]).  A block device is released with its       *)
(* context, unless the caller has taken the handle out of it.              *)
(***************************************************************************)
FreeCtx(c, op) ==
  /\ heap' = heap \ {c}
  /\ released' = IF op # "none" /\ c # NULL /\ ctx[c].dev \in BlockDevs
                 THEN [released EXCEPT ![ctx[c].dev] = op] ELSE released

FreeSlot(i, op) ==
  /\ slot' = [slot EXCEPT ![i] = NULL]
  /\ FreeCtx(slot[i], op)

(***************************************************************************)
(* The walks of the lookups by label, partition, SD card and block device. *)
(* A turn of the loop reads a slot into p and then the device of the       *)
(* context at p, which may have been freed since.                          *)
(***************************************************************************)
Walking == {"lookup", "dup", "relookup"}

NextEntry(c) == [c EXCEPT !.i = @ + 1, !.p = NULL]
Rewound(c)   == [c EXCEPT !.i = 1, !.p = NULL]

ReadEntry(t) ==
  LET c == call[t] IN
  /\ pc[t] \in Walking /\ c.p = NULL /\ c.i \in Indices
  /\ Local(t, IF slot[c.i] = NULL THEN NextEntry(c) ELSE [c EXCEPT !.p = slot[c.i]])
  /\ UNCHANGED <<data, locks, pc, fault>>

(* Faulty variant: only a mounted volume counts.                           *)
MatchesMounted(t) == ctx[call[t].p].dev = Dev(t) /\ ctx[call[t].p].mounted

Matches(t) == ctx[call[t].p].dev = Dev(t)

PassEntry(t) ==
  /\ pc[t] \in Walking /\ call[t].p # NULL
  /\ IF call[t].p \in heap
     THEN ~Matches(t) /\ Local(t, NextEntry(call[t])) /\ UNCHANGED <<pc, fault>>
     ELSE Crash("stale_entry")
  /\ UNCHANGED <<data, locks>>

Found(t) == call[t].p # NULL /\ call[t].p \in heap /\ Matches(t)

(* Faulty variant: the last slot is not looked at.                         *)
NotFoundEarly(t) == call[t].p = NULL /\ call[t].i >= MAX

NotFound(t) == call[t].p = NULL /\ call[t].i \notin Indices

(***************************************************************************)
(* esp_littlefs_init.                                                      *)
(***************************************************************************)
(* Faulty variant: the index after the loop, when no slot is empty.        *)
FindEmptyPastEnd(t) ==
  LET c == call[t] IN
  /\ At(t, "empty")
  /\ IF c.i \in Indices /\ slot[c.i] # NULL
     THEN Local(t, NextEntry(c)) /\ UNCHANGED pc
     ELSE Local(t, [Rewound(c) EXCEPT !.idx = c.i]) /\ Goto(t, "dup")
  /\ UNCHANGED <<data, locks, fault>>

(* The first slot read as empty; others may be emptied meanwhile.          *)
FindEmpty(t) ==
  LET c == call[t] IN
  /\ At(t, "empty")
  /\ \/ c.i \in Indices /\ slot[c.i] # NULL /\ Local(t, NextEntry(c)) /\ UNCHANGED pc
     \/ /\ c.i \in Indices /\ slot[c.i] = NULL
        /\ Local(t, [Rewound(c) EXCEPT !.idx = c.i])
        /\ Goto(t, IF c.conf \in Unchecked THEN "create" ELSE "dup")
     \/ c.i \notin Indices /\ Local(t, Rewound(c)) /\ Goto(t, "fail")
  /\ UNCHANGED <<data, locks, fault>>

FindDuplicate(t) ==
  LET c == call[t] IN
  /\ At(t, "dup")
  /\ \/ Found(t) /\ Local(t, [Rewound(c) EXCEPT !.idx = c.i]) /\ Goto(t, "fail")
     \/ NotFound(t) /\ Local(t, Rewound(c)) /\ Goto(t, "create")
  /\ UNCHANGED <<data, locks, fault>>

(* init_efs, init_sdcard, init_blockdev: they may fail before the context  *)
(* is allocated (as when there is no such partition) or after it (no       *)
(* mutex, no memory, a bad geometry).                                      *)
Create(t) ==
  /\ At(t, "create")
  /\ \/ Goto(t, "fail") /\ UNCHANGED <<heap, ctx, call>>
     \/ \E c \in Ctxs \ heap :
          /\ heap' = heap \cup {c}
          /\ ctx' = [ctx EXCEPT ![c] = FreshCtx(Dev(t))]
          /\ Local(t, [call[t] EXCEPT !.efs = c])
          /\ \E next \in {"publish", "fail"} : Goto(t, next)
  /\ UNCHANGED <<slot, vfs, released, locks, fault>>

DontMount(t) == call[t].op = "format" \/ call[t].conf \in NoMount

Publish(t) ==
  /\ At(t, "publish")
  /\ slot' = [slot EXCEPT ![call[t].idx] = call[t].efs]
  /\ Goto(t, IF DontMount(t) THEN "done" ELSE "mount")
  /\ UNCHANGED <<heap, ctx, vfs, released, locks, call, fault>>

(* lfs_mount, at first and after a format.                                 *)
Mount(t) ==
  /\ pc[t] \in {"mount", "remount"}
  /\ IF call[t].efs \in heap
     THEN /\ \E next \in {"finish", "fail"} \cup (IF At(t, "mount") THEN {"relookup"} ELSE {}) :
               Goto(t, next)
          /\ UNCHANGED <<call, fault>>
     ELSE Crash("use_after_free")
  /\ UNCHANGED <<data, locks>>

(* format_from_efs succeeds and leaves the volume mounted if it was, or    *)
(* fails and leaves it unmounted (or as it was: the unmount may fail).     *)
FormatFromEfs(c, ok) ==
  IF ok THEN UNCHANGED ctx
  ELSE \E m \in {FALSE, ctx[c].mounted} : ctx' = [ctx EXCEPT ![c].mounted = m]

(* format_if_mount_failed: the format looks the device up again.  If it is *)
(* not there any more, it calls esp_littlefs_init, which needs the lock.   *)
LookUpAgain(t) ==
  LET c == call[t] IN
  /\ At(t, "relookup")
  /\ \/ Found(t) /\ Local(t, [c EXCEPT !.p = NULL]) /\ Goto(t, "reformat")
     \/ NotFound(t) /\ Local(t, Rewound(c)) /\ Goto(t, "stuck")
  /\ UNCHANGED <<data, locks, fault>>

Reformat(t) ==
  LET c == slot[call[t].i] IN
  /\ At(t, "reformat")
  /\ IF c = NULL THEN Crash("null_deref") /\ UNCHANGED ctx
     ELSE \E ok \in BOOLEAN :
            /\ FormatFromEfs(c, ok)
            /\ Local(t, Rewound(call[t]))
            /\ Goto(t, IF ok THEN "remount" ELSE "fail")
            /\ UNCHANGED fault
  /\ UNCHANGED <<slot, heap, vfs, released, locks>>

(* The first cache; with grow_on_mount the growth may fail after that.     *)
Finish(t) ==
  /\ At(t, "finish")
  /\ IF call[t].efs \in heap
     THEN /\ ctx' = [ctx EXCEPT ![call[t].efs].mounted = TRUE]
          /\ \E next \in {"done", "fail"} : Goto(t, next)
          /\ UNCHANGED <<call, fault>>
     ELSE Crash("use_after_free") /\ UNCHANGED ctx
  /\ UNCHANGED <<slot, heap, vfs, released, locks>>

(* Faulty variants: the slot is emptied whoever filled it, or the lock is  *)
(* not given.                                                              *)
InitFailsByIndex(t) ==
  LET c == call[t] IN
  /\ At(t, "fail")
  /\ IF c.idx # 0 THEN FreeSlot(c.idx, c.op) ELSE FreeCtx(c.efs, c.op) /\ UNCHANGED slot
  /\ GiveLock
  /\ IF c.op = "register" THEN Return(t)
     ELSE Goto(t, "cleanup") /\ UNCHANGED call
  /\ UNCHANGED <<ctx, vfs, fault>>

InitFailsKeepsLock(t) ==
  LET c == call[t] IN
  /\ At(t, "fail")
  /\ IF c.idx # 0 /\ slot[c.idx] = c.efs
     THEN FreeSlot(c.idx, c.op)
     ELSE FreeCtx(c.efs, c.op) /\ UNCHANGED slot
  /\ IF c.op = "register" THEN Return(t)
     ELSE Goto(t, "cleanup") /\ UNCHANGED call
  /\ UNCHANGED <<ctx, vfs, locks, fault>>

(* exit with an error: only a context this call published is taken out.    *)
InitFails(t) ==
  LET c == call[t] IN
  /\ At(t, "fail")
  /\ IF c.idx # 0 /\ slot[c.idx] = c.efs
     THEN FreeSlot(c.idx, c.op)
     ELSE FreeCtx(c.efs, c.op) /\ UNCHANGED slot
  /\ fault' = IF c.efs \in heap \cup {NULL} THEN fault ELSE "use_after_free"
  /\ GiveLock
  /\ IF c.op = "register" THEN Return(t)
     ELSE Goto(t, "cleanup") /\ UNCHANGED call
  /\ UNCHANGED <<ctx, vfs>>

InitDone(t) ==
  /\ At(t, "done")
  /\ GiveLock
  /\ Goto(t, IF call[t].op = "register" THEN "base" ELSE "format")
  /\ UNCHANGED <<data, call, fault>>

(***************************************************************************)
(* The rest of esp_vfs_littlefs_register, without the lock.                *)
(***************************************************************************)
SetBasePath(t) ==
  LET c == slot[call[t].idx] IN
  /\ At(t, "base")
  /\ IF c = NULL THEN Crash("null_deref") /\ UNCHANGED ctx
     ELSE /\ ctx' = [ctx EXCEPT ![c].base = @ \cup {call[t].conf}]
          /\ Goto(t, "vfs")
          /\ UNCHANGED <<call, fault>>
  /\ UNCHANGED <<slot, heap, vfs, released, locks>>

VfsRegister(t) ==
  /\ At(t, "vfs")
  /\ vfs' = [vfs EXCEPT ![call[t].conf] = slot[call[t].idx]]
  /\ Return(t)
  /\ UNCHANGED <<slot, heap, ctx, released, locks, fault>>

(* Faulty variant: the context is not freed.                               *)
VfsRegisterFailsLeaks(t) ==
  /\ At(t, "vfs") /\ VfsRefuses
  /\ Return(t)
  /\ UNCHANGED <<data, locks, fault>>

VfsRegisterFails(t) ==
  /\ At(t, "vfs") /\ VfsRefuses
  /\ FreeSlot(call[t].idx, "register")
  /\ Return(t)
  /\ UNCHANGED <<ctx, vfs, locks, fault>>

(***************************************************************************)
(* The end of the lookup that unregister, format and the queries start     *)
(* with.                                                                   *)
(***************************************************************************)
FindVolume(t) ==
  LET c == call[t] IN
  /\ At(t, "lookup")
  /\ \/ /\ Found(t)
        /\ Local(t, [Rewound(c) EXCEPT !.idx = c.i])
        /\ Goto(t, CASE c.op = "unregister" -> "unvfs"
                     [] c.op = "format"     -> "format"
                     [] OTHER               -> "deref")
     \/ NotFound(t) /\ c.op # "format" /\ Return(t)
     \/ /\ NotFound(t) /\ c.op = "format"
        /\ Local(t, [Rewound(c) EXCEPT !.tmp = TRUE])
        /\ Goto(t, "init")
  /\ UNCHANGED <<data, locks, fault>>

(***************************************************************************)
(* esp_vfs_littlefs_unregister and its variants.                           *)
(***************************************************************************)
VfsUnregister(t) ==
  LET c == slot[call[t].idx]
      entry == {p \in Confs : c # NULL /\ ctx[c].base = {p} /\ vfs[p] # NULL}
  IN
  /\ At(t, "unvfs")
  /\ IF c = NULL THEN Crash("null_deref") /\ UNCHANGED vfs
     ELSE /\ vfs' = [p \in Confs |-> IF p \in entry THEN NULL ELSE vfs[p]]
          /\ IF entry = {} THEN Return(t) ELSE Goto(t, "free") /\ UNCHANGED call
          /\ UNCHANGED fault
  /\ UNCHANGED <<slot, heap, ctx, released, locks>>

FreeVolume(t) ==
  /\ At(t, "free")
  /\ FreeSlot(call[t].idx, "unregister")
  /\ Goto(t, "clear")
  /\ UNCHANGED <<ctx, vfs, locks, call, fault>>

ClearSlot(t) ==
  /\ At(t, "clear")
  /\ slot' = [slot EXCEPT ![call[t].idx] = NULL]
  /\ Return(t)
  /\ UNCHANGED <<heap, ctx, vfs, released, locks, fault>>

(***************************************************************************)
(* esp_littlefs_format and its variants.  A temporary context is freed     *)
(* through its index, also when esp_littlefs_init has failed; the handle   *)
(* of a block device is taken out of it before.                            *)
(***************************************************************************)
FormatVolume(t) ==
  LET c == slot[call[t].idx] IN
  /\ At(t, "format")
  /\ IF c = NULL THEN Crash("null_deref") /\ UNCHANGED ctx
     ELSE /\ \E ok \in BOOLEAN : FormatFromEfs(c, ok)
          /\ Goto(t, "cleanup")
          /\ UNCHANGED <<call, fault>>
  /\ UNCHANGED <<slot, heap, vfs, released, locks>>

FormatCleanup(t) ==
  /\ At(t, "cleanup")
  /\ IF call[t].tmp /\ call[t].idx # 0
     THEN FreeSlot(call[t].idx, "none")
     ELSE UNCHANGED <<slot, heap, released>>
  /\ Return(t)
  /\ UNCHANGED <<ctx, vfs, locks, fault>>

(***************************************************************************)
(* esp_littlefs_mounted, esp_littlefs_info and their variants.             *)
(***************************************************************************)
ReadSlot(t) ==
  LET c == slot[call[t].idx] IN
  /\ At(t, "deref")
  /\ IF c = NULL THEN Crash("null_deref")
     ELSE Local(t, [call[t] EXCEPT !.efs = c]) /\ Goto(t, "use") /\ UNCHANGED fault
  /\ UNCHANGED <<data, locks>>

UseContext(t) ==
  /\ At(t, "use")
  /\ IF call[t].efs \in heap THEN Return(t) /\ UNCHANGED fault
     ELSE Crash("use_after_free")
  /\ UNCHANGED <<data, locks>>

(***************************************************************************)
(* A file call: sem_take and sem_give with the context of the VFS layer.   *)
(***************************************************************************)
EnterVolume(t) ==
  LET c == call[t].efs IN
  /\ At(t, "enter")
  /\ IF c \notin heap THEN Crash("use_after_free") /\ UNCHANGED ctx
     ELSE /\ ctx[c].lock = NULL
          /\ ctx' = [ctx EXCEPT ![c].lock = t]
          /\ Goto(t, "leave")
          /\ UNCHANGED <<call, fault>>
  /\ UNCHANGED <<slot, heap, vfs, released, locks>>

LeaveVolume(t) ==
  LET c == call[t].efs IN
  /\ At(t, "leave")
  /\ IF c \notin heap THEN Crash("use_after_free") /\ UNCHANGED ctx
     ELSE /\ ctx' = [ctx EXCEPT ![c].lock = NULL]
          /\ Return(t)
          /\ UNCHANGED fault
  /\ UNCHANGED <<slot, heap, vfs, released, locks>>

-----------------------------------------------------------------------------
Work(t) ==
  \/ LockExists(t) \/ CreateLock(t)
  \/ FindEmpty(t) \/ FindDuplicate(t) \/ Create(t) \/ Publish(t)
  \/ Mount(t) \/ LookUpAgain(t) \/ Reformat(t) \/ Finish(t) \/ InitFails(t) \/ InitDone(t)
  \/ SetBasePath(t) \/ VfsRegister(t) \/ VfsRegisterFails(t)
  \/ ReadEntry(t) \/ PassEntry(t) \/ FindVolume(t)
  \/ VfsUnregister(t) \/ FreeVolume(t) \/ ClearSlot(t)
  \/ FormatVolume(t) \/ FormatCleanup(t)
  \/ ReadSlot(t) \/ UseContext(t) \/ LeaveVolume(t)

Next ==
  /\ fault = "none"
  /\ \E t \in Tasks :
       \/ \E op \in Ops, c \in Confs : Begin(t, op, c)
       \/ TakeLock(t)
       \/ EnterVolume(t)
       \/ Work(t)

Spec == Init /\ [][Next]_vars

(* Tasks that can run do, and a waiting task gets the mutex in its turn.   *)
Fairness ==
  \A t \in Tasks : /\ WF_vars(fault = "none" /\ Work(t))
                   /\ SF_vars(fault = "none" /\ TakeLock(t))
                   /\ SF_vars(fault = "none" /\ EnterVolume(t))

FairSpec == Spec /\ Fairness

(***************************************************************************)
(* Properties.                                                             *)
(***************************************************************************)
Mounted == {p \in Confs : vfs[p] # NULL}

(* No function follows a slot that was emptied, and neither a function, a  *)
(* walk of the table nor a file call uses a context freed under it.        *)
NoFault == fault = "none"

(* Whatever callers overlap, only the walks of the table can meet a        *)
(* context that is freed (esp_littlefs_by_label and the other lookups read *)
(* it after they have read the slot); the index they find stays good.      *)
OnlyWalksFault == fault \in {"none", "stale_entry"}

(* The lazily created _efs_lock lets one task at a time into               *)
(* esp_littlefs_init.                                                      *)
OneInside == \A t, u \in Tasks : pc[t] \in Inside /\ pc[u] \in Inside => t = u

(* "ESP_ERR_INVALID_STATE if already mounted" (esp_littlefs.h): no device  *)
(* has two contexts.                                                       *)
OneContextPerDevice ==
  \A i, j \in Indices :
    (slot[i] # NULL /\ slot[j] # NULL /\ ctx[slot[i]].dev = ctx[slot[j]].dev) => i = j

(* When no call is running, the contexts that exist are those in the table *)
(* and those the VFS knows: whatever failed on the way left nothing.       *)
NothingLeftBehind ==
  Active = {} =>
    /\ heap = {slot[i] : i \in Indices} \ {NULL}
    /\ heap = {vfs[p] : p \in Mounted}

(* The context of every mounted volume is in the table, where the lookups  *)
(* find it by its device.                                                  *)
MountedIsListed ==
  \A p \in Mounted :
    \E i \in Indices : slot[i] = vfs[p] /\ ctx[slot[i]].dev = Device[p]

(* "already unregistered" (esp_littlefs.h) is what unregister answers when *)
(* its walk ends without a match: although the table may change under the  *)
(* walk, that never happens while a volume of the device is mounted.       *)
LookupsFindMounted ==
  [][\A t \in Tasks : At(t, "lookup") /\ NotFound(t) /\ ~At(t, "lookup")' =>
       \A p \in Mounted : Device[p] # Dev(t)]_vars

(* "leave pre-existing mounts untouched" (end of esp_littlefs_init): no    *)
(* step takes the context of a mounted volume out of the table.            *)
PreexistingMountsUntouched ==
  [][\A p \in Mounted : vfs[p] \in heap => vfs[p] \in heap']_vars

(* Every call returns.                                                     *)
CallsReturn == \A t \in Tasks : ~At(t, "idle") ~> At(t, "idle")

(* Registration as the callers see it, one step per mount and unmount.     *)
Mounts == INSTANCE MountSpec WITH mounts <- Mounted

ImplementsMountSpec == Mounts!Spec
=============================================================================
