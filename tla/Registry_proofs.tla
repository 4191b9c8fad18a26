--------------------------- MODULE Registry_proofs --------------------------
(***************************************************************************)
(* Proofs about Registry, for any number of tasks, volumes and slots.      *)
(*                                                                         *)
(* Whatever callers overlap: the mutex that the first of several tasks     *)
(* creates keeps all of them apart (LockInv), and every step keeps the     *)
(* types and what the labels of a task say of its call (Base).             *)
(*                                                                         *)
(* If they take care (CallersTakeCare): every context has one owner        *)
(* (RegInv), from which no device has two contexts, no call leaves one     *)
(* behind, no lookup misses a mounted volume, only a walk of the table can *)
(* meet a freed context, and registration implements MountSpec.            *)
(*                                                                         *)
(* If, besides, no context is freed while another task walks the table     *)
(* (CallersSerialise): no freed context is used.                           *)
(***************************************************************************)
EXTENDS Registry, TLAPS, FiniteSetTheorems, WellFoundedInduction

(* The labels with _efs_lock created, and at which a task has it. *)
Created == Inside \cup {"take"}

LockInv ==
  /\ pc \in [Tasks -> Labels]
  /\ call = [t \in Tasks |-> call[t]]
  /\ holder \in [Mutexes -> Tasks \cup {NULL}]
  /\ efsLock \in {0, 1} /\ made = efsLock
  /\ \A t \in Tasks : pc[t] \in Created => efsLock = 1
  /\ \A t \in Tasks : pc[t] \in Inside <=> (1 \in Mutexes /\ holder[1] = t)

(* A step of task t that leaves the locks alone and takes t neither into   *)
(* nor out of the labels at which it has the mutex.                        *)
Stays(t) ==
  /\ UNCHANGED locks
  /\ \A u \in Tasks \ {t} : pc'[u] = pc[u] /\ call'[u] = call[u]
  /\ pc' \in [Tasks -> Labels]
  /\ call' = [u \in Tasks |-> call'[u]]
  /\ pc'[t] \in Inside <=> pc[t] \in Inside
  /\ pc'[t] = "take" => efsLock = 1

(* There is a mutex to create when there is a task. *)
LEMMA FirstMutex == ASSUME NEW t \in Tasks PROVE 1 \in Mutexes
  <1>1. Cardinality(Tasks) \in Nat /\ Cardinality(Tasks) # 0
    BY RegistryAssumption, FS_CardinalityType, FS_EmptySet DEF RegistryAssumption
  <1> QED BY <1>1 DEF Mutexes

LEMMA StaysKeeps ==
  ASSUME LockInv, NEW t \in Tasks, Stays(t)
  PROVE  LockInv'
  <1>1. efsLock' = efsLock /\ made' = made /\ holder' = holder
    BY DEF Stays, locks
  <1>2. \A u \in Tasks : pc'[u] \in Inside <=> pc[u] \in Inside
    BY DEF Stays
  <1>3. \A u \in Tasks : pc'[u] \in Created => efsLock = 1
    BY <1>2 DEF Stays, LockInv, Created
  <1> QED BY <1>1, <1>2, <1>3 DEF Stays, LockInv

(* How a task moves. *)
LEMMA GotoStays ==
  ASSUME LockInv, NEW t \in Tasks, UNCHANGED locks, NEW l \in Labels, Goto(t, l),
         l \in Inside <=> pc[t] \in Inside, l # "take",
         \/ call' = call
         \/ \E c : Local(t, c)
  PROVE  LockInv'
  <1>1. call' = [u \in Tasks |-> call'[u]] /\ \A u \in Tasks \ {t} : call'[u] = call[u]
    BY DEF LockInv, Local
  <1>2. pc' \in [Tasks -> Labels] /\ pc'[t] = l /\ \A u \in Tasks \ {t} : pc'[u] = pc[u]
    BY DEF LockInv, Goto
  <1>3. Stays(t)
    BY <1>1, <1>2 DEF Stays
  <1> QED BY <1>3, StaysKeeps

LEMMA StopStays ==
  ASSUME LockInv, UNCHANGED <<locks, pc>>,
         call' = call \/ \E t \in Tasks : \E c : Local(t, c)
  PROVE  LockInv'
  <1>1. call' = [t \in Tasks |-> call'[t]]
    BY DEF LockInv, Local
  <1> QED BY <1>1 DEF LockInv, locks

LEMMA ReturnStays ==
  ASSUME LockInv, NEW t \in Tasks, UNCHANGED locks, pc[t] \notin Inside, Return(t)
  PROVE  LockInv'
  <1>1. "idle" \in Labels /\ "idle" \notin Inside
    BY DEF Labels, Inside
  <1>2. Goto(t, "idle") /\ Local(t, NoCall)
    BY DEF Return
  <1> QED BY <1>1, <1>2, GotoStays

-----------------------------------------------------------------------------
LEMMA InitLock == Init => LockInv
  <1> SUFFICES ASSUME Init PROVE LockInv
    OBVIOUS
  <1>1. NULL \notin Tasks
    BY RegistryAssumption DEF RegistryAssumption
  <1> QED BY <1>1 DEF Init, LockInv, Created, Inside, Labels

LEMMA BeginLock ==
  ASSUME LockInv, NEW t \in Tasks, NEW op \in Ops, NEW c \in Confs, Begin(t, op, c)
  PROVE  LockInv'
  <1>1. UNCHANGED locks /\ pc[t] = "idle"
    BY DEF Begin, At
  <1>2. PICK l \in {"init", "enter", "lookup"} : Goto(t, l)
    BY DEF Begin, Ops
  <1>3. \E c1 : Local(t, c1)
    BY DEF Begin
  <1>4. l \in Labels /\ l \notin Inside /\ pc[t] \notin Inside /\ l # "take"
    BY <1>1, <1>2 DEF Inside, Labels
  <1> QED BY <1>1, <1>2, <1>3, <1>4, GotoStays

LEMMA LockExistsLock ==
  ASSUME LockInv, NEW t \in Tasks, LockExists(t)
  PROVE  LockInv'
  <1>1. pc[t] = "init" /\ UNCHANGED <<locks, call>>
    BY DEF LockExists, At
  <1>2. PICK l \in {"make", "take"} : Goto(t, l) /\ (l = "take" => efsLock = 1)
    BY DEF LockExists, LockInv
  <1>3. pc' \in [Tasks -> Labels] /\ pc'[t] = l /\ \A u \in Tasks \ {t} : pc'[u] = pc[u]
    BY <1>2 DEF LockInv, Goto, Labels
  <1>4. l \notin Inside /\ pc[t] \notin Inside
    BY <1>1, <1>2 DEF Inside
  <1>5. Stays(t)
    BY <1>1, <1>2, <1>3, <1>4 DEF Stays, LockInv
  <1> QED BY <1>5, StaysKeeps

(* Whoever comes second to the critical section finds the mutex of the     *)
(* first.                                                                  *)
LEMMA CreateLockLock ==
  ASSUME LockInv, NEW t \in Tasks, CreateLock(t)
  PROVE  LockInv'
  <1>1. pc[t] = "make" /\ Goto(t, "take") /\ UNCHANGED <<holder, call>>
    BY DEF CreateLock, At
  <1>2. efsLock' = 1 /\ made' = 1
    BY DEF CreateLock, LockInv
  <1>3. pc' \in [Tasks -> Labels] /\ pc'[t] = "take" /\ \A u \in Tasks \ {t} : pc'[u] = pc[u]
    BY <1>1 DEF LockInv, Goto, Labels
  <1>4. \A u \in Tasks : pc'[u] \in Inside <=> pc[u] \in Inside
    BY <1>1, <1>3 DEF Inside
  <1> QED BY <1>1, <1>2, <1>3, <1>4 DEF LockInv

LEMMA TakeLockLock ==
  ASSUME LockInv, NEW t \in Tasks, TakeLock(t)
  PROVE  LockInv'
  <1>1. /\ pc[t] = "take" /\ Goto(t, "empty") /\ UNCHANGED <<efsLock, made, call>>
        /\ holder[efsLock] = NULL /\ holder' = [holder EXCEPT ![efsLock] = t]
    BY DEF TakeLock, At
  <1>2. efsLock = 1 /\ 1 \in Mutexes
    BY <1>1, FirstMutex DEF LockInv, Created
  <1>3. pc' \in [Tasks -> Labels] /\ pc'[t] = "empty" /\ \A u \in Tasks \ {t} : pc'[u] = pc[u]
    BY <1>1 DEF LockInv, Goto, Labels, Inside
  <1>4. \A u \in Tasks : pc[u] \notin Inside
    BY <1>1, <1>2, RegistryAssumption DEF LockInv, RegistryAssumption
  <1>5. holder' \in [Mutexes -> Tasks \cup {NULL}] /\ holder'[1] = t
    BY <1>1, <1>2 DEF LockInv
  <1>6. \A u \in Tasks : pc'[u] \in Inside <=> u = t
    BY <1>3, <1>4 DEF Inside
  <1> QED BY <1>1, <1>2, <1>3, <1>5, <1>6 DEF LockInv

(* A task that gives the mutex leaves the labels at which it has it.       *)
LEMMA GiveLockLock ==
  ASSUME LockInv, NEW t \in Tasks, pc[t] \in Inside, GiveLock,
         NEW l \in Labels \ Created, Goto(t, l),
         call' = [u \in Tasks |-> call'[u]], \A u \in Tasks \ {t} : call'[u] = call[u]
  PROVE  LockInv'
  <1>1. efsLock = 1 /\ 1 \in Mutexes /\ holder[1] = t
    BY DEF LockInv, Created
  <1>2. /\ holder' \in [Mutexes -> Tasks \cup {NULL}] /\ holder'[1] = NULL
        /\ efsLock' = efsLock /\ made' = made
    BY <1>1 DEF GiveLock, LockInv
  <1>3. pc' \in [Tasks -> Labels] /\ pc'[t] = l /\ \A u \in Tasks \ {t} : pc'[u] = pc[u]
    BY DEF LockInv, Goto
  <1>4. \A u \in Tasks : pc'[u] \notin Inside
    BY <1>1, <1>3 DEF LockInv, Created
  <1>5. NULL \notin Tasks
    BY RegistryAssumption DEF RegistryAssumption
  <1> QED BY <1>1, <1>2, <1>3, <1>4, <1>5 DEF LockInv

LEMMA InitReturnsLock ==
  ASSUME LockInv, NEW t \in Tasks, InitFails(t) \/ InitDone(t)
  PROVE  LockInv'
  <1>1. pc[t] \in Inside /\ GiveLock
    BY DEF InitFails, InitDone, At, Inside
  <1>2. PICK l \in {"idle", "cleanup", "base", "format"} : Goto(t, l)
    BY DEF InitFails, InitDone, Return
  <1>3. l \in Labels \ Created
    BY <1>2 DEF Labels, Created, Inside
  <1>4. call' = call \/ Local(t, NoCall)
    BY DEF InitFails, InitDone, Return
  <1>5. call' = [u \in Tasks |-> call'[u]] /\ \A u \in Tasks \ {t} : call'[u] = call[u]
    BY <1>4 DEF LockInv, Local
  <1> QED BY <1>1, <1>2, <1>3, <1>5, GiveLockLock

(* The other steps of esp_littlefs_init.                                   *)
LEMMA InsideLock ==
  ASSUME LockInv, NEW t \in Tasks,
         \/ FindEmpty(t) \/ FindDuplicate(t) \/ Create(t) \/ Publish(t)
         \/ Mount(t) \/ LookUpAgain(t) \/ Reformat(t) \/ Finish(t)
  PROVE  LockInv'
  <1>1. pc[t] \in Inside /\ UNCHANGED locks
    BY DEF FindEmpty, FindDuplicate, Create, Publish, Mount, LookUpAgain, Reformat, Finish, At,
           Inside, data, locks
  <1>2. \/ pc' = pc /\ (call' = call \/ \E c : Local(t, c))
        \/ \E l \in Inside : Goto(t, l) /\ (call' = call \/ \E c : Local(t, c))
    <2>1. CASE FindEmpty(t)
      BY <2>1 DEF FindEmpty, Inside
    <2>2. CASE FindDuplicate(t)
      BY <2>2 DEF FindDuplicate, Inside
    <2>3. CASE Create(t)
      BY <2>3 DEF Create, Inside
    <2>4. CASE Publish(t)
      BY <2>4 DEF Publish, Inside
    <2>5. CASE Mount(t)
      BY <2>5 DEF Mount, Crash, Inside
    <2>6. CASE LookUpAgain(t) \/ Reformat(t)
      BY <2>6 DEF LookUpAgain, Reformat, Crash, Inside
    <2>7. CASE Finish(t)
      BY <2>7 DEF Finish, Crash, Inside
    <2> QED BY <2>1, <2>2, <2>3, <2>4, <2>5, <2>6, <2>7
  <1>3. \A l \in Inside : l \in Labels /\ l # "take"
    BY DEF Labels, Inside
  <1> QED BY <1>1, <1>2, <1>3, GotoStays, StopStays

(* The steps of the calls that do not need the mutex.                      *)
LEMMA OutsideLock ==
  ASSUME LockInv, NEW t \in Tasks,
         \/ SetBasePath(t) \/ VfsRegister(t) \/ VfsRegisterFails(t) \/ FindVolume(t)
         \/ VfsUnregister(t) \/ FreeVolume(t) \/ ClearSlot(t)
         \/ FormatVolume(t) \/ FormatCleanup(t)
         \/ ReadSlot(t) \/ UseContext(t) \/ EnterVolume(t) \/ LeaveVolume(t)
  PROVE  LockInv'
  <1> DEFINE Outside == {"idle", "init", "vfs", "unvfs", "free", "clear", "format", "cleanup",
                         "deref", "use", "leave"}
  <1>1. pc[t] \notin Inside /\ UNCHANGED locks
    BY DEF SetBasePath, VfsRegister, VfsRegisterFails, FindVolume, VfsUnregister, FreeVolume,
           ClearSlot, FormatVolume, FormatCleanup, ReadSlot, UseContext, EnterVolume, LeaveVolume,
           At, Inside, data, locks
  <1>2. \/ UNCHANGED <<pc, call>>
        \/ \E l \in Outside : Goto(t, l) /\ (call' = call \/ \E c : Local(t, c))
    <2>1. CASE SetBasePath(t)
      BY <2>1 DEF SetBasePath, Crash
    <2>2. CASE VfsRegister(t) \/ VfsRegisterFails(t)
      BY <2>2 DEF VfsRegister, VfsRegisterFails, Return
    <2>3. CASE FindVolume(t)
      BY <2>3 DEF FindVolume, Return
    <2>4. CASE VfsUnregister(t)
      BY <2>4 DEF VfsUnregister, Crash, Return
    <2>5. CASE FreeVolume(t) \/ ClearSlot(t)
      BY <2>5 DEF FreeVolume, ClearSlot, Return
    <2>6. CASE FormatVolume(t) \/ FormatCleanup(t)
      BY <2>6 DEF FormatVolume, FormatCleanup, Crash, Return
    <2>7. CASE ReadSlot(t) \/ UseContext(t)
      BY <2>7 DEF ReadSlot, UseContext, Crash, Return
    <2>8. CASE EnterVolume(t) \/ LeaveVolume(t)
      BY <2>8 DEF EnterVolume, LeaveVolume, Crash, Return
    <2> QED BY <2>1, <2>2, <2>3, <2>4, <2>5, <2>6, <2>7, <2>8
  <1>3. \A l \in Outside : l \in Labels /\ l \notin Inside /\ l # "take"
    BY DEF Labels, Inside
  <1> HIDE DEF Outside
  <1> QED BY <1>1, <1>2, <1>3, GotoStays, StopStays

(* A turn of a walk stays where it is.                                     *)
LEMMA WalkLock ==
  ASSUME LockInv, NEW t \in Tasks, ReadEntry(t) \/ PassEntry(t)
  PROVE  LockInv'
  <1>1. UNCHANGED <<locks, pc>> /\ (call' = call \/ \E c : Local(t, c))
    BY DEF ReadEntry, PassEntry, Crash
  <1> QED BY <1>1, StopStays

LEMMA NextLock == ASSUME LockInv, [Next]_vars PROVE LockInv'
  <1>1. CASE Next
    <2>1. PICK t \in Tasks :
            \/ \E op \in Ops, c \in Confs : Begin(t, op, c)
            \/ TakeLock(t) \/ EnterVolume(t) \/ Work(t)
      BY <1>1 DEF Next
    <2>2. CASE \E op \in Ops, c \in Confs : Begin(t, op, c)
      BY <2>2, BeginLock
    <2>3. CASE TakeLock(t)
      BY <2>3, TakeLockLock
    <2>4. CASE EnterVolume(t)
      BY <2>4, OutsideLock
    <2>5. CASE Work(t)
      BY <2>5, LockExistsLock, CreateLockLock, InitReturnsLock, InsideLock, OutsideLock, WalkLock
         DEF Work
    <2> QED BY <2>1, <2>2, <2>3, <2>4, <2>5
  <1>2. CASE UNCHANGED vars
    BY <1>2, StopStays DEF vars, locks
  <1> QED BY <1>1, <1>2

(* At most one mutex is ever created, and whoever is inside                *)
(* esp_littlefs_init has it; nobody has it elsewhere, whatever failed.     *)
THEOREM InitIsExclusive == Spec => [](OneInside /\ LockInv)
  <1>1. LockInv => OneInside
    BY DEF LockInv, OneInside
  <1> QED BY InitLock, NextLock, <1>1, PTL DEF Spec

-----------------------------------------------------------------------------
(* The slots with a context of device d.                                   *)
SlotsOf(d) == {i \in Indices : slot[i] # NULL /\ ctx[slot[i]].dev = d}

LEMMA ZeroIsNoIndex == 0 \notin Indices /\ Indices \subseteq Nat
  BY RegistryAssumption DEF Indices

(* Where the index of a walk can be. *)
Turns == 1 .. MAX + 1

LEMMA TurnsOfAWalk == 1 \in Turns /\ \A k \in Indices : k \in Turns /\ k + 1 \in Turns
  BY RegistryAssumption DEF RegistryAssumption, Turns, Indices

-----------------------------------------------------------------------------
(***************************************************************************)
(* Types, for any constants, and what a task's call and its place in the   *)
(* code say about each other.                                              *)
(***************************************************************************)
CallType == [op : Ops \cup {"none"}, conf : Confs \cup {NULL},
             idx : {0} \cup Indices, efs : Ctxs \cup {NULL}, tmp : BOOLEAN,
             i : Turns, p : Ctxs \cup {NULL}]

CtxType == [dev : Devices, mounted : BOOLEAN, base : SUBSET Confs, lock : Tasks \cup {NULL}]

DataType ==
  /\ slot \in [Indices -> Ctxs \cup {NULL}]
  /\ heap \in SUBSET Ctxs
  /\ ctx \in [Ctxs -> CtxType]
  /\ vfs \in [Confs -> Ctxs \cup {NULL}]
  /\ released \in [Devices -> Ops \cup {"no"}]
  /\ fault \in {"none", "null_deref", "use_after_free", "stale_entry"}

(* The labels between the publication of a context and its registration.   *)
Published == {"mount", "relookup", "reformat", "remount", "finish", "done", "base", "vfs"}

Starting == {"init", "make", "take", "empty"}

LocalOK(c, l) ==
  /\ l = "idle" <=> c.op = "none"
  /\ c.op # "none" => c.conf \in Confs
  /\ c.tmp => c.op = "format"
  /\ l \in Inside \cup Starting => c.op = "register" \/ (c.op = "format" /\ c.tmp)
  /\ l \in {"mount", "relookup", "reformat", "remount", "finish", "stuck", "base", "vfs"} =>
       c.op = "register"
  /\ l \in {"unvfs", "free", "clear"} => c.op = "unregister"
  /\ l \in {"format", "cleanup"} => c.op = "format"
  /\ l = "lookup" => c.op \in {"unregister", "format", "query"} /\ ~c.tmp
  /\ l \in {"deref", "use"} => c.op = "query"
  /\ l \in {"enter", "leave"} => c.op = "file"
  /\ l \in Starting \cup {"lookup"} => c.idx = 0
  /\ l \in Published \cup {"dup", "create", "publish", "format", "unvfs", "free", "clear",
                           "deref", "use"} => c.idx \in Indices
  /\ l \in Starting \cup {"lookup", "dup", "create", "unvfs", "free", "clear", "deref"} =>
       c.efs = NULL
  /\ l \in Published \cup {"publish", "enter", "leave", "use"} => c.efs \in Ctxs
  /\ l = "format" => (c.efs \in Ctxs <=> c.tmp)
  /\ l = "cleanup" /\ ~c.tmp => c.efs = NULL
  /\ l = "fail" /\ c.efs # NULL => c.idx \in Indices
  /\ l \notin Walking => c.p = NULL
  /\ l \notin Walking \cup {"empty", "reformat"} => c.i = 1
  /\ l = "reformat" \/ c.p # NULL => c.i \in Indices

Base ==
  /\ TypeOK
  /\ LockInv
  /\ \A t \in Tasks : LocalOK(call[t], pc[t])

LEMMA BaseStep ==
  ASSUME Base, LockInv', DataType', NEW t \in Tasks, NEW l \in Labels, Goto(t, l),
         NEW c \in CallType, LocalOK(c, l), call' = [call EXCEPT ![t] = c]
  PROVE  Base'
  <1>1. /\ pc' \in [Tasks -> Labels] /\ pc'[t] = l /\ \A u \in Tasks \ {t} : pc'[u] = pc[u]
        /\ call' \in [Tasks -> CallType] /\ call'[t] = c
        /\ \A u \in Tasks \ {t} : call'[u] = call[u]
    BY DEF Base, TypeOK, Goto, CallType, Turns
  <1>2. efsLock' \in {0} \cup Mutexes /\ made' \in {0} \cup Mutexes
        /\ holder' \in [Mutexes -> Tasks \cup {NULL}]
    BY FirstMutex DEF LockInv
  <1>3. TypeOK'
    BY <1>1, <1>2 DEF TypeOK, DataType, CtxType, CallType, Turns
  <1>4. \A u \in Tasks : LocalOK(call'[u], pc'[u])
    BY <1>1 DEF Base
  <1> QED BY <1>3, <1>4 DEF Base

(* A step that leaves the call of the task alone.                          *)
LEMMA BaseGoto ==
  ASSUME Base, LockInv', DataType', NEW t \in Tasks, NEW l \in Labels, Goto(t, l),
         LocalOK(call[t], l), call' = call
  PROVE  Base'
  <1>1. PICK c : c = call[t]
    OBVIOUS
  <1>2. c \in CallType /\ call' = [call EXCEPT ![t] = c]
    BY <1>1 DEF Base, TypeOK, CallType, Turns
  <1> QED BY <1>1, <1>2, BaseStep

LEMMA BaseReturn ==
  ASSUME Base, LockInv', DataType', NEW t \in Tasks, Return(t)
  PROVE  Base'
  <1>1. NoCall \in CallType /\ LocalOK(NoCall, "idle")
    BY TurnsOfAWalk DEF NoCall, CallType, LocalOK, Walking, Inside, Starting, Published
  <1> QED BY <1>1, BaseStep DEF Return, Local, Labels

LEMMA BaseStop ==
  ASSUME Base, LockInv', DataType', UNCHANGED <<locks, pc, call>>
  PROVE  Base'
  BY DEF Base, TypeOK, DataType, CtxType, locks

LEMMA DataSame ==
  ASSUME TypeOK, UNCHANGED data, fault' \in {fault, "null_deref", "use_after_free", "stale_entry"}
  PROVE  DataType'
  BY DEF TypeOK, DataType, CtxType, data

LEMMA BaseInit == Init => Base
  <1> SUFFICES ASSUME Init PROVE Base
    OBVIOUS
  <1>1. LockInv
    BY InitLock
  <1>2. DataType
    <2>1. ctx \in [Ctxs -> CtxType]
      <3>1. PICK d \in Devices : d = CHOOSE e \in Devices : TRUE
        BY RegistryAssumption
      <3>2. FreshCtx(d) \in CtxType
        BY DEF FreshCtx, CtxType
      <3> QED BY <3>1, <3>2 DEF Init
    <2> QED BY <2>1 DEF Init, DataType
  <1>3. NoCall \in CallType /\ LocalOK(NoCall, "idle")
    BY TurnsOfAWalk DEF NoCall, CallType, LocalOK, Walking, Inside, Starting, Published
  <1>4. TypeOK
    BY <1>1, <1>2, <1>3 DEF TypeOK, Init, DataType, CtxType, CallType, Turns, Labels, LockInv
  <1> QED BY <1>1, <1>3, <1>4 DEF Base, Init

-----------------------------------------------------------------------------
LEMMA BeginBase ==
  ASSUME Base, LockInv', NEW t \in Tasks, NEW op \in Ops, NEW c \in Confs, Begin(t, op, c)
  PROVE  Base'
  <1>1. PICK r : r = [NoCall EXCEPT !.op = op, !.conf = c,
                                    !.efs = IF op = "file" THEN vfs[c] ELSE NULL]
    OBVIOUS
  <1>2. PICK l : l = CASE op = "register" -> "init"
                       [] op = "file"     -> "enter"
                       [] OTHER           -> "lookup"
    OBVIOUS
  <1>3. /\ Goto(t, l) /\ call' = [call EXCEPT ![t] = r] /\ UNCHANGED <<data, locks, fault>>
        /\ op = "file" => vfs[c] \in Ctxs
    BY <1>1, <1>2 DEF Begin, Local, Base, TypeOK
  <1>4. /\ r \in CallType /\ r.op = op /\ r.conf = c /\ r.idx = 0 /\ ~r.tmp
        /\ r.efs = IF op = "file" THEN vfs[c] ELSE NULL
        /\ r.i = 1 /\ r.p = NULL
    BY <1>1, <1>3, TurnsOfAWalk DEF NoCall, CallType
  <1>5. \/ op = "register" /\ l = "init"
        \/ op = "file" /\ l = "enter"
        \/ op \in {"unregister", "format", "query"} /\ l = "lookup"
    BY <1>2 DEF Ops
  <1>6. l \in Labels /\ LocalOK(r, l)
    BY <1>3, <1>4, <1>5, RegistryAssumption
       DEF LocalOK, Walking, Inside, Starting, Published, Labels
  <1>7. DataType'
    BY <1>3, DataSame DEF Base
  <1> QED BY <1>3, <1>4, <1>6, <1>7, BaseStep

(* The lock of esp_littlefs_init. *)
LEMMA LockBase ==
  ASSUME Base, LockInv', NEW t \in Tasks, LockExists(t) \/ CreateLock(t) \/ TakeLock(t)
  PROVE  Base'
  <1>1. DataType' /\ call' = call
    BY DataSame DEF LockExists, CreateLock, TakeLock, Base
  <1>2. PICK l \in {"make", "take", "empty"} : Goto(t, l) /\ pc[t] \in {"init", "make", "take"}
    BY DEF LockExists, CreateLock, TakeLock, At
  <1>3. l \in Labels /\ LocalOK(call[t], l)
    BY <1>2 DEF Base, LocalOK, Walking, Inside, Starting, Published, Labels
  <1> QED BY <1>1, <1>2, <1>3, BaseGoto

(* A call that has found a slot, with another context, entry or mark.       *)
FoundAt(c, k) == [Rewound(c) EXCEPT !.idx = k]
WithEfs(c, x) == [c EXCEPT !.efs = x]
WithP(c, x)   == [c EXCEPT !.p = x]
AsTmp(c)      == [Rewound(c) EXCEPT !.tmp = TRUE]

(* The call r does the same as c on the same device, with its context.     *)
SameCall(r, c) ==
  r \in CallType /\ r.op = c.op /\ r.conf = c.conf /\ r.efs = c.efs

LEMMA CallFields ==
  ASSUME NEW c \in CallType
  PROVE  /\ \A k \in Indices :
              /\ SameCall(FoundAt(c, k), c) /\ FoundAt(c, k).tmp = c.tmp
              /\ FoundAt(c, k).idx = k /\ FoundAt(c, k).i = 1 /\ FoundAt(c, k).p = NULL
         /\ \A x \in Ctxs \cup {NULL} :
              /\ WithEfs(c, x) \in CallType /\ WithEfs(c, x).efs = x
              /\ WithEfs(c, x).op = c.op /\ WithEfs(c, x).conf = c.conf
              /\ WithEfs(c, x).idx = c.idx /\ WithEfs(c, x).tmp = c.tmp
              /\ WithEfs(c, x).i = c.i /\ WithEfs(c, x).p = c.p
         /\ SameCall(AsTmp(c), c) /\ AsTmp(c).tmp
         /\ AsTmp(c).idx = c.idx /\ AsTmp(c).i = 1 /\ AsTmp(c).p = NULL
  BY TurnsOfAWalk DEF CallType, FoundAt, WithEfs, AsTmp, Rewound, SameCall

LEMMA WalkFields ==
  ASSUME NEW c \in CallType
  PROVE  /\ SameCall(Rewound(c), c) /\ Rewound(c).tmp = c.tmp /\ Rewound(c).idx = c.idx
         /\ Rewound(c).i = 1 /\ Rewound(c).p = NULL
         /\ \A x \in Ctxs \cup {NULL} :
              /\ SameCall(WithP(c, x), c) /\ WithP(c, x).tmp = c.tmp
              /\ WithP(c, x).idx = c.idx /\ WithP(c, x).i = c.i /\ WithP(c, x).p = x
         /\ c.i \in Indices =>
              /\ SameCall(NextEntry(c), c) /\ NextEntry(c).tmp = c.tmp
              /\ NextEntry(c).idx = c.idx /\ NextEntry(c).i = c.i + 1 /\ NextEntry(c).p = NULL
  BY TurnsOfAWalk DEF CallType, WithP, NextEntry, Rewound, SameCall

LEMMA CallTyped ==
  ASSUME Base, NEW t \in Tasks
  PROVE  call[t] \in CallType /\ LocalOK(call[t], pc[t])
  BY DEF Base, TypeOK, CallType, Turns

(* A step that changes nothing but where a task is and its call.           *)
LEMMA BaseMove ==
  ASSUME Base, LockInv', UNCHANGED data, fault' = fault, NEW t \in Tasks, NEW l \in Labels,
         pc' = [pc EXCEPT ![t] = l], NEW c \in CallType, LocalOK(c, l), Local(t, c)
  PROVE  Base'
  BY DataSame, BaseStep DEF Base, Goto, Local

(* The turns of a walk. *)
LEMMA WalkBase ==
  ASSUME Base, LockInv', NEW t \in Tasks, ReadEntry(t) \/ PassEntry(t)
  PROVE  Base'
  <1>1. PICK c, l : c = call[t] /\ l = pc[t]
    OBVIOUS
  <1>2. /\ c \in CallType /\ LocalOK(c, l) /\ l \in Labels /\ l \in Walking /\ TypeOK
        /\ UNCHANGED <<data, locks, pc>> /\ pc' = [pc EXCEPT ![t] = l]
    BY <1>1, CallTyped DEF Base, TypeOK, ReadEntry, PassEntry, Crash
  <1>3. CASE ReadEntry(t)
    <2>1. c.i \in Indices /\ fault' = fault
      BY <1>1, <1>3 DEF ReadEntry
    <2>2. slot[c.i] \in Ctxs \cup {NULL}
      BY <1>2, <2>1 DEF TypeOK
    <2>3. PICK r : r = IF slot[c.i] = NULL THEN NextEntry(c) ELSE WithP(c, slot[c.i])
      OBVIOUS
    <2>4. /\ SameCall(r, c) /\ r.tmp = c.tmp /\ r.idx = c.idx
          /\ r.p # NULL => r.i \in Indices
      BY <1>2, <2>1, <2>2, <2>3, WalkFields
    <2>5. LocalOK(r, l)
      BY <1>2, <2>4 DEF LocalOK, Walking, Inside, Starting, Published, SameCall
    <2>6. Local(t, r)
      BY <1>1, <1>3, <2>3 DEF ReadEntry, WithP
    <2> QED BY <1>2, <2>1, <2>4, <2>5, <2>6, BaseMove DEF SameCall
  <1>4. CASE PassEntry(t) /\ call[t].p \in heap
    <2>1. c.i \in Indices /\ fault' = fault /\ Local(t, NextEntry(c))
      BY <1>1, <1>2, <1>4 DEF PassEntry, LocalOK
    <2>2. PICK r : r = NextEntry(c)
      OBVIOUS
    <2>3. SameCall(r, c) /\ r.tmp = c.tmp /\ r.idx = c.idx /\ r.p = NULL
      BY <1>2, <2>1, <2>2, WalkFields
    <2>4. LocalOK(r, l)
      BY <1>2, <2>3 DEF LocalOK, Walking, Inside, Starting, Published, SameCall
    <2> QED BY <1>2, <2>1, <2>2, <2>3, <2>4, BaseMove DEF SameCall
  <1>5. CASE PassEntry(t) /\ call[t].p \notin heap
    BY <1>2, <1>5, DataSame, BaseStop DEF PassEntry, Crash
  <1> QED BY <1>3, <1>4, <1>5

LEMMA FindEmptyBase ==
  ASSUME Base, LockInv', NEW t \in Tasks, FindEmpty(t)
  PROVE  Base'
  <1>1. PICK c : c = call[t]
    OBVIOUS
  <1>2. /\ c \in CallType /\ LocalOK(c, "empty") /\ pc[t] = "empty" /\ UNCHANGED <<data, fault>>
    BY <1>1, CallTyped DEF FindEmpty, At
  <1>3. CASE c.i \in Indices /\ Local(t, NextEntry(c)) /\ UNCHANGED pc
    <2>1. PICK r : r = NextEntry(c)
      OBVIOUS
    <2>2. SameCall(r, c) /\ r.tmp = c.tmp /\ r.idx = c.idx /\ r.p = NULL
      BY <1>2, <1>3, <2>1, WalkFields
    <2>3. LocalOK(r, "empty") /\ "empty" \in Labels
      BY <1>2, <2>2 DEF LocalOK, Walking, Inside, Starting, Published, SameCall, Labels
    <2>4. pc' = [pc EXCEPT ![t] = "empty"]
      BY <1>2, <1>3 DEF Base, TypeOK
    <2> QED BY <1>2, <1>3, <2>1, <2>2, <2>3, <2>4, BaseMove DEF SameCall
  <1>4. ASSUME c.i \in Indices, Local(t, [Rewound(c) EXCEPT !.idx = c.i]),
               NEW l \in {"create", "dup"}, Goto(t, l)
        PROVE  Base'
    <2>1. PICK r : r = FoundAt(c, c.i)
      OBVIOUS
    <2>2. SameCall(r, c) /\ r.tmp = c.tmp /\ r.idx \in Indices /\ r.i = 1 /\ r.p = NULL
      BY <1>2, <1>4, <2>1, CallFields
    <2>3. LocalOK(r, l) /\ l \in Labels
      BY <1>2, <2>2 DEF LocalOK, Walking, Inside, Starting, Published, SameCall, Labels
    <2> QED BY <1>2, <1>4, <2>1, <2>2, <2>3, BaseMove DEF SameCall, FoundAt, Goto
  <1>5. CASE Local(t, Rewound(c)) /\ Goto(t, "fail")
    <2>1. PICK r : r = Rewound(c)
      OBVIOUS
    <2>2. SameCall(r, c) /\ r.tmp = c.tmp /\ r.idx = c.idx /\ r.i = 1 /\ r.p = NULL
      BY <1>2, <2>1, WalkFields
    <2>3. LocalOK(r, "fail") /\ "fail" \in Labels
      BY <1>2, <2>2 DEF LocalOK, Walking, Inside, Starting, Published, SameCall, Labels
    <2> QED BY <1>2, <1>5, <2>1, <2>2, <2>3, BaseMove DEF SameCall, Goto
  <1> QED BY <1>1, <1>3, <1>4, <1>5 DEF FindEmpty

LEMMA FindDuplicateBase ==
  ASSUME Base, LockInv', NEW t \in Tasks, FindDuplicate(t)
  PROVE  Base'
  <1>1. PICK c : c = call[t]
    OBVIOUS
  <1>2. /\ c \in CallType /\ LocalOK(c, "dup") /\ pc[t] = "dup" /\ UNCHANGED <<data, fault>>
    BY <1>1, CallTyped DEF FindDuplicate, At
  <1>3. CASE Found(t) /\ Local(t, [Rewound(c) EXCEPT !.idx = c.i]) /\ Goto(t, "fail")
    <2>1. PICK r : r = FoundAt(c, c.i)
      OBVIOUS
    <2>2. c.i \in Indices
      BY <1>1, <1>2, <1>3 DEF Found, LocalOK
    <2>3. SameCall(r, c) /\ r.tmp = c.tmp /\ r.idx \in Indices /\ r.i = 1 /\ r.p = NULL
      BY <1>2, <2>1, <2>2, CallFields
    <2>4. LocalOK(r, "fail") /\ "fail" \in Labels
      BY <1>2, <2>3 DEF LocalOK, Walking, Inside, Starting, Published, SameCall, Labels
    <2> QED BY <1>2, <1>3, <2>1, <2>3, <2>4, BaseMove DEF SameCall, FoundAt, Goto
  <1>4. CASE Local(t, Rewound(c)) /\ Goto(t, "create")
    <2>1. PICK r : r = Rewound(c)
      OBVIOUS
    <2>2. SameCall(r, c) /\ r.tmp = c.tmp /\ r.idx = c.idx /\ r.i = 1 /\ r.p = NULL
      BY <1>2, <2>1, WalkFields
    <2>3. LocalOK(r, "create") /\ "create" \in Labels
      BY <1>2, <2>2 DEF LocalOK, Walking, Inside, Starting, Published, SameCall, Labels
    <2> QED BY <1>2, <1>4, <2>1, <2>2, <2>3, BaseMove DEF SameCall, Goto
  <1> QED BY <1>1, <1>3, <1>4 DEF FindDuplicate

(* The second lookup, of the reformat. *)
LEMMA LookUpAgainBase ==
  ASSUME Base, LockInv', NEW t \in Tasks, LookUpAgain(t)
  PROVE  Base'
  <1>1. PICK c : c = call[t]
    OBVIOUS
  <1>2. /\ c \in CallType /\ LocalOK(c, "relookup") /\ pc[t] = "relookup"
        /\ UNCHANGED <<data, fault>>
    BY <1>1, CallTyped DEF LookUpAgain, At
  <1>3. CASE Found(t) /\ Local(t, [c EXCEPT !.p = NULL]) /\ Goto(t, "reformat")
    <2>1. PICK r : r = WithP(c, NULL)
      OBVIOUS
    <2>2. c.i \in Indices
      BY <1>1, <1>2, <1>3 DEF Found, LocalOK
    <2>3. SameCall(r, c) /\ r.tmp = c.tmp /\ r.idx = c.idx /\ r.i = c.i /\ r.p = NULL
      BY <1>2, <2>1, WalkFields
    <2>4. LocalOK(r, "reformat") /\ "reformat" \in Labels
      BY <1>2, <2>2, <2>3 DEF LocalOK, Walking, Inside, Starting, Published, SameCall, Labels
    <2> QED BY <1>2, <1>3, <2>1, <2>3, <2>4, BaseMove DEF SameCall, WithP, Goto
  <1>4. CASE Local(t, Rewound(c)) /\ Goto(t, "stuck")
    <2>1. PICK r : r = Rewound(c)
      OBVIOUS
    <2>2. SameCall(r, c) /\ r.tmp = c.tmp /\ r.idx = c.idx /\ r.i = 1 /\ r.p = NULL
      BY <1>2, <2>1, WalkFields
    <2>3. LocalOK(r, "stuck") /\ "stuck" \in Labels
      BY <1>2, <2>2 DEF LocalOK, Walking, Inside, Starting, Published, SameCall, Labels
    <2> QED BY <1>2, <1>4, <2>1, <2>2, <2>3, BaseMove DEF SameCall, Goto
  <1> QED BY <1>1, <1>3, <1>4 DEF LookUpAgain

LEMMA FreshCtxType ==
  ASSUME NEW d \in Devices
  PROVE  /\ FreshCtx(d) \in CtxType
         /\ FreshCtx(d).dev = d /\ FreshCtx(d).base = {}
  BY DEF FreshCtx, CtxType

LEMMA CreateBase ==
  ASSUME Base, LockInv', NEW t \in Tasks, Create(t)
  PROVE  Base'
  <1>1. pc[t] = "create" /\ UNCHANGED <<slot, vfs, released, fault>> /\ TypeOK
    BY DEF Create, At, Base
  <1>2. LocalOK(call[t], "create") /\ call[t] \in CallType
    BY <1>1, CallTyped
  <1>3. CASE Goto(t, "fail") /\ UNCHANGED <<heap, ctx, call>>
    <2>1. LocalOK(call[t], "fail") /\ "fail" \in Labels
      BY <1>2 DEF LocalOK, Walking, Inside, Starting, Published, Labels
    <2>2. DataType'
      BY <1>1, <1>3 DEF TypeOK, DataType, CtxType
    <2> QED BY <1>3, <2>1, <2>2, BaseGoto
  <1>4. ASSUME NEW x \in Ctxs \ heap,
               heap' = heap \cup {x}, ctx' = [ctx EXCEPT ![x] = FreshCtx(Dev(t))],
               Local(t, [call[t] EXCEPT !.efs = x]),
               NEW l \in {"publish", "fail"}, Goto(t, l)
        PROVE  Base'
    <2>1. PICK c : c = WithEfs(call[t], x)
      OBVIOUS
    <2>2. /\ c \in CallType /\ c.op = call[t].op /\ c.conf = call[t].conf /\ c.efs = x
          /\ c.idx = call[t].idx /\ c.tmp = call[t].tmp /\ c.i = call[t].i /\ c.p = call[t].p
      BY <1>2, <2>1, CallFields
    <2>3. LocalOK(c, l) /\ l \in Labels
      BY <1>2, <2>2 DEF LocalOK, Walking, Inside, Starting, Published, Labels
    <2>4. Dev(t) \in Devices
      BY <1>2, RegistryAssumption DEF LocalOK, Walking, Dev
    <2>5. DataType'
      BY <1>1, <1>4, <2>4, FreshCtxType DEF TypeOK, DataType, CtxType
    <2>6. call' = [call EXCEPT ![t] = c]
      BY <1>4, <2>1 DEF Local, WithEfs
    <2> QED BY <1>4, <2>2, <2>3, <2>5, <2>6, BaseStep
  <1> QED BY <1>3, <1>4 DEF Create

(* A slot that receives a context or is emptied, and a context whose mark  *)
(* or base path changes.                                                   *)
LEMMA SlotType ==
  ASSUME TypeOK, NEW i, NEW x \in Ctxs \cup {NULL}, slot' = [slot EXCEPT ![i] = x]
  PROVE  slot' \in [Indices -> Ctxs \cup {NULL}]
  BY DEF TypeOK

LEMMA PublishBase ==
  ASSUME Base, LockInv', NEW t \in Tasks, Publish(t)
  PROVE  Base'
  <1>1. /\ pc[t] = "publish" /\ UNCHANGED <<heap, ctx, vfs, released, call, fault>> /\ TypeOK
        /\ slot' = [slot EXCEPT ![call[t].idx] = call[t].efs]
    BY DEF Publish, At, Base
  <1>2. LocalOK(call[t], "publish")
    BY <1>1, CallTyped
  <1>3. PICK l \in {"done", "mount"} : Goto(t, l) /\ (l = "mount" => call[t].op # "format")
    BY DEF Publish, DontMount
  <1>4. LocalOK(call[t], l) /\ l \in Labels
    BY <1>2, <1>3 DEF LocalOK, Walking, Inside, Starting, Published, Labels
  <1>5. call[t].efs \in Ctxs
    BY <1>2 DEF LocalOK, Walking
  <1>6. DataType'
    BY <1>1, <1>5, SlotType DEF TypeOK, DataType, CtxType
  <1> QED BY <1>1, <1>3, <1>4, <1>6, BaseGoto

(* A context with another mark, base path or holder of its lock.           *)
LEMMA CtxFields ==
  ASSUME NEW r \in CtxType
  PROVE  /\ \A m \in BOOLEAN : [r EXCEPT !.mounted = m] \in CtxType
                                /\ [r EXCEPT !.mounted = m].dev = r.dev
                                /\ [r EXCEPT !.mounted = m].base = r.base
         /\ \A b \in SUBSET Confs : [r EXCEPT !.base = b] \in CtxType
                                     /\ [r EXCEPT !.base = b].dev = r.dev
                                     /\ [r EXCEPT !.base = b].base = b
         /\ \A u \in Tasks \cup {NULL} : [r EXCEPT !.lock = u] \in CtxType
                                          /\ [r EXCEPT !.lock = u].dev = r.dev
                                          /\ [r EXCEPT !.lock = u].base = r.base
         /\ r.mounted \in BOOLEAN /\ r.base \in SUBSET Confs
  BY DEF CtxType

LEMMA CtxTyped ==
  ASSUME TypeOK
  PROVE  ctx \in [Ctxs -> CtxType]
  BY DEF TypeOK, CtxType

(* The context keeps its device and base path.                             *)
KeepsCtx == /\ ctx' \in [Ctxs -> CtxType]
            /\ \A x \in Ctxs : ctx'[x].dev = ctx[x].dev /\ ctx'[x].base = ctx[x].base

LEMMA OneCtx ==
  ASSUME TypeOK, NEW x, NEW r, ctx' = [ctx EXCEPT ![x] = r],
         x \in Ctxs => r \in CtxType
  PROVE  /\ ctx' \in [Ctxs -> CtxType]
         /\ \A y \in Ctxs : ctx'[y] = IF y = x THEN r ELSE ctx[y]
  BY CtxTyped

LEMMA SameCtx ==
  ASSUME TypeOK, ctx' = ctx
  PROVE  KeepsCtx
  BY CtxTyped DEF KeepsCtx

LEMMA MarkCtx ==
  ASSUME TypeOK, NEW x, NEW m, x \in Ctxs => m \in BOOLEAN,
         ctx' = [ctx EXCEPT ![x].mounted = m]
  PROVE  KeepsCtx
  <1>1. PICK r : r = [ctx[x] EXCEPT !.mounted = m]
    OBVIOUS
  <1>2. ctx' = [ctx EXCEPT ![x] = r]
    BY <1>1
  <1>3. x \in Ctxs => r \in CtxType /\ r.dev = ctx[x].dev /\ r.base = ctx[x].base
    BY <1>1, CtxTyped, CtxFields
  <1>4. /\ ctx' \in [Ctxs -> CtxType]
        /\ \A y \in Ctxs : ctx'[y] = IF y = x THEN r ELSE ctx[y]
    BY <1>2, <1>3, OneCtx
  <1> QED BY <1>3, <1>4 DEF KeepsCtx

LEMMA LockCtx ==
  ASSUME TypeOK, NEW x, NEW u \in Tasks \cup {NULL}, ctx' = [ctx EXCEPT ![x].lock = u]
  PROVE  KeepsCtx
  <1>1. PICK r : r = [ctx[x] EXCEPT !.lock = u]
    OBVIOUS
  <1>2. ctx' = [ctx EXCEPT ![x] = r]
    BY <1>1
  <1>3. x \in Ctxs => r \in CtxType /\ r.dev = ctx[x].dev /\ r.base = ctx[x].base
    BY <1>1, CtxTyped, CtxFields
  <1>4. /\ ctx' \in [Ctxs -> CtxType]
        /\ \A y \in Ctxs : ctx'[y] = IF y = x THEN r ELSE ctx[y]
    BY <1>2, <1>3, OneCtx
  <1> QED BY <1>3, <1>4 DEF KeepsCtx

LEMMA FormatCtx ==
  ASSUME TypeOK, NEW x, NEW ok, FormatFromEfs(x, ok)
  PROVE  KeepsCtx
  <1>1. CASE ctx' = ctx
    BY <1>1, SameCtx
  <1>2. ASSUME NEW m \in {FALSE, ctx[x].mounted}, ctx' = [ctx EXCEPT ![x].mounted = m]
        PROVE  KeepsCtx
    <2>1. x \in Ctxs => m \in BOOLEAN
      BY CtxTyped, CtxFields
    <2> QED BY <1>2, <2>1, MarkCtx
  <1> QED BY <1>1, <1>2 DEF FormatFromEfs

LEMMA KeepsCtxType ==
  ASSUME TypeOK, KeepsCtx, UNCHANGED <<slot, heap, vfs, released>>,
         fault' \in {fault, "null_deref", "use_after_free"}
  PROVE  DataType'
  BY DEF KeepsCtx, TypeOK, DataType

(* lfs_mount and the rest of esp_littlefs_init.                            *)
LEMMA MountBase ==
  ASSUME Base, LockInv', NEW t \in Tasks, Mount(t) \/ Finish(t)
  PROVE  Base'
  <1>1. /\ pc[t] \in {"mount", "remount", "finish"} /\ call' = call
        /\ UNCHANGED <<slot, heap, vfs, released, locks>>
        /\ fault' \in {fault, "use_after_free"}
    BY DEF Mount, Finish, At, Crash, data
  <1>2. KeepsCtx
    <2>1. CASE Mount(t) \/ UNCHANGED ctx
      BY <2>1, SameCtx DEF Mount, data, Base
    <2>2. CASE Finish(t)
      BY <2>1, <2>2, MarkCtx DEF Finish, Base
    <2> QED BY <2>1, <2>2
  <1>3. DataType'
    BY <1>1, <1>2, KeepsCtxType DEF Base
  <1>4. LocalOK(call[t], pc[t])
    BY CallTyped
  <1>5. CASE pc' = pc
    BY <1>1, <1>3, <1>5, BaseStop
  <1>6. CASE pc' # pc
    <2>1. PICK l \in {"finish", "fail", "relookup", "done"} : Goto(t, l)
      BY <1>6 DEF Mount, Finish, Crash
    <2>2. LocalOK(call[t], l) /\ l \in Labels
      BY <1>1, <1>4, <2>1 DEF LocalOK, Walking, Inside, Starting, Published, Labels
    <2> QED BY <1>1, <1>3, <2>1, <2>2, BaseGoto
  <1> QED BY <1>5, <1>6

LEMMA ReformatBase ==
  ASSUME Base, LockInv', NEW t \in Tasks, Reformat(t)
  PROVE  Base'
  <1>1. PICK c : c = call[t]
    OBVIOUS
  <1>2. /\ c \in CallType /\ LocalOK(c, "reformat") /\ pc[t] = "reformat" /\ TypeOK
        /\ UNCHANGED <<slot, heap, vfs, released, locks>>
    BY <1>1, CallTyped DEF Reformat, At, Base
  <1>3. CASE Crash("null_deref") /\ UNCHANGED ctx
    <2>1. DataType'
      BY <1>2, <1>3, SameCtx, KeepsCtxType DEF Crash
    <2> QED BY <1>2, <1>3, <2>1, BaseStop DEF Crash
  <1>4. ASSUME NEW ok \in BOOLEAN, FormatFromEfs(slot[c.i], ok), Local(t, Rewound(c)),
               Goto(t, IF ok THEN "remount" ELSE "fail"), UNCHANGED fault
        PROVE  Base'
    <2>1. DataType'
      BY <1>2, <1>4, FormatCtx, KeepsCtxType
    <2>2. PICK r, l : r = Rewound(c) /\ l = IF ok THEN "remount" ELSE "fail"
      OBVIOUS
    <2>3. SameCall(r, c) /\ r.tmp = c.tmp /\ r.idx = c.idx /\ r.i = 1 /\ r.p = NULL
      BY <1>2, <2>2, WalkFields
    <2>4. LocalOK(r, l) /\ l \in Labels
      BY <1>2, <2>2, <2>3 DEF LocalOK, Walking, Inside, Starting, Published, SameCall, Labels
    <2> QED BY <1>4, <2>1, <2>2, <2>3, <2>4, BaseStep DEF SameCall, Local
  <1> QED BY <1>1, <1>3, <1>4 DEF Reformat

LEMMA FreeType ==
  ASSUME TypeOK, NEW x, NEW op \in Ops \cup {"none"}, FreeCtx(x, op)
  PROVE  heap' \in SUBSET Ctxs /\ released' \in [Devices -> Ops \cup {"no"}]
  BY DEF FreeCtx, TypeOK

LEMMA FreeSlotType ==
  ASSUME TypeOK, NEW i, NEW op \in Ops \cup {"none"}, FreeSlot(i, op),
         UNCHANGED <<ctx, vfs>>, fault' \in {fault, "use_after_free"}
  PROVE  DataType'
  <1>1. heap' \in SUBSET Ctxs /\ released' \in [Devices -> Ops \cup {"no"}]
    BY FreeType DEF FreeSlot
  <1>2. slot' \in [Indices -> Ctxs \cup {NULL}]
    BY SlotType DEF FreeSlot
  <1> QED BY <1>1, <1>2 DEF TypeOK, DataType, CtxType

LEMMA InitFailsBase ==
  ASSUME Base, LockInv', NEW t \in Tasks, InitFails(t)
  PROVE  Base'
  <1>1. /\ pc[t] = "fail" /\ UNCHANGED <<ctx, vfs>> /\ fault' \in {fault, "use_after_free"}
        /\ TypeOK
    BY DEF InitFails, At, Base
  <1>2. LocalOK(call[t], "fail")
    BY <1>1, CallTyped
  <1>3. call[t].op \in {"register", "format"}
    BY <1>2 DEF LocalOK, Walking, Inside
  <1>4. DataType'
    <2>1. CASE FreeSlot(call[t].idx, call[t].op)
      BY <1>1, <1>3, <2>1, FreeSlotType DEF Ops
    <2>2. CASE FreeCtx(call[t].efs, call[t].op) /\ UNCHANGED slot
      <3>1. heap' \in SUBSET Ctxs /\ released' \in [Devices -> Ops \cup {"no"}]
        BY <1>1, <1>3, <2>2, FreeType DEF Ops
      <3> QED BY <1>1, <2>2, <3>1 DEF TypeOK, DataType, CtxType
    <2> QED BY <2>1, <2>2 DEF InitFails
  <1>5. CASE call[t].op = "register"
    <2>1. Return(t)
      BY <1>5 DEF InitFails
    <2> QED BY <1>4, <2>1, BaseReturn
  <1>6. CASE call[t].op = "format"
    <2>1. Goto(t, "cleanup") /\ call' = call
      BY <1>6 DEF InitFails
    <2>2. LocalOK(call[t], "cleanup") /\ "cleanup" \in Labels
      BY <1>2, <1>6 DEF LocalOK, Walking, Inside, Starting, Published, Labels
    <2> QED BY <1>4, <2>1, <2>2, BaseGoto
  <1> QED BY <1>3, <1>5, <1>6

LEMMA InitDoneBase ==
  ASSUME Base, LockInv', NEW t \in Tasks, InitDone(t)
  PROVE  Base'
  <1>1. pc[t] = "done" /\ call' = call /\ DataType'
    BY DataSame DEF InitDone, At, Base
  <1>2. LocalOK(call[t], "done")
    BY <1>1, CallTyped
  <1>3. PICK l : Goto(t, l) /\ l = IF call[t].op = "register" THEN "base" ELSE "format"
    BY DEF InitDone
  <1>4. LocalOK(call[t], l) /\ l \in Labels
    BY <1>2, <1>3 DEF LocalOK, Walking, Inside, Starting, Published, Labels
  <1> QED BY <1>1, <1>3, <1>4, BaseGoto

(* The base path of a context.                                             *)
LEMMA BaseCtx ==
  ASSUME TypeOK, NEW x \in Ctxs, NEW p \in Confs, ctx' = [ctx EXCEPT ![x].base = @ \cup {p}]
  PROVE  /\ ctx' \in [Ctxs -> CtxType]
         /\ \A y \in Ctxs : ctx'[y].dev = ctx[y].dev
         /\ \A y \in Ctxs \ {x} : ctx'[y].base = ctx[y].base
         /\ ctx'[x].base = ctx[x].base \cup {p}
  <1>1. PICK r : r = [ctx[x] EXCEPT !.base = ctx[x].base \cup {p}]
    OBVIOUS
  <1>2. ctx' = [ctx EXCEPT ![x] = r]
    BY <1>1
  <1>3. ctx[x] \in CtxType /\ ctx[x].base \cup {p} \in SUBSET Confs
    BY CtxTyped, CtxFields
  <1>4. r \in CtxType /\ r.dev = ctx[x].dev /\ r.base = ctx[x].base \cup {p}
    BY <1>1, <1>3, CtxFields
  <1>5. /\ ctx' \in [Ctxs -> CtxType]
        /\ \A y \in Ctxs : ctx'[y] = IF y = x THEN r ELSE ctx[y]
    BY <1>2, <1>4, OneCtx
  <1> QED BY <1>4, <1>5

LEMMA SetBasePathBase ==
  ASSUME Base, LockInv', NEW t \in Tasks, SetBasePath(t)
  PROVE  Base'
  <1>1. pc[t] = "base" /\ call' = call /\ TypeOK /\ UNCHANGED <<slot, heap, vfs, released, locks>>
    BY DEF SetBasePath, At, Base, Crash
  <1>2. LocalOK(call[t], "base")
    BY <1>1, CallTyped
  <1>3. CASE slot[call[t].idx] = NULL
    <2>1. DataType'
      BY <1>1, <1>3 DEF SetBasePath, Crash, TypeOK, DataType, CtxType
    <2> QED BY <1>1, <1>3, <2>1, BaseStop DEF SetBasePath, Crash
  <1>4. CASE slot[call[t].idx] # NULL
    <2>1. slot[call[t].idx] \in Ctxs /\ call[t].conf \in Confs
      BY <1>1, <1>2, <1>4 DEF LocalOK, Walking, TypeOK, Published
    <2>2. Goto(t, "vfs") /\ fault' = fault
          /\ ctx' = [ctx EXCEPT ![slot[call[t].idx]].base = @ \cup {call[t].conf}]
      BY <1>4 DEF SetBasePath
    <2>3. DataType'
      BY <1>1, <2>1, <2>2, BaseCtx DEF TypeOK, DataType
    <2>4. LocalOK(call[t], "vfs") /\ "vfs" \in Labels
      BY <1>2 DEF LocalOK, Walking, Inside, Starting, Published, Labels
    <2> QED BY <1>1, <2>2, <2>3, <2>4, BaseGoto
  <1> QED BY <1>3, <1>4

LEMMA VfsRegisterBase ==
  ASSUME Base, LockInv', NEW t \in Tasks, VfsRegister(t) \/ VfsRegisterFails(t)
  PROVE  Base'
  <1>1. pc[t] = "vfs" /\ Return(t) /\ TypeOK
    BY DEF VfsRegister, VfsRegisterFails, At, Base
  <1>2. LocalOK(call[t], "vfs")
    BY <1>1, CallTyped
  <1>3. CASE VfsRegister(t)
    <2>1. slot[call[t].idx] \in Ctxs \cup {NULL}
      BY <1>1, <1>2 DEF LocalOK, Walking, TypeOK, Published
    <2>2. DataType'
      BY <1>1, <1>3, <2>1 DEF VfsRegister, TypeOK, DataType, CtxType
    <2> QED BY <1>1, <2>2, BaseReturn
  <1>4. CASE VfsRegisterFails(t)
    <2>1. DataType'
      BY <1>1, <1>4, FreeSlotType DEF VfsRegisterFails, Ops
    <2> QED BY <1>1, <2>1, BaseReturn
  <1> QED BY <1>3, <1>4

LEMMA FindVolumeBase ==
  ASSUME Base, LockInv', NEW t \in Tasks, FindVolume(t)
  PROVE  Base'
  <1>1. PICK c : c = call[t]
    OBVIOUS
  <1>2. /\ c \in CallType /\ LocalOK(c, "lookup") /\ pc[t] = "lookup" /\ UNCHANGED <<data, fault>>
    BY <1>1, CallTyped DEF FindVolume, At
  <1>3. c.op \in {"unregister", "format", "query"}
    BY <1>2 DEF LocalOK
  <1>4. ASSUME NEW l, l = CASE c.op = "unregister" -> "unvfs"
                            [] c.op = "format"     -> "format"
                            [] OTHER               -> "deref",
               Found(t), Local(t, [Rewound(c) EXCEPT !.idx = c.i]), Goto(t, l)
        PROVE  Base'
    <2>1. PICK r : r = FoundAt(c, c.i)
      OBVIOUS
    <2>2. c.i \in Indices
      BY <1>1, <1>2, <1>4 DEF Found, LocalOK
    <2>3. SameCall(r, c) /\ r.tmp = c.tmp /\ r.idx \in Indices /\ r.i = 1 /\ r.p = NULL
      BY <1>2, <2>1, <2>2, CallFields
    <2>4. \/ c.op = "unregister" /\ l = "unvfs"
          \/ c.op = "format" /\ l = "format"
          \/ c.op = "query" /\ l = "deref"
      BY <1>3, <1>4
    <2>5. LocalOK(r, l) /\ l \in Labels
      BY <1>2, <2>3, <2>4, RegistryAssumption
         DEF LocalOK, Walking, Inside, Starting, Published, SameCall, Labels, RegistryAssumption
    <2> QED BY <1>2, <1>4, <2>1, <2>3, <2>5, BaseMove DEF SameCall, FoundAt, Goto
  <1>5. CASE c.op = "format" /\ Local(t, [Rewound(c) EXCEPT !.tmp = TRUE]) /\ Goto(t, "init")
    <2>1. PICK r : r = AsTmp(c)
      OBVIOUS
    <2>2. SameCall(r, c) /\ r.tmp /\ r.idx = c.idx /\ r.i = 1 /\ r.p = NULL
      BY <1>2, <2>1, CallFields
    <2>3. LocalOK(r, "init") /\ "init" \in Labels
      BY <1>2, <1>5, <2>2 DEF LocalOK, Walking, Inside, Starting, Published, SameCall, Labels
    <2> QED BY <1>2, <1>5, <2>1, <2>2, <2>3, BaseMove DEF SameCall, AsTmp, Goto
  <1>6. CASE Return(t)
    BY <1>2, <1>6, DataSame, BaseReturn DEF Base
  <1> QED BY <1>1, <1>4, <1>5, <1>6 DEF FindVolume

LEMMA VfsUnregisterBase ==
  ASSUME Base, LockInv', NEW t \in Tasks, VfsUnregister(t)
  PROVE  Base'
  <1>1. pc[t] = "unvfs" /\ TypeOK /\ UNCHANGED <<slot, heap, ctx, released, locks>>
    BY DEF VfsUnregister, At, Base
  <1>2. LocalOK(call[t], "unvfs")
    BY <1>1, CallTyped
  <1>3. DataType'
    BY <1>1 DEF VfsUnregister, Crash, TypeOK, DataType, CtxType
  <1>4. CASE UNCHANGED <<pc, call>>
    BY <1>1, <1>3, <1>4, BaseStop
  <1>5. CASE Return(t)
    BY <1>3, <1>5, BaseReturn
  <1>6. CASE Goto(t, "free") /\ call' = call
    <2>1. LocalOK(call[t], "free") /\ "free" \in Labels
      BY <1>2 DEF LocalOK, Walking, Inside, Starting, Published, Labels
    <2> QED BY <1>3, <1>6, <2>1, BaseGoto
  <1> QED BY <1>4, <1>5, <1>6 DEF VfsUnregister, Crash

LEMMA FreeVolumeBase ==
  ASSUME Base, LockInv', NEW t \in Tasks, FreeVolume(t) \/ ClearSlot(t)
  PROVE  Base'
  <1>1. pc[t] \in {"free", "clear"} /\ TypeOK
    BY DEF FreeVolume, ClearSlot, At, Base
  <1>2. LocalOK(call[t], pc[t])
    BY CallTyped
  <1>3. CASE FreeVolume(t)
    <2>1. DataType'
      BY <1>1, <1>3, FreeSlotType DEF FreeVolume, Ops
    <2>2. LocalOK(call[t], "clear") /\ "clear" \in Labels
      BY <1>2, <1>1 DEF LocalOK, Walking, Inside, Starting, Published, Labels
    <2> QED BY <1>3, <2>1, <2>2, BaseGoto DEF FreeVolume
  <1>4. CASE ClearSlot(t)
    <2>1. slot' \in [Indices -> Ctxs \cup {NULL}]
      BY <1>1, <1>4, SlotType DEF ClearSlot
    <2>2. DataType'
      BY <1>1, <1>4, <2>1 DEF ClearSlot, TypeOK, DataType, CtxType
    <2> QED BY <1>4, <2>2, BaseReturn DEF ClearSlot
  <1> QED BY <1>3, <1>4

LEMMA FormatBase ==
  ASSUME Base, LockInv', NEW t \in Tasks, FormatVolume(t) \/ FormatCleanup(t)
  PROVE  Base'
  <1>1. TypeOK /\ LocalOK(call[t], pc[t])
    BY CallTyped DEF Base
  <1>2. CASE FormatVolume(t)
    <2>1. /\ pc[t] = "format" /\ call' = call /\ UNCHANGED <<slot, heap, vfs, released, locks>>
          /\ fault' \in {fault, "null_deref"}
      BY <1>2 DEF FormatVolume, At, Crash
    <2>2. KeepsCtx
      BY <1>1, <1>2, FormatCtx, SameCtx DEF FormatVolume
    <2>3. DataType'
      BY <1>1, <2>1, <2>2, KeepsCtxType
    <2>4. CASE pc' = pc
      BY <2>1, <2>3, <2>4, BaseStop
    <2>5. CASE Goto(t, "cleanup")
      <3>1. call[t].op = "format" /\ (~call[t].tmp => call[t].efs = NULL)
        BY <1>1, <2>1, CallTyped DEF LocalOK, Walking, CallType
      <3>2. LocalOK(call[t], "cleanup") /\ "cleanup" \in Labels
        BY <1>1, <2>1, <3>1 DEF LocalOK, Walking, Inside, Starting, Published, Labels
      <3> QED BY <2>1, <2>3, <2>5, <3>2, BaseGoto
    <2> QED BY <1>2, <2>4, <2>5 DEF FormatVolume, Crash
  <1>3. CASE FormatCleanup(t)
    <2>1. DataType'
      <3>1. CASE FreeSlot(call[t].idx, "none")
        BY <1>1, <1>3, <3>1, FreeSlotType DEF FormatCleanup
      <3>2. CASE UNCHANGED <<slot, heap, released>>
        BY <1>1, <1>3, <3>2 DEF FormatCleanup, TypeOK, DataType, CtxType
      <3> QED BY <1>3, <3>1, <3>2 DEF FormatCleanup
    <2> QED BY <1>3, <2>1, BaseReturn DEF FormatCleanup
  <1> QED BY <1>2, <1>3

LEMMA QueryBase ==
  ASSUME Base, LockInv', NEW t \in Tasks, ReadSlot(t) \/ UseContext(t)
  PROVE  Base'
  <1>1. TypeOK /\ LocalOK(call[t], pc[t]) /\ call[t] \in CallType /\ DataType'
        /\ UNCHANGED locks
    BY CallTyped, DataSame DEF Base, ReadSlot, UseContext, Crash
  <1>2. CASE UNCHANGED <<pc, call>>
    BY <1>1, <1>2, BaseStop
  <1>3. CASE Return(t)
    BY <1>1, <1>3, BaseReturn
  <1>4. CASE /\ pc[t] = "deref" /\ slot[call[t].idx] # NULL /\ Goto(t, "use")
             /\ Local(t, [call[t] EXCEPT !.efs = slot[call[t].idx]])
    <2>1. slot[call[t].idx] \in Ctxs
      BY <1>1, <1>4 DEF LocalOK, Walking, TypeOK
    <2>2. PICK c : c = WithEfs(call[t], slot[call[t].idx])
      OBVIOUS
    <2>3. /\ c \in CallType /\ c.op = call[t].op /\ c.conf = call[t].conf /\ c.efs \in Ctxs
          /\ c.tmp = call[t].tmp /\ c.idx = call[t].idx /\ c.i = call[t].i /\ c.p = call[t].p
      BY <1>1, <2>1, <2>2, CallFields
    <2>4. LocalOK(c, "use") /\ "use" \in Labels
      BY <1>1, <1>4, <2>3 DEF LocalOK, Walking, Inside, Starting, Published, Labels
    <2>5. call' = [call EXCEPT ![t] = c]
      BY <1>4, <2>2 DEF Local, WithEfs
    <2> QED BY <1>1, <1>4, <2>3, <2>4, <2>5, BaseStep
  <1> QED BY <1>2, <1>3, <1>4 DEF ReadSlot, UseContext, Crash, At

LEMMA FileCallBase ==
  ASSUME Base, LockInv', NEW t \in Tasks, EnterVolume(t) \/ LeaveVolume(t)
  PROVE  Base'
  <1>1. /\ TypeOK /\ LocalOK(call[t], pc[t]) /\ pc[t] \in {"enter", "leave"}
        /\ UNCHANGED <<slot, heap, vfs, released, locks>>
        /\ fault' \in {fault, "use_after_free"}
    BY CallTyped DEF Base, EnterVolume, LeaveVolume, Crash, At
  <1>2. KeepsCtx
    BY <1>1, LockCtx, SameCtx DEF EnterVolume, LeaveVolume
  <1>3. DataType'
    BY <1>1, <1>2, KeepsCtxType
  <1>4. CASE UNCHANGED <<pc, call>>
    BY <1>1, <1>3, <1>4, BaseStop
  <1>5. CASE Return(t)
    BY <1>3, <1>5, BaseReturn
  <1>6. CASE Goto(t, "leave") /\ call' = call
    <2>1. LocalOK(call[t], "leave") /\ "leave" \in Labels
      BY <1>1 DEF LocalOK, Walking, Inside, Starting, Published, Labels
    <2> QED BY <1>3, <1>6, <2>1, BaseGoto
  <1> QED BY <1>4, <1>5, <1>6 DEF EnterVolume, LeaveVolume, Crash

LEMMA BaseNext == Base /\ [Next]_vars => Base'
  <1> SUFFICES ASSUME Base, [Next]_vars PROVE Base'
    OBVIOUS
  <1>1. LockInv'
    BY NextLock DEF Base
  <1>2. CASE Next
    <2>1. PICK t \in Tasks :
            \/ \E op \in Ops, c \in Confs : Begin(t, op, c)
            \/ TakeLock(t) \/ EnterVolume(t) \/ Work(t)
      BY <1>2 DEF Next
    <2>2. CASE Work(t)
      BY <1>1, <2>2, LockBase, WalkBase, FindEmptyBase, FindDuplicateBase, CreateBase,
         PublishBase, MountBase, LookUpAgainBase, ReformatBase, InitFailsBase, InitDoneBase,
         SetBasePathBase, VfsRegisterBase, FindVolumeBase, VfsUnregisterBase, FreeVolumeBase,
         FormatBase, QueryBase, FileCallBase DEF Work
    <2> QED BY <1>1, <2>1, <2>2, BeginBase, LockBase, FileCallBase
  <1>3. CASE UNCHANGED vars
    BY <1>1, <1>3, DataSame, BaseStop DEF vars, data, locks, Base
  <1> QED BY <1>2, <1>3

(* Table, contexts, locks and calls keep their types, whatever callers     *)
(* overlap and whichever requests are refused.                             *)
THEOREM RegistryTypeCorrect == Spec => []TypeOK
  <1>1. Base => TypeOK
    BY DEF Base
  <1> QED BY BaseInit, BaseNext, <1>1, PTL DEF Spec

-----------------------------------------------------------------------------
(***************************************************************************)
(* The registry with disciplined callers.  Every context on the heap is in *)
(* a slot or has one owner, the task that will free it or hand it to the   *)
(* VFS layer; and what a task knows of the slot it works on stays true     *)
(* while other tasks run, because the discipline keeps their slots apart.  *)
(***************************************************************************)
(* What callers that overlap have asked for. *)
Disciplined ==
  \A t, u \in Active : t # u =>
    /\ {call[t].op, call[u].op} \in IF Dev(t) = Dev(u) THEN OneDevice ELSE Overlap
    /\ call[t].op = "register" /\ call[u].op = "register" => call[t].conf # call[u].conf

(* The context that a task with call c owns at label l, or NULL. *)
HeldOf(c, l) ==
  IF l = "free" \/ (l = "cleanup" /\ c.tmp /\ c.idx # 0)
  THEN slot[c.idx]
  ELSE IF c.op \in {"register", "format"} /\ l # "cleanup" THEN c.efs ELSE NULL

Held(t) == HeldOf(call[t], pc[t])

Slotted(x) == \E i \in Indices : slot[i] = x

(* What a task with call c may rely on at label l. *)
PlaceOf(c, l) ==
  /\ c.op = "register" => vfs[c.conf] = NULL
  /\ c.op = "file" => vfs[c.conf] = c.efs
  /\ l \in {"dup", "create", "publish", "clear"} => slot[c.idx] = NULL
  /\ l \in Published => slot[c.idx] = c.efs
  /\ l = "fail" /\ c.efs # NULL =>
       slot[c.idx] = c.efs \/ (slot[c.idx] = NULL /\ ~Slotted(c.efs))
  /\ l = "fail" /\ c.op = "format" /\ c.idx # 0 => slot[c.idx] \in {NULL, c.efs}
  /\ l \in {"format", "unvfs", "free", "deref"} =>
       slot[c.idx] # NULL /\ ctx[slot[c.idx]].dev = Device[c.conf]
  /\ l = "format" /\ c.tmp => slot[c.idx] = c.efs
  /\ l = "use" => Slotted(c.efs) /\ ctx[c.efs].dev = Device[c.conf]
  /\ l \in {"create", "publish"} \/ (c.tmp /\ l \in Starting \cup {"dup"}) => SlotsOf(Device[c.conf]) = {}
  /\ c.op = "register" /\ c.efs # NULL => ctx[c.efs].base = IF l = "vfs" THEN {c.conf} ELSE {}
  /\ l = "reformat" => c.i = c.idx
  /\ l # "stuck"

Place(t) == PlaceOf(call[t], pc[t])

(* What a walk has learnt: the context it looks for is not in a slot it    *)
(* has passed; and if the entry it has read is still a context of the      *)
(* device, it is still in its slot.                                        *)
WalkOf(c, l) ==
  l \in Walking =>
    /\ \A j \in SlotsOf(Device[c.conf]) : j >= c.i
    /\ c.p # NULL =>
         /\ c.i \in SlotsOf(Device[c.conf]) => slot[c.i] = c.p
         /\ c.p \in heap /\ ctx[c.p].dev = Device[c.conf] => slot[c.i] = c.p

Walk(t) == WalkOf(call[t], pc[t])

(* Contexts are in a slot or owned, and owned by one task; those the VFS   *)
(* layer knows are in a slot, with their base path, and nobody owns them.  *)
HeapOK    == \A x \in Ctxs : x \in heap <=> (Slotted(x) \/ \E t \in Tasks : Held(t) = x)
KnownOK   == \A x \in Ctxs : Slotted(x) =>
               (\E p \in Confs : vfs[p] = x) \/ (\E t \in Tasks : Held(t) = x)
MountedOK == \A p \in Mounted :
               Slotted(vfs[p]) /\ ctx[vfs[p]].dev = Device[p] /\ ctx[vfs[p]].base = {p}
HeldOK    == \A t \in Tasks : Held(t) # NULL =>
               /\ ctx[Held(t)].dev = Dev(t)
               /\ \A p \in Confs : vfs[p] # Held(t)
               /\ \A u \in Tasks \ {t} : Held(u) # Held(t)

TableInv == HeapOK /\ KnownOK /\ MountedOK /\ HeldOK /\ OneContextPerDevice

RegInv ==
  /\ Base
  /\ Disciplined
  /\ \A t \in Tasks : Place(t) /\ Walk(t)
  /\ TableInv
  /\ OnlyWalksFault

(***************************************************************************)
(* What the discipline says of two tasks of which one changes the table.   *)
(***************************************************************************)
LEMMA Apart ==
  ASSUME CallersTakeCare, Base, Disciplined, NEW t \in Tasks, NEW u \in Tasks, t # u,
         call[u].op \in Changes, call[t].op # "none"
  PROVE  /\ call[t].op = "register" /\ call[u].op = "register" => call[t].conf # call[u].conf
         /\ call[t].op \in Changes =>
              call[t].op = call[u].op /\ call[u].op \in {"register", "unregister"}
         /\ call[t].op \in {"unregister", "format", "query"} \/ call[u].op \in {"unregister", "format"} =>
              Dev(t) # Dev(u)
  <1>1. PICK a : a = call[t].op
    OBVIOUS
  <1>2. PICK b : b = call[u].op
    OBVIOUS
  <1>3. t \in Active /\ u \in Active
    BY DEF Active, At, Base, LocalOK, Walking, Changes
  <1>4. {a, b} \in IF Dev(t) = Dev(u) THEN OneDevice ELSE Overlap
    BY <1>1, <1>2, <1>3 DEF Disciplined
  <1>5. Dev(t) = Dev(u) => a \notin {"unregister", "format"} /\ b \notin {"unregister", "format"}
    BY <1>4 DEF CallersTakeCare
  <1>6. Dev(t) = Dev(u) /\ b = "register" => a # "query"
    <2> SUFFICES ASSUME Dev(t) = Dev(u), b = "register", a = "query" PROVE FALSE
      OBVIOUS
    <2>1. {a, b} = {"register", "query"}
      OBVIOUS
    <2> QED BY <1>4, <2>1 DEF CallersTakeCare
  <1>7. Dev(t) # Dev(u) /\ a \in Changes => a = b /\ b \in {"register", "unregister"}
    <2> SUFFICES ASSUME Dev(t) # Dev(u), a \in Changes
                 PROVE  a = b /\ b \in {"register", "unregister"}
      OBVIOUS
    <2>1. {a, b} \subseteq Changes
      BY <1>2
    <2>2. {a, b} \subseteq {"register"} \/ {a, b} \subseteq {"unregister"}
      BY <1>4, <2>1 DEF CallersTakeCare
    <2> QED BY <2>2
  <1>8. Dev(t) = Dev(u) /\ a \in Changes => a = "register" /\ b = "register"
    BY <1>2, <1>5 DEF Changes
  <1>9. call[t].op = "register" /\ call[u].op = "register" => call[t].conf # call[u].conf
    BY <1>3 DEF Disciplined
  <1> QED BY <1>1, <1>2, <1>5, <1>6, <1>7, <1>8, <1>9 DEF Changes

(* What a task owns. *)
LEMMA HeldType ==
  ASSUME Base, NEW t \in Tasks
  PROVE  /\ Held(t) \in Ctxs \cup {NULL}
         /\ Held(t) # NULL => call[t].op \in Changes
         /\ call[t].op = "unregister" /\ pc[t] # "free" => Held(t) = NULL
         /\ call[t].op = "register" => Held(t) = call[t].efs
  <1>1. LocalOK(call[t], pc[t]) /\ call[t] \in CallType /\ TypeOK
    BY CallTyped DEF Base
  <1>2. pc[t] = "free" => call[t].op = "unregister" /\ call[t].idx \in Indices
    BY <1>1 DEF LocalOK, Walking
  <1>3. pc[t] = "cleanup" => call[t].op = "format"
    BY <1>1 DEF LocalOK, Walking
  <1>4. call[t].idx \in Indices => slot[call[t].idx] \in Ctxs \cup {NULL}
    BY <1>1 DEF TypeOK
  <1>5. call[t].efs \in Ctxs \cup {NULL} /\ call[t].idx \in {0} \cup Indices
    BY <1>1 DEF CallType
  <1>6. Held(t) \in Ctxs \cup {NULL}
    BY <1>2, <1>4, <1>5 DEF Held, HeldOf
  <1>7. Held(t) # NULL => call[t].op \in Changes
    BY <1>2, <1>3 DEF Held, HeldOf, Changes
  <1>8. call[t].op = "unregister" /\ pc[t] # "free" => Held(t) = NULL
    BY <1>3 DEF Held, HeldOf
  <1>9. call[t].op = "register" => Held(t) = call[t].efs
    BY <1>2, <1>3 DEF Held, HeldOf
  <1> QED BY <1>6, <1>7, <1>8, <1>9

(* The effect of a step of task u on what other tasks see. *)
Footprint(u) ==
  /\ \A t \in Tasks \ {u} : pc'[t] = pc[t] /\ call'[t] = call[t]
  /\ \A i \in Indices : slot'[i] # slot[i] =>
       /\ Held(u) # NULL
       /\ \/ slot[i] = NULL /\ slot'[i] = Held(u) /\ pc[u] = "publish"
          \/ slot[i] = Held(u) /\ slot'[i] = NULL /\ Held(u) \notin heap'
  /\ \A x \in Ctxs : x \in heap' => x \in heap \/ (pc[u] = "create" /\ ctx'[x].dev = Dev(u))
  /\ \A x \in heap : ctx'[x].dev = ctx[x].dev /\ (x # Held(u) => ctx'[x].base = ctx[x].base)
  /\ \A p \in Confs : vfs'[p] # vfs[p] =>
       \/ call[u].op = "register" /\ p = call[u].conf
       \/ call[u].op = "unregister" /\ Device[p] = Dev(u)

(* A slot that task t relies on: it is t's, or of t's device while nobody  *)
(* else may change that.                                                   *)
LEMMA SlotStays ==
  ASSUME CallersTakeCare, RegInv, NEW u \in Tasks, Footprint(u), NEW t \in Tasks \ {u},
         NEW i \in Indices, slot[i] # NULL,
         \/ slot[i] = Held(t)
         \/ ctx[slot[i]].dev = Dev(t) /\ call[t].op \in {"unregister", "format", "query"}
  PROVE  slot'[i] = slot[i] /\ ctx'[slot[i]].dev = ctx[slot[i]].dev
         /\ (slot[i] = Held(t) => ctx'[slot[i]].base = ctx[slot[i]].base)
  <1>1. slot[i] \in heap /\ slot[i] \in Ctxs
    BY DEF RegInv, TableInv, Base, TypeOK, HeapOK, Slotted
  <1>2. slot[i] # Held(u)
    <2>1. CASE slot[i] = Held(t)
      BY <2>1 DEF RegInv, TableInv, HeldOK
    <2>2. CASE ctx[slot[i]].dev = Dev(t) /\ call[t].op \in {"unregister", "format", "query"}
      <3> SUFFICES ASSUME slot[i] = Held(u) PROVE FALSE
        OBVIOUS
      <3>1. ctx[slot[i]].dev = Dev(u)
        BY DEF RegInv, TableInv, HeldOK
      <3>2. call[u].op \in Changes
        BY HeldType DEF RegInv, TableInv
      <3>3. Base /\ Disciplined /\ t # u /\ call[t].op # "none"
        BY <2>2 DEF RegInv
      <3>4. Dev(t) # Dev(u)
        BY <2>2, <3>2, <3>3, Apart
      <3> QED BY <2>2, <3>1, <3>4
    <2> QED BY <2>1, <2>2
  <1> QED BY <1>1, <1>2 DEF Footprint

(* An empty slot that task t is about to fill stays empty.                 *)
LEMMA EmptyStays ==
  ASSUME CallersTakeCare, RegInv, NEW u \in Tasks, Footprint(u), NEW t \in Tasks \ {u},
         pc[t] \in Inside \cup {"cleanup", "clear"}, call[t].op \in Changes,
         NEW i \in Indices
  PROVE  slot'[i] = slot[i] \/ (slot'[i] = NULL /\ slot[i] = Held(u))
  <1> SUFFICES ASSUME slot'[i] # slot[i], pc[u] = "publish" PROVE FALSE
    BY DEF Footprint
  <1>1. pc[t] \notin Inside
    BY DEF RegInv, TableInv, Base, LockInv, Inside
  <1>2. call[u].op \in {"register", "format"} /\ call[u].op \in Changes
    BY DEF RegInv, TableInv, Base, LocalOK, Walking, Inside, Changes
  <1>3. call[t].op \in {"format", "unregister"}
    BY <1>1 DEF RegInv, TableInv, Base, LocalOK, Walking
  <1> QED BY <1>2, <1>3, Apart DEF RegInv, TableInv, Changes

(* While task t is in esp_littlefs_init, or has a device to itself, nobody *)
(* puts a context of its device in a slot.                                 *)
LEMMA SlotsOnlyGo ==
  ASSUME CallersTakeCare, RegInv, NEW u \in Tasks, Footprint(u), NEW t \in Tasks \ {u},
         pc[t] \in Inside \/ call[t].op \in {"unregister", "format", "query"}
  PROVE  \A i \in SlotsOf(Dev(t))' : i \in SlotsOf(Dev(t)) /\ slot'[i] = slot[i]
  <1>1. Dev(t)' = Dev(t)
    BY DEF Footprint, Dev
  <1> SUFFICES ASSUME NEW i \in Indices, slot'[i] # NULL, ctx'[slot'[i]].dev = Dev(t)
               PROVE  slot[i] # NULL /\ ctx[slot[i]].dev = Dev(t) /\ slot'[i] = slot[i]
    BY <1>1 DEF SlotsOf
  <1>2. CASE slot'[i] = slot[i]
    <2>1. slot[i] \in heap
      BY <1>2 DEF RegInv, TableInv, Base, TypeOK, HeapOK, Slotted
    <2> QED BY <1>2, <2>1 DEF Footprint
  <1>3. CASE slot'[i] = Held(u) /\ Held(u) # NULL /\ pc[u] = "publish"
    <2>1. call[u].op \in {"register", "format"} /\ call[u].op \in Changes
      BY <1>3 DEF RegInv, Base, LocalOK, Walking, Inside, Changes
    <2>2. pc[t] \notin Inside
      BY <1>3 DEF RegInv, Base, LockInv, Inside
    <2>3. call[t].op \in {"unregister", "format", "query"} /\ call[t].op # "none"
      BY <2>2
    <2>4. Dev(t) # Dev(u)
      BY <2>1, <2>3, Apart DEF RegInv
    <2>5. Held(u) \in heap /\ ctx[Held(u)].dev = Dev(u)
      BY <1>3, HeldType DEF RegInv, TableInv, HeapOK, HeldOK
    <2>6. ctx'[Held(u)].dev = Dev(u)
      BY <2>5 DEF Footprint
    <2> QED BY <1>3, <2>4, <2>6
  <1> QED BY <1>2, <1>3 DEF Footprint

(* Another task's step leaves a walk as it is.                             *)
LEMMA OthersWalk ==
  ASSUME CallersTakeCare, RegInv, NEW u \in Tasks, Footprint(u), NEW t \in Tasks \ {u}
  PROVE  Walk(t)'
  <1>1. PICK c : c = call[t]
    OBVIOUS
  <1>2. PICK l : l = pc[t]
    OBVIOUS
  <1>3. call'[t] = c /\ pc'[t] = l /\ Dev(t)' = Dev(t) /\ Dev(t) = Device[c.conf]
    BY <1>1, <1>2 DEF Footprint, Dev
  <1> SUFFICES ASSUME l \in Walking PROVE Walk(t)'
    BY <1>3 DEF Walk, WalkOf
  <1>4. LocalOK(c, l) /\ c \in CallType
    BY <1>1, <1>2, CallTyped DEF RegInv
  <1>5. /\ \A j \in SlotsOf(Dev(t)) : j >= c.i
        /\ c.p # NULL =>
             /\ c.i \in SlotsOf(Dev(t)) => slot[c.i] = c.p
             /\ c.p \in heap /\ ctx[c.p].dev = Dev(t) => slot[c.i] = c.p
    BY <1>1, <1>2, <1>3 DEF RegInv, Walk, WalkOf
  <1>6. pc[t] \in Inside \/ call[t].op \in {"unregister", "format", "query"}
    BY <1>1, <1>2, <1>4 DEF LocalOK, Walking, Inside
  <1>7. \A i \in SlotsOf(Dev(t))' : i \in SlotsOf(Dev(t)) /\ slot'[i] = slot[i]
    BY <1>6, SlotsOnlyGo
  <1>8. ASSUME c.p # NULL, c.p \in heap', ctx'[c.p].dev = Dev(t)
        PROVE  slot'[c.i] = c.p
    <2>1. c.p \in Ctxs /\ c.i \in Indices
      BY <1>4, <1>8 DEF LocalOK, CallType
    <2>2. c.p \in heap
      <3> SUFFICES ASSUME pc[u] = "create", Dev(u) = Dev(t) PROVE FALSE
        BY <1>8, <2>1 DEF Footprint
      <3>1. pc[t] \notin Inside
        BY DEF RegInv, Base, LockInv, Inside
      <3>2. call[u].op \in Changes
        BY DEF RegInv, Base, LocalOK, Walking, Inside, Changes
      <3> QED BY <1>6, <3>1, <3>2, Apart DEF RegInv
    <2>3. slot[c.i] = c.p
      BY <1>5, <1>8, <2>2 DEF Footprint
    <2> QED BY <1>8, <2>1, <2>3 DEF Footprint
  <1>9. /\ \A j \in SlotsOf(Dev(t))' : j >= c.i
        /\ c.p # NULL => (c.i \in SlotsOf(Dev(t))' => slot'[c.i] = c.p)
    BY <1>5, <1>7
  <1> QED BY <1>3, <1>8, <1>9 DEF Walk, WalkOf, Dev

LEMMA OthersPlace ==
  ASSUME CallersTakeCare, RegInv, NEW u \in Tasks, Footprint(u), NEW t \in Tasks \ {u}
  PROVE  Place(t)' /\ Held(t)' = Held(t)
  <1>1. PICK c : c = call[t]
    OBVIOUS
  <1>2. PICK l : l = pc[t]
    OBVIOUS
  <1>3. call'[t] = c /\ pc'[t] = l /\ Dev(t)' = Dev(t)
    BY <1>1, <1>2 DEF Footprint, Dev
  <1>4. LocalOK(c, l) /\ c \in CallType /\ Place(t)
    BY <1>1, <1>2, CallTyped DEF RegInv, TableInv
  <1>5. Held(t) # NULL => Held(t) # Held(u) /\ Held(t) \in heap
    <2>1. Held(t) # NULL => Held(t) # Held(u)
      BY DEF RegInv, TableInv, HeldOK
    <2>2. Held(t) \in Ctxs \cup {NULL}
      BY HeldType DEF RegInv, TableInv
    <2> QED BY <2>1, <2>2 DEF RegInv, TableInv, HeapOK
  <1>6. c.op = "register" => vfs'[c.conf] = NULL
    <2> SUFFICES ASSUME c.op = "register", vfs'[c.conf] # vfs[c.conf] PROVE FALSE
      BY <1>1, <1>4 DEF Place, PlaceOf, Dev
    <2>1. c.conf \in Confs
      BY <1>4 DEF LocalOK, Walking
    <2>2. call[u].op \in Changes
      BY <2>1 DEF Footprint, Changes
    <2> QED BY <1>1, <2>1, <2>2, Apart DEF RegInv, TableInv, Footprint, Changes
  <1>7. c.op = "file" => vfs'[c.conf] = c.efs
    <2> SUFFICES ASSUME c.op = "file", vfs'[c.conf] # vfs[c.conf] PROVE FALSE
      BY <1>1, <1>4 DEF Place, PlaceOf, Dev
    <2>1. c.conf \in Confs /\ c.efs \in Ctxs
      <3>1. l \in Labels
        BY <1>2 DEF RegInv, TableInv, Base, TypeOK
      <3>2. l \in {"enter", "leave"}
        BY <1>4, <3>1 DEF LocalOK, Walking, Labels, Starting
      <3> QED BY <1>4, <3>2 DEF LocalOK, Walking
    <2>2. CASE call[u].op = "register" /\ c.conf = call[u].conf
      <3>1. vfs[c.conf] = NULL /\ vfs[c.conf] = c.efs
        BY <1>1, <1>4, <2>2 DEF Place, PlaceOf, Dev, RegInv, TableInv
      <3> QED BY <2>1, <3>1, RegistryAssumption DEF RegistryAssumption
    <2>3. CASE call[u].op = "unregister" /\ Device[c.conf] = Dev(u)
      <3>1. call[u].op \in Changes
        BY <2>3 DEF Changes
      <3> QED BY <1>1, <2>3, <3>1, Apart DEF RegInv, TableInv, Dev
    <2> QED BY <2>1, <2>2, <2>3 DEF Footprint
  <1>8. l \in {"dup", "create", "publish", "clear"} => slot'[c.idx] = NULL
    <2> SUFFICES ASSUME l \in {"dup", "create", "publish", "clear"} PROVE slot'[c.idx] = NULL
      OBVIOUS
    <2>1. c.op \in Changes /\ c.idx \in Indices /\ l \in Inside \cup {"cleanup", "clear"}
      BY <1>4 DEF LocalOK, Walking, Inside, Changes
    <2>2. slot[c.idx] = NULL
      BY <1>1, <1>2, <1>4 DEF Place, PlaceOf, Dev
    <2> QED BY <1>1, <1>2, <2>1, <2>2, EmptyStays
  <1>9. l \in Published => slot'[c.idx] = c.efs
    <2> SUFFICES ASSUME l \in Published PROVE slot'[c.idx] = c.efs
      OBVIOUS
    <2>1. slot[c.idx] = c.efs /\ c.idx \in Indices /\ c.efs \in Ctxs
      BY <1>1, <1>2, <1>4 DEF Place, PlaceOf, Dev, LocalOK, Walking
    <2>2. c.op \in {"register", "format"} /\ l \notin {"free", "cleanup"}
      BY <1>4 DEF LocalOK, Walking, Published, Inside
    <2>3. c.efs = Held(t)
      BY <1>1, <1>2, <2>2 DEF Held, HeldOf
    <2> QED BY <2>1, <2>3, SlotStays, RegistryAssumption DEF RegistryAssumption
  <1>10. l = "fail" /\ c.efs # NULL =>
           slot'[c.idx] = c.efs \/ (slot'[c.idx] = NULL /\ ~Slotted(c.efs)')
    <2> SUFFICES ASSUME l = "fail", c.efs # NULL
                 PROVE  slot'[c.idx] = c.efs \/ (slot'[c.idx] = NULL /\ ~Slotted(c.efs)')
      OBVIOUS
    <2>1. c.idx \in Indices /\ c.op \in Changes /\ c.op \in {"register", "format"}
      BY <1>4 DEF LocalOK, Walking, Inside, Changes
    <2>2. c.efs = Held(t)
      BY <1>1, <1>2, <2>1 DEF Held, HeldOf
    <2>3. \A i \in Indices : slot'[i] = slot[i] \/ (slot'[i] = NULL /\ slot[i] = Held(u))
      BY <1>1, <1>2, <2>1, EmptyStays DEF Inside
    <2>4. slot[c.idx] = c.efs \/ (slot[c.idx] = NULL /\ ~Slotted(c.efs))
      BY <1>1, <1>2, <1>4 DEF Place, PlaceOf, Dev
    <2>5. CASE slot[c.idx] = c.efs
      BY <1>5, <2>1, <2>2, <2>3, <2>5
    <2>6. CASE slot[c.idx] = NULL /\ ~Slotted(c.efs)
      BY <2>1, <2>3, <2>6 DEF Slotted
    <2> QED BY <2>4, <2>5, <2>6
  <1>11. l = "fail" /\ c.op = "format" /\ c.idx # 0 => slot'[c.idx] \in {NULL, c.efs}
    <2> SUFFICES ASSUME l = "fail", c.op = "format", c.idx # 0
                 PROVE  slot'[c.idx] \in {NULL, c.efs}
      OBVIOUS
    <2>1. c.idx \in Indices /\ c.op \in Changes
      BY <1>4 DEF CallType, Changes
    <2>2. slot[c.idx] \in {NULL, c.efs}
      BY <1>1, <1>2, <1>4 DEF Place, PlaceOf, Dev
    <2> QED BY <1>1, <1>2, <2>1, <2>2, EmptyStays DEF Inside
  <1>12. l \in {"format", "unvfs", "free", "deref"} =>
           /\ slot'[c.idx] = slot[c.idx] /\ slot'[c.idx] # NULL
           /\ ctx'[slot'[c.idx]].dev = Dev(t)
    <2> SUFFICES ASSUME l \in {"format", "unvfs", "free", "deref"}
                 PROVE  /\ slot'[c.idx] = slot[c.idx] /\ slot'[c.idx] # NULL
                        /\ ctx'[slot'[c.idx]].dev = Dev(t)
      OBVIOUS
    <2>1. c.op \in {"format", "unregister", "query"} /\ c.idx \in Indices
      BY <1>4 DEF LocalOK, Walking
    <2>2. slot[c.idx] # NULL /\ ctx[slot[c.idx]].dev = Dev(t)
      BY <1>1, <1>2, <1>4 DEF Place, PlaceOf, Dev
    <2> QED BY <1>1, <2>1, <2>2, SlotStays
  <1>13. l = "format" /\ c.tmp => slot'[c.idx] = c.efs
    BY <1>1, <1>2, <1>4, <1>12 DEF Place, PlaceOf, Dev
  <1>14. l = "use" => Slotted(c.efs)' /\ ctx'[c.efs].dev = Dev(t)
    <2> SUFFICES ASSUME l = "use" PROVE Slotted(c.efs)' /\ ctx'[c.efs].dev = Dev(t)
      OBVIOUS
    <2>1. c.op = "query" /\ c.efs \in Ctxs /\ c.efs # NULL
      BY <1>4, RegistryAssumption DEF LocalOK, Walking, RegistryAssumption
    <2>2. PICK i \in Indices : slot[i] = c.efs /\ ctx[c.efs].dev = Dev(t)
      BY <1>1, <1>2, <1>4 DEF Place, PlaceOf, Dev, Slotted
    <2>3. slot'[i] = c.efs /\ ctx'[c.efs].dev = Dev(t)
      BY <1>1, <2>1, <2>2, SlotStays
    <2> QED BY <2>3 DEF Slotted
  <1>15. l \in {"create", "publish"} \/ (c.tmp /\ l \in Starting \cup {"dup"}) =>
           SlotsOf(Dev(t))' = {}
    <2> SUFFICES ASSUME l \in {"create", "publish"} \/ (c.tmp /\ l \in Starting \cup {"dup"})
                 PROVE  SlotsOf(Dev(t))' = {}
      OBVIOUS
    <2>1. SlotsOf(Dev(t)) = {}
      BY <1>1, <1>2, <1>4 DEF Place, PlaceOf, Dev
    <2>2. pc[t] \in Inside \/ call[t].op \in {"unregister", "format", "query"}
      BY <1>1, <1>2, <1>4 DEF LocalOK, Walking, Inside
    <2> QED BY <2>1, <2>2, SlotsOnlyGo
  <1>16. c.op = "register" /\ c.efs # NULL =>
           ctx'[c.efs].base = IF l = "vfs" THEN {c.conf} ELSE {}
    <2> SUFFICES ASSUME c.op = "register", c.efs # NULL PROVE ctx'[c.efs].base = ctx[c.efs].base
      BY <1>1, <1>2, <1>4 DEF Place, PlaceOf, Dev
    <2>1. c.efs = Held(t)
      BY <1>1, HeldType DEF RegInv, TableInv
    <2> QED BY <1>5, <2>1 DEF Footprint
  <1>17. l # "stuck" /\ (l = "reformat" => c.i = c.idx)
    BY <1>1, <1>2, <1>4 DEF Place, PlaceOf, Dev
  <1>18. Place(t)'
    BY <1>3, <1>6, <1>7, <1>8, <1>9, <1>10, <1>11, <1>12, <1>13, <1>14, <1>15, <1>16, <1>17
       DEF Place, PlaceOf, Dev
  <1>19. Held(t)' = Held(t)
    <2>1. CASE l = "free"
      BY <1>1, <1>2, <1>3, <1>12, <2>1 DEF Held, HeldOf
    <2>2. CASE l = "cleanup" /\ c.tmp /\ c.idx # 0
      <3>1. c.idx \in Indices /\ c.op \in Changes
        BY <1>4, <2>2 DEF CallType, LocalOK, Walking, Changes
      <3>2. Held(t) = slot[c.idx]
        BY <1>1, <1>2, <2>2 DEF Held, HeldOf
      <3>3. slot'[c.idx] = slot[c.idx] \/ (slot'[c.idx] = NULL /\ slot[c.idx] = Held(u))
        BY <1>1, <1>2, <2>2, <3>1, EmptyStays
      <3>4. slot'[c.idx] = slot[c.idx]
        BY <1>5, <3>1, <3>2, <3>3
      <3> QED BY <1>3, <2>2, <3>2, <3>4 DEF Held, HeldOf
    <2>3. CASE ~(l = "free" \/ (l = "cleanup" /\ c.tmp /\ c.idx # 0))
      BY <1>1, <1>2, <1>3, <2>3 DEF Held, HeldOf
    <2> QED BY <2>1, <2>2, <2>3
  <1> QED BY <1>18, <1>19

(* What the other tasks own stays theirs. *)
LEMMA OthersOwn ==
  ASSUME CallersTakeCare, RegInv, NEW u \in Tasks, Footprint(u)
  PROVE  \A t \in Tasks \ {u} : Held(t)' = Held(t) /\ Dev(t)' = Dev(t)
  BY OthersPlace DEF Footprint, Dev

LEMMA HeldIsContext ==
  ASSUME RegInv, NEW t \in Tasks, Held(t) # NULL
  PROVE  /\ Held(t) \in Ctxs /\ Held(t) \in heap
         /\ ctx[Held(t)].dev = Dev(t)
         /\ \A p \in Confs : vfs[p] # Held(t)
         /\ \A v \in Tasks \ {t} : Held(v) # Held(t)
  <1>1. Held(t) \in Ctxs
    BY HeldType DEF RegInv
  <1> QED BY <1>1 DEF RegInv, TableInv, HeldOK, HeapOK

LEMMA SlottedIsContext ==
  ASSUME RegInv, NEW i \in Indices, slot[i] # NULL
  PROVE  slot[i] \in Ctxs /\ slot[i] \in heap /\ Slotted(slot[i])
  BY DEF RegInv, TableInv, Base, TypeOK, HeapOK, Slotted

(* A task finishes its part; the others' parts are untouched. *)
LEMMA Gather ==
  ASSUME CallersTakeCare, RegInv, Base', NEW u \in Tasks, Footprint(u), Disciplined',
         Place(u)', Walk(u)', TableInv', OnlyWalksFault'
  PROVE  RegInv'
  <1>1. \A t \in Tasks : Place(t)' /\ Walk(t)'
    BY OthersPlace, OthersWalk
  <1> QED BY <1>1 DEF RegInv

LEMMA StaysDisciplined ==
  ASSUME RegInv, Base', NEW u \in Tasks,
         \A t \in Tasks \ {u} : pc'[t] = pc[t] /\ call'[t] = call[t],
         call'[u].op = "none" \/ (call'[u].op = call[u].op /\ call'[u].conf = call[u].conf)
  PROVE  Disciplined'
  <1> SUFFICES ASSUME NEW t \in Active', NEW v \in Active', t # v
               PROVE  /\ {call'[t].op, call'[v].op} \in IF Dev(t)' = Dev(v)' THEN OneDevice ELSE Overlap
                      /\ call'[t].op = "register" /\ call'[v].op = "register" =>
                           call'[t].conf # call'[v].conf
    BY DEF Disciplined
  <1>1. \A w \in Active' : /\ w \in Active /\ call'[w].op = call[w].op
                           /\ call'[w].conf = call[w].conf /\ Dev(w)' = Dev(w)
    <2> SUFFICES ASSUME NEW w \in Active'
                 PROVE  w \in Active /\ call'[w].op = call[w].op /\ call'[w].conf = call[w].conf
      BY DEF Dev
    <2>1. w \in Tasks /\ pc'[w] # "idle"
      BY DEF Active, At
    <2>2. call'[w].op # "none"
      BY <2>1 DEF Base, LocalOK, Walking
    <2>3. call'[w].op = call[w].op /\ call'[w].conf = call[w].conf
      BY <2>1, <2>2
    <2>4. pc[w] # "idle"
      BY <2>1, <2>2, <2>3 DEF RegInv, Base, LocalOK, Walking
    <2> QED BY <2>1, <2>3, <2>4 DEF Active, At
  <1>2. t \in Active /\ v \in Active
    BY <1>1
  <1>3. /\ {call[t].op, call[v].op} \in IF Dev(t) = Dev(v) THEN OneDevice ELSE Overlap
        /\ call[t].op = "register" /\ call[v].op = "register" => call[t].conf # call[v].conf
    BY <1>2 DEF RegInv, Disciplined
  <1> QED BY <1>1, <1>3

(* A quiet step: the table, the heap and the VFS layer stay as they are.   *)
QuietStep(u) ==
  /\ UNCHANGED <<slot, heap, vfs>>
  /\ KeepsCtx
  /\ \A t \in Tasks \ {u} : pc'[t] = pc[t] /\ call'[t] = call[t]

LEMMA QuietFootprint ==
  ASSUME RegInv, NEW u \in Tasks, QuietStep(u)
  PROVE  Footprint(u)
  BY DEF QuietStep, KeepsCtx, Footprint, RegInv, Base, TypeOK

LEMMA QuietTable ==
  ASSUME CallersTakeCare, RegInv, NEW u \in Tasks, QuietStep(u), Held(u)' = Held(u),
         Held(u) # NULL => Dev(u)' = Dev(u)
  PROVE  TableInv'
  <1>1. \A t \in Tasks : Held(t)' = Held(t) /\ (Held(t) # NULL => Dev(t)' = Dev(t))
    BY OthersOwn, QuietFootprint
  <1>2. \A x : Slotted(x)' <=> Slotted(x)
    BY DEF QuietStep, Slotted
  <1>3. \A x \in Ctxs : ctx'[x].dev = ctx[x].dev /\ ctx'[x].base = ctx[x].base
    BY DEF QuietStep, KeepsCtx
  <1>4. HeapOK'
    BY <1>1, <1>2 DEF QuietStep, RegInv, TableInv, HeapOK
  <1>5. KnownOK'
    BY <1>1, <1>2 DEF QuietStep, RegInv, TableInv, KnownOK
  <1>6. MountedOK'
    <2> SUFFICES ASSUME NEW p \in Confs, vfs'[p] # NULL
                 PROVE  /\ \E i \in Indices : slot'[i] = vfs'[p]
                        /\ ctx'[vfs'[p]].dev = Device[p] /\ ctx'[vfs'[p]].base = {p}
      BY DEF MountedOK, Mounted, Slotted
    <2>1. vfs'[p] = vfs[p] /\ vfs[p] \in Ctxs
      BY DEF QuietStep, RegInv, Base, TypeOK
    <2>2. Slotted(vfs[p]) /\ ctx[vfs[p]].dev = Device[p] /\ ctx[vfs[p]].base = {p}
      BY <2>1 DEF RegInv, TableInv, MountedOK, Mounted
    <2>3. \E i \in Indices : slot'[i] = vfs'[p]
      BY <2>1, <2>2 DEF QuietStep, Slotted
    <2> QED BY <1>3, <2>1, <2>2, <2>3
  <1>7. HeldOK'
    <2> SUFFICES ASSUME NEW t \in Tasks, Held(t)' # NULL
                 PROVE  /\ ctx'[Held(t)'].dev = Dev(t)'
                        /\ \A p \in Confs : vfs'[p] # Held(t)'
                        /\ \A v \in Tasks \ {t} : Held(v)' # Held(t)'
      BY DEF HeldOK
    <2>1. /\ Held(t) \in Ctxs /\ ctx[Held(t)].dev = Dev(t)
          /\ \A p \in Confs : vfs[p] # Held(t)
          /\ \A v \in Tasks \ {t} : Held(v) # Held(t)
      BY <1>1, HeldIsContext
    <2> QED BY <1>1, <1>3, <2>1 DEF QuietStep
  <1>8. OneContextPerDevice'
    <2>1. slot' = slot /\ \A i \in Indices : slot[i] # NULL => slot[i] \in Ctxs
      BY SlottedIsContext DEF QuietStep
    <2> QED BY <1>3, <2>1 DEF RegInv, TableInv, OneContextPerDevice
  <1> QED BY <1>4, <1>5, <1>6, <1>7, <1>8 DEF TableInv

LEMMA QuietPlace ==
  ASSUME RegInv, NEW u \in Tasks, QuietStep(u), NEW c \in CallType, NEW l \in Labels,
         LocalOK(c, l), PlaceOf(c, l), call'[u] = c, pc'[u] = l
  PROVE  Place(u)'
  <1>1. slot' = slot /\ vfs' = vfs
    BY DEF QuietStep
  <1>2. \A x \in Ctxs : ctx'[x].dev = ctx[x].dev /\ ctx'[x].base = ctx[x].base
    BY DEF QuietStep, KeepsCtx
  <1>3. \A i \in Indices : slot[i] # NULL => slot[i] \in Ctxs
    BY SlottedIsContext
  <1>4. \A d : SlotsOf(d)' = SlotsOf(d)
    BY <1>1, <1>2, <1>3 DEF SlotsOf
  <1>5. \A x : Slotted(x)' <=> Slotted(x)
    BY <1>1 DEF Slotted
  <1>6. l \in {"format", "unvfs", "free", "deref"} => c.idx \in Indices
    BY DEF LocalOK, Walking
  <1>7. c.efs # NULL => c.efs \in Ctxs
    BY DEF CallType
  <1>8. l = "use" => c.efs \in Ctxs
    BY DEF LocalOK, Walking
  <1>9. PlaceOf(c, l)'
    BY <1>1, <1>2, <1>3, <1>4, <1>5, <1>6, <1>7, <1>8 DEF PlaceOf
  <1> QED BY <1>1, <1>9 DEF Place, PlaceOf

LEMMA QuietWalk ==
  ASSUME RegInv, NEW u \in Tasks, QuietStep(u), NEW c \in CallType, NEW l,
         WalkOf(c, l), call'[u] = c, pc'[u] = l
  PROVE  Walk(u)'
  <1>1. slot' = slot /\ heap' = heap /\ \A x \in Ctxs : ctx'[x].dev = ctx[x].dev
    BY DEF QuietStep, KeepsCtx
  <1>2. \A i \in Indices : slot[i] # NULL => slot[i] \in Ctxs
    BY SlottedIsContext
  <1>3. \A d : SlotsOf(d)' = SlotsOf(d)
    BY <1>1, <1>2 DEF SlotsOf
  <1>4. c.p # NULL => c.p \in Ctxs
    BY DEF CallType
  <1> QED BY <1>1, <1>3, <1>4 DEF Walk, WalkOf

LEMMA Moves ==
  ASSUME Base, NEW u \in Tasks, NEW l, Goto(u, l), NEW c, call' = [call EXCEPT ![u] = c]
  PROVE  /\ pc'[u] = l /\ call'[u] = c
         /\ \A t \in Tasks \ {u} : pc'[t] = pc[t] /\ call'[t] = call[t]
  BY DEF Goto, Base, TypeOK

LEMMA Quiet ==
  ASSUME CallersTakeCare, RegInv, Base', NEW u \in Tasks, NEW l, NEW c,
         Goto(u, l), call' = [call EXCEPT ![u] = c],
         UNCHANGED <<slot, heap, vfs>>, KeepsCtx, fault' = fault,
         c.op = "none" \/ (c.op = call[u].op /\ c.conf = call[u].conf),
         PlaceOf(c, l), WalkOf(c, l), HeldOf(c, l) = Held(u)
  PROVE  RegInv'
  <1>1. pc'[u] = l /\ call'[u] = c /\ QuietStep(u)
    BY Moves DEF RegInv, QuietStep
  <1>2. LocalOK(c, l) /\ c \in CallType /\ l \in Labels
    BY <1>1 DEF Base, TypeOK, CallType, Turns
  <1>3. Held(u)' = Held(u)
    BY <1>1 DEF QuietStep, Held, HeldOf
  <1>4. Held(u) # NULL => Dev(u)' = Dev(u)
    <2>1. c.op = "none" => HeldOf(c, l) = NULL
      BY <1>2 DEF HeldOf, LocalOK, Walking
    <2> QED BY <1>1, <2>1 DEF Dev
  <1>5. Disciplined'
    BY <1>1, StaysDisciplined DEF QuietStep
  <1>6. TableInv'
    BY <1>1, <1>3, <1>4, QuietTable
  <1>7. Place(u)' /\ Walk(u)'
    BY <1>1, <1>2, QuietPlace, QuietWalk
  <1>8. OnlyWalksFault'
    BY DEF RegInv, OnlyWalksFault
  <1> QED BY <1>1, <1>5, <1>6, <1>7, <1>8, Gather, QuietFootprint

(* A task that returns owns nothing and relies on nothing. *)
LEMMA NoCallPlace ==
  /\ PlaceOf(NoCall, "idle") /\ WalkOf(NoCall, "idle")
  /\ HeldOf(NoCall, "idle") = NULL /\ NoCall.op = "none"
  BY DEF PlaceOf, WalkOf, Walking, HeldOf, NoCall, Published, Starting

LEMMA QuietGoto ==
  ASSUME CallersTakeCare, RegInv, Base', NEW u \in Tasks, NEW l,
         Goto(u, l), UNCHANGED <<call, slot, heap, vfs, fault>>, KeepsCtx,
         PlaceOf(call[u], l), l \notin Walking \/ WalkOf(call[u], l), HeldOf(call[u], l) = Held(u)
  PROVE  RegInv'
  <1>1. PICK c : c = call[u]
    OBVIOUS
  <1>2. call' = [call EXCEPT ![u] = c]
    BY <1>1 DEF RegInv, Base, TypeOK
  <1>3. PlaceOf(c, l) /\ WalkOf(c, l) /\ HeldOf(c, l) = Held(u)
    BY <1>1 DEF WalkOf
  <1> QED BY <1>1, <1>2, <1>3, Quiet

LEMMA QuietReturn ==
  ASSUME CallersTakeCare, RegInv, Base', NEW u \in Tasks, Return(u),
         UNCHANGED <<slot, heap, vfs, fault>>, KeepsCtx, Held(u) = NULL
  PROVE  RegInv'
  BY Quiet, NoCallPlace DEF Return, Local

LEMMA AtLabel ==
  ASSUME RegInv, NEW t \in Tasks
  PROVE  /\ call[t] \in CallType /\ LocalOK(call[t], pc[t]) /\ PlaceOf(call[t], pc[t])
         /\ WalkOf(call[t], pc[t])
         /\ Held(t) = HeldOf(call[t], pc[t])
         /\ TypeOK
  BY CallTyped DEF RegInv, Base, Place, Walk, Held

LEMMA QuietData ==
  ASSUME RegInv, UNCHANGED data
  PROVE  UNCHANGED <<slot, heap, vfs>> /\ KeepsCtx
  BY SameCtx DEF data, RegInv, Base

(***************************************************************************)
(* The quiet steps of esp_littlefs_init.                                   *)
(***************************************************************************)
LEMMA LockKeeps ==
  ASSUME CallersTakeCare, RegInv, Base', NEW t \in Tasks,
         LockExists(t) \/ CreateLock(t) \/ TakeLock(t)
  PROVE  RegInv'
  <1>1. /\ UNCHANGED <<data, call, fault>> /\ pc[t] \in {"init", "make", "take"}
    BY DEF LockExists, CreateLock, TakeLock, At
  <1>2. PICK l \in {"make", "take", "empty"} : Goto(t, l)
    BY DEF LockExists, CreateLock, TakeLock
  <1>3. PlaceOf(call[t], l) /\ HeldOf(call[t], l) = Held(t) /\ l \notin Walking
    BY <1>1, <1>2, AtLabel DEF LocalOK, Walking, PlaceOf, HeldOf, Starting, Published
  <1> QED BY <1>1, <1>2, <1>3, QuietData, QuietGoto

(* A step that stops a task, or does nothing. *)
LEMMA StopOwned ==
  ASSUME RegInv, Base', UNCHANGED <<data, pc, call>>, OnlyWalksFault'
  PROVE  RegInv'
  <1>1. Disciplined'
    BY DEF RegInv, Disciplined, Active, At, Dev
  <1>2. \A t \in Tasks : Place(t)' /\ Walk(t)'
    BY DEF data, RegInv, Place, PlaceOf, Walk, WalkOf, SlotsOf, Slotted
  <1>3. \A t \in Tasks : Held(t)' = Held(t) /\ Dev(t)' = Dev(t)
    BY DEF data, Held, HeldOf, Dev
  <1>4. HeapOK' /\ KnownOK'
    BY <1>3 DEF data, RegInv, TableInv, HeapOK, KnownOK, Slotted
  <1>5. MountedOK' /\ OneContextPerDevice'
    BY DEF data, RegInv, TableInv, MountedOK, Mounted, Slotted, OneContextPerDevice
  <1>6. HeldOK'
    BY <1>3 DEF data, RegInv, TableInv, HeldOK
  <1> QED BY <1>1, <1>2, <1>4, <1>5, <1>6 DEF RegInv, TableInv

(***************************************************************************)
(* The walks.                                                              *)
(***************************************************************************)
(* A walk that ends has seen that no slot has a context of the device; one *)
(* that finds a context has it in its slot.                                *)
LEMMA WalkEnds ==
  ASSUME RegInv, NEW t \in Tasks, pc[t] \in Walking, NotFound(t)
  PROVE  SlotsOf(Dev(t)) = {}
  <1> SUFFICES ASSUME NEW j \in SlotsOf(Dev(t)) PROVE FALSE
    OBVIOUS
  <1>1. j >= call[t].i /\ call[t].i \in Turns
    BY AtLabel DEF WalkOf, Dev, CallType
  <1> QED BY <1>1, RegistryAssumption
          DEF SlotsOf, NotFound, Indices, Turns, RegistryAssumption

LEMMA WalkFinds ==
  ASSUME RegInv, NEW t \in Tasks, pc[t] \in Walking, Found(t)
  PROVE  call[t].i \in Indices /\ call[t].i \in SlotsOf(Dev(t))
  <1>1. call[t].i \in Indices
    BY AtLabel DEF LocalOK, Found
  <1>2. slot[call[t].i] = call[t].p
    BY AtLabel DEF WalkOf, Dev, Found, Matches
  <1> QED BY <1>1, <1>2 DEF Found, Matches, SlotsOf

(* A call that goes on walking. *)
LEMMA WalkOn ==
  ASSUME RegInv, NEW t \in Tasks, pc[t] \in Walking, NEW r, SameCall(r, call[t]),
         r.tmp = call[t].tmp, r.idx = call[t].idx
  PROVE  PlaceOf(r, pc[t]) /\ HeldOf(r, pc[t]) = Held(t)
  <1>1. PICK c : c = call[t]
    OBVIOUS
  <1>2. r.op = c.op /\ r.conf = c.conf /\ r.efs = c.efs /\ r.tmp = c.tmp /\ r.idx = c.idx
    BY <1>1 DEF SameCall
  <1>3. PlaceOf(c, pc[t]) /\ HeldOf(c, pc[t]) = Held(t)
    BY <1>1, AtLabel
  <1> QED BY <1>2, <1>3 DEF PlaceOf, HeldOf, Walking

LEMMA WalkKeeps ==
  ASSUME CallersTakeCare, RegInv, Base', NEW t \in Tasks, ReadEntry(t) \/ PassEntry(t)
  PROVE  RegInv'
  <1>1. PICK c, l : c = call[t] /\ l = pc[t]
    OBVIOUS
  <1>2. /\ l \in Walking /\ UNCHANGED <<data, pc>> /\ Goto(t, l)
        /\ c \in CallType /\ LocalOK(c, l) /\ WalkOf(c, l)
    BY <1>1, AtLabel DEF ReadEntry, PassEntry, Crash, Goto, TypeOK
  <1>3. \A j \in SlotsOf(Device[c.conf]) : j >= c.i /\ j \in Nat /\ c.i \in Nat
    BY <1>2, ZeroIsNoIndex DEF WalkOf, SlotsOf, CallType, Turns
  <1>4. CASE ReadEntry(t)
    <2>1. c.i \in Indices /\ fault' = fault
      BY <1>1, <1>4 DEF ReadEntry
    <2>2. slot[c.i] \in Ctxs \cup {NULL}
      BY <2>1, AtLabel DEF TypeOK
    <2>3. CASE slot[c.i] = NULL
      <3>1. PICK r : r = NextEntry(c)
        OBVIOUS
      <3>2. /\ SameCall(r, c) /\ r.tmp = c.tmp /\ r.idx = c.idx
            /\ r.i = c.i + 1 /\ r.p = NULL
        BY <1>2, <2>1, <3>1, WalkFields
      <3>3. \A j \in SlotsOf(Device[c.conf]) : j # c.i
        BY <2>3 DEF SlotsOf
      <3>4. WalkOf(r, l)
        BY <1>3, <3>2, <3>3 DEF WalkOf, SameCall
      <3>5. call' = [call EXCEPT ![t] = r]
        BY <1>1, <1>4, <2>3, <3>1 DEF ReadEntry, Local
      <3> QED BY <1>1, <1>2, <2>1, <3>2, <3>4, <3>5, WalkOn, QuietData, Quiet DEF SameCall
    <2>4. CASE slot[c.i] # NULL
      <3>1. PICK r : r = WithP(c, slot[c.i])
        OBVIOUS
      <3>2. /\ SameCall(r, c) /\ r.tmp = c.tmp /\ r.idx = c.idx
            /\ r.i = c.i /\ r.p = slot[c.i]
        BY <1>2, <2>2, <3>1, WalkFields
      <3>3. WalkOf(r, l)
        BY <1>3, <3>2 DEF WalkOf, SameCall
      <3>4. call' = [call EXCEPT ![t] = r]
        BY <1>1, <1>4, <2>4, <3>1 DEF ReadEntry, Local, WithP
      <3> QED BY <1>1, <1>2, <2>1, <3>2, <3>3, <3>4, WalkOn, QuietData, Quiet DEF SameCall
    <2> QED BY <2>3, <2>4
  <1>5. CASE PassEntry(t) /\ call[t].p \in heap
    <2>1. /\ c.i \in Indices /\ fault' = fault /\ c.p # NULL
          /\ ctx[c.p].dev # Device[c.conf]
      BY <1>1, <1>2, <1>5 DEF PassEntry, LocalOK, Matches, Dev
    <2>2. PICK r : r = NextEntry(c)
      OBVIOUS
    <2>3. /\ SameCall(r, c) /\ r.tmp = c.tmp /\ r.idx = c.idx
          /\ r.i = c.i + 1 /\ r.p = NULL
      BY <1>2, <2>1, <2>2, WalkFields
    <2>4. c.i \notin SlotsOf(Device[c.conf])
      BY <1>2, <2>1 DEF WalkOf, SlotsOf
    <2>5. WalkOf(r, l)
      BY <1>3, <2>3, <2>4 DEF WalkOf, SameCall
    <2>6. call' = [call EXCEPT ![t] = r]
      BY <1>1, <1>5, <2>2 DEF PassEntry, Local
    <2> QED BY <1>1, <1>2, <2>1, <2>3, <2>5, <2>6, WalkOn, QuietData, Quiet DEF SameCall
  <1>6. CASE PassEntry(t) /\ call[t].p \notin heap
    BY <1>2, <1>6, StopOwned DEF PassEntry, Crash, OnlyWalksFault
  <1> QED BY <1>4, <1>5, <1>6

(* A configuration that is not checked for duplicates has a device of its  *)
(* own: no slot has it while it is being registered.                       *)
LEMMA NoDuplicate ==
  ASSUME CallersTakeCare, RegInv, NEW t \in Tasks, pc[t] = "empty",
         call[t].conf \in Unchecked
  PROVE  SlotsOf(Dev(t)) = {}
  <1> SUFFICES ASSUME NEW i \in SlotsOf(Dev(t)) PROVE FALSE
    OBVIOUS
  <1>1. /\ call[t].efs = NULL /\ call[t].conf \in Confs
        /\ call[t].op = "register" /\ vfs[call[t].conf] = NULL
    BY AtLabel DEF LocalOK, Walking, PlaceOf, Dev, Inside, Starting
  <1>2. \A d \in Confs : Device[d] = Dev(t) => d = call[t].conf
    BY DEF CallersTakeCare, Dev
  <1>3. i \in Indices /\ slot[i] # NULL /\ ctx[slot[i]].dev = Dev(t)
    BY DEF SlotsOf
  <1>4. slot[i] \in Ctxs /\ Slotted(slot[i])
    BY <1>3, SlottedIsContext
  <1>5. CASE \E p \in Confs : vfs[p] = slot[i]
    <2>1. PICK p \in Confs : vfs[p] = slot[i]
      BY <1>5
    <2>2. Device[p] = Dev(t)
      BY <1>3, <2>1 DEF RegInv, TableInv, MountedOK, Mounted
    <2> QED BY <1>1, <1>2, <1>3, <2>1, <2>2
  <1>6. CASE \E u \in Tasks : Held(u) = slot[i]
    <2>1. PICK u \in Tasks : Held(u) = slot[i]
      BY <1>6
    <2>2. Dev(u) = Dev(t) /\ call[u].op \in Changes
      BY <1>3, <2>1, HeldIsContext, HeldType DEF RegInv
    <2>3. Held(t) = NULL
      BY <1>1, HeldType DEF RegInv
    <2>4. u # t
      BY <1>3, <2>1, <2>3
    <2>5. call[u].op = "register" /\ call[u].conf # call[t].conf
      BY <1>1, <2>2, <2>4, Apart DEF RegInv, Changes
    <2>6. call[u].conf \in Confs
      BY <2>5, AtLabel DEF LocalOK, Walking
    <2> QED BY <1>2, <2>2, <2>5, <2>6 DEF Dev
  <1> QED BY <1>4, <1>5, <1>6 DEF RegInv, TableInv, KnownOK

LEMMA FindEmptyKeeps ==
  ASSUME CallersTakeCare, RegInv, Base', NEW t \in Tasks, FindEmpty(t)
  PROVE  RegInv'
  <1>1. PICK c : c = call[t]
    OBVIOUS
  <1>2. /\ pc[t] = "empty" /\ UNCHANGED <<data, fault>> /\ c \in CallType
        /\ c.efs = NULL /\ c.op \in {"register", "format"} /\ (c.op = "format" => c.tmp)
        /\ c.idx = 0 /\ c.op = "register" => vfs[c.conf] = NULL
    BY <1>1, AtLabel DEF FindEmpty, At, LocalOK, Walking, PlaceOf, Starting
  <1>3. /\ c.tmp => c.op = "format" /\ SlotsOf(Device[c.conf]) = {}
        /\ Held(t) = NULL /\ c.idx = 0
    BY <1>1, <1>2, AtLabel DEF LocalOK, PlaceOf, HeldOf, Starting
  <1>4. ASSUME NEW r, SameCall(r, c), r.tmp = c.tmp,
               NEW l \in {"empty", "dup", "create", "fail"}, Goto(t, l), Local(t, r),
               l \in {"dup", "create"} => slot[r.idx] = NULL,
               l \in {"empty", "fail"} => r.idx = 0,
               l = "dup" => r.i = 1 /\ r.p = NULL,
               l = "create" => SlotsOf(Device[c.conf]) = {}
        PROVE  RegInv'
    <2>1. r.op = c.op /\ r.conf = c.conf /\ r.efs = NULL
      BY <1>2, <1>4 DEF SameCall
    <2>2. PlaceOf(r, l)
      BY <1>2, <1>3, <1>4, <2>1 DEF PlaceOf, Starting, Published
    <2>3. WalkOf(r, l)
      BY <1>4, ZeroIsNoIndex DEF WalkOf, Walking, SlotsOf, Indices
    <2>4. HeldOf(r, l) = Held(t)
      BY <1>3, <1>4, <2>1 DEF HeldOf
    <2>5. call' = [call EXCEPT ![t] = r] /\ Goto(t, l)
      BY <1>4 DEF Local
    <2> QED BY <1>1, <1>2, <2>1, <2>2, <2>3, <2>4, <2>5, QuietData, Quiet
  <1>5. CASE c.i \in Indices /\ Local(t, NextEntry(c)) /\ UNCHANGED pc
    <2>1. PICK r : r = NextEntry(c)
      OBVIOUS
    <2>2. SameCall(r, c) /\ r.tmp = c.tmp /\ r.idx = c.idx
      BY <1>2, <1>5, <2>1, WalkFields
    <2>3. Goto(t, "empty")
      BY <1>2, <1>5, AtLabel DEF Goto, TypeOK
    <2> QED BY <1>3, <1>4, <1>5, <2>1, <2>2, <2>3
  <1>6. ASSUME c.i \in Indices, slot[c.i] = NULL, Local(t, [Rewound(c) EXCEPT !.idx = c.i]),
               NEW l \in {"create", "dup"}, Goto(t, l), l = "create" => c.conf \in Unchecked
        PROVE  RegInv'
    <2>1. PICK r : r = FoundAt(c, c.i)
      OBVIOUS
    <2>2. SameCall(r, c) /\ r.tmp = c.tmp /\ r.idx = c.i /\ r.i = 1 /\ r.p = NULL
      BY <1>2, <1>6, <2>1, CallFields
    <2>3. l = "create" => SlotsOf(Device[c.conf]) = {}
      BY <1>1, <1>2, <1>6, NoDuplicate DEF Dev
    <2> QED BY <1>4, <1>6, <2>1, <2>2, <2>3 DEF FoundAt
  <1>7. CASE Local(t, Rewound(c)) /\ Goto(t, "fail")
    <2>1. PICK r : r = Rewound(c)
      OBVIOUS
    <2>2. SameCall(r, c) /\ r.tmp = c.tmp /\ r.idx = c.idx
      BY <1>2, <2>1, WalkFields
    <2> QED BY <1>3, <1>4, <1>7, <2>1, <2>2
  <1> QED BY <1>1, <1>5, <1>6, <1>7 DEF FindEmpty

LEMMA FindDuplicateKeeps ==
  ASSUME CallersTakeCare, RegInv, Base', NEW t \in Tasks, FindDuplicate(t)
  PROVE  RegInv'
  <1>1. PICK c : c = call[t]
    OBVIOUS
  <1>2. /\ pc[t] = "dup" /\ pc[t] \in Walking /\ UNCHANGED <<data, fault>>
    BY DEF FindDuplicate, At, Walking
  <1>3. /\ c \in CallType /\ c.efs = NULL /\ (c.op = "format" => c.tmp)
        /\ c.op \in {"register", "format"} /\ c.idx \in Indices
        /\ c.op = "register" => vfs[c.conf] = NULL
        /\ c.tmp => SlotsOf(Dev(t)) = {}
        /\ slot[c.idx] = NULL
        /\ Held(t) = NULL /\ Dev(t) = Device[c.conf] /\ (c.tmp => c.op = "format")
    BY <1>1, <1>2, AtLabel DEF LocalOK, PlaceOf, HeldOf, Dev, Inside
  <1>4. CASE Found(t) /\ Local(t, [Rewound(c) EXCEPT !.idx = c.i]) /\ Goto(t, "fail")
    <2>1. PICK r : r = FoundAt(c, c.i)
      OBVIOUS
    <2>2. c.i \in Indices /\ SlotsOf(Dev(t)) # {}
      BY <1>1, <1>2, <1>4, WalkFinds
    <2>3. SameCall(r, c) /\ r.tmp = c.tmp
      BY <1>3, <2>1, <2>2, CallFields
    <2>4. r.op = "register" /\ r.efs = NULL /\ r.op = c.op /\ r.conf = c.conf /\ ~r.tmp
      BY <1>3, <2>2, <2>3 DEF SameCall
    <2>5. /\ PlaceOf(r, "fail") /\ HeldOf(r, "fail") = NULL /\ WalkOf(r, "fail")
      BY <1>3, <2>4 DEF PlaceOf, HeldOf, WalkOf, Walking, Published
    <2>6. call' = [call EXCEPT ![t] = r]
      BY <1>4, <2>1 DEF Local, FoundAt
    <2> QED BY <1>1, <1>2, <1>3, <1>4, <2>4, <2>5, <2>6, QuietData, Quiet
  <1>5. CASE NotFound(t) /\ Local(t, Rewound(c)) /\ Goto(t, "create")
    <2>1. PICK r : r = Rewound(c)
      OBVIOUS
    <2>2. SameCall(r, c) /\ r.tmp = c.tmp /\ r.idx = c.idx
      BY <1>3, <2>1, WalkFields
    <2>3. r.op = c.op /\ r.efs = NULL /\ r.conf = c.conf
      BY <1>3, <2>2 DEF SameCall
    <2>4. SlotsOf(Dev(t)) = {}
      BY <1>2, <1>5, WalkEnds
    <2>5. PlaceOf(r, "create") /\ HeldOf(r, "create") = NULL /\ WalkOf(r, "create")
      BY <1>3, <2>2, <2>3, <2>4 DEF PlaceOf, HeldOf, WalkOf, Walking, Published
    <2>6. call' = [call EXCEPT ![t] = r]
      BY <1>5, <2>1 DEF Local
    <2> QED BY <1>1, <1>2, <1>3, <1>5, <2>3, <2>5, <2>6, QuietData, Quiet
  <1> QED BY <1>1, <1>4, <1>5 DEF FindDuplicate

(* What a task that mounts knows of its context. *)
LEMMA MountFacts ==
  ASSUME RegInv, NEW t \in Tasks,
         pc[t] \in {"mount", "relookup", "reformat", "remount", "finish"}
  PROVE  /\ call[t] \in CallType /\ call[t].op = "register" /\ ~call[t].tmp
         /\ call[t].efs \in Ctxs /\ call[t].efs # NULL
         /\ call[t].idx \in Indices /\ vfs[call[t].conf] = NULL
         /\ slot[call[t].idx] = call[t].efs /\ ctx[call[t].efs].base = {}
         /\ Held(t) = call[t].efs /\ call[t].efs \in heap
         /\ call[t].idx \in SlotsOf(Dev(t))
  <1>1. /\ call[t] \in CallType /\ call[t].op = "register" /\ ~call[t].tmp
        /\ call[t].efs \in Ctxs /\ call[t].efs # NULL /\ call[t].idx \in Indices
    BY AtLabel, RegistryAssumption DEF LocalOK, Published, RegistryAssumption
  <1>2. /\ vfs[call[t].conf] = NULL /\ slot[call[t].idx] = call[t].efs
        /\ ctx[call[t].efs].base = {} /\ Held(t) = call[t].efs
    BY <1>1, AtLabel DEF PlaceOf, HeldOf, Published
  <1>3. call[t].efs \in heap /\ ctx[call[t].efs].dev = Dev(t)
    BY <1>1, <1>2, HeldIsContext
  <1> QED BY <1>1, <1>2, <1>3 DEF SlotsOf

(* A call with the same context at another label of the mount.             *)
LEMMA MountMoves ==
  ASSUME RegInv, NEW t \in Tasks,
         pc[t] \in {"mount", "relookup", "reformat", "remount", "finish"},
         NEW r, SameCall(r, call[t]), r.tmp = call[t].tmp, r.idx = call[t].idx,
         NEW l \in {"relookup", "reformat", "remount", "finish", "done", "fail"},
         l = "reformat" => r.i = r.idx
  PROVE  PlaceOf(r, l) /\ HeldOf(r, l) = Held(t)
  <1>1. PICK c : c = call[t]
    OBVIOUS
  <1>2. r.op = c.op /\ r.conf = c.conf /\ r.efs = c.efs /\ r.tmp = c.tmp /\ r.idx = c.idx
    BY <1>1 DEF SameCall
  <1>3. /\ c.op = "register" /\ ~c.tmp /\ c.efs # NULL
        /\ vfs[c.conf] = NULL /\ slot[c.idx] = c.efs /\ ctx[c.efs].base = {}
        /\ Held(t) = c.efs
    BY <1>1, MountFacts
  <1> QED BY <1>2, <1>3 DEF PlaceOf, HeldOf, Published

(* lfs_mount finds the context.                                            *)
LEMMA MountKeeps ==
  ASSUME CallersTakeCare, RegInv, Base', NEW t \in Tasks, Mount(t) \/ Finish(t)
  PROVE  RegInv'
  <1>1. /\ pc[t] \in {"mount", "remount", "finish"}
        /\ UNCHANGED <<slot, heap, vfs, call>>
    BY DEF Mount, Finish, At, Crash, data
  <1>2. call[t].efs \in heap /\ call[t] \in CallType /\ call[t].efs \in Ctxs
    BY <1>1, MountFacts
  <1>3. fault' = fault
    BY <1>2 DEF Mount, Finish
  <1>4. KeepsCtx
    BY <1>2, SameCtx, MarkCtx, AtLabel DEF Mount, Finish, data
  <1>5. PICK l \in {"finish", "fail", "relookup", "done"} : Goto(t, l)
    BY <1>2 DEF Mount, Finish
  <1>6. PlaceOf(call[t], l) /\ HeldOf(call[t], l) = Held(t)
    BY <1>1, <1>2, MountMoves DEF SameCall
  <1>7. WalkOf(call[t], l)
    <2>1. call[t].i = 1 /\ call[t].p = NULL
      BY <1>1, AtLabel DEF LocalOK, Walking
    <2> QED BY <2>1, ZeroIsNoIndex DEF WalkOf, SlotsOf, Indices
  <1> QED BY <1>1, <1>3, <1>4, <1>5, <1>6, <1>7, QuietGoto

(* The reformat finds the volume, in the slot where it was published.      *)
LEMMA LookUpAgainKeeps ==
  ASSUME CallersTakeCare, RegInv, Base', NEW t \in Tasks, LookUpAgain(t)
  PROVE  RegInv'
  <1>1. PICK c : c = call[t]
    OBVIOUS
  <1>2. /\ pc[t] = "relookup" /\ pc[t] \in Walking /\ UNCHANGED <<data, fault>>
    BY DEF LookUpAgain, At, Walking
  <1>3. c \in CallType /\ c.idx \in Indices /\ c.idx \in SlotsOf(Dev(t))
    BY <1>1, <1>2, MountFacts
  <1>4. ~NotFound(t)
    BY <1>2, <1>3, WalkEnds
  <1>5. Found(t) /\ Local(t, [c EXCEPT !.p = NULL]) /\ Goto(t, "reformat")
    BY <1>1, <1>4 DEF LookUpAgain
  <1>6. c.i = c.idx
    <2>1. c.i \in SlotsOf(Dev(t))
      BY <1>1, <1>2, <1>5, WalkFinds
    <2> QED BY <1>3, <2>1 DEF SlotsOf, RegInv, TableInv, OneContextPerDevice
  <1>7. PICK r : r = WithP(c, NULL)
    OBVIOUS
  <1>8. SameCall(r, c) /\ r.tmp = c.tmp /\ r.idx = c.idx /\ r.i = c.i
    BY <1>3, <1>7, WalkFields
  <1>9. PlaceOf(r, "reformat") /\ HeldOf(r, "reformat") = Held(t)
    BY <1>1, <1>2, <1>6, <1>8, MountMoves
  <1>10. WalkOf(r, "reformat") /\ r.op = c.op /\ r.conf = c.conf
    BY <1>8 DEF WalkOf, Walking, SameCall
  <1>11. call' = [call EXCEPT ![t] = r]
    BY <1>5, <1>7 DEF Local, WithP
  <1> QED BY <1>1, <1>2, <1>5, <1>9, <1>10, <1>11, QuietData, Quiet

LEMMA ReformatKeeps ==
  ASSUME CallersTakeCare, RegInv, Base', NEW t \in Tasks, Reformat(t)
  PROVE  RegInv'
  <1>1. PICK c : c = call[t]
    OBVIOUS
  <1>2. pc[t] = "reformat" /\ UNCHANGED <<slot, heap, vfs>>
    BY DEF Reformat, At
  <1>3. c \in CallType /\ slot[c.i] # NULL
    <2>1. c.i = c.idx
      BY <1>1, <1>2, AtLabel DEF PlaceOf
    <2> QED BY <1>1, <1>2, <2>1, MountFacts
  <1>4. PICK ok \in BOOLEAN : /\ FormatFromEfs(slot[c.i], ok) /\ Local(t, Rewound(c))
                              /\ Goto(t, IF ok THEN "remount" ELSE "fail") /\ fault' = fault
    BY <1>1, <1>3 DEF Reformat
  <1>5. KeepsCtx
    BY <1>4, FormatCtx, AtLabel
  <1>6. PICK r : r = Rewound(c)
    OBVIOUS
  <1>7. PICK l \in {"remount", "fail"} : Goto(t, l)
    BY <1>4
  <1>8. SameCall(r, c) /\ r.tmp = c.tmp /\ r.idx = c.idx
    BY <1>3, <1>6, WalkFields
  <1>9. PlaceOf(r, l) /\ HeldOf(r, l) = Held(t)
    BY <1>1, <1>2, <1>8, MountMoves
  <1>10. WalkOf(r, l) /\ r.op = c.op /\ r.conf = c.conf
    BY <1>8 DEF WalkOf, Walking, SameCall
  <1>11. call' = [call EXCEPT ![t] = r]
    BY <1>4, <1>6 DEF Local
  <1> QED BY <1>1, <1>2, <1>4, <1>5, <1>7, <1>9, <1>10, <1>11, Quiet

LEMMA InitDoneKeeps ==
  ASSUME CallersTakeCare, RegInv, Base', NEW t \in Tasks, InitDone(t)
  PROVE  RegInv'
  <1>1. pc[t] = "done" /\ UNCHANGED <<data, call, fault>>
    BY DEF InitDone, At
  <1>2. PICK l : Goto(t, l) /\ l = IF call[t].op = "register" THEN "base" ELSE "format"
    BY DEF InitDone
  <1>3. /\ call[t].op \in {"register", "format"} /\ call[t].efs \in Ctxs
        /\ call[t].idx \in Indices /\ (call[t].op = "format" <=> call[t].tmp)
    BY <1>1, AtLabel DEF LocalOK, Walking, Published, Inside, CallType
  <1>4. call[t].efs # NULL
    BY <1>3, RegistryAssumption DEF RegistryAssumption
  <1>5. /\ slot[call[t].idx] = call[t].efs /\ Held(t) = call[t].efs
        /\ call[t].op = "register" => vfs[call[t].conf] = NULL /\ ctx[call[t].efs].base = {}
    BY <1>1, <1>3, <1>4, AtLabel DEF PlaceOf, HeldOf, Published
  <1>6. ctx[call[t].efs].dev = Device[call[t].conf]
    BY <1>4, <1>5, HeldIsContext DEF Dev
  <1>7. PlaceOf(call[t], l) /\ HeldOf(call[t], l) = Held(t) /\ l \notin Walking
    BY <1>2, <1>3, <1>4, <1>5, <1>6 DEF PlaceOf, HeldOf, Walking, Published, Starting
  <1> QED BY <1>1, <1>2, <1>7, QuietData, QuietGoto

(***************************************************************************)
(* The quiet steps of the other calls.                                     *)
(***************************************************************************)
LEMMA FindVolumeKeeps ==
  ASSUME CallersTakeCare, RegInv, Base', NEW t \in Tasks, FindVolume(t)
  PROVE  RegInv'
  <1>1. PICK c : c = call[t]
    OBVIOUS
  <1>2. pc[t] = "lookup" /\ pc[t] \in Walking /\ UNCHANGED <<data, fault>>
    BY DEF FindVolume, At, Walking
  <1>3. /\ c \in CallType /\ c.op \in {"unregister", "format", "query"}
        /\ ~c.tmp /\ c.efs = NULL /\ Held(t) = NULL /\ Dev(t) = Device[c.conf]
    BY <1>1, <1>2, AtLabel DEF LocalOK, HeldOf, Dev
  <1>4. ASSUME NEW l, l = CASE c.op = "unregister" -> "unvfs"
                            [] c.op = "format"     -> "format"
                            [] OTHER               -> "deref",
               Found(t), Local(t, [Rewound(c) EXCEPT !.idx = c.i]), Goto(t, l)
        PROVE  RegInv'
    <2>1. PICK r : r = FoundAt(c, c.i)
      OBVIOUS
    <2>2. c.i \in Indices /\ c.i \in SlotsOf(Dev(t))
      BY <1>1, <1>2, <1>4, WalkFinds
    <2>3. SameCall(r, c) /\ r.tmp = c.tmp /\ r.idx = c.i
      BY <1>3, <2>1, <2>2, CallFields
    <2>4. r.op = c.op /\ r.conf = c.conf /\ r.efs = NULL /\ ~r.tmp
      BY <1>3, <2>3 DEF SameCall
    <2>5. slot[r.idx] # NULL /\ ctx[slot[r.idx]].dev = Device[r.conf]
      BY <1>3, <2>2, <2>3, <2>4 DEF SlotsOf
    <2>6. \/ r.op = "unregister" /\ l = "unvfs"
          \/ r.op = "format" /\ l = "format"
          \/ r.op = "query" /\ l = "deref"
      BY <1>3, <1>4, <2>4
    <2>7. PlaceOf(r, l) /\ HeldOf(r, l) = NULL /\ WalkOf(r, l)
      BY <2>4, <2>5, <2>6 DEF PlaceOf, HeldOf, WalkOf, Walking, Published
    <2>8. call' = [call EXCEPT ![t] = r]
      BY <1>4, <2>1 DEF Local, FoundAt
    <2> QED BY <1>1, <1>2, <1>3, <1>4, <2>4, <2>7, <2>8, QuietData, Quiet
  <1>5. CASE NotFound(t) /\ c.op = "format" /\ Local(t, [Rewound(c) EXCEPT !.tmp = TRUE])
             /\ Goto(t, "init")
    <2>1. PICK r : r = AsTmp(c)
      OBVIOUS
    <2>2. SameCall(r, c)
      BY <1>3, <2>1, CallFields
    <2>3. r.op = "format" /\ r.conf = c.conf /\ r.efs = NULL
      BY <1>3, <1>5, <2>2 DEF SameCall
    <2>4. SlotsOf(Device[r.conf]) = {}
      BY <1>2, <1>3, <1>5, <2>3, WalkEnds
    <2>5. PlaceOf(r, "init") /\ HeldOf(r, "init") = NULL /\ WalkOf(r, "init")
      BY <2>3, <2>4 DEF PlaceOf, HeldOf, WalkOf, Walking, Published
    <2>6. call' = [call EXCEPT ![t] = r]
      BY <1>5, <2>1 DEF Local, AsTmp
    <2> QED BY <1>1, <1>2, <1>3, <1>5, <2>3, <2>5, <2>6, QuietData, Quiet
  <1>6. CASE Return(t)
    BY <1>2, <1>3, <1>6, QuietData, QuietReturn
  <1> QED BY <1>1, <1>4, <1>5, <1>6 DEF FindVolume

LEMMA FormatVolumeKeeps ==
  ASSUME CallersTakeCare, RegInv, Base', NEW t \in Tasks, FormatVolume(t)
  PROVE  RegInv'
  <1>1. pc[t] = "format" /\ UNCHANGED <<slot, heap, vfs>>
    BY DEF FormatVolume, At
  <1>2. /\ call[t].op = "format" /\ call[t].idx \in Indices /\ slot[call[t].idx] # NULL
        /\ call[t].tmp => slot[call[t].idx] = call[t].efs
        /\ ~call[t].tmp => call[t].efs = NULL
        /\ Held(t) = call[t].efs
    BY <1>1, AtLabel DEF LocalOK, Walking, PlaceOf, HeldOf, CallType
  <1>3. Goto(t, "cleanup") /\ UNCHANGED <<call, fault>> /\ KeepsCtx
    BY <1>2, FormatCtx, AtLabel DEF FormatVolume
  <1>4. /\ PlaceOf(call[t], "cleanup") /\ HeldOf(call[t], "cleanup") = Held(t)
        /\ "cleanup" \notin Walking
    BY <1>2, ZeroIsNoIndex DEF PlaceOf, HeldOf, Walking, Published, Starting
  <1> QED BY <1>1, <1>3, <1>4, QuietGoto

LEMMA QueryKeeps ==
  ASSUME CallersTakeCare, RegInv, Base', NEW t \in Tasks, ReadSlot(t) \/ UseContext(t)
  PROVE  RegInv'
  <1>1. pc[t] \in {"deref", "use"} /\ UNCHANGED data
    BY DEF ReadSlot, UseContext, At
  <1>2. /\ call[t].op = "query" /\ call[t].idx \in Indices /\ call[t] \in CallType
        /\ Held(t) = NULL
    BY <1>1, AtLabel DEF LocalOK, Walking, HeldOf
  <1>3. CASE ReadSlot(t)
    <2>1. pc[t] = "deref"
      BY <1>3 DEF ReadSlot, At
    <2>2. slot[call[t].idx] # NULL /\ ctx[slot[call[t].idx]].dev = Device[call[t].conf]
      BY <2>1, AtLabel DEF PlaceOf
    <2>3. PICK c : c = WithEfs(call[t], slot[call[t].idx])
      OBVIOUS
    <2>4. Goto(t, "use") /\ call' = [call EXCEPT ![t] = c] /\ fault' = fault
      BY <1>3, <2>2, <2>3 DEF ReadSlot, Local, WithEfs
    <2>5. slot[call[t].idx] \in Ctxs
      BY <1>2, <2>2, SlottedIsContext
    <2>6. /\ c.op = "query" /\ c.conf = call[t].conf /\ c.efs = slot[call[t].idx]
      BY <1>2, <2>3, <2>5, CallFields
    <2>7. ~c.tmp
      <3>1. c.tmp = call[t].tmp
        BY <1>2, <2>3, <2>5, CallFields
      <3> QED BY <1>2, <3>1, AtLabel DEF LocalOK, Walking
    <2>8. PlaceOf(c, "use") /\ HeldOf(c, "use") = NULL /\ WalkOf(c, "use")
      BY <1>2, <2>2, <2>6, <2>7 DEF PlaceOf, HeldOf, WalkOf, Walking, Published, Slotted
    <2> QED BY <1>1, <1>2, <2>4, <2>6, <2>8, QuietData, Quiet
  <1>4. CASE UseContext(t)
    <2>1. pc[t] = "use"
      BY <1>4 DEF UseContext, At
    <2>2. Slotted(call[t].efs) /\ call[t].efs \in Ctxs
      BY <2>1, AtLabel DEF PlaceOf, LocalOK, Walking
    <2>3. call[t].efs \in heap
      BY <2>2 DEF RegInv, TableInv, HeapOK
    <2> QED BY <1>1, <1>2, <1>4, <2>3, QuietData, QuietReturn DEF UseContext
  <1> QED BY <1>3, <1>4

LEMMA FileCallKeeps ==
  ASSUME CallersTakeCare, RegInv, Base', NEW t \in Tasks, EnterVolume(t) \/ LeaveVolume(t)
  PROVE  RegInv'
  <1>1. pc[t] \in {"enter", "leave"} /\ UNCHANGED <<slot, heap, vfs>>
    BY DEF EnterVolume, LeaveVolume, At
  <1>2. /\ call[t].op = "file" /\ call[t].conf \in Confs /\ call[t].efs \in Ctxs
        /\ vfs[call[t].conf] = call[t].efs /\ Held(t) = NULL /\ ~call[t].tmp
    BY <1>1, AtLabel DEF LocalOK, Walking, PlaceOf, HeldOf
  <1>3. call[t].efs # NULL
    BY <1>2, RegistryAssumption DEF RegistryAssumption
  <1>4. call[t].efs \in heap
    BY <1>2, <1>3 DEF RegInv, TableInv, MountedOK, Mounted, HeapOK
  <1>5. KeepsCtx /\ fault' = fault
    BY <1>4, LockCtx, AtLabel DEF EnterVolume, LeaveVolume
  <1>6. CASE EnterVolume(t)
    <2>1. Goto(t, "leave") /\ call' = call
      BY <1>4, <1>6 DEF EnterVolume
    <2>2. PlaceOf(call[t], "leave") /\ HeldOf(call[t], "leave") = Held(t) /\ "leave" \notin Walking
      BY <1>2 DEF PlaceOf, HeldOf, Walking, Published
    <2> QED BY <1>1, <1>5, <2>1, <2>2, QuietGoto
  <1>7. CASE LeaveVolume(t)
    BY <1>1, <1>2, <1>4, <1>5, <1>7, QuietReturn DEF LeaveVolume
  <1> QED BY <1>6, <1>7

(* The second emptying of a slot, after unregister has freed it.           *)
LEMMA ClearSlotKeeps ==
  ASSUME CallersTakeCare, RegInv, Base', NEW t \in Tasks, ClearSlot(t)
  PROVE  RegInv'
  <1>1. /\ pc[t] = "clear" /\ UNCHANGED <<heap, ctx, vfs, fault>> /\ Return(t)
        /\ slot' = [slot EXCEPT ![call[t].idx] = NULL]
    BY DEF ClearSlot, At
  <1>2. slot[call[t].idx] = NULL /\ Held(t) = NULL
    BY <1>1, AtLabel DEF LocalOK, Walking, PlaceOf, HeldOf
  <1>3. slot' = slot /\ KeepsCtx
    BY <1>1, <1>2, SameCtx, AtLabel DEF TypeOK
  <1> QED BY <1>1, <1>2, <1>3, QuietReturn

LEMMA NullIsNoContext == NULL \notin Ctxs
  BY RegistryAssumption DEF RegistryAssumption

LEMMA BeginKeeps ==
  ASSUME CallersTakeCare, RegInv, Base', NEW t \in Tasks, NEW op \in Ops, NEW c \in Confs,
         Begin(t, op, c)
  PROVE  RegInv'
  <1>1. PICK r : r = [NoCall EXCEPT !.op = op, !.conf = c,
                                    !.efs = IF op = "file" THEN vfs[c] ELSE NULL]
    OBVIOUS
  <1>2. PICK l : l = CASE op = "register" -> "init"
                       [] op = "file"     -> "enter"
                       [] OTHER           -> "lookup"
    OBVIOUS
  <1>3. /\ pc[t] = "idle" /\ Goto(t, l) /\ call' = [call EXCEPT ![t] = r]
        /\ UNCHANGED <<data, fault>>
        /\ \A u \in Active : {op, call[u].op} \in IF Dev(u) = Device[c] THEN OneDevice ELSE Overlap
        /\ op = "register" => vfs[c] = NULL /\ \A u \in Active : call[u].conf # c
    BY <1>1, <1>2 DEF Begin, Local, At
  <1>4. /\ r.op = op /\ r.conf = c /\ r.idx = 0 /\ ~r.tmp
        /\ r.efs = IF op = "file" THEN vfs[c] ELSE NULL
        /\ r.i = 1 /\ r.p = NULL
    BY <1>1 DEF NoCall
  <1>5. \/ op = "register" /\ l = "init"
        \/ op = "file" /\ l = "enter"
        \/ op \in {"unregister", "format", "query"} /\ l = "lookup"
    BY <1>2 DEF Ops
  <1>6. PlaceOf(r, l) /\ HeldOf(r, l) = NULL /\ WalkOf(r, l)
    BY <1>3, <1>4, <1>5, ZeroIsNoIndex DEF PlaceOf, HeldOf, WalkOf, SlotsOf, Indices, Published
  <1>7. /\ pc'[t] = l /\ call'[t] = r
        /\ \A u \in Tasks \ {t} : pc'[u] = pc[u] /\ call'[u] = call[u]
    BY <1>3, Moves DEF RegInv
  <1>8. QuietStep(t)
    BY <1>3, <1>7, QuietData DEF QuietStep
  <1>9. LocalOK(r, l) /\ r \in CallType /\ l \in Labels
    BY <1>7 DEF Base, TypeOK, CallType, Turns
  <1>10. Held(t) = NULL
    BY <1>3, AtLabel DEF HeldOf, LocalOK, Walking
  <1>11. Held(t)' = Held(t)
    BY <1>6, <1>7, <1>8, <1>10 DEF QuietStep, Held, HeldOf
  <1>12. Disciplined'
    <2> SUFFICES ASSUME NEW a \in Active', NEW b \in Active', a # b
                 PROVE  /\ {call'[a].op, call'[b].op} \in IF Dev(a)' = Dev(b)' THEN OneDevice ELSE Overlap
                        /\ call'[a].op = "register" /\ call'[b].op = "register" =>
                             call'[a].conf # call'[b].conf
      BY DEF Disciplined
    <2>1. \A w \in Active' : w # t => w \in Active /\ call'[w] = call[w] /\ Dev(w)' = Dev(w)
      BY <1>7 DEF Active, At, Dev
    <2>2. call'[t].op = op /\ call'[t].conf = c /\ Dev(t)' = Device[c]
      BY <1>4, <1>7 DEF Dev
    <2>3. CASE a # t /\ b # t
      <3>1. a \in Active /\ b \in Active
        BY <2>1, <2>3
      <3>2. /\ {call[a].op, call[b].op} \in IF Dev(a) = Dev(b) THEN OneDevice ELSE Overlap
            /\ call[a].op = "register" /\ call[b].op = "register" => call[a].conf # call[b].conf
        BY <3>1 DEF RegInv, Disciplined
      <3> QED BY <2>1, <2>3, <3>2
    <2>4. CASE a = t
      <3>1. b \in Active /\ call'[b] = call[b] /\ Dev(b)' = Dev(b)
        BY <2>1, <2>4
      <3> QED BY <1>3, <2>2, <2>4, <3>1
    <2>5. CASE b = t
      <3>1. a \in Active /\ call'[a] = call[a] /\ Dev(a)' = Dev(a)
        BY <2>1, <2>5
      <3>2. {op, call[a].op} = {call[a].op, op}
        OBVIOUS
      <3> QED BY <1>3, <2>2, <2>5, <3>1, <3>2
    <2> QED BY <2>3, <2>4, <2>5
  <1>13. TableInv'
    BY <1>8, <1>10, <1>11, QuietTable
  <1>14. Place(t)' /\ Walk(t)'
    BY <1>6, <1>7, <1>8, <1>9, QuietPlace, QuietWalk
  <1>15. OnlyWalksFault'
    BY <1>3 DEF RegInv, OnlyWalksFault
  <1> QED BY <1>8, <1>12, <1>13, <1>14, <1>15, Gather, QuietFootprint

(* A task is where its label and locals say.                               *)
LEMMA Arrives ==
  ASSUME NEW u, NEW l, NEW c, pc'[u] = l, call'[u] = c, PlaceOf(c, l)'
  PROVE  Place(u)'
  BY DEF Place, PlaceOf

(***************************************************************************)
(* A task frees the context it owns and takes it out of its slot.          *)
(***************************************************************************)
LEMMA Release ==
  ASSUME CallersTakeCare, RegInv, Base', NEW u \in Tasks, NEW l, NEW c,
         Goto(u, l), call' = [call EXCEPT ![u] = c],
         c.op = "none" \/ (c.op = call[u].op /\ c.conf = call[u].conf),
         Held(u) # NULL, heap' = heap \ {Held(u)}, UNCHANGED <<ctx, vfs>>,
         \A i \in Indices : slot'[i] = IF slot[i] = Held(u) THEN NULL ELSE slot[i],
         fault' = fault, HeldOf(c, l)' = NULL, PlaceOf(c, l)', l \notin Walking
  PROVE  RegInv'
  <1>1. /\ pc'[u] = l /\ call'[u] = c
        /\ \A t \in Tasks \ {u} : pc'[t] = pc[t] /\ call'[t] = call[t]
    BY Moves DEF RegInv
  <1>2. Footprint(u)
    BY <1>1 DEF Footprint
  <1>3. PICK y : y = Held(u)
    OBVIOUS
  <1>4. /\ y \in Ctxs /\ y \in heap /\ y # NULL
        /\ \A p \in Confs : vfs[p] # y
        /\ \A t \in Tasks \ {u} : Held(t) # y
    BY <1>3, HeldIsContext
  <1>5. Held(u)' = NULL
    BY <1>1 DEF Held, HeldOf
  <1>6. \A t \in Tasks \ {u} : Held(t)' = Held(t) /\ Dev(t)' = Dev(t)
    BY <1>2, OthersOwn
  <1>7. \A x \in Ctxs : Slotted(x)' <=> (Slotted(x) /\ x # y)
    BY <1>3, NullIsNoContext DEF Slotted
  <1>8. \A x \in Ctxs : (\E t \in Tasks : Held(t)' = x) <=> (x # y /\ \E t \in Tasks : Held(t) = x)
    BY <1>3, <1>4, <1>5, <1>6, NullIsNoContext
  <1>9. HeapOK'
    BY <1>3, <1>7, <1>8 DEF RegInv, TableInv, HeapOK
  <1>10. KnownOK'
    BY <1>7, <1>8 DEF RegInv, TableInv, KnownOK
  <1>11. MountedOK'
    <2> SUFFICES ASSUME NEW p \in Confs, vfs'[p] # NULL
                 PROVE  /\ \E i \in Indices : slot'[i] = vfs'[p]
                        /\ ctx'[vfs'[p]].dev = Device[p] /\ ctx'[vfs'[p]].base = {p}
      BY DEF MountedOK, Mounted, Slotted
    <2>1. Slotted(vfs[p]) /\ ctx[vfs[p]].dev = Device[p] /\ ctx[vfs[p]].base = {p}
      BY DEF RegInv, TableInv, MountedOK, Mounted
    <2>2. PICK i \in Indices : slot[i] = vfs[p]
      BY <2>1 DEF Slotted
    <2> QED BY <1>3, <1>4, <2>1, <2>2
  <1>12. HeldOK'
    <2> SUFFICES ASSUME NEW t \in Tasks, Held(t)' # NULL
                 PROVE  /\ ctx'[Held(t)'].dev = Dev(t)'
                        /\ \A p \in Confs : vfs'[p] # Held(t)'
                        /\ \A v \in Tasks \ {t} : Held(v)' # Held(t)'
      BY DEF HeldOK
    <2>1. t # u
      BY <1>5
    <2>2. Held(t)' = Held(t) /\ Dev(t)' = Dev(t)
      BY <1>6, <2>1
    <2>3. /\ ctx[Held(t)].dev = Dev(t) /\ \A p \in Confs : vfs[p] # Held(t)
          /\ \A v \in Tasks \ {t} : Held(v) # Held(t)
      BY <2>2, HeldIsContext
    <2> QED BY <1>5, <1>6, <2>2, <2>3
  <1>13. OneContextPerDevice'
    <2>1. \A i \in Indices : slot'[i] # NULL => slot'[i] = slot[i]
      OBVIOUS
    <2> QED BY <2>1 DEF RegInv, TableInv, OneContextPerDevice
  <1>14. Place(u)' /\ Walk(u)'
    <2>1. Walk(u)'
      BY <1>1 DEF Walk, WalkOf
    <2>2. Place(u)'
      BY <1>1, Arrives
    <2> QED BY <2>1, <2>2
  <1>15. Disciplined'
    BY <1>1, StaysDisciplined
  <1>16. OnlyWalksFault'
    BY DEF RegInv, OnlyWalksFault
  <1> QED BY <1>2, <1>9, <1>10, <1>11, <1>12, <1>13, <1>14, <1>15, <1>16, Gather DEF TableInv

(* A context is in one slot. *)
LEMMA OneSlot ==
  ASSUME RegInv, NEW i \in Indices, slot[i] # NULL
  PROVE  \A j \in Indices : slot[j] = slot[i] <=> j = i
  BY DEF RegInv, TableInv, OneContextPerDevice

LEMMA NoCallPlaceNext == PlaceOf(NoCall, "idle")' /\ HeldOf(NoCall, "idle")' = NULL
  BY DEF PlaceOf, HeldOf, NoCall, Published, Starting

LEMMA ReleaseReturn ==
  ASSUME CallersTakeCare, RegInv, Base', NEW u \in Tasks, Return(u),
         Held(u) # NULL, heap' = heap \ {Held(u)}, UNCHANGED <<ctx, vfs, fault>>,
         \A i \in Indices : slot'[i] = IF slot[i] = Held(u) THEN NULL ELSE slot[i]
  PROVE  RegInv'
  <1>1. NoCall.op = "none"
    BY DEF NoCall
  <1> QED BY <1>1, Release, NoCallPlaceNext DEF Return, Local, Walking

LEMMA ReleaseGoto ==
  ASSUME CallersTakeCare, RegInv, Base', NEW u \in Tasks, NEW l, Goto(u, l),
         Held(u) # NULL, heap' = heap \ {Held(u)}, UNCHANGED <<call, ctx, vfs, fault>>,
         \A i \in Indices : slot'[i] = IF slot[i] = Held(u) THEN NULL ELSE slot[i],
         NEW c, c = call[u], HeldOf(c, l)' = NULL, PlaceOf(c, l)', l \notin Walking
  PROVE  RegInv'
  <1>1. call' = [call EXCEPT ![u] = c]
    BY DEF RegInv, Base, TypeOK
  <1> QED BY <1>1, Release

(* A failed initialisation frees what it has made, and only that.          *)
LEMMA InitFailsKeeps ==
  ASSUME CallersTakeCare, RegInv, Base', NEW t \in Tasks, InitFails(t)
  PROVE  RegInv'
  <1>1. PICK c : c = call[t]
    OBVIOUS
  <1>2. /\ pc[t] = "fail" /\ UNCHANGED <<ctx, vfs>>
        /\ IF c.op = "register" THEN Return(t) ELSE Goto(t, "cleanup") /\ call' = call
        /\ fault' = IF c.efs \in heap \cup {NULL} THEN fault ELSE "use_after_free"
    BY <1>1 DEF InitFails, At
  <1>3. /\ c \in CallType /\ c.op \in {"register", "format"} /\ (c.op = "format" <=> c.tmp)
        /\ c.efs # NULL => c.idx \in Indices
        /\ Held(t) = c.efs
    BY <1>1, <1>2, AtLabel DEF LocalOK, Walking, HeldOf, Inside, CallType
  <1>4. CASE c.efs = NULL
    <2>1. slot' = slot /\ heap' = heap /\ fault' = fault
      <3>1. CASE c.idx # 0 /\ slot[c.idx] = c.efs
        <4>1. slot' = [slot EXCEPT ![c.idx] = NULL] /\ heap' = heap \ {NULL}
          BY <1>1, <1>4, <3>1 DEF InitFails, FreeSlot, FreeCtx
        <4>2. slot' = slot
          BY <1>4, <3>1, <4>1, AtLabel DEF TypeOK
        <4>3. NULL \notin heap
          BY NullIsNoContext, AtLabel DEF TypeOK
        <4> QED BY <1>2, <1>4, <4>1, <4>2, <4>3
      <3>2. CASE ~(c.idx # 0 /\ slot[c.idx] = c.efs)
        <4>1. slot' = slot /\ heap' = heap \ {NULL}
          BY <1>1, <1>4, <3>2 DEF InitFails, FreeCtx
        <4>2. NULL \notin heap
          BY NullIsNoContext, AtLabel DEF TypeOK
        <4> QED BY <1>2, <1>4, <4>1, <4>2
      <3> QED BY <3>1, <3>2
    <2>2. KeepsCtx
      BY <1>2, SameCtx, AtLabel
    <2>3. CASE c.op = "register"
      BY <1>2, <1>3, <1>4, <2>1, <2>2, <2>3, QuietReturn
    <2>4. CASE c.op = "format"
      <3>1. c.idx # 0 => slot[c.idx] = NULL
        BY <1>1, <1>2, <1>4, <2>4, AtLabel DEF PlaceOf
      <3>2. PlaceOf(c, "cleanup") /\ HeldOf(c, "cleanup") = NULL /\ "cleanup" \notin Walking
        BY <2>4, <3>1 DEF PlaceOf, HeldOf, Walking, Published, Starting
      <3> QED BY <1>1, <1>2, <1>3, <1>4, <2>1, <2>2, <2>4, <3>2, QuietGoto
    <2> QED BY <1>3, <2>3, <2>4
  <1>5. CASE c.efs # NULL
    <2>1. c.efs \in heap /\ c.idx \in Indices /\ c.idx # 0
      BY <1>3, <1>5, HeldIsContext, ZeroIsNoIndex
    <2>2. fault' = fault
      BY <1>2, <2>1
    <2>3. slot[c.idx] = c.efs \/ (slot[c.idx] = NULL /\ ~Slotted(c.efs))
      BY <1>1, <1>2, <1>5, AtLabel DEF PlaceOf
    <2>4. /\ heap' = heap \ {c.efs}
          /\ \A i \in Indices : slot'[i] = IF slot[i] = c.efs THEN NULL ELSE slot[i]
      <3>1. CASE slot[c.idx] = c.efs
        <4>1. slot' = [slot EXCEPT ![c.idx] = NULL] /\ heap' = heap \ {c.efs}
          BY <1>1, <2>1, <3>1 DEF InitFails, FreeSlot, FreeCtx
        <4>2. \A j \in Indices : slot[j] = c.efs <=> j = c.idx
          BY <1>5, <2>1, <3>1, OneSlot
        <4>3. \A j \in Indices : slot'[j] = IF j = c.idx THEN NULL ELSE slot[j]
          BY <2>1, <4>1, AtLabel DEF TypeOK
        <4> QED BY <4>1, <4>2, <4>3
      <3>2. CASE slot[c.idx] = NULL /\ ~Slotted(c.efs)
        <4>1. slot' = slot /\ heap' = heap \ {c.efs}
          BY <1>1, <1>5, <2>1, <3>2 DEF InitFails, FreeCtx
        <4> QED BY <3>2, <4>1 DEF Slotted
      <3> QED BY <2>3, <3>1, <3>2
    <2>5. CASE c.op = "register"
      BY <1>2, <1>3, <1>5, <2>2, <2>4, <2>5, ReleaseReturn
    <2>6. CASE c.op = "format"
      <3>1. slot'[c.idx] = NULL
        BY <2>1, <2>3, <2>4
      <3>2. PlaceOf(c, "cleanup")' /\ HeldOf(c, "cleanup")' = NULL
        BY <1>3, <2>6, <3>1 DEF PlaceOf, HeldOf, Published, Starting
      <3>3. Goto(t, "cleanup") /\ call' = call
        BY <1>2, <2>6
      <3> QED BY <1>1, <1>2, <1>3, <1>5, <2>2, <2>4, <3>2, <3>3, ReleaseGoto DEF Walking
    <2> QED BY <1>3, <2>5, <2>6
  <1> QED BY <1>4, <1>5

LEMMA VfsRegisterFailsKeeps ==
  ASSUME CallersTakeCare, RegInv, Base', NEW t \in Tasks, VfsRegisterFails(t)
  PROVE  RegInv'
  <1>1. /\ pc[t] = "vfs" /\ Return(t) /\ UNCHANGED <<ctx, vfs, fault>>
        /\ slot' = [slot EXCEPT ![call[t].idx] = NULL]
        /\ heap' = heap \ {slot[call[t].idx]}
    BY DEF VfsRegisterFails, FreeSlot, FreeCtx, At
  <1>2. /\ call[t].idx \in Indices /\ slot[call[t].idx] = call[t].efs /\ call[t].efs # NULL
        /\ Held(t) = call[t].efs
    BY <1>1, AtLabel, NullIsNoContext DEF LocalOK, Walking, PlaceOf, HeldOf, Published
  <1>3. \A j \in Indices : slot[j] = Held(t) <=> j = call[t].idx
    BY <1>2, OneSlot
  <1>4. \A j \in Indices : slot'[j] = IF j = call[t].idx THEN NULL ELSE slot[j]
    BY <1>1, <1>2, AtLabel DEF TypeOK
  <1> QED BY <1>1, <1>2, <1>3, <1>4, ReleaseReturn

LEMMA FreeVolumeKeeps ==
  ASSUME CallersTakeCare, RegInv, Base', NEW t \in Tasks, FreeVolume(t)
  PROVE  RegInv'
  <1>1. PICK c : c = call[t]
    OBVIOUS
  <1>2. /\ pc[t] = "free" /\ Goto(t, "clear") /\ UNCHANGED <<ctx, vfs, call, fault>>
        /\ slot' = [slot EXCEPT ![c.idx] = NULL]
        /\ heap' = heap \ {slot[c.idx]}
    BY <1>1 DEF FreeVolume, FreeSlot, FreeCtx, At
  <1>3. /\ c.op = "unregister" /\ ~c.tmp /\ c.idx \in Indices /\ slot[c.idx] # NULL
        /\ Held(t) = slot[c.idx]
    BY <1>1, <1>2, AtLabel DEF LocalOK, Walking, PlaceOf, HeldOf
  <1>4. \A i \in Indices : slot'[i] = IF slot[i] = Held(t) THEN NULL ELSE slot[i]
    <2>1. \A j \in Indices : slot[j] = Held(t) <=> j = c.idx
      BY <1>3, OneSlot
    <2>2. \A j \in Indices : slot'[j] = IF j = c.idx THEN NULL ELSE slot[j]
      BY <1>2, <1>3, AtLabel DEF TypeOK
    <2> QED BY <2>1, <2>2
  <1>5. PlaceOf(c, "clear")' /\ HeldOf(c, "clear")' = NULL
    BY <1>3, <1>4 DEF PlaceOf, HeldOf, Published
  <1> QED BY <1>1, <1>2, <1>3, <1>4, <1>5, ReleaseGoto DEF Walking

LEMMA FormatCleanupKeeps ==
  ASSUME CallersTakeCare, RegInv, Base', NEW t \in Tasks, FormatCleanup(t)
  PROVE  RegInv'
  <1>1. pc[t] = "cleanup" /\ Return(t) /\ UNCHANGED <<ctx, vfs, fault>> /\ KeepsCtx
    BY SameCtx, AtLabel DEF FormatCleanup, At
  <1>2. CASE call[t].tmp /\ call[t].idx # 0
    <2>1. /\ slot' = [slot EXCEPT ![call[t].idx] = NULL]
          /\ heap' = heap \ {slot[call[t].idx]}
      BY <1>2 DEF FormatCleanup, FreeSlot, FreeCtx
    <2>2. Held(t) = slot[call[t].idx] /\ call[t].idx \in Indices
      BY <1>1, <1>2, AtLabel DEF HeldOf, CallType
    <2>3. CASE slot[call[t].idx] = NULL
      <3>1. slot' = slot /\ heap' = heap
        BY <2>1, <2>3, NullIsNoContext, AtLabel DEF TypeOK
      <3> QED BY <1>1, <2>2, <2>3, <3>1, QuietReturn
    <2>4. CASE slot[call[t].idx] # NULL
      <3>1. \A j \in Indices : slot[j] = Held(t) <=> j = call[t].idx
        BY <2>2, <2>4, OneSlot
      <3>2. \A j \in Indices : slot'[j] = IF j = call[t].idx THEN NULL ELSE slot[j]
        BY <2>1, <2>2, AtLabel DEF TypeOK
      <3> QED BY <1>1, <2>1, <2>2, <2>4, <3>1, <3>2, ReleaseReturn
    <2> QED BY <2>3, <2>4
  <1>3. CASE ~(call[t].tmp /\ call[t].idx # 0)
    <2>1. slot' = slot /\ heap' = heap
      BY <1>3 DEF FormatCleanup
    <2>2. Held(t) = NULL
      BY <1>1, <1>3, AtLabel DEF HeldOf
    <2> QED BY <1>1, <2>1, <2>2, QuietReturn
  <1> QED BY <1>2, <1>3

(***************************************************************************)
(* The steps that make a context known: on the heap, in a slot, with its   *)
(* base path, in the VFS layer; and the step that makes the VFS forget it. *)
(***************************************************************************)
LEMMA FreshIsUnknown ==
  ASSUME RegInv, NEW x \in Ctxs \ heap
  PROVE  /\ \A i \in Indices : slot[i] # x
         /\ \A p \in Confs : vfs[p] # x
         /\ \A t \in Tasks : Held(t) # x
  <1>1. ~Slotted(x) /\ \A t \in Tasks : Held(t) # x
    BY DEF RegInv, TableInv, HeapOK
  <1>2. \A p \in Confs : vfs[p] # x
    BY <1>1, NullIsNoContext DEF RegInv, TableInv, MountedOK, Mounted
  <1> QED BY <1>1, <1>2 DEF Slotted

LEMMA MountedFacts ==
  ASSUME RegInv, NEW p \in Confs, vfs[p] # NULL
  PROVE  /\ vfs[p] \in Ctxs /\ vfs[p] \in heap
         /\ \E i \in Indices : slot[i] = vfs[p]
         /\ ctx[vfs[p]].dev = Device[p] /\ ctx[vfs[p]].base = {p}
         /\ \A t \in Tasks : Held(t) # vfs[p]
  <1>1. vfs[p] \in Ctxs
    BY DEF RegInv, Base, TypeOK
  <1>2. Slotted(vfs[p]) /\ ctx[vfs[p]].dev = Device[p] /\ ctx[vfs[p]].base = {p}
    BY DEF RegInv, TableInv, MountedOK, Mounted
  <1>3. vfs[p] \in heap
    BY <1>1, <1>2 DEF RegInv, TableInv, HeapOK
  <1>4. \A t \in Tasks : Held(t) # vfs[p]
    BY DEF RegInv, TableInv, HeldOK
  <1> QED BY <1>1, <1>2, <1>3, <1>4 DEF Slotted

LEMMA CreateKeeps ==
  ASSUME CallersTakeCare, RegInv, Base', NEW t \in Tasks, Create(t)
  PROVE  RegInv'
  <1>1. pc[t] = "create" /\ UNCHANGED <<slot, vfs, released, fault>>
    BY DEF Create, At
  <1>2. PICK c : c = call[t]
    OBVIOUS
  <1>3. /\ c \in CallType /\ c.op \in {"register", "format"} /\ c.efs = NULL
        /\ c.idx \in Indices /\ slot[c.idx] = NULL /\ c.conf \in Confs
        /\ c.op = "register" => vfs[c.conf] = NULL
        /\ SlotsOf(Dev(t)) = {} /\ Held(t) = NULL /\ Dev(t) = Device[c.conf]
    BY <1>1, <1>2, AtLabel DEF LocalOK, Walking, PlaceOf, HeldOf, Dev, Inside
  <1>4. CASE Goto(t, "fail") /\ UNCHANGED <<heap, ctx, call>>
    <2>1. PlaceOf(c, "fail") /\ HeldOf(c, "fail") = NULL /\ "fail" \notin Walking
      BY <1>3, AtLabel DEF PlaceOf, HeldOf, Walking, Published, Starting
    <2> QED BY <1>1, <1>2, <1>3, <1>4, <2>1, SameCtx, AtLabel, QuietGoto
  <1>5. ASSUME NEW x \in Ctxs \ heap,
               heap' = heap \cup {x}, ctx' = [ctx EXCEPT ![x] = FreshCtx(Dev(t))],
               Local(t, [call[t] EXCEPT !.efs = x]),
               NEW l \in {"publish", "fail"}, Goto(t, l)
        PROVE  RegInv'
    <2>1. PICK r : r = WithEfs(c, x)
      OBVIOUS
    <2>2. /\ r.op = c.op /\ r.conf = c.conf /\ r.efs = x /\ r.idx = c.idx
      BY <1>3, <2>1, CallFields
    <2>3. call' = [call EXCEPT ![t] = r]
      BY <1>2, <1>5, <2>1 DEF Local, WithEfs
    <2>4. /\ pc'[t] = l /\ call'[t] = r
          /\ \A u \in Tasks \ {t} : pc'[u] = pc[u] /\ call'[u] = call[u]
      BY <1>5, <2>3, Moves DEF RegInv
    <2>5. /\ \A i \in Indices : slot[i] # x
          /\ \A p \in Confs : vfs[p] # x
          /\ \A u \in Tasks : Held(u) # x
      BY FreshIsUnknown
    <2>6. /\ \A y \in Ctxs \ {x} : ctx'[y] = ctx[y]
          /\ ctx'[x].dev = Dev(t) /\ ctx'[x].base = {}
      <3>1. ctx'[x] = FreshCtx(Dev(t)) /\ \A y \in Ctxs \ {x} : ctx'[y] = ctx[y]
        BY <1>5, CtxTyped, AtLabel
      <3> QED BY <3>1 DEF FreshCtx
    <2>7. Footprint(t)
      BY <1>1, <1>5, <2>4, <2>6, AtLabel DEF Footprint, TypeOK
    <2>8. x # NULL /\ Dev(t)' = Dev(t) /\ Held(t)' = x
      BY <1>3, <1>5, <2>2, <2>4, NullIsNoContext DEF Dev, Held, HeldOf
    <2>9. \A u \in Tasks \ {t} : Held(u)' = Held(u) /\ Dev(u)' = Dev(u)
      BY <2>7, OthersOwn
    <2>10. \A i \in Indices : slot[i] # NULL => ctx'[slot[i]] = ctx[slot[i]]
      BY <2>5, <2>6, SlottedIsContext
    <2>11. HeapOK'
      <3>1. \A y \in Ctxs : Slotted(y)' <=> Slotted(y)
        BY <1>1 DEF Slotted
      <3>2. \A y \in Ctxs \ {x} : (\E u \in Tasks : Held(u)' = y) <=> \E u \in Tasks : Held(u) = y
        BY <1>3, <2>8, <2>9, NullIsNoContext
      <3>3. \A y \in Ctxs : y \in heap <=> (Slotted(y) \/ \E u \in Tasks : Held(u) = y)
        BY DEF RegInv, TableInv, HeapOK
      <3> QED BY <1>5, <2>8, <3>1, <3>2, <3>3 DEF HeapOK
    <2>12. KnownOK'
      <3> SUFFICES ASSUME NEW y \in Ctxs, NEW i \in Indices, slot'[i] = y
                   PROVE  (\E p \in Confs : vfs'[p] = y) \/ (\E u \in Tasks : Held(u)' = y)
        BY DEF KnownOK, Slotted
      <3>1. Slotted(y) /\ y # NULL
        BY <1>1, NullIsNoContext DEF Slotted
      <3>2. (\E p \in Confs : vfs[p] = y) \/ (\E u \in Tasks : Held(u) = y)
        BY <3>1 DEF RegInv, TableInv, KnownOK
      <3> QED BY <1>1, <1>3, <2>9, <3>1, <3>2
    <2>13. MountedOK'
      <3> SUFFICES ASSUME NEW p \in Confs, vfs'[p] # NULL
                   PROVE  /\ \E i \in Indices : slot'[i] = vfs'[p]
                          /\ ctx'[vfs'[p]].dev = Device[p] /\ ctx'[vfs'[p]].base = {p}
        BY DEF MountedOK, Mounted, Slotted
      <3>1. vfs'[p] = vfs[p] /\ vfs[p] # x
        BY <1>1, <2>5
      <3> QED BY <1>1, <2>6, <3>1, MountedFacts
    <2>14. HeldOK'
      <3> SUFFICES ASSUME NEW u \in Tasks, Held(u)' # NULL
                   PROVE  /\ ctx'[Held(u)'].dev = Dev(u)'
                          /\ \A p \in Confs : vfs'[p] # Held(u)'
                          /\ \A v \in Tasks \ {u} : Held(v)' # Held(u)'
        BY DEF HeldOK
      <3>1. CASE u = t
        BY <1>1, <2>5, <2>6, <2>8, <2>9, <3>1
      <3>2. CASE u # t
        <4>1. /\ Held(u) \in Ctxs /\ ctx[Held(u)].dev = Dev(u)
              /\ \A p \in Confs : vfs[p] # Held(u)
              /\ \A v \in Tasks \ {u} : Held(v) # Held(u)
          BY <2>9, <3>2, HeldIsContext
        <4>2. Held(u) # x
          BY <2>5
        <4>3. ctx'[Held(u)].dev = Dev(u)
          BY <2>6, <4>1, <4>2
        <4> QED BY <1>1, <2>8, <2>9, <3>2, <4>1, <4>2, <4>3
      <3> QED BY <3>1, <3>2
    <2>15. OneContextPerDevice'
      BY <1>1, <2>10 DEF RegInv, TableInv, OneContextPerDevice
    <2>16. Place(t)' /\ Walk(t)'
      <3>1. SlotsOf(Device[r.conf])' = {}
        BY <1>1, <1>3, <2>2, <2>10 DEF SlotsOf
      <3>2. ~Slotted(x)'
        BY <1>1, <2>5 DEF Slotted
      <3>3. l # "vfs" /\ l \notin Starting /\ l \notin Published
        BY DEF Starting, Published
      <3>4. PlaceOf(r, l)'
        BY <1>1, <1>3, <2>2, <2>6, <3>1, <3>2, <3>3 DEF PlaceOf
      <3> QED BY <2>4, <3>4 DEF Place, PlaceOf, Walk, WalkOf, Walking
    <2>17. Disciplined'
      BY <1>2, <2>2, <2>4, StaysDisciplined
    <2>18. OnlyWalksFault'
      BY <1>1 DEF RegInv, OnlyWalksFault
    <2> QED BY <2>7, <2>11, <2>12, <2>13, <2>14, <2>15, <2>16, <2>17, <2>18, Gather DEF TableInv
  <1> QED BY <1>4, <1>5 DEF Create

LEMMA PublishKeeps ==
  ASSUME CallersTakeCare, RegInv, Base', NEW t \in Tasks, Publish(t)
  PROVE  RegInv'
  <1>1. PICK c : c = call[t]
    OBVIOUS
  <1>2. PICK x : x = c.efs
    OBVIOUS
  <1>3. /\ pc[t] = "publish" /\ UNCHANGED <<heap, ctx, vfs, fault, call>>
        /\ slot' = [slot EXCEPT ![c.idx] = x]
    BY <1>1, <1>2 DEF Publish, At
  <1>4. /\ c \in CallType /\ c.op \in {"register", "format"} /\ (c.op = "format" <=> c.tmp)
        /\ c.efs = x /\ x \in Ctxs /\ x # NULL
        /\ c.idx \in Indices /\ slot[c.idx] = NULL /\ c.conf \in Confs
        /\ c.op = "register" => vfs[c.conf] = NULL /\ ctx[x].base = {}
        /\ SlotsOf(Dev(t)) = {} /\ Held(t) = x /\ Dev(t) = Device[c.conf]
    BY <1>1, <1>2, <1>3, AtLabel, NullIsNoContext
       DEF LocalOK, Walking, PlaceOf, HeldOf, Dev, Inside, CallType
  <1>5. /\ x \in heap /\ ctx[x].dev = Dev(t)
        /\ \A p \in Confs : vfs[p] # x
        /\ \A u \in Tasks \ {t} : Held(u) # x
    BY <1>4, HeldIsContext
  <1>6. PICK l \in {"done", "mount"} : Goto(t, l) /\ (l = "mount" => c.op = "register")
    BY <1>1, <1>4 DEF Publish, DontMount
  <1>7. /\ pc'[t] = l /\ call'[t] = c
        /\ \A u \in Tasks \ {t} : pc'[u] = pc[u] /\ call'[u] = call[u]
    BY <1>1, <1>3, <1>6 DEF Goto, RegInv, Base, TypeOK
  <1>8. \A i \in Indices : slot'[i] = IF i = c.idx THEN x ELSE slot[i]
    BY <1>3, <1>4, AtLabel DEF TypeOK
  <1>9. \A i \in Indices : slot[i] # x
    BY <1>4, <1>5 DEF SlotsOf
  <1>10. Footprint(t)
    BY <1>3, <1>4, <1>7, <1>8 DEF Footprint
  <1>11. Held(t)' = x /\ Dev(t)' = Dev(t)
    BY <1>4, <1>7 DEF Held, HeldOf, Dev
  <1>12. \A u \in Tasks : Held(u)' = Held(u) /\ Dev(u)' = Dev(u)
    BY <1>4, <1>10, <1>11, OthersOwn
  <1>13. \A y \in Ctxs : Slotted(y)' <=> (Slotted(y) \/ y = x)
    BY <1>4, <1>8, NullIsNoContext DEF Slotted
  <1>14. HeapOK'
    BY <1>3, <1>4, <1>5, <1>12, <1>13 DEF RegInv, TableInv, HeapOK
  <1>15. KnownOK'
    BY <1>3, <1>4, <1>12, <1>13 DEF RegInv, TableInv, KnownOK
  <1>16. MountedOK'
    <2> SUFFICES ASSUME NEW p \in Confs, vfs'[p] # NULL
                 PROVE  /\ \E i \in Indices : slot'[i] = vfs'[p]
                        /\ ctx'[vfs'[p]].dev = Device[p] /\ ctx'[vfs'[p]].base = {p}
      BY DEF MountedOK, Mounted, Slotted
    <2>1. vfs[p] # NULL
      BY <1>3
    <2>2. PICK i \in Indices : slot[i] = vfs[p]
      BY <2>1, MountedFacts
    <2> QED BY <1>3, <1>4, <1>8, <2>1, <2>2, MountedFacts
  <1>17. HeldOK'
    BY <1>3, <1>12 DEF RegInv, TableInv, HeldOK
  <1>18. OneContextPerDevice'
    <2> SUFFICES ASSUME NEW i \in Indices, NEW j \in Indices, slot'[i] # NULL, slot'[j] # NULL,
                        ctx[slot'[i]].dev = ctx[slot'[j]].dev
                 PROVE  i = j
      BY <1>3 DEF OneContextPerDevice
    <2>1. \A k \in Indices : slot[k] # NULL => ctx[slot[k]].dev # Dev(t)
      BY <1>4 DEF SlotsOf
    <2>2. CASE i # c.idx /\ j # c.idx
      BY <1>8, <2>2 DEF RegInv, TableInv, OneContextPerDevice
    <2> QED BY <1>5, <1>8, <2>1, <2>2
  <1>19. Place(t)' /\ Walk(t)'
    <2>1. slot'[c.idx] = x
      BY <1>4, <1>8
    <2>2. PlaceOf(c, l)'
      BY <1>3, <1>4, <1>6, <2>1 DEF PlaceOf, Starting
    <2> QED BY <1>7, <2>2 DEF Place, PlaceOf, Walk, WalkOf, Walking
  <1>20. Disciplined'
    BY <1>1, <1>7, StaysDisciplined
  <1>21. OnlyWalksFault'
    BY <1>3 DEF RegInv, OnlyWalksFault
  <1> QED BY <1>10, <1>14, <1>15, <1>16, <1>17, <1>18, <1>19, <1>20, <1>21, Gather DEF TableInv

(* What a task that registers knows after esp_littlefs_init.               *)
LEMMA RegisterFacts ==
  ASSUME RegInv, NEW t \in Tasks, pc[t] \in {"base", "vfs"}
  PROVE  /\ call[t] \in CallType /\ call[t].op = "register" /\ ~call[t].tmp
         /\ call[t].conf \in Confs /\ call[t].idx \in Indices
         /\ slot[call[t].idx] = call[t].efs /\ call[t].efs \in Ctxs /\ call[t].efs # NULL
         /\ vfs[call[t].conf] = NULL /\ Held(t) = call[t].efs /\ Dev(t) = Device[call[t].conf]
         /\ ctx[call[t].efs].base = IF pc[t] = "vfs" THEN {call[t].conf} ELSE {}
         /\ call[t].efs \in heap /\ ctx[call[t].efs].dev = Dev(t)
         /\ \A p \in Confs : vfs[p] # call[t].efs
         /\ \A u \in Tasks \ {t} : Held(u) # call[t].efs
  <1>1. /\ call[t] \in CallType /\ call[t].op = "register" /\ ~call[t].tmp
        /\ call[t].conf \in Confs /\ call[t].idx \in Indices /\ call[t].efs \in Ctxs /\ call[t].efs # NULL
    BY AtLabel, NullIsNoContext DEF LocalOK, Walking, Published
  <1>2. /\ slot[call[t].idx] = call[t].efs /\ vfs[call[t].conf] = NULL
        /\ Held(t) = call[t].efs
        /\ Dev(t) = Device[call[t].conf]
        /\ ctx[call[t].efs].base = IF pc[t] = "vfs" THEN {call[t].conf} ELSE {}
    BY <1>1, AtLabel DEF PlaceOf, HeldOf, Published, Dev
  <1> QED BY <1>1, <1>2, HeldIsContext

LEMMA SetBasePathKeeps ==
  ASSUME CallersTakeCare, RegInv, Base', NEW t \in Tasks, SetBasePath(t)
  PROVE  RegInv'
  <1>1. PICK c : c = call[t]
    OBVIOUS
  <1>2. pc[t] = "base" /\ UNCHANGED <<slot, heap, vfs>>
    BY DEF SetBasePath, At
  <1>3. /\ c \in CallType /\ c.op = "register" /\ ~c.tmp /\ c.conf \in Confs
        /\ c.idx \in Indices /\ slot[c.idx] = c.efs /\ c.efs \in Ctxs /\ c.efs # NULL
        /\ vfs[c.conf] = NULL /\ Held(t) = c.efs /\ Dev(t) = Device[c.conf]
        /\ ctx[c.efs].base = {}
        /\ c.efs \in heap /\ ctx[c.efs].dev = Dev(t)
        /\ \A p \in Confs : vfs[p] # c.efs
        /\ \A u \in Tasks \ {t} : Held(u) # c.efs
    BY <1>1, <1>2, RegisterFacts
  <1>4. /\ ctx' = [ctx EXCEPT ![c.efs].base = @ \cup {c.conf}]
        /\ Goto(t, "vfs") /\ UNCHANGED <<call, fault>>
    BY <1>1, <1>3 DEF SetBasePath
  <1>5. /\ \A y \in Ctxs : ctx'[y].dev = ctx[y].dev
        /\ \A y \in Ctxs \ {c.efs} : ctx'[y].base = ctx[y].base
        /\ ctx'[c.efs].base = {c.conf}
    BY <1>3, <1>4, BaseCtx, AtLabel
  <1>6. /\ pc'[t] = "vfs" /\ call'[t] = c
        /\ \A u \in Tasks \ {t} : pc'[u] = pc[u] /\ call'[u] = call[u]
    BY <1>1, <1>4 DEF Goto, RegInv, Base, TypeOK
  <1>7. Footprint(t)
    BY <1>2, <1>3, <1>5, <1>6, AtLabel DEF Footprint, TypeOK
  <1>8. \A u \in Tasks : Held(u)' = Held(u) /\ Dev(u)' = Dev(u)
    <2>1. Held(t)' = Held(t) /\ Dev(t)' = Dev(t)
      BY <1>1, <1>3, <1>6 DEF Held, HeldOf, Dev
    <2> QED BY <1>7, <2>1, OthersOwn
  <1>9. HeapOK' /\ KnownOK'
    BY <1>2, <1>8 DEF RegInv, TableInv, HeapOK, KnownOK, Slotted
  <1>10. MountedOK'
    <2> SUFFICES ASSUME NEW p \in Confs, vfs'[p] # NULL
                 PROVE  /\ \E i \in Indices : slot'[i] = vfs'[p]
                        /\ ctx'[vfs'[p]].dev = Device[p] /\ ctx'[vfs'[p]].base = {p}
      BY DEF MountedOK, Mounted, Slotted
    <2> QED BY <1>2, <1>3, <1>5, MountedFacts
  <1>11. HeldOK'
    <2> SUFFICES ASSUME NEW u \in Tasks, Held(u)' # NULL
                 PROVE  /\ ctx'[Held(u)'].dev = Dev(u)'
                        /\ \A p \in Confs : vfs'[p] # Held(u)'
                        /\ \A v \in Tasks \ {u} : Held(v)' # Held(u)'
      BY DEF HeldOK
    <2>1. Held(u)' = Held(u) /\ Held(u) # NULL
      BY <1>8
    <2> QED BY <1>2, <1>5, <1>8, <2>1, HeldIsContext
  <1>12. OneContextPerDevice'
    <2>1. \A i \in Indices : slot[i] # NULL => ctx'[slot[i]].dev = ctx[slot[i]].dev
      BY <1>5, SlottedIsContext
    <2> QED BY <1>2, <2>1 DEF RegInv, TableInv, OneContextPerDevice
  <1>13. Place(t)' /\ Walk(t)'
    <2>1. PlaceOf(c, "vfs")'
      BY <1>2, <1>3, <1>5 DEF PlaceOf, Published
    <2> QED BY <1>6, <2>1 DEF Place, PlaceOf, Walk, WalkOf, Walking
  <1>14. Disciplined'
    BY <1>1, <1>6, StaysDisciplined
  <1>15. OnlyWalksFault'
    BY <1>4 DEF RegInv, OnlyWalksFault
  <1> QED BY <1>7, <1>9, <1>10, <1>11, <1>12, <1>13, <1>14, <1>15, Gather DEF TableInv

LEMMA VfsRegisterKeeps ==
  ASSUME CallersTakeCare, RegInv, Base', NEW t \in Tasks, VfsRegister(t)
  PROVE  RegInv'
  <1>1. PICK c : c = call[t]
    OBVIOUS
  <1>2. PICK x : x = c.efs
    OBVIOUS
  <1>3. /\ pc[t] = "vfs" /\ Return(t) /\ UNCHANGED <<slot, heap, ctx, fault>>
        /\ vfs' = [vfs EXCEPT ![c.conf] = slot[c.idx]]
    BY <1>1 DEF VfsRegister, At
  <1>4. /\ c \in CallType /\ c.op = "register" /\ c.conf \in Confs
        /\ c.idx \in Indices /\ slot[c.idx] = x /\ x \in Ctxs /\ x # NULL
        /\ vfs[c.conf] = NULL /\ Held(t) = x /\ Dev(t) = Device[c.conf]
        /\ ctx[x].base = {c.conf} /\ x \in heap /\ ctx[x].dev = Dev(t)
        /\ \A p \in Confs : vfs[p] # x
        /\ \A u \in Tasks \ {t} : Held(u) # x
    BY <1>1, <1>2, <1>3, RegisterFacts
  <1>5. \A p \in Confs : vfs'[p] = IF p = c.conf THEN x ELSE vfs[p]
    BY <1>3, <1>4, AtLabel DEF TypeOK
  <1>6. /\ pc'[t] = "idle" /\ call'[t] = NoCall
        /\ \A u \in Tasks \ {t} : pc'[u] = pc[u] /\ call'[u] = call[u]
    BY <1>3, Moves DEF Return, Local, RegInv
  <1>7. Footprint(t)
    BY <1>1, <1>3, <1>4, <1>5, <1>6 DEF Footprint
  <1>8. Held(t)' = NULL
    BY <1>6, NoCallPlaceNext DEF Held, HeldOf
  <1>9. \A u \in Tasks \ {t} : Held(u)' = Held(u) /\ Dev(u)' = Dev(u)
    BY <1>7, OthersOwn
  <1>10. \A y : Slotted(y)' <=> Slotted(y)
    BY <1>3 DEF Slotted
  <1>11. Slotted(x)
    BY <1>4 DEF Slotted
  <1>12. \A y \in Ctxs : (\E u \in Tasks : Held(u)' = y) <=> (y # x /\ \E u \in Tasks : Held(u) = y)
    BY <1>4, <1>8, <1>9, NullIsNoContext
  <1>13. HeapOK'
    BY <1>3, <1>10, <1>11, <1>12 DEF RegInv, TableInv, HeapOK
  <1>14. KnownOK'
    <2> SUFFICES ASSUME NEW y \in Ctxs, Slotted(y)
                 PROVE  (\E p \in Confs : vfs'[p] = y) \/ (\E u \in Tasks : Held(u)' = y)
      BY <1>10 DEF KnownOK
    <2>1. (\E p \in Confs : vfs[p] = y) \/ (\E u \in Tasks : Held(u) = y)
      BY DEF RegInv, TableInv, KnownOK
    <2> QED BY <1>4, <1>5, <1>12, <2>1, NullIsNoContext
  <1>15. MountedOK'
    <2> SUFFICES ASSUME NEW p \in Confs, vfs'[p] # NULL
                 PROVE  /\ \E i \in Indices : slot'[i] = vfs'[p]
                        /\ ctx'[vfs'[p]].dev = Device[p] /\ ctx'[vfs'[p]].base = {p}
      BY DEF MountedOK, Mounted, Slotted
    <2>1. CASE p = c.conf
      BY <1>3, <1>4, <1>5, <2>1
    <2>2. CASE p # c.conf
      BY <1>3, <1>5, <2>2, MountedFacts
    <2> QED BY <2>1, <2>2
  <1>16. HeldOK'
    <2> SUFFICES ASSUME NEW u \in Tasks, Held(u)' # NULL
                 PROVE  /\ ctx'[Held(u)'].dev = Dev(u)'
                        /\ \A p \in Confs : vfs'[p] # Held(u)'
                        /\ \A v \in Tasks \ {u} : Held(v)' # Held(u)'
      BY DEF HeldOK
    <2>1. u # t /\ Held(u)' = Held(u) /\ Dev(u)' = Dev(u)
      BY <1>8, <1>9
    <2>2. /\ ctx[Held(u)].dev = Dev(u) /\ \A p \in Confs : vfs[p] # Held(u)
          /\ \A v \in Tasks \ {u} : Held(v) # Held(u)
      BY <2>1, HeldIsContext
    <2> QED BY <1>3, <1>4, <1>5, <1>8, <1>9, <2>1, <2>2
  <1>17. OneContextPerDevice'
    BY <1>3 DEF RegInv, TableInv, OneContextPerDevice
  <1>18. Place(t)' /\ Walk(t)'
    BY <1>6, NoCallPlaceNext DEF Place, PlaceOf, Walk, WalkOf, Walking
  <1>19. Disciplined'
    BY <1>6, StaysDisciplined DEF NoCall
  <1>20. OnlyWalksFault'
    BY <1>3 DEF RegInv, OnlyWalksFault
  <1> QED BY <1>7, <1>13, <1>14, <1>15, <1>16, <1>17, <1>18, <1>19, <1>20, Gather DEF TableInv

(* The base path of the volume that unregister has found is known to the   *)
(* VFS layer, and no other.                                                *)
LEMMA UnregisterFacts ==
  ASSUME CallersTakeCare, RegInv, NEW t \in Tasks, pc[t] = "unvfs"
  PROVE  /\ call[t].op = "unregister" /\ ~call[t].tmp /\ call[t].idx \in Indices
         /\ slot[call[t].idx] # NULL /\ ctx[slot[call[t].idx]].dev = Dev(t)
         /\ Held(t) = NULL
         /\ \E p \in Confs : vfs[p] = slot[call[t].idx]
  <1>1. /\ call[t].op = "unregister" /\ ~call[t].tmp /\ call[t].idx \in Indices
        /\ slot[call[t].idx] # NULL /\ ctx[slot[call[t].idx]].dev = Dev(t)
        /\ Held(t) = NULL
    BY AtLabel DEF LocalOK, Walking, PlaceOf, HeldOf, Dev
  <1>2. PICK x : x = slot[call[t].idx]
    OBVIOUS
  <1>3. x \in Ctxs /\ Slotted(x)
    BY <1>1, <1>2, SlottedIsContext
  <1>4. \A u \in Tasks : Held(u) # x
    <2> SUFFICES ASSUME NEW u \in Tasks, Held(u) = x PROVE FALSE
      OBVIOUS
    <2>1. u # t /\ Held(u) # NULL
      BY <1>1, <1>2
    <2>2. call[u].op \in Changes /\ Dev(u) = Dev(t)
      BY <1>1, <1>2, <2>1, HeldType, HeldIsContext DEF RegInv
    <2> QED BY <1>1, <2>1, <2>2, Apart DEF RegInv
  <1> QED BY <1>1, <1>2, <1>3, <1>4 DEF RegInv, TableInv, KnownOK

(* What unregister does to the VFS layer. *)
LEMMA UnregisterStep ==
  ASSUME CallersTakeCare, RegInv, NEW t \in Tasks, VfsUnregister(t)
  PROVE  \E q \in Confs :
           /\ vfs[q] = slot[call[t].idx] /\ vfs[q] # NULL
           /\ \A p \in Confs : vfs'[p] = IF p = q THEN NULL ELSE vfs[p]
           /\ Goto(t, "free") /\ UNCHANGED <<call, fault>>
  <1>1. pc[t] = "unvfs"
    BY DEF VfsUnregister, At
  <1>2. PICK x : x = slot[call[t].idx]
    OBVIOUS
  <1>3. PICK q \in Confs : vfs[q] = x /\ x # NULL
    BY <1>1, <1>2, UnregisterFacts
  <1>4. ctx[x].base = {q}
    BY <1>3, MountedFacts
  <1>5. {p \in Confs : x # NULL /\ ctx[x].base = {p} /\ vfs[p] # NULL} = {q}
    BY <1>3, <1>4
  <1>6. /\ vfs' = [p \in Confs |-> IF p \in {q} THEN NULL ELSE vfs[p]]
        /\ Goto(t, "free") /\ UNCHANGED <<call, fault>>
    BY <1>2, <1>3, <1>5 DEF VfsUnregister
  <1> QED BY <1>2, <1>3, <1>6

LEMMA VfsUnregisterKeeps ==
  ASSUME CallersTakeCare, RegInv, Base', NEW t \in Tasks, VfsUnregister(t)
  PROVE  RegInv'
  <1>1. PICK c : c = call[t]
    OBVIOUS
  <1>2. PICK x : x = slot[c.idx]
    OBVIOUS
  <1>3. pc[t] = "unvfs" /\ UNCHANGED <<slot, heap, ctx>>
    BY DEF VfsUnregister, At
  <1>4. /\ c.op = "unregister" /\ ~c.tmp /\ c.idx \in Indices
        /\ x # NULL /\ ctx[x].dev = Dev(t) /\ Held(t) = NULL
    BY <1>1, <1>2, <1>3, UnregisterFacts
  <1>5. PICK q \in Confs : /\ vfs[q] = x
                           /\ \A p \in Confs : vfs'[p] = IF p = q THEN NULL ELSE vfs[p]
                           /\ Goto(t, "free") /\ UNCHANGED <<call, fault>>
    BY <1>1, <1>2, UnregisterStep
  <1>6. /\ x \in Ctxs /\ ctx[x].base = {q} /\ Device[q] = Dev(t)
        /\ \A u \in Tasks : Held(u) # x
    BY <1>4, <1>5, MountedFacts
  <1>7. /\ pc'[t] = "free" /\ call'[t] = c
        /\ \A u \in Tasks \ {t} : pc'[u] = pc[u] /\ call'[u] = call[u]
    BY <1>1, <1>5 DEF Goto, RegInv, Base, TypeOK
  <1>8. Footprint(t)
    BY <1>1, <1>3, <1>4, <1>5, <1>6, <1>7 DEF Footprint
  <1>9. Held(t)' = x /\ Dev(t)' = Dev(t)
    BY <1>1, <1>2, <1>3, <1>7 DEF Held, HeldOf, Dev
  <1>10. \A u \in Tasks \ {t} : Held(u)' = Held(u) /\ Dev(u)' = Dev(u)
    BY <1>8, OthersOwn
  <1>11. \A y : Slotted(y)' <=> Slotted(y)
    BY <1>3 DEF Slotted
  <1>12. Slotted(x)
    BY <1>2, <1>4 DEF Slotted
  <1>13. \A y \in Ctxs : (\E u \in Tasks : Held(u)' = y) <=> (y = x \/ \E u \in Tasks : Held(u) = y)
    BY <1>4, <1>9, <1>10, NullIsNoContext
  <1>14. HeapOK'
    BY <1>3, <1>11, <1>12, <1>13 DEF RegInv, TableInv, HeapOK
  <1>15. KnownOK'
    <2> SUFFICES ASSUME NEW y \in Ctxs, Slotted(y)
                 PROVE  (\E p \in Confs : vfs'[p] = y) \/ (\E u \in Tasks : Held(u)' = y)
      BY <1>11 DEF KnownOK
    <2>1. (\E p \in Confs : vfs[p] = y) \/ (\E u \in Tasks : Held(u) = y)
      BY DEF RegInv, TableInv, KnownOK
    <2> QED BY <1>5, <1>13, <2>1
  <1>16. MountedOK'
    <2> SUFFICES ASSUME NEW p \in Confs, vfs'[p] # NULL
                 PROVE  /\ \E i \in Indices : slot'[i] = vfs'[p]
                        /\ ctx'[vfs'[p]].dev = Device[p] /\ ctx'[vfs'[p]].base = {p}
      BY DEF MountedOK, Mounted, Slotted
    <2> QED BY <1>3, <1>5, MountedFacts
  <1>17. HeldOK'
    <2> SUFFICES ASSUME NEW u \in Tasks, Held(u)' # NULL
                 PROVE  /\ ctx'[Held(u)'].dev = Dev(u)'
                        /\ \A p \in Confs : vfs'[p] # Held(u)'
                        /\ \A v \in Tasks \ {u} : Held(v)' # Held(u)'
      BY DEF HeldOK
    <2>1. CASE u = t
      <3>1. \A p \in Confs : vfs'[p] # x
        <4> SUFFICES ASSUME NEW p \in Confs, vfs[p] = x, p # q PROVE FALSE
          BY <1>4, <1>5
        <4>1. ctx[x].base = {p}
          BY <1>4, MountedFacts
        <4> QED BY <1>6, <4>1
      <3> QED BY <1>3, <1>4, <1>6, <1>9, <1>10, <2>1, <3>1
    <2>2. CASE u # t
      <3>1. /\ Held(u)' = Held(u) /\ Held(u) # NULL /\ Dev(u)' = Dev(u)
        BY <1>10, <2>2
      <3>2. /\ ctx[Held(u)].dev = Dev(u) /\ \A p \in Confs : vfs[p] # Held(u)
            /\ \A v \in Tasks \ {u} : Held(v) # Held(u)
        BY <3>1, HeldIsContext
      <3> QED BY <1>3, <1>5, <1>6, <1>9, <1>10, <2>2, <3>1, <3>2
    <2> QED BY <2>1, <2>2
  <1>18. OneContextPerDevice'
    BY <1>3 DEF RegInv, TableInv, OneContextPerDevice
  <1>19. Place(t)' /\ Walk(t)'
    <2>1. PlaceOf(c, "free")'
      BY <1>1, <1>2, <1>3, <1>4 DEF PlaceOf, Published, Dev
    <2> QED BY <1>7, <2>1 DEF Place, PlaceOf, Walk, WalkOf, Walking
  <1>20. Disciplined'
    BY <1>1, <1>7, StaysDisciplined
  <1>21. OnlyWalksFault'
    BY <1>5 DEF RegInv, OnlyWalksFault
  <1> QED BY <1>8, <1>14, <1>15, <1>16, <1>17, <1>18, <1>19, <1>20, <1>21, Gather DEF TableInv

-----------------------------------------------------------------------------
LEMMA InitOwned == Init => RegInv
  <1> SUFFICES ASSUME Init PROVE RegInv
    OBVIOUS
  <1>1. Base
    BY BaseInit
  <1>2. Active = {} /\ \A t \in Tasks : pc[t] = "idle" /\ call[t] = NoCall
    BY DEF Init, Active, At
  <1>3. \A t \in Tasks : Place(t) /\ Walk(t) /\ Held(t) = NULL
    BY <1>2, NoCallPlace DEF Place, Walk, Held
  <1>4. \A x \in Ctxs : ~Slotted(x)
    BY NullIsNoContext DEF Init, Slotted
  <1>5. TableInv
    BY <1>3, <1>4, NullIsNoContext
       DEF TableInv, HeapOK, KnownOK, MountedOK, Mounted, HeldOK, OneContextPerDevice, Init
  <1> QED BY <1>1, <1>2, <1>3, <1>5 DEF RegInv, Disciplined, OnlyWalksFault, Init

LEMMA NextOwned == ASSUME CallersTakeCare, RegInv, [Next]_vars PROVE RegInv'
  <1>1. Base'
    BY BaseNext DEF RegInv
  <1>2. CASE Next
    <2>1. PICK t \in Tasks :
            \/ \E op \in Ops, c \in Confs : Begin(t, op, c)
            \/ TakeLock(t) \/ EnterVolume(t) \/ Work(t)
      BY <1>2 DEF Next
    <2>2. CASE Work(t)
      BY <1>1, <2>2, LockKeeps, WalkKeeps, FindEmptyKeeps, FindDuplicateKeeps, CreateKeeps,
         PublishKeeps, MountKeeps, LookUpAgainKeeps, ReformatKeeps, InitFailsKeeps, InitDoneKeeps,
         SetBasePathKeeps, VfsRegisterKeeps, VfsRegisterFailsKeeps, FindVolumeKeeps,
         VfsUnregisterKeeps, FreeVolumeKeeps, ClearSlotKeeps, FormatVolumeKeeps,
         FormatCleanupKeeps, QueryKeeps, FileCallKeeps DEF Work
    <2> QED BY <1>1, <2>1, <2>2, BeginKeeps, LockKeeps, FileCallKeeps
  <1>3. CASE UNCHANGED vars
    BY <1>1, <1>3, StopOwned DEF vars, data, RegInv, OnlyWalksFault
  <1> QED BY <1>2, <1>3

(***************************************************************************)
(* What follows.                                                           *)
(***************************************************************************)
(* No function follows an emptied slot, and no function or file call uses  *)
(* a context freed under it once it has found its volume: only a walk of   *)
(* the table can meet a context that another task frees.                   *)
THEOREM OnlyWalksMeetFreed ==
  ASSUME CallersTakeCare
  PROVE  Spec => []OnlyWalksFault
  <1>1. RegInv => OnlyWalksFault
    BY DEF RegInv
  <1> QED BY InitOwned, NextOwned, <1>1, PTL DEF Spec

(* No device has two contexts, whichever registrations race. *)
THEOREM DevicesHaveOneContext ==
  ASSUME CallersTakeCare
  PROVE  Spec => []OneContextPerDevice
  <1>1. RegInv => OneContextPerDevice
    BY DEF RegInv, TableInv
  <1> QED BY InitOwned, NextOwned, <1>1, PTL DEF Spec

(* When no call is running, the contexts on the heap are those in the      *)
(* table and those that the VFS layer knows, whatever has failed before.   *)
THEOREM NoCallLeaks ==
  ASSUME CallersTakeCare
  PROVE  Spec => []NothingLeftBehind
  <1>1. RegInv => NothingLeftBehind
    <2> SUFFICES ASSUME RegInv, Active = {}
                 PROVE  /\ heap = {slot[i] : i \in Indices} \ {NULL}
                        /\ heap = {vfs[p] : p \in Mounted}
      BY DEF NothingLeftBehind
    <2>1. \A t \in Tasks : Held(t) = NULL
      <3> SUFFICES ASSUME NEW t \in Tasks PROVE Held(t) = NULL
        OBVIOUS
      <3>1. pc[t] = "idle"
        BY DEF Active, At
      <3> QED BY <3>1, AtLabel DEF HeldOf, LocalOK, Walking
    <2>2. heap \subseteq Ctxs /\ \A x \in Ctxs : x \in heap <=> Slotted(x)
      BY <2>1, NullIsNoContext DEF RegInv, TableInv, HeapOK, Base, TypeOK
    <2>3. \A x \in Ctxs : Slotted(x) => \E p \in Confs : vfs[p] = x
      BY <2>1, NullIsNoContext DEF RegInv, TableInv, KnownOK
    <2>4. heap = {slot[i] : i \in Indices} \ {NULL}
      BY <2>2, SlottedIsContext, NullIsNoContext DEF Slotted
    <2>5. heap = {vfs[p] : p \in Mounted}
      BY <2>2, <2>3, MountedFacts, NullIsNoContext DEF Mounted
    <2> QED BY <2>4, <2>5
  <1> QED BY InitOwned, NextOwned, <1>1, PTL DEF Spec

(* The context of a mounted volume stays in the table, where the lookups   *)
(* look.                                                                   *)
THEOREM MountedVolumesAreListed ==
  ASSUME CallersTakeCare
  PROVE  Spec => []MountedIsListed
  <1>1. RegInv => MountedIsListed
    <2> SUFFICES ASSUME RegInv, NEW p \in Mounted
                 PROVE  \E i \in Indices : slot[i] = vfs[p] /\ ctx[slot[i]].dev = Device[p]
      BY DEF MountedIsListed
    <2> QED BY MountedFacts DEF Mounted
  <1> QED BY InitOwned, NextOwned, <1>1, PTL DEF Spec

(* A walk that ends without a match, however the table changed under it,   *)
(* was for a device that is not mounted: "already unregistered" is never   *)
(* answered for a volume that is.                                          *)
THEOREM WalksMissNothing ==
  ASSUME CallersTakeCare
  PROVE  Spec => LookupsFindMounted
  <1>1. RegInv /\ [Next]_vars =>
          [\A t \in Tasks : At(t, "lookup") /\ NotFound(t) /\ ~At(t, "lookup")' =>
             \A p \in Mounted : Device[p] # Dev(t)]_vars
    <2> SUFFICES ASSUME RegInv, NEW t \in Tasks, At(t, "lookup"), NotFound(t),
                        NEW p \in Mounted, Device[p] = Dev(t)
                 PROVE  FALSE
      OBVIOUS
    <2>1. SlotsOf(Dev(t)) = {}
      BY WalkEnds DEF At, Walking
    <2>2. \E i \in Indices : slot[i] = vfs[p] /\ slot[i] # NULL /\ ctx[slot[i]].dev = Device[p]
      BY MountedFacts DEF Mounted
    <2> QED BY <2>1, <2>2 DEF SlotsOf
  <1> QED BY InitOwned, NextOwned, <1>1, PTL DEF Spec, LookupsFindMounted

(* The steps of a task, and those that free a context. *)
Step(t) ==
  \/ \E op \in Ops, c \in Confs : Begin(t, op, c)
  \/ TakeLock(t) \/ EnterVolume(t) \/ Work(t)

Frees(t) == InitFails(t) \/ VfsRegisterFails(t) \/ FreeVolume(t) \/ FormatCleanup(t)

(* A step frees at most the context that its task owns. *)
LEMMA FreesItsOwn ==
  ASSUME RegInv, NEW t \in Tasks, Frees(t)
  PROVE  \A x \in heap : x # Held(t) => x \in heap'
  <1>1. CASE InitFails(t)
    <2>1. pc[t] = "fail" /\ (heap' = heap \ {call[t].efs})
      BY <1>1 DEF InitFails, FreeSlot, FreeCtx, At
    <2>2. Held(t) = call[t].efs
      BY <2>1, AtLabel DEF LocalOK, Walking, HeldOf, Inside
    <2> QED BY <2>1, <2>2
  <1>2. CASE VfsRegisterFails(t)
    <2>1. pc[t] = "vfs" /\ heap' = heap \ {slot[call[t].idx]}
      BY <1>2 DEF VfsRegisterFails, FreeSlot, FreeCtx, At
    <2> QED BY <2>1, RegisterFacts
  <1>3. CASE FreeVolume(t)
    <2>1. pc[t] = "free" /\ heap' = heap \ {slot[call[t].idx]}
      BY <1>3 DEF FreeVolume, FreeSlot, FreeCtx, At
    <2> QED BY <2>1, AtLabel DEF HeldOf
  <1>4. CASE FormatCleanup(t)
    <2>1. pc[t] = "cleanup"
      BY <1>4 DEF FormatCleanup, At
    <2>2. CASE call[t].tmp /\ call[t].idx # 0
      <3>1. heap' = heap \ {slot[call[t].idx]}
        BY <1>4, <2>2 DEF FormatCleanup, FreeSlot, FreeCtx
      <3> QED BY <2>1, <2>2, <3>1, AtLabel DEF HeldOf
    <2>3. CASE ~(call[t].tmp /\ call[t].idx # 0)
      BY <1>4, <2>3 DEF FormatCleanup
    <2> QED BY <2>2, <2>3
  <1> QED BY <1>1, <1>2, <1>3, <1>4 DEF Frees

LEMMA OthersFreeNothing ==
  ASSUME NEW t \in Tasks, Step(t), ~Frees(t)
  PROVE  heap \subseteq heap'
  <1>1. CASE \E op \in Ops, c \in Confs : Begin(t, op, c)
    BY <1>1 DEF Begin, data
  <1>2. CASE \/ TakeLock(t) \/ EnterVolume(t) \/ LockExists(t) \/ CreateLock(t)
             \/ FindEmpty(t) \/ FindDuplicate(t) \/ Create(t) \/ Publish(t) \/ Mount(t)
             \/ LookUpAgain(t) \/ Reformat(t) \/ Finish(t) \/ InitDone(t)
    BY <1>2 DEF TakeLock, EnterVolume, LockExists, CreateLock, FindEmpty, FindDuplicate,
                Create, Publish, Mount, LookUpAgain, Reformat, Finish, InitDone, data
  <1>3. CASE \/ SetBasePath(t) \/ VfsRegister(t) \/ ReadEntry(t) \/ PassEntry(t) \/ FindVolume(t)
             \/ VfsUnregister(t) \/ ClearSlot(t) \/ FormatVolume(t) \/ ReadSlot(t)
             \/ UseContext(t) \/ LeaveVolume(t)
    BY <1>3 DEF SetBasePath, VfsRegister, ReadEntry, PassEntry, FindVolume, VfsUnregister,
                ClearSlot, FormatVolume, ReadSlot, UseContext, LeaveVolume, data
  <1> QED BY <1>1, <1>2, <1>3 DEF Step, Frees, Work

LEMMA HeapStep ==
  ASSUME RegInv, Next
  PROVE  \E t \in Tasks : \A x \in heap : x # Held(t) => x \in heap'
  <1>1. PICK t \in Tasks : Step(t)
    BY DEF Next, Step
  <1> QED BY <1>1, FreesItsOwn, OthersFreeNothing

(* "leave pre-existing mounts untouched": no step frees the context of a   *)
(* volume that is mounted, whatever fails.                                 *)
THEOREM MountsAreNotFreed ==
  ASSUME CallersTakeCare
  PROVE  Spec => PreexistingMountsUntouched
  <1>1. RegInv /\ [Next]_vars =>
          [\A p \in Mounted : vfs[p] \in heap => vfs[p] \in heap']_vars
    <2> SUFFICES ASSUME RegInv, Next, NEW p \in Mounted, vfs[p] \in heap PROVE vfs[p] \in heap'
      OBVIOUS
    <2>1. PICK t \in Tasks : \A x \in heap : x # Held(t) => x \in heap'
      BY HeapStep
    <2> QED BY <2>1, MountedFacts DEF Mounted
  <1> QED BY InitOwned, NextOwned, <1>1, PTL DEF Spec, PreexistingMountsUntouched

(***************************************************************************)
(* Registration implements MountSpec.                                      *)
(***************************************************************************)
LEMMA VfsStep ==
  ASSUME Next
  PROVE  vfs' = vfs \/ \E t \in Tasks : VfsRegister(t) \/ VfsUnregister(t)
  <1>1. PICK t \in Tasks :
          \/ \E op \in Ops, c \in Confs : Begin(t, op, c)
          \/ TakeLock(t) \/ EnterVolume(t) \/ Work(t)
    BY DEF Next
  <1>2. CASE \E op \in Ops, c \in Confs : Begin(t, op, c)
    BY <1>2 DEF Begin, data
  <1>3. CASE \/ TakeLock(t) \/ EnterVolume(t) \/ LockExists(t) \/ CreateLock(t)
             \/ FindEmpty(t) \/ FindDuplicate(t) \/ Create(t) \/ Publish(t)
             \/ Mount(t) \/ LookUpAgain(t) \/ Reformat(t) \/ Finish(t)
             \/ InitFails(t) \/ InitDone(t)
    BY <1>3 DEF TakeLock, EnterVolume, LockExists, CreateLock, FindEmpty, FindDuplicate,
                Create, Publish, Mount, LookUpAgain, Reformat, Finish, InitFails, InitDone, data
  <1>4. CASE \/ SetBasePath(t) \/ VfsRegisterFails(t) \/ ReadEntry(t) \/ PassEntry(t)
             \/ FindVolume(t) \/ FreeVolume(t) \/ ClearSlot(t) \/ FormatVolume(t) \/ FormatCleanup(t)
             \/ ReadSlot(t) \/ UseContext(t) \/ LeaveVolume(t)
    BY <1>4 DEF SetBasePath, VfsRegisterFails, ReadEntry, PassEntry, FindVolume, FreeVolume,
                ClearSlot, FormatVolume, FormatCleanup, ReadSlot, UseContext, LeaveVolume, data
  <1> QED BY <1>1, <1>2, <1>3, <1>4 DEF Work

(* There is a slot for each volume, also for the one about to be mounted.  *)
LEMMA RoomForOneMore ==
  ASSUME RegInv, NEW c \in Confs, vfs[c] = NULL,
         NEW i \in Indices, slot[i] # NULL, ctx[slot[i]].base = {c},
         \A p \in Confs : vfs[p] # slot[i]
  PROVE  Cardinality(Mounted) < MAX
  <1> DEFINE S == Mounted \cup {c}
             At1(p) == CHOOSE j \in Indices : slot[j] = IF p = c THEN slot[i] ELSE vfs[p]
             f == [p \in S |-> At1(p)]
  <1>1. c \notin Mounted /\ Mounted \subseteq Confs
    BY DEF Mounted
  <1>2. \A p \in S : At1(p) \in Indices /\ slot[At1(p)] = IF p = c THEN slot[i] ELSE vfs[p]
    <2> SUFFICES ASSUME NEW p \in S
                 PROVE  \E j \in Indices : slot[j] = IF p = c THEN slot[i] ELSE vfs[p]
      OBVIOUS
    <2> QED BY MountedFacts DEF Mounted
  <1>3. \A p \in S : ctx[slot[At1(p)]].base = {p}
    BY <1>2, MountedFacts DEF Mounted
  <1> HIDE DEF At1
  <1>4. f \in [S -> Indices]
    BY <1>2
  <1>5. \A p, q \in S : f[p] = f[q] => p = q
    <2> SUFFICES ASSUME NEW p \in S, NEW q \in S, At1(p) = At1(q) PROVE p = q
      OBVIOUS
    <2>1. {p} = {q}
      BY <1>3
    <2> QED BY <2>1
  <1>6. f \in Injection(S, Indices)
    BY <1>4, <1>5 DEF Injection, IsInjective
  <1>7. IsFiniteSet(Indices) /\ Cardinality(Indices) = MAX /\ MAX \in Nat
    BY FS_Interval, RegistryAssumption DEF Indices
  <1>8. IsFiniteSet(S) /\ Cardinality(S) <= MAX
    BY <1>6, <1>7, FS_Injection
  <1>9. IsFiniteSet(Mounted)
    BY <1>8, FS_Subset
  <1>10. Cardinality(S) = Cardinality(Mounted) + 1
    BY <1>1, <1>9, FS_AddElement
  <1>11. Cardinality(Mounted) \in Nat
    BY <1>9, FS_CardinalityType
  <1> QED BY <1>7, <1>8, <1>10, <1>11

LEMMA MountStep ==
  ASSUME CallersTakeCare, RegInv, Next
  PROVE  Mounts!Next \/ UNCHANGED Mounted
  <1>1. CASE vfs' = vfs
    BY <1>1 DEF Mounted
  <1>2. ASSUME NEW t \in Tasks, VfsRegister(t)
        PROVE  Mounts!Next
    <2>1. PICK c, i : c = call[t].conf /\ i = call[t].idx
      OBVIOUS
    <2>2. pc[t] = "vfs" /\ vfs' = [vfs EXCEPT ![c] = slot[i]]
      BY <1>2, <2>1 DEF VfsRegister, At
    <2>3. /\ c \in Confs /\ i \in Indices /\ slot[i] # NULL
          /\ vfs[c] = NULL /\ ctx[slot[i]].base = {c}
          /\ ctx[slot[i]].dev = Device[c]
          /\ \A p \in Confs : vfs[p] # slot[i]
      <3>1. pc[t] \in {"base", "vfs"}
        BY <2>2
      <3>2. /\ c \in Confs /\ i \in Indices /\ slot[i] = call[t].efs /\ slot[i] # NULL
            /\ vfs[c] = NULL /\ ctx[call[t].efs].dev = Device[c]
        BY <2>1, <3>1, RegisterFacts
      <3>3. ctx[call[t].efs].base = {c} /\ \A p \in Confs : vfs[p] # call[t].efs
        BY <2>1, <2>2, RegisterFacts
      <3> QED BY <3>2, <3>3
    <2>4. Cardinality(Mounted) < MAX
      BY <2>3, RoomForOneMore
    <2>5. \A m \in Mounted : Device[m] # Device[c]
      <3> SUFFICES ASSUME NEW m \in Confs, vfs[m] # NULL, Device[m] = Device[c] PROVE FALSE
        BY DEF Mounted
      <3>1. PICK j \in Indices : slot[j] = vfs[m]
        BY MountedFacts
      <3>2. ctx[slot[j]].dev = ctx[slot[i]].dev
        BY <2>3, <3>1, MountedFacts
      <3>3. j = i
        BY <2>3, <3>1, <3>2 DEF RegInv, TableInv, OneContextPerDevice
      <3> QED BY <2>3, <3>1, <3>3
    <2>6. Mounted' = Mounted \cup {c}
      <3>1. \A p \in Confs : vfs'[p] = IF p = c THEN slot[i] ELSE vfs[p]
        BY <2>2, <2>3 DEF RegInv, Base, TypeOK
      <3> QED BY <2>3, <3>1 DEF Mounted
    <2>7. Mounts!Cardinality(Mounted) = Cardinality(Mounted)
      BY DEF Mounts!Cardinality, Cardinality
    <2> QED BY <2>3, <2>4, <2>5, <2>6, <2>7 DEF Mounts!Next, Mounts!Register
  <1>3. ASSUME NEW t \in Tasks, VfsUnregister(t)
        PROVE  Mounts!Next
    <2>1. PICK q \in Confs : /\ vfs[q] # NULL
                             /\ \A p \in Confs : vfs'[p] = IF p = q THEN NULL ELSE vfs[p]
      BY <1>3, UnregisterStep
    <2>2. q \in Mounted /\ Mounted' = Mounted \ {q}
      BY <2>1 DEF Mounted
    <2> QED BY <2>1, <2>2 DEF Mounts!Next, Mounts!Unregister
  <1> QED BY <1>1, <1>2, <1>3, VfsStep

(* Registration as its callers see it: a device is mounted under one path  *)
(* at most, at most MAX volumes are, and a volume stays mounted until it   *)
(* is unregistered, for any number of tasks, volumes and slots.            *)
THEOREM RegistryImplementsMountSpec ==
  ASSUME CallersTakeCare
  PROVE  Spec => ImplementsMountSpec
  <1>1. Init => Mounts!Init
    BY DEF Init, Mounts!Init, Mounted
  <1>2. RegInv /\ [Next]_vars => [Mounts!Next]_Mounted
    <2>1. UNCHANGED vars => UNCHANGED Mounted
      BY DEF vars, Mounted
    <2> QED BY <2>1, MountStep
  <1> QED BY InitOwned, NextOwned, <1>1, <1>2, PTL DEF Spec, ImplementsMountSpec, Mounts!Spec

-----------------------------------------------------------------------------
(***************************************************************************)
(* The walks, with callers who serialise: nothing is freed while a task    *)
(* walks.                                                                  *)
(***************************************************************************)
LEMMA NoFreeUnderAWalk ==
  ASSUME CallersSerialise, RegInv, NEW t \in Tasks, NEW u \in Tasks, t # u,
         pc[t] \in Walking
  PROVE  ~Frees(u)
  <1> SUFFICES ASSUME Frees(u) PROVE FALSE
    OBVIOUS
  <1>1. PICK a, b : a = call[t].op /\ b = call[u].op
    OBVIOUS
  <1>2. pc[u] \in {"fail", "vfs", "free", "cleanup"}
    BY DEF Frees, InitFails, VfsRegisterFails, FreeVolume, FormatCleanup, At
  <1>3. /\ a \in Ops /\ a # "file" /\ (pc[t] = "lookup" => a # "register")
        /\ b \in Changes
        /\ pc[u] = "free" => b = "unregister"
        /\ pc[u] = "cleanup" => b = "format"
    BY <1>1, <1>2, AtLabel DEF LocalOK, Walking, Inside, Published, Changes, Ops
  <1>4. t \in Active /\ u \in Active
    BY <1>2 DEF Active, At, Walking
  <1>5. {a, b} \in Overlap \cup OneDevice
    BY <1>1, <1>4 DEF RegInv, Disciplined
  <1>6. {a, b} \cap Changes # {} /\ "file" \notin {a, b}
    BY <1>3 DEF Changes
  <1>7. {a, b} \subseteq {"register"}
    BY <1>5, <1>6 DEF CallersSerialise
  <1>8. {a, b} = {"register"}
    BY <1>7
  <1>9. ~VfsRefuses
    BY <1>5, <1>8 DEF CallersSerialise
  <1>10. pc[u] = "fail"
    BY <1>2, <1>3, <1>7, <1>9 DEF Frees, InitFails, VfsRegisterFails, FreeVolume, FormatCleanup, At
  <1>11. pc[t] \in Inside /\ pc[u] \in Inside
    BY <1>3, <1>7, <1>10 DEF Walking, Inside
  <1> QED BY <1>11 DEF RegInv, Base, LockInv

(* Apart from the step that reads a slot, no step gives a walk an entry.   *)
LEMMA KeepsEntry ==
  ASSUME Base, NEW t \in Tasks, Step(t), ~ReadEntry(t), NEW u \in Tasks
  PROVE  call'[u].p \in {NULL, call[u].p}
  <1>1. PICK c : c = call[t]
    OBVIOUS
  <1>2. c \in CallType /\ \A r : Local(t, r) => call'[u] = IF u = t THEN r ELSE call[u]
    BY <1>1, CallTyped DEF Local, Base, TypeOK
  <1>3. CASE call' = call
    BY <1>3
  <1>4. CASE Local(t, NoCall)
    BY <1>2, <1>4 DEF NoCall
  <1>5. ASSUME NEW r, Local(t, r), r.p \in {NULL, c.p}
        PROVE  call'[u].p \in {NULL, call[u].p}
    BY <1>1, <1>2, <1>5
  <1>6. CASE \E op \in Ops, d \in Confs : Begin(t, op, d)
    <2>1. PICK op \in Ops, d \in Confs : Begin(t, op, d)
      BY <1>6
    <2>2. PICK r : r = [NoCall EXCEPT !.op = op, !.conf = d,
                                      !.efs = IF op = "file" THEN vfs[d] ELSE NULL]
      OBVIOUS
    <2>3. r.p = NULL /\ Local(t, r)
      BY <2>1, <2>2 DEF NoCall, Begin
    <2> QED BY <1>5, <2>3
  <1>7. CASE FindEmpty(t) \/ PassEntry(t)
    <2>1. PICK k, r, w : k = FoundAt(c, c.i) /\ r = Rewound(c) /\ w = NextEntry(c)
      OBVIOUS
    <2>2. /\ r.p = NULL
          /\ c.i \in Indices => k.p = NULL /\ w.p = NULL
      BY <1>2, <2>1, CallFields, WalkFields
    <2>3. \/ call' = call \/ Local(t, r)
          \/ c.i \in Indices /\ (Local(t, k) \/ Local(t, w))
      <3>1. CASE FindEmpty(t)
        BY <1>1, <2>1, <3>1 DEF FindEmpty, FoundAt
      <3>2. CASE PassEntry(t)
        <4>1. c.i \in Indices
          BY <1>1, <3>2, CallTyped DEF PassEntry, LocalOK
        <4> QED BY <1>1, <2>1, <3>2, <4>1 DEF PassEntry, Crash
      <3> QED BY <1>7, <3>1, <3>2
    <2> QED BY <1>3, <1>5, <2>2, <2>3
  <1>8. CASE FindDuplicate(t) \/ LookUpAgain(t) \/ Reformat(t) \/ FindVolume(t)
    <2>1. PICK k, r, w, m : k = FoundAt(c, c.i) /\ r = Rewound(c) /\ w = WithP(c, NULL)
                            /\ m = AsTmp(c)
      OBVIOUS
    <2>2. /\ r.p = NULL /\ w.p = NULL /\ m.p = NULL
          /\ c.i \in Indices => k.p = NULL
      BY <1>2, <2>1, CallFields, WalkFields
    <2>3. Found(t) => c.i \in Indices
      BY <1>1, CallTyped DEF Found, LocalOK
    <2>4. \/ call' = call \/ Local(t, r) \/ Local(t, w) \/ Local(t, m) \/ Local(t, NoCall)
          \/ Found(t) /\ Local(t, k)
      <3>1. CASE FindDuplicate(t)
        BY <1>1, <2>1, <3>1 DEF FindDuplicate, FoundAt
      <3>2. CASE LookUpAgain(t)
        BY <1>1, <2>1, <3>2 DEF LookUpAgain, WithP
      <3>3. CASE Reformat(t)
        BY <1>1, <2>1, <3>3 DEF Reformat, Crash
      <3>4. CASE FindVolume(t)
        BY <1>1, <2>1, <3>4 DEF FindVolume, FoundAt, AsTmp, Return
      <3> QED BY <1>8, <3>1, <3>2, <3>3, <3>4
    <2> QED BY <1>3, <1>4, <1>5, <2>2, <2>3, <2>4
  <1>9. CASE Create(t) \/ ReadSlot(t)
    <2>1. call' = call \/ \E x \in Ctxs \cup {NULL} : Local(t, WithEfs(c, x))
      <3>1. CASE Create(t)
        BY <1>1, <3>1 DEF Create, WithEfs
      <3>2. CASE ReadSlot(t)
        <4>1. slot[c.idx] \in Ctxs \cup {NULL}
          BY <1>1, <3>2, CallTyped DEF ReadSlot, At, LocalOK, Base, TypeOK
        <4> QED BY <1>1, <3>2, <4>1 DEF ReadSlot, Crash, WithEfs
      <3> QED BY <1>9, <3>1, <3>2
    <2> QED BY <1>2, <1>3, <1>5, <2>1, CallFields
  <1>10. CASE \/ TakeLock(t) \/ EnterVolume(t) \/ LockExists(t) \/ CreateLock(t) \/ Publish(t)
              \/ Mount(t) \/ Finish(t) \/ InitFails(t) \/ InitDone(t) \/ SetBasePath(t)
              \/ VfsRegister(t) \/ VfsRegisterFails(t) \/ VfsUnregister(t) \/ FreeVolume(t)
              \/ ClearSlot(t) \/ FormatVolume(t) \/ FormatCleanup(t) \/ UseContext(t)
              \/ LeaveVolume(t)
    <2>1. call' = call \/ Local(t, NoCall)
      BY <1>10 DEF TakeLock, EnterVolume, LockExists, CreateLock, Publish, Mount, Finish,
         InitFails, InitDone, SetBasePath, VfsRegister, VfsRegisterFails, VfsUnregister,
         FreeVolume, ClearSlot, FormatVolume, FormatCleanup, UseContext, LeaveVolume,
         Crash, Return
    <2> QED BY <1>3, <1>4, <2>1
  <1> QED BY <1>6, <1>7, <1>8, <1>9, <1>10 DEF Step, Work

(* Only a walk comes upon a stale entry. *)
LEMMA StaleOnlyInWalks ==
  ASSUME NEW t \in Tasks, Step(t), fault = "none", fault' = "stale_entry"
  PROVE  pc[t] \in Walking /\ call[t].p # NULL /\ call[t].p \notin heap
  <1>1. CASE \E op \in Ops, d \in Confs : Begin(t, op, d)
    BY <1>1 DEF Begin
  <1>2. CASE PassEntry(t)
    BY <1>2 DEF PassEntry
  <1>3. CASE \/ TakeLock(t) \/ EnterVolume(t) \/ LockExists(t) \/ CreateLock(t)
             \/ FindEmpty(t) \/ FindDuplicate(t) \/ Create(t) \/ Publish(t) \/ Mount(t)
             \/ LookUpAgain(t) \/ Reformat(t) \/ Finish(t) \/ InitFails(t) \/ InitDone(t)
    BY <1>3 DEF TakeLock, EnterVolume, LockExists, CreateLock, FindEmpty, FindDuplicate, Create,
                Publish, Mount, LookUpAgain, Reformat, Finish, InitFails, InitDone, Crash
  <1>4. CASE \/ SetBasePath(t) \/ VfsRegister(t) \/ VfsRegisterFails(t) \/ ReadEntry(t)
             \/ FindVolume(t) \/ VfsUnregister(t) \/ FreeVolume(t) \/ ClearSlot(t)
             \/ FormatVolume(t) \/ FormatCleanup(t) \/ ReadSlot(t) \/ UseContext(t)
             \/ LeaveVolume(t)
    BY <1>4 DEF SetBasePath, VfsRegister, VfsRegisterFails, ReadEntry, FindVolume, VfsUnregister,
                FreeVolume, ClearSlot, FormatVolume, FormatCleanup, ReadSlot, UseContext,
                LeaveVolume, Crash
  <1> QED BY <1>1, <1>2, <1>3, <1>4 DEF Step, Work

(* The entries of all walks are contexts on the heap. *)
SerialInv ==
  /\ RegInv
  /\ fault = "none"
  /\ \A t \in Tasks : call[t].p # NULL => call[t].p \in heap

LEMMA NextSerial ==
  ASSUME CallersTakeCare, CallersSerialise, SerialInv, [Next]_vars
  PROVE  SerialInv'
  <1>1. RegInv'
    BY NextOwned DEF SerialInv
  <1>2. CASE Next
    <2>1. PICK t \in Tasks : Step(t)
      BY <1>2 DEF Next, Step
    <2>2. fault' = "none"
      BY <1>1, <2>1, StaleOnlyInWalks DEF SerialInv, RegInv, OnlyWalksFault
    <2>3. ASSUME NEW u \in Tasks, call'[u].p # NULL
          PROVE  call'[u].p \in heap'
      <3>1. CASE ReadEntry(t)
        <4>1. heap' = heap /\ call[t].i \in Indices
          BY <3>1 DEF ReadEntry, data
        <4>2. slot[call[t].i] # NULL => slot[call[t].i] \in heap
          BY <4>1, SlottedIsContext DEF SerialInv
        <4>3. PICK c, w, r : c = call[t] /\ w = NextEntry(c) /\ r = WithP(c, slot[c.i])
          OBVIOUS
        <4>4. w.p = NULL /\ r.p = slot[c.i]
          <5>1. c \in CallType /\ slot[c.i] \in Ctxs \cup {NULL}
            BY <4>1, <4>3, AtLabel DEF SerialInv, TypeOK
          <5> QED BY <4>1, <4>3, <5>1, WalkFields
        <4>5. call'[u] = IF u = t THEN (IF slot[c.i] = NULL THEN w ELSE r) ELSE call[u]
          BY <3>1, <4>3 DEF ReadEntry, Local, WithP, SerialInv, RegInv, Base, TypeOK
        <4> QED BY <2>3, <4>1, <4>2, <4>3, <4>4, <4>5 DEF SerialInv
      <3>2. CASE ~ReadEntry(t)
        <4>1. call'[u].p = call[u].p
          BY <2>1, <2>3, <3>2, KeepsEntry DEF SerialInv, RegInv
        <4>2. pc'[u] \in Walking
          BY <1>1, <2>3, AtLabel DEF RegInv, Base, LocalOK
        <4>3. call[u].p \in heap /\ pc[u] \in Walking
          BY <2>3, <4>1, AtLabel DEF SerialInv, LocalOK
        <4>4. ~Frees(t)
          <5>1. CASE u = t
            BY <4>3, <5>1 DEF Frees, InitFails, VfsRegisterFails, FreeVolume, FormatCleanup,
                              At, Walking
          <5>2. CASE u # t
            BY <4>3, <5>2, NoFreeUnderAWalk DEF SerialInv
          <5> QED BY <5>1, <5>2
        <4> QED BY <2>1, <4>1, <4>3, <4>4, OthersFreeNothing
      <3> QED BY <3>1, <3>2
    <2> QED BY <1>1, <2>2, <2>3 DEF SerialInv
  <1>3. CASE UNCHANGED vars
    BY <1>1, <1>3 DEF vars, SerialInv
  <1> QED BY <1>2, <1>3

(* With callers that do not overlap a lookup or a registration with a free *)
(* no function, walk or file call uses a context that is freed under it:   *)
(* the table is then safe to read without _efs_lock.                       *)
THEOREM NothingFreedIsUsed ==
  ASSUME CallersTakeCare, CallersSerialise
  PROVE  Spec => []NoFault
  <1>1. Init => SerialInv
    BY InitOwned DEF Init, SerialInv, NoCall
  <1>2. SerialInv => NoFault
    BY DEF SerialInv, NoFault
  <1> QED BY <1>1, NextSerial, <1>2, PTL DEF Spec
=============================================================================
