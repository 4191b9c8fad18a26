-------------------------- MODULE VolumeLock_proofs -------------------------
(***************************************************************************)
(* Proof about VolumeLock, for any number of tasks, handles and paths: the *)
(* recursive mutex of a volume is taken exactly as often as its holder has *)
(* sections open, as long as no seek of pread or pwrite fails (SeekErrors: *)
(* those return without giving it).                                        *)
(***************************************************************************)
EXTENDS VolumeLock, TLAPS

Fields(c) == {"op", "stage"} \subseteq DOMAIN c

(* A section is nested only in a flushed write, which waits for the mutex  *)
(* a second time, runs its checked call, and gives it.                     *)
LockInv ==
  /\ pc \in [Tasks -> Labels]
  /\ call = [t \in Tasks |-> call[t]] /\ \A t \in Tasks : Fields(call[t])
  /\ owner \in Tasks \cup {NULL} /\ depth \in Nat
  /\ \A t \in Tasks : Nested(call[t]) => pc[t] \in {"take", "check", "lfs", "give"}
  /\ LockMatchesSections

LEMMA InitLock == Init => LockInv
  <1> SUFFICES ASSUME Init PROVE LockInv
    OBVIOUS
  <1>1. \A t \in Tasks : pc[t] = "idle" /\ ~Nested(call[t])
    BY DEF Init, NoCall, Nested
  <1>2. \A t \in Tasks : Holding(t) = 0
    BY <1>1 DEF Holding
  <1>3. \A t \in Tasks : Fields(call[t])
    BY DEF Init, NoCall, Fields
  <1> QED BY <1>1, <1>2, <1>3 DEF Init, LockInv, LockMatchesSections, Labels

(* A step of task t that leaves the mutex alone, and the number of its     *)
(* sections.                                                               *)
LEMMA HoldingKept ==
  ASSUME LockInv, NEW t \in Tasks, UNCHANGED lock,
         NEW l \in Labels, Goto(t, l),
         call' = [u \in Tasks |-> call'[u]], \A u \in Tasks \ {t} : call'[u] = call[u],
         Fields(call'[t]),
         Nested(call'[t]) => l \in {"take", "check", "lfs", "give"},
         (IF Nested(call'[t]) THEN (IF l = "take" THEN 1 ELSE 2)
          ELSE IF l \in {"idle", "take"} THEN 0 ELSE 1) = Holding(t)
  PROVE  LockInv'
  <1>1. pc' \in [Tasks -> Labels] /\ pc'[t] = l /\ \A u \in Tasks \ {t} : pc'[u] = pc[u]
    BY DEF LockInv, Goto
  <1>2. \A u \in Tasks : Holding(u)' = Holding(u)
    BY <1>1 DEF Holding, At, Nested
  <1>3. owner' = owner /\ depth' = depth
    BY DEF lock
  <1>4. LockMatchesSections'
    BY <1>2, <1>3 DEF LockInv, LockMatchesSections
  <1>5. \A u \in Tasks : Nested(call'[u]) => pc'[u] \in {"take", "check", "lfs", "give"}
    BY <1>1 DEF LockInv
  <1>6. \A u \in Tasks : Fields(call'[u])
    BY DEF LockInv
  <1> QED BY <1>1, <1>3, <1>4, <1>5, <1>6 DEF LockInv, Nested, Fields

(* A step inside a section.                                                *)
LEMMA InnerStep ==
  ASSUME LockInv, NEW t \in Tasks, UNCHANGED lock, pc[t] \notin {"idle", "take"},
         NEW l \in Labels \ {"idle", "take"}, Goto(t, l),
         Nested(call[t]) => l \in {"check", "lfs", "give"},
         \/ call' = call
         \/ \E c : Local(t, c) /\ Fields(c) /\ c.op = call[t].op /\ c.stage = call[t].stage
  PROVE  LockInv'
  <1>1. /\ call' = [u \in Tasks |-> call'[u]] /\ \A u \in Tasks \ {t} : call'[u] = call[u]
        /\ Fields(call'[t])
    BY DEF LockInv, Local
  <1>2. Nested(call'[t]) <=> Nested(call[t])
    BY DEF LockInv, Local, Nested
  <1>3. Holding(t) = IF Nested(call[t]) THEN 2 ELSE 1
    BY DEF Holding, At
  <1> QED BY <1>1, <1>2, <1>3, HoldingKept

LEMMA StopStep ==
  ASSUME LockInv, UNCHANGED <<lock, pc, call>>
  PROVE  LockInv'
  BY DEF LockInv, lock, LockMatchesSections, Holding, At, Nested, Fields

-----------------------------------------------------------------------------
LEMMA StartStep ==
  ASSUME LockInv, NEW t \in Tasks, Start(t)
  PROVE  LockInv'
  <1>1. PICK c : Begin(t, c) /\ c.stage = 1 /\ Fields(c)
    <2> DEFINE Good(c) == c.stage = 1 /\ Fields(c)
    <2>1. /\ \A op, g, p : Good([NoCall EXCEPT !.op = op, !.slot = g, !.path = p])
          /\ \A op, g, d : Good([NoCall EXCEPT !.op = op, !.slot = g, !.fd = d])
          /\ \A op, p : Good([NoCall EXCEPT !.op = op, !.path = p])
          /\ \A op, p, q : Good([NoCall EXCEPT !.op = op, !.path = p, !.to = q])
      BY DEF NoCall, Fields
    <2> HIDE DEF Good
    <2>2. \E c : Begin(t, c) /\ Good(c)
      <3>1. CASE \E g \in Handles, p \in Paths, op \in {"open", "creat"} : BeginOpen(t, g, p, op)
        BY <2>1, <3>1, ZenonT(30) DEF BeginOpen
      <3>2. CASE \E g \in Handles, op \in FdOps : BeginFd(t, g, op)
        <4>1. PICK g, op, d : Begin(t, [NoCall EXCEPT !.op = op, !.slot = g, !.fd = d])
          BY <3>2 DEF BeginFd
        <4>2. Good([NoCall EXCEPT !.op = op, !.slot = g, !.fd = d])
          BY <2>1
        <4> QED BY <4>1, <4>2
      <3>3. CASE \E p \in Paths : BeginTruncate(t, p)
        BY <2>1, <3>3, ZenonT(30) DEF BeginTruncate
      <3>4. CASE \E p \in Paths, op \in PathOps : BeginPath(t, p, op)
        BY <2>1, <3>4, ZenonT(30) DEF BeginPath
      <3>5. CASE \E p, q \in Paths : BeginRename(t, p, q)
        BY <2>1, <3>5, ZenonT(30) DEF BeginRename
      <3> QED BY <3>1, <3>2, <3>3, <3>4, <3>5 DEF Start
    <2> QED BY <2>2 DEF Good
  <1>2. /\ pc[t] = "idle" /\ Goto(t, "take") /\ UNCHANGED lock
        /\ call' = [call EXCEPT ![t] = c]
    BY <1>1 DEF Begin, At, Local
  <1>3. /\ call' = [u \in Tasks |-> call'[u]] /\ call'[t] = c
        /\ \A u \in Tasks \ {t} : call'[u] = call[u]
    BY <1>2 DEF LockInv
  <1>4. ~Nested(call'[t]) /\ ~Nested(call[t])
    BY <1>1, <1>2, <1>3 DEF Nested, LockInv
  <1>5. Holding(t) = 0 /\ "take" \in Labels
    BY <1>2, <1>4 DEF Holding, Labels
  <1> QED BY <1>1, <1>2, <1>3, <1>4, <1>5, HoldingKept

(* The mutex is taken a first time by a section, and a second time by the  *)
(* section nested in it.                                                   *)
LEMMA TakeStep ==
  ASSUME LockInv, NEW t \in Tasks, Take(t)
  PROVE  LockInv'
  <1> DEFINE l == FirstStep(call[t])
  <1>1. /\ pc[t] = "take" /\ Goto(t, l) /\ call' = call
        /\ owner \in {NULL, t} /\ owner' = t /\ depth' = depth + 1
    BY DEF Take, SemTake, At
  <1>2. l \in {"grow", "busy", "lfs", "check"} /\ (Nested(call[t]) => l = "check")
    BY DEF FirstStep, Nested, OpenSection
  <1> HIDE DEF l
  <1>3. pc' \in [Tasks -> Labels] /\ pc'[t] = l /\ \A u \in Tasks \ {t} : pc'[u] = pc[u]
    BY <1>1, <1>2 DEF LockInv, Goto, Labels
  <1>4. \A u \in Tasks : Nested(call'[u]) <=> Nested(call[u])
    BY <1>1
  <1>5. Holding(t) = IF Nested(call[t]) THEN 1 ELSE 0
    BY <1>1 DEF Holding, At
  <1>6. Holding(t)' = IF Nested(call[t]) THEN 2 ELSE 1
    BY <1>2, <1>3, <1>4 DEF Holding, At
  <1>7. \A u \in Tasks \ {t} : Holding(u)' = Holding(u)
    BY <1>1, <1>3 DEF Holding, At
  <1>8. \A u \in Tasks \ {t} : ~(Holding(u) > 0)
    BY <1>1, VolumeAssumption DEF LockInv, LockMatchesSections, VolumeAssumption
  <1>9. depth' = Holding(t)'
    <2>1. depth = Holding(t)
      <3>1. CASE owner = NULL
        BY <1>5, <3>1, VolumeAssumption DEF LockInv, LockMatchesSections, VolumeAssumption
      <3>2. CASE owner = t
        BY <3>2, VolumeAssumption DEF LockInv, LockMatchesSections, VolumeAssumption
      <3> QED BY <1>1, <3>1, <3>2
    <2> QED BY <1>1, <1>5, <1>6, <2>1
  <1>10. LockMatchesSections'
    <2>1. t # NULL
      BY VolumeAssumption DEF VolumeAssumption
    <2> QED BY <1>1, <1>7, <1>8, <1>9, <2>1 DEF LockMatchesSections
  <1>11. \A u \in Tasks : Nested(call'[u]) => pc'[u] \in {"take", "check", "lfs", "give"}
    BY <1>1, <1>2, <1>3 DEF LockInv
  <1> QED BY <1>1, <1>3, <1>10, <1>11 DEF LockInv, Fields

(* A section that ends gives the mutex back once.                          *)
LEMMA GiveStep ==
  ASSUME LockInv, NEW t \in Tasks, Give(t)
  PROVE  LockInv'
  <1>1. pc[t] = "give" /\ depth' = depth - 1 /\ owner' = IF depth = 1 THEN NULL ELSE owner
    BY DEF Give, SemGive, At
  <1>2. Holding(t) = IF Nested(call[t]) THEN 2 ELSE 1
    BY <1>1 DEF Holding, At
  <1>3. owner = t /\ depth = Holding(t) /\ t # NULL
    BY <1>2, VolumeAssumption DEF LockInv, LockMatchesSections, VolumeAssumption
  <1>4. \A u \in Tasks \ {t} : ~(Holding(u) > 0)
    BY <1>3 DEF LockInv, LockMatchesSections
  <1>a. \E l \in {"take", "give", "idle"} : \E c :
          /\ pc' = [pc EXCEPT ![t] = l] /\ call' = [call EXCEPT ![t] = c] /\ ~Nested(c)
          /\ Fields(c) /\ (l = "give" <=> Nested(call[t]))
    <2>1. CASE MoreToDo(call[t])
      <3>1. Goto(t, "take") /\ ~Nested(call[t])
        BY <2>1 DEF Give, MoreToDo, Nested
      <3> DEFINE c == [call[t] EXCEPT !.stage = call[t].stage + 1, !.file = NULL]
      <3>2. Local(t, c)
        BY <2>1 DEF Give, MoreToDo, Nested
      <3>3. Fields(c) /\ c.op = "truncate"
        BY <2>1 DEF LockInv, Fields, MoreToDo
      <3> HIDE DEF c
      <3> QED BY <3>1, <3>2, <3>3 DEF Goto, Local, Nested
    <2>2. CASE Nested(call[t])
      <3>1. pc' = [pc EXCEPT ![t] = "give"]
        BY <1>1, <2>2 DEF Give, MoreToDo, Nested, LockInv
      <3> DEFINE c == [call[t] EXCEPT !.stage = 1]
      <3>2. Local(t, c)
        BY <2>2 DEF Give, MoreToDo, Nested
      <3>3. Fields(c) /\ c.stage = 1
        BY DEF LockInv, Fields
      <3>4. ~Nested(c)
        BY <3>3 DEF Nested
      <3> HIDE DEF c
      <3>5. call' = [call EXCEPT ![t] = c]
        BY <3>2 DEF Local
      <3> QED BY <2>2, <3>1, <3>3, <3>4, <3>5, Zenon
    <2>3. CASE ~MoreToDo(call[t]) /\ ~Nested(call[t])
      <3>1. Fields(NoCall) /\ ~Nested(NoCall)
        BY DEF Fields, NoCall, Nested
      <3> QED BY <2>3, <3>1 DEF Give, Goto, Local
    <2> QED BY <2>1, <2>2, <2>3
  <1>b. PICK l \in {"take", "give", "idle"} : \E c :
          /\ pc' = [pc EXCEPT ![t] = l] /\ call' = [call EXCEPT ![t] = c] /\ ~Nested(c)
          /\ Fields(c) /\ (l = "give" <=> Nested(call[t]))
    BY <1>a
  <1>5. PICK c :
          /\ pc' = [pc EXCEPT ![t] = l] /\ call' = [call EXCEPT ![t] = c] /\ ~Nested(c)
          /\ Fields(c) /\ (l = "give" <=> Nested(call[t]))
    BY <1>b
  <1>6. /\ pc' \in [Tasks -> Labels] /\ pc'[t] = l /\ \A u \in Tasks \ {t} : pc'[u] = pc[u]
        /\ call' = [u \in Tasks |-> call'[u]] /\ call'[t] = c
        /\ \A u \in Tasks \ {t} : call'[u] = call[u]
    BY <1>5 DEF LockInv, Labels
  <1>7. Holding(t)' = IF Nested(call[t]) THEN 1 ELSE 0
    BY <1>5, <1>6 DEF Holding, At, Nested
  <1>8. \A u \in Tasks \ {t} : Holding(u)' = Holding(u)
    BY <1>6 DEF Holding, At, Nested
  <1>9. depth' = Holding(t)' /\ owner' = IF Nested(call[t]) THEN t ELSE NULL
    BY <1>1, <1>2, <1>3, <1>7
  <1>10. LockMatchesSections'
    BY <1>3, <1>4, <1>7, <1>8, <1>9 DEF LockMatchesSections
  <1>11. \A u \in Tasks : Nested(call'[u]) => pc'[u] \in {"take", "check", "lfs", "give"}
    BY <1>5, <1>6 DEF LockInv, Nested
  <1>12. owner' \in Tasks \cup {NULL} /\ depth' \in Nat
    BY <1>7, <1>9
  <1>13. \A u \in Tasks : Fields(call'[u])
    BY <1>5, <1>6 DEF LockInv
  <1> QED BY <1>6, <1>10, <1>11, <1>12, <1>13 DEF LockInv, Fields

(* A flushed write goes to the nested section with the mutex in its hands. *)
LEMMA FlushStep ==
  ASSUME LockInv, NEW t \in Tasks, WriteFlush(t)
  PROVE  LockInv'
  <1>1. /\ pc[t] = "lfs" /\ call[t].stage = 1 /\ Goto(t, "take") /\ UNCHANGED lock
        /\ Local(t, [call[t] EXCEPT !.stage = 2])
    BY DEF WriteFlush, At
  <1>2. call' = [u \in Tasks |-> call'[u]] /\ \A u \in Tasks \ {t} : call'[u] = call[u]
    BY <1>1 DEF LockInv, Local
  <1>3. Holding(t) = 1
    BY <1>1 DEF Holding, Nested
  <1> DEFINE c == [call[t] EXCEPT !.stage = 2]
  <1>4. c.op = "write" /\ c.stage = 2 /\ Fields(c)
    BY DEF LockInv, Fields, WriteFlush
  <1> HIDE DEF c
  <1>5. call'[t] = c
    BY <1>1 DEF LockInv, Local, c
  <1>6. Nested(call'[t]) /\ Fields(call'[t])
    BY <1>4, <1>5 DEF Nested
  <1> QED BY <1>1, <1>2, <1>3, <1>6, HoldingKept DEF Labels

(* The other steps are inside a section.                                   *)
LEMMA SectionStep ==
  ASSUME LockInv, NEW t \in Tasks,
         \/ OpenGrow(t) \/ OpenObject(t) \/ OpenLink(t)
         \/ OpenFile(t) \/ OpenFileFails(t) \/ OpenName(t)
         \/ FdCheck(t) \/ LfsCall(t) \/ CloseFile(t) \/ CloseFileFails(t)
         \/ BusyCheck(t) \/ RemoveOrMove(t)
  PROVE  LockInv'
  <1> DEFINE Inner == {"object", "link", "lfs", "name", "give"}
             Same(c) == Fields(c) /\ c.op = call[t].op /\ c.stage = call[t].stage
  <1>1. UNCHANGED lock /\ pc[t] \notin {"idle", "take"}
    BY DEF OpenGrow, OpenObject, OpenLink, OpenFile, OpenFileFails, OpenName, FdCheck, LfsCall,
           CloseFile, CloseFileFails, BusyCheck, RemoveOrMove, At
  <1>2. \/ UNCHANGED <<pc, call>>
        \/ \E l \in Inner : /\ Goto(t, l)
                            /\ Nested(call[t]) => l \in {"check", "lfs", "give"}
                            /\ call' = call \/ \E c : Local(t, c) /\ Same(c)
    <2>1. CASE OpenGrow(t)
      BY <2>1 DEF OpenGrow, LockInv, At
    <2>2. CASE OpenObject(t)
      <3>1. ~Nested(call[t])
        BY <2>2 DEF OpenObject, LockInv, At
      <3>2. CASE Goto(t, "give") /\ call' = call
        BY <3>2
      <3>3. CASE ~(Goto(t, "give") /\ call' = call)
        <4>1. PICK f : Local(t, [call[t] EXCEPT !.fd = FreeSlot(efs), !.file = f]) /\ Goto(t, "link")
          BY <2>2, <3>3 DEF OpenObject
        <4> DEFINE c == [call[t] EXCEPT !.fd = FreeSlot(efs), !.file = f]
        <4>2. Same(c)
          BY DEF LockInv, Fields
        <4> HIDE DEF c
        <4> QED BY <3>1, <4>1, <4>2 DEF c
      <3> QED BY <3>2, <3>3
    <2>3. CASE OpenLink(t) \/ OpenName(t)
      BY <2>3 DEF OpenLink, OpenName, LockInv, At
    <2>4. CASE OpenFile(t)
      BY <2>4 DEF OpenFile, OpenSection, Nested
    <2>5. CASE OpenFileFails(t)
      <3> DEFINE c == [call[t] EXCEPT !.fd = NoFd, !.file = NULL]
      <3>1. Same(c)
        BY DEF LockInv, Fields
      <3>2. Local(t, c) /\ Goto(t, "give")
        BY <2>5 DEF OpenFileFails
      <3> HIDE DEF c
      <3> QED BY <3>1, <3>2
    <2>6. CASE FdCheck(t)
      <3>1. CASE UNCHANGED <<pc, call>>
        BY <3>1
      <3>2. CASE Goto(t, "give") /\ call' = call
        BY <3>2
      <3>3. CASE Local(t, [call[t] EXCEPT !.file = efs.cache[call[t].fd]]) /\ Goto(t, "lfs")
        <4> DEFINE c == [call[t] EXCEPT !.file = efs.cache[call[t].fd]]
        <4>1. Same(c)
          BY DEF LockInv, Fields
        <4> HIDE DEF c
        <4> QED BY <3>3, <4>1 DEF c
      <3> QED BY <2>6, <3>1, <3>2, <3>3 DEF FdCheck
    <2>7. CASE LfsCall(t) \/ CloseFile(t) \/ CloseFileFails(t) \/ RemoveOrMove(t)
      BY <2>7 DEF LfsCall, CloseFile, CloseFileFails, RemoveOrMove
    <2>8. CASE BusyCheck(t)
      BY <2>8 DEF BusyCheck
    <2> QED BY <2>1, <2>2, <2>3, <2>4, <2>5, <2>6, <2>7, <2>8
  <1>3. \A l \in Inner : l \in Labels \ {"idle", "take"}
    BY DEF Labels
  <1> HIDE DEF Inner
  <1> QED BY <1>1, <1>2, <1>3, InnerStep, StopStep

LEMMA NextLock == ASSUME ~SeekErrors, LockInv, [Next]_vars PROVE LockInv'
  <1>1. CASE Next
    <2>1. PICK t \in Tasks : Start(t) \/ Take(t) \/ Work(t)
      BY <1>1 DEF Next
    <2>2. ~SeekFails(t)
      BY DEF SeekFails
    <2>3. CASE Work(t)
      BY <2>2, <2>3, SectionStep, FlushStep, GiveStep DEF Work
    <2> QED BY <2>1, <2>3, StartStep, TakeStep
  <1>2. CASE UNCHANGED vars
    BY <1>2, StopStep DEF vars, lock
  <1> QED BY <1>1, <1>2

(* The mutex of a volume is held exactly by the sections that are running, *)
(* nested ones counted, on every path through the calls but those after a  *)
(* failing seek (sem_take and sem_give in esp_littlefs.c).                 *)
THEOREM LocksAreGivenBack == ASSUME ~SeekErrors PROVE Spec => []LockMatchesSections
  <1>1. LockInv => LockMatchesSections
    BY DEF LockInv
  <1>2. LockInv /\ [Next]_vars => LockInv'
    BY NextLock
  <1> QED BY InitLock, <1>1, <1>2, PTL DEF Spec
=============================================================================
