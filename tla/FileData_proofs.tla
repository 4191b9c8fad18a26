--------------------------- MODULE FileData_proofs ---------------------------
(***************************************************************************)
(* Proofs about FileData, for any number of files, descriptors, versions   *)
(* and failures: a nonce never goes back while contents change, and what   *)
(* was promised stays stored.  The callers keep the discipline that one    *)
(* descriptor at a time writes a file (a guard of OpenFile); what is said  *)
(* of nonces also needs that the time of a file open for writing is not    *)
(* set (~UtimeWhileOpen).                                                  *)
(***************************************************************************)
EXTENDS FileData, TLAPS

(* What a descriptor in memory is to the stored file: a writing one is     *)
(* ahead of it (in its nonce, too, unless utime may overtake it), another  *)
(* has nothing to store, and one with nothing left to store is not ahead.  *)
Fits(o, s) ==
  /\ "W" \in o.mode => o.ver >= s.ver /\ (~UtimeWhileOpen => o.time >= s.nonce)
  /\ "W" \notin o.mode => ~o.dirty
  /\ ~o.dirty /\ ~o.erred => o.ver <= s.ver

OneWriter ==
  \A g, h \in Handles : Writes(g) /\ Writes(h) /\ handle[g].file = handle[h].file => g = h

OpenFit ==
  \A h \in Handles : Open(h) =>
    store[handle[h].file] # NULL /\ Fits(handle[h], store[handle[h].file])

NewUntold == \A f \in Files : store[f] = NULL => told[f] = 0

Inv == TypeOK /\ OneWriter /\ OpenFit /\ Durable /\ NewUntold /\ ContentHasNonce

(* What a synchronisation of o over the stored s leaves in r. *)
Synced(o, s, r) ==
  /\ r.obj \in Object /\ r.obj.file = o.file /\ r.obj.mode = o.mode /\ r.obj.ver = o.ver
  /\ r.stored \in Stored /\ r.ok \in BOOLEAN
  /\ r.stored.ver >= s.ver
  /\ r.stored.ver # s.ver /\ ~UtimeWhileOpen => r.stored.nonce > s.nonce
  /\ Fits(r.obj, r.stored)
  /\ r.ok /\ ~o.erred => o.ver <= r.stored.ver
  /\ "W" \notin o.mode => r.stored = s
  /\ r.stored = s \/ r.stored.nonce > 0

(* An updated time is a mark of its own, and greater than the old one. *)
LEMMA UpdatedTimes ==
  ASSUME NEW t \in Nat \cup {NoAttr}, NEW n \in updated_times(t)
  PROVE  n \in Nat /\ n > 0 /\ n > t
  <1>1. CASE t = 0
    BY <1>1, FileDataAssumption DEF updated_times
  <1>2. CASE t # 0
    BY <1>2 DEF updated_times, NoAttr
  <1> QED BY <1>1, <1>2

(* lfs_file_sync of an object that fits, after its time may have moved on. *)
LEMMA SyncedBySync ==
  ASSUME NEW o \in Object, NEW s \in Stored, NEW f, Fits(o, s),
         NEW t \in Nat \cup {NoAttr}, (t > o.time /\ t > 0) \/ (t = o.time /\ "W" \notin o.mode),
         NEW r \in lfs_sync([o EXCEPT !.time = t], f, s)
  PROVE  Synced(o, s, r)
  <1> DEFINE p == [o EXCEPT !.time = t]
             new == [ver |-> o.ver, nonce |-> t]
  <1>1. /\ p \in Object /\ p.file = o.file /\ p.mode = o.mode /\ p.ver = o.ver
        /\ p.dirty = o.dirty /\ p.erred = o.erred /\ p.time = t
    BY DEF Object
  <1>2. new \in Stored /\ new.ver = o.ver /\ new.nonce = t
    BY DEF Stored, Object
  <1>3. /\ o.ver \in Nat /\ s.ver \in Nat /\ o.time \in Int /\ s.nonce \in Int /\ t \in Int
        /\ o.dirty \in BOOLEAN /\ o.erred \in BOOLEAN
    BY DEF Object, Stored, NoAttr
  <1>4. "W" \in o.mode =>
          o.ver >= s.ver /\ (~UtimeWhileOpen => t >= s.nonce /\ t > s.nonce)
    BY <1>3 DEF Fits
  <1>5. CASE o.erred \/ ~o.dirty
    <2>1. r = [obj |-> p, stored |-> s, ok |-> TRUE]
      BY <1>1, <1>5 DEF lfs_sync
    <2>2. r.obj = p /\ r.stored = s /\ r.ok = TRUE
      BY <2>1
    <2>3. Fits(p, s)
      BY <1>1, <1>3, <1>4 DEF Fits
    <2>4. ~o.erred => o.ver <= s.ver
      BY <1>5 DEF Fits
    <2> HIDE DEF p, new
    <2>5. /\ r.obj \in Object /\ r.obj.file = o.file /\ r.obj.mode = o.mode
          /\ r.obj.ver = o.ver /\ r.stored \in Stored
      BY <1>1, <2>2
    <2>6. r.stored.ver >= s.ver /\ r.stored.ver = s.ver
      BY <1>3, <2>2
    <2>7. Fits(r.obj, r.stored) /\ (~o.erred => o.ver <= r.stored.ver) /\ r.stored = s
      BY <2>2, <2>3, <2>4, Zenon
    <2> QED BY <2>2, <2>5, <2>6, <2>7, Zenon DEF Synced
  <1>6. CASE ~o.erred /\ o.dirty
    <2>1. "W" \in o.mode
      BY <1>6 DEF Fits
    <2>2. \/ r = [obj |-> [p EXCEPT !.dirty = FALSE], stored |-> new, ok |-> TRUE]
          \/ r \in [obj : {[p EXCEPT !.erred = TRUE]}, stored : {s, new}, ok : {FALSE}]
      BY <1>1, <1>6 DEF lfs_sync
    <2>3. CASE r = [obj |-> [p EXCEPT !.dirty = FALSE], stored |-> new, ok |-> TRUE]
      <3> DEFINE q == [p EXCEPT !.dirty = FALSE]
      <3>1. /\ q \in Object /\ q.file = o.file /\ q.mode = o.mode /\ q.ver = o.ver
            /\ q.time = t /\ ~q.dirty
        BY <1>1 DEF Object
      <3>2. r.obj = q /\ r.stored = new /\ r.ok = TRUE
        BY <2>3
      <3>3. Fits(q, new)
        BY <1>2, <1>3, <2>1, <3>1 DEF Fits
      <3> HIDE DEF q, new
      <3>4. /\ r.obj \in Object /\ r.obj.file = o.file /\ r.obj.mode = o.mode
            /\ r.obj.ver = o.ver /\ r.stored \in Stored
        BY <1>2, <3>1, <3>2
      <3>5. r.stored.ver >= s.ver /\ (r.stored.ver # s.ver /\ ~UtimeWhileOpen => r.stored.nonce > s.nonce)
        BY <1>2, <1>3, <1>4, <2>1, <3>2
      <3>6. Fits(r.obj, r.stored) /\ (r.ok => o.ver <= r.stored.ver)
        BY <1>2, <1>3, <3>2, <3>3
      <3>7. r.ok \in BOOLEAN /\ (r.stored = s \/ r.stored.nonce > 0)
        BY <1>2, <2>1, <3>2
      <3> QED BY <2>1, <3>4, <3>5, <3>6, <3>7, Zenon DEF Synced
    <2>4. CASE r \in [obj : {[p EXCEPT !.erred = TRUE]}, stored : {s, new}, ok : {FALSE}]
      <3> DEFINE q == [p EXCEPT !.erred = TRUE]
      <3>1. /\ q \in Object /\ q.file = o.file /\ q.mode = o.mode /\ q.ver = o.ver
            /\ q.time = t /\ q.erred
        BY <1>1 DEF Object
      <3>2. r.obj = q /\ r.stored \in {s, new} /\ r.ok = FALSE
        BY <2>4
      <3>3. Fits(q, s) /\ Fits(q, new)
        BY <1>2, <1>3, <1>4, <2>1, <3>1 DEF Fits
      <3> HIDE DEF q, new
      <3>4. /\ r.obj \in Object /\ r.obj.file = o.file /\ r.obj.mode = o.mode
            /\ r.obj.ver = o.ver /\ r.stored \in Stored
        BY <1>2, <3>1, <3>2
      <3>5. r.stored.ver >= s.ver /\ (r.stored.ver # s.ver /\ ~UtimeWhileOpen => r.stored.nonce > s.nonce)
        BY <1>2, <1>3, <1>4, <2>1, <3>2
      <3>6. Fits(r.obj, r.stored) /\ (r.ok => o.ver <= r.stored.ver)
        BY <1>2, <1>3, <3>2, <3>3
      <3>7. r.ok \in BOOLEAN /\ (r.stored = s \/ r.stored.nonce > 0)
        BY <1>2, <2>1, <3>2
      <3> QED BY <2>1, <3>4, <3>5, <3>6, <3>7, Zenon DEF Synced
    <2> QED BY <2>2, <2>3, <2>4
  <1> QED BY <1>3, <1>5, <1>6

(* esp_littlefs_file_sync of a descriptor that fits. *)
LEMMA SyncedByFileSync ==
  ASSUME NEW o \in Object, NEW s \in Stored, NEW f, Fits(o, s),
         NEW r \in file_sync(o, f, s)
  PROVE  Synced(o, s, r)
  <1>1. o.time \in Nat \cup {NoAttr} /\ o.mode \in Modes
    BY DEF Object
  <1>2. CASE o.mode \cap {"R", "W"} = {"R"}
    <2>1. r \in lfs_sync([o EXCEPT !.time = o.time], f, s)
      BY <1>2 DEF file_sync
    <2>2. "W" \notin o.mode
      BY <1>2
    <2> QED BY <1>1, <2>1, <2>2, SyncedBySync
  <1>3. CASE o.mode \cap {"R", "W"} # {"R"}
    <2>1. PICK t \in updated_times(o.time) : r \in lfs_sync([o EXCEPT !.time = t], f, s)
      BY <1>3 DEF file_sync
    <2>2. t \in Nat \cup {NoAttr} /\ t > o.time /\ t > 0
      BY <1>1, UpdatedTimes
    <2> QED BY <2>1, <2>2, SyncedBySync
  <1> QED BY <1>2, <1>3

-----------------------------------------------------------------------------
(* Other contents, greater nonce. *)
NonceStep ==
  \A f \in Files :
    ~UtimeWhileOpen /\ store[f] # NULL /\ store'[f] # NULL /\ store'[f].ver # store[f].ver
      => store'[f].nonce > store[f].nonce

LEMMA InitInv == Init => Inv
  BY FileDataAssumption
  DEF Init, Inv, TypeOK, OneWriter, OpenFit, Durable, NewUntold, ContentHasNonce, Writes, Open

(* A call that synchronises one object o over what is stored in its file,  *)
(* and keeps or drops the descriptor.                                      *)
LEMMA SyncStep ==
  ASSUME Inv, NEW h \in Handles, NEW f \in Files, NEW o, o.file = f,
         NEW s \in Stored, store[f] = s \/ (store[f] = NULL /\ s.ver = 0),
         NEW r, Synced(o, s, r),
         Open(h) => handle[h].file = f,
         "W" \in o.mode => \A g \in Handles : Writes(g) /\ handle[g].file = f => g = h,
         handle' = [handle EXCEPT ![h] = r.obj] \/ handle' = [handle EXCEPT ![h] = NULL],
         store' = [store EXCEPT ![f] = r.stored],
         told' \in [Files -> 0 .. MaxVersion],
         \A e \in Files : told'[e] = told[e] \/ (e = f /\ told'[e] <= r.stored.ver)
  PROVE  Inv' /\ NonceStep
  <1>1. /\ store \in [Files -> Stored \cup {NULL}]
        /\ handle \in [Handles -> Object \cup {NULL}]
        /\ told \in [Files -> 0 .. MaxVersion]
    BY DEF Inv, TypeOK
  <1>2. /\ r.obj \in Object /\ r.obj.file = f /\ r.obj.mode = o.mode
        /\ r.stored \in Stored /\ r.stored # NULL /\ r.obj # NULL
        /\ r.stored.ver >= s.ver
        /\ r.stored.ver # s.ver /\ ~UtimeWhileOpen => r.stored.nonce > s.nonce
        /\ Fits(r.obj, r.stored)
        /\ "W" \notin o.mode => r.stored = s
        /\ r.stored = s \/ r.stored.nonce > 0
    BY FileDataAssumption DEF Synced
  <1>3. /\ store'[f] = r.stored
        /\ \A e \in Files : e # f => store'[e] = store[e]
        /\ handle'[h] \in {r.obj, NULL}
        /\ \A g \in Handles : g # h => handle'[g] = handle[g]
    BY <1>1
  <1>4. TypeOK'
    BY <1>1, <1>2 DEF TypeOK
  <1>5. OneWriter'
    <2> SUFFICES ASSUME NEW g \in Handles, NEW k \in Handles, Writes(g)', Writes(k)',
                        handle'[g].file = handle'[k].file
                 PROVE  g = k
      BY DEF OneWriter
    <2>1. CASE g # h /\ k # h
      BY <1>3, <2>1 DEF Inv, OneWriter, Writes, Open
    <2>2. CASE g = h /\ k # h
      <3>1. handle'[h] = r.obj /\ "W" \in o.mode
        BY <1>2, <1>3, <2>2 DEF Writes, Open
      <3>2. Writes(k) /\ handle[k].file = f
        BY <1>2, <1>3, <2>2, <3>1 DEF Writes, Open
      <3> QED BY <2>2, <3>1, <3>2
    <2>3. CASE g # h /\ k = h
      <3>1. handle'[h] = r.obj /\ "W" \in o.mode
        BY <1>2, <1>3, <2>3 DEF Writes, Open
      <3>2. Writes(g) /\ handle[g].file = f
        BY <1>2, <1>3, <2>3, <3>1 DEF Writes, Open
      <3> QED BY <2>3, <3>1, <3>2
    <2> QED BY <2>1, <2>2, <2>3
  <1>6. OpenFit'
    <2> SUFFICES ASSUME NEW g \in Handles, Open(g)'
                 PROVE  /\ store'[handle'[g].file] # NULL
                        /\ Fits(handle'[g], store'[handle'[g].file])
      BY DEF OpenFit, Fits
    <2>1. CASE g = h
      BY <1>2, <1>3, <2>1 DEF Open
    <2>2. CASE g # h
      <3>1. /\ handle'[g] = handle[g] /\ handle[g] \in Object
            /\ store[handle[g].file] # NULL
            /\ Fits(handle[g], store[handle[g].file])
        BY <1>1, <1>3, <2>2 DEF Open, Inv, OpenFit
      <3>2. CASE handle[g].file # f
        BY <1>3, <3>1, <3>2 DEF Object
      <3>3. CASE handle[g].file = f
        <4>1. store[f] = s /\ Fits(handle[g], s)
          BY <3>1, <3>3
        <4>2. "W" \in o.mode => "W" \notin handle[g].mode
          BY <2>2, <3>1, <3>3, FileDataAssumption DEF Writes, Open
        <4>3. Fits(handle[g], r.stored)
          <5>1. /\ handle[g].ver \in Nat /\ s.ver \in Nat /\ r.stored.ver \in Nat
            BY <1>2, <3>1 DEF Object, Stored
          <5>2. CASE "W" \notin o.mode
            BY <1>2, <4>1, <5>2
          <5>3. CASE "W" \in o.mode
            BY <1>2, <4>1, <4>2, <5>1, <5>3 DEF Fits
          <5> QED BY <5>2, <5>3
        <4> QED BY <1>2, <1>3, <3>1, <3>3, <4>3
      <3> QED BY <3>2, <3>3
    <2> QED BY <2>1, <2>2
  <1>7. Durable' /\ NewUntold'
    <2> SUFFICES ASSUME NEW e \in Files
                 PROVE  /\ store'[e] # NULL => store'[e].ver >= told'[e]
                        /\ store'[e] = NULL => told'[e] = 0
      BY DEF Durable, NewUntold
    <2>1. CASE e # f
      BY <1>3, <2>1 DEF Inv, Durable, NewUntold
    <2>2. CASE e = f
      <3>1. told[f] \in Nat /\ told'[f] \in Nat /\ s.ver \in Nat /\ r.stored.ver \in Nat
        BY <1>1, <1>2 DEF Stored
      <3>2. told[f] <= s.ver
        <4>1. CASE store[f] = s
          BY <3>1, <4>1, FileDataAssumption DEF Inv, Durable
        <4>2. CASE store[f] = NULL /\ s.ver = 0
          BY <3>1, <4>2 DEF Inv, NewUntold
        <4> QED BY <4>1, <4>2
      <3> QED BY <1>2, <1>3, <2>2, <3>1, <3>2
    <2> QED BY <2>1, <2>2
  <1>8. NonceStep
    <2> SUFFICES ASSUME NEW e \in Files, ~UtimeWhileOpen, store[e] # NULL, store'[e] # NULL,
                        store'[e].ver # store[e].ver
                 PROVE  store'[e].nonce > store[e].nonce
      BY DEF NonceStep
    <2>1. e = f /\ store[f] = s
      BY <1>3
    <2> QED BY <1>2, <1>3, <2>1
  <1>9. ContentHasNonce'
    <2> SUFFICES ASSUME NEW e \in Files, store'[e] # NULL, store'[e].ver > 0
                 PROVE  store'[e].nonce > 0
      BY DEF ContentHasNonce
    <2>1. CASE e # f
      BY <1>3, <2>1 DEF Inv, ContentHasNonce
    <2>2. CASE e = f /\ r.stored # s
      BY <1>2, <1>3, <2>2
    <2>3. CASE e = f /\ r.stored = s
      <3>1. store[f] = s
        BY <1>3, <2>3
      <3> QED BY <1>2, <1>3, <2>3, <3>1 DEF Inv, ContentHasNonce
    <2> QED BY <2>1, <2>2, <2>3
  <1> QED BY <1>4, <1>5, <1>6, <1>7, <1>8, <1>9 DEF Inv

-----------------------------------------------------------------------------
(* One lemma for each call.                                                *)

(* What Inv says of an open descriptor. *)
LEMMA OpenFacts ==
  ASSUME Inv, NEW h \in Handles, Open(h)
  PROVE  LET f == handle[h].file IN
         /\ handle[h] \in Object /\ f \in Files /\ store[f] \in Stored
         /\ Fits(handle[h], store[f])
         /\ "W" \in handle[h].mode => \A g \in Handles : Writes(g) /\ handle[g].file = f => g = h
  <1>1. handle[h] \in Object
    BY DEF Inv, TypeOK, Open
  <1>2. handle[h].file \in Files
    BY <1>1 DEF Object
  <1>3. store[handle[h].file] \in Stored /\ Fits(handle[h], store[handle[h].file])
    BY <1>2 DEF Inv, TypeOK, OpenFit
  <1> QED BY <1>1, <1>2, <1>3 DEF Inv, OneWriter, Writes

(* The bound on what a call promises. *)
LEMMA PromiseBound ==
  ASSUME Inv, NEW f \in Files, NEW o \in Object, NEW s \in Stored, NEW r, Synced(o, s, r),
         Promise(f, o, r.ok)
  PROVE  /\ told' \in [Files -> 0 .. MaxVersion]
         /\ \A e \in Files : told'[e] = told[e] \/ (e = f /\ told'[e] <= r.stored.ver)
  <1>1. told \in [Files -> 0 .. MaxVersion] /\ o.ver \in 0 .. MaxVersion
    BY DEF Inv, TypeOK, Object
  <1>2. CASE r.ok /\ ~o.erred /\ o.ver > told[f]
    BY <1>1, <1>2 DEF Promise, Synced
  <1>3. CASE ~(r.ok /\ ~o.erred /\ o.ver > told[f])
    BY <1>1, <1>3 DEF Promise
  <1> QED BY <1>2, <1>3

LEMMA OpenFileStep ==
  ASSUME Inv, NEW h \in Handles, NEW f \in Files, NEW m \in Modes, OpenFile(h, f, m)
  PROVE  Inv' /\ NonceStep
  <1> DEFINE entry == IF store[f] = NULL THEN [ver |-> 0, nonce |-> NoAttr] ELSE store[f]
             o == lfs_open(f, m)
  <1>1. store \in [Files -> Stored \cup {NULL}] /\ MaxVersion \in Nat
    BY FileDataAssumption DEF Inv, TypeOK
  <1>2. entry \in Stored /\ (store[f] = entry \/ (store[f] = NULL /\ entry.ver = 0))
    BY <1>1 DEF Stored
  <1>3. Version(f) = entry.ver
    BY DEF Version
  <1>4. /\ FirstTime(f, m) \in Nat \cup {NoAttr}
        /\ FirstTime(f, m) >= entry.nonce
    BY <1>1 DEF FirstTime, get_mtime_attr, Stored, NoAttr
  <1>5. /\ o.file = f /\ o.mode = m /\ o.dirty = ("W" \in m) /\ o.erred = FALSE
        /\ o.time = FirstTime(f, m)
        /\ o.ver = IF "TRUNC" \in m THEN entry.ver + 1 ELSE entry.ver
    BY <1>3 DEF lfs_open
  <1>6. entry.ver \in 0 .. MaxVersion /\ ("TRUNC" \in m => entry.ver < MaxVersion)
    BY <1>2, <1>3 DEF OpenFile, Stored
  <1>7. o \in Object
    BY <1>1, <1>3, <1>4, <1>6 DEF lfs_open, Object
  <1>8. Fits(o, entry)
    <2> HIDE DEF o, entry
    <2>1. CASE "W" \in m
      <3>1. o.dirty
        BY <1>5, <2>1, Zenon
      <3>2. o.ver >= entry.ver
        BY <1>5, <1>6
      <3> QED BY <1>4, <1>5, <2>1, <3>1, <3>2 DEF Fits
    <2>2. CASE "W" \notin m
      <3>1. ~o.dirty
        BY <1>5, <2>2, Zenon
      <3>2. o.ver = entry.ver
        BY <1>5, <2>2, FileDataAssumption
      <3> QED BY <1>5, <1>6, <2>2, <3>1, <3>2 DEF Fits
    <2> QED BY <2>1, <2>2
  <1>9. PICK r \in IF m = {"R"} THEN {[obj |-> o, stored |-> entry, ok |-> TRUE]}
                   ELSE file_sync(o, f, entry) :
          /\ handle' = [handle EXCEPT ![h] = r.obj]
          /\ store' = [store EXCEPT ![f] = r.stored]
    BY DEF OpenFile
  <1> HIDE DEF o, entry
  <1>10. Synced(o, entry, r)
    <2>1. CASE m = {"R"}
      <3>1. r.obj = o /\ r.stored = entry /\ r.ok = TRUE
        BY <1>9, <2>1
      <3>2. /\ entry.ver >= entry.ver /\ ~o.dirty /\ ~o.erred
            /\ o.ver <= entry.ver
        BY <1>5, <1>6, <1>8, <2>1 DEF Fits
      <3> QED BY <1>2, <1>7, <1>8, <3>1, <3>2 DEF Synced
    <2>2. CASE m # {"R"}
      BY <1>2, <1>7, <1>8, <1>9, <2>2, SyncedByFileSync
    <2> QED BY <2>1, <2>2
  <1>11. /\ ~Open(h)
         /\ "W" \in m => \A g \in Handles : ~(Writes(g) /\ handle[g].file = f)
         /\ told' = told
    BY DEF OpenFile, WritersOf, OpenOn, Writes
  <1>12. told' \in [Files -> 0 .. MaxVersion]
    BY <1>11 DEF Inv, TypeOK
  <1> QED BY <1>2, <1>5, <1>9, <1>10, <1>11, <1>12, SyncStep

(* A writing descriptor that fits still does after a write.                *)
LEMMA WrittenFits ==
  ASSUME NEW o \in Object, NEW s \in Stored, Fits(o, s), "W" \in o.mode, o.ver < MaxVersion
  PROVE  /\ Written(o) \in Object /\ Written(o).file = o.file /\ Written(o).mode = o.mode
         /\ Fits(Written(o), s)
  <1> DEFINE w == Written(o)
  <1>1. /\ o.ver \in Nat /\ o.ver + 1 \in 0 .. MaxVersion /\ s.ver \in Nat
        /\ o.time \in Int /\ s.nonce \in Int
    BY FileDataAssumption DEF Object, Stored, NoAttr
  <1>2. w \in Object
    BY <1>1 DEF Written, Object
  <1>3. /\ w.file = o.file /\ w.mode = o.mode /\ w.ver = o.ver + 1 /\ w.dirty = TRUE
        /\ w.time = o.time
    BY DEF Written, Object
  <1> HIDE DEF w
  <1>4. Fits(w, s)
    BY <1>1, <1>3 DEF Fits
  <1> QED BY <1>2, <1>3, <1>4 DEF w

LEMMA WriteFlushStep ==
  ASSUME Inv, NEW h \in Handles, WriteFlush(h)
  PROVE  Inv' /\ NonceStep
  <1> DEFINE f == handle[h].file
             o == Written(handle[h])
  <1>1. Open(h) /\ "W" \in handle[h].mode /\ handle[h].ver < MaxVersion /\ told' = told
    BY DEF WriteFlush, Writes
  <1>2. /\ handle[h] \in Object /\ f \in Files /\ store[f] \in Stored
        /\ Fits(handle[h], store[f])
        /\ \A g \in Handles : Writes(g) /\ handle[g].file = f => g = h
    BY <1>1, OpenFacts
  <1>3. o \in Object /\ o.file = f /\ o.mode = handle[h].mode /\ Fits(o, store[f])
    BY <1>1, <1>2, WrittenFits
  <1>4. PICK r \in file_sync(o, f, store[f]) :
          /\ handle' = [handle EXCEPT ![h] = r.obj]
          /\ store' = [store EXCEPT ![f] = r.stored]
    BY DEF WriteFlush
  <1> HIDE DEF o
  <1>5. Synced(o, store[f], r)
    BY <1>2, <1>3, <1>4, SyncedByFileSync
  <1>6. told' \in [Files -> 0 .. MaxVersion]
    BY <1>1 DEF Inv, TypeOK
  <1> QED BY <1>1, <1>2, <1>3, <1>4, <1>5, <1>6, SyncStep

LEMMA FsyncStep ==
  ASSUME Inv, NEW h \in Handles, Fsync(h)
  PROVE  Inv' /\ NonceStep
  <1> DEFINE f == handle[h].file
  <1>1. Open(h)
    BY DEF Fsync
  <1>2. /\ handle[h] \in Object /\ f \in Files /\ store[f] \in Stored
        /\ Fits(handle[h], store[f])
        /\ "W" \in handle[h].mode =>
             \A g \in Handles : Writes(g) /\ handle[g].file = f => g = h
    BY <1>1, OpenFacts
  <1>3. PICK r \in file_sync(handle[h], f, store[f]) :
          /\ handle' = [handle EXCEPT ![h] = r.obj]
          /\ store' = [store EXCEPT ![f] = r.stored]
          /\ Promise(f, handle[h], r.ok)
    BY DEF Fsync
  <1>4. Synced(handle[h], store[f], r)
    BY <1>2, <1>3, SyncedByFileSync
  <1>5. /\ told' \in [Files -> 0 .. MaxVersion]
        /\ \A e \in Files : told'[e] = told[e] \/ (e = f /\ told'[e] <= r.stored.ver)
    BY <1>2, <1>3, <1>4, PromiseBound
  <1> QED BY <1>2, <1>3, <1>4, <1>5, SyncStep

LEMMA CloseStep ==
  ASSUME Inv, NEW h \in Handles, Close(h)
  PROVE  Inv' /\ NonceStep
  <1> DEFINE f == handle[h].file
  <1>1. Open(h) /\ handle' = [handle EXCEPT ![h] = NULL]
    BY DEF Close
  <1>2. /\ handle[h] \in Object /\ f \in Files /\ store[f] \in Stored
        /\ Fits(handle[h], store[f])
        /\ "W" \in handle[h].mode =>
             \A g \in Handles : Writes(g) /\ handle[g].file = f => g = h
    BY <1>1, OpenFacts
  <1>a. PICK t \in updated_times(handle[h].time) :
          \E r \in lfs_sync([handle[h] EXCEPT !.time = t], f, store[f]) :
            store' = [store EXCEPT ![f] = r.stored] /\ Promise(f, handle[h], r.ok)
    BY DEF Close
  <1>3. PICK r \in lfs_sync([handle[h] EXCEPT !.time = t], f, store[f]) :
          store' = [store EXCEPT ![f] = r.stored] /\ Promise(f, handle[h], r.ok)
    BY <1>a
  <1>4. t \in Nat \cup {NoAttr} /\ t > handle[h].time /\ t > 0
    BY <1>2, <1>a, UpdatedTimes DEF Object
  <1>5. Synced(handle[h], store[f], r)
    BY <1>2, <1>3, <1>4, SyncedBySync
  <1>6. /\ told' \in [Files -> 0 .. MaxVersion]
        /\ \A e \in Files : told'[e] = told[e] \/ (e = f /\ told'[e] <= r.stored.ver)
    BY <1>2, <1>3, <1>5, PromiseBound
  <1> QED BY <1>1, <1>2, <1>3, <1>5, <1>6, SyncStep

(* A write, or its failure, changes one writing descriptor. *)
LEMMA WriteStep ==
  ASSUME Inv, NEW h \in Handles, Write(h) \/ WriteFails(h)
  PROVE  Inv' /\ NonceStep
  <1> DEFINE o == handle[h]
             f == o.file
  <1>1. Open(h) /\ "W" \in o.mode /\ store' = store /\ told' = told
    BY DEF Write, WriteFails, Writes
  <1>2. o \in Object /\ f \in Files /\ store[f] \in Stored /\ Fits(o, store[f])
    BY <1>1, OpenFacts
  <1>3. PICK n : /\ handle' = [handle EXCEPT ![h] = n]
                 /\ n \in Object /\ n.file = f /\ n.mode = o.mode /\ Fits(n, store[f])
    <2>1. CASE Write(h)
      <3>1. /\ Written(o) \in Object /\ Written(o).file = f /\ Written(o).mode = o.mode
            /\ Fits(Written(o), store[f])
        BY <1>1, <1>2, <2>1, WrittenFits DEF Write
      <3>3. handle' = [handle EXCEPT ![h] = Written(o)]
        BY <2>1 DEF Write
      <3> QED BY <3>1, <3>3
    <2>2. CASE WriteFails(h)
      <3> DEFINE w == [o EXCEPT !.dirty = TRUE, !.erred = TRUE]
      <3>1. w \in Object /\ w.file = f /\ w.mode = o.mode
        BY <1>2 DEF Object
      <3>2. Fits(w, store[f])
        BY <1>1, <1>2 DEF Fits, Object, Stored
      <3>3. handle' = [handle EXCEPT ![h] = w]
        BY <2>2 DEF WriteFails
      <3> QED BY <3>1, <3>2, <3>3
    <2> QED BY <2>1, <2>2
  <1>4. /\ handle \in [Handles -> Object \cup {NULL}] /\ n # NULL /\ handle[h] # NULL
        /\ \A g \in Handles : handle'[g] = IF g = h THEN n ELSE handle[g]
    BY <1>1, <1>3, FileDataAssumption DEF Inv, TypeOK, Open
  <1>5. TypeOK'
    BY <1>1, <1>3 DEF Inv, TypeOK
  <1>6. \A g \in Handles : /\ (Open(g)' <=> Open(g)) /\ (Writes(g)' <=> Writes(g))
                           /\ Open(g) => handle'[g].file = handle[g].file
    BY <1>3, <1>4 DEF Open, Writes
  <1>7. OneWriter'
    BY <1>6 DEF Inv, OneWriter, Writes
  <1>8. OpenFit'
    <2> SUFFICES ASSUME NEW g \in Handles, Open(g)'
                 PROVE  /\ store'[handle'[g].file] # NULL
                        /\ Fits(handle'[g], store'[handle'[g].file])
      BY DEF OpenFit, Fits
    <2>1. CASE g = h
      BY <1>1, <1>2, <1>3, <1>4, <2>1, FileDataAssumption
    <2>2. CASE g # h
      BY <1>1, <1>4, <1>6, <2>2 DEF Inv, OpenFit
    <2> QED BY <2>1, <2>2
  <1>9. Durable' /\ NewUntold' /\ ContentHasNonce'
    BY <1>1 DEF Inv, Durable, NewUntold, ContentHasNonce
  <1>10. NonceStep
    BY <1>1 DEF NonceStep
  <1> QED BY <1>5, <1>7, <1>8, <1>9, <1>10 DEF Inv

LEMMA OpenFailsStep ==
  ASSUME Inv, NEW f \in Files, NEW m \in Modes, OpenFails(f, m)
  PROVE  Inv' /\ NonceStep
  <1> DEFINE new == [ver |-> 0, nonce |-> NoAttr]
  <1>1. /\ store[f] = NULL /\ handle' = handle /\ told' = told
        /\ store' = [store EXCEPT ![f] = new]
    BY DEF OpenFails
  <1>2. new \in Stored /\ new.ver = 0 /\ store \in [Files -> Stored \cup {NULL}]
    BY FileDataAssumption DEF Stored, Inv, TypeOK
  <1> HIDE DEF new
  <1>3. /\ store'[f] = new /\ new # NULL
        /\ \A e \in Files : e # f => store'[e] = store[e]
    BY <1>1, <1>2, FileDataAssumption
  <1>4. TypeOK' /\ OneWriter'
    BY <1>1, <1>2 DEF Inv, TypeOK, OneWriter, Writes, Open
  <1>5. OpenFit'
    <2>1. \A h \in Handles : Open(h) => handle[h].file \in Files
      BY DEF Inv, TypeOK, Open, Object
    <2> QED BY <1>1, <1>3, <2>1 DEF Inv, OpenFit, Open, Fits
  <1>6. Durable' /\ NewUntold' /\ ContentHasNonce'
    BY <1>1, <1>2, <1>3 DEF Inv, Durable, NewUntold, ContentHasNonce, TypeOK
  <1>7. NonceStep
    BY <1>1, <1>3 DEF NonceStep
  <1> QED BY <1>4, <1>5, <1>6, <1>7 DEF Inv

LEMMA UtimeStep ==
  ASSUME Inv, NEW f \in Files, Utime(f)
  PROVE  Inv' /\ NonceStep
  <1>1. /\ store[f] # NULL /\ (WritersOf(f) # {} => UtimeWhileOpen)
        /\ handle' = handle /\ told' = told
    BY DEF Utime
  <1>2. store \in [Files -> Stored \cup {NULL}] /\ store[f] \in Stored
    BY <1>1 DEF Inv, TypeOK
  <1>3. get_mtime_attr(f) \in Nat \cup {NoAttr}
    BY <1>1, <1>2 DEF get_mtime_attr, Stored
  <1>4. PICK t \in Times \cup updated_times(get_mtime_attr(f)) :
          store' = [store EXCEPT ![f].nonce = t]
    BY DEF Utime
  <1>5. t \in Nat /\ t > 0
    BY <1>3, <1>4, UpdatedTimes, FileDataAssumption
  <1> DEFINE new == [store[f] EXCEPT !.nonce = t]
  <1>6. new \in Stored /\ new.ver = store[f].ver /\ new.nonce = t /\ new # NULL
    BY <1>2, <1>5, FileDataAssumption DEF Stored
  <1>7. /\ store' = [store EXCEPT ![f] = new] /\ store'[f] = new
        /\ \A e \in Files : e # f => store'[e] = store[e]
    BY <1>2, <1>4
  <1> HIDE DEF new
  <1>8. TypeOK' /\ OneWriter'
    BY <1>1, <1>6, <1>7 DEF Inv, TypeOK, OneWriter, Writes, Open
  <1>9. OpenFit'
    <2> SUFFICES ASSUME NEW h \in Handles, Open(h)
                 PROVE  /\ store'[handle[h].file] # NULL
                        /\ Fits(handle[h], store'[handle[h].file])
      BY <1>1 DEF OpenFit, Fits, Open
    <2>1. /\ handle[h].file \in Files /\ store[handle[h].file] # NULL
          /\ Fits(handle[h], store[handle[h].file])
      BY DEF Inv, TypeOK, OpenFit, Open, Object
    <2>2. CASE handle[h].file # f
      BY <1>7, <2>1, <2>2
    <2>3. CASE handle[h].file = f
      <3>1. "W" \in handle[h].mode => UtimeWhileOpen
        BY <1>1, <2>3 DEF WritersOf, OpenOn, Writes
      <3> QED BY <1>6, <1>7, <2>1, <2>3, <3>1 DEF Fits
    <2> QED BY <2>2, <2>3
  <1>10. Durable' /\ NewUntold'
    BY <1>1, <1>6, <1>7 DEF Inv, Durable, NewUntold
  <1>11. ContentHasNonce'
    BY <1>5, <1>6, <1>7 DEF Inv, ContentHasNonce
  <1>12. NonceStep
    BY <1>6, <1>7 DEF NonceStep
  <1> QED BY <1>8, <1>9, <1>10, <1>11, <1>12 DEF Inv

LEMMA UnlinkStep ==
  ASSUME Inv, NEW f \in Files, Unlink(f)
  PROVE  Inv' /\ NonceStep
  <1>1. /\ OpenOn(f) = {} /\ handle' = handle
        /\ store' = [store EXCEPT ![f] = NULL] /\ told' = [told EXCEPT ![f] = 0]
    BY DEF Unlink
  <1>2. TypeOK' /\ OneWriter'
    BY <1>1, FileDataAssumption DEF Inv, TypeOK, OneWriter, Writes, Open
  <1>3. /\ store'[f] = NULL /\ told'[f] = 0
        /\ \A e \in Files : e # f => store'[e] = store[e] /\ told'[e] = told[e]
    BY <1>1 DEF Inv, TypeOK
  <1>4. OpenFit'
    <2>1. \A h \in Handles : Open(h) => handle[h].file \in Files \ {f}
      BY <1>1 DEF Inv, TypeOK, Open, Object, OpenOn
    <2> QED BY <1>1, <1>3, <2>1 DEF Inv, OpenFit, Open, Fits
  <1>5. Durable' /\ NewUntold' /\ ContentHasNonce'
    BY <1>3 DEF Inv, Durable, NewUntold, ContentHasNonce
  <1>6. NonceStep
    BY <1>3 DEF NonceStep
  <1> QED BY <1>2, <1>4, <1>5, <1>6 DEF Inv

(* Steps that leave what is stored and promised alone, and change or drop  *)
(* no descriptor but by dropping all.                                      *)
LEMMA ResetStep ==
  ASSUME Inv, Reset \/ UNCHANGED vars
  PROVE  Inv' /\ NonceStep
  <1>1. store' = store /\ told' = told
    BY DEF Reset, vars
  <1>2. CASE Reset
    <2>1. \A h \in Handles : handle'[h] = NULL
      BY <1>2 DEF Reset
    <2>2. TypeOK' /\ OneWriter' /\ OpenFit'
      BY <1>1, <1>2, <2>1 DEF Reset, Inv, TypeOK, OneWriter, OpenFit, Writes, Open
    <2>3. Durable' /\ NewUntold' /\ ContentHasNonce' /\ NonceStep
      BY <1>1 DEF Inv, Durable, NewUntold, ContentHasNonce, NonceStep
    <2> QED BY <2>2, <2>3 DEF Inv
  <1>3. CASE UNCHANGED vars
    BY <1>3 DEF vars, Inv, TypeOK, OneWriter, OpenFit, Durable, NewUntold, ContentHasNonce,
                Writes, Open, Fits, NonceStep
  <1> QED BY <1>2, <1>3

(* Every step keeps the invariant and lets no nonce go back. *)
LEMMA NextStep ==
  ASSUME Inv, [Next]_vars
  PROVE  Inv' /\ NonceStep
  <1>1. CASE \E h \in Handles, f \in Files, m \in Modes : OpenFile(h, f, m)
    BY <1>1, OpenFileStep
  <1>2. CASE \E f \in Files, m \in Modes : OpenFails(f, m)
    BY <1>2, OpenFailsStep
  <1>3. CASE \E h \in Handles : Write(h) \/ WriteFails(h)
    BY <1>3, WriteStep
  <1>4. CASE \E h \in Handles : WriteFlush(h)
    BY <1>4, WriteFlushStep
  <1>5. CASE \E h \in Handles : Fsync(h)
    BY <1>5, FsyncStep
  <1>6. CASE \E h \in Handles : Close(h)
    BY <1>6, CloseStep
  <1>7. CASE \E f \in Files : Utime(f)
    BY <1>7, UtimeStep
  <1>8. CASE \E f \in Files : Unlink(f)
    BY <1>8, UnlinkStep
  <1>9. CASE Reset \/ UNCHANGED vars
    BY <1>9, ResetStep
  <1> QED BY <1>1, <1>2, <1>3, <1>4, <1>5, <1>6, <1>7, <1>8, <1>9 DEF Next

-----------------------------------------------------------------------------
(* The invariant holds of any number of files and descriptors, whatever    *)
(* fails or is reset.                                                      *)
LEMMA InvHolds == Spec => []Inv
  <1>1. Inv /\ [Next]_vars => Inv'
    BY NextStep
  <1> QED BY InitInv, <1>1, PTL DEF Spec

(* Types, whoever sets the time of which file: a descriptor opened with    *)
(* any flags holds a file, a version within the bound and a nonce or the   *)
(* mark of none, and what is stored is contents with one of these          *)
(* (esp_littlefs_open, esp_littlefs_updated_times).                        *)
THEOREM FileDataTypeCorrect == Spec => []TypeOK
  <1>1. Inv => TypeOK
    BY DEF Inv
  <1> QED BY InvHolds, <1>1, PTL

(* What a successful fsync or close (esp_littlefs.c) has promised is       *)
(* stored, whatever calls fail or whenever the device is reset later, and  *)
(* whoever sets the time of the file meanwhile.                            *)
THEOREM PromisesAreKept == Spec => []Durable
  <1>1. Inv => Durable
    BY DEF Inv
  <1> QED BY InvHolds, <1>1, PTL

(* The nonce that a writing descriptor keeps in memory is never behind the *)
(* stored one, and a descriptor without write access has nothing to store  *)
(* (the attributes esp_littlefs.c gives littlefs in each descriptor).      *)
THEOREM WritersAreAhead == ASSUME ~UtimeWhileOpen PROVE Spec => []WriterIsAhead
  <1>1. Inv => WriterIsAhead
    <2> SUFFICES ASSUME Inv, NEW h \in Handles, Open(h)
                 PROVE  IF Writes(h) THEN /\ store[handle[h].file] # NULL
                                          /\ handle[h].time >= store[handle[h].file].nonce
                        ELSE ~handle[h].dirty
      BY DEF WriterIsAhead
    <2> QED BY DEF Inv, OpenFit, Fits, Writes
  <1> QED BY InvHolds, <1>1, PTL

(* Contents are never stored without a nonce, nor with 0, which            *)
(* esp_littlefs_updated_times would take for no nonce at all.              *)
THEOREM ContentsHaveNonces == Spec => []ContentHasNonce
  <1>1. Inv => ContentHasNonce
    BY DEF Inv
  <1> QED BY InvHolds, <1>1, PTL

(* Whenever other contents are stored in a file, its nonce goes up: with   *)
(* the nonce of an earlier time a file has the contents of that time.      *)
THEOREM NoncesGrow == ASSUME ~UtimeWhileOpen PROVE Spec => NonceGrows
  <1>1. Inv /\ [Next]_vars =>
          [\A f \in Files :
             store[f] # NULL /\ store'[f] # NULL /\ store'[f].ver # store[f].ver
               => store'[f].nonce > store[f].nonce]_vars
    BY NextStep DEF NonceStep
  <1> QED BY InvHolds, <1>1, PTL DEF Spec, NonceGrows
=============================================================================
