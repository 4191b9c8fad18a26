------------------------------ MODULE FileData ------------------------------
(***************************************************************************)
(* Contents and modification nonces of files: what each descriptor has in  *)
(* memory and what littlefs has stored, through open, write, fsync, close, *)
(* truncate, utime, unlink and resets (CONFIG_LITTLEFS_MTIME_USE_NONCE).   *)
(* Each call is one step; module VolumeLock shows that this is sound.      *)
(*                                                                         *)
(* littlefs is external.  It stores the contents and the time attribute of *)
(* a file together when a changed file is synchronised or closed; a failed *)
(* synchronisation may or may not have stored them, and makes the next one *)
(* do nothing until something is written again.                            *)
(***************************************************************************)
EXTENDS Integers

CONSTANTS
  Files, Handles,
  Modes,             (* flags of open: sets of "R", "W", "CREAT", "EXCL",   *)
                     (* "TRUNC"; "R" alone is O_RDONLY                      *)
  RandomNonces,      (* values of esp_random                                *)
  Times,             (* times callers give to utime, never 0                *)
  UtimeWhileOpen,    (* callers change the time of files open for writing   *)
  FLUSH,             (* CONFIG_LITTLEFS_FLUSH_FILE_EVERY_WRITE              *)
  NULL,              (* no file, no handle                                  *)
  MaxVersion,        (* bounds: versions of one file's contents             *)
  MaxNonce           (* and nonces                                          *)

NoAttr == -1         (* also what esp_littlefs_get_mtime_attr returns then  *)
Object == [file : Files, mode : Modes, ver : 0 .. MaxVersion, dirty : BOOLEAN,
           erred : BOOLEAN, time : Nat \cup {NoAttr}]
Stored == [ver : 0 .. MaxVersion, nonce : Nat \cup {NoAttr}]

(* Callers truncate only what they may write. *)
ASSUME FileDataAssumption ==
  /\ Modes \subseteq SUBSET {"R", "W", "CREAT", "EXCL", "TRUNC"}
  /\ \A m \in Modes : "TRUNC" \in m => "W" \in m
  /\ NULL \notin Object /\ NULL \notin Stored
  /\ RandomNonces \subseteq Nat /\ Times \subseteq Nat \ {0}
  /\ MaxVersion \in Nat /\ MaxNonce \in Nat
  /\ FLUSH \in BOOLEAN /\ UtimeWhileOpen \in BOOLEAN

VARIABLES
  store,             (* store[f]: version of the stored contents and the    *)
                     (* time attribute (NoAttr if there is none), or NULL   *)
  handle,            (* handle[h]: an open file in memory, or NULL          *)
  told               (* told[f]: the version that a successful fsync or     *)
                     (* close has promised                                  *)

vars == <<store, handle, told>>

Init ==
  /\ store = [f \in Files |-> NULL]
  /\ handle = [h \in Handles |-> NULL]
  /\ told = [f \in Files |-> 0]

Open(h)    == handle[h] # NULL
Writes(h)  == Open(h) /\ "W" \in handle[h].mode
OpenOn(f)  == {h \in Handles : Open(h) /\ handle[h].file = f}
WritersOf(f) == {h \in OpenOn(f) : Writes(h)}

-----------------------------------------------------------------------------
(* Nonces                                                                  *)

(* Faulty variant: the error of littlefs for the time. *)
get_mtime_attrError(f) ==
  IF store[f] = NULL \/ (store[f] # NULL /\ store[f].nonce = NoAttr) THEN -61 ELSE store[f].nonce

get_mtime_attr(f) == IF store[f] = NULL THEN NoAttr ELSE store[f].nonce

(* Faulty variant: the increment may give 0, the mark of no attribute. *)
updated_timesZero(t) == IF t = 0 THEN RandomNonces ELSE {t + 1}

(* A new nonce is random, a known one goes up by one, and neither is 0. *)
updated_times(t) ==
  {IF n = 0 THEN 1 ELSE n : n \in IF t = 0 THEN RandomNonces ELSE {t + 1}}

(* Faulty variant: littlefs is trusted to fill in the attribute of every   *)
(* descriptor.                                                             *)
FirstTimeUnread(f, m) == IF "R" \in m /\ store[f] # NULL /\ store[f].nonce # NoAttr
                         THEN store[f].nonce ELSE 0

(* The attribute of a descriptor that was just opened: littlefs fills it   *)
(* in for those that may read, the driver for the others.                  *)
FirstTime(f, m) ==
  IF "R" \in m
  THEN IF store[f] # NULL /\ store[f].nonce # NoAttr THEN store[f].nonce ELSE 0
  ELSE get_mtime_attr(f)

-----------------------------------------------------------------------------
(* littlefs                                                                *)

Version(f) == IF store[f] = NULL THEN 0 ELSE store[f].ver

(* The outcomes of lfs_file_sync for object o of file f: the object after  *)
(* it, what is stored, and the result.                                     *)
lfs_sync(o, f, stored) ==
  IF o.erred \/ ~o.dirty THEN {[obj |-> o, stored |-> stored, ok |-> TRUE]}
  ELSE LET new == [ver |-> o.ver, nonce |-> o.time] IN
       {[obj |-> [o EXCEPT !.dirty = FALSE], stored |-> new, ok |-> TRUE]}
       \cup [obj : {[o EXCEPT !.erred = TRUE]}, stored : {stored, new}, ok : {FALSE}]

(* A descriptor opened with mode m: a writing one is to be stored, since   *)
(* its attribute is; truncation makes new contents.                        *)
lfs_open(f, m) ==
  [file |-> f, mode |-> m, dirty |-> "W" \in m, erred |-> FALSE, time |-> FirstTime(f, m),
   ver |-> IF "TRUNC" \in m THEN Version(f) + 1 ELSE Version(f)]

Opens(f, m) == IF store[f] = NULL THEN "CREAT" \in m
               ELSE ~({"CREAT", "EXCL"} \subseteq m)

-----------------------------------------------------------------------------
(* Calls                                                                   *)

(* esp_littlefs_file_sync: everything but a read-only descriptor gets a    *)
(* new time before littlefs is asked.                                      *)
file_sync(o, f, stored) ==
  UNION {lfs_sync([o EXCEPT !.time = t], f, stored) :
           t \in IF o.mode \cap {"R", "W"} = {"R"} THEN {o.time} ELSE updated_times(o.time)}

(* What a call promises: a success that follows no failure its caller was  *)
(* told of.                                                                *)
Promise(f, o, ok) ==
  told' = IF ok /\ ~o.erred /\ o.ver > told[f] THEN [told EXCEPT ![f] = o.ver] ELSE told

(* vfs_littlefs_open: the entry is created at once, and whatever may       *)
(* change the file is synchronised; a failure of that is only logged.      *)
OpenFile(h, f, m) ==
  /\ ~Open(h) /\ Opens(f, m)
  /\ "W" \in m => WritersOf(f) = {}
  /\ FirstTime(f, m) < MaxNonce
  /\ "TRUNC" \in m => Version(f) < MaxVersion
  /\ LET entry == IF store[f] = NULL THEN [ver |-> 0, nonce |-> NoAttr] ELSE store[f] IN
     \E r \in IF m = {"R"} THEN {[obj |-> lfs_open(f, m), stored |-> entry, ok |-> TRUE]}
              ELSE file_sync(lfs_open(f, m), f, entry) :
       /\ handle' = [handle EXCEPT ![h] = r.obj]
       /\ store' = [store EXCEPT ![f] = r.stored]
  /\ UNCHANGED told

(* littlefs refuses the open, after it may have created the entry. *)
OpenFails(f, m) ==
  /\ store[f] = NULL /\ "CREAT" \in m
  /\ store' = [store EXCEPT ![f] = [ver |-> 0, nonce |-> NoAttr]]
  /\ UNCHANGED <<handle, told>>

Written(o) == [o EXCEPT !.ver = @ + 1, !.dirty = TRUE, !.erred = FALSE]

(* write (which may flush, and ignores the result), pwrite and ftruncate.  *)
Write(h) ==
  /\ Writes(h) /\ handle[h].ver < MaxVersion
  /\ handle' = [handle EXCEPT ![h] = Written(@)]
  /\ UNCHANGED <<store, told>>

WriteFlush(h) ==
  /\ FLUSH /\ Writes(h) /\ handle[h].ver < MaxVersion /\ handle[h].time < MaxNonce
  /\ LET f == handle[h].file IN
     \E r \in file_sync(Written(handle[h]), f, store[f]) :
       /\ handle' = [handle EXCEPT ![h] = r.obj]
       /\ store' = [store EXCEPT ![f] = r.stored]
  /\ UNCHANGED told

WriteFails(h) ==
  /\ Writes(h)
  /\ handle' = [handle EXCEPT ![h].dirty = TRUE, ![h].erred = TRUE]
  /\ UNCHANGED <<store, told>>

(* Faulty variant: only the time in memory is updated. *)
FsyncTimeOnly(h) ==
  /\ Open(h)
  /\ \E t \in updated_times(handle[h].time) : handle' = [handle EXCEPT ![h].time = t]
  /\ Promise(handle[h].file, handle[h], TRUE)
  /\ UNCHANGED store

Fsync(h) ==
  /\ Open(h) /\ handle[h].time < MaxNonce
  /\ LET f == handle[h].file IN
     \E r \in file_sync(handle[h], f, store[f]) :
       /\ handle' = [handle EXCEPT ![h] = r.obj]
       /\ store' = [store EXCEPT ![f] = r.stored]
       /\ Promise(f, handle[h], r.ok)

(* vfs_littlefs_close takes a new time for any descriptor.  A descriptor   *)
(* whose close fails is lost to its caller.                                *)
Close(h) ==
  /\ Open(h)
  /\ LET f == handle[h].file IN
     \E t \in updated_times(handle[h].time) :
       \E r \in lfs_sync([handle[h] EXCEPT !.time = t], f, store[f]) :
         /\ store' = [store EXCEPT ![f] = r.stored]
         /\ Promise(f, handle[h], r.ok)
  /\ handle' = [handle EXCEPT ![h] = NULL]

(* truncate of a path is open, ftruncate and close; the steps of other     *)
(* calls may come in between.                                              *)

(* utime with a time, or with the next nonce. *)
Utime(f) ==
  /\ store[f] # NULL /\ store[f].nonce < MaxNonce
  /\ WritersOf(f) # {} => UtimeWhileOpen
  /\ \E t \in Times \cup updated_times(get_mtime_attr(f)) :
       store' = [store EXCEPT ![f].nonce = t]
  /\ UNCHANGED <<handle, told>>

(* unlink, which refuses open files. *)
Unlink(f) ==
  /\ store[f] # NULL /\ OpenOn(f) = {}
  /\ store' = [store EXCEPT ![f] = NULL]
  /\ told' = [told EXCEPT ![f] = 0]
  /\ UNCHANGED handle

(* The device is reset; what is in memory is gone. *)
Reset ==
  /\ handle' = [h \in Handles |-> NULL]
  /\ UNCHANGED <<store, told>>

Next ==
  \/ \E h \in Handles, f \in Files, m \in Modes : OpenFile(h, f, m)
  \/ \E f \in Files, m \in Modes : OpenFails(f, m)
  \/ \E h \in Handles : Write(h) \/ WriteFlush(h) \/ WriteFails(h) \/ Fsync(h) \/ Close(h)
  \/ \E f \in Files : Utime(f) \/ Unlink(f)
  \/ Reset

Spec == Init /\ [][Next]_vars

-----------------------------------------------------------------------------
(* Types of what is stored, in memory and promised. *)
TypeOK ==
  /\ store \in [Files -> Stored \cup {NULL}]
  /\ handle \in [Handles -> Object \cup {NULL}]
  /\ told \in [Files -> 0 .. MaxVersion]

(* Whenever other contents are stored in a file that is not new, by any    *)
(* descriptor and across failed synchronisations and resets, its nonce     *)
(* goes up: a file with the nonce of an earlier time was not modified      *)
(* (Kconfig, LITTLEFS_MTIME_USE_NONCE).                                    *)
NonceGrows ==
  [][\A f \in Files :
       store[f] # NULL /\ store'[f] # NULL /\ store'[f].ver # store[f].ver
         => store'[f].nonce > store[f].nonce]_vars

(* Why it does: the copy of the nonce in a writing descriptor is never     *)
(* behind the one that is stored, and only writing descriptors have        *)
(* anything to store.                                                      *)
WriterIsAhead ==
  \A h \in Handles : Open(h) =>
    LET f == handle[h].file IN
    IF Writes(h) THEN store[f] # NULL /\ handle[h].time >= store[f].nonce
                 ELSE ~handle[h].dirty

(* Contents are never stored without a nonce, nor with 0, which the next   *)
(* update would take for no nonce at all.                                  *)
ContentHasNonce ==
  \A f \in Files : store[f] # NULL /\ store[f].ver > 0 => store[f].nonce > 0

(* What a successful fsync or close has promised is stored, whatever fails *)
(* or is reset later.                                                      *)
Durable == \A f \in Files : store[f] # NULL => store[f].ver >= told[f]
=============================================================================
