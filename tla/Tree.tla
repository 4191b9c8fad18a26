-------------------------------- MODULE Tree --------------------------------
(***************************************************************************)
(* The directory tree of a volume as the path and directory calls change   *)
(* it, with the parents that open and rename make and unlink and rename    *)
(* remove (CONFIG_LITTLEFS_SPIFFS_COMPAT), open files, and directory       *)
(* streams.  A call holds the mutex of the volume from its first look at   *)
(* the tree to its last change, and is one step; seekdir takes the mutex   *)
(* for each entry, and is as many.                                         *)
(*                                                                         *)
(* A path is a sequence of names, which are numbers in the order of the    *)
(* listings of directories, and the empty sequence is the root.  Callers   *)
(* spell a path in one way: descriptors are looked up by the characters of *)
(* their paths, so a//b would not find a file that was opened as a/b.      *)
(* littlefs is external: it keeps the tree, lists a directory by name, and *)
(* may refuse any request, the ones for parents included.  Opening         *)
(* directories (CONFIG_LITTLEFS_OPEN_DIR) is left out.                     *)
(***************************************************************************)
EXTENDS Naturals, FiniteSets, SequencesExt

CONSTANTS
  Paths,             (* paths callers use, with all their parents           *)
  Handles,           (* descriptors                                         *)
  Streams,           (* directory streams                                   *)
  NULL,              (* no path, no stream, no target of a seek             *)
  SPIFFS_COMPAT,     (* CONFIG_LITTLEFS_SPIFFS_COMPAT                       *)
  COVERED,           (* parents of a path that fit the buffer of mkdirs and *)
                     (* rmdirs (CONFIG_LITTLEFS_OBJ_NAME_LEN)               *)
  READ_ONLY,         (* the volume is mounted read-only                     *)
  RenameOpen,        (* callers rename directories with open files below    *)
  MaxOffset          (* bound on the offsets of streams                     *)

ASSUME TreeAssumption ==
  /\ Paths \subseteq Seq(Nat \ {0}) \ {<<>>} /\ IsFiniteSet(Paths)
  /\ \A p \in Paths : \A q \in Prefixes(p) : q # <<>> => q \in Paths
  /\ COVERED \in Nat /\ MaxOffset \in Nat
  /\ {SPIFFS_COMPAT, READ_ONLY, RenameOpen} \subseteq BOOLEAN
  /\ NULL \notin Paths \cup {<<>>} \cup Nat

VARIABLES
  tree,              (* tree[p]: "none", "file" or "dir"                    *)
  open,              (* open[h]: the path stored with a descriptor, or NULL *)
  stream,            (* stream[s]: directory (NULL once it is removed), the *)
                     (* last name returned (0 at the beginning), offset,    *)
                     (* target of a running seekdir, and whether the        *)
                     (* listing is the one of the last opendir or rewind    *)
  kept               (* empty directories that callers made, that a refused *)
                     (* call, a refused removal or an rmdir has left, or    *)
                     (* that are not covered                                *)

vars == <<tree, open, stream, kept>>

Dirs    == Paths \cup {<<>>}
Names   == UNION {ToSet(p) : p \in Paths}
Kind(T, p) == IF p = <<>> THEN "dir" ELSE T[p]
Below(T, p) == {q \in Paths : IsStrictPrefix(p, q) /\ T[q] # "none"}
Children(T, d) ==
  IF d = NULL THEN {} ELSE {n \in Names : Append(d, n) \in Paths /\ T[Append(d, n)] # "none"}
EmptyDirs(T) == {d \in Paths : T[d] = "dir" /\ Below(T, d) = {}}

Init ==
  /\ tree \in {T \in [Paths -> {"none", "file", "dir"}] :
                 /\ \A p \in Paths : T[p] # "none" => Kind(T, Front(p)) = "dir"
                 /\ READ_ONLY \/ \A p \in Paths : T[p] = "none"}
  /\ open = [h \in Handles |-> NULL]
  /\ stream = [s \in Streams |-> NULL]
  /\ kept = EmptyDirs(tree)

-----------------------------------------------------------------------------
(* littlefs and the helpers                                                *)

CanMake(T, p) == T[p] = "none" /\ Kind(T, Front(p)) = "dir"

(* vfs_littlefs_mkdir and vfs_littlefs_rmdir; refused are the directories  *)
(* that littlefs refuses to make or to remove.                             *)
Mkdir(T, p, refused) ==
  IF CanMake(T, p) /\ p \notin refused THEN [T EXCEPT ![p] = "dir"] ELSE T

(* Faulty variant: a directory goes with what is in it. *)
RmdirUnchecked(T, p, refused) ==
  IF T[p] = "dir" /\ p \notin refused THEN [T EXCEPT ![p] = "none"] ELSE T

Rmdir(T, p, refused) == IF p \in EmptyDirs(T) \ refused THEN [T EXCEPT ![p] = "none"] ELSE T

(* How many parents of a path are covered, and the ith from the root. *)
Parents(p)   == IF Len(p) - 1 < COVERED THEN Len(p) - 1 ELSE COVERED
Parent(p, i) == SubSeq(p, 1, i)
Covered(p)   == {Parent(p, i) : i \in 1 .. Parents(p)}

(* The tree with the first i parents of a path, made from the root down;   *)
(* one that is refused does not end the loop, nor is it reported.          *)
MadeParents(T, p, refused) ==
  LET made[i \in 0 .. Parents(p)] ==
        IF i = 0 THEN T ELSE Mkdir(made[i - 1], Parent(p, i), refused)
  IN  made

mkdirs(T, p, refused) ==
  IF SPIFFS_COMPAT THEN MadeParents(T, p, refused)[Parents(p)] ELSE T

(* Faulty variant: from the root down. *)
RemovedParentsDown(T, p, refused) ==
  LET left[i \in 0 .. Parents(p)] ==
        IF i = 0 THEN T ELSE Rmdir(left[i - 1], Parent(p, i), refused)
  IN  left

(* The tree without the last i parents that are empty, from the path up;   *)
(* one that is refused stays, and the others are tried all the same.       *)
RemovedParents(T, p, refused) ==
  LET left[i \in 0 .. Parents(p)] ==
        IF i = 0 THEN T ELSE Rmdir(left[i - 1], Parent(p, Parents(p) - i + 1), refused)
  IN  left

rmdirs(T, p, refused) ==
  IF SPIFFS_COMPAT THEN RemovedParents(T, p, refused)[Parents(p)] ELSE T

(* Where r is after path p has become q. *)
MovedPath(r, p, q) == IF r # NULL /\ IsPrefix(p, r) THEN q \o SubSeq(r, Len(p) + 1, Len(r)) ELSE r

CanRename(T, p, q) ==
  /\ T[p] # "none" /\ Kind(T, Front(q)) = "dir" /\ ~IsPrefix(p, q)
  /\ T[q] = "none" \/ (T[q] = T[p] /\ Below(T, q) = {})
  /\ \A r \in Below(T, p) : MovedPath(r, p, q) \in Paths

lfs_rename(T, p, q) ==
  LET MovesTo(r) == {o \in {p} \cup Below(T, p) : MovedPath(o, p, q) = r} IN
  [r \in Paths |-> IF MovesTo(r) # {} THEN T[CHOOSE o \in MovesTo(r) : TRUE]
                   ELSE IF IsPrefix(p, r) THEN "none" ELSE T[r]]

(* Streams follow their directories when p becomes q (the root, if nothing *)
(* is renamed); removing a directory ends its listing.                     *)
FollowStreams(T, p, q) ==
  stream' = [s \in Streams |->
    IF stream[s] = NULL THEN NULL
    ELSE LET old == stream[s].dir
             dir == MovedPath(old, p, q)
             new == IF dir # NULL /\ Kind(T, dir) = "dir" THEN dir ELSE NULL
         IN  [stream[s] EXCEPT !.dir = new,
                !.stable = @ /\ new # NULL /\ Children(tree, old) = Children(T, new)]]

(* The tree becomes T; more are directories that are left empty. *)
Become(T, more) ==
  /\ tree' = T
  /\ FollowStreams(T, <<>>, <<>>)
  /\ kept' = (kept \cup more) \cap EmptyDirs(T)

(* The parent of a path, when rmdirs does not get as far as that. *)
Uncovered(p) == IF Len(p) - 1 > COVERED THEN {Front(p)} ELSE {}

Made(T) == {d \in Paths : T[d] = "dir" /\ tree[d] = "none"}

(* esp_littlefs_get_fd_by_name, for the one spelling of a path. *)
IsOpen(p) == \E h \in Handles : open[h] = p

-----------------------------------------------------------------------------
(* Files                                                                   *)

(* vfs_littlefs_open; the parents are made before littlefs is asked, for   *)
(* whatever purpose the file is opened.  Here and in Rename littlefs finds *)
(* the parents: no missing one has been refused.                           *)
OpenFile(h, p, create) ==
  /\ open[h] = NULL /\ ~(READ_ONLY /\ create)
  /\ LET T == mkdirs(tree, p, {}) IN
     \/ T[p] = "file" /\ Become(T, {})
     \/ create /\ CanMake(T, p) /\ Become([T EXCEPT ![p] = "file"], {})
  /\ open' = [open EXCEPT ![h] = p]

OpenRefused(p, create) ==
  /\ ~(READ_ONLY /\ create)
  /\ \E refused \in SUBSET Covered(p) :
       LET T == mkdirs(tree, p, refused) IN Become(T, Made(T))
  /\ UNCHANGED open

Close(h) ==
  /\ open[h] # NULL
  /\ open' = [open EXCEPT ![h] = NULL]
  /\ UNCHANGED <<tree, stream, kept>>

Unlink(p) ==
  /\ ~READ_ONLY
  /\ tree[p] = "file" /\ ~IsOpen(p)
  /\ \E refused \in SUBSET Covered(p) :
       Become(rmdirs([tree EXCEPT ![p] = "none"], p, refused), Uncovered(p) \cup refused)
  /\ UNCHANGED open

(* Faulty variant: only the destination is looked up. *)
RenameBusyTarget(p, q) == IsOpen(q)

RenameBusy(p, q) == IsOpen(p) \/ IsOpen(q)

RenameAllowed(p) ==
  ~READ_ONLY /\ (RenameOpen \/ \A h \in Handles : open[h] # NULL => ~IsStrictPrefix(p, open[h]))

Rename(p, q) ==
  LET T == mkdirs(tree, q, {}) IN
  /\ RenameAllowed(p) /\ ~RenameBusy(p, q)
  /\ CanRename(T, p, q)
  /\ \E refused \in SUBSET Covered(p) :
       /\ tree' = rmdirs(lfs_rename(T, p, q), p, refused)
       /\ kept' = {MovedPath(d, p, q) : d \in kept \cup Uncovered(p) \cup refused}
                    \cap EmptyDirs(tree')
  /\ FollowStreams(tree', p, q)
  /\ UNCHANGED open

RenameRefused(p, q) ==
  /\ RenameAllowed(p) /\ ~RenameBusy(p, q)
  /\ \E refused \in SUBSET Covered(q) :
       LET T == mkdirs(tree, q, refused) IN Become(T, Made(T))
  /\ UNCHANGED open

-----------------------------------------------------------------------------
(* Directories                                                             *)

MakeDir(p) ==
  /\ ~READ_ONLY /\ CanMake(tree, p)
  /\ Become(Mkdir(tree, p, {}), {p})
  /\ UNCHANGED open

RemoveDir(p) ==
  /\ ~READ_ONLY /\ p \in EmptyDirs(tree)
  /\ Become(Rmdir(tree, p, {}), {Front(p)})
  /\ UNCHANGED open

OpenDir(s, d) ==
  /\ stream[s] = NULL /\ Kind(tree, d) = "dir"
  /\ stream' = [stream EXCEPT ![s] =
                  [dir |-> d, pos |-> 0, offset |-> 0, seek |-> NULL, stable |-> TRUE]]
  /\ UNCHANGED <<tree, open, kept>>

CloseDir(s) ==
  /\ stream[s] # NULL /\ stream[s].seek = NULL
  /\ stream' = [stream EXCEPT ![s] = NULL]
  /\ UNCHANGED <<tree, open, kept>>

(* Faulty variant: the end of the directory is not counted. *)
readdir_rNotAtEnd(st) ==
  LET rest == {n \in Children(tree, st.dir) : n > st.pos} IN
  IF rest = {} THEN st ELSE [st EXCEPT !.pos = Min(rest), !.offset = @ + 1]

(* The next entry, or the end of the directory; either is counted. *)
readdir_r(st) ==
  LET rest == {n \in Children(tree, st.dir) : n > st.pos} IN
  [st EXCEPT !.pos = IF rest = {} THEN @ ELSE Min(rest), !.offset = @ + 1]

ReadDir(s) ==
  /\ stream[s] # NULL /\ stream[s].seek = NULL /\ stream[s].offset < MaxOffset
  /\ stream' = [stream EXCEPT ![s] = readdir_r(@)]
  /\ UNCHANGED <<tree, open, kept>>

(* Faulty variant: the position is rewound and the offset is not. *)
RewoundKeepsOffset(st) == [st EXCEPT !.pos = 0, !.stable = TRUE]

Rewound(st) == [st EXCEPT !.pos = 0, !.offset = 0, !.stable = st.dir # NULL]

(* seekdir: rewinds if it has to go back, then reads forward. *)
SeekDir(s, target) ==
  /\ stream[s] # NULL /\ stream[s].seek = NULL
  /\ stream' = [stream EXCEPT ![s] =
                  [(IF target < @.offset THEN Rewound(@) ELSE @) EXCEPT !.seek = target]]
  /\ UNCHANGED <<tree, open, kept>>

SeekStep(s) ==
  /\ stream[s] # NULL /\ stream[s].seek # NULL
  /\ stream' = [stream EXCEPT ![s] =
                  IF @.offset < @.seek THEN readdir_r(@) ELSE [@ EXCEPT !.seek = NULL]]
  /\ UNCHANGED <<tree, open, kept>>

(* An error of littlefs ends seekdir where it is. *)
SeekFails(s) ==
  /\ stream[s] # NULL /\ stream[s].seek # NULL
  /\ stream' = [stream EXCEPT ![s].seek = NULL]
  /\ UNCHANGED <<tree, open, kept>>

Next ==
  \/ \E h \in Handles, p \in Paths, create \in BOOLEAN : OpenFile(h, p, create)
  \/ \E p \in Paths, create \in BOOLEAN : OpenRefused(p, create)
  \/ \E h \in Handles : Close(h)
  \/ \E p \in Paths : Unlink(p) \/ MakeDir(p) \/ RemoveDir(p)
  \/ \E p, q \in Paths : Rename(p, q) \/ RenameRefused(p, q)
  \/ \E s \in Streams, d \in Dirs : OpenDir(s, d)
  \/ \E s \in Streams, target \in 0 .. MaxOffset : SeekDir(s, target)
  \/ \E s \in Streams : CloseDir(s) \/ ReadDir(s) \/ SeekStep(s) \/ SeekFails(s)

Spec == Init /\ [][Next]_vars

(* A task that is inside seekdir goes on. *)
FairSpec == Spec /\ \A s \in Streams : WF_vars(SeekStep(s))

-----------------------------------------------------------------------------
(* Types, and a tree: what exists is in a directory. *)
TypeOK ==
  /\ tree \in [Paths -> {"none", "file", "dir"}]
  /\ \A p \in Paths : tree[p] # "none" => Kind(tree, Front(p)) = "dir"
  /\ open \in [Handles -> Paths \cup {NULL}]
  /\ stream \in [Streams ->
       [dir : Dirs \cup {NULL}, pos : Names \cup {0}, offset : 0 .. MaxOffset,
        seek : 0 .. MaxOffset \cup {NULL}, stable : BOOLEAN] \cup {NULL}]
  /\ kept \subseteq EmptyDirs(tree)

(* The path stored with a descriptor names a file: no call removes or      *)
(* moves an open file, and no parent of one, when callers do not rename    *)
(* directories with open files below them (rename looks for the very path  *)
(* only).                                                                  *)
OpenNamesExist == \A h \in Handles : open[h] # NULL => tree[open[h]] = "file"

(* With SPIFFS compatibility, the last file of a directory takes the       *)
(* directory and its empty parents with it (Kconfig, SPIFFS_COMPAT): a     *)
(* directory is empty only if a caller has made it or removed a directory  *)
(* from it, if a refused open or rename has left it, if littlefs refused   *)
(* to remove that very directory (unlink and rename succeed all the same), *)
(* or if the path of the last file was too long for rmdirs.                *)
EmptyDirsExplained == SPIFFS_COMPAT => EmptyDirs(tree) \subseteq kept

(* The offset that telldir returns tells where a stream is, as long as the *)
(* listing has not changed since it was opened or rewound: that many       *)
(* entries were returned, or all.  So seekdir leads back to the entry.     *)
OffsetTellsPosition ==
  \A s \in Streams : stream[s] # NULL /\ stream[s].stable =>
    LET all == Children(tree, stream[s].dir) IN
    Cardinality({n \in all : n <= stream[s].pos}) = Min({stream[s].offset, Cardinality(all)})

(* Every seekdir ends, whatever the target and whatever other tasks create *)
(* and remove meanwhile.                                                   *)
SeekEnds ==
  \A s \in Streams :
    (stream[s] # NULL /\ stream[s].seek # NULL) ~> (stream[s] # NULL /\ stream[s].seek = NULL)
=============================================================================
