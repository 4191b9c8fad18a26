# esp_littlefs: specifications, model checking and proofs

esp_littlefs puts the littlefs file system behind the virtual file system (VFS) layer
of ESP-IDF. This directory holds TLA+ modules for the component's own logic, TLC
configurations that check them on small instances, and proofs that TLAPS checks for
every value of the constants. `PROJECT.json` lists the runs, the source lines each
definition models, the hazards of the code and the theorems.

Paths below are relative to the repository; `esp_littlefs.c` is `src/esp_littlefs.c`,
where nearly all of the logic is.

## 1. Inventory

Two parts surround the component and are external here: the **VFS layer** (its tables
of mount points and descriptors, its dispatch) and the **littlefs core** (a git
submodule). littlefs is a store that may refuse any request; the VFS layer is a client
that keeps descriptors and forgets one whatever `close` returned.

| Component | State | Operations | Correct when |
|---|---|---|---|
| Descriptor table | `efs->cache`, `cache_size`, list `efs->file`, `fd_count` | `allocate_fd`, `free_fd`, `free_fds`, `get_fd_by_name` | array, list and count describe one set; an open descriptor keeps its object; the search by name misses no open file |
| File calls | `efs->lock` (recursive mutex), the table, littlefs | open, read, write, pread, pwrite, lseek, fsync, fstat, fcntl, ftruncate, truncate, close, unlink, rename | every call is atomic; the lock is given back on every path; no call uses a freed object; every call returns |
| Registry | `_efs[]`, `_efs_lock` (created on first use), the contexts | register, unregister, format, mounted, info, each for partition label, partition, SD card and block device | a device has one context; a failed call leaves nothing behind and touches nothing else; one task is inside `esp_littlefs_init` |
| Format | the same, and `cfg.block_count` | `format_from_efs` | the volume ends mounted as before, or marked as unmounted |
| Block device configuration | `efs->cfg` | `init_blockdev`, `pick_cache_size`, `gcd`, `lcm` | the geometry satisfies the rules littlefs states, for every device |
| Block device access (`littlefs_bdl.c`, `littlefs_esp_part.c`, `littlefs_sdmmc.c`) | none | read, prog, erase, sync hooks | no access outside the device, no write to a read-only one |
| Modification times | attribute buffer of each open file | `get_updated_time`, `file_sync`, `utime`, `stat` | a nonce changes with every modification and never is 0 |
| Directory streams | `vfs_littlefs_dir_t` | opendir, readdir, telldir, seekdir, closedir | seekdir to a telldir position reads on from there |
| Paths | none | mkdir, rmdir, `mkdirs`, `rmdirs`, flag conversion, read-only mode | SPIFFS compatibility leaves no directory empty without a reason |
| Durability | data buffered in open files | sync after open, fsync, flushed writes, close | what was synced survives a reset |
| CRC, error codes, build and image tools, tests | none | | |

How they interact. A file call enters from the VFS layer with the context pointer of a
volume and a descriptor; it takes the lock of the volume, looks the descriptor up in the
table, calls littlefs, and gives the lock. `register` makes a context under `_efs_lock`,
mounts it, and hands it to the VFS layer after it has given the lock; `unregister` takes
it away from the VFS layer and frees it with everything in it. `format` uses the
context of a mounted volume, or makes a temporary one with `esp_littlefs_init`; that in
turn may call `format` when a mount fails.

What is hard: calls of several tasks interleave between sections; a task waits for a
lock with a descriptor that is closed meanwhile; only `esp_littlefs_init` works under
`_efs_lock`, everything else reads and writes `_efs[]` without it; each step of opening
and registering may fail after earlier ones have changed state; `format_from_efs` frees
descriptors that are in use and takes no lock. `PROJECT.json` lists these hazards line
by line, with the properties that cover them.

## 2. Modules

| Module | Role |
|---|---|
| `FdTableOps` | the functions of the descriptor table as operators on a record; `Consistent` |
| `FdTable` | one volume, each VFS call one atomic step |
| `FdSpec` | what the descriptor table promises the VFS layer |
| `VolumeLock` | the same volume, calls of several tasks step by step under `efs->lock` |
| `Registry` | `_efs[]`, `_efs_lock`, the management functions and file calls, several tasks |
| `MountSpec` | what registration promises |
| `BlockDevice` | geometry of a volume, mount, format and growth, and the hooks that pass accesses on |
| `FileData` | contents and modification nonces of files, in memory and stored |
| `Tree` | path and directory calls, SPIFFS compatibility, directory streams |
| `FdTableOps_proofs` | lemmas about the operators of the table, for every consistent table |
| `FdTable_proofs`, `Registry_proofs`, `BlockDevice_proofs`, `FileData_proofs`, `Tree_proofs` | theorems about these modules |
| `VolumeLock_proofs` | theorems about the mutex of `VolumeLock` |
| `VolumeAtomic_proofs` | theorems about the volume of `VolumeLock`, and its refinement of `FdTable` |
| `MCFdTable`, `MCVolumeLock`, `MCRegistry`, `MCBlockDevice`, `MCFileData`, `MCTree` | constants of the instances |

`VolumeLock` implements `FdTable` (atomicity), and `FdTable` implements `FdSpec`; both
apply the operators of `FdTableOps`. `Registry` implements `MountSpec`. `FileData` and
`Tree` take each file, path and directory call as one step; that this is sound is what
`VolumeLock` shows for the sections between `sem_take` and `sem_give`.

Callers spell a path in one way. The driver compares the characters of paths
(`esp_littlefs.c:1817`), so a file opened as `a/b` is not busy for an unlink of `a//b`;
littlefs takes both for the same file. In `FdTable`, `VolumeLock` and `Tree` a path has one
name.

Definitions named `...Unchecked`, `...KeepSize` and so on, with a comment "Faulty
variant", are not part of any specification. They are deliberately wrong versions of the
definition that follows them; substituting one shows that a property of the runs really
depends on that part of the code.

### FdTable

`efs` is the record of the table: `cache` is a function on `0 .. cache_size - 1` (the
empty function stands for a NULL pointer), `file` is the linked list from its head, and
`heap` is the set of file objects that are allocated. `handle` is the VFS layer's table:
what the driver returned, the path, and whether it was opened since the last format
(`fresh`). `names` is the set of files littlefs stores. Actions and code:

- `Open`, `OpenNoCache`, `OpenNoObject`, `OpenRefused`, `OpenNullCache`: the ways
  through `vfs_littlefs_open` and `esp_littlefs_allocate_fd`. The two assertions at the
  start of `allocate_fd` are guards. When the cache grows and the object cannot be
  allocated, the larger cache stays, as in the code. A growth of a cache of size 0
  (volume left unmounted by a failed format) asks `realloc` for 0 bytes and gets NULL.
- `Close`, `CloseFails`: a refused close does not free the descriptor, and the VFS layer
  has lost it (`lost` in `FdSpec`). The slot, and the name, stay taken until the volume
  is unmounted.
- `BadAccess`: a descriptor that passes the check `(uint32_t)fd > cache_size` and leads
  nowhere. It sets `fault`, and nothing runs after that: the program has crashed.
- `Unlink`, `Rename`: with the search by name. `USE_ONLY_HASH` and `Hash` choose how
  paths are compared.
- `FormatAndRemount`, `FormatOnly`, `FormatFails`: `format_from_efs` on a registered
  volume. `FormatWhileOpen` says whether callers format a volume with open files, and
  `MountAllocFails` whether the allocation of the new cache, which the code does not
  check, may fail.

### VolumeLock

A call is one or more sections, from `sem_take` to `sem_give`, and each section is a
sequence of steps: `grow`, `object`, `link`, `lfs`, `name`, `give` for open; `check`,
`lfs`, `give` for calls with a descriptor; `busy`, `lfs`, `give` for unlink and rename.
`truncate` is three sections with the lock free between them. A flushed write nests the
section of `fsync` in its own, which the recursive mutex permits. `owner` and `depth`
are the mutex. `pread` and `pwrite` with a failing seek jump past `sem_give`
(`SeekFails`). The ghost variable `committed` is the volume as it was when the lock was
last given; the refinement of `FdTable` maps to it. Calls that leave the descriptor
table alone are one step inside their section.

### Registry

`slot` is `_efs[]`, `heap` the contexts that are allocated, `ctx` their device, base path,
mark of a mounted volume and the holder of their lock, `vfs` the table of the VFS layer
by base path, `released` the block devices whose handle was released. `_efs_lock` is
modelled with its lazy creation: `efsLock` names the mutex, and `CreateLock` is the
critical section with the second check. `pc` follows the statements of
`esp_littlefs_init` and of the functions around it; a configuration stands for one
`esp_vfs_littlefs_conf_t` with a base path of its own, and the four kinds of devices
differ only in whether a duplicate is looked for (`Unchecked`) and whether the handle is
released with the context (`BlockDevs`). `EnterVolume` and `LeaveVolume` are `sem_take`
and `sem_give` of a file call, with the context the VFS layer gave it. Each step that
follows `_efs[index]` crashes on an emptied slot (`null_deref`) or a freed context
(`use_after_free`).

The lookups by label, partition, SD card and block device take no lock of their own, and are
walks here: `ReadEntry` reads a slot into the local `p`, and a later step looks at the context
`p` points to and goes on (`PassEntry`) or ends the walk (`Found`). Other tasks run between the
two, and when one of them has freed the context, `PassEntry` stops the program with
`stale_entry`. A context that was freed and allocated again is read as the new one. The walk for
a duplicate (`FindDuplicate`) and the one with which `format_if_mount_failed` finds its own
volume again (`LookUpAgain`) are the same; `FindEmpty` reads one slot at a time, too, but only
compares it with NULL. `Overlap` and `OneDevice` are
what callers do at the same time, and `VfsRefuses` whether the VFS layer may refuse a
registration, after which `register` frees the context outside `_efs_lock`.

### BlockDevice

One volume, from its registration on a device to the accesses of littlefs. `device` and
`conf` are the arguments, `cfg` is `efs->cfg`, `stage` says where the volume is in its
life and `resume` what follows a format that is running. Configuration:

- `Usable`, `BlockSize`, `CacheSize` and `BdlCfg` follow `esp_littlefs_init_blockdev`
  and `esp_littlefs_bdl_pick_cache_size`; sizes wrap at `WORD` where the code keeps them
  in 32 bits. `gcd` is a recursive function and `lcm_size` is computed as in the code.
  `Classic` is a device whose flags ask for an erase before a write; the others get the
  least common multiple of their units as the block. `PartCfg` and `SdCfg` are the other
  two kinds.
- `Configure`, `Refuse`, `NoMemory`, `Abort`: a registration is accepted, refused, out of
  memory, or stopped by the assertion on the cache.
- `MountOk`, `MountFails`, `GrowOk`, `GrowFails`, `FormatVolume`, `FormatOk`,
  `FormatFails`: the mount of `esp_littlefs_init` with `format_if_mount_failed` and
  `grow_on_mount`, and `format_from_efs`, which sets `block_count` for a partition, erases
  an SD card as a whole, and takes the count back.
- `Read`, `Write`, `Erase`, `Sync`: littlefs may ask for any access its contract allows;
  `bdl_read` and so on are the hooks with their checks, and `io` is what reached the
  device. An access a hook refuses is not a step.

### FileData

`store` is what littlefs has stored of each file (a version of the contents, and the
nonce in the time attribute), `handle` the open files in memory with the attribute buffer
of each (`vfs_littlefs_file_t`), and `told` the version a successful `fsync` or `close`
has promised to the caller. Contents are version numbers: a write makes the next one.

- `OpenFile` reads the attribute as the code does (`FirstTime`: littlefs fills it in for
  descriptors that may read, the driver asks for it otherwise) and synchronises at once;
  a failure of that synchronisation is logged only.
- `Write`, `WriteFlush`, `WriteFails`, `Fsync`, `Close`, `Utime`, `Unlink`; `pwrite` and
  `ftruncate` are `Write`, `truncate` is an open, an `ftruncate` and a close.
- `lfs_sync` is external: it stores contents and attribute together, or fails and may
  have stored them, and after a failure does nothing until the next write.
- `Reset` drops everything that is only in memory, at any moment.

### Tree

`tree` says which paths are files and directories, `open` the path stored with each
descriptor, `stream` the directory streams. A path is the sequence of its names, and a name is
a positive number, which also orders the entries of a directory. `mkdirs` and `rmdirs` are the
helpers of SPIFFS compatibility: the last values of the recursive functions `MadeParents`
(from the root down) and `RemovedParents` (from the leaf up), over the parents of the path
that fit the buffer of the helpers (`Parents`, `COVERED`). A call on a path is one step with
all the parents it makes and removes. littlefs may refuse to make or to remove any of them
(`refused`); the helpers ignore that (`esp_littlefs.c:2866` and `2892`) and go on with the next
one. So a refused open or rename (`OpenRefused`, `RenameRefused`) leaves some or all of the
parents behind, and an unlink or rename that succeeds may leave some of the empty ones. An open
or rename that succeeds has found its parents, so none of them was missing and refused.
`OpenDir`, `ReadDir`, `CloseDir`, `SeekDir` and `SeekStep` are the streams: the
driver counts entries, and `seekdir` reads forward one entry at a time, with the lock free
in between. `kept` is a ghost variable: the empty directories for which there is a reason.

## 3. Runs

Passing runs:

| Run | Question | Bounds |
|---|---|---|
| `fdtable_caller` | Do handles keep their objects, and does the table implement `FdSpec`, when volumes are formatted with all files closed? | 3 handles, 3 objects, 2 paths with one hash, cache 1 to 3 to 4 |
| `fdtable_stale` | Does the table stay consistent under formats at any time, failed allocations, and paths known by hash only? | 3 handles, 3 objects, 2 paths, cache 1 to 2 to 4 |
| `volume_atomic` | Is every call atomic, and is the lock held exactly by running sections? | 2 tasks, 1 handle and the descriptors of truncate, 2 objects, 2 paths |
| `volume_shared` | Does a task ever give littlefs a freed object, when two tasks close and reopen each other's handles and seeks may fail? | 2 tasks, 2 handles, 3 objects, 1 path, mutex count 3 |
| `volume_live` | Does every call return? | 2 tasks, 1 handle, 1 path, nested fsync |
| `registry` | Is a device mounted once, is nothing left behind after any failure, is every mounted volume in the table and found by every walk, are walks the only steps that can meet a freed context? | 2 tasks, 3 configurations of 2 devices (one with `dont_mount`), 2 slots, 2 contexts |
| `registry_serial` | With which overlaps does no walk meet a freed context, and does every call return? | the same, with the overlaps of `CallersSerialise` |
| `blockdev` | Are the accepted geometries what littlefs asserts, does every access lie on the device at the right place, is nothing read-only written, do mounts find the number of blocks? | 4,484 devices, 4 configurations; a word of 16, a buffer of 4, a minimum block of 3 |
| `filedata` | Is what was acknowledged stored, and does the nonce grow with every change, whatever fails and whenever the device is reset? | 1 file, 2 descriptors, 6 modes, 3 versions, nonces to 6 |
| `tree` | Do open files keep their names, has every directory that is left empty a reason, whichever parents littlefs refuses, do offsets of streams lead back, does every seekdir end? | 6 paths of up to 4 names, 1 open file, 1 stream, offsets to 3 |

Why the bounds are enough for the interesting cases:

- *Descriptor table.* One to four slots make the cache grow twice and reach its limit (the
  code's 4, 2 and 65535 are the constants `MIN_SIZE`, `REALLOC_FACTOR` and `UINT16_MAX`;
  `TableAssumption` is all that the proofs use of them). Three objects give a list with a
  middle, and an array with a hole before an open file; two paths with equal hashes
  separate the comparison by hash from that by path.
- *Lock and registry.* Two tasks are enough for each pair of steps to interleave; two slots
  and three configurations produce a full table, a duplicate and a free slot. `MaxDepth`
  bounds the count of the mutex, which grows without limit once a failing seek has left it
  taken; no other section takes it more than twice. Two contexts fill the heap, so that an
  allocation fails and a freed context is reused at once.
- *Block devices.* All sizes that the code compares are scaled down together. The minimum
  block of 3 is not a multiple of the units, so that rounding matters; the largest device,
  24, lies beyond the word of 16; recommended sizes are absent, multiples and not multiples;
  every flag and every subset of the operations occurs with a plain geometry.
- *Files.* Two descriptors are a writer and a reader, or one that follows another; three
  versions allow a change that is stored, one that fails and one after that; the random
  values are 0 and 3, so that a first nonce lies above or below a time given to `utime`.
- *Tree.* The paths have two branches, a directory with two entries, a chain of three
  parents, and one path whose last parent is beyond the buffer of the helpers. Offsets reach
  beyond the end of every listing.

A crashed program does nothing: the runs in which a stale descriptor, a call on an
unmounted volume or a walk of the table (`registry`) may crash it, a leaked lock may stop it, or
a registration may be refused (`blockdev`) say `CHECK_DEADLOCK FALSE`. In the others a state
without a successor would be reported.

Fairness (`volume_live`, `registry_serial`, `tree`): a task that can take a step takes one
(`WF`), because FreeRTOS runs tasks of equal priority in turn; a task that waits for a
mutex gets it if it becomes free again and again (`SF`), because the waiters of a mutex
are woken by priority and then in the order they came. No task has to start a call. In
`tree` only a task that is inside `seekdir` goes on (`WF` of `SeekStep`).
For tasks of different priorities a busy high-priority task can starve the others; the
code does not claim otherwise and the runs do not either.

What the runs take from the callers, because nothing in the code ensures it:

- `FdTable`: in `fdtable_caller`, volumes are formatted with all files closed.
- `Registry`: the overlaps of `MCRegistry`. In `registry`, registers run with registers, also
  of one device; register, unregister and format run with queries and file calls of other devices,
  and unregister with unregister (`CallersTakeCare`). In `registry_serial`, a lookup runs only
  next to lookups and file calls, and registers overlap when the VFS layer refuses none
  (`CallersSerialise`).
- One spelling for each path (section 2).
- `FileData`: one descriptor at a time writes a file, `O_TRUNC` comes with write access,
  `utime` is not called on a file open for writing and never with the time 0.
- `Tree`: directories are not renamed while files below them are open; one task uses a
  directory stream.

Runs that TLC refutes, each a disagreement between the code and what it says of itself:

| Run | What the counterexample shows |
|---|---|
| `fdtable_range` | "FD %d must be <%d." is the error text of the check `(uint32_t)fd > efs->cache_size`, which accepts `fd = cache_size`. After a format has replaced a larger cache, a stale descriptor passes and reads behind the array. |
| `volume_pread` | `pread` and `pwrite` return with the lock taken when `lfs_file_seek` fails, and no other task's call on the volume ever returns. |

Observations of the same kind that have no run of their own. Each follows from the models
by changing the constant that is named, or from the code the definition maps to.

Registry:

- A lookup reads a slot of `_efs[]` and then the context it points to, without `_efs_lock`
  (`esp_littlefs.c:873`, `915`, `937`, `965`). When an unregister of another volume, a refusal of
  the VFS layer, a temporary format or a failing registration frees that context in between
  (`503`, `481`, `600`, `1575`), the lookup reads freed memory: `NoFault` fails in the setting of
  `registry`, with `stale_entry`, for a query of one device next to an unregister of another. A
  lookup for a duplicate holds `_efs_lock`, but the frees at 481, 503 and 600 do not, so two
  registers of which the VFS layer refuses one are enough. The headers do not say which management
  functions may be called at the same time, so this contradicts no claim; callers have to keep
  lookups away from these calls, on all devices.
- `unregister` empties its slot a second time after it freed the context
  (`esp_littlefs.c:504`). With `{"register", "unregister"}` in `Overlap`, a volume that was
  registered in between stays mounted and cannot be found (`MountedIsListed` fails).
- A configuration without a label or partition (and one with an SD card) is mounted a second
  time, where `esp_littlefs.h:87` promises `ESP_ERR_INVALID_STATE`
  (`esp_littlefs.c:1460`). With such a configuration in `Unchecked`, `OneContextPerDevice`
  fails.
- `esp_littlefs_format_blockdev` promises not to release the caller's handle
  (`esp_littlefs.h:228`), but does when the temporary context fails after it was allocated
  (`esp_littlefs.c:1577`; the variable `released` becomes `"format"`).
- A format whose temporary context could not be made frees the slot index it was given,
  which another task may have filled: `PreexistingMountsUntouched` fails when formats
  overlap registers of another device.
- When `lfs_unmount` fails, `format_from_efs` returns with the volume still mounted.

Block devices:

- The cache of an SD card is as large as a sector (`esp_littlefs.c:1069`), while every file
  object carries a buffer of `CONFIG_LITTLEFS_CACHE_SIZE`, which lines 1123 to 1125 require
  of caches in general.
- The assertion after the choice of the cache size (`esp_littlefs.c:1141`) is not implied by
  the checks before it: a classic device whose erase size is not a multiple of the cache
  (erase 6, cache 4) stops the program (`Abort`).
- The hooks of partitions do not test `read_only`: a format, a growth at mount, and the parents
  made by an open (below) write a partition that is mounted read-only. `ReadOnlyNeverWritten` is
  about block devices, whose hooks do.

Files and directories:

- A volume mounted with `read_only` ("Mount the partition as read-only.", `esp_littlefs.h:74`) is
  changed: with SPIFFS compatibility, an open for reading makes the missing parents of its path
  before littlefs is asked for the file (`esp_littlefs.c:1891`). With `READ_ONLY`, `OpenRefused` of
  `Tree` changes the tree.
- After a refused close the path stays busy (`EBUSY`) although no descriptor is open.
- The first nonce of a file made with `O_WRONLY | O_CREAT` is 1 and not random: the missing
  attribute reads as -1, and only 0 asks for a random value. Any error of littlefs while the
  attribute is read has the same effect.
- `pwrite` and `ftruncate` never flush, whatever `CONFIG_LITTLEFS_FLUSH_FILE_EVERY_WRITE`
  says.
- An open succeeds although its synchronisation failed; a close right after it then returns
  0 and nothing is stored. `Promise` therefore counts only what no failure preceded.
- A second `fsync` of an unchanged file takes a new nonce that is not stored, so `fstat` and
  `stat` differ until the next write.
- A second writing descriptor of a file keeps a nonce of its own, and its first
  synchronisation may put an older nonce back (`WriterIsAhead` fails without the guard of
  `OpenFile`); the same holds of `utime` on a file open for writing (`UtimeWhileOpen`).
- `O_RDONLY | O_CREAT` is taken over without access bits, so the descriptor can neither be
  read nor written.
- An unlink or a rename returns 0 when littlefs refuses to remove one of the empty parents
  (`esp_littlefs.c:2892`), and leaves it. The next unlink below it tries again.
- An open of `a//b` finds the file `a/b`, but the test for open files does not
  (`esp_littlefs.c:1817`): unlink and rename take a file that is open under another spelling.
- Parents of a path that is longer than the buffer of `mkdirs` and `rmdirs` are neither made
  nor removed (`Uncovered`).
- `rename` of a directory looks for its very path only; with `RenameOpen`, `OpenNamesExist`
  fails for the open files below.
- `closedir` keeps the memory of the stream when littlefs returns an error.

## 4. Proofs

Every invariant, action property and refinement of the passing runs is a theorem, for any
number of tasks, handles, paths, devices and slots and any sizes that satisfy the assumptions of
the modules. Each inductive invariant was given to TLC as an invariant of a run before it was
proved.

| Module | Theorems without a condition | Condition of the others | Theorems |
|---|---|---|---|
| `FdTable` | `TableAlwaysConsistent`, `TableTypeCorrect`, `SizeTellsMounted`, `LookupAlwaysComplete` | `Discipline`: formats with all files closed, and the new cache is allocated | `CallersAreSafe`, `NoCallFaults`, `HandlesKeepTheirObject`, `TableImplementsFdSpec` |
| `VolumeLock` | `VolumeTypeCorrect`, `FilesInUseStayAllocated`, `FreeMeansConsistent` | `~SeekErrors`: no seek of `pread` or `pwrite` fails | `LocksAreGivenBack` |
| | | `~SharedHandles`: no two tasks use a handle at a time | `VolumeImplementsFdTable` |
| `Registry` | `InitIsExclusive`, `RegistryTypeCorrect` | `CallersTakeCare`, see below | `OnlyWalksMeetFreed`, `DevicesHaveOneContext`, `NoCallLeaks`, `MountedVolumesAreListed`, `WalksMissNothing`, `MountsAreNotFreed`, `RegistryImplementsMountSpec` |
| | | `CallersTakeCare` and `CallersSerialise`, see below | `NothingFreedIsUsed` |
| `BlockDevice` | all seven | | |
| `FileData` | `FileDataTypeCorrect`, `PromisesAreKept`, `ContentsHaveNonces` | `~UtimeWhileOpen`: no `utime` on a file open for writing | `WritersAreAhead`, `NoncesGrow` |
| `Tree` | `TreeTypeCorrect`, `OffsetsLeadBack`, `NoUnexplainedEmptyDirs` | `~RenameOpen`: no directory is renamed with open files below | `OpenFilesKeepTheirNames` |

Each condition is one that a passing run of section 3 satisfies, so none is empty. Where the code
does not keep a property without it, section 3 says what goes wrong.

### Descriptor table

`FdTableOps_proofs` shows of `allocate_fd`, `free_fd`, `free_fds` and `get_fd_by_name` what each
leaves: growth, the choice of a free slot, insertion and removal preserve every part of
`Consistent`. The count needs the cardinality theorems of the library: the number of occupied
slots grows by one with an insertion into a free slot, and so there is a free slot whenever the
count is below the size. `LookupAlwaysComplete` follows without a further induction, because
fewer slots than `fd_count` are occupied before an occupied one.

In `FdTable_proofs`, `TableInv` (types, the five parts of `Consistent`, and the mark of a mounted
volume) is inductive by itself, whatever callers do. `FreshHandlesLive`, `NoFdFault` and
`OpenNamesExist` are not: that a closed slot is not shared needs the injectivity of the array, and
that no open handle is stale needs the discipline. `CallerInv` adds what is missing.

`TableImplementsFdSpec` maps a handle to the descriptor and path that the driver returned, and the
occupied slots without a handle to the lost descriptors of `FdSpec`. `CallerInv` gives what the
mapping needs: open handles have slots that are occupied and distinct. Then an open takes a
descriptor that is neither open nor lost, a close gives back its own, a refused close loses one, a
format takes the lost ones back, a failed open may have left the name, and the steps that only
change the array or are refused are stutters.

### The volume under its lock

`VolumeLock_proofs`: `LockMatchesSections` is not inductive. The invariant adds where a nested
section can be, namely in a flushed write that waits for the mutex, makes its checked call, or
gives it. That makes `Give` decidable from the holder's own state.

`VolumeAtomic_proofs` makes no assumption on seeks, so its mutex invariant only says that a task
inside a section is the owner and that the count is at least what its sections account for: a
leaked lock stays with its owner, and nobody else is inside. `VolumeInv` has for each task what its
locals can be at the statement it has reached (`GoodCall`, `AtLabel`), and, for the one task inside
a section, exactly what it has done to the volume since the last `sem_give` (`Progress`): after
`grow` the table is the committed one with a larger cache, after `link` it is the committed table
with the new object allocated, a failed open is back at the committed table up to its size, and a
close has freed its own slot or nothing. When nobody is inside, the volume is the committed one
(`SameVolume`). The committed table is consistent (`Ready`), and the lemmas of `FdTableOps_proofs`
carry that over each `Give`. The three unconditional theorems follow from `VolumeInv`.

For the refinement, `Give` must be one step of `FdTable` from the committed volume to the present
one. `Progress` says what the section did; what remains is that the handle it used still belongs to
it. `SlotInv` says that running calls use different handles, that the descriptor a call carries is
the one of its handle, and that the private descriptor of `truncate` stays between its three
sections. This is where `~SharedHandles` is needed. Every other step is a stutter.

### Registry

`InitIsExclusive` rests on `LockInv`: at most one mutex is ever created (`made = efsLock`), no task
waits for a mutex before there is one, and the task inside `esp_littlefs_init` is the one that
holds it. The second check in the critical section is what keeps `made = efsLock`.

The other theorems suppose `CallersTakeCare`, a condition on `Overlap`, `OneDevice` and
`Unchecked`: nothing else runs on a device that is being unregistered or formatted, nothing asks
for a volume while it is being registered, on different devices registers overlap registers and
unregisters overlap unregisters, and a device whose registration looks for no duplicate has one
configuration. File calls and queries of other devices run at any time, and so do registers of
the same device. `MCRegistry` asserts the condition for its instance (`InstanceTakesCare`), and
section 3 says what happens without it: only `esp_littlefs_init` runs under `_efs_lock`.

The invariant `RegInv` gives every context on the heap either a slot or one owner, the task that
will free it or hand it to the VFS layer (`HeldOf`, `HeapOK`, `KnownOK`, `HeldOK`); says that the
contexts the VFS layer knows are in a slot, with their device and base path, and owned by nobody
(`MountedOK`); and what each task relies on at each statement (`PlaceOf`): that the slot it found
empty is still empty, that the slot it published in still holds its context, that the slot it
will free holds a context of its device, that no slot has the device it checked for duplicates. A
step of one task keeps what another relies on because of the discipline: `Footprint` states once
what a step may change (its own locals, a slot from empty to its own context or back, the base
path of its own context, the VFS entry of its own volume), and `SlotStays` and its companions
derive that the places of other tasks survive. Then each statement has a lemma for the task that
executes it. `OnlyWalksFault` is part of the invariant; `NothingLeftBehind` follows because an idle
task owns nothing, and `MountedIsListed` is part of `MountedOK`.

`WalkOf` says what a walk has learnt: no slot it has passed holds a context of the device it looks
for, and an entry it has read that is still a context of the device is still in its slot. That
survives the steps of the others because nobody else changes the slots of a device that is being
unregistered or formatted, and only the task inside `esp_littlefs_init` fills a slot. So a walk that ends has seen no such context (`WalkEnds`), from which `DevicesHaveOneContext` and
`WalksMissNothing` follow, and one that finds a slot may rely on it. What a walk may not rely on is
the context of another device, between the two steps of a turn.

`NothingFreedIsUsed` adds `CallersSerialise`: when a task walks, nothing that frees a context runs
next to it, except a registration that fails inside `esp_littlefs_init`, which a walk for a
duplicate excludes by `_efs_lock` (`NoFreeUnderAWalk`). Then the context a walk has read from a
slot is on the heap until the walk has passed it (`SerialInv`).

For `MountSpec`, only `VfsRegister` and `VfsUnregister` change what is mounted.

### Block devices

`ReadOnlyStays` follows from the hooks alone, `BlocksAreDetected` from the way every format ends.

The others need the arithmetic of `gcd` and `lcm`. `gcd` is a recursive function on pairs; that it
has a value that satisfies its equation, and that the value is the greatest common divisor, is
shown by a least counterexample in the second argument: at the least pair for which it fails, the
remainder is smaller. `IsGcd` is stated so that it survives multiplication, which is what gives
that `a / gcd * b` is the least common multiple. The smallest multiple of it that reaches
`LFS_MIN_BLOCK_SIZE` is then the smallest size that both units divide. A least common multiple that
does not fit a word is cut to a number that no longer is a multiple of both, and the checks of
`esp_littlefs_init_blockdev` refuse it. `BlockDeviceInv` says where the volume is in its life
(`LifeOK`), that its configuration is the one its device gives (`CfgOK`), and that the request a
device works on lies on it and is what was asked (`IoOK`); `GeometryIsSound` and `LogicalBlocksAreLeast` are facts about
every configuration that `CfgOK` allows. The hooks compute addresses in 32 or 64 bits, and the
proofs show that none of these products wraps.

`BlockDeviceAssumption` takes from the hardware that a partition and one block more, and the
highest block an image on a partition can name, have addresses below 2^32 (`esp_partition_t.size`
is a `uint32_t`, and flash chips have at most 2^28 bytes or so), that an SD card has sectors, fewer
than 2^32 of them, and that twice the minimum block of littlefs, 128 bytes, fits a word. Nothing is
assumed of the geometry and flags of block devices.

### Contents and nonces

None of the properties is inductive: that a promise stays kept depends on what a descriptor will
store later. `Fits(o, s)` relates an object in memory to what is stored: a writing one has a
version (and, without `utime` on open files, a nonce) that is not behind, one without write access
has nothing to store, and one that is clean and without an error is not ahead. The invariant `Inv`
says that every open descriptor fits (`OpenFit`), that at most one writes a file (`OneWriter`), and
that nothing was promised of a file that does not exist (`NewUntold`). `SyncedBySync` describes what
a synchronisation leaves, in all its outcomes; `SyncStep` shows once that a call that synchronises
one descriptor keeps `Inv`: the other descriptors of the file are readers, and still fit because
they store nothing. Open, flushed write, fsync and close are instances of it.

`PromisesAreKept` and `ContentsHaveNonces` depend on versions only and hold whatever `utime` does.
`WritersAreAhead` and `NoncesGrow` need `~UtimeWhileOpen`: a descriptor does not hear of a time
that `utime` stores under it, and puts its own older nonce back.

### Tree

A first part proves the algebra of paths: prefixes, parents, and the change of prefix (`Rebase`)
with which a rename moves a directory (`Movers`). The values of `MadeParents` and `RemovedParents`
exist by a least number of steps for which they would not (`Iterates`), and a second argument of
that kind shows what they leave: `Grown`, the tree with directories above the path added, and
`Shrunk`, the tree with covered parents removed, each still a tree. Both hold whatever littlefs
refuses. `RmdirsShrink` adds that none of the covered parents is left empty that littlefs did not
refuse to remove: the helper visits each, and one that was not empty when it was visited stays so.

`TreeInv` says that whatever exists is in a directory (`IsTree`), that open descriptors and streams
have their types, that a stream is on a directory that exists (`StreamDirsExist`: a removal turns
it to NULL), and that `kept` holds only empty directories. From it:

- `OpenFilesKeepTheirNames`: unlink and rename refuse the path of an open file, the parents that
  are removed were empty, so nothing open is below them; a rename of a directory moves only what is
  below it, hence `~RenameOpen`.
- `OffsetsLeadBack`: `readdir` returns the least entry above the last one, so the number of entries
  up to the position grows by one with the offset until all were returned. A change of the
  directory ends `stable`.
- `NoUnexplainedEmptyDirs`: a directory that becomes empty has lost its last entry by the step
  itself; `Shrunk` removes it unless it is not covered or its removal was refused, and then it is
  in `kept`.

### Not proved

Liveness: `CallsReturn` of `VolumeLock` and of `Registry`, and `SeekEnds` of `Tree`. This version
of TLAPS does not reason about `ENABLED`, hence about fairness. These stay with TLC.

No module declares a `RECURSIVE` operator. Statements about all values of a recursive function are
not proved by the induction theorems of the library, which take an operator as a parameter, but
from a least counterexample: a non-empty set of numbers has a least element.

## 5. Not modelled

- The steps of `format_from_efs` and of `esp_littlefs_free` inside running file calls of the
  same volume. Neither takes `efs->lock`, and nothing else keeps them apart, so that every
  property of `VolumeLock` fails at the first such step. The runs leave this overlap to the
  callers.
- Opening a directory as a file (`CONFIG_LITTLEFS_OPEN_DIR`, lines 1860 to 1873, 1910 to 1915 and
  1936 of `esp_littlefs.c`), which exists only with SPIFFS compatibility.
- Different spellings of one path (section 2).
- The conversion of open flags, the error code tables, and logging: they keep no state.
- `CONFIG_LITTLEFS_MTIME_USE_SECONDS`: times come from the clock instead of the attribute.
- File positions and contents below the granularity of versions, `fcntl` other than its
  check, and file sizes.
- `lfs_config.c` (CRC), build and image tools.
- The littlefs core: what it does with its accesses, its own recovery after a reset, and the
  wear of the device. It appears as what the component relies on.
- The SD card driver, `esp_partition` and the block device layer: they may refuse any access.
- Partitions read without a memory map: the hook leaves the test of the range to
  `esp_partition_read`.

## 6. Plan

1. `FileData` with several writing descriptors of one file, and the weaker property of nonces
   that remains; the theorems about contents already hold for `utime` at any time.
2. `CONFIG_LITTLEFS_MTIME_USE_SECONDS`, once it has a property of its own.
3. The hazards of `PROJECT.json` that no property covers yet: the handle that a failed format
   of a block device releases, the cache of an SD card, and the error messages that read a file
   object after `sem_give`.
