----------------------------- MODULE BlockDevice -----------------------------
(***************************************************************************)
(* How a volume gets its geometry from its device, and what the driver     *)
(* passes on to the device afterwards: esp_littlefs_init_blockdev,         *)
(* esp_littlefs_init_sdcard and esp_littlefs_init_efs, the mount of        *)
(* esp_littlefs_init with its format and its growth, format_from_efs, and  *)
(* the hooks that littlefs calls (littlefs_bdl.c, littlefs_esp_part.c,     *)
(* littlefs_sdmmc.c).                                                      *)
(*                                                                         *)
(* littlefs is external: it asks for any access its contract allows, and   *)
(* any of its calls may fail.  So are the drivers of the devices; those of *)
(* partitions and SD cards refuse what lies outside the device.            *)
(***************************************************************************)
EXTENDS Naturals

CONSTANTS
  CACHE_SIZE,        (* CONFIG_LITTLEFS_CACHE_SIZE                          *)
  READ_SIZE, WRITE_SIZE, BLOCK_SIZE,     (* the same for partitions         *)
  LFS_MIN_BLOCK_SIZE,
  WORD,              (* 2^32, scaled down: size_t and the lfs_*_t types     *)
  MAX_BLOCK,         (* last block an image can name that a partition holds *)
  Devices,           (* devices a volume is registered on, see Device       *)
  Confs              (* their configurations                                *)

Sizes == 0 .. WORD - 1
Ops   == {"read", "write", "erase", "sync"}

(* A device: for a block device its geometry, flags and operations.  An SD *)
(* card has its sector in read, write and erase; a partition has only      *)
(* disk, its size.                                                         *)
Device == [kind : {"blockdev", "partition", "sdcard"},
           read : Sizes, write : Sizes, erase : Sizes, disk : Nat,
           recRead : Sizes, recWrite : Sizes, recErase : Sizes,
           readOnly : BOOLEAN, encrypted : BOOLEAN,
           eraseFirst : BOOLEAN, andWrite : BOOLEAN, ones : BOOLEAN,
           ops : SUBSET Ops]

Conf == [readOnly : BOOLEAN, format : BOOLEAN, grow : BOOLEAN, mount : BOOLEAN]

ASSUME BlockDeviceAssumption ==
  /\ {CACHE_SIZE, READ_SIZE, WRITE_SIZE, BLOCK_SIZE, LFS_MIN_BLOCK_SIZE} \subseteq Sizes \ {0}
  /\ WORD \in Nat \ {0} /\ MAX_BLOCK \in Nat
  /\ Devices \subseteq Device /\ Confs \subseteq Conf
  /\ 2 * LFS_MIN_BLOCK_SIZE <= WORD
  /\ (MAX_BLOCK + 1) * BLOCK_SIZE <= WORD
  /\ \A d \in Devices :
       /\ d.kind = "partition" => d.disk + BLOCK_SIZE < WORD
       /\ d.kind = "sdcard" => d.read # 0 /\ d.disk \div d.read < WORD

VARIABLES
  device, conf,      (* arguments of the registration                       *)
  stage,             (* where the volume is in its life                     *)
  resume,            (* what goes on after a running format: the mount of   *)
                     (* esp_littlefs_init, the remount, or nothing          *)
  cfg,               (* efs->cfg                                            *)
  io                 (* the request of littlefs that the device works on,   *)
                     (* with the address and length the device got          *)

vars == <<device, conf, stage, resume, cfg, io>>

NoCfg == [read |-> 0, prog |-> 0, block |-> 0, count |-> 0, cache |-> 0]
NoIo  == [op |-> "none", block |-> 0, off |-> 0, size |-> 0, addr |-> 0, len |-> 0]

-----------------------------------------------------------------------------
(* Geometry of a block device                                              *)

gcd[p \in Nat \X Nat] == IF p[2] = 0 THEN p[1] ELSE gcd[<<p[2], p[1] % p[2]>>]

(* Faulty variant: the product. *)
lcm_sizeProduct(a, b) == (a * b) % WORD

lcm_size(a, b) ==
  IF a = 0 \/ b = 0 THEN 0 ELSE ((a \div gcd[<<a, b>>]) * b) % WORD

(* Faulty variant: a recommended size is taken as it is. *)
PreferredUnchecked(recommended, size) == IF recommended > 0 THEN recommended ELSE size

Preferred(recommended, size) ==
  IF recommended > 0 /\ recommended % size = 0 THEN recommended ELSE size

Classic(d) == d.eraseFirst \/ d.andWrite

ReadSize(d)  == Preferred(d.recRead, d.read)
WriteSize(d) == Preferred(d.recWrite, d.write)

LogicalBlock(unit) ==
  IF unit > 0 /\ unit < LFS_MIN_BLOCK_SIZE
  THEN unit * ((LFS_MIN_BLOCK_SIZE + unit - 1) \div unit)
  ELSE unit

BlockSize(d) ==
  IF Classic(d) THEN Preferred(d.recErase, d.erase)
                ELSE LogicalBlock(lcm_size(ReadSize(d), WriteSize(d)))

(* What the flags and operations of a device must allow. *)
Supported(d, c) ==
  /\ "read" \in d.ops
  /\ ~d.encrypted
  /\ Classic(d) => d.ones
  /\ ~c.readOnly => ~d.readOnly /\ {"write", "erase"} \subseteq d.ops

UnitsOK(d) ==
  /\ d.read # 0 /\ d.disk # 0 /\ d.write # 0
  /\ Classic(d) => d.erase # 0

BlockOK(d) ==
  LET b == BlockSize(d) IN
  /\ ~Classic(d) => b # 0 /\ d.disk % b = 0
  /\ ReadSize(d) <= b /\ WriteSize(d) <= b
  /\ b % ReadSize(d) = 0 /\ b % WriteSize(d) = 0
  /\ b >= LFS_MIN_BLOCK_SIZE
  /\ (d.disk \div b) % WORD # 0

Usable(d, c) == Supported(d, c) /\ UnitsOK(d) /\ BlockOK(d)

(* Faulty variant: the larger of the two sizes as the unit of the cache. *)
CacheSizeLarger(block, read, prog) ==
  LET unit == IF read > prog THEN read ELSE prog
      most == IF CACHE_SIZE > block THEN block ELSE CACHE_SIZE
  IN  (most \div unit) * unit

CacheSize(block, read, prog) ==
  LET unit == (read \div gcd[<<read, prog>>]) * prog
      most == IF CACHE_SIZE > block THEN block ELSE CACHE_SIZE
  IN  (most \div unit) * unit

BdlCfg(d) ==
  [read  |-> ReadSize(d), prog |-> WriteSize(d), block |-> BlockSize(d),
   count |-> (d.disk \div BlockSize(d)) % WORD,
   cache |-> CacheSize(BlockSize(d), ReadSize(d), WriteSize(d))]

CacheAssert(k) == k.cache = 0 \/ k.block % k.cache = 0

(* The configuration of a partition is the one of the build; littlefs      *)
(* takes the number of blocks from the superblock.                         *)
PartCfg == [read |-> READ_SIZE, prog |-> WRITE_SIZE, block |-> BLOCK_SIZE,
            count |-> 0, cache |-> CACHE_SIZE]

SdCfg(d) ==
  [read |-> d.read, prog |-> d.read, block |-> d.read, count |-> d.disk \div d.read,
   cache |-> IF CACHE_SIZE > d.read THEN CACHE_SIZE ELSE d.read]

-----------------------------------------------------------------------------
(* Registration: from nothing to a mounted volume                          *)

Init ==
  /\ stage = "none" /\ resume = "none" /\ cfg = NoCfg /\ io = NoIo
  /\ device \in Devices /\ conf \in Confs

Idle    == io = NoIo
GoTo(s) == Idle /\ stage' = s /\ UNCHANGED <<device, conf>>

Accept(k) ==
  /\ cfg' = k
  /\ GoTo(IF conf.mount THEN "mounting" ELSE "unmounted")
  /\ UNCHANGED <<resume, io>>

Configure ==
  /\ stage = "none"
  /\ \/ /\ device.kind = "blockdev"
        /\ Usable(device, conf)
        /\ BdlCfg(device).cache # 0 /\ CacheAssert(BdlCfg(device))
        /\ Accept(BdlCfg(device))
     \/ (device.kind = "partition" /\ Accept(PartCfg))
     \/ (device.kind = "sdcard" /\ Accept(SdCfg(device)))

(* A device the driver cannot use: esp_littlefs_init fails. *)
Refuse ==
  /\ stage = "none" /\ device.kind = "blockdev"
  /\ ~(Usable(device, conf) /\ BdlCfg(device).cache # 0)
  /\ GoTo("failed") /\ UNCHANGED <<resume, cfg, io>>

(* The context, its mutex or littlefs' own state does not fit the heap, or *)
(* a partition cannot be mapped.                                           *)
NoMemory ==
  /\ stage = "none"
  /\ GoTo("failed") /\ UNCHANGED <<resume, cfg, io>>

(* The assertion of esp_littlefs_bdl_pick_cache_size stops the program. *)
Abort ==
  /\ stage = "none" /\ device.kind = "blockdev"
  /\ Usable(device, conf)
  /\ ~CacheAssert(BdlCfg(device))
  /\ GoTo("aborted") /\ UNCHANGED <<resume, cfg, io>>

(* littlefs accepts the volume; esp_littlefs_init may then have it grown. *)
MountOk ==
  /\ stage = "mounting"
  /\ GoTo(IF conf.grow /\ resume # "remount" THEN "growing" ELSE "mounted")
  /\ resume' = "none" /\ UNCHANGED <<cfg, io>>

GrowOk   == stage = "growing" /\ GoTo("mounted") /\ UNCHANGED <<resume, cfg, io>>
GrowFails == stage = "growing" /\ GoTo("failed") /\ UNCHANGED <<resume, cfg, io>>

(* Formatting sets the number of blocks, and erases an SD card as a whole. *)
BeginFormat(after) ==
  /\ GoTo("formatting") /\ resume' = after
  /\ IF device.kind = "sdcard"
     THEN /\ io' = [NoIo EXCEPT !.op = "erase", !.size = device.disk, !.len = device.disk]
          /\ UNCHANGED cfg
     ELSE /\ cfg' = [cfg EXCEPT !.count = (device.disk \div cfg.block) % WORD]
          /\ UNCHANGED io

(* Faulty variant: the option of the caller is not looked at. *)
MountFailsAlwaysFormats ==
  /\ stage = "mounting"
  /\ \/ (resume = "none" /\ BeginFormat("init"))
     \/ /\ resume # "none"
        /\ GoTo(IF resume = "remount" THEN "unmounted" ELSE "failed")
        /\ resume' = "none" /\ UNCHANGED <<cfg, io>>

(* The first mount of a registration that fails may be followed by a       *)
(* format; the second is not.  A remount that fails leaves the volume      *)
(* registered and unmounted.                                               *)
MountFails ==
  /\ stage = "mounting"
  /\ \/ (resume = "none" /\ conf.format /\ BeginFormat("init"))
     \/ /\ resume # "none" \/ ~conf.format
        /\ GoTo(IF resume = "remount" THEN "unmounted" ELSE "failed")
        /\ resume' = "none" /\ UNCHANGED <<cfg, io>>

(* A call of esp_littlefs_format on the registered volume. *)
FormatVolume ==
  \/ (stage = "mounted"   /\ BeginFormat("remount"))
  \/ (stage = "unmounted" /\ BeginFormat("nothing"))

(* Faulty variant: the number of blocks stays. *)
FormattedCfgKeepsCount == cfg

FormattedCfg == IF device.kind = "partition" THEN [cfg EXCEPT !.count = 0] ELSE cfg

FormatOk ==
  /\ stage = "formatting"
  /\ cfg' = FormattedCfg
  /\ GoTo(IF resume = "nothing" THEN "unmounted" ELSE "mounting")
  /\ resume' = (IF resume = "nothing" THEN "none" ELSE resume)
  /\ UNCHANGED io

FormatFails ==
  /\ stage = "formatting"
  /\ cfg' = FormattedCfg
  /\ GoTo(IF resume = "init" THEN "failed" ELSE "unmounted")
  /\ resume' = "none" /\ UNCHANGED io

-----------------------------------------------------------------------------
(* Access: what littlefs may ask of its hooks                              *)

Blocks   == 0 .. (IF cfg.count = 0 THEN MAX_BLOCK ELSE cfg.count - 1)
Units(u) == {n \in 0 .. cfg.block : n % u = 0}

Running == Idle /\ stage \in {"mounting", "formatting", "growing", "mounted"}

(* Mounting writes nothing.  A mounted volume is written for the file      *)
(* calls and, though it be mounted read-only, for the parents that         *)
(* vfs_littlefs_open makes: only the hooks look at that flag.              *)
Writing == Idle /\ stage \in {"formatting", "growing", "mounted"}

ReadRequests  == {r \in Blocks \X Units(cfg.read) \X (Units(cfg.read) \ {0}) :
                    r[2] + r[3] <= cfg.block}
WriteRequests == {r \in Blocks \X Units(cfg.prog) \X (Units(cfg.prog) \ {0}) :
                    r[2] + r[3] <= cfg.block /\ r[3] <= cfg.cache}

(* Faulty variant: the address in 32 bits. *)
BdlAddrInWord(block, off) == (block * cfg.block + off) % WORD

BdlAddr(block, off)  == block * cfg.block + off
PartAddr(block, off) == (block * cfg.block + off) % WORD

OnDisk(addr, len) == device.disk # 0 => addr + len <= device.disk

(* Faulty variant: the volume's own flag is not tested. *)
BdlWritableDevice == ~device.readOnly

BdlWritable == ~conf.readOnly /\ ~device.readOnly

(* The access reaches the device, or the hook returns an error. *)
Pass(op, block, off, size, addr, len) ==
  io' = [op |-> op, block |-> block, off |-> off, size |-> size, addr |-> addr, len |-> len]

bdl_read(block, off, size) ==
  /\ device.kind = "blockdev"
  /\ (off + size) % WORD <= cfg.block
  /\ OnDisk(BdlAddr(block, off), size)
  /\ Pass("read", block, off, size, BdlAddr(block, off), size)

bdl_write(block, off, size) ==
  /\ device.kind = "blockdev"
  /\ "write" \in device.ops /\ BdlWritable
  /\ (off + size) % WORD <= cfg.block
  /\ OnDisk(BdlAddr(block, off), size)
  /\ Pass("write", block, off, size, BdlAddr(block, off), size)

bdl_erase(block) ==
  LET addr == BdlAddr(block, 0) IN
  /\ device.kind = "blockdev"
  /\ "erase" \in device.ops /\ BdlWritable
  /\ Classic(device) => /\ device.erase # 0
                        /\ addr % device.erase = 0 /\ cfg.block % device.erase = 0
  /\ OnDisk(addr, cfg.block)
  /\ Pass("erase", block, 0, cfg.block, addr, cfg.block)

MmapOK(addr, size) == addr <= device.disk /\ (addr + size) % WORD <= device.disk

part_read_mmap(block, off, size) ==
  LET addr == PartAddr(block, off) IN
  /\ device.kind = "partition"
  /\ MmapOK(addr, size)
  /\ Pass("read", block, off, size, addr, size)

(* esp_partition_write and esp_partition_erase_range test the range. *)
part_write(block, off, size) ==
  LET addr == PartAddr(block, off) IN
  /\ device.kind = "partition"
  /\ addr + size <= device.disk
  /\ Pass("write", block, off, size, addr, size)

part_erase(block) ==
  LET addr == PartAddr(block, 0) IN
  /\ device.kind = "partition"
  /\ addr + cfg.block <= device.disk
  /\ Pass("erase", block, 0, cfg.block, addr, cfg.block)

(* At most one whole sector, whatever the offset. *)
sdmmc_transfer(op, block, off, size, unit) ==
  LET sectors == IF size \div unit < 1 THEN size \div unit ELSE 1 IN
  /\ device.kind = "sdcard"
  /\ (block + sectors) * device.read <= device.disk
  /\ Pass(op, block, off, size, block * device.read, sectors * device.read)

sdmmc_erase(block) ==
  /\ device.kind = "sdcard"
  /\ Pass("erase", block, 0, cfg.block, block * device.read, device.read)

Read ==
  /\ Running
  /\ \E r \in ReadRequests :
       \/ bdl_read(r[1], r[2], r[3])
       \/ part_read_mmap(r[1], r[2], r[3])
       \/ sdmmc_transfer("read", r[1], r[2], r[3], cfg.read)
  /\ UNCHANGED <<device, conf, stage, resume, cfg>>

Write ==
  /\ Writing
  /\ \E r \in WriteRequests :
       \/ bdl_write(r[1], r[2], r[3])
       \/ part_write(r[1], r[2], r[3])
       \/ sdmmc_transfer("write", r[1], r[2], r[3], cfg.prog)
  /\ UNCHANGED <<device, conf, stage, resume, cfg>>

Erase ==
  /\ Writing
  /\ \E block \in Blocks :
       bdl_erase(block) \/ part_erase(block) \/ sdmmc_erase(block)
  /\ UNCHANGED <<device, conf, stage, resume, cfg>>

(* The hooks of partitions and SD cards have nothing to do. *)
Sync ==
  /\ Running
  /\ device.kind = "blockdev" /\ "sync" \in device.ops
  /\ Pass("sync", 0, 0, 0, 0, 0)
  /\ UNCHANGED <<device, conf, stage, resume, cfg>>

(* The device answers, and littlefs goes on. *)
Answer == ~Idle /\ io' = NoIo /\ UNCHANGED <<device, conf, stage, resume, cfg>>

Next ==
  \/ Configure \/ Refuse \/ NoMemory \/ Abort
  \/ MountOk \/ MountFails \/ GrowOk \/ GrowFails
  \/ FormatVolume \/ FormatOk \/ FormatFails
  \/ Read \/ Write \/ Erase \/ Sync \/ Answer

Spec == Init /\ [][Next]_vars

-----------------------------------------------------------------------------
(* Types; a format goes on with the mount of the registration only when    *)
(* the caller has asked for one, and with a remount only while registered. *)
TypeOK ==
  /\ device \in Devices /\ conf \in Confs
  /\ stage \in {"none", "mounting", "growing", "formatting", "mounted", "unmounted",
                "failed", "aborted"}
  /\ resume \in {"none", "init", "remount", "nothing"}
  /\ cfg \in [read : Sizes, prog : Sizes, block : Sizes, count : Sizes, cache : Sizes]
  /\ io \in [op : Ops \cup {"none"}, block : Sizes, off : Sizes, size : Nat,
            addr : Nat, len : Nat]
  /\ resume # "none" => stage \in {"formatting", "mounting"}
  /\ resume = "init" => conf.format /\ conf.mount

Configured == cfg # NoCfg

(* The geometry given to littlefs for a block device meets what littlefs   *)
(* asserts of it, lies on the device, and its cache fits the buffer that   *)
(* every file object carries (vfs_littlefs_file_t.lfs_buffer).             *)
AcceptedGeometry ==
  Configured /\ device.kind = "blockdev" =>
    /\ cfg.cache \in 1 .. CACHE_SIZE
    /\ cfg.cache % cfg.read = 0 /\ cfg.cache % cfg.prog = 0 /\ cfg.block % cfg.cache = 0
    /\ cfg.block >= LFS_MIN_BLOCK_SIZE
    /\ cfg.count \in 1 .. device.disk \div cfg.block

(* In logical mode the block of littlefs is the least common multiple of   *)
(* the read and program sizes, raised to the first multiple that meets the *)
(* minimum of littlefs (esp_littlefs.h, blockdev): no smaller size would   *)
(* do, whatever the recommended sizes and however large the product.       *)
LogicalBlockIsLeast ==
  Configured /\ device.kind = "blockdev" /\ ~Classic(device) =>
    \A n \in LFS_MIN_BLOCK_SIZE .. cfg.block :
      (n % cfg.read = 0 /\ n % cfg.prog = 0) <=> n = cfg.block

(* Every access that reaches a block device or a partition lies on it, and *)
(* one that reaches a block device consists of the device's own read,      *)
(* write or, in classic mode, erase units.                                 *)
AccessOnDevice ==
  /\ device.kind # "sdcard" => io.addr + io.len <= device.disk
  /\ device.kind = "blockdev" =>
       LET unit == CASE io.op = "read" -> device.read
                     [] io.op = "write" -> device.write
                     [] io.op = "erase" /\ Classic(device) -> device.erase
                     [] OTHER -> 1
       IN  io.addr % unit = 0 /\ io.len % unit = 0

(* Each access touches exactly the bytes littlefs asked for, also beyond   *)
(* 2^32 bytes on a block device and whole sectors on an SD card.           *)
AccessMatchesRequest ==
  io.addr = io.block * cfg.block + io.off /\ io.len = io.size

(* Nothing is written to a block device that is read-only or mounted       *)
(* read-only: not by a format after a failed mount, not by growing, and    *)
(* not by a format of the mounted volume.                                  *)
ReadOnlyNeverWritten ==
  device.kind = "blockdev" /\ (conf.readOnly \/ device.readOnly) => io.op \notin {"write", "erase"}

(* A partition is mounted with the number of blocks its superblock has, so *)
(* that an image smaller than the partition mounts and can grow; only a    *)
(* format sets the number, and it takes it back whatever its outcome.      *)
MountsDetectBlocks ==
  device.kind = "partition" /\ stage # "formatting" => cfg.count = 0
=============================================================================
