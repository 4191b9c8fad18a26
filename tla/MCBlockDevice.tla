--------------------------- MODULE MCBlockDevice ---------------------------
(* Instances of BlockDevice, with sizes scaled down: a file buffer of four *)
(* units, a littlefs minimum of three, which is not a multiple of every    *)
(* unit, a word of sixteen, and devices of up to 24, beyond the word.      *)
EXTENDS BlockDevice

AllOps == {"read", "write", "erase", "sync"}

Geometries ==
  [kind : {"blockdev"}, read : {0, 1, 2, 4}, write : {0, 1, 3, 5}, erase : {0, 4, 6},
   disk : {0, 13, 24}, recRead : {0, 2, 3}, recWrite : {0, 2}, recErase : {0, 8},
   readOnly : {FALSE}, encrypted : {FALSE}, eraseFirst : BOOLEAN, andWrite : {FALSE},
   ones : {TRUE}, ops : {AllOps}]

Flags ==
  [kind : {"blockdev"}, read : {1}, write : {2}, erase : {4}, disk : {13, 24},
   recRead : {0}, recWrite : {0}, recErase : {0},
   readOnly : BOOLEAN, encrypted : BOOLEAN, eraseFirst : BOOLEAN, andWrite : BOOLEAN,
   ones : BOOLEAN, ops : SUBSET AllOps]

Plain(kind, read, disk) ==
  [kind |-> kind, read |-> read, write |-> read, erase |-> read, disk |-> disk,
   recRead |-> 0, recWrite |-> 0, recErase |-> 0, readOnly |-> FALSE, encrypted |-> FALSE,
   eraseFirst |-> FALSE, andWrite |-> FALSE, ones |-> TRUE, ops |-> AllOps]

Partitions == {Plain("partition", 1, n) : n \in {4, 8, 10}}

MCDevices == Geometries \cup Flags \cup Partitions \cup {Plain("sdcard", 4, 20)}
MCConfs   == {[readOnly |-> FALSE, format |-> TRUE,  grow |-> FALSE, mount |-> TRUE],
              [readOnly |-> TRUE,  format |-> TRUE,  grow |-> TRUE,  mount |-> TRUE],
              [readOnly |-> FALSE, format |-> FALSE, grow |-> TRUE,  mount |-> TRUE],
              [readOnly |-> FALSE, format |-> FALSE, grow |-> FALSE, mount |-> FALSE]}
=============================================================================
