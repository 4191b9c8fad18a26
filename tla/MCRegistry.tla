----------------------------- MODULE MCRegistry -----------------------------
(* An instance of Registry: two tasks, three configurations of two         *)
(* devices, of which one is mounted later by hand (dont_mount), and a      *)
(* table of two slots.                                                     *)
EXTENDS Registry, TLC

CONSTANTS t1, t2, ca, cb, cc, da, db, x1, x2

MCTasks   == {t1, t2}
MCDevices == {da, db}
MCCtxs    == {x1, x2}
MCConfs   == {ca, cb, cc}
MCDevice  == (ca :> da) @@ (cb :> db) @@ (cc :> da)

(* What may run at the same time: on different devices a register with a   *)
(* register, a query or file calls, an unregister or a format with queries *)
(* and file calls; on one device registers (all but one will be refused)   *)
(* and file calls, and queries of a mounted volume with its file calls.    *)
OtherDevices ==
  {{"register"}, {"unregister"}, {"query"}, {"file"}}
    \cup {{op, use} : op \in {"register", "unregister", "format"}, use \in {"query", "file"}}
    \cup {{"file", "query"}}
SameDevice == {{"register"}, {"file"}, {"query"}, {"register", "file"}, {"query", "file"}}

(* The overlaps with which no walk meets a freed context: file calls with  *)
(* anything on another device, queries with queries, and registers as long *)
(* as the VFS layer refuses none.                                          *)
SerialOtherDevices ==
  {{"register"}, {"query"}, {"file"}}
    \cup {{op, "file"} : op \in {"register", "unregister", "format", "query"}}
SerialSameDevice == SameDevice

(* The callers take care as the proofs about Registry suppose.             *)
ASSUME InstanceTakesCare == CallersTakeCare
ASSUME InstanceSerialises == ~VfsRefuses => CallersSerialise
=============================================================================
