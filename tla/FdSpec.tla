------------------------------- MODULE FdSpec -------------------------------
(***************************************************************************)
(* What the descriptor table promises its only client, the VFS layer,      *)
(* without array, list or counter: an open handle owns a descriptor that   *)
(* no other handle has, keeps it until it is closed, and the file under it *)
(* cannot be unlinked or renamed away.  Requests may always be refused (no *)
(* memory, an I/O error, a busy file), which is a stuttering step here.    *)
(***************************************************************************)
CONSTANTS
  Handles,          (* descriptors of the VFS layer                         *)
  Fds,              (* descriptors of the driver                            *)
  Paths,            (* path strings                                         *)
  Closed            (* the value of a handle that is not open               *)

VARIABLES
  handle,           (* handle[g] is Closed or [fd, path]                    *)
  lost,             (* descriptors whose close failed                       *)
  names             (* files that exist                                     *)

vars == <<handle, lost, names>>

Opened == {g \in Handles : handle[g] # Closed}
InUse  == {handle[g].fd : g \in Opened}

Init == /\ handle = [g \in Handles |-> Closed]
        /\ lost = {}
        /\ names \in SUBSET Paths

Open(g, p) ==
  /\ g \notin Opened
  /\ \E fd \in Fds \ (InUse \cup lost) :
       handle' = [handle EXCEPT ![g] = [fd |-> fd, path |-> p]]
  /\ names' = names \cup {p}
  /\ UNCHANGED lost

(* An open that fails after littlefs has created the name.                 *)
OpenFails(p) ==
  /\ names' = names \cup {p}
  /\ UNCHANGED <<handle, lost>>

Close(g) ==
  /\ g \in Opened
  /\ handle' = [handle EXCEPT ![g] = Closed]
  /\ UNCHANGED <<lost, names>>

(* A close that fails: the handle is gone and its descriptor is lost.      *)
CloseFails(g) ==
  /\ g \in Opened
  /\ handle' = [handle EXCEPT ![g] = Closed]
  /\ lost' = lost \cup {handle[g].fd}
  /\ UNCHANGED names

Unlink(p) ==
  /\ \A g \in Opened : handle[g].path # p
  /\ names' = names \ {p}
  /\ UNCHANGED <<handle, lost>>

Rename(p, q) ==
  /\ p \in names
  /\ \A g \in Opened : handle[g].path \notin {p, q}
  /\ names' = (names \ {p}) \cup {q}
  /\ UNCHANGED <<handle, lost>>

(* A format, or a failed one, of a volume with no file open.               *)
Format ==
  /\ Opened = {}
  /\ lost' = {}
  /\ names' \in {names, {}}
  /\ UNCHANGED handle

Next ==
  \/ \E g \in Handles, p \in Paths : Open(g, p)
  \/ \E p \in Paths : OpenFails(p) \/ Unlink(p)
  \/ \E g \in Handles : Close(g) \/ CloseFails(g)
  \/ \E p, q \in Paths : Rename(p, q)
  \/ Format

Spec == Init /\ [][Next]_vars
=============================================================================
