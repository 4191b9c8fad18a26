----------------------------- MODULE MountSpec ------------------------------
(***************************************************************************)
(* What registration promises: a device is mounted under at most one path, *)
(* at most MAX volumes are mounted, and a volume stays mounted until it is *)
(* unregistered.  A request may always be refused (a stuttering step).     *)
(***************************************************************************)
EXTENDS Naturals, FiniteSets

CONSTANTS
  Confs,            (* configurations, each with its own base path          *)
  Device,           (* Device[c]: the device of a configuration             *)
  MAX               (* volumes that can be mounted                          *)

VARIABLE mounts     (* the configurations mounted                           *)

Init == mounts = {}

Register(c) ==
  /\ \A m \in mounts : Device[m] # Device[c]
  /\ Cardinality(mounts) < MAX
  /\ mounts' = mounts \cup {c}

Unregister(c) ==
  /\ c \in mounts
  /\ mounts' = mounts \ {c}

Next == \E c \in Confs : Register(c) \/ Unregister(c)

Spec == Init /\ [][Next]_mounts
=============================================================================
