--------------------------- MODULE RegularStore ----------------------------
(***************************************************************************)
(* What the metadata store promises: each item is a register with one      *)
(* writer.  Once a save begins the item is in doubt, until a save of it    *)
(* completes; then a boot loads what that save wrote.  Nothing else - no   *)
(* crash, no reboot, no save of another item - changes what a boot loads   *)
(* of an item that is not in doubt.  Of one that is, a boot may load       *)
(* nothing at all (0); but it never goes back to an older version, unless  *)
(* the flash itself failed in a save of the item.                          *)
(***************************************************************************)
EXTENDS Naturals

CONSTANT Items
VARIABLES installed,  \* installed[i]: the version a boot would load, or 0
          acked,      \* acked[i]: the last version reported as saved
          doubt,      \* the items a boot need not load as acknowledged
          faulted     \* those of them whose saves met a failing flash

(* What a boot loads after a step.                                         *)
Loads ==
  /\ \A i \in Items \ doubt' : installed'[i] = installed[i]
  /\ \A i \in doubt' \ faulted' :
       \/ installed'[i] = 0
       \/ installed'[i] >= installed[i] /\ installed'[i] >= acked[i]

Begin(i) ==
  /\ doubt' = doubt \cup {i}
  /\ Loads
  /\ UNCHANGED <<acked, faulted>>

(* Writes and crashes; a fault in a save of item i.                        *)
Work ==
  /\ Loads
  /\ UNCHANGED <<acked, doubt, faulted>>

Fail(i) ==
  /\ i \in doubt
  /\ faulted' = faulted \cup {i}
  /\ Loads
  /\ UNCHANGED <<acked, doubt>>

Complete(i) ==
  /\ doubt' = doubt \ {i}
  /\ faulted' = faulted \ {i}
  /\ acked' = [acked EXCEPT ![i] = installed[i]]
  /\ UNCHANGED installed

(* A save after a fault reports success all the same.                      *)
Claim(i) ==
  /\ i \in faulted
  /\ acked' = [acked EXCEPT ![i] = acked'[i]]
  /\ UNCHANGED <<installed, doubt, faulted>>

StoreInit ==
  /\ installed \in [Items -> Nat]
  /\ acked = installed
  /\ doubt = {}
  /\ faulted = {}

StoreNext ==
  \/ Work
  \/ \E i \in Items : Begin(i) \/ Fail(i) \/ Complete(i) \/ Claim(i)

StoreSpec == StoreInit /\ [][StoreNext]_<<installed, acked, doubt, faulted>>
=============================================================================
