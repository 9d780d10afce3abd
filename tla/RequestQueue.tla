---------------------------- MODULE RequestQueue ----------------------------
(***************************************************************************)
(* What the block layer above is promised of a disk: "the requests for one *)
(* device have to reach it in order".  Requests are numbered as they are   *)
(* submitted; each is completed once, and before every later one.          *)
(***************************************************************************)
EXTENDS Naturals

CONSTANT Disks
VARIABLES submitted,  \* submitted[d]: requests handed to disk d
          done        \* done[d]: requests of d completed

Submit(d) ==
  /\ submitted' = [submitted EXCEPT ![d] = @ + 1]
  /\ UNCHANGED done

Complete(d) ==
  /\ done[d] < submitted[d]
  /\ done' = [done EXCEPT ![d] = @ + 1]
  /\ UNCHANGED submitted

QueueInit == submitted = [d \in Disks |-> 0] /\ done = [d \in Disks |-> 0]

QueueNext == \E d \in Disks : Submit(d) \/ Complete(d)

QueueSpec == QueueInit /\ [][QueueNext]_<<submitted, done>>
=============================================================================
