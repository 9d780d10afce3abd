-------------------------- MODULE NftlBlockProofs --------------------------
(***************************************************************************)
(* Proofs about BlkTrans and NftlBlock, for any number of disks, users and *)
(* requests, with the write cache on or off.                               *)
(*                                                                         *)
(* QueueInv is about the queue of a disk alone, LockInv about dev->lock;   *)
(* both are invariants of BlkSpec.  Every step of NftlBlock is a step of   *)
(* BlkTrans, so they hold there too.  FtlLockInv is about aml_nftl_lock;   *)
(* KeptInv and NotifierInv follow a write from the FTL to its              *)
(* acknowledgement, and through the flush of the reboot notifier.          *)
(***************************************************************************)
EXTENDS NftlBlock, TLAPS

-----------------------------------------------------------------------------
(* The queue of a disk.                                                    *)


(* A request in the list, and one with its status.                         *)
Listed == [n : Nat, op : ReqOps]
Answered == [n : Nat, op : ReqOps, ok : BOOLEAN]

QueueTypeOK ==
  /\ submitted \in [Disks -> 0..MaxRequests]
  /\ rq_list \in [Disks -> Seq(Listed)]
  /\ kicks \in [Disks -> Nat]
  /\ work \in [Disks -> BOOLEAN]
  /\ worker \in [Disks -> {"idle", "fetch", "lock", "serve", "end", "return"}]
  /\ req \in [Disks -> Listed \cup Answered \cup {NoReq}]
  /\ completed \in [Disks -> Seq(Answered)]
  /\ \A d \in Disks :
       /\ worker[d] \in {"lock", "serve"} => req[d] \in Listed
       /\ worker[d] = "end" => req[d] \in Answered

(* Requests the worker has taken off the list.                             *)
Taken(d) == Len(completed[d]) + (IF Serving(d) THEN 1 ELSE 0)

(* The numbers of the completed, the served and the listed requests of d   *)
(* continue each other and end with the last number submitted.             *)
Numbered(d) ==
  /\ submitted[d] = Taken(d) + Len(rq_list[d])
  /\ \A i \in 1..Len(completed[d]) : completed[d][i].n = i
  /\ Serving(d) => req[d].n = Taken(d)
  /\ \A i \in 1..Len(rq_list[d]) : rq_list[d][i].n = Taken(d) + i

QueueInv ==
  /\ QueueTypeOK
  /\ \A d \in Disks : Numbered(d)
  /\ NoStrandedRequest

LEMMA QueueInvInit == BlkInit => QueueInv
<1> SUFFICES ASSUME BlkInit PROVE QueueInv
  OBVIOUS
<1>1. QueueTypeOK
  BY BlkAssumption DEF BlkInit, QueueTypeOK
<1>2. ASSUME NEW d \in Disks PROVE Numbered(d)
  <2>1. ~Serving(d) /\ completed[d] = <<>> /\ rq_list[d] = <<>> /\ submitted[d] = 0
    BY DEF BlkInit, Serving
  <2> QED
    BY <2>1 DEF Numbered, Taken
<1>3. NoStrandedRequest
  BY DEF BlkInit, NoStrandedRequest
<1> QED
  BY <1>1, <1>2, <1>3 DEF QueueInv

(* One step per action.  QueueRq appends the next number, NextRequest moves *)
(* the head of the list to the worker, EndRequest moves it on to the       *)
(* completed ones; the other actions leave the three alone.                *)
LEMMA QueueInvStep == QueueInv /\ [BlkNext]_blkVars => QueueInv'
<1> SUFFICES ASSUME QueueInv, [BlkNext]_blkVars PROVE QueueInv'
  OBVIOUS
<1> USE BlkAssumption DEF QueueInv, QueueTypeOK, Serving, queueVars, workVars
<1>1. ASSUME NEW d \in Disks, NEW o \in ReqOps, QueueRq(d, o) PROVE QueueInv'
  <2> DEFINE r == Request(submitted[d] + 1, o)
  <2>1. r \in Listed
    BY DEF Request, Listed
  <2>2. /\ submitted' = [submitted EXCEPT ![d] = @ + 1]
        /\ rq_list' = [rq_list EXCEPT ![d] = Append(@, r)]
        /\ kicks' = [kicks EXCEPT ![d] = @ + 1]
        /\ submitted[d] < MaxRequests
        /\ UNCHANGED <<work, worker, req, completed>>
    BY <1>1 DEF QueueRq
  <2> HIDE DEF r
  <2>3. QueueTypeOK'
    BY <2>1, <2>2
  <2>4. \A e \in Disks : Numbered(e)'
    <3>1. r.n = submitted[d] + 1
      BY DEF r, Request
    <3>2. ASSUME NEW e \in Disks, e # d PROVE Numbered(e)'
      BY <2>2, <3>2 DEF Numbered, Taken
    <3>3. /\ Len(rq_list'[d]) = Len(rq_list[d]) + 1
          /\ \A i \in 1..Len(rq_list[d]) : rq_list'[d][i] = rq_list[d][i]
          /\ rq_list'[d][Len(rq_list[d]) + 1] = r
      BY <2>1, <2>2
    <3>4. Taken(d)' = Taken(d) /\ Taken(d) \in Nat
      BY <2>2 DEF Taken
    <3>5. \A i \in 1..Len(rq_list'[d]) : rq_list'[d][i].n = Taken(d)' + i
      <4>1. r.n = Taken(d) + (Len(rq_list[d]) + 1)
        BY <3>1, <3>4 DEF Numbered
      <4>2. \A i \in 1..Len(rq_list[d]) : rq_list'[d][i].n = Taken(d) + i
        BY <3>3 DEF Numbered
      <4>3. Len(rq_list[d]) \in Nat
        OBVIOUS
      <4> QED
        BY <3>3, <3>4, <4>1, <4>2, <4>3
    <3>6. submitted'[d] = Taken(d)' + Len(rq_list'[d])
      BY <2>2, <3>3, <3>4 DEF Numbered
    <3>7. Numbered(d)'
      BY <2>2, <3>4, <3>5, <3>6 DEF Numbered
    <3> QED
      BY <3>2, <3>7
  <2>5. NoStrandedRequest'
    BY <2>2 DEF NoStrandedRequest
  <2> QED
    BY <2>3, <2>4, <2>5
<1>2. ASSUME NEW d \in Disks, QueueWork(d) PROVE QueueInv'
  BY <1>2 DEF QueueWork, Numbered, Taken, NoStrandedRequest
<1>3. ASSUME NEW d \in Disks, WorkStart(d) PROVE QueueInv'
  BY <1>3 DEF WorkStart, Numbered, Taken, NoStrandedRequest
<1>4. ASSUME NEW d \in Disks, NextRequest(d) PROVE QueueInv'
  <2>1. CASE rq_list[d] = <<>>
    BY <1>4, <2>1 DEF NextRequest, Numbered, Taken, NoStrandedRequest
  <2>2. CASE rq_list[d] # <<>>
    <3>1. /\ req' = [req EXCEPT ![d] = Head(rq_list[d])]
          /\ rq_list' = [rq_list EXCEPT ![d] = Tail(@)]
          /\ worker' = [worker EXCEPT ![d] = "lock"]
          /\ worker[d] = "fetch"
          /\ UNCHANGED <<submitted, kicks, work, completed>>
      BY <1>4, <2>2 DEF NextRequest
    <3>2. Head(rq_list[d]) = rq_list[d][1] /\ Head(rq_list[d]) \in Listed
      BY <2>2
    <3>3. /\ Tail(rq_list[d]) \in Seq(Listed)
          /\ Len(Tail(rq_list[d])) = Len(rq_list[d]) - 1
          /\ Len(rq_list[d]) \in Nat \ {0}
          /\ \A i \in 1..Len(rq_list[d]) - 1 : Tail(rq_list[d])[i] = rq_list[d][i + 1]
      BY <2>2
    <3>4. QueueTypeOK'
      BY <3>1, <3>2, <3>3
    <3>5. \A e \in Disks : Numbered(e)'
      <4>1. ASSUME NEW e \in Disks, e # d PROVE Numbered(e)'
        BY <3>1, <4>1 DEF Numbered, Taken
      <4>2. Taken(d)' = Taken(d) + 1 /\ Taken(d) \in Nat
        BY <3>1 DEF Taken
      <4>3. req'[d].n = Taken(d)'
        BY <3>1, <3>2, <3>3, <4>2 DEF Numbered
      <4>4. \A i \in 1..Len(rq_list'[d]) : rq_list'[d][i].n = Taken(d)' + i
        BY <3>1, <3>3, <4>2 DEF Numbered
      <4>5. submitted'[d] = Taken(d)' + Len(rq_list'[d])
        BY <3>1, <3>3, <4>2 DEF Numbered
      <4>6. Numbered(d)'
        BY <3>1, <4>3, <4>4, <4>5 DEF Numbered
      <4> QED
        BY <4>1, <4>6
    <3>6. NoStrandedRequest'
      BY <3>1, <3>3 DEF NoStrandedRequest
    <3> QED
      BY <3>4, <3>5, <3>6
  <2> QED
    BY <2>1, <2>2
<1>5. ASSUME NEW d \in Disks, WorkReturn(d) PROVE QueueInv'
  BY <1>5 DEF WorkReturn, Numbered, Taken, NoStrandedRequest
<1>6. ASSUME NEW d \in Disks, LockDev(d) PROVE QueueInv'
  BY <1>6 DEF LockDev, Numbered, Taken, NoStrandedRequest
<1>7. ASSUME NEW d \in Disks, NEW ok \in BOOLEAN, Served(d, ok) PROVE QueueInv'
  <2> DEFINE r == [n |-> req[d].n, op |-> req[d].op, ok |-> ok]
  <2>1. r \in Answered /\ r.n = req[d].n
    BY <1>7 DEF Served, Listed, Answered
  <2>2. /\ req' = [req EXCEPT ![d] = r]
        /\ worker' = [worker EXCEPT ![d] = "end"]
        /\ worker[d] = "serve"
        /\ UNCHANGED <<submitted, rq_list, kicks, work, completed>>
    BY <1>7 DEF Served
  <2> HIDE DEF r
  <2> QED
    BY <2>1, <2>2 DEF Numbered, Taken, NoStrandedRequest
<1>8. ASSUME NEW d \in Disks, EndRequest(d) PROVE QueueInv'
  <2>1. /\ completed' = [completed EXCEPT ![d] = Append(@, req[d])]
        /\ req' = [req EXCEPT ![d] = NoReq]
        /\ worker' = [worker EXCEPT ![d] = "fetch"]
        /\ worker[d] = "end"
        /\ UNCHANGED <<submitted, rq_list, kicks, work>>
    BY <1>8 DEF EndRequest
  <2>2. QueueTypeOK'
    BY <2>1
  <2>3. \A e \in Disks : Numbered(e)'
    <3>1. ASSUME NEW e \in Disks, e # d PROVE Numbered(e)'
      BY <2>1, <3>1 DEF Numbered, Taken
    <3>2. Taken(d)' = Taken(d) /\ Taken(d) = Len(completed[d]) + 1
      BY <2>1 DEF Taken
    <3>3. \A i \in 1..Len(completed'[d]) : completed'[d][i].n = i
      BY <2>1, <3>2 DEF Numbered
    <3>4. Numbered(d)'
      BY <2>1, <3>2, <3>3 DEF Numbered
    <3> QED
      BY <3>1, <3>4
  <2>4. NoStrandedRequest'
    BY <2>1 DEF NoStrandedRequest
  <2> QED
    BY <2>2, <2>3, <2>4
<1>9. CASE UNCHANGED <<queueVars, workVars>>
  BY <1>9 DEF Numbered, Taken, NoStrandedRequest
<1>10. ASSUME NEW u \in Users, NEW d \in Disks,
              UserCall(u, d) \/ UserStep(u, d) \/ Flushed(u, d)
       PROVE  UNCHANGED <<queueVars, workVars>>
  BY <1>10
  DEF UserCall, UserStep, OpenDisk, CloseDisk, DevGet, OpenLocked, CloseLocked,
      CloseUnlock, DevPut, Flushed
<1>11. CASE UNCHANGED blkVars
  BY <1>9, <1>11 DEF blkVars
<1> HIDE BlkAssumption DEF QueueInv, QueueTypeOK, Serving, queueVars, workVars
<1> QED
  BY <1>1, <1>2, <1>3, <1>4, <1>5, <1>6, <1>7, <1>8, <1>9, <1>10, <1>11
  DEF BlkNext, DiskStep

(* From the three numbered pieces to their concatenation.                  *)
LEMMA QueueInvGivesOrder == QueueInv => InOrder
<1> SUFFICES ASSUME QueueInv, NEW d \in Disks
             PROVE  LET all == completed[d] \o Waiting(d)
                    IN Len(all) = submitted[d] /\ \A i \in DOMAIN all : all[i].n = i
  BY DEF InOrder
<1> DEFINE c == completed[d]
           q == rq_list[d]
           s == IF Serving(d) THEN <<req[d]>> ELSE <<>>
           R == Listed \cup Answered \cup {NoReq}
<1>1. c \in Seq(R) /\ q \in Seq(R) /\ s \in Seq(R)
  <2>1. completed[d] \in Seq(Answered) /\ rq_list[d] \in Seq(Listed) /\ req[d] \in R
    BY DEF QueueInv, QueueTypeOK
  <2> HIDE DEF R
  <2>2. Seq(Answered) \subseteq Seq(R) /\ Seq(Listed) \subseteq Seq(R)
    <3>1. Answered \subseteq R /\ Listed \subseteq R
      BY DEF R
    <3> QED
      BY <3>1
  <2> QED
    BY <2>1, <2>2
<1>2. Len(s) = (IF Serving(d) THEN 1 ELSE 0) /\ Taken(d) = Len(c) + Len(s)
  BY DEF Taken
<1>3. /\ \A i \in 1..Len(c) : c[i].n = i
      /\ \A i \in 1..Len(s) : s[i].n = Len(c) + i
      /\ \A i \in 1..Len(q) : q[i].n = Len(c) + Len(s) + i
      /\ submitted[d] = Len(c) + Len(s) + Len(q)
  <2>1. \A i \in 1..Len(s) : i = 1 /\ s[i] = req[d] /\ Serving(d)
    BY <1>2
  <2>2. Numbered(d)
    BY DEF QueueInv
  <2>3. Len(c) \in Nat /\ Len(s) \in Nat
    BY <1>1
  <2> QED
    BY <1>2, <2>1, <2>2, <2>3 DEF Numbered
<1> HIDE DEF c, q, s, R
<1>4. /\ s \o q \in Seq(R)
      /\ Len(s \o q) = Len(s) + Len(q)
      /\ \A i \in 1..Len(s \o q) : (s \o q)[i] = IF i <= Len(s) THEN s[i] ELSE q[i - Len(s)]
  BY <1>1
<1>5. /\ c \o (s \o q) \in Seq(R)
      /\ Len(c \o (s \o q)) = Len(c) + Len(s \o q)
      /\ \A i \in 1..Len(c \o (s \o q)) :
           (c \o (s \o q))[i] = IF i <= Len(c) THEN c[i] ELSE (s \o q)[i - Len(c)]
  BY <1>1, <1>4
<1>6. \A i \in 1..Len(s \o q) : (s \o q)[i].n = Len(c) + i
  BY <1>1, <1>3, <1>4
<1>7. \A i \in 1..Len(c \o (s \o q)) : (c \o (s \o q))[i].n = i
  <2> SUFFICES ASSUME NEW i \in 1..Len(c \o (s \o q))
               PROVE  (c \o (s \o q))[i].n = i
    OBVIOUS
  <2>1. Len(c) \in Nat /\ Len(s \o q) \in Nat
    BY <1>1, <1>4
  <2>2. CASE i <= Len(c)
    <3>1. i \in 1..Len(c) /\ (c \o (s \o q))[i] = c[i]
      BY <1>5, <2>1, <2>2
    <3> QED
      BY <1>3, <3>1
  <2>3. CASE i > Len(c)
    <3>1. /\ i - Len(c) \in 1..Len(s \o q)
          /\ (c \o (s \o q))[i] = (s \o q)[i - Len(c)]
      BY <1>5, <2>1, <2>3
    <3>2. (s \o q)[i - Len(c)].n = Len(c) + (i - Len(c))
      BY <1>6, <3>1
    <3>3. Len(c) + (i - Len(c)) = i
      BY <2>1
    <3> QED
      BY <3>1, <3>2, <3>3
  <2> QED
    BY <2>1, <2>2, <2>3
<1>8. Len(c \o (s \o q)) = submitted[d]
  BY <1>1, <1>3, <1>4, <1>5
<1>9. DOMAIN (c \o (s \o q)) = 1..Len(c \o (s \o q))
  BY <1>5
<1> QED
  BY <1>7, <1>8, <1>9 DEF c, q, s, Waiting

(* ntd_queue_rq and ntd_blktrans_work_fn lose, repeat and reorder no       *)
(* request, for any number of disks and requests.                          *)
THEOREM RequestsInOrder == BlkSpec => []InOrder
  BY QueueInvInit, QueueInvStep, QueueInvGivesOrder, PTL DEF BlkSpec

(* No request stays in rq_list with nobody about to look at it, although   *)
(* ntd_queue_rq lists it and queues the work in two steps.                 *)
THEOREM RequestsNotStranded == BlkSpec => []NoStrandedRequest
<1>1. QueueInv => NoStrandedRequest
  BY DEF QueueInv
<1> QED
  BY QueueInvInit, QueueInvStep, <1>1, PTL DEF BlkSpec

(* The refinement mapping counts the completed requests.                   *)
LEMMA DoneIsCount ==
  ASSUME QueueInv, NEW d \in Disks
  PROVE  LastDone(d) = Len(completed[d])
  BY DEF QueueInv, QueueTypeOK, Numbered, LastDone

(* Queueing a request is a Submit, ending one a Complete, and every other  *)
(* step leaves the abstract queue alone.                                   *)
LEMMA QueueStep ==
  ASSUME QueueInv, QueueInv', [BlkNext]_blkVars
  PROVE  [Queue!QueueNext]_<<submitted, [d \in Disks |-> LastDone(d)]>>
<1>1. [d \in Disks |-> LastDone(d)] = [d \in Disks |-> Len(completed[d])]
  BY DoneIsCount
<1>2. [d \in Disks |-> LastDone(d)]' = [d \in Disks |-> Len(completed'[d])]
  <2>1. ASSUME NEW d \in Disks PROVE LastDone(d)' = Len(completed'[d])
    BY DEF QueueInv, QueueTypeOK, Numbered, LastDone
  <2> QED
    BY <2>1
<1>3. ASSUME NEW d \in Disks, NEW o \in ReqOps, QueueRq(d, o)
      PROVE  Queue!Submit(d)
  BY <1>1, <1>2, <1>3 DEF QueueRq, Queue!Submit, workVars
<1>4. ASSUME NEW d \in Disks, EndRequest(d) PROVE Queue!Complete(d)
  <2>1. /\ completed' = [completed EXCEPT ![d] = Append(@, req[d])]
        /\ worker[d] = "end"
        /\ UNCHANGED submitted
    BY <1>4 DEF EndRequest, queueVars
  <2>2. Len(completed'[d]) = Len(completed[d]) + 1
    BY <2>1 DEF QueueInv, QueueTypeOK
  <2>3. [e \in Disks |-> Len(completed'[e])]
           = [[e \in Disks |-> Len(completed[e])] EXCEPT ![d] = @ + 1]
    BY <2>1, <2>2 DEF QueueInv, QueueTypeOK
  <2>4. Len(completed[d]) < submitted[d]
    BY <2>1 DEF QueueInv, QueueTypeOK, Numbered, Taken, Serving
  <2> QED
    BY <1>1, <1>2, <2>1, <2>3, <2>4 DEF Queue!Complete
<1>5. CASE UNCHANGED <<submitted, completed>>
  BY <1>1, <1>2, <1>5
<1>6. ASSUME NEW d \in Disks,
             \/ QueueWork(d) \/ WorkStart(d) \/ NextRequest(d) \/ WorkReturn(d)
             \/ LockDev(d) \/ \E ok \in BOOLEAN : Served(d, ok)
      PROVE  UNCHANGED <<submitted, completed>>
  BY <1>6 DEF QueueWork, WorkStart, NextRequest, WorkReturn, LockDev, Served,
              queueVars, workVars
<1>7. ASSUME NEW u \in Users, NEW d \in Disks,
             UserCall(u, d) \/ UserStep(u, d) \/ Flushed(u, d)
      PROVE  UNCHANGED <<submitted, completed>>
  BY <1>7
  DEF UserCall, UserStep, OpenDisk, CloseDisk, DevGet, OpenLocked, CloseLocked,
      CloseUnlock, DevPut, Flushed, queueVars, workVars
<1>8. CASE UNCHANGED blkVars
  BY <1>5, <1>8 DEF blkVars, queueVars, workVars
<1> QED
  BY <1>3, <1>4, <1>5, <1>6, <1>7, <1>8 DEF BlkNext, DiskStep, Queue!QueueNext

(* A disk of ntd_blkdevs.c implements RequestQueue: "the requests for one  *)
(* device have to reach it in order".                                      *)
THEOREM DiskIsAQueue == BlkSpec => ImplementsQueue
<1>1. BlkInit => Queue!QueueInit
  BY DEF BlkInit, Queue!QueueInit, LastDone
<1> QED
  BY QueueInvInit, QueueInvStep, QueueStep, <1>1, PTL
  DEF BlkSpec, ImplementsQueue, Queue!QueueSpec

-----------------------------------------------------------------------------
(* dev->lock                                                               *)

UserLocs == {"away", "open", "open_put", "opened", "close", "flush", "unlock",
             "close_put"}

LockInv ==
  /\ worker \in [Disks -> {"idle", "fetch", "lock", "serve", "end", "return"}]
  /\ lock \in [Disks -> Disks \cup Users \cup {NoOne}]
  /\ upc \in [Users -> UserLocs \X (Disks \cup {NoOne})]
  /\ ServedUnderLock

LEMMA LockInvInit == BlkInit => LockInv
  BY BlkAssumption DEF BlkInit, LockInv, UserLocs, ServedUnderLock, At

(* dev->lock is taken only when it is free and given back by its owner;    *)
(* disks and users are different things.                                   *)
LEMMA LockInvStep == LockInv /\ [BlkNext]_blkVars => LockInv'
<1> SUFFICES ASSUME LockInv, [BlkNext]_blkVars PROVE LockInv'
  OBVIOUS
<1> USE BlkAssumption
    DEF LockInv, ServedUnderLock, UserLocs, At, Move, queueVars, workVars, userVars
<1>1. ASSUME NEW d \in Disks, NEW o \in ReqOps, QueueRq(d, o) PROVE LockInv'
  BY <1>1 DEF QueueRq
<1>2. ASSUME NEW d \in Disks, QueueWork(d) \/ WorkStart(d) \/ NextRequest(d)
                               \/ WorkReturn(d) \/ EndRequest(d)
      PROVE  LockInv'
  BY <1>2 DEF QueueWork, WorkStart, NextRequest, WorkReturn, EndRequest
<1>3. ASSUME NEW d \in Disks, LockDev(d) PROVE LockInv'
  BY <1>3 DEF LockDev
<1>4. ASSUME NEW d \in Disks, NEW ok \in BOOLEAN, Served(d, ok) PROVE LockInv'
  BY <1>4 DEF Served
<1>5. ASSUME NEW u \in Users, NEW d \in Disks, UserCall(u, d) PROVE LockInv'
  BY <1>5 DEF UserCall, OpenDisk, CloseDisk, DevGet
<1>6. ASSUME NEW u \in Users, NEW d \in Disks, OpenLocked(u, d) PROVE LockInv'
  BY <1>6 DEF OpenLocked
<1>7. ASSUME NEW u \in Users, NEW d \in Disks, CloseLocked(u, d) PROVE LockInv'
  BY <1>7 DEF CloseLocked
<1>8. ASSUME NEW u \in Users, NEW d \in Disks, CloseUnlock(u, d) PROVE LockInv'
  BY <1>8 DEF CloseUnlock
<1>9. ASSUME NEW u \in Users, NEW d \in Disks, DevPut(u, d) PROVE LockInv'
  BY <1>9 DEF DevPut
<1>10. ASSUME NEW u \in Users, NEW d \in Disks, Flushed(u, d) PROVE LockInv'
  BY <1>10 DEF Flushed
<1>11. CASE UNCHANGED blkVars
  BY <1>11 DEF blkVars
<1> HIDE BlkAssumption
    DEF LockInv, ServedUnderLock, UserLocs, At, Move, queueVars, workVars, userVars
<1> QED
  BY <1>1, <1>2, <1>3, <1>4, <1>5, <1>6, <1>7, <1>8, <1>9, <1>10, <1>11
  DEF BlkNext, DiskStep, UserStep

(* blktrans_release flushes and do_blktrans_request serves under dev->lock, *)
(* so the flush of the last close never overlaps a request.                *)
THEOREM FlushExcludesService == BlkSpec => []ServedUnderLock
<1>1. LockInv => ServedUnderLock
  BY DEF LockInv
<1> QED
  BY LockInvInit, LockInvStep, <1>1, PTL DEF BlkSpec

-----------------------------------------------------------------------------
(* NftlBlock is an implementation of BlkTrans.                             *)

(* Each action of NftlBlock is an action of BlkTrans, or leaves its        *)
(* variables alone.                                                        *)
LEMMA NftlStepIsBlkStep == [NftlNext]_vars => [BlkNext]_blkVars
<1> SUFFICES ASSUME [NftlNext]_vars PROVE [BlkNext]_blkVars
  OBVIOUS
<1>1. ASSUME NEW d \in Disks, Serve(d) \/ RefuseRequest(d) PROVE [BlkNext]_blkVars
  <2>1. (\E ok \in BOOLEAN : Served(d, ok)) \/ UNCHANGED blkVars
    BY <1>1 DEF Serve, RefuseRequest, SkipRequest, AcceptRequest, LockFtl, DoRequest
  <2> QED
    BY <2>1 DEF BlkNext
<1>2. ASSUME NEW d \in Disks, DiskStep(d) \/ \E o \in ReqOps : QueueRq(d, o)
      PROVE  BlkNext
  BY <1>2 DEF BlkNext
<1>3. ASSUME NEW u \in Users, NEW d \in Disks,
             ReleaseLock(u, d) \/ ReleaseFlush(u, d)
      PROVE  [BlkNext]_blkVars
  BY <1>3 DEF ReleaseLock, ReleaseFlush, BlkNext
<1>4. ASSUME NEW u \in Users, NEW d \in Disks, UserCall(u, d) \/ UserStep(u, d)
      PROVE  BlkNext
  BY <1>4 DEF BlkNext
<1>5. ASSUME ThreadStep \/ NotifierCall \/ NotifierStep PROVE UNCHANGED blkVars
  BY <1>5
  DEF ThreadStep, ThreadTest, ThreadLock, ThreadWork, ThreadWake, NotifierCall,
      NotifierStep, NotifierLock, NotifierFlush, NotifierStop, NotifierJoin,
      NotifierPair, NotifierFlag
<1>6. CASE UNCHANGED vars
  BY <1>6 DEF vars
<1> QED
  BY <1>1, <1>2, <1>3, <1>4, <1>5, <1>6 DEF NftlNext

(* do_nftltrans_request, the flush of the last close, the thread and the   *)
(* notifier keep to what BlkTrans says of the service of a request.        *)
THEOREM NftlImplementsBlk == NftlSpec => BlkSpec
<1>1. NftlInit => BlkInit
  BY DEF NftlInit
<1> QED
  BY <1>1, NftlStepIsBlkStep, PTL DEF NftlSpec, BlkSpec

(* So what holds of every disk holds of the disks of an NFTL partition.    *)
COROLLARY NftlDisksInOrder ==
  NftlSpec => [](InOrder /\ NoStrandedRequest /\ ServedUnderLock)
  BY NftlImplementsBlk, RequestsInOrder, RequestsNotStranded,
     FlushExcludesService, PTL

-----------------------------------------------------------------------------
(* aml_nftl_lock                                                           *)

(* Whoever owns aml_nftl_lock is at a place from which it gives it back:   *)
(* it is never owned by someone who waits, sleeps or is gone.              *)
OwnerIsInside ==
  /\ \A d \in Disks : aml_nftl_lock = d => stage[d] = "io"
  /\ \A u \in Users : aml_nftl_lock = u => \E d \in Disks : At(u, "flush", d)
  /\ aml_nftl_lock = Thread => tpc = "work"
  /\ aml_nftl_lock = Notifier => npc \in {"flush", "pair"}

FtlLockInv ==
  /\ aml_nftl_lock \in Disks \cup Users \cup {Thread, Notifier, NoOne}
  /\ stage \in [Disks -> {"check", "wait", "io"}]
  /\ upc \in [Users -> UserLocs \X (Disks \cup {NoOne})]
  /\ worker \in [Disks -> {"idle", "fetch", "lock", "serve", "end", "return"}]
  /\ \A d \in Disks : stage[d] # "check" => worker[d] = "serve"
  /\ OneInFtl
  /\ OwnerIsInside

LEMMA FtlLockInvInit == NftlInit => FtlLockInv
  BY BlkAssumption, NftlAssumption
  DEF NftlInit, BlkInit, FtlLockInv, OneInFtl, OwnerIsInside, UserLocs

(* One step per action: a taker finds the lock free, so nobody is inside;  *)
(* a giver is the owner, so nobody else is.                                *)
LEMMA FtlLockInvStep == FtlLockInv /\ [NftlNext]_vars => FtlLockInv'
<1> SUFFICES ASSUME FtlLockInv, [NftlNext]_vars PROVE FtlLockInv'
  OBVIOUS
<1> USE BlkAssumption, NftlAssumption
    DEF FtlLockInv, OneInFtl, OwnerIsInside, UserLocs, At, Move, Take, Give,
        queueVars, workVars, userVars, nftlVars, rebootVars, blkVars
<1>1. ASSUME NEW d \in Disks, SkipRequest(d) \/ RefuseRequest(d) PROVE FtlLockInv'
  BY <1>1 DEF SkipRequest, RefuseRequest, Served
<1>2. ASSUME NEW d \in Disks, AcceptRequest(d) PROVE FtlLockInv'
  BY <1>2 DEF AcceptRequest
<1>3. ASSUME NEW d \in Disks, LockFtl(d) PROVE FtlLockInv'
  BY <1>3 DEF LockFtl
<1>4. ASSUME NEW d \in Disks, DoRequest(d) PROVE FtlLockInv'
  <2>1. /\ aml_nftl_lock = d /\ aml_nftl_lock' = NoOne
        /\ stage[d] = "io"
        /\ stage' = [stage EXCEPT ![d] = "check"]
        /\ worker' = [worker EXCEPT ![d] = "end"]
        /\ UNCHANGED <<upc, tpc, npc>>
    BY <1>4 DEF DoRequest, Served
  <2> QED
    BY <2>1
<1>5. ASSUME NEW d \in Disks, DiskStep(d), UNCHANGED nftlVars PROVE FtlLockInv'
  <2>1. /\ UNCHANGED <<upc, nftlVars>>
        /\ \/ UNCHANGED worker
           \/ \E l \in {"idle", "fetch", "lock", "serve", "return"} :
                worker' = [worker EXCEPT ![d] = l] /\ worker[d] # "serve"
    BY <1>5
    DEF DiskStep, QueueWork, WorkStart, NextRequest, WorkReturn, LockDev,
        EndRequest
  <2> QED
    BY <2>1
<1>6. ASSUME NEW d \in Disks, NEW o \in ReqOps, QueueRq(d, o), UNCHANGED nftlVars
      PROVE  FtlLockInv'
  BY <1>6 DEF QueueRq
<1>7. ASSUME NEW u \in Users, NEW d \in Disks, ReleaseLock(u, d) PROVE FtlLockInv'
  BY <1>7 DEF ReleaseLock
<1>8. ASSUME NEW u \in Users, NEW d \in Disks, ReleaseFlush(u, d) PROVE FtlLockInv'
  BY <1>8 DEF ReleaseFlush, Flushed
<1>9. ASSUME NEW u \in Users, NEW d \in Disks, UserCall(u, d) \/ UserStep(u, d),
             UNCHANGED nftlVars
      PROVE  FtlLockInv'
  <2>1. /\ upc' \in [Users -> UserLocs \X (Disks \cup {NoOne})]
        /\ \A v \in Users, e \in Disks : At(v, "flush", e) => At(v, "flush", e)'
        /\ UNCHANGED <<worker, nftlVars>>
    BY <1>9
    DEF UserCall, OpenDisk, CloseDisk, DevGet, UserStep, OpenLocked, CloseLocked,
        CloseUnlock, DevPut
  <2> QED
    BY <2>1
<1>10. ASSUME ThreadStep PROVE FtlLockInv'
  BY <1>10 DEF ThreadStep, ThreadTest, ThreadLock, ThreadWork, ThreadWake
<1>11. ASSUME NotifierCall PROVE FtlLockInv'
  BY <1>11 DEF NotifierCall
<1>12. ASSUME NotifierStep PROVE FtlLockInv'
  BY <1>12 DEF NotifierStep, NotifierLock, NotifierFlush, NotifierStop,
               NotifierJoin, NotifierPair, NotifierFlag
<1>13. CASE UNCHANGED vars
  BY <1>13 DEF vars
<1> HIDE BlkAssumption, NftlAssumption
    DEF FtlLockInv, OneInFtl, OwnerIsInside, UserLocs, At, Move, Take, Give,
        queueVars, workVars, userVars, nftlVars, rebootVars, blkVars
<1> QED
  BY <1>1, <1>2, <1>3, <1>4, <1>5, <1>6, <1>7, <1>8, <1>9, <1>10, <1>11, <1>12,
     <1>13
  DEF NftlNext, Serve

(* Workers, closing users, aml_nftl_thread and the reboot notifier use the *)
(* FTL one at a time.                                                      *)
THEOREM FtlIsExclusive == NftlSpec => []OneInFtl
<1>1. FtlLockInv => OneInFtl
  BY DEF FtlLockInv
<1> QED
  BY FtlLockInvInit, FtlLockInvStep, <1>1, PTL DEF NftlSpec

(* In particular the notifier waits for the thread (kthread_stop) without  *)
(* the lock, and the thread sleeps and ends without it: neither can keep   *)
(* the other from ending.                                                  *)
THEOREM FtlLockIsReturnable == NftlSpec => []OwnerIsInside
<1>1. FtlLockInv => OwnerIsInside
  BY DEF FtlLockInv
<1> QED
  BY FtlLockInvInit, FtlLockInvStep, <1>1, PTL DEF NftlSpec

-----------------------------------------------------------------------------
(* Writes                                                                  *)

Stored == cache \cup flash

(* A write that is acknowledged, or about to be, is stored.                *)
KeptInv ==
  /\ reboot_flag \in BOOLEAN
  /\ ~reboot_flag =>
       /\ Acked \subseteq Stored
       /\ \A d \in Disks :
            worker[d] = "end" /\ req[d].op = "write" /\ req[d].ok =>
              <<d, req[d].n>> \in Stored

(* The notifier runs to its end once, in the first call; up to its flush   *)
(* the early writes are stored, from then on they are on the flash unless  *)
(* the flush failed.                                                       *)
NotifierInv ==
  /\ npc \in {"idle", "lock_flush", "flush", "stop", "join", "lock_pair",
              "pair", "flag"}
  /\ calls \in Nat
  /\ npc = "idle" => (reboot_flag <=> calls > 0)
  /\ npc # "idle" => ~reboot_flag /\ calls > 0
  /\ npc \in {"lock_flush", "flush"} => early \subseteq Stored
  /\ npc \in {"stop", "join", "lock_pair", "pair", "flag"} \/ reboot_flag =>
       error \/ early \subseteq flash

(* No step loses a write: what is stored stays stored, and what is on the  *)
(* flash stays there.                                                      *)
LEMMA StoredGrows ==
  ASSUME [NftlNext]_vars
  PROVE  Stored \subseteq Stored' /\ flash \subseteq flash'
<1> USE DEF Stored, ftlVars, nftlVars, rebootVars
<1>1. ASSUME NEW d \in Disks, Serve(d) \/ RefuseRequest(d)
      PROVE  Stored \subseteq Stored' /\ flash \subseteq flash'
  BY <1>1 DEF Serve, RefuseRequest, SkipRequest, AcceptRequest, LockFtl, DoRequest
<1>2. ASSUME NEW u \in Users, NEW d \in Disks,
             ReleaseLock(u, d) \/ ReleaseFlush(u, d)
      PROVE  Stored \subseteq Stored' /\ flash \subseteq flash'
  BY <1>2 DEF ReleaseLock, ReleaseFlush, Flush, FlushFails
<1>3. ASSUME ThreadStep \/ NotifierCall \/ NotifierStep
      PROVE  Stored \subseteq Stored' /\ flash \subseteq flash'
  BY <1>3
  DEF ThreadStep, ThreadTest, ThreadLock, ThreadWork, ThreadWake, NotifierCall,
      NotifierStep, NotifierLock, NotifierFlush, NotifierStop, NotifierJoin,
      NotifierPair, NotifierFlag, Flush, FlushFails
<1>4. CASE UNCHANGED nftlVars \/ UNCHANGED vars
  BY <1>4 DEF vars
<1> HIDE DEF Stored, ftlVars, nftlVars, rebootVars
<1> QED
  BY <1>1, <1>2, <1>3, <1>4 DEF NftlNext

(* A step that completes no request and brings no worker to the end of one *)
(* disturbs nothing that was acknowledged.                                 *)
LEMMA KeptUnlessAnswered ==
  ASSUME KeptInv, [NftlNext]_vars, UNCHANGED completed,
         reboot_flag' \in BOOLEAN, reboot_flag => reboot_flag',
         \A d \in Disks : worker'[d] = "end" => worker[d] = "end" /\ req'[d] = req[d]
  PROVE  KeptInv'
<1>1. Acked' = Acked
  BY DEF Acked
<1> QED
  BY <1>1, StoredGrows DEF KeptInv

(* DoRequest stores what it acknowledges, EndRequest acknowledges what it  *)
(* ends, and SkipRequest, which acknowledges without storing, needs        *)
(* reboot_flag.                                                            *)
LEMMA KeptInvStep ==
  QueueInv /\ KeptInv /\ [NftlNext]_vars => KeptInv'
<1> SUFFICES ASSUME QueueInv, KeptInv, [NftlNext]_vars PROVE KeptInv'
  OBVIOUS
<1>1. worker \in [Disks -> {"idle", "fetch", "lock", "serve", "end", "return"}]
  BY DEF QueueInv, QueueTypeOK
<1>2. ASSUME NEW d \in Disks, SkipRequest(d) PROVE KeptInv'
  BY <1>2 DEF SkipRequest, KeptInv, nftlVars, rebootVars
<1>3. ASSUME NEW d \in Disks, RefuseRequest(d) PROVE KeptInv'
  <2>1. Acked' = Acked /\ Stored' = Stored /\ reboot_flag' = reboot_flag
    BY <1>3 DEF RefuseRequest, Served, Acked, Stored, nftlVars, ftlVars, rebootVars
  <2>2. /\ worker' = [worker EXCEPT ![d] = "end"]
        /\ req' = [req EXCEPT ![d] = [n |-> @.n, op |-> @.op, ok |-> FALSE]]
    BY <1>3 DEF RefuseRequest, Served
  <2>3. \A e \in Disks : worker'[e] = "end" /\ req'[e].op = "write" /\ req'[e].ok =>
                        worker[e] = "end" /\ req'[e] = req[e]
    BY <1>1, <2>2 DEF QueueInv, QueueTypeOK
  <2> QED
    BY <2>1, <2>3 DEF KeptInv
<1>4. ASSUME NEW d \in Disks, AcceptRequest(d) \/ LockFtl(d) PROVE KeptInv'
  <2>1. UNCHANGED <<worker, req, completed, reboot_flag>>
    BY <1>4 DEF AcceptRequest, LockFtl, blkVars, workVars, rebootVars
  <2> QED
    BY <2>1, KeptUnlessAnswered DEF KeptInv
<1>5. ASSUME NEW d \in Disks, DoRequest(d) PROVE KeptInv'
  <2>1. /\ UNCHANGED <<completed, reboot_flag>>
        /\ worker' = [worker EXCEPT ![d] = "end"]
    BY <1>5 DEF DoRequest, Served, rebootVars
  <2>2. Acked' = Acked
    BY <2>1 DEF Acked
  <2>3. PICK ok \in BOOLEAN :
          /\ req' = [req EXCEPT ![d] = [n |-> @.n, op |-> @.op, ok |-> ok]]
          /\ ok /\ req[d].op = "write" => <<d, req[d].n>> \in Stored'
    BY <1>5 DEF DoRequest, Served, Stored, ftlVars
  <2>4. ASSUME NEW e \in Disks, worker'[e] = "end", req'[e].op = "write", req'[e].ok,
               ~reboot_flag
        PROVE  <<e, req'[e].n>> \in Stored'
    <3>1. CASE e = d
      <4>1. req'[d] = [n |-> req[d].n, op |-> req[d].op, ok |-> ok]
        BY <2>3 DEF QueueInv, QueueTypeOK
      <4> QED
        BY <2>3, <2>4, <3>1, <4>1
    <3>2. CASE e # d
      <4>1. worker[e] = "end" /\ req'[e] = req[e]
        BY <1>1, <2>1, <2>3, <2>4, <3>2 DEF QueueInv, QueueTypeOK
      <4> QED
        BY <2>4, <4>1, StoredGrows DEF KeptInv
    <3> QED
      BY <3>1, <3>2
  <2> QED
    BY <2>1, <2>2, <2>4, StoredGrows DEF KeptInv
<1>6. ASSUME NEW d \in Disks, EndRequest(d), UNCHANGED nftlVars PROVE KeptInv'
  <2>1. /\ worker[d] = "end"
        /\ completed' = [completed EXCEPT ![d] = Append(@, req[d])]
        /\ req' = [req EXCEPT ![d] = NoReq]
        /\ worker' = [worker EXCEPT ![d] = "fetch"]
        /\ Stored' = Stored /\ reboot_flag' = reboot_flag
    BY <1>6 DEF EndRequest, Stored, nftlVars, ftlVars, rebootVars
  <2>2. ASSUME NEW w \in Acked', ~reboot_flag PROVE w \in Stored
    <3>1. PICK i \in DOMAIN completed'[w[1]] :
            LET r == completed'[w[1]][i]
            IN r.n = w[2] /\ r.op = "write" /\ r.ok
      BY <2>2 DEF Acked
    <3>2. w \in Disks \X (1..MaxRequests)
      BY <2>2 DEF Acked
    <3>3. CASE w[1] = d /\ i = Len(completed[d]) + 1
      <4>1. completed'[w[1]][i] = req[d]
        BY <2>1, <3>3 DEF QueueInv, QueueTypeOK
      <4> QED
        BY <2>1, <2>2, <3>1, <3>2, <3>3, <4>1 DEF KeptInv
    <3>4. CASE ~(w[1] = d /\ i = Len(completed[d]) + 1)
      <4>1. i \in DOMAIN completed[w[1]] /\ completed'[w[1]][i] = completed[w[1]][i]
        BY <2>1, <3>1, <3>2, <3>4 DEF QueueInv, QueueTypeOK
      <4>2. w \in Acked
        BY <3>1, <3>2, <4>1 DEF Acked
      <4> QED
        BY <2>2, <4>2 DEF KeptInv
    <3> QED
      BY <3>3, <3>4
  <2>3. \A e \in Disks : worker'[e] = "end" => worker[e] = "end" /\ req'[e] = req[e]
    BY <1>1, <2>1 DEF QueueInv, QueueTypeOK
  <2> QED
    BY <2>1, <2>2, <2>3 DEF KeptInv
<1>7. ASSUME NEW d \in Disks,
             \/ QueueWork(d) \/ WorkStart(d) \/ NextRequest(d) \/ WorkReturn(d)
             \/ LockDev(d) \/ \E o \in ReqOps : QueueRq(d, o),
             UNCHANGED nftlVars
      PROVE  KeptInv'
  <2>1. UNCHANGED completed
    BY <1>7 DEF QueueWork, WorkStart, NextRequest, WorkReturn, LockDev, QueueRq,
                workVars
  <2>2. \A e \in Disks : worker'[e] = "end" => worker[e] = "end" /\ req'[e] = req[e]
    BY <1>1, <1>7 DEF QueueWork, WorkStart, NextRequest, WorkReturn, LockDev, QueueRq,
                      workVars, QueueInv, QueueTypeOK
  <2> QED
    BY <1>7, <2>1, <2>2, KeptUnlessAnswered DEF KeptInv, nftlVars, rebootVars
<1>8. ASSUME NEW u \in Users, NEW d \in Disks,
             \/ ReleaseLock(u, d) \/ ReleaseFlush(u, d)
             \/ (UserCall(u, d) \/ UserStep(u, d)) /\ UNCHANGED nftlVars
      PROVE  KeptInv'
  <2>1. UNCHANGED <<worker, req, completed, reboot_flag>>
    BY <1>8
    DEF ReleaseLock, ReleaseFlush, Flushed, UserCall, OpenDisk, CloseDisk, DevGet,
        UserStep, OpenLocked, CloseLocked, CloseUnlock, DevPut, blkVars, workVars,
        nftlVars, rebootVars
  <2> QED
    BY <2>1, KeptUnlessAnswered DEF KeptInv
<1>9. ASSUME ThreadStep \/ NotifierCall \/ NotifierStep PROVE KeptInv'
  <2>1. /\ UNCHANGED <<worker, req, completed>>
        /\ reboot_flag' \in {reboot_flag, TRUE}
    BY <1>9
    DEF ThreadStep, ThreadTest, ThreadLock, ThreadWork, ThreadWake, NotifierCall,
        NotifierStep, NotifierLock, NotifierFlush, NotifierStop, NotifierJoin,
        NotifierPair, NotifierFlag, blkVars, workVars
  <2> QED
    BY <2>1, KeptUnlessAnswered DEF KeptInv
<1>10. CASE UNCHANGED vars
  BY <1>10, KeptUnlessAnswered
  DEF vars, blkVars, workVars, nftlVars, rebootVars, KeptInv
<1> QED
  BY <1>2, <1>3, <1>4, <1>5, <1>6, <1>7, <1>8, <1>9, <1>10
  DEF NftlNext, Serve, DiskStep

(* NotifierFlush moves everything stored to the flash.                     *)
LEMMA NotifierInvStep ==
  QueueInv /\ KeptInv /\ NotifierInv /\ [NftlNext]_vars => NotifierInv'
<1> SUFFICES ASSUME KeptInv, NotifierInv, [NftlNext]_vars PROVE NotifierInv'
  OBVIOUS
<1>1. CASE UNCHANGED <<npc, calls, reboot_flag, early, error>>
  BY <1>1, StoredGrows DEF NotifierInv
<1>2. ASSUME NotifierCall PROVE NotifierInv'
  <2>1. Stored' = Stored /\ flash' = flash
    BY <1>2 DEF NotifierCall, Stored, ftlVars
  <2> QED
    BY <1>2, <2>1 DEF NotifierCall, NotifierInv, KeptInv
<1>3. ASSUME NotifierFlush PROVE NotifierInv'
  <2>1. error' \/ flash' = Stored
    BY <1>3 DEF NotifierFlush, Flush, Stored
  <2> QED
    BY <1>3, <2>1 DEF NotifierFlush, NotifierInv
<1>4. ASSUME NotifierLock PROVE NotifierInv'
  BY <1>4, StoredGrows DEF NotifierLock, NotifierInv
<1>5. ASSUME NotifierStop \/ NotifierJoin \/ NotifierPair \/ NotifierFlag
      PROVE  NotifierInv'
  BY <1>5, StoredGrows
  DEF NotifierStop, NotifierJoin, NotifierPair, NotifierFlag, NotifierInv
<1>6. ASSUME NEW d \in Disks, Serve(d) \/ RefuseRequest(d)
      PROVE  UNCHANGED <<npc, calls, reboot_flag, early, error>>
  BY <1>6 DEF Serve, RefuseRequest, SkipRequest, AcceptRequest, LockFtl, DoRequest,
              nftlVars, rebootVars
<1>7. ASSUME NEW u \in Users, NEW d \in Disks,
             ReleaseLock(u, d) \/ ReleaseFlush(u, d)
      PROVE  UNCHANGED <<npc, calls, reboot_flag, early, error>>
  BY <1>7 DEF ReleaseLock, ReleaseFlush, rebootVars
<1>8. ASSUME ThreadStep
      PROVE  UNCHANGED <<npc, calls, reboot_flag, early, error>>
  BY <1>8 DEF ThreadStep, ThreadTest, ThreadLock, ThreadWork, ThreadWake
<1>9. CASE UNCHANGED nftlVars \/ UNCHANGED vars
  BY <1>1, <1>9 DEF nftlVars, rebootVars, vars
<1> QED
  BY <1>1, <1>2, <1>3, <1>4, <1>5, <1>6, <1>7, <1>8, <1>9
  DEF NftlNext, NotifierStep

LEMMA DataInvHolds == NftlSpec => [](QueueInv /\ KeptInv /\ NotifierInv)
<1>1. ASSUME NftlInit PROVE BlkInit /\ KeptInv /\ NotifierInv
  <2>1. \A d \in Disks : completed[d] = <<>> /\ worker[d] = "idle"
    BY <1>1 DEF NftlInit, BlkInit
  <2>2. DOMAIN <<>> = {}
    OBVIOUS
  <2>3. Acked = {}
    BY <2>1, <2>2 DEF Acked
  <2>4. KeptInv
    BY <1>1, <2>1, <2>3 DEF NftlInit, KeptInv
  <2>5. NotifierInv
    BY <1>1 DEF NftlInit, NotifierInv
  <2> QED
    BY <1>1, <2>4, <2>5 DEF NftlInit
<1> QED
  BY <1>1, QueueInvInit, QueueInvStep, NftlStepIsBlkStep, KeptInvStep,
     NotifierInvStep, PTL
  DEF NftlSpec

(* do_nftltrans_request acknowledges no write before reboot_flag that is   *)
(* neither in the write cache nor on the flash.                            *)
THEOREM NoForgottenWrite == NftlSpec => []AckedIsKept
<1>1. KeptInv => AckedIsKept
  BY DEF KeptInv, AckedIsKept, Stored
<1> QED
  BY DataInvHolds, <1>1, PTL

(* aml_nftl_reboot_notifier leaves on the flash every write acknowledged   *)
(* before it was called, whichever earlier flushes failed, unless its own  *)
(* flush fails, which its result reports.                                  *)
THEOREM RebootKeepsEarlyWrites == NftlSpec => []EarlyWritesSurvive
<1>1. NotifierInv => EarlyWritesSurvive
  BY DEF NotifierInv, EarlyWritesSurvive
<1> QED
  BY DataInvHolds, <1>1, PTL
=============================================================================
