------------------------------ MODULE BlkTrans ------------------------------
(***************************************************************************)
(* The disks (ntd/aml_ntd_blkdevs.c).  blk-mq hands a request to           *)
(* ntd_queue_rq, which may not sleep: it lists the request and kicks an    *)
(* ordered workqueue.  The work item takes requests off the list and       *)
(* serves each one under dev->lock, the mutex that open and release of the *)
(* disk take as well.                                                      *)
(*                                                                         *)
(* One step is one critical section of queue_lock, one operation on        *)
(* dev->lock, or a piece of code between two of them.                      *)
(***************************************************************************)
EXTENDS Naturals, Sequences, FiniteSets

CONSTANTS
  Disks,        \* struct ntd_blktrans_dev
  Users,        \* processes that open and close a disk
  ReqOps,       \* the operations requested
  NoOne,        \* dev->lock is free
  MaxRequests   \* bound: requests per disk

ASSUME BlkAssumption ==
  /\ NoOne \notin Disks \cup Users
  /\ Disks \cap Users = {}
  /\ MaxRequests \in Nat

VARIABLES
  submitted,  \* submitted[d]: number of requests given to queue_rq so far
  rq_list,    \* dev->rq_list
  kicks,      \* kicks[d]: calls of queue_rq between list_add and queue_work
  work,       \* work[d]: the work item is pending
  worker,     \* worker[d]: where the work item is
  req,        \* req[d]: the request being served
  completed,  \* completed[d]: requests given back, with their status
  lock,       \* lock[d]: dev->lock, held by its worker (d), by a user, or free
  open,       \* dev->open
  ref,        \* dev->ref
  upc         \* upc[u]: where a user is, and on which disk

queueVars == <<submitted, rq_list, kicks, work>>
workVars == <<worker, req, completed>>
userVars == <<open, ref, upc>>
blkVars == <<queueVars, workVars, lock, userVars>>

Request(n, o) == [n |-> n, op |-> o]
NoReq == [n |-> 0]
At(u, l, d) == upc[u] = <<l, d>>
Move(u, l, d) == upc' = [upc EXCEPT ![u] = <<l, d>>]

BlkInit ==
  /\ submitted = [d \in Disks |-> 0]
  /\ rq_list = [d \in Disks |-> <<>>]
  /\ kicks = [d \in Disks |-> 0]
  /\ work = [d \in Disks |-> FALSE]
  /\ worker = [d \in Disks |-> "idle"]
  /\ req = [d \in Disks |-> NoReq]
  /\ completed = [d \in Disks |-> <<>>]
  /\ lock = [d \in Disks |-> NoOne]
  /\ open = [d \in Disks |-> 0]
  /\ ref = [d \in Disks |-> 1]
  /\ upc = [u \in Users |-> <<"away", NoOne>>]

-----------------------------------------------------------------------------
(* ntd_queue_rq                                                            *)

(* Mutant of QueueRq: list_add instead of list_add_tail.                   *)
QueueRqAtHead(d, o) ==
  /\ submitted[d] < MaxRequests
  /\ submitted' = [submitted EXCEPT ![d] = @ + 1]
  /\ rq_list' = [rq_list EXCEPT ![d] = <<Request(submitted'[d], o)>> \o @]
  /\ kicks' = [kicks EXCEPT ![d] = @ + 1]
  /\ UNCHANGED <<work, workVars, lock, userVars>>

QueueRq(d, o) ==
  /\ submitted[d] < MaxRequests
  /\ submitted' = [submitted EXCEPT ![d] = @ + 1]
  /\ rq_list' = [rq_list EXCEPT ![d] = Append(@, Request(submitted'[d], o))]
  /\ kicks' = [kicks EXCEPT ![d] = @ + 1]
  /\ UNCHANGED <<work, workVars, lock, userVars>>

(* Mutant of QueueWork: a running work item is not queued again.           *)
QueueWorkUnlessRunning(d) ==
  /\ kicks[d] > 0
  /\ kicks' = [kicks EXCEPT ![d] = @ - 1]
  /\ work' = [work EXCEPT ![d] = @ \/ worker[d] = "idle"]
  /\ UNCHANGED <<submitted, rq_list, workVars, lock, userVars>>

(* queue_work: no effect when the item is pending already; a running item  *)
(* will run again.                                                         *)
QueueWork(d) ==
  /\ kicks[d] > 0
  /\ kicks' = [kicks EXCEPT ![d] = @ - 1]
  /\ work' = [work EXCEPT ![d] = TRUE]
  /\ UNCHANGED <<submitted, rq_list, workVars, lock, userVars>>

-----------------------------------------------------------------------------
(* ntd_blktrans_work_fn, in the ordered workqueue                          *)

WorkStart(d) ==
  /\ worker[d] = "idle"
  /\ work[d]
  /\ work' = [work EXCEPT ![d] = FALSE]
  /\ worker' = [worker EXCEPT ![d] = "fetch"]
  /\ UNCHANGED <<submitted, rq_list, kicks, req, completed, lock, userVars>>

(* ntd_next_request under queue_lock; the loop ends on an empty list.      *)
NextRequest(d) ==
  /\ worker[d] = "fetch"
  /\ IF rq_list[d] = <<>>
     THEN /\ worker' = [worker EXCEPT ![d] = "return"]
          /\ UNCHANGED <<rq_list, req>>
     ELSE /\ req' = [req EXCEPT ![d] = Head(rq_list[d])]
          /\ rq_list' = [rq_list EXCEPT ![d] = Tail(@)]
          /\ worker' = [worker EXCEPT ![d] = "lock"]
  /\ UNCHANGED <<submitted, kicks, work, completed, lock, userVars>>

(* queue_lock is dropped and the work function returns.                    *)
WorkReturn(d) ==
  /\ worker[d] = "return"
  /\ worker' = [worker EXCEPT ![d] = "idle"]
  /\ UNCHANGED <<queueVars, req, completed, lock, userVars>>

LockDev(d) ==
  /\ worker[d] = "lock"
  /\ lock[d] = NoOne
  /\ lock' = [lock EXCEPT ![d] = d]
  /\ worker' = [worker EXCEPT ![d] = "serve"]
  /\ UNCHANGED <<queueVars, req, completed, userVars>>

(* do_blktrans_request returned: mutex_unlock.                             *)
Served(d, ok) ==
  /\ worker[d] = "serve"
  /\ lock' = [lock EXCEPT ![d] = NoOne]
  /\ worker' = [worker EXCEPT ![d] = "end"]
  /\ req' = [req EXCEPT ![d] = [n |-> @.n, op |-> @.op, ok |-> ok]]
  /\ UNCHANGED <<queueVars, completed, userVars>>

(* blk_mq_end_request, req = NULL.                                         *)
EndRequest(d) ==
  /\ worker[d] = "end"
  /\ completed' = [completed EXCEPT ![d] = Append(@, req[d])]
  /\ req' = [req EXCEPT ![d] = NoReq]
  /\ worker' = [worker EXCEPT ![d] = "fetch"]
  /\ UNCHANGED <<queueVars, lock, userVars>>

-----------------------------------------------------------------------------
(* blktrans_open and blktrans_release                                      *)

(* blktrans_dev_get                                                        *)
DevGet(u, d, from, to) ==
  /\ upc[u] = <<from, IF from = "away" THEN NoOne ELSE d>>
  /\ ref' = [ref EXCEPT ![d] = @ + 1]
  /\ Move(u, to, d)
  /\ UNCHANGED <<queueVars, workVars, lock, open>>

OpenDisk(u, d) == DevGet(u, d, "away", "open")
CloseDisk(u, d) == DevGet(u, d, "opened", "close")

(* The locked part of blktrans_open: the first open takes a reference that *)
(* stays.  tr->open succeeds.                                              *)
OpenLocked(u, d) ==
  /\ At(u, "open", d)
  /\ lock[d] = NoOne
  /\ open' = [open EXCEPT ![d] = @ + 1]
  /\ ref' = [ref EXCEPT ![d] = IF open[d] = 0 THEN @ + 1 ELSE @]
  /\ Move(u, "open_put", d)
  /\ UNCHANGED <<queueVars, workVars, lock>>

(* blktrans_release takes dev->lock; the last close drops the reference    *)
(* and goes on to tr->release with the lock held.                          *)
CloseLocked(u, d) ==
  /\ At(u, "close", d)
  /\ lock[d] = NoOne
  /\ lock' = [lock EXCEPT ![d] = u]
  /\ open' = [open EXCEPT ![d] = @ - 1]
  /\ ref' = [ref EXCEPT ![d] = IF open[d] = 1 THEN @ - 1 ELSE @]
  /\ Move(u, IF open[d] = 1 THEN "flush" ELSE "unlock", d)
  /\ UNCHANGED <<queueVars, workVars>>

(* tr->release returned.                                                   *)
Flushed(u, d) ==
  /\ At(u, "flush", d)
  /\ Move(u, "unlock", d)
  /\ UNCHANGED <<queueVars, workVars, lock, open, ref>>

CloseUnlock(u, d) ==
  /\ At(u, "unlock", d)
  /\ lock' = [lock EXCEPT ![d] = NoOne]
  /\ Move(u, "close_put", d)
  /\ UNCHANGED <<queueVars, workVars, open, ref>>

(* blktrans_dev_put                                                        *)
DevPut(u, d) ==
  /\ At(u, "open_put", d) \/ At(u, "close_put", d)
  /\ ref' = [ref EXCEPT ![d] = @ - 1]
  /\ upc' = [upc EXCEPT ![u] = IF upc[u][1] = "open_put"
                               THEN <<"opened", d>> ELSE <<"away", NoOne>>]
  /\ UNCHANGED <<queueVars, workVars, lock, open>>

-----------------------------------------------------------------------------
(* What goes on by itself, apart from the service of a request and the     *)
(* flush of the last close.                                                *)
DiskStep(d) ==
  \/ QueueWork(d) \/ WorkStart(d) \/ NextRequest(d) \/ WorkReturn(d)
  \/ LockDev(d) \/ EndRequest(d)

UserStep(u, d) ==
  \/ OpenLocked(u, d) \/ CloseLocked(u, d) \/ CloseUnlock(u, d) \/ DevPut(u, d)

UserCall(u, d) == OpenDisk(u, d) \/ CloseDisk(u, d)

BlkNext ==
  \/ \E d \in Disks :
       \/ \E o \in ReqOps : QueueRq(d, o)
       \/ DiskStep(d)
       \/ \E ok \in BOOLEAN : Served(d, ok)
  \/ \E u \in Users, d \in Disks :
       UserCall(u, d) \/ UserStep(u, d) \/ Flushed(u, d)

BlkSpec == BlkInit /\ [][BlkNext]_blkVars

(* The workqueue runs a pending item, a waiter of a mutex is served in     *)
(* turn, and a request and a flush come to an end (HolderReturns of        *)
(* Phydev).  Nothing says that requests arrive or that a disk is closed.   *)
BlkFairness ==
  /\ \A d \in Disks :
       /\ WF_blkVars(QueueWork(d))
       /\ WF_blkVars(\/ WorkStart(d) \/ NextRequest(d)
                     \/ WorkReturn(d) \/ EndRequest(d))
       /\ SF_blkVars(LockDev(d))
       /\ WF_blkVars(\E ok \in BOOLEAN : Served(d, ok))
  /\ \A u \in Users, d \in Disks :
       SF_blkVars(UserStep(u, d)) /\ WF_blkVars(Flushed(u, d))

BlkFairSpec == BlkSpec /\ BlkFairness

-----------------------------------------------------------------------------
(* Every variable of a disk, its worker and its users has its type;        *)
(* dev->lock is owned by the worker or by one of the users.                *)
BlkTypeOK ==
  /\ submitted \in [Disks -> 0..MaxRequests]
  /\ kicks \in [Disks -> 0..MaxRequests]
  /\ work \in [Disks -> BOOLEAN]
  /\ worker \in [Disks -> {"idle", "fetch", "lock", "serve", "end",
                        "return"}]
  /\ lock \in [Disks -> Disks \cup Users \cup {NoOne}]
  /\ open \in [Disks -> Nat]
  /\ ref \in [Disks -> Nat]

Serving(d) == worker[d] \in {"lock", "serve", "end"}

(* The requests of a disk that are not completed, in the order in which    *)
(* the worker will take them.                                              *)
Waiting(d) == (IF Serving(d) THEN <<req[d]>> ELSE <<>>) \o rq_list[d]

(* "the requests for one device have to reach it in order": what was       *)
(* completed and what waits are, in this order, all requests submitted, so *)
(* that none is lost, completed twice or overtaken.                        *)
InOrder ==
  \A d \in Disks :
    LET all == completed[d] \o Waiting(d)
    IN Len(all) = submitted[d] /\ \A i \in DOMAIN all : all[i].n = i

(* "Enqueue and get out": although the list and the work item are touched  *)
(* in two steps, a listed request is never left behind: the work item is   *)
(* pending, will look at the list again, or is about to be queued.         *)
NoStrandedRequest ==
  \A d \in Disks :
    rq_list[d] # <<>> =>
      work[d] \/ worker[d] \notin {"idle", "return"} \/ kicks[d] > 0

(* A request is served with dev->lock held, so never while the last close  *)
(* flushes.                                                                *)
ServedUnderLock ==
  /\ \A d \in Disks : worker[d] = "serve" => lock[d] = d
  /\ \A u \in Users, d \in Disks :
       At(u, "flush", d) \/ At(u, "unlock", d) => lock[d] = u

(* The reference counts balance: one for the disk, one while it is open,   *)
(* one for every call in progress.  The disk is not freed under a user.    *)
RefBalance ==
  \A d \in Disks :
    /\ open[d] = Cardinality({u \in Users :
                   \E l \in {"open_put", "opened", "close"} : At(u, l, d)})
    /\ ref[d] = 1 + (IF open[d] > 0 THEN 1 ELSE 0)
                  + Cardinality({u \in Users : upc[u][2] = d /\
                                               ~At(u, "opened", d)})

(* Every request submitted is completed.                                   *)
EveryRequestCompletes ==
  \A d \in Disks, n \in 1..MaxRequests :
    submitted[d] >= n ~> Len(completed[d]) >= n

(* A disk behaves as RequestQueue, where done is the number of the request *)
(* completed last.                                                         *)
LastDone(d) == IF completed[d] = <<>> THEN 0
               ELSE completed[d][Len(completed[d])].n
Queue == INSTANCE RequestQueue WITH done <- [d \in Disks |-> LastDone(d)]
ImplementsQueue == Queue!QueueSpec
=============================================================================
