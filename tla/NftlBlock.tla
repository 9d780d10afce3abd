------------------------------ MODULE NftlBlock ------------------------------
(***************************************************************************)
(* The disks of one NFTL partition (block/aml_nftl_block.c): BlkTrans with *)
(* do_nftltrans_request as the service of a request, the flush of the last *)
(* close, the background thread aml_nftl_thread, and the reboot notifier.  *)
(* They share the mutex aml_nftl_lock, under which alone the FTL is used.  *)
(*                                                                         *)
(* The FTL itself is a binary object.  What matters of it here is where an *)
(* accepted write is: in the write cache, or on the flash.                 *)
(***************************************************************************)
EXTENDS BlkTrans

CONSTANTS
  Thread, Notifier,   \* the other two users of aml_nftl_lock
  UseCache,           \* amlnf_use_cache
  MaxCalls            \* bound: calls of the reboot notifier

ASSUME NftlAssumption ==
  /\ Thread # Notifier
  /\ {Thread, Notifier} \cap (Disks \cup Users \cup {NoOne}) = {}
  /\ UseCache \in BOOLEAN
  /\ MaxCalls \in Nat

VARIABLES
  aml_nftl_lock,   \* its owner, or NoOne
  stage,           \* stage[d]: where the worker is in do_nftltrans_request
  cache,           \* writes in the write cache, as <<disk, number>>
  flash,           \* writes on the flash
  reboot_flag,     \* nftl_dev->reboot_flag
  tpc,             \* where aml_nftl_thread is; "gone": nftl_thread is NULL
  should_stop,     \* kthread_stop was called
  npc,             \* where the reboot notifier is
  calls,           \* calls of the notifier so far
  early,           \* history: writes acknowledged before the notifier ran
  error            \* flush_write_cache failed in the notifier, which ORs it
                   \* into its result

ftlVars == <<cache, flash>>
rebootVars == <<reboot_flag, tpc, should_stop, npc, calls, early, error>>
nftlVars == <<aml_nftl_lock, stage, ftlVars, rebootVars>>
vars == <<blkVars, nftlVars>>

NftlInit ==
  /\ BlkInit
  /\ aml_nftl_lock = NoOne
  /\ stage = [d \in Disks |-> "check"]
  /\ cache = {}
  /\ flash = {}
  /\ reboot_flag = FALSE
  /\ tpc = "test"
  /\ should_stop = FALSE
  /\ npc = "idle"
  /\ calls = 0
  /\ early = {}
  /\ error = FALSE

(* Writes reported as successful.                                          *)
Acked == {w \in Disks \X (1..MaxRequests) :
            \E i \in DOMAIN completed[w[1]] :
              LET r == completed[w[1]][i]
              IN r.n = w[2] /\ r.op = "write" /\ r.ok}

Take(a) == aml_nftl_lock = NoOne /\ aml_nftl_lock' = a
Give(a) == aml_nftl_lock = a /\ aml_nftl_lock' = NoOne

(* flush_write_cache without an error, and with one: part of the cache may *)
(* have been written, the rest is still in it.                             *)
Flush == flash' = flash \cup cache /\ cache' = {}
FlushFails == \E s \in SUBSET cache : flash' = flash \cup s /\ cache' = cache \ s

-----------------------------------------------------------------------------
(* do_nftltrans_request                                                    *)

(* After reboot_flag every request succeeds at once and does nothing.      *)
SkipRequest(d) ==
  /\ stage[d] = "check"
  /\ reboot_flag
  /\ Served(d, TRUE)
  /\ UNCHANGED nftlVars

(* The request reaches beyond the disk.                                    *)
RefuseRequest(d) ==
  /\ stage[d] = "check"
  /\ ~reboot_flag
  /\ Served(d, FALSE)
  /\ UNCHANGED nftlVars

(* Otherwise it waits for aml_nftl_lock.                                   *)
AcceptRequest(d) ==
  /\ worker[d] = "serve"
  /\ stage[d] = "check"
  /\ ~reboot_flag
  /\ stage' = [stage EXCEPT ![d] = "wait"]
  /\ UNCHANGED <<blkVars, aml_nftl_lock, ftlVars, rebootVars>>

(* Mutant of LockFtl: aml_nftl_lock is not waited for.                     *)
LockFtlAtOnce(d) ==
  /\ stage[d] = "wait"
  /\ aml_nftl_lock' = d
  /\ stage' = [stage EXCEPT ![d] = "io"]
  /\ UNCHANGED <<blkVars, ftlVars, rebootVars>>

LockFtl(d) ==
  /\ stage[d] = "wait"
  /\ Take(d)
  /\ stage' = [stage EXCEPT ![d] = "io"]
  /\ UNCHANGED <<blkVars, ftlVars, rebootVars>>

(* Mutant of DoRequest: the result of the FTL is not looked at.            *)
DoRequestIgnoresErrors(d) ==
  /\ stage[d] = "io"
  /\ Give(d)
  /\ stage' = [stage EXCEPT ![d] = "check"]
  /\ Served(d, TRUE)
  /\ UNCHANGED <<ftlVars, rebootVars>>

(* read_data, write_data or discard_data, and mutex_unlock.  A write goes  *)
(* to the cache or, with the cache off or full, to the flash.  Any of them *)
(* may fail; a discard never reports it.                                   *)
DoRequest(d) ==
  LET w == <<d, req[d].n>> IN
  /\ stage[d] = "io"
  /\ Give(d)
  /\ stage' = [stage EXCEPT ![d] = "check"]
  /\ \/ /\ req[d].op = "write"
        /\ \/ UseCache /\ cache' = cache \cup {w} /\ UNCHANGED flash
           \/ flash' = flash \cup {w} /\ UNCHANGED cache
        /\ Served(d, TRUE)
     \/ /\ req[d].op # "write"
        /\ UNCHANGED ftlVars
        /\ Served(d, TRUE)
     \/ /\ req[d].op # "discard"
        /\ UNCHANGED ftlVars
        /\ Served(d, FALSE)
  /\ UNCHANGED rebootVars

(* aml_nftl_release: the flush of the last close, with dev->lock held;     *)
(* blktrans_release drops its result.                                      *)
ReleaseLock(u, d) ==
  /\ At(u, "flush", d)
  /\ Take(u)
  /\ UNCHANGED <<blkVars, stage, ftlVars, rebootVars>>

ReleaseFlush(u, d) ==
  /\ Give(u)
  /\ Flush \/ FlushFails
  /\ Flushed(u, d)
  /\ UNCHANGED <<stage, rebootVars>>

-----------------------------------------------------------------------------
(* aml_nftl_thread                                                         *)

ThreadTest ==
  /\ tpc = "test"
  /\ tpc' = IF should_stop THEN "gone" ELSE "lock"
  /\ UNCHANGED <<blkVars, aml_nftl_lock, stage, ftlVars, reboot_flag,
                 should_stop, npc, calls, early, error>>

ThreadLock ==
  /\ tpc = "lock"
  /\ Take(Thread)
  /\ tpc' = "work"
  /\ UNCHANGED <<blkVars, stage, ftlVars, reboot_flag, should_stop, npc,
                 calls, early, error>>

(* Flush if the cache is old enough, errors ignored; wear levelling and    *)
(* garbage collection move data but lose none.  Then sleep.                *)
ThreadWork ==
  /\ tpc = "work"
  /\ Give(Thread)
  /\ Flush \/ FlushFails \/ UNCHANGED ftlVars
  /\ tpc' = "sleep"
  /\ UNCHANGED <<blkVars, stage, reboot_flag, should_stop, npc, calls, early,
                 error>>

(* schedule_timeout ends, by the timer or by kthread_stop.                 *)
ThreadWake ==
  /\ tpc = "sleep"
  /\ tpc' = "test"
  /\ UNCHANGED <<blkVars, aml_nftl_lock, stage, ftlVars, reboot_flag,
                 should_stop, npc, calls, early, error>>

ThreadStep == ThreadTest \/ ThreadLock \/ ThreadWork \/ ThreadWake

-----------------------------------------------------------------------------
(* aml_nftl_reboot_notifier                                                *)

(* It returns at once when reboot_flag is set.                             *)
NotifierCall ==
  /\ npc = "idle"
  /\ calls < MaxCalls
  /\ calls' = calls + 1
  /\ npc' = IF reboot_flag THEN "idle" ELSE "lock_flush"
  /\ early' = IF calls = 0 THEN Acked ELSE early
  /\ UNCHANGED <<blkVars, aml_nftl_lock, stage, ftlVars, reboot_flag, tpc,
                 should_stop, error>>

NotifierLock ==
  /\ npc \in {"lock_flush", "lock_pair"}
  /\ Take(Notifier)
  /\ npc' = IF npc = "lock_flush" THEN "flush" ELSE "pair"
  /\ UNCHANGED <<blkVars, stage, ftlVars, reboot_flag, tpc, should_stop,
                 calls, early, error>>

(* Mutant of NotifierFlush: flush_write_cache is forgotten.                *)
NotifierFlushForgotten ==
  /\ npc = "flush"
  /\ Give(Notifier)
  /\ npc' = "stop"
  /\ UNCHANGED <<blkVars, stage, ftlVars, reboot_flag, tpc, should_stop,
                 calls, early, error>>

(* Mutant of NotifierFlush: aml_nftl_lock is kept over kthread_stop.       *)
NotifierFlushKeepsLock ==
  /\ npc = "flush"
  /\ Flush
  /\ npc' = "stop"
  /\ UNCHANGED <<blkVars, aml_nftl_lock, stage, reboot_flag, tpc, should_stop,
                 calls, early, error>>

(* Write and discard cache are flushed; either may fail, and the notifier  *)
(* goes on all the same.                                                   *)
NotifierFlush ==
  /\ npc = "flush"
  /\ Give(Notifier)
  /\ error' \in BOOLEAN
  /\ IF error' THEN FlushFails ELSE Flush
  /\ npc' = "stop"
  /\ UNCHANGED <<blkVars, stage, reboot_flag, tpc, should_stop, calls, early>>

(* kthread_stop, unless the thread is gone; it waits for the thread.       *)
NotifierStop ==
  /\ npc = "stop"
  /\ should_stop' = TRUE
  /\ npc' = "join"
  /\ UNCHANGED <<blkVars, aml_nftl_lock, stage, ftlVars, reboot_flag, tpc,
                 calls, early, error>>

NotifierJoin ==
  /\ npc = "join"
  /\ tpc = "gone"
  /\ npc' = "lock_pair"
  /\ UNCHANGED <<blkVars, aml_nftl_lock, stage, ftlVars, reboot_flag, tpc,
                 should_stop, calls, early, error>>

(* write_pair_page, which changes nothing that matters here.  (Errors of   *)
(* it and of the discard cache only reach the notifier's result, which is  *)
(* in Startup.)                                                            *)
NotifierPair ==
  /\ npc = "pair"
  /\ Give(Notifier)
  /\ npc' = "flag"
  /\ UNCHANGED <<blkVars, stage, ftlVars, reboot_flag, tpc, should_stop,
                 calls, early, error>>

(* reboot_flag = 1, after the unlock.                                      *)
NotifierFlag ==
  /\ npc = "flag"
  /\ reboot_flag' = TRUE
  /\ npc' = "idle"
  /\ UNCHANGED <<blkVars, aml_nftl_lock, stage, ftlVars, tpc, should_stop,
                 calls, early, error>>

NotifierStep ==
  \/ NotifierLock \/ NotifierFlush \/ NotifierStop \/ NotifierJoin
  \/ NotifierPair \/ NotifierFlag

-----------------------------------------------------------------------------
WorkerStep(d) == WorkStart(d) \/ NextRequest(d) \/ WorkReturn(d) \/ LockDev(d) \/ EndRequest(d)
Serve(d) == SkipRequest(d) \/ AcceptRequest(d) \/ LockFtl(d) \/ DoRequest(d)

NftlNext ==
  \/ \E d \in Disks :
       \/ Serve(d) \/ RefuseRequest(d)
       \/ /\ DiskStep(d) \/ \E o \in ReqOps : QueueRq(d, o)
          /\ UNCHANGED nftlVars
  \/ \E u \in Users, d \in Disks :
       \/ ReleaseLock(u, d) \/ ReleaseFlush(u, d)
       \/ (UserCall(u, d) \/ UserStep(u, d)) /\ UNCHANGED nftlVars
  \/ ThreadStep
  \/ NotifierCall \/ NotifierStep

NftlSpec == NftlInit /\ [][NftlNext]_vars

(* Queued work is run and whoever is inside the FTL comes out of it;       *)
(* workers, users that open or close, the thread and the notifier run,     *)
(* and the mutexes are granted to them in turn.                            *)
NftlFairness ==
  /\ \A d \in Disks :
       /\ WF_vars(QueueWork(d) /\ UNCHANGED nftlVars)
       /\ SF_vars(Serve(d) \/ (WorkerStep(d) /\ UNCHANGED nftlVars))
  /\ \A u \in Users, d \in Disks :
       SF_vars(\/ ReleaseLock(u, d) \/ ReleaseFlush(u, d)
               \/ UserStep(u, d) /\ UNCHANGED nftlVars)
  /\ SF_vars(ThreadStep)
  /\ SF_vars(NotifierStep)

NftlFairSpec == NftlSpec /\ NftlFairness

-----------------------------------------------------------------------------
(* The state has its types, and a request is only inside the FTL while its *)
(* disk's worker is serving it.                                            *)
NftlTypeOK ==
  /\ aml_nftl_lock \in Disks \cup Users \cup {Thread, Notifier, NoOne}
  /\ stage \in [Disks -> {"check", "wait", "io"}]
  /\ \A d \in Disks : stage[d] # "check" => worker[d] = "serve"
  /\ cache \cup flash \subseteq Disks \X (1..MaxRequests)
  /\ reboot_flag \in BOOLEAN
  /\ tpc \in {"test", "lock", "work", "sleep", "gone"}
  /\ error \in BOOLEAN
  /\ npc \in {"idle", "lock_flush", "flush", "stop", "join", "lock_pair",
              "pair", "flag"}

(* The FTL, which is single threaded, is used by one thread at a time:     *)
(* whoever is inside holds aml_nftl_lock.                                  *)
OneInFtl ==
  /\ \A d \in Disks : stage[d] = "io" => aml_nftl_lock = d
  /\ tpc = "work" => aml_nftl_lock = Thread
  /\ npc \in {"flush", "pair"} => aml_nftl_lock = Notifier

(* A write that was acknowledged before the reboot notifier was called is  *)
(* on the flash when the notifier is done, whoever cached it, whatever     *)
(* else was going on and whichever flush before failed; unless the         *)
(* notifier's own flush failed, and then its result says so.  (reboot_flag *)
(* is set all the same, and what stayed in the cache is lost.)             *)
EarlyWritesSurvive ==
  reboot_flag /\ ~error => early \subseteq flash

(* Nothing is acknowledged and forgotten: until reboot_flag is set, an     *)
(* acknowledged write is in the cache or on the flash.                     *)
AckedIsKept == ~reboot_flag => Acked \subseteq cache \cup flash

(* The notifier waits for the thread, and the thread for aml_nftl_lock,    *)
(* which workers and closing users keep taking; still the notifier comes   *)
(* to its end.                                                             *)
NotifierReturns == npc = "lock_flush" ~> reboot_flag
=============================================================================
