------------------------------- MODULE Startup -------------------------------
(***************************************************************************)
(* The driver's start and its end.  The probe (amlnf_init) maps the        *)
(* controller, brings up the chip and its devices, gives each device an    *)
(* NTD entry and attaches an FTL, a flush thread, a reboot notifier and    *)
(* the block devices to the selected ones.  Any of its steps may fail; it  *)
(* then returns 0 all the same and leaves what it built.  A reboot walks   *)
(* the notifiers and calls the platform shutdown, while the probe runs or  *)
(* after it.                                                               *)
(*                                                                         *)
(* Three actors: the probe, the reboot, and the flush threads.  The rwsem  *)
(* of the notifier chain and the device lock of the platform device order  *)
(* the first two.                                                          *)
(***************************************************************************)
EXTENDS Integers, Sequences, FiniteSets, FiniteSetsExt

CONSTANTS
  Devs,      \* the device table: [boot, parts (bytes), cap (sectors), enabled]
  Sector,    \* bytes in a sector
  Faults,    \* what may fail
  MaxProbes  \* bound: probes

FaultKinds ==
  {"ioremap", "clk", "phy", "boot_device", "memory", "idr", "init_ntd",
   "ntd_register", "pdev_register", "class", "blkdev", "oob", "kthread_run",
   "add_disk", "flush", "block_test"}

ASSUME StartupAssumption ==
  /\ Devs \in Seq([boot : BOOLEAN, parts : Seq(Nat), cap : Nat,
                   enabled : BOOLEAN])
  /\ {Sector, MaxProbes} \subseteq Nat \ {0}
  /\ Faults \subseteq FaultKinds

VARIABLES
  pc,        \* where the probe is; "unbound" and "bound": it does not run
  probes,    \* how many probes began
  nfc,       \* nfc_map.c: [mapped, clk]; clk "left": got but never enabled
  phydevs,   \* nphy_dev_list
  freed,     \* devices freed while they are on the list
  shut,      \* devices with NAND_SHUT_DOWN
  ntd_class, \* init_ntd: "new", "done" or "failed"
  ntds,      \* ntd_idr, in the order of its numbers
  cur,       \* the loops' counters: [i, part, offset]
  dev_num,   \* the next disk's number
  nftl,      \* struct aml_nftl_dev of each device
  chain,     \* reboot_notifier_list
  disks,     \* tr->devs
  reboot,    \* [pc, i]: where the reboot is, and in which notifier
  oops,      \* history: what the kernel died of
  hit        \* history: the faults that happened

probeVars == <<probes, nfc, phydevs, freed, ntd_class, ntds, cur, dev_num, disks>>
vars == <<pc, probeVars, shut, nftl, chain, reboot, oops, hit>>

Ids == DOMAIN Devs
InProbe == pc \notin {"unbound", "bound"}

(* The loops of the probe: at their first element; past it.                *)
First == [i |-> 1, part |-> 1, offset |-> 0]
Advance == [First EXCEPT !.i = cur.i + 1]

(* A step of the probe that fails.                                         *)
Fails(f) == f \in Faults /\ hit' = hit \cup {f}
Works == UNCHANGED hit

StartInit ==
  /\ pc = "unbound" /\ probes = 0
  /\ nfc = [mapped |-> FALSE, clk |-> "null"]
  /\ phydevs = <<>> /\ freed = {} /\ shut = {}
  /\ ntd_class = "new" /\ ntds = <<>>
  /\ cur = First /\ dev_num = 0
  /\ nftl = [d \in Ids |-> [ready |-> FALSE, reboot_flag |-> FALSE,
                            thread |-> "null"]]
  /\ chain = <<>> /\ disks = {}
  /\ reboot = [pc |-> "no", i |-> 1]
  /\ oops = {} /\ hit = {}

-----------------------------------------------------------------------------
(***************************************************************************)
(* The probe, as far as the devices.                                       *)
(***************************************************************************)

(* amlnf_init is called when the platform device appears, and again after  *)
(* it returned an error; device_shutdown lets no probe begin.              *)
Probe ==
  /\ pc = "unbound" /\ probes < MaxProbes
  /\ reboot.pc \notin {"shutdown", "done"}
  /\ pc' = "map" /\ probes' = probes + 1
  /\ phydevs' = <<>>
  /\ hit' = IF reboot.pc = "no" THEN hit ELSE hit \cup {"reboot_in_probe"}
  /\ UNCHANGED <<nfc, freed, shut, ntd_class, ntds, cur, dev_num, nftl, chain,
                 disks, reboot, oops>>

(* amlnf_map_nfc.  The clocks are looked up once: amlnf_core_clk keeps     *)
(* what the first attempt left in it, the error it got included, and with  *)
(* a pointer in it the next attempt takes the clocks to be running.        *)
MapNfc ==
  /\ pc = "map"
  /\ \/ ~nfc.mapped /\ Fails("ioremap") /\ pc' = "unbound" /\ UNCHANGED nfc
     \/ /\ nfc.clk = "null" /\ Fails("clk") /\ pc' = "unbound"
        /\ nfc' = [mapped |-> TRUE, clk |-> "left"]
     \/ /\ Works /\ pc' = "phy"
        /\ nfc' = [mapped |-> TRUE,
                   clk |-> IF nfc.clk = "null" THEN "on" ELSE nfc.clk]
  /\ UNCHANGED <<probes, phydevs, freed, shut, ntd_class, ntds, cur, dev_num,
                 nftl, chain, disks, reboot, oops>>

(* amlnf_phy_init: pins, controller, chip, configuration, devices.  When   *)
(* it fails, the devices that amlnand_phydev_init had listed stay listed,  *)
(* and amlnf_init returns 0.                                               *)
PhyInit ==
  /\ pc = "phy"
  /\ \/ /\ Works /\ pc' = "logic"
        /\ phydevs' = [i \in Ids |-> i]
     \/ /\ Fails("phy") /\ pc' = "bound"
        /\ \E n \in 0..Len(Devs) - 1 : phydevs' = [i \in 1..n |-> i]
  /\ cur' = First
  /\ UNCHANGED <<probes, nfc, freed, shut, ntd_class, ntds, dev_num, nftl,
                 chain, disks, reboot, oops>>

(* add_ntd_device: the number comes first, so an init_ntd that fails       *)
(* leaves the entry in the idr, and is not called again.                   *)
AddNtdDevice(d) ==
  \/ Fails("idr") /\ UNCHANGED <<ntds, ntd_class>>
  \/ /\ ntd_class = "new" /\ Fails("init_ntd")
     /\ ntds' = Append(ntds, d) /\ ntd_class' = "failed"
  \/ /\ \/ Fails("ntd_register") /\ UNCHANGED ntds
        \/ Works /\ ntds' = Append(ntds, d)
     /\ ntd_class' = IF ntd_class = "new" THEN "done" ELSE ntd_class

(* boot_device_register: the character device of the boot area.            *)
BootDeviceRegister ==
  \/ Fails("boot_device") /\ pc' = "bound"
  \/ Works /\ pc' = "logic"

(* amlnf_logic_init, one device: the boot device gets a character device,  *)
(* the others an NTD entry, whose result add_ntd_partitions ignores.       *)
LogicInit ==
  /\ pc = "logic" /\ cur.i <= Len(phydevs)
  /\ IF Devs[phydevs[cur.i]].boot
     THEN BootDeviceRegister /\ UNCHANGED <<ntds, ntd_class>>
     ELSE \/ Fails("memory") /\ pc' = "bound" /\ UNCHANGED <<ntds, ntd_class>>
          \/ AddNtdDevice(phydevs[cur.i]) /\ pc' = "logic"
  /\ cur' = Advance
  /\ UNCHANGED <<probes, nfc, phydevs, freed, shut, dev_num, nftl, chain,
                 disks, reboot, oops>>

LogicDone ==
  /\ pc = "logic" /\ cur.i > Len(phydevs)
  /\ pc' = "dev" /\ cur' = First
  /\ UNCHANGED <<probes, nfc, phydevs, freed, shut, ntd_class, ntds, dev_num,
                 nftl, chain, disks, reboot, oops, hit>>

(* amlnf_pdev_register: a device that cannot be registered is freed, and   *)
(* stays on nphy_dev_list.                                                 *)
DevInit ==
  /\ pc = "dev" /\ cur.i <= Len(phydevs)
  /\ LET d == phydevs[cur.i] IN
       \/ Works /\ pc' = "dev" /\ UNCHANGED freed
       \/ /\ ~Devs[d].boot /\ Fails("pdev_register")
          /\ pc' = "bound" /\ freed' = freed \cup {d}
       \/ /\ ~Devs[d].boot /\ Fails("class") /\ pc' = "bound" /\ UNCHANGED freed
  /\ cur' = Advance
  /\ UNCHANGED <<probes, nfc, phydevs, shut, ntd_class, ntds, dev_num, nftl,
                 chain, disks, reboot, oops>>

(* The end of amlnf_dev_init, and init_aml_nftl as far as the loop of      *)
(* register_ntd_blktrans over the NTD entries.                             *)
InitNftl ==
  /\ pc = "dev" /\ cur.i > Len(phydevs)
  /\ \/ (Fails("class") \/ Fails("blkdev")) /\ pc' = "bound"
     \/ Works /\ pc' = "attach"
  /\ cur' = First /\ dev_num' = 0
  /\ disks' = {}
  /\ UNCHANGED <<probes, nfc, phydevs, freed, shut, ntd_class, ntds, nftl,
                 chain, reboot, oops>>

-----------------------------------------------------------------------------
(***************************************************************************)
(* aml_nftl_add_ntd, for one NTD entry after the other.                    *)
(***************************************************************************)
This == ntds[cur.i]

(* The early returns of aml_nftl_add_ntd: on to the next entry.            *)
NextNtd == pc' = "attach" /\ cur' = Advance

(* Mutant: the gate of aml_nftl_add_ntd comes after the notifier.          *)
AttachGateLate ==
  /\ pc = "attach" /\ cur.i <= Len(ntds)
  /\ reboot.pc \notin {"chain", "stop", "pair"}
  /\ Works /\ chain' = Append(chain, This)
  /\ IF Devs[This].enabled THEN pc' = "initialize" /\ UNCHANGED cur ELSE NextNtd
  /\ UNCHANGED <<probes, nfc, phydevs, freed, ntd_class, ntds, dev_num, disks,
                 shut, nftl, reboot, oops>>

(* The gate, the memory, the lock and the notifier, which waits while a    *)
(* reboot walks the chain.                                                 *)
Attach ==
  /\ pc = "attach" /\ cur.i <= Len(ntds)
  /\ \/ ~Devs[This].enabled /\ Works /\ NextNtd /\ UNCHANGED chain
     \/ Devs[This].enabled /\ Fails("memory") /\ NextNtd /\ UNCHANGED chain
     \/ /\ Devs[This].enabled /\ Works
        /\ reboot.pc \notin {"chain", "stop", "pair"}
        /\ chain' = Append(chain, This)
        /\ pc' = "initialize" /\ UNCHANGED cur
  /\ UNCHANGED <<probes, nfc, phydevs, freed, ntd_class, ntds, dev_num, disks,
                 shut, nftl, reboot, oops>>

(* aml_nftl_initialize starts the FTL and, at its end, sets the functions  *)
(* of the device.  A spare area too small for the FTL's bytes makes it     *)
(* fail; its notifier, which is the last one, then goes, once nobody walks *)
(* the chain.                                                              *)
Initialize ==
  /\ pc = "initialize"
  /\ \/ /\ Fails("oob") /\ NextNtd
        /\ reboot.pc \notin {"chain", "stop", "pair"}
        /\ chain' = SubSeq(chain, 1, Len(chain) - 1) /\ UNCHANGED nftl
     \/ /\ Works /\ nftl' = [nftl EXCEPT ![This].ready = TRUE]
        /\ pc' = "flags" /\ UNCHANGED <<cur, chain>>
  /\ UNCHANGED <<probes, nfc, phydevs, freed, ntd_class, ntds, dev_num, disks,
                 shut, reboot, oops>>

(* init_flag, reboot_flag and nftl_priv.                                   *)
SetFlags ==
  /\ pc = "flags" /\ pc' = "thread"
  /\ nftl' = [nftl EXCEPT ![This].reboot_flag = FALSE]
  /\ UNCHANGED <<probeVars, shut, chain, reboot, oops, hit>>

(* kthread_run; the error it may return stays in nftl_thread.              *)
RunThread ==
  /\ pc = "thread"
  /\ \/ /\ Works /\ pc' = "disk" /\ UNCHANGED cur
        /\ nftl' = [nftl EXCEPT ![This].thread = "running"]
     \/ /\ Fails("kthread_run") /\ NextNtd
        /\ nftl' = [nftl EXCEPT ![This].thread = "error"]
  /\ UNCHANGED <<probes, nfc, phydevs, freed, ntd_class, ntds, dev_num, disks,
                 shut, chain, reboot, oops>>

(* Mutant: a partition keeps its size at the end of the device.            *)
BlkSizeUnclipped(offset, size, cap) == size \div Sector

(* aml_blktrans_initialize: what part of [offset, offset + size) there is, *)
(* in sectors.                                                             *)
BlkSize(offset, size, cap) ==
  LET offset_t == offset \div Sector
      size_t == size \div Sector
  IN  IF offset_t + size_t <= cap THEN size_t ELSE cap - offset_t

(* One partition.  Its number is spent even if the disk is not added: the  *)
(* partition begins beyond the FTL's capacity, or add_ntd_blktrans_dev     *)
(* failed and took everything back.  (aml_nftl_init_bounce_buf, which      *)
(* comes last, always returns 0.)                                          *)
AddDisk ==
  /\ pc = "disk"
  /\ LET parts == Devs[This].parts
         size == parts[cur.part]
         cap == Devs[This].cap
     IN
     /\ cur.part <= Len(parts)
     /\ \/ Fails("memory") /\ NextNtd /\ UNCHANGED <<dev_num, disks>>
        \/ /\ cur.offset \div Sector >= cap \/ "add_disk" \in Faults
           /\ hit' = hit \cup (IF cur.offset \div Sector >= cap
                               THEN {} ELSE {"add_disk"})
           /\ NextNtd /\ dev_num' = dev_num + 1 /\ UNCHANGED disks
        \/ /\ cur.offset \div Sector < cap /\ Works
           /\ disks' = disks \cup
                {[devnum |-> dev_num, dev |-> This, part |-> cur.part,
                  offset |-> cur.offset \div Sector,
                  size |-> BlkSize(cur.offset, size, cap)]}
           /\ dev_num' = dev_num + 1
           /\ cur' = [i |-> cur.i, part |-> cur.part + 1,
                     offset |-> cur.offset + size]
           /\ pc' = "disk"
  /\ UNCHANGED <<probes, nfc, phydevs, freed, ntd_class, ntds, shut, nftl,
                 chain, reboot, oops>>

DisksDone ==
  /\ pc = "disk" /\ cur.part > Len(Devs[This].parts)
  /\ NextNtd
  /\ UNCHANGED <<probes, nfc, phydevs, freed, ntd_class, ntds, dev_num, disks,
                 shut, nftl, chain, reboot, oops, hit>>

ProbeDone ==
  /\ pc = "attach" /\ cur.i > Len(ntds)
  /\ pc' = "bound"
  /\ UNCHANGED <<probeVars, shut, nftl, chain, reboot, oops, hit>>

ProbeStep ==
  \/ MapNfc \/ PhyInit \/ LogicInit \/ LogicDone \/ DevInit \/ InitNftl
  \/ Attach \/ Initialize \/ SetFlags \/ RunThread \/ AddDisk \/ DisksDone
  \/ ProbeDone

-----------------------------------------------------------------------------
(***************************************************************************)
(* The reboot: kernel_restart_prepare walks the notifiers in the order of  *)
(* their registration, and device_shutdown calls the platform shutdown     *)
(* once no probe runs.                                                     *)
(***************************************************************************)

(* A save of metadata by a user of the devices fails and its block test    *)
(* waits for the mutex the user holds (NoSelfWait of ChipLock): from then  *)
(* on the chip is not given back.                                          *)
ChipHangs ==
  /\ pc \in {"attach", "initialize", "flags", "thread", "disk", "bound"}
  /\ ntds # <<>>
  /\ Fails("block_test")
  /\ UNCHANGED <<pc, probeVars, shut, nftl, chain, reboot, oops>>

ChipKept == "block_test" \in hit

Reboot ==
  /\ reboot.pc = "no"
  /\ reboot' = [reboot EXCEPT !.pc = "chain"]
  /\ hit' = hit \cup (IF InProbe THEN {"reboot_in_probe"} ELSE {})
  /\ UNCHANGED <<pc, probeVars, shut, nftl, chain, oops>>

(* The kernel thread that reboots dies.                                    *)
Dies(cause) ==
  /\ oops' = oops \cup {cause}
  /\ reboot' = [reboot EXCEPT !.pc = "oops"]

(* aml_nftl_reboot_notifier, as far as the two flushes.                    *)
NotifierFlush ==
  /\ reboot.pc = "chain" /\ reboot.i <= Len(chain)
  /\ LET dev == nftl[chain[reboot.i]] IN
       \/ /\ dev.reboot_flag /\ UNCHANGED oops
          /\ reboot' = [reboot EXCEPT !.i = @ + 1]
       \/ ~dev.reboot_flag /\ ~dev.ready /\ Dies("unset_function")
       \/ /\ ~dev.reboot_flag /\ dev.ready /\ UNCHANGED oops
          /\ reboot' = [reboot EXCEPT !.pc = "stop"]
  /\ UNCHANGED <<pc, probeVars, shut, nftl, chain, hit>>

(* kthread_stop waits for the thread, unless there is none.                *)
NotifierStop ==
  /\ reboot.pc = "stop"
  /\ LET thread == nftl[chain[reboot.i]].thread IN
       \/ thread = "error" /\ Dies("error_thread")
       \/ /\ thread \in {"null", "exited"} /\ UNCHANGED oops
          /\ reboot' = [reboot EXCEPT !.pc = "pair"]
  /\ nftl' = [nftl EXCEPT ![chain[reboot.i]].thread =
                IF @ = "exited" THEN "null" ELSE @]
  /\ UNCHANGED <<pc, probeVars, shut, chain, hit>>

(* Mutant: the thread's loop has no kthread_should_stop.                   *)
ThreadExitNever(d) == nftl[d].thread = "exited" /\ UNCHANGED vars

(* aml_nftl_thread leaves its loop when it is told to stop.                *)
ThreadExit(d) ==
  /\ nftl[d].thread = "running"
  /\ reboot.pc = "stop" /\ chain[reboot.i] = d
  /\ nftl' = [nftl EXCEPT ![d].thread = "exited"]
  /\ UNCHANGED <<pc, probeVars, shut, chain, reboot, oops, hit>>

(* Mutant: the notifier returns -1, which the kernel takes for a stop.     *)
NotifierEndStops ==
  /\ reboot.pc = "pair"
  /\ reboot' = [pc |-> "shutdown", i |-> 1]
  /\ Works
  /\ nftl' = [nftl EXCEPT ![chain[reboot.i]].reboot_flag = TRUE]
  /\ UNCHANGED <<pc, probeVars, shut, chain, oops>>

(* The rest of the notifier.  It returns the FTL's error codes, and the    *)
(* walk ends early if the kernel's NOTIFY_STOP_MASK is among their bits.   *)
NotifierEnd ==
  /\ reboot.pc = "pair"
  /\ \/ Works /\ reboot' = [pc |-> "chain", i |-> reboot.i + 1]
     \/ /\ Fails("flush")
        /\ \/ reboot' = [pc |-> "chain", i |-> reboot.i + 1]
           \/ reboot' = [pc |-> "shutdown", i |-> 1]
  /\ nftl' = [nftl EXCEPT ![chain[reboot.i]].reboot_flag = TRUE]
  /\ UNCHANGED <<pc, probeVars, shut, chain, oops>>

ChainDone ==
  /\ reboot.pc = "chain" /\ reboot.i > Len(chain)
  /\ reboot' = [pc |-> "shutdown", i |-> 1]
  /\ UNCHANGED <<pc, probeVars, shut, nftl, chain, oops, hit>>

(* amlnf_shutdown, of a device that is bound, walks nphy_dev_list; for     *)
(* each device it waits in amlnand_get_device until the chip is free.      *)
ShutDevice ==
  /\ reboot.pc = "shutdown" /\ pc = "bound"
  /\ reboot.i <= Len(phydevs)
  /\ \/ /\ phydevs[reboot.i] \in freed
        /\ Dies("freed_device") /\ UNCHANGED shut
     \/ /\ phydevs[reboot.i] \notin freed
        /\ ~ChipKept
        /\ shut' = shut \cup {phydevs[reboot.i]}
        /\ reboot' = [reboot EXCEPT !.i = @ + 1] /\ UNCHANGED oops
  /\ UNCHANGED <<pc, probeVars, nftl, chain, hit>>

Shutdown ==
  /\ reboot.pc = "shutdown" /\ ~InProbe
  /\ pc = "unbound" \/ reboot.i > Len(phydevs)
  /\ reboot' = [reboot EXCEPT !.pc = "done"]
  /\ UNCHANGED <<pc, probeVars, shut, nftl, chain, oops, hit>>

RebootStep ==
  \/ NotifierFlush \/ NotifierStop \/ NotifierEnd \/ ChainDone
  \/ ShutDevice \/ Shutdown

StartNext ==
  \/ Probe \/ ProbeStep \/ Reboot \/ RebootStep
  \/ \E d \in Ids : ThreadExit(d)
  \/ ChipHangs

(* A probe that takes dead clocks to be running may wait for the command   *)
(* FIFO for good.                                                          *)
ClocksDead == pc = "phy" /\ nfc.clk # "on"

(* The probe and the reboot are kernel threads that run when they can; the *)
(* flush thread wakes up at least when its timeout ends.  Nothing is known *)
(* of a probe that waits for dead clocks, nor, once a holder of the chip   *)
(* hangs, of anybody who may need the chip.                                *)
StartFairness ==
  /\ WF_vars(~ChipKept /\ ~ClocksDead /\ ProbeStep)
  /\ WF_vars(~ChipKept /\ RebootStep)
  /\ \A d \in Ids : WF_vars(~ChipKept /\ ThreadExit(d))

StartSpec == StartInit /\ [][StartNext]_vars /\ StartFairness

-----------------------------------------------------------------------------
(***************************************************************************)
(* Properties                                                              *)
(***************************************************************************)
StartTypeOK ==
  /\ pc \in {"unbound", "map", "phy", "logic", "dev", "attach", "initialize",
             "flags", "thread", "disk", "bound"}
  /\ probes \in 0..MaxProbes
  /\ nfc \in [mapped : BOOLEAN, clk : {"null", "left", "on"}]
  /\ phydevs \in Seq(Ids) /\ ntds \in Seq(Ids) /\ chain \in Seq(Ids)
  /\ freed \subseteq Ids /\ shut \subseteq Ids
  /\ ntd_class \in {"new", "done", "failed"}
  /\ cur \in [i : Nat, part : Nat, offset : Nat] /\ dev_num \in Nat
  /\ nftl \in [Ids -> [ready : BOOLEAN, reboot_flag : BOOLEAN,
                       thread : {"null", "running", "exited", "error"}]]
  /\ reboot \in [pc : {"no", "chain", "stop", "pair", "shutdown", "done", "oops"},
                 i : Nat]
  /\ hit \subseteq FaultKinds \cup {"reboot_in_probe"}

(* A reboot after the probe kills the kernel only for the two reasons the  *)
(* code leaves: nftl_thread holds kthread_run's error, or a phydev was     *)
(* freed on the list.  Whatever else failed in the probe, no notifier of a *)
(* half made device is left to call a function that was never set.         *)
NoOops ==
  \A cause \in oops :
    \/ cause = "unset_function" /\ "reboot_in_probe" \in hit
    \/ cause = "error_thread" /\ "kthread_run" \in hit
    \/ cause = "freed_device" /\ "pdev_register" \in hit

(* When a reboot that did not overlap the probe has shut the platform down *)
(* and no flush failed, every FTL was flushed and flagged, no flush thread *)
(* is left, and every device on the list has NAND_SHUT_DOWN.               *)
RebootReachesAll ==
  (reboot.pc = "done" /\ hit \cap {"reboot_in_probe", "flush"} = {})
    => /\ \A d \in Ids : nftl[d].ready => nftl[d].reboot_flag /\ nftl[d].thread = "null"
       /\ pc = "bound" => \A i \in DOMAIN phydevs : phydevs[i] \in shut

Extent(k) == k.offset .. k.offset + k.size - 1

(* Where a partition begins: the sizes of the ones before it.              *)
Begin(d, p) ==
  LET sum[q \in 0..Len(Devs[d].parts)] ==
        IF q = 0 THEN 0 ELSE sum[q - 1] + Devs[d].parts[q]
  IN sum[p - 1]

(* Mapped on the FTL of a device, its disks do not overlap and lie inside  *)
(* its capacity; minor numbers are unique; a disk exists only over an FTL  *)
(* that is started and that a reboot will flush.                           *)
DisksApart ==
  \A k \in disks :
    /\ Extent(k) \subseteq 0..Devs[k.dev].cap - 1
    /\ nftl[k.dev].ready /\ \E i \in DOMAIN chain : chain[i] = k.dev
    /\ \A l \in disks \ {k} :
         l.devnum # k.devnum /\ (l.dev = k.dev => Extent(k) \cap Extent(l) = {})

(* When nothing failed, every partition that begins inside its device has  *)
(* its disk.                                                               *)
DisksComplete ==
  (pc = "bound" /\ hit \subseteq {"reboot_in_probe", "flush", "block_test"})
    => \A d \in Ids : (Devs[d].enabled /\ ~Devs[d].boot)
         => \A p \in DOMAIN Devs[d].parts :
              Begin(d, p) \div Sector < Devs[d].cap
                => \E k \in disks : k.dev = d /\ k.part = p

(* The disks that register_ntd_blktrans and aml_nftl_add_ntd make: none    *)
(* is in the way of another, and none is missing.                          *)
DisksPlaced == DisksApart /\ DisksComplete

(* A reboot ends, whatever the probe is doing and whatever fails but two   *)
(* things: the walk waits for the flush threads, the probe for the walk,   *)
(* the platform shutdown for the probe and, device by device, for the      *)
(* chip, and nobody for good; unless a holder of the chip hangs in its     *)
(* block test, or a second probe runs on clocks the first left off.        *)
RebootEnds ==
  reboot.pc = "chain" ~>
    (reboot.pc \in {"done", "oops"} \/ ChipKept \/ ClocksDead)

(* The clocks run from the first access to the controller on.              *)
ClocksOn == pc \notin {"unbound", "map"} => nfc.clk = "on"
=============================================================================
