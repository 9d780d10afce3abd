--------------------------- MODULE StartupProofs ----------------------------
(***************************************************************************)
(* Proofs about Startup, for any list of devices with any partitions.      *)
(*                                                                         *)
(* TypeInv and NtdInv describe the lists the probe builds. ChainReady and  *)
(* ReadyInv tie the notifier chain to the devices that are started;        *)
(* CauseInv uses them to show that an oops needs one of three causes.      *)
(* WalkInv and ShutInv follow the walk along the chain and give            *)
(* RebootReachesAll. DiskInv adds up the partitions of a device as the     *)
(* probe does and shows the disks apart; CompleteInv says what the loops   *)
(* of a probe without failures have done, and shows none missing.          *)
(***************************************************************************)
EXTENDS Startup, SequenceTheorems, WellFoundedInduction, TLAPS

(* An NFTL device: its ready bit, its reboot flag and its thread.          *)
NftlDev == [ready : BOOLEAN, reboot_flag : BOOLEAN,
            thread : {"null", "running", "exited", "error"}]

(* The counters of the probe's loops.                                      *)
Counters == [i : Nat \ {0}, part : Nat \ {0}, offset : Nat]

(* Where the reboot is.                                                    *)
RebootAt == [pc : {"no", "chain", "stop", "pair", "shutdown", "done", "oops"},
             i : Nat \ {0}]

(* The places of the probe.                                                *)
Places == {"unbound", "map", "phy", "logic", "dev", "attach", "initialize",
           "flags", "thread", "disk", "bound"}

(* The types of the state, and that a loop counter points into the list    *)
(* the loop walks.                                                         *)
TypeInv ==
  /\ pc \in Places
  /\ phydevs \in Seq(Ids) /\ ntds \in Seq(Ids) /\ chain \in Seq(Ids)
  /\ cur \in Counters
  /\ dev_num \in Nat
  /\ nftl \in [Ids -> NftlDev]
  /\ reboot \in RebootAt
  /\ pc \in {"initialize", "flags", "thread", "disk"} => cur.i <= Len(ntds)
  /\ reboot.pc \in {"stop", "pair"} => reboot.i <= Len(chain)

(* The first n device numbers, in order, are a list of devices.            *)
LEMMA IdSequence ==
  ASSUME NEW n \in 0..Len(Devs)
  PROVE  /\ [i \in 1..n |-> i] \in Seq(Ids)
         /\ Len([i \in 1..n |-> i]) = n
<1>1. Ids = 1..Len(Devs) /\ Len(Devs) \in Nat
  BY StartupAssumption DEF Ids
<1>2. 1..n \subseteq Ids
  BY <1>1
<1> QED
  BY <1>2

(* The partitions and the capacity of a device are numbers.                *)
LEMMA DevTyped ==
  ASSUME NEW d \in Ids
  PROVE  Devs[d].parts \in Seq(Nat) /\ Devs[d].cap \in Nat
<1> DEFINE Dev == [boot : BOOLEAN, parts : Seq(Nat), cap : Nat, enabled : BOOLEAN]
<1>1. Devs \in Seq(Dev)
  BY StartupAssumption
<1>2. Devs[d] \in Dev
  <2> HIDE DEF Dev
  <2> QED
    BY <1>1 DEF Ids
<1> QED
  BY <1>2

(* The two ways the probe sets its counters keep their type.               *)
LEMMA CountersOK ==
  /\ First \in Counters /\ First.i = 1
  /\ cur \in Counters => Advance \in Counters /\ Advance.i = cur.i + 1
  BY DEF First, Advance, Counters

(* The types hold before the probe.                                        *)
LEMMA TypeInvInit == StartInit => TypeInv
<1> SUFFICES ASSUME StartInit PROVE TypeInv
  OBVIOUS
<1>1. nftl \in [Ids -> NftlDev] /\ reboot \in RebootAt
  BY DEF StartInit, NftlDev, RebootAt
<1> QED
  BY <1>1, CountersOK DEF StartInit, TypeInv, Places

(* Every step of the probe and of the reboot keeps the types.              *)
LEMMA TypeInvStep == TypeInv /\ [StartNext]_vars => TypeInv'
<1> SUFFICES ASSUME TypeInv, [StartNext]_vars PROVE TypeInv'
  OBVIOUS
<1> USE CountersOK DEF TypeInv, Places, probeVars, NextNtd
<1>1. ASSUME Probe PROVE TypeInv'
  BY <1>1 DEF Probe
<1>2. ASSUME MapNfc PROVE TypeInv'
  BY <1>2 DEF MapNfc
<1>3. ASSUME PhyInit PROVE TypeInv'
  <2>1. Ids = 1..Len(Devs) /\ Len(Devs) \in Nat
    BY StartupAssumption DEF Ids
  <2>2. phydevs' \in Seq(Ids)
    BY <1>3, <2>1, IdSequence DEF PhyInit
  <2> QED
    BY <1>3, <2>2 DEF PhyInit
<1>4. ASSUME LogicInit PROVE TypeInv'
  <2>1. phydevs[cur.i] \in Ids
    BY <1>4 DEF LogicInit, Counters
  <2>2. ntds' \in {ntds, Append(ntds, phydevs[cur.i])}
    BY <1>4 DEF LogicInit, AddNtdDevice
  <2>3. pc' \in {"logic", "bound"}
    BY <1>4 DEF LogicInit, AddNtdDevice, BootDeviceRegister
  <2>4. Append(ntds, phydevs[cur.i]) \in Seq(Ids)
    BY <2>1
  <2>5. ntds' \in Seq(Ids)
    BY <2>2, <2>4
  <2> QED
    BY <1>4, <2>3, <2>5 DEF LogicInit
<1>5. ASSUME LogicDone PROVE TypeInv'
  BY <1>5 DEF LogicDone
<1>6. ASSUME DevInit PROVE TypeInv'
  BY <1>6 DEF DevInit
<1>7. ASSUME InitNftl PROVE TypeInv'
  BY <1>7 DEF InitNftl
<1>8. ASSUME Attach PROVE TypeInv'
  <2>1. This \in Ids
    BY <1>8 DEF Attach, This, Counters
  <2>2. chain' \in {chain, Append(chain, This)}
    BY <1>8 DEF Attach
  <2>3. Append(chain, This) \in Seq(Ids) /\ Len(Append(chain, This)) = Len(chain) + 1
    BY <2>1
  <2> QED
    BY <1>8, <2>2, <2>3 DEF Attach
<1>9. ASSUME Initialize PROVE TypeInv'
  <2>1. This \in Ids
    BY <1>9 DEF Initialize, This, Counters
  <2>2. SubSeq(chain, 1, Len(chain) - 1) \in Seq(Ids)
    OBVIOUS
  <2>3. [nftl EXCEPT ![This].ready = TRUE] \in [Ids -> NftlDev]
    BY <2>1 DEF NftlDev
  <2> QED
    BY <1>9, <2>2, <2>3 DEF Initialize
<1>10. ASSUME SetFlags PROVE TypeInv'
  <2>1. This \in Ids
    BY <1>10 DEF SetFlags, This, Counters
  <2>2. [nftl EXCEPT ![This].reboot_flag = FALSE] \in [Ids -> NftlDev]
    BY <2>1 DEF NftlDev
  <2> QED
    BY <1>10, <2>2 DEF SetFlags
<1>11. ASSUME RunThread PROVE TypeInv'
  <2>1. This \in Ids
    BY <1>11 DEF RunThread, This, Counters
  <2>2. \A t \in {"running", "error"} : [nftl EXCEPT ![This].thread = t] \in [Ids -> NftlDev]
    BY <2>1 DEF NftlDev
  <2> QED
    BY <1>11, <2>2 DEF RunThread
<1>12. ASSUME AddDisk PROVE TypeInv'
  <2>1. This \in Ids /\ cur.part <= Len(Devs[This].parts)
    BY <1>12 DEF AddDisk, This, Counters
  <2>2. Devs[This].parts[cur.part] \in Nat
    <3> DEFINE parts == Devs[This].parts
    <3>1. parts \in Seq(Nat) /\ cur.part \in 1..Len(parts)
      BY <2>1, DevTyped DEF Counters
    <3> HIDE DEF parts
    <3>2. parts[cur.part] \in Nat
      BY <3>1
    <3> QED
      BY <3>2 DEF parts
  <2> HIDE CountersOK
  <2>5. \/ pc' = "attach" /\ cur' = Advance
        \/ pc' = "disk" /\ cur' \in Counters /\ cur'.i = cur.i
    <3>1. \/ pc' = "attach" /\ cur' = Advance
          \/ /\ pc' = "disk"
             /\ cur' = [i |-> cur.i, part |-> cur.part + 1,
                        offset |-> cur.offset + Devs[This].parts[cur.part]]
      BY <1>12 DEF AddDisk
    <3>2. [i |-> cur.i, part |-> cur.part + 1,
           offset |-> cur.offset + Devs[This].parts[cur.part]] \in Counters
      BY <2>2 DEF Counters
    <3> QED
      BY <3>1, <3>2
  <2>6. UNCHANGED <<phydevs, ntds, chain, nftl, reboot>> /\ dev_num' \in Nat
        /\ pc = "disk"
    BY <1>12 DEF AddDisk
  <2> QED
    BY <2>5, <2>6, CountersOK
<1>13. ASSUME DisksDone PROVE TypeInv'
  BY <1>13 DEF DisksDone
<1>14. ASSUME ProbeDone PROVE TypeInv'
  BY <1>14 DEF ProbeDone
<1>15. ASSUME Reboot PROVE TypeInv'
  BY <1>15 DEF Reboot, RebootAt
<1>16. ASSUME NotifierFlush PROVE TypeInv'
  BY <1>16 DEF NotifierFlush, Dies, RebootAt
<1>17. ASSUME NotifierStop PROVE TypeInv'
  <2>1. chain[reboot.i] \in Ids
    BY <1>17 DEF NotifierStop, RebootAt
  <2>2. nftl' \in [Ids -> NftlDev]
    BY <1>17, <2>1 DEF NotifierStop, NftlDev
  <2>3. reboot' \in RebootAt /\ reboot'.i = reboot.i
    BY <1>17 DEF NotifierStop, Dies, RebootAt
  <2> QED
    BY <1>17, <2>2, <2>3 DEF NotifierStop
<1>18. ASSUME NotifierEnd PROVE TypeInv'
  <2>1. chain[reboot.i] \in Ids
    BY <1>18 DEF NotifierEnd, RebootAt
  <2>2. nftl' \in [Ids -> NftlDev]
    BY <1>18, <2>1 DEF NotifierEnd, NftlDev
  <2>3. reboot' \in RebootAt /\ reboot'.pc \in {"chain", "shutdown"}
    BY <1>18 DEF NotifierEnd, RebootAt
  <2> QED
    BY <1>18, <2>2, <2>3 DEF NotifierEnd
<1>19. ASSUME ChainDone PROVE TypeInv'
  BY <1>19 DEF ChainDone, RebootAt
<1>20. ASSUME ShutDevice \/ Shutdown PROVE TypeInv'
  <2>1. reboot' \in RebootAt /\ reboot'.pc \in {"shutdown", "done", "oops"}
    BY <1>20 DEF ShutDevice, Shutdown, Dies, RebootAt
  <2> QED
    BY <1>20, <2>1 DEF ShutDevice, Shutdown
<1>21. ASSUME NEW d \in Ids, ThreadExit(d) PROVE TypeInv'
  <2>1. nftl' \in [Ids -> NftlDev]
    BY <1>21 DEF ThreadExit, NftlDev
  <2> QED
    BY <1>21, <2>1 DEF ThreadExit
<1>22. CASE ChipHangs \/ UNCHANGED vars
  BY <1>22 DEF ChipHangs, vars
<1> HIDE DEF TypeInv, Places, probeVars, NextNtd
<1> QED
  BY <1>1, <1>2, <1>3, <1>4, <1>5, <1>6, <1>7, <1>8, <1>9, <1>10, <1>11, <1>12,
     <1>13, <1>14, <1>15, <1>16, <1>17, <1>18, <1>19, <1>20, <1>21, <1>22
  DEF StartNext, ProbeStep, RebootStep

-----------------------------------------------------------------------------
(* The places of the probe before any logical device exists.               *)
Early == {"unbound", "map", "phy"}

(* Device d has been started (its FTL is initialised).                     *)
Ready(d) == nftl[d].ready

(* The reboot notifier of device d is registered.                          *)
InChain(d) == \E i \in 1..Len(chain) : chain[i] = d

(* The lists the probe builds: no device is listed twice, and none before  *)
(* its turn.                                                               *)
NtdInv ==
  /\ pc \in Early => ntds = <<>>
  /\ \A i \in 1..Len(phydevs) : phydevs[i] = i
  /\ \A i, j \in 1..Len(ntds) : ntds[i] = ntds[j] => i = j
  /\ pc = "logic" => \A j \in 1..Len(ntds) : ntds[j] < cur.i

(* Every step keeps the lists so.                                          *)
LEMMA NtdInvStep ==
  TypeInv /\ NtdInv /\ [StartNext]_vars => NtdInv'
<1> SUFFICES ASSUME TypeInv, NtdInv, [StartNext]_vars PROVE NtdInv'
  OBVIOUS
<1> USE DEF NtdInv, Early
<1>1. ASSUME Probe PROVE NtdInv'
  BY <1>1 DEF Probe
<1>2. ASSUME MapNfc PROVE NtdInv'
  BY <1>2 DEF MapNfc
<1>3. ASSUME PhyInit PROVE NtdInv'
  <2>1. Ids = 1..Len(Devs) /\ Len(Devs) \in Nat
    BY StartupAssumption DEF Ids
  <2>2. \A i \in 1..Len(phydevs') : phydevs'[i] = i
    BY <1>3, <2>1, IdSequence DEF PhyInit
  <2> QED
    BY <1>3, <2>2 DEF PhyInit
<1>4. ASSUME LogicInit PROVE NtdInv'
  <2>1. /\ phydevs[cur.i] = cur.i /\ cur.i \in Nat
        /\ pc = "logic" /\ phydevs' = phydevs /\ pc' \in {"logic", "bound"}
        /\ cur'.i = cur.i + 1
    BY <1>4, CountersOK
    DEF LogicInit, TypeInv, Counters, AddNtdDevice, BootDeviceRegister
  <2>2. ntds' \in {ntds, Append(ntds, cur.i)}
    BY <1>4, <2>1 DEF LogicInit, AddNtdDevice
  <2>0. Ids = 1..Len(Devs) /\ Len(Devs) \in Nat
    BY StartupAssumption DEF Ids
  <2>3. \A j \in 1..Len(ntds) : ntds[j] < cur.i /\ ntds[j] \in Nat
    BY <2>0, <2>1 DEF TypeInv
  <2>4. CASE ntds' = ntds
    BY <2>1, <2>3, <2>4
  <2>5. CASE ntds' = Append(ntds, cur.i)
    <3>1. /\ Len(ntds') = Len(ntds) + 1 /\ Len(ntds) \in Nat
          /\ ntds'[Len(ntds) + 1] = cur.i
          /\ \A j \in 1..Len(ntds) : ntds'[j] = ntds[j]
      BY <2>5 DEF TypeInv
    <3>2. \A j \in 1..Len(ntds') : j \in 1..Len(ntds) \/ j = Len(ntds) + 1
      BY <3>1
    <3>3. \A j \in 1..Len(ntds') : ntds'[j] < cur'.i
      BY <2>1, <2>3, <3>1, <3>2
    <3>4. \A i, j \in 1..Len(ntds') : ntds'[i] = ntds'[j] => i = j
      BY <2>1, <2>3, <3>1, <3>2
    <3> QED
      BY <2>1, <3>3, <3>4
  <2> QED
    BY <2>2, <2>4, <2>5
<1>5. ASSUME \/ LogicDone \/ DevInit \/ InitNftl \/ Attach \/ Initialize
             \/ SetFlags \/ RunThread \/ AddDisk \/ DisksDone \/ ProbeDone
      PROVE  NtdInv'
  <2>1. UNCHANGED <<ntds, phydevs>> /\ pc' \notin Early \cup {"logic"}
    BY <1>5 DEF LogicDone, DevInit, InitNftl, Attach, Initialize, SetFlags, RunThread,
                AddDisk, DisksDone, ProbeDone, probeVars, NextNtd
  <2> QED
    BY <2>1
<1>6. ASSUME \/ RebootStep \/ Reboot \/ ChipHangs
             \/ \E d \in Ids : ThreadExit(d)
      PROVE  NtdInv'
  <2>1. UNCHANGED <<ntds, phydevs, pc, cur>>
    BY <1>6 DEF RebootStep, Reboot, NotifierFlush, NotifierStop, NotifierEnd,
                ChainDone, ShutDevice, Shutdown, ChipHangs, ThreadExit, probeVars
  <2> QED
    BY <2>1
<1>7. CASE UNCHANGED vars
  BY <1>7 DEF vars, probeVars
<1> HIDE DEF NtdInv, Early
<1> QED
  BY <1>1, <1>2, <1>3, <1>4, <1>5, <1>6, <1>7 DEF StartNext, ProbeStep

-----------------------------------------------------------------------------
(* The devices on the notifier chain are started, except the last one      *)
(* while it is being started: the notifier is registered before            *)
(* aml_nftl_initialize is called.                                          *)
ChainReady ==
  /\ \A i \in 1..Len(chain) :
       Ready(chain[i]) \/ (pc = "initialize" /\ i = Len(chain))
  /\ pc = "initialize" => Len(chain) > 0 /\ chain[Len(chain)] = This

(* Unregistering the last notifier leaves the others as they are.          *)
LEMMA ChainShorter ==
  ASSUME NEW s \in Seq(Ids), Len(s) > 0
  PROVE  /\ SubSeq(s, 1, Len(s) - 1) \in Seq(Ids)
         /\ Len(SubSeq(s, 1, Len(s) - 1)) = Len(s) - 1
         /\ \A i \in 1..Len(s) - 1 : SubSeq(s, 1, Len(s) - 1)[i] = s[i]
<1>1. Len(s) \in Nat /\ Len(s) - 1 \in Nat
  OBVIOUS
<1>2. \A i \in 1..Len(s) - 1 : i \in 1..Len(s) /\ s[i] \in Ids
  BY <1>1
<1>3. ASSUME NEW n \in Nat, \A i \in 1..n : s[i] \in Ids
      PROVE  /\ SubSeq(s, 1, n) \in Seq(Ids)
             /\ Len(SubSeq(s, 1, n)) = n
             /\ \A i \in 1..n : SubSeq(s, 1, n)[i] = s[i]
  <2> DEFINE t == SubSeq(s, 1, n)
  <2>1. t \in Seq(Ids)
    BY <1>3, SubSeqProperties
  <2>2. Len(t) = n
    BY <1>3, SubSeqProperties
  <2>3. \A i \in 1..n : t[i] = s[i]
    BY <1>3, SubSeqProperties
  <2> QED
    BY <2>1, <2>2, <2>3
<1> QED
  BY <1>1, <1>2, <1>3

(* Every step keeps the chain so.                                          *)
LEMMA ChainReadyStep == TypeInv /\ ChainReady /\ [StartNext]_vars => ChainReady'
<1> SUFFICES ASSUME TypeInv, ChainReady, [StartNext]_vars PROVE ChainReady'
  OBVIOUS
<1>0. /\ chain \in Seq(Ids) /\ Len(chain) \in Nat
      /\ nftl \in [Ids -> NftlDev]
      /\ \A i \in 1..Len(chain) : chain[i] \in Ids
  BY DEF TypeInv
<1> DEFINE Grows == \A d \in Ids : Ready(d) => Ready(d)'
<1>1. ASSUME UNCHANGED chain, Grows, pc # "initialize", pc' # "initialize"
      PROVE  ChainReady'
  BY <1>0, <1>1 DEF ChainReady
<1>2. ASSUME \/ Probe \/ MapNfc \/ PhyInit \/ LogicInit \/ LogicDone \/ DevInit
             \/ InitNftl \/ AddDisk \/ DisksDone \/ ProbeDone
      PROVE ChainReady'
  <2>1. UNCHANGED <<chain, nftl>> /\ pc # "initialize"
    BY <1>2 DEF Probe, MapNfc, PhyInit, LogicInit, LogicDone, DevInit, InitNftl,
                AddDisk, DisksDone, ProbeDone
  <2>2. pc' # "initialize"
    BY <1>2 DEF Probe, MapNfc, PhyInit, LogicInit, AddNtdDevice, BootDeviceRegister,
                LogicDone, DevInit, InitNftl, AddDisk, DisksDone, ProbeDone, NextNtd
  <2> QED
    BY <1>1, <2>1, <2>2 DEF Ready
<1>3. ASSUME Attach PROVE ChainReady'
  <2>1. UNCHANGED nftl /\ pc = "attach" /\ This \in Ids
    BY <1>3 DEF Attach, TypeInv, This, Counters
  <2>2. CASE UNCHANGED chain /\ pc' = "attach"
    BY <1>1, <2>1, <2>2 DEF Ready
  <2>3. CASE chain' = Append(chain, This) /\ pc' = "initialize" /\ UNCHANGED <<cur, ntds>>
    <3>1. /\ Len(chain') = Len(chain) + 1 /\ chain'[Len(chain) + 1] = This
          /\ \A i \in 1..Len(chain) : chain'[i] = chain[i]
      BY <2>3, <2>1, <1>0
    <3>2. \A i \in 1..Len(chain') : i \in 1..Len(chain) \/ i = Len(chain')
      BY <3>1, <1>0
    <3>3. This' = This
      BY <2>3 DEF This
    <3>4. \A i \in 1..Len(chain) : nftl'[chain[i]].ready
      BY <2>1 DEF ChainReady, Ready
    <3>5. \A i \in 1..Len(chain') : nftl'[chain'[i]].ready \/ i = Len(chain')
      BY <3>1, <3>2, <3>4
    <3>6. Len(chain') > 0 /\ chain'[Len(chain')] = This'
      BY <1>0, <3>1, <3>3
    <3> QED
      BY <2>3, <3>5, <3>6 DEF ChainReady, Ready
  <2> QED
    BY <1>3, <2>2, <2>3 DEF Attach, NextNtd
<1>4. ASSUME Initialize PROVE ChainReady'
  <2>1. pc = "initialize" /\ This \in Ids /\ pc' # "initialize"
        /\ chain[Len(chain)] = This /\ Len(chain) > 0
    BY <1>4 DEF Initialize, TypeInv, This, Counters, ChainReady, NextNtd
  <2>2. CASE chain' = SubSeq(chain, 1, Len(chain) - 1) /\ UNCHANGED nftl
    <3>1. /\ Len(chain') = Len(chain) - 1
          /\ \A i \in 1..Len(chain) - 1 : chain'[i] = chain[i]
      BY <2>1, <2>2, <1>0, ChainShorter
    <3> QED
      BY <1>0, <2>1, <2>2, <3>1 DEF ChainReady, Ready
  <2>3. CASE UNCHANGED chain /\ nftl' = [nftl EXCEPT ![This].ready = TRUE]
    <3>1. nftl'[This].ready /\ \A d \in Ids : nftl[d].ready => nftl'[d].ready
      BY <1>0, <2>1, <2>3 DEF NftlDev
    <3> QED
      BY <1>0, <2>1, <2>3, <3>1 DEF ChainReady, Ready
  <2> QED
    BY <1>4, <2>2, <2>3 DEF Initialize
<1>5. ASSUME SetFlags \/ RunThread PROVE ChainReady'
  <2>1. UNCHANGED chain /\ pc \in {"flags", "thread"} /\ pc' # "initialize"
    BY <1>5 DEF SetFlags, RunThread, NextNtd
  <2>2. This \in Ids
    BY <2>1 DEF TypeInv, This, Counters
  <2>3. Grows
    BY <1>0, <1>5, <2>2 DEF SetFlags, RunThread, Ready, NftlDev
  <2> QED
    BY <1>1, <2>1, <2>3
<1>6. ASSUME \/ RebootStep \/ Reboot \/ ChipHangs
             \/ \E d \in Ids : ThreadExit(d)
      PROVE  ChainReady'
  <2>1. UNCHANGED <<chain, pc, ntds, cur>>
    BY <1>6 DEF RebootStep, Reboot, NotifierFlush, NotifierStop, NotifierEnd,
                ChainDone, ShutDevice, Shutdown, ChipHangs, ThreadExit, probeVars
  <2>2. \A d \in Ids : Ready(d)' = Ready(d)
    <3>1. CASE NotifierStop
      <4>1. chain[reboot.i] \in Ids
        BY <3>1, <1>0 DEF NotifierStop, TypeInv, RebootAt
      <4> QED
        BY <3>1, <4>1, <1>0 DEF NotifierStop, Ready, NftlDev
    <3>2. CASE NotifierEnd
      <4>1. chain[reboot.i] \in Ids
        BY <3>2, <1>0 DEF NotifierEnd, TypeInv, RebootAt
      <4> QED
        BY <3>2, <4>1, <1>0 DEF NotifierEnd, Ready, NftlDev
    <3>3. CASE \E d \in Ids : ThreadExit(d)
      BY <3>3, <1>0 DEF ThreadExit, Ready, NftlDev
    <3>4. CASE \/ NotifierFlush \/ ChainDone \/ ShutDevice \/ Shutdown \/ Reboot
               \/ ChipHangs
      BY <3>4 DEF NotifierFlush, ChainDone, ShutDevice, Shutdown, Reboot, ChipHangs, Ready
    <3> QED
      BY <1>6, <3>1, <3>2, <3>3, <3>4 DEF RebootStep
  <2>3. This' = This
    BY <2>1 DEF This
  <2> QED
    BY <1>0, <2>1, <2>2, <2>3 DEF ChainReady
<1>7. CASE UNCHANGED vars
  BY <1>7 DEF vars, probeVars, ChainReady, Ready, This
<1> QED
  BY <1>2, <1>3, <1>4, <1>5, <1>6, <1>7 DEF StartNext, ProbeStep

-----------------------------------------------------------------------------

(* What the history records: a reboot during the probe, a thread that      *)
(* could not be started and a device freed when its registration failed    *)
(* each left their mark, and an oops had one of them as its cause.         *)
CauseInv ==
  /\ (InProbe /\ reboot.pc # "no") => "reboot_in_probe" \in hit
  /\ \A d \in Ids : nftl[d].thread = "error" => "kthread_run" \in hit
  /\ freed # {} => "pdev_register" \in hit
  /\ NoOops

(* The history is never forgotten.                                         *)
LEMMA HitGrows == ASSUME [StartNext]_vars PROVE hit \subseteq hit'
<1>1. CASE UNCHANGED vars
  BY <1>1 DEF vars
<1>2. CASE Probe \/ Reboot \/ RebootStep \/ ChipHangs \/ \E d \in Ids : ThreadExit(d)
  BY <1>2 DEF Probe, Reboot, RebootStep, NotifierFlush, NotifierStop, NotifierEnd,
              ChainDone, ShutDevice, Shutdown, ChipHangs, ThreadExit, Works, Fails
<1>3. CASE ProbeStep
  BY <1>3 DEF ProbeStep, MapNfc, PhyInit, LogicInit, LogicDone, DevInit, InitNftl,
              Attach, Initialize, SetFlags, RunThread, AddDisk, DisksDone, ProbeDone,
              AddNtdDevice, BootDeviceRegister, Works, Fails
<1> QED
  BY <1>1, <1>2, <1>3 DEF StartNext

(* A step of the probe leaves the reboot alone.                            *)
LEMMA ProbeGoesOn ==
  ASSUME ProbeStep
  PROVE  InProbe /\ UNCHANGED <<reboot, oops, shut, probes>>
  BY DEF ProbeStep, MapNfc, PhyInit, LogicInit, LogicDone, DevInit, InitNftl,
         Attach, Initialize, SetFlags, RunThread, AddDisk, DisksDone, ProbeDone,
         probeVars, InProbe

(* A step of the reboot leaves the probe alone.                            *)
LEMMA RebootGoesOn ==
  ASSUME RebootStep \/ \E d \in Ids : ThreadExit(d)
  PROVE  UNCHANGED <<pc, probeVars, chain>> /\ reboot.pc # "no"
  BY DEF RebootStep, NotifierFlush, NotifierStop, NotifierEnd,
         ChainDone, ShutDevice, Shutdown, ChipHangs, ThreadExit

(* No step dereferences a freed, an unstarted or an erroneous object       *)
(* without one of the three causes.                                        *)
LEMMA CauseInvStep ==
  TypeInv /\ ChainReady /\ CauseInv /\ [StartNext]_vars => CauseInv'
<1> SUFFICES ASSUME TypeInv, ChainReady, CauseInv, [StartNext]_vars PROVE CauseInv'
  OBVIOUS
<1>0. nftl \in [Ids -> NftlDev] /\ hit \subseteq hit'
  BY HitGrows DEF TypeInv
<1>1. (InProbe /\ reboot.pc # "no")' => "reboot_in_probe" \in hit'
  <2>1. CASE Probe
    BY <2>1 DEF Probe
  <2>2. CASE ProbeStep
    BY <2>2, <1>0, ProbeGoesOn DEF CauseInv
  <2>3. CASE Reboot
    BY <2>3 DEF Reboot, InProbe
  <2>4. CASE RebootStep \/ \E d \in Ids : ThreadExit(d)
    BY <2>4, <1>0, RebootGoesOn DEF CauseInv, InProbe
  <2>5. CASE ChipHangs \/ UNCHANGED vars
    BY <2>5, <1>0 DEF ChipHangs, vars, CauseInv, InProbe
  <2> QED
    BY <2>1, <2>2, <2>3, <2>4, <2>5 DEF StartNext
<1>2. \A d \in Ids : nftl'[d].thread = "error" => "kthread_run" \in hit'
  <2>1. CASE RunThread
    <3>1. This \in Ids
      BY <2>1 DEF RunThread, TypeInv, This, Counters
    <3> QED
      BY <1>0, <2>1, <3>1 DEF RunThread, CauseInv, NftlDev, Fails, Works
  <2>2. CASE Initialize \/ SetFlags
    <3>1. This \in Ids
      BY <2>2 DEF Initialize, SetFlags, TypeInv, This, Counters
    <3>2. \A d \in Ids : nftl'[d].thread = nftl[d].thread
      BY <1>0, <2>2, <3>1 DEF Initialize, SetFlags, NftlDev
    <3> QED
      BY <1>0, <3>2 DEF CauseInv
  <2>3. CASE NotifierStop \/ NotifierEnd
    <3>1. chain[reboot.i] \in Ids
      BY <2>3 DEF NotifierStop, NotifierEnd, TypeInv, RebootAt
    <3>2. \A d \in Ids : nftl'[d].thread = "error" => nftl[d].thread = "error"
      BY <1>0, <2>3, <3>1 DEF NotifierStop, NotifierEnd, NftlDev
    <3> QED
      BY <1>0, <3>2 DEF CauseInv
  <2>4. CASE \E d \in Ids : ThreadExit(d)
    <3>1. \A d \in Ids : nftl'[d].thread = "error" => nftl[d].thread = "error"
      BY <1>0, <2>4 DEF ThreadExit, NftlDev
    <3> QED
      BY <1>0, <3>1 DEF CauseInv
  <2>5. ASSUME UNCHANGED nftl
        PROVE  \A d \in Ids : nftl'[d].thread = "error" => "kthread_run" \in hit'
    BY <1>0, <2>5 DEF CauseInv
  <2>6. CASE UNCHANGED nftl
    BY <2>5, <2>6
  <2>7. \/ RunThread \/ Initialize \/ SetFlags \/ NotifierStop \/ NotifierEnd
        \/ (\E d \in Ids : ThreadExit(d)) \/ UNCHANGED nftl
    BY DEF StartNext, ProbeStep, RebootStep, Probe, MapNfc, PhyInit, LogicInit,
       LogicDone, DevInit, InitNftl, Attach, AddDisk, DisksDone, ProbeDone, Reboot,
       NotifierFlush, ChainDone, ShutDevice, Shutdown, ChipHangs, vars
  <2> QED
    BY <2>1, <2>2, <2>3, <2>4, <2>6, <2>7
<1>3. freed' # {} => "pdev_register" \in hit'
  <2>1. CASE DevInit
    BY <1>0, <2>1 DEF DevInit, CauseInv, Fails, Works
  <2>2. CASE UNCHANGED freed
    BY <1>0, <2>2 DEF CauseInv
  <2>3. DevInit \/ UNCHANGED freed
    BY DEF StartNext, ProbeStep, RebootStep, Probe, MapNfc, PhyInit, LogicInit,
       LogicDone, InitNftl, Attach, Initialize, SetFlags, RunThread, AddDisk,
       DisksDone, ProbeDone, Reboot,
       NotifierFlush, NotifierStop, NotifierEnd, ChainDone, ShutDevice, Shutdown, ChipHangs, ThreadExit,
       vars, probeVars
  <2> QED
    BY <2>1, <2>2, <2>3
<1>4. NoOops'
  <2>1. CASE NotifierFlush
    <3>1. CASE UNCHANGED oops
      BY <1>0, <3>1 DEF CauseInv, NoOops
    <3>2. CASE /\ reboot.pc = "chain" /\ reboot.i <= Len(chain)
               /\ ~nftl[chain[reboot.i]].ready
               /\ oops' = oops \cup {"unset_function"}
      <4>1. reboot.i \in 1..Len(chain)
        BY <3>2 DEF TypeInv, RebootAt
      <4>2. pc = "initialize"
        BY <3>2, <4>1 DEF ChainReady, Ready
      <4>3. "reboot_in_probe" \in hit'
        BY <1>0, <3>2, <4>2 DEF CauseInv, InProbe
      <4> QED
        BY <1>0, <3>2, <4>3 DEF CauseInv, NoOops
    <3> QED
      BY <2>1, <3>1, <3>2 DEF NotifierFlush, Dies
  <2>2. CASE NotifierStop
    <3>1. CASE UNCHANGED oops
      BY <1>0, <3>1 DEF CauseInv, NoOops
    <3>2. CASE /\ reboot.pc = "stop"
               /\ nftl[chain[reboot.i]].thread = "error"
               /\ oops' = oops \cup {"error_thread"}
      <4>1. chain[reboot.i] \in Ids
        BY <3>2 DEF TypeInv, RebootAt
      <4>2. "kthread_run" \in hit'
        BY <1>0, <3>2, <4>1 DEF CauseInv
      <4> QED
        BY <1>0, <3>2, <4>2 DEF CauseInv, NoOops
    <3> QED
      BY <2>2, <3>1, <3>2 DEF NotifierStop, Dies
  <2>3. CASE ShutDevice
    <3>1. CASE UNCHANGED oops
      BY <1>0, <3>1 DEF CauseInv, NoOops
    <3>2. CASE freed # {} /\ oops' = oops \cup {"freed_device"}
      BY <1>0, <3>2 DEF CauseInv, NoOops
    <3> QED
      BY <2>3, <3>1, <3>2 DEF ShutDevice, Dies
  <2>4. CASE UNCHANGED oops
    BY <1>0, <2>4 DEF CauseInv, NoOops
  <2>5. NotifierFlush \/ NotifierStop \/ ShutDevice \/ UNCHANGED oops
    BY ProbeGoesOn DEF StartNext, RebootStep, Probe, Reboot, NotifierEnd, ChainDone,
       Shutdown, ThreadExit, ChipHangs, vars
  <2> QED
    BY <2>1, <2>2, <2>3, <2>4, <2>5
<1> QED
  BY <1>1, <1>2, <1>3, <1>4 DEF CauseInv

(* For any devices and partitions, the kernel oopses only if the reboot    *)
(* came during the probe, if kthread_run failed (nftl_thread holds its     *)
(* error) or if a registration failed (the phydev was freed on the list).  *)
THEOREM OopsHasACause == StartSpec => []NoOops
<1> DEFINE Inv == TypeInv /\ ChainReady /\ CauseInv
<1>1. StartInit => Inv
  <2> SUFFICES ASSUME StartInit PROVE Inv
    OBVIOUS
  <2>1. TypeInv
    BY TypeInvInit
  <2>2. ChainReady
    BY DEF StartInit, ChainReady
  <2>3. CauseInv
    BY DEF StartInit, CauseInv, NoOops, InProbe
  <2> QED
    BY <2>1, <2>2, <2>3
<1>2. Inv /\ [StartNext]_vars => Inv'
  BY TypeInvStep, ChainReadyStep, CauseInvStep
<1>3. Inv => NoOops
  BY DEF CauseInv
<1> QED
  BY <1>1, <1>2, <1>3, PTL DEF StartSpec

-----------------------------------------------------------------------------
(* A started device is on the chain, and the devices the probe has not     *)
(* reached are not started.                                                *)
ReadyInv ==
  /\ pc \in Early \cup {"logic", "dev"} => \A d \in Ids : ~Ready(d)
  /\ pc \in {"attach", "initialize"} =>
       \A j \in 1..Len(ntds) : j >= cur.i => ~Ready(ntds[j])
  /\ pc \in {"flags", "thread", "disk"} =>
       \A j \in 1..Len(ntds) : j > cur.i => ~Ready(ntds[j])
  /\ \A d \in Ids : Ready(d) => InChain(d)

(* Only aml_nftl_initialize makes a device ready.                          *)
LEMMA ReadyUnchanged ==
  ASSUME TypeInv, [StartNext]_vars
  PROVE  Initialize \/ \A d \in Ids : nftl'[d].ready = nftl[d].ready
<1>0. nftl \in [Ids -> NftlDev]
  BY DEF TypeInv
<1>1. CASE SetFlags \/ RunThread
  <2>1. This \in Ids
    BY <1>1 DEF SetFlags, RunThread, TypeInv, This, Counters
  <2> QED
    BY <1>0, <1>1, <2>1 DEF SetFlags, RunThread, NftlDev
<1>2. CASE NotifierStop \/ NotifierEnd
  <2>1. chain[reboot.i] \in Ids
    BY <1>2 DEF NotifierStop, NotifierEnd, TypeInv, RebootAt
  <2> QED
    BY <1>0, <1>2, <2>1 DEF NotifierStop, NotifierEnd, NftlDev
<1>3. CASE \E d \in Ids : ThreadExit(d)
  BY <1>0, <1>3 DEF ThreadExit, NftlDev
<1>4. CASE UNCHANGED nftl
  BY <1>4
<1>5. \/ Initialize \/ SetFlags \/ RunThread \/ NotifierStop \/ NotifierEnd
      \/ (\E d \in Ids : ThreadExit(d)) \/ UNCHANGED nftl
  BY DEF StartNext, ProbeStep, RebootStep, Probe, MapNfc, PhyInit, LogicInit,
     LogicDone, DevInit, InitNftl, Attach, AddDisk, DisksDone, ProbeDone, Reboot,
     NotifierFlush, ChainDone, ShutDevice, Shutdown, ChipHangs, vars
<1> QED
  BY <1>1, <1>2, <1>3, <1>4, <1>5

(* Every step keeps this.                                                  *)
LEMMA ReadyInvStep ==
  TypeInv /\ NtdInv /\ ChainReady /\ ReadyInv /\ [StartNext]_vars => ReadyInv'
<1> SUFFICES ASSUME TypeInv, NtdInv, ChainReady, ReadyInv, [StartNext]_vars
             PROVE  ReadyInv'
  OBVIOUS
<1>0. /\ chain \in Seq(Ids) /\ Len(chain) \in Nat
      /\ ntds \in Seq(Ids) /\ Len(ntds) \in Nat
      /\ \A j \in 1..Len(ntds) : ntds[j] \in Ids
      /\ nftl \in [Ids -> NftlDev] /\ cur.i \in Nat \ {0}
  BY DEF TypeInv, Counters
<1> DEFINE Same == \A d \in Ids : nftl'[d].ready = nftl[d].ready
<1>2. ASSUME Same, UNCHANGED <<chain, ntds>>, pc \in Early \cup {"logic", "dev"}
      PROVE  ReadyInv'
  BY <1>0, <1>2 DEF ReadyInv, Ready, InChain, Early
<1>3. CASE \/ Probe \/ MapNfc \/ PhyInit \/ LogicInit \/ LogicDone \/ DevInit
           \/ InitNftl
  <2>1. /\ UNCHANGED <<chain, nftl>> /\ pc \in Early \cup {"logic", "dev"}
        /\ UNCHANGED ntds \/ pc' \in Early \cup {"logic", "dev", "bound"}
    BY <1>3 DEF Probe, MapNfc, PhyInit, LogicInit, AddNtdDevice, BootDeviceRegister,
                LogicDone, DevInit, InitNftl, Early
  <2>2. CASE UNCHANGED ntds
    BY <1>2, <2>1, <2>2
  <2>3. CASE pc' \in Early \cup {"logic", "dev", "bound"}
    BY <2>1, <2>3 DEF ReadyInv, Ready, InChain, Early
  <2> QED
    BY <2>1, <2>2, <2>3
<1>4. ASSUME UNCHANGED <<ntds, nftl>>, pc' = "attach", cur' = Advance, chain' = chain,
             pc \in {"attach", "thread", "disk"}
      PROVE  ReadyInv'
  <2>1. cur'.i = cur.i + 1
    BY <1>4, CountersOK DEF TypeInv
  <2> QED
    BY <1>0, <1>4, <2>1 DEF ReadyInv, Ready, InChain, Early
<1>5. CASE Attach
  <2>1. CASE NextNtd /\ UNCHANGED chain
    BY <1>4, <1>5, <2>1 DEF Attach, NextNtd
  <2>2. CASE /\ chain' = Append(chain, This) /\ pc' = "initialize"
             /\ UNCHANGED <<cur, ntds, nftl>> /\ pc = "attach" /\ This \in Ids
    <3>1. \A d : InChain(d) => InChain(d)'
      BY <1>0, <2>2 DEF InChain
    <3>2. \A d \in Ids : Ready(d)' => InChain(d)'
      BY <2>2, <3>1 DEF ReadyInv, Ready
    <3> QED
      BY <2>2, <3>2 DEF ReadyInv, Ready, Early
  <2>3. This \in Ids
    BY <1>5 DEF Attach, TypeInv, This, Counters
  <2> QED
    BY <1>5, <2>1, <2>2, <2>3 DEF Attach
<1>6. CASE Initialize
  <2>1. /\ pc = "initialize" /\ cur.i \in 1..Len(ntds) /\ This \in Ids
        /\ UNCHANGED ntds /\ This = ntds[cur.i]
        /\ Len(chain) > 0 /\ chain[Len(chain)] = This
    BY <1>0, <1>6 DEF Initialize, TypeInv, This, ChainReady
  <2>2. CASE chain' = SubSeq(chain, 1, Len(chain) - 1) /\ UNCHANGED nftl /\ NextNtd
    <3>1. /\ Len(chain') = Len(chain) - 1
          /\ \A i \in 1..Len(chain) - 1 : chain'[i] = chain[i]
      BY <2>1, <2>2, <1>0, ChainShorter
    <3>2. cur'.i = cur.i + 1 /\ pc' = "attach"
      BY <2>2, CountersOK DEF TypeInv, NextNtd
    <3>3. ~Ready(This)
      BY <1>0, <2>1 DEF ReadyInv
    <3>4. ASSUME NEW d \in Ids, Ready(d) PROVE InChain(d)'
      <4>1. PICK i \in 1..Len(chain) : chain[i] = d
        BY <3>4 DEF ReadyInv, InChain
      <4>2. i # Len(chain)
        BY <4>1, <3>3, <3>4, <2>1
      <4> QED
        BY <1>0, <3>1, <4>1, <4>2 DEF InChain
    <3>5. \A j \in 1..Len(ntds) : j >= cur'.i => ~Ready(ntds[j])
      BY <1>0, <2>1, <3>2 DEF ReadyInv
    <3> QED
      BY <2>1, <2>2, <3>2, <3>4, <3>5 DEF ReadyInv, Ready, Early
  <2>3. CASE /\ UNCHANGED <<chain, cur>> /\ pc' = "flags"
             /\ nftl' = [nftl EXCEPT ![This].ready = TRUE]
    <3>1. \A d \in Ids : d # This => nftl'[d].ready = nftl[d].ready
      BY <1>0, <2>1, <2>3 DEF NftlDev
    <3>2. InChain(This)
      BY <1>0, <2>1 DEF InChain
    <3>3. \A d \in Ids : nftl'[d].ready => InChain(d)
      BY <3>1, <3>2 DEF ReadyInv, Ready
    <3>4. \A j \in 1..Len(ntds) : j > cur.i => ntds[j] # This
      BY <1>0, <2>1 DEF NtdInv
    <3>5. \A j \in 1..Len(ntds) : j > cur.i => ~nftl'[ntds[j]].ready
      BY <1>0, <2>1, <3>1, <3>4 DEF ReadyInv, Ready
    <3> QED
      BY <2>1, <2>3, <3>3, <3>5 DEF ReadyInv, Ready, InChain, Early
  <2> QED
    BY <1>6, <2>2, <2>3 DEF Initialize
<1>7. CASE SetFlags \/ RunThread \/ AddDisk
  <2>0. Same
    BY ReadyUnchanged, <1>7 DEF SetFlags, RunThread, AddDisk, Initialize
  <2>1. CASE UNCHANGED <<chain, ntds>> /\ cur'.i = cur.i /\ pc' \in {"thread", "disk"}
             /\ pc \in {"flags", "thread", "disk"}
    BY <1>0, <2>0, <2>1 DEF ReadyInv, Ready, InChain, Early
  <2>2. CASE UNCHANGED <<chain, ntds>> /\ NextNtd /\ pc \in {"flags", "thread", "disk"}
    <3>1. cur'.i = cur.i + 1 /\ pc' = "attach"
      BY <2>2, CountersOK DEF TypeInv, NextNtd
    <3> QED
      BY <1>0, <2>0, <2>2, <3>1 DEF ReadyInv, Ready, InChain, Early
  <2> QED
    BY <1>7, <2>1, <2>2 DEF SetFlags, RunThread, AddDisk, probeVars
<1>8. CASE DisksDone
  BY <1>4, <1>8 DEF DisksDone, NextNtd
<1>9. CASE ProbeDone
  BY <1>9 DEF ProbeDone, ReadyInv, Ready, InChain, Early
<1>10. CASE RebootStep \/ (\E d \in Ids : ThreadExit(d)) \/ Reboot \/ ChipHangs
  <2>1. UNCHANGED <<pc, cur, ntds, chain>>
    BY <1>10, RebootGoesOn DEF Reboot, ChipHangs, probeVars
  <2>2. Same
    BY <1>10, ReadyUnchanged, RebootGoesOn DEF Reboot, ChipHangs, Initialize
  <2> QED
    BY <1>0, <2>1, <2>2 DEF ReadyInv, Ready, InChain, Early
<1>11. CASE UNCHANGED vars
  BY <1>11 DEF vars, probeVars, ReadyInv, Ready, InChain
<1> QED
  BY <1>3, <1>5, <1>6, <1>7, <1>8, <1>9, <1>10, <1>11 DEF StartNext, ProbeStep

-----------------------------------------------------------------------------

(* The notifier has marked device d as rebooting.                          *)
Flagged(d) == nftl[d].reboot_flag

(* The thread of device d was stopped or never started.                    *)
Stopped(d) == nftl[d].thread = "null"

(* How far the walk along the notifier chain has come: the devices passed  *)
(* are marked and their threads stopped, nothing is marked before the      *)
(* walk, and after it all are marked unless a flush ended it early.        *)
WalkInv ==
  /\ reboot.pc = "no" => reboot.i = 1 /\ \A d \in Ids : ~Flagged(d)
  /\ \A d \in Ids : Flagged(d) => Stopped(d)
  /\ reboot.pc = "pair" => Stopped(chain[reboot.i])
  /\ reboot.pc \in {"chain", "stop", "pair"} =>
       \A j \in 1..Len(chain) : j < reboot.i => Flagged(chain[j])
  /\ (reboot.pc \in {"shutdown", "done"} /\ "flush" \notin hit) =>
       \A j \in 1..Len(chain) : Flagged(chain[j])

(* How far amlnf_shutdown has come along the list of a bound device; it    *)
(* has not begun while the device is not bound.                            *)
ShutInv ==
  /\ reboot.pc = "shutdown" =>
       IF pc = "bound"
       THEN \A j \in 1..Len(phydevs) : j < reboot.i => phydevs[j] \in shut
       ELSE reboot.i = 1
  /\ reboot.pc = "done" =>
       /\ ~InProbe
       /\ pc = "bound" => \A i \in 1..Len(phydevs) : phydevs[i] \in shut

(* Every step keeps this.                                                  *)
LEMMA ShutInvStep == TypeInv /\ ShutInv /\ [StartNext]_vars => ShutInv'
<1> SUFFICES ASSUME TypeInv, ShutInv, [StartNext]_vars PROVE ShutInv'
  OBVIOUS
<1>0. reboot \in RebootAt /\ reboot.i \in Nat \ {0}
  BY DEF TypeInv, RebootAt
<1>1. CASE Probe
  BY <1>1 DEF Probe, ShutInv
<1>2. CASE ProbeStep
  <2>1. reboot.pc = "shutdown" => reboot.i = 1
    BY <1>2, ProbeGoesOn DEF ShutInv, InProbe
  <2>2. UNCHANGED reboot /\ reboot.pc # "done"
    BY <1>2, ProbeGoesOn DEF ShutInv
  <2>3. \A j \in 1..Len(phydevs') : ~(j < 1)
    OBVIOUS
  <2> QED
    BY <2>1, <2>2, <2>3 DEF ShutInv
<1>3. CASE ShutDevice
  <2>1. CASE reboot'.pc = "oops"
    BY <2>1 DEF ShutInv
  <2>2. CASE /\ shut' = shut \cup {phydevs[reboot.i]}
             /\ reboot' = [reboot EXCEPT !.i = @ + 1]
    <3>1. /\ reboot'.pc = "shutdown" /\ reboot'.i = reboot.i + 1
          /\ pc = "bound" /\ reboot.pc = "shutdown" /\ UNCHANGED <<pc, phydevs>>
      BY <1>0, <1>3, <2>2 DEF ShutDevice, RebootAt, probeVars
    <3>2. \A j \in 1..Len(phydevs) : j < reboot.i + 1 => phydevs[j] \in shut'
      BY <1>0, <2>2, <3>1 DEF ShutInv
    <3> QED
      BY <3>1, <3>2 DEF ShutInv
  <2> QED
    BY <1>0, <1>3, <2>1, <2>2 DEF ShutDevice, Dies, RebootAt
<1>4. CASE Shutdown
  <2>1. /\ reboot'.pc = "done" /\ UNCHANGED <<pc, phydevs, shut>> /\ ~InProbe
        /\ reboot.pc = "shutdown"
        /\ pc = "bound" => reboot.i > Len(phydevs)
    BY <1>0, <1>4 DEF Shutdown, RebootAt, probeVars
  <2>2. pc = "bound" => \A i \in 1..Len(phydevs) : phydevs[i] \in shut
    BY <1>0, <2>1 DEF ShutInv, TypeInv
  <2> QED
    BY <2>1, <2>2 DEF ShutInv, InProbe
<1>5. CASE Reboot \/ NotifierFlush \/ NotifierStop \/ NotifierEnd \/ ChainDone
  <2>1. reboot'.pc # "done" /\ (reboot'.pc = "shutdown" => reboot'.i = 1)
    BY <1>0, <1>5 DEF Reboot, NotifierFlush, NotifierStop, NotifierEnd, ChainDone, Dies,
                RebootAt
  <2>2. \A j \in 1..Len(phydevs') : ~(j < 1)
    OBVIOUS
  <2> QED
    BY <2>1, <2>2 DEF ShutInv
<1>6. CASE ChipHangs \/ (\E d \in Ids : ThreadExit(d)) \/ UNCHANGED vars
  <2>1. UNCHANGED <<pc, phydevs, shut, reboot>>
    BY <1>6 DEF ChipHangs, ThreadExit, vars, probeVars
  <2> QED
    BY <2>1 DEF ShutInv, InProbe
<1> QED
  BY <1>1, <1>2, <1>3, <1>4, <1>5, <1>6 DEF StartNext, RebootStep

(* Every step keeps the walk so, as long as the reboot did not come during *)
(* the probe.                                                              *)
LEMMA WalkInvStep ==
  ASSUME TypeInv, CauseInv, WalkInv, [StartNext]_vars, "reboot_in_probe" \notin hit'
  PROVE  WalkInv'
<1>0. /\ nftl \in [Ids -> NftlDev] /\ hit \subseteq hit'
      /\ chain \in Seq(Ids) /\ Len(chain) \in Nat /\ reboot \in RebootAt
      /\ \A i \in 1..Len(chain) : chain[i] \in Ids
      /\ reboot.i \in Nat \ {0}
  BY HitGrows DEF TypeInv, RebootAt
<1>1. CASE ProbeStep
  <2>1. reboot.pc = "no" /\ UNCHANGED reboot
    BY <1>0, <1>1, ProbeGoesOn DEF CauseInv
  <2>2. \A d \in Ids : nftl'[d].reboot_flag => nftl[d].reboot_flag
    <3>1. CASE Initialize \/ SetFlags \/ RunThread
      <4>1. This \in Ids
        BY <3>1 DEF Initialize, SetFlags, RunThread, TypeInv, This, Counters
      <4> QED
        BY <1>0, <3>1, <4>1 DEF Initialize, SetFlags, RunThread, NftlDev
    <3>2. CASE UNCHANGED nftl
      BY <3>2
    <3>3. Initialize \/ SetFlags \/ RunThread \/ UNCHANGED nftl
      BY <1>1 DEF ProbeStep, MapNfc, PhyInit, LogicInit, LogicDone, DevInit, InitNftl,
                  Attach, AddDisk, DisksDone, ProbeDone
    <3> QED
      BY <3>1, <3>2, <3>3
  <2>3. \A d \in Ids : ~nftl'[d].reboot_flag
    BY <2>1, <2>2 DEF WalkInv, Flagged
  <2>4. reboot.i = 1
    BY <2>1 DEF WalkInv
  <2>5. \A j \in 1..Len(chain') : ~(j < 1)
    OBVIOUS
  <2> QED
    BY <2>1, <2>3, <2>4, <2>5 DEF WalkInv, Flagged, Stopped
<1>2. CASE UNCHANGED <<nftl, chain, reboot>>
  BY <1>0, <1>2 DEF WalkInv, Flagged, Stopped
<1>3. CASE Reboot
  <2>1. /\ reboot'.pc = "chain" /\ reboot'.i = 1 /\ UNCHANGED <<nftl, chain>>
    BY <1>0, <1>3 DEF Reboot, RebootAt, WalkInv
  <2> QED
    BY <2>1 DEF WalkInv, Flagged, Stopped
<1>4. CASE NotifierFlush
  <2>1. UNCHANGED <<nftl, chain>> /\ reboot.pc = "chain" /\ reboot.i \in 1..Len(chain)
    BY <1>0, <1>4 DEF NotifierFlush
  <2>2. CASE reboot' = [reboot EXCEPT !.i = @ + 1] /\ nftl[chain[reboot.i]].reboot_flag
    <3>1. reboot'.pc = "chain" /\ reboot'.i = reboot.i + 1
      BY <1>0, <2>1, <2>2 DEF RebootAt
    <3>2. \A j \in 1..Len(chain) : j < reboot'.i => Flagged(chain[j])
      BY <1>0, <2>2, <3>1 DEF WalkInv, Flagged
    <3> QED
      BY <2>1, <3>1, <3>2 DEF WalkInv, Flagged, Stopped
  <2>3. CASE reboot'.pc \in {"oops", "stop"} /\ reboot'.i = reboot.i
    BY <2>1, <2>3 DEF WalkInv, Flagged, Stopped
  <2> QED
    BY <1>0, <1>4, <2>2, <2>3 DEF NotifierFlush, Dies, RebootAt
<1>5. CASE NotifierStop
  <2>1. UNCHANGED chain /\ reboot.pc = "stop" /\ chain[reboot.i] \in Ids
    BY <1>0, <1>5 DEF NotifierStop, TypeInv
  <2>2. reboot'.pc \in {"oops", "pair"} /\ reboot'.i = reboot.i
    BY <1>0, <1>5 DEF NotifierStop, Dies, RebootAt
  <2>3. /\ \A d \in Ids : nftl'[d].reboot_flag = nftl[d].reboot_flag
        /\ \A d \in Ids : nftl[d].thread = "null" => nftl'[d].thread = "null"
    BY <1>0, <1>5, <2>1 DEF NotifierStop, NftlDev
  <2>4. reboot'.pc = "pair" => nftl'[chain[reboot.i]].thread = "null"
    BY <1>0, <1>5, <2>1 DEF NotifierStop, NftlDev, Dies, RebootAt
  <2>5. \A d \in Ids : Flagged(d)' => Stopped(d)'
    BY <2>3 DEF WalkInv, Flagged, Stopped
  <2>6. \A j \in 1..Len(chain) : j < reboot.i => nftl'[chain[j]].reboot_flag
    BY <1>0, <2>1, <2>3 DEF WalkInv, Flagged
  <2> QED
    BY <2>1, <2>2, <2>4, <2>5, <2>6 DEF WalkInv, Flagged, Stopped
<1>6. CASE NotifierEnd
  <2>1. UNCHANGED chain /\ reboot.pc = "pair" /\ chain[reboot.i] \in Ids
        /\ reboot.i \in 1..Len(chain)
    BY <1>0, <1>6 DEF NotifierEnd, TypeInv
  <2>2. \/ reboot'.i = reboot.i + 1 /\ reboot'.pc = "chain"
        \/ reboot'.pc = "shutdown" /\ "flush" \in hit'
    BY <1>6 DEF NotifierEnd, Fails
  <2>3. /\ \A d \in Ids : nftl'[d].thread = nftl[d].thread
        /\ \A d \in Ids : d # chain[reboot.i] =>
             nftl'[d].reboot_flag = nftl[d].reboot_flag
        /\ nftl'[chain[reboot.i]].reboot_flag
    BY <1>0, <1>6, <2>1 DEF NotifierEnd, NftlDev
  <2>4. \A d \in Ids : Flagged(d)' => Stopped(d)'
    BY <2>1, <2>3 DEF WalkInv, Flagged, Stopped
  <2>5. \A j \in 1..Len(chain) : j < reboot.i + 1 => nftl'[chain[j]].reboot_flag
    BY <1>0, <2>1, <2>3 DEF WalkInv, Flagged
  <2> QED
    BY <2>1, <2>2, <2>4, <2>5 DEF WalkInv, Flagged, Stopped
<1>7. CASE ChainDone
  <2>1. /\ UNCHANGED <<nftl, chain>> /\ reboot'.pc = "shutdown"
        /\ reboot.pc = "chain" /\ reboot.i > Len(chain)
    BY <1>0, <1>7 DEF ChainDone
  <2>2. \A j \in 1..Len(chain) : Flagged(chain[j])
    BY <1>0, <2>1 DEF WalkInv
  <2> QED
    BY <2>1, <2>2 DEF WalkInv, Flagged, Stopped
<1>8. CASE ShutDevice \/ Shutdown
  <2>1. /\ UNCHANGED <<nftl, chain, hit>> /\ reboot'.pc \in {"shutdown", "done", "oops"}
        /\ reboot.pc = "shutdown"
    BY <1>0, <1>8 DEF ShutDevice, Shutdown, Dies, RebootAt
  <2> QED
    BY <2>1 DEF WalkInv, Flagged, Stopped
<1>9. ASSUME NEW e \in Ids, ThreadExit(e) PROVE WalkInv'
  <2>1. UNCHANGED <<chain, reboot, hit>> /\ reboot.pc = "stop"
        /\ nftl[e].thread = "running"
    BY <1>9 DEF ThreadExit
  <2>2. /\ \A d \in Ids : nftl'[d].reboot_flag = nftl[d].reboot_flag
        /\ \A d \in Ids : d # e => nftl'[d].thread = nftl[d].thread
    BY <1>0, <1>9 DEF ThreadExit, NftlDev
  <2>3. ~Flagged(e)
    BY <2>1 DEF WalkInv, Stopped
  <2>4. \A d \in Ids : Flagged(d)' => Stopped(d)'
    BY <2>2, <2>3 DEF WalkInv, Flagged, Stopped
  <2>5. \A j \in 1..Len(chain) : j < reboot.i => nftl'[chain[j]].reboot_flag
    BY <1>0, <2>1, <2>2 DEF WalkInv, Flagged
  <2> QED
    BY <2>1, <2>4, <2>5 DEF WalkInv, Flagged, Stopped
<1>10. CASE Probe \/ ChipHangs \/ UNCHANGED vars
  BY <1>2, <1>10 DEF Probe, ChipHangs, vars
<1> QED
  BY <1>1, <1>3, <1>4, <1>5, <1>6, <1>7, <1>8, <1>9, <1>10 DEF StartNext, RebootStep

(* When the reboot is over every started device was told, its thread is    *)
(* stopped and every physical device is shut down, unless a flush failed   *)
(* in a notifier or the reboot came during the probe.                      *)
THEOREM RebootIsComplete == StartSpec => []RebootReachesAll
<1> DEFINE Walked == "reboot_in_probe" \notin hit => WalkInv
           Inv == /\ TypeInv /\ NtdInv /\ ChainReady /\ CauseInv /\ ReadyInv
                  /\ ShutInv /\ Walked
<1>1. StartInit => Inv
  <2> SUFFICES ASSUME StartInit PROVE Inv
    OBVIOUS
  <2>0. /\ \A d \in Ids : ~nftl[d].ready /\ ~nftl[d].reboot_flag /\ nftl[d].thread = "null"
        /\ reboot.pc = "no" /\ reboot.i = 1
    BY DEF StartInit
  <2>1. TypeInv
    BY TypeInvInit
  <2>2. NtdInv
    BY DEF StartInit, NtdInv
  <2>3. ChainReady /\ ReadyInv
    BY <2>0 DEF StartInit, ChainReady, ReadyInv, Ready
  <2>4. CauseInv /\ ShutInv
    BY <2>0 DEF StartInit, CauseInv, NoOops, InProbe, ShutInv
  <2>5. WalkInv
    BY <2>0 DEF StartInit, WalkInv, Flagged, Stopped
  <2> QED
    BY <2>1, <2>2, <2>3, <2>4, <2>5
<1>2. Inv /\ [StartNext]_vars => Inv'
  <2> SUFFICES ASSUME Inv, [StartNext]_vars PROVE Inv'
    OBVIOUS
  <2>1. Walked'
    BY WalkInvStep, HitGrows
  <2> QED
    BY <2>1, TypeInvStep, NtdInvStep, ChainReadyStep, CauseInvStep, ReadyInvStep,
       ShutInvStep
<1>3. Inv => RebootReachesAll
  <2> SUFFICES ASSUME Inv, reboot.pc = "done",
                      "reboot_in_probe" \notin hit, "flush" \notin hit
               PROVE  /\ \A d \in Ids : nftl[d].ready =>
                            nftl[d].reboot_flag /\ nftl[d].thread = "null"
                      /\ pc = "bound" => \A i \in DOMAIN phydevs : phydevs[i] \in shut
    BY DEF RebootReachesAll
  <2>1. \A j \in 1..Len(chain) : Flagged(chain[j])
    BY DEF WalkInv
  <2>2. ASSUME NEW d \in Ids, nftl[d].ready
        PROVE  nftl[d].reboot_flag /\ nftl[d].thread = "null"
    <3>1. PICK i \in 1..Len(chain) : chain[i] = d
      BY <2>2 DEF ReadyInv, Ready, InChain
    <3>2. Flagged(d)
      BY <2>1, <3>1 DEF WalkInv
    <3> QED
      BY <3>2 DEF WalkInv, Flagged, Stopped
  <2>3. pc = "bound" => \A i \in DOMAIN phydevs : phydevs[i] \in shut
    BY DEF ShutInv, TypeInv
  <2> QED
    BY <2>2, <2>3
<1> QED
  BY <1>1, <1>2, <1>3, PTL DEF StartSpec

-----------------------------------------------------------------------------

(* A disk of the block layer.                                              *)
Disk == [devnum : Nat, dev : Ids, part : Nat, offset : Nat, size : Nat]

(* The sector past the last one of disk k.                                 *)
EndOf(k) == k.offset + k.size

(* The disks of a device are on it and apart, and the next one will start  *)
(* at or past the end of the ones made so far.                             *)
DiskInv ==
  /\ \A k \in disks :
       /\ k \in Disk /\ Ready(k.dev) /\ k.devnum < dev_num
       /\ EndOf(k) <= Devs[k.dev].cap
  /\ \A k, l \in disks :
       k # l => /\ k.devnum # l.devnum
                /\ k.dev = l.dev => EndOf(k) <= l.offset \/ EndOf(l) <= k.offset
  /\ pc \in {"flags", "thread", "disk"} => Ready(This)
  /\ pc \in {"flags", "thread"} => \A k \in disks : k.dev # This
  /\ pc = "disk" =>
       \A k \in disks : k.dev = This => EndOf(k) <= cur.offset \div Sector

(* Rounding two lengths down to sectors never gives more than rounding     *)
(* their sum.                                                              *)
LEMMA DivSum ==
  ASSUME NEW a \in Nat, NEW b \in Nat, NEW s \in Nat \ {0}
  PROVE  /\ a \div s \in Nat /\ b \div s \in Nat /\ (a + b) \div s \in Nat
         /\ a \div s + b \div s <= (a + b) \div s
<1> DEFINE x == a \div s
           y == b \div s
           z == (a + b) \div s
<1>1. x \in Nat /\ y \in Nat /\ z \in Nat
  BY Z3
<1>2. s * x <= a /\ s * y <= b /\ a + b < s * z + s
  BY Z3
<1>3. s * x + s * y < s * z + s
  BY <1>1, <1>2, Z3
<1> HIDE DEF x, y, z
<1>4. s * (x + y) < s * (z + 1)
  BY <1>1, <1>3, Z3
<1>5. x + y < z + 1
  BY <1>1, <1>4, Z3
<1>6. x + y <= z
  BY <1>1, <1>5, Z3
<1> QED
  BY <1>1, <1>6 DEF x, y, z

(* The size aml_nftl_add_ntd gives to a disk keeps it within the device    *)
(* and short of the start of the next partition.                           *)
LEMMA BlkSizeFits ==
  ASSUME NEW offset \in Nat, NEW size \in Nat, NEW cap \in Nat,
         offset \div Sector < cap
  PROVE  /\ BlkSize(offset, size, cap) \in Nat
         /\ offset \div Sector \in Nat
         /\ offset \div Sector + BlkSize(offset, size, cap) <= cap
         /\ offset \div Sector + BlkSize(offset, size, cap) <= (offset + size) \div Sector
<1>1. Sector \in Nat \ {0}
  BY StartupAssumption
<1> DEFINE x == offset \div Sector
           y == size \div Sector
           z == (offset + size) \div Sector
<1>2. x \in Nat /\ y \in Nat /\ z \in Nat /\ x + y <= z
  BY <1>1, DivSum
<1>3. BlkSize(offset, size, cap) = IF x + y <= cap THEN y ELSE cap - x
  BY DEF BlkSize
<1>4. x < cap
  OBVIOUS
<1> HIDE DEF x, y, z
<1>5. /\ BlkSize(offset, size, cap) \in Nat
      /\ x + BlkSize(offset, size, cap) <= cap
      /\ x + BlkSize(offset, size, cap) <= z
  BY <1>2, <1>3, <1>4
<1> QED
  BY <1>2, <1>5 DEF x, z

(* Every step keeps the disks so.                                          *)
LEMMA DiskInvStep ==
  TypeInv /\ ReadyInv /\ DiskInv /\ [StartNext]_vars => DiskInv'
<1> SUFFICES ASSUME TypeInv, ReadyInv, DiskInv, [StartNext]_vars PROVE DiskInv'
  OBVIOUS
<1>0. nftl \in [Ids -> NftlDev] /\ dev_num \in Nat
  BY DEF TypeInv
<1>1. \A d \in Ids : Ready(d) => nftl'[d].ready
  <2>1. CASE Initialize
    <3>1. This \in Ids
      BY <2>1 DEF Initialize, TypeInv, This, Counters
    <3> QED
      BY <1>0, <2>1, <3>1 DEF Initialize, Ready, NftlDev
  <2> QED
    BY <2>1, ReadyUnchanged DEF Ready
<1>2. ASSUME disks' = disks, dev_num' = dev_num
      PROVE  /\ \A k \in disks' :
                  /\ k \in Disk /\ nftl'[k.dev].ready /\ k.devnum < dev_num'
                  /\ EndOf(k) <= Devs[k.dev].cap
             /\ \A k, l \in disks' :
                  k # l => /\ k.devnum # l.devnum
                           /\ k.dev = l.dev => EndOf(k) <= l.offset \/ EndOf(l) <= k.offset
  BY <1>1, <1>2 DEF DiskInv, Disk
<1>3. ASSUME disks' = disks, dev_num' = dev_num, pc' \notin {"flags", "thread", "disk"}
      PROVE  DiskInv'
  BY <1>2, <1>3 DEF DiskInv, Ready, EndOf
<1>4. CASE InitNftl
  <2>1. disks' = {} /\ pc' \notin {"flags", "thread", "disk"}
    BY <1>4 DEF InitNftl
  <2> QED
    BY <2>1 DEF DiskInv
<1>5. ASSUME pc \in {"flags", "thread", "disk"}, Ready(This) PROVE nftl'[This].ready
  <2>1. This \in Ids
    BY <1>5 DEF TypeInv, This, Counters
  <2> QED
    BY <1>1, <1>5, <2>1
<1>6. CASE \/ Probe \/ MapNfc \/ PhyInit \/ LogicInit \/ LogicDone \/ DevInit
           \/ Attach \/ DisksDone \/ ProbeDone
  <2>1. disks' = disks /\ dev_num' = dev_num
    BY <1>6 DEF Probe, MapNfc, PhyInit, LogicInit, LogicDone, DevInit, Attach,
                DisksDone, ProbeDone, probeVars
  <2>2. pc' \notin {"flags", "thread", "disk"}
    BY <1>6 DEF Probe, MapNfc, PhyInit, LogicInit, AddNtdDevice, BootDeviceRegister,
                LogicDone, DevInit, Attach, DisksDone, ProbeDone, NextNtd
  <2> QED
    BY <1>3, <2>1, <2>2
<1>7. CASE Initialize
  <2>1. disks' = disks /\ dev_num' = dev_num /\ pc = "initialize"
    BY <1>7 DEF Initialize
  <2>2. CASE pc' = "attach"
    BY <1>3, <2>1, <2>2
  <2>3. CASE pc' = "flags" /\ UNCHANGED <<cur, ntds>>
    <3>1. cur.i \in 1..Len(ntds) /\ cur.i >= cur.i
      BY <2>1 DEF TypeInv, Counters
    <3>2. ~Ready(This)
      BY <2>1, <3>1 DEF ReadyInv, This
    <3>3. \A k \in disks : k.dev # This
      BY <3>2 DEF DiskInv
    <3>4. This' = This
      BY <2>3 DEF This
    <3>5. nftl'[This].ready
      BY <1>0, <1>7, <2>3, <3>1 DEF Initialize, NextNtd, TypeInv, This, NftlDev
    <3> QED
      BY <1>2, <2>1, <2>3, <3>3, <3>4, <3>5 DEF DiskInv, Ready, EndOf
  <2> QED
    BY <1>7, <2>2, <2>3 DEF Initialize, NextNtd
<1>8. CASE SetFlags
  <2>1. disks' = disks /\ dev_num' = dev_num /\ pc = "flags" /\ pc' = "thread"
    BY <1>8 DEF SetFlags, probeVars
  <2>2. This' = This
    BY <1>8 DEF SetFlags, This, probeVars
  <2>3. \A k \in disks : k.dev # This
    BY <2>1 DEF DiskInv
  <2>4. nftl'[This].ready
    BY <1>5, <2>1 DEF DiskInv
  <2> QED
    BY <1>2, <2>1, <2>2, <2>3, <2>4 DEF DiskInv, Ready, EndOf
<1>9. CASE RunThread
  <2>1. disks' = disks /\ dev_num' = dev_num /\ pc = "thread"
    BY <1>9 DEF RunThread
  <2>2. CASE pc' = "attach"
    BY <1>3, <2>1, <2>2
  <2>3. CASE pc' = "disk" /\ UNCHANGED <<cur, ntds>>
    <3>1. This' = This
      BY <2>3 DEF This
    <3>2. \A k \in disks : k.dev # This
      BY <2>1 DEF DiskInv
    <3>3. nftl'[This].ready
      BY <1>5, <2>1 DEF DiskInv
    <3> QED
      BY <1>2, <2>1, <2>3, <3>1, <3>2, <3>3 DEF DiskInv, Ready, EndOf
  <2> QED
    BY <1>9, <2>2, <2>3 DEF RunThread, NextNtd
<1>10. CASE AddDisk
  <2> DEFINE size == Devs[This].parts[cur.part]
             cap == Devs[This].cap
             new == [devnum |-> dev_num, dev |-> This, part |-> cur.part,
                     offset |-> cur.offset \div Sector,
                     size |-> BlkSize(cur.offset, size, cap)]
  <2>1. pc = "disk" /\ UNCHANGED <<ntds, nftl>>
    BY <1>10 DEF AddDisk
  <2>2. CASE NextNtd /\ UNCHANGED disks /\ dev_num' \in {dev_num, dev_num + 1}
    <3>1. \A k \in disks : k.devnum < dev_num'
      BY <1>0, <2>2 DEF DiskInv, Disk
    <3> QED
      BY <2>1, <2>2, <3>1 DEF DiskInv, Ready, NextNtd
  <2>3. CASE /\ cur.offset \div Sector < cap /\ disks' = disks \cup {new}
             /\ dev_num' = dev_num + 1 /\ cur.part <= Len(Devs[This].parts)
             /\ cur' = [i |-> cur.i, part |-> cur.part + 1, offset |-> cur.offset + size]
             /\ pc' = "disk"
    <3>1. /\ This \in Ids /\ cur.offset \in Nat /\ cur.part \in Nat \ {0}
          /\ cur.i \in 1..Len(ntds)
      BY <2>1 DEF TypeInv, This, Counters
    <3>2. size \in Nat /\ cap \in Nat
      <4> DEFINE parts == Devs[This].parts
      <4>1. parts \in Seq(Nat) /\ cur.part \in 1..Len(parts) /\ cap \in Nat
        BY <2>3, <3>1, DevTyped
      <4> HIDE DEF parts
      <4>2. parts[cur.part] \in Nat
        BY <4>1
      <4> QED
        BY <4>1, <4>2 DEF parts
    <3> HIDE DEF size, cap
    <3>3. /\ new.size \in Nat /\ new.offset \in Nat
          /\ EndOf(new) <= cap /\ EndOf(new) <= (cur.offset + size) \div Sector
      BY <2>3, <3>1, <3>2, BlkSizeFits DEF EndOf
    <3>4. new \in Disk /\ new.dev = This /\ new.devnum = dev_num
      BY <1>0, <3>1, <3>3 DEF Disk
    <3>5. new.offset = cur.offset \div Sector
      OBVIOUS
    <3>6. cur.offset \div Sector <= (cur.offset + size) \div Sector
          /\ cur.offset \div Sector \in Nat /\ (cur.offset + size) \div Sector \in Nat
      BY <3>1, <3>2, DivSum, StartupAssumption
    <3>7. cur'.offset = cur.offset + size /\ This' = This
      BY <2>1, <2>3 DEF This
    <3>8. Ready(This)
      BY <2>1, <3>1 DEF DiskInv
    <3> HIDE DEF new
    <3>9. \A k \in disks' :
            /\ k \in Disk /\ nftl'[k.dev].ready /\ k.devnum < dev_num'
            /\ EndOf(k) <= Devs[k.dev].cap
      <4>1. ASSUME NEW k \in disks
            PROVE  /\ k \in Disk /\ nftl'[k.dev].ready /\ k.devnum < dev_num'
                   /\ EndOf(k) <= Devs[k.dev].cap
        BY <1>0, <2>1, <2>3 DEF DiskInv, Disk, Ready
      <4>2. /\ new \in Disk /\ nftl'[new.dev].ready /\ new.devnum < dev_num'
            /\ EndOf(new) <= Devs[new.dev].cap
        BY <1>0, <2>1, <2>3, <3>3, <3>4, <3>8 DEF Ready, cap
      <4> QED
        BY <2>3, <4>1, <4>2
    <3>10. \A k \in disks :
             k.devnum # new.devnum /\ (k.dev = new.dev => EndOf(k) <= new.offset)
      BY <1>0, <2>1, <3>4, <3>5 DEF DiskInv, Disk
    <3>11. \A k, l \in disks' :
             k # l => /\ k.devnum # l.devnum
                      /\ k.dev = l.dev => EndOf(k) <= l.offset \/ EndOf(l) <= k.offset
      BY <2>3, <3>10 DEF DiskInv
    <3>12. \A k \in disks' :
             k.dev = This => EndOf(k) <= (cur.offset + size) \div Sector
      <4>1. ASSUME NEW k \in disks, k.dev = This
            PROVE  EndOf(k) <= (cur.offset + size) \div Sector
        <5>1. EndOf(k) <= cur.offset \div Sector /\ EndOf(k) \in Nat
          BY <2>1, <4>1 DEF DiskInv, Disk, EndOf
        <5> QED
          BY <3>6, <5>1
      <4> QED
        BY <2>3, <3>3, <4>1
    <3>13. nftl'[This].ready
      BY <2>1, <3>8 DEF Ready
    <3> QED
      BY <2>3, <3>7, <3>9, <3>11, <3>12, <3>13 DEF DiskInv, Ready, EndOf
  <2> QED
    BY <1>10, <2>2, <2>3 DEF AddDisk
<1>11. CASE RebootStep \/ (\E d \in Ids : ThreadExit(d)) \/ Reboot \/ ChipHangs
  <2>1. UNCHANGED <<pc, cur, ntds, disks, dev_num>>
    BY <1>11, RebootGoesOn DEF Reboot, ChipHangs, probeVars
  <2>2. This' = This
    BY <2>1 DEF This
  <2>3. pc \in {"flags", "thread", "disk"} => nftl'[This].ready
    BY <1>5 DEF DiskInv
  <2> QED
    BY <1>2, <2>1, <2>2, <2>3 DEF DiskInv, Ready, EndOf
<1>12. CASE UNCHANGED vars
  BY <1>12 DEF vars, probeVars, DiskInv, Ready, EndOf, This
<1> QED
  BY <1>4, <1>6, <1>7, <1>8, <1>9, <1>10, <1>11, <1>12 DEF StartNext, ProbeStep

(* Two disks never share a number or, on one device, a sector, and no disk *)
(* reaches past the end of its device, whatever the sizes of the           *)
(* partitions and of the device are.                                       *)
THEOREM DisksDoNotOverlap == StartSpec => []DisksApart
<1> DEFINE Inv == TypeInv /\ NtdInv /\ ChainReady /\ ReadyInv /\ DiskInv
<1>1. StartInit => Inv
  <2> SUFFICES ASSUME StartInit PROVE Inv
    OBVIOUS
  <2>1. \A d \in Ids : ~nftl[d].ready
    BY DEF StartInit
  <2>2. TypeInv /\ NtdInv
    BY TypeInvInit DEF StartInit, NtdInv
  <2>3. ChainReady /\ ReadyInv
    BY <2>1 DEF StartInit, ChainReady, ReadyInv, Ready
  <2>4. DiskInv
    BY DEF StartInit, DiskInv
  <2> QED
    BY <2>2, <2>3, <2>4
<1>2. Inv /\ [StartNext]_vars => Inv'
  BY TypeInvStep, NtdInvStep, ChainReadyStep, ReadyInvStep, DiskInvStep
<1>3. Inv => DisksApart
  <2> SUFFICES ASSUME Inv, NEW k \in disks
               PROVE  /\ Extent(k) \subseteq 0..Devs[k.dev].cap - 1
                      /\ nftl[k.dev].ready /\ \E i \in DOMAIN chain : chain[i] = k.dev
                      /\ \A l \in disks \ {k} :
                           /\ l.devnum # k.devnum
                           /\ l.dev = k.dev => Extent(k) \cap Extent(l) = {}
    BY DEF DisksApart
  <2>1. /\ k.dev \in Ids /\ k.offset \in Nat /\ k.size \in Nat /\ Ready(k.dev)
        /\ k.offset + k.size <= Devs[k.dev].cap
    BY DEF DiskInv, Disk, EndOf
  <2>2. Devs[k.dev].cap \in Nat
    BY <2>1, DevTyped
  <2>3. Extent(k) \subseteq 0..Devs[k.dev].cap - 1
    BY <2>1, <2>2 DEF Extent
  <2>4. nftl[k.dev].ready /\ \E i \in DOMAIN chain : chain[i] = k.dev
    BY <2>1 DEF ReadyInv, Ready, InChain, TypeInv
  <2>5. ASSUME NEW l \in disks \ {k}
        PROVE  /\ l.devnum # k.devnum
               /\ l.dev = k.dev => Extent(k) \cap Extent(l) = {}
    <3>1. l.offset \in Nat /\ l.size \in Nat
      BY DEF DiskInv, Disk
    <3>2. /\ l.devnum # k.devnum
          /\ l.dev = k.dev =>
               k.offset + k.size <= l.offset \/ l.offset + l.size <= k.offset
      BY DEF DiskInv, EndOf
    <3> QED
      BY <2>1, <3>1, <3>2 DEF Extent
  <2> QED
    BY <2>3, <2>4, <2>5
<1> QED
  BY <1>1, <1>2, <1>3, PTL DEF StartSpec

-----------------------------------------------------------------------------
(* A set of numbers that is not empty has a least element.                 *)
LEMMA LeastNumber ==
  ASSUME NEW T \in SUBSET Nat, T # {}
  PROVE  \E x \in T : \A y \in T : x <= y
<1>1. PICK x \in T : \A y \in T : ~(<<y, x>> \in OpToRel(<, Nat))
  BY NatLessThanWellFounded, WFMin
<1>2. \A y \in T : x <= y
  <2> SUFFICES ASSUME NEW y \in T PROVE x <= y
    OBVIOUS
  <2>1. x \in Nat /\ y \in Nat
    OBVIOUS
  <2> DEFINE R == OpToRel(<, Nat)
  <2>2. y < x => <<y, x>> \in R
    BY <2>1 DEF OpToRel
  <2>3. ~(<<y, x>> \in R)
    BY <1>1
  <2> HIDE DEF R
  <2> QED
    BY <2>1, <2>2, <2>3
<1> QED
  BY <1>2

(* f adds up the first n members of s.                                     *)
Adds(f, s, n) ==
  /\ f \in [0..n -> Nat]
  /\ f[0] = 0
  /\ \A q \in 1..n : f[q] = f[q - 1] + s[q]

(* Such a function exists, as far as s reaches.                            *)
LEMMA SumExists ==
  ASSUME NEW s \in Seq(Nat), NEW m \in 0..Len(s)
  PROVE  \E f : Adds(f, s, m)
<1>0. Len(s) \in Nat /\ m \in Nat
  OBVIOUS
<1> DEFINE T == {n \in 0..Len(s) : ~\E f : Adds(f, s, n)}
<1>1. SUFFICES T = {}
  OBVIOUS
<1>2. SUFFICES ASSUME T # {} PROVE FALSE
  OBVIOUS
<1>3. PICK n \in T : \A y \in T : n <= y
  <2>1. T \in SUBSET Nat
    BY <1>0
  <2> QED
    BY <1>2, <2>1, LeastNumber
<1>4. n \in 0..Len(s) /\ ~\E f : Adds(f, s, n)
  BY <1>3
<1>5. CASE n = 0
  <2> DEFINE f == [q \in 0..0 |-> 0]
  <2>1. Adds(f, s, 0)
    BY DEF Adds
  <2> QED
    BY <1>4, <1>5, <2>1
<1>6. CASE n # 0
  <2>1. n - 1 \in 0..Len(s) /\ n - 1 \notin T /\ n \in 1..Len(s)
    BY <1>0, <1>3, <1>4, <1>6
  <2>2. PICK f : Adds(f, s, n - 1)
    BY <2>1
  <2> DEFINE g == [q \in 0..n |-> IF q = n THEN f[n - 1] + s[n] ELSE f[q]]
  <2>3. s[n] \in Nat /\ f[n - 1] \in Nat /\ n - 1 \in Nat /\ f[0] = 0
    BY <1>0, <2>1, <2>2 DEF Adds
  <2>4. g \in [0..n -> Nat]
    <3>1. ASSUME NEW q \in 0..n, q # n PROVE f[q] \in Nat
      <4>1. q \in 0..n - 1
        BY <1>0, <2>1, <3>1
      <4> QED
        BY <2>2, <4>1 DEF Adds
    <3> QED
      BY <2>3, <3>1
  <2>5. g[0] = 0
    BY <1>0, <2>1, <2>3
  <2>6. ASSUME NEW q \in 1..n PROVE g[q] = g[q - 1] + s[q]
    <3>1. q \in 0..n /\ q - 1 \in 0..n /\ q - 1 # n
      BY <1>0, <2>1
    <3>2. g[q - 1] = f[q - 1]
      BY <3>1
    <3>3. CASE q = n
      BY <3>1, <3>2, <3>3
    <3>4. CASE q # n
      <4>1. q \in 1..n - 1
        BY <1>0, <2>1, <3>4
      <4> QED
        BY <2>2, <3>1, <3>2, <3>4, <4>1 DEF Adds
    <3> QED
      BY <3>3, <3>4
  <2>7. Adds(g, s, n)
    BY <2>4, <2>5, <2>6 DEF Adds
  <2> QED
    BY <1>4, <2>7
<1> QED
  BY <1>5, <1>6

(* Where the partitions of a device begin: the first at 0, each behind the *)
(* one before it.                                                          *)
LEMMA BeginAdds ==
  ASSUME NEW d \in Ids
  PROVE  /\ Begin(d, 1) = 0
         /\ \A p \in 1..Len(Devs[d].parts) :
              /\ Begin(d, p) \in Nat
              /\ Begin(d, p + 1) = Begin(d, p) + Devs[d].parts[p]
<1> DEFINE s == Devs[d].parts
           F(f) == [q \in 0..Len(s) |-> IF q = 0 THEN 0 ELSE f[q - 1] + s[q]]
           sum == CHOOSE f : f = F(f)
<1>1. s \in Seq(Nat) /\ Len(s) \in Nat
  BY DevTyped
<1>2. \E f : f = F(f)
  <2>1. PICK f : Adds(f, s, Len(s))
    BY <1>1, SumExists
  <2>2. f = [q \in 0..Len(s) |-> f[q]]
    BY <2>1 DEF Adds
  <2>3. \A q \in 0..Len(s) : f[q] = IF q = 0 THEN 0 ELSE f[q - 1] + s[q]
    BY <1>1, <2>1 DEF Adds
  <2> QED
    BY <2>2, <2>3
<1>3. sum = F(sum)
  BY <1>2
<1>4. \A p : Begin(d, p) = sum[p - 1]
  BY DEF Begin
<1> HIDE DEF sum
<1>5. sum[0] = 0 /\ \A q \in 1..Len(s) : sum[q] = sum[q - 1] + s[q]
  <2> HIDE DEF s
  <2>1. \A q \in 0..Len(s) : F(sum)[q] = IF q = 0 THEN 0 ELSE sum[q - 1] + s[q]
    OBVIOUS
  <2> HIDE DEF F
  <2>2. \A q \in 0..Len(s) : sum[q] = IF q = 0 THEN 0 ELSE sum[q - 1] + s[q]
    BY <1>3, <2>1
  <2> QED
    BY <1>1, <2>2
<1>6. \A q \in 0..Len(s) : sum[q] \in Nat
  <2> DEFINE T == {q \in 0..Len(s) : sum[q] \notin Nat}
  <2>1. SUFFICES ASSUME T # {} PROVE FALSE
    OBVIOUS
  <2>2. PICK n \in T : \A y \in T : n <= y
    <3>1. T \in SUBSET Nat
      BY <1>1
    <3> QED
      BY <2>1, <3>1, LeastNumber
  <2>3. n # 0 /\ n \in 1..Len(s)
    BY <1>1, <1>5, <2>2
  <2>4. n - 1 \in 0..Len(s) /\ n - 1 \notin T
    BY <1>1, <2>2, <2>3
  <2>5. sum[n - 1] \in Nat /\ s[n] \in Nat
    BY <1>1, <2>3, <2>4
  <2> QED
    BY <1>5, <2>2, <2>3, <2>5
<1>7. Begin(d, 1) = 0
  BY <1>4, <1>5
<1>8. ASSUME NEW p \in 1..Len(s)
      PROVE  Begin(d, p) \in Nat /\ Begin(d, p + 1) = Begin(d, p) + s[p]
  <2>1. p - 1 \in 0..Len(s) /\ (p + 1) - 1 = p
    BY <1>1
  <2> QED
    BY <1>4, <1>5, <1>6, <2>1
<1> HIDE DEF s
<1>9. \A p \in 1..Len(s) : Begin(d, p) \in Nat /\ Begin(d, p + 1) = Begin(d, p) + s[p]
  BY <1>8
<1> QED
  BY <1>7, <1>9 DEF s

(* A partition does not begin before the ones in front of it.              *)
LEMMA BeginGrows ==
  ASSUME NEW d \in Ids, NEW p \in 1..Len(Devs[d].parts),
         NEW r \in 1..Len(Devs[d].parts), p <= r
  PROVE  Begin(d, p) <= Begin(d, r)
<1> DEFINE s == Devs[d].parts
           T == {q \in p..Len(s) : ~(Begin(d, p) <= Begin(d, q))}
<1>1. s \in Seq(Nat) /\ Len(s) \in Nat /\ p \in Nat /\ r \in Nat
  BY DevTyped
<1>2. SUFFICES ASSUME T # {} PROVE FALSE
  BY <1>1
<1>3. PICK n \in T : \A y \in T : n <= y
  <2>1. T \in SUBSET Nat
    BY <1>1
  <2> QED
    BY <1>2, <2>1, LeastNumber
<1>4. Begin(d, p) \in Nat
  BY BeginAdds
<1>5. n # p /\ n \in p..Len(s)
  BY <1>3, <1>4
<1>6. n - 1 \in p..Len(s) /\ n - 1 \notin T /\ n - 1 \in 1..Len(s)
  BY <1>1, <1>3, <1>5
<1>7. Begin(d, p) <= Begin(d, n - 1)
  BY <1>6
<1>8. Begin(d, n - 1) \in Nat /\ Begin(d, (n - 1) + 1) = Begin(d, n - 1) + s[n - 1]
  BY <1>6, BeginAdds
<1>9. (n - 1) + 1 = n /\ s[n - 1] \in Nat
  <2> HIDE DEF s, T
  <2> QED
    BY <1>1, <1>5, <1>6
<1>10. Begin(d, p) <= Begin(d, n)
  BY <1>4, <1>7, <1>8, <1>9
<1> QED
  BY <1>3, <1>10

-----------------------------------------------------------------------------
(* No step of the probe has failed.                                        *)
Unfailed == hit \subseteq {"reboot_in_probe", "flush", "block_test"}

(* Partition p of device d begins inside the device.                       *)
Inside(d, p) == Begin(d, p) \div Sector < Devs[d].cap

(* It has its disk among D.                                                *)
HasDisk(D, d, p) == \E k \in D : k.dev = d /\ k.part = p

(* The partitions of d before the n-th have their disks among D.           *)
Covered(D, d, n) ==
  \A p \in 1..Len(Devs[d].parts) : (p < n /\ Inside(d, p)) => HasDisk(D, d, p)

(* All partitions of d have, if d is selected.                             *)
Finished(D, d) ==
  Devs[d].enabled =>
    \A p \in 1..Len(Devs[d].parts) : Inside(d, p) => HasDisk(D, d, p)

(* Device d has its NTD entry.                                             *)
InNtds(d) == \E j \in 1..Len(ntds) : ntds[j] = d

(* The NTD entries before the current one are done with.                   *)
Behind == \A j \in 1..Len(ntds) : j < cur.i => Finished(disks, ntds[j])

(* What the loops of a probe in which nothing failed have done: the first  *)
(* ones make an NTD entry for every device, the loop over the entries is   *)
(* done with those before the current one, and the loop over partitions    *)
(* stands where its partition begins.                                      *)
CompleteInv ==
  Unfailed =>
    /\ pc \in {"logic", "dev"} => Len(phydevs) = Len(Devs)
    /\ pc = "logic" => \A d \in Ids : d < cur.i /\ ~Devs[d].boot => InNtds(d)
    /\ pc \notin Early \cup {"logic"} => \A d \in Ids : ~Devs[d].boot => InNtds(d)
    /\ pc \in {"attach", "initialize", "flags", "thread"} =>
         cur.part = 1 /\ cur.offset = 0
    /\ pc \in {"attach", "initialize", "flags", "thread", "disk"} => Behind
    /\ pc = "disk" => /\ cur.offset = Begin(This, cur.part)
                      /\ Covered(disks, This, cur.part)
    /\ pc = "bound" => \A j \in 1..Len(ntds) : Finished(disks, ntds[j])

(* The counters of the loops at their first element and past it.           *)
LEMMA CounterFields ==
  /\ First.i = 1 /\ First.part = 1 /\ First.offset = 0
  /\ cur \in Counters => Advance.i = cur.i + 1 /\ Advance.part = 1 /\ Advance.offset = 0
  BY DEF First, Advance, Counters

(* A step that fails is on record.                                         *)
LEMMA FailureShows ==
  ASSUME NEW f \in FaultKinds \ {"flush", "block_test"}, Fails(f)
  PROVE  ~(Unfailed')
  BY DEF Fails, Unfailed, FaultKinds

(* Rounding down to sectors keeps the order.                               *)
LEMMA SectorOrder ==
  ASSUME NEW a \in Nat, NEW b \in Nat, a <= b
  PROVE  a \div Sector <= b \div Sector /\ a \div Sector \in Nat /\ b \div Sector \in Nat
<1> DEFINE c == b - a
           x == a \div Sector
           y == c \div Sector
           z == (a + c) \div Sector
<1>1. c \in Nat /\ a + c = b /\ Sector \in Nat \ {0}
  BY StartupAssumption
<1>2. x \in Nat /\ y \in Nat /\ z \in Nat /\ x + y <= z
  <2> HIDE DEF c
  <2> QED
    BY <1>1, DivSum
<1>3. z = b \div Sector
  BY <1>1
<1> HIDE DEF x, y, z, c
<1>4. x <= z
  BY <1>2
<1> QED
  BY <1>2, <1>3, <1>4 DEF x

(* Every step keeps this.                                                  *)
LEMMA CompleteInvStep ==
  TypeInv /\ NtdInv /\ CompleteInv /\ [StartNext]_vars => CompleteInv'
<1> SUFFICES ASSUME TypeInv, NtdInv, CompleteInv, [StartNext]_vars, Unfailed'
             PROVE  CompleteInv'
  BY DEF CompleteInv
<1>0. Unfailed
  BY HitGrows DEF Unfailed
<1>1. cur \in Counters /\ ntds \in Seq(Ids) /\ Len(ntds) \in Nat /\ cur.i \in Nat \ {0}
  BY DEF TypeInv, Counters
<1>2. Ids = 1..Len(Devs) /\ Len(Devs) \in Nat
  BY StartupAssumption DEF Ids
<1>3. ASSUME UNCHANGED <<pc, cur, ntds, phydevs, disks>> PROVE CompleteInv'
  <2>1. (\A d \in Ids : InNtds(d)' <=> InNtds(d)) /\ (Behind' <=> Behind)
    BY <1>3 DEF InNtds, Behind
  <2>2. This' = This /\ (Covered(disks, This, cur.part)' <=> Covered(disks, This, cur.part))
    BY <1>3 DEF This
  <2>3. Begin(This, cur.part)' = Begin(This, cur.part)
    BY <1>3 DEF This
  <2> QED
    BY <1>0, <1>3, <2>1, <2>2, <2>3 DEF CompleteInv
<1>4. CASE Probe \/ MapNfc
  <2>1. pc' \in Early
    BY <1>4 DEF Probe, MapNfc, Early
  <2> QED
    BY <2>1 DEF CompleteInv, Early
<1>5. CASE PhyInit
  <2>1. ~Fails("phy")
    BY FailureShows DEF FaultKinds
  <2>2. pc' = "logic" /\ phydevs' = [i \in Ids |-> i] /\ cur' = First
    BY <1>5, <2>1 DEF PhyInit
  <2>3. Len(phydevs') = Len(Devs)
    BY <1>2, <2>2, IdSequence
  <2>4. \A d \in Ids : ~(d < cur'.i)
    BY <1>2, <2>2, CounterFields
  <2> QED
    BY <2>2, <2>3, <2>4 DEF CompleteInv, Early
<1>6. CASE LogicInit
  <2>1. /\ pc = "logic" /\ cur.i <= Len(phydevs) /\ cur'.i = cur.i + 1
        /\ phydevs' = phydevs /\ Len(phydevs) = Len(Devs)
    BY <1>0, <1>1, <1>6, CounterFields DEF LogicInit, CompleteInv
  <2>2. phydevs[cur.i] = cur.i /\ cur.i \in Ids
    BY <1>1, <1>2, <2>1 DEF NtdInv
  <2>3. \A f \in {"boot_device", "memory", "idr", "init_ntd", "ntd_register"} : ~Fails(f)
    BY FailureShows DEF FaultKinds
  <2>4. pc' = "logic" /\ (IF Devs[cur.i].boot THEN ntds' = ntds ELSE ntds' = Append(ntds, cur.i))
    BY <1>6, <2>2, <2>3 DEF LogicInit, BootDeviceRegister, AddNtdDevice
  <2>5. ASSUME NEW d \in Ids, d < cur'.i, ~Devs[d].boot PROVE InNtds(d)'
    <3>1. d < cur.i \/ d = cur.i
      BY <1>1, <1>2, <2>1, <2>5
    <3>2. CASE ntds' = ntds
      <4>1. d < cur.i
        BY <2>4, <2>5, <3>1, <3>2, <1>1
      <4> QED
        BY <1>0, <2>1, <2>5, <3>2, <4>1 DEF CompleteInv, InNtds
    <3>3. CASE ntds' = Append(ntds, cur.i)
      <4>1. /\ Len(ntds') = Len(ntds) + 1 /\ ntds'[Len(ntds) + 1] = cur.i
            /\ \A j \in 1..Len(ntds) : ntds'[j] = ntds[j]
        BY <1>1, <3>3
      <4>2. CASE d = cur.i
        BY <1>1, <4>1, <4>2 DEF InNtds
      <4>3. CASE d < cur.i
        <5>1. PICK j \in 1..Len(ntds) : ntds[j] = d
          BY <1>0, <2>1, <2>5, <4>3 DEF CompleteInv, InNtds
        <5>2. j \in 1..Len(ntds') /\ ntds'[j] = d
          BY <1>1, <4>1, <5>1
        <5> QED
          BY <5>2 DEF InNtds
      <4> QED
        BY <3>1, <4>2, <4>3
    <3> QED
      BY <2>4, <3>2, <3>3
  <2> QED
    BY <2>1, <2>4, <2>5 DEF CompleteInv, Early
<1>7. CASE LogicDone
  <2>1. /\ pc = "logic" /\ cur.i > Len(phydevs) /\ pc' = "dev"
        /\ UNCHANGED <<phydevs, ntds>> /\ Len(phydevs) = Len(Devs)
    BY <1>0, <1>7 DEF LogicDone, CompleteInv
  <2>2. \A d \in Ids : d < cur.i
    BY <1>1, <1>2, <2>1
  <2>3. \A d \in Ids : ~Devs[d].boot => InNtds(d)'
    BY <1>0, <2>1, <2>2 DEF CompleteInv, InNtds
  <2> QED
    BY <2>1, <2>3 DEF CompleteInv
<1>8. ASSUME pc \notin Early \cup {"logic"}, ntds' = ntds
      PROVE  \A d \in Ids : ~Devs[d].boot => InNtds(d)'
  BY <1>0, <1>8 DEF CompleteInv, InNtds
<1>9. CASE DevInit
  <2>1. ~Fails("pdev_register") /\ ~Fails("class")
    BY FailureShows DEF FaultKinds
  <2>2. pc = "dev" /\ pc' = "dev" /\ UNCHANGED <<phydevs, ntds>>
    BY <1>9, <2>1 DEF DevInit
  <2>3. Len(phydevs') = Len(Devs)
    BY <1>0, <2>2 DEF CompleteInv
  <2> QED
    BY <1>8, <2>2, <2>3 DEF CompleteInv, Early
<1>10. CASE InitNftl
  <2>1. ~Fails("blkdev") /\ ~Fails("class")
    BY FailureShows DEF FaultKinds
  <2>2. pc = "dev" /\ pc' = "attach" /\ cur' = First /\ ntds' = ntds
    BY <1>10, <2>1 DEF InitNftl
  <2>3. \A j \in 1..Len(ntds) : ~(j < cur'.i)
    BY <1>1, <2>2, CounterFields
  <2> QED
    BY <1>8, <2>2, <2>3, CounterFields DEF CompleteInv, Early, Behind
<1>11. ASSUME NEW d, disks \subseteq disks', Finished(disks, d) PROVE Finished(disks', d)
  BY <1>11 DEF Finished, HasDisk
<1>12. ASSUME pc \in {"attach", "initialize", "flags", "thread", "disk"},
              NextNtd, UNCHANGED <<ntds, disks>>, Finished(disks, This)
       PROVE  CompleteInv'
  <2>1. pc' = "attach" /\ cur'.i = cur.i + 1 /\ cur'.part = 1 /\ cur'.offset = 0
    BY <1>1, <1>12, CounterFields DEF NextNtd
  <2>2. \A j \in 1..Len(ntds) : j < cur.i => Finished(disks, ntds[j])
    BY <1>0, <1>12 DEF CompleteInv, Behind
  <2>3. \A j \in 1..Len(ntds) : j < cur'.i => Finished(disks, ntds[j])
    <3>1. \A j \in 1..Len(ntds) : j < cur'.i => j < cur.i \/ j = cur.i
      BY <1>1, <2>1
    <3> QED
      BY <1>12, <2>2, <3>1 DEF This
  <2>4. Behind'
    <3>1. ASSUME NEW j \in 1..Len(ntds), j < cur'.i, NEW d, d = ntds[j] PROVE Finished(disks', d)
      <4>1. Finished(disks, d)
        BY <2>3, <3>1
      <4> QED
        BY <1>11, <1>12, <4>1
    <3>2. ntds' = ntds
      BY <1>12
    <3> QED
      BY <3>1, <3>2 DEF Behind
  <2>5. \A d \in Ids : ~Devs[d].boot => InNtds(d)'
    BY <1>8, <1>12 DEF Early
  <2> QED
    BY <2>1, <2>4, <2>5 DEF CompleteInv
<1>13. ASSUME pc \in {"attach", "initialize", "flags", "thread", "disk"},
              ntds' = ntds, cur'.i = cur.i, disks \subseteq disks'
       PROVE  /\ Behind'
              /\ \A d \in Ids : ~Devs[d].boot => InNtds(d)'
  <2>1. Behind'
    <3>1. ASSUME NEW j \in 1..Len(ntds), j < cur.i, NEW d, d = ntds[j] PROVE Finished(disks', d)
      <4>1. Finished(disks, d)
        BY <1>0, <1>13, <3>1 DEF CompleteInv, Behind
      <4> QED
        BY <1>11, <1>13, <4>1
    <3> QED
      BY <1>13, <3>1 DEF Behind
  <2> QED
    BY <1>8, <1>13, <2>1 DEF Early
<1>14. CASE Attach
  <2>1. ~Fails("memory")
    BY FailureShows DEF FaultKinds
  <2>2. pc = "attach" /\ UNCHANGED <<ntds, disks>>
    BY <1>14 DEF Attach
  <2>3. CASE ~Devs[This].enabled /\ NextNtd
    BY <1>12, <2>2, <2>3 DEF Finished
  <2>4. CASE pc' = "initialize" /\ cur' = cur
    <3>1. cur'.part = 1 /\ cur'.offset = 0
      BY <1>0, <2>2, <2>4 DEF CompleteInv
    <3>2. Behind' /\ \A d \in Ids : ~Devs[d].boot => InNtds(d)'
      BY <1>13, <2>2, <2>4
    <3> QED
      BY <2>4, <3>1, <3>2 DEF CompleteInv
  <2> QED
    BY <1>14, <2>1, <2>3, <2>4 DEF Attach
<1>15. CASE Initialize \/ SetFlags
  <2>1. ~Fails("oob")
    BY FailureShows DEF FaultKinds
  <2>2. /\ pc \in {"initialize", "flags"} /\ pc' \in {"flags", "thread"}
        /\ UNCHANGED <<ntds, disks, cur>>
    BY <1>15, <2>1 DEF Initialize, SetFlags, probeVars
  <2>3. cur'.part = 1 /\ cur'.offset = 0
    BY <1>0, <2>2 DEF CompleteInv
  <2>4. Behind' /\ \A d \in Ids : ~Devs[d].boot => InNtds(d)'
    BY <1>13, <2>2
  <2> QED
    BY <2>2, <2>3, <2>4 DEF CompleteInv
<1>16. CASE RunThread
  <2>1. ~Fails("kthread_run")
    BY FailureShows DEF FaultKinds
  <2>2. pc = "thread" /\ pc' = "disk" /\ UNCHANGED <<ntds, disks, cur>>
    BY <1>16, <2>1 DEF RunThread
  <2>3. cur'.part = 1 /\ cur'.offset = 0 /\ This' = This
    BY <1>0, <2>2 DEF CompleteInv, This
  <2>4. Behind' /\ \A d \in Ids : ~Devs[d].boot => InNtds(d)'
    BY <1>13, <2>2
  <2>5. This \in Ids
    BY <2>2 DEF TypeInv, This, Counters
  <2>6. Begin(This, 1) = 0 /\ Covered(disks', This, 1)
    BY <2>5, BeginAdds DEF Covered
  <2> QED
    BY <2>2, <2>3, <2>4, <2>6 DEF CompleteInv
<1>17. CASE DisksDone
  <2>1. pc = "disk" /\ cur.part > Len(Devs[This].parts) /\ NextNtd /\ UNCHANGED <<ntds, disks>>
    BY <1>17 DEF DisksDone
  <2>2. This \in Ids /\ cur.part \in Nat
    BY <2>1 DEF TypeInv, This, Counters
  <2>3. Len(Devs[This].parts) \in Nat
    BY <2>2, DevTyped
  <2>4. Covered(disks, This, cur.part)
    BY <1>0, <2>1 DEF CompleteInv
  <2>5. \A p \in 1..Len(Devs[This].parts) : p < cur.part
    BY <2>1, <2>2, <2>3
  <2> QED
    BY <1>12, <2>1, <2>4, <2>5 DEF Covered, Finished
<1>18. CASE AddDisk
  <2> DEFINE parts == Devs[This].parts
             size == parts[cur.part]
             cap == Devs[This].cap
             new == [devnum |-> dev_num, dev |-> This, part |-> cur.part,
                     offset |-> cur.offset \div Sector,
                     size |-> BlkSize(cur.offset, size, cap)]
  <2>1. ~Fails("memory")
    BY FailureShows DEF FaultKinds
  <2>2. pc = "disk" /\ ntds' = ntds /\ cur.part <= Len(parts)
    BY <1>18 DEF AddDisk
  <2>3. This \in Ids /\ cur.part \in Nat \ {0} /\ cur.offset \in Nat
    BY <2>2 DEF TypeInv, This, Counters
  <2>4. parts \in Seq(Nat) /\ Len(parts) \in Nat /\ cap \in Nat
    BY <2>3, DevTyped
  <2>5. cur.part \in 1..Len(parts)
    BY <2>2, <2>3, <2>4
  <2>6. cur.offset = Begin(This, cur.part) /\ Covered(disks, This, cur.part)
    BY <1>0, <2>2 DEF CompleteInv
  <2>7. CASE cur.offset \div Sector >= cap /\ NextNtd /\ UNCHANGED disks
    <3>1. ASSUME NEW p \in 1..Len(parts), ~(p < cur.part) PROVE ~Inside(This, p)
      <4>1. cur.part <= p
        BY <2>3, <2>4, <3>1
      <4>2. Begin(This, p) \in Nat /\ cur.offset <= Begin(This, p)
        BY <2>3, <2>5, <2>6, <4>1, BeginGrows, BeginAdds
      <4>3. /\ cur.offset \div Sector <= Begin(This, p) \div Sector
            /\ cur.offset \div Sector \in Nat /\ Begin(This, p) \div Sector \in Nat
        BY <2>3, <4>2, SectorOrder
      <4> HIDE DEF cap
      <4>4. ~(Begin(This, p) \div Sector < cap)
        BY <2>4, <2>7, <4>3
      <4> QED
        BY <4>4 DEF Inside, cap
    <3>2. Finished(disks, This)
      BY <2>6, <3>1 DEF Covered, Finished
    <3> QED
      BY <1>12, <2>2, <2>7, <3>2
  <2>8. CASE /\ cur.offset \div Sector < cap /\ disks' = disks \cup {new}
             /\ cur' = [i |-> cur.i, part |-> cur.part + 1, offset |-> cur.offset + size]
             /\ pc' = "disk"
    <3>1. This' = This /\ cur'.i = cur.i /\ cur'.part = cur.part + 1 /\ cur'.offset = cur.offset + size
      BY <2>2, <2>8 DEF This
    <3>2. Behind' /\ \A d \in Ids : ~Devs[d].boot => InNtds(d)'
      BY <1>13, <2>2, <2>8, <3>1
    <3>3. Begin(This, cur.part + 1) = Begin(This, cur.part) + size
      BY <2>3, <2>5, BeginAdds
    <3>4. HasDisk(disks', This, cur.part)
      <4>1. new \in disks' /\ new.dev = This /\ new.part = cur.part
        BY <2>8
      <4> QED
        BY <4>1 DEF HasDisk
    <3>5. Covered(disks', This, cur.part + 1)
      <4> SUFFICES ASSUME NEW p \in 1..Len(parts), p < cur.part + 1, Inside(This, p)
                   PROVE  HasDisk(disks', This, p)
        BY DEF Covered
      <4>1. CASE p = cur.part
        BY <3>4, <4>1
      <4>2. CASE p < cur.part
        <5>1. HasDisk(disks, This, p)
          BY <2>6, <4>2 DEF Covered
        <5>2. disks \subseteq disks'
          BY <2>8
        <5> QED
          BY <5>1, <5>2 DEF HasDisk
      <4> QED
        BY <2>3, <2>4, <4>1, <4>2
    <3>6. cur'.offset = Begin(This', cur'.part) /\ Covered(disks', This', cur'.part)
      BY <2>6, <3>1, <3>3, <3>5
    <3> QED
      BY <2>8, <3>2, <3>6 DEF CompleteInv
  <2>9. ~("add_disk" \in hit')
    BY DEF Unfailed
  <2> QED
    BY <1>18, <2>1, <2>7, <2>8, <2>9 DEF AddDisk
<1>19. CASE ProbeDone
  <2>1. /\ pc = "attach" /\ cur.i > Len(ntds) /\ pc' = "bound"
        /\ UNCHANGED <<ntds, disks>>
    BY <1>19 DEF ProbeDone, probeVars
  <2>2. \A j \in 1..Len(ntds) : j < cur.i
    BY <1>1, <2>1
  <2>3. \A j \in 1..Len(ntds) : Finished(disks, ntds[j])
    BY <1>0, <2>1, <2>2 DEF CompleteInv, Behind
  <2> QED
    BY <1>8, <2>1, <2>3 DEF CompleteInv, Early
<1>20. CASE \/ RebootStep \/ Reboot \/ ChipHangs
            \/ (\E d \in Ids : ThreadExit(d)) \/ UNCHANGED vars
  <2>1. UNCHANGED <<pc, cur, ntds, phydevs, disks>>
    BY <1>20 DEF RebootStep, Reboot, NotifierFlush, NotifierStop, NotifierEnd,
                 ChainDone, ShutDevice, Shutdown, ChipHangs, ThreadExit, probeVars, vars
  <2> QED
    BY <1>3, <2>1
<1> QED
  BY <1>4, <1>5, <1>6, <1>7, <1>9, <1>10, <1>14, <1>15, <1>16, <1>17, <1>18,
     <1>19, <1>20 DEF StartNext, ProbeStep

(* A probe in which nothing failed gives every partition that begins       *)
(* inside its device a disk, and none is in the way of another, whatever   *)
(* the devices and the partitions are.                                     *)
THEOREM EveryPartitionHasItsDisk == StartSpec => []DisksPlaced
<1> DEFINE Inv == TypeInv /\ NtdInv /\ CompleteInv
<1>1. StartInit => Inv
  BY TypeInvInit DEF StartInit, NtdInv, CompleteInv, Early
<1>2. Inv /\ [StartNext]_vars => Inv'
  BY TypeInvStep, NtdInvStep, CompleteInvStep
<1>3. Inv => DisksComplete
  <2> SUFFICES ASSUME Inv, pc = "bound", Unfailed, NEW d \in Ids, Devs[d].enabled,
                      ~Devs[d].boot, NEW p \in DOMAIN Devs[d].parts, Inside(d, p)
               PROVE  \E k \in disks : k.dev = d /\ k.part = p
    BY DEF DisksComplete, Unfailed, Inside
  <2>1. PICK j \in 1..Len(ntds) : ntds[j] = d
    BY DEF CompleteInv, Early, InNtds
  <2>2. Finished(disks, d)
    BY <2>1 DEF CompleteInv
  <2>3. p \in 1..Len(Devs[d].parts)
    BY DevTyped
  <2> QED
    BY <2>2, <2>3 DEF Finished, HasDisk
<1>4. StartSpec => []DisksComplete
  <2> HIDE DEF Inv
  <2> QED
    BY <1>1, <1>2, <1>3, PTL DEF StartSpec
<1> QED
  BY <1>4, DisksDoNotOverlap, PTL DEF DisksPlaced
=============================================================================
