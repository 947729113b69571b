------------------------ MODULE TenantMachine_proofs ------------------------
(***************************************************************************)
(* Proofs about TenantMachine, for every set of machines, every choice of  *)
(* control plane and sized machines, every bound on failures and crashes,  *)
(* and fresh or stale reads.                                               *)
(***************************************************************************)
EXTENDS TenantMachine, TLAPS

----------------------------------------------------------------------------
(* The inductive invariant.                                                *)

SetupStages == {"readInputs", "setComputerName", "setUserdata", "updateSpec", "powerOn"}
MemberStages == {"readIPSet", "joinIPSet"}
BuildStages == {"connect", "lookupVM", "waitAdd"} \cup SetupStages \cup MemberStages
DeleteStages == {"deleteConnect", "deleteReadIPSet", "leaveIPSet", "deleteVM"}

Ended(m) == tm[m].phase \in {"deleting", "gone"}
Runs(m) == "on" \in vm[m] /\ (m \in controlPlane => m \in ipSet)
Untouched(m) == vm[m] = {} /\ m \notin addTasks /\ m \notin ipSet

\* The cache lags behind the API server, but never says of an object what was
\* not true of it before; what is recorded of a live machine is so.
CacheLags(m) ==
    /\ tm[m].phase = "absent" => tm[m] = NewObject /\ seen[m] = NewObject
    /\ tm[m].phase = "deleting" => tm[m].finalizer
    /\ seen[m].phase = "deleting" => Ended(m)
    /\ seen[m].phase = "live" /\ seen[m].finalizer => tm[m].finalizer /\ Exists(m)
    /\ tm[m].phase = "live" /\ (tm[m].providerID \/ seen[m].providerID) => "on" \in vm[m]
    /\ tm[m].phase = "live" /\ (tm[m].ready \/ seen[m].ready) => Runs(m)

CacheInv == \A m \in Machines : CacheLags(m)

\* A VM that is being added is not there yet, and its task is waited for or
\* abandoned; nothing is done in VCD for a machine before its finalizer is stored,
\* and before the cluster has an infrastructure reference and a recorded vApp.
VCDLags(m) ==
    /\ m \in addTasks => vm[m] = {} /\ (m \in abandoned \/ (pc = "waitAdd" /\ cur = m))
    /\ ~tm[m].finalizer /\ tm[m].phase \in {"absent", "live"} => Untouched(m)
    /\ ~infraRef \/ "VApp" \notin tcRefs => Untouched(m)
    /\ m \in ipSet => m \in controlPlane

VCDInv == \A m \in Machines : VCDLags(m)

\* The copy a reconcile works on. The VM is built for an object that had its
\* finalizer when it was read and has it still; reconcileDelete works on one that
\* stays deleted, and lets it go only if the VM is gone or still being added.
WorkerInv ==
    pc # "idle" =>
        /\ tm[cur].phase # "absent"
        /\ tm[cur].phase = "live" /\ obj.providerID => "on" \in vm[cur]
        /\ tm[cur].phase = "live" /\ obj.ready => Runs(cur)
        /\ obj.phase = "deleting" => Ended(cur) /\ seen[cur].phase \in {"deleting", "gone"}
        /\ orig.finalizer /\ ~obj.finalizer
              => obj.phase = "deleting" /\ (vm[cur] # {} => cur \in abandoned)
        /\ pc \in BuildStages => /\ obj.phase = "live" /\ obj.finalizer
                                 /\ tm[cur].finalizer /\ Exists(cur) /\ infraRef
        /\ pc \in BuildStages \ {"connect"} => "VApp" \in tcRefs
        /\ pc \in DeleteStages => obj.phase = "deleting"

\* What the calls made so far by this reconcile have established.
StageInv ==
    /\ pc \in SetupStages => cur \notin addTasks /\ vm[cur] # {}
    /\ pc \in {"setUserdata", "updateSpec", "powerOn"} => "computerName" \in vm[cur]
    /\ pc \in {"updateSpec", "powerOn"} => "userdata" \in vm[cur]
    /\ pc = "powerOn" /\ cur \in sized => "spec" \in vm[cur]
    /\ pc \in MemberStages => /\ cur \in controlPlane
                              /\ tm[cur].phase = "live" => "on" \in vm[cur]
    /\ pc \in {"joinIPSet", "leaveIPSet"} => members = ipSet

IInv == TypeOK /\ CacheInv /\ VCDInv /\ WorkerInv /\ StageInv /\ BootConfigured /\ NoOrphanVM

\* With fresh reads, of the addresses: until its own patch the stored Status is the
\* one the reconcile read, and reconcileDelete takes a recorded address out of the
\* IP set before it goes on to the VM.
FreshCopy ==
    /\ pc # "return" => orig.addresses = tm[cur].addresses
    /\ obj.phase = "deleting" => obj.addresses = orig.addresses
    /\ pc = "deleteVM" /\ obj.addresses => cur \notin ipSet
    /\ orig.finalizer /\ ~obj.finalizer /\ obj.addresses => cur \notin ipSet

FreshInv == FreshReads => GoneLeavesIPSet /\ (pc # "idle" => FreshCopy)

----------------------------------------------------------------------------
(* Objects.                                                                *)

\* Two objects that agree in all that the invariant speaks of.
Same(p, o) ==
    /\ p \in Object /\ p.phase = o.phase /\ p.finalizer = o.finalizer
    /\ p.providerID = o.providerID /\ p.addresses = o.addresses

\* The fields that the invariant looks at, and the empty object.
LEMMA ObjectFields ==
    /\ \A o \in Object : /\ o.phase \in {"absent", "live", "deleting", "gone"}
                         /\ o.finalizer \in BOOLEAN /\ o.providerID \in BOOLEAN
                         /\ o.addresses \in BOOLEAN /\ o.ready \in BOOLEAN
                         /\ o.conds \in [CondTypes -> {"Unset", "True", "False"}]
    /\ NewObject \in Object /\ NewObject.phase = "absent" /\ ~NewObject.finalizer
    /\ ~NewObject.providerID /\ ~NewObject.ready
BY DEF Object, NewObject

\* Marking a condition changes nothing but that condition.
LEMMA MarkType ==
    ASSUME NEW o \in Object, NEW t \in CondTypes, NEW st \in {"True", "False"}
    PROVE  Same(Mark(o, t, st), o) /\ Mark(o, t, st).ready = o.ready
BY DEF Mark, Object, Same

\* The marked objects with which a reconcile returns.
LEMMA MarkedType ==
    ASSUME NEW o \in Object
    PROVE  /\ Same(VMNotReady(o), o) /\ VMNotReady(o).ready = o.ready
           /\ Same(NotJoined(o), o) /\ NotJoined(o).ready = o.ready
           /\ Same(MachineReady(o), o) /\ MachineReady(o).ready
           /\ Same(Joined(o), o) /\ Joined(o).ready
<1>1. \A q \in Object : Same(MachineReady(q), q) /\ MachineReady(q).ready
  <2> SUFFICES ASSUME NEW q \in Object
               PROVE  Same(MachineReady(q), q) /\ MachineReady(q).ready
    OBVIOUS
  <2> DEFINE n == Mark(q, "VirtualMachineReady", "True")
  <2>1. Same(n, q)
    BY MarkType DEF CondTypes
  <2> HIDE DEF n
  <2>2. Same([n EXCEPT !.ready = TRUE], n) /\ [n EXCEPT !.ready = TRUE].ready
    BY <2>1 DEF Same, Object
  <2>3. MachineReady(q) = [n EXCEPT !.ready = TRUE]
    BY DEF MachineReady, n
  <2>4. QED
    BY <2>1, <2>2, <2>3 DEF Same
<1>2. Same(Mark(o, "LoadBalancerMember", "True"), o)
  BY MarkType DEF CondTypes
<1>3. Same(Joined(o), o) /\ Joined(o).ready
  BY <1>1, <1>2 DEF Joined, Same
<1>4. QED
  BY <1>1, <1>3, MarkType DEF VMNotReady, NotJoined, CondTypes

\* AddFinalizer and RemoveFinalizer change nothing else.
LEMMA SetFinalizerType ==
    ASSUME NEW o \in Object, NEW f \in BOOLEAN
    PROVE  LET p == [o EXCEPT !.finalizer = f] IN
           /\ p \in Object /\ p.phase = o.phase /\ p.finalizer = f
           /\ p.providerID = o.providerID /\ p.addresses = o.addresses /\ p.ready = o.ready
BY DEF Object

\* What PowerOn records.
LEMMA RecordedType ==
    ASSUME NEW o \in Object
    PROVE  /\ LET p == [o EXCEPT !.providerID = TRUE, !.addresses = TRUE] IN
              /\ p \in Object /\ p.phase = o.phase /\ p.finalizer = o.finalizer /\ p.ready = o.ready
           /\ LET p == [o EXCEPT !.providerID = TRUE] IN
              /\ p \in Object /\ p.phase = o.phase /\ p.finalizer = o.finalizer /\ p.ready = o.ready
BY DEF Object

----------------------------------------------------------------------------
(* Building the VM preserves the invariant.                                *)

\* What no step of building does to the object, the cluster and the bounds.
BuildFrame ==
    /\ UNCHANGED <<apiVars, clusterVars, vApp, cur, orig, patchFaults, crashes>>
    /\ pc' \in (BuildStages \ {"connect"}) \cup {"patchConditions"}
    /\ obj' \in Object /\ obj'.phase = obj.phase /\ obj'.finalizer = obj.finalizer
    /\ members' \subseteq Machines /\ requeue' \in BOOLEAN /\ panicking' \in BOOLEAN
    /\ faults' \in 0..MaxFaults

\* What a step of building may do to VMs and IP set: it works on the VM of its own
\* machine, never stops it, and removes no address.
VCDStep ==
    /\ vm' \in [Machines -> SUBSET VMParts] /\ \A m \in Machines : vm'[m] # {} => "vm" \in vm'[m]
    /\ addTasks' \subseteq Machines /\ abandoned' \subseteq Machines
    /\ abandoned \subseteq abandoned'
    /\ ipSet' = ipSet \/ (ipSet' = ipSet \cup {cur} /\ cur \in controlPlane)
    /\ \A m \in Machines \ {cur} : vm'[m] = vm[m] /\ (m \in addTasks' <=> m \in addTasks)
    /\ "on" \in vm[cur] => "on" \in vm'[cur]
    /\ cur \in addTasks' => vm'[cur] = {} /\ (cur \in abandoned' \/ pc' = "waitAdd")
    /\ "on" \in vm'[cur] => /\ {"computerName", "userdata"} \subseteq vm'[cur]
                            /\ cur \in sized => "spec" \in vm'[cur]
    /\ "VApp" \in tcRefs \/ UNCHANGED <<vm, addTasks, ipSet>>

\* What it claims of its machine in the object.
ClaimStep ==
    /\ obj'.providerID /\ tm[cur].phase = "live" => obj.providerID \/ "on" \in vm'[cur]
    /\ obj'.ready /\ tm[cur].phase = "live" => obj.ready \/ Runs(cur)'
    /\ pc' \in BuildStages => "VApp" \in tcRefs

\* A step within the frame preserves all but what is said of its stage.
LEMMA BuildKeeps ==
    ASSUME IInv, pc \in BuildStages, BuildFrame, VCDStep, ClaimStep
    PROVE  TypeOK' /\ CacheInv' /\ VCDInv' /\ WorkerInv' /\ BootConfigured' /\ NoOrphanVM'
<1>0. cur \in Machines /\ pc # "idle" /\ pc' # "idle" /\ TypeOK
  BY DEF IInv, TypeOK, BuildStages, SetupStages, MemberStages, BuildFrame
<1>1. /\ tm[cur].finalizer /\ Exists(cur) /\ infraRef /\ obj.finalizer /\ obj.phase = "live"
      /\ tm[cur].phase # "absent" /\ tm[cur].phase # "gone"
  BY <1>0 DEF IInv, WorkerInv, Exists
<1>2. /\ UNCHANGED <<tm, seen, infraRef, tcRefs, controlPlane, sized, cur, orig>>
      /\ obj'.finalizer /\ obj'.phase = "live"
  BY <1>1 DEF BuildFrame, apiVars, clusterVars
<1>3. TypeOK'
  <2>1. pc' \in Stages \ {"idle"}
    BY DEF BuildFrame, BuildStages, SetupStages, MemberStages, Stages
  <2>2. ipSet' \subseteq Machines
    BY <1>0 DEF VCDStep, TypeOK
  <2>3. cur # NoMachine
    BY <1>0, MachineAssumption
  <2>4. QED
    BY <1>0, <1>2, <2>1, <2>2, <2>3 DEF TypeOK, BuildFrame, VCDStep, apiVars, clusterVars
<1>4. \A m \in Machines : ("on" \in vm[m] => "on" \in vm'[m]) /\ (m \in ipSet => m \in ipSet')
  BY <1>0 DEF VCDStep
<1>5. CacheInv'
  BY <1>2, <1>4 DEF IInv, CacheInv, CacheLags, Ended, Exists, Runs
<1>6. VCDInv'
  <2>1. VCDLags(cur)'
    BY <1>0, <1>1, <1>2 DEF IInv, VCDInv, VCDLags, VCDStep, Untouched
  <2>2. ASSUME NEW m \in Machines \ {cur} PROVE VCDLags(m)'
    BY <1>0, <1>2, <2>2 DEF IInv, VCDInv, VCDLags, VCDStep, Untouched
  <2>3. QED
    BY <1>2, <2>1, <2>2 DEF VCDInv
<1>7. WorkerInv'
  <2>1. pc' \notin DeleteStages
    BY DEF BuildFrame, BuildStages, SetupStages, MemberStages, DeleteStages
  <2>2. tm[cur].phase = "live" /\ obj'.providerID => "on" \in vm'[cur]
    BY <1>0, <1>4 DEF IInv, WorkerInv, ClaimStep
  <2>3. tm[cur].phase = "live" /\ obj'.ready => Runs(cur)'
    BY <1>0, <1>2, <1>4 DEF IInv, WorkerInv, ClaimStep, Runs
  <2>4. QED
    BY <1>0, <1>1, <1>2, <2>1, <2>2, <2>3 DEF WorkerInv, ClaimStep, Exists, Runs
<1>8. BootConfigured'
  BY <1>0, <1>2 DEF IInv, BootConfigured, VCDStep
<1>9. NoOrphanVM'
  BY <1>0, <1>1, <1>2 DEF IInv, NoOrphanVM, VCDStep
<1>10. QED
  BY <1>3, <1>5, <1>6, <1>7, <1>8, <1>9

\* A step that leaves Cloud Director alone.
LEMMA VCDStay ==
    ASSUME IInv, cur \in Machines, UNCHANGED vcdVars, pc # "waitAdd"
    PROVE  VCDStep
BY DEF IInv, TypeOK, VCDInv, VCDLags, BootConfigured, VCDStep, vcdVars

\* The bound on faults.
LEMMA FaultType ==
    ASSUME TypeOK, NoFault \/ Fault
    PROVE  faults' \in 0..MaxFaults
BY BoundAssumption DEF TypeOK, NoFault, Fault

\* A return or a panic with nothing new in the object but a condition.
LEMMA ReturnFrame ==
    ASSUME TypeOK, UNCHANGED <<apiVars, clusterVars, vApp, patchFaults, crashes>>,
           faults' \in 0..MaxFaults,
           \/ Return(VMNotReady(obj), TRUE) \/ Return(obj, TRUE) \/ Return(NotJoined(obj), TRUE)
           \/ Panic(obj)
    PROVE  BuildFrame /\ ClaimStep /\ pc' = "patchConditions"
<1>1. /\ obj \in Object /\ obj' \in {obj, VMNotReady(obj), NotJoined(obj)}
      /\ UNCHANGED <<cur, orig, members>> /\ pc' = "patchConditions"
      /\ requeue' \in BOOLEAN /\ panicking' \in BOOLEAN
  BY DEF TypeOK, Return, Panic
<1>2. Same(obj', obj) /\ obj'.ready = obj.ready
  BY <1>1, MarkedType DEF Same
<1>3. pc' \notin BuildStages
  BY <1>1 DEF BuildStages, SetupStages, MemberStages
<1>4. QED
  BY <1>1, <1>2, <1>3 DEF TypeOK, BuildFrame, ClaimStep, Same

\* Where the block that builds the VM ends: at the IP set, or with Ready.
LEMMA AfterVMFrame ==
    ASSUME TypeOK, NEW o \in Object, AfterVM(o), NoFault \/ Fault,
           o.phase = obj.phase, o.finalizer = obj.finalizer,
           UNCHANGED <<apiVars, clusterVars, vApp, patchFaults, crashes>>
    PROVE  /\ BuildFrame
           /\ pc' \in {"readIPSet", "patchConditions"}
           /\ pc' = "readIPSet" => cur \in controlPlane /\ obj'.ready = o.ready
           /\ pc' = "patchConditions" => cur \notin controlPlane
           /\ obj'.providerID = o.providerID
<1>1. faults' \in 0..MaxFaults
  BY FaultType
<1>2. CASE cur \notin controlPlane /\ Return(MachineReady(o), FALSE)
  BY <1>1, <1>2, MarkedType DEF Same, Return, BuildFrame, TypeOK
<1>3. CASE /\ cur \in controlPlane /\ pc' = "readIPSet" /\ obj' = o
           /\ UNCHANGED <<cur, orig, members, requeue, panicking>>
  BY <1>1, <1>3 DEF BuildFrame, BuildStages, MemberStages, TypeOK
<1>4. QED
  BY <1>2, <1>3 DEF AfterVM

\* Connecting preserves the invariant.
LEMMA ConnectInv ==
    ASSUME IInv, Connect
    PROVE  IInv' /\ BuildFrame /\ VCDStep
<1>0. TypeOK /\ cur \in Machines /\ obj \in Object /\ pc \in BuildStages /\ pc = "connect"
  BY DEF IInv, TypeOK, Connect, BuildStages
<1>1. /\ UNCHANGED <<apiVars, clusterVars, vcdVars, vApp, vm, ipSet, tm, controlPlane, patchFaults, crashes>>
      /\ faults' \in 0..MaxFaults /\ (NoFault \/ Fault)
  BY <1>0, FaultType DEF Connect, WorkerOnly, vcdVars, clusterVars, apiVars
<1>2. VCDStep
  BY <1>0, <1>1, VCDStay
<1>3. tm[cur].phase = "live" /\ obj.providerID => "on" \in vm[cur]
  BY <1>0 DEF IInv, WorkerInv
<1>4. CASE Return(VMNotReady(obj), TRUE) \/ Panic(obj)
  <2>1. BuildFrame /\ ClaimStep /\ pc' = "patchConditions"
    BY <1>0, <1>1, <1>4, ReturnFrame
  <2>2. StageInv'
    BY <2>1 DEF StageInv, SetupStages, MemberStages
  <2>3. QED
    BY <1>0, <1>2, <2>1, <2>2, BuildKeeps DEF IInv
<1>5. CASE "VApp" \in tcRefs /\ NoFault /\ obj.providerID /\ AfterVM(obj)
  <2>1. /\ BuildFrame /\ pc' \in {"readIPSet", "patchConditions"} /\ cur' = cur
        /\ pc' = "readIPSet" => cur \in controlPlane /\ obj'.ready = obj.ready
        /\ pc' = "patchConditions" => cur \notin controlPlane
        /\ obj'.providerID = obj.providerID
    BY <1>0, <1>1, <1>5, AfterVMFrame DEF BuildFrame
  <2>2. ClaimStep
    BY <1>1, <1>3, <1>5, <2>1 DEF ClaimStep, Runs
  <2>3. StageInv'
    BY <1>1, <1>3, <1>5, <2>1 DEF StageInv, SetupStages, MemberStages
  <2>4. QED
    BY <1>0, <1>2, <2>1, <2>2, <2>3, BuildKeeps DEF IInv
<1>6. CASE "VApp" \in tcRefs /\ NoFault /\ Goto("lookupVM")
  <2>1. BuildFrame /\ ClaimStep /\ pc' = "lookupVM"
    BY <1>0, <1>1, <1>6 DEF Goto, BuildFrame, ClaimStep, TypeOK, BuildStages
  <2>2. StageInv'
    BY <2>1 DEF StageInv, SetupStages, MemberStages
  <2>3. QED
    BY <1>0, <1>2, <2>1, <2>2, BuildKeeps DEF IInv
<1>7. QED
  BY <1>4, <1>5, <1>6 DEF Connect

\* A call that succeeds and goes on.
LEMMA GotoFrame ==
    ASSUME TypeOK, UNCHANGED <<apiVars, clusterVars, vApp, patchFaults, crashes>>,
           faults' \in 0..MaxFaults, "VApp" \in tcRefs,
           NEW p \in BuildStages \ {"connect"}, Goto(p)
    PROVE  BuildFrame /\ ClaimStep /\ pc' = p /\ UNCHANGED members
BY DEF TypeOK, Goto, BuildFrame, ClaimStep

\* After a return nothing is said of the stage.
LEMMA ReturnStage == pc' = "patchConditions" => StageInv'
BY DEF StageInv, SetupStages, MemberStages

\* Looking the VM up, and starting to add it, preserves the invariant.
LEMMA LookupVMInv ==
    ASSUME IInv, LookupVM
    PROVE  IInv' /\ BuildFrame /\ VCDStep
<1>0. TypeOK /\ cur \in Machines /\ pc \in BuildStages /\ pc = "lookupVM"
  BY DEF IInv, TypeOK, LookupVM, BuildStages
<1>1. /\ UNCHANGED <<apiVars, clusterVars, vApp, vm, ipSet, patchFaults, crashes>>
      /\ faults' \in 0..MaxFaults /\ "VApp" \in tcRefs
  BY <1>0, FaultType DEF LookupVM, IInv, WorkerInv
<1>2. CASE UNCHANGED <<addTasks, abandoned>> /\ (Return(VMNotReady(obj), TRUE) \/ Panic(obj))
  <2>1. VCDStep
    BY <1>0, <1>1, <1>2, VCDStay DEF vcdVars
  <2>2. BuildFrame /\ ClaimStep /\ pc' = "patchConditions"
    BY <1>0, <1>1, <1>2, ReturnFrame
  <2>3. QED
    BY <1>0, <2>1, <2>2, ReturnStage, BuildKeeps DEF IInv
<1>3. CASE UNCHANGED <<addTasks, abandoned>> /\ vm[cur] # {} /\ Goto("readInputs")
  <2>1. VCDStep
    BY <1>0, <1>1, <1>3, VCDStay DEF vcdVars
  <2>2. BuildFrame /\ ClaimStep /\ pc' = "readInputs" /\ cur' = cur
    BY <1>0, <1>1, <1>3, GotoFrame DEF BuildStages, SetupStages, Goto
  <2>3. cur \notin addTasks
    BY <1>0, <1>3 DEF IInv, VCDInv, VCDLags
  <2>4. StageInv'
    BY <1>1, <1>3, <2>2, <2>3 DEF StageInv, MemberStages
  <2>5. QED
    BY <1>0, <2>1, <2>2, <2>4, BuildKeeps DEF IInv
<1>4. ASSUME vm[cur] = {}, addTasks' = addTasks \cup {cur}, abandoned \subseteq abandoned',
             abandoned' \subseteq abandoned \cup {cur}, cur \in abandoned' \/ pc' = "waitAdd"
      PROVE  VCDStep
  BY <1>0, <1>1, <1>4 DEF IInv, TypeOK, VCDInv, VCDLags, BootConfigured, VCDStep
<1>5. CASE /\ vm[cur] = {} /\ cur \notin addTasks /\ NoFault /\ Goto("waitAdd")
           /\ addTasks' = addTasks \cup {cur} /\ UNCHANGED abandoned
  <2>1. BuildFrame /\ ClaimStep /\ pc' = "waitAdd"
    BY <1>0, <1>1, <1>5, GotoFrame DEF BuildStages
  <2>2. StageInv'
    BY <2>1 DEF StageInv, SetupStages, MemberStages
  <2>3. QED
    BY <1>0, <1>4, <1>5, <2>1, <2>2, BuildKeeps DEF IInv
<1>6. CASE /\ vm[cur] = {} /\ cur \notin addTasks /\ Fault /\ Return(VMNotReady(obj), TRUE)
           /\ addTasks' = addTasks \cup {cur} /\ abandoned' = abandoned \cup {cur}
  <2>1. BuildFrame /\ ClaimStep /\ pc' = "patchConditions"
    BY <1>0, <1>1, <1>6, ReturnFrame
  <2>2. VCDStep
    BY <1>4, <1>6
  <2>3. QED
    BY <1>0, <2>1, <2>2, ReturnStage, BuildKeeps DEF IInv
<1>7. QED
  BY <1>2, <1>3, <1>5, <1>6 DEF LookupVM

\* So does waiting for the task, or no longer waiting for it.
LEMMA WaitAddInv ==
    ASSUME IInv, WaitAdd
    PROVE  IInv' /\ BuildFrame /\ VCDStep
<1>0. TypeOK /\ cur \in Machines /\ pc \in BuildStages /\ pc = "waitAdd"
  BY DEF IInv, TypeOK, WaitAdd, BuildStages
<1>1. /\ UNCHANGED <<apiVars, clusterVars, vApp, vm, addTasks, ipSet, patchFaults, crashes>>
      /\ faults' \in 0..MaxFaults /\ "VApp" \in tcRefs
  BY <1>0, FaultType DEF WaitAdd, IInv, WorkerInv
<1>2. /\ abandoned \subseteq abandoned' /\ abandoned' \subseteq Machines
      /\ cur \in addTasks => cur \in abandoned'
  BY <1>0 DEF WaitAdd, IInv, TypeOK
<1>3. VCDStep
  BY <1>0, <1>1, <1>2 DEF IInv, TypeOK, VCDInv, VCDLags, BootConfigured, VCDStep
<1>4. CASE cur \notin addTasks /\ vm[cur] # {} /\ Goto("readInputs")
  <2>1. BuildFrame /\ ClaimStep /\ pc' = "readInputs" /\ cur' = cur
    BY <1>0, <1>1, <1>4, GotoFrame DEF BuildStages, SetupStages, Goto
  <2>2. StageInv'
    BY <1>1, <1>4, <2>1 DEF StageInv, MemberStages
  <2>3. QED
    BY <1>0, <1>3, <2>1, <2>2, BuildKeeps DEF IInv
<1>5. CASE Return(VMNotReady(obj), TRUE)
  <2>1. BuildFrame /\ ClaimStep /\ pc' = "patchConditions"
    BY <1>0, <1>1, <1>5, ReturnFrame
  <2>2. QED
    BY <1>0, <1>3, <2>1, ReturnStage, BuildKeeps DEF IInv
<1>6. QED
  BY <1>4, <1>5 DEF WaitAdd

\* So does reading what the VM is to be configured with.
LEMMA ReadInputsInv ==
    ASSUME IInv, ReadInputs
    PROVE  IInv' /\ BuildFrame /\ VCDStep
<1>0. TypeOK /\ cur \in Machines /\ pc \in BuildStages /\ pc = "readInputs"
  BY DEF IInv, TypeOK, ReadInputs, BuildStages, SetupStages
<1>1. /\ UNCHANGED <<apiVars, clusterVars, vApp, vcdVars, vm, addTasks, patchFaults, crashes>>
      /\ faults' \in 0..MaxFaults /\ "VApp" \in tcRefs
  BY <1>0, FaultType DEF ReadInputs, WorkerOnly, vcdVars, IInv, WorkerInv
<1>2. VCDStep
  BY <1>0, <1>1, VCDStay
<1>3. CASE Goto("setComputerName")
  <2>1. BuildFrame /\ ClaimStep /\ pc' = "setComputerName" /\ cur' = cur
    BY <1>0, <1>1, <1>3, GotoFrame DEF BuildStages, SetupStages, Goto
  <2>2. StageInv'
    BY <1>0, <1>1, <2>1 DEF IInv, StageInv, SetupStages, MemberStages
  <2>3. QED
    BY <1>0, <1>2, <2>1, <2>2, BuildKeeps DEF IInv
<1>4. CASE Return(obj, TRUE)
  <2>1. BuildFrame /\ ClaimStep /\ pc' = "patchConditions"
    BY <1>0, <1>1, <1>4, ReturnFrame
  <2>2. QED
    BY <1>0, <1>2, <2>1, ReturnStage, BuildKeeps DEF IInv
<1>5. QED
  BY <1>3, <1>4 DEF ReadInputs

\* A call that sets a part of the VM, in a stage in which the VM is there.
LEMMA VMGetsStep ==
    ASSUME IInv, pc \in SetupStages, NEW part \in VMParts, VMGets(part) \/ UNCHANGED vm,
           UNCHANGED <<addTasks, ipSet, abandoned>>,
           part = "on" => pc = "powerOn"
    PROVE  /\ VCDStep /\ vm[cur] \subseteq vm'[cur] /\ vm'[cur] # {}
           /\ VMGets(part) => part \in vm'[cur]
<1>0. TypeOK /\ cur \in Machines /\ cur \notin addTasks /\ vm[cur] # {} /\ "VApp" \in tcRefs
  BY DEF IInv, TypeOK, StageInv, WorkerInv, SetupStages, BuildStages
<1>1. /\ vm' \in [Machines -> SUBSET VMParts] /\ \A m \in Machines \ {cur} : vm'[m] = vm[m]
      /\ vm'[cur] \in {vm[cur], vm[cur] \cup {part}}
      /\ VMGets(part) => vm'[cur] = vm[cur] \cup {part}
  BY <1>0 DEF TypeOK, VMGets
<1>2. \A m \in Machines : vm'[m] # {} => "vm" \in vm'[m]
  BY <1>0, <1>1 DEF TypeOK
<1>3. "on" \in vm'[cur] => /\ {"computerName", "userdata"} \subseteq vm'[cur]
                           /\ cur \in sized => "spec" \in vm'[cur]
  <2>1. CASE "on" \in vm[cur]
    BY <1>0, <1>1, <2>1 DEF IInv, BootConfigured
  <2>2. CASE pc = "powerOn"
    BY <1>1, <2>2 DEF IInv, StageInv
  <2>3. QED
    BY <1>1, <2>1, <2>2
<1>4. QED
  BY <1>0, <1>1, <1>2, <1>3 DEF TypeOK, VCDStep

\* Setting the computer name, userdata and resources preserves the invariant.
LEMMA ConfigureInv ==
    ASSUME IInv, SetComputerName \/ SetUserdata \/ UpdateSpec
    PROVE  IInv' /\ BuildFrame /\ VCDStep
<1>0. TypeOK /\ cur \in Machines /\ pc \in SetupStages /\ pc \in BuildStages /\ pc # "idle"
  BY DEF IInv, TypeOK, SetComputerName, SetUserdata, UpdateSpec, BuildStages, SetupStages
<1>1. /\ UNCHANGED <<apiVars, clusterVars, vApp, addTasks, ipSet, abandoned, sized, patchFaults, crashes>>
      /\ faults' \in 0..MaxFaults /\ "VApp" \in tcRefs
  <2>1. pc # "connect"
    BY DEF SetComputerName, SetUserdata, UpdateSpec
  <2>2. QED
    BY <1>0, <2>1, FaultType DEF SetComputerName, SetUserdata, UpdateSpec, IInv, WorkerInv, clusterVars
<1>2. PICK part \in VMParts, p \in SetupStages :
          /\ part # "on" /\ (VMGets(part) \/ UNCHANGED vm)
          /\ \/ Return(obj, TRUE) \/ Return(VMNotReady(obj), TRUE) \/ Panic(obj)
             \/ /\ Goto(p) /\ p # "readInputs" /\ p # "setComputerName"
                /\ p = "setUserdata" => VMGets("computerName")
                /\ p = "updateSpec" => pc = "setUserdata" /\ VMGets("userdata")
                /\ p = "powerOn" => pc = "updateSpec" /\ (cur \in sized => VMGets("spec"))
  BY DEF SetComputerName, SetUserdata, UpdateSpec, SetupStages, VMParts
<1>3. /\ VCDStep /\ vm[cur] \subseteq vm'[cur] /\ vm'[cur] # {}
  BY <1>0, <1>1, <1>2, VMGetsStep
<1>4. CASE Return(obj, TRUE) \/ Return(VMNotReady(obj), TRUE) \/ Panic(obj)
  <2>1. BuildFrame /\ ClaimStep /\ pc' = "patchConditions"
    BY <1>0, <1>1, <1>4, ReturnFrame
  <2>2. QED
    BY <1>0, <1>3, <2>1, ReturnStage, BuildKeeps DEF IInv
<1>5. CASE /\ Goto(p) /\ p # "readInputs" /\ p # "setComputerName"
           /\ p = "setUserdata" => VMGets("computerName")
           /\ p = "updateSpec" => pc = "setUserdata" /\ VMGets("userdata")
           /\ p = "powerOn" => pc = "updateSpec" /\ (cur \in sized => VMGets("spec"))
  <2>1. BuildFrame /\ ClaimStep /\ pc' = p /\ cur' = cur
    BY <1>0, <1>1, <1>5, GotoFrame DEF BuildStages, SetupStages, Goto
  <2>2. /\ p = "setUserdata" => "computerName" \in vm'[cur]
        /\ p = "updateSpec" => "userdata" \in vm'[cur]
        /\ p = "powerOn" /\ cur \in sized => "spec" \in vm'[cur]
    BY <1>0, <1>1, <1>5, VMGetsStep DEF VMParts
  <2>3. /\ pc \in {"setUserdata", "updateSpec"} => "computerName" \in vm[cur]
        /\ pc = "updateSpec" => "userdata" \in vm[cur]
        /\ cur \notin addTasks
    BY <1>0 DEF IInv, StageInv
  <2>4. StageInv'
    BY <1>1, <1>3, <1>5, <2>1, <2>2, <2>3 DEF StageInv, SetupStages, MemberStages
  <2>5. QED
    BY <1>0, <1>3, <2>1, <2>4, BuildKeeps DEF IInv
<1>6. QED
  BY <1>2, <1>4, <1>5

\* Powering on: the VM is there and configured, so it runs when ProviderID says so.
LEMMA PowerOnInv ==
    ASSUME IInv, PowerOn
    PROVE  IInv' /\ BuildFrame /\ VCDStep
<1>0. /\ TypeOK /\ cur \in Machines /\ obj \in Object
      /\ pc \in SetupStages /\ pc \in BuildStages /\ pc = "powerOn"
  BY DEF IInv, TypeOK, PowerOn, BuildStages, SetupStages
<1>1. /\ UNCHANGED <<apiVars, clusterVars, vApp, addTasks, ipSet, abandoned, controlPlane, patchFaults, crashes>>
      /\ faults' \in 0..MaxFaults /\ (NoFault \/ Fault) /\ "VApp" \in tcRefs
      /\ VMGets("on") \/ UNCHANGED vm
  BY <1>0, FaultType DEF PowerOn, IInv, WorkerInv, clusterVars
<1>2. VCDStep /\ (VMGets("on") => "on" \in vm'[cur])
  BY <1>0, <1>1, VMGetsStep DEF VMParts
<1>3. CASE Return(VMNotReady(obj), TRUE)
  <2>1. BuildFrame /\ ClaimStep /\ pc' = "patchConditions"
    BY <1>0, <1>1, <1>3, ReturnFrame
  <2>2. QED
    BY <1>0, <1>2, <2>1, ReturnStage, BuildKeeps DEF IInv
<1>4. ASSUME NEW o \in Object, o.phase = obj.phase, o.finalizer = obj.finalizer, o.ready = obj.ready,
             AfterVM(o), VMGets("on")
      PROVE  IInv' /\ BuildFrame /\ VCDStep
  <2>1. /\ BuildFrame /\ pc' \in {"readIPSet", "patchConditions"} /\ cur' = cur
        /\ pc' = "readIPSet" => cur \in controlPlane /\ obj'.ready = obj.ready
        /\ pc' = "patchConditions" => cur \notin controlPlane
    BY <1>0, <1>1, <1>4, AfterVMFrame DEF BuildFrame
  <2>2. ClaimStep
    BY <1>1, <1>2, <1>4, <2>1 DEF ClaimStep, Runs
  <2>3. StageInv'
    BY <1>1, <1>2, <1>4, <2>1 DEF StageInv, SetupStages, MemberStages
  <2>4. QED
    BY <1>0, <1>2, <2>1, <2>2, <2>3, BuildKeeps DEF IInv
<1>5. \/ Return(VMNotReady(obj), TRUE)
      \/ VMGets("on") /\ AfterVM([obj EXCEPT !.providerID = TRUE, !.addresses = TRUE])
      \/ VMGets("on") /\ AfterVM([obj EXCEPT !.providerID = TRUE])
  BY DEF PowerOn
<1>6. QED
  BY <1>0, <1>3, <1>4, <1>5, RecordedType

\* Reading the IP set preserves the invariant.
LEMMA ReadIPSetInv ==
    ASSUME IInv, ReadIPSet
    PROVE  IInv' /\ BuildFrame /\ VCDStep
<1>0. /\ TypeOK /\ cur \in Machines /\ obj \in Object
      /\ pc \in BuildStages /\ pc = "readIPSet"
  BY DEF IInv, TypeOK, ReadIPSet, BuildStages, MemberStages
<1>1. /\ UNCHANGED <<apiVars, clusterVars, vApp, vcdVars, vm, ipSet, tm, controlPlane, patchFaults, crashes>>
      /\ faults' \in 0..MaxFaults /\ "VApp" \in tcRefs
  BY <1>0, FaultType DEF ReadIPSet, WorkerOnly, IInv, WorkerInv, clusterVars, vcdVars, apiVars
<1>2. VCDStep
  BY <1>0, <1>1, VCDStay
<1>3. cur \in controlPlane /\ (tm[cur].phase = "live" => "on" \in vm[cur])
  BY <1>0 DEF IInv, StageInv, MemberStages
<1>4. CASE Return(NotJoined(obj), TRUE) \/ Return(obj, TRUE) \/ Panic(obj)
  <2>1. BuildFrame /\ ClaimStep /\ pc' = "patchConditions"
    BY <1>0, <1>1, <1>4, ReturnFrame
  <2>2. QED
    BY <1>0, <1>2, <2>1, ReturnStage, BuildKeeps DEF IInv
<1>5. CASE cur \in ipSet /\ Return(Joined(obj), FALSE)
  <2>1. Same(obj', obj) /\ pc' = "patchConditions" /\ cur' = cur
    BY <1>0, <1>5, MarkedType DEF Return
  <2>2. BuildFrame
    BY <1>0, <1>1, <1>5, <2>1 DEF Return, BuildFrame, TypeOK, Same
  <2>3. ClaimStep
    BY <1>1, <1>3, <1>5, <2>1 DEF ClaimStep, Runs, Same, BuildStages, SetupStages, MemberStages
  <2>4. QED
    BY <1>0, <1>2, <2>1, <2>2, <2>3, ReturnStage, BuildKeeps DEF IInv
<1>6. CASE /\ members' = ipSet /\ pc' = "joinIPSet"
           /\ UNCHANGED <<cur, obj, orig, requeue, panicking>>
  <2>1. BuildFrame /\ ClaimStep
    BY <1>0, <1>1, <1>6 DEF BuildFrame, ClaimStep, TypeOK, BuildStages, MemberStages
  <2>2. StageInv'
    BY <1>1, <1>3, <1>6 DEF StageInv, SetupStages, MemberStages
  <2>3. QED
    BY <1>0, <1>2, <2>1, <2>2, BuildKeeps DEF IInv
<1>7. QED
  BY <1>4, <1>5, <1>6 DEF ReadIPSet

\* Joining: the list that was read is still the IP set, so nobody is dropped.
LEMMA JoinIPSetInv ==
    ASSUME IInv, JoinIPSet
    PROVE  IInv' /\ BuildFrame /\ VCDStep /\ ipSet \subseteq ipSet'
<1>0. /\ TypeOK /\ cur \in Machines /\ obj \in Object
      /\ pc \in BuildStages /\ pc = "joinIPSet" /\ members = ipSet
  BY DEF IInv, TypeOK, JoinIPSet, BuildStages, MemberStages, StageInv
<1>1. /\ UNCHANGED <<apiVars, clusterVars, vApp, vm, addTasks, abandoned, controlPlane, patchFaults, crashes>>
      /\ faults' \in 0..MaxFaults /\ "VApp" \in tcRefs
  BY <1>0, FaultType DEF JoinIPSet, IInv, WorkerInv, clusterVars
<1>2. cur \in controlPlane /\ (tm[cur].phase = "live" => "on" \in vm[cur])
  BY <1>0 DEF IInv, StageInv, MemberStages
<1>3. ipSet' \in {ipSet, ipSet \cup {cur}}
  BY <1>0 DEF JoinIPSet
<1>4. VCDStep
  BY <1>0, <1>1, <1>2, <1>3 DEF IInv, TypeOK, VCDInv, VCDLags, BootConfigured, VCDStep
<1>5. CASE Return(NotJoined(obj), TRUE)
  <2>1. BuildFrame /\ ClaimStep /\ pc' = "patchConditions"
    BY <1>0, <1>1, <1>5, ReturnFrame
  <2>2. QED
    BY <1>0, <1>3, <1>4, <2>1, ReturnStage, BuildKeeps DEF IInv
<1>6. CASE ipSet' = ipSet \cup {cur} /\ Return(Joined(obj), FALSE)
  <2>1. Same(obj', obj) /\ pc' = "patchConditions" /\ cur' = cur
    BY <1>0, <1>6, MarkedType DEF Return
  <2>2. BuildFrame
    BY <1>0, <1>1, <1>6, <2>1 DEF Return, BuildFrame, TypeOK, Same
  <2>3. ClaimStep
    BY <1>1, <1>2, <1>6, <2>1 DEF ClaimStep, Runs, Same, BuildStages, SetupStages, MemberStages
  <2>4. QED
    BY <1>0, <1>3, <1>4, <2>1, <2>2, <2>3, ReturnStage, BuildKeeps DEF IInv
<1>7. QED
  BY <1>0, <1>5, <1>6 DEF JoinIPSet

\* Building preserves the invariant.
LEMMA BuildInv ==
    ASSUME IInv, Build
    PROVE  IInv' /\ BuildFrame /\ VCDStep
BY ConnectInv, LookupVMInv, WaitAddInv, ReadInputsInv, ConfigureInv, PowerOnInv, ReadIPSetInv,
   JoinIPSetInv DEF Build

----------------------------------------------------------------------------
(* reconcileDelete preserves the invariant.                                *)

\* What a step of reconcileDelete does: it may remove the VM or the address of its
\* own machine, and lets the object go only if the VM is gone or still being added.
DeleteFrame ==
    /\ UNCHANGED <<apiVars, clusterVars, vApp, addTasks, abandoned, cur, orig, patchFaults, crashes>>
    /\ pc' \in (DeleteStages \ {"deleteConnect"}) \cup {"patchConditions"}
    /\ obj' \in {obj, NoFinalizer(obj)}
    /\ obj' = NoFinalizer(obj) => obj' = obj \/ (vm'[cur] # {} => cur \in abandoned)
    /\ vm' = vm \/ vm' = [vm EXCEPT ![cur] = {}]
    /\ ipSet' = ipSet \/ ipSet' = ipSet \ {cur}
    /\ members' \subseteq Machines /\ (pc' = "leaveIPSet" => members' = ipSet')
    /\ requeue' \in BOOLEAN /\ panicking' \in BOOLEAN /\ faults' \in 0..MaxFaults

\* Each call of reconcileDelete keeps to the frame.
LEMMA DeleteFrameHolds ==
    ASSUME IInv, Delete
    PROVE  /\ DeleteFrame /\ pc \in DeleteStages /\ cur \in Machines
           /\ ipSet' # ipSet => pc = "leaveIPSet"
<1>0. TypeOK /\ pc \in DeleteStages /\ cur \in Machines
  BY DEF IInv, TypeOK, Delete, DeleteConnect, DeleteReadIPSet, LeaveIPSet, DeleteVM, DeleteStages
<1>1. faults' \in 0..MaxFaults
  BY <1>0, FaultType DEF Delete, DeleteConnect, DeleteReadIPSet, LeaveIPSet, DeleteVM
<1>2. ~infraRef \/ "VApp" \notin tcRefs => vm[cur] = {}
  BY <1>0 DEF IInv, VCDInv, VCDLags, Untouched
<1>3. CASE DeleteConnect
  BY <1>0, <1>1, <1>2, <1>3 DEF DeleteConnect, WorkerOnly, Goto, Return, Panic, DeleteFrame, vcdVars,
                                TypeOK, DeleteStages
<1>4. CASE DeleteReadIPSet
  BY <1>0, <1>1, <1>4 DEF DeleteReadIPSet, WorkerOnly, Goto, Return, Panic, DeleteFrame, vcdVars,
                          TypeOK, DeleteStages
<1>5. CASE LeaveIPSet
  <2>1. members = ipSet
    BY <1>5 DEF LeaveIPSet, IInv, StageInv
  <2>2. QED
    BY <1>0, <1>1, <1>5, <2>1 DEF LeaveIPSet, Goto, Return, DeleteFrame, TypeOK, DeleteStages
<1>6. CASE DeleteVM
  <2>1. vm' = [vm EXCEPT ![cur] = {}] => vm'[cur] = {}
    BY <1>0 DEF TypeOK
  <2>2. QED
    BY <1>0, <1>1, <1>2, <1>6, <2>1 DEF DeleteVM, Return, DeleteFrame, TypeOK
<1>7. QED
  BY <1>3, <1>4, <1>5, <1>6 DEF Delete

\* A step within the frame preserves the invariant.
LEMMA DeleteInv ==
    ASSUME IInv, Delete
    PROVE  IInv'
<1>0. /\ TypeOK /\ pc \in DeleteStages /\ cur \in Machines /\ DeleteFrame
      /\ obj \in Object /\ pc # "idle" /\ pc # "waitAdd"
      /\ pc' \notin BuildStages /\ pc' # "idle"
  BY DeleteFrameHolds DEF IInv, TypeOK, DeleteStages, DeleteFrame, BuildStages, SetupStages, MemberStages
<1>1. UNCHANGED <<tm, seen, infraRef, tcRefs, controlPlane, sized, cur, orig, addTasks, abandoned>>
  BY <1>0 DEF DeleteFrame, apiVars, clusterVars
<1>2. obj.phase = "deleting" /\ Ended(cur) /\ seen[cur].phase \in {"deleting", "gone"}
  BY <1>0 DEF IInv, WorkerInv
<1>3. /\ obj' \in Object /\ obj'.phase = obj.phase /\ obj'.providerID = obj.providerID
      /\ obj'.ready = obj.ready
      /\ obj'.finalizer = obj.finalizer \/ (vm'[cur] # {} => cur \in abandoned)
  BY <1>0, SetFinalizerType DEF DeleteFrame, NoFinalizer
<1>4. /\ vm' \in [Machines -> SUBSET VMParts]
      /\ \A m \in Machines \ {cur} : vm'[m] = vm[m] /\ (m \in ipSet' <=> m \in ipSet)
      /\ vm'[cur] = vm[cur] \/ vm'[cur] = {}
      /\ ipSet' \subseteq ipSet
  BY <1>0 DEF DeleteFrame, TypeOK
<1>5. TypeOK'
  <2>1. pc' \in Stages \ {"idle"} /\ cur # NoMachine
    BY <1>0, MachineAssumption DEF DeleteFrame, DeleteStages, Stages
  <2>2. QED
    BY <1>0, <1>1, <1>3, <1>4, <2>1 DEF TypeOK, DeleteFrame, apiVars, clusterVars
<1>6. CacheInv'
  <2>1. CacheLags(cur)'
    BY <1>0, <1>1, <1>2 DEF IInv, CacheInv, CacheLags, Ended, Exists
  <2>2. ASSUME NEW m \in Machines \ {cur} PROVE CacheLags(m)'
    BY <1>0, <1>1, <1>4, <2>2 DEF IInv, CacheInv, CacheLags, Ended, Exists, Runs
  <2>3. QED
    BY <1>1, <2>1, <2>2 DEF CacheInv
<1>7. VCDInv'
  BY <1>0, <1>1, <1>4 DEF IInv, VCDInv, VCDLags, Untouched
<1>8. WorkerInv'
  <2>1. orig.finalizer /\ ~obj'.finalizer => (vm'[cur] # {} => cur \in abandoned)
    BY <1>0, <1>3, <1>4 DEF IInv, WorkerInv
  <2>2. tm[cur].phase # "live" /\ tm[cur].phase # "absent"
    BY <1>2 DEF Ended
  <2>3. QED
    BY <1>0, <1>1, <1>2, <1>3, <2>1, <2>2 DEF WorkerInv, Ended
<1>9. StageInv'
  BY <1>0 DEF StageInv, DeleteFrame, BuildStages, SetupStages, MemberStages
<1>10. BootConfigured' /\ NoOrphanVM'
  BY <1>0, <1>1, <1>4 DEF IInv, BootConfigured, NoOrphanVM
<1>11. QED
  BY <1>5, <1>6, <1>7, <1>8, <1>9, <1>10 DEF IInv

----------------------------------------------------------------------------
(* New reconciles, patches and restarts preserve the invariant.            *)

\* A reconcile that starts, or returns at once, with the cached object.
LEMMA StartKeeps ==
    ASSUME IInv, NEW m \in Machines, pc = "idle",
           UNCHANGED <<tm, seen, clusterVars, vcdVars, members, patchFaults, crashes>>,
           queue' \subseteq Machines, faults' \in 0..MaxFaults,
           requeue' \in BOOLEAN, panicking' \in BOOLEAN,
           cur' = m, orig' = seen[m], seen[m].phase \in {"live", "deleting"},
           obj' \in {seen[m], VMNotReady(seen[m]), [seen[m] EXCEPT !.finalizer = TRUE]},
           \/ pc' = "patchConditions"
           \/ pc' = "deleteConnect" /\ seen[m].phase = "deleting"
           \/ pc' = "connect" /\ seen[m].phase = "live" /\ seen[m].finalizer /\ infraRef /\ obj' = seen[m]
    PROVE  IInv'
<1>0. TypeOK /\ seen[m] \in Object /\ CacheLags(m) /\ m # NoMachine
  BY MachineAssumption DEF IInv, TypeOK, CacheInv
<1>1. /\ obj' \in Object /\ obj'.phase = seen[m].phase /\ obj'.providerID = seen[m].providerID
      /\ obj'.ready = seen[m].ready /\ (seen[m].finalizer => obj'.finalizer)
  <2>1. CASE obj' = [seen[m] EXCEPT !.finalizer = TRUE]
    BY <1>0, <2>1, SetFinalizerType
  <2>2. CASE obj' = VMNotReady(seen[m])
    BY <1>0, <2>2, MarkedType DEF Same
  <2>3. QED
    BY <1>0, <2>1, <2>2
<1>2. UNCHANGED <<infraRef, tcRefs, controlPlane, sized, vm, addTasks, ipSet, abandoned>>
  BY DEF clusterVars, vcdVars
<1>3. TypeOK'
  <2>1. pc' \in Stages \ {"idle"}
    BY DEF Stages
  <2>2. QED
    BY <1>0, <1>1, <2>1 DEF TypeOK, clusterVars, vcdVars
<1>4. CacheInv'
  BY <1>2 DEF IInv, CacheInv, CacheLags, Ended, Exists, Runs
<1>5. VCDInv'
  BY <1>2 DEF IInv, VCDInv, VCDLags, Untouched
<1>6. WorkerInv'
  <2>1. tm[m].phase # "absent"
    BY <1>0, ObjectFields DEF CacheLags
  <2>2. /\ tm[m].phase = "live" /\ obj'.providerID => "on" \in vm[m]
        /\ tm[m].phase = "live" /\ obj'.ready => Runs(m)
        /\ obj'.phase = "deleting" => Ended(m) /\ seen[m].phase \in {"deleting", "gone"}
    BY <1>0, <1>1 DEF CacheLags
  <2>3. pc' = "connect" => /\ obj'.phase = "live" /\ obj'.finalizer
                           /\ tm[m].finalizer /\ Exists(m) /\ infraRef
    BY <1>0, <1>1 DEF CacheLags
  <2>4. /\ pc' \in BuildStages => pc' = "connect"
        /\ pc' \in DeleteStages => seen[m].phase = "deleting"
    BY DEF BuildStages, SetupStages, MemberStages, DeleteStages
  <2>5. QED
    BY <1>1, <1>2, <2>1, <2>2, <2>3, <2>4 DEF WorkerInv, Ended, Exists, Runs
<1>7. StageInv'
  BY DEF StageInv, SetupStages, MemberStages
<1>8. BootConfigured' /\ NoOrphanVM'
  BY <1>2 DEF IInv, BootConfigured, NoOrphanVM
<1>9. QED
  BY <1>3, <1>4, <1>5, <1>6, <1>7, <1>8 DEF IInv

\* Taking a key preserves the invariant, whichever branch Reconcile chooses.
LEMMA ReconcileInv ==
    ASSUME IInv, NEW m \in Machines, Reconcile(m)
    PROVE  IInv'
<1>0. TypeOK /\ pc = "idle" /\ UNCHANGED <<tm, seen, clusterVars, vcdVars, patchFaults, crashes>>
  BY DEF IInv, Reconcile, ReconcileUnpatched, ReconcileDeleted, AddFinalizer, Gates, Take
<1>1. faults' \in 0..MaxFaults /\ queue' \subseteq Machines
  BY <1>0, FaultType DEF TypeOK, Reconcile, ReconcileUnpatched, ReconcileDeleted, AddFinalizer, Gates, Take
<1>2. CASE ReconcileUnpatched(m)
  <2>1. UNCHANGED <<workerVars, pc, cur, obj, orig, members>>
    BY <1>2 DEF ReconcileUnpatched, workerVars
  <2>2. TypeOK'
    BY <1>0, <1>1, <2>1 DEF TypeOK, clusterVars, vcdVars, workerVars
  <2>3. CacheInv' /\ VCDInv' /\ BootConfigured' /\ NoOrphanVM'
    BY <1>0, <2>1 DEF IInv, CacheInv, CacheLags, VCDInv, VCDLags, BootConfigured, NoOrphanVM, Ended,
                      Exists, Runs, Untouched, clusterVars, vcdVars
  <2>4. WorkerInv' /\ StageInv'
    BY <1>0, <2>1 DEF WorkerInv, StageInv, SetupStages, MemberStages
  <2>5. QED
    BY <2>2, <2>3, <2>4 DEF IInv
<1>3. CASE ReconcileDeleted(m)
  BY <1>0, <1>1, <1>3, StartKeeps DEF ReconcileDeleted, Proceed, TypeOK
<1>4. CASE AddFinalizer(m)
  BY <1>0, <1>1, <1>4, StartKeeps DEF AddFinalizer, ReturnAtOnce
<1>5. CASE Gates(m)
  <2>1. seen[m].phase = "live" /\ seen[m].finalizer
    BY <1>5 DEF Gates
  <2>2. \/ \E o \in {seen[m], VMNotReady(seen[m])}, a \in BOOLEAN, b \in BOOLEAN :
              ReturnAtOnce(m, o, a, b)
        \/ infraRef /\ Proceed(m, "connect")
    BY <1>5 DEF Gates
  <2>3. CASE infraRef /\ Proceed(m, "connect")
    BY <1>0, <1>1, <2>1, <2>3, StartKeeps DEF Proceed, TypeOK
  <2>4. ASSUME NEW o \in {seen[m], VMNotReady(seen[m])}, NEW a \in BOOLEAN, NEW b \in BOOLEAN,
               ReturnAtOnce(m, o, a, b)
        PROVE  IInv'
    BY <1>0, <1>1, <2>1, <2>4, StartKeeps DEF ReturnAtOnce
  <2>5. QED
    BY <2>2, <2>3, <2>4
<1>6. QED
  BY <1>2, <1>3, <1>4, <1>5 DEF Reconcile

\* A restart forgets the copy, and abandons a task it was waiting for.
LEMMA RestartInv ==
    ASSUME IInv, Restart, faults' \in 0..MaxFaults, patchFaults' \in 0..MaxPatchFaults,
           crashes' \in 0..MaxCrashes
    PROVE  IInv'
<1>0. /\ TypeOK /\ UNCHANGED <<tm, clusterVars, vApp, vm, addTasks, ipSet>>
      /\ seen' = tm /\ abandoned' = abandoned \cup ({cur} \cap addTasks)
      /\ pc' = "idle" /\ cur' = NoMachine
  BY DEF IInv, Restart, ResetWorker
<1>1. TypeOK'
  <2>1. NewObject \in Object
    BY ObjectFields
  <2>2. QED
    BY <1>0, <2>1 DEF TypeOK, Restart, ResetWorker, clusterVars, Stages
<1>2. CacheInv'
  BY <1>0 DEF IInv, CacheInv, CacheLags, Ended, Exists, Runs, clusterVars
<1>3. VCDInv'
  BY <1>0 DEF IInv, VCDInv, VCDLags, Untouched, clusterVars
<1>4. WorkerInv' /\ StageInv'
  BY <1>0 DEF WorkerInv, StageInv, SetupStages, MemberStages
<1>5. BootConfigured' /\ NoOrphanVM'
  BY <1>0 DEF IInv, BootConfigured, NoOrphanVM, clusterVars
<1>6. QED
  BY <1>1, <1>2, <1>3, <1>4, <1>5 DEF IInv

\* A patch writes what the reconcile changed in its copy; only a removed finalizer
\* makes an object go, and only the last patch writes the addresses.
PatchEffect ==
    /\ UNCHANGED <<seen, queue, clusterVars, vcdVars, cur, obj, orig, members, panicking,
                   faults, crashes>>
    /\ pc' \in {"patchSpec", "patchStatus", "return"} /\ requeue' \in BOOLEAN
    /\ patchFaults' \in 0..MaxPatchFaults
    /\ tm' \in [Machines -> Object] /\ \A m \in Machines \ {cur} : tm'[m] = tm[m]
    /\ tm'[cur].phase = tm[cur].phase
         \/ (tm'[cur].phase = "gone" /\ pc = "patchSpec" /\ orig.finalizer /\ ~obj.finalizer)
    /\ tm[cur].finalizer /\ ~tm'[cur].finalizer => orig.finalizer /\ ~obj.finalizer
    /\ tm'[cur].phase = "deleting" => tm'[cur].finalizer
    /\ tm'[cur].providerID => tm[cur].providerID \/ obj.providerID
    /\ tm'[cur].ready => tm[cur].ready \/ obj.ready
    /\ tm'[cur].addresses = tm[cur].addresses
         \/ (pc = "patchStatus" /\ pc' = "return" /\ tm[cur].phase # "gone")

\* The three patches have that effect.
LEMMA PatchEffectHolds ==
    ASSUME IInv, PatchConditions \/ PatchSpec \/ PatchStatus
    PROVE  PatchEffect /\ cur \in Machines /\ pc \in {"patchConditions", "patchSpec", "patchStatus"}
<1>0. /\ TypeOK /\ cur \in Machines /\ pc \in {"patchConditions", "patchSpec", "patchStatus"}
      /\ tm[cur] \in Object /\ obj \in Object /\ orig \in Object
      /\ tm[cur].phase = "deleting" => tm[cur].finalizer
  BY DEF IInv, TypeOK, PatchConditions, PatchSpec, PatchStatus, CacheInv, CacheLags
<1>1. ASSUME NEW changed, NEW new, NEW p \in {"patchSpec", "patchStatus", "return"},
             Patch(changed, new, p)
      PROVE  /\ UNCHANGED <<seen, queue, clusterVars, vcdVars, cur, obj, orig, members, panicking,
                            faults, crashes>>
             /\ pc' = p /\ requeue' \in BOOLEAN /\ patchFaults' \in 0..MaxPatchFaults
             /\ \/ tm' = tm
                \/ tm' = [tm EXCEPT ![cur] = new] /\ changed /\ Exists(cur)
  <2>1. pc' = p /\ UNCHANGED <<seen, queue, clusterVars, vcdVars, cur, obj, orig, members, panicking,
                               faults, crashes>>
    BY <1>1 DEF Patch
  <2>2. requeue' \in {requeue, TRUE} /\ requeue \in BOOLEAN
    BY <1>0, <1>1, Zenon DEF Patch, TypeOK
  <2>3. patchFaults' \in 0..MaxPatchFaults
    BY <1>0, <1>1, BoundAssumption DEF Patch, TypeOK
  <2>4. tm' = tm \/ (tm' = [tm EXCEPT ![cur] = new] /\ changed /\ Exists(cur))
    BY <1>1, Zenon DEF Patch
  <2>5. QED
    BY <2>1, <2>2, <2>3, <2>4
<1>2. ASSUME NEW changed, NEW new \in Object, NEW p \in {"patchSpec", "patchStatus", "return"},
             Patch(changed, new, p)
      PROVE  /\ tm' \in [Machines -> Object] /\ \A m \in Machines \ {cur} : tm'[m] = tm[m]
             /\ tm'[cur] = tm[cur] \/ (tm'[cur] = new /\ changed /\ Exists(cur))
  BY <1>0, <1>1, <1>2 DEF TypeOK
<1>3. CASE PatchConditions
  <2> DEFINE cs == [t \in CondTypes |-> Pick(obj.conds[t], orig.conds[t], tm[cur].conds[t])]
             new == [tm[cur] EXCEPT !.conds = cs]
  <2>1. cs \in [CondTypes -> {"Unset", "True", "False"}]
    BY <1>0, ObjectFields DEF Pick
  <2>2. Patch(obj.conds # orig.conds, new, "patchSpec")
    BY <1>3 DEF PatchConditions
  <2> HIDE DEF cs
  <2>3. Same(new, tm[cur]) /\ new.ready = tm[cur].ready
    BY <1>0, <2>1 DEF Same, Object
  <2> HIDE DEF new
  <2>4. QED
    BY <1>0, <1>1, <1>2, <2>2, <2>3 DEF PatchEffect, Same
<1>4. CASE PatchSpec
  <2> DEFINE f == Pick(obj.finalizer, orig.finalizer, tm[cur].finalizer)
             i == Pick(obj.providerID, orig.providerID, tm[cur].providerID)
             q == IF tm[cur].phase = "deleting" /\ ~f THEN "gone" ELSE tm[cur].phase
             new == [tm[cur] EXCEPT !.finalizer = f, !.providerID = i, !.phase = q]
             changed == obj.finalizer # orig.finalizer \/ obj.providerID # orig.providerID
  <2>1. Patch(changed, new, "patchStatus") /\ pc = "patchSpec"
    BY <1>4 DEF PatchSpec
  <2>2. /\ f \in BOOLEAN /\ i \in BOOLEAN /\ q \in {"absent", "live", "deleting", "gone"}
        /\ tm[cur].finalizer /\ ~f => orig.finalizer /\ ~obj.finalizer
        /\ i => tm[cur].providerID \/ obj.providerID
    BY <1>0, ObjectFields DEF Pick
  <2>3. /\ q = tm[cur].phase \/ (q = "gone" /\ orig.finalizer /\ ~obj.finalizer)
        /\ q = "deleting" => f
    BY <1>0, <2>2
  <2> HIDE DEF f, i, q, changed
  <2>4. /\ new \in Object /\ new.phase = q /\ new.finalizer = f /\ new.providerID = i
        /\ new.ready = tm[cur].ready /\ new.addresses = tm[cur].addresses
    <3> DEFINE old == tm[cur]
    <3>1. old \in Object /\ f \in BOOLEAN /\ i \in BOOLEAN /\ q \in {"absent", "live", "deleting", "gone"}
      BY <1>0, <2>2, Zenon
    <3> HIDE DEF old
    <3>2. LET n == [old EXCEPT !.finalizer = f, !.providerID = i, !.phase = q] IN
          /\ n \in Object /\ n.phase = q /\ n.finalizer = f /\ n.providerID = i
          /\ n.ready = old.ready /\ n.addresses = old.addresses
      BY <3>1 DEF Object
    <3>3. QED
      BY <3>2, Zenon DEF old
  <2> HIDE DEF new
  <2>5. /\ tm' \in [Machines -> Object] /\ \A m \in Machines \ {cur} : tm'[m] = tm[m]
        /\ tm'[cur] = tm[cur] \/ tm'[cur] = new
    BY <1>2, <2>1, <2>4, Zenon
  <2>6. /\ UNCHANGED <<seen, queue, clusterVars, vcdVars, cur, obj, orig, members, panicking,
                       faults, crashes>>
        /\ pc' = "patchStatus" /\ requeue' \in BOOLEAN /\ patchFaults' \in 0..MaxPatchFaults
    BY <1>1, <2>1, Zenon
  <2>7. CASE tm'[cur] = tm[cur]
    BY <1>0, <2>1, <2>5, <2>6, <2>7 DEF PatchEffect
  <2>8. CASE tm'[cur] = new
    BY <1>0, <2>1, <2>2, <2>3, <2>4, <2>5, <2>6, <2>8 DEF PatchEffect
  <2>9. QED
    BY <2>5, <2>7, <2>8
<1>5. CASE PatchStatus
  <2> DEFINE a == Pick(obj.addresses, orig.addresses, tm[cur].addresses)
             r == Pick(obj.ready, orig.ready, tm[cur].ready)
             new == [tm[cur] EXCEPT !.addresses = a, !.ready = r]
             changed == obj.addresses # orig.addresses \/ obj.ready # orig.ready
  <2>1. Patch(changed, new, "return") /\ pc = "patchStatus"
    BY <1>5 DEF PatchStatus
  <2>2. a \in BOOLEAN /\ r \in BOOLEAN /\ (r => tm[cur].ready \/ obj.ready)
    BY <1>0, ObjectFields DEF Pick
  <2> HIDE DEF a, r, changed
  <2>3. /\ new \in Object /\ new.phase = tm[cur].phase /\ new.finalizer = tm[cur].finalizer
        /\ new.providerID = tm[cur].providerID /\ new.ready = r
    BY <1>0, <2>2 DEF Object
  <2> HIDE DEF new
  <2>4. Exists(cur) => tm[cur].phase # "gone"
    BY DEF Exists
  <2>5. /\ tm' \in [Machines -> Object] /\ \A m \in Machines \ {cur} : tm'[m] = tm[m]
        /\ tm'[cur] = tm[cur] \/ (tm'[cur] = new /\ Exists(cur))
    BY <1>2, <2>1, <2>3, Zenon
  <2>6. /\ UNCHANGED <<seen, queue, clusterVars, vcdVars, cur, obj, orig, members, panicking,
                       faults, crashes>>
        /\ pc' = "return" /\ requeue' \in BOOLEAN /\ patchFaults' \in 0..MaxPatchFaults
    BY <1>1, <2>1, Zenon
  <2>7. CASE tm'[cur] = tm[cur]
    BY <1>0, <2>1, <2>5, <2>6, <2>7 DEF PatchEffect
  <2>8. CASE tm'[cur] = new /\ Exists(cur)
    BY <1>0, <2>1, <2>2, <2>3, <2>4, <2>5, <2>6, <2>8 DEF PatchEffect
  <2>9. QED
    BY <2>5, <2>7, <2>8
<1>6. QED
  BY <1>0, <1>3, <1>4, <1>5

\* The patches preserve the invariant.
LEMMA PatchInv ==
    ASSUME IInv, PatchConditions \/ PatchSpec \/ PatchStatus
    PROVE  IInv'
<1>0. /\ TypeOK /\ PatchEffect /\ cur \in Machines /\ pc # "idle" /\ pc # "waitAdd"
      /\ pc' \in {"patchSpec", "patchStatus", "return"} /\ tm[cur].phase # "absent"
      /\ tm[cur] \in Object /\ tm'[cur] \in Object
  BY PatchEffectHolds DEF IInv, TypeOK, WorkerInv, PatchEffect
<1>1. UNCHANGED <<seen, infraRef, tcRefs, controlPlane, sized, vm, addTasks, ipSet, abandoned,
                  cur, obj, orig>>
  BY <1>0 DEF PatchEffect, clusterVars, vcdVars
<1>2. /\ tm'[cur].phase = tm[cur].phase
           \/ (tm'[cur].phase = "gone" /\ orig.finalizer /\ ~obj.finalizer)
      /\ orig.finalizer /\ ~obj.finalizer
           => Ended(cur) /\ seen[cur].phase \in {"deleting", "gone"} /\ (vm[cur] # {} => cur \in abandoned)
  BY <1>0 DEF PatchEffect, IInv, WorkerInv
<1>3. TypeOK'
  <2>1. pc' \in Stages \ {"idle"} /\ cur # NoMachine
    BY <1>0, MachineAssumption DEF Stages
  <2>2. QED
    BY <1>0, <2>1 DEF TypeOK, PatchEffect, clusterVars, vcdVars
<1>4. CacheInv'
  <2>1. CacheLags(cur)'
    BY <1>0, <1>1, <1>2 DEF IInv, CacheInv, CacheLags, WorkerInv, PatchEffect, Ended, Exists, Runs
  <2>2. ASSUME NEW m \in Machines \ {cur} PROVE CacheLags(m)'
    BY <1>0, <1>1, <2>2 DEF IInv, CacheInv, CacheLags, PatchEffect, Ended, Exists, Runs
  <2>3. QED
    BY <1>1, <2>1, <2>2 DEF CacheInv
<1>5. VCDInv'
  <2>1. VCDLags(cur)'
    BY <1>0, <1>1, <1>2, ObjectFields DEF IInv, VCDInv, VCDLags, PatchEffect, Untouched, Ended
  <2>2. ASSUME NEW m \in Machines \ {cur} PROVE VCDLags(m)'
    BY <1>0, <1>1, <2>2 DEF IInv, VCDInv, VCDLags, PatchEffect, Untouched
  <2>3. QED
    BY <1>1, <2>1, <2>2 DEF VCDInv
<1>6. WorkerInv' /\ StageInv'
  <2>1. pc' \notin BuildStages \cup DeleteStages
    BY <1>0 DEF BuildStages, SetupStages, MemberStages, DeleteStages
  <2>2. WorkerInv'
    BY <1>0, <1>1, <1>2, <2>1 DEF IInv, WorkerInv, Ended, Exists, Runs
  <2>3. StageInv'
    BY <1>0, <2>1 DEF StageInv, BuildStages, SetupStages, MemberStages
  <2>4. QED
    BY <2>2, <2>3
<1>7. BootConfigured' /\ NoOrphanVM'
  BY <1>0, <1>1, <1>2 DEF IInv, BootConfigured, NoOrphanVM, PatchEffect
<1>8. QED
  BY <1>3, <1>4, <1>5, <1>6, <1>7 DEF IInv

\* So does the end of a reconcile.
LEMMA FinishInv ==
    ASSUME IInv, Finish
    PROVE  IInv'
<1>0. /\ TypeOK /\ UNCHANGED <<tm, seen, infraRef, tcRefs, controlPlane, sized, vm, addTasks, ipSet, abandoned>>
      /\ pc = "return" /\ pc' = "idle" /\ cur' = NoMachine /\ cur \in Machines
  BY DEF IInv, TypeOK, Finish, ResetWorker, clusterVars, vcdVars
<1>1. TypeOK'
  BY <1>0, ObjectFields DEF TypeOK, Finish, ResetWorker, clusterVars, vcdVars, boundVars, Stages
<1>2. CacheInv' /\ BootConfigured' /\ NoOrphanVM'
  BY <1>0 DEF IInv, CacheInv, CacheLags, BootConfigured, NoOrphanVM, Ended, Exists, Runs
<1>3. VCDInv'
  BY <1>0 DEF IInv, VCDInv, VCDLags, Untouched
<1>4. WorkerInv' /\ StageInv'
  BY <1>0 DEF WorkerInv, StageInv, SetupStages, MemberStages
<1>5. QED
  BY <1>1, <1>2, <1>3, <1>4 DEF IInv

\* A panic and a crash end in a restart.
LEMMA DieInv ==
    ASSUME IInv, Die \/ Crash
    PROVE  IInv'
<1>1. /\ Restart /\ faults' \in 0..MaxFaults /\ patchFaults' \in 0..MaxPatchFaults
      /\ crashes' \in 0..MaxCrashes
  BY BoundAssumption DEF IInv, TypeOK, Die, Crash, boundVars
<1>2. QED
  BY <1>1, RestartInv

----------------------------------------------------------------------------
(* The environment preserves the invariant.                                *)

\* Steps that change nothing the invariant speaks of, but its types and what has
\* been recorded of the cluster.
LEMMA OutsideInv ==
    ASSUME IInv, Outside, TypeOK',
           UNCHANGED <<tm, seen, infraRef, controlPlane, sized, vm, addTasks, ipSet, abandoned>>,
           tcRefs \subseteq tcRefs'
    PROVE  IInv'
<1>0. UNCHANGED <<pc, cur, obj, orig, members>>
  BY DEF Outside, workerVars
<1>1. CacheInv' /\ BootConfigured' /\ NoOrphanVM'
  BY DEF IInv, CacheInv, CacheLags, BootConfigured, NoOrphanVM, Ended, Exists, Runs
<1>2. VCDInv'
  BY <1>0 DEF IInv, VCDInv, VCDLags, Untouched
<1>3. WorkerInv' /\ StageInv'
  BY <1>0 DEF IInv, WorkerInv, StageInv, Ended, Exists, Runs
<1>4. QED
  BY <1>1, <1>2, <1>3 DEF IInv

\* An edit of an object by users or Cluster API: what the controller records is its
\* own, a new object is live, and a deleted one waits for its finalizer.
LEMMA EditInv ==
    ASSUME IInv, NEW m \in Machines, NEW o \in Object, Edit(m, o),
           o.finalizer = tm[m].finalizer, o.providerID = tm[m].providerID, o.ready = tm[m].ready,
           \/ o.phase = tm[m].phase /\ tm[m].phase # "absent"
           \/ tm[m].phase = "absent" /\ o.phase = "live"
           \/ tm[m].phase = "live" /\ o.phase = "deleting" /\ tm[m].finalizer
           \/ tm[m].phase = "live" /\ o.phase = "gone" /\ ~tm[m].finalizer
    PROVE  IInv'
<1>0. /\ TypeOK /\ tm' = [tm EXCEPT ![m] = o] /\ tm' \in [Machines -> Object] /\ tm'[m] = o
      /\ \A n \in Machines \ {m} : tm'[n] = tm[n]
      /\ CacheLags(m) /\ VCDLags(m)
  BY DEF IInv, TypeOK, Edit, CacheInv, VCDInv
<1>1. UNCHANGED <<seen, queue, infraRef, tcRefs, controlPlane, sized, vm, addTasks, ipSet, abandoned,
                  pc, cur, obj, orig, members>>
  BY DEF Edit, Outside, clusterVars, vcdVars, workerVars
<1>2. tm[m].phase = "absent" => ~o.finalizer /\ ~o.providerID /\ ~o.ready /\ seen[m] = NewObject
  BY <1>0, ObjectFields DEF CacheLags
<1>3. TypeOK'
  BY <1>0, <1>1 DEF TypeOK, Edit, Outside, clusterVars, vcdVars, workerVars, boundVars
<1>4. CacheInv'
  <2>1. CacheLags(m)'
    BY <1>0, <1>1, <1>2, ObjectFields DEF CacheLags, Ended, Exists, Runs
  <2>2. ASSUME NEW n \in Machines \ {m} PROVE CacheLags(n)'
    BY <1>0, <1>1, <2>2 DEF IInv, CacheInv, CacheLags, Ended, Exists, Runs
  <2>3. QED
    BY <2>1, <2>2 DEF CacheInv
<1>5. VCDInv'
  <2>1. VCDLags(m)'
    BY <1>0, <1>1, <1>2 DEF VCDLags, Untouched
  <2>2. ASSUME NEW n \in Machines \ {m} PROVE VCDLags(n)'
    BY <1>0, <1>1, <2>2 DEF IInv, VCDInv, VCDLags, Untouched
  <2>3. QED
    BY <2>1, <2>2 DEF VCDInv
<1>6. WorkerInv' /\ StageInv'
  <2>1. pc # "idle" => /\ cur \in Machines /\ tm'[cur].phase # "absent"
                       /\ tm'[cur].phase = "live" => tm[cur].phase = "live"
                       /\ tm'[cur].finalizer = tm[cur].finalizer
                       /\ Ended(cur) => Ended(cur)'
                       /\ Exists(cur) /\ tm[cur].finalizer => Exists(cur)'
    BY <1>0, <1>1 DEF IInv, TypeOK, WorkerInv, Ended, Exists
  <2>2. WorkerInv'
    BY <1>1, <2>1 DEF IInv, WorkerInv, Runs
  <2>3. StageInv'
    BY <1>1, <2>1 DEF IInv, StageInv, MemberStages
  <2>4. QED
    BY <2>2, <2>3
<1>7. BootConfigured' /\ NoOrphanVM'
  BY <1>0, <1>1 DEF IInv, BootConfigured, NoOrphanVM, VCDLags, Untouched
<1>8. QED
  BY <1>3, <1>4, <1>5, <1>6, <1>7 DEF IInv

\* The edits that users and Cluster API make.
LEMMA EditsInv ==
    ASSUME IInv, NEW m \in Machines,
           CreateMachine(m) \/ SetOwner(m) \/ SetBootstrap(m) \/ DeleteMachine(m)
    PROVE  IInv'
<1>0. tm[m] \in Object /\ (tm[m].phase = "absent" => tm[m] = NewObject)
  BY DEF IInv, TypeOK, CacheInv, CacheLags
<1>1. CASE CreateMachine(m)
  <2> DEFINE o == [NewObject EXCEPT !.phase = "live"]
  <2>1. /\ o \in Object /\ o.phase = "live" /\ o.finalizer = NewObject.finalizer
        /\ o.providerID = NewObject.providerID /\ o.ready = NewObject.ready
    BY DEF NewObject, Object
  <2>2. tm[m].phase = "absent" /\ Edit(m, o)
    BY <1>1 DEF CreateMachine
  <2> HIDE DEF o
  <2>3. QED
    BY <1>0, <2>1, <2>2, EditInv
<1>2. CASE SetOwner(m)
  <2> DEFINE o == [tm[m] EXCEPT !.owner = TRUE]
  <2>1. Same(o, tm[m]) /\ o.ready = tm[m].ready
    BY <1>0 DEF Same, Object
  <2>2. Exists(m) /\ Edit(m, o)
    BY <1>2 DEF SetOwner
  <2> HIDE DEF o
  <2>3. QED
    BY <2>1, <2>2, EditInv DEF Same, Exists
<1>3. CASE SetBootstrap(m)
  <2> DEFINE o == [tm[m] EXCEPT !.bootstrap = TRUE]
  <2>1. Same(o, tm[m]) /\ o.ready = tm[m].ready
    BY <1>0 DEF Same, Object
  <2>2. Exists(m) /\ Edit(m, o)
    BY <1>3 DEF SetBootstrap
  <2> HIDE DEF o
  <2>3. QED
    BY <2>1, <2>2, EditInv DEF Same, Exists
<1>4. CASE DeleteMachine(m)
  <2> DEFINE q == IF tm[m].finalizer THEN "deleting" ELSE "gone"
             o == [tm[m] EXCEPT !.phase = q]
  <2>1. q \in {"deleting", "gone"} /\ (q = "deleting" <=> tm[m].finalizer)
    BY <1>0, ObjectFields
  <2>2. tm[m].phase = "live" /\ Edit(m, o)
    BY <1>4 DEF DeleteMachine
  <2> HIDE DEF q
  <2>3. /\ o \in Object /\ o.phase = q /\ o.finalizer = tm[m].finalizer
        /\ o.providerID = tm[m].providerID /\ o.ready = tm[m].ready
    BY <1>0, <2>1 DEF Object
  <2> HIDE DEF o
  <2>4. QED
    BY <2>1, <2>2, <2>3, EditInv
<1>5. QED
  BY <1>1, <1>2, <1>3, <1>4

\* The informers deliver what is stored.
LEMMA DeliverInv ==
    ASSUME IInv, NEW m \in Machines, Deliver(m)
    PROVE  IInv'
<1>0. /\ TypeOK /\ seen' \in [Machines -> Object] /\ seen'[m] = tm[m] /\ tm[m] \in Object
      /\ \A n \in Machines \ {m} : seen'[n] = seen[n]
  BY DEF IInv, TypeOK, Deliver
<1>1. UNCHANGED <<tm, infraRef, tcRefs, controlPlane, sized, vm, addTasks, ipSet, abandoned,
                  pc, cur, obj, orig, members>>
  BY DEF Deliver, Outside, clusterVars, vcdVars, workerVars
<1>2. TypeOK'
  BY <1>0, <1>1 DEF TypeOK, Deliver, Outside, clusterVars, vcdVars, workerVars, boundVars
<1>3. CacheInv'
  <2>1. CacheLags(m)'
    BY <1>0, <1>1 DEF IInv, CacheInv, CacheLags, Ended, Exists, Runs
  <2>2. ASSUME NEW n \in Machines \ {m} PROVE CacheLags(n)'
    BY <1>0, <1>1, <2>2 DEF IInv, CacheInv, CacheLags, Ended, Exists, Runs
  <2>3. QED
    BY <2>1, <2>2 DEF CacheInv
<1>4. VCDInv' /\ StageInv' /\ BootConfigured' /\ NoOrphanVM'
  BY <1>1 DEF IInv, VCDInv, VCDLags, Untouched, StageInv, BootConfigured, NoOrphanVM
<1>5. WorkerInv'
  <2>1. pc # "idle" => cur \in Machines
    BY <1>0 DEF TypeOK
  <2>2. QED
    BY <1>0, <1>1, <2>1 DEF IInv, WorkerInv, Ended, Exists, Runs
<1>6. QED
  BY <1>2, <1>3, <1>4, <1>5 DEF IInv

\* VCD ends a task that nobody has to wait for any more.
LEMMA EndAddTaskInv ==
    ASSUME IInv, NEW m \in Machines, EndAddTask(m)
    PROVE  IInv'
<1>0. /\ TypeOK /\ m \in addTasks /\ addTasks' = addTasks \ {m} /\ vm[m] = {}
      /\ m \in abandoned \/ (pc = "waitAdd" /\ cur = m)
      /\ ~Untouched(m) /\ VCDLags(m) /\ faults' \in 0..MaxFaults
  BY FaultType DEF IInv, VCDInv, VCDLags, EndAddTask, Untouched
<1>1. UNCHANGED <<tm, seen, infraRef, tcRefs, controlPlane, sized, ipSet, abandoned,
                  pc, cur, obj, orig, members>>
  BY DEF EndAddTask, apiVars, clusterVars, workerVars
<1>2. /\ vm' \in [Machines -> SUBSET VMParts] /\ vm'[m] \in {{}, {"vm"}}
      /\ \A n \in Machines \ {m} : vm'[n] = vm[n]
  BY <1>0 DEF TypeOK, EndAddTask, VMParts
<1>3. TypeOK'
  BY <1>0, <1>1, <1>2 DEF TypeOK, EndAddTask, apiVars, clusterVars, workerVars
<1>4. pc = "waitAdd" => obj.finalizer /\ Exists(cur)
  BY DEF IInv, WorkerInv, BuildStages
<1>5. CacheInv'
  <2>1. CacheLags(m)'
    BY <1>0, <1>1 DEF IInv, CacheInv, CacheLags, Ended, Exists, Runs
  <2>2. ASSUME NEW n \in Machines \ {m} PROVE CacheLags(n)'
    BY <1>0, <1>1, <1>2, <2>2 DEF IInv, CacheInv, CacheLags, Ended, Exists, Runs
  <2>3. QED
    BY <2>1, <2>2 DEF CacheInv
<1>6. VCDInv'
  <2>1. VCDLags(m)'
    BY <1>0, <1>1 DEF VCDLags
  <2>2. ASSUME NEW n \in Machines \ {m} PROVE VCDLags(n)'
    BY <1>0, <1>1, <1>2, <2>2 DEF IInv, VCDInv, VCDLags, Untouched
  <2>3. QED
    BY <2>1, <2>2 DEF VCDInv
<1>7. WorkerInv'
  <2>1. CASE cur = m
    <3>1. pc # "idle" /\ tm[cur].phase = "live" => ~obj.providerID /\ ~obj.ready
      BY <1>0, <2>1 DEF IInv, WorkerInv, Runs
    <3>2. orig.finalizer /\ ~obj.finalizer => cur \in abandoned
      BY <1>0, <1>4, <2>1
    <3>3. QED
      BY <1>1, <2>1, <3>1, <3>2 DEF IInv, WorkerInv, Ended, Exists
  <2>2. CASE cur # m /\ pc # "idle"
    <3>1. cur \in Machines \ {m}
      BY <1>0, <2>2 DEF TypeOK
    <3>2. vm'[cur] = vm[cur]
      BY <1>2, <3>1
    <3>3. QED
      BY <1>1, <2>2, <3>2 DEF IInv, WorkerInv, Ended, Exists, Runs
  <2>3. QED
    BY <1>1, <2>1, <2>2 DEF WorkerInv
<1>8. StageInv'
  <2>1. CASE cur = m
    BY <1>0, <1>1, <2>1 DEF IInv, StageInv, SetupStages, MemberStages
  <2>2. CASE cur # m /\ pc # "idle"
    <3>1. cur \in Machines \ {m}
      BY <1>0, <2>2 DEF TypeOK
    <3>2. vm'[cur] = vm[cur]
      BY <1>2, <3>1
    <3>3. QED
      BY <1>0, <1>1, <2>2, <3>2 DEF IInv, StageInv
  <2>3. QED
    BY <1>1, <2>1, <2>2 DEF StageInv, SetupStages, MemberStages
<1>9. BootConfigured'
  BY <1>1, <1>2 DEF IInv, BootConfigured
<1>10. NoOrphanVM'
  BY <1>0, <1>1, <1>2, <1>4 DEF IInv, NoOrphanVM, Exists
<1>11. QED
  BY <1>3, <1>5, <1>6, <1>7, <1>8, <1>9, <1>10 DEF IInv

\* The vApp goes with its VMs only when no machine is left.
LEMMA RemoveVAppInv ==
    ASSUME IInv, RemoveVApp
    PROVE  IInv'
<1>0. /\ TypeOK /\ vm' = [m \in Machines |-> {}] /\ addTasks' = {} /\ vApp' = "removed"
      /\ \A m \in Machines : ~Exists(m)
  BY DEF IInv, RemoveVApp
<1>1. UNCHANGED <<tm, seen, infraRef, tcRefs, controlPlane, sized, ipSet, abandoned,
                  pc, cur, obj, orig, members>>
  BY DEF RemoveVApp, Outside, apiVars, clusterVars, workerVars
<1>2. TypeOK'
  BY <1>0, <1>1 DEF TypeOK, RemoveVApp, Outside, apiVars, clusterVars, workerVars, boundVars
<1>3. \A m \in Machines : vm'[m] = {} /\ tm[m].phase # "live"
  BY <1>0 DEF Exists
<1>4. CacheInv'
  BY <1>0, <1>1, <1>3 DEF IInv, CacheInv, CacheLags, Ended, Exists
<1>5. VCDInv'
  BY <1>0, <1>1, <1>3 DEF IInv, VCDInv, VCDLags, Untouched
<1>6. pc # "idle" => cur \in Machines /\ pc \notin BuildStages
  BY <1>0 DEF IInv, TypeOK, WorkerInv
<1>7. WorkerInv'
  BY <1>1, <1>3, <1>6 DEF IInv, WorkerInv, Ended, Exists
<1>8. StageInv'
  BY <1>1, <1>6 DEF IInv, StageInv, BuildStages, SetupStages, MemberStages
<1>9. BootConfigured' /\ NoOrphanVM'
  BY <1>1, <1>3 DEF BootConfigured, NoOrphanVM
<1>10. QED
  BY <1>2, <1>4, <1>5, <1>7, <1>8, <1>9 DEF IInv

\* Everything outside the controller preserves the invariant.
LEMMA EnvironmentInv ==
    ASSUME IInv, Environment
    PROVE  IInv'
<1>0. TypeOK
  BY DEF IInv
<1>1. CASE SetIdentityRef \/ SetInfrastructureReady \/ SetControlPlaneInitialized
  <2>1. /\ UNCHANGED <<tm, seen, vcdVars, infraRef, controlPlane, sized, tcRefs>> /\ Outside
        /\ queue' \subseteq Machines
        /\ identityRef' \in BOOLEAN /\ infraReady' \in BOOLEAN /\ cpInit' \in BOOLEAN
    BY <1>0, <1>1 DEF SetIdentityRef, SetInfrastructureReady, SetControlPlaneInitialized, ClusterEvent,
                      TypeOK, apiVars
  <2>2. TypeOK'
    BY <1>0, <2>1 DEF TypeOK, Outside, vcdVars, workerVars, boundVars
  <2>3. QED
    BY <2>1, <2>2, OutsideInv DEF vcdVars
<1>2. CASE BuildVApp
  <2>1. TypeOK'
    BY <1>0, <1>2 DEF BuildVApp, TypeOK, Outside, apiVars, clusterVars, workerVars, boundVars
  <2>2. QED
    BY <1>2, <2>1, OutsideInv DEF BuildVApp, apiVars, clusterVars
<1>3. CASE RecordInfrastructure
  <2>1. TypeOK'
    BY <1>0, <1>3 DEF RecordInfrastructure, TypeOK, Outside, apiVars, vcdVars, workerVars, boundVars
  <2>2. QED
    BY <1>3, <2>1, OutsideInv DEF RecordInfrastructure, apiVars, vcdVars
<1>4. QED
  BY <1>1, <1>2, <1>3, EditsInv, DeliverInv, EndAddTaskInv, RemoveVAppInv DEF Environment

----------------------------------------------------------------------------
(* The theorems about safety.                                              *)

\* The initial states satisfy the invariant.
LEMMA InitInv ==
    ASSUME Init
    PROVE  IInv
<1>1. NewObject \in Object
  BY ObjectFields
<1>2. TypeOK
  <2>1. tm \in [Machines -> Object] /\ seen \in [Machines -> Object] /\ vm \in [Machines -> SUBSET VMParts]
    BY <1>1 DEF Init
  <2>2. controlPlane \subseteq Machines /\ sized \subseteq Machines
    BY MachineAssumption DEF Init
  <2>3. faults \in 0..MaxFaults /\ patchFaults \in 0..MaxPatchFaults /\ crashes \in 0..MaxCrashes
    BY BoundAssumption DEF Init
  <2>4. QED
    BY <1>1, <2>1, <2>2, <2>3 DEF Init, TypeOK, Stages
<1>3. /\ \A m \in Machines : tm[m] = NewObject /\ seen[m] = NewObject /\ vm[m] = {}
      /\ addTasks = {} /\ ipSet = {} /\ pc = "idle"
  BY DEF Init
<1>4. CacheInv
  BY <1>3, ObjectFields DEF CacheInv, CacheLags
<1>5. VCDInv /\ BootConfigured /\ NoOrphanVM
  BY <1>3 DEF VCDInv, VCDLags, Untouched, BootConfigured, NoOrphanVM
<1>6. WorkerInv /\ StageInv
  BY <1>3 DEF WorkerInv, StageInv, SetupStages, MemberStages
<1>7. QED
  BY <1>2, <1>4, <1>5, <1>6 DEF IInv

\* Every step preserves the invariant.
LEMMA NextInv ==
    ASSUME IInv, [Next]_vars
    PROVE  IInv'
<1>1. CASE UNCHANGED vars
  BY <1>1 DEF vars, apiVars, clusterVars, vcdVars, workerVars, boundVars, IInv, TypeOK, CacheInv,
              CacheLags, VCDInv, VCDLags, WorkerInv, StageInv, BootConfigured, NoOrphanVM, Ended,
              Exists, Runs, Untouched
<1>2. QED
  BY <1>1, ReconcileInv, BuildInv, DeleteInv, PatchInv, FinishInv, DieInv, EnvironmentInv
     DEF Next, Worker, Save

\* The inductive invariant holds in every reachable state.
THEOREM Invariance == Spec => []IInv
BY InitInv, NextInv, PTL DEF Spec

\* Type correctness of TenantMachine: the worker holds a key exactly while a
\* reconcile is under way, and the bounds are kept.
THEOREM TypeCorrect == Spec => []TypeOK
<1>1. IInv => TypeOK
  BY DEF IInv
<1>2. QED
  BY <1>1, Invariance, PTL

\* BootConfigured for every set of machines: whatever crashed or failed before,
\* no VM is powered on without computer name, userdata and requested resources.
THEOREM BootConfiguredHolds == Spec => []BootConfigured
<1>1. IInv => BootConfigured
  BY DEF IInv
<1>2. QED
  BY <1>1, Invariance, PTL

\* ReadyRuns for every set of machines, with stale reads as well: Status.Ready is
\* true of a live machine only while its VM runs and is reachable.
THEOREM ReadyRunsHolds == Spec => []ReadyRuns
<1>1. IInv => ReadyRuns
  BY DEF IInv, CacheInv, CacheLags, Runs, ReadyRuns
<1>2. QED
  BY <1>1, Invariance, PTL

\* NoOrphanVM for every set of machines: a VM outlives its object only if its
\* AddNewVM task was abandoned.
THEOREM NoOrphanVMHolds == Spec => []NoOrphanVM
<1>1. IInv => NoOrphanVM
  BY DEF IInv
<1>2. QED
  BY <1>1, Invariance, PTL

\* No step but those of a machine's own deletion takes its address out of the IP set.
LEMMA MembersKeptStep ==
    ASSUME IInv, [Next]_vars, NEW m \in ipSet, m \notin ipSet'
    PROVE  tm[m].phase \in {"deleting", "gone"}
<1>1. CASE Delete
  <2>1. /\ DeleteFrame /\ cur \in Machines /\ pc \in DeleteStages
        /\ pc # "idle" /\ obj.phase = "deleting" /\ Ended(cur)
    BY <1>1, DeleteFrameHolds DEF IInv, WorkerInv, DeleteStages
  <2>2. QED
    BY <2>1 DEF DeleteFrame, Ended
<1>2. CASE Build
  BY <1>2, BuildInv DEF VCDStep
<1>3. CASE UNCHANGED vars
  BY <1>3 DEF vars, vcdVars
<1>4. CASE \E n \in Machines : Reconcile(n)
  BY <1>4 DEF Reconcile, ReconcileUnpatched, ReconcileDeleted, AddFinalizer, Gates, Take, vcdVars
<1>5. CASE Save
  BY <1>5 DEF Save, PatchConditions, PatchSpec, PatchStatus, Patch, Finish, vcdVars
<1>6. CASE Die \/ Crash
  BY <1>6 DEF Die, Crash, Restart
<1>7. CASE Environment
  BY <1>7 DEF Environment, Deliver, CreateMachine, SetOwner, SetBootstrap, DeleteMachine, Edit,
              EndAddTask, SetIdentityRef, BuildVApp, RemoveVApp, RecordInfrastructure,
              SetInfrastructureReady, SetControlPlaneInitialized, vcdVars
<1>8. QED
  BY <1>1, <1>2, <1>3, <1>4, <1>5, <1>6, <1>7 DEF Next, Worker

\* MembersKept for every set of machines: rewriting the IP set as a whole, from the
\* list read one call earlier, loses no member.
THEOREM MembersKeptHolds == Spec => MembersKept
<1>1. ASSUME IInv, [Next]_vars
      PROVE  [\A m \in ipSet : m \notin ipSet' => tm[m].phase \in {"deleting", "gone"}]_vars
  BY <1>1, MembersKeptStep
<1>2. QED
  BY <1>1, Invariance, PTL DEF Spec, MembersKept

----------------------------------------------------------------------------
(* With fresh reads a deleted machine's address leaves the IP set.         *)

\* A reconcile starts from the stored addresses.
LEMMA ReconcileFresh ==
    ASSUME IInv, FreshReads, FreshInv, NEW m \in Machines, Reconcile(m)
    PROVE  FreshInv'
<1>0. /\ pc = "idle" /\ UNCHANGED <<tm, ipSet>> /\ seen[m] = tm[m] /\ seen[m] \in Object
  BY DEF IInv, TypeOK, Reconcile, ReconcileUnpatched, ReconcileDeleted, AddFinalizer, Gates, Take, vcdVars
<1>1. GoneLeavesIPSet'
  BY <1>0 DEF FreshInv, GoneLeavesIPSet
<1>2. CASE ReconcileUnpatched(m)
  BY <1>0, <1>1, <1>2 DEF ReconcileUnpatched, workerVars, FreshInv
<1>3. CASE ReconcileDeleted(m)
  BY <1>0, <1>1, <1>3 DEF ReconcileDeleted, Proceed, FreshInv, FreshCopy
<1>4. CASE AddFinalizer(m)
  <2> DEFINE o == [seen[m] EXCEPT !.finalizer = TRUE]
  <2>1. o.finalizer /\ o.addresses = seen[m].addresses
    BY <1>0, SetFinalizerType
  <2>2. ReturnAtOnce(m, o, FALSE, FALSE)
    BY <1>4 DEF AddFinalizer
  <2> HIDE DEF o
  <2>3. QED
    BY <1>0, <1>1, <2>1, <2>2 DEF ReturnAtOnce, FreshInv, FreshCopy
<1>5. CASE Gates(m)
  <2>1. /\ cur' = m /\ orig' = seen[m] /\ obj' \in {seen[m], VMNotReady(seen[m])}
        /\ pc' \in {"connect", "patchConditions"} /\ seen[m].finalizer
    BY <1>5 DEF Gates, ReturnAtOnce, Proceed
  <2>2. obj'.finalizer /\ obj'.addresses = orig'.addresses
    BY <1>0, <2>1, MarkedType DEF Same
  <2>3. QED
    BY <1>0, <1>1, <2>1, <2>2 DEF FreshInv, FreshCopy
<1>6. QED
  BY <1>2, <1>3, <1>4, <1>5 DEF Reconcile

\* Building works for an object that is there, and never takes its finalizer off.
LEMMA BuildFresh ==
    ASSUME IInv, FreshReads, FreshInv, Build
    PROVE  FreshInv'
<1>0. /\ BuildFrame /\ VCDStep /\ pc \in BuildStages /\ pc # "return" /\ pc # "idle"
      /\ pc' # "deleteVM" /\ UNCHANGED <<tm, cur, orig>>
  BY BuildInv DEF Build, Connect, LookupVM, WaitAdd, ReadInputs, SetComputerName, SetUserdata,
                  UpdateSpec, PowerOn, ReadIPSet, JoinIPSet, BuildStages, SetupStages, MemberStages,
                  BuildFrame, apiVars
<1>1. obj'.finalizer /\ obj'.phase = "live" /\ Exists(cur)
  BY <1>0 DEF IInv, WorkerInv, BuildFrame
<1>2. GoneLeavesIPSet'
  BY <1>0, <1>1 DEF FreshInv, GoneLeavesIPSet, VCDStep, Exists
<1>3. FreshCopy'
  BY <1>0, <1>1 DEF FreshInv, FreshCopy
<1>4. QED
  BY <1>2, <1>3 DEF FreshInv

\* reconcileDelete comes to the VM only when the recorded address has left.
LEMMA DeleteFresh ==
    ASSUME IInv, FreshReads, FreshInv, Delete
    PROVE  FreshInv'
<1>0. /\ DeleteFrame /\ pc \in DeleteStages /\ cur \in Machines /\ pc # "return" /\ pc # "idle"
      /\ UNCHANGED <<tm, cur, orig>> /\ obj \in Object /\ VCDLags(cur) /\ FreshCopy
      /\ obj.phase = "deleting"
  BY DeleteFrameHolds DEF DeleteFrame, DeleteStages, apiVars, IInv, TypeOK, VCDInv, WorkerInv, FreshInv
<1>1. obj'.addresses = obj.addresses /\ obj'.phase = obj.phase /\ pc' # "return"
  BY <1>0, SetFinalizerType DEF DeleteFrame, NoFinalizer, DeleteStages
<1>2. pc' = "deleteVM" /\ obj.addresses => cur \notin ipSet'
  <2>1. CASE DeleteConnect
    BY <1>0, <2>1 DEF DeleteConnect, WorkerOnly, vcdVars, VCDLags, Goto, Return, Panic
  <2>2. CASE DeleteReadIPSet
    BY <2>2 DEF DeleteReadIPSet, Return, Panic
  <2>3. CASE LeaveIPSet
    BY <2>3 DEF LeaveIPSet, Return, Goto
  <2>4. CASE DeleteVM
    BY <2>4 DEF DeleteVM, Return
  <2>5. QED
    BY <2>1, <2>2, <2>3, <2>4 DEF Delete
<1>3. obj' # obj /\ obj.addresses => cur \notin ipSet'
  <2>1. CASE DeleteConnect
    BY <1>0, <2>1 DEF DeleteConnect, WorkerOnly, vcdVars, VCDLags, Untouched, Goto, Return, Panic
  <2>2. CASE DeleteReadIPSet
    BY <2>2 DEF DeleteReadIPSet, Return, Panic
  <2>3. CASE LeaveIPSet
    BY <2>3 DEF LeaveIPSet, Return, Goto
  <2>4. CASE DeleteVM
    BY <1>0, <2>4 DEF DeleteVM, Return, FreshCopy
  <2>5. QED
    BY <2>1, <2>2, <2>3, <2>4 DEF Delete
<1>4. ipSet' \subseteq ipSet
  BY <1>0 DEF DeleteFrame
<1>5. GoneLeavesIPSet'
  BY <1>0, <1>4 DEF FreshInv, GoneLeavesIPSet
<1>6. FreshCopy'
  BY <1>0, <1>1, <1>2, <1>3, <1>4 DEF FreshCopy
<1>7. QED
  BY <1>5, <1>6 DEF FreshInv

\* The patch that lets an object go leaves its addresses as they were read.
LEMMA PatchFresh ==
    ASSUME IInv, FreshReads, FreshInv, PatchConditions \/ PatchSpec \/ PatchStatus
    PROVE  FreshInv'
<1>0. /\ PatchEffect /\ cur \in Machines /\ pc # "return" /\ pc # "idle" /\ FreshCopy
      /\ pc' # "deleteVM" /\ pc \in {"patchConditions", "patchSpec", "patchStatus"}
      /\ UNCHANGED <<cur, obj, orig, ipSet>>
  BY PatchEffectHolds DEF PatchEffect, FreshInv, vcdVars
<1>1. orig.finalizer /\ ~obj.finalizer => obj.phase = "deleting"
  BY <1>0 DEF IInv, WorkerInv
<1>2. GoneLeavesIPSet'
  BY <1>0, <1>1 DEF FreshInv, GoneLeavesIPSet, FreshCopy, PatchEffect
<1>3. FreshCopy'
  BY <1>0 DEF FreshCopy, PatchEffect
<1>4. QED
  BY <1>2, <1>3 DEF FreshInv

\* Users and Cluster API leave the addresses alone; an object that goes at once,
\* without a finalizer, never had one.
LEMMA EditFresh ==
    ASSUME IInv, FreshReads, FreshInv, NEW m \in Machines, NEW o \in Object, Edit(m, o),
           o.addresses = tm[m].addresses,
           o.phase # "gone" \/ (tm[m].phase = "live" /\ ~tm[m].finalizer)
    PROVE  FreshInv'
<1>0. /\ tm'[m] = o /\ (\A n \in Machines \ {m} : tm'[n] = tm[n])
      /\ UNCHANGED <<ipSet, pc, cur, obj, orig>>
      /\ pc # "idle" => cur \in Machines
  BY DEF IInv, TypeOK, Edit, Outside, vcdVars, workerVars
<1>1. GoneLeavesIPSet'
  BY <1>0 DEF IInv, VCDInv, VCDLags, Untouched, FreshInv, GoneLeavesIPSet
<1>2. pc # "idle" => tm'[cur].addresses = tm[cur].addresses
  BY <1>0
<1>3. QED
  BY <1>0, <1>1, <1>2 DEF FreshInv, FreshCopy

\* So the environment preserves the invariant.
LEMMA EnvironmentFresh ==
    ASSUME IInv, FreshReads, FreshInv, Environment
    PROVE  FreshInv'
<1>1. CASE UNCHANGED <<tm, ipSet, workerVars>>
  BY <1>1 DEF FreshInv, FreshCopy, GoneLeavesIPSet, workerVars
<1>2. ASSUME NEW m \in Machines,
             CreateMachine(m) \/ SetOwner(m) \/ SetBootstrap(m) \/ DeleteMachine(m)
      PROVE  FreshInv'
  <2>0. tm[m] \in Object /\ (tm[m].phase = "absent" => tm[m] = NewObject)
    BY DEF IInv, TypeOK, CacheInv, CacheLags
  <2>1. CASE CreateMachine(m)
    <3> DEFINE o == [NewObject EXCEPT !.phase = "live"]
    <3>1. o \in Object /\ o.phase = "live" /\ o.addresses = NewObject.addresses
      BY DEF NewObject, Object
    <3>2. tm[m].phase = "absent" /\ Edit(m, o)
      BY <2>1 DEF CreateMachine
    <3> HIDE DEF o
    <3>3. QED
      BY <2>0, <3>1, <3>2, EditFresh
  <2>2. CASE SetOwner(m)
    <3> DEFINE o == [tm[m] EXCEPT !.owner = TRUE]
    <3>1. Same(o, tm[m])
      BY <2>0 DEF Same, Object
    <3>2. Exists(m) /\ Edit(m, o)
      BY <2>2 DEF SetOwner
    <3> HIDE DEF o
    <3>3. QED
      BY <3>1, <3>2, EditFresh DEF Same, Exists
  <2>3. CASE SetBootstrap(m)
    <3> DEFINE o == [tm[m] EXCEPT !.bootstrap = TRUE]
    <3>1. Same(o, tm[m])
      BY <2>0 DEF Same, Object
    <3>2. Exists(m) /\ Edit(m, o)
      BY <2>3 DEF SetBootstrap
    <3> HIDE DEF o
    <3>3. QED
      BY <3>1, <3>2, EditFresh DEF Same, Exists
  <2>4. CASE DeleteMachine(m)
    <3> DEFINE q == IF tm[m].finalizer THEN "deleting" ELSE "gone"
               o == [tm[m] EXCEPT !.phase = q]
    <3>1. q \in {"deleting", "gone"} /\ (q = "gone" => ~tm[m].finalizer)
      BY <2>0, ObjectFields
    <3>2. tm[m].phase = "live" /\ Edit(m, o)
      BY <2>4 DEF DeleteMachine
    <3> HIDE DEF q
    <3>3. o \in Object /\ o.phase = q /\ o.addresses = tm[m].addresses
      BY <2>0, <3>1 DEF Object
    <3> HIDE DEF o
    <3>4. QED
      BY <3>1, <3>2, <3>3, EditFresh
  <2>5. QED
    BY <1>2, <2>1, <2>2, <2>3, <2>4
<1>3. \/ UNCHANGED <<tm, ipSet, workerVars>>
      \/ \E m \in Machines : CreateMachine(m) \/ SetOwner(m) \/ SetBootstrap(m) \/ DeleteMachine(m)
  BY DEF Environment, Deliver, EndAddTask, SetIdentityRef, BuildVApp, RemoveVApp, RecordInfrastructure,
         SetInfrastructureReady, SetControlPlaneInitialized, Outside, apiVars, vcdVars
<1>4. QED
  BY <1>1, <1>2, <1>3

\* A restart forgets the copy.
LEMMA RestartFresh ==
    ASSUME FreshInv, Restart
    PROVE  FreshInv'
BY DEF Restart, ResetWorker, FreshInv, GoneLeavesIPSet

\* Initially nothing is recorded.
LEMMA InitFresh == Init => FreshInv
BY ObjectFields DEF Init, FreshInv, GoneLeavesIPSet

\* Every step keeps what is said of the addresses.
LEMMA NextFresh ==
    ASSUME IInv, FreshInv, [Next]_vars
    PROVE  FreshInv'
<1> SUFFICES ASSUME FreshReads PROVE FreshInv'
  BY DEF FreshInv
<1>1. CASE UNCHANGED vars
  BY <1>1 DEF vars, apiVars, vcdVars, workerVars, FreshInv, FreshCopy, GoneLeavesIPSet
<1>2. CASE Die \/ Crash
  BY <1>2, RestartFresh DEF Die, Crash
<1>3. CASE Finish
  BY <1>3 DEF Finish, ResetWorker, vcdVars, FreshInv, GoneLeavesIPSet
<1>4. QED
  BY <1>1, <1>2, <1>3, ReconcileFresh, BuildFresh, DeleteFresh, PatchFresh, EnvironmentFresh
     DEF Next, Worker, Save

\* GoneLeavesIPSet for every set of machines, with fresh reads: reconcileDelete lets
\* a machine go only after its recorded address has left the IP set.
THEOREM GoneLeavesIPSetHolds == Spec => [](FreshReads => GoneLeavesIPSet)
<1>1. FreshInv => (FreshReads => GoneLeavesIPSet)
  BY DEF FreshInv
<1>2. QED
  BY <1>1, InitFresh, NextFresh, Invariance, PTL DEF Spec

----------------------------------------------------------------------------
(* What the machine controller, with Cluster API's edits of tenant         *)
(* machines, does that the cluster controller can see.                     *)

\* A step of the worker, or one that concerns a tenant machine that is there.
MachineAction ==
    \/ Build \/ Delete \/ Save
    \/ \E m \in Machines : \/ Reconcile(m) \/ Deliver(m) \/ EndAddTask(m)
                           \/ SetOwner(m) \/ SetBootstrap(m) \/ DeleteMachine(m)

\* It brings no tenant machine into being; an address that enters the IP set is that
\* of a tenant machine that exists; and without a tenant machine no VM is made but
\* by a task that runs already.
LEMMA MachineActionEffect ==
    ASSUME IInv, MachineAction
    PROVE  /\ UNCHANGED crashes
           /\ \A m \in Machines : Exists(m)' => Exists(m)
           /\ \/ ipSet' = ipSet
              \/ \E m \in Machines : Exists(m) /\ m \notin ipSet /\ ipSet' = ipSet \cup {m}
              \/ \E m \in Machines : m \in ipSet /\ ipSet' = ipSet \ {m}
           /\ (\A m \in Machines : ~Exists(m)) /\ addTasks = {} /\ (\A m \in Machines : vm[m] = {})
                 => addTasks' = {} /\ (\A m \in Machines : vm'[m] = {})
<1>0. TypeOK /\ ipSet \subseteq Machines
  BY DEF IInv, TypeOK
<1>1. CASE Build
  <2>1. /\ BuildFrame /\ VCDStep /\ cur \in Machines /\ Exists(cur)
    BY <1>1, BuildInv DEF IInv, TypeOK, WorkerInv, Build, Connect, LookupVM, WaitAdd, ReadInputs,
          SetComputerName, SetUserdata, UpdateSpec, PowerOn, ReadIPSet, JoinIPSet, BuildStages,
          SetupStages, MemberStages
  <2>2. UNCHANGED <<tm, crashes>>
    BY <2>1 DEF BuildFrame, apiVars
  <2>3. ipSet' = ipSet \/ (cur \notin ipSet /\ ipSet' = ipSet \cup {cur})
    BY <2>1 DEF VCDStep
  <2>4. QED
    BY <2>1, <2>2, <2>3 DEF Exists
<1>2. CASE Delete
  <2>1. DeleteFrame /\ cur \in Machines
    BY <1>2, DeleteFrameHolds
  <2>2. UNCHANGED <<tm, crashes, addTasks>>
    BY <2>1 DEF DeleteFrame, apiVars
  <2>3. ipSet' = ipSet \/ (cur \in ipSet /\ ipSet' = ipSet \ {cur})
    BY <2>1 DEF DeleteFrame
  <2>4. \A m \in Machines : vm[m] = {} => vm'[m] = {}
    BY <1>0, <2>1 DEF DeleteFrame, TypeOK
  <2>5. QED
    BY <1>0, <2>1, <2>2, <2>3, <2>4 DEF Exists
<1>3. CASE PatchConditions \/ PatchSpec \/ PatchStatus
  <2>1. PatchEffect /\ cur \in Machines /\ UNCHANGED <<crashes, vcdVars>>
    BY <1>3, PatchEffectHolds DEF PatchEffect
  <2>2. \A m \in Machines : tm'[m].phase = tm[m].phase \/ tm'[m].phase = "gone"
    BY <2>1 DEF PatchEffect
  <2>3. QED
    BY <2>1, <2>2 DEF Exists, vcdVars
<1>4. CASE Finish \/ \E m \in Machines : Reconcile(m) \/ Deliver(m)
  <2>1. UNCHANGED <<tm, crashes, vm, addTasks, ipSet>>
    BY <1>4 DEF Finish, Deliver, Outside, Reconcile, ReconcileUnpatched, ReconcileDeleted, AddFinalizer,
                Gates, Take, vcdVars, boundVars
  <2>2. QED
    BY <2>1 DEF Exists
<1>5. CASE \E m \in Machines : EndAddTask(m)
  <2>1. UNCHANGED <<tm, crashes, ipSet>> /\ addTasks # {}
    BY <1>5 DEF EndAddTask, apiVars
  <2>2. QED
    BY <2>1 DEF Exists
<1>6. CASE \E m \in Machines : SetOwner(m) \/ SetBootstrap(m) \/ DeleteMachine(m)
  <2>1. PICK m \in Machines : SetOwner(m) \/ SetBootstrap(m) \/ DeleteMachine(m)
    BY <1>6
  <2>2. UNCHANGED <<crashes, vcdVars>> /\ Exists(m) /\ \A n \in Machines \ {m} : tm'[n] = tm[n]
    BY <1>0, <2>1 DEF SetOwner, SetBootstrap, DeleteMachine, Edit, Outside, boundVars, Exists, TypeOK
  <2>3. QED
    BY <2>2 DEF Exists, vcdVars
<1>7. QED
  BY <1>1, <1>2, <1>3, <1>4, <1>5, <1>6 DEF MachineAction, Save

=============================================================================
