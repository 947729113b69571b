--------------------------- MODULE TenantMachine ---------------------------
(***************************************************************************)
(* The CloudDirectorTenantMachine controller                               *)
(* (controllers/clouddirectortenantmachine_controller.go) for the machines *)
(* of one cluster: a single worker builds a VM step by step, adds the      *)
(* address of a control plane VM to the load balancer's IP set, records    *)
(* the result in the object, and undoes all of it on deletion.             *)
(*                                                                         *)
(* One action stands for one call the outside world can see. Calls that    *)
(* only read and whose failures have the same effect are one action.       *)
(***************************************************************************)
EXTENDS Naturals

CONSTANTS
    Machines,        \* CloudDirectorTenantMachine objects that may be created
    ControlPlanes,   \* the sets of machines that may carry the control plane label
    SizedSets,       \* the sets of machines whose spec may ask for memory, CPUs or disks
    NoMachine,       \* the idle worker's key
    FreshReads,      \* TRUE: the informer caches have caught up when a reconcile reads them
    RunningAccepted, \* TRUE: VCD accepts a power-on of a VM that runs already
    MaxFaults,       \* bound on failed VCD calls and reads
    MaxPatchFaults,  \* bound on failed API patches
    MaxCrashes       \* bound on process crashes

ASSUME MachineAssumption ==
    /\ ControlPlanes \subseteq SUBSET Machines /\ SizedSets \subseteq SUBSET Machines
    /\ NoMachine \notin Machines
ASSUME FlagAssumption == FreshReads \in BOOLEAN /\ RunningAccepted \in BOOLEAN
ASSUME BoundAssumption == MaxFaults \in Nat /\ MaxPatchFaults \in Nat /\ MaxCrashes \in Nat

CondTypes == {"VirtualMachineReady", "LoadBalancerMember"}

\* The object, with what the informers know of its owner Machine: whether the
\* owner reference and the bootstrap data secret are set. ProviderID belongs to
\* the spec, "addresses" (Status.Addresses is filled) and "ready" to the status.
Object ==
    [phase: {"absent", "live", "deleting", "gone"},
     finalizer: BOOLEAN, owner: BOOLEAN, bootstrap: BOOLEAN,
     providerID: BOOLEAN, addresses: BOOLEAN, ready: BOOLEAN,
     conds: [CondTypes -> {"Unset", "True", "False"}]]

NewObject ==
    [phase |-> "absent", finalizer |-> FALSE, owner |-> FALSE, bootstrap |-> FALSE,
     providerID |-> FALSE, addresses |-> FALSE, ready |-> FALSE,
     conds |-> [t \in CondTypes |-> "Unset"]]

\* What has been done to a VM. "vm" stands for its existence.
VMParts == {"vm", "computerName", "userdata", "spec", "on"}

VARIABLES
    \* Kubernetes API server, informer caches, work queue
    tm, seen, queue,
    infraRef,     \* the owner Cluster's Spec.InfrastructureRef is set
    infraReady,   \* its Status.InfrastructureReady
    cpInit,       \* its ControlPlaneInitialized condition
    identityRef,  \* the tenant cluster's Spec.IdentityRef is set
    controlPlane, \* machines whose owner carries the control plane label
    sized,        \* machines whose spec asks for memory, CPUs or disks
    tcRefs,       \* the tenant cluster's Status.VApp and Status.IPSet, as cached
    \* Cloud Director
    vApp,         \* the cluster's vApp: none yet, without its network, with it, or removed
    vm,           \* what has been done to each machine's VM
    addTasks,     \* machines for which an AddNewVM task runs
    ipSet,        \* machines whose address is in the IP set
    abandoned,    \* history: machines whose AddNewVM task nobody waits for
    \* the worker
    pc, cur, obj, orig, members, requeue, panicking,
    \* bounds
    faults, patchFaults, crashes

apiVars == <<tm, seen, queue>>
clusterVars == <<infraRef, infraReady, cpInit, identityRef, controlPlane, sized, tcRefs>>
vcdVars == <<vApp, vm, addTasks, ipSet, abandoned>>
workerVars == <<pc, cur, obj, orig, members, requeue, panicking>>
boundVars == <<faults, patchFaults, crashes>>
vars == <<apiVars, clusterVars, vcdVars, workerVars, boundVars>>

Init ==
    /\ tm = [m \in Machines |-> NewObject] /\ seen = tm /\ queue = {}
    /\ infraRef \in BOOLEAN /\ infraReady = FALSE /\ cpInit = FALSE
    /\ identityRef \in BOOLEAN /\ tcRefs = {}
    /\ controlPlane \in ControlPlanes /\ sized \in SizedSets
    /\ vApp = "none" /\ vm = [m \in Machines |-> {}] /\ addTasks = {} /\ ipSet = {} /\ abandoned = {}
    /\ pc = "idle" /\ cur = NoMachine /\ obj = NewObject /\ orig = NewObject
    /\ members = {} /\ requeue = FALSE /\ panicking = FALSE
    /\ faults = 0 /\ patchFaults = 0 /\ crashes = 0

----------------------------------------------------------------------------
(* Control flow of a reconcile.                                            *)

NoFault == faults' = faults
Fault == faults < MaxFaults /\ faults' = faults + 1

Goto(p) == pc' = p /\ UNCHANGED <<cur, obj, orig, members, requeue, panicking>>

\* Reconcile returns and the deferred patchTenantMachine starts; "again" is TRUE
\* for an error and for RequeueAfter.
Return(o, again) ==
    /\ pc' = "patchConditions" /\ obj' = o /\ requeue' = again
    /\ UNCHANGED <<cur, orig, members, panicking>>

\* A nil dereference: the deferred patch runs, then the process dies.
Panic(o) ==
    /\ pc' = "patchConditions" /\ obj' = o /\ panicking' = TRUE
    /\ UNCHANGED <<cur, orig, members, requeue>>

\* The locals of a reconcile go with it.
ResetWorker ==
    /\ pc' = "idle" /\ cur' = NoMachine /\ obj' = NewObject /\ orig' = NewObject
    /\ members' = {} /\ requeue' = FALSE /\ panicking' = FALSE

Mark(o, type, status) == [o EXCEPT !.conds[type] = status]
VMNotReady(o) == Mark(o, "VirtualMachineReady", "False")

WorkerOnly == UNCHANGED <<apiVars, clusterVars, vcdVars, patchFaults, crashes>>

----------------------------------------------------------------------------
(* Reconcile: reading the objects and choosing the branch.                 *)

Take(m) ==
    /\ pc = "idle" /\ m \in queue
    /\ FreshReads => seen[m] = tm[m]
    /\ queue' = queue \ {m}
    /\ UNCHANGED <<tm, seen, clusterVars, vcdVars, patchFaults, crashes>>

\* Before the patch helper exists, a reconcile ends without a patch: object not
\* found, no owner, or a failed read of the owner Machine or Cluster.
ReconcileUnpatched(m) ==
    LET cached == seen[m].phase \in {"live", "deleting"} IN
    /\ pc = "idle" /\ m \in queue /\ (FreshReads => seen[m] = tm[m])
    /\ \/ (~cached \/ ~seen[m].owner) /\ NoFault /\ queue' = queue \ {m}
       \/ cached /\ seen[m].owner /\ Fault /\ UNCHANGED queue
    /\ UNCHANGED <<tm, seen, clusterVars, vcdVars, patchFaults, crashes, workerVars>>

\* The reconcile of m goes on at p, or returns at once with object o.
Proceed(m, p) ==
    /\ pc' = p /\ cur' = m /\ obj' = seen[m] /\ orig' = seen[m]
    /\ UNCHANGED <<members, requeue, panicking>>
ReturnAtOnce(m, o, again, panics) ==
    /\ pc' = "patchConditions" /\ cur' = m /\ obj' = o /\ orig' = seen[m]
    /\ requeue' = again /\ panicking' = panics /\ UNCHANGED members

ReconcileDeleted(m) ==
    /\ Take(m) /\ seen[m].phase = "deleting" /\ seen[m].owner /\ NoFault
    /\ Proceed(m, "deleteConnect")

AddFinalizer(m) ==
    /\ Take(m) /\ seen[m].phase = "live" /\ seen[m].owner /\ ~seen[m].finalizer /\ NoFault
    /\ ReturnAtOnce(m, [seen[m] EXCEPT !.finalizer = TRUE], FALSE, FALSE)

\* Mutant: a reconcile need not find the finalizer stored.
GatesUnfinalized(m) ==
    /\ Take(m) /\ seen[m].phase = "live" /\ seen[m].owner /\ seen[m].bootstrap /\ NoFault
    /\ infraReady /\ infraRef /\ identityRef /\ (m \in controlPlane \/ cpInit)
    /\ Proceed(m, "connect")

\* The gates in the order of the code. Waiting for the control plane, and for an
\* identity reference, is not requeued.
Gates(m) ==
    LET infra == infraReady
        boot == infra /\ seen[m].bootstrap
        ctrl == boot /\ (m \in controlPlane \/ cpInit) IN
    /\ Take(m) /\ seen[m].phase = "live" /\ seen[m].owner /\ seen[m].finalizer
    /\ \/ ~boot /\ NoFault /\ ReturnAtOnce(m, VMNotReady(seen[m]), TRUE, FALSE)
       \/ boot /\ ~ctrl /\ NoFault /\ ReturnAtOnce(m, VMNotReady(seen[m]), FALSE, FALSE)
       \/ ctrl /\ ~infraRef /\ NoFault /\ ReturnAtOnce(m, seen[m], FALSE, TRUE)
       \/ ctrl /\ infraRef /\ Fault /\ ReturnAtOnce(m, seen[m], TRUE, FALSE)
       \/ ctrl /\ infraRef /\ ~identityRef /\ NoFault
          /\ ReturnAtOnce(m, VMNotReady(seen[m]), FALSE, FALSE)
       \/ ctrl /\ infraRef /\ identityRef /\ NoFault /\ Proceed(m, "connect")

Reconcile(m) ==
    ReconcileUnpatched(m) \/ ReconcileDeleted(m) \/ AddFinalizer(m) \/ Gates(m)

----------------------------------------------------------------------------
(* Reconcile: building the VM.                                             *)

MachineReady(o) == [Mark(o, "VirtualMachineReady", "True") EXCEPT !.ready = TRUE]

\* What follows the VM block: IP set membership for a control plane machine.
AfterVM(o) ==
    \/ cur \notin controlPlane /\ Return(MachineReady(o), FALSE)
    \/ /\ cur \in controlPlane /\ pc' = "readIPSet" /\ obj' = o
       /\ UNCHANGED <<cur, orig, members, requeue, panicking>>

\* GetVCDClient (nil for a Secret that lacks a key), org, VDC and vApp. The vApp
\* is looked up by the ID in the tenant cluster's cached Status; it is not removed
\* while there are machines.
Connect ==
    /\ pc = "connect" /\ WorkerOnly
    /\ \/ Fault /\ Return(VMNotReady(obj), TRUE)
       \/ Fault /\ Panic(obj)
       \/ "VApp" \notin tcRefs /\ NoFault /\ Panic(obj)
       \/ "VApp" \in tcRefs /\ NoFault /\ obj.providerID /\ AfterVM(obj)
       \/ "VApp" \in tcRefs /\ NoFault /\ ~obj.providerID /\ Goto("lookupVM")

\* Mutant: a VM that exists is taken to be configured.
LookupVMSkipsSetup ==
    /\ pc = "lookupVM" /\ NoFault
    /\ UNCHANGED <<apiVars, clusterVars, vApp, vm, ipSet, abandoned, patchFaults, crashes>>
    /\ \/ vm[cur] # {} /\ Goto("powerOn") /\ UNCHANGED addTasks
       \/ vm[cur] = {} /\ Goto("waitAdd") /\ addTasks' = addTasks \cup {cur}

\* Mutant: AddNewVM is called although the VM is there.
LookupVMAddsAgain ==
    /\ pc = "lookupVM" /\ cur \notin addTasks /\ NoFault /\ Goto("waitAdd")
    /\ addTasks' = addTasks \cup {cur}
    /\ UNCHANGED <<apiVars, clusterVars, vApp, vm, ipSet, abandoned, patchFaults, crashes>>

\* Catalog, VM by name, template, AddNewVM. An error of the VM lookup other than
\* NotFound leaves vm nil. VCD refuses to add a VM while it is adding one of
\* the same name.
LookupVM ==
    /\ pc = "lookupVM"
    /\ UNCHANGED <<apiVars, clusterVars, vApp, vm, ipSet, patchFaults, crashes>>
    /\ \/ Fault /\ Return(VMNotReady(obj), TRUE) /\ UNCHANGED <<addTasks, abandoned>>
       \/ Fault /\ Panic(obj) /\ UNCHANGED <<addTasks, abandoned>>
       \/ vm[cur] # {} /\ NoFault /\ Goto("readInputs") /\ UNCHANGED <<addTasks, abandoned>>
       \/ /\ vm[cur] = {} /\ cur \in addTasks /\ NoFault
          /\ Return(VMNotReady(obj), TRUE) /\ UNCHANGED <<addTasks, abandoned>>
       \/ /\ vm[cur] = {} /\ cur \notin addTasks /\ NoFault /\ Goto("waitAdd")
          /\ addTasks' = addTasks \cup {cur} /\ UNCHANGED abandoned
       \/ /\ vm[cur] = {} /\ cur \notin addTasks /\ Fault /\ Return(VMNotReady(obj), TRUE)
          /\ addTasks' = addTasks \cup {cur} /\ abandoned' = abandoned \cup {cur}

\* WaitTaskCompletion returns when the task has ended, or with an error that is
\* only logged; then the VM is looked up again.
WaitAdd ==
    /\ pc = "waitAdd"
    /\ UNCHANGED <<apiVars, clusterVars, vApp, vm, addTasks, ipSet, patchFaults, crashes>>
    /\ \/ /\ cur \notin addTasks /\ NoFault /\ UNCHANGED abandoned
          /\ \/ vm[cur] # {} /\ Goto("readInputs")
             \/ vm[cur] = {} /\ Return(VMNotReady(obj), TRUE)
       \/ /\ Fault /\ Return(VMNotReady(obj), TRUE)
          /\ abandoned' = abandoned \cup ({cur} \cap addTasks)

\* Bootstrap secret, vApp network, network connections, cloud-init template and
\* guest customization section: any failure requeues without a condition. The
\* cluster controller may have left the vApp without its network.
ReadInputs ==
    /\ pc = "readInputs" /\ WorkerOnly
    /\ \/ vApp = "networked" /\ NoFault /\ Goto("setComputerName")
       \/ vApp # "networked" /\ NoFault /\ Return(obj, TRUE)
       \/ Fault /\ Return(obj, TRUE)

VMGets(part) == vm' = [vm EXCEPT ![cur] = IF @ = {} THEN {} ELSE @ \cup {part}]

SetComputerName ==
    /\ pc = "setComputerName"
    /\ UNCHANGED <<apiVars, clusterVars, vApp, addTasks, ipSet, abandoned, patchFaults, crashes>>
    /\ \/ NoFault /\ Goto("setUserdata") /\ VMGets("computerName")
       \/ Fault /\ Return(obj, TRUE) /\ (VMGets("computerName") \/ UNCHANGED vm)

\* Mutant: a failed update of the product sections ends without an error.
SetUserdataNoRequeue ==
    /\ pc = "setUserdata"
    /\ UNCHANGED <<apiVars, clusterVars, vApp, addTasks, ipSet, abandoned, patchFaults, crashes>>
    /\ \/ NoFault /\ Goto("updateSpec") /\ VMGets("userdata")
       \/ Fault /\ Return(obj, FALSE) /\ UNCHANGED vm

\* userdata and metadata go into one product section list. The list that VCD
\* returns may lack its product section, which is dereferenced.
SetUserdata ==
    /\ pc = "setUserdata"
    /\ UNCHANGED <<apiVars, clusterVars, vApp, addTasks, ipSet, abandoned, patchFaults, crashes>>
    /\ \/ NoFault /\ Goto("updateSpec") /\ VMGets("userdata")
       \/ Fault /\ Return(obj, TRUE) /\ (VMGets("userdata") \/ UNCHANGED vm)
       \/ Fault /\ Panic(obj) /\ UNCHANGED vm

\* UpdateVmSpecSection is called only if the machine asks for other resources. The
\* disk section panics for a VM that an earlier update left without disks (see
\* VMConfig).
UpdateSpec ==
    /\ pc = "updateSpec"
    /\ UNCHANGED <<apiVars, clusterVars, vApp, addTasks, ipSet, abandoned, patchFaults, crashes>>
    /\ \/ cur \notin sized /\ NoFault /\ Goto("powerOn") /\ UNCHANGED vm
       \/ cur \in sized /\ NoFault /\ Goto("powerOn") /\ VMGets("spec")
       \/ /\ cur \in sized /\ Fault /\ Return(VMNotReady(obj), TRUE)
          /\ (VMGets("spec") \/ UNCHANGED vm)
       \/ cur \in sized /\ Fault /\ Panic(obj) /\ UNCHANGED vm

\* PowerOn and its task. Only here ProviderID and Addresses are filled in, the
\* latter if ReadInputs found a network connection (the cloud-init template has
\* already failed for one without an IP address).
PowerOn ==
    LET refused == "on" \in vm[cur] /\ ~RunningAccepted IN
    /\ pc = "powerOn"
    /\ UNCHANGED <<apiVars, clusterVars, vApp, addTasks, ipSet, abandoned, patchFaults, crashes>>
    /\ \/ ~refused /\ NoFault /\ VMGets("on")
          /\ AfterVM([obj EXCEPT !.providerID = TRUE, !.addresses = TRUE])
       \/ ~refused /\ Fault /\ VMGets("on")
          /\ AfterVM([obj EXCEPT !.providerID = TRUE])
       \/ refused /\ NoFault /\ Return(VMNotReady(obj), TRUE) /\ UNCHANGED vm
       \/ Fault /\ Return(VMNotReady(obj), TRUE) /\ (VMGets("on") \/ UNCHANGED vm)

----------------------------------------------------------------------------
(* Reconcile: IP set membership, a read, a change in memory, and a write.  *)

Joined(o) == MachineReady(Mark(o, "LoadBalancerMember", "True"))
NotJoined(o) == Mark(o, "LoadBalancerMember", "False")

\* Mutant: a machine without a recorded address is taken for a member.
ReadIPSetNoAddress ==
    /\ pc = "readIPSet" /\ WorkerOnly /\ "IPSet" \in tcRefs /\ NoFault
    /\ \/ ~obj.addresses /\ Return(Joined(obj), FALSE)
       \/ /\ obj.addresses /\ members' = ipSet /\ pc' = "joinIPSet"
          /\ UNCHANGED <<cur, obj, orig, requeue, panicking>>

ReadIPSet ==
    /\ pc = "readIPSet" /\ WorkerOnly
    /\ \/ "IPSet" \notin tcRefs /\ NoFault /\ Panic(obj)
       \/ "IPSet" \in tcRefs /\ Fault /\ Return(NotJoined(obj), TRUE)
       \/ /\ "IPSet" \in tcRefs /\ NoFault
          /\ \/ ~obj.addresses /\ Return(obj, TRUE)
             \/ obj.addresses /\ cur \in ipSet /\ Return(Joined(obj), FALSE)
             \/ /\ obj.addresses /\ cur \notin ipSet
                /\ members' = ipSet /\ pc' = "joinIPSet"
                /\ UNCHANGED <<cur, obj, orig, requeue, panicking>>

\* Mutant: the list of members is replaced instead of extended.
JoinIPSetReplaces ==
    /\ pc = "joinIPSet" /\ NoFault /\ ipSet' = {cur} /\ Return(Joined(obj), FALSE)
    /\ UNCHANGED <<apiVars, clusterVars, vApp, vm, addTasks, abandoned, patchFaults, crashes>>

JoinIPSet ==
    /\ pc = "joinIPSet"
    /\ UNCHANGED <<apiVars, clusterVars, vApp, vm, addTasks, abandoned, patchFaults, crashes>>
    /\ \/ NoFault /\ ipSet' = members \cup {cur} /\ Return(Joined(obj), FALSE)
       \/ Fault /\ ipSet' \in {ipSet, members \cup {cur}} /\ Return(NotJoined(obj), TRUE)

Build ==
    \/ Connect \/ LookupVM \/ WaitAdd \/ ReadInputs \/ SetComputerName \/ SetUserdata
    \/ UpdateSpec \/ PowerOn \/ ReadIPSet \/ JoinIPSet

----------------------------------------------------------------------------
(* reconcileDelete.                                                        *)

NoFinalizer(o) == [o EXCEPT !.finalizer = FALSE]

\* Without InfrastructureRef there is nothing to undo. GetVCDClient dereferences
\* Spec.IdentityRef. Only a recorded address is looked for in the IP set.
DeleteConnect ==
    LET listed == cur \in controlPlane /\ obj.addresses IN
    /\ pc = "deleteConnect" /\ WorkerOnly
    /\ \/ ~infraRef /\ NoFault /\ Return(NoFinalizer(obj), FALSE)
       \/ infraRef /\ Fault /\ Return(obj, TRUE)
       \/ infraRef /\ ~identityRef /\ NoFault /\ Panic(obj)
       \/ infraRef /\ identityRef /\ Fault /\ Panic(obj)
       \/ /\ infraRef /\ identityRef /\ NoFault
          /\ \/ listed /\ Goto("deleteReadIPSet")
             \/ ~listed /\ Goto("deleteVM")

DeleteReadIPSet ==
    /\ pc = "deleteReadIPSet" /\ WorkerOnly
    /\ \/ "IPSet" \notin tcRefs /\ NoFault /\ Panic(obj)
       \/ "IPSet" \in tcRefs /\ Fault /\ Return(obj, TRUE)
       \/ /\ "IPSet" \in tcRefs /\ NoFault
          /\ members' = ipSet /\ pc' = "leaveIPSet"
          /\ UNCHANGED <<cur, obj, orig, requeue, panicking>>

\* Mutant: a failed update of the IP set is ignored.
LeaveIPSetIgnoresError ==
    /\ pc = "leaveIPSet" /\ Goto("deleteVM")
    /\ \/ NoFault /\ ipSet' = members \ {cur}
       \/ Fault /\ UNCHANGED ipSet
    /\ UNCHANGED <<apiVars, clusterVars, vApp, vm, addTasks, abandoned, patchFaults, crashes>>

LeaveIPSet ==
    /\ pc = "leaveIPSet"
    /\ UNCHANGED <<apiVars, clusterVars, vApp, vm, addTasks, abandoned, patchFaults, crashes>>
    /\ \/ NoFault /\ ipSet' = members \ {cur} /\ Goto("deleteVM")
       \/ Fault /\ ipSet' \in {ipSet, members \ {cur}} /\ Return(obj, TRUE)

\* Mutant: the finalizer goes although VM.Delete failed.
DeleteVMIgnoresError ==
    /\ pc = "deleteVM" /\ Return(NoFinalizer(obj), FALSE)
    /\ UNCHANGED <<apiVars, clusterVars, vApp, addTasks, ipSet, abandoned, patchFaults, crashes>>
    /\ \/ NoFault /\ vm' = [vm EXCEPT ![cur] = {}]
       \/ Fault /\ UNCHANGED vm

\* Mutant: a failed VM.Delete ends the reconcile without an error.
DeleteVMNoRequeue ==
    /\ pc = "deleteVM"
    /\ UNCHANGED <<apiVars, clusterVars, vApp, addTasks, ipSet, abandoned, patchFaults, crashes>>
    /\ \/ NoFault /\ vm' = [vm EXCEPT ![cur] = {}] /\ Return(NoFinalizer(obj), FALSE)
       \/ Fault /\ UNCHANGED vm /\ Return(obj, FALSE)

\* Without a recorded vApp, or without a VM of that name, the finalizer goes
\* at once; else after VM.Delete, which VCD is taken to accept for a VM that runs.
\* A stale reconcile may find the vApp removed.
DeleteVM ==
    LET removed == vm' = [vm EXCEPT ![cur] = {}] IN
    /\ pc = "deleteVM"
    /\ UNCHANGED <<apiVars, clusterVars, vApp, addTasks, ipSet, abandoned, patchFaults, crashes>>
    /\ \/ "VApp" \notin tcRefs /\ NoFault /\ Return(NoFinalizer(obj), FALSE) /\ UNCHANGED vm
       \/ vApp = "removed" /\ NoFault /\ Return(obj, TRUE) /\ UNCHANGED vm
       \/ "VApp" \in tcRefs /\ vApp # "removed" /\ NoFault /\ Return(NoFinalizer(obj), FALSE) /\ removed
       \/ "VApp" \in tcRefs /\ Fault /\ Return(obj, TRUE) /\ (removed \/ UNCHANGED vm)

Delete == DeleteConnect \/ DeleteReadIPSet \/ LeaveIPSet \/ DeleteVM

----------------------------------------------------------------------------
(* patchTenantMachine: merge patches of the conditions, of metadata and    *)
(* spec, and of the status, each attempted even if an earlier one failed.  *)

Exists(m) == tm[m].phase \in {"live", "deleting"}
Pick(after, before, stored) == IF after # before THEN after ELSE stored

Patch(changed, patched, p) ==
    /\ pc' = p
    /\ UNCHANGED <<seen, queue, clusterVars, vcdVars, cur, obj, orig, members, panicking,
                   faults, crashes>>
    /\ \/ ~changed /\ UNCHANGED <<tm, requeue, patchFaults>>
       \/ /\ changed /\ Exists(cur)
          /\ tm' = [tm EXCEPT ![cur] = patched] /\ UNCHANGED <<requeue, patchFaults>>
       \/ changed /\ ~Exists(cur) /\ requeue' = TRUE /\ UNCHANGED <<tm, patchFaults>>
       \/ /\ changed /\ patchFaults < MaxPatchFaults /\ patchFaults' = patchFaults + 1
          /\ requeue' = TRUE /\ UNCHANGED tm

PatchConditions ==
    /\ pc = "patchConditions"
    /\ Patch(obj.conds # orig.conds,
             [tm[cur] EXCEPT !.conds =
                 [t \in CondTypes |-> Pick(obj.conds[t], orig.conds[t], @[t])]], "patchSpec")

\* The API server removes a deleted object with its last finalizer.
PatchSpec ==
    LET f == Pick(obj.finalizer, orig.finalizer, tm[cur].finalizer) IN
    /\ pc = "patchSpec"
    /\ Patch(obj.finalizer # orig.finalizer \/ obj.providerID # orig.providerID,
             [tm[cur] EXCEPT !.finalizer = f,
                             !.providerID = Pick(obj.providerID, orig.providerID, @),
                             !.phase = IF @ = "deleting" /\ ~f THEN "gone" ELSE @],
             "patchStatus")

PatchStatus ==
    /\ pc = "patchStatus"
    /\ Patch(obj.addresses # orig.addresses \/ obj.ready # orig.ready,
             [tm[cur] EXCEPT !.addresses = Pick(obj.addresses, orig.addresses, @),
                             !.ready = Pick(obj.ready, orig.ready, @)], "return")

\* The process starts over: the informers list every object and enqueue it; a
\* task the old process was waiting for goes on in VCD.
Restart ==
    /\ ResetWorker
    /\ seen' = tm
    /\ queue' = {m \in Machines : Exists(m)}
    /\ abandoned' = abandoned \cup ({cur} \cap addTasks)
    /\ UNCHANGED <<tm, clusterVars, vApp, vm, addTasks, ipSet>>

Finish ==
    /\ pc = "return" /\ ~panicking /\ ResetWorker
    /\ queue' = IF requeue THEN queue \cup {cur} ELSE queue
    /\ UNCHANGED <<tm, seen, clusterVars, vcdVars, boundVars>>

Die == pc = "return" /\ panicking /\ Restart /\ UNCHANGED boundVars

Save == PatchConditions \/ PatchSpec \/ PatchStatus \/ Finish

Crash ==
    /\ crashes < MaxCrashes /\ crashes' = crashes + 1
    /\ Restart
    /\ UNCHANGED <<faults, patchFaults>>

----------------------------------------------------------------------------
(* The environment: informers, users, Cluster API, the cluster controller, *)
(* Cloud Director.                                                         *)

Outside == UNCHANGED <<workerVars, boundVars>>

Deliver(m) ==
    /\ seen[m] # tm[m]
    /\ seen' = [seen EXCEPT ![m] = tm[m]]
    /\ queue' = queue \cup {m}
    /\ UNCHANGED <<tm, clusterVars, vcdVars>> /\ Outside

Edit(m, o) ==
    /\ tm' = [tm EXCEPT ![m] = o]
    /\ UNCHANGED <<seen, queue, clusterVars, vcdVars>> /\ Outside

\* Cluster API makes no machine for a cluster that is being deleted.
CreateMachine(m) ==
    /\ tm[m].phase = "absent" /\ vApp # "removed"
    /\ Edit(m, [NewObject EXCEPT !.phase = "live"])
SetOwner(m) == Exists(m) /\ ~tm[m].owner /\ Edit(m, [tm[m] EXCEPT !.owner = TRUE])
SetBootstrap(m) ==
    Exists(m) /\ tm[m].owner /\ ~tm[m].bootstrap /\ Edit(m, [tm[m] EXCEPT !.bootstrap = TRUE])
DeleteMachine(m) ==
    /\ tm[m].phase = "live"
    /\ Edit(m, [tm[m] EXCEPT !.phase = IF tm[m].finalizer THEN "deleting" ELSE "gone"])

\* A change of the owner Cluster enqueues its tenant machines; a change of the
\* tenant cluster, which this controller does not watch, enqueues nothing.
ClusterEvent == queue' = queue \cup {m \in Machines : seen[m].phase \in {"live", "deleting"}}

SetIdentityRef ==
    /\ ~identityRef /\ identityRef' = TRUE
    /\ UNCHANGED <<apiVars, vcdVars, infraRef, infraReady, cpInit, controlPlane, sized, tcRefs>> /\ Outside

\* The cluster controller makes the vApp and attaches its network, before it
\* records anything.
BuildVApp ==
    /\ infraRef /\ identityRef /\ tcRefs = {}
    /\ \/ vApp = "none" /\ vApp' = "bare"
       \/ vApp = "bare" /\ vApp' = "networked"
    /\ UNCHANGED <<apiVars, clusterVars, vm, addTasks, ipSet, abandoned>> /\ Outside

\* It removes the vApp, with the VMs that are left in it, when no Machine and thus
\* no tenant machine is left.
RemoveVApp ==
    /\ "VApp" \in tcRefs /\ vApp # "removed" /\ \A m \in Machines : ~Exists(m)
    /\ vApp' = "removed" /\ vm' = [m \in Machines |-> {}] /\ addTasks' = {}
    /\ UNCHANGED <<apiVars, clusterVars, ipSet, abandoned>> /\ Outside

\* Its Status, at times only half of it, becomes visible in this controller's cache.
RecordInfrastructure ==
    /\ tcRefs = {} => vApp # "none"
    /\ tcRefs' \in {{"VApp"}, {"VApp", "IPSet"}} /\ tcRefs \subseteq tcRefs' /\ tcRefs # tcRefs'
    /\ UNCHANGED <<apiVars, vcdVars, infraRef, infraReady, cpInit, identityRef, controlPlane, sized>> /\ Outside

\* Cluster API copies the tenant cluster's Status.Ready, and takes a Cluster
\* without InfrastructureRef for ready. The two objects are cached separately.
SetInfrastructureReady ==
    /\ ~infraReady /\ infraReady' = TRUE
    /\ infraRef => /\ identityRef /\ vApp # "none"
                   /\ FreshReads => tcRefs = {"VApp", "IPSet"}
    /\ ClusterEvent
    /\ UNCHANGED <<tm, seen, vcdVars, infraRef, cpInit, identityRef, controlPlane, sized, tcRefs>> /\ Outside

\* Control plane machines need not be among those of the model.
SetControlPlaneInitialized ==
    /\ ~cpInit /\ infraReady /\ cpInit' = TRUE
    /\ ClusterEvent
    /\ UNCHANGED <<tm, seen, vcdVars, infraRef, infraReady, identityRef, controlPlane, sized, tcRefs>> /\ Outside

\* VCD ends an AddNewVM task, with or without a VM.
EndAddTask(m) ==
    /\ m \in addTasks /\ addTasks' = addTasks \ {m}
    /\ \/ NoFault /\ vm' = [vm EXCEPT ![m] = {"vm"}]
       \/ Fault /\ UNCHANGED vm
    /\ UNCHANGED <<apiVars, clusterVars, vApp, ipSet, abandoned, workerVars, patchFaults, crashes>>

Environment ==
    \/ \E m \in Machines : \/ Deliver(m) \/ CreateMachine(m) \/ SetOwner(m)
                           \/ SetBootstrap(m) \/ DeleteMachine(m) \/ EndAddTask(m)
    \/ SetIdentityRef \/ BuildVApp \/ RemoveVApp \/ RecordInfrastructure \/ SetInfrastructureReady
    \/ SetControlPlaneInitialized

Worker == (\E m \in Machines : Reconcile(m)) \/ Build \/ Delete \/ Save \/ Die

Next == Worker \/ Crash \/ Environment

\* The worker runs, every queued key is eventually taken, the informers deliver
\* every change and VCD ends every task.
Fairness ==
    /\ WF_vars(Build \/ Delete \/ Save \/ Die)
    /\ WF_vars(RecordInfrastructure)
    /\ \A m \in Machines :
          SF_vars(Reconcile(m)) /\ WF_vars(Deliver(m)) /\ WF_vars(EndAddTask(m))

Spec == Init /\ [][Next]_vars
FairSpec == Spec /\ Fairness

----------------------------------------------------------------------------
(* Properties.                                                             *)

Stages == {"idle", "connect", "lookupVM", "waitAdd", "readInputs", "setComputerName",
           "setUserdata", "updateSpec", "powerOn", "readIPSet", "joinIPSet",
           "deleteConnect", "deleteReadIPSet", "leaveIPSet", "deleteVM",
           "patchConditions", "patchSpec", "patchStatus", "return"}

\* Type invariant: objects are well formed, a VM that does not exist has no
\* parts, none is added by a task while it exists (a retried reconcile finds the VM,
\* or the task, of an earlier one), and the worker holds a key exactly while a
\* reconcile is under way.
TypeOK ==
    /\ tm \in [Machines -> Object] /\ seen \in [Machines -> Object]
    /\ queue \subseteq Machines
    /\ infraRef \in BOOLEAN /\ infraReady \in BOOLEAN /\ cpInit \in BOOLEAN
    /\ identityRef \in BOOLEAN /\ tcRefs \subseteq {"VApp", "IPSet"}
    /\ controlPlane \subseteq Machines /\ sized \subseteq Machines
    /\ vApp \in {"none", "bare", "networked", "removed"} /\ vm \in [Machines -> SUBSET VMParts]
    /\ \A m \in Machines : vm[m] # {} => "vm" \in vm[m]
    /\ \A m \in addTasks : vm[m] = {}
    /\ addTasks \subseteq Machines /\ ipSet \subseteq Machines /\ abandoned \subseteq Machines
    /\ pc \in Stages
    /\ cur \in Machines \cup {NoMachine} /\ (pc = "idle" <=> cur = NoMachine)
    /\ obj \in Object /\ orig \in Object
    /\ members \subseteq Machines
    /\ requeue \in BOOLEAN /\ panicking \in BOOLEAN
    /\ faults \in 0..MaxFaults /\ patchFaults \in 0..MaxPatchFaults
    /\ crashes \in 0..MaxCrashes

\* A VM never runs without the configuration it boots from: computer name,
\* userdata and the requested resources are set by whichever reconcile powers it
\* on, also when an earlier one got half-way and failed or crashed.
BootConfigured ==
    \A m \in Machines : "on" \in vm[m] =>
        /\ {"computerName", "userdata"} \subseteq vm[m]
        /\ m \in sized => "spec" \in vm[m]

\* A machine that reports Status.Ready has a running VM, and as a control plane
\* machine receives load balancer traffic, until it is deleted.
ReadyRuns ==
    \A m \in Machines : tm[m].phase = "live" /\ tm[m].ready =>
        /\ "on" \in vm[m]
        /\ m \in controlPlane => m \in ipSet

\* The one way a VM outlives its object: its AddNewVM task was still running when
\* the reconcile that started it stopped waiting, so that reconcileDelete did
\* not find the VM yet.
NoOrphanVM ==
    \A m \in Machines : tm[m].phase = "gone" /\ vm[m] # {} => m \in abandoned

\* When reconcileDelete lets a machine go whose address is recorded in Status,
\* the address has left the IP set. (A crash between the update of the IP set
\* and the patch that records the address still leaves it behind.)
GoneLeavesIPSet ==
    \A m \in Machines : tm[m].phase = "gone" /\ tm[m].addresses => m \notin ipSet

\* The IP set is rewritten as a whole from a list read one call earlier; still no
\* machine ever loses its membership but by its own deletion.
MembersKept ==
    [][\A m \in ipSet : m \notin ipSet' => tm[m].phase \in {"deleting", "gone"}]_vars

\* The dead ends of Reconcile: ProviderID was recorded without an address (no
\* later reconcile enters the branch that fills it in), a VM that runs without a
\* recorded ProviderID where VCD refuses to power it on again, and a vApp that
\* the cluster controller left without its network.
HalfRecorded(m) == m \in controlPlane /\ tm[m].providerID /\ ~tm[m].addresses
RunningUnrecorded(m) == ~RunningAccepted /\ "on" \in vm[m] /\ ~tm[m].providerID

\* A machine whose prerequisites are there becomes ready, is deleted, or stays
\* for ever in one of the dead ends.
EventuallyReady ==
    \A m \in Machines :
        (/\ tm[m].phase = "live" /\ tm[m].owner /\ tm[m].bootstrap
         /\ infraRef /\ infraReady /\ identityRef /\ (m \in controlPlane \/ cpInit))
            ~> (\/ tm[m].ready \/ tm[m].phase # "live"
                \/ []HalfRecorded(m) \/ []RunningUnrecorded(m) \/ [](vApp = "bare"))

\* A deleted machine with an owner and a cluster identity goes away.
DeletionCompletes ==
    \A m \in Machines :
        (tm[m].phase = "deleting" /\ tm[m].owner /\ (infraRef => identityRef))
            ~> tm[m].phase = "gone"

=============================================================================
