------------------------------ MODULE Provider ------------------------------
(***************************************************************************)
(* Both controllers in one process, over one informer cache and one Cloud  *)
(* Director, for one cluster. The steps that TenantCluster and             *)
(* TenantMachine each take on behalf of the other become the other's own:  *)
(*                                                                         *)
(*  - the machine controller reads the tenant cluster from the cache that  *)
(*    the cluster controller works with;                                   *)
(*  - the IP set and the vApp with its VMs are the same objects;           *)
(*  - a Machine exists as long as its tenant machine;                      *)
(*  - a panic of one controller, or a crash, restarts both.                *)
(***************************************************************************)
EXTENDS Naturals

CONSTANTS
    Cluster,          \* the tenant cluster
    Machines,         \* its machines, all of the control plane
    Addresses, NoAddress, NoCluster, NoMachine,
    FreshReads, RunningAccepted,
    MaxClusterFaults, MaxMachineFaults,  \* bounds on failed calls of each controller
    MaxPatchFaults, MaxCrashes

ASSUME SentinelAssumption ==
    NoAddress \notin Addresses /\ NoCluster # Cluster /\ NoMachine \notin Machines
ASSUME FlagAssumption == FreshReads \in BOOLEAN /\ RunningAccepted \in BOOLEAN
ASSUME BoundAssumption ==
    /\ MaxClusterFaults \in Nat /\ MaxMachineFaults \in Nat
    /\ MaxPatchFaults \in Nat /\ MaxCrashes \in Nat

VARIABLES
    tc, tcSeen, tcQueue, machines, res, vip, vAppSetup,
    cPc, cCur, cObj, cOrig, nilRefs, cRequeue, cPanicking,
    tm, tmSeen, tmQueue, infraRef, infraReady, cpInit, controlPlane, sized,
    vm, addTasks, ipSet, abandoned,
    mPc, mCur, mObj, mOrig, members, mRequeue, mPanicking,
    cFaults, mFaults, patchFaults, crashes

clusterSide == <<tc, tcSeen, tcQueue, machines, res, vip, vAppSetup,
                 cPc, cCur, cObj, cOrig, nilRefs, cRequeue, cPanicking, cFaults>>
ownerCluster == <<infraRef, infraReady, cpInit, controlPlane, sized>>
machineApi == <<tm, tmSeen, tmQueue, ownerCluster>>
machineWorker == <<mPc, mCur, mObj, mOrig, members, mRequeue, mPanicking>>
machineSide == <<machineApi, vm, addTasks, ipSet, abandoned, machineWorker,
                 mFaults, patchFaults>>
vars == <<clusterSide, machineSide, crashes>>

TC == INSTANCE TenantCluster
      WITH Clusters <- {Cluster}, seen <- tcSeen, queue <- tcQueue,
           ips <- [c \in {Cluster} |-> ipSet],
           pc <- cPc, cur <- cCur, obj <- cObj, orig <- cOrig,
           requeue <- cRequeue, panicking <- cPanicking, faults <- cFaults,
           MaxFaults <- MaxClusterFaults

VAppState ==
    IF "VApp" \in res[Cluster]
    THEN IF "network" \in vAppSetup[Cluster] THEN "networked" ELSE "bare"
    ELSE IF "VApp" \in tcSeen[Cluster].refs THEN "removed" ELSE "none"

TM == INSTANCE TenantMachine
      WITH ControlPlanes <- {Machines}, SizedSets <- {{}},
           seen <- tmSeen, queue <- tmQueue,
           identityRef <- tcSeen[Cluster].identityRef,
           tcRefs <- tcSeen[Cluster].refs \cap {"VApp", "IPSet"},
           vApp <- VAppState,
           pc <- mPc, cur <- mCur, obj <- mObj, orig <- mOrig,
           requeue <- mRequeue, panicking <- mPanicking, faults <- mFaults,
           MaxFaults <- MaxMachineFaults

Init == infraRef = TRUE /\ ipSet = {} /\ TC!Init /\ TM!Init

----------------------------------------------------------------------------
(* The process.                                                            *)

\* Deleting the vApp removes the VMs in it and ends the tasks that add one.
VAppRemoved == "VApp" \in res[Cluster] /\ "VApp" \notin res'[Cluster]

\* A step A of the cluster controller or of the machine controller.
ClusterStep(A) ==
    /\ UNCHANGED <<machineApi, machineWorker, ipSet, abandoned, mFaults, patchFaults>>
    /\ A
    /\ vm' = IF VAppRemoved THEN [m \in Machines |-> {}] ELSE vm
    /\ addTasks' = IF VAppRemoved THEN {} ELSE addTasks
MachineStep(A) == UNCHANGED <<clusterSide, ownerCluster>> /\ A

ClusterReconcile == ClusterStep(TC!Reconcile(Cluster))
ClusterWork == ClusterStep(TC!Provision \/ TC!Delete \/ TC!Save)
MachineReconcile(m) == MachineStep(TM!Reconcile(m))
MachineWork == MachineStep(TM!Build \/ TM!Delete \/ TM!Save)

\* TM!Restart leaves the cached Status alone, so the cache has caught up with the
\* tenant cluster before the process starts over: DeliverCluster comes first.
Restart ==
    /\ UNCHANGED <<machines, res, vip, vAppSetup, ownerCluster, ipSet,
                   cFaults, mFaults, patchFaults>>
    /\ TC!Restart /\ TM!Restart

Die ==
    /\ \/ cPc = "return" /\ cPanicking
       \/ mPc = "return" /\ mPanicking
    /\ UNCHANGED crashes /\ Restart

Crash == crashes < MaxCrashes /\ crashes' = crashes + 1 /\ Restart

----------------------------------------------------------------------------
(* Users, Cluster API, the informers and Cloud Director.                   *)

DeliverCluster == UNCHANGED machineSide /\ TC!Deliver(Cluster)

ClusterEdit ==
    /\ UNCHANGED machineSide
    /\ \/ TC!CreateCluster(Cluster) /\ tc'[Cluster].identityRef
       \/ TC!SetOwner(Cluster) /\ tc'[Cluster].owner = "controlPlane"
       \/ TC!DeleteCluster(Cluster)

MachineEdit(m) == MachineStep(TM!SetOwner(m) \/ TM!SetBootstrap(m) \/ TM!DeleteMachine(m))

\* The informers and VCD's tasks.
MachineEvent(m) == MachineStep(TM!Deliver(m) \/ TM!EndAddTask(m))

\* Cluster API creates a control plane Machine, together with its tenant machine,
\* once the infrastructure is ready.
CreateMachine(m) ==
    /\ infraReady
    /\ UNCHANGED <<tc, tcSeen, tcQueue, res, vip, vAppSetup, cPc, cCur, cObj, cOrig, nilRefs,
                   cRequeue, cPanicking, cFaults, ownerCluster>>
    /\ TM!CreateMachine(m) /\ TC!AddMachine(Cluster, m)

\* It removes the Machine once the tenant machine is gone.
RemoveMachine(m) ==
    /\ tm[m].phase = "gone" /\ UNCHANGED machineSide
    /\ TC!RemoveMachine(Cluster, m)

\* It copies Status.Ready to the Cluster, whose watches wake up both controllers.
SetInfrastructureReady ==
    /\ TC!Exists(Cluster) /\ tc[Cluster].ready
    /\ UNCHANGED <<tc, tcSeen, machines, res, vip, vAppSetup, cPc, cCur, cObj, cOrig, nilRefs,
                   cRequeue, cPanicking, cFaults>>
    /\ tcQueue' = tcQueue \cup {Cluster}
    /\ TM!SetInfrastructureReady

Next ==
    \/ ClusterReconcile \/ ClusterWork \/ MachineWork \/ Die \/ Crash
    \/ DeliverCluster \/ ClusterEdit \/ SetInfrastructureReady
    \/ \E m \in Machines : \/ MachineReconcile(m) \/ MachineEvent(m) \/ MachineEdit(m)
                           \/ CreateMachine(m) \/ RemoveMachine(m)

\* What Cluster API owes each Machine: the owner of its tenant machine, its deletion
\* with the cluster, and its removal after the tenant machine.
ClusterAPI(m) ==
    \/ TM!Exists(m) /\ ~tm[m].owner /\ MachineStep(TM!SetOwner(m))
    \/ tc[Cluster].phase = "deleting" /\ tm[m].phase = "live" /\ MachineStep(TM!DeleteMachine(m))
    \/ RemoveMachine(m)

\* Both workers run and take every queued key, the informers deliver, VCD ends its
\* tasks, and Cluster API does its part. The conjunct before each action repeats a
\* guard of that action, where TLC evaluates it first.
Fairness ==
    /\ WF_vars(cPc # "idle" /\ ClusterWork) /\ WF_vars(cPc = "idle" /\ ClusterReconcile)
    /\ WF_vars(tcSeen # tc /\ DeliverCluster)
    /\ WF_vars(mPc # "idle" /\ MachineWork) /\ WF_vars(Die)
    /\ \A m \in Machines :
          /\ SF_vars(mPc = "idle" /\ m \in tmQueue /\ MachineReconcile(m))
          /\ WF_vars((m \in addTasks \/ tmSeen[m] # tm[m]) /\ MachineEvent(m))
          /\ WF_vars(ClusterAPI(m))

Spec == Init /\ [][Next]_vars
FairSpec == Spec /\ Fairness

----------------------------------------------------------------------------
(* Properties.                                                             *)

\* The cluster controller, with Cluster API around it, does to the machine
\* controller only what TenantMachine assumes of its environment: the vApp is
\* built before Status names it, and removed only when no tenant machine is left.
ServesMachines ==
    TM!Init /\ [][TM!Next \/ (TM!Restart /\ UNCHANGED TM!boundVars)]_(TM!vars)

\* The machine controller does to the cluster controller only what TenantCluster
\* assumes: no address enters the IP set but that of a Machine of a ready
\* cluster whose IP set exists.
ServesCluster ==
    TC!Init /\ [][TC!Next \/ (TC!Restart /\ UNCHANGED <<cFaults, crashes>>)]_(TC!vars)

\* When reconcileDelete has let a fully recorded cluster go, nothing of it is left
\* in VCD, also what the machine controller alone would have left behind: a VM
\* whose AddNewVM task ended after its tenant machine was gone, or an address.
NothingLeftBehind ==
    tc[Cluster].phase = "gone" /\ tc[Cluster].refs = TC!Kinds =>
        /\ res[Cluster] = {} /\ addTasks = {} /\ ipSet = {}
        /\ \A m \in Machines : vm[m] = {}

\* A control plane machine that reports Ready is served from end to end, also while
\* its cluster is being deleted: its VM runs, its address is in the IP set, and pool
\* and virtual service, listening on the published endpoint, lead to that IP set.
ControlPlaneReachable ==
    \A m \in Machines : tm[m].phase = "live" /\ tm[m].ready =>
        /\ "on" \in vm[m] /\ m \in ipSet
        /\ TC!Kinds \subseteq res[Cluster] /\ vip[Cluster] = tc[Cluster].host

\* A deleted cluster with an owner goes away together with its machines, unless an address stays
\* in the IP set for ever: that of a machine whose controller crashed between the
\* update of the IP set and the patch that records the address.
DeletionCompletes ==
    tc[Cluster].phase = "deleting" /\ tc[Cluster].owner # "none"
        ~> (tc[Cluster].phase = "gone" \/ [](ipSet # {}))

=============================================================================
