-------------------------- MODULE Provider_proofs --------------------------
(***************************************************************************)
(* Proofs about Provider, for every set of machines and addresses, every   *)
(* bound on failures and crashes, and fresh or stale reads: each           *)
(* controller keeps to what the model of the other one assumes of its      *)
(* environment, so that what is proved of each alone holds of both         *)
(* together, and what only both together guarantee.                        *)
(***************************************************************************)
EXTENDS Provider, TLAPS

\* The two models of Provider once more, with what is proved about each.
TCV == INSTANCE TenantCluster_visible_proofs
       WITH Clusters <- {Cluster}, seen <- tcSeen, queue <- tcQueue,
            ips <- [c \in {Cluster} |-> ipSet],
            pc <- cPc, cur <- cCur, obj <- cObj, orig <- cOrig,
            requeue <- cRequeue, panicking <- cPanicking, faults <- cFaults,
            MaxFaults <- MaxClusterFaults

TMP == INSTANCE TenantMachine_proofs
       WITH ControlPlanes <- {Machines}, SizedSets <- {{}},
            seen <- tmSeen, queue <- tmQueue,
            identityRef <- tcSeen[Cluster].identityRef,
            tcRefs <- tcSeen[Cluster].refs \cap {"VApp", "IPSet"},
            vApp <- VAppState,
            pc <- mPc, cur <- mCur, obj <- mObj, orig <- mOrig,
            requeue <- mRequeue, panicking <- mPanicking, faults <- mFaults,
            MaxFaults <- MaxMachineFaults

----------------------------------------------------------------------------
(* The two instances of each model are the same, and their assumptions     *)
(* follow from those of Provider.                                          *)

\* The assumptions of TenantCluster.
LEMMA ClusterAssumptions ==
    TCV!SentinelAssumption /\ TCV!FreshReadsAssumption /\ TCV!BoundAssumption
BY SentinelAssumption, FlagAssumption, BoundAssumption

\* The assumptions of TenantMachine.
LEMMA MachineAssumptions ==
    TMP!MachineAssumption /\ TMP!FlagAssumption /\ TMP!BoundAssumption
BY SentinelAssumption, FlagAssumption, BoundAssumption

\* TenantCluster's initial states and actions.
LEMMA SameCluster ==
    /\ (TC!Init <=> TCV!Init) /\ (TC!Next <=> TCV!Next) /\ (TC!Restart <=> TCV!Restart)
    /\ TC!vars = TCV!vars /\ (UNCHANGED TC!vars <=> UNCHANGED TCV!vars)
    /\ TC!Reconcile(Cluster) <=> TCV!Reconcile(Cluster)
    /\ (TC!Provision <=> TCV!Provision) /\ (TC!Delete <=> TCV!Delete) /\ (TC!Save <=> TCV!Save)
<1> USE DEF
     TC!Kinds, TCV!Kinds, TC!CondTypes, TCV!CondTypes, TC!NewObject, TCV!NewObject, TC!apiVars,
     TCV!apiVars, TC!vcdVars, TCV!vcdVars, TC!workerVars, TCV!workerVars, TC!NoFault, TCV!NoFault,
     TC!Fault, TCV!Fault, TC!Goto, TCV!Goto, TC!Return, TCV!Return, TC!Panic, TCV!Panic,
     TC!ResetWorker, TCV!ResetWorker, TC!MarkTrue, TCV!MarkTrue, TC!MarkFalse, TCV!MarkFalse,
     TC!WorkerOnly, TCV!WorkerOnly, TC!UnusedAddresses, TCV!UnusedAddresses, TC!Has, TCV!Has,
     TC!With, TCV!With, TC!Without, TCV!Without, TC!Exists, TCV!Exists, TC!Outside, TCV!Outside,
     TC!Edit, TCV!Edit
<1>1. TC!Init <=> TCV!Init
  BY Zenon DEF TC!Init, TCV!Init
<1>2. TC!Provision <=> TCV!Provision
  BY Zenon DEF
     TC!Connect, TCV!Connect, TC!AllocateAddress, TCV!AllocateAddress, TC!EndpointReady,
     TCV!EndpointReady, TC!LookupSwallowed, TCV!LookupSwallowed, TC!CreateFailed,
     TCV!CreateFailed, TC!EnsureIPSet, TCV!EnsureIPSet, TC!EnsurePool, TCV!EnsurePool,
     TC!ListenOn, TCV!ListenOn, TC!EnsureVirtualService, TCV!EnsureVirtualService, TC!EnsureVApp,
     TCV!EnsureVApp, TC!SetUp, TCV!SetUp, TC!AttachNetwork, TCV!AttachNetwork, TC!PowerOnVApp,
     TCV!PowerOnVApp, TC!Record, TCV!Record, TC!Provision, TCV!Provision
<1>3. TC!Delete <=> TCV!Delete
  BY Zenon DEF
     TC!DeleteGate, TCV!DeleteGate, TC!DeleteConnect, TCV!DeleteConnect, TC!Recorded,
     TCV!Recorded, TC!DeleteVirtualService, TCV!DeleteVirtualService, TC!DeletePool,
     TCV!DeletePool, TC!DeleteIPSet, TCV!DeleteIPSet, TC!DeleteVApp, TCV!DeleteVApp, TC!Delete,
     TCV!Delete
<1>4. TC!Save <=> TCV!Save
  BY Zenon DEF
     TC!Patch, TCV!Patch, TC!PatchConditions, TCV!PatchConditions, TC!PatchSpec, TCV!PatchSpec,
     TC!PatchStatus, TCV!PatchStatus, TC!Finish, TCV!Finish, TC!Save, TCV!Save
<1>5. TC!Restart <=> TCV!Restart
  BY Zenon DEF TC!Restart, TCV!Restart
<1>6. TC!Reconcile(Cluster) <=> TCV!Reconcile(Cluster)
  BY Zenon DEF
     TC!Take, TCV!Take, TC!Proceed, TCV!Proceed, TC!ReturnAtOnce, TCV!ReturnAtOnce,
     TC!ReconcileNotFound, TCV!ReconcileNotFound, TC!ReconcileOwnerError, TCV!ReconcileOwnerError,
     TC!ReconcileDeleted, TCV!ReconcileDeleted, TC!AddFinalizer, TCV!AddFinalizer,
     TC!ReconcileNoIdentity, TCV!ReconcileNoIdentity, TC!ReconcileLive, TCV!ReconcileLive,
     TC!Reconcile, TCV!Reconcile
<1>7. TC!Environment(Cluster) <=> TCV!Environment(Cluster)
  BY Zenon DEF
     TC!Deliver, TCV!Deliver, TC!ClusterEvent, TCV!ClusterEvent, TC!CreateCluster,
     TCV!CreateCluster, TC!SetIdentityRef, TCV!SetIdentityRef, TC!SetOwner, TCV!SetOwner,
     TC!DeleteCluster, TCV!DeleteCluster, TC!AddMachine, TCV!AddMachine, TC!JoinIPSet,
     TCV!JoinIPSet, TC!LeaveIPSet, TCV!LeaveIPSet, TC!RemoveMachine, TCV!RemoveMachine,
     TC!MachineStep, TCV!MachineStep, TC!Environment, TCV!Environment
<1>8. TC!Next <=> TCV!Next
  BY <1>2, <1>3, <1>4, <1>5, <1>6, <1>7, Zenon DEF
     TC!Next, TCV!Next, TC!Worker, TCV!Worker, TC!Die, TCV!Die, TC!Crash, TCV!Crash
<1>9. TC!vars = TCV!vars /\ (UNCHANGED TC!vars <=> UNCHANGED TCV!vars)
  BY Zenon DEF TC!vars, TCV!vars
<1>10. QED
  BY <1>1, <1>2, <1>3, <1>4, <1>5, <1>6, <1>7, <1>8, <1>9, Zenon

\* TenantMachine's.
LEMMA SameMachines ==
    /\ (TM!Init <=> TMP!Init) /\ (TM!Next <=> TMP!Next) /\ (TM!Restart <=> TMP!Restart)
    /\ TM!vars = TMP!vars /\ (UNCHANGED TM!vars <=> UNCHANGED TMP!vars)
    /\ UNCHANGED TM!boundVars <=> UNCHANGED <<mFaults, patchFaults, crashes>>
    /\ (TM!Build <=> TMP!Build) /\ (TM!Delete <=> TMP!Delete) /\ (TM!Save <=> TMP!Save)
    /\ \A m \in Machines :
          /\ TM!Exists(m) <=> TMP!Exists(m)
          /\ (TM!Reconcile(m) <=> TMP!Reconcile(m)) /\ (TM!Deliver(m) <=> TMP!Deliver(m))
          /\ (TM!EndAddTask(m) <=> TMP!EndAddTask(m)) /\ (TM!SetOwner(m) <=> TMP!SetOwner(m))
          /\ TM!SetBootstrap(m) <=> TMP!SetBootstrap(m)
          /\ TM!DeleteMachine(m) <=> TMP!DeleteMachine(m)
<1> USE DEF
     TM!CondTypes, TMP!CondTypes, TM!NewObject, TMP!NewObject, TM!apiVars, TMP!apiVars,
     TM!clusterVars, TMP!clusterVars, TM!vcdVars, TMP!vcdVars, TM!workerVars, TMP!workerVars,
     TM!boundVars, TMP!boundVars, TM!NoFault, TMP!NoFault, TM!Fault, TMP!Fault, TM!Goto, TMP!Goto,
     TM!Return, TMP!Return, TM!Panic, TMP!Panic, TM!ResetWorker, TMP!ResetWorker, TM!Mark,
     TMP!Mark, TM!VMNotReady, TMP!VMNotReady, TM!WorkerOnly, TMP!WorkerOnly, TM!Exists,
     TMP!Exists, TM!Outside, TMP!Outside, TM!Edit, TMP!Edit
<1>1. TM!Init <=> TMP!Init
  BY Zenon DEF TM!Init, TMP!Init
<1>2. TM!Build <=> TMP!Build
  BY Zenon DEF
     TM!MachineReady, TMP!MachineReady, TM!AfterVM, TMP!AfterVM, TM!Connect, TMP!Connect,
     TM!LookupVM, TMP!LookupVM, TM!WaitAdd, TMP!WaitAdd, TM!ReadInputs, TMP!ReadInputs, TM!VMGets,
     TMP!VMGets, TM!SetComputerName, TMP!SetComputerName, TM!SetUserdata, TMP!SetUserdata,
     TM!UpdateSpec, TMP!UpdateSpec, TM!PowerOn, TMP!PowerOn, TM!Joined, TMP!Joined, TM!NotJoined,
     TMP!NotJoined, TM!ReadIPSet, TMP!ReadIPSet, TM!JoinIPSet, TMP!JoinIPSet, TM!Build, TMP!Build
<1>3. TM!Delete <=> TMP!Delete
  BY Zenon DEF
     TM!NoFinalizer, TMP!NoFinalizer, TM!DeleteConnect, TMP!DeleteConnect, TM!DeleteReadIPSet,
     TMP!DeleteReadIPSet, TM!LeaveIPSet, TMP!LeaveIPSet, TM!DeleteVM, TMP!DeleteVM, TM!Delete,
     TMP!Delete
<1>4. TM!Save <=> TMP!Save
  BY Zenon DEF
     TM!Pick, TMP!Pick, TM!Patch, TMP!Patch, TM!PatchConditions, TMP!PatchConditions,
     TM!PatchSpec, TMP!PatchSpec, TM!PatchStatus, TMP!PatchStatus, TM!Finish, TMP!Finish, TM!Save,
     TMP!Save
<1>5. TM!Restart <=> TMP!Restart
  BY Zenon DEF TM!Restart, TMP!Restart
<1>6. \A m \in Machines : TM!Reconcile(m) <=> TMP!Reconcile(m)
  BY Zenon DEF
     TM!Take, TMP!Take, TM!ReconcileUnpatched, TMP!ReconcileUnpatched, TM!Proceed, TMP!Proceed,
     TM!ReturnAtOnce, TMP!ReturnAtOnce, TM!ReconcileDeleted, TMP!ReconcileDeleted,
     TM!AddFinalizer, TMP!AddFinalizer, TM!Gates, TMP!Gates, TM!Reconcile, TMP!Reconcile
<1>7. \A m \in Machines :
         /\ TM!Deliver(m) <=> TMP!Deliver(m)
         /\ TM!EndAddTask(m) <=> TMP!EndAddTask(m)
         /\ TM!SetOwner(m) <=> TMP!SetOwner(m)
         /\ TM!SetBootstrap(m) <=> TMP!SetBootstrap(m)
         /\ TM!DeleteMachine(m) <=> TMP!DeleteMachine(m)
         /\ TM!CreateMachine(m) <=> TMP!CreateMachine(m)
  BY Zenon DEF
     TM!Deliver, TMP!Deliver, TM!CreateMachine, TMP!CreateMachine, TM!SetOwner, TMP!SetOwner,
     TM!SetBootstrap, TMP!SetBootstrap, TM!DeleteMachine, TMP!DeleteMachine, TM!EndAddTask,
     TMP!EndAddTask
<1>8. /\ TM!SetIdentityRef <=> TMP!SetIdentityRef
      /\ TM!BuildVApp <=> TMP!BuildVApp
      /\ TM!RemoveVApp <=> TMP!RemoveVApp
      /\ TM!RecordInfrastructure <=> TMP!RecordInfrastructure
      /\ TM!SetInfrastructureReady <=> TMP!SetInfrastructureReady
      /\ TM!SetControlPlaneInitialized <=> TMP!SetControlPlaneInitialized
  BY Zenon DEF
     TM!ClusterEvent, TMP!ClusterEvent, TM!SetIdentityRef, TMP!SetIdentityRef, TM!BuildVApp,
     TMP!BuildVApp, TM!RemoveVApp, TMP!RemoveVApp, TM!RecordInfrastructure,
     TMP!RecordInfrastructure, TM!SetInfrastructureReady, TMP!SetInfrastructureReady,
     TM!SetControlPlaneInitialized, TMP!SetControlPlaneInitialized
<1>9. TM!Next <=> TMP!Next
  BY <1>2, <1>3, <1>4, <1>5, <1>6, <1>7, <1>8, Zenon DEF
     TM!Next, TMP!Next, TM!Worker, TMP!Worker, TM!Die, TMP!Die, TM!Crash, TMP!Crash, TM!Environment,
     TMP!Environment
<1>10. TM!vars = TMP!vars /\ (UNCHANGED TM!vars <=> UNCHANGED TMP!vars)
      /\ (UNCHANGED TM!boundVars <=> UNCHANGED <<mFaults, patchFaults, crashes>>)
      /\ \A m \in Machines : TM!Exists(m) <=> TMP!Exists(m)
  BY Zenon DEF TM!vars, TMP!vars
<1>11. QED
  BY <1>1, <1>2, <1>3, <1>4, <1>5, <1>6, <1>7, <1>8, <1>9, <1>10, Zenon

----------------------------------------------------------------------------
(* The inductive invariant: that of each model, and how they are linked.   *)

Idle == addTasks = {} /\ \A m \in Machines : vm[m] = {}

\* Machines exist only for a cluster that got ready, one for every tenant machine;
\* there is no VM without the vApp and no address without the IP set.
LinkInv ==
    /\ infraRef /\ controlPlane = Machines
    /\ infraReady \/ machines[Cluster] # {} => tc[Cluster].ready
    /\ \A m \in Machines : tm[m].phase \in {"live", "deleting"} => m \in machines[Cluster]
    /\ "VApp" \notin res[Cluster] => Idle
    /\ "IPSet" \notin res[Cluster] => ipSet = {}

PInv == TCV!VInv /\ TMP!IInv /\ TMP!FreshInv /\ LinkInv

\* What the invariant of TenantCluster says of the one cluster and its cache.
LEMMA ClusterFacts ==
    ASSUME TCV!VInv
    PROVE  /\ tc[Cluster].ready => /\ tcSeen[Cluster].phase # "absent"
                                   /\ tcSeen[Cluster].owner = "controlPlane"
           /\ tc[Cluster].refs # {} => tcSeen[Cluster].identityRef
           /\ tcSeen[Cluster].phase \in {"absent", "live", "deleting", "gone"}
           /\ tcSeen[Cluster].phase = "gone" => tc[Cluster].phase = "gone"
           /\ tcSeen[Cluster].identityRef \in BOOLEAN /\ tc[Cluster].identityRef \in BOOLEAN
           /\ tcSeen[Cluster].identityRef => tc[Cluster].identityRef
           /\ tcSeen[Cluster].refs \subseteq tc[Cluster].refs
           /\ tc[Cluster].refs # {} => "VApp" \in tc[Cluster].refs
           /\ tcSeen[Cluster].refs # {} => "VApp" \in tcSeen[Cluster].refs
           /\ "VApp" \in tc[Cluster].refs /\ "VApp" \notin res[Cluster]
                 => "VApp" \in tcSeen[Cluster].refs
           /\ "VApp" \notin res[Cluster] => vAppSetup[Cluster] = {}
           /\ tc[Cluster].ready /\ machines[Cluster] # {}
                 => /\ tc[Cluster].phase \in {"live", "deleting"}
                    /\ res[Cluster] = {"IPSet", "Pool", "VirtualService", "VApp"}
<1>1. TCV!Visible(Cluster) /\ TCV!CacheLags(Cluster) /\ TCV!TypeOK
  BY DEF TCV!VInv, TCV!VisibleInv, TCV!FInv, TCV!LInv, TCV!IInv, TCV!CacheInv
<1>2. tc[Cluster] \in TCV!Object /\ tcSeen[Cluster] \in TCV!Object
  BY <1>1 DEF TCV!TypeOK
<1>3. /\ tcSeen[Cluster].phase \in {"absent", "live", "deleting", "gone"}
      /\ tcSeen[Cluster].identityRef \in BOOLEAN /\ tc[Cluster].identityRef \in BOOLEAN
  BY <1>2 DEF TCV!Object
<1>4. QED
  BY <1>1, <1>3 DEF TCV!Visible, TCV!CacheLags, TCV!Records, TCV!Admitted, TCV!VAppFirst,
                    TCV!Exists, TCV!Kinds

\* Without the vApp or the IP set there is no tenant machine.
LEMMA NoMachines ==
    ASSUME PInv, "VApp" \notin res[Cluster] \/ "IPSet" \notin res[Cluster]
    PROVE  \A m \in Machines : tm[m].phase \notin {"live", "deleting"}
BY ClusterFacts DEF PInv, LinkInv

----------------------------------------------------------------------------
(* The machine controller does to the cluster controller only what         *)
(* TenantCluster assumes.                                                  *)

ClusterNext == TC!Next \/ (TC!Restart /\ UNCHANGED <<cFaults, crashes>>)
MachineNext == TM!Next \/ (TM!Restart /\ UNCHANGED TM!boundVars)

\* A step of the machine controller, or one of Cluster API that concerns a
\* tenant machine that is there.
LEMMA MachineStepEffect ==
    ASSUME PInv,
           \/ MachineWork
           \/ \E m \in Machines : MachineReconcile(m) \/ MachineEvent(m) \/ MachineEdit(m)
    PROVE  /\ UNCHANGED <<clusterSide, ownerCluster, crashes>>
           /\ \A m \in Machines : tm'[m].phase \in {"live", "deleting"}
                                    => tm[m].phase \in {"live", "deleting"}
           /\ \/ ipSet' = ipSet
              \/ \E m \in Machines : /\ tm[m].phase \in {"live", "deleting"}
                                     /\ m \notin ipSet /\ ipSet' = ipSet \cup {m}
              \/ \E m \in Machines : m \in ipSet /\ ipSet' = ipSet \ {m}
           /\ (\A m \in Machines : tm[m].phase \notin {"live", "deleting"}) /\ Idle => Idle'
<1>1. TMP!MachineAction /\ UNCHANGED <<clusterSide, ownerCluster>>
  BY SameMachines DEF MachineWork, MachineReconcile, MachineEvent, MachineEdit, MachineStep,
                      TMP!MachineAction
<1>2. TMP!IInv
  BY DEF PInv
<1>3. QED
  BY <1>1, <1>2, MachineAssumptions, TMP!MachineActionEffect DEF TMP!Exists, Idle

\* It is a step that TenantCluster allows.
LEMMA MachineStepServes ==
    ASSUME PInv,
           \/ MachineWork
           \/ \E m \in Machines : MachineReconcile(m) \/ MachineEvent(m) \/ MachineEdit(m)
    PROVE  [ClusterNext]_(TC!vars)
<1>1. UNCHANGED <<clusterSide, crashes>>
  BY MachineStepEffect
<1>2. /\ UNCHANGED TC!apiVars /\ UNCHANGED TC!workerVars
      /\ UNCHANGED <<machines, res, vip, vAppSetup, cFaults, crashes>>
  BY <1>1 DEF clusterSide, TC!apiVars, TC!workerVars
<1>3. CASE ipSet' = ipSet
  BY <1>2, <1>3 DEF TC!vars, TC!vcdVars
<1>4. ASSUME NEW m \in Machines, tm[m].phase \in {"live", "deleting"}, m \notin ipSet,
             ipSet' = ipSet \cup {m}
      PROVE  TC!JoinIPSet(Cluster, m)
  <2>1. m \in machines[Cluster] /\ tc[Cluster].ready /\ "IPSet" \in res[Cluster]
    BY <1>4, ClusterFacts DEF PInv, LinkInv
  <2>2. [c \in {Cluster} |-> ipSet'] = [[c \in {Cluster} |-> ipSet] EXCEPT ![Cluster] = @ \cup {m}]
    BY <1>4
  <2>3. QED
    BY <1>2, <1>4, <2>1, <2>2 DEF TC!JoinIPSet, TC!Outside
<1>5. ASSUME NEW m \in Machines, m \in ipSet, ipSet' = ipSet \ {m}
      PROVE  TC!LeaveIPSet(Cluster, m)
  <2>1. [c \in {Cluster} |-> ipSet'] = [[c \in {Cluster} |-> ipSet] EXCEPT ![Cluster] = @ \ {m}]
    BY <1>5
  <2>2. QED
    BY <1>2, <1>5, <2>1 DEF TC!LeaveIPSet, TC!Outside
<1>6. ASSUME NEW m \in Machines, TC!JoinIPSet(Cluster, m) \/ TC!LeaveIPSet(Cluster, m)
      PROVE  TC!Next
  BY <1>6 DEF TC!Next, TC!Environment, TC!MachineStep
<1>7. QED
  BY <1>3, <1>4, <1>5, <1>6, MachineStepEffect DEF ClusterNext

\* Every step of Provider is a step that TenantCluster allows.
LEMMA ServesClusterStep ==
    ASSUME PInv, [Next]_vars
    PROVE  [ClusterNext]_(TC!vars)
<1>1. CASE \/ MachineWork
           \/ \E m \in Machines : MachineReconcile(m) \/ MachineEvent(m) \/ MachineEdit(m)
  BY <1>1, MachineStepServes
<1>2. CASE ClusterReconcile \/ ClusterWork
  BY <1>2 DEF ClusterReconcile, ClusterWork, ClusterStep, ClusterNext, TC!Next, TC!Worker
<1>3. CASE Die \/ Crash
  BY <1>3 DEF Die, Crash, Restart, ClusterNext, TC!Next, TC!Crash
<1>4. CASE DeliverCluster \/ ClusterEdit
  BY <1>4 DEF DeliverCluster, ClusterEdit, ClusterNext, TC!Next, TC!Environment
<1>5. ASSUME NEW m \in Machines, CreateMachine(m) \/ RemoveMachine(m)
      PROVE  ClusterNext
  BY <1>5 DEF CreateMachine, RemoveMachine, ClusterNext, TC!Next, TC!Environment, TC!MachineStep
<1>6. CASE SetInfrastructureReady
  <2>1. /\ tcSeen[Cluster].phase \in {"live", "deleting"} /\ tcSeen[Cluster].owner # "none"
    BY <1>6, ClusterFacts DEF PInv, SetInfrastructureReady, TC!Exists
  <2>2. UNCHANGED <<ipSet, crashes>>
    BY <1>6 DEF SetInfrastructureReady, TM!SetInfrastructureReady, TM!vcdVars, TM!Outside, TM!boundVars
  <2>3. TC!ClusterEvent(Cluster)
    BY <1>6, <2>1, <2>2 DEF SetInfrastructureReady, TC!ClusterEvent, TC!vcdVars, TC!Outside, TC!workerVars
  <2>4. QED
    BY <2>3 DEF ClusterNext, TC!Next, TC!Environment
<1>7. CASE UNCHANGED vars
  BY <1>7 DEF vars, clusterSide, machineSide, TC!vars, TC!apiVars, TC!vcdVars, TC!workerVars
<1>8. QED
  BY <1>1, <1>2, <1>3, <1>4, <1>5, <1>6, <1>7 DEF Next

----------------------------------------------------------------------------
(* The cluster controller does to the machine controller only what         *)
(* TenantMachine assumes.                                                  *)

\* What a step of the cluster controller does to the cluster, its cache and its vApp.
LEMMA ClusterStepEffect ==
    ASSUME PInv, ClusterReconcile \/ ClusterWork
    PROVE  /\ UNCHANGED <<tcSeen, machines, crashes>>
           /\ UNCHANGED <<machineApi, machineWorker, ipSet, abandoned, mFaults, patchFaults>>
           /\ vm' = IF VAppRemoved THEN [m \in Machines |-> {}] ELSE vm
           /\ addTasks' = IF VAppRemoved THEN {} ELSE addTasks
           /\ TCV!VAppStep(Cluster)
           /\ "IPSet" \in res[Cluster] /\ "IPSet" \notin res'[Cluster] => ipSet = {}
<1>1. TCV!Reconcile(Cluster) \/ TCV!Provision \/ TCV!Delete \/ TCV!Save
  BY SameCluster DEF ClusterReconcile, ClusterWork, ClusterStep
<1>2. TCV!VInv /\ Cluster \in {Cluster}
  BY DEF PInv
<1>3. UNCHANGED <<tcSeen, machines, crashes>> /\ TCV!VAppStep(Cluster)
  BY <1>1, <1>2, ClusterAssumptions, TCV!ReconcileStep
<1>4. ASSUME "IPSet" \in res[Cluster], "IPSet" \notin res'[Cluster] PROVE ipSet = {}
  BY <1>1, <1>2, <1>4, ClusterAssumptions, TCV!IPSetRemovedEmpty
<1>5. QED
  BY <1>3, <1>4 DEF ClusterReconcile, ClusterWork, ClusterStep

\* It is a step that TenantMachine allows.
LEMMA ClusterStepServes ==
    ASSUME PInv, ClusterReconcile \/ ClusterWork
    PROVE  [MachineNext]_(TM!vars)
<1>1. /\ UNCHANGED TM!apiVars /\ UNCHANGED TM!clusterVars /\ UNCHANGED TM!workerVars
      /\ UNCHANGED TM!boundVars /\ UNCHANGED <<ipSet, abandoned, tcSeen>>
  BY ClusterStepEffect DEF machineApi, ownerCluster, machineWorker, TM!apiVars, TM!clusterVars,
                           TM!workerVars, TM!boundVars
<1>2. CASE /\ "VApp" \in res'[Cluster] <=> "VApp" \in res[Cluster]
           /\ "network" \in vAppSetup'[Cluster] <=> "network" \in vAppSetup[Cluster]
  <2>1. UNCHANGED <<vm, addTasks>>
    BY <1>2, ClusterStepEffect DEF VAppRemoved
  <2>2. UNCHANGED VAppState
    BY <1>1, <1>2 DEF VAppState
  <2>3. QED
    BY <1>1, <2>1, <2>2 DEF TM!vars, TM!vcdVars
<1>3. CASE /\ "VApp" \notin res[Cluster] /\ "VApp" \in res'[Cluster] /\ vAppSetup'[Cluster] = {}
           /\ tcSeen[Cluster].identityRef /\ tcSeen[Cluster].refs = {}
  <2>1. UNCHANGED <<vm, addTasks>>
    BY <1>3, ClusterStepEffect DEF VAppRemoved
  <2>2. VAppState = "none" /\ VAppState' = "bare"
    BY <1>3 DEF VAppState
  <2>3. TM!BuildVApp
    BY <1>1, <1>3, <2>1, <2>2 DEF PInv, LinkInv, TM!BuildVApp, TM!Outside
  <2>4. QED
    BY <2>3 DEF MachineNext, TM!Next, TM!Environment
<1>4. CASE /\ "VApp" \in res[Cluster] /\ "VApp" \in res'[Cluster]
           /\ "network" \notin vAppSetup[Cluster] /\ "network" \in vAppSetup'[Cluster]
           /\ tcSeen[Cluster].identityRef /\ tcSeen[Cluster].refs = {}
  <2>1. UNCHANGED <<vm, addTasks>>
    BY <1>4, ClusterStepEffect DEF VAppRemoved
  <2>2. VAppState = "bare" /\ VAppState' = "networked"
    BY <1>4 DEF VAppState
  <2>3. TM!BuildVApp
    BY <1>1, <1>4, <2>1, <2>2 DEF PInv, LinkInv, TM!BuildVApp, TM!Outside
  <2>4. QED
    BY <2>3 DEF MachineNext, TM!Next, TM!Environment
<1>5. CASE /\ "VApp" \in res[Cluster] /\ "VApp" \notin res'[Cluster]
           /\ "VApp" \in tcSeen[Cluster].refs /\ machines[Cluster] = {}
  <2>1. vm' = [m \in Machines |-> {}] /\ addTasks' = {}
    BY <1>5, ClusterStepEffect DEF VAppRemoved
  <2>2. VAppState # "removed" /\ VAppState' = "removed"
    BY <1>1, <1>5 DEF VAppState
  <2>3. \A m \in Machines : ~TM!Exists(m)
    BY <1>5 DEF PInv, LinkInv, TM!Exists
  <2>4. TM!RemoveVApp
    BY <1>1, <1>5, <2>1, <2>2, <2>3 DEF TM!RemoveVApp, TM!Outside
  <2>5. QED
    BY <2>4 DEF MachineNext, TM!Next, TM!Environment
<1>6. QED
  BY <1>2, <1>3, <1>4, <1>5, ClusterStepEffect DEF TCV!VAppStep

\* What the informer delivers of the cluster is a step that TenantMachine allows:
\* the identity, or references that came with a vApp that exists.
LEMMA DeliverServes ==
    ASSUME PInv, DeliverCluster
    PROVE  [MachineNext]_(TM!vars)
<1>0. TCV!VInv /\ TCV!TypeOK
  BY DEF PInv, TCV!VInv, TCV!FInv, TCV!LInv, TCV!IInv
<1>1. /\ UNCHANGED machineSide /\ UNCHANGED <<tc, res, vAppSetup, crashes>>
      /\ tcSeen'[Cluster] = tc[Cluster]
  BY <1>0 DEF DeliverCluster, TC!Deliver, TC!vcdVars, TC!Outside, TCV!TypeOK
<1>2. /\ UNCHANGED TM!apiVars /\ UNCHANGED TM!workerVars /\ UNCHANGED TM!boundVars
      /\ UNCHANGED <<vm, addTasks, ipSet, abandoned, infraRef, infraReady, cpInit, controlPlane, sized>>
  BY <1>1 DEF machineSide, machineApi, ownerCluster, machineWorker, TM!apiVars, TM!workerVars, TM!boundVars
<1>3. UNCHANGED VAppState
  <2>1. "VApp" \notin res[Cluster] => ("VApp" \in tc[Cluster].refs <=> "VApp" \in tcSeen[Cluster].refs)
    BY <1>0, ClusterFacts
  <2>2. QED
    BY <1>1, <2>1 DEF VAppState
<1>4. UNCHANGED TM!vcdVars
  BY <1>2, <1>3 DEF TM!vcdVars
<1> DEFINE old == tcSeen[Cluster].refs \cap {"VApp", "IPSet"}
           new == tc[Cluster].refs \cap {"VApp", "IPSet"}
<1>5. old \subseteq new /\ (old # new => new \in {{"VApp"}, {"VApp", "IPSet"}})
  <2>1. tcSeen[Cluster].refs \subseteq tc[Cluster].refs
        /\ (tc[Cluster].refs # {} => "VApp" \in tc[Cluster].refs)
    BY <1>0, ClusterFacts
  <2>2. QED
    BY <2>1
<1>6. tcSeen'[Cluster].refs \cap {"VApp", "IPSet"} = new
      /\ tcSeen'[Cluster].identityRef = tc[Cluster].identityRef
  BY <1>1
<1>7. CASE old = new
  <2>1. CASE tcSeen[Cluster].identityRef = tc[Cluster].identityRef
    <3>1. UNCHANGED TM!clusterVars
      BY <1>2, <1>6, <1>7, <2>1 DEF TM!clusterVars
    <3>2. QED
      BY <1>2, <1>4, <3>1 DEF TM!vars
  <2>2. CASE ~tcSeen[Cluster].identityRef /\ tc[Cluster].identityRef
    <3>1. TM!SetIdentityRef
      BY <1>0, <1>2, <1>4, <1>6, <1>7, <2>2, ClusterFacts DEF TM!SetIdentityRef, TM!Outside
    <3>2. QED
      BY <3>1 DEF MachineNext, TM!Next, TM!Environment
  <2>3. QED
    BY <1>0, <2>1, <2>2, ClusterFacts
<1>8. CASE old # new
  <2>1. tcSeen[Cluster].identityRef /\ tc[Cluster].identityRef
    BY <1>0, <1>5, <1>8, ClusterFacts
  <2>2. old = {} => VAppState # "none"
    BY <1>0, <1>5, <1>8, ClusterFacts DEF VAppState
  <2>3. UNCHANGED tcSeen[Cluster].identityRef
    BY <1>0, <1>6, <2>1, ClusterFacts
  <2> HIDE DEF new
  <2>4. TM!RecordInfrastructure
    BY <1>2, <1>4, <1>5, <1>6, <1>8, <2>2, <2>3 DEF TM!RecordInfrastructure, TM!Outside
  <2>5. QED
    BY <2>4 DEF MachineNext, TM!Next, TM!Environment
<1>9. QED
  BY <1>7, <1>8

\* Every step of Provider is a step that TenantMachine allows.
LEMMA ServesMachinesStep ==
    ASSUME PInv, [Next]_vars
    PROVE  [MachineNext]_(TM!vars)
<1>1. CASE \/ MachineWork
           \/ \E m \in Machines : MachineReconcile(m) \/ MachineEvent(m) \/ MachineEdit(m)
  BY <1>1 DEF MachineWork, MachineReconcile, MachineEvent, MachineEdit, MachineStep, MachineNext,
              TM!Next, TM!Worker, TM!Environment
<1>2. CASE ClusterReconcile \/ ClusterWork
  BY <1>2, ClusterStepServes
<1>3. CASE Die \/ Crash
  BY <1>3 DEF Die, Crash, Restart, MachineNext, TM!Next, TM!Crash, TM!boundVars
<1>4. CASE DeliverCluster
  BY <1>4, DeliverServes
<1>5. CASE ClusterEdit \/ \E m \in Machines : RemoveMachine(m)
  <2>1. UNCHANGED machineSide /\ UNCHANGED <<tcSeen, res, vAppSetup, crashes>>
    BY <1>5 DEF ClusterEdit, RemoveMachine, TC!CreateCluster, TC!SetOwner, TC!DeleteCluster, TC!Edit,
                TC!RemoveMachine, TC!apiVars, TC!vcdVars, TC!Outside
  <2>2. UNCHANGED VAppState
    BY <2>1 DEF VAppState
  <2>3. QED
    BY <2>1, <2>2 DEF machineSide, machineApi, ownerCluster, machineWorker, TM!vars, TM!apiVars,
                      TM!clusterVars, TM!vcdVars, TM!workerVars, TM!boundVars
<1>6. CASE SetInfrastructureReady \/ \E m \in Machines : CreateMachine(m)
  BY <1>6 DEF SetInfrastructureReady, CreateMachine, MachineNext, TM!Next, TM!Environment
<1>7. CASE UNCHANGED vars
  <2>1. UNCHANGED machineSide /\ UNCHANGED <<tcSeen, res, vAppSetup, crashes>>
    BY <1>7 DEF vars, clusterSide
  <2>2. UNCHANGED VAppState
    BY <2>1 DEF VAppState
  <2>3. QED
    BY <2>1, <2>2 DEF machineSide, machineApi, ownerCluster, machineWorker, TM!vars, TM!apiVars,
                      TM!clusterVars, TM!vcdVars, TM!workerVars, TM!boundVars
<1>8. QED
  BY <1>1, <1>2, <1>3, <1>4, <1>5, <1>6, <1>7 DEF Next

----------------------------------------------------------------------------
(* The invariant holds.                                                    *)

\* Steps that leave resources, VMs, addresses and tenant machines alone keep the link.
LEMMA LinkKept ==
    ASSUME PInv, tc[Cluster].ready => tc'[Cluster].ready, UNCHANGED <<res, vm, addTasks, ipSet>>,
           UNCHANGED <<infraRef, controlPlane, tm>>, infraReady' => infraReady \/ tc[Cluster].ready,
           \A m \in Machines : m \in machines[Cluster] /\ m \notin machines'[Cluster]
                                 => tm[m].phase = "gone",
           machines'[Cluster] \subseteq machines[Cluster]
    PROVE  LinkInv'
<1>1. \A m \in Machines : tm[m].phase \in {"live", "deleting"} => m \in machines'[Cluster]
  BY DEF PInv, LinkInv
<1>2. infraReady' \/ machines'[Cluster] # {} => tc'[Cluster].ready
  BY DEF PInv, LinkInv
<1>3. QED
  BY <1>1, <1>2 DEF PInv, LinkInv, Idle

\* Every step keeps the link.
LEMMA LinkStep ==
    ASSUME PInv, [Next]_vars
    PROVE  LinkInv'
<1>0. TCV!VInv /\ TCV!TypeOK /\ TMP!TypeOK /\ LinkInv
  BY DEF PInv, TCV!VInv, TCV!FInv, TCV!LInv, TCV!IInv, TMP!IInv
<1>1. tc[Cluster].ready => tc'[Cluster].ready
  <2>1. [TCV!Next \/ (TCV!Restart /\ UNCHANGED <<cFaults, crashes>>)]_(TCV!vars)
    BY ServesClusterStep, SameCluster DEF ClusterNext
  <2>2. Cluster \in {Cluster}
    OBVIOUS
  <2>3. ASSUME tc[Cluster].ready PROVE tc'[Cluster].ready
    BY <1>0, <2>1, <2>2, <2>3, ClusterAssumptions, TCV!ReadyStays
  <2>4. QED
    BY <2>3
<1>2. CASE \/ MachineWork
           \/ \E m \in Machines : MachineReconcile(m) \/ MachineEvent(m) \/ MachineEdit(m)
  <2>1. UNCHANGED <<tc, machines, res, infraRef, infraReady, controlPlane>>
    BY <1>2, MachineStepEffect DEF clusterSide, ownerCluster
  <2>2. \A m \in Machines : tm'[m].phase \in {"live", "deleting"} => m \in machines[Cluster]
    BY <1>0, <1>2, MachineStepEffect DEF LinkInv
  <2>3. "VApp" \notin res[Cluster] => Idle'
    BY <1>0, <1>2, MachineStepEffect, NoMachines DEF LinkInv
  <2>4. "IPSet" \notin res[Cluster] => ipSet' = {}
    BY <1>0, <1>2, MachineStepEffect, NoMachines DEF LinkInv
  <2>5. QED
    BY <1>0, <2>1, <2>2, <2>3, <2>4 DEF LinkInv
<1>3. CASE ClusterReconcile \/ ClusterWork
  <2>1. UNCHANGED <<machines, tm, infraRef, infraReady, controlPlane, ipSet>>
    BY <1>3, ClusterStepEffect DEF machineApi, ownerCluster
  <2>2. "VApp" \notin res'[Cluster] => Idle'
    <3>1. CASE VAppRemoved
      BY <1>3, <3>1, ClusterStepEffect DEF Idle
    <3>2. CASE ~VAppRemoved
      BY <1>0, <1>3, <3>2, ClusterStepEffect DEF VAppRemoved, Idle, LinkInv
    <3>3. QED
      BY <3>1, <3>2
  <2>3. "IPSet" \notin res'[Cluster] => ipSet' = {}
    BY <1>0, <1>3, <2>1, ClusterStepEffect DEF LinkInv
  <2>4. QED
    BY <1>0, <1>1, <2>1, <2>2, <2>3 DEF LinkInv
<1>4. CASE Die \/ Crash
  <2>1. UNCHANGED <<machines, res, vm, addTasks, ipSet, tm, infraRef, controlPlane, infraReady>>
    BY <1>4 DEF Die, Crash, Restart, ownerCluster, TM!Restart
  <2>2. QED
    BY <1>1, <2>1, LinkKept
<1>5. CASE DeliverCluster \/ ClusterEdit
  <2>1. UNCHANGED machineSide /\ UNCHANGED <<machines, res>>
    BY <1>5 DEF DeliverCluster, ClusterEdit, TC!Deliver, TC!CreateCluster, TC!SetOwner,
                TC!DeleteCluster, TC!Edit, TC!vcdVars
  <2>2. QED
    BY <1>1, <2>1, LinkKept DEF machineSide, machineApi, ownerCluster
<1>6. CASE SetInfrastructureReady
  <2>1. UNCHANGED <<machines, res, vm, addTasks, ipSet, tm, infraRef, controlPlane>> /\ tc[Cluster].ready
    BY <1>6 DEF SetInfrastructureReady, TM!SetInfrastructureReady, TM!vcdVars
  <2>2. QED
    BY <1>1, <2>1, LinkKept
<1>7. ASSUME NEW m \in Machines, CreateMachine(m)
      PROVE  LinkInv'
  <2>1. /\ infraReady /\ tc[Cluster].ready
        /\ UNCHANGED <<tc, res, vm, addTasks, ipSet, infraRef, infraReady, controlPlane>>
        /\ machines' = [machines EXCEPT ![Cluster] = @ \cup {m}]
        /\ \E o : tm' = [tm EXCEPT ![m] = o]
    BY <1>0, <1>7 DEF CreateMachine, ownerCluster, TM!CreateMachine, TM!Edit, TM!vcdVars, TC!AddMachine,
                 TC!apiVars, LinkInv
  <2>2. machines'[Cluster] = machines[Cluster] \cup {m} /\ \A n \in Machines \ {m} : tm'[n] = tm[n]
    BY <1>0, <2>1 DEF TCV!TypeOK, TMP!TypeOK
  <2>3. \A n \in Machines : tm'[n].phase \in {"live", "deleting"} => n \in machines'[Cluster]
    BY <1>0, <2>2 DEF LinkInv
  <2>4. QED
    BY <1>0, <2>1, <2>3 DEF LinkInv, Idle
<1>8. ASSUME NEW m \in Machines, RemoveMachine(m)
      PROVE  LinkInv'
  <2>1. /\ UNCHANGED machineSide /\ UNCHANGED res /\ tm[m].phase = "gone"
        /\ machines'[Cluster] = machines[Cluster] \ {m}
    BY <1>0, <1>8 DEF RemoveMachine, TC!RemoveMachine, TC!vcdVars, TCV!TypeOK
  <2>2. QED
    BY <1>1, <2>1, LinkKept DEF machineSide, machineApi, ownerCluster
<1>9. CASE UNCHANGED vars
  BY <1>1, <1>9, LinkKept DEF vars, clusterSide, machineSide, machineApi, ownerCluster
<1>10. QED
  BY <1>2, <1>3, <1>4, <1>5, <1>6, <1>7, <1>8, <1>9 DEF Next

\* Initially the invariant holds.
LEMMA InitPInv == Init => PInv
<1> SUFFICES ASSUME Init PROVE PInv
  OBVIOUS
<1>1. TCV!VInv
  BY SameCluster, ClusterAssumptions, TCV!InitVisible DEF Init
<1>2. TMP!IInv
  BY SameMachines, MachineAssumptions, TMP!InitInv DEF Init
<1>3. TMP!FreshInv
  BY SameMachines, MachineAssumptions, TMP!InitFresh DEF Init
<1>4. LinkInv
  <2>1. infraRef /\ controlPlane = Machines /\ ~infraReady /\ ipSet = {} /\ Idle
    BY DEF Init, TM!Init, Idle
  <2>2. machines[Cluster] = {}
    BY DEF Init, TC!Init
  <2>3. \A m \in Machines : tm[m].phase = "absent"
    BY DEF Init, TM!Init, TM!NewObject
  <2>4. QED
    BY <2>1, <2>2, <2>3 DEF LinkInv
<1>5. QED
  BY <1>1, <1>2, <1>3, <1>4 DEF PInv

\* Every step keeps it.
LEMMA NextPInv == PInv /\ [Next]_vars => PInv'
<1> SUFFICES ASSUME PInv, [Next]_vars PROVE PInv'
  OBVIOUS
<1>0. TCV!VInv /\ TMP!IInv /\ TMP!TypeOK /\ TMP!FreshInv
  BY DEF PInv, TMP!IInv
<1>1. TCV!VInv'
  BY <1>0, ServesClusterStep, SameCluster, ClusterAssumptions, TCV!NextVisible DEF ClusterNext
<1>2. TMP!IInv' /\ TMP!FreshInv'
  <2>1. CASE [TM!Next]_(TM!vars)
    BY <1>0, <2>1, SameMachines, MachineAssumptions, TMP!NextInv, TMP!NextFresh
  <2>2. CASE TM!Restart /\ UNCHANGED TM!boundVars
    <3>1. UNCHANGED <<mFaults, patchFaults, crashes>> /\ TMP!Restart
      BY <2>2, SameMachines
    <3>2. mFaults' \in 0..MaxMachineFaults /\ patchFaults' \in 0..MaxPatchFaults /\ crashes' \in 0..MaxCrashes
      BY <1>0, <3>1 DEF TMP!TypeOK
    <3>3. QED
      BY <1>0, <3>1, <3>2, MachineAssumptions, TMP!RestartInv, TMP!RestartFresh
  <2>3. QED
    BY <2>1, <2>2, ServesMachinesStep DEF MachineNext
<1>3. QED
  BY <1>1, <1>2, LinkStep DEF PInv

----------------------------------------------------------------------------
(* The theorems.                                                           *)

\* The inductive invariant holds in every reachable state of the composition.
THEOREM Invariance == Spec => []PInv
BY InitPInv, NextPInv, PTL DEF Spec

\* ServesCluster for every set of machines and addresses: in whatever state the
\* machine controller and Cluster API are, an address enters the IP set only as
\* TenantCluster assumes, so everything proved of TenantCluster holds here.
THEOREM ServesClusterHolds == Spec => ServesCluster
<1>1. Init => TC!Init
  BY DEF Init
<1>2. ASSUME PInv, [Next]_vars
      PROVE  [TC!Next \/ (TC!Restart /\ UNCHANGED <<cFaults, crashes>>)]_(TC!vars)
  BY <1>2, ServesClusterStep DEF ClusterNext
<1>3. QED
  BY <1>1, <1>2, Invariance, PTL DEF Spec, ServesCluster

\* ServesMachines for every set of machines: the vApp comes before the Status that
\* names it and goes after the last tenant machine, as TenantMachine assumes.
THEOREM ServesMachinesHolds == Spec => ServesMachines
<1>1. Init => TM!Init
  BY DEF Init
<1>2. ASSUME PInv, [Next]_vars
      PROVE  [TM!Next \/ (TM!Restart /\ UNCHANGED TM!boundVars)]_(TM!vars)
  BY <1>2, ServesMachinesStep DEF MachineNext
<1>3. QED
  BY <1>1, <1>2, Invariance, PTL DEF Spec, ServesMachines

\* NothingLeftBehind for every set of machines, with fresh reads: when the object of
\* a fully recorded cluster is gone, VCD holds no resource, no VM, no task that
\* would still make one, and no address of it.
THEOREM NothingLeftBehindHolds == Spec => [](FreshReads => NothingLeftBehind)
<1>1. PInv => (FreshReads => NothingLeftBehind)
  <2> SUFFICES ASSUME PInv, FreshReads, tc[Cluster].phase = "gone", tc[Cluster].refs = TC!Kinds
               PROVE  res[Cluster] = {} /\ Idle /\ ipSet = {}
    BY DEF NothingLeftBehind, Idle
  <2>1. TCV!GoneIsClean /\ TCV!TypeOK
    BY DEF PInv, TCV!VInv, TCV!FInv, TCV!FreshInv, TCV!LInv, TCV!IInv
  <2>2. tc[Cluster].refs \cap res[Cluster] = {} /\ res[Cluster] \subseteq TCV!Kinds
    BY <2>1 DEF TCV!GoneIsClean, TCV!TypeOK
  <2>3. res[Cluster] = {}
    BY <2>2 DEF TC!Kinds, TCV!Kinds
  <2>4. QED
    BY <2>3 DEF PInv, LinkInv
<1>2. QED
  BY <1>1, Invariance, PTL

\* A ready control plane machine is served: its VM runs, its address is in the IP
\* set, and the load balancer in front of it is complete.
LEMMA ReadyServed ==
    ASSUME PInv, NEW m \in Machines, tm[m].phase = "live", tm[m].ready
    PROVE  /\ "on" \in vm[m] /\ m \in ipSet
           /\ tc[Cluster].phase \in {"live", "deleting"}
           /\ res[Cluster] = {"IPSet", "Pool", "VirtualService", "VApp"}
<1>1. "on" \in vm[m] /\ m \in ipSet
  BY DEF PInv, LinkInv, TMP!IInv, TMP!CacheInv, TMP!CacheLags, TMP!Runs
<1>2. /\ tc[Cluster].phase \in {"live", "deleting"}
      /\ res[Cluster] = {"IPSet", "Pool", "VirtualService", "VApp"}
  BY ClusterFacts DEF PInv, LinkInv
<1>3. QED
  BY <1>1, <1>2

\* ControlPlaneReachable but for the endpoint, with stale reads as well: neither
\* controller takes away what a ready machine is served by.
THEOREM ReadyServedHolds ==
    Spec => []\A m \in Machines : tm[m].phase = "live" /\ tm[m].ready =>
                  "on" \in vm[m] /\ m \in ipSet /\ TC!Kinds \subseteq res[Cluster]
<1>1. PInv => \A m \in Machines : tm[m].phase = "live" /\ tm[m].ready =>
                  "on" \in vm[m] /\ m \in ipSet /\ TC!Kinds \subseteq res[Cluster]
  BY ReadyServed DEF TC!Kinds
<1>2. QED
  BY <1>1, Invariance, PTL

\* ControlPlaneReachable for every set of machines, with fresh reads: Ready on a
\* control plane machine means that the endpoint leads to it, from the virtual
\* service that one controller keeps to the VM that the other one started.
THEOREM ControlPlaneReachableHolds == Spec => [](FreshReads => ControlPlaneReachable)
<1>1. PInv => (FreshReads => ControlPlaneReachable)
  <2> SUFFICES ASSUME PInv, FreshReads, NEW m \in Machines, tm[m].phase = "live", tm[m].ready
               PROVE  /\ "on" \in vm[m] /\ m \in ipSet
                      /\ TC!Kinds \subseteq res[Cluster] /\ vip[Cluster] = tc[Cluster].host
    BY DEF ControlPlaneReachable
  <2>1. TCV!EndpointServed
    BY DEF PInv, TCV!VInv, TCV!FInv, TCV!FreshInv
  <2>2. QED
    BY <2>1, ReadyServed DEF TC!Kinds, TCV!EndpointServed, TCV!Exists
<1>2. QED
  BY <1>1, Invariance, PTL

\* What TenantCluster guarantees by itself, it guarantees next to the machine
\* controller: types, the resources of a ready cluster, their order and, with
\* fresh reads, a clean deletion and the endpoint.
THEOREM ClusterKeepsPromises ==
    Spec => [](/\ TC!TypeOK /\ TC!ReadyHasResources /\ TC!DependencyOrder
               /\ FreshReads => TC!GoneIsClean /\ TC!EndpointServed)
<1>1. PInv => (/\ TC!TypeOK /\ TC!ReadyHasResources /\ TC!DependencyOrder
               /\ FreshReads => TC!GoneIsClean /\ TC!EndpointServed)
  <2> SUFFICES ASSUME PInv
               PROVE  /\ TC!TypeOK /\ TC!ReadyHasResources /\ TC!DependencyOrder
                      /\ FreshReads => TC!GoneIsClean /\ TC!EndpointServed
    OBVIOUS
  <2>1. TCV!IInv /\ TCV!FreshInv
    BY DEF PInv, TCV!VInv, TCV!FInv, TCV!LInv
  <2>2. TC!TypeOK
    BY <2>1, Zenon DEF TCV!IInv, TC!TypeOK, TCV!TypeOK, TC!Object, TCV!Object, TC!Kinds, TCV!Kinds,
                TC!CondTypes, TCV!CondTypes, TC!Stages, TCV!Stages
  <2>3. TC!ReadyHasResources /\ TC!DependencyOrder
    BY <2>1 DEF TCV!IInv, TCV!CacheInv, TCV!CacheLags, TC!ReadyHasResources, TC!DependencyOrder,
                TCV!DependencyOrder, TC!Kinds, TCV!Kinds
  <2>4. FreshReads => TC!GoneIsClean /\ TC!EndpointServed
    BY <2>1 DEF TCV!FreshInv, TC!GoneIsClean, TCV!GoneIsClean, TC!EndpointServed, TCV!EndpointServed,
                TC!Exists, TCV!Exists
  <2>5. QED
    BY <2>2, <2>3, <2>4
<1>2. QED
  BY <1>1, Invariance, PTL

\* And what TenantMachine guarantees: types, a VM that runs is configured, a
\* ready machine runs, only a VM whose task was abandoned outlives its object and,
\* with fresh reads, a machine takes its recorded address along.
THEOREM MachinesKeepPromises ==
    Spec => [](/\ TM!TypeOK /\ TM!BootConfigured /\ TM!ReadyRuns /\ TM!NoOrphanVM
               /\ FreshReads => TM!GoneLeavesIPSet)
<1>1. PInv => (/\ TM!TypeOK /\ TM!BootConfigured /\ TM!ReadyRuns /\ TM!NoOrphanVM
               /\ FreshReads => TM!GoneLeavesIPSet)
  <2> SUFFICES ASSUME PInv
               PROVE  /\ TM!TypeOK /\ TM!BootConfigured /\ TM!ReadyRuns /\ TM!NoOrphanVM
                      /\ FreshReads => TM!GoneLeavesIPSet
    OBVIOUS
  <2>1. TMP!IInv /\ TMP!FreshInv
    BY DEF PInv
  <2>2. TM!TypeOK
    BY <2>1, Zenon DEF TMP!IInv, TM!TypeOK, TMP!TypeOK, TM!Object, TMP!Object, TM!CondTypes, TMP!CondTypes,
                TM!VMParts, TMP!VMParts, TM!Stages, TMP!Stages
  <2>3. TM!BootConfigured /\ TM!ReadyRuns /\ TM!NoOrphanVM
    BY <2>1 DEF TMP!IInv, TMP!CacheInv, TMP!CacheLags, TMP!Runs, TM!BootConfigured, TMP!BootConfigured,
                TM!ReadyRuns, TM!NoOrphanVM, TMP!NoOrphanVM
  <2>4. FreshReads => TM!GoneLeavesIPSet
    BY <2>1 DEF TMP!FreshInv, TM!GoneLeavesIPSet, TMP!GoneLeavesIPSet
  <2>5. QED
    BY <2>2, <2>3, <2>4
<1>2. QED
  BY <1>1, Invariance, PTL

\* The action properties of the two models, in the composition as well: no resource
\* is created for a cluster that is gone or removed while it has Machines, and no
\* machine loses its membership of the IP set but by its own deletion.
THEOREM StepsKeepPromises ==
    Spec => TC!NoResurrection /\ TC!TeardownAfterMachines /\ TM!MembersKept
<1>1. ASSUME PInv, [Next]_vars
      PROVE  /\ tc[Cluster].phase = "gone" => res'[Cluster] \subseteq res[Cluster]
             /\ ~(res[Cluster] \subseteq res'[Cluster]) => machines[Cluster] = {}
  <2>0. TCV!IInv /\ Cluster \in {Cluster}
    BY <1>1 DEF PInv, TCV!VInv, TCV!FInv, TCV!LInv
  <2>1. CASE TC!Restart
    BY <2>1 DEF TC!Restart, TC!vcdVars
  <2>2. CASE [TC!Next]_(TC!vars)
    BY <2>0, <2>2, SameCluster, ClusterAssumptions, TCV!ResourceSteps
  <2>3. QED
    BY <1>1, <2>1, <2>2, ServesClusterStep DEF ClusterNext
<1>2. ASSUME PInv, [Next]_vars
      PROVE  \A m \in ipSet : m \notin ipSet' => tm[m].phase \in {"deleting", "gone"}
  <2>0. TMP!IInv
    BY <1>2 DEF PInv
  <2>1. CASE TM!Restart
    BY <2>1 DEF TM!Restart
  <2>2. CASE [TM!Next]_(TM!vars)
    BY <2>0, <2>2, SameMachines, MachineAssumptions, TMP!MembersKeptStep
  <2>3. QED
    BY <1>2, <2>1, <2>2, ServesMachinesStep DEF MachineNext
<1>3. ASSUME PInv, [Next]_vars
      PROVE  /\ [\A c \in {Cluster} : tc[c].phase = "gone" => res'[c] \subseteq res[c]]_(TC!vars)
             /\ [\A c \in {Cluster} : ~(res[c] \subseteq res'[c]) => machines[c] = {}]_(TC!vars)
             /\ [\A m \in ipSet : m \notin ipSet' => tm[m].phase \in {"deleting", "gone"}]_(TM!vars)
  BY <1>1, <1>2, <1>3
<1>4. QED
  BY <1>3, Invariance, PTL DEF Spec, TC!NoResurrection, TC!TeardownAfterMachines, TM!MembersKept

\* The composition implements the lifecycle that the cluster controller promises,
\* with the machine controller in the place of TenantCluster's environment.
THEOREM LifecycleRefinement == Spec => TC!ImplementsLifecycle
<1>1. Init => TC!Lifecycle!Init
  <2>1. Init => TCV!Lifecycle!Init
    BY SameCluster, ClusterAssumptions, TCV!InitSimulates DEF Init
  <2>2. QED
    BY <2>1, Zenon DEF TC!Lifecycle!Init, TCV!Lifecycle!Init
<1>2. ASSUME PInv, [Next]_vars
      PROVE  [TC!Lifecycle!Next]_(TC!Lifecycle!vars)
  <2>0. TCV!LInv
    BY <1>2 DEF PInv, TCV!VInv, TCV!FInv
  <2>1. [TCV!Lifecycle!Next]_(TCV!Lifecycle!vars)
    <3>1. CASE TC!Restart
      BY <3>1, ClusterAssumptions, TCV!Stutter DEF TC!Restart, TC!vcdVars
    <3>2. CASE [TC!Next]_(TC!vars)
      BY <2>0, <3>2, SameCluster, ClusterAssumptions, TCV!StepSimulates
    <3>3. QED
      BY <1>2, <3>1, <3>2, ServesClusterStep DEF ClusterNext
  <2>2. QED
    BY <2>1, Zenon DEF
       TC!Lifecycle!Next, TCV!Lifecycle!Next, TC!Lifecycle!vars, TCV!Lifecycle!vars,
       TC!Lifecycle!Create, TCV!Lifecycle!Create, TC!Lifecycle!Delete, TCV!Lifecycle!Delete,
       TC!Lifecycle!Release, TCV!Lifecycle!Release, TC!Lifecycle!Publish, TCV!Lifecycle!Publish,
       TC!Lifecycle!Build, TCV!Lifecycle!Build, TC!Lifecycle!Teardown, TCV!Lifecycle!Teardown,
       TC!Lifecycle!AddMachine, TCV!Lifecycle!AddMachine, TC!Lifecycle!RemoveMachine,
       TCV!Lifecycle!RemoveMachine, TC!Lifecycle!Become, TCV!Lifecycle!Become, TC!Lifecycle!Needs,
       TCV!Lifecycle!Needs, TC!Lifecycle!Blockers, TCV!Lifecycle!Blockers, TC!Lifecycle!Kinds,
       TCV!Lifecycle!Kinds
<1>3. QED
  BY <1>1, <1>2, Invariance, PTL DEF Spec, TC!ImplementsLifecycle, TC!Lifecycle!Spec

=============================================================================
