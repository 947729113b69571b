----------------------- MODULE TenantCluster_proofs -----------------------
(***************************************************************************)
(* Proofs about TenantCluster, for every set of clusters, machines and     *)
(* addresses, every bound on failures and crashes, and fresh or stale      *)
(* reads.                                                                  *)
(***************************************************************************)
EXTENDS TenantCluster, TLAPS

----------------------------------------------------------------------------
(* Objects.                                                                *)

\* The empty object is well formed and carries nothing.
LEMMA NewObjectType ==
    /\ NewObject \in Object
    /\ NewObject.phase = "absent" /\ ~NewObject.finalizer
    /\ NewObject.refs = {} /\ ~NewObject.ready
BY DEF NewObject, Object

\* Setting a condition changes nothing but the conditions.
LEMMA MarkTrueType ==
    ASSUME NEW o \in Object, NEW types
    PROVE  LET p == MarkTrue(o, types) IN
           /\ p \in Object /\ p.phase = o.phase /\ p.finalizer = o.finalizer
           /\ p.refs = o.refs /\ p.ready = o.ready
BY DEF MarkTrue, Object

\* Marking a condition False changes nothing but that condition.
LEMMA MarkFalseType ==
    ASSUME NEW o \in Object, NEW type \in CondTypes
    PROVE  LET p == MarkFalse(o, type) IN
           /\ p \in Object /\ p.phase = o.phase /\ p.finalizer = o.finalizer
           /\ p.refs = o.refs /\ p.ready = o.ready
BY DEF MarkFalse, Object

\* AddFinalizer and RemoveFinalizer change nothing but the finalizer.
LEMMA SetFinalizerType ==
    ASSUME NEW o \in Object, NEW f \in BOOLEAN
    PROVE  LET p == [o EXCEPT !.finalizer = f] IN
           /\ p \in Object /\ p.phase = o.phase /\ p.finalizer = f
           /\ p.refs = o.refs /\ p.ready = o.ready
BY DEF Object

\* Storing an allocated address changes nothing but the endpoint.
LEMMA SetHostType ==
    ASSUME NEW o \in Object, NEW a \in Addresses
    PROVE  LET p == [o EXCEPT !.host = a] IN
           /\ p \in Object /\ p.phase = o.phase /\ p.finalizer = o.finalizer
           /\ p.refs = o.refs /\ p.ready = o.ready
BY DEF Object

\* Setting Status.Ready changes nothing else.
LEMMA SetReadyType ==
    ASSUME NEW o \in Object
    PROVE  LET p == [o EXCEPT !.ready = TRUE] IN
           /\ p \in Object /\ p.phase = o.phase /\ p.finalizer = o.finalizer
           /\ p.refs = o.refs /\ p.ready
BY DEF Object

\* Recording references changes nothing else.
LEMMA AddRefsType ==
    ASSUME NEW o \in Object, NEW r \in SUBSET Kinds
    PROVE  LET p == [o EXCEPT !.refs = @ \cup r] IN
           /\ p \in Object /\ p.phase = o.phase /\ p.finalizer = o.finalizer
           /\ p.refs = o.refs \cup r /\ p.ready = o.ready
BY DEF Object

----------------------------------------------------------------------------
(* Type correctness. Each lemma treats one group of actions.               *)

\* The constants and the fields of an object that the action lemmas look at.
LEMMA ObjectFields ==
    ASSUME NEW o \in Object
    PROVE  /\ o.phase \in {"absent", "live", "deleting", "gone"}
           /\ o.finalizer \in BOOLEAN /\ o.ready \in BOOLEAN
           /\ o.host \in Addresses \cup {NoAddress} /\ o.refs \subseteq Kinds
           /\ o.conds \in [CondTypes -> {"Unset", "True", "False"}]
BY DEF Object

\* Taking a key keeps the types, whichever branch Reconcile chooses.
LEMMA ReconcileType ==
    ASSUME TypeOK, NEW c \in Clusters, Reconcile(c)
    PROVE  TypeOK'
<1>1. seen[c] \in Object
  BY DEF TypeOK
<1>2. [seen[c] EXCEPT !.finalizer = TRUE] \in Object
  BY <1>1, SetFinalizerType
<1>3. CASE ReconcileNotFound(c)
  BY <1>3 DEF TypeOK, ReconcileNotFound, Take, NoFault, workerVars, vcdVars
<1>4. CASE ReconcileOwnerError(c)
  BY <1>1, <1>4, SentinelAssumption, BoundAssumption
     DEF TypeOK, ReconcileOwnerError, Take, Fault, ReturnAtOnce, vcdVars, Stages
<1>5. CASE ReconcileDeleted(c)
  BY <1>1, <1>5, SentinelAssumption
     DEF TypeOK, ReconcileDeleted, Take, NoFault, Proceed, vcdVars, Stages
<1>6. CASE AddFinalizer(c)
  BY <1>1, <1>2, <1>6, SentinelAssumption
     DEF TypeOK, AddFinalizer, Take, NoFault, ReturnAtOnce, vcdVars, Stages
<1>7. CASE ReconcileNoIdentity(c)
  BY <1>1, <1>7, SentinelAssumption
     DEF TypeOK, ReconcileNoIdentity, Take, NoFault, ReturnAtOnce, vcdVars, Stages
<1>8. CASE ReconcileLive(c)
  BY <1>1, <1>8, SentinelAssumption
     DEF TypeOK, ReconcileLive, Take, NoFault, Proceed, vcdVars, Stages
<1>9. QED
  BY <1>3, <1>4, <1>5, <1>6, <1>7, <1>8 DEF Reconcile

\* What a step of a reconcile that goes on, or returns, may do to the worker.
WorkerStep ==
    /\ pc' \in Stages \ {"idle"} /\ cur' = cur /\ obj' \in Object /\ orig' = orig
    /\ nilRefs' \subseteq {"IPSet", "Pool"}
    /\ requeue' \in BOOLEAN /\ panicking' \in BOOLEAN

\* Going on, returning, panicking and swallowing an error are such steps.
LEMMA WorkerStepType ==
    ASSUME TypeOK
    PROVE  /\ \A p \in Stages \ {"idle"} : Goto(p) => WorkerStep
           /\ \A o \in Object, b \in BOOLEAN : Return(o, b) => WorkerStep
           /\ \A o \in Object : Panic(o) => WorkerStep
           /\ \A k \in {"IPSet", "Pool"}, p \in Stages \ {"idle"} :
                 LookupSwallowed(k, p) => WorkerStep
<1>1. ASSUME NEW p \in Stages \ {"idle"}, Goto(p)
      PROVE  WorkerStep
  BY <1>1 DEF TypeOK, Goto, WorkerStep
<1>2. ASSUME NEW o \in Object, NEW b \in BOOLEAN, Return(o, b)
      PROVE  WorkerStep
  BY <1>2 DEF TypeOK, Return, WorkerStep, Stages
<1>3. ASSUME NEW o \in Object, Panic(o)
      PROVE  WorkerStep
  BY <1>3 DEF TypeOK, Panic, WorkerStep, Stages
<1>4. ASSUME NEW k \in {"IPSet", "Pool"}, NEW p \in Stages \ {"idle"}, LookupSwallowed(k, p)
      PROVE  WorkerStep
  BY <1>4 DEF TypeOK, LookupSwallowed, WorkerStep
<1>5. QED
  BY <1>1, <1>2, <1>3, <1>4

\* The counter of failures stays within its bound.
LEMMA FaultType ==
    ASSUME TypeOK, NoFault \/ Fault
    PROVE  faults' \in 0..MaxFaults
BY BoundAssumption DEF TypeOK, NoFault, Fault

\* A step of the worker that leaves the API server and the Machines alone.
LEMMA StepType ==
    ASSUME TypeOK, cur \in Clusters, WorkerStep, NoFault \/ Fault,
           UNCHANGED <<apiVars, machines, ips, crashes>>,
           res' \in [Clusters -> SUBSET Kinds],
           vip' \in [Clusters -> Addresses \cup {NoAddress}],
           vAppSetup' \in [Clusters -> SUBSET {"network", "power"}]
    PROVE  TypeOK'
BY FaultType, SentinelAssumption DEF TypeOK, WorkerStep, apiVars

\* Adding a kind to, or removing one from, the current cluster's resources.
LEMMA ResType ==
    ASSUME TypeOK, cur \in Clusters, NEW k \in Kinds
    PROVE  With(k) \in [Clusters -> SUBSET Kinds] /\ Without(k) \in [Clusters -> SUBSET Kinds]
BY DEF TypeOK, With, Without

\* Record adds references and conditions to the object; only without nil
\* pointers does it add all references and set Ready.
LEMMA RecordShape ==
    ASSUME Record
    PROVE  \E r \in SUBSET Kinds, t \in SUBSET CondTypes :
              LET o == [MarkTrue(obj, t) EXCEPT !.refs = @ \cup r] IN
              /\ "VirtualService" \in r /\ ("IPSet" \in r => "Pool" \in r)
              /\ \/ nilRefs = {} /\ Return([o EXCEPT !.ready = TRUE], FALSE)
                 \/ Panic(o)
<1> DEFINE r == IF "Pool" \in nilRefs THEN {"VApp", "VirtualService"}
                ELSE IF "IPSet" \in nilRefs THEN {"VApp", "VirtualService", "Pool"}
                ELSE Kinds
           t == {x \in CondTypes : \/ x = "VAppReady"
                                   \/ x = "VirtualServiceReady"
                                   \/ x = "PoolReady" /\ "Pool" \in r
                                   \/ x = "IPSetReady" /\ "IPSet" \in r}
           o == [MarkTrue(obj, t) EXCEPT !.refs = @ \cup r]
<1>1. r \in SUBSET Kinds /\ "VirtualService" \in r /\ ("IPSet" \in r => "Pool" \in r)
  BY DEF Kinds
<1>2. t \in SUBSET CondTypes
  OBVIOUS
<1>3. \/ nilRefs = {} /\ Return([o EXCEPT !.ready = TRUE], FALSE)
      \/ Panic(o)
  BY Zenon DEF Record
<1> HIDE DEF r, t
<1>4. QED
  BY <1>1, <1>2, <1>3

\* Every call of the provisioning chain keeps the types.
LEMMA ProvisionType ==
    ASSUME TypeOK, Provision
    PROVE  TypeOK'
<1>0. obj \in Object /\ cur \in Clusters
  BY DEF TypeOK, Provision, Connect, AllocateAddress, EndpointReady, EnsureIPSet, EnsurePool,
         EnsureVirtualService, EnsureVApp, AttachNetwork, PowerOnVApp, Record
<1>1. CASE Connect
  <2>1. MarkFalse(obj, "ExternalIPAddressReady") \in Object
    BY <1>0, MarkFalseType DEF CondTypes
  <2>2. WorkerStep
    BY <1>0, <1>1, <2>1, WorkerStepType DEF Connect, Stages
  <2>3. QED
    BY <1>0, <1>1, <2>2, StepType DEF TypeOK, Connect, WorkerOnly, vcdVars
<1>2. CASE AllocateAddress
  <2>1. MarkFalse(obj, "ExternalIPAddressReady") \in Object
    BY <1>0, MarkFalseType DEF CondTypes
  <2>2. \A a \in UnusedAddresses : [obj EXCEPT !.host = a] \in Object
    BY <1>0, SetHostType DEF UnusedAddresses
  <2>3. WorkerStep
    BY <1>0, <1>2, <2>1, <2>2, WorkerStepType DEF AllocateAddress
  <2>4. QED
    BY <1>0, <1>2, <2>3, StepType DEF TypeOK, AllocateAddress, WorkerOnly, vcdVars
<1>3. CASE EndpointReady
  <2>1. MarkTrue(obj, {"ExternalIPAddressReady"}) \in Object
    BY <1>0, MarkTrueType
  <2>2. WorkerStep
    <3>1. CASE Return(MarkTrue(obj, {"ExternalIPAddressReady"}), FALSE)
      BY <2>1, <3>1, WorkerStepType
    <3>2. CASE /\ pc' = "ipSet" /\ obj' = MarkTrue(obj, {"ExternalIPAddressReady"})
               /\ UNCHANGED <<cur, orig, nilRefs, requeue, panicking>>
      BY <2>1, <3>2 DEF TypeOK, WorkerStep, Stages
    <3>3. QED
      BY <1>3, <3>1, <3>2 DEF EndpointReady
  <2>3. QED
    BY <1>0, <1>3, <2>2, StepType DEF TypeOK, EndpointReady, WorkerOnly, vcdVars
<1>4. CASE EnsureIPSet
  <2>1. With("IPSet") \in [Clusters -> SUBSET Kinds]
    BY <1>0, ResType DEF Kinds
  <2>2. WorkerStep
    BY <1>0, <1>4, WorkerStepType DEF EnsureIPSet, Stages
  <2>3. res' \in [Clusters -> SUBSET Kinds] /\ (NoFault \/ Fault)
    BY <1>4, <2>1 DEF TypeOK, EnsureIPSet, CreateFailed, LookupSwallowed
  <2>4. QED
    BY <1>0, <1>4, <2>2, <2>3, StepType DEF TypeOK, EnsureIPSet
<1>5. CASE EnsurePool
  <2>1. With("Pool") \in [Clusters -> SUBSET Kinds]
    BY <1>0, ResType DEF Kinds
  <2>2. WorkerStep
    BY <1>0, <1>5, WorkerStepType DEF EnsurePool, Stages
  <2>3. res' \in [Clusters -> SUBSET Kinds] /\ (NoFault \/ Fault)
    BY <1>5, <2>1 DEF TypeOK, EnsurePool, CreateFailed, LookupSwallowed
  <2>4. QED
    BY <1>0, <1>5, <2>2, <2>3, StepType DEF TypeOK, EnsurePool
<1>6. CASE EnsureVirtualService
  <2>1. With("VirtualService") \in [Clusters -> SUBSET Kinds]
    BY <1>0, ResType DEF Kinds
  <2>2. [vip EXCEPT ![cur] = obj.host] \in [Clusters -> Addresses \cup {NoAddress}]
    BY <1>0, ObjectFields DEF TypeOK
  <2>3. MarkFalse(obj, "VirtualServiceReady") \in Object
    BY <1>0, MarkFalseType DEF CondTypes
  <2>4. WorkerStep
    BY <1>0, <1>6, <2>3, WorkerStepType DEF EnsureVirtualService, Stages
  <2>5. /\ res' \in [Clusters -> SUBSET Kinds] /\ (NoFault \/ Fault)
        /\ vip' \in [Clusters -> Addresses \cup {NoAddress}]
    <3>1. UNCHANGED <<res, vip>> \/ ListenOn(obj.host)
      BY <1>6 DEF EnsureVirtualService
    <3>2. NoFault \/ Fault
      BY <1>6 DEF EnsureVirtualService
    <3>3. QED
      BY <2>1, <2>2, <3>1, <3>2 DEF TypeOK, ListenOn
  <2>6. QED
    BY <1>0, <1>6, <2>4, <2>5, StepType DEF TypeOK, EnsureVirtualService
<1>7. CASE EnsureVApp
  <2>1. With("VApp") \in [Clusters -> SUBSET Kinds]
    BY <1>0, ResType DEF Kinds
  <2>2. MarkFalse(obj, "VAppReady") \in Object
    BY <1>0, MarkFalseType DEF CondTypes
  <2>3. WorkerStep
    BY <1>0, <1>7, <2>2, WorkerStepType DEF EnsureVApp, Stages
  <2>4. res' \in [Clusters -> SUBSET Kinds] /\ (NoFault \/ Fault)
    BY <1>7, <2>1 DEF TypeOK, EnsureVApp, CreateFailed
  <2>5. QED
    BY <1>0, <1>7, <2>3, <2>4, StepType DEF TypeOK, EnsureVApp
<1>8. CASE AttachNetwork
  <2>1. WorkerStep
    BY <1>0, <1>8, WorkerStepType DEF AttachNetwork, Stages
  <2>2. vAppSetup' \in [Clusters -> SUBSET {"network", "power"}]
    BY <1>0, <1>8 DEF TypeOK, AttachNetwork, SetUp
  <2>3. QED
    BY <1>0, <1>8, <2>1, <2>2, StepType DEF TypeOK, AttachNetwork
<1>9. CASE PowerOnVApp
  <2>1. WorkerStep
    BY <1>0, <1>9, WorkerStepType DEF PowerOnVApp, Stages
  <2>2. vAppSetup' \in [Clusters -> SUBSET {"network", "power"}]
    BY <1>0, <1>9 DEF TypeOK, PowerOnVApp, SetUp
  <2>3. QED
    BY <1>0, <1>9, <2>1, <2>2, StepType DEF TypeOK, PowerOnVApp
<1>10. CASE Record
  <2>1. \E r \in SUBSET Kinds, t \in SUBSET CondTypes :
            LET o == [MarkTrue(obj, t) EXCEPT !.refs = @ \cup r] IN
            Return([o EXCEPT !.ready = TRUE], FALSE) \/ Panic(o)
    BY <1>10, RecordShape
  <2>2. WorkerStep
    BY <1>0, <2>1, MarkTrueType, AddRefsType, SetReadyType, WorkerStepType
  <2>3. QED
    BY <1>0, <1>10, <2>2, StepType DEF TypeOK, Record, WorkerOnly, vcdVars
<1>11. QED
  BY <1>1, <1>2, <1>3, <1>4, <1>5, <1>6, <1>7, <1>8, <1>9, <1>10 DEF Provision

\* Every call of reconcileDelete keeps the types.
LEMMA DeleteType ==
    ASSUME TypeOK, Delete
    PROVE  TypeOK'
<1>0. obj \in Object /\ cur \in Clusters
  BY DEF TypeOK, Delete, DeleteGate, DeleteConnect, DeleteVirtualService, DeletePool,
         DeleteIPSet, DeleteVApp
<1>1. CASE DeleteGate
  <2>1. WorkerStep
    BY <1>0, <1>1, WorkerStepType DEF DeleteGate, Stages
  <2>2. QED
    BY <1>0, <1>1, <2>1, StepType DEF TypeOK, DeleteGate, WorkerOnly, vcdVars
<1>2. CASE DeleteConnect
  <2>1. WorkerStep
    BY <1>0, <1>2, WorkerStepType DEF DeleteConnect, Stages
  <2>2. QED
    BY <1>0, <1>2, <2>1, StepType DEF TypeOK, DeleteConnect, WorkerOnly, vcdVars
<1>3. CASE DeleteVirtualService
  <2>1. Without("VirtualService") \in [Clusters -> SUBSET Kinds]
    BY <1>0, ResType DEF Kinds
  <2>2. WorkerStep
    BY <1>0, <1>3, WorkerStepType DEF DeleteVirtualService, Stages
  <2>3. \/ UNCHANGED <<res, vip>>
        \/ res' = Without("VirtualService") /\ vip' = [vip EXCEPT ![cur] = NoAddress]
    BY <1>3 DEF DeleteVirtualService
  <2>4. /\ res' \in [Clusters -> SUBSET Kinds]
        /\ vip' \in [Clusters -> Addresses \cup {NoAddress}]
    BY <2>1, <2>3 DEF TypeOK
  <2>5. QED
    BY <1>0, <1>3, <2>2, <2>4, StepType DEF TypeOK, DeleteVirtualService
<1>4. CASE DeletePool
  <2>1. Without("Pool") \in [Clusters -> SUBSET Kinds]
    BY <1>0, ResType DEF Kinds
  <2>2. WorkerStep
    BY <1>0, <1>4, WorkerStepType DEF DeletePool, Stages
  <2>3. res' \in [Clusters -> SUBSET Kinds]
    BY <1>4, <2>1 DEF TypeOK, DeletePool
  <2>4. QED
    BY <1>0, <1>4, <2>2, <2>3, StepType DEF TypeOK, DeletePool
<1>5. CASE DeleteIPSet
  <2>1. Without("IPSet") \in [Clusters -> SUBSET Kinds]
    BY <1>0, ResType DEF Kinds
  <2>2. WorkerStep
    BY <1>0, <1>5, WorkerStepType DEF DeleteIPSet, Stages
  <2>3. res' \in [Clusters -> SUBSET Kinds]
    BY <1>5, <2>1 DEF TypeOK, DeleteIPSet
  <2>4. QED
    BY <1>0, <1>5, <2>2, <2>3, StepType DEF TypeOK, DeleteIPSet
<1>6. CASE DeleteVApp
  <2>1. Without("VApp") \in [Clusters -> SUBSET Kinds]
    BY <1>0, ResType DEF Kinds
  <2>2. [obj EXCEPT !.finalizer = FALSE] \in Object
    BY <1>0, SetFinalizerType
  <2>3. WorkerStep
    BY <1>0, <1>6, <2>2, WorkerStepType DEF DeleteVApp
  <2>4. /\ res' \in [Clusters -> SUBSET Kinds]
        /\ vAppSetup' \in [Clusters -> SUBSET {"network", "power"}]
    BY <1>0, <1>6, <2>1 DEF TypeOK, DeleteVApp
  <2>5. QED
    BY <1>0, <1>6, <2>3, <2>4, StepType DEF TypeOK, DeleteVApp
<1>7. QED
  BY <1>1, <1>2, <1>3, <1>4, <1>5, <1>6 DEF Delete

\* A patch of a well-formed object, sent or not, keeps the types.
LEMMA PatchType ==
    ASSUME TypeOK, cur \in Clusters, NEW changed, NEW patched \in Object,
           NEW p \in Stages \ {"idle"}, Patch(changed, patched, p)
    PROVE  TypeOK'
<1>1. tc' \in [Clusters -> Object] /\ requeue' \in BOOLEAN
  BY DEF Patch, TypeOK
<1>2. faults' \in 0..MaxFaults
  BY FaultType DEF Patch
<1>3. QED
  BY <1>1, <1>2, SentinelAssumption DEF Patch, TypeOK, vcdVars

\* The objects the three patches write.
LEMMA PatchedConds ==
    ASSUME NEW o \in Object, NEW cs \in [CondTypes -> {"Unset", "True", "False"}]
    PROVE  LET n == [o EXCEPT !.conds = cs] IN
           /\ n \in Object /\ n.phase = o.phase /\ n.finalizer = o.finalizer
           /\ n.refs = o.refs /\ n.ready = o.ready
BY DEF Object

\* The status patch writes references and Ready, and nothing else.
LEMMA PatchedStatus ==
    ASSUME NEW o \in Object, NEW r \in SUBSET Kinds, NEW d \in BOOLEAN
    PROVE  LET n == [o EXCEPT !.refs = r, !.ready = d] IN
           /\ n \in Object /\ n.phase = o.phase /\ n.finalizer = o.finalizer
           /\ n.refs = r /\ n.ready = d
BY DEF Object

\* Restart resets the worker and reads everything anew.
LEMMA RestartType ==
    ASSUME TypeOK, Restart, UNCHANGED faults, crashes' \in 0..MaxCrashes
    PROVE  TypeOK'
BY NewObjectType, SentinelAssumption DEF TypeOK, Restart, ResetWorker, Stages, vcdVars

\* The three patches of patchTenantCluster and the return keep the types.
LEMMA SaveType ==
    ASSUME TypeOK, Save
    PROVE  TypeOK'
<1>0. cur \in Clusters
  BY DEF TypeOK, Save, PatchConditions, PatchSpec, PatchStatus, Finish
<1>a. tc[cur] \in Object /\ obj \in Object /\ orig \in Object
  BY <1>0 DEF TypeOK
<1>1. CASE PatchConditions
  <2> DEFINE cs == [t \in CondTypes |-> IF obj.conds[t] # orig.conds[t]
                                       THEN obj.conds[t] ELSE tc[cur].conds[t]]
  <2>1. cs \in [CondTypes -> {"Unset", "True", "False"}]
    BY <1>a, ObjectFields
  <2>2. [tc[cur] EXCEPT !.conds = cs] \in Object
    BY <1>a, <2>1, PatchedConds
  <2>3. Patch(obj.conds # orig.conds, [tc[cur] EXCEPT !.conds = cs], "patchSpec")
    BY <1>1 DEF PatchConditions
  <2> HIDE DEF cs
  <2>4. QED
    BY <1>0, <2>2, <2>3, PatchType DEF Stages
<1>2. CASE PatchSpec
  <2> DEFINE f == IF obj.finalizer # orig.finalizer THEN obj.finalizer ELSE tc[cur].finalizer
             h == IF obj.host # orig.host THEN obj.host ELSE tc[cur].host
             q == IF tc[cur].phase = "deleting" /\ ~f THEN "gone" ELSE tc[cur].phase
             new == [tc[cur] EXCEPT !.finalizer = f, !.host = h, !.phase = q]
             changed == obj.finalizer # orig.finalizer \/ obj.host # orig.host
  <2>1. /\ f \in BOOLEAN /\ h \in Addresses \cup {NoAddress}
        /\ q \in {"absent", "live", "deleting", "gone"}
    BY <1>a, ObjectFields
  <2>2. Patch(changed, new, "patchStatus")
    BY <1>2 DEF PatchSpec
  <2> HIDE DEF f, h, q, changed
  <2>3. new \in Object
    BY <1>a, <2>1 DEF Object
  <2>4. QED
    BY <1>0, <2>2, <2>3, PatchType DEF Stages
<1>3. CASE PatchStatus
  <2> DEFINE r == tc[cur].refs \cup (obj.refs \ orig.refs)
             d == IF obj.ready # orig.ready THEN obj.ready ELSE tc[cur].ready
             new == [tc[cur] EXCEPT !.refs = r, !.ready = d]
             changed == obj.refs # orig.refs \/ obj.ready # orig.ready
  <2>1. r \in SUBSET Kinds /\ d \in BOOLEAN
    BY <1>a, ObjectFields
  <2>2. Patch(changed, new, "return")
    BY <1>3 DEF PatchStatus
  <2> HIDE DEF r, d, changed
  <2>3. new \in Object
    BY <1>a, <2>1, PatchedStatus
  <2>4. QED
    BY <1>0, <2>2, <2>3, PatchType DEF Stages
<1>4. CASE Finish
  BY <1>0, <1>4, NewObjectType, SentinelAssumption
     DEF Finish, TypeOK, ResetWorker, Stages, vcdVars
<1>5. QED
  BY <1>1, <1>2, <1>3, <1>4 DEF Save

\* So does the end of a process that panicked.
LEMMA DieType ==
    ASSUME TypeOK, Die
    PROVE  TypeOK'
BY RestartType DEF Die, TypeOK

\* A crash keeps the types.
LEMMA CrashType ==
    ASSUME TypeOK, Crash
    PROVE  TypeOK'
<1>1. crashes' \in 0..MaxCrashes
  BY BoundAssumption DEF TypeOK, Crash
<1>2. QED
  BY <1>1, RestartType DEF Crash

\* What users and Cluster API write to an object.
LEMMA EditedType ==
    ASSUME NEW o \in Object
    PROVE  /\ \A i \in BOOLEAN :
                 LET n == [o EXCEPT !.identityRef = i] IN
                 /\ n \in Object /\ n.phase = o.phase /\ n.finalizer = o.finalizer
                 /\ n.refs = o.refs /\ n.ready = o.ready
           /\ \A w \in {"none", "cluster", "controlPlane"} :
                 LET n == [o EXCEPT !.owner = w] IN
                 /\ n \in Object /\ n.phase = o.phase /\ n.finalizer = o.finalizer
                 /\ n.refs = o.refs /\ n.ready = o.ready
           /\ \A q \in {"absent", "live", "deleting", "gone"} :
                 LET n == [o EXCEPT !.phase = q] IN
                 /\ n \in Object /\ n.phase = q /\ n.finalizer = o.finalizer
                 /\ n.refs = o.refs /\ n.ready = o.ready
           /\ \A i \in BOOLEAN :
                 LET n == [o EXCEPT !.phase = "live", !.identityRef = i] IN
                 /\ n \in Object /\ n.phase = "live" /\ n.finalizer = o.finalizer
                 /\ n.refs = o.refs /\ n.ready = o.ready
BY DEF Object

\* Storing a well-formed object keeps the types.
LEMMA EditType ==
    ASSUME TypeOK, NEW c \in Clusters, NEW o \in Object, Edit(c, o)
    PROVE  TypeOK'
BY DEF TypeOK, Edit, Outside, workerVars, vcdVars

\* Informers, users, Cluster API and the machine controller keep the types.
LEMMA EnvironmentType ==
    ASSUME TypeOK, NEW c \in Clusters, Environment(c)
    PROVE  TypeOK'
<1>0. tc[c] \in Object
  BY DEF TypeOK
<1>1. CASE Deliver(c)
  BY <1>0, <1>1 DEF TypeOK, Deliver, Outside, workerVars, vcdVars
<1>2. CASE CreateCluster(c)
  BY <1>2, NewObjectType, EditedType, EditType DEF CreateCluster
<1>3. CASE SetIdentityRef(c)
  BY <1>0, <1>3, EditedType, EditType DEF SetIdentityRef
<1>4. CASE SetOwner(c)
  BY <1>0, <1>4, EditedType, EditType DEF SetOwner
<1>5. CASE DeleteCluster(c)
  BY <1>0, <1>5, EditedType, EditType DEF DeleteCluster
<1>6. CASE MachineStep(c)
  <2>0. PICK m \in Machines : AddMachine(c, m) \/ JoinIPSet(c, m)
                               \/ LeaveIPSet(c, m) \/ RemoveMachine(c, m)
    BY <1>6 DEF MachineStep
  <2>1. CASE AddMachine(c, m)
    BY <2>1 DEF TypeOK, AddMachine, Outside, apiVars, workerVars, vcdVars
  <2>2. CASE JoinIPSet(c, m)
    BY <2>2 DEF TypeOK, JoinIPSet, Outside, apiVars, workerVars
  <2>3. CASE LeaveIPSet(c, m)
    BY <2>3 DEF TypeOK, LeaveIPSet, Outside, apiVars, workerVars
  <2>4. CASE RemoveMachine(c, m)
    BY <2>4 DEF TypeOK, RemoveMachine, Outside, apiVars, workerVars, vcdVars
  <2>5. QED
    BY <2>0, <2>1, <2>2, <2>3, <2>4
<1>7. CASE ClusterEvent(c)
  BY <1>7 DEF TypeOK, ClusterEvent, Outside, workerVars, vcdVars
<1>8. QED
  BY <1>1, <1>2, <1>3, <1>4, <1>5, <1>6, <1>7 DEF Environment

\* The initial state is well typed.
LEMMA InitType == Init => TypeOK
<1> SUFFICES ASSUME Init PROVE TypeOK
  OBVIOUS
<1>1. tc \in [Clusters -> Object] /\ seen \in [Clusters -> Object]
  BY NewObjectType DEF Init
<1>2. /\ machines \in [Clusters -> SUBSET Machines]
      /\ res \in [Clusters -> SUBSET Kinds]
      /\ vip \in [Clusters -> Addresses \cup {NoAddress}]
      /\ ips \in [Clusters -> SUBSET Machines]
      /\ vAppSetup \in [Clusters -> SUBSET {"network", "power"}]
  BY DEF Init
<1>3. faults \in 0..MaxFaults /\ crashes \in 0..MaxCrashes
  BY BoundAssumption DEF Init
<1>4. QED
  BY <1>1, <1>2, <1>3, NewObjectType, SentinelAssumption DEF Init, TypeOK, Stages

\* Every step keeps the types.
LEMMA NextType == TypeOK /\ [Next]_vars => TypeOK'
<1> SUFFICES ASSUME TypeOK, [Next]_vars PROVE TypeOK'
  OBVIOUS
<1>1. CASE Worker
  BY <1>1, ReconcileType, ProvisionType, DeleteType, SaveType, DieType DEF Worker
<1>2. CASE Crash
  BY <1>2, CrashType
<1>3. CASE \E c \in Clusters : Environment(c)
  BY <1>3, EnvironmentType
<1>4. CASE UNCHANGED vars
  BY <1>4 DEF TypeOK, vars, apiVars, vcdVars, workerVars
<1>5. QED
  BY <1>1, <1>2, <1>3, <1>4 DEF Next

\* Every reachable state is well typed: no failed call, panic, crash or stale
\* read leaves the worker or an object in a malformed state.
THEOREM TypeCorrect == Spec => []TypeOK
BY InitType, NextType, PTL DEF Spec

----------------------------------------------------------------------------
(* The inductive invariant of the safety theorems.                         *)

ProvisionStages == {"connect", "endpoint", "ipSet", "pool", "virtualService", "vApp",
                    "vAppNetwork", "vAppPowerOn", "record"}
DeleteStages == {"deleteGate", "deleteConnect", "deleteVirtualService", "deletePool",
                 "deleteIPSet", "deleteVApp"}

Ended(c) == tc[c].phase \in {"deleting", "gone"}

\* References are recorded in the order vApp and virtual service, pool, IP set.
RefsChain(r) == /\ "IPSet" \in r => "Pool" \in r
                /\ "Pool" \in r => "VirtualService" \in r
                /\ "VApp" \in r => "VirtualService" \in r

\* The cache lags behind the API server, but never says of an object what was
\* not true of it before: a cached deletion has happened, cached references
\* are recorded, a cached live object with finalizer is not gone yet.
CacheLags(c) ==
    /\ tc[c].phase = "absent" => tc[c] = NewObject /\ seen[c] = NewObject
    /\ tc[c].phase = "deleting" => tc[c].finalizer
    /\ seen[c].phase = "deleting" => Ended(c)
    /\ seen[c].phase = "live" /\ seen[c].finalizer
          => tc[c].finalizer /\ tc[c].phase \in {"live", "deleting"}
    /\ seen[c].refs \subseteq tc[c].refs
    /\ RefsChain(tc[c].refs) /\ RefsChain(seen[c].refs)
    /\ tc[c].phase = "live" /\ (tc[c].ready \/ seen[c].ready) => res[c] = Kinds

CacheInv == \A c \in Clusters : CacheLags(c)

\* The same of the copy a reconcile works on. Provisioning works on a live
\* object that has its finalizer, deletion on one that stays deleted and whose
\* Machines are gone; the finalizer is only taken from a deleted object.
WorkerInv ==
    pc # "idle" =>
        /\ tc[cur].phase # "absent"
        /\ orig.refs \subseteq tc[cur].refs
        /\ RefsChain(obj.refs)
        /\ obj.ready /\ tc[cur].phase = "live" => res[cur] = Kinds
        /\ obj.phase = "deleting" => Ended(cur) /\ seen[cur].phase \in {"deleting", "gone"}
        /\ orig.finalizer /\ ~obj.finalizer => obj.phase = "deleting"
        /\ pc \in ProvisionStages => /\ obj.phase = "live" /\ obj.finalizer
                                     /\ tc[cur].finalizer
                                     /\ tc[cur].phase \in {"live", "deleting"}
        /\ pc \in DeleteStages => obj.phase = "deleting"
        /\ pc \in DeleteStages \ {"deleteGate"} => machines[cur] = {}

\* What the calls made so far by this reconcile have established: a pointer that
\* is not nil refers to a resource that exists, a recorded resource whose turn
\* to be deleted has passed is gone.
StageInv ==
    /\ pc \in {"pool", "virtualService", "vApp", "vAppNetwork", "vAppPowerOn", "record"}
          => "IPSet" \in nilRefs \/ "IPSet" \in res[cur]
    /\ pc \in {"virtualService", "vApp", "vAppNetwork", "vAppPowerOn", "record"}
          => "Pool" \in nilRefs \/ "Pool" \in res[cur]
    /\ pc \in {"vApp", "vAppNetwork", "vAppPowerOn", "record"} => "VirtualService" \in res[cur]
    /\ pc \in {"vAppNetwork", "vAppPowerOn", "record"} => "VApp" \in res[cur]
    /\ pc \in {"deletePool", "deleteIPSet", "deleteVApp"}
          => ~("VirtualService" \in obj.refs /\ "VirtualService" \in res[cur])
    /\ pc \in {"deleteIPSet", "deleteVApp"} => ~("Pool" \in obj.refs /\ "Pool" \in res[cur])

IInv == TypeOK /\ CacheInv /\ WorkerInv /\ StageInv /\ DependencyOrder

----------------------------------------------------------------------------
(* Provisioning preserves the invariant.                                   *)

\* What no step of provisioning does: touch the API server or the Machines,
\* remove a resource, change the phase or the finalizer, claim Ready too early.
ProvisionFrame ==
    /\ UNCHANGED <<tc, seen, machines, cur, orig>>
    /\ \A c \in Clusters : res[c] \subseteq res'[c]
    /\ pc' \in ProvisionStages \cup {"patchConditions"}
    /\ obj'.phase = obj.phase /\ obj'.finalizer = obj.finalizer
    /\ RefsChain(obj'.refs)
    /\ obj'.ready => obj.ready \/ res[cur] = Kinds

\* A step within the frame preserves what is said of the cache and the copy.
LEMMA ProvisionKeeps ==
    ASSUME IInv, TypeOK', pc \in ProvisionStages, ProvisionFrame
    PROVE  CacheInv' /\ WorkerInv'
<1>0. cur \in Clusters /\ pc # "idle"
  BY DEF IInv, TypeOK, ProvisionStages
<1>1. ASSUME NEW c \in Clusters, res[c] = Kinds
      PROVE  res'[c] = Kinds
  <2>1. res'[c] \subseteq Kinds
    BY DEF TypeOK
  <2>2. res[c] \subseteq res'[c]
    BY DEF ProvisionFrame
  <2>3. QED
    BY <1>1, <2>1, <2>2
<1>2. CacheInv'
  <2>1. ASSUME NEW c \in Clusters
        PROVE  CacheLags(c)'
    <3>1. CacheLags(c)
      BY DEF IInv, CacheInv
    <3>2. QED
      BY <1>1, <3>1 DEF CacheLags, ProvisionFrame, Ended
  <2>2. QED
    BY <2>1 DEF CacheInv
<1>3. WorkerInv'
  <2>1. obj'.ready /\ tc'[cur'].phase = "live" => res'[cur'] = Kinds
    BY <1>0, <1>1 DEF IInv, WorkerInv, ProvisionFrame
  <2>2. pc' \notin DeleteStages
    BY DEF ProvisionFrame, ProvisionStages, DeleteStages
  <2>3. QED
    BY <1>0, <2>1, <2>2 DEF IInv, WorkerInv, ProvisionFrame, Ended
<1>4. QED
  BY <1>2, <1>3

\* Every call of the provisioning chain preserves the invariant.
LEMMA ProvisionInv ==
    ASSUME IInv, Provision
    PROVE  IInv'
<1>0. TypeOK /\ TypeOK' /\ obj \in Object /\ cur \in Clusters /\ pc \in ProvisionStages
  BY ProvisionType
  DEF IInv, TypeOK, ProvisionStages, Provision, Connect, AllocateAddress, EndpointReady,
      EnsureIPSet, EnsurePool, EnsureVirtualService, EnsureVApp, AttachNetwork, PowerOnVApp, Record
<1>a. RefsChain(obj.refs)
  BY <1>0 DEF IInv, WorkerInv, ProvisionStages
<1>1. CASE Connect
  <2>1. ProvisionFrame
    BY <1>0, <1>a, <1>1, MarkFalseType
       DEF ProvisionFrame, Connect, WorkerOnly, Goto, Return, Panic, apiVars, vcdVars,
           ProvisionStages, CondTypes
  <2>2. StageInv' /\ DependencyOrder'
    BY <1>1 DEF IInv, StageInv, DependencyOrder, Connect, WorkerOnly, Goto, Return, Panic, vcdVars
  <2>3. QED
    BY <1>0, <2>1, <2>2, ProvisionKeeps DEF IInv
<1>2. CASE AllocateAddress
  <2>0. /\ obj'.phase = obj.phase /\ obj'.finalizer = obj.finalizer
        /\ obj'.refs = obj.refs /\ obj'.ready = obj.ready
    <3>1. ASSUME NEW a \in UnusedAddresses, Return([obj EXCEPT !.host = a], FALSE)
          PROVE  /\ obj'.phase = obj.phase /\ obj'.finalizer = obj.finalizer
                 /\ obj'.refs = obj.refs /\ obj'.ready = obj.ready
      BY <1>0, <3>1, SetHostType DEF UnusedAddresses, Return
    <3>2. CASE Return(MarkFalse(obj, "ExternalIPAddressReady"), TRUE)
      BY <1>0, <3>2, MarkFalseType DEF Return, CondTypes
    <3>3. QED
      BY <1>2, <3>1, <3>2 DEF AllocateAddress
  <2>1. ProvisionFrame
    BY <1>a, <1>2, <2>0
       DEF ProvisionFrame, AllocateAddress, WorkerOnly, Return, apiVars, vcdVars
  <2>2. StageInv' /\ DependencyOrder'
    BY <1>2 DEF IInv, StageInv, DependencyOrder, AllocateAddress, WorkerOnly, Return, vcdVars
  <2>3. QED
    BY <1>0, <2>1, <2>2, ProvisionKeeps DEF IInv
<1>3. CASE EndpointReady
  <2>1. ProvisionFrame
    BY <1>0, <1>a, <1>3, MarkTrueType
       DEF ProvisionFrame, EndpointReady, WorkerOnly, Return, apiVars, vcdVars, ProvisionStages
  <2>2. StageInv' /\ DependencyOrder'
    BY <1>3 DEF IInv, StageInv, DependencyOrder, EndpointReady, WorkerOnly, Return, vcdVars
  <2>3. QED
    BY <1>0, <2>1, <2>2, ProvisionKeeps DEF IInv
<1>4. CASE EnsureIPSet
  <2>1. ProvisionFrame
    BY <1>0, <1>a, <1>4
       DEF ProvisionFrame, EnsureIPSet, CreateFailed, LookupSwallowed, With, Goto, Return, apiVars,
           ProvisionStages, TypeOK
  <2>2. StageInv' /\ DependencyOrder'
    BY <1>0, <1>4 DEF IInv, StageInv, DependencyOrder, EnsureIPSet, CreateFailed, LookupSwallowed,
                      With, Has, Goto, Return, TypeOK
  <2>3. QED
    BY <1>0, <2>1, <2>2, ProvisionKeeps DEF IInv
<1>5. CASE EnsurePool
  <2>1. ProvisionFrame
    BY <1>0, <1>a, <1>5
       DEF ProvisionFrame, EnsurePool, CreateFailed, LookupSwallowed, With, Goto, Return, Panic,
           apiVars, ProvisionStages, TypeOK
  <2>2. StageInv' /\ DependencyOrder'
    BY <1>0, <1>5 DEF IInv, StageInv, DependencyOrder, EnsurePool, CreateFailed, LookupSwallowed,
                      With, Has, Goto, Return, Panic, TypeOK
  <2>3. QED
    BY <1>0, <2>1, <2>2, ProvisionKeeps DEF IInv
<1>6. CASE EnsureVirtualService
  <2>0. /\ UNCHANGED <<tc, seen, machines, cur, orig, nilRefs>>
        /\ (pc' = "vApp" /\ obj' = obj) \/ pc' = "patchConditions"
        /\ obj' \in {obj, MarkFalse(obj, "VirtualServiceReady")}
        /\ \/ res' = res /\ (pc' = "vApp" => Has("VirtualService"))
           \/ res' = With("VirtualService") /\ "Pool" \notin nilRefs
    BY <1>6 DEF EnsureVirtualService, ListenOn, Goto, Return, Panic, apiVars
  <2>1. ProvisionFrame
    BY <1>0, <1>a, <2>0, MarkFalseType
       DEF ProvisionFrame, With, ProvisionStages, CondTypes, TypeOK
  <2>2. StageInv' /\ DependencyOrder'
    BY <1>0, <1>6, <2>0 DEF IInv, StageInv, DependencyOrder, EnsureVirtualService, With, Has, TypeOK
  <2>3. QED
    BY <1>0, <2>1, <2>2, ProvisionKeeps DEF IInv
<1>7. CASE EnsureVApp
  <2>0. /\ UNCHANGED <<tc, seen, machines, cur, orig, nilRefs>>
        /\ (pc' \in {"record", "vAppNetwork"} /\ obj' = obj) \/ pc' = "patchConditions"
        /\ obj' \in {obj, MarkFalse(obj, "VAppReady")}
        /\ \/ res' = res /\ (pc' # "patchConditions" => Has("VApp"))
           \/ res' = With("VApp")
    BY <1>7 DEF EnsureVApp, CreateFailed, Goto, Return, apiVars
  <2>1. ProvisionFrame
    BY <1>0, <1>a, <2>0, MarkFalseType
       DEF ProvisionFrame, With, ProvisionStages, CondTypes, TypeOK
  <2>2. StageInv' /\ DependencyOrder'
    BY <1>0, <1>7, <2>0 DEF IInv, StageInv, DependencyOrder, EnsureVApp, With, Has, TypeOK
  <2>3. QED
    BY <1>0, <2>1, <2>2, ProvisionKeeps DEF IInv
<1>8. CASE AttachNetwork
  <2>1. ProvisionFrame
    BY <1>0, <1>a, <1>8
       DEF ProvisionFrame, AttachNetwork, Goto, Return, apiVars, ProvisionStages
  <2>2. StageInv' /\ DependencyOrder'
    BY <1>8 DEF IInv, StageInv, DependencyOrder, AttachNetwork, Goto, Return
  <2>3. QED
    BY <1>0, <2>1, <2>2, ProvisionKeeps DEF IInv
<1>9. CASE PowerOnVApp
  <2>1. ProvisionFrame
    BY <1>0, <1>a, <1>9
       DEF ProvisionFrame, PowerOnVApp, Goto, Return, apiVars, ProvisionStages
  <2>2. StageInv' /\ DependencyOrder'
    BY <1>9 DEF IInv, StageInv, DependencyOrder, PowerOnVApp, Goto, Return
  <2>3. QED
    BY <1>0, <2>1, <2>2, ProvisionKeeps DEF IInv
<1>10. CASE Record
  <2>1. PICK r \in SUBSET Kinds, t \in SUBSET CondTypes :
            LET o == [MarkTrue(obj, t) EXCEPT !.refs = @ \cup r] IN
            /\ "VirtualService" \in r /\ ("IPSet" \in r => "Pool" \in r)
            /\ \/ nilRefs = {} /\ Return([o EXCEPT !.ready = TRUE], FALSE)
               \/ Panic(o)
    BY <1>10, RecordShape
  <2> DEFINE o == [MarkTrue(obj, t) EXCEPT !.refs = @ \cup r]
  <2>2. /\ o \in Object /\ o.phase = obj.phase /\ o.finalizer = obj.finalizer
        /\ o.refs = obj.refs \cup r /\ o.ready = obj.ready
    BY <1>0, MarkTrueType, AddRefsType
  <2>3. RefsChain(o.refs)
    BY <1>a, <2>1, <2>2 DEF RefsChain
  <2>4. nilRefs = {} => res[cur] = Kinds
    BY <1>0, <1>10 DEF IInv, StageInv, Record, TypeOK, Kinds
  <2>5. UNCHANGED <<tc, seen, machines, cur, orig, res>> /\ pc' = "patchConditions"
    BY <1>10, <2>1 DEF Record, WorkerOnly, Return, Panic, apiVars, vcdVars
  <2>6. /\ obj'.phase = obj.phase /\ obj'.finalizer = obj.finalizer
        /\ RefsChain(obj'.refs) /\ (obj'.ready => obj.ready \/ res[cur] = Kinds)
    <3>1. CASE nilRefs = {} /\ obj' = [o EXCEPT !.ready = TRUE]
      <4> HIDE DEF o
      <4>1. QED
        BY <2>2, <2>3, <2>4, <3>1, SetReadyType
    <3>2. CASE obj' = o
      BY <2>2, <2>3, <3>2
    <3>3. QED
      BY <2>1, <3>1, <3>2 DEF Return, Panic
  <2>7. ProvisionFrame
    BY <2>5, <2>6 DEF ProvisionFrame
  <2>8. StageInv' /\ DependencyOrder'
    BY <2>5 DEF IInv, StageInv, DependencyOrder
  <2>9. QED
    BY <1>0, <2>7, <2>8, ProvisionKeeps DEF IInv
<1>11. QED
  BY <1>1, <1>2, <1>3, <1>4, <1>5, <1>6, <1>7, <1>8, <1>9, <1>10 DEF Provision

----------------------------------------------------------------------------
(* Deletion preserves the invariant.                                       *)

DeleteFrame ==
    /\ UNCHANGED <<tc, seen, machines, cur, orig>>
    /\ \A c \in Clusters \ {cur} : res'[c] = res[c]
    /\ pc' \in (DeleteStages \ {"deleteGate"}) \cup {"patchConditions"}
    /\ pc' # "patchConditions" => machines[cur] = {} /\ obj' = obj
    /\ obj' \in {obj, [obj EXCEPT !.finalizer = FALSE]}

\* A step within the frame preserves what is said of the cache and the copy.
LEMMA DeleteKeeps ==
    ASSUME IInv, TypeOK', pc \in DeleteStages, DeleteFrame
    PROVE  CacheInv' /\ WorkerInv'
<1>0. cur \in Clusters /\ pc # "idle" /\ obj \in Object
  BY DEF IInv, TypeOK, DeleteStages
<1>1. obj.phase = "deleting" /\ tc[cur].phase # "live"
  BY <1>0 DEF IInv, WorkerInv, Ended
<1>2. CacheInv'
  <2>1. ASSUME NEW c \in Clusters
        PROVE  CacheLags(c)'
    <3>1. CacheLags(c)
      BY DEF IInv, CacheInv
    <3>2. QED
      BY <1>0, <1>1, <3>1 DEF CacheLags, DeleteFrame, Ended
  <2>2. QED
    BY <2>1 DEF CacheInv
<1>3. WorkerInv'
  <2>1. obj'.phase = obj.phase /\ obj'.refs = obj.refs
    BY <1>0, SetFinalizerType DEF DeleteFrame
  <2>2. pc' \notin ProvisionStages
    BY DEF DeleteFrame, ProvisionStages, DeleteStages
  <2>3. pc' \in DeleteStages \ {"deleteGate"} => machines'[cur'] = {}
    BY DEF DeleteFrame, DeleteStages
  <2>4. QED
    BY <1>0, <1>1, <2>1, <2>2, <2>3 DEF IInv, WorkerInv, DeleteFrame, Ended
<1>4. QED
  BY <1>2, <1>3

\* Every call of reconcileDelete preserves the invariant; the order virtual
\* service, pool, IP set is what DependencyOrder needs.
LEMMA DeleteInv ==
    ASSUME IInv, Delete
    PROVE  IInv'
<1>0. TypeOK /\ TypeOK' /\ obj \in Object /\ cur \in Clusters /\ pc \in DeleteStages
  BY DeleteType
  DEF IInv, TypeOK, DeleteStages, Delete, DeleteGate, DeleteConnect, DeleteVirtualService,
      DeletePool, DeleteIPSet, DeleteVApp
<1>a. RefsChain(obj.refs) /\ (pc # "deleteGate" => machines[cur] = {})
  BY <1>0 DEF IInv, WorkerInv, DeleteStages
<1>1. CASE DeleteGate
  <2>1. DeleteFrame
    BY <1>1 DEF DeleteFrame, DeleteGate, WorkerOnly, Goto, Return, Panic, apiVars, vcdVars, DeleteStages
  <2>2. StageInv' /\ DependencyOrder'
    BY <1>1 DEF IInv, StageInv, DependencyOrder, DeleteGate, WorkerOnly, Goto, Return, Panic, vcdVars
  <2>3. QED
    BY <1>0, <2>1, <2>2, DeleteKeeps DEF IInv
<1>2. CASE DeleteConnect
  <2>1. DeleteFrame
    BY <1>a, <1>2
       DEF DeleteFrame, DeleteConnect, WorkerOnly, Goto, Return, Panic, apiVars, vcdVars, DeleteStages
  <2>2. StageInv' /\ DependencyOrder'
    BY <1>2 DEF IInv, StageInv, DependencyOrder, DeleteConnect, WorkerOnly, Goto, Return, Panic, vcdVars
  <2>3. QED
    BY <1>0, <2>1, <2>2, DeleteKeeps DEF IInv
<1>3. CASE DeleteVirtualService
  <2>0. /\ UNCHANGED <<tc, seen, machines, cur, orig, obj>>
        /\ pc' \in {"deletePool", "patchConditions"}
        /\ \/ res' = Without("VirtualService")
           \/ res' = res /\ (pc' = "deletePool" => ~Recorded("VirtualService"))
    BY <1>3 DEF DeleteVirtualService, Goto, Return, apiVars
  <2>1. DeleteFrame
    BY <1>0, <1>a, <1>3, <2>0 DEF DeleteFrame, DeleteVirtualService, DeleteStages, Without, TypeOK
  <2>2. StageInv' /\ DependencyOrder'
    BY <1>0, <2>0 DEF IInv, StageInv, DependencyOrder, Without, Recorded, Has, TypeOK
  <2>3. QED
    BY <1>0, <2>1, <2>2, DeleteKeeps DEF IInv
<1>4. CASE DeletePool
  <2>0. /\ UNCHANGED <<tc, seen, machines, cur, orig, obj>>
        /\ pc' \in {"deleteIPSet", "patchConditions"}
        /\ \/ res' = Without("Pool") /\ "Pool" \in obj.refs
           \/ res' = res /\ (pc' = "deleteIPSet" => ~Recorded("Pool"))
    BY <1>4 DEF DeletePool, Recorded, Goto, Return, apiVars
  <2>1. DeleteFrame
    BY <1>0, <1>a, <1>4, <2>0 DEF DeleteFrame, DeletePool, DeleteStages, Without, TypeOK
  <2>2. StageInv' /\ DependencyOrder'
    BY <1>0, <1>a, <1>4, <2>0
       DEF IInv, StageInv, DependencyOrder, DeletePool, RefsChain, Without, Recorded, Has, TypeOK
  <2>3. QED
    BY <1>0, <2>1, <2>2, DeleteKeeps DEF IInv
<1>5. CASE DeleteIPSet
  <2>0. /\ UNCHANGED <<tc, seen, machines, cur, orig, obj>>
        /\ pc' \in {"deleteVApp", "patchConditions"}
        /\ (res' = Without("IPSet") /\ "IPSet" \in obj.refs) \/ res' = res
    BY <1>5 DEF DeleteIPSet, Recorded, Goto, Return, apiVars
  <2>1. DeleteFrame
    BY <1>0, <1>a, <1>5, <2>0 DEF DeleteFrame, DeleteIPSet, DeleteStages, Without, TypeOK
  <2>2. StageInv' /\ DependencyOrder'
    BY <1>0, <1>a, <1>5, <2>0
       DEF IInv, StageInv, DependencyOrder, DeleteIPSet, RefsChain, Without, TypeOK
  <2>3. QED
    BY <1>0, <2>1, <2>2, DeleteKeeps DEF IInv
<1>6. CASE DeleteVApp
  <2>0. /\ UNCHANGED <<tc, seen, machines, cur, orig>>
        /\ obj' \in {obj, [obj EXCEPT !.finalizer = FALSE]}
        /\ pc' = "patchConditions"
        /\ res' = Without("VApp") \/ res' = res
    BY <1>6 DEF DeleteVApp, Return, apiVars
  <2>1. DeleteFrame
    BY <1>0, <2>0 DEF DeleteFrame, Without, TypeOK
  <2>2. StageInv' /\ DependencyOrder'
    BY <1>0, <2>0 DEF IInv, StageInv, DependencyOrder, Without, TypeOK
  <2>3. QED
    BY <1>0, <2>1, <2>2, DeleteKeeps DEF IInv
<1>7. QED
  BY <1>1, <1>2, <1>3, <1>4, <1>5, <1>6 DEF Delete

----------------------------------------------------------------------------
(* Reading an object and choosing a branch preserves the invariant.        *)

\* A reconcile starts from the cached object, with or without the finalizer added.
LEMMA StartKeeps ==
    ASSUME IInv, TypeOK', NEW c \in Clusters,
           UNCHANGED <<tc, seen, machines, res>>,
           cur' = c, orig' = seen[c], pc' # "idle",
           obj' \in {seen[c], [seen[c] EXCEPT !.finalizer = TRUE]},
           seen[c].phase \in {"live", "deleting"},
           \/ pc' = "patchConditions"
           \/ pc' = "connect" /\ obj' = seen[c] /\ seen[c].phase = "live" /\ seen[c].finalizer
           \/ pc' = "deleteGate" /\ obj' = seen[c] /\ seen[c].phase = "deleting"
    PROVE  IInv'
<1>0. seen[c] \in Object /\ tc[c].phase # "absent"
  BY NewObjectType DEF IInv, TypeOK, CacheInv, CacheLags
<1>1. /\ obj'.phase = seen[c].phase /\ obj'.refs = seen[c].refs /\ obj'.ready = seen[c].ready
      /\ obj'.finalizer = seen[c].finalizer \/ obj'.finalizer
  BY <1>0, SetFinalizerType
<1>2. CacheInv'
  BY DEF IInv, CacheInv, CacheLags, Ended
<1>3. WorkerInv'
  <2>1. CacheLags(c)
    BY DEF IInv, CacheInv
  <2>2. QED
    BY <1>0, <1>1, <2>1 DEF CacheLags, WorkerInv, Ended, ProvisionStages, DeleteStages
<1>4. StageInv' /\ DependencyOrder'
  BY DEF IInv, StageInv, DependencyOrder
<1>5. QED
  BY <1>2, <1>3, <1>4 DEF IInv

\* Taking a key preserves the invariant, from however stale a cache.
LEMMA ReconcileInv ==
    ASSUME IInv, NEW c \in Clusters, Reconcile(c)
    PROVE  IInv'
<1>0. TypeOK'
  BY ReconcileType DEF IInv
<1>1. CASE ReconcileNotFound(c)
  <2>1. UNCHANGED <<tc, seen, machines, res, workerVars>>
    BY <1>1 DEF ReconcileNotFound, Take, vcdVars
  <2>2. QED
    BY <1>0, <2>1
       DEF IInv, CacheInv, CacheLags, WorkerInv, StageInv, DependencyOrder, Ended, workerVars
<1>2. CASE ReconcileOwnerError(c)
  BY <1>0, <1>2, StartKeeps DEF ReconcileOwnerError, Take, ReturnAtOnce, vcdVars
<1>3. CASE ReconcileDeleted(c)
  BY <1>0, <1>3, StartKeeps DEF ReconcileDeleted, Take, Proceed, vcdVars
<1>4. CASE AddFinalizer(c)
  BY <1>0, <1>4, StartKeeps DEF AddFinalizer, Take, ReturnAtOnce, vcdVars
<1>5. CASE ReconcileNoIdentity(c)
  BY <1>0, <1>5, StartKeeps DEF ReconcileNoIdentity, Take, ReturnAtOnce, vcdVars
<1>6. CASE ReconcileLive(c)
  BY <1>0, <1>6, StartKeeps DEF ReconcileLive, Take, Proceed, vcdVars
<1>7. QED
  BY <1>1, <1>2, <1>3, <1>4, <1>5, <1>6 DEF Reconcile

----------------------------------------------------------------------------
(* Writing the object back preserves the invariant.                        *)

\* Nothing but the worker's own variables changed, and it is at no stage that
\* StageInv speaks of.
LEMMA RestartInv ==
    ASSUME IInv, TypeOK', Restart
    PROVE  IInv'
<1>1. CacheInv'
  BY DEF IInv, CacheInv, CacheLags, Restart, vcdVars, Ended
<1>2. WorkerInv' /\ StageInv'
  BY DEF WorkerInv, StageInv, Restart, ResetWorker
<1>3. DependencyOrder'
  BY DEF IInv, DependencyOrder, Restart, vcdVars
<1>4. QED
  BY <1>1, <1>2, <1>3 DEF IInv

\* A patch that is sent leaves of the current object what the invariant needs.
PatchKeepsObject(new) ==
    /\ new.phase # "absent"
    /\ new.phase = "live" => tc[cur].phase = "live"
    /\ Ended(cur) => new.phase \in {"deleting", "gone"}
    /\ new.phase = "deleting" => new.finalizer
    /\ seen[cur].phase = "live" /\ seen[cur].finalizer
          => new.finalizer /\ new.phase \in {"live", "deleting"}
    /\ tc[cur].refs \subseteq new.refs /\ RefsChain(new.refs)
    /\ new.ready => tc[cur].ready \/ obj.ready

\* A patch that keeps so much of the stored object preserves the invariant.
LEMMA PatchInv ==
    ASSUME IInv, TypeOK', cur \in Clusters, NEW changed, NEW new,
           NEW p \in {"patchSpec", "patchStatus", "return"},
           Patch(changed, new, p),
           changed /\ Exists(cur) => PatchKeepsObject(new)
    PROVE  IInv'
<1>0. pc # "idle" /\ pc' = p /\ UNCHANGED <<seen, machines, res, cur, obj, orig, nilRefs>>
  BY SentinelAssumption DEF IInv, TypeOK, Patch, vcdVars
<1>1. StageInv' /\ DependencyOrder'
  BY <1>0 DEF IInv, StageInv, DependencyOrder
<1>2. CASE tc' = tc
  <2>1. CacheInv'
    BY <1>0, <1>2 DEF IInv, CacheInv, CacheLags, Ended
  <2>2. WorkerInv'
    BY <1>0, <1>2 DEF IInv, WorkerInv, Ended, ProvisionStages, DeleteStages
  <2>3. QED
    BY <1>1, <2>1, <2>2 DEF IInv
<1>3. CASE tc' = [tc EXCEPT ![cur] = new] /\ PatchKeepsObject(new)
  <2>1. tc'[cur] = new /\ \A c \in Clusters \ {cur} : tc'[c] = tc[c]
    BY <1>3 DEF IInv, TypeOK
  <2>2. CacheInv'
    <3>1. \A c \in Clusters \ {cur} : CacheLags(c)'
      BY <1>0, <2>1 DEF IInv, CacheInv, CacheLags, Ended
    <3>2. CacheLags(cur)'
      BY <1>0, <1>3, <2>1 DEF IInv, CacheInv, CacheLags, WorkerInv, PatchKeepsObject, Ended
    <3>3. QED
      BY <3>1, <3>2, <1>0 DEF CacheInv
  <2>3. WorkerInv'
    BY <1>0, <1>3, <2>1 DEF IInv, WorkerInv, PatchKeepsObject, Ended, ProvisionStages, DeleteStages
  <2>4. QED
    BY <1>1, <2>2, <2>3 DEF IInv
<1>4. QED
  BY <1>2, <1>3 DEF Patch

\* Each patch of patchTenantCluster keeps so much; the return resets the worker.
LEMMA SaveInv ==
    ASSUME IInv, Save
    PROVE  IInv'
<1>0. TypeOK' /\ cur \in Clusters /\ pc # "idle"
  BY SaveType DEF IInv, TypeOK, Save, PatchConditions, PatchSpec, PatchStatus, Finish
<1>a. tc[cur] \in Object /\ obj \in Object /\ orig \in Object
  BY <1>0 DEF IInv, TypeOK
<1>b. CacheLags(cur)
  BY <1>0 DEF IInv, CacheInv
<1>1. CASE PatchConditions
  <2> DEFINE cs == [t \in CondTypes |-> IF obj.conds[t] # orig.conds[t]
                                       THEN obj.conds[t] ELSE tc[cur].conds[t]]
             new == [tc[cur] EXCEPT !.conds = cs]
  <2>1. cs \in [CondTypes -> {"Unset", "True", "False"}]
    BY <1>a, ObjectFields
  <2>2. Patch(obj.conds # orig.conds, new, "patchSpec")
    BY <1>1 DEF PatchConditions
  <2> HIDE DEF cs
  <2>3. /\ new \in Object /\ new.phase = tc[cur].phase /\ new.finalizer = tc[cur].finalizer
        /\ new.refs = tc[cur].refs /\ new.ready = tc[cur].ready
    BY <1>a, <2>1, PatchedConds
  <2> HIDE DEF new
  <2>4. Exists(cur) => PatchKeepsObject(new)
    BY <1>b, <2>3 DEF PatchKeepsObject, CacheLags, Exists, Ended
  <2>5. QED
    BY <1>0, <2>2, <2>4, PatchInv
<1>2. CASE PatchSpec
  <2> DEFINE f == IF obj.finalizer # orig.finalizer THEN obj.finalizer ELSE tc[cur].finalizer
             h == IF obj.host # orig.host THEN obj.host ELSE tc[cur].host
             q == IF tc[cur].phase = "deleting" /\ ~f THEN "gone" ELSE tc[cur].phase
             new == [tc[cur] EXCEPT !.finalizer = f, !.host = h, !.phase = q]
             changed == obj.finalizer # orig.finalizer \/ obj.host # orig.host
  <2>1. /\ f \in BOOLEAN /\ h \in Addresses \cup {NoAddress}
        /\ q \in {"absent", "live", "deleting", "gone"}
    BY <1>a, ObjectFields
  <2>2. Patch(changed, new, "patchStatus")
    BY <1>2 DEF PatchSpec
  <2>3. ~f => \/ ~tc[cur].finalizer
              \/ Ended(cur) /\ seen[cur].phase \in {"deleting", "gone"}
    BY <1>0, <1>a, ObjectFields DEF IInv, WorkerInv
  <2>4. /\ q = "live" <=> tc[cur].phase = "live"
        /\ q = "deleting" => f
        /\ q = "gone" <=> tc[cur].phase = "gone" \/ (tc[cur].phase = "deleting" /\ ~f)
        /\ q = "absent" <=> tc[cur].phase = "absent"
    BY <1>a, ObjectFields
  <2> HIDE DEF f, h, q, changed
  <2>5. /\ new \in Object /\ new.phase = q /\ new.finalizer = f
        /\ new.refs = tc[cur].refs /\ new.ready = tc[cur].ready
    BY <1>a, <2>1 DEF Object
  <2> HIDE DEF new
  <2>6. Exists(cur) => PatchKeepsObject(new)
    BY <1>b, <2>1, <2>3, <2>4, <2>5 DEF PatchKeepsObject, CacheLags, Exists, Ended
  <2>7. QED
    BY <1>0, <2>2, <2>6, PatchInv
<1>3. CASE PatchStatus
  <2> DEFINE r == tc[cur].refs \cup (obj.refs \ orig.refs)
             d == IF obj.ready # orig.ready THEN obj.ready ELSE tc[cur].ready
             new == [tc[cur] EXCEPT !.refs = r, !.ready = d]
             changed == obj.refs # orig.refs \/ obj.ready # orig.ready
  <2>1. r \in SUBSET Kinds /\ d \in BOOLEAN /\ (d => tc[cur].ready \/ obj.ready)
    BY <1>a, ObjectFields
  <2>2. Patch(changed, new, "return")
    BY <1>3 DEF PatchStatus
  <2>3. tc[cur].refs \subseteq r /\ RefsChain(r)
    BY <1>0, <1>b DEF IInv, WorkerInv, CacheLags, RefsChain
  <2> HIDE DEF r, d, changed
  <2>4. /\ new \in Object /\ new.phase = tc[cur].phase /\ new.finalizer = tc[cur].finalizer
        /\ new.refs = r /\ new.ready = d
    BY <1>a, <2>1 DEF Object
  <2> HIDE DEF new
  <2>5. Exists(cur) => PatchKeepsObject(new)
    BY <1>b, <2>1, <2>3, <2>4 DEF PatchKeepsObject, CacheLags, Exists, Ended
  <2>6. QED
    BY <1>0, <2>2, <2>5, PatchInv
<1>4. CASE Finish
  <2>1. CacheInv' /\ DependencyOrder'
    BY <1>4 DEF Finish, IInv, CacheInv, CacheLags, DependencyOrder, Ended, vcdVars
  <2>2. WorkerInv' /\ StageInv'
    BY <1>4 DEF Finish, WorkerInv, StageInv, ResetWorker
  <2>3. QED
    BY <1>0, <2>1, <2>2 DEF IInv
<1>5. QED
  BY <1>1, <1>2, <1>3, <1>4 DEF Save

\* So does the end of a process that panicked.
LEMMA DieInv ==
    ASSUME IInv, Die
    PROVE  IInv'
BY DieType, RestartInv DEF IInv, Die

\* A crash preserves the invariant.
LEMMA CrashInv ==
    ASSUME IInv, Crash
    PROVE  IInv'
BY CrashType, RestartInv DEF IInv, Crash

----------------------------------------------------------------------------
(* The environment preserves the invariant.                                *)

\* An edit that keeps what the controller has written, and follows the order
\* live, deleting, gone.
LEMMA EditInv ==
    ASSUME IInv, TypeOK', NEW c \in Clusters, NEW o \in Object, Edit(c, o),
           tc[c].phase # "absent",
           o.refs = tc[c].refs, o.ready = tc[c].ready, o.finalizer = tc[c].finalizer,
           \/ o.phase = tc[c].phase
           \/ tc[c].phase = "live" /\ o.phase = IF tc[c].finalizer THEN "deleting" ELSE "gone"
    PROVE  IInv'
<1>0. /\ UNCHANGED <<seen, machines, res, workerVars>>
      /\ tc'[c] = o /\ \A d \in Clusters \ {c} : tc'[d] = tc[d]
  BY DEF IInv, TypeOK, Edit, Outside, vcdVars
<1>1. CacheInv'
  <2>1. CacheLags(c)'
    BY <1>0 DEF IInv, CacheInv, CacheLags, Ended
  <2>2. \A d \in Clusters \ {c} : CacheLags(d)'
    BY <1>0 DEF IInv, CacheInv, CacheLags, Ended
  <2>3. QED
    BY <2>1, <2>2 DEF CacheInv
<1>2. WorkerInv'
  <2>1. CASE pc # "idle" /\ cur = c
    BY <1>0, <2>1 DEF IInv, WorkerInv, Ended, workerVars
  <2>2. CASE pc # "idle" /\ cur # c
    BY <1>0, <2>2 DEF IInv, TypeOK, WorkerInv, Ended, workerVars
  <2>3. CASE pc = "idle"
    BY <1>0, <2>3 DEF WorkerInv, workerVars
  <2>4. QED
    BY <2>1, <2>2, <2>3
<1>3. StageInv' /\ DependencyOrder'
  BY <1>0 DEF IInv, StageInv, DependencyOrder, workerVars
<1>4. QED
  BY <1>1, <1>2, <1>3 DEF IInv

\* Informers, users, Cluster API and the machine controller preserve it.
LEMMA EnvironmentInv ==
    ASSUME IInv, NEW c \in Clusters, Environment(c)
    PROVE  IInv'
<1>0. TypeOK' /\ tc[c] \in Object
  BY EnvironmentType DEF IInv, TypeOK
<1>1. CASE Deliver(c)
  <2>0. /\ UNCHANGED <<tc, machines, res, workerVars>>
        /\ seen'[c] = tc[c] /\ \A d \in Clusters \ {c} : seen'[d] = seen[d]
    BY <1>1 DEF IInv, TypeOK, Deliver, Outside, vcdVars
  <2>1. CacheInv'
    <3>1. CacheLags(c)'
      BY <2>0 DEF IInv, CacheInv, CacheLags, Ended
    <3>2. \A d \in Clusters \ {c} : CacheLags(d)'
      BY <2>0 DEF IInv, CacheInv, CacheLags, Ended
    <3>3. QED
      BY <3>1, <3>2 DEF CacheInv
  <2>2. WorkerInv'
    BY <2>0 DEF IInv, TypeOK, WorkerInv, Ended, workerVars
  <2>3. StageInv' /\ DependencyOrder'
    BY <2>0 DEF IInv, StageInv, DependencyOrder, workerVars
  <2>4. QED
    BY <1>0, <2>1, <2>2, <2>3 DEF IInv
<1>2. CASE CreateCluster(c)
  <2>0. PICK i \in BOOLEAN : Edit(c, [NewObject EXCEPT !.phase = "live", !.identityRef = i])
    BY <1>2 DEF CreateCluster
  <2> DEFINE o == [NewObject EXCEPT !.phase = "live", !.identityRef = i]
  <2>1. o \in Object /\ o.phase = "live" /\ ~o.finalizer /\ o.refs = {} /\ ~o.ready
    BY <2>0 DEF NewObject, Object
  <2>2. /\ UNCHANGED <<seen, machines, res, workerVars>>
        /\ tc'[c] = o /\ \A d \in Clusters \ {c} : tc'[d] = tc[d]
    BY <2>0 DEF IInv, TypeOK, Edit, Outside, vcdVars
  <2>3. seen[c] = NewObject /\ (pc # "idle" => cur # c)
    BY <1>2 DEF IInv, CacheInv, CacheLags, WorkerInv, CreateCluster
  <2> HIDE DEF o
  <2>4. CacheInv'
    <3>1. CacheLags(c)'
      BY <2>1, <2>2, <2>3, NewObjectType DEF CacheLags, Ended, RefsChain
    <3>2. \A d \in Clusters \ {c} : CacheLags(d)'
      BY <2>2 DEF IInv, CacheInv, CacheLags, Ended
    <3>3. QED
      BY <3>1, <3>2 DEF CacheInv
  <2>5. WorkerInv'
    BY <2>2, <2>3 DEF IInv, TypeOK, WorkerInv, Ended, workerVars
  <2>6. StageInv' /\ DependencyOrder'
    BY <2>2 DEF IInv, StageInv, DependencyOrder, workerVars
  <2>7. QED
    BY <1>0, <2>4, <2>5, <2>6 DEF IInv
<1>3. CASE SetIdentityRef(c)
  <2>1. LET o == [tc[c] EXCEPT !.identityRef = TRUE] IN
        /\ o \in Object /\ o.phase = tc[c].phase /\ o.finalizer = tc[c].finalizer
        /\ o.refs = tc[c].refs /\ o.ready = tc[c].ready
    BY <1>0, EditedType
  <2>2. QED
    BY <1>0, <1>3, <2>1, EditInv DEF SetIdentityRef, Exists
<1>4. CASE SetOwner(c)
  <2>0. PICK w \in {"cluster", "controlPlane"} : Edit(c, [tc[c] EXCEPT !.owner = w])
    BY <1>4 DEF SetOwner
  <2>1. LET o == [tc[c] EXCEPT !.owner = w] IN
        /\ o \in Object /\ o.phase = tc[c].phase /\ o.finalizer = tc[c].finalizer
        /\ o.refs = tc[c].refs /\ o.ready = tc[c].ready
    BY <1>0, <2>0 DEF Object
  <2>2. QED
    BY <1>0, <1>4, <2>0, <2>1, EditInv DEF SetOwner, Exists
<1>5. CASE DeleteCluster(c)
  <2> DEFINE q == IF tc[c].finalizer THEN "deleting" ELSE "gone"
             o == [tc[c] EXCEPT !.phase = q]
  <2>0. q \in {"absent", "live", "deleting", "gone"}
    OBVIOUS
  <2>1. /\ o \in Object /\ o.phase = q /\ o.finalizer = tc[c].finalizer
        /\ o.refs = tc[c].refs /\ o.ready = tc[c].ready
    BY <1>0, <2>0, EditedType
  <2>2. Edit(c, o) /\ tc[c].phase = "live"
    BY <1>5 DEF DeleteCluster
  <2> HIDE DEF o
  <2>3. QED
    BY <1>0, <2>1, <2>2, EditInv
<1>6. CASE MachineStep(c)
  <2>0. PICK m \in Machines : AddMachine(c, m) \/ JoinIPSet(c, m)
                               \/ LeaveIPSet(c, m) \/ RemoveMachine(c, m)
    BY <1>6 DEF MachineStep
  <2>1. /\ UNCHANGED <<tc, seen, res, workerVars>>
        /\ \A d \in Clusters : machines'[d] \subseteq machines[d] \/ tc[d].phase = "live"
    BY <2>0 DEF IInv, TypeOK, AddMachine, JoinIPSet, LeaveIPSet, RemoveMachine, Outside,
                apiVars, vcdVars
  <2>2. CacheInv' /\ StageInv' /\ DependencyOrder'
    BY <2>1 DEF IInv, CacheInv, CacheLags, StageInv, DependencyOrder, Ended, workerVars
  <2>3. WorkerInv'
    <3>1. pc \in DeleteStages \ {"deleteGate"} => machines'[cur] = {}
      BY <2>1 DEF IInv, TypeOK, WorkerInv, DeleteStages, Ended
    <3>2. QED
      BY <2>1, <3>1 DEF IInv, WorkerInv, Ended, workerVars
  <2>4. QED
    BY <1>0, <2>2, <2>3 DEF IInv
<1>7. CASE ClusterEvent(c)
  <2>1. UNCHANGED <<tc, seen, machines, res, workerVars>>
    BY <1>7 DEF ClusterEvent, Outside, vcdVars
  <2>2. CacheInv' /\ WorkerInv' /\ StageInv' /\ DependencyOrder'
    BY <2>1 DEF IInv, CacheInv, CacheLags, WorkerInv, StageInv, DependencyOrder, Ended, workerVars
  <2>3. QED
    BY <1>0, <2>2 DEF IInv
<1>8. QED
  BY <1>1, <1>2, <1>3, <1>4, <1>5, <1>6, <1>7 DEF Environment

----------------------------------------------------------------------------
(* The theorems.                                                           *)

\* The invariant holds initially.
LEMMA InitInv == Init => IInv
<1> SUFFICES ASSUME Init PROVE IInv
  OBVIOUS
<1>1. TypeOK
  BY InitType
<1>2. CacheInv
  BY NewObjectType DEF Init, CacheInv, CacheLags, RefsChain, Ended
<1>3. WorkerInv /\ StageInv /\ DependencyOrder
  BY DEF Init, WorkerInv, StageInv, DependencyOrder
<1>4. QED
  BY <1>1, <1>2, <1>3 DEF IInv

\* Every step preserves the invariant.
LEMMA NextInv == IInv /\ [Next]_vars => IInv'
<1> SUFFICES ASSUME IInv, [Next]_vars PROVE IInv'
  OBVIOUS
<1>1. CASE Worker
  BY <1>1, ReconcileInv, ProvisionInv, DeleteInv, SaveInv, DieInv DEF Worker
<1>2. CASE Crash
  BY <1>2, CrashInv
<1>3. CASE \E c \in Clusters : Environment(c)
  BY <1>3, EnvironmentInv
<1>4. CASE UNCHANGED vars
  BY <1>4 DEF IInv, TypeOK, CacheInv, CacheLags, WorkerInv, StageInv, DependencyOrder, Ended,
              vars, apiVars, vcdVars, workerVars
<1>5. QED
  BY <1>1, <1>2, <1>3, <1>4 DEF Next

\* The invariant holds of every behaviour of the cluster controller.
THEOREM Invariance == Spec => []IInv
BY InitInv, NextInv, PTL DEF Spec

\* A virtual service never exists without its pool, nor a pool without its IP
\* set, whatever lookups fail and are swallowed, whenever the process dies, and
\* however old the object that reconcileDelete works on is.
THEOREM DependencyOrderHolds == Spec => []DependencyOrder
<1>1. IInv => DependencyOrder
  BY DEF IInv
<1>2. QED
  BY <1>1, Invariance, PTL

\* A live cluster that reports Status.Ready has all of its VCD resources.
THEOREM ReadyHasResourcesHolds == Spec => []ReadyHasResources
<1>1. IInv => ReadyHasResources
  BY DEF IInv, CacheInv, CacheLags, ReadyHasResources
<1>2. QED
  BY <1>1, Invariance, PTL

\* Provisioning only adds, and only for an object that is not gone.
LEMMA ProvisionGrows ==
    ASSUME IInv, Provision, NEW c \in Clusters
    PROVE  res[c] \subseteq res'[c] /\ (tc[c].phase = "gone" => res'[c] = res[c])
<1>0. cur \in Clusters /\ pc # "idle" /\ pc \in ProvisionStages
  BY DEF IInv, TypeOK, ProvisionStages, Provision, Connect, AllocateAddress, EndpointReady,
         EnsureIPSet, EnsurePool, EnsureVirtualService, EnsureVApp, AttachNetwork, PowerOnVApp, Record
<1>1. res' = res \/ \E k \in Kinds : res' = With(k)
  BY DEF Provision, Connect, AllocateAddress, EndpointReady, EnsureIPSet, EnsurePool,
         EnsureVirtualService, EnsureVApp, AttachNetwork, PowerOnVApp, Record, WorkerOnly, vcdVars,
         CreateFailed, LookupSwallowed, ListenOn, Kinds
<1>2. tc[cur].phase # "gone"
  BY <1>0 DEF IInv, WorkerInv
<1>3. QED
  BY <1>0, <1>1, <1>2 DEF IInv, TypeOK, With

\* Deletion only removes, and only once the Machines are gone.
LEMMA DeleteShrinks ==
    ASSUME IInv, Delete, NEW c \in Clusters
    PROVE  res'[c] \subseteq res[c] /\ (machines[c] # {} => res'[c] = res[c])
<1>0. cur \in Clusters /\ pc # "idle" /\ pc \in DeleteStages
  BY DEF IInv, TypeOK, DeleteStages, Delete, DeleteGate, DeleteConnect, DeleteVirtualService,
         DeletePool, DeleteIPSet, DeleteVApp
<1>1. res' = res \/ (pc # "deleteGate" /\ \E k \in Kinds : res' = Without(k))
  BY DEF Delete, DeleteGate, DeleteConnect, DeleteVirtualService, DeletePool, DeleteIPSet,
         DeleteVApp, WorkerOnly, vcdVars, Kinds
<1>2. pc # "deleteGate" => machines[cur] = {}
  BY <1>0 DEF IInv, WorkerInv
<1>3. QED
  BY <1>0, <1>1, <1>2 DEF IInv, TypeOK, Without

\* Which steps change the resources of a cluster, and when.
LEMMA ResourceSteps ==
    ASSUME IInv, [Next]_vars, NEW c \in Clusters
    PROVE  /\ tc[c].phase = "gone" => res'[c] \subseteq res[c]
           /\ ~(res[c] \subseteq res'[c]) => machines[c] = {}
<1>1. CASE Provision
  BY <1>1, ProvisionGrows
<1>2. CASE Delete
  BY <1>2, DeleteShrinks
<1>3. CASE UNCHANGED res
  BY <1>3
<1>4. CASE \E d \in Clusters : Reconcile(d)
  BY <1>4 DEF Reconcile, ReconcileNotFound, ReconcileOwnerError, ReconcileDeleted, AddFinalizer,
              ReconcileNoIdentity, ReconcileLive, Take, vcdVars
<1>5. CASE Save \/ Die
  BY <1>5 DEF Save, Die, PatchConditions, PatchSpec, PatchStatus, Patch, Finish, Restart, vcdVars
<1>6. CASE Crash
  BY <1>6 DEF Crash, Restart, vcdVars
<1>7. CASE \E d \in Clusters : Environment(d)
  BY <1>7 DEF Environment, Deliver, ClusterEvent, CreateCluster, SetIdentityRef, SetOwner, DeleteCluster, Edit,
              MachineStep, AddMachine, JoinIPSet, LeaveIPSet, RemoveMachine, vcdVars
<1>8. QED
  BY <1>1, <1>2, <1>3, <1>4, <1>5, <1>6, <1>7 DEF Next, Worker, vars, vcdVars

\* Nothing is created in VCD for an object that is gone: a reconcile that still
\* finds the object in a stale cache finds it deleted, or live with a finalizer
\* that the stored object then still has too.
THEOREM NoResurrectionHolds == Spec => NoResurrection
<1>1. IInv /\ [Next]_vars => [\A c \in Clusters : tc[c].phase = "gone" => res'[c] \subseteq res[c]]_vars
  BY ResourceSteps
<1>2. QED
  BY <1>1, Invariance, PTL DEF Spec, NoResurrection

\* No resource is removed while a Machine of the cluster is left, although
\* reconcileDelete checks that only once, several calls earlier.
THEOREM TeardownAfterMachinesHolds == Spec => TeardownAfterMachines
<1>1. IInv /\ [Next]_vars => [\A c \in Clusters : ~(res[c] \subseteq res'[c]) => machines[c] = {}]_vars
  BY ResourceSteps
<1>2. QED
  BY <1>1, Invariance, PTL DEF Spec, TeardownAfterMachines

=============================================================================
