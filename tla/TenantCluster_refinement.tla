---------------------- MODULE TenantCluster_refinement ----------------------
(***************************************************************************)
(* TenantCluster implements ClusterLifecycle, for every set of clusters,   *)
(* machines and addresses, every bound on failures and crashes, and fresh  *)
(* or stale reads.                                                         *)
(***************************************************************************)
EXTENDS TenantCluster_proofs

----------------------------------------------------------------------------
(* What the refinement needs beyond the invariant of the safety theorems.  *)

\* An object without a stored finalizer owns nothing in VCD; and of a reconcile
\* that is about to write: it takes the finalizer away only when no Machine is
\* left, never takes Ready back, and sets Ready only with all resources there.
OwnershipInv ==
    /\ \A c \in Clusters :
          ~tc[c].finalizer /\ tc[c].phase \in {"absent", "live"} => res[c] = {}
    /\ pc # "idle" =>
          /\ orig.finalizer /\ ~obj.finalizer => machines[cur] = {}
          /\ orig.ready => obj.ready
          /\ obj.ready /\ ~orig.ready => res[cur] = Kinds /\ pc \notin DeleteStages

LInv == IInv /\ OwnershipInv

\* The invariant holds initially.
LEMMA InitOwnership == Init => OwnershipInv
BY DEF Init, OwnershipInv

\* Taking a key: the worker's copies are equal but for a finalizer it adds.
LEMMA ReconcileOwnership ==
    ASSUME LInv, NEW c \in Clusters, Reconcile(c)
    PROVE  OwnershipInv'
<1>0. seen[c] \in Object /\ UNCHANGED <<tc, res, machines>>
  BY DEF LInv, IInv, TypeOK, Reconcile, ReconcileNotFound, ReconcileOwnerError, ReconcileDeleted,
         AddFinalizer, ReconcileNoIdentity, ReconcileLive, Take, vcdVars
<1>1. CASE ReconcileNotFound(c)
  BY <1>0, <1>1 DEF LInv, OwnershipInv, ReconcileNotFound, workerVars
<1>2. ASSUME obj'.ready = orig'.ready, orig'.finalizer => obj'.finalizer
      PROVE  OwnershipInv'
  BY <1>0, <1>2 DEF LInv, OwnershipInv
<1>3. CASE ReconcileOwnerError(c) \/ ReconcileNoIdentity(c)
  BY <1>2, <1>3 DEF ReconcileOwnerError, ReconcileNoIdentity, ReturnAtOnce
<1>4. CASE ReconcileDeleted(c) \/ ReconcileLive(c)
  BY <1>2, <1>4 DEF ReconcileDeleted, ReconcileLive, Proceed
<1>5. CASE AddFinalizer(c)
  BY <1>0, <1>2, <1>5, SetFinalizerType DEF AddFinalizer, ReturnAtOnce
<1>6. QED
  BY <1>1, <1>3, <1>4, <1>5 DEF Reconcile

\* What a call of the provisioning chain does to what OwnershipInv speaks of: it
\* adds resources for the current cluster only, and sets Ready when all exist.
LEMMA ProvisionEffect ==
    ASSUME LInv, Provision
    PROVE  /\ UNCHANGED <<tc, machines, cur, orig>>
           /\ cur \in Clusters /\ pc \in ProvisionStages
           /\ pc' \in ProvisionStages \cup {"patchConditions"}
           /\ obj'.finalizer = obj.finalizer
           /\ obj.ready => obj'.ready
           /\ obj'.ready => obj.ready \/ res[cur] = Kinds
           /\ res' = res \/ \E k \in Kinds : /\ res' = With(k)
                                             /\ Lifecycle!Needs(k) \subseteq res[cur]
<1>0. TypeOK /\ obj \in Object /\ cur \in Clusters /\ pc \in ProvisionStages
  BY DEF LInv, IInv, TypeOK, ProvisionStages, Provision, Connect, AllocateAddress, EndpointReady,
         EnsureIPSet, EnsurePool, EnsureVirtualService, EnsureVApp, AttachNetwork, PowerOnVApp, Record
<1>1. StageInv
  BY DEF LInv, IInv
<1>2. CASE Connect
  BY <1>0, <1>2, MarkFalseType
     DEF Connect, WorkerOnly, Goto, Return, Panic, apiVars, vcdVars, ProvisionStages, CondTypes
<1>3. CASE AllocateAddress
  <2>1. /\ UNCHANGED <<tc, machines, cur, orig, res>> /\ pc' = "patchConditions"
        /\ \/ \E a \in UnusedAddresses : obj' = [obj EXCEPT !.host = a]
           \/ obj' = MarkFalse(obj, "ExternalIPAddressReady")
    BY <1>3 DEF AllocateAddress, WorkerOnly, Return, apiVars, vcdVars
  <2>2. obj'.finalizer = obj.finalizer /\ obj'.ready = obj.ready
    <3>1. ASSUME NEW a \in UnusedAddresses, obj' = [obj EXCEPT !.host = a]
          PROVE  obj'.finalizer = obj.finalizer /\ obj'.ready = obj.ready
      BY <1>0, <3>1, SetHostType DEF UnusedAddresses
    <3>2. CASE obj' = MarkFalse(obj, "ExternalIPAddressReady")
      BY <1>0, <3>2, MarkFalseType DEF CondTypes
    <3>3. QED
      BY <2>1, <3>1, <3>2
  <2>3. QED
    BY <1>0, <2>1, <2>2
<1>4. CASE EndpointReady
  BY <1>0, <1>4, MarkTrueType
     DEF EndpointReady, WorkerOnly, Return, apiVars, vcdVars, ProvisionStages
<1>5. CASE EnsureIPSet
  BY <1>0, <1>5 DEF EnsureIPSet, CreateFailed, LookupSwallowed, Goto, Return, apiVars,
                    ProvisionStages, Kinds, Lifecycle!Needs
<1>6. CASE EnsurePool
  <2>1. ~Has("Pool") /\ "IPSet" \notin nilRefs => "IPSet" \in res[cur]
    BY <1>1, <1>6 DEF StageInv, EnsurePool
  <2>2. QED
    BY <1>0, <1>6, <2>1 DEF EnsurePool, CreateFailed, LookupSwallowed, Goto, Return, Panic, apiVars,
                            ProvisionStages, Kinds, Lifecycle!Needs
<1>7. CASE EnsureVirtualService
  <2>1. "Pool" \notin nilRefs => "Pool" \in res[cur]
    BY <1>1, <1>7 DEF StageInv, EnsureVirtualService
  <2>2. /\ UNCHANGED <<tc, machines, cur, orig>>
        /\ pc' \in {"vApp", "patchConditions"}
        /\ obj' \in {obj, MarkFalse(obj, "VirtualServiceReady")}
        /\ \/ res' = res
           \/ res' = With("VirtualService") /\ "Pool" \notin nilRefs
    BY <1>7 DEF EnsureVirtualService, ListenOn, Goto, Return, Panic, apiVars
  <2>3. QED
    BY <1>0, <2>1, <2>2, MarkFalseType DEF ProvisionStages, CondTypes, Kinds, Lifecycle!Needs
<1>8. CASE EnsureVApp
  <2>1. "VirtualService" \in res[cur]
    BY <1>1, <1>8 DEF StageInv, EnsureVApp
  <2>2. /\ UNCHANGED <<tc, machines, cur, orig>>
        /\ pc' \in {"record", "vAppNetwork", "patchConditions"}
        /\ obj' \in {obj, MarkFalse(obj, "VAppReady")}
        /\ res' \in {res, With("VApp")}
    BY <1>8 DEF EnsureVApp, CreateFailed, Goto, Return, apiVars
  <2>3. QED
    BY <1>0, <2>1, <2>2, MarkFalseType DEF ProvisionStages, CondTypes, Kinds, Lifecycle!Needs
<1>9. CASE AttachNetwork
  BY <1>0, <1>9 DEF AttachNetwork, Goto, Return, apiVars, ProvisionStages
<1>10. CASE PowerOnVApp
  BY <1>0, <1>10 DEF PowerOnVApp, Goto, Return, apiVars, ProvisionStages
<1>11. CASE Record
  <2>1. PICK r \in SUBSET Kinds, t \in SUBSET CondTypes :
            LET o == [MarkTrue(obj, t) EXCEPT !.refs = @ \cup r] IN
            \/ nilRefs = {} /\ Return([o EXCEPT !.ready = TRUE], FALSE)
            \/ Panic(o)
    BY <1>11, RecordShape
  <2> DEFINE o == [MarkTrue(obj, t) EXCEPT !.refs = @ \cup r]
  <2>2. o \in Object /\ o.finalizer = obj.finalizer /\ o.ready = obj.ready
    BY <1>0, MarkTrueType, AddRefsType
  <2>3. LET q == [o EXCEPT !.ready = TRUE] IN q.finalizer = obj.finalizer /\ q.ready
    BY <2>2, SetReadyType
  <2>4. nilRefs = {} => res[cur] = Kinds
    <3>1. nilRefs = {} => Kinds \subseteq res[cur]
      BY <1>1, <1>11 DEF StageInv, Record, Kinds
    <3>2. QED
      BY <1>0, <3>1 DEF TypeOK
  <2>5. UNCHANGED <<tc, machines, res>>
    BY <1>11 DEF Record, WorkerOnly, apiVars, vcdVars
  <2>6. CASE nilRefs = {} /\ Return([o EXCEPT !.ready = TRUE], FALSE)
    BY <1>0, <2>3, <2>4, <2>5, <2>6 DEF Return
  <2>7. CASE Panic(o)
    BY <1>0, <2>2, <2>5, <2>7 DEF Panic
  <2>8. QED
    BY <2>1, <2>6, <2>7
<1>12. QED
  BY <1>2, <1>3, <1>4, <1>5, <1>6, <1>7, <1>8, <1>9, <1>10, <1>11 DEF Provision

\* Provisioning preserves the invariant: it works for an object with finalizer.
LEMMA ProvisionOwnership ==
    ASSUME LInv, Provision
    PROVE  OwnershipInv'
<1>0. TypeOK /\ TypeOK' /\ tc[cur].finalizer
  BY ProvisionType, ProvisionEffect DEF LInv, IInv, WorkerInv, ProvisionStages
<1>1. \A c \in Clusters : res[c] \subseteq res'[c] /\ (c # cur => res'[c] = res[c])
  <2>1. cur \in Clusters /\ (res' = res \/ \E k \in Kinds : res' = With(k))
    BY ProvisionEffect
  <2>2. res \in [Clusters -> SUBSET Kinds]
    BY <1>0 DEF TypeOK
  <2>3. QED
    BY <2>1, <2>2 DEF With
<1>2. res[cur] = Kinds => res'[cur] = Kinds
  <2>1. cur \in Clusters
    BY ProvisionEffect
  <2>2. res'[cur] \subseteq Kinds
    BY <1>0, <2>1 DEF TypeOK
  <2>3. res[cur] \subseteq res'[cur]
    BY <1>1, <2>1, Zenon
  <2>4. QED
    BY <2>2, <2>3
<1>3. pc' \notin DeleteStages /\ pc # "idle"
  BY ProvisionEffect DEF ProvisionStages, DeleteStages
<1>4. QED
  BY <1>0, <1>1, <1>2, <1>3, ProvisionEffect DEF LInv, OwnershipInv

\* What a call of reconcileDelete does: it removes at most one resource, one that
\* nothing else needs, of a deleted cluster without Machines.
LEMMA DeleteEffect ==
    ASSUME LInv, Delete
    PROVE  /\ UNCHANGED <<tc, machines, cur, orig>>
           /\ cur \in Clusters /\ pc \in DeleteStages
           /\ obj'.ready = obj.ready /\ Ended(cur)
           /\ obj'.finalizer = obj.finalizer \/ machines[cur] = {}
           /\ pc' \in DeleteStages \cup {"patchConditions"}
           /\ res' = res \/ \E k \in Kinds : /\ res' = Without(k) /\ machines[cur] = {}
                                             /\ Lifecycle!Blockers(k) \cap res[cur] = {}
<1>0. TypeOK /\ obj \in Object /\ cur \in Clusters /\ pc \in DeleteStages /\ pc # "idle"
  BY DEF LInv, IInv, TypeOK, DeleteStages, Delete, DeleteGate, DeleteConnect, DeleteVirtualService,
         DeletePool, DeleteIPSet, DeleteVApp
<1>1. /\ Ended(cur) /\ StageInv /\ RefsChain(obj.refs)
      /\ pc # "deleteGate" => machines[cur] = {}
  BY <1>0 DEF LInv, IInv, WorkerInv
<1>2. CASE DeleteGate
  BY <1>0, <1>1, <1>2 DEF DeleteGate, WorkerOnly, Goto, Return, Panic, apiVars, vcdVars, DeleteStages
<1>3. CASE DeleteConnect
  BY <1>0, <1>1, <1>3 DEF DeleteConnect, WorkerOnly, Goto, Return, Panic, apiVars, vcdVars, DeleteStages
<1>4. CASE DeleteVirtualService
  BY <1>0, <1>1, <1>4 DEF DeleteVirtualService, Goto, Return, apiVars, DeleteStages, Kinds,
                          Lifecycle!Blockers
<1>5. CASE DeletePool
  <2>1. "Pool" \in obj.refs => "VirtualService" \notin res[cur]
    BY <1>1, <1>5 DEF StageInv, RefsChain, DeletePool
  <2>2. QED
    BY <1>0, <1>1, <1>5, <2>1 DEF DeletePool, Recorded, Goto, Return, apiVars, DeleteStages, Kinds,
                                  Lifecycle!Blockers
<1>6. CASE DeleteIPSet
  <2>1. "IPSet" \in obj.refs => "Pool" \notin res[cur]
    BY <1>1, <1>6 DEF StageInv, RefsChain, DeleteIPSet
  <2>2. QED
    BY <1>0, <1>1, <1>6, <2>1 DEF DeleteIPSet, Recorded, Goto, Return, apiVars, DeleteStages, Kinds,
                                  Lifecycle!Blockers
<1>7. CASE DeleteVApp
  <2>1. "VApp" \in obj.refs => "VirtualService" \notin res[cur]
    BY <1>1, <1>7 DEF StageInv, RefsChain, DeleteVApp
  <2>2. /\ UNCHANGED <<tc, machines, cur, orig>> /\ pc' = "patchConditions"
        /\ obj' \in {obj, [obj EXCEPT !.finalizer = FALSE]}
        /\ res' = res \/ (res' = Without("VApp") /\ "VApp" \in obj.refs)
    BY <1>7 DEF DeleteVApp, Recorded, Return, apiVars
  <2>3. machines[cur] = {}
    BY <1>1, <1>7 DEF DeleteVApp
  <2>4. QED
    BY <1>0, <1>1, <2>1, <2>2, <2>3, SetFinalizerType DEF Kinds, Lifecycle!Blockers
<1>8. QED
  BY <1>2, <1>3, <1>4, <1>5, <1>6, <1>7 DEF Delete

\* reconcileDelete preserves the invariant.
LEMMA DeleteOwnership ==
    ASSUME LInv, Delete
    PROVE  OwnershipInv'
<1>0. TypeOK /\ pc # "idle"
  BY DeleteEffect DEF LInv, IInv, DeleteStages
<1>1. \A c \in Clusters : res'[c] \subseteq res[c]
  BY <1>0, DeleteEffect DEF TypeOK, Without
<1>2. QED
  BY <1>0, <1>1, DeleteEffect DEF LInv, OwnershipInv

----------------------------------------------------------------------------
(* Patches, restarts and the environment.                                  *)

\* What the three patches write: conditions; finalizer, endpoint and the end of a
\* deleted object; references and Ready.
LEMMA PatchEffect ==
    ASSUME LInv, PatchConditions \/ PatchSpec \/ PatchStatus
    PROVE  /\ UNCHANGED <<machines, res, cur, obj, orig>>
           /\ cur \in Clusters /\ pc # "idle" /\ pc' \notin DeleteStages
           /\ \A c \in Clusters \ {cur} : tc'[c] = tc[c]
           /\ \/ /\ tc'[cur].phase = tc[cur].phase /\ tc'[cur].ready = tc[cur].ready
                 /\ tc[cur].finalizer => tc'[cur].finalizer \/ Ended(cur)
              \/ /\ tc[cur].phase = "deleting" /\ tc'[cur].phase = "gone"
                 /\ tc'[cur].ready = tc[cur].ready /\ machines[cur] = {}
              \/ /\ Exists(cur) /\ res[cur] = Kinds /\ tc'[cur].ready
                 /\ tc'[cur].phase = tc[cur].phase /\ tc'[cur].finalizer = tc[cur].finalizer
<1>0. /\ TypeOK /\ cur \in Clusters /\ pc # "idle"
      /\ tc[cur] \in Object /\ obj \in Object /\ orig \in Object
  BY DEF LInv, IInv, TypeOK, PatchConditions, PatchSpec, PatchStatus
<1>1. ASSUME NEW changed, NEW new, NEW p \in {"patchSpec", "patchStatus", "return"},
             Patch(changed, new, p)
      PROVE  /\ UNCHANGED <<machines, res, cur, obj, orig>> /\ pc' \notin DeleteStages
             /\ \A c \in Clusters \ {cur} : tc'[c] = tc[c]
             /\ tc'[cur] = tc[cur] \/ (tc'[cur] = new /\ changed /\ Exists(cur))
  BY <1>0, <1>1 DEF Patch, TypeOK, DeleteStages, vcdVars
<1>2. CASE PatchConditions
  <2> DEFINE cs == [t \in CondTypes |-> IF obj.conds[t] # orig.conds[t]
                                       THEN obj.conds[t] ELSE tc[cur].conds[t]]
             new == [tc[cur] EXCEPT !.conds = cs]
  <2>1. cs \in [CondTypes -> {"Unset", "True", "False"}]
    BY <1>0, ObjectFields
  <2>2. Patch(obj.conds # orig.conds, new, "patchSpec")
    BY <1>2 DEF PatchConditions
  <2> HIDE DEF cs
  <2>3. /\ new.phase = tc[cur].phase /\ new.finalizer = tc[cur].finalizer
        /\ new.ready = tc[cur].ready
    BY <1>0, <2>1, PatchedConds
  <2> HIDE DEF new
  <2>4. QED
    BY <1>0, <1>1, <2>2, <2>3
<1>3. CASE PatchSpec
  <2> DEFINE f == IF obj.finalizer # orig.finalizer THEN obj.finalizer ELSE tc[cur].finalizer
             h == IF obj.host # orig.host THEN obj.host ELSE tc[cur].host
             q == IF tc[cur].phase = "deleting" /\ ~f THEN "gone" ELSE tc[cur].phase
             new == [tc[cur] EXCEPT !.finalizer = f, !.host = h, !.phase = q]
             changed == obj.finalizer # orig.finalizer \/ obj.host # orig.host
  <2>1. Patch(changed, new, "patchStatus")
    BY <1>3 DEF PatchSpec
  <2>2. /\ f \in BOOLEAN /\ h \in Addresses \cup {NoAddress}
        /\ q \in {"absent", "live", "deleting", "gone"}
    BY <1>0, ObjectFields
  <2>3. ~f => ~tc[cur].finalizer \/ (Ended(cur) /\ machines[cur] = {})
    BY <1>0, ObjectFields DEF LInv, IInv, WorkerInv, OwnershipInv
  <2>4. \/ q = tc[cur].phase
        \/ tc[cur].phase = "deleting" /\ q = "gone" /\ ~f
    OBVIOUS
  <2>5. tc[cur].phase = "deleting" => tc[cur].finalizer
    BY <1>0 DEF LInv, IInv, CacheInv, CacheLags
  <2> HIDE DEF f, h, q, changed
  <2>6. new.phase = q /\ new.finalizer = f /\ new.ready = tc[cur].ready
    BY <1>0, <2>2 DEF Object
  <2> HIDE DEF new
  <2>7. QED
    BY <1>0, <1>1, <2>1, <2>2, <2>3, <2>4, <2>5, <2>6
<1>4. CASE PatchStatus
  <2> DEFINE r == tc[cur].refs \cup (obj.refs \ orig.refs)
             d == IF obj.ready # orig.ready THEN obj.ready ELSE tc[cur].ready
             new == [tc[cur] EXCEPT !.refs = r, !.ready = d]
             changed == obj.refs # orig.refs \/ obj.ready # orig.ready
  <2>1. Patch(changed, new, "return")
    BY <1>4 DEF PatchStatus
  <2>2. r \in SUBSET Kinds /\ d \in BOOLEAN
    BY <1>0, ObjectFields
  <2>3. d = tc[cur].ready \/ (d /\ res[cur] = Kinds)
    BY <1>0, ObjectFields DEF LInv, OwnershipInv
  <2> HIDE DEF r, d, changed
  <2>4. /\ new.phase = tc[cur].phase /\ new.finalizer = tc[cur].finalizer /\ new.ready = d
    BY <1>0, <2>2 DEF Object
  <2> HIDE DEF new
  <2>5. QED
    BY <1>0, <1>1, <2>1, <2>2, <2>3, <2>4
<1>5. QED
  BY <1>2, <1>3, <1>4

\* Patches preserve the invariant.
LEMMA SaveOwnership ==
    ASSUME LInv, Save
    PROVE  OwnershipInv'
<1>1. CASE PatchConditions \/ PatchSpec \/ PatchStatus
  <2>1. cur \in Clusters /\ pc # "idle" /\ (Ended(cur) => tc[cur].phase \notin {"absent", "live"})
    BY <1>1, PatchEffect DEF Ended
  <2>2. QED
    BY <1>1, <2>1, PatchEffect DEF LInv, OwnershipInv
<1>2. CASE Finish
  BY <1>2 DEF Finish, ResetWorker, vcdVars, LInv, OwnershipInv
<1>3. QED
  BY <1>1, <1>2 DEF Save

\* So does a restart of the process.
LEMMA RestartOwnership ==
    ASSUME LInv, Restart
    PROVE  OwnershipInv'
BY DEF Restart, ResetWorker, vcdVars, LInv, OwnershipInv

\* What informers, users, Cluster API and the machine controller do to what
\* ClusterLifecycle speaks of; references and endpoint are the controller's own.
LEMMA EnvironmentEffect ==
    ASSUME LInv, NEW c \in Clusters, Environment(c)
    PROVE  /\ UNCHANGED <<res, vip, workerVars>>
           /\ \/ UNCHANGED <<tc, machines>>
              \/ /\ UNCHANGED machines
                 /\ \E o \in Object :
                       /\ tc' = [tc EXCEPT ![c] = o]
                       /\ o.ready = tc[c].ready /\ o.finalizer = tc[c].finalizer
                       /\ o.refs = tc[c].refs /\ o.host = tc[c].host
                       /\ \/ o.phase = tc[c].phase
                          \/ tc[c].phase = "absent" /\ o.phase = "live"
                          \/ tc[c].phase = "live" /\ o.phase = "deleting"
                          \/ tc[c].phase = "live" /\ o.phase = "gone" /\ ~tc[c].finalizer
              \/ /\ UNCHANGED tc
                 /\ \E m \in Machines :
                       \/ tc[c].phase = "live" /\ machines' = [machines EXCEPT ![c] = @ \cup {m}]
                       \/ machines' = [machines EXCEPT ![c] = @ \ {m}]
<1>0. tc[c] \in Object
  BY DEF LInv, IInv, TypeOK
<1>1. CASE Deliver(c) \/ ClusterEvent(c)
  BY <1>1 DEF Deliver, ClusterEvent, Outside, vcdVars
<1>2. CASE CreateCluster(c)
  <2>0. PICK i \in BOOLEAN : Edit(c, [NewObject EXCEPT !.phase = "live", !.identityRef = i])
    BY <1>2 DEF CreateCluster
  <2> DEFINE o == [NewObject EXCEPT !.phase = "live", !.identityRef = i]
  <2>1. o \in Object /\ o.phase = "live" /\ ~o.finalizer /\ ~o.ready
    BY <2>0 DEF NewObject, Object
  <2>2. tc[c].phase = "absent" /\ tc[c] = NewObject
    BY <1>2 DEF CreateCluster, LInv, IInv, CacheInv, CacheLags
  <2>3. /\ o.ready = tc[c].ready /\ o.finalizer = tc[c].finalizer
        /\ o.refs = tc[c].refs /\ o.host = tc[c].host
    BY <2>2 DEF NewObject
  <2>4. Edit(c, o)
    BY <2>0
  <2> HIDE DEF o
  <2>5. QED
    BY <2>1, <2>2, <2>3, <2>4 DEF Edit, Outside, vcdVars
<1>3. CASE SetIdentityRef(c)
  <2> DEFINE o == [tc[c] EXCEPT !.identityRef = TRUE]
  <2>1. /\ o \in Object /\ o.phase = tc[c].phase /\ o.finalizer = tc[c].finalizer
        /\ o.ready = tc[c].ready /\ o.refs = tc[c].refs /\ o.host = tc[c].host
    BY <1>0 DEF Object
  <2>2. Edit(c, o)
    BY <1>3 DEF SetIdentityRef
  <2> HIDE DEF o
  <2>3. QED
    BY <2>1, <2>2 DEF Edit, Outside, vcdVars
<1>4. CASE SetOwner(c)
  <2>0. PICK w \in {"cluster", "controlPlane"} : Edit(c, [tc[c] EXCEPT !.owner = w])
    BY <1>4 DEF SetOwner
  <2> DEFINE o == [tc[c] EXCEPT !.owner = w]
  <2>1. /\ o \in Object /\ o.phase = tc[c].phase /\ o.finalizer = tc[c].finalizer
        /\ o.ready = tc[c].ready /\ o.refs = tc[c].refs /\ o.host = tc[c].host
    BY <1>0, <2>0 DEF Object
  <2>2. Edit(c, o)
    BY <2>0
  <2> HIDE DEF o
  <2>3. QED
    BY <2>1, <2>2 DEF Edit, Outside, vcdVars
<1>5. CASE DeleteCluster(c)
  <2> DEFINE q == IF tc[c].finalizer THEN "deleting" ELSE "gone"
             o == [tc[c] EXCEPT !.phase = q]
  <2>0. q \in {"absent", "live", "deleting", "gone"}
    OBVIOUS
  <2>1. /\ o \in Object /\ o.phase = q /\ o.finalizer = tc[c].finalizer
        /\ o.ready = tc[c].ready /\ o.refs = tc[c].refs /\ o.host = tc[c].host
    BY <1>0, <2>0 DEF Object
  <2>2. Edit(c, o) /\ tc[c].phase = "live"
    BY <1>5 DEF DeleteCluster
  <2> HIDE DEF o
  <2>3. QED
    BY <2>1, <2>2 DEF Edit, Outside, vcdVars
<1>6. CASE MachineStep(c)
  <2>0. PICK m \in Machines : AddMachine(c, m) \/ JoinIPSet(c, m)
                               \/ LeaveIPSet(c, m) \/ RemoveMachine(c, m)
    BY <1>6 DEF MachineStep
  <2>1. QED
    BY <2>0 DEF AddMachine, JoinIPSet, LeaveIPSet, RemoveMachine, Outside, apiVars, vcdVars
<1>7. QED
  BY <1>1, <1>2, <1>3, <1>4, <1>5, <1>6 DEF Environment

\* The environment preserves the invariant: a new object owns nothing yet, and a
\* Machine is never added to a cluster whose finalizer is about to be removed.
LEMMA EnvironmentOwnership ==
    ASSUME LInv, NEW c \in Clusters, Environment(c)
    PROVE  OwnershipInv'
<1>0. TypeOK /\ UNCHANGED <<res, pc, cur, obj, orig>>
  BY EnvironmentEffect DEF LInv, IInv, workerVars
<1>1. CASE UNCHANGED <<tc, machines>>
  BY <1>0, <1>1 DEF LInv, OwnershipInv
<1>2. ASSUME UNCHANGED machines, NEW o \in Object, tc' = [tc EXCEPT ![c] = o],
             o.finalizer = tc[c].finalizer,
             tc[c].phase \in {"absent", "live"} \/ o.phase \notin {"absent", "live"}
                \/ o.phase = tc[c].phase
      PROVE  OwnershipInv'
  <2>1. tc'[c] = o /\ \A d \in Clusters \ {c} : tc'[d] = tc[d]
    BY <1>0, <1>2 DEF TypeOK
  <2>2. QED
    BY <1>0, <1>2, <2>1 DEF LInv, OwnershipInv
<1>3. ASSUME UNCHANGED tc, NEW m \in Machines,
             \/ tc[c].phase = "live" /\ machines' = [machines EXCEPT ![c] = @ \cup {m}]
             \/ machines' = [machines EXCEPT ![c] = @ \ {m}]
      PROVE  OwnershipInv'
  <2>1. \A d \in Clusters : machines'[d] \subseteq machines[d] \/ tc[d].phase = "live"
    BY <1>0, <1>3 DEF TypeOK
  <2>2. pc # "idle" => (orig.finalizer /\ ~obj.finalizer => Ended(cur) /\ cur \in Clusters)
    BY <1>0 DEF LInv, IInv, TypeOK, WorkerInv
  <2>3. pc # "idle" => (orig.finalizer /\ ~obj.finalizer => machines'[cur] = {})
    BY <2>1, <2>2 DEF LInv, OwnershipInv, Ended
  <2>4. QED
    BY <1>0, <1>3, <2>3 DEF LInv, OwnershipInv
<1>4. QED
  BY <1>1, <1>2, <1>3, EnvironmentEffect

\* The strengthened invariant is inductive.
LEMMA NextOwnership == LInv /\ [Next]_vars => LInv'
<1> SUFFICES ASSUME LInv, [Next]_vars PROVE LInv'
  OBVIOUS
<1>1. CASE Worker
  BY <1>1, ReconcileOwnership, ProvisionOwnership, DeleteOwnership, SaveOwnership,
     RestartOwnership, NextInv DEF Worker, Die, LInv
<1>2. CASE Crash
  BY <1>2, RestartOwnership, NextInv DEF Crash, LInv
<1>3. CASE \E c \in Clusters : Environment(c)
  BY <1>3, EnvironmentOwnership, NextInv DEF LInv
<1>4. CASE UNCHANGED vars
  BY <1>4, NextInv DEF LInv, OwnershipInv, vars, apiVars, vcdVars, workerVars
<1>5. QED
  BY <1>1, <1>2, <1>3, <1>4 DEF Next

----------------------------------------------------------------------------
(* Every step is one that ClusterLifecycle allows.                         *)

\* The lifecycle's state: phases and Ready as the API server stores them.
Phase == [c \in Clusters |-> tc[c].phase]
Ready == [c \in Clusters |-> tc[c].ready]

\* A step that changes no phase, Ready, resource or Machine stutters.
LEMMA Stutter ==
    ASSUME UNCHANGED <<res, machines>>,
           \A c \in Clusters : tc'[c].phase = tc[c].phase /\ tc'[c].ready = tc[c].ready
    PROVE  UNCHANGED Lifecycle!vars
<1>1. Phase' = Phase /\ Ready' = Ready
  BY DEF Phase, Ready
<1>2. QED
  BY <1>1 DEF Lifecycle!vars, Phase, Ready

\* A step that only changes the phase of one object.
LEMMA PhaseStep ==
    ASSUME NEW c \in Clusters, NEW p, UNCHANGED <<res, machines>>,
           tc'[c].phase = p, \A d \in Clusters \ {c} : tc'[d].phase = tc[d].phase,
           \A d \in Clusters : tc'[d].ready = tc[d].ready
    PROVE  Lifecycle!Become(c, p)
<1>1. Phase' = [Phase EXCEPT ![c] = p] /\ Ready' = Ready
  BY DEF Phase, Ready
<1>2. QED
  BY <1>1 DEF Lifecycle!Become, Phase, Ready

\* The lifecycle names the same kinds.
LEMMA SameKinds == Lifecycle!Kinds = Kinds
BY DEF Lifecycle!Kinds, Kinds

\* A call of the provisioning chain builds one resource or stutters.
LEMMA ProvisionSimulates ==
    ASSUME LInv, Provision
    PROVE  [Lifecycle!Next]_(Lifecycle!vars)
<1>0. /\ TypeOK /\ cur \in Clusters /\ tc[cur].phase \in {"live", "deleting"}
      /\ UNCHANGED <<tc, machines>>
  BY ProvisionEffect DEF LInv, IInv, WorkerInv, ProvisionStages
<1>1. CASE res' = res
  BY <1>0, <1>1, Stutter
<1>2. ASSUME NEW k \in Kinds, res' = With(k), Lifecycle!Needs(k) \subseteq res[cur]
      PROVE  [Lifecycle!Next]_(Lifecycle!vars)
  <2>1. CASE k \in res[cur]
    <3>1. res' = res
      BY <1>0, <1>2, <2>1 DEF TypeOK, With
    <3>2. QED
      BY <1>1, <3>1
  <2>2. CASE k \notin res[cur]
    <3>1. Lifecycle!Build(cur, k)
      BY <1>0, <1>2, <2>2 DEF Lifecycle!Build, With
    <3>2. QED
      BY <1>0, <3>1, SameKinds DEF Lifecycle!Next
  <2>3. QED
    BY <2>1, <2>2
<1>3. QED
  BY <1>1, <1>2, ProvisionEffect

\* A call of reconcileDelete tears one resource down or stutters.
LEMMA DeleteSimulates ==
    ASSUME LInv, Delete
    PROVE  [Lifecycle!Next]_(Lifecycle!vars)
<1>0. /\ TypeOK /\ cur \in Clusters /\ tc[cur].phase \in {"deleting", "gone"}
      /\ UNCHANGED <<tc, machines>>
  BY DeleteEffect DEF LInv, IInv, Ended
<1>1. CASE res' = res
  BY <1>0, <1>1, Stutter
<1>2. ASSUME NEW k \in Kinds, res' = Without(k), machines[cur] = {},
             Lifecycle!Blockers(k) \cap res[cur] = {}
      PROVE  [Lifecycle!Next]_(Lifecycle!vars)
  <2>1. CASE k \notin res[cur]
    <3>1. res' = res
      BY <1>0, <1>2, <2>1 DEF TypeOK, Without
    <3>2. QED
      BY <1>1, <3>1
  <2>2. CASE k \in res[cur]
    <3>1. Lifecycle!Teardown(cur, k)
      BY <1>0, <1>2, <2>2 DEF Lifecycle!Teardown, Without
    <3>2. QED
      BY <1>0, <3>1, SameKinds DEF Lifecycle!Next
  <2>3. QED
    BY <2>1, <2>2
<1>3. QED
  BY <1>1, <1>2, DeleteEffect

\* A patch releases a deleted object, publishes Ready, or stutters.
LEMMA SaveSimulates ==
    ASSUME LInv, Save
    PROVE  [Lifecycle!Next]_(Lifecycle!vars)
<1>1. CASE Finish
  BY <1>1, Stutter DEF Finish, vcdVars
<1>2. CASE PatchConditions \/ PatchSpec \/ PatchStatus
  <2>0. PICK c \in Clusters : c = cur
    BY <1>2, PatchEffect
  <2>1. /\ UNCHANGED <<machines, res>> /\ tc' \in [Clusters -> Object]
        /\ \A d \in Clusters \ {c} : tc'[d] = tc[d]
    BY <1>2, <2>0, PatchEffect, SaveType DEF LInv, IInv, TypeOK
  <2>2. CASE tc'[c].phase = tc[c].phase /\ tc'[c].ready = tc[c].ready
    <3>1. \A d \in Clusters : tc'[d].phase = tc[d].phase /\ tc'[d].ready = tc[d].ready
      BY <2>1, <2>2
    <3>2. QED
      BY <2>1, <3>1, Stutter
  <2>3. CASE /\ tc[c].phase = "deleting" /\ tc'[c].phase = "gone"
             /\ tc'[c].ready = tc[c].ready /\ machines[c] = {}
    <3>1. Lifecycle!Become(c, "gone")
      BY <2>1, <2>3, PhaseStep
    <3>2. Lifecycle!Release(c)
      BY <2>3, <3>1 DEF Lifecycle!Release
    <3>3. QED
      BY <3>2 DEF Lifecycle!Next
  <2>4. CASE /\ Exists(c) /\ res[c] = Kinds /\ tc'[c].ready
             /\ tc'[c].phase = tc[c].phase
    <3>1. tc'[c].ready = TRUE
      BY <2>1, <2>4 DEF Object
    <3>2. Phase' = Phase /\ Ready' = [Ready EXCEPT ![c] = TRUE]
      BY <2>1, <2>4, <3>1 DEF Phase, Ready
    <3>3. Lifecycle!Publish(c)
      BY <2>1, <2>4, <3>2, SameKinds DEF Lifecycle!Publish, Phase, Ready, Exists
    <3>4. QED
      BY <3>3 DEF Lifecycle!Next
  <2>5. QED
    BY <1>2, <2>0, <2>2, <2>3, <2>4, PatchEffect
<1>3. QED
  BY <1>1, <1>2 DEF Save

\* So does every step of the environment: only users create and delete objects,
\* and one that is dropped at once owns nothing.
LEMMA EnvironmentSimulates ==
    ASSUME LInv, NEW c \in Clusters, Environment(c)
    PROVE  [Lifecycle!Next]_(Lifecycle!vars)
<1>0. TypeOK /\ UNCHANGED res
  BY EnvironmentEffect DEF LInv, IInv
<1>1. CASE UNCHANGED <<tc, machines>>
  BY <1>0, <1>1, Stutter
<1>2. ASSUME UNCHANGED machines, NEW o \in Object, tc' = [tc EXCEPT ![c] = o],
             o.ready = tc[c].ready,
             \/ o.phase = tc[c].phase
             \/ tc[c].phase = "absent" /\ o.phase = "live"
             \/ tc[c].phase = "live" /\ o.phase = "deleting"
             \/ tc[c].phase = "live" /\ o.phase = "gone" /\ ~tc[c].finalizer
      PROVE  [Lifecycle!Next]_(Lifecycle!vars)
  <2>1. tc'[c] = o /\ \A d \in Clusters \ {c} : tc'[d] = tc[d]
    BY <1>0, <1>2 DEF TypeOK
  <2>2. CASE o.phase = tc[c].phase
    <3>1. \A d \in Clusters : tc'[d].phase = tc[d].phase /\ tc'[d].ready = tc[d].ready
      BY <1>2, <2>1, <2>2
    <3>2. QED
      BY <1>0, <1>2, <3>1, Stutter
  <2>3. Lifecycle!Become(c, o.phase)
    BY <1>0, <1>2, <2>1, PhaseStep
  <2>4. CASE tc[c].phase = "absent" /\ o.phase = "live"
    <3>1. Lifecycle!Create(c)
      BY <2>3, <2>4 DEF Lifecycle!Create
    <3>2. QED
      BY <3>1 DEF Lifecycle!Next
  <2>5. CASE tc[c].phase = "live" /\ (o.phase = "deleting" \/ (o.phase = "gone" /\ ~tc[c].finalizer))
    <3>1. o.phase = "gone" /\ ~tc[c].finalizer => res[c] = {}
      BY <2>5 DEF LInv, OwnershipInv
    <3>2. Lifecycle!Delete(c)
      BY <2>3, <2>5, <3>1 DEF Lifecycle!Delete
    <3>3. QED
      BY <3>2 DEF Lifecycle!Next
  <2>6. QED
    BY <1>2, <2>2, <2>4, <2>5
<1>3. ASSUME UNCHANGED tc, NEW m \in Machines,
             \/ tc[c].phase = "live" /\ machines' = [machines EXCEPT ![c] = @ \cup {m}]
             \/ machines' = [machines EXCEPT ![c] = @ \ {m}]
      PROVE  [Lifecycle!Next]_(Lifecycle!vars)
  <2>1. Lifecycle!AddMachine(c, m) \/ Lifecycle!RemoveMachine(c, m)
    BY <1>0, <1>3 DEF Lifecycle!AddMachine, Lifecycle!RemoveMachine
  <2>2. QED
    BY <1>3, <2>1 DEF Lifecycle!Next
<1>4. QED
  BY <1>1, <1>2, <1>3, EnvironmentEffect

\* Every step of the controller and of its environment is one of the lifecycle.
LEMMA StepSimulates == LInv /\ [Next]_vars => [Lifecycle!Next]_(Lifecycle!vars)
<1> SUFFICES ASSUME LInv, [Next]_vars PROVE [Lifecycle!Next]_(Lifecycle!vars)
  OBVIOUS
<1>1. CASE \E c \in Clusters : Reconcile(c)
  <2>1. UNCHANGED <<tc, res, machines>>
    BY <1>1 DEF Reconcile, ReconcileNotFound, ReconcileOwnerError, ReconcileDeleted, AddFinalizer,
                ReconcileNoIdentity, ReconcileLive, Take, vcdVars
  <2>2. QED
    BY <2>1, Stutter
<1>2. CASE Provision \/ Delete \/ Save
  BY <1>2, ProvisionSimulates, DeleteSimulates, SaveSimulates
<1>3. CASE Die \/ Crash
  BY <1>3, Stutter DEF Die, Crash, Restart, vcdVars
<1>4. CASE \E c \in Clusters : Environment(c)
  BY <1>4, EnvironmentSimulates
<1>5. CASE UNCHANGED vars
  BY <1>5, Stutter DEF vars, apiVars, vcdVars
<1>6. QED
  BY <1>1, <1>2, <1>3, <1>4, <1>5 DEF Next, Worker

\* The controller starts where the lifecycle does.
LEMMA InitSimulates == Init => Lifecycle!Init
<1> SUFFICES ASSUME Init PROVE Lifecycle!Init
  OBVIOUS
<1>1. Phase = [c \in Clusters |-> "absent"] /\ Ready = [c \in Clusters |-> FALSE]
  BY DEF Init, Phase, Ready, NewObject
<1>2. QED
  BY <1>1 DEF Init, Lifecycle!Init, Phase, Ready

\* The cluster controller implements the lifecycle it promises: whatever the cache
\* shows, whichever call or patch fails and whenever the process restarts, each
\* step builds or tears down one resource in the order the resources depend on
\* each other, publishes Ready with all of them there, or changes nothing that a
\* user of the cluster can tell.
THEOREM LifecycleRefinement == Spec => ImplementsLifecycle
<1>1. Spec => []LInv
  <2>1. Init => LInv
    BY InitInv, InitOwnership DEF LInv
  <2>2. QED
    BY <2>1, NextOwnership, PTL DEF Spec
<1>2. QED
  BY <1>1, InitSimulates, StepSimulates, PTL DEF Spec, ImplementsLifecycle, Lifecycle!Spec

=============================================================================
