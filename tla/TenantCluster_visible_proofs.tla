-------------------- MODULE TenantCluster_visible_proofs --------------------
(***************************************************************************)
(* What the cluster controller guarantees to the machine controller, which *)
(* sees it through the shared cache and through Cloud Director: how the    *)
(* vApp comes and goes, and what the cached Status says of it. Proved for  *)
(* every set of clusters, machines and addresses, every bound on failures  *)
(* and crashes, and fresh or stale reads.                                  *)
(***************************************************************************)
EXTENDS TenantCluster_fresh_proofs

\* What a provisioned cluster's object says beyond its conditions.
Records(o) == o.refs # {} \/ o.ready

\* The cache shows an identity and a Cluster with a control plane.
Admitted(c) == /\ seen[c].phase # "absent" /\ seen[c].identityRef
               /\ seen[c].owner = "controlPlane"

\* References are recorded together with the one to the vApp.
VAppFirst(r) == r # {} => "VApp" \in r

\* Of the cache: nothing is recorded before identity and control plane were read,
\* and these stay; a recorded vApp that is missing was removed by reconcileDelete,
\* which had found both the deletion and the reference in the cache. While a ready
\* cluster has Machines it keeps its resources.
Visible(c) ==
    /\ Records(tc[c]) \/ Records(seen[c]) => Admitted(c)
    /\ seen[c].phase = "gone" => tc[c].phase = "gone"
    /\ seen[c].identityRef => tc[c].identityRef
    /\ seen[c].owner = "controlPlane" => tc[c].owner = "controlPlane"
    /\ VAppFirst(tc[c].refs) /\ VAppFirst(seen[c].refs)
    /\ "VApp" \in tc[c].refs /\ "VApp" \notin res[c]
          => seen[c].phase \in {"deleting", "gone"} /\ "VApp" \in seen[c].refs
    /\ "VApp" \notin res[c] => vAppSetup[c] = {}
    /\ tc[c].ready /\ machines[c] # {} => Exists(c) /\ res[c] = Kinds

VisibleInv == \A c \in Clusters : Visible(c)

\* Of the copy a reconcile works on: what it read is in the cache still, and the
\* vApp it records, or has found recorded, exists.
CopyInv ==
    pc # "idle" =>
        /\ seen[cur].phase # "absent"
        /\ obj.owner = "controlPlane" => seen[cur].owner = "controlPlane"
        /\ pc \in ProvisionStages => /\ seen[cur].identityRef
                                     /\ "VApp" \in tc[cur].refs => "VApp" \in res[cur]
        /\ pc \in ServiceStages => seen[cur].owner = "controlPlane"
        /\ pc = "vAppNetwork" => "VApp" \notin tc[cur].refs
        /\ Records(obj) => Admitted(cur)
        /\ VAppFirst(obj.refs)
        /\ orig.refs \subseteq seen[cur].refs
        /\ obj.phase = "deleting" => obj.refs = orig.refs
        /\ "VApp" \in obj.refs \ orig.refs => "VApp" \in res[cur]

VInv == FInv /\ VisibleInv /\ CopyInv

----------------------------------------------------------------------------
(* Objects.                                                                *)

\* Conditions, finalizer, endpoint, references and Ready leave the owner alone.
LEMMA OwnerKept ==
    ASSUME NEW o \in Object
    PROVE  /\ \A types : MarkTrue(o, types).owner = o.owner
           /\ \A type \in CondTypes : MarkFalse(o, type).owner = o.owner
           /\ \A f \in BOOLEAN : [o EXCEPT !.finalizer = f].owner = o.owner
           /\ \A a \in Addresses : [o EXCEPT !.host = a].owner = o.owner
           /\ \A r : [o EXCEPT !.refs = @ \cup r].owner = o.owner
           /\ [o EXCEPT !.ready = TRUE].owner = o.owner
BY DEF MarkTrue, MarkFalse, Object

----------------------------------------------------------------------------
(* Provisioning.                                                           *)

\* What a call of the provisioning chain that is not the last one does to owner
\* and references, to the stage, to the vApp and to its set-up.
LEMMA ProvisionShows ==
    ASSUME LInv, Provision, ~Record
    PROVE  /\ UNCHANGED seen
           /\ obj'.owner = obj.owner /\ obj'.refs = obj.refs /\ obj'.ready = obj.ready
           /\ pc' \in ServiceStages => pc \in ServiceStages \/ obj.owner = "controlPlane"
           /\ pc' = "vAppNetwork" => pc = "vApp" /\ "VApp" \notin res[cur]
           /\ \/ vAppSetup' = vAppSetup
              \/ /\ pc \in {"vAppNetwork", "vAppPowerOn"} /\ res' = res
                 /\ vAppSetup' = [vAppSetup EXCEPT ![cur] =
                                     @ \cup {IF pc = "vAppNetwork" THEN "network" ELSE "power"}]
<1>0. TypeOK /\ obj \in Object /\ cur \in Clusters
  BY ProvisionEffect DEF LInv, IInv, TypeOK
<1>m. \A t \in CondTypes : LET o == MarkFalse(obj, t) IN
          o.owner = obj.owner /\ o.refs = obj.refs /\ o.ready = obj.ready
  BY <1>0, MarkFalseType, OwnerKept
<1>t. "ExternalIPAddressReady" \in CondTypes /\ "VirtualServiceReady" \in CondTypes
      /\ "VAppReady" \in CondTypes
  BY DEF CondTypes
<1>s. {"connect", "endpoint", "patchConditions"} \cap ServiceStages = {}
      /\ {"ipSet", "pool", "virtualService", "vApp", "vAppNetwork", "vAppPowerOn"} \subseteq ServiceStages
  BY DEF ServiceStages, ProvisionStages
<1>1. CASE Connect
  <2>1. /\ UNCHANGED <<seen, vAppSetup>> /\ pc' \in {"endpoint", "patchConditions"}
        /\ obj' \in {obj, MarkFalse(obj, "ExternalIPAddressReady")}
    BY <1>1 DEF Connect, WorkerOnly, Goto, Return, Panic, apiVars, vcdVars
  <2>2. QED
    BY <1>m, <1>t, <1>s, <2>1
<1>2. CASE AllocateAddress
  <2>1. /\ UNCHANGED <<seen, vAppSetup>> /\ pc' = "patchConditions"
        /\ \/ \E a \in UnusedAddresses : obj' = [obj EXCEPT !.host = a]
           \/ obj' = MarkFalse(obj, "ExternalIPAddressReady")
    BY <1>2 DEF AllocateAddress, WorkerOnly, Return, apiVars, vcdVars
  <2>2. obj'.owner = obj.owner /\ obj'.refs = obj.refs /\ obj'.ready = obj.ready
    <3>1. ASSUME NEW a \in UnusedAddresses, obj' = [obj EXCEPT !.host = a]
          PROVE  obj'.owner = obj.owner /\ obj'.refs = obj.refs /\ obj'.ready = obj.ready
      BY <1>0, <3>1, SetHostType, OwnerKept DEF UnusedAddresses
    <3>2. QED
      BY <1>m, <1>t, <2>1, <3>1
  <2>3. QED
    BY <1>s, <2>1, <2>2
<1>3. CASE EndpointReady
  <2> DEFINE o == MarkTrue(obj, {"ExternalIPAddressReady"})
  <2>1. o.owner = obj.owner /\ o.refs = obj.refs /\ o.ready = obj.ready
    BY <1>0, MarkTrueType, OwnerKept
  <2> HIDE DEF o
  <2>2. /\ UNCHANGED <<seen, vAppSetup>> /\ obj' = o
        /\ \/ pc' = "patchConditions"
           \/ pc' = "ipSet" /\ obj.owner = "controlPlane"
    BY <1>3 DEF EndpointReady, WorkerOnly, Return, apiVars, vcdVars, o
  <2>3. QED
    BY <1>s, <2>1, <2>2
<1>4. CASE EnsureIPSet \/ EnsurePool
  <2>1. /\ UNCHANGED <<seen, vAppSetup, obj>> /\ pc \in {"ipSet", "pool"}
        /\ pc' \in {"pool", "virtualService", "patchConditions"}
    BY <1>4 DEF EnsureIPSet, EnsurePool, CreateFailed, LookupSwallowed, Goto, Return, Panic, apiVars
  <2>2. QED
    BY <1>s, <2>1
<1>5. CASE EnsureVirtualService
  <2>1. /\ UNCHANGED <<seen, vAppSetup>> /\ pc = "virtualService" /\ pc' \in {"vApp", "patchConditions"}
        /\ obj' \in {obj, MarkFalse(obj, "VirtualServiceReady")}
    BY <1>5 DEF EnsureVirtualService, ListenOn, Goto, Return, Panic, apiVars
  <2>2. QED
    BY <1>m, <1>t, <1>s, <2>1
<1>6. CASE EnsureVApp
  <2>1. /\ UNCHANGED <<seen, vAppSetup>> /\ pc = "vApp"
        /\ pc' = "vAppNetwork" => "VApp" \notin res[cur]
        /\ obj' \in {obj, MarkFalse(obj, "VAppReady")}
    BY <1>6 DEF EnsureVApp, CreateFailed, Has, Goto, Return, apiVars
  <2>2. QED
    BY <1>m, <1>t, <1>s, <2>1
<1>7. CASE AttachNetwork \/ PowerOnVApp
  <2>1. /\ UNCHANGED <<seen, res, obj>> /\ pc \in {"vAppNetwork", "vAppPowerOn"}
        /\ pc' \in {"vAppPowerOn", "record", "patchConditions"}
        /\ \/ vAppSetup' = vAppSetup
           \/ pc = "vAppNetwork" /\ SetUp("network")
           \/ pc = "vAppPowerOn" /\ SetUp("power")
    BY <1>7 DEF AttachNetwork, PowerOnVApp, Goto, Return, apiVars
  <2>2. QED
    BY <1>s, <2>1 DEF SetUp
<1>8. QED
  BY <1>1, <1>2, <1>3, <1>4, <1>5, <1>6, <1>7 DEF Provision

\* The last call of the chain only fills in the Status, the vApp first.
LEMMA RecordShows ==
    ASSUME LInv, Record
    PROVE  /\ UNCHANGED <<seen, res, vAppSetup>> /\ pc = "record" /\ pc' = "patchConditions"
           /\ obj'.owner = obj.owner /\ "VApp" \in obj'.refs
<1>0. obj \in Object
  BY DEF LInv, IInv, TypeOK
<1> DEFINE recorded == IF "Pool" \in nilRefs THEN {"VApp", "VirtualService"}
                       ELSE IF "IPSet" \in nilRefs THEN {"VApp", "VirtualService", "Pool"}
                       ELSE Kinds
           conds == {t \in CondTypes : \/ t = "VAppReady"
                                       \/ t = "VirtualServiceReady"
                                       \/ t = "PoolReady" /\ "Pool" \in recorded
                                       \/ t = "IPSetReady" /\ "IPSet" \in recorded}
           n == MarkTrue(obj, conds)
           o == [n EXCEPT !.refs = @ \cup recorded]
<1>1. /\ UNCHANGED <<seen, res, vAppSetup>> /\ pc = "record" /\ pc' = "patchConditions"
      /\ obj' \in {o, [o EXCEPT !.ready = TRUE]}
  BY DEF Record, WorkerOnly, Return, Panic, apiVars, vcdVars
<1>2. "VApp" \in recorded /\ recorded \in SUBSET Kinds
  BY DEF Kinds
<1>3. n \in Object /\ n.owner = obj.owner
  BY <1>0, MarkTrueType, OwnerKept
<1> HIDE DEF recorded, n
<1>4. o \in Object /\ o.owner = obj.owner /\ "VApp" \in o.refs
  BY <1>2, <1>3, AddRefsType, OwnerKept
<1> HIDE DEF o
<1>5. [o EXCEPT !.ready = TRUE].owner = obj.owner /\ "VApp" \in [o EXCEPT !.ready = TRUE].refs
  BY <1>4, SetReadyType, OwnerKept
<1>6. QED
  BY <1>1, <1>4, <1>5

\* Provisioning keeps the invariant: the vApp is created for a cluster whose Status
\* does not name it, and set up only while it exists.
LEMMA ProvisionVisible ==
    ASSUME VInv, Provision
    PROVE  VisibleInv' /\ CopyInv'
<1>0. /\ LInv /\ IInv /\ TypeOK /\ TypeOK' /\ cur \in Clusters /\ pc # "idle"
      /\ pc \in ProvisionStages /\ pc' \in ProvisionStages \cup {"patchConditions"}
      /\ UNCHANGED <<tc, machines, cur, orig>>
  BY ProvisionEffect, ProvisionType DEF VInv, FInv, LInv, IInv, ProvisionStages
<1>1. /\ UNCHANGED seen /\ obj'.owner = obj.owner
      /\ pc' \in ServiceStages => pc \in ServiceStages \/ obj.owner = "controlPlane"
      /\ pc' = "vAppNetwork" => pc = "vApp" /\ "VApp" \notin res[cur]
      /\ obj'.phase = "live"
  <2>1. obj'.phase = "live"
    BY <1>0, ProvisionHost DEF IInv, WorkerInv
  <2>2. "patchConditions" \notin ServiceStages /\ "record" \in ServiceStages
    BY DEF ServiceStages, ProvisionStages
  <2>3. QED
    BY <1>0, <2>1, <2>2, ProvisionShows, RecordShows
<1>2. \A c \in Clusters : res[c] \subseteq res'[c]
  BY <1>0, ProvisionGrows
<1>3. \A c \in Clusters : "VApp" \notin res'[c] => vAppSetup'[c] = {}
  <2>1. CASE vAppSetup' = vAppSetup
    BY <1>2, <2>1 DEF VInv, VisibleInv, Visible
  <2>2. CASE vAppSetup' # vAppSetup
    <3>1. /\ pc \in {"vAppNetwork", "vAppPowerOn"} /\ res' = res
          /\ \A c \in Clusters \ {cur} : vAppSetup'[c] = vAppSetup[c]
      BY <1>0, <2>2, ProvisionShows, RecordShows DEF TypeOK
    <3>2. "VApp" \in res[cur]
      BY <1>0, <3>1 DEF IInv, StageInv
    <3>3. QED
      BY <3>1, <3>2 DEF VInv, VisibleInv, Visible
  <2>3. QED
    BY <2>1, <2>2
<1>4. VisibleInv'
  <2> SUFFICES ASSUME NEW c \in Clusters PROVE Visible(c)'
    BY DEF VisibleInv
  <2>1. Visible(c) /\ res[c] \subseteq res'[c] /\ res'[c] \subseteq Kinds
    BY <1>0, <1>2 DEF VInv, VisibleInv, TypeOK
  <2>2. QED
    BY <1>0, <1>1, <1>3, <2>1 DEF Visible, Admitted, Exists
<1>5. CopyInv
  BY DEF VInv
<1>6. /\ Records(obj') => Admitted(cur)
      /\ VAppFirst(obj'.refs)
      /\ "VApp" \in obj'.refs \ orig.refs => "VApp" \in res'[cur]
  <2>1. CASE Record
    <3>1. Admitted(cur) /\ "VApp" \in obj'.refs /\ "VApp" \in res[cur]
      BY <1>0, <1>5, <2>1, RecordShows
         DEF CopyInv, Admitted, ServiceStages, ProvisionStages, IInv, StageInv
    <3>2. QED
      BY <1>0, <1>2, <3>1 DEF VAppFirst
  <2>2. CASE ~Record
    BY <1>0, <1>2, <1>5, <2>2, ProvisionShows DEF CopyInv, Records
  <2>3. QED
    BY <2>1, <2>2
<1>7. pc' \in ServiceStages => seen[cur].owner = "controlPlane"
  BY <1>0, <1>1, <1>5 DEF CopyInv
<1>8. QED
  BY <1>0, <1>1, <1>2, <1>4, <1>5, <1>6, <1>7 DEF CopyInv, Admitted

----------------------------------------------------------------------------
(* Deletion.                                                               *)

\* What a call of reconcileDelete does to the vApp and to the copy: the vApp goes
\* with its set-up, and only if the copy names it.
LEMMA DeleteShows ==
    ASSUME LInv, Delete
    PROVE  /\ UNCHANGED seen /\ obj'.owner = obj.owner
           /\ \/ /\ vAppSetup' = vAppSetup
                 /\ \A c \in Clusters : "VApp" \in res[c] => "VApp" \in res'[c]
              \/ res' = res /\ vAppSetup' = [vAppSetup EXCEPT ![cur] = @ \ {"power"}]
              \/ /\ pc = "deleteVApp" /\ "VApp" \in obj.refs /\ "VApp" \in res[cur]
                 /\ res' = Without("VApp") /\ vAppSetup' = [vAppSetup EXCEPT ![cur] = {}]
<1>0. TypeOK /\ obj \in Object /\ cur \in Clusters
  BY DeleteEffect DEF LInv, IInv, TypeOK
<1>1. CASE ~DeleteVApp
  <2>1. /\ UNCHANGED <<seen, obj, vAppSetup>>
        /\ res' \in {res, Without("VirtualService"), Without("Pool"), Without("IPSet")}
    BY <1>1 DEF Delete, DeleteGate, DeleteConnect, DeleteVirtualService, DeletePool, DeleteIPSet,
                WorkerOnly, Goto, Return, Panic, apiVars, vcdVars
  <2>2. QED
    BY <1>0, <2>1 DEF Without, TypeOK
<1>2. CASE DeleteVApp
  <2>1. /\ UNCHANGED seen /\ pc = "deleteVApp"
        /\ obj' \in {obj, [obj EXCEPT !.finalizer = FALSE]}
        /\ \/ UNCHANGED <<res, vAppSetup>>
           \/ res' = res /\ vAppSetup' = [vAppSetup EXCEPT ![cur] = @ \ {"power"}]
           \/ /\ Recorded("VApp") /\ res' = Without("VApp")
              /\ vAppSetup' = [vAppSetup EXCEPT ![cur] = {}]
    BY <1>2 DEF DeleteVApp, Return, apiVars
  <2>2. QED
    BY <1>0, <2>1, OwnerKept DEF Recorded, Has
<1>3. QED
  BY <1>1, <1>2

\* Deletion keeps the invariant.
LEMMA DeleteVisible ==
    ASSUME VInv, Delete
    PROVE  VisibleInv' /\ CopyInv'
<1>0. /\ LInv /\ IInv /\ TypeOK /\ TypeOK' /\ cur \in Clusters /\ pc # "idle"
      /\ pc \in DeleteStages /\ pc' \in DeleteStages \cup {"patchConditions"}
      /\ UNCHANGED <<tc, machines, cur, orig>>
  BY DeleteEffect, DeleteType DEF VInv, FInv, LInv, IInv, DeleteStages
<1>1. /\ UNCHANGED seen /\ obj'.owner = obj.owner /\ obj'.refs = obj.refs
      /\ obj'.phase = obj.phase /\ obj'.ready = obj.ready
      /\ obj.phase = "deleting" /\ seen[cur].phase \in {"deleting", "gone"}
  BY <1>0, DeleteShows, DeleteClears, DeleteEffect DEF IInv, WorkerInv
<1>2. CopyInv /\ obj.refs = orig.refs
  BY <1>0, <1>1 DEF VInv, CopyInv
<1>3. CopyInv'
  <2>1. pc' \notin ProvisionStages /\ pc' \notin ServiceStages /\ pc' # "vAppNetwork"
    BY <1>0 DEF ProvisionStages, ServiceStages, DeleteStages
  <2>2. QED
    BY <1>0, <1>1, <1>2, <2>1 DEF CopyInv, Admitted, Records
<1>4. \A c \in Clusters : machines[c] # {} => res'[c] = res[c]
  <2>1. res' = res \/ (machines[cur] = {} /\ \A c \in Clusters \ {cur} : res'[c] = res[c])
    BY <1>0, DeleteEffect DEF Without, TypeOK
  <2>2. QED
    BY <1>0, <2>1
<1>5. /\ \A c \in Clusters : "VApp" \notin res'[c] => vAppSetup'[c] = {}
      /\ \A c \in Clusters : "VApp" \in tc[c].refs /\ "VApp" \notin res'[c]
            => seen[c].phase \in {"deleting", "gone"} /\ "VApp" \in seen[c].refs
  <2>0. /\ \A c \in Clusters : "VApp" \notin res[c] => vAppSetup[c] = {}
        /\ \A c \in Clusters : "VApp" \in tc[c].refs /\ "VApp" \notin res[c]
            => seen[c].phase \in {"deleting", "gone"} /\ "VApp" \in seen[c].refs
    BY DEF VInv, VisibleInv, Visible
  <2>1. CASE /\ vAppSetup' = vAppSetup
             /\ \A c \in Clusters : "VApp" \in res[c] => "VApp" \in res'[c]
    BY <2>0, <2>1
  <2>2. CASE res' = res /\ vAppSetup' = [vAppSetup EXCEPT ![cur] = @ \ {"power"}]
    BY <1>0, <2>0, <2>2 DEF TypeOK
  <2>3. CASE /\ pc = "deleteVApp" /\ "VApp" \in obj.refs /\ "VApp" \in res[cur]
             /\ res' = Without("VApp") /\ vAppSetup' = [vAppSetup EXCEPT ![cur] = {}]
    <3>1. "VApp" \in seen[cur].refs
      BY <1>0, <1>2, <2>3 DEF CopyInv
    <3>2. /\ vAppSetup'[cur] = {}
          /\ \A c \in Clusters \ {cur} : vAppSetup'[c] = vAppSetup[c] /\ res'[c] = res[c]
      BY <1>0, <2>3 DEF TypeOK, Without
    <3>3. QED
      BY <1>0, <1>1, <2>0, <3>1, <3>2
  <2>4. QED
    BY <2>1, <2>2, <2>3, DeleteShows, <1>0
<1>6. VisibleInv'
  <2> SUFFICES ASSUME NEW c \in Clusters PROVE Visible(c)'
    BY DEF VisibleInv
  <2>1. Visible(c)
    BY DEF VInv, VisibleInv
  <2>2. QED
    BY <1>0, <1>1, <1>4, <1>5, <2>1 DEF Visible, Admitted, Exists
<1>7. QED
  BY <1>3, <1>6

----------------------------------------------------------------------------
(* Patches, new reconciles, restarts and the environment.                  *)

\* What the patches do to identity, owner and references.
LEMMA PatchShows ==
    ASSUME LInv, PatchConditions \/ PatchSpec \/ PatchStatus
    PROVE  /\ UNCHANGED <<seen, vAppSetup>>
           /\ tc'[cur].identityRef = tc[cur].identityRef /\ tc'[cur].owner = tc[cur].owner
           /\ \/ tc'[cur].refs = tc[cur].refs
              \/ tc'[cur].refs = tc[cur].refs \cup (obj.refs \ orig.refs)
           /\ tc'[cur].ready => tc[cur].ready \/ obj.ready
<1>0. /\ TypeOK /\ cur \in Clusters /\ pc # "idle"
      /\ tc[cur] \in Object /\ obj \in Object /\ orig \in Object
  BY DEF LInv, IInv, TypeOK, PatchConditions, PatchSpec, PatchStatus
<1>1. ASSUME NEW changed, NEW new, NEW p \in {"patchSpec", "patchStatus", "return"},
             Patch(changed, new, p)
      PROVE  UNCHANGED <<seen, vAppSetup>> /\ tc'[cur] \in {tc[cur], new}
  BY <1>0, <1>1 DEF Patch, TypeOK, vcdVars
<1>2. CASE PatchConditions
  <2> DEFINE cs == [t \in CondTypes |-> IF obj.conds[t] # orig.conds[t]
                                       THEN obj.conds[t] ELSE tc[cur].conds[t]]
             new == [tc[cur] EXCEPT !.conds = cs]
  <2>1. Patch(obj.conds # orig.conds, new, "patchSpec")
    BY <1>2 DEF PatchConditions
  <2> HIDE DEF cs
  <2>2. /\ new.identityRef = tc[cur].identityRef /\ new.owner = tc[cur].owner
        /\ new.refs = tc[cur].refs /\ new.ready = tc[cur].ready
    BY <1>0 DEF Object
  <2> HIDE DEF new
  <2>3. QED
    BY <1>1, <2>1, <2>2
<1>3. CASE PatchSpec
  <2> DEFINE f == IF obj.finalizer # orig.finalizer THEN obj.finalizer ELSE tc[cur].finalizer
             h == IF obj.host # orig.host THEN obj.host ELSE tc[cur].host
             q == IF tc[cur].phase = "deleting" /\ ~f THEN "gone" ELSE tc[cur].phase
             new == [tc[cur] EXCEPT !.finalizer = f, !.host = h, !.phase = q]
             changed == obj.finalizer # orig.finalizer \/ obj.host # orig.host
  <2>1. Patch(changed, new, "patchStatus")
    BY <1>3 DEF PatchSpec
  <2> HIDE DEF f, h, q, changed
  <2>2. /\ new.identityRef = tc[cur].identityRef /\ new.owner = tc[cur].owner
        /\ new.refs = tc[cur].refs /\ new.ready = tc[cur].ready
    BY <1>0 DEF Object
  <2> HIDE DEF new
  <2>3. QED
    BY <1>1, <2>1, <2>2
<1>4. CASE PatchStatus
  <2> DEFINE r == tc[cur].refs \cup (obj.refs \ orig.refs)
             d == IF obj.ready # orig.ready THEN obj.ready ELSE tc[cur].ready
             new == [tc[cur] EXCEPT !.refs = r, !.ready = d]
  <2>1. Patch(obj.refs # orig.refs \/ obj.ready # orig.ready, new, "return")
    BY <1>4 DEF PatchStatus
  <2>2. d => tc[cur].ready \/ obj.ready
    OBVIOUS
  <2> HIDE DEF d
  <2>3. /\ new.identityRef = tc[cur].identityRef /\ new.owner = tc[cur].owner
        /\ new.refs = r /\ new.ready = d
    BY <1>0 DEF Object
  <2> HIDE DEF new
  <2>4. QED
    BY <1>1, <2>1, <2>2, <2>3
<1>5. QED
  BY <1>2, <1>3, <1>4

\* The cache is as it was, or shows the stored object; the worker has nothing to
\* do with the vApp. Then the invariant is kept.
LEMMA CacheStep ==
    ASSUME VInv, UNCHANGED <<tc, machines, res, vAppSetup>>,
           \A c \in Clusters : seen'[c] \in {seen[c], tc[c]}
    PROVE  VisibleInv'
<1> SUFFICES ASSUME NEW c \in Clusters PROVE Visible(c)'
  BY DEF VisibleInv
<1>1. Visible(c) /\ CacheLags(c)
  BY DEF VInv, VisibleInv, FInv, LInv, IInv, CacheInv
<1>2. CASE seen'[c] = seen[c]
  BY <1>1, <1>2 DEF Visible, Admitted, Exists
<1>3. CASE seen'[c] = tc[c]
  <2>1. Records(tc[c]) \/ Records(seen[c]) => Admitted(c)
    BY <1>1 DEF Visible
  <2>2. tc[c].phase = "absent" => ~Records(tc[c])
    BY <1>1, NewObjectType DEF CacheLags, Records
  <2>3. Records(tc[c]) => Admitted(c)'
    BY <1>1, <1>3, <2>1, <2>2 DEF Visible, Admitted
  <2>4. "VApp" \in tc[c].refs /\ "VApp" \notin res[c] => tc[c].phase \in {"deleting", "gone"}
    BY <1>1 DEF Visible, CacheLags, Ended
  <2>5. QED
    BY <1>1, <1>3, <2>3, <2>4 DEF Visible, Exists
<1>4. QED
  BY <1>2, <1>3

\* The process starts over with the stored objects in its cache.
LEMMA RestartVisible ==
    ASSUME VInv, Restart
    PROVE  VisibleInv' /\ CopyInv'
<1>1. CopyInv'
  BY DEF Restart, ResetWorker, CopyInv
<1>2. QED
  BY <1>1, CacheStep DEF Restart, vcdVars

\* Patches keep the invariant: a reference is stored only for an admitted cluster,
\* with the vApp's among them.
LEMMA SaveVisible ==
    ASSUME VInv, Save
    PROVE  VisibleInv' /\ CopyInv'
<1>1. CASE Finish
  <2>1. CopyInv'
    BY <1>1 DEF Finish, ResetWorker, CopyInv
  <2>2. QED
    BY <1>1, <2>1, CacheStep DEF Finish, vcdVars
<1>2. CASE PatchConditions \/ PatchSpec \/ PatchStatus
  <2>0. /\ LInv /\ IInv /\ cur \in Clusters /\ pc # "idle"
        /\ UNCHANGED <<machines, res, cur, obj, orig, seen, vAppSetup>>
        /\ pc' \in {"patchSpec", "patchStatus", "return"}
        /\ \A c \in Clusters \ {cur} : tc'[c] = tc[c]
    BY <1>2, PatchEffect, PatchWrites, PatchShows DEF VInv, FInv, LInv
  <2>1. CopyInv /\ Visible(cur) /\ VisibleInv /\ CacheLags(cur) /\ WorkerInv
    BY <2>0 DEF VInv, VisibleInv, IInv, CacheInv
  <2>2. /\ tc'[cur].identityRef = tc[cur].identityRef /\ tc'[cur].owner = tc[cur].owner
        /\ tc'[cur].refs \in {tc[cur].refs, tc[cur].refs \cup (obj.refs \ orig.refs)}
        /\ tc'[cur].ready => tc[cur].ready \/ obj.ready
    BY <1>2, <2>0, PatchShows
  <2>3. CopyInv'
    <3>1. pc' \notin ProvisionStages /\ pc' \notin ServiceStages /\ pc' # "vAppNetwork"
      BY <2>0 DEF ProvisionStages, ServiceStages
    <3>2. QED
      BY <2>0, <2>1, <3>1 DEF CopyInv, Admitted
  <2>4. Records(tc'[cur]) => Admitted(cur)
    BY <2>0, <2>1, <2>2 DEF Visible, CopyInv, Records
  <2>5. VAppFirst(tc'[cur].refs)
    <3>1. /\ orig.refs \subseteq tc[cur].refs /\ VAppFirst(tc[cur].refs) /\ VAppFirst(obj.refs)
      BY <2>0, <2>1 DEF WorkerInv, Visible, CopyInv
    <3>2. QED
      BY <2>2, <3>1 DEF VAppFirst
  <2>6. "VApp" \in tc'[cur].refs /\ "VApp" \notin res[cur]
          => seen[cur].phase \in {"deleting", "gone"} /\ "VApp" \in seen[cur].refs
    BY <2>0, <2>1, <2>2 DEF Visible, CopyInv
  <2>7. seen[cur].phase = "gone" => tc'[cur].phase = "gone"
    BY <1>2, <2>0, <2>1, PatchEffect DEF Visible
  <2>8. tc'[cur].ready /\ machines[cur] # {} => Exists(cur)' /\ res[cur] = Kinds
    BY <1>2, <2>0, <2>1, PatchEffect DEF Visible, Exists
  <2>9. Visible(cur)'
    BY <2>0, <2>1, <2>2, <2>4, <2>5, <2>6, <2>7, <2>8 DEF Visible, Admitted
  <2>10. \A c \in Clusters \ {cur} : Visible(c)'
    BY <2>0, <2>1 DEF VisibleInv, Visible, Admitted, Exists
  <2>11. QED
    BY <2>0, <2>3, <2>9, <2>10 DEF VisibleInv
<1>3. QED
  BY <1>1, <1>2 DEF Save

\* A new reconcile works on what the cache shows; one that provisions has found a
\* live object, whose recorded vApp has not been removed.
LEMMA ReconcileVisible ==
    ASSUME VInv, NEW c \in Clusters, Reconcile(c)
    PROVE  VisibleInv' /\ CopyInv'
<1>0. /\ UNCHANGED <<tc, seen, machines, res, vAppSetup>> /\ seen[c] \in Object
      /\ Visible(c)
  BY DEF VInv, VisibleInv, FInv, LInv, IInv, TypeOK, Reconcile, ReconcileNotFound,
         ReconcileOwnerError, ReconcileDeleted, AddFinalizer, ReconcileNoIdentity, ReconcileLive,
         Take, vcdVars
<1>1. VisibleInv'
  BY <1>0, CacheStep
<1>2. CASE ReconcileNotFound(c)
  BY <1>0, <1>1, <1>2 DEF ReconcileNotFound, Take, workerVars, CopyInv
<1>3. CASE ~ReconcileNotFound(c)
  <2>1. /\ cur' = c /\ orig' = seen[c] /\ pc' \in {"patchConditions", "deleteGate", "connect"}
        /\ obj' \in {seen[c], [seen[c] EXCEPT !.finalizer = TRUE]}
        /\ seen[c].phase \in {"live", "deleting"}
        /\ pc' = "connect" => seen[c].phase = "live" /\ seen[c].identityRef
    <3>1. CASE ReconcileOwnerError(c) \/ AddFinalizer(c) \/ ReconcileNoIdentity(c)
      BY <3>1 DEF ReconcileOwnerError, AddFinalizer, ReconcileNoIdentity, ReturnAtOnce, Take
    <3>2. CASE ReconcileDeleted(c) \/ ReconcileLive(c)
      BY <3>2 DEF ReconcileDeleted, ReconcileLive, Proceed, Take
    <3>3. QED
      BY <1>3, <3>1, <3>2, Zenon DEF Reconcile
  <2>2. obj'.refs = seen[c].refs /\ obj'.owner = seen[c].owner /\ obj'.ready = seen[c].ready
    <3> DEFINE o == [seen[c] EXCEPT !.finalizer = TRUE]
    <3>1. o.refs = seen[c].refs /\ o.owner = seen[c].owner /\ o.ready = seen[c].ready
      BY <1>0 DEF Object
    <3>2. obj' \in {seen[c], o}
      BY <2>1
    <3> HIDE DEF o
    <3>3. QED
      BY <3>1, <3>2
  <2>3. pc' \notin ServiceStages /\ pc' # "vAppNetwork" /\ (pc' \in ProvisionStages => pc' = "connect")
    BY <2>1 DEF ServiceStages, ProvisionStages
  <2>4. Records(obj') => Admitted(c)'
    BY <1>0, <2>2 DEF Visible, Records, Admitted
  <2>5. CopyInv'
    BY <1>0, <2>1, <2>2, <2>3, <2>4 DEF CopyInv, Visible
  <2>6. QED
    BY <1>1, <2>5
<1>4. QED
  BY <1>2, <1>3

\* An edit that records nothing and takes neither identity nor control plane away
\* keeps the invariant; a ready cluster is not dropped at once, for it owns
\* resources and thus has its finalizer.
LEMMA EditVisible ==
    ASSUME VInv, NEW c \in Clusters, NEW o \in Object, Edit(c, o),
           o.refs = tc[c].refs, o.ready = tc[c].ready,
           tc[c].identityRef => o.identityRef,
           tc[c].owner = "controlPlane" => o.owner = "controlPlane",
           \/ o.phase = tc[c].phase /\ Exists(c)
           \/ tc[c].phase = "absent" /\ o.phase = "live"
           \/ tc[c].phase = "live" /\ o.phase = "deleting"
           \/ tc[c].phase = "live" /\ o.phase = "gone" /\ ~tc[c].finalizer
    PROVE  VisibleInv' /\ CopyInv'
<1>0. /\ UNCHANGED <<seen, machines, res, vAppSetup, pc, cur, obj, orig>>
      /\ tc'[c] = o /\ \A d \in Clusters \ {c} : tc'[d] = tc[d]
      /\ pc # "idle" => cur \in Clusters
  BY DEF VInv, FInv, LInv, IInv, TypeOK, Edit, Outside, vcdVars, workerVars
<1>1. Visible(c) /\ CacheLags(c)
  BY DEF VInv, VisibleInv, FInv, LInv, IInv, CacheInv
<1>2. CopyInv'
  <2>1. pc # "idle" => tc'[cur].refs = tc[cur].refs
    BY <1>0
  <2>2. QED
    BY <1>0, <2>1 DEF VInv, CopyInv, Admitted
<1>3. tc[c].phase = "gone" => o.phase = "gone"
  BY DEF Exists
<1>4. tc[c].ready /\ machines[c] # {} => Exists(c)' /\ res[c] = Kinds
  <2> SUFFICES ASSUME tc[c].ready, machines[c] # {} PROVE Exists(c)' /\ res[c] = Kinds
    OBVIOUS
  <2>1. Exists(c) /\ res[c] = Kinds
    BY <1>1 DEF Visible
  <2>2. tc[c].phase = "live" => tc[c].finalizer
    BY <2>1 DEF VInv, FInv, LInv, OwnershipInv, Kinds
  <2>3. QED
    BY <1>0, <2>1, <2>2 DEF Exists
<1>5. Visible(c)'
  BY <1>0, <1>1, <1>3, <1>4 DEF Visible, Admitted, Records
<1>6. \A d \in Clusters \ {c} : Visible(d)'
  BY <1>0 DEF VInv, VisibleInv, Visible, Admitted, Exists
<1>7. QED
  BY <1>0, <1>2, <1>5, <1>6 DEF VisibleInv

\* So the environment keeps it.
LEMMA EnvironmentVisible ==
    ASSUME VInv, NEW c \in Clusters, Environment(c)
    PROVE  VisibleInv' /\ CopyInv'
<1>0. /\ tc[c] \in Object /\ CacheLags(c) /\ TypeOK /\ CopyInv /\ VisibleInv
      /\ pc # "idle" => cur \in Clusters /\ tc[cur].phase # "absent"
  BY DEF VInv, FInv, LInv, IInv, TypeOK, CacheInv, WorkerInv
<1>1. CASE Deliver(c)
  <2>1. /\ UNCHANGED <<tc, machines, res, vAppSetup, pc, cur, obj, orig>>
        /\ seen'[c] = tc[c] /\ \A d \in Clusters \ {c} : seen'[d] = seen[d]
    BY <1>0, <1>1 DEF TypeOK, Deliver, Outside, vcdVars, workerVars
  <2>2. VisibleInv'
    BY <2>1, CacheStep
  <2>3. CopyInv'
    <3>1. CASE pc # "idle" /\ cur = c
      <4>1. Visible(c)
        BY <1>0 DEF VisibleInv
      <4>2. Admitted(c) => Admitted(c)'
        BY <1>0, <2>1, <3>1, <4>1 DEF Admitted, Visible
      <4>3. QED
        BY <1>0, <2>1, <3>1, <4>1, <4>2 DEF CopyInv, Visible, CacheLags
    <3>2. CASE pc # "idle" /\ cur # c
      <4>1. seen'[cur] = seen[cur]
        BY <1>0, <2>1, <3>2
      <4>2. QED
        BY <1>0, <2>1, <3>2, <4>1 DEF CopyInv, Admitted
    <3>3. CASE pc = "idle"
      BY <2>1, <3>3 DEF CopyInv
    <3>4. QED
      BY <3>1, <3>2, <3>3
  <2>4. QED
    BY <2>2, <2>3
<1>2. CASE ClusterEvent(c)
  <2>1. UNCHANGED <<tc, seen, machines, res, vAppSetup, pc, cur, obj, orig>>
    BY <1>2 DEF ClusterEvent, Outside, vcdVars, workerVars
  <2>2. QED
    BY <1>0, <2>1, CacheStep DEF CopyInv, Admitted
<1>3. CASE CreateCluster(c)
  <2>0. PICK i \in BOOLEAN : Edit(c, [NewObject EXCEPT !.phase = "live", !.identityRef = i])
    BY <1>3 DEF CreateCluster
  <2> DEFINE o == [NewObject EXCEPT !.phase = "live", !.identityRef = i]
  <2>1. /\ o \in Object /\ o.phase = "live" /\ o.refs = NewObject.refs
        /\ o.ready = NewObject.ready
        /\ ~NewObject.identityRef /\ NewObject.owner # "controlPlane"
    BY <2>0 DEF NewObject, Object
  <2>2. tc[c].phase = "absent" /\ tc[c] = NewObject
    BY <1>0, <1>3 DEF CreateCluster, CacheLags
  <2>3. Edit(c, o)
    BY <2>0
  <2> HIDE DEF o
  <2>4. QED
    BY <2>1, <2>2, <2>3, EditVisible
<1>4. CASE SetIdentityRef(c)
  <2> DEFINE o == [tc[c] EXCEPT !.identityRef = TRUE]
  <2>1. /\ o \in Object /\ o.phase = tc[c].phase /\ o.refs = tc[c].refs /\ o.ready = tc[c].ready
        /\ o.identityRef /\ o.owner = tc[c].owner
    BY <1>0 DEF Object
  <2>2. Exists(c) /\ Edit(c, o)
    BY <1>4 DEF SetIdentityRef
  <2> HIDE DEF o
  <2>3. QED
    BY <2>1, <2>2, EditVisible
<1>5. CASE SetOwner(c)
  <2>0. PICK w \in {"cluster", "controlPlane"} : Edit(c, [tc[c] EXCEPT !.owner = w])
    BY <1>5 DEF SetOwner
  <2> DEFINE o == [tc[c] EXCEPT !.owner = w]
  <2>1. /\ o \in Object /\ o.phase = tc[c].phase /\ o.refs = tc[c].refs /\ o.ready = tc[c].ready
        /\ o.identityRef = tc[c].identityRef
    BY <1>0, <2>0 DEF Object
  <2>2. Exists(c) /\ Edit(c, o) /\ tc[c].owner # "controlPlane"
    BY <1>5, <2>0 DEF SetOwner
  <2> HIDE DEF o
  <2>3. QED
    BY <2>1, <2>2, EditVisible
<1>6. CASE DeleteCluster(c)
  <2> DEFINE q == IF tc[c].finalizer THEN "deleting" ELSE "gone"
             o == [tc[c] EXCEPT !.phase = q]
  <2>1. q \in {"deleting", "gone"} /\ (q = "gone" => ~tc[c].finalizer)
    BY <1>0, ObjectFields
  <2>2. Edit(c, o) /\ tc[c].phase = "live"
    BY <1>6 DEF DeleteCluster
  <2> HIDE DEF q
  <2>3. /\ o \in Object /\ o.phase = q /\ o.refs = tc[c].refs /\ o.ready = tc[c].ready
        /\ o.identityRef = tc[c].identityRef /\ o.owner = tc[c].owner
    BY <1>0, <2>1 DEF Object
  <2> HIDE DEF o
  <2>4. QED
    BY <2>1, <2>2, <2>3, EditVisible
<1>7. CASE MachineStep(c)
  <2>0. PICK m \in Machines : AddMachine(c, m) \/ JoinIPSet(c, m)
                               \/ LeaveIPSet(c, m) \/ RemoveMachine(c, m)
    BY <1>7 DEF MachineStep
  <2>1. /\ UNCHANGED <<tc, seen, res, vAppSetup, pc, cur, obj, orig>>
        /\ \A d \in Clusters : machines'[d] \subseteq machines[d] \/ tc[d].phase = "live"
    BY <1>0, <2>0 DEF TypeOK, AddMachine, JoinIPSet, LeaveIPSet, RemoveMachine, Outside,
                      apiVars, vcdVars, workerVars
  <2>2. CopyInv'
    BY <1>0, <2>1 DEF CopyInv, Admitted
  <2>3. \A d \in Clusters : tc[d].ready /\ machines'[d] # {} => Exists(d) /\ res[d] = Kinds
    BY <1>0, <2>1 DEF VisibleInv, Visible, VInv, FInv, LInv, IInv, CacheInv, CacheLags, Exists
  <2>4. VisibleInv'
    BY <1>0, <2>1, <2>3 DEF VisibleInv, Visible, Admitted, Exists
  <2>5. QED
    BY <2>2, <2>4
<1>8. QED
  BY <1>1, <1>2, <1>3, <1>4, <1>5, <1>6, <1>7 DEF Environment

----------------------------------------------------------------------------
(* The invariant, and what it says of a step.                              *)

\* The invariant holds initially.
LEMMA InitVisible == Init => VInv
<1> SUFFICES ASSUME Init PROVE VInv
  OBVIOUS
<1>1. /\ ~NewObject.identityRef /\ NewObject.owner # "controlPlane"
      /\ ~Records(NewObject) /\ VAppFirst(NewObject.refs) /\ "VApp" \notin NewObject.refs
  BY DEF NewObject, Records, VAppFirst
<1>2. \A c \in Clusters : tc[c] = NewObject /\ seen[c] = NewObject /\ vAppSetup[c] = {}
  BY DEF Init
<1>3. VisibleInv
  BY <1>1, <1>2, NewObjectType DEF VisibleInv, Visible
<1>4. CopyInv
  BY DEF Init, CopyInv
<1>5. QED
  BY <1>3, <1>4, InitFresh DEF VInv

\* Every step keeps the invariant, also a restart for the panic of another
\* controller in the process.
LEMMA NextVisible == VInv /\ [Next \/ (Restart /\ UNCHANGED <<faults, crashes>>)]_vars => VInv'
<1> SUFFICES ASSUME VInv, [Next \/ (Restart /\ UNCHANGED <<faults, crashes>>)]_vars
             PROVE  VInv'
  OBVIOUS
<1>1. FInv'
  <2>1. CASE [Next]_vars
    BY <2>1, NextFresh DEF VInv
  <2>2. CASE Restart /\ UNCHANGED <<faults, crashes>>
    <3>1. LInv /\ IInv /\ TypeOK /\ FInv
      BY DEF VInv, FInv, LInv, IInv
    <3>2. UNCHANGED faults /\ crashes' \in 0..MaxCrashes
      BY <2>2, <3>1 DEF TypeOK
    <3>3. TypeOK'
      BY <2>2, <3>1, <3>2, RestartType
    <3>4. LInv'
      BY <2>2, <3>1, <3>3, RestartInv, RestartOwnership DEF LInv
    <3>5. QED
      BY <2>2, <3>1, <3>4, RestartFresh DEF FInv
  <2>3. QED
    BY <2>1, <2>2
<1>2. VisibleInv' /\ CopyInv'
  <2>1. CASE Worker
    BY <2>1, ReconcileVisible, ProvisionVisible, DeleteVisible, SaveVisible, RestartVisible
       DEF Worker, Die
  <2>2. CASE Restart
    BY <2>2, RestartVisible
  <2>3. CASE \E c \in Clusters : Environment(c)
    BY <2>3, EnvironmentVisible
  <2>4. CASE UNCHANGED vars
    BY <2>4, CacheStep DEF vars, apiVars, vcdVars, workerVars, VInv, CopyInv, Admitted
  <2>5. QED
    BY <2>1, <2>2, <2>3, <2>4 DEF Next, Crash
<1>3. QED
  BY <1>1, <1>2 DEF VInv

\* What the cache shows of a cluster holds in every reachable state: among other
\* things a cluster that got ready keeps all of its resources as long as it has
\* Machines, also while it is being deleted.
THEOREM VisibleInvariance == Spec => []VisibleInv
<1>1. VInv /\ [Next]_vars => VInv'
  BY NextVisible
<1>2. VInv => VisibleInv
  BY DEF VInv
<1>3. QED
  BY <1>1, <1>2, InitVisible, PTL DEF Spec

\* How a step of the cluster controller moves a vApp: it leaves it alone, creates
\* it or attaches its network before the Status names it, or removes it when the
\* cached Status names it and no Machine is left.
VAppStep(c) ==
    \/ /\ "VApp" \in res'[c] <=> "VApp" \in res[c]
       /\ "network" \in vAppSetup'[c] <=> "network" \in vAppSetup[c]
    \/ /\ "VApp" \notin res[c] /\ "VApp" \in res'[c] /\ vAppSetup'[c] = {}
       /\ seen[c].identityRef /\ seen[c].refs = {}
    \/ /\ "VApp" \in res[c] /\ "VApp" \in res'[c]
       /\ "network" \notin vAppSetup[c] /\ "network" \in vAppSetup'[c]
       /\ seen[c].identityRef /\ seen[c].refs = {}
    \/ /\ "VApp" \in res[c] /\ "VApp" \notin res'[c]
       /\ "VApp" \in seen[c].refs /\ machines[c] = {}

\* Every step of a reconcile is such a step, and changes neither cache nor Machines.
LEMMA ReconcileStep ==
    ASSUME VInv, NEW c \in Clusters,
           Reconcile(c) \/ Provision \/ Delete \/ Save
    PROVE  UNCHANGED <<seen, machines, crashes>> /\ VAppStep(c)
<1>0. VisibleInv /\ CopyInv /\ FInv /\ LInv /\ IInv /\ TypeOK
  BY DEF VInv, FInv, LInv, IInv
<1>1. CASE Reconcile(c)
  BY <1>1 DEF Reconcile, ReconcileNotFound, ReconcileOwnerError, ReconcileDeleted, AddFinalizer,
              ReconcileNoIdentity, ReconcileLive, Take, vcdVars, VAppStep
<1>2. CASE Save
  BY <1>2 DEF Save, PatchConditions, PatchSpec, PatchStatus, Patch, Finish, vcdVars, VAppStep
<1>3. CASE Provision
  <2>0. /\ cur \in Clusters /\ pc \in ProvisionStages /\ pc # "idle"
        /\ \A d \in Clusters : res[d] \subseteq res'[d]
        /\ UNCHANGED <<seen, machines>>
    BY <1>0, <1>3, ProvisionEffect, ProvisionGrows, ProvisionShows, RecordShows DEF ProvisionStages
  <2>1. UNCHANGED crashes
    BY <1>3 DEF Provision, Connect, AllocateAddress, EndpointReady, EnsureIPSet, EnsurePool,
                EnsureVirtualService, EnsureVApp, AttachNetwork, PowerOnVApp, Record, WorkerOnly
  <2>2. \A d \in Clusters \ {cur} : res'[d] = res[d] /\ vAppSetup'[d] = vAppSetup[d]
    <3>1. \A d \in Clusters \ {cur} : res'[d] = res[d]
      BY <1>0, <1>3, <2>0, ProvisionEffect DEF With, TypeOK
    <3>2. \A d \in Clusters \ {cur} : vAppSetup'[d] = vAppSetup[d]
      BY <1>0, <1>3, <2>0, ProvisionShows, RecordShows DEF TypeOK
    <3>3. QED
      BY <3>1, <3>2
  <2>3. "VApp" \notin tc[cur].refs => seen[cur].refs = {}
    <3>1. seen[cur].refs \subseteq tc[cur].refs /\ VAppFirst(seen[cur].refs)
      BY <1>0, <2>0 DEF IInv, CacheInv, CacheLags, VisibleInv, Visible
    <3>2. QED
      BY <3>1 DEF VAppFirst
  <2>4. seen[cur].identityRef
    BY <1>0, <2>0 DEF CopyInv
  <2>5. CASE "VApp" \notin res[cur]
    <3>1. vAppSetup[cur] = {} /\ "VApp" \notin tc[cur].refs
      BY <1>0, <2>0, <2>5 DEF VisibleInv, Visible, CopyInv
    <3>2. vAppSetup' = vAppSetup
      <4>1. pc \notin {"vAppNetwork", "vAppPowerOn"}
        BY <1>0, <2>5 DEF IInv, StageInv
      <4>2. QED
        BY <1>0, <1>3, <4>1, ProvisionShows, RecordShows
    <3>3. QED
      BY <2>0, <2>1, <2>2, <2>3, <2>4, <2>5, <3>1, <3>2 DEF VAppStep
  <2>6. CASE "VApp" \in res[cur]
    <3>1. "VApp" \in res'[cur]
      BY <2>0, <2>6
    <3>2. CASE "network" \in vAppSetup'[cur] <=> "network" \in vAppSetup[cur]
      BY <2>0, <2>1, <2>2, <2>6, <3>1, <3>2 DEF VAppStep
    <3>3. CASE ~("network" \in vAppSetup'[cur] <=> "network" \in vAppSetup[cur])
      <4>1. /\ pc = "vAppNetwork"
            /\ "network" \notin vAppSetup[cur] /\ "network" \in vAppSetup'[cur]
        BY <1>0, <1>3, <2>0, <3>3, ProvisionShows, RecordShows DEF TypeOK
      <4>2. "VApp" \notin tc[cur].refs
        BY <1>0, <2>0, <4>1 DEF CopyInv
      <4>3. QED
        BY <2>0, <2>1, <2>2, <2>3, <2>4, <2>6, <3>1, <4>1, <4>2 DEF VAppStep
    <3>4. QED
      BY <3>2, <3>3
  <2>7. QED
    BY <2>5, <2>6
<1>4. CASE Delete
  <2>0. /\ cur \in Clusters /\ pc \in DeleteStages /\ pc # "idle"
        /\ UNCHANGED <<seen, machines>>
        /\ \A d \in Clusters : res'[d] \subseteq res[d]
    BY <1>0, <1>4, DeleteEffect, DeleteShows, DeleteClears DEF DeleteStages
  <2>1. UNCHANGED crashes
    BY <1>4 DEF Delete, DeleteGate, DeleteConnect, DeleteVirtualService, DeletePool, DeleteIPSet,
                DeleteVApp, WorkerOnly
  <2>2. CASE /\ vAppSetup' = vAppSetup
             /\ \A d \in Clusters : "VApp" \in res[d] => "VApp" \in res'[d]
    BY <2>0, <2>1, <2>2 DEF VAppStep
  <2>3. CASE res' = res /\ vAppSetup' = [vAppSetup EXCEPT ![cur] = @ \ {"power"}]
    BY <1>0, <2>0, <2>1, <2>3 DEF VAppStep, TypeOK
  <2>4. CASE /\ pc = "deleteVApp" /\ "VApp" \in obj.refs /\ "VApp" \in res[cur]
             /\ res' = Without("VApp") /\ vAppSetup' = [vAppSetup EXCEPT ![cur] = {}]
    <3>1. "VApp" \in seen[cur].refs /\ machines[cur] = {}
      BY <1>0, <2>0, <2>4 DEF IInv, WorkerInv, CopyInv, DeleteStages
    <3>2. /\ "VApp" \notin res'[cur]
          /\ \A d \in Clusters \ {cur} : vAppSetup'[d] = vAppSetup[d] /\ res'[d] = res[d]
      BY <1>0, <2>0, <2>4 DEF TypeOK, Without
    <3>3. QED
      BY <2>0, <2>1, <2>4, <3>1, <3>2 DEF VAppStep
  <2>5. QED
    BY <1>0, <1>4, <2>2, <2>3, <2>4, DeleteShows
<1>5. QED
  BY <1>1, <1>2, <1>3, <1>4

\* Nothing takes Status.Ready back.
LEMMA ReadyStays ==
    ASSUME VInv, [Next \/ (Restart /\ UNCHANGED <<faults, crashes>>)]_vars,
           NEW c \in Clusters, tc[c].ready
    PROVE  tc'[c].ready
<1>0. LInv /\ TypeOK
  BY DEF VInv, FInv, LInv, IInv
<1>1. CASE UNCHANGED tc
  BY <1>1
<1>2. CASE PatchConditions \/ PatchSpec \/ PatchStatus
  BY <1>0, <1>2, PatchEffect
<1>3. CASE \E d \in Clusters : Environment(d)
  <2>1. PICK d \in Clusters : Environment(d)
    BY <1>3
  <2>2. CASE \E o \in Object : tc' = [tc EXCEPT ![d] = o] /\ o.ready = tc[d].ready
    BY <1>0, <2>2 DEF TypeOK
  <2>3. QED
    BY <1>0, <1>1, <2>1, <2>2, EnvironmentEffect
<1>4. CASE Provision \/ Delete
  BY <1>0, <1>1, <1>4, ProvisionEffect, DeleteEffect
<1>5. CASE Restart \/ Finish \/ Die \/ Crash \/ UNCHANGED vars
  BY <1>1, <1>5 DEF Restart, Finish, Die, Crash, vars, apiVars
<1>6. CASE \E d \in Clusters : Reconcile(d)
  BY <1>1, <1>6 DEF Reconcile, ReconcileNotFound, ReconcileOwnerError, ReconcileDeleted, AddFinalizer,
              ReconcileNoIdentity, ReconcileLive, Take
<1>7. QED
  BY <1>2, <1>3, <1>4, <1>5, <1>6 DEF Next, Worker, Save

\* reconcileDelete removes an IP set only when no address is left in it.
LEMMA IPSetRemovedEmpty ==
    ASSUME VInv, NEW c \in Clusters, Reconcile(c) \/ Provision \/ Delete \/ Save,
           "IPSet" \in res[c], "IPSet" \notin res'[c]
    PROVE  ips[c] = {}
<1>0. LInv /\ IInv /\ TypeOK
  BY DEF VInv, FInv, LInv, IInv
<1>1. CASE Delete
  <2>0. cur \in Clusters
    BY <1>0, <1>1, DeleteEffect
  <2>1. CASE ~DeleteIPSet
    <3>1. res' \in {res, Without("VirtualService"), Without("Pool"), Without("VApp")}
      BY <1>1, <2>1 DEF Delete, DeleteGate, DeleteConnect, DeleteVirtualService, DeletePool, DeleteVApp,
                        WorkerOnly, vcdVars
    <3>2. QED
      BY <1>0, <2>0, <3>1 DEF Without, TypeOK
  <2>2. CASE DeleteIPSet
    <3>1. res' = res \/ (res' = Without("IPSet") /\ ips[cur] = {})
      BY <2>2 DEF DeleteIPSet
    <3>2. QED
      BY <1>0, <2>0, <3>1 DEF Without, TypeOK
  <2>3. QED
    BY <2>1, <2>2
<1>2. CASE Provision
  BY <1>0, <1>2, ProvisionGrows
<1>3. CASE Reconcile(c)
  BY <1>3 DEF Reconcile, ReconcileNotFound, ReconcileOwnerError, ReconcileDeleted, AddFinalizer,
              ReconcileNoIdentity, ReconcileLive, Take, vcdVars
<1>4. CASE Save
  BY <1>4 DEF Save, PatchConditions, PatchSpec, PatchStatus, Patch, Finish, vcdVars
<1>5. QED
  BY <1>1, <1>2, <1>3, <1>4

=============================================================================
