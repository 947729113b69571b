--------------------- MODULE TenantCluster_fresh_proofs ---------------------
(***************************************************************************)
(* What TenantCluster guarantees when a reconcile reads an object that is  *)
(* up to date (FreshReads): deletion leaves nothing recorded behind, and   *)
(* the control plane endpoint is served by the cluster's own virtual       *)
(* service. Proved for every set of clusters, machines and addresses and   *)
(* every bound on failures and crashes.                                    *)
(***************************************************************************)
EXTENDS TenantCluster_refinement

\* Stages in which the endpoint is known to be stored.
ServiceStages == ProvisionStages \ {"connect", "endpoint"}

\* A virtual service listens on an address, and no two on the same one.
VipInv ==
    /\ \A c \in Clusters : "VirtualService" \in res[c] => vip[c] # NoAddress
    /\ \A c, d \in Clusters : vip[c] = vip[d] /\ vip[c] # NoAddress => c = d

\* Of a reconcile that read a fresh object: until its own patches the stored
\* references and endpoint are the ones it read; deletion adds no reference and
\* ends with everything referred to removed; an address is only ever allocated
\* for an object that has none, and not used before it is stored.
FreshCopy ==
    /\ pc # "return" => orig.refs = tc[cur].refs
    /\ obj.phase = "deleting" => obj.refs = orig.refs
    /\ orig.finalizer /\ ~obj.finalizer => obj.refs \cap res[cur] = {}
    /\ pc = "deleteVApp" => ~("IPSet" \in obj.refs /\ "IPSet" \in res[cur])
    /\ pc \notin {"patchStatus", "return"} => orig.host = tc[cur].host
    /\ obj.host # orig.host => orig.host = NoAddress
    /\ pc \in ProvisionStages \cup DeleteStages => obj.host = orig.host
    /\ pc \in ServiceStages => obj.host # NoAddress

FreshInv == FreshReads => GoneIsClean /\ EndpointServed /\ (pc # "idle" => FreshCopy)

FInv == LInv /\ VipInv /\ FreshInv

----------------------------------------------------------------------------
(* Objects: what leaves the endpoint alone.                                *)

\* Conditions, finalizer, references and Ready do not touch the endpoint.
LEMMA HostKept ==
    ASSUME NEW o \in Object
    PROVE  /\ \A types : MarkTrue(o, types).host = o.host
           /\ \A type \in CondTypes : MarkFalse(o, type).host = o.host
           /\ \A f \in BOOLEAN : [o EXCEPT !.finalizer = f].host = o.host
           /\ \A r : [o EXCEPT !.refs = @ \cup r].host = o.host
           /\ [o EXCEPT !.ready = TRUE].host = o.host
BY DEF MarkTrue, MarkFalse, Object

----------------------------------------------------------------------------
(* Provisioning and deletion.                                              *)

\* What a call of the provisioning chain does to endpoint and virtual service.
LEMMA ProvisionHost ==
    ASSUME LInv, Provision
    PROVE  /\ obj'.phase = obj.phase
           /\ obj'.host = obj.host \/ (obj.host = NoAddress /\ pc' = "patchConditions")
           /\ pc' \in ServiceStages => pc \in ServiceStages \/ obj.host # NoAddress
           /\ \/ vip' = vip /\ \A c \in Clusters : "VirtualService" \in res'[c]
                                                     => "VirtualService" \in res[c]
              \/ /\ pc = "virtualService" /\ obj.host \in UnusedAddresses
                 /\ ListenOn(obj.host)
<1>0. TypeOK /\ obj \in Object /\ cur \in Clusters
  BY ProvisionEffect DEF LInv, IInv, TypeOK
<1>1. ASSUME NEW k \in {"IPSet", "Pool", "VApp"}, res' = With(k)
      PROVE  \A c \in Clusters : "VirtualService" \in res'[c] => "VirtualService" \in res[c]
  BY <1>0, <1>1 DEF TypeOK, With
<1>2. CASE Connect
  <2>1. /\ UNCHANGED <<vip, res>> /\ pc' \in {"endpoint", "patchConditions"}
        /\ obj' \in {obj, MarkFalse(obj, "ExternalIPAddressReady")}
    BY <1>2 DEF Connect, WorkerOnly, Goto, Return, Panic, vcdVars
  <2>2. obj'.phase = obj.phase /\ obj'.host = obj.host
    <3>1. "ExternalIPAddressReady" \in CondTypes
      BY DEF CondTypes
    <3>2. QED
      BY <1>0, <2>1, <3>1, MarkFalseType, HostKept, Zenon
  <2>3. pc' \notin ServiceStages
    BY <2>1 DEF ServiceStages, ProvisionStages
  <2>4. QED
    BY <2>1, <2>2, <2>3
<1>3. CASE AllocateAddress
  <2>1. /\ UNCHANGED <<vip, res>> /\ pc' = "patchConditions" /\ obj.host = NoAddress
        /\ \/ \E a \in UnusedAddresses : obj' = [obj EXCEPT !.host = a]
           \/ obj' = MarkFalse(obj, "ExternalIPAddressReady")
    BY <1>3 DEF AllocateAddress, WorkerOnly, Return, vcdVars
  <2>2. obj'.phase = obj.phase
    <3>1. ASSUME NEW a \in UnusedAddresses, obj' = [obj EXCEPT !.host = a]
          PROVE  obj'.phase = obj.phase
      BY <1>0, <3>1, SetHostType DEF UnusedAddresses
    <3>2. CASE obj' = MarkFalse(obj, "ExternalIPAddressReady")
      BY <1>0, <3>2, MarkFalseType DEF CondTypes
    <3>3. QED
      BY <2>1, <3>1, <3>2
  <2>3. QED
    BY <2>1, <2>2 DEF ServiceStages, ProvisionStages
<1>4. CASE EndpointReady
  <2>1. /\ UNCHANGED <<vip, res>> /\ pc' \in {"ipSet", "patchConditions"} /\ obj.host # NoAddress
        /\ obj' = MarkTrue(obj, {"ExternalIPAddressReady"})
    BY <1>4 DEF EndpointReady, WorkerOnly, Return, vcdVars
  <2>2. QED
    BY <1>0, <2>1, MarkTrueType, HostKept
<1>5. CASE EnsureIPSet \/ EnsurePool
  <2>1. /\ vip' = vip /\ obj' = obj /\ pc \in ServiceStages
        /\ res' \in {res, With("IPSet"), With("Pool")}
    BY <1>5 DEF EnsureIPSet, EnsurePool, CreateFailed, LookupSwallowed, Goto, Return, Panic,
                ServiceStages, ProvisionStages
  <2>2. QED
    BY <1>1, <2>1
<1>6. CASE EnsureVirtualService
  <2>1. /\ obj' \in {obj, MarkFalse(obj, "VirtualServiceReady")}
        /\ \/ UNCHANGED <<vip, res>>
           \/ obj.host \in UnusedAddresses /\ ListenOn(obj.host)
    BY <1>6 DEF EnsureVirtualService, Goto, Return, Panic
  <2>2. pc = "virtualService" /\ pc \in ServiceStages
    BY <1>6 DEF EnsureVirtualService, ServiceStages, ProvisionStages
  <2>3. obj'.phase = obj.phase /\ obj'.host = obj.host
    BY <1>0, <2>1, MarkFalseType, HostKept DEF CondTypes
  <2>4. QED
    BY <2>1, <2>2, <2>3
<1>7. CASE EnsureVApp
  <2>1. /\ vip' = vip /\ pc \in ServiceStages
        /\ obj' \in {obj, MarkFalse(obj, "VAppReady")} /\ res' \in {res, With("VApp")}
    BY <1>7 DEF EnsureVApp, CreateFailed, Goto, Return, ServiceStages, ProvisionStages
  <2>2. obj'.phase = obj.phase /\ obj'.host = obj.host
    BY <1>0, <2>1, MarkFalseType, HostKept DEF CondTypes
  <2>3. QED
    BY <1>1, <2>1, <2>2
<1>8. CASE AttachNetwork \/ PowerOnVApp
  BY <1>8 DEF AttachNetwork, PowerOnVApp, Goto, Return, ServiceStages, ProvisionStages
<1>9. CASE Record
  <2>1. PICK r \in SUBSET Kinds, t \in SUBSET CondTypes :
            LET o == [MarkTrue(obj, t) EXCEPT !.refs = @ \cup r] IN
            \/ nilRefs = {} /\ Return([o EXCEPT !.ready = TRUE], FALSE)
            \/ Panic(o)
    BY <1>9, RecordShape
  <2> DEFINE o == [MarkTrue(obj, t) EXCEPT !.refs = @ \cup r]
  <2>2. o \in Object /\ o.phase = obj.phase /\ o.host = obj.host
    BY <1>0, MarkTrueType, AddRefsType, HostKept
  <2>3. UNCHANGED <<vip, res>> /\ pc \in ServiceStages
    BY <1>9 DEF Record, WorkerOnly, vcdVars, ServiceStages, ProvisionStages
  <2>4. obj' \in {o, [o EXCEPT !.ready = TRUE]}
    BY <2>1 DEF Return, Panic
  <2> HIDE DEF o
  <2>5. obj'.phase = obj.phase /\ obj'.host = obj.host
    BY <2>2, <2>4, SetReadyType, HostKept
  <2>6. QED
    BY <2>3, <2>5
<1>10. QED
  BY <1>2, <1>3, <1>4, <1>5, <1>6, <1>7, <1>8, <1>9 DEF Provision

\* Provisioning keeps what is said of the copy, and a clean deletion clean.
LEMMA ProvisionClean ==
    ASSUME FInv, Provision, FreshReads => EndpointServed'
    PROVE  FreshInv'
<1> SUFFICES ASSUME FreshReads PROVE GoneIsClean' /\ FreshCopy'
  BY DEF FreshInv
<1>0. /\ LInv /\ IInv /\ TypeOK /\ cur \in Clusters /\ pc # "idle"
      /\ UNCHANGED <<tc, cur, orig>> /\ pc \in ProvisionStages
      /\ pc' \in ProvisionStages \cup {"patchConditions"}
      /\ obj'.finalizer = obj.finalizer
  BY ProvisionEffect DEF FInv, LInv, IInv, ProvisionStages
<1>1. obj.finalizer /\ obj.phase = "live" /\ FreshCopy /\ GoneIsClean
  BY <1>0 DEF IInv, WorkerInv, FInv, FreshInv
<1>2. GoneIsClean'
  BY <1>0, <1>1, ProvisionGrows DEF GoneIsClean
<1>3. obj'.phase # "deleting" /\ obj'.finalizer
  BY <1>0, <1>1, ProvisionHost
<1>4. pc' \notin DeleteStages \cup {"patchSpec", "patchStatus", "return"}
  BY <1>0 DEF ProvisionStages, DeleteStages
<1>5. pc \notin {"patchStatus", "return"} /\ obj.host = orig.host
  BY <1>0, <1>1 DEF ProvisionStages, FreshCopy
<1>6. /\ obj'.host # orig'.host => orig'.host = NoAddress
      /\ pc' \in ProvisionStages => obj'.host = orig'.host
      /\ pc' \in ServiceStages => obj'.host # NoAddress
  <2>1. pc' = "patchConditions" => pc' \notin ProvisionStages /\ pc' \notin ServiceStages
    BY DEF ProvisionStages, ServiceStages
  <2>2. QED
    BY <1>0, <1>1, <1>5, <2>1, ProvisionHost DEF FreshCopy
<1>7. FreshCopy'
  BY <1>0, <1>1, <1>3, <1>4, <1>5, <1>6 DEF FreshCopy, DeleteStages
<1>8. QED
  BY <1>2, <1>7

\* Provisioning keeps the invariant: a virtual service is created on the stored
\* endpoint, on an address that no other virtual service has.
LEMMA ProvisionFresh ==
    ASSUME FInv, Provision
    PROVE  VipInv' /\ FreshInv'
<1>0. /\ LInv /\ TypeOK /\ cur \in Clusters /\ pc # "idle"
      /\ UNCHANGED <<tc, cur, orig>> /\ pc \in ProvisionStages
      /\ pc' \in ProvisionStages \cup {"patchConditions"}
      /\ obj'.finalizer = obj.finalizer
  BY ProvisionEffect DEF FInv, LInv, IInv, ProvisionStages
<1>1. FreshReads => EndpointServed
  BY DEF FInv, FreshInv
<1>2. CASE vip' = vip /\ \A c \in Clusters : "VirtualService" \in res'[c]
                                               => "VirtualService" \in res[c]
  <2>1. VipInv'
    BY <1>2 DEF FInv, VipInv
  <2>2. FreshReads => EndpointServed'
    BY <1>0, <1>1, <1>2 DEF EndpointServed, Exists
  <2>3. QED
    BY <2>1, <2>2, ProvisionClean
<1>3. CASE /\ pc = "virtualService" /\ obj.host \in UnusedAddresses
           /\ ListenOn(obj.host)
  <2>1. /\ vip'[cur] = obj.host /\ obj.host # NoAddress
        /\ \A c \in Clusters \ {cur} : vip'[c] = vip[c] /\ res'[c] = res[c] /\ vip[c] # obj.host
    BY <1>0, <1>3, SentinelAssumption DEF ListenOn, With, UnusedAddresses, TypeOK
  <2>2. VipInv'
    BY <2>1 DEF FInv, VipInv
  <2>3. FreshReads => obj.host = tc[cur].host
    BY <1>0, <1>3 DEF FInv, FreshInv, FreshCopy, ProvisionStages
  <2>4. FreshReads => EndpointServed'
    BY <1>0, <1>1, <2>1, <2>3 DEF EndpointServed, Exists
  <2>5. QED
    BY <2>2, <2>4, ProvisionClean
<1>4. QED
  BY <1>0, <1>2, <1>3, ProvisionHost

\* What a call of reconcileDelete does: it removes, and once it lets the object go
\* the vApp, which is looked at last, is gone if it was recorded.
LEMMA DeleteClears ==
    ASSUME LInv, Delete
    PROVE  /\ obj'.phase = obj.phase /\ obj'.refs = obj.refs /\ obj'.host = obj.host
           /\ \A c \in Clusters : /\ res'[c] \subseteq res[c]
                                  /\ vip'[c] # vip[c] => /\ vip'[c] = NoAddress
                                                         /\ "VirtualService" \notin res'[c]
           /\ pc' = "deleteVApp" => ~("IPSet" \in obj.refs /\ "IPSet" \in res'[cur])
           /\ \/ obj'.finalizer = obj.finalizer
              \/ pc = "deleteVApp" /\ ~("VApp" \in obj.refs /\ "VApp" \in res'[cur])
<1>0. TypeOK /\ obj \in Object /\ cur \in Clusters
  BY DeleteEffect DEF LInv, IInv, TypeOK
<1>a. \A c \in Clusters : res'[c] \subseteq res[c]
  BY <1>0, DeleteEffect DEF TypeOK, Without
<1>1. CASE DeleteGate \/ DeleteConnect
  BY <1>a, <1>1 DEF DeleteGate, DeleteConnect, WorkerOnly, Goto, Return, Panic, vcdVars
<1>2. CASE DeleteVirtualService
  <2>1. /\ obj' = obj /\ pc' \in {"deletePool", "patchConditions"}
        /\ \/ UNCHANGED vip
           \/ vip' = [vip EXCEPT ![cur] = NoAddress] /\ res' = Without("VirtualService")
    BY <1>2 DEF DeleteVirtualService, Goto, Return
  <2>2. \A c \in Clusters : vip'[c] # vip[c] => /\ vip'[c] = NoAddress
                                                /\ "VirtualService" \notin res'[c]
    BY <1>0, <2>1 DEF TypeOK, Without
  <2>3. QED
    BY <1>a, <2>1, <2>2
<1>3. CASE DeletePool
  BY <1>a, <1>3 DEF DeletePool, Goto, Return
<1>4. CASE DeleteIPSet
  <2>1. UNCHANGED <<vip, obj>>
    BY <1>4 DEF DeleteIPSet, Goto, Return
  <2>2. pc' = "deleteVApp" => (~Recorded("IPSet") /\ UNCHANGED res) \/ res' = Without("IPSet")
    BY <1>4 DEF DeleteIPSet, Goto, Return
  <2>3. QED
    BY <1>0, <1>a, <2>1, <2>2 DEF Recorded, Has, Without, TypeOK
<1>5. CASE DeleteVApp
  <2>1. /\ vip' = vip /\ pc = "deleteVApp" /\ pc' = "patchConditions"
        /\ \/ obj' = obj
           \/ /\ obj' = [obj EXCEPT !.finalizer = FALSE]
              /\ (~Recorded("VApp") /\ UNCHANGED res) \/ res' = Without("VApp")
    BY <1>5 DEF DeleteVApp, Return
  <2>2. obj'.phase = obj.phase /\ obj'.refs = obj.refs /\ obj'.host = obj.host
    BY <1>0, <2>1, SetFinalizerType, HostKept
  <2>3. QED
    BY <1>0, <1>a, <2>1, <2>2 DEF Recorded, Has, Without, TypeOK
<1>6. QED
  BY <1>1, <1>2, <1>3, <1>4, <1>5 DEF Delete

\* Deletion keeps the invariant: when the finalizer goes, the four resources have
\* been looked at one after the other, and what was recorded is gone.
LEMMA DeleteFresh ==
    ASSUME FInv, Delete
    PROVE  VipInv' /\ FreshInv'
<1>0. /\ LInv /\ IInv /\ TypeOK /\ cur \in Clusters /\ pc # "idle"
      /\ UNCHANGED <<tc, cur, orig>> /\ pc \in DeleteStages
      /\ pc' \in DeleteStages \cup {"patchConditions"}
  BY DeleteEffect DEF FInv, LInv, IInv, DeleteStages
<1>1. VipInv'
  BY DeleteClears DEF FInv, VipInv
<1>2. ASSUME FreshReads PROVE GoneIsClean' /\ EndpointServed' /\ FreshCopy'
  <2>1. GoneIsClean /\ EndpointServed /\ FreshCopy
    BY <1>0, <1>2 DEF FInv, FreshInv
  <2>2. GoneIsClean'
    BY <1>0, <2>1, DeleteClears DEF GoneIsClean
  <2>3. EndpointServed'
    BY <1>0, <2>1, DeleteClears DEF EndpointServed, Exists
  <2>4. orig'.finalizer /\ ~obj'.finalizer => obj'.refs \cap res'[cur'] = {}
    <3>1. CASE obj'.finalizer = obj.finalizer
      BY <1>0, <2>1, <3>1, DeleteClears DEF FreshCopy
    <3>2. CASE pc = "deleteVApp" /\ ~("VApp" \in obj.refs /\ "VApp" \in res'[cur])
      <4>1. /\ ~("VirtualService" \in obj.refs /\ "VirtualService" \in res[cur])
            /\ ~("Pool" \in obj.refs /\ "Pool" \in res[cur])
            /\ ~("IPSet" \in obj.refs /\ "IPSet" \in res[cur])
        BY <1>0, <2>1, <3>2 DEF IInv, StageInv, FreshCopy
      <4>2. res'[cur] \subseteq res[cur] /\ res[cur] \subseteq Kinds /\ obj'.refs = obj.refs
        BY <1>0, DeleteClears DEF TypeOK
      <4>3. QED
        BY <1>0, <3>2, <4>1, <4>2 DEF Kinds
    <3>3. QED
      BY <1>0, <3>1, <3>2, DeleteClears
  <2>5. pc \notin {"patchStatus", "return"} /\ pc' \notin {"patchStatus", "return"}
    BY <1>0 DEF DeleteStages
  <2>6. pc' \notin ProvisionStages /\ pc' \notin ServiceStages
    BY <1>0 DEF DeleteStages, ProvisionStages, ServiceStages
  <2>7. FreshCopy'
    BY <1>0, <2>1, <2>4, <2>5, <2>6, DeleteClears DEF FreshCopy
  <2>8. QED
    BY <2>2, <2>3, <2>7
<1>3. QED
  BY <1>1, <1>2 DEF FreshInv

----------------------------------------------------------------------------
(* Patches, new reconciles, restarts and the environment.                  *)

\* What the patches do to the references, the endpoint and the phase.
LEMMA PatchWrites ==
    ASSUME LInv, PatchConditions \/ PatchSpec \/ PatchStatus
    PROVE  /\ UNCHANGED <<res, vip, cur, obj, orig>>
           /\ pc' \in {"patchSpec", "patchStatus", "return"}
           /\ \A c \in Clusters \ {cur} : tc'[c] = tc[c]
           /\ pc' # "return" => tc'[cur].refs = tc[cur].refs
           /\ pc' = "patchSpec" => pc = "patchConditions"
           /\ pc' # "patchStatus" => tc'[cur].host = tc[cur].host /\ tc'[cur].phase = tc[cur].phase
           /\ Exists(cur) \/ tc'[cur] = tc[cur]
           /\ pc' = "patchStatus" =>
                 /\ pc = "patchSpec"
                 /\ \/ tc'[cur].host = tc[cur].host
                    \/ tc'[cur].host = obj.host /\ obj.host # orig.host
                 /\ \/ tc'[cur].phase = tc[cur].phase
                    \/ orig.finalizer /\ ~obj.finalizer
<1>0. /\ TypeOK /\ cur \in Clusters /\ pc # "idle"
      /\ tc[cur] \in Object /\ obj \in Object /\ orig \in Object
  BY DEF LInv, IInv, TypeOK, PatchConditions, PatchSpec, PatchStatus
<1>1. ASSUME NEW changed, NEW new, NEW p \in {"patchSpec", "patchStatus", "return"},
             Patch(changed, new, p)
      PROVE  /\ UNCHANGED <<res, vip, cur, obj, orig>> /\ pc' = p
             /\ \A c \in Clusters \ {cur} : tc'[c] = tc[c]
             /\ tc'[cur] = tc[cur] \/ (tc'[cur] = new /\ changed /\ Exists(cur))
  BY <1>0, <1>1 DEF Patch, TypeOK, vcdVars
<1>2. CASE PatchConditions
  <2> DEFINE cs == [t \in CondTypes |-> IF obj.conds[t] # orig.conds[t]
                                       THEN obj.conds[t] ELSE tc[cur].conds[t]]
             new == [tc[cur] EXCEPT !.conds = cs]
  <2>1. Patch(obj.conds # orig.conds, new, "patchSpec") /\ pc = "patchConditions"
    BY <1>2 DEF PatchConditions
  <2> HIDE DEF cs
  <2>2. new.phase = tc[cur].phase /\ new.refs = tc[cur].refs /\ new.host = tc[cur].host
    BY <1>0 DEF Object
  <2> HIDE DEF new
  <2>3. QED
    BY <1>1, <2>1, <2>2
<1>3. CASE PatchSpec
  <2> DEFINE f == IF obj.finalizer # orig.finalizer THEN obj.finalizer ELSE tc[cur].finalizer
             h == IF obj.host # orig.host THEN obj.host ELSE tc[cur].host
             q == IF tc[cur].phase = "deleting" /\ ~f THEN "gone" ELSE tc[cur].phase
             new == [tc[cur] EXCEPT !.finalizer = f, !.host = h, !.phase = q]
             changed == obj.finalizer # orig.finalizer \/ obj.host # orig.host
  <2>1. Patch(changed, new, "patchStatus") /\ pc = "patchSpec"
    BY <1>3 DEF PatchSpec
  <2>2. h = tc[cur].host \/ (h = obj.host /\ obj.host # orig.host)
    OBVIOUS
  <2>3. tc[cur].phase = "deleting" => tc[cur].finalizer
    BY <1>0 DEF LInv, IInv, CacheInv, CacheLags
  <2>4. q = tc[cur].phase \/ (orig.finalizer /\ ~obj.finalizer)
    BY <1>0, <2>3, ObjectFields
  <2> HIDE DEF f, h, q, changed
  <2>5. new.phase = q /\ new.refs = tc[cur].refs /\ new.host = h
    BY <1>0 DEF Object
  <2> HIDE DEF new
  <2>6. QED
    BY <1>1, <2>1, <2>2, <2>4, <2>5
<1>4. CASE PatchStatus
  <2> DEFINE r == tc[cur].refs \cup (obj.refs \ orig.refs)
             d == IF obj.ready # orig.ready THEN obj.ready ELSE tc[cur].ready
             new == [tc[cur] EXCEPT !.refs = r, !.ready = d]
  <2>1. Patch(obj.refs # orig.refs \/ obj.ready # orig.ready, new, "return")
    BY <1>4 DEF PatchStatus
  <2> HIDE DEF r, d
  <2>2. new.phase = tc[cur].phase /\ new.host = tc[cur].host
    BY <1>0 DEF Object
  <2> HIDE DEF new
  <2>3. QED
    BY <1>1, <2>1, <2>2
<1>5. QED
  BY <1>2, <1>3, <1>4

\* Patches keep the invariant. The one that ends the object writes no reference
\* before; the one that stores an endpoint finds no virtual service.
LEMMA SaveFresh ==
    ASSUME FInv, Save
    PROVE  VipInv' /\ FreshInv'
<1>1. CASE Finish
  BY <1>1 DEF Finish, ResetWorker, vcdVars, FInv, VipInv, FreshInv, GoneIsClean, EndpointServed, Exists
<1>2. CASE PatchConditions \/ PatchSpec \/ PatchStatus
  <2>0. LInv /\ IInv /\ cur \in Clusters /\ pc # "idle" /\ pc # "return"
    BY <1>2 DEF FInv, LInv, IInv, TypeOK, PatchConditions, PatchSpec, PatchStatus
  <2>1. VipInv'
    BY <1>2, <2>0, PatchWrites DEF FInv, VipInv
  <2>2. ASSUME FreshReads PROVE GoneIsClean' /\ EndpointServed' /\ FreshCopy'
    <3>1. GoneIsClean /\ EndpointServed /\ FreshCopy
      BY <2>0, <2>2 DEF FInv, FreshInv
    <3>2. tc'[cur].phase = "gone" => tc'[cur].refs \cap res'[cur] = {}
      <4>1. CASE tc'[cur].phase = tc[cur].phase
        BY <1>2, <2>0, <3>1, <4>1, PatchWrites DEF GoneIsClean, Exists
      <4>2. CASE tc'[cur].phase # tc[cur].phase
        <5>1. /\ pc' = "patchStatus" /\ orig.finalizer /\ ~obj.finalizer
              /\ tc'[cur].refs = tc[cur].refs /\ res' = res
          BY <1>2, <2>0, <4>2, PatchWrites
        <5>2. obj.refs = tc[cur].refs /\ obj.refs \cap res[cur] = {}
          BY <2>0, <3>1, <5>1 DEF IInv, WorkerInv, FreshCopy
        <5>3. QED
          BY <5>1, <5>2
      <4>3. QED
        BY <4>1, <4>2
    <3>3. GoneIsClean'
      BY <1>2, <2>0, <3>1, <3>2, PatchWrites DEF GoneIsClean
    <3>4. Exists(cur)' /\ "VirtualService" \in res'[cur] => vip'[cur] = tc'[cur].host
      <4>1. CASE tc'[cur].host = tc[cur].host
        BY <1>2, <2>0, <3>1, <4>1, PatchEffect, PatchWrites DEF EndpointServed, Exists
      <4>2. CASE tc'[cur].host # tc[cur].host
        <5>1. pc = "patchSpec" /\ obj.host # orig.host /\ Exists(cur) /\ UNCHANGED <<res, vip>>
          BY <1>2, <2>0, <4>2, PatchWrites
        <5>2. tc[cur].host = NoAddress
          BY <3>1, <5>1 DEF FreshCopy
        <5>3. "VirtualService" \notin res[cur]
          BY <2>0, <3>1, <5>1, <5>2 DEF EndpointServed, FInv, VipInv
        <5>4. QED
          BY <5>1, <5>3
      <4>3. QED
        BY <4>1, <4>2
    <3>5. EndpointServed'
      BY <1>2, <2>0, <3>1, <3>4, PatchWrites DEF EndpointServed, Exists
    <3>6. pc' \notin ProvisionStages /\ pc' \notin DeleteStages /\ pc' \notin ServiceStages
      BY <1>2, <2>0, PatchWrites DEF ProvisionStages, DeleteStages, ServiceStages
    <3>7. FreshCopy'
      BY <1>2, <2>0, <3>1, <3>6, PatchWrites DEF FreshCopy, DeleteStages
    <3>8. QED
      BY <3>3, <3>5, <3>7
  <2>3. QED
    BY <2>1, <2>2 DEF FreshInv
<1>3. QED
  BY <1>1, <1>2 DEF Save

\* A new reconcile starts with the stored object.
LEMMA ReconcileFresh ==
    ASSUME FInv, NEW c \in Clusters, Reconcile(c)
    PROVE  VipInv' /\ FreshInv'
<1>0. /\ UNCHANGED <<tc, res, vip>> /\ seen[c] \in Object
      /\ FreshReads => seen[c] = tc[c]
  BY DEF FInv, LInv, IInv, TypeOK, Reconcile, ReconcileNotFound, ReconcileOwnerError, ReconcileDeleted,
         AddFinalizer, ReconcileNoIdentity, ReconcileLive, Take, vcdVars
<1>1. VipInv'
  BY <1>0 DEF FInv, VipInv
<1>2. FreshReads => GoneIsClean' /\ EndpointServed'
  BY <1>0 DEF FInv, FreshInv, GoneIsClean, EndpointServed, Exists
<1>3. CASE ReconcileNotFound(c)
  BY <1>0, <1>1, <1>2, <1>3 DEF ReconcileNotFound, workerVars, FInv, FreshInv, FreshCopy
<1>4. CASE ~ReconcileNotFound(c)
  <2>1. /\ cur' = c /\ orig' = seen[c] /\ pc' \in {"patchConditions", "deleteGate", "connect"}
        /\ obj' \in {seen[c], [seen[c] EXCEPT !.finalizer = TRUE]}
    <3>1. CASE ReconcileOwnerError(c) \/ AddFinalizer(c) \/ ReconcileNoIdentity(c)
      BY <3>1, Zenon DEF ReconcileOwnerError, AddFinalizer, ReconcileNoIdentity, ReturnAtOnce
    <3>2. CASE ReconcileDeleted(c) \/ ReconcileLive(c)
      BY <3>2, Zenon DEF ReconcileDeleted, ReconcileLive, Proceed
    <3>3. QED
      BY <1>4, <3>1, <3>2, Zenon DEF Reconcile
  <2>2. obj'.refs = orig'.refs /\ obj'.host = orig'.host /\ (orig'.finalizer => obj'.finalizer)
    BY <1>0, <2>1, SetFinalizerType, HostKept
  <2>3. pc' \notin ServiceStages /\ pc' \notin {"deleteVApp", "patchStatus", "return"}
    BY <2>1 DEF ServiceStages, ProvisionStages
  <2>4. FreshReads => FreshCopy'
    BY <1>0, <2>1, <2>2, <2>3 DEF FreshCopy
  <2>5. QED
    BY <1>1, <1>2, <2>4 DEF FreshInv
<1>5. QED
  BY <1>3, <1>4

\* A restart forgets the copy and changes nothing else.
LEMMA RestartFresh ==
    ASSUME FInv, Restart
    PROVE  VipInv' /\ FreshInv'
BY DEF Restart, ResetWorker, vcdVars, FInv, VipInv, FreshInv, GoneIsClean, EndpointServed, Exists

\* The environment changes neither references nor endpoints, and an object that is
\* dropped at once, or has just been created, owns nothing.
LEMMA EnvironmentFresh ==
    ASSUME FInv, NEW c \in Clusters, Environment(c)
    PROVE  VipInv' /\ FreshInv'
<1>0. LInv /\ TypeOK /\ UNCHANGED <<res, vip, pc, cur, obj, orig>>
  BY EnvironmentEffect DEF FInv, LInv, IInv, workerVars
<1>1. VipInv'
  BY <1>0 DEF FInv, VipInv
<1>2. CASE UNCHANGED tc
  BY <1>0, <1>1, <1>2 DEF FInv, FreshInv, FreshCopy, GoneIsClean, EndpointServed, Exists
<1>3. ASSUME NEW o \in Object, tc' = [tc EXCEPT ![c] = o],
             o.refs = tc[c].refs, o.host = tc[c].host,
             \/ o.phase = tc[c].phase
             \/ tc[c].phase = "absent" /\ o.phase = "live"
             \/ tc[c].phase = "live" /\ o.phase = "deleting"
             \/ tc[c].phase = "live" /\ o.phase = "gone" /\ ~tc[c].finalizer
      PROVE  FreshInv'
  <2>1. tc'[c] = o /\ \A d \in Clusters \ {c} : tc'[d] = tc[d]
    BY <1>0, <1>3 DEF TypeOK
  <2>2. tc[c].phase = "absent" \/ (tc[c].phase = "live" /\ ~tc[c].finalizer) => res[c] = {}
    BY <1>0, NewObjectType DEF LInv, OwnershipInv, IInv, CacheInv, CacheLags
  <2>3. GoneIsClean => GoneIsClean'
    BY <1>0, <1>3, <2>1, <2>2 DEF GoneIsClean
  <2>4. EndpointServed => EndpointServed'
    BY <1>0, <1>3, <2>1, <2>2 DEF EndpointServed, Exists
  <2>5. pc # "idle" => cur \in Clusters
    BY <1>0 DEF TypeOK
  <2>6. pc # "idle" /\ FreshCopy => FreshCopy'
    BY <1>0, <1>3, <2>1, <2>5 DEF FreshCopy
  <2>7. QED
    BY <1>0, <2>3, <2>4, <2>6 DEF FInv, FreshInv
<1>4. QED
  BY <1>1, <1>2, <1>3, EnvironmentEffect DEF FInv

----------------------------------------------------------------------------
(* The theorems.                                                           *)

\* The invariant holds initially.
LEMMA InitFresh == Init => FInv
BY InitInv, InitOwnership, NewObjectType
   DEF Init, FInv, LInv, VipInv, FreshInv, GoneIsClean, EndpointServed, Exists

\* The invariant is inductive.
LEMMA NextFresh == FInv /\ [Next]_vars => FInv'
<1> SUFFICES ASSUME FInv, [Next]_vars PROVE FInv'
  OBVIOUS
<1>0. LInv'
  BY NextOwnership DEF FInv
<1>1. CASE Worker
  BY <1>0, <1>1, ReconcileFresh, ProvisionFresh, DeleteFresh, SaveFresh, RestartFresh
     DEF Worker, Die, FInv
<1>2. CASE Crash
  BY <1>0, <1>2, RestartFresh DEF Crash, FInv
<1>3. CASE \E c \in Clusters : Environment(c)
  BY <1>0, <1>3, EnvironmentFresh DEF FInv
<1>4. CASE UNCHANGED vars
  BY <1>0, <1>4 DEF FInv, VipInv, FreshInv, FreshCopy, GoneIsClean, EndpointServed, Exists,
                    vars, apiVars, vcdVars, workerVars
<1>5. QED
  BY <1>1, <1>2, <1>3, <1>4 DEF Next

\* The strengthened invariant holds of every behaviour.
THEOREM FreshInvariance == Spec => []FInv
BY InitFresh, NextFresh, PTL DEF Spec

\* With fresh reads nothing that Status refers to is left in VCD when
\* reconcileDelete lets the object go.
THEOREM GoneIsCleanHolds == Spec => [](FreshReads => GoneIsClean)
<1>1. FInv => (FreshReads => GoneIsClean)
  BY DEF FInv, FreshInv
<1>2. QED
  BY <1>1, FreshInvariance, PTL

\* With fresh reads the virtual service of a cluster listens on the address that
\* the cluster publishes as its control plane endpoint.
THEOREM EndpointServedHolds == Spec => [](FreshReads => EndpointServed)
<1>1. FInv => (FreshReads => EndpointServed)
  BY DEF FInv, FreshInv
<1>2. QED
  BY <1>1, FreshInvariance, PTL

\* With fresh reads no two live clusters that are ready publish the same endpoint,
\* although both may have been given it: VCD serves an address only once.
THEOREM ReadyEndpointsDistinctHolds == Spec => [](FreshReads => ReadyEndpointsDistinct)
<1>1. FInv => (FreshReads => ReadyEndpointsDistinct)
  <2> SUFFICES ASSUME FInv, FreshReads, NEW c \in Clusters, NEW d \in Clusters,
                      tc[c].phase = "live", tc[c].ready, tc[d].phase = "live", tc[d].ready,
                      tc[c].host = tc[d].host
               PROVE  c = d
    BY DEF ReadyEndpointsDistinct
  <2>1. res[c] = Kinds /\ res[d] = Kinds
    BY DEF FInv, LInv, IInv, CacheInv, CacheLags
  <2>2. vip[c] = tc[c].host /\ vip[d] = tc[d].host /\ vip[c] # NoAddress
    BY <2>1 DEF FInv, FreshInv, EndpointServed, Exists, VipInv, Kinds
  <2>3. QED
    BY <2>2 DEF FInv, VipInv
<1>2. QED
  BY <1>1, FreshInvariance, PTL

=============================================================================
