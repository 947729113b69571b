--------------------------- MODULE TenantCluster ---------------------------
(***************************************************************************)
(* The CloudDirectorTenantCluster controller                               *)
(* (controllers/clouddirectortenantcluster_controller.go): one worker      *)
(* takes keys from a work queue, reads the object from the informer cache, *)
(* walks through a chain of Cloud Director (VCD) calls, and finally writes *)
(* the in-memory object back with three separate API patches.              *)
(*                                                                         *)
(* One action stands for one call that the outside world can see, so a     *)
(* crash, a failed call or another actor's step may fall between any two.  *)
(* A VCD resource is found by the name nameutil derives from the cluster;  *)
(* names are taken to be distinct per cluster, so a resource is identified *)
(* by its kind and its cluster.                                            *)
(***************************************************************************)
EXTENDS Naturals

CONSTANTS
    Clusters,    \* CloudDirectorTenantCluster objects that may be created
    Machines,    \* Cluster API Machines that may exist
    Addresses,   \* external IP addresses of the edge gateway
    NoAddress,   \* "": an unset ControlPlaneEndpoint.Host
    NoCluster,   \* the idle worker's key
    FreshReads,  \* TRUE: the informer cache has caught up when a reconcile reads it
    MaxFaults,   \* bound on failed VCD calls and API patches
    MaxCrashes   \* bound on process crashes

ASSUME SentinelAssumption == NoAddress \notin Addresses /\ NoCluster \notin Clusters
ASSUME FreshReadsAssumption == FreshReads \in BOOLEAN
ASSUME BoundAssumption == MaxFaults \in Nat /\ MaxCrashes \in Nat

Kinds == {"IPSet", "Pool", "VirtualService", "VApp"}
CondTypes == {"ExternalIPAddressReady", "VirtualServiceReady", "PoolReady",
              "IPSetReady", "VAppReady"}

\* The object as the API server stores it. "owner" is what GetOwnerCluster
\* yields: no owner, a Cluster without ControlPlaneRef, or one with it.
Object ==
    [phase: {"absent", "live", "deleting", "gone"},
     finalizer: BOOLEAN,
     identityRef: BOOLEAN,
     owner: {"none", "cluster", "controlPlane"},
     host: Addresses \cup {NoAddress},
     refs: SUBSET Kinds,
     ready: BOOLEAN,
     conds: [CondTypes -> {"Unset", "True", "False"}]]

NewObject ==
    [phase |-> "absent", finalizer |-> FALSE, identityRef |-> FALSE,
     owner |-> "none", host |-> NoAddress, refs |-> {}, ready |-> FALSE,
     conds |-> [t \in CondTypes |-> "Unset"]]

VARIABLES
    \* Kubernetes API server, informer cache, work queue
    tc, seen, queue,
    machines,     \* the Machines of each cluster, as the informer lists them
    \* Cloud Director
    res,          \* kinds of resource that exist for each cluster
    vip,          \* address of each cluster's virtual service
    ips,          \* machines whose address is in each cluster's IP set
    vAppSetup,    \* what has been done to each vApp: network attached, powered on
    \* the worker
    pc, cur, obj, orig, nilRefs, requeue, panicking,
    \* bounds
    faults, crashes

apiVars == <<tc, seen, queue>>
vcdVars == <<res, vip, ips, vAppSetup>>
workerVars == <<pc, cur, obj, orig, nilRefs, requeue, panicking>>
vars == <<apiVars, machines, vcdVars, workerVars, faults, crashes>>

Init ==
    /\ tc = [c \in Clusters |-> NewObject]
    /\ seen = tc
    /\ queue = {}
    /\ machines = [c \in Clusters |-> {}]
    /\ res = [c \in Clusters |-> {}]
    /\ vip = [c \in Clusters |-> NoAddress]
    /\ ips = [c \in Clusters |-> {}]
    /\ vAppSetup = [c \in Clusters |-> {}]
    /\ pc = "idle" /\ cur = NoCluster /\ obj = NewObject /\ orig = NewObject
    /\ nilRefs = {} /\ requeue = FALSE /\ panicking = FALSE
    /\ faults = 0 /\ crashes = 0

----------------------------------------------------------------------------
(* Control flow of a reconcile.                                            *)

NoFault == faults' = faults
Fault == faults < MaxFaults /\ faults' = faults + 1

Goto(p) == pc' = p /\ UNCHANGED <<cur, obj, orig, nilRefs, requeue, panicking>>

\* Reconcile returns: the deferred patchTenantCluster starts. "again" is TRUE
\* for an error and for RequeueAfter, which both put the key back in the queue.
Return(o, again) ==
    /\ pc' = "patchConditions" /\ obj' = o /\ requeue' = again
    /\ UNCHANGED <<cur, orig, nilRefs, panicking>>

\* A nil dereference: the deferred patch still runs, then the process dies
\* (controller-runtime v0.15 does not recover a panic by default).
Panic(o) ==
    /\ pc' = "patchConditions" /\ obj' = o /\ panicking' = TRUE
    /\ UNCHANGED <<cur, orig, nilRefs, requeue>>

\* The locals of a reconcile go with it.
ResetWorker ==
    /\ pc' = "idle" /\ cur' = NoCluster /\ obj' = NewObject /\ orig' = NewObject
    /\ nilRefs' = {} /\ requeue' = FALSE /\ panicking' = FALSE

MarkTrue(o, types) ==
    [o EXCEPT !.conds = [t \in CondTypes |-> IF t \in types THEN "True" ELSE @[t]]]
MarkFalse(o, type) == [o EXCEPT !.conds[type] = "False"]

\* Calls that change nothing but the worker.
WorkerOnly == UNCHANGED <<apiVars, machines, vcdVars, crashes>>

----------------------------------------------------------------------------
(* Reconcile: reading the object and choosing the branch.                  *)

\* The worker takes key c; the cache holds the object in one of "phases".
Take(c, phases) ==
    /\ pc = "idle" /\ c \in queue
    /\ FreshReads => seen[c] = tc[c]
    /\ seen[c].phase \in phases
    /\ queue' = queue \ {c}
    /\ UNCHANGED <<tc, seen, machines, vcdVars, crashes>>

\* The reconcile of key c goes on at p, or returns at once with object o.
Proceed(c, p) ==
    /\ pc' = p /\ cur' = c /\ obj' = seen[c] /\ orig' = seen[c]
    /\ UNCHANGED <<nilRefs, requeue, panicking>>
ReturnAtOnce(c, o, again) ==
    /\ pc' = "patchConditions" /\ cur' = c /\ obj' = o /\ orig' = seen[c]
    /\ requeue' = again /\ UNCHANGED <<nilRefs, panicking>>

ReconcileNotFound(c) ==
    /\ Take(c, {"absent", "gone"}) /\ NoFault
    /\ UNCHANGED workerVars

ReconcileOwnerError(c) ==
    /\ Take(c, {"live", "deleting"}) /\ seen[c].owner # "none" /\ Fault
    /\ ReturnAtOnce(c, seen[c], TRUE)

ReconcileDeleted(c) ==
    /\ Take(c, {"deleting"}) /\ NoFault
    /\ Proceed(c, "deleteGate")

AddFinalizer(c) ==
    /\ Take(c, {"live"}) /\ ~seen[c].finalizer /\ NoFault
    /\ ReturnAtOnce(c, [seen[c] EXCEPT !.finalizer = TRUE], FALSE)

ReconcileNoIdentity(c) ==
    /\ Take(c, {"live"}) /\ seen[c].finalizer /\ ~seen[c].identityRef /\ NoFault
    /\ ReturnAtOnce(c, seen[c], FALSE)

\* Mutant: the deletion timestamp is not looked at.
ReconcileLiveOrDeleted(c) ==
    /\ Take(c, {"live", "deleting"}) /\ seen[c].finalizer /\ seen[c].identityRef /\ NoFault
    /\ Proceed(c, "connect")

\* Mutant: a reconcile need not find the finalizer stored.
ReconcileLiveUnfinalized(c) ==
    /\ Take(c, {"live"}) /\ seen[c].identityRef /\ NoFault
    /\ Proceed(c, "connect")

ReconcileLive(c) ==
    /\ Take(c, {"live"}) /\ seen[c].finalizer /\ seen[c].identityRef /\ NoFault
    /\ Proceed(c, "connect")

Reconcile(c) ==
    \/ ReconcileNotFound(c) \/ ReconcileOwnerError(c) \/ ReconcileDeleted(c)
    \/ AddFinalizer(c) \/ ReconcileNoIdentity(c) \/ ReconcileLive(c)

----------------------------------------------------------------------------
(* Reconcile: provisioning.                                                *)

\* GetVCDClient, GetOrgByName, GetVDCByName, GetNsxtEdgeGateway... GetVCDClient
\* returns a nil client without an error for a Secret that lacks a key.
Connect ==
    /\ pc = "connect" /\ WorkerOnly
    /\ \/ NoFault /\ Goto("endpoint")
       \/ Fault /\ Return(MarkFalse(obj, "ExternalIPAddressReady"), TRUE)
       \/ Fault /\ Return(obj, TRUE)
       \/ Fault /\ Panic(obj)

UnusedAddresses == Addresses \ {vip[c] : c \in Clusters}

\* Mutant: an address is allocated although the endpoint has one.
AllocateAddressAgain ==
    /\ pc = "endpoint" /\ WorkerOnly /\ NoFault
    /\ \E a \in UnusedAddresses : Return([obj EXCEPT !.host = a], FALSE)

\* Any unused address stands for the first one that GetUnusedExternalIPAddresses
\* returns: which one that is depends on the whole gateway, not on these clusters.
AllocateAddress ==
    /\ pc = "endpoint" /\ obj.host = NoAddress /\ WorkerOnly
    /\ \/ \E a \in UnusedAddresses : NoFault /\ Return([obj EXCEPT !.host = a], FALSE)
       \/ /\ \/ UnusedAddresses = {} /\ NoFault
             \/ Fault
          /\ Return(MarkFalse(obj, "ExternalIPAddressReady"), TRUE)

EndpointReady ==
    LET o == MarkTrue(obj, {"ExternalIPAddressReady"}) IN
    /\ pc = "endpoint" /\ obj.host # NoAddress /\ WorkerOnly /\ NoFault
    /\ \/ obj.owner # "controlPlane" /\ Return(o, FALSE)
       \/ /\ obj.owner = "controlPlane"
          /\ pc' = "ipSet" /\ obj' = o
          /\ UNCHANGED <<cur, orig, nilRefs, requeue, panicking>>

Has(k) == k \in res[cur]
With(k) == [res EXCEPT ![cur] = @ \cup {k}]
Without(k) == [res EXCEPT ![cur] = @ \ {k}]

\* A lookup by name that fails for another reason than NotFound is not looked
\* at: the pointer stays nil and the reconcile goes on.
LookupSwallowed(k, p) ==
    /\ Fault /\ nilRefs' = nilRefs \cup {k} /\ pc' = p
    /\ UNCHANGED <<cur, obj, orig, requeue, panicking, res>>

\* A create call that reports an error may still have taken effect.
CreateFailed(k) == Fault /\ res' \in {res, With(k)}

\* Mutant: a failed create ends the reconcile without an error.
EnsureIPSetNoRequeue ==
    /\ pc = "ipSet" /\ UNCHANGED <<apiVars, machines, vip, ips, vAppSetup, crashes>>
    /\ \/ NoFault /\ Goto("pool") /\ res' = With("IPSet")
       \/ ~Has("IPSet") /\ CreateFailed("IPSet") /\ Return(obj, FALSE)

EnsureIPSet ==
    /\ pc = "ipSet" /\ UNCHANGED <<apiVars, machines, vip, ips, vAppSetup, crashes>>
    /\ \/ Has("IPSet") /\ NoFault /\ Goto("pool") /\ UNCHANGED res
       \/ ~Has("IPSet") /\ NoFault /\ Goto("pool") /\ res' = With("IPSet")
       \/ ~Has("IPSet") /\ CreateFailed("IPSet") /\ Return(obj, TRUE)
       \/ LookupSwallowed("IPSet", "pool")

\* Mutant: a nil IP set is sent as an empty MemberGroupRef.
EnsurePoolNilMemberGroup ==
    /\ pc = "pool" /\ UNCHANGED <<apiVars, machines, vip, ips, vAppSetup, crashes>>
    /\ NoFault /\ Goto("virtualService") /\ res' = With("Pool")

\* The pool's MemberGroupRef dereferences the IP set.
EnsurePool ==
    /\ pc = "pool" /\ UNCHANGED <<apiVars, machines, vip, ips, vAppSetup, crashes>>
    /\ \/ Has("Pool") /\ NoFault /\ Goto("virtualService") /\ UNCHANGED res
       \/ /\ ~Has("Pool") /\ "IPSet" \notin nilRefs
          /\ \/ NoFault /\ Goto("virtualService") /\ res' = With("Pool")
             \/ CreateFailed("Pool") /\ Return(obj, TRUE)
       \/ ~Has("Pool") /\ "IPSet" \in nilRefs /\ NoFault /\ Panic(obj) /\ UNCHANGED res
       \/ LookupSwallowed("Pool", "virtualService")

ListenOn(a) == vip' = [vip EXCEPT ![cur] = a] /\ res' = With("VirtualService")

\* Mutant: a refused creation is taken for a service that exists.
EnsureVirtualServiceIgnoresRefusal ==
    /\ pc = "virtualService" /\ UNCHANGED <<apiVars, machines, ips, vAppSetup, crashes>>
    /\ NoFault /\ Goto("vApp")
    /\ IF ~Has("VirtualService") /\ obj.host \in UnusedAddresses
       THEN ListenOn(obj.host) ELSE UNCHANGED <<res, vip>>

\* Mutant: a failed lookup of the virtual service is not looked at either.
EnsureVirtualServiceSwallowed ==
    /\ pc = "virtualService" /\ UNCHANGED <<apiVars, machines, vip, ips, vAppSetup, crashes>>
    /\ \/ Has("VirtualService") /\ NoFault /\ Goto("vApp") /\ UNCHANGED res
       \/ LookupSwallowed("VirtualService", "vApp")

\* The virtual service dereferences the pool; VCD refuses an address that
\* another virtual service of the gateway uses.
EnsureVirtualService ==
    LET new == ~Has("VirtualService") /\ "Pool" \notin nilRefs
        failed == MarkFalse(obj, "VirtualServiceReady") IN
    /\ pc = "virtualService" /\ UNCHANGED <<apiVars, machines, ips, vAppSetup, crashes>>
    /\ \/ Has("VirtualService") /\ NoFault /\ Goto("vApp") /\ UNCHANGED <<res, vip>>
       \/ Fault /\ Return(obj, TRUE) /\ UNCHANGED <<res, vip>>
       \/ /\ ~Has("VirtualService") /\ "Pool" \in nilRefs
          /\ NoFault /\ Panic(obj) /\ UNCHANGED <<res, vip>>
       \/ new /\ obj.host \in UnusedAddresses /\ NoFault /\ Goto("vApp") /\ ListenOn(obj.host)
       \/ new /\ obj.host \in UnusedAddresses /\ Fault /\ Return(failed, TRUE) /\ ListenOn(obj.host)
       \/ /\ new /\ Return(failed, TRUE) /\ UNCHANGED <<res, vip>>
          /\ \/ obj.host \notin UnusedAddresses /\ NoFault
             \/ Fault

\* Mutant: a failed lookup of the vApp is taken for a vApp that exists.
EnsureVAppSwallowed ==
    /\ pc = "vApp" /\ UNCHANGED <<apiVars, machines, vip, ips, vAppSetup, crashes>>
    /\ \/ ((Has("VApp") /\ NoFault) \/ Fault) /\ Goto("record") /\ UNCHANGED res
       \/ ~Has("VApp") /\ NoFault /\ Goto("vAppNetwork") /\ res' = With("VApp")

EnsureVApp ==
    /\ pc = "vApp" /\ UNCHANGED <<apiVars, machines, vip, ips, vAppSetup, crashes>>
    /\ \/ Has("VApp") /\ NoFault /\ Goto("record") /\ UNCHANGED res
       \/ Fault /\ Return(obj, TRUE) /\ UNCHANGED res
       \/ ~Has("VApp") /\ NoFault /\ Goto("vAppNetwork") /\ res' = With("VApp")
       \/ ~Has("VApp") /\ CreateFailed("VApp") /\ Return(MarkFalse(obj, "VAppReady"), TRUE)

SetUp(part) == vAppSetup' = [vAppSetup EXCEPT ![cur] = @ \cup {part}]

\* Only a reconcile that has just created the vApp attaches its network and
\* powers it on.
AttachNetwork ==
    /\ pc = "vAppNetwork" /\ UNCHANGED <<apiVars, machines, res, vip, ips, crashes>>
    /\ \/ NoFault /\ Goto("vAppPowerOn") /\ SetUp("network")
       \/ Fault /\ Return(obj, TRUE) /\ (SetUp("network") \/ UNCHANGED vAppSetup)

\* An error of the power-on task, unlike one of the call, is only logged.
PowerOnVApp ==
    /\ pc = "vAppPowerOn" /\ UNCHANGED <<apiVars, machines, res, vip, ips, crashes>>
    /\ \/ NoFault /\ Goto("record") /\ SetUp("power")
       \/ Fault /\ Goto("record") /\ UNCHANGED vAppSetup
       \/ Fault /\ Return(obj, TRUE) /\ (SetUp("power") \/ UNCHANGED vAppSetup)

\* The Status references are filled in the order vApp, virtual service, pool,
\* IP set; a nil pool or IP set panics half-way.
Record ==
    LET recorded == IF "Pool" \in nilRefs THEN {"VApp", "VirtualService"}
                    ELSE IF "IPSet" \in nilRefs THEN {"VApp", "VirtualService", "Pool"}
                    ELSE Kinds
        conds == {t \in CondTypes : \/ t = "VAppReady"
                                    \/ t = "VirtualServiceReady"
                                    \/ t = "PoolReady" /\ "Pool" \in recorded
                                    \/ t = "IPSetReady" /\ "IPSet" \in recorded}
        o == [MarkTrue(obj, conds) EXCEPT !.refs = @ \cup recorded] IN
    /\ pc = "record" /\ WorkerOnly /\ NoFault
    /\ \/ nilRefs = {} /\ Return([o EXCEPT !.ready = TRUE], FALSE)
       \/ nilRefs # {} /\ Panic(o)

Provision ==
    \/ Connect \/ AllocateAddress \/ EndpointReady \/ EnsureIPSet \/ EnsurePool
    \/ EnsureVirtualService \/ EnsureVApp \/ AttachNetwork \/ PowerOnVApp \/ Record

----------------------------------------------------------------------------
(* reconcileDelete.                                                        *)

\* Mutant: Machines are not waited for.
DeleteGateUnchecked ==
    /\ pc = "deleteGate" /\ WorkerOnly
    /\ obj.owner # "none" /\ NoFault /\ Goto("deleteConnect")

\* Mutant: Machines are waited for without a requeue.
DeleteGateNoRequeue ==
    /\ pc = "deleteGate" /\ WorkerOnly /\ obj.owner # "none" /\ NoFault
    /\ \/ machines[cur] # {} /\ Return(obj, FALSE)
       \/ machines[cur] = {} /\ Goto("deleteConnect")

\* GetFilteredMachinesForCluster dereferences the owner Cluster.
DeleteGate ==
    /\ pc = "deleteGate" /\ WorkerOnly
    /\ \/ obj.owner = "none" /\ NoFault /\ Panic(obj)
       \/ /\ obj.owner # "none"
          /\ \/ machines[cur] # {} /\ NoFault /\ Return(obj, TRUE)
             \/ machines[cur] = {} /\ NoFault /\ Goto("deleteConnect")
             \/ Fault /\ Return(obj, TRUE)

\* GetVCDClient dereferences Spec.IdentityRef.
DeleteConnect ==
    /\ pc = "deleteConnect" /\ WorkerOnly
    /\ \/ ~obj.identityRef /\ NoFault /\ Panic(obj)
       \/ /\ obj.identityRef
          /\ \/ NoFault /\ Goto("deleteVirtualService")
             \/ Fault /\ Return(obj, TRUE)
             \/ Fault /\ Panic(obj)

\* A recorded resource that still exists is deleted; an error, which may hide a
\* delete that took effect, ends the reconcile.
Recorded(k) == k \in obj.refs /\ Has(k)

DeleteVirtualService ==
    LET unlisten == vip' = [vip EXCEPT ![cur] = NoAddress]
                    /\ res' = Without("VirtualService") IN
    /\ pc = "deleteVirtualService"
    /\ UNCHANGED <<apiVars, machines, ips, vAppSetup, crashes>>
    /\ \/ ~Recorded("VirtualService") /\ NoFault /\ Goto("deletePool") /\ UNCHANGED <<res, vip>>
       \/ Recorded("VirtualService") /\ NoFault /\ Goto("deletePool") /\ unlisten
       \/ Recorded("VirtualService") /\ Fault /\ Return(obj, TRUE) /\ unlisten
       \/ "VirtualService" \in obj.refs /\ Fault /\ Return(obj, TRUE) /\ UNCHANGED <<res, vip>>

\* Mutant: an error of the delete is ignored.
DeletePoolIgnoresError ==
    /\ pc = "deletePool" /\ UNCHANGED <<apiVars, machines, vip, ips, vAppSetup, crashes>>
    /\ Goto("deleteIPSet")
    /\ \/ NoFault /\ res' = IF Recorded("Pool") THEN Without("Pool") ELSE res
       \/ Fault /\ UNCHANGED res

DeletePool ==
    /\ pc = "deletePool" /\ UNCHANGED <<apiVars, machines, vip, ips, vAppSetup, crashes>>
    /\ \/ ~Recorded("Pool") /\ NoFault /\ Goto("deleteIPSet") /\ UNCHANGED res
       \/ Recorded("Pool") /\ NoFault /\ Goto("deleteIPSet") /\ res' = Without("Pool")
       \/ "Pool" \in obj.refs /\ Fault /\ Return(obj, TRUE) /\ res' \in {res, Without("Pool")}

\* An IP set that still has addresses ends the reconcile without a requeue.
DeleteIPSet ==
    /\ pc = "deleteIPSet" /\ UNCHANGED <<apiVars, machines, vip, ips, vAppSetup, crashes>>
    /\ \/ ~Recorded("IPSet") /\ NoFault /\ Goto("deleteVApp") /\ UNCHANGED res
       \/ Recorded("IPSet") /\ ips[cur] # {} /\ NoFault /\ Return(obj, FALSE) /\ UNCHANGED res
       \/ /\ Recorded("IPSet") /\ ips[cur] = {}
          /\ \/ NoFault /\ Goto("deleteVApp") /\ res' = Without("IPSet")
             \/ Fault /\ Return(obj, TRUE) /\ res' = Without("IPSet")
       \/ "IPSet" \in obj.refs /\ Fault /\ Return(obj, TRUE) /\ UNCHANGED res

\* Undeploy, delete, and at the end RemoveFinalizer.
DeleteVApp ==
    LET clear == vAppSetup' = [vAppSetup EXCEPT ![cur] = {}] /\ res' = Without("VApp")
        undeploy == vAppSetup' = [vAppSetup EXCEPT ![cur] = @ \ {"power"}] /\ UNCHANGED res
        done == [obj EXCEPT !.finalizer = FALSE] IN
    /\ pc = "deleteVApp" /\ UNCHANGED <<apiVars, machines, vip, ips, crashes>>
    /\ \/ ~Recorded("VApp") /\ NoFault /\ Return(done, FALSE) /\ UNCHANGED <<res, vAppSetup>>
       \/ Recorded("VApp") /\ NoFault /\ Return(done, FALSE) /\ clear
       \/ Recorded("VApp") /\ Fault /\ Return(obj, TRUE) /\ (clear \/ undeploy)
       \/ "VApp" \in obj.refs /\ Fault /\ Return(obj, TRUE) /\ UNCHANGED <<res, vAppSetup>>

Delete ==
    \/ DeleteGate \/ DeleteConnect \/ DeleteVirtualService \/ DeletePool
    \/ DeleteIPSet \/ DeleteVApp

----------------------------------------------------------------------------
(* patchTenantCluster: three merge patches of what the reconcile changed,  *)
(* each attempted even if an earlier one failed.                           *)

Exists(c) == tc[c].phase \in {"live", "deleting"}

\* One patch: nothing to send, sent, or failed (NotFound once the object is
\* gone). After it the worker is at p.
Patch(changed, patched, p) ==
    /\ pc' = p
    /\ UNCHANGED <<seen, queue, machines, vcdVars, cur, obj, orig, nilRefs, panicking, crashes>>
    /\ \/ ~changed /\ NoFault /\ UNCHANGED <<tc, requeue>>
       \/ changed /\ Exists(cur) /\ NoFault /\ tc' = [tc EXCEPT ![cur] = patched] /\ UNCHANGED requeue
       \/ changed /\ ~Exists(cur) /\ NoFault /\ requeue' = TRUE /\ UNCHANGED tc
       \/ changed /\ Fault /\ requeue' = TRUE /\ UNCHANGED tc

PatchConditions ==
    LET merged == [t \in CondTypes |-> IF obj.conds[t] # orig.conds[t]
                                       THEN obj.conds[t] ELSE tc[cur].conds[t]] IN
    /\ pc = "patchConditions"
    /\ Patch(obj.conds # orig.conds, [tc[cur] EXCEPT !.conds = merged], "patchSpec")

\* The API server removes a deleted object with its last finalizer.
PatchSpec ==
    LET f == IF obj.finalizer # orig.finalizer THEN obj.finalizer ELSE tc[cur].finalizer
        h == IF obj.host # orig.host THEN obj.host ELSE tc[cur].host
        p == IF tc[cur].phase = "deleting" /\ ~f THEN "gone" ELSE tc[cur].phase IN
    /\ pc = "patchSpec"
    /\ Patch(obj.finalizer # orig.finalizer \/ obj.host # orig.host,
             [tc[cur] EXCEPT !.finalizer = f, !.host = h, !.phase = p], "patchStatus")

PatchStatus ==
    LET r == tc[cur].refs \cup (obj.refs \ orig.refs)
        d == IF obj.ready # orig.ready THEN obj.ready ELSE tc[cur].ready IN
    /\ pc = "patchStatus"
    /\ Patch(obj.refs # orig.refs \/ obj.ready # orig.ready,
             [tc[cur] EXCEPT !.refs = r, !.ready = d], "return")

\* The process starts over: the informer lists every object and enqueues it.
Restart ==
    /\ ResetWorker
    /\ seen' = tc
    /\ queue' = {c \in Clusters : Exists(c)}
    /\ UNCHANGED <<tc, machines, vcdVars>>

Finish ==
    /\ pc = "return" /\ ~panicking /\ ResetWorker
    /\ queue' = IF requeue THEN queue \cup {cur} ELSE queue
    /\ UNCHANGED <<tc, seen, machines, vcdVars, faults, crashes>>

Die ==
    /\ pc = "return" /\ panicking /\ Restart
    /\ UNCHANGED <<faults, crashes>>

Save == PatchConditions \/ PatchSpec \/ PatchStatus \/ Finish

Crash ==
    /\ crashes < MaxCrashes /\ crashes' = crashes + 1
    /\ Restart
    /\ UNCHANGED faults

----------------------------------------------------------------------------
(* The environment: informer, users, Cluster API, the machine controller.  *)

Outside == UNCHANGED <<workerVars, faults, crashes>>

\* A watch event reaches the cache and enqueues the key.
Deliver(c) ==
    /\ seen[c] # tc[c]
    /\ seen' = [seen EXCEPT ![c] = tc[c]]
    /\ queue' = queue \cup {c}
    /\ UNCHANGED <<tc, machines, vcdVars>> /\ Outside

\* An event of the owner Cluster enqueues the tenant cluster of the same name,
\* which is taken to be the one it owns.
ClusterEvent(c) ==
    /\ seen[c].phase \in {"live", "deleting"} /\ seen[c].owner # "none"
    /\ queue' = queue \cup {c}
    /\ UNCHANGED <<tc, seen, machines, vcdVars>> /\ Outside

Edit(c, o) == tc' = [tc EXCEPT ![c] = o] /\ UNCHANGED <<seen, queue, machines, vcdVars>> /\ Outside

CreateCluster(c) ==
    /\ tc[c].phase = "absent"
    /\ \E i \in BOOLEAN : Edit(c, [NewObject EXCEPT !.phase = "live", !.identityRef = i])

SetIdentityRef(c) ==
    /\ Exists(c) /\ ~tc[c].identityRef
    /\ Edit(c, [tc[c] EXCEPT !.identityRef = TRUE])

SetOwner(c) ==
    /\ Exists(c) /\ tc[c].owner # "controlPlane"
    /\ \E w \in {"cluster", "controlPlane"} \ {tc[c].owner} : Edit(c, [tc[c] EXCEPT !.owner = w])

DeleteCluster(c) ==
    /\ tc[c].phase = "live"
    /\ Edit(c, [tc[c] EXCEPT !.phase = IF tc[c].finalizer THEN "deleting" ELSE "gone"])

\* Cluster API creates Machines only for a Cluster that is not being deleted, and
\* deletes the tenant cluster when that Cluster's Machines are gone: a tenant
\* cluster is not deleted behind its Cluster's back while Machines are created. The
\* Machine informer is taken to be up to date.
AddMachine(c, m) ==
    /\ tc[c].phase = "live" /\ tc[c].owner # "none"
    /\ \A d \in Clusters : m \notin machines[d] /\ m \notin ips[d]
    /\ machines' = [machines EXCEPT ![c] = @ \cup {m}]
    /\ UNCHANGED <<apiVars, vcdVars>> /\ Outside

JoinIPSet(c, m) ==
    /\ m \in machines[c] \ ips[c] /\ "IPSet" \in res[c] /\ tc[c].ready
    /\ ips' = [ips EXCEPT ![c] = @ \cup {m}]
    /\ UNCHANGED <<apiVars, machines, res, vip, vAppSetup>> /\ Outside

\* Also a stale reconcile of a tenant machine that is gone may do this.
LeaveIPSet(c, m) ==
    /\ m \in ips[c]
    /\ ips' = [ips EXCEPT ![c] = @ \ {m}]
    /\ UNCHANGED <<apiVars, machines, res, vip, vAppSetup>> /\ Outside

\* A machine controller that lost the machine's address (see TenantMachine)
\* leaves it behind in the IP set.
RemoveMachine(c, m) ==
    /\ m \in machines[c]
    /\ machines' = [machines EXCEPT ![c] = @ \ {m}]
    /\ UNCHANGED <<apiVars, vcdVars>> /\ Outside

MachineStep(c) == \E m \in Machines : AddMachine(c, m) \/ JoinIPSet(c, m)
                                       \/ LeaveIPSet(c, m) \/ RemoveMachine(c, m)

Environment(c) ==
    \/ Deliver(c) \/ ClusterEvent(c) \/ CreateCluster(c) \/ SetIdentityRef(c) \/ SetOwner(c)
    \/ DeleteCluster(c) \/ MachineStep(c)

Worker == (\E c \in Clusters : Reconcile(c)) \/ Provision \/ Delete \/ Save \/ Die

Next == Worker \/ Crash \/ \E c \in Clusters : Environment(c)

\* The worker goroutine runs, every queued key is eventually taken, and the
\* informer eventually delivers every change. Users, failures and crashes are
\* not fair.
Fairness ==
    /\ WF_vars(Provision \/ Delete \/ Save \/ Die)
    /\ \A c \in Clusters : SF_vars(Reconcile(c)) /\ WF_vars(Deliver(c))

Spec == Init /\ [][Next]_vars
FairSpec == Spec /\ Fairness

----------------------------------------------------------------------------
(* Properties.                                                             *)

Stages == {"idle", "connect", "endpoint", "ipSet", "pool", "virtualService", "vApp",
           "vAppNetwork", "vAppPowerOn", "record", "deleteGate", "deleteConnect",
           "deleteVirtualService", "deletePool", "deleteIPSet", "deleteVApp",
           "patchConditions", "patchSpec", "patchStatus", "return"}

\* Type invariant: every stored, cached and in-memory object is well formed, the
\* worker holds a key exactly while a reconcile is under way, and of the pointers
\* that a failed lookup leaves nil a reconcile goes on with those of the IP set
\* and the pool only, the ones that EnsurePool, EnsureVirtualService and Record
\* look out for.
TypeOK ==
    /\ tc \in [Clusters -> Object] /\ seen \in [Clusters -> Object]
    /\ queue \subseteq Clusters
    /\ machines \in [Clusters -> SUBSET Machines]
    /\ res \in [Clusters -> SUBSET Kinds]
    /\ vip \in [Clusters -> Addresses \cup {NoAddress}]
    /\ ips \in [Clusters -> SUBSET Machines]
    /\ vAppSetup \in [Clusters -> SUBSET {"network", "power"}]
    /\ pc \in Stages
    /\ cur \in Clusters \cup {NoCluster} /\ (pc = "idle" <=> cur = NoCluster)
    /\ obj \in Object /\ orig \in Object
    /\ nilRefs \subseteq {"IPSet", "Pool"}
    /\ requeue \in BOOLEAN /\ panicking \in BOOLEAN
    /\ faults \in 0..MaxFaults /\ crashes \in 0..MaxCrashes

\* A cluster that reports Status.Ready and is not being deleted has all four of
\* its VCD resources, whatever calls failed, whenever the process crashed and
\* however stale the cache was: reconcileDelete never works on a live cluster
\* and Record is never reached with a resource missing.
ReadyHasResources ==
    \A c \in Clusters : tc[c].phase = "live" /\ tc[c].ready => res[c] = Kinds

\* A virtual service is never without its pool and a pool never without its IP
\* set: Reconcile creates in one order (nil pointers of failed lookups panic
\* before anything dangling is created) and reconcileDelete removes in the other.
DependencyOrder ==
    \A c \in Clusters :
        /\ "VirtualService" \in res[c] => "Pool" \in res[c]
        /\ "Pool" \in res[c] => "IPSet" \in res[c]

\* When reconcileDelete lets the object go, nothing that Status referred to is
\* left in VCD. Needs fresh reads: from a cached object that lacks the Status
\* written last, reconcileDelete would leave the resources behind.
GoneIsClean ==
    \A c \in Clusters : tc[c].phase = "gone" => tc[c].refs \cap res[c] = {}

\* The virtual service listens on the address that Spec.ControlPlaneEndpoint
\* gives: the address is allocated in one reconcile, stored by its patch and
\* used in a later reconcile.
EndpointServed ==
    \A c \in Clusters : Exists(c) /\ "VirtualService" \in res[c] => vip[c] = tc[c].host

\* Nothing is ever created in VCD for an object that is gone, even by a
\* reconcile that still finds it in the cache.
NoResurrection ==
    [][\A c \in Clusters : tc[c].phase = "gone" => res'[c] \subseteq res[c]]_vars

\* reconcileDelete's check that no Machine is left, made several calls earlier,
\* still holds at every later call that removes a resource.
TeardownAfterMachines ==
    [][\A c \in Clusters : ~(res[c] \subseteq res'[c]) => machines[c] = {}]_vars

\* A live cluster with an identity and a control plane becomes ready unless it
\* is deleted first: every failed call, swallowed lookup error, panic and crash
\* leads to another attempt.
EventuallyReady ==
    \A c \in Clusters :
        (tc[c].phase = "live" /\ tc[c].identityRef /\ tc[c].owner = "controlPlane")
            ~> (tc[c].ready \/ tc[c].phase # "live")

\* A deleted cluster goes away once its Machines have, provided that no Machine
\* goes before its address has left the IP set: reconcileDelete does not requeue
\* for an IP set with addresses, and nothing tells it that the last one has left.
DeletionCompletes ==
    \A c \in Clusters :
        [](machines[c] = {} => ips[c] = {}) =>
            (/\ tc[c].phase = "deleting" /\ tc[c].identityRef /\ tc[c].owner # "none"
             /\ machines[c] = {})
                ~> tc[c].phase = "gone"

\* The controller implements the lifecycle: whatever the cache shows, whichever
\* call or patch fails and whenever the process restarts, every step is one that
\* ClusterLifecycle allows or changes nothing it speaks of. Among other things a
\* cluster that owns a resource is never dropped by a user's delete, because
\* Reconcile creates nothing before the finalizer is stored.
Lifecycle == INSTANCE ClusterLifecycle
             WITH phase <- [c \in Clusters |-> tc[c].phase],
                  ready <- [c \in Clusters |-> tc[c].ready]

ImplementsLifecycle == Lifecycle!Spec

\* Spec.IdentityRef is optional, so no legal object may take the manager down.
NoPanic == ~panicking

\* Two live clusters that are ready never publish the same control plane endpoint,
\* although both may have been given the address while neither had a virtual
\* service yet: VCD refuses the second one, which then never gets ready.
ReadyEndpointsDistinct ==
    \A c, d \in Clusters :
        (/\ tc[c].phase = "live" /\ tc[c].ready /\ tc[d].phase = "live" /\ tc[d].ready
         /\ tc[c].host = tc[d].host)
            => c = d

=============================================================================
