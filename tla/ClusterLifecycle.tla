-------------------------- MODULE ClusterLifecycle --------------------------
(***************************************************************************)
(* What the cluster controller promises to users, to Cluster API and to    *)
(* the machine controller, without reconciles, caches, queues, patches or  *)
(* failures: how a tenant cluster, the resources it owns in Cloud Director *)
(* and its Machines follow each other. TenantCluster implements it.        *)
(***************************************************************************)
CONSTANTS Clusters, Machines

VARIABLES
    phase,     \* of the API object
    ready,     \* what Status.Ready tells
    res,       \* kinds of resource that exist in Cloud Director
    machines   \* the Machines of each cluster

vars == <<phase, ready, res, machines>>

Kinds == {"IPSet", "Pool", "VirtualService", "VApp"}

\* A kind is built after the ones it needs and torn down before them.
Needs(k) == CASE k = "IPSet"          -> {}
              [] k = "Pool"           -> {"IPSet"}
              [] k = "VirtualService" -> {"Pool"}
              [] k = "VApp"           -> {"VirtualService"}

\* The virtual service goes first, so that the vApp loses no traffic.
Blockers(k) == CASE k = "VirtualService" -> {}
                 [] k = "Pool"           -> {"VirtualService"}
                 [] k = "IPSet"          -> {"Pool"}
                 [] k = "VApp"           -> {"VirtualService"}

Init ==
    /\ phase = [c \in Clusters |-> "absent"]
    /\ ready = [c \in Clusters |-> FALSE]
    /\ res = [c \in Clusters |-> {}]
    /\ machines = [c \in Clusters |-> {}]

Become(c, p) == phase' = [phase EXCEPT ![c] = p] /\ UNCHANGED <<ready, res, machines>>

Create(c) == phase[c] = "absent" /\ Become(c, "live")

\* An object that owns something stays until it is released.
Delete(c) ==
    /\ phase[c] = "live"
    /\ \/ Become(c, "deleting")
       \/ res[c] = {} /\ Become(c, "gone")

Release(c) == phase[c] = "deleting" /\ machines[c] = {} /\ Become(c, "gone")

Build(c, k) ==
    /\ phase[c] \in {"live", "deleting"}
    /\ k \notin res[c] /\ Needs(k) \subseteq res[c]
    /\ res' = [res EXCEPT ![c] = @ \cup {k}]
    /\ UNCHANGED <<phase, ready, machines>>

Publish(c) ==
    /\ phase[c] \in {"live", "deleting"} /\ res[c] = Kinds
    /\ ready' = [ready EXCEPT ![c] = TRUE]
    /\ UNCHANGED <<phase, res, machines>>

Teardown(c, k) ==
    /\ phase[c] \in {"deleting", "gone"} /\ machines[c] = {}
    /\ k \in res[c] /\ Blockers(k) \cap res[c] = {}
    /\ res' = [res EXCEPT ![c] = @ \ {k}]
    /\ UNCHANGED <<phase, ready, machines>>

AddMachine(c, m) ==
    /\ phase[c] = "live"
    /\ machines' = [machines EXCEPT ![c] = @ \cup {m}]
    /\ UNCHANGED <<phase, ready, res>>

RemoveMachine(c, m) ==
    /\ machines' = [machines EXCEPT ![c] = @ \ {m}]
    /\ UNCHANGED <<phase, ready, res>>

Next ==
    \E c \in Clusters :
        \/ Create(c) \/ Delete(c) \/ Release(c) \/ Publish(c)
        \/ \E k \in Kinds : Build(c, k) \/ Teardown(c, k)
        \/ \E m \in Machines : AddMachine(c, m) \/ RemoveMachine(c, m)

Spec == Init /\ [][Next]_vars

=============================================================================
