----------------------------- MODULE VMConfig ------------------------------
(***************************************************************************)
(* What a reconcile of the machine controller writes to a VM before it     *)
(* powers it on: the userdata and metadata properties, memory, CPUs and    *)
(* disks. A reconcile that fails half-way is retried and finds what the    *)
(* last one left; the bootstrap data may have been renewed meanwhile.      *)
(* (In TenantMachine these writes are the actions SetUserdata, UpdateSpec  *)
(* and PowerOn, without the data.)                                         *)
(***************************************************************************)
EXTENDS DiskSection, CloudInit, FiniteSets

CONSTANTS
    Instances,    \* templates, specs and networks to start from
    Bootstraps,   \* contents of the bootstrap data secret
    MaxAttempts   \* bound on reconciles

\* The CRD gives the numbers no minimum; 0 means not asked for.
MachineSpec == [diskResourceMiB: Int, additionalDisks: Seq(Int), memory: Int, cpus: Int]

Address == Nat \cup {NotAnAddress}
IPRange == [start: Address, end: Address]

\* The properties of a product section have different keys.
PropertyList(l) ==
    /\ l \in Seq(Range(l))
    /\ \A i \in DOMAIN l : l[i] = [key |-> l[i].key, value |-> l[i].value]
    /\ \A i, j \in DOMAIN l : l[i].key = l[j].key => i = j

\* What the machine asks for and what VCD has. The template has a disk, the first
\* one boots, and its disks have different unit numbers. The product section list
\* may lack its product section.
ASSUME InstanceAssumption ==
    \A x \in Instances :
        /\ x.spec \in MachineSpec
        /\ x.disks \in Seq(Disk) /\ x.disks # <<>> /\ x.disks[1].boot
        /\ \A i, j \in DOMAIN x.disks : x.disks[i].unit = x.disks[j].unit => i = j
        /\ x.hasSection \in BOOLEAN /\ PropertyList(x.props)
        /\ x.connections \in Seq(Address) /\ x.scopes \in Seq(Seq(IPRange))
ASSUME BoundAssumption == MaxAttempts \in Nat

VARIABLES
    input,        \* the instance
    disks, memory, cpus, props,  \* the VM
    boot,         \* the bootstrap data this reconcile read
    pc, attempts

vmVars == <<disks, memory, cpus, props>>
vars == <<input, vmVars, boot, pc, attempts>>

Init ==
    /\ input \in Instances
    /\ disks = input.disks /\ memory = input.memory /\ cpus = input.cpus /\ props = input.props
    /\ boot \in Bootstraps /\ pc = "read" /\ attempts = 0

----------------------------------------------------------------------------

\* A reconcile ends, here or anywhere later in Reconcile, and is repeated.
Retry == pc' = "read" /\ attempts < MaxAttempts /\ attempts' = attempts + 1

\* Secret, network and connections are read and the template is executed.
ReadInputs ==
    /\ pc = "read" /\ ~CloudInitFails(input.connections, input.scopes) /\ pc' = "props"
    /\ boot' \in Bootstraps
    /\ UNCHANGED <<input, vmVars, attempts>>

ReadInputsFails == pc = "read" /\ Retry /\ UNCHANGED <<input, vmVars, boot>>

\* Mutant: a property is always appended.
SetPropertyAppends(list, key, value) == Append(list, [key |-> key, value |-> value])

\* The first property of that key gets the value, else one is appended.
SetProperty(list, key, value) ==
    LET same == {i \in DOMAIN list : list[i].key = key} IN
    IF same = {} THEN Append(list, [key |-> key, value |-> value])
    ELSE [list EXCEPT ![CHOOSE i \in same : \A j \in same : i <= j].value = value]

SetProductSectionList ==
    LET m == ExecuteCloudInitTemplate(input.connections, input.scopes)
        new == SetProperty(SetProperty(props, "userdata", boot), "metadata", m) IN
    /\ pc = "props" /\ input.hasSection
    /\ \/ props' = new /\ pc' = "spec" /\ UNCHANGED attempts
       \/ props' \in {props, new} /\ Retry
    /\ UNCHANGED <<input, disks, memory, cpus, boot>>

\* The list is used without a look at whether VCD sent a product section.
NilSectionPanics ==
    /\ pc = "props" /\ ~input.hasSection /\ pc' = "nilSection"
    /\ UNCHANGED <<input, vmVars, boot, attempts>>

Asked(wanted, present) == IF wanted # 0 THEN wanted ELSE present
NewDisks == IF NeedsSection(input.spec) THEN DiskSectionFromTenantMachine(disks, input.spec) ELSE disks

\* One request with the whole section, or none if nothing differs; VCD gives the
\* VM what the section says.
UpdateVmSpecSection ==
    LET update == /\ memory' = Asked(input.spec.memory, memory)
                  /\ cpus' = Asked(input.spec.cpus, cpus)
                  /\ disks' = NewDisks IN
    /\ pc = "spec" /\ ~DiskSectionPanics(disks, input.spec)
    /\ \/ update /\ pc' = "power" /\ UNCHANGED attempts
       \/ (update \/ UNCHANGED <<disks, memory, cpus>>) /\ Retry
    /\ UNCHANGED <<input, props, boot>>

UpdatePanics ==
    /\ pc = "spec" /\ DiskSectionPanics(disks, input.spec) /\ pc' = "panicked"
    /\ UNCHANGED <<input, vmVars, boot, attempts>>

\* PowerOn follows; a reconcile that does not get to record its success is repeated.
PowerOn ==
    /\ pc = "power" /\ Retry
    /\ UNCHANGED <<input, vmVars, boot>>

Next == ReadInputs \/ ReadInputsFails \/ SetProductSectionList \/ NilSectionPanics
        \/ UpdateVmSpecSection \/ UpdatePanics \/ PowerOn

Spec == Init /\ [][Next]_vars

----------------------------------------------------------------------------
(* Properties.                                                             *)

\* A VM is powered on with the memory, the CPUs and the disks its machine asks
\* for: the template's first disk, resized, then the additional disks in the
\* order of the spec, however often and how far the update was repeated.
DisksAsSpecified ==
    pc = "power" =>
        /\ input.spec.memory \in {0, memory} /\ input.spec.cpus \in {0, cpus}
        /\ input.spec.diskResourceMiB > 0 =>
              /\ disks[1].boot /\ disks[1].size = input.spec.diskResourceMiB
              /\ Len(disks) = 1 + Len(input.spec.additionalDisks)
              /\ \A i \in DOMAIN input.spec.additionalDisks :
                    disks[i + 1].size = input.spec.additionalDisks[i]

\* No two disks of the VM share a unit number of the bus.
UnitsDistinct ==
    \A i, j \in DOMAIN disks : disks[i].unit = disks[j].unit => i = j

\* A repeated update finds the disks the way the last one left them. Holds only with
\* DiskResourceMiB set: without it each update renumbers the additional disks
\* after the first of the disks that the last one added.
RetryIsStable ==
    [][disks # input.disks /\ input.spec.diskResourceMiB > 0 => disks' = disks]_vars

\* The one spec that makes the manager panic is a negative DiskResourceMiB without
\* additional disks: its first update leaves a VM without disks to a second one.
DiskPanicNeedsNegativeSize ==
    pc = "panicked" => input.spec.diskResourceMiB < 0 /\ input.spec.additionalDisks = <<>>

Values(key) == {props[i].value : i \in {j \in DOMAIN props : props[j].key = key}}
Count(key) == Cardinality({j \in DOMAIN props : props[j].key = key})

\* A VM is powered on with one userdata and one metadata property, of the values
\* this reconcile read and not of an earlier one, next to the template's others.
PropertiesCurrent ==
    pc \in {"spec", "power"} =>
        /\ Count("userdata") = 1 /\ Values("userdata") = {boot}
        /\ Count("metadata") = 1
        /\ \A i \in DOMAIN input.props :
              input.props[i].key \notin {"userdata", "metadata"} => Count(input.props[i].key) = 1

\* The addresses a scope stands for, and the networks for which metadata can be
\* written: everything parses and every connection's address is in some scope.
InScope(scope, a) == \E k \in DOMAIN scope : a \in scope[k].start..scope[k].end
Addressable(connections, scopes) ==
    \/ connections = <<>>
    \/ /\ \A j \in DOMAIN scopes : \A k \in DOMAIN scopes[j] :
              scopes[j][k].start # NotAnAddress /\ scopes[j][k].end # NotAnAddress
       /\ \A i \in DOMAIN connections :
              /\ connections[i] # NotAnAddress
              /\ \E j \in DOMAIN scopes : InScope(scopes[j], connections[i])

\* The template is refused exactly for the other networks, and the metadata on the
\* VM puts every connection into a scope that its address is in, whatever ranges
\* are missing, adjacent or overlap and wherever in them the address lies.
MetadataFromReference ==
    /\ CloudInitFails(input.connections, input.scopes)
          <=> ~Addressable(input.connections, input.scopes)
    /\ pc \in {"spec", "power"} =>
          \A m \in Values("metadata"), i \in DOMAIN input.connections :
              m[i] \in DOMAIN input.scopes /\ InScope(input.scopes[m[i]], input.connections[i])

=============================================================================
