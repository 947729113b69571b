----------------------------- MODULE MCVMConfig -----------------------------
(***************************************************************************)
(* Model-checking instances of VMConfig: rich in disks, in networks or in  *)
(* properties, and plain in the other two.                                 *)
(***************************************************************************)
EXTENDS VMConfig

SeqsUpTo(S, n) == UNION {[1..k -> S] : k \in 0..n}

Sizes == {1, 2}

\* A template has at least one disk, on unit numbers that count up.
DiskSets == {[i \in 1..n |-> [boot |-> i = 1, adapter |-> a, unit |-> u + i - 1,
                              size |-> z, thin |-> FALSE]] :
                n \in 1..3, a \in {"scsi", "sata"}, u \in 0..1, z \in Sizes}

\* The CRD sets no minimum, so that a negative size reaches the controller.
MachineSpecs == [diskResourceMiB: Sizes \cup {0, -1}, additionalDisks: SeqsUpTo(Sizes, 2),
                 memory: {0, 2}, cpus: {0, 2}]

Ranges == {[start |-> 1, end |-> 1], [start |-> 1, end |-> 2], [start |-> 2, end |-> 3],
           [start |-> NotAnAddress, end |-> 2]}
Networks == [connections: SeqsUpTo({1, 2, 3, NotAnAddress}, 2),
             scopes: SeqsUpTo(SeqsUpTo(Ranges, 2), 1) \cup SeqsUpTo(SeqsUpTo(Ranges, 1), 2)]

Keys == {"userdata", "metadata", "other"}
PropertyLists ==
    {[i \in DOMAIN keys |-> [key |-> keys[i], value |-> IF keys[i] = "metadata" THEN <<0>> ELSE "old"]] :
        keys \in {l \in SeqsUpTo(Keys, 3) : \A i, j \in DOMAIN l : l[i] = l[j] => i = j}}

Instance(d, spec, network, p) ==
    [spec |-> spec, disks |-> d, memory |-> 1, cpus |-> 1, hasSection |-> TRUE, props |-> p,
     connections |-> network.connections, scopes |-> network.scopes]

PlainDisks == CHOOSE d \in DiskSets : Len(d) = 1
PlainSpec == [diskResourceMiB |-> 2, additionalDisks |-> <<>>, memory |-> 0, cpus |-> 0]
PlainNetwork == [connections |-> <<1>>, scopes |-> << <<[start |-> 1, end |-> 2]>> >>]

MCInstances ==
    {Instance(d, s, PlainNetwork, <<>>) : d \in DiskSets, s \in MachineSpecs}
    \cup {Instance(PlainDisks, PlainSpec, n, <<>>) : n \in Networks}
    \cup {Instance(PlainDisks, PlainSpec, PlainNetwork, p) : p \in PropertyLists}
    \cup {[Instance(PlainDisks, PlainSpec, PlainNetwork, <<>>) EXCEPT !.hasSection = FALSE]}

=============================================================================
