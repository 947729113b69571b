---------------------------- MODULE DiskSection ----------------------------
(***************************************************************************)
(* diskSectionFromTenantMachine                                            *)
(* (controllers/clouddirectortenantmachine_controller.go): the disk        *)
(* section a reconcile sends with UpdateVmSpecSection, computed from the   *)
(* VM's present disks and the machine's spec [diskResourceMiB,             *)
(* additionalDisks]. A disk is [boot, adapter, unit, size, thin]: "boot"   *)
(* tells the template's first disk apart; its DiskId, like every setting   *)
(* but the size, is carried along by the pointer to the existing setting.  *)
(* The bus number is left out: every disk of a section is on the bus of    *)
(* the first one.                                                          *)
(***************************************************************************)
EXTENDS Integers, Sequences

Disk == [boot: BOOLEAN, adapter: STRING, unit: Int, size: Int, thin: BOOLEAN]

\* Otherwise there is no section (nil).
NeedsSection(s) == s.diskResourceMiB # 0 \/ s.additionalDisks # <<>>

\* Mutant: the first additional disk gets the unit number of the first disk.
AdditionalDiskFromZero(first, sizes, i) ==
    [boot |-> FALSE, adapter |-> first.adapter, unit |-> first.unit + i - 1,
     size |-> sizes[i], thin |-> TRUE]

AdditionalDisk(first, sizes, i) ==
    [boot |-> FALSE, adapter |-> first.adapter, unit |-> first.unit + i,
     size |-> sizes[i], thin |-> TRUE]

\* Mutant: the other existing disks are kept beside the additional ones.
DiskSectionKeepsExisting(existing, s) ==
    LET resized == IF s.diskResourceMiB > 0
                   THEN [existing EXCEPT ![1].size = s.diskResourceMiB] ELSE existing
    IN  resized \o [i \in 1..Len(s.additionalDisks) |->
                        AdditionalDisk(existing[1], s.additionalDisks, i)]

\* Mutant: the additional disks are numbered after the last existing disk.
DiskSectionAfterLast(existing, s) ==
    LET resized == IF s.diskResourceMiB > 0
                   THEN <<[existing[1] EXCEPT !.size = s.diskResourceMiB]>> ELSE <<>>
    IN  resized \o [i \in 1..Len(s.additionalDisks) |->
                        AdditionalDisk(existing[Len(existing)], s.additionalDisks, i)]

\* Mutant: a size that is not positive ends the function.
DiskSectionNeedsSize(existing, s) ==
    IF s.diskResourceMiB <= 0 THEN <<>>
    ELSE <<[existing[1] EXCEPT !.size = s.diskResourceMiB]>>
         \o [i \in 1..Len(s.additionalDisks) |->
                 AdditionalDisk(existing[1], s.additionalDisks, i)]

DiskSectionFromTenantMachine(existing, s) ==
    LET first == existing[1]
        resized == IF s.diskResourceMiB > 0
                   THEN <<[first EXCEPT !.size = s.diskResourceMiB]>> ELSE <<>>
    IN  resized \o [i \in 1..Len(s.additionalDisks) |->
                        AdditionalDisk(first, s.additionalDisks, i)]

\* DiskSettings[0] of a VM without disks.
DiskSectionPanics(existing, s) == NeedsSection(s) /\ existing = <<>>

=============================================================================
