-------------------------- MODULE VMConfig_proofs --------------------------
(***************************************************************************)
(* Proofs about what a reconcile writes to a VM, for every template, spec, *)
(* network and bootstrap secret, and any number of attempts.               *)
(***************************************************************************)
EXTENDS VMConfig, SequenceTheorems, FiniteSetTheorems, TLAPS

----------------------------------------------------------------------------
(* The disk section.                                                       *)

\* Of a spec.
LEMMA SpecFields ==
    ASSUME NEW s \in MachineSpec
    PROVE  s.diskResourceMiB \in Int /\ s.additionalDisks \in Seq(Int)
BY DEF MachineSpec

\* Resizing a disk changes nothing but its size.
LEMMA ResizedDisk ==
    ASSUME NEW d \in Disk, NEW z \in Int
    PROVE  LET r == [d EXCEPT !.size = z] IN
           /\ r \in Disk /\ r.size = z /\ r.unit = d.unit /\ r.boot = d.boot /\ r.adapter = d.adapter
           /\ [r EXCEPT !.size = z] = r
BY DEF Disk

\* An additional disk.
LEMMA AdditionalDiskType ==
    ASSUME NEW d \in Disk, NEW z \in Seq(Int), NEW i \in 1..Len(z)
    PROVE  /\ AdditionalDisk(d, z, i) \in Disk
           /\ AdditionalDisk(d, z, i).unit = d.unit + i /\ AdditionalDisk(d, z, i).size = z[i]
<1>1. z[i] \in Int /\ i \in Int /\ d.unit \in Int /\ d.adapter \in STRING
  BY LenProperties DEF Disk
<1>2. QED
  BY <1>1 DEF AdditionalDisk, Disk

\* The section: the first disk, resized if a size is asked for, then the additional
\* disks on the following units.
LEMMA SectionProperties ==
    ASSUME NEW d \in Seq(Disk), d # <<>>, NEW s \in MachineSpec
    PROVE  LET new == DiskSectionFromTenantMachine(d, s)
               n == IF s.diskResourceMiB > 0 THEN 1 ELSE 0 IN
           /\ new \in Seq(Disk) /\ Len(new) = n + Len(s.additionalDisks)
           /\ s.diskResourceMiB > 0 => new[1] = [d[1] EXCEPT !.size = s.diskResourceMiB]
           /\ \A i \in 1..Len(s.additionalDisks) : new[i + n] = AdditionalDisk(d[1], s.additionalDisks, i)
<1> DEFINE a == s.additionalDisks
           more == [i \in 1..Len(a) |-> AdditionalDisk(d[1], a, i)]
           resized == IF s.diskResourceMiB > 0
                      THEN <<[d[1] EXCEPT !.size = s.diskResourceMiB]>> ELSE <<>>
           new == DiskSectionFromTenantMachine(d, s)
           n == IF s.diskResourceMiB > 0 THEN 1 ELSE 0
<1>0. d[1] \in Disk
  <2>1. Len(d) \in Nat \ {0}
    BY EmptySeq
  <2>2. QED
    BY <2>1, ElementOfSeq
<1>1. s.diskResourceMiB \in Int /\ a \in Seq(Int) /\ Len(a) \in Nat
  BY SpecFields, LenProperties
<1>2. new = resized \o more
  BY DEF DiskSectionFromTenantMachine
<1>3. /\ more \in Seq(Disk) /\ Len(more) = Len(a)
      /\ \A i \in 1..Len(a) : more[i] = AdditionalDisk(d[1], a, i)
  <2>1. \A i \in 1..Len(a) : AdditionalDisk(d[1], a, i) \in Disk
    BY <1>0, <1>1, AdditionalDiskType
  <2>2. more \in [1..Len(a) -> Disk]
    BY <2>1
  <2> HIDE DEF a
  <2>3. more \in Seq(Disk)
    BY <1>1, <2>2, SeqDef
  <2>4. QED
    BY <1>1, <2>2, <2>3, LenProperties
<1>4. /\ resized \in Seq(Disk) /\ Len(resized) = n
      /\ s.diskResourceMiB > 0 => resized[1] = [d[1] EXCEPT !.size = s.diskResourceMiB]
  <2>1. CASE s.diskResourceMiB > 0
    <3> DEFINE r == [d[1] EXCEPT !.size = s.diskResourceMiB]
    <3>1. r \in Disk
      BY <1>0, <1>1, ResizedDisk
    <3>2. resized = <<r>> /\ n = 1
      BY <2>1
    <3> HIDE DEF r, resized, n
    <3>3. <<r>> \in Seq(Disk) /\ Len(<<r>>) = 1 /\ <<r>>[1] = r
      BY <3>1
    <3>4. QED
      BY <3>2, <3>3 DEF r
  <2>2. CASE ~(s.diskResourceMiB > 0)
    <3>1. resized = <<>> /\ n = 0
      BY <2>2
    <3>2. QED
      BY <2>2, <3>1, EmptySeq
  <2>3. QED
    BY <2>1, <2>2
<1>5. n \in {0, 1} /\ (s.diskResourceMiB > 0 => n = 1)
  <2>1. CASE s.diskResourceMiB > 0
    BY <2>1
  <2>2. CASE ~(s.diskResourceMiB > 0)
    BY <2>2
  <2>3. QED
    BY <2>1, <2>2
<1> HIDE DEF more, resized, new, n, a
<1>6. /\ new \in Seq(Disk) /\ Len(new) = n + Len(a)
      /\ \A i \in 1..(n + Len(a)) : new[i] = IF i <= n THEN resized[i] ELSE more[i - n]
  <2>0. resized \in Seq(Disk) /\ more \in Seq(Disk)
    BY <1>3, <1>4, Zenon
  <2>1. /\ resized \o more \in Seq(Disk) /\ Len(resized \o more) = Len(resized) + Len(more)
        /\ \A i \in 1..(Len(resized) + Len(more)) : (resized \o more)[i] =
              IF i <= Len(resized) THEN resized[i] ELSE more[i - Len(resized)]
    BY <2>0, ConcatProperties
  <2>2. Len(resized) = n /\ Len(more) = Len(a)
    BY <1>3, <1>4, Zenon
  <2>3. QED
    BY <1>2, <2>1, <2>2, Zenon
<1>7. s.diskResourceMiB > 0 => new[1] = resized[1]
  <2>1. n = 1 => new[1] = resized[1]
    BY <1>1, <1>6
  <2>2. QED
    BY <1>5, <2>1
<1>8. \A i \in 1..Len(a) : new[i + n] = more[i]
  BY <1>1, <1>5, <1>6
<1>9. QED
  BY <1>3, <1>4, <1>6, <1>7, <1>8 DEF a, new, n

Distinct(d) == \A i, j \in DOMAIN d : d[i].unit = d[j].unit => i = j

\* No two disks of a section share a unit, whatever the first one's is.
LEMMA SectionDistinct ==
    ASSUME NEW d \in Seq(Disk), d # <<>>, NEW s \in MachineSpec
    PROVE  Distinct(DiskSectionFromTenantMachine(d, s))
<1> DEFINE a == s.additionalDisks
           new == DiskSectionFromTenantMachine(d, s)
           n == IF s.diskResourceMiB > 0 THEN 1 ELSE 0
<1>0. /\ d[1] \in Disk /\ a \in Seq(Int) /\ Len(a) \in Nat /\ s.diskResourceMiB \in Int
      /\ n \in {0, 1} /\ (n = 1 <=> s.diskResourceMiB > 0)
  <2>1. Len(d) \in Nat \ {0}
    BY EmptySeq
  <2>2. d[1] \in Disk
    BY <2>1, ElementOfSeq
  <2>3. a \in Seq(Int) /\ Len(a) \in Nat /\ s.diskResourceMiB \in Int
    BY SpecFields, LenProperties
  <2>4. CASE s.diskResourceMiB > 0
    BY <2>2, <2>3, <2>4
  <2>5. CASE ~(s.diskResourceMiB > 0)
    BY <2>2, <2>3, <2>5
  <2>6. QED
    BY <2>4, <2>5
<1>1. /\ new \in Seq(Disk) /\ Len(new) = n + Len(a)
      /\ \A i \in 1..Len(a) : new[i + n] = AdditionalDisk(d[1], a, i)
  BY SectionProperties, Zenon
<1>2. s.diskResourceMiB > 0 => new[1].unit = d[1].unit
  <2>1. s.diskResourceMiB > 0 => new[1] = [d[1] EXCEPT !.size = s.diskResourceMiB]
    BY SectionProperties, Zenon
  <2>2. [d[1] EXCEPT !.size = s.diskResourceMiB].unit = d[1].unit
    BY <1>0, ResizedDisk, Zenon
  <2>3. QED
    BY <2>1, <2>2, Zenon
<1> HIDE DEF a, new, n
<1>3. \A i \in 1..Len(a) : new[i + n].unit = d[1].unit + i
  BY <1>0, <1>1, AdditionalDiskType
<1>4. d[1].unit \in Int
  BY <1>0 DEF Disk
<1>5. \A i \in 1..(n + Len(a)) : new[i].unit = d[1].unit + i - n
  <2> SUFFICES ASSUME NEW i \in 1..(n + Len(a)) PROVE new[i].unit = d[1].unit + i - n
    OBVIOUS
  <2>1. CASE i = 1 /\ n = 1
    BY <1>0, <1>2, <1>4, <2>1
  <2>2. CASE i > n
    <3>1. i - n \in 1..Len(a) /\ (i - n) + n = i
      BY <1>0, <2>2
    <3>2. new[(i - n) + n].unit = d[1].unit + (i - n)
      BY <1>3, <3>1
    <3>3. QED
      BY <1>0, <1>4, <3>1, <3>2
  <2>3. QED
    BY <1>0, <2>1, <2>2
<1>6. DOMAIN new = 1..(n + Len(a))
  BY <1>1, LenProperties
<1>7. Distinct(new)
  BY <1>0, <1>4, <1>5, <1>6 DEF Distinct
<1>8. QED
  BY <1>7 DEF new

\* What DisksAsSpecified says of the disks.
AsSpecified(d, s) ==
    /\ d[1].boot /\ d[1].size = s.diskResourceMiB
    /\ Len(d) = 1 + Len(s.additionalDisks)
    /\ \A i \in DOMAIN s.additionalDisks : d[i + 1].size = s.additionalDisks[i]

\* A section with a size asked for is as specified, and a second section
\* computed from it is the same.
LEMMA SectionStable ==
    ASSUME NEW d \in Seq(Disk), d # <<>>, d[1].boot, NEW s \in MachineSpec, s.diskResourceMiB > 0
    PROVE  LET new == DiskSectionFromTenantMachine(d, s) IN
           /\ AsSpecified(new, s) /\ new # <<>>
           /\ DiskSectionFromTenantMachine(new, s) = new
<1> DEFINE a == s.additionalDisks
           new == DiskSectionFromTenantMachine(d, s)
           r == [d[1] EXCEPT !.size = s.diskResourceMiB]
<1>0. d[1] \in Disk /\ a \in Seq(Int) /\ Len(a) \in Nat /\ s.diskResourceMiB \in Int /\ DOMAIN a = 1..Len(a)
  <2>1. Len(d) \in Nat \ {0}
    BY EmptySeq
  <2>2. QED
    BY <2>1, ElementOfSeq, SpecFields, LenProperties
<1>1. /\ new \in Seq(Disk) /\ Len(new) = 1 + Len(a) /\ new[1] = r
      /\ \A i \in 1..Len(a) : new[i + 1] = AdditionalDisk(d[1], a, i)
  BY SectionProperties, Zenon
<1>2. /\ r \in Disk /\ r.size = s.diskResourceMiB /\ r.boot = d[1].boot /\ r.unit = d[1].unit
      /\ r.adapter = d[1].adapter /\ [r EXCEPT !.size = s.diskResourceMiB] = r
  BY <1>0, ResizedDisk, Zenon
<1>3. AsSpecified(new, s)
  <2>1. \A i \in DOMAIN a : new[i + 1].size = a[i]
    <3> HIDE DEF a, new
    <3>1. QED
      BY <1>0, <1>1, AdditionalDiskType
  <2>2. QED
    BY <1>1, <1>2, <2>1, Zenon DEF AsSpecified
<1>4. new # <<>>
  <2> HIDE DEF a, new
  <2>1. Len(new) = 1 + Len(a) /\ Len(a) \in Nat
    BY <1>0, <1>1, Zenon
  <2>2. Len(new) # 0
    BY <2>1
  <2>3. QED
    BY <2>2, EmptySeq
<1>5. \A i \in 1..Len(a) : AdditionalDisk(new[1], a, i) = AdditionalDisk(d[1], a, i)
  BY <1>1, <1>2, Zenon DEF AdditionalDisk
<1>6. [i \in 1..Len(a) |-> AdditionalDisk(new[1], a, i)] = [i \in 1..Len(a) |-> AdditionalDisk(d[1], a, i)]
  BY <1>5, Zenon
<1>7. DiskSectionFromTenantMachine(new, s)
        = <<[new[1] EXCEPT !.size = s.diskResourceMiB]>> \o [i \in 1..Len(a) |-> AdditionalDisk(new[1], a, i)]
  BY Zenon DEF DiskSectionFromTenantMachine
<1>8. new = <<r>> \o [i \in 1..Len(a) |-> AdditionalDisk(d[1], a, i)]
  BY Zenon DEF DiskSectionFromTenantMachine
<1>9. [new[1] EXCEPT !.size = s.diskResourceMiB] = r
  BY <1>1, <1>2, Zenon
<1>10. DiskSectionFromTenantMachine(new, s) = new
  BY <1>6, <1>7, <1>8, <1>9, Zenon
<1>11. QED
  BY <1>3, <1>4, <1>10

\* A section is empty only for a spec that asks for no disk at all, and is computed
\* then only for a negative size.
LEMMA SectionEmpty ==
    ASSUME NEW d \in Seq(Disk), d # <<>>, NEW s \in MachineSpec, NeedsSection(s),
           DiskSectionFromTenantMachine(d, s) = <<>>
    PROVE  s.diskResourceMiB < 0 /\ s.additionalDisks = <<>>
<1> DEFINE new == DiskSectionFromTenantMachine(d, s)
           n == IF s.diskResourceMiB > 0 THEN 1 ELSE 0
<1>0. s.diskResourceMiB \in Int /\ s.additionalDisks \in Seq(Int) /\ Len(s.additionalDisks) \in Nat
  BY SpecFields, LenProperties
<1>1. Len(new) = n + Len(s.additionalDisks)
  BY SectionProperties, Zenon
<1>2. Len(new) = 0
  BY EmptySeq
<1>3. n \in {0, 1} /\ (n = 0 => ~(s.diskResourceMiB > 0))
  <2>1. CASE s.diskResourceMiB > 0
    BY <2>1
  <2>2. CASE ~(s.diskResourceMiB > 0)
    BY <2>2
  <2>3. QED
    BY <2>1, <2>2
<1> HIDE DEF new, n
<1>4. n = 0 /\ Len(s.additionalDisks) = 0
  <2> DEFINE l == Len(s.additionalDisks)
  <2>1. l \in Nat /\ n \in {0, 1} /\ 0 = n + l
    BY <1>0, <1>1, <1>2, <1>3, Zenon
  <2> HIDE DEF l
  <2>2. n = 0 /\ l = 0
    BY <2>1
  <2>3. QED
    BY <2>2 DEF l
<1>5. s.additionalDisks = <<>>
  BY <1>0, <1>4, EmptySeq
<1>6. s.diskResourceMiB # 0
  BY <1>5 DEF NeedsSection
<1>7. ~(s.diskResourceMiB > 0)
  BY <1>3, <1>4
<1>8. s.diskResourceMiB < 0
  BY <1>0, <1>6, <1>7
<1>9. QED
  BY <1>5, <1>8

----------------------------------------------------------------------------
(* The metadata.                                                           *)

\* A set of positions of a sequence that is not empty has a last one.
LEMMA LastPosition ==
    ASSUME NEW n \in Nat, NEW T \in SUBSET (0..n), T # {}
    PROVE  Max(T) \in T /\ \A y \in T : y <= Max(T)
<1> DEFINE R == OpToRel(<, Nat)
           U == {n - x : x \in T}
<1>1. IsWellFoundedOn(R, Nat)
  BY NatLessThanWellFounded
<1>2. \A x, y \in Nat : x < y => <<x, y>> \in R
  BY DEF OpToRel
<1>3. U \subseteq Nat /\ U # {}
  <2>1. \A x \in T : x \in Nat /\ n - x \in Nat
    OBVIOUS
  <2>2. U \subseteq Nat
    BY <2>1, Zenon
  <2>3. PICK x : x \in T
    OBVIOUS
  <2>4. n - x \in U
    BY <2>3, Zenon
  <2>5. QED
    BY <2>2, <2>4, Zenon
<1> HIDE DEF R, U
<1>4. PICK u \in U : \A y \in U : ~(<<y, u>> \in R)
  BY <1>1, <1>3, WFMin
<1>5. PICK x \in T : u = n - x
  BY <1>4 DEF U
<1>6. \A y \in T : x >= y
  <2> SUFFICES ASSUME NEW y \in T, y > x PROVE FALSE
    OBVIOUS
  <2>1. n - y \in U /\ n - y \in Nat /\ u \in Nat /\ n - y < u
    BY <1>3, <1>5 DEF U
  <2>2. QED
    BY <1>2, <1>4, <2>1
<1>7. Max(T) \in T /\ \A y \in T : Max(T) >= y
  BY <1>6 DEF Max
<1>8. QED
  BY <1>7

\* ScopeOf finds a scope that covers the address exactly if there is one.
LEMMA ScopeOfCovers ==
    ASSUME NEW scopes, NEW S, scopes \in Seq(S), NEW a
    PROVE  /\ ScopeOf(a, scopes) = 0 <=> \A j \in DOMAIN scopes : ~Covers(scopes[j], a)
           /\ ScopeOf(a, scopes) # 0 => /\ ScopeOf(a, scopes) \in DOMAIN scopes
                                        /\ Covers(scopes[ScopeOf(a, scopes)], a)
<1> DEFINE T == {0} \cup {j \in DOMAIN scopes : Covers(scopes[j], a)}
<1>0. Len(scopes) \in Nat /\ DOMAIN scopes = 1..Len(scopes)
  BY LenProperties
<1>1. T \in SUBSET (0..Len(scopes)) /\ T # {}
  BY <1>0
<1>2. Max(T) \in T /\ \A y \in T : y <= Max(T)
  <2> HIDE DEF T
  <2>1. QED
    BY <1>0, <1>1, LastPosition
<1>3. ScopeOf(a, scopes) = Max(T)
  BY DEF ScopeOf
<1> DEFINE m == Max(T)
<1>4. m \in T /\ \A y \in T : y <= m
  BY <1>2
<1> HIDE DEF m
<1>5. m = 0 \/ (m \in DOMAIN scopes /\ Covers(scopes[m], a))
  BY <1>4
<1>6. \A j \in DOMAIN scopes : Covers(scopes[j], a) => j <= m
  BY <1>4
<1>7. m = 0 <=> \A j \in DOMAIN scopes : ~Covers(scopes[j], a)
  BY <1>0, <1>5, <1>6
<1>8. QED
  BY <1>3, <1>5, <1>7 DEF m

\* On addresses that parse, a range is the interval between its ends.
LEMMA CoversInScope ==
    ASSUME NEW scope \in Seq(IPRange), NEW a \in Nat,
           \A k \in DOMAIN scope : scope[k].start # NotAnAddress /\ scope[k].end # NotAnAddress
    PROVE  Covers(scope, a) <=> InScope(scope, a)
<1>1. ASSUME NEW k \in DOMAIN scope
      PROVE  InRange(scope[k], a) <=> a \in scope[k].start..scope[k].end
  <2>1. scope[k] \in IPRange
    BY LenProperties
  <2>2. scope[k].start \in Nat /\ scope[k].end \in Nat
    BY <2>1 DEF IPRange, Address
  <2>3. QED
    BY <2>2 DEF InRange
<1>2. QED
  BY <1>1 DEF Covers, InScope

\* The template is refused exactly for networks that are not addressable, and else
\* puts every connection into a scope its address is in.
LEMMA CloudInitReference ==
    ASSUME NEW connections \in Seq(Address), NEW scopes \in Seq(Seq(IPRange))
    PROVE  /\ CloudInitFails(connections, scopes) <=> ~Addressable(connections, scopes)
           /\ ~CloudInitFails(connections, scopes) =>
                 \A i \in DOMAIN connections :
                     LET m == ExecuteCloudInitTemplate(connections, scopes) IN
                     m[i] \in DOMAIN scopes /\ InScope(scopes[m[i]], connections[i])
<1>0. /\ DOMAIN connections = 1..Len(connections) /\ Len(connections) \in Nat
      /\ \A i \in DOMAIN connections : connections[i] \in Address
      /\ \A j \in DOMAIN scopes : scopes[j] \in Seq(IPRange)
      /\ connections = <<>> <=> DOMAIN connections = {}
  <2>1. /\ DOMAIN connections = 1..Len(connections) /\ Len(connections) \in Nat
        /\ \A i \in DOMAIN connections : connections[i] \in Address
        /\ \A j \in DOMAIN scopes : scopes[j] \in Seq(IPRange)
    BY LenProperties
  <2>2. connections # <<>> => Len(connections) \in Nat \ {0}
    BY EmptySeq
  <2>3. connections = <<>> => Len(connections) = 0
    BY EmptySeq
  <2>4. CASE connections = <<>>
    BY <2>1, <2>3, <2>4
  <2>5. CASE connections # <<>>
    <3>1. 1 \in DOMAIN connections
      BY <2>1, <2>2, <2>5
    <3>2. QED
      BY <2>1, <2>5, <3>1
  <2>6. QED
    BY <2>4, <2>5
<1>1. CASE DOMAIN connections = {}
  <2>1. ~CloudInitFails(connections, scopes) /\ Addressable(connections, scopes)
    BY <1>0, <1>1 DEF CloudInitFails, Unparsable, Addressable
  <2>2. QED
    BY <1>1, <2>1
<1>2. CASE DOMAIN connections # {} /\ Unparsable(connections, scopes)
  <2>1. CloudInitFails(connections, scopes)
    BY <1>2 DEF CloudInitFails
  <2>2. ~Addressable(connections, scopes)
    BY <1>0, <1>2 DEF Addressable, Unparsable
  <2>3. QED
    BY <2>1, <2>2
<1>3. CASE DOMAIN connections # {} /\ ~Unparsable(connections, scopes)
  <2>1. /\ \A i \in DOMAIN connections : connections[i] # NotAnAddress /\ connections[i] \in Nat
        /\ \A j \in DOMAIN scopes : \A k \in DOMAIN scopes[j] :
              scopes[j][k].start # NotAnAddress /\ scopes[j][k].end # NotAnAddress
    BY <1>0, <1>3 DEF Unparsable, Address
  <2>2. \A i \in DOMAIN connections, j \in DOMAIN scopes :
            Covers(scopes[j], connections[i]) <=> InScope(scopes[j], connections[i])
    BY <1>0, <2>1, CoversInScope
  <2>3. \A i \in DOMAIN connections :
            /\ ScopeOf(connections[i], scopes) = 0
                  <=> \A j \in DOMAIN scopes : ~InScope(scopes[j], connections[i])
            /\ ScopeOf(connections[i], scopes) # 0
                  => /\ ScopeOf(connections[i], scopes) \in DOMAIN scopes
                     /\ InScope(scopes[ScopeOf(connections[i], scopes)], connections[i])
    <3> SUFFICES ASSUME NEW i \in DOMAIN connections
                 PROVE  /\ ScopeOf(connections[i], scopes) = 0
                              <=> \A j \in DOMAIN scopes : ~InScope(scopes[j], connections[i])
                        /\ ScopeOf(connections[i], scopes) # 0
                              => /\ ScopeOf(connections[i], scopes) \in DOMAIN scopes
                                 /\ InScope(scopes[ScopeOf(connections[i], scopes)], connections[i])
      OBVIOUS
    <3>1. /\ ScopeOf(connections[i], scopes) = 0 <=> \A j \in DOMAIN scopes : ~Covers(scopes[j], connections[i])
          /\ ScopeOf(connections[i], scopes) # 0
               => /\ ScopeOf(connections[i], scopes) \in DOMAIN scopes
                  /\ Covers(scopes[ScopeOf(connections[i], scopes)], connections[i])
      BY ScopeOfCovers
    <3>2. QED
      BY <2>2, <3>1
  <2>4. CloudInitFails(connections, scopes) <=> ~Addressable(connections, scopes)
    BY <1>0, <1>3, <2>1, <2>3 DEF CloudInitFails, Addressable
  <2>5. ~CloudInitFails(connections, scopes) =>
            \A i \in DOMAIN connections : ScopeOf(connections[i], scopes) # 0
    BY DEF CloudInitFails
  <2>6. QED
    BY <2>3, <2>4, <2>5 DEF ExecuteCloudInitTemplate
<1>4. QED
  BY <1>1, <1>2, <1>3

----------------------------------------------------------------------------
(* The properties of the VM.                                               *)

\* A set of positions that is not empty has a first one.
LEMMA FirstPosition ==
    ASSUME NEW T \in SUBSET Nat, T # {}
    PROVE  \E x \in T : \A y \in T : x <= y
<1> DEFINE R == OpToRel(<, Nat)
<1>1. IsWellFoundedOn(R, Nat)
  BY NatLessThanWellFounded
<1>2. \A x, y \in Nat : x < y => <<x, y>> \in R
  BY DEF OpToRel
<1> HIDE DEF R
<1>3. PICK x \in T : \A y \in T : ~(<<y, x>> \in R)
  BY <1>1, WFMin
<1>4. \A y \in T : x <= y
  <2> SUFFICES ASSUME NEW y \in T, y < x PROVE FALSE
    OBVIOUS
  <2>1. x \in Nat /\ y \in Nat /\ y < x
    OBVIOUS
  <2>2. QED
    BY <1>2, <1>3, <2>1
<1>5. QED
  BY <1>4

HasKey(l, k) == \E i \in DOMAIN l : l[i].key = k
HasEntry(l, k, v) == \E i \in DOMAIN l : l[i] = [key |-> k, value |-> v]

\* SetProperty leaves one property of the key, with the new value, and every other
\* property as it was.
LEMMA SetPropertyResult ==
    ASSUME NEW l, PropertyList(l), NEW k, NEW v
    PROVE  LET p == SetProperty(l, k, v) IN
           /\ PropertyList(p) /\ HasEntry(p, k, v)
           /\ \A k2, w : k2 # k /\ HasEntry(l, k2, w) => HasEntry(p, k2, w)
           /\ \A k2 : HasKey(l, k2) => HasKey(p, k2)
<1> DEFINE same == {i \in DOMAIN l : l[i].key = k}
           e == [key |-> k, value |-> v]
           p == SetProperty(l, k, v)
           S == Range(l) \cup {e}
<1>1. l \in Seq(S) /\ Len(l) \in Nat /\ DOMAIN l = 1..Len(l) /\ e \in S
  <2>1. l \in Seq(Range(l))
    BY DEF PropertyList
  <2>2. QED
    BY <2>1, SeqMonotonic, LenProperties
<1>2. e.key = k /\ e.value = v
  OBVIOUS
<1>3. ASSUME NEW q, q \in Seq(S),
             \/ /\ same = {} /\ Len(q) = Len(l) + 1 /\ q[Len(l) + 1] = e
                /\ \A i \in 1..Len(l) : q[i] = l[i]
             \/ /\ Len(q) = Len(l)
                /\ \E c \in same : \A i \in 1..Len(l) : q[i] = IF i = c THEN e ELSE l[i]
      PROVE  /\ PropertyList(q) /\ HasEntry(q, k, v)
             /\ \A k2, w : k2 # k /\ HasEntry(l, k2, w) => HasEntry(q, k2, w)
             /\ \A k2 : HasKey(l, k2) => HasKey(q, k2)
  <2>0. q \in Seq(Range(q)) /\ DOMAIN q = 1..Len(q)
    BY <1>3, SeqOfRange, LenProperties
  <2>1. /\ \A i \in DOMAIN l : l[i] = [key |-> l[i].key, value |-> l[i].value]
        /\ \A i, j \in DOMAIN l : l[i].key = l[j].key => i = j
    BY DEF PropertyList
  <2>2. CASE /\ same = {} /\ Len(q) = Len(l) + 1 /\ q[Len(l) + 1] = e
             /\ \A i \in 1..Len(l) : q[i] = l[i]
    <3>1. \A i \in DOMAIN q : i \in DOMAIN l \/ i = Len(l) + 1
      BY <1>1, <2>0, <2>2
    <3>2. \A i \in DOMAIN l : i \in DOMAIN q /\ q[i] = l[i] /\ l[i].key # k
      BY <1>1, <2>0, <2>2
    <3>3. Len(l) + 1 \in DOMAIN q /\ q[Len(l) + 1] = e
      BY <1>1, <2>0, <2>2
    <3> DEFINE n == Len(l) + 1
    <3> HIDE DEF n, e
    <3>4. PropertyList(q)
      BY <1>2, <2>0, <2>1, <3>1, <3>2, <3>3 DEF PropertyList, n, e
    <3>5. QED
      BY <1>2, <3>2, <3>3, <3>4 DEF HasKey, HasEntry, e
  <2>3. CASE /\ Len(q) = Len(l)
             /\ \E c \in same : \A i \in 1..Len(l) : q[i] = IF i = c THEN e ELSE l[i]
    <3>1. PICK c \in same : \A i \in 1..Len(l) : q[i] = IF i = c THEN e ELSE l[i]
      BY <2>3
    <3>2. DOMAIN q = DOMAIN l /\ c \in DOMAIN l /\ l[c].key = k
      BY <1>1, <2>0, <2>3
    <3>3. q[c] = e /\ \A i \in DOMAIN l : i # c => q[i] = l[i]
      BY <1>1, <3>1, <3>2
    <3>4. \A i \in DOMAIN l : q[i].key = l[i].key
      BY <1>2, <3>2, <3>3
    <3>5. \A i \in DOMAIN q : q[i] = [key |-> q[i].key, value |-> q[i].value]
      BY <1>2, <2>1, <3>2, <3>3
    <3>6. PropertyList(q)
      BY <2>0, <2>1, <3>2, <3>4, <3>5 DEF PropertyList
    <3>7. HasEntry(q, k, v)
      BY <3>2, <3>3 DEF HasEntry
    <3>8. ASSUME NEW k2, NEW w, k2 # k, HasEntry(l, k2, w) PROVE HasEntry(q, k2, w)
      <4>1. PICK i \in DOMAIN l : l[i] = [key |-> k2, value |-> w]
        BY <3>8 DEF HasEntry
      <4>2. l[i].key = k2
        BY <4>1
      <4>3. q[i] = [key |-> k2, value |-> w]
        BY <3>2, <3>3, <3>8, <4>1, <4>2
      <4>4. QED
        BY <3>2, <4>3 DEF HasEntry
    <3>9. \A k2 : HasKey(l, k2) => HasKey(q, k2)
      BY <3>2, <3>4 DEF HasKey
    <3>10. QED
      BY <3>6, <3>7, <3>8, <3>9
  <2>4. QED
    BY <1>3, <2>2, <2>3
<1>4. CASE same = {}
  <2>1. p = Append(l, e)
    BY <1>4 DEF SetProperty
  <2> HIDE DEF same, e, S, p
  <2>2. /\ p \in Seq(S) /\ Len(p) = Len(l) + 1 /\ p[Len(l) + 1] = e
        /\ \A i \in 1..Len(l) : p[i] = l[i]
    BY <1>1, <2>1, AppendProperties
  <2>3. QED
    BY <1>3, <1>4, <2>2 DEF p
<1>5. CASE same # {}
  <2> DEFINE c == CHOOSE i \in same : \A j \in same : i <= j
  <2>1. p = [l EXCEPT ![c] = [l[c] EXCEPT !.value = v]]
    BY <1>5, Zenon DEF SetProperty
  <2>2. c \in same
    <3>1. PICK i \in same : \A j \in same : i <= j
      <4>1. same \in SUBSET Nat
        BY <1>1
      <4>2. QED
        BY <1>5, <4>1, FirstPosition
    <3>2. QED
      BY <3>1
  <2>3. c \in DOMAIN l /\ l[c] = [key |-> k, value |-> l[c].value]
    BY <2>2 DEF PropertyList
  <2> HIDE DEF c
  <2>4. [l[c] EXCEPT !.value = v] = e
    BY <2>3
  <2>5. p = [l EXCEPT ![c] = e]
    BY <2>1, <2>4, Zenon
  <2> HIDE DEF same, e, S, p
  <2>6. p \in Seq(S) /\ Len(p) = Len(l) /\ \A i \in 1..Len(l) : p[i] = IF i = c THEN e ELSE l[i]
    BY <1>1, <2>3, <2>5, ExceptSeq
  <2>7. QED
    BY <1>3, <2>2, <2>6 DEF p
<1>6. QED
  BY <1>4, <1>5

----------------------------------------------------------------------------
(* The invariant.                                                          *)

Section == DiskSectionFromTenantMachine(input.disks, input.spec)
Metadata == ExecuteCloudInitTemplate(input.connections, input.scopes)

\* With a size asked for, the disks are the template's or those of the one section
\* that every update computes; a VM loses all disks only to a spec that asks for none.
DiskInv ==
    /\ disks \in Seq(Disk) /\ UnitsDistinct
    /\ disks = <<>> => input.spec.diskResourceMiB < 0 /\ input.spec.additionalDisks = <<>>
    /\ input.spec.diskResourceMiB > 0 => disks \in {input.disks, Section}
    /\ pc = "panicked" => disks = <<>>
    /\ DisksAsSpecified

\* The template's keys stay, each once; after SetProductSectionList the two written
\* properties have this reconcile's values.
PropInv ==
    /\ PropertyList(props)
    /\ \A i \in DOMAIN input.props : HasKey(props, input.props[i].key)
    /\ pc \in {"spec", "power"} => HasEntry(props, "userdata", boot) /\ HasEntry(props, "metadata", Metadata)
    /\ pc \in {"props", "spec", "power"} => ~CloudInitFails(input.connections, input.scopes)

IInv == input \in Instances /\ DiskInv /\ PropInv

\* What InstanceAssumption says of the instance of this behaviour.
LEMMA InputFacts ==
    ASSUME input \in Instances
    PROVE  /\ input.spec \in MachineSpec
           /\ input.spec.diskResourceMiB \in Int /\ input.spec.additionalDisks \in Seq(Int)
           /\ input.disks \in Seq(Disk) /\ input.disks # <<>> /\ input.disks[1].boot
           /\ Distinct(input.disks) /\ PropertyList(input.props)
           /\ input.connections \in Seq(Address) /\ input.scopes \in Seq(Seq(IPRange))
<1>1. /\ input.spec \in MachineSpec
      /\ input.disks \in Seq(Disk) /\ input.disks # <<>> /\ input.disks[1].boot
      /\ Distinct(input.disks) /\ PropertyList(input.props)
      /\ input.connections \in Seq(Address) /\ input.scopes \in Seq(Seq(IPRange))
  BY InstanceAssumption, Zenon DEF Distinct
<1>2. QED
  BY <1>1, SpecFields

\* A template keeps its disks and properties until the first update.
LEMMA InitInv == Init => IInv
<1> SUFFICES ASSUME Init PROVE IInv
  OBVIOUS
<1>0. /\ input \in Instances /\ disks = input.disks /\ props = input.props /\ pc = "read"
  BY DEF Init
<1>1. /\ disks \in Seq(Disk) /\ disks # <<>> /\ Distinct(disks) /\ PropertyList(props)
  BY <1>0, InputFacts
<1>2. DiskInv
  BY <1>0, <1>1 DEF DiskInv, Distinct, UnitsDistinct, DisksAsSpecified
<1>3. PropInv
  BY <1>0, <1>1 DEF PropInv, HasKey
<1>4. QED
  BY <1>0, <1>2, <1>3 DEF IInv

\* The disks of an update: distinct, of the same section again, and empty only for a
\* spec that asks for none.
LEMMA NewDisksResult ==
    ASSUME IInv, ~DiskSectionPanics(disks, input.spec)
    PROVE  /\ NewDisks \in Seq(Disk) /\ Distinct(NewDisks)
           /\ NewDisks = <<>> => input.spec.diskResourceMiB < 0 /\ input.spec.additionalDisks = <<>>
           /\ input.spec.diskResourceMiB > 0 => NewDisks = Section /\ AsSpecified(NewDisks, input.spec)
           /\ input.spec.diskResourceMiB > 0 /\ disks # input.disks => NewDisks = disks
<1> DEFINE s == input.spec
<1>0. /\ input \in Instances /\ disks \in Seq(Disk) /\ Distinct(disks)
      /\ disks = <<>> => s.diskResourceMiB < 0 /\ s.additionalDisks = <<>>
      /\ s.diskResourceMiB > 0 => disks = input.disks \/ disks = Section
  BY DEF IInv, DiskInv, UnitsDistinct, Distinct
<1>1. /\ s \in MachineSpec /\ s.diskResourceMiB \in Int
      /\ input.disks \in Seq(Disk) /\ input.disks # <<>> /\ input.disks[1].boot
  BY <1>0, InputFacts
<1>2. CASE ~NeedsSection(s)
  <2>1. NewDisks = disks
    BY <1>2 DEF NewDisks
  <2>2. ~(s.diskResourceMiB > 0)
    BY <1>2 DEF NeedsSection
  <2>3. QED
    BY <1>0, <2>1, <2>2
<1>3. CASE NeedsSection(s)
  <2>1. NewDisks = DiskSectionFromTenantMachine(disks, s) /\ disks # <<>>
    BY <1>3 DEF NewDisks, DiskSectionPanics
  <2>2. DiskSectionFromTenantMachine(disks, s) \in Seq(Disk)
    BY <1>0, <1>1, <2>1, SectionProperties, Zenon
  <2>3. Distinct(DiskSectionFromTenantMachine(disks, s))
    BY <1>0, <1>1, <2>1, SectionDistinct, Zenon
  <2>4. NewDisks = <<>> => s.diskResourceMiB < 0 /\ s.additionalDisks = <<>>
    BY <1>0, <1>1, <1>3, <2>1, SectionEmpty, Zenon
  <2>5. ASSUME s.diskResourceMiB > 0
        PROVE  /\ NewDisks = Section /\ AsSpecified(NewDisks, s)
               /\ disks # input.disks => NewDisks = disks
    <3>1. /\ AsSpecified(Section, s) /\ DiskSectionFromTenantMachine(Section, s) = Section
      BY <1>1, <2>5, SectionStable, Zenon DEF Section
    <3>2. CASE disks = input.disks
      BY <2>1, <3>1, <3>2, Zenon DEF Section
    <3>3. CASE disks # input.disks
      <4>1. disks = Section
        BY <1>0, <2>5, <3>3, Zenon
      <4>2. QED
        BY <2>1, <3>1, <4>1, Zenon
    <3>4. QED
      BY <3>2, <3>3
  <2>6. QED
    BY <2>1, <2>2, <2>3, <2>4, <2>5, Zenon
<1>4. QED
  BY <1>2, <1>3

\* Each step keeps the invariant of the disks.
LEMMA DiskStep == ASSUME IInv, [Next]_vars PROVE DiskInv'
<1>0. /\ input' = input
      /\ input \in Instances /\ disks \in Seq(Disk) /\ Distinct(disks)
  BY DEF IInv, DiskInv, UnitsDistinct, Distinct, Next, vars, vmVars, ReadInputs, ReadInputsFails,
         SetProductSectionList, UpdateVmSpecSection, UpdatePanics, NilSectionPanics, PowerOn
<1>1. CASE /\ disks' = disks /\ memory' = memory /\ cpus' = cpus /\ pc' # "power"
           /\ pc' = "panicked" => disks = <<>>
  BY <1>0, <1>1 DEF IInv, DiskInv, UnitsDistinct, DisksAsSpecified, Section
<1>2. CASE UpdateVmSpecSection /\ disks' = NewDisks
  <2>0. ~DiskSectionPanics(disks, input.spec) /\ pc' \in {"power", "read"}
    BY <1>2 DEF UpdateVmSpecSection, Retry
  <2>1. /\ disks' \in Seq(Disk) /\ Distinct(disks')
        /\ disks' = <<>> => input.spec.diskResourceMiB < 0 /\ input.spec.additionalDisks = <<>>
        /\ input.spec.diskResourceMiB > 0 => disks' = Section /\ AsSpecified(disks', input.spec)
    BY <1>2, <2>0, NewDisksResult, Zenon
  <2>2. pc' = "power" => memory' = Asked(input.spec.memory, memory) /\ cpus' = Asked(input.spec.cpus, cpus)
    BY <1>2 DEF UpdateVmSpecSection, Retry
  <2>3. pc' = "power" => input.spec.memory \in {0, memory'} /\ input.spec.cpus \in {0, cpus'}
    BY <2>2 DEF Asked
  <2>4. DisksAsSpecified'
    BY <1>0, <2>1, <2>3 DEF DisksAsSpecified, AsSpecified
  <2>5. UnitsDistinct'
    BY <2>1 DEF Distinct, UnitsDistinct
  <2>6. Section' = Section
    BY <1>0 DEF Section
  <2>7. pc' # "panicked"
    BY <2>0
  <2>8. QED
    BY <1>0, <2>1, <2>4, <2>5, <2>6, <2>7, Zenon DEF DiskInv
<1>3. CASE UNCHANGED vars
  BY <1>0, <1>3 DEF IInv, DiskInv, UnitsDistinct, DisksAsSpecified, Section, vars, vmVars
<1>4. CASE UpdatePanics
  <2>1. disks = <<>>
    BY <1>4 DEF UpdatePanics, DiskSectionPanics
  <2>2. QED
    BY <1>1, <1>4, <2>1 DEF UpdatePanics, vmVars
<1>5. CASE ReadInputs \/ ReadInputsFails \/ SetProductSectionList \/ NilSectionPanics \/ PowerOn
  <2>1. /\ disks' = disks /\ memory' = memory /\ cpus' = cpus /\ pc' # "power" /\ pc' # "panicked"
    BY <1>5 DEF ReadInputs, ReadInputsFails, SetProductSectionList, NilSectionPanics, PowerOn, Retry, vmVars
  <2>2. QED
    BY <1>1, <2>1
<1>6. CASE UpdateVmSpecSection /\ disks' # NewDisks
  <2>1. /\ disks' = disks /\ memory' = memory /\ cpus' = cpus /\ pc' = "read"
    BY <1>6 DEF UpdateVmSpecSection, Retry
  <2>2. QED
    BY <1>1, <2>1
<1>7. QED
  BY <1>2, <1>3, <1>4, <1>5, <1>6 DEF Next

\* Each step keeps the invariant of the properties.
LEMMA PropStep == ASSUME IInv, [Next]_vars PROVE PropInv'
<1>0. /\ input' = input /\ Metadata' = Metadata
      /\ PropInv
  BY DEF IInv, Next, vars, vmVars, ReadInputs, ReadInputsFails, Metadata,
         SetProductSectionList, UpdateVmSpecSection, UpdatePanics, NilSectionPanics, PowerOn
<1>1. CASE UNCHANGED vars
  BY <1>0, <1>1 DEF PropInv, Metadata, vars, vmVars
<1>2. CASE ReadInputs
  BY <1>0, <1>2 DEF PropInv, ReadInputs, vmVars
<1>3. CASE ReadInputsFails \/ PowerOn
  BY <1>0, <1>3 DEF PropInv, ReadInputsFails, PowerOn, Retry, vmVars
<1>4. CASE UpdateVmSpecSection \/ UpdatePanics
  <2>1. /\ pc = "spec" /\ props' = props /\ boot' = boot
    BY <1>4 DEF UpdateVmSpecSection, UpdatePanics, vmVars
  <2>2. QED
    BY <1>0, <2>1 DEF PropInv
<1>5. CASE SetProductSectionList
  <2> DEFINE mid == SetProperty(props, "userdata", boot)
             new == SetProperty(mid, "metadata", Metadata)
  <2>1. /\ pc = "props" /\ boot' = boot
        /\ \/ props' = new /\ pc' = "spec"
           \/ props' \in {props, new} /\ pc' = "read"
    BY <1>5 DEF SetProductSectionList, Retry, Metadata
  <2>2. /\ PropertyList(mid) /\ HasEntry(mid, "userdata", boot)
        /\ \A k : HasKey(props, k) => HasKey(mid, k)
    BY <1>0, SetPropertyResult, Zenon DEF PropInv
  <2>3. /\ PropertyList(new) /\ HasEntry(new, "metadata", Metadata)
        /\ \A k, w : k # "metadata" /\ HasEntry(mid, k, w) => HasEntry(new, k, w)
        /\ \A k : HasKey(mid, k) => HasKey(new, k)
    <3> HIDE DEF mid
    <3>1. QED
      BY <2>2, SetPropertyResult, Zenon
  <2> HIDE DEF mid, new
  <2>4. HasEntry(new, "userdata", boot)
    BY <2>2, <2>3
  <2>5. /\ PropertyList(props) /\ ~CloudInitFails(input.connections, input.scopes)
        /\ \A i \in DOMAIN input.props : HasKey(props, input.props[i].key)
    BY <1>0, <2>1 DEF PropInv
  <2>6. \A i \in DOMAIN input.props : HasKey(new, input.props[i].key)
    BY <2>2, <2>3, <2>5
  <2>7. CASE props' = new
    BY <1>0, <2>1, <2>3, <2>4, <2>5, <2>6, <2>7 DEF PropInv
  <2>8. CASE props' = props /\ pc' = "read"
    BY <1>0, <2>5, <2>8 DEF PropInv
  <2>9. QED
    BY <2>1, <2>7, <2>8
<1>6. CASE NilSectionPanics
  BY <1>0, <1>6 DEF PropInv, NilSectionPanics, vmVars
<1>7. QED
  BY <1>1, <1>2, <1>3, <1>4, <1>5, <1>6 DEF Next

\* Whatever the instance, the secrets read and the requests that fail, the disks and
\* the properties of the VM satisfy the invariant.
THEOREM Invariance == Spec => []IInv
<1>1. ASSUME IInv, [Next]_vars PROVE IInv'
  <2>1. input' \in Instances
    BY <1>1 DEF IInv, Next, vars, vmVars, ReadInputs, ReadInputsFails,
         SetProductSectionList, UpdateVmSpecSection, UpdatePanics, NilSectionPanics, PowerOn
  <2>2. QED
    BY <1>1, <2>1, DiskStep, PropStep DEF IInv
<1>2. QED
  BY InitInv, <1>1, PTL DEF Spec

\* A VM is powered on with the memory, CPUs and disks that its machine asks for,
\* for every template and spec and however often UpdateVmSpecSection is repeated.
THEOREM DisksAsSpecifiedHolds == Spec => []DisksAsSpecified
<1>1. IInv => DisksAsSpecified
  BY DEF IInv, DiskInv
<1>2. QED
  BY Invariance, <1>1, PTL

\* diskSectionFromTenantMachine never numbers two disks of a VM alike.
THEOREM UnitsDistinctHolds == Spec => []UnitsDistinct
<1>1. IInv => UnitsDistinct
  BY DEF IInv, DiskInv
<1>2. QED
  BY Invariance, <1>1, PTL

\* DiskSettings[0] exists, except after an update with a negative DiskResourceMiB
\* and no additional disks.
THEOREM DiskPanicNeedsNegativeSizeHolds == Spec => []DiskPanicNeedsNegativeSize
<1>1. IInv => DiskPanicNeedsNegativeSize
  BY DEF IInv, DiskInv, DiskPanicNeedsNegativeSize
<1>2. QED
  BY Invariance, <1>1, PTL

\* A key of a property list is there once, with the value of its entry.
LEMMA OneProperty ==
    ASSUME PropertyList(props), NEW k
    PROVE  /\ HasKey(props, k) => Count(k) = 1
           /\ \A v : HasEntry(props, k, v) => Count(k) = 1 /\ Values(k) = {v}
<1> DEFINE same == {j \in DOMAIN props : props[j].key = k}
<1>0. \A i, j \in DOMAIN props : props[i].key = props[j].key => i = j
  BY DEF PropertyList
<1>1. ASSUME NEW i \in DOMAIN props, props[i].key = k PROVE Count(k) = 1 /\ same = {i}
  <2>1. same = {i}
    BY <1>0, <1>1
  <2>2. Cardinality({i}) = 1
    BY FS_Singleton
  <2>3. QED
    BY <2>1, <2>2 DEF Count
<1>2. HasKey(props, k) => Count(k) = 1
  BY <1>1 DEF HasKey
<1>3. ASSUME NEW v, HasEntry(props, k, v) PROVE Count(k) = 1 /\ Values(k) = {v}
  <2>1. PICK i \in DOMAIN props : props[i] = [key |-> k, value |-> v]
    BY <1>3 DEF HasEntry
  <2>2. props[i].key = k /\ props[i].value = v
    BY <2>1
  <2>3. Count(k) = 1 /\ same = {i}
    BY <1>1, <2>2
  <2>4. Values(k) = {props[j].value : j \in {i}}
    BY <2>3, Zenon DEF Values
  <2>5. QED
    BY <2>2, <2>3, <2>4
<1>4. QED
  BY <1>2, <1>3

\* SetProductSectionList leaves a VM with one userdata and one metadata property of
\* the values of this reconcile, for every template and after every retry.
THEOREM PropertiesCurrentHolds == Spec => []PropertiesCurrent
<1>1. ASSUME IInv PROVE PropertiesCurrent
  <2> SUFFICES ASSUME pc \in {"spec", "power"}
               PROVE  /\ Count("userdata") = 1 /\ Values("userdata") = {boot}
                      /\ Count("metadata") = 1
                      /\ \A i \in DOMAIN input.props :
                            input.props[i].key \notin {"userdata", "metadata"} => Count(input.props[i].key) = 1
    BY DEF PropertiesCurrent
  <2>1. /\ PropertyList(props) /\ HasEntry(props, "userdata", boot) /\ HasEntry(props, "metadata", Metadata)
        /\ \A i \in DOMAIN input.props : HasKey(props, input.props[i].key)
    BY <1>1 DEF IInv, PropInv
  <2>2. QED
    BY <2>1, OneProperty, Zenon
<1>2. QED
  BY Invariance, <1>1, PTL

\* ExecuteCloudInitTemplate refuses exactly the networks that are not addressable, and
\* the metadata of the VM places every connection in a scope its address is in.
THEOREM MetadataFromReferenceHolds == Spec => []MetadataFromReference
<1>1. ASSUME IInv PROVE MetadataFromReference
  <2>1. input.connections \in Seq(Address) /\ input.scopes \in Seq(Seq(IPRange))
    BY <1>1, InputFacts DEF IInv
  <2>2. CloudInitFails(input.connections, input.scopes) <=> ~Addressable(input.connections, input.scopes)
    BY <2>1, CloudInitReference
  <2>3. ASSUME pc \in {"spec", "power"}, NEW m \in Values("metadata"), NEW i \in DOMAIN input.connections
        PROVE  m[i] \in DOMAIN input.scopes /\ InScope(input.scopes[m[i]], input.connections[i])
    <3>1. /\ PropertyList(props) /\ HasEntry(props, "metadata", Metadata)
          /\ ~CloudInitFails(input.connections, input.scopes)
      BY <1>1, <2>3 DEF IInv, PropInv
    <3>2. m = Metadata
      <4>1. Values("metadata") = {Metadata}
        BY <3>1, OneProperty, Zenon
      <4>2. QED
        BY <2>3, <4>1
    <3>3. /\ Metadata[i] \in DOMAIN input.scopes
          /\ InScope(input.scopes[Metadata[i]], input.connections[i])
      BY <2>1, <2>3, <3>1, CloudInitReference, Zenon DEF Metadata
    <3>4. QED
      BY <3>2, <3>3, Zenon
  <2>4. QED
    BY <2>2, <2>3 DEF MetadataFromReference
<1>2. QED
  BY Invariance, <1>1, PTL

\* With DiskResourceMiB set, no update changes the disks that an earlier one wrote.
THEOREM RetryIsStableHolds == Spec => RetryIsStable
<1>1. ASSUME IInv, [Next]_vars
      PROVE  [disks # input.disks /\ input.spec.diskResourceMiB > 0 => disks' = disks]_vars
  <2>1. CASE UpdateVmSpecSection
    <3>1. ~DiskSectionPanics(disks, input.spec) /\ disks' \in {NewDisks, disks}
      BY <2>1 DEF UpdateVmSpecSection
    <3>2. input.spec.diskResourceMiB > 0 /\ disks # input.disks => NewDisks = disks
      BY <1>1, <3>1, NewDisksResult, Zenon
    <3>3. QED
      BY <3>1, <3>2
  <2>2. CASE ~UpdateVmSpecSection
    BY <1>1, <2>2 DEF Next, vars, vmVars, ReadInputs, ReadInputsFails, SetProductSectionList,
       UpdatePanics, NilSectionPanics, PowerOn
  <2>3. QED
    BY <2>1, <2>2
<1>2. QED
  BY Invariance, <1>1, PTL DEF Spec, RetryIsStable

=============================================================================
