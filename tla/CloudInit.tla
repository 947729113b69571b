----------------------------- MODULE CloudInit -----------------------------
(***************************************************************************)
(* ExecuteCloudInitTemplate (util/cloudinit/cloudinit.go): the metadata a  *)
(* VM boots with names, for every network connection, the IP scope of the  *)
(* vApp network that the connection's address belongs to; prefix length,   *)
(* gateway and name server are that scope's. An address is a number in the *)
(* order of netip.Addr.Compare; the metadata is the sequence of the chosen *)
(* scopes' positions.                                                      *)
(***************************************************************************)
EXTENDS Integers, Sequences, FiniteSetsExt

CONSTANT NotAnAddress   \* a string that netip.ParseAddr refuses

\* Mutant: the end of a range does not belong to it.
InRangeExclusive(range, a) == range.start <= a /\ a < range.end

InRange(range, a) == range.start <= a /\ a <= range.end

\* A scope is the sequence of its ranges, empty also for nil IPRanges.
Covers(scope, a) == \E i \in DOMAIN scope : InRange(scope[i], a)

\* Every scope that covers the address replaces the one found before; 0 is nil.
ScopeOf(a, scopes) == Max({0} \cup {j \in DOMAIN scopes : Covers(scopes[j], a)})

\* The first address that cannot be parsed is an error. Ranges are parsed for
\* every connection, those after a match too.
Unparsable(connections, scopes) ==
    \E i \in DOMAIN connections :
        \/ connections[i] = NotAnAddress
        \/ \E j \in DOMAIN scopes : \E k \in DOMAIN scopes[j] :
              NotAnAddress \in {scopes[j][k].start, scopes[j][k].end}

\* The template dereferences the scope of every connection.
CloudInitFails(connections, scopes) ==
    \/ Unparsable(connections, scopes)
    \/ \E i \in DOMAIN connections : ScopeOf(connections[i], scopes) = 0

ExecuteCloudInitTemplate(connections, scopes) ==
    [i \in DOMAIN connections |-> ScopeOf(connections[i], scopes)]

=============================================================================
