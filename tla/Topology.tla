------------------------------- MODULE Topology -------------------------------
(***************************************************************************)
(* The processors and the memory of the machine, from the firmware's       *)
(* tables: acpi.c, arch_numa_init in numa.c, the node list of mm/mm.c and  *)
(* the CPU lists of kernel/cpu.c.  The boot processor builds them alone,   *)
(* before anything else runs, so they are operators on one value t:        *)
(*                                                                         *)
(*   t.node       every node ever allocated, with its lists of CPUs and    *)
(*                zones                                                    *)
(*   t.node_list  the nodes reachable from the list head, in order         *)
(*   t.nr_cpus    the next CPU index                                       *)
(*                                                                         *)
(* A machine m has the tables the loader passes: m.table[s] is the         *)
(* contents of the table with signature s, a sequence of entries.          *)
(***************************************************************************)
EXTENDS Integers, Sequences, SequencesExt

NoNode == [node |-> <<>>, node_list |-> <<>>, nr_cpus |-> 0]

(* The root pointer's revision decides which of the two lists of tables is   *)
(* searched; the answer is whether the table is there.                       *)
acpi_get_desc(m, name) ==
    m.rsdp /\ name \in Range(IF m.revision = 2 THEN m.xsdt ELSE m.rsdt)

-------------------------------------------------------------------------------
(* A node is allocated with empty lists; mm_node_init empties the list of    *)
(* ALL nodes along with them.                                                *)
NewNode(t) ==
    [t EXCEPT !.node = Append(@, [socket_id |-> 0, cpus |-> <<>>, zones |-> <<>>])]
mm_node_init(t) == [NewNode(t) EXCEPT !.node_list = <<>>]
mm_node_register(t, n, socket) ==
    [t EXCEPT !.node_list = Append(@, n), !.node[n].socket_id = socket]

(* The first reachable node with that id, 0 for NULL. *)
mm_get_node_by_id(t, id) ==
    LET is == {k \in DOMAIN t.node_list : t.node[t.node_list[k]].socket_id = id}
    IN  IF is = {} THEN 0 ELSE t.node_list[CHOOSE k \in is : \A j \in is : k <= j]

register_cpu_remote(t, id, n) ==
    [t EXCEPT !.nr_cpus = @ + 1,
              !.node[n].cpus = Append(@, [index |-> t.nr_cpus, id |-> id])]

(* A zone grows an existing one that ends where it starts or starts where it *)
(* ends, the first such in the list.  GrowDown forgets the new length.       *)
Touching(zones, z) == {k \in DOMAIN zones : \/ zones[k].start + zones[k].cnt = z.start
                                            \/ z.start + z.cnt = zones[k].start}
Grown(old, z) == IF old.start + old.cnt = z.start
                 THEN [old EXCEPT !.cnt = @ + z.cnt]
                 ELSE [start |-> z.start, cnt |-> old.cnt + z.cnt]
GrowDown(t, n, z) ==
    LET zones == t.node[n].zones
        k     == CHOOSE k \in Touching(zones, z) : \A j \in Touching(zones, z) : k <= j
    IN  [t EXCEPT !.node[n].zones =
            IF Touching(zones, z) = {} THEN Append(@, z)
            ELSE [@ EXCEPT ![k] = IF @.start + @.cnt = z.start THEN Grown(@, z)
                                  ELSE [@ EXCEPT !.start = z.start]]]
WithZone(zones, z) ==
    LET k == CHOOSE k \in Touching(zones, z) : \A j \in Touching(zones, z) : k <= j
    IN  IF Touching(zones, z) = {} THEN Append(zones, z)
        ELSE [zones EXCEPT ![k] = Grown(@, z)]
mm_zone_register(t, n, z) == [t EXCEPT !.node[n].zones = WithZone(@, z)]

-------------------------------------------------------------------------------
(* Without an SRAT there is one node, number 2: number 1 is allocated only   *)
(* for its mm_node_init.                                                     *)
OneNode == mm_node_register(NewNode(mm_node_init(NoNode)), 2, 0)

(* The loop over the MADT stops one table header (44 bytes) before the end   *)
(* of the table; an entry is e.len bytes, an enabled local APIC a CPU.       *)
MadtHeader == 44
Offset(madt, k) == MadtHeader + FoldLeft(LAMBDA n, e : n + e.len, 0, SubSeq(madt, 1, k - 1))
Visited(madt, k) == Offset(madt, k) < Offset(madt, Len(madt) + 1) - MadtHeader
MadtEntry(t, madt, k) ==
    IF Visited(madt, k) /\ madt[k].type = "lapic" /\ madt[k].enabled
    THEN register_cpu_remote(t, madt[k].id, 2) ELSE t
MadtCpus(t, madt) ==
    LET u[k \in 0 .. Len(madt)] == IF k = 0 THEN t ELSE MadtEntry(u[k - 1], madt, k)
    IN  u[Len(madt)]

(* The memory map of the loader: usable memory (1) and reserved (2). *)
ArdcEntry(t, a) ==
    IF a.type \in {1, 2} THEN mm_zone_register(t, 2, [start |-> a.base, cnt |-> a.len]) ELSE t
ArdcZones(t, ardc) ==
    LET u[k \in 0 .. Len(ardc)] == IF k = 0 THEN t ELSE ArdcEntry(u[k - 1], ardc[k])
    IN  u[Len(ardc)]

(* The SRAT: a domain seen for the first time (node_bitmap, s.seen) gets a   *)
(* node, later entries look theirs up, and are dropped when it is not found. *)
DomainNode(s, d) ==
    IF d \in s.seen THEN [s EXCEPT !.n = mm_get_node_by_id(s.t, d)]
    ELSE LET t == mm_node_init(s.t)
         IN  [t |-> mm_node_register(t, Len(t.node), d), n |-> Len(t.node),
              seen |-> s.seen \cup {d}]
SratEntry(s, e) ==
    LET u == DomainNode(s, e.domain) IN
    CASE e.type = "cpu" /\ e.enabled ->
            IF u.n = 0 THEN u ELSE [u EXCEPT !.t = register_cpu_remote(@, e.id, u.n)]
      [] e.type = "mem" /\ e.len # 0 ->
            IF u.n = 0 THEN u
            ELSE [u EXCEPT !.t = mm_zone_register(@, u.n, [start |-> e.base, cnt |-> e.len])]
      [] OTHER -> s

NoDomain == [t |-> NoNode, n |-> 0, seen |-> {}]
SratNodes(srat) ==
    LET u[k \in 0 .. Len(srat)] == IF k = 0 THEN NoDomain ELSE SratEntry(u[k - 1], srat[k])
    IN  u[Len(srat)].t

arch_numa_init(m) ==
    IF acpi_get_desc(m, "SRAT") THEN SratNodes(m.table["SRAT"])
    ELSE ArdcZones(IF acpi_get_desc(m, "APIC") THEN MadtCpus(OneNode, m.table["APIC"])
                   ELSE register_cpu_remote(OneNode, 0, 2),
                   m.ardc)

-------------------------------------------------------------------------------
(* The CPUs in the order get_cpu visits them, and its two searches: the      *)
(* first of the positions K that fit, as a set of at most one.               *)
Cpus(t) == FlattenSeq([k \in DOMAIN t.node_list |-> t.node[t.node_list[k]].cpus])
First(s, K) == {s[k] : k \in {k \in K : \A j \in K : k <= j}}
get_cpu(t, id) == LET s == Cpus(t) IN First(s, {k \in DOMAIN s : s[k].id = id})
get_cpu_by_index(t, i) == LET s == Cpus(t) IN First(s, {k \in DOMAIN s : s[k].index = i})
Zones(t) == FlattenSeq([k \in DOMAIN t.node_list |-> t.node[t.node_list[k]].zones])
===============================================================================
