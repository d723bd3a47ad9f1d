------------------------- MODULE DocumentStructure --------------------------
(***************************************************************************)
(* Which components a document has, what they are called in it and what    *)
(* depends on what, from a graph to a document (FromGraphEntries,          *)
(* sbom/transform.go), to either format and back (encodeJSON and           *)
(* decodeJSON of sbom/cyclonedx.go and sbom/spdx23.go), and to a graph     *)
(* again (toGraph, sbom/graph.go); and the same for documents of other     *)
(* producers.                                                              *)
(*                                                                         *)
(* A package URL, a name and a version are numbers, 0 for none.  A text    *)
(* that names a component inside a document is a sequence: a word and the  *)
(* "-n" suffixes behind it.                                                *)
(***************************************************************************)
EXTENDS GraphView, Integers, SequencesExt

CONSTANTS
    SourceGraphs,      \* the graphs detectors produce
    ForeignDocuments,  \* documents of other producers, on the wire
    IDString,          \* what sanitizeSPDXID makes of a node ID, where that is not the ID
    Projects,          \* BuildOptions.ProjectRoot: [name, version]
    Overrides,         \* BuildOptions.RootComponentID, 0 for none
    MaxHops            \* BOUND: how often a graph is exported and read

VARIABLES
    stage,      \* what is in hand: "graph", "built", "wire", "decoded" or "refused"
    graph,      \* [nodes, edges]
    doc,        \* [components, depends, roots, described]
    wire,       \* the encoded document
    hops,
    project,
    origin      \* history: the graph or document it began with, and the first export

structureVars == <<stage, graph, doc, wire, hops, project, origin>>

Nothing == [absent |-> TRUE]

ProjectRootID == 700

NoGraph == [nodes |-> {}, edges |-> {}]
NoDocument == [components |-> {}, depends |-> {}, roots |-> {}, described |-> {}]
-----------------------------------------------------------------------------
(* From a graph to a document.  A node is [id, kind, purl, name, version]. *)

ExportedRootIDs(g, present) ==
    (GraphRoots(g) \cap present)
      \cup UNION {ChildrenAmong(g, r, present) : r \in GraphRoots(g) \ present}

(* A module without a version has the project's. *)
ComponentOf(n) ==
    [id |-> <<n.id>>, purl |-> n.purl, name |-> n.name,
     version |-> IF n.version = 0 /\ n.kind = "module" THEN project.version ELSE n.version]

ProjectRootComponent ==
    [id |-> <<ProjectRootID>>, purl |-> 800 + project.name, name |-> project.name, version |-> project.version]

IsProjectRootID(id) == id[1] = ProjectRootID

FromGraph(g, override) ==
    LET exported    == {n \in g.nodes : n.kind # "manifest"}
        present     == {n.id : n \in exported}
        natural     == IF override \in present THEN {override} ELSE ExportedRootIDs(g, present)
        synthesized == project.name # 0 /\ override \notin present /\ Cardinality(natural) # 1
        depends     == UNION {{<<(<<i>>), (<<j>>)>> : j \in ChildrenAmong(g, i, present)} : i \in present}
        below       == {<<(<<ProjectRootID>>), (<<r>>)>> : r \in natural}
        components  == {ComponentOf(n) : n \in exported}
    IN [components |-> components \cup (IF synthesized THEN {ProjectRootComponent} ELSE {}),
        depends    |-> depends \cup (IF synthesized THEN below ELSE {}),
        roots      |-> IF synthesized THEN {<<ProjectRootID>>} ELSE {<<r>> : r \in natural},
        described  |-> {}]
-----------------------------------------------------------------------------
ComponentIDs(d) == {c.id : c \in d.components}

(* Document.describedIDs *)
DescribedIDs(d) ==
    LET present == d.described \cap ComponentIDs(d)
    IN IF present = {} THEN d.roots ELSE present

ComponentAt(d, id) == CHOOSE c \in d.components : c.id = id

ByID(d) == SetToSortSeq(d.components, LAMBDA c, e : c.id[1] < e.id[1])

(* CycloneDX: [format, inventory, primary, depends], an entry of the inventory
   being [ref, purl, name, version]. *)
Entry(c) == [ref |-> c.id, purl |-> c.purl, name |-> c.name, version |-> c.version]

(* chooseRoot: a subject only where there is one. *)
Primary(d) ==
    LET subjects == DescribedIDs(d) \cap ComponentIDs(d)
    IN IF Cardinality(DescribedIDs(d)) = 1 /\ subjects # {}
       THEN Entry(ComponentAt(d, CHOOSE id \in subjects : TRUE)) ELSE Nothing

EncodeCycloneDXStructure(d) ==
    LET listed == SelectSeq(ByID(d), LAMBDA c : ~IsProjectRootID(c.id))
    IN [format |-> "cyclonedx", inventory |-> [i \in DOMAIN listed |-> Entry(listed[i])],
        primary |-> Primary(d), depends |-> d.depends]

NoRef == << >>

(* The key of an entry that states no bom-ref: its package URL, its name and
   version, or where it stands. *)
DerivedKey(entry, index) ==
    CASE entry.purl # 0 -> <<entry.purl>>
      [] entry.purl = 0 /\ entry.name # 0 -> <<300 + 10 * entry.name + entry.version>>
      [] OTHER -> <<0, index>>

StatedRefs(w) ==
    {e.ref : e \in Range(w.inventory) \cup (IF w.primary = Nothing THEN {} ELSE {w.primary})} \ {NoRef}

(* cycloneDXRefAllocator.allocate; positions count from 0. *)
Allocated(entry, index, used) ==
    LET base == DerivedKey(entry, index)
        free == {n \in index..(index + Cardinality(used)) : Append(base, n) \notin used}
    IN CASE entry.ref # NoRef -> entry.ref
         [] entry.ref = NoRef /\ base \notin used -> base
         [] OTHER -> Append(base, Min(free))

(* Bug: a stated bom-ref is reserved when it is met. *)
InventoryKeysInOrder(w) ==
    LET Next(keys, entry) == Append(keys, Allocated(entry, Len(keys), Range(keys)))
    IN FoldLeft(Next, << >>, w.inventory)

InventoryKeys(w) ==
    LET Next(keys, entry) ==
          Append(keys, Allocated(entry, Len(keys), StatedRefs(w) \cup Range(keys)))
    IN FoldLeft(Next, << >>, w.inventory)

(* cycloneDXListedPrimary: the positions of the inventory the primary names. *)
ListedPrimary(w) ==
    LET p == w.primary
        At(Matches(_)) == {i \in DOMAIN w.inventory : Matches(w.inventory[i])}
        ref  == At(LAMBDA e : e.ref = p.ref)
        purl == At(LAMBDA e : e.purl = p.purl)
        name == At(LAMBDA e : e.purl = 0 /\ e.name = p.name /\ e.version = p.version)
    IN CASE p.ref # NoRef                                     -> ref
         [] p.ref = NoRef /\ p.purl # 0                       -> purl
         [] p.ref = NoRef /\ p.purl = 0 /\ p.name = 0         -> {}
         [] p.ref = NoRef /\ p.purl = 0 /\ p.version = 0 /\ Cardinality(name) # 1 -> {}
         [] OTHER                                             -> name

Decoded(entry, key) == [id |-> key, purl |-> entry.purl, name |-> entry.name, version |-> entry.version]

DecodeCycloneDXStructure(w) ==
    LET keys       == InventoryKeys(w)
        listed     == {Decoded(w.inventory[i], keys[i]) : i \in DOMAIN keys}
        at         == IF w.primary = Nothing THEN {} ELSE ListedPrimary(w)
        standalone == /\ w.primary # Nothing
                      /\ at = {}
                      /\ listed = {} \/ w.primary.ref = NoRef \/ ~IsProjectRootID(w.primary.ref)
        own        == Allocated(w.primary, Len(keys), StatedRefs(w) \cup Range(keys))
        components == listed \cup (IF standalone THEN {Decoded(w.primary, own)} ELSE {})
        known      == {c.id : c \in components}
        Anchored(ref) == \/ ref \in known
                         \/ ~IsProjectRootID(ref) /\ (w.primary # Nothing => ref # w.primary.ref)
        depends    == {d \in w.depends : Anchored(d[1])}
    IN [components |-> components,
        depends    |-> depends,
        roots      |-> known \ {d[2] : d \in depends},
        described  |-> IF standalone THEN {own}
                       ELSE IF at = {} THEN {} ELSE {keys[Min(at)]}]
-----------------------------------------------------------------------------
(* SPDX: [format, packages, relationships], a relationship being [kind, a, b]. *)

TheDocument == <<-1>>

SanitizeSPDXID(id) == IF id \in DOMAIN IDString THEN IDString[id] ELSE id

Counter(next, base) == IF base \in DOMAIN next THEN next[base] ELSE 0

(* Bug: only the identifiers without a suffix are remembered. *)
AllocateSPDXIDByBase(given, id) ==
    LET base == SanitizeSPDXID(id)
        n    == Counter(given.next, base)
    IN [names |-> (id :> IF n = 0 THEN base ELSE Append(base, n)) @@ given.names,
        next  |-> (base :> n + 1) @@ given.next]

(* spdxIDAllocator.allocate *)
AllocateSPDXID(given, id) ==
    LET base  == SanitizeSPDXID(id)
        from  == Counter(given.next, base) + 1
        tries == from..(from + Cardinality(Range(given.names)))
        least == Min({n \in tries : Append(base, n) \notin Range(given.names)})
    IN IF base \notin Range(given.names)
       THEN [given EXCEPT !.names = (id :> base) @@ @]
       ELSE [names |-> (id :> Append(base, least)) @@ given.names,
             next  |-> (base :> least) @@ given.next]

NoneGiven == [names |-> << >>, next |-> << >>]

SPDXIDs(d) ==
    LET ordered == ByID(d)
    IN FoldLeft(AllocateSPDXID, NoneGiven, [i \in DOMAIN ordered |-> ordered[i].id]).names

Relationship(kind, a, b) == [kind |-> kind, a |-> a, b |-> b]

EncodeSPDXStructure(d) ==
    LET ids     == SPDXIDs(d)
        ordered == ByID(d)
        Known(S) == S \cap DOMAIN ids
    IN [format   |-> "spdx",
        packages |-> [i \in DOMAIN ordered |-> [Entry(ordered[i]) EXCEPT !.ref = ids[ordered[i].id]]],
        relationships |->
          {Relationship("describes", TheDocument, ids[r]) : r \in Known(DescribedIDs(d))}
          \cup {Relationship("depends_on", ids[e[1]], ids[e[2]]) :
                  e \in {e \in d.depends : {e[1], e[2]} \subseteq DOMAIN ids}}]

DecodeSPDXStructure(w) ==
    LET Of(kind)  == {r \in w.relationships : r.kind = kind}
        subjects  == {r.b : r \in {r \in Of("describes") : r.a = TheDocument}}
                       \cup {r.a : r \in {r \in Of("described_by") : r.b = TheDocument}}
        forward   == {<<r.a, r.b>> : r \in Of("depends_on")}
        backward  == {<<r.b, r.a>> : r \in Of("dependency_of")}
        components == {Decoded(p, p.ref) : p \in Range(w.packages)}
    IN [components |-> components,
        depends    |-> {e \in forward \cup backward : e[1] \in {c.id : c \in components}},
        roots      |-> subjects,
        described  |-> subjects]
-----------------------------------------------------------------------------
(* From a document to a graph. *)

(* NewDependencyNode: a stated package URL, or a generic one of name and
   version; 0 where nothing can be minted. *)
MintedID(c) ==
    CASE c.purl # 0                -> c.purl
      [] c.purl = 0 /\ c.name # 0  -> 400 + 10 * c.name + c.version
      [] OTHER                     -> 0

IsDocumentRootPseudoPackage(c, described) ==
    IsProjectRootID(c.id) \/ (described /\ c.purl = 0 /\ c.version = 0)

Packages(d) == {c \in d.components : ~IsDocumentRootPseudoPackage(c, c.id \in d.described)}

Node(c) == [id |-> MintedID(c), kind |-> "dependency", purl |-> MintedID(c), name |-> 0, version |-> 1]

GraphOf(d) ==
    LET named == {c.id : c \in Packages(d)}
        ends  == {e \in d.depends : {e[1], e[2]} \subseteq named}
        Minted(id) == MintedID(ComponentAt(d, id))
    IN [nodes |-> {Node(c) : c \in Packages(d)},
        edges |-> {e \in {<<Minted(e[1]), Minted(e[2])>> : e \in ends} : e[1] # e[2]}]
-----------------------------------------------------------------------------
StructureInit ==
    /\ graph = NoGraph /\ doc = NoDocument /\ hops = 0
    /\ project \in Projects
    /\ \/ \E g \in SourceGraphs :
            /\ stage = "graph"
            /\ wire = Nothing
            /\ origin = [graph |-> g, override |-> 0, format |-> "", wire |-> Nothing]
       \/ \E w \in ForeignDocuments :
            /\ stage = "wire"
            /\ wire = w
            /\ origin = [graph |-> NoGraph, override |-> 0, format |-> "", wire |-> w]

StructureIdle ==
    /\ stage = "idle" /\ graph = NoGraph /\ doc = NoDocument /\ wire = Nothing /\ hops = 0
    /\ project = [name |-> 0, version |-> 0]
    /\ origin = [graph |-> NoGraph, override |-> 0, format |-> "", wire |-> Nothing]

LatestGraph == IF hops = 0 THEN origin.graph ELSE graph

ExportGraph(override) ==
    /\ stage = "graph"
    /\ hops < MaxHops
    /\ stage' = "built"
    /\ doc' = FromGraph(LatestGraph, override)
    /\ origin' = IF hops = 0 THEN [origin EXCEPT !.override = override] ELSE origin
    /\ UNCHANGED <<graph, wire, hops, project>>

WriteStructure(format) ==
    /\ stage = "built"
    /\ stage' = "wire"
    /\ wire' = IF format = "spdx" THEN EncodeSPDXStructure(doc) ELSE EncodeCycloneDXStructure(doc)
    /\ origin' = IF hops = 0 THEN [origin EXCEPT !.format = format] ELSE origin
    /\ UNCHANGED <<graph, doc, hops, project>>

ReadStructure ==
    /\ stage = "wire"
    /\ stage' = "decoded"
    /\ doc' = IF wire.format = "spdx" THEN DecodeSPDXStructure(wire) ELSE DecodeCycloneDXStructure(wire)
    /\ UNCHANGED <<graph, wire, hops, project, origin>>

(* A component nothing can be minted from refuses the document. *)
ToGraph ==
    /\ stage = "decoded"
    /\ IF \E c \in Packages(doc) : MintedID(c) = 0
       THEN stage' = "refused" /\ UNCHANGED <<graph, hops>>
       ELSE stage' = "graph" /\ graph' = GraphOf(doc) /\ hops' = hops + 1
    /\ UNCHANGED <<doc, wire, project, origin>>

StructureNext ==
    \/ \E override \in Overrides : ExportGraph(override)
    \/ \E format \in {"spdx", "cyclonedx"} : WriteStructure(format)
    \/ ReadStructure
    \/ ToGraph
-----------------------------------------------------------------------------
(* What the graph it began with has to say, stated on its paths. *)

Manifests(g) == {n.id : n \in {n \in g.nodes : n.kind = "manifest"}}

(* A path from a to b with nothing but manifests between. *)
Linked(g, a, b) ==
    \E k \in 0..Cardinality(Manifests(g)) : \E inner \in [1..k -> Manifests(g)] :
      LET path == <<a>> \o inner \o <<b>>
      IN \A i \in 1..(Len(path) - 1) : <<path[i], path[i + 1]>> \in g.edges

(* The components at the top: those no other component or manifest is above,
   or those below the manifests at the top. *)
Tops(g) ==
    {n \in g.nodes : n.kind # "manifest" /\
       \/ n.id \in GraphRoots(g)
       \/ \E m \in GraphRoots(g) \cap Manifests(g) : Linked(g, m, n.id)}

Subjects ==
    LET g == origin.graph
        overridden == {n \in g.nodes : n.id = origin.override /\ n.kind # "manifest"}
        subjects   == IF overridden # {} THEN overridden ELSE Tops(g)
    IN IF \/ origin.format = "cyclonedx" /\ Cardinality(subjects) # 1
          \/ overridden = {} /\ project.name # 0 /\ Cardinality(subjects) # 1
       THEN {} ELSE subjects

(* A subject with neither package URL nor version stands for the tree. *)
Survivors ==
    {n \in origin.graph.nodes :
       /\ n.kind # "manifest"
       /\ ~(n \in Subjects /\ ComponentOf(n).purl = 0 /\ ComponentOf(n).version = 0)}

FromAGraph == origin.wire = Nothing

(* However often a graph is exported and read, in whichever formats, the
   packages are those of the graph it began with, and one depends on another
   exactly when the graph has a path between them that passes only manifests:
   nothing is lost to a shared identifier, to the synthesized root or to a
   structural node in the middle, and no document this program writes is
   refused when it is read (FromGraphEntries, toGraph). *)
StructureSurvives ==
    FromAGraph =>
      LET Id(n) == MintedID(ComponentOf(n))
      IN stage # "refused" /\ (hops > 0 =>
         /\ {n.id : n \in graph.nodes} = {Id(n) : n \in Survivors}
         /\ graph.edges =
              {e \in {<<Id(p[1]), Id(p[2])>> :
                        p \in {q \in Survivors \X Survivors : Linked(origin.graph, q[1].id, q[2].id)}} :
                 e[1] # e[2]})

StandsForTheTree(e) ==
    LET p == origin.wire.primary
    IN /\ e.purl = 0 /\ e.version = 0
       /\ p # Nothing
       /\ IF p.ref # NoRef THEN e.ref = p.ref ELSE e.name = p.name

(* Every entry of a foreign CycloneDX inventory is a package of the graph,
   with or without a bom-ref of its own, and the dependencies between stated
   refs are edges between the packages that state them
   (cycloneDXRefAllocator). *)
EveryComponentIsRead ==
    /\ ~FromAGraph /\ hops > 0
    /\ origin.wire.format = "cyclonedx"
    => LET inventory == Range(origin.wire.inventory)
           kept == {e \in inventory : ~StandsForTheTree(e)}
       IN /\ {MintedID(e) : e \in kept} \subseteq {n.id : n \in graph.nodes}
          /\ \A e, f \in kept :
               /\ e.ref # NoRef /\ f.ref # NoRef /\ MintedID(e) # MintedID(f)
               => (<<e.ref, f.ref>> \in origin.wire.depends => <<MintedID(e), MintedID(f)>> \in graph.edges)
=============================================================================
