----------------------------- MODULE ScanRecord -----------------------------
(***************************************************************************)
(* Two scans of one project, compared: by their graphs (Compare,           *)
(* model/graph.go), and by the records they left behind (package scan:     *)
(* FromGraphEntries, Encode, Decode, Compare).  On its way to the reader a *)
(* record may be laid out anew, or altered; it may have been written by an *)
(* older or a later minor version of the schema.                           *)
(*                                                                         *)
(* A node is [id, kind, identity, version, source, relationship]: identity *)
(* is a package URL without its version or the name of a module, and the   *)
(* numbers are in the order of the texts they stand for.  The lists of a   *)
(* comparison are sorted by keys that differ, so they are sets here.       *)
(***************************************************************************)
EXTENDS GraphView, Relationships, SequencesExt

CONSTANTS
    ScanPairs,   \* what was scanned: pairs of [entries, packages, findings]
    Writers,     \* of the records: "this", "older", "later" or, without digests, "plain"
    RecordBounds \* the counts a reader takes: [manifests, dependencies, packages, findings]

ScanNodes ==
    [id : Int, kind : {"manifest", "module", "dependency"}, identity : Int, version : Int,
     source : STRING, relationship : STRING]

(* A detection lists its entries, whose graphs are finite; a manifest's path and
   its place in it are texts, which numbers stand for here. *)
ASSUME ScanAssumption ==
    \A pair \in ScanPairs, i \in 1 .. 2 :
      /\ pair[i].entries \in Seq(Range(pair[i].entries))
      /\ \A e \in Range(pair[i].entries) :
           /\ e.path \in Int /\ e.subproject \in Int
           /\ IsFiniteSet(e.graph.nodes) /\ e.graph.nodes \subseteq ScanNodes

ASSUME RecordBoundsAssumption ==
    RecordBounds \in [manifests : Nat, dependencies : Nat, packages : Nat, findings : Nat]

VARIABLES
    phase,       \* "idle", "scanned", "written", "decoded", "refused" or "compared"
    scans,       \* base and head
    writer,
    wires,       \* the encoded records
    altered,     \* whether a section was changed on the way
    records,     \* what the reader decoded
    answer       \* what scan.Compare returned

scanVars == <<phase, scans, writer, wires, altered, records, answer>>
-----------------------------------------------------------------------------
(* Folding the nodes of several graphs: InsertNode. *)

(* The git source of a Swift package is another word than these. *)
NonRegistrySources == {"project", "workspace", "file", "git", "url"}

RegistryMatchEligible(n) == n.source \notin NonRegistrySources

(* mergeDependencySources: the eligible witness's source survives. *)
MergeSources(n, witness) ==
    IF RegistryMatchEligible(n) \/ ~RegistryMatchEligible(witness) THEN n.source ELSE witness.source

Folded(n, witness) ==
    [n EXCEPT !.source = MergeSources(n, witness),
              !.relationship = MergeDependencyRelationship(@, witness.relationship)]

InsertedInto(nodes, n) ==
    LET same == {m \in nodes : m.id = n.id}
    IN (nodes \ same) \cup (IF same = {} THEN {n} ELSE {Folded(m, n) : m \in same})

(* MergeGraph; ConsolidatedGraph *)
MergedWith(nodes, e) == FoldSet(LAMBDA n, acc : InsertedInto(acc, n), nodes, e.graph.nodes)

MergedGraph(entries) ==
    [nodes |-> FoldLeft(MergedWith, {}, entries),
     edges |-> UNION {e.graph.edges : e \in Range(entries)}]
-----------------------------------------------------------------------------
(* model.Compare *)

DependencyNodes(g) == {n \in g.nodes : n.kind = "dependency"}

NodeIDs(nodes) == {n.id : n \in nodes}

RelationshipIn(g, n) ==
    GraphRelationship([nodes |-> NodeIDs(g.nodes), dependencies |-> NodeIDs(DependencyNodes(g)), edges |-> g.edges],
                      n.id, n.relationship)

(* compareDependencyDetails: only what both sides say is compared. *)
ChangedFields(b, h, was, is) ==
    {f \in {"relationship", "source", "eligibility"} :
        CASE f = "relationship" -> was # "unknown" /\ is # "unknown" /\ was # is
          [] f = "source"       -> b.source # "" /\ h.source # "" /\ b.source # h.source
          [] f = "eligibility"  -> /\ b.source = h.source \/ (b.source # "" /\ h.source # "")
                                   /\ RegistryMatchEligible(b) # RegistryMatchEligible(h)}

(* sortNodesForDiff: by version, and those of one version by ID. *)
BeforeInDiff(a, b) == a.version < b.version \/ (a.version = b.version /\ a.id < b.id)

PlaceInDiff(nodes, n) == Cardinality({m \in nodes : BeforeInDiff(m, n)})

OnlyIn(g, other) == {n \in DependencyNodes(g) : n.id \notin NodeIDs(DependencyNodes(other))}

OfIdentity(nodes, identity) == {n \in nodes : n.identity = identity}

(* Bug: one version of a package is paired and the others are left over. *)
PairedFirst(old, new) == {p \in old \X new : PlaceInDiff(old, p[1]) = 0 /\ PlaceInDiff(new, p[2]) = 0}

(* What is left of one identity on the two sides, paired place by place. *)
Paired(old, new) == {p \in old \X new : PlaceInDiff(old, p[1]) = PlaceInDiff(new, p[2])}

Compare(base, head) ==
    LET old     == OnlyIn(base, head)
        new     == OnlyIn(head, base)
        updated == UNION {Paired(OfIdentity(old, k), OfIdentity(new, k)) : k \in {n.identity : n \in old}}
        kept    == {p \in DependencyNodes(base) \X DependencyNodes(head) : p[1].id = p[2].id}
        Change(p) ==
          LET was == RelationshipIn(base, p[1])
              is  == RelationshipIn(head, p[2])
          IN [before |-> p[1].id, after |-> p[2].id, was |-> was, is |-> is,
              fields |-> ChangedFields(p[1], p[2], was, is)]
    IN [updated     |-> {<<p[1].id, p[2].id>> : p \in updated},
        removed     |-> NodeIDs(old \ {p[1] : p \in updated}),
        added       |-> NodeIDs(new \ {p[2] : p \in updated}),
        transitions |-> {t \in {Change(p) : p \in kept \cup updated} : t.fields # {}}]
-----------------------------------------------------------------------------
(* The record of a scan. *)

(* dependenciesOf: manifest nodes are not listed. *)
DependenciesOf(g) ==
    LET listed == {n \in g.nodes : n.kind # "manifest"}
    IN {[node |-> n, dependsOn |-> ChildrenAmong(g, n.id, NodeIDs(listed))] : n \in listed}

FromScan(scan) ==
    [manifests |-> [i \in DOMAIN scan.entries |->
                      [path |-> scan.entries[i].path, subproject |-> scan.entries[i].subproject,
                       dependencies |-> DependenciesOf(scan.entries[i].graph)]],
     packages |-> scan.packages, findings |-> scan.findings]

ManifestBefore(m, k) == m.path < k.path \/ (m.path = k.path /\ m.subproject < k.subproject)

(* One insertion of a stable sort: behind its equals. *)
InsertManifest(sorted, m) ==
    LET later == {i \in DOMAIN sorted : ManifestBefore(m, sorted[i])}
    IN InsertAt(sorted, IF later = {} THEN Len(sorted) + 1 ELSE Min(later), m)

(* Dependency.Normalized: another word is not a relationship. *)
NormalizedDependency(d) ==
    IF d.node.relationship \in {"direct", "transitive", "unknown"} THEN d
    ELSE [d EXCEPT !.node.relationship = ""]

Gated(m) == [m EXCEPT !.dependencies = {NormalizedDependency(d) : d \in @}]

(* canonicalize, and the gates of MarshalJSON.  Findings are a set: their key
   is all that tells two of them apart. *)
Canonicalize(record) ==
    [record EXCEPT !.manifests = FoldLeft(InsertManifest, << >>, [i \in DOMAIN @ |-> Gated(@[i])])]

Sections == {"manifests", "packages", "findings"}

SchemaVersion == 1

NoBytes == [null |-> TRUE]

EmptySection(s) == IF s = "manifests" THEN << >> ELSE {}

(* A section as bytes: its value, the keys only a later minor knows, and the
   white space.  An older minor wrote no key for an empty section. *)
WrittenBy(w, s, value) ==
    IF w = "older" /\ value = EmptySection(s) THEN NoBytes
    ELSE [value |-> value, unknown |-> w = "later", spaced |-> FALSE]

Compact(bytes) == IF bytes = NoBytes THEN NoBytes ELSE [bytes EXCEPT !.spaced = FALSE]

(* sha256, taken to tell contents apart. *)
DigestOf(bytes) == <<bytes>>

NoDigest == << >>

(* Encode: a section's digest is over the bytes it is written as. *)
EncodeRecord(w, record) ==
    LET canonical == Canonicalize(record)
        sections == [s \in Sections |-> WrittenBy(w, s, canonical[s])]
    IN [schema |-> SchemaVersion, sections |-> sections,
        digests |-> [s \in Sections |-> IF w = "plain" THEN NoDigest ELSE DigestOf(sections[s])]]

ValueOf(s, bytes) == IF bytes = NoBytes THEN EmptySection(s) ELSE bytes.value

(* Bug: the digest is taken over what this reader would write. *)
DigestOfReencoding(s, bytes) == DigestOf(WrittenBy("this", s, ValueOf(s, bytes)))

(* sectionDigestsOf: over the bytes as they are found, white space aside. *)
DigestAsFound(s, bytes) == DigestOf(Compact(bytes))

RecordIn(wire) == [s \in Sections |-> ValueOf(s, wire.sections[s])]

WithinBounds(r) ==
    /\ Len(r.manifests) <= RecordBounds.manifests
    /\ \A m \in Range(r.manifests) : Cardinality(m.dependencies) <= RecordBounds.dependencies
    /\ Cardinality(r.packages) <= RecordBounds.packages
    /\ Cardinality(r.findings) <= RecordBounds.findings

(* Decode: what it refuses. *)
Verifies(wire) ==
    /\ wire.schema = SchemaVersion
    /\ WithinBounds(RecordIn(wire))
    /\ \A s \in Sections : wire.digests[s] \in {NoDigest, DigestAsFound(s, wire.sections[s])}
-----------------------------------------------------------------------------
(* scan.Compare *)

(* The identity NewModuleNode gives: the path that declares it, and its name. *)
ModuleID(path, name) == 100 * path + name

(* A module is minted anew, below the path of the manifest that lists it. *)
MintedNode(m, n) == IF n.kind = "module" THEN [n EXCEPT !.id = ModuleID(m.path, n.identity)] ELSE n

(* What an ID a record names was minted as: by the last manifest that lists it. *)
CanonicalID(r, id) ==
    LET Listing(i) == {d \in r.manifests[i].dependencies : d.node.id = id}
        at == {i \in DOMAIN r.manifests : Listing(i) # {}}
    IN IF at = {} THEN {} ELSE {MintedNode(r.manifests[Max(at)], d.node).id : d \in Listing(Max(at))}

(* graphOf: an edge whose end is not listed, or that is a loop, is left out. *)
GraphOfRecord(r) ==
    LET Insert(nodes, m) == FoldSet(LAMBDA d, acc : InsertedInto(acc, MintedNode(m, d.node)), nodes, m.dependencies)
        EdgesFrom(from, targets) == {from} \X (UNION {CanonicalID(r, t) : t \in targets} \ {from})
    IN [nodes |-> FoldLeft(Insert, {}, r.manifests),
        edges |-> UNION {UNION {EdgesFrom(MintedNode(m, d.node).id, d.dependsOn) : d \in m.dependencies} :
                           m \in Range(r.manifests)}]

(* findingRefOf: less who raised it. *)
FindingRefs(findings) == {[f EXCEPT !.auditor = 0] : f \in findings}

(* vulnerabilityDelta: an advisory is its source and ID, on a package. *)
Advisories(packages) == UNION {{<<p.purl, a>> : a \in p.advisories} : p \in packages}

CompareRecords(base, head) ==
    [dependencies |-> Compare(GraphOfRecord(base), GraphOfRecord(head)),
     addedVulnerabilities   |-> Advisories(head.packages) \ Advisories(base.packages),
     removedVulnerabilities |-> Advisories(base.packages) \ Advisories(head.packages),
     addedFindings   |-> FindingRefs(head.findings) \ FindingRefs(base.findings),
     removedFindings |-> FindingRefs(base.findings) \ FindingRefs(head.findings)]
-----------------------------------------------------------------------------
NoRecords == << >>

ScanIdle ==
    /\ phase = "idle" /\ scans = NoRecords /\ writer = "this" /\ wires = NoRecords
    /\ altered = FALSE /\ records = NoRecords /\ answer = NoRecords

ScanInit ==
    /\ phase = "scanned" /\ scans \in ScanPairs /\ writer = "this" /\ wires = NoRecords
    /\ altered = FALSE /\ records = NoRecords /\ answer = NoRecords

(* FromGraphEntries and Encode, of both scans. *)
WriteRecords ==
    /\ phase = "scanned"
    /\ writer' \in Writers
    /\ wires' = [i \in 1 .. 2 |-> EncodeRecord(writer', FromScan(scans[i]))]
    /\ phase' = "written"
    /\ UNCHANGED <<scans, altered, records, answer>>

(* A tool indents the first record for a reader. *)
Indent ==
    /\ phase = "written"
    /\ \A s \in Sections : wires[1].sections[s] # NoBytes /\ ~wires[1].sections[s].spaced
    /\ wires' = [wires EXCEPT ![1].sections = [s \in Sections |-> [@[s] EXCEPT !.spaced = TRUE]]]
    /\ UNCHANGED <<phase, scans, writer, altered, records, answer>>

(* Somebody takes the findings out. *)
StripFindings ==
    /\ phase = "written" /\ ~altered
    /\ wires[2].sections["findings"] # NoBytes /\ wires[2].sections["findings"].value # {}
    /\ wires' = [wires EXCEPT ![2].sections["findings"].value = {}]
    /\ altered' = TRUE
    /\ UNCHANGED <<phase, scans, writer, records, answer>>

DecodeRecords ==
    /\ phase = "written"
    /\ IF \A i \in 1 .. 2 : Verifies(wires[i])
       THEN phase' = "decoded" /\ records' = [i \in 1 .. 2 |-> RecordIn(wires[i])]
       ELSE phase' = "refused" /\ UNCHANGED records
    /\ UNCHANGED <<scans, writer, wires, altered, answer>>

CompareDecoded ==
    /\ phase = "decoded"
    /\ answer' = CompareRecords(records[1], records[2])
    /\ phase' = "compared"
    /\ UNCHANGED <<scans, writer, wires, altered, records>>

ScanNext == WriteRecords \/ Indent \/ StripFindings \/ DecodeRecords \/ CompareDecoded
-----------------------------------------------------------------------------
ScannedGraph(i) == MergedGraph(scans[i].entries)

GraphAnswer == Compare(ScannedGraph(1), ScannedGraph(2))

(* The same comparison, read from head to base. *)
Mirrored(diff) ==
    [updated |-> {<<p[2], p[1]>> : p \in diff.updated}, removed |-> diff.added, added |-> diff.removed,
     transitions |-> {[before |-> t.after, after |-> t.before, was |-> t.is, is |-> t.was, fields |-> t.fields] :
                        t \in diff.transitions}]

Sides(pairs, side) == {p[side] : p \in pairs}

(* Every dependency that only one scan has is told of once, as added, removed or
   one side of an update; what could have been an update is never told as an
   addition and a removal; and the comparison the other way round says the same
   backwards (graph.go:1035-1037). *)
ChangesAreToldOnce ==
    phase = "scanned" =>
        LET diff == GraphAnswer
            IdentityOf(i, ids) == {n.identity : n \in {m \in ScannedGraph(i).nodes : m.id \in ids}}
        IN /\ diff.removed \cup Sides(diff.updated, 1) = NodeIDs(OnlyIn(ScannedGraph(1), ScannedGraph(2)))
           /\ diff.added \cup Sides(diff.updated, 2) = NodeIDs(OnlyIn(ScannedGraph(2), ScannedGraph(1)))
           /\ diff.removed \cap Sides(diff.updated, 1) = {} /\ diff.added \cap Sides(diff.updated, 2) = {}
           /\ Cardinality(diff.updated) = Cardinality(Sides(diff.updated, 1))
           /\ Cardinality(diff.updated) = Cardinality(Sides(diff.updated, 2))
           /\ IdentityOf(1, diff.removed) \cap IdentityOf(2, diff.added) = {}
           /\ Compare(ScannedGraph(2), ScannedGraph(1)) = Mirrored(diff)

(* Every dependency of a graph says how it is related, *)
Stated(g) == \A n \in DependencyNodes(g) : n.relationship \in {"direct", "transitive", "unknown"}

(* or is below a module: no root or manifest holds a dependency itself, *)
UnderModules(g) ==
    /\ \A n \in g.nodes : n.kind = "manifest" => Children(g, n.id) \cap NodeIDs(DependencyNodes(g)) = {}
    /\ GraphRoots(g) \cap NodeIDs(DependencyNodes(g)) = {}
    /\ \A n \in DependencyNodes(g) : n.relationship = ""

(* and the modules of the root manifests are below nothing else. *)
HeadsStayOnTop(g) ==
    LET top   == {n.id : n \in {m \in g.nodes : m.kind = "manifest" /\ m.id \in GraphRoots(g)}}
        heads == UNION {Children(g, id) : id \in top}
    IN \A e \in g.edges : e[2] \in heads => e[1] \in top

(* The entries of a scan do not differ on what a dependency's source is, and
   no two modules of an entry have one name. *)
WitnessesAgree(scan) ==
    /\ \A e, f \in Range(scan.entries) : \A n \in e.graph.nodes, m \in f.graph.nodes :
         n.kind = "dependency" /\ n.id = m.id => n.source = m.source
    /\ \A e \in Range(scan.entries) : \A n, m \in e.graph.nodes :
         n.kind = "module" /\ m.kind = "module" /\ n.identity = m.identity => n = m

(* What the records say of the dependencies is what the graphs say of them: the
   edges through manifests, the sources and the relationships survive the
   record, whoever wrote it (scan/compare.go:52-55).  The manifests that are
   the roots of a graph are lost, so it needs modules that stand in for them. *)
RecordsCompareAlike ==
    phase = "compared" /\ (\A i \in 1 .. 2 : WitnessesAgree(scans[i])
                             /\ (Stated(ScannedGraph(i)) \/ (UnderModules(ScannedGraph(i)) /\ HeadsStayOnTop(ScannedGraph(i))))) =>
        answer.dependencies = GraphAnswer

(* scan/compare.go:82-83: "so a module stands at the root here, as the
   comparison expects", where every dependency is below a module. *)
ModulesStandAtTheRoot ==
    phase = "compared" /\ (\A i \in 1 .. 2 : WitnessesAgree(scans[i]) /\ UnderModules(ScannedGraph(i))) =>
        answer.dependencies = GraphAnswer

Reordered(scan) == [scan EXCEPT !.entries = Reverse(@)]

DistinctManifests(scan) ==
    \A i, j \in DOMAIN scan.entries :
        scan.entries[i].path = scan.entries[j].path /\ scan.entries[i].subproject = scan.entries[j].subproject
          => i = j

(* A record identifies its content: what was detected in another order has the
   same bytes, and a reader takes a record exactly when its sections are what
   the writer wrote, whatever minor of the schema wrote them and however they
   are laid out (encode.go:45-61).  It may be too large for the reader, and
   one without digests cannot be told from an altered one. *)
DigestsFollowContent ==
    /\ phase = "written" => \A i \in 1 .. 2 : DistinctManifests(scans[i]) =>
         EncodeRecord(writer, FromScan(Reordered(scans[i]))).digests = wires[i].digests
    /\ phase = "refused" => altered \/ \E i \in 1 .. 2 : ~WithinBounds(FromScan(scans[i]))
    /\ phase \in {"decoded", "compared"} /\ writer # "plain" => ~altered
=============================================================================
