------------------------------ MODULE NodeFold ------------------------------
(***************************************************************************)
(* What becomes of a dependency that several witnesses report:             *)
(* Graph.InsertNode and foldNodes (model/graph.go), MergeGraph             *)
(* (model/container.go), and the package seeded from the result            *)
(* (PackageFromDependencyNode, model/package.go).                          *)
(*                                                                         *)
(* Two graphs hold the node of one identity, or not yet.  A node has one   *)
(* field per way of folding: a rank, sets, the usage records, the origins, *)
(* the source that decides on matching, scalars that fill a gap, the       *)
(* external references, and the licences in both places they are kept.     *)
(* The other fields of a witness's assertions fold as PackageRegistry has  *)
(* them; modules and manifests fold by filling gaps and by usage alone.    *)
(***************************************************************************)
EXTENDS LicenseMerge, Relationships, FiniteSets

CONSTANTS
    Graphs,
    Reports,     \* the nodes detectors may report
    MaxReports   \* BOUND: the reports that reach one graph

RelationshipWords == {"", "direct", "transitive", "unknown"}

UsageRecords == [path : STRING, root : STRING, scopes : SUBSET STRING, relationship : RelationshipWords]

OriginRecords == [kind : STRING, place : STRING, revision : STRING]

ReferenceRecords == [key : Int, comment : Nat, hashes : SUBSET STRING]

IsNode(n) ==
    /\ n = [relationship |-> n.relationship, scopes |-> n.scopes, locations |-> n.locations,
            origins |-> n.origins, source |-> n.source, references |-> n.references,
            licenses |-> n.licenses, stash |-> n.stash, sourceScope |-> n.sourceScope,
            foundBy |-> n.foundBy, matched |-> n.matched]
    /\ n.relationship \in RelationshipWords
    /\ n.scopes \subseteq STRING
    /\ n.locations \in Seq(UsageRecords)
    /\ n.origins \in Seq(OriginRecords)
    /\ n.references \in Seq(ReferenceRecords)
    /\ n.licenses \in Seq(LicenseRecords)
    /\ n.stash \in Seq(LicenseRecords)
    /\ n.sourceScope \in STRING
    /\ n.foundBy \in STRING
    /\ n.matched \in BOOLEAN

ASSUME ReportAssumption == \A n \in Reports : IsNode(n)

VARIABLES
    swift,   \* the identity is a Swift package
    node,    \* per graph: the folded node, or NoNode
    seen     \* history: per graph, the witnesses in order of arrival

foldVars == <<swift, node, seen>>

NoNode == [absent |-> TRUE]

FillGap(current, next) == IF current = "" THEN next ELSE current
-----------------------------------------------------------------------------
(* Usage records: [path, root, scopes, relationship]. *)

Known(scopes) == scopes \ {""}

(* Bug: the module root is not part of what names a usage. *)
SamePath(a, b) == a.path = b.path

SameUsage(a, b) == a.path = b.path /\ a.root = b.root

(* mergeUsageRecord; mergeScopeSet drops what is unknown. *)
MergeUsage(dst, src) ==
    [dst EXCEPT !.scopes = Known(@ \cup src.scopes),
                !.relationship = MergeDependencyRelationship(@, src.relationship)]

MergeLocation(dst, location) ==
    LET at == {i \in DOMAIN dst : SameUsage(dst[i], location)}
    IN IF at = {} THEN Append(dst, location)
       ELSE [dst EXCEPT ![Min(at)] = MergeUsage(@, location)]

MergeNodeLocations(dst, additions) == FoldLeft(MergeLocation, dst, additions)

(* As a set: the sort at the end is by what names a usage, and each usage is
   named once. *)
CanonicalLocations(locations) ==
    {[l EXCEPT !.scopes = Known(@)] : l \in Range(MergeNodeLocations(<< >>, locations))}

LocationScopes(locations) == Known(UNION {l.scopes : l \in Range(locations)})
-----------------------------------------------------------------------------
(* Origins: [kind, place, revision]; a kind is "artifact", "repository" or
   "unpublishable". *)

NormalizedOrigin(o) ==
    [o EXCEPT !.revision = IF o.kind = "repository" /\ @ # "invalid" THEN @ ELSE ""]

MergeOrigin(merged, o) ==
    LET n == NormalizedOrigin(o)
    IN IF n.kind = "unpublishable" \/ n \in Range(merged) THEN merged ELSE Append(merged, n)

Superseded(o, origins) ==
    /\ o.kind = "repository"
    /\ o.revision = ""
    /\ \E p \in origins : p.kind = "repository" /\ p.place = o.place /\ p.revision # ""

DropSupersededOrigins(origins) ==
    FoldLeft(LAMBDA kept, o : IF Superseded(o, Range(origins)) THEN kept ELSE Append(kept, o),
             << >>, origins)

(* Bug: what arrives goes in front of what is there. *)
MergeOriginsInFront(existing, additions) ==
    DropSupersededOrigins(FoldLeft(MergeOrigin, << >>, additions \o existing))

MergeOrigins(existing, additions) ==
    DropSupersededOrigins(FoldLeft(MergeOrigin, << >>, existing \o additions))
-----------------------------------------------------------------------------
(* External references: [key, comment, hashes], a comment being a number in
   the order of the texts and 0 for none, and a negative key one the gate
   refuses. *)

ReconcileComments(existing, incoming) ==
    IF incoming # 0 /\ (existing = 0 \/ incoming < existing) THEN incoming ELSE existing

ReconcileReference(reference, r) ==
    [reference EXCEPT !.hashes = @ \cup r.hashes,
                      !.comment = ReconcileComments(@, r.comment)]

MergeReference(merged, r) ==
    LET at == {i \in DOMAIN merged : merged[i].key = r.key}
    IN IF r.key < 0 THEN merged
       ELSE IF at = {} THEN Append(merged, r)
       ELSE [merged EXCEPT ![Min(at)] = ReconcileReference(@, r)]

(* sort.Slice by key; each key is there once. *)
InKeyOrder(references) ==
    CHOOSE sorted \in [DOMAIN references -> Range(references)] :
        /\ Range(sorted) = Range(references)
        /\ \A i, j \in DOMAIN references : i < j => sorted[i].key < sorted[j].key

MergeExternalReferences(existing, additions) ==
    InKeyOrder(FoldLeft(MergeReference, << >>, existing \o additions))
-----------------------------------------------------------------------------
RegistryMatchEligible(n) ==
    \/ swift /\ n.source = "git"
    \/ n.source \notin {"project", "workspace", "file", "git", "url"}

NormalizeSourceScope(word) == IF word = "unpublishable" THEN "" ELSE word

(* The typed field and the stash an older producer left in the metadata. *)
DetectionLicenses(n) == MergeLicenses(<< >>, MergeLicenses(n.licenses, n.stash))

(* The licences after the fold's own merge and the one inside
   Assertions.MergeFrom, which normalises both sides first. *)
FoldedLicenses(survivor, witness) ==
    MergeLicenses(
        MergeLicenses(<< >>, MergeLicenses(DetectionLicenses(survivor), DetectionLicenses(witness))),
        MergeLicenses(<< >>, witness.licenses))

foldNodes(survivor, witness) ==
    LET locations == MergeNodeLocations(survivor.locations, witness.locations) IN
    [survivor EXCEPT
       !.relationship = MergeDependencyRelationship(@, witness.relationship),
       !.scopes = @ \cup Known(witness.scopes) \cup LocationScopes(locations),
       !.locations = locations,
       !.origins = MergeOrigins(@, witness.origins),
       !.source = IF ~RegistryMatchEligible(survivor) /\ RegistryMatchEligible(witness)
                  THEN witness.source ELSE @,
       !.references = MergeExternalReferences(@, witness.references),
       !.licenses = FoldedLicenses(survivor, witness),
       !.sourceScope = FillGap(NormalizeSourceScope(@), NormalizeSourceScope(witness.sourceScope)),
       !.foundBy = FillGap(@, witness.foundBy),
       !.matched = @ \/ witness.matched,
       !.stash = IF @ = << >> THEN witness.stash ELSE @]

(* What a node brings to the package registry. *)
PackageFromDependencyNode(n) ==
    [licenses |-> MergeLicenses(<< >>, DetectionLicenses(n)),
     references |-> MergeExternalReferences(<< >>, n.references),
     origins |-> MergeOrigins(<< >>, n.origins)]
-----------------------------------------------------------------------------
FoldInit ==
    /\ swift \in BOOLEAN
    /\ node = [g \in Graphs |-> NoNode]
    /\ seen = [g \in Graphs |-> << >>]

(* InsertNode: the first witness is taken as it is. *)
Inserted(current, witness) == IF current = NoNode THEN witness ELSE foldNodes(current, witness)

InsertNode(g, w) ==
    /\ Len(seen[g]) < MaxReports
    /\ node' = [node EXCEPT ![g] = Inserted(@, w)]
    /\ seen' = [seen EXCEPT ![g] = Append(@, w)]
    /\ UNCHANGED swift

MergeGraph(dst, src) ==
    /\ dst # src
    /\ node[src] # NoNode
    /\ Len(seen[dst]) + Len(seen[src]) <= MaxReports
    /\ node' = [node EXCEPT ![dst] = Inserted(@, node[src])]
    /\ seen' = [seen EXCEPT ![dst] = @ \o seen[src]]
    /\ UNCHANGED swift

FoldNext ==
    \/ \E g \in Graphs, w \in Reports : InsertNode(g, w)
    \/ \E dst, src \in Graphs : MergeGraph(dst, src)

-----------------------------------------------------------------------------
Present == {g \in Graphs : node[g] # NoNode}

Published(g) == PackageFromDependencyNode(node[g])

Strongest(relationships) ==
    CHOOSE r \in relationships : \A s \in relationships : Rank(s) <= Rank(r)

Sites(g) == UNION {Range(w.locations) : w \in Range(seen[g])}

(* The usage records the witnesses make together. *)
UsagesOf(sites) ==
    LET of(path, root) == {s \in sites : s.path = path /\ s.root = root}
    IN {[path |-> s.path, root |-> s.root,
         scopes |-> Known(UNION {t.scopes : t \in of(s.path, s.root)}),
         relationship |-> Strongest({t.relationship : t \in of(s.path, s.root)})] : s \in sites}

ReferencesOf(refs) ==
    {[key |-> k,
      comment |-> LET stated == {r.comment : r \in {q \in refs : q.key = k}} \ {0}
                  IN IF stated = {} THEN 0 ELSE Min(stated),
      hashes |-> UNION {r.hashes : r \in {q \in refs : q.key = k}}] :
        k \in {r.key : r \in {q \in refs : q.key >= 0}}}

(* Relationship, usages, references, eligibility and matching depend on who
   reported the dependency and not on the order, the graph or the merges they
   came through; so do the scopes, once a second witness has made the fold lift
   them from the sites (graph.go:296-310). *)
FoldIgnoresOrder ==
    \A g \in Present :
        LET witnesses == Range(seen[g]) IN
        /\ node[g].relationship = Strongest({w.relationship : w \in witnesses})
        /\ CanonicalLocations(node[g].locations) = UsagesOf(Sites(g))
        /\ Range(Published(g).references) = ReferencesOf(UNION {Range(w.references) : w \in witnesses})
        /\ RegistryMatchEligible(node[g]) <=> \E w \in witnesses : RegistryMatchEligible(w)
        /\ node[g].matched <=> \E w \in witnesses : w.matched
        /\ Len(seen[g]) > 1 =>
             Known(node[g].scopes) = Known((UNION {w.scopes : w \in witnesses}) \cup (UNION {s.scopes : s \in Sites(g)}))

Joined(origins, w) == origins \o w.origins

StatedOrigins(witnesses) == FoldLeft(Joined, << >>, witnesses)

PublishableOrigins(origins) == {o \in {NormalizedOrigin(p) : p \in Range(origins)} : o.kind # "unpublishable"}

Standing(origins) == {o \in origins : ~Superseded(o, origins)}

FirstStated(origins, o) == Min({i \in DOMAIN origins : NormalizedOrigin(origins[i]) = o})

StatedBefore(words) ==
    LET stated == {i \in DOMAIN words : words[i] # ""}
    IN IF stated = {} THEN "" ELSE words[Min(stated)]

(* Where order counts, the first to say something keeps its place through any
   number of folds: the origins published are those that nobody has pinned more
   precisely, in the order in which they were first stated, and a scalar is the
   first stated (origin.go:563-578). *)
FirstStatedStands ==
    \A g \in Present :
        LET stated == StatedOrigins(seen[g])
            published == Published(g).origins
        IN /\ Range(published) = Standing(PublishableOrigins(stated))
           /\ \A i, j \in DOMAIN published :
                 i < j => FirstStated(stated, published[i]) < FirstStated(stated, published[j])
           /\ node[g].foundBy = StatedBefore([i \in DOMAIN seen[g] |-> seen[g][i].foundBy])
           /\ NormalizeSourceScope(node[g].sourceScope) =
                StatedBefore([i \in DOMAIN seen[g] |-> NormalizeSourceScope(seen[g][i].sourceScope)])

(* Every claim any witness made, in the typed field or in the stash, reaches the
   package, with a name if any witness had one, and no other does. *)
LicensesSurvive ==
    \A g \in Present :
        LET witnesses == Range(seen[g]) IN
        /\ Claims(Published(g).licenses) =
             UNION {Claims(w.licenses) \cup Claims(w.stash) : w \in witnesses}
        /\ NamedClaims(Published(g).licenses) =
             UNION {NamedClaims(w.licenses) \cup NamedClaims(w.stash) : w \in witnesses}

(* No reference a package cites names two licences, although documents define
   the same reference for different terms (package.go:485-504). *)
RefNamesOneLicense ==
    \A g \in Present : \A l, k \in Range(Published(g).licenses) :
        l.expression.ref # 0 /\ l.expression.ref = k.expression.ref => l.text.class = k.text.class

=============================================================================
