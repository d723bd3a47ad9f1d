------------------------- MODULE ComponentExchange --------------------------
(***************************************************************************)
(* What is claimed of two components, as it goes from a graph and a        *)
(* registry into a document (FromGraphEntries and                          *)
(* enrichComponentFromRegistry, sbom/transform.go), onto the wire of       *)
(* either format and back (cycloneDXComponent, decodeCycloneDXComponent,   *)
(* sbom/cyclonedx.go; encodeJSON, decodeJSON, sbom/spdx23.go) and into a   *)
(* graph entry again (ToGraphEntry, sbom/graph.go).  Which components      *)
(* there are and what they are called is DocumentStructure's subject.      *)
(***************************************************************************)
EXTENDS LicenseExchange, AdvisoryExchange, ComponentClaims

CONSTANTS
    Holdings,        \* what detectors and matchers may have found of the components
    ForeignClaims,   \* documents of other producers, on the wire
    MaxClaimHops     \* BOUND: how often the components are exported and read

VARIABLES
    step,       \* what is in hand: "held", "projected", "written" or "read"
    held,       \* per component: [node, package]
    component,  \* per component: the document's record
    paper,      \* the encoded document: [format, components, ...]
    trail       \* history: what was held after each reading, with the format read

claimVars == <<step, held, component, paper, trail>>

Components == 1 .. 2

ReferenceFields == {"category", "type", "locator", "comment", "hashes"}

ASSUME HoldingsAssumption ==
    \A h \in Holdings, c \in Components :
      /\ h[c].node.homepage \in Int
      /\ \A r \in h[c].node.references : DOMAIN r = ReferenceFields /\ r.locator \in Nat

SPDX == 23
CycloneDXVersions == {15, 16, 17}
Formats == CycloneDXVersions \cup {SPDX}

NoPackage ==
    [licenses |-> {}, cpes |-> << >>, digests |-> {}, vulnerabilities |-> << >>, eol |-> NoEOL, scorecard |-> 0]

FirstStated(preferred, other, none) == IF preferred # none THEN preferred ELSE other

(* FromGraphEntries for one component, applyNodeAssertions, applyOrigins and
   enrichComponentFromRegistry. *)
Projected(c, h) ==
    [scopes |-> h.node.scopes, word |-> h.node.word, type |-> h.node.type,
     licenses |-> ComponentLicenses(FirstStated(h.package.licenses, h.node.licenses, {})),
     supplier |-> NormalizedContact(h.node.supplier), originator |-> NormalizedContact(h.node.originator),
     description |-> Published(h.node.description), copyright |-> Published(h.node.copyright),
     homepage |-> Published(h.node.homepage), references |-> MergeExternalReferences(h.node.references),
     cpes |-> FirstStated(h.package.cpes, h.node.cpes, << >>),
     digests |-> FirstStated(h.package.digests, h.node.digests, {}),
     origins |-> h.node.origins, scorecard |-> h.package.scorecard,
     vulnerabilities |-> VulnerabilitiesFromPackage(c, h.package.vulnerabilities),
     eol |-> h.package.eol]
-----------------------------------------------------------------------------
CycloneDXComponent(k, version) ==
    [word |-> CycloneDXScopeForExport(k.scopes, k.word), carrier |-> EncodeScopeSet(k.scopes),
     type |-> CycloneDXComponentType(k.type), licenses |-> CycloneDXLicenses(k.licenses, version),
     supplier |-> CycloneDXEntity(k.supplier), originator |-> CycloneDXApplyOriginator(k.originator),
     description |-> Published(k.description), copyright |-> Published(k.copyright),
     references |-> CycloneDXComponentReferences(k.origins, k.scorecard)
                      \cup CycloneDXEmittedReferences(CycloneDXAssertedReferences(k.references, k.homepage)),
     cpe |-> IF k.cpes = << >> THEN 0 ELSE Head(k.cpes),
     hashes |-> CycloneDXHashes(k.digests), eol |-> CycloneDXEOL(k.eol)]

(* The copies of the advisories, component by component. *)
Copies(doc) ==
    LET Of(c) == [i \in DOMAIN doc[c].vulnerabilities |-> [component |-> c, vuln |-> doc[c].vulnerabilities[i]]]
    IN FlattenSeq([c \in Components |-> Of(c)])

EncodeCycloneDXClaims(doc, version) ==
    [format |-> version, components |-> [c \in Components |-> CycloneDXComponent(doc[c], version)],
     vulnerabilities |-> CycloneDXVulnerabilities(Copies(doc))]

(* decodeCycloneDXComponent, applyCycloneDXAssertions *)
DecodeCycloneDXComponent(c, p) ==
    LET w    == p.components[c]
        refs == CycloneDXIngestedReferences(w.references)
    IN [scopes |-> ScopesFromCycloneDXComponent(w.word, w.carrier), word |-> w.word, type |-> w.type,
        licenses |-> ParseCycloneDXLicenses(w.licenses, p.format),
        supplier |-> CycloneDXSupplier(w.supplier), originator |-> CycloneDXOriginator(w.originator),
        description |-> Published(w.description), copyright |-> Published(w.copyright),
        homepage |-> CycloneDXIngestedHomepage(refs), references |-> refs,
        cpes |-> IF w.cpe = 0 THEN << >> ELSE <<w.cpe>>, digests |-> w.hashes,
        origins |-> << >>, scorecard |-> 0,
        vulnerabilities |-> VulnerabilitiesOf(c, p.vulnerabilities), eol |-> w.eol]
-----------------------------------------------------------------------------
Advisory(locator) ==
    [category |-> "SECURITY", type |-> "advisory", locator |-> locator, comment |-> 0, hashes |-> {}]

SPDXPackage(k) ==
    [carrier |-> EncodeScopeSet(k.scopes), type |-> SPDXComponentType(k.type),
     declared |-> SPDXLicenseFields(k.licenses).declared, concluded |-> SPDXLicenseFields(k.licenses).concluded,
     supplier |-> SPDXContact(k.supplier), originator |-> SPDXContact(k.originator),
     description |-> Published(k.description), copyright |-> Published(k.copyright),
     homepage |-> Published(k.homepage), cpes |-> IngestedCPEs(k.cpes),
     downloadLocation |-> SPDXDownloadLocation(k.origins, k.scorecard),
     references |-> {Advisory(l) : l \in SPDXVulnerabilityLocators(k.vulnerabilities)}
                      \cup SPDXAdditionalOriginReferences(k.origins, k.scorecard)
                      \cup SPDXEmittedReferences(k.references),
     checksums |-> SPDXChecksums(k.digests), eol |-> SPDXEOL(k.eol)]

(* The extracted texts are the document's, not a package's. *)
EncodeSPDXClaims(doc) ==
    [format |-> SPDX, components |-> [c \in Components |-> SPDXPackage(doc[c])],
     extracted |-> UNION {SPDXLicenseFields(doc[c].licenses).extracted : c \in Components}]

(* decodeJSON for one package, applySPDXAssertions *)
DecodeSPDXPackage(w, extracted) ==
    [scopes |-> DecodeScopeSetLenient(w.carrier), word |-> "", type |-> w.type,
     licenses |-> ParseSPDXLicenses(w, extracted),
     supplier |-> SPDXContact(w.supplier), originator |-> SPDXContact(w.originator),
     description |-> Published(w.description), copyright |-> Published(w.copyright),
     homepage |-> Published(w.homepage), references |-> SPDXIngestedReferences(w.references),
     cpes |-> w.cpes, digests |-> w.checksums, origins |-> << >>, scorecard |-> 0,
     vulnerabilities |-> << >>, eol |-> w.eol]
-----------------------------------------------------------------------------
(* toGraph, applyIngestedAssertions *)
IngestedNode(k) ==
    [scopes |-> k.scopes, word |-> k.word, type |-> k.type, licenses |-> GraphLicenses(k.licenses),
     supplier |-> NormalizedContact(k.supplier), originator |-> NormalizedContact(k.originator),
     description |-> Published(k.description), copyright |-> Published(k.copyright),
     homepage |-> Published(k.homepage), references |-> MergeExternalReferences(k.references),
     cpes |-> IngestedCPEs(k.cpes), digests |-> {d \in k.digests : d.algorithm # "neither"},
     origins |-> << >>]

(* ToGraphEntry: a package only where there is something for the registry;
   seededAssertions gives it the node's own claims. *)
IngestedPackage(k) ==
    LET n == IngestedNode(k)
    IN IF k.vulnerabilities = << >> /\ ~k.eol.stated THEN NoPackage
       ELSE [licenses |-> Range(DetectionLicenses(n.licenses)), cpes |-> n.cpes, digests |-> n.digests,
             vulnerabilities |-> PackageVulnerabilities(k.vulnerabilities), eol |-> k.eol, scorecard |-> 0]
-----------------------------------------------------------------------------
NoClaims == << >>

ClaimInit ==
    /\ component = NoClaims
    /\ \/ /\ step = "held" /\ held \in Holdings /\ paper = NoClaims
          /\ trail = <<[format |-> 0, held |-> held]>>
       \/ /\ step = "written" /\ paper \in ForeignClaims /\ held = NoClaims
          /\ trail = << >>

ClaimsIdle == step = "idle" /\ held = NoClaims /\ component = NoClaims /\ paper = NoClaims /\ trail = << >>

Project ==
    /\ step = "held" /\ Len(trail) <= MaxClaimHops
    /\ component' = [c \in Components |-> Projected(c, held[c])]
    /\ step' = "projected" /\ held' = NoClaims
    /\ UNCHANGED <<paper, trail>>

Write(format) ==
    /\ step = "projected"
    /\ paper' = IF format = SPDX THEN EncodeSPDXClaims(component) ELSE EncodeCycloneDXClaims(component, format)
    /\ step' = "written" /\ component' = NoClaims
    /\ UNCHANGED <<held, trail>>

Read ==
    /\ step = "written"
    /\ component' = [c \in Components |->
         IF paper.format = SPDX THEN DecodeSPDXPackage(paper.components[c], paper.extracted)
         ELSE DecodeCycloneDXComponent(c, paper)]
    /\ step' = "read"
    /\ UNCHANGED <<held, paper, trail>>

Ingest ==
    /\ step = "read"
    /\ held' = [c \in Components |-> [node |-> IngestedNode(component[c]), package |-> IngestedPackage(component[c])]]
    /\ trail' = Append(trail, [format |-> paper.format, held |-> held'])
    /\ step' = "held" /\ component' = NoClaims /\ paper' = NoClaims

ClaimNext ==
    \/ Project
    \/ \E f \in Formats : Write(f)
    \/ Read
    \/ Ingest
-----------------------------------------------------------------------------
(* The formats a component has been through since it was first held. *)
Through == {trail[i].format : i \in 2 .. Len(trail)}

FirstHeld(c) == trail[1].held[c]

EffectiveLicenses(h) == FirstStated(h.package.licenses, h.node.licenses, {})

(* What a reader can take of a set of scopes: those it knows, in any spelling.
   One that is none spoils the list, and leaves what the word for it says. *)
ScopesLeft(scopes, format) ==
    IF "," \notin scopes THEN {ParseScope(s) : s \in scopes} \ {ScopeUnknown}
    ELSE IF format = SPDX THEN {}
    ELSE IF "runtime" \in scopes THEN {"runtime"} ELSE scopes \cap {"development"}

(* Saying nothing means "required" in CycloneDX. *)
Defaulted(scopes, formats) ==
    IF scopes = {} /\ formats \cap CycloneDXVersions # {} THEN {"runtime"} ELSE scopes

(* The first export keeps every scope its reader knows, whatever stands beside
   it, and adds none; after it nothing changes, through any formats in any
   order.  Only a component of which no scope is left is taken for a runtime
   component, and only by CycloneDX. *)
ScopesSurvive ==
    step = "held" =>
      \A c \in Components :
        held[c].node.scopes =
          IF Len(trail) = 1 THEN FirstHeld(c).node.scopes
          ELSE Defaulted(ScopesLeft(FirstHeld(c).node.scopes, trail[2].format), Through)

(* Every licence that was named of a component is named of it after any number
   of exports and readings, in any formats, and no other is: an expression by
   its parts, a text by itself or by the reference minted from it. *)
EveryLicenseIsNamed ==
    step = "held" =>
      \A c \in Components : NamedBy(EffectiveLicenses(held[c])) = NamedBy(EffectiveLicenses(FirstHeld(c)))

(* A licence is concluded only if someone concluded it: no format makes a
   conclusion of a declaration, and the two that can tell them apart whatever
   the licences are (SPDX and CycloneDX 1.7) keep every conclusion. *)
ConclusionsStayApart ==
    step = "held" =>
      \A c \in Components :
        LET now == ConcludedBy(EffectiveLicenses(held[c]))
            was == ConcludedBy(EffectiveLicenses(FirstHeld(c)))
        IN now \subseteq was /\ (Through \subseteq {SPDX, 17} => now = was)

Addresses(origins) ==
    UNION {{o.artifact, o.repository, PinnedVCSReference(o), VCSLocator(o)} : o \in Range(origins)}

Fetched(h) == (Addresses(h.node.origins) \cup {h.package.scorecard}) \ {0}

Claimed(h) == {r.locator : r \in h.node.references} \cup {h.node.homepage}

(* SPDX has no other place for an advisory than a reference to it. *)
Cited(h) == {r.locator : r \in {r \in h.node.references : r.type # "advisory"}}

(* Where a package was fetched from is published, and never comes back as a
   reference that the document's producer is said to have made, unless it was
   one to begin with, or is the homepage. *)
OriginsAreNotClaimed ==
    step = "held" =>
      \A c \in Components : Cited(held[c]) \cap Fetched(FirstHeld(c)) \subseteq Claimed(FirstHeld(c))

(* What is said of a component by its advisories is said of it alone: two
   components that share an advisory and differ in its analysis, rating or
   recommendation keep their own through every CycloneDX version. *)
AdvisoriesStayTheirOwn ==
    step = "held" /\ SPDX \notin Through =>
      \A c \in Components :
        Statements(c, held[c].package.vulnerabilities) = Statements(c, FirstHeld(c).package.vulnerabilities)

(* Apart from the word for a scope, where it says what would be said anyway. *)
Substance(h) == [h EXCEPT !.node.word = CycloneDXScopeForExport(h.node.scopes, @)]

(* A second export in the same format changes nothing: what a format cannot
   hold is lost the first time or not at all. *)
ClaimsSettle ==
    \A i \in 3 .. Len(trail), c \in Components :
      trail[i].format = trail[i - 1].format => Substance(trail[i].held[c]) = Substance(trail[i - 1].held[c])

RefsOf(p) == UNION {RefsIn(p.components[c].declared) \cup RefsIn(p.components[c].concluded) : c \in Components}

(* The references in the licence fields of the first SPDX export have their
   texts in the document: none reaches the component without one. *)
CitedTextTravels ==
    step = "written" /\ Len(trail) = 1 /\ trail[1].format = 0 /\ paper.format = SPDX =>
      RefsOf(paper) \subseteq {x[1] : x \in paper.extracted}
=============================================================================
