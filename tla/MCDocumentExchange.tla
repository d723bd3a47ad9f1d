------------------------- MODULE MCDocumentExchange --------------------------
(* Documents about documents: two revisions of one serial number, a document
   without an identity, an SPDX document that links to itself. *)
EXTENDS DocumentExchange, TLC

Tool(vendor, name, version) == [vendor |-> vendor, name |-> name, version |-> version]
Link(identity, hashes) == [identity |-> identity, hashes |-> hashes]

Bare ==
    [format |-> "cyclonedx", serial |-> 0, namespace |-> NoIdentity, version |-> 0, created |-> 0,
     name |-> 0, comment |-> 0, tools |-> << >>, parties |-> {}, links |-> << >>]

FirstRevision ==
    [Bare EXCEPT !.serial = 1, !.version = 1, !.created = 3, !.tools = <<Tool(2, 10, 1), Tool(1, 30, 0)>>,
                 !.parties = {Organization(5), Person(4)}]

SecondRevision ==
    [FirstRevision EXCEPT !.version = 2,
       !.links = <<Link(BOMLink(1, 1), <<-7, 71>>), Link(Refused, << >>), Link(BOMLink(1, 2), <<72>>)>>]

ForeignSPDX ==
    [Bare EXCEPT !.format = "spdx", !.namespace = Namespace(1), !.created = 2, !.name = 6, !.comment = 8,
                 !.tools = <<Tool(0, 31, 0)>>, !.parties = {Organization(9), Organization(5)},
                 !.links = <<Link(Namespace(2), <<73>>), Link(Namespace(1), <<74>>)>>]

AllForeign == {Bare, FirstRevision, SecondRevision, ForeignSPDX}
Bomly1 == Tool(0, 20, 3)
-----------------------------------------------------------------------------
(* Two manifests, one above the other or in a cycle, modules below them and
   dependencies; inventories with and without bom-refs, some of which other
   entries derive. *)
N(id, kind, purl, name, version) == [id |-> id, kind |-> kind, purl |-> purl, name |-> name, version |-> version]

AllNodes ==
    {N(601, "manifest", 0, 0, 0), N(602, "manifest", 0, 0, 0),
     N(501, "module", 0, 4, 0), N(502, "module", 21, 5, 1),
     N(21, "dependency", 21, 5, 1), N(22, "dependency", 22, 6, 1), N(23, "dependency", 23, 7, 1)}

AllEdges ==
    {<<601, 501>>, <<501, 602>>, <<602, 502>>, <<602, 601>>, <<502, 22>>, <<22, 23>>, <<23, 22>>, <<501, 21>>, <<21, 502>>}

AllGraphs == {[nodes |-> AllNodes, edges |-> E] : E \in SUBSET AllEdges}

E(ref, purl, name, version) == [ref |-> ref, purl |-> purl, name |-> name, version |-> version]

Entries ==
    {E(<<21>>, 0, 3, 1), E(NoRef, 21, 3, 1), E(<<21, 1>>, 22, 3, 1), E(NoRef, 0, 5, 0), E(NoRef, 0, 0, 0),
     E(<<350>>, 23, 6, 0)}

Inventories ==
    {s \in UNION {[1..k -> Entries] : k \in 0..3} :
       \A i, j \in DOMAIN s : i # j /\ s[i].ref # NoRef => s[i].ref # s[j].ref}

Primaries == {Nothing, E(NoRef, 0, 5, 0), E(<<350>>, 23, 6, 0), E(<<40>>, 0, 8, 0)}

ForeignDepends == {{}, {<<(<<21>>), (<<21, 1>>)>>, <<(<<21, 1>>), (<<350>>)>>, <<(<<40>>), (<<21>>)>>, <<(<<350>>), (<<9>>)>>}}

ForeignCycloneDX ==
    {[format |-> "cyclonedx", inventory |-> s, primary |-> p, depends |-> d] :
       s \in Inventories, p \in Primaries, d \in ForeignDepends}

ForeignRelationships ==
    {[format |-> "spdx", packages |-> <<E(<<1>>, 22, 1, 0), E(<<2>>, 0, 2, 0), E(<<3>>, 0, 3, 0)>>, relationships |-> R] :
       R \in SUBSET {Relationship("describes", TheDocument, <<2>>), Relationship("described_by", <<1>>, TheDocument),
                     Relationship("depends_on", <<2>>, <<1>>), Relationship("dependency_of", <<3>>, <<1>>),
                     Relationship("dependency_of", <<3>>, <<9>>)}}

AllDocuments == ForeignCycloneDX \cup ForeignRelationships

Shared == (<<22>> :> <<22>>) @@ (<<23>> :> <<22>>) @@ (<<21>> :> <<22, 1>>)

AllProjects == {[name |-> 0, version |-> 0], [name |-> 1, version |-> 0], [name |-> 1, version |-> 2]}
-----------------------------------------------------------------------------
(* Components that differ from a plain one in one kind of claim at a time:
   scopes, licences, contacts, references, origins, identifiers, advisories. *)
Plain ==
    [scopes |-> {"runtime"}, word |-> "", type |-> "package", licenses |-> {}, supplier |-> NoContact,
     originator |-> NoContact, description |-> 0, copyright |-> 0, homepage |-> 0, references |-> {},
     cpes |-> << >>, digests |-> {}, origins |-> << >>]

Held(node, package) == [c \in Components |-> IF c = 1 THEN [node |-> node, package |-> package]
                                             ELSE [node |-> Plain, package |-> NoPackage]]

UpTo(n, S) == {T \in SUBSET S : Cardinality(T) <= n}

ScopeNodes ==
    {[Plain EXCEPT !.scopes = s, !.word = w] :
       s \in UpTo(3, KnownScopes \cup {"RUNTIME", "future", ",", ScopeUnknown}),
       w \in {"", "required", "optional", "excluded", "provided"}}

License(type, value, expression, text) == [type |-> type, value |-> value, expression |-> expression, text |-> text]

LicensePool ==
    {License("declared", <<2>>, <<2>>, 0), License("concluded", <<3>>, <<3>>, 0), License("odd", <<9>>, << >>, 0),
     License("concluded", <<21>>, << >>, 0), License("declared", <<12>>, <<12>>, 0),
     License("", <<22>>, <<2, 12>>, 0), License("declared", <<4>>, <<31>>, 23),
     License("concluded", <<5>>, <<6, MintLicenseRef(22)>>, 24), License("", <<7>>, <<32>>, 0)}

LicenseNodes == {[Plain EXCEPT !.licenses = ls] : ls \in UpTo(2, LicensePool)}
LicensePackages == {[NoPackage EXCEPT !.licenses = {l}] : l \in LicensePool}

Contact(kind, name, url) == [kind |-> kind, name |-> name, url |-> url]
ContactPool == {Contact("organization", 1, 2), Contact("person", 3, 0), NoAssertion, Contact("", 4, 5), Contact("person", 0, 1)}
ContactNodes == {[Plain EXCEPT !.supplier = s, !.originator = o, !.description = 1, !.copyright = -1] :
                   s, o \in ContactPool \cup {NoContact}}

Ref(category, type, locator, comment, hashes) ==
    [category |-> category, type |-> type, locator |-> locator, comment |-> comment, hashes |-> hashes]
Digest(algorithm) == [algorithm |-> algorithm, value |-> 1]
Digests == {Digest("both"), Digest("cyclonedx"), Digest("spdx"), Digest("neither")}
RefPool ==
    {Ref("", "website", 21, 2, {Digest("both")}), Ref("OTHER", "website", 21, 1, {}), Ref("SECURITY", "advisory", 22, 0, {}),
     Ref("OTHER", "advisory", 22, 0, {}), Ref("", "issue-tracker", 31, 0, {Digest("spdx")}), Ref("OTHER", "chat", 51, 0, {}),
     Ref("PACKAGE-MANAGER", "purl", 32, 0, {}), Ref("", "vcs", 3, 0, {})}
ReferenceNodes == {[Plain EXCEPT !.references = rs, !.homepage = h] : rs \in UpTo(2, RefPool), h \in {0, 20, 21}}

OriginPool ==
    {[artifact |-> 1, repository |-> 0, revision |-> 0], [artifact |-> 0, repository |-> 3, revision |-> 7],
     [artifact |-> 2, repository |-> 4, revision |-> 0]}
OriginNodes == {[Plain EXCEPT !.origins = os] : os \in {<<a, b>> : a, b \in OriginPool} \cup {<<a>> : a \in OriginPool} \cup {<< >>}}

Advisory1 ==
    [id |-> 1, source |-> 0, dataSource |-> 7, severity |-> "high", score |-> 31, fixed |-> 2, details |-> 1,
     recommendation |-> << >>, analysis |-> 0, urls |-> <<-1, 8, 9>>]

(* An address may be the homepage, a website or an advisory as well. *)
ClaimedOrigins ==
    {Held([Plain EXCEPT !.origins = <<o>>, !.homepage = h, !.references = rs],
          [NoPackage EXCEPT !.scorecard = 5,
                            !.vulnerabilities = IF h = 0 THEN << >> ELSE <<[Advisory1 EXCEPT !.urls = <<h>>]>>]) :
       o \in OriginPool, h \in {0, 3, 4, 5}, rs \in UpTo(1, {Ref("", "website", 4, 0, {}), Ref("", "vcs", 4, 0, {})})}

EOLs == {NoEOL, [NoEOL EXCEPT !.stated = TRUE, !.date = 1], [NoEOL EXCEPT !.stated = TRUE, !.flag = TRUE, !.cycle = 2, !.latest = 3]}
IdentifierNodes == {[Plain EXCEPT !.type = t, !.cpes = c, !.digests = Digests] :
                      t \in {"", "package", "application", "workflow"}, c \in {<< >>, <<1, 2>>, <<2, -1>>}}

AdvisoryPool ==
    {Advisory1, [Advisory1 EXCEPT !.analysis = 1], [Advisory1 EXCEPT !.analysis = -1, !.fixed = 3],
     [Advisory1 EXCEPT !.recommendation = <<5>>], [Advisory1 EXCEPT !.recommendation = <<5>>, !.fixed = 0],
     [Advisory1 EXCEPT !.severity = "", !.score = 0], [Advisory1 EXCEPT !.severity = "error", !.urls = << >>]}
Advisory2 == [Advisory1 EXCEPT !.id = 2, !.source = 6, !.fixed = 0]
Advised(vs) == [NoPackage EXCEPT !.vulnerabilities = vs]

MCHoldings ==
    {Held(n, NoPackage) : n \in ScopeNodes \cup LicenseNodes \cup ContactNodes \cup ReferenceNodes}
      \cup {Held([Plain EXCEPT !.licenses = {l}], p) : l \in LicensePool, p \in LicensePackages}
      \cup {Held(n, [NoPackage EXCEPT !.scorecard = s]) : n \in OriginNodes, s \in {0, 4, 5}} \cup ClaimedOrigins
      \cup {Held(n, [NoPackage EXCEPT !.eol = e, !.cpes = c]) : n \in IdentifierNodes, e \in EOLs, c \in {<< >>, <<3>>}}
      \cup {[c \in Components |-> [node |-> Plain, package |-> Advised(IF c = 1 THEN <<a, Advisory2>> ELSE <<b>>)]] :
              a, b \in AdvisoryPool}
-----------------------------------------------------------------------------
PlainCycloneDX == CycloneDXComponent(Projected(1, [node |-> Plain, package |-> NoPackage]), 17)
PlainSPDX == SPDXPackage(Projected(1, [node |-> Plain, package |-> NoPackage]))

OnCycloneDX(version, w, vulns) ==
    [format |-> version, components |-> [c \in Components |-> IF c = 1 THEN w ELSE PlainCycloneDX],
     vulnerabilities |-> vulns]
OnSPDX(w, extracted) ==
    [format |-> SPDX, components |-> [c \in Components |-> IF c = 1 THEN w ELSE PlainSPDX], extracted |-> extracted]

Choice(shape, value, ack) == [shape |-> shape, value |-> value, acknowledgement |-> ack]

MCForeignClaims ==
    {OnCycloneDX(17, [PlainCycloneDX EXCEPT !.word = w, !.carrier = s], << >>) :
       w \in {"", "optional", "provided"}, s \in {{"runtime", "future"}, {"future"}, {"RUNTIME"}, {"development", ","}, {}}}
      \cup {OnCycloneDX(v, [PlainCycloneDX EXCEPT !.licenses =
              <<Choice("id", <<9>>, "concluded"), Choice("name", <<31>>, "declared"), Choice("expression", <<2, 12>>, a)>>], << >>) :
              v \in CycloneDXVersions, a \in {"", "concluded", "guessed"}}
      \cup {OnCycloneDX(15, [PlainCycloneDX EXCEPT !.originator = [publisher |-> 1, author |-> 2], !.supplier = [name |-> 0, url |-> 1],
                               !.references = {Reference("website", 22), Reference("website", 21), Reference("advisory", 31),
                                               Reference("vcs", 3), Reference("chat", 51)}], << >>)}
      \cup {OnCycloneDX(16, PlainCycloneDX, <<[entry |-> CycloneDXVulnerability(VulnerabilityFromPackage(1, a)), affects |-> {1, 3}],
                                               [entry |-> CycloneDXVulnerability(VulnerabilityFromPackage(1, Advisory2)), affects |-> {1, 2}]>>) :
              a \in AdvisoryPool}
      \cup {OnSPDX([PlainSPDX EXCEPT !.declared = d, !.concluded = c, !.carrier = {"runtime", "future"}], x) :
              d \in {<<31>>, <<2, 31>>, <<31, 32>>}, c \in {<< >>, <<31>>, <<MintLicenseRef(21)>>},
              x \in {{}, {<<31, 23>>}, {<<31, 23>>, <<MintLicenseRef(21), 24>>}}}
-----------------------------------------------------------------------------
(* Two scans of a workspace: a module below a manifest, and a child manifest
   below it or below a dependency, with a module that may lead back to the
   first; versions of one package come and go.  A second manifest has a module of
   the same name and may disagree about a source. *)
Scanned(id, kind, identity, version) ==
    [id |-> id, kind |-> kind, identity |-> identity, version |-> version, source |-> "", relationship |-> ""]
ScannedNodes ==
    {Scanned(901, "manifest", 0, 0), Scanned(902, "manifest", 0, 0), Scanned(903, "manifest", 0, 0),
     Scanned(201, "module", 1, 0), Scanned(302, "module", 2, 0), Scanned(101, "module", 1, 0),
     Scanned(11, "dependency", 1, 1), Scanned(12, "dependency", 1, 2), Scanned(13, "dependency", 1, 3),
     Scanned(14, "dependency", 1, 4), Scanned(21, "dependency", 2, 1)}

Edged(edges) ==
    [nodes |-> {n \in ScannedNodes : n.id \in UNION {{e[1], e[2]} : e \in edges}}, edges |-> edges]
WithSource(g, id, source) ==
    [g EXCEPT !.nodes = {IF n.id = id THEN [n EXCEPT !.source = source] ELSE n : n \in @}]
WithRelationship(g, relationship) ==
    [g EXCEPT !.nodes = {IF n.kind = "dependency" THEN [n EXCEPT !.relationship = relationship] ELSE n : n \in @}]

Workspace(above) == {<<901, 201>>, <<above, 902>>, <<902, 302>>}
BaseGraphs == {Edged(Workspace(201) \cup es) : es \in SUBSET {<<201, 11>>, <<11, 21>>, <<302, 13>>}}
HeadGraphs ==
    {Edged(Workspace(above) \cup es) : above \in {201, 11},
       es \in SUBSET {<<201, 11>>, <<201, 12>>, <<302, 21>>, <<302, 201>>, <<901, 14>>}}

Detected(path, g) == [path |-> path, subproject |-> 0, graph |-> g]
SecondEntry(source) == Detected(1, WithSource(Edged({<<903, 101>>, <<101, 11>>}), 11, source))

Scan(entries, packages, findings) == [entries |-> entries, packages |-> packages, findings |-> findings]
Bases ==
    {Scan(<<Detected(2, g)>>, {[purl |-> 1, advisories |-> {<<1, 1>>, <<1, 2>>}]}, {}) : g \in BaseGraphs}
      \cup {Scan(<<Detected(2, WithSource(g, 11, s)), SecondEntry("url")>>, {}, {}) : g \in BaseGraphs, s \in {"git", "url"}}
      \cup {Scan(<<Detected(2, WithRelationship(g, "transitive"))>>, {}, {}) : g \in BaseGraphs}
Heads ==
    {Scan(<<Detected(2, g)>>, {[purl |-> 1, advisories |-> {<<2, 1>>}]}, {[id |-> 1, auditor |-> 1]}) : g \in HeadGraphs}
      \cup {Scan(<<Detected(2, WithSource(g, 11, "registry")), SecondEntry("git")>>, {}, {}) : g \in {h \in HeadGraphs : <<302, 21>> \in h.edges}}
      \cup {Scan(<<Detected(2, WithRelationship(g, r))>>, {}, {[id |-> 1, auditor |-> 2]}) :
              g \in {h \in HeadGraphs : <<302, 21>> \notin h.edges}, r \in {"direct", "peer"}}
      \cup {Scan(<<Detected(1, Edged({})), Detected(2, Edged({})), Detected(3, Edged({}))>>, {}, {})}

MCScanPairs == {<<b, h>> : b \in Bases, h \in Heads}
MCBounds == [manifests |-> 2, dependencies |-> 6, packages |-> 1, findings |-> 1]
=============================================================================
