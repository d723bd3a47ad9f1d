-------------------------- MODULE DocumentLineage ---------------------------
(***************************************************************************)
(* How documents name each other over many conversions: what an export     *)
(* says about itself when its graph was read from other documents          *)
(* (sbom/document_assertions.go, FromGraphEntries in sbom/transform.go),   *)
(* the document-level half of both codecs (sbom/cyclonedx.go,              *)
(* sbom/spdx23.go and their _assertions files), and the checksum taken at  *)
(* ingest (decodeDocument, sbom/codec.go).                                 *)
(*                                                                         *)
(* An archive holds every document there is, foreign ones and the ones     *)
(* this program wrote.  A build reads some of them, perhaps resolves a     *)
(* manifest beside them, and is written once per format.                   *)
(*                                                                         *)
(* A tool is [vendor, name, version]; names are multiples of Dash, so the  *)
(* text "name-version" is a number that sorts where the text does.         *)
(***************************************************************************)
EXTENDS DocumentAssertions

CONSTANTS
    Foreign,          \* documents other programs wrote
    OwnTool,          \* the tool and version this run credits itself with
    Manufacturers,    \* the party the operator may configure, 0 for none
    DefaultName,      \* defaultDocumentName
    MaxForeign,       \* BOUND: the foreign documents that arrive
    MaxBuilds         \* BOUND: the documents that are built

VARIABLES
    archive,        \* the documents, in the order they came to be
    building,       \* the document being exported, or NoBuild
    builds,         \* how many builds there were: clock and source of UUIDs
    fips,           \* SHA-1 is not to be had (GODEBUG=fips140=only)
    manufacturer    \* BuildOptions.Provenance.Manufacturer

lineageVars == <<archive, building, builds, fips, manufacturer>>

NoBuild == [absent |-> TRUE]

Dash == 10

Person(name)       == [kind |-> "person", name |-> name]
Organization(name) == [kind |-> "organization", name |-> name]

(* The clock and the UUIDs of this program are apart from every foreign one. *)
Minted(n) == 100 + n

IsIdentity(x) ==
    /\ x = [form |-> x.form, id |-> x.id, rev |-> x.rev]
    /\ x.form \in -1 .. 3 /\ x.id \in Nat /\ x.rev \in Nat
    /\ IF x.form <= 0 THEN x.id = 0 ELSE x.id > 0
    /\ IF x.form = 3 THEN x.rev > 0 ELSE x.rev = 0

(* What foreign documents are called. *)
ASSUME ForeignAssumption ==
    \A wire \in Foreign :
      /\ wire.format \in {"cyclonedx", "spdx"} /\ wire.version \in Int
      /\ wire.serial \in Nat /\ wire.serial < Minted(1)
      /\ IsIdentity(wire.namespace) /\ wire.namespace.id < Minted(1)
-----------------------------------------------------------------------------
(* Reading a document.  What is on the wire:
   [format, serial, namespace, version, created, name, comment, tools,
    parties, links], a link being [identity, hashes]. *)

(* A hash is read for a reference: SHA-1 wherever it stands, else the first. *)
IngestedChecksum(hashes) ==
    LET sha1 == {i \in DOMAIN hashes : hashes[i] > 0}
    IN CASE hashes = << >> -> 0
         [] sha1 # {}      -> hashes[Min(sha1)]
         [] OTHER          -> hashes[1]

IngestedSource(link) ==
    [identity |-> link.identity, version |-> 0, checksum |-> IngestedChecksum(link.hashes)]

IngestedSources(links) == [i \in DOMAIN links |-> IngestedSource(links[i])]

CycloneDXDocumentAssertions(wire) ==
    Normalized(
      [NoAssertions EXCEPT
         !.identity = IF wire.serial = 0 THEN NoIdentity
                      ELSE BOMLink(wire.serial, Max({wire.version, 1})),
         !.version  = wire.version,
         !.sources  = IngestedSources(wire.links),
         !.created  = wire.created,
         !.creators = wire.parties,
         !.tools    = Range(wire.tools)])

(* A creator that is a tool is kept whole as a name. *)
SPDXDocumentAssertions(wire) ==
    Normalized(
      [NoAssertions EXCEPT
         !.identity = wire.namespace,
         !.name     = wire.name,
         !.comment  = wire.comment,
         !.version  = wire.version,
         !.sources  = IngestedSources(wire.links),
         !.created  = wire.created,
         !.creators = wire.parties,
         !.tools    = Range(wire.tools)])

(* The same bytes have the same checksum. *)
Sha1(i) == Min({j \in DOMAIN archive : archive[j].wire = archive[i].wire})

SourceChecksum(i) == IF fips THEN 0 ELSE Sha1(i)

DecodeDocument(i) ==
    LET wire == archive[i].wire
        read == IF wire.format = "cyclonedx" THEN CycloneDXDocumentAssertions(wire)
                ELSE SPDXDocumentAssertions(wire)
    IN [read EXCEPT !.checksum = SourceChecksum(i)]
-----------------------------------------------------------------------------
(* Building a document. *)

InheritedIdentity(doc, only) ==
    IF only.identity = NoIdentity THEN doc
    ELSE IF IsBOMLink(only.identity)
    THEN [doc EXCEPT !.namespace = only.identity,
                     !.serial = only.identity.id,
                     !.serialVersion = only.identity.rev]
    ELSE [doc EXCEPT !.namespace = only.identity,
                     !.serialVersion = only.version]

Credited(doc, sources) ==
    LET all == FoldLeft(MergeDocumentAssertions, Head(sources), Tail(sources))
    IN [doc EXCEPT !.sources = sources, !.creators = all.creators, !.tools = all.tools]

(* Bug: the export is dated by this run's clock. *)
RestatedNow(doc, only) ==
    InheritedIdentity([doc EXCEPT !.comment = only.comment, !.name = only.name], only)

Restated(doc, only) ==
    InheritedIdentity(
      [doc EXCEPT !.comment = only.comment, !.name = only.name, !.created = only.created], only)

ApplySourceAssertions(doc, sources, restates) ==
    IF sources = << >> THEN doc
    ELSE LET credited == Credited(doc, [i \in DOMAIN sources |-> Normalized(sources[i])])
         IN IF Len(sources) > 1 \/ ~restates THEN credited
            ELSE Restated(credited, credited.sources[1])

(* documentUUID: the UUID of the filled slot, or 0. *)
DocumentUUID(doc) ==
    CASE doc.serial # 0         -> doc.serial
      [] doc.namespace.form = 1 -> doc.namespace.id
      [] OTHER                  -> 0

MintDocumentIdentity(doc, fresh) ==
    LET uuid == FillGap(DocumentUUID(doc), fresh)
    IN [doc EXCEPT !.serial = FillGap(@, uuid),
                   !.namespace = IF @ = NoIdentity THEN Bomly(uuid) ELSE @]

EmptyDocument ==
    [serial |-> 0, serialVersion |-> 0, namespace |-> NoIdentity, name |-> 0, created |-> 0,
     comment |-> 0, creators |-> {}, tools |-> {}, sources |-> << >>]

(* Bug: the caller's word is taken. *)
RestatesAsDeclared(declared, native) == declared

(* FromGraphEntries: a manifest resolved beside the documents makes a merge of
   whatever the caller declared. *)
Restates(declared, native) == declared /\ ~native

FromGraphEntries(inputs, native, declared, fresh) ==
    LET sources == [k \in DOMAIN inputs |-> DecodeDocument(inputs[k])]
        doc     == MintDocumentIdentity(
                     ApplySourceAssertions(EmptyDocument, sources, Restates(declared, native)), fresh)
    IN [doc EXCEPT !.created = FillGap(@, fresh), !.name = FillGap(@, DefaultName)]
-----------------------------------------------------------------------------
(* Writing a document. *)

SerialVersionOrDefault(doc) == Max({doc.serialVersion, 1})

(* Bug: a namespace in Bomly's form is not read as a serial. *)
NamesInTwoSpellings(emitted, source) ==
    \/ emitted.namespace # NoIdentity /\ source.identity = emitted.namespace
    \/ /\ emitted.serial # 0
       /\ source.identity = BOMLink(emitted.serial, emitted.version)

(* documentIdentity.names: the three spellings of one document.  The formats
   write one slot each, so the other one is empty here. *)
Names(emitted, source) ==
    \/ emitted.namespace # NoIdentity /\ source.identity = emitted.namespace
    \/ /\ emitted.serial # 0
       /\ \/ source.identity = BOMLink(emitted.serial, emitted.version)
          \/ /\ source.identity = Bomly(emitted.serial)
             /\ Max({source.version, 1}) = Max({emitted.version, 1})

OwnLink(s) == [identity |-> s.identity, version |-> s.version, checksum |-> s.checksum]

(* Bug: a source is linked and what it was built from is not. *)
OwnLinks(sources) == [i \in DOMAIN sources |-> OwnLink(sources[i])]

Candidates(sources) == FlattenSeq([i \in DOMAIN sources |-> <<OwnLink(sources[i])>> \o sources[i].sources])

DocumentSourceLinks(doc, emitted) ==
    SelectSeq(GatedSources(NoIdentity, 0, Candidates(doc.sources)), LAMBDA s : ~Names(emitted, s))

RestatedInFull(tool, credited) ==
    \E t \in credited : t.name = tool.name /\ (tool.version = 0 \/ t.version = tool.version)

ToolRank(t) == (t.vendor * Span + t.name) * Span + t.version

DocumentTools(doc) ==
    LET own    == IF RestatedInFull(OwnTool, doc.tools) THEN {} ELSE {OwnTool}
        merged == own \cup doc.tools
        Order(ts) == SetToSortSeq(ts, LAMBDA s, t : ToolRank(s) < ToolRank(t))
        named  == {t \in merged : t.name = OwnTool.name}
        exact  == {t \in named : t.version = OwnTool.version}
        first  == Order(IF exact # {} THEN exact ELSE named)[1]
    IN IF named = {} THEN Order(merged) ELSE <<first>> \o Order(merged \ {first})

(* The slot for an organization is one; the operator's name is an author too. *)
CycloneDXParties(doc) ==
    LET organizations == {c.name : c \in {c \in doc.creators : c.kind = "organization"}}
        persons       == {c \in doc.creators : c.kind = "person"}
    IN IF manufacturer # 0
       THEN {Organization(manufacturer), Person(manufacturer)} \cup persons
       ELSE persons \cup (IF organizations = {} THEN {} ELSE {Organization(Min(organizations))})

(* The version of a link is not written. *)
CycloneDXSourceLinks(doc) ==
    LET links == DocumentSourceLinks(doc, [namespace |-> NoIdentity, serial |-> doc.serial,
                                           version |-> SerialVersionOrDefault(doc)])
    IN [i \in DOMAIN links |->
          [identity |-> links[i].identity,
           hashes   |-> IF links[i].checksum = 0 THEN << >> ELSE <<links[i].checksum>>]]

EncodeCycloneDX(doc) ==
    [format |-> "cyclonedx", serial |-> doc.serial, namespace |-> NoIdentity,
     version |-> SerialVersionOrDefault(doc), created |-> doc.created, name |-> 0, comment |-> 0,
     tools |-> DocumentTools(doc), parties |-> CycloneDXParties(doc), links |-> CycloneDXSourceLinks(doc)]

SPDXToolCreator(tool) == [vendor |-> 0, name |-> tool.name + tool.version, version |-> 0]

AppendNew(s, e) == IF e \in Range(s) THEN s ELSE Append(s, e)

SPDXToolCreators(doc) ==
    FoldLeft(LAMBDA lines, tool : AppendNew(lines, SPDXToolCreator(tool)), << >>, DocumentTools(doc))

SPDXParties(doc) ==
    doc.creators \cup (IF manufacturer # 0 THEN {Organization(manufacturer)} ELSE {})

(* An SPDX reference has one SHA-1 or is not written. *)
SPDXSourceLinks(doc) ==
    LET links == DocumentSourceLinks(doc, [namespace |-> doc.namespace, serial |-> 0, version |-> 0])
        kept  == SelectSeq(links, LAMBDA s : s.checksum > 0)
    IN [i \in DOMAIN kept |-> [identity |-> kept[i].identity, hashes |-> <<kept[i].checksum>>]]

EncodeSPDX(doc) ==
    [format |-> "spdx", serial |-> 0, namespace |-> doc.namespace,
     version |-> SerialVersionOrDefault(doc), created |-> doc.created, name |-> doc.name,
     comment |-> doc.comment, tools |-> SPDXToolCreators(doc), parties |-> SPDXParties(doc),
     links |-> SPDXSourceLinks(doc)]
-----------------------------------------------------------------------------
(* What a document is called, whichever way it is spelled. *)
Canonical(identity, version) ==
    IF identity.form = 1 THEN BOMLink(identity.id, Max({version, 1})) ELSE identity

OwnNames(wire) ==
    IF wire.format = "spdx" THEN {Canonical(wire.namespace, wire.version)}
    ELSE IF wire.serial = 0 THEN {} ELSE {BOMLink(wire.serial, Max({wire.version, 1}))}

Received == {i \in DOMAIN archive : archive[i].by = "foreign"}

LineageInit ==
    /\ archive = << >>
    /\ building = NoBuild
    /\ builds = 0
    /\ fips \in BOOLEAN
    /\ manufacturer \in Manufacturers

LineageIdle == archive = << >> /\ building = NoBuild /\ builds = 0 /\ fips = FALSE /\ manufacturer = 0

(* A name stands for one inventory; without a name a document is one of its own. *)
ForeignInventory(wire, i) == <<OwnNames(wire), IF OwnNames(wire) = {} THEN i ELSE 0>>

(* A document arrives from elsewhere.  Its inventory is its own: what its
   producer calls it stands for one inventory. *)
Receive(wire) ==
    /\ Cardinality(Received) < MaxForeign
    /\ building = NoBuild
    /\ builds = 0
    /\ archive' = Append(archive, [wire |-> wire, by |-> "foreign", parents |-> << >>,
                                   restates |-> FALSE, full |-> FALSE,
                                   inventory |-> ForeignInventory(wire, Len(archive) + 1)])
    /\ UNCHANGED <<building, builds, fips, manufacturer>>

(* A caller declares a restatement only of documents it left as they were;
   the inventory is still the source's when it is the only one. *)
Build(inputs, native, changed, declared) ==
    /\ building = NoBuild
    /\ builds < MaxBuilds
    /\ declared => ~changed
    /\ LET fresh == Minted(builds + 1)
           same  == Len(inputs) = 1 /\ ~native /\ ~changed
       IN building' = [doc       |-> FromGraphEntries(inputs, native, declared, fresh),
                       parents   |-> inputs,
                       restates  |-> same /\ declared,
                       inventory |-> IF same THEN archive[inputs[1]].inventory ELSE <<fresh>>,
                       written   |-> {}]
    /\ builds' = builds + 1
    /\ UNCHANGED <<archive, fips, manufacturer>>

(* MarshalJSON.  A build is encoded once per target; an encoder changes nothing
   of the document, so one order of the two is enough. *)
Encode(format) ==
    /\ building # NoBuild
    /\ format \notin building.written
    /\ format = "cyclonedx" => building.written = {}
    /\ archive' = Append(archive,
         [wire      |-> IF format = "spdx" THEN EncodeSPDX(building.doc) ELSE EncodeCycloneDX(building.doc),
          by        |-> "bomly",
          parents   |-> building.parents,
          restates  |-> building.restates,
          inventory |-> building.inventory,
          full      |-> \/ Len(Candidates(building.doc.sources)) > MaxDocumentSources
                        \/ \E k \in DOMAIN building.parents : archive[building.parents[k]].full])
    /\ building' = [building EXCEPT !.written = @ \cup {format}]
    /\ UNCHANGED <<builds, fips, manufacturer>>

Finish ==
    /\ building # NoBuild
    /\ building.written # {}
    /\ building' = NoBuild
    /\ UNCHANGED <<archive, builds, fips, manufacturer>>

Inputs ==
    {<< >>} \cup {<<i>> : i \in DOMAIN archive}
        \cup {p \in (DOMAIN archive) \X (DOMAIN archive) : p[1] # p[2]}

LineageNext ==
    \/ \E wire \in Foreign : Receive(wire)
    \/ \E inputs \in Inputs, native, changed, declared \in BOOLEAN :
          Build(inputs, native, changed, declared)
    \/ \E format \in {"spdx", "cyclonedx"} : Encode(format)
    \/ Finish
-----------------------------------------------------------------------------
LinkedNames(wire) == {Canonical(l.identity, 0) : l \in Range(wire.links)}

Written == {i \in DOMAIN archive : archive[i].by = "bomly"}

(* Two documents of one name describe one inventory, whatever the format: a
   document that was merged, filtered or mixed with a resolved manifest never
   goes out under the identity of what it was read from (document_assertions.go
   98-112), and the two encodings of a build never part. *)
IdentityNamesOneInventory ==
    \A i, j \in DOMAIN archive :
      OwnNames(archive[i].wire) \cap OwnNames(archive[j].wire) # {} =>
        archive[i].inventory = archive[j].inventory

(* Nor does a written document link itself, under any of the spellings its
   identity has (documentIdentity.names). *)
NoDocumentLinksItself ==
    \A i \in Written : OwnNames(archive[i].wire) \cap LinkedNames(archive[i].wire) = {}

Ancestors(i) ==
    LET Step(S) == S \cup UNION {Range(archive[j].parents) : j \in S}
        up[n \in 0..Len(archive)] == IF n = 0 THEN Range(archive[i].parents) ELSE Step(up[n - 1])
    IN up[Len(archive)]

(* However many conversions lie between, a written document names every
   document of the archive it goes back to, as itself or by a link, as long as
   checksums are to be had and no list of sources reached its bound
   (documentSourceLinks). *)
ProvenanceSurvives ==
    fips \/ \A i \in Written :
      archive[i].full \/ \A a \in Ancestors(i) :
        OwnNames(archive[a].wire) \subseteq
          OwnNames(archive[i].wire) \cup LinkedNames(archive[i].wire)

Rewrites ==
    {i \in Written :
       /\ archive[i].restates
       /\ archive[archive[i].parents[1]].by = "bomly"
       /\ archive[archive[i].parents[1]].wire.format = archive[i].wire.format}

(* A document this program wrote, read and written again in the same format
   without a change, says the same of itself (document_assertions.go 20-22),
   but for the order of the tools and for the references to one place, which
   may become fewer. *)
Claims(wire) == [wire EXCEPT !.tools = Range(@), !.links = {l.identity : l \in Range(@)}]

RestatementIsFixedPoint ==
    \A i \in Rewrites : Claims(archive[i].wire) = Claims(archive[archive[i].parents[1]].wire)

(* The claim in full: it is written with the same bytes. *)
RestatementReproducesBytes ==
    \A i \in Rewrites : archive[i].wire = archive[archive[i].parents[1]].wire
=============================================================================
