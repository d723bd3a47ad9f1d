-------------------------- MODULE ComponentClaims ---------------------------
(***************************************************************************)
(* The other claims of a component between the graph and a document:       *)
(* scopes (model/scope_cyclonedx.go), contacts (model/contact.go), external *)
(* references (model/external_reference.go), homepage, digests, CPEs, end   *)
(* of life, type and origins (sbom/cyclonedx_assertions.go,                *)
(* sbom/spdx23_assertions.go and the codecs).                              *)
(*                                                                         *)
(* Names, addresses and texts are numbers, 0 for none.                     *)
(***************************************************************************)
EXTENDS Integers, SequencesExt

(* Scopes.  A node may list any word (the graph drops only the unknown scope):
   "RUNTIME" stands for another spelling of a known one, "future" for what a
   newer build may write, "," for what no reader takes for a scope, or for a
   list too long to be one.  A carrier is the set of its tokens; scopes with a
   separator inside, which would read as two, do not occur. *)

ScopeUnknown == ""

KnownScopes == {"runtime", "development"}

ParseScope(token) ==
    IF token = "RUNTIME" THEN "runtime" ELSE IF token \in KnownScopes THEN token ELSE ScopeUnknown

CycloneDXScope(scopes) ==
    IF "runtime" \in scopes THEN "required" ELSE IF "development" \in scopes THEN "excluded" ELSE ""

ScopesFromCycloneDX(word) ==
    CASE word \in {"required", ""} -> {"runtime"}
      [] word \in {"optional", "excluded"} -> {"development"}
      [] OTHER -> {}

(* Bug: the set does not travel beside the word. *)
EncodeNoScopeSet(scopes) == {}

EncodeScopeSet(scopes) == scopes \ {ScopeUnknown}

DecodeScopeSetLenient(carrier) ==
    IF "," \in carrier THEN {} ELSE {ParseScope(token) : token \in carrier} \ {ScopeUnknown}

CycloneDXScopeForExport(scopes, word) ==
    IF word # "" /\ ScopesFromCycloneDX(word) # {} /\ ScopesFromCycloneDX(word) = EncodeScopeSet(scopes)
    THEN word ELSE CycloneDXScope(scopes)

ScopesFromCycloneDXComponent(word, carrier) ==
    IF DecodeScopeSetLenient(carrier) # {} THEN DecodeScopeSetLenient(carrier) ELSE ScopesFromCycloneDX(word)
-----------------------------------------------------------------------------
(* Contacts: [kind, name, url]. *)

NoContact == [kind |-> "none", name |-> 0, url |-> 0]
NoAssertion == [kind |-> "noassertion", name |-> 0, url |-> 0]

NormalizedContact(c) ==
    IF c.kind = "noassertion" THEN NoAssertion ELSE IF c.name = 0 THEN NoContact ELSE c

CycloneDXEntity(c) == [name |-> NormalizedContact(c).name, url |-> NormalizedContact(c).url]

CycloneDXSupplier(entity) ==
    NormalizedContact([kind |-> "organization", name |-> entity.name, url |-> entity.url])

CycloneDXApplyOriginator(c) ==
    LET name == CycloneDXEntity(c).name
    IN IF c.kind = "person" THEN [publisher |-> 0, author |-> name] ELSE [publisher |-> name, author |-> 0]

CycloneDXOriginator(named) ==
    NormalizedContact(IF named.publisher # 0
                      THEN [kind |-> "organization", name |-> named.publisher, url |-> 0]
                      ELSE [kind |-> "person", name |-> named.author, url |-> 0])

(* spdxContactParts, spdxContactFrom: SPDX has words for three kinds and none
   for an address. *)
SPDXContact(c) ==
    IF NormalizedContact(c).kind \in {"organization", "person", "noassertion"}
    THEN [NormalizedContact(c) EXCEPT !.url = 0] ELSE NoContact
-----------------------------------------------------------------------------
(* External references: [category, type, locator, comment, hashes].  A
   locator is a web address, a bare token, or an address that names a person
   or a file (LocalAddress and above). *)

LocalAddress == 50
BareToken == 30

(* The category that owns a registered type. *)
TypeCategory(type) ==
    CASE type \in {"advisory", "cpe23Type"} -> "SECURITY"
      [] type = "purl" -> "PACKAGE-MANAGER"
      [] OTHER -> ""

ContradictsItsCategory(r) ==
    r.category # "" /\ TypeCategory(r.type) # "" /\ TypeCategory(r.type) # r.category

(* The URL kind refuses bare tokens, the IRI kind what is local, the
   identifier kind neither. *)
IsLegalLocator(r) ==
    /\ r.locator # 0
    /\ r.category = "SECURITY" /\ r.type = "advisory" => r.locator < BareToken
    /\ r.category = "" => r.locator < LocalAddress

IsPublishableReference(r) == r.type # "" /\ ~ContradictsItsCategory(r) /\ IsLegalLocator(r)

ReferenceKey(r) == <<r.category, r.type, r.locator>>

(* reconcileComments: the lesser of the two that say something. *)
MergeExternalReferences(refs) ==
    LET legal == {r \in refs : IsPublishableReference(r)}
        Same(r) == {s \in legal : ReferenceKey(s) = ReferenceKey(r)}
        Comments(r) == {s.comment : s \in Same(r)} \ {0}
    IN {[r EXCEPT !.hashes = UNION {s.hashes : s \in Same(r)},
                  !.comment = IF Comments(r) = {} THEN 0 ELSE Min(Comments(r))] : r \in legal}

(* A digest's algorithm is known to both formats or to one. *)
CycloneDXHashes(digests) == {d \in digests : d.algorithm \in {"both", "cyclonedx"}}
SPDXChecksums(digests) == {d \in digests : d.algorithm \in {"both", "spdx"}}

Website(address) == [category |-> "", type |-> "website", locator |-> address, comment |-> 0, hashes |-> {}]

(* cycloneDXHomepageReference, cycloneDXComponentAssertedReferences *)
CycloneDXAssertedReferences(refs, homepage) ==
    IF homepage = 0 \/ \E r \in refs : r.type = "website" /\ r.locator = homepage
    THEN refs ELSE MergeExternalReferences(refs \cup {Website(homepage)})

CycloneDXEmittedReferences(refs) ==
    {[category |-> "", type |-> r.type, locator |-> r.locator, comment |-> r.comment,
      hashes |-> CycloneDXHashes(r.hashes)] : r \in {r \in refs : IsPublishableReference(r)}}

(* Bug: only what was downloaded is known for an origin. *)
IsOriginDerivedDownload(type) == type = "distribution"

IsOriginDerivedReferenceType(type) == type \in {"distribution", "vcs"}

CycloneDXIngestedReferences(refs) ==
    MergeExternalReferences({r \in refs : ~IsOriginDerivedReferenceType(r.type)})

(* In the order of the references: by category, type, locator. *)
CycloneDXIngestedHomepage(refs) ==
    LET sites == {r.locator : r \in {r \in refs : r.type = "website" /\ r.locator < BareToken}}
    IN IF sites = {} THEN 0 ELSE Min(sites)

SPDXEmittedReferences(refs) ==
    {[r EXCEPT !.category = IF @ = "" THEN "OTHER" ELSE @, !.hashes = {}]
       : r \in {r \in refs : IsPublishableReference(r)}}

IsBomlyProjectedReference(r) == r.type \in {"purl", "cpe23Type", "bomly-package-origin"}

SPDXIngestedReferences(refs) ==
    MergeExternalReferences({r \in refs : ~IsBomlyProjectedReference(r) /\ r.category # ""})
-----------------------------------------------------------------------------
(* Origins: [artifact, repository, revision]. *)

NoOrigin == [artifact |-> 0, repository |-> 0, revision |-> 0]

(* The address of a repository: plain, or with tool and revision. *)
PinnedBase == 10
PinnedVCSReference(o) == IF o.revision = 0 THEN o.repository ELSE PinnedBase + o.repository

Reference(type, locator) ==
    [category |-> "", type |-> type, locator |-> locator, comment |-> 0, hashes |-> {}]

(* The first origin, and the repository a scorecard fills in, are single
   fields of the component. *)
VCSOf(origins, scorecard) ==
    IF origins # << >> /\ origins[1].repository # 0 THEN origins[1].repository ELSE scorecard

CycloneDXComponentReferences(origins, scorecard) ==
    LET all == IF origins = << >> THEN <<[NoOrigin EXCEPT !.repository = scorecard]>> ELSE origins
        vcs == VCSOf(origins, scorecard)
    IN {Reference("distribution", o.artifact) : o \in {o \in Range(all) : o.artifact # 0}}
         \cup {Reference("vcs", PinnedVCSReference(o)) : o \in {o \in Range(all) : o.repository # 0}}
         \cup (IF vcs = 0 \/ \E o \in Range(all) : o.repository = vcs THEN {} ELSE {Reference("vcs", vcs)})

(* vcsLocator: SPDX always writes the tool. *)
VCSLocator(o) == IF o.repository = 0 THEN 0 ELSE PinnedBase + o.repository

SPDXDownloadLocation(origins, scorecard) ==
    LET primary == IF origins = << >> THEN NoOrigin ELSE origins[1]
    IN IF primary.artifact # 0 THEN primary.artifact
       ELSE VCSLocator([primary EXCEPT !.repository = VCSOf(origins, scorecard)])

SPDXAdditionalOriginReferences(origins, scorecard) ==
    LET rest   == {origins[i] : i \in 2 .. Len(origins)}
        stated == {0, origins[1].artifact, VCSLocator([origins[1] EXCEPT !.repository = VCSOf(origins, scorecard)])}
        more   == {o.artifact : o \in rest} \cup {VCSLocator(o) : o \in rest}
    IN IF Len(origins) < 2 THEN {}
       ELSE {[Reference("bomly-package-origin", a) EXCEPT !.category = "OTHER"] : a \in more \ stated}
-----------------------------------------------------------------------------
(* End of life: [stated, flag, date, cycle, latest]. *)

NoEOL == [stated |-> FALSE, flag |-> FALSE, date |-> 0, cycle |-> 0, latest |-> 0]
CycloneDXEOL(eol) == IF eol.stated THEN [eol EXCEPT !.latest = 0] ELSE NoEOL
SPDXEOL(eol) == IF eol.stated THEN [eol EXCEPT !.latest = 0, !.cycle = 0] ELSE NoEOL

(* Component types: both formats read "package" back as "library"; CycloneDX
   has no word for Bomly's own types, SPDX carries them in the comment. *)
CycloneDXComponentType(type) == IF type = "application" THEN type ELSE "library"
SPDXComponentType(type) == IF type \in {"", "package"} THEN "library" ELSE type

(* CPEs: what is not one is negative. *)
IngestedCPEs(cpes) == SelectSeq(cpes, LAMBDA c : c > 0)
=============================================================================
