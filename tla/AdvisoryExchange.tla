-------------------------- MODULE AdvisoryExchange --------------------------
(***************************************************************************)
(* Advisories between the packages of a registry and a document:           *)
(* vulnerabilitiesFromPackage (sbom/transform.go), cycloneDXVulnerabilities *)
(* and distributeCycloneDXVulnerabilities (sbom/cyclonedx.go),             *)
(* spdxVulnerabilityLocator (sbom/spdx23.go), packageVulnerabilities       *)
(* (sbom/graph.go).                                                        *)
(*                                                                         *)
(* A package's advisory is [id, source, dataSource, severity, score, fixed,*)
(* details, recommendation, analysis, urls].  Texts are numbers, 0 for     *)
(* none; what a gate refuses is negative.  A recommendation is << >>, the  *)
(* <<words>> of a source, or <<package, versions>> when it is rendered.    *)
(***************************************************************************)
EXTENDS Integers, SequencesExt

IsPublishable(value) == value > 0
Published(value) == IF IsPublishable(value) THEN value ELSE 0
PublishedURLs(urls) == SelectSeq(urls, IsPublishable)

VulnerabilityRecommendation(package, fixed) == IF fixed = 0 THEN << >> ELSE <<package, fixed>>

VulnerabilityFromPackage(package, v) ==
    [id |-> v.id, source |-> IF v.source = 0 THEN v.dataSource ELSE v.source,
     severity |-> v.severity, score |-> v.score, details |-> v.details,
     recommendation |-> IF v.recommendation = << >> THEN VulnerabilityRecommendation(package, v.fixed)
                        ELSE v.recommendation,
     analysis |-> v.analysis, urls |-> v.urls]

VulnerabilitiesFromPackage(package, vulns) ==
    [i \in DOMAIN vulns |-> VulnerabilityFromPackage(package, vulns[i])]
-----------------------------------------------------------------------------
CycloneDXSeverity(severity) ==
    IF severity \in {"critical", "high", "medium", "low", "none", "info"} THEN severity
    ELSE IF severity = "moderate" THEN "medium" ELSE "unknown"

NoRating == [severity |-> "", score |-> 0]

(* The entry a copy becomes, without the components it affects. *)
CycloneDXVulnerability(v) ==
    [id |-> v.id, source |-> v.source, details |-> v.details, recommendation |-> v.recommendation,
     rating |-> IF v.score = 0 /\ v.severity = "" THEN NoRating
                ELSE [severity |-> CycloneDXSeverity(v.severity), score |-> v.score],
     urls |-> PublishedURLs(v.urls), analysis |-> Published(v.analysis)]

(* Bug: copies of one advisory fold by its ID. *)
VulnerabilityKeyByID(v) == v.id

VulnerabilityKey(v) == CycloneDXVulnerability(v)

(* The entries of a document, in order of first appearance; "copies" is a
   sequence of [component, vuln]. *)
CycloneDXVulnerabilities(copies) ==
    LET first == {i \in DOMAIN copies : \A j \in 1 .. i - 1 : VulnerabilityKey(copies[j].vuln) # VulnerabilityKey(copies[i].vuln)}
        order == SetToSortSeq(first, <)
        Affected(v) == {c.component : c \in {c \in Range(copies) : VulnerabilityKey(c.vuln) = VulnerabilityKey(v)}}
    IN [n \in DOMAIN order |-> [entry |-> CycloneDXVulnerability(copies[order[n]].vuln),
                                affects |-> Affected(copies[order[n]].vuln)]]

DecodeCycloneDXVulnerability(entry) ==
    [id |-> entry.id, source |-> entry.source, severity |-> entry.rating.severity,
     score |-> entry.rating.score, details |-> entry.details, recommendation |-> entry.recommendation,
     analysis |-> Published(entry.analysis), urls |-> entry.urls]

(* distributeCycloneDXVulnerabilities, for one component. *)
VulnerabilitiesOf(component, entries) ==
    LET own == SelectSeq(entries, LAMBDA e : component \in e.affects)
    IN [i \in DOMAIN own |-> DecodeCycloneDXVulnerability(own[i].entry)]

(* No severity is read as "unknown". *)
PackageVulnerability(v) ==
    [id |-> v.id, source |-> v.source, dataSource |-> 0,
     severity |-> IF v.severity = "" THEN "unknown" ELSE v.severity,
     score |-> v.score, fixed |-> 0, details |-> v.details, recommendation |-> v.recommendation,
     analysis |-> v.analysis, urls |-> PublishedURLs(v.urls)]

PackageVulnerabilities(vulns) == [i \in DOMAIN vulns |-> PackageVulnerability(vulns[i])]

(* All that SPDX can hold of an advisory: the first address that may be
   published. *)
SPDXVulnerabilityLocators(vulns) ==
    {Head(PublishedURLs(v.urls)) : v \in {v \in Range(vulns) : PublishedURLs(v.urls) # << >>}}
-----------------------------------------------------------------------------
(* What a document says of a package by an advisory; not having a severity and
   not knowing it are one. *)
Statement(package, v) ==
    LET e == CycloneDXVulnerability(VulnerabilityFromPackage(package, v))
    IN [e EXCEPT !.rating.severity = IF @ = "" THEN "unknown" ELSE @]

Statements(package, vulns) == {Statement(package, v) : v \in Range(vulns)}
=============================================================================
