--------------------------- MODULE MCWitnessMerge ---------------------------
(* Witnesses of one dependency: a lockfile that pins what a manifest leaves
   floating, two documents that define reference 1 for different terms and
   conclude what another declares, an old producer's stash, and a report that
   says almost nothing.

   Five packages callers may add, of two PURLs: with values that pass the gate
   and values that do not, statements with and without an issuer, and analyses
   of one advisory that agree, disagree or are orphaned. *)
EXTENDS WitnessMerge, TLC

Text(class, spacing, padded) == [class |-> class, spacing |-> spacing, padded |-> padded]
Ref(n) == [ref |-> n, other |-> "none"]
OrListed(n) == [ref |-> n, other |-> "listed"]
License(type, value, expression, text, name) ==
    [type |-> type, value |-> value, expression |-> expression, text |-> text, name |-> name]
Origin(kind, place, revision) == [kind |-> kind, place |-> place, revision |-> revision]
Site(path, root, scopes, relationship) ==
    [path |-> path, root |-> root, scopes |-> scopes, relationship |-> relationship]
Reference(key, comment, hashes) == [key |-> key, comment |-> comment, hashes |-> hashes]

Bare ==
    [relationship |-> "", scopes |-> {""}, locations |-> << >>, origins |-> << >>, source |-> "file",
     references |-> << >>, licenses |-> << >>, stash |-> << >>, sourceScope |-> "", foundBy |-> "",
     matched |-> FALSE]

Manifest ==
    [Bare EXCEPT
       !.relationship = "direct", !.scopes = {"development"}, !.foundBy = "manifest",
       !.locations = <<Site("a", "x", {""}, "direct"), Site("a", "y", {"development"}, "")>>,
       !.origins = <<Origin("repository", "r", ""), Origin("artifact", "f", "")>>,
       !.source = "git", !.sourceScope = "unpublishable",
       !.references = <<Reference(1, 2, {"h"}), Reference(-1, 1, {})>>,
       !.licenses = <<License("concluded", 1, Ref(1), Text(1, 0, TRUE), 0)>>]

Lockfile ==
    [Bare EXCEPT
       !.relationship = "transitive", !.source = "registry", !.foundBy = "lockfile", !.matched = TRUE,
       !.locations = <<Site("a", "x", {"runtime"}, "transitive"), Site("a", "x", {"", "development"}, "unknown")>>,
       !.origins = <<Origin("unpublishable", "r", ""), Origin("repository", "r", "v1"),
                     Origin("repository", "q", "invalid")>>,
       !.sourceScope = "prod",
       !.licenses = <<License("declared", 1, Ref(1), Text(1, 0, TRUE), 7),
                      License("declared", 1, Ref(2), NoText, 7),
                      License("", 2, OrListed(0), Text(3, 0, FALSE), 0)>>]

Document ==
    [Bare EXCEPT
       !.relationship = "unknown", !.source = "url", !.sourceScope = "test",
       !.locations = <<Site("b", "", {}, "unknown")>>,
       !.origins = <<Origin("repository", "q", ""), Origin("repository", "r", "v2")>>,
       !.references = <<Reference(2, 0, {}), Reference(1, 1, {"k"}), Reference(2, 3, {"h"})>>,
       !.licenses = <<License("declared", 1, OrListed(1), Text(2, 0, FALSE), 0),
                      License("concluded", 1, Ref(1), Text(2, 1, FALSE), 8),
                      License("", 2, OrListed(0), Text(2, 0, FALSE), 0)>>]

OldProducer ==
    [Bare EXCEPT
       !.scopes = {"runtime"}, !.source = "git",
       !.licenses = <<License("declared", 0, Ref(MintBase + 1), Text(2, 1, FALSE), 0)>>,
       !.stash = <<License("concluded", 1, Ref(1), Text(3, 0, FALSE), 0),
                   License("declared", 0, [ref |-> 0, other |-> "malformed"], Text(2, 0, TRUE), 9)>>]

OtherStash ==
    [Bare EXCEPT
       !.stash = <<License("", 0, Ref(1), Text(1, 1, FALSE), 0), License("", 0, Ref(1), NoText, 1)>>]

AllWitnesses == {Bare, Manifest, Lockfile, Document, OldProducer, OtherStash}

GraphSymmetry == Permutations(Graphs)
-----------------------------------------------------------------------------
CONSTANTS p, q

Attestation(issuer, verified) == [statement |-> "slsa", issuer |-> issuer, verified |-> verified]

Advisory(id, reachability, state, detail, response) ==
    [source |-> "osv", id |-> id, reachability |-> reachability, recommendation |-> NoValue,
     analysis |-> [state |-> state, detail |-> detail, response |-> response]]

Seeded ==
    [EmptyPackage(p) EXCEPT
        !.homepage = "local path",
        !.references = {"website", "local path"},
        !.attestations = <<Attestation(NoValue, FALSE), Attestation("acme", FALSE)>>,
        !.vulnerabilities = <<Advisory("one", NoValue, NoValue, "orphan", {})>>]

Matched ==
    [EmptyPackage(p) EXCEPT
        !.name = "left",
        !.homepage = "website",
        !.attestations = <<Attestation(NoValue, TRUE)>>,
        !.vulnerabilities = <<Advisory("one", NoValue, "affected", NoValue, {"update"}),
                              Advisory("one", "reachable", "affected", "reason", {"bogus"})>>]

Analyzed ==
    [EmptyPackage(p) EXCEPT
        !.name = "right",
        !.homepage = "mirror",
        !.references = {"mirror"},
        !.attestations = <<Attestation("acme", TRUE), Attestation("zeta", FALSE)>>,
        !.vulnerabilities = <<Advisory("one", "unreachable", "not affected", "excuse", {}),
                              Advisory("two", NoValue, "bogus", "excuse", {})>>]

Other == [EmptyPackage(q) EXCEPT !.homepage = "local path", !.references = {"website"}]

Nameless == [EmptyPackage(NoPURL) EXCEPT !.homepage = "website"]

Packages == {Seeded, Matched, Analyzed, Other, Nameless}

PublishedValues ==
    {"website", "mirror", "affected", "not affected", "orphan", "reason", "excuse", "update"}
=============================================================================
