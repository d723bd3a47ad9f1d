--------------------------- MODULE PackageRegistry ---------------------------
(***************************************************************************)
(* model.PackageRegistry and the merge of two records of one package       *)
(* (model/registry.go, package.go, assertions.go, attestation.go,          *)
(* vulnerability_analysis.go, merge.go).  Packages arrive from seeding,    *)
(* matchers and analyzers in any order and any number of times; a          *)
(* component works on a clone of the registry that the host folds back or  *)
(* drops.                                                                  *)
(*                                                                         *)
(* A package is abstracted to one field of each merge class: name (an      *)
(* ungated scalar), homepage (a gated one), references (a gated set),      *)
(* attestations, and vulnerabilities with a reachability and an analysis.  *)
(* A gate is a set: a value outside PublishableValues is cleared.          *)
(***************************************************************************)
EXTENDS Integers, Sequences, FiniteSets, SequencesExt

CONSTANTS
    PURLs,
    Witnesses,     \* the packages callers have to add
    PublishableValues,   \* the values that pass their gate
    MaxSteps       \* BOUND: how often the registry or the clone is changed

NoValue == ""
NoPURL  == "no purl"

Attestations == [statement : STRING, issuer : STRING, verified : BOOLEAN]

Analyses == [state : STRING, detail : STRING, response : SUBSET STRING]

Vulnerabilities ==
    [source : STRING, id : STRING, reachability : STRING, recommendation : STRING, analysis : Analyses]

PackagesOf(purls) ==
    [purl : purls, name : STRING, homepage : STRING, references : SUBSET STRING,
     attestations : Seq(Attestations), vulnerabilities : Seq(Vulnerabilities)]

ASSUME WitnessAssumption ==
    /\ NoPURL \notin PURLs
    /\ NoValue \in STRING
    /\ Witnesses \subseteq PackagesOf(PURLs \cup {NoPURL})
    /\ PublishableValues \subseteq STRING

Gate(value) == IF value \in PublishableValues THEN value ELSE NoValue
GateAll(values) == values \cap PublishableValues

MergeFillGap(current, next) == IF current # NoValue THEN current ELSE next
-----------------------------------------------------------------------------
(* An attestation: which statement, who signed it, whether that was checked. *)
ClaimsNothing(a) == a.issuer = NoValue /\ ~a.verified

(* Bug: an unnamed issuer agrees with any, as if it claimed nothing. *)
DescribesSameUnnamed(a, b) ==
    /\ a.statement = b.statement
    /\ a.issuer = b.issuer \/ a.issuer = NoValue \/ b.issuer = NoValue

DescribesSame(a, b) ==
    /\ a.statement = b.statement
    /\ a.issuer = b.issuer \/ ClaimsNothing(a) \/ ClaimsNothing(b)

Absorb(a, other) ==
    IF ClaimsNothing(a) THEN other
    ELSE [a EXCEPT !.verified = @ \/ other.verified]

MergeAttestation(list, candidate) ==
    LET same == {i \in DOMAIN list : DescribesSame(list[i], candidate)}
    IN IF same = {} THEN Append(list, candidate)
       ELSE [list EXCEPT ![Min(same)] = Absorb(@, candidate)]

MergeAttestations(list, incoming) == FoldLeft(MergeAttestation, list, incoming)
-----------------------------------------------------------------------------
(* An analysis: the state asserted, the rationale for it, the responses. *)
NoAnalysis == [state |-> NoValue, detail |-> NoValue, response |-> {}]

GatedAnalysis(a) ==
    [state |-> Gate(a.state), detail |-> Gate(a.detail), response |-> GateAll(a.response)]

(* Bug: gaps are filled whatever state the other side asserts. *)
MergeVulnerabilityAnalysisByField(dst, src) ==
    LET left == GatedAnalysis(dst)
        right == GatedAnalysis(src)
    IN [state    |-> MergeFillGap(left.state, right.state),
        detail   |-> MergeFillGap(left.detail, right.detail),
        response |-> left.response \cup right.response]

(* State and rationale are one claim; responses are a set. *)
MergeVulnerabilityAnalysis(dst, src) ==
    LET left == GatedAnalysis(dst)
        right == GatedAnalysis(src)
        merged == IF left.state = NoValue /\ right.state # NoValue THEN right
                  ELSE IF left.state = right.state
                       THEN [left EXCEPT !.detail = MergeFillGap(@, right.detail)]
                       ELSE left
    IN [merged EXCEPT !.response = left.response \cup right.response]

(* The gate of a vulnerability: it does not look at the analysis, which is
   gated when it is merged and when it is encoded. *)
GatedVulnerability(v) == [v EXCEPT !.recommendation = Gate(@)]

Identity(v) == <<v.source, v.id>>

(* Two records of one vulnerability: gaps are filled, the analyses merged. *)
MergeInto(dst, v) ==
    [dst EXCEPT !.reachability = MergeFillGap(@, v.reachability),
                !.analysis = IF v.analysis = NoAnalysis THEN @
                             ELSE MergeVulnerabilityAnalysis(@, v.analysis),
                !.recommendation = MergeFillGap(Gate(@), Gate(v.recommendation))]

(* One incoming vulnerability folded into a list of them: of two records there
   with its identity, the index has the later one. *)
MergeVulnerability(list, v) ==
    LET same == {i \in DOMAIN list : Identity(list[i]) = Identity(v)}
    IN IF same = {} THEN Append(list, GatedVulnerability(v))
       ELSE [list EXCEPT ![Max(same)] = MergeInto(@, v)]

MergeVulnerabilities(list, incoming) == FoldLeft(MergeVulnerability, list, incoming)
-----------------------------------------------------------------------------
EmptyPackage(purl) ==
    [purl |-> purl, name |-> NoValue, homepage |-> NoValue, references |-> {},
     attestations |-> << >>, vulnerabilities |-> << >>]

(* The gate at the registry's door. *)
NormalizeAssertions(p) ==
    [p EXCEPT !.homepage = Gate(@),
              !.references = GateAll(@),
              !.vulnerabilities = MergeVulnerabilities(<< >>, @)]

(* Both sides pass the gate before a gap is measured. *)
MergedHomepage(p, src) == MergeFillGap(Gate(p.homepage), Gate(src.homepage))

(* Bug: the references of a package that has some already are left alone. *)
MergedReferencesFilled(p, src) ==
    IF p.references # {} THEN GateAll(p.references) ELSE GateAll(src.references)

MergedReferences(p, src) == GateAll(p.references) \cup GateAll(src.references)

MergeFrom(p, src) ==
    [p EXCEPT !.name = MergeFillGap(@, src.name),
              !.homepage = MergedHomepage(p, src),
              !.references = MergedReferences(p, src),
              !.attestations = MergeAttestations(@, src.attestations),
              !.vulnerabilities = MergeVulnerabilities(@, src.vulnerabilities)]
-----------------------------------------------------------------------------
(* A registry: the packages by PURL, and the PURLs in order of arrival. *)
EmptyRegistry == [byPURL |-> << >>, order |-> << >>]

Has(r, purl) == purl \in DOMAIN r.byPURL

Stored(r, pkg) ==
    [byPURL |-> [purl \in DOMAIN r.byPURL \cup {pkg.purl} |->
                    IF purl = pkg.purl THEN pkg ELSE r.byPURL[purl]],
     order  |-> IF Has(r, pkg.purl) THEN r.order ELSE Append(r.order, pkg.purl)]

(* Add: a package without a PURL is ignored. *)
Added(r, pkg) ==
    IF pkg.purl = NoPURL THEN r
    ELSE LET gated == NormalizeAssertions(pkg)
         IN Stored(r, IF Has(r, pkg.purl) THEN MergeFrom(r.byPURL[pkg.purl], gated) ELSE gated)

Ensured(r, purl) == IF Has(r, purl) THEN r ELSE Stored(r, EmptyPackage(purl))

(* Merge: every package of other, in its order. *)
Merged(r, other) ==
    FoldLeft(LAMBDA acc, purl : Added(acc, other.byPURL[purl]), r, other.order)
-----------------------------------------------------------------------------
VARIABLES
    registry,
    clone,      \* the copy a component works on, EmptyRegistry when there is none
    working,    \* whether a component is at work
    heard,      \* history: what each registry has been told
    steps

registryVars == <<registry, clone, working, heard, steps>>

(* What a registry has heard of a PURL: the first publishable homepage since
   somebody wrote that field in place, and the packages added. *)
Silence == [purl \in PURLs |-> [first |-> NoValue, witnesses |-> {}]]

Hear(h, w) ==
    IF w.purl = NoPURL THEN h
    ELSE [h EXCEPT ![w.purl] = [first |-> MergeFillGap(@.first, Gate(w.homepage)),
                                witnesses |-> @.witnesses \cup {w}]]

HearAll(h, other) ==
    [purl \in PURLs |-> [first |-> MergeFillGap(h[purl].first, other[purl].first),
                         witnesses |-> h[purl].witnesses \cup other[purl].witnesses]]

RegistryInit ==
    /\ registry = EmptyRegistry
    /\ clone = EmptyRegistry
    /\ working = FALSE
    /\ heard = [registry |-> Silence, clone |-> Silence]
    /\ steps = 0

Step == steps < MaxSteps /\ steps' = steps + 1

Add(w) ==
    /\ Step
    /\ registry' = Added(registry, w)
    /\ heard' = [heard EXCEPT !.registry = Hear(@, w)]
    /\ UNCHANGED <<clone, working>>

Ensure(purl) ==
    /\ Step
    /\ registry' = Ensured(registry, purl)
    /\ UNCHANGED <<clone, working, heard>>

(* Ensure, Add and Get hand out the stored package, and its holder may set a
   field to anything. *)
WriteThrough(purl, value) ==
    /\ Step
    /\ Has(registry, purl)
    /\ registry' = [registry EXCEPT !.byPURL[purl].homepage = value]
    /\ heard' = [heard EXCEPT !.registry[purl].first = Gate(value)]
    /\ UNCHANGED <<clone, working>>

(* The host gives a component a clone. *)
CloneForComponent ==
    /\ ~working
    /\ clone' = registry
    /\ working' = TRUE
    /\ heard' = [heard EXCEPT !.clone = heard.registry]
    /\ UNCHANGED <<registry, steps>>

ComponentAdds(w) ==
    /\ Step
    /\ working
    /\ clone' = Added(clone, w)
    /\ heard' = [heard EXCEPT !.clone = Hear(@, w)]
    /\ UNCHANGED <<registry, working>>

(* The component succeeded: its registry is folded into the host's. *)
MergeClone ==
    /\ working
    /\ registry' = Merged(registry, clone)
    /\ clone' = EmptyRegistry
    /\ working' = FALSE
    /\ heard' = [registry |-> HearAll(heard.registry, heard.clone), clone |-> Silence]
    /\ UNCHANGED steps

(* It failed: the clone is dropped. *)
DropClone ==
    /\ working
    /\ clone' = EmptyRegistry
    /\ working' = FALSE
    /\ heard' = [heard EXCEPT !.clone = Silence]
    /\ UNCHANGED <<registry, steps>>

RegistryNext ==
    \/ \E w \in Witnesses : Add(w) \/ ComponentAdds(w)
    \/ \E purl \in PURLs : Ensure(purl)
    \/ \E purl \in PURLs, w \in Witnesses : WriteThrough(purl, w.homepage)
    \/ CloneForComponent
    \/ MergeClone
    \/ DropClone
-----------------------------------------------------------------------------
(* For every registry: what it holds of a PURL and what it has heard of it. *)
Holds(P(_, _)) ==
    /\ \A purl \in DOMAIN registry.byPURL : P(registry.byPURL[purl], heard.registry[purl])
    /\ \A purl \in DOMAIN clone.byPURL : P(clone.byPURL[purl], heard.clone[purl])

VerifiedBy(attestations) ==
    {<<a.statement, a.issuer>> : a \in {b \in attestations : b.verified}}

(* An issuer is reported as verified for a statement exactly when some witness
   verified that issuer's signature on it (attestation.go:61-71). *)
VerificationStaysWithItsIssuer ==
    Holds(LAMBDA p, h :
        VerifiedBy(Range(p.attestations))
          = UNION {VerifiedBy(Range(w.attestations)) : w \in h.witnesses})

(* The sets lose nothing and invent nothing: the references and advisories are
   those of the witnesses, the publishable ones, and every statement and every
   issuer that signed it is still there (assertions.go:33-37).  A gated scalar
   is the first publishable value anybody stated, whatever unpublishable ones
   came before it and whatever was merged back (assertions.go:109-113). *)
WitnessesSurvive ==
    Holds(LAMBDA p, h :
        /\ Gate(p.homepage) = h.first
        /\ GateAll(p.references) = UNION {GateAll(w.references) : w \in h.witnesses}
        /\ {Identity(v) : v \in Range(p.vulnerabilities)}
              = UNION {{Identity(v) : v \in Range(w.vulnerabilities)} : w \in h.witnesses}
        /\ \A w \in h.witnesses : \A a \in Range(w.attestations) :
              \E b \in Range(p.attestations) :
                 /\ b.statement = a.statement
                 /\ a.issuer # NoValue => b.issuer = a.issuer)

(* No package pairs the state one source asserted with a rationale that another
   wrote for another state (vulnerability_analysis.go:172-177). *)
RationaleHasItsState ==
    Holds(LAMBDA p, h :
        \A v \in Range(p.vulnerabilities) :
            LET published == GatedAnalysis(v.analysis)
            IN published.detail # NoValue =>
                 \E w \in h.witnesses : \E given \in Range(w.vulnerabilities) :
                    /\ Identity(given) = Identity(v)
                    /\ Gate(given.analysis.state) = published.state
                    /\ Gate(given.analysis.detail) = published.detail)

(* package.go:1019: "a merge never carries an ungated value into a package". *)
PackagesHoldGatedAnalyses ==
    Holds(LAMBDA p, h :
        \A v \in Range(p.vulnerabilities) : v.analysis = GatedAnalysis(v.analysis))
=============================================================================
