-------------------------- MODULE LicenseExchange ---------------------------
(***************************************************************************)
(* A component's licences between the graph and a document, in both        *)
(* formats (componentLicenses in sbom/transform.go, cycloneDXLicenses and  *)
(* parseCycloneDXLicenses in sbom/cyclonedx.go, spdxLicenseFields and      *)
(* parseSPDXLicenses in sbom/spdx23.go, graphLicenses in sbom/graph.go).   *)
(*                                                                         *)
(* A licence string is the sequence of its conjuncts, << >> for none.  A   *)
(* conjunct is a number: a listed identifier, an alternative ("A OR B"),   *)
(* free text, a reference a document defined, or one minted from a text.   *)
(* A claim is [type, value, expression, text], its text 0 for none; claims *)
(* that would contest a reference are LicenseMerge's subject.              *)
(***************************************************************************)
EXTENDS Integers, SequencesExt

Identifiers  == 1 .. 9
Alternatives == 11 .. 19
FreeTexts    == 21 .. 29
DefinedRefs  == 31 .. 39

MintBase == 100
MintLicenseRef(text) == MintBase + text
IsMinted(atom) == atom > MintBase
IsRef(atom) == atom \in DefinedRefs \/ IsMinted(atom)

Valid(string) == string # << >> /\ \A a \in Range(string) : a \notin FreeTexts
IsIdentifier(string) == Len(string) = 1 /\ string[1] \in Identifiers
IsCompound(string) == Valid(string) /\ ~IsIdentifier(string)
RefsIn(string) == {a \in Range(string) : IsRef(a)}
IsBareRef(string) == Len(string) = 1 /\ IsRef(string[1])

(* A deprecated identifier and the current one. *)
Deprecated == 9
Current == 1

CanonicalExpression(string) ==
    [i \in DOMAIN string |-> IF string[i] = Deprecated THEN Current ELSE string[i]]

Compose(strings) == FlattenSeq(strings)
-----------------------------------------------------------------------------
(* PackageLicense.Normalized and normalizedSPDXExpression: a reference needs
   the text it cites, and a minted one follows it. *)
CitedExpression(e, text) ==
    LET refs == RefsIn(e)
    IN IF ~Valid(e) \/ (refs # {} /\ (text = 0 \/ \E a, b \in refs : a # b)) THEN << >>
       ELSE [i \in DOMAIN e |-> IF IsMinted(e[i]) THEN MintLicenseRef(text) ELSE CanonicalExpression(e)[i]]

GatedClaim(l) ==
    LET e == CitedExpression(l.expression, l.text)
    IN [type |-> IF l.type \in {"declared", "concluded"} THEN l.type ELSE "",
        value |-> l.value,
        expression |-> IF e = << >> /\ l.text # 0 THEN <<MintLicenseRef(l.text)>> ELSE e,
        text |-> l.text]

TypeRank(type) == CASE type = "" -> 0 [] type = "declared" -> 1 [] type = "concluded" -> 2

SeqBefore(s, t) ==
    \E n \in 0 .. Len(s) :
      /\ Len(t) > n /\ SubSeq(s, 1, n) = SubSeq(t, 1, n)
      /\ n = Len(s) \/ s[n + 1] < t[n + 1]

ClaimBefore(l, k) ==
    SeqBefore(<<TypeRank(l.type)>> \o l.expression \o <<0>> \o l.value \o <<0, l.text>>,
              <<TypeRank(k.type)>> \o k.expression \o <<0>> \o k.value \o <<0, k.text>>)

(* DetectionLicenses: the claims of a node, gated, as MergeLicenses lists them. *)
DetectionLicenses(claims) ==
    LET gated == {GatedClaim(l) : l \in claims}
    IN SetToSortSeq({l \in gated : l.value # << >> \/ l.expression # << >>}, ClaimBefore)

(* The component's licences have no text. *)
ComponentLicenses(claims) ==
    LET listed == DetectionLicenses(claims)
    IN [i \in DOMAIN listed |->
          [type |-> listed[i].type, value |-> CanonicalExpression(listed[i].value),
           expression |-> CanonicalExpression(listed[i].expression)]]

LicenseExpressionValue(l) == IF l.expression # << >> THEN l.expression ELSE l.value

ComponentLicenseValues(licenses) ==
    SelectSeq([i \in DOMAIN licenses |-> LicenseExpressionValue(licenses[i])], LAMBDA v : v # << >>)

GraphLicenses(licenses) ==
    {[type |-> l.type, value |-> l.value, expression |-> l.expression, text |-> 0] : l \in Range(licenses)}
-----------------------------------------------------------------------------
(* CycloneDX: a list of choices [shape, value, acknowledgement]. *)

LicenseObject(value, ack) ==
    [shape |-> IF IsIdentifier(value) THEN "id" ELSE "name", value |-> value, acknowledgement |-> ack]

ExpressionChoice(value, ack) == [shape |-> "expression", value |-> value, acknowledgement |-> ack]

CycloneDXLicenseChoices(values, ack) ==
    IF Len(values) = 1 /\ IsCompound(values[1]) THEN <<ExpressionChoice(values[1], ack)>>
    ELSE IF /\ Len(values) > 1
            /\ \E v \in Range(values) : IsCompound(v)
            /\ \A v \in Range(values) : Valid(v)
    THEN <<ExpressionChoice(Compose(values), ack)>>
    ELSE [i \in DOMAIN values |-> LicenseObject(values[i], ack)]

(* licenseGroupsByType, in order of first appearance. *)
GroupTypes(licenses) ==
    LET AddNew(types, l) ==
          IF LicenseExpressionValue(l) = << >> \/ l.type \in Range(types) THEN types ELSE Append(types, l.type)
    IN FoldLeft(AddNew, << >>, licenses)

SingleShape(choices) ==
    Len(choices) = 1 \/ \A c \in Range(choices) : c.shape # "expression"

(* Bug: 1.6 falls back to one expression and keeps the first label on it. *)
CycloneDXLicensesLabelled(licenses, version) ==
    LET types == GroupTypes(licenses)
    IN IF types = << >> THEN << >>
       ELSE CycloneDXLicenseChoices(ComponentLicenseValues(licenses), IF version < 16 THEN "" ELSE Last(types))

CycloneDXLicenses(licenses, version) ==
    LET types    == GroupTypes(licenses)
        untyped  == CycloneDXLicenseChoices(ComponentLicenseValues(licenses), "")
        Group(t) == ComponentLicenseValues(SelectSeq(licenses, LAMBDA l : l.type = t))
        typed    == FlattenSeq([i \in DOMAIN types |-> CycloneDXLicenseChoices(Group(types[i]), types[i])])
    IN IF types = << >> THEN << >>
       ELSE IF version < 16 \/ types = <<"">> THEN untyped
       ELSE IF version < 17 /\ ~SingleShape(typed) THEN untyped
       ELSE typed

ParseCycloneDXLicenses(choices, version) ==
    [i \in DOMAIN choices |->
       [type |-> IF version < 16 \/ choices[i].acknowledgement \notin {"declared", "concluded"}
                 THEN "" ELSE choices[i].acknowledgement,
        value |-> choices[i].value,
        expression |-> IF choices[i].shape = "name" THEN << >> ELSE choices[i].value]]
-----------------------------------------------------------------------------
(* SPDX: two fields, << >> for NOASSERTION, and the texts the document
   extracts, as a set of <<reference, text>>. *)

SPDXElement(value) == IF Valid(value) THEN CanonicalExpression(value) ELSE <<MintLicenseRef(value[1])>>

(* Bug: a set that is not all valid is cut down to its first value. *)
SPDXLicenseValueFirst(licenses) ==
    LET values == ComponentLicenseValues(licenses)
    IN IF values = << >> THEN << >>
       ELSE IF \A v \in Range(values) : Valid(v)
       THEN Compose([i \in DOMAIN values |-> SPDXElement(values[i])])
       ELSE SPDXElement(values[1])

SPDXLicenseValue(licenses) ==
    LET values == ComponentLicenseValues(licenses)
    IN Compose([i \in DOMAIN values |-> SPDXElement(values[i])])

ExtractedTexts(licenses) ==
    {<<MintLicenseRef(v[1]), v[1]>> : v \in {v \in Range(ComponentLicenseValues(licenses)) : ~Valid(v)}}

(* Bug: the two fields swapped. *)
SPDXLicenseFieldsSwapped(licenses) ==
    [concluded |-> SPDXLicenseValue(SelectSeq(licenses, LAMBDA l : l.type # "concluded")),
     declared |-> SPDXLicenseValue(SelectSeq(licenses, LAMBDA l : l.type = "concluded")),
     extracted |-> ExtractedTexts(licenses)]

SPDXLicenseFields(licenses) ==
    [declared |-> SPDXLicenseValue(SelectSeq(licenses, LAMBDA l : l.type # "concluded")),
     concluded |-> SPDXLicenseValue(SelectSeq(licenses, LAMBDA l : l.type = "concluded")),
     extracted |-> ExtractedTexts(licenses)]

(* resolveSingleLicenseRef: a field that is one reference is read as the text
   the document has for it. *)
ResolveSingleLicenseRef(value, extracted) ==
    LET texts == {x[2] : x \in {x \in extracted : x[1] = value[1]}}
    IN IF IsBareRef(value) /\ texts # {} THEN <<CHOOSE t \in texts : TRUE>> ELSE value

ParseSPDXLicenses(fields, extracted) ==
    LET Claim(value, type) ==
          [type |-> type, value |-> ResolveSingleLicenseRef(value, extracted), expression |-> value]
    IN SelectSeq(<<Claim(fields.declared, "declared"), Claim(fields.concluded, "concluded")>>,
                 LAMBDA l : l.expression # << >>)
-----------------------------------------------------------------------------
(* What is named, whether by a text or by the reference minted from it. *)
Named(string) == {IF IsMinted(a) THEN a - MintBase ELSE a : a \in Range(string)}

NamedBy(claims) == UNION {Named(v) : v \in Range(ComponentLicenseValues(ComponentLicenses(claims)))}

ConcludedBy(claims) == NamedBy({l \in claims : l.type = "concluded"})
=============================================================================
