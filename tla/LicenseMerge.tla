---------------------------- MODULE LicenseMerge ----------------------------
(***************************************************************************)
(* The licence claims of a package and their merge (model/package.go).     *)
(*                                                                         *)
(* A claim is a record: its type, the value as stated (0 for none), the    *)
(* expression, the text and a name (0 for none).  An expression is a       *)
(* reference (0 for none) with or without listed licences beside it, or    *)
(* malformed.  A text is a class, the words, with a spacing between them   *)
(* and padding around them; references are minted from the class alone.    *)
(***************************************************************************)
EXTENDS Integers, Sequences, SequencesExt

Texts ==
    {t \in [class : Nat, spacing : Nat, padded : BOOLEAN] : t.class = 0 => ~t.padded /\ t.spacing = 0}

LicenseRecords ==
    [type : {"", "declared", "concluded"}, value : Nat, text : Texts, name : Nat,
     expression : [ref : Nat, other : {"none", "listed", "malformed"}]]

NoText == [class |-> 0, spacing |-> 0, padded |-> FALSE]

Trimmed(text) == [text EXCEPT !.padded = FALSE]

(* Numbers in the order of the identifiers they stand for: what a document
   defines itself sorts before what is minted. *)
MintBase == 100
MintLicenseRef(text) == MintBase + text.class
IsMinted(ref) == ref >= MintBase

NoExpression == [ref |-> 0, other |-> "none"]

(* A claim's expression as Normalized leaves it, before text that nothing
   cites is given a reference. *)
NormalizedExpression(e, text) ==
    IF e.other = "malformed" \/ (e.ref # 0 /\ text = NoText) THEN NoExpression
    ELSE IF IsMinted(e.ref) THEN [e EXCEPT !.ref = MintLicenseRef(text)]
    ELSE e

Normalized(l) ==
    LET e == NormalizedExpression(l.expression, l.text)
    IN [l EXCEPT
          !.expression = IF e = NoExpression /\ l.text # NoText
                         THEN [e EXCEPT !.ref = MintLicenseRef(l.text)] ELSE e,
          !.name = IF l.expression.ref # 0 /\ l.expression.other = "none" /\ l.text = NoText
                   THEN 0 ELSE @]

Publishable(l) ==
    LET n == Normalized(l) IN n.value # 0 \/ n.expression # NoExpression

TypeRank(type) == CASE type = "" -> 0 [] type = "declared" -> 1 [] type = "concluded" -> 2

(* Bug: the text is not part of what makes a claim. *)
licenseKeyWithoutText(l) ==
    <<TypeRank(l.type), IF l.expression.other = "none" THEN 0 ELSE 1, l.expression.ref, l.value, 0>>

(* In the order in which its parts decide the sort. *)
licenseKey(l) ==
    <<TypeRank(l.type), IF l.expression.other = "none" THEN 0 ELSE 1, l.expression.ref, l.value,
      l.text.class>>

KeyBefore(k, other) ==
    \E i \in DOMAIN k : k[i] < other[i] /\ \A j \in 1 .. i - 1 : k[j] = other[j]

Recorded(textByRef, ref, text) ==
    [r \in DOMAIN textByRef \cup {ref} |-> IF r = ref THEN Trimmed(text) ELSE textByRef[r]]

(* Bug: the first text under a reference is not remembered. *)
ResolveUnremembered(l, textByRef) == [license |-> l, textByRef |-> textByRef]

(* resolveLicenseRefCollision: a reference another text has taken is minted
   anew; a text that only differs in spacing is replaced by the one recorded,
   which is the first one trimmed. *)
Resolve(l, textByRef) ==
    LET ref == l.expression.ref IN
    IF l.text = NoText \/ ref = 0
    THEN [license |-> l, textByRef |-> textByRef]
    ELSE IF ref \notin DOMAIN textByRef
    THEN [license |-> l, textByRef |-> Recorded(textByRef, ref, l.text)]
    ELSE IF textByRef[ref].class = l.text.class
    THEN [license |-> [l EXCEPT !.text = textByRef[ref]], textByRef |-> textByRef]
    ELSE [license |-> [l EXCEPT !.expression.ref = MintLicenseRef(l.text)],
          textByRef |-> Recorded(textByRef, MintLicenseRef(l.text), l.text)]

(* One claim into what has been merged: a second record of a claim gives it a
   name if it has none. *)
MergeClaim(acc, l) ==
    LET r == Resolve(Normalized(l), acc.textByRef)
        same == {i \in DOMAIN acc.merged : licenseKey(acc.merged[i]) = licenseKey(r.license)}
    IN IF ~Publishable(l) THEN acc
       ELSE [textByRef |-> r.textByRef,
             merged |-> IF same = {} THEN Append(acc.merged, r.license)
                        ELSE [i \in DOMAIN acc.merged |->
                                IF i \in same /\ acc.merged[i].name = 0
                                THEN [acc.merged[i] EXCEPT !.name = r.license.name]
                                ELSE acc.merged[i]]]

NothingMerged == [merged |-> << >>, textByRef |-> [r \in {} |-> NoText]]

(* One claim put in its place: sort.SliceStable by key. *)
Placed(sorted, l) ==
    LET later == {i \in DOMAIN sorted : KeyBefore(licenseKey(l), licenseKey(sorted[i]))}
    IN InsertAt(sorted, IF later = {} THEN Len(sorted) + 1 ELSE Min(later), l)

MergeLicenses(existing, additions) ==
    FoldLeft(Placed, << >>, FoldLeft(MergeClaim, NothingMerged, existing \o additions).merged)
-----------------------------------------------------------------------------
(* What a record claims, apart from the reference it is cited under and the
   spacing of its text. *)
Claim(l) ==
    LET n == Normalized(l)
    IN [type |-> n.type, value |-> n.value, other |-> n.expression.other, class |-> n.text.class]

Claims(licenses) == {Claim(l) : l \in {k \in Range(licenses) : Publishable(k)}}

NamedClaims(licenses) ==
    {Claim(l) : l \in {k \in Range(licenses) : Publishable(k) /\ Normalized(k).name # 0}}
=============================================================================
