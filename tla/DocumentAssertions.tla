------------------------- MODULE DocumentAssertions -------------------------
(***************************************************************************)
(* What a source document says about itself (model/document.go): its link  *)
(* tuple (identity, version, checksum), the documents it was built from,   *)
(* its creators and tools, and the scalars; the gates on them, the fold of *)
(* sources that name one document, and the merge of two records.           *)
(*                                                                         *)
(* Texts are numbers in the order the code compares them and 0 is the      *)
(* empty one.  A checksum is positive for a SHA-1 and negative for another *)
(* algorithm.                                                              *)
(***************************************************************************)
EXTENDS Integers, SequencesExt

CONSTANT MaxDocumentSources   \* BOUND: maxDocumentSources, 256 in the code

ASSUME MaxDocumentSourcesAssumption == MaxDocumentSources \in Nat \ {0}

Span == 200    \* more than any number a text is

(* An identity is nothing, a namespace in Bomly's form, another namespace or a
   BOM-Link over a serial and a revision; Refused stands for every text the
   locator gate turns away. *)
NoIdentity == [form |-> 0, id |-> 0, rev |-> 0]
Refused    == [form |-> -1, id |-> 0, rev |-> 0]
Bomly(uuid)       == [form |-> 1, id |-> uuid, rev |-> 0]
Namespace(name)   == [form |-> 2, id |-> name, rev |-> 0]
BOMLink(uuid, n)  == [form |-> 3, id |-> uuid, rev |-> n]

IsBOMLink(identity) == identity.form = 3

IdentityRank(identity) == (identity.form * Span + identity.id) * Span + identity.rev

Locator(identity) == IF identity = Refused THEN NoIdentity ELSE identity
-----------------------------------------------------------------------------
FillGap(current, next) == IF current = 0 THEN next ELSE current

VersionFor(identity, version) ==
    IF version <= 0 \/ (IsBOMLink(identity) /\ identity.rev # version) THEN 0 ELSE version

EffectiveVersion(identity, version) ==
    IF version = 0 /\ IsBOMLink(identity) THEN identity.rev ELSE version

(* DocumentSource.Normalized, for a source that has an identity. *)
NormalizedSource(s) ==
    [s EXCEPT !.version = EffectiveVersion(s.identity, VersionFor(s.identity, @))]

IsSelfSource(identity, version, source) ==
    /\ identity # NoIdentity
    /\ source.identity = identity
    /\ EffectiveVersion(identity, version) # 0
    /\ EffectiveVersion(identity, version) = EffectiveVersion(source.identity, source.version)

SourceKey(s) == <<s.identity, s.version>>

SourceRank(s) == IdentityRank(s.identity) * Span + s.version

(* foldDocumentSources: one source per key, the first checksum stated for it,
   sorted by the key. *)
FoldSources(gated) ==
    LET Stated(k) == {i \in DOMAIN gated : SourceKey(gated[i]) = k /\ gated[i].checksum # 0}
        Folded(k) == [identity |-> k[1], version |-> k[2],
                      checksum |-> IF Stated(k) = {} THEN 0 ELSE gated[Min(Stated(k))].checksum]
    IN SetToSortSeq({Folded(SourceKey(s)) : s \in Range(gated)},
                    LAMBDA s, t : SourceRank(s) < SourceRank(t))

Bounded(sources) == SubSeq(sources, 1, Min({Len(sources), MaxDocumentSources}))

(* The bound is on what arrives, before any entry is looked at. *)
GatedSources(identity, version, sources) ==
    LET Located(s) == [s EXCEPT !.identity = Locator(@)]
        Kept(s) == /\ s.identity # NoIdentity
                   /\ ~IsSelfSource(identity, version, s)
        Cleaned == [i \in DOMAIN Bounded(sources) |-> NormalizedSource(Located(sources[i]))]
    IN FoldSources(SelectSeq(Cleaned, Kept))
-----------------------------------------------------------------------------
NoAssertions ==
    [identity |-> NoIdentity, version |-> 0, checksum |-> 0, sources |-> << >>, name |-> 0,
     created |-> 0, comment |-> 0, creators |-> {}, tools |-> {}]

(* DocumentAssertions.Normalized.  A negative name, timestamp or comment is one
   its own gate refuses; creators and tools are sets because the code sorts
   them by all that they say. *)
Normalized(d) ==
    LET identity == Locator(d.identity)
        version  == VersionFor(identity, d.version)
        Field(x) == IF x < 0 THEN 0 ELSE x
    IN [identity |-> identity,
        version  |-> version,
        checksum |-> d.checksum,
        sources  |-> GatedSources(identity, version, d.sources),
        name     |-> Field(d.name),
        created  |-> Field(d.created),
        comment  |-> Field(d.comment),
        creators |-> {c \in d.creators : c.name > 0},
        tools    |-> {t \in d.tools : t.name > 0}]

SameDocumentLink(l, r) ==
    /\ l.identity # NoIdentity
    /\ l.identity = r.identity
    /\ l.version = 0 \/ r.version = 0 \/ l.version = r.version

FilledLink(l, r) ==
    [identity |-> l.identity, version |-> FillGap(l.version, r.version),
     checksum |-> FillGap(l.checksum, r.checksum)]

(* The link tuple of a merge is taken as a unit: a side without an identity
   yields to one that has it, and two different documents keep the first. *)
MergedLink(l, r) ==
    CASE l.identity = NoIdentity /\ r.identity # NoIdentity ->
           [identity |-> r.identity, version |-> r.version, checksum |-> r.checksum]
      [] l.identity = NoIdentity \/ SameDocumentLink(l, r) -> FilledLink(l, r)
      [] OTHER -> [identity |-> l.identity, version |-> l.version, checksum |-> l.checksum]

MergedSources(link, l, r) ==
    Bounded(FoldSources(SelectSeq(l.sources \o r.sources,
                                  LAMBDA s : ~IsSelfSource(link.identity, link.version, s))))

MergeDocumentAssertions(dst, src) ==
    LET l    == Normalized(dst)
        r    == Normalized(src)
        link == MergedLink(l, r)
    IN [identity |-> link.identity,
        version  |-> link.version,
        checksum |-> link.checksum,
        sources  |-> MergedSources(link, l, r),
        name     |-> FillGap(l.name, r.name),
        created  |-> FillGap(l.created, r.created),
        comment  |-> FillGap(l.comment, r.comment),
        creators |-> l.creators \cup r.creators,
        tools    |-> l.tools \cup r.tools]
=============================================================================
