----------------------- MODULE DocumentExchangeProofs -----------------------
(***************************************************************************)
(* What survives a way out of the process and back in, for any holdings,   *)
(* documents, scans and number of exports.                                 *)
(***************************************************************************)
EXTENDS DocumentExchange, FoldLemmas, FiniteSetTheorems
-----------------------------------------------------------------------------
(* The scopes of a component. *)

(* A reader takes no other scopes than the known ones, and those as they are. *)
LEMMA KnownScopesAreLeft ==
    ASSUME NEW scopes, NEW format
    PROVE  /\ ScopesLeft(scopes, format) \subseteq KnownScopes
           /\ scopes \subseteq KnownScopes => ScopesLeft(scopes, format) = scopes
  <1>1. \A token : ParseScope(token) \in KnownScopes \cup {ScopeUnknown}
    BY DEF ParseScope, KnownScopes
  <1>2. \A token \in KnownScopes : ParseScope(token) = token /\ token # ScopeUnknown /\ token # ","
    BY DEF ParseScope, KnownScopes, ScopeUnknown
  <1>3. ScopesLeft(scopes, format) \subseteq KnownScopes
    <2>1. {ParseScope(s) : s \in scopes} \ {ScopeUnknown} \subseteq KnownScopes BY <1>1
    <2>2. {"runtime"} \subseteq KnownScopes /\ {"development"} \subseteq KnownScopes BY DEF KnownScopes
    <2>3. QED BY <2>1, <2>2 DEF ScopesLeft
  <1>4. ASSUME scopes \subseteq KnownScopes PROVE ScopesLeft(scopes, format) = scopes
    <2>1. "," \notin scopes BY <1>2, <1>4
    <2>2. {ParseScope(s) : s \in scopes} = scopes BY <1>2, <1>4
    <2>3. ScopeUnknown \notin scopes BY <1>2, <1>4
    <2>4. QED BY <2>1, <2>2, <2>3 DEF ScopesLeft
  <1>5. QED BY <1>3, <1>4

(* The scopes are on paper as a list, and in CycloneDX as a word beside it. *)
WritesScopes(format, w, scopes) ==
    /\ w.carrier = EncodeScopeSet(scopes)
    /\ format # SPDX => \E word : w.word = CycloneDXScopeForExport(scopes, word)

ReadsScopes(format, w) ==
    IF format = SPDX THEN DecodeScopeSetLenient(w.carrier)
    ELSE ScopesFromCycloneDXComponent(w.word, w.carrier)

(* The list is read as far as it can be, by either reader. *)
LEMMA CarrierIsRead ==
    ASSUME NEW scopes
    PROVE  DecodeScopeSetLenient(EncodeScopeSet(scopes))
             = IF "," \in scopes THEN {} ELSE {ParseScope(s) : s \in scopes} \ {ScopeUnknown}
  <1>1. "," \in EncodeScopeSet(scopes) <=> "," \in scopes BY DEF EncodeScopeSet, ScopeUnknown
  <1>2. ParseScope(ScopeUnknown) = ScopeUnknown BY DEF ParseScope, ScopeUnknown, KnownScopes
  <1>3. {ParseScope(s) : s \in EncodeScopeSet(scopes)} \ {ScopeUnknown}
          = {ParseScope(s) : s \in scopes} \ {ScopeUnknown}
    BY <1>2 DEF EncodeScopeSet
  <1>4. QED BY <1>1, <1>3 DEF DecodeScopeSetLenient

(* Where the list is of no use, the word is the projection of the scopes:
   no source's word means what such a list says. *)
LEMMA WordIsProjected ==
    ASSUME NEW scopes, NEW word, DecodeScopeSetLenient(EncodeScopeSet(scopes)) = {}
    PROVE  CycloneDXScopeForExport(scopes, word) = CycloneDXScope(scopes)
  <1> SUFFICES ASSUME ScopesFromCycloneDX(word) # {}, ScopesFromCycloneDX(word) = EncodeScopeSet(scopes)
               PROVE  FALSE
    BY DEF CycloneDXScopeForExport
  <1>1. ScopesFromCycloneDX(word) \subseteq KnownScopes BY DEF ScopesFromCycloneDX, KnownScopes
  <1>2. \A s \in KnownScopes : ParseScope(s) = s /\ s # ScopeUnknown /\ s # ","
    BY DEF ParseScope, KnownScopes, ScopeUnknown
  <1>3. EncodeScopeSet(scopes) \subseteq KnownScopes /\ EncodeScopeSet(scopes) # {} BY <1>1
  <1>4. PICK s \in EncodeScopeSet(scopes) : s \in KnownScopes BY <1>3
  <1>5. "," \notin EncodeScopeSet(scopes) BY <1>2, <1>3
  <1>6. s \in DecodeScopeSetLenient(EncodeScopeSet(scopes))
    BY <1>2, <1>4, <1>5 DEF DecodeScopeSetLenient
  <1>7. QED BY <1>6

(* One export and one reading leave what can be read. *)
LEMMA ReadingLeaves ==
    ASSUME NEW format \in Formats, NEW w, NEW scopes, WritesScopes(format, w, scopes)
    PROVE  ReadsScopes(format, w) = Defaulted(ScopesLeft(scopes, format), {format})
  <1> DEFINE carried == DecodeScopeSetLenient(EncodeScopeSet(scopes))
             readable == {ParseScope(s) : s \in scopes} \ {ScopeUnknown}
  <1>1. carried = IF "," \in scopes THEN {} ELSE readable BY CarrierIsRead
  <1>2. w.carrier = EncodeScopeSet(scopes) BY DEF WritesScopes
  <1>3. CASE format = SPDX
    <2>1. {format} \cap CycloneDXVersions = {} BY <1>3 DEF SPDX, CycloneDXVersions
    <2>2. ReadsScopes(format, w) = carried BY <1>2, <1>3 DEF ReadsScopes
    <2>3. ScopesLeft(scopes, format) = carried BY <1>1, <1>3 DEF ScopesLeft
    <2>4. QED BY <2>1, <2>2, <2>3 DEF Defaulted
  <1>4. CASE format # SPDX
    <2>1. {format} \cap CycloneDXVersions # {} BY <1>4 DEF Formats
    <2>2. ReadsScopes(format, w) = IF carried # {} THEN carried ELSE ScopesFromCycloneDX(w.word)
      BY <1>2, <1>4 DEF ReadsScopes, ScopesFromCycloneDXComponent
    <2>3. CASE carried # {}
      <3>1. ScopesLeft(scopes, format) = carried BY <1>1, <2>3 DEF ScopesLeft
      <3>2. QED BY <2>2, <2>3, <3>1 DEF Defaulted
    <2>4. CASE carried = {}
      <3>1. PICK word : w.word = CycloneDXScopeForExport(scopes, word) BY <1>4 DEF WritesScopes
      <3>2. w.word = CycloneDXScope(scopes) BY <2>4, <3>1, WordIsProjected
      <3>3. ReadsScopes(format, w) = ScopesFromCycloneDX(CycloneDXScope(scopes)) BY <2>2, <2>4, <3>2
      <3>4. CASE "," \in scopes
        <4>1. ScopesLeft(scopes, format) = IF "runtime" \in scopes THEN {"runtime"} ELSE scopes \cap {"development"}
          BY <1>4, <3>4 DEF ScopesLeft
        <4>2. CASE "runtime" \in scopes
          BY <3>3, <4>1, <4>2 DEF CycloneDXScope, ScopesFromCycloneDX, Defaulted
        <4>3. CASE "runtime" \notin scopes /\ "development" \in scopes
          <5>1. ScopesLeft(scopes, format) = {"development"} BY <4>1, <4>3
          <5>2. CycloneDXScope(scopes) = "excluded" BY <4>3 DEF CycloneDXScope
          <5>3. ReadsScopes(format, w) = {"development"} BY <3>3, <5>2 DEF ScopesFromCycloneDX
          <5>4. QED BY <5>1, <5>3 DEF Defaulted
        <4>4. CASE "runtime" \notin scopes /\ "development" \notin scopes
          <5>1. ScopesLeft(scopes, format) = {} BY <4>1, <4>4
          <5>2. CycloneDXScope(scopes) = "" BY <4>4 DEF CycloneDXScope
          <5>3. ReadsScopes(format, w) = {"runtime"} BY <3>3, <5>2 DEF ScopesFromCycloneDX
          <5>4. QED BY <2>1, <5>1, <5>3 DEF Defaulted
        <4>5. QED BY <4>2, <4>3, <4>4
      <3>5. CASE "," \notin scopes
        <4>1. readable = {} /\ ScopesLeft(scopes, format) = {} BY <1>1, <2>4, <3>5 DEF ScopesLeft
        <4>2. \A s \in KnownScopes : ParseScope(s) = s /\ s # ScopeUnknown
          BY DEF ParseScope, KnownScopes, ScopeUnknown
        <4>3. \A s \in KnownScopes : s \notin scopes BY <4>1, <4>2
        <4>4. CycloneDXScope(scopes) = "" BY <4>3 DEF CycloneDXScope, KnownScopes
        <4>5. ReadsScopes(format, w) = {"runtime"} BY <3>3, <4>4 DEF ScopesFromCycloneDX
        <4>6. QED BY <2>1, <4>1, <4>5 DEF Defaulted
      <3>6. QED BY <3>4, <3>5
    <2>5. QED BY <2>3, <2>4
  <1>5. QED BY <1>3, <1>4

(* Another export and reading leave the known scopes of the first, or give the
   default where there are none. *)
LEMMA ReadingAgainLeaves ==
    ASSUME NEW S \in SUBSET KnownScopes, NEW formats, NEW format
    PROVE  Defaulted(ScopesLeft(Defaulted(S, formats), format), {format}) = Defaulted(S, formats \cup {format})
  <1>1. Defaulted(S, formats) \subseteq KnownScopes BY DEF Defaulted, KnownScopes
  <1>2. ScopesLeft(Defaulted(S, formats), format) = Defaulted(S, formats)
    BY <1>1, KnownScopesAreLeft
  <1>3. CASE S = {} /\ formats \cap CycloneDXVersions # {}
    <2>1. Defaulted(S, formats) = {"runtime"} BY <1>3 DEF Defaulted
    <2>2. (formats \cup {format}) \cap CycloneDXVersions # {} BY <1>3
    <2>3. QED BY <1>2, <1>3, <2>1, <2>2 DEF Defaulted
  <1>4. CASE S = {} /\ formats \cap CycloneDXVersions = {}
    <2>1. Defaulted(S, formats) = {} BY <1>4 DEF Defaulted
    <2>2. (formats \cup {format}) \cap CycloneDXVersions = {format} \cap CycloneDXVersions BY <1>4
    <2>3. QED BY <1>2, <1>4, <2>1, <2>2 DEF Defaulted
  <1>5. CASE S # {}
    BY <1>2, <1>5 DEF Defaulted
  <1>6. QED BY <1>3, <1>4, <1>5

(* The trail of a component is a sequence, whatever it is a sequence of. *)
IsTrail == \E S : trail \in Seq(S)

(* Growing the trail. *)
LEMMA TrailGrows ==
    ASSUME IsTrail, NEW e, trail' = Append(trail, e)
    PROVE  /\ IsTrail'
           /\ trail' # << >>
           /\ trail # << >> => trail'[1] = trail[1] /\ Through' = Through \cup {e.format}
           /\ trail = << >> => trail'[1] = e
           /\ Len(trail) \in Nat /\ Len(trail') = Len(trail) + 1
           /\ trail = << >> <=> Len(trail) = 0
           /\ Len(trail) = 1 => trail'[2] = e /\ Through = {}
           /\ trail # << >> /\ Len(trail) # 1 => trail'[2] = trail[2]
  <1>1. PICK S : trail \in Seq(S) BY DEF IsTrail
  <1> DEFINE n == Len(trail)
             T == S \cup {e}
  <1>2. trail' \in Seq(T) /\ n \in Nat /\ Len(trail') = n + 1 /\ trail'[n + 1] = e
        /\ \A i \in 1 .. n : trail'[i] = trail[i]
    BY <1>1
  <1>3. IsTrail' BY <1>2 DEF IsTrail
  <1>4. trail' # << >> BY <1>2
  <1>5. ASSUME trail = << >> PROVE trail'[1] = e
    BY <1>2, <1>5
  <1>6. ASSUME trail # << >> PROVE trail'[1] = trail[1] /\ Through' = Through \cup {e.format}
    <2>1. n >= 1 BY <1>1, <1>6
    <2>2. trail'[1] = trail[1] BY <1>2, <2>1
    <2>3. 2 .. n + 1 = (2 .. n) \cup {n + 1} BY <1>2, <2>1
    <2>4. \A i \in 2 .. n : trail'[i] = trail[i] BY <1>2
    <2> HIDE DEF n
    <2>5. Through' = {trail'[i].format : i \in 2 .. n + 1} BY <1>2 DEF Through
    <2>6. Through = {trail[i].format : i \in 2 .. n} BY DEF Through, n
    <2>7. QED BY <2>2, <2>3, <2>4, <2>5, <2>6, <1>2
  <1>7. trail = << >> <=> n = 0 BY <1>1
  <1>8. ASSUME n = 1 PROVE trail'[2] = e /\ Through = {}
    <2>1. trail'[2] = e BY <1>2, <1>8
    <2>2. 2 .. n = {} BY <1>8
    <2>3. QED BY <2>1, <2>2 DEF Through
  <1>9. ASSUME trail # << >>, n # 1 PROVE trail'[2] = trail[2]
    <2>1. n \in Nat /\ n # 0 BY <1>2, <1>7, <1>9
    <2> HIDE DEF n
    <2>2. 2 \in 1 .. n BY <1>9, <2>1
    <2>3. QED BY <1>2, <2>2
  <1>10. QED BY <1>2, <1>3, <1>4, <1>5, <1>6, <1>7, <1>8, <1>9

(* What the scopes of a component are after the formats it went through, and
   what a reader of one more format has to find. *)
ScopesNow(c) ==
    IF Len(trail) = 1 THEN FirstHeld(c).node.scopes
    ELSE Defaulted(ScopesLeft(FirstHeld(c).node.scopes, trail[2].format), Through)

ScopesNext(c, format) ==
    IF Len(trail) = 1 THEN Defaulted(ScopesLeft(FirstHeld(c).node.scopes, format), {format})
    ELSE Defaulted(ScopesLeft(FirstHeld(c).node.scopes, trail[2].format), Through \cup {format})

LEMMA ScopesStepOn ==
    ASSUME NEW c, NEW format
    PROVE  Defaulted(ScopesLeft(ScopesNow(c), format), {format}) = ScopesNext(c, format)
  <1>1. ScopesLeft(FirstHeld(c).node.scopes, trail[2].format) \in SUBSET KnownScopes BY KnownScopesAreLeft
  <1>2. QED BY <1>1, ReadingAgainLeaves DEF ScopesNow, ScopesNext

(* The scopes of a component in hand, as a node, a record of the document or
   the record that was read, and on paper; nothing is said of those of a
   foreign document until they are held, for they have no past. *)
ScopesInv ==
    /\ IsTrail
    /\ step \in {"held", "projected"} => trail # << >>
    /\ step = "held" => \A c \in Components : held[c].node.scopes = ScopesNow(c)
    /\ step = "projected" => \A c \in Components : component[c].scopes = ScopesNow(c)
    /\ step = "written" /\ trail # << >> =>
         /\ paper.format \in Formats
         /\ \A c \in Components : WritesScopes(paper.format, paper.components[c], ScopesNow(c))
    /\ step = "read" /\ trail # << >> =>
         \A c \in Components : component[c].scopes = ScopesNext(c, paper.format)

LEMMA ScopesStart == Init => ScopesInv
  <1> SUFFICES ASSUME Init PROVE ScopesInv
    OBVIOUS
  <1>1. CASE ClaimsIdle
    <2>1. trail \in Seq({}) BY <1>1 DEF ClaimsIdle
    <2>2. IsTrail BY <2>1 DEF IsTrail
    <2>3. QED BY <1>1, <2>2 DEF ClaimsIdle, ScopesInv
  <1>2. CASE ClaimInit
    <2>1. CASE step = "held"
      <3>1. held \in Holdings /\ trail = <<[format |-> 0, held |-> held]>>
        BY <1>2, <2>1 DEF ClaimInit
      <3>2. /\ trail \in Seq({[format |-> 0, held |-> held]}) /\ trail # << >> /\ Len(trail) = 1
            /\ trail[1].held = held
        BY <3>1
      <3>3. IsTrail BY <3>2 DEF IsTrail
      <3>4. \A c \in Components : held[c].node.scopes = ScopesNow(c)
        BY <3>2 DEF ScopesNow, FirstHeld
      <3>5. QED BY <2>1, <3>2, <3>3, <3>4 DEF ScopesInv
    <2>2. CASE step = "written"
      <3>1. trail = << >> BY <1>2, <2>2 DEF ClaimInit
      <3>2. trail \in Seq({}) BY <3>1
      <3>3. IsTrail BY <3>2 DEF IsTrail
      <3>4. QED BY <2>2, <3>1, <3>3 DEF ScopesInv
    <2>3. QED BY <1>2, <2>1, <2>2 DEF ClaimInit
  <1>3. QED BY <1>1, <1>2 DEF Init

(* Nothing but the trail says what the scopes have to be. *)
LEMMA ScopesStay ==
    ASSUME trail' = trail
    PROVE  /\ IsTrail => IsTrail'
           /\ \A c : ScopesNow(c)' = ScopesNow(c)
           /\ \A c, format : ScopesNext(c, format)' = ScopesNext(c, format)
  <1>1. Through' = Through BY DEF Through
  <1>2. \A c : FirstHeld(c)' = FirstHeld(c) BY DEF FirstHeld
  <1>3. QED BY <1>1, <1>2 DEF IsTrail, ScopesNow, ScopesNext

LEMMA ScopesUnmoved ==
    ASSUME ScopesInv, UNCHANGED claimVars PROVE ScopesInv'
  <1>1. UNCHANGED <<step, held, component, paper, trail>> BY DEF claimVars
  <1>2. QED BY <1>1, ScopesStay DEF ScopesInv

LEMMA ScopesProject ==
    ASSUME ScopesInv, Project PROVE ScopesInv'
  <1>1. /\ step = "held" /\ step' = "projected" /\ trail' = trail
        /\ component' = [c \in Components |-> Projected(c, held[c])]
    BY DEF Project
  <1>2. \A c \in Components : component'[c].scopes = held[c].node.scopes
    BY <1>1 DEF Projected
  <1>3. QED BY <1>1, <1>2, ScopesStay DEF ScopesInv

LEMMA ScopesWrite ==
    ASSUME ScopesInv, NEW format \in Formats, Write(format) PROVE ScopesInv'
  <1>1. /\ step = "projected" /\ step' = "written" /\ trail' = trail /\ trail # << >>
        /\ paper' = IF format = SPDX THEN EncodeSPDXClaims(component) ELSE EncodeCycloneDXClaims(component, format)
    BY DEF Write, ScopesInv
  <1>2. paper'.format = format
    BY <1>1 DEF EncodeSPDXClaims, EncodeCycloneDXClaims
  <1>3. ASSUME NEW c \in Components
        PROVE  WritesScopes(format, paper'.components[c], component[c].scopes)
    <2>1. CASE format = SPDX
      <3>1. paper'.components[c] = SPDXPackage(component[c]) BY <1>1, <2>1 DEF EncodeSPDXClaims
      <3>2. paper'.components[c].carrier = EncodeScopeSet(component[c].scopes)
        BY <3>1 DEF SPDXPackage
      <3>3. QED BY <2>1, <3>2 DEF WritesScopes
    <2>2. CASE format # SPDX
      <3>1. paper'.components[c] = CycloneDXComponent(component[c], format)
        BY <1>1, <2>2 DEF EncodeCycloneDXClaims
      <3>2. /\ paper'.components[c].carrier = EncodeScopeSet(component[c].scopes)
            /\ paper'.components[c].word = CycloneDXScopeForExport(component[c].scopes, component[c].word)
        BY <3>1 DEF CycloneDXComponent
      <3>3. QED BY <3>2 DEF WritesScopes
    <2>3. QED BY <2>1, <2>2
  <1>4. \A c \in Components : component[c].scopes = ScopesNow(c) BY <1>1 DEF ScopesInv
  <1>5. \A c \in Components : WritesScopes(paper'.format, paper'.components[c], ScopesNow(c))
    BY <1>2, <1>3, <1>4
  <1>6. IsTrail' /\ \A c : ScopesNow(c)' = ScopesNow(c) BY <1>1, ScopesStay DEF ScopesInv
  <1>7. \A c \in Components : WritesScopes(paper.format, paper.components[c], ScopesNow(c))'
    BY <1>5, <1>6 DEF WritesScopes
  <1>8. QED BY <1>1, <1>2, <1>6, <1>7 DEF ScopesInv

LEMMA ScopesRead ==
    ASSUME ScopesInv, Read PROVE ScopesInv'
  <1>1. /\ step = "written" /\ step' = "read" /\ trail' = trail /\ paper' = paper
        /\ component' = [c \in Components |->
             IF paper.format = SPDX THEN DecodeSPDXPackage(paper.components[c], paper.extracted)
             ELSE DecodeCycloneDXComponent(c, paper)]
    BY DEF Read
  <1>2. ASSUME NEW c \in Components
        PROVE  component'[c].scopes = ReadsScopes(paper.format, paper.components[c])
    <2>1. CASE paper.format = SPDX
      BY <1>1, <2>1 DEF DecodeSPDXPackage, ReadsScopes
    <2>2. CASE paper.format # SPDX
      BY <1>1, <2>2 DEF DecodeCycloneDXComponent, ReadsScopes
    <2>3. QED BY <2>1, <2>2
  <1>3. ASSUME NEW c \in Components, trail # << >>
        PROVE  component'[c].scopes = ScopesNext(c, paper.format)
    <2>1. paper.format \in Formats /\ WritesScopes(paper.format, paper.components[c], ScopesNow(c))
      BY <1>1, <1>3 DEF ScopesInv
    <2>2. ReadsScopes(paper.format, paper.components[c])
            = Defaulted(ScopesLeft(ScopesNow(c), paper.format), {paper.format})
      BY <2>1, ReadingLeaves
    <2>3. QED BY <1>2, <2>2, ScopesStepOn
  <1>4. IsTrail' /\ \A c, format : ScopesNext(c, format)' = ScopesNext(c, format)
    BY <1>1, ScopesStay DEF ScopesInv
  <1>5. \A c \in Components : ScopesNext(c, paper.format)' = ScopesNext(c, paper.format)
    BY <1>1, ScopesStay DEF ScopesNext
  <1>6. QED BY <1>1, <1>3, <1>4, <1>5 DEF ScopesInv

LEMMA ScopesIngest ==
    ASSUME ScopesInv, Ingest PROVE ScopesInv'
  <1> DEFINE e == [format |-> paper.format, held |-> held']
  <1>1. /\ step = "read" /\ step' = "held" /\ trail' = Append(trail, e)
        /\ held' = [c \in Components |-> [node |-> IngestedNode(component[c]), package |-> IngestedPackage(component[c])]]
    BY DEF Ingest
  <1>2. \A c \in Components : held'[c].node.scopes = component[c].scopes
    BY <1>1 DEF IngestedNode
  <1>3. IsTrail BY DEF ScopesInv
  <1>4. e.format = paper.format /\ e.held = held' OBVIOUS
  <1> HIDE DEF e
  <1>5. /\ IsTrail' /\ trail' # << >>
        /\ trail # << >> => trail'[1] = trail[1] /\ Through' = Through \cup {e.format}
        /\ trail = << >> => trail'[1] = e
        /\ Len(trail) \in Nat /\ Len(trail') = Len(trail) + 1 /\ (trail = << >> <=> Len(trail) = 0)
        /\ Len(trail) = 1 => trail'[2] = e /\ Through = {}
        /\ trail # << >> /\ Len(trail) # 1 => trail'[2] = trail[2]
    BY <1>1, <1>3, TrailGrows
  <1>6. ASSUME NEW c \in Components
        PROVE  held'[c].node.scopes = ScopesNow(c)'
    <2>1. CASE trail = << >>
      <3>1. FirstHeld(c)' = held'[c] BY <1>4, <1>5, <2>1 DEF FirstHeld
      <3>2. Len(trail') = 1 BY <1>5, <2>1
      <3>3. QED BY <3>1, <3>2 DEF ScopesNow
    <2>2. CASE trail # << >>
      <3>1. FirstHeld(c)' = FirstHeld(c) BY <1>5, <2>2 DEF FirstHeld
      <3>2. Through' = Through \cup {paper.format} BY <1>4, <1>5, <2>2
      <3>3. held'[c].node.scopes = ScopesNext(c, paper.format) BY <1>1, <1>2, <2>2 DEF ScopesInv
      <3>4. Len(trail') # 1 BY <1>5, <2>2
      <3>5. CASE Len(trail) = 1
        <4>1. trail'[2].format = paper.format /\ Through' = {paper.format} BY <1>4, <1>5, <3>2, <3>5
        <4>2. QED BY <3>1, <3>3, <3>4, <3>5, <4>1 DEF ScopesNow, ScopesNext
      <3>6. CASE Len(trail) # 1
        <4>1. trail'[2] = trail[2] BY <1>5, <2>2, <3>6
        <4>2. QED BY <3>1, <3>2, <3>3, <3>4, <3>6, <4>1 DEF ScopesNow, ScopesNext
      <3>7. QED BY <3>5, <3>6
    <2>3. QED BY <2>1, <2>2
  <1>7. QED BY <1>1, <1>5, <1>6 DEF ScopesInv

(* Whatever scopes a node lists, the ones a reader knows survive the first
   export and every later one, through any formats, and no other is added but
   the default of CycloneDX where none is left (EncodeScopeSet,
   DecodeScopeSetLenient and ScopesFromCycloneDXComponent,
   model/scope_cyclonedx.go). *)
THEOREM ScopesAlwaysSurvive == Spec => []ScopesSurvive
  <1>1. Init => ScopesInv BY ScopesStart
  <1>2. ScopesInv /\ [Next]_vars => ScopesInv'
    <2> SUFFICES ASSUME ScopesInv, [Next]_vars PROVE ScopesInv'
      OBVIOUS
    <2>1. CASE UNCHANGED claimVars BY <2>1, ScopesUnmoved
    <2>2. CASE ClaimNext
      <3>1. CASE Project BY <3>1, ScopesProject
      <3>2. ASSUME NEW f \in Formats, Write(f) PROVE ScopesInv' BY <3>2, ScopesWrite
      <3>3. CASE Read BY <3>3, ScopesRead
      <3>4. CASE Ingest BY <3>4, ScopesIngest
      <3>5. QED BY <2>2, <3>1, <3>2, <3>3, <3>4 DEF ClaimNext
    <2>3. QED BY <2>1, <2>2 DEF Next, vars
  <1>3. ScopesInv => ScopesSurvive
    <2> SUFFICES ASSUME ScopesInv, step = "held", NEW c \in Components
                 PROVE  held[c].node.scopes =
                          IF Len(trail) = 1 THEN FirstHeld(c).node.scopes
                          ELSE Defaulted(ScopesLeft(FirstHeld(c).node.scopes, trail[2].format), Through)
      BY DEF ScopesSurvive
    <2>1. held[c].node.scopes = ScopesNow(c) BY DEF ScopesInv
    <2>2. QED BY <2>1 DEF ScopesNow
  <1>4. QED BY <1>1, <1>2, <1>3, PTL DEF Spec
-----------------------------------------------------------------------------
(* The references to a component. *)

(* An address with nothing to hide: the component was not fetched from it, or
   somebody claimed it to begin with. *)
Fair(l, first) == l \in Nat /\ (l \in Fetched(first) => l \in Claimed(first))

FairRefs(refs, first) ==
    \A r \in refs : DOMAIN r = ReferenceFields /\ (r.type # "advisory" => Fair(r.locator, first))

FairHomepage(h, first) == h \in Nat /\ (h > 0 => Fair(h, first))

LEMMA MergedRefsAreFair ==
    ASSUME NEW refs, NEW first, FairRefs(refs, first)
    PROVE  FairRefs(MergeExternalReferences(refs), first)
  <1> DEFINE Hashes(r) == UNION {s.hashes : s \in {s \in {x \in refs : IsPublishableReference(x)} :
                                                     ReferenceKey(s) = ReferenceKey(r)}}
             Comments(r) == {s.comment : s \in {s \in {x \in refs : IsPublishableReference(x)} :
                                                     ReferenceKey(s) = ReferenceKey(r)}} \ {0}
             Comment(r) == IF Comments(r) = {} THEN 0 ELSE Min(Comments(r))
             Whole(r) == [r EXCEPT !.hashes = Hashes(r), !.comment = Comment(r)]
  <1>1. MergeExternalReferences(refs) = {Whole(r) : r \in {x \in refs : IsPublishableReference(x)}}
    BY DEF MergeExternalReferences
  <1> HIDE DEF Hashes, Comment
  <1>2. \A r \in refs : /\ DOMAIN Whole(r) = ReferenceFields
                        /\ Whole(r).type = r.type /\ Whole(r).locator = r.locator
    BY DEF FairRefs, ReferenceFields
  <1> HIDE DEF Whole
  <1>3. \A w \in MergeExternalReferences(refs) : \E r \in refs : w = Whole(r) BY <1>1
  <1>4. QED BY <1>2, <1>3 DEF FairRefs

LEMMA PartsAreFair ==
    ASSUME NEW refs, NEW part, part \subseteq refs, NEW first, FairRefs(refs, first)
    PROVE  FairRefs(part, first)
  BY DEF FairRefs

(* What is published once is published again. *)
LEMMA PublishedHomepage ==
    ASSUME NEW h, NEW first, FairHomepage(h, first)
    PROVE  Published(h) = h
  BY DEF FairHomepage, Published, IsPublishable

(* What CycloneDX writes besides where the component was fetched from. *)
LEMMA CycloneDXRefsAreFair ==
    ASSUME NEW k, NEW first, NEW version, FairRefs(k.references, first), FairHomepage(k.homepage, first)
    PROVE  FairRefs({r \in CycloneDXComponent(k, version).references : ~IsOriginDerivedReferenceType(r.type)}, first)
  <1> DEFINE fetched == CycloneDXComponentReferences(k.origins, k.scorecard)
             asserted == CycloneDXAssertedReferences(k.references, k.homepage)
             emitted == CycloneDXEmittedReferences(asserted)
             Emitted(r) == [category |-> "", type |-> r.type, locator |-> r.locator, comment |-> r.comment,
                            hashes |-> CycloneDXHashes(r.hashes)]
  <1>1. CycloneDXComponent(k, version).references = fetched \cup emitted BY DEF CycloneDXComponent
  <1>2. \A r \in fetched : IsOriginDerivedReferenceType(r.type)
    <2>1. \A l : Reference("distribution", l).type = "distribution" /\ Reference("vcs", l).type = "vcs"
      BY DEF Reference
    <2>2. \A r \in fetched : \E l : r = Reference("distribution", l) \/ r = Reference("vcs", l)
      BY DEF CycloneDXComponentReferences
    <2> HIDE DEF fetched
    <2>3. QED BY <2>1, <2>2 DEF IsOriginDerivedReferenceType
  <1>3. FairRefs(asserted, first)
    <2>1. CASE asserted = k.references BY <2>1
    <2>2. CASE k.homepage # 0 /\ asserted = MergeExternalReferences(k.references \cup {Website(k.homepage)})
      <3>1. Fair(k.homepage, first) BY <2>2 DEF FairHomepage
      <3>2. DOMAIN Website(k.homepage) = ReferenceFields /\ Website(k.homepage).locator = k.homepage
        BY DEF Website, ReferenceFields
      <3> HIDE DEF asserted
      <3>3. FairRefs(k.references \cup {Website(k.homepage)}, first) BY <3>1, <3>2 DEF FairRefs
      <3>4. QED BY <2>2, <3>3, MergedRefsAreFair
    <2>3. QED BY <2>1, <2>2 DEF CycloneDXAssertedReferences
  <1> HIDE DEF asserted
  <1>4. \A w \in emitted : \E r \in asserted : w = Emitted(r) BY DEF CycloneDXEmittedReferences
  <1>5. \A r : DOMAIN Emitted(r) = ReferenceFields /\ Emitted(r).type = r.type /\ Emitted(r).locator = r.locator
    BY DEF ReferenceFields
  <1> HIDE DEF emitted, fetched, Emitted
  <1>6. FairRefs(emitted, first) BY <1>3, <1>4, <1>5 DEF FairRefs
  <1>7. QED BY <1>1, <1>2, <1>6 DEF FairRefs

(* What SPDX writes besides that. *)
LEMMA SPDXRefsAreFair ==
    ASSUME NEW k, NEW first, FairRefs(k.references, first)
    PROVE  FairRefs({r \in SPDXPackage(k).references : ~IsBomlyProjectedReference(r)}, first)
  <1> DEFINE advisories == {Advisory(l) : l \in SPDXVulnerabilityLocators(k.vulnerabilities)}
             fetched == SPDXAdditionalOriginReferences(k.origins, k.scorecard)
             emitted == SPDXEmittedReferences(k.references)
             Category(r) == IF r.category = "" THEN "OTHER" ELSE r.category
             Emitted(r) == [r EXCEPT !.category = Category(r), !.hashes = {}]
             Projection(l) == [Reference("bomly-package-origin", l) EXCEPT !.category = "OTHER"]
  <1>1. SPDXPackage(k).references = advisories \cup fetched \cup emitted BY DEF SPDXPackage
  <1>2. FairRefs(advisories, first)
    <2>1. \A l : DOMAIN Advisory(l) = ReferenceFields /\ Advisory(l).type = "advisory"
      BY DEF Advisory, ReferenceFields
    <2>2. QED BY <2>1 DEF FairRefs
  <1>3. \A r \in fetched : IsBomlyProjectedReference(r)
    <2>1. \A l : Projection(l).type = "bomly-package-origin" BY DEF Reference
    <2>2. \A r \in fetched : \E l : r = Projection(l) BY DEF SPDXAdditionalOriginReferences
    <2> HIDE DEF fetched, Projection
    <2>3. QED BY <2>1, <2>2 DEF IsBomlyProjectedReference
  <1>4. \A w \in emitted : \E r \in k.references : w = Emitted(r) BY DEF SPDXEmittedReferences
  <1> HIDE DEF Category
  <1>5. \A r \in k.references : /\ DOMAIN Emitted(r) = ReferenceFields
                                /\ Emitted(r).type = r.type /\ Emitted(r).locator = r.locator
    BY DEF FairRefs, ReferenceFields
  <1> HIDE DEF advisories, fetched, emitted, Emitted
  <1>6. FairRefs(emitted, first) BY <1>4, <1>5 DEF FairRefs
  <1>7. QED BY <1>1, <1>2, <1>3, <1>6 DEF FairRefs

(* The homepage is one of the websites that were read. *)
LEMMA IngestedHomepage ==
    ASSUME NEW refs, NEW first, FairRefs(refs, first)
    PROVE  FairHomepage(CycloneDXIngestedHomepage(refs), first)
  <1> DEFINE sites == {r.locator : r \in {r \in refs : r.type = "website" /\ r.locator < BareToken}}
  <1>1. CycloneDXIngestedHomepage(refs) = IF sites = {} THEN 0 ELSE Min(sites)
    BY DEF CycloneDXIngestedHomepage
  <1>2. \A l \in sites : Fair(l, first) BY DEF FairRefs
  <1>3. sites \subseteq Nat BY <1>2 DEF Fair
  <1> HIDE DEF sites
  <1>4. ASSUME sites # {} PROVE Min(sites) \in sites
    <2>1. \E n \in sites : \A m \in sites : n <= m BY <1>3, <1>4, LeastNatural
    <2>2. QED BY <2>1 DEF Min
  <1>5. CASE sites = {}
    <2>1. FairHomepage(0, first) BY DEF FairHomepage
    <2>2. QED BY <1>1, <1>5, <2>1
  <1>6. CASE sites # {}
    <2> DEFINE h == Min(sites)
    <2>1. h \in sites BY <1>4, <1>6
    <2> HIDE DEF h
    <2>2. Fair(h, first) /\ h \in Nat BY <1>2, <1>3, <2>1
    <2>3. FairHomepage(h, first) BY <2>2 DEF FairHomepage
    <2>4. QED BY <1>1, <1>6, <2>3 DEF h
  <1>7. QED BY <1>5, <1>6

(* The invariant: nothing was fetched, or what is in hand, as a node, a record of
   the document, on paper or as it was read, has only fair addresses, but for
   what a reader drops. *)
FairNode(n, first) == FairRefs(n.references, first) /\ FairHomepage(Published(n.homepage), first)

FairComponent(k, first) == FairRefs(k.references, first) /\ FairHomepage(k.homepage, first)

FairOnPaper(format, w, first) ==
    IF format = SPDX
    THEN /\ FairRefs({r \in w.references : ~IsBomlyProjectedReference(r)}, first)
         /\ FairHomepage(w.homepage, first)
    ELSE FairRefs({r \in w.references : ~IsOriginDerivedReferenceType(r.type)}, first)

Unfetched == \A c \in Components : Fetched(FirstHeld(c)) = {}

CitesInv ==
    /\ IsTrail
    /\ step \in {"held", "projected"} => trail # << >>
    /\ trail = << >> \/ Unfetched \/
         \A c \in Components :
           /\ step = "held" => FairNode(held[c].node, FirstHeld(c))
           /\ step \in {"projected", "read"} => FairComponent(component[c], FirstHeld(c))
           /\ step = "written" => FairOnPaper(paper.format, paper.components[c], FirstHeld(c))

LEMMA CitesStart == Init => CitesInv
  <1> SUFFICES ASSUME Init PROVE CitesInv
    OBVIOUS
  <1>1. CASE trail = << >> /\ step \notin {"held", "projected"}
    <2>1. trail \in Seq({}) BY <1>1
    <2>2. QED BY <1>1, <2>1 DEF CitesInv, IsTrail
  <1>2. CASE step = "held" /\ held \in Holdings /\ trail = <<[format |-> 0, held |-> held]>>
    <2>1. trail \in Seq({[format |-> 0, held |-> held]}) /\ trail # << >> /\ trail[1].held = held
      BY <1>2
    <2>2. ASSUME NEW c \in Components PROVE FairNode(held[c].node, FirstHeld(c))
      <3> DEFINE n == held[c].node
      <3>1. FirstHeld(c) = held[c] BY <2>1 DEF FirstHeld
      <3>2. n.homepage \in Int /\ \A r \in n.references : DOMAIN r = ReferenceFields /\ r.locator \in Nat
        BY <1>2, HoldingsAssumption
      <3>3. Claimed(FirstHeld(c)) = {r.locator : r \in n.references} \cup {n.homepage} BY <3>1 DEF Claimed
      <3> HIDE DEF n
      <3>4. /\ \A r \in n.references : Fair(r.locator, FirstHeld(c))
            /\ n.homepage > 0 => Fair(n.homepage, FirstHeld(c))
        BY <3>2, <3>3 DEF Fair
      <3>5. FairHomepage(Published(n.homepage), FirstHeld(c))
        BY <3>2, <3>4 DEF FairHomepage, Published, IsPublishable
      <3>6. QED BY <3>2, <3>4, <3>5 DEF FairNode, FairRefs, n
    <2>3. QED BY <1>2, <2>1, <2>2 DEF CitesInv, IsTrail
  <1>3. QED BY <1>1, <1>2 DEF Init, ClaimsIdle, ClaimInit

LEMMA CitesUnmoved ==
    ASSUME CitesInv, UNCHANGED claimVars PROVE CitesInv'
  BY DEF claimVars, CitesInv, IsTrail, Unfetched, FirstHeld

LEMMA CitesProject ==
    ASSUME CitesInv, Project PROVE CitesInv'
  <1>1. /\ step = "held" /\ step' = "projected" /\ trail' = trail /\ trail # << >>
        /\ component' = [c \in Components |-> Projected(c, held[c])]
    BY DEF Project, CitesInv
  <1>2. IsTrail' /\ Unfetched' = Unfetched /\ \A c \in Components : FirstHeld(c)' = FirstHeld(c)
    BY <1>1 DEF CitesInv, IsTrail, Unfetched, FirstHeld
  <1>3. ASSUME ~Unfetched, NEW c \in Components PROVE FairComponent(component'[c], FirstHeld(c))
    <2> DEFINE n == held[c].node
               k == component'[c]
    <2>1. FairNode(n, FirstHeld(c)) BY <1>1, <1>3 DEF CitesInv
    <2>2. k.references = MergeExternalReferences(n.references) /\ k.homepage = Published(n.homepage)
      BY <1>1 DEF Projected
    <2> HIDE DEF n, k
    <2>3. QED BY <2>1, <2>2, MergedRefsAreFair DEF FairNode, FairComponent, k
  <1>4. QED BY <1>1, <1>2, <1>3 DEF CitesInv

LEMMA CitesWrite ==
    ASSUME CitesInv, NEW format \in Formats, Write(format) PROVE CitesInv'
  <1>1. /\ step = "projected" /\ step' = "written" /\ trail' = trail /\ trail # << >>
        /\ paper' = IF format = SPDX THEN EncodeSPDXClaims(component) ELSE EncodeCycloneDXClaims(component, format)
    BY DEF Write, CitesInv
  <1>2. IsTrail' /\ Unfetched' = Unfetched /\ \A c \in Components : FirstHeld(c)' = FirstHeld(c)
    BY <1>1 DEF CitesInv, IsTrail, Unfetched, FirstHeld
  <1>3. paper'.format = format
    BY <1>1 DEF EncodeSPDXClaims, EncodeCycloneDXClaims
  <1>4. ASSUME ~Unfetched, NEW c \in Components
        PROVE  FairOnPaper(paper'.format, paper'.components[c], FirstHeld(c))
    <2> DEFINE k == component[c]
               w == paper'.components[c]
    <2>1. FairRefs(k.references, FirstHeld(c)) /\ FairHomepage(k.homepage, FirstHeld(c))
      BY <1>1, <1>4 DEF CitesInv, FairComponent
    <2>2. CASE format = SPDX
      <3>1. w = SPDXPackage(k) BY <1>1, <2>2 DEF EncodeSPDXClaims
      <3>2. w.homepage = Published(k.homepage) BY <3>1 DEF SPDXPackage
      <3> HIDE DEF k, w
      <3>3. FairRefs({r \in w.references : ~IsBomlyProjectedReference(r)}, FirstHeld(c))
        BY <2>1, <3>1, SPDXRefsAreFair
      <3>4. FairHomepage(w.homepage, FirstHeld(c)) BY <2>1, <3>2, PublishedHomepage
      <3>5. QED BY <1>3, <2>2, <3>3, <3>4 DEF FairOnPaper, w
    <2>3. CASE format # SPDX
      <3>1. w = CycloneDXComponent(k, format) BY <1>1, <2>3 DEF EncodeCycloneDXClaims
      <3> HIDE DEF k, w
      <3>2. FairRefs({r \in w.references : ~IsOriginDerivedReferenceType(r.type)}, FirstHeld(c))
        BY <2>1, <3>1, CycloneDXRefsAreFair
      <3>3. QED BY <1>3, <2>3, <3>2 DEF FairOnPaper, w
    <2>4. QED BY <2>2, <2>3
  <1>5. QED BY <1>1, <1>2, <1>4 DEF CitesInv

LEMMA CitesRead ==
    ASSUME CitesInv, Read PROVE CitesInv'
  <1>1. /\ step = "written" /\ step' = "read" /\ trail' = trail /\ paper' = paper
        /\ component' = [c \in Components |->
             IF paper.format = SPDX THEN DecodeSPDXPackage(paper.components[c], paper.extracted)
             ELSE DecodeCycloneDXComponent(c, paper)]
    BY DEF Read
  <1>2. IsTrail' /\ Unfetched' = Unfetched /\ \A c \in Components : FirstHeld(c)' = FirstHeld(c)
    BY <1>1 DEF CitesInv, IsTrail, Unfetched, FirstHeld
  <1>3. ASSUME trail # << >>, ~Unfetched, NEW c \in Components PROVE FairComponent(component'[c], FirstHeld(c))
    <2> DEFINE w == paper.components[c]
               k == component'[c]
    <2>1. FairOnPaper(paper.format, w, FirstHeld(c)) BY <1>1, <1>3 DEF CitesInv
    <2>2. CASE paper.format = SPDX
      <3> DEFINE kept == {r \in w.references : ~IsBomlyProjectedReference(r) /\ r.category # ""}
      <3>1. k.references = MergeExternalReferences(kept) /\ k.homepage = Published(w.homepage)
        BY <1>1, <2>2 DEF DecodeSPDXPackage, SPDXIngestedReferences
      <3> HIDE DEF k, w
      <3>2. FairRefs(kept, FirstHeld(c)) /\ FairHomepage(w.homepage, FirstHeld(c))
        BY <2>1, <2>2 DEF FairOnPaper, FairRefs
      <3> HIDE DEF kept
      <3>3. QED BY <3>1, <3>2, MergedRefsAreFair, PublishedHomepage DEF FairComponent, k
    <2>3. CASE paper.format # SPDX
      <3> DEFINE kept == {r \in w.references : ~IsOriginDerivedReferenceType(r.type)}
                 refs == CycloneDXIngestedReferences(w.references)
      <3>1. k.references = refs /\ k.homepage = CycloneDXIngestedHomepage(refs)
        BY <1>1, <2>3 DEF DecodeCycloneDXComponent
      <3>2. refs = MergeExternalReferences(kept) BY DEF CycloneDXIngestedReferences
      <3>3. FairRefs(kept, FirstHeld(c)) BY <2>1, <2>3 DEF FairOnPaper
      <3> HIDE DEF k, w, kept, refs
      <3>4. FairRefs(refs, FirstHeld(c)) BY <3>2, <3>3, MergedRefsAreFair
      <3>5. QED BY <3>1, <3>4, IngestedHomepage DEF FairComponent, k
    <2>4. QED BY <2>2, <2>3
  <1>4. QED BY <1>1, <1>2, <1>3 DEF CitesInv

LEMMA CitesIngest ==
    ASSUME CitesInv, Ingest PROVE CitesInv'
  <1> DEFINE e == [format |-> paper.format, held |-> held']
  <1>1. /\ step = "read" /\ step' = "held" /\ trail' = Append(trail, e)
        /\ held' = [c \in Components |-> [node |-> IngestedNode(component[c]), package |-> IngestedPackage(component[c])]]
    BY DEF Ingest
  <1>2. e.held = held' /\ IsTrail BY DEF CitesInv
  <1> HIDE DEF e
  <1>3. /\ IsTrail' /\ trail' # << >>
        /\ trail # << >> => trail'[1] = trail[1]
        /\ trail = << >> => trail'[1] = e
    BY <1>1, <1>2, TrailGrows
  <1>4. CASE trail = << >>
    <2>1. ASSUME NEW c \in Components PROVE Fetched(FirstHeld(c))' = {}
      <3> DEFINE n == IngestedNode(component[c])
                 p == IngestedPackage(component[c])
      <3>1. n.origins = << >> BY DEF IngestedNode
      <3>2. p.scorecard = 0 BY DEF IngestedPackage, NoPackage
      <3> HIDE DEF n, p
      <3>3. FirstHeld(c)' = [node |-> n, package |-> p] BY <1>1, <1>2, <1>3, <1>4 DEF FirstHeld, n, p
      <3>4. FirstHeld(c)'.node.origins = << >> /\ FirstHeld(c)'.package.scorecard = 0 BY <3>1, <3>2, <3>3
      <3>5. Addresses(<< >>) = {} BY DEF Addresses, Range
      <3>6. QED BY <3>4, <3>5 DEF Fetched
    <2>2. Unfetched' BY <2>1 DEF Unfetched
    <2>3. QED BY <1>1, <1>3, <2>2 DEF CitesInv
  <1>5. CASE trail # << >>
    <2>1. Unfetched' = Unfetched /\ \A c \in Components : FirstHeld(c)' = FirstHeld(c)
      BY <1>3, <1>5 DEF Unfetched, FirstHeld
    <2>2. ASSUME ~Unfetched, NEW c \in Components PROVE FairNode(held'[c].node, FirstHeld(c))
      <3> DEFINE k == component[c]
                 n == held'[c].node
      <3>1. FairComponent(k, FirstHeld(c)) BY <1>1, <1>5, <2>2 DEF CitesInv
      <3>2. n.references = MergeExternalReferences(k.references) /\ n.homepage = Published(k.homepage)
        BY <1>1 DEF IngestedNode
      <3> HIDE DEF n, k
      <3>3. QED BY <3>1, <3>2, MergedRefsAreFair, PublishedHomepage DEF FairNode, FairComponent, n
    <2>3. QED BY <1>1, <1>3, <2>1, <2>2 DEF CitesInv
  <1>6. QED BY <1>4, <1>5

(* Through any number of exports and readings, in any formats, no address a
   component was fetched from comes back as a reference somebody made, unless
   somebody did (isOriginDerivedReferenceType, sbom/cyclonedx_assertions.go;
   isBomlyProjectedReference, sbom/spdx23_assertions.go). *)
THEOREM OriginsAreNeverClaimed == Spec => []OriginsAreNotClaimed
  <1>1. Init => CitesInv BY CitesStart
  <1>2. CitesInv /\ [Next]_vars => CitesInv'
    <2> SUFFICES ASSUME CitesInv, [Next]_vars PROVE CitesInv'
      OBVIOUS
    <2>1. CASE UNCHANGED claimVars BY <2>1, CitesUnmoved
    <2>2. CASE ClaimNext
      <3>1. CASE Project BY <3>1, CitesProject
      <3>2. ASSUME NEW f \in Formats, Write(f) PROVE CitesInv' BY <3>2, CitesWrite
      <3>3. CASE Read BY <3>3, CitesRead
      <3>4. CASE Ingest BY <3>4, CitesIngest
      <3>5. QED BY <2>2, <3>1, <3>2, <3>3, <3>4 DEF ClaimNext
    <2>3. QED BY <2>1, <2>2 DEF Next, vars
  <1>3. CitesInv => OriginsAreNotClaimed
    <2> SUFFICES ASSUME CitesInv, step = "held", NEW c \in Components
                 PROVE  Cited(held[c]) \cap Fetched(FirstHeld(c)) \subseteq Claimed(FirstHeld(c))
      BY DEF OriginsAreNotClaimed
    <2>1. CASE Unfetched BY <2>1 DEF Unfetched
    <2>2. CASE ~Unfetched
      <3>1. FairRefs(held[c].node.references, FirstHeld(c)) BY <2>2 DEF CitesInv, FairNode
      <3>2. QED BY <3>1 DEF FairRefs, Fair, Cited
    <2>3. QED BY <2>1, <2>2
  <1>4. QED BY <1>1, <1>2, <1>3, PTL DEF Spec
-----------------------------------------------------------------------------
(* The sections of a record. *)

(* What a record lists of the entries of the scans, and what is written of it. *)
ScannedEntries == UNION {Range(pair[i].entries) : pair \in ScanPairs, i \in 1 .. 2}

Listed(e) == [path |-> e.path, subproject |-> e.subproject, dependencies |-> DependenciesOf(e.graph)]

ManifestRecords == {Gated(Listed(e)) : e \in ScannedEntries}

(* A gate leaves the key of a manifest. *)
LEMMA GatedManifest ==
    ASSUME NEW e
    PROVE  /\ Gated(Listed(e)).path = e.path /\ Gated(Listed(e)).subproject = e.subproject
           /\ Gated(Listed(e)).dependencies = {NormalizedDependency(d) : d \in DependenciesOf(e.graph)}
  BY DEF Gated, Listed

LEMMA ManifestsAreKeyed ==
    \A m \in ManifestRecords : m.path \in Int /\ m.subproject \in Int
  <1> SUFFICES ASSUME NEW e \in ScannedEntries
               PROVE  Gated(Listed(e)).path \in Int /\ Gated(Listed(e)).subproject \in Int
    BY DEF ManifestRecords
  <1>1. e.path \in Int /\ e.subproject \in Int BY ScanAssumption DEF ScannedEntries
  <1>2. QED BY <1>1, GatedManifest

SameKey(m, k) == m.path = k.path /\ m.subproject = k.subproject

(* In order, and no two of them of one key. *)
InOrder(list) == \A i, j \in DOMAIN list : i < j => ManifestBefore(list[i], list[j])

DistinctKeys(list) == \A i, j \in DOMAIN list : SameKey(list[i], list[j]) => i = j

LEMMA ManifestBeforeIsAnOrder ==
    ASSUME NEW a \in ManifestRecords, NEW b \in ManifestRecords, NEW c \in ManifestRecords
    PROVE  /\ ~ManifestBefore(a, a)
           /\ ManifestBefore(a, b) => ~ManifestBefore(b, a)
           /\ ManifestBefore(a, b) /\ ManifestBefore(b, c) => ManifestBefore(a, c)
           /\ ManifestBefore(a, b) \/ ManifestBefore(b, a) \/ SameKey(a, b)
  BY ManifestsAreKeyed DEF ManifestBefore, SameKey

(* u is list with m put in front of what was at the index. *)
PutAt(u, list, m, at) ==
    /\ Len(u) = Len(list) + 1
    /\ \A i \in 1 .. at - 1 : u[i] = list[i]
    /\ u[at] = m
    /\ \A i \in at .. Len(list) : u[i + 1] = list[i]

(* One insertion: behind what is not later, in front of what is. *)
LEMMA InsertManifestPuts ==
    ASSUME NEW list \in Seq(ManifestRecords), NEW m \in ManifestRecords
    PROVE  /\ InsertManifest(list, m) \in Seq(ManifestRecords)
           /\ \E at \in 1 .. Len(list) + 1 :
                /\ PutAt(InsertManifest(list, m), list, m, at)
                /\ \A i \in 1 .. at - 1 : ~ManifestBefore(m, list[i])
                /\ at <= Len(list) => ManifestBefore(m, list[at])
  <1> DEFINE n == Len(list)
             later == {i \in DOMAIN list : ManifestBefore(m, list[i])}
             at == IF later = {} THEN n + 1 ELSE Min(later)
             before == SubSeq(list, 1, at - 1)
             one == <<m>>
             after == SubSeq(list, at, n)
  <1>n. n \in Nat /\ DOMAIN list = 1 .. n /\ \A i \in 1 .. n : list[i] \in ManifestRecords OBVIOUS
  <1>1. /\ at \in 1 .. n + 1
        /\ \A i \in 1 .. at - 1 : ~ManifestBefore(m, list[i])
        /\ at <= n => ManifestBefore(m, list[at])
    <2>1. CASE later = {}
      <3>1. at = n + 1 BY <2>1
      <3>2. \A i \in 1 .. n : ~ManifestBefore(m, list[i]) BY <2>1, <1>n
      <3> HIDE DEF at, later
      <3>3. QED BY <3>1, <3>2, <1>n
    <2>2. CASE later # {}
      <3>1. later \subseteq 1 .. n /\ later \subseteq Nat BY <1>n
      <3>2. \A i \in 1 .. n : i \in later <=> ManifestBefore(m, list[i]) BY <1>n
      <3>3. at = Min(later) BY <2>2
      <3> HIDE DEF later
      <3>4. Min(later) \in later /\ \A i \in later : Min(later) <= i BY <2>2, <3>1, MinOfNaturals
      <3> HIDE DEF at
      <3>5. at \in 1 .. n /\ ManifestBefore(m, list[at]) BY <3>1, <3>2, <3>3, <3>4
      <3>6. ASSUME NEW i \in 1 .. at - 1 PROVE ~ManifestBefore(m, list[i])
        <4>1. i \in 1 .. n /\ ~(at <= i) BY <3>5, <1>n
        <4>2. i \notin later BY <4>1, <3>3, <3>4
        <4>3. QED BY <4>1, <4>2, <3>2
      <3>7. QED BY <3>5, <3>6, <1>n
    <2>3. QED BY <2>1, <2>2
  <1>2. InsertManifest(list, m) = before \o one \o after
    BY DEF InsertManifest, InsertAt
  <1> HIDE DEF at, later
  <1>3. /\ before \in Seq(ManifestRecords) /\ Len(before) = at - 1 /\ DOMAIN before = 1 .. at - 1
        /\ \A i \in 1 .. at - 1 : before[i] = list[i]
    BY <1>1, <1>n
  <1>4. /\ after \in Seq(ManifestRecords) /\ Len(after) = n - at + 1 /\ DOMAIN after = 1 .. n - at + 1
        /\ \A i \in 1 .. n - at + 1 : after[i] = list[at + i - 1]
    BY <1>1, <1>n
  <1>5. one \in Seq(ManifestRecords) /\ Len(one) = 1 /\ one[1] = m OBVIOUS
  <1> HIDE DEF before, after, one
  <1> DEFINE head == before \o one
             u == head \o after
  <1>6. /\ head \in Seq(ManifestRecords) /\ Len(head) = at
        /\ \A i \in 1 .. at - 1 : head[i] = before[i]
        /\ head[at] = m
    <2>1. /\ head \in Seq(ManifestRecords) /\ Len(head) = Len(before) + Len(one)
          /\ \A i \in 1 .. Len(before) : head[i] = before[i]
          /\ \A i \in 1 .. Len(one) : head[Len(before) + i] = one[i]
      <3>1. before \in Seq(ManifestRecords) /\ one \in Seq(ManifestRecords) BY <1>3, <1>5
      <3>2. QED BY <3>1
    <2> HIDE DEF head
    <2>2. 1 \in 1 .. Len(one) /\ Len(before) + 1 = at /\ Len(before) + Len(one) = at
      BY <1>1, <1>n, <1>3, <1>5
    <2>3. head[at] = m BY <2>1, <2>2, <1>5
    <2>4. QED BY <2>1, <2>2, <2>3, <1>3
  <1> HIDE DEF head
  <1>7. /\ u \in Seq(ManifestRecords) /\ Len(u) = n + 1
        /\ \A i \in 1 .. at : u[i] = head[i]
        /\ \A i \in 1 .. n - at + 1 : u[at + i] = after[i]
    <2>1. /\ u \in Seq(ManifestRecords) /\ Len(u) = Len(head) + Len(after)
          /\ \A i \in 1 .. Len(head) : u[i] = head[i]
          /\ \A i \in 1 .. Len(after) : u[Len(head) + i] = after[i]
      <3>1. head \in Seq(ManifestRecords) /\ after \in Seq(ManifestRecords) BY <1>4, <1>6
      <3>2. QED BY <3>1
    <2> HIDE DEF u
    <2>2. Len(head) + Len(after) = n + 1 BY <1>1, <1>n, <1>4, <1>6
    <2>3. QED BY <2>1, <2>2, <1>4, <1>6
  <1> HIDE DEF u
  <1>8. ASSUME NEW i \in at .. n PROVE u[i + 1] = list[i]
    <2>1. i - at + 1 \in 1 .. n - at + 1 /\ at + (i - at + 1) = i + 1 /\ at + (i - at + 1) - 1 = i
      BY <1>1, <1>n
    <2>2. u[at + (i - at + 1)] = after[i - at + 1] BY <2>1, <1>7
    <2>3. after[i - at + 1] = list[at + (i - at + 1) - 1] BY <2>1, <1>4
    <2>4. QED BY <2>1, <2>2, <2>3
  <1>9. ASSUME NEW i \in 1 .. at - 1 PROVE u[i] = list[i]
    <2>1. i \in 1 .. at BY <1>1, <1>n
    <2>2. QED BY <2>1, <1>3, <1>6, <1>7
  <1>10. u[at] = m BY <1>1, <1>6, <1>7
  <1>11. PutAt(u, list, m, at) BY <1>7, <1>8, <1>9, <1>10 DEF PutAt
  <1>12. InsertManifest(list, m) = u BY <1>2 DEF u, head
  <1>13. QED BY <1>1, <1>7, <1>11, <1>12

(* What an insertion keeps. *)
LEMMA InsertManifestKeeps ==
    ASSUME NEW list \in Seq(ManifestRecords), NEW m \in ManifestRecords
    PROVE  /\ InsertManifest(list, m) \in Seq(ManifestRecords)
           /\ Len(InsertManifest(list, m)) = Len(list) + 1
           /\ Range(InsertManifest(list, m)) = Range(list) \cup {m}
           /\ InOrder(list) /\ (\A k \in Range(list) : ~SameKey(k, m)) => InOrder(InsertManifest(list, m))
  <1> DEFINE n == Len(list)
             u == InsertManifest(list, m)
  <1>1. u \in Seq(ManifestRecords) BY InsertManifestPuts
  <1>2. PICK at \in 1 .. n + 1 :
          /\ PutAt(u, list, m, at)
          /\ \A i \in 1 .. at - 1 : ~ManifestBefore(m, list[i])
          /\ at <= n => ManifestBefore(m, list[at])
    BY InsertManifestPuts
  <1> HIDE DEF u
  <1>n. n \in Nat /\ DOMAIN list = 1 .. n /\ (\A i \in 1 .. n : list[i] \in ManifestRecords) /\ at \in Int OBVIOUS
  <1>3. /\ Len(u) = n + 1 /\ DOMAIN u = 1 .. n + 1
        /\ \A i \in 1 .. at - 1 : u[i] = list[i]
        /\ u[at] = m
        /\ \A i \in at .. n : u[i + 1] = list[i]
    BY <1>1, <1>2 DEF PutAt
  <1> HIDE DEF n
  <1>4. \A i \in 1 .. n + 1 : i \in 1 .. at - 1 \/ i = at \/ (i - 1 \in at .. n /\ i = (i - 1) + 1)
    BY <1>n
  <1>5. \A i \in 1 .. n : i \in 1 .. at - 1 \/ i \in at .. n BY <1>n
  <1>6. (\A i \in 1 .. at - 1 : i \in 1 .. n /\ i \in 1 .. n + 1) /\ \A i \in at .. n : i \in 1 .. n /\ i + 1 \in 1 .. n + 1
    BY <1>n
  <1>7. Range(u) = Range(list) \cup {m}
    <2>1. ASSUME NEW i \in 1 .. n + 1 PROVE u[i] \in Range(list) \cup {m}
      <3>1. CASE i \in 1 .. at - 1 BY <3>1, <1>3, <1>6, <1>n DEF Range
      <3>2. CASE i = at BY <3>2, <1>3
      <3>3. CASE i - 1 \in at .. n /\ i = (i - 1) + 1
        <4>1. u[i] = list[i - 1] BY <3>3, <1>3
        <4>2. i - 1 \in 1 .. n BY <3>3, <1>6
        <4>3. QED BY <4>1, <4>2, <1>n DEF Range
      <3>4. QED BY <3>1, <3>2, <3>3, <1>4
    <2>2. ASSUME NEW i \in 1 .. n PROVE list[i] \in Range(u)
      <3>1. CASE i \in 1 .. at - 1 BY <3>1, <1>3, <1>6 DEF Range
      <3>2. CASE i \in at .. n
        <4>1. u[i + 1] = list[i] /\ i + 1 \in 1 .. n + 1 BY <3>2, <1>3, <1>6
        <4>2. QED BY <4>1, <1>3 DEF Range
      <3>3. QED BY <3>1, <3>2, <1>5
    <2>3. m \in Range(u) BY <1>3 DEF Range
    <2>4. Range(u) \subseteq Range(list) \cup {m} BY <2>1, <1>3 DEF Range
    <2>5. Range(list) \subseteq Range(u) BY <2>2, <1>n DEF Range
    <2>6. QED BY <2>3, <2>4, <2>5
  <1>8. ASSUME InOrder(list), \A k \in Range(list) : ~SameKey(k, m)
        PROVE  InOrder(u)
    <2>1. \A i, j \in 1 .. n : i < j => ManifestBefore(list[i], list[j]) BY <1>8, <1>n DEF InOrder
    <2>2. \A i \in 1 .. n : ~SameKey(list[i], m) BY <1>8, <1>n DEF Range
    <2>3. ASSUME NEW i \in 1 .. at - 1 PROVE ManifestBefore(list[i], m)
      <3>1. i \in 1 .. n /\ list[i] \in ManifestRecords BY <1>6, <1>n
      <3>2. ~ManifestBefore(m, list[i]) /\ ~SameKey(list[i], m) BY <3>1, <2>2, <1>2
      <3>3. QED BY <3>1, <3>2, ManifestBeforeIsAnOrder
    <2>4. ASSUME NEW i \in at .. n PROVE ManifestBefore(m, list[i])
      <3>1. i \in 1 .. n /\ at \in 1 .. n BY <1>n
      <3>2. ManifestBefore(m, list[at]) BY <3>1, <1>2 DEF n
      <3>3. list[i] \in ManifestRecords /\ list[at] \in ManifestRecords BY <3>1, <1>n
      <3>4. CASE i = at BY <3>2, <3>4
      <3>5. CASE i # at
        <4>1. at < i BY <3>1, <3>5
        <4>2. ManifestBefore(list[at], list[i]) BY <4>1, <3>1, <2>1
        <4>3. QED BY <4>2, <3>2, <3>3, ManifestBeforeIsAnOrder
      <3>6. QED BY <3>4, <3>5
    <2>5. ASSUME NEW i \in 1 .. n + 1, NEW j \in 1 .. n + 1, i < j
          PROVE  ManifestBefore(u[i], u[j])
      <3>1. CASE i \in 1 .. at - 1
        <4>1. u[i] = list[i] /\ i \in 1 .. n BY <3>1, <1>3, <1>6
        <4>2. CASE j \in 1 .. at - 1
          <5>1. u[j] = list[j] /\ j \in 1 .. n BY <4>2, <1>3, <1>6
          <5>2. QED BY <4>1, <5>1, <2>1, <2>5
        <4>3. CASE j = at BY <4>1, <4>3, <3>1, <2>3, <1>3
        <4>4. CASE j - 1 \in at .. n /\ j = (j - 1) + 1
          <5>1. u[j] = list[j - 1] /\ j - 1 \in 1 .. n BY <4>4, <1>3, <1>6
          <5>2. i < j - 1 BY <3>1, <4>4, <1>n
          <5>3. QED BY <4>1, <5>1, <5>2, <2>1
        <4>5. QED BY <4>2, <4>3, <4>4, <1>4
      <3>2. CASE i = at
        <4>1. j - 1 \in at .. n /\ j = (j - 1) + 1 BY <3>2, <2>5, <1>n
        <4>2. u[j] = list[j - 1] BY <4>1, <1>3
        <4>3. ManifestBefore(m, list[j - 1]) BY <4>1, <2>4
        <4>4. QED BY <3>2, <4>2, <4>3, <1>3
      <3>3. CASE i - 1 \in at .. n /\ i = (i - 1) + 1
        <4>1. u[i] = list[i - 1] /\ i - 1 \in 1 .. n BY <3>3, <1>3, <1>6
        <4>2. j - 1 \in at .. n /\ j = (j - 1) + 1 BY <3>3, <2>5, <1>n
        <4>3. u[j] = list[j - 1] /\ j - 1 \in 1 .. n BY <4>2, <1>3, <1>6
        <4>4. i - 1 < j - 1 BY <2>5
        <4>5. QED BY <4>1, <4>3, <4>4, <2>1
      <3>4. QED BY <3>1, <3>2, <3>3, <1>4
    <2>6. QED BY <2>5, <1>3 DEF InOrder
  <1>9. QED BY <1>1, <1>3, <1>7, <1>8 DEF u, n

(* What inserting the manifests of a list one by one makes, by induction along
   it. *)
LEMMA InsertManifestInduction ==
    ASSUME NEW T, NEW list \in T, NEW incoming \in Seq(ManifestRecords),
           \A t \in T, m \in ManifestRecords : InsertManifest(t, m) \in T,
           NEW Along, <<0, list>> \in Along,
           \A k \in 1 .. Len(incoming), t \in T :
              <<k - 1, t>> \in Along => <<k, InsertManifest(t, incoming[k])>> \in Along
    PROVE  /\ FoldLeft(InsertManifest, list, incoming) \in T
           /\ <<Len(incoming), FoldLeft(InsertManifest, list, incoming)>> \in Along
  <1> DEFINE n == Len(incoming)
             walk == [p \in (1 .. n) \X T |-> InsertManifest(p[2], incoming[p[1]])]
             Fold(g) == [s \in SUBSET (1 .. n) |->
                           IF s = {} THEN list
                           ELSE InsertManifest(g[s \ {Max(s)}], incoming[Max(s)])]
             f == CHOOSE g : g = Fold(g)
  <1>n. n \in Nat /\ DOMAIN incoming = 1 .. n /\ \A k \in 1 .. n : incoming[k] \in ManifestRecords
    OBVIOUS
  <1>1. walk \in [(1 .. n) \X T -> T]
    BY <1>n
  <1>2. PICK g \in [SUBSET (1 .. n) -> T] : IsFold(g, n, list, walk)
    <2> HIDE DEF walk, n
    <2> QED BY <1>n, <1>1, FoldFunctionExists
  <1>3. g = Fold(g)
    <2>1. ASSUME NEW s \in SUBSET (1 .. n), s # {}
          PROVE  g[s] = InsertManifest(g[s \ {Max(s)}], incoming[Max(s)])
      <3>1. Max(s) \in 1 .. n BY <2>1, <1>n, MaxUpTo
      <3>2. g[s \ {Max(s)}] \in T BY <1>2
      <3>3. QED BY <3>1, <3>2, <1>2, <2>1 DEF IsFold
    <2>2. QED BY <2>1, <1>2 DEF IsFold
  <1>4. f = Fold(f)
    <2> HIDE DEF Fold
    <2> QED BY <1>3
  <1>5. FoldLeft(InsertManifest, list, incoming) = f[1 .. n]
    BY <1>n DEF FoldLeft, MapThenFoldSet
  <1> HIDE DEF f
  <1>6. f[{}] = list BY <1>4
  <1>7. \A k \in 1 .. n : f[1 .. k] = InsertManifest(f[1 .. k - 1], incoming[k])
    <2> TAKE k \in 1 .. n
    <2>1. /\ 1 .. k \in SUBSET (1 .. n) /\ 1 .. k # {} /\ Max(1 .. k) = k
          /\ (1 .. k) \ {k} = 1 .. k - 1
      BY <1>n, FirstIndices
    <2>2. QED BY <2>1, <1>4
  <1>8. \A k \in 1 .. n : f[1 .. k] = IF f[1 .. k - 1] \in T THEN walk[<<k, f[1 .. k - 1]>>]
                                      ELSE f[1 .. k]
    BY <1>7
  <1>9. \A k \in 1 .. n, t \in T : <<k - 1, t>> \in Along => <<k, walk[<<k, t>>]>> \in Along
    OBVIOUS
  <1>10. f[1 .. n] \in T /\ <<n, f[1 .. n]>> \in Along
    <2> HIDE DEF walk, n
    <2> QED BY <1>n, <1>1, <1>6, <1>8, <1>9, FoldInduction
  <1>11. QED BY <1>5, <1>10
(* Sorting the manifests of a record keeps them and, when no two have one key,
   puts them in order. *)
LEMMA ManifestsAreSorted ==
    ASSUME NEW none \in Seq(ManifestRecords), Len(none) = 0, NEW incoming \in Seq(ManifestRecords)
    PROVE  LET sorted == FoldLeft(InsertManifest, none, incoming)
           IN /\ sorted \in Seq(ManifestRecords) /\ Len(sorted) = Len(incoming) /\ Range(sorted) = Range(incoming)
              /\ DistinctKeys(incoming) => InOrder(sorted)
  <1> DEFINE T == Seq(ManifestRecords)
             n == Len(incoming)
             First(k) == {incoming[i] : i \in 1 .. k}
             Sorted(k, t) == /\ Len(t) = k /\ Range(t) = First(k)
                             /\ DistinctKeys(incoming) => InOrder(t)
             Along == {p \in Nat \X T : Sorted(p[1], p[2])}
  <1>n. n \in Nat /\ DOMAIN incoming = 1 .. n /\ \A k \in 1 .. n : incoming[k] \in ManifestRecords
    OBVIOUS
  <1>1. <<0, none>> \in Along
    <2>1. Range(none) = {} /\ First(0) = {} BY DEF Range
    <2>2. InOrder(none) BY DEF InOrder
    <2>3. Len(none) = 0 /\ Range(none) = First(0) BY <2>1
    <2>4. Sorted(0, none) BY <2>2, <2>3, Zenon
    <2>5. none \in T OBVIOUS
    <2> HIDE DEF Sorted, T
    <2>6. QED BY <2>4, <2>5
  <1>2. ASSUME NEW k \in 1 .. n, NEW t \in T, <<k - 1, t>> \in Along
        PROVE  <<k, InsertManifest(t, incoming[k])>> \in Along
    <2> DEFINE m == incoming[k]
               u == InsertManifest(t, m)
    <2>1. m \in ManifestRecords BY <1>n
    <2>2. Len(t) = k - 1 /\ Range(t) = First(k - 1) /\ (DistinctKeys(incoming) => InOrder(t)) BY <1>2
    <2>3. First(k) = First(k - 1) \cup {m}
      <3>1. \A i \in 1 .. k : i \in 1 .. k - 1 \/ i = k OBVIOUS
      <3>2. 1 .. k - 1 \subseteq 1 .. k /\ k \in 1 .. k OBVIOUS
      <3>3. QED BY <3>1, <3>2
    <2>4. ASSUME DistinctKeys(incoming), NEW x \in First(k - 1) PROVE ~SameKey(x, m)
      <3>1. PICK i \in 1 .. k - 1 : x = incoming[i] BY <2>4
      <3>2. i \in 1 .. n /\ i # k BY <1>n, <3>1
      <3>3. QED BY <2>4, <3>1, <3>2, <1>n DEF DistinctKeys
    <2> HIDE DEF First, m, u
    <2>5. /\ u \in Seq(ManifestRecords) /\ Len(u) = Len(t) + 1 /\ Range(u) = Range(t) \cup {m}
          /\ InOrder(t) /\ (\A x \in Range(t) : ~SameKey(x, m)) => InOrder(u)
      <3>1. t \in Seq(ManifestRecords) OBVIOUS
      <3>2. /\ InsertManifest(t, m) \in Seq(ManifestRecords)
            /\ Len(InsertManifest(t, m)) = Len(t) + 1
            /\ Range(InsertManifest(t, m)) = Range(t) \cup {m}
            /\ InOrder(t) /\ (\A k1 \in Range(t) : ~SameKey(k1, m)) => InOrder(InsertManifest(t, m))
        BY <2>1, <3>1, InsertManifestKeeps
      <3>3. QED BY <3>2 DEF u
    <2>6. Len(u) = k /\ k \in Nat BY <2>2, <2>5, <1>n
    <2>7. Range(u) = First(k) BY <2>2, <2>3, <2>5
    <2>8. DistinctKeys(incoming) => InOrder(u) BY <2>2, <2>4, <2>5
    <2>9. Sorted(k, u) BY <2>6, <2>7, <2>8
    <2> HIDE DEF Sorted
    <2>10. <<k, u>> \in Along BY <2>5, <2>6, <2>9
    <2>11. QED BY <2>10 DEF u, m
  <1>3. \A t \in T, m \in ManifestRecords : InsertManifest(t, m) \in T BY InsertManifestPuts
  <1> DEFINE sorted == FoldLeft(InsertManifest, none, incoming)
  <1>4. sorted \in T /\ <<n, sorted>> \in Along
    <2>1. none \in T OBVIOUS
    <2> HIDE DEF T, Along
    <2>2. incoming \in Seq(ManifestRecords) OBVIOUS
    <2>3. \A k \in 1 .. Len(incoming), t \in T :
             <<k - 1, t>> \in Along => <<k, InsertManifest(t, incoming[k])>> \in Along
      BY <1>2
    <2>4. QED BY <1>1, <1>3, <2>1, <2>2, <2>3, InsertManifestInduction
  <1> HIDE DEF sorted
  <1>5. Sorted(n, sorted) BY <1>4
  <1>6. First(n) = Range(incoming) BY <1>n DEF Range
  <1>7. QED BY <1>4, <1>5, <1>6 DEF sorted

(* Of two lists in order with the same elements, each begins as the other. *)
LEMMA OrderedListsBeginAlike ==
    ASSUME NEW s \in Seq(ManifestRecords), NEW t \in Seq(ManifestRecords), InOrder(s), InOrder(t), Range(s) = Range(t)
    PROVE  \A k \in 1 .. Len(s) : k <= Len(t) /\ s[k] = t[k]
  <1> DEFINE n == Len(s)
             q == Len(t)
             Alike(k) == k <= n => k <= q /\ \A i \in 1 .. k : s[i] = t[i]
             A == {k \in Nat : Alike(k)}
  <1>n. /\ n \in Nat /\ DOMAIN s = 1 .. n /\ (\A i \in 1 .. n : s[i] \in ManifestRecords)
        /\ q \in Nat /\ DOMAIN t = 1 .. q /\ (\A i \in 1 .. q : t[i] \in ManifestRecords)
    OBVIOUS
  <1>1. 0 \in A BY <1>n
  <1>2. ASSUME NEW k \in Nat, k \in A PROVE k + 1 \in A
    <2> SUFFICES ASSUME k + 1 <= n PROVE k + 1 <= q /\ \A i \in 1 .. k + 1 : s[i] = t[i]
      OBVIOUS
    <2>1. k <= q /\ \A i \in 1 .. k : s[i] = t[i] BY <1>2, <1>n
    <2> HIDE DEF n, q
    <2>2. \A i, j \in 1 .. n : i < j => ManifestBefore(s[i], s[j]) BY <1>n DEF InOrder
    <2>3. \A i, j \in 1 .. q : i < j => ManifestBefore(t[i], t[j]) BY <1>n DEF InOrder
    <2>4. k + 1 \in 1 .. n /\ s[k + 1] \in ManifestRecords BY <1>n
    <2>5. PICK j \in 1 .. q : t[j] = s[k + 1]
      <3>1. s[k + 1] \in Range(s) BY <2>4, <1>n DEF Range
      <3>2. s[k + 1] \in Range(t) BY <3>1
      <3>3. QED BY <3>2, <1>n DEF Range
    <2>6. ~(j <= k)
      <3> SUFFICES ASSUME j <= k PROVE FALSE
        OBVIOUS
      <3>1. j \in 1 .. k /\ j \in 1 .. n /\ j < k + 1 BY <2>4, <1>n
      <3>2. s[j] = s[k + 1] BY <3>1, <2>1, <2>5
      <3>3. ManifestBefore(s[j], s[k + 1]) BY <3>1, <2>2, <2>4
      <3>4. QED BY <3>2, <3>3, <2>4, ManifestBeforeIsAnOrder
    <2>7. k + 1 \in 1 .. q /\ t[k + 1] \in ManifestRecords /\ j \in Nat BY <2>6, <1>n
    <2>8. PICK i \in 1 .. n : s[i] = t[k + 1]
      <3>1. t[k + 1] \in Range(t) BY <2>7, <1>n DEF Range
      <3>2. t[k + 1] \in Range(s) BY <3>1
      <3>3. QED BY <3>2, <1>n DEF Range
    <2>9. ~(i <= k)
      <3> SUFFICES ASSUME i <= k PROVE FALSE
        OBVIOUS
      <3>1. i \in 1 .. k /\ i \in 1 .. q /\ i < k + 1 BY <2>7, <1>n
      <3>2. t[i] = t[k + 1] BY <3>1, <2>1, <2>8
      <3>3. ManifestBefore(t[i], t[k + 1]) BY <3>1, <2>3, <2>7
      <3>4. QED BY <3>2, <3>3, <2>7, ManifestBeforeIsAnOrder
    <2>10. j = k + 1
      <3> SUFFICES ASSUME j # k + 1 PROVE FALSE
        OBVIOUS
      <3>1. k + 1 < j BY <2>6, <2>7
      <3>2. ManifestBefore(t[k + 1], s[k + 1]) BY <3>1, <2>3, <2>5, <2>7
      <3>3. i # k + 1 BY <3>2, <2>4, <2>8, ManifestBeforeIsAnOrder
      <3>4. k + 1 < i BY <3>3, <2>9, <1>n
      <3>5. ManifestBefore(s[k + 1], t[k + 1]) BY <3>4, <2>2, <2>4, <2>8
      <3>6. QED BY <3>2, <3>5, <2>4, <2>7, ManifestBeforeIsAnOrder
    <2>11. \A x \in 1 .. k + 1 : x \in 1 .. k \/ x = k + 1 OBVIOUS
    <2>12. QED BY <2>1, <2>5, <2>7, <2>10, <2>11
  <1>3. Nat \subseteq A
    <2> HIDE DEF A
    <2> QED BY <1>1, <1>2, NatSetInduction
  <1>4. QED
    <2> TAKE k \in 1 .. n
    <2>1. k \in Nat /\ k \in A /\ k <= n /\ k \in 1 .. k BY <1>3, <1>n
    <2>2. QED BY <2>1

(* So they are one list. *)
LEMMA OrderedListsAreOne ==
    ASSUME NEW s \in Seq(ManifestRecords), NEW t \in Seq(ManifestRecords), InOrder(s), InOrder(t), Range(s) = Range(t)
    PROVE  s = t
  <1>1. \A k \in 1 .. Len(s) : k <= Len(t) /\ s[k] = t[k] BY OrderedListsBeginAlike
  <1>2. \A k \in 1 .. Len(t) : k <= Len(s) BY OrderedListsBeginAlike
  <1>3. Len(s) = Len(t) BY <1>1, <1>2
  <1>4. QED BY <1>1, <1>3
(* The manifests of a record before they are sorted. *)
GatedManifests(record) == [i \in DOMAIN record.manifests |-> Gated(record.manifests[i])]

(* The scans there are: their entries are listed, and so are those of a scan
   whose entries were detected the other way round. *)
IsScan(scan) ==
    \E pair \in ScanPairs, i \in 1 .. 2 : scan = pair[i] \/ scan = Reordered(pair[i])

LEMMA ScansAreListed ==
    ASSUME NEW scan, IsScan(scan)
    PROVE  scan.entries \in Seq(ScannedEntries)
  <1>1. PICK pair \in ScanPairs, i \in 1 .. 2 : scan = pair[i] \/ scan = Reordered(pair[i])
    BY DEF IsScan
  <1> DEFINE S == Range(pair[i].entries)
             n == Len(pair[i].entries)
  <1>2. pair[i].entries \in Seq(S) BY ScanAssumption
  <1>3. S \subseteq ScannedEntries BY DEF ScannedEntries
  <1> HIDE DEF S
  <1>4. /\ pair[i].entries \in Seq(ScannedEntries) /\ n \in Nat
        /\ \A k \in 1 .. n : pair[i].entries[k] \in ScannedEntries
    BY <1>2, <1>3
  <1> HIDE DEF n
  <1>5. CASE scan = pair[i] BY <1>4, <1>5
  <1>6. CASE scan = Reordered(pair[i])
    <2>1. scan.entries = Reverse(pair[i].entries) BY <1>6 DEF Reordered
    <2>2. scan.entries = [k \in 1 .. n |-> pair[i].entries[(n - k) + 1]] BY <2>1 DEF Reverse, n
    <2>3. \A k \in 1 .. n : (n - k) + 1 \in 1 .. n BY <1>4
    <2>4. \A k \in 1 .. n : pair[i].entries[(n - k) + 1] \in ScannedEntries BY <1>4, <2>3
    <2>5. scan.entries \in [1 .. n -> ScannedEntries] BY <2>2, <2>4
    <2>6. n \in Nat BY <1>4
    <2>7. QED BY <2>5, <2>6
  <1>7. QED BY <1>1, <1>5, <1>6

(* The record of a scan, section by section. *)
LEMMA RecordOfScan ==
    ASSUME NEW scan, IsScan(scan)
    PROVE  LET record == FromScan(scan)
               gated  == GatedManifests(record)
           IN /\ gated \in Seq(ManifestRecords) /\ Len(gated) = Len(scan.entries)
              /\ \A i \in 1 .. Len(scan.entries) : gated[i] = Gated(Listed(scan.entries[i]))
              /\ record.manifests \in Seq({Listed(e) : e \in ScannedEntries})
              /\ Len(record.manifests) = Len(scan.entries)
              /\ \A i \in 1 .. Len(scan.entries) : record.manifests[i] = Listed(scan.entries[i])
              /\ Canonicalize(record) =
                   [manifests |-> FoldLeft(InsertManifest, << >>, gated),
                    packages |-> scan.packages, findings |-> scan.findings]
  <1> DEFINE n == Len(scan.entries)
             record == FromScan(scan)
             gated == GatedManifests(record)
  <1>1. /\ scan.entries \in Seq(ScannedEntries) /\ n \in Nat /\ DOMAIN scan.entries = 1 .. n
        /\ \A i \in 1 .. n : scan.entries[i] \in ScannedEntries
    <2>1. scan.entries \in Seq(ScannedEntries) BY ScansAreListed
    <2>2. QED BY <2>1
  <1> HIDE DEF n
  <1>2. record = [manifests |-> [i \in 1 .. n |-> Listed(scan.entries[i])],
                  packages |-> scan.packages, findings |-> scan.findings]
    BY <1>1 DEF FromScan, Listed
  <1>3. record.manifests = [i \in 1 .. n |-> Listed(scan.entries[i])]
        /\ record.packages = scan.packages /\ record.findings = scan.findings
    BY <1>2
  <1>4. Canonicalize(record) =
          [manifests |-> FoldLeft(InsertManifest, << >>, gated), packages |-> scan.packages, findings |-> scan.findings]
    <2>1. Canonicalize(record) = [record EXCEPT !.manifests = FoldLeft(InsertManifest, << >>, gated)]
      BY DEF Canonicalize, GatedManifests
    <2> DEFINE sorted == FoldLeft(InsertManifest, << >>, gated)
    <2> HIDE DEF sorted, record
    <2>2. Canonicalize(record) = [record EXCEPT !.manifests = sorted] BY <2>1 DEF sorted
    <2>3. Canonicalize(record) = [manifests |-> sorted, packages |-> scan.packages, findings |-> scan.findings]
      BY <2>2, <1>2
    <2>4. QED BY <2>3 DEF sorted
  <1> HIDE DEF record
  <1>5. gated = [i \in 1 .. n |-> Gated(Listed(scan.entries[i]))] BY <1>3 DEF GatedManifests
  <1> HIDE DEF gated
  <1>6. gated \in Seq(ManifestRecords) /\ Len(gated) = n
        /\ \A i \in 1 .. n : gated[i] = Gated(Listed(scan.entries[i]))
    <2>1. \A i \in 1 .. n : Gated(Listed(scan.entries[i])) \in ManifestRecords BY <1>1 DEF ManifestRecords
    <2>2. QED BY <1>1, <1>5, <2>1
  <1>7. record.manifests \in Seq({Listed(e) : e \in ScannedEntries}) /\ Len(record.manifests) = n
        /\ \A i \in 1 .. n : record.manifests[i] = Listed(scan.entries[i])
    <2>1. \A i \in 1 .. n : Listed(scan.entries[i]) \in {Listed(e) : e \in ScannedEntries} BY <1>1
    <2>2. QED BY <1>1, <1>3, <2>1
  <1>8. QED BY <1>4, <1>6, <1>7 DEF n, record, gated

(* What canonicalize makes of the manifests of a scan. *)
LEMMA CanonicalManifests ==
    ASSUME NEW scan, IsScan(scan)
    PROVE  LET gated  == GatedManifests(FromScan(scan))
               sorted == Canonicalize(FromScan(scan)).manifests
           IN /\ sorted \in Seq(ManifestRecords) /\ Len(sorted) = Len(gated) /\ Range(sorted) = Range(gated)
              /\ DistinctKeys(gated) => InOrder(sorted)
              /\ Canonicalize(FromScan(scan))
                   = [manifests |-> sorted, packages |-> scan.packages, findings |-> scan.findings]
  <1> DEFINE gated == GatedManifests(FromScan(scan))
             none == << >>
             sorted == FoldLeft(InsertManifest, none, gated)
  <1>1. gated \in Seq(ManifestRecords) BY RecordOfScan
  <1>2. Canonicalize(FromScan(scan)) = [manifests |-> sorted, packages |-> scan.packages, findings |-> scan.findings]
    BY RecordOfScan
  <1>3. none \in Seq(ManifestRecords) /\ Len(none) = 0 OBVIOUS
  <1> HIDE DEF gated, none
  <1>4. /\ sorted \in Seq(ManifestRecords) /\ Len(sorted) = Len(gated) /\ Range(sorted) = Range(gated)
        /\ DistinctKeys(gated) => InOrder(sorted)
    BY <1>1, <1>3, ManifestsAreSorted
  <1> HIDE DEF sorted
  <1>5. Canonicalize(FromScan(scan)).manifests = sorted BY <1>2
  <1>6. QED BY <1>2, <1>4, <1>5 DEF gated

(* The order in which distinct manifests were detected is lost. *)
LEMMA CanonicalizeForgetsOrder ==
    ASSUME NEW pair \in ScanPairs, NEW i \in 1 .. 2, DistinctManifests(pair[i])
    PROVE  Canonicalize(FromScan(Reordered(pair[i]))) = Canonicalize(FromScan(pair[i]))
  <1> DEFINE scan == pair[i]
             other == Reordered(scan)
             n == Len(scan.entries)
             there == GatedManifests(FromScan(scan))
             back == GatedManifests(FromScan(other))
  <1>1. IsScan(scan) /\ IsScan(other) BY DEF IsScan
  <1>2. other.packages = scan.packages /\ other.findings = scan.findings
        /\ other.entries = [k \in 1 .. n |-> scan.entries[(n - k) + 1]]
    BY DEF Reordered, Reverse
  <1>3. scan.entries \in Seq(ScannedEntries) BY <1>1, ScansAreListed
  <1>4. n \in Nat /\ DOMAIN scan.entries = 1 .. n BY <1>3
  <1> HIDE DEF other
  <1>5. Len(other.entries) = n BY <1>2, <1>4
  <1>6. /\ there \in Seq(ManifestRecords) /\ Len(there) = n
        /\ \A k \in 1 .. n : there[k] = Gated(Listed(scan.entries[k]))
    BY <1>1, RecordOfScan
  <1>7. /\ back \in Seq(ManifestRecords) /\ Len(back) = n
        /\ \A k \in 1 .. n : back[k] = Gated(Listed(other.entries[k]))
    BY <1>1, <1>5, RecordOfScan
  <1> HIDE DEF there, back, n
  <1>8. \A k \in 1 .. n : (n - k) + 1 \in 1 .. n /\ (n - ((n - k) + 1)) + 1 = k BY <1>4
  <1>9. \A k \in 1 .. n : back[k] = there[(n - k) + 1]
    <2> TAKE k \in 1 .. n
    <2>1. other.entries[k] = scan.entries[(n - k) + 1] BY <1>2
    <2>2. there[(n - k) + 1] = Gated(Listed(scan.entries[(n - k) + 1])) BY <1>6, <1>8
    <2>3. back[k] = Gated(Listed(other.entries[k])) BY <1>7
    <2>4. QED BY <2>1, <2>2, <2>3
  <1>10. DOMAIN there = 1 .. n /\ DOMAIN back = 1 .. n BY <1>4, <1>6, <1>7
  <1>11. DistinctKeys(there)
    <2> SUFFICES ASSUME NEW k \in 1 .. n, NEW m \in 1 .. n, SameKey(there[k], there[m]) PROVE k = m
      BY <1>10 DEF DistinctKeys
    <2>1. /\ there[k].path = scan.entries[k].path /\ there[k].subproject = scan.entries[k].subproject
          /\ there[m].path = scan.entries[m].path /\ there[m].subproject = scan.entries[m].subproject
      BY <1>6, GatedManifest
    <2>2. QED BY <2>1, <1>4 DEF SameKey, DistinctManifests
  <1>12. DistinctKeys(back)
    <2> SUFFICES ASSUME NEW k \in 1 .. n, NEW m \in 1 .. n, SameKey(back[k], back[m]) PROVE k = m
      BY <1>10 DEF DistinctKeys
    <2>1. SameKey(there[(n - k) + 1], there[(n - m) + 1]) BY <1>9
    <2>2. (n - k) + 1 = (n - m) + 1 BY <2>1, <1>8, <1>10, <1>11 DEF DistinctKeys
    <2>3. QED BY <2>2, <1>4
  <1>13. Range(back) = Range(there)
    <2>1. \A k \in 1 .. n : back[k] \in Range(there) BY <1>8, <1>9, <1>10 DEF Range
    <2>2. \A k \in 1 .. n : there[k] \in Range(back)
      <3> TAKE k \in 1 .. n
      <3>1. back[(n - k) + 1] = there[k] BY <1>8, <1>9
      <3>2. QED BY <3>1, <1>8, <1>10 DEF Range
    <2>3. QED BY <2>1, <2>2, <1>10 DEF Range
  <1> DEFINE first == Canonicalize(FromScan(scan))
             second == Canonicalize(FromScan(other))
  <1>14. /\ first.manifests \in Seq(ManifestRecords) /\ Range(first.manifests) = Range(there)
         /\ InOrder(first.manifests)
    BY <1>1, <1>11, CanonicalManifests DEF there
  <1>15. /\ second.manifests \in Seq(ManifestRecords) /\ Range(second.manifests) = Range(back)
         /\ InOrder(second.manifests)
    BY <1>1, <1>12, CanonicalManifests DEF back
  <1>16. /\ first = [manifests |-> first.manifests, packages |-> scan.packages, findings |-> scan.findings]
         /\ second = [manifests |-> second.manifests, packages |-> other.packages, findings |-> other.findings]
    BY <1>1, CanonicalManifests
  <1> HIDE DEF first, second
  <1>17. first.manifests = second.manifests BY <1>13, <1>14, <1>15, OrderedListsAreOne
  <1>18. first = second BY <1>2, <1>16, <1>17
  <1>19. QED BY <1>18 DEF first, second, other
(* The image of a finite set is no larger. *)
LEMMA ImageIsNoLarger ==
    ASSUME NEW S, IsFiniteSet(S), NEW T, NEW f \in [S -> T]
    PROVE  LET image == {f[x] : x \in S}
           IN IsFiniteSet(image) /\ Cardinality(image) \in Nat /\ Cardinality(image) <= Cardinality(S)
  <1> DEFINE image == {f[x] : x \in S}
  <1>1. f \in Surjection(S, image) BY DEF Surjection
  <1> HIDE DEF image
  <1>2. IsFiniteSet(image) /\ Cardinality(image) <= Cardinality(S) BY <1>1, FS_Surjection
  <1>3. Cardinality(image) \in Nat BY <1>2, FS_CardinalityType
  <1>4. QED BY <1>2, <1>3 DEF image

(* Sorting and the gates make no section larger. *)
LEMMA CanonicalizeKeepsBounds ==
    ASSUME NEW pair \in ScanPairs, NEW i \in 1 .. 2, WithinBounds(FromScan(pair[i]))
    PROVE  WithinBounds(Canonicalize(FromScan(pair[i])))
  <1> DEFINE scan == pair[i]
             n == Len(scan.entries)
             record == FromScan(scan)
             gated == GatedManifests(record)
             canonical == Canonicalize(record)
  <1>1. IsScan(scan) BY DEF IsScan
  <1>2. scan.entries \in Seq(ScannedEntries) BY <1>1, ScansAreListed
  <1>3. n \in Nat /\ DOMAIN scan.entries = 1 .. n /\ \A k \in 1 .. n : scan.entries[k] \in ScannedEntries
    BY <1>2
  <1>4. /\ gated \in Seq(ManifestRecords) /\ Len(gated) = n
        /\ \A k \in 1 .. n : gated[k] = Gated(Listed(scan.entries[k]))
        /\ record.manifests \in Seq({Listed(e) : e \in ScannedEntries}) /\ Len(record.manifests) = n
        /\ \A k \in 1 .. n : record.manifests[k] = Listed(scan.entries[k])
    BY <1>1, RecordOfScan
  <1>5. /\ canonical.manifests \in Seq(ManifestRecords) /\ Len(canonical.manifests) = Len(gated)
        /\ Range(canonical.manifests) = Range(gated)
        /\ canonical = [manifests |-> canonical.manifests, packages |-> scan.packages, findings |-> scan.findings]
    BY <1>1, CanonicalManifests
  <1>6. record.packages = scan.packages /\ record.findings = scan.findings BY DEF FromScan
  <1>7. /\ Len(record.manifests) <= RecordBounds.manifests
        /\ \A m \in Range(record.manifests) : Cardinality(m.dependencies) <= RecordBounds.dependencies
        /\ Cardinality(record.packages) <= RecordBounds.packages
        /\ Cardinality(record.findings) <= RecordBounds.findings
    BY DEF WithinBounds
  <1> HIDE DEF n, gated, record, canonical
  <1>8. canonical.packages = record.packages /\ canonical.findings = record.findings
    BY <1>5, <1>6
  <1>9. ASSUME NEW m \in Range(canonical.manifests)
        PROVE  Cardinality(m.dependencies) <= RecordBounds.dependencies
    <2>1. PICK k \in 1 .. n : m = Gated(Listed(scan.entries[k]))
      <3>1. m \in Range(gated) BY <1>5, <1>9
      <3>2. DOMAIN gated = 1 .. n BY <1>3, <1>4
      <3>3. QED BY <3>1, <3>2, <1>4 DEF Range
    <2> DEFINE e == scan.entries[k]
               S == DependenciesOf(e.graph)
               T == {NormalizedDependency(d) : d \in S}
               f == [d \in S |-> NormalizedDependency(d)]
               listed == {x \in e.graph.nodes : x.kind # "manifest"}
               of == [x \in listed |-> [node |-> x, dependsOn |-> ChildrenAmong(e.graph, x.id, NodeIDs(listed))]]
    <2>2. m.dependencies = T BY <2>1, GatedManifest
    <2>3. e \in ScannedEntries BY <1>3
    <2>4. IsFiniteSet(e.graph.nodes)
      <3> HIDE DEF e
      <3>1. PICK p \in ScanPairs, j \in 1 .. 2 : e \in Range(p[j].entries) BY <2>3 DEF ScannedEntries
      <3>2. QED BY ONLY <3>1, ScanAssumption
    <2>5. IsFiniteSet(listed)
      <3>1. listed \in SUBSET e.graph.nodes OBVIOUS
      <3> HIDE DEF listed
      <3>2. QED BY <2>4, <3>1, FS_Subset
    <2>6. S = {of[x] : x \in listed} BY DEF DependenciesOf
    <2>7. of \in [listed -> S] BY <2>6
    <2> HIDE DEF of, listed
    <2>8. IsFiniteSet(S) /\ Cardinality(S) \in Nat
      <3> DEFINE image == {of[x] : x \in listed}
      <3> HIDE DEF S
      <3>1. IsFiniteSet(image) /\ Cardinality(image) \in Nat BY <2>5, <2>7, ImageIsNoLarger
      <3>2. QED BY <2>6, <3>1
    <2> HIDE DEF S
    <2>9. f \in [S -> T] /\ T = {f[d] : d \in S} OBVIOUS
    <2> HIDE DEF f, T
    <2>10. Cardinality(T) \in Nat /\ Cardinality(T) <= Cardinality(S)
      <3> DEFINE image == {f[d] : d \in S}
      <3>1. IsFiniteSet(S) /\ f \in [S -> T] BY <2>8, <2>9
      <3>2. Cardinality(image) \in Nat /\ Cardinality(image) <= Cardinality(S) BY <3>1, ImageIsNoLarger
      <3>3. T = image BY <2>9
      <3> HIDE DEF image
      <3>4. QED BY <3>2, <3>3
    <2>11. Cardinality(S) <= RecordBounds.dependencies
      <3>1. Listed(e).dependencies = S BY DEF Listed, S
      <3>2. DOMAIN record.manifests = 1 .. n BY <1>3, <1>4
      <3>3. Listed(e) \in Range(record.manifests) BY <1>4, <3>2 DEF Range
      <3>4. QED BY <3>1, <3>3, <1>7
    <2>12. RecordBounds.dependencies \in Nat BY RecordBoundsAssumption
    <2>13. QED BY <2>2, <2>8, <2>10, <2>11, <2>12
  <1>10. WithinBounds(canonical)
    BY <1>4, <1>5, <1>7, <1>8, <1>9 DEF WithinBounds
  <1>11. QED BY <1>10 DEF canonical, record
-----------------------------------------------------------------------------
(* What is written, and what a reader takes. *)

(* A section as bytes, or no bytes. *)
IsBytes(bytes) ==
    bytes = NoBytes \/ bytes = [value |-> bytes.value, unknown |-> bytes.unknown, spaced |-> bytes.spaced]

IsWire(encoded) ==
    /\ encoded = [schema |-> encoded.schema, sections |-> encoded.sections, digests |-> encoded.digests]
    /\ encoded.sections = [s \in Sections |-> encoded.sections[s]]
    /\ \A s \in Sections : IsBytes(encoded.sections[s])

LEMMA BytesOrNone ==
    \A v, u, p : [value |-> v, unknown |-> u, spaced |-> p] # NoBytes
  <1> SUFFICES ASSUME NEW v, NEW u, NEW p, [value |-> v, unknown |-> u, spaced |-> p] = NoBytes PROVE FALSE
    OBVIOUS
  <1> DEFINE r == [value |-> v, unknown |-> u, spaced |-> p]
  <1>1. "null" \notin DOMAIN r OBVIOUS
  <1>2. "null" \in DOMAIN NoBytes BY DEF NoBytes
  <1>3. QED BY <1>1, <1>2

(* What a section is written as is read as it was, however it is laid out. *)
LEMMA SectionIsRead ==
    ASSUME NEW w, NEW s \in Sections, NEW value, NEW bytes, IsBytes(bytes), Compact(bytes) = WrittenBy(w, s, value)
    PROVE  ValueOf(s, bytes) = value
  <1> DEFINE written == [value |-> value, unknown |-> w = "later", spaced |-> FALSE]
  <1>1. written # NoBytes BY BytesOrNone
  <1>2. WrittenBy(w, s, value) = NoBytes => value = EmptySection(s) BY <1>1 DEF WrittenBy
  <1>3. CASE bytes = NoBytes
    BY <1>2, <1>3 DEF Compact, ValueOf
  <1>4. CASE bytes # NoBytes
    <2>1. bytes = [value |-> bytes.value, unknown |-> bytes.unknown, spaced |-> bytes.spaced]
      BY <1>4 DEF IsBytes
    <2>2. Compact(bytes) = [bytes EXCEPT !.spaced = FALSE] BY <1>4 DEF Compact
    <2>3. Compact(bytes) = [value |-> bytes.value, unknown |-> bytes.unknown, spaced |-> FALSE]
      BY <2>1, <2>2
    <2>4. Compact(bytes) # NoBytes BY <2>3, BytesOrNone
    <2>5. Compact(bytes) = written BY <2>4 DEF WrittenBy
    <2>6. Compact(bytes).value = bytes.value BY <2>3
    <2>7. written.value = value OBVIOUS
    <2>8. bytes.value = value BY <2>5, <2>6, <2>7
    <2>9. QED BY <1>4, <2>8 DEF ValueOf
  <1>5. QED BY <1>3, <1>4

(* White space is one field of the bytes of a section. *)
LEMMA SpacedAnew ==
    ASSUME NEW v, NEW u, NEW p, NEW q
    PROVE  [[value |-> v, unknown |-> u, spaced |-> p] EXCEPT !.spaced = q] = [value |-> v, unknown |-> u, spaced |-> q]
  <1> DEFINE was == [value |-> v, unknown |-> u, spaced |-> p]
             is == [was EXCEPT !.spaced = q]
             as == [value |-> v, unknown |-> u, spaced |-> q]
             fields == {"value", "unknown", "spaced"}
  <1>1. DOMAIN is = fields /\ DOMAIN as = fields OBVIOUS
  <1>2. is = [x \in fields |-> is[x]] OBVIOUS
  <1>3. as = [x \in fields |-> as[x]] OBVIOUS
  <1>4. is["value"] = v /\ as["value"] = v OBVIOUS
  <1>5. is["unknown"] = u /\ as["unknown"] = u OBVIOUS
  <1>6. is["spaced"] = q /\ as["spaced"] = q OBVIOUS
  <1> HIDE DEF is, as
  <1>7. is = as BY <1>1, <1>2, <1>3, <1>4, <1>5, <1>6
  <1>8. QED BY <1>7 DEF is, as

(* What white space is to the bytes of a section. *)
LEMMA WhiteSpace ==
    ASSUME NEW v, NEW u, NEW p
    PROVE  LET bytes == [value |-> v, unknown |-> u, spaced |-> p]
           IN IsBytes(bytes) /\ Compact(bytes) = [value |-> v, unknown |-> u, spaced |-> FALSE]
  <1> DEFINE bytes == [value |-> v, unknown |-> u, spaced |-> p]
  <1>1. bytes # NoBytes BY BytesOrNone
  <1>2. bytes = [value |-> bytes.value, unknown |-> bytes.unknown, spaced |-> bytes.spaced] OBVIOUS
  <1>3. [bytes EXCEPT !.spaced = FALSE] = [value |-> v, unknown |-> u, spaced |-> FALSE] BY SpacedAnew, Zenon
  <1> HIDE DEF bytes
  <1>4. IsBytes(bytes) BY <1>2 DEF IsBytes
  <1>5. Compact(bytes) = [value |-> v, unknown |-> u, spaced |-> FALSE] BY <1>1, <1>3 DEF Compact
  <1>6. QED BY <1>4, <1>5 DEF bytes

(* The bytes a section is written as have no white space. *)
LEMMA WrittenIsCompact ==
    ASSUME NEW w, NEW s, NEW value
    PROVE  /\ IsBytes(WrittenBy(w, s, value)) /\ Compact(WrittenBy(w, s, value)) = WrittenBy(w, s, value)
           /\ WrittenBy(w, s, value) # NoBytes => WrittenBy(w, s, value).value = value
           /\ value # EmptySection(s) => WrittenBy(w, s, value) # NoBytes
  <1> DEFINE u == w = "later"
             written == [value |-> value, unknown |-> u, spaced |-> FALSE]
             bytes == WrittenBy(w, s, value)
  <1>1. bytes = NoBytes \/ bytes = written BY DEF WrittenBy
  <1>2. value # EmptySection(s) => bytes = written BY DEF WrittenBy
  <1> HIDE DEF u, bytes
  <1>3. written # NoBytes BY BytesOrNone
  <1>4. IsBytes(written) /\ Compact(written) = written BY WhiteSpace
  <1>5. written.value = value OBVIOUS
  <1> HIDE DEF written
  <1>6. IsBytes(NoBytes) /\ Compact(NoBytes) = NoBytes BY DEF IsBytes, Compact
  <1>7. IsBytes(bytes) /\ Compact(bytes) = bytes BY <1>1, <1>4, <1>6
  <1>8. QED BY <1>1, <1>2, <1>3, <1>5, <1>7 DEF bytes

(* Laying a section out anew is white space. *)
LEMMA IndentedSection ==
    ASSUME NEW bytes, IsBytes(bytes), bytes # NoBytes
    PROVE  LET indented == [bytes EXCEPT !.spaced = TRUE]
           IN IsBytes(indented) /\ indented # NoBytes /\ Compact(indented) = Compact(bytes)
  <1> DEFINE v == bytes.value
             u == bytes.unknown
             p == bytes.spaced
             indented == [value |-> v, unknown |-> u, spaced |-> TRUE]
  <1>1. bytes = [value |-> v, unknown |-> u, spaced |-> p] BY DEF IsBytes
  <1> HIDE DEF v, u, p
  <1>2. Compact([value |-> v, unknown |-> u, spaced |-> p]) = [value |-> v, unknown |-> u, spaced |-> FALSE]
    BY WhiteSpace
  <1>3. [[value |-> v, unknown |-> u, spaced |-> p] EXCEPT !.spaced = TRUE] = indented
    BY SpacedAnew, Zenon
  <1>4. [bytes EXCEPT !.spaced = TRUE] = indented
        /\ Compact(bytes) = [value |-> v, unknown |-> u, spaced |-> FALSE]
    BY <1>1, <1>2, <1>3, Zenon
  <1>5. IsBytes(indented) /\ Compact(indented) = [value |-> v, unknown |-> u, spaced |-> FALSE] BY WhiteSpace
  <1>6. indented # NoBytes BY BytesOrNone
  <1> HIDE DEF indented
  <1>7. QED BY <1>4, <1>5, <1>6

(* A record as it is encoded. *)
LEMMA EncodedRecord ==
    ASSUME NEW w, NEW record
    PROVE  LET encoded == EncodeRecord(w, record)
               Section(s) == WrittenBy(w, s, Canonicalize(record)[s])
           IN /\ IsWire(encoded) /\ encoded.schema = SchemaVersion
              /\ \A s \in Sections : encoded.sections[s] = Section(s)
              /\ encoded.digests = [s \in Sections |-> IF w = "plain" THEN NoDigest ELSE DigestOf(Section(s))]
  <1> DEFINE encoded == EncodeRecord(w, record)
             Section(s) == WrittenBy(w, s, Canonicalize(record)[s])
             sections == [s \in Sections |-> Section(s)]
             digests == [s \in Sections |-> IF w = "plain" THEN NoDigest ELSE DigestOf(sections[s])]
  <1>1. encoded = [schema |-> SchemaVersion, sections |-> sections, digests |-> digests]
    BY DEF EncodeRecord
  <1>2. \A s \in Sections : sections[s] = Section(s) OBVIOUS
  <1>3. digests = [s \in Sections |-> IF w = "plain" THEN NoDigest ELSE DigestOf(Section(s))] OBVIOUS
  <1>4. \A s \in Sections : IsBytes(Section(s)) BY WrittenIsCompact
  <1>5. sections = [s \in Sections |-> sections[s]] OBVIOUS
  <1> HIDE DEF encoded, sections, digests, Section
  <1>6. /\ encoded.schema = SchemaVersion /\ encoded.sections = sections /\ encoded.digests = digests
        /\ encoded = [schema |-> encoded.schema, sections |-> encoded.sections, digests |-> encoded.digests]
    BY <1>1
  <1>7. IsWire(encoded) BY <1>2, <1>4, <1>5, <1>6 DEF IsWire
  <1>8. QED BY <1>2, <1>3, <1>6, <1>7 DEF encoded, Section

(* What a scan's section is written as. *)
SectionOf(w, scan, s) == WrittenBy(w, s, Canonicalize(FromScan(scan))[s])

Digests(w, scan) == [s \in Sections |-> IF w = "plain" THEN NoDigest ELSE DigestOf(SectionOf(w, scan, s))]

(* A record that says what its writer wrote, *)
AsSent(sent, w, scan) ==
    /\ IsWire(sent) /\ sent.schema = SchemaVersion /\ sent.digests = Digests(w, scan)
    /\ \A s \in Sections : Compact(sent.sections[s]) = SectionOf(w, scan, s)

(* and one whose findings were taken out. *)
Stripped(sent, w, scan) ==
    /\ sent.digests = Digests(w, scan)
    /\ LET bytes == sent.sections["findings"]
       IN IsBytes(bytes) /\ bytes # NoBytes /\ bytes.value = {}
    /\ SectionOf(w, scan, "findings") # NoBytes /\ SectionOf(w, scan, "findings").value # {}

(* What Encode writes is as it is sent. *)
LEMMA EncodedAsSent ==
    ASSUME NEW w, NEW scan PROVE AsSent(EncodeRecord(w, FromScan(scan)), w, scan)
  <1> DEFINE record == FromScan(scan)
             encoded == EncodeRecord(w, record)
  <1>1. /\ IsWire(encoded) /\ encoded.schema = SchemaVersion
        /\ \A s \in Sections : encoded.sections[s] = SectionOf(w, scan, s)
        /\ encoded.digests = Digests(w, scan)
    BY EncodedRecord DEF SectionOf, Digests
  <1>2. \A s \in Sections : Compact(SectionOf(w, scan, s)) = SectionOf(w, scan, s)
    BY WrittenIsCompact DEF SectionOf
  <1> HIDE DEF encoded
  <1>3. \A s \in Sections : Compact(encoded.sections[s]) = SectionOf(w, scan, s) BY <1>1, <1>2
  <1>4. QED BY <1>1, <1>3 DEF AsSent, encoded

(* However it is laid out, *)
LEMMA IndentedAsSent ==
    ASSUME NEW sent, NEW w, NEW scan, AsSent(sent, w, scan), \A s \in Sections : sent.sections[s] # NoBytes
    PROVE  AsSent([sent EXCEPT !.sections = [s \in Sections |-> [sent.sections[s] EXCEPT !.spaced = TRUE]]], w, scan)
  <1> DEFINE anew == [s \in Sections |-> [sent.sections[s] EXCEPT !.spaced = TRUE]]
             after == [sent EXCEPT !.sections = anew]
  <1>1. sent = [schema |-> sent.schema, sections |-> sent.sections, digests |-> sent.digests]
    BY DEF AsSent, IsWire
  <1>2. anew = [s \in Sections |-> anew[s]] OBVIOUS
  <1>3. \A s \in Sections : anew[s] = [sent.sections[s] EXCEPT !.spaced = TRUE] OBVIOUS
  <1>4. \A s \in Sections : IsBytes(sent.sections[s]) /\ Compact(sent.sections[s]) = SectionOf(w, scan, s)
    BY DEF AsSent, IsWire
  <1>5. \A s \in Sections : IsBytes(anew[s]) /\ Compact(anew[s]) = SectionOf(w, scan, s)
    BY <1>3, <1>4, IndentedSection
  <1> HIDE DEF anew
  <1>6. /\ after.schema = sent.schema /\ after.sections = anew /\ after.digests = sent.digests
        /\ after = [schema |-> after.schema, sections |-> after.sections, digests |-> after.digests]
    BY <1>1
  <1> HIDE DEF after
  <1>7. sent.schema = SchemaVersion /\ sent.digests = Digests(w, scan) BY DEF AsSent
  <1>8. IsWire(after) BY <1>2, <1>5, <1>6 DEF IsWire
  <1>9. QED BY <1>5, <1>6, <1>7, <1>8 DEF AsSent, after, anew

(* a reader finds in it what was scanned, *)
LEMMA SentIsRead ==
    ASSUME NEW sent, NEW w, NEW scan, AsSent(sent, w, scan)
    PROVE  \A s \in Sections : RecordIn(sent)[s] = Canonicalize(FromScan(scan))[s]
  <1> SUFFICES ASSUME NEW s \in Sections PROVE ValueOf(s, sent.sections[s]) = Canonicalize(FromScan(scan))[s]
    BY DEF RecordIn
  <1>1. IsBytes(sent.sections[s]) BY DEF AsSent, IsWire
  <1>2. Compact(sent.sections[s]) = WrittenBy(w, s, Canonicalize(FromScan(scan))[s])
    BY DEF AsSent, SectionOf
  <1>3. QED BY <1>1, <1>2, SectionIsRead

(* and takes it if it is not too large. *)
LEMMA SentVerifies ==
    ASSUME NEW pair \in ScanPairs, NEW i \in 1 .. 2, NEW sent, NEW w, AsSent(sent, w, pair[i]),
           WithinBounds(FromScan(pair[i]))
    PROVE  Verifies(sent)
  <1> DEFINE canonical == Canonicalize(FromScan(pair[i]))
             read == RecordIn(sent)
  <1>1. \A s \in Sections : read[s] = canonical[s] BY SentIsRead
  <1>2. WithinBounds(canonical) BY CanonicalizeKeepsBounds
  <1> HIDE DEF canonical, read
  <1>3. /\ read.manifests = canonical.manifests /\ read.packages = canonical.packages
        /\ read.findings = canonical.findings
    BY <1>1 DEF Sections
  <1>4. WithinBounds(read) BY <1>2, <1>3 DEF WithinBounds
  <1>5. \A s \in Sections : sent.digests[s] \in {NoDigest, DigestOf(SectionOf(w, pair[i], s))}
    BY DEF AsSent, Digests
  <1>6. \A s \in Sections : DigestAsFound(s, sent.sections[s]) = DigestOf(SectionOf(w, pair[i], s))
    BY DEF AsSent, DigestAsFound
  <1>7. sent.schema = SchemaVersion BY DEF AsSent
  <1>8. QED BY <1>4, <1>5, <1>6, <1>7 DEF Verifies, read

(* Without its findings it is not what was sent, *)
LEMMA StrippedAsSent ==
    ASSUME NEW sent, NEW w, NEW scan, AsSent(sent, w, scan),
           sent.sections["findings"] # NoBytes, sent.sections["findings"].value # {}
    PROVE  Stripped([sent EXCEPT !.sections["findings"].value = {}], w, scan)
  <1> DEFINE bytes == sent.sections["findings"]
             v == bytes.value
             u == bytes.unknown
             p == bytes.spaced
             empty == [value |-> {}, unknown |-> u, spaced |-> p]
             after == [sent EXCEPT !.sections["findings"].value = {}]
             written == SectionOf(w, scan, "findings")
  <1>1. "findings" \in Sections BY DEF Sections
  <1>2. sent = [schema |-> sent.schema, sections |-> sent.sections, digests |-> sent.digests]
        /\ sent.sections = [s \in Sections |-> sent.sections[s]] /\ sent.digests = Digests(w, scan)
    BY DEF AsSent, IsWire
  <1>3. bytes = [value |-> v, unknown |-> u, spaced |-> p] BY <1>1 DEF AsSent, IsWire, IsBytes
  <1>4. Compact(bytes) = written BY <1>1 DEF AsSent
  <1> HIDE DEF written
  <1>5. after.digests = sent.digests /\ after.sections["findings"] = [bytes EXCEPT !.value = {}]
    BY <1>1, <1>2
  <1> HIDE DEF bytes, v, u, p
  <1>6. [bytes EXCEPT !.value = {}] = empty BY <1>3
  <1>7. IsBytes(empty) /\ empty.value = {} BY WhiteSpace
  <1>8. empty # NoBytes BY BytesOrNone
  <1> DEFINE plain == [value |-> v, unknown |-> u, spaced |-> FALSE]
  <1>9. plain # NoBytes /\ plain.value = v BY BytesOrNone
  <1>10. Compact(bytes) = plain BY <1>3, WhiteSpace, Zenon
  <1> HIDE DEF empty, after, plain
  <1>11. after.sections["findings"] = empty BY <1>5, <1>6
  <1>12. written # NoBytes /\ written.value # {} BY <1>4, <1>9, <1>10 DEF v, bytes
  <1>13. QED BY <1>2, <1>5, <1>7, <1>8, <1>11, <1>12 DEF Stripped, after, written

(* and a record with digests that lost its findings is refused. *)
LEMMA StrippedIsRefused ==
    ASSUME NEW sent, NEW w, NEW scan, Stripped(sent, w, scan), w # "plain"
    PROVE  ~Verifies(sent)
  <1> DEFINE bytes == sent.sections["findings"]
             v == bytes.value
             u == bytes.unknown
             p == bytes.spaced
             plain == [value |-> v, unknown |-> u, spaced |-> FALSE]
             written == SectionOf(w, scan, "findings")
  <1>1. "findings" \in Sections BY DEF Sections
  <1>2. sent.digests["findings"] = DigestOf(written) BY <1>1 DEF Stripped, Digests
  <1>3. bytes = [value |-> v, unknown |-> u, spaced |-> p] /\ v = {} BY DEF Stripped, IsBytes
  <1>4. written.value # {} BY DEF Stripped
  <1> HIDE DEF written
  <1>5. DigestAsFound("findings", sent.sections["findings"]) = DigestOf(Compact(bytes)) BY DEF DigestAsFound
  <1> HIDE DEF bytes, v, u, p
  <1>6. Compact(bytes) = plain BY <1>3, WhiteSpace, Zenon
  <1>7. plain.value = {} BY <1>3
  <1>8. Compact(bytes) # written BY <1>4, <1>6, <1>7
  <1>9. DigestOf(written) # NoDigest /\ DigestOf(written) # DigestOf(Compact(bytes))
    BY <1>8 DEF DigestOf, NoDigest
  <1>10. QED BY <1>1, <1>2, <1>5, <1>9 DEF Verifies
-----------------------------------------------------------------------------
(* The inductive invariant of a record on its way. *)

WiresInv ==
    /\ wires = [i \in 1 .. 2 |-> wires[i]]
    /\ AsSent(wires[1], writer, scans[1])
    /\ ~altered => AsSent(wires[2], writer, scans[2])
    /\ altered => Stripped(wires[2], writer, scans[2])

ScansInv ==
    /\ phase # "idle" => scans \in ScanPairs
    /\ phase = "scanned" => ~altered
    /\ phase = "written" => WiresInv
    /\ phase = "refused" => altered \/ \E i \in 1 .. 2 : ~WithinBounds(FromScan(scans[i]))
    /\ phase \in {"decoded", "compared"} /\ writer # "plain" => ~altered

LEMMA ScansStart == Init => ScansInv
  <1> SUFFICES ASSUME Init PROVE ScansInv
    OBVIOUS
  <1>1. CASE ScanIdle BY <1>1 DEF ScanIdle, ScansInv
  <1>2. CASE ScanInit BY <1>2 DEF ScanInit, ScansInv
  <1>3. QED BY <1>1, <1>2 DEF Init

LEMMA ScansUnmoved ==
    ASSUME ScansInv, UNCHANGED scanVars PROVE ScansInv'
  BY DEF ScansInv, scanVars, WiresInv

LEMMA ScansWrite ==
    ASSUME ScansInv, WriteRecords PROVE ScansInv'
  <1>1. /\ phase = "scanned" /\ phase' = "written" /\ scans' = scans /\ altered' = altered
        /\ wires' = [i \in 1 .. 2 |-> EncodeRecord(writer', FromScan(scans[i]))]
    BY DEF WriteRecords
  <1>2. wires' = [i \in 1 .. 2 |-> wires'[i]] BY <1>1
  <1>3. \A i \in 1 .. 2 : AsSent(wires'[i], writer', scans[i]) BY <1>1, EncodedAsSent
  <1>4. ~altered BY <1>1 DEF ScansInv
  <1>5. WiresInv' BY <1>1, <1>2, <1>3, <1>4 DEF WiresInv
  <1>6. QED BY <1>1, <1>5 DEF ScansInv

(* One of two records is replaced. *)
LEMMA OneOfTwo ==
    ASSUME NEW pair, pair = [i \in 1 .. 2 |-> pair[i]], NEW k \in 1 .. 2, NEW x
    PROVE  LET after == [pair EXCEPT ![k] = x]
           IN /\ after[k] = x /\ \A j \in 1 .. 2 : j # k => after[j] = pair[j]
              /\ after = [i \in 1 .. 2 |-> after[i]]
  <1> DEFINE after == [pair EXCEPT ![k] = x]
             only == [i \in 1 .. 2 |-> IF i = k THEN x ELSE pair[i]]
  <1>1. after = only OBVIOUS
  <1>2. only = [i \in 1 .. 2 |-> only[i]] OBVIOUS
  <1>3. only[k] = x /\ \A j \in 1 .. 2 : j # k => only[j] = pair[j] OBVIOUS
  <1> HIDE DEF after, only
  <1>4. after = [i \in 1 .. 2 |-> after[i]] BY <1>1, <1>2
  <1>5. QED BY <1>1, <1>3, <1>4 DEF after

LEMMA ScansIndent ==
    ASSUME ScansInv, Indent PROVE ScansInv'
  <1> DEFINE sent == wires[1]
             after == [sent EXCEPT !.sections = [s \in Sections |-> [sent.sections[s] EXCEPT !.spaced = TRUE]]]
  <1>1. /\ phase = "written" /\ phase' = phase /\ scans' = scans /\ altered' = altered /\ writer' = writer
        /\ \A s \in Sections : sent.sections[s] # NoBytes
        /\ wires' = [wires EXCEPT ![1].sections = [s \in Sections |-> [@[s] EXCEPT !.spaced = TRUE]]]
    BY DEF Indent
  <1>2. WiresInv BY <1>1 DEF ScansInv
  <1>3. wires = [i \in 1 .. 2 |-> wires[i]] BY <1>2 DEF WiresInv
  <1>4. wires' = [wires EXCEPT ![1] = after] BY <1>1
  <1> HIDE DEF after
  <1>5. wires'[1] = after /\ wires'[2] = wires[2] /\ wires' = [i \in 1 .. 2 |-> wires'[i]]
    BY <1>3, <1>4, 1 \in 1 .. 2, 2 \in 1 .. 2, 1 # 2, OneOfTwo
  <1>6. AsSent(after, writer, scans[1]) BY <1>1, <1>2, IndentedAsSent DEF WiresInv, after
  <1>7. WiresInv' BY <1>1, <1>2, <1>5, <1>6 DEF WiresInv
  <1>8. QED BY <1>1, <1>7 DEF ScansInv

LEMMA ScansStrip ==
    ASSUME ScansInv, StripFindings PROVE ScansInv'
  <1> DEFINE sent == wires[2]
             after == [sent EXCEPT !.sections["findings"].value = {}]
  <1>1. /\ phase = "written" /\ phase' = phase /\ scans' = scans /\ ~altered /\ altered' /\ writer' = writer
        /\ sent.sections["findings"] # NoBytes /\ sent.sections["findings"].value # {}
        /\ wires' = [wires EXCEPT ![2].sections["findings"].value = {}]
    BY DEF StripFindings
  <1>2. WiresInv BY <1>1 DEF ScansInv
  <1>3. wires = [i \in 1 .. 2 |-> wires[i]] BY <1>2 DEF WiresInv
  <1>4. wires' = [wires EXCEPT ![2] = after] BY <1>1
  <1> HIDE DEF after
  <1>5. wires'[2] = after /\ wires'[1] = wires[1] /\ wires' = [i \in 1 .. 2 |-> wires'[i]]
    BY <1>3, <1>4, 1 \in 1 .. 2, 2 \in 1 .. 2, 1 # 2, OneOfTwo
  <1>6. Stripped(after, writer, scans[2]) BY <1>1, <1>2, StrippedAsSent DEF WiresInv, after
  <1>7. WiresInv' BY <1>1, <1>2, <1>5, <1>6 DEF WiresInv
  <1>8. QED BY <1>1, <1>7 DEF ScansInv

LEMMA ScansDecode ==
    ASSUME ScansInv, DecodeRecords PROVE ScansInv'
  <1>1. /\ phase = "written" /\ scans' = scans /\ altered' = altered /\ writer' = writer
        /\ phase' = IF \A i \in 1 .. 2 : Verifies(wires[i]) THEN "decoded" ELSE "refused"
    BY DEF DecodeRecords
  <1>2. WiresInv /\ scans \in ScanPairs BY <1>1 DEF ScansInv
  <1>3. CASE \A i \in 1 .. 2 : Verifies(wires[i])
    <2>1. altered => Stripped(wires[2], writer, scans[2]) BY <1>2 DEF WiresInv
    <2>2. writer # "plain" => ~altered BY <1>3, <2>1, StrippedIsRefused
    <2>3. phase' = "decoded" BY <1>1, <1>3
    <2>4. QED BY <1>1, <1>2, <2>2, <2>3 DEF ScansInv
  <1>4. CASE ~\A i \in 1 .. 2 : Verifies(wires[i])
    <2>1. phase' = "refused" BY <1>1, <1>4
    <2>2. ASSUME ~altered, \A i \in 1 .. 2 : WithinBounds(FromScan(scans[i])) PROVE FALSE
      <3>1. \A i \in 1 .. 2 : AsSent(wires[i], writer, scans[i]) BY <1>2, <2>2 DEF WiresInv
      <3>2. \A i \in 1 .. 2 : Verifies(wires[i]) BY <1>2, <2>2, <3>1, SentVerifies
      <3>3. QED BY <1>4, <3>2
    <2>3. QED BY <1>1, <1>2, <2>1, <2>2 DEF ScansInv
  <1>5. QED BY <1>3, <1>4

LEMMA ScansCompare ==
    ASSUME ScansInv, CompareDecoded PROVE ScansInv'
  BY DEF ScansInv, CompareDecoded

(* The order of what was detected is not in a record. *)
LEMMA ReorderedIsSentAlike ==
    ASSUME NEW pair \in ScanPairs, NEW i \in 1 .. 2, DistinctManifests(pair[i]), NEW w
    PROVE  EncodeRecord(w, FromScan(Reordered(pair[i]))).digests = Digests(w, pair[i])
  <1> DEFINE here == Canonicalize(FromScan(pair[i]))
             there == Canonicalize(FromScan(Reordered(pair[i])))
  <1>1. there = here BY CanonicalizeForgetsOrder
  <1>2. EncodeRecord(w, FromScan(Reordered(pair[i]))).digests
          = [s \in Sections |-> IF w = "plain" THEN NoDigest ELSE DigestOf(WrittenBy(w, s, there[s]))]
    BY EncodedRecord
  <1>3. Digests(w, pair[i]) = [s \in Sections |-> IF w = "plain" THEN NoDigest ELSE DigestOf(WrittenBy(w, s, here[s]))]
    BY DEF Digests, SectionOf
  <1> HIDE DEF here, there
  <1>4. QED BY <1>1, <1>2, <1>3

(* Every step of a record keeps it. *)
LEMMA ScansKeepInv == Spec => []ScansInv
  <1>1. Init => ScansInv BY ScansStart
  <1>2. ScansInv /\ [Next]_vars => ScansInv'
    <2> SUFFICES ASSUME ScansInv, [Next]_vars PROVE ScansInv'
      OBVIOUS
    <2>1. CASE UNCHANGED scanVars BY <2>1, ScansUnmoved
    <2>2. CASE ScanNext
      BY <2>2, ScansWrite, ScansIndent, ScansStrip, ScansDecode, ScansCompare DEF ScanNext
    <2>3. QED BY <2>1, <2>2 DEF Next, vars
  <1>3. QED BY <1>1, <1>2, PTL DEF Spec

(* A record identifies its content: reordering what was detected, the minor of
   the schema that wrote it and the way it is laid out change no digest, an
   altered section does, and a reader refuses no record for anything but an
   alteration or its size (sectionDigestsOf, canonicalize and Decode, package
   scan). *)
THEOREM DigestsAlwaysFollowContent == Spec => []DigestsFollowContent
  <1>1. ScansInv => DigestsFollowContent
    <2> SUFFICES ASSUME ScansInv PROVE DigestsFollowContent
      OBVIOUS
    <2>1. ASSUME phase = "written", NEW i \in 1 .. 2, DistinctManifests(scans[i])
          PROVE  EncodeRecord(writer, FromScan(Reordered(scans[i]))).digests = wires[i].digests
      <3>1. WiresInv /\ scans \in ScanPairs BY <2>1 DEF ScansInv
      <3>2. wires[i].digests = Digests(writer, scans[i]) BY <3>1 DEF WiresInv, AsSent, Stripped
      <3>3. QED BY <2>1, <3>1, <3>2, ReorderedIsSentAlike
    <2>2. QED BY <2>1 DEF DigestsFollowContent, ScansInv
  <1>2. QED BY <1>1, ScansKeepInv, PTL
-----------------------------------------------------------------------------
(* The nodes of a merged graph. *)

(* Finitely many nodes, each with an ID of its own. *)
NodeSets ==
    {N \in SUBSET ScanNodes : IsFiniteSet(N) /\ \A n, m \in N : n.id = m.id => n = m}

LEMMA FoldedNode ==
    ASSUME NEW n \in ScanNodes, NEW witness \in ScanNodes
    PROVE  Folded(n, witness) \in ScanNodes /\ Folded(n, witness).id = n.id
  <1> DEFINE source == MergeSources(n, witness)
             relationship == MergeDependencyRelationship(n.relationship, witness.relationship)
             folded == [n EXCEPT !.source = source, !.relationship = relationship]
  <1>1. source \in STRING BY DEF MergeSources, ScanNodes
  <1>2. relationship \in STRING BY DEF MergeDependencyRelationship, ScanNodes
  <1> HIDE DEF source, relationship
  <1>3. folded \in ScanNodes /\ folded.id = n.id BY <1>1, <1>2 DEF ScanNodes
  <1>4. Folded(n, witness) = folded BY DEF Folded, source, relationship
  <1>5. QED BY <1>3, <1>4

LEMMA InsertedNode ==
    ASSUME NEW N \in NodeSets, NEW n \in ScanNodes
    PROVE  InsertedInto(N, n) \in NodeSets
  <1> DEFINE same == {m \in N : m.id = n.id}
  <1>1. N \subseteq ScanNodes /\ IsFiniteSet(N) /\ \A a, b \in N : a.id = b.id => a = b BY DEF NodeSets
  <1>2. CASE same = {}
    <2>1. InsertedInto(N, n) = N \cup {n} BY <1>2 DEF InsertedInto
    <2>2. IsFiniteSet(N \cup {n}) BY <1>1, FS_AddElement
    <2>3. N \cup {n} \in SUBSET ScanNodes BY <1>1
    <2>4. \A a, b \in N \cup {n} : a.id = b.id => a = b BY <1>1, <1>2
    <2>5. QED BY <2>1, <2>2, <2>3, <2>4 DEF NodeSets
  <1>3. CASE same # {}
    <2>1. PICK m \in N : m.id = n.id BY <1>3
    <2> DEFINE folded == Folded(m, n)
               rest == N \ {m}
    <2>2. same = {m} BY <1>1, <2>1
    <2>3. InsertedInto(N, n) = rest \cup {folded} BY <1>3, <2>2 DEF InsertedInto
    <2>4. folded \in ScanNodes /\ folded.id = m.id BY <1>1, FoldedNode
    <2> HIDE DEF folded
    <2>5. IsFiniteSet(rest) BY <1>1, FS_RemoveElement
    <2>6. IsFiniteSet(rest \cup {folded}) BY <2>5, FS_AddElement
    <2>7. rest \cup {folded} \in SUBSET ScanNodes BY <1>1, <2>4
    <2>8. \A a, b \in rest \cup {folded} : a.id = b.id => a = b BY <1>1, <2>4
    <2>9. QED BY <2>3, <2>6, <2>7, <2>8 DEF NodeSets
  <1>4. QED BY <1>2, <1>3

(* Merging one graph, by induction over the sizes of the sets of its nodes. *)
LEMMA MergedNodes ==
    ASSUME NEW N \in NodeSets, NEW e \in ScannedEntries
    PROVE  MergedWith(N, e) \in NodeSets
  <1> DEFINE T == NodeSets
             S == e.graph.nodes
             P == SUBSET S
             pick(s) == CHOOSE x \in s : TRUE
             walk == [p \in P \X T |-> IF p[1] = {} THEN N ELSE InsertedInto(p[2], pick(p[1]))]
             rank == [s \in P |-> Cardinality(s)]
             before == [s \in P |-> s \ {pick(s)}]
             Fold(g) == [s \in P |-> IF s = {} THEN N ELSE InsertedInto(g[s \ {pick(s)}], pick(s))]
             f == CHOOSE g : g = Fold(g)
  <1>1. IsFiniteSet(S) /\ S \subseteq ScanNodes BY ScanAssumption DEF ScannedEntries
  <1> HIDE DEF S
  <1>2. \A s \in P : IsFiniteSet(s) /\ Cardinality(s) \in Nat /\ (Cardinality(s) = 0 <=> s = {})
    <2> TAKE s \in P
    <2>1. IsFiniteSet(s) BY <1>1, FS_Subset
    <2>2. QED BY <2>1, FS_CardinalityType, FS_EmptySet
  <1>3. \A s \in P : s # {} => /\ pick(s) \in s /\ pick(s) \in ScanNodes /\ s \ {pick(s)} \in P
                               /\ Cardinality(s \ {pick(s)}) = Cardinality(s) - 1
    <2> SUFFICES ASSUME NEW s \in P, s # {}
                 PROVE  /\ pick(s) \in s /\ pick(s) \in ScanNodes /\ s \ {pick(s)} \in P
                        /\ Cardinality(s \ {pick(s)}) = Cardinality(s) - 1
      OBVIOUS
    <2>1. pick(s) \in s OBVIOUS
    <2> HIDE DEF pick
    <2>2. pick(s) \in ScanNodes BY <2>1, <1>1
    <2>3. Cardinality(s \ {pick(s)}) = Cardinality(s) - 1 BY <2>1, <1>2, FS_RemoveElement
    <2>4. QED BY <2>1, <2>2, <2>3
  <1> HIDE DEF pick
  <1>4. \A s \in P, t \in T : s # {} => InsertedInto(t, pick(s)) \in T BY <1>3, InsertedNode
  <1>5. walk \in [P \X T -> T]
    <2> SUFFICES ASSUME NEW p \in P \X T
                 PROVE  (IF p[1] = {} THEN N ELSE InsertedInto(p[2], pick(p[1]))) \in T
      OBVIOUS
    <2>1. p[1] \in P /\ p[2] \in T OBVIOUS
    <2> HIDE DEF T, P
    <2>2. QED BY <2>1, <1>4 DEF T
  <1>6. rank \in [P -> Nat] BY <1>2
  <1>7. before \in [P -> P] OBVIOUS
  <1>8. \A s \in P : rank[s] # 0 => rank[before[s]] < rank[s] BY <1>2, <1>3
  <1>9. PICK g \in [P -> T] : FollowsChain(g, P, rank, before, N, walk)
    <2> HIDE DEF P, T, walk, rank, before
    <2>1. N \in T BY DEF T
    <2>2. QED BY <2>1, <1>5, <1>6, <1>7, <1>8, ChainRecursion
  <1>10. g = Fold(g)
    <2> HIDE DEF T
    <2>1. ASSUME NEW s \in P
          PROVE  g[s] = IF s = {} THEN N ELSE InsertedInto(g[s \ {pick(s)}], pick(s))
      <3>1. CASE s = {} BY <3>1, <1>2, <1>9 DEF FollowsChain
      <3>2. CASE s # {}
        <4>1. rank[s] # 0 /\ before[s] = s \ {pick(s)} /\ before[s] \in P BY <3>2, <1>2, <1>7
        <4>2. g[before[s]] \in T BY <4>1, <1>9
        <4>3. g[s] = walk[<<s, g[before[s]]>>] BY <4>1, <1>9 DEF FollowsChain
        <4>4. QED BY <3>2, <4>1, <4>2, <4>3
      <3>3. QED BY <3>1, <3>2
    <2>2. QED BY <2>1, <1>9
  <1>11. f = Fold(f)
    <2> HIDE DEF Fold
    <2> QED BY <1>10
  <1>12. MergedWith(N, e) = f[S] BY DEF MergedWith, FoldSet, MapThenFoldSet, S, pick
  <1> HIDE DEF f
  <1> DEFINE Sizes == {k \in Nat : \A s \in P : Cardinality(s) = k => f[s] \in T}
  <1>13. 0 \in Sizes
    <2>1. f[{}] = N BY <1>11
    <2>2. QED BY <2>1, <1>2
  <1>14. ASSUME NEW k \in Nat, k \in Sizes PROVE k + 1 \in Sizes
    <2> SUFFICES ASSUME NEW s \in P, Cardinality(s) = k + 1 PROVE f[s] \in T
      OBVIOUS
    <2>1. s # {} BY <1>2
    <2>2. s \ {pick(s)} \in P /\ Cardinality(s \ {pick(s)}) = k BY <2>1, <1>3
    <2>3. f[s \ {pick(s)}] \in T BY <2>2, <1>14
    <2>4. f[s] = InsertedInto(f[s \ {pick(s)}], pick(s)) BY <2>1, <1>11
    <2> HIDE DEF T
    <2>5. QED BY <2>1, <2>3, <2>4, <1>4
  <1>15. Nat \subseteq Sizes
    <2> HIDE DEF Sizes
    <2> QED BY <1>13, <1>14, NatSetInduction
  <1>16. S \in P /\ Cardinality(S) \in Nat BY <1>2
  <1>17. QED BY <1>12, <1>15, <1>16

(* Merging the graphs of a scan. *)
LEMMA MergedGraphNodes ==
    ASSUME NEW entries \in Seq(ScannedEntries)
    PROVE  MergedGraph(entries).nodes \in NodeSets
  <1> DEFINE n == Len(entries)
             T == NodeSets
             walk == [p \in (1 .. n) \X T |-> MergedWith(p[2], entries[p[1]])]
             Fold(g) == [s \in SUBSET (1 .. n) |->
                           IF s = {} THEN {} ELSE MergedWith(g[s \ {Max(s)}], entries[Max(s)])]
             f == CHOOSE g : g = Fold(g)
             Along == Nat \X T
  <1>n. n \in Nat /\ DOMAIN entries = 1 .. n /\ \A k \in 1 .. n : entries[k] \in ScannedEntries
    OBVIOUS
  <1>b. {} \in T BY FS_EmptySet DEF NodeSets
  <1> HIDE DEF T, n
  <1>s. \A k \in 1 .. n, t \in T : MergedWith(t, entries[k]) \in T BY <1>n, MergedNodes DEF T
  <1>1. walk \in [(1 .. n) \X T -> T]
    BY <1>s
  <1>2. PICK g \in [SUBSET (1 .. n) -> T] : IsFold(g, n, {}, walk)
    <2> HIDE DEF walk
    <2> QED BY <1>n, <1>b, <1>1, FoldFunctionExists
  <1>3. g = Fold(g)
    <2>1. ASSUME NEW s \in SUBSET (1 .. n), s # {}
          PROVE  g[s] = MergedWith(g[s \ {Max(s)}], entries[Max(s)])
      <3>1. Max(s) \in 1 .. n BY <2>1, <1>n, MaxUpTo
      <3>2. g[s \ {Max(s)}] \in T BY <1>2
      <3>3. QED BY <3>1, <3>2, <1>2, <2>1 DEF IsFold
    <2>2. QED BY <2>1, <1>2 DEF IsFold
  <1>4. f = Fold(f)
    <2> HIDE DEF Fold
    <2> QED BY <1>3
  <1>5. FoldLeft(MergedWith, {}, entries) = f[1 .. n]
    BY <1>n DEF FoldLeft, MapThenFoldSet
  <1> HIDE DEF f
  <1>6. f[{}] = {} BY <1>4
  <1>7. \A k \in 1 .. n : f[1 .. k] = MergedWith(f[1 .. k - 1], entries[k])
    <2> TAKE k \in 1 .. n
    <2>1. /\ 1 .. k \in SUBSET (1 .. n) /\ 1 .. k # {} /\ Max(1 .. k) = k
          /\ (1 .. k) \ {k} = 1 .. k - 1
      BY <1>n, FirstIndices
    <2> DEFINE s == 1 .. k
    <2>2. s \in SUBSET (1 .. n) /\ s # {} /\ Max(s) = k /\ s \ {k} = 1 .. k - 1 BY <2>1
    <2> HIDE DEF s
    <2>3. Fold(f)[s] = MergedWith(f[s \ {Max(s)}], entries[Max(s)]) BY <2>2
    <2> HIDE DEF Fold
    <2>4. f[s] = MergedWith(f[s \ {k}], entries[k]) BY <2>2, <2>3, <1>4
    <2>5. QED BY <2>2, <2>4 DEF s
  <1>8. \A k \in 1 .. n : f[1 .. k] = IF f[1 .. k - 1] \in T THEN walk[<<k, f[1 .. k - 1]>>]
                                      ELSE f[1 .. k]
    BY <1>7
  <1>9. \A k \in 1 .. n, t \in T : <<k - 1, t>> \in Along => <<k, walk[<<k, t>>]>> \in Along
    BY <1>n, <1>s
  <1>10. f[1 .. n] \in T /\ <<n, f[1 .. n]>> \in Along
    <2>1. PICK none : none = {} OBVIOUS
    <2>2. none \in T /\ f[{}] = none /\ <<0, none>> \in Along BY <2>1, <1>b, <1>6
    <2> HIDE DEF walk, Along, Fold
    <2>3. QED BY <2>2, <1>n, <1>1, <1>8, <1>9, FoldInduction
  <1>11. QED BY <1>5, <1>10 DEF MergedGraph, T
-----------------------------------------------------------------------------
(* The comparison of two graphs. *)

(* In the order of a comparison each node has a place of its own, and the places
   are the numbers below how many nodes there are. *)
LEMMA PlacesInDiff ==
    ASSUME NEW N \in NodeSets
    PROVE  /\ Cardinality(N) \in Nat
           /\ \A n \in N : PlaceInDiff(N, n) \in Nat /\ PlaceInDiff(N, n) < Cardinality(N)
           /\ \A n, m \in N : PlaceInDiff(N, n) = PlaceInDiff(N, m) => n = m
           /\ \A i \in Nat : i < Cardinality(N) => \E n \in N : PlaceInDiff(N, n) = i
  <1> DEFINE R == {p \in N \X N : BeforeInDiff(p[1], p[2])}
             place(n) == Cardinality(Lower(R, N, n))
  <1>1. IsFiniteSet(N) /\ \A n, m \in N : n.id = m.id => n = m BY DEF NodeSets
  <1>2. \A n \in N : n.id \in Int /\ n.version \in Int BY DEF NodeSets, ScanNodes
  <1>3. \A n, m \in N : <<n, m>> \in R <=> BeforeInDiff(n, m) OBVIOUS
  <1> HIDE DEF R
  <1>4. Orders(R, N)
    <2>1. \A n, m \in N : n # m => <<n, m>> \in R \/ <<m, n>> \in R
      <3> SUFFICES ASSUME NEW n \in N, NEW m \in N, n # m PROVE BeforeInDiff(n, m) \/ BeforeInDiff(m, n)
        BY <1>3
      <3>1. n.id # m.id BY <1>1
      <3>2. QED BY <3>1, <1>2 DEF BeforeInDiff
    <2>2. \A n, m, k \in N : <<n, m>> \in R /\ <<m, k>> \in R => <<n, k>> \in R
      BY <1>2, <1>3 DEF BeforeInDiff
    <2>3. \A n \in N : <<n, n>> \notin R BY <1>2, <1>3 DEF BeforeInDiff
    <2>4. QED BY <2>1, <2>2, <2>3 DEF Orders
  <1>5. \A n \in N : PlaceInDiff(N, n) = place(n) BY <1>3 DEF PlaceInDiff, Lower
  <1>6. /\ Cardinality(N) \in Nat
        /\ \A n \in N : place(n) \in Nat /\ place(n) + 1 \in 1 .. Cardinality(N)
        /\ \A n, m \in N : <<n, m>> \in R => place(n) < place(m)
        /\ \A i \in 1 .. Cardinality(N) : \E n \in N : place(n) = i - 1
    BY <1>1, <1>4, PlacesInAnOrder
  <1> HIDE DEF place
  <1>7. \A n, m \in N : place(n) = place(m) => n = m
    <2> SUFFICES ASSUME NEW n \in N, NEW m \in N, place(n) = place(m), n # m PROVE FALSE
      OBVIOUS
    <2>1. <<n, m>> \in R \/ <<m, n>> \in R BY <1>4 DEF Orders
    <2>2. place(n) < place(m) \/ place(m) < place(n) BY <2>1, <1>6
    <2>3. place(n) \in Nat /\ place(m) \in Nat BY <1>6
    <2>4. QED BY <2>2, <2>3
  <1>8. ASSUME NEW i \in Nat, i < Cardinality(N) PROVE \E n \in N : place(n) = i
    <2>1. i + 1 \in 1 .. Cardinality(N) /\ (i + 1) - 1 = i BY <1>6, <1>8
    <2>2. QED BY <2>1, <1>6
  <1>9. \A n \in N : place(n) < Cardinality(N) BY <1>6
  <1>10. QED BY <1>5, <1>6, <1>7, <1>8, <1>9

(* Every node has a pair at most, and one side has none left over. *)
LEMMA PlacesPair ==
    ASSUME NEW N \in NodeSets, NEW M \in NodeSets
    PROVE  LET pairs == Paired(N, M)
           IN /\ pairs \subseteq N \X M
              /\ \A p, q \in pairs : p[1] = q[1] <=> p[2] = q[2]
              /\ \A n \in N, m \in M : \E p \in pairs : p[1] = n \/ p[2] = m
  <1> DEFINE pairs == Paired(N, M)
  <1>1. pairs \subseteq N \X M BY DEF Paired
  <1>2. \A n \in N, m \in M : <<n, m>> \in pairs <=> PlaceInDiff(N, n) = PlaceInDiff(M, m) BY DEF Paired
  <1>3. \A p \in pairs : p[1] \in N /\ p[2] \in M /\ PlaceInDiff(N, p[1]) = PlaceInDiff(M, p[2]) BY DEF Paired
  <1> HIDE DEF pairs
  <1>4. \A p, q \in pairs : p[1] = q[1] <=> p[2] = q[2]
    <2> TAKE p \in pairs, q \in pairs
    <2>1. p[1] \in N /\ p[2] \in M /\ q[1] \in N /\ q[2] \in M BY <1>3
    <2>2. p[1] = q[1] => p[2] = q[2] BY <2>1, <1>3, PlacesInDiff
    <2>3. p[2] = q[2] => p[1] = q[1] BY <2>1, <1>3, PlacesInDiff
    <2>4. QED BY <2>2, <2>3
  <1>5. ASSUME NEW n \in N, NEW m \in M PROVE \E p \in pairs : p[1] = n \/ p[2] = m
    <2> DEFINE i == PlaceInDiff(N, n)
               j == PlaceInDiff(M, m)
    <2>1. i \in Nat /\ j \in Nat /\ i < Cardinality(N) /\ j < Cardinality(M)
          /\ Cardinality(N) \in Nat /\ Cardinality(M) \in Nat
      BY PlacesInDiff
    <2>2. CASE i < Cardinality(M)
      <3>1. PICK k \in M : PlaceInDiff(M, k) = i BY <2>1, <2>2, PlacesInDiff
      <3>2. <<n, k>> \in pairs BY <3>1, <1>2
      <3>3. QED BY <3>2
    <2>3. CASE ~(i < Cardinality(M))
      <3>1. j < Cardinality(N) BY <2>1, <2>3
      <3>2. PICK k \in N : PlaceInDiff(N, k) = j BY <2>1, <3>1, PlacesInDiff
      <3>3. <<k, m>> \in pairs BY <3>2, <1>2
      <3>4. QED BY <3>3
    <2>4. QED BY <2>2, <2>3
  <1>6. QED BY <1>1, <1>4, <1>5 DEF pairs

LEMMA PartOfNodeSet ==
    ASSUME NEW N \in NodeSets, NEW M, M \subseteq N
    PROVE  M \in NodeSets
  BY FS_Subset DEF NodeSets

(* What a comparison pairs. *)
Updated(base, head) ==
    LET old == OnlyIn(base, head)
        new == OnlyIn(head, base)
    IN UNION {Paired(OfIdentity(old, k), OfIdentity(new, k)) : k \in {n.identity : n \in old}}

LEMMA UpdatedPairs ==
    ASSUME NEW b, NEW h, b.nodes \in NodeSets, h.nodes \in NodeSets
    PROVE  LET old == OnlyIn(b, h)
               new == OnlyIn(h, b)
               U   == Updated(b, h)
           IN /\ old \in NodeSets /\ new \in NodeSets
              /\ U \subseteq old \X new /\ \A p \in U : p[1].identity = p[2].identity
              /\ \A p, q \in U : p[1] = q[1] <=> p[2] = q[2]
              /\ \A n \in old, m \in new : n.identity = m.identity => \E p \in U : p[1] = n \/ p[2] = m
  <1> DEFINE old == OnlyIn(b, h)
             new == OnlyIn(h, b)
             U == Updated(b, h)
             A(k) == OfIdentity(old, k)
             C(k) == OfIdentity(new, k)
  <1>1. old \subseteq b.nodes /\ new \subseteq h.nodes BY DEF OnlyIn, DependencyNodes
  <1>2. \A p : p \in U <=> \E k \in {n.identity : n \in old} : p \in Paired(A(k), C(k)) BY DEF Updated
  <1> HIDE DEF old, new, U
  <1>3. old \in NodeSets /\ new \in NodeSets BY <1>1, PartOfNodeSet
  <1>4. \A k : /\ A(k) \subseteq old /\ C(k) \subseteq new
               /\ \A n \in A(k) : n.identity = k
               /\ \A n \in C(k) : n.identity = k
    BY DEF OfIdentity
  <1>5. \A k : A(k) \in NodeSets /\ C(k) \in NodeSets BY <1>3, <1>4, PartOfNodeSet
  <1>6. /\ \A n \in old : n \in A(n.identity)
        /\ \A n \in new : n \in C(n.identity)
    BY DEF OfIdentity
  <1> HIDE DEF A, C
  <1>7. \A k : /\ \A p \in Paired(A(k), C(k)) : p[1] \in A(k) /\ p[2] \in C(k) /\ p = <<p[1], p[2]>>
               /\ \A p, q \in Paired(A(k), C(k)) : p[1] = q[1] <=> p[2] = q[2]
               /\ \A n \in A(k), m \in C(k) : \E p \in Paired(A(k), C(k)) : p[1] = n \/ p[2] = m
    <2> TAKE k
    <2>1. Paired(A(k), C(k)) \subseteq A(k) \X C(k) BY <1>5, PlacesPair
    <2>2. QED BY <2>1, <1>5, PlacesPair
  <1>8. \A p \in U : /\ p \in old \X new /\ p[1].identity = p[2].identity
                     /\ p \in Paired(A(p[1].identity), C(p[1].identity))
    <2> TAKE p \in U
    <2>1. PICK k : p \in Paired(A(k), C(k)) BY <1>2
    <2>2. p[1] \in A(k) /\ p[2] \in C(k) /\ p = <<p[1], p[2]>> BY <2>1, <1>7
    <2>3. p[1].identity = k /\ p[2].identity = k BY <2>2, <1>4
    <2>4. p[1] \in old /\ p[2] \in new BY <2>2, <1>4
    <2>5. QED BY <2>1, <2>2, <2>3, <2>4
  <1>9. ASSUME NEW p \in U, NEW q \in U PROVE p[1] = q[1] <=> p[2] = q[2]
    <2> DEFINE k == p[1].identity
    <2>1. p \in Paired(A(k), C(k)) BY <1>8
    <2>2. p[1] = q[1] \/ p[2] = q[2] => q \in Paired(A(k), C(k)) BY <1>8
    <2> HIDE DEF k
    <2>3. QED BY <2>1, <2>2, <1>7
  <1>10. ASSUME NEW n \in old, NEW m \in new, n.identity = m.identity
         PROVE  \E p \in U : p[1] = n \/ p[2] = m
    <2> DEFINE k == n.identity
    <2>1. n \in A(k) /\ m \in C(k) /\ k \in {x.identity : x \in old} BY <1>6, <1>10
    <2> HIDE DEF k
    <2>2. PICK p \in Paired(A(k), C(k)) : p[1] = n \/ p[2] = m BY <2>1, <1>7
    <2>3. p \in U BY <2>1, <1>2
    <2>4. QED BY <2>2, <2>3
  <1>11. QED BY <1>3, <1>8, <1>9, <1>10 DEF old, new, U

(* The other way round the same nodes are paired. *)
LEMMA UpdatedTurned ==
    ASSUME NEW b, NEW h, b.nodes \in NodeSets, h.nodes \in NodeSets
    PROVE  Updated(h, b) = {<<p[2], p[1]>> : p \in Updated(b, h)}
  <1> DEFINE old == OnlyIn(b, h)
             new == OnlyIn(h, b)
             There(k) == Paired(OfIdentity(old, k), OfIdentity(new, k))
             Back(k) == Paired(OfIdentity(new, k), OfIdentity(old, k))
  <1>1. \A p : p \in Updated(b, h) <=> \E k \in {n.identity : n \in old} : p \in There(k) BY DEF Updated
  <1>2. \A p : p \in Updated(h, b) <=> \E k \in {n.identity : n \in new} : p \in Back(k) BY DEF Updated
  <1>3. \A k : /\ \A p \in There(k) : p = <<p[1], p[2]>> /\ <<p[2], p[1]>> \in Back(k)
               /\ \A p \in Back(k) : p = <<p[1], p[2]>> /\ <<p[2], p[1]>> \in There(k)
    BY DEF Paired
  <1>4. \A k, p : p \in There(k) => k \in {n.identity : n \in old} /\ k \in {n.identity : n \in new}
    BY DEF Paired, OfIdentity
  <1> HIDE DEF There, Back, old, new
  <1>5. ASSUME NEW p \in Updated(h, b) PROVE p \in {<<q[2], q[1]>> : q \in Updated(b, h)}
    <2>1. PICK k : p \in Back(k) BY <1>2
    <2> DEFINE q == <<p[2], p[1]>>
    <2>2. q \in There(k) BY <2>1, <1>3
    <2>3. q \in Updated(b, h) BY <2>2, <1>1, <1>4
    <2>4. p = <<q[2], q[1]>> BY <2>1, <1>3
    <2> HIDE DEF q
    <2>5. QED BY <2>3, <2>4
  <1>6. ASSUME NEW q \in Updated(b, h) PROVE <<q[2], q[1]>> \in Updated(h, b)
    <2>1. PICK k : q \in There(k) BY <1>1
    <2>2. QED BY <2>1, <1>2, <1>3, <1>4
  <1>7. QED BY <1>5, <1>6
(* Pairs of nodes, turned and by their IDs. *)
ByIDs(pairs) == {<<p[1].id, p[2].id>> : p \in pairs}

TurnedPairs(pairs) == {<<p[2], p[1]>> : p \in pairs}

(* What a comparison says of two nodes that are one, or a pair. *)
TransitionOf(base, head, p) ==
    LET was == RelationshipIn(base, p[1])
        is  == RelationshipIn(head, p[2])
    IN [before |-> p[1].id, after |-> p[2].id, was |-> was, is |-> is,
        fields |-> ChangedFields(p[1], p[2], was, is)]

KeptPairs(base, head) == {p \in DependencyNodes(base) \X DependencyNodes(head) : p[1].id = p[2].id}

LEMMA CompareIs ==
    ASSUME NEW b, NEW h
    PROVE  LET U == Updated(b, h)
           IN Compare(b, h) =
                [updated     |-> ByIDs(U),
                 removed     |-> NodeIDs(OnlyIn(b, h) \ {p[1] : p \in U}),
                 added       |-> NodeIDs(OnlyIn(h, b) \ {p[2] : p \in U}),
                 transitions |-> {t \in {TransitionOf(b, h, p) : p \in KeptPairs(b, h) \cup U} : t.fields # {}}]
  BY DEF Compare, Updated, TransitionOf, KeptPairs, ByIDs

LEMMA SidesOfIDs ==
    ASSUME NEW pairs
    PROVE  /\ Sides(ByIDs(pairs), 1) = NodeIDs({p[1] : p \in pairs})
           /\ Sides(ByIDs(pairs), 2) = NodeIDs({p[2] : p \in pairs})
  <1> DEFINE IDs(p) == <<p[1].id, p[2].id>>
  <1>1. \A p : IDs(p)[1] = p[1].id /\ IDs(p)[2] = p[2].id OBVIOUS
  <1>2. ByIDs(pairs) = {IDs(p) : p \in pairs} BY DEF ByIDs
  <1> HIDE DEF IDs
  <1>3. Sides(ByIDs(pairs), 1) = {p[1].id : p \in pairs} BY <1>1, <1>2 DEF Sides
  <1>4. Sides(ByIDs(pairs), 2) = {p[2].id : p \in pairs} BY <1>1, <1>2 DEF Sides
  <1>5. QED BY <1>3, <1>4 DEF NodeIDs

LEMMA SidesTurned ==
    ASSUME NEW pairs
    PROVE  /\ {p[1] : p \in TurnedPairs(pairs)} = {p[2] : p \in pairs}
           /\ {p[2] : p \in TurnedPairs(pairs)} = {p[1] : p \in pairs}
           /\ ByIDs(TurnedPairs(pairs)) = TurnedPairs(ByIDs(pairs))
  <1> DEFINE IDs(p) == <<p[1].id, p[2].id>>
             Turn(p) == <<p[2], p[1]>>
  <1>1. \A p : Turn(p)[1] = p[2] /\ Turn(p)[2] = p[1] OBVIOUS
  <1>2. \A p : IDs(Turn(p)) = Turn(IDs(p)) OBVIOUS
  <1>3. /\ TurnedPairs(pairs) = {Turn(p) : p \in pairs}
        /\ ByIDs(pairs) = {IDs(p) : p \in pairs}
        /\ ByIDs(TurnedPairs(pairs)) = {IDs(p) : p \in TurnedPairs(pairs)}
        /\ TurnedPairs(ByIDs(pairs)) = {Turn(p) : p \in ByIDs(pairs)}
    BY DEF ByIDs, TurnedPairs
  <1> HIDE DEF IDs, Turn
  <1>4. {p[1] : p \in TurnedPairs(pairs)} = {p[2] : p \in pairs} BY <1>1, <1>3
  <1>5. {p[2] : p \in TurnedPairs(pairs)} = {p[1] : p \in pairs} BY <1>1, <1>3
  <1>6. ByIDs(TurnedPairs(pairs)) = TurnedPairs(ByIDs(pairs))
    <2>1. \A x : x \in ByIDs(TurnedPairs(pairs)) <=> \E p \in pairs : x = IDs(Turn(p)) BY <1>3
    <2>2. \A x : x \in TurnedPairs(ByIDs(pairs)) <=> \E p \in pairs : x = Turn(IDs(p)) BY <1>3
    <2>3. \A x : x \in ByIDs(TurnedPairs(pairs)) <=> x \in TurnedPairs(ByIDs(pairs)) BY <2>1, <2>2, <1>2
    <2>4. QED BY <2>3
  <1>7. QED BY <1>4, <1>5, <1>6

(* Pairs that one side tells apart are as many as there are on that side. *)
LEMMA SideOfPairs ==
    ASSUME NEW P, IsFiniteSet(P), NEW side, \A p, q \in P : p[side] = q[side] => p = q
    PROVE  Cardinality(P) = Cardinality(Sides(P, side))
  <1> DEFINE S == Sides(P, side)
             f == [p \in P |-> p[side]]
  <1>1. f \in [P -> S] /\ \A s \in S : \E p \in P : f[p] = s BY DEF Sides
  <1>2. f \in Surjection(P, S) BY <1>1 DEF Surjection
  <1>3. \A p, q \in P : f[p] = f[q] => p = q OBVIOUS
  <1> HIDE DEF f, S
  <1>4. f \in Injection(P, S) BY <1>1, <1>3 DEF Injection, IsInjective
  <1>5. QED BY <1>2, <1>4, FS_Surjection DEF S

(* The pairs, by the IDs of their nodes. *)
LEMMA PairsByID ==
    ASSUME NEW N \in NodeSets, NEW M \in NodeSets, NEW U, U \subseteq N \X M,
           \A p, q \in U : p[1] = q[1] <=> p[2] = q[2]
    PROVE  LET ids == ByIDs(U)
           IN /\ Cardinality(ids) = Cardinality(Sides(ids, 1))
              /\ Cardinality(ids) = Cardinality(Sides(ids, 2))
  <1> DEFINE ids == ByIDs(U)
             f == [p \in U |-> <<p[1].id, p[2].id>>]
  <1>1. IsFiniteSet(N \X M) BY FS_Product DEF NodeSets
  <1>2. IsFiniteSet(U) BY <1>1, FS_Subset
  <1>3. f \in Surjection(U, ids) BY DEF Surjection, ByIDs
  <1>4. IsFiniteSet(ids)
    <2> HIDE DEF f, ids
    <2> QED BY <1>2, <1>3, FS_Surjection
  <1>5. \A x, y \in ids : (x[1] = y[1] => x = y) /\ (x[2] = y[2] => x = y)
    <2> TAKE x \in ids, y \in ids
    <2>1. PICK p \in U : x = <<p[1].id, p[2].id>> BY DEF ByIDs
    <2>2. PICK q \in U : y = <<q[1].id, q[2].id>> BY DEF ByIDs
    <2>3. p[1] \in N /\ p[2] \in M /\ q[1] \in N /\ q[2] \in M OBVIOUS
    <2>4. /\ p[1].id = q[1].id => p[1] = q[1]
          /\ p[2].id = q[2].id => p[2] = q[2]
      BY <2>3 DEF NodeSets
    <2>5. p[1] = q[1] <=> p[2] = q[2] OBVIOUS
    <2>6. QED BY <2>1, <2>2, <2>4, <2>5
  <1> HIDE DEF ids
  <1>6. QED BY <1>4, <1>5, SideOfPairs DEF ids

(* What a comparison leaves over on one side, and what it pairs. *)
LEMMA LeftOver ==
    ASSUME NEW N \in NodeSets, NEW paired, paired \subseteq N
    PROVE  LET left == NodeIDs(N \ paired)
           IN /\ left \cup NodeIDs(paired) = NodeIDs(N)
              /\ left \cap NodeIDs(paired) = {}
              /\ \A n \in N : n.id \in left => n \notin paired
  BY DEF NodeIDs, NodeSets

LEMMA ChangesTold ==
    ASSUME NEW b, NEW h, b.nodes \in NodeSets, h.nodes \in NodeSets
    PROVE  LET diff == Compare(b, h)
           IN /\ diff.removed \cup Sides(diff.updated, 1) = NodeIDs(OnlyIn(b, h))
              /\ diff.added \cup Sides(diff.updated, 2) = NodeIDs(OnlyIn(h, b))
              /\ diff.removed \cap Sides(diff.updated, 1) = {} /\ diff.added \cap Sides(diff.updated, 2) = {}
              /\ Cardinality(diff.updated) = Cardinality(Sides(diff.updated, 1))
              /\ Cardinality(diff.updated) = Cardinality(Sides(diff.updated, 2))
              /\ {n.identity : n \in {m \in b.nodes : m.id \in diff.removed}}
                   \cap {n.identity : n \in {m \in h.nodes : m.id \in diff.added}} = {}
  <1> DEFINE diff == Compare(b, h)
             old == OnlyIn(b, h)
             new == OnlyIn(h, b)
             U == Updated(b, h)
             ids == ByIDs(U)
             gone == {p[1] : p \in U}
             come == {p[2] : p \in U}
  <1>1. diff.updated = ids /\ diff.removed = NodeIDs(old \ gone) /\ diff.added = NodeIDs(new \ come)
    BY CompareIs
  <1>2. old \subseteq b.nodes /\ new \subseteq h.nodes BY DEF OnlyIn, DependencyNodes
  <1> HIDE DEF diff, old, new, U
  <1>3. /\ old \in NodeSets /\ new \in NodeSets
        /\ U \subseteq old \X new /\ \A p \in U : p[1].identity = p[2].identity
        /\ \A p, q \in U : p[1] = q[1] <=> p[2] = q[2]
        /\ \A n \in old, m \in new : n.identity = m.identity => \E p \in U : p[1] = n \/ p[2] = m
    BY UpdatedPairs DEF old, new, U
  <1>4. gone \subseteq old /\ come \subseteq new BY <1>3
  <1>5. Sides(ids, 1) = NodeIDs(gone) /\ Sides(ids, 2) = NodeIDs(come)
    BY SidesOfIDs
  <1>6. Cardinality(ids) = Cardinality(Sides(ids, 1)) /\ Cardinality(ids) = Cardinality(Sides(ids, 2))
    <2>1. U \subseteq old \X new BY <1>3
    <2>2. QED BY <2>1, <1>3, PairsByID
  <1>7. ASSUME NEW n \in b.nodes, n.id \in diff.removed, NEW m \in h.nodes, m.id \in diff.added
        PROVE  n.identity # m.identity
    <2>1. n \in old \ gone
      <3>1. PICK x \in old \ gone : x.id = n.id BY <1>1, <1>7 DEF NodeIDs
      <3>2. x = n BY <3>1, <1>2 DEF NodeSets
      <3>3. QED BY <3>2
    <2>2. m \in new \ come
      <3>1. PICK x \in new \ come : x.id = m.id BY <1>1, <1>7 DEF NodeIDs
      <3>2. x = m BY <3>1, <1>2 DEF NodeSets
      <3>3. QED BY <3>2
    <2>3. ~\E p \in U : p[1] = n \/ p[2] = m BY <2>1, <2>2
    <2>4. QED BY <2>1, <2>2, <2>3, <1>3
  <1> HIDE DEF ids
  <1>8. /\ diff.removed \cup Sides(ids, 1) = NodeIDs(old) /\ diff.removed \cap Sides(ids, 1) = {}
        /\ diff.added \cup Sides(ids, 2) = NodeIDs(new) /\ diff.added \cap Sides(ids, 2) = {}
    <2> HIDE DEF gone, come
    <2>1. /\ NodeIDs(old \ gone) \cup NodeIDs(gone) = NodeIDs(old)
          /\ NodeIDs(old \ gone) \cap NodeIDs(gone) = {}
      BY <1>3, <1>4, LeftOver
    <2>2. /\ NodeIDs(new \ come) \cup NodeIDs(come) = NodeIDs(new)
          /\ NodeIDs(new \ come) \cap NodeIDs(come) = {}
      BY <1>3, <1>4, LeftOver
    <2>3. QED BY <2>1, <2>2, <1>1, <1>5
  <1>9. QED BY <1>1, <1>6, <1>7, <1>8 DEF diff, old, new

(* Comparing back. *)

LEMMA FieldsTurned ==
    ASSUME NEW n, NEW m, NEW was, NEW is
    PROVE  ChangedFields(m, n, is, was) = ChangedFields(n, m, was, is)
  <1>1. "relationship" # "source" /\ "relationship" # "eligibility" /\ "source" # "eligibility" OBVIOUS
  <1>2. QED BY <1>1, Zenon DEF ChangedFields

LEMMA TransitionTurned ==
    ASSUME NEW b, NEW h, NEW p
    PROVE  LET there == TransitionOf(b, h, p)
               back  == TransitionOf(h, b, <<p[2], p[1]>>)
           IN /\ back = [before |-> there.after, after |-> there.before, was |-> there.is, is |-> there.was,
                         fields |-> there.fields]
              /\ back.fields = there.fields
  BY FieldsTurned DEF TransitionOf

LEMMA ComparedBack ==
    ASSUME NEW b, NEW h, b.nodes \in NodeSets, h.nodes \in NodeSets
    PROVE  Compare(h, b) = Mirrored(Compare(b, h))
  <1> DEFINE U == Updated(b, h)
             V == Updated(h, b)
             K == KeptPairs(b, h)
             L == KeptPairs(h, b)
             T(p) == TransitionOf(b, h, p)
             Back(p) == TransitionOf(h, b, p)
             Turned(t) == [before |-> t.after, after |-> t.before, was |-> t.is, is |-> t.was, fields |-> t.fields]
             there == {t \in {T(p) : p \in K \cup U} : t.fields # {}}
             back == {t \in {Back(p) : p \in L \cup V} : t.fields # {}}
             diff == Compare(b, h)
  <1>1. Compare(h, b) = [updated |-> ByIDs(V),
                         removed |-> NodeIDs(OnlyIn(h, b) \ {p[1] : p \in V}),
                         added |-> NodeIDs(OnlyIn(b, h) \ {p[2] : p \in V}),
                         transitions |-> back]
    BY CompareIs
  <1>2. /\ diff.updated = ByIDs(U)
        /\ diff.removed = NodeIDs(OnlyIn(b, h) \ {p[1] : p \in U})
        /\ diff.added = NodeIDs(OnlyIn(h, b) \ {p[2] : p \in U})
        /\ diff.transitions = there
    BY CompareIs
  <1>3. V = TurnedPairs(U) BY UpdatedTurned DEF TurnedPairs
  <1>4. L = TurnedPairs(K)
    <2> DEFINE N == DependencyNodes(b)
               M == DependencyNodes(h)
    <2>1. K = {p \in N \X M : p[1].id = p[2].id} /\ L = {p \in M \X N : p[1].id = p[2].id} BY DEF KeptPairs
    <2> HIDE DEF N, M, K, L
    <2>2. \A p \in L : <<p[2], p[1]>> \in K /\ p = <<p[1], p[2]>> BY <2>1
    <2>3. \A p \in K : <<p[2], p[1]>> \in L BY <2>1
    <2>4. ASSUME NEW p \in L PROVE p \in TurnedPairs(K)
      <3> DEFINE q == <<p[2], p[1]>>
      <3>1. q \in K /\ p = <<q[2], q[1]>> BY <2>2
      <3> HIDE DEF q
      <3>2. QED BY <3>1 DEF TurnedPairs
    <2>5. QED BY <2>3, <2>4 DEF TurnedPairs
  <1>5. \A p : Back(<<p[2], p[1]>>) = Turned(T(p)) /\ Back(<<p[2], p[1]>>).fields = T(p).fields
    BY TransitionTurned
  <1> HIDE DEF diff, U, V, K, L, T, Back
  <1>6. /\ {p[1] : p \in V} = {p[2] : p \in U} /\ {p[2] : p \in V} = {p[1] : p \in U}
        /\ ByIDs(V) = TurnedPairs(ByIDs(U))
    BY <1>3, SidesTurned
  <1>8. back = {Turned(t) : t \in there}
    <2> HIDE DEF Turned
    <2> DEFINE Swapped(p) == <<p[2], p[1]>>
    <2>1. L \cup V = {Swapped(p) : p \in K \cup U} BY <1>3, <1>4 DEF TurnedPairs
    <2>2. \A p : Back(Swapped(p)) = Turned(T(p)) /\ Back(Swapped(p)).fields = T(p).fields BY <1>5
    <2> HIDE DEF Swapped
    <2>3. {Back(q) : q \in L \cup V} = {Turned(T(p)) : p \in K \cup U} BY <2>1, <2>2
    <2>4. \A p : Turned(T(p)).fields = T(p).fields BY DEF Turned
    <2>5. QED BY <2>3, <2>4
  <1>9. Mirrored(diff) = [updated |-> TurnedPairs(diff.updated), removed |-> diff.added,
                          added |-> diff.removed, transitions |-> {Turned(t) : t \in diff.transitions}]
    BY DEF Mirrored, TurnedPairs
  <1> HIDE DEF Turned, there, back
  <1>10. QED BY <1>1, <1>2, <1>6, <1>8, <1>9 DEF diff

(* A comparison of two scans accounts for every dependency that only one of them
   has, once; no addition and removal are told of what could have been an
   update; and comparing back says the same backwards (Compare,
   model/graph.go). *)
THEOREM ChangesAreAlwaysToldOnce == Spec => []ChangesAreToldOnce
  <1>1. ScansInv => ChangesAreToldOnce
    <2> SUFFICES ASSUME ScansInv, phase = "scanned" PROVE ChangesAreToldOnce
      BY DEF ChangesAreToldOnce
    <2> DEFINE b == ScannedGraph(1)
               h == ScannedGraph(2)
    <2>1. scans \in ScanPairs BY DEF ScansInv
    <2>2. ASSUME NEW i \in 1 .. 2 PROVE ScannedGraph(i).nodes \in NodeSets
      <3>1. scans[i].entries \in Seq(ScannedEntries) BY <2>1, ScansAreListed DEF IsScan
      <3>2. QED BY <3>1, MergedGraphNodes DEF ScannedGraph
    <2>3. b.nodes \in NodeSets /\ h.nodes \in NodeSets BY <2>2
    <2> HIDE DEF b, h
    <2>4. Compare(h, b) = Mirrored(Compare(b, h)) BY <2>3, ComparedBack
    <2>5. LET diff == Compare(b, h)
          IN /\ diff.removed \cup Sides(diff.updated, 1) = NodeIDs(OnlyIn(b, h))
             /\ diff.added \cup Sides(diff.updated, 2) = NodeIDs(OnlyIn(h, b))
             /\ diff.removed \cap Sides(diff.updated, 1) = {} /\ diff.added \cap Sides(diff.updated, 2) = {}
             /\ Cardinality(diff.updated) = Cardinality(Sides(diff.updated, 1))
             /\ Cardinality(diff.updated) = Cardinality(Sides(diff.updated, 2))
             /\ {n.identity : n \in {m \in b.nodes : m.id \in diff.removed}}
                  \cap {n.identity : n \in {m \in h.nodes : m.id \in diff.added}} = {}
      BY <2>3, ChangesTold
    <2>6. QED BY <2>4, <2>5 DEF ChangesAreToldOnce, GraphAnswer, b, h
  <1>2. QED BY <1>1, ScansKeepInv, PTL
-----------------------------------------------------------------------------
(* What documents are called. *)

(* max(version, 1): the version an encoder writes. *)
AtLeastOne(v) == Max({v, 1})

(* A version that is written is at least 1. *)
LEMMA AtLeastOneIs ==
    ASSUME NEW v \in Int
    PROVE  /\ AtLeastOne(v) \in Nat \ {0}
           /\ v <= 0 => AtLeastOne(v) = 1
           /\ v > 0 => AtLeastOne(v) = v
           /\ AtLeastOne(AtLeastOne(v)) = AtLeastOne(v)
  <1>1. \A x \in Int : AtLeastOne(x) = IF x > 1 THEN x ELSE 1
    <2> TAKE x \in Int
    <2> DEFINE m == IF x > 1 THEN x ELSE 1
    <2>1. m \in {x, 1} /\ \A y \in {x, 1} : m >= y OBVIOUS
    <2>2. \A k \in {x, 1} : (\A y \in {x, 1} : k >= y) => k = m OBVIOUS
    <2> HIDE DEF m
    <2>3. QED BY <2>1, <2>2 DEF AtLeastOne, Max, m
  <1>2. QED BY <1>1

(* What is on a wire, and what a build is called in either format; every number
   is below what the next build mints. *)
WellNamed(on, n) ==
    /\ on.format \in {"cyclonedx", "spdx"} /\ on.version \in Int
    /\ on.serial \in Nat /\ on.serial < Minted(n + 1)
    /\ IsIdentity(on.namespace) /\ on.namespace.id < Minted(n + 1)

WellBuilt(built, n) ==
    /\ built.serial \in Nat \ {0} /\ built.serial < Minted(n + 1) /\ built.serialVersion \in Int
    /\ IsIdentity(built.namespace) /\ built.namespace.id < Minted(n + 1)

BuildNames(built) ==
    {BOMLink(built.serial, AtLeastOne(built.serialVersion)), Canonical(built.namespace, AtLeastOne(built.serialVersion))}

(* The names nobody had before. *)
Fresh(name, n) == name.form = 3 /\ name.id = Minted(n)

(* Names stay below what is minted, however often that happens. *)
LEMMA BoundsGrow ==
    ASSUME NEW n \in Nat
    PROVE  /\ \A on : WellNamed(on, n) => WellNamed(on, n + 1)
           /\ Minted(n + 1) \in Nat \ {0} /\ Minted(n + 1) < Minted(n + 2)
  BY DEF WellNamed, Minted, IsIdentity

(* No document of the archive has the name that is minted next. *)
LEMMA NamesAreOld ==
    ASSUME NEW n \in Nat, NEW on, WellNamed(on, n), NEW name \in OwnNames(on)
    PROVE  ~Fresh(name, n + 1)
  <1> DEFINE id == on.namespace
             v == Max({on.version, 1})
  <1>1. BOMLink(on.serial, v).id = on.serial /\ BOMLink(id.id, v).id = id.id BY DEF BOMLink
  <1>2. name.id = on.serial \/ name.id = id.id
    <2> HIDE DEF v
    <2>1. name = BOMLink(on.serial, v) \/ name = Canonical(id, on.version) BY DEF OwnNames, v
    <2>2. Canonical(id, on.version) = BOMLink(id.id, v) \/ Canonical(id, on.version) = id BY DEF Canonical, v
    <2>3. QED BY <2>1, <2>2, <1>1
  <1>3. on.serial < Minted(n + 1) /\ id.id < Minted(n + 1) /\ on.serial \in Nat /\ id.id \in Nat /\ Minted(n + 1) \in Nat
    BY DEF WellNamed, IsIdentity, Minted
  <1> HIDE DEF id
  <1>4. QED BY <1>2, <1>3 DEF Fresh

(* A build is called the same in both formats but for how it is spelled. *)
LEMMA EncodedNames ==
    ASSUME NEW n \in Nat, NEW built, WellBuilt(built, n)
    PROVE  /\ WellNamed(EncodeCycloneDX(built), n) /\ OwnNames(EncodeCycloneDX(built)) \subseteq BuildNames(built)
           /\ WellNamed(EncodeSPDX(built), n) /\ OwnNames(EncodeSPDX(built)) \subseteq BuildNames(built)
  <1> DEFINE c == EncodeCycloneDX(built)
             s == EncodeSPDX(built)
             v == AtLeastOne(built.serialVersion)
  <1>1. v \in Nat \ {0} /\ AtLeastOne(v) = v BY AtLeastOneIs DEF WellBuilt
  <1>2. /\ c.format = "cyclonedx" /\ c.serial = built.serial /\ c.namespace = NoIdentity /\ c.version = v
        /\ s.format = "spdx" /\ s.serial = 0 /\ s.namespace = built.namespace /\ s.version = v
    BY DEF EncodeCycloneDX, EncodeSPDX, SerialVersionOrDefault, AtLeastOne
  <1> HIDE DEF c, s, v
  <1>3. IsIdentity(NoIdentity) /\ NoIdentity.id = 0 BY DEF IsIdentity, NoIdentity
  <1>4. Minted(n + 1) \in Nat \ {0} BY DEF Minted
  <1>5. WellNamed(c, n) /\ WellNamed(s, n) BY <1>1, <1>2, <1>3, <1>4 DEF WellNamed, WellBuilt
  <1>6. OwnNames(c) = {BOMLink(built.serial, v)} BY <1>1, <1>2 DEF OwnNames, WellBuilt, AtLeastOne
  <1>7. OwnNames(s) = {Canonical(built.namespace, v)} BY <1>2 DEF OwnNames
  <1>8. QED BY <1>5, <1>6, <1>7 DEF BuildNames, c, s, v

(* What a document is called is read as it was written. *)
LEMMA NamesAreRead ==
    ASSUME NEW n \in Nat, NEW i, WellNamed(archive[i].wire, n)
    PROVE  LET only == Normalized(DecodeDocument(i))
           IN /\ IsIdentity(only.identity) /\ only.version \in Int /\ only.identity.id < Minted(n + 1)
              /\ only.identity # NoIdentity =>
                   OwnNames(archive[i].wire) = {Canonical(only.identity, only.version)} /\ only.identity.form > 0
  <1> DEFINE on == archive[i].wire
             stated == IF on.format = "cyclonedx"
                       THEN IF on.serial = 0 THEN NoIdentity ELSE BOMLink(on.serial, AtLeastOne(on.version))
                       ELSE on.namespace
             id == Locator(stated)
             v == VersionFor(id, on.version)
             read == IF on.format = "cyclonedx" THEN CycloneDXDocumentAssertions(on) ELSE SPDXDocumentAssertions(on)
             only == Normalized(DecodeDocument(i))
  <1>1. on.format \in {"cyclonedx", "spdx"} /\ on.version \in Int /\ on.serial \in Nat
        /\ IsIdentity(on.namespace) /\ on.serial < Minted(n + 1) /\ on.namespace.id < Minted(n + 1)
    BY DEF WellNamed
  <1>2. AtLeastOne(on.version) \in Nat \ {0} BY <1>1, AtLeastOneIs
  <1>3. read.identity = id /\ read.version = v /\ DecodeDocument(i).identity = id /\ DecodeDocument(i).version = v
    <2>1. CASE on.format = "cyclonedx"
      BY <2>1 DEF DecodeDocument, CycloneDXDocumentAssertions, Normalized, NoAssertions, AtLeastOne
    <2>2. CASE on.format # "cyclonedx"
      BY <2>2 DEF DecodeDocument, SPDXDocumentAssertions, Normalized, NoAssertions
    <2>3. QED BY <2>1, <2>2
  <1> HIDE DEF read
  <1>4. only.identity = Locator(id) /\ only.version = VersionFor(Locator(id), v) BY <1>3 DEF Normalized
  <1> HIDE DEF on, only
  <1>5. IsIdentity(stated) /\ stated.id < Minted(n + 1)
    <2>1. CASE on.format = "cyclonedx"
      BY <1>1, <1>2, <2>1 DEF IsIdentity, NoIdentity, BOMLink, Minted
    <2>2. CASE on.format # "cyclonedx" BY <1>1, <2>2
    <2>3. QED BY <2>1, <2>2
  <1>6. IsIdentity(id) /\ id.id < Minted(n + 1) /\ Locator(id) = id
    BY <1>5 DEF Locator, IsIdentity, NoIdentity, Refused, Minted
  <1>7. v \in Int /\ VersionFor(id, v) = v BY <1>1 DEF VersionFor
  <1>8. ASSUME id # NoIdentity PROVE OwnNames(on) = {Canonical(id, v)} /\ id.form > 0
    <2>1. id = stated BY <1>8 DEF Locator
    <2>2. id.form > 0
      <3> HIDE DEF id
      <3>1. id # Refused /\ IsIdentity(id) BY <1>6, <1>8 DEF Locator
      <3>2. id = [form |-> id.form, id |-> id.id, rev |-> id.rev] /\ id.form \in -1 .. 3
            /\ (id.form <= 0 => id.id = 0 /\ id.rev = 0)
        BY <3>1 DEF IsIdentity
      <3>3. id.form # 0 /\ id.form # -1 BY <3>1, <3>2, <1>8 DEF NoIdentity, Refused
      <3>4. QED BY <3>2, <3>3
    <2>3. CASE on.format = "cyclonedx"
      <3>1. on.serial # 0 /\ id = BOMLink(on.serial, AtLeastOne(on.version)) BY <1>8, <2>1, <2>3
      <3>2. id.form = 3 BY <3>1 DEF BOMLink
      <3>3. OwnNames(on) = {id} BY <2>3, <3>1 DEF OwnNames, AtLeastOne
      <3> HIDE DEF id
      <3>4. Canonical(id, v) = id BY <3>2 DEF Canonical
      <3>5. QED BY <2>2, <3>3, <3>4
    <2>4. CASE on.format # "cyclonedx"
      <3>1. on.format = "spdx" /\ id = on.namespace BY <1>1, <2>1, <2>4
      <3>2. OwnNames(on) = {Canonical(id, on.version)} BY <3>1 DEF OwnNames
      <3>3. Canonical(id, v) = Canonical(id, on.version)
        <4>1. CASE id.form = 1
          <5>1. v = IF on.version <= 0 THEN 0 ELSE on.version BY <4>1 DEF VersionFor, IsBOMLink
          <5>2. AtLeastOne(v) = AtLeastOne(on.version) BY <5>1, <1>1, AtLeastOneIs
          <5> HIDE DEF v, id
          <5>3. QED BY <5>2 DEF Canonical, AtLeastOne
        <4>2. CASE id.form # 1 BY <4>2 DEF Canonical
        <4>3. QED BY <4>1, <4>2
      <3>4. QED BY <2>2, <3>2, <3>3
    <2>5. QED BY <2>3, <2>4
  <1>9. only.identity = id /\ only.version = v BY <1>4, <1>6, <1>7
  <1> HIDE DEF id, v
  <1>10. QED BY <1>6, <1>7, <1>8, <1>9 DEF on, only

-----------------------------------------------------------------------------
(* What a build is called. *)

Slots == {"serial", "serialVersion", "namespace", "name", "created", "comment", "creators", "tools", "sources"}

(* A document is called the same as another. *)
SameIdentity(built, was) ==
    /\ DOMAIN built = Slots
    /\ built.serial = was.serial /\ built.serialVersion = was.serialVersion /\ built.namespace = was.namespace

(* A document nothing was said of has no identity. *)
LEMMA NothingIsSaid ==
    /\ DOMAIN EmptyDocument = Slots
    /\ EmptyDocument.serial = 0 /\ EmptyDocument.serialVersion = 0 /\ EmptyDocument.namespace = NoIdentity
  BY DEF EmptyDocument, Slots

(* What else is said of a document leaves its identity alone. *)
LEMMA IdentityIsApart ==
    ASSUME NEW built, DOMAIN built = Slots, NEW x, NEW y, NEW z
    PROVE  /\ SameIdentity([built EXCEPT !.sources = x, !.creators = y, !.tools = z], built)
           /\ SameIdentity([built EXCEPT !.comment = x, !.name = y, !.created = z], built)
           /\ SameIdentity([built EXCEPT !.created = x, !.name = y], built)
  BY DEF SameIdentity, Slots

(* The identity of the source is taken over, if it has one. *)
LEMMA IdentityIsInherited ==
    ASSUME NEW built, DOMAIN built = Slots, NEW only
    PROVE  LET id == only.identity
               was == InheritedIdentity(built, only)
           IN /\ id = NoIdentity => was = built
              /\ id # NoIdentity =>
                   /\ DOMAIN was = Slots /\ was.namespace = id
                   /\ IsBOMLink(id) => was.serial = id.id /\ was.serialVersion = id.rev
                   /\ ~IsBOMLink(id) => was.serial = built.serial /\ was.serialVersion = only.version
  <1> DEFINE id == only.identity
             was == InheritedIdentity(built, only)
  <1>1. CASE id = NoIdentity BY <1>1 DEF InheritedIdentity
  <1>2. CASE id # NoIdentity /\ IsBOMLink(id)
    <2>1. was = [built EXCEPT !.namespace = id, !.serial = id.id, !.serialVersion = id.rev]
      BY <1>2 DEF InheritedIdentity
    <2> HIDE DEF was, id
    <2>2. QED BY <1>2, <2>1 DEF Slots, was, id
  <1>3. CASE id # NoIdentity /\ ~IsBOMLink(id)
    <2>1. was = [built EXCEPT !.namespace = id, !.serialVersion = only.version]
      BY <1>3 DEF InheritedIdentity
    <2> HIDE DEF was, id
    <2>2. QED BY <1>3, <2>1 DEF Slots, was, id
  <1>4. QED BY <1>1, <1>2, <1>3

(* What MintDocumentIdentity makes of an identity, or of none. *)
LEMMA IdentityIsMinted ==
    ASSUME NEW built, DOMAIN built = Slots, NEW fresh
    PROVE  LET was  == MintDocumentIdentity(built, fresh)
               uuid == FillGap(DocumentUUID(built), fresh)
           IN /\ DOMAIN was = Slots
              /\ was.serial = FillGap(built.serial, uuid) /\ was.serialVersion = built.serialVersion
              /\ was.namespace = IF built.namespace = NoIdentity THEN Bomly(uuid) ELSE built.namespace
  <1> DEFINE uuid == FillGap(DocumentUUID(built), fresh)
             serial == FillGap(built.serial, uuid)
             namespace == IF built.namespace = NoIdentity THEN Bomly(uuid) ELSE built.namespace
  <1>1. MintDocumentIdentity(built, fresh) = [built EXCEPT !.serial = serial, !.namespace = namespace]
    BY DEF MintDocumentIdentity
  <1> HIDE DEF serial, namespace
  <1>2. QED BY <1>1 DEF Slots, serial, namespace

(* A document is called what its only source is called, or what no document was
   called before. *)
CalledFor(name, identity, version, n) ==
    Fresh(name, n + 1) \/ (identity # NoIdentity /\ name = Canonical(identity, version))

LEMMA MintedNames ==
    ASSUME NEW n \in Nat, NEW id, IsIdentity(id), id.id < Minted(n + 1), id = NoIdentity \/ id.form > 0,
           NEW version \in Int,
           NEW built, DOMAIN built = Slots,
           built.namespace = id,
           IsBOMLink(id) => built.serial = id.id /\ built.serialVersion = id.rev,
           ~IsBOMLink(id) => built.serial = 0 /\ built.serialVersion \in Int
                             /\ (id # NoIdentity => built.serialVersion = version)
    PROVE  LET was == MintDocumentIdentity(built, Minted(n + 1))
           IN /\ WellBuilt(was, n + 1)
              /\ \A name \in BuildNames(was) : CalledFor(name, id, version, n)
  <1> DEFINE fresh == Minted(n + 1)
             uuid == FillGap(DocumentUUID(built), fresh)
             was == MintDocumentIdentity(built, fresh)
             v == AtLeastOne(was.serialVersion)
  <1>1. /\ was.serial = FillGap(built.serial, uuid) /\ was.serialVersion = built.serialVersion
        /\ was.namespace = IF id = NoIdentity THEN Bomly(uuid) ELSE id
    BY IdentityIsMinted
  <1>2. fresh \in Nat \ {0} /\ fresh < Minted(n + 2) /\ Minted(n + 2) \in Nat BY DEF Minted
  <1>3. id.form \in -1 .. 3 /\ id.id \in Nat /\ id.rev \in Nat /\ (id.form > 0 => id.id > 0)
        /\ (id.form = 3 => id.rev > 0) /\ id.id < fresh
    BY DEF IsIdentity
  <1>4. BuildNames(was) = {BOMLink(was.serial, v), Canonical(was.namespace, v)} BY DEF BuildNames
  <1>w. WellBuilt(was, n + 1) <=>
          /\ was.serial \in Nat \ {0} /\ was.serial < Minted(n + 2) /\ was.serialVersion \in Int
          /\ IsIdentity(was.namespace) /\ was.namespace.id < Minted(n + 2)
    <2>1. (n + 1) + 1 = n + 2 OBVIOUS
    <2> HIDE DEF was
    <2>2. QED BY <2>1 DEF WellBuilt
  <1> HIDE DEF was, fresh
  <1>5. CASE id = NoIdentity
    <2>1. built.serial = 0 /\ built.serialVersion \in Int BY <1>5 DEF IsBOMLink, NoIdentity
    <2>2. uuid = fresh BY <1>5, <2>1 DEF DocumentUUID, FillGap, NoIdentity
    <2> HIDE DEF uuid, v
    <2>3. was.serial = fresh /\ was.namespace = Bomly(fresh) /\ was.serialVersion \in Int
      BY <1>1, <1>2, <1>5, <2>1, <2>2 DEF FillGap
    <2>4. IsIdentity(Bomly(fresh)) /\ Bomly(fresh).id = fresh BY <1>2 DEF IsIdentity, Bomly
    <2>5. WellBuilt(was, n + 1) BY <1>w, <1>2, <2>3, <2>4
    <2>6. Canonical(Bomly(fresh), v).form = 3 /\ Canonical(Bomly(fresh), v).id = fresh
      BY DEF Canonical, Bomly, BOMLink
    <2>7. BOMLink(fresh, v).form = 3 /\ BOMLink(fresh, v).id = fresh BY DEF BOMLink
    <2>8. Fresh(BOMLink(fresh, v), n + 1) /\ Fresh(Canonical(Bomly(fresh), v), n + 1)
      BY <2>6, <2>7 DEF Fresh, fresh
    <2>9. \A name \in BuildNames(was) : Fresh(name, n + 1) BY <1>4, <2>3, <2>8
    <2>10. QED BY <2>5, <2>9 DEF CalledFor, fresh, was
  <1>6. CASE IsBOMLink(id)
    <2>1. id.form = 3 /\ id # NoIdentity BY <1>6 DEF IsBOMLink, NoIdentity
    <2>2. built.serial = id.id /\ id.id # 0 BY <1>3, <1>6, <2>1
    <2> HIDE DEF uuid, v
    <2>3. was.serial = id.id /\ was.namespace = id /\ was.serialVersion = id.rev
      BY <1>1, <1>6, <2>1, <2>2 DEF FillGap
    <2>4. WellBuilt(was, n + 1) BY <1>w, <1>2, <1>3, <2>1, <2>3
    <2>5. v = id.rev BY <1>3, <2>1, <2>3, AtLeastOneIs DEF v
    <2>6. BOMLink(id.id, id.rev) = id BY <2>1 DEF BOMLink, IsIdentity
    <2>7. Canonical(id, v) = id /\ Canonical(id, version) = id BY <2>1 DEF Canonical
    <2>8. QED BY <1>4, <2>1, <2>3, <2>4, <2>5, <2>6, <2>7 DEF CalledFor, was, fresh
  <1>7. CASE id.form = 1
    <2>1. ~IsBOMLink(id) /\ id # NoIdentity BY <1>7 DEF IsBOMLink, NoIdentity
    <2>2. built.serial = 0 /\ built.serialVersion = version BY <2>1
    <2>3. uuid = id.id BY <1>3, <1>7, <2>2 DEF DocumentUUID, FillGap
    <2> HIDE DEF uuid, v
    <2>4. was.serial = id.id /\ was.namespace = id /\ was.serialVersion = version
      BY <1>1, <2>1, <2>2, <2>3 DEF FillGap
    <2>5. WellBuilt(was, n + 1) BY <1>w, <1>2, <1>3, <1>7, <2>4
    <2>6. v = AtLeastOne(version) BY <2>4 DEF v
    <2>7. Canonical(id, version) = BOMLink(id.id, v) BY <1>7, <2>6 DEF Canonical, AtLeastOne
    <2>8. v \in Nat \ {0} /\ AtLeastOne(v) = v BY <2>6, AtLeastOneIs
    <2>9. Canonical(id, v) = BOMLink(id.id, v) BY <1>7, <2>8 DEF Canonical, AtLeastOne
    <2>10. QED BY <1>4, <2>1, <2>4, <2>5, <2>7, <2>9 DEF CalledFor, was, fresh
  <1>8. CASE id.form = 2
    <2>1. ~IsBOMLink(id) /\ id # NoIdentity BY <1>8 DEF IsBOMLink, NoIdentity
    <2>2. built.serial = 0 /\ built.serialVersion = version BY <2>1
    <2>3. uuid = fresh BY <1>8, <2>2 DEF DocumentUUID, FillGap
    <2> HIDE DEF uuid, v
    <2>4. was.serial = fresh /\ was.namespace = id /\ was.serialVersion = version
      BY <1>1, <2>1, <2>2, <2>3 DEF FillGap
    <2>5. WellBuilt(was, n + 1) BY <1>w, <1>2, <1>3, <2>4
    <2>6. Canonical(id, v) = id /\ Canonical(id, version) = id BY <1>8 DEF Canonical
    <2>7. BOMLink(fresh, v).form = 3 /\ BOMLink(fresh, v).id = fresh BY DEF BOMLink
    <2>8. Fresh(BOMLink(fresh, v), n + 1) BY <2>7 DEF Fresh, fresh
    <2>9. \A name \in BuildNames(was) : Fresh(name, n + 1) \/ name = Canonical(id, version)
      BY <1>4, <2>4, <2>6, <2>8
    <2>10. QED BY <2>1, <2>5, <2>9 DEF CalledFor, was, fresh
  <1>9. id.form = 3 => IsBOMLink(id) BY DEF IsBOMLink
  <1>10. QED BY <1>3, <1>5, <1>6, <1>7, <1>8, <1>9 DEF was, fresh

(* What a build reads is a sequence of places in the archive. *)
LEMMA InputsAreSequences ==
    ASSUME NEW inputs \in Inputs
    PROVE  inputs \in Seq(DOMAIN archive)
  <1>1. CASE inputs = << >> BY <1>1
  <1>2. CASE inputs \in {<<i>> : i \in DOMAIN archive} BY <1>2
  <1>3. CASE inputs \in (DOMAIN archive) \X (DOMAIN archive)
    <2>1. PICK i \in DOMAIN archive, j \in DOMAIN archive : inputs = <<i, j>> BY <1>3
    <2>2. QED BY <2>1
  <1>4. QED BY <1>1, <1>2, <1>3 DEF Inputs

(* Only the one document a build restates has a say in what it is called. *)
LEMMA SourcesAreApplied ==
    ASSUME NEW sources, NEW S, sources \in Seq(S), NEW restates \in BOOLEAN
    PROVE  LET built == ApplySourceAssertions(EmptyDocument, sources, restates)
               only  == Normalized(sources[1])
               id    == only.identity
           IN /\ DOMAIN built = Slots
              /\ \/ /\ built.serial = 0 /\ built.serialVersion = 0 /\ built.namespace = NoIdentity
                 \/ /\ Len(sources) = 1 /\ restates /\ id # NoIdentity /\ built.namespace = id
                    /\ IsBOMLink(id) => built.serial = id.id /\ built.serialVersion = id.rev
                    /\ ~IsBOMLink(id) => built.serial = 0 /\ built.serialVersion = only.version
  <1> DEFINE built == ApplySourceAssertions(EmptyDocument, sources, restates)
             normal == [i \in DOMAIN sources |-> Normalized(sources[i])]
             all == FoldLeft(MergeDocumentAssertions, Head(normal), Tail(normal))
             credited == Credited(EmptyDocument, normal)
             only == Normalized(sources[1])
             said == [credited EXCEPT !.comment = only.comment, !.name = only.name, !.created = only.created]
  <1>1. CASE sources = << >> BY <1>1, NothingIsSaid DEF ApplySourceAssertions
  <1>2. CASE sources # << >>
    <2>1. SameIdentity(credited, EmptyDocument)
      <3>1. credited = [EmptyDocument EXCEPT !.sources = normal, !.creators = all.creators, !.tools = all.tools]
        BY DEF Credited
      <3> HIDE DEF credited, normal, all
      <3>2. QED BY <3>1, NothingIsSaid, IdentityIsApart
    <2>2. CASE Len(normal) > 1 \/ ~restates
      <3>1. Len(normal) = Len(sources) BY DEF normal
      <3>2. built = credited BY <1>2, <2>2, <3>1 DEF ApplySourceAssertions
      <3> HIDE DEF built, credited
      <3>3. QED BY <2>1, <3>2, NothingIsSaid DEF SameIdentity, built
    <2>3. CASE ~(Len(normal) > 1 \/ ~restates)
      <3>1. Len(normal) = Len(sources) /\ Len(sources) = 1 /\ restates
        <4>1. Len(normal) = Len(sources) /\ Len(sources) \in Nat BY DEF normal
        <4>2. Len(sources) # 0 BY <1>2
        <4>3. restates /\ ~(Len(normal) > 1) BY <2>3
        <4> HIDE DEF normal
        <4>4. QED BY <4>1, <4>2, <4>3
      <3>2. credited.sources[1] = only
        <4>1. credited.sources = normal BY NothingIsSaid DEF Credited, Slots
        <4>2. normal[1] = only BY <3>1
        <4> HIDE DEF credited, normal, only
        <4>3. QED BY <4>1, <4>2
      <3>3. built = Restated(credited, credited.sources[1]) BY <1>2, <3>1 DEF ApplySourceAssertions
      <3>4. built = InheritedIdentity(said, only)
        <4> HIDE DEF built, credited, only
        <4>1. QED BY <3>2, <3>3 DEF Restated
      <3>5. SameIdentity(said, credited)
        <4> HIDE DEF credited, only
        <4>1. QED BY <2>1, IdentityIsApart DEF SameIdentity
      <3>6. DOMAIN said = Slots /\ said.serial = 0 /\ said.serialVersion = 0 /\ said.namespace = NoIdentity
        <4> HIDE DEF said, credited
        <4>1. QED BY <2>1, <3>5, NothingIsSaid DEF SameIdentity
      <3> DEFINE id == only.identity
      <3> HIDE DEF built, said, only
      <3>7. /\ id = NoIdentity => built = said
            /\ id # NoIdentity =>
                 /\ DOMAIN built = Slots /\ built.namespace = id
                 /\ IsBOMLink(id) => built.serial = id.id /\ built.serialVersion = id.rev
                 /\ ~IsBOMLink(id) => built.serial = said.serial /\ built.serialVersion = only.version
        BY <3>4, <3>6, IdentityIsInherited
      <3> HIDE DEF id
      <3>8. QED BY <3>1, <3>6, <3>7 DEF built, only, id
    <2>4. QED BY <2>2, <2>3
  <1>3. QED BY <1>1, <1>2

(* A build is called what the only document it restates is called, or what
   nobody was called before. *)
LEMMA BuiltNames ==
    ASSUME NEW n \in Nat, \A i \in DOMAIN archive : WellNamed(archive[i].wire, n),
           NEW inputs \in Inputs, NEW native \in BOOLEAN, NEW declared \in BOOLEAN
    PROVE  LET built == FromGraphEntries(inputs, native, declared, Minted(n + 1))
           IN /\ WellBuilt(built, n + 1)
              /\ \A name \in BuildNames(built) :
                   \/ Fresh(name, n + 1)
                   \/ /\ Len(inputs) = 1 /\ declared /\ ~native /\ inputs[1] \in DOMAIN archive
                      /\ name \in OwnNames(archive[inputs[1]].wire)
  <1> DEFINE sources == [k \in DOMAIN inputs |-> DecodeDocument(inputs[k])]
             restates == Restates(declared, native)
             applied == ApplySourceAssertions(EmptyDocument, sources, restates)
             fresh == Minted(n + 1)
             minted == MintDocumentIdentity(applied, fresh)
             built == [minted EXCEPT !.created = FillGap(@, fresh), !.name = FillGap(@, DefaultName)]
             only == Normalized(sources[1])
             id == only.identity
             Readings == {DecodeDocument(i) : i \in DOMAIN archive}
  <1>1. inputs \in Seq(DOMAIN archive) BY InputsAreSequences
  <1>2. sources \in Seq(Readings) /\ Len(sources) = Len(inputs) BY <1>1
  <1>3. restates \in BOOLEAN /\ (restates <=> declared /\ ~native) BY DEF Restates
  <1>4. /\ DOMAIN applied = Slots
        /\ \/ /\ applied.serial = 0 /\ applied.serialVersion = 0 /\ applied.namespace = NoIdentity
           \/ /\ Len(sources) = 1 /\ restates /\ id # NoIdentity /\ applied.namespace = id
              /\ IsBOMLink(id) => applied.serial = id.id /\ applied.serialVersion = id.rev
              /\ ~IsBOMLink(id) => applied.serial = 0 /\ applied.serialVersion = only.version
    <2> HIDE DEF sources, restates, Readings
    <2>1. QED BY <1>2, <1>3, SourcesAreApplied
  <1>5. built = FromGraphEntries(inputs, native, declared, fresh) BY DEF FromGraphEntries
  <1>6. DOMAIN minted = Slots
    <2> HIDE DEF applied, fresh
    <2>1. QED BY <1>4, IdentityIsMinted
  <1>7. SameIdentity(built, minted)
    <2> HIDE DEF minted, fresh
    <2>1. QED BY <1>6, IdentityIsApart
  <1>8. (WellBuilt(minted, n + 1) => WellBuilt(built, n + 1)) /\ BuildNames(built) = BuildNames(minted)
    <2> HIDE DEF minted, built
    <2>1. QED BY <1>7 DEF SameIdentity, WellBuilt, BuildNames
  <1>9. CASE applied.serial = 0 /\ applied.serialVersion = 0 /\ applied.namespace = NoIdentity
    <2>1. IsIdentity(NoIdentity) /\ NoIdentity.id < Minted(n + 1) BY DEF IsIdentity, NoIdentity, Minted
    <2>2. ~IsBOMLink(NoIdentity) BY DEF IsBOMLink, NoIdentity
    <2> HIDE DEF applied
    <2>3. WellBuilt(minted, n + 1) /\ \A name \in BuildNames(minted) : CalledFor(name, NoIdentity, 0, n)
      BY <1>4, <1>9, <2>1, <2>2, MintedNames DEF minted, fresh
    <2> HIDE DEF minted, built
    <2>4. WellBuilt(built, n + 1) /\ \A name \in BuildNames(built) : Fresh(name, n + 1)
      BY <1>8, <2>3 DEF CalledFor
    <2>5. QED BY <1>5, <2>4 DEF fresh
  <1>10. CASE /\ Len(sources) = 1 /\ restates /\ id # NoIdentity /\ applied.namespace = id
              /\ IsBOMLink(id) => applied.serial = id.id /\ applied.serialVersion = id.rev
              /\ ~IsBOMLink(id) => applied.serial = 0 /\ applied.serialVersion = only.version
    <2> DEFINE i == inputs[1]
    <2>1. Len(inputs) = 1 /\ declared /\ ~native /\ i \in DOMAIN archive /\ only = Normalized(DecodeDocument(i))
      BY <1>1, <1>2, <1>3, <1>10
    <2> HIDE DEF i, sources, restates
    <2>2. /\ IsIdentity(id) /\ only.version \in Int /\ id.id < Minted(n + 1)
          /\ OwnNames(archive[i].wire) = {Canonical(id, only.version)} /\ id.form > 0
      BY <1>10, <2>1, NamesAreRead
    <2> HIDE DEF only, applied
    <2>3. WellBuilt(minted, n + 1) /\ \A name \in BuildNames(minted) : CalledFor(name, id, only.version, n)
      BY <1>4, <1>10, <2>2, MintedNames DEF minted, fresh
    <2> HIDE DEF minted, built
    <2>4. /\ WellBuilt(built, n + 1)
          /\ \A name \in BuildNames(built) : Fresh(name, n + 1) \/ name \in OwnNames(archive[i].wire)
      BY <1>8, <2>2, <2>3 DEF CalledFor
    <2>5. QED BY <1>5, <2>1, <2>4 DEF fresh, i
  <1>11. QED BY <1>4, <1>9, <1>10

-----------------------------------------------------------------------------
(* The invariant: every name of the archive is below what the next build mints;
   what a build is called, it is called for the inventory it has. *)
ArchiveIsSequence == archive \in Seq(Range(archive))

ArchiveIsNamed == \A i \in DOMAIN archive : WellNamed(archive[i].wire, builds)

(* Before the first build there is only what others wrote. *)
ForeignNamed ==
    builds = 0 =>
      /\ building = NoBuild
      /\ \A i \in DOMAIN archive : archive[i].inventory = ForeignInventory(archive[i].wire, i)

(* A document of the archive is called what the build under way is called only
   if it is one inventory with it. *)
BuildingNamed ==
    building # NoBuild =>
      /\ {"doc", "inventory"} \subseteq DOMAIN building
      /\ WellBuilt(building.doc, builds)
      /\ \A i \in DOMAIN archive :
           OwnNames(archive[i].wire) \cap BuildNames(building.doc) # {} =>
             archive[i].inventory = building.inventory

NamesInv ==
    /\ builds \in Nat
    /\ ArchiveIsSequence
    /\ ArchiveIsNamed
    /\ IdentityNamesOneInventory
    /\ ForeignNamed
    /\ BuildingNamed

(* What it means for the archive to grow by a document. *)
LEMMA ArchiveGrows ==
    ASSUME ArchiveIsSequence, NEW entry, archive' = Append(archive, entry)
    PROVE  /\ ArchiveIsSequence'
           /\ Len(archive) \in Nat /\ DOMAIN archive = 1 .. Len(archive)
           /\ DOMAIN archive' = (DOMAIN archive) \cup {Len(archive) + 1}
           /\ \A i \in DOMAIN archive : archive'[i] = archive[i]
           /\ archive'[Len(archive) + 1] = entry
  <1> DEFINE S == Range(archive) \cup {entry}
  <1>1. archive \in Seq(S) BY DEF ArchiveIsSequence
  <1>2. archive' \in Seq(S) /\ Len(archive') = Len(archive) + 1 BY <1>1
  <1>3. \A i \in 1 .. Len(archive') : archive'[i] \in Range(archive') BY <1>2 DEF Range
  <1> HIDE DEF S
  <1>4. ArchiveIsSequence' BY <1>2, <1>3 DEF ArchiveIsSequence
  <1>5. QED BY <1>1, <1>2, <1>4

(* A document goes by one name or by none. *)
LEMMA OneNameEach ==
    ASSUME NEW on, NEW other, OwnNames(on) \cap OwnNames(other) # {}
    PROVE  OwnNames(on) = OwnNames(other)
  <1>1. \A w : OwnNames(w) = {} \/ \E name : OwnNames(w) = {name}
    <2> TAKE w
    <2> DEFINE link == BOMLink(w.serial, Max({w.version, 1}))
               space == Canonical(w.namespace, w.version)
    <2>1. OwnNames(w) = IF w.format = "spdx" THEN {space} ELSE IF w.serial = 0 THEN {} ELSE {link}
      BY DEF OwnNames
    <2> HIDE DEF link, space
    <2>2. QED BY <2>1
  <1>2. QED BY <1>1

LEMMA NamesStart ==
    ASSUME LineageInit \/ LineageIdle
    PROVE  NamesInv
  <1>1. archive = << >> /\ building = NoBuild /\ builds = 0 BY DEF LineageInit, LineageIdle
  <1>2. ArchiveIsSequence BY <1>1 DEF ArchiveIsSequence
  <1>3. QED BY <1>1, <1>2
       DEF NamesInv, ArchiveIsNamed, IdentityNamesOneInventory, ForeignNamed, BuildingNamed

(* A foreign document is of an inventory its name gives. *)
LEMMA NamesReceive ==
    ASSUME NamesInv, NEW on \in Foreign, Receive(on)
    PROVE  NamesInv'
  <1> DEFINE k == Len(archive) + 1
             own == ForeignInventory(on, k)
             entry == [wire |-> on, by |-> "foreign", parents |-> << >>,
                       restates |-> FALSE, full |-> FALSE, inventory |-> own]
  <1>1. builds = 0 /\ building = NoBuild /\ builds' = 0 /\ building' = NoBuild BY DEF Receive
  <1>2. /\ ArchiveIsSequence' /\ Len(archive) \in Nat /\ DOMAIN archive = 1 .. Len(archive)
        /\ DOMAIN archive' = (DOMAIN archive) \cup {k}
        /\ \A i \in DOMAIN archive : archive'[i] = archive[i]
        /\ archive'[k] = entry
    <2>1. archive' = Append(archive, entry) BY DEF Receive
    <2> HIDE DEF entry
    <2>2. QED BY <2>1, ArchiveGrows DEF NamesInv
  <1>3. entry.wire = on /\ entry.inventory = own OBVIOUS
  <1> HIDE DEF entry
  <1>4. WellNamed(on, 0) BY ForeignAssumption DEF WellNamed
  <1>5. ArchiveIsNamed' BY <1>1, <1>2, <1>3, <1>4 DEF NamesInv, ArchiveIsNamed
  <1>6. \A i \in DOMAIN archive' : archive'[i].inventory = ForeignInventory(archive'[i].wire, i)
    BY <1>1, <1>2, <1>3 DEF NamesInv, ForeignNamed
  <1>7. ASSUME NEW i \in DOMAIN archive', NEW j \in DOMAIN archive',
               OwnNames(archive'[i].wire) \cap OwnNames(archive'[j].wire) # {}
        PROVE  archive'[i].inventory = archive'[j].inventory
    <2>1. OwnNames(archive'[i].wire) = OwnNames(archive'[j].wire) /\ OwnNames(archive'[i].wire) # {}
      BY <1>7, OneNameEach
    <2>2. ForeignInventory(archive'[i].wire, i) = ForeignInventory(archive'[j].wire, j)
      BY <2>1 DEF ForeignInventory
    <2>3. QED BY <1>6, <2>2
  <1>8. IdentityNamesOneInventory' BY <1>7 DEF IdentityNamesOneInventory
  <1>9. ForeignNamed' /\ BuildingNamed' BY <1>1, <1>6 DEF ForeignNamed, BuildingNamed
  <1>10. QED BY <1>1, <1>2, <1>5, <1>8, <1>9 DEF NamesInv

(* Only the unchanged copy of a document is built under its name. *)
LEMMA NamesBuild ==
    ASSUME NamesInv, NEW inputs \in Inputs,
           NEW native \in BOOLEAN, NEW changed \in BOOLEAN, NEW declared \in BOOLEAN,
           Build(inputs, native, changed, declared)
    PROVE  NamesInv'
  <1> DEFINE fresh == Minted(builds + 1)
             same == Len(inputs) = 1 /\ ~native /\ ~changed
             built == FromGraphEntries(inputs, native, declared, fresh)
             of == IF same THEN archive[inputs[1]].inventory ELSE <<fresh>>
  <1>1. /\ archive' = archive /\ builds' = builds + 1 /\ builds \in Nat /\ (declared => ~changed)
        /\ building' = [doc |-> built, parents |-> inputs, restates |-> same /\ declared,
                        inventory |-> of, written |-> {}]
    BY DEF Build, NamesInv
  <1>2. building'.doc = built /\ building'.inventory = of /\ {"doc", "inventory"} \subseteq DOMAIN building'
    <2> HIDE DEF built, of
    <2>1. QED BY <1>1
  <1>3. /\ WellBuilt(built, builds + 1)
        /\ \A name \in BuildNames(built) :
             \/ Fresh(name, builds + 1)
             \/ /\ Len(inputs) = 1 /\ declared /\ ~native /\ inputs[1] \in DOMAIN archive
                /\ name \in OwnNames(archive[inputs[1]].wire)
    BY <1>1, BuiltNames DEF NamesInv, ArchiveIsNamed
  <1> HIDE DEF built, fresh
  <1>4. ASSUME NEW i \in DOMAIN archive, OwnNames(archive[i].wire) \cap BuildNames(built) # {}
        PROVE  archive[i].inventory = of
    <2>1. PICK name \in OwnNames(archive[i].wire) : name \in BuildNames(built) BY <1>4
    <2>2. ~Fresh(name, builds + 1) BY <1>1, NamesAreOld DEF NamesInv, ArchiveIsNamed
    <2>3. /\ Len(inputs) = 1 /\ declared /\ ~native /\ inputs[1] \in DOMAIN archive
          /\ name \in OwnNames(archive[inputs[1]].wire)
      BY <1>3, <2>1, <2>2
    <2>4. of = archive[inputs[1]].inventory BY <1>1, <2>3
    <2>5. archive[i].inventory = archive[inputs[1]].inventory
      BY <2>1, <2>3 DEF NamesInv, IdentityNamesOneInventory
    <2>6. QED BY <2>4, <2>5
  <1> HIDE DEF of
  <1>5. BuildingNamed' BY <1>1, <1>2, <1>3, <1>4 DEF BuildingNamed
  <1>6. ArchiveIsNamed' BY <1>1, BoundsGrow DEF NamesInv, ArchiveIsNamed
  <1>7. ForeignNamed' BY <1>1 DEF ForeignNamed
  <1>8. QED BY <1>1, <1>5, <1>6, <1>7 DEF NamesInv, ArchiveIsSequence, IdentityNamesOneInventory

(* What is written goes by a name of the build, and is of its inventory. *)
LEMMA NamesEncode ==
    ASSUME NamesInv, NEW format \in {"spdx", "cyclonedx"}, Encode(format)
    PROVE  NamesInv'
  <1> DEFINE k == Len(archive) + 1
             built == building.doc
             on == IF format = "spdx" THEN EncodeSPDX(built) ELSE EncodeCycloneDX(built)
             of == building.inventory
  <1>1. builds' = builds /\ builds \in Nat /\ building # NoBuild /\ builds # 0
    BY DEF Encode, NamesInv, ForeignNamed
  <1>2. PICK entry : /\ archive' = Append(archive, entry) /\ entry.wire = on /\ entry.inventory = of
    <2> DEFINE full == \/ Len(Candidates(building.doc.sources)) > MaxDocumentSources
                       \/ \E p \in DOMAIN building.parents : archive[building.parents[p]].full
               entry == [wire |-> on, by |-> "bomly", parents |-> building.parents,
                         restates |-> building.restates, inventory |-> of, full |-> full]
    <2>1. archive' = Append(archive, entry) BY DEF Encode
    <2> HIDE DEF on, of, full
    <2>2. entry.wire = on /\ entry.inventory = of OBVIOUS
    <2>3. QED BY <2>1, <2>2
  <1>3. /\ ArchiveIsSequence' /\ Len(archive) \in Nat /\ DOMAIN archive = 1 .. Len(archive)
        /\ DOMAIN archive' = (DOMAIN archive) \cup {k}
        /\ \A i \in DOMAIN archive : archive'[i] = archive[i]
        /\ archive'[k] = entry
    BY <1>2, ArchiveGrows DEF NamesInv
  <1>4. /\ {"doc", "inventory"} \subseteq DOMAIN building /\ WellBuilt(built, builds)
        /\ \A i \in DOMAIN archive :
             OwnNames(archive[i].wire) \cap BuildNames(built) # {} => archive[i].inventory = of
    BY <1>1 DEF NamesInv, BuildingNamed
  <1>5. {"doc", "inventory"} \subseteq DOMAIN building' /\ building'.doc = built /\ building'.inventory = of
    <2>1. building' = [building EXCEPT !.written = @ \cup {format}] BY DEF Encode
    <2>2. QED BY <2>1, <1>4
  <1>6. WellNamed(on, builds) /\ OwnNames(on) \subseteq BuildNames(built)
    <2> HIDE DEF built
    <2>1. QED BY <1>1, <1>4, EncodedNames
  <1> HIDE DEF on, of, built
  <1>7. ArchiveIsNamed' BY <1>1, <1>2, <1>3, <1>6 DEF NamesInv, ArchiveIsNamed
  <1>8. \A i \in DOMAIN archive' :
          OwnNames(archive'[i].wire) \cap BuildNames(built) # {} => archive'[i].inventory = of
    BY <1>2, <1>3, <1>4
  <1>9. BuildingNamed' BY <1>1, <1>4, <1>5, <1>8 DEF BuildingNamed
  <1>10. ASSUME NEW i \in DOMAIN archive', NEW j \in DOMAIN archive',
                OwnNames(archive'[i].wire) \cap OwnNames(archive'[j].wire) # {}
         PROVE  archive'[i].inventory = archive'[j].inventory
    <2>1. CASE i = k \/ j = k
      <3>1. OwnNames(archive'[k].wire) \subseteq BuildNames(built) BY <1>2, <1>3, <1>6
      <3>2. /\ OwnNames(archive'[i].wire) \cap BuildNames(built) # {}
            /\ OwnNames(archive'[j].wire) \cap BuildNames(built) # {}
        BY <1>10, <2>1, <3>1
      <3>3. QED BY <1>8, <3>2
    <2>2. CASE i # k /\ j # k
      <3>1. i \in DOMAIN archive /\ j \in DOMAIN archive BY <1>3, <2>2
      <3>2. archive'[i] = archive[i] /\ archive'[j] = archive[j] BY <1>3, <3>1
      <3>3. QED BY <1>10, <3>1, <3>2 DEF NamesInv, IdentityNamesOneInventory
    <2>3. QED BY <2>1, <2>2
  <1>11. IdentityNamesOneInventory' BY <1>10 DEF IdentityNamesOneInventory
  <1>12. ForeignNamed' BY <1>1 DEF ForeignNamed
  <1>13. QED BY <1>1, <1>3, <1>7, <1>9, <1>11, <1>12 DEF NamesInv

LEMMA NamesUnmoved ==
    ASSUME NamesInv, UNCHANGED lineageVars
    PROVE  NamesInv'
  <1>1. archive' = archive /\ building' = building /\ builds' = builds BY DEF lineageVars
  <1>2. QED BY <1>1 DEF NamesInv, ArchiveIsSequence, ArchiveIsNamed, IdentityNamesOneInventory,
                       ForeignNamed, BuildingNamed

LEMMA NamesFinish ==
    ASSUME NamesInv, Finish
    PROVE  NamesInv'
  <1>1. archive' = archive /\ building' = NoBuild /\ builds' = builds BY DEF Finish
  <1>2. QED BY <1>1 DEF NamesInv, ArchiveIsSequence, ArchiveIsNamed, IdentityNamesOneInventory,
                       ForeignNamed, BuildingNamed

LEMMA NamesKept ==
    ASSUME NamesInv, [Next]_vars
    PROVE  NamesInv'
  <1>1. CASE LineageNext
    <2>1. ASSUME NEW on \in Foreign, Receive(on) PROVE NamesInv' BY <2>1, NamesReceive
    <2>2. ASSUME NEW inputs \in Inputs, NEW native \in BOOLEAN, NEW changed \in BOOLEAN,
                 NEW declared \in BOOLEAN, Build(inputs, native, changed, declared)
          PROVE  NamesInv'
      BY <2>2, NamesBuild
    <2>3. ASSUME NEW format \in {"spdx", "cyclonedx"}, Encode(format) PROVE NamesInv'
      BY <2>3, NamesEncode
    <2>4. CASE Finish BY <2>4, NamesFinish
    <2>5. QED BY <1>1, <2>1, <2>2, <2>3, <2>4 DEF LineageNext
  <1>2. CASE UNCHANGED lineageVars BY <1>2, NamesUnmoved
  <1>3. LineageNext \/ UNCHANGED lineageVars BY DEF Next, vars
  <1>4. QED BY <1>1, <1>2, <1>3

(* However many documents are read, merged and written again, two documents of
   one name describe one inventory: only an unchanged restatement of one
   document goes out under its name (applySourceAssertions,
   sbom/document_assertions.go; mintDocumentIdentity, sbom/transform.go). *)
THEOREM IdentitiesNameOneInventory == Spec => []IdentityNamesOneInventory
  <1>1. Init => NamesInv BY NamesStart DEF Init
  <1>2. NamesInv /\ [Next]_vars => NamesInv' BY NamesKept
  <1>3. NamesInv => IdentityNamesOneInventory BY DEF NamesInv
  <1>4. QED BY <1>1, <1>2, <1>3, PTL DEF Spec
=============================================================================
