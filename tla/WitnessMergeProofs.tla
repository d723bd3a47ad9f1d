------------------------- MODULE WitnessMergeProofs -------------------------
(***************************************************************************)
(* What the merge of packages keeps, for any packages that callers add, in *)
(* any order and number, through any clones; and that the node of a        *)
(* dependency says what its witnesses say together, in whatever order and  *)
(* through whatever merges they came.                                      *)
(*                                                                         *)
(* Each list of a package or a node is merged by a fold, so each result    *)
(* begins with what one step of the fold keeps and follows by induction    *)
(* along it.  The lists of a node fold by an identity (usages by path and  *)
(* root, references by key): such a list is compared by the facts it       *)
(* states, so that a merge is a union of facts, and by whether it names    *)
(* each thing once.  Where order counts, a list is compared by what it     *)
(* tells first.                                                            *)
(***************************************************************************)
EXTENDS WitnessMerge, FoldLemmas
-----------------------------------------------------------------------------
(* Packages. *)

(* A statement and whoever signed it are still told by b. *)
Tells(b, a) ==
    /\ b.statement = a.statement
    /\ a.issuer # NoValue => b.issuer = a.issuer

(* An issuer that somebody verified for a statement is in the one that has
   taken it up, and in no other. *)
LEMMA AbsorbKeeps ==
    ASSUME NEW a \in Attestations, NEW c \in Attestations, DescribesSame(a, c)
    PROVE  /\ Absorb(a, c) \in Attestations
           /\ VerifiedBy({Absorb(a, c)}) = VerifiedBy({a}) \cup VerifiedBy({c})
           /\ Tells(Absorb(a, c), a) /\ Tells(Absorb(a, c), c)
  <1>1. CASE ClaimsNothing(a)
    <2>1. Absorb(a, c) = c /\ ~a.verified /\ a.issuer = NoValue /\ a.statement = c.statement
      BY <1>1 DEF Absorb, ClaimsNothing, DescribesSame
    <2>2. VerifiedBy({a}) = {} BY <2>1 DEF VerifiedBy
    <2>3. QED BY <2>1, <2>2 DEF Tells
  <1>2. CASE ~ClaimsNothing(a)
    <2> DEFINE e == [a EXCEPT !.verified = @ \/ c.verified]
    <2>1. Absorb(a, c) = e BY <1>2 DEF Absorb
    <2>2. /\ a.verified \in BOOLEAN /\ c.verified \in BOOLEAN
          /\ e \in Attestations
          /\ e.statement = a.statement /\ e.issuer = a.issuer
          /\ e.verified = (a.verified \/ c.verified)
      BY DEF Attestations
    <2>3. a.statement = c.statement /\ (a.issuer = c.issuer \/ (c.issuer = NoValue /\ ~c.verified))
      BY <1>2 DEF DescribesSame, ClaimsNothing
    <2>4. VerifiedBy({e}) = VerifiedBy({a}) \cup VerifiedBy({c})
      <3> HIDE DEF e
      <3> QED BY <2>2, <2>3 DEF VerifiedBy
    <2>5. Tells(e, a) /\ Tells(e, c) BY <2>2, <2>3 DEF Tells
    <2>6. QED BY <2>1, <2>2, <2>4, <2>5
  <1>3. QED BY <1>1, <1>2

(* Merging an attestation loses none: the list verifies what it verified, and
   what the new one verifies. *)
LEMMA MergeAttestationKeeps ==
    ASSUME NEW list \in Seq(Attestations), NEW c \in Attestations
    PROVE  LET merged == MergeAttestation(list, c)
           IN /\ merged \in Seq(Attestations)
              /\ VerifiedBy(Range(merged)) = VerifiedBy(Range(list)) \cup VerifiedBy({c})
              /\ \A a \in Range(list) \cup {c} : \E b \in Range(merged) : Tells(b, a)
  <1> DEFINE same == {i \in DOMAIN list : DescribesSame(list[i], c)}
             m == Min(same)
             merged == MergeAttestation(list, c)
  <1>1. CASE same = {}
    <2>1. merged = Append(list, c) BY <1>1 DEF MergeAttestation
    <2>2. Range(Append(list, c)) = Range(list) \cup {c} BY RangeOfAppend
    <2>3. QED BY <2>1, <2>2 DEF VerifiedBy, Tells
  <1>2. CASE same # {}
    <2>1. same \subseteq Nat /\ m \in same
      BY <1>2, MinOfNaturals
    <2>2. merged = [list EXCEPT ![m] = Absorb(list[m], c)]
      BY <1>2 DEF MergeAttestation
    <2>3. m \in DOMAIN list /\ list[m] \in Attestations /\ DescribesSame(list[m], c)
      BY <2>1
    <2> DEFINE e == Absorb(list[m], c)
    <2>4. /\ e \in Attestations
          /\ VerifiedBy({e}) = VerifiedBy({list[m]}) \cup VerifiedBy({c})
          /\ Tells(e, list[m]) /\ Tells(e, c)
      BY <2>3, AbsorbKeeps
    <2> HIDE DEF e, m
    <2>5. /\ merged \in Seq(Attestations) /\ DOMAIN merged = DOMAIN list
          /\ merged[m] = e
          /\ \A i \in DOMAIN list : i # m => merged[i] = list[i]
      BY <2>2, <2>3, <2>4 DEF e
    <2>6. VerifiedBy(Range(merged)) = VerifiedBy(Range(list)) \cup VerifiedBy({c})
      <3>1. \A x : x \in VerifiedBy(Range(merged)) <=>
                     \E i \in DOMAIN list : x \in VerifiedBy({merged[i]})
        BY <2>5 DEF VerifiedBy, Range
      <3>2. \A x : x \in VerifiedBy(Range(list)) <=>
                     \E i \in DOMAIN list : x \in VerifiedBy({list[i]})
        BY DEF VerifiedBy, Range
      <3> HIDE DEF merged, same
      <3>3. \A x : x \in VerifiedBy(Range(merged)) => x \in VerifiedBy(Range(list)) \cup VerifiedBy({c})
        BY <3>1, <3>2, <2>3, <2>4, <2>5
      <3>4. \A x : x \in VerifiedBy(Range(list)) \cup VerifiedBy({c}) => x \in VerifiedBy(Range(merged))
        BY <3>1, <3>2, <2>3, <2>4, <2>5
      <3>5. QED BY <3>3, <3>4
    <2>7. \A a \in Range(list) \cup {c} : \E b \in Range(merged) : Tells(b, a)
      <3> TAKE a \in Range(list) \cup {c}
      <3>1. CASE a = c BY <3>1, <2>3, <2>4, <2>5 DEF Range
      <3>2. CASE a \in Range(list)
        <4>1. PICK i \in DOMAIN list : a = list[i] BY <3>2 DEF Range
        <4>2. merged[i] \in Range(merged) BY <2>5 DEF Range
        <4>3. CASE i = m BY <4>1, <4>2, <4>3, <2>4, <2>5
        <4>4. CASE i # m BY <4>1, <4>2, <4>4, <2>5 DEF Tells
        <4>5. QED BY <4>3, <4>4
      <3>3. QED BY <3>1, <3>2
    <2>8. QED BY <2>5, <2>6, <2>7
  <1>3. QED BY <1>1, <1>2

(* What the fold over a list of attestations makes, by induction along it. *)
LEMMA MergeAttestationsInduction ==
    ASSUME NEW T, NEW list \in T, NEW incoming \in Seq(Attestations),
           \A t \in T, c \in Attestations : MergeAttestation(t, c) \in T,
           NEW Along, <<0, list>> \in Along,
           \A k \in 1 .. Len(incoming), t \in T :
              <<k - 1, t>> \in Along => <<k, MergeAttestation(t, incoming[k])>> \in Along
    PROVE  /\ MergeAttestations(list, incoming) \in T
           /\ <<Len(incoming), MergeAttestations(list, incoming)>> \in Along
  <1> DEFINE n == Len(incoming)
             step == [p \in (1 .. n) \X T |-> MergeAttestation(p[2], incoming[p[1]])]
             Fold(g) == [s \in SUBSET (1 .. n) |->
                           IF s = {} THEN list
                           ELSE MergeAttestation(g[s \ {Max(s)}], incoming[Max(s)])]
             f == CHOOSE g : g = Fold(g)
  <1>n. n \in Nat /\ DOMAIN incoming = 1 .. n /\ \A k \in 1 .. n : incoming[k] \in Attestations
    OBVIOUS
  <1>1. step \in [(1 .. n) \X T -> T]
    BY <1>n
  <1>2. PICK g \in [SUBSET (1 .. n) -> T] : IsFold(g, n, list, step)
    <2> HIDE DEF step, n
    <2> QED BY <1>n, <1>1, FoldFunctionExists
  <1>3. g = Fold(g)
    <2>1. ASSUME NEW s \in SUBSET (1 .. n), s # {}
          PROVE  g[s] = MergeAttestation(g[s \ {Max(s)}], incoming[Max(s)])
      <3>1. Max(s) \in 1 .. n BY <2>1, <1>n, MaxUpTo
      <3>2. g[s \ {Max(s)}] \in T BY <1>2
      <3>3. QED BY <3>1, <3>2, <1>2, <2>1 DEF IsFold
    <2>2. QED BY <2>1, <1>2 DEF IsFold
  <1>4. f = Fold(f)
    <2> HIDE DEF Fold
    <2> QED BY <1>3
  <1>5. MergeAttestations(list, incoming) = f[1 .. n]
    BY <1>n DEF MergeAttestations, FoldLeft, MapThenFoldSet
  <1> HIDE DEF f
  <1>6. f[{}] = list BY <1>4
  <1>7. \A k \in 1 .. n : f[1 .. k] = MergeAttestation(f[1 .. k - 1], incoming[k])
    <2> TAKE k \in 1 .. n
    <2>1. /\ 1 .. k \in SUBSET (1 .. n) /\ 1 .. k # {} /\ Max(1 .. k) = k
          /\ (1 .. k) \ {k} = 1 .. k - 1
      BY <1>n, FirstIndices
    <2>2. QED BY <2>1, <1>4
  <1>8. \A k \in 1 .. n : f[1 .. k] = IF f[1 .. k - 1] \in T THEN step[<<k, f[1 .. k - 1]>>]
                                      ELSE f[1 .. k]
    BY <1>7
  <1>9. \A k \in 1 .. n, t \in T : <<k - 1, t>> \in Along => <<k, step[<<k, t>>]>> \in Along
    OBVIOUS
  <1>10. f[1 .. n] \in T /\ <<n, f[1 .. n]>> \in Along
    <2> HIDE DEF step, n
    <2> QED BY <1>n, <1>1, <1>6, <1>8, <1>9, FoldInduction
  <1>11. QED BY <1>5, <1>10

(* The merged list has every verification of the two lists, no other, and still
   tells every statement and issuer of them. *)
LEMMA MergeAttestationsKeep ==
    ASSUME NEW list \in Seq(Attestations), NEW incoming \in Seq(Attestations)
    PROVE  LET merged == MergeAttestations(list, incoming)
           IN /\ merged \in Seq(Attestations)
              /\ VerifiedBy(Range(merged)) = VerifiedBy(Range(list)) \cup VerifiedBy(Range(incoming))
              /\ \A a \in Range(list) \cup Range(incoming) : \E b \in Range(merged) : Tells(b, a)
  <1> DEFINE T == Seq(Attestations)
             n == Len(incoming)
             First(k) == {incoming[i] : i \in 1 .. k}
             Kept(k, t) ==
                /\ VerifiedBy(Range(t)) = VerifiedBy(Range(list)) \cup VerifiedBy(First(k))
                /\ \A a \in Range(list) \cup First(k) : \E b \in Range(t) : Tells(b, a)
             Along == {p \in Nat \X T : Kept(p[1], p[2])}
  <1>n. n \in Nat /\ DOMAIN incoming = 1 .. n /\ \A k \in 1 .. n : incoming[k] \in Attestations
    OBVIOUS
  <1>1. \A t \in T, c \in Attestations : MergeAttestation(t, c) \in T
    BY MergeAttestationKeeps
  <1>2. <<0, list>> \in Along
    <2>1. First(0) = {} OBVIOUS
    <2>2. Kept(0, list) BY <2>1 DEF VerifiedBy, Tells
    <2>3. QED BY <2>2
  <1>3. ASSUME NEW k \in 1 .. n, NEW t \in T, <<k - 1, t>> \in Along
        PROVE  <<k, MergeAttestation(t, incoming[k])>> \in Along
    <2> DEFINE c == incoming[k]
               u == MergeAttestation(t, c)
    <2>1. c \in Attestations BY <1>n
    <2>2. Kept(k - 1, t) BY <1>3
    <2>3. First(k) = First(k - 1) \cup {c}
      <3>1. \A i \in 1 .. k : i \in 1 .. k - 1 \/ i = k OBVIOUS
      <3>2. 1 .. k - 1 \subseteq 1 .. k /\ k \in 1 .. k OBVIOUS
      <3>3. QED BY <3>1, <3>2
    <2>4. /\ u \in T
          /\ VerifiedBy(Range(u)) = VerifiedBy(Range(t)) \cup VerifiedBy({c})
          /\ \A a \in Range(t) \cup {c} : \E b \in Range(u) : Tells(b, a)
      <3> HIDE DEF c
      <3> QED BY <2>1, MergeAttestationKeeps
    <2> HIDE DEF c, u, First
    <2>5. VerifiedBy(First(k)) = VerifiedBy(First(k - 1)) \cup VerifiedBy({c})
      BY <2>3 DEF VerifiedBy
    <2>6. \A a \in Range(list) \cup First(k) : \E b \in Range(u) : Tells(b, a)
      <3> TAKE a \in Range(list) \cup First(k)
      <3>1. CASE a = c BY <3>1, <2>4
      <3>2. CASE a \in Range(list) \cup First(k - 1)
        <4>1. PICK b \in Range(t) : Tells(b, a) BY <3>2, <2>2
        <4>2. PICK d \in Range(u) : Tells(d, b) BY <2>4
        <4>3. QED BY <4>1, <4>2 DEF Tells
      <3>3. QED BY <3>1, <3>2, <2>3
    <2>7. Kept(k, u) BY <2>2, <2>4, <2>5, <2>6
    <2> HIDE DEF Kept
    <2>8. <<k, u>> \in Along BY <2>4, <2>7
    <2>9. QED BY <2>8 DEF u, c
  <1>4. MergeAttestations(list, incoming) \in T /\ <<n, MergeAttestations(list, incoming)>> \in Along
    <2> HIDE DEF T, Along
    <2>1. list \in T BY DEF T
    <2>2. QED BY <1>1, <1>2, <1>3, <2>1, MergeAttestationsInduction
  <1>5. First(n) = Range(incoming) BY <1>n DEF Range
  <1>6. QED BY <1>4, <1>5

-----------------------------------------------------------------------------
(* A state and the rationale for it. *)
Reason(v) == <<Identity(v), Gate(v.analysis.state), Gate(v.analysis.detail)>>

(* What passed a gate passes it again: nothing is cleared twice. *)
LEMMA GateAgain ==
    ASSUME NEW x \in STRING
    PROVE  Gate(x) \in STRING /\ Gate(Gate(x)) = Gate(x)
  BY WitnessAssumption DEF Gate

(* Gating an analysis a second time changes neither its state nor its detail. *)
LEMMA GatedAnalysisType ==
    ASSUME NEW a \in Analyses
    PROVE  /\ GatedAnalysis(a) \in Analyses
           /\ Gate(GatedAnalysis(a).state) = Gate(a.state)
           /\ Gate(GatedAnalysis(a).detail) = Gate(a.detail)
  <1>1. a.state \in STRING /\ a.detail \in STRING /\ a.response \in SUBSET STRING BY DEF Analyses
  <1>2. GateAll(a.response) \in SUBSET STRING BY <1>1 DEF GateAll
  <1>3. QED BY <1>1, <1>2, GateAgain DEF GatedAnalysis, Analyses

(* Two analyses merged: the rationale published, if any, is one of the two with
   the state that side asserted. *)
LEMMA MergeAnalysisKeeps ==
    ASSUME NEW a \in Analyses, NEW b \in Analyses
    PROVE  LET m == MergeVulnerabilityAnalysis(a, b)
           IN /\ m \in Analyses
              /\ Gate(m.detail) # NoValue =>
                   \/ Gate(m.state) = Gate(a.state) /\ Gate(m.detail) = Gate(a.detail)
                   \/ Gate(m.state) = Gate(b.state) /\ Gate(m.detail) = Gate(b.detail)
  <1> DEFINE left == GatedAnalysis(a)
             right == GatedAnalysis(b)
             m == MergeVulnerabilityAnalysis(a, b)
             both == left.response \cup right.response
  <1>1. /\ left \in Analyses /\ right \in Analyses
        /\ left.state = Gate(a.state) /\ left.detail = Gate(a.detail)
        /\ right.state = Gate(b.state) /\ right.detail = Gate(b.detail)
        /\ Gate(left.state) = left.state /\ Gate(left.detail) = left.detail
        /\ Gate(right.state) = right.state /\ Gate(right.detail) = right.detail
    BY GatedAnalysisType DEF GatedAnalysis
  <1>2. m = [(IF left.state = NoValue /\ right.state # NoValue THEN right
              ELSE IF left.state = right.state
                   THEN [left EXCEPT !.detail = MergeFillGap(left.detail, right.detail)]
                   ELSE left) EXCEPT !.response = both]
    BY DEF MergeVulnerabilityAnalysis
  <1> HIDE DEF left, right, m
  <1>3. both \in SUBSET STRING BY <1>1 DEF Analyses
  <1> HIDE DEF both
  <1>4. CASE left.state = NoValue /\ right.state # NoValue
    <2>1. m = [right EXCEPT !.response = both] BY <1>2, <1>4
    <2>2. m \in Analyses /\ m.state = right.state /\ m.detail = right.detail
      BY <2>1, <1>1, <1>3 DEF Analyses
    <2>3. QED BY <2>2, <1>1 DEF m
  <1>5. CASE ~(left.state = NoValue /\ right.state # NoValue) /\ left.state = right.state
    <2> DEFINE d == MergeFillGap(left.detail, right.detail)
    <2>1. m = [[left EXCEPT !.detail = d] EXCEPT !.response = both] BY <1>2, <1>5
    <2>2. d = left.detail \/ d = right.detail BY DEF MergeFillGap
    <2>3. d \in STRING BY <2>2, <1>1 DEF Analyses
    <2> HIDE DEF d
    <2>4. m \in Analyses /\ m.state = left.state /\ m.detail = d
      BY <2>1, <2>3, <1>1, <1>3 DEF Analyses
    <2>5. QED BY <2>2, <2>4, <1>1, <1>5 DEF m
  <1>6. CASE ~(left.state = NoValue /\ right.state # NoValue) /\ left.state # right.state
    <2>1. m = [left EXCEPT !.response = both] BY <1>2, <1>6
    <2>2. m \in Analyses /\ m.state = left.state /\ m.detail = left.detail
      BY <2>1, <1>1, <1>3 DEF Analyses
    <2>3. QED BY <2>2, <1>1 DEF m
  <1>7. QED BY <1>4, <1>5, <1>6

(* One vulnerability folded in: the identities are those of the list and its
   own, and the rationales published are theirs. *)
LEMMA MergeVulnerabilityKeeps ==
    ASSUME NEW list \in Seq(Vulnerabilities), NEW v \in Vulnerabilities
    PROVE  LET merged == MergeVulnerability(list, v)
           IN /\ merged \in Seq(Vulnerabilities)
              /\ {Identity(x) : x \in Range(merged)} = {Identity(x) : x \in Range(list)} \cup {Identity(v)}
              /\ \A x \in Range(merged) : Gate(x.analysis.detail) # NoValue =>
                    \E y \in Range(list) \cup {v} : Reason(x) = Reason(y)
  <1> DEFINE same == {i \in DOMAIN list : Identity(list[i]) = Identity(v)}
             m == Max(same)
             merged == MergeVulnerability(list, v)
  <1>0. /\ v.source \in STRING /\ v.id \in STRING /\ v.reachability \in STRING
        /\ v.recommendation \in STRING /\ v.analysis \in Analyses
    BY DEF Vulnerabilities
  <1>1. CASE same = {}
    <2> DEFINE g == GatedVulnerability(v)
    <2>1. merged = Append(list, g) BY <1>1 DEF MergeVulnerability
    <2>2. g \in Vulnerabilities /\ g.source = v.source /\ g.id = v.id /\ g.analysis = v.analysis
      BY <1>0, GateAgain DEF GatedVulnerability, Vulnerabilities
    <2> HIDE DEF g
    <2>3. Range(Append(list, g)) = Range(list) \cup {g} BY <2>2, RangeOfAppend
    <2>4. Identity(g) = Identity(v) /\ Reason(g) = Reason(v) BY <2>2 DEF Identity, Reason
    <2> HIDE DEF merged
    <2>5. merged \in Seq(Vulnerabilities) BY <2>1, <2>2
    <2>6. Range(merged) = Range(list) \cup {g} BY <2>1, <2>3
    <2>7. QED BY <2>4, <2>5, <2>6 DEF merged
  <1>2. CASE same # {}
    <2>1. same \subseteq Nat /\ m \in same
      <3>1. same \subseteq 1 .. Len(list) /\ Len(list) \in Nat OBVIOUS
      <3> HIDE DEF same
      <3>2. Max(same) \in same BY <3>1, <1>2, MaxUpTo
      <3>3. QED BY <3>1, <3>2
    <2> DEFINE old == list[m]
               analysis == IF v.analysis = NoAnalysis THEN old.analysis
                           ELSE MergeVulnerabilityAnalysis(old.analysis, v.analysis)
               e == MergeInto(old, v)
    <2>2. merged = [list EXCEPT ![m] = MergeInto(list[m], v)]
      BY <1>2 DEF MergeVulnerability
    <2>3. m \in DOMAIN list /\ old \in Vulnerabilities /\ Identity(old) = Identity(v)
      BY <2>1
    <2>4. /\ old.source \in STRING /\ old.id \in STRING /\ old.reachability \in STRING
          /\ old.recommendation \in STRING /\ old.analysis \in Analyses
      BY <2>3 DEF Vulnerabilities
    <2>5. /\ MergeFillGap(old.reachability, v.reachability) \in STRING
          /\ MergeFillGap(Gate(old.recommendation), Gate(v.recommendation)) \in STRING
      BY <2>4, <1>0, GateAgain DEF MergeFillGap
    <2>6. /\ analysis \in Analyses
          /\ Gate(analysis.detail) # NoValue =>
               \/ Gate(analysis.state) = Gate(old.analysis.state) /\ Gate(analysis.detail) = Gate(old.analysis.detail)
               \/ Gate(analysis.state) = Gate(v.analysis.state) /\ Gate(analysis.detail) = Gate(v.analysis.detail)
      BY <2>4, <1>0, MergeAnalysisKeeps
    <2> HIDE DEF analysis, m
    <2>7. e \in Vulnerabilities /\ e.source = old.source /\ e.id = old.id /\ e.analysis = analysis
      BY <2>3, <2>5, <2>6 DEF Vulnerabilities, MergeInto, analysis
    <2> HIDE DEF e
    <2>8. Identity(e) = Identity(old) BY <2>7 DEF Identity
    <2>9. Gate(e.analysis.detail) # NoValue => Reason(e) = Reason(old) \/ Reason(e) = Reason(v)
      BY <2>3, <2>6, <2>7, <2>8 DEF Reason
    <2>10. /\ merged \in Seq(Vulnerabilities) /\ DOMAIN merged = DOMAIN list
           /\ merged[m] = e
           /\ \A i \in DOMAIN list : i # m => merged[i] = list[i]
      BY <2>2, <2>3, <2>7 DEF e
    <2> HIDE DEF merged, same, old
    <2>11. \A x : x \in Range(merged) <=> \E i \in DOMAIN list : x = merged[i]
      BY <2>10 DEF Range
    <2>12. \A x : x \in Range(list) <=> \E i \in DOMAIN list : x = list[i]
      BY DEF Range
    <2>13. old = list[m] BY DEF old
    <2>14. \A i \in DOMAIN list : Identity(merged[i]) = Identity(list[i])
      BY <2>8, <2>10, <2>13
    <2>15. {Identity(x) : x \in Range(merged)} = {Identity(x) : x \in Range(list)} \cup {Identity(v)}
      BY <2>3, <2>11, <2>12, <2>13, <2>14
    <2>16. \A x \in Range(merged) : Gate(x.analysis.detail) # NoValue =>
                    \E y \in Range(list) \cup {v} : Reason(x) = Reason(y)
      BY <2>3, <2>9, <2>10, <2>11, <2>12, <2>13
    <2>17. QED BY <2>10, <2>15, <2>16 DEF merged
  <1>3. QED BY <1>1, <1>2

(* What the fold over a list of vulnerabilities makes, by induction along it. *)
LEMMA MergeVulnerabilitiesInduction ==
    ASSUME NEW T, NEW list \in T, NEW incoming \in Seq(Vulnerabilities),
           \A t \in T, c \in Vulnerabilities : MergeVulnerability(t, c) \in T,
           NEW Along, <<0, list>> \in Along,
           \A k \in 1 .. Len(incoming), t \in T :
              <<k - 1, t>> \in Along => <<k, MergeVulnerability(t, incoming[k])>> \in Along
    PROVE  /\ MergeVulnerabilities(list, incoming) \in T
           /\ <<Len(incoming), MergeVulnerabilities(list, incoming)>> \in Along
  <1> DEFINE n == Len(incoming)
             step == [p \in (1 .. n) \X T |-> MergeVulnerability(p[2], incoming[p[1]])]
             Fold(g) == [s \in SUBSET (1 .. n) |->
                           IF s = {} THEN list
                           ELSE MergeVulnerability(g[s \ {Max(s)}], incoming[Max(s)])]
             f == CHOOSE g : g = Fold(g)
  <1>n. n \in Nat /\ DOMAIN incoming = 1 .. n /\ \A k \in 1 .. n : incoming[k] \in Vulnerabilities
    OBVIOUS
  <1>1. step \in [(1 .. n) \X T -> T]
    BY <1>n
  <1>2. PICK g \in [SUBSET (1 .. n) -> T] : IsFold(g, n, list, step)
    <2> HIDE DEF step, n
    <2> QED BY <1>n, <1>1, FoldFunctionExists
  <1>3. g = Fold(g)
    <2>1. ASSUME NEW s \in SUBSET (1 .. n), s # {}
          PROVE  g[s] = MergeVulnerability(g[s \ {Max(s)}], incoming[Max(s)])
      <3>1. Max(s) \in 1 .. n BY <2>1, <1>n, MaxUpTo
      <3>2. g[s \ {Max(s)}] \in T BY <1>2
      <3>3. QED BY <3>1, <3>2, <1>2, <2>1 DEF IsFold
    <2>2. QED BY <2>1, <1>2 DEF IsFold
  <1>4. f = Fold(f)
    <2> HIDE DEF Fold
    <2> QED BY <1>3
  <1>5. MergeVulnerabilities(list, incoming) = f[1 .. n]
    BY <1>n DEF MergeVulnerabilities, FoldLeft, MapThenFoldSet
  <1> HIDE DEF f
  <1>6. f[{}] = list BY <1>4
  <1>7. \A k \in 1 .. n : f[1 .. k] = MergeVulnerability(f[1 .. k - 1], incoming[k])
    <2> TAKE k \in 1 .. n
    <2>1. /\ 1 .. k \in SUBSET (1 .. n) /\ 1 .. k # {} /\ Max(1 .. k) = k
          /\ (1 .. k) \ {k} = 1 .. k - 1
      BY <1>n, FirstIndices
    <2>2. QED BY <2>1, <1>4
  <1>8. \A k \in 1 .. n : f[1 .. k] = IF f[1 .. k - 1] \in T THEN step[<<k, f[1 .. k - 1]>>]
                                      ELSE f[1 .. k]
    BY <1>7
  <1>9. \A k \in 1 .. n, t \in T : <<k - 1, t>> \in Along => <<k, step[<<k, t>>]>> \in Along
    OBVIOUS
  <1>10. f[1 .. n] \in T /\ <<n, f[1 .. n]>> \in Along
    <2> HIDE DEF step, n
    <2> QED BY <1>n, <1>1, <1>6, <1>8, <1>9, FoldInduction
  <1>11. QED BY <1>5, <1>10

(* The merged list has the identities of the two lists, and every rationale it
   publishes is published, with its state, in one of them. *)
LEMMA MergeVulnerabilitiesKeep ==
    ASSUME NEW list \in Seq(Vulnerabilities), NEW incoming \in Seq(Vulnerabilities)
    PROVE  LET merged == MergeVulnerabilities(list, incoming)
           IN /\ merged \in Seq(Vulnerabilities)
              /\ {Identity(x) : x \in Range(merged)}
                    = {Identity(x) : x \in Range(list)} \cup {Identity(x) : x \in Range(incoming)}
              /\ \A x \in Range(merged) : Gate(x.analysis.detail) # NoValue =>
                    \E y \in Range(list) \cup Range(incoming) : Reason(x) = Reason(y)
  <1> DEFINE T == Seq(Vulnerabilities)
             n == Len(incoming)
             First(k) == {incoming[i] : i \in 1 .. k}
             Kept(k, t) ==
                /\ {Identity(x) : x \in Range(t)} = {Identity(x) : x \in Range(list) \cup First(k)}
                /\ \A x \in Range(t) : Gate(x.analysis.detail) # NoValue =>
                      \E y \in Range(list) \cup First(k) : Reason(x) = Reason(y)
             Along == {p \in Nat \X T : Kept(p[1], p[2])}
  <1>n. n \in Nat /\ DOMAIN incoming = 1 .. n /\ \A k \in 1 .. n : incoming[k] \in Vulnerabilities
    OBVIOUS
  <1>1. \A t \in T, c \in Vulnerabilities : MergeVulnerability(t, c) \in T
    BY MergeVulnerabilityKeeps
  <1>2. <<0, list>> \in Along
    <2>1. First(0) = {} OBVIOUS
    <2>2. Kept(0, list) BY <2>1
    <2>3. QED BY <2>2
  <1>3. ASSUME NEW k \in 1 .. n, NEW t \in T, <<k - 1, t>> \in Along
        PROVE  <<k, MergeVulnerability(t, incoming[k])>> \in Along
    <2> DEFINE c == incoming[k]
               u == MergeVulnerability(t, c)
    <2>1. c \in Vulnerabilities BY <1>n
    <2>2. Kept(k - 1, t) BY <1>3
    <2>3. First(k) = First(k - 1) \cup {c}
      <3>1. \A i \in 1 .. k : i \in 1 .. k - 1 \/ i = k OBVIOUS
      <3>2. 1 .. k - 1 \subseteq 1 .. k /\ k \in 1 .. k OBVIOUS
      <3>3. QED BY <3>1, <3>2
    <2>4. /\ u \in T
          /\ {Identity(x) : x \in Range(u)} = {Identity(x) : x \in Range(t)} \cup {Identity(c)}
          /\ \A x \in Range(u) : Gate(x.analysis.detail) # NoValue =>
                \E y \in Range(t) \cup {c} : Reason(x) = Reason(y)
      <3> HIDE DEF c
      <3> QED BY <2>1, MergeVulnerabilityKeeps
    <2> HIDE DEF c, u, First
    <2>5. {Identity(x) : x \in Range(list) \cup First(k)}
             = {Identity(x) : x \in Range(list) \cup First(k - 1)} \cup {Identity(c)}
      BY <2>3
    <2>6. ASSUME NEW x \in Range(u), Gate(x.analysis.detail) # NoValue
          PROVE  \E y \in Range(list) \cup First(k) : Reason(x) = Reason(y)
      <3>1. PICK z \in Range(t) \cup {c} : Reason(x) = Reason(z) BY <2>4, <2>6
      <3>2. CASE z = c BY <3>1, <3>2, <2>3
      <3>3. CASE z \in Range(t)
        <4>1. Gate(z.analysis.detail) # NoValue
          BY <3>1, <2>6 DEF Reason
        <4>2. PICK y \in Range(list) \cup First(k - 1) : Reason(z) = Reason(y)
          BY <3>3, <4>1, <2>2
        <4>3. QED BY <4>2, <3>1, <2>3
      <3>4. QED BY <3>1, <3>2, <3>3
    <2>7. Kept(k, u) BY <2>2, <2>4, <2>5, <2>6
    <2> HIDE DEF Kept
    <2>8. <<k, u>> \in Along BY <2>4, <2>7
    <2>9. QED BY <2>8 DEF u, c
  <1>4. MergeVulnerabilities(list, incoming) \in T /\ <<n, MergeVulnerabilities(list, incoming)>> \in Along
    <2> HIDE DEF T, Along
    <2>1. list \in T BY DEF T
    <2>2. QED BY <1>1, <1>2, <1>3, <2>1, MergeVulnerabilitiesInduction
  <1>5. First(n) = Range(incoming) BY <1>n DEF Range
  <1> DEFINE merged == MergeVulnerabilities(list, incoming)
  <1>6. Kept(n, merged) BY <1>4
  <1>7. merged \in Seq(Vulnerabilities) BY <1>4
  <1> HIDE DEF First, merged
  <1>8. {Identity(x) : x \in Range(merged)}
           = {Identity(x) : x \in Range(list)} \cup {Identity(x) : x \in Range(incoming)}
    BY <1>5, <1>6
  <1>9. \A x \in Range(merged) : Gate(x.analysis.detail) # NoValue =>
           \E y \in Range(list) \cup Range(incoming) : Reason(x) = Reason(y)
    BY <1>5, <1>6
  <1>10. QED BY <1>7, <1>8, <1>9 DEF merged

-----------------------------------------------------------------------------
(* What one registry has heard of one PURL. *)
Hearings == [first : STRING, witnesses : SUBSET Witnesses]

Unheard == [first |-> NoValue, witnesses |-> {}]

(* First the one hearing, then the other. *)
Both(h, k) ==
    [first |-> MergeFillGap(h.first, k.first), witnesses |-> h.witnesses \cup k.witnesses]

(* A package says what was heard of it: the parts of the three properties. *)
VerifiedAsHeard(p, h) ==
    VerifiedBy(Range(p.attestations))
      = UNION {VerifiedBy(Range(w.attestations)) : w \in h.witnesses}

ToldAsHeard(p, h) ==
    \A w \in h.witnesses : \A a \in Range(w.attestations) :
       \E b \in Range(p.attestations) : Tells(b, a)

AssertedAsHeard(p, h) ==
    /\ Gate(p.homepage) = h.first
    /\ GateAll(p.references) = UNION {GateAll(w.references) : w \in h.witnesses}

IdentifiedAsHeard(p, h) ==
    {Identity(v) : v \in Range(p.vulnerabilities)}
      = UNION {{Identity(v) : v \in Range(w.vulnerabilities)} : w \in h.witnesses}

ReasonedAsHeard(p, h) ==
    \A v \in Range(p.vulnerabilities) : Gate(v.analysis.detail) # NoValue =>
       \E w \in h.witnesses : \E given \in Range(w.vulnerabilities) : Reason(given) = Reason(v)

Faithful(p, h) ==
    /\ VerifiedAsHeard(p, h)
    /\ ToldAsHeard(p, h)
    /\ AssertedAsHeard(p, h)
    /\ IdentifiedAsHeard(p, h)
    /\ ReasonedAsHeard(p, h)

(* A registry and what it has heard. *)
Sound(r, h) ==
    /\ r = [byPURL |-> r.byPURL, order |-> r.order]
    /\ DOMAIN r.byPURL \subseteq PURLs
    /\ r.byPURL \in [DOMAIN r.byPURL -> PackagesOf(PURLs)]
    /\ r.order \in Seq(PURLs)
    /\ Range(r.order) = DOMAIN r.byPURL
    /\ h \in [PURLs -> Hearings]
    /\ \A purl \in DOMAIN r.byPURL :
          r.byPURL[purl].purl = purl /\ Faithful(r.byPURL[purl], h[purl])
    /\ \A purl \in PURLs \ DOMAIN r.byPURL : h[purl] = Unheard

RegistryInv ==
    /\ heard = [registry |-> heard.registry, clone |-> heard.clone]
    /\ Sound(registry, heard.registry)
    /\ Sound(clone, heard.clone)

-----------------------------------------------------------------------------
(* The types of the fields of a package record. *)
LEMMA FieldsOfPackage ==
    ASSUME NEW P, NEW p \in PackagesOf(P)
    PROVE  /\ p.purl \in P /\ p.name \in STRING /\ p.homepage \in STRING
           /\ p.references \in SUBSET STRING
           /\ p.attestations \in Seq(Attestations)
           /\ p.vulnerabilities \in Seq(Vulnerabilities)
  BY DEF PackagesOf

(* A package of which nothing was heard is faithful to silence. *)
LEMMA EmptyIsUnheard ==
    ASSUME NEW purl \in PURLs
    PROVE  /\ EmptyPackage(purl) \in PackagesOf(PURLs)
           /\ EmptyPackage(purl).purl = purl
           /\ Faithful(EmptyPackage(purl), Unheard)
           /\ Unheard \in Hearings
  <1> DEFINE e == EmptyPackage(purl)
  <1>1. /\ e.purl = purl /\ e.name = NoValue /\ e.homepage = NoValue /\ e.references = {}
        /\ e.attestations = << >> /\ e.vulnerabilities = << >>
    BY DEF EmptyPackage
  <1>2. e \in PackagesOf(PURLs)
    BY WitnessAssumption DEF EmptyPackage, PackagesOf
  <1>3. Unheard.first = NoValue /\ Unheard.witnesses = {} /\ Unheard \in Hearings
    BY WitnessAssumption DEF Unheard, Hearings
  <1> HIDE DEF e
  <1>4. Range(e.attestations) = {} /\ Range(e.vulnerabilities) = {}
    BY <1>1 DEF Range
  <1>5. VerifiedAsHeard(e, Unheard) BY <1>3, <1>4 DEF VerifiedAsHeard, VerifiedBy
  <1>6. ToldAsHeard(e, Unheard) BY <1>3 DEF ToldAsHeard
  <1>7. AssertedAsHeard(e, Unheard) BY <1>1, <1>3 DEF AssertedAsHeard, Gate, GateAll
  <1>8. IdentifiedAsHeard(e, Unheard) BY <1>3, <1>4 DEF IdentifiedAsHeard
  <1>9. ReasonedAsHeard(e, Unheard) BY <1>4 DEF ReasonedAsHeard
  <1>10. Faithful(e, Unheard) BY <1>5, <1>6, <1>7, <1>8, <1>9 DEF Faithful
  <1>11. QED BY <1>1, <1>2, <1>3, <1>10 DEF e

(* A witness says what it says. *)
LEMMA WitnessIsHeard ==
    ASSUME NEW w \in PackagesOf(PURLs \cup {NoPURL})
    PROVE  Faithful(w, [first |-> Gate(w.homepage), witnesses |-> {w}])
  <1> DEFINE h == [first |-> Gate(w.homepage), witnesses |-> {w}]
  <1>1. h.first = Gate(w.homepage) /\ h.witnesses = {w} OBVIOUS
  <1> HIDE DEF h
  <1>2. VerifiedAsHeard(w, h) BY <1>1 DEF VerifiedAsHeard
  <1>3. ToldAsHeard(w, h) BY <1>1 DEF ToldAsHeard, Tells
  <1>4. AssertedAsHeard(w, h) BY <1>1 DEF AssertedAsHeard
  <1>5. IdentifiedAsHeard(w, h) BY <1>1 DEF IdentifiedAsHeard
  <1>6. ReasonedAsHeard(w, h) BY <1>1 DEF ReasonedAsHeard
  <1>7. QED BY <1>2, <1>3, <1>4, <1>5, <1>6 DEF Faithful, h

(* The gate at the registry's door loses nothing that was heard. *)
LEMMA NormalizeKeeps ==
    ASSUME NEW P, NEW p \in PackagesOf(P), NEW h, Faithful(p, h)
    PROVE  /\ NormalizeAssertions(p) \in PackagesOf(P)
           /\ NormalizeAssertions(p).purl = p.purl
           /\ Faithful(NormalizeAssertions(p), h)
  <1> DEFINE g == NormalizeAssertions(p)
             none == << >>
             vs == MergeVulnerabilities(none, p.vulnerabilities)
  <1>1. /\ p.purl \in P /\ p.name \in STRING /\ p.homepage \in STRING
        /\ p.references \in SUBSET STRING
        /\ p.attestations \in Seq(Attestations)
        /\ p.vulnerabilities \in Seq(Vulnerabilities)
    BY FieldsOfPackage
  <1>2. none \in Seq(Vulnerabilities) /\ Range(none) = {}
    BY DEF Range
  <1> HIDE DEF none
  <1>3. /\ vs \in Seq(Vulnerabilities)
        /\ {Identity(x) : x \in Range(vs)} = {Identity(x) : x \in Range(p.vulnerabilities)}
        /\ \A x \in Range(vs) : Gate(x.analysis.detail) # NoValue =>
              \E y \in Range(p.vulnerabilities) : Reason(x) = Reason(y)
    <2>1. /\ vs \in Seq(Vulnerabilities)
          /\ {Identity(x) : x \in Range(vs)}
                = {Identity(x) : x \in Range(none)} \cup {Identity(x) : x \in Range(p.vulnerabilities)}
          /\ \A x \in Range(vs) : Gate(x.analysis.detail) # NoValue =>
                \E y \in Range(none) \cup Range(p.vulnerabilities) : Reason(x) = Reason(y)
      BY <1>1, <1>2, MergeVulnerabilitiesKeep
    <2> HIDE DEF vs
    <2>2. QED BY <2>1, <1>2
  <1> HIDE DEF vs
  <1>4. GateAll(p.references) \in SUBSET STRING /\ GateAll(GateAll(p.references)) = GateAll(p.references)
    BY <1>1 DEF GateAll
  <1>5. Gate(p.homepage) \in STRING /\ Gate(Gate(p.homepage)) = Gate(p.homepage)
    BY <1>1, GateAgain
  <1>6. g = [p EXCEPT !.homepage = Gate(p.homepage), !.references = GateAll(p.references),
                      !.vulnerabilities = vs]
    BY DEF NormalizeAssertions, vs, none
  <1> HIDE DEF g
  <1>7. /\ g \in PackagesOf(P) /\ g.purl = p.purl
        /\ g.homepage = Gate(p.homepage) /\ g.references = GateAll(p.references)
        /\ g.attestations = p.attestations /\ g.vulnerabilities = vs
    BY <1>3, <1>4, <1>5, <1>6 DEF PackagesOf
  <1>8. VerifiedAsHeard(g, h) BY <1>7 DEF Faithful, VerifiedAsHeard
  <1>9. ToldAsHeard(g, h) BY <1>7 DEF Faithful, ToldAsHeard
  <1>10. AssertedAsHeard(g, h) BY <1>4, <1>5, <1>7 DEF Faithful, AssertedAsHeard
  <1>11. IdentifiedAsHeard(g, h) BY <1>3, <1>7 DEF Faithful, IdentifiedAsHeard
  <1>12. ASSUME NEW x \in Range(vs), Gate(x.analysis.detail) # NoValue
         PROVE  \E w \in h.witnesses : \E given \in Range(w.vulnerabilities) : Reason(given) = Reason(x)
    <2>1. PICK y \in Range(p.vulnerabilities) : Reason(x) = Reason(y) BY <1>3, <1>12
    <2>2. Gate(y.analysis.detail) # NoValue BY <1>12, <2>1 DEF Reason
    <2>3. QED BY <2>1, <2>2 DEF Faithful, ReasonedAsHeard
  <1>13. ReasonedAsHeard(g, h) BY <1>7, <1>12 DEF ReasonedAsHeard
  <1>14. QED BY <1>7, <1>8, <1>9, <1>10, <1>11, <1>13 DEF Faithful, g

(* Two packages merged say what was heard of the one and of the other. *)
LEMMA MergeFromKeeps ==
    ASSUME NEW P, NEW p \in PackagesOf(P), NEW src \in PackagesOf(P),
           NEW h \in Hearings, NEW k \in Hearings, Faithful(p, h), Faithful(src, k)
    PROVE  /\ MergeFrom(p, src) \in PackagesOf(P)
           /\ MergeFrom(p, src).purl = p.purl
           /\ Faithful(MergeFrom(p, src), Both(h, k))
  <1> DEFINE m == MergeFrom(p, src)
             b == Both(h, k)
             as == MergeAttestations(p.attestations, src.attestations)
             vs == MergeVulnerabilities(p.vulnerabilities, src.vulnerabilities)
             name == MergeFillGap(p.name, src.name)
             homepage == MergedHomepage(p, src)
             references == MergedReferences(p, src)
  <1>1. /\ p.purl \in P /\ p.name \in STRING /\ p.homepage \in STRING
        /\ p.references \in SUBSET STRING
        /\ p.attestations \in Seq(Attestations)
        /\ p.vulnerabilities \in Seq(Vulnerabilities)
    BY FieldsOfPackage
  <1>2. /\ src.name \in STRING /\ src.homepage \in STRING
        /\ src.references \in SUBSET STRING
        /\ src.attestations \in Seq(Attestations)
        /\ src.vulnerabilities \in Seq(Vulnerabilities)
    BY FieldsOfPackage
  <1>3. /\ as \in Seq(Attestations)
        /\ VerifiedBy(Range(as)) = VerifiedBy(Range(p.attestations)) \cup VerifiedBy(Range(src.attestations))
        /\ \A a \in Range(p.attestations) \cup Range(src.attestations) : \E c \in Range(as) : Tells(c, a)
    BY <1>1, <1>2, MergeAttestationsKeep
  <1>4. /\ vs \in Seq(Vulnerabilities)
        /\ {Identity(x) : x \in Range(vs)} = {Identity(x) : x \in Range(p.vulnerabilities)}
                                             \cup {Identity(x) : x \in Range(src.vulnerabilities)}
        /\ \A x \in Range(vs) : Gate(x.analysis.detail) # NoValue =>
              \E y \in Range(p.vulnerabilities) \cup Range(src.vulnerabilities) : Reason(x) = Reason(y)
    BY <1>1, <1>2, MergeVulnerabilitiesKeep
  <1>5. /\ name \in STRING /\ homepage \in STRING
        /\ homepage = MergeFillGap(h.first, k.first) /\ Gate(homepage) = homepage
    <2>1. Gate(p.homepage) = h.first /\ Gate(src.homepage) = k.first
      BY DEF Faithful, AssertedAsHeard
    <2>2. h.first \in STRING /\ k.first \in STRING /\ Gate(h.first) = h.first /\ Gate(k.first) = k.first
      BY <2>1, <1>1, <1>2, GateAgain
    <2>3. QED BY <2>1, <2>2, <1>1, <1>2 DEF MergedHomepage, MergeFillGap
  <1>6. /\ references \in SUBSET STRING
        /\ GateAll(references) = GateAll(p.references) \cup GateAll(src.references)
    BY <1>1, <1>2 DEF MergedReferences, GateAll
  <1>7. m = [p EXCEPT !.name = name, !.homepage = homepage, !.references = references,
                      !.attestations = as, !.vulnerabilities = vs]
    BY DEF MergeFrom
  <1>8. b.first = MergeFillGap(h.first, k.first) /\ b.witnesses = h.witnesses \cup k.witnesses
    BY DEF Both
  <1> HIDE DEF m, as, vs, name, homepage, references, b
  <1>9. /\ m \in PackagesOf(P) /\ m.purl = p.purl
        /\ m.homepage = homepage /\ m.references = references
        /\ m.attestations = as /\ m.vulnerabilities = vs
    BY <1>3, <1>4, <1>5, <1>6, <1>7 DEF PackagesOf
  <1>10. VerifiedAsHeard(m, b)
    BY <1>3, <1>8, <1>9 DEF Faithful, VerifiedAsHeard
  <1>11. ToldAsHeard(m, b)
    <2> SUFFICES ASSUME NEW w \in h.witnesses \cup k.witnesses, NEW a \in Range(w.attestations)
                 PROVE  \E c \in Range(as) : Tells(c, a)
      BY <1>8, <1>9 DEF ToldAsHeard
    <2>1. PICK d \in Range(p.attestations) \cup Range(src.attestations) : Tells(d, a)
      BY DEF Faithful, ToldAsHeard
    <2>2. PICK c \in Range(as) : Tells(c, d) BY <1>3
    <2>3. QED BY <2>1, <2>2 DEF Tells
  <1>12. AssertedAsHeard(m, b)
    BY <1>5, <1>6, <1>8, <1>9 DEF Faithful, AssertedAsHeard
  <1>13. IdentifiedAsHeard(m, b)
    BY <1>4, <1>8, <1>9 DEF Faithful, IdentifiedAsHeard
  <1>14. ReasonedAsHeard(m, b)
    <2> SUFFICES ASSUME NEW x \in Range(vs), Gate(x.analysis.detail) # NoValue
                 PROVE  \E w \in h.witnesses \cup k.witnesses : \E given \in Range(w.vulnerabilities) :
                           Reason(given) = Reason(x)
      BY <1>8, <1>9 DEF ReasonedAsHeard
    <2>1. PICK y \in Range(p.vulnerabilities) \cup Range(src.vulnerabilities) : Reason(x) = Reason(y)
      BY <1>4
    <2>2. Gate(y.analysis.detail) # NoValue BY <2>1 DEF Reason
    <2>3. QED BY <2>1, <2>2 DEF Faithful, ReasonedAsHeard
  <1>15. QED BY <1>9, <1>10, <1>11, <1>12, <1>13, <1>14 DEF Faithful, m, b

-----------------------------------------------------------------------------
(* A package stored is the one its PURL has, and every other stays. *)
LEMMA StoredKeeps ==
    ASSUME NEW r, NEW h, Sound(r, h),
           NEW pkg \in PackagesOf(PURLs), NEW k \in Hearings, Faithful(pkg, k)
    PROVE  Sound(Stored(r, pkg), [h EXCEPT ![pkg.purl] = k])
  <1> DEFINE u == pkg.purl
             D == DOMAIN r.byPURL
             byPURL == [purl \in D \cup {u} |-> IF purl = u THEN pkg ELSE r.byPURL[purl]]
             order == IF Has(r, u) THEN r.order ELSE Append(r.order, u)
             s == Stored(r, pkg)
             g == [h EXCEPT ![u] = k]
  <1>1. u \in PURLs BY FieldsOfPackage
  <1>2. /\ D \subseteq PURLs /\ r.byPURL \in [D -> PackagesOf(PURLs)] /\ r.order \in Seq(PURLs)
        /\ Range(r.order) = D /\ h \in [PURLs -> Hearings]
        /\ \A purl \in D : r.byPURL[purl].purl = purl /\ Faithful(r.byPURL[purl], h[purl])
        /\ \A purl \in PURLs \ D : h[purl] = Unheard
    BY DEF Sound
  <1>3. s = [byPURL |-> byPURL, order |-> order] BY DEF Stored
  <1>4. s.byPURL = byPURL /\ s.order = order BY <1>3
  <1>5. order \in Seq(PURLs) /\ Range(order) = D \cup {u}
    <2>1. CASE u \in D BY <2>1, <1>2 DEF Has
    <2>2. CASE u \notin D
      <3>1. order = Append(r.order, u) BY <2>2 DEF Has
      <3>2. Range(Append(r.order, u)) = Range(r.order) \cup {u} BY <1>1, <1>2, RangeOfAppend
      <3>3. QED BY <3>1, <3>2, <1>1, <1>2
    <2>3. QED BY <2>1, <2>2
  <1> HIDE DEF u
  <1>6. byPURL \in [D \cup {u} -> PackagesOf(PURLs)]
    BY <1>2
  <1>7. g \in [PURLs -> Hearings] /\ g[u] = k /\ \A purl \in PURLs : purl # u => g[purl] = h[purl]
    BY <1>1, <1>2
  <1>8. \A purl \in D \cup {u} : byPURL[purl].purl = purl /\ Faithful(byPURL[purl], g[purl])
    <2> TAKE purl \in D \cup {u}
    <2>1. CASE purl = u
      <3>1. byPURL[purl] = pkg /\ g[purl] = k BY <2>1, <1>7
      <3> HIDE DEF byPURL, g
      <3>2. QED BY <3>1, <2>1 DEF u
    <2>2. CASE purl # u
      <3>1. purl \in D /\ byPURL[purl] = r.byPURL[purl] /\ g[purl] = h[purl] BY <2>2, <1>2, <1>7
      <3> HIDE DEF byPURL, g
      <3>2. QED BY <3>1, <1>2
    <2>3. QED BY <2>1, <2>2
  <1>9. \A purl \in PURLs \ (D \cup {u}) : g[purl] = Unheard
    BY <1>2, <1>7
  <1>10. DOMAIN byPURL = D \cup {u} OBVIOUS
  <1>11. D \cup {u} \subseteq PURLs BY <1>1, <1>2
  <1> HIDE DEF s, byPURL, order, g
  <1>12. Sound(s, g)
    BY <1>3, <1>4, <1>5, <1>6, <1>7, <1>8, <1>9, <1>10, <1>11 DEF Sound
  <1>13. QED BY <1>12 DEF s, g, u

(* A package added is what was heard of its PURL, and then the package. *)
LEMMA AddedKeeps ==
    ASSUME NEW r, NEW h, Sound(r, h),
           NEW pkg \in PackagesOf(PURLs), NEW k \in Hearings, Faithful(pkg, k)
    PROVE  Sound(Added(r, pkg), [h EXCEPT ![pkg.purl] = Both(h[pkg.purl], k)])
  <1> DEFINE gated == NormalizeAssertions(pkg)
             old == r.byPURL[pkg.purl]
  <1>1. pkg.purl \in PURLs /\ pkg.purl # NoPURL BY FieldsOfPackage, WitnessAssumption
  <1>2. gated \in PackagesOf(PURLs) /\ gated.purl = pkg.purl /\ Faithful(gated, k)
    BY NormalizeKeeps
  <1>3. h[pkg.purl] \in Hearings BY <1>1 DEF Sound
  <1>4. Both(h[pkg.purl], k) \in Hearings
    BY <1>3 DEF Both, Hearings, MergeFillGap
  <1>5. CASE Has(r, pkg.purl)
    <2>1. old \in PackagesOf(PURLs) /\ old.purl = pkg.purl /\ Faithful(old, h[pkg.purl])
      BY <1>1, <1>5 DEF Sound, Has
    <2> DEFINE m == MergeFrom(old, gated)
    <2> HIDE DEF gated, old
    <2>2. m \in PackagesOf(PURLs) /\ m.purl = pkg.purl /\ Faithful(m, Both(h[pkg.purl], k))
      BY <2>1, <1>2, <1>3, MergeFromKeeps
    <2>3. Added(r, pkg) = Stored(r, m) BY <1>1, <1>5 DEF Added, gated, old
    <2> HIDE DEF m
    <2>4. Sound(Stored(r, m), [h EXCEPT ![m.purl] = Both(h[pkg.purl], k)])
      BY <2>2, <1>4, StoredKeeps
    <2>5. QED BY <2>2, <2>3, <2>4
  <1>6. CASE ~Has(r, pkg.purl)
    <2>1. h[pkg.purl] = Unheard BY <1>1, <1>6 DEF Sound, Has
    <2>2. Both(h[pkg.purl], k) = k
      BY <2>1 DEF Both, Unheard, MergeFillGap, Hearings
    <2>3. Added(r, pkg) = Stored(r, gated) BY <1>1, <1>6 DEF Added
    <2> HIDE DEF gated
    <2>4. Sound(Stored(r, gated), [h EXCEPT ![gated.purl] = k])
      BY <1>2, StoredKeeps
    <2>5. QED BY <1>2, <2>2, <2>3, <2>4
  <1>7. QED BY <1>5, <1>6

(* Hearing two reports is a report, and hearing the second again adds
   nothing. *)
LEMMA BothType ==
    ASSUME NEW h \in Hearings, NEW k \in Hearings
    PROVE  /\ Both(h, k) \in Hearings
           /\ Both(Both(h, k), k) = Both(h, k)
           /\ Both(h, Unheard) = h
  BY DEF Both, Hearings, MergeFillGap, Unheard

(* What the fold of another registry makes of r, by induction along its order. *)
LEMMA MergedInduction ==
    ASSUME NEW T, NEW r \in T, NEW other, NEW P, other.order \in Seq(P),
           \A t \in T, purl \in P : Added(t, other.byPURL[purl]) \in T,
           NEW Along, <<0, r>> \in Along,
           \A k \in 1 .. Len(other.order), t \in T :
              <<k - 1, t>> \in Along => <<k, Added(t, other.byPURL[other.order[k]])>> \in Along
    PROVE  Merged(r, other) \in T /\ <<Len(other.order), Merged(r, other)>> \in Along
  <1> DEFINE order == other.order
             n == Len(order)
             step == [p \in (1 .. n) \X T |-> Added(p[2], other.byPURL[order[p[1]]])]
             Fold(g) == [s \in SUBSET (1 .. n) |->
                           IF s = {} THEN r
                           ELSE Added(g[s \ {Max(s)}], other.byPURL[order[Max(s)]])]
             f == CHOOSE g : g = Fold(g)
  <1>n. n \in Nat /\ DOMAIN order = 1 .. n /\ \A k \in 1 .. n : order[k] \in P
    OBVIOUS
  <1>1. step \in [(1 .. n) \X T -> T]
    BY <1>n
  <1>2. PICK g \in [SUBSET (1 .. n) -> T] : IsFold(g, n, r, step)
    <2> HIDE DEF step, n
    <2> QED BY <1>n, <1>1, FoldFunctionExists
  <1>3. g = Fold(g)
    <2>1. ASSUME NEW s \in SUBSET (1 .. n), s # {}
          PROVE  g[s] = Added(g[s \ {Max(s)}], other.byPURL[order[Max(s)]])
      <3>1. Max(s) \in 1 .. n BY <2>1, <1>n, MaxUpTo
      <3>2. g[s \ {Max(s)}] \in T BY <1>2
      <3>3. QED BY <3>1, <3>2, <1>2, <2>1 DEF IsFold
    <2>2. QED BY <2>1, <1>2 DEF IsFold
  <1>4. f = Fold(f)
    <2> HIDE DEF Fold
    <2> QED BY <1>3
  <1>5. Merged(r, other) = f[1 .. n]
    BY <1>n DEF Merged, FoldLeft, MapThenFoldSet
  <1> HIDE DEF f
  <1>6. f[{}] = r BY <1>4
  <1>7. \A k \in 1 .. n : f[1 .. k] = Added(f[1 .. k - 1], other.byPURL[order[k]])
    <2> TAKE k \in 1 .. n
    <2>1. /\ 1 .. k \in SUBSET (1 .. n) /\ 1 .. k # {} /\ Max(1 .. k) = k
          /\ (1 .. k) \ {k} = 1 .. k - 1
      BY <1>n, FirstIndices
    <2>2. QED BY <2>1, <1>4
  <1>8. \A k \in 1 .. n : f[1 .. k] = IF f[1 .. k - 1] \in T THEN step[<<k, f[1 .. k - 1]>>]
                                      ELSE f[1 .. k]
    BY <1>7
  <1>9. \A k \in 1 .. n, t \in T : <<k - 1, t>> \in Along => <<k, step[<<k, t>>]>> \in Along
    OBVIOUS
  <1>10. f[1 .. n] \in T /\ <<n, f[1 .. n]>> \in Along
    <2> HIDE DEF step, n
    <2> QED BY <1>n, <1>1, <1>6, <1>8, <1>9, FoldInduction
  <1>11. QED BY <1>5, <1>10

(* A registry folded into another: of every PURL, what the one has heard and
   then what the other has. *)
LEMMA MergedKeeps ==
    ASSUME NEW r, NEW h, Sound(r, h), NEW other, NEW k, Sound(other, k)
    PROVE  Sound(Merged(r, other), [purl \in PURLs |-> Both(h[purl], k[purl])])
  <1> DEFINE n == Len(other.order)
             First(i) == {other.order[j] : j \in 1 .. i}
             Heard(i) == [purl \in PURLs |-> IF purl \in First(i) THEN Both(h[purl], k[purl])
                                              ELSE h[purl]]
             All == [byPURL : UNION {[held -> PackagesOf(PURLs)] : held \in SUBSET PURLs},
                     order : Seq(PURLs)]
             T == {t \in All : \E g : Sound(t, g)}
             Along == {p \in Nat \X T : Sound(p[2], Heard(p[1]))}
             D == DOMAIN other.byPURL
  <1>1. ASSUME NEW t, NEW g, Sound(t, g) PROVE t \in T
    <2>1. t \in All BY <1>1 DEF Sound
    <2> HIDE DEF All
    <2>2. QED BY <2>1, <1>1
  <1>2. /\ other.order \in Seq(D) /\ D \subseteq PURLs /\ Range(other.order) = D
        /\ n \in Nat /\ DOMAIN other.order = 1 .. n
        /\ h \in [PURLs -> Hearings] /\ k \in [PURLs -> Hearings]
        /\ \A purl \in D : /\ other.byPURL[purl] \in PackagesOf(PURLs)
                           /\ other.byPURL[purl].purl = purl
                           /\ Faithful(other.byPURL[purl], k[purl])
        /\ \A purl \in PURLs \ D : k[purl] = Unheard
    <2>1. /\ other.order \in Seq(PURLs) /\ D \subseteq PURLs /\ Range(other.order) = D
          /\ h \in [PURLs -> Hearings] /\ k \in [PURLs -> Hearings]
          /\ other.byPURL \in [D -> PackagesOf(PURLs)]
          /\ \A purl \in D : /\ other.byPURL[purl].purl = purl
                             /\ Faithful(other.byPURL[purl], k[purl])
          /\ \A purl \in PURLs \ D : k[purl] = Unheard
      BY DEF Sound
    <2>2. n \in Nat /\ DOMAIN other.order = 1 .. n BY <2>1
    <2>3. \A i \in 1 .. n : other.order[i] \in D BY <2>1, <2>2 DEF Range
    <2>4. other.order \in Seq(D) BY <2>1, <2>2, <2>3
    <2>5. \A purl \in D : other.byPURL[purl] \in PackagesOf(PURLs) BY <2>1
    <2> HIDE DEF D, n
    <2>6. QED BY <2>1, <2>2, <2>4, <2>5
  <1> HIDE DEF All, T, D
  <1>3. \A t \in T, purl \in D : Added(t, other.byPURL[purl]) \in T
    <2> SUFFICES ASSUME NEW t \in T, NEW purl \in D PROVE Added(t, other.byPURL[purl]) \in T
      OBVIOUS
    <2>1. PICK g : Sound(t, g) BY DEF T
    <2> DEFINE pkg == other.byPURL[purl]
    <2>2. k[purl] \in Hearings /\ pkg \in PackagesOf(PURLs) /\ Faithful(pkg, k[purl]) BY <1>2
    <2> HIDE DEF pkg
    <2>3. Sound(Added(t, pkg), [g EXCEPT ![pkg.purl] = Both(g[pkg.purl], k[purl])])
      BY <2>1, <2>2, AddedKeeps
    <2>4. QED BY <2>3, <1>1 DEF pkg
  <1>4. <<0, r>> \in Along
    <2>1. First(0) = {} OBVIOUS
    <2>2. Heard(0) = h BY <2>1, <1>2
    <2>3. r \in T BY <1>1
    <2>4. Sound(r, Heard(0)) BY <2>2
    <2> HIDE DEF Heard
    <2>5. QED BY <2>3, <2>4
  <1>5. ASSUME NEW i \in 1 .. n, NEW t \in T, <<i - 1, t>> \in Along
        PROVE  <<i, Added(t, other.byPURL[other.order[i]])>> \in Along
    <2> DEFINE purl == other.order[i]
               pkg == other.byPURL[purl]
               g == Heard(i - 1)
    <2>1. purl \in D /\ purl \in PURLs /\ k[purl] \in Hearings /\ h[purl] \in Hearings BY <1>2
    <2>2. pkg \in PackagesOf(PURLs) /\ pkg.purl = purl /\ Faithful(pkg, k[purl]) BY <2>1, <1>2
    <2>3. Sound(t, g) BY <1>5
    <2>4. Sound(Added(t, pkg), [g EXCEPT ![purl] = Both(g[purl], k[purl])])
      <3> HIDE DEF pkg, g, purl
      <3> QED BY <2>1, <2>2, <2>3, AddedKeeps
    <2>5. First(i) = First(i - 1) \cup {purl}
      <3>1. \A j \in 1 .. i : j \in 1 .. i - 1 \/ j = i OBVIOUS
      <3>2. 1 .. i - 1 \subseteq 1 .. i /\ i \in 1 .. i OBVIOUS
      <3>3. QED BY <3>1, <3>2
    <2>6. Both(g[purl], k[purl]) = Both(h[purl], k[purl])
      <3>1. g[purl] = Both(h[purl], k[purl]) \/ g[purl] = h[purl] BY <2>1
      <3> HIDE DEF g, purl
      <3>2. QED BY <3>1, <2>1, BothType
    <2>7. [g EXCEPT ![purl] = Both(g[purl], k[purl])] = Heard(i)
      <3>1. [g EXCEPT ![purl] = Both(g[purl], k[purl])]
              = [x \in PURLs |-> IF x = purl THEN Both(h[purl], k[purl]) ELSE g[x]]
        BY <2>6
      <3> HIDE DEF First, purl
      <3>2. QED BY <3>1, <2>5
    <2>8. Added(t, pkg) \in T BY <2>1, <1>3
    <2>9. Sound(Added(t, pkg), Heard(i)) BY <2>4, <2>7
    <2>10. i \in Nat BY <1>2
    <2> HIDE DEF Heard, n
    <2>11. QED BY <2>8, <2>9, <2>10
  <1>6. Merged(r, other) \in T /\ <<n, Merged(r, other)>> \in Along
    <2> HIDE DEF Along
    <2>1. r \in T BY <1>1
    <2>2. QED BY <1>2, <1>3, <1>4, <1>5, <2>1, MergedInduction
  <1>7. First(n) = D BY <1>2 DEF Range
  <1>8. \A purl \in PURLs \ D : Both(h[purl], k[purl]) = h[purl]
    BY <1>2, BothType
  <1>9. Heard(n) = [purl \in PURLs |-> Both(h[purl], k[purl])]
    <2> HIDE DEF First
    <2> QED BY <1>7, <1>8
  <1>10. Sound(Merged(r, other), Heard(n)) BY <1>6
  <1>11. QED BY <1>9, <1>10

(* A witness added to a registry is heard. *)
LEMMA WitnessAdded ==
    ASSUME NEW r, NEW h, Sound(r, h), NEW w \in Witnesses
    PROVE  Sound(Added(r, w), Hear(h, w))
  <1> DEFINE k == [first |-> Gate(w.homepage), witnesses |-> {w}]
             u == w.purl
  <1>1. w \in PackagesOf(PURLs \cup {NoPURL}) BY WitnessAssumption
  <1>2. u \in PURLs \cup {NoPURL} /\ w.homepage \in STRING /\ Faithful(w, k)
    BY <1>1, FieldsOfPackage, WitnessIsHeard
  <1>3. CASE u = NoPURL BY <1>3 DEF Added, Hear
  <1>4. CASE u # NoPURL
    <2>1. u \in PURLs BY <1>2, <1>4
    <2>2. w \in PackagesOf(PURLs) BY <1>1, <2>1 DEF PackagesOf
    <2>3. k \in Hearings BY <1>2, GateAgain DEF Hearings
    <2>4. h \in [PURLs -> Hearings] BY DEF Sound
    <2>5. Both(h[u], k) = [first |-> MergeFillGap(h[u].first, Gate(w.homepage)),
                           witnesses |-> h[u].witnesses \cup {w}]
      BY DEF Both
    <2>6. Hear(h, w) = [h EXCEPT ![u] = Both(h[u], k)]
      BY <2>4, <2>5, <1>4 DEF Hear
    <2> HIDE DEF k
    <2>7. Sound(Added(r, w), [h EXCEPT ![u] = Both(h[u], k)])
      BY <2>2, <2>3, <1>2, AddedKeeps
    <2>8. QED BY <2>6, <2>7
  <1>5. QED BY <1>3, <1>4

(* A PURL ensured is held and nothing is heard of it. *)
LEMMA EnsuredKeeps ==
    ASSUME NEW r, NEW h, Sound(r, h), NEW purl \in PURLs
    PROVE  Sound(Ensured(r, purl), h)
  <1> DEFINE e == EmptyPackage(purl)
  <1>1. CASE Has(r, purl) BY <1>1 DEF Ensured
  <1>2. CASE ~Has(r, purl)
    <2>1. e \in PackagesOf(PURLs) /\ e.purl = purl /\ Faithful(e, Unheard) /\ Unheard \in Hearings
      BY EmptyIsUnheard
    <2>2. h \in [PURLs -> Hearings] /\ h[purl] = Unheard BY <1>2 DEF Sound, Has
    <2>3. [h EXCEPT ![purl] = Unheard] = h BY <2>2
    <2>4. Ensured(r, purl) = Stored(r, e) BY <1>2 DEF Ensured
    <2> HIDE DEF e
    <2>5. Sound(Stored(r, e), [h EXCEPT ![e.purl] = Unheard]) BY <2>1, StoredKeeps
    <2>6. QED BY <2>1, <2>3, <2>4, <2>5
  <1>3. QED BY <1>1, <1>2

(* A homepage written in place is the first, when it passes the gate. *)
LEMMA WrittenKeeps ==
    ASSUME NEW r, NEW h, Sound(r, h), NEW purl \in DOMAIN r.byPURL, NEW value \in STRING
    PROVE  Sound([r EXCEPT !.byPURL[purl].homepage = value], [h EXCEPT ![purl].first = Gate(value)])
  <1> DEFINE D == DOMAIN r.byPURL
             p == r.byPURL[purl]
             q == [p EXCEPT !.homepage = value]
             byPURL == [r.byPURL EXCEPT ![purl] = q]
             s == [r EXCEPT !.byPURL[purl].homepage = value]
             k == [h[purl] EXCEPT !.first = Gate(value)]
             g == [h EXCEPT ![purl].first = Gate(value)]
  <1>1. /\ r = [byPURL |-> r.byPURL, order |-> r.order]
        /\ D \subseteq PURLs /\ r.byPURL \in [D -> PackagesOf(PURLs)] /\ r.order \in Seq(PURLs)
        /\ Range(r.order) = D /\ h \in [PURLs -> Hearings]
        /\ \A x \in D : r.byPURL[x].purl = x /\ Faithful(r.byPURL[x], h[x])
        /\ \A x \in PURLs \ D : h[x] = Unheard
    BY DEF Sound
  <1>2. p \in PackagesOf(PURLs) /\ p.purl = purl /\ Faithful(p, h[purl]) /\ h[purl] \in Hearings
    BY <1>1
  <1>3. s.byPURL = byPURL /\ s.order = r.order /\ s = [byPURL |-> s.byPURL, order |-> s.order]
    BY <1>1
  <1>4. g = [h EXCEPT ![purl] = k] BY <1>1
  <1> HIDE DEF p, k
  <1>5. /\ q \in PackagesOf(PURLs) /\ q.purl = p.purl /\ q.homepage = value
        /\ q.references = p.references /\ q.attestations = p.attestations
        /\ q.vulnerabilities = p.vulnerabilities
    BY <1>2 DEF PackagesOf
  <1>6. k \in Hearings /\ k.first = Gate(value) /\ k.witnesses = h[purl].witnesses
    BY <1>2, GateAgain DEF k, Hearings
  <1> HIDE DEF q
  <1>7. Faithful(q, k)
    BY <1>2, <1>5, <1>6 DEF Faithful, VerifiedAsHeard, ToldAsHeard, AssertedAsHeard,
                             IdentifiedAsHeard, ReasonedAsHeard
  <1>8. byPURL \in [D -> PackagesOf(PURLs)] /\ DOMAIN byPURL = D
    BY <1>1, <1>5
  <1>9. g \in [PURLs -> Hearings] /\ \A x \in PURLs \ D : g[x] = Unheard
    BY <1>1, <1>4, <1>6
  <1>10. \A x \in D : byPURL[x].purl = x /\ Faithful(byPURL[x], g[x])
    <2> TAKE x \in D
    <2>1. CASE x = purl
      <3>1. byPURL[x] = q /\ g[x] = k BY <2>1, <1>1, <1>4
      <3> HIDE DEF byPURL, g
      <3>2. QED BY <3>1, <2>1, <1>2, <1>5, <1>7
    <2>2. CASE x # purl
      <3>1. byPURL[x] = r.byPURL[x] /\ g[x] = h[x] BY <2>2, <1>1, <1>4
      <3> HIDE DEF byPURL, g
      <3>2. QED BY <3>1, <1>1
    <2>3. QED BY <2>1, <2>2
  <1> HIDE DEF byPURL, s, g
  <1>11. Sound(s, g) BY <1>1, <1>3, <1>8, <1>9, <1>10 DEF Sound
  <1>12. QED BY <1>11 DEF s, g

(* An empty registry is sound before any report. *)
LEMMA SilenceIsSound == Sound(EmptyRegistry, Silence)
  <1>1. EmptyRegistry.byPURL = << >> /\ EmptyRegistry.order = << >>
        /\ EmptyRegistry = [byPURL |-> EmptyRegistry.byPURL, order |-> EmptyRegistry.order]
    BY DEF EmptyRegistry
  <1>2. DOMAIN << >> = {} /\ Range(<< >>) = {} /\ << >> \in Seq(PURLs) /\ << >> \in [{} -> PackagesOf(PURLs)]
    BY DEF Range
  <1>3. Silence = [purl \in PURLs |-> Unheard] BY DEF Silence, Unheard
  <1>4. Unheard \in Hearings BY WitnessAssumption DEF Unheard, Hearings
  <1>5. Silence \in [PURLs -> Hearings] /\ \A purl \in PURLs : Silence[purl] = Unheard
    BY <1>3, <1>4
  <1>6. QED BY <1>1, <1>2, <1>5 DEF Sound
-----------------------------------------------------------------------------
(* The invariant, step by step. *)
LEMMA RegistryInvInit == RegistryInit => RegistryInv
  <1> SUFFICES ASSUME RegistryInit PROVE RegistryInv OBVIOUS
  <1>1. heard.registry = Silence /\ heard.clone = Silence
        /\ heard = [registry |-> heard.registry, clone |-> heard.clone]
    BY DEF RegistryInit
  <1>2. QED BY <1>1, SilenceIsSound DEF RegistryInit, RegistryInv

(* Every step of the registry keeps its invariant. *)
LEMMA RegistryInvNext == RegistryInv /\ [RegistryNext]_registryVars => RegistryInv'
  <1> SUFFICES ASSUME RegistryInv, [RegistryNext]_registryVars PROVE RegistryInv' OBVIOUS
  <1>i. /\ heard = [registry |-> heard.registry, clone |-> heard.clone]
        /\ Sound(registry, heard.registry)
        /\ Sound(clone, heard.clone)
    BY DEF RegistryInv
  <1>1. CASE UNCHANGED registryVars BY <1>1, <1>i DEF registryVars, RegistryInv
  <1>2. ASSUME NEW w \in Witnesses, Add(w) PROVE RegistryInv'
    <2>1. registry' = Added(registry, w) /\ clone' = clone
          /\ heard' = [heard EXCEPT !.registry = Hear(heard.registry, w)]
      BY <1>2 DEF Add
    <2>2. heard'.registry = Hear(heard.registry, w) /\ heard'.clone = heard.clone
          /\ heard' = [registry |-> heard'.registry, clone |-> heard'.clone]
      BY <2>1, <1>i
    <2>3. Sound(registry', heard'.registry) BY <2>1, <2>2, <1>i, WitnessAdded
    <2>4. QED BY <2>1, <2>2, <2>3, <1>i DEF RegistryInv
  <1>3. ASSUME NEW w \in Witnesses, ComponentAdds(w) PROVE RegistryInv'
    <2>1. clone' = Added(clone, w) /\ registry' = registry
          /\ heard' = [heard EXCEPT !.clone = Hear(heard.clone, w)]
      BY <1>3 DEF ComponentAdds
    <2>2. heard'.clone = Hear(heard.clone, w) /\ heard'.registry = heard.registry
          /\ heard' = [registry |-> heard'.registry, clone |-> heard'.clone]
      BY <2>1, <1>i
    <2>3. Sound(clone', heard'.clone) BY <2>1, <2>2, <1>i, WitnessAdded
    <2>4. QED BY <2>1, <2>2, <2>3, <1>i DEF RegistryInv
  <1>4. ASSUME NEW purl \in PURLs, Ensure(purl) PROVE RegistryInv'
    <2>1. registry' = Ensured(registry, purl) /\ clone' = clone /\ heard' = heard
      BY <1>4 DEF Ensure
    <2>2. Sound(registry', heard'.registry) BY <2>1, <1>i, EnsuredKeeps
    <2>3. QED BY <2>1, <2>2, <1>i DEF RegistryInv
  <1>5. ASSUME NEW purl \in PURLs, NEW w \in Witnesses, WriteThrough(purl, w.homepage)
        PROVE  RegistryInv'
    <2> DEFINE value == w.homepage
    <2>1. value \in STRING
      <3>1. w \in PackagesOf(PURLs \cup {NoPURL}) BY WitnessAssumption
      <3>2. QED BY <3>1, FieldsOfPackage
    <2> HIDE DEF value
    <2>2. /\ purl \in DOMAIN registry.byPURL /\ clone' = clone
          /\ registry' = [registry EXCEPT !.byPURL[purl].homepage = value]
          /\ heard' = [heard EXCEPT !.registry[purl].first = Gate(value)]
      BY <1>5 DEF WriteThrough, Has, value
    <2>3. /\ heard'.registry = [heard.registry EXCEPT ![purl].first = Gate(value)]
          /\ heard'.clone = heard.clone
          /\ heard' = [registry |-> heard'.registry, clone |-> heard'.clone]
      BY <2>2, <1>i
    <2>4. Sound(registry', heard'.registry) BY <2>1, <2>2, <2>3, <1>i, WrittenKeeps
    <2>5. QED BY <2>2, <2>3, <2>4, <1>i DEF RegistryInv
  <1>6. CASE CloneForComponent
    <2>1. clone' = registry /\ registry' = registry
          /\ heard' = [heard EXCEPT !.clone = heard.registry]
      BY <1>6 DEF CloneForComponent
    <2>2. heard'.clone = heard.registry /\ heard'.registry = heard.registry
          /\ heard' = [registry |-> heard'.registry, clone |-> heard'.clone]
      BY <2>1, <1>i
    <2>3. QED BY <2>1, <2>2, <1>i DEF RegistryInv
  <1>7. CASE MergeClone
    <2>1. registry' = Merged(registry, clone) /\ clone' = EmptyRegistry
          /\ heard' = [registry |-> HearAll(heard.registry, heard.clone), clone |-> Silence]
      BY <1>7 DEF MergeClone
    <2>2. heard'.registry = HearAll(heard.registry, heard.clone) /\ heard'.clone = Silence
          /\ heard' = [registry |-> heard'.registry, clone |-> heard'.clone]
      BY <2>1
    <2>3. HearAll(heard.registry, heard.clone)
            = [purl \in PURLs |-> Both(heard.registry[purl], heard.clone[purl])]
      BY DEF HearAll, Both
    <2>4. Sound(registry', heard'.registry) BY <2>1, <2>2, <2>3, <1>i, MergedKeeps
    <2>5. QED BY <2>1, <2>2, <2>4, SilenceIsSound DEF RegistryInv
  <1>8. CASE DropClone
    <2>1. registry' = registry /\ clone' = EmptyRegistry
          /\ heard' = [heard EXCEPT !.clone = Silence]
      BY <1>8 DEF DropClone
    <2>2. heard'.registry = heard.registry /\ heard'.clone = Silence
          /\ heard' = [registry |-> heard'.registry, clone |-> heard'.clone]
      BY <2>1, <1>i
    <2>3. QED BY <2>1, <2>2, <1>i, SilenceIsSound DEF RegistryInv
  <1>9. QED
    BY <1>1, <1>2, <1>3, <1>4, <1>5, <1>6, <1>7, <1>8 DEF RegistryNext

(* What a registry holds of a PURL is what it has heard of it, whatever callers
   add, in any order, through any clones merged back or dropped. *)
THEOREM RegistryIsFaithful == Spec => []RegistryInv
  <1>1. Init => RegistryInv BY RegistryInvInit DEF Init
  <1>2. RegistryInv /\ [Next]_vars => RegistryInv'
    <2>1. [Next]_vars => [RegistryNext]_registryVars BY DEF Next, vars
    <2>2. QED BY <2>1, RegistryInvNext
  <1>3. QED BY <1>1, <1>2, PTL DEF Spec

(* VerificationStaysWithItsIssuer holds in every state: no merge makes a
   signature checked for one issuer count for another (attestation.go:61-71). *)
THEOREM VerificationsStay == Spec => []VerificationStaysWithItsIssuer
  <1>1. RegistryInv => VerificationStaysWithItsIssuer
    BY DEF RegistryInv, Sound, Faithful, VerifiedAsHeard, VerificationStaysWithItsIssuer, Holds
  <1>2. QED BY <1>1, RegistryIsFaithful, PTL

(* WitnessesSurvive holds in every state: nothing a witness stated is lost and
   nothing is invented (assertions.go:33-37, :109-113). *)
THEOREM WitnessesAreKept == Spec => []WitnessesSurvive
  <1>1. RegistryInv => WitnessesSurvive
    BY DEF RegistryInv, Sound, Faithful, ToldAsHeard, AssertedAsHeard, IdentifiedAsHeard,
           Tells, WitnessesSurvive, Holds
  <1>2. QED BY <1>1, RegistryIsFaithful, PTL

(* RationaleHasItsState holds in every state: a published rationale is one that
   a witness gave for the published state (vulnerability_analysis.go:172-177). *)
THEOREM RationalesKeepTheirState == Spec => []RationaleHasItsState
  <1> DEFINE Given(p, h, v) ==
                \E w \in h.witnesses : \E given \in Range(w.vulnerabilities) :
                   /\ Identity(given) = Identity(v)
                   /\ Gate(given.analysis.state) = GatedAnalysis(v.analysis).state
                   /\ Gate(given.analysis.detail) = GatedAnalysis(v.analysis).detail
             Kept(p, h) == \A v \in Range(p.vulnerabilities) :
                              GatedAnalysis(v.analysis).detail # NoValue => Given(p, h, v)
  <1>1. \A v : GatedAnalysis(v.analysis).state = Gate(v.analysis.state)
               /\ GatedAnalysis(v.analysis).detail = Gate(v.analysis.detail)
    BY DEF GatedAnalysis
  <1>2. ASSUME NEW p, NEW h, ReasonedAsHeard(p, h), NEW v \in Range(p.vulnerabilities),
               Gate(v.analysis.detail) # NoValue
        PROVE  \E w \in h.witnesses : \E given \in Range(w.vulnerabilities) :
                  /\ Identity(given) = Identity(v)
                  /\ Gate(given.analysis.state) = Gate(v.analysis.state)
                  /\ Gate(given.analysis.detail) = Gate(v.analysis.detail)
    <2>1. PICK w \in h.witnesses : \E given \in Range(w.vulnerabilities) : Reason(given) = Reason(v)
      BY <1>2 DEF ReasonedAsHeard
    <2>2. PICK given \in Range(w.vulnerabilities) : Reason(given) = Reason(v)
      BY <2>1
    <2>3. /\ Identity(given) = Identity(v)
          /\ Gate(given.analysis.state) = Gate(v.analysis.state)
          /\ Gate(given.analysis.detail) = Gate(v.analysis.detail)
      BY <2>2 DEF Reason
    <2>4. QED BY <2>3
  <1>3. \A p, h : Faithful(p, h) => Kept(p, h)
    BY <1>1, <1>2 DEF Faithful
  <1>4. RegistryInv => RationaleHasItsState
    <2> SUFFICES ASSUME RegistryInv PROVE RationaleHasItsState
      OBVIOUS
    <2> HIDE DEF Given
    <2>1. \A purl \in DOMAIN registry.byPURL : Kept(registry.byPURL[purl], heard.registry[purl])
      BY <1>3 DEF RegistryInv, Sound
    <2>2. \A purl \in DOMAIN clone.byPURL : Kept(clone.byPURL[purl], heard.clone[purl])
      BY <1>3 DEF RegistryInv, Sound
    <2>3. QED BY <2>1, <2>2 DEF RationaleHasItsState, Holds, Given
  <1>5. QED BY <1>4, RegistryIsFaithful, PTL
-----------------------------------------------------------------------------
(* The node of a dependency. *)

(* What usage records state: the known scopes at each usage, and the ranks that
   its relationship reaches. *)
ScopeFacts(sites) == UNION {{<<s.path, s.root, x>> : x \in Known(s.scopes)} : s \in sites}

RankFacts(sites) == UNION {{<<s.path, s.root, j>> : j \in 0 .. Rank(s.relationship)} : s \in sites}

NamedOnce(list) == \A i, j \in DOMAIN list : SameUsage(list[i], list[j]) => i = j

(* Every relationship has a rank of its own. *)
LEMMA RankType ==
    ASSUME NEW r \in RelationshipWords
    PROVE  /\ Rank(r) \in 0 .. 3
           /\ \A s \in RelationshipWords : Rank(r) = Rank(s) => r = s
  <1> DEFINE none == ""
  <1>0. none # "direct" /\ none # "transitive" /\ none # "unknown" OBVIOUS
  <1>1. \A w \in RelationshipWords : w = none \/ w = "direct" \/ w = "transitive" \/ w = "unknown"
    BY DEF RelationshipWords
  <1> HIDE DEF none
  <1>2. /\ \A w : w = "direct" => Rank(w) = 3
        /\ \A w : w = "transitive" => Rank(w) = 2
        /\ \A w : w = "unknown" => Rank(w) = 1
    BY DEF Rank
  <1>3. \A w : w = none => Rank(w) = 0 BY <1>0 DEF Rank
  <1>4. \A w \in RelationshipWords :
           \/ w = "direct" /\ Rank(w) = 3
           \/ w = "transitive" /\ Rank(w) = 2
           \/ w = "unknown" /\ Rank(w) = 1
           \/ w = none /\ Rank(w) = 0
    BY <1>1, <1>2, <1>3
  <1>5. \A w \in RelationshipWords : Rank(w) = 3 \/ Rank(w) = 2 \/ Rank(w) = 1 \/ Rank(w) = 0
    BY <1>4
  <1>6. \A w, v \in RelationshipWords : Rank(w) = Rank(v) => w = v
    BY <1>4
  <1>7. QED BY <1>5, <1>6

(* What a set of usage records states, record by record. *)
LEMMA FactsOfUsage ==
    ASSUME NEW sites
    PROVE  /\ \A p, r, x : <<p, r, x>> \in ScopeFacts(sites) <=>
                 \E s \in sites : s.path = p /\ s.root = r /\ x \in Known(s.scopes)
           /\ \A p, r, j : <<p, r, j>> \in RankFacts(sites) <=>
                 \E s \in sites : s.path = p /\ s.root = r /\ j \in 0 .. Rank(s.relationship)
  BY DEF ScopeFacts, RankFacts

(* Two sets of usage records together state what each of them states. *)
LEMMA FactsOfUnion ==
    ASSUME NEW S, NEW T
    PROVE  /\ ScopeFacts(S \cup T) = ScopeFacts(S) \cup ScopeFacts(T)
           /\ RankFacts(S \cup T) = RankFacts(S) \cup RankFacts(T)
  BY DEF ScopeFacts, RankFacts

(* Two records of one usage, merged, state what the two state. *)
LEMMA MergeUsageKeeps ==
    ASSUME NEW a \in UsageRecords, NEW b \in UsageRecords, SameUsage(a, b)
    PROVE  /\ MergeUsage(a, b) \in UsageRecords
           /\ SameUsage(MergeUsage(a, b), a)
           /\ ScopeFacts({MergeUsage(a, b)}) = ScopeFacts({a}) \cup ScopeFacts({b})
           /\ RankFacts({MergeUsage(a, b)}) = RankFacts({a}) \cup RankFacts({b})
  <1> DEFINE m == MergeUsage(a, b)
             scopes == Known(a.scopes \cup b.scopes)
             relationship == MergeDependencyRelationship(a.relationship, b.relationship)
  <1>1. /\ a.scopes \in SUBSET STRING /\ b.scopes \in SUBSET STRING
        /\ a.relationship \in RelationshipWords /\ b.relationship \in RelationshipWords
    BY DEF UsageRecords
  <1>2. m = [a EXCEPT !.scopes = scopes, !.relationship = relationship]
    BY DEF MergeUsage
  <1>3. relationship \in RelationshipWords BY <1>1 DEF MergeDependencyRelationship
  <1>4. scopes \in SUBSET STRING BY <1>1 DEF Known
  <1>5. 0 .. Rank(relationship) = (0 .. Rank(a.relationship)) \cup (0 .. Rank(b.relationship))
    BY <1>1, RankType DEF MergeDependencyRelationship
  <1>6. Known(scopes) = Known(a.scopes) \cup Known(b.scopes) BY DEF Known
  <1> HIDE DEF m, scopes, relationship
  <1>7. /\ m \in UsageRecords /\ m.path = a.path /\ m.root = a.root
        /\ m.scopes = scopes /\ m.relationship = relationship
    BY <1>2, <1>3, <1>4 DEF UsageRecords
  <1>8. ScopeFacts({m}) = ScopeFacts({a}) \cup ScopeFacts({b})
    BY <1>6, <1>7 DEF ScopeFacts, SameUsage
  <1>9. RankFacts({m}) = RankFacts({a}) \cup RankFacts({b})
    <2>1. b.path = a.path /\ b.root = a.root BY DEF SameUsage
    <2> DEFINE J(x) == 0 .. Rank(x.relationship)
    <2>2. J(m) = J(a) \cup J(b) BY <1>5, <1>7
    <2> HIDE DEF J
    <2>3. /\ RankFacts({m}) = {<<m.path, m.root, j>> : j \in J(m)}
          /\ RankFacts({a}) = {<<a.path, a.root, j>> : j \in J(a)}
          /\ RankFacts({b}) = {<<b.path, b.root, j>> : j \in J(b)}
      BY DEF RankFacts, J
    <2>4. QED BY <2>1, <2>2, <2>3, <1>7
  <1>10. QED BY <1>7, <1>8, <1>9 DEF m, SameUsage

(* One usage folded into a list of them. *)
LEMMA MergeLocationKeeps ==
    ASSUME NEW list \in Seq(UsageRecords), NEW l \in UsageRecords
    PROVE  LET merged == MergeLocation(list, l)
           IN /\ merged \in Seq(UsageRecords)
              /\ ScopeFacts(Range(merged)) = ScopeFacts(Range(list)) \cup ScopeFacts({l})
              /\ RankFacts(Range(merged)) = RankFacts(Range(list)) \cup RankFacts({l})
              /\ NamedOnce(list) => NamedOnce(merged)
  <1> DEFINE at == {i \in DOMAIN list : SameUsage(list[i], l)}
             m == Min(at)
             merged == MergeLocation(list, l)
  <1>n. Len(list) \in Nat /\ DOMAIN list = 1 .. Len(list) /\ \A i \in DOMAIN list : list[i] \in UsageRecords
    OBVIOUS
  <1>1. CASE at = {}
    <2>1. merged = Append(list, l) BY <1>1 DEF MergeLocation
    <2>2. Range(Append(list, l)) = Range(list) \cup {l} BY RangeOfAppend
    <2>3. NamedOnce(list) => NamedOnce(Append(list, l))
      <3> SUFFICES ASSUME NamedOnce(list) PROVE NamedOnce(Append(list, l)) OBVIOUS
      <3> DEFINE n == Len(list)
                 u == Append(list, l)
      <3>1. /\ DOMAIN u = 1 .. n + 1 /\ u[n + 1] = l /\ \A i \in 1 .. n : u[i] = list[i]
        OBVIOUS
      <3>2. \A i \in 1 .. n : ~SameUsage(list[i], l) /\ ~SameUsage(l, list[i])
        BY <1>1 DEF SameUsage
      <3>3. \A i \in 1 .. n + 1 : i \in 1 .. n \/ i = n + 1 BY <1>n
      <3> HIDE DEF u, n
      <3>4. \A i, j \in 1 .. n : SameUsage(u[i], u[j]) => i = j BY <3>1, <1>n DEF NamedOnce, n
      <3>5. NamedOnce(u) BY <3>1, <3>2, <3>3, <3>4 DEF NamedOnce
      <3>6. QED BY <3>5 DEF u
    <2>4. /\ ScopeFacts(Range(list) \cup {l}) = ScopeFacts(Range(list)) \cup ScopeFacts({l})
          /\ RankFacts(Range(list) \cup {l}) = RankFacts(Range(list)) \cup RankFacts({l})
      BY FactsOfUnion
    <2>5. Append(list, l) \in Seq(UsageRecords) OBVIOUS
    <2> HIDE DEF merged, at
    <2>6. /\ merged \in Seq(UsageRecords)
          /\ Range(merged) = Range(list) \cup {l}
          /\ NamedOnce(list) => NamedOnce(merged)
      BY <2>1, <2>2, <2>3, <2>5
    <2>7. QED BY <2>4, <2>6 DEF merged
  <1>2. CASE at # {}
    <2>1. at \subseteq Nat /\ m \in at
      <3>1. at \subseteq DOMAIN list /\ DOMAIN list \subseteq Nat OBVIOUS
      <3> HIDE DEF at
      <3>2. QED BY <3>1, <1>2, MinOfNaturals
    <2> DEFINE old == list[m]
               e == MergeUsage(old, l)
    <2>2. merged = [list EXCEPT ![m] = MergeUsage(list[m], l)]
      BY <1>2 DEF MergeLocation
    <2>3. m \in DOMAIN list /\ old \in UsageRecords /\ SameUsage(old, l)
      BY <2>1
    <2>4. /\ e \in UsageRecords /\ SameUsage(e, old)
          /\ ScopeFacts({e}) = ScopeFacts({old}) \cup ScopeFacts({l})
          /\ RankFacts({e}) = RankFacts({old}) \cup RankFacts({l})
      <3> HIDE DEF old, m
      <3> QED BY <2>3, MergeUsageKeeps
    <2> HIDE DEF m, e
    <2>5. /\ merged \in Seq(UsageRecords) /\ DOMAIN merged = DOMAIN list
          /\ merged[m] = e
          /\ \A i \in DOMAIN list : i # m => merged[i] = list[i]
      BY <2>2, <2>3, <2>4 DEF e
    <2> DEFINE others == {list[i] : i \in DOMAIN list \ {m}}
    <2> HIDE DEF merged, at, old
    <2>6. old = list[m] BY DEF old
    <2>7. Range(list) = others \cup {old} BY <2>3, <2>6 DEF Range
    <2>8. Range(merged) = others \cup {e} BY <2>3, <2>5 DEF Range
    <2> HIDE DEF others
    <2>9. ScopeFacts(Range(merged)) = ScopeFacts(Range(list)) \cup ScopeFacts({l})
      <3>1. ScopeFacts(others \cup {old}) = ScopeFacts(others) \cup ScopeFacts({old}) BY FactsOfUnion
      <3>2. ScopeFacts(others \cup {e}) = ScopeFacts(others) \cup ScopeFacts({e}) BY FactsOfUnion
      <3>3. QED BY <3>1, <3>2, <2>4, <2>7, <2>8
    <2>10. RankFacts(Range(merged)) = RankFacts(Range(list)) \cup RankFacts({l})
      <3>1. RankFacts(others \cup {old}) = RankFacts(others) \cup RankFacts({old}) BY FactsOfUnion
      <3>2. RankFacts(others \cup {e}) = RankFacts(others) \cup RankFacts({e}) BY FactsOfUnion
      <3>3. QED BY <3>1, <3>2, <2>4, <2>7, <2>8
    <2>11. NamedOnce(list) => NamedOnce(merged)
      BY <2>3, <2>4, <2>5, <2>6 DEF NamedOnce, SameUsage
    <2>12. QED BY <2>5, <2>9, <2>10, <2>11 DEF merged
  <1>3. QED BY <1>1, <1>2

(* What the fold over a list of usage records makes, by induction along it. *)
LEMMA MergeNodeLocationsInduction ==
    ASSUME NEW T, NEW list \in T, NEW incoming \in Seq(UsageRecords),
           \A t \in T, c \in UsageRecords : MergeLocation(t, c) \in T,
           NEW Along, <<0, list>> \in Along,
           \A k \in 1 .. Len(incoming), t \in T :
              <<k - 1, t>> \in Along => <<k, MergeLocation(t, incoming[k])>> \in Along
    PROVE  /\ MergeNodeLocations(list, incoming) \in T
           /\ <<Len(incoming), MergeNodeLocations(list, incoming)>> \in Along
  <1> DEFINE n == Len(incoming)
             step == [p \in (1 .. n) \X T |-> MergeLocation(p[2], incoming[p[1]])]
             Fold(g) == [s \in SUBSET (1 .. n) |->
                           IF s = {} THEN list
                           ELSE MergeLocation(g[s \ {Max(s)}], incoming[Max(s)])]
             f == CHOOSE g : g = Fold(g)
  <1>n. n \in Nat /\ DOMAIN incoming = 1 .. n /\ \A k \in 1 .. n : incoming[k] \in UsageRecords
    OBVIOUS
  <1>1. step \in [(1 .. n) \X T -> T]
    BY <1>n
  <1>2. PICK g \in [SUBSET (1 .. n) -> T] : IsFold(g, n, list, step)
    <2> HIDE DEF step, n
    <2> QED BY <1>n, <1>1, FoldFunctionExists
  <1>3. g = Fold(g)
    <2>1. ASSUME NEW s \in SUBSET (1 .. n), s # {}
          PROVE  g[s] = MergeLocation(g[s \ {Max(s)}], incoming[Max(s)])
      <3>1. Max(s) \in 1 .. n BY <2>1, <1>n, MaxUpTo
      <3>2. g[s \ {Max(s)}] \in T BY <1>2
      <3>3. QED BY <3>1, <3>2, <1>2, <2>1 DEF IsFold
    <2>2. QED BY <2>1, <1>2 DEF IsFold
  <1>4. f = Fold(f)
    <2> HIDE DEF Fold
    <2> QED BY <1>3
  <1>5. MergeNodeLocations(list, incoming) = f[1 .. n]
    BY <1>n DEF MergeNodeLocations, FoldLeft, MapThenFoldSet
  <1> HIDE DEF f
  <1>6. f[{}] = list BY <1>4
  <1>7. \A k \in 1 .. n : f[1 .. k] = MergeLocation(f[1 .. k - 1], incoming[k])
    <2> TAKE k \in 1 .. n
    <2>1. /\ 1 .. k \in SUBSET (1 .. n) /\ 1 .. k # {} /\ Max(1 .. k) = k
          /\ (1 .. k) \ {k} = 1 .. k - 1
      BY <1>n, FirstIndices
    <2>2. QED BY <2>1, <1>4
  <1>8. \A k \in 1 .. n : f[1 .. k] = IF f[1 .. k - 1] \in T THEN step[<<k, f[1 .. k - 1]>>]
                                      ELSE f[1 .. k]
    BY <1>7
  <1>9. \A k \in 1 .. n, t \in T : <<k - 1, t>> \in Along => <<k, step[<<k, t>>]>> \in Along
    OBVIOUS
  <1>10. f[1 .. n] \in T /\ <<n, f[1 .. n]>> \in Along
    <2> HIDE DEF step, n
    <2> QED BY <1>n, <1>1, <1>6, <1>8, <1>9, FoldInduction
  <1>11. QED BY <1>5, <1>10

(* The merged usages state what the two lists state. *)
LEMMA MergeNodeLocationsKeep ==
    ASSUME NEW list \in Seq(UsageRecords), NEW incoming \in Seq(UsageRecords)
    PROVE  LET merged == MergeNodeLocations(list, incoming)
           IN /\ merged \in Seq(UsageRecords)
              /\ ScopeFacts(Range(merged)) = ScopeFacts(Range(list)) \cup ScopeFacts(Range(incoming))
              /\ RankFacts(Range(merged)) = RankFacts(Range(list)) \cup RankFacts(Range(incoming))
              /\ NamedOnce(list) => NamedOnce(merged)
  <1> DEFINE T == Seq(UsageRecords)
             n == Len(incoming)
             First(k) == {incoming[i] : i \in 1 .. k}
             Kept(k, t) ==
                /\ ScopeFacts(Range(t)) = ScopeFacts(Range(list)) \cup ScopeFacts(First(k))
                /\ RankFacts(Range(t)) = RankFacts(Range(list)) \cup RankFacts(First(k))
                /\ NamedOnce(list) => NamedOnce(t)
             Along == {p \in Nat \X T : Kept(p[1], p[2])}
  <1>n. n \in Nat /\ DOMAIN incoming = 1 .. n /\ \A k \in 1 .. n : incoming[k] \in UsageRecords
    OBVIOUS
  <1>1. \A t \in T, c \in UsageRecords : MergeLocation(t, c) \in T
    BY MergeLocationKeeps
  <1>2. <<0, list>> \in Along
    <2>1. First(0) = {} OBVIOUS
    <2>2. ScopeFacts({}) = {} /\ RankFacts({}) = {} BY DEF ScopeFacts, RankFacts
    <2>3. Kept(0, list) BY <2>1, <2>2
    <2> HIDE DEF Kept
    <2>4. QED BY <2>3
  <1>3. ASSUME NEW k \in 1 .. n, NEW t \in T, <<k - 1, t>> \in Along
        PROVE  <<k, MergeLocation(t, incoming[k])>> \in Along
    <2> DEFINE c == incoming[k]
               u == MergeLocation(t, c)
    <2>1. c \in UsageRecords BY <1>n
    <2>2. Kept(k - 1, t) BY <1>3
    <2>3. First(k) = First(k - 1) \cup {c}
      <3>1. \A i \in 1 .. k : i \in 1 .. k - 1 \/ i = k OBVIOUS
      <3>2. 1 .. k - 1 \subseteq 1 .. k /\ k \in 1 .. k OBVIOUS
      <3>3. QED BY <3>1, <3>2
    <2>4. /\ u \in T
          /\ ScopeFacts(Range(u)) = ScopeFacts(Range(t)) \cup ScopeFacts({c})
          /\ RankFacts(Range(u)) = RankFacts(Range(t)) \cup RankFacts({c})
          /\ NamedOnce(t) => NamedOnce(u)
      <3> HIDE DEF c
      <3> QED BY <2>1, MergeLocationKeeps
    <2> HIDE DEF c, u, First
    <2>5. /\ ScopeFacts(First(k)) = ScopeFacts(First(k - 1)) \cup ScopeFacts({c})
          /\ RankFacts(First(k)) = RankFacts(First(k - 1)) \cup RankFacts({c})
      <3> DEFINE A == First(k - 1)
                 B == {c}
      <3>1. First(k) = A \cup B BY <2>3
      <3> HIDE DEF A, B
      <3>2. ScopeFacts(A \cup B) = ScopeFacts(A) \cup ScopeFacts(B) BY FactsOfUnion
      <3>3. RankFacts(A \cup B) = RankFacts(A) \cup RankFacts(B) BY FactsOfUnion
      <3>4. QED BY <3>1, <3>2, <3>3 DEF A, B
    <2>6. Kept(k, u)
      <3>1. ScopeFacts(Range(u)) = ScopeFacts(Range(list)) \cup ScopeFacts(First(k)) BY <2>2, <2>4, <2>5
      <3>2. RankFacts(Range(u)) = RankFacts(Range(list)) \cup RankFacts(First(k)) BY <2>2, <2>4, <2>5
      <3>3. QED BY <3>1, <3>2, <2>2, <2>4
    <2> HIDE DEF Kept
    <2>7. k \in Nat BY <1>n
    <2>8. <<k, u>> \in Along BY <2>4, <2>6, <2>7
    <2>9. QED BY <2>8 DEF u, c
  <1>4. MergeNodeLocations(list, incoming) \in T /\ <<n, MergeNodeLocations(list, incoming)>> \in Along
    <2> HIDE DEF T, Along
    <2>1. list \in T BY DEF T
    <2>2. QED BY <1>1, <1>2, <1>3, <2>1, MergeNodeLocationsInduction
  <1>5. First(n) = Range(incoming) BY <1>n DEF Range
  <1>6. Kept(n, MergeNodeLocations(list, incoming)) BY <1>4
  <1> HIDE DEF First
  <1>7. QED BY <1>4, <1>5, <1>6

(* A list that names each usage once and states what the sites state is the
   usage records the sites make together. *)
LEMMA UsagesFromFacts ==
    ASSUME NEW list \in Seq(UsageRecords), NamedOnce(list),
           NEW sites \in SUBSET UsageRecords,
           ScopeFacts(Range(list)) = ScopeFacts(sites),
           RankFacts(Range(list)) = RankFacts(sites)
    PROVE  {[l EXCEPT !.scopes = Known(@)] : l \in Range(list)} = UsagesOf(sites)
  <1> DEFINE of(p, r) == {s \in sites : s.path = p /\ s.root = r}
             Record(s) == [path |-> s.path, root |-> s.root,
                           scopes |-> Known(UNION {t.scopes : t \in of(s.path, s.root)}),
                           relationship |-> Strongest({t.relationship : t \in of(s.path, s.root)})]
  <1>1. Range(list) \subseteq UsageRecords BY ElementsOfSeq
  <1>2. \A l, k \in Range(list) : SameUsage(l, k) => l = k
    BY DEF NamedOnce, Range
  <1>3. ASSUME NEW l \in Range(list), NEW s \in sites, SameUsage(l, s)
        PROVE  [l EXCEPT !.scopes = Known(l.scopes)] = Record(s)
    <2> DEFINE p == s.path
               r == s.root
               relationships == {t.relationship : t \in of(p, r)}
    <2>1. l \in UsageRecords /\ l.path = p /\ l.root = r /\ l.relationship \in RelationshipWords
      BY <1>1, <1>3 DEF SameUsage, UsageRecords
    <2>2. \A x : x \in Known(l.scopes) <=> \E t \in of(p, r) : x \in Known(t.scopes)
      <3>1. \A x : <<p, r, x>> \in ScopeFacts(Range(list)) <=>
                      \E k \in Range(list) : k.path = p /\ k.root = r /\ x \in Known(k.scopes)
        BY FactsOfUsage
      <3>2. \A x : <<p, r, x>> \in ScopeFacts(sites) <=>
                      \E t \in sites : t.path = p /\ t.root = r /\ x \in Known(t.scopes)
        BY FactsOfUsage
      <3>3. \A k \in Range(list) : k.path = p /\ k.root = r => k = l
        BY <1>2, <2>1 DEF SameUsage
      <3> HIDE DEF p, r
      <3>4. QED BY <3>1, <3>2, <3>3, <2>1
    <2>3. Known(UNION {t.scopes : t \in of(p, r)}) = Known(l.scopes)
      BY <2>2 DEF Known
    <2>4. \A t \in of(p, r) : t.relationship \in RelationshipWords /\ Rank(t.relationship) <= Rank(l.relationship)
      <3> SUFFICES ASSUME NEW t \in of(p, r)
                   PROVE  t.relationship \in RelationshipWords /\ Rank(t.relationship) <= Rank(l.relationship)
        OBVIOUS
      <3> DEFINE j == Rank(t.relationship)
      <3>1. t.relationship \in RelationshipWords BY DEF UsageRecords
      <3>2. j \in 0 .. 3 /\ j \in 0 .. j BY <3>1, RankType
      <3>3. <<p, r, j>> \in RankFacts(sites) BY <3>2, FactsOfUsage
      <3>4. PICK k \in Range(list) : k.path = p /\ k.root = r /\ j \in 0 .. Rank(k.relationship)
        BY <3>3, FactsOfUsage
      <3>5. k = l BY <3>4, <1>2, <2>1 DEF SameUsage
      <3>6. QED BY <3>1, <3>2, <3>4, <3>5
    <2>5. l.relationship \in relationships
      <3> DEFINE j == Rank(l.relationship)
      <3>1. j \in 0 .. 3 /\ j \in 0 .. j BY <2>1, RankType
      <3>2. <<p, r, j>> \in RankFacts(Range(list)) BY <3>1, <2>1, FactsOfUsage
      <3>3. PICK t \in sites : t.path = p /\ t.root = r /\ j \in 0 .. Rank(t.relationship)
        BY <3>2, FactsOfUsage
      <3>4. t \in of(p, r) BY <3>3
      <3>5. Rank(t.relationship) \in 0 .. 3 /\ Rank(t.relationship) <= j /\ t.relationship \in RelationshipWords
        BY <3>4, <2>4, RankType
      <3>6. Rank(t.relationship) = j BY <3>1, <3>3, <3>5
      <3>7. t.relationship = l.relationship BY <3>5, <3>6, <2>1, RankType
      <3>8. QED BY <3>4, <3>7
    <2>6. Strongest(relationships) = l.relationship
      <3>1. \A w \in relationships : w \in RelationshipWords /\ Rank(w) <= Rank(l.relationship)
        BY <2>4
      <3> HIDE DEF relationships
      <3>2. Strongest(relationships) \in relationships
            /\ \A w \in relationships : Rank(w) <= Rank(Strongest(relationships))
        BY <3>1, <2>5 DEF Strongest
      <3> DEFINE x == Strongest(relationships)
      <3> HIDE DEF x
      <3>3. Rank(x) \in 0 .. 3 /\ Rank(l.relationship) \in 0 .. 3 /\ x \in RelationshipWords
        BY <3>1, <3>2, <2>1, RankType DEF x
      <3>4. Rank(x) = Rank(l.relationship) BY <3>1, <3>2, <3>3, <2>5 DEF x
      <3>5. x = l.relationship BY <3>3, <3>4, <2>1, RankType
      <3>6. QED BY <3>5 DEF x
    <2>7. [l EXCEPT !.scopes = Known(l.scopes)]
            = [path |-> p, root |-> r, scopes |-> Known(l.scopes), relationship |-> l.relationship]
      BY <2>1 DEF UsageRecords
    <2>8. QED BY <2>3, <2>6, <2>7
  <1>4. \A l \in Range(list) : \E s \in sites : SameUsage(l, s)
    <2> TAKE l \in Range(list)
    <2>1. l.relationship \in RelationshipWords BY <1>1 DEF UsageRecords
    <2>2. 0 \in 0 .. Rank(l.relationship) BY <2>1, RankType
    <2>3. <<l.path, l.root, 0>> \in RankFacts(Range(list)) BY <2>2, FactsOfUsage
    <2>4. PICK s \in sites : s.path = l.path /\ s.root = l.root BY <2>3, FactsOfUsage
    <2>5. QED BY <2>4 DEF SameUsage
  <1>5. \A s \in sites : \E l \in Range(list) : SameUsage(l, s)
    <2> TAKE s \in sites
    <2>1. s.relationship \in RelationshipWords BY DEF UsageRecords
    <2>2. 0 \in 0 .. Rank(s.relationship) BY <2>1, RankType
    <2>3. <<s.path, s.root, 0>> \in RankFacts(sites) BY <2>2, FactsOfUsage
    <2>4. PICK l \in Range(list) : l.path = s.path /\ l.root = s.root BY <2>3, FactsOfUsage
    <2>5. QED BY <2>4 DEF SameUsage
  <1>6. UsagesOf(sites) = {Record(s) : s \in sites} BY DEF UsagesOf
  <1> DEFINE Canonical1(l) == [l EXCEPT !.scopes = Known(l.scopes)]
  <1>7. \A l \in Range(list), s \in sites : SameUsage(l, s) => Canonical1(l) = Record(s)
    BY <1>3
  <1> HIDE DEF Record, Canonical1
  <1>8. {Canonical1(l) : l \in Range(list)} = {Record(s) : s \in sites}
    BY <1>4, <1>5, <1>7
  <1>9. QED BY <1>6, <1>8 DEF Canonical1

(* The canonical usages of a list are those its records make together. *)
LEMMA CanonicalFromFacts ==
    ASSUME NEW list \in Seq(UsageRecords), NEW sites \in SUBSET UsageRecords,
           ScopeFacts(Range(list)) = ScopeFacts(sites),
           RankFacts(Range(list)) = RankFacts(sites)
    PROVE  CanonicalLocations(list) = UsagesOf(sites)
  <1> DEFINE none == << >>
             merged == MergeNodeLocations(none, list)
  <1>1. none \in Seq(UsageRecords) /\ Range(none) = {} /\ NamedOnce(none)
    BY DEF Range, NamedOnce
  <1>2. CanonicalLocations(list) = {[l EXCEPT !.scopes = Known(@)] : l \in Range(merged)}
    BY DEF CanonicalLocations
  <1> HIDE DEF none
  <1>3. /\ merged \in Seq(UsageRecords)
        /\ ScopeFacts(Range(merged)) = ScopeFacts(Range(none)) \cup ScopeFacts(Range(list))
        /\ RankFacts(Range(merged)) = RankFacts(Range(none)) \cup RankFacts(Range(list))
        /\ NamedOnce(none) => NamedOnce(merged)
    BY <1>1, MergeNodeLocationsKeep
  <1>4. ScopeFacts({}) = {} /\ RankFacts({}) = {} BY DEF ScopeFacts, RankFacts
  <1> HIDE DEF merged
  <1>5. /\ ScopeFacts(Range(merged)) = ScopeFacts(sites)
        /\ RankFacts(Range(merged)) = RankFacts(sites)
    BY <1>1, <1>3, <1>4
  <1>6. {[l EXCEPT !.scopes = Known(@)] : l \in Range(merged)} = UsagesOf(sites)
    BY <1>1, <1>3, <1>5, UsagesFromFacts
  <1>7. QED BY <1>2, <1>6
-----------------------------------------------------------------------------
(* What external references state, once past the gate: the keys, the hashes at
   each key, and the comments at each key with those that sort after them. *)
Gated(refs) == {r \in refs : r.key >= 0}

RefKeys(refs) == {r.key : r \in Gated(refs)}

HashFacts(refs) == UNION {{<<r.key, h>> : h \in r.hashes} : r \in Gated(refs)}

AtOrAfter(comment) == IF comment = 0 THEN {} ELSE {j \in Nat : comment <= j}

CommentFacts(refs) == UNION {{<<r.key, j>> : j \in AtOrAfter(r.comment)} : r \in Gated(refs)}

KeyedOnce(list) ==
    /\ \A i \in DOMAIN list : list[i].key >= 0
    /\ \A i, j \in DOMAIN list : list[i].key = list[j].key => i = j

(* What a union of references states. *)
LEMMA FactsOfRefUnion ==
    ASSUME NEW S, NEW T
    PROVE  /\ RefKeys(S \cup T) = RefKeys(S) \cup RefKeys(T)
           /\ HashFacts(S \cup T) = HashFacts(S) \cup HashFacts(T)
           /\ CommentFacts(S \cup T) = CommentFacts(S) \cup CommentFacts(T)
  <1>1. Gated(S \cup T) = Gated(S) \cup Gated(T) BY DEF Gated
  <1> DEFINE A == Gated(S)
             B == Gated(T)
  <1> HIDE DEF A, B
  <1>2. Gated(S \cup T) = A \cup B BY <1>1 DEF A, B
  <1>3. RefKeys(S \cup T) = RefKeys(S) \cup RefKeys(T)
    <2>1. {r.key : r \in A \cup B} = {r.key : r \in A} \cup {r.key : r \in B} OBVIOUS
    <2>2. QED BY <1>2, <2>1 DEF RefKeys, A, B
  <1>4. HashFacts(S \cup T) = HashFacts(S) \cup HashFacts(T)
    <2> DEFINE H(r) == {<<r.key, h>> : h \in r.hashes}
    <2> HIDE DEF H
    <2>1. UNION {H(r) : r \in A \cup B} = (UNION {H(r) : r \in A}) \cup (UNION {H(r) : r \in B}) OBVIOUS
    <2>2. QED BY <1>2, <2>1 DEF HashFacts, H, A, B
  <1>5. CommentFacts(S \cup T) = CommentFacts(S) \cup CommentFacts(T)
    <2> DEFINE H(r) == {<<r.key, j>> : j \in AtOrAfter(r.comment)}
    <2> HIDE DEF H
    <2>1. UNION {H(r) : r \in A \cup B} = (UNION {H(r) : r \in A}) \cup (UNION {H(r) : r \in B}) OBVIOUS
    <2>2. QED BY <1>2, <2>1 DEF CommentFacts, H, A, B
  <1>6. QED BY <1>3, <1>4, <1>5

(* One reference states its own. *)
LEMMA FactsOfOneReference ==
    ASSUME NEW r, r.key >= 0
    PROVE  /\ RefKeys({r}) = {r.key}
           /\ HashFacts({r}) = {<<r.key, h>> : h \in r.hashes}
           /\ CommentFacts({r}) = {<<r.key, j>> : j \in AtOrAfter(r.comment)}
  <1>1. Gated({r}) = {r} BY DEF Gated
  <1>2. RefKeys({r}) = {r.key} BY <1>1 DEF RefKeys
  <1>3. HashFacts({r}) = {<<r.key, h>> : h \in r.hashes}
    <2> DEFINE H(x) == {<<x.key, h>> : h \in x.hashes}
    <2> HIDE DEF H
    <2>1. UNION {H(x) : x \in {r}} = H(r) OBVIOUS
    <2>2. HashFacts({r}) = UNION {H(x) : x \in Gated({r})} BY DEF HashFacts, H
    <2>3. QED BY <1>1, <2>1, <2>2 DEF H
  <1>4. CommentFacts({r}) = {<<r.key, j>> : j \in AtOrAfter(r.comment)}
    <2> DEFINE H(x) == {<<x.key, j>> : j \in AtOrAfter(x.comment)}
    <2> HIDE DEF H
    <2>1. UNION {H(x) : x \in {r}} = H(r) OBVIOUS
    <2>2. CommentFacts({r}) = UNION {H(x) : x \in Gated({r})} BY DEF CommentFacts, H
    <2>3. QED BY <1>1, <2>1, <2>2 DEF H
  <1>5. QED BY <1>2, <1>3, <1>4

(* What it takes for references to state something. *)
LEMMA FactsOfReference ==
    ASSUME NEW refs
    PROVE  /\ \A k : k \in RefKeys(refs) <=> \E r \in Gated(refs) : r.key = k
           /\ \A k, h : <<k, h>> \in HashFacts(refs) <=> \E r \in Gated(refs) : r.key = k /\ h \in r.hashes
           /\ \A k, j : <<k, j>> \in CommentFacts(refs) <=>
                 \E r \in Gated(refs) : r.key = k /\ j \in AtOrAfter(r.comment)
  BY DEF RefKeys, HashFacts, CommentFacts

(* Two references of one key, reconciled, state what the two state. *)
LEMMA ReconcileReferenceKeeps ==
    ASSUME NEW a \in ReferenceRecords, NEW b \in ReferenceRecords, a.key = b.key, b.key >= 0
    PROVE  /\ ReconcileReference(a, b) \in ReferenceRecords
           /\ ReconcileReference(a, b).key = a.key
           /\ RefKeys({ReconcileReference(a, b)}) = RefKeys({a}) \cup RefKeys({b})
           /\ HashFacts({ReconcileReference(a, b)}) = HashFacts({a}) \cup HashFacts({b})
           /\ CommentFacts({ReconcileReference(a, b)}) = CommentFacts({a}) \cup CommentFacts({b})
  <1> DEFINE m == ReconcileReference(a, b)
             hashes == a.hashes \cup b.hashes
             comment == ReconcileComments(a.comment, b.comment)
  <1>1. /\ a.hashes \in SUBSET STRING /\ b.hashes \in SUBSET STRING
        /\ a.comment \in Nat /\ b.comment \in Nat
    BY DEF ReferenceRecords
  <1>2. m = [a EXCEPT !.hashes = hashes, !.comment = comment]
    BY DEF ReconcileReference
  <1>3. comment \in Nat BY <1>1 DEF ReconcileComments
  <1>4. hashes \in SUBSET STRING BY <1>1
  <1>5. AtOrAfter(comment) = AtOrAfter(a.comment) \cup AtOrAfter(b.comment)
    BY <1>1 DEF ReconcileComments, AtOrAfter
  <1> HIDE DEF m, comment
  <1>6. /\ m \in ReferenceRecords /\ m.key = a.key /\ m.hashes = hashes /\ m.comment = comment
    BY <1>2, <1>3, <1>4 DEF ReferenceRecords
  <1>7. m.key >= 0 /\ a.key >= 0 BY <1>6
  <1>8. RefKeys({m}) = RefKeys({a}) \cup RefKeys({b})
    <2>1. RefKeys({m}) = {m.key} /\ RefKeys({a}) = {a.key} /\ RefKeys({b}) = {b.key}
      BY <1>7, FactsOfOneReference
    <2>2. QED BY <2>1, <1>6
  <1>9. HashFacts({m}) = HashFacts({a}) \cup HashFacts({b})
    <2>1. /\ HashFacts({m}) = {<<m.key, h>> : h \in m.hashes}
          /\ HashFacts({a}) = {<<a.key, h>> : h \in a.hashes}
          /\ HashFacts({b}) = {<<b.key, h>> : h \in b.hashes}
      BY <1>7, FactsOfOneReference
    <2>2. QED BY <2>1, <1>6
  <1>10. CommentFacts({m}) = CommentFacts({a}) \cup CommentFacts({b})
    <2> DEFINE J(x) == AtOrAfter(x.comment)
    <2>1. J(m) = J(a) \cup J(b) BY <1>5, <1>6
    <2>2. /\ CommentFacts({m}) = {<<m.key, j>> : j \in J(m)}
          /\ CommentFacts({a}) = {<<a.key, j>> : j \in J(a)}
          /\ CommentFacts({b}) = {<<b.key, j>> : j \in J(b)}
      BY <1>7, FactsOfOneReference
    <2> HIDE DEF J
    <2>3. QED BY <2>1, <2>2, <1>6
  <1>11. QED BY <1>6, <1>8, <1>9, <1>10 DEF m

(* One reference folded into a list of them. *)
LEMMA MergeReferenceKeeps ==
    ASSUME NEW list \in Seq(ReferenceRecords), KeyedOnce(list), NEW r \in ReferenceRecords
    PROVE  LET merged == MergeReference(list, r)
           IN /\ merged \in Seq(ReferenceRecords)
              /\ RefKeys(Range(merged)) = RefKeys(Range(list)) \cup RefKeys({r})
              /\ HashFacts(Range(merged)) = HashFacts(Range(list)) \cup HashFacts({r})
              /\ CommentFacts(Range(merged)) = CommentFacts(Range(list)) \cup CommentFacts({r})
              /\ KeyedOnce(merged)
  <1> DEFINE at == {i \in DOMAIN list : list[i].key = r.key}
             m == Min(at)
             merged == MergeReference(list, r)
  <1>n. /\ Len(list) \in Nat /\ DOMAIN list = 1 .. Len(list)
        /\ \A i \in DOMAIN list : list[i] \in ReferenceRecords
    OBVIOUS
  <1>k. r.key \in Int /\ \A i \in DOMAIN list : list[i].key \in Int
    BY <1>n DEF ReferenceRecords
  <1>0. CASE r.key < 0
    <2>1. merged = list BY <1>0 DEF MergeReference
    <2>2. Gated({r}) = {} BY <1>0, <1>k DEF Gated
    <2>3. RefKeys({r}) = {} /\ HashFacts({r}) = {} /\ CommentFacts({r}) = {}
      BY <2>2 DEF RefKeys, HashFacts, CommentFacts
    <2>4. /\ RefKeys(Range(list)) = RefKeys(Range(list)) \cup RefKeys({r})
          /\ HashFacts(Range(list)) = HashFacts(Range(list)) \cup HashFacts({r})
          /\ CommentFacts(Range(list)) = CommentFacts(Range(list)) \cup CommentFacts({r})
      BY <2>3
    <2> HIDE DEF merged
    <2>5. QED BY <2>1, <2>4 DEF merged
  <1>1. CASE r.key >= 0 /\ at = {}
    <2>1. merged = Append(list, r) BY <1>1, <1>k DEF MergeReference
    <2>2. Range(Append(list, r)) = Range(list) \cup {r} BY RangeOfAppend
    <2>3. KeyedOnce(Append(list, r))
      <3> DEFINE n == Len(list)
                 u == Append(list, r)
      <3>1. /\ DOMAIN u = 1 .. n + 1 /\ u[n + 1] = r /\ \A i \in 1 .. n : u[i] = list[i]
        OBVIOUS
      <3>2. \A i \in 1 .. n : list[i].key # r.key
        BY <1>1
      <3>3. \A i \in 1 .. n + 1 : i \in 1 .. n \/ i = n + 1 BY <1>n
      <3> HIDE DEF u, n
      <3>4. /\ \A i, j \in 1 .. n : u[i].key = u[j].key => i = j
            /\ \A i \in 1 .. n : u[i].key >= 0
        BY <3>1, <1>n DEF KeyedOnce, n
      <3>5. \A i \in 1 .. n + 1 : u[i].key >= 0 BY <3>1, <3>3, <3>4, <1>1
      <3>6. \A i, j \in 1 .. n + 1 : u[i].key = u[j].key => i = j BY <3>1, <3>2, <3>3, <3>4
      <3>7. KeyedOnce(u) BY <3>1, <3>5, <3>6 DEF KeyedOnce
      <3>8. QED BY <3>7 DEF u
    <2>4. /\ RefKeys(Range(list) \cup {r}) = RefKeys(Range(list)) \cup RefKeys({r})
          /\ HashFacts(Range(list) \cup {r}) = HashFacts(Range(list)) \cup HashFacts({r})
          /\ CommentFacts(Range(list) \cup {r}) = CommentFacts(Range(list)) \cup CommentFacts({r})
      BY FactsOfRefUnion
    <2>5. Append(list, r) \in Seq(ReferenceRecords) OBVIOUS
    <2> HIDE DEF merged, at
    <2>6. /\ merged \in Seq(ReferenceRecords)
          /\ Range(merged) = Range(list) \cup {r}
          /\ KeyedOnce(merged)
      BY <2>1, <2>2, <2>3, <2>5
    <2>7. QED BY <2>4, <2>6 DEF merged
  <1>2. CASE r.key >= 0 /\ at # {}
    <2>1. at \subseteq Nat /\ m \in at
      <3>1. at \subseteq DOMAIN list /\ DOMAIN list \subseteq Nat OBVIOUS
      <3> HIDE DEF at
      <3>2. QED BY <3>1, <1>2, MinOfNaturals
    <2> DEFINE old == list[m]
               e == ReconcileReference(old, r)
    <2>2. merged = [list EXCEPT ![m] = ReconcileReference(list[m], r)]
      BY <1>2, <1>k DEF MergeReference
    <2>3. m \in DOMAIN list /\ old \in ReferenceRecords /\ old.key = r.key
      BY <2>1
    <2>4. /\ e \in ReferenceRecords /\ e.key = old.key
          /\ RefKeys({e}) = RefKeys({old}) \cup RefKeys({r})
          /\ HashFacts({e}) = HashFacts({old}) \cup HashFacts({r})
          /\ CommentFacts({e}) = CommentFacts({old}) \cup CommentFacts({r})
      <3> HIDE DEF old, m
      <3> QED BY <2>3, <1>2, ReconcileReferenceKeeps
    <2> HIDE DEF m, e
    <2>5. /\ merged \in Seq(ReferenceRecords) /\ DOMAIN merged = DOMAIN list
          /\ merged[m] = e
          /\ \A i \in DOMAIN list : i # m => merged[i] = list[i]
      BY <2>2, <2>3, <2>4 DEF e
    <2> DEFINE others == {list[i] : i \in DOMAIN list \ {m}}
    <2> HIDE DEF merged, at, old
    <2>6. old = list[m] BY DEF old
    <2>7. Range(list) = others \cup {old} BY <2>3, <2>6 DEF Range
    <2>8. Range(merged) = others \cup {e} BY <2>3, <2>5 DEF Range
    <2> HIDE DEF others
    <2>9. /\ RefKeys(others \cup {old}) = RefKeys(others) \cup RefKeys({old})
          /\ HashFacts(others \cup {old}) = HashFacts(others) \cup HashFacts({old})
          /\ CommentFacts(others \cup {old}) = CommentFacts(others) \cup CommentFacts({old})
      BY FactsOfRefUnion
    <2>10. /\ RefKeys(others \cup {e}) = RefKeys(others) \cup RefKeys({e})
           /\ HashFacts(others \cup {e}) = HashFacts(others) \cup HashFacts({e})
           /\ CommentFacts(others \cup {e}) = CommentFacts(others) \cup CommentFacts({e})
      BY FactsOfRefUnion
    <2>11. RefKeys(Range(merged)) = RefKeys(Range(list)) \cup RefKeys({r})
      BY <2>4, <2>7, <2>8, <2>9, <2>10
    <2>12. HashFacts(Range(merged)) = HashFacts(Range(list)) \cup HashFacts({r})
      BY <2>4, <2>7, <2>8, <2>9, <2>10
    <2>13. CommentFacts(Range(merged)) = CommentFacts(Range(list)) \cup CommentFacts({r})
      BY <2>4, <2>7, <2>8, <2>9, <2>10
    <2>14. \A i \in DOMAIN list : merged[i].key = list[i].key
      BY <2>4, <2>5, <2>6
    <2>15. KeyedOnce(merged)
      BY <2>5, <2>14 DEF KeyedOnce
    <2>16. QED BY <2>5, <2>11, <2>12, <2>13, <2>15 DEF merged
  <1>3. r.key < 0 \/ r.key >= 0 BY <1>k
  <1> HIDE DEF m, merged, at
  <1>4. QED BY <1>0, <1>1, <1>2, <1>3
(* What the fold over a list of external references makes, by induction along it. *)
LEMMA MergeReferencesInduction ==
    ASSUME NEW T, NEW list \in T, NEW incoming \in Seq(ReferenceRecords),
           \A t \in T, c \in ReferenceRecords : MergeReference(t, c) \in T,
           NEW Along, <<0, list>> \in Along,
           \A k \in 1 .. Len(incoming), t \in T :
              <<k - 1, t>> \in Along => <<k, MergeReference(t, incoming[k])>> \in Along
    PROVE  /\ FoldLeft(MergeReference, list, incoming) \in T
           /\ <<Len(incoming), FoldLeft(MergeReference, list, incoming)>> \in Along
  <1> DEFINE n == Len(incoming)
             step == [p \in (1 .. n) \X T |-> MergeReference(p[2], incoming[p[1]])]
             Fold(g) == [s \in SUBSET (1 .. n) |->
                           IF s = {} THEN list
                           ELSE MergeReference(g[s \ {Max(s)}], incoming[Max(s)])]
             f == CHOOSE g : g = Fold(g)
  <1>n. n \in Nat /\ DOMAIN incoming = 1 .. n /\ \A k \in 1 .. n : incoming[k] \in ReferenceRecords
    OBVIOUS
  <1>1. step \in [(1 .. n) \X T -> T]
    BY <1>n
  <1>2. PICK g \in [SUBSET (1 .. n) -> T] : IsFold(g, n, list, step)
    <2> HIDE DEF step, n
    <2> QED BY <1>n, <1>1, FoldFunctionExists
  <1>3. g = Fold(g)
    <2>1. ASSUME NEW s \in SUBSET (1 .. n), s # {}
          PROVE  g[s] = MergeReference(g[s \ {Max(s)}], incoming[Max(s)])
      <3>1. Max(s) \in 1 .. n BY <2>1, <1>n, MaxUpTo
      <3>2. g[s \ {Max(s)}] \in T BY <1>2
      <3>3. QED BY <3>1, <3>2, <1>2, <2>1 DEF IsFold
    <2>2. QED BY <2>1, <1>2 DEF IsFold
  <1>4. f = Fold(f)
    <2> HIDE DEF Fold
    <2> QED BY <1>3
  <1>5. FoldLeft(MergeReference, list, incoming) = f[1 .. n]
    BY <1>n DEF FoldLeft, MapThenFoldSet
  <1> HIDE DEF f
  <1>6. f[{}] = list BY <1>4
  <1>7. \A k \in 1 .. n : f[1 .. k] = MergeReference(f[1 .. k - 1], incoming[k])
    <2> TAKE k \in 1 .. n
    <2>1. /\ 1 .. k \in SUBSET (1 .. n) /\ 1 .. k # {} /\ Max(1 .. k) = k
          /\ (1 .. k) \ {k} = 1 .. k - 1
      BY <1>n, FirstIndices
    <2>2. QED BY <2>1, <1>4
  <1>8. \A k \in 1 .. n : f[1 .. k] = IF f[1 .. k - 1] \in T THEN step[<<k, f[1 .. k - 1]>>]
                                      ELSE f[1 .. k]
    BY <1>7
  <1>9. \A k \in 1 .. n, t \in T : <<k - 1, t>> \in Along => <<k, step[<<k, t>>]>> \in Along
    OBVIOUS
  <1>10. f[1 .. n] \in T /\ <<n, f[1 .. n]>> \in Along
    <2> HIDE DEF step, n
    <2> QED BY <1>n, <1>1, <1>6, <1>8, <1>9, FoldInduction
  <1>11. QED BY <1>5, <1>10


(* The folded references state what the list states, each key once. *)
LEMMA MergeReferencesKeep ==
    ASSUME NEW list \in Seq(ReferenceRecords), KeyedOnce(list), Range(list) = {},
           NEW incoming \in Seq(ReferenceRecords)
    PROVE  LET merged == FoldLeft(MergeReference, list, incoming)
           IN /\ merged \in Seq(ReferenceRecords)
              /\ RefKeys(Range(merged)) = RefKeys(Range(incoming))
              /\ HashFacts(Range(merged)) = HashFacts(Range(incoming))
              /\ CommentFacts(Range(merged)) = CommentFacts(Range(incoming))
              /\ KeyedOnce(merged)
  <1> DEFINE T == {t \in Seq(ReferenceRecords) : KeyedOnce(t)}
             n == Len(incoming)
             First(k) == {incoming[i] : i \in 1 .. k}
             Kept(k, t) ==
                /\ RefKeys(Range(t)) = RefKeys(First(k))
                /\ HashFacts(Range(t)) = HashFacts(First(k))
                /\ CommentFacts(Range(t)) = CommentFacts(First(k))
             Along == {p \in Nat \X T : Kept(p[1], p[2])}
  <1>n. n \in Nat /\ DOMAIN incoming = 1 .. n /\ \A k \in 1 .. n : incoming[k] \in ReferenceRecords
    OBVIOUS
  <1>1. \A t \in T, c \in ReferenceRecords : MergeReference(t, c) \in T
    BY MergeReferenceKeeps
  <1>2. <<0, list>> \in Along
    <2>1. First(0) = {} OBVIOUS
    <2>2. Kept(0, list) BY <2>1
    <2>3. list \in T OBVIOUS
    <2> HIDE DEF Kept, T
    <2>4. QED BY <2>2, <2>3
  <1>3. ASSUME NEW k \in 1 .. n, NEW t \in T, <<k - 1, t>> \in Along
        PROVE  <<k, MergeReference(t, incoming[k])>> \in Along
    <2> DEFINE c == incoming[k]
               u == MergeReference(t, c)
    <2>1. c \in ReferenceRecords BY <1>n
    <2>2. Kept(k - 1, t) BY <1>3
    <2>3. First(k) = First(k - 1) \cup {c}
      <3>1. \A i \in 1 .. k : i \in 1 .. k - 1 \/ i = k OBVIOUS
      <3>2. 1 .. k - 1 \subseteq 1 .. k /\ k \in 1 .. k OBVIOUS
      <3>3. QED BY <3>1, <3>2
    <2>4. /\ u \in T
          /\ RefKeys(Range(u)) = RefKeys(Range(t)) \cup RefKeys({c})
          /\ HashFacts(Range(u)) = HashFacts(Range(t)) \cup HashFacts({c})
          /\ CommentFacts(Range(u)) = CommentFacts(Range(t)) \cup CommentFacts({c})
      <3> HIDE DEF c
      <3> QED BY <2>1, MergeReferenceKeeps
    <2> HIDE DEF c, u, First
    <2>5. /\ RefKeys(First(k)) = RefKeys(First(k - 1)) \cup RefKeys({c})
          /\ HashFacts(First(k)) = HashFacts(First(k - 1)) \cup HashFacts({c})
          /\ CommentFacts(First(k)) = CommentFacts(First(k - 1)) \cup CommentFacts({c})
      <3> DEFINE A == First(k - 1)
                 B == {c}
      <3>1. First(k) = A \cup B BY <2>3
      <3> HIDE DEF A, B
      <3>2. RefKeys(A \cup B) = RefKeys(A) \cup RefKeys(B) BY FactsOfRefUnion
      <3>3. HashFacts(A \cup B) = HashFacts(A) \cup HashFacts(B) BY FactsOfRefUnion
      <3>4. CommentFacts(A \cup B) = CommentFacts(A) \cup CommentFacts(B) BY FactsOfRefUnion
      <3>5. QED BY <3>1, <3>2, <3>3, <3>4 DEF A, B
    <2>6. Kept(k, u) BY <2>2, <2>4, <2>5
    <2> HIDE DEF Kept, T
    <2>7. k \in Nat BY <1>n
    <2>8. <<k, u>> \in Along BY <2>4, <2>6, <2>7
    <2>9. QED BY <2>8 DEF u, c
  <1> DEFINE merged == FoldLeft(MergeReference, list, incoming)
  <1>4. merged \in T /\ <<n, merged>> \in Along
    <2>1. list \in T OBVIOUS
    <2> HIDE DEF T, Along
    <2>2. QED BY <1>1, <1>2, <1>3, <2>1, MergeReferencesInduction
  <1>5. First(n) = Range(incoming) BY <1>n DEF Range
  <1> HIDE DEF merged
  <1>6. Kept(n, merged) BY <1>4
  <1>7. merged \in Seq(ReferenceRecords) /\ KeyedOnce(merged) BY <1>4
  <1> HIDE DEF First
  <1>8. QED BY <1>5, <1>6, <1>7 DEF merged

(* A list that names each key once can be put in the order of its keys. *)
IsKeyOrder(sorted, list) ==
    /\ sorted \in [DOMAIN list -> Range(list)]
    /\ Range(sorted) = Range(list)
    /\ \A i, j \in DOMAIN list : i < j => sorted[i].key < sorted[j].key

(* One reference more takes its place among those already in order. *)
LEMMA KeyOrderGrows ==
    ASSUME NEW n \in Nat, NEW A, NEW t \in [1 .. n -> A], Range(t) = A, NEW e,
           e.key \in Int, \A a \in A : a.key \in Int /\ a.key # e.key,
           \A i, j \in 1 .. n : i < j => t[i].key < t[j].key
    PROVE  \E u \in [1 .. n + 1 -> A \cup {e}] :
              /\ Range(u) = A \cup {e}
              /\ \A i, j \in 1 .. n + 1 : i < j => u[i].key < u[j].key
  <1> DEFINE later == {i \in 1 .. n + 1 : i = n + 1 \/ t[i].key > e.key}
             p == Min(later)
             u == [i \in 1 .. n + 1 |-> IF i < p THEN t[i] ELSE IF i = p THEN e ELSE t[i - 1]]
  <1>t. \A i \in 1 .. n : t[i] \in A /\ t[i].key \in Int /\ t[i].key # e.key
    OBVIOUS
  <1>1. p \in later /\ \A i \in later : p <= i
    <2>1. n + 1 \in 1 .. n + 1 /\ 1 .. n + 1 \subseteq Nat OBVIOUS
    <2>2. n + 1 \in later BY <2>1
    <2>3. later \subseteq Nat BY <2>1
    <2> HIDE DEF later
    <2>4. QED BY <2>2, <2>3, MinOfNaturals
  <1>2. p \in 1 .. n + 1 BY <1>1
  <1>3. \A i \in 1 .. n : i < p => t[i].key < e.key
    <2> TAKE i \in 1 .. n
    <2>1. i < p => i \notin later BY <1>1, <1>2
    <2>2. i < p => ~(t[i].key > e.key) BY <2>1
    <2>3. QED BY <2>2, <1>t
  <1>4. \A i \in 1 .. n : i >= p => e.key < t[i].key
    <2> TAKE i \in 1 .. n
    <2>1. CASE p = n + 1 BY <2>1
    <2>2. CASE p # n + 1
      <3>1. p \in 1 .. n /\ t[p].key > e.key BY <1>1, <1>2, <2>2
      <3>2. i > p => t[p].key < t[i].key BY <3>1
      <3> HIDE DEF p
      <3>3. QED BY <3>1, <3>2, <1>t
    <2>3. QED BY <2>1, <2>2
  <1> HIDE DEF p, later
  <1>5. \A i \in 1 .. n + 1 : (i < p => i \in 1 .. n) /\ (i > p => i - 1 \in 1 .. n /\ i - 1 >= p)
    BY <1>2
  <1>6. u \in [1 .. n + 1 -> A \cup {e}] BY <1>t, <1>5, <1>2
  <1>7. /\ \A i \in 1 .. n + 1 : i < p => u[i] = t[i]
        /\ \A i \in 1 .. n + 1 : i > p => u[i] = t[i - 1]
        /\ u[p] = e
    BY <1>2
  <1> HIDE DEF u
  <1>8. Range(u) = A \cup {e}
    <2>1. Range(u) \subseteq A \cup {e} BY <1>6 DEF Range
    <2>2. e \in Range(u) BY <1>2, <1>6, <1>7 DEF Range
    <2>3. ASSUME NEW a \in A PROVE a \in Range(u)
      <3>1. PICK i \in 1 .. n : t[i] = a BY DEF Range
      <3>2. CASE i < p
        <4>1. i \in 1 .. n + 1 /\ u[i] = a BY <3>1, <3>2, <1>7
        <4>2. QED BY <4>1, <1>6 DEF Range
      <3>3. CASE i >= p
        <4>1. i + 1 \in 1 .. n + 1 /\ i + 1 > p /\ (i + 1) - 1 = i BY <3>3, <1>2
        <4>2. u[i + 1] = a BY <4>1, <3>1, <1>7
        <4>3. QED BY <4>1, <4>2, <1>6 DEF Range
      <3>4. QED BY <3>2, <3>3, <1>2
    <2>4. QED BY <2>1, <2>2, <2>3
  <1>9. ASSUME NEW i \in 1 .. n + 1, NEW j \in 1 .. n + 1, i < j PROVE u[i].key < u[j].key
    <2>1. CASE j < p
      <3>1. i \in 1 .. n /\ j \in 1 .. n /\ i < p BY <2>1, <1>9, <1>5, <1>2
      <3>2. QED BY <3>1, <2>1, <1>9, <1>7
    <2>2. CASE j = p
      <3>1. i \in 1 .. n /\ i < p BY <2>2, <1>9, <1>5, <1>2
      <3>2. QED BY <3>1, <2>2, <1>7, <1>3
    <2>3. CASE j > p /\ i < p
      <3>1. i \in 1 .. n /\ j - 1 \in 1 .. n /\ j - 1 >= p BY <2>3, <1>5, <1>2
      <3>2. t[i].key < e.key /\ e.key < t[j - 1].key BY <3>1, <2>3, <1>3, <1>4
      <3>3. t[i].key \in Int /\ t[j - 1].key \in Int BY <3>1, <1>t
      <3>4. t[i].key < t[j - 1].key BY <3>2, <3>3
      <3>5. QED BY <3>4, <2>3, <1>7
    <2>4. CASE j > p /\ i = p
      <3>1. j - 1 \in 1 .. n /\ j - 1 >= p BY <2>4, <1>5, <1>2
      <3>2. QED BY <3>1, <2>4, <1>7, <1>4
    <2>5. CASE j > p /\ i > p
      <3>1. j - 1 \in 1 .. n /\ i - 1 \in 1 .. n /\ i - 1 < j - 1 BY <2>5, <1>5, <1>2, <1>9
      <3>2. t[i - 1].key < t[j - 1].key BY <3>1
      <3>3. QED BY <3>2, <2>5, <1>7
    <2>6. QED BY <2>1, <2>2, <2>3, <2>4, <2>5, <1>2
  <1>10. QED BY <1>6, <1>8, <1>9

(* The order exists for every such list. *)
LEMMA KeyOrderExists ==
    ASSUME NEW list \in Seq(ReferenceRecords), KeyedOnce(list)
    PROVE  \E sorted : IsKeyOrder(sorted, list)
  <1> DEFINE Sortable == {n \in Nat : \A l \in Seq(ReferenceRecords) :
                        Len(l) = n /\ KeyedOnce(l) => \E sorted : IsKeyOrder(sorted, l)}
  <1>1. 0 \in Sortable
    <2> SUFFICES ASSUME NEW l \in Seq(ReferenceRecords), Len(l) = 0
                 PROVE  \E sorted : IsKeyOrder(sorted, l)
      OBVIOUS
    <2>1. DOMAIN l = {} OBVIOUS
    <2>2. l \in [DOMAIN l -> Range(l)] BY <2>1 DEF Range
    <2>3. IsKeyOrder(l, l) BY <2>1, <2>2 DEF IsKeyOrder
    <2>4. QED BY <2>3
  <1>2. ASSUME NEW n \in Nat, n \in Sortable PROVE n + 1 \in Sortable
    <2> SUFFICES ASSUME NEW l \in Seq(ReferenceRecords), Len(l) = n + 1, KeyedOnce(l)
                 PROVE  \E sorted : IsKeyOrder(sorted, l)
      OBVIOUS
    <2> DEFINE front == [i \in 1 .. n |-> l[i]]
               e == l[n + 1]
    <2>1. /\ DOMAIN l = 1 .. n + 1 /\ \A i \in 1 .. n + 1 : l[i] \in ReferenceRecords
      OBVIOUS
    <2>2. front \in Seq(ReferenceRecords) /\ Len(front) = n /\ DOMAIN front = 1 .. n
      BY <2>1
    <2>3. KeyedOnce(front) BY <2>1, <2>2 DEF KeyedOnce
    <2>4. PICK t : IsKeyOrder(t, front) BY <1>2, <2>2, <2>3
    <2> DEFINE A == Range(front)
    <2>5. A = {l[i] : i \in 1 .. n} BY DEF Range
    <2>6. e.key \in Int /\ \A a \in A : a.key \in Int /\ a.key # e.key
      <3>1. \A i \in 1 .. n + 1 : l[i].key \in Int BY <2>1 DEF ReferenceRecords
      <3>2. n + 1 \in 1 .. n + 1 /\ \A i \in 1 .. n : i \in 1 .. n + 1 /\ i # n + 1 OBVIOUS
      <3>3. \A i \in 1 .. n : l[i].key # l[n + 1].key BY <2>1, <3>2 DEF KeyedOnce
      <3> HIDE DEF A
      <3>4. QED BY <2>5, <3>1, <3>2, <3>3
    <2>7. Range(l) = A \cup {e}
      <3>1. Range(l) = {l[i] : i \in 1 .. n + 1} BY <2>1 DEF Range
      <3>2. \A i \in 1 .. n + 1 : i \in 1 .. n \/ i = n + 1 OBVIOUS
      <3>3. QED BY <3>1, <3>2, <2>5
    <2> HIDE DEF A
    <2>8. /\ t \in [1 .. n -> A] /\ Range(t) = A
          /\ \A i, j \in 1 .. n : i < j => t[i].key < t[j].key
      BY <2>2, <2>4 DEF IsKeyOrder, A
    <2> HIDE DEF e, front
    <2>9. \E u \in [1 .. n + 1 -> A \cup {e}] :
              /\ Range(u) = A \cup {e}
              /\ \A i, j \in 1 .. n + 1 : i < j => u[i].key < u[j].key
      BY <2>6, <2>8, KeyOrderGrows
    <2>10. QED BY <2>1, <2>7, <2>9 DEF IsKeyOrder
  <1>3. Nat \subseteq Sortable
    <2> HIDE DEF Sortable
    <2> QED BY <1>1, <1>2, NatSetInduction
  <1>4. Len(list) \in Nat OBVIOUS
  <1>5. QED BY <1>3, <1>4

(* What sort.Slice leaves. *)
LEMMA InKeyOrderKeeps ==
    ASSUME NEW list \in Seq(ReferenceRecords), KeyedOnce(list)
    PROVE  /\ InKeyOrder(list) \in Seq(ReferenceRecords)
           /\ Range(InKeyOrder(list)) = Range(list)
           /\ KeyedOnce(InKeyOrder(list))
  <1> DEFINE s == InKeyOrder(list)
             n == Len(list)
  <1>1. IsKeyOrder(s, list)
    BY KeyOrderExists DEF IsKeyOrder, InKeyOrder
  <1>2. Range(list) \subseteq ReferenceRecords BY ElementsOfSeq
  <1>3. n \in Nat /\ DOMAIN list = 1 .. n OBVIOUS
  <1> HIDE DEF s
  <1>4. s \in [1 .. n -> ReferenceRecords] /\ DOMAIN s = 1 .. n /\ Range(s) = Range(list)
    BY <1>1, <1>2, <1>3 DEF IsKeyOrder
  <1>5. s \in Seq(ReferenceRecords) BY <1>3, <1>4
  <1>6. \A r \in Range(list) : r.key >= 0 BY DEF KeyedOnce, Range
  <1>7. \A i \in 1 .. n : s[i].key >= 0 /\ s[i].key \in Int
    BY <1>2, <1>4, <1>6 DEF Range, ReferenceRecords
  <1>8. \A i, j \in 1 .. n : i < j => s[i].key < s[j].key BY <1>1, <1>3 DEF IsKeyOrder
  <1>9. ASSUME NEW i \in 1 .. n, NEW j \in 1 .. n, s[i].key = s[j].key PROVE i = j
    <2>1. ~(i < j) /\ ~(j < i) BY <1>7, <1>8, <1>9
    <2>2. QED BY <2>1, <1>3
  <1>10. KeyedOnce(s) BY <1>4, <1>7, <1>9 DEF KeyedOnce
  <1>11. QED BY <1>4, <1>5, <1>10 DEF s

(* A list in which each key is there once and which states what the references
   state is the list of them reconciled. *)
LEMMA ReferencesFromFacts ==
    ASSUME NEW list \in Seq(ReferenceRecords), KeyedOnce(list),
           NEW refs \in SUBSET ReferenceRecords,
           RefKeys(Range(list)) = RefKeys(refs),
           HashFacts(Range(list)) = HashFacts(refs),
           CommentFacts(Range(list)) = CommentFacts(refs)
    PROVE  Range(list) = ReferencesOf(refs)
  <1> DEFINE Of(k) == {q \in refs : q.key = k}
             Stated(k) == {r.comment : r \in Of(k)} \ {0}
             Hashes(k) == UNION {r.hashes : r \in Of(k)}
             Comment(k) == IF Stated(k) = {} THEN 0 ELSE Min(Stated(k))
             Record(k) == [key |-> k, comment |-> Comment(k), hashes |-> Hashes(k)]
  <1>1. Range(list) \subseteq ReferenceRecords BY ElementsOfSeq
  <1>2. \A l, r \in Range(list) : l.key = r.key => l = r BY DEF KeyedOnce, Range
  <1>3. \A l \in Range(list) : l.key >= 0 BY DEF KeyedOnce, Range
  <1>g. Gated(Range(list)) = Range(list) BY <1>3 DEF Gated
  <1>4. ASSUME NEW l \in Range(list) PROVE l = Record(l.key)
    <2> DEFINE k == l.key
    <2>1. /\ l \in ReferenceRecords /\ l.comment \in Nat /\ k \in Int /\ k >= 0
      BY <1>1, <1>3 DEF ReferenceRecords
    <2>2. \A r : r \in Of(k) <=> r \in Gated(refs) /\ r.key = k BY <2>1 DEF Gated
    <2>3. \A h : h \in l.hashes <=> \E r \in Of(k) : h \in r.hashes
      <3>1. \A h : <<k, h>> \in HashFacts(Range(list)) <=>
                      \E r \in Gated(Range(list)) : r.key = k /\ h \in r.hashes
        BY FactsOfReference
      <3>2. \A h : <<k, h>> \in HashFacts(refs) <=> \E r \in Gated(refs) : r.key = k /\ h \in r.hashes
        BY FactsOfReference
      <3>3. \A h : <<k, h>> \in HashFacts(Range(list)) <=> h \in l.hashes
        BY <3>1, <1>2, <1>g
      <3> HIDE DEF Of, k
      <3>4. QED BY <3>2, <3>3, <2>2
    <2>4. Hashes(k) = l.hashes BY <2>3
    <2>5. \A j : j \in AtOrAfter(l.comment) <=> \E r \in Of(k) : j \in AtOrAfter(r.comment)
      <3>1. \A j : <<k, j>> \in CommentFacts(Range(list)) <=>
                      \E r \in Gated(Range(list)) : r.key = k /\ j \in AtOrAfter(r.comment)
        BY FactsOfReference
      <3>2. \A j : <<k, j>> \in CommentFacts(refs) <=>
                      \E r \in Gated(refs) : r.key = k /\ j \in AtOrAfter(r.comment)
        BY FactsOfReference
      <3>3. \A j : <<k, j>> \in CommentFacts(Range(list)) <=> j \in AtOrAfter(l.comment)
        BY <3>1, <1>2, <1>g
      <3> HIDE DEF Of, k
      <3>4. QED BY <3>2, <3>3, <2>2
    <2>6. \A r \in Of(k) : r.comment \in Nat BY DEF ReferenceRecords
    <2>7. Comment(k) = l.comment
      <3>1. Stated(k) \subseteq Nat BY <2>6
      <3>2. \A c \in Stated(k) : l.comment # 0 /\ l.comment <= c
        <4> SUFFICES ASSUME NEW r \in Of(k), r.comment # 0 PROVE l.comment # 0 /\ l.comment <= r.comment
          OBVIOUS
        <4>1. r.comment \in AtOrAfter(r.comment) BY <2>6 DEF AtOrAfter
        <4>2. r.comment \in AtOrAfter(l.comment) BY <4>1, <2>5
        <4>3. QED BY <4>2 DEF AtOrAfter
      <3>3. CASE l.comment = 0
        <4>1. Stated(k) = {} BY <3>2, <3>3
        <4>2. QED BY <4>1, <3>3
      <3>4. CASE l.comment # 0
        <4>1. l.comment \in AtOrAfter(l.comment) BY <3>4, <2>1 DEF AtOrAfter
        <4>2. PICK r \in Of(k) : l.comment \in AtOrAfter(r.comment) BY <4>1, <2>5
        <4>3. r.comment # 0 /\ r.comment <= l.comment BY <4>2 DEF AtOrAfter
        <4>4. r.comment \in Stated(k) BY <4>3
        <4>5. l.comment <= r.comment BY <4>4, <3>2
        <4>6. r.comment = l.comment BY <4>3, <4>5, <2>1, <2>6
        <4> HIDE DEF Stated
        <4>7. Min(Stated(k)) \in Stated(k) /\ \A m \in Stated(k) : Min(Stated(k)) <= m
          BY <3>1, <4>4, MinOfNaturals
        <4>8. Min(Stated(k)) = l.comment BY <4>4, <4>6, <4>7, <3>1, <3>2, <2>1
        <4>9. QED BY <4>4, <4>8
      <3>5. QED BY <3>3, <3>4
    <2>8. l = [key |-> l.key, comment |-> l.comment, hashes |-> l.hashes] BY <2>1 DEF ReferenceRecords
    <2> HIDE DEF Comment, Hashes
    <2>9. QED BY <2>4, <2>7, <2>8
  <1>5. ReferencesOf(refs) = {Record(k) : k \in RefKeys(refs)}
    BY DEF ReferencesOf, RefKeys, Gated
  <1>6. \A k : k \in RefKeys(refs) <=> \E l \in Range(list) : l.key = k
    BY <1>g, FactsOfReference
  <1> HIDE DEF Record
  <1>7. QED BY <1>4, <1>5, <1>6

(* The merged references are those of the two lists, reconciled. *)
LEMMA MergeExternalReferencesKeep ==
    ASSUME NEW existing \in Seq(ReferenceRecords), NEW additions \in Seq(ReferenceRecords)
    PROVE  LET merged == MergeExternalReferences(existing, additions)
               refs == Range(existing) \cup Range(additions)
           IN /\ merged \in Seq(ReferenceRecords)
              /\ KeyedOnce(merged)
              /\ RefKeys(Range(merged)) = RefKeys(refs)
              /\ HashFacts(Range(merged)) = HashFacts(refs)
              /\ CommentFacts(Range(merged)) = CommentFacts(refs)
  <1> DEFINE none == << >>
             all == existing \o additions
             folded == FoldLeft(MergeReference, none, all)
             merged == MergeExternalReferences(existing, additions)
  <1>1. merged = InKeyOrder(folded) BY DEF MergeExternalReferences
  <1>2. none \in Seq(ReferenceRecords) /\ KeyedOnce(none) /\ Range(none) = {}
    BY DEF Range, KeyedOnce
  <1>3. all \in Seq(ReferenceRecords) OBVIOUS
  <1>4. Range(all) = Range(existing) \cup Range(additions) BY RangeOfJoin
  <1> HIDE DEF none, all
  <1>5. /\ folded \in Seq(ReferenceRecords)
        /\ RefKeys(Range(folded)) = RefKeys(Range(all))
        /\ HashFacts(Range(folded)) = HashFacts(Range(all))
        /\ CommentFacts(Range(folded)) = CommentFacts(Range(all))
        /\ KeyedOnce(folded)
    BY <1>2, <1>3, MergeReferencesKeep
  <1> HIDE DEF folded, merged
  <1>6. /\ merged \in Seq(ReferenceRecords) /\ Range(merged) = Range(folded) /\ KeyedOnce(merged)
    BY <1>1, <1>5, InKeyOrderKeeps
  <1>7. QED BY <1>4, <1>5, <1>6 DEF merged
-----------------------------------------------------------------------------
(* A claim as it stands in a merged list: normalized, publishable. *)
Settled(r) ==
    /\ r \in LicenseRecords
    /\ r.expression.other # "malformed"
    /\ r.expression.ref # 0 => r.text # NoText
    /\ IsMinted(r.expression.ref) => r.expression.ref = MintLicenseRef(r.text)
    /\ r.expression = NoExpression => r.text = NoText
    /\ r.value # 0 \/ r.expression # NoExpression

ClaimOf(r) == [type |-> r.type, value |-> r.value, other |-> r.expression.other, class |-> r.text.class]

(* What a text is, in numbers. *)
LEMMA TextFacts ==
    ASSUME NEW t \in Texts
    PROVE  /\ t = [class |-> t.class, spacing |-> t.spacing, padded |-> t.padded]
           /\ t.class \in Nat
           /\ t = NoText <=> t.class = 0
           /\ Trimmed(t) \in Texts /\ Trimmed(t).class = t.class
  <1>1. /\ t = [class |-> t.class, spacing |-> t.spacing, padded |-> t.padded]
        /\ t.class \in Nat /\ t.spacing \in Nat /\ t.padded \in BOOLEAN
        /\ t.class = 0 => ~t.padded /\ t.spacing = 0
    BY DEF Texts
  <1>2. t = NoText <=> t.class = 0 BY <1>1 DEF NoText
  <1>3. /\ Trimmed(t) \in [class : Nat, spacing : Nat, padded : BOOLEAN]
        /\ Trimmed(t).class = t.class /\ Trimmed(t).spacing = t.spacing /\ Trimmed(t).padded = FALSE
    BY DEF Texts, Trimmed
  <1>4. t.class = 0 => t.spacing = 0 BY <1>1
  <1>5. Trimmed(t) \in Texts BY <1>3, <1>4 DEF Texts
  <1>6. QED BY <1>1, <1>2, <1>3, <1>5

(* What a record is. *)
LEMMA RecordFacts ==
    ASSUME NEW l \in LicenseRecords
    PROVE  /\ l = [type |-> l.type, value |-> l.value, text |-> l.text, name |-> l.name,
                   expression |-> l.expression]
           /\ l.expression = [ref |-> l.expression.ref, other |-> l.expression.other]
           /\ l.type \in {"", "declared", "concluded"} /\ l.value \in Nat /\ l.text \in Texts /\ l.name \in Nat
           /\ l.expression.ref \in Nat /\ l.expression.other \in {"none", "listed", "malformed"}
  BY DEF LicenseRecords

(* A record with fields of the right kind is a licence record. *)
LEMMA RecordsFrom ==
    ASSUME NEW type \in {"", "declared", "concluded"}, NEW value \in Nat, NEW text \in Texts, NEW name \in Nat,
           NEW ref \in Nat, NEW other \in {"none", "listed", "malformed"}
    PROVE  [type |-> type, value |-> value, text |-> text, name |-> name,
            expression |-> [ref |-> ref, other |-> other]] \in LicenseRecords
  BY DEF LicenseRecords

(* The expression that normalizing leaves. *)
LEMMA NormalizedExpressionFacts ==
    ASSUME NEW ref \in Nat, NEW other \in {"none", "listed", "malformed"}, NEW text \in Texts
    PROVE  LET e == NormalizedExpression([ref |-> ref, other |-> other], text)
           IN /\ e = [ref |-> e.ref, other |-> e.other]
              /\ e.ref \in Nat /\ e.other \in {"none", "listed"}
              /\ e.ref # 0 => text # NoText
              /\ IsMinted(e.ref) => e.ref = MintLicenseRef(text)
  <1> DEFINE x == [ref |-> ref, other |-> other]
             e == NormalizedExpression(x, text)
  <1>1. x.ref = ref /\ x.other = other OBVIOUS
  <1>2. text.class \in Nat BY TextFacts
  <1>3. CASE other = "malformed" \/ (ref # 0 /\ text = NoText)
    <2>1. e = [ref |-> 0, other |-> "none"] BY <1>3 DEF NormalizedExpression, NoExpression
    <2> HIDE DEF e
    <2>2. QED BY <2>1 DEF IsMinted, MintBase, e
  <1>4. CASE ~(other = "malformed" \/ (ref # 0 /\ text = NoText)) /\ IsMinted(ref)
    <2>1. e = [x EXCEPT !.ref = MintLicenseRef(text)] BY <1>4 DEF NormalizedExpression
    <2>2. e = [ref |-> MintLicenseRef(text), other |-> other] BY <2>1
    <2>3. MintLicenseRef(text) \in Nat BY <1>2 DEF MintLicenseRef, MintBase
    <2>4. ref # 0 BY <1>4 DEF IsMinted, MintBase
    <2> HIDE DEF e
    <2>5. QED BY <1>4, <2>2, <2>3, <2>4 DEF e
  <1>5. CASE ~(other = "malformed" \/ (ref # 0 /\ text = NoText)) /\ ~IsMinted(ref)
    <2>1. e = x BY <1>5 DEF NormalizedExpression
    <2> HIDE DEF e
    <2>2. QED BY <1>5, <2>1 DEF e
  <1>6. QED BY <1>3, <1>4, <1>5

(* What normalizing does to a record. *)
LEMMA NormalizedFacts ==
    ASSUME NEW l \in LicenseRecords
    PROVE  LET n == Normalized(l)
           IN /\ n \in LicenseRecords
              /\ Publishable(l) => Settled(n)
  <1> DEFINE n == Normalized(l)
             e == NormalizedExpression(l.expression, l.text)
             x == IF e = NoExpression /\ l.text # NoText THEN [e EXCEPT !.ref = MintLicenseRef(l.text)] ELSE e
             name == IF l.expression.ref # 0 /\ l.expression.other = "none" /\ l.text = NoText
                     THEN 0 ELSE l.name
  <1>1. /\ l = [type |-> l.type, value |-> l.value, text |-> l.text, name |-> l.name,
                   expression |-> l.expression]
        /\ l.expression = [ref |-> l.expression.ref, other |-> l.expression.other]
        /\ l.type \in {"", "declared", "concluded"} /\ l.value \in Nat /\ l.text \in Texts /\ l.name \in Nat
        /\ l.expression.ref \in Nat /\ l.expression.other \in {"none", "listed", "malformed"}
    BY RecordFacts
  <1>2. /\ e = [ref |-> e.ref, other |-> e.other]
        /\ e.ref \in Nat /\ e.other \in {"none", "listed"}
        /\ e.ref # 0 => l.text # NoText
        /\ IsMinted(e.ref) => e.ref = MintLicenseRef(l.text)
    <2> DEFINE ref == l.expression.ref
               other == l.expression.other
               y == NormalizedExpression([ref |-> ref, other |-> other], l.text)
    <2>1. e = y BY <1>1
    <2>2. ref \in Nat /\ other \in {"none", "listed", "malformed"} BY <1>1
    <2> HIDE DEF e, ref, other
    <2>3. /\ y = [ref |-> y.ref, other |-> y.other]
          /\ y.ref \in Nat /\ y.other \in {"none", "listed"}
          /\ y.ref # 0 => l.text # NoText
          /\ IsMinted(y.ref) => y.ref = MintLicenseRef(l.text)
      <3>1. l.text \in Texts BY <1>1
      <3> DEFINE text == l.text
      <3> HIDE DEF text
      <3>2. text \in Texts BY <3>1 DEF text
      <3> DEFINE z == NormalizedExpression([ref |-> ref, other |-> other], text)
      <3>3. /\ z = [ref |-> z.ref, other |-> z.other]
            /\ z.ref \in Nat /\ z.other \in {"none", "listed"}
            /\ z.ref # 0 => text # NoText
            /\ IsMinted(z.ref) => z.ref = MintLicenseRef(text)
        BY <2>2, <3>2, NormalizedExpressionFacts
      <3>4. QED BY <3>3 DEF text
    <2> HIDE DEF y
    <2>4. QED BY <2>1, <2>3
  <1>3. n = [l EXCEPT !.expression = x, !.name = name] BY DEF Normalized
  <1>4. l.text.class \in Nat /\ (l.text = NoText <=> l.text.class = 0) BY <1>1, TextFacts
  <1>5. name \in Nat BY <1>1
  <1> HIDE DEF n, e, name
  <1>6. /\ x = [ref |-> x.ref, other |-> x.other]
        /\ x.ref \in Nat /\ x.other \in {"none", "listed"}
        /\ x.ref # 0 => l.text # NoText
        /\ IsMinted(x.ref) => x.ref = MintLicenseRef(l.text)
        /\ x = NoExpression => l.text = NoText
    <2>1. CASE e = NoExpression /\ l.text # NoText
      <3>1. x = [ref |-> MintLicenseRef(l.text), other |-> "none"] BY <2>1 DEF NoExpression
      <3>2. MintLicenseRef(l.text) \in Nat /\ MintLicenseRef(l.text) # 0 BY <1>4 DEF MintLicenseRef, MintBase
      <3> HIDE DEF x
      <3>3. QED BY <3>1, <3>2, <2>1 DEF NoExpression
    <2>2. CASE ~(e = NoExpression /\ l.text # NoText)
      <3>1. x = e BY <2>2
      <3> HIDE DEF x
      <3>2. QED BY <3>1, <2>2, <1>2
    <2>3. QED BY <2>1, <2>2
  <1> HIDE DEF x
  <1>7. n = [type |-> l.type, value |-> l.value, text |-> l.text, name |-> name, expression |-> x]
    BY <1>1, <1>3
  <1>8. n \in LicenseRecords
    <2>1. x.other \in {"none", "listed", "malformed"} BY <1>6
    <2>2. [type |-> l.type, value |-> l.value, text |-> l.text, name |-> name,
           expression |-> [ref |-> x.ref, other |-> x.other]] \in LicenseRecords
      BY <1>1, <1>5, <1>6, <2>1, RecordsFrom
    <2>3. QED BY <1>6, <1>7, <2>2
  <1>9. n.expression = x /\ n.text = l.text /\ n.value = l.value BY <1>7
  <1>10. x.other # "malformed" BY <1>6
  <1>11. Publishable(l) => Settled(n)
    <2>1. Publishable(l) => n.value # 0 \/ n.expression # NoExpression BY DEF Publishable, n
    <2>2. QED BY <2>1, <1>6, <1>8, <1>9, <1>10 DEF Settled
  <1>12. QED BY <1>8, <1>11 DEF n

(* A settled claim is normalized as it stands. *)
LEMMA SettledStays ==
    ASSUME NEW r, Settled(r)
    PROVE  Normalized(r) = r /\ Publishable(r) /\ Claim(r) = ClaimOf(r)
  <1>1. /\ r = [type |-> r.type, value |-> r.value, text |-> r.text, name |-> r.name,
                   expression |-> r.expression]
        /\ r.expression = [ref |-> r.expression.ref, other |-> r.expression.other]
        /\ r.text \in Texts
    BY RecordFacts DEF Settled
  <1> DEFINE e == NormalizedExpression(r.expression, r.text)
  <1>2. e = r.expression
    <2>1. CASE IsMinted(r.expression.ref)
      <3>1. e = [r.expression EXCEPT !.ref = MintLicenseRef(r.text)] BY <2>1 DEF NormalizedExpression, Settled
      <3>2. r.expression.ref = MintLicenseRef(r.text) BY <2>1 DEF Settled
      <3>3. QED BY <3>1, <3>2, <1>1
    <2>2. CASE ~IsMinted(r.expression.ref) BY <2>2 DEF NormalizedExpression, Settled
    <2>3. QED BY <2>1, <2>2
  <1> HIDE DEF e
  <1>3. ~(e = NoExpression /\ r.text # NoText) BY <1>2 DEF Settled
  <1>4. ~(r.expression.ref # 0 /\ r.expression.other = "none" /\ r.text = NoText) BY DEF Settled
  <1>5. Normalized(r) = [r EXCEPT !.expression = r.expression, !.name = r.name]
    BY <1>2, <1>3, <1>4 DEF Normalized, e
  <1>6. Normalized(r) = r BY <1>1, <1>5
  <1>7. QED BY <1>6 DEF Settled, Publishable, Claim, ClaimOf

(* The texts recorded for references; a minted reference names its own text. *)
TermMaps == UNION {[refs -> Texts] : refs \in SUBSET Nat}

Terms(tb) ==
    /\ tb \in TermMaps
    /\ \A ref \in DOMAIN tb :
          /\ tb[ref] # NoText
          /\ IsMinted(ref) => ref = MintLicenseRef(tb[ref])

(* What a reference stands for stays. *)
Grown(tb, later) ==
    /\ DOMAIN tb \subseteq DOMAIN later
    /\ \A ref \in DOMAIN tb : later[ref].class = tb[ref].class

(* A claim cites a reference for its own text. *)
Cites(r, tb) ==
    r.expression.ref # 0 => /\ r.expression.ref \in DOMAIN tb
                            /\ tb[r.expression.ref].class = r.text.class

(* Recording a text under a free reference, or its own again. *)
LEMMA RecordedKeeps ==
    ASSUME NEW tb, Terms(tb), NEW ref \in Nat, NEW text \in Texts, text # NoText,
           IsMinted(ref) => ref = MintLicenseRef(text),
           ref \in DOMAIN tb => tb[ref].class = text.class
    PROVE  LET later == Recorded(tb, ref, text)
           IN /\ Terms(later) /\ Grown(tb, later)
              /\ ref \in DOMAIN later /\ later[ref].class = text.class
  <1> DEFINE later == Recorded(tb, ref, text)
             trimmed == Trimmed(text)
  <1>1. trimmed \in Texts /\ trimmed.class = text.class /\ text.class # 0
    BY TextFacts
  <1>2. trimmed # NoText
    <2> HIDE DEF trimmed
    <2> QED BY <1>1, TextFacts
  <1>3. MintLicenseRef(trimmed) = MintLicenseRef(text) BY <1>1 DEF MintLicenseRef
  <1>4. later = [r \in DOMAIN tb \cup {ref} |-> IF r = ref THEN trimmed ELSE tb[r]]
    BY DEF Recorded
  <1> HIDE DEF later, trimmed
  <1>5. /\ DOMAIN later = DOMAIN tb \cup {ref} /\ later[ref] = trimmed
        /\ \A r \in DOMAIN tb : r # ref => later[r] = tb[r]
    BY <1>4
  <1>6. Terms(later)
    <2>1. DOMAIN tb \in SUBSET Nat /\ \A r \in DOMAIN tb : tb[r] \in Texts BY DEF Terms, TermMaps
    <2>2. DOMAIN tb \cup {ref} \in SUBSET Nat BY <2>1
    <2>3. later \in [DOMAIN tb \cup {ref} -> Texts] BY <1>1, <1>4, <2>1
    <2>4. later \in TermMaps BY <2>2, <2>3 DEF TermMaps
    <2>5. QED BY <1>2, <1>3, <1>5, <2>4 DEF Terms
  <1>7. Grown(tb, later) BY <1>1, <1>5 DEF Grown
  <1>8. QED BY <1>1, <1>5, <1>6, <1>7 DEF later

(* Resolving a claim's reference against the texts recorded so far. *)
LEMMA ResolveKeeps ==
    ASSUME NEW l, Settled(l), NEW tb, Terms(tb)
    PROVE  LET r == Resolve(l, tb)
           IN /\ Settled(r.license)
              /\ ClaimOf(r.license) = ClaimOf(l) /\ r.license.name = l.name
              /\ Terms(r.textByRef) /\ Grown(tb, r.textByRef)
              /\ Cites(r.license, r.textByRef)
  <1> DEFINE r == Resolve(l, tb)
             ref == l.expression.ref
             minted == MintLicenseRef(l.text)
  <1>1. /\ l = [type |-> l.type, value |-> l.value, text |-> l.text, name |-> l.name,
                   expression |-> l.expression]
        /\ l.expression = [ref |-> ref, other |-> l.expression.other]
        /\ l.type \in {"", "declared", "concluded"} /\ l.value \in Nat /\ l.text \in Texts /\ l.name \in Nat
        /\ ref \in Nat /\ l.expression.other \in {"none", "listed", "malformed"}
    BY RecordFacts DEF Settled
  <1>2. /\ l \in LicenseRecords
        /\ ref # 0 => l.text # NoText
        /\ IsMinted(ref) => ref = minted
    BY DEF Settled
  <1>3. CASE l.text = NoText \/ ref = 0
    <2>1. r = [license |-> l, textByRef |-> tb] BY <1>3 DEF Resolve
    <2>2. Grown(tb, tb) BY DEF Grown
    <2>3. Cites(l, tb) BY <1>2, <1>3 DEF Cites
    <2>4. r.license = l /\ r.textByRef = tb BY <2>1
    <2> HIDE DEF r
    <2>5. QED BY <2>2, <2>3, <2>4 DEF r
  <1>4. CASE ~(l.text = NoText \/ ref = 0) /\ ref \notin DOMAIN tb
    <2> DEFINE later == Recorded(tb, ref, l.text)
    <2>1. r = [license |-> l, textByRef |-> later] BY <1>4 DEF Resolve
    <2>2. /\ Terms(later) /\ Grown(tb, later)
          /\ ref \in DOMAIN later /\ later[ref].class = l.text.class
      <3>1. ref \in Nat /\ l.text \in Texts /\ l.text # NoText BY <1>1, <1>4
      <3> HIDE DEF ref
      <3>2. QED BY <3>1, <1>2, <1>4, RecordedKeeps
    <2> HIDE DEF later
    <2>3. r.license = l /\ r.textByRef = later BY <2>1
    <2>4. Cites(l, later) BY <2>2 DEF Cites
    <2> HIDE DEF r
    <2>5. QED BY <2>2, <2>3, <2>4 DEF r
  <1>5. CASE ~(l.text = NoText \/ ref = 0) /\ ref \in DOMAIN tb /\ tb[ref].class = l.text.class
    <2> DEFINE text == tb[ref]
               license == [l EXCEPT !.text = text]
    <2>1. r = [license |-> license, textByRef |-> tb] BY <1>5 DEF Resolve
    <2>2. text \in Texts /\ text # NoText /\ text.class = l.text.class BY <1>5 DEF Terms, TermMaps
    <2> HIDE DEF text
    <2>3. license = [type |-> l.type, value |-> l.value, text |-> text, name |-> l.name,
                     expression |-> l.expression]
      <3>1. license = [l EXCEPT !.text = text] OBVIOUS
      <3>2. l = [type |-> l.type, value |-> l.value, text |-> l.text, name |-> l.name,
                 expression |-> l.expression]
        BY <1>1
      <3> HIDE DEF license, r, ref
      <3>3. QED BY <3>1, <3>2
    <2>4. license \in LicenseRecords
      <3>1. [type |-> l.type, value |-> l.value, text |-> text, name |-> l.name,
             expression |-> [ref |-> ref, other |-> l.expression.other]] \in LicenseRecords
        BY <1>1, <2>2, RecordsFrom
      <3>2. QED BY <3>1, <2>3, <1>1
    <2>5. MintLicenseRef(text) = minted BY <2>2 DEF MintLicenseRef
    <2> HIDE DEF license
    <2>6. /\ license.expression = l.expression /\ license.text = text /\ license.value = l.value
          /\ license.type = l.type /\ license.name = l.name
      BY <2>3
    <2>7. Settled(license)
      <3>1. l.expression # NoExpression BY <1>5 DEF NoExpression
      <3>2. QED BY <2>2, <2>4, <2>5, <2>6, <1>2, <3>1 DEF Settled
    <2>8. ClaimOf(license) = ClaimOf(l) BY <2>2, <2>6 DEF ClaimOf
    <2>9. Cites(license, tb) BY <2>6, <2>2, <1>5 DEF Cites
    <2>10. Grown(tb, tb) BY DEF Grown
    <2>11. r.license = license /\ r.textByRef = tb BY <2>1
    <2> HIDE DEF r
    <2>12. QED BY <2>6, <2>7, <2>8, <2>9, <2>10, <2>11 DEF r
  <1>6. CASE ~(l.text = NoText \/ ref = 0) /\ ref \in DOMAIN tb /\ tb[ref].class # l.text.class
    <2> DEFINE later == Recorded(tb, minted, l.text)
               license == [l EXCEPT !.expression.ref = minted]
    <2>1. r = [license |-> license, textByRef |-> later] BY <1>6 DEF Resolve
    <2>2. l.text.class \in Nat /\ l.text.class # 0 BY <1>1, <1>6, TextFacts
    <2>3. minted \in Nat /\ minted # 0 /\ minted = MintBase + l.text.class BY <2>2 DEF MintLicenseRef, MintBase
    <2>4. minted \in DOMAIN tb => tb[minted].class = l.text.class
      <3>1. SUFFICES ASSUME minted \in DOMAIN tb PROVE tb[minted].class = l.text.class OBVIOUS
      <3>2. IsMinted(minted) BY <2>2, <2>3 DEF IsMinted, MintBase
      <3>3. tb[minted] \in Texts /\ minted = MintLicenseRef(tb[minted]) BY <3>1, <3>2 DEF Terms, TermMaps
      <3>4. tb[minted].class \in Nat BY <3>3, TextFacts
      <3> HIDE DEF minted
      <3>5. MintBase + tb[minted].class = MintBase + l.text.class BY <2>3, <3>3 DEF MintLicenseRef
      <3>6. QED BY <3>4, <3>5, <2>2 DEF MintBase
    <2>5. /\ Terms(later) /\ Grown(tb, later)
          /\ minted \in DOMAIN later /\ later[minted].class = l.text.class
      <3>1. l.text \in Texts /\ l.text # NoText BY <1>1, <1>6
      <3>2. IsMinted(minted) => minted = MintLicenseRef(l.text) OBVIOUS
      <3> HIDE DEF minted
      <3>3. QED BY <2>3, <2>4, <3>1, <3>2, RecordedKeeps
    <2> HIDE DEF later
    <2>6. license = [type |-> l.type, value |-> l.value, text |-> l.text, name |-> l.name,
                     expression |-> [ref |-> minted, other |-> l.expression.other]]
      <3> DEFINE x == l.expression
                 o == x.other
      <3>1. license = [l EXCEPT !.expression = [x EXCEPT !.ref = minted]] OBVIOUS
      <3>2. x = [ref |-> ref, other |-> o] BY <1>1
      <3> HIDE DEF minted, x
      <3>3. [x EXCEPT !.ref = minted] = [ref |-> minted, other |-> o]
        <4> HIDE DEF ref, o
        <4> QED BY <3>2
      <3> DEFINE y == [x EXCEPT !.ref = minted]
      <3>4. license = [l EXCEPT !.expression = y] BY <3>1
      <3>5. l = [type |-> l.type, value |-> l.value, text |-> l.text, name |-> l.name,
                 expression |-> l.expression]
        BY <1>1
      <3>6. y = [ref |-> minted, other |-> l.expression.other] BY <3>3 DEF x
      <3> HIDE DEF license, r, ref, x, y
      <3>7. license = [type |-> l.type, value |-> l.value, text |-> l.text, name |-> l.name,
                       expression |-> y]
        BY <3>4, <3>5
      <3>8. QED BY <3>6, <3>7
    <2>7. license \in LicenseRecords
      <3> HIDE DEF minted, license
      <3>1. QED BY <1>1, <2>3, <2>6, RecordsFrom
    <2> HIDE DEF license, minted
    <2>8. /\ license.expression.ref = minted /\ license.expression.other = l.expression.other
          /\ license.text = l.text /\ license.value = l.value
          /\ license.type = l.type /\ license.name = l.name
      BY <2>6
    <2>9. license.expression # NoExpression BY <2>3, <2>8 DEF NoExpression
    <2>10. l.expression.other # "malformed" BY DEF Settled
    <2>11. Settled(license)
      BY <1>6, <2>3, <2>7, <2>8, <2>9, <2>10 DEF Settled, minted
    <2>12. ClaimOf(license) = ClaimOf(l) BY <2>8 DEF ClaimOf
    <2>13. Cites(license, later) BY <2>5, <2>8 DEF Cites
    <2>14. r.license = license /\ r.textByRef = later BY <2>1
    <2> HIDE DEF r
    <2>15. QED BY <2>5, <2>8, <2>11, <2>12, <2>13, <2>14 DEF r
  <1>7. QED BY <1>3, <1>4, <1>5, <1>6

(* The key of a settled claim tells what it claims. *)
LEMMA KeysTellClaims ==
    ASSUME NEW a, Settled(a), NEW b, Settled(b), licenseKey(a) = licenseKey(b)
    PROVE  ClaimOf(a) = ClaimOf(b)
  <1> DEFINE none == ""
  <1>0. none # "declared" /\ none # "concluded" OBVIOUS
  <1>1. /\ a.type \in {none, "declared", "concluded"} /\ b.type \in {none, "declared", "concluded"}
        /\ a.expression.other \in {"none", "listed"} /\ b.expression.other \in {"none", "listed"}
    BY RecordFacts DEF Settled
  <1>2. /\ TypeRank(a.type) = TypeRank(b.type)
        /\ (IF a.expression.other = "none" THEN 0 ELSE 1) = (IF b.expression.other = "none" THEN 0 ELSE 1)
        /\ a.value = b.value
        /\ a.text.class = b.text.class
    BY DEF licenseKey
  <1>3. TypeRank(none) = 0 /\ TypeRank("declared") = 1 /\ TypeRank("concluded") = 2
    BY DEF TypeRank
  <1> HIDE DEF none
  <1>4. a.type = b.type BY <1>1, <1>2, <1>3
  <1>5. a.expression.other = b.expression.other BY <1>1, <1>2
  <1>6. QED BY <1>2, <1>4, <1>5 DEF ClaimOf

(* What records claim, as they are stated and once settled. *)
Said(S) == {Claim(l) : l \in {k \in S : Publishable(k)}}

SaidNamed(S) == {Claim(l) : l \in {k \in S : Publishable(k) /\ Normalized(k).name # 0}}

ClaimsIn(S) == {ClaimOf(r) : r \in S}

NamedIn(S) == {ClaimOf(r) : r \in {s \in S : s.name # 0}}

Accumulated == [merged : Seq(LicenseRecords), textByRef : TermMaps]

Merging ==
    {acc \in Accumulated :
       /\ Terms(acc.textByRef)
       /\ \A i \in DOMAIN acc.merged : Settled(acc.merged[i]) /\ Cites(acc.merged[i], acc.textByRef)}

(* One claim merged into what was merged before. *)
LEMMA MergeClaimKeeps ==
    ASSUME NEW acc \in Merging, NEW l \in LicenseRecords
    PROVE  LET u == MergeClaim(acc, l)
           IN /\ u \in Merging
              /\ ClaimsIn(Range(u.merged)) = ClaimsIn(Range(acc.merged)) \cup Said({l})
              /\ NamedIn(Range(u.merged)) = NamedIn(Range(acc.merged)) \cup SaidNamed({l})
  <1> DEFINE u == MergeClaim(acc, l)
             list == acc.merged
             tb == acc.textByRef
             n == Normalized(l)
             r == Resolve(n, tb)
             c == r.license
             later == r.textByRef
             same == {i \in DOMAIN list : licenseKey(list[i]) = licenseKey(c)}
  <1>1. /\ list \in Seq(LicenseRecords) /\ tb \in TermMaps /\ Terms(tb)
        /\ \A i \in DOMAIN list : Settled(list[i]) /\ Cites(list[i], tb)
    BY DEF Merging, Accumulated
  <1>n. Len(list) \in Nat /\ DOMAIN list = 1 .. Len(list) BY <1>1
  <1>2. CASE ~Publishable(l)
    <2>1. u = acc BY <1>2 DEF MergeClaim
    <2>2. Said({l}) = {} /\ SaidNamed({l}) = {} BY <1>2 DEF Said, SaidNamed
    <2> HIDE DEF u
    <2>3. QED BY <2>1, <2>2 DEF u
  <1>3. CASE Publishable(l)
    <2>1. n \in LicenseRecords /\ Settled(n) BY <1>3, NormalizedFacts
    <2>2. Said({l}) = {Claim(l)} /\ SaidNamed({l}) = IF n.name # 0 THEN {Claim(l)} ELSE {}
      BY <1>3 DEF Said, SaidNamed
    <2>3. Claim(l) = ClaimOf(n) BY DEF Claim, ClaimOf
    <2> HIDE DEF n
    <2>4. /\ Settled(c) /\ ClaimOf(c) = ClaimOf(n) /\ c.name = n.name
          /\ Terms(later) /\ Grown(tb, later) /\ Cites(c, later)
      BY <1>1, <2>1, ResolveKeeps
    <2>5. c \in LicenseRecords /\ later \in TermMaps BY <2>4 DEF Settled, Terms
    <2>6. \A i \in DOMAIN list : Cites(list[i], later) BY <1>1, <2>4 DEF Cites, Grown
    <2> DEFINE named == [i \in DOMAIN list |->
                           IF i \in same /\ list[i].name = 0
                           THEN [list[i] EXCEPT !.name = c.name] ELSE list[i]]
    <2>7. u = [textByRef |-> later, merged |-> IF same = {} THEN Append(list, c) ELSE named]
      BY <1>3 DEF MergeClaim, n
    <2>8. CASE same = {}
      <3>1. u = [textByRef |-> later, merged |-> Append(list, c)] BY <2>7, <2>8
      <3> HIDE DEF u, r, later, c, same, tb, list
      <3>2. Range(Append(list, c)) = Range(list) \cup {c} BY <1>1, <2>5, RangeOfAppend
      <3>3. Append(list, c) \in Seq(LicenseRecords) BY <1>1, <2>5
      <3>4. \A i \in DOMAIN Append(list, c) :
               Settled(Append(list, c)[i]) /\ Cites(Append(list, c)[i], later)
        <4> DEFINE m == Len(list)
                   w == Append(list, c)
        <4>1. DOMAIN w = 1 .. m + 1 /\ w[m + 1] = c /\ \A i \in 1 .. m : w[i] = list[i]
          BY <1>1, <1>n
        <4>2. \A i \in 1 .. m + 1 : i \in 1 .. m \/ i = m + 1 BY <1>n
        <4> HIDE DEF m, w
        <4>3. \A i \in 1 .. m : Settled(w[i]) /\ Cites(w[i], later) BY <4>1, <1>1, <1>n, <2>6 DEF m
        <4>4. \A i \in DOMAIN w : Settled(w[i]) /\ Cites(w[i], later) BY <4>1, <4>2, <4>3, <2>4
        <4>5. QED BY <4>4 DEF w
      <3>5. u.merged = Append(list, c) /\ u.textByRef = later BY <3>1
      <3>6. u \in Accumulated BY <3>1, <3>3, <2>5 DEF Accumulated
      <3>7. u \in Merging BY <3>4, <3>5, <3>6, <2>4 DEF Merging
      <3>8. ClaimsIn(Range(u.merged)) = ClaimsIn(Range(list)) \cup Said({l})
        <4> DEFINE S == Range(list)
        <4> HIDE DEF S
        <4>1. ClaimsIn(S \cup {c}) = ClaimsIn(S) \cup {ClaimOf(c)} BY DEF ClaimsIn
        <4>2. Range(u.merged) = S \cup {c} BY <3>2, <3>5 DEF S
        <4>3. QED BY <4>1, <4>2, <2>2, <2>3, <2>4 DEF S
      <3>9. NamedIn(Range(u.merged)) = NamedIn(Range(list)) \cup SaidNamed({l})
        BY <3>2, <3>5, <2>2, <2>3, <2>4 DEF NamedIn
      <3>10. QED BY <3>7, <3>8, <3>9 DEF u, list
    <2>9. CASE same # {}
      <3>1. u = [textByRef |-> later, merged |-> named] BY <2>7, <2>9
      <3>2. \A i \in same : i \in DOMAIN list /\ ClaimOf(list[i]) = ClaimOf(c)
        <4> TAKE i \in same
        <4>1. i \in DOMAIN list /\ licenseKey(list[i]) = licenseKey(c) OBVIOUS
        <4> HIDE DEF same, c, list
        <4>2. Settled(list[i]) BY <4>1, <1>1
        <4>3. QED BY <4>1, <4>2, <2>4, KeysTellClaims
      <3> DEFINE New(i) == IF i \in same /\ list[i].name = 0 THEN c.name ELSE list[i].name
      <3>3. c.name \in Nat BY <2>5, RecordFacts
      <3> HIDE DEF u, r, later, c, same, tb, list
      <3>4. \A i \in DOMAIN list : /\ named[i] \in LicenseRecords
                                   /\ named[i].name = New(i)
                                   /\ named[i].type = list[i].type /\ named[i].value = list[i].value
                                   /\ named[i].text = list[i].text
                                   /\ named[i].expression = list[i].expression
        <4> TAKE i \in DOMAIN list
        <4>1. list[i] \in LicenseRecords BY <1>1
        <4> DEFINE old == list[i]
                   e == [old EXCEPT !.name = c.name]
        <4>2. /\ e \in LicenseRecords /\ e.name = c.name /\ e.type = old.type /\ e.value = old.value
              /\ e.text = old.text /\ e.expression = old.expression
          <5> HIDE DEF old
          <5>1. old \in LicenseRecords BY <4>1 DEF old
          <5>2. QED BY <5>1, <3>3 DEF LicenseRecords
        <4>3. named[i] = IF i \in same /\ list[i].name = 0 THEN e ELSE old OBVIOUS
        <4> HIDE DEF named, e
        <4>4. QED BY <4>1, <4>2, <4>3
      <3>5. DOMAIN named = DOMAIN list /\ named \in [1 .. Len(list) -> LicenseRecords]
        BY <1>n, <3>4
      <3> HIDE DEF named
      <3>6. named \in Seq(LicenseRecords) BY <3>5, <1>n
      <3>7. \A i \in DOMAIN named : Settled(named[i]) /\ Cites(named[i], later)
        BY <1>1, <2>6, <3>4, <3>5 DEF Settled, Cites
      <3>8. u.merged = named /\ u.textByRef = later BY <3>1
      <3>9. u \in Accumulated BY <3>1, <3>6, <2>5 DEF Accumulated
      <3>10. u \in Merging BY <3>7, <3>8, <3>9, <2>4 DEF Merging
      <3>11. \A i \in DOMAIN list : ClaimOf(named[i]) = ClaimOf(list[i]) BY <3>4 DEF ClaimOf
      <3>12. PICK m \in same : TRUE BY <2>9
      <3>13. ClaimsIn(Range(named)) = {ClaimOf(named[i]) : i \in DOMAIN list}
             /\ ClaimsIn(Range(list)) = {ClaimOf(list[i]) : i \in DOMAIN list}
        BY <3>5 DEF ClaimsIn, Range
      <3>14. ClaimOf(c) \in ClaimsIn(Range(list)) BY <3>2, <3>12, <3>13
      <3>15. ClaimsIn(Range(named)) = ClaimsIn(Range(list)) \cup Said({l})
        BY <3>11, <3>13, <3>14, <2>2, <2>3, <2>4
      <3>16. /\ \A x : x \in NamedIn(Range(named)) <=> \E i \in DOMAIN list : New(i) # 0 /\ x = ClaimOf(list[i])
             /\ \A x : x \in NamedIn(Range(list)) <=> \E i \in DOMAIN list : list[i].name # 0 /\ x = ClaimOf(list[i])
        <4>1. \A x : x \in NamedIn(Range(named)) <=> \E i \in DOMAIN list : named[i].name # 0 /\ x = ClaimOf(named[i])
          BY <3>5 DEF NamedIn, Range
        <4>2. \A x : x \in NamedIn(Range(list)) <=> \E i \in DOMAIN list : list[i].name # 0 /\ x = ClaimOf(list[i])
          BY DEF NamedIn, Range
        <4>3. \A i \in DOMAIN list : named[i].name = New(i) /\ ClaimOf(named[i]) = ClaimOf(list[i])
          BY <3>4, <3>11
        <4> HIDE DEF New
        <4>4. QED BY <4>1, <4>2, <4>3
      <3>17. NamedIn(Range(named)) = NamedIn(Range(list)) \cup SaidNamed({l})
        <4>1. CASE c.name = 0
          <5>1. \A i \in DOMAIN list : New(i) # 0 <=> list[i].name # 0 BY <4>1
          <5>2. SaidNamed({l}) = {} BY <4>1, <2>2, <2>4
          <5> HIDE DEF New
          <5>3. QED BY <3>16, <5>1, <5>2
        <4>2. CASE c.name # 0
          <5>1. \A i \in DOMAIN list : New(i) # 0 <=> list[i].name # 0 \/ i \in same BY <4>2
          <5>2. SaidNamed({l}) = {ClaimOf(c)} BY <4>2, <2>2, <2>3, <2>4
          <5> HIDE DEF New
          <5>3. QED BY <3>2, <3>12, <3>16, <5>1, <5>2
        <4>3. QED BY <4>1, <4>2
      <3>18. QED BY <3>8, <3>10, <3>15, <3>17 DEF u, list
    <2>10. QED BY <2>8, <2>9
  <1>4. QED BY <1>2, <1>3

(* What the fold over a list of claims makes, by induction along it. *)
LEMMA MergeClaimsInduction ==
    ASSUME NEW T, NEW list \in T, NEW incoming \in Seq(LicenseRecords),
           \A t \in T, c \in LicenseRecords : MergeClaim(t, c) \in T,
           NEW Along, <<0, list>> \in Along,
           \A k \in 1 .. Len(incoming), t \in T :
              <<k - 1, t>> \in Along => <<k, MergeClaim(t, incoming[k])>> \in Along
    PROVE  /\ FoldLeft(MergeClaim, list, incoming) \in T
           /\ <<Len(incoming), FoldLeft(MergeClaim, list, incoming)>> \in Along
  <1> DEFINE n == Len(incoming)
             step == [p \in (1 .. n) \X T |-> MergeClaim(p[2], incoming[p[1]])]
             Fold(g) == [s \in SUBSET (1 .. n) |->
                           IF s = {} THEN list
                           ELSE MergeClaim(g[s \ {Max(s)}], incoming[Max(s)])]
             f == CHOOSE g : g = Fold(g)
  <1>n. n \in Nat /\ DOMAIN incoming = 1 .. n /\ \A k \in 1 .. n : incoming[k] \in LicenseRecords
    OBVIOUS
  <1>1. step \in [(1 .. n) \X T -> T]
    BY <1>n
  <1>2. PICK g \in [SUBSET (1 .. n) -> T] : IsFold(g, n, list, step)
    <2> HIDE DEF step, n
    <2> QED BY <1>n, <1>1, FoldFunctionExists
  <1>3. g = Fold(g)
    <2>1. ASSUME NEW s \in SUBSET (1 .. n), s # {}
          PROVE  g[s] = MergeClaim(g[s \ {Max(s)}], incoming[Max(s)])
      <3>1. Max(s) \in 1 .. n BY <2>1, <1>n, MaxUpTo
      <3>2. g[s \ {Max(s)}] \in T BY <1>2
      <3>3. QED BY <3>1, <3>2, <1>2, <2>1 DEF IsFold
    <2>2. QED BY <2>1, <1>2 DEF IsFold
  <1>4. f = Fold(f)
    <2> HIDE DEF Fold
    <2> QED BY <1>3
  <1>5. FoldLeft(MergeClaim, list, incoming) = f[1 .. n]
    BY <1>n DEF FoldLeft, MapThenFoldSet
  <1> HIDE DEF f
  <1>6. f[{}] = list BY <1>4
  <1>7. \A k \in 1 .. n : f[1 .. k] = MergeClaim(f[1 .. k - 1], incoming[k])
    <2> TAKE k \in 1 .. n
    <2>1. /\ 1 .. k \in SUBSET (1 .. n) /\ 1 .. k # {} /\ Max(1 .. k) = k
          /\ (1 .. k) \ {k} = 1 .. k - 1
      BY <1>n, FirstIndices
    <2>2. QED BY <2>1, <1>4
  <1>8. \A k \in 1 .. n : f[1 .. k] = IF f[1 .. k - 1] \in T THEN step[<<k, f[1 .. k - 1]>>]
                                      ELSE f[1 .. k]
    BY <1>7
  <1>9. \A k \in 1 .. n, t \in T : <<k - 1, t>> \in Along => <<k, step[<<k, t>>]>> \in Along
    OBVIOUS
  <1>10. f[1 .. n] \in T /\ <<n, f[1 .. n]>> \in Along
    <2> HIDE DEF step, n
    <2> QED BY <1>n, <1>1, <1>6, <1>8, <1>9, FoldInduction
  <1>11. QED BY <1>5, <1>10

(* What a union of records says. *)
LEMMA SaidOfUnion ==
    ASSUME NEW S, NEW T
    PROVE  Said(S \cup T) = Said(S) \cup Said(T) /\ SaidNamed(S \cup T) = SaidNamed(S) \cup SaidNamed(T)
  BY DEF Said, SaidNamed

(* What settled claims say is what they claim. *)
LEMMA SaidOfSettled ==
    ASSUME NEW S, \A r \in S : Settled(r)
    PROVE  Said(S) = ClaimsIn(S) /\ SaidNamed(S) = NamedIn(S)
  <1>1. \A r \in S : Normalized(r) = r /\ Publishable(r) /\ Claim(r) = ClaimOf(r)
    BY SettledStays
  <1>2. QED BY <1>1 DEF Said, SaidNamed, ClaimsIn, NamedIn

(* The merged claims say what the list says. *)
LEMMA MergeClaimsKeep ==
    ASSUME NEW incoming \in Seq(LicenseRecords)
    PROVE  LET acc == FoldLeft(MergeClaim, NothingMerged, incoming)
           IN /\ acc \in Merging
              /\ ClaimsIn(Range(acc.merged)) = Said(Range(incoming))
              /\ NamedIn(Range(acc.merged)) = SaidNamed(Range(incoming))
  <1> DEFINE T == Merging
             base == NothingMerged
             n == Len(incoming)
             First(k) == {incoming[i] : i \in 1 .. k}
             Kept(k, t) ==
                /\ ClaimsIn(Range(t.merged)) = Said(First(k))
                /\ NamedIn(Range(t.merged)) = SaidNamed(First(k))
             Along == {p \in Nat \X T : Kept(p[1], p[2])}
  <1>n. n \in Nat /\ DOMAIN incoming = 1 .. n /\ \A k \in 1 .. n : incoming[k] \in LicenseRecords
    OBVIOUS
  <1>1. \A t \in T, c \in LicenseRecords : MergeClaim(t, c) \in T
    BY MergeClaimKeeps
  <1>2. base \in T /\ Range(base.merged) = {}
    <2> DEFINE none == << >>
               tb == [r \in {} |-> NoText]
    <2>1. base = [merged |-> none, textByRef |-> tb] BY DEF NothingMerged
    <2>2. none \in Seq(LicenseRecords) /\ DOMAIN none = {} /\ Range(none) = {} BY DEF Range
    <2>3. DOMAIN tb = {} /\ tb \in [{} -> Texts] OBVIOUS
    <2> HIDE DEF none, tb, base
    <2>4. tb \in TermMaps BY <2>3 DEF TermMaps
    <2>5. Terms(tb) BY <2>3, <2>4 DEF Terms
    <2>6. base \in Accumulated BY <2>1, <2>2, <2>4 DEF Accumulated
    <2>7. base.merged = none /\ base.textByRef = tb BY <2>1
    <2>8. QED BY <2>2, <2>5, <2>6, <2>7 DEF Merging
  <1> HIDE DEF base
  <1>3. <<0, base>> \in Along
    <2>1. First(0) = {} OBVIOUS
    <2>2. ClaimsIn({}) = {} /\ NamedIn({}) = {} /\ Said({}) = {} /\ SaidNamed({}) = {}
      BY DEF ClaimsIn, NamedIn, Said, SaidNamed
    <2>3. Kept(0, base) BY <1>2, <2>1, <2>2
    <2> HIDE DEF Kept, T
    <2>4. QED BY <1>2, <2>3
  <1>4. ASSUME NEW k \in 1 .. n, NEW t \in T, <<k - 1, t>> \in Along
        PROVE  <<k, MergeClaim(t, incoming[k])>> \in Along
    <2> DEFINE c == incoming[k]
               u == MergeClaim(t, c)
    <2>1. c \in LicenseRecords BY <1>n
    <2>2. Kept(k - 1, t) BY <1>4
    <2>3. First(k) = First(k - 1) \cup {c}
      <3>1. \A i \in 1 .. k : i \in 1 .. k - 1 \/ i = k OBVIOUS
      <3>2. 1 .. k - 1 \subseteq 1 .. k /\ k \in 1 .. k OBVIOUS
      <3>3. QED BY <3>1, <3>2
    <2>4. /\ u \in T
          /\ ClaimsIn(Range(u.merged)) = ClaimsIn(Range(t.merged)) \cup Said({c})
          /\ NamedIn(Range(u.merged)) = NamedIn(Range(t.merged)) \cup SaidNamed({c})
      <3> HIDE DEF c
      <3> QED BY <2>1, MergeClaimKeeps
    <2> HIDE DEF c, u, First
    <2>5. /\ Said(First(k)) = Said(First(k - 1)) \cup Said({c})
          /\ SaidNamed(First(k)) = SaidNamed(First(k - 1)) \cup SaidNamed({c})
      <3> DEFINE A == First(k - 1)
                 B == {c}
      <3>1. First(k) = A \cup B BY <2>3
      <3> HIDE DEF A, B
      <3>2. Said(A \cup B) = Said(A) \cup Said(B) BY SaidOfUnion
      <3>3. SaidNamed(A \cup B) = SaidNamed(A) \cup SaidNamed(B) BY SaidOfUnion
      <3>4. QED BY <3>1, <3>2, <3>3 DEF A, B
    <2>6. Kept(k, u) BY <2>2, <2>4, <2>5
    <2> HIDE DEF Kept, T
    <2>7. k \in Nat BY <1>n
    <2>8. <<k, u>> \in Along BY <2>4, <2>6, <2>7
    <2>9. QED BY <2>8 DEF u, c
  <1> DEFINE acc == FoldLeft(MergeClaim, base, incoming)
  <1>5. acc \in T /\ <<n, acc>> \in Along
    <2> HIDE DEF T, Along
    <2>1. QED BY <1>1, <1>2, <1>3, <1>4, MergeClaimsInduction
  <1>6. First(n) = Range(incoming) BY <1>n DEF Range
  <1> HIDE DEF acc
  <1>7. Kept(n, acc) BY <1>5
  <1> HIDE DEF First
  <1>8. QED BY <1>5, <1>6, <1>7 DEF acc, base

(* Placing a claim adds it and moves the others. *)
LEMMA PlacedKeeps ==
    ASSUME NEW sorted \in Seq(LicenseRecords), NEW l \in LicenseRecords
    PROVE  /\ Placed(sorted, l) \in Seq(LicenseRecords)
           /\ Range(Placed(sorted, l)) = Range(sorted) \cup {l}
  <1> DEFINE n == Len(sorted)
             later == {i \in DOMAIN sorted : KeyBefore(licenseKey(l), licenseKey(sorted[i]))}
             at == IF later = {} THEN n + 1 ELSE Min(later)
             before == SubSeq(sorted, 1, at - 1)
             one == <<l>>
             after == SubSeq(sorted, at, n)
  <1>n. n \in Nat /\ DOMAIN sorted = 1 .. n /\ \A i \in 1 .. n : sorted[i] \in LicenseRecords OBVIOUS
  <1>1. at \in 1 .. n + 1
    <2>1. CASE later = {} BY <2>1, <1>n
    <2>2. CASE later # {}
      <3>1. later \subseteq 1 .. n /\ later \subseteq Nat BY <1>n
      <3> HIDE DEF later
      <3>2. Min(later) \in later BY <2>2, <3>1, MinOfNaturals
      <3>3. at = Min(later) BY <2>2
      <3>4. at \in 1 .. n BY <3>1, <3>2, <3>3
      <3> HIDE DEF at
      <3>5. QED BY <3>4, <1>n
    <2>3. QED BY <2>1, <2>2
  <1>2. Placed(sorted, l) = before \o one \o after
    BY DEF Placed, InsertAt
  <1> HIDE DEF at, later
  <1>3. /\ before \in Seq(LicenseRecords) /\ Len(before) = at - 1 /\ DOMAIN before = 1 .. at - 1
        /\ \A i \in 1 .. at - 1 : before[i] = sorted[i]
    BY <1>1, <1>n
  <1>4. /\ after \in Seq(LicenseRecords) /\ Len(after) = n - at + 1 /\ DOMAIN after = 1 .. n - at + 1
        /\ \A i \in 1 .. n - at + 1 : after[i] = sorted[at + i - 1]
    BY <1>1, <1>n
  <1>5. one \in Seq(LicenseRecords) /\ Range(one) = {l}
    <2>1. one \in Seq(LicenseRecords) /\ DOMAIN one = {1} /\ one[1] = l OBVIOUS
    <2> HIDE DEF one
    <2>2. QED BY <2>1 DEF Range
  <1> HIDE DEF before, after, one
  <1>6. before \o one \in Seq(LicenseRecords) BY <1>3, <1>5
  <1>7. Range(before \o one) = Range(before) \cup Range(one) BY <1>3, <1>5, RangeOfJoin
  <1>8. Range(before \o one \o after) = Range(before) \cup Range(one) \cup Range(after)
    <2> DEFINE head == before \o one
    <2>1. head \in Seq(LicenseRecords) /\ Range(head) = Range(before) \cup Range(one) BY <1>6, <1>7
    <2> HIDE DEF head
    <2>2. Range(head \o after) = Range(head) \cup Range(after) BY <1>4, <2>1, RangeOfJoin
    <2>3. Range(head \o after) = Range(before) \cup Range(one) \cup Range(after) BY <2>1, <2>2
    <2>4. QED BY <2>3 DEF head
  <1>9. Range(sorted) = Range(before) \cup Range(after)
    <2>1. Range(before) \cup Range(after) \subseteq Range(sorted)
      <3>1. \A i \in 1 .. at - 1 : i \in 1 .. n BY <1>1, <1>n
      <3>2. \A i \in 1 .. n - at + 1 : at + i - 1 \in 1 .. n BY <1>1, <1>n
      <3>3. QED BY <3>1, <3>2, <1>3, <1>4, <1>n DEF Range
    <2>2. ASSUME NEW i \in 1 .. n PROVE sorted[i] \in Range(before) \cup Range(after)
      <3>1. CASE i < at
        <4>1. i \in 1 .. at - 1 BY <3>1, <1>1, <1>n
        <4>2. QED BY <4>1, <1>3 DEF Range
      <3>2. CASE i >= at
        <4>1. i - at + 1 \in 1 .. n - at + 1 /\ at + (i - at + 1) - 1 = i BY <3>2, <1>1, <1>n
        <4>2. after[i - at + 1] = sorted[i] BY <4>1, <1>4
        <4>3. QED BY <4>1, <4>2, <1>4 DEF Range
      <3>3. QED BY <3>1, <3>2, <1>1, <1>n
    <2>3. Range(sorted) \subseteq Range(before) \cup Range(after) BY <2>2, <1>n DEF Range
    <2>4. QED BY <2>1, <2>3
  <1>10. (before \o one) \o after \in Seq(LicenseRecords) BY <1>4, <1>6
  <1>11. QED BY <1>2, <1>5, <1>8, <1>9, <1>10

(* What placing the claims of a list one by one makes, by induction along it. *)
LEMMA PlacedInduction ==
    ASSUME NEW T, NEW list \in T, NEW incoming \in Seq(LicenseRecords),
           \A t \in T, c \in LicenseRecords : Placed(t, c) \in T,
           NEW Along, <<0, list>> \in Along,
           \A k \in 1 .. Len(incoming), t \in T :
              <<k - 1, t>> \in Along => <<k, Placed(t, incoming[k])>> \in Along
    PROVE  /\ FoldLeft(Placed, list, incoming) \in T
           /\ <<Len(incoming), FoldLeft(Placed, list, incoming)>> \in Along
  <1> DEFINE n == Len(incoming)
             step == [p \in (1 .. n) \X T |-> Placed(p[2], incoming[p[1]])]
             Fold(g) == [s \in SUBSET (1 .. n) |->
                           IF s = {} THEN list
                           ELSE Placed(g[s \ {Max(s)}], incoming[Max(s)])]
             f == CHOOSE g : g = Fold(g)
  <1>n. n \in Nat /\ DOMAIN incoming = 1 .. n /\ \A k \in 1 .. n : incoming[k] \in LicenseRecords
    OBVIOUS
  <1>1. step \in [(1 .. n) \X T -> T]
    BY <1>n
  <1>2. PICK g \in [SUBSET (1 .. n) -> T] : IsFold(g, n, list, step)
    <2> HIDE DEF step, n
    <2> QED BY <1>n, <1>1, FoldFunctionExists
  <1>3. g = Fold(g)
    <2>1. ASSUME NEW s \in SUBSET (1 .. n), s # {}
          PROVE  g[s] = Placed(g[s \ {Max(s)}], incoming[Max(s)])
      <3>1. Max(s) \in 1 .. n BY <2>1, <1>n, MaxUpTo
      <3>2. g[s \ {Max(s)}] \in T BY <1>2
      <3>3. QED BY <3>1, <3>2, <1>2, <2>1 DEF IsFold
    <2>2. QED BY <2>1, <1>2 DEF IsFold
  <1>4. f = Fold(f)
    <2> HIDE DEF Fold
    <2> QED BY <1>3
  <1>5. FoldLeft(Placed, list, incoming) = f[1 .. n]
    BY <1>n DEF FoldLeft, MapThenFoldSet
  <1> HIDE DEF f
  <1>6. f[{}] = list BY <1>4
  <1>7. \A k \in 1 .. n : f[1 .. k] = Placed(f[1 .. k - 1], incoming[k])
    <2> TAKE k \in 1 .. n
    <2>1. /\ 1 .. k \in SUBSET (1 .. n) /\ 1 .. k # {} /\ Max(1 .. k) = k
          /\ (1 .. k) \ {k} = 1 .. k - 1
      BY <1>n, FirstIndices
    <2>2. QED BY <2>1, <1>4
  <1>8. \A k \in 1 .. n : f[1 .. k] = IF f[1 .. k - 1] \in T THEN step[<<k, f[1 .. k - 1]>>]
                                      ELSE f[1 .. k]
    BY <1>7
  <1>9. \A k \in 1 .. n, t \in T : <<k - 1, t>> \in Along => <<k, step[<<k, t>>]>> \in Along
    OBVIOUS
  <1>10. f[1 .. n] \in T /\ <<n, f[1 .. n]>> \in Along
    <2> HIDE DEF step, n
    <2> QED BY <1>n, <1>1, <1>6, <1>8, <1>9, FoldInduction
  <1>11. QED BY <1>5, <1>10

(* Sorting leaves the claims. *)
LEMMA PlacingKeeps ==
    ASSUME NEW list \in Seq(LicenseRecords), Range(list) = {}, NEW incoming \in Seq(LicenseRecords)
    PROVE  /\ FoldLeft(Placed, list, incoming) \in Seq(LicenseRecords)
           /\ Range(FoldLeft(Placed, list, incoming)) = Range(incoming)
  <1> DEFINE T == Seq(LicenseRecords)
             n == Len(incoming)
             First(k) == {incoming[i] : i \in 1 .. k}
             Along == {p \in Nat \X T : Range(p[2]) = First(p[1])}
  <1>n. n \in Nat /\ DOMAIN incoming = 1 .. n /\ \A k \in 1 .. n : incoming[k] \in LicenseRecords
    OBVIOUS
  <1>1. \A t \in T, c \in LicenseRecords : Placed(t, c) \in T /\ Range(Placed(t, c)) = Range(t) \cup {c}
    BY PlacedKeeps
  <1>2. <<0, list>> \in Along OBVIOUS
  <1>3. ASSUME NEW k \in 1 .. n, NEW t \in T, <<k - 1, t>> \in Along
        PROVE  <<k, Placed(t, incoming[k])>> \in Along
    <2>1. incoming[k] \in LicenseRecords BY <1>n
    <2>2. Range(t) = First(k - 1) BY <1>3
    <2>3. First(k) = First(k - 1) \cup {incoming[k]}
      <3>1. \A i \in 1 .. k : i \in 1 .. k - 1 \/ i = k OBVIOUS
      <3>2. 1 .. k - 1 \subseteq 1 .. k /\ k \in 1 .. k OBVIOUS
      <3>3. QED BY <3>1, <3>2
    <2> HIDE DEF First, T
    <2>4. Range(Placed(t, incoming[k])) = First(k) /\ Placed(t, incoming[k]) \in T
      BY <1>1, <2>1, <2>2, <2>3
    <2>5. k \in Nat BY <1>n
    <2>6. QED BY <2>4, <2>5
  <1> DEFINE sorted == FoldLeft(Placed, list, incoming)
  <1>4. sorted \in T /\ <<n, sorted>> \in Along
    <2>1. list \in T /\ \A t \in T, c \in LicenseRecords : Placed(t, c) \in T BY <1>1
    <2> HIDE DEF T, Along
    <2>2. QED BY <1>2, <1>3, <2>1, PlacedInduction
  <1>5. First(n) = Range(incoming) BY <1>n DEF Range
  <1> HIDE DEF First, sorted
  <1>6. QED BY <1>4, <1>5 DEF sorted

(* One reference, one text. *)
NamesOneText(list) ==
    \A l, k \in Range(list) :
        l.expression.ref # 0 /\ l.expression.ref = k.expression.ref => l.text.class = k.text.class

(* What merging two lists of licences leaves. *)
LEMMA MergeLicensesKeeps ==
    ASSUME NEW existing \in Seq(LicenseRecords), NEW additions \in Seq(LicenseRecords)
    PROVE  /\ MergeLicenses(existing, additions) \in Seq(LicenseRecords)
           /\ NamesOneText(MergeLicenses(existing, additions))
           /\ Claims(MergeLicenses(existing, additions)) = Claims(existing) \cup Claims(additions)
           /\ NamedClaims(MergeLicenses(existing, additions)) = NamedClaims(existing) \cup NamedClaims(additions)
  <1> DEFINE none == << >>
             all == existing \o additions
             acc == FoldLeft(MergeClaim, NothingMerged, all)
             list == acc.merged
             sorted == FoldLeft(Placed, none, list)
             merged == MergeLicenses(existing, additions)
  <1>1. merged = sorted BY DEF MergeLicenses
  <1>2. none \in Seq(LicenseRecords) /\ Range(none) = {} BY DEF Range
  <1>3. all \in Seq(LicenseRecords) OBVIOUS
  <1>4. Range(all) = Range(existing) \cup Range(additions) BY RangeOfJoin
  <1> HIDE DEF none, all, merged
  <1>5. /\ acc \in Merging
        /\ ClaimsIn(Range(acc.merged)) = Said(Range(all))
        /\ NamedIn(Range(acc.merged)) = SaidNamed(Range(all))
    BY <1>3, MergeClaimsKeep
  <1> HIDE DEF acc
  <1>6. /\ list \in Seq(LicenseRecords)
        /\ \A i \in DOMAIN list : Settled(list[i]) /\ Cites(list[i], acc.textByRef)
    BY <1>5 DEF Merging, Accumulated
  <1>7. \A r \in Range(list) : Settled(r) /\ Cites(r, acc.textByRef) BY <1>6 DEF Range
  <1>8. sorted \in Seq(LicenseRecords) /\ Range(sorted) = Range(list)
    <2> HIDE DEF list
    <2> QED BY <1>2, <1>6, PlacingKeeps
  <1>9. NamesOneText(merged)
    BY <1>1, <1>7, <1>8 DEF NamesOneText, Cites
  <1>10. Said(Range(list)) = ClaimsIn(Range(list)) /\ SaidNamed(Range(list)) = NamedIn(Range(list))
    <2> DEFINE S == Range(list)
    <2>1. \A r \in S : Settled(r) BY <1>7
    <2> HIDE DEF S
    <2>2. Said(S) = ClaimsIn(S) /\ SaidNamed(S) = NamedIn(S) BY <2>1, SaidOfSettled
    <2>3. QED BY <2>2 DEF S
  <1>11. /\ Said(Range(all)) = Said(Range(existing)) \cup Said(Range(additions))
         /\ SaidNamed(Range(all)) = SaidNamed(Range(existing)) \cup SaidNamed(Range(additions))
    <2> DEFINE A == Range(existing)
               B == Range(additions)
    <2>1. Range(all) = A \cup B BY <1>4
    <2> HIDE DEF A, B
    <2>2. Said(A \cup B) = Said(A) \cup Said(B) BY SaidOfUnion
    <2>3. SaidNamed(A \cup B) = SaidNamed(A) \cup SaidNamed(B) BY SaidOfUnion
    <2>4. QED BY <2>1, <2>2, <2>3 DEF A, B
  <1>12. \A s : Claims(s) = Said(Range(s)) /\ NamedClaims(s) = SaidNamed(Range(s))
    BY DEF Claims, NamedClaims, Said, SaidNamed
  <1> HIDE DEF sorted
  <1>13. Claims(merged) = Claims(existing) \cup Claims(additions)
    BY <1>1, <1>5, <1>8, <1>10, <1>11, <1>12
  <1>14. NamedClaims(merged) = NamedClaims(existing) \cup NamedClaims(additions)
    BY <1>1, <1>5, <1>8, <1>10, <1>11, <1>12
  <1>15. QED BY <1>1, <1>8, <1>9, <1>13, <1>14 DEF merged
-----------------------------------------------------------------------------
(* The fold of a sequence of origins, by induction along it. *)
LEMMA MergeOriginsInduction ==
    ASSUME NEW T, NEW list \in T, NEW incoming \in Seq(OriginRecords),
           \A t \in T, c \in OriginRecords : MergeOrigin(t, c) \in T,
           NEW Along, <<0, list>> \in Along,
           \A k \in 1 .. Len(incoming), t \in T :
              <<k - 1, t>> \in Along => <<k, MergeOrigin(t, incoming[k])>> \in Along
    PROVE  /\ FoldLeft(MergeOrigin, list, incoming) \in T
           /\ <<Len(incoming), FoldLeft(MergeOrigin, list, incoming)>> \in Along
  <1> DEFINE n == Len(incoming)
             step == [p \in (1 .. n) \X T |-> MergeOrigin(p[2], incoming[p[1]])]
             Fold(g) == [s \in SUBSET (1 .. n) |->
                           IF s = {} THEN list
                           ELSE MergeOrigin(g[s \ {Max(s)}], incoming[Max(s)])]
             f == CHOOSE g : g = Fold(g)
  <1>n. n \in Nat /\ DOMAIN incoming = 1 .. n /\ \A k \in 1 .. n : incoming[k] \in OriginRecords
    OBVIOUS
  <1>1. step \in [(1 .. n) \X T -> T]
    BY <1>n
  <1>2. PICK g \in [SUBSET (1 .. n) -> T] : IsFold(g, n, list, step)
    <2> HIDE DEF step, n
    <2> QED BY <1>n, <1>1, FoldFunctionExists
  <1>3. g = Fold(g)
    <2>1. ASSUME NEW s \in SUBSET (1 .. n), s # {}
          PROVE  g[s] = MergeOrigin(g[s \ {Max(s)}], incoming[Max(s)])
      <3>1. Max(s) \in 1 .. n BY <2>1, <1>n, MaxUpTo
      <3>2. g[s \ {Max(s)}] \in T BY <1>2
      <3>3. QED BY <3>1, <3>2, <1>2, <2>1 DEF IsFold
    <2>2. QED BY <2>1, <1>2 DEF IsFold
  <1>4. f = Fold(f)
    <2> HIDE DEF Fold
    <2> QED BY <1>3
  <1>5. FoldLeft(MergeOrigin, list, incoming) = f[1 .. n]
    BY <1>n DEF FoldLeft, MapThenFoldSet
  <1> HIDE DEF f
  <1>6. f[{}] = list BY <1>4
  <1>7. \A k \in 1 .. n : f[1 .. k] = MergeOrigin(f[1 .. k - 1], incoming[k])
    <2> TAKE k \in 1 .. n
    <2>1. /\ 1 .. k \in SUBSET (1 .. n) /\ 1 .. k # {} /\ Max(1 .. k) = k
          /\ (1 .. k) \ {k} = 1 .. k - 1
      BY <1>n, FirstIndices
    <2>2. QED BY <2>1, <1>4
  <1>8. \A k \in 1 .. n : f[1 .. k] = IF f[1 .. k - 1] \in T THEN step[<<k, f[1 .. k - 1]>>]
                                      ELSE f[1 .. k]
    BY <1>7
  <1>9. \A k \in 1 .. n, t \in T : <<k - 1, t>> \in Along => <<k, step[<<k, t>>]>> \in Along
    OBVIOUS
  <1>10. f[1 .. n] \in T /\ <<n, f[1 .. n]>> \in Along
    <2> HIDE DEF step, n
    <2> QED BY <1>n, <1>1, <1>6, <1>8, <1>9, FoldInduction
  <1>11. QED BY <1>5, <1>10

(* Whether an origin stays when superseded ones are dropped from a set. *)
Filtered(kept, o, S) == IF Superseded(o, S) THEN kept ELSE Append(kept, o)

IsNothing(list) == list = << >>

(* The second pass, by induction along the sequence. *)
LEMMA DropInduction ==
    ASSUME NEW incoming \in Seq(OriginRecords), NEW none, IsNothing(none), NEW Along, <<0, none>> \in Along,
           \A k \in 1 .. Len(incoming), t \in Seq(OriginRecords) :
              <<k - 1, t>> \in Along => <<k, Filtered(t, incoming[k], Range(incoming))>> \in Along
    PROVE  /\ DropSupersededOrigins(incoming) \in Seq(OriginRecords)
           /\ <<Len(incoming), DropSupersededOrigins(incoming)>> \in Along
  <1> DEFINE T == Seq(OriginRecords)
             n == Len(incoming)
             S == Range(incoming)
             step == [p \in (1 .. n) \X T |-> Filtered(p[2], incoming[p[1]], S)]
             Fold(g) == [s \in SUBSET (1 .. n) |->
                           IF s = {} THEN none
                           ELSE IF Superseded(incoming[Max(s)], S) THEN g[s \ {Max(s)}]
                                ELSE Append(g[s \ {Max(s)}], incoming[Max(s)])]
             f == CHOOSE g : g = Fold(g)
  <1>n. n \in Nat /\ DOMAIN incoming = 1 .. n /\ \A k \in 1 .. n : incoming[k] \in OriginRecords
    OBVIOUS
  <1>t. none \in T BY DEF IsNothing
  <1>e. \A t \in T, o \in OriginRecords : Filtered(t, o, S) \in T
    BY DEF Filtered
  <1>1. step \in [(1 .. n) \X T -> T]
    <2> HIDE DEF T, S, n
    <2> QED BY <1>n, <1>e
  <1>2. PICK g \in [SUBSET (1 .. n) -> T] : IsFold(g, n, none, step)
    <2> HIDE DEF step, n, T
    <2> QED BY <1>n, <1>1, <1>t, FoldFunctionExists
  <1> HIDE DEF T
  <1>3. g = Fold(g)
    <2>1. ASSUME NEW s \in SUBSET (1 .. n), s # {}
          PROVE  g[s] = Filtered(g[s \ {Max(s)}], incoming[Max(s)], S)
      <3>1. Max(s) \in 1 .. n BY <2>1, <1>n, MaxUpTo
      <3>2. g[s \ {Max(s)}] \in T BY <1>2
      <3> HIDE DEF S
      <3>3. QED BY <3>1, <3>2, <1>2, <2>1 DEF IsFold
    <2>2. g[{}] = none BY <1>2 DEF IsFold
    <2> HIDE DEF S
    <2>3. QED BY <2>1, <2>2, <1>2 DEF IsFold, Filtered
  <1>4. f = Fold(f)
    <2> HIDE DEF Fold
    <2> QED BY <1>3
  <1>5. DropSupersededOrigins(incoming) = f[1 .. n]
    BY <1>n DEF DropSupersededOrigins, FoldLeft, MapThenFoldSet, IsNothing
  <1> HIDE DEF f
  <1>6. f[{}] = none BY <1>4
  <1>7. \A k \in 1 .. n : f[1 .. k] = Filtered(f[1 .. k - 1], incoming[k], S)
    <2> TAKE k \in 1 .. n
    <2>1. /\ 1 .. k \in SUBSET (1 .. n) /\ 1 .. k # {} /\ Max(1 .. k) = k
          /\ (1 .. k) \ {k} = 1 .. k - 1
      BY <1>n, FirstIndices
    <2>2. QED BY <2>1, <1>4 DEF Filtered
  <1>8. \A k \in 1 .. n : f[1 .. k] = IF f[1 .. k - 1] \in T THEN step[<<k, f[1 .. k - 1]>>]
                                      ELSE f[1 .. k]
    BY <1>7
  <1>9. \A k \in 1 .. n, t \in T : <<k - 1, t>> \in Along => <<k, step[<<k, t>>]>> \in Along
    BY DEF T
  <1>10. f[1 .. n] \in T /\ <<n, f[1 .. n]>> \in Along
    <2> HIDE DEF step, n, S, Fold
    <2> QED BY <1>n, <1>1, <1>t, <1>6, <1>8, <1>9, FoldInduction
  <1>11. QED BY <1>5, <1>10 DEF T

(* A normalised origin is one, of the same kind and place, and stays as it is
   when it is normalised again. *)
LEMMA NormalizedStays ==
    ASSUME NEW o \in OriginRecords
    PROVE  LET m == NormalizedOrigin(o)
           IN /\ m \in OriginRecords
              /\ m.kind = o.kind /\ m.place = o.place
              /\ NormalizedOrigin(m) = m
  <1> DEFINE none == ""
             revision == IF o.kind = "repository" /\ o.revision # "invalid" THEN o.revision ELSE none
             m == NormalizedOrigin(o)
  <1>0. none \in STRING BY WitnessAssumption DEF NoValue
  <1>1. m = [o EXCEPT !.revision = revision] BY DEF NormalizedOrigin
  <1>2. revision = o.revision \/ revision = none OBVIOUS
  <1>3. o.kind = "repository" /\ revision # "invalid" => revision = revision OBVIOUS
  <1>4. (IF o.kind = "repository" /\ revision # "invalid" THEN revision ELSE none) = revision
    OBVIOUS
  <1>n. \A x : NormalizedOrigin(x) = [x EXCEPT !.revision =
                 IF x.kind = "repository" /\ x.revision # "invalid" THEN x.revision ELSE none]
    BY DEF NormalizedOrigin
  <1>5. revision \in STRING BY <1>0, <1>2 DEF OriginRecords
  <1> HIDE DEF none, revision, m
  <1>6. m \in OriginRecords /\ m.kind = o.kind /\ m.place = o.place /\ m.revision = revision
    BY <1>1, <1>5 DEF OriginRecords
  <1>7. NormalizedOrigin(m) = [m EXCEPT !.revision = revision]
    BY <1>n, <1>4, <1>6
  <1>8. [m EXCEPT !.revision = revision] = m
    BY <1>6 DEF OriginRecords
  <1>9. QED BY <1>6, <1>7, <1>8 DEF m

(* What a sequence of origins publishes. *)
LEMMA PublishableType ==
    ASSUME NEW s \in Seq(OriginRecords)
    PROVE  /\ PublishableOrigins(s) \subseteq OriginRecords
           /\ \A o : o \in PublishableOrigins(s) <=>
                 /\ o.kind # "unpublishable"
                 /\ \E i \in 1 .. Len(s) : o = NormalizedOrigin(s[i])
           /\ \A o \in PublishableOrigins(s) : NormalizedOrigin(o) = o
  <1> DEFINE n == Len(s)
  <1>1. n \in Nat /\ DOMAIN s = 1 .. n /\ \A i \in 1 .. n : s[i] \in OriginRecords OBVIOUS
  <1>2. \A x : x \in Range(s) <=> \E i \in 1 .. n : x = s[i] BY <1>1 DEF Range
  <1>3. \A i \in 1 .. n : NormalizedOrigin(s[i]) \in OriginRecords
                         /\ NormalizedOrigin(NormalizedOrigin(s[i])) = NormalizedOrigin(s[i])
    BY <1>1, NormalizedStays
  <1>4. \A o : o \in PublishableOrigins(s) <=>
                 /\ o.kind # "unpublishable"
                 /\ \E i \in 1 .. n : o = NormalizedOrigin(s[i])
    BY <1>2 DEF PublishableOrigins
  <1> HIDE DEF n
  <1>5. QED BY <1>3, <1>4 DEF n

(* Where a sequence first states an origin that it states at all. *)
LEMMA FirstStatedIs ==
    ASSUME NEW s \in Seq(OriginRecords), NEW o, NEW i \in 1 .. Len(s), NormalizedOrigin(s[i]) = o
    PROVE  /\ FirstStated(s, o) \in 1 .. Len(s) /\ FirstStated(s, o) <= i
           /\ NormalizedOrigin(s[FirstStated(s, o)]) = o
           /\ \A j \in 1 .. Len(s) : NormalizedOrigin(s[j]) = o => FirstStated(s, o) <= j
  <1> DEFINE at == {j \in DOMAIN s : NormalizedOrigin(s[j]) = o}
  <1>1. at \subseteq Nat /\ i \in at OBVIOUS
  <1>2. \A j : j \in at <=> j \in 1 .. Len(s) /\ NormalizedOrigin(s[j]) = o OBVIOUS
  <1>3. FirstStated(s, o) = Min(at) BY DEF FirstStated
  <1> HIDE DEF at
  <1>4. Min(at) \in at /\ \A j \in at : Min(at) <= j BY <1>1, MinOfNaturals
  <1>5. QED BY <1>1, <1>2, <1>3, <1>4

(* A sequence has its members in the order in which s first states them. *)
InOrderOf(list, s) ==
    \A i, j \in DOMAIN list : i < j => FirstStated(s, list[i]) < FirstStated(s, list[j])

(* The first pass keeps what is publishable, once, where it was first stated. *)
LEMMA FirstPass ==
    ASSUME NEW s \in Seq(OriginRecords)
    PROVE  LET merged == FoldLeft(MergeOrigin, << >>, s)
           IN /\ merged \in Seq(OriginRecords)
              /\ Range(merged) = PublishableOrigins(s)
              /\ InOrderOf(merged, s)
  <1> DEFINE none == << >>
             T == Seq(OriginRecords)
             n == Len(s)
             N(i) == NormalizedOrigin(s[i])
             Upto(k) == {o \in {N(i) : i \in 1 .. k} : o.kind # "unpublishable"}
             Good(k, t) == k <= n => Range(t) = Upto(k) /\ InOrderOf(t, s)
             Along == {p \in Nat \X T : Good(p[1], p[2])}
  <1>n. n \in Nat /\ DOMAIN s = 1 .. n /\ \A k \in 1 .. n : s[k] \in OriginRecords /\ N(k) \in OriginRecords
    BY NormalizedStays
  <1>0. none \in T /\ DOMAIN none = {} /\ Range(none) = {} BY DEF Range
  <1>1. \A t \in T, c \in OriginRecords : MergeOrigin(t, c) \in T
    BY NormalizedStays DEF MergeOrigin
  <1>2. <<0, none>> \in Along
    <2>1. Upto(0) = {} OBVIOUS
    <2> HIDE DEF Upto, none, T
    <2>2. InOrderOf(none, s) BY <1>0 DEF InOrderOf
    <2>3. Good(0, none) BY <2>1, <2>2, <1>0
    <2> HIDE DEF Good
    <2>4. QED BY <2>3, <1>0
  <1>3. \A k \in 1 .. n, t \in T : <<k - 1, t>> \in Along => <<k, MergeOrigin(t, s[k])>> \in Along
    <2> SUFFICES ASSUME NEW k \in 1 .. n, NEW t \in T, <<k - 1, t>> \in Along
                 PROVE  <<k, MergeOrigin(t, s[k])>> \in Along
      OBVIOUS
    <2> DEFINE o == N(k)
               m == MergeOrigin(t, s[k])
    <2>1. k \in Nat /\ k - 1 \in Nat /\ k <= n /\ k - 1 <= n BY <1>n
    <2>2. Good(k - 1, t)
      <3> HIDE DEF Good
      <3> QED OBVIOUS
    <2>3. Range(t) = Upto(k - 1) /\ InOrderOf(t, s) BY <2>1, <2>2
    <2>4. \A i : i \in 1 .. k <=> i \in 1 .. k - 1 \/ i = k BY <2>1
    <2>5. Upto(k) = Upto(k - 1) \cup {x \in {o} : x.kind # "unpublishable"} BY <2>4
    <2>6. o \in OriginRecords /\ m \in T BY <1>n, <1>1
    <2>7. CASE o.kind = "unpublishable" \/ o \in Range(t)
      <3>1. m = t BY <2>7 DEF MergeOrigin
      <3>2. Upto(k) = Upto(k - 1) BY <2>3, <2>5, <2>7
      <3>3. Good(k, m) BY <3>1, <3>2, <2>3
      <3> HIDE DEF Good, m
      <3>4. <<k, m>> \in Along BY <3>3, <2>1, <2>6
      <3>5. QED BY <3>4 DEF m
    <2>8. CASE ~(o.kind = "unpublishable" \/ o \in Range(t))
      <3>1. m = Append(t, o) BY <2>8 DEF MergeOrigin
      <3>2. Range(m) = Range(t) \cup {o} BY <3>1, <2>6, RangeOfAppend
      <3>3. Upto(k) = Upto(k - 1) \cup {o} BY <2>5, <2>8
      <3>4. FirstStated(s, o) = k
        <4>1. FirstStated(s, o) \in 1 .. n /\ FirstStated(s, o) <= k /\ N(FirstStated(s, o)) = o
          BY <1>n, FirstStatedIs
        <4>2. ASSUME FirstStated(s, o) # k PROVE FALSE
          <5>1. FirstStated(s, o) \in 1 .. k - 1 BY <4>1, <4>2, <2>1, <1>n
          <5>2. o \in Upto(k - 1) BY <5>1, <4>1, <2>8
          <5>3. QED BY <5>2, <2>3, <2>8
        <4>3. QED BY <4>2
      <3>5. \A x \in Range(t) : FirstStated(s, x) \in Nat /\ FirstStated(s, x) < k
        <4> TAKE x \in Range(t)
        <4>1. PICK i \in 1 .. k - 1 : x = N(i) BY <2>3
        <4>2. i \in 1 .. n /\ i < k BY <4>1, <2>1, <1>n
        <4>3. FirstStated(s, x) \in 1 .. n /\ FirstStated(s, x) <= i BY <4>1, <4>2, <1>n, FirstStatedIs
        <4>4. QED BY <4>2, <4>3, <1>n
      <3>6. InOrderOf(m, s)
        <4> DEFINE l == Len(t)
        <4>1. /\ l \in Nat /\ DOMAIN t = 1 .. l /\ DOMAIN m = 1 .. l + 1
              /\ \A i \in 1 .. l : m[i] = t[i]
              /\ m[l + 1] = o
          BY <3>1, <2>6
        <4> HIDE DEF l, m
        <4> SUFFICES ASSUME NEW i \in 1 .. l + 1, NEW j \in 1 .. l + 1, i < j
                     PROVE  FirstStated(s, m[i]) < FirstStated(s, m[j])
          BY <4>1 DEF InOrderOf
        <4>2. i \in 1 .. l /\ (j \in 1 .. l \/ j = l + 1) BY <4>1
        <4>3. CASE j \in 1 .. l BY <4>1, <4>2, <4>3, <2>3 DEF InOrderOf
        <4>4. CASE j = l + 1
          <5>1. t[i] \in Range(t) BY <4>1, <4>2 DEF Range
          <5>2. QED BY <5>1, <4>1, <4>2, <4>4, <3>4, <3>5
        <4>5. QED BY <4>2, <4>3, <4>4
      <3>7. Good(k, m) BY <3>2, <3>3, <3>6, <2>3
      <3> HIDE DEF Good, m
      <3>8. <<k, m>> \in Along BY <3>7, <2>1, <2>6
      <3>9. QED BY <3>8 DEF m
    <2>9. QED BY <2>7, <2>8
  <1> DEFINE merged == FoldLeft(MergeOrigin, none, s)
  <1>4. merged \in T /\ <<n, merged>> \in Along
    <2> HIDE DEF Along, T, none
    <2>1. n = Len(s) OBVIOUS
    <2>2. s \in Seq(OriginRecords) OBVIOUS
    <2> HIDE DEF n
    <2>3. QED BY <1>0, <1>1, <1>2, <1>3, <2>1, <2>2, MergeOriginsInduction
  <1>5. Good(n, merged)
    <2> HIDE DEF Good, merged
    <2> QED BY <1>4
  <1>6. Upto(n) = PublishableOrigins(s)
    <2>1. \A x : x \in Upto(n) <=> x.kind # "unpublishable" /\ \E i \in 1 .. n : x = N(i) OBVIOUS
    <2> HIDE DEF Upto
    <2>2. QED BY <2>1, PublishableType
  <1>7. Range(merged) = PublishableOrigins(s) /\ InOrderOf(merged, s)
    <2> HIDE DEF merged, Upto
    <2> QED BY <1>5, <1>6, <1>n
  <1> HIDE DEF Good, Along
  <1>8. QED BY <1>4, <1>7

(* The second pass keeps what stands, in the order it was in. *)
LEMMA SecondPass ==
    ASSUME NEW list \in Seq(OriginRecords), NEW s, InOrderOf(list, s)
    PROVE  LET kept == DropSupersededOrigins(list)
           IN /\ kept \in Seq(OriginRecords)
              /\ Range(kept) = Standing(Range(list))
              /\ InOrderOf(kept, s)
  <1> DEFINE none == << >>
             T == Seq(OriginRecords)
             n == Len(list)
             S == Range(list)
             Upto(k) == {o \in {list[i] : i \in 1 .. k} : ~Superseded(o, S)}
             Good(k, t) == k <= n => Range(t) = Upto(k) /\ InOrderOf(t, s)
             Along == {p \in Nat \X T : Good(p[1], p[2])}
  <1>n. n \in Nat /\ DOMAIN list = 1 .. n /\ \A k \in 1 .. n : list[k] \in OriginRecords
    OBVIOUS
  <1>0. none \in T /\ DOMAIN none = {} /\ Range(none) = {} /\ IsNothing(none) BY DEF Range, IsNothing
  <1>2. <<0, none>> \in Along
    <2>1. Upto(0) = {} OBVIOUS
    <2> HIDE DEF Upto, none, T
    <2>2. InOrderOf(none, s) BY <1>0 DEF InOrderOf
    <2>3. Good(0, none) BY <2>1, <2>2, <1>0
    <2> HIDE DEF Good
    <2>4. QED BY <2>3, <1>0
  <1>3. \A k \in 1 .. n, t \in T : <<k - 1, t>> \in Along => <<k, Filtered(t, list[k], S)>> \in Along
    <2> SUFFICES ASSUME NEW k \in 1 .. n, NEW t \in T, <<k - 1, t>> \in Along
                 PROVE  <<k, Filtered(t, list[k], S)>> \in Along
      OBVIOUS
    <2> HIDE DEF S
    <2> DEFINE o == list[k]
               m == Filtered(t, o, S)
    <2>1. k \in Nat /\ k - 1 \in Nat /\ k <= n /\ k - 1 <= n BY <1>n
    <2>2. Good(k - 1, t)
      <3> HIDE DEF Good
      <3> QED OBVIOUS
    <2>3. Range(t) = Upto(k - 1) /\ InOrderOf(t, s) BY <2>1, <2>2
    <2>4. \A i : i \in 1 .. k <=> i \in 1 .. k - 1 \/ i = k BY <2>1
    <2>5. Upto(k) = Upto(k - 1) \cup {x \in {o} : ~Superseded(x, S)} BY <2>4
    <2>6. o \in OriginRecords /\ m \in T BY <1>n DEF Filtered
    <2>7. CASE Superseded(o, S)
      <3>1. m = t BY <2>7 DEF Filtered
      <3>2. Upto(k) = Upto(k - 1) BY <2>5, <2>7
      <3>3. Good(k, m) BY <3>1, <3>2, <2>3
      <3> HIDE DEF Good, m
      <3>4. <<k, m>> \in Along BY <3>3, <2>1, <2>6
      <3>5. QED BY <3>4 DEF m
    <2>8. CASE ~Superseded(o, S)
      <3>1. m = Append(t, o) BY <2>8 DEF Filtered
      <3>2. Range(m) = Range(t) \cup {o} BY <3>1, <2>6, RangeOfAppend
      <3>3. Upto(k) = Upto(k - 1) \cup {o} BY <2>5, <2>8
      <3>5. \A x \in Range(t) : FirstStated(s, x) < FirstStated(s, o)
        <4> TAKE x \in Range(t)
        <4>1. PICK i \in 1 .. k - 1 : x = list[i] BY <2>3
        <4>2. i \in 1 .. n /\ i < k BY <4>1, <2>1, <1>n
        <4>3. QED BY <4>1, <4>2, <1>n DEF InOrderOf
      <3>6. InOrderOf(m, s)
        <4> DEFINE l == Len(t)
        <4>1. /\ l \in Nat /\ DOMAIN t = 1 .. l /\ DOMAIN m = 1 .. l + 1
              /\ \A i \in 1 .. l : m[i] = t[i]
              /\ m[l + 1] = o
          BY <3>1, <2>6
        <4> HIDE DEF l, m, o
        <4> SUFFICES ASSUME NEW i \in 1 .. l + 1, NEW j \in 1 .. l + 1, i < j
                     PROVE  FirstStated(s, m[i]) < FirstStated(s, m[j])
          BY <4>1 DEF InOrderOf
        <4>2. i \in 1 .. l /\ (j \in 1 .. l \/ j = l + 1) BY <4>1
        <4>3. CASE j \in 1 .. l BY <4>1, <4>2, <4>3, <2>3 DEF InOrderOf
        <4>4. CASE j = l + 1
          <5>1. t[i] \in Range(t) BY <4>1, <4>2 DEF Range
          <5>2. QED BY <5>1, <4>1, <4>2, <4>4, <3>5
        <4>5. QED BY <4>2, <4>3, <4>4
      <3>7. Good(k, m) BY <3>2, <3>3, <3>6, <2>3
      <3> HIDE DEF Good, m
      <3>8. <<k, m>> \in Along BY <3>7, <2>1, <2>6
      <3>9. QED BY <3>8 DEF m
    <2>9. QED BY <2>7, <2>8
  <1> DEFINE kept == DropSupersededOrigins(list)
  <1>4. kept \in T /\ <<n, kept>> \in Along
    <2> HIDE DEF Along, none
    <2>3. QED BY <1>0, <1>2, <1>3, DropInduction
  <1>5. Good(n, kept)
    <2> HIDE DEF Good, kept
    <2> QED BY <1>4
  <1>6. Upto(n) = Standing(Range(list)) BY <1>n DEF Standing, Range
  <1>7. Range(kept) = Standing(Range(list)) /\ InOrderOf(kept, s)
    <2> HIDE DEF kept, Upto
    <2> QED BY <1>5, <1>6, <1>n
  <1> HIDE DEF Good, Along
  <1>8. QED BY <1>4, <1>7

(* What merged origins are: those that stand, in the order first stated. *)
LEMMA MergedOrigins ==
    ASSUME NEW a \in Seq(OriginRecords), NEW b \in Seq(OriginRecords)
    PROVE  LET merged == MergeOrigins(a, b)
           IN /\ merged \in Seq(OriginRecords)
              /\ Range(merged) = Standing(PublishableOrigins(a \o b))
              /\ InOrderOf(merged, a \o b)
  <1> DEFINE s == a \o b
             once == FoldLeft(MergeOrigin, << >>, s)
  <1>1. s \in Seq(OriginRecords) OBVIOUS
  <1>2. MergeOrigins(a, b) = DropSupersededOrigins(once) BY DEF MergeOrigins
  <1> HIDE DEF s
  <1>3. /\ once \in Seq(OriginRecords)
        /\ Range(once) = PublishableOrigins(s)
        /\ InOrderOf(once, s)
    BY <1>1, FirstPass
  <1> HIDE DEF once
  <1>4. QED BY <1>2, <1>3, SecondPass DEF s

(* What stands in a union is what stands in the union of what stands. *)
LEMMA StandingOfUnion ==
    ASSUME NEW S, NEW T
    PROVE  /\ Standing(S \cup T) = Standing(Standing(S) \cup Standing(T))
           /\ Standing(Standing(S)) = Standing(S)
           /\ Standing(S) \subseteq S
           /\ Standing(S \cup T) \cap S \subseteq Standing(S)
           /\ Standing(S \cup T) \cap T \subseteq Standing(T)
  <1> DEFINE none == ""
  <1>1. \A o, U : Superseded(o, U) <=>
           o.kind = "repository" /\ o.revision = none
             /\ \E p \in U : p.kind = "repository" /\ p.place = o.place /\ p.revision # none
    BY DEF Superseded
  <1> HIDE DEF none
  <1>2. \A U : \A p \in U : p.revision # none => p \in Standing(U) BY <1>1 DEF Standing
  <1>3. \A U : \A o : Superseded(o, U) <=> Superseded(o, Standing(U))
    <2>1. \A U : Standing(U) \subseteq U BY DEF Standing
    <2>2. QED BY <1>1, <1>2, <2>1
  <1>4. \A o : Superseded(o, S \cup T) <=> Superseded(o, S) \/ Superseded(o, T) BY <1>1
  <1>5. \A o : Superseded(o, Standing(S) \cup Standing(T)) <=>
                 Superseded(o, Standing(S)) \/ Superseded(o, Standing(T)) BY <1>1
  <1>6. \A o : Superseded(o, Standing(S) \cup Standing(T)) <=> Superseded(o, S \cup T)
    BY <1>3, <1>4, <1>5
  <1>7. Standing(S \cup T) = Standing(Standing(S) \cup Standing(T))
    BY <1>4, <1>6 DEF Standing
  <1>8. Standing(Standing(S)) = Standing(S) BY <1>3 DEF Standing
  <1>9. QED BY <1>4, <1>7, <1>8 DEF Standing

(* Two sequences of origins tell the same: the same ones stand, and they were
   first stated in the same order. *)
Retells(x, s) ==
    /\ Standing(PublishableOrigins(x)) = Standing(PublishableOrigins(s))
    /\ \A o, p \in Standing(PublishableOrigins(s)) :
          FirstStated(x, o) < FirstStated(x, p) <=> FirstStated(s, o) < FirstStated(s, p)

(* Merged origins tell what those they were merged from do. *)
LEMMA MergedRetells ==
    ASSUME NEW a \in Seq(OriginRecords), NEW b \in Seq(OriginRecords)
    PROVE  Retells(MergeOrigins(a, b), a \o b)
  <1> DEFINE s == a \o b
             m == MergeOrigins(a, b)
             n == Len(m)
             K == Standing(PublishableOrigins(s))
  <1>1. s \in Seq(OriginRecords) OBVIOUS
  <1>2. m \in Seq(OriginRecords) /\ Range(m) = K /\ InOrderOf(m, s) BY MergedOrigins
  <1> HIDE DEF s, m
  <1>3. n \in Nat /\ DOMAIN m = 1 .. n /\ \A x : x \in K <=> \E i \in 1 .. n : x = m[i]
    BY <1>2 DEF Range
  <1> HIDE DEF n
  <1>4. \A o \in K : o.kind # "unpublishable" /\ NormalizedOrigin(o) = o
                    /\ FirstStated(s, o) \in Nat
    <2> TAKE o \in K
    <2>1. o \in PublishableOrigins(s) BY DEF Standing
    <2>2. o.kind # "unpublishable" /\ NormalizedOrigin(o) = o
          /\ \E i \in 1 .. Len(s) : o = NormalizedOrigin(s[i])
      BY <2>1, <1>1, PublishableType
    <2>3. PICK i \in 1 .. Len(s) : NormalizedOrigin(s[i]) = o BY <2>2
    <2>4. FirstStated(s, o) \in 1 .. Len(s) BY <2>3, <1>1, FirstStatedIs
    <2>5. QED BY <2>2, <2>4
  <1> HIDE DEF K
  <1>5. \A i \in 1 .. n : m[i] \in K /\ NormalizedOrigin(m[i]) = m[i] /\ m[i].kind # "unpublishable"
    BY <1>3, <1>4
  <1>6. PublishableOrigins(m) = K
    <2>1. \A o : o \in PublishableOrigins(m) <=>
                 o.kind # "unpublishable" /\ \E i \in 1 .. n : o = NormalizedOrigin(m[i])
      BY <1>2, PublishableType DEF n
    <2>2. ASSUME NEW o \in K PROVE o \in PublishableOrigins(m)
      <3>1. PICK i \in 1 .. n : o = m[i] BY <1>3
      <3>2. o = NormalizedOrigin(m[i]) /\ o.kind # "unpublishable" BY <3>1, <1>5
      <3>3. QED BY <3>2, <2>1
    <2>3. ASSUME NEW o \in PublishableOrigins(m) PROVE o \in K
      <3>1. PICK i \in 1 .. n : o = NormalizedOrigin(m[i]) BY <2>1
      <3>2. QED BY <3>1, <1>5
    <2>4. QED BY <2>2, <2>3
  <1>7. Standing(PublishableOrigins(m)) = K BY <1>6, StandingOfUnion DEF K
  <1>8. \A i, j \in 1 .. n : i < j => FirstStated(s, m[i]) < FirstStated(s, m[j])
    BY <1>2, <1>3 DEF InOrderOf
  <1>9. \A i, j \in 1 .. n : m[i] = m[j] => i = j
    <2> SUFFICES ASSUME NEW i \in 1 .. n, NEW j \in 1 .. n, m[i] = m[j], i < j PROVE FALSE
      BY <1>3
    <2>1. FirstStated(s, m[i]) < FirstStated(s, m[i]) BY <1>8
    <2>2. FirstStated(s, m[i]) \in Nat BY <1>4, <1>5
    <2>3. QED BY <2>1, <2>2
  <1>10. \A i \in 1 .. n : FirstStated(m, m[i]) = i
    <2> TAKE i \in 1 .. n
    <2>1. FirstStated(m, m[i]) \in 1 .. n /\ NormalizedOrigin(m[FirstStated(m, m[i])]) = m[i]
      BY <1>2, <1>5, FirstStatedIs DEF n
    <2>2. m[FirstStated(m, m[i])] = m[i] BY <2>1, <1>5
    <2>3. QED BY <2>1, <2>2, <1>9
  <1>11. ASSUME NEW o \in K, NEW p \in K
         PROVE  FirstStated(m, o) < FirstStated(m, p) <=> FirstStated(s, o) < FirstStated(s, p)
    <2>1. PICK i \in 1 .. n : o = m[i] BY <1>3
    <2>2. PICK j \in 1 .. n : p = m[j] BY <1>3
    <2>3. FirstStated(m, o) = i /\ FirstStated(m, p) = j BY <2>1, <2>2, <1>10
    <2>4. FirstStated(s, o) \in Nat /\ FirstStated(s, p) \in Nat BY <1>4
    <2>5. CASE i < j BY <2>5, <2>3, <2>1, <2>2, <1>8
    <2>6. CASE j < i
      <3>1. FirstStated(s, p) < FirstStated(s, o) BY <2>6, <2>1, <2>2, <1>8
      <3>2. QED BY <3>1, <2>3, <2>4, <2>6
    <2>7. CASE i = j BY <2>7, <2>1, <2>2, <2>3, <2>4
    <2>8. QED BY <2>5, <2>6, <2>7, <1>3
  <1>12. QED BY <1>7, <1>11 DEF Retells, K, s, m

(* What is published of two sequences joined, and where it is first stated. *)
LEMMA OriginsOfJoin ==
    ASSUME NEW x \in Seq(OriginRecords), NEW y \in Seq(OriginRecords)
    PROVE  /\ PublishableOrigins(x \o y) = PublishableOrigins(x) \cup PublishableOrigins(y)
           /\ \A o \in PublishableOrigins(x) :
                 /\ FirstStated(x \o y, o) = FirstStated(x, o)
                 /\ FirstStated(x, o) \in 1 .. Len(x)
           /\ \A o \in PublishableOrigins(y) \ PublishableOrigins(x) :
                 /\ FirstStated(x \o y, o) = Len(x) + FirstStated(y, o)
                 /\ FirstStated(y, o) \in 1 .. Len(y)
  <1> DEFINE u == x \o y
             n == Len(x)
             m == Len(y)
  <1>1. /\ n \in Nat /\ m \in Nat /\ u \in Seq(OriginRecords) /\ Len(u) = n + m
        /\ \A i \in 1 .. n : u[i] = x[i]
        /\ \A i \in 1 .. m : u[n + i] = y[i]
    OBVIOUS
  <1>x. \A o : o \in PublishableOrigins(x) <=>
           o.kind # "unpublishable" /\ \E i \in 1 .. n : o = NormalizedOrigin(x[i])
    BY PublishableType
  <1>y. \A o : o \in PublishableOrigins(y) <=>
           o.kind # "unpublishable" /\ \E i \in 1 .. m : o = NormalizedOrigin(y[i])
    BY PublishableType
  <1> HIDE DEF u
  <1>u. \A o : o \in PublishableOrigins(u) <=>
           o.kind # "unpublishable" /\ \E i \in 1 .. Len(u) : o = NormalizedOrigin(u[i])
    BY <1>1, PublishableType
  <1>fx. ASSUME NEW o, NEW i \in 1 .. n, NormalizedOrigin(x[i]) = o
         PROVE  /\ FirstStated(x, o) \in 1 .. n
                /\ NormalizedOrigin(x[FirstStated(x, o)]) = o
                /\ \A j \in 1 .. n : NormalizedOrigin(x[j]) = o => FirstStated(x, o) <= j
    BY <1>fx, FirstStatedIs
  <1>fy. ASSUME NEW o, NEW i \in 1 .. m, NormalizedOrigin(y[i]) = o
         PROVE  /\ FirstStated(y, o) \in 1 .. m
                /\ NormalizedOrigin(y[FirstStated(y, o)]) = o
                /\ \A j \in 1 .. m : NormalizedOrigin(y[j]) = o => FirstStated(y, o) <= j
    BY <1>fy, FirstStatedIs
  <1>fu. ASSUME NEW o, NEW i \in 1 .. Len(u), NormalizedOrigin(u[i]) = o
         PROVE  /\ FirstStated(u, o) \in 1 .. Len(u)
                /\ NormalizedOrigin(u[FirstStated(u, o)]) = o
                /\ \A j \in 1 .. Len(u) : NormalizedOrigin(u[j]) = o => FirstStated(u, o) <= j
    BY <1>fu, <1>1, FirstStatedIs
  <1> HIDE DEF n, m
  <1>2. \A i \in 1 .. n + m : i \in 1 .. n \/ (i - n \in 1 .. m /\ n + (i - n) = i) BY <1>1
  <1>3. (\A i \in 1 .. n : i \in 1 .. n + m) /\ (\A i \in 1 .. m : n + i \in 1 .. n + m) BY <1>1
  <1>4. PublishableOrigins(u) = PublishableOrigins(x) \cup PublishableOrigins(y)
    <2>1. ASSUME NEW o, NEW i \in 1 .. n + m, o = NormalizedOrigin(u[i]), o.kind # "unpublishable"
          PROVE  o \in PublishableOrigins(x) \cup PublishableOrigins(y)
      <3>1. CASE i \in 1 .. n BY <3>1, <2>1, <1>1, <1>x
      <3>2. CASE i - n \in 1 .. m /\ n + (i - n) = i
        <4>1. u[i] = y[i - n] BY <3>2, <1>1
        <4>2. QED BY <4>1, <3>2, <2>1, <1>y
      <3>3. QED BY <3>1, <3>2, <1>2
    <2>2. \A o \in PublishableOrigins(u) : o \in PublishableOrigins(x) \cup PublishableOrigins(y)
      BY <2>1, <1>u, <1>1
    <2>3. \A o \in PublishableOrigins(x) : o \in PublishableOrigins(u)
      BY <1>x, <1>u, <1>1, <1>3
    <2>4. \A o \in PublishableOrigins(y) : o \in PublishableOrigins(u)
      <3> TAKE o \in PublishableOrigins(y)
      <3>1. PICK i \in 1 .. m : o = NormalizedOrigin(y[i]) BY <1>y
      <3>2. n + i \in 1 .. Len(u) /\ o = NormalizedOrigin(u[n + i]) BY <3>1, <1>1, <1>3
      <3>3. QED BY <3>2, <1>y, <1>u
    <2>5. QED BY <2>2, <2>3, <2>4
  <1>5. ASSUME NEW o \in PublishableOrigins(x)
        PROVE  FirstStated(u, o) = FirstStated(x, o) /\ FirstStated(x, o) \in 1 .. n
    <2> DEFINE a == FirstStated(x, o)
               b == FirstStated(u, o)
    <2>1. PICK i \in 1 .. n : o = NormalizedOrigin(x[i]) BY <1>x
    <2>2. /\ a \in 1 .. n /\ NormalizedOrigin(x[a]) = o
          /\ \A j \in 1 .. n : NormalizedOrigin(x[j]) = o => a <= j
      BY <2>1, <1>fx
    <2> HIDE DEF a
    <2>3. a \in 1 .. Len(u) /\ NormalizedOrigin(u[a]) = o BY <2>2, <1>1, <1>3
    <2>4. /\ b \in 1 .. Len(u) /\ b <= a /\ NormalizedOrigin(u[b]) = o
      BY <2>3, <1>fu
    <2> HIDE DEF b
    <2>5. b \in 1 .. n BY <2>2, <2>4, <1>1
    <2>6. a <= b BY <2>5, <2>4, <2>2, <1>1
    <2>7. QED BY <2>2, <2>4, <2>5, <2>6, <1>1 DEF a, b
  <1>6. ASSUME NEW o \in PublishableOrigins(y) \ PublishableOrigins(x)
        PROVE  FirstStated(u, o) = n + FirstStated(y, o) /\ FirstStated(y, o) \in 1 .. m
    <2> DEFINE a == FirstStated(y, o)
               b == FirstStated(u, o)
    <2>1. PICK i \in 1 .. m : o = NormalizedOrigin(y[i]) BY <1>y
    <2>2. /\ a \in 1 .. m /\ NormalizedOrigin(y[a]) = o
          /\ \A j \in 1 .. m : NormalizedOrigin(y[j]) = o => a <= j
      BY <2>1, <1>fy
    <2> HIDE DEF a
    <2>3. n + a \in 1 .. Len(u) /\ NormalizedOrigin(u[n + a]) = o BY <2>2, <1>1, <1>3
    <2>4. /\ b \in 1 .. Len(u) /\ b <= n + a /\ NormalizedOrigin(u[b]) = o
      BY <2>3, <1>fu
    <2> HIDE DEF b
    <2>5. b \notin 1 .. n BY <2>4, <1>1, <1>x, <1>y, <1>6
    <2>6. b - n \in 1 .. m /\ n + (b - n) = b BY <2>4, <2>5, <1>1, <1>2
    <2>7. u[b] = y[b - n] BY <2>6, <1>1
    <2>8. a <= b - n BY <2>2, <2>4, <2>6, <2>7
    <2>9. b = n + a BY <2>2, <2>4, <2>6, <2>8, <1>1
    <2>10. QED BY <2>2, <2>9 DEF a, b
  <1>7. QED BY <1>4, <1>5, <1>6 DEF u, n, m

(* Joined, two retellings retell what they retold, joined. *)
LEMMA JoinRetells ==
    ASSUME NEW x \in Seq(OriginRecords), NEW s \in Seq(OriginRecords), Retells(x, s),
           NEW y \in Seq(OriginRecords), NEW t \in Seq(OriginRecords), Retells(y, t)
    PROVE  Retells(x \o y, s \o t)
  <1> DEFINE X == PublishableOrigins(x)
             S == PublishableOrigins(s)
             Y == PublishableOrigins(y)
             T == PublishableOrigins(t)
             K == Standing(S \cup T)
             A(o) == FirstStated(x \o y, o)
             B(o) == FirstStated(s \o t, o)
  <1>1. /\ Standing(X) = Standing(S)
        /\ \A o, p \in Standing(S) : FirstStated(x, o) < FirstStated(x, p) <=> FirstStated(s, o) < FirstStated(s, p)
        /\ Standing(Y) = Standing(T)
        /\ \A o, p \in Standing(T) : FirstStated(y, o) < FirstStated(y, p) <=> FirstStated(t, o) < FirstStated(t, p)
    BY DEF Retells
  <1>2. PublishableOrigins(x \o y) = X \cup Y /\ PublishableOrigins(s \o t) = S \cup T
    BY OriginsOfJoin
  <1>3. /\ \A o \in X : A(o) = FirstStated(x, o) /\ FirstStated(x, o) \in 1 .. Len(x)
        /\ \A o \in Y \ X : A(o) = Len(x) + FirstStated(y, o) /\ FirstStated(y, o) \in 1 .. Len(y)
        /\ \A o \in S : B(o) = FirstStated(s, o) /\ FirstStated(s, o) \in 1 .. Len(s)
        /\ \A o \in T \ S : B(o) = Len(s) + FirstStated(t, o) /\ FirstStated(t, o) \in 1 .. Len(t)
    BY OriginsOfJoin
  <1>4. Len(x) \in Nat /\ Len(y) \in Nat /\ Len(s) \in Nat /\ Len(t) \in Nat OBVIOUS
  <1> HIDE DEF X, Y, S, T, A, B
  <1>5. Standing(X \cup Y) = K
    <2>1. Standing(X \cup Y) = Standing(Standing(X) \cup Standing(Y)) BY StandingOfUnion
    <2>2. Standing(S \cup T) = Standing(Standing(S) \cup Standing(T)) BY StandingOfUnion
    <2>3. QED BY <2>1, <2>2, <1>1
  <1>6. /\ K \cap X \subseteq Standing(S) /\ K \cap S \subseteq Standing(S)
        /\ K \cap Y \subseteq Standing(T) /\ K \cap T \subseteq Standing(T)
        /\ K \subseteq S \cup T
        /\ Standing(S) \subseteq S /\ Standing(S) \subseteq X
        /\ Standing(T) \subseteq T /\ Standing(T) \subseteq Y
    <2>1. Standing(X \cup Y) \cap X \subseteq Standing(X) /\ Standing(X \cup Y) \cap Y \subseteq Standing(Y)
          /\ Standing(X) \subseteq X /\ Standing(Y) \subseteq Y
      BY StandingOfUnion
    <2>2. Standing(S \cup T) \cap S \subseteq Standing(S) /\ Standing(S \cup T) \cap T \subseteq Standing(T)
          /\ Standing(S) \subseteq S /\ Standing(T) \subseteq T
      BY StandingOfUnion
    <2>3. K \subseteq S \cup T BY DEF Standing
    <2>4. QED BY <2>1, <2>2, <2>3, <1>1, <1>5
  <1> HIDE DEF K
  <1>7. \A o \in K : \/ o \in X /\ o \in S /\ o \in Standing(S)
                     \/ o \in Y \ X /\ o \in T \ S /\ o \in Standing(T)
    BY <1>6
  <1>8. ASSUME NEW o \in K, NEW p \in K PROVE A(o) < A(p) <=> B(o) < B(p)
    <2>1. CASE o \in X /\ o \in S /\ o \in Standing(S) /\ p \in X /\ p \in S /\ p \in Standing(S)
      BY <2>1, <1>1, <1>3
    <2>2. CASE o \in X /\ o \in S /\ p \in Y \ X /\ p \in T \ S
      <3>1. /\ A(o) \in 1 .. Len(x) /\ A(p) = Len(x) + FirstStated(y, p) /\ FirstStated(y, p) \in 1 .. Len(y)
            /\ B(o) \in 1 .. Len(s) /\ B(p) = Len(s) + FirstStated(t, p) /\ FirstStated(t, p) \in 1 .. Len(t)
        BY <2>2, <1>3
      <3>2. QED BY <3>1, <1>4
    <2>3. CASE p \in X /\ p \in S /\ o \in Y \ X /\ o \in T \ S
      <3>1. /\ A(p) \in 1 .. Len(x) /\ A(o) = Len(x) + FirstStated(y, o) /\ FirstStated(y, o) \in 1 .. Len(y)
            /\ B(p) \in 1 .. Len(s) /\ B(o) = Len(s) + FirstStated(t, o) /\ FirstStated(t, o) \in 1 .. Len(t)
        BY <2>3, <1>3
      <3>2. QED BY <3>1, <1>4
    <2>4. CASE /\ o \in Y \ X /\ o \in T \ S /\ o \in Standing(T)
               /\ p \in Y \ X /\ p \in T \ S /\ p \in Standing(T)
      <3>1. /\ A(o) = Len(x) + FirstStated(y, o) /\ FirstStated(y, o) \in 1 .. Len(y)
            /\ A(p) = Len(x) + FirstStated(y, p) /\ FirstStated(y, p) \in 1 .. Len(y)
            /\ B(o) = Len(s) + FirstStated(t, o) /\ FirstStated(t, o) \in 1 .. Len(t)
            /\ B(p) = Len(s) + FirstStated(t, p) /\ FirstStated(t, p) \in 1 .. Len(t)
        BY <2>4, <1>3
      <3>2. FirstStated(y, o) < FirstStated(y, p) <=> FirstStated(t, o) < FirstStated(t, p)
        BY <2>4, <1>1
      <3>3. QED BY <3>1, <3>2, <1>4
    <2>5. QED BY <2>1, <2>2, <2>3, <2>4, <1>7
  <1>9. Standing(PublishableOrigins(x \o y)) = Standing(PublishableOrigins(s \o t))
        /\ Standing(PublishableOrigins(s \o t)) = K
    BY <1>2, <1>5 DEF K
  <1>10. QED BY <1>8, <1>9 DEF Retells, A, B

(* Retelling a retelling. *)
LEMMA RetellsAgain ==
    ASSUME NEW x, NEW s, NEW t, Retells(x, s), Retells(s, t)
    PROVE  Retells(x, t)
  BY DEF Retells

(* Joining nothing changes nothing. *)
LEMMA JoinNothing ==
    ASSUME NEW S, NEW none, IsNothing(none), NEW s \in Seq(S)
    PROVE  none \in Seq(S) /\ s \o none = s /\ none \o s = s
  BY DEF IsNothing

(* Joins may be bracketed either way. *)
LEMMA JoinAssociative ==
    ASSUME NEW S, NEW s \in Seq(S), NEW t \in Seq(S), NEW u \in Seq(S)
    PROVE  (s \o t) \o u = s \o (t \o u)
  <1> DEFINE n == Len(s)
             m == Len(t)
             l == Len(u)
             a == (s \o t) \o u
             b == s \o (t \o u)
  <1>1. /\ n \in Nat /\ m \in Nat /\ l \in Nat
        /\ a \in Seq(S) /\ b \in Seq(S)
        /\ Len(a) = n + m + l /\ Len(b) = n + m + l
    OBVIOUS
  <1>2. \A i \in 1 .. n + m + l : a[i] = b[i] OBVIOUS
  <1> HIDE DEF n, m, l, a, b
  <1>3. a = b BY <1>1, <1>2
  <1>4. QED BY <1>3 DEF a, b

(* Of origins in particular. *)
LEMMA OriginsJoinAssociative ==
    \A x, y, z \in Seq(OriginRecords) : (x \o y) \o z = x \o (y \o z)
  BY JoinAssociative

(* The origins stated along a sequence of reports. *)
IsStating(h, s) ==
    /\ h \in [0 .. Len(s) -> Seq(OriginRecords)]
    /\ IsNothing(h[0])
    /\ \A k \in 1 .. Len(s) : h[k] = h[k - 1] \o s[k].origins

(* What is stated is what comes last along the sequence. *)
LEMMA StatedAlong ==
    ASSUME NEW s \in Seq(Reports)
    PROVE  /\ \E h : IsStating(h, s)
           /\ \A h : IsStating(h, s) => StatedOrigins(s) = h[Len(s)]
  <1> DEFINE none == << >>
             T == Seq(OriginRecords)
             n == Len(s)
             step == [p \in (1 .. n) \X T |-> p[2] \o s[p[1]].origins]
             Fold(g) == [x \in SUBSET (1 .. n) |->
                           IF x = {} THEN none
                           ELSE Joined(g[x \ {Max(x)}], s[Max(x)])]
             f == CHOOSE g : g = Fold(g)
  <1>n. n \in Nat /\ DOMAIN s = 1 .. n /\ \A k \in 1 .. n : s[k].origins \in T
    <2>1. \A k \in 1 .. n : s[k] \in Reports OBVIOUS
    <2>2. QED BY <2>1, ReportAssumption DEF IsNode
  <1>t. none \in T /\ IsNothing(none) BY DEF IsNothing
  <1>1. step \in [(1 .. n) \X T -> T]
    BY <1>n
  <1>2. PICK g \in [SUBSET (1 .. n) -> T] : IsFold(g, n, none, step)
    <2> HIDE DEF step, n, T
    <2> QED BY <1>n, <1>1, <1>t, FoldFunctionExists
  <1> HIDE DEF T
  <1>3. g = Fold(g)
    <2>1. ASSUME NEW x \in SUBSET (1 .. n), x # {}
          PROVE  g[x] = Joined(g[x \ {Max(x)}], s[Max(x)])
      <3>1. Max(x) \in 1 .. n BY <2>1, <1>n, MaxUpTo
      <3>2. g[x \ {Max(x)}] \in T BY <1>2
      <3>3. QED BY <3>1, <3>2, <1>2, <2>1 DEF IsFold, Joined
    <2>2. g[{}] = none BY <1>2 DEF IsFold
    <2>3. QED BY <2>1, <2>2, <1>2 DEF IsFold
  <1>4. f = Fold(f)
    <2> HIDE DEF Fold
    <2> QED BY <1>3
  <1>5. StatedOrigins(s) = f[1 .. n]
    BY <1>n DEF StatedOrigins, FoldLeft, MapThenFoldSet
  <1> HIDE DEF f
  <1>6. f[{}] = none BY <1>4
  <1>7. \A k \in 1 .. n : f[1 .. k] = f[1 .. k - 1] \o s[k].origins
    <2> TAKE k \in 1 .. n
    <2>1. /\ 1 .. k \in SUBSET (1 .. n) /\ 1 .. k # {} /\ Max(1 .. k) = k
          /\ (1 .. k) \ {k} = 1 .. k - 1
      BY <1>n, FirstIndices
    <2>2. QED BY <2>1, <1>4 DEF Joined
  <1>8. ASSUME NEW h, IsStating(h, s)
        PROVE  \A k \in 0 .. n : f[1 .. k] = h[k]
    <2> DEFINE A == {k \in Nat : k <= n => f[1 .. k] = h[k]}
    <2>1. 0 \in A
      <3>1. 1 .. 0 = {} OBVIOUS
      <3>2. h[0] = none BY <1>8 DEF IsStating, IsNothing
      <3> HIDE DEF none
      <3>3. QED BY <3>1, <3>2, <1>6
    <2>2. ASSUME NEW k \in Nat, k \in A PROVE k + 1 \in A
      <3> SUFFICES ASSUME k + 1 <= n PROVE f[1 .. k + 1] = h[k + 1]
        OBVIOUS
      <3>1. f[1 .. k] = h[k] BY <2>2
      <3>2. k + 1 \in 1 .. n /\ (k + 1) - 1 = k BY <1>n
      <3>3. h[k + 1] = h[k] \o s[k + 1].origins BY <1>8, <3>2 DEF IsStating
      <3>4. f[1 .. k + 1] = f[1 .. k] \o s[k + 1].origins BY <3>2, <1>7
      <3>5. QED BY <3>1, <3>3, <3>4
    <2>3. Nat \subseteq A
      <3> HIDE DEF A
      <3> QED BY <2>1, <2>2, NatSetInduction
    <2>4. QED BY <2>3, <1>n
  <1>9. \E h : IsStating(h, s)
    <2> DEFINE A == {k \in Nat : k <= n => f[1 .. k] \in T}
               h == [k \in 0 .. n |-> f[1 .. k]]
    <2>1. 0 \in A /\ f[1 .. 0] = none
      <3>1. 1 .. 0 = {} OBVIOUS
      <3> HIDE DEF none
      <3>2. QED BY <3>1, <1>6, <1>t
    <2>2. ASSUME NEW k \in Nat, k \in A PROVE k + 1 \in A
      <3> SUFFICES ASSUME k + 1 <= n PROVE f[1 .. k + 1] \in T
        OBVIOUS
      <3>1. f[1 .. k] \in T BY <2>2
      <3>2. k + 1 \in 1 .. n /\ (k + 1) - 1 = k BY <1>n
      <3>3. f[1 .. k + 1] = f[1 .. k] \o s[k + 1].origins BY <3>2, <1>7
      <3>4. QED BY <3>1, <3>2, <3>3, <1>n DEF T
    <2>3. Nat \subseteq A
      <3> HIDE DEF A
      <3> QED BY <2>1, <2>2, NatSetInduction
    <2>4. h \in [0 .. n -> T] BY <2>3, <1>n
    <2>5. h[0] = none BY <2>1, <1>n
    <2>6. \A k \in 1 .. n : h[k] = h[k - 1] \o s[k].origins
      <3> TAKE k \in 1 .. n
      <3>1. k \in 0 .. n /\ k - 1 \in 0 .. n BY <1>n
      <3>2. h[k] = f[1 .. k] /\ h[k - 1] = f[1 .. k - 1] BY <3>1
      <3> HIDE DEF h
      <3>3. QED BY <3>2, <1>7
    <2> HIDE DEF h, none
    <2>7. IsStating(h, s) BY <2>4, <2>5, <2>6, <1>t DEF IsStating, IsNothing, T
    <2>8. QED BY <2>7
  <1>10. QED BY <1>5, <1>8, <1>9, <1>n

(* What reports state one after the other is what they state together. *)
LEMMA StatedJoin ==
    ASSUME NEW s \in Seq(Reports), NEW t \in Seq(Reports)
    PROVE  /\ StatedOrigins(s) \in Seq(OriginRecords)
           /\ StatedOrigins(s \o t) = StatedOrigins(s) \o StatedOrigins(t)
  <1> DEFINE n == Len(s)
             m == Len(t)
             u == s \o t
             T == Seq(OriginRecords)
  <1>1. /\ n \in Nat /\ m \in Nat /\ u \in Seq(Reports) /\ Len(u) = n + m
        /\ \A i \in 1 .. n : u[i] = s[i]
        /\ \A i \in 1 .. m : u[n + i] = t[i]
    OBVIOUS
  <1>m. \A i \in 1 .. m : t[i].origins \in T
    <2>1. \A k \in 1 .. m : t[k] \in Reports OBVIOUS
    <2>2. QED BY <2>1, ReportAssumption DEF IsNode
  <1>2. PICK a : IsStating(a, s) /\ StatedOrigins(s) = a[n] BY StatedAlong
  <1>3. PICK b : IsStating(b, t) /\ StatedOrigins(t) = b[m] BY StatedAlong
  <1>4. /\ a \in [0 .. n -> T] /\ IsNothing(a[0])
        /\ \A k \in 1 .. n : a[k] = a[k - 1] \o s[k].origins
        /\ b \in [0 .. m -> T] /\ IsNothing(b[0])
        /\ \A k \in 1 .. m : b[k] = b[k - 1] \o t[k].origins
    BY <1>2, <1>3 DEF IsStating
  <1> HIDE DEF n, m, u
  <1>5. a[n] \in T /\ (\A k \in 0 .. m : b[k] \in T) /\ a[n] \o b[0] = a[n]
    <2>1. a[n] \in T /\ (\A k \in 0 .. m : b[k] \in T) BY <1>1, <1>4
    <2>2. 0 \in 0 .. m BY <1>1
    <2>3. b[0] \in T /\ IsNothing(b[0]) BY <2>1, <2>2, <1>4
    <2>4. a[n] \o b[0] = a[n] BY <2>1, <2>3, JoinNothing
    <2>5. QED BY <2>1, <2>4
  <1> HIDE DEF T
  <1> DEFINE h == [k \in 0 .. n + m |-> IF k <= n THEN a[k] ELSE a[n] \o b[k - n]]
  <1>6. h \in [0 .. n + m -> T]
    <2>1. ASSUME NEW k \in 0 .. n + m
          PROVE  (IF k <= n THEN a[k] ELSE a[n] \o b[k - n]) \in T
      <3>1. CASE k <= n BY <3>1, <1>1, <1>4
      <3>2. CASE ~(k <= n)
        <4>1. k - n \in 0 .. m BY <3>2, <1>1
        <4>2. b[k - n] \in T BY <4>1, <1>5
        <4>3. QED BY <3>2, <4>2, <1>5 DEF T
      <3>3. QED BY <3>1, <3>2
    <2>2. QED BY <2>1
  <1>7. h[0] = a[0] /\ (\A k \in 0 .. n : h[k] = a[k]) /\ \A k \in 0 .. m : h[n + k] = a[n] \o b[k]
    <2>1. (\A k \in 0 .. n : h[k] = a[k]) BY <1>1
    <2>2. ASSUME NEW k \in 0 .. m PROVE h[n + k] = a[n] \o b[k]
      <3>1. CASE k = 0
        <4>1. h[n + k] = a[n] BY <3>1, <2>1, <1>1
        <4>2. QED BY <4>1, <3>1, <1>5
      <3>2. CASE k # 0
        <4>1. n + k \in 0 .. n + m /\ ~(n + k <= n) /\ (n + k) - n = k BY <3>2, <1>1
        <4>2. QED BY <4>1
      <3>3. QED BY <3>1, <3>2
    <2> HIDE DEF h
    <2>3. 0 \in 0 .. n BY <1>1
    <2>4. QED BY <2>1, <2>2, <2>3
  <1> HIDE DEF h
  <1>8. \A k \in 1 .. n + m : h[k] = h[k - 1] \o u[k].origins
    <2> TAKE k \in 1 .. n + m
    <2>1. CASE k \in 1 .. n
      <3>1. k \in 0 .. n /\ k - 1 \in 0 .. n BY <2>1, <1>1
      <3>2. QED BY <3>1, <2>1, <1>1, <1>4, <1>7
    <2>2. CASE k \notin 1 .. n
      <3> DEFINE j == k - n
      <3>1. j \in 1 .. m /\ j \in 0 .. m /\ j - 1 \in 0 .. m /\ n + j = k /\ n + (j - 1) = k - 1 BY <2>2, <1>1
      <3> HIDE DEF j
      <3>2. h[k] = a[n] \o b[j] /\ h[k - 1] = a[n] \o b[j - 1] BY <3>1, <1>7
      <3>3. b[j] = b[j - 1] \o t[j].origins /\ u[k] = t[j] BY <3>1, <1>1, <1>4
      <3>4. b[j - 1] \in T /\ t[j].origins \in T BY <3>1, <1>5, <1>m
      <3>5. (a[n] \o b[j - 1]) \o t[j].origins = a[n] \o (b[j - 1] \o t[j].origins)
        <4> DEFINE x == a[n]
                   y == b[j - 1]
                   z == t[j].origins
        <4>1. x \in Seq(OriginRecords) /\ y \in Seq(OriginRecords) /\ z \in Seq(OriginRecords)
          BY <3>4, <1>5 DEF T
        <4> HIDE DEF x, y, z
        <4>2. (x \o y) \o z = x \o (y \o z) BY <4>1, OriginsJoinAssociative, Zenon
        <4>3. QED BY <4>2 DEF x, y, z
      <3>6. QED BY <3>2, <3>3, <3>5
    <2>3. QED BY <2>1, <2>2
  <1>9. IsStating(h, u) BY <1>1, <1>4, <1>6, <1>7, <1>8 DEF IsStating, T
  <1>10. StatedOrigins(u) = h[n + m] BY <1>1, <1>9, StatedAlong
  <1>11. h[n + m] = a[n] \o b[m]
    <2>1. m \in 0 .. m BY <1>1
    <2>2. QED BY <2>1, <1>7
  <1>12. QED BY <1>2, <1>3, <1>5, <1>10, <1>11 DEF u, T

(* What a single report states. *)
LEMMA StatedByOne ==
    ASSUME NEW w \in Reports
    PROVE  StatedOrigins(<<w>>) = w.origins
  <1> DEFINE none == << >>
             s == <<w>>
             h == [k \in 0 .. 1 |-> IF k = 0 THEN none ELSE w.origins]
  <1>0. w.origins \in Seq(OriginRecords) BY ReportAssumption DEF IsNode
  <1>1. s \in Seq(Reports) /\ Len(s) = 1 /\ s[1] = w OBVIOUS
  <1>2. IsNothing(none) /\ none \in Seq(OriginRecords) BY DEF IsNothing
  <1> HIDE DEF none, s
  <1>3. none \o w.origins = w.origins BY <1>0, <1>2, JoinNothing
  <1>4. h \in [0 .. 1 -> Seq(OriginRecords)] /\ h[0] = none /\ h[1] = w.origins BY <1>0, <1>2
  <1> HIDE DEF h
  <1>5. \A k \in 1 .. Len(s) : k = 1 BY <1>1
  <1>6. IsStating(h, s) BY <1>1, <1>2, <1>3, <1>4, <1>5 DEF IsStating
  <1>7. QED BY <1>1, <1>4, <1>6, StatedAlong DEF s

IsBlank(word) == word = ""

(* A gap is filled with what comes next, and nothing else is. *)
LEMMA GapFilled ==
    ASSUME NEW x, NEW y
    PROVE  /\ IsBlank(x) => FillGap(x, y) = y
           /\ ~IsBlank(x) => FillGap(x, y) = x
           /\ IsBlank(x) /\ IsBlank(y) => x = y
  BY DEF IsBlank, FillGap

(* Where the first word stands that says something. *)
LEMMA FirstWord ==
    ASSUME NEW words \in Seq(STRING)
    PROVE  \/ /\ IsBlank(StatedBefore(words))
              /\ \A i \in 1 .. Len(words) : IsBlank(words[i])
           \/ \E i \in 1 .. Len(words) :
                 /\ StatedBefore(words) = words[i] /\ ~IsBlank(words[i])
                 /\ \A j \in 1 .. Len(words) : j < i => IsBlank(words[j])
  <1> DEFINE n == Len(words)
             stated == {i \in DOMAIN words : ~IsBlank(words[i])}
             first == Min(stated)
  <1>1. n \in Nat /\ DOMAIN words = 1 .. n OBVIOUS
  <1>2. \A i : i \in stated <=> i \in 1 .. n /\ ~IsBlank(words[i]) BY <1>1
  <1>3. /\ stated = {} => IsBlank(StatedBefore(words))
        /\ stated # {} => StatedBefore(words) = words[first]
    BY DEF StatedBefore, IsBlank
  <1> HIDE DEF n, stated, first
  <1>4. CASE stated = {}
    <2>1. \A i \in 1 .. n : IsBlank(words[i]) BY <1>2, <1>4
    <2>2. QED BY <2>1, <1>3, <1>4 DEF n
  <1>5. CASE stated # {}
    <2>1. stated \subseteq Nat BY <1>1, <1>2
    <2>2. first \in stated /\ \A j \in stated : first <= j BY <2>1, <1>5, MinOfNaturals DEF first
    <2>3. first \in 1 .. n /\ ~IsBlank(words[first]) BY <2>2, <1>2
    <2>4. \A j \in 1 .. n : j < first => IsBlank(words[j])
      <3> SUFFICES ASSUME NEW j \in 1 .. n, j < first, ~IsBlank(words[j]) PROVE FALSE
        OBVIOUS
      <3>1. j \in stated BY <1>2
      <3>2. first <= j BY <3>1, <2>2
      <3>3. QED BY <3>2, <2>3, <1>1
    <2>5. QED BY <2>3, <2>4, <1>3, <1>5 DEF n
  <1>6. QED BY <1>4, <1>5

(* The first word of two sequences one after the other. *)
LEMMA FirstWordOfJoin ==
    ASSUME NEW a \in Seq(STRING), NEW b \in Seq(STRING), NEW c \in Seq(STRING),
           Len(c) = Len(a) + Len(b),
           \A i \in 1 .. Len(a) : c[i] = a[i],
           \A i \in 1 .. Len(b) : c[Len(a) + i] = b[i]
    PROVE  StatedBefore(c) = FillGap(StatedBefore(a), StatedBefore(b))
  <1> DEFINE n == Len(a)
             m == Len(b)
             A == StatedBefore(a)
             B == StatedBefore(b)
             C == StatedBefore(c)
  <1>1. /\ n \in Nat /\ m \in Nat /\ Len(c) = n + m
        /\ \A i \in 1 .. n : c[i] = a[i]
        /\ \A i \in 1 .. m : c[n + i] = b[i]
    OBVIOUS
  <1>a. \/ IsBlank(A) /\ \A i \in 1 .. n : IsBlank(a[i])
        \/ \E i \in 1 .. n : A = a[i] /\ ~IsBlank(a[i]) /\ \A j \in 1 .. n : j < i => IsBlank(a[j])
    BY FirstWord
  <1>b. \/ IsBlank(B) /\ \A i \in 1 .. m : IsBlank(b[i])
        \/ \E i \in 1 .. m : B = b[i] /\ ~IsBlank(b[i]) /\ \A j \in 1 .. m : j < i => IsBlank(b[j])
    BY FirstWord
  <1>c. \/ IsBlank(C) /\ \A i \in 1 .. n + m : IsBlank(c[i])
        \/ \E i \in 1 .. n + m : C = c[i] /\ ~IsBlank(c[i]) /\ \A j \in 1 .. n + m : j < i => IsBlank(c[j])
    BY <1>1, FirstWord
  <1> HIDE DEF n, m, A, B, C
  <1>2. \A i \in 1 .. n + m : i \in 1 .. n \/ (i - n \in 1 .. m /\ n + (i - n) = i /\ c[i] = b[i - n])
    <2> TAKE i \in 1 .. n + m
    <2>1. i \in 1 .. n \/ (i - n \in 1 .. m /\ n + (i - n) = i) BY <1>1
    <2>2. QED BY <2>1, <1>1
  <1>3. (\A i \in 1 .. n : i \in 1 .. n + m) /\ \A i \in 1 .. m : n + i \in 1 .. n + m BY <1>1
  <1>4. ASSUME NEW i \in 1 .. n + m, ~IsBlank(c[i]), \A j \in 1 .. n + m : j < i => IsBlank(c[j]),
               NEW k \in 1 .. n + m, ~IsBlank(c[k]), \A j \in 1 .. n + m : j < k => IsBlank(c[j])
        PROVE  i = k
    <2>1. ~(i < k) /\ ~(k < i) BY <1>4
    <2>2. QED BY <2>1, <1>1
  <1>5. CASE ~IsBlank(A)
    <2>1. PICK i \in 1 .. n : A = a[i] /\ ~IsBlank(a[i]) /\ \A j \in 1 .. n : j < i => IsBlank(a[j])
      BY <1>a, <1>5
    <2>2. i \in 1 .. n + m /\ c[i] = a[i] BY <1>1, <1>3
    <2>3. \A j \in 1 .. n + m : j < i => IsBlank(c[j])
      <3> SUFFICES ASSUME NEW j \in 1 .. n + m, j < i PROVE IsBlank(c[j]) OBVIOUS
      <3>1. j \in 1 .. n BY <1>1
      <3>2. QED BY <3>1, <2>1, <1>1
    <2>4. PICK k \in 1 .. n + m : C = c[k] /\ ~IsBlank(c[k]) /\ \A j \in 1 .. n + m : j < k => IsBlank(c[j])
      BY <1>c, <2>1, <2>2
    <2>5. i = k BY <2>1, <2>2, <2>3, <2>4, <1>4
    <2>6. C = A BY <2>1, <2>2, <2>4, <2>5
    <2>7. QED BY <2>6, <1>5, GapFilled DEF A, C
  <1>6. CASE IsBlank(A)
    <2>1. \A i \in 1 .. n : IsBlank(c[i]) BY <1>a, <1>1, <1>6
    <2>2. C = B
      <3>1. CASE IsBlank(B)
        <4>1. \A i \in 1 .. m : IsBlank(b[i]) BY <1>b, <3>1
        <4>2. \A i \in 1 .. n + m : IsBlank(c[i]) BY <2>1, <4>1, <1>2
        <4>3. IsBlank(C) BY <4>2, <1>c
        <4>4. QED BY <4>3, <3>1, GapFilled
      <3>2. CASE ~IsBlank(B)
        <4>1. PICK i \in 1 .. m : B = b[i] /\ ~IsBlank(b[i]) /\ \A j \in 1 .. m : j < i => IsBlank(b[j])
          BY <1>b, <3>2
        <4> DEFINE at == n + i
        <4>2. at \in 1 .. n + m /\ c[at] = b[i] BY <1>1, <1>3
        <4>3. \A j \in 1 .. n + m : j < at => IsBlank(c[j])
          <5> SUFFICES ASSUME NEW j \in 1 .. n + m, j < at PROVE IsBlank(c[j]) OBVIOUS
          <5>1. CASE j \in 1 .. n BY <5>1, <2>1
          <5>2. CASE j - n \in 1 .. m /\ n + (j - n) = j /\ c[j] = b[j - n]
            <6>1. j - n < i BY <5>2, <1>1
            <6>2. QED BY <6>1, <5>2, <4>1
          <5>3. QED BY <5>1, <5>2, <1>2
        <4> HIDE DEF at
        <4>4. PICK k \in 1 .. n + m : C = c[k] /\ ~IsBlank(c[k]) /\ \A j \in 1 .. n + m : j < k => IsBlank(c[j])
          BY <1>c, <4>1, <4>2
        <4>5. at = k BY <4>1, <4>2, <4>3, <4>4, <1>4
        <4>6. QED BY <4>1, <4>2, <4>4, <4>5
      <3>3. QED BY <3>1, <3>2
    <2>3. QED BY <2>2, <1>6, GapFilled DEF A, B, C
  <1>7. QED BY <1>5, <1>6

(* A single word. *)
LEMMA OnlyWord ==
    ASSUME NEW words \in Seq(STRING), Len(words) = 1
    PROVE  StatedBefore(words) = words[1]
  <1>1. 1 \in 1 .. Len(words) /\ \A i \in 1 .. Len(words) : i = 1 OBVIOUS
  <1>2. IsBlank(StatedBefore(words)) /\ IsBlank(words[1]) => StatedBefore(words) = words[1] BY GapFilled
  <1>3. \/ IsBlank(StatedBefore(words)) /\ IsBlank(words[1])
        \/ StatedBefore(words) = words[1]
    BY <1>1, FirstWord
  <1>4. QED BY <1>2, <1>3

Finders(witnesses) == [i \in DOMAIN witnesses |-> witnesses[i].foundBy]

SourceScopes(witnesses) == [i \in DOMAIN witnesses |-> NormalizeSourceScope(witnesses[i].sourceScope)]

(* A normalised scope is a word, and stays as it is. *)
LEMMA NormalizedScope ==
    ASSUME NEW x \in STRING, NEW y \in STRING
    PROVE  /\ NormalizeSourceScope(x) \in STRING
           /\ FillGap(x, y) \in STRING
           /\ NormalizeSourceScope(NormalizeSourceScope(x)) = NormalizeSourceScope(x)
           /\ NormalizeSourceScope(FillGap(NormalizeSourceScope(x), NormalizeSourceScope(y)))
                = FillGap(NormalizeSourceScope(x), NormalizeSourceScope(y))
  <1>1. "" \in STRING BY WitnessAssumption DEF NoValue
  <1>2. \A z : NormalizeSourceScope(z) = z \/ (z = "unpublishable" /\ NormalizeSourceScope(z) = "")
    BY DEF NormalizeSourceScope
  <1>3. \A z : NormalizeSourceScope(NormalizeSourceScope(z)) = NormalizeSourceScope(z)
    BY DEF NormalizeSourceScope
  <1>4. \A u, v : FillGap(u, v) = u \/ FillGap(u, v) = v BY DEF FillGap
  <1>5. NormalizeSourceScope(x) \in STRING /\ FillGap(x, y) \in STRING BY <1>1, <1>2, <1>4
  <1>6. NormalizeSourceScope(FillGap(NormalizeSourceScope(x), NormalizeSourceScope(y)))
          = FillGap(NormalizeSourceScope(x), NormalizeSourceScope(y))
    <2> DEFINE u == NormalizeSourceScope(x)
               v == NormalizeSourceScope(y)
               w == FillGap(u, v)
    <2>1. NormalizeSourceScope(u) = u /\ NormalizeSourceScope(v) = v BY <1>3
    <2>2. w = u \/ w = v BY <1>4
    <2> HIDE DEF u, v, w
    <2>3. NormalizeSourceScope(w) = w BY <2>1, <2>2
    <2>4. QED BY <2>3 DEF u, v, w
  <1>7. QED BY <1>3, <1>5, <1>6

(* What the finders and the scopes of reports joined are. *)
LEMMA WordsOfJoin ==
    ASSUME NEW s \in Seq(Reports), NEW t \in Seq(Reports)
    PROVE  /\ Finders(s) \in Seq(STRING) /\ SourceScopes(s) \in Seq(STRING)
           /\ Len(Finders(s)) = Len(s) /\ Len(SourceScopes(s)) = Len(s)
           /\ StatedBefore(Finders(s \o t)) = FillGap(StatedBefore(Finders(s)), StatedBefore(Finders(t)))
           /\ StatedBefore(SourceScopes(s \o t))
                = FillGap(StatedBefore(SourceScopes(s)), StatedBefore(SourceScopes(t)))
  <1> DEFINE n == Len(s)
             m == Len(t)
             u == s \o t
  <1>1. /\ n \in Nat /\ m \in Nat /\ u \in Seq(Reports) /\ Len(u) = n + m
        /\ \A i \in 1 .. n : u[i] = s[i]
        /\ \A i \in 1 .. m : u[n + i] = t[i]
    OBVIOUS
  <1>2. ASSUME NEW r \in Seq(Reports)
        PROVE  /\ Finders(r) \in Seq(STRING) /\ Len(Finders(r)) = Len(r)
               /\ \A i \in 1 .. Len(r) : Finders(r)[i] = r[i].foundBy
               /\ SourceScopes(r) \in Seq(STRING) /\ Len(SourceScopes(r)) = Len(r)
               /\ \A i \in 1 .. Len(r) : SourceScopes(r)[i] = NormalizeSourceScope(r[i].sourceScope)
    <2> DEFINE l == Len(r)
               F(i) == r[i].foundBy
               G(i) == NormalizeSourceScope(r[i].sourceScope)
    <2>1. l \in Nat /\ DOMAIN r = 1 .. l /\ \A i \in 1 .. l : r[i] \in Reports OBVIOUS
    <2>2. \A i \in 1 .. l : F(i) \in STRING /\ G(i) \in STRING
      BY <2>1, ReportAssumption, NormalizedScope DEF IsNode
    <2> HIDE DEF l
    <2>3. Finders(r) = [i \in 1 .. l |-> F(i)] /\ SourceScopes(r) = [i \in 1 .. l |-> G(i)]
      BY <2>1 DEF Finders, SourceScopes
    <2> HIDE DEF F, G
    <2>4. QED BY <2>1, <2>2, <2>3 DEF F, G, l
  <1> HIDE DEF u, n, m
  <1>3. StatedBefore(Finders(u)) = FillGap(StatedBefore(Finders(s)), StatedBefore(Finders(t)))
    <2> DEFINE a == Finders(s)
               b == Finders(t)
               c == Finders(u)
               N(w) == w.foundBy
    <2>1. /\ a \in Seq(STRING) /\ b \in Seq(STRING) /\ c \in Seq(STRING)
          /\ Len(a) = n /\ Len(b) = m /\ Len(c) = n + m
          /\ \A i \in 1 .. n : a[i] = N(s[i])
          /\ \A i \in 1 .. m : b[i] = N(t[i])
          /\ \A i \in 1 .. n + m : c[i] = N(u[i])
      BY <1>1, <1>2 DEF n, m
    <2>2. (\A i \in 1 .. n : i \in 1 .. n + m) /\ \A i \in 1 .. m : n + i \in 1 .. n + m BY <1>1
    <2> HIDE DEF a, b, c, N
    <2>3. /\ Len(c) = Len(a) + Len(b)
          /\ \A i \in 1 .. Len(a) : c[i] = a[i]
          /\ \A i \in 1 .. Len(b) : c[Len(a) + i] = b[i]
      <3>1. ASSUME NEW i \in 1 .. n PROVE c[i] = a[i]
        <4>1. u[i] = s[i] /\ i \in 1 .. n + m BY <1>1, <2>2
        <4>2. QED BY <2>1, <4>1
      <3>2. ASSUME NEW i \in 1 .. m PROVE c[n + i] = b[i]
        <4>1. u[n + i] = t[i] /\ n + i \in 1 .. n + m BY <1>1, <2>2
        <4>2. QED BY <2>1, <4>1
      <3>3. QED BY <2>1, <3>1, <3>2
    <2>4. StatedBefore(c) = FillGap(StatedBefore(a), StatedBefore(b)) BY <2>1, <2>3, FirstWordOfJoin, Zenon
    <2>5. QED BY <2>4 DEF a, b, c
  <1>4. StatedBefore(SourceScopes(u)) = FillGap(StatedBefore(SourceScopes(s)), StatedBefore(SourceScopes(t)))
    <2> DEFINE a == SourceScopes(s)
               b == SourceScopes(t)
               c == SourceScopes(u)
               N(w) == NormalizeSourceScope(w.sourceScope)
    <2>1. /\ a \in Seq(STRING) /\ b \in Seq(STRING) /\ c \in Seq(STRING)
          /\ Len(a) = n /\ Len(b) = m /\ Len(c) = n + m
          /\ \A i \in 1 .. n : a[i] = N(s[i])
          /\ \A i \in 1 .. m : b[i] = N(t[i])
          /\ \A i \in 1 .. n + m : c[i] = N(u[i])
      BY <1>1, <1>2 DEF n, m
    <2>2. (\A i \in 1 .. n : i \in 1 .. n + m) /\ \A i \in 1 .. m : n + i \in 1 .. n + m BY <1>1
    <2> HIDE DEF a, b, c, N
    <2>3. /\ Len(c) = Len(a) + Len(b)
          /\ \A i \in 1 .. Len(a) : c[i] = a[i]
          /\ \A i \in 1 .. Len(b) : c[Len(a) + i] = b[i]
      <3>1. ASSUME NEW i \in 1 .. n PROVE c[i] = a[i]
        <4>1. u[i] = s[i] /\ i \in 1 .. n + m BY <1>1, <2>2
        <4>2. QED BY <2>1, <4>1
      <3>2. ASSUME NEW i \in 1 .. m PROVE c[n + i] = b[i]
        <4>1. u[n + i] = t[i] /\ n + i \in 1 .. n + m BY <1>1, <2>2
        <4>2. QED BY <2>1, <4>1
      <3>3. QED BY <2>1, <3>1, <3>2
    <2>4. StatedBefore(c) = FillGap(StatedBefore(a), StatedBefore(b)) BY <2>1, <2>3, FirstWordOfJoin
    <2>5. QED BY <2>4 DEF a, b, c
  <1>5. /\ Finders(s) \in Seq(STRING) /\ SourceScopes(s) \in Seq(STRING)
        /\ Len(Finders(s)) = Len(s) /\ Len(SourceScopes(s)) = Len(s)
    BY <1>2
  <1>6. QED BY <1>3, <1>4, <1>5 DEF u

(* A single report. *)
LEMMA WordsOfOne ==
    ASSUME NEW w \in Reports
    PROVE  /\ StatedBefore(Finders(<<w>>)) = w.foundBy
           /\ StatedBefore(SourceScopes(<<w>>)) = NormalizeSourceScope(w.sourceScope)
  <1> DEFINE s == <<w>>
  <1>1. s \in Seq(Reports) /\ Len(s) = 1 /\ s[1] = w /\ 1 \in DOMAIN s OBVIOUS
  <1> HIDE DEF s
  <1>2. Finders(s)[1] = w.foundBy /\ SourceScopes(s)[1] = NormalizeSourceScope(w.sourceScope)
    BY <1>1 DEF Finders, SourceScopes
  <1>3. /\ Finders(s) \in Seq(STRING) /\ SourceScopes(s) \in Seq(STRING)
        /\ Len(Finders(s)) = 1 /\ Len(SourceScopes(s)) = 1
    BY <1>1, WordsOfJoin
  <1>4. QED BY <1>2, <1>3, OnlyWord DEF s

-----------------------------------------------------------------------------
(* What a set of witnesses says together. *)
SitesOf(witnesses) == UNION {Range(w.locations) : w \in witnesses}

RefsOf(witnesses) == UNION {Range(w.references) : w \in witnesses}

ScopesOf(witnesses) == UNION {w.scopes : w \in witnesses}

SiteScopes(witnesses) == UNION {s.scopes : s \in SitesOf(witnesses)}

LicensesSaid(witnesses) == UNION {Claims(w.licenses) \cup Claims(w.stash) : w \in witnesses}

LicensesNamed(witnesses) == UNION {NamedClaims(w.licenses) \cup NamedClaims(w.stash) : w \in witnesses}

(* The node says what its witnesses say together; its scopes may or may not
   include those of the sites. *)
Folded(n, witnesses) ==
    /\ IsNode(n)
    /\ n.relationship \in {w.relationship : w \in witnesses}
    /\ \A w \in witnesses : Rank(w.relationship) <= Rank(n.relationship)
    /\ ScopeFacts(Range(n.locations)) = ScopeFacts(SitesOf(witnesses))
    /\ RankFacts(Range(n.locations)) = RankFacts(SitesOf(witnesses))
    /\ RefKeys(Range(n.references)) = RefKeys(RefsOf(witnesses))
    /\ HashFacts(Range(n.references)) = HashFacts(RefsOf(witnesses))
    /\ CommentFacts(Range(n.references)) = CommentFacts(RefsOf(witnesses))
    /\ RegistryMatchEligible(n) <=> \E w \in witnesses : RegistryMatchEligible(w)
    /\ n.matched <=> \E w \in witnesses : w.matched
    /\ Claims(n.licenses) \cup Claims(n.stash) = LicensesSaid(witnesses)
    /\ NamedClaims(n.licenses) \cup NamedClaims(n.stash) = LicensesNamed(witnesses)
    /\ Known(ScopesOf(witnesses)) \subseteq Known(n.scopes)
    /\ Known(n.scopes) \subseteq Known(ScopesOf(witnesses) \cup SiteScopes(witnesses))

(* Its scopes include those of the sites. *)
Lifted(n, witnesses) ==
    Known(n.scopes) = Known(ScopesOf(witnesses) \cup SiteScopes(witnesses))

(* The inductive invariant: a node is what its witnesses say together, and the
   second witness lifts the scopes of the sites. *)
NodeInv ==
    /\ node = [g \in Graphs |-> node[g]]
    /\ seen \in [Graphs -> Seq(Reports)]
    /\ \A g \in Graphs : node[g] = NoNode <=> seen[g] = << >>
    /\ \A g \in Graphs : node[g] # NoNode => Folded(node[g], Range(seen[g]))
    /\ \A g \in Graphs : Len(seen[g]) > 1 => Lifted(node[g], Range(seen[g]))

(* A node is never the mark of its absence. *)
LEMMA NodesArePresent ==
    ASSUME NEW n, IsNode(n)
    PROVE  n # NoNode
  <1>1. "matched" \in DOMAIN n BY DEF IsNode
  <1>2. "matched" \notin DOMAIN NoNode BY DEF NoNode
  <1>3. QED BY <1>1, <1>2

(* What witnesses say is what each half of them says. *)
LEMMA SaidByUnion ==
    ASSUME NEW V, NEW W
    PROVE  /\ SitesOf(V \cup W) = SitesOf(V) \cup SitesOf(W)
           /\ RefsOf(V \cup W) = RefsOf(V) \cup RefsOf(W)
           /\ ScopesOf(V \cup W) = ScopesOf(V) \cup ScopesOf(W)
           /\ SiteScopes(V \cup W) = SiteScopes(V) \cup SiteScopes(W)
           /\ LicensesSaid(V \cup W) = LicensesSaid(V) \cup LicensesSaid(W)
           /\ LicensesNamed(V \cup W) = LicensesNamed(V) \cup LicensesNamed(W)
  <1>1. SitesOf(V \cup W) = SitesOf(V) \cup SitesOf(W) BY DEF SitesOf
  <1>2. RefsOf(V \cup W) = RefsOf(V) \cup RefsOf(W) BY DEF RefsOf
  <1>3. ScopesOf(V \cup W) = ScopesOf(V) \cup ScopesOf(W) BY DEF ScopesOf
  <1>4. SiteScopes(V \cup W) = SiteScopes(V) \cup SiteScopes(W)
    BY <1>1 DEF SiteScopes
  <1>5. LicensesSaid(V \cup W) = LicensesSaid(V) \cup LicensesSaid(W) BY DEF LicensesSaid
  <1>6. LicensesNamed(V \cup W) = LicensesNamed(V) \cup LicensesNamed(W) BY DEF LicensesNamed
  <1>7. QED BY <1>1, <1>2, <1>3, <1>4, <1>5, <1>6

(* One witness says of itself what it says. *)
LEMMA SaidByOne ==
    ASSUME NEW w, IsNode(w)
    PROVE  Folded(w, {w})
  <1>1. SitesOf({w}) = Range(w.locations) BY DEF SitesOf
  <1>2. RefsOf({w}) = Range(w.references) BY DEF RefsOf
  <1>3. ScopesOf({w}) = w.scopes BY DEF ScopesOf
  <1>4. Rank(w.relationship) <= Rank(w.relationship)
    <2>1. w.relationship \in RelationshipWords BY DEF IsNode
    <2>2. Rank(w.relationship) \in 0 .. 3 BY <2>1, RankType
    <2>3. QED BY <2>2
  <1>5. Known(w.scopes) \subseteq Known(w.scopes \cup SiteScopes({w})) BY DEF Known
  <1>6. /\ LicensesSaid({w}) = Claims(w.licenses) \cup Claims(w.stash)
        /\ LicensesNamed({w}) = NamedClaims(w.licenses) \cup NamedClaims(w.stash)
    BY DEF LicensesSaid, LicensesNamed
  <1>7. QED BY <1>1, <1>2, <1>3, <1>4, <1>5, <1>6 DEF Folded

(* The scopes of usage records are the scopes they state. *)
LEMMA ScopesFromFacts ==
    ASSUME NEW sites
    PROVE  \A x : x \in Known(UNION {s.scopes : s \in sites}) <=> \E p, r : <<p, r, x>> \in ScopeFacts(sites)
  <1>1. \A p, r, x : <<p, r, x>> \in ScopeFacts(sites) <=>
           \E s \in sites : s.path = p /\ s.root = r /\ x \in Known(s.scopes)
    BY FactsOfUsage
  <1>2. \A x : x \in Known(UNION {s.scopes : s \in sites}) <=> \E s \in sites : x \in Known(s.scopes)
    BY DEF Known
  <1>3. ASSUME NEW x, NEW s \in sites, x \in Known(s.scopes)
        PROVE  <<s.path, s.root, x>> \in ScopeFacts(sites)
    BY <1>1, <1>3
  <1>4. ASSUME NEW x, NEW p, NEW r, <<p, r, x>> \in ScopeFacts(sites)
        PROVE  \E s \in sites : x \in Known(s.scopes)
    BY <1>1, <1>4
  <1>5. \A x : (\E s \in sites : x \in Known(s.scopes)) <=> \E p, r : <<p, r, x>> \in ScopeFacts(sites)
    BY <1>3, <1>4
  <1>6. QED BY <1>2, <1>5

(* The licences of a node, normalized, are those it has in the field and in the
   stash. *)
LEMMA DetectionLicensesKeep ==
    ASSUME NEW n, IsNode(n)
    PROVE  /\ DetectionLicenses(n) \in Seq(LicenseRecords)
           /\ Claims(DetectionLicenses(n)) = Claims(n.licenses) \cup Claims(n.stash)
           /\ NamedClaims(DetectionLicenses(n)) = NamedClaims(n.licenses) \cup NamedClaims(n.stash)
  <1> DEFINE none == << >>
             both == MergeLicenses(n.licenses, n.stash)
  <1>1. n.licenses \in Seq(LicenseRecords) /\ n.stash \in Seq(LicenseRecords) BY DEF IsNode
  <1>2. DetectionLicenses(n) = MergeLicenses(none, both) BY DEF DetectionLicenses
  <1>3. none \in Seq(LicenseRecords) /\ Claims(none) = {} /\ NamedClaims(none) = {}
    BY DEF Claims, NamedClaims, Range
  <1>4. /\ both \in Seq(LicenseRecords)
        /\ Claims(both) = Claims(n.licenses) \cup Claims(n.stash)
        /\ NamedClaims(both) = NamedClaims(n.licenses) \cup NamedClaims(n.stash)
    BY <1>1, MergeLicensesKeeps
  <1> HIDE DEF none, both
  <1>5. /\ MergeLicenses(none, both) \in Seq(LicenseRecords)
        /\ Claims(MergeLicenses(none, both)) = Claims(none) \cup Claims(both)
        /\ NamedClaims(MergeLicenses(none, both)) = NamedClaims(none) \cup NamedClaims(both)
    BY <1>3, <1>4, MergeLicensesKeeps
  <1>6. QED BY <1>2, <1>3, <1>4, <1>5

(* The licences of two nodes folded, with the stash that the fold leaves. *)
LEMMA FoldedLicensesKeep ==
    ASSUME NEW a, NEW b, IsNode(a), IsNode(b), NEW stash, stash = a.stash \/ stash = b.stash
    PROVE  /\ FoldedLicenses(a, b) \in Seq(LicenseRecords)
           /\ Claims(FoldedLicenses(a, b)) \cup Claims(stash)
                = (Claims(a.licenses) \cup Claims(a.stash)) \cup (Claims(b.licenses) \cup Claims(b.stash))
           /\ NamedClaims(FoldedLicenses(a, b)) \cup NamedClaims(stash)
                = (NamedClaims(a.licenses) \cup NamedClaims(a.stash))
                    \cup (NamedClaims(b.licenses) \cup NamedClaims(b.stash))
  <1> DEFINE none == << >>
             left == DetectionLicenses(a)
             right == DetectionLicenses(b)
             both == MergeLicenses(left, right)
             first == MergeLicenses(none, both)
             second == MergeLicenses(none, b.licenses)
             all == MergeLicenses(first, second)
  <1>1. FoldedLicenses(a, b) = all BY DEF FoldedLicenses
  <1>2. b.licenses \in Seq(LicenseRecords) BY DEF IsNode
  <1>3. none \in Seq(LicenseRecords) /\ Claims(none) = {} /\ NamedClaims(none) = {}
    BY DEF Claims, NamedClaims, Range
  <1>4. /\ left \in Seq(LicenseRecords)
        /\ Claims(left) = Claims(a.licenses) \cup Claims(a.stash)
        /\ NamedClaims(left) = NamedClaims(a.licenses) \cup NamedClaims(a.stash)
        /\ right \in Seq(LicenseRecords)
        /\ Claims(right) = Claims(b.licenses) \cup Claims(b.stash)
        /\ NamedClaims(right) = NamedClaims(b.licenses) \cup NamedClaims(b.stash)
    BY DetectionLicensesKeep
  <1> HIDE DEF none, left, right
  <1>5. /\ both \in Seq(LicenseRecords)
        /\ Claims(both) = Claims(left) \cup Claims(right)
        /\ NamedClaims(both) = NamedClaims(left) \cup NamedClaims(right)
    BY <1>4, MergeLicensesKeeps
  <1> HIDE DEF both
  <1>6. /\ first \in Seq(LicenseRecords)
        /\ Claims(first) = Claims(none) \cup Claims(both)
        /\ NamedClaims(first) = NamedClaims(none) \cup NamedClaims(both)
    BY <1>3, <1>5, MergeLicensesKeeps
  <1>7. /\ second \in Seq(LicenseRecords)
        /\ Claims(second) = Claims(none) \cup Claims(b.licenses)
        /\ NamedClaims(second) = NamedClaims(none) \cup NamedClaims(b.licenses)
    BY <1>2, <1>3, MergeLicensesKeeps
  <1> HIDE DEF first, second
  <1>8. /\ all \in Seq(LicenseRecords)
        /\ Claims(all) = Claims(first) \cup Claims(second)
        /\ NamedClaims(all) = NamedClaims(first) \cup NamedClaims(second)
    BY <1>6, <1>7, MergeLicensesKeeps
  <1> HIDE DEF all
  <1>9. QED BY <1>1, <1>3, <1>4, <1>5, <1>6, <1>7, <1>8

(* A folded node, field by field. *)
LEMMA FoldedFields ==
    ASSUME NEW a, NEW b, IsNode(a), IsNode(b)
    PROVE  LET locations == MergeNodeLocations(a.locations, b.locations) IN
           foldNodes(a, b) =
             [relationship |-> MergeDependencyRelationship(a.relationship, b.relationship),
              scopes |-> a.scopes \cup Known(b.scopes) \cup LocationScopes(locations),
              locations |-> locations,
              origins |-> MergeOrigins(a.origins, b.origins),
              source |-> IF ~RegistryMatchEligible(a) /\ RegistryMatchEligible(b) THEN b.source ELSE a.source,
              references |-> MergeExternalReferences(a.references, b.references),
              licenses |-> FoldedLicenses(a, b),
              stash |-> IF a.stash = << >> THEN b.stash ELSE a.stash,
              sourceScope |-> FillGap(NormalizeSourceScope(a.sourceScope), NormalizeSourceScope(b.sourceScope)),
              foundBy |-> FillGap(a.foundBy, b.foundBy),
              matched |-> (a.matched \/ b.matched)]
  <1> DEFINE f == foldNodes(a, b)
             locations == MergeNodeLocations(a.locations, b.locations)
             references == MergeExternalReferences(a.references, b.references)
             relationship == MergeDependencyRelationship(a.relationship, b.relationship)
             scopes == a.scopes \cup Known(b.scopes) \cup LocationScopes(locations)
             source == IF ~RegistryMatchEligible(a) /\ RegistryMatchEligible(b) THEN b.source ELSE a.source
             licenses == FoldedLicenses(a, b)
             stash == IF a.stash = << >> THEN b.stash ELSE a.stash
             origins == MergeOrigins(a.origins, b.origins)
             sourceScope == FillGap(NormalizeSourceScope(a.sourceScope), NormalizeSourceScope(b.sourceScope))
             foundBy == FillGap(a.foundBy, b.foundBy)
  <1>1. f = [a EXCEPT !.relationship = relationship, !.scopes = scopes, !.locations = locations,
                      !.origins = origins, !.source = source, !.references = references,
                      !.licenses = licenses, !.sourceScope = sourceScope, !.foundBy = foundBy,
                      !.matched = (a.matched \/ b.matched), !.stash = stash]
    BY DEF foldNodes
  <1> HIDE DEF f, locations, references, relationship, scopes, source, licenses, stash,
               origins, sourceScope, foundBy
  <1>2. a = [relationship |-> a.relationship, scopes |-> a.scopes, locations |-> a.locations,
             origins |-> a.origins, source |-> a.source, references |-> a.references,
             licenses |-> a.licenses, stash |-> a.stash, sourceScope |-> a.sourceScope,
             foundBy |-> a.foundBy, matched |-> a.matched]
    BY DEF IsNode
  <1>3. f = [relationship |-> relationship, scopes |-> scopes, locations |-> locations,
             origins |-> origins, source |-> source, references |-> references,
             licenses |-> licenses, stash |-> stash, sourceScope |-> sourceScope,
             foundBy |-> foundBy, matched |-> (a.matched \/ b.matched)]
    BY <1>1, <1>2
  <1>4. QED
    BY <1>3 DEF f, locations, references, relationship, scopes, source, licenses, stash,
                origins, sourceScope, foundBy

(* Two nodes folded say what the witnesses of both say together. *)
LEMMA FoldNodesKeeps ==
    ASSUME NEW a, NEW b, NEW V, NEW W, Folded(a, V), Folded(b, W)
    PROVE  /\ Folded(foldNodes(a, b), V \cup W)
           /\ Lifted(foldNodes(a, b), V \cup W)
  <1> DEFINE f == foldNodes(a, b)
             locations == MergeNodeLocations(a.locations, b.locations)
             references == MergeExternalReferences(a.references, b.references)
             relationship == MergeDependencyRelationship(a.relationship, b.relationship)
             scopes == a.scopes \cup Known(b.scopes) \cup LocationScopes(locations)
             source == IF ~RegistryMatchEligible(a) /\ RegistryMatchEligible(b) THEN b.source ELSE a.source
             licenses == FoldedLicenses(a, b)
             stash == IF a.stash = << >> THEN b.stash ELSE a.stash
  <1>1. IsNode(a) /\ IsNode(b) BY DEF Folded
  <1>2. /\ IsNode(f) <=> /\ relationship \in RelationshipWords
                         /\ scopes \subseteq STRING
                         /\ locations \in Seq(UsageRecords)
                         /\ references \in Seq(ReferenceRecords)
                         /\ licenses \in Seq(LicenseRecords)
                         /\ stash \in Seq(LicenseRecords)
        /\ f.licenses = licenses
        /\ f.stash = stash
        /\ f.relationship = relationship
        /\ f.scopes = scopes
        /\ f.locations = locations
        /\ f.references = references
        /\ f.source = source
        /\ f.matched = (a.matched \/ b.matched)
    <2> HIDE DEF locations, references, relationship, scopes, source, licenses, stash
    <2> DEFINE origins == MergeOrigins(a.origins, b.origins)
               sourceScope == FillGap(NormalizeSourceScope(a.sourceScope), NormalizeSourceScope(b.sourceScope))
               foundBy == FillGap(a.foundBy, b.foundBy)
    <2>1. f = [relationship |-> relationship, scopes |-> scopes, locations |-> locations,
               origins |-> origins, source |-> source, references |-> references,
               licenses |-> licenses, stash |-> stash, sourceScope |-> sourceScope,
               foundBy |-> foundBy, matched |-> (a.matched \/ b.matched)]
      BY <1>1, FoldedFields DEF locations, references, relationship, scopes, source, licenses, stash
    <2>2. origins \in Seq(OriginRecords)
      <3>1. a.origins \in Seq(OriginRecords) /\ b.origins \in Seq(OriginRecords) BY <1>1 DEF IsNode
      <3>2. QED BY <3>1, MergedOrigins
    <2>3. sourceScope \in STRING /\ foundBy \in STRING
      <3>1. /\ a.sourceScope \in STRING /\ b.sourceScope \in STRING
            /\ a.foundBy \in STRING /\ b.foundBy \in STRING
        BY <1>1 DEF IsNode
      <3>2. QED BY <3>1, NormalizedScope
    <2>4. a.matched \in BOOLEAN /\ b.matched \in BOOLEAN BY <1>1 DEF IsNode
    <2> HIDE DEF f, origins, sourceScope, foundBy
    <2>5. QED BY <2>1, <2>2, <2>3, <2>4 DEF IsNode
  <1>3. /\ a.relationship \in RelationshipWords /\ b.relationship \in RelationshipWords
        /\ a.scopes \subseteq STRING /\ b.scopes \subseteq STRING
        /\ a.locations \in Seq(UsageRecords) /\ b.locations \in Seq(UsageRecords)
        /\ a.references \in Seq(ReferenceRecords) /\ b.references \in Seq(ReferenceRecords)
        /\ a.matched \in BOOLEAN /\ b.matched \in BOOLEAN
    BY <1>1 DEF IsNode
  <1>4. /\ relationship \in {a.relationship, b.relationship}
        /\ Rank(a.relationship) <= Rank(relationship) /\ Rank(b.relationship) <= Rank(relationship)
    <2>1. Rank(a.relationship) \in 0 .. 3 /\ Rank(b.relationship) \in 0 .. 3 BY <1>3, RankType
    <2>2. QED BY <2>1 DEF MergeDependencyRelationship
  <1>5. /\ locations \in Seq(UsageRecords)
        /\ ScopeFacts(Range(locations)) = ScopeFacts(Range(a.locations)) \cup ScopeFacts(Range(b.locations))
        /\ RankFacts(Range(locations)) = RankFacts(Range(a.locations)) \cup RankFacts(Range(b.locations))
    BY <1>3, MergeNodeLocationsKeep
  <1>6. /\ references \in Seq(ReferenceRecords)
        /\ RefKeys(Range(references)) = RefKeys(Range(a.references)) \cup RefKeys(Range(b.references))
        /\ HashFacts(Range(references)) = HashFacts(Range(a.references)) \cup HashFacts(Range(b.references))
        /\ CommentFacts(Range(references)) = CommentFacts(Range(a.references)) \cup CommentFacts(Range(b.references))
    <2> DEFINE A == Range(a.references)
               B == Range(b.references)
    <2>1. /\ references \in Seq(ReferenceRecords)
          /\ RefKeys(Range(references)) = RefKeys(A \cup B)
          /\ HashFacts(Range(references)) = HashFacts(A \cup B)
          /\ CommentFacts(Range(references)) = CommentFacts(A \cup B)
      BY <1>3, MergeExternalReferencesKeep
    <2> HIDE DEF references, A, B
    <2>2. /\ RefKeys(A \cup B) = RefKeys(A) \cup RefKeys(B)
          /\ HashFacts(A \cup B) = HashFacts(A) \cup HashFacts(B)
          /\ CommentFacts(A \cup B) = CommentFacts(A) \cup CommentFacts(B)
      BY FactsOfRefUnion
    <2>3. QED BY <2>1, <2>2 DEF A, B
  <1>l. /\ licenses \in Seq(LicenseRecords) /\ stash \in Seq(LicenseRecords)
        /\ Claims(licenses) \cup Claims(stash) = LicensesSaid(V \cup W)
        /\ NamedClaims(licenses) \cup NamedClaims(stash) = LicensesNamed(V \cup W)
    <2>1. stash = a.stash \/ stash = b.stash OBVIOUS
    <2>2. a.stash \in Seq(LicenseRecords) /\ b.stash \in Seq(LicenseRecords) BY <1>1 DEF IsNode
    <2> HIDE DEF stash
    <2>3. /\ licenses \in Seq(LicenseRecords)
          /\ Claims(licenses) \cup Claims(stash)
               = (Claims(a.licenses) \cup Claims(a.stash)) \cup (Claims(b.licenses) \cup Claims(b.stash))
          /\ NamedClaims(licenses) \cup NamedClaims(stash)
               = (NamedClaims(a.licenses) \cup NamedClaims(a.stash))
                   \cup (NamedClaims(b.licenses) \cup NamedClaims(b.stash))
      BY <1>1, <2>1, FoldedLicensesKeep
    <2>4. /\ Claims(a.licenses) \cup Claims(a.stash) = LicensesSaid(V)
          /\ NamedClaims(a.licenses) \cup NamedClaims(a.stash) = LicensesNamed(V)
          /\ Claims(b.licenses) \cup Claims(b.stash) = LicensesSaid(W)
          /\ NamedClaims(b.licenses) \cup NamedClaims(b.stash) = LicensesNamed(W)
      BY DEF Folded
    <2>5. /\ LicensesSaid(V \cup W) = LicensesSaid(V) \cup LicensesSaid(W)
          /\ LicensesNamed(V \cup W) = LicensesNamed(V) \cup LicensesNamed(W)
      BY SaidByUnion
    <2> HIDE DEF licenses
    <2>6. QED BY <2>1, <2>2, <2>3, <2>4, <2>5
  <1> HIDE DEF f, locations, references, relationship, source, licenses, stash
  <1>7. /\ ScopeFacts(Range(locations)) = ScopeFacts(SitesOf(V \cup W))
        /\ RankFacts(Range(locations)) = RankFacts(SitesOf(V \cup W))
    <2>1. SitesOf(V \cup W) = SitesOf(V) \cup SitesOf(W) BY SaidByUnion
    <2>2. /\ ScopeFacts(SitesOf(V) \cup SitesOf(W)) = ScopeFacts(SitesOf(V)) \cup ScopeFacts(SitesOf(W))
          /\ RankFacts(SitesOf(V) \cup SitesOf(W)) = RankFacts(SitesOf(V)) \cup RankFacts(SitesOf(W))
      BY FactsOfUnion
    <2>3. /\ ScopeFacts(Range(a.locations)) = ScopeFacts(SitesOf(V))
          /\ ScopeFacts(Range(b.locations)) = ScopeFacts(SitesOf(W))
          /\ RankFacts(Range(a.locations)) = RankFacts(SitesOf(V))
          /\ RankFacts(Range(b.locations)) = RankFacts(SitesOf(W))
      BY DEF Folded
    <2>4. QED BY <1>5, <2>1, <2>2, <2>3
  <1>8. /\ RefKeys(Range(references)) = RefKeys(RefsOf(V \cup W))
        /\ HashFacts(Range(references)) = HashFacts(RefsOf(V \cup W))
        /\ CommentFacts(Range(references)) = CommentFacts(RefsOf(V \cup W))
    <2>1. RefsOf(V \cup W) = RefsOf(V) \cup RefsOf(W) BY SaidByUnion
    <2>2. /\ RefKeys(RefsOf(V) \cup RefsOf(W)) = RefKeys(RefsOf(V)) \cup RefKeys(RefsOf(W))
          /\ HashFacts(RefsOf(V) \cup RefsOf(W)) = HashFacts(RefsOf(V)) \cup HashFacts(RefsOf(W))
          /\ CommentFacts(RefsOf(V) \cup RefsOf(W)) = CommentFacts(RefsOf(V)) \cup CommentFacts(RefsOf(W))
      BY FactsOfRefUnion
    <2>3. /\ RefKeys(Range(a.references)) = RefKeys(RefsOf(V))
          /\ RefKeys(Range(b.references)) = RefKeys(RefsOf(W))
          /\ HashFacts(Range(a.references)) = HashFacts(RefsOf(V))
          /\ HashFacts(Range(b.references)) = HashFacts(RefsOf(W))
          /\ CommentFacts(Range(a.references)) = CommentFacts(RefsOf(V))
          /\ CommentFacts(Range(b.references)) = CommentFacts(RefsOf(W))
      BY DEF Folded
    <2>4. QED BY <1>6, <2>1, <2>2, <2>3
  <1>9. Known(scopes) = Known(ScopesOf(V \cup W) \cup SiteScopes(V \cup W))
    <2> DEFINE A == Known(ScopesOf(V))
               B == Known(ScopesOf(W))
               L == Known(SiteScopes(V \cup W))
    <2>1. LocationScopes(locations) = L
      <3>1. \A x : x \in LocationScopes(locations) <=> \E p, r : <<p, r, x>> \in ScopeFacts(Range(locations))
        BY ScopesFromFacts DEF LocationScopes
      <3>2. \A x : x \in L <=> \E p, r : <<p, r, x>> \in ScopeFacts(SitesOf(V \cup W))
        BY ScopesFromFacts DEF SiteScopes
      <3> HIDE DEF L
      <3>3. QED BY <3>1, <3>2, <1>7
    <2>2. /\ A \subseteq Known(a.scopes) /\ Known(a.scopes) \subseteq A \cup Known(SiteScopes(V))
          /\ B \subseteq Known(b.scopes) /\ Known(b.scopes) \subseteq B \cup Known(SiteScopes(W))
      BY DEF Folded, Known
    <2>k. \A S, T : Known(S \cup T) = Known(S) \cup Known(T) BY DEF Known
    <2>u. /\ ScopesOf(V \cup W) = ScopesOf(V) \cup ScopesOf(W)
          /\ SiteScopes(V \cup W) = SiteScopes(V) \cup SiteScopes(W)
      BY SaidByUnion
    <2>3. L = Known(SiteScopes(V)) \cup Known(SiteScopes(W))
      BY <2>k, <2>u
    <2>4. Known(ScopesOf(V \cup W) \cup SiteScopes(V \cup W)) = A \cup B \cup L
      <3> DEFINE S == ScopesOf(V \cup W)
                 T == SiteScopes(V \cup W)
      <3>1. Known(S) = A \cup B BY <2>k, <2>u
      <3>2. Known(T) = L OBVIOUS
      <3> HIDE DEF S, T, A, B, L
      <3>3. Known(S \cup T) = A \cup B \cup L BY <2>k, <3>1, <3>2
      <3>4. QED BY <3>3 DEF S, T
    <2>5. Known(scopes) = Known(a.scopes) \cup Known(b.scopes) \cup L
      BY <2>1 DEF Known
    <2> HIDE DEF A, B, L, scopes
    <2>6. QED BY <2>2, <2>3, <2>4, <2>5
  <1>10. scopes \subseteq STRING
    <2>1. \A l \in Range(locations) : l.scopes \subseteq STRING
      <3>1. Range(locations) \subseteq UsageRecords BY <1>5, ElementsOfSeq
      <3>2. QED BY <3>1 DEF UsageRecords
    <2>2. QED BY <1>3, <2>1 DEF Known, LocationScopes
  <1>11. relationship \in RelationshipWords BY <1>3, <1>4
  <1> HIDE DEF scopes
  <1>12. IsNode(f) BY <1>2, <1>l, <1>5, <1>6, <1>10, <1>11
  <1>13. /\ relationship \in {w.relationship : w \in V \cup W}
         /\ \A w \in V \cup W : Rank(w.relationship) <= Rank(relationship)
    <2>1. /\ a.relationship \in {w.relationship : w \in V} /\ b.relationship \in {w.relationship : w \in W}
          /\ \A w \in V : Rank(w.relationship) <= Rank(a.relationship)
          /\ \A w \in W : Rank(w.relationship) <= Rank(b.relationship)
      BY DEF Folded
    <2>2. \A x : Rank(x) \in 0 .. 3 BY DEF Rank
    <2>3. QED BY <1>4, <2>1, <2>2
  <1>14. RegistryMatchEligible(f) <=> \E w \in V \cup W : RegistryMatchEligible(w)
    <2>1. RegistryMatchEligible(f) <=> RegistryMatchEligible(a) \/ RegistryMatchEligible(b)
      <3>1. CASE ~RegistryMatchEligible(a) /\ RegistryMatchEligible(b)
        <4>1. f.source = b.source BY <1>2, <3>1 DEF source
        <4>2. RegistryMatchEligible(f) <=> RegistryMatchEligible(b) BY <4>1 DEF RegistryMatchEligible
        <4>3. QED BY <4>2, <3>1
      <3>2. CASE ~(~RegistryMatchEligible(a) /\ RegistryMatchEligible(b))
        <4>1. f.source = a.source BY <1>2, <3>2 DEF source
        <4>2. RegistryMatchEligible(f) <=> RegistryMatchEligible(a) BY <4>1 DEF RegistryMatchEligible
        <4>3. QED BY <4>2, <3>2
      <3>3. QED BY <3>1, <3>2
    <2>2. /\ RegistryMatchEligible(a) <=> \E w \in V : RegistryMatchEligible(w)
          /\ RegistryMatchEligible(b) <=> \E w \in W : RegistryMatchEligible(w)
      BY DEF Folded
    <2>3. QED BY <2>1, <2>2
  <1>15. f.matched <=> \E w \in V \cup W : w.matched
    <2>1. /\ a.matched <=> \E w \in V : w.matched
          /\ b.matched <=> \E w \in W : w.matched
      BY DEF Folded
    <2>2. QED BY <1>2, <2>1
  <1>16. Lifted(f, V \cup W) BY <1>2, <1>9 DEF Lifted
  <1>17. Known(ScopesOf(V \cup W)) \subseteq Known(f.scopes) BY <1>2, <1>9 DEF Known
  <1>18. Folded(f, V \cup W)
    BY <1>2, <1>l, <1>7, <1>8, <1>9, <1>12, <1>13, <1>14, <1>15, <1>17 DEF Folded
  <1>19. QED BY <1>16, <1>18 DEF f

(* A witness that arrives, the first or a later one, or a folded node that
   arrives from another graph. *)
LEMMA InsertedKeeps ==
    ASSUME NEW current, NEW V, NEW n, NEW W, Folded(n, W),
           current # NoNode => Folded(current, V),
           current = NoNode => V = {}
    PROVE  /\ Folded(Inserted(current, n), V \cup W)
           /\ current # NoNode => Lifted(Inserted(current, n), V \cup W)
           /\ Inserted(current, n) # NoNode
  <1>1. /\ Folded(Inserted(current, n), V \cup W)
        /\ current # NoNode => Lifted(Inserted(current, n), V \cup W)
    BY FoldNodesKeeps DEF Inserted
  <1>2. IsNode(Inserted(current, n)) BY <1>1 DEF Folded
  <1>3. QED BY <1>1, <1>2, NodesArePresent

(* The reports are nodes. *)
LEMMA ReportsAreNodes ==
    ASSUME NEW w \in Reports
    PROVE  IsNode(w)
  BY ReportAssumption

(* No graph holds a node before the first witness. *)
LEMMA NodeInvInit == FoldInit => NodeInv
  <1> DEFINE none == << >>
  <1> SUFFICES ASSUME FoldInit PROVE NodeInv OBVIOUS
  <1>1. none \in Seq(Reports) /\ Len(none) = 0 OBVIOUS
  <1>2. node = [g \in Graphs |-> NoNode] /\ seen = [g \in Graphs |-> none] BY DEF FoldInit
  <1>3. \A g \in Graphs : seen[g] = << >> BY <1>2
  <1> HIDE DEF none
  <1>4. /\ \A g \in Graphs : node[g] = NoNode /\ Len(seen[g]) = 0
        /\ node = [g \in Graphs |-> node[g]]
        /\ seen \in [Graphs -> Seq(Reports)]
    BY <1>1, <1>2
  <1>5. QED BY <1>3, <1>4 DEF NodeInv

(* A report inserted into a graph. *)
LEMMA NodeInvInsert ==
    ASSUME NodeInv, NEW g \in Graphs, NEW w \in Reports, InsertNode(g, w)
    PROVE  NodeInv'
  <1> DEFINE n == Inserted(node[g], w)
             V == Range(seen[g])
             s == Append(seen[g], w)
  <1>1. /\ node = [h \in Graphs |-> node[h]]
        /\ seen \in [Graphs -> Seq(Reports)]
        /\ node[g] = NoNode <=> seen[g] = << >>
        /\ node[g] # NoNode => Folded(node[g], V)
        /\ swift' = swift
        /\ node' = [node EXCEPT ![g] = n]
        /\ seen' = [seen EXCEPT ![g] = s]
    BY DEF NodeInv, InsertNode
  <1>2. seen[g] \in Seq(Reports) /\ s \in Seq(Reports) /\ Len(seen[g]) \in Nat /\ Len(s) = Len(seen[g]) + 1
    BY <1>1
  <1>3. Range(s) = V \cup {w} BY <1>2, RangeOfAppend
  <1>4. Folded(w, {w}) BY ReportsAreNodes, SaidByOne
  <1>5. seen[g] = << >> => V = {} BY DEF Range
  <1>6. seen[g] # << >> <=> Len(seen[g]) > 0 BY <1>2
  <1>7. s # << >> BY <1>2
  <1> HIDE DEF n, s, V
  <1>8. Folded(n, V \cup {w}) /\ (node[g] # NoNode => Lifted(n, V \cup {w})) /\ n # NoNode
    BY <1>1, <1>4, <1>5, InsertedKeeps DEF n
  <1>9. /\ node'[g] = n /\ seen'[g] = s
        /\ \A h \in Graphs : h # g => node'[h] = node[h] /\ seen'[h] = seen[h]
        /\ node' = [h \in Graphs |-> node'[h]]
        /\ seen' \in [Graphs -> Seq(Reports)]
    BY <1>1, <1>2
  <1>10. \A h \in Graphs : Folded(node'[h], Range(seen'[h])) => Folded(node[h], Range(seen[h]))'
    BY <1>1 DEF Folded, RegistryMatchEligible
  <1>11. \A h \in Graphs : node'[h] = NoNode <=> seen'[h] = << >>
    <2>1. \A h \in Graphs : node[h] = NoNode <=> seen[h] = << >> BY DEF NodeInv
    <2>2. QED BY <1>7, <1>8, <1>9, <2>1
  <1>12. \A h \in Graphs : node'[h] # NoNode => Folded(node[h], Range(seen[h]))'
    <2>1. \A h \in Graphs : node[h] # NoNode => Folded(node[h], Range(seen[h])) BY DEF NodeInv
    <2>2. Folded(n, Range(s)) BY <1>3, <1>8
    <2>3. \A h \in Graphs : node'[h] # NoNode => Folded(node'[h], Range(seen'[h]))
      BY <1>9, <2>1, <2>2
    <2>4. QED BY <2>3, <1>10
  <1>13. \A h \in Graphs : Len(seen'[h]) > 1 => Lifted(node'[h], Range(seen'[h]))
    <2>1. \A h \in Graphs : Len(seen[h]) > 1 => Lifted(node[h], Range(seen[h])) BY DEF NodeInv
    <2>2. Len(s) > 1 => Lifted(n, Range(s)) BY <1>1, <1>2, <1>3, <1>6, <1>8
    <2>3. QED BY <1>9, <2>1, <2>2
  <1>14. QED BY <1>9, <1>11, <1>12, <1>13 DEF NodeInv

(* The node of one graph folded into another. *)
LEMMA NodeInvMerge ==
    ASSUME NodeInv, NEW dst \in Graphs, NEW src \in Graphs, MergeGraph(dst, src)
    PROVE  NodeInv'
  <1> DEFINE n == Inserted(node[dst], node[src])
             V == Range(seen[dst])
             W == Range(seen[src])
             s == seen[dst] \o seen[src]
  <1>1. /\ node = [h \in Graphs |-> node[h]]
        /\ seen \in [Graphs -> Seq(Reports)]
        /\ node[dst] = NoNode <=> seen[dst] = << >>
        /\ node[dst] # NoNode => Folded(node[dst], V)
        /\ node[src] # NoNode /\ seen[src] # << >> /\ Folded(node[src], W)
        /\ Len(seen[src]) > 1 => Lifted(node[src], W)
        /\ swift' = swift
        /\ node' = [node EXCEPT ![dst] = n]
        /\ seen' = [seen EXCEPT ![dst] = s]
    BY DEF NodeInv, MergeGraph
  <1>2. /\ seen[dst] \in Seq(Reports) /\ seen[src] \in Seq(Reports) /\ s \in Seq(Reports)
        /\ Len(seen[dst]) \in Nat /\ Len(seen[src]) \in Nat
        /\ Len(s) = Len(seen[dst]) + Len(seen[src])
    BY <1>1
  <1>3. Range(s) = V \cup W BY <1>2, RangeOfJoin
  <1>5. seen[dst] = << >> => V = {} BY DEF Range
  <1>6. /\ seen[dst] = << >> <=> Len(seen[dst]) = 0
        /\ seen[src] = << >> <=> Len(seen[src]) = 0
    BY <1>2
  <1>7. s # << >> BY <1>1, <1>2, <1>6
  <1>0. node[dst] = NoNode => n = node[src] BY DEF Inserted
  <1> HIDE DEF n, s, V, W
  <1>8. Folded(n, V \cup W) /\ (node[dst] # NoNode => Lifted(n, V \cup W)) /\ n # NoNode
    BY <1>1, <1>5, InsertedKeeps DEF n
  <1>9. /\ node'[dst] = n /\ seen'[dst] = s
        /\ \A h \in Graphs : h # dst => node'[h] = node[h] /\ seen'[h] = seen[h]
        /\ node' = [h \in Graphs |-> node'[h]]
        /\ seen' \in [Graphs -> Seq(Reports)]
    BY <1>1, <1>2
  <1>10. \A h \in Graphs : Folded(node'[h], Range(seen'[h])) => Folded(node[h], Range(seen[h]))'
    BY <1>1 DEF Folded, RegistryMatchEligible
  <1>11. \A h \in Graphs : node'[h] = NoNode <=> seen'[h] = << >>
    <2>1. \A h \in Graphs : node[h] = NoNode <=> seen[h] = << >> BY DEF NodeInv
    <2>2. QED BY <1>7, <1>8, <1>9, <2>1
  <1>12. \A h \in Graphs : node'[h] # NoNode => Folded(node[h], Range(seen[h]))'
    <2>1. \A h \in Graphs : node[h] # NoNode => Folded(node[h], Range(seen[h])) BY DEF NodeInv
    <2>2. Folded(n, Range(s)) BY <1>3, <1>8
    <2>3. \A h \in Graphs : node'[h] # NoNode => Folded(node'[h], Range(seen'[h]))
      BY <1>9, <2>1, <2>2
    <2>4. QED BY <2>3, <1>10
  <1>13. \A h \in Graphs : Len(seen'[h]) > 1 => Lifted(node'[h], Range(seen'[h]))
    <2>1. \A h \in Graphs : Len(seen[h]) > 1 => Lifted(node[h], Range(seen[h])) BY DEF NodeInv
    <2>2. Len(s) > 1 => Lifted(n, Range(s))
      <3>1. CASE node[dst] = NoNode
        <4>1. V = {} /\ Len(s) = Len(seen[src]) BY <3>1, <1>1, <1>2, <1>5, <1>6
        <4>2. V \cup W = W BY <4>1
        <4>3. QED BY <4>1, <4>2, <3>1, <1>0, <1>1, <1>3
      <3>2. CASE node[dst] # NoNode BY <3>2, <1>3, <1>8
      <3>3. QED BY <3>1, <3>2
    <2>3. QED BY <1>9, <2>1, <2>2
  <1>14. QED BY <1>9, <1>11, <1>12, <1>13 DEF NodeInv

(* The invariant through every step, those of the registry included. *)
LEMMA NodeInvNext == NodeInv /\ [Next]_vars => NodeInv'
  <1> SUFFICES ASSUME NodeInv, [Next]_vars PROVE NodeInv' OBVIOUS
  <1>1. CASE FoldNext
    <2>1. CASE \E g \in Graphs, w \in Reports : InsertNode(g, w) BY <2>1, NodeInvInsert
    <2>2. CASE \E dst, src \in Graphs : MergeGraph(dst, src) BY <2>2, NodeInvMerge
    <2>3. QED BY <1>1, <2>1, <2>2 DEF FoldNext
  <1>2. CASE UNCHANGED foldVars
    <2>1. swift' = swift /\ node' = node /\ seen' = seen BY <1>2 DEF foldVars
    <2>2. ASSUME NEW h \in Graphs, Folded(node[h], Range(seen[h]))
          PROVE  Folded(node[h], Range(seen[h]))'
      <3>1. node'[h] = node[h] /\ seen'[h] = seen[h] BY <2>1
      <3>2. \A w : RegistryMatchEligible(w)' <=> RegistryMatchEligible(w)
        BY <2>1 DEF RegistryMatchEligible
      <3>3. RegistryMatchEligible(node[h])' <=> \E w \in Range(seen[h])' : RegistryMatchEligible(w)'
        <4>1. RegistryMatchEligible(node[h])' <=> RegistryMatchEligible(node[h])
          BY <2>1 DEF RegistryMatchEligible
        <4>2. QED BY <2>2, <3>1, <3>2, <4>1 DEF Folded
      <3>4. QED BY <2>2, <3>1, <3>3, Zenon DEF Folded
    <2>3. QED BY <2>1, <2>2 DEF NodeInv
  <1>3. QED BY <1>1, <1>2 DEF Next, vars

(* What the invariant says of one graph is what the property says of it. *)
LEMMA NodeInvIsOrderFree == NodeInv => FoldIgnoresOrder
  <1> SUFFICES ASSUME NodeInv, NEW g \in Present
               PROVE  LET witnesses == Range(seen[g]) IN
                      /\ node[g].relationship = Strongest({w.relationship : w \in witnesses})
                      /\ CanonicalLocations(node[g].locations) = UsagesOf(Sites(g))
                      /\ Range(Published(g).references) = ReferencesOf(UNION {Range(w.references) : w \in witnesses})
                      /\ RegistryMatchEligible(node[g]) <=> \E w \in witnesses : RegistryMatchEligible(w)
                      /\ node[g].matched <=> \E w \in witnesses : w.matched
                      /\ Len(seen[g]) > 1 =>
                           Known(node[g].scopes) = Known((UNION {w.scopes : w \in witnesses}) \cup (UNION {s.scopes : s \in Sites(g)}))
    BY DEF FoldIgnoresOrder
  <1> DEFINE n == node[g]
             W == Range(seen[g])
  <1>1. /\ g \in Graphs /\ Folded(n, W) /\ (Len(seen[g]) > 1 => Lifted(n, W))
        /\ seen[g] \in Seq(Reports)
    BY DEF NodeInv, Present
  <1>2. \A w \in W : IsNode(w) BY <1>1, ElementsOfSeq, ReportsAreNodes
  <1>3. Sites(g) = SitesOf(W) BY DEF Sites, SitesOf
  <1>4. Published(g).references = MergeExternalReferences(<< >>, n.references)
    BY DEF Published, PackageFromDependencyNode
  <1> HIDE DEF n, W
  <1>5. SitesOf(W) \in SUBSET UsageRecords
    <2>1. \A w \in W : Range(w.locations) \subseteq UsageRecords BY <1>2, ElementsOfSeq DEF IsNode
    <2>2. QED BY <2>1 DEF SitesOf
  <1>6. RefsOf(W) \in SUBSET ReferenceRecords
    <2>1. \A w \in W : Range(w.references) \subseteq ReferenceRecords BY <1>2, ElementsOfSeq DEF IsNode
    <2>2. QED BY <2>1 DEF RefsOf
  <1>7. IsNode(n) BY <1>1 DEF Folded
  <1>8. n.relationship = Strongest({w.relationship : w \in W})
    <2> DEFINE words == {w.relationship : w \in W}
    <2>1. words \subseteq RelationshipWords BY <1>2 DEF IsNode
    <2>2. n.relationship \in words /\ \A x \in words : Rank(x) <= Rank(n.relationship)
      BY <1>1 DEF Folded
    <2> HIDE DEF words
    <2> DEFINE x == Strongest(words)
    <2>3. x \in words /\ \A y \in words : Rank(y) <= Rank(x) BY <2>2 DEF Strongest
    <2> HIDE DEF x
    <2>4. Rank(x) \in 0 .. 3 /\ Rank(n.relationship) \in 0 .. 3 BY <2>1, <2>2, <2>3, RankType
    <2>5. Rank(x) = Rank(n.relationship) BY <2>2, <2>3, <2>4
    <2>6. x = n.relationship BY <2>1, <2>2, <2>3, <2>5, RankType
    <2>7. QED BY <2>6 DEF x, words
  <1>9. CanonicalLocations(n.locations) = UsagesOf(SitesOf(W))
    <2>1. n.locations \in Seq(UsageRecords) BY <1>7 DEF IsNode
    <2>2. /\ ScopeFacts(Range(n.locations)) = ScopeFacts(SitesOf(W))
          /\ RankFacts(Range(n.locations)) = RankFacts(SitesOf(W))
      BY <1>1 DEF Folded
    <2>3. QED BY <1>5, <2>1, <2>2, CanonicalFromFacts
  <1>10. Range(Published(g).references) = ReferencesOf(RefsOf(W))
    <2> DEFINE none == << >>
               merged == MergeExternalReferences(none, n.references)
               all == Range(none) \cup Range(n.references)
    <2>1. none \in Seq(ReferenceRecords) /\ Range(none) = {} BY DEF Range
    <2>2. Published(g).references = merged BY <1>4
    <2>3. n.references \in Seq(ReferenceRecords) BY <1>7 DEF IsNode
    <2> HIDE DEF none
    <2>4. /\ merged \in Seq(ReferenceRecords)
          /\ KeyedOnce(merged)
          /\ RefKeys(Range(merged)) = RefKeys(all)
          /\ HashFacts(Range(merged)) = HashFacts(all)
          /\ CommentFacts(Range(merged)) = CommentFacts(all)
      BY <2>1, <2>3, MergeExternalReferencesKeep
    <2>5. all = Range(n.references) BY <2>1
    <2> HIDE DEF merged, all
    <2>6. /\ RefKeys(Range(merged)) = RefKeys(RefsOf(W))
          /\ HashFacts(Range(merged)) = HashFacts(RefsOf(W))
          /\ CommentFacts(Range(merged)) = CommentFacts(RefsOf(W))
      BY <1>1, <2>4, <2>5 DEF Folded
    <2>7. Range(merged) = ReferencesOf(RefsOf(W)) BY <1>6, <2>4, <2>6, ReferencesFromFacts
    <2>8. QED BY <2>2, <2>7
  <1>11. /\ RegistryMatchEligible(n) <=> \E w \in W : RegistryMatchEligible(w)
         /\ n.matched <=> \E w \in W : w.matched
    BY <1>1 DEF Folded
  <1>12. Len(seen[g]) > 1 =>
            Known(n.scopes) = Known((UNION {w.scopes : w \in W}) \cup (UNION {s.scopes : s \in Sites(g)}))
    BY <1>1, <1>3 DEF Lifted, ScopesOf, SiteScopes
  <1>13. RefsOf(W) = UNION {Range(w.references) : w \in W} BY DEF RefsOf
  <1>14. QED BY <1>3, <1>8, <1>9, <1>10, <1>11, <1>12, <1>13 DEF n, W

(* Whatever the reports, the graphs and the merges: the inductive invariant of
   the node folds (Graph.InsertNode, foldNodes, MergeGraph). *)
THEOREM NodesSayWhatWasSeen == Spec => []NodeInv
  <1>1. Init => NodeInv BY NodeInvInit DEF Init
  <1>2. QED BY <1>1, NodeInvNext, PTL DEF Spec

(* The order in which witnesses come never shows, in the fields that fold by
   strength, by identity or by union (graph.go:296-310). *)
THEOREM OrderNeverShows == Spec => []FoldIgnoresOrder
  BY NodesSayWhatWasSeen, NodeInvIsOrderFree, PTL

(* The licences a package starts with are those of its node, one text to a
   reference. *)
LEMMA PublishedLicenses ==
    ASSUME NEW n, IsNode(n)
    PROVE  LET licenses == PackageFromDependencyNode(n).licenses
           IN /\ NamesOneText(licenses)
              /\ Claims(licenses) = Claims(n.licenses) \cup Claims(n.stash)
              /\ NamedClaims(licenses) = NamedClaims(n.licenses) \cup NamedClaims(n.stash)
  <1> DEFINE none == << >>
             found == DetectionLicenses(n)
             merged == MergeLicenses(none, found)
             published == PackageFromDependencyNode(n).licenses
  <1>1. published = merged BY DEF PackageFromDependencyNode
  <1>2. none \in Seq(LicenseRecords) /\ Claims(none) = {} /\ NamedClaims(none) = {}
    BY DEF Claims, NamedClaims, Range
  <1>3. /\ found \in Seq(LicenseRecords)
        /\ Claims(found) = Claims(n.licenses) \cup Claims(n.stash)
        /\ NamedClaims(found) = NamedClaims(n.licenses) \cup NamedClaims(n.stash)
    BY DetectionLicensesKeep
  <1> HIDE DEF none, found, published
  <1>4. /\ NamesOneText(merged)
        /\ Claims(merged) = Claims(none) \cup Claims(found)
        /\ NamedClaims(merged) = NamedClaims(none) \cup NamedClaims(found)
    BY <1>2, <1>3, MergeLicensesKeeps
  <1> HIDE DEF merged
  <1>5. QED BY <1>1, <1>2, <1>3, <1>4 DEF published

(* No claim of a witness is lost on its way to the package, named or not, and
   none is made up (MergeLicenses, foldNodes, PackageFromDependencyNode). *)
THEOREM ClaimsReachThePackage == Spec => []LicensesSurvive
  <1>1. NodeInv => LicensesSurvive
    <2> SUFFICES ASSUME NodeInv, NEW g \in Present
                 PROVE  LET witnesses == Range(seen[g]) IN
                        /\ Claims(Published(g).licenses) =
                             UNION {Claims(w.licenses) \cup Claims(w.stash) : w \in witnesses}
                        /\ NamedClaims(Published(g).licenses) =
                             UNION {NamedClaims(w.licenses) \cup NamedClaims(w.stash) : w \in witnesses}
      BY DEF LicensesSurvive
    <2>1. Folded(node[g], Range(seen[g])) BY DEF NodeInv, Present
    <2>2. /\ Claims(Published(g).licenses) = Claims(node[g].licenses) \cup Claims(node[g].stash)
          /\ NamedClaims(Published(g).licenses) = NamedClaims(node[g].licenses) \cup NamedClaims(node[g].stash)
      BY <2>1, PublishedLicenses DEF Folded, Published
    <2>3. /\ Claims(node[g].licenses) \cup Claims(node[g].stash) = LicensesSaid(Range(seen[g]))
          /\ NamedClaims(node[g].licenses) \cup NamedClaims(node[g].stash) = LicensesNamed(Range(seen[g]))
      BY <2>1 DEF Folded
    <2>4. QED BY <2>2, <2>3 DEF LicensesSaid, LicensesNamed
  <1>2. QED BY <1>1, NodesSayWhatWasSeen, PTL

(* A reference of a published package names one text, whatever the documents
   that defined it meant by it (resolveLicenseRefCollision). *)
THEOREM ReferencesNameOneText == Spec => []RefNamesOneLicense
  <1>1. NodeInv => RefNamesOneLicense
    <2> SUFFICES ASSUME NodeInv, NEW g \in Present
                 PROVE  NamesOneText(Published(g).licenses)
      BY DEF RefNamesOneLicense, NamesOneText
    <2>1. IsNode(node[g]) BY DEF NodeInv, Present, Folded
    <2>2. QED BY <2>1, PublishedLicenses DEF Published
  <1>2. QED BY <1>1, NodesSayWhatWasSeen, PTL
-----------------------------------------------------------------------------
(* Where order counts: the node tells the origins, the finder and the scope that
   its witnesses state, in the order in which they first do. *)
ToldInOrder(n, witnesses) ==
    /\ Retells(n.origins, StatedOrigins(witnesses))
    /\ n.foundBy = StatedBefore(Finders(witnesses))
    /\ NormalizeSourceScope(n.sourceScope) = StatedBefore(SourceScopes(witnesses))

OrderInv ==
    /\ NodeInv
    /\ \A g \in Present : ToldInOrder(node[g], seen[g])

(* A report tells what it states. *)
LEMMA ReportToldInOrder ==
    ASSUME NEW w \in Reports
    PROVE  ToldInOrder(w, <<w>>)
  BY StatedByOne, WordsOfOne DEF ToldInOrder, Retells

(* Two nodes folded tell what the witnesses of the one state, then those of the
   other. *)
LEMMA FoldToldInOrder ==
    ASSUME NEW a, IsNode(a), NEW s \in Seq(Reports), ToldInOrder(a, s),
           NEW b, IsNode(b), NEW t \in Seq(Reports), ToldInOrder(b, t)
    PROVE  ToldInOrder(foldNodes(a, b), s \o t)
  <1> DEFINE f == foldNodes(a, b)
             x == StatedOrigins(s)
             y == StatedOrigins(t)
  <1>1. /\ f.origins = MergeOrigins(a.origins, b.origins)
        /\ f.sourceScope = FillGap(NormalizeSourceScope(a.sourceScope), NormalizeSourceScope(b.sourceScope))
        /\ f.foundBy = FillGap(a.foundBy, b.foundBy)
    BY FoldedFields
  <1>2. /\ a.origins \in Seq(OriginRecords) /\ b.origins \in Seq(OriginRecords)
        /\ a.sourceScope \in STRING /\ b.sourceScope \in STRING
    BY DEF IsNode
  <1>3. x \in Seq(OriginRecords) /\ y \in Seq(OriginRecords) /\ StatedOrigins(s \o t) = x \o y
    BY StatedJoin
  <1>4. /\ Retells(a.origins, x) /\ Retells(b.origins, y)
        /\ a.foundBy = StatedBefore(Finders(s)) /\ b.foundBy = StatedBefore(Finders(t))
        /\ NormalizeSourceScope(a.sourceScope) = StatedBefore(SourceScopes(s))
        /\ NormalizeSourceScope(b.sourceScope) = StatedBefore(SourceScopes(t))
    BY DEF ToldInOrder
  <1> HIDE DEF f, x, y
  <1>5. Retells(f.origins, StatedOrigins(s \o t))
    <2> DEFINE c == a.origins
               d == b.origins
    <2>1. c \in Seq(OriginRecords) /\ d \in Seq(OriginRecords) /\ Retells(c, x) /\ Retells(d, y)
      BY <1>2, <1>4
    <2>2. f.origins = MergeOrigins(c, d) BY <1>1
    <2> HIDE DEF c, d
    <2>3. Retells(MergeOrigins(c, d), c \o d) BY <2>1, MergedRetells
    <2>4. Retells(c \o d, x \o y) BY <1>3, <2>1, JoinRetells
    <2>5. Retells(MergeOrigins(c, d), x \o y) BY <2>3, <2>4, RetellsAgain
    <2>6. QED BY <1>3, <2>2, <2>5
  <1>6. f.foundBy = StatedBefore(Finders(s \o t)) BY <1>1, <1>4, WordsOfJoin
  <1>7. NormalizeSourceScope(f.sourceScope) = StatedBefore(SourceScopes(s \o t))
    <2>1. NormalizeSourceScope(f.sourceScope)
            = FillGap(NormalizeSourceScope(a.sourceScope), NormalizeSourceScope(b.sourceScope))
      <3> DEFINE p == a.sourceScope
                 q == b.sourceScope
                 r == FillGap(NormalizeSourceScope(p), NormalizeSourceScope(q))
      <3>1. p \in STRING /\ q \in STRING BY <1>2
      <3>2. f.sourceScope = r BY <1>1
      <3> HIDE DEF p, q
      <3>3. NormalizeSourceScope(r) = r BY <3>1, NormalizedScope
      <3> HIDE DEF r
      <3>4. NormalizeSourceScope(f.sourceScope) = r BY <3>2, <3>3
      <3>5. QED BY <3>4 DEF p, q, r
    <2>2. QED BY <2>1, <1>4, WordsOfJoin
  <1>8. QED BY <1>5, <1>6, <1>7 DEF ToldInOrder, f

(* A witness, or a node from another graph, that arrives. *)
LEMMA InsertedToldInOrder ==
    ASSUME NEW current, NEW s \in Seq(Reports), current # NoNode => IsNode(current) /\ ToldInOrder(current, s),
           current = NoNode => s = << >>,
           NEW n, IsNode(n), NEW t \in Seq(Reports), ToldInOrder(n, t)
    PROVE  ToldInOrder(Inserted(current, n), s \o t)
  <1>1. CASE current = NoNode
    <2>1. IsNothing(s) BY <1>1 DEF IsNothing
    <2>2. s \o t = t BY <2>1, JoinNothing
    <2>3. Inserted(current, n) = n BY <1>1 DEF Inserted
    <2>4. QED BY <2>2, <2>3
  <1>2. CASE current # NoNode
    <2>1. Inserted(current, n) = foldNodes(current, n) BY <1>2 DEF Inserted
    <2>2. QED BY <2>1, <1>2, FoldToldInOrder
  <1>3. QED BY <1>1, <1>2

(* What arrives at one graph, with the witnesses it comes from. *)
LEMMA OrderInvArrival ==
    ASSUME OrderInv, NodeInv', NEW g \in Graphs, NEW n, NEW t \in Seq(Reports), IsNode(n), ToldInOrder(n, t),
           node' = [node EXCEPT ![g] = Inserted(@, n)],
           seen' = [seen EXCEPT ![g] = @ \o t]
    PROVE  OrderInv'
  <1>1. /\ node = [h \in Graphs |-> node[h]]
        /\ seen \in [Graphs -> Seq(Reports)]
        /\ node[g] = NoNode => seen[g] = << >>
        /\ node[g] # NoNode => IsNode(node[g]) /\ ToldInOrder(node[g], seen[g])
    BY DEF OrderInv, NodeInv, Folded, Present
  <1>2. ToldInOrder(Inserted(node[g], n), seen[g] \o t)
    <2>1. seen[g] \in Seq(Reports) BY <1>1
    <2>2. QED BY <1>1, <2>1, InsertedToldInOrder
  <1>3. node'[g] = Inserted(node[g], n) /\ seen'[g] = seen[g] \o t BY <1>1
  <1>4. ASSUME NEW h \in Graphs, node'[h] # NoNode PROVE ToldInOrder(node'[h], seen'[h])
    <2>1. CASE h = g BY <2>1, <1>2, <1>3
    <2>2. CASE h # g
      <3>1. node'[h] = node[h] /\ seen'[h] = seen[h] BY <2>2, <1>1
      <3>2. ToldInOrder(node[h], seen[h]) BY <3>1, <1>4 DEF OrderInv, Present
      <3>3. QED BY <3>1, <3>2
    <2>3. QED BY <2>1, <2>2
  <1>5. \A h \in Present' : ToldInOrder(node[h], seen[h])'
    BY <1>4 DEF Present, ToldInOrder
  <1>6. QED BY <1>5 DEF OrderInv

(* The invariant through every step. *)
LEMMA OrderInvNext == OrderInv /\ [Next]_vars => OrderInv'
  <1> SUFFICES ASSUME OrderInv, [Next]_vars PROVE OrderInv' OBVIOUS
  <1>0. NodeInv' BY NodeInvNext DEF OrderInv
  <1>1. ASSUME NEW g \in Graphs, NEW w \in Reports, InsertNode(g, w) PROVE OrderInv'
    <2>1. <<w>> \in Seq(Reports) /\ IsNode(w) /\ ToldInOrder(w, <<w>>)
      BY ReportsAreNodes, ReportToldInOrder
    <2>2. /\ node' = [node EXCEPT ![g] = Inserted(@, w)]
          /\ seen' = [seen EXCEPT ![g] = Append(@, w)]
      BY <1>1 DEF InsertNode
    <2>3. seen[g] \in Seq(Reports) BY DEF OrderInv, NodeInv
    <2>4. Append(seen[g], w) = seen[g] \o <<w>> BY <2>3
    <2>5. seen' = [seen EXCEPT ![g] = @ \o <<w>>] BY <2>2, <2>4
    <2>6. QED BY <1>0, <2>1, <2>2, <2>5, OrderInvArrival
  <1>2. ASSUME NEW dst \in Graphs, NEW src \in Graphs, MergeGraph(dst, src) PROVE OrderInv'
    <2>1. /\ node[src] # NoNode
          /\ node' = [node EXCEPT ![dst] = Inserted(@, node[src])]
          /\ seen' = [seen EXCEPT ![dst] = @ \o seen[src]]
      BY <1>2 DEF MergeGraph
    <2>2. seen[src] \in Seq(Reports) /\ IsNode(node[src]) /\ ToldInOrder(node[src], seen[src])
      BY <2>1 DEF OrderInv, NodeInv, Folded, Present
    <2>3. QED BY <1>0, <2>1, <2>2, OrderInvArrival
  <1>3. CASE FoldNext BY <1>1, <1>2, <1>3 DEF FoldNext
  <1>4. CASE UNCHANGED foldVars
    <2>1. node' = node /\ seen' = seen BY <1>4 DEF foldVars
    <2>2. \A h \in Present' : ToldInOrder(node[h], seen[h])'
      BY <2>1 DEF OrderInv, Present, ToldInOrder
    <2>3. QED BY <1>0, <2>2 DEF OrderInv
  <1>5. QED BY <1>3, <1>4 DEF Next, vars

(* What is published of a node is told in the same order. *)
LEMMA PublishedOrigins ==
    ASSUME NEW x \in Seq(OriginRecords), NEW s \in Seq(OriginRecords), Retells(x, s)
    PROVE  LET published == MergeOrigins(<< >>, x)
           IN /\ Range(published) = Standing(PublishableOrigins(s))
              /\ \A i, j \in DOMAIN published :
                    i < j => FirstStated(s, published[i]) < FirstStated(s, published[j])
  <1> DEFINE none == << >>
             published == MergeOrigins(none, x)
  <1>1. none \in Seq(OriginRecords) /\ IsNothing(none) BY DEF IsNothing
  <1> HIDE DEF none
  <1>2. none \o x = x BY <1>1, JoinNothing
  <1>3. /\ Range(published) = Standing(PublishableOrigins(x))
        /\ InOrderOf(published, x)
    BY <1>1, <1>2, MergedOrigins
  <1> HIDE DEF published
  <1>4. Range(published) = Standing(PublishableOrigins(s)) BY <1>3 DEF Retells
  <1>5. ASSUME NEW i \in DOMAIN published, NEW j \in DOMAIN published, i < j
        PROVE  FirstStated(s, published[i]) < FirstStated(s, published[j])
    <2>1. published[i] \in Range(published) /\ published[j] \in Range(published) BY DEF Range
    <2>2. FirstStated(x, published[i]) < FirstStated(x, published[j]) BY <1>3, <1>5 DEF InOrderOf
    <2>3. QED BY <2>1, <2>2, <1>4 DEF Retells
  <1>6. QED BY <1>4, <1>5 DEF published, none

(* The first to state an origin, a finder or a scope keeps its place through
   every fold and merge (MergeOrigins, foldNodes). *)
THEOREM FirstToStateStands == Spec => []FirstStatedStands
  <1>1. Init => OrderInv
    <2> SUFFICES ASSUME Init PROVE OrderInv OBVIOUS
    <2>1. NodeInv BY NodeInvInit DEF Init
    <2>2. Present = {} BY DEF Init, FoldInit, Present
    <2>3. QED BY <2>1, <2>2 DEF OrderInv
  <1>2. OrderInv => FirstStatedStands
    <2> SUFFICES ASSUME OrderInv, NEW g \in Present
                 PROVE  LET stated == StatedOrigins(seen[g])
                            published == Published(g).origins
                        IN /\ Range(published) = Standing(PublishableOrigins(stated))
                           /\ \A i, j \in DOMAIN published :
                                 i < j => FirstStated(stated, published[i]) < FirstStated(stated, published[j])
                           /\ node[g].foundBy = StatedBefore([i \in DOMAIN seen[g] |-> seen[g][i].foundBy])
                           /\ NormalizeSourceScope(node[g].sourceScope) =
                                StatedBefore([i \in DOMAIN seen[g] |-> NormalizeSourceScope(seen[g][i].sourceScope)])
      BY DEF FirstStatedStands
    <2>1. /\ seen[g] \in Seq(Reports) /\ IsNode(node[g]) /\ ToldInOrder(node[g], seen[g])
      BY DEF OrderInv, NodeInv, Folded, Present
    <2>2. /\ node[g].origins \in Seq(OriginRecords) /\ StatedOrigins(seen[g]) \in Seq(OriginRecords)
          /\ Retells(node[g].origins, StatedOrigins(seen[g]))
      BY <2>1, StatedJoin DEF IsNode, ToldInOrder
    <2>3. Published(g).origins = MergeOrigins(<< >>, node[g].origins)
      BY DEF Published, PackageFromDependencyNode
    <2>4. LET stated == StatedOrigins(seen[g])
              published == Published(g).origins
          IN /\ Range(published) = Standing(PublishableOrigins(stated))
             /\ \A i, j \in DOMAIN published :
                   i < j => FirstStated(stated, published[i]) < FirstStated(stated, published[j])
      BY <2>2, <2>3, PublishedOrigins
    <2>5. /\ node[g].foundBy = StatedBefore(Finders(seen[g]))
          /\ NormalizeSourceScope(node[g].sourceScope) = StatedBefore(SourceScopes(seen[g]))
      BY <2>1 DEF ToldInOrder
    <2>6. QED BY <2>4, <2>5 DEF Finders, SourceScopes
  <1>3. QED BY <1>1, <1>2, OrderInvNext, PTL DEF Spec
=============================================================================
