--------------------------- MODULE DocumentProofs ---------------------------
(***************************************************************************)
(* The catalogue of enums resolves every reference, whatever the modules   *)
(* define and the documents refer to; a review counts for the change it    *)
(* was written about, whatever becomes of the trees; and what is reported  *)
(* between two trees is what differs between them, all of it, and nothing  *)
(* where they state the same contract, whatever their documents hold.      *)
(***************************************************************************)
EXTENDS EnumCatalogue, ContractDiff, WellFoundedInduction, FiniteSetTheorems, SequenceTheorems,
        TLAPS

-----------------------------------------------------------------------------
(* The catalogue of enums.                                                 *)

ReferenceType == [key : Key, variants : VariantList]

SitesType ==
  /\ found \in Seq([key : Key, kind : {"int", "string"}, variants : VariantList \ {<<>>}])
  /\ references \in Seq(ReferenceType)

\* A set of positions has a first one.
LEMMA FirstPosition ==
  ASSUME NEW S \in SUBSET Nat, S # {}
  PROVE  \E i \in S : \A j \in S : i <= j
<1> DEFINE Less == OpToRel(<, Nat)
<1>1. IsWellFoundedOn(Less, Nat)
  BY NatLessThanWellFounded
<1>2. PICK i \in S : \A j \in S : ~(<<j, i>> \in Less)
  BY <1>1, WFMin
<1>3. ASSUME NEW j \in S PROVE i <= j
  <2>1. i \in Nat /\ j \in Nat /\ <<j, i>> \in Nat \X Nat
    OBVIOUS
  <2>2. ~(<<j, i>>[1] < <<j, i>>[2])
    BY <1>2, <2>1 DEF OpToRel
  <2>3. QED
    BY <2>1, <2>2
<1>4. QED
  BY <1>3

\* Of the references to a key, one is collected.
LEMMA CollectedIsOfReferences ==
  ASSUME NEW refs, NEW c \in Collected(refs)
  PROVE  c \in Range(refs) /\ c.variants # <<>>
BY DEF Collected, Range

\* Of every key that is referred to with variants, one reference is collected.
LEMMA EachKeyIsCollected ==
  ASSUME NEW refs \in Seq(ReferenceType),
         NEW r \in Range(refs), r.variants # <<>>
  PROVE  \E c \in Collected(refs) : c.key = r.key
<1>1. DOMAIN refs = 1..Len(refs) /\ Len(refs) \in Nat
  OBVIOUS
<1> DEFINE S == {i \in DOMAIN refs : refs[i].key = r.key /\ refs[i].variants # <<>>}
<1>2. S \in SUBSET Nat /\ S # {}
  BY <1>1 DEF Range
<1>3. PICK i \in S : \A j \in S : i <= j
  BY <1>2, FirstPosition
<1>4. i \in DOMAIN refs /\ refs[i].key = r.key /\ refs[i].variants # <<>>
  BY <1>3
<1>5. ASSUME NEW j \in 1..(i - 1), refs[j].variants # <<>>
      PROVE  refs[j].key # refs[i].key
  <2>1. j \in DOMAIN refs /\ j < i
    BY <1>1, <1>4
  <2>2. j \notin S
    BY <1>1, <1>3, <1>4, <2>1
  <2>3. QED
    BY <1>4, <1>5, <2>1, <2>2
<1>6. refs[i] \in Collected(refs)
  BY <1>4, <1>5 DEF Collected
<1>7. QED
  BY <1>4, <1>6

\* No key has two.
LEMMA CollectedOnce ==
  ASSUME NEW refs \in Seq(ReferenceType),
         NEW c \in Collected(refs), NEW d \in Collected(refs), c.key = d.key
  PROVE  c = d
<1>1. DOMAIN refs = 1..Len(refs) /\ Len(refs) \in Nat
  OBVIOUS
<1>2. PICK i \in DOMAIN refs :
        /\ c = refs[i] /\ refs[i].variants # <<>>
        /\ \A k \in 1..(i - 1) : refs[k].variants # <<>> => refs[k].key # refs[i].key
  BY DEF Collected
<1>3. PICK j \in DOMAIN refs :
        /\ d = refs[j] /\ refs[j].variants # <<>>
        /\ \A k \in 1..(j - 1) : refs[k].variants # <<>> => refs[k].key # refs[j].key
  BY DEF Collected
<1>4. ~(i < j) /\ ~(j < i)
  BY <1>1, <1>2, <1>3
<1>5. i = j
  BY <1>1, <1>4
<1>6. QED
  BY <1>2, <1>3, <1>5

\* Of the definitions of a key, one counts.
LEMMA ExtractedOnce ==
  ASSUME SitesType, NEW def \in Extracted(found), NEW other \in Extracted(found),
         def.key = other.key
  PROVE  def = other
<1>1. DOMAIN found = 1..Len(found) /\ Len(found) \in Nat
  BY DEF SitesType
<1>2. PICK i \in DOMAIN found : def = found[i] /\ FirstOf(found, i)
  BY DEF Extracted
<1>3. PICK j \in DOMAIN found : other = found[j] /\ FirstOf(found, j)
  BY DEF Extracted
<1>4. ~(i < j) /\ ~(j < i)
  BY <1>1, <1>2, <1>3 DEF FirstOf
<1>5. i = j
  BY <1>1, <1>4
<1>6. QED
  BY <1>2, <1>3, <1>5

\* Two sites disagree, said of the set of references.
DisagreeIn(refs) ==
  \E r \in refs :
    /\ r.variants # <<>>
    /\ \/ \E def \in Extracted(found) : def.key = r.key /\ def.variants # r.variants
       \/ \E s \in refs : s.key = r.key /\ s.variants # r.variants /\ s.variants # <<>>

\* The merge bails just then, in whichever order it reads.
LEMMA DisagreeIsOfTheSet ==
  ASSUME NEW refs \in Seq(ReferenceType)
  PROVE  Disagree(Extracted(found), refs) <=> DisagreeIn(Range(refs))
<1>1. ASSUME ReferencesConflict(refs)
      PROVE  DisagreeIn(Range(refs))
  BY <1>1, CollectedIsOfReferences DEF ReferencesConflict, DisagreeIn
<1>2. ASSUME DefinitionConflict(Extracted(found), refs)
      PROVE  DisagreeIn(Range(refs))
  BY <1>2, CollectedIsOfReferences DEF DefinitionConflict, DisagreeIn
<1>3. ASSUME DisagreeIn(Range(refs)), ~ReferencesConflict(refs)
      PROVE  DefinitionConflict(Extracted(found), refs)
  <2>1. PICK r \in Range(refs) :
          /\ r.variants # <<>>
          /\ \/ \E def \in Extracted(found) : def.key = r.key /\ def.variants # r.variants
             \/ \E s \in Range(refs) : s.key = r.key /\ s.variants # r.variants /\ s.variants # <<>>
    BY <1>3 DEF DisagreeIn
  <2>2. PICK c \in Collected(refs) : c.key = r.key
    BY <2>1, EachKeyIsCollected
  <2>3. \A s \in Range(refs) : s.key = r.key /\ s.variants # <<>> => s.variants = c.variants
    BY <1>3, <2>2 DEF ReferencesConflict
  <2>4. PICK def \in Extracted(found) : def.key = r.key /\ def.variants # r.variants
    BY <2>1, <2>3
  <2>5. c.key = def.key /\ c.variants # def.variants
    BY <2>1, <2>2, <2>3, <2>4
  <2>6. QED
    BY <2>5 DEF DefinitionConflict
<1>4. QED
  BY <1>1, <1>2, <1>3 DEF Disagree

\* If none disagree, all references that have variants are collected.
LEMMA AgreeingAreCollected ==
  ASSUME NEW refs \in Seq(ReferenceType), ~DisagreeIn(Range(refs))
  PROVE  Collected(refs) = {r \in Range(refs) : r.variants # <<>>}
<1>1. ASSUME NEW r \in Range(refs), r.variants # <<>>
      PROVE  r \in Collected(refs)
  <2>1. PICK c \in Collected(refs) : c.key = r.key
    BY <1>1, EachKeyIsCollected
  <2>2. c \in Range(refs) /\ c.variants # <<>>
    BY CollectedIsOfReferences
  <2>3. c.variants = r.variants
    BY <1>1, <2>1, <2>2 DEF DisagreeIn
  <2>4. c \in ReferenceType /\ r \in ReferenceType
    <3>1. \A s \in Range(refs) : s \in ReferenceType
      BY DEF Range
    <3>2. QED
      BY <2>2, <3>1
  <2>5. c = r
    BY <2>1, <2>3, <2>4 DEF ReferenceType
  <2>6. QED
    BY <2>5
<1>2. QED
  BY <1>1, CollectedIsOfReferences

\* Read backwards, the references are the same.
LEMMA ReversedRange ==
  ASSUME NEW refs \in Seq(ReferenceType)
  PROVE  Reverse(refs) \in Seq(ReferenceType) /\ Range(Reverse(refs)) = Range(refs)
<1>1. DOMAIN refs = 1..Len(refs) /\ Len(refs) \in Nat
  OBVIOUS
<1>2. Reverse(refs) = [i \in 1..Len(refs) |-> refs[Len(refs) - i + 1]]
  BY DEF Reverse
<1>3. \A i \in 1..Len(refs) : Len(refs) - i + 1 \in 1..Len(refs)
  BY <1>1
<1>4. Reverse(refs) \in Seq(ReferenceType)
  <2>1. \A i \in 1..Len(refs) : refs[Len(refs) - i + 1] \in ReferenceType
    BY <1>3
  <2>2. Reverse(refs) \in [1..Len(refs) -> ReferenceType]
    BY <1>2, <2>1
  <2>3. QED
    BY <1>1, <2>2
<1>5. \A i \in 1..Len(refs) : Reverse(refs)[Len(refs) - i + 1] = refs[i]
  BY <1>1, <1>2, <1>3
<1>6. DOMAIN Reverse(refs) = 1..Len(refs)
  BY <1>2
<1>7. \A x \in Range(refs) : x \in Range(Reverse(refs))
  BY <1>1, <1>3, <1>5, <1>6 DEF Range
<1>8. \A x \in Range(Reverse(refs)) : x \in Range(refs)
  BY <1>1, <1>2, <1>3, <1>6 DEF Range
<1>9. QED
  BY <1>4, <1>7, <1>8

\* The sites are lists of definitions and references.
LEMMA SitesTypeHolds == EnumsSpec => []SitesType
<1>1. NoEnums => SitesType
  BY DEF NoEnums, SitesType
<1>2. SitesType /\ [EnumsNext]_enums => SitesType'
  <2> SUFFICES ASSUME SitesType, [EnumsNext]_enums PROVE SitesType'
    OBVIOUS
  <2>1. ASSUME NEW key \in Key, NEW variants \in VariantList, NEW kind \in {"int", "string"},
               Define(key, kind, variants)
        PROVE  SitesType'
    BY <2>1 DEF SitesType, Define, Definition
  <2>2. ASSUME NEW key \in Key, NEW variants \in VariantList, Refer(key, variants)
        PROVE  SitesType'
    BY <2>2 DEF SitesType, ReferenceType, Refer, Reference
  <2>3. CASE UNCHANGED enums
    BY <2>3 DEF SitesType, enums
  <2>4. QED
    BY <2>1, <2>2, <2>3 DEF EnumsNext
<1>3. QED
  BY <1>1, <1>2, PTL DEF EnumsSpec

\* A key that is referred to with variants has one entry, with those.
LEMMA OneEntry ==
  ASSUME SitesType, ~DisagreeIn(Range(references)),
         NEW r \in Range(references), r.variants # <<>>
  PROVE  LET catalogue == Merge(Extracted(found), references)
         IN  \E def \in catalogue :
               {d \in catalogue : d.key = r.key} = {def} /\ def.variants = r.variants
<1> DEFINE defined == Extracted(found)
           catalogue == Merge(defined, references)
<1>1. Collected(references) = {s \in Range(references) : s.variants # <<>>}
  BY AgreeingAreCollected DEF SitesType
<1>2. \A s \in Collected(references) : s.key = r.key => s = r
  BY <1>1, CollectedOnce DEF SitesType
<1>3. \A d \in Promoted(defined, references) :
        \E s \in Collected(references) :
          /\ d = Definition(s.key, "string", s.variants) /\ d.key = s.key
          /\ \A def \in defined : def.key # s.key
  BY DEF Promoted, Definition
<1>4. CASE \E def \in defined : def.key = r.key
  <2>1. PICK def \in defined : def.key = r.key
    BY <1>4
  <2>2. def.variants = r.variants
    BY <2>1 DEF DisagreeIn
  <2>3. \A d \in defined : d.key = r.key => d = def
    BY <2>1, ExtractedOnce
  <2>4. \A d \in Promoted(defined, references) : d.key # r.key
    BY <1>3, <2>1
  <2>5. {d \in catalogue : d.key = r.key} = {def} /\ def \in catalogue
    BY <2>1, <2>3, <2>4 DEF Merge
  <2>6. QED
    BY <2>2, <2>5
<1>5. CASE \A def \in defined : def.key # r.key
  <2> DEFINE new == Definition(r.key, "string", r.variants)
  <2>1. new \in Promoted(defined, references) /\ new.key = r.key /\ new.variants = r.variants
    BY <1>1, <1>5 DEF Promoted, Definition
  <2>2. \A d \in Promoted(defined, references) : d.key = r.key => d = new
    BY <1>2, <1>3
  <2>3. {d \in catalogue : d.key = r.key} = {new} /\ new \in catalogue
    BY <1>5, <2>1, <2>2 DEF Merge
  <2>4. QED
    BY <2>1, <2>3
<1>6. QED
  BY <1>4, <1>5

\* With the catalogue alone every reference of every document is resolved, and
\* it does not depend on their order (merge_referenced_enums).
THEOREM EveryReferenceResolves == EnumsSpec => []CatalogueResolves
<1>1. ASSUME SitesType PROVE CatalogueResolves
  <2> DEFINE defined == Extracted(found)
             back == Reverse(references)
             catalogue == Merge(defined, references)
  <2>1. /\ references \in Seq(ReferenceType)
        /\ back \in Seq(ReferenceType) /\ Range(back) = Range(references)
    BY <1>1, ReversedRange DEF SitesType
  <2>2. SitesDisagree <=> DisagreeIn(Range(references))
    BY DEF SitesDisagree, DisagreeIn
  <2>3. Disagree(defined, references) <=> SitesDisagree
    BY <2>1, <2>2, DisagreeIsOfTheSet
  <2>4. Disagree(defined, back) <=> SitesDisagree
    <3> HIDE DEF back
    <3>1. Disagree(defined, back) <=> DisagreeIn(Range(back))
      BY <2>1, DisagreeIsOfTheSet
    <3>2. QED
      BY <2>1, <2>2, <3>1
  <2>5. ASSUME ~SitesDisagree
        PROVE  Merge(defined, back) = catalogue
    <3> HIDE DEF back
    <3>1. Collected(references) = {r \in Range(references) : r.variants # <<>>}
      BY <2>1, <2>2, <2>5, AgreeingAreCollected
    <3>2. ~DisagreeIn(Range(back))
      BY <2>1, <2>2, <2>5
    <3>3. Collected(back) = {r \in Range(back) : r.variants # <<>>}
      BY <2>1, <3>2, AgreeingAreCollected
    <3>4. Collected(back) = Collected(references)
      BY <2>1, <3>1, <3>3
    <3>5. QED
      BY <3>4 DEF Merge, Promoted
  <2>6. ASSUME ~SitesDisagree, NEW r \in Range(references),
               r.variants # <<>> \/ Lint(catalogue, references)
        PROVE  \E def \in catalogue :
                 {d \in catalogue : d.key = r.key} = {def} /\ def.variants = r.variants
    <3>1. r.variants # <<>>
      BY <2>6 DEF Lint
    <3>2. QED
      BY <1>1, <2>2, <2>6, <3>1, OneEntry
  <2>7. QED
    BY <2>3, <2>4, <2>5, <2>6 DEF CatalogueResolves
<1>2. QED
  BY <1>1, SitesTypeHolds, PTL

-----------------------------------------------------------------------------
(* Reviews and the change they are about.                                  *)

\* A change says which artifacts it lies between, and the sets of their locks.
LEMMA ChangesAreBound ==
  ASSUME NEW pair, NEW change \in Changes(pair)
  PROVE  /\ change.artifacts = Sides(pair, change.domain, change.isSchema)
         /\ change.sets = <<pair[1].lock.set_hash, pair[2].lock.set_hash>>
<1>1. \/ \E domain \in (DOMAIN pair[1].files) \cup (DOMAIN pair[2].files) :
           change \in Deltas(pair, domain, FALSE)
      \/ \E domain \in (DOMAIN pair[1].schemas) \cup (DOMAIN pair[2].schemas) :
           change \in Deltas(pair, domain, TRUE)
  BY DEF Changes
<1>2. PICK domain, isSchema : change \in Deltas(pair, domain, isSchema)
  BY <1>1
<1>3. PICK delta :
        change = [delta |-> delta, domain |-> domain, isSchema |-> isSchema,
                  artifacts |-> Sides(pair, domain, isSchema),
                  sets |-> <<pair[1].lock.set_hash, pair[2].lock.set_hash>>]
  BY <1>2 DEF Deltas
<1>4. QED
  BY <1>3

\* A review is of a change of the trees read, as it was.
Judged(review) ==
  /\ review.id \in Changes(review.read)
  /\ review.judged = review.id.delta /\ review.domain = review.id.domain

\* A judgement is that of a review of the change, by its id.
Carried(entry) ==
  entry.assessment # "indeterminate" =>
    \E review \in Range(reviews) :
      review.id = entry.change /\ review.classification = entry.assessment /\ review.references

ReviewsInv ==
  /\ reviews \in Seq(Range(reviews))
  /\ \A review \in Range(reviews) : Judged(review)
  /\ \A entry \in report.changes : entry.change \in Changes(report.of) /\ Carried(entry)

\* A report takes its judgements from the reviews, by the id of the change.
LEMMA JudgementStep ==
  ASSUME ReviewsInv, NEW evidence \in BOOLEAN, Diff(evidence)
  PROVE  ReviewsInv'
<1>1. reviews' = reviews /\ trees' = trees
  BY DEF Diff
<1>2. reviews' \in Seq(Range(reviews')) /\ \A review \in Range(reviews') : Judged(review)'
  BY <1>1 DEF ReviewsInv, Judged
<1>3. CASE report' = Refused
  BY <1>2, <1>3 DEF ReviewsInv, Refused
<1>4. CASE /\ evidence => AllApply(Changes(trees))
           /\ report' = [refused |-> FALSE, of |-> trees,
                changes |-> {[change |-> change,
                              assessment |-> IF evidence THEN Assessed(change) ELSE "indeterminate"] :
                               change \in Changes(trees)}]
  <2>1. ASSUME NEW entry \in report'.changes
        PROVE  /\ entry.change \in Changes(trees)
               /\ entry.assessment = IF evidence THEN Assessed(entry.change) ELSE "indeterminate"
    BY <1>4, <2>1
  <2>2. report'.of = trees
    BY <1>4
  <2>3. ASSUME NEW entry \in report'.changes, entry.assessment # "indeterminate"
        PROVE  \E review \in Range(reviews) :
                 /\ review.id = entry.change /\ review.classification = entry.assessment
                 /\ review.references
    <3> DEFINE own == {review \in Range(reviews) : review.id = entry.change}
    <3>1. evidence /\ AllApply(Changes(trees)) /\ entry.assessment = Assessed(entry.change)
      BY <1>4, <2>1, <2>3
    <3>2. own # {} /\ entry.assessment = (CHOOSE review \in own : TRUE).classification
      BY <2>3, <3>1 DEF Assessed, Id
    <3> HIDE DEF own
    <3>3. (CHOOSE review \in own : TRUE) \in own
      BY <3>2
    <3>4. \A review \in Range(reviews) : review.references
      BY <3>1 DEF AllApply, Range
    <3>5. QED
      BY <3>2, <3>3, <3>4 DEF own
  <2>4. QED
    BY <1>1, <1>2, <2>1, <2>2, <2>3 DEF ReviewsInv, Carried
<1>5. QED
  BY <1>3, <1>4 DEF Diff

\* A review is written about a change of the report that was read.
LEMMA ReviewStep ==
  ASSUME ReviewsInv, NEW entry \in report.changes, NEW classification, NEW verified,
         Review(entry, classification, verified)
  PROVE  ReviewsInv'
<1> DEFINE written == [id |-> Id(entry.change), classification |-> classification,
                       references |-> verified,
                       read |-> report.of, judged |-> entry.change.delta,
                       domain |-> entry.change.domain]
<1>1. reviews' = Append(reviews, written) /\ report' = report
  BY DEF Review
<1>2. Judged(written)
  BY DEF ReviewsInv, Judged, Id
<1> HIDE DEF written
<1>3. reviews \in Seq(Range(reviews) \cup {written})
  BY DEF ReviewsInv
<1>4. /\ reviews' \in Seq(Range(reviews) \cup {written})
      /\ Range(reviews') = Range(reviews) \cup {written}
  BY <1>1, <1>3 DEF Range
<1>5. \A review \in Range(reviews') : Judged(review)'
  BY <1>2, <1>4 DEF ReviewsInv, Judged
<1>6. ASSUME NEW e \in report'.changes
      PROVE  (e.change \in Changes(report.of) /\ Carried(e))'
  BY <1>1, <1>4 DEF ReviewsInv, Carried
<1>7. QED
  BY <1>4, <1>5, <1>6 DEF ReviewsInv

\* Every review names a change that was reported, every judgement comes from a review.
LEMMA ReviewsInvHolds == ReviewsSpec => []ReviewsInv
<1>1. ReviewsInit => ReviewsInv
  BY DEF ReviewsInit, ReviewsInv, Refused, Range
<1>2. ReviewsInv /\ [ReviewsNext]_reviewing => ReviewsInv'
  <2> SUFFICES ASSUME ReviewsInv, [ReviewsNext]_reviewing PROVE ReviewsInv'
    OBVIOUS
  <2>1. CASE \E evidence \in BOOLEAN : Diff(evidence)
    BY <2>1, JudgementStep
  <2>2. CASE \E entry \in report.changes, classification \in Verdict, verified \in BOOLEAN :
               Review(entry, classification, verified)
    BY <2>2, ReviewStep
  <2>3. CASE (\E tree \in OldTrees : Replace(1, tree)) \/ (\E tree \in NewTrees : Replace(2, tree))
    <3>1. reviews' = reviews /\ report' = report
      BY <2>3 DEF Replace
    <3>2. QED
      BY <3>1 DEF ReviewsInv, Judged, Carried
  <2>4. CASE UNCHANGED reviewing
    BY <2>4 DEF reviewing, ReviewsInv, Judged, Carried
  <2>5. QED
    BY <2>1, <2>2, <2>3, <2>4 DEF ReviewsNext
<1>3. QED
  BY <1>1, <1>2, PTL DEF ReviewsSpec

\* contract_diff.rs:309-314, 366: for any trees, replaced at any time, and any
\* reviews, a judgement in a report is one of the very change reported, between
\* the very artifacts, under locks declaring the same sets.
THEOREM JudgementsKeep == ReviewsSpec => []ReviewsStayWithTheirChange
<1>1. ReviewsInv => ReviewsStayWithTheirChange
  <2> SUFFICES ASSUME ReviewsInv, NEW entry \in report.changes,
                      entry.assessment # "indeterminate"
               PROVE  \E review \in Range(reviews) :
                 /\ review.classification = entry.assessment /\ review.references
                 /\ review.judged = entry.change.delta /\ review.domain = entry.change.domain
                 /\ \A i \in 1..2 :
                      /\ review.read[i].lock.set_hash = report.of[i].lock.set_hash
                      /\ Sides(review.read, entry.change.domain, entry.change.isSchema)[i]
                           = Sides(report.of, entry.change.domain, entry.change.isSchema)[i]
    BY DEF ReviewsStayWithTheirChange
  <2>1. PICK review \in Range(reviews) :
          review.id = entry.change /\ review.classification = entry.assessment /\ review.references
    BY DEF ReviewsInv, Carried
  <2>2. /\ entry.change \in Changes(review.read) /\ entry.change \in Changes(report.of)
        /\ review.judged = entry.change.delta /\ review.domain = entry.change.domain
    BY <2>1 DEF ReviewsInv, Judged
  <2>3. /\ Sides(review.read, entry.change.domain, entry.change.isSchema)
             = Sides(report.of, entry.change.domain, entry.change.isSchema)
        /\ <<review.read[1].lock.set_hash, review.read[2].lock.set_hash>>
             = <<report.of[1].lock.set_hash, report.of[2].lock.set_hash>>
    BY <2>2, ChangesAreBound
  <2>4. \A i \in 1..2 : review.read[i].lock.set_hash = report.of[i].lock.set_hash
    BY <2>3
  <2>5. QED
    BY <2>1, <2>2, <2>3, <2>4
<1>2. QED
  BY <1>1, ReviewsInvHolds, PTL

-----------------------------------------------------------------------------
(* Paths, and what they lead to.                                           *)

IsPath(path) == path \in Seq(Range(path))

\* What leads along a path is defined step by step.
LEMMA AlongIsDefined ==
  ASSUME NEW document, NEW path, IsPath(path)
  PROVE  \A n \in 0..Len(path) :
           Along(document, path)[n] =
             IF n = 0 THEN document ELSE Sub(Along(document, path)[n - 1], path[n])
<1>1. Len(path) \in Nat
  BY DEF IsPath
<1> DEFINE Is_(f, n) == f = [m \in 0..n |-> IF m = 0 THEN document ELSE Sub(f[m - 1], path[m])]
           missing == {n \in 0..Len(path) : \A f : ~Is_(f, n)}
<1>1a. missing \in SUBSET Nat /\ \A n \in missing : n \in 0..Len(path)
  BY <1>1
<1>2. ASSUME NEW n \in missing, \A m \in missing : n <= m
      PROVE  FALSE
  <2>1. CASE n = 0
    <3> DEFINE f == [m \in 0..0 |-> document]
    <3>1. Is_(f, 0)
      OBVIOUS
    <3>2. QED
      BY <2>1, <3>1
  <2>2. CASE n # 0
    <3>1. n \in Nat /\ n - 1 \in 0..Len(path) /\ n - 1 \notin missing
      <4> HIDE DEF missing
      <4>1. QED
        BY <1>1, <1>1a, <1>2, <2>2
    <3>2. PICK g : Is_(g, n - 1)
      BY <3>1
    <3> DEFINE f == [m \in 0..n |-> IF m = n THEN Sub(g[n - 1], path[n]) ELSE g[m]]
    <3>3. \A m \in 0..n : f[m] = IF m = 0 THEN document ELSE Sub(f[m - 1], path[m])
      <4> SUFFICES ASSUME NEW m \in 0..n
                   PROVE  f[m] = IF m = 0 THEN document ELSE Sub(f[m - 1], path[m])
        OBVIOUS
      <4>1. CASE m = n
        BY <2>2, <3>1, <4>1
      <4>2. CASE m # n
        <5>1. m \in 0..(n - 1) /\ (m # 0 => m - 1 \in 0..(n - 1) /\ m - 1 # n)
          BY <3>1, <4>2
        <5>2. g[m] = IF m = 0 THEN document ELSE Sub(g[m - 1], path[m])
          BY <3>2, <5>1
        <5>3. f[m] = g[m] /\ (m # 0 => f[m - 1] = g[m - 1])
          BY <3>1, <4>2, <5>1
        <5>4. QED
          BY <5>2, <5>3
      <4>3. QED
        BY <4>1, <4>2
    <3>4. Is_(f, n)
      <4> HIDE DEF f
      <4>1. f = [m \in 0..n |-> f[m]]
        BY DEF f
      <4>2. QED
        BY <3>3, <4>1
    <3>5. QED
      BY <3>4
  <2>3. QED
    BY <2>1, <2>2
<1>3. missing = {}
  <2> HIDE DEF missing
  <2>1. QED
    BY <1>1a, <1>2, FirstPosition
<1>4. PICK whole : Is_(whole, Len(path))
  <2> HIDE DEF Is_
  <2>1. QED
    BY <1>1, <1>3
<1> DEFINE along == CHOOSE f : Is_(f, Len(path))
<1>5. Is_(along, Len(path))
  BY <1>4
<1>6. Along(document, path) = along
  BY DEF Along
<1> HIDE DEF along
<1>7. QED
  BY <1>5, <1>6

\* So are the levels of two values,
LEMMA LevelsAreDefined ==
  ASSUME NEW old, NEW new
  PROVE  /\ Levels(old, new)[0] = {[old |-> old, new |-> new, at |-> <<>>]}
         /\ \A n \in 1..MaxDepth : Levels(old, new)[n] = Under(Levels(old, new)[n - 1])
<1>1. MaxDepth \in Nat
  BY DiffAssumption
<1> DEFINE Is_(f, n) == f = [m \in 0..n |-> IF m = 0 THEN {[old |-> old, new |-> new, at |-> <<>>]} ELSE Under(f[m - 1])]
           missing == {n \in 0..MaxDepth : \A f : ~Is_(f, n)}
<1>1a. missing \in SUBSET Nat /\ \A n \in missing : n \in 0..MaxDepth
  BY <1>1
<1>2. ASSUME NEW n \in missing, \A m \in missing : n <= m
      PROVE  FALSE
  <2>1. CASE n = 0
    <3> DEFINE f == [m \in 0..0 |-> {[old |-> old, new |-> new, at |-> <<>>]}]
    <3>1. Is_(f, 0)
      OBVIOUS
    <3>2. QED
      BY <2>1, <3>1
  <2>2. CASE n # 0
    <3>1. n \in Nat /\ n - 1 \in 0..MaxDepth /\ n - 1 \notin missing
      <4> HIDE DEF missing
      <4>1. QED
        BY <1>1, <1>1a, <1>2, <2>2
    <3>2. PICK g : Is_(g, n - 1)
      BY <3>1
    <3> DEFINE f == [m \in 0..n |-> IF m = n THEN Under(g[n - 1]) ELSE g[m]]
    <3>3. \A m \in 0..n : f[m] = IF m = 0 THEN {[old |-> old, new |-> new, at |-> <<>>]} ELSE Under(f[m - 1])
      <4> SUFFICES ASSUME NEW m \in 0..n
                   PROVE  f[m] = IF m = 0 THEN {[old |-> old, new |-> new, at |-> <<>>]} ELSE Under(f[m - 1])
        OBVIOUS
      <4>1. CASE m = n
        BY <2>2, <3>1, <4>1
      <4>2. CASE m # n
        <5>1. m \in 0..(n - 1) /\ (m # 0 => m - 1 \in 0..(n - 1) /\ m - 1 # n)
          BY <3>1, <4>2
        <5>2. g[m] = IF m = 0 THEN {[old |-> old, new |-> new, at |-> <<>>]} ELSE Under(g[m - 1])
          BY <3>2, <5>1
        <5>3. f[m] = g[m] /\ (m # 0 => f[m - 1] = g[m - 1])
          BY <3>1, <4>2, <5>1
        <5>4. QED
          BY <5>2, <5>3
      <4>3. QED
        BY <4>1, <4>2
    <3>4. Is_(f, n)
      <4> HIDE DEF f
      <4>1. f = [m \in 0..n |-> f[m]]
        BY DEF f
      <4>2. QED
        BY <3>3, <4>1
    <3>5. QED
      BY <3>4
  <2>3. QED
    BY <2>1, <2>2
<1>3. missing = {}
  <2> HIDE DEF missing
  <2>1. QED
    BY <1>1a, <1>2, FirstPosition
<1>4. PICK whole : Is_(whole, MaxDepth)
  <2> HIDE DEF Is_
  <2>1. QED
    BY <1>1, <1>3
<1> DEFINE along == CHOOSE f : Is_(f, MaxDepth)
<1>5. Is_(along, MaxDepth)
  BY <1>4
<1>6. Levels(old, new) = along
  BY DEF Levels
<1> HIDE DEF along
<1>7. \A n \in 0..MaxDepth : Levels(old, new)[n] = IF n = 0 THEN {[old |-> old, new |-> new, at |-> <<>>]} ELSE Under(Levels(old, new)[n - 1])
  BY <1>5, <1>6
<1>8. QED
  BY <1>1, <1>7

\* and the paths of one.
LEMMA NestedIsDefined ==
  ASSUME NEW v
  PROVE  /\ Nested(v)[0] = {<<>>}
         /\ \A n \in 1..MaxDepth : Nested(v)[n] = Longer(v, Nested(v)[n - 1])
<1>1. MaxDepth \in Nat
  BY DiffAssumption
<1> DEFINE Is_(f, n) == f = [m \in 0..n |-> IF m = 0 THEN {<<>>} ELSE Longer(v, f[m - 1])]
           missing == {n \in 0..MaxDepth : \A f : ~Is_(f, n)}
<1>1a. missing \in SUBSET Nat /\ \A n \in missing : n \in 0..MaxDepth
  BY <1>1
<1>2. ASSUME NEW n \in missing, \A m \in missing : n <= m
      PROVE  FALSE
  <2>1. CASE n = 0
    <3> DEFINE f == [m \in 0..0 |-> {<<>>}]
    <3>1. Is_(f, 0)
      OBVIOUS
    <3>2. QED
      BY <2>1, <3>1
  <2>2. CASE n # 0
    <3>1. n \in Nat /\ n - 1 \in 0..MaxDepth /\ n - 1 \notin missing
      <4> HIDE DEF missing
      <4>1. QED
        BY <1>1, <1>1a, <1>2, <2>2
    <3>2. PICK g : Is_(g, n - 1)
      BY <3>1
    <3> DEFINE f == [m \in 0..n |-> IF m = n THEN Longer(v, g[n - 1]) ELSE g[m]]
    <3>3. \A m \in 0..n : f[m] = IF m = 0 THEN {<<>>} ELSE Longer(v, f[m - 1])
      <4> SUFFICES ASSUME NEW m \in 0..n
                   PROVE  f[m] = IF m = 0 THEN {<<>>} ELSE Longer(v, f[m - 1])
        OBVIOUS
      <4>1. CASE m = n
        BY <2>2, <3>1, <4>1
      <4>2. CASE m # n
        <5>1. m \in 0..(n - 1) /\ (m # 0 => m - 1 \in 0..(n - 1) /\ m - 1 # n)
          BY <3>1, <4>2
        <5>2. g[m] = IF m = 0 THEN {<<>>} ELSE Longer(v, g[m - 1])
          BY <3>2, <5>1
        <5>3. f[m] = g[m] /\ (m # 0 => f[m - 1] = g[m - 1])
          BY <3>1, <4>2, <5>1
        <5>4. QED
          BY <5>2, <5>3
      <4>3. QED
        BY <4>1, <4>2
    <3>4. Is_(f, n)
      <4> HIDE DEF f
      <4>1. f = [m \in 0..n |-> f[m]]
        BY DEF f
      <4>2. QED
        BY <3>3, <4>1
    <3>5. QED
      BY <3>4
  <2>3. QED
    BY <2>1, <2>2
<1>3. missing = {}
  <2> HIDE DEF missing
  <2>1. QED
    BY <1>1a, <1>2, FirstPosition
<1>4. PICK whole : Is_(whole, MaxDepth)
  <2> HIDE DEF Is_
  <2>1. QED
    BY <1>1, <1>3
<1> DEFINE along == CHOOSE f : Is_(f, MaxDepth)
<1>5. Is_(along, MaxDepth)
  BY <1>4
<1>6. Nested(v) = along
  BY DEF Nested
<1> HIDE DEF along
<1>7. \A n \in 0..MaxDepth : Nested(v)[n] = IF n = 0 THEN {<<>>} ELSE Longer(v, Nested(v)[n - 1])
  BY <1>5, <1>6
<1>8. QED
  BY <1>1, <1>7

-----------------------------------------------------------------------------
\* Any list is a path.
LEMMA ListsArePaths ==
  ASSUME NEW S, NEW path \in Seq(S)
  PROVE  IsPath(path)
BY SeqOfRange DEF IsPath

\* The empty path, a path and one more key, and two paths in a row are paths.
LEMMA PathsAreBuilt ==
  /\ IsPath(<<>>)
  /\ \A path, key : IsPath(path) => IsPath(Append(path, key))
  /\ \A path, rest : IsPath(path) /\ IsPath(rest) => IsPath(path \o rest)
<1>1. IsPath(<<>>)
  <2>1. <<>> \in Seq({})
    OBVIOUS
  <2>2. QED
    BY <2>1, ListsArePaths
<1>2. ASSUME NEW path, NEW key, IsPath(path)
      PROVE  IsPath(Append(path, key))
  <2>1. Append(path, key) \in Seq(Range(path) \cup {key})
    BY <1>2 DEF IsPath
  <2>2. QED
    BY <2>1, ListsArePaths
<1>3. ASSUME NEW path, NEW rest, IsPath(path), IsPath(rest)
      PROVE  IsPath(path \o rest)
  <2>1. path \o rest \in Seq(Range(path) \cup Range(rest))
    BY <1>3 DEF IsPath
  <2>2. QED
    BY <2>1, ListsArePaths
<1>4. QED
  BY <1>1, <1>2, <1>3

\* As far as two paths are the same they lead to the same.
LEMMA SameStart ==
  ASSUME NEW document, NEW path, NEW other, IsPath(path), IsPath(other), Len(path) <= Len(other),
         \A i \in 1..Len(path) : path[i] = other[i]
  PROVE  \A n \in 0..Len(path) : Along(document, other)[n] = Along(document, path)[n]
<1> DEFINE bad == {n \in 0..Len(path) : Along(document, other)[n] # Along(document, path)[n]}
<1>1. Len(path) \in Nat /\ Len(other) \in Nat
  BY DEF IsPath
<1>2. bad \in SUBSET Nat
  BY <1>1
<1>3. ASSUME NEW n \in bad, \A m \in bad : n <= m
      PROVE  FALSE
  <2>1. n \in 0..Len(path) /\ n \in 0..Len(other) /\ n \in Nat
    BY <1>1
  <2>2. CASE n = 0
    <3>1. Along(document, other)[n] = document /\ Along(document, path)[n] = document
      BY <2>1, <2>2, AlongIsDefined
    <3>2. QED
      BY <3>1
  <2>3. CASE n # 0
    <3>1. n - 1 \in 0..Len(path) /\ ~(n <= n - 1)
      BY <2>1, <2>3
    <3>2. Along(document, other)[n - 1] = Along(document, path)[n - 1]
      BY <1>3, <3>1
    <3>3. /\ Along(document, other)[n] = Sub(Along(document, other)[n - 1], other[n])
          /\ Along(document, path)[n] = Sub(Along(document, path)[n - 1], path[n])
      BY <2>1, <2>3, AlongIsDefined
    <3>4. other[n] = path[n]
      BY <2>1, <2>3
    <3>5. QED
      BY <3>2, <3>3, <3>4
  <2>4. QED
    BY <2>2, <2>3
<1>4. bad = {}
  <2> HIDE DEF bad
  <2>1. QED
    BY <1>2, <1>3, FirstPosition
<1>5. QED
  BY <1>4

\* The empty path leads to the document itself.
LEMMA StartOfPath ==
  ASSUME NEW document
  PROVE  ValueAt(document, <<>>) = document
<1>1. IsPath(<<>>) /\ Len(<<>>) = 0
  BY PathsAreBuilt
<1>2. 0 \in 0..Len(<<>>)
  BY <1>1
<1>3. QED
  BY <1>1, <1>2, AlongIsDefined DEF ValueAt

\* One key further.
LEMMA NextKey ==
  ASSUME NEW document, NEW path, NEW key, IsPath(path)
  PROVE  ValueAt(document, Append(path, key)) = Sub(ValueAt(document, path), key)
<1> DEFINE longer == Append(path, key)
<1>1. /\ IsPath(longer) /\ Len(path) \in Nat /\ Len(longer) = Len(path) + 1
      /\ longer[Len(path) + 1] = key /\ \A i \in 1..Len(path) : longer[i] = path[i]
  <2>1. path \in Seq(Range(path) \cup {key}) /\ key \in Range(path) \cup {key}
    BY DEF IsPath
  <2>2. QED
    BY <2>1, AppendProperties, PathsAreBuilt
<1> HIDE DEF longer
<1>2. Along(document, longer)[Len(path)] = Along(document, path)[Len(path)]
  BY <1>1, SameStart
<1>3. Along(document, longer)[Len(path) + 1] = Sub(Along(document, longer)[Len(path)], key)
  <2>1. Len(path) + 1 \in 0..Len(longer) /\ Len(path) + 1 # 0 /\ (Len(path) + 1) - 1 = Len(path)
    BY <1>1
  <2>2. QED
    BY <1>1, <2>1, AlongIsDefined
<1>4. QED
  BY <1>1, <1>2, <1>3 DEF ValueAt, longer

\* A path followed by another.
LEMMA PathInPath ==
  ASSUME NEW document, NEW path, NEW rest, IsPath(path), IsPath(rest)
  PROVE  ValueAt(document, path \o rest) = ValueAt(ValueAt(document, path), rest)
<1> DEFINE whole == path \o rest
           value == ValueAt(document, path)
           bad == {n \in 0..Len(rest) :
                     Along(document, whole)[Len(path) + n] # Along(value, rest)[n]}
<1>1. /\ IsPath(whole) /\ Len(path) \in Nat /\ Len(rest) \in Nat
      /\ Len(whole) = Len(path) + Len(rest)
      /\ \A i \in 1..Len(path) : whole[i] = path[i]
      /\ \A i \in 1..Len(rest) : whole[Len(path) + i] = rest[i]
  <2>1. /\ path \in Seq(Range(path) \cup Range(rest))
        /\ rest \in Seq(Range(path) \cup Range(rest))
    BY DEF IsPath
  <2>2. QED
    BY <2>1, ConcatProperties, PathsAreBuilt
<1> HIDE DEF whole, value
<1>2. Along(document, whole)[Len(path)] = value
  <2>1. Len(path) <= Len(whole) /\ Len(path) \in 0..Len(path)
    BY <1>1
  <2>2. QED
    BY <1>1, <2>1, SameStart DEF ValueAt, value
<1>3. bad \in SUBSET Nat
  BY <1>1
<1>4. ASSUME NEW n \in bad, \A m \in bad : n <= m
      PROVE  FALSE
  <2>1. n \in 0..Len(rest) /\ n \in Nat
    BY <1>1
  <2>2. CASE n = 0
    <3>1. Along(value, rest)[0] = value /\ Len(path) + 0 = Len(path)
      BY <1>1, <2>1, <2>2, AlongIsDefined
    <3>2. QED
      BY <1>2, <2>2, <3>1
  <2>3. CASE n # 0
    <3>1. n - 1 \in 0..Len(rest) /\ ~(n <= n - 1)
      BY <2>1, <2>3
    <3>2. Along(document, whole)[Len(path) + (n - 1)] = Along(value, rest)[n - 1]
      BY <1>4, <3>1
    <3>3. Along(value, rest)[n] = Sub(Along(value, rest)[n - 1], rest[n])
      BY <2>1, <2>3, AlongIsDefined
    <3>4. /\ Len(path) + n \in 0..Len(whole) /\ Len(path) + n # 0
          /\ (Len(path) + n) - 1 = Len(path) + (n - 1)
      BY <1>1, <2>1, <2>3
    <3>5. Along(document, whole)[Len(path) + n]
            = Sub(Along(document, whole)[Len(path) + (n - 1)], whole[Len(path) + n])
      BY <1>1, <3>4, AlongIsDefined
    <3>6. whole[Len(path) + n] = rest[n]
      BY <1>1, <2>1, <2>3
    <3>7. QED
      BY <3>2, <3>3, <3>5, <3>6
  <2>4. QED
    BY <2>2, <2>3
<1>5. bad = {}
  <2> HIDE DEF bad
  <2>1. QED
    BY <1>3, <1>4, FirstPosition
<1>6. Along(document, whole)[Len(path) + Len(rest)] = Along(value, rest)[Len(rest)]
  BY <1>1, <1>5
<1>7. QED
  BY <1>1, <1>6 DEF ValueAt, whole, value

\* No path leads anywhere from what is not there.
LEMMA NothingInNothing ==
  ASSUME NEW path, IsPath(path)
  PROVE  ValueAt(Absent, path) = Absent
<1> DEFINE bad == {n \in 0..Len(path) : Along(Absent, path)[n] # Absent}
<1>1. Len(path) \in Nat
  BY DEF IsPath
<1>2. bad \in SUBSET Nat
  BY <1>1
<1>3. ASSUME NEW n \in bad, \A m \in bad : n <= m
      PROVE  FALSE
  <2>1. n \in 0..Len(path) /\ n \in Nat /\ n # 0
    BY <1>1, AlongIsDefined
  <2>2. n - 1 \in 0..Len(path) /\ ~(n <= n - 1)
    BY <2>1
  <2>3. Along(Absent, path)[n - 1] = Absent
    BY <1>3, <2>2
  <2>4. Along(Absent, path)[n] = Sub(Absent, path[n])
    BY <2>1, <2>3, AlongIsDefined
  <2>5. QED
    BY <2>4 DEF Sub, Field, Is
<1>4. bad = {}
  <2> HIDE DEF bad
  <2>1. QED
    BY <1>2, <1>3, FirstPosition
<1>5. QED
  BY <1>1, <1>4 DEF ValueAt

-----------------------------------------------------------------------------
(* The walk through two values.                                            *)

\* Of an object, what a key leads to is the field of that name.
LEMMA FieldIsSub ==
  ASSUME NEW v, NEW key, Is("object", v)
  PROVE  Sub(v, key) = Field(v, key)
BY DEF Sub, Is

\* Under a pair of objects the fields of every key are compared.
LEMMA KeyIsUnder ==
  ASSUME NEW pairs, NEW pair \in pairs, Both(pair),
         NEW key \in DOMAIN pair.old.object \cup DOMAIN pair.new.object
  PROVE  [old |-> Field(pair.old, key), new |-> Field(pair.new, key), at |-> Append(pair.at, key)]
           \in Under(pairs)
<1> DEFINE ofKeys(p) ==
      {[old |-> Field(p.old, k), new |-> Field(p.new, k), at |-> Append(p.at, k)] :
         k \in DOMAIN p.old.object \cup DOMAIN p.new.object}
<1>1. [old |-> Field(pair.old, key), new |-> Field(pair.new, key), at |-> Append(pair.at, key)]
        \in ofKeys(pair)
  OBVIOUS
<1>2. Under(pairs) = UNION {ofKeys(p) : p \in {q \in pairs : Both(q)}}
  BY DEF Under
<1> HIDE DEF ofKeys
<1>3. QED
  BY <1>1, <1>2

\* A pair compared is what is at its place on each side.
LEMMA PairsAreThere ==
  ASSUME NEW old, NEW new
  PROVE  \A depth \in 0..MaxDepth : \A pair \in Levels(old, new)[depth] :
           /\ IsPath(pair.at)
           /\ pair.old = ValueAt(old, pair.at) /\ pair.new = ValueAt(new, pair.at)
<1> DEFINE There(pair) == /\ IsPath(pair.at)
                          /\ pair.old = ValueAt(old, pair.at) /\ pair.new = ValueAt(new, pair.at)
           bad == {depth \in 0..MaxDepth : \E pair \in Levels(old, new)[depth] : ~There(pair)}
<1>1. MaxDepth \in Nat
  BY DiffAssumption
<1>2. bad \in SUBSET Nat
  BY <1>1
<1>3. ASSUME NEW depth \in bad, \A d \in bad : depth <= d
      PROVE  FALSE
  <2>1. depth \in 0..MaxDepth /\ depth \in Nat
    BY <1>1
  <2>2. PICK pair \in Levels(old, new)[depth] : ~There(pair)
    OBVIOUS
  <2>3. CASE depth = 0
    <3>1. pair = [old |-> old, new |-> new, at |-> <<>>]
      BY <2>1, <2>2, <2>3, LevelsAreDefined
    <3>2. QED
      BY <2>2, <3>1, StartOfPath, PathsAreBuilt
  <2>4. CASE depth # 0
    <3>1. depth - 1 \in 0..MaxDepth /\ ~(depth <= depth - 1)
      BY <1>1, <2>1, <2>4
    <3>2. Levels(old, new)[depth] = Under(Levels(old, new)[depth - 1])
      <4>1. depth \in 1..MaxDepth
        BY <2>1, <2>4
      <4>2. QED
        BY <4>1, LevelsAreDefined
    <3>3. PICK p \in Levels(old, new)[depth - 1] :
            /\ Both(p)
            /\ \E key : pair = [old |-> Field(p.old, key), new |-> Field(p.new, key),
                               at |-> Append(p.at, key)]
      BY <2>2, <3>2 DEF Under
    <3>4. PICK key : pair = [old |-> Field(p.old, key), new |-> Field(p.new, key),
                              at |-> Append(p.at, key)]
      BY <3>3
    <3>5. There(p)
      BY <1>3, <3>1
    <3>6. pair.old = Sub(p.old, key) /\ pair.new = Sub(p.new, key)
      BY <3>3, <3>4, FieldIsSub DEF Both
    <3>7. IsPath(pair.at)
      BY <3>4, <3>5, PathsAreBuilt
    <3>8. pair.old = ValueAt(old, pair.at) /\ pair.new = ValueAt(new, pair.at)
      BY <3>4, <3>5, <3>6, NextKey
    <3>9. QED
      BY <2>2, <3>7, <3>8
  <2>5. QED
    BY <2>3, <2>4
<1>4. bad = {}
  <2> HIDE DEF bad
  <2>1. QED
    BY <1>2, <1>3, FirstPosition
<1>5. QED
  BY <1>4

\* A change found is of two values that differ, each in the value on its side.
LEMMA WalkFinds ==
  ASSUME NEW old, NEW new, NEW oldPath, NEW newPath,
         NEW delta \in Walk(old, new, oldPath, newPath)
  PROVE  /\ delta.before # delta.after
         /\ delta.identity = Absent /\ delta.oldIndices = Absent
         /\ delta.before # Absent =>
              /\ old # Absent
              /\ \E at : /\ IsPath(at) /\ delta.oldPath = oldPath \o at
                        /\ ValueAt(old, at) = delta.before
         /\ delta.after # Absent =>
              /\ new # Absent
              /\ \E at : /\ IsPath(at) /\ delta.newPath = newPath \o at
                        /\ ValueAt(new, at) = delta.after
<1>1. PICK depth \in 0..MaxDepth : \E pair \in Levels(old, new)[depth] :
        /\ pair.old # pair.new
        /\ delta = Change(pair.old, pair.new, oldPath \o pair.at, newPath \o pair.at)
  BY DEF Walk
<1>2. PICK pair \in Levels(old, new)[depth] :
        /\ pair.old # pair.new
        /\ delta = Change(pair.old, pair.new, oldPath \o pair.at, newPath \o pair.at)
  BY <1>1
<1>3. /\ IsPath(pair.at)
      /\ pair.old = ValueAt(old, pair.at) /\ pair.new = ValueAt(new, pair.at)
  BY PairsAreThere
<1>4. /\ delta.before = pair.old /\ delta.after = pair.new
      /\ delta.identity = Absent /\ delta.oldIndices = Absent
      /\ pair.old # Absent => delta.oldPath = oldPath \o pair.at
      /\ pair.new # Absent => delta.newPath = newPath \o pair.at
  BY <1>2 DEF Change
<1>5. (pair.old # Absent => old # Absent) /\ (pair.new # Absent => new # Absent)
  BY <1>3, NothingInNothing
<1>6. QED
  BY <1>2, <1>3, <1>4, <1>5

\* A value named, in the one at a path.
InItem(path, root, document, place, value) ==
  value # Absent =>
    /\ root # Absent
    /\ \E at : IsPath(at) /\ place = path \o at
    /\ ValueAt(document, place) = value

\* It is at its path in a document, if the walk started from what is in the document.
LEMMA WalkedIsThere ==
  ASSUME NEW old, NEW new, NEW oldPath, NEW newPath, NEW delta \in Walk(old, new, oldPath, newPath),
         IsPath(oldPath), IsPath(newPath)
  PROVE  /\ \A document : (old # Absent => ValueAt(document, oldPath) = old) =>
              InItem(oldPath, old, document, delta.oldPath, delta.before)
         /\ \A document : (new # Absent => ValueAt(document, newPath) = new) =>
              InItem(newPath, new, document, delta.newPath, delta.after)
<1>1. ASSUME NEW document, old # Absent => ValueAt(document, oldPath) = old, delta.before # Absent
      PROVE  InItem(oldPath, old, document, delta.oldPath, delta.before)
  <2>1. PICK at : /\ IsPath(at) /\ delta.oldPath = oldPath \o at
                  /\ ValueAt(old, at) = delta.before /\ old # Absent
    BY <1>1, WalkFinds
  <2>2. ValueAt(document, oldPath \o at) = delta.before
    BY <1>1, <2>1, PathInPath
  <2>3. QED
    BY <2>1, <2>2 DEF InItem
<1>2. ASSUME NEW document, new # Absent => ValueAt(document, newPath) = new, delta.after # Absent
      PROVE  InItem(newPath, new, document, delta.newPath, delta.after)
  <2>1. PICK at : /\ IsPath(at) /\ delta.newPath = newPath \o at
                  /\ ValueAt(new, at) = delta.after /\ new # Absent
    BY <1>2, WalkFinds
  <2>2. ValueAt(document, newPath \o at) = delta.after
    BY <1>2, <2>1, PathInPath
  <2>3. QED
    BY <2>1, <2>2 DEF InItem
<1>3. QED
  BY <1>1, <1>2 DEF InItem

\* Between a value and itself nothing is reported.
LEMMA NothingBetweenTheSame ==
  ASSUME NEW v, NEW oldPath, NEW newPath
  PROVE  Walk(v, v, oldPath, newPath) = {}
<1>1. \A depth \in 0..MaxDepth : \A pair \in Levels(v, v)[depth] : pair.old = pair.new
  BY PairsAreThere
<1>2. QED
  BY <1>1 DEF Walk

\* A change names a place: it is of a value the place is in.
Named(deltas, oldPath, newPath, place) ==
  \E delta \in deltas : \E at, rest :
    /\ IsPath(at) /\ IsPath(rest) /\ place = at \o rest
    /\ \/ delta.before # Absent /\ delta.oldPath = oldPath \o at
       \/ delta.after # Absent /\ delta.newPath = newPath \o at

\* The changes of a walk, with or without the identity of an item.
OfWalk(deltas, old, new, oldPath, newPath) ==
  \A walked \in Walk(old, new, oldPath, newPath) : \E delta \in deltas :
    /\ delta.before = walked.before /\ delta.after = walked.after
    /\ delta.oldPath = walked.oldPath /\ delta.newPath = walked.newPath

\* A path is a prefix of every path that goes on from it.
LEMMA StartIsPrefix ==
  ASSUME NEW path, NEW rest, IsPath(path), IsPath(rest)
  PROVE  IsPrefix(path, path \o rest)
<1> DEFINE S == Range(path) \cup Range(rest)
<1>1. path \in Seq(S) /\ rest \in Seq(S)
  BY DEF IsPath
<1> HIDE DEF S
<1>2. Len(path) \in Nat /\ Len(path \o rest) = Len(path) + Len(rest) /\ Len(rest) \in Nat
  BY <1>1, ConcatProperties
<1>3. SubSeq(path, 1, Len(path)) = path
  BY <1>1, SubSeqFull
<1>4. SubSeq(path \o rest, 1, Len(path)) = path
  BY <1>1, <1>2
<1>5. QED
  BY <1>2, <1>3, <1>4 DEF IsPrefix

\* What is named in the values compared is told at its place in the documents.
LEMMA NamedIsTold ==
  ASSUME NEW deltas, NEW oldPath, NEW newPath, NEW place, IsPath(oldPath), IsPath(newPath),
         Named(deltas, oldPath, newPath, place)
  PROVE  Told(deltas, oldPath \o place, newPath \o place)
<1> PICK delta \in deltas : \E at, rest :
      /\ IsPath(at) /\ IsPath(rest) /\ place = at \o rest
      /\ \/ delta.before # Absent /\ delta.oldPath = oldPath \o at
         \/ delta.after # Absent /\ delta.newPath = newPath \o at
  BY DEF Named
<1>1. PICK at, rest :
        /\ IsPath(at) /\ IsPath(rest) /\ place = at \o rest
        /\ \/ delta.before # Absent /\ delta.oldPath = oldPath \o at
           \/ delta.after # Absent /\ delta.newPath = newPath \o at
  OBVIOUS
<1>2. ASSUME NEW path, IsPath(path)
      PROVE  IsPrefix(path \o at, path \o place)
  <2> DEFINE S == (Range(path) \cup Range(at)) \cup Range(rest)
  <2>1. path \in Seq(S) /\ at \in Seq(S) /\ rest \in Seq(S)
    BY <1>1, <1>2 DEF IsPath
  <2> HIDE DEF S
  <2>2. path \o (at \o rest) = (path \o at) \o rest
    BY <2>1, ConcatAssociative
  <2>3. IsPath(path \o at)
    BY <1>1, <1>2, PathsAreBuilt
  <2>4. QED
    BY <1>1, <2>2, <2>3, StartIsPrefix
<1>3. QED
  BY <1>1, <1>2 DEF Told

\* What is beneath a named place is named.
LEMMA NamedBeneath ==
  ASSUME NEW deltas, NEW oldPath, NEW newPath, NEW place, NEW key,
         Named(deltas, oldPath, newPath, place)
  PROVE  Named(deltas, oldPath, newPath, Append(place, key))
<1> PICK delta \in deltas : \E at, rest :
      /\ IsPath(at) /\ IsPath(rest) /\ place = at \o rest
      /\ \/ delta.before # Absent /\ delta.oldPath = oldPath \o at
         \/ delta.after # Absent /\ delta.newPath = newPath \o at
  BY DEF Named
<1>1. PICK at, rest :
        /\ IsPath(at) /\ IsPath(rest) /\ place = at \o rest
        /\ \/ delta.before # Absent /\ delta.oldPath = oldPath \o at
           \/ delta.after # Absent /\ delta.newPath = newPath \o at
  OBVIOUS
<1>2. Append(place, key) = at \o Append(rest, key)
  <2>1. at \in Seq((Range(at) \cup Range(rest)) \cup {key}) /\ rest \in Seq((Range(at) \cup Range(rest)) \cup {key})
    BY <1>1 DEF IsPath
  <2>2. QED
    BY <1>1, <2>1
<1>3. IsPath(Append(rest, key))
  BY <1>1, PathsAreBuilt
<1>4. QED
  BY <1>1, <1>2, <1>3 DEF Named

\* Of two values at one place: they are told, or the same, or both objects.
LEMMA PairIsSettled ==
  ASSUME NEW deltas, NEW old, NEW new, NEW oldPath, NEW newPath,
         OfWalk(deltas, old, new, oldPath, newPath),
         NEW depth \in 0..MaxDepth, NEW pair \in Levels(old, new)[depth]
  PROVE  Named(deltas, oldPath, newPath, pair.at) \/ pair.old = pair.new \/ Both(pair)
<1> SUFFICES ASSUME pair.old # pair.new, ~Both(pair)
             PROVE  Named(deltas, oldPath, newPath, pair.at)
  OBVIOUS
<1> DEFINE change == Change(pair.old, pair.new, oldPath \o pair.at, newPath \o pair.at)
<1>1. change \in Walk(old, new, oldPath, newPath)
  BY DEF Walk
<1>2. PICK delta \in deltas :
        /\ delta.before = change.before /\ delta.after = change.after
        /\ delta.oldPath = change.oldPath /\ delta.newPath = change.newPath
  BY <1>1 DEF OfWalk
<1>3. \/ delta.before # Absent /\ delta.oldPath = oldPath \o pair.at
      \/ delta.after # Absent /\ delta.newPath = newPath \o pair.at
  BY <1>2 DEF Change
<1>4. IsPath(pair.at) /\ IsPath(<<>>) /\ pair.at = pair.at \o <<>>
  <2>1. IsPath(pair.at) /\ IsPath(<<>>)
    BY PairsAreThere, PathsAreBuilt
  <2>2. pair.at \in Seq(Range(pair.at))
    BY <2>1 DEF IsPath
  <2>3. QED
    BY <2>1, <2>2, ConcatEmptySeq
<1>5. QED
  BY <1>3, <1>4 DEF Named

\* What the changes of a walk name is all in which two values differ.
LEMMA WalkTellsAll ==
  ASSUME NEW deltas, NEW old, NEW new, NEW oldPath, NEW newPath,
         IsPath(oldPath), IsPath(newPath), OfWalk(deltas, old, new, oldPath, newPath)
  PROVE  SameBut(deltas, old, new, oldPath, newPath)
<1> DEFINE Settled(depth, place) ==
             \/ Named(deltas, oldPath, newPath, place)
             \/ ValueAt(old, place) = ValueAt(new, place)
             \/ \E pair \in Levels(old, new)[depth] : Both(pair) /\ pair.at = place
           all(depth) == Nested(old)[depth] \cup Nested(new)[depth]
           bad == {depth \in 0..MaxDepth : \E place \in all(depth) :
                     ~(IsPath(place) /\ Settled(depth, place))}
<1>1. MaxDepth \in Nat
  BY DiffAssumption
<1>2. bad \in SUBSET Nat
  BY <1>1
<1>3. ASSUME NEW depth \in 0..MaxDepth, NEW pair \in Levels(old, new)[depth]
      PROVE  Settled(depth, pair.at)
  <2>1. pair.old = ValueAt(old, pair.at) /\ pair.new = ValueAt(new, pair.at)
    BY PairsAreThere
  <2>2. QED
    BY <2>1, PairIsSettled
<1>4. ASSUME NEW depth \in bad, \A d \in bad : depth <= d
      PROVE  FALSE
  <2>1. depth \in 0..MaxDepth /\ depth \in Nat
    BY <1>1
  <2>2. PICK place \in all(depth) : ~(IsPath(place) /\ Settled(depth, place))
    OBVIOUS
  <2>3. CASE depth = 0
    <3>1. Nested(old)[0] = {<<>>} /\ Nested(new)[0] = {<<>>}
      BY <2>1, <2>3, NestedIsDefined
    <3>2. place = <<>>
      BY <2>2, <2>3, <3>1
    <3> DEFINE pair == [old |-> old, new |-> new, at |-> <<>>]
    <3>3. pair \in Levels(old, new)[depth]
      <4>1. Levels(old, new)[depth] = {pair}
        BY <2>1, <2>3, LevelsAreDefined
      <4>2. QED
        BY <4>1
    <3> HIDE DEF Settled
    <3>4. Settled(depth, pair.at)
      BY <1>3, <2>1, <3>3
    <3>5. QED
      BY <2>2, <3>2, <3>4, PathsAreBuilt
  <2>4. CASE depth # 0
    <3>1. depth - 1 \in 0..MaxDepth /\ ~(depth <= depth - 1)
      BY <1>1, <2>1, <2>4
    <3>2. /\ Nested(old)[depth] = Longer(old, Nested(old)[depth - 1])
          /\ Nested(new)[depth] = Longer(new, Nested(new)[depth - 1])
          /\ Levels(old, new)[depth] = Under(Levels(old, new)[depth - 1])
      <4> HIDE DEF bad, Settled
      <4>1. depth \in 1..MaxDepth
        BY <2>1, <2>4
      <4>2. \A v : Nested(v)[depth] = Longer(v, Nested(v)[depth - 1])
        BY <4>1, NestedIsDefined
      <4>3. Levels(old, new)[depth] = Under(Levels(old, new)[depth - 1])
        BY <4>1, LevelsAreDefined
      <4>4. QED
        BY <4>2, <4>3
    <3>3. PICK path \in all(depth - 1) : \E key \in Keys(ValueAt(old, path)) \cup Keys(ValueAt(new, path)) :
            place = Append(path, key)
      BY <2>2, <3>2 DEF Longer
    <3>4. PICK key \in Keys(ValueAt(old, path)) \cup Keys(ValueAt(new, path)) :
            place = Append(path, key)
      BY <3>3
    <3>5. IsPath(path) /\ Settled(depth - 1, path)
      BY <1>4, <3>1
    <3>6. IsPath(place)
      BY <3>4, <3>5, PathsAreBuilt
    <3>7. CASE Named(deltas, oldPath, newPath, path)
      BY <2>2, <3>4, <3>6, <3>7, NamedBeneath
    <3>8. CASE ValueAt(old, path) = ValueAt(new, path)
      <4>1. ValueAt(old, place) = ValueAt(new, place)
        BY <3>4, <3>5, <3>8, NextKey
      <4>2. QED
        BY <2>2, <3>6, <4>1
    <3>9. ASSUME NEW pair \in Levels(old, new)[depth - 1], Both(pair), pair.at = path
          PROVE  FALSE
      <4>1. pair.old = ValueAt(old, path) /\ pair.new = ValueAt(new, path)
        BY <3>1, <3>9, PairsAreThere
      <4>2. key \in DOMAIN pair.old.object \cup DOMAIN pair.new.object
        BY <3>4, <3>9, <4>1 DEF Keys, Both
      <4> DEFINE beneath == [old |-> Field(pair.old, key), new |-> Field(pair.new, key),
                             at |-> Append(pair.at, key)]
      <4>3. beneath \in Levels(old, new)[depth]
        BY <3>2, <3>9, <4>2, KeyIsUnder
      <4>4. beneath.at = place
        BY <3>4, <3>9
      <4> HIDE DEF beneath, Settled
      <4>5. Settled(depth, place)
        BY <1>3, <2>1, <4>3, <4>4
      <4>6. QED
        BY <2>2, <3>6, <4>5
    <3>10. QED
      BY <3>5, <3>7, <3>8, <3>9
  <2>5. QED
    BY <2>3, <2>4
<1>5. bad = {}
  <2> HIDE DEF bad
  <2>1. QED
    BY <1>2, <1>4, FirstPosition
<1>6. ASSUME NEW place \in Places(old) \cup Places(new)
      PROVE  \/ Told(deltas, oldPath \o place, newPath \o place)
             \/ ValueAt(old, place) = ValueAt(new, place)
             \/ Is("object", ValueAt(old, place)) /\ Is("object", ValueAt(new, place))
  <2>1. PICK depth \in 0..MaxDepth : place \in all(depth)
    BY DEF Places
  <2>2. IsPath(place) /\ Settled(depth, place)
    BY <1>5, <2>1
  <2>3. CASE Named(deltas, oldPath, newPath, place)
    BY <2>3, NamedIsTold
  <2>4. ASSUME NEW pair \in Levels(old, new)[depth], Both(pair), pair.at = place
        PROVE  Is("object", ValueAt(old, place)) /\ Is("object", ValueAt(new, place))
    BY <2>4, PairsAreThere DEF Both
  <2>5. QED
    BY <2>2, <2>3, <2>4
<1>7. QED
  BY <1>6 DEF SameBut

-----------------------------------------------------------------------------
(* The positions of an identity, in order.                                 *)

InOrder(indices, S) == indices \in Seq(S) /\ Range(indices) = S /\ Increasing(indices)

\* A set of positions up to N has an increasing enumeration: the N-th at the end, if it is one.
LEMMA OrderExists ==
  ASSUME NEW N \in Nat, NEW S \in SUBSET (1..N)
  PROVE  \E indices : InOrder(indices, S)
<1> DEFINE bad == {n \in 0..N : \A indices : ~InOrder(indices, S \cap (1..n))}
<1>1. bad \in SUBSET Nat
  OBVIOUS
<1>2. ASSUME NEW n \in bad, \A m \in bad : n <= m
      PROVE  FALSE
  <2>1. n \in Nat /\ n <= N
    OBVIOUS
  <2>2. CASE n = 0
    <3>1. S \cap (1..n) = {}
      BY <2>2
    <3>2. InOrder(<<>>, {})
      BY DEF InOrder, Increasing, Range
    <3>3. QED
      BY <3>1, <3>2
  <2>3. CASE n # 0
    <3> DEFINE before == S \cap (1..(n - 1))
    <3>1. n - 1 \in 0..N /\ ~(n <= n - 1)
      BY <2>1, <2>3
    <3>2. PICK indices : InOrder(indices, before)
      BY <1>2, <3>1
    <3>3. CASE n \notin S
      <4>1. S \cap (1..n) = before
        BY <2>1, <3>3
      <4>2. QED
        BY <3>2, <4>1
    <3>4. CASE n \in S
      <4>1. S \cap (1..n) = before \cup {n}
        BY <2>1, <2>3, <3>4
      <4>2. \A i \in before : i \in Nat /\ i < n
        BY <2>1
      <4> HIDE DEF before
      <4> DEFINE longer == Append(indices, n)
      <4>3. indices \in Seq(before \cup {n}) /\ indices \in Seq(before)
        BY <3>2 DEF InOrder
      <4>4. /\ longer \in Seq(before \cup {n}) /\ Len(longer) = Len(indices) + 1
            /\ longer[Len(indices) + 1] = n
            /\ \A i \in 1..Len(indices) : longer[i] = indices[i] /\ indices[i] \in before
        BY <4>3, AppendProperties
      <4>5. Len(indices) \in Nat /\ DOMAIN indices = 1..Len(indices)
            /\ DOMAIN longer = 1..(Len(indices) + 1)
        BY <4>3, <4>4
      <4> HIDE DEF longer
      <4>6. Range(longer) = before \cup {n}
        <5>1. \A i \in before : \E k \in 1..Len(indices) : indices[k] = i
          BY <3>2, <4>5 DEF InOrder, Range
        <5>2. \A i \in before \cup {n} : \E k \in DOMAIN longer : longer[k] = i
          BY <4>4, <4>5, <5>1
        <5>3. \A k \in DOMAIN longer : longer[k] \in before \cup {n}
          BY <4>4, <4>5
        <5>4. QED
          BY <5>2, <5>3 DEF Range
      <4>7. Increasing(longer)
        <5> SUFFICES ASSUME NEW i \in DOMAIN longer, NEW j \in DOMAIN longer, i < j
                     PROVE  longer[i] < longer[j]
          BY DEF Increasing
        <5>1. i \in 1..Len(indices)
          BY <4>5
        <5>2. CASE j \in 1..Len(indices)
          BY <3>2, <4>4, <4>5, <5>1, <5>2 DEF InOrder, Increasing
        <5>3. CASE j = Len(indices) + 1
          BY <4>2, <4>4, <5>1, <5>3
        <5>4. QED
          BY <4>5, <5>2, <5>3
      <4>8. InOrder(longer, S \cap (1..n))
        BY <4>1, <4>4, <4>6, <4>7 DEF InOrder
      <4>9. QED
        BY <4>8
    <3>5. QED
      BY <3>3, <3>4
  <2>4. QED
    BY <2>2, <2>3
<1>3. bad = {}
  <2> HIDE DEF bad
  <2>1. QED
    BY <1>1, <1>2, FirstPosition
<1>4. N \in 0..N
  OBVIOUS
<1>5. S \cap (1..N) = S
  OBVIOUS
<1>6. QED
  BY <1>3, <1>4, <1>5

\* An increasing enumeration is a list of the positions.
LEMMA OrderIsList ==
  ASSUME NEW S \in SUBSET Nat, NEW s, InOrder(s, S)
  PROVE  DOMAIN s = 1..Len(s) /\ Len(s) \in Nat /\ \A k \in DOMAIN s : s[k] \in S /\ s[k] \in Nat
<1>1. s \in Seq(S)
  BY DEF InOrder
<1>2. DOMAIN s = 1..Len(s) /\ Len(s) \in Nat /\ \A k \in DOMAIN s : s[k] \in S
  BY <1>1
<1>3. QED
  BY <1>2

\* An order begins like another of the same positions.
LEMMA OrderBegins ==
  ASSUME NEW S \in SUBSET Nat, NEW s, NEW t, InOrder(s, S), InOrder(t, S)
  PROVE  \A k \in DOMAIN s : k \in DOMAIN t /\ s[k] = t[k]
<1> DEFINE bad == {k \in DOMAIN s : ~(k \in DOMAIN t /\ s[k] = t[k])}
<1>1. /\ DOMAIN s = 1..Len(s) /\ Len(s) \in Nat /\ \A k \in DOMAIN s : s[k] \in S /\ s[k] \in Nat
      /\ DOMAIN t = 1..Len(t) /\ Len(t) \in Nat /\ \A k \in DOMAIN t : t[k] \in S /\ t[k] \in Nat
  BY OrderIsList
<1>2. bad \in SUBSET Nat
  BY <1>1
<1>3. ASSUME NEW k \in bad, \A m \in bad : k <= m
      PROVE  FALSE
  <2>1. k \in Nat /\ k \in DOMAIN s
    BY <1>1
  <2>2. \A m \in 1..(k - 1) : m \in DOMAIN s /\ m \in DOMAIN t /\ s[m] = t[m]
    BY <1>1, <1>3, <2>1
  <2>3. PICK m \in DOMAIN t : t[m] = s[k]
    BY <1>1, <2>1 DEF InOrder, Range
  <2>4. k <= m
    <3>1. m \in 1..(k - 1) => s[m] < s[k]
      BY <1>1, <2>1, <2>2 DEF InOrder, Increasing
    <3>2. m \in 1..(k - 1) => s[m] = s[k]
      BY <2>2, <2>3
    <3>3. m \in Nat /\ m # 0 /\ s[k] \in Nat /\ ~(m \in 1..(k - 1))
      BY <1>1, <2>1, <2>3, <3>1, <3>2
    <3>4. QED
      BY <2>1, <3>3
  <2>5. k \in DOMAIN t /\ k # m
    BY <1>1, <1>3, <2>1, <2>3, <2>4
  <2>6. t[k] < s[k]
    BY <1>1, <2>1, <2>3, <2>4, <2>5 DEF InOrder, Increasing
  <2>7. PICK j \in DOMAIN s : s[j] = t[k]
    BY <1>1, <2>5 DEF InOrder, Range
  <2>8. j < k
    <3>1. k < j => s[k] < s[j]
      BY <2>1 DEF InOrder, Increasing
    <3>2. s[k] \in Nat /\ s[j] \in Nat /\ s[j] < s[k]
      BY <1>1, <2>1, <2>6, <2>7
    <3>3. j \in Nat /\ j # k /\ ~(k < j)
      BY <1>1, <3>1, <3>2
    <3>4. QED
      BY <2>1, <3>3
  <2>9. t[j] = t[k] /\ j \in DOMAIN t
    BY <1>1, <2>1, <2>2, <2>7, <2>8
  <2>10. t[j] < t[k]
    BY <2>5, <2>8, <2>9 DEF InOrder, Increasing
  <2>11. t[k] \in Nat
    BY <1>1, <2>5
  <2>12. QED
    BY <2>9, <2>10, <2>11
<1>4. bad = {}
  <2> HIDE DEF bad
  <2>1. QED
    BY <1>2, <1>3, FirstPosition
<1>5. QED
  BY <1>4

\* There is only one increasing enumeration.
LEMMA OneOrder ==
  ASSUME NEW S \in SUBSET Nat, NEW s, NEW t, InOrder(s, S), InOrder(t, S)
  PROVE  s = t
<1>1. /\ \A k \in DOMAIN s : k \in DOMAIN t /\ s[k] = t[k]
      /\ \A k \in DOMAIN t : k \in DOMAIN s /\ s[k] = t[k]
  BY OrderBegins
<1>2. DOMAIN s = DOMAIN t
  BY <1>1
<1>3. s \in Seq(S) /\ t \in Seq(S) /\ Len(s) = Len(t)
  BY <1>2 DEF InOrder
<1>4. QED
  BY <1>1, <1>3, SeqEqual

\* It lists each position once,
LEMMA OrderIsOneToOne ==
  ASSUME NEW S \in SUBSET Nat, NEW s, InOrder(s, S), NEW j \in DOMAIN s, NEW k \in DOMAIN s,
         s[j] = s[k]
  PROVE  j = k
<1>1. DOMAIN s = 1..Len(s) /\ Len(s) \in Nat /\ s[k] \in Nat
  BY OrderIsList
<1>2. ~(j < k) /\ ~(k < j)
  BY <1>1 DEF InOrder, Increasing
<1>3. QED
  BY <1>1, <1>2

\* so it is as long as there are positions.
LEMMA OrderLength ==
  ASSUME NEW S \in SUBSET Nat, NEW s, InOrder(s, S)
  PROVE  IsFiniteSet(S) /\ Cardinality(S) = Len(s)
<1>1. DOMAIN s = 1..Len(s) /\ Len(s) \in Nat /\ \A k \in DOMAIN s : s[k] \in S
  BY OrderIsList
<1>2. s \in Bijection(1..Len(s), S)
  <2>1. s \in [1..Len(s) -> S]
    BY <1>1 DEF InOrder
  <2>2. \A i \in S : \E k \in 1..Len(s) : s[k] = i
    BY <1>1 DEF InOrder, Range
  <2>3. \A j, k \in DOMAIN s : s[j] = s[k] => j = k
    BY OrderIsOneToOne
  <2>4. QED
    BY <2>1, <2>2, <2>3 DEF Bijection, Injection, Surjection, IsInjective
<1>3. IsFiniteSet(1..Len(s)) /\ Cardinality(1..Len(s)) = Len(s)
  BY <1>1, FS_Interval
<1>4. ExistsBijection(1..Len(s), S)
  BY <1>2 DEF ExistsBijection
<1>5. QED
  BY <1>3, <1>4, FS_Bijection

IsList(v) == v.array \in Seq(Range(v.array))

\* The items of one identity are among those of the array.
LEMMA PositionsOfList ==
  ASSUME NEW v, NEW keys, NEW identity, IsList(v)
  PROVE  /\ DOMAIN v.array = 1..Len(v.array) /\ Len(v.array) \in Nat
         /\ Positions(v, keys, identity) \in SUBSET (1..Len(v.array))
         /\ Positions(v, keys, identity) \in SUBSET Nat
<1>1. DOMAIN v.array = 1..Len(v.array) /\ Len(v.array) \in Nat
  BY DEF IsList
<1>2. QED
  BY <1>1 DEF Positions

\* keyed lists the items of one identity in the order of the array, each once.
LEMMA OccurrencesInOrder ==
  ASSUME NEW v, NEW keys, NEW identity, IsList(v)
  PROVE  /\ InOrder(Occurrences(v, keys, identity), Positions(v, keys, identity))
         /\ IsFiniteSet(Positions(v, keys, identity))
         /\ Len(Occurrences(v, keys, identity)) = Cardinality(Positions(v, keys, identity))
<1> DEFINE at == Positions(v, keys, identity)
           chosen == CHOOSE indices \in [1..Cardinality(at) -> at] :
                       Range(indices) = at /\ Increasing(indices)
<1>1. at \in SUBSET (1..Len(v.array)) /\ at \in SUBSET Nat /\ Len(v.array) \in Nat
  BY PositionsOfList
<1>2. Occurrences(v, keys, identity) = chosen
  BY DEF Occurrences
<1> HIDE DEF at
<1>3. PICK s : InOrder(s, at)
  BY <1>1, OrderExists
<1>4. IsFiniteSet(at) /\ Cardinality(at) = Len(s)
  BY <1>1, <1>3, OrderLength
<1>5. s \in [1..Cardinality(at) -> at] /\ Range(s) = at /\ Increasing(s)
  BY <1>1, <1>3, <1>4, OrderIsList DEF InOrder
<1>6. chosen \in [1..Cardinality(at) -> at] /\ Range(chosen) = at /\ Increasing(chosen)
  BY <1>5
<1> HIDE DEF chosen
<1>7. chosen \in Seq(at)
  BY <1>1, <1>3, <1>4, <1>6, OrderIsList
<1>8. InOrder(chosen, at)
  BY <1>6, <1>7 DEF InOrder
<1>9. Cardinality(at) = Len(chosen)
  BY <1>1, <1>8, OrderLength
<1>10. QED
  BY <1>2, <1>4, <1>8, <1>9 DEF at

\* One position at most.
LEMMA FewOccurrences ==
  ASSUME NEW v, NEW keys, NEW identity, IsList(v), Cardinality(Positions(v, keys, identity)) <= 1
  PROVE  Occurrences(v, keys, identity) = Only(Positions(v, keys, identity))
<1> DEFINE at == Positions(v, keys, identity)
           o == Occurrences(v, keys, identity)
<1>1. /\ at \in SUBSET Nat /\ IsFiniteSet(at) /\ Cardinality(at) <= 1
      /\ InOrder(o, at) /\ Len(o) = Cardinality(at)
  BY PositionsOfList, OccurrencesInOrder
<1> HIDE DEF at, o
<1>2. DOMAIN o = 1..Len(o) /\ Len(o) \in Nat /\ (\A k \in DOMAIN o : o[k] \in at) /\ o \in Seq(at)
  BY <1>1, OrderIsList DEF InOrder
<1>3. CASE Cardinality(at) = 0
  <2>1. at = {}
    BY <1>1, <1>3, FS_EmptySet
  <2>2. o = <<>>
    BY <1>1, <1>2, <1>3
  <2>3. QED
    BY <2>1, <2>2 DEF Only, at, o
<1>4. CASE Cardinality(at) = 1
  <2>1. PICK i : at = {i}
    BY <1>1, <1>4, FS_Singleton
  <2>2. Len(o) = 1 /\ o[1] = i
    BY <1>1, <1>2, <1>4, <2>1
  <2>3. o = <<i>>
    BY <1>2, <2>2
  <2>4. Only(at) = <<i>>
    BY <2>1 DEF Only
  <2>5. QED
    BY <2>3, <2>4 DEF at, o
<1>5. QED
  BY <1>1, <1>2, <1>3, <1>4

\* The items of two groups are the same just when the lists of them are.
LEMMA SameItemsInOrder ==
  ASSUME NEW old, NEW new, NEW keys, NEW identity, IsList(old), IsList(new)
  PROVE  Items(old, Occurrences(old, keys, identity)) = Items(new, Occurrences(new, keys, identity))
           <=> SameItems(old, new, keys, identity)
<1> DEFINE P == Positions(old, keys, identity)
           Q == Positions(new, keys, identity)
           o == Occurrences(old, keys, identity)
           n == Occurrences(new, keys, identity)
<1>1. /\ P \in SUBSET Nat /\ InOrder(o, P)
      /\ Q \in SUBSET Nat /\ InOrder(n, Q)
  BY PositionsOfList, OccurrencesInOrder
<1>2. SameItems(old, new, keys, identity) <=>
        \E f \in Bijection(P, Q) : \A i, j \in DOMAIN f :
          old.array[i] = new.array[f[i]] /\ (i < j => f[i] < f[j])
  BY DEF SameItems
<1> HIDE DEF P, Q, o, n
<1>3. /\ DOMAIN o = 1..Len(o) /\ Len(o) \in Nat /\ \A k \in DOMAIN o : o[k] \in P /\ o[k] \in Nat
      /\ DOMAIN n = 1..Len(n) /\ Len(n) \in Nat /\ \A k \in DOMAIN n : n[k] \in Q /\ n[k] \in Nat
  BY <1>1, OrderIsList
<1>4. ASSUME Items(old, o) = Items(new, n)
      PROVE  \E f \in Bijection(P, Q) : \A i, j \in DOMAIN f :
               old.array[i] = new.array[f[i]] /\ (i < j => f[i] < f[j])
  <2>1. DOMAIN o = DOMAIN n /\ \A k \in DOMAIN o : old.array[o[k]] = new.array[n[k]]
    <3>1. DOMAIN Items(old, o) = DOMAIN o /\ DOMAIN Items(new, n) = DOMAIN n
      BY DEF Items
    <3>2. \A k \in DOMAIN o : Items(old, o)[k] = old.array[o[k]]
      BY DEF Items
    <3>3. \A k \in DOMAIN n : Items(new, n)[k] = new.array[n[k]]
      BY DEF Items
    <3>4. QED
      BY <1>4, <3>1, <3>2, <3>3
  <2> DEFINE place(i) == CHOOSE k \in DOMAIN o : o[k] = i
             f == [i \in P |-> n[place(i)]]
  <2>2. \A i \in P : place(i) \in DOMAIN o /\ o[place(i)] = i
    <3>1. \A i \in P : \E k \in DOMAIN o : o[k] = i
      BY <1>1 DEF InOrder, Range
    <3>2. QED
      BY <3>1
  <2> HIDE DEF place
  <2>3. \A k \in DOMAIN o : place(o[k]) = k
    <3> SUFFICES ASSUME NEW k \in DOMAIN o PROVE place(o[k]) = k
      OBVIOUS
    <3>1. place(o[k]) \in DOMAIN o /\ o[place(o[k])] = o[k]
      BY <1>3, <2>2
    <3>2. QED
      BY <1>1, <3>1, OrderIsOneToOne
  <2>4. f \in [P -> Q] /\ DOMAIN f = P /\ \A i \in P : f[i] = n[place(i)]
    BY <1>3, <2>1, <2>2
  <2> HIDE DEF f
  <2>5. f \in Bijection(P, Q)
    <3>1. ASSUME NEW i \in P, NEW j \in P, f[i] = f[j] PROVE i = j
      <4>1. place(i) \in DOMAIN n /\ place(j) \in DOMAIN n /\ n[place(i)] = n[place(j)]
        BY <2>1, <2>2, <2>4, <3>1
      <4>2. place(i) = place(j)
        BY <1>1, <4>1, OrderIsOneToOne
      <4>3. QED
        BY <2>2, <4>2
    <3>2. ASSUME NEW q \in Q PROVE \E i \in P : f[i] = q
      <4>1. PICK k \in DOMAIN n : n[k] = q
        BY <1>1 DEF InOrder, Range
      <4>2. o[k] \in P /\ f[o[k]] = q
        BY <1>3, <2>1, <2>3, <2>4, <4>1
      <4>3. QED
        BY <4>2
    <3>3. QED
      BY <2>4, <3>1, <3>2 DEF Bijection, Injection, Surjection, IsInjective
  <2>6. ASSUME NEW i \in P, NEW j \in P
        PROVE  old.array[i] = new.array[f[i]] /\ (i < j => f[i] < f[j])
    <3>1. old.array[i] = new.array[f[i]]
      BY <2>1, <2>2, <2>4
    <3>2. ASSUME i < j PROVE f[i] < f[j]
      <4>1. /\ place(i) \in DOMAIN o /\ o[place(i)] = i
            /\ place(j) \in DOMAIN o /\ o[place(j)] = j
        BY <2>2
      <4>2. i \in Nat /\ j \in Nat /\ place(i) \in Nat /\ place(j) \in Nat
        BY <1>1, <1>3, <4>1
      <4>3. ~(place(j) < place(i)) /\ place(i) # place(j)
        BY <1>1, <3>2, <4>1, <4>2 DEF InOrder, Increasing
      <4>4. place(i) < place(j)
        BY <4>2, <4>3
      <4>5. n[place(i)] < n[place(j)]
        BY <1>1, <2>1, <4>1, <4>4 DEF InOrder, Increasing
      <4>6. QED
        BY <2>4, <4>5
    <3>3. QED
      BY <3>1, <3>2
  <2>7. QED
    BY <2>4, <2>5, <2>6
<1>5. ASSUME NEW f \in Bijection(P, Q),
             \A i, j \in DOMAIN f : old.array[i] = new.array[f[i]] /\ (i < j => f[i] < f[j])
      PROVE  Items(old, o) = Items(new, n)
  <2>1. DOMAIN f = P /\ (\A i \in P : f[i] \in Q) /\ \A q \in Q : \E i \in P : f[i] = q
    BY DEF Bijection, Injection, Surjection
  <2> DEFINE t == [k \in 1..Len(o) |-> f[o[k]]]
  <2>2. t \in Seq(Q) /\ DOMAIN t = DOMAIN o /\ \A k \in DOMAIN o : t[k] = f[o[k]]
    BY <1>3, <2>1
  <2> HIDE DEF t
  <2>3. Range(t) = Q
    <3>1. ASSUME NEW q \in Q PROVE \E k \in DOMAIN t : t[k] = q
      <4>1. PICK i \in P : f[i] = q
        BY <2>1
      <4>2. PICK k \in DOMAIN o : o[k] = i
        BY <1>1 DEF InOrder, Range
      <4>3. QED
        BY <2>2, <4>1, <4>2
    <3>2. ASSUME NEW k \in DOMAIN t PROVE t[k] \in Q
      BY <1>3, <2>1, <2>2
    <3>3. QED
      BY <3>1, <3>2 DEF Range
  <2>4. Increasing(t)
    BY <1>1, <1>3, <1>5, <2>1, <2>2 DEF InOrder, Increasing
  <2>5. t = n
    <3>1. InOrder(t, Q)
      BY <2>2, <2>3, <2>4 DEF InOrder
    <3>2. QED
      BY <1>1, <3>1, OneOrder
  <2>6. DOMAIN o = DOMAIN n /\ \A k \in DOMAIN o : old.array[o[k]] = new.array[n[k]]
    BY <1>3, <1>5, <2>1, <2>2, <2>5
  <2>7. QED
    BY <2>6 DEF Items
<1>6. QED
  BY <1>2, <1>4, <1>5 DEF o, n

-----------------------------------------------------------------------------
(* The changes of one identity.                                            *)

\* A change found keeps what it says when it is given an identity.
LEMMA IdentityIsAdded ==
  ASSUME NEW old, NEW new, NEW oldPath, NEW newPath, NEW walked \in Walk(old, new, oldPath, newPath),
         NEW identity, NEW delta, delta = [walked EXCEPT !.identity = identity]
  PROVE  /\ delta.before = walked.before /\ delta.after = walked.after
         /\ delta.oldPath = walked.oldPath /\ delta.newPath = walked.newPath
         /\ delta.identity = identity /\ delta.oldIndices = walked.oldIndices
<1>1. PICK b, a, p, q : walked = Change(b, a, p, q)
  BY DEF Walk
<1>2. QED
  BY <1>1 DEF Change

\* A collection and an item of it, by their paths.
LEMMA ItemIsThere ==
  ASSUME NEW document, Is("object", document), NEW collection, NEW v, v = Field(document, collection)
  PROVE  /\ IsPath(<<collection>>) /\ <<collection>> \o <<>> = <<collection>>
         /\ ValueAt(document, <<collection>>) = v
         /\ Is("array", v) => \A i \in DOMAIN v.array :
              /\ <<collection>> \o <<i>> = <<collection, i>> /\ IsPath(<<collection, i>>)
              /\ ValueAt(document, <<collection, i>>) = v.array[i]
<1>1. IsPath(<<collection>>) /\ ValueAt(document, <<collection>>) = v
  <2>1. <<collection>> = Append(<<>>, collection)
    OBVIOUS
  <2>2. ValueAt(document, Append(<<>>, collection)) = Sub(document, collection)
    <3> DEFINE start == <<>>
    <3>1. IsPath(start) /\ ValueAt(document, start) = document
      BY PathsAreBuilt, StartOfPath
    <3> HIDE DEF start
    <3>2. ValueAt(document, Append(start, collection)) = Sub(document, collection)
      BY <3>1, NextKey
    <3>3. QED
      BY <3>2 DEF start
  <2>3. QED
    BY <2>1, <2>2, PathsAreBuilt, FieldIsSub
<1>2. ASSUME Is("array", v), NEW i \in DOMAIN v.array
      PROVE  /\ <<collection>> \o <<i>> = <<collection, i>> /\ IsPath(<<collection, i>>)
             /\ ValueAt(document, <<collection, i>>) = v.array[i]
  <2>1. <<collection>> \o <<i>> = <<collection, i>> /\ <<collection, i>> = Append(<<collection>>, i)
    <3> DEFINE S == {collection, i}
               one == <<collection>>
               two == <<collection, i>>
    <3>1. one \in Seq(S) /\ two \in Seq(S) /\ i \in S
      OBVIOUS
    <3>2. Len(one) = 1 /\ one[1] = collection /\ Len(two) = 2 /\ two[1] = collection /\ two[2] = i
      OBVIOUS
    <3> HIDE DEF S, one, two
    <3>3. /\ Append(one, i) \in Seq(S) /\ Len(Append(one, i)) = 2
          /\ Append(one, i)[1] = collection /\ Append(one, i)[2] = i
      <4>1. /\ Append(one, i) \in Seq(S) /\ Len(Append(one, i)) = Len(one) + 1
            /\ \A k \in 1..Len(one) : Append(one, i)[k] = one[k]
            /\ Append(one, i)[Len(one) + 1] = i
        BY <3>1, AppendProperties
      <4>2. Len(one) + 1 = 2 /\ 1 \in 1..Len(one)
        BY <3>2
      <4>3. QED
        BY <3>2, <4>1, <4>2
    <3>4. \A k \in 1..2 : Append(one, i)[k] = two[k]
      BY <3>2, <3>3
    <3>5. Append(one, i) = two
      BY <3>1, <3>2, <3>3, <3>4, SeqEqual
    <3>6. Append(one, i) = one \o <<i>>
      BY <3>1, AppendIsConcat
    <3>7. QED
      BY <3>5, <3>6 DEF one, two
  <2>2. ValueAt(document, Append(<<collection>>, i)) = Sub(v, i)
    BY <1>1, NextKey
  <2>3. Sub(v, i) = v.array[i]
    BY <1>2 DEF Sub
  <2>4. QED
    BY <1>1, <2>1, <2>2, <2>3, PathsAreBuilt
<1>3. <<collection>> \o <<>> = <<collection>>
  OBVIOUS
<1>4. QED
  BY <1>1, <1>2, <1>3

PathTo(collection, indices) == <<collection>> \o indices
ItemPath(collection, i) == <<collection, i>>

\* A path within an item names the collection and the item.
LEMMA PathNamesItem ==
  ASSUME NEW collection, NEW i, NEW at, IsPath(at), NEW path,
         path = ItemPath(collection, i) \o at
  PROVE  SubSeq(path, 1, 2) = ItemPath(collection, i) /\ path[1] = collection
<1> USE DEF ItemPath
<1> DEFINE S == Range(at) \cup {collection, i}
<1>1. at \in Seq(S) /\ <<collection, i>> \in Seq(S)
  BY DEF IsPath
<1> HIDE DEF S
<1>2. Len(path) = 2 + Len(at) /\ Len(at) \in Nat /\ path \in Seq(S)
  BY <1>1
<1>3. path[1] = collection /\ path[2] = i
  BY <1>1, <1>2, ConcatProperties
<1>4. SubSeq(path, 1, 2) = <<collection, i>>
  <2>1. 1 \in 1..(Len(path) + 1) /\ 2 \in (1 - 1)..Len(path)
    BY <1>2
  <2>2. /\ SubSeq(path, 1, 2) \in Seq(S) /\ Len(SubSeq(path, 1, 2)) = 2
        /\ SubSeq(path, 1, 2)[1] = collection /\ SubSeq(path, 1, 2)[2] = i
    BY <1>2, <1>3, <2>1, SubSeqProperties
  <2>3. \A k \in 1..2 : SubSeq(path, 1, 2)[k] = <<collection, i>>[k]
    BY <2>2
  <2>4. Len(<<collection, i>>) = 2
    OBVIOUS
  <2>5. QED
    BY <1>1, <2>2, <2>3, <2>4, SeqEqual
<1>5. QED
  BY <1>3, <1>4

\* Where the only item of an identity is, if there is one.
LEMMA OnlyItem ==
  ASSUME NEW document, Is("object", document), NEW collection, NEW v, v = Field(document, collection),
         Is("array", v), IsList(v), NEW keys, NEW identity, NEW o,
         o = Occurrences(v, keys, identity), Len(o) <= 1
  PROVE  /\ IsPath(PathTo(collection, o))
         /\ FirstItem(v, o) # Absent =>
              \E i \in Positions(v, keys, identity) :
                /\ PathTo(collection, o) = ItemPath(collection, i)
                /\ FirstItem(v, o) = v.array[i]
                /\ ValueAt(document, PathTo(collection, o)) = v.array[i]
<1> DEFINE at == Positions(v, keys, identity)
<1>1. InOrder(o, at) /\ at \in SUBSET Nat /\ \A i \in at : i \in DOMAIN v.array
  BY OccurrencesInOrder, PositionsOfList DEF Positions
<1> HIDE DEF at
<1>2. /\ DOMAIN o = 1..Len(o) /\ Len(o) \in Nat /\ (\A k \in DOMAIN o : o[k] \in at)
      /\ o \in Seq(at)
  BY <1>1, OrderIsList DEF InOrder
<1>3. CASE o = <<>>
  BY <1>3, ItemIsThere DEF FirstItem, PathTo
<1>4. CASE o # <<>>
  <2>1. Len(o) = 1 /\ o = <<o[1]>> /\ o[1] \in at
    BY <1>2, <1>4
  <2>2. /\ <<collection>> \o <<o[1]>> = <<collection, o[1]>> /\ IsPath(<<collection, o[1]>>)
        /\ ValueAt(document, <<collection, o[1]>>) = v.array[o[1]]
    BY <1>1, <2>1, ItemIsThere
  <2>3. FirstItem(v, o) = v.array[o[1]]
    BY <1>4 DEF FirstItem
  <2>4. QED
    BY <2>1, <2>2, <2>3 DEF at, PathTo, ItemPath
<1>5. QED
  BY <1>3, <1>4

\* A change within the one item of an identity says what is there.
LEMMA WalkedItemIsThere ==
  ASSUME NEW domain, NEW document, Is("object", document), NEW collection,
         NEW v, v = Field(document, collection), Is("array", v), IsList(v),
         NEW identity, NEW o, o = Occurrences(v, KeysOf(domain, collection), identity), Len(o) <= 1,
         NEW path, NEW value,
         InItem(PathTo(collection, o), FirstItem(v, o), document, path, value)
  PROVE  IsThere(domain, document, path, value, identity)
<1> SUFFICES ASSUME value # Absent
             PROVE  Identity(ValueAt(document, SubSeq(path, 1, 2)), KeysOf(domain, path[1])) = identity
  BY DEF IsThere, InItem
<1>1. PICK at : IsPath(at) /\ path = PathTo(collection, o) \o at
  BY DEF InItem
<1>2. PICK i \in Positions(v, KeysOf(domain, collection), identity) :
        /\ PathTo(collection, o) = ItemPath(collection, i)
        /\ ValueAt(document, PathTo(collection, o)) = v.array[i]
  BY OnlyItem DEF InItem
<1>3. SubSeq(path, 1, 2) = ItemPath(collection, i) /\ path[1] = collection
  BY <1>1, <1>2, PathNamesItem
<1>4. Identity(v.array[i], KeysOf(domain, collection)) = identity
  BY DEF Positions
<1>5. QED
  BY <1>2, <1>3, <1>4

\* Two documents of lists, and one of their identified collections.
Paired(domain, sides, collection, old, new) ==
  /\ Is("object", sides[1]) /\ Is("object", sides[2])
  /\ old = Field(sides[1], collection) /\ new = Field(sides[2], collection)
  /\ Is("array", old) /\ IsList(old) /\ Is("array", new) /\ IsList(new)

\* What is reported of one identity is there and differs, in items of that identity.
LEMMA GroupIsSound ==
  ASSUME NEW domain, NEW sides, NEW collection, NEW old, NEW new,
         Paired(domain, sides, collection, old, new), NEW identity,
         NEW delta \in GroupDiff(collection, old, new, KeysOf(domain, collection), identity)
  PROVE  IsSound(domain, sides, delta) /\ delta.identity = identity
<1> DEFINE keys == KeysOf(domain, collection)
           o == Occurrences(old, keys, identity)
           n == Occurrences(new, keys, identity)
           oldPath == PathTo(collection, o)
           newPath == PathTo(collection, n)
           group == [oldPath |-> <<collection>>, newPath |-> <<collection>>,
                     before |-> Array(Items(old, o)), after |-> Array(Items(new, n)),
                     identity |-> identity, oldIndices |-> o, newIndices |-> n]
<1>1. CASE Len(o) <= 1 /\ Len(n) <= 1
  <2>1. PICK walked \in Walk(FirstItem(old, o), FirstItem(new, n), oldPath, newPath) :
          delta = [walked EXCEPT !.identity = identity]
    BY <1>1 DEF GroupDiff, PathTo
  <2>2. /\ delta.before = walked.before /\ delta.after = walked.after
        /\ delta.oldPath = walked.oldPath /\ delta.newPath = walked.newPath
        /\ delta.identity = identity /\ delta.oldIndices = walked.oldIndices
    <3> HIDE DEF keys, o, n, oldPath, newPath
    <3>1. QED
      BY <2>1, IdentityIsAdded
  <2>3. /\ IsPath(oldPath)
        /\ FirstItem(old, o) # Absent => ValueAt(sides[1], oldPath) = FirstItem(old, o)
    BY <1>1, OnlyItem DEF Paired
  <2>4. /\ IsPath(newPath)
        /\ FirstItem(new, n) # Absent => ValueAt(sides[2], newPath) = FirstItem(new, n)
    BY <1>1, OnlyItem DEF Paired
  <2>5. /\ walked.before # walked.after /\ walked.oldIndices = Absent
        /\ InItem(oldPath, FirstItem(old, o), sides[1], walked.oldPath, walked.before)
        /\ InItem(newPath, FirstItem(new, n), sides[2], walked.newPath, walked.after)
    <3> HIDE DEF keys, o, n, oldPath, newPath
    <3>1. walked.before # walked.after /\ walked.oldIndices = Absent
      BY <2>1, WalkFinds
    <3>2. InItem(oldPath, FirstItem(old, o), sides[1], walked.oldPath, walked.before)
      BY <2>1, <2>3, <2>4, WalkedIsThere
    <3>3. InItem(newPath, FirstItem(new, n), sides[2], walked.newPath, walked.after)
      BY <2>1, <2>3, <2>4, WalkedIsThere
    <3>4. QED
      BY <3>1, <3>2, <3>3
  <2>6. IsThere(domain, sides[1], walked.oldPath, walked.before, identity)
    BY <1>1, <2>5, WalkedItemIsThere DEF Paired
  <2>7. IsThere(domain, sides[2], walked.newPath, walked.after, identity)
    BY <1>1, <2>5, WalkedItemIsThere DEF Paired
  <2>8. QED
    BY <2>2, <2>5, <2>6, <2>7 DEF IsSound
<1>2. CASE ~(Len(o) <= 1 /\ Len(n) <= 1)
  <2>1. Items(old, o) # Items(new, n) /\ delta = group
    BY <1>2 DEF GroupDiff
  <2>2. delta.before # delta.after
    <3>1. Array(Items(old, o)).array = Items(old, o) /\ Array(Items(new, n)).array = Items(new, n)
      BY DEF Array
    <3>2. QED
      BY <2>1, <3>1
  <2>3. InOrder(o, Positions(old, keys, identity)) /\ InOrder(n, Positions(new, keys, identity))
    BY OccurrencesInOrder DEF Paired
  <2>4. delta.oldIndices # Absent
    <3>1. o \in Seq(Nat)
      BY <2>3, PositionsOfList DEF InOrder, Paired
    <3>2. QED
      BY <2>1, <3>1, AbsentIsNoList
  <2>5. /\ ValueAt(sides[1], <<collection>>) = old /\ ValueAt(sides[2], <<collection>>) = new
        /\ <<collection>>[1] = collection
    BY ItemIsThere DEF Paired
  <2>6. IsGroup(domain, sides[1], delta.oldPath, delta.before, delta.identity, delta.oldIndices)
    BY <2>1, <2>3, <2>5 DEF IsGroup, InOrder
  <2>7. IsGroup(domain, sides[2], delta.newPath, delta.after, delta.identity, delta.newIndices)
    BY <2>1, <2>3, <2>5 DEF IsGroup, InOrder
  <2>8. QED
    BY <2>1, <2>2, <2>4, <2>6, <2>7 DEF IsSound
<1>3. QED
  BY <1>1, <1>2

\* All that differs between the items of one identity is reported of that identity.
LEMMA GroupTellsAll ==
  ASSUME NEW domain, NEW sides, NEW collection, NEW old, NEW new,
         Paired(domain, sides, collection, old, new), NEW identity, NEW deltas,
         GroupDiff(collection, old, new, KeysOf(domain, collection), identity) \subseteq deltas
  PROVE  GroupIsTold(deltas, collection, old, new, KeysOf(domain, collection), identity)
<1> DEFINE keys == KeysOf(domain, collection)
           o == Occurrences(old, keys, identity)
           n == Occurrences(new, keys, identity)
           P == Positions(old, keys, identity)
           Q == Positions(new, keys, identity)
           own == {delta \in deltas : delta.identity = identity}
           group == [oldPath |-> <<collection>>, newPath |-> <<collection>>,
                     before |-> Array(Items(old, o)), after |-> Array(Items(new, n)),
                     identity |-> identity, oldIndices |-> o, newIndices |-> n]
<1>1. /\ InOrder(o, P) /\ Len(o) = Cardinality(P)
      /\ InOrder(n, Q) /\ Len(n) = Cardinality(Q)
  BY OccurrencesInOrder DEF Paired
<1>2. CASE Len(o) <= 1 /\ Len(n) <= 1
  <2>1. o = Only(P) /\ n = Only(Q)
    BY <1>1, <1>2, FewOccurrences DEF Paired
  <2>2. IsPath(PathTo(collection, o)) /\ IsPath(PathTo(collection, n))
    BY <1>2, OnlyItem DEF Paired
  <2>3. ASSUME NEW walked \in Walk(FirstItem(old, o), FirstItem(new, n), PathTo(collection, o), PathTo(collection, n))
        PROVE  \E delta \in own :
                 /\ delta.before = walked.before /\ delta.after = walked.after
                 /\ delta.oldPath = walked.oldPath /\ delta.newPath = walked.newPath
    <3> DEFINE delta == [walked EXCEPT !.identity = identity]
    <3>1. delta \in GroupDiff(collection, old, new, KeysOf(domain, collection), identity)
      BY <1>2, <2>3 DEF GroupDiff, PathTo
    <3> HIDE DEF delta
    <3>2. /\ delta.before = walked.before /\ delta.after = walked.after
          /\ delta.oldPath = walked.oldPath /\ delta.newPath = walked.newPath
          /\ delta.identity = identity
      <4> HIDE DEF o, n
      <4>1. QED
        BY <2>3, IdentityIsAdded DEF delta
    <3>3. QED
      BY <3>1, <3>2
  <2>4. SameBut(own, FirstItem(old, o), FirstItem(new, n), PathTo(collection, o), PathTo(collection, n))
    <3> HIDE DEF own, o, n
    <3>1. QED
      BY <2>2, <2>3, WalkTellsAll DEF OfWalk
  <2>5. QED
    BY <1>1, <1>2, <2>1, <2>4 DEF GroupIsTold, PathTo
<1>3. CASE ~(Len(o) <= 1 /\ Len(n) <= 1)
  <2>1. CASE Items(old, o) = Items(new, n)
    <3>1. SameItems(old, new, keys, identity)
      BY <2>1, SameItemsInOrder DEF Paired
    <3>2. QED
      BY <1>1, <1>3, <3>1 DEF GroupIsTold
  <2>2. CASE Items(old, o) # Items(new, n)
    <3>1. [group EXCEPT !.identity = identity] \in GroupDiff(collection, old, new, keys, identity)
      BY <1>3, <2>2 DEF GroupDiff
    <3>2. group \in own
      BY <3>1
    <3>3. o # Absent
      <4>1. o \in Seq(Nat)
        BY <1>1, PositionsOfList DEF InOrder, Paired
      <4>2. QED
        BY <4>1, AbsentIsNoList
    <3>4. \E delta \in own : /\ delta.oldIndices # Absent
                            /\ delta.oldPath = <<collection>> /\ delta.newPath = <<collection>>
      BY <3>2, <3>3
    <3>5. QED
      BY <1>1, <1>3, <3>4 DEF GroupIsTold
  <2>3. QED
    BY <2>1, <2>2
<1>4. QED
  BY <1>2, <1>3

\* Of items that are the same in the same order nothing is reported, wherever they stand.
LEMMA GroupOfSameItems ==
  ASSUME NEW collection, NEW old, NEW new, NEW keys, NEW identity,
         IsList(old), IsList(new), SameItems(old, new, keys, identity)
  PROVE  GroupDiff(collection, old, new, keys, identity) = {}
<1> DEFINE o == Occurrences(old, keys, identity)
           n == Occurrences(new, keys, identity)
<1>1. Items(old, o) = Items(new, n)
  BY SameItemsInOrder
<1>2. FirstItem(old, o) = FirstItem(new, n)
  <2>1. /\ DOMAIN o = 1..Len(o) /\ Len(o) \in Nat
        /\ DOMAIN n = 1..Len(n) /\ Len(n) \in Nat
    BY OccurrencesInOrder, PositionsOfList, OrderIsList
  <2>2. o \in Seq(Nat) /\ n \in Seq(Nat)
    BY OccurrencesInOrder, PositionsOfList DEF InOrder
  <2> HIDE DEF o, n
  <2>3. DOMAIN Items(old, o) = DOMAIN o /\ DOMAIN Items(new, n) = DOMAIN n
    BY DEF Items
  <2>4. DOMAIN o = DOMAIN n
    BY <1>1, <2>3
  <2>5. CASE o = <<>>
    <3>1. n = <<>>
      <4>1. Len(o) = 0
        BY <2>5
      <4>2. 1 \notin 1..Len(n)
        BY <2>1, <2>4, <4>1
      <4>3. Len(n) = 0
        BY <2>1, <4>2
      <4>4. QED
        BY <2>2, <4>3, EmptySeq
    <3>2. QED
      BY <2>5, <3>1 DEF FirstItem
  <2>6. CASE o # <<>>
    <3>1. n # <<>> /\ 1 \in DOMAIN o /\ 1 \in DOMAIN n
      BY <2>1, <2>2, <2>4, <2>6
    <3>2. Items(old, o)[1] = old.array[o[1]] /\ Items(new, n)[1] = new.array[n[1]]
      BY <3>1 DEF Items
    <3>3. QED
      BY <1>1, <2>6, <3>1, <3>2 DEF FirstItem
  <2>7. QED
    BY <2>5, <2>6
<1> HIDE DEF o, n
<1>3. Walk(FirstItem(old, o), FirstItem(new, n), <<collection>> \o o, <<collection>> \o n) = {}
  BY <1>2, NothingBetweenTheSame
<1>4. QED
  BY <1>1, <1>3 DEF GroupDiff, o, n

-----------------------------------------------------------------------------
(* The changes of a collection, of a document, and of two trees.           *)

\* Of two values compared at one path, what is reported is there and differs,
LEMMA WalkIsSound ==
  ASSUME NEW domain, NEW sides, NEW old, NEW new, NEW path, IsPath(path),
         old # Absent => ValueAt(sides[1], path) = old,
         new # Absent => ValueAt(sides[2], path) = new,
         NEW delta \in Walk(old, new, path, path)
  PROVE  IsSound(domain, sides, delta)
<1>1. /\ delta.before # delta.after
      /\ delta.identity = Absent /\ delta.oldIndices = Absent
  BY WalkFinds
<1>2. InItem(path, old, sides[1], delta.oldPath, delta.before)
  BY WalkedIsThere
<1>3. InItem(path, new, sides[2], delta.newPath, delta.after)
  BY WalkedIsThere
<1>4. QED
  BY <1>1, <1>2, <1>3 DEF IsSound, IsThere, InItem

\* and all that differs is reported.
LEMMA WalkTellsAllAt ==
  ASSUME NEW old, NEW new, NEW path, IsPath(path), NEW deltas, Walk(old, new, path, path) \subseteq deltas
  PROVE  SameBut(deltas, old, new, path, path)
<1>1. OfWalk(deltas, old, new, path, path)
  BY DEF OfWalk
<1>2. QED
  BY <1>1, WalkTellsAll

\* Two documents, and a collection of both.
Shared(sides, collection, old, new) ==
  /\ Is("object", sides[1]) /\ Is("object", sides[2])
  /\ old = Field(sides[1], collection) /\ new = Field(sides[2], collection)
  /\ (Is("array", old) => IsList(old)) /\ (Is("array", new) => IsList(new))

\* What is reported of a collection, identified or not, is there and differs.
LEMMA CollectionIsSound ==
  ASSUME NEW domain, NEW sides, NEW collection, NEW old, NEW new,
         Shared(sides, collection, old, new),
         NEW delta \in CollectionDiff(domain, collection, old, new)
  PROVE  IsSound(domain, sides, delta)
<1> DEFINE keys == KeysOf(domain, collection)
<1>1. CASE Keyed(old, keys) /\ Keyed(new, keys)
  <2>1. Paired(domain, sides, collection, old, new)
    BY <1>1 DEF Keyed, Paired, Shared
  <2>2. PICK identity : delta \in GroupDiff(collection, old, new, keys, identity)
    BY <1>1 DEF CollectionDiff
  <2>3. QED
    BY <2>1, <2>2, GroupIsSound
<1>2. CASE ~(Keyed(old, keys) /\ Keyed(new, keys))
  <2>1. delta \in Walk(old, new, <<collection>>, <<collection>>)
    BY <1>2 DEF CollectionDiff
  <2>2. /\ IsPath(<<collection>>) /\ ValueAt(sides[1], <<collection>>) = old
        /\ ValueAt(sides[2], <<collection>>) = new
    BY ItemIsThere DEF Shared
  <2> DEFINE path == <<collection>>
  <2>3. IsPath(path) /\ ValueAt(sides[1], path) = old /\ ValueAt(sides[2], path) = new
    BY <2>2
  <2>4. delta \in Walk(old, new, path, path)
    BY <2>1
  <2> HIDE DEF path
  <2>5. QED
    BY <2>3, <2>4, WalkIsSound
<1>3. QED
  BY <1>1, <1>2

\* All that differs between the two sides of a collection is reported.
LEMMA CollectionTellsAll ==
  ASSUME NEW domain, NEW sides, NEW collection, NEW old, NEW new,
         Shared(sides, collection, old, new),
         NEW deltas, CollectionDiff(domain, collection, old, new) \subseteq deltas
  PROVE  CollectionIsTold(deltas, domain, collection, old, new)
<1> DEFINE keys == KeysOf(domain, collection)
<1>1. CASE Keyed(old, keys) /\ Keyed(new, keys)
  <2>1. Paired(domain, sides, collection, old, new)
    BY <1>1 DEF Keyed, Paired, Shared
  <2>2. ASSUME NEW identity \in Identities(old, keys) \cup Identities(new, keys)
        PROVE  GroupIsTold(deltas, collection, old, new, keys, identity)
    <3>1. GroupDiff(collection, old, new, keys, identity) \subseteq deltas
      BY <1>1 DEF CollectionDiff
    <3>2. QED
      BY <2>1, <3>1, GroupTellsAll
  <2>3. QED
    BY <1>1, <2>2 DEF CollectionIsTold
<1>2. CASE ~(Keyed(old, keys) /\ Keyed(new, keys))
  <2> DEFINE path == <<collection>>
  <2>1. Walk(old, new, path, path) \subseteq deltas
    BY <1>2 DEF CollectionDiff
  <2>2. IsPath(path)
    BY ItemIsThere DEF Shared
  <2> HIDE DEF path
  <2>3. SameBut(deltas, old, new, path, path)
    BY <2>1, <2>2, WalkTellsAllAt
  <2>4. QED
    BY <1>2, <2>3 DEF CollectionIsTold, path
<1>3. QED
  BY <1>1, <1>2

\* Of a collection that says the same on both sides nothing is reported.
LEMMA CollectionOfSame ==
  ASSUME NEW domain, NEW sides, NEW collection, NEW old, NEW new,
         Shared(sides, collection, old, new),
         \/ old = new
         \/ /\ Keyed(old, KeysOf(domain, collection)) /\ Keyed(new, KeysOf(domain, collection))
            /\ \A identity \in Identities(old, KeysOf(domain, collection))
                                 \cup Identities(new, KeysOf(domain, collection)) :
                 SameItems(old, new, KeysOf(domain, collection), identity)
  PROVE  CollectionDiff(domain, collection, old, new) = {}
<1> DEFINE keys == KeysOf(domain, collection)
<1>1. CASE Keyed(old, keys) /\ Keyed(new, keys)
  <2>1. IsList(old) /\ IsList(new)
    BY <1>1 DEF Keyed, Shared
  <2>2. ASSUME NEW identity \in Identities(old, keys) \cup Identities(new, keys)
        PROVE  GroupDiff(collection, old, new, keys, identity) = {}
    <3>1. SameItems(old, new, keys, identity)
      BY <1>1, <2>1, SameItemsInOrder
    <3>2. QED
      BY <2>1, <3>1, GroupOfSameItems
  <2>3. QED
    BY <1>1, <2>2 DEF CollectionDiff
<1>2. CASE ~(Keyed(old, keys) /\ Keyed(new, keys))
  <2>1. old = new
    BY <1>2
  <2>2. QED
    BY <1>2, <2>1, NothingBetweenTheSame DEF CollectionDiff
<1>3. QED
  BY <1>1, <1>2

\* The changes of one artifact.
Between(domain, isSchema, sides) ==
  IF ~isSchema /\ sides[1] # Absent /\ sides[2] # Absent
  THEN DocumentDiff(domain, sides[1], sides[2])
  ELSE Walk(sides[1], sides[2], <<>>, <<>>)

ByCollection(isSchema, sides) == ~isSchema /\ Is("object", sides[1]) /\ Is("object", sides[2])

OfLists(v) ==
  Is("object", v) => \A collection \in DOMAIN v.object :
    Is("array", v.object[collection]) => IsList(v.object[collection])

\* The two sides of a collection are what its key leads to in the two documents.
LEMMA DocumentsShare ==
  ASSUME NEW isSchema, NEW sides, ByCollection(isSchema, sides), OfLists(sides[1]), OfLists(sides[2]),
         NEW collection
  PROVE  Shared(sides, collection, Field(sides[1], collection), Field(sides[2], collection))
<1>1. ~Is("array", Absent)
  BY DEF Is
<1>2. ASSUME NEW v, Is("object", v), OfLists(v), Is("array", Field(v, collection))
      PROVE  IsList(Field(v, collection))
  BY <1>1, <1>2 DEF Field, OfLists
<1>3. QED
  BY <1>2 DEF Shared, ByCollection

\* Two documents are compared collection by collection, anything else as a whole.
LEMMA BetweenDocuments ==
  ASSUME NEW domain, NEW isSchema, NEW sides
  PROVE  Between(domain, isSchema, sides) =
           IF ByCollection(isSchema, sides)
           THEN UNION {CollectionDiff(domain, collection, Field(sides[1], collection), Field(sides[2], collection)) :
                         collection \in (DOMAIN sides[1].object \cup DOMAIN sides[2].object) \ Stamps}
           ELSE Walk(sides[1], sides[2], <<>>, <<>>)
<1>1. CASE ByCollection(isSchema, sides)
  <2>1. sides[1] # Absent /\ sides[2] # Absent /\ ~isSchema
    BY <1>1 DEF ByCollection, Is
  <2>2. QED
    BY <1>1, <2>1 DEF Between, DocumentDiff, ByCollection
<1>2. CASE ~ByCollection(isSchema, sides)
  BY <1>2 DEF Between, DocumentDiff, ByCollection
<1>3. QED
  BY <1>1, <1>2

\* What is reported between two artifacts is there and differs.
LEMMA BetweenIsSound ==
  ASSUME NEW domain, NEW isSchema, NEW sides,
         ~isSchema => OfLists(sides[1]) /\ OfLists(sides[2]),
         NEW delta \in Between(domain, isSchema, sides)
  PROVE  IsSound(domain, sides, delta)
<1>1. CASE ByCollection(isSchema, sides)
  <2>1. PICK collection :
          delta \in CollectionDiff(domain, collection, Field(sides[1], collection), Field(sides[2], collection))
    BY <1>1, BetweenDocuments
  <2>2. Shared(sides, collection, Field(sides[1], collection), Field(sides[2], collection))
    BY <1>1, DocumentsShare DEF ByCollection
  <2>3. QED
    BY <2>1, <2>2, CollectionIsSound
<1>2. CASE ~ByCollection(isSchema, sides)
  <2> DEFINE path == <<>>
  <2>1. delta \in Walk(sides[1], sides[2], path, path)
    BY <1>2, BetweenDocuments
  <2>2. IsPath(path) /\ ValueAt(sides[1], path) = sides[1] /\ ValueAt(sides[2], path) = sides[2]
    BY PathsAreBuilt, StartOfPath
  <2> HIDE DEF path
  <2>3. QED
    BY <2>1, <2>2, WalkIsSound
<1>3. QED
  BY <1>1, <1>2

\* All that differs between two artifacts is reported.
LEMMA BetweenTellsAll ==
  ASSUME NEW domain, NEW isSchema, NEW sides,
         ~isSchema => OfLists(sides[1]) /\ OfLists(sides[2])
  PROVE  IsComplete(Between(domain, isSchema, sides), domain, isSchema, sides[1], sides[2])
<1> DEFINE deltas == Between(domain, isSchema, sides)
<1>1. CASE ByCollection(isSchema, sides)
  <2>1. ASSUME NEW collection \in (DOMAIN sides[1].object \cup DOMAIN sides[2].object) \ Stamps
        PROVE  CollectionIsTold(deltas, domain, collection, Field(sides[1], collection), Field(sides[2], collection))
    <3>1. Shared(sides, collection, Field(sides[1], collection), Field(sides[2], collection))
      BY <1>1, DocumentsShare DEF ByCollection
    <3>2. CollectionDiff(domain, collection, Field(sides[1], collection), Field(sides[2], collection)) \subseteq deltas
      BY <1>1, BetweenDocuments
    <3> HIDE DEF deltas
    <3>3. QED
      BY <3>1, <3>2, CollectionTellsAll
  <2>2. QED
    BY <1>1, <2>1 DEF IsComplete, ByCollection
<1>2. CASE ~ByCollection(isSchema, sides)
  <2> DEFINE path == <<>>
  <2>1. Walk(sides[1], sides[2], path, path) \subseteq deltas
    BY <1>2, BetweenDocuments
  <2>2. IsPath(path)
    BY PathsAreBuilt
  <2> HIDE DEF path, deltas
  <2>3. SameBut(deltas, sides[1], sides[2], path, path)
    BY <2>1, <2>2, WalkTellsAllAt
  <2>4. QED
    BY <1>2, <2>3 DEF IsComplete, ByCollection, path, deltas
<1>3. QED
  BY <1>1, <1>2

\* Between two artifacts that say the same nothing is reported.
LEMMA BetweenTheSame ==
  ASSUME NEW domain, NEW isSchema, NEW sides,
         ~isSchema => OfLists(sides[1]) /\ OfLists(sides[2]),
         SameContract(domain, isSchema, sides[1], sides[2])
  PROVE  Between(domain, isSchema, sides) = {}
<1>1. CASE ByCollection(isSchema, sides)
  <2>1. ASSUME NEW collection \in (DOMAIN sides[1].object \cup DOMAIN sides[2].object) \ Stamps
        PROVE  CollectionDiff(domain, collection, Field(sides[1], collection), Field(sides[2], collection)) = {}
    <3> DEFINE o == Field(sides[1], collection)
               n == Field(sides[2], collection)
               keys == KeysOf(domain, collection)
    <3>1. Shared(sides, collection, o, n)
      BY <1>1, DocumentsShare DEF ByCollection
    <3>2. \/ o = n
          \/ /\ Keyed(o, keys) /\ Keyed(n, keys)
             /\ \A identity \in Identities(o, keys) \cup Identities(n, keys) :
                  SameItems(o, n, keys, identity)
      BY <2>1 DEF SameContract
    <3> HIDE DEF o, n
    <3>3. CollectionDiff(domain, collection, o, n) = {}
      BY <3>1, <3>2, CollectionOfSame
    <3>4. QED
      BY <3>3 DEF o, n
  <2>2. QED
    BY <1>1, <2>1, BetweenDocuments
<1>2. CASE ~ByCollection(isSchema, sides)
  <2>1. sides[1] = sides[2]
    BY <1>2 DEF SameContract, ByCollection
  <2>2. QED
    BY <1>2, <2>1, BetweenDocuments, NothingBetweenTheSame
<1>3. QED
  BY <1>1, <1>2

\* A change of two trees is one of an artifact of theirs.
LEMMA ChangesAreBetween ==
  ASSUME NEW pair, NEW change \in Changes(pair)
  PROVE  /\ change.isSchema \in BOOLEAN /\ change.domain \in Domains(pair, change.isSchema)
         /\ change.delta \in Between(change.domain, change.isSchema,
                                     Sides(pair, change.domain, change.isSchema))
<1>1. PICK isSchema \in BOOLEAN : \E domain \in Domains(pair, isSchema) :
        change \in Deltas(pair, domain, isSchema)
  <2>1. \/ \E domain \in (DOMAIN pair[1].files) \cup (DOMAIN pair[2].files) :
             change \in Deltas(pair, domain, FALSE)
        \/ \E domain \in (DOMAIN pair[1].schemas) \cup (DOMAIN pair[2].schemas) :
             change \in Deltas(pair, domain, TRUE)
    BY DEF Changes
  <2>2. QED
    BY <2>1 DEF Domains
<1>2. PICK domain \in Domains(pair, isSchema) : change \in Deltas(pair, domain, isSchema)
  BY <1>1
<1>3. PICK delta \in Between(domain, isSchema, Sides(pair, domain, isSchema)) :
        change = [delta |-> delta, domain |-> domain, isSchema |-> isSchema,
                  artifacts |-> Sides(pair, domain, isSchema),
                  sets |-> <<pair[1].lock.set_hash, pair[2].lock.set_hash>>]
  BY <1>2 DEF Deltas, Between
<1>4. QED
  BY <1>2, <1>3

\* What is reported between the two sides of a domain is among the changes of the trees.
LEMMA BetweenIsChanges ==
  ASSUME NEW pair, NEW isSchema \in BOOLEAN, NEW domain \in Domains(pair, isSchema),
         NEW delta \in Between(domain, isSchema, Sides(pair, domain, isSchema))
  PROVE  \E change \in Changes(pair) :
           change.delta = delta /\ change.domain = domain /\ change.isSchema = isSchema
<1> DEFINE change == [delta |-> delta, domain |-> domain, isSchema |-> isSchema,
                      artifacts |-> Sides(pair, domain, isSchema),
                      sets |-> <<pair[1].lock.set_hash, pair[2].lock.set_hash>>]
<1>1. change \in Deltas(pair, domain, isSchema)
  BY DEF Deltas, Between
<1>2. change.delta = delta /\ change.domain = domain /\ change.isSchema = isSchema
  OBVIOUS
<1> HIDE DEF change
<1>3. change \in Changes(pair)
  BY <1>1 DEF Changes, Domains
<1>4. QED
  BY <1>2, <1>3

Report(of, changes) == of \in OldTrees \X NewTrees /\ {entry.change : entry \in changes} = Changes(of)

ReportInv ==
  /\ trees \in OldTrees \X NewTrees
  /\ ~report.refused => Report(report.of, report.changes)

\* report, run: a report that is not refused holds the changes of the two trees it read,
\* whatever became of them since.
LEMMA ReportInvHolds == ReviewsSpec => []ReportInv
<1>1. ReviewsInit => ReportInv
  BY DEF ReviewsInit, ReportInv, Refused
<1>2. ReportInv /\ [ReviewsNext]_reviewing => ReportInv'
  <2> SUFFICES ASSUME ReportInv, [ReviewsNext]_reviewing PROVE ReportInv'
    OBVIOUS
  <2>1. ASSUME NEW evidence \in BOOLEAN, Diff(evidence)
        PROVE  ReportInv'
    <3> DEFINE entry(change) ==
          [change |-> change,
           assessment |-> IF evidence THEN Assessed(change) ELSE "indeterminate"]
    <3>1. trees' = trees
      BY <2>1 DEF Diff
    <3>2. CASE report' = Refused
      BY <3>1, <3>2 DEF ReportInv, Refused
    <3>3. CASE report' = [refused |-> FALSE, of |-> trees,
                          changes |-> {entry(change) : change \in Changes(trees)}]
      <4>1. {e.change : e \in {entry(change) : change \in Changes(trees)}} = Changes(trees)
        <5>1. \A change : entry(change).change = change
          OBVIOUS
        <5> HIDE DEF entry
        <5>2. QED
          BY <5>1
      <4> HIDE DEF entry
      <4>2. QED
        BY <3>1, <3>3, <4>1 DEF ReportInv, Report
    <3>4. QED
      BY <2>1, <3>2, <3>3 DEF Diff
  <2>2. ASSUME NEW e \in report.changes, NEW classification, NEW verified, Review(e, classification, verified)
        PROVE  ReportInv'
    BY <2>2 DEF Review, ReportInv
  <2>3. ASSUME NEW tree \in OldTrees, Replace(1, tree)
        PROVE  ReportInv'
    BY <2>3 DEF Replace, ReportInv
  <2>4. ASSUME NEW tree \in NewTrees, Replace(2, tree)
        PROVE  ReportInv'
    BY <2>4 DEF Replace, ReportInv
  <2>5. CASE UNCHANGED reviewing
    BY <2>5 DEF reviewing, ReportInv
  <2>6. QED
    BY <2>1, <2>2, <2>3, <2>4, <2>5 DEF ReviewsNext
<1>3. QED
  BY <1>1, <1>2, PTL DEF ReviewsSpec

\* The documents of a tree hold lists where they hold arrays.
LEMMA DocumentsAreOfLists ==
  ASSUME NEW pair \in OldTrees \X NewTrees, NEW domain, NEW isSchema \in BOOLEAN
  PROVE  ~isSchema => /\ OfLists(Sides(pair, domain, isSchema)[1])
                      /\ OfLists(Sides(pair, domain, isSchema)[2])
<1> SUFFICES ASSUME ~isSchema, NEW i \in 1..2
             PROVE  OfLists(Sides(pair, domain, isSchema)[i])
  OBVIOUS
<1>1. Sides(pair, domain, isSchema)[i] = At(pair[i].files, domain)
  BY DEF Sides
<1>2. pair[i] \in OldTrees \cup NewTrees
  OBVIOUS
<1>3. CASE domain \in DOMAIN pair[i].files
  <2>1. At(pair[i].files, domain) = pair[i].files[domain]
    BY <1>3 DEF At
  <2>2. OfLists(pair[i].files[domain])
    BY <1>2, <1>3, TreesAreOfDocuments DEF OfLists, IsList
  <2>3. QED
    BY <1>1, <2>1, <2>2
<1>4. CASE domain \notin DOMAIN pair[i].files
  BY <1>1, <1>4 DEF At, OfLists, Is
<1>5. QED
  BY <1>3, <1>4

\* contract_diff.rs:104-105, 160-161: for any trees of any documents, a report says
\* exactly how the trees it read differ: what it names is there and differs, within
\* the items it identifies, all that differs is named, and of documents that say the
\* same nothing is.
THEOREM ReportIsExact == ReviewsSpec => []DeltaIsExact
<1>1. ReportInv => DeltaIsExact
  <2> SUFFICES ASSUME ReportInv, ~report.refused PROVE DeltaIsExact
    BY DEF DeltaIsExact
  <2> DEFINE pair == report.of
  <2>1. pair \in OldTrees \X NewTrees /\ {entry.change : entry \in report.changes} = Changes(pair)
    BY DEF ReportInv, Report
  <2> HIDE DEF pair
  <2>2. ASSUME NEW entry \in report.changes
        PROVE  IsSound(entry.change.domain,
                       Sides(pair, entry.change.domain, entry.change.isSchema), entry.change.delta)
    <3> DEFINE change == entry.change
    <3>1. change \in Changes(pair)
      BY <2>1
    <3> HIDE DEF change
    <3>2. /\ change.isSchema \in BOOLEAN
          /\ change.delta \in Between(change.domain, change.isSchema,
                                      Sides(pair, change.domain, change.isSchema))
      BY <3>1, ChangesAreBetween
    <3>3. ~change.isSchema => /\ OfLists(Sides(pair, change.domain, change.isSchema)[1])
                              /\ OfLists(Sides(pair, change.domain, change.isSchema)[2])
      BY <2>1, <3>2, DocumentsAreOfLists
    <3>4. IsSound(change.domain, Sides(pair, change.domain, change.isSchema), change.delta)
      BY <3>2, <3>3, BetweenIsSound
    <3>5. QED
      BY <3>4 DEF change
  <2>3. ASSUME NEW isSchema \in BOOLEAN, NEW domain \in Domains(pair, isSchema)
        PROVE  LET sides == Sides(pair, domain, isSchema)
                   deltas == DeltasOf(report.changes, domain, isSchema)
               IN  /\ IsComplete(deltas, domain, isSchema, sides[1], sides[2])
                   /\ SameContract(domain, isSchema, sides[1], sides[2]) => deltas = {}
    <3> DEFINE sides == Sides(pair, domain, isSchema)
               deltas == DeltasOf(report.changes, domain, isSchema)
    <3>1. deltas = Between(domain, isSchema, sides)
      <4>1. ASSUME NEW delta \in deltas PROVE delta \in Between(domain, isSchema, sides)
        <5>1. PICK entry \in report.changes :
                /\ entry.change.domain = domain /\ entry.change.isSchema = isSchema
                /\ delta = entry.change.delta
          BY DEF DeltasOf
        <5>2. entry.change \in Changes(pair)
          BY <2>1
        <5>3. QED
          BY <5>1, <5>2, ChangesAreBetween
      <4>2. ASSUME NEW delta \in Between(domain, isSchema, sides) PROVE delta \in deltas
        <5>1. PICK change \in Changes(pair) :
                change.delta = delta /\ change.domain = domain /\ change.isSchema = isSchema
          BY BetweenIsChanges
        <5>2. PICK entry \in report.changes : entry.change = change
          BY <2>1
        <5>3. QED
          BY <5>1, <5>2 DEF DeltasOf
      <4>3. QED
        BY <4>1, <4>2
    <3>2. ~isSchema => OfLists(sides[1]) /\ OfLists(sides[2])
      BY <2>1, DocumentsAreOfLists
    <3> HIDE DEF sides, deltas
    <3>3. IsComplete(deltas, domain, isSchema, sides[1], sides[2])
      BY <3>1, <3>2, BetweenTellsAll
    <3>4. SameContract(domain, isSchema, sides[1], sides[2]) => deltas = {}
      BY <3>1, <3>2, BetweenTheSame
    <3>5. QED
      BY <3>3, <3>4 DEF sides, deltas
  <2>4. QED
    BY <2>2, <2>3 DEF DeltaIsExact, pair
<1>2. QED
  BY <1>1, ReportInvHolds, PTL

=============================================================================
