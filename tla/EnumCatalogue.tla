---------------------------- MODULE EnumCatalogue ----------------------------
(***************************************************************************)
(* The catalogue of enums: the definitions found in the modules, to which  *)
(* every enum that a domain document refers to inline is added, and the    *)
(* lint that reads what was written. A key is a pair (module, name).       *)
(***************************************************************************)
EXTENDS Naturals, SequencesExt

CONSTANTS
  Key,
  VariantList,  \* lists of variants
  MaxSites      \* definitions and references, of each at most

ASSUME SitesAssumption == MaxSites \in Nat

Definition(key, kind, variants) == [key |-> key, kind |-> kind, variants |-> variants]
Reference(key, variants) == [key |-> key, variants |-> variants]

-----------------------------------------------------------------------------
(* Sorted by key and one of each: of two definitions of a key, the first   *)
(* found.                                                                  *)

FirstOf(list, i) == \A j \in 1..(i - 1) : list[j].key # list[i].key

Extracted(list) == {list[n] : n \in {i \in DOMAIN list : FirstOf(list, i)}}

\* What the documents refer to: for each key the first reference that has variants.
Collected(refs) ==
  LET Full(i) == refs[i].variants # <<>>
      First(i) == \A j \in 1..(i - 1) : Full(j) => refs[j].key # refs[i].key
  IN  {refs[n] : n \in {i \in DOMAIN refs : Full(i) /\ First(i)}}

\* Two references to a key that name different variants.
ReferencesConflict(refs) ==
  \E r \in Range(refs) : \E first \in Collected(refs) :
    r.variants # <<>> /\ r.key = first.key /\ r.variants # first.variants

DefinitionConflict_subset(catalogue, refs) ==  \* mutant: only an unknown variant disagrees
  \E r \in Collected(refs) : \E def \in catalogue :
    r.key = def.key /\ ~(Range(r.variants) \subseteq Range(def.variants))

\* A reference and the definition of its key that name different variants.
DefinitionConflict(catalogue, refs) ==
  \E r \in Collected(refs) : \E def \in catalogue :
    r.key = def.key /\ r.variants # def.variants

Promoted(catalogue, refs) ==
  {Definition(r.key, "string", r.variants) :
     r \in {s \in Collected(refs) : \A def \in catalogue : def.key # s.key}}

\* merge_referenced_enums bails.
Disagree(catalogue, refs) ==
  ReferencesConflict(refs) \/ DefinitionConflict(catalogue, refs)

\* merge_referenced_enums, if it does not.
Merge(catalogue, refs) == catalogue \cup Promoted(catalogue, refs)

-----------------------------------------------------------------------------
(* lint-ir.py, on the catalogue and the documents as they were written.    *)

Lint(catalogue, refs) ==
  /\ \A r \in Range(refs) : r.variants # <<>> /\ \E def \in catalogue : def.key = r.key
  /\ \A r, s \in Range(refs) : r.key = s.key => r.variants = s.variants
  /\ \A def, other \in catalogue : def.key = other.key => def = other

-----------------------------------------------------------------------------
VARIABLES
  found,      \* definitions, as the modules hold them
  references  \* references, as the documents hold them

enums == <<found, references>>

NoEnums == found = <<>> /\ references = <<>>

\* One more definition; without variants it would not be one.
Define(key, kind, variants) ==
  /\ variants # <<>> /\ Len(found) < MaxSites
  /\ found' = Append(found, Definition(key, kind, variants))
  /\ UNCHANGED references

\* One more enumRef.
Refer(key, variants) ==
  /\ Len(references) < MaxSites
  /\ references' = Append(references, Reference(key, variants))
  /\ UNCHANGED found

EnumsNext ==
  \E key \in Key, variants \in VariantList :
    (\E kind \in {"int", "string"} : Define(key, kind, variants)) \/ Refer(key, variants)

EnumsSpec == NoEnums /\ [][EnumsNext]_enums

-----------------------------------------------------------------------------
\* Two sites of one key, each a definition that counts or a reference, that
\* name different variants.
SitesDisagree ==
  \E r \in Range(references) :
    /\ r.variants # <<>>
    /\ \/ \E def \in Extracted(found) : def.key = r.key /\ def.variants # r.variants
       \/ \E s \in Range(references) :
            s.key = r.key /\ s.variants # r.variants /\ s.variants # <<>>

\* main.rs:3088-3089, 3145-3151: with the catalogue alone a reader resolves every
\* reference. Unless two live sites disagree, which ends the run, each reference
\* that has variants has one entry, with just these; the entries do not depend on
\* the order of the documents; and no document that passes the lint has another.
CatalogueResolves ==
  LET defined == Extracted(found)
      catalogue == Merge(defined, references)
  IN  /\ Disagree(defined, references) <=> SitesDisagree
      /\ Disagree(defined, Reverse(references)) <=> SitesDisagree
      /\ ~SitesDisagree =>
           /\ Merge(defined, Reverse(references)) = catalogue
           /\ \A r \in Range(references) : r.variants # <<>> \/ Lint(catalogue, references) =>
                \E def \in catalogue :
                  /\ {d \in catalogue : d.key = r.key} = {def}
                  /\ def.variants = r.variants
=============================================================================
