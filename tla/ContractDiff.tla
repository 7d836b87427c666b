---------------------------- MODULE ContractDiff ----------------------------
(***************************************************************************)
(* `whatspec diff`: the changes between two generated trees, and the       *)
(* reviews a person writes about them and hands to a later diff.           *)
(* A JSON value is a scalar, an object or an array; a path is the sequence *)
(* of the keys and indices of a JSON pointer (indices start at 1 here);    *)
(* digests are injective, so an artifact stands for its hash and a change  *)
(* for its id.                                                             *)
(***************************************************************************)
EXTENDS Naturals, SequencesExt

CONSTANTS
  Scalar, Absent,
  Stamps,        \* the keys schemaVersion and waVersion of a document
  IdentityKeys,  \* the keys that identify an item, by domain and collection
  MaxDepth,      \* objects nested in objects (serde_json reads 128 levels)
  Label,         \* the classifications a review may have
  Verdict,       \* those a person writes
  OldTrees, NewTrees, MaxReviews

ASSUME DiffAssumption == MaxDepth \in Nat /\ MaxReviews \in Nat
ASSUME AbsentIsNoList == Absent \notin Seq(Nat)

Object(fields) == [object |-> fields]
Array(items) == [array |-> items]

Is(kind, v) == v \notin Scalar \cup {Absent} /\ DOMAIN v = {kind}
Field(v, key) == IF Is("object", v) /\ key \in DOMAIN v.object THEN v.object[key] ELSE Absent

\* The items of an array are a list.
ASSUME TreesAreOfDocuments ==
  \A tree \in OldTrees \cup NewTrees : \A domain \in DOMAIN tree.files :
    LET document == tree.files[domain]
    IN  Is("object", document) => \A collection \in DOMAIN document.object :
          LET v == document.object[collection]
          IN  Is("array", v) => v.array \in Seq(Range(v.array))

-----------------------------------------------------------------------------
(* The changes between two documents.                                      *)

Change(old, new, oldPath, newPath) ==
  [oldPath |-> IF old = Absent THEN Absent ELSE oldPath,
   newPath |-> IF new = Absent THEN Absent ELSE newPath,
   before |-> old, after |-> new,
   identity |-> Absent, oldIndices |-> Absent, newIndices |-> Absent]

Both(pair) == pair.old # pair.new /\ Is("object", pair.old) /\ Is("object", pair.new)

\* Under two objects, the values of each key.
Under(pairs) ==
  UNION {{[old |-> Field(pair.old, key), new |-> Field(pair.new, key), at |-> Append(pair.at, key)] :
            key \in DOMAIN pair.old.object \cup DOMAIN pair.new.object} :
           pair \in {p \in pairs : Both(p)}}

\* The pairs of values compared at each depth.
Levels(old, new) ==
  LET level[depth \in 0..MaxDepth] ==
        IF depth = 0 THEN {[old |-> old, new |-> new, at |-> <<>>]} ELSE Under(level[depth - 1])
  IN  level

\* Anything but two objects is compared as a whole.
Walk(old, new, oldPath, newPath) ==
  LET levels == Levels(old, new)
  IN  {Change(pair.old, pair.new, oldPath \o pair.at, newPath \o pair.at) :
         pair \in {p \in UNION {levels[depth] : depth \in 0..MaxDepth} : p.old # p.new /\ ~Both(p)}}

Identity(item, keys) == [i \in DOMAIN keys |-> Field(item, keys[i])]

\* Every item of the array has the keys that identify it.
Keyed(v, keys) ==
  /\ keys # <<>> /\ Is("array", v)
  /\ \A i \in DOMAIN v.array : \A j \in DOMAIN keys : Identity(v.array[i], keys)[j] # Absent

Identities(v, keys) == {Identity(v.array[i], keys) : i \in DOMAIN v.array}

Positions(v, keys, identity) == {i \in DOMAIN v.array : Identity(v.array[i], keys) = identity}

Increasing(indices) == \A i, j \in DOMAIN indices : i < j => indices[i] < indices[j]

\* Where the items of one identity stand, in order.
Occurrences(v, keys, identity) ==
  LET at == Positions(v, keys, identity)
  IN  CHOOSE indices \in [1..Cardinality(at) -> at] : Range(indices) = at /\ Increasing(indices)

Items(v, indices) == [i \in DOMAIN indices |-> v.array[indices[i]]]
FirstItem(v, indices) == IF indices = <<>> THEN Absent ELSE v.array[indices[1]]

GroupDiff_oldIndex(collection, old, new, keys, identity) ==  \* mutant: one path for both sides
  LET o == Occurrences(old, keys, identity)
      n == Occurrences(new, keys, identity)
      at == <<collection>> \o (IF o = <<>> THEN n ELSE o)
  IN  {[change EXCEPT !.identity = identity] :
         change \in Walk(FirstItem(old, o), FirstItem(new, n), at, at)}

\* One item on each side at most: its fields. Several: the group, in order.
GroupDiff(collection, old, new, keys, identity) ==
  LET o == Occurrences(old, keys, identity)
      n == Occurrences(new, keys, identity)
      found ==
        IF Len(o) <= 1 /\ Len(n) <= 1
        THEN Walk(FirstItem(old, o), FirstItem(new, n), <<collection>> \o o, <<collection>> \o n)
        ELSE IF Items(old, o) = Items(new, n) THEN {}
        ELSE {[oldPath |-> <<collection>>, newPath |-> <<collection>>,
               before |-> Array(Items(old, o)), after |-> Array(Items(new, n)),
               identity |-> identity, oldIndices |-> o, newIndices |-> n]}
  IN  {[change EXCEPT !.identity = identity] : change \in found}

KeysOf(domain, collection) ==
  IF <<domain, collection>> \in DOMAIN IdentityKeys
  THEN IdentityKeys[domain, collection] ELSE <<>>

CollectionDiff(domain, collection, old, new) ==
  LET keys == KeysOf(domain, collection)
  IN  IF Keyed(old, keys) /\ Keyed(new, keys)
      THEN UNION {GroupDiff(collection, old, new, keys, identity) :
                    identity \in Identities(old, keys) \cup Identities(new, keys)}
      ELSE Walk(old, new, <<collection>>, <<collection>>)

DocumentDiff(domain, old, new) ==
  IF Is("object", old) /\ Is("object", new)
  THEN UNION {CollectionDiff(domain, collection, Field(old, collection), Field(new, collection)) :
                collection \in (DOMAIN old.object \cup DOMAIN new.object) \ Stamps}
  ELSE Walk(old, new, <<>>, <<>>)

-----------------------------------------------------------------------------
(* A tree: what its manifest and its lock say, its documents and schemas.  *)

At(files, domain) == IF domain \in DOMAIN files THEN files[domain] ELSE Absent

\* Snapshot::read takes a tree whose manifest, lock and documents agree.
Consistent(tree) ==
  /\ tree.lock.wa_version = tree.wa_version
  /\ DOMAIN tree.files # {} /\ tree.files = tree.recorded

\* The two artifacts a change lies between.
Sides(pair, domain, isSchema) ==
  [i \in 1..2 |-> At(IF isSchema THEN pair[i].schemas ELSE pair[i].files, domain)]

\* The changes of one artifact, each bound to both sides and both locks.
Deltas(pair, domain, isSchema) ==
  LET sides == Sides(pair, domain, isSchema)
      deltas == IF ~isSchema /\ sides[1] # Absent /\ sides[2] # Absent
                THEN DocumentDiff(domain, sides[1], sides[2])
                ELSE Walk(sides[1], sides[2], <<>>, <<>>)
  IN  {[delta |-> delta, domain |-> domain, isSchema |-> isSchema, artifacts |-> sides,
        sets |-> <<pair[1].lock.set_hash, pair[2].lock.set_hash>>] : delta \in deltas}

Changes(pair) ==
  (UNION {Deltas(pair, domain, FALSE) :
            domain \in (DOMAIN pair[1].files) \cup (DOMAIN pair[2].files)})
  \cup (UNION {Deltas(pair, domain, TRUE) :
                 domain \in (DOMAIN pair[1].schemas) \cup (DOMAIN pair[2].schemas)})

-----------------------------------------------------------------------------
VARIABLES
  trees,    \* the two trees compared
  report,   \* the last report: its changes, assessed, and the trees it read
  reviews   \* the file of reviews

reviewing == <<trees, report, reviews>>

Id_unbound(change) == [change EXCEPT !.artifacts = Absent]  \* mutant: the change alone

\* What a review names: the digest of all that the change says and is bound to.
Id(change) == change

Refused == [refused |-> TRUE, changes |-> {}, of |-> <<>>]

\* A review is of the change with its id; one that is not there is stale.
AllApply(found) ==
  /\ \A i, j \in DOMAIN reviews : reviews[i].id = reviews[j].id => i = j
  /\ \A i \in DOMAIN reviews :
       /\ \E change \in found : Id(change) = reviews[i].id
       /\ reviews[i].classification \in Label /\ reviews[i].references

Assessed(change) ==
  LET own == {review \in Range(reviews) : review.id = Id(change)}
  IN  IF own = {} THEN "indeterminate" ELSE (CHOOSE review \in own : TRUE).classification

\* whatspec diff <old> <new> --json [--evidence <file>]
Diff(evidence) ==
  /\ LET found == Changes(trees) IN
     report' =
       IF ~Consistent(trees[1]) \/ ~Consistent(trees[2]) \/ (evidence /\ ~AllApply(found))
       THEN Refused
       ELSE [refused |-> FALSE, of |-> trees,
             changes |-> {[change |-> change,
                           assessment |-> IF evidence THEN Assessed(change) ELSE "indeterminate"] :
                            change \in found}]
  /\ UNCHANGED <<trees, reviews>>

\* A person judges a change of the report they read, whatever the trees are by now.
Review(entry, classification, references) ==
  /\ Len(reviews) < MaxReviews
  /\ reviews' = Append(reviews, [id |-> Id(entry.change), classification |-> classification,
                                 references |-> references,
                                 read |-> report.of, judged |-> entry.change.delta,
                                 domain |-> entry.change.domain])
  /\ UNCHANGED <<trees, report>>

\* One of the trees is generated again, or edited.
Replace(side, tree) ==
  /\ trees' = [trees EXCEPT ![side] = tree]
  /\ UNCHANGED <<report, reviews>>

ReviewsInit ==
  /\ \E old \in OldTrees, new \in NewTrees : trees = <<old, new>>
  /\ report = Refused /\ reviews = <<>>

ReviewsNext ==
  \/ \E evidence \in BOOLEAN : Diff(evidence)
  \/ \E entry \in report.changes, classification \in Verdict, references \in BOOLEAN :
       Review(entry, classification, references)
  \/ \E tree \in OldTrees : Replace(1, tree)
  \/ \E tree \in NewTrees : Replace(2, tree)

ReviewsSpec == ReviewsInit /\ [][ReviewsNext]_reviewing

-----------------------------------------------------------------------------
(* What the reader of a report relies on. *)

Sub(v, key) ==
  IF Is("array", v) THEN (IF key \in DOMAIN v.array THEN v.array[key] ELSE Absent)
  ELSE Field(v, key)

\* What a path leads to.
Along(document, path) ==
  LET at[n \in 0..Len(path)] == IF n = 0 THEN document ELSE Sub(at[n - 1], path[n])
  IN  at
ValueAt(document, path) == Along(document, path)[Len(path)]

\* The paths of a value through the keys of its objects.
Keys(v) == IF Is("object", v) THEN DOMAIN v.object ELSE {}
Longer(v, paths) == UNION {{Append(path, key) : key \in Keys(ValueAt(v, path))} : path \in paths}
Nested(v) ==
  LET paths[depth \in 0..MaxDepth] ==
        IF depth = 0 THEN {<<>>} ELSE Longer(v, paths[depth - 1])
  IN  paths
Places(v) == UNION {Nested(v)[depth] : depth \in 0..MaxDepth}

\* A change names what is at a place, or what it is part of.
Told(deltas, oldPlace, newPlace) ==
  \E delta \in deltas :
    \/ delta.before # Absent /\ IsPrefix(delta.oldPath, oldPlace)
    \/ delta.after # Absent /\ IsPrefix(delta.newPath, newPlace)

\* Two values are the same but for what the changes name.
SameBut(deltas, old, new, oldPath, newPath) ==
  \A place \in Places(old) \cup Places(new) :
    \/ Told(deltas, oldPath \o place, newPath \o place)
    \/ ValueAt(old, place) = ValueAt(new, place)
    \/ Is("object", ValueAt(old, place)) /\ Is("object", ValueAt(new, place))

\* The items of one identity are the same ones in the same order, wherever they stand.
SameItems(old, new, keys, identity) ==
  \E f \in Bijection(Positions(old, keys, identity), Positions(new, keys, identity)) :
    \A i, j \in DOMAIN f : old.array[i] = new.array[f[i]] /\ (i < j => f[i] < f[j])

\* Two documents say the same: an identified collection is a list for each
\* identity, and any other value is what it is. Of a schema all counts.
SameContract(domain, isSchema, old, new) ==
  \/ old = new
  \/ /\ ~isSchema /\ Is("object", old) /\ Is("object", new)
     /\ \A collection \in (DOMAIN old.object \cup DOMAIN new.object) \ Stamps :
          LET keys == KeysOf(domain, collection)
              o == Field(old, collection)
              n == Field(new, collection)
          IN  \/ o = n
              \/ /\ Keyed(o, keys) /\ Keyed(n, keys)
                 /\ \A identity \in Identities(o, keys) \cup Identities(n, keys) :
                      SameItems(o, n, keys, identity)

\* A value is at the path a change names, within an item of the identity it names.
IsThere(domain, document, path, value, identity) ==
  value # Absent =>
    /\ ValueAt(document, path) = value
    /\ identity # Absent =>
         Identity(ValueAt(document, SubSeq(path, 1, 2)), KeysOf(domain, path[1])) = identity

\* The indices a change names are those of its identity, its value is their items.
IsGroup(domain, document, path, value, identity, indices) ==
  LET v == ValueAt(document, path)
  IN  /\ Range(indices) = Positions(v, KeysOf(domain, path[1]), identity) /\ Increasing(indices)
      /\ value = Array(Items(v, indices))

IsSound(domain, sides, delta) ==
  /\ delta.before # delta.after
  /\ IF delta.oldIndices = Absent
     THEN /\ IsThere(domain, sides[1], delta.oldPath, delta.before, delta.identity)
          /\ IsThere(domain, sides[2], delta.newPath, delta.after, delta.identity)
     ELSE /\ IsGroup(domain, sides[1], delta.oldPath, delta.before, delta.identity, delta.oldIndices)
          /\ IsGroup(domain, sides[2], delta.newPath, delta.after, delta.identity, delta.newIndices)

Only(indices) == IF indices = {} THEN <<>> ELSE <<CHOOSE i \in indices : TRUE>>

\* The items of an identity are the same but for what the changes name.
GroupIsTold(deltas, collection, old, new, keys, identity) ==
  LET o == Positions(old, keys, identity)
      n == Positions(new, keys, identity)
      own == {delta \in deltas : delta.identity = identity}
  IN  IF Cardinality(o) <= 1 /\ Cardinality(n) <= 1
      THEN SameBut(own, FirstItem(old, Only(o)), FirstItem(new, Only(n)),
                   <<collection>> \o Only(o), <<collection>> \o Only(n))
      ELSE \/ SameItems(old, new, keys, identity)
           \/ \E delta \in own : /\ delta.oldIndices # Absent
                                /\ delta.oldPath = <<collection>> /\ delta.newPath = <<collection>>

CollectionIsTold(deltas, domain, collection, old, new) ==
  LET keys == KeysOf(domain, collection)
  IN  IF Keyed(old, keys) /\ Keyed(new, keys)
      THEN \A identity \in Identities(old, keys) \cup Identities(new, keys) :
             GroupIsTold(deltas, collection, old, new, keys, identity)
      ELSE SameBut(deltas, old, new, <<collection>>, <<collection>>)

IsComplete(deltas, domain, isSchema, old, new) ==
  IF ~isSchema /\ Is("object", old) /\ Is("object", new)
  THEN \A collection \in (DOMAIN old.object \cup DOMAIN new.object) \ Stamps :
         CollectionIsTold(deltas, domain, collection, Field(old, collection), Field(new, collection))
  ELSE SameBut(deltas, old, new, <<>>, <<>>)

Domains(pair, isSchema) ==
  IF isSchema THEN (DOMAIN pair[1].schemas) \cup (DOMAIN pair[2].schemas)
  ELSE (DOMAIN pair[1].files) \cup (DOMAIN pair[2].files)

DeltasOf(entries, domain, isSchema) ==
  {entry.change.delta : entry \in
     {e \in entries : e.change.domain = domain /\ e.change.isSchema = isSchema}}

\* contract_diff.rs:104-105, 160-161: the report says exactly how two trees
\* differ. What it names is there and differs, within the items it identifies;
\* but for what it names the documents are the same; and of documents that say
\* the same it names nothing.
DeltaIsExact ==
  ~report.refused =>
    /\ \A entry \in report.changes :
         LET change == entry.change
         IN  IsSound(change.domain, Sides(report.of, change.domain, change.isSchema), change.delta)
    /\ \A isSchema \in BOOLEAN : \A domain \in Domains(report.of, isSchema) :
         LET sides == Sides(report.of, domain, isSchema)
             deltas == DeltasOf(report.changes, domain, isSchema)
         IN  /\ IsComplete(deltas, domain, isSchema, sides[1], sides[2])
             /\ SameContract(domain, isSchema, sides[1], sides[2]) => deltas = {}

\* contract_diff.rs:309-314, 366: a change carries another judgement than
\* "indeterminate" only if someone judged this change, between the very
\* artifacts, under locks declaring the same sets, that this report compares.
ReviewsStayWithTheirChange ==
  \A entry \in report.changes : entry.assessment # "indeterminate" =>
    \E review \in Range(reviews) :
      /\ review.classification = entry.assessment /\ review.references
      /\ review.judged = entry.change.delta /\ review.domain = entry.change.domain
      /\ \A i \in 1..2 :
           /\ review.read[i].lock.set_hash = report.of[i].lock.set_hash
           /\ LET sides(pair) == Sides(pair, entry.change.domain, entry.change.isSchema)
              IN  sides(review.read)[i] = sides(report.of)[i]
=============================================================================
