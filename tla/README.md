# whatspec in TLA+

whatspec downloads the JavaScript bundles of WhatsApp Web, extracts protocol
specifications from them into `generated/`, and keeps the exact inputs of every
generated tree in a release store, so that anyone can reproduce it later. Two
kinds of thing can go wrong. Around the files: a shared cache directory, a pool of
download threads, an endpoint that answers the same question differently each
time, runs that are cut short, locks that must agree with what was published.
And inside two of the extractors' passes, which are pure functions but decide a
question about programs: whether a key is on the wire in *every* execution of a
caller (the presence pass of `wa-mex`), and whether the decoder written for a
union takes the variant WhatsApp's own parser takes (the union generator of
`wa-codegen`). Both are modelled here, the second kind as operators compared with
a reference semantics; and so is what is made of the documents afterwards, the
merged catalogue of enums and the report on two trees.

1. [The system](#the-system)
2. [Modules](#modules) and how they correspond to the code
3. [Runs](#runs), their bounds, and what they show
4. [Disagreements](#disagreements) between the code and its documentation
5. [Fairness](#fairness)
6. [Proofs](#proofs)
7. [What is not modelled](#what-is-not-modelled)
8. [Plan](#plan)

`PROJECT.json` lists the same things for tools: components, runs, the code each
definition stands for, the hazards, and for every checked property a mutation of
the model that breaks it.

## The system

| component | state | operations | interacts with |
|---|---|---|---|
| discovery (`wa-fetch/discover.rs`) | none | one page in, script URLs, release and bootloader data out | download, bootloader client |
| bundle download (`wa-fetch/download.rs`) | a shared cursor, a shared list of results; the directory of a dump | a pool of scoped threads, each claims, fetches, pushes; `save_bundles` writes the outcome | HTTP client; the pipeline joins it; `--bundles` reads the dump |
| bundle cache (`wa-fetch/cache.rs`) | `manifest.json`, a temporary one, a file per bundle and payload | `store`, `store_wasm`, `check`, `wasm_payloads`, `wasm_handles` | every run that is given `--cache`, and `restore --cache`, with no lock between processes |
| bootloader client (`wa-fetch/bootloader.rs`) | the id -> URL bindings known so far | rounds of two requests until nothing new | the page, an endpoint that answers in parts |
| wasm payloads (`whatspec/main.rs`) | wasm half of the cache, `--wasm-out` directory, `generated/wasm.lock.json` | `load_wasm`, `maybe_save_wasm`, the writers of the lock | bootloader client, cache, `publish-wasm.sh` |
| update pipeline (`whatspec/main.rs`) | `generated/`, `bundles.lock.json`, `--save-bundles` directory | fetch or read bundles, build, floor guard, write files, write locks, `--check` | all of the above |
| publishing (`update.yml`, `publish-*.sh`) | main, the `bundle-store` release | upload an archive under the lock's hash, commit, push | update workflow and people, concurrently |
| restore (`wa-store/restore.rs`) | an output directory or a cache | fetch, verify against the lock, write | store, locks, cache |
| capture (`wa-store/capture.rs`) | an output directory | restore selected historical payloads | archives, CDN |
| presence pass (`wa-mex/presence.rs`) | a scope of bindings, joined at branches, loops and calls | walks the callers of every operation, says of each key "always", "conditional" or nothing | the mex IR, from it the generated request types |
| response unions (`wa-codegen/union.rs`, `fields.rs`, `emit.rs`) | none | classifies a union, writes its decoder | the response IR, the generated parsers |
| enum catalogue (`wa-enums`, `whatspec/main.rs`, `lint-ir.py`) | none | the definitions found, every inline reference folded in, the lint on the result | five of the other extractors' documents |
| contract diff (`whatspec/contract_diff.rs`) | none; a person keeps a file of reviews | reads two trees, reports their changes, applies reviews | trees that `update` and git leave |
| other extractors and generators | none | bundles' text -> IR -> files | called once by the pipeline |

What makes it hard, and what correctness means, by component:

- **bundle cache**: processes share a directory without a lock, every operation
  is many file-system calls, any of them may be the last. *A hit must be one
  whole set that was stored for that very release*; a manifest must not name
  files that are not there; the payloads and ids returned must have been stored
  together.
- **bundle download**: threads finish in any order, servers fail or hang.
  *Every URL has exactly one result and the outcome does not depend on the
  scheduling*; a slow server must not hold up the others. Saved, *each bundle has a
  file of its own that `--bundles` reads again*, though URLs share last segments.
- **bootloader client**: the endpoint answers in varying parts and may
  contradict the page and itself. *The first binding wins, asking ends, and
  every degradation is recorded.*
- **wasm payloads**: three memories (cache, prior lock, this run) tell which id
  means which URL, of two releases, over many runs. *The lock must not
  contradict itself, must follow what the newest run saw, must not mix
  releases, and must not forget a payload that was had.*
- **update and publishing**: files are rewritten in place and one after the
  other, the workflow is cancelled at any time, a person works in a clone that
  keeps its state. *Every commit ever made must stay reproducible from the
  store, and no domain may shrink unnoticed.*
- **presence pass**: an abstract interpreter with joins, early exits, loops to a
  fixed point, `try`, hoisted and block-scoped names. *What it calls always
  present is present on every path*, or a client's request is described wrongly.
- **response unions**: four shapes of decoder, each tests a variant in its own way,
  and the same leaf is written twice, as a guard and as a read. *The generated
  decoder takes the variant the original parser takes, for every node whose values the
  generated types hold.*
- **enum catalogue**: five documents refer to enums, with a copy of the variants in place.
  *The catalogue alone resolves each reference to the same variants.*
- **contract diff**: two trees compared while both may change, and judgements on a change
  that are used later. *The report says exactly how the documents differ, and a judgement
  stays with the change it was made on.*
- **restore**: archives and locks may be wrong, the target has old files. *Disk
  changes only after verification, and success means exactly the locked set.*
- **capture**: any server may answer wrongly, an archive may break off half-way, names
  repeat in it. *A name gets the pinned bytes or keeps what it had, and no
  payload that was offered is reported unavailable.*

## Modules

| module | models | code |
|---|---|---|
| `CacheInTurn` | the cache used by processes that share the directory or that take turns, and what it promises in turn; extends `BundleCache` | cache.rs:1-3, 33-47, 320-325 |
| `VersionCache` | what the JS half of the cache promises processes that take turns: a register that is emptied and then filled whole | cache.rs:1-3, 33-47 |
| `BundleCache` | the cache directory, one file-system call per step | cache.rs |
| `Download` | the thread pool | download.rs:90-180 |
| `SaveBundles` | the dump of a complete outcome, name by name; extends `Download` | download.rs:68-76, 168-241 |
| `Bootloader` | `resolve_wasm_with` | bootloader.rs:110-320, discover.rs:451-480 |
| `WasmHandles` | the functions on id/URL maps: `Invert`, `ById`, `DropStaleAliases`, `Handles`, `Ids`, `Pins`, `MergePriorHandles` | main.rs:1569-1812, 2720-2743 |
| `WasmLock` | runs of `update` as they concern wasm; extends `WasmHandles` | main.rs:225-400, 1300-1862, 2685-2781 |
| `Publish` | from the fetched set to the pushed commit | main.rs, publish-bundles.sh, regen.sh, update.yml |
| `PinnedSets` | what publishing promises those who take main: each commit pins one set that can be had for good | publish-bundles.sh:22-27, regen.sh:2-11 |
| `Restore` | `whatspec restore` | restore.rs |
| `Capture` | `restore_captures_with`; extends `Restore` by a state of its own | capture.rs:20-102, 299-453 |
| `CallerProgram` | the bodies of callers and what JavaScript does with them: the reference | the subset presence.rs walks |
| `Presence` | the walk of a body: scope, branch, join, fixed point; extends `CallerProgram` | wa-mex/presence.rs 145-690, 2860-4440 |
| `ObjectLiteral` | the literals a call hands over, what JavaScript and `JSON.stringify` make of them: the reference | the subset presence.rs classifies |
| `VariablesObject` | which keys of that object are always on the wire, at any depth, and the merge of several calls; extends `Presence` and `ObjectLiteral` | wa-mex/presence.rs 610-813, 1048-1613, 1984-2186, 4510-4727 |
| `WireLeaf` | one leaf of a response: the accessor, its guard, its read | union.rs, fields.rs, emit.rs |
| `ResponseUnion` | the shapes of union and their decoders; extends `WireLeaf` | union.rs 36-1240 |
| `Unions` | the unions a response declares, from a pool of variants, and what is asked of their decoders; extends `ResponseUnion` | |
| `EnumCatalogue` | the catalogue of enums, the references merged into it, the lint on both | main.rs:3083-3218, wa-enums/lib.rs, lint-ir.py |
| `ContractDiff` | `whatspec diff`: what it reads, reports, and the reviews it applies | contract_diff.rs |
| `BundleCacheProofs`, `DownloadProofs`, `BootloaderProofs`, `WasmLockProofs`, `PublishProofs`, `RestoreProofs` (of `Restore` and `Capture`), `ResponseUnionProofs` (of `WireLeaf`, `ResponseUnion` and `Unions`), `DocumentProofs` (of `EnumCatalogue` and `ContractDiff`) | the theorems | |
| `MC*` | small instances for TLC | |

How they compose. `BundleCache` opens the calls `store` and `store_wasm` that
are one step each in `WasmLock` and `Restore`; the promise of `VersionCache` is
what these two rely on, and `BundleCache` is shown to implement it (property
`ContractInTurn`, by the refinement mapping `held`, `storing`, `status`). `Bootloader`
computes the bindings that `WasmLock`'s action `LoadWasm` chooses freely: its
property `OutcomeOfLoadWasm` says that every outcome is one of those choices.
`SaveBundles` goes on from `Download`'s outcome, so that its files are compared with
what the pool produced. `Capture` uses the names and
contents of `Restore`; `MCRestore` puts these two commands that fill a directory under one
specification, one of them in a behaviour.
`Publish` takes a whole set from a fetch, which is what `Download`
(`EveryUrlOnce`) and the pipeline's refusal of partial downloads give it, and
restores in one step what `Restore` does in many.

How state and actions correspond to the code:

- **BundleCache**. `manifest`, `tmp` and `files` are the directory; `pc[p]`,
  `mem[p]`, `buf[p]`, `todo[p]` are the locals of the operation process `p` is
  in. `fs::write` is two steps (`WriteBegin` truncates, `WriteEnd` completes), so
  that a reader or another writer may come in between and a crash leaves a torn
  file; `TmpBegin`, `TmpEnd`, `Rename` are `write_manifest`; `ClearManifest` and
  `ClearDir` are `clear`. `Abandon` ends a call at any point. `DamageFile` and
  `DamageManifest` are the corruption `check` exists to notice. A digest is
  injective; file names, which are hashes of URLs, are the URLs.
- **Download**. `cursor` is the `AtomicUsize`, `results` the `Mutex<Vec>`; a
  worker is at its loop head, fetching, pushing, or has left. Retries inside one
  fetch are one answer.
- **SaveBundles**. `used` is the set of names given; `disk` the directory; `saved`
  (history) which bundle got which name. A name is a stem and an extension. The stem of a last
  segment is any, also one that looks like the fallback name of some URL, which is
  `<<url, n>>`; lengths are reduced to "too long" or not, upper and lower case to the names'
  being equal. The extensions are those of JavaScript bundles: discovery collects
  URLs that end in `.js` (before a query), and `read_local_bundles` looks for no other.
- **Bootloader**. `bx` is the accumulating map, `before` its size at the start of
  a round, `told` (history) what each answer said.
- **WasmLock**. One action for each stretch of a run that ends in a write: `Start`
  (discovery, JS cache), `LoadWasm`, `StoreWasm`, `SweepDir`, `SaveWasm`,
  `Proceed` or `Stop` (floor guard), `WriteLock`; `Crash` ends a run anywhere and
  may tear the file being written. History variables: `full`, `got`, `said`.
  Left out: the request counts in the lock, and the `--wa-version` override.
- **Publish**. `tree[a]` is an actor's `generated/` as three files
  (artifacts, manifest, lock) in the order the code writes them; `base[a]` the
  commit it started from; `store` maps an asset name to the bundles in it.
  `Clobber` and `Upload` are the two calls `gh release upload --clobber` makes.
  `Fetch` is the fetching run, `Regenerate` the offline one, which rewrites the
  files and not the lock. The workflow starts from a fresh checkout and an empty
  directory, a person may go on in a clone (`GoOn`). A run's output is a function
  of release and set, and a domain's count the number of bundles of that domain:
  enough to tell a shrink in one domain from one in another.
- **PinnedSets**. The sets that can be had, those commits have pinned, and the one the head
  pins. `Publish` implements it (`ImplementsPinnedSets`) by the mapping `Obtainable` and `PinOf`: a set
  can be had if an asset of its name holds it, or is being uploaded from a directory that does; a
  commit pins the set of its lock if the manifest, the artifacts and the lock are of that one set,
  and otherwise nothing, which no step of `PinnedSets` allows. So writing three files in place, deleting
  an asset to upload it again, and racing pushes all have to amount to one step of main.
- **Restore**. `Start` reads the lock and runs the preflight, `Fetch` takes any
  archive, `Verify` does every check that comes before a write, then `Sweep` and
  `Write` one file at a time, or `WriteCache`. Two directories' worth of files
  (`.js`, `.wasm`) share one output directory. `from` (history) is the release
  each half of the cache was restored from.
- **Capture**. `missing` is the list of that name; `ask` and `assets` are the positions
  in the two loops over the CDN and the archives, whose order is left open; `taken`
  is what `Selection` hands over to be persisted; `seen` (history) is what was offered whole.
  `persist` writes a temporary file and renames it, one step for the name. `EndCapture` is
  every end: success, a report of what is unavailable, an error, a kill.

- **CallerProgram**. A body is a sequence of statements over two variables; a value is
  "defined" or "undefined", all that presence tells apart. The reference takes a
  set of stores through a body and collects those with which it ends, breaks,
  returns or may throw, and the values its calls send. Conditions are open.
- **Presence**. The `Scope` of the pass is the record of the walk: a stack of frames
  that bind a name to "defined", "undefined", a reference to a name, or `Either` of two
  values; the logs of writes of the open branches, with what was held before; the
  open watches. There is one operator for each kind of statement, named as in the
  code. `ReadUntilItSettles` is the second reading of what runs more than once, up to
  `MAX_PASSES`.
- **ObjectLiteral**. An expression evaluates to every value it may have; a name nobody
  bound, a call and a getter give any of `Unseen`. `Build` writes the properties of a
  literal in order, `Stringify` says what `JSON.stringify` may write for the value.
- **VariablesObject**. `Convert` is the reading of an expression as a value of
  `Presence`. A node of the tree has a verdict, the fields below it and the
  elements of a list; an opaque record is a path to an object that may hold more keys than
  were read. There is one operator for each arm of `classify_object_reporting`;
  `VariablesPresence` is the merge of the calls and what is published of it. Setters, the bound
  on depth and the counts of diagnostics are left out.
- **WireLeaf**. `Accepts` is the accessor of WhatsApp's parser: it takes any number in the
  declared range, and any number at all where none is declared. `LeafGuard` follows `leaf_guard`,
  `Reads` follows `emit_field_parse` with the width and the band that `fields.rs` chooses.
  `Narrowed` names the one kind of value that the accessor takes and the generated type does not
  hold: a negative one where nothing is declared and nothing is pinned (fields.rs:109-110). A
  number is one decimal text that both sides read alike; a word is what neither makes a
  number of.
- **ResponseUnion**. `Shape` says which is recognised, in the order the four shapes are tried;
  `Decode` is the decoder each emits, arm by arm. `SourceArm` is the reference: the
  first variant whose assertions hold and whose leaves are accepted.
- **EnumCatalogue**. A definition or a reference is a key and a list of variants; what the
  modules and the documents hold are lists of these, `found` and `references`, which `Define`
  and `Refer` make longer one by one. `Disagree` says when the run ends with an error, `Merge`
  is the catalogue otherwise.
- **ContractDiff**. A JSON value is a scalar, an object or an array, a path a sequence
  of keys; `Walk` and `GroupDiff` are `walk` and the body of the loop of `document_diff`. Digests
  are injective, so an artifact stands for its hash, and `Id` of a change is all that the change
  is bound to. `Review` is a person who judges a change of the report they read, and `Replace`
  whatever changes a tree meanwhile; what a review was about is kept with it only for the
  property. A change is bound to the artifacts and to both `set_hash`es, and to nothing else of
  the lock: a judgement also holds for a tree of another release with the same set and the same
  documents, and `ReviewsStayWithTheirChange` says no more than that. `Snapshot::read` is one
  step: it is called on trees at rest. `Walk` descends `MaxDepth` levels, `Levels` being what
  `walk`'s recursion compares at each; JSON that is nested deeper than serde_json's 128 is
  not read at all. `Occurrences` is what `keyed` makes of an array for one identity: the
  positions of its items, in the order of the array.

  `DeltaIsExact` compares the report with the documents themselves and not with a second
  diff. *Sound*: at the path a change names stands the value it names, before and after differ,
  and an item is one of the identity named; a group names all positions of its identity. *Complete*:
  every place of either document (the keys of its objects, down to `MaxDepth`) holds the
  same on both sides, or two objects, unless a change names it or something it is part of; items
  of one identity are compared with one another wherever they stand, and only with the changes
  that carry it. *Silent*: where every identified collection holds the same items for each
  identity, in the same order (a bijection that keeps the order), and everything else is the
  same, nothing is reported. It covers documents, schemas, and those one tree lacks.

Every counter that would be unbounded has a named bound in the guards:
`MaxCalls`, `MaxRuns`, `MaxFaults`, `MaxEntries`, `MaxDeferred`, `MaxPins`, `MaxFiles`,
`MaxAssets`, `MaxReviews`, `MaxSites`, `MaxArms`, `max_rounds` (the last is the code's own).

## Runs

| run | question | instance |
|---|---|---|
| `cache` | is what is read always what was stored, together, for that release? can a hit mix two stores, is a manifest on disk always backed by files, and does the cache implement `VersionCache`? | either `shared` (2 processes, 1 bundle, 1 payload, 3 calls, 1 crash or damage) or `in turn` (2 processes, one call at a time, 2 bundles, 1 payload, 3 calls, 2 cuts) |
| `download` | exactly one result each, in the sequential order? does it end, and does one hung server hold up others? does each bundle get a file of its own? | 3 workers, 4 URLs out of order, 2 bodies or failure; last segments: a plain one, one too long, two that look like fallback names |
| `bootloader` | first binding, bounded requests, recorded degradation, outcome | 2 ids, 2 URLs of which 1 refused, 2 rounds |
| `wasm` | is a full lock consistent, do pins follow the run, do releases mix, does a cached run's lock forget a cached payload, is the output directory publishable? | either `one release` (2 ids, 3 URLs of which 1 refused, 2 runs, 1 fault) or `one id` (1 id, 2 URLs, 2 releases, every flag combination, 3 runs, 1 fault) |
| `publish` | does every commit stay reproducible, can main shrink, and does publishing implement `PinnedSets`? | workflow and person, 2 releases, 2 origins, 3 bundles in 2 domains, 3 runs, 1 kill of either |
| `restore` | verify before mutate, exact result, names, one release per cache; what a capture leaves, reports and overwrites | either `restore` (locks of up to 2 entries, archives of up to 3 files, 2 contents, names, URLs, releases, 2 restores, 1 cut) or `capture` (2 pins, 2 archives of up to 2 files, 2 calls, any directory before them) |
| `presence` | is "always" true of every execution, is "conditional" witnessed, is a body that was not read to the end taken for read? | every body of up to 3 simple statements and 2 enclosing ones, in seven dialects (branches, loops, cases, tries, copies, aliases, scopes), declared in four ways (tries, copies and aliases: before, with values); and in an eighth, every object literal of up to 3 properties, or 4 with what encloses them (a key, a list, a choice, a spread, a second call) counted |
| `documents` | do readers of the documents get what they say? Does each decoder take the arm the source takes, is every arm reachable, do guard and read of a leaf agree; does every reference to an enum resolve; is a diff exact, and does a review stay with its change? | one of four: `unions`, every union of up to 3 variants of four styles, every leaf with every band over -1..2, every node over the places they mention; `enums`, every 3 definitions and 3 references over 2 keys and 3 lists of variants; `deltas`, every two of some 150 documents (an identified collection of up to 2 of 6 items or 3 of 3, a list in order); `reviews`, 2 old trees, 7 new ones (another lock, another release of the same set, a value or a domain more, an edited one), 2 reviews, of which the first may be one that a diff refuses |

What they show: in the instances above, all properties named in `PROJECT.json`
for these runs hold in every reachable state, and all of them break under the
mutations listed there. `CHECK_DEADLOCK FALSE` is set where a bounded history
simply ends.

Why the bounds are enough to be interesting. A mixed cache hit needs two
stores, the second of them cut short between its two bundles, and a lookup: two
bundles and three calls; that no interleaving of processes mixes sets either is
proved. A torn
state that matters later needs a cut and a following run, so every crash bound
leaves at least one more call or run. A contradiction in the wasm lock needs an
id that moved from one URL to another between runs and a second id that aliases
it: two ids, three URLs with a refused one, two runs. Forgetting needs the
payload cached, then not offered, and a write after that: two runs. Mixing releases
needs A, B, A: three runs. An archive
lost to a re-upload needs a commit, a second run of the same set, and a fault. A
multiset that equals another as a set needs two entries of one content. An item that
moves while another shares its identity needs three items. A judgement put on the wrong
change needs a report, a judgement, a new tree and a second report. A variable lost by a join needs a write, an enclosing statement and a
call: three simple statements and two enclosing ones let one stand in the other. A
variant shadowed by an earlier one needs two, an if/else that goes wrong only
with a fallback needs three. What
each bound leaves out (longer sequences, more participants) is what the proofs
are for.

Four runs have a `scope`, chosen in the initial state, that says which kind of
instance a behaviour is of: each is deep where the other is narrow (in `restore`
and `documents`, each is of one component), and their product would be out of reach. The properties
named `...InTurn` speak of the second kind. The scopes of `cache` are those of `CacheInTurn`, which
bounds neither; `MCBundleCache` adds the bounds of the first (`Bounded`).

`download` follows the saving of the outcome after one schedule of the pool only, since
`OutcomeIsSequential` says that the outcome is the same after every other
(`OneSchedule` in `MCDownload`).

`presence` explores bodies outside the shapes that are known to be read too
optimistically (below): in them an `if`/`else`, a `switch` with a default or a `try`
with a finalizer, every arm of which writes, does not stand under another
statement; a `break` comes last in its case and `return` is not conditional inside
a loop or a case; names are assigned to one another (`x = y`) only in a dialect of its own,
where both start with the same value and none is declared again; what a
scope declares is declared before it; a finalizer writes or returns. In the literals, no
getter follows a spread or a computed key; a literal that is spread holds no `toJSON`, no
unreadable source and no computed key; no `toJSON` stands under a choice; a gated spread of
what holds a literal comes first in its own; the operands of `||`, `&&` and `??` are simple or
a choice. With two calls, keys below a key are judged only if no call's object may hold more
than was read (`Separable`). A gate, and an `&&` with a choice on its left, are called
conditional though the key may always be there: `ConditionalIsWitnessed` leaves
them out (`Plain`).

Three kinds of body for which `AlwaysIsAlways` does not hold are kept out by the bounds alone: a
call in a loop in a loop (it takes 4 simple statements), a call after a loop that was given up
(8 names), and a name held inside an `Either` when it is written (a statement more). They are
under [Disagreements](#disagreements).

`GivenUpIsNotAlways` is about bodies that do not settle. That there are such bodies is provided for by the code
(presence.rs:44-48, 4142-4171): a chain of copies in a loop moves one name per
reading, and more than six names use up `MAX_PASSES`. Seven names are out of the run's reach, so the
property asks it of `Hasty`, the same walk with a limit of one reading, which two names exceed:
where it gives up, it must not say "always" of a key some execution leaves out. It speaks
of a call in the only loop around it (`CalledInItsLoop`); the other two positions are the first two
kinds above. With the code's own limit the same is part of `AlwaysIsAlways`.

`DecodesAsSource` and `EveryArmIsReachable` compare with the source on nodes whose values the
arms' types hold (`Held`: no leaf is `Narrowed`). For the others `DecodesAsSource` still says that an arm
that is taken is one whose variant accepts the node, and `LeafReadsAgree` that guard and read
refuse the value both: for each leaf they take exactly what is accepted and not `Narrowed`.

`documents` asks `EveryArmIsReachable` only of variants that read what they assert where
another one reads it (`Comparable`), and only where what an arm reads can be something no other
arm asserts (`AsNoOther`).

The type invariants of `Bootloader`, `WasmLock`, `Publish` and `Restore` are not in their runs:
they are proved (`TypeCorrect` of their proof modules), for every instance.

Symmetry is used on values that the specification never orders or names
(processes, contents, releases, origins, bundles of one domain), and never in a run with
a liveness property.

## Disagreements

Four runs expect a violation. Each checks one statement of the repository's own
documentation or comments and finds it false of the code. `PROJECT.json` quotes
the lines.

| run | statement | what happens |
|---|---|---|
| `cache_wasm` | `store_wasm` cut short leaves the committed payloads (cache.rs:320-325) | a payload whose bytes changed under its URL is rewritten in place before the commit |
| `wasm_contradicts` | the lock never contradicts itself (main.rs:1584-1588) | a run without payloads rewrites the pins beside the entries it keeps |
| `publish_cut` | every past lock keeps resolving its archive (publish-bundles.sh:23) | cancelled between deletion and upload, a re-upload removes it |
| `presence_nested` | "always" is a value no JS evaluation can make undefined (wa-ir/src/mex.rs:54-57) | `if (t) { if (u) x = !0; else return }` under which `x` is not written when `t` fails: the join of the inner arms has no state before them to fall back to |

The passing runs exclude these by their constants (`CutUploads`, `Nested`) or by their
scope.

Other statements are narrower in the code than in the text, and no run is spent on
them. In the README.md of the repository, line 178: "the directory is always exactly the lock's" (a run that
obtains no payload empties the directory and keeps the lock's entries, main.rs:1615-1622
and 364-382; `PublishableDir` is what does hold), and "cached as incomplete" (`store_wasm`
keeps `complete: true` whatever part it is given; the next run resolves again
because every run does). Line 150: "refuses to overwrite the committed output if any
domain's coverage shrinks" (a torn `manifest.json` disables the guard for the next run,
main.rs:2394-2398, deliberately; `MainNeverShrinks` excepts exactly that, by the
history variable `waived`). publish-bundles.sh:66-67: a re-upload "replaces it with
identical bytes" (a `--save-bundles` directory that is reused by hand holds an earlier run's
bundles too, and the archive is made of whatever is there; `KeepDir` of `Publish`
lets a person do so, and is `FALSE` in both runs).

The presence pass reads more bodies as "always" than the nested one. Met while the
model was compared with the reference, each kept out of the run `presence` as said
above: a `break` or `continue` under a condition after a write, in a loop or a case;
an assignment alias (`x = y`) whose target is redeclared, shadowed by a `let`, or held
inside an `Either` (`detach_aliases` looks for the exact reference only,
presence.rs:418-435); a function called in place that writes an outer name under a
branch when the name is declared later; and `try` with a finalizer and no handler,
where the value from before the block is gone when the finalizer calls (3436-3450; no finalizer
of the run calls). The run contains assignment aliases, but none of these.

Two more are beyond the run's bounds, and were found by evaluating the model on them:

- `while (t) { while (u) { call(x); var x = y } x = !0; y = void 0 }` is always, though the
  second round of the outer loop may send undefined in the second of the inner: when the
  outer body is replayed (4151), the inner one is read once and not until it settles.
- a loop that hands a value down a chain of eight names, and a call after it, is always though
  the value may be undefined: the readings are used up, and what was given up
  counts only for calls in the loop itself (4169).

Of the object that is sent, the same holds for:

- `{a: !0, ...base}` with `var base = {...opts}`: `a` stays always. A source that cannot be
  read and stands in another literal only adds an opaque record; the keys written before
  it are not withdrawn (1289-1313, under a comment, 1314-1319, that says they are).
- `{...{toJSON: f}, a: !0}`: a hook that comes by a spread or a computed key is not
  seen (1328-1336); nor is one under a choice, `{a: t ? {toJSON: f} : null}` (1528-1538).
- `{...{a: 1, b: !0}, get a() {delete this.b}}`: the getter takes the place of the key a spread
  wrote first, and is read before `b` (`standing_getters`, 1386-1413, counts the
  literal's own keys only).
- `{a: !0, ...(t ? {a: {b: !0}} : {})}`: `a.b` is always, though `a` may be `!0`.
- `{a: !0, ...(t ? {b: !0} : opts)}`: `a` stays always; `spread_source` (1432-1447) reads
  the arm it can read and ignores the other.
- two calls, `{...opts}` and `{a: {b: !0}}`: `a.b` is always, because an opaque record at the
  top is not applied to keys another call wrote (4670-4697, against 1175-1178).

The response-union generator and WhatsApp's parser differ on two kinds of integer. A negative one of which the
parser declares nothing is one the source takes and returns (the test comment at union.rs:2764-2765
says so of a pin, which is therefore declined), while "an integer accessor with nothing
declared is unsigned by this generator's convention" (fields.rs:109-110): the generated guard and
the read refuse it, so the decoder goes on to a later arm, or fails, where the source takes this one.
The model has this (`Narrowed`), and the properties say what holds all the same. And `attrInt`
reads by `parseInt`, which makes 304 of `304tail` and of `304.9`
(docs/iq-response-admission.md:137-138); the guard and the read of a union's leaf are a
`str::parse`, which refuses both. The model has no such texts.

The response-union generator leaves out on purpose, or by not looking, what
`WireLeaf` and `ResponseUnion` then have no place for: the other assertions of a
variant whose content is pinned; in the arms told apart by a tag, assertions on content, on
presence only and on references; an integer pin that the leaf's width cannot hold, in the
plain read of such an arm; the value of an optional integer that cannot be decoded, which the plain
read takes and the guard does not. An assertion on a place that a sibling only reads is not seen
when the arms are compared, and neither is which keys an enum takes (`variant_signature`, 203-287):
an arm that pins `k` to `a` and reads `k`, before one that reads `k` as an enum of `a` alone, is
generated, and the second is dead (union.rs:22-31 says such unions are refused). This is
why `EveryArmIsReachable` has the premises `Comparable` and `AsNoOther`; in the pool of the run
there are such arms, and without the premises TLC finds them.

## Fairness

Only `Download` has liveness properties; elsewhere a run may always be cut and
nothing is promised. `FairSpec` assumes weak fairness of each worker's claim and
push and of the join: they are a thread's own steps and a short critical section,
and the scheduler runs every runnable thread. It assumes nothing about
`Fetch`: the native client sets no timeout, so a server may keep it waiting for
ever. `EndsIfAnswered` therefore assumes that each worker is again and again not
in a fetch, and `SlowUrlHoldsUpNoOther` drops that assumption for one worker.

## Proofs

All obligations are discharged by tlapm (SMT with Z3, Zenon, and LS4 for the
temporal steps), for every value of the constants allowed by the `ASSUME`s of the
modules. These say that sentinels differ from real values and are no manifests, that the digest is
injective, that bounds are natural numbers, that the ids of a page and its answers are finitely
many, in `Download`, that the URLs
are distinct (the caller passes a `BTreeSet`'s elements), in `SaveBundles`, that a
fallback name is never too long and may carry `.js`, in `WireLeaf`, that a
word is no number and the content, attributes and children are different places, and, in `Unions`, what WhatsApp's variants are (`PoolAssumption`): a marker
asserts the content alone, a variant told apart by its tag asserts values only and pins its
integers to values of their width, and no leaf is one whose value is taken as absent when it
cannot be decoded. The generator does not check these three; what it would do without them is
under [Disagreements](#disagreements).

- **`BundleCacheProofs!TypeCorrect`**: `Spec => []TypeOK`. `TypeOK` is not
  inductive: what a process writes or loads next comes from its locals, so
  `TypeInv` adds `LocalsOK`, how the locals of a call fit together at each point
  of it. One lemma per group of actions.
- **`BundleCacheProofs!HitsAreStoredSets`**: `Spec => []HitIsAStoredSet`, for any
  number of processes, any crashes and any damage. The argument: every manifest
  that exists anywhere, on disk, half-way in the temporary file or in a
  process's memory, records the digests of one set given to `store`
  (`ManifestsFromStore`); what a process has loaded so far matches the manifest
  it read at the start (`LoadedOK`), because each file is compared as it is
  read; so at the end the loaded set has the digests of one stored set and,
  digests being injective, is that set. The interleaving of writers does not
  enter: this is why the missing lock does no harm here.
- **`BundleCacheProofs!PayloadsAreStoredOnes`** and **`HandlesAreStoredOnes`**: the same for
  the wasm half, in the same generality. `store` copies that half from the manifest it
  replaces and `store_wasm` fills it, so in every manifest anywhere it is empty or comes
  from one call of `store_wasm` for the manifest's version, handles included (`WasmFromStore`);
  what a reader keeps matches the digests of the manifest it read.
- **`BundleCacheProofs!CommittedSetStaysWhole`** and **`CacheIsARegister`**:
  `TurnSpec => []CommittedSetIsWhole` and `TurnSpec => Register!Spec` (the refinement of
  `VersionCache`), where `TurnSpec` lets any number of processes take turns and cuts their
  calls short anywhere, but damages no file. `TurnInv` says that at most one process is in a call, that
  the manifest is gone from the first step of `store` on that touches a bundle until the
  rename, and that what is in the temporary file before the rename names only files written
  whole; `store_wasm` writes under names of `WasmUrl` only, so the JS half of the manifest
  it read stays true. With this every step is one of the register's or leaves
  `held`, `storing` and `status` alone (`CallRefines`, `StepRefines`).
  **`CommittedSetStaysWholeInTurn`** and **`CacheIsARegisterInTurn`** state both of
  `CacheInTurn`, whose behaviours are of either kind, as the run checks them.
- **`DownloadProofs!ResultsAreExact`**: `Spec => []EveryUrlOnce`, for any URLs,
  pool size and answers. The inductive invariant says that each position below
  the cursor is held by exactly one worker or is among the results, never both
  (`HeldOnce`, `NoUrlTwice`, `NoneLost`), and that a worker leaves only when the
  cursor is past the end.
- **`DownloadProofs!DownloadTypes`** and **`ScheduleDoesNotShow`**: `Spec => []TypeOK` and
  `Spec => []OutcomeIsSequential`. `Outcome` sorts by rank: the place of an item is the number of
  items before it. `RankIsPlace` shows that ranks count up from 1 without a gap (a
  bijection between the items and their places, by cardinalities), so that two lists with the
  same items have the same sorted list (`SortedAlike`), in whatever order they arrived. Before the end `results`
  is such a list, because of `HeldOnce`, `NoUrlTwice` and `NoneLost`.
- **`DownloadProofs!DumpRoundTrips`**: `SaveSpec => []EveryBundleHasItsFile`. A name is free
  when it is given (`NameIsFresh`): a suffix that no name has exists because only finitely many
  have been given (`FreeSuffix`). The invariant relates `used`, `saved` and `disk`, one entry of each
  per bundle written.
- **`BootloaderProofs`**: all five properties of `Bootloader`, for any finite set of ids, any
  page, answers and caps. `FirstBindingWins` is inductive with the type of `told`; that asking
  ends needs the sizes of the bindings at the start of each round (`Gained`); that
  nothing is silent needs that the records of failed requests are all different, which
  they are because a record holds the parameter and the round (`Recorded`).
  `OutcomeIsLoadable` is what lets `WasmLock` take the outcome in one step.
- **`WasmLockProofs!TypeCorrect`** and **`WasmLockProofs!FullLockNeverContradicts`**:
  `Spec => []FullLockAgrees`, for any ids, URLs, flags, releases, and any number
  of runs and faults. The key lemma, `HandlesMatchPins`, is about the pure functions:
  whatever the page, the cache and the endpoint say, each id that
  `load_wasm` stamps on a URL is pinned to that URL, because
  `drop_stale_aliases` runs after everything was merged and before the pins are
  filtered. The invariant adds that the cached handles are injective
  (they are written from such a map) and that the run's two maps match until the lock
  is written. `Invert` picks the lowest id of a URL, whose existence uses
  well-founded induction on the naturals for a fixed set.
- **`WasmLockProofs!PinsKeepTheirRelease`**, **`PinsFollow`**, **`PayloadsAreRemembered`** and
  **`DirIsPublishable`**: the other properties of `WasmLock`, under the same generality.
  `Origin` says that every binding in the lock, in the cache and in the run was told to a
  run of the release it is filed under, and is kept because both are read only
  when their release is the run's. `Seen` says that among the ids this run saw, the
  pins are exactly the bindings it keeps, until the lock is written; what
  `merge_prior_handles` adds are ids it did not see. `Kept` follows a stored payload: it is in
  the cache, and from `load_wasm` on in the payloads of a cached run. `Swept` follows
  the directory: empty after the sweep, the payloads after the last write.

- **`PublishProofs!MainOnlyGrows`**: `Spec => MainNeverShrinks`, for any actors,
  bundles and domains. While nothing is waived, no domain of an actor's tree is below
  its base's, unless the manifest is torn, and what a run has passed the guard with is
  not below the tree's manifest (`Floor`). A push needs `head = base`, so comparing with the
  tree is as good as comparing with main.
- **`PublishProofs!CommitsPassTheGate`**: `Spec => []EveryCommitPassesTheGate`, if uploads
  are not cut in two and a person's directory is not used twice; the run `publish_cut` shows
  what happens without the first. The tree at each point of a run agrees
  with the run's release and set as far as it is written (`TreeFits`), and the asset of every
  commit, and of every run that will not upload it itself, is there or being
  put there (`Secured`).
- **`PublishProofs!PublishingKeepsItsPromise`**: `Spec => ImplementsPinnedSets`, under the same two
  assumptions, without either of which TLC finds a behaviour in which what could be had is
  lost. What can be had is what is secured (`ObtainableIsSecured`, by the invariant above), no step
  takes it away (`ObtainableStays`), and a push that succeeds is a `Pin` of a set that can be had
  (`PushPins`); every other step is a `Publish` or a stutter.
- **`RestoreProofs!RestoresTheLockedSet`** and four more: all properties of `Restore`, for any
  locks and archives. While files are written the directory holds exactly the done part of
  the list (`WrittenSoFar`); that a content is in as many files as it has
  entries is then a bijection between positions and names.
- **`RestoreProofs!SuccessIsComplete`**, **`UnavailableIsUnseen`** and **`WritesArePinned`**:
  the three properties of `Capture`, for any pins, archives, answers and number of
  calls. The invariant follows a pin through a call: it is missing, or taken from
  an archive and about to be persisted, or in place. That no two pins share a name, which
  the call refuses first, is what keeps one pin from putting another out of place
  (`PersistOne`).
- **`ResponseUnionProofs!GuardIsTheAccessor`** and **`ReadIsTheAccessor`**: for every leaf the
  generator writes out (any band, any keys, any pin, required or not) and every node,
  the guard and the plain read take exactly what the accessor takes, except what is `Narrowed`,
  which they refuse. The argument is by the
  width: a declared band lies within the width chosen for it, so the test
  that remains after parsing is the band itself; without a band what is lost is the negative numbers
  (`BandIsTheRange`).
- **`ResponseUnionProofs!DecodersFollowTheSource`**: for unions of any number of
  variants over any places and values, the decoder of each shape takes the arm
  the source takes and fails where it does, on every node the arms' types hold (`Held`); on any other
  node, an arm it takes is one whose variant accepts the node. Two premises: the markers of a union told apart by
  content come before its fallback and its payloads are ones the generator represents
  (`MarkersFirst`), and a cascade's arms hold nothing that the cascade does not test
  (`CascadeTestsAll`). Each shape has a lemma that its guard is `Accepted` and `Held`; that
  the decoder takes the first such arm (`HeldArm`, `DecodersTakeHeld`) is then
  the same for all, by well-founded choice of the least index. Where all arms are `Held`, that is the first
  accepted one.
- **`ResponseUnionProofs!UnionsDecodeAsSource`** and **`LeavesReadAlike`**:
  `UnionsSpec => []DecodesAsSource` and `UnionsSpec => []LeafReadsAgree`, for every pool of
  variants within `PoolAssumption` and unions of any length. The invariant `UnionsInv` follows a
  union as it grows (`MayFollow`: after a fallback there is nothing) and gives the two
  premises above for the shapes that need them.
- **`ResponseUnionProofs!ArmsAreReachable`**: `UnionsSpec => []EveryArmIsReachable`, for the same
  pools, places and values. The witness is built: of a node a variant accepts, `Only` keeps
  what the variant needs (`Needs`), which it still accepts (`NeededIsEnough`); for each shape a lemma
  (`EarlierFails...`) says that every variant before it then misses something it requires or
  pins another value. So this is the first variant that accepts what was kept and holds it, and
  by `DecodersTakeHeld` the decoder takes it.
- **`DocumentProofs!EveryReferenceResolves`**: `EnumsSpec => []CatalogueResolves`, for any keys, any
  lists of variants, any number of definitions and references. What is collected of a key is its
  first reference (`EachKeyIsCollected`, least position by well-foundedness); if no two sites disagree
  that is the same as all references to it (`AgreeingAreCollected`), so reading the documents in the
  opposite order makes no difference, and an entry is either the definition or promoted, never
  both (`OneEntry`).
- **`DocumentProofs!JudgementsKeep`**: `ReviewsSpec => []ReviewsStayWithTheirChange`, for any trees,
  replaced at any time, and any reviews. `ReviewsInv` says that every review names a change of
  the trees that were read, and every judgement in a report was taken from a review by the change's id;
  `ChangesAreBound` says what an id holds of the trees. That what is read may have been replaced
  by the time it is judged does not enter.

- **`DocumentProofs!ReportIsExact`**: `ReviewsSpec => []DeltaIsExact`, for any trees of any
  documents and schemas, any keys that identify items and any `MaxDepth`. Two assumptions, which
  TLC evaluates on every run: `Absent` is not a list of indices (`AbsentIsNoList`; in the code, a
  change without indices has no such field), and what a document calls an array is a sequence
  (`TreesAreOfDocuments`). The argument, in the order of the module:
  - `Along`, `Levels` and `Nested` are recursive functions. That each has the value its equation says
    (`AlongIsDefined`, `LevelsAreDefined`, `NestedIsDefined`) is shown by the least depth at which no
    such function existed; from there on a path is followed key by key, and what is at
    a path through a path is what the two lead to in turn (`PathInPath`).
  - Soundness of `Walk`: each pair compared is what stands at its path in the two values
    (`PairsAreThere`), hence so is what a change names (`WalkedIsThere`). Between a value and itself
    no pair differs (`NothingBetweenTheSame`).
  - Completeness of `Walk` (`WalkTellsAll`), by the least depth with an unsettled place: each place
    is named, or the same on both sides, or the path of a pair of two different objects that are
    compared. What follows a named place is named (`NamedBeneath`), what follows the same value is the
    same (`NextKey`), and under a pair of objects the next pair is compared, which is
    again named, equal or of two objects (`PairIsSettled`).
  - Groups: a finite set of positions has one increasing enumeration (`OrderExists`, `OneOrder`), so
    `Occurrences` is determined, and two groups list the same items exactly when a bijection that
    keeps the order relates them (`SameItemsInOrder`, both directions). A path into an item begins
    with the collection and its index, which gives back the identity (`PathNamesItem`).
  - A report holds the changes of the two trees it read, which were trees there are (`ReportInv`,
    the inductive invariant; the trees may have been replaced since).

Only model-checked: all of `Presence` and `VariablesObject` (`AlwaysIsAlways`,
`ConditionalIsWitnessed`, `GivenUpIsNotAlways`: both modules are recursive), and the liveness
of `Download`.

Out of the prover's reach here: liveness under fairness and `ENABLED`; what a RECURSIVE operator
computes.

## What is not modelled

- **Most of the extractors and generators** (`wa-scan`, `wa-notif`, `wa-appstate`,
  `wa-abprops`, `wa-enums`, `wa-wam`, `wa-proto`, `wa-tokens`, `wa-wasm`, `wa-oxc`, `wa-text`,
  `wa-transform`, `wa-ir`; of `wa-mex` all but the presence pass, of `wa-codegen`
  all but response unions). They are pure, sequential, and about the syntax of
  JavaScript. Consequence: `Publish` takes their output to be a function of the set,
  while the code concatenates a fetched set in URL order and a restored one in
  file-name order. The reproducibility gate tests this on every commit.
- **Of the presence pass**: writes to a key after the literal, setters, parameters and what
  callers pass for them, functions called later, destructuring, labels. Its first
  stage, which finds the callers in a bundle, is text processing. No property speaks of a
  finalizer that calls. **Of the wasm payloads**: the runs of the cache have one payload, so none
  shows that one gone bad leaves the others in reach; and ids that a torn `wasm.lock.json`
  held are gone, as on a first run, deliberately, which no property forbids. **Of the unions**: the
  names and types of payloads, bytes and JIDs, nested parsers, the widths' upper ends
  (2^63, 2^64).
- **Text processing**: HTML and JSON scanning in discovery and in the bootloader client,
  building request URLs.
- **Formats**: tar, xz, gzip, zip, JSON, with the limits on their sizes.
- **HTTP**: a request succeeds with some body or fails.
- **Reports** (`quality_gaps`, `source_index`) and the lint scripts but for enum references:
  predicates over files, no state. **Of the contract diff**: the wording of a change, the hint
  at its source module, the summary. **Of the enum catalogue**: how a definition is recovered
  from a module, and `mark_bit_position_enums`. Its comment at main.rs:2077-2079 says that marking
  after the merge covers shifted enums known only from a reference; an entry made from a reference
  is of kind string (main.rs:3134-3142), and only integer ones are marked.
- **Of capture**: how the assets of a release are listed, tokens and redirects, sizes,
  and what makes a single pin valid. **btarchive.rs**: a client of one listing and
  one download, whose answers are `Capture`'s open ones.

## Plan

Done, in this order: `BundleCache` with `VersionCache` and its proofs; `Download`
with its proofs; `WasmHandles`, `WasmLock` and their proofs; `Bootloader`;
`Publish`; `Restore`; `CallerProgram` and `Presence`; `WireLeaf` and `ResponseUnion`
with their proofs; `SaveBundles`; `Capture`; `ObjectLiteral` and `VariablesObject`;
`EnumCatalogue` and `ContractDiff` with the proofs of what their runs check; the rest of
`Download` and `SaveBundles` proved; `Unions` and `CacheInTurn`, which give the runs' properties
of response unions and of processes in turn a specification to be proved of; the exactness of a
diff, restated without recursion and proved; `PinnedSets`, which `Publish` is shown to implement.

Next, modelling:

1. `SaveBundles` composed with `Restore` into a round trip: saved, archived,
   restored, read again, the same multiset.
2. `Discover` and `BtArchive`: what decides between the answers a page or the archive
   endpoint may give.
3. How an enum is recovered from its module, and marked as bit positions.
4. Of the presence pass: keys written after the literal, parameters.
5. `WasmLock` with the `--wa-version` override.

Next, proofs: what item 1 states.
