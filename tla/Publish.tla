------------------------------- MODULE Publish -------------------------------
(***************************************************************************)
(* How a release's bundle set reaches main: `whatspec update' writes       *)
(* generated/ (whatspec/src/main.rs: load_source, update, check_floor),    *)
(* publish-bundles.sh uploads the saved bundles, and a commit is pushed.   *)
(* The update workflow does it in a fresh checkout and may be cancelled at *)
(* any point; a person does it by hand in a clone that keeps its files.    *)
(*                                                                         *)
(* A bundle is its content; the files a run generates are a function of    *)
(* the release and the set of bundles.  The fetch is one step (Download    *)
(* and BundleCache look inside it), wasm is left to WasmLock.              *)
(***************************************************************************)
EXTENDS Naturals, FiniteSets

CONSTANTS
  Actor,      \* who publishes: a subset of {"workflow", "person"}
  Crashers,   \* those of them who may be cut at any point
  Version, Bundle, Domain,
  DomainOf,   \* Bundle -> Domain: what the generator finds in a bundle
  Shard,      \* the origins one bundle is served from, part of its URL
  CutUploads, \* TRUE iff an upload that replaces an asset may be cut in two
  KeepDir,    \* TRUE iff a person gives --save-bundles the same directory again
  Absent, Torn,
  MaxRuns, MaxFaults  \* bounds

ASSUME PublishAssumption ==
  /\ Actor \subseteq {"workflow", "person"} /\ Crashers \subseteq Actor
  /\ DomainOf \in [Bundle -> Domain] /\ IsFiniteSet(Bundle)
  /\ CutUploads \in BOOLEAN /\ KeepDir \in BOOLEAN
  /\ Absent # Torn
  /\ MaxRuns \in Nat /\ MaxFaults \in Nat

Counts(s) == [d \in Domain |-> Cardinality({b \in s : DomainOf[b] = d})]

\* What a run generates, by file.  bundles.lock.json names the set and its URLs.
Artifacts(v, s) == [version |-> v, from |-> s]
Manifest(v, s) == [version |-> v, counts |-> Counts(s)]
Lock(v, s, u) == [version |-> v, set |-> s, shard |-> u]

Unreadable == {Absent, Torn}

ASSUME SentinelAssumption ==
  \A v \in Version, s \in SUBSET Bundle, u \in Shard :
    {Artifacts(v, s), Manifest(v, s), Lock(v, s, u)} \cap Unreadable = {}

Tree == [artifacts : [version : Version, from : SUBSET Bundle] \cup Unreadable,
         manifest : [version : Version, counts : [Domain -> Nat]] \cup Unreadable,
         lock : [version : Version, set : SUBSET Bundle, shard : Shard] \cup Unreadable]
Bare == [artifacts |-> Absent, manifest |-> Absent, lock |-> Absent]

\* A run in memory: what load_source loaded, and --allow-shrink.
Run == [version : Version, set : SUBSET Bundle, shard : Shard,
        authoritative : BOOLEAN, allow_shrink : BOOLEAN]

VARIABLES
  head,      \* generated/ at the head of main
  commits,   \* every generated/ that main has had
  store,     \* the bundle-store release: asset name -> the bundles it holds
  pc, run,
  tree,      \* each actor's generated/
  base,      \* the commit it started from
  dir,       \* its --save-bundles directory
  waived,    \* history: why the floor guard let a run pass since the checkout
             \* although it may shrink a domain: "told" to, or manifest "torn"
  runs, faults

local == <<tree, base, dir, waived>>
vars == <<head, commits, store, pc, run, local, runs, faults>>

Init ==
  /\ head = Bare /\ commits = {} /\ store = [k \in {} |-> {}]
  /\ pc = [a \in Actor |-> "idle"]
  /\ run = [a \in Actor |-> Absent]
  /\ tree = [a \in Actor |-> Bare] /\ base = [a \in Actor |-> Bare]
  /\ dir = [a \in Actor |-> {}] /\ waived = [a \in Actor |-> {}]
  /\ runs = 0 /\ faults = 0

\* A process that ends forgets its run.
Goto(a, label) ==
  /\ pc' = [pc EXCEPT ![a] = label]
  /\ run' = IF label = "idle" THEN [run EXCEPT ![a] = Absent] ELSE run
At(a, label) == pc[a] = label

\* A checkout, or a pull that discards what the clone has.  The runner of a
\* workflow run is fresh.
Checkout(a) ==
  /\ At(a, "idle") /\ runs < MaxRuns
  /\ tree' = [tree EXCEPT ![a] = head] /\ base' = [base EXCEPT ![a] = head]
  /\ waived' = [waived EXCEPT ![a] = {}]
  /\ dir' = IF a = "workflow" THEN [dir EXCEPT ![a] = {}] ELSE dir
  /\ Goto(a, "ready")
  /\ UNCHANGED <<head, commits, store, runs, faults>>

\* A person may go on in the clone as it is.
GoOn(a) ==
  /\ a = "person" /\ At(a, "idle") /\ runs < MaxRuns
  /\ Goto(a, "ready")
  /\ UNCHANGED <<head, commits, store, local, runs, faults>>

Saved(a, s) == IF KeepDir THEN dir[a] \cup s ELSE s

\* fetch_source.  The bundles are saved before anything is built from them.
Fetch(a) ==
  /\ At(a, "ready") /\ runs < MaxRuns /\ runs' = runs + 1
  /\ \E v \in Version, s \in SUBSET Bundle \ {{}}, u \in Shard, allow \in BOOLEAN :
       /\ run' = [run EXCEPT ![a] =
            [version |-> v, set |-> s, shard |-> u, authoritative |-> TRUE, allow_shrink |-> allow]]
       /\ dir' = [dir EXCEPT ![a] = Saved(a, s)]
  /\ pc' = [pc EXCEPT ![a] = "build"]
  /\ UNCHANGED <<head, commits, store, tree, base, waived, faults>>

Name_byVersion(v, s) == v  \* mutant: the name without the content hash

\* bundles-<version>-<setHash>
Name(v, s) == <<v, s>>
Published(v, s) == Name(v, s) \in DOMAIN store
Restorable(l) == /\ l \notin Unreadable
                 /\ Published(l.version, l.set)
                 /\ store[Name(l.version, l.set)] = l.set

\* restore --from-lock, then update --bundles with the lock's release: the set
\* is verified against the lock, and the lock is not rewritten.
Regenerate(a) ==
  /\ a = "person" /\ At(a, "ready") /\ runs < MaxRuns /\ runs' = runs + 1
  /\ Restorable(tree[a].lock)
  /\ \E allow \in BOOLEAN :
       run' = [run EXCEPT ![a] =
         [version |-> tree[a].lock.version, set |-> tree[a].lock.set,
          shard |-> tree[a].lock.shard, authoritative |-> FALSE, allow_shrink |-> allow]]
  /\ pc' = [pc EXCEPT ![a] = "build"]
  /\ UNCHANGED <<head, commits, store, tree, base, dir, waived, faults>>

Regressions_tolerant(m, s) ==  \* mutant: a drop of one is let pass
  IF m \in Unreadable THEN {} ELSE {d \in Domain : Counts(s)[d] + 1 < m.counts[d]}

\* check_floor: the domains whose count is below that of the manifest on disk.
Regressions(m, s) ==
  IF m \in Unreadable THEN {} ELSE {d \in Domain : Counts(s)[d] < m.counts[d]}

Waiver(m, shrunk) == (IF shrunk # {} THEN {"told"} ELSE {}) \cup (IF m = Torn THEN {"torn"} ELSE {})

\* build_artifacts fails if a domain comes out empty; then the floor guard.
Guard(a) ==
  LET shrunk == Regressions(tree[a].manifest, run[a].set)
      empty == \E d \in Domain : Counts(run[a].set)[d] = 0
  IN
  /\ At(a, "build")
  /\ IF empty \/ (shrunk # {} /\ ~run[a].allow_shrink)
     THEN Goto(a, "idle") /\ UNCHANGED waived
     ELSE /\ Goto(a, "artifacts")
          /\ waived' = [waived EXCEPT ![a] = @ \cup Waiver(tree[a].manifest, shrunk)]
  /\ UNCHANGED <<head, commits, store, tree, base, dir, runs, faults>>

\* The files are rewritten in place, one after the other.
WriteArtifacts(a) ==
  /\ At(a, "artifacts")
  /\ tree' = [tree EXCEPT ![a].artifacts = Artifacts(run[a].version, run[a].set)]
  /\ Goto(a, "manifest")
  /\ UNCHANGED <<head, commits, store, base, dir, waived, runs, faults>>

WriteManifest(a) ==
  /\ At(a, "manifest")
  /\ tree' = [tree EXCEPT ![a].manifest = Manifest(run[a].version, run[a].set)]
  /\ Goto(a, IF run[a].authoritative THEN "lock" ELSE "updated")
  /\ UNCHANGED <<head, commits, store, base, dir, waived, runs, faults>>

NewLock_first(a) ==  \* mutant: only the first run writes the lock
  IF tree[a].lock \in Unreadable THEN Lock(run[a].version, run[a].set, run[a].shard) ELSE tree[a].lock

NewLock(a) == Lock(run[a].version, run[a].set, run[a].shard)

WriteLock(a) ==
  /\ At(a, "lock")
  /\ tree' = [tree EXCEPT ![a].lock = NewLock(a)]
  /\ Goto(a, "updated")
  /\ UNCHANGED <<head, commits, store, base, dir, waived, runs, faults>>

\* Nothing to commit, or something to publish.  After a regeneration there is
\* no new set to publish.
Updated(a) ==
  /\ At(a, "updated")
  /\ Goto(a, IF tree[a] = base[a] THEN "idle"
             ELSE IF run[a].authoritative THEN "publish" ELSE "push")
  /\ UNCHANGED <<head, commits, store, local, runs, faults>>

AssetOf(a) == Name(tree[a].manifest.version, tree[a].lock.set)

\* gh release upload --clobber deletes the asset of that name first ...
Clobber(a) ==
  /\ At(a, "publish")
  /\ store' = [k \in DOMAIN store \ {AssetOf(a)} |-> store[k]]
  /\ Goto(a, "upload")
  /\ UNCHANGED <<head, commits, local, runs, faults>>

\* ... and then uploads; a name that is taken by now is refused.  The archive
\* is the whole directory.
Upload(a) ==
  /\ At(a, "upload")
  /\ IF AssetOf(a) \in DOMAIN store
     THEN Goto(a, "idle") /\ UNCHANGED store
     ELSE /\ store' = [k \in DOMAIN store \cup {AssetOf(a)} |->
                         IF k = AssetOf(a) THEN dir[a] ELSE store[k]]
          /\ Goto(a, "push")
  /\ UNCHANGED <<head, commits, local, runs, faults>>

\* git commit and git push; a push on a main that has moved is rejected.
Push(a) ==
  /\ At(a, "push")
  /\ IF head = base[a]
     THEN /\ head' = tree[a] /\ commits' = commits \cup {tree[a]}
          /\ base' = [base EXCEPT ![a] = tree[a]]
          /\ waived' = [waived EXCEPT ![a] = {}]
     ELSE UNCHANGED <<head, commits, base, waived>>
  /\ Goto(a, "idle")
  /\ UNCHANGED <<store, tree, dir, runs, faults>>

\* The process is killed, the workflow cancelled by a new dispatch, or a call
\* fails; the file being written may be torn.
Crash(a) ==
  /\ a \in Crashers /\ ~At(a, "idle") /\ (At(a, "upload") => CutUploads)
  /\ faults < MaxFaults /\ faults' = faults + 1
  /\ \/ UNCHANGED tree
     \/ \E f \in {"artifacts", "manifest", "lock"} :
          At(a, f) /\ tree' = [tree EXCEPT ![a][f] = Torn]
  /\ Goto(a, "idle")
  /\ UNCHANGED <<head, commits, store, base, dir, waived, runs>>

Step(a) ==
  \/ Checkout(a) \/ GoOn(a) \/ Fetch(a) \/ Regenerate(a) \/ Guard(a)
  \/ WriteArtifacts(a) \/ WriteManifest(a) \/ WriteLock(a) \/ Updated(a)
  \/ Clobber(a) \/ Upload(a) \/ Push(a) \/ Crash(a)

Next == \E a \in Actor : Step(a)
Spec == Init /\ [][Next]_vars

-----------------------------------------------------------------------------
TypeOK ==
  /\ head \in Tree /\ commits \subseteq Tree
  /\ DOMAIN store \subseteq Version \X SUBSET Bundle
  /\ \A k \in DOMAIN store : store[k] \subseteq Bundle
  /\ pc \in [Actor -> {"idle", "ready", "build", "artifacts", "manifest", "lock",
                       "updated", "publish", "upload", "push"}]
  /\ run \in [Actor -> Run \cup {Absent}]
  /\ tree \in [Actor -> Tree] /\ base \in [Actor -> Tree]
  /\ dir \in [Actor -> SUBSET Bundle] /\ waived \in [Actor -> SUBSET {"told", "torn"}]
  /\ runs \in 0..MaxRuns /\ faults \in 0..MaxFaults

\* The lock names the release of the manifest, and its set generates the files.
Generated(t) ==
  /\ t.lock \notin Unreadable
  /\ t.manifest = Manifest(t.lock.version, t.lock.set)
  /\ t.artifacts = Artifacts(t.lock.version, t.lock.set)

\* regen.sh: the archive of the lock can be had and holds the locked set, and
\* that set generates the committed files.
GatePasses(t) == Restorable(t.lock) /\ Generated(t)

UnderWay(t) == \E a \in Actor : At(a, "upload") /\ AssetOf(a) = Name(t.lock.version, t.lock.set)

(* Every commit main ever had passes the reproducibility gate, except while    *)
(* its own asset is being uploaded again: whatever runs were cut before it,    *)
(* its files are of one run, and no later publish takes its archive away.      *)
EveryCommitPassesTheGate == \A t \in commits : GatePasses(t) \/ UnderWay(t)

(* The same, said of the archive alone, when nobody is publishing.             *)
EveryCommitIsRetrievable ==
  (\A a \in Actor : ~At(a, "upload")) => \A t \in commits : Restorable(t.lock)

(* An asset holds the set its name says: publishing again replaces an archive  *)
(* with the same bundles or not at all.                                        *)
AssetsAreWhatTheyAreNamed == \A k \in DOMAIN store : store[k] = k[2]

Kept(old, new) == old = Bare \/ \A d \in Domain : new.manifest.counts[d] >= old.manifest.counts[d]

(* No domain of main shrinks in a push unless a run was told to accept it or  *)
(* found a torn manifest: the floor guard compares with a working tree, and    *)
(* that is as good as comparing with main, whoever else pushes meanwhile.      *)
MainNeverShrinks ==
  [][\A a \in Actor : Push(a) /\ waived[a] = {} => Kept(head, head')]_vars

(* The sets that can be had: an asset of their name holds them, or is being    *)
(* uploaded from a directory that does.                                        *)
Stored(k) == Published(k[1], k[2]) /\ store[Name(k[1], k[2])] = k[2]
Coming(a) == At(a, "upload") /\ AssetOf(a) = Name(tree[a].manifest.version, dir[a])
Obtainable ==
  {k \in Version \X {store[name] : name \in DOMAIN store} : Stored(k)}
  \cup {<<tree[a].manifest.version, dir[a]>> : a \in {b \in Actor : Coming(b)}}

PinOf(t) == IF Generated(t) THEN <<t.lock.version, t.lock.set>> ELSE Absent

Promise == INSTANCE PinnedSets WITH
  obtainable <- Obtainable, pinned <- {PinOf(t) : t \in commits}, head <- PinOf(head)

(* publish-bundles.sh:22-27: files that are rewritten one by one, assets that  *)
(* are deleted and uploaded again, and pushes that race amount to a main that  *)
(* moves in one step from one whole set to another, each to be had for good.   *)
ImplementsPinnedSets == Promise!Spec
=============================================================================
