---------------------------- MODULE PublishProofs ----------------------------
(***************************************************************************)
(* What reaches main, for any actors, releases, bundles and domains, and   *)
(* any number of runs and cuts.                                            *)
(***************************************************************************)
EXTENDS Publish, FiniteSetTheorems, TLAPS

Underway == {"build", "artifacts", "manifest", "lock", "updated", "publish", "upload", "push"}

\* What a run has in memory and what it has written so far are one set's.
RunFits(a) ==
  /\ pc[a] \in Underway => run[a] \in Run
  /\ pc[a] \in Underway /\ ~run[a].authoritative =>
       /\ tree[a].lock \notin Unreadable
       /\ tree[a].lock.version = run[a].version /\ tree[a].lock.set = run[a].set
  /\ pc[a] \in {"lock", "publish", "upload"} => run[a].authoritative

TreeFits(a) ==
  /\ pc[a] \in Underway \ {"build", "artifacts"} =>
       tree[a].artifacts = Artifacts(run[a].version, run[a].set)
  /\ pc[a] \in Underway \ {"build", "artifacts", "manifest"} =>
       tree[a].manifest = Manifest(run[a].version, run[a].set)
  /\ pc[a] \in Underway \ {"build", "artifacts", "manifest", "lock"} =>
       /\ tree[a].lock \notin Unreadable
       /\ tree[a].lock.version = run[a].version /\ tree[a].lock.set = run[a].set

Inv == TypeOK /\ \A a \in Actor : RunFits(a) /\ TreeFits(a)

-----------------------------------------------------------------------------
(* Types. *)

LEMMA CountsAreNat == ASSUME NEW s \in SUBSET Bundle PROVE Counts(s) \in [Domain -> Nat]
<1>1. ASSUME NEW d \in Domain PROVE Cardinality({b \in s : DomainOf[b] = d}) \in Nat
  <2>1. IsFiniteSet({b \in s : DomainOf[b] = d})
    BY PublishAssumption, FS_Subset, {b \in s : DomainOf[b] = d} \in SUBSET Bundle
  <2> QED BY <2>1, FS_CardinalityType
<1> QED BY <1>1 DEF Counts

ArtifactFiles == [version : Version, from : SUBSET Bundle]
ManifestFiles == [version : Version, counts : [Domain -> Nat]]
LockFiles == [version : Version, set : SUBSET Bundle, shard : Shard]

LEMMA FileTypes ==
  ASSUME NEW r \in Run
  PROVE  /\ Artifacts(r.version, r.set) \in ArtifactFiles
         /\ Manifest(r.version, r.set) \in ManifestFiles
         /\ Lock(r.version, r.set, r.shard) \in LockFiles
         /\ Artifacts(r.version, r.set) \notin Unreadable
         /\ Manifest(r.version, r.set) \notin Unreadable
         /\ Lock(r.version, r.set, r.shard) \notin Unreadable
<1>1. r.version \in Version /\ r.set \in SUBSET Bundle /\ r.shard \in Shard
  BY DEF Run
<1>2. Counts(r.set) \in [Domain -> Nat]
  BY <1>1, CountsAreNat
<1> QED BY <1>1, <1>2, SentinelAssumption
  DEF Artifacts, Manifest, Lock, ArtifactFiles, ManifestFiles, LockFiles

LEMMA TreeType == Tree = [artifacts : ArtifactFiles \cup Unreadable,
                          manifest : ManifestFiles \cup Unreadable,
                          lock : LockFiles \cup Unreadable]
BY DEF Tree, ArtifactFiles, ManifestFiles, LockFiles

\* A step changes what its actor has, and nobody else's.
LEMMA OthersKeep ==
  ASSUME TypeOK, NEW a \in Actor, Step(a), NEW b \in Actor, b # a
  PROVE  /\ pc'[b] = pc[b] /\ run'[b] = run[b]
         /\ tree'[b] = tree[b] /\ base'[b] = base[b] /\ dir'[b] = dir[b] /\ waived'[b] = waived[b]
<1> DEFINE Keep == /\ pc'[b] = pc[b] /\ run'[b] = run[b]
                   /\ tree'[b] = tree[b] /\ base'[b] = base[b]
                   /\ dir'[b] = dir[b] /\ waived'[b] = waived[b]
<1> USE DEF Goto, local
<1>1. CASE Checkout(a) BY <1>1 DEF Checkout, TypeOK
<1>2. CASE GoOn(a) BY <1>2 DEF GoOn, TypeOK
<1>3. CASE Fetch(a) BY <1>3 DEF Fetch, TypeOK
<1>4. CASE Regenerate(a) BY <1>4 DEF Regenerate, TypeOK
<1>5. CASE Guard(a) BY <1>5 DEF Guard, TypeOK
<1>6. CASE WriteArtifacts(a) BY <1>6 DEF WriteArtifacts, TypeOK
<1>7. CASE WriteManifest(a) BY <1>7 DEF WriteManifest, TypeOK
<1>8. CASE WriteLock(a) BY <1>8 DEF WriteLock, TypeOK
<1>9. CASE Updated(a) BY <1>9 DEF Updated, TypeOK
<1>10. CASE Clobber(a) BY <1>10 DEF Clobber, TypeOK
<1>11. CASE Upload(a) BY <1>11 DEF Upload, TypeOK
<1>12. CASE Push(a) BY <1>12 DEF Push, TypeOK
<1>13. CASE Crash(a) BY <1>13 DEF Crash, TypeOK
<1> QED BY <1>1, <1>2, <1>3, <1>4, <1>5, <1>6, <1>7, <1>8, <1>9, <1>10, <1>11, <1>12, <1>13 DEF Step

\* What the invariant says of the step's own actor is enough.
LEMMA OthersFit ==
  ASSUME Inv, NEW a \in Actor, Step(a), TypeOK', RunFits(a)', TreeFits(a)'
  PROVE  Inv'
<1>1. ASSUME NEW b \in Actor, b # a PROVE RunFits(b)' /\ TreeFits(b)'
  <2>1. /\ pc'[b] = pc[b] /\ run'[b] = run[b] /\ tree'[b] = tree[b]
    BY <1>1, OthersKeep DEF Inv
  <2>2. RunFits(b) /\ TreeFits(b)
    BY DEF Inv
  <2> QED BY <2>1, <2>2 DEF RunFits, TreeFits
<1> QED BY <1>1 DEF Inv

-----------------------------------------------------------------------------
(* Each step. *)

LEMMA InitInv == Init => Inv
<1>1. Bare \in Tree
  BY DEF Bare, Tree, Unreadable
<1>2. Init => TypeOK
  BY <1>1, PublishAssumption DEF Init, TypeOK
<1>3. Init => \A a \in Actor : RunFits(a) /\ TreeFits(a)
  BY DEF Init, RunFits, TreeFits, Underway
<1> QED BY <1>2, <1>3 DEF Inv

LEMMA CheckoutInv == ASSUME Inv, NEW a \in Actor, Checkout(a) PROVE Inv'
<1>1. pc'[a] = "ready"
  BY DEF Checkout, Goto, Inv, TypeOK
<1>2. TypeOK'
  BY DEF Checkout, Goto, Inv, TypeOK
<1>3. RunFits(a)' /\ TreeFits(a)'
  BY <1>1 DEF RunFits, TreeFits, Underway
<1> QED BY <1>2, <1>3, OthersFit DEF Step

LEMMA GoOnInv == ASSUME Inv, NEW a \in Actor, GoOn(a) PROVE Inv'
<1>1. pc'[a] = "ready"
  BY DEF GoOn, Goto, Inv, TypeOK
<1>2. TypeOK'
  BY DEF GoOn, Goto, Inv, TypeOK, local
<1>3. RunFits(a)' /\ TreeFits(a)'
  BY <1>1 DEF RunFits, TreeFits, Underway
<1> QED BY <1>2, <1>3, OthersFit DEF Step

LEMMA FetchInv == ASSUME Inv, NEW a \in Actor, Fetch(a) PROVE Inv'
<1>1. PICK v \in Version, s \in SUBSET Bundle \ {{}}, u \in Shard, allow \in BOOLEAN :
        /\ run' = [run EXCEPT ![a] = [version |-> v, set |-> s, shard |-> u,
                                      authoritative |-> TRUE, allow_shrink |-> allow]]
        /\ dir' = [dir EXCEPT ![a] = Saved(a, s)]
  BY DEF Fetch
<1>2. /\ pc' = [pc EXCEPT ![a] = "build"] /\ runs' = runs + 1 /\ runs < MaxRuns
      /\ UNCHANGED <<head, commits, store, tree, base, waived, faults>>
  BY DEF Fetch
<1>3. pc'[a] = "build" /\ run'[a] \in Run /\ run'[a].authoritative
  BY <1>1, <1>2 DEF Inv, TypeOK, Run
<1>4. Saved(a, s) \in SUBSET Bundle
  BY DEF Saved, Inv, TypeOK
<1>5. TypeOK'
  <2>1. run' \in [Actor -> Run \cup {Absent}] /\ dir' \in [Actor -> SUBSET Bundle]
    BY <1>1, <1>3, <1>4 DEF Inv, TypeOK
  <2>2. runs' \in 0..MaxRuns
    BY <1>2, PublishAssumption DEF Inv, TypeOK
  <2> QED BY <1>2, <2>1, <2>2 DEF Inv, TypeOK
<1>6. RunFits(a)' /\ TreeFits(a)'
  BY <1>3 DEF RunFits, TreeFits, Underway
<1> QED BY <1>5, <1>6, OthersFit DEF Step

LEMMA RegenerateInv == ASSUME Inv, NEW a \in Actor, Regenerate(a) PROVE Inv'
<1> DEFINE l == tree[a].lock
<1>1. PICK allow \in BOOLEAN :
        run' = [run EXCEPT ![a] = [version |-> l.version, set |-> l.set, shard |-> l.shard,
                                   authoritative |-> FALSE, allow_shrink |-> allow]]
  BY DEF Regenerate
<1>2. /\ pc' = [pc EXCEPT ![a] = "build"] /\ runs' = runs + 1 /\ runs < MaxRuns
      /\ UNCHANGED <<head, commits, store, tree, base, dir, waived, faults>>
      /\ l \notin Unreadable
  BY DEF Regenerate, Restorable
<1>3. l \in LockFiles
  BY <1>2, TreeType DEF Inv, TypeOK
<1>4. /\ pc'[a] = "build" /\ run'[a] \in Run /\ ~run'[a].authoritative
      /\ run'[a].version = l.version /\ run'[a].set = l.set
  BY <1>1, <1>2, <1>3 DEF Inv, TypeOK, Run, LockFiles
<1>5. TypeOK'
  <2>1. run' \in [Actor -> Run \cup {Absent}]
    BY <1>1, <1>4 DEF Inv, TypeOK
  <2>2. runs' \in 0..MaxRuns
    BY <1>2, PublishAssumption DEF Inv, TypeOK
  <2> QED BY <1>2, <2>1, <2>2 DEF Inv, TypeOK
<1>6. tree'[a].lock = l
  BY <1>2
<1>7. RunFits(a)' /\ TreeFits(a)'
  BY <1>2, <1>4, <1>6 DEF RunFits, TreeFits, Underway
<1> QED BY <1>5, <1>7, OthersFit DEF Step

LEMMA GuardInv == ASSUME Inv, NEW a \in Actor, Guard(a) PROVE Inv'
<1>1. /\ pc[a] = "build" /\ UNCHANGED <<head, commits, store, tree, base, dir, runs, faults>>
      /\ \/ Goto(a, "idle") /\ UNCHANGED waived
         \/ /\ Goto(a, "artifacts")
            /\ \E w \in SUBSET {"told", "torn"} : waived' = [waived EXCEPT ![a] = @ \cup w]
  <2>1. \A m, shrunk : Waiver(m, shrunk) \in SUBSET {"told", "torn"}
    BY DEF Waiver
  <2> QED BY <2>1 DEF Guard, At
<1>2. TypeOK'
  BY <1>1 DEF Goto, Inv, TypeOK
<1>3. pc'[a] = "idle" \/ (pc'[a] = "artifacts" /\ run'[a] = run[a] /\ tree'[a] = tree[a])
  BY <1>1 DEF Goto, Inv, TypeOK
<1>4. RunFits(a)' /\ TreeFits(a)'
  BY <1>1, <1>3 DEF Inv, RunFits, TreeFits, Underway
<1> QED BY <1>2, <1>4, OthersFit DEF Step

LEMMA WriteArtifactsInv == ASSUME Inv, NEW a \in Actor, WriteArtifacts(a) PROVE Inv'
<1> DEFINE r == run[a]
<1>1. /\ pc[a] = "artifacts" /\ pc' = [pc EXCEPT ![a] = "manifest"] /\ run' = run
      /\ tree' = [tree EXCEPT ![a].artifacts = Artifacts(r.version, r.set)]
      /\ UNCHANGED <<head, commits, store, base, dir, waived, runs, faults>>
  BY DEF WriteArtifacts, Goto, At
<1>2. RunFits(a) /\ r \in Run
  BY <1>1 DEF Inv, RunFits, Underway
<1>3. tree[a] \in Tree /\ tree \in [Actor -> Tree]
  BY DEF Inv, TypeOK
<1>4. tree'[a] = [tree[a] EXCEPT !.artifacts = Artifacts(r.version, r.set)]
  BY <1>1, <1>3
<1>5. /\ tree'[a] \in Tree /\ tree'[a].artifacts = Artifacts(r.version, r.set)
      /\ tree'[a].manifest = tree[a].manifest /\ tree'[a].lock = tree[a].lock
  BY <1>2, <1>3, <1>4, FileTypes, TreeType
<1>6. TypeOK'
  <2>1. tree' \in [Actor -> Tree]
    BY <1>1, <1>3, <1>5
  <2> QED BY <1>1, <2>1 DEF Inv, TypeOK
<1>7. pc'[a] = "manifest" /\ run'[a] = r
  BY <1>1 DEF Inv, TypeOK
<1>8. RunFits(a)' /\ TreeFits(a)'
  BY <1>1, <1>2, <1>5, <1>7 DEF RunFits, TreeFits, Underway
<1> QED BY <1>6, <1>8, OthersFit DEF Step

LEMMA WriteManifestInv == ASSUME Inv, NEW a \in Actor, WriteManifest(a) PROVE Inv'
<1> DEFINE r == run[a]
<1>1. /\ pc[a] = "manifest" /\ run' = run
      /\ pc' = [pc EXCEPT ![a] = IF r.authoritative THEN "lock" ELSE "updated"]
      /\ tree' = [tree EXCEPT ![a].manifest = Manifest(r.version, r.set)]
      /\ UNCHANGED <<head, commits, store, base, dir, waived, runs, faults>>
  BY DEF WriteManifest, Goto, At
<1>2. RunFits(a) /\ TreeFits(a) /\ r \in Run
  BY <1>1 DEF Inv, RunFits, Underway
<1>3. tree[a] \in Tree /\ tree \in [Actor -> Tree]
  BY DEF Inv, TypeOK
<1>4. tree'[a] = [tree[a] EXCEPT !.manifest = Manifest(r.version, r.set)]
  BY <1>1, <1>3
<1>5. /\ tree'[a] \in Tree /\ tree'[a].manifest = Manifest(r.version, r.set)
      /\ tree'[a].artifacts = tree[a].artifacts /\ tree'[a].lock = tree[a].lock
  BY <1>2, <1>3, <1>4, FileTypes, TreeType
<1>6. TypeOK'
  <2>1. tree' \in [Actor -> Tree]
    BY <1>1, <1>3, <1>5
  <2>2. pc' \in [Actor -> {"idle", "ready", "build", "artifacts", "manifest", "lock",
                           "updated", "publish", "upload", "push"}]
    BY <1>1 DEF Inv, TypeOK
  <2> QED BY <1>1, <2>1, <2>2 DEF Inv, TypeOK
<1>7. /\ run'[a] = r
      /\ \/ pc'[a] = "lock" /\ r.authoritative
         \/ pc'[a] = "updated" /\ ~r.authoritative
  BY <1>1 DEF Inv, TypeOK
<1>8. RunFits(a)' /\ TreeFits(a)'
  BY <1>1, <1>2, <1>5, <1>7 DEF RunFits, TreeFits, Underway
<1> QED BY <1>6, <1>8, OthersFit DEF Step

LEMMA WriteLockInv == ASSUME Inv, NEW a \in Actor, WriteLock(a) PROVE Inv'
<1> DEFINE r == run[a]
<1>1. /\ pc[a] = "lock" /\ pc' = [pc EXCEPT ![a] = "updated"] /\ run' = run
      /\ tree' = [tree EXCEPT ![a].lock = Lock(r.version, r.set, r.shard)]
      /\ UNCHANGED <<head, commits, store, base, dir, waived, runs, faults>>
  BY DEF WriteLock, Goto, At, NewLock
<1>2. RunFits(a) /\ TreeFits(a) /\ r \in Run
  BY <1>1 DEF Inv, RunFits, Underway
<1>3. tree[a] \in Tree /\ tree \in [Actor -> Tree]
  BY DEF Inv, TypeOK
<1>4. tree'[a] = [tree[a] EXCEPT !.lock = Lock(r.version, r.set, r.shard)]
  BY <1>1, <1>3
<1>5. /\ tree'[a] \in Tree /\ tree'[a].lock = Lock(r.version, r.set, r.shard)
      /\ tree'[a].artifacts = tree[a].artifacts /\ tree'[a].manifest = tree[a].manifest
  BY <1>2, <1>3, <1>4, FileTypes, TreeType
<1>6. /\ tree'[a].lock \notin Unreadable
      /\ tree'[a].lock.version = r.version /\ tree'[a].lock.set = r.set
  BY <1>2, <1>5, FileTypes DEF Lock
<1>7. TypeOK'
  <2>1. tree' \in [Actor -> Tree]
    BY <1>1, <1>3, <1>5
  <2> QED BY <1>1, <2>1 DEF Inv, TypeOK
<1>8. pc'[a] = "updated" /\ run'[a] = r
  BY <1>1 DEF Inv, TypeOK
<1>9. RunFits(a)' /\ TreeFits(a)'
  BY <1>1, <1>2, <1>5, <1>6, <1>8 DEF RunFits, TreeFits, Underway
<1> QED BY <1>7, <1>9, OthersFit DEF Step

LEMMA UpdatedInv == ASSUME Inv, NEW a \in Actor, Updated(a) PROVE Inv'
<1>1. /\ pc[a] = "updated" /\ UNCHANGED <<head, commits, store, tree, base, dir, waived, runs, faults>>
      /\ \/ Goto(a, "idle")
         \/ Goto(a, "publish") /\ run[a].authoritative
         \/ Goto(a, "push") /\ ~run[a].authoritative
  BY DEF Updated, At, local
<1>2. TypeOK'
  BY <1>1 DEF Goto, Inv, TypeOK
<1>3. \/ pc'[a] = "idle"
      \/ pc'[a] = "publish" /\ run[a].authoritative /\ run'[a] = run[a] /\ tree'[a] = tree[a]
      \/ pc'[a] = "push" /\ run'[a] = run[a] /\ tree'[a] = tree[a]
  BY <1>1 DEF Goto, Inv, TypeOK
<1>4. RunFits(a)' /\ TreeFits(a)'
  BY <1>1, <1>3 DEF Inv, RunFits, TreeFits, Underway
<1> QED BY <1>2, <1>4, OthersFit DEF Step

\* From publish on, the asset is named after the run.
LEMMA AssetOfRun ==
  ASSUME Inv, NEW a \in Actor, pc[a] \in {"publish", "upload"}
  PROVE  /\ AssetOf(a) = Name(run[a].version, run[a].set) /\ run[a] \in Run
         /\ AssetOf(a) = Name(tree[a].lock.version, tree[a].lock.set)
         /\ AssetOf(a) \in Version \X SUBSET Bundle
<1>1. RunFits(a) /\ TreeFits(a)
  BY DEF Inv
<1>2. /\ tree[a].manifest = Manifest(run[a].version, run[a].set) /\ run[a] \in Run
      /\ tree[a].lock.version = run[a].version /\ tree[a].lock.set = run[a].set
  BY <1>1 DEF RunFits, TreeFits, Underway
<1>3. tree[a].manifest.version = run[a].version
  BY <1>2 DEF Manifest
<1> QED BY <1>2, <1>3 DEF AssetOf, Name, Run

LEMMA ClobberInv == ASSUME Inv, NEW a \in Actor, Clobber(a) PROVE Inv'
<1>1. /\ pc[a] = "publish" /\ Goto(a, "upload")
      /\ store' = [k \in DOMAIN store \ {AssetOf(a)} |-> store[k]]
      /\ UNCHANGED <<head, commits, tree, base, dir, waived, runs, faults>>
  BY DEF Clobber, At, local
<1>2. DOMAIN store' \subseteq DOMAIN store /\ \A k \in DOMAIN store' : store'[k] = store[k]
  BY <1>1
<1>3. pc'[a] = "upload" /\ run' = run /\ pc' = [pc EXCEPT ![a] = "upload"]
  BY <1>1 DEF Goto, Inv, TypeOK
<1>4. TypeOK'
  BY <1>1, <1>2, <1>3 DEF Inv, TypeOK
<1>5. RunFits(a)' /\ TreeFits(a)'
  BY <1>1, <1>3 DEF Inv, RunFits, TreeFits, Underway
<1> QED BY <1>4, <1>5, OthersFit DEF Step

\* The two ways an upload ends.
LEMMA UploadEnds ==
  ASSUME Inv, NEW a \in Actor, Upload(a)
  PROVE  /\ pc[a] = "upload" /\ UNCHANGED <<head, commits, tree, base, dir, waived, runs, faults>>
         /\ \/ AssetOf(a) \in DOMAIN store /\ Goto(a, "idle") /\ store' = store
            \/ /\ AssetOf(a) \notin DOMAIN store
               /\ pc' = [pc EXCEPT ![a] = "push"] /\ run' = run
               /\ DOMAIN store' = DOMAIN store \cup {AssetOf(a)}
               /\ store'[AssetOf(a)] = dir[a]
               /\ \A k \in DOMAIN store : store'[k] = store[k]
BY DEF Upload, At, Goto, local

LEMMA UploadInv == ASSUME Inv, NEW a \in Actor, Upload(a) PROVE Inv'
<1>1. pc[a] = "upload" /\ UNCHANGED <<head, commits, tree, base, dir, waived, runs, faults>>
  BY UploadEnds
<1>2. CASE AssetOf(a) \in DOMAIN store /\ Goto(a, "idle") /\ store' = store
  <2>1. TypeOK' /\ pc'[a] = "idle"
    BY <1>1, <1>2 DEF Goto, Inv, TypeOK
  <2>2. RunFits(a)' /\ TreeFits(a)'
    BY <2>1 DEF RunFits, TreeFits, Underway
  <2> QED BY <2>1, <2>2, OthersFit DEF Step
<1>3. CASE /\ AssetOf(a) \notin DOMAIN store
           /\ pc' = [pc EXCEPT ![a] = "push"] /\ run' = run
           /\ DOMAIN store' = DOMAIN store \cup {AssetOf(a)}
           /\ store'[AssetOf(a)] = dir[a]
           /\ \A k \in DOMAIN store : store'[k] = store[k]
  <2>1. DOMAIN store' \subseteq Version \X SUBSET Bundle
    BY <1>1, <1>3, AssetOfRun DEF Inv, TypeOK
  <2>2. \A k \in DOMAIN store' : store'[k] \subseteq Bundle
    BY <1>3 DEF Inv, TypeOK
  <2>3. TypeOK' /\ pc'[a] = "push"
    BY <1>1, <1>3, <2>1, <2>2 DEF Inv, TypeOK
  <2>4. RunFits(a)' /\ TreeFits(a)'
    BY <1>1, <1>3, <2>3 DEF Inv, RunFits, TreeFits, Underway
  <2> QED BY <2>3, <2>4, OthersFit DEF Step
<1> QED BY <1>2, <1>3, UploadEnds

LEMMA PushInv == ASSUME Inv, NEW a \in Actor, Push(a) PROVE Inv'
<1>1. pc'[a] = "idle"
  BY DEF Push, Goto, Inv, TypeOK
<1>2. TypeOK'
  BY DEF Push, Goto, Inv, TypeOK
<1>3. RunFits(a)' /\ TreeFits(a)'
  BY <1>1 DEF RunFits, TreeFits, Underway
<1> QED BY <1>2, <1>3, OthersFit DEF Step

LEMMA CrashInv == ASSUME Inv, NEW a \in Actor, Crash(a) PROVE Inv'
<1>1. pc'[a] = "idle"
  BY DEF Crash, Goto, Inv, TypeOK
<1>2. tree' \in [Actor -> Tree]
  <2>1. CASE UNCHANGED tree
    BY <2>1 DEF Inv, TypeOK
  <2>2. CASE \E f \in {"artifacts", "manifest", "lock"} : tree' = [tree EXCEPT ![a][f] = Torn]
    <3>1. PICK f \in {"artifacts", "manifest", "lock"} : tree' = [tree EXCEPT ![a][f] = Torn]
      BY <2>2
    <3>2. tree \in [Actor -> Tree] /\ tree[a] \in Tree
      BY DEF Inv, TypeOK
    <3>3. [tree[a] EXCEPT ![f] = Torn] \in Tree
      BY <3>2, TreeType DEF Unreadable
    <3> QED BY <3>1, <3>2, <3>3
  <2> QED BY <2>1, <2>2 DEF Crash
<1>3. TypeOK'
  <2>1. /\ faults < MaxFaults /\ faults' = faults + 1 /\ Goto(a, "idle")
        /\ UNCHANGED <<head, commits, store, base, dir, waived, runs>>
    BY DEF Crash
  <2>2. faults' \in 0..MaxFaults
    BY <2>1, PublishAssumption DEF Inv, TypeOK
  <2> QED BY <1>2, <2>1, <2>2 DEF Goto, Inv, TypeOK
<1>4. RunFits(a)' /\ TreeFits(a)'
  BY <1>1 DEF RunFits, TreeFits, Underway
<1> QED BY <1>3, <1>4, OthersFit DEF Step

LEMMA NextInv == Inv /\ [Next]_vars => Inv'
<1>1. ASSUME Inv, NEW a \in Actor, Step(a) PROVE Inv'
  BY <1>1, CheckoutInv, GoOnInv, FetchInv, RegenerateInv, GuardInv, WriteArtifactsInv,
     WriteManifestInv, WriteLockInv, UpdatedInv, ClobberInv, UploadInv, PushInv, CrashInv DEF Step
<1>2. ASSUME Inv, UNCHANGED vars PROVE Inv'
  BY <1>2 DEF vars, local, Inv, TypeOK, RunFits, TreeFits
<1> QED BY <1>1, <1>2 DEF Next

LEMMA InvHolds == Spec => []Inv
BY InitInv, NextInv, PTL DEF Spec

(* Every variable keeps its type, whoever publishes and is cut: in particular *)
(* an asset's name is always of a release and a set, never of a torn lock     *)
(* (publish-bundles.sh runs after an update that ended).                      *)
THEOREM TypeCorrect == Spec => []TypeOK
<1>1. Inv => TypeOK
  BY DEF Inv
<1> QED BY <1>1, InvHolds, PTL

-----------------------------------------------------------------------------
(* The floor guard. *)

\* What main has, and what a checkout takes from it, has a manifest or nothing.
Whole(t) == t = Bare \/ t.manifest \notin Unreadable

NoLess(new, old) == \A d \in Domain : new.counts[d] >= old.counts[d]

\* While nothing is waived, no domain of the working tree is below its base's,
\* unless the manifest is torn; and what the run has passed the guard with is
\* not below the working tree's.
Floor(a) ==
  waived[a] = {} /\ base[a] # Bare =>
    /\ tree[a].manifest # Torn =>
         tree[a].manifest \notin Unreadable /\ NoLess(tree[a].manifest, base[a].manifest)
    /\ pc[a] \in Underway \ {"build"} =>
         tree[a].manifest # Torn /\ NoLess(Manifest(run[a].version, run[a].set), tree[a].manifest)

FloorInv == Whole(head) /\ \A a \in Actor : Whole(base[a]) /\ Floor(a)

LEMMA NoLessOrder ==
  /\ \A m \in ManifestFiles : NoLess(m, m)
  /\ \A l, m, n \in ManifestFiles : NoLess(l, m) /\ NoLess(m, n) => NoLess(l, n)
<1>1. \A m \in ManifestFiles : \A d \in Domain : m.counts[d] \in Nat
  BY DEF ManifestFiles
<1> QED BY <1>1 DEF NoLess

LEMMA ReadableManifest ==
  ASSUME NEW t \in Tree, t.manifest \notin Unreadable
  PROVE  t.manifest \in ManifestFiles
BY TreeType

LEMMA OthersFloor ==
  ASSUME Inv, FloorInv, NEW a \in Actor, Step(a), Whole(head'), Whole(base'[a]), Floor(a)'
  PROVE  FloorInv'
<1>1. ASSUME NEW b \in Actor, b # a PROVE Whole(base'[b]) /\ Floor(b)'
  <2>1. /\ pc'[b] = pc[b] /\ run'[b] = run[b] /\ tree'[b] = tree[b]
        /\ base'[b] = base[b] /\ waived'[b] = waived[b]
    BY <1>1, OthersKeep DEF Inv
  <2>2. Whole(base[b]) /\ Floor(b)
    BY DEF FloorInv
  <2> QED BY <2>1, <2>2 DEF Floor
<1> QED BY <1>1 DEF FloorInv

\* A step that leaves the manifest, and passes no guard.
LEMMA QuietFloor ==
  ASSUME FloorInv, NEW a \in Actor,
         tree'[a].manifest = tree[a].manifest, base'[a] = base[a], waived'[a] = waived[a],
         \/ pc'[a] \in {"idle", "ready", "build"}
         \/ pc[a] \in Underway \ {"build"} /\ run'[a] = run[a]
  PROVE  Floor(a)'
BY DEF FloorInv, Floor, Underway

LEMMA CheckoutFloor == ASSUME Inv, FloorInv, NEW a \in Actor, Checkout(a) PROVE FloorInv'
<1>1. /\ head' = head /\ tree'[a] = head /\ base'[a] = head /\ pc'[a] = "ready"
  BY DEF Checkout, Goto, Inv, TypeOK
<1>2. Whole(head) /\ head \in Tree
  BY DEF FloorInv, Inv, TypeOK
<1>3. head # Bare => head.manifest \notin Unreadable /\ NoLess(head.manifest, head.manifest)
  BY <1>2, ReadableManifest, NoLessOrder DEF Whole
<1>4. Floor(a)'
  BY <1>1, <1>3 DEF Floor, Underway
<1> QED BY <1>1, <1>2, <1>4, OthersFloor DEF Step

LEMMA GuardFloor == ASSUME Inv, FloorInv, NEW a \in Actor, Guard(a) PROVE FloorInv'
<1> DEFINE m == tree[a].manifest
           r == run[a]
           shrunk == Regressions(m, r.set)
<1>1. pc[a] = "build" /\ UNCHANGED <<head, tree, base>>
  BY DEF Guard, At
<1>2. CASE pc'[a] = "idle" /\ waived' = waived
  BY <1>1, <1>2, QuietFloor, OthersFloor DEF Step, FloorInv
<1>3. CASE /\ pc'[a] = "artifacts" /\ run'[a] = r
           /\ waived'[a] = waived[a] \cup Waiver(m, shrunk)
  <2> SUFFICES ASSUME waived'[a] = {}, base[a] # Bare PROVE Floor(a)'
    BY <1>1, OthersFloor DEF Step, FloorInv, Floor
  <2>1. waived[a] = {} /\ shrunk = {} /\ m # Torn
    BY <1>3 DEF Waiver
  <2>2. m \notin Unreadable /\ NoLess(m, base[a].manifest)
    BY <2>1 DEF FloorInv, Floor
  <2>3. r \in Run /\ tree[a] \in Tree /\ m \in ManifestFiles
    BY <1>1, <2>2, ReadableManifest DEF Inv, TypeOK, RunFits, Underway
  <2>4. Counts(r.set) \in [Domain -> Nat]
    BY <2>3, CountsAreNat DEF Run
  <2>5. \A d \in Domain : Counts(r.set)[d] >= m.counts[d]
    BY <2>1, <2>2, <2>3, <2>4 DEF Regressions, ManifestFiles
  <2>6. NoLess(Manifest(r.version, r.set), m)
    BY <2>5 DEF NoLess, Manifest
  <2> QED BY <1>1, <1>3, <2>1, <2>2, <2>6 DEF Floor
<1> QED BY <1>2, <1>3 DEF Guard, Goto, Inv, TypeOK

LEMMA WriteManifestFloor == ASSUME Inv, FloorInv, NEW a \in Actor, WriteManifest(a) PROVE FloorInv'
<1> DEFINE r == run[a]
           new == Manifest(r.version, r.set)
<1>1. /\ pc[a] = "manifest" /\ run' = run /\ pc'[a] \in {"lock", "updated"}
      /\ tree'[a].manifest = new
      /\ UNCHANGED <<head, base, waived>>
  BY DEF WriteManifest, Goto, At, Inv, TypeOK, Tree
<1>2. r \in Run /\ new \in ManifestFiles /\ new \notin Unreadable
  BY <1>1, FileTypes DEF Inv, RunFits, Underway
<1>3. NoLess(new, new)
  BY <1>2, NoLessOrder
<1>4. ASSUME waived[a] = {}, base[a] # Bare PROVE NoLess(new, base[a].manifest)
  <2>1. tree[a].manifest # Torn /\ NoLess(new, tree[a].manifest)
    BY <1>1, <1>4 DEF FloorInv, Floor, Underway
  <2>2. tree[a].manifest \notin Unreadable /\ NoLess(tree[a].manifest, base[a].manifest)
    BY <1>4, <2>1 DEF FloorInv, Floor
  <2>3. tree[a].manifest \in ManifestFiles /\ base[a].manifest \in ManifestFiles
    BY <1>4, <2>2, ReadableManifest DEF FloorInv, Whole, Inv, TypeOK
  <2> QED BY <1>2, <2>1, <2>2, <2>3, NoLessOrder
<1>5. Floor(a)'
  BY <1>1, <1>2, <1>3, <1>4 DEF Floor, Unreadable
<1> QED BY <1>1, <1>5, OthersFloor DEF Step, FloorInv

LEMMA PushFloor == ASSUME Inv, FloorInv, NEW a \in Actor, Push(a) PROVE FloorInv'
<1>1. /\ pc[a] = "push" /\ pc'[a] = "idle" /\ tree' = tree
      /\ \/ head' = tree[a] /\ base'[a] = tree[a]
         \/ UNCHANGED <<head, base, waived>>
  BY DEF Push, Goto, At, Inv, TypeOK
<1>2. tree[a] \in Tree /\ tree[a].manifest \notin Unreadable
  BY <1>1, FileTypes DEF Inv, TypeOK, RunFits, TreeFits, Underway
<1>3. NoLess(tree[a].manifest, tree[a].manifest)
  BY <1>2, ReadableManifest, NoLessOrder
<1>4. CASE head' = tree[a] /\ base'[a] = tree[a]
  <2>1. Floor(a)'
    BY <1>1, <1>2, <1>3, <1>4 DEF Floor, Underway
  <2> QED BY <1>2, <1>4, <2>1, OthersFloor DEF Step, Whole
<1>5. CASE UNCHANGED <<head, base, waived>>
  BY <1>1, <1>5, QuietFloor, OthersFloor DEF Step, FloorInv
<1> QED BY <1>1, <1>4, <1>5

LEMMA CrashFloor == ASSUME Inv, FloorInv, NEW a \in Actor, Crash(a) PROVE FloorInv'
<1>1. pc'[a] = "idle" /\ UNCHANGED <<head, base, waived>>
  BY DEF Crash, Goto, Inv, TypeOK
<1>2. tree'[a].manifest = tree[a].manifest \/ tree'[a].manifest = Torn
  BY DEF Crash, Inv, TypeOK, Tree
<1>3. Floor(a)'
  BY <1>1, <1>2 DEF FloorInv, Floor, Underway
<1> QED BY <1>1, <1>3, OthersFloor DEF Step, FloorInv

\* The other steps leave the manifest, and pass no guard.
LEMMA QuietSteps ==
  ASSUME Inv, FloorInv, NEW a \in Actor,
         \/ GoOn(a) \/ Fetch(a) \/ Regenerate(a) \/ WriteArtifacts(a) \/ WriteLock(a)
         \/ Updated(a) \/ Clobber(a) \/ Upload(a)
  PROVE  FloorInv'
<1>1. /\ UNCHANGED <<head, base, waived>> /\ tree'[a].manifest = tree[a].manifest
      /\ \/ pc'[a] \in {"idle", "ready", "build"}
         \/ pc[a] \in Underway \ {"build"} /\ run'[a] = run[a]
  <2> USE DEF Goto, At, local, Underway
  <2>1. CASE GoOn(a) BY <2>1 DEF GoOn, Inv, TypeOK
  <2>2. CASE Fetch(a) BY <2>2 DEF Fetch, Inv, TypeOK
  <2>3. CASE Regenerate(a) BY <2>3 DEF Regenerate, Inv, TypeOK
  <2>4. CASE WriteArtifacts(a) BY <2>4 DEF WriteArtifacts, Inv, TypeOK, Tree
  <2>5. CASE WriteLock(a) BY <2>5 DEF WriteLock, Inv, TypeOK, Tree
  <2>6. CASE Updated(a) BY <2>6 DEF Updated, Inv, TypeOK
  <2>7. CASE Clobber(a) BY <2>7 DEF Clobber, Inv, TypeOK
  <2>8. CASE Upload(a) BY <2>8 DEF Upload, Inv, TypeOK
  <2> QED BY <2>1, <2>2, <2>3, <2>4, <2>5, <2>6, <2>7, <2>8
<1>2. Floor(a)' /\ Step(a)
  BY <1>1, QuietFloor DEF Step
<1> QED BY <1>1, <1>2, OthersFloor DEF FloorInv

LEMMA FloorHolds == Spec => [](Inv /\ FloorInv)
<1>1. Init => FloorInv
  BY DEF Init, FloorInv, Whole, Floor
<1>2. Inv /\ FloorInv /\ [Next]_vars => FloorInv'
  <2>1. ASSUME Inv, FloorInv, NEW a \in Actor, Step(a) PROVE FloorInv'
    BY <2>1, CheckoutFloor, GuardFloor, WriteManifestFloor, PushFloor, CrashFloor, QuietSteps DEF Step
  <2>2. ASSUME FloorInv, UNCHANGED vars PROVE FloorInv'
    BY <2>2 DEF vars, local, FloorInv, Floor
  <2> QED BY <2>1, <2>2 DEF Next
<1> QED BY <1>1, <1>2, InitInv, NextInv, PTL DEF Spec

(* main.rs check_floor: no domain of main shrinks in a push unless a run was  *)
(* told to accept it or found a torn manifest, whoever else pushes meanwhile. *)
THEOREM MainOnlyGrows == Spec => MainNeverShrinks
<1> DEFINE Grows == \A a \in Actor : Push(a) /\ waived[a] = {} => Kept(head, head')
<1>1. Inv /\ FloorInv /\ [Next]_vars => [Grows]_vars
  <2> SUFFICES ASSUME Inv, FloorInv, NEW a \in Actor, Push(a), waived[a] = {}, head # Bare
               PROVE  NoLess(head'.manifest, head.manifest)
    BY DEF Kept, NoLess
  <2>1. CASE head = base[a]
    <3>1. head' = tree[a] /\ pc[a] = "push"
      BY <2>1 DEF Push, At
    <3>2. tree[a].manifest # Torn
      BY <2>1, <3>1 DEF FloorInv, Floor, Underway
    <3> QED BY <2>1, <3>1, <3>2 DEF FloorInv, Floor
  <2>2. CASE head # base[a]
    <3>1. head' = head
      BY <2>2 DEF Push
    <3>2. head.manifest \in ManifestFiles
      BY ReadableManifest DEF FloorInv, Whole, Inv, TypeOK
    <3> QED BY <3>1, <3>2, NoLessOrder
  <2> QED BY <2>1, <2>2
<1>2. Spec => [][Grows]_vars
  BY <1>1, FloorHolds, PTL DEF Spec
<1> QED BY <1>2 DEF MainNeverShrinks

-----------------------------------------------------------------------------
(* The reproducibility gate, when uploads are not cut and a directory is used *)
(* once.                                                                      *)

\* An asset is there, or being put there.
Secured(k) == k \in DOMAIN store \/ \E b \in Actor : pc[b] = "upload" /\ AssetOf(b) = k

NameOf(a) == Name(run[a].version, run[a].set)

\* What a run publishes is what it has, and what it does not publish is there.
Sourced(a) ==
  /\ pc[a] \in Underway /\ run[a].authoritative => dir[a] = run[a].set
  /\ pc[a] \in Underway /\ (run[a].authoritative => pc[a] = "push") => Secured(NameOf(a))

Reproducible(t) ==
  /\ t.lock \notin Unreadable
  /\ t.manifest = Manifest(t.lock.version, t.lock.set)
  /\ t.artifacts = Artifacts(t.lock.version, t.lock.set)
  /\ Secured(Name(t.lock.version, t.lock.set))

GateInv ==
  /\ AssetsAreWhatTheyAreNamed
  /\ \A t \in commits : Reproducible(t)
  /\ \A a \in Actor : Sourced(a)

\* With other files, other actors' assets stay.
LEMMA OthersAsset ==
  ASSUME Inv, NEW a \in Actor, Step(a), NEW b \in Actor, b # a
  PROVE  AssetOf(b)' = AssetOf(b)
BY OthersKeep DEF Inv, AssetOf

\* What is secured stays so.
LEMMA SecuredStays ==
  ASSUME ~CutUploads, Inv, NEW a \in Actor, Step(a), NEW k, Secured(k)
  PROVE  Secured(k)'
<1>1. ASSUME NEW b \in Actor, b # a, pc[b] = "upload", AssetOf(b) = k PROVE Secured(k)'
  <2>1. pc'[b] = "upload"
    BY <1>1, OthersKeep DEF Inv
  <2>2. AssetOf(b)' = k
    BY <1>1, OthersAsset
  <2> QED BY <2>1, <2>2 DEF Secured
<1>2. CASE pc[a] = "upload" /\ AssetOf(a) = k
  <2>1. Upload(a)
    BY <1>2 DEF Step, Checkout, GoOn, Fetch, Regenerate, Guard, WriteArtifacts, WriteManifest,
                WriteLock, Updated, Clobber, Push, Crash, At
  <2> QED BY <1>2, <2>1, UploadEnds DEF Secured
<1>3. CASE k \in DOMAIN store
  <2>1. CASE Clobber(a)
    <3>1. CASE k = AssetOf(a)
      <4>1. pc'[a] = "upload" /\ tree' = tree
        BY <2>1 DEF Clobber, Goto, Inv, TypeOK, local
      <4>2. AssetOf(a)' = k
        BY <3>1, <4>1 DEF AssetOf
      <4> QED BY <4>1, <4>2 DEF Secured
    <3>2. CASE k # AssetOf(a)
      BY <1>3, <2>1, <3>2 DEF Clobber, Secured
    <3> QED BY <3>1, <3>2
  <2>2. CASE Upload(a)
    BY <1>3, <2>2, UploadEnds DEF Secured
  <2>3. CASE ~Clobber(a) /\ ~Upload(a)
    <3>1. store' = store
      BY <2>3 DEF Step, Checkout, GoOn, Fetch, Regenerate, Guard, WriteArtifacts, WriteManifest,
                  WriteLock, Updated, Push, Crash
    <3> QED BY <1>3, <3>1 DEF Secured
  <2> QED BY <2>1, <2>2, <2>3
<1> QED BY <1>1, <1>2, <1>3 DEF Secured

\* What the invariant says of the step's own actor, the assets and the new
\* commit is enough.
LEMMA OthersGate ==
  ASSUME ~CutUploads, Inv, GateInv, NEW a \in Actor, Step(a),
         AssetsAreWhatTheyAreNamed', Sourced(a)',
         \A t \in commits' : t \in commits \/ Reproducible(t)'
  PROVE  GateInv'
<1>1. ASSUME NEW t \in commits PROVE Reproducible(t)'
  <2>1. Reproducible(t)
    BY DEF GateInv
  <2>2. Secured(Name(t.lock.version, t.lock.set))'
    BY <2>1, SecuredStays DEF Reproducible
  <2> QED BY <2>1, <2>2 DEF Reproducible
<1>2. ASSUME NEW b \in Actor, b # a PROVE Sourced(b)'
  <2>1. pc'[b] = pc[b] /\ run'[b] = run[b] /\ dir'[b] = dir[b]
    BY <1>2, OthersKeep DEF Inv
  <2>2. Sourced(b)
    BY DEF GateInv
  <2>3. Secured(NameOf(b)) => Secured(NameOf(b))'
    <3>1. NameOf(b)' = NameOf(b)
      BY <2>1 DEF NameOf
    <3> HIDE DEF NameOf
    <3> QED BY <3>1, SecuredStays
  <2> QED BY <2>1, <2>2, <2>3 DEF Sourced
<1> QED BY <1>1, <1>2 DEF GateInv

\* A run that goes on, with the same set and directory.
LEMMA RunGoesOn ==
  ASSUME ~CutUploads, Inv, GateInv, NEW a \in Actor, Step(a),
         pc[a] \in Underway, run'[a] = run[a], dir'[a] = dir[a],
         pc'[a] # "push" \/ ~run[a].authoritative
  PROVE  Sourced(a)'
<1>1. Sourced(a)
  BY DEF GateInv
<1>2. NameOf(a)' = NameOf(a)
  BY DEF NameOf
<1>3. Secured(NameOf(a)) => Secured(NameOf(a))'
  <2> HIDE DEF NameOf
  <2> QED BY <1>2, SecuredStays
<1> QED BY <1>1, <1>3 DEF Sourced

LEMMA Idle == ASSUME NEW a \in Actor, pc'[a] \in {"idle", "ready"} PROVE Sourced(a)'
BY DEF Sourced, Underway

\* The steps that change neither the assets nor the commits.
LEMMA QuietGate ==
  ASSUME ~KeepDir, ~CutUploads, Inv, GateInv, NEW a \in Actor,
         \/ Checkout(a) \/ GoOn(a) \/ Fetch(a) \/ Regenerate(a) \/ Guard(a) \/ WriteArtifacts(a)
         \/ WriteManifest(a) \/ WriteLock(a) \/ Updated(a) \/ Crash(a)
  PROVE  GateInv'
<1>1. Step(a)
  BY DEF Step
<1>2. UNCHANGED <<store, commits>>
  BY DEF Checkout, GoOn, Fetch, Regenerate, Guard, WriteArtifacts, WriteManifest, WriteLock,
         Updated, Crash
<1>3. Sourced(a)'
  <2>1. CASE Checkout(a) \/ GoOn(a) \/ Crash(a)
    <3>1. pc'[a] \in {"idle", "ready"}
      BY <2>1 DEF Checkout, GoOn, Crash, Goto, Inv, TypeOK
    <3> QED BY <3>1, Idle
  <2>2. CASE Fetch(a)
    <3>1. PICK v \in Version, s \in SUBSET Bundle \ {{}}, u \in Shard, allow \in BOOLEAN :
            /\ run' = [run EXCEPT ![a] = [version |-> v, set |-> s, shard |-> u,
                                          authoritative |-> TRUE, allow_shrink |-> allow]]
            /\ dir' = [dir EXCEPT ![a] = Saved(a, s)]
      BY <2>2 DEF Fetch
    <3>2. pc'[a] = "build"
      BY <2>2 DEF Fetch, Inv, TypeOK
    <3>3. run'[a].set = s /\ run'[a].authoritative /\ dir'[a] = s
      BY <3>1 DEF Saved, Inv, TypeOK
    <3> QED BY <3>2, <3>3 DEF Sourced, Underway
  <2>3. CASE Regenerate(a)
    <3> DEFINE l == tree[a].lock
    <3>1. Name(l.version, l.set) \in DOMAIN store
      BY <2>3 DEF Regenerate, Restorable, Published
    <3>2. run'[a].version = l.version /\ run'[a].set = l.set /\ ~run'[a].authoritative
      BY <2>3 DEF Regenerate, Inv, TypeOK
    <3>3. Secured(NameOf(a))'
      BY <1>2, <3>1, <3>2 DEF Secured, NameOf
    <3> QED BY <3>2, <3>3 DEF Sourced
  <2>4. CASE WriteArtifacts(a) \/ WriteManifest(a) \/ WriteLock(a)
    <3>1. pc[a] \in Underway /\ run' = run /\ dir' = dir /\ pc'[a] # "push"
      BY <2>4 DEF WriteArtifacts, WriteManifest, WriteLock, Goto, At, Underway, Inv, TypeOK
    <3> QED BY <1>1, <3>1, RunGoesOn
  <2>5. CASE Guard(a)
    <3>1. \/ pc'[a] = "idle"
          \/ pc[a] \in Underway /\ run' = run /\ dir' = dir /\ pc'[a] # "push"
      BY <2>5 DEF Guard, Goto, At, Underway, Inv, TypeOK
    <3> QED BY <1>1, <3>1, RunGoesOn, Idle
  <2>6. CASE Updated(a)
    <3>1. \/ pc'[a] = "idle"
          \/ /\ pc[a] \in Underway /\ run' = run /\ dir' = dir
             /\ pc'[a] # "push" \/ ~run[a].authoritative
      BY <2>6 DEF Updated, Goto, At, Underway, Inv, TypeOK, local
    <3> QED BY <1>1, <3>1, RunGoesOn, Idle
  <2> QED BY <2>1, <2>2, <2>3, <2>4, <2>5, <2>6
<1>4. AssetsAreWhatTheyAreNamed'
  BY <1>2 DEF GateInv, AssetsAreWhatTheyAreNamed
<1> QED BY <1>1, <1>2, <1>3, <1>4, OthersGate

LEMMA ClobberGate ==
  ASSUME ~CutUploads, Inv, GateInv, NEW a \in Actor, Clobber(a)
  PROVE  GateInv'
<1>1. /\ pc[a] = "publish" /\ pc'[a] = "upload" /\ run' = run
      /\ UNCHANGED <<commits, dir>>
      /\ store' = [k \in DOMAIN store \ {AssetOf(a)} |-> store[k]]
  BY DEF Clobber, Goto, At, Inv, TypeOK, local
<1>2. AssetsAreWhatTheyAreNamed'
  BY <1>1 DEF GateInv, AssetsAreWhatTheyAreNamed
<1>3. Step(a) /\ Sourced(a)'
  BY <1>1, RunGoesOn DEF Step, Underway
<1> QED BY <1>1, <1>2, <1>3, OthersGate

LEMMA UploadGate ==
  ASSUME ~CutUploads, Inv, GateInv, NEW a \in Actor, Upload(a)
  PROVE  GateInv'
<1>1. pc[a] = "upload" /\ UNCHANGED <<commits, tree, dir>> /\ Step(a)
  BY UploadEnds DEF Step
<1>2. CASE Goto(a, "idle") /\ store' = store
  <2>1. pc'[a] = "idle"
    BY <1>2 DEF Goto, Inv, TypeOK
  <2>2. AssetsAreWhatTheyAreNamed'
    BY <1>2 DEF GateInv, AssetsAreWhatTheyAreNamed
  <2> QED BY <1>1, <2>1, <2>2, Idle, OthersGate
<1>3. CASE /\ pc' = [pc EXCEPT ![a] = "push"] /\ run' = run
           /\ DOMAIN store' = DOMAIN store \cup {AssetOf(a)}
           /\ store'[AssetOf(a)] = dir[a]
           /\ \A k \in DOMAIN store : store'[k] = store[k]
  <2>1. AssetOf(a) = NameOf(a) /\ run[a].authoritative
    BY <1>1, AssetOfRun DEF NameOf, Inv, RunFits
  <2>2. dir[a] = run[a].set
    BY <1>1, <2>1 DEF GateInv, Sourced, Underway
  <2>3. AssetsAreWhatTheyAreNamed'
    BY <1>3, <2>1, <2>2 DEF GateInv, AssetsAreWhatTheyAreNamed, NameOf, Name
  <2>4. Secured(NameOf(a))'
    BY <1>3, <2>1 DEF Secured, NameOf
  <2>5. Sourced(a)'
    BY <1>1, <1>3, <2>2, <2>4 DEF Sourced
  <2> QED BY <1>1, <2>3, <2>5, OthersGate
<1> QED BY <1>2, <1>3, UploadEnds

LEMMA PushGate ==
  ASSUME ~CutUploads, Inv, GateInv, NEW a \in Actor, Push(a)
  PROVE  GateInv'
<1>1. /\ pc[a] = "push" /\ pc'[a] = "idle" /\ store' = store /\ Step(a)
      /\ commits' = commits \/ commits' = commits \cup {tree[a]}
  BY DEF Push, Goto, At, Inv, TypeOK, Step
<1>2. AssetsAreWhatTheyAreNamed'
  BY <1>1 DEF GateInv, AssetsAreWhatTheyAreNamed
<1>3. Reproducible(tree[a])'
  <2>1. RunFits(a) /\ TreeFits(a) /\ Sourced(a)
    BY DEF Inv, GateInv
  <2> DEFINE l == tree[a].lock
             k == Name(l.version, l.set)
  <2>2. /\ tree[a].artifacts = Artifacts(l.version, l.set)
        /\ tree[a].manifest = Manifest(l.version, l.set)
        /\ l \notin Unreadable
        /\ NameOf(a) = k
    BY <1>1, <2>1 DEF TreeFits, Underway, NameOf
  <2>3. Secured(k)
    BY <1>1, <2>1, <2>2 DEF Sourced, Underway
  <2>4. tree'[a] = tree[a] /\ k' = k
    BY DEF Push
  <2>5. Secured(k)'
    <3> HIDE DEF k
    <3> QED BY <1>1, <2>3, <2>4, SecuredStays
  <2> QED BY <2>2, <2>4, <2>5 DEF Reproducible
<1>4. \A t \in commits' : t \in commits \/ Reproducible(t)'
  <2>1. tree'[a] = tree[a]
    BY DEF Push
  <2> QED BY <1>1, <1>3, <2>1
<1> QED BY <1>1, <1>2, <1>4, Idle, OthersGate

LEMMA GateNext ==
  ASSUME ~KeepDir, ~CutUploads
  PROVE  Inv /\ GateInv /\ [Next]_vars => GateInv'
<1>1. ASSUME Inv, GateInv, NEW a \in Actor, Step(a) PROVE GateInv'
  BY <1>1, QuietGate, ClobberGate, UploadGate, PushGate DEF Step
<1>2. ASSUME GateInv, UNCHANGED vars PROVE GateInv'
  BY <1>2 DEF vars, local, GateInv, Sourced, Reproducible, Secured, NameOf, AssetOf,
              AssetsAreWhatTheyAreNamed
<1> QED BY <1>1, <1>2 DEF Next

(* regen.sh, publish-bundles.sh: every commit main ever had passes the        *)
(* reproducibility gate, but while its own asset is uploaded again; if an     *)
(* upload that replaces an asset is not cut in two and a person does not give *)
(* --save-bundles a directory twice.                                          *)
THEOREM CommitsPassTheGate ==
  ASSUME ~KeepDir, ~CutUploads
  PROVE  Spec => []EveryCommitPassesTheGate
<1>1. Init => GateInv
  BY DEF Init, GateInv, Sourced, Underway, AssetsAreWhatTheyAreNamed
<1>2. Inv /\ GateInv /\ [Next]_vars => GateInv'
  BY GateNext
<1>3. GateInv => EveryCommitPassesTheGate
  <2> SUFFICES ASSUME GateInv, NEW t \in commits, ~UnderWay(t) PROVE GatePasses(t)
    BY DEF EveryCommitPassesTheGate
  <2> DEFINE k == Name(t.lock.version, t.lock.set)
  <2>1. Reproducible(t)
    BY DEF GateInv
  <2>2. k \in DOMAIN store
    BY <2>1 DEF Reproducible, Secured, UnderWay, At
  <2>3. store[k] = t.lock.set
    BY <2>2 DEF GateInv, AssetsAreWhatTheyAreNamed, Name
  <2> QED BY <2>1, <2>2, <2>3 DEF Reproducible, GatePasses, Generated, Restorable, Published
<1> QED BY <1>1, <1>2, <1>3, InitInv, NextInv, PTL DEF Spec

-----------------------------------------------------------------------------
(* Publishing implements PinnedSets, under the same two assumptions.         *)

\* What can be had is what is there, or being put there.
ObtainableFits ==
  /\ \A k \in Obtainable : Secured(k)
  /\ \A v \in Version, s \in SUBSET Bundle : Secured(<<v, s>>) => <<v, s>> \in Obtainable

LEMMA ObtainableIsSecured == Inv /\ GateInv => ObtainableFits
<1> SUFFICES ASSUME Inv, GateInv PROVE ObtainableFits
  OBVIOUS
<1>1. ASSUME NEW a \in Actor, pc[a] = "upload"
      PROVE  AssetOf(a) = <<tree[a].manifest.version, dir[a]>>
  <2>1. RunFits(a) /\ TreeFits(a) /\ Sourced(a)
    BY DEF Inv, GateInv
  <2>2. run[a].authoritative /\ tree[a].lock.set = run[a].set
    BY <1>1, <2>1 DEF RunFits, TreeFits, Underway
  <2>3. dir[a] = run[a].set
    BY <1>1, <2>1, <2>2 DEF Sourced, Underway
  <2> QED BY <2>2, <2>3 DEF AssetOf, Name
<1>2. ASSUME NEW k \in Obtainable PROVE Secured(k)
  <2>1. CASE k \in Version \X {store[name] : name \in DOMAIN store} /\ Stored(k)
    <3>1. Name(k[1], k[2]) = k
      BY <2>1 DEF Name
    <3> QED BY <2>1, <3>1 DEF Stored, Published, Secured
  <2>2. CASE \E a \in Actor : Coming(a) /\ k = <<tree[a].manifest.version, dir[a]>>
    BY <1>1, <2>2 DEF Coming, At, Secured
  <2> QED BY <2>1, <2>2 DEF Obtainable
<1>3. ASSUME NEW v \in Version, NEW s \in SUBSET Bundle, Secured(<<v, s>>)
      PROVE  <<v, s>> \in Obtainable
  <2>1. CASE <<v, s>> \in DOMAIN store
    <3>1. store[<<v, s>>] = s
      BY <2>1 DEF GateInv, AssetsAreWhatTheyAreNamed
    <3>2. <<v, s>> \in Version \X {store[name] : name \in DOMAIN store}
      BY <2>1, <3>1
    <3> QED BY <2>1, <3>1, <3>2 DEF Obtainable, Stored, Published, Name
  <2>2. CASE \E a \in Actor : pc[a] = "upload" /\ AssetOf(a) = <<v, s>>
    <3>1. PICK a \in Actor : pc[a] = "upload" /\ AssetOf(a) = <<v, s>>
      BY <2>2
    <3>2. AssetOf(a) = <<tree[a].manifest.version, dir[a]>>
      BY <1>1, <3>1
    <3> QED BY <3>1, <3>2 DEF Obtainable, Coming, At, Name
  <2> QED BY <1>3, <2>1, <2>2 DEF Secured
<1> QED BY <1>2, <1>3 DEF ObtainableFits

\* So it is after a step.
LEMMA ObtainableIsSecuredNext == Inv' /\ GateInv' => ObtainableFits'
BY ObtainableIsSecured, PTL

\* What can be had is of a release and a set of bundles.
LEMMA ObtainableType == ASSUME Inv PROVE Obtainable \subseteq Version \X SUBSET Bundle
<1>1. ASSUME NEW k \in Version \X {store[name] : name \in DOMAIN store}
      PROVE  k \in Version \X SUBSET Bundle
  BY DEF Inv, TypeOK
<1>2. ASSUME NEW a \in Actor, pc[a] = "upload"
      PROVE  <<tree[a].manifest.version, dir[a]>> \in Version \X SUBSET Bundle
  <2>1. tree[a].manifest = Manifest(run[a].version, run[a].set) /\ run[a] \in Run
    BY <1>2 DEF Inv, RunFits, TreeFits, Underway
  <2>2. tree[a].manifest.version \in Version
    BY <2>1 DEF Manifest, Run
  <2> QED BY <2>2 DEF Inv, TypeOK
<1> QED BY <1>1, <1>2 DEF Obtainable, Coming, At

\* No step takes away what can be had.
LEMMA ObtainableStays ==
  ASSUME ~CutUploads, Inv, GateInv, Inv', GateInv', NEW a \in Actor, Step(a)
  PROVE  Obtainable \subseteq Obtainable'
<1> SUFFICES ASSUME NEW k \in Obtainable PROVE k \in Obtainable'
  OBVIOUS
<1>1. Secured(k)'
  BY ObtainableIsSecured, SecuredStays DEF ObtainableFits
<1>2. PICK v \in Version, s \in SUBSET Bundle : k = <<v, s>>
  BY ObtainableType
<1>3. \A w \in Version, t \in SUBSET Bundle : Secured(<<w, t>>)' => <<w, t>> \in Obtainable'
  BY ObtainableIsSecuredNext DEF ObtainableFits
<1> QED BY <1>1, <1>2, <1>3

\* A push changes nothing that can be had.
LEMMA PushObtains == ASSUME Inv, NEW a \in Actor, Push(a) PROVE Obtainable' = Obtainable
<1>1. UNCHANGED <<store, tree, dir>> /\ pc[a] = "push" /\ pc'[a] = "idle"
  BY DEF Push, Goto, At, Inv, TypeOK
<1>2. ASSUME NEW b \in Actor PROVE Coming(b)' <=> Coming(b)
  <2>1. AssetOf(b)' = AssetOf(b) /\ (pc'[b] = "upload" <=> pc[b] = "upload")
    BY <1>1, OthersKeep DEF AssetOf, Step, Inv
  <2> QED BY <1>1, <2>1 DEF Coming, At
<1>3. {b \in Actor : Coming(b)}' = {b \in Actor : Coming(b)}
  BY <1>2
<1>4. \A k : Stored(k)' <=> Stored(k)
  BY <1>1 DEF Stored, Published
<1> QED BY <1>1, <1>3, <1>4 DEF Obtainable

\* A push pins what it has, which can be had, or nothing.
LEMMA PushPins ==
  ASSUME ~CutUploads, Inv, GateInv, Inv', GateInv', NEW a \in Actor, Push(a)
  PROVE  [Promise!Next]_(Promise!vars)
<1>1. Obtainable' = Obtainable
  BY PushObtains
<1>2. CASE UNCHANGED <<head, commits>>
  BY <1>1, <1>2 DEF Promise!vars
<1>3. CASE head' = tree[a] /\ commits' = commits \cup {tree[a]}
  <2> DEFINE l == tree[a].lock
             k == <<l.version, l.set>>
  <2>1. Reproducible(tree[a])'
    <3>1. \A t \in commits' : Reproducible(t)'
      BY DEF GateInv
    <3>2. tree[a]' = tree[a]
      BY DEF Push
    <3> QED BY <1>3, <3>1, <3>2
  <2>2. tree'[a] = tree[a]
    BY DEF Push
  <2>3. Generated(tree[a]) /\ Secured(k)'
    BY <2>1, <2>2 DEF Reproducible, Generated, Name
  <2>4. k \in Version \X SUBSET Bundle
    <3>1. tree[a] \in Tree /\ l \notin Unreadable
      BY <2>3 DEF Generated, Inv, TypeOK
    <3>2. l \in LockFiles
      BY <3>1, TreeType
    <3> QED BY <3>2 DEF LockFiles
  <2>5. k \in Obtainable'
    <3>1. \A w \in Version, t \in SUBSET Bundle : Secured(<<w, t>>)' => <<w, t>> \in Obtainable'
      BY ObtainableIsSecuredNext DEF ObtainableFits
    <3>2. PICK v \in Version, s \in SUBSET Bundle : l.version = v /\ l.set = s
      BY <2>4
    <3>3. k' = <<v, s>> /\ k = <<v, s>>
      BY <2>2, <3>2
    <3> HIDE DEF k
    <3>4. Secured(<<v, s>>)'
      BY <2>3, <3>3 DEF Secured
    <3> QED BY <3>1, <3>3, <3>4
  <2>6. PinOf(tree[a]) = k
    BY <2>3 DEF PinOf
  <2>7. PinOf(head') = k /\ {PinOf(t) : t \in commits'} = {PinOf(t) : t \in commits} \cup {k}
    BY <1>3, <2>6
  <2> HIDE DEF k
  <2>8. Promise!Pin
    BY <1>1, <2>5, <2>7 DEF Promise!Pin
  <2> QED BY <2>8 DEF Promise!Next
<1> QED BY <1>2, <1>3 DEF Push

(* publish-bundles.sh:22-27, regen.sh:2-11: for any actors, releases, bundles *)
(* and domains, and any number of runs and cuts, publishing implements        *)
(* PinnedSets: main moves in one step from one whole set to another that can  *)
(* be had, and what can be had once can be had ever after; if an upload that  *)
(* replaces an asset is not cut in two and a person does not give             *)
(* --save-bundles a directory twice.                                          *)
THEOREM PublishingKeepsItsPromise ==
  ASSUME ~KeepDir, ~CutUploads
  PROVE  Spec => ImplementsPinnedSets
<1>1. Init => GateInv
  BY DEF Init, GateInv, Sourced, Underway, AssetsAreWhatTheyAreNamed
<1>2. Inv /\ GateInv /\ [Next]_vars => GateInv'
  BY GateNext
<1>3. Init => Promise!Init
  <2> SUFFICES ASSUME Init PROVE Promise!Init
    OBVIOUS
  <2>1. Obtainable = {}
    BY DEF Init, Obtainable, Coming, At
  <2>2. PinOf(head) = Absent
    BY DEF Init, PinOf, Generated, Bare, Unreadable
  <2> QED BY <2>1, <2>2 DEF Init, Promise!Init
<1>4. Inv /\ GateInv /\ Inv' /\ GateInv' /\ [Next]_vars => [Promise!Next]_(Promise!vars)
  <2>1. ASSUME Inv, GateInv, Inv', GateInv', NEW a \in Actor, Step(a), ~Push(a)
        PROVE  Promise!Publish
    <3>1. UNCHANGED <<head, commits>>
      BY <2>1 DEF Step, Checkout, GoOn, Fetch, Regenerate, Guard, WriteArtifacts, WriteManifest,
                  WriteLock, Updated, Clobber, Upload, Crash
    <3>2. Obtainable \subseteq Obtainable'
      BY <2>1, ObtainableStays
    <3> QED BY <3>1, <3>2 DEF Promise!Publish
  <2>2. ASSUME UNCHANGED vars PROVE UNCHANGED Promise!vars
    <3>1. UNCHANGED <<head, commits, store, pc, tree, dir>>
      BY <2>2 DEF vars, local
    <3>2. Obtainable' = Obtainable
      BY <3>1 DEF Obtainable, Stored, Published, Coming, At, AssetOf
    <3> QED BY <3>1, <3>2 DEF Promise!vars
  <2> QED BY <2>1, <2>2, PushPins DEF Next, Promise!Next
<1> QED BY <1>1, <1>2, <1>3, <1>4, InitInv, NextInv, PTL DEF Spec, ImplementsPinnedSets, Promise!Spec
=============================================================================
