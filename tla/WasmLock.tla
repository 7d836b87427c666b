------------------------------- MODULE WasmLock -------------------------------
(***************************************************************************)
(* Runs of `whatspec update' as they concern the wasm payloads             *)
(* (whatspec/src/main.rs: fetch_source, load_wasm, maybe_save_wasm and the *)
(* end of update): what the page and the endpoint answer, the wasm half of *)
(* the cache, the --wasm-out directory and generated/wasm.lock.json.       *)
(*                                                                         *)
(* One run at a time; a run may end at any step.  BundleCache looks inside *)
(* store and store_wasm, which are one step each here.  The JS half of a   *)
(* run is its version, and whether the cache had that version.  Payload    *)
(* contents do not matter beyond being wasm or not, so a set of payloads   *)
(* is the set of their URLs.  A run that cannot read the version from the  *)
(* page does not use the cache; it is given the version the page serves.   *)
(***************************************************************************)
EXTENDS WasmHandles, FiniteSets

CONSTANTS
  Version,
  Flags,    \* the combinations of flags that runs are given
  Absent, Torn,
  MaxRuns, MaxFaults  \* bounds

Options == [cache : BOOLEAN, wasm : BOOLEAN, wasm_out : BOOLEAN]

ASSUME RunAssumption ==
  /\ Flags \subseteq {f \in Options : f.wasm_out => f.wasm}
  /\ Torn # Absent
  /\ MaxRuns \in Nat /\ MaxFaults \in Nat

Handled == PartialMap(Accepted, BxId)
Bindings == PartialMap(BxId, Accepted)

Cache == [wa_version : Version, complete : BOOLEAN, wasm : SUBSET Accepted,
          wasm_handles : Handled]
Lock == [wa_version : Version, wasm : PartialMap(Accepted, BxId \cup {None}),
         wasm_handles : Bindings]

ASSUME SentinelAssumption == Absent \notin Cache /\ {Absent, Torn} \cap Lock = {}

VARIABLES
  pc,        \* where the run is; "done" when it ran to its end
  opts,      \* its flags
  version,   \* the release it discovered, and stamps
  observed,  \* the ids the page and the endpoint mentioned
  live,      \* by_id: their bindings, the refused ones left out
  urls,      \* the payload URLs it resolved
  payloads,  \* the payloads it has, cached or downloaded
  handles,   \* URL -> id
  pins,      \* id -> URL
  cache,     \* the cache directory
  dir,       \* the --wasm-out directory
  lock,      \* generated/wasm.lock.json
  full,      \* history: the lock on disk was written by a run with payloads
  got,       \* history: payloads stored in the cache since it was last filled,
             \* and not damaged since
  said,      \* history: the bindings each release's runs were told
  runs, faults

run == <<opts, version, observed, live, urls, payloads, handles, pins>>
disk == <<cache, dir, lock>>
vars == <<pc, run, disk, full, got, said, runs, faults>>

Readable(l) == l \notin {Absent, Torn}
EmptyMap == [x \in {} |-> None]

Init ==
  /\ pc = "idle" /\ opts \in Flags /\ version \in Version
  /\ observed = {} /\ live = EmptyMap /\ urls = {} /\ payloads = {}
  /\ handles = EmptyMap /\ pins = EmptyMap
  /\ cache = Absent /\ dir = {} /\ lock = Absent
  /\ full = FALSE /\ got = {} /\ said = [v \in Version |-> {}]
  /\ runs = 0 /\ faults = 0

\* The cache holds version v.
CacheHas(v) == cache # Absent /\ cache.wa_version = v

\* fetch_source: discovery, and the JS set from the cache or from a download
\* that store puts in the cache, which drops the wasm there.
Start ==
  /\ pc \in {"idle", "done"} /\ runs < MaxRuns /\ runs' = runs + 1
  /\ opts' \in Flags /\ version' \in Version
  /\ IF opts'.cache /\ ~CacheHas(version')
     THEN /\ cache' = [wa_version |-> version', complete |-> TRUE, wasm |-> {},
                       wasm_handles |-> EmptyMap]
          /\ got' = {}
     ELSE UNCHANGED <<cache, got>>
  /\ pc' = IF opts'.wasm THEN "load" ELSE "update"
  /\ observed' = {} /\ live' = EmptyMap /\ urls' = {} /\ payloads' = {}
  /\ handles' = EmptyMap /\ pins' = EmptyMap
  /\ UNCHANGED <<dir, lock, full, said, faults>>

\* What load_wasm reads from the cache.
CachedPayloads == IF opts.cache /\ CacheHas(version) THEN cache.wasm ELSE {}
CachedHandles == IF opts.cache /\ CacheHas(version) THEN cache.wasm_handles ELSE EmptyMap

Merged_freshOnly(cached, downloaded) == downloaded  \* mutant

\* The set for a version accumulates.
Merged(cached, downloaded) == cached \cup downloaded

\* load_wasm up to its writes: resolve (the endpoint adds ids to those of the
\* page, see Bootloader), then download what
\* the cache does not have; a failed download or a body that is no wasm module
\* is left out.
LoadWasm ==
  /\ pc = "load"
  /\ \E page \in PartialMap(BxId, Url), scanned \in SUBSET Accepted :
     \E more \in PartialMap(BxId \ DOMAIN page, Url) :
       LET bx == Extend(page, more)
           found == Image(ById(bx)) \cup scanned
       IN  /\ observed' = DOMAIN bx
           /\ live' = ById(bx)
           /\ urls' = found
           /\ \E downloaded \in SUBSET (found \ CachedPayloads) :
                payloads' = Merged(CachedPayloads, downloaded)
           /\ handles' = Handles(page, CachedHandles, ById(bx), DOMAIN bx)
           /\ pins' = Pins(Ids(page, CachedHandles, ById(bx), DOMAIN bx))
           /\ said' = [said EXCEPT ![version] = @ \cup {<<i, bx[i]>> : i \in DOMAIN bx}]
           /\ pc' = IF payloads' = {} THEN "sweep" ELSE "store"
  /\ UNCHANGED <<opts, version, disk, full, got, runs, faults>>

\* store_wasm; a refusal or an I/O error does not stop the run.
StoreWasm ==
  /\ pc = "store" /\ pc' = "sweep"
  /\ IF opts.cache /\ CacheHas(version)
     THEN /\ cache' = [cache EXCEPT !.wasm = payloads, !.wasm_handles = Only(handles, payloads)]
          /\ got' = got \cup payloads
     ELSE UNCHANGED <<cache, got>>
  /\ UNCHANGED <<run, dir, lock, full, said, runs, faults>>

StoreWasmFails ==
  /\ pc = "store" /\ pc' = "sweep"
  /\ faults < MaxFaults /\ faults' = faults + 1
  /\ UNCHANGED <<run, disk, full, got, said, runs>>

SweepDir_forgotten ==  \* mutant: maybe_save_wasm without sweep_wasm_dir
  /\ pc = "sweep" /\ pc' = IF opts.wasm_out THEN "save" ELSE "update"
  /\ UNCHANGED <<run, disk, full, got, said, runs, faults>>

\* maybe_save_wasm: sweep the directory, then write the payloads.
SweepDir ==
  /\ pc = "sweep"
  /\ IF opts.wasm_out
     THEN dir' = {} /\ pc' = "save"
     ELSE UNCHANGED dir /\ pc' = "update"
  /\ UNCHANGED <<run, cache, lock, full, got, said, runs, faults>>

SaveWasm ==
  /\ pc = "save" /\ pc' = "update"
  /\ dir' = dir \cup payloads
  /\ UNCHANGED <<run, cache, lock, full, got, said, runs, faults>>

\* build_artifacts and the floor guard let the run go on, and the artifacts
\* and bundles.lock.json are written; or the run stops (an error, or --check).
Proceed ==
  /\ pc = "update" /\ pc' = "lock"
  /\ UNCHANGED <<run, disk, full, got, said, runs, faults>>

Stop ==
  /\ pc = "update" /\ pc' = "idle"
  /\ UNCHANGED <<run, disk, full, got, said, runs, faults>>

PriorHandles_anyVersion ==  \* mutant
  IF Readable(lock) THEN lock.wasm_handles ELSE EmptyMap

\* The handles in the lock on disk, if it is of this version.
PriorHandles ==
  IF Readable(lock) /\ lock.wa_version = version THEN lock.wasm_handles ELSE EmptyMap

\* A run with payloads writes the lock anew; one that asked for payloads and
\* has none rewrites the handles (and the request counts, left out here) of a
\* lock of its version.
Rewrites == opts.wasm /\ Readable(lock) /\ lock.wa_version = version

NewLock ==
  IF payloads # {}
  THEN [wa_version |-> version,
        wasm |-> [u \in payloads |-> BxIdOf(handles, u)],
        wasm_handles |-> MergePriorHandles(pins, PriorHandles, observed)]
  ELSE IF Rewrites
  THEN [lock EXCEPT !.wasm_handles = MergePriorHandles(pins, PriorHandles, observed)]
  ELSE lock

WriteLock ==
  /\ pc = "lock" /\ pc' = "done"
  /\ lock' = NewLock
  /\ full' = IF payloads # {} THEN TRUE ELSE full /\ lock' = lock
  /\ UNCHANGED <<run, cache, dir, got, said, runs, faults>>

\* The run is cut short.
Crash ==
  /\ pc \notin {"idle", "done"} /\ pc' = "idle"
  /\ faults < MaxFaults /\ faults' = faults + 1
  /\ \/ UNCHANGED disk
     \/ pc = "lock" /\ (payloads # {} \/ Rewrites) /\ lock' = Torn /\ UNCHANGED <<cache, dir>>
     \/ pc = "sweep" /\ opts.wasm_out /\ dir' \in SUBSET dir /\ UNCHANGED <<cache, lock>>
     \/ pc = "save" /\ (\E some \in SUBSET payloads : dir' = dir \cup some)
          /\ UNCHANGED <<cache, lock>>
  /\ UNCHANGED <<run, full, got, said, runs>>

\* A payload in the cache is lost or corrupted: wasm_payloads leaves it out.
\* (Lost JS makes the next run store the set again: the cache is then as good
\* as absent.)
Damage ==
  /\ pc = "idle" /\ cache # Absent
  /\ faults < MaxFaults /\ faults' = faults + 1
  /\ \/ \E u \in cache.wasm :
          cache' = [cache EXCEPT !.wasm = @ \ {u}] /\ got' = got \ {u}
     \/ cache' = Absent /\ got' = {}
  /\ UNCHANGED <<pc, run, dir, lock, full, said, runs>>

Next ==
  \/ Start \/ LoadWasm \/ StoreWasm \/ StoreWasmFails \/ SweepDir \/ SaveWasm
  \/ Proceed \/ Stop \/ WriteLock \/ Crash \/ Damage

Spec == Init /\ [][Next]_vars

-----------------------------------------------------------------------------
TypeOK ==
  /\ pc \in {"idle", "load", "store", "sweep", "save", "update", "lock", "done"}
  /\ opts \in Flags /\ version \in Version
  /\ observed \subseteq BxId /\ live \in Bindings
  /\ urls \subseteq Accepted /\ payloads \subseteq Accepted
  /\ handles \in PartialMap(Url, BxId) /\ pins \in Bindings
  /\ cache \in Cache \cup {Absent} /\ dir \subseteq Accepted
  /\ lock \in Lock \cup {Absent, Torn}
  /\ full \in BOOLEAN /\ got \subseteq Accepted
  /\ said \in [Version -> SUBSET (BxId \X Url)]
  /\ runs \in 0..MaxRuns /\ faults \in 0..MaxFaults

\* The id an entry of the lock carries is bound by the lock to that entry's URL.
Agrees(l) ==
  \A u \in DOMAIN l.wasm : l.wasm[u] # None =>
    /\ l.wasm[u] \in DOMAIN l.wasm_handles
    /\ l.wasm_handles[l.wasm[u]] = u

\* main.rs:1584-1588, for the locks written by a run with payloads: "a lock that
\* contradicts itself" does not arise, however ids were rebound, aliased and
\* refused in this run and the runs before, and whatever the cache remembers.
FullLockAgrees == Readable(lock) /\ full => Agrees(lock)

\* The same, of any lock: also of one whose handles were rewritten by a run
\* without payloads.
LockAgrees == Readable(lock) => Agrees(lock)

\* main.rs:2678-2683, 2748-2750: however runs of two releases alternate, with and
\* without the cache, every binding in the lock was told to a run of the
\* lock's own release.
PinsAreOfOneRelease ==
  Readable(lock) =>
    \A i \in DOMAIN lock.wasm_handles :
      <<i, lock.wasm_handles[i]>> \in said[lock.wa_version]

\* main.rs:2670-2676, 2720-2726: within one release a write of the lock loses an id
\* only if this run saw it refused, and the bindings this run saw win.
PinsFollowTheRun ==
  [][Readable(lock) /\ Readable(lock') /\ lock # lock' =>
       /\ lock.wa_version = lock'.wa_version =>
            DOMAIN lock.wasm_handles \subseteq observed \cup DOMAIN lock'.wasm_handles
       /\ \A i \in observed :
            IF i \in DOMAIN live
            THEN i \in DOMAIN lock'.wasm_handles /\ lock'.wasm_handles[i] = live[i]
            ELSE i \notin DOMAIN lock'.wasm_handles]_vars

\* main.rs:1449-1452: the lock a cached run writes names every payload that was
\* stored in the cache since it was filled for the release and not damaged,
\* however little of the set this run was told of, whatever runs of other
\* releases, without the cache or cut short came between.
NothingIsForgotten ==
  [][pc = "lock" /\ pc' = "done" /\ opts.cache /\ payloads # {} =>
       got \subseteq DOMAIN lock'.wasm]_vars

\* .github/workflows/update.yml: when a run with --wasm-out has ended and its
\* directory holds a payload, under a lock of the run's version, that directory
\* is what publish-wasm.sh demands: the locked payloads and no other.
PublishableDir ==
  pc = "done" /\ opts.wasm_out /\ dir # {} /\ Readable(lock) /\ lock.wa_version = version
    => dir = DOMAIN lock.wasm
=============================================================================
