------------------------- MODULE BundleCacheProofs -------------------------
(***************************************************************************)
(* Proofs about BundleCache for any number of processes, versions, URLs    *)
(* and contents, and any number of faults.                                 *)
(***************************************************************************)
EXTENDS CacheInTurn, TLAPS

\* Some store call was given the bundles this manifest records, for the
\* manifest's version.
FromStore(m, offers) ==
  \E s \in BundleSets :
    /\ [kind |-> "js", wa_version |-> m.wa_version, set |-> s] \in offers
    /\ m.bundles = Entries(s)

\* How a process's locals fit together at each point of a call.
LocalsOK(p) ==
  /\ open[p] # Absent =>
       \/ pc[p] = "write" /\ open[p] \in todo[p]
       \/ pc[p] = "tmp" /\ open[p] = Tmp
  /\ pc[p] \in {"clear_manifest", "clear_bundles", "clear_wasm", "write"} =>
       todo[p] \subseteq DOMAIN buf[p]
  /\ pc[p] \in {"load_set", "wasm_payloads"} =>
       /\ mem[p] \in Manifest \ {Absent}
       /\ want[p] = mem[p].wa_version
  /\ pc[p] = "load_set" => todo[p] \subseteq DOMAIN mem[p].bundles
  /\ pc[p] = "wasm_payloads" => todo[p] \subseteq DOMAIN mem[p].wasm

TypeInv == TypeOK /\ \A p \in Proc : LocalsOK(p)

\* What a process has loaded so far is what its manifest records.
LoadedOK(p) ==
  pc[p] = "load_set" =>
    /\ DOMAIN buf[p] = DOMAIN mem[p].bundles \ todo[p]
    /\ \A u \in DOMAIN buf[p] : Digest(buf[p][u]) = mem[p].bundles[u]

\* Every manifest, on disk or in memory, comes from a store call.
ManifestsFromStore ==
  /\ Readable(manifest) => FromStore(manifest, offered)
  /\ Readable(tmp) => FromStore(tmp, offered)
  /\ \A p \in Proc : mem[p] # Absent => FromStore(mem[p], offered)

HitInv ==
  /\ ManifestsFromStore
  /\ \A p \in Proc : LoadedOK(p)
  /\ HitIsAStoredSet

-----------------------------------------------------------------------------
\* A map from part of D into R is a function on some subset of D, and back.
LEMMA PartialMapElim ==
  ASSUME NEW D, NEW R, NEW f \in PartialMap(D, R)
  PROVE  DOMAIN f \subseteq D /\ f \in [DOMAIN f -> R]
BY DEF PartialMap

LEMMA PartialMapIntro ==
  ASSUME NEW D, NEW R, NEW d \in SUBSET D, NEW f \in [d -> R]
  PROVE  f \in PartialMap(D, R)
BY DEF PartialMap

\* The empty map is a partial map of every kind.
LEMMA EmptyMap ==
  ASSUME NEW D, NEW R
  PROVE  Empty \in PartialMap(D, R) /\ DOMAIN Empty = {}
<1>1. Empty \in [{} -> R]
  BY DEF Empty
<1>2. QED
  BY <1>1, PartialMapIntro DEF Empty

\* The manifests the code builds are manifests.
LEMMA NewManifestType ==
  ASSUME NEW v \in Version, NEW s \in PartialMap(JsUrl, Bytes)
  PROVE  NewManifest(v, s) \in Manifest
<1>1. DOMAIN s \subseteq JsUrl /\ s \in [DOMAIN s -> Bytes]
  BY PartialMapElim
<1>2. Entries(s) \in [DOMAIN s -> DigestSet]
  BY <1>1 DEF Entries, DigestSet
<1>3. Entries(s) \in PartialMap(JsUrl, DigestSet)
  BY <1>1, <1>2, PartialMapIntro
<1>4. QED
  BY <1>3, EmptyMap DEF NewManifest, Manifest

LEMMA WithWasmType ==
  ASSUME NEW m \in Manifest, NEW s \in PartialMap(WasmUrl, Bytes),
         NEW h \in PartialMap(WasmUrl, BxId)
  PROVE  /\ WithWasm(m, s, h) \in Manifest
         /\ WithWasm(m, s, h).wa_version = m.wa_version
         /\ WithWasm(m, s, h).bundles = m.bundles
<1>1. DOMAIN s \subseteq WasmUrl /\ s \in [DOMAIN s -> Bytes]
      /\ DOMAIN h \subseteq WasmUrl /\ h \in [DOMAIN h -> BxId]
  BY PartialMapElim
<1>2. Entries(s) \in [DOMAIN s -> DigestSet]
  BY <1>1 DEF Entries, DigestSet
<1>3. Entries(s) \in PartialMap(WasmUrl, DigestSet)
  BY <1>1, <1>2, PartialMapIntro
<1> DEFINE hh == [u \in DOMAIN s \cap DOMAIN h |-> h[u]]
<1>4. hh \in [DOMAIN s \cap DOMAIN h -> BxId]
  BY <1>1
<1>5. hh \in PartialMap(WasmUrl, BxId)
  BY <1>1, <1>4, PartialMapIntro
<1>6. QED
  BY <1>3, <1>5 DEF WithWasm, Manifest

\* Loading one more file keeps a map of loaded contents.
LEMMA LoadedType ==
  ASSUME NEW b \in Payload, NEW u \in Url, NEW c \in Bytes
  PROVE  /\ Loaded(b, u, c) \in Payload
         /\ DOMAIN Loaded(b, u, c) = DOMAIN b \cup {u}
<1>1. DOMAIN b \subseteq Url /\ b \in [DOMAIN b -> Bytes]
  BY PartialMapElim DEF Payload
<1>2. Loaded(b, u, c) \in [DOMAIN b \cup {u} -> Bytes]
  BY <1>1 DEF Loaded
<1>3. QED
  BY <1>1, <1>2, PartialMapIntro DEF Payload

\* A digest the manifest records is matched by real contents only.
LEMMA IntactIsBytes ==
  ASSUME NEW c \in Bytes \cup {Absent, Torn}, NEW e \in DigestSet, Intact(c, e)
  PROVE  c \in Bytes /\ Digest(c) = e
<1>1. PICK b \in Bytes : e = Digest(b)
  BY DEF DigestSet
<1>2. QED
  BY <1>1 DEF Intact, Digest

\* A map over one kind of URL is a map over URLs.
LEMMA PayloadTypes ==
  /\ \A s \in PartialMap(JsUrl, Bytes) : s \in Payload
  /\ \A s \in PartialMap(WasmUrl, Bytes) : s \in Payload
<1>1. ASSUME NEW s \in PartialMap(JsUrl, Bytes) PROVE s \in Payload
  <2>1. DOMAIN s \subseteq Url /\ s \in [DOMAIN s -> Bytes]
    BY PartialMapElim DEF Url
  <2>2. QED BY <2>1, PartialMapIntro DEF Payload
<1>2. ASSUME NEW s \in PartialMap(WasmUrl, Bytes) PROVE s \in Payload
  <2>1. DOMAIN s \subseteq Url /\ s \in [DOMAIN s -> Bytes]
    BY PartialMapElim DEF Url
  <2>2. QED BY <2>1, PartialMapIntro DEF Payload
<1>3. QED
  BY <1>1, <1>2

-----------------------------------------------------------------------------
(* Type correctness.                                                       *)

LEMMA InitTypeInv == Init => TypeInv
BY EmptyMap, SentinelAssumption DEF Init, TypeInv, TypeOK, LocalsOK, PC, Payload

\* Entering a call with well-typed arguments.
LEMMA StoreTypeInv ==
  ASSUME NEW p \in Proc, NEW v \in Version, NEW s \in BundleSets,
         TypeInv, Store(p, v, s)
  PROVE  TypeInv'
<1>1. s \in PartialMap(JsUrl, Bytes) /\ s \in Payload /\ NewManifest(v, s) \in Manifest
  BY NewManifestType, PayloadTypes DEF BundleSets
<1>2. DOMAIN s \subseteq Url
  BY <1>1, PartialMapElim DEF Payload
<1>3. [kind |-> "js", wa_version |-> v, set |-> s] \in Offer
  BY <1>1 DEF Offer
<1>4. TypeOK'
  BY <1>1, <1>2, <1>3, SentinelAssumption
     DEF TypeInv, TypeOK, Store, Enter, PC, disk
<1>5. \A q \in Proc : LocalsOK(q)'
  BY <1>1, <1>2 DEF TypeInv, TypeOK, LocalsOK, Store, Enter
<1>6. QED
  BY <1>4, <1>5 DEF TypeInv

LEMMA StoreWasmTypeInv ==
  ASSUME NEW p \in Proc, NEW v \in Version,
         NEW s \in PartialMap(WasmUrl, Bytes), NEW h \in PartialMap(WasmUrl, BxId),
         TypeInv, StoreWasm(p, v, s, h)
  PROVE  TypeInv'
<1>1. s \in Payload /\ DOMAIN s \subseteq Url
  BY PayloadTypes, PartialMapElim DEF Payload
<1>2. [kind |-> "wasm", wa_version |-> v, set |-> s, handles |-> h] \in Offer
  BY <1>1 DEF Offer
<1>3. Usable(manifest, v) => manifest \in Manifest
                              /\ WithWasm(manifest, s, h) \in Manifest
  BY WithWasmType DEF TypeInv, TypeOK, Usable, Readable
<1>4. TypeOK'
  BY <1>1, <1>2, <1>3, EmptyMap, SentinelAssumption
     DEF TypeInv, TypeOK, StoreWasm, Enter, PC, disk, Payload
<1>5. \A q \in Proc : LocalsOK(q)'
  BY <1>1 DEF TypeInv, TypeOK, LocalsOK, StoreWasm, Enter
<1>6. QED
  BY <1>4, <1>5 DEF TypeInv

LEMMA ReadTypeInv ==
  ASSUME NEW p \in Proc, NEW v \in Version, TypeInv,
         Check(p, v) \/ WasmPayloads(p, v) \/ WasmHandles(p, v)
  PROVE  TypeInv'
<1>1. Readable(manifest) =>
        /\ manifest \in Manifest \ {Absent}
        /\ DOMAIN manifest.bundles \subseteq Url
        /\ DOMAIN manifest.wasm \subseteq Url
        /\ manifest.wasm_handles \in PartialMap(WasmUrl, BxId)
  BY PartialMapElim DEF TypeInv, TypeOK, Readable, Manifest, Url
<1>2. Empty \in Payload /\ Empty \in PartialMap(WasmUrl, BxId)
  BY EmptyMap DEF Payload
<1>3. /\ Reply("miss", v, Empty) \in Answers({"hit", "miss"}, Payload)
      /\ Reply("payloads", v, Empty) \in Answers({"payloads"}, Payload)
      /\ \A h \in PartialMap(WasmUrl, BxId) :
           Reply("handles", v, h) \in Answers({"handles"}, PartialMap(WasmUrl, BxId))
  BY <1>2 DEF Reply, Answers
\* The call returned at once ...
<1>4. ASSUME Enter(p, "idle", Absent, Absent, Empty, {}), UNCHANGED <<disk, offered>>,
             status' \in [Proc -> Answers({"hit", "miss"}, Payload) \cup {Absent}],
             answer' \in [Proc -> Answers({"payloads"}, Payload)
                                    \cup Answers({"handles"}, PartialMap(WasmUrl, BxId))
                                    \cup {Absent}]
      PROVE  TypeInv'
  <2>1. TypeOK'
    BY <1>2, <1>4, SentinelAssumption DEF TypeInv, TypeOK, Enter, PC, disk
  <2>2. \A q \in Proc : LocalsOK(q)'
    BY <1>4 DEF TypeInv, TypeOK, LocalsOK, Enter
  <2>3. QED
    BY <2>1, <2>2 DEF TypeInv
\* ... or goes on to load files.
<1>5. ASSUME NEW at \in {"load_set", "wasm_payloads"}, Usable(manifest, v),
             Enter(p, at, v, manifest, Empty,
                   IF at = "load_set" THEN DOMAIN manifest.bundles
                                      ELSE DOMAIN manifest.wasm),
             UNCHANGED <<disk, offered, status, answer>>
      PROVE  TypeInv'
  <2>1. manifest \in Manifest \ {Absent} /\ manifest.wa_version = v
    BY <1>1, <1>5 DEF Usable
  <2>2. TypeOK'
    BY <1>1, <1>2, <1>5, <2>1, SentinelAssumption
       DEF TypeInv, TypeOK, Enter, PC, disk, Usable
  <2>3. \A q \in Proc : LocalsOK(q)'
    BY <1>5, <2>1 DEF TypeInv, TypeOK, LocalsOK, Enter
  <2>4. QED
    BY <2>2, <2>3 DEF TypeInv
<1>6. CASE Check(p, v)
  <2>1. CASE Usable(manifest, v)
    BY <1>5, <1>6, <2>1 DEF Check
  <2>2. CASE ~Usable(manifest, v)
    <3>1. status' \in [Proc -> Answers({"hit", "miss"}, Payload) \cup {Absent}]
      BY <1>3, <1>6, <2>2 DEF Check, TypeInv, TypeOK
    <3>2. QED
      BY <1>4, <1>6, <2>2, <3>1 DEF Check, TypeInv, TypeOK
  <2>3. QED
    BY <2>1, <2>2
<1>7. CASE WasmPayloads(p, v)
  <2>1. CASE Usable(manifest, v)
    BY <1>5, <1>7, <2>1 DEF WasmPayloads
  <2>2. CASE ~Usable(manifest, v)
    <3>1. answer' = [answer EXCEPT ![p] = Reply("payloads", v, Empty)]
      BY <1>7, <2>2 DEF WasmPayloads
    <3>2. answer' \in [Proc -> Answers({"payloads"}, Payload)
                                 \cup Answers({"handles"}, PartialMap(WasmUrl, BxId))
                                 \cup {Absent}]
      BY <1>3, <3>1 DEF TypeInv, TypeOK
    <3>3. QED
      BY <1>4, <1>7, <2>2, <3>2 DEF WasmPayloads, TypeInv, TypeOK
  <2>3. QED
    BY <2>1, <2>2
<1>8. CASE WasmHandles(p, v)
  <2>1. PICK h \in PartialMap(WasmUrl, BxId) :
          answer' = [answer EXCEPT ![p] = Reply("handles", v, h)]
    BY <1>1, <1>2, <1>8 DEF WasmHandles
  <2>2. answer' \in [Proc -> Answers({"payloads"}, Payload)
                               \cup Answers({"handles"}, PartialMap(WasmUrl, BxId))
                               \cup {Absent}]
    BY <1>3, <2>1 DEF TypeInv, TypeOK
  <2>3. QED
    BY <1>4, <1>8, <2>2 DEF WasmHandles, TypeInv, TypeOK
<1>9. QED
  BY <1>6, <1>7, <1>8

\* The file-system calls of store and store_wasm.
LEMMA WriteTypeInv ==
  ASSUME NEW p \in Proc, TypeInv,
         \/ ClearManifest(p)
         \/ ClearDir(p, "clear_bundles", JsUrl, "clear_wasm")
         \/ ClearDir(p, "clear_wasm", WasmUrl, "write")
         \/ WriteBegin(p) \/ WriteEnd(p) \/ TmpBegin(p) \/ TmpEnd(p)
  PROVE  TypeInv'
<1> USE SentinelAssumption DEF TypeInv, TypeOK, PC
<1>1. CASE ClearManifest(p)
  BY <1>1 DEF ClearManifest, Goto, LocalsOK
<1>2. ASSUME NEW here, NEW dir, NEW next,
             here \in {"clear_bundles", "clear_wasm"},
             next \in {"clear_wasm", "write"},
             ClearDir(p, here, dir, next)
      PROVE  TypeInv'
  <2>1. TypeOK'
    BY <1>2 DEF ClearDir, Remove, Goto
  <2>2. \A q \in Proc : LocalsOK(q)'
    BY <1>2 DEF ClearDir, Goto, LocalsOK
  <2>3. QED
    BY <2>1, <2>2
<1>3. CASE WriteBegin(p)
  <2>1. PICK u \in todo[p] : Truncate(p, u) /\ files' = [files EXCEPT ![u] = Torn]
    BY <1>3 DEF WriteBegin
  <2>2. u \in Url
    BY <2>1
  <2>3. TypeOK'
    BY <1>3, <2>1, <2>2 DEF WriteBegin, Truncate
  <2>4. \A q \in Proc : LocalsOK(q)'
    BY <1>3, <2>1, <2>2 DEF WriteBegin, Truncate, LocalsOK
  <2>5. QED
    BY <2>3, <2>4
<1>4. CASE WriteEnd(p)
  <2>1. open[p] \in todo[p] /\ open[p] \in DOMAIN buf[p] /\ open[p] \in Url
    BY <1>4 DEF WriteEnd, LocalsOK
  <2>2. buf[p][open[p]] \in Bytes
    BY <2>1, PartialMapElim DEF Payload
  <2>3. TypeOK'
    BY <1>4, <2>1, <2>2 DEF WriteEnd, Landed, Close
  <2>4. \A q \in Proc : LocalsOK(q)'
    BY <1>4, <2>1 DEF WriteEnd, Close, LocalsOK
  <2>5. QED
    BY <2>3, <2>4
<1>5. CASE TmpBegin(p)
  BY <1>5 DEF TmpBegin, Truncate, Goto, LocalsOK
<1>6. CASE TmpEnd(p)
  <2>1. TypeOK'
    BY <1>6 DEF TmpEnd, Landed, Close, Goto
  <2>2. \A q \in Proc : LocalsOK(q)'
    BY <1>6 DEF TmpEnd, Close, Goto, LocalsOK
  <2>3. QED
    BY <2>1, <2>2
<1>7. QED
  BY <1>1, <1>2, <1>3, <1>4, <1>5, <1>6

\* The commit, the prune and the ways a call ends.
LEMMA CommitTypeInv ==
  ASSUME NEW p \in Proc, TypeInv,
         Rename(p) \/ RenameFails(p) \/ Prune(p) \/ Abandon(p)
  PROVE  TypeInv'
<1> USE SentinelAssumption DEF TypeInv, TypeOK, PC
<1>1. Empty \in Payload /\ DOMAIN Empty = {}
  BY EmptyMap DEF Payload
<1>2. CASE Rename(p)
  <2>1. CASE DOMAIN buf[p] \subseteq WasmUrl
    BY <1>2, <2>1 DEF Rename, Goto, LocalsOK
  <2>2. CASE ~(DOMAIN buf[p] \subseteq WasmUrl)
    <3>1. TypeOK'
      BY <1>1, <1>2, <2>2 DEF Rename, Leave
    <3>2. \A q \in Proc : LocalsOK(q)'
      BY <1>1, <1>2, <2>2 DEF Rename, Leave, LocalsOK
    <3>3. QED
      BY <3>1, <3>2
  <2>3. QED
    BY <2>1, <2>2
<1>3. CASE RenameFails(p)
  BY <1>1, <1>3 DEF RenameFails, Leave, LocalsOK, disk
<1>4. CASE Prune(p)
  <2>1. TypeOK'
    BY <1>1, <1>4 DEF Prune, Remove, Leave
  <2>2. \A q \in Proc : LocalsOK(q)'
    BY <1>1, <1>4 DEF Prune, Leave, LocalsOK
  <2>3. QED
    BY <2>1, <2>2
<1>5. CASE Abandon(p)
  <2>1. TypeOK'
    BY <1>1, <1>5 DEF Abandon, Leave, Close, disk
  <2>2. \A q \in Proc : LocalsOK(q)'
    BY <1>1, <1>5 DEF Abandon, Leave, Close, LocalsOK
  <2>3. QED
    BY <2>1, <2>2
<1>6. QED
  BY <1>2, <1>3, <1>4, <1>5

\* The steps of check and wasm_payloads.
LEMMA LoadTypeInv ==
  ASSUME NEW p \in Proc, TypeInv,
         LoadOne(p) \/ Hit(p) \/ LoadPayload(p) \/ ReturnPayloads(p)
  PROVE  TypeInv'
<1> USE SentinelAssumption DEF TypeInv, TypeOK, PC
<1>1. Empty \in Payload /\ DOMAIN Empty = {}
  BY EmptyMap DEF Payload
<1>2. ASSUME pc[p] = "load_set"
      PROVE  /\ mem[p] \in Manifest /\ want[p] \in Version
             /\ \A u \in todo[p] : mem[p].bundles[u] \in DigestSet
  <2>1. mem[p] \in Manifest /\ todo[p] \subseteq DOMAIN mem[p].bundles
        /\ want[p] = mem[p].wa_version
    BY <1>2 DEF LocalsOK
  <2>2. mem[p].bundles \in PartialMap(JsUrl, DigestSet)
    BY <2>1 DEF Manifest
  <2>3. QED
    BY <2>1, <2>2, PartialMapElim DEF Manifest
<1>3. ASSUME pc[p] = "wasm_payloads"
      PROVE  /\ mem[p] \in Manifest /\ want[p] \in Version
             /\ \A u \in todo[p] : mem[p].wasm[u] \in DigestSet
  <2>1. mem[p] \in Manifest /\ todo[p] \subseteq DOMAIN mem[p].wasm
        /\ want[p] = mem[p].wa_version
    BY <1>3 DEF LocalsOK
  <2>2. mem[p].wasm \in PartialMap(WasmUrl, DigestSet)
    BY <2>1 DEF Manifest
  <2>3. QED
    BY <2>1, <2>2, PartialMapElim DEF Manifest
<1>4. CASE LoadOne(p)
  <2>1. PICK u \in todo[p] :
          IF Intact(files[u], mem[p].bundles[u])
          THEN /\ buf' = [buf EXCEPT ![p] = Loaded(@, u, files[u])]
               /\ todo' = [todo EXCEPT ![p] = @ \ {u}]
               /\ UNCHANGED <<pc, want, mem, status>>
          ELSE /\ Leave(p)
               /\ status' = [status EXCEPT ![p] =
                               Reply("miss", want[p], Empty)]
    BY <1>4 DEF LoadOne
  <2>2. CASE Intact(files[u], mem[p].bundles[u])
    <3>1. u \in Url /\ mem[p].bundles[u] \in DigestSet
      BY <1>2, <1>4 DEF LoadOne
    <3>2. files[u] \in Bytes
      BY <2>2, <3>1, IntactIsBytes
    <3>3. Loaded(buf[p], u, files[u]) \in Payload
      BY <3>1, <3>2, LoadedType
    <3>4. TypeOK'
      BY <1>4, <2>1, <2>2, <3>3 DEF LoadOne, disk
    <3>5. \A q \in Proc : LocalsOK(q)'
      BY <1>4, <2>1, <2>2 DEF LoadOne, LocalsOK
    <3>6. QED
      BY <3>4, <3>5
  <2>3. CASE ~Intact(files[u], mem[p].bundles[u])
    <3>0. Reply("miss", want[p], Empty) \in Answers({"hit", "miss"}, Payload)
      BY <1>1, <1>2, <1>4 DEF LoadOne, Reply, Answers
    <3>1. TypeOK'
      BY <1>1, <1>4, <2>1, <2>3, <3>0 DEF LoadOne, Leave, disk
    <3>2. \A q \in Proc : LocalsOK(q)'
      BY <1>1, <1>4, <2>1, <2>3 DEF LoadOne, Leave, LocalsOK
    <3>3. QED
      BY <3>1, <3>2
  <2>4. QED
    BY <2>2, <2>3
<1>5. CASE Hit(p)
  <2>1. TypeOK'
    BY <1>1, <1>2, <1>5 DEF Hit, Leave, disk, Reply, Answers
  <2>2. \A q \in Proc : LocalsOK(q)'
    BY <1>1, <1>5 DEF Hit, Leave, LocalsOK
  <2>3. QED
    BY <2>1, <2>2
<1>6. CASE LoadPayload(p)
  <2>1. PICK u \in todo[p] :
          /\ buf' = [buf EXCEPT ![p] = IF Intact(files[u], mem[p].wasm[u])
                                       THEN Loaded(@, u, files[u]) ELSE @]
          /\ todo' = [todo EXCEPT ![p] = @ \ {u}]
    BY <1>6 DEF LoadPayload
  <2>2. u \in Url /\ mem[p].wasm[u] \in DigestSet
    BY <1>3, <1>6, <2>1 DEF LoadPayload
  <2>3. Intact(files[u], mem[p].wasm[u]) => files[u] \in Bytes
    BY <2>2, IntactIsBytes
  <2>4. buf'[p] \in Payload
    BY <2>1, <2>2, <2>3, LoadedType
  <2>5. TypeOK'
    BY <1>6, <2>1, <2>4 DEF LoadPayload, disk
  <2>6. \A q \in Proc : LocalsOK(q)'
    BY <1>6, <2>1 DEF LoadPayload, LocalsOK
  <2>7. QED
    BY <2>5, <2>6
<1>7. CASE ReturnPayloads(p)
  <2>1. TypeOK'
    BY <1>1, <1>3, <1>7 DEF ReturnPayloads, Leave, disk, Reply, Answers
  <2>2. \A q \in Proc : LocalsOK(q)'
    BY <1>1, <1>7 DEF ReturnPayloads, Leave, LocalsOK
  <2>3. QED
    BY <2>1, <2>2
<1>8. QED
  BY <1>4, <1>5, <1>6, <1>7

LEMMA NextTypeInv ==
  ASSUME TypeInv, [Next]_vars
  PROVE  TypeInv'
<1>1. CASE UNCHANGED vars
  BY <1>1 DEF TypeInv, TypeOK, LocalsOK, vars, disk, local
<1>2. ASSUME NEW p \in Proc, Call(p) PROVE TypeInv'
  BY <1>2, StoreTypeInv, StoreWasmTypeInv, ReadTypeInv DEF Call
<1>3. ASSUME NEW p \in Proc, Step(p) PROVE TypeInv'
  BY <1>3, WriteTypeInv, CommitTypeInv, LoadTypeInv DEF Step
<1>4. ASSUME NEW p \in Proc, Abandon(p) PROVE TypeInv'
  BY <1>4, CommitTypeInv
<1>5. CASE DamageFile
  BY <1>5, SentinelAssumption DEF DamageFile, local, TypeInv, TypeOK, LocalsOK
<1>6. CASE DamageManifest
  <2>1. manifest \in Manifest
    BY <1>6 DEF DamageManifest, Readable, TypeInv, TypeOK
  <2>2. [manifest EXCEPT !.complete = FALSE] \in Manifest
    BY <2>1 DEF Manifest
  <2>3. manifest' \in Manifest \cup {Absent, Torn}
    BY <1>6, <2>2 DEF DamageManifest
  <2>4. QED
    BY <1>6, <2>3, SentinelAssumption
       DEF DamageManifest, local, TypeInv, TypeOK, LocalsOK
<1>7. QED
  BY <1>1, <1>2, <1>3, <1>4, <1>5, <1>6 DEF Next, CrashNext

\* Every variable keeps its type, and a process's locals fit the point its
\* call has reached.
THEOREM TypeCorrect == Spec => []TypeOK
<1>1. Init => TypeInv
  BY InitTypeInv
<1>2. TypeInv /\ [Next]_vars => TypeInv'
  BY NextTypeInv
<1>3. TypeInv => TypeOK
  BY DEF TypeInv
<1>4. QED
  BY <1>1, <1>2, <1>3, PTL DEF Spec

-----------------------------------------------------------------------------
(* A hit is a set some store was given.                                    *)

\* What was offered stays offered, so a manifest stays accounted for.
LEMMA FromStoreStable ==
  ASSUME NEW m, FromStore(m, offered), offered \subseteq offered'
  PROVE  FromStore(m, offered')
BY DEF FromStore

LEMMA OfferedGrows ==
  ASSUME [Next]_vars
  PROVE  offered \subseteq offered'
<1> USE DEF Next, CrashNext, Call, Step, vars
<1>1. CASE UNCHANGED vars
  BY <1>1
<1>2. ASSUME NEW p \in Proc, Call(p) PROVE offered \subseteq offered'
  BY <1>2 DEF Store, StoreWasm, Check, WasmPayloads, WasmHandles
<1>3. ASSUME NEW p \in Proc, Step(p) PROVE offered \subseteq offered'
  BY <1>3 DEF ClearManifest, ClearDir, WriteBegin, WriteEnd, TmpBegin, TmpEnd,
              Rename, RenameFails, Prune, LoadOne, Hit, LoadPayload, ReturnPayloads
<1>4. QED
  BY <1>1, <1>2, <1>3 DEF Abandon, DamageFile, DamageManifest

\* Two maps with equal digests are equal: a whole set that matches a
\* manifest is the set the manifest was made from.
LEMMA EntriesInjective ==
  ASSUME NEW s \in Payload, NEW t \in Payload, DOMAIN t = DOMAIN s,
         \A u \in DOMAIN t : Digest(t[u]) = Entries(s)[u]
  PROVE  t = s
<1>1. s \in [DOMAIN s -> Bytes] /\ t \in [DOMAIN s -> Bytes]
  BY PartialMapElim DEF Payload
<1>2. ASSUME NEW u \in DOMAIN s PROVE t[u] = s[u]
  <2>1. Digest(t[u]) = Digest(s[u])
    BY DEF Entries
  <2>2. QED
    BY <2>1 DEF Digest
<1>3. QED
  BY <1>1, <1>2

\* Every manifest a step leaves on disk or in memory was there before, or
\* differs from one that was in nothing the JS half is about, or is built by
\* a store call from the set it offers.
LEMMA NextManifests ==
  ASSUME TypeInv, ManifestsFromStore, [Next]_vars
  PROVE  ManifestsFromStore'
<1> USE SentinelAssumption DEF ManifestsFromStore, Readable
<1>0. \A m : FromStore(m, offered) => FromStore(m, offered')
  BY OfferedGrows, FromStoreStable
<1>1. CASE UNCHANGED vars
  BY <1>0, <1>1 DEF vars, disk, local
<1>2. ASSUME NEW p \in Proc, NEW v \in Version, NEW s \in BundleSets, Store(p, v, s)
      PROVE  ManifestsFromStore'
  <2>1. FromStore(NewManifest(v, s), offered')
    BY <1>2 DEF FromStore, NewManifest, Store
  <2>2. QED
    BY <1>0, <1>2, <2>1 DEF Store, Enter, disk, TypeInv, TypeOK
<1>3. ASSUME NEW p \in Proc, NEW v \in Version,
             NEW s \in PartialMap(WasmUrl, Bytes), NEW h \in PartialMap(WasmUrl, BxId),
             StoreWasm(p, v, s, h)
      PROVE  ManifestsFromStore'
  <2>1. CASE Usable(manifest, v)
    <3>1. manifest \in Manifest /\ FromStore(manifest, offered')
      BY <1>0, <2>1 DEF Usable, TypeInv, TypeOK
    <3>2. FromStore(WithWasm(manifest, s, h), offered')
      BY <3>1, WithWasmType DEF FromStore
    <3>3. QED
      BY <1>0, <1>3, <2>1, <3>2 DEF StoreWasm, Enter, disk, TypeInv, TypeOK
  <2>2. CASE ~Usable(manifest, v)
    BY <1>0, <1>3, <2>2 DEF StoreWasm, Enter, disk, TypeInv, TypeOK
  <2>3. QED
    BY <2>1, <2>2
<1>4. ASSUME NEW p \in Proc, NEW v \in Version,
             Check(p, v) \/ WasmPayloads(p, v) \/ WasmHandles(p, v)
      PROVE  ManifestsFromStore'
  BY <1>0, <1>4 DEF Check, WasmPayloads, WasmHandles, Enter, disk, Usable,
                    TypeInv, TypeOK
<1>5. ASSUME NEW p \in Proc, Step(p) PROVE ManifestsFromStore'
  <2>1. CASE TmpEnd(p)
    BY <1>0, <2>1 DEF TmpEnd, Landed, TypeInv, TypeOK
  <2>2. CASE Rename(p)
    BY <1>0, <2>2 DEF Rename, Goto, Leave, TypeInv, TypeOK
  <2>3. CASE LoadOne(p)
    BY <1>0, <2>3 DEF LoadOne, Leave, disk, TypeInv, TypeOK
  <2>4. CASE \/ RenameFails(p) \/ Prune(p) \/ Hit(p) \/ ReturnPayloads(p)
    BY <1>0, <2>4 DEF RenameFails, Prune, Hit, ReturnPayloads, Leave, disk,
                      TypeInv, TypeOK
  <2>5. CASE \/ ClearManifest(p)
             \/ ClearDir(p, "clear_bundles", JsUrl, "clear_wasm")
             \/ ClearDir(p, "clear_wasm", WasmUrl, "write")
             \/ WriteBegin(p) \/ WriteEnd(p) \/ TmpBegin(p) \/ LoadPayload(p)
    BY <1>0, <2>5 DEF ClearManifest, ClearDir, WriteBegin, WriteEnd, TmpBegin,
                      LoadPayload, disk
  <2>6. QED
    BY <1>5, <2>1, <2>2, <2>3, <2>4, <2>5 DEF Step
<1>6. ASSUME NEW p \in Proc, Abandon(p) PROVE ManifestsFromStore'
  BY <1>0, <1>6 DEF Abandon, Leave, disk, TypeInv, TypeOK
<1>7. CASE DamageFile
  BY <1>0, <1>7 DEF DamageFile, local
<1>8. CASE DamageManifest
  <2>1. manifest \in Manifest
    BY <1>8 DEF DamageManifest, TypeInv, TypeOK
  <2>2. FromStore([manifest EXCEPT !.complete = FALSE], offered')
    BY <1>0, <1>8, <2>1 DEF DamageManifest, FromStore, Manifest
  <2>3. QED
    BY <1>0, <1>8, <2>2 DEF DamageManifest, local
<1>9. QED
  BY <1>1, <1>2, <1>3, <1>4, <1>5, <1>6, <1>7, <1>8 DEF Next, CrashNext, Call

\* The locals of a process, and what its last check returned.
mine(q) == <<pc[q], want[q], mem[q], buf[q], todo[q], status[q]>>

\* A step that leaves p's locals alone leaves what p has loaded alone.
LEMMA LoadedOKStable ==
  ASSUME NEW q \in Proc, LoadedOK(q), UNCHANGED mine(q)
  PROVE  LoadedOK(q)'
BY DEF LoadedOK, mine

\* A step of p changes no other process's locals.
LEMMA OthersUntouched ==
  ASSUME TypeInv, NEW p \in Proc, Call(p) \/ Step(p) \/ Abandon(p),
         NEW q \in Proc, q # p
  PROVE  UNCHANGED mine(q)
<1> USE DEF TypeInv, TypeOK, mine
<1>1. CASE Call(p)
  BY <1>1 DEF Call, Store, StoreWasm, Check, WasmPayloads, WasmHandles, Enter
<1>2. CASE Step(p)
  <2>1. CASE \/ ClearManifest(p)
             \/ ClearDir(p, "clear_bundles", JsUrl, "clear_wasm")
             \/ ClearDir(p, "clear_wasm", WasmUrl, "write")
             \/ WriteBegin(p) \/ WriteEnd(p) \/ TmpBegin(p) \/ TmpEnd(p)
    BY <2>1 DEF ClearManifest, ClearDir, WriteBegin, WriteEnd, TmpBegin, TmpEnd, Goto
  <2>2. CASE Rename(p) \/ RenameFails(p) \/ Prune(p)
    BY <2>2 DEF Rename, RenameFails, Prune, Leave, Goto
  <2>3. CASE LoadOne(p) \/ Hit(p) \/ LoadPayload(p) \/ ReturnPayloads(p)
    BY <2>3 DEF LoadOne, Hit, LoadPayload, ReturnPayloads, Leave
  <2>4. QED
    BY <1>2, <2>1, <2>2, <2>3 DEF Step
<1>3. CASE Abandon(p)
  BY <1>3 DEF Abandon, Leave
<1>4. QED
  BY <1>1, <1>2, <1>3

\* What p itself has loaded after one of its own steps.
LEMMA OwnLoadedOK ==
  ASSUME TypeInv, NEW p \in Proc, LoadedOK(p),
         Call(p) \/ Step(p) \/ Abandon(p)
  PROVE  LoadedOK(p)'
<1> USE DEF TypeInv, TypeOK, LoadedOK
<1>1. DOMAIN Empty = {}
  BY EmptyMap
<1>2. CASE Call(p)
  BY <1>1, <1>2 DEF Call, Store, StoreWasm, Check, WasmPayloads, WasmHandles, Enter
<1>3. CASE \/ ClearManifest(p)
           \/ ClearDir(p, "clear_bundles", JsUrl, "clear_wasm")
           \/ ClearDir(p, "clear_wasm", WasmUrl, "write")
           \/ WriteBegin(p) \/ WriteEnd(p) \/ TmpBegin(p) \/ TmpEnd(p)
  BY <1>3 DEF ClearManifest, ClearDir, WriteBegin, WriteEnd, TmpBegin, TmpEnd, Goto
<1>4. CASE Rename(p) \/ RenameFails(p) \/ Prune(p) \/ Hit(p) \/ ReturnPayloads(p)
           \/ Abandon(p) \/ LoadPayload(p)
  BY <1>4 DEF Rename, RenameFails, Prune, Hit, ReturnPayloads, Abandon, LoadPayload,
              Leave, Goto
<1>5. CASE LoadOne(p)
  <2>1. mem[p] \in Manifest /\ todo[p] \subseteq DOMAIN mem[p].bundles
        /\ mem[p].bundles \in PartialMap(JsUrl, DigestSet)
    BY <1>5 DEF LoadOne, LocalsOK, Manifest
  <2>2. PICK u \in todo[p] :
          \/ /\ Intact(files[u], mem[p].bundles[u])
             /\ buf' = [buf EXCEPT ![p] = Loaded(@, u, files[u])]
             /\ todo' = [todo EXCEPT ![p] = @ \ {u}]
             /\ UNCHANGED <<pc, want, mem, status>>
          \/ Leave(p)
    BY <1>5 DEF LoadOne
  <2>3. CASE Leave(p)
    BY <2>3 DEF Leave
  <2>4. CASE Intact(files[u], mem[p].bundles[u]) /\ UNCHANGED <<pc, want, mem, status>>
             /\ buf' = [buf EXCEPT ![p] = Loaded(@, u, files[u])]
             /\ todo' = [todo EXCEPT ![p] = @ \ {u}]
    <3>1. buf'[p] = Loaded(buf[p], u, files[u]) /\ todo'[p] = todo[p] \ {u}
      BY <2>4
    <3>2. DOMAIN buf'[p] = DOMAIN buf[p] \cup {u}
      BY <3>1 DEF Loaded
    <3>3. DOMAIN buf'[p] = DOMAIN mem[p].bundles \ todo'[p]
      BY <1>5, <2>1, <3>1, <3>2 DEF LoadOne
    <3>4. \A w \in DOMAIN buf'[p] : Digest(buf'[p][w]) = mem[p].bundles[w]
      BY <1>5, <2>4, <3>1, <3>2 DEF Loaded, LoadOne, Intact
    <3>5. QED
      BY <2>4, <3>3, <3>4
  <2>5. QED
    BY <2>2, <2>3, <2>4
<1>6. QED
  BY <1>2, <1>3, <1>4, <1>5 DEF Step

\* The one step that answers "hit" answers with a stored set.
LEMMA HitAnswer ==
  ASSUME TypeInv, ManifestsFromStore, NEW p \in Proc, LoadedOK(p), Hit(p)
  PROVE  [kind |-> "js", wa_version |-> want[p], set |-> buf[p]] \in offered
<1>1. /\ mem[p] \in Manifest /\ mem[p] # Absent /\ want[p] = mem[p].wa_version
      /\ pc[p] = "load_set" /\ todo[p] = {}
  BY DEF Hit, TypeInv, LocalsOK
<1>2. PICK s \in BundleSets :
        /\ [kind |-> "js", wa_version |-> mem[p].wa_version, set |-> s] \in offered
        /\ mem[p].bundles = Entries(s)
  BY <1>1 DEF ManifestsFromStore, FromStore
<1>3. s \in Payload /\ buf[p] \in Payload
  BY PayloadTypes DEF BundleSets, TypeInv, TypeOK
<1>4. DOMAIN buf[p] = DOMAIN s
  BY <1>1, <1>2 DEF LoadedOK, Entries
<1>5. buf[p] = s
  BY <1>1, <1>2, <1>3, <1>4, EntriesInjective DEF LoadedOK
<1>6. QED
  BY <1>1, <1>2, <1>5

\* A step that does not answer "hit" changes no such answer.
LEMMA HitStatusStable ==
  ASSUME TypeInv, HitIsAStoredSet, [Next]_vars, NEW q \in Proc,
         LoadedOK(q), ManifestsFromStore
  PROVE  status'[q] # Absent /\ status'[q].kind = "hit" =>
           [kind |-> "js", wa_version |-> status'[q].wa_version,
            set |-> status'[q].set] \in offered'
<1> USE DEF HitIsAStoredSet
<1>0. offered \subseteq offered'
  BY OfferedGrows
<1>1. CASE status'[q] = status[q]
  BY <1>0, <1>1
<1>2. CASE Hit(q)
  BY <1>0, <1>2, HitAnswer DEF Hit, Reply, TypeInv, TypeOK
<1>3. CASE LoadOne(q)
  BY <1>0, <1>3 DEF LoadOne, Reply, TypeInv, TypeOK
<1>4. CASE \E v \in Version : Check(q, v)
  BY <1>0, <1>4 DEF Check, Reply, TypeInv, TypeOK
<1>5. CASE Call(q) /\ ~(\E v \in Version : Check(q, v))
  <2>1. status'[q] = status[q]
    BY <1>5 DEF Call, Store, StoreWasm, WasmPayloads, WasmHandles
  <2>2. QED
    BY <1>1, <2>1
<1>6. CASE Step(q) /\ ~Hit(q) /\ ~LoadOne(q)
  <2>1. status'[q] = status[q]
    BY <1>6 DEF Step, ClearManifest, ClearDir, WriteBegin, WriteEnd, TmpBegin,
                TmpEnd, Rename, RenameFails, Prune, LoadPayload, ReturnPayloads
  <2>2. QED
    BY <1>1, <2>1
<1>7. CASE Abandon(q) \/ DamageFile \/ DamageManifest \/ UNCHANGED vars
  <2>1. status'[q] = status[q]
    BY <1>7 DEF Abandon, DamageFile, DamageManifest, vars
  <2>2. QED
    BY <1>1, <2>1
<1>8. ASSUME NEW p \in Proc, Call(p) \/ Step(p) \/ Abandon(p), p # q
      PROVE  status'[q] = status[q]
  BY <1>8, OthersUntouched DEF mine
<1>9. QED
  BY <1>1, <1>2, <1>3, <1>4, <1>5, <1>6, <1>7, <1>8 DEF Next, CrashNext

LEMMA NextHitInv ==
  ASSUME TypeInv, HitInv, [Next]_vars
  PROVE  HitInv'
<1>1. ManifestsFromStore'
  BY NextManifests DEF HitInv
<1>2. ASSUME NEW q \in Proc PROVE LoadedOK(q)'
  <2>1. CASE Call(q) \/ Step(q) \/ Abandon(q)
    BY <2>1, OwnLoadedOK DEF HitInv
  <2>2. CASE \E p \in Proc : p # q /\ (Call(p) \/ Step(p) \/ Abandon(p))
    BY <2>2, OthersUntouched, LoadedOKStable DEF HitInv
  <2>3. CASE DamageFile \/ DamageManifest \/ UNCHANGED vars
    <3>1. UNCHANGED mine(q)
      BY <2>3 DEF DamageFile, DamageManifest, vars, local, mine
    <3>2. QED
      BY <3>1, LoadedOKStable DEF HitInv
  <2>4. QED
    BY <2>1, <2>2, <2>3 DEF Next, CrashNext
<1>3. HitIsAStoredSet'
  BY HitStatusStable DEF HitInv, HitIsAStoredSet
<1>4. QED
  BY <1>1, <1>2, <1>3 DEF HitInv

\* check returns only sets that one store call was given for the version it
\* was asked about, whatever other processes do to the directory, wherever
\* calls are cut short and whichever files are damaged.
THEOREM HitsAreStoredSets == Spec => []HitIsAStoredSet
<1>1. Init => TypeInv
  BY InitTypeInv
<1>2. Init => HitInv
  BY DEF Init, HitInv, ManifestsFromStore, Readable, LoadedOK, HitIsAStoredSet
<1>3. TypeInv /\ [Next]_vars => TypeInv'
  BY NextTypeInv
<1>4. TypeInv /\ HitInv /\ [Next]_vars => HitInv'
  BY NextHitInv
<1>5. HitInv => HitIsAStoredSet
  BY DEF HitInv
<1>6. QED
  BY <1>1, <1>2, <1>3, <1>4, <1>5, PTL DEF Spec
-----------------------------------------------------------------------------
(* Payloads and handles are what some store_wasm was given.                *)

\* The wasm half of a manifest is empty, or what one store_wasm call was given for
\* the manifest's version.
WasmFromStore(m, offers) ==
  \/ m.wasm = Empty /\ m.wasm_handles = Empty
  \/ \E s \in PartialMap(WasmUrl, Bytes), h \in PartialMap(WasmUrl, BxId) :
       /\ [kind |-> "wasm", wa_version |-> m.wa_version, set |-> s, handles |-> h] \in offers
       /\ m.wasm = Entries(s)
       /\ m.wasm_handles = [u \in DOMAIN s \cap DOMAIN h |-> h[u]]

WasmManifestsFromStore ==
  /\ Readable(manifest) => WasmFromStore(manifest, offered)
  /\ Readable(tmp) => WasmFromStore(tmp, offered)
  /\ \A p \in Proc : mem[p] # Absent => WasmFromStore(mem[p], offered)

\* The payloads a process has loaded so far have the digests its manifest records.
PayloadsLoadedOK(p) ==
  pc[p] = "wasm_payloads" =>
    /\ DOMAIN buf[p] \subseteq DOMAIN mem[p].wasm
    /\ \A u \in DOMAIN buf[p] : Digest(buf[p][u]) = mem[p].wasm[u]

WasmInv ==
  /\ WasmManifestsFromStore
  /\ \A p \in Proc : PayloadsLoadedOK(p)
  /\ PayloadsWereStored
  /\ HandlesWereStored

\* The manifests store and store_wasm write.
LEMMA NewWasmFromStore ==
  ASSUME NEW v, NEW s, NEW offers
  PROVE  WasmFromStore(NewManifest(v, s), offers)
BY DEF WasmFromStore, NewManifest

LEMMA WithWasmFromStore ==
  ASSUME NEW m \in Manifest, NEW offers,
         NEW s \in PartialMap(WasmUrl, Bytes), NEW h \in PartialMap(WasmUrl, BxId),
         [kind |-> "wasm", wa_version |-> m.wa_version, set |-> s, handles |-> h] \in offers
  PROVE  WasmFromStore(WithWasm(m, s, h), offers)
<1> DEFINE w == WithWasm(m, s, h)
<1>1. /\ w.wa_version = m.wa_version /\ w.wasm = Entries(s)
      /\ w.wasm_handles = [u \in DOMAIN s \cap DOMAIN h |-> h[u]]
  BY DEF WithWasm, Manifest
<1>2. QED
  BY <1>1 DEF WasmFromStore

LEMMA SameWasmHalf ==
  ASSUME NEW m, NEW n, NEW offers, WasmFromStore(m, offers),
         n.wa_version = m.wa_version, n.wasm = m.wasm, n.wasm_handles = m.wasm_handles
  PROVE  WasmFromStore(n, offers)
BY DEF WasmFromStore

\* As NextManifests, for the wasm half.
LEMMA NextWasmManifests ==
  ASSUME TypeInv, WasmManifestsFromStore, [Next]_vars
  PROVE  WasmManifestsFromStore'
<1> USE SentinelAssumption DEF WasmManifestsFromStore, Readable
<1>0. \A m : WasmFromStore(m, offered) => WasmFromStore(m, offered')
  <2>1. offered \subseteq offered'
    BY OfferedGrows
  <2>2. QED
    BY <2>1 DEF WasmFromStore
<1>1. CASE UNCHANGED vars
  BY <1>0, <1>1 DEF vars, disk, local
<1>2. ASSUME NEW p \in Proc, NEW v \in Version, NEW s \in BundleSets, Store(p, v, s)
      PROVE  WasmManifestsFromStore'
  BY <1>0, <1>2, NewWasmFromStore DEF Store, Enter, disk, TypeInv, TypeOK
<1>3. ASSUME NEW p \in Proc, NEW v \in Version,
             NEW s \in PartialMap(WasmUrl, Bytes), NEW h \in PartialMap(WasmUrl, BxId),
             StoreWasm(p, v, s, h)
      PROVE  WasmManifestsFromStore'
  <2>1. CASE Usable(manifest, v)
    <3>1. manifest \in Manifest /\ manifest.wa_version = v
      BY <2>1 DEF Usable, TypeInv, TypeOK
    <3>2. [kind |-> "wasm", wa_version |-> v, set |-> s, handles |-> h] \in offered'
      BY <1>3 DEF StoreWasm
    <3>3. WasmFromStore(WithWasm(manifest, s, h), offered')
      BY <3>1, <3>2, WithWasmFromStore
    <3>4. QED
      BY <1>0, <1>3, <2>1, <3>3 DEF StoreWasm, Enter, disk, TypeInv, TypeOK
  <2>2. CASE ~Usable(manifest, v)
    BY <1>0, <1>3, <2>2 DEF StoreWasm, Enter, disk, TypeInv, TypeOK
  <2>3. QED
    BY <2>1, <2>2
<1>4. ASSUME NEW p \in Proc, NEW v \in Version,
             Check(p, v) \/ WasmPayloads(p, v) \/ WasmHandles(p, v)
      PROVE  WasmManifestsFromStore'
  BY <1>0, <1>4 DEF Check, WasmPayloads, WasmHandles, Enter, disk, Usable,
                    TypeInv, TypeOK
<1>5. ASSUME NEW p \in Proc, Step(p) PROVE WasmManifestsFromStore'
  <2>1. CASE TmpEnd(p)
    BY <1>0, <2>1 DEF TmpEnd, Landed, TypeInv, TypeOK
  <2>2. CASE Rename(p)
    BY <1>0, <2>2 DEF Rename, Goto, Leave, TypeInv, TypeOK
  <2>3. CASE LoadOne(p)
    BY <1>0, <2>3 DEF LoadOne, Leave, disk, TypeInv, TypeOK
  <2>4. CASE \/ RenameFails(p) \/ Prune(p) \/ Hit(p) \/ ReturnPayloads(p)
    BY <1>0, <2>4 DEF RenameFails, Prune, Hit, ReturnPayloads, Leave, disk,
                      TypeInv, TypeOK
  <2>5. CASE \/ ClearManifest(p)
             \/ ClearDir(p, "clear_bundles", JsUrl, "clear_wasm")
             \/ ClearDir(p, "clear_wasm", WasmUrl, "write")
             \/ WriteBegin(p) \/ WriteEnd(p) \/ TmpBegin(p) \/ LoadPayload(p)
    BY <1>0, <2>5 DEF ClearManifest, ClearDir, WriteBegin, WriteEnd, TmpBegin,
                      LoadPayload, disk
  <2>6. QED
    BY <1>5, <2>1, <2>2, <2>3, <2>4, <2>5 DEF Step
<1>6. ASSUME NEW p \in Proc, Abandon(p) PROVE WasmManifestsFromStore'
  BY <1>0, <1>6 DEF Abandon, Leave, disk, TypeInv, TypeOK
<1>7. CASE DamageFile
  BY <1>0, <1>7 DEF DamageFile, local
<1>8. CASE DamageManifest
  <2>1. manifest \in Manifest
    BY <1>8 DEF DamageManifest, TypeInv, TypeOK
  <2> DEFINE m == [manifest EXCEPT !.complete = FALSE]
  <2>2. m.wa_version = manifest.wa_version /\ m.wasm = manifest.wasm
        /\ m.wasm_handles = manifest.wasm_handles
    BY <2>1 DEF Manifest
  <2>3. WasmFromStore(manifest, offered')
    BY <1>0, <1>8 DEF DamageManifest
  <2>4. WasmFromStore(m, offered')
    BY <2>2, <2>3, SameWasmHalf
  <2>5. manifest' \in {Absent, Torn, m} /\ UNCHANGED <<tmp, mem, offered>>
    BY <1>8 DEF DamageManifest, local
  <2>6. QED
    BY <1>0, <2>4, <2>5
<1>9. QED
  BY <1>1, <1>2, <1>3, <1>4, <1>5, <1>6, <1>7, <1>8 DEF Next, CrashNext, Call

\* What p itself has loaded after one of its own steps.
LEMMA OwnPayloadsLoadedOK ==
  ASSUME TypeInv, NEW p \in Proc, PayloadsLoadedOK(p),
         Call(p) \/ Step(p) \/ Abandon(p)
  PROVE  PayloadsLoadedOK(p)'
<1> USE DEF TypeInv, TypeOK, PayloadsLoadedOK
<1>1. DOMAIN Empty = {}
  BY EmptyMap
<1>2. CASE Call(p)
  BY <1>1, <1>2 DEF Call, Store, StoreWasm, Check, WasmPayloads, WasmHandles, Enter
<1>3. CASE \/ ClearManifest(p)
           \/ ClearDir(p, "clear_bundles", JsUrl, "clear_wasm")
           \/ ClearDir(p, "clear_wasm", WasmUrl, "write")
           \/ WriteBegin(p) \/ WriteEnd(p) \/ TmpBegin(p) \/ TmpEnd(p)
  BY <1>3 DEF ClearManifest, ClearDir, WriteBegin, WriteEnd, TmpBegin, TmpEnd, Goto
<1>4. CASE Rename(p) \/ RenameFails(p) \/ Prune(p) \/ Hit(p) \/ ReturnPayloads(p)
           \/ Abandon(p) \/ LoadOne(p)
  BY <1>4 DEF Rename, RenameFails, Prune, Hit, ReturnPayloads, Abandon, LoadOne,
              Leave, Goto
<1>5. CASE LoadPayload(p)
  <2>1. PICK u \in todo[p] :
          buf' = [buf EXCEPT ![p] = IF Intact(files[u], mem[p].wasm[u])
                                    THEN Loaded(@, u, files[u]) ELSE @]
    BY <1>5 DEF LoadPayload
  <2>2. u \in DOMAIN mem[p].wasm
    BY <1>5 DEF LoadPayload, LocalsOK
  <2>3. CASE Intact(files[u], mem[p].wasm[u])
    <3>1. buf'[p] = Loaded(buf[p], u, files[u]) /\ mem'[p] = mem[p]
      BY <1>5, <2>1, <2>3 DEF LoadPayload
    <3>2. Digest(files[u]) = mem[p].wasm[u]
      BY <2>3 DEF Intact
    <3>3. QED
      BY <1>5, <2>2, <3>1, <3>2 DEF Loaded, LoadPayload
  <2>4. CASE ~Intact(files[u], mem[p].wasm[u])
    BY <1>5, <2>1, <2>4 DEF LoadPayload
  <2>5. QED
    BY <2>3, <2>4
<1>6. QED
  BY <1>2, <1>3, <1>4, <1>5 DEF Step

PayloadsAnswer(a, offers) ==
  a # Absent /\ a.kind = "payloads" =>
    \/ a.set = Empty
    \/ \E o \in offers :
         /\ o.kind = "wasm" /\ o.wa_version = a.wa_version
         /\ DOMAIN a.set \subseteq DOMAIN o.set
         /\ \A u \in DOMAIN a.set : a.set[u] = o.set[u]

HandlesAnswer(a, offers) ==
  a # Absent /\ a.kind = "handles" =>
    \A u \in DOMAIN a.set : \E o \in offers :
      /\ o.kind = "wasm" /\ o.wa_version = a.wa_version
      /\ u \in DOMAIN o.set \cap DOMAIN o.handles
      /\ a.set[u] = o.handles[u]

\* The one step that answers with payloads it has loaded.
LEMMA PayloadsReturned ==
  ASSUME TypeInv, WasmManifestsFromStore, NEW p \in Proc, PayloadsLoadedOK(p),
         ReturnPayloads(p)
  PROVE  PayloadsAnswer(Reply("payloads", want[p], buf[p]), offered)
<1> DEFINE a == Reply("payloads", want[p], buf[p])
<1>1. /\ mem[p] \in Manifest /\ mem[p] # Absent /\ want[p] = mem[p].wa_version
      /\ DOMAIN buf[p] \subseteq DOMAIN mem[p].wasm
      /\ \A u \in DOMAIN buf[p] : Digest(buf[p][u]) = mem[p].wasm[u]
  BY DEF ReturnPayloads, TypeInv, LocalsOK, PayloadsLoadedOK
<1>2. a.wa_version = want[p] /\ a.set = buf[p] /\ a.kind = "payloads"
  BY DEF Reply
<1>3. WasmFromStore(mem[p], offered)
  BY <1>1 DEF WasmManifestsFromStore
<1>4. CASE mem[p].wasm = Empty
  <2>1. DOMAIN buf[p] = {}
    BY <1>1, <1>4, EmptyMap
  <2>2. buf[p] \in [DOMAIN buf[p] -> Bytes]
    BY PartialMapElim DEF TypeInv, TypeOK, Payload
  <2>3. buf[p] = Empty
    BY <2>1, <2>2 DEF Empty
  <2>4. QED
    BY <1>2, <2>3 DEF PayloadsAnswer
<1>5. CASE mem[p].wasm # Empty
  <2>1. PICK s \in PartialMap(WasmUrl, Bytes), h \in PartialMap(WasmUrl, BxId) :
          /\ [kind |-> "wasm", wa_version |-> mem[p].wa_version, set |-> s, handles |-> h]
               \in offered
          /\ mem[p].wasm = Entries(s)
    BY <1>3, <1>5 DEF WasmFromStore
  <2> DEFINE o == [kind |-> "wasm", wa_version |-> mem[p].wa_version, set |-> s, handles |-> h]
  <2>2. \A u \in DOMAIN buf[p] : u \in DOMAIN s /\ Digest(buf[p][u]) = Digest(s[u])
    BY <1>1, <2>1 DEF Entries
  <2>3. \A u \in DOMAIN buf[p] : u \in DOMAIN s /\ buf[p][u] = s[u]
    BY <2>2 DEF Digest
  <2>4. o \in offered /\ o.kind = "wasm" /\ o.wa_version = want[p] /\ o.set = s
    BY <1>1, <2>1
  <2>5. QED
    BY <1>2, <2>3, <2>4 DEF PayloadsAnswer
<1>6. QED
  BY <1>4, <1>5

\* wasm_handles answers from the manifest.
LEMMA HandlesReturned ==
  ASSUME TypeInv, WasmManifestsFromStore, NEW v \in Version,
         Readable(manifest), manifest.wa_version = v
  PROVE  HandlesAnswer(Reply("handles", v, manifest.wasm_handles), offered)
<1> DEFINE a == Reply("handles", v, manifest.wasm_handles)
<1>1. a.wa_version = v /\ a.set = manifest.wasm_handles /\ a.kind = "handles"
  BY DEF Reply
<1>2. WasmFromStore(manifest, offered)
  BY DEF WasmManifestsFromStore
<1>3. CASE manifest.wasm_handles = Empty
  BY <1>1, <1>3, EmptyMap DEF HandlesAnswer
<1>4. CASE manifest.wasm_handles # Empty
  <2>1. PICK s \in PartialMap(WasmUrl, Bytes), h \in PartialMap(WasmUrl, BxId) :
          /\ [kind |-> "wasm", wa_version |-> v, set |-> s, handles |-> h] \in offered
          /\ manifest.wasm_handles = [u \in DOMAIN s \cap DOMAIN h |-> h[u]]
    BY <1>2, <1>4 DEF WasmFromStore
  <2> DEFINE o == [kind |-> "wasm", wa_version |-> v, set |-> s, handles |-> h]
  <2>2. o \in offered /\ o.kind = "wasm" /\ o.wa_version = v /\ o.set = s /\ o.handles = h
    BY <2>1
  <2>3. \A u \in DOMAIN a.set : u \in DOMAIN s \cap DOMAIN h /\ a.set[u] = h[u]
    BY <1>1, <2>1
  <2>4. QED
    BY <1>1, <2>2, <2>3 DEF HandlesAnswer
<1>5. QED
  BY <1>3, <1>4

\* A step of p changes no other process's answer.
LEMMA OthersAnswer ==
  ASSUME TypeInv, NEW p \in Proc, Call(p) \/ Step(p) \/ Abandon(p),
         NEW q \in Proc, q # p
  PROVE  answer'[q] = answer[q]
<1> USE DEF TypeInv, TypeOK
<1>1. CASE Call(p)
  BY <1>1 DEF Call, Store, StoreWasm, Check, WasmPayloads, WasmHandles
<1>2. CASE Step(p)
  BY <1>2 DEF Step, ClearManifest, ClearDir, WriteBegin, WriteEnd, TmpBegin, TmpEnd,
              Rename, RenameFails, Prune, LoadOne, Hit, LoadPayload, ReturnPayloads
<1>3. CASE Abandon(p)
  BY <1>3 DEF Abandon
<1>4. QED
  BY <1>1, <1>2, <1>3

\* Answers given stay accounted for, and a new one is.
LEMMA NextAnswers ==
  ASSUME TypeInv, WasmInv, [Next]_vars, NEW q \in Proc
  PROVE  PayloadsAnswer(answer'[q], offered') /\ HandlesAnswer(answer'[q], offered')
<1> USE DEF TypeInv, TypeOK
<1>0. offered \subseteq offered'
  BY OfferedGrows
<1>1. \A a : /\ PayloadsAnswer(a, offered) => PayloadsAnswer(a, offered')
             /\ HandlesAnswer(a, offered) => HandlesAnswer(a, offered')
  BY <1>0 DEF PayloadsAnswer, HandlesAnswer
<1>2. CASE answer'[q] = answer[q]
  <2>1. PayloadsAnswer(answer[q], offered) /\ HandlesAnswer(answer[q], offered)
    BY DEF WasmInv, PayloadsWereStored, HandlesWereStored, Answered, PayloadsAnswer,
           HandlesAnswer
  <2>2. QED
    BY <1>1, <1>2, <2>1
<1>3. CASE ReturnPayloads(q)
  <2>1. answer'[q] = Reply("payloads", want[q], buf[q])
    BY <1>3 DEF ReturnPayloads
  <2>2. HandlesAnswer(answer'[q], offered')
    BY <2>1 DEF HandlesAnswer, Reply
  <2>3. QED
    BY <1>1, <1>3, <2>1, <2>2, PayloadsReturned DEF WasmInv
<1>4. ASSUME NEW v \in Version, WasmPayloads(q, v)
      PROVE  PayloadsAnswer(answer'[q], offered') /\ HandlesAnswer(answer'[q], offered')
  <2>1. answer'[q] = answer[q] \/ answer'[q] = Reply("payloads", v, Empty)
    BY <1>4 DEF WasmPayloads
  <2>2. QED
    BY <1>2, <2>1 DEF PayloadsAnswer, HandlesAnswer, Reply
<1>5. ASSUME NEW v \in Version, WasmHandles(q, v)
      PROVE  PayloadsAnswer(answer'[q], offered') /\ HandlesAnswer(answer'[q], offered')
  <2>1. CASE Readable(manifest) /\ manifest.wa_version = v
    <3>1. answer'[q] = Reply("handles", v, manifest.wasm_handles)
      BY <1>5, <2>1 DEF WasmHandles
    <3>2. PayloadsAnswer(answer'[q], offered')
      BY <3>1 DEF PayloadsAnswer, Reply
    <3>3. QED
      BY <1>1, <2>1, <3>1, <3>2, HandlesReturned DEF WasmInv
  <2>2. CASE ~(Readable(manifest) /\ manifest.wa_version = v)
    <3>1. answer'[q] = Reply("handles", v, Empty)
      BY <1>5, <2>2 DEF WasmHandles
    <3>2. QED
      BY <3>1, EmptyMap DEF PayloadsAnswer, HandlesAnswer, Reply
  <2>3. QED
    BY <2>1, <2>2
<1>6. CASE Call(q) /\ ~(\E v \in Version : WasmPayloads(q, v) \/ WasmHandles(q, v))
  <2>1. answer'[q] = answer[q]
    BY <1>6 DEF Call, Store, StoreWasm, Check
  <2>2. QED
    BY <1>2, <2>1
<1>7. CASE Step(q) /\ ~ReturnPayloads(q)
  <2>1. answer'[q] = answer[q]
    BY <1>7 DEF Step, ClearManifest, ClearDir, WriteBegin, WriteEnd, TmpBegin,
                TmpEnd, Rename, RenameFails, Prune, LoadOne, Hit, LoadPayload
  <2>2. QED
    BY <1>2, <2>1
<1>8. CASE Abandon(q) \/ DamageFile \/ DamageManifest \/ UNCHANGED vars
  <2>1. answer'[q] = answer[q]
    BY <1>8 DEF Abandon, DamageFile, DamageManifest, vars
  <2>2. QED
    BY <1>2, <2>1
<1>9. ASSUME NEW p \in Proc, Call(p) \/ Step(p) \/ Abandon(p), p # q
      PROVE  answer'[q] = answer[q]
  BY <1>9, OthersAnswer
<1>10. QED
  BY <1>2, <1>3, <1>4, <1>5, <1>6, <1>7, <1>8, <1>9 DEF Next, CrashNext

LEMMA NextWasmInv ==
  ASSUME TypeInv, WasmInv, [Next]_vars
  PROVE  WasmInv'
<1>1. WasmManifestsFromStore'
  BY NextWasmManifests DEF WasmInv
<1>2. ASSUME NEW q \in Proc PROVE PayloadsLoadedOK(q)'
  <2>1. CASE Call(q) \/ Step(q) \/ Abandon(q)
    BY <2>1, OwnPayloadsLoadedOK DEF WasmInv
  <2>2. CASE UNCHANGED mine(q)
    BY <2>2 DEF WasmInv, PayloadsLoadedOK, mine
  <2>3. CASE \E p \in Proc : p # q /\ (Call(p) \/ Step(p) \/ Abandon(p))
    BY <2>2, <2>3, OthersUntouched
  <2>4. CASE DamageFile \/ DamageManifest \/ UNCHANGED vars
    BY <2>2, <2>4 DEF DamageFile, DamageManifest, vars, local, mine
  <2>5. QED
    BY <2>1, <2>3, <2>4 DEF Next, CrashNext
<1>3. PayloadsWereStored' /\ HandlesWereStored'
  BY NextAnswers DEF PayloadsWereStored, HandlesWereStored, Answered, PayloadsAnswer,
                     HandlesAnswer
<1>4. QED
  BY <1>1, <1>2, <1>3 DEF WasmInv

\* Once established, the wasm half stays accounted for.
LEMMA WasmHalf == Spec => []WasmInv
<1>1. Init => TypeInv
  BY InitTypeInv
<1>2. Init => WasmInv
  BY DEF Init, WasmInv, WasmManifestsFromStore, Readable, PayloadsLoadedOK,
         PayloadsWereStored, HandlesWereStored, Answered
<1>3. TypeInv /\ [Next]_vars => TypeInv'
  BY NextTypeInv
<1>4. TypeInv /\ WasmInv /\ [Next]_vars => WasmInv'
  BY NextWasmInv
<1>5. QED
  BY <1>1, <1>2, <1>3, <1>4, PTL DEF Spec

\* wasm_payloads returns only payloads that one store_wasm call was given for the
\* version it was asked about, with their bytes, whatever other processes do.
THEOREM PayloadsAreStoredOnes == Spec => []PayloadsWereStored
<1>1. WasmInv => PayloadsWereStored
  BY DEF WasmInv
<1>2. QED
  BY <1>1, WasmHalf, PTL

\* wasm_handles returns only pairings that were stored with a payload, for the
\* version it was asked about, whatever other processes do.
THEOREM HandlesAreStoredOnes == Spec => []HandlesWereStored
<1>1. WasmInv => HandlesWereStored
  BY DEF WasmInv
<1>2. QED
  BY <1>1, WasmHalf, PTL

-----------------------------------------------------------------------------
(* Processes that take turns: the cache is one register.                   *)

\* Process p is in store, past or before the point where the old manifest goes.
JsWriter(p) ==
  /\ buf[p] \in BundleSets
  /\ \E v \in Version : mem[p] = NewManifest(v, buf[p])
  /\ pc[p] # "clear_manifest" => manifest = Absent

\* Process p is in store_wasm: the JS half of what it writes is the one on disk.
WasmWriter(p) ==
  /\ DOMAIN buf[p] \subseteq WasmUrl
  /\ Readable(manifest) /\ manifest.complete /\ mem[p].complete
  /\ mem[p].wa_version = manifest.wa_version /\ mem[p].bundles = manifest.bundles

\* What the disk holds of what the one running call has done so far.
RunOK(p) ==
  /\ pc[p] \in {"clear_manifest", "clear_bundles", "clear_wasm"} =>
       JsWriter(p) /\ todo[p] = DOMAIN buf[p]
  /\ pc[p] \in {"write", "tmp", "rename"} =>
       /\ JsWriter(p) \/ WasmWriter(p)
       /\ \A u \in DOMAIN buf[p] \ todo[p] : files[u] = buf[p][u]
       /\ mem[p] \notin {Absent, Torn}
  /\ pc[p] \in {"tmp", "rename"} => todo[p] = {}
  /\ pc[p] = "rename" => tmp = mem[p]
  /\ pc[p] = "load_set" => mem[p] = manifest /\ Readable(manifest) /\ manifest.complete

Alone == \A p, q \in Proc : pc[p] # "idle" /\ pc[q] # "idle" => p = q

TurnInv ==
  /\ Alone
  /\ spoiled = {}
  /\ \A p \in Proc : RunOK(p)
  /\ CommittedSetIsWhole

Turn(p) == \A q \in Proc \ {p} : pc[q] = "idle"

\* A set given to store is not one of wasm payloads.
LEMMA BundlesAreNotWasm ==
  ASSUME NEW s \in BundleSets
  PROVE  DOMAIN s \subseteq JsUrl /\ ~(DOMAIN s \subseteq WasmUrl) /\ s \in [DOMAIN s -> Bytes]
<1>1. DOMAIN s \subseteq JsUrl /\ s \in [DOMAIN s -> Bytes] /\ s # Empty
  BY PartialMapElim DEF BundleSets
<1>2. DOMAIN s # {}
  BY <1>1 DEF Empty
<1>3. QED
  BY <1>1, <1>2, SentinelAssumption

\* The bundles of a manifest are JS bundles.
LEMMA BundlesAreJs ==
  ASSUME NEW m \in Manifest
  PROVE  DOMAIN m.bundles \subseteq JsUrl /\ DOMAIN m.bundles \cap WasmUrl = {}
<1>1. m.bundles \in PartialMap(JsUrl, DigestSet)
  BY DEF Manifest
<1>2. QED
  BY <1>1, PartialMapElim, SentinelAssumption

\* A call that ends, or has not begun, owes nothing; the other processes are idle.
LEMMA TurnFrame ==
  ASSUME TypeInv, TurnInv, NEW p \in Proc, Turn(p), spoiled' = {},
         \A q \in Proc \ {p} : pc'[q] = pc[q],
         RunOK(p)', CommittedSetIsWhole'
  PROVE  TurnInv'
<1>1. \A q \in Proc \ {p} : pc'[q] = "idle"
  BY DEF Turn
<1>2. \A q \in Proc : RunOK(q)'
  BY <1>1 DEF RunOK
<1>3. Alone'
  BY <1>1 DEF Alone
<1>4. QED
  BY <1>2, <1>3 DEF TurnInv

\* The JS half on disk stays whole when neither it nor its files change.
LEMMA WholeStable ==
  ASSUME TypeInv, CommittedSetIsWhole, manifest' = manifest,
         \A u \in JsUrl : files'[u] = files[u]
  PROVE  CommittedSetIsWhole' /\ held' = held
<1>1. CASE Readable(manifest)
  <2>1. DOMAIN manifest.bundles \subseteq JsUrl
    BY <1>1, BundlesAreJs DEF Readable, TypeInv, TypeOK
  <2>2. QED
    BY <1>1, <2>1 DEF CommittedSetIsWhole, held, Readable
<1>2. CASE ~Readable(manifest)
  BY <1>2 DEF CommittedSetIsWhole, held, Readable
<1>3. QED
  BY <1>1, <1>2

LEMMA InitTurnInv == Init => TurnInv
BY DEF Init, TurnInv, Alone, RunOK, CommittedSetIsWhole, Readable

\* A call begins.
LEMMA CallTurnInv ==
  ASSUME TypeInv, TurnInv, NEW p \in Proc, Turn(p), Call(p)
  PROVE  TurnInv'
<1> USE SentinelAssumption, ManifestAssumption DEF TypeInv, TypeOK
<1>1. /\ UNCHANGED <<disk, spoiled>> /\ pc[p] = "idle"
      /\ \A q \in Proc \ {p} : pc'[q] = pc[q]
  BY DEF Call, Store, StoreWasm, Check, WasmPayloads, WasmHandles, Enter, disk
<1>2. CommittedSetIsWhole' /\ spoiled' = {}
  BY <1>1, WholeStable DEF TurnInv, disk
<1>3. ASSUME NEW v \in Version, NEW s \in BundleSets, Store(p, v, s) PROVE RunOK(p)'
  BY <1>3 DEF Store, Enter, RunOK, JsWriter
<1>4. ASSUME NEW v \in Version, NEW s \in PartialMap(WasmUrl, Bytes),
             NEW h \in PartialMap(WasmUrl, BxId), StoreWasm(p, v, s, h)
      PROVE  RunOK(p)'
  <2>1. CASE Usable(manifest, v)
    <3> DEFINE w == WithWasm(manifest, s, h)
    <3>1. manifest \in Manifest
      BY <2>1 DEF Usable, Readable
    <3>2. /\ w \in Manifest /\ w.wa_version = manifest.wa_version
          /\ w.bundles = manifest.bundles /\ w.complete = manifest.complete
      <4>1. w.complete = manifest.complete
        BY <3>1 DEF WithWasm, Manifest
      <4>2. QED
        BY <3>1, <4>1, WithWasmType
    <3>3. DOMAIN s \subseteq WasmUrl
      BY PartialMapElim
    <3>4. /\ pc'[p] = "write" /\ mem'[p] = w /\ buf'[p] = s /\ todo'[p] = DOMAIN s
          /\ manifest' = manifest
      BY <1>4, <2>1 DEF StoreWasm, Enter, disk
    <3>5. WasmWriter(p)'
      BY <2>1, <3>2, <3>3, <3>4 DEF WasmWriter, Usable, Readable
    <3>6. QED
      BY <3>2, <3>4, <3>5 DEF RunOK
  <2>2. CASE ~Usable(manifest, v)
    BY <1>4, <2>2 DEF StoreWasm, Enter, RunOK
  <2>3. QED
    BY <2>1, <2>2
<1>5. ASSUME NEW v \in Version, Check(p, v) \/ WasmPayloads(p, v) \/ WasmHandles(p, v)
      PROVE  RunOK(p)'
  BY <1>1, <1>5 DEF Check, WasmPayloads, WasmHandles, Enter, RunOK, Usable, disk, Readable
<1>6. RunOK(p)'
  BY <1>3, <1>4, <1>5 DEF Call
<1>7. QED
  BY <1>1, <1>2, <1>6, TurnFrame

\* No file another process has open is touched.
LEMMA NothingSpoiled ==
  ASSUME TypeInv, TurnInv, NEW p \in Proc, Turn(p), NEW q \in Proc, open[q] # Absent
  PROVE  q = p /\ pc[p] \in {"write", "tmp"}
BY DEF TypeInv, LocalsOK, Turn

\* store drops the manifest first, then the files.
LEMMA ClearTurnInv ==
  ASSUME TypeInv, TurnInv, NEW p \in Proc, Turn(p),
         \/ ClearManifest(p)
         \/ ClearDir(p, "clear_bundles", JsUrl, "clear_wasm")
         \/ ClearDir(p, "clear_wasm", WasmUrl, "write")
  PROVE  /\ TurnInv'
         /\ manifest' = Absent
         /\ JsWriter(p)'
         /\ pc'[p] \in {"clear_bundles", "clear_wasm", "write"}
<1> USE SentinelAssumption, ManifestAssumption DEF TypeInv, TypeOK
<1>1. JsWriter(p) /\ mem[p] \in Manifest
  <2>1. JsWriter(p)
    BY DEF ClearManifest, ClearDir, TurnInv, RunOK
  <2>2. QED
    BY <2>1, NewManifestType DEF JsWriter, BundleSets
<1>2. CASE ClearManifest(p)
  <2>1. /\ pc[p] = "clear_manifest" /\ pc'[p] = "clear_bundles" /\ manifest' = Absent /\ UNCHANGED <<mem, buf, todo, spoiled>>
        /\ \A q \in Proc \ {p} : pc'[q] = pc[q]
    BY <1>2 DEF ClearManifest, Goto
  <2>2. JsWriter(p)'
    BY <1>1, <2>1 DEF JsWriter
  <2>3. todo'[p] = DOMAIN buf'[p]
    BY <2>1 DEF TurnInv, RunOK
  <2>4. RunOK(p)'
    BY <2>1, <2>2, <2>3 DEF RunOK
  <2>5. CommittedSetIsWhole' /\ spoiled' = {}
    BY <2>1 DEF CommittedSetIsWhole, Readable, TurnInv
  <2>6. QED
    BY <2>1, <2>2, <2>4, <2>5, TurnFrame
<1>3. ASSUME NEW here \in {"clear_bundles", "clear_wasm"}, NEW dir \in {JsUrl, WasmUrl},
             NEW next \in {"clear_wasm", "write"}, ClearDir(p, here, dir, next)
      PROVE  /\ TurnInv' /\ manifest' = Absent /\ JsWriter(p)'
             /\ pc'[p] \in {"clear_bundles", "clear_wasm", "write"}
  <2>1. pc[p] = here /\ manifest = Absent
    BY <1>1, <1>3 DEF ClearDir, JsWriter
  <2>2. /\ pc'[p] \in {here, next} /\ UNCHANGED <<manifest, mem, buf, todo>>
        /\ \A q \in Proc \ {p} : pc'[q] = pc[q]
    BY <1>3 DEF ClearDir, Goto
  <2>3. spoiled' = {}
    <3>1. PICK gone \in SUBSET Url : spoiled' = spoiled \cup {q \in Proc : open[q] \in gone}
      <4>1. PICK gone \in SUBSET dir : Remove(gone)
        BY <1>3 DEF ClearDir
      <4>2. QED
        BY <4>1 DEF Remove, Url
    <3>2. \A q \in Proc : open[q] = Absent
      BY <2>1, NothingSpoiled
    <3>3. QED
      BY <3>1, <3>2 DEF TurnInv
  <2>4. JsWriter(p)'
    BY <1>1, <2>1, <2>2 DEF JsWriter
  <2>5. RunOK(p)'
    <3>1. CASE pc'[p] = "write"
      <4>1. todo'[p] = DOMAIN buf'[p] /\ mem'[p] \notin {Absent, Torn}
        BY <1>1, <2>1, <2>2 DEF TurnInv, RunOK
      <4>2. QED
        BY <2>4, <3>1, <4>1 DEF RunOK
    <3>2. CASE pc'[p] # "write"
      BY <2>1, <2>2, <2>4, <3>2 DEF RunOK, TurnInv
    <3>3. QED
      BY <3>1, <3>2
  <2>6. CommittedSetIsWhole'
    BY <2>1, <2>2 DEF CommittedSetIsWhole, Readable
  <2>7. QED
    BY <2>1, <2>2, <2>3, <2>4, <2>5, <2>6, TurnFrame
<1>4. QED
  BY <1>2, <1>3

\* Files are written, then the manifest beside the old one.
LEMMA WriteTurnInv ==
  ASSUME TypeInv, TurnInv, NEW p \in Proc, Turn(p),
         WriteBegin(p) \/ WriteEnd(p) \/ TmpBegin(p) \/ TmpEnd(p)
  PROVE  /\ TurnInv' /\ held' = held
         /\ pc[p] \in {"write", "tmp"} /\ pc'[p] \in {"write", "tmp", "rename"}
         /\ UNCHANGED <<manifest, mem, buf, status>>
<1> USE SentinelAssumption, ManifestAssumption DEF TypeInv, TypeOK
<1>1. pc[p] \in {"write", "tmp"} /\ UNCHANGED <<mem, buf, status>> /\ p \notin spoiled
  BY DEF WriteBegin, WriteEnd, TmpBegin, TmpEnd, TurnInv
<1>2. JsWriter(p) \/ WasmWriter(p)
  BY <1>1 DEF TurnInv, RunOK
<1>3. \A q \in Proc : open[q] # Absent => q = p
  BY NothingSpoiled
<1>4. /\ pc'[p] \in {"write", "tmp", "rename"} /\ UNCHANGED manifest
      /\ \A q \in Proc \ {p} : pc'[q] = pc[q]
  BY <1>1 DEF WriteBegin, WriteEnd, TmpBegin, TmpEnd, Goto
<1>5. ASSUME NEW path, path # Absent, Truncate(p, path) PROVE spoiled' = {}
  BY <1>3, <1>5 DEF Truncate, TurnInv
<1>6. spoiled' = {}
  <2>1. CASE WriteBegin(p)
    BY <1>5, <2>1 DEF WriteBegin
  <2>2. CASE TmpBegin(p)
    BY <1>5, <2>2 DEF TmpBegin
  <2>3. CASE WriteEnd(p) \/ TmpEnd(p)
    BY <2>3 DEF WriteEnd, TmpEnd, Close, TurnInv
  <2>4. QED
    BY <2>1, <2>2, <2>3
\* What is written is a file that was not done yet.
<1>7. /\ todo'[p] \subseteq todo[p]
      /\ \A u \in Url : files'[u] # files[u] =>
           \/ u \in todo[p] /\ todo' = todo
           \/ u \in todo[p] \ todo'[p] /\ files'[u] = buf[p][u]
      /\ \A u \in todo[p] \ todo'[p] : files'[u] = buf[p][u]
  <2>1. CASE WriteBegin(p)
    BY <2>1 DEF WriteBegin
  <2>2. CASE WriteEnd(p)
    <3>1. open[p] \in todo[p] /\ open[p] \in Url
      BY <2>2 DEF WriteEnd, LocalsOK
    <3>2. /\ files' = [files EXCEPT ![open[p]] = buf[p][open[p]]]
          /\ todo'[p] = todo[p] \ {open[p]}
      BY <1>1, <2>2 DEF WriteEnd, Landed
    <3>3. QED
      BY <3>1, <3>2
  <2>3. CASE TmpBegin(p) \/ TmpEnd(p)
    BY <2>3 DEF TmpBegin, TmpEnd
  <2>4. QED
    BY <2>1, <2>2, <2>3
<1>8. DOMAIN buf[p] \subseteq Url
  BY PartialMapElim DEF Payload
<1>9. \A u \in DOMAIN buf'[p] \ todo'[p] : files'[u] = buf'[p][u]
  <2>1. \A u \in DOMAIN buf[p] \ todo[p] : files[u] = buf[p][u]
    BY <1>1 DEF TurnInv, RunOK
  <2>2. QED
    BY <1>1, <1>7, <1>8, <2>1
<1>10. JsWriter(p)' \/ WasmWriter(p)'
  <2>1. CASE JsWriter(p)
    BY <1>1, <1>4, <2>1 DEF JsWriter
  <2>2. CASE WasmWriter(p)
    BY <1>1, <1>4, <2>2 DEF WasmWriter
  <2>3. QED
    BY <1>2, <2>1, <2>2
<1>11. pc'[p] \in {"tmp", "rename"} => todo'[p] = {}
  BY DEF WriteBegin, WriteEnd, TmpBegin, TmpEnd, Goto, TurnInv, RunOK
<1>12. pc'[p] = "rename" => tmp' = mem'[p]
  BY <1>1 DEF WriteBegin, WriteEnd, TmpBegin, TmpEnd, Goto, Landed
<1>13. RunOK(p)'
  <2>1. mem'[p] \notin {Absent, Torn}
    BY <1>1 DEF TurnInv, RunOK
  <2>2. QED
    BY <1>4, <1>9, <1>10, <1>11, <1>12, <2>1 DEF RunOK
<1>14. CommittedSetIsWhole' /\ held' = held
  <2>1. CASE JsWriter(p)
    <3>1. manifest = Absent /\ manifest' = Absent
      BY <1>1, <1>4, <2>1 DEF JsWriter
    <3>2. QED
      BY <3>1 DEF CommittedSetIsWhole, held, Readable
  <2>2. CASE WasmWriter(p)
    <3>1. todo[p] \subseteq WasmUrl
      <4>1. pc[p] = "write" => todo[p] \subseteq DOMAIN buf[p]
        BY DEF LocalsOK
      <4>2. pc[p] = "tmp" => todo[p] = {}
        BY DEF TurnInv, RunOK
      <4>3. QED
        BY <1>1, <2>2, <4>1, <4>2 DEF WasmWriter
    <3>2. \A u \in JsUrl : files'[u] = files[u]
      BY <1>7, <3>1 DEF Url
    <3>3. QED
      BY <1>4, <3>2, WholeStable DEF TurnInv
  <2>3. QED
    BY <1>2, <2>1, <2>2
<1>15. TurnInv'
  BY <1>4, <1>6, <1>13, <1>14, TurnFrame
<1>16. QED
  BY <1>1, <1>4, <1>14, <1>15

\* The commit: the whole new set of store, or the JS half as it was.
LEMMA RenameTurnInv ==
  ASSUME TypeInv, TurnInv, NEW p \in Proc, Turn(p), Rename(p)
  PROVE  /\ TurnInv'
         /\ pc[p] = "rename" /\ pc'[p] \in {"prune", "idle"}
         /\ \/ /\ JsWriter(p)
               /\ \E v \in Version : held' = [wa_version |-> v, set |-> buf[p]]
            \/ WasmWriter(p) /\ held' = held
<1> USE SentinelAssumption, ManifestAssumption DEF TypeInv, TypeOK
<1>1. /\ pc[p] = "rename" /\ tmp = mem[p] /\ manifest' = mem[p]
      /\ mem[p] \notin {Absent, Torn} /\ mem[p] \in Manifest /\ files' = files
      /\ \A u \in DOMAIN buf[p] : files[u] = buf[p][u]
      /\ JsWriter(p) \/ WasmWriter(p)
  BY DEF Rename, TurnInv, RunOK
<1>2. pc'[p] \in {"prune", "idle"} /\ \A q \in Proc \ {p} : pc'[q] = pc[q]
  BY DEF Rename, Goto, Leave
<1>3. spoiled' = {}
  <2>1. \A q \in Proc : open[q] = Absent
    BY <1>1, NothingSpoiled
  <2>2. QED
    BY <2>1 DEF Rename, TurnInv
<1>4. RunOK(p)'
  BY <1>2 DEF RunOK
<1>5. CASE JsWriter(p)
  <2>1. PICK v \in Version : mem[p] = NewManifest(v, buf[p])
    BY <1>5 DEF JsWriter
  <2>2. buf[p] \in [DOMAIN buf[p] -> Bytes] /\ DOMAIN buf[p] \subseteq JsUrl
    BY <1>5, BundlesAreNotWasm DEF JsWriter
  <2>3. /\ manifest'.wa_version = v /\ manifest'.complete = TRUE
        /\ manifest'.bundles = Entries(buf[p]) /\ Readable(manifest')
    BY <1>1, <2>1 DEF NewManifest, Readable
  <2>4. CommittedSetIsWhole'
    BY <1>1, <2>2, <2>3 DEF CommittedSetIsWhole, Entries, Intact
  <2>5. [u \in DOMAIN manifest'.bundles |-> files'[u]] = buf[p]
    BY <1>1, <2>2, <2>3 DEF Entries
  <2>6. held' = [wa_version |-> v, set |-> buf[p]]
    BY <2>3, <2>5 DEF held
  <2>7. QED
    BY <1>1, <1>2, <1>3, <1>4, <1>5, <2>4, <2>6, TurnFrame
<1>6. CASE WasmWriter(p)
  <2>1. /\ Readable(manifest') /\ Readable(manifest) /\ manifest.complete /\ manifest'.complete
        /\ manifest'.wa_version = manifest.wa_version /\ manifest'.bundles = manifest.bundles
    BY <1>1, <1>6 DEF WasmWriter, Readable
  <2>2. held' = held
    BY <1>1, <2>1 DEF held
  <2>3. CommittedSetIsWhole'
    BY <1>1, <2>1 DEF CommittedSetIsWhole, TurnInv
  <2>4. QED
    BY <1>1, <1>2, <1>3, <1>4, <1>6, <2>2, <2>3, TurnFrame
<1>7. QED
  BY <1>1, <1>5, <1>6

\* The ways a call ends without touching the JS half.
LEMMA EndTurnInv ==
  ASSUME TypeInv, TurnInv, NEW p \in Proc, Turn(p),
         Prune(p) \/ Abandon(p) \/ ReturnPayloads(p) \/ LoadPayload(p)
  PROVE  TurnInv' /\ held' = held /\ UNCHANGED status /\ pc'[p] \in {"idle", "wasm_payloads"}
<1> USE SentinelAssumption DEF TypeInv, TypeOK
<1>1. /\ UNCHANGED <<manifest, tmp, status>> /\ \A q \in Proc \ {p} : pc'[q] = pc[q]
      /\ pc'[p] \in {"idle", "wasm_payloads"}
  BY DEF Prune, Abandon, ReturnPayloads, LoadPayload, Leave, disk
<1>2. spoiled' = {} /\ \A u \in JsUrl : files'[u] = files[u]
  <2>1. CASE Prune(p)
    <3>1. PICK gone \in SUBSET WasmUrl : Remove(gone)
      BY <2>1 DEF Prune
    <3>2. \A q \in Proc : open[q] = Absent
      BY <2>1, NothingSpoiled DEF Prune
    <3>3. QED
      BY <3>1, <3>2 DEF Remove, TurnInv, Url
  <2>2. CASE Abandon(p) \/ ReturnPayloads(p) \/ LoadPayload(p)
    BY <2>2 DEF Abandon, ReturnPayloads, LoadPayload, Close, disk, TurnInv
  <2>3. QED
    BY <2>1, <2>2
<1>3. CommittedSetIsWhole' /\ held' = held
  BY <1>1, <1>2, WholeStable DEF TurnInv
<1>4. RunOK(p)'
  BY <1>1 DEF RunOK
<1>5. QED
  BY <1>1, <1>2, <1>3, <1>4, TurnFrame

\* Another process cannot have renamed the temporary file away.
LEMMA RenameSucceeds ==
  ASSUME TypeInv, TurnInv, NEW p \in Proc
  PROVE  ~RenameFails(p)
BY DEF RenameFails, TurnInv, RunOK

\* Every bundle that is looked up is there: check never misses half-way.
LEMMA LoadTurnInv ==
  ASSUME TypeInv, TurnInv, NEW p \in Proc, Turn(p), LoadOne(p)
  PROVE  TurnInv' /\ held' = held /\ UNCHANGED status /\ pc'[p] = "load_set"
<1> USE SentinelAssumption DEF TypeInv, TypeOK
<1>1. /\ pc[p] = "load_set" /\ mem[p] = manifest /\ Readable(manifest) /\ manifest.complete
      /\ todo[p] \subseteq DOMAIN manifest.bundles /\ UNCHANGED <<disk, spoiled>>
  BY DEF LoadOne, TurnInv, RunOK, LocalsOK
<1>2. \A u \in todo[p] : Intact(files[u], mem[p].bundles[u])
  BY <1>1 DEF TurnInv, CommittedSetIsWhole
<1>3. UNCHANGED <<pc, mem, status>>
  BY <1>2 DEF LoadOne
<1>4. CommittedSetIsWhole' /\ held' = held
  BY <1>1, WholeStable DEF disk, TurnInv
<1>5. RunOK(p)'
  BY <1>1, <1>3 DEF RunOK, disk
<1>6. QED
  BY <1>1, <1>3, <1>4, <1>5, TurnFrame DEF TurnInv

LEMMA HitTurnInv ==
  ASSUME TypeInv, TurnInv, NEW p \in Proc, Turn(p), LoadedOK(p), Hit(p)
  PROVE  /\ TurnInv' /\ held' = held /\ pc'[p] = "idle"
         /\ held # Absent /\ held.wa_version = want[p] /\ held.set = buf[p]
<1> USE SentinelAssumption DEF TypeInv, TypeOK
<1>1. /\ pc[p] = "load_set" /\ todo[p] = {} /\ mem[p] = manifest /\ Readable(manifest)
      /\ manifest.complete /\ manifest \in Manifest /\ want[p] = manifest.wa_version
      /\ UNCHANGED <<disk, spoiled>>
  BY DEF Hit, TurnInv, RunOK, LocalsOK, Readable
<1>2. pc'[p] = "idle" /\ \A q \in Proc \ {p} : pc'[q] = pc[q]
  BY DEF Hit, Leave
<1>3. CommittedSetIsWhole' /\ held' = held
  BY <1>1, WholeStable DEF disk, TurnInv
<1>4. RunOK(p)'
  BY <1>2 DEF RunOK
<1>5. TurnInv'
  BY <1>1, <1>2, <1>3, <1>4, TurnFrame DEF TurnInv
<1>6. held = [wa_version |-> manifest.wa_version,
              set |-> [u \in DOMAIN manifest.bundles |-> files[u]]]
  BY <1>1 DEF held
<1>7. [u \in DOMAIN manifest.bundles |-> files[u]] = buf[p]
  <2>1. DOMAIN buf[p] = DOMAIN manifest.bundles
        /\ \A u \in DOMAIN buf[p] : Digest(buf[p][u]) = manifest.bundles[u]
    BY <1>1 DEF LoadedOK
  <2>2. \A u \in DOMAIN buf[p] : Digest(files[u]) = Digest(buf[p][u])
    BY <1>1, <2>1 DEF TurnInv, CommittedSetIsWhole, Intact
  <2>3. \A u \in DOMAIN buf[p] : files[u] = buf[p][u]
    BY <2>2 DEF Digest
  <2>4. buf[p] \in [DOMAIN buf[p] -> Bytes]
    BY PartialMapElim DEF Payload
  <2>5. QED
    BY <2>1, <2>3, <2>4
<1>8. held # Absent
  <2>1. DOMAIN buf[p] \subseteq JsUrl
    BY <1>1, <1>7, BundlesAreJs
  <2>2. buf[p] \in PartialMap(JsUrl, Bytes)
    <3>1. buf[p] \in [DOMAIN buf[p] -> Bytes]
      BY PartialMapElim DEF Payload
    <3>2. QED
      BY <2>1, <3>1, PartialMapIntro
  <2>3. manifest.wa_version \in Version
    BY <1>1 DEF Manifest
  <2>4. QED
    BY <1>6, <1>7, <2>2, <2>3, ManifestAssumption DEF HeldSet
<1>9. QED
  BY <1>1, <1>2, <1>3, <1>5, <1>6, <1>7, <1>8

LEMMA NextTurnInv ==
  ASSUME TypeInv, \A p \in Proc : LoadedOK(p), TurnInv, [TurnNext]_vars
  PROVE  TurnInv'
<1>1. CASE UNCHANGED vars
  BY <1>1 DEF vars, disk, local, TurnInv, Alone, RunOK, JsWriter, WasmWriter,
              CommittedSetIsWhole
<1>2. ASSUME NEW p \in Proc, Turn(p), Call(p) \/ Step(p) \/ Abandon(p)
      PROVE  TurnInv'
  BY <1>2, CallTurnInv, ClearTurnInv, WriteTurnInv, RenameTurnInv, EndTurnInv,
     RenameSucceeds, LoadTurnInv, HitTurnInv DEF Step
<1>3. QED
  BY <1>1, <1>2 DEF TurnNext, Turn

\* While processes take turns they take steps of Next.
LEMMA TurnIsNext == [TurnNext]_vars => [Next]_vars
BY DEF TurnNext, Next, CrashNext

LEMMA TurnInvariants == TurnSpec => [](TypeInv /\ HitInv /\ TurnInv)
<1>1. Init => TypeInv /\ HitInv /\ TurnInv
  BY InitTypeInv, InitTurnInv
     DEF Init, HitInv, ManifestsFromStore, Readable, LoadedOK, HitIsAStoredSet
<1>2. TypeInv /\ HitInv /\ TurnInv /\ [TurnNext]_vars => (TypeInv /\ HitInv /\ TurnInv)'
  BY TurnIsNext, NextTypeInv, NextHitInv, NextTurnInv DEF HitInv
<1>3. QED
  BY <1>1, <1>2, PTL DEF TurnSpec

\* While processes take turns, a manifest on disk names only JS bundles that are on
\* disk, whole, wherever calls are cut short.
THEOREM CommittedSetStaysWhole == TurnSpec => []CommittedSetIsWhole
<1>1. TurnInv => CommittedSetIsWhole
  BY DEF TurnInv
<1>2. QED
  BY <1>1, TurnInvariants, PTL

-----------------------------------------------------------------------------
(* The refinement.                                                         *)

Register == INSTANCE VersionCache WITH Sets <- BundleSets

StoringAt(p) ==
  \/ pc[p] \in {"clear_bundles", "clear_wasm"}
  \/ pc[p] \in {"write", "tmp", "rename"} /\ ~(DOMAIN buf[p] \subseteq WasmUrl)

\* Only the process whose turn it is can be storing.
LEMMA StoringIsInTurn ==
  ASSUME NEW p \in Proc, Turn(p), \A q \in Proc \ {p} : pc'[q] = pc[q]
  PROVE  (storing <=> StoringAt(p)) /\ (storing' <=> StoringAt(p)')
<1>1. \A q \in Proc \ {p} : pc[q] = "idle" /\ pc'[q] = "idle"
  BY DEF Turn
<1>2. QED
  BY <1>1 DEF storing, StoringAt

\* A call either leaves the register alone or looks up and misses at once.
LEMMA CallRefines ==
  ASSUME TypeInv, TurnInv, NEW p \in Proc, Turn(p), Call(p)
  PROVE  [Register!Next]_(Register!vars)
<1> USE DEF TypeInv, TypeOK
<1>1. /\ UNCHANGED disk /\ pc[p] = "idle" /\ \A q \in Proc \ {p} : pc'[q] = pc[q]
      /\ pc'[p] \in {"idle", "clear_manifest", "write", "load_set", "wasm_payloads"}
  BY DEF Call, Store, StoreWasm, Check, WasmPayloads, WasmHandles, Enter
<1>2. held' = held
  BY <1>1, WholeStable DEF TurnInv, disk
<1>3. pc'[p] = "write" => DOMAIN buf'[p] \subseteq WasmUrl
  <2>1. ASSUME pc'[p] = "write" PROVE DOMAIN buf'[p] \subseteq WasmUrl
    <3>1. PICK v \in Version, s \in PartialMap(WasmUrl, Bytes),
               h \in PartialMap(WasmUrl, BxId) : StoreWasm(p, v, s, h)
      BY <2>1 DEF Call, Store, Check, WasmPayloads, WasmHandles, Enter
    <3>2. buf'[p] = s
      BY <2>1, <3>1 DEF StoreWasm, Enter
    <3>3. QED
      BY <3>2, PartialMapElim
  <2>2. QED
    BY <2>1
<1>4. storing' = storing
  <2>1. ~StoringAt(p) /\ ~StoringAt(p)'
    BY <1>1, <1>3 DEF StoringAt
  <2>2. storing \in BOOLEAN /\ storing' \in BOOLEAN
    BY DEF storing
  <2>3. QED
    BY <1>1, <2>1, <2>2, StoringIsInTurn
<1>5. CASE UNCHANGED status
  BY <1>2, <1>4, <1>5 DEF Register!vars
<1>6. CASE ~UNCHANGED status
  <2>1. PICK v \in Version : Check(p, v) /\ ~Usable(manifest, v)
    BY <1>6 DEF Call, Store, StoreWasm, Check, WasmPayloads, WasmHandles
  <2>2. held = Absent \/ held.wa_version # v
    BY <2>1 DEF held, Usable
  <2>3. status' = [status EXCEPT ![p] = [kind |-> "miss", wa_version |-> v,
                                         set |-> [u \in {} |-> Absent]]]
    BY <2>1 DEF Check, Reply, Empty
  <2>4. Register!NotFound(p, v)
    BY <1>2, <1>4, <2>2, <2>3 DEF Register!NotFound
  <2>5. QED
    BY <2>4 DEF Register!Next
<1>7. QED
  BY <1>5, <1>6

\* store empties the register, fills it, or is cut short; nothing else touches it.
LEMMA StepRefines ==
  ASSUME TypeInv, TurnInv, NEW p \in Proc, Turn(p), LoadedOK(p), Step(p) \/ Abandon(p)
  PROVE  [Register!Next]_(Register!vars)
<1> USE SentinelAssumption DEF TypeInv, TypeOK
<1>0. storing \in BOOLEAN /\ storing' \in BOOLEAN
  BY DEF storing
<1>1. \A q \in Proc \ {p} : pc'[q] = pc[q]
  BY DEF Step, Abandon, ClearManifest, ClearDir, WriteBegin, WriteEnd, TmpBegin, TmpEnd,
         Rename, RenameFails, Prune, LoadOne, Hit, LoadPayload, ReturnPayloads, Leave, Goto
<1>2. (storing <=> StoringAt(p)) /\ (storing' <=> StoringAt(p)')
  BY <1>1, StoringIsInTurn
<1>3. CASE \/ ClearManifest(p)
           \/ ClearDir(p, "clear_bundles", JsUrl, "clear_wasm")
           \/ ClearDir(p, "clear_wasm", WasmUrl, "write")
  <2>1. manifest' = Absent /\ JsWriter(p)' /\ pc'[p] \in {"clear_bundles", "clear_wasm", "write"}
    BY <1>3, ClearTurnInv
  <2>2. held' = Absent /\ UNCHANGED <<buf, status>>
    BY <1>3, <2>1 DEF held, Readable, ClearManifest, ClearDir
  <2>3. ~(DOMAIN buf[p] \subseteq WasmUrl)
    <3>1. JsWriter(p)
      BY <1>3 DEF ClearManifest, ClearDir, TurnInv, RunOK
    <3>2. QED
      BY <3>1, BundlesAreNotWasm DEF JsWriter
  <2>4. storing' = TRUE
    BY <1>0, <1>2, <2>1, <2>2, <2>3 DEF StoringAt
  <2>5. Register!Begin
    BY <2>2, <2>4 DEF Register!Begin
  <2>6. QED
    BY <2>5 DEF Register!Next
<1>4. CASE WriteBegin(p) \/ WriteEnd(p) \/ TmpBegin(p) \/ TmpEnd(p)
  <2>1. /\ held' = held /\ UNCHANGED <<buf, status>>
        /\ pc[p] \in {"write", "tmp"} /\ pc'[p] \in {"write", "tmp", "rename"}
    BY <1>4, WriteTurnInv
  <2>2. storing' = storing
    BY <1>0, <1>2, <2>1 DEF StoringAt
  <2>3. QED
    BY <2>1, <2>2 DEF Register!vars
<1>5. CASE Rename(p)
  <2>1. /\ pc[p] = "rename" /\ pc'[p] \in {"prune", "idle"}
        /\ \/ /\ JsWriter(p)
              /\ \E v \in Version : held' = [wa_version |-> v, set |-> buf[p]]
           \/ WasmWriter(p) /\ held' = held
    BY <1>5, RenameTurnInv
  <2>2. storing' = FALSE /\ UNCHANGED status
    BY <1>0, <1>2, <1>5, <2>1 DEF StoringAt, Rename
  <2>3. CASE JsWriter(p) /\ \E v \in Version : held' = [wa_version |-> v, set |-> buf[p]]
    <3>1. PICK v \in Version : held' = [wa_version |-> v, set |-> buf[p]]
      BY <2>3
    <3>2. storing
      BY <1>2, <2>1, <2>3, BundlesAreNotWasm DEF StoringAt, JsWriter
    <3>3. Register!Commit(v, buf[p])
      BY <2>2, <3>1, <3>2 DEF Register!Commit
    <3>4. QED
      BY <2>3, <3>3 DEF Register!Next, JsWriter
  <2>4. CASE WasmWriter(p) /\ held' = held
    <3>1. storing = FALSE
      BY <1>0, <1>2, <2>1, <2>4 DEF StoringAt, WasmWriter
    <3>2. QED
      BY <2>2, <2>4, <3>1 DEF Register!vars
  <2>5. QED
    BY <2>1, <2>3, <2>4
<1>6. CASE Prune(p) \/ Abandon(p) \/ ReturnPayloads(p) \/ LoadPayload(p)
  <2>1. held' = held /\ UNCHANGED status /\ pc'[p] \in {"idle", "wasm_payloads"}
    BY <1>6, EndTurnInv
  <2>2. storing' = FALSE
    BY <1>0, <1>2, <2>1 DEF StoringAt
  <2>3. CASE storing
    BY <2>1, <2>2, <2>3 DEF Register!Next, Register!Abort
  <2>4. CASE ~storing
    BY <1>0, <2>1, <2>2, <2>4 DEF Register!vars
  <2>5. QED
    BY <2>3, <2>4
<1>7. CASE LoadOne(p)
  <2>1. held' = held /\ UNCHANGED status /\ pc'[p] = "load_set" /\ pc[p] = "load_set"
    BY <1>7, LoadTurnInv DEF LoadOne
  <2>2. storing' = storing
    BY <1>0, <1>2, <2>1 DEF StoringAt
  <2>3. QED
    BY <2>1, <2>2 DEF Register!vars
<1>8. CASE Hit(p)
  <2>1. /\ held' = held /\ pc'[p] = "idle" /\ pc[p] = "load_set"
        /\ held # Absent /\ held.wa_version = want[p] /\ held.set = buf[p]
        /\ want[p] \in Version
    BY <1>8, HitTurnInv DEF Hit, LocalsOK, Manifest
  <2>2. storing' = storing
    BY <1>0, <1>2, <2>1 DEF StoringAt
  <2>3. status' = [status EXCEPT ![p] = [kind |-> "hit", wa_version |-> want[p],
                                         set |-> held.set]]
    BY <1>8, <2>1 DEF Hit, Reply
  <2>4. Register!Found(p, want[p])
    BY <2>1, <2>2, <2>3 DEF Register!Found
  <2>5. QED
    BY <2>1, <2>4 DEF Register!Next
<1>9. QED
  BY <1>3, <1>4, <1>5, <1>6, <1>7, <1>8, RenameSucceeds DEF Step

\* While processes take turns, wherever their calls are cut short, the JS half of the
\* cache is the register of VersionCache: emptied and then filled by store, untouched
\* by store_wasm, and found by every check for its version.
THEOREM CacheIsARegister == TurnSpec => Register!Spec
<1>1. Init => Register!Init
  BY DEF Init, Register!Init, held, storing, Readable
<1>2. TypeInv /\ HitInv /\ TurnInv /\ [TurnNext]_vars => [Register!Next]_(Register!vars)
  <2>1. ASSUME TypeInv, HitInv, TurnInv, UNCHANGED vars
        PROVE  UNCHANGED Register!vars
    BY <2>1 DEF vars, disk, local, Register!vars, held, storing
  <2>2. ASSUME TypeInv, HitInv, TurnInv, TurnNext
        PROVE  [Register!Next]_(Register!vars)
    BY <2>2, CallRefines, StepRefines DEF TurnNext, Turn, HitInv
  <2>3. QED
    BY <2>1, <2>2
<1>3. QED
  BY <1>1, <1>2, TurnInvariants, PTL DEF TurnSpec, Register!Spec

-----------------------------------------------------------------------------
(* Behaviours of both kinds: processes that share, or that take turns.     *)

LEMMA InTurnInvariants == ScopedSpec => [](scope = "in turn" => TypeInv /\ HitInv /\ TurnInv)
<1> DEFINE Inv == scope = "in turn" => TypeInv /\ HitInv /\ TurnInv
<1>1. ScopedInit => Inv
  BY InitTypeInv, InitTurnInv
     DEF ScopedInit, Init, HitInv, ManifestsFromStore, Readable, LoadedOK, HitIsAStoredSet
<1>2. Inv /\ [ScopedNext]_<<vars, scope>> => Inv'
  <2> SUFFICES ASSUME Inv, [ScopedNext]_<<vars, scope>>, scope' = "in turn"
               PROVE  (TypeInv /\ HitInv /\ TurnInv)'
    OBVIOUS
  <2>1. scope = "in turn" /\ [TurnNext]_vars
    BY DEF ScopedNext, Shared, InTurn
  <2>2. QED
    BY <2>1, TurnIsNext, NextTypeInv, NextHitInv, NextTurnInv DEF HitInv
<1>3. QED
  BY <1>1, <1>2, PTL DEF ScopedSpec

\* cache.rs:43-47, among behaviours of both kinds: while processes take turns a manifest on disk
\* names only JS bundles that are on disk, whole.
THEOREM CommittedSetStaysWholeInTurn == ScopedSpec => []CommittedSetIsWholeInTurn
<1>1. (scope = "in turn" => TypeInv /\ HitInv /\ TurnInv) => CommittedSetIsWholeInTurn
  BY DEF TurnInv, CommittedSetIsWholeInTurn
<1>2. QED
  BY <1>1, InTurnInvariants, PTL

\* Among behaviours of both kinds: while processes take turns, crashes included, the JS half of
\* the cache behaves like one register.
THEOREM CacheIsARegisterInTurn == ScopedSpec => ContractInTurn
<1> USE DEF InTurnAbstract!vars, InTurnAbstract!Init, InTurnAbstract!Next, InTurnAbstract!Begin,
            InTurnAbstract!Commit, InTurnAbstract!Abort, InTurnAbstract!Found, InTurnAbstract!NotFound
<1>1. ScopedInit => InTurnAbstract!Init
  BY DEF ScopedInit, Init, held, storing, Readable
<1>2. /\ scope = "in turn" => TypeInv /\ HitInv /\ TurnInv
      /\ [ScopedNext]_<<vars, scope>>
      => [InTurnAbstract!Next]_(InTurnAbstract!vars)
  <2> SUFFICES ASSUME scope = "in turn" => TypeInv /\ HitInv /\ TurnInv,
                      [ScopedNext]_<<vars, scope>>
               PROVE  [InTurnAbstract!Next]_(InTurnAbstract!vars)
    OBVIOUS
  <2>1. CASE scope # "in turn"
    <3>1. scope' # "in turn"
      BY <2>1 DEF ScopedNext, Shared, InTurn
    <3>2. QED
      BY <2>1, <3>1
  <2>2. CASE scope = "in turn"
    <3>1. scope' = "in turn" /\ [TurnNext]_vars
      BY <2>2 DEF ScopedNext, Shared, InTurn
    <3>2. [Register!Next]_(Register!vars)
      <4>1. ASSUME UNCHANGED vars PROVE UNCHANGED Register!vars
        BY <4>1 DEF vars, disk, local, Register!vars, held, storing
      <4>2. ASSUME TurnNext PROVE [Register!Next]_(Register!vars)
        BY <2>2, <4>2, CallRefines, StepRefines DEF TurnNext, Turn, HitInv
      <4>3. QED
        BY <3>1, <4>1, <4>2
    <3>3. storing \in BOOLEAN /\ storing' \in BOOLEAN
      BY DEF storing
    <3>4. /\ (scope = "in turn" /\ storing) = storing
          /\ (scope = "in turn" /\ storing)' = storing'
          /\ (IF scope = "in turn" THEN held ELSE Absent) = held
          /\ (IF scope = "in turn" THEN held ELSE Absent)' = held'
          /\ (IF scope = "in turn" THEN status ELSE [p \in Proc |-> Absent]) = status
          /\ (IF scope = "in turn" THEN status ELSE [p \in Proc |-> Absent])' = status'
      BY <2>2, <3>1, <3>3
    <3>5. QED
      BY <3>2, <3>4
         DEF Register!Next, Register!vars, Register!Begin, Register!Commit, Register!Abort,
             Register!Found, Register!NotFound
  <2>3. QED
    BY <2>1, <2>2
<1>3. QED
  BY <1>1, <1>2, InTurnInvariants, PTL DEF ScopedSpec, ContractInTurn, InTurnAbstract!Spec
=============================================================================
