--------------------------- MODULE WasmLockProofs ---------------------------
(***************************************************************************)
(* For any ids, URLs, releases and flags, and any number of runs and       *)
(* faults: a lock written by a run with payloads agrees with itself, its   *)
(* pins are of one release and follow what the run saw, no stored payload  *)
(* is forgotten, and the output directory is the locked set.               *)
(***************************************************************************)
EXTENDS WasmLock, WellFoundedInduction, TLAPS

Injective(f) == \A x, y \in DOMAIN f : f[x] = f[y] => x = y

\* Where h sends an accepted URL, p sends back.
Matches(h, p) ==
  \A u \in DOMAIN h \cap Accepted : h[u] \in DOMAIN p /\ p[h[u]] = u

CacheInjective == cache # Absent => Injective(cache.wasm_handles)

Inv == TypeOK /\ CacheInjective /\ Matches(handles, pins) /\ FullLockAgrees

-----------------------------------------------------------------------------
(* Maps. *)

LEMMA IsPartialMap ==
  ASSUME NEW D, NEW R, NEW S \in SUBSET D, NEW f \in [S -> R]
  PROVE  f \in PartialMap(D, R)
BY DEF PartialMap

LEMMA PartialMapIs ==
  ASSUME NEW D, NEW R, NEW f \in PartialMap(D, R)
  PROVE  /\ DOMAIN f \in SUBSET D
         /\ f \in [DOMAIN f -> R]
         /\ Image(f) \subseteq R
BY DEF PartialMap, Image

LEMMA EmptyIsMap ==
  ASSUME NEW D, NEW R
  PROVE  EmptyMap \in PartialMap(D, R) /\ DOMAIN EmptyMap = {}
<1>1. EmptyMap \in [{} -> R] /\ {} \in SUBSET D
  BY DEF EmptyMap
<1> QED
  BY <1>1, IsPartialMap

LEMMA OnlyIsMap ==
  ASSUME NEW D, NEW R, NEW f \in PartialMap(D, R), NEW S
  PROVE  Only(f, S) \in PartialMap(D, R)
<1>1. f \in [DOMAIN f -> R] /\ DOMAIN f \in SUBSET D
  BY PartialMapIs
<1>2. Only(f, S) \in [DOMAIN f \cap S -> R] /\ DOMAIN f \cap S \in SUBSET D
  BY <1>1 DEF Only
<1> QED
  BY <1>2, IsPartialMap

LEMMA OnlyMaps ==
  ASSUME NEW f, NEW S
  PROVE  /\ DOMAIN Only(f, S) = DOMAIN f \cap S
         /\ \A x \in DOMAIN f \cap S : Only(f, S)[x] = f[x]
BY DEF Only

LEMMA ExtendIsMap ==
  ASSUME NEW D, NEW R, NEW f \in PartialMap(D, R), NEW g \in PartialMap(D, R)
  PROVE  Extend(f, g) \in PartialMap(D, R)
<1>1. /\ f \in [DOMAIN f -> R] /\ DOMAIN f \in SUBSET D
      /\ g \in [DOMAIN g -> R] /\ DOMAIN g \in SUBSET D
  BY PartialMapIs
<1>2. /\ Extend(f, g) \in [DOMAIN f \cup DOMAIN g -> R]
      /\ DOMAIN f \cup DOMAIN g \in SUBSET D
  BY <1>1 DEF Extend
<1> QED
  BY <1>2, IsPartialMap

LEMMA ExtendMaps ==
  ASSUME NEW f, NEW g
  PROVE  /\ DOMAIN Extend(f, g) = DOMAIN f \cup DOMAIN g
         /\ \A x \in DOMAIN g : Extend(f, g)[x] = g[x]
         /\ \A x \in DOMAIN f \ DOMAIN g : Extend(f, g)[x] = f[x]
BY DEF Extend

\* A map to a larger set, from a larger set.
LEMMA WiderMap ==
  ASSUME NEW D, NEW R, NEW f \in PartialMap(D, R),
         NEW E, D \subseteq E, NEW S, R \subseteq S
  PROVE  f \in PartialMap(E, S)
<1>1. f \in [DOMAIN f -> R] /\ DOMAIN f \in SUBSET D
  BY PartialMapIs
<1>2. f \in [DOMAIN f -> S] /\ DOMAIN f \in SUBSET E
  BY <1>1
<1> QED
  BY <1>2, IsPartialMap

LEMMA LowestIn ==
  ASSUME NEW S \in SUBSET Nat, S # {}
  PROVE  Lowest(S) \in S
<1> DEFINE Less == {p \in Nat \X Nat : p[1] < p[2]}
<1>1. IsWellFoundedOn(Less, Nat)
  BY NatLessThanWellFounded DEF OpToRel
<1>2. PICK x \in S : \A y \in S : ~(<<y, x>> \in Less)
  BY <1>1, WFMin
<1>3. ASSUME NEW y \in S PROVE x <= y
  <2>1. x \in Nat /\ y \in Nat /\ <<y, x>> \in Nat \X Nat
    OBVIOUS
  <2>2. ~(<<y, x>>[1] < <<y, x>>[2])
    BY <1>2, <2>1
  <2> QED
    BY <2>1, <2>2
<1> QED
  BY <1>3 DEF Lowest

\* Inverting picks, for each value, an argument that has it.
LEMMA InvertPicks ==
  ASSUME NEW f, DOMAIN f \subseteq Nat, NEW u \in Image(f)
  PROVE  /\ u \in DOMAIN Invert(f)
         /\ Invert(f)[u] \in DOMAIN f
         /\ f[Invert(f)[u]] = u
<1>1. {i \in DOMAIN f : f[i] = u} \in SUBSET Nat
  OBVIOUS
<1>2. {i \in DOMAIN f : f[i] = u} # {}
  BY DEF Image
<1>3. Lowest({i \in DOMAIN f : f[i] = u}) \in {i \in DOMAIN f : f[i] = u}
  BY <1>1, <1>2, LowestIn
<1> QED
  BY <1>3 DEF Invert

LEMMA InvertIsMap ==
  ASSUME NEW D, D \subseteq Nat, NEW R, NEW f \in PartialMap(D, R)
  PROVE  Invert(f) \in PartialMap(R, D)
<1>1. f \in [DOMAIN f -> R] /\ DOMAIN f \in SUBSET D /\ Image(f) \in SUBSET R
  BY PartialMapIs
<1>2. DOMAIN Invert(f) = Image(f) /\ Invert(f) = [u \in Image(f) |-> Invert(f)[u]]
  BY DEF Invert
<1>3. Invert(f) \in [Image(f) -> D]
  BY <1>1, <1>2, InvertPicks
<1> QED
  BY <1>1, <1>3, IsPartialMap

-----------------------------------------------------------------------------
(* What load_wasm computes. *)

\* The ids the run saw, and the bindings it kept of them.
LEMMA ByIdIsMap ==
  ASSUME NEW bx \in PartialMap(BxId, Url)
  PROVE  /\ ById(bx) \in Bindings
         /\ DOMAIN ById(bx) \subseteq DOMAIN bx
<1>1. bx \in [DOMAIN bx -> Url] /\ DOMAIN bx \in SUBSET BxId
  BY PartialMapIs
<1>2. ById(bx) \in [{j \in DOMAIN bx : bx[j] \in Accepted} -> Accepted]
  BY <1>1 DEF ById
<1>3. {j \in DOMAIN bx : bx[j] \in Accepted} \in SUBSET BxId
  BY <1>1
<1> QED
  BY <1>2, <1>3, IsPartialMap DEF Bindings, ById

\* bootloader_pins leaves accepted bindings alone.
LEMMA PinsIsMap ==
  ASSUME NEW ids \in PartialMap(BxId, Url)
  PROVE  /\ Pins(ids) \in Bindings
         /\ \A i \in DOMAIN ids :
              ids[i] \in Accepted => i \in DOMAIN Pins(ids) /\ Pins(ids)[i] = ids[i]
<1>1. ids \in [DOMAIN ids -> Url] /\ DOMAIN ids \in SUBSET BxId
  BY PartialMapIs
<1>2. Pins(ids) \in [{j \in DOMAIN ids : ids[j] \in Accepted} -> Accepted]
  BY <1>1 DEF Pins
<1>3. {j \in DOMAIN ids : ids[j] \in Accepted} \in SUBSET BxId
  BY <1>1
<1>4. Pins(ids) \in Bindings
  BY <1>2, <1>3, IsPartialMap DEF Bindings
<1> QED
  BY <1>4 DEF Pins

LEMMA DropIsMap ==
  ASSUME NEW h \in PartialMap(Url, BxId), NEW l, NEW obs
  PROVE  /\ DropStaleAliases(h, l, obs) \in PartialMap(Url, BxId)
         /\ \A u \in DOMAIN DropStaleAliases(h, l, obs) :
              /\ u \in DOMAIN h /\ DropStaleAliases(h, l, obs)[u] = h[u]
              /\ IF h[u] \in DOMAIN l THEN l[h[u]] = u ELSE h[u] \notin obs
<1> DEFINE K == {v \in DOMAIN h : IF h[v] \in DOMAIN l THEN l[h[v]] = v
                                  ELSE h[v] \notin obs}
<1>1. h \in [DOMAIN h -> BxId] /\ DOMAIN h \in SUBSET Url
  BY PartialMapIs
<1>2. DropStaleAliases(h, l, obs) = [u \in K |-> h[u]]
  BY DEF DropStaleAliases
<1>3. DropStaleAliases(h, l, obs) \in [K -> BxId] /\ K \in SUBSET Url
  BY <1>1, <1>2
<1>4. DropStaleAliases(h, l, obs) \in PartialMap(Url, BxId)
  BY <1>3, IsPartialMap
<1> QED
  BY <1>2, <1>4

\* Both maps of load_wasm, and that the ids of one are bound by the other.
LEMMA HandlesMatchPins ==
  ASSUME NEW page \in PartialMap(BxId, Url), NEW more \in PartialMap(BxId, Url),
         NEW cached \in Handled, Injective(cached),
         NEW bx, bx = Extend(page, more)
  PROVE  /\ Handles(page, cached, ById(bx), DOMAIN bx) \in PartialMap(Url, BxId)
         /\ Pins(Ids(page, cached, ById(bx), DOMAIN bx)) \in Bindings
         /\ Matches(Handles(page, cached, ById(bx), DOMAIN bx),
                    Pins(Ids(page, cached, ById(bx), DOMAIN bx)))
<1> DEFINE l == ById(bx)
           obs == DOMAIN bx
           toPage == Invert(page)
           toLive == Invert(l)
           paged == Extend(toPage, cached)
           h0 == Extend(paged, toLive)
           fromCache == Invert(cached)
           old == Only(fromCache, BxId \ obs)
           seen == Extend(page, l)
           ids == Extend(old, seen)
           h == DropStaleAliases(h0, l, obs)
<1>0. /\ BxId \in SUBSET Nat /\ Accepted \in SUBSET Nat
      /\ cached \in PartialMap(Accepted, BxId) /\ cached \in PartialMap(Url, BxId)
      /\ DOMAIN cached \subseteq Accepted
  BY WiderMap, PartialMapIs, HandleAssumption DEF Handled
<1> HIDE DEF l, obs, toPage, toLive, paged, h0, fromCache, old, seen, ids, h
<1>1. DOMAIN page \subseteq obs /\ obs \subseteq BxId
  <2>1. DOMAIN page \in SUBSET BxId /\ DOMAIN more \in SUBSET BxId
    BY PartialMapIs
  <2> QED
    BY <2>1, ExtendMaps DEF obs
<1>2. /\ l \in Bindings /\ l \in PartialMap(BxId, Accepted) /\ l \in PartialMap(BxId, Url)
      /\ DOMAIN l \subseteq obs
  <2>1. bx \in PartialMap(BxId, Url)
    BY ExtendIsMap
  <2>2. l \in PartialMap(BxId, Accepted) /\ DOMAIN l \subseteq obs
    BY <2>1, ByIdIsMap DEF l, obs, Bindings
  <2> QED
    BY <2>2, WiderMap, HandleAssumption DEF Bindings
<1>3. /\ toPage \in PartialMap(Url, BxId)
      /\ \A u \in DOMAIN toPage : toPage[u] \in DOMAIN page
  <2>1. toPage \in PartialMap(Url, BxId)
    BY <1>0, InvertIsMap DEF toPage
  <2>2. DOMAIN page \subseteq Nat /\ DOMAIN toPage = Image(page)
    BY <1>0, PartialMapIs DEF toPage, Invert
  <2> QED
    BY <2>1, <2>2, InvertPicks DEF toPage
<1>4. /\ toLive \in PartialMap(Url, BxId)
      /\ \A u \in DOMAIN toLive : toLive[u] \in DOMAIN l
  <2>1. toLive \in PartialMap(Url, BxId)
    BY <1>0, <1>2, InvertIsMap DEF toLive
  <2>2. DOMAIN l \subseteq Nat /\ DOMAIN toLive = Image(l)
    BY <1>0, <1>2, PartialMapIs DEF toLive, Invert
  <2> QED
    BY <2>1, <2>2, InvertPicks DEF toLive
<1>5. /\ paged \in PartialMap(Url, BxId)
      /\ DOMAIN paged = DOMAIN toPage \cup DOMAIN cached
      /\ \A u \in DOMAIN cached : paged[u] = cached[u]
      /\ \A u \in DOMAIN toPage \ DOMAIN cached : paged[u] = toPage[u]
  BY <1>0, <1>3, ExtendIsMap, ExtendMaps DEF paged
<1>6. /\ h0 \in PartialMap(Url, BxId)
      /\ DOMAIN h0 = DOMAIN paged \cup DOMAIN toLive
      /\ \A u \in DOMAIN toLive : h0[u] = toLive[u]
      /\ \A u \in DOMAIN paged \ DOMAIN toLive : h0[u] = paged[u]
  <2>1. h0 \in PartialMap(Url, BxId)
    BY <1>4, <1>5, ExtendIsMap DEF h0
  <2> QED
    BY <2>1, ExtendMaps DEF h0
<1>7. /\ fromCache \in PartialMap(BxId, Accepted)
      /\ DOMAIN fromCache = Image(cached)
      /\ \A i \in Image(cached) : /\ fromCache[i] \in DOMAIN cached
                                  /\ cached[fromCache[i]] = i
  <2>1. fromCache \in PartialMap(BxId, Accepted)
    BY <1>0, InvertIsMap DEF fromCache
  <2>2. DOMAIN fromCache = Image(cached)
    BY DEF fromCache, Invert
  <2>3. ASSUME NEW i \in Image(cached)
        PROVE  fromCache[i] \in DOMAIN cached /\ cached[fromCache[i]] = i
    BY <1>0, InvertPicks DEF fromCache
  <2> QED
    BY <2>1, <2>2, <2>3
<1>8. /\ old \in PartialMap(BxId, Url)
      /\ DOMAIN old = Image(cached) \cap (BxId \ obs)
      /\ \A i \in DOMAIN old : old[i] = fromCache[i]
  <2>1. /\ old \in PartialMap(BxId, Accepted)
        /\ DOMAIN old = DOMAIN fromCache \cap (BxId \ obs)
        /\ \A i \in DOMAIN fromCache \cap (BxId \ obs) : old[i] = fromCache[i]
    BY <1>7, OnlyIsMap, OnlyMaps DEF old
  <2>2. old \in PartialMap(BxId, Url)
    BY <2>1, WiderMap, HandleAssumption
  <2> QED
    BY <1>7, <2>1, <2>2
<1>9. /\ seen \in PartialMap(BxId, Url)
      /\ DOMAIN seen = DOMAIN page \cup DOMAIN l
      /\ \A i \in DOMAIN l : seen[i] = l[i]
  BY <1>2, ExtendIsMap, ExtendMaps DEF seen
<1>10. /\ ids \in PartialMap(BxId, Url)
       /\ DOMAIN ids = DOMAIN old \cup DOMAIN seen
       /\ \A i \in DOMAIN seen : ids[i] = seen[i]
       /\ \A i \in DOMAIN old \ DOMAIN seen : ids[i] = old[i]
  BY <1>8, <1>9, ExtendIsMap, ExtendMaps DEF ids
<1>11. /\ Pins(ids) \in Bindings
       /\ \A i \in DOMAIN ids :
            ids[i] \in Accepted => i \in DOMAIN Pins(ids) /\ Pins(ids)[i] = ids[i]
  BY <1>10, PinsIsMap
<1>12. /\ h \in PartialMap(Url, BxId)
       /\ \A u \in DOMAIN h :
            /\ u \in DOMAIN h0 /\ h[u] = h0[u]
            /\ IF h0[u] \in DOMAIN l THEN l[h0[u]] = u ELSE h0[u] \notin obs
  BY <1>6, DropIsMap DEF h
<1>13. ASSUME NEW u \in DOMAIN h \cap Accepted
       PROVE  h0[u] \in DOMAIN ids /\ ids[h0[u]] = u
  <2>1. /\ u \in DOMAIN h0
        /\ IF h0[u] \in DOMAIN l THEN l[h0[u]] = u ELSE h0[u] \notin obs
    BY <1>12
  <2>2. CASE h0[u] \in DOMAIN l
    BY <1>9, <1>10, <2>1, <2>2
  <2>3. CASE h0[u] \notin DOMAIN l
    <3>1. h0[u] \notin obs /\ h0[u] \notin DOMAIN seen
      BY <1>1, <1>9, <2>1, <2>3
    <3>2. u \notin DOMAIN toLive  \* its id would be one the live answer bound
      BY <1>4, <1>6, <2>3
    <3>3. u \in DOMAIN paged /\ h0[u] = paged[u]
      BY <1>6, <2>1, <3>2
    <3>4. u \in DOMAIN cached     \* or else its id would be one the page bound
      BY <1>1, <1>3, <1>5, <3>1, <3>3
    <3>5. h0[u] = cached[u]
      BY <1>5, <3>3, <3>4
    <3>6. cached[u] \in Image(cached) /\ cached[u] \in BxId
      BY <1>0, <3>4, PartialMapIs DEF Image
    <3>7. fromCache[cached[u]] = u
      BY <1>7, <3>4, <3>6 DEF Injective
    <3>8. h0[u] \in DOMAIN old \ DOMAIN seen
      BY <1>8, <3>1, <3>5, <3>6
    <3> QED
      BY <1>8, <1>10, <3>5, <3>7, <3>8
  <2> QED
    BY <2>2, <2>3
<1>14. Matches(h, Pins(ids))
  BY <1>11, <1>12, <1>13 DEF Matches
<1>15. Handles(page, cached, l, obs) = h /\ Ids(page, cached, l, obs) = ids
  BY DEF Handles, Ids, h, h0, paged, toPage, toLive, ids, old, seen, fromCache
<1> QED
  BY <1>11, <1>12, <1>14, <1>15 DEF l, obs

-----------------------------------------------------------------------------
(* The actions. *)

\* What FullLockAgrees asks does not depend on where the run is.
LEMMA SameLock ==
  ASSUME FullLockAgrees, UNCHANGED <<lock, full>>
  PROVE  FullLockAgrees'
BY DEF FullLockAgrees, Readable, Agrees

LEMMA SameMaps ==
  ASSUME Matches(handles, pins), UNCHANGED <<handles, pins>>
  PROVE  Matches(handles', pins')
BY DEF Matches

LEMMA InitInv == Init => Inv
<1> SUFFICES ASSUME Init PROVE Inv
  OBVIOUS
<1>1. TypeOK
  <2>1. EmptyMap \in Bindings /\ EmptyMap \in PartialMap(Url, BxId)
    BY EmptyIsMap DEF Bindings
  <2>2. runs \in 0..MaxRuns /\ faults \in 0..MaxFaults
    BY RunAssumption DEF Init
  <2> QED
    BY <2>1, <2>2 DEF Init, TypeOK
<1>2. Matches(handles, pins)
  BY EmptyIsMap DEF Init, Matches
<1> QED
  BY <1>1, <1>2 DEF Init, Inv, CacheInjective, FullLockAgrees, Readable

LEMMA StartInv == Inv /\ Start => Inv'
<1> SUFFICES ASSUME Inv, Start PROVE Inv'
  OBVIOUS
<1>1. /\ EmptyMap \in Bindings /\ EmptyMap \in PartialMap(Url, BxId)
      /\ EmptyMap \in Handled /\ DOMAIN EmptyMap = {}
  BY EmptyIsMap DEF Bindings, Handled
<1>2. cache' \in Cache \cup {Absent}
  <2>1. [wa_version |-> version', complete |-> TRUE, wasm |-> {},
         wasm_handles |-> EmptyMap] \in Cache
    BY <1>1 DEF Start, Cache
  <2>2. cache \in Cache \cup {Absent}
    BY DEF Inv, TypeOK
  <2> QED
    BY <2>1, <2>2 DEF Start
<1>3. TypeOK'
  <2>1. runs' \in 0..MaxRuns
    BY RunAssumption DEF Start, Inv, TypeOK
  <2>2. got' \subseteq Accepted
    BY DEF Start, Inv, TypeOK
  <2>3. pc' \in {"load", "update"}
    BY DEF Start
  <2> QED
    BY <1>1, <1>2, <2>1, <2>2, <2>3 DEF Start, Inv, TypeOK
<1>4. CacheInjective'
  <2>1. CASE cache' = cache
    BY <2>1 DEF Inv, CacheInjective
  <2>2. CASE cache' = [wa_version |-> version', complete |-> TRUE, wasm |-> {},
                       wasm_handles |-> EmptyMap]
    BY <1>1, <2>2 DEF CacheInjective, Injective
  <2> QED
    BY <2>1, <2>2 DEF Start
<1>5. Matches(handles, pins)'
  BY <1>1 DEF Start, Matches
<1>6. FullLockAgrees'
  BY SameLock DEF Start, Inv
<1> QED
  BY <1>3, <1>4, <1>5, <1>6 DEF Inv

LEMMA CachedIsMap ==
  ASSUME TypeOK, CacheInjective
  PROVE  /\ CachedHandles \in Handled
         /\ Injective(CachedHandles)
         /\ CachedPayloads \subseteq Accepted
<1>1. CASE opts.cache /\ CacheHas(version)
  <2>1. cache \in Cache /\ Injective(cache.wasm_handles)
    BY <1>1 DEF TypeOK, CacheHas, CacheInjective
  <2> QED
    BY <1>1, <2>1 DEF Cache, CachedHandles, CachedPayloads
<1>2. CASE ~(opts.cache /\ CacheHas(version))
  <2>1. CachedHandles = EmptyMap /\ CachedPayloads = {}
    BY <1>2 DEF CachedHandles, CachedPayloads
  <2> QED
    BY <2>1, EmptyIsMap DEF Handled, Injective
<1> QED
  BY <1>1, <1>2

LEMMA LoadWasmInv == Inv /\ LoadWasm => Inv'
<1> SUFFICES ASSUME Inv, LoadWasm PROVE Inv'
  OBVIOUS
<1>1. PICK page \in PartialMap(BxId, Url), scanned \in SUBSET Accepted :
        \E more \in PartialMap(BxId \ DOMAIN page, Url) :
          LET bx == Extend(page, more)
              found == Image(ById(bx)) \cup scanned
          IN  /\ observed' = DOMAIN bx
              /\ live' = ById(bx)
              /\ urls' = found
              /\ \E downloaded \in SUBSET (found \ CachedPayloads) :
                   payloads' = Merged(CachedPayloads, downloaded)
              /\ handles' = Handles(page, CachedHandles, ById(bx), DOMAIN bx)
              /\ pins' = Pins(Ids(page, CachedHandles, ById(bx), DOMAIN bx))
              /\ said' = [said EXCEPT ![version] = @ \cup {<<i, bx[i]>> : i \in DOMAIN bx}]
              /\ pc' = IF payloads' = {} THEN "sweep" ELSE "store"
  BY DEF LoadWasm
<1>2. PICK more \in PartialMap(BxId \ DOMAIN page, Url) :
        LET bx == Extend(page, more)
            found == Image(ById(bx)) \cup scanned
        IN  /\ observed' = DOMAIN bx
            /\ live' = ById(bx)
            /\ urls' = found
            /\ \E downloaded \in SUBSET (found \ CachedPayloads) :
                 payloads' = Merged(CachedPayloads, downloaded)
            /\ handles' = Handles(page, CachedHandles, ById(bx), DOMAIN bx)
            /\ pins' = Pins(Ids(page, CachedHandles, ById(bx), DOMAIN bx))
            /\ said' = [said EXCEPT ![version] = @ \cup {<<i, bx[i]>> : i \in DOMAIN bx}]
            /\ pc' = IF payloads' = {} THEN "sweep" ELSE "store"
  BY <1>1
<1> DEFINE bx == Extend(page, more)
           found == Image(ById(bx)) \cup scanned
<1>3. /\ observed' = DOMAIN bx /\ live' = ById(bx) /\ urls' = found
      /\ handles' = Handles(page, CachedHandles, ById(bx), DOMAIN bx)
      /\ pins' = Pins(Ids(page, CachedHandles, ById(bx), DOMAIN bx))
      /\ said' = [said EXCEPT ![version] = @ \cup {<<i, bx[i]>> : i \in DOMAIN bx}]
      /\ pc' \in {"sweep", "store"}
  BY <1>2
<1>4. PICK downloaded \in SUBSET (found \ CachedPayloads) :
        payloads' = CachedPayloads \cup downloaded
  BY <1>2 DEF Merged
<1> HIDE DEF bx, found
<1>5. UNCHANGED <<opts, version, cache, dir, lock, full, got, runs, faults>>
  BY DEF LoadWasm, disk
<1>6. more \in PartialMap(BxId, Url)
  BY WiderMap
<1>7. /\ CachedHandles \in Handled /\ Injective(CachedHandles)
      /\ CachedPayloads \subseteq Accepted
  BY CachedIsMap DEF Inv
<1>8. bx \in PartialMap(BxId, Url)
  BY <1>6, ExtendIsMap DEF bx
<1>9. bx \in [DOMAIN bx -> Url] /\ DOMAIN bx \in SUBSET BxId
  BY <1>8, PartialMapIs
<1>10. ById(bx) \in Bindings
  BY <1>8, ByIdIsMap
<1>11. found \subseteq Accepted
  BY <1>10, PartialMapIs DEF found, Bindings
<1>12. /\ handles' \in PartialMap(Url, BxId) /\ pins' \in Bindings
       /\ Matches(handles', pins')
  BY <1>3, <1>6, <1>7, HandlesMatchPins DEF bx
<1>13. said' \in [Version -> SUBSET (BxId \X Url)]
  <2>1. {<<i, bx[i]>> : i \in DOMAIN bx} \subseteq BxId \X Url
    BY <1>9
  <2>2. said \in [Version -> SUBSET (BxId \X Url)]
    BY DEF Inv, TypeOK
  <2> QED
    BY <1>3, <2>1, <2>2
<1>14. payloads' \subseteq Accepted
  BY <1>4, <1>7, <1>11
<1>15. TypeOK'
  BY <1>3, <1>5, <1>9, <1>10, <1>11, <1>12, <1>13, <1>14 DEF Inv, TypeOK
<1>16. CacheInjective' /\ FullLockAgrees'
  BY <1>5, SameLock DEF Inv, CacheInjective
<1> QED
  BY <1>12, <1>15, <1>16 DEF Inv

\* Steps that leave the cache and the lock alone.
LEMMA QuietInv ==
  ASSUME Inv, UNCHANGED <<run, cache, lock, full>>, TypeOK'
  PROVE  Inv'
<1>1. CacheInjective'
  BY DEF Inv, CacheInjective
<1>2. Matches(handles, pins)'
  BY SameMaps DEF Inv, run
<1>3. FullLockAgrees'
  BY SameLock DEF Inv
<1> QED
  BY <1>1, <1>2, <1>3 DEF Inv

\* The part of the run's handles that is stored.
LEMMA StoredHandles ==
  ASSUME Inv
  PROVE  Only(handles, payloads) \in Handled /\ Injective(Only(handles, payloads))
<1> DEFINE kept == Only(handles, payloads)
<1>1. /\ handles \in PartialMap(Url, BxId) /\ payloads \subseteq Accepted
      /\ Matches(handles, pins)
  BY DEF Inv, TypeOK
<1>2. /\ DOMAIN kept = DOMAIN handles \cap payloads
      /\ \A u \in DOMAIN kept : kept[u] = handles[u]
  BY OnlyMaps
<1>3. handles \in [DOMAIN handles -> BxId]
  BY <1>1, PartialMapIs
<1>4. kept \in [DOMAIN kept -> BxId] /\ DOMAIN kept \in SUBSET Accepted
  BY <1>1, <1>3 DEF Only
<1>5. kept \in Handled
  BY <1>4, IsPartialMap DEF Handled
<1>6. \A u \in DOMAIN kept : pins[kept[u]] = u
  BY <1>1, <1>2 DEF Matches
<1> QED
  BY <1>5, <1>6 DEF Injective

LEMMA StoreWasmInv == Inv /\ StoreWasm => Inv'
<1> SUFFICES ASSUME Inv, StoreWasm PROVE Inv'
  OBVIOUS
<1> DEFINE kept == Only(handles, payloads)
<1>1. /\ UNCHANGED <<run, dir, lock, full, said, runs, faults>>
      /\ pc' = "sweep" /\ got' \in {got, got \cup payloads}
      /\ \/ cache' = cache
         \/ cache # Absent /\ cache' = [cache EXCEPT !.wasm = payloads, !.wasm_handles = kept]
  BY DEF StoreWasm, CacheHas
<1>2. kept \in Handled /\ Injective(kept)
  BY StoredHandles
<1> HIDE DEF kept
<1>3. cache' \in Cache \cup {Absent} /\ CacheInjective'
  <2>1. CASE cache' = cache
    BY <2>1 DEF Inv, TypeOK, CacheInjective
  <2>2. CASE cache # Absent /\ cache' = [cache EXCEPT !.wasm = payloads, !.wasm_handles = kept]
    <3>1. cache \in Cache /\ payloads \in SUBSET Accepted
      BY <2>2 DEF Inv, TypeOK
    <3>2. cache' \in Cache /\ cache'.wasm_handles = kept
      BY <1>2, <2>2, <3>1 DEF Cache
    <3> QED
      BY <1>2, <3>2 DEF CacheInjective
  <2> QED
    BY <1>1, <2>1, <2>2
<1>4. TypeOK'
  BY <1>1, <1>3 DEF Inv, TypeOK, run
<1>5. Matches(handles, pins)' /\ FullLockAgrees'
  BY <1>1, SameMaps, SameLock DEF Inv, run
<1> QED
  BY <1>3, <1>4, <1>5 DEF Inv

LEMMA DirStepsInv ==
  Inv /\ (StoreWasmFails \/ SweepDir \/ SaveWasm \/ Proceed \/ Stop) => Inv'
<1>1. ASSUME Inv, StoreWasmFails PROVE Inv'
  <2>1. faults' \in 0..MaxFaults
    BY <1>1, RunAssumption DEF StoreWasmFails, Inv, TypeOK
  <2>2. TypeOK'
    BY <1>1, <2>1 DEF StoreWasmFails, Inv, TypeOK, run, disk
  <2> QED
    BY <1>1, <2>2, QuietInv DEF StoreWasmFails, disk
<1>2. ASSUME Inv, SweepDir PROVE Inv'
  <2>1. TypeOK'
    BY <1>2 DEF SweepDir, Inv, TypeOK, run
  <2> QED
    BY <1>2, <2>1, QuietInv DEF SweepDir
<1>3. ASSUME Inv, SaveWasm PROVE Inv'
  <2>1. TypeOK'
    BY <1>3 DEF SaveWasm, Inv, TypeOK, run
  <2> QED
    BY <1>3, <2>1, QuietInv DEF SaveWasm
<1>4. ASSUME Inv, Proceed \/ Stop PROVE Inv'
  <2>1. TypeOK'
    BY <1>4 DEF Proceed, Stop, Inv, TypeOK, run, disk
  <2> QED
    BY <1>4, <2>1, QuietInv DEF Proceed, Stop, disk
<1> QED
  BY <1>1, <1>2, <1>3, <1>4

\* The lock the run would write now.
LEMMA NewLockIs ==
  ASSUME Inv
  PROVE  /\ NewLock \in Lock \cup {Absent, Torn}
         /\ payloads # {} => NewLock \in Lock /\ Agrees(NewLock)
<1> DEFINE merged == MergePriorHandles(pins, PriorHandles, observed)
           entries == [u \in payloads |-> BxIdOf(handles, u)]
<1>0. /\ pins \in Bindings /\ handles \in PartialMap(Url, BxId)
      /\ payloads \subseteq Accepted /\ version \in Version
      /\ lock \in Lock \cup {Absent, Torn} /\ Matches(handles, pins)
  BY DEF Inv, TypeOK
<1>1. PriorHandles \in Bindings
  <2>1. CASE Readable(lock) /\ lock.wa_version = version
    BY <1>0, <2>1 DEF Readable, PriorHandles, Lock
  <2>2. CASE ~(Readable(lock) /\ lock.wa_version = version)
    BY <2>2, EmptyIsMap DEF PriorHandles, Bindings
  <2> QED
    BY <2>1, <2>2
<1>2. merged \in Bindings
  BY <1>0, <1>1, OnlyIsMap, ExtendIsMap DEF MergePriorHandles, Bindings
<1>3. entries \in PartialMap(Accepted, BxId \cup {None})
  <2>1. handles \in [DOMAIN handles -> BxId]
    BY <1>0, PartialMapIs
  <2>2. entries \in [payloads -> BxId \cup {None}] /\ payloads \in SUBSET Accepted
    BY <1>0, <2>1 DEF BxIdOf
  <2> QED
    BY <2>2, IsPartialMap
<1>4. DOMAIN pins \subseteq DOMAIN merged /\ \A i \in DOMAIN pins : merged[i] = pins[i]
  BY ExtendMaps DEF MergePriorHandles
<1>5. ASSUME NEW u \in DOMAIN entries, entries[u] # None
      PROVE  entries[u] \in DOMAIN merged /\ merged[entries[u]] = u
  <2>1. u \in DOMAIN handles \cap Accepted /\ entries[u] = handles[u]
    BY <1>0, <1>5 DEF BxIdOf
  <2>2. handles[u] \in DOMAIN pins /\ pins[handles[u]] = u
    BY <1>0, <2>1 DEF Matches
  <2> QED
    BY <1>4, <2>1, <2>2
<1> HIDE DEF merged, entries
<1>6. CASE payloads # {}
  <2>1. NewLock = [wa_version |-> version, wasm |-> entries, wasm_handles |-> merged]
    BY <1>6 DEF NewLock, merged, entries
  <2>2. NewLock \in Lock
    BY <1>0, <1>2, <1>3, <2>1 DEF Lock
  <2>3. Agrees(NewLock)
    BY <1>5, <2>1 DEF Agrees
  <2> QED
    BY <2>2, <2>3
<1>7. CASE payloads = {} /\ opts.wasm /\ Readable(lock) /\ lock.wa_version = version
  <2>1. NewLock = [lock EXCEPT !.wasm_handles = merged]
    BY <1>7 DEF NewLock, Rewrites, merged
  <2>2. lock \in Lock
    BY <1>0, <1>7 DEF Readable
  <2>3. NewLock \in Lock
    BY <1>2, <2>1, <2>2 DEF Lock
  <2> QED
    BY <1>7, <2>3
<1>8. CASE payloads = {} /\ ~(opts.wasm /\ Readable(lock) /\ lock.wa_version = version)
  BY <1>0, <1>8 DEF NewLock, Rewrites
<1> QED
  BY <1>6, <1>7, <1>8

LEMMA WriteLockInv == Inv /\ WriteLock => Inv'
<1> SUFFICES ASSUME Inv, WriteLock PROVE Inv'
  OBVIOUS
<1>1. /\ lock' = NewLock /\ pc' = "done"
      /\ full' = IF payloads # {} THEN TRUE ELSE full /\ lock' = lock
      /\ UNCHANGED <<run, cache, dir, got, said, runs, faults>>
  BY DEF WriteLock
<1>2. lock' \in Lock \cup {Absent, Torn} /\ full' \in BOOLEAN
  BY <1>1, NewLockIs DEF Inv, TypeOK
<1>3. TypeOK'
  BY <1>1, <1>2 DEF Inv, TypeOK, run
<1>4. CacheInjective' /\ Matches(handles, pins)'
  BY <1>1, SameMaps DEF Inv, CacheInjective, run
<1>5. FullLockAgrees'
  <2>1. CASE payloads # {}
    <3>1. Agrees(lock')
      BY <1>1, <2>1, NewLockIs
    <3> QED
      BY <3>1 DEF FullLockAgrees, Agrees
  <2>2. CASE payloads = {}
    <3>1. full' => full /\ lock' = lock
      BY <1>1, <2>2
    <3> QED
      BY <3>1 DEF Inv, FullLockAgrees, Readable, Agrees
  <2> QED
    BY <2>1, <2>2
<1> QED
  BY <1>3, <1>4, <1>5 DEF Inv

LEMMA CrashInv == Inv /\ Crash => Inv'
<1> SUFFICES ASSUME Inv, Crash PROVE Inv'
  OBVIOUS
<1>1. /\ pc' = "idle" /\ UNCHANGED <<run, full, got, said, runs>>
      /\ UNCHANGED cache /\ lock' \in {lock, Torn}
  BY DEF Crash, disk
<1>2. faults' \in 0..MaxFaults
  BY RunAssumption DEF Crash, Inv, TypeOK
<1>3. dir' \subseteq Accepted
  BY DEF Crash, Inv, TypeOK, disk
<1>4. TypeOK'
  BY <1>1, <1>2, <1>3 DEF Inv, TypeOK, run
<1>5. CacheInjective' /\ Matches(handles, pins)'
  BY <1>1, SameMaps DEF Inv, CacheInjective, run
<1>6. FullLockAgrees'
  BY <1>1 DEF Inv, FullLockAgrees, Readable, Agrees
<1> QED
  BY <1>4, <1>5, <1>6 DEF Inv

LEMMA DamageInv == Inv /\ Damage => Inv'
<1> SUFFICES ASSUME Inv, Damage PROVE Inv'
  OBVIOUS
<1>1. /\ cache \in Cache
      /\ UNCHANGED <<pc, run, dir, lock, full, said, runs>> /\ got' \subseteq got
      /\ \/ \E u \in cache.wasm : cache' = [cache EXCEPT !.wasm = @ \ {u}]
         \/ cache' = Absent
  BY DEF Damage, Inv, TypeOK
<1>2. cache' \in Cache \cup {Absent} /\ CacheInjective'
  <2>1. CASE cache' = Absent
    BY <2>1 DEF CacheInjective
  <2>2. ASSUME NEW u \in cache.wasm, cache' = [cache EXCEPT !.wasm = @ \ {u}]
        PROVE  cache' \in Cache /\ cache'.wasm_handles = cache.wasm_handles
    BY <1>1, <2>2 DEF Cache
  <2> QED
    BY <1>1, <2>1, <2>2 DEF Inv, CacheInjective, Damage
<1>3. faults' \in 0..MaxFaults
  BY RunAssumption DEF Damage, Inv, TypeOK
<1>4. TypeOK'
  BY <1>1, <1>2, <1>3 DEF Inv, TypeOK, run
<1>5. Matches(handles, pins)' /\ FullLockAgrees'
  BY <1>1, SameMaps, SameLock DEF Inv, run
<1> QED
  BY <1>2, <1>4, <1>5 DEF Inv

LEMMA NextInv == Inv /\ [Next]_vars => Inv'
<1>1. ASSUME Inv, UNCHANGED vars PROVE Inv'
  <2>1. TypeOK'
    BY <1>1 DEF Inv, TypeOK, vars, run, disk
  <2> QED
    BY <1>1, <2>1, QuietInv DEF vars, disk
<1> QED
  BY <1>1, StartInv, LoadWasmInv, StoreWasmInv, DirStepsInv, WriteLockInv,
     CrashInv, DamageInv DEF Next

\* Every variable of WasmLock has its type, for any ids, URLs, releases, flags and bounds.
THEOREM TypeCorrect == Spec => []TypeOK
<1>1. Inv => TypeOK
  BY DEF Inv
<1> QED
  BY <1>1, InitInv, NextInv, PTL DEF Spec

\* main.rs:1584-1588, drop_stale_aliases with bootloader_pins and
\* merge_prior_handles: a lock written by a run with payloads never carries an
\* entry whose id it binds to something else.
THEOREM FullLockNeverContradicts == Spec => []FullLockAgrees
<1>1. Inv => FullLockAgrees
  BY DEF Inv
<1> QED
  BY <1>1, InitInv, NextInv, PTL DEF Spec

-----------------------------------------------------------------------------
(* Where bindings come from. *)

\* The bindings of p, of either kind of map, are among S.
Told(p, S) == \A i \in DOMAIN p : <<i, p[i]>> \in S
ToldOf(h, S) == \A u \in DOMAIN h : <<h[u], u>> \in S

LEMMA ToldMaps ==
  ASSUME NEW S, NEW T, NEW f, NEW g, Told(f, S), Told(g, S)
  PROVE  Told(Extend(f, g), S) /\ Told(Only(f, T), S)
BY DEF Told, Extend, Only

LEMMA ToldOfMaps ==
  ASSUME NEW S, NEW T, NEW f, NEW g, ToldOf(f, S), ToldOf(g, S)
  PROVE  ToldOf(Extend(f, g), S) /\ ToldOf(Only(f, T), S)
BY DEF ToldOf, Extend, Only

LEMMA ToldInverts ==
  ASSUME NEW S, NEW f, DOMAIN f \subseteq Nat
  PROVE  /\ Told(f, S) => ToldOf(Invert(f), S)
         /\ ToldOf(f, S) => Told(Invert(f), S)
<1>1. DOMAIN Invert(f) = Image(f)
  BY DEF Invert
<1>2. \A u \in Image(f) : Invert(f)[u] \in DOMAIN f /\ f[Invert(f)[u]] = u
  BY InvertPicks
<1> QED BY <1>1, <1>2 DEF Told, ToldOf

\* Both maps of load_wasm hold nothing but what this run was told or the cache had.
LEMMA MapsAreTold ==
  ASSUME NEW page \in PartialMap(BxId, Url), NEW more \in PartialMap(BxId \ DOMAIN page, Url),
         NEW cached \in Handled, NEW bx, bx = Extend(page, more),
         NEW S, Told(bx, S), ToldOf(cached, S)
  PROVE  /\ ToldOf(Handles(page, cached, ById(bx), DOMAIN bx), S)
         /\ Told(Pins(Ids(page, cached, ById(bx), DOMAIN bx)), S)
<1> DEFINE l == ById(bx)
           obs == DOMAIN bx
           h0 == Extend(Extend(Invert(page), cached), Invert(l))
           ids == Extend(Only(Invert(cached), BxId \ obs), Extend(page, l))
<1>1. /\ DOMAIN page \subseteq BxId /\ DOMAIN more \cap DOMAIN page = {}
      /\ DOMAIN cached \subseteq Nat /\ BxId \subseteq Nat
  <2>1. DOMAIN more \in SUBSET (BxId \ DOMAIN page)
    BY PartialMapIs
  <2>2. DOMAIN cached \in SUBSET Accepted
    BY PartialMapIs DEF Handled
  <2>3. DOMAIN page \in SUBSET BxId
    BY PartialMapIs
  <2> QED BY <2>1, <2>2, <2>3, HandleAssumption
<1>2. DOMAIN bx = DOMAIN page \cup DOMAIN more /\ \A i \in DOMAIN page : bx[i] = page[i]
  BY <1>1, ExtendMaps
<1>3. DOMAIN bx \subseteq BxId
  <2>1. DOMAIN more \in SUBSET (BxId \ DOMAIN page)
    BY PartialMapIs
  <2> QED BY <2>1, <1>1, <1>2
<1>4. Told(page, S)
  BY <1>2 DEF Told
<1>5. Told(l, S) /\ DOMAIN l \subseteq obs /\ \A i \in DOMAIN l : l[i] = bx[i]
  BY DEF Told, ById
<1>6. ToldOf(Invert(page), S) /\ ToldOf(Invert(l), S) /\ Told(Invert(cached), S)
  <2>1. DOMAIN page \subseteq Nat /\ DOMAIN l \subseteq Nat
    BY <1>1, <1>3, <1>5
  <2> QED BY <2>1, <1>1, <1>4, <1>5, ToldInverts
<1> HIDE DEF l
<1>7. ToldOf(h0, S) /\ Told(ids, S)
  BY <1>4, <1>5, <1>6, ToldMaps, ToldOfMaps
<1> HIDE DEF h0, ids, obs
<1>8. ToldOf(DropStaleAliases(h0, l, obs), S)
  BY <1>7 DEF ToldOf, DropStaleAliases
<1>9. Told(Pins(ids), S)
  BY <1>7 DEF Told, Pins
<1> QED BY <1>8, <1>9 DEF Handles, Ids, h0, ids, l, obs

\* Of the ids this run saw, the pins are exactly the bindings it kept.
PinsOf(obs, kept, p) ==
  \A i \in obs : IF i \in DOMAIN kept THEN i \in DOMAIN p /\ p[i] = kept[i] ELSE i \notin DOMAIN p

LEMMA PinsAreSeen ==
  ASSUME NEW page \in PartialMap(BxId, Url), NEW more \in PartialMap(BxId \ DOMAIN page, Url),
         NEW cached \in Handled, NEW bx, bx = Extend(page, more)
  PROVE  PinsOf(DOMAIN bx, ById(bx), Pins(Ids(page, cached, ById(bx), DOMAIN bx)))
<1> DEFINE l == ById(bx)
           obs == DOMAIN bx
           old == Only(Invert(cached), BxId \ obs)
           fresh == Extend(page, l)
           ids == Extend(old, fresh)
<1>1. /\ DOMAIN more \cap DOMAIN page = {} /\ DOMAIN bx = DOMAIN page \cup DOMAIN more
      /\ \A i \in DOMAIN page : bx[i] = page[i]
  <2>1. DOMAIN more \in SUBSET (BxId \ DOMAIN page)
    BY PartialMapIs
  <2> QED BY <2>1, ExtendMaps
<1>2. /\ DOMAIN l = {i \in obs : bx[i] \in Accepted}
      /\ \A i \in DOMAIN l : l[i] = bx[i] /\ l[i] \in Accepted
  BY DEF ById
<1>3. DOMAIN old \cap obs = {}
  BY DEF Only
<1> HIDE DEF l, old
<1>4. /\ DOMAIN ids = DOMAIN old \cup (DOMAIN page \cup DOMAIN l)
      /\ \A i \in DOMAIN l : ids[i] = l[i]
      /\ \A i \in DOMAIN page \ DOMAIN l : ids[i] = page[i]
  <2>1. /\ DOMAIN fresh = DOMAIN page \cup DOMAIN l
        /\ \A i \in DOMAIN l : fresh[i] = l[i]
        /\ \A i \in DOMAIN page \ DOMAIN l : fresh[i] = page[i]
    BY ExtendMaps
  <2> HIDE DEF fresh
  <2>2. DOMAIN ids = DOMAIN old \cup DOMAIN fresh /\ \A i \in DOMAIN fresh : ids[i] = fresh[i]
    BY ExtendMaps
  <2> QED BY <2>1, <2>2
<1> HIDE DEF ids
<1>5. /\ DOMAIN Pins(ids) = {i \in DOMAIN ids : ids[i] \in Accepted}
      /\ \A i \in DOMAIN Pins(ids) : Pins(ids)[i] = ids[i]
  BY DEF Pins
<1>6. ASSUME NEW i \in obs, i \in DOMAIN l PROVE i \in DOMAIN Pins(ids) /\ Pins(ids)[i] = l[i]
  BY <1>2, <1>4, <1>5, <1>6
<1>7. ASSUME NEW i \in obs, i \notin DOMAIN l PROVE i \notin DOMAIN Pins(ids)
  <2>1. bx[i] \notin Accepted
    BY <1>2, <1>7
  <2>2. i \in DOMAIN ids => ids[i] = bx[i]
    BY <1>1, <1>3, <1>4, <1>7
  <2> QED BY <2>1, <2>2, <1>5
<1> QED BY <1>6, <1>7 DEF PinsOf, Ids, ids, fresh, old, l, obs

\* Every binding in the lock, the cache and the run was told to a run of that release.
Origin ==
  /\ Readable(lock) => Told(lock.wasm_handles, said[lock.wa_version])
  /\ cache # Absent => ToldOf(cache.wasm_handles, said[cache.wa_version])
  /\ ToldOf(handles, said[version]) /\ Told(pins, said[version])

Seen == PinsOf(observed, live, pins)

LEMMA EmptyIsTold ==
  ASSUME NEW S
  PROVE  Told(EmptyMap, S) /\ ToldOf(EmptyMap, S)
BY DEF Told, ToldOf, EmptyMap

LEMMA LoadWasmOrigin == Inv /\ Origin /\ LoadWasm => Origin' /\ Seen'
<1> SUFFICES ASSUME Inv, Origin, LoadWasm PROVE Origin' /\ Seen'
  OBVIOUS
<1>1. PICK page \in PartialMap(BxId, Url), scanned \in SUBSET Accepted :
        \E more \in PartialMap(BxId \ DOMAIN page, Url) :
          LET bx == Extend(page, more)
          IN  /\ observed' = DOMAIN bx /\ live' = ById(bx)
              /\ handles' = Handles(page, CachedHandles, ById(bx), DOMAIN bx)
              /\ pins' = Pins(Ids(page, CachedHandles, ById(bx), DOMAIN bx))
              /\ said' = [said EXCEPT ![version] = @ \cup {<<i, bx[i]>> : i \in DOMAIN bx}]
  BY DEF LoadWasm
<1>2. PICK more \in PartialMap(BxId \ DOMAIN page, Url) :
        LET bx == Extend(page, more)
        IN  /\ observed' = DOMAIN bx /\ live' = ById(bx)
            /\ handles' = Handles(page, CachedHandles, ById(bx), DOMAIN bx)
            /\ pins' = Pins(Ids(page, CachedHandles, ById(bx), DOMAIN bx))
            /\ said' = [said EXCEPT ![version] = @ \cup {<<i, bx[i]>> : i \in DOMAIN bx}]
  BY <1>1
<1> DEFINE bx == Extend(page, more)
<1>0. /\ observed' = DOMAIN bx /\ live' = ById(bx)
      /\ handles' = Handles(page, CachedHandles, ById(bx), DOMAIN bx)
      /\ pins' = Pins(Ids(page, CachedHandles, ById(bx), DOMAIN bx))
      /\ said' = [said EXCEPT ![version] = @ \cup {<<i, bx[i]>> : i \in DOMAIN bx}]
      /\ bx = Extend(page, more)
  BY <1>2
<1> HIDE DEF bx
<1>3. UNCHANGED <<version, lock, cache, opts>> /\ CachedHandles \in Handled
  BY CachedIsMap DEF LoadWasm, disk, Inv
<1>4. /\ said \in [Version -> SUBSET (BxId \X Url)] /\ version \in Version
      /\ cache # Absent => cache.wa_version \in Version
      /\ Readable(lock) => lock.wa_version \in Version
  BY DEF Inv, TypeOK, Cache, Lock, Readable
<1>5. /\ \A v \in Version : said[v] \subseteq said'[v]
      /\ said'[version] = said[version] \cup {<<i, bx[i]>> : i \in DOMAIN bx}
  BY <1>0, <1>4
<1>6. ToldOf(CachedHandles, said[version])
  <2>1. CASE opts.cache /\ CacheHas(version)
    BY <2>1 DEF CachedHandles, CacheHas, Origin
  <2>2. CASE ~(opts.cache /\ CacheHas(version))
    <3>1. CachedHandles = EmptyMap
      BY <2>2 DEF CachedHandles
    <3> QED BY <3>1, EmptyIsTold
  <2> QED BY <2>1, <2>2
<1>7. Told(bx, said'[version]) /\ ToldOf(CachedHandles, said'[version])
  <2>1. Told(bx, said'[version])
    BY <1>5 DEF Told
  <2>2. said[version] \subseteq said'[version]
    BY <1>5
  <2> QED BY <2>1, <2>2, <1>6 DEF ToldOf
<1>8. ToldOf(handles', said'[version]) /\ Told(pins', said'[version])
  BY <1>0, <1>3, <1>7, MapsAreTold
<1>9. Readable(lock') => Told(lock'.wasm_handles, said'[lock'.wa_version])
  <2> SUFFICES ASSUME Readable(lock) PROVE Told(lock.wasm_handles, said'[lock.wa_version])
    BY <1>3
  <2>1. Told(lock.wasm_handles, said[lock.wa_version])
    BY DEF Origin
  <2>2. said[lock.wa_version] \subseteq said'[lock.wa_version]
    BY <1>4, <1>5
  <2> QED BY <2>1, <2>2 DEF Told
<1>10. cache' # Absent => ToldOf(cache'.wasm_handles, said'[cache'.wa_version])
  <2> SUFFICES ASSUME cache # Absent PROVE ToldOf(cache.wasm_handles, said'[cache.wa_version])
    BY <1>3
  <2>1. ToldOf(cache.wasm_handles, said[cache.wa_version])
    BY DEF Origin
  <2>2. said[cache.wa_version] \subseteq said'[cache.wa_version]
    BY <1>4, <1>5
  <2> QED BY <2>1, <2>2 DEF ToldOf
<1>11. Seen'
  BY <1>0, <1>3, PinsAreSeen DEF Seen
<1> QED BY <1>3, <1>8, <1>9, <1>10, <1>11 DEF Origin

LEMMA WriteLockOrigin == Inv /\ Origin /\ WriteLock => Origin'
<1> SUFFICES ASSUME Inv, Origin, WriteLock PROVE Origin'
  OBVIOUS
<1>1. lock' = NewLock /\ UNCHANGED <<version, handles, pins, cache, said>>
  BY DEF WriteLock, run
<1>2. Told(PriorHandles, said[version])
  <2>1. CASE Readable(lock) /\ lock.wa_version = version
    BY <2>1 DEF PriorHandles, Origin
  <2>2. CASE ~(Readable(lock) /\ lock.wa_version = version)
    <3>1. PriorHandles = EmptyMap
      BY <2>2 DEF PriorHandles
    <3> QED BY <3>1, EmptyIsTold
  <2> QED BY <2>1, <2>2
<1>3. Told(MergePriorHandles(pins, PriorHandles, observed), said[version])
  <2>1. Told(pins, said[version])
    BY DEF Origin
  <2>2. Told(Only(PriorHandles, BxId \ observed), said[version])
    BY <1>2, ToldMaps
  <2> QED BY <2>1, <2>2, ToldMaps DEF MergePriorHandles
<1>4. Readable(lock') => Told(lock'.wasm_handles, said[lock'.wa_version])
  <2>1. CASE payloads # {}
    <3>1. lock'.wasm_handles = MergePriorHandles(pins, PriorHandles, observed)
          /\ lock'.wa_version = version
      BY <2>1, <1>1 DEF NewLock
    <3> QED BY <3>1, <1>3
  <2>2. CASE payloads = {} /\ Rewrites
    <3>1. lock \in Lock /\ lock.wa_version = version
      BY <2>2 DEF Rewrites, Readable, Inv, TypeOK
    <3>2. lock' = [lock EXCEPT !.wasm_handles = MergePriorHandles(pins, PriorHandles, observed)]
      BY <2>2, <1>1 DEF NewLock
    <3>3. lock'.wasm_handles = MergePriorHandles(pins, PriorHandles, observed)
          /\ lock'.wa_version = version
      BY <3>1, <3>2 DEF Lock
    <3> QED BY <3>3, <1>3
  <2>3. CASE payloads = {} /\ ~Rewrites
    <3>1. lock' = lock
      BY <2>3, <1>1 DEF NewLock
    <3> QED BY <3>1 DEF Origin
  <2> QED BY <2>1, <2>2, <2>3
<1> QED BY <1>1, <1>4 DEF Origin

LEMMA OriginNext == Inv /\ Origin /\ Seen /\ [Next]_vars => Origin' /\ Seen'
<1> SUFFICES ASSUME Inv, Origin, Seen, [Next]_vars PROVE Origin' /\ Seen'
  OBVIOUS
<1>1. ASSUME UNCHANGED <<lock, cache, handles, pins, version, said, observed, live>>
      PROVE  Origin' /\ Seen'
  BY <1>1 DEF Origin, Seen, Readable
<1>2. CASE Start
  <2>1. /\ handles' = EmptyMap /\ pins' = EmptyMap /\ observed' = {} /\ UNCHANGED <<lock, said>>
        /\ cache' = cache \/ cache' = [wa_version |-> version', complete |-> TRUE, wasm |-> {},
                                       wasm_handles |-> EmptyMap]
    BY <1>2 DEF Start
  <2>2. cache' # Absent => ToldOf(cache'.wasm_handles, said[cache'.wa_version])
    BY <2>1, EmptyIsTold DEF Origin
  <2>3. ToldOf(handles', said[version']) /\ Told(pins', said[version'])
    BY <2>1, EmptyIsTold
  <2>4. Readable(lock') => Told(lock'.wasm_handles, said[lock'.wa_version])
    BY <2>1 DEF Origin
  <2>5. Seen'
    BY <2>1 DEF Seen, PinsOf
  <2> QED BY <2>1, <2>2, <2>3, <2>4, <2>5 DEF Origin
<1>3. CASE LoadWasm
  BY <1>3, LoadWasmOrigin
<1>4. CASE StoreWasm
  <2>1. UNCHANGED <<lock, handles, pins, version, said, observed, live>>
    BY <1>4 DEF StoreWasm, run
  <2>2. CASE opts.cache /\ CacheHas(version)
    <3>1. cache \in Cache /\ cache.wa_version = version
      BY <2>2 DEF CacheHas, Inv, TypeOK
    <3>2. cache' = [cache EXCEPT !.wasm = payloads, !.wasm_handles = Only(handles, payloads)]
      BY <1>4, <2>2 DEF StoreWasm
    <3>3. cache'.wasm_handles = Only(handles, payloads) /\ cache'.wa_version = version
      BY <3>1, <3>2 DEF Cache
    <3>4. ToldOf(Only(handles, payloads), said[version])
      BY ToldOfMaps DEF Origin
    <3> QED BY <2>1, <3>3, <3>4 DEF Origin, Seen
  <2>3. CASE ~(opts.cache /\ CacheHas(version))
    <3>1. UNCHANGED cache
      BY <1>4, <2>3 DEF StoreWasm
    <3> QED BY <2>1, <3>1, <1>1
  <2> QED BY <2>2, <2>3
<1>5. CASE StoreWasmFails \/ SweepDir \/ SaveWasm \/ Proceed \/ Stop \/ UNCHANGED vars
  <2>1. UNCHANGED <<lock, cache, handles, pins, version, said, observed, live>>
    BY <1>5 DEF StoreWasmFails, SweepDir, SaveWasm, Proceed, Stop, vars, run, disk
  <2> QED BY <2>1, <1>1
<1>6. CASE WriteLock
  <2>1. UNCHANGED <<observed, live, pins>>
    BY <1>6 DEF WriteLock, run
  <2> QED BY <1>6, <2>1, WriteLockOrigin DEF Seen
<1>7. CASE Crash
  <2>1. UNCHANGED <<cache, handles, pins, version, said, observed, live>>
    BY <1>7 DEF Crash, run, disk
  <2>2. lock' = lock \/ lock' = Torn
    BY <1>7 DEF Crash, disk
  <2>3. Readable(lock') => lock' = lock
    BY <2>2 DEF Readable
  <2> QED BY <2>1, <2>3 DEF Origin, Seen
<1>8. CASE Damage
  <2>1. UNCHANGED <<lock, handles, pins, version, said, observed, live>>
    BY <1>8 DEF Damage, run
  <2>2. cache' # Absent => /\ cache # Absent /\ cache'.wasm_handles = cache.wasm_handles
                           /\ cache'.wa_version = cache.wa_version
    BY <1>8 DEF Damage, Inv, TypeOK, Cache
  <2> QED BY <2>1, <2>2 DEF Origin, Seen
<1> QED BY <1>2, <1>3, <1>4, <1>5, <1>6, <1>7, <1>8 DEF Next

LEMMA OriginHolds == Spec => [](Inv /\ Origin /\ Seen)
<1>1. Init => Origin /\ Seen
  BY EmptyIsTold DEF Init, Origin, Seen, PinsOf, Readable
<1> QED BY <1>1, InitInv, NextInv, OriginNext, PTL DEF Spec

(* main.rs:2678-2683, 2748-2750: every binding in the lock was told to a run  *)
(* of the lock's own release, however runs of any releases alternate.         *)
THEOREM PinsKeepTheirRelease == Spec => []PinsAreOfOneRelease
<1>1. Origin => PinsAreOfOneRelease
  BY DEF Origin, Told, PinsAreOfOneRelease
<1> QED BY <1>1, OriginHolds, PTL

(* main.rs:2670-2676, 2720-2726: within a release a write of the lock loses   *)
(* an id only if this run saw it refused, and what this run saw wins.         *)
THEOREM PinsFollow == Spec => PinsFollowTheRun
<1> DEFINE Follows ==
      Readable(lock) /\ Readable(lock') /\ lock # lock' =>
        /\ lock.wa_version = lock'.wa_version =>
             DOMAIN lock.wasm_handles \subseteq observed \cup DOMAIN lock'.wasm_handles
        /\ \A i \in observed :
             IF i \in DOMAIN live
             THEN i \in DOMAIN lock'.wasm_handles /\ lock'.wasm_handles[i] = live[i]
             ELSE i \notin DOMAIN lock'.wasm_handles
<1>1. Inv /\ Seen /\ [Next]_vars => [Follows]_vars
  <2> SUFFICES ASSUME Inv, Seen, Next, Readable(lock), Readable(lock'), lock # lock'
               PROVE  Follows
    OBVIOUS
  <2>1. WriteLock
    BY DEF Next, Start, LoadWasm, StoreWasm, StoreWasmFails, SweepDir, SaveWasm, Proceed, Stop,
           Crash, Damage, disk, Readable
  <2> DEFINE merged == MergePriorHandles(pins, PriorHandles, observed)
  <2>2. lock'.wasm_handles = merged /\ lock'.wa_version = version
    <3>1. lock' = NewLock
      BY <2>1 DEF WriteLock
    <3>2. CASE payloads # {}
      BY <3>1, <3>2 DEF NewLock
    <3>3. CASE payloads = {}
      <4>1. Rewrites /\ lock' = [lock EXCEPT !.wasm_handles = merged]
        BY <3>1, <3>3 DEF NewLock
      <4>2. lock \in Lock /\ lock.wa_version = version
        BY <4>1 DEF Rewrites, Readable, Inv, TypeOK
      <4> QED BY <4>1, <4>2 DEF Lock
    <3> QED BY <3>2, <3>3
  <2>3. DOMAIN merged = (DOMAIN PriorHandles \cap (BxId \ observed)) \cup DOMAIN pins
        /\ \A i \in DOMAIN pins : merged[i] = pins[i]
    <3> DEFINE old == Only(PriorHandles, BxId \ observed)
    <3>1. DOMAIN old = DOMAIN PriorHandles \cap (BxId \ observed)
      BY OnlyMaps
    <3> HIDE DEF old
    <3>2. DOMAIN Extend(old, pins) = DOMAIN old \cup DOMAIN pins
          /\ \A i \in DOMAIN pins : Extend(old, pins)[i] = pins[i]
      BY ExtendMaps
    <3> QED BY <3>1, <3>2 DEF MergePriorHandles, old
  <2> HIDE DEF merged
  <2>4. ASSUME lock.wa_version = lock'.wa_version
        PROVE  DOMAIN lock.wasm_handles \subseteq observed \cup DOMAIN lock'.wasm_handles
    <3>1. PriorHandles = lock.wasm_handles
      BY <2>2, <2>4 DEF PriorHandles
    <3>2. DOMAIN lock.wasm_handles \in SUBSET BxId
      <4>1. lock.wasm_handles \in Bindings
        BY DEF Inv, TypeOK, Lock, Readable
      <4> QED BY <4>1, PartialMapIs DEF Bindings
    <3> QED BY <3>1, <3>2, <2>2, <2>3
  <2>5. ASSUME NEW i \in observed
        PROVE  IF i \in DOMAIN live
               THEN i \in DOMAIN lock'.wasm_handles /\ lock'.wasm_handles[i] = live[i]
               ELSE i \notin DOMAIN lock'.wasm_handles
    BY <2>2, <2>3 DEF Seen, PinsOf
  <2> QED BY <2>4, <2>5
<1>2. Spec => [][Follows]_vars
  BY <1>1, OriginHolds, PTL DEF Spec
<1> QED BY <1>2 DEF PinsFollowTheRun

-----------------------------------------------------------------------------
(* Which payloads are where. *)

\* What was stored is in the cache, and a cached run has all of it from load_wasm on.
Kept ==
  /\ got \subseteq IF cache = Absent THEN {} ELSE cache.wasm
  /\ pc \in {"load", "store", "sweep", "save", "update", "lock"} /\ opts.cache => CacheHas(version)
  /\ pc \in {"load", "store", "sweep", "save"} => opts.wasm
  /\ ~opts.wasm => payloads = {}
  /\ pc \in {"store", "sweep", "save", "update", "lock"} /\ opts.cache /\ opts.wasm
       => got \subseteq payloads

\* A run's directory is emptied, then holds its payloads, which its lock names.
Swept ==
  /\ pc = "save" => dir = {} /\ opts.wasm_out
  /\ pc \in {"update", "lock"} /\ opts.wasm_out => dir = payloads
  /\ pc = "done" /\ opts.wasm_out /\ dir # {} => Readable(lock) /\ DOMAIN lock.wasm = dir

LEMMA LoadWasmKept == Kept /\ LoadWasm => Kept' /\ Swept'
<1> SUFFICES ASSUME Kept, LoadWasm PROVE Kept' /\ Swept'
  OBVIOUS
<1>1. /\ pc = "load" /\ pc' \in {"sweep", "store"} /\ UNCHANGED <<cache, got, opts, version>>
      /\ \E found, downloaded : payloads' = CachedPayloads \cup downloaded
  BY DEF LoadWasm, Merged, disk
<1>2. opts.cache => got \subseteq payloads'
  <2> SUFFICES ASSUME opts.cache PROVE got \subseteq payloads'
    OBVIOUS
  <2>1. CacheHas(version) /\ got \subseteq cache.wasm
    BY <1>1 DEF Kept, CacheHas
  <2>2. CachedPayloads = cache.wasm
    BY <2>1 DEF CachedPayloads
  <2> QED BY <2>1, <2>2, <1>1
<1>3. Kept'
  BY <1>1, <1>2 DEF Kept, CacheHas
<1> QED BY <1>1, <1>3 DEF Swept

LEMMA StoreWasmKept == Inv /\ Kept /\ StoreWasm => Kept' /\ Swept'
<1> SUFFICES ASSUME Inv, Kept, StoreWasm PROVE Kept' /\ Swept'
  OBVIOUS
<1>1. pc = "store" /\ pc' = "sweep" /\ UNCHANGED <<opts, version, payloads>>
  BY DEF StoreWasm, run
<1>2. CASE opts.cache /\ CacheHas(version)
  <2>1. cache \in Cache /\ cache # Absent /\ cache.wa_version = version
    BY <1>2 DEF Inv, TypeOK, CacheHas
  <2>2. /\ cache' = [cache EXCEPT !.wasm = payloads, !.wasm_handles = Only(handles, payloads)]
        /\ got' = got \cup payloads
    BY <1>2 DEF StoreWasm
  <2>3. cache' \in Cache /\ cache' # Absent
    <3>1. Only(handles, payloads) \in Handled /\ payloads \subseteq Accepted
      BY StoredHandles DEF Inv, TypeOK
    <3>2. cache' \in Cache
      BY <2>1, <2>2, <3>1 DEF Cache
    <3> QED BY <3>2, SentinelAssumption
  <2>4. cache'.wasm = payloads /\ cache'.wa_version = version
    BY <2>1, <2>2 DEF Cache
  <2>5. got' = payloads
    BY <2>2, <1>1, <1>2 DEF Kept
  <2>6. CacheHas(version)'
    BY <2>3, <2>4, <1>1 DEF CacheHas
  <2> QED BY <2>3, <2>4, <2>5, <2>6, <1>1 DEF Kept, Swept, CacheHas
<1>3. CASE ~(opts.cache /\ CacheHas(version))
  <2>1. UNCHANGED <<cache, got>>
    BY <1>3 DEF StoreWasm
  <2> QED BY <2>1, <1>1 DEF Kept, Swept, CacheHas
<1> QED BY <1>2, <1>3

LEMMA KeptNext == Inv /\ Kept /\ Swept /\ [Next]_vars => Kept' /\ Swept'
<1> SUFFICES ASSUME Inv, Kept, Swept, [Next]_vars PROVE Kept' /\ Swept'
  OBVIOUS
<1>0. opts.wasm_out => opts.wasm
  BY RunAssumption DEF Inv, TypeOK
<1>1. CASE Start
  <2>1. /\ pc' = IF opts'.wasm THEN "load" ELSE "update"
        /\ payloads' = {} /\ opts' \in Flags /\ version' \in Version
    BY <1>1 DEF Start
  <2>2. opts'.wasm_out => opts'.wasm
    BY <2>1, RunAssumption
  <2>3. CASE opts'.cache /\ ~CacheHas(version')
    <3>1. /\ cache' = [wa_version |-> version', complete |-> TRUE, wasm |-> {},
                       wasm_handles |-> EmptyMap]
          /\ got' = {}
      BY <1>1, <2>3 DEF Start
    <3>2. cache' # Absent
      <4>1. EmptyMap \in Handled
        BY EmptyIsMap DEF Handled
      <4>2. cache' \in Cache
        BY <2>1, <3>1, <4>1 DEF Cache
      <4> QED BY <4>2, SentinelAssumption
    <3>3. CacheHas(version)'
      BY <3>1, <3>2 DEF CacheHas
    <3> QED BY <2>1, <2>2, <3>1, <3>2, <3>3 DEF Kept, Swept
  <2>4. CASE ~(opts'.cache /\ ~CacheHas(version'))
    <3>1. UNCHANGED <<cache, got>>
      BY <1>1, <2>4 DEF Start
    <3>2. opts'.cache => CacheHas(version)'
      BY <2>4, <3>1 DEF CacheHas
    <3> QED BY <2>1, <2>2, <3>1, <3>2 DEF Kept, Swept
  <2> QED BY <2>3, <2>4
<1>2. CASE LoadWasm
  BY <1>2, LoadWasmKept
<1>3. CASE StoreWasm
  BY <1>3, StoreWasmKept
<1>4. CASE StoreWasmFails
  BY <1>4 DEF StoreWasmFails, run, disk, Kept, Swept, CacheHas
<1>5. CASE SweepDir
  <2>1. pc = "sweep" /\ opts.wasm /\ UNCHANGED <<cache, got, opts, version, payloads>>
    BY <1>5 DEF SweepDir, run, Kept
  <2>2. \/ pc' = "save" /\ dir' = {} /\ opts.wasm_out
        \/ pc' = "update" /\ ~opts.wasm_out
    BY <1>5 DEF SweepDir
  <2> QED BY <2>1, <2>2 DEF Kept, Swept, CacheHas
<1>6. CASE SaveWasm
  BY <1>6 DEF SaveWasm, run, Kept, Swept, CacheHas
<1>7. CASE Proceed \/ Stop
  BY <1>7 DEF Proceed, Stop, run, disk, Kept, Swept, CacheHas
<1>8. CASE WriteLock
  <2>1. pc = "lock" /\ pc' = "done" /\ lock' = NewLock
        /\ UNCHANGED <<cache, got, opts, version, payloads, dir>>
    BY <1>8 DEF WriteLock, run
  <2>2. ASSUME opts.wasm_out, dir # {} PROVE Readable(lock') /\ DOMAIN lock'.wasm = dir
    <3>1. dir = payloads /\ payloads # {}
      BY <2>1, <2>2 DEF Swept
    <3>2. DOMAIN lock'.wasm = payloads
      BY <2>1, <3>1 DEF NewLock
    <3>3. Readable(lock')
      BY <2>1, <3>1, NewLockIs, SentinelAssumption DEF Readable
    <3> QED BY <3>1, <3>2, <3>3
  <2> QED BY <2>1, <2>2 DEF Kept, Swept, CacheHas
<1>9. CASE Crash
  <2>1. pc' = "idle" /\ UNCHANGED <<cache, got, opts, version, payloads>>
    BY <1>9 DEF Crash, run, disk
  <2> QED BY <2>1 DEF Kept, Swept
<1>10. CASE Damage
  <2>1. pc = "idle" /\ UNCHANGED <<pc, opts, version, payloads, dir, lock>>
    BY <1>10 DEF Damage, run
  <2>2. got' \subseteq IF cache' = Absent THEN {} ELSE cache'.wasm
    <3>1. CASE cache' = Absent /\ got' = {}
      BY <3>1
    <3>2. ASSUME NEW u \in cache.wasm, cache' = [cache EXCEPT !.wasm = @ \ {u}], got' = got \ {u}
          PROVE  got' \subseteq IF cache' = Absent THEN {} ELSE cache'.wasm
      <4>1. cache \in Cache /\ cache # Absent
        BY <1>10 DEF Damage, Inv, TypeOK
      <4>2. cache'.wasm = cache.wasm \ {u}
        BY <3>2, <4>1 DEF Cache
      <4>3. cache' # Absent
        <5>1. cache' \in Cache
          BY <3>2, <4>1 DEF Cache
        <5> QED BY <5>1, SentinelAssumption
      <4> QED BY <3>2, <4>1, <4>2, <4>3 DEF Kept
    <3> QED BY <3>1, <3>2, <1>10 DEF Damage
  <2> QED BY <2>1, <2>2 DEF Kept, Swept
<1>11. CASE UNCHANGED vars
  BY <1>11 DEF vars, run, disk, Kept, Swept, CacheHas
<1> QED BY <1>1, <1>2, <1>3, <1>4, <1>5, <1>6, <1>7, <1>8, <1>9, <1>10, <1>11 DEF Next

LEMMA KeptHolds == Spec => [](Inv /\ Kept /\ Swept)
<1>1. Init => Kept /\ Swept
  BY DEF Init, Kept, Swept
<1> QED BY <1>1, InitInv, NextInv, KeptNext, PTL DEF Spec

(* main.rs:1449-1452: the lock a cached run writes names every payload that   *)
(* was stored in the cache since it was filled for the release and that was   *)
(* not damaged, whatever came between.                                        *)
THEOREM PayloadsAreRemembered == Spec => NothingIsForgotten
<1> DEFINE Remembered == pc = "lock" /\ pc' = "done" /\ opts.cache /\ payloads # {} =>
                           got \subseteq DOMAIN lock'.wasm
<1>1. Inv /\ Kept /\ [Next]_vars => [Remembered]_vars
  <2> SUFFICES ASSUME Inv, Kept, Next, pc = "lock", pc' = "done", opts.cache, payloads # {}
               PROVE  got \subseteq DOMAIN lock'.wasm
    OBVIOUS
  <2>1. WriteLock
    BY DEF Next, Start, LoadWasm, StoreWasm, StoreWasmFails, SweepDir, SaveWasm, Proceed, Stop,
           Crash, Damage
  <2>2. DOMAIN lock'.wasm = payloads
    BY <2>1 DEF WriteLock, NewLock
  <2> QED BY <2>2 DEF Kept
<1>2. Spec => [][Remembered]_vars
  BY <1>1, KeptHolds, PTL DEF Spec
<1> QED BY <1>2 DEF NothingIsForgotten

(* update.yml: when a run has ended and its directory holds a payload, under  *)
(* a lock of the run's release, the directory is what publish-wasm.sh         *)
(* demands: the locked payloads and no other.                                 *)
THEOREM DirIsPublishable == Spec => []PublishableDir
<1>1. Swept => PublishableDir
  BY DEF Swept, PublishableDir
<1> QED BY <1>1, KeptHolds, PTL
=============================================================================
