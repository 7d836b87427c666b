----------------------------- MODULE WasmHandles -----------------------------
(***************************************************************************)
(* What `whatspec update --wasm' computes about bootloader handles         *)
(* (whatspec/src/main.rs, wa-fetch/src/bootloader.rs).  A handle map goes  *)
(* one of two ways: bx id -> URL (what the page and the endpoint say, and  *)
(* what the lock's pins record), or URL -> bx id (what the cache and the   *)
(* lock's entries record).  Ids and URLs are numbered in their string      *)
(* order.                                                                  *)
(***************************************************************************)
EXTENDS Naturals

CONSTANTS
  BxId,     \* bootloader handles
  Url,      \* URLs a server may bind one to
  Accepted, \* those of a .wasm file, over https, on the CDN host
  None      \* no handle

ASSUME HandleAssumption ==
  BxId \subseteq Nat /\ Accepted \subseteq Url /\ Url \subseteq Nat /\ None \notin BxId

PartialMap(D, R) == UNION {[d -> R] : d \in SUBSET D}
Image(f) == {f[x] : x \in DOMAIN f}
Only(f, S) == [x \in DOMAIN f \cap S |-> f[x]]
Extend(f, g) ==  \* f.extend(g): g wins
  [x \in DOMAIN f \cup DOMAIN g |-> IF x \in DOMAIN g THEN g[x] ELSE f[x]]
Lowest(S) == CHOOSE x \in S : \A y \in S : x <= y

\* invert, and WasmResolution::handle_by_url: the lowest id of each URL.
Invert(byId) ==
  [u \in Image(byId) |-> Lowest({i \in DOMAIN byId : byId[i] = u})]

\* The bindings of bx that resolve_wasm_with keeps.
ById(bx) == [i \in {j \in DOMAIN bx : bx[j] \in Accepted} |-> bx[i]]

DropStaleAliases_postFilter(handles, live, observed) ==  \* mutant: the filtered map alone
  [u \in {v \in DOMAIN handles : handles[v] \in DOMAIN live => live[handles[v]] = v}
     |-> handles[u]]

\* drop_stale_aliases: a URL keeps its id unless this run saw the id bound to
\* another URL, or to one it refused.
DropStaleAliases(handles, live, observed) ==
  [u \in {v \in DOMAIN handles :
            IF handles[v] \in DOMAIN live THEN live[handles[v]] = v
            ELSE handles[v] \notin observed}
     |-> handles[u]]

\* load_wasm's URL -> id map: the page, then the cache, then the live answer.
Handles(page, cached, live, observed) ==
  DropStaleAliases(Extend(Extend(Invert(page), cached), Invert(live)), live, observed)

\* load_wasm's id -> URL map: the cache adds only ids this run did not see.
Ids(page, cached, live, observed) ==
  Extend(Only(Invert(cached), BxId \ observed), Extend(page, live))

\* bootloader_pins.
Pins(ids) == [i \in {j \in DOMAIN ids : ids[j] \in Accepted} |-> ids[i]]

MergePriorHandles_resurrects(pins, prior, seen) == Extend(prior, pins)  \* mutant: no tombstone

\* merge_prior_handles: what the lock already held, but not the ids this run
\* saw and refused.
MergePriorHandles(pins, prior, seen) ==
  Extend(Only(prior, BxId \ seen), pins)

\* The bx_id wasm_entries gives a payload.
BxIdOf(handles, u) == IF u \in DOMAIN handles THEN handles[u] ELSE None
=============================================================================
