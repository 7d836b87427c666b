---------------------------- MODULE BundleCache ----------------------------
(***************************************************************************)
(* The version-keyed bundle cache of wa-fetch (cache.rs), one file-system  *)
(* call per step.  Any number of whatspec processes share one directory;   *)
(* the code takes no lock on it.  A call may be abandoned at any step (an  *)
(* I/O error or a crash: what reached the disk stays there), and the       *)
(* files may be damaged behind the program's back.                         *)
(*                                                                         *)
(* The bundles/ and wasm/ subtrees hold one file per URL, so `files' is    *)
(* keyed by URL; JsUrl and WasmUrl are disjoint because the two subtrees   *)
(* are.  fs::write truncates and then writes: a file that is open for      *)
(* writing, or whose writer died, is Torn.                                 *)
(***************************************************************************)
EXTENDS Naturals, FiniteSets

CONSTANTS
  Proc,         \* processes working on the cache directory
  Version,      \* WhatsApp versions
  JsUrl,        \* URLs of JS bundles
  WasmUrl,      \* URLs of wasm payloads
  Bytes,        \* contents a server may answer with
  BxId,         \* bootloader handles
  Absent,       \* no such file; also "no path" and "no answer"
  Torn,         \* truncated or half-written contents
  Tmp,          \* the path manifest.json.tmp
  MaxCalls,     \* bound: calls of the cache's operations
  MaxFaults     \* bound: abandoned calls and damaged files

Url == JsUrl \cup WasmUrl
PartialMap(D, R) == UNION {[d -> R] : d \in SUBSET D}
Empty == [u \in {} |-> Absent]

ASSUME SentinelAssumption ==
  /\ Absent \notin Bytes \cup Url
  /\ Torn \notin Bytes /\ Torn # Absent
  /\ Tmp \notin Url /\ Tmp # Absent
  /\ JsUrl \cap WasmUrl = {}
  /\ MaxCalls \in Nat /\ MaxFaults \in Nat

-----------------------------------------------------------------------------
(* What the code computes without touching the disk.                       *)

\* The size and SHA-256 of a file's contents: equal only for equal contents.
Digest(bytes) == [sha256 |-> bytes]
DigestSet == {Digest(b) : b \in Bytes}

\* The BundleEntry records write_set returns for the bundles it wrote.
Entries(bundles) == [u \in DOMAIN bundles |-> Digest(bundles[u])]

\* The manifest `store' writes: complete, and without any wasm.
NewManifest(v, bundles) ==
  [wa_version |-> v, complete |-> TRUE, bundles |-> Entries(bundles),
   wasm |-> Empty, wasm_handles |-> Empty]

WithWasm_everyHandle(m, payloads, handles) ==  \* mutant
  [m EXCEPT !.wasm = Entries(payloads), !.wasm_handles = handles]

\* The manifest `store_wasm' writes: the one it read, its wasm half replaced;
\* only the handles of stored payloads are kept.
WithWasm(m, payloads, handles) ==
  [m EXCEPT !.wasm = Entries(payloads),
            !.wasm_handles =
              [u \in DOMAIN payloads \cap DOMAIN handles |-> handles[u]]]

\* read_manifest succeeds on this file.
Readable(m) == m \notin {Absent, Torn}

Usable_anyVersion(m, v) == Readable(m) /\ m.complete  \* mutant

\* usable_manifest, and the same guard in store_wasm.
Usable(m, v) == Readable(m) /\ m.complete /\ m.wa_version = v

Intact_present(contents, entry) == contents # Absent  \* mutant

\* load_one accepts these file contents for this manifest entry.
Intact(contents, entry) == contents # Absent /\ Digest(contents) = entry

Manifest ==
  [wa_version : Version, complete : BOOLEAN,
   bundles : PartialMap(JsUrl, DigestSet),
   wasm : PartialMap(WasmUrl, DigestSet), wasm_handles : PartialMap(WasmUrl, BxId)]

\* What a hit is made of.
HeldSet == [wa_version : Version, set : PartialMap(JsUrl, Bytes)]

ASSUME ManifestAssumption ==
  Absent \notin Manifest \cup HeldSet /\ Torn \notin Manifest

-----------------------------------------------------------------------------
VARIABLES
  manifest,  \* manifest.json
  tmp,       \* manifest.json.tmp
  files,     \* bundles/ and wasm/, by URL
  pc,        \* where each process is in its call
  want,      \* the version a process's read operation was asked for
  mem,       \* the manifest a process holds in memory
  buf,       \* the bundles a process writes, or has loaded so far, by URL
  todo,      \* the URLs a process has yet to write or load
  open,      \* the path a process has open for writing
  spoiled,   \* processes whose open file another process touched
  status,    \* the CacheStatus a process's last check returned
  answer,    \* what its last wasm_payloads or wasm_handles returned
  offered,   \* history: every set given to store and store_wasm
  calls, faults

disk == <<manifest, tmp, files>>
local == <<pc, want, mem, buf, todo, open, spoiled>>
vars == <<disk, local, status, answer, offered, calls, faults>>

PC == {"idle", "clear_manifest", "clear_bundles", "clear_wasm", "write",
       "tmp", "rename", "prune", "load_set", "wasm_payloads"}

Init ==
  /\ manifest = Absent /\ tmp = Absent
  /\ files = [u \in Url |-> Absent]
  /\ pc = [p \in Proc |-> "idle"]
  /\ want = [p \in Proc |-> Absent]
  /\ mem = [p \in Proc |-> Absent]
  /\ buf = [p \in Proc |-> Empty]
  /\ todo = [p \in Proc |-> {}]
  /\ open = [p \in Proc |-> Absent]
  /\ spoiled = {}
  /\ status = [p \in Proc |-> Absent] /\ answer = [p \in Proc |-> Absent]
  /\ offered = {}
  /\ calls = 0 /\ faults = 0

\* Process p calls an operation and is given these locals.
Enter(p, at, v, m, b, urls) ==
  /\ pc[p] = "idle" /\ calls < MaxCalls /\ calls' = calls + 1
  /\ pc' = [pc EXCEPT ![p] = at]
  /\ want' = [want EXCEPT ![p] = v]
  /\ mem' = [mem EXCEPT ![p] = m]
  /\ buf' = [buf EXCEPT ![p] = b]
  /\ todo' = [todo EXCEPT ![p] = urls]
  /\ UNCHANGED <<open, spoiled, faults>>

\* Process p's call is over; its locals go out of scope.
Leave(p) ==
  /\ pc' = [pc EXCEPT ![p] = "idle"]
  /\ want' = [want EXCEPT ![p] = Absent]
  /\ mem' = [mem EXCEPT ![p] = Absent]
  /\ buf' = [buf EXCEPT ![p] = Empty]
  /\ todo' = [todo EXCEPT ![p] = {}]

\* Process p's open file is closed, by p or by its death.
Close(p) ==
  /\ open' = [open EXCEPT ![p] = Absent]
  /\ spoiled' = spoiled \ {p}

Goto(p, at) == pc' = [pc EXCEPT ![p] = at]

-----------------------------------------------------------------------------
(* store: clear, write_set, write_manifest.                                *)

Store(p, v, bundles) ==
  /\ Enter(p, "clear_manifest", Absent, NewManifest(v, bundles), bundles, DOMAIN bundles)
  /\ offered' = offered \cup {[kind |-> "js", wa_version |-> v, set |-> bundles]}
  /\ UNCHANGED <<disk, status, answer>>

ClearManifest_forgotten(p) ==  \* mutant
  /\ pc[p] = "clear_manifest"
  /\ Goto(p, "clear_bundles")
  /\ UNCHANGED <<disk, want, mem, buf, todo, open, spoiled, status, answer,
                 offered, calls, faults>>

ClearManifest(p) ==
  /\ pc[p] = "clear_manifest"
  /\ manifest' = Absent
  /\ Goto(p, "clear_bundles")
  /\ UNCHANGED <<tmp, files, want, mem, buf, todo, open, spoiled, status, answer, offered,
                 calls, faults>>

\* remove_file / remove_dir_all took these files away.
Remove(gone) ==
  /\ files' = [u \in Url |-> IF u \in gone THEN Absent ELSE files[u]]
  /\ spoiled' = spoiled \cup {q \in Proc : open[q] \in gone}

\* remove_dir_all deletes entry by entry: it may be seen part way through.
ClearDir(p, here, dir, next) ==
  /\ pc[p] = here
  /\ \E gone \in SUBSET {u \in dir : files[u] # Absent} :
       /\ Remove(gone)
       /\ Goto(p, IF \A u \in dir : files'[u] = Absent THEN next ELSE here)
  /\ UNCHANGED <<manifest, tmp, want, mem, buf, todo, open, status, answer, offered,
                 calls, faults>>

\* fs::write, first half: open and truncate.
Truncate(p, path) ==
  /\ open[p] = Absent
  /\ open' = [open EXCEPT ![p] = path]
  /\ LET others == {q \in Proc : open[q] = path}
     IN  spoiled' = spoiled \cup others \cup (IF others = {} THEN {} ELSE {p})

\* fs::write, second half: what is at the path once p has written `contents'
\* over `old'.  Two writers on one path may leave a mixture, and a file that
\* was unlinked under the writer stays away.
Landed(p, old, contents) ==
  IF p \in spoiled THEN {old, contents, Torn} ELSE {contents}

\* write_set: one bundle at a time.
WriteBegin(p) ==
  /\ pc[p] = "write"
  /\ \E u \in todo[p] :
       /\ Truncate(p, u)
       /\ files' = [files EXCEPT ![u] = Torn]
  /\ UNCHANGED <<manifest, tmp, pc, want, mem, buf, todo, status, answer, offered, calls, faults>>

WriteEnd(p) ==
  /\ pc[p] = "write" /\ open[p] # Absent
  /\ \E now \in Landed(p, files[open[p]], buf[p][open[p]]) :
       files' = [files EXCEPT ![open[p]] = now]
  /\ todo' = [todo EXCEPT ![p] = @ \ {open[p]}]
  /\ Close(p)
  /\ UNCHANGED <<manifest, tmp, pc, want, mem, buf, status, answer, offered, calls, faults>>

TmpBegin_inPlace(p) ==  \* mutant
  /\ pc[p] = "write" /\ todo[p] = {}
  /\ Truncate(p, Tmp)
  /\ manifest' = Torn /\ tmp' = Torn
  /\ Goto(p, "tmp")
  /\ UNCHANGED <<files, want, mem, buf, todo, status, answer, offered, calls, faults>>

\* write_manifest: the temporary file ...
TmpBegin(p) ==
  /\ pc[p] = "write" /\ todo[p] = {}
  /\ Truncate(p, Tmp)
  /\ tmp' = Torn
  /\ Goto(p, "tmp")
  /\ UNCHANGED <<manifest, files, want, mem, buf, todo, status, answer, offered, calls, faults>>

\* ... which another process may already have renamed into place.
TmpEnd(p) ==
  /\ pc[p] = "tmp"
  /\ \/ /\ tmp' \in Landed(p, tmp, mem[p])
        /\ UNCHANGED manifest
     \/ /\ p \in spoiled /\ manifest # Absent
        /\ manifest' \in {mem[p], Torn}
        /\ UNCHANGED tmp
  /\ Close(p)
  /\ Goto(p, "rename")
  /\ UNCHANGED <<files, want, mem, buf, todo, status, answer, offered, calls, faults>>

\* ... and the rename that commits it.  Only store_wasm goes on, to prune.
Rename(p) ==
  /\ pc[p] = "rename" /\ tmp # Absent
  /\ manifest' = tmp /\ tmp' = Absent
  /\ spoiled' = spoiled \cup {q \in Proc : open[q] = Tmp}
  /\ IF DOMAIN buf[p] \subseteq WasmUrl
     THEN Goto(p, "prune") /\ UNCHANGED <<want, mem, buf, todo>>
     ELSE Leave(p)
  /\ UNCHANGED <<files, open, status, answer, offered, calls, faults>>

\* Another process renamed the temporary file away: an error.
RenameFails(p) ==
  /\ pc[p] = "rename" /\ tmp = Absent
  /\ Leave(p)
  /\ UNCHANGED <<disk, open, spoiled, status, answer, offered, calls, faults>>

-----------------------------------------------------------------------------
(* store_wasm: check the manifest, write_set, write_manifest, prune.       *)

StoreWasm(p, v, payloads, handles) ==
  /\ IF Usable(manifest, v)
     THEN Enter(p, "write", Absent, WithWasm(manifest, payloads, handles), payloads,
                DOMAIN payloads)
     ELSE Enter(p, "idle", Absent, Absent, Empty, {})
  /\ offered' = offered \cup {[kind |-> "wasm", wa_version |-> v,
                               set |-> payloads, handles |-> handles]}
  /\ UNCHANGED <<disk, status, answer>>

\* Drop what the committed manifest does not name; best effort.
Prune(p) ==
  /\ pc[p] = "prune"
  /\ \E gone \in SUBSET {u \in WasmUrl \ DOMAIN buf[p] : files[u] # Absent} :
       Remove(gone)
  /\ Leave(p)
  /\ UNCHANGED <<manifest, tmp, open, status, answer, offered, calls, faults>>

-----------------------------------------------------------------------------
(* check, wasm_payloads and wasm_handles.                                  *)

Reply(kind, v, result) == [kind |-> kind, wa_version |-> v, set |-> result]

\* check: a miss at once, or go and load every JS bundle.
Check(p, v) ==
  /\ IF Usable(manifest, v)
     THEN /\ Enter(p, "load_set", v, manifest, Empty, DOMAIN manifest.bundles)
          /\ UNCHANGED status
     ELSE /\ Enter(p, "idle", Absent, Absent, Empty, {})
          /\ status' = [status EXCEPT ![p] = Reply("miss", v, Empty)]
  /\ UNCHANGED <<disk, answer, offered>>

WasmPayloads(p, v) ==
  /\ IF Usable(manifest, v)
     THEN /\ Enter(p, "wasm_payloads", v, manifest, Empty, DOMAIN manifest.wasm)
          /\ UNCHANGED answer
     ELSE /\ Enter(p, "idle", Absent, Absent, Empty, {})
          /\ answer' = [answer EXCEPT ![p] = Reply("payloads", v, Empty)]
  /\ UNCHANGED <<disk, status, offered>>

\* wasm_handles does not ask for a complete manifest.
WasmHandles(p, v) ==
  /\ Enter(p, "idle", Absent, Absent, Empty, {})
  /\ answer' = [answer EXCEPT ![p] =
       Reply("handles", v, IF Readable(manifest) /\ manifest.wa_version = v
                           THEN manifest.wasm_handles ELSE Empty)]
  /\ UNCHANGED <<disk, status, offered>>

Loaded(b, u, contents) ==
  [w \in DOMAIN b \cup {u} |-> IF w = u THEN contents ELSE b[w]]

\* load_set: one bad bundle makes the whole set a miss.
LoadOne(p) ==
  /\ pc[p] = "load_set"
  /\ \E u \in todo[p] :
       IF Intact(files[u], mem[p].bundles[u])
       THEN /\ buf' = [buf EXCEPT ![p] = Loaded(@, u, files[u])]
            /\ todo' = [todo EXCEPT ![p] = @ \ {u}]
            /\ UNCHANGED <<pc, want, mem, status>>
       ELSE /\ Leave(p)
            /\ status' = [status EXCEPT ![p] = Reply("miss", want[p], Empty)]
  /\ UNCHANGED <<disk, open, spoiled, answer, offered, calls, faults>>

Hit(p) ==
  /\ pc[p] = "load_set" /\ todo[p] = {}
  /\ status' = [status EXCEPT ![p] = Reply("hit", want[p], buf[p])]
  /\ Leave(p)
  /\ UNCHANGED <<disk, open, spoiled, answer, offered, calls, faults>>

\* wasm_payloads: a bad payload is skipped, the others are kept.
LoadPayload(p) ==
  /\ pc[p] = "wasm_payloads"
  /\ \E u \in todo[p] :
       /\ buf' = [buf EXCEPT ![p] =
                    IF Intact(files[u], mem[p].wasm[u])
                    THEN Loaded(@, u, files[u]) ELSE @]
       /\ todo' = [todo EXCEPT ![p] = @ \ {u}]
  /\ UNCHANGED <<disk, pc, want, mem, open, spoiled, status, answer, offered, calls, faults>>

ReturnPayloads(p) ==
  /\ pc[p] = "wasm_payloads" /\ todo[p] = {}
  /\ answer' = [answer EXCEPT ![p] = Reply("payloads", want[p], buf[p])]
  /\ Leave(p)
  /\ UNCHANGED <<disk, open, spoiled, status, offered, calls, faults>>

-----------------------------------------------------------------------------
(* Faults.                                                                 *)

\* An I/O error or a crash: the call ends where it is.
Abandon(p) ==
  /\ pc[p] # "idle" /\ faults < MaxFaults /\ faults' = faults + 1
  /\ Leave(p) /\ Close(p)
  /\ UNCHANGED <<disk, status, answer, offered, calls>>

\* A file no process has open is lost or corrupted.
DamageFile ==
  /\ faults < MaxFaults /\ faults' = faults + 1
  /\ \E u \in Url : 
       /\ files[u] # Absent /\ \A q \in Proc : open[q] # u
       /\ \E now \in Bytes \cup {Absent, Torn} : files' = [files EXCEPT ![u] = now]
  /\ UNCHANGED <<manifest, tmp, local, status, answer, offered, calls>>

DamageManifest ==
  /\ faults < MaxFaults /\ faults' = faults + 1
  /\ Readable(manifest)
  /\ manifest' \in {Absent, Torn, [manifest EXCEPT !.complete = FALSE]}
  /\ UNCHANGED <<tmp, files, local, status, answer, offered, calls>>

-----------------------------------------------------------------------------
\* One file-system call of a running operation of process p.
Step(p) ==
  \/ ClearManifest(p)
  \/ ClearDir(p, "clear_bundles", JsUrl, "clear_wasm")
  \/ ClearDir(p, "clear_wasm", WasmUrl, "write")
  \/ WriteBegin(p) \/ WriteEnd(p) \/ TmpBegin(p) \/ TmpEnd(p)
  \/ Rename(p) \/ RenameFails(p) \/ Prune(p)
  \/ LoadOne(p) \/ Hit(p) \/ LoadPayload(p) \/ ReturnPayloads(p)

\* Every caller of store passes at least one bundle.
BundleSets == PartialMap(JsUrl, Bytes) \ {Empty}

Call(p) ==
  \E v \in Version :
    \/ \E bundles \in BundleSets : Store(p, v, bundles)
    \/ \E payloads \in PartialMap(WasmUrl, Bytes), handles \in PartialMap(WasmUrl, BxId) :
         StoreWasm(p, v, payloads, handles)
    \/ Check(p, v) \/ WasmPayloads(p, v) \/ WasmHandles(p, v)

CrashNext == \E p \in Proc : Call(p) \/ Step(p) \/ Abandon(p)
Next == CrashNext \/ DamageFile \/ DamageManifest

\* Files change only through the cache's own calls, which may be cut short.
CrashSpec == Init /\ [][CrashNext]_vars

\* Processes take turns: a call begins when no other is being made.
TurnNext ==
  \E p \in Proc :
    /\ \A q \in Proc \ {p} : pc[q] = "idle"
    /\ Call(p) \/ Step(p) \/ Abandon(p)

TurnSpec == Init /\ [][TurnNext]_vars

\* Files may also be lost or corrupted from outside.
Spec == Init /\ [][Next]_vars

-----------------------------------------------------------------------------
Payload == PartialMap(Url, Bytes)
Offer ==
  [kind : {"js"}, wa_version : Version, set : Payload] \cup
  [kind : {"wasm"}, wa_version : Version, set : Payload,
   handles : PartialMap(WasmUrl, BxId)]

Answers(kinds, results) == [kind : kinds, wa_version : Version, set : results]

TypeOK ==
  /\ manifest \in Manifest \cup {Absent, Torn}
  /\ tmp \in Manifest \cup {Absent, Torn}
  /\ files \in [Url -> Bytes \cup {Absent, Torn}]
  /\ pc \in [Proc -> PC]
  /\ want \in [Proc -> Version \cup {Absent}]
  /\ mem \in [Proc -> Manifest \cup {Absent}]
  /\ buf \in [Proc -> Payload]
  /\ todo \in [Proc -> SUBSET Url]
  /\ open \in [Proc -> Url \cup {Tmp, Absent}]
  /\ spoiled \subseteq Proc
  /\ status \in [Proc -> Answers({"hit", "miss"}, Payload) \cup {Absent}]
  /\ answer \in [Proc -> Answers({"payloads"}, Payload)
                        \cup Answers({"handles"}, PartialMap(WasmUrl, BxId))
                        \cup {Absent}]
  /\ offered \subseteq Offer
  /\ calls \in 0..MaxCalls /\ faults \in 0..MaxFaults

Answered(p, kind) == answer[p] # Absent /\ answer[p].kind = kind

\* check: whatever the interleaving, the crashes and the damage, a hit for a
\* version returns exactly one set that some store call was given for that
\* version (never a mixture of two stores, never a corrupted bundle).
HitIsAStoredSet ==
  \A p \in Proc : status[p] # Absent /\ status[p].kind = "hit" =>
    [kind |-> "js", wa_version |-> status[p].wa_version, set |-> status[p].set]
      \in offered

\* wasm_payloads: every payload returned for a version has the bytes that one
\* store_wasm call recorded for it under that version.
PayloadsWereStored ==
  \A p \in Proc : Answered(p, "payloads") => 
    \/ answer[p].set = Empty
    \/ \E o \in offered :
         /\ o.kind = "wasm" /\ o.wa_version = answer[p].wa_version
         /\ DOMAIN answer[p].set \subseteq DOMAIN o.set
         /\ \A u \in DOMAIN answer[p].set : answer[p].set[u] = o.set[u]

\* wasm_handles: the pairings returned for a version were recorded for that
\* version, each with a payload that was stored along with it.
HandlesWereStored ==
  \A p \in Proc : Answered(p, "handles") =>
    \A u \in DOMAIN answer[p].set : \E o \in offered :
      /\ o.kind = "wasm" /\ o.wa_version = answer[p].wa_version
      /\ u \in DOMAIN o.set \cap DOMAIN o.handles
      /\ answer[p].set[u] = o.handles[u]

\* cache.rs:43-47, while processes take turns: a manifest on disk names only JS bundles
\* that are on disk, whole, wherever a call of store or store_wasm was cut
\* short.
CommittedSetIsWhole ==
  Readable(manifest) =>
    \A u \in DOMAIN manifest.bundles : Intact(files[u], manifest.bundles[u])

\* cache.rs:320-325, while processes take turns: once a call of store_wasm that was cut
\* short before it committed is over, the payloads the manifest names are
\* still there.
CommittedWasmIsWhole ==
  Readable(manifest) /\ (\A p \in Proc : pc[p] = "idle") =>
    \A u \in DOMAIN manifest.wasm : Intact(files[u], manifest.wasm[u])

\* What a caller of the cache sees: the set on disk under the names of a
\* complete manifest.
held ==
  IF Readable(manifest) /\ manifest.complete
  THEN [wa_version |-> manifest.wa_version,
        set |-> [u \in DOMAIN manifest.bundles |-> files[u]]]
  ELSE Absent

\* A process is inside store, past the point where the old set was dropped.
storing ==
  \E p \in Proc :
    \/ pc[p] \in {"clear_bundles", "clear_wasm"}
    \/ pc[p] \in {"write", "tmp", "rename"} /\ ~(DOMAIN buf[p] \subseteq WasmUrl)
=============================================================================
