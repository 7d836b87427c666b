------------------------------- MODULE Restore -------------------------------
(***************************************************************************)
(* whatspec restore (wa-store/src/restore.rs): a locked set, of bundles or *)
(* of wasm payloads, is taken from an archive, verified, and written to a  *)
(* directory or to a cache.                                                *)
(*                                                                         *)
(* Locks and archives are any from given finite sets, a wrong archive      *)
(* (--archive) and an edited lock included.  Contents with equal hashes    *)
(* are equal; sizes, archive formats and the limits on them are left out.  *)
(* BundleCache looks inside store and store_wasm, one step each here.      *)
(***************************************************************************)
EXTENDS Sequences, Naturals, FiniteSets

CONSTANTS
  Content, Name, Url, Version,
  MaxEntries,      \* bound on the length of locks and archives
  NoUrl, Absent, Torn,
  MaxRuns, MaxFaults  \* bounds

ASSUME RestoreAssumption ==
  /\ NoUrl \notin Url /\ Torn \notin Content
  /\ MaxEntries \in Nat /\ MaxRuns \in Nat /\ MaxFaults \in Nat

Kind == {"js", "wasm"}
Upto(S, n) == UNION {[1..k -> S] : k \in 0..n}
PartialMap(S, T) == UNION {[D -> T] : D \in SUBSET S}

Entry == [js |-> [content : Content, url : Url \cup {NoUrl}],
          wasm |-> [content : Content, url : Url \cup {NoUrl}, file_name : Name]]

\* consistent: the recorded hash and count are those of the entries.
Lock(k) == [version : Version, consistent : BOOLEAN, entries : Upto(Entry[k], MaxEntries)]

\* The archive's files in its order; one more than any lock has may be in it.
Archive == Upto([name : Name, content : Content], MaxEntries + 1)

Files == PartialMap(Name, Content \cup {Torn})
Cached == [version : Version, js : PartialMap(Url, Content), wasm : PartialMap(Url, Content)]

VARIABLES
  pc,
  kind, target, lock, archive,  \* the command, the lock it read, what it got
  todo,    \* files still to write: a sequence of [name, content]
  dir,     \* the --out directory: kind -> name -> content, the kind being the extension
  cache,   \* the --cache directory
  from,    \* history: the release of the lock each half of the cache was restored from
  runs, faults

command == <<kind, target, lock, archive>>
vars == <<pc, command, todo, dir, cache, from, runs, faults>>

Empty == [n \in {} |-> Absent]

Init ==
  /\ pc = "idle" /\ kind = "js" /\ target = "out" /\ lock = Absent /\ archive = << >>
  /\ todo = << >>
  /\ dir = [k \in Kind |-> Empty] /\ cache = Absent
  /\ from = [k \in Kind |-> Absent]
  /\ runs = 0 /\ faults = 0

\* A process that ends forgets its command.
End == /\ pc' = "idle" /\ kind' = "js" /\ target' = "out" /\ lock' = Absent
       /\ archive' = << >> /\ todo' = << >>

Urls(l) == [i \in DOMAIN l.entries |-> l.entries[i].url]
Injective(s) == \A i, j \in DOMAIN s : s[i] = s[j] => i = j

\* preflight_cache_lock_urls, and the like in payloads_for_cache.
CacheableUrls(l) == (\A i \in DOMAIN l.entries : l.entries[i].url # NoUrl) /\ Injective(Urls(l))

\* The command line; the lock is read and, for a cache, its URLs are looked at
\* before the archive is fetched.
Start ==
  /\ pc = "idle" /\ runs < MaxRuns /\ runs' = runs + 1
  /\ \E k \in Kind, t \in {"out", "cache"} : \E l \in Lock(k) :
       IF ~l.consistent \/ (k = "js" /\ t = "cache" /\ ~CacheableUrls(l))
       THEN UNCHANGED <<pc, command>>
       ELSE pc' = "fetch" /\ kind' = k /\ target' = t /\ lock' = l /\ UNCHANGED archive
  /\ UNCHANGED <<todo, dir, cache, from, faults>>

\* resolve_archive: nothing, or any archive.
Fetch ==
  /\ pc = "fetch"
  /\ archive' \in Archive /\ pc' = "verify"
  /\ UNCHANGED <<kind, target, lock, todo, dir, cache, from, runs, faults>>

NotFound == pc = "fetch" /\ End /\ UNCHANGED <<dir, cache, from, runs, faults>>

Times(s, c) == Cardinality({i \in DOMAIN s : s[i].content = c})

SameMultiset_asSets(s, t) ==  \* mutant: hashes compared as sets
  {s[i].content : i \in DOMAIN s} = {t[i].content : i \in DOMAIN t}

\* verify_multiset: contents with their multiplicities.
SameMultiset(s, t) == \A c \in Content : Times(s, c) = Times(t, c)

\* unpack_archive refuses an empty archive and one of more files than locked.
Verified(a, l) == a # << >> /\ Len(a) <= Len(l.entries) /\ SameMultiset(a, l.entries)

Named_byArchive(a, l) == a  \* mutant: payloads keep the archive's names

\* name_from_lock: the contents under the names the lock gives them.
Named(a, l) == [i \in DOMAIN l.entries |->
                  [name |-> l.entries[i].file_name, content |-> l.entries[i].content]]

ToWrite == IF kind = "js" THEN archive ELSE Named(archive, lock)
Names(s) == [i \in DOMAIN s |-> s[i].name]

Writable_any(s) == TRUE  \* mutant: two files of one name are let pass

\* write_bundles refuses before it sweeps.
Writable(s) == Injective(Names(s))

Verify ==
  /\ pc = "verify"
  /\ IF /\ Verified(archive, lock)
        /\ (target = "out" => Writable(ToWrite))
        /\ (target = "cache" => CacheableUrls(lock))
     THEN /\ pc' = IF target = "out" THEN "sweep" ELSE "cache"
          /\ todo' = IF target = "out" THEN ToWrite ELSE << >>
          /\ UNCHANGED command
     ELSE End
  /\ UNCHANGED <<dir, cache, from, runs, faults>>

\* write_bundles removes what has the extension, in any order ...
Sweep ==
  /\ pc = "sweep"
  /\ \E n \in DOMAIN dir[kind] :
       dir' = [dir EXCEPT ![kind] = [m \in DOMAIN @ \ {n} |-> @[m]]]
  /\ UNCHANGED <<pc, command, todo, cache, from, runs, faults>>

Swept == pc = "sweep" /\ dir[kind] = Empty

StartWriting ==
  /\ Swept
  /\ pc' = "write"
  /\ UNCHANGED <<command, todo, dir, cache, from, runs, faults>>

Put(files, n, c) == [m \in DOMAIN files \cup {n} |-> IF m = n THEN c ELSE files[m]]

\* ... and writes the files one by one.
Write ==
  /\ pc = "write" /\ todo # << >>
  /\ dir' = [dir EXCEPT ![kind] = Put(@, Head(todo).name, Head(todo).content)]
  /\ todo' = Tail(todo)
  /\ UNCHANGED <<pc, command, cache, from, runs, faults>>

ByUrl(l) == [u \in {l.entries[i].url : i \in DOMAIN l.entries} |->
               l.entries[CHOOSE i \in DOMAIN l.entries : l.entries[i].url = u].content]

Attached_anyRelease(l) ==  \* mutant: wasm is attached to whatever the cache holds
  IF cache = Absent THEN Absent ELSE [cache EXCEPT !.wasm = ByUrl(l)]

\* store_wasm: refused without a cache of the lock's release.
Attached(l) ==
  IF cache = Absent \/ cache.version # l.version THEN Absent ELSE [cache EXCEPT !.wasm = ByUrl(l)]

\* store replaces the cache, store_wasm attaches to it.
WriteCache ==
  /\ pc = "cache"
  /\ IF kind = "js"
     THEN /\ cache' = [version |-> lock.version, js |-> ByUrl(lock), wasm |-> Empty]
          /\ from' = [js |-> lock.version, wasm |-> Absent]
          /\ pc' = "write" /\ UNCHANGED <<command, todo>>
     ELSE IF Attached(lock) = Absent
     THEN End /\ UNCHANGED <<cache, from>>
     ELSE /\ cache' = Attached(lock) /\ from' = [from EXCEPT !.wasm = lock.version]
          /\ pc' = "write" /\ UNCHANGED <<command, todo>>
  /\ UNCHANGED <<dir, runs, faults>>

\* restore returns: what it reports as restored is on disk.
Report == pc = "write" /\ todo = << >> /\ End /\ UNCHANGED <<dir, cache, from, runs, faults>>

\* The process is killed, or a write fails and leaves part of a file.
Crash ==
  /\ pc # "idle" /\ faults < MaxFaults /\ faults' = faults + 1
  /\ \/ UNCHANGED dir
     \/ /\ pc = "write" /\ todo # << >>
        /\ dir' = [dir EXCEPT ![kind] = Put(@, Head(todo).name, Torn)]
  /\ End /\ UNCHANGED <<cache, from, runs>>

Next ==
  \/ Start \/ Fetch \/ NotFound \/ Verify \/ Sweep \/ StartWriting \/ Write \/ WriteCache \/ Report \/ Crash

Spec == Init /\ [][Next]_vars
-----------------------------------------------------------------------------
TypeOK ==
  /\ pc \in {"idle", "fetch", "verify", "sweep", "write", "cache"}
  /\ kind \in Kind /\ target \in {"out", "cache"} /\ (lock = Absent \/ lock \in Lock(kind))
  /\ archive \in Archive /\ todo \in Upto([name : Name, content : Content], MaxEntries)
  /\ dir \in [Kind -> Files] /\ cache \in Cached \cup {Absent}
  /\ from \in [Kind -> Version \cup {Absent}]
  /\ runs \in 0..MaxRuns /\ faults \in 0..MaxFaults

AboutToReport == pc = "write" /\ todo = << >>

\* How often a content is in the directory, by file.
InDir(k, c) == Cardinality({n \in DOMAIN dir[k] : dir[k][n] = c})

(* A restore that reports success leaves exactly the locked set in the         *)
(* directory, each content as often as the lock has it, whatever was there,    *)
(* also what a restore that was cut left.                                      *)
DirIsTheLockedSet ==
  AboutToReport /\ target = "out" =>
    /\ \A c \in Content : InDir(kind, c) = Times(lock.entries, c)
    /\ \A n \in DOMAIN dir[kind] : dir[kind][n] # Torn

(* The payloads are under the names the lock gives them, whatever names the    *)
(* archive had them under.                                                     *)
PayloadsHaveTheirNames ==
  AboutToReport /\ target = "out" /\ kind = "wasm" =>
    \A n \in DOMAIN dir["wasm"] : \E i \in DOMAIN lock.entries :
      lock.entries[i].file_name = n /\ lock.entries[i].content = dir["wasm"][n]

(* Nothing on disk changes before the archive is known to be the locked set,   *)
(* and then only what the command is about: files of the other kind stay, and  *)
(* the bundles of a cache that wasm is restored into.                          *)
VerifyBeforeMutate ==
  [][/\ <<dir, cache>>' # <<dir, cache>> =>
          \A c \in Content : Times(archive, c) = Times(lock.entries, c)
     /\ \A k \in Kind : dir'[k] # dir[k] => k = kind
     /\ cache' # cache /\ kind = "wasm" => cache'.js = cache.js]_vars

(* A cache never has bundles of one release and wasm of another: what it says  *)
(* it holds is what both of its halves were restored from.                     *)
CacheIsOfOneRelease ==
  cache # Absent => /\ from["js"] = cache.version
                    /\ (cache.wasm # Empty => from["wasm"] = cache.version)
=============================================================================
