---------------------------- MODULE RestoreProofs ----------------------------
(***************************************************************************)
(* Restore and Capture, for any locks, archives, pins, answers, runs and   *)
(* faults.                                                                 *)
(***************************************************************************)
EXTENDS Capture, FiniteSetTheorems, SequenceTheorems, TLAPS

-----------------------------------------------------------------------------
(* Restore. The invariant says what is known at each point of a run: from    *)
(* Verify on, that the archive is the locked set; while files are written,   *)
(* that the directory holds those of the list that are done. As no two of    *)
(* them have one name, a directory that holds all of them holds each content *)
(* as often as the lock.                                                     *)

\* A directory holds the first of the files, and the rest is still to write.
WrittenSoFar ==
  LET written == Len(ToWrite) - Len(todo) IN
  /\ Len(todo) <= Len(ToWrite) /\ Writable(ToWrite)
  /\ \A j \in 1..Len(todo) : todo[j] = ToWrite[written + j]
  /\ DOMAIN dir[kind] = {ToWrite[i].name : i \in 1..written}
  /\ \A i \in 1..written : dir[kind][ToWrite[i].name] = ToWrite[i].content

Phases ==
  /\ pc # "idle" => lock \in Lock(kind)
  /\ pc \in {"sweep", "write", "cache"} => SameMultiset(archive, lock.entries)
  /\ pc = "sweep" => target = "out" /\ todo = ToWrite /\ Writable(ToWrite)
  /\ pc = "cache" => target = "cache" /\ todo = << >> /\ CacheableUrls(lock)
  /\ pc = "write" => IF target = "out" THEN WrittenSoFar ELSE todo = << >>

RestoreInv == TypeOK /\ Phases

LEMMA UptoIsSeq ==
  ASSUME NEW S, NEW n \in Nat, NEW s \in Upto(S, n)
  PROVE  s \in Seq(S) /\ Len(s) \in 0..n /\ DOMAIN s = 1..Len(s) /\ s \in [1..Len(s) -> S]
<1>1. PICK k \in 0..n : s \in [1..k -> S]
  BY DEF Upto
<1>2. s \in Seq(S) /\ Len(s) = k
  BY <1>1
<1> QED BY <1>1, <1>2

LEMMA SeqIsUpto ==
  ASSUME NEW S, NEW n \in Nat, NEW k \in 0..n, NEW s \in [1..k -> S]
  PROVE  s \in Upto(S, n)
BY DEF Upto

LEMMA EmptyIsUpto == \A n \in Nat : \A S : << >> \in Upto(S, n)
<1> SUFFICES ASSUME NEW n \in Nat, NEW S PROVE << >> \in Upto(S, n)
  OBVIOUS
<1>1. << >> \in [1..0 -> S] /\ 0 \in 0..n
  OBVIOUS
<1> QED BY <1>1 DEF Upto

LEMMA ToWriteType ==
  ASSUME TypeOK, lock \in Lock(kind), kind = "js" => Len(archive) <= Len(lock.entries)
  PROVE  ToWrite \in Upto(File, MaxEntries)
<1>1. lock.entries \in Upto(Entry[kind], MaxEntries) /\ MaxEntries \in Nat
  BY RestoreAssumption DEF Lock
<1>2. CASE kind = "js"
  <2>1. archive \in Upto(File, MaxEntries + 1)
    BY DEF TypeOK, Archive, File
  <2>2. Len(archive) \in 0..MaxEntries /\ archive \in [1..Len(archive) -> File]
    BY <1>1, <1>2, <2>1, UptoIsSeq
  <2> QED BY <1>1, <1>2, <2>2, SeqIsUpto DEF ToWrite
<1>3. CASE kind = "wasm"
  <2> DEFINE e == lock.entries
  <2>1. /\ Len(e) \in 0..MaxEntries /\ e \in [1..Len(e) -> Entry["wasm"]] /\ DOMAIN e = 1..Len(e)
    BY <1>1, <1>3, UptoIsSeq
  <2>2. \A i \in 1..Len(e) : e[i].file_name \in Name /\ e[i].content \in Content
    BY <2>1 DEF Entry
  <2>3. Named(archive, lock) \in [1..Len(e) -> File]
    BY <2>1, <2>2 DEF Named, File
  <2> QED BY <1>1, <1>3, <2>1, <2>3, SeqIsUpto DEF ToWrite
<1> QED BY <1>2, <1>3 DEF TypeOK, Kind

LEMMA PutIsFiles ==
  ASSUME NEW f \in Files, NEW n \in Name, NEW c \in Content \cup {Torn}
  PROVE  Put(f, n, c) \in Files
<1>1. DOMAIN f \in SUBSET Name /\ f \in [DOMAIN f -> Content \cup {Torn}]
  BY DEF Files, PartialMap
<1>2. Put(f, n, c) \in [DOMAIN f \cup {n} -> Content \cup {Torn}]
  BY <1>1 DEF Put
<1> QED BY <1>1, <1>2 DEF Files, PartialMap

LEMMA ByUrlIsMap ==
  ASSUME NEW k \in Kind, NEW l \in Lock(k), CacheableUrls(l)
  PROVE  ByUrl(l) \in PartialMap(Url, Content)
<1> DEFINE e == l.entries
           D == {e[i].url : i \in DOMAIN e}
<1>1. e \in Upto(Entry[k], MaxEntries) /\ MaxEntries \in Nat
  BY RestoreAssumption DEF Lock
<1>2. DOMAIN e = 1..Len(e) /\ e \in [1..Len(e) -> Entry[k]]
  BY <1>1, UptoIsSeq
<1>3. \A i \in DOMAIN e : e[i].content \in Content /\ e[i].url \in Url
  <2> SUFFICES ASSUME NEW i \in DOMAIN e PROVE e[i].content \in Content /\ e[i].url \in Url
    OBVIOUS
  <2>1. e[i] \in Entry[k] /\ e[i].url # NoUrl
    BY <1>2 DEF CacheableUrls
  <2>2. CASE k = "js" BY <2>1, <2>2 DEF Entry
  <2>3. CASE k = "wasm" BY <2>1, <2>3 DEF Entry
  <2> QED BY <2>2, <2>3 DEF Kind
<1>4. \A u \in D : \E i \in DOMAIN e : e[i].url = u
  OBVIOUS
<1>5. \A u \in D : (CHOOSE i \in DOMAIN e : e[i].url = u) \in DOMAIN e
  BY <1>4
<1>6. ByUrl(l) \in [D -> Content]
  BY <1>3, <1>5 DEF ByUrl
<1>7. D \in SUBSET Url
  BY <1>3
<1> QED BY <1>6, <1>7 DEF PartialMap

-----------------------------------------------------------------------------
LEMMA RestoreInit == Init => RestoreInv
<1> SUFFICES ASSUME Init PROVE RestoreInv
  OBVIOUS
<1>1. Empty \in [{} -> Content \cup {Torn}]
  BY DEF Empty
<1>2. /\ << >> \in Upto(File, MaxEntries) /\ << >> \in Upto(File, MaxEntries + 1)
  BY RestoreAssumption, EmptyIsUpto, MaxEntries + 1 \in Nat
<1>3. Empty \in Files
  BY <1>1, {} \in SUBSET Name DEF Files, PartialMap
<1>4. TypeOK
  BY <1>2, <1>3, RestoreAssumption DEF Init, TypeOK, Kind, Archive, File
<1> QED BY <1>4 DEF Init, RestoreInv, Phases

\* A process that ends leaves nothing to say about its command.
LEMMA EndFits ==
  ASSUME TypeOK, End, dir' \in [Kind -> Files], cache' \in Cached \cup {Absent},
         from' \in [Kind -> Version \cup {Absent}], runs' \in 0..MaxRuns, faults' \in 0..MaxFaults
  PROVE  RestoreInv'
<1>1. << >> \in Upto(File, MaxEntries) /\ << >> \in Upto(File, MaxEntries + 1)
  BY RestoreAssumption, EmptyIsUpto, MaxEntries + 1 \in Nat
<1>2. TypeOK'
  BY <1>1 DEF End, TypeOK, Kind, Archive, File
<1> QED BY <1>2 DEF End, RestoreInv, Phases

LEMMA StartFits == ASSUME RestoreInv, Start PROVE RestoreInv'
<1>1. PICK k \in Kind, t \in {"out", "cache"} : \E l \in Lock(k) :
        IF ~l.consistent \/ (k = "js" /\ t = "cache" /\ ~CacheableUrls(l))
        THEN UNCHANGED <<pc, command>>
        ELSE pc' = "fetch" /\ kind' = k /\ target' = t /\ lock' = l /\ UNCHANGED archive
  BY DEF Start
<1>2. PICK l \in Lock(k) :
        \/ UNCHANGED <<pc, command>>
        \/ pc' = "fetch" /\ kind' = k /\ target' = t /\ lock' = l /\ UNCHANGED archive
  BY <1>1
<1>3. pc = "idle" /\ runs' \in 0..MaxRuns /\ UNCHANGED <<todo, dir, cache, from, faults>>
  BY RestoreAssumption DEF Start, RestoreInv, TypeOK
<1>4. TypeOK'
  BY <1>2, <1>3 DEF RestoreInv, TypeOK, command
<1> QED BY <1>2, <1>3, <1>4 DEF RestoreInv, Phases, command

LEMMA FetchFits == ASSUME RestoreInv, Fetch PROVE RestoreInv'
<1>1. TypeOK'
  BY DEF Fetch, RestoreInv, TypeOK
<1> QED BY <1>1 DEF Fetch, RestoreInv, Phases

LEMMA VerifyFits == ASSUME RestoreInv, Verify PROVE RestoreInv'
<1>1. pc = "verify" /\ UNCHANGED <<dir, cache, from, runs, faults>> /\ lock \in Lock(kind)
  BY DEF Verify, RestoreInv, Phases
<1>2. CASE End
  BY <1>1, <1>2, EndFits DEF RestoreInv, TypeOK
<1>3. CASE /\ Verified(archive, lock) /\ (target = "out" => Writable(ToWrite))
           /\ (target = "cache" => CacheableUrls(lock))
           /\ pc' = IF target = "out" THEN "sweep" ELSE "cache"
           /\ todo' = IF target = "out" THEN ToWrite ELSE << >>
           /\ UNCHANGED command
  <2>1. ToWrite \in Upto(File, MaxEntries)
    BY <1>1, <1>3, ToWriteType DEF RestoreInv, Verified
  <2>2. << >> \in Upto(File, MaxEntries)
    BY RestoreAssumption, EmptyIsUpto
  <2>3. ToWrite' = ToWrite
    BY <1>3 DEF ToWrite, command
  <2>4. TypeOK'
    BY <1>1, <1>3, <2>1, <2>2 DEF RestoreInv, TypeOK, command, File
  <2>5. target \in {"out", "cache"}
    BY DEF RestoreInv, TypeOK
  <2>6. /\ lock' \in Lock(kind') /\ SameMultiset(archive, lock.entries)'
        /\ target' = target
    BY <1>1, <1>3 DEF command, Verified, SameMultiset, Times
  <2>7. CASE target = "out"
    <3>1. pc' = "sweep" /\ todo' = ToWrite' /\ Writable(ToWrite)'
      BY <1>3, <2>3, <2>7 DEF Writable, Names
    <3> QED BY <2>4, <2>6, <2>7, <3>1 DEF RestoreInv, Phases
  <2>8. CASE target = "cache"
    <3>1. pc' = "cache" /\ todo' = << >> /\ CacheableUrls(lock)'
      BY <1>3, <2>8 DEF Verify, command, CacheableUrls, Urls
    <3> QED BY <2>4, <2>6, <2>8, <3>1 DEF RestoreInv, Phases
  <2> QED BY <2>5, <2>7, <2>8
<1> QED BY <1>2, <1>3 DEF Verify

LEMMA SweepFits == ASSUME RestoreInv, Sweep PROVE RestoreInv'
<1>1. PICK n \in DOMAIN dir[kind] :
        dir' = [dir EXCEPT ![kind] = [m \in DOMAIN @ \ {n} |-> @[m]]]
  BY DEF Sweep
<1>2. pc = "sweep" /\ UNCHANGED <<pc, command, todo, cache, from, runs, faults>>
  BY DEF Sweep
<1> DEFINE f == dir[kind]
           g == [m \in DOMAIN f \ {n} |-> f[m]]
<1>3. dir \in [Kind -> Files] /\ kind \in Kind /\ f \in Files
  BY DEF RestoreInv, TypeOK
<1>4. g \in Files
  <2>1. DOMAIN f \in SUBSET Name /\ f \in [DOMAIN f -> Content \cup {Torn}]
    BY <1>3 DEF Files, PartialMap
  <2>2. g \in [DOMAIN f \ {n} -> Content \cup {Torn}] /\ DOMAIN f \ {n} \in SUBSET Name
    BY <2>1
  <2> QED BY <2>2 DEF Files, PartialMap
<1>5. dir' \in [Kind -> Files]
  BY <1>1, <1>3, <1>4
<1>6. TypeOK'
  BY <1>2, <1>5 DEF RestoreInv, TypeOK, command
<1>7. ToWrite' = ToWrite
  BY <1>2 DEF ToWrite, command
<1> QED BY <1>2, <1>6, <1>7 DEF RestoreInv, Phases, command

LEMMA StartWritingFits == ASSUME RestoreInv, StartWriting PROVE RestoreInv'
<1>1. /\ pc = "sweep" /\ dir[kind] = Empty /\ pc' = "write"
      /\ UNCHANGED <<command, todo, dir, cache, from, runs, faults>>
  BY DEF StartWriting, Swept
<1>2. todo = ToWrite /\ Writable(ToWrite) /\ ToWrite' = ToWrite
  BY <1>1 DEF RestoreInv, Phases, ToWrite, command
<1>3. Len(todo) \in Nat
  BY RestoreAssumption, UptoIsSeq DEF RestoreInv, TypeOK
<1>4. WrittenSoFar'
  <2>1. DOMAIN Empty = {}
    BY DEF Empty
  <2> HIDE DEF ToWrite
  <2> QED BY <1>1, <1>2, <1>3, <2>1 DEF WrittenSoFar, command
<1>5. TypeOK'
  BY <1>1 DEF RestoreInv, TypeOK, command
<1> QED BY <1>1, <1>4, <1>5 DEF RestoreInv, Phases, command

\* The files of a run that verified its archive.
LEMMA ToWriteIsList ==
  ASSUME RestoreInv, pc # "idle"
  PROVE  /\ DOMAIN ToWrite = 1..Len(ToWrite) /\ Len(ToWrite) \in Nat
         /\ \A i \in 1..Len(ToWrite) : ToWrite[i] \in File
<1>1. lock \in Lock(kind) /\ MaxEntries \in Nat /\ MaxEntries + 1 \in Nat
  BY RestoreAssumption DEF RestoreInv, Phases
<1>2. CASE kind = "js"
  <2>1. archive \in Upto(File, MaxEntries + 1)
    BY DEF RestoreInv, TypeOK, Archive, File
  <2> QED BY <1>1, <1>2, <2>1, UptoIsSeq DEF ToWrite
<1>3. CASE kind = "wasm"
  <2>1. ToWrite \in Upto(File, MaxEntries)
    BY <1>1, <1>3, ToWriteType DEF RestoreInv
  <2> QED BY <1>1, <2>1, UptoIsSeq
<1> QED BY <1>2, <1>3 DEF RestoreInv, TypeOK, Kind

\* What is still to write goes into a directory.
LEMMA OnlyOutWrites ==
  ASSUME RestoreInv, pc = "write", todo # << >>
  PROVE  target = "out" /\ WrittenSoFar
BY DEF RestoreInv, Phases, TypeOK

\* The next file of the list.
LEMMA NextFile ==
  ASSUME RestoreInv, pc = "write", todo # << >>
  PROVE  /\ todo \in Seq(File) /\ Len(todo) \in 1..MaxEntries
         /\ Head(todo) \in File /\ Tail(todo) \in Upto(File, MaxEntries)
         /\ Len(Tail(todo)) = Len(todo) - 1
         /\ \A j \in 1..Len(Tail(todo)) : Tail(todo)[j] = todo[j + 1]
         /\ Head(todo) = todo[1]
<1>1. todo \in Upto(File, MaxEntries) /\ MaxEntries \in Nat
  BY RestoreAssumption DEF RestoreInv, TypeOK, File
<1>2. todo \in Seq(File) /\ Len(todo) \in 0..MaxEntries
  BY <1>1, UptoIsSeq
<1>3. Len(todo) \in 1..MaxEntries
  BY <1>1, <1>2
<1>4. /\ Tail(todo) \in Seq(File) /\ Len(Tail(todo)) = Len(todo) - 1 /\ Head(todo) \in File
      /\ Head(todo) = todo[1] /\ \A j \in 1..Len(Tail(todo)) : Tail(todo)[j] = todo[j + 1]
  BY <1>2, <1>3
<1>5. Tail(todo) \in [1..Len(Tail(todo)) -> File] /\ Len(Tail(todo)) \in 0..MaxEntries
  <2>1. Len(Tail(todo)) \in 0..MaxEntries
    BY <1>1, <1>3, <1>4
  <2> QED BY <2>1, <1>4, LenProperties
<1>6. Tail(todo) \in Upto(File, MaxEntries)
  BY <1>1, <1>5, SeqIsUpto
<1> QED BY <1>2, <1>3, <1>4, <1>6

LEMMA WriteFits == ASSUME RestoreInv, Write PROVE RestoreInv'
<1> DEFINE f == dir[kind]
           h == Head(todo)
           w == ToWrite
           n == Len(w) - Len(todo)
<1>1. /\ pc = "write" /\ todo # << >> /\ todo' = Tail(todo)
      /\ dir' = [dir EXCEPT ![kind] = Put(f, h.name, h.content)]
      /\ UNCHANGED <<pc, command, cache, from, runs, faults>>
  BY DEF Write
<1>2. dir \in [Kind -> Files] /\ kind \in Kind /\ f \in Files
  BY DEF RestoreInv, TypeOK
<1>3. h.name \in Name /\ h.content \in Content
  BY <1>1, NextFile DEF File
<1>4. Put(f, h.name, h.content) \in Files
  BY <1>2, <1>3, PutIsFiles
<1>5. dir'[kind] = Put(f, h.name, h.content) /\ dir' \in [Kind -> Files]
  BY <1>1, <1>2, <1>4
<1>6. TypeOK'
  <2>1. todo' \in Upto([name : Name, content : Content], MaxEntries)
    BY <1>1, NextFile DEF File
  <2> QED BY <1>1, <1>5, <2>1 DEF RestoreInv, TypeOK, command
<1>7. WrittenSoFar'
  <2>1. target = "out" /\ WrittenSoFar
    BY <1>1, OnlyOutWrites
  <2>2. w' = w /\ kind' = kind
    BY <1>1 DEF ToWrite, command
  <2>3. lock \in Lock(kind) /\ SameMultiset(archive, lock.entries)
    BY <1>1 DEF RestoreInv, Phases
  <2> HIDE DEF w
  <2>4. Len(todo) <= Len(w) /\ Len(w) \in Nat /\ Len(todo) \in Nat /\ Len(todo) >= 1
    <3>1. Len(todo) \in 1..MaxEntries
      BY <1>1, NextFile
    <3>2. Len(w) \in Nat
      BY <1>1, ToWriteIsList DEF w
    <3> QED BY <2>1, <3>1, <3>2, RestoreAssumption DEF WrittenSoFar, w
  <2>5. n + 1 \in 1..Len(w) /\ h = w[n + 1]
    BY <1>1, <2>1, <2>4, NextFile DEF WrittenSoFar, w
  <2>6. Writable(w) /\ DOMAIN f = {w[i].name : i \in 1..n} /\ \A i \in 1..n : f[w[i].name] = w[i].content
    BY <2>1 DEF WrittenSoFar, w
  <2>7. DOMAIN w = 1..Len(w)
    BY <1>1, ToWriteIsList DEF w
  <2>8. \A i \in 1..n : w[i].name # h.name
    BY <2>4, <2>5, <2>6, <2>7 DEF Writable, Injective, Names
  <2>9. Len(w) - Len(Tail(todo)) = n + 1 /\ Len(Tail(todo)) <= Len(w)
    BY <1>1, <2>4, NextFile
  <2>10. \A j \in 1..Len(Tail(todo)) : Tail(todo)[j] = w[(n + 1) + j]
    BY <1>1, <2>1, <2>4, NextFile DEF WrittenSoFar, w
  <2> DEFINE g == Put(f, h.name, h.content)
  <2>11. DOMAIN g = {w[i].name : i \in 1..(n + 1)}
    BY <2>4, <2>5, <2>6 DEF Put
  <2>12. \A i \in 1..(n + 1) : g[w[i].name] = w[i].content
    BY <2>4, <2>5, <2>6, <2>8 DEF Put
  <2> HIDE DEF g
  <2>13. dir'[kind'] = g /\ todo' = Tail(todo)
    BY <1>1, <1>5, <2>2 DEF g
  <2> QED BY <2>2, <2>6, <2>9, <2>10, <2>11, <2>12, <2>13 DEF WrittenSoFar, w
<1> QED BY <1>1, <1>6, <1>7 DEF RestoreInv, Phases, command


LEMMA WriteCacheFits == ASSUME RestoreInv, WriteCache PROVE RestoreInv'
<1>1. /\ pc = "cache" /\ UNCHANGED <<dir, runs, faults>> /\ lock \in Lock(kind)
      /\ target = "cache" /\ todo = << >> /\ kind \in Kind /\ CacheableUrls(lock)
  BY DEF WriteCache, RestoreInv, Phases, TypeOK
<1>2. CASE End /\ UNCHANGED <<cache, from>>
  BY <1>1, <1>2, EndFits DEF RestoreInv, TypeOK
<1>3. CASE pc' = "write" /\ UNCHANGED <<command, todo>>
  <2>1. ByUrl(lock) \in PartialMap(Url, Content) /\ lock.version \in Version
    BY <1>1, ByUrlIsMap DEF Lock
  <2>2. Empty \in PartialMap(Url, Content)
    BY {} \in SUBSET Url, Empty \in [{} -> Content] DEF PartialMap, Empty
  <2>3. cache' \in Cached \cup {Absent}
    <3>1. \/ cache' = [version |-> lock.version, js |-> ByUrl(lock), wasm |-> Empty]
          \/ cache' = [cache EXCEPT !.wasm = ByUrl(lock)] /\ cache # Absent
          \/ cache' = Absent
          \/ cache' = cache
      BY DEF WriteCache, Attached
    <3>2. cache \in Cached \cup {Absent}
      BY DEF RestoreInv, TypeOK
    <3> QED BY <2>1, <2>2, <3>1, <3>2 DEF Cached
  <2>4. from' \in [Kind -> Version \cup {Absent}]
    BY <2>1 DEF WriteCache, RestoreInv, TypeOK, Kind
  <2>5. TypeOK'
    BY <1>1, <1>3, <2>3, <2>4 DEF RestoreInv, TypeOK, command
  <2> QED BY <1>1, <1>3, <2>5 DEF RestoreInv, Phases, command
<1> QED BY <1>2, <1>3 DEF WriteCache

LEMMA EndStepsFit == ASSUME RestoreInv, NotFound \/ Report \/ Crash PROVE RestoreInv'
<1>1. End /\ UNCHANGED <<cache, from, runs>>
  BY DEF NotFound, Report, Crash
<1>2. faults' \in 0..MaxFaults
  BY RestoreAssumption DEF NotFound, Report, Crash, RestoreInv, TypeOK
<1>3. dir' \in [Kind -> Files]
  <2>1. dir \in [Kind -> Files] /\ kind \in Kind
    BY DEF RestoreInv, TypeOK
  <2>2. CASE UNCHANGED dir
    BY <2>1, <2>2
  <2>3. CASE /\ pc = "write" /\ todo # << >>
             /\ dir' = [dir EXCEPT ![kind] = Put(@, Head(todo).name, Torn)]
    <3>1. Head(todo).name \in Name
      BY <2>3, NextFile DEF File
    <3>2. Put(dir[kind], Head(todo).name, Torn) \in Files
      BY <2>1, <3>1, PutIsFiles
    <3> QED BY <2>1, <2>3, <3>2
  <2> QED BY <2>2, <2>3 DEF NotFound, Report, Crash
<1> QED BY <1>1, <1>2, <1>3, EndFits DEF RestoreInv, TypeOK

LEMMA RestoreNext == RestoreInv /\ [Next]_vars => RestoreInv'
<1>1. ASSUME RestoreInv, Next PROVE RestoreInv'
  BY <1>1, StartFits, FetchFits, VerifyFits, SweepFits, StartWritingFits, WriteFits,
     WriteCacheFits, EndStepsFit DEF Next
<1>2. ASSUME RestoreInv, UNCHANGED vars PROVE RestoreInv'
  BY <1>2 DEF vars, command, RestoreInv, TypeOK, Phases, WrittenSoFar, ToWrite, AboutToReport
<1> QED BY <1>1, <1>2

LEMMA RestoreHolds == Spec => []RestoreInv
BY RestoreInit, RestoreNext, PTL DEF Spec

(* Every variable keeps its type: a run writes no more than the lock has.     *)
THEOREM TypeCorrect == Spec => []TypeOK
<1>1. RestoreInv => TypeOK
  BY DEF RestoreInv
<1> QED BY <1>1, RestoreHolds, PTL

(* restore.rs: nothing on disk changes before the archive is known to be the  *)
(* locked set, and then only what the command is about.                       *)
THEOREM VerifiesFirst == Spec => VerifyBeforeMutate
<1> DEFINE Careful ==
      /\ <<dir, cache>>' # <<dir, cache>> =>
           \A c \in Content : Times(archive, c) = Times(lock.entries, c)
      /\ \A k \in Kind : dir'[k] # dir[k] => k = kind
      /\ cache' # cache /\ kind = "wasm" => cache'.js = cache.js
<1>1. RestoreInv /\ [Next]_vars => [Careful]_vars
  <2> SUFFICES ASSUME RestoreInv, Next PROVE Careful
    OBVIOUS
  <2>1. CASE UNCHANGED <<dir, cache>>
    BY <2>1
  <2>2. CASE Sweep \/ Write \/ WriteCache \/ (Crash /\ pc = "write")
    <3>1. \A c \in Content : Times(archive, c) = Times(lock.entries, c)
      BY <2>2 DEF Sweep, Write, WriteCache, RestoreInv, Phases, SameMultiset
    <3>2. \A k \in Kind : dir'[k] # dir[k] => k = kind
      BY <2>2 DEF Sweep, Write, WriteCache, Crash, RestoreInv, TypeOK
    <3>3. cache' # cache /\ kind = "wasm" => cache'.js = cache.js
      <4> SUFFICES ASSUME cache' # cache, kind = "wasm" PROVE cache'.js = cache.js
        OBVIOUS
      <4>1. WriteCache
        BY <2>2 DEF Sweep, Write, Crash
      <4>2. cache' = Attached(lock) /\ cache' # Absent
        BY <4>1 DEF WriteCache
      <4>3. cache # Absent /\ cache' = [cache EXCEPT !.wasm = ByUrl(lock)]
        BY <4>2 DEF Attached
      <4>4. cache \in Cached
        BY <4>3 DEF RestoreInv, TypeOK
      <4> QED BY <4>3, <4>4 DEF Cached
    <3> QED BY <3>1, <3>2, <3>3
  <2> QED BY <2>1, <2>2 DEF Next, Start, Fetch, NotFound, Verify, StartWriting, Report, Crash
<1>2. Spec => [][Careful]_vars
  BY <1>1, RestoreHolds, PTL DEF Spec
<1> QED BY <1>2 DEF VerifyBeforeMutate

(* restore.rs: a cache never has bundles of one release and wasm of another.  *)
THEOREM OneRelease == Spec => []CacheIsOfOneRelease
<1>1. Init => CacheIsOfOneRelease
  BY DEF Init, CacheIsOfOneRelease
<1>2. RestoreInv /\ CacheIsOfOneRelease /\ [Next]_vars => CacheIsOfOneRelease'
  <2> SUFFICES ASSUME RestoreInv, CacheIsOfOneRelease, [Next]_vars PROVE CacheIsOfOneRelease'
    OBVIOUS
  <2>1. CASE UNCHANGED <<cache, from>>
    BY <2>1 DEF CacheIsOfOneRelease
  <2>2. CASE /\ cache' = [version |-> lock.version, js |-> ByUrl(lock), wasm |-> Empty]
             /\ from' = [js |-> lock.version, wasm |-> Absent]
    BY <2>2 DEF CacheIsOfOneRelease
  <2>3. CASE /\ cache' = Attached(lock) /\ cache' # Absent
             /\ from' = [from EXCEPT !.wasm = lock.version]
    <3>1. cache # Absent /\ cache.version = lock.version /\ cache' = [cache EXCEPT !.wasm = ByUrl(lock)]
      BY <2>3 DEF Attached
    <3>2. cache \in Cached /\ from \in [Kind -> Version \cup {Absent}]
      BY <3>1 DEF RestoreInv, TypeOK
    <3> QED BY <2>3, <3>1, <3>2 DEF CacheIsOfOneRelease, Cached, Kind
  <2> QED BY <2>1, <2>2, <2>3 DEF Next, Start, Fetch, NotFound, Verify, Sweep, StartWriting, Write,
                                  WriteCache, Report, Crash, vars
<1> QED BY <1>1, <1>2, RestoreHolds, PTL DEF Spec

\* When all is written, a content is in as many files as it has entries.
LEMMA WrittenIsTheLockedSet ==
  ASSUME RestoreInv, AboutToReport, target = "out", NEW c \in Content
  PROVE  InDir(kind, c) = Times(lock.entries, c)
<1> DEFINE f == dir[kind]
           w == ToWrite
           A == {i \in DOMAIN w : w[i].content = c}
           B == {n \in DOMAIN f : f[n] = c}
           g == [i \in A |-> w[i].name]
<1>1. pc = "write" /\ todo = << >> /\ WrittenSoFar
  BY DEF AboutToReport, RestoreInv, Phases
<1>2. DOMAIN w = 1..Len(w) /\ Len(w) \in Nat
  BY <1>1, ToWriteIsList
<1>3. /\ DOMAIN f = {w[i].name : i \in DOMAIN w}
      /\ \A i \in DOMAIN w : f[w[i].name] = w[i].content
      /\ \A i, j \in DOMAIN w : w[i].name = w[j].name => i = j
  <2>1. Len(w) - Len(todo) = Len(w)
    BY <1>1, <1>2
  <2>2. Injective(Names(w))
    BY <1>1 DEF WrittenSoFar, Writable
  <2>3. \A i, j \in DOMAIN w : w[i].name = w[j].name => i = j
    BY <2>2 DEF Injective, Names
  <2> HIDE DEF w
  <2> QED BY <1>1, <1>2, <2>1, <2>3 DEF WrittenSoFar, w
<1>4. IsFiniteSet(A)
  <2>1. IsFiniteSet(1..Len(w))
    BY <1>2, FS_Interval
  <2> QED BY <1>2, <2>1, FS_Subset, A \subseteq 1..Len(w)
<1>5. g \in Bijection(A, B)
  <2> HIDE DEF w
  <2>1. g \in [A -> B]
    BY <1>3
  <2>2. \A i, j \in A : g[i] = g[j] => i = j
    BY <1>3
  <2>3. \A n \in B : \E i \in A : g[i] = n
    BY <1>3
  <2> QED BY <2>1, <2>2, <2>3 DEF Bijection, Injection, Surjection, IsInjective
<1>6. Cardinality(B) = Cardinality(A)
  BY <1>4, <1>5, FS_Bijection DEF ExistsBijection
<1>7. Cardinality(A) = Times(lock.entries, c)
  <2>1. CASE kind = "js"
    <3>1. w = archive /\ SameMultiset(archive, lock.entries)
      BY <1>1, <2>1 DEF ToWrite, RestoreInv, Phases
    <3> QED BY <3>1 DEF SameMultiset, Times
  <2>2. CASE kind = "wasm"
    <3>1. w = Named(archive, lock)
      BY <2>2 DEF ToWrite
    <3>2. DOMAIN w = DOMAIN lock.entries /\ \A i \in DOMAIN w : w[i].content = lock.entries[i].content
      BY <3>1 DEF Named
    <3>3. A = {i \in DOMAIN lock.entries : lock.entries[i].content = c}
      BY <3>2
    <3> QED BY <3>3 DEF Times
  <2> QED BY <2>1, <2>2 DEF RestoreInv, TypeOK, Kind
<1> QED BY <1>6, <1>7 DEF InDir

(* restore.rs, write_bundles: a restore that reports success leaves exactly   *)
(* the locked set in the directory, each content as often as the lock has it, *)
(* whatever was there, and whatever an earlier restore that was cut left.     *)
THEOREM RestoresTheLockedSet == Spec => []DirIsTheLockedSet
<1>1. RestoreInv => DirIsTheLockedSet
  <2> SUFFICES ASSUME RestoreInv, AboutToReport, target = "out"
               PROVE  \A n \in DOMAIN dir[kind] : dir[kind][n] # Torn
    BY WrittenIsTheLockedSet DEF DirIsTheLockedSet
  <2>1. pc = "write" /\ todo = << >> /\ WrittenSoFar
    BY DEF AboutToReport, RestoreInv, Phases
  <2>2. Len(ToWrite) \in Nat /\ \A i \in 1..Len(ToWrite) : ToWrite[i] \in File
    BY <2>1, ToWriteIsList
  <2>3. Len(ToWrite) - Len(todo) = Len(ToWrite)
    BY <2>1, <2>2
  <2> QED BY <2>1, <2>2, <2>3, RestoreAssumption DEF WrittenSoFar, File
<1> QED BY <1>1, RestoreHolds, PTL

(* name_from_lock: the payloads are under the names the lock gives them,      *)
(* whatever names the archive had them under.                                 *)
THEOREM RestoresTheLockedNames == Spec => []PayloadsHaveTheirNames
<1>1. RestoreInv => PayloadsHaveTheirNames
  <2> SUFFICES ASSUME RestoreInv, AboutToReport, target = "out", kind = "wasm",
                      NEW n \in DOMAIN dir["wasm"]
               PROVE  \E i \in DOMAIN lock.entries :
                        /\ lock.entries[i].file_name = n
                        /\ lock.entries[i].content = dir["wasm"][n]
    BY DEF PayloadsHaveTheirNames
  <2> DEFINE w == Named(archive, lock)
  <2>1. pc = "write" /\ todo = << >> /\ WrittenSoFar /\ ToWrite = w
    BY DEF AboutToReport, RestoreInv, Phases, ToWrite
  <2>2. Len(w) \in Nat /\ DOMAIN w = 1..Len(w)
    BY <2>1, ToWriteIsList
  <2>3. DOMAIN w = DOMAIN lock.entries
        /\ \A i \in DOMAIN w : /\ w[i].name = lock.entries[i].file_name
                               /\ w[i].content = lock.entries[i].content
    BY DEF Named
  <2> HIDE DEF w
  <2>4. PICK i \in DOMAIN w : w[i].name = n /\ dir["wasm"][n] = w[i].content
    <3>1. Len(w) - Len(todo) = Len(w)
      BY <2>1, <2>2
    <3> QED BY <2>1, <2>2, <3>1 DEF WrittenSoFar
  <2> QED BY <2>3, <2>4
<1> QED BY <1>1, RestoreHolds, PTL

-----------------------------------------------------------------------------
(* Capture. The invariant follows a pin through a call: it is missing, or    *)
(* taken from an archive and about to be persisted, or in place; and as no   *)
(* two pins share a name, no pin is put out of place by another.             *)

OwnNames == \A p, q \in Pins : p.name = q.name => p = q

Partition ==
  /\ missing \subseteq Pins /\ taken \subseteq Pins /\ ask \subseteq missing
  /\ at # "persist" => taken = {}
  /\ at # "ask" => ask = {}
  /\ at \in {"idle", "check"} => missing = {} /\ seen = {}
  /\ at = "idle" => Pins = {}

InPlaceUnlessOpen ==
  at \in {"ask", "assets", "persist"} => \A p \in Pins \ (missing \cup taken) : InPlace(p)

MissingIsUnseen == \A p \in missing : FileOf(p) \notin seen

Inv == OwnNames /\ Partition /\ InPlaceUnlessOpen /\ MissingIsUnseen

\* Persisting one pin leaves every other pin as it was.
LEMMA PersistOne ==
  ASSUME OwnNames, NEW p \in Pins, Persist(FileOf(p)), UNCHANGED captures
  PROVE  InPlace(p)' /\ \A q \in Pins : InPlace(q) => InPlace(q)'
<1>1. captured' = [n \in DOMAIN captured \cup {p.name} |-> IF n = p.name THEN p.content ELSE captured[n]]
  BY DEF Persist, FileOf
<1>2. p.name \in DOMAIN captured' /\ captured'[p.name] = p.content
  BY <1>1
<1>3. ASSUME NEW q \in Pins, InPlace(q) PROVE q.name \in DOMAIN captured' /\ captured'[q.name] = q.content
  <2>1. CASE q.name = p.name
    BY <2>1, <1>2 DEF OwnNames
  <2>2. CASE q.name # p.name
    BY <2>2, <1>1, <1>3 DEF InPlace
  <2> QED BY <2>1, <2>2
<1> QED BY <1>2, <1>3 DEF InPlace

LEMMA InitInv == CaptureInit => Inv
BY DEF CaptureInit, Inv, OwnNames, Partition, InPlaceUnlessOpen, MissingIsUnseen, Pins

\* The steps that leave the directory alone, but for a look into an asset.
LEMMA QuietSteps ==
  ASSUME Inv, Call \/ Check \/ Asked \/ Persisted \/ EndCapture \/ UNCHANGED captureVars
  PROVE  Inv'
<1> USE DEF Inv, Partition
<1>1. CASE Call
  <2>1. PICK pins \in Upto(Capture, MaxPins) :
          IF \A i, j \in DOMAIN pins : pins[i].name = pins[j].name => i = j
          THEN at' = "check" /\ captures' = pins
          ELSE UNCHANGED <<at, captures>>
    BY <1>1 DEF Call
  <2>2. at = "idle" /\ UNCHANGED <<missing, ask, taken, assets, captured, seen>>
    BY <1>1 DEF Call
  <2>3. CASE \A i, j \in DOMAIN pins : pins[i].name = pins[j].name => i = j
    <3>1. at' = "check" /\ captures' = pins
      BY <2>1, <2>3
    <3>2. OwnNames'
      BY <3>1, <2>3 DEF OwnNames, Pins
    <3>3. Partition' /\ InPlaceUnlessOpen' /\ MissingIsUnseen'
      BY <3>1, <2>2 DEF InPlaceUnlessOpen, MissingIsUnseen
    <3> QED BY <3>2, <3>3
  <2>4. CASE ~\A i, j \in DOMAIN pins : pins[i].name = pins[j].name => i = j
    <3>1. UNCHANGED <<at, captures>>
      BY <2>1, <2>4
    <3> QED BY <3>1, <2>2 DEF OwnNames, Pins, InPlaceUnlessOpen, MissingIsUnseen
  <2> QED BY <2>3, <2>4
<1>2. CASE Check
  BY <1>2 DEF Check, OwnNames, Pins, InPlaceUnlessOpen, MissingIsUnseen, InPlace
<1>3. CASE Asked
  BY <1>3 DEF Asked, OwnNames, Pins, InPlaceUnlessOpen, MissingIsUnseen, InPlace
<1>4. CASE Persisted
  BY <1>4 DEF Persisted, OwnNames, Pins, InPlaceUnlessOpen, MissingIsUnseen, InPlace
<1>5. CASE EndCapture
  BY <1>5 DEF EndCapture, OwnNames, Pins, InPlaceUnlessOpen, MissingIsUnseen
<1>6. CASE UNCHANGED captureVars
  BY <1>6 DEF captureVars, OwnNames, Pins, InPlaceUnlessOpen, MissingIsUnseen, InPlace
<1> QED BY <1>1, <1>2, <1>3, <1>4, <1>5, <1>6

LEMMA AskInv ==
  ASSUME Inv, NEW p \in ask, NEW answer, Ask(p, answer)
  PROVE  Inv'
<1> USE DEF Inv, Partition
<1>1. /\ at = "ask" /\ ask' = ask \ {p}
      /\ seen' = seen \cup (IF answer # Absent THEN {[name |-> p.name, content |-> answer]} ELSE {})
      /\ UNCHANGED <<at, captures, taken>>
  BY DEF Ask
<1>2. p \in Pins /\ OwnNames' /\ Pins' = Pins
  BY <1>1 DEF OwnNames, Pins
<1>3. CASE answer = p.content
  <2>1. Persist(FileOf(p)) /\ missing' = missing \ {p}
    BY <1>3 DEF Ask
  <2>2. InPlace(p)' /\ \A q \in Pins : InPlace(q) => InPlace(q)'
    BY <2>1, <1>1, <1>2, PersistOne
  <2>3. InPlaceUnlessOpen'
    BY <2>1, <2>2, <1>1, <1>2 DEF InPlaceUnlessOpen
  <2>4. ASSUME NEW q \in missing' PROVE FileOf(q) \notin seen'
    <3>1. q.name # p.name /\ FileOf(q) \notin seen
      BY <2>1, <2>4, <1>2 DEF OwnNames, MissingIsUnseen
    <3> QED BY <3>1, <1>1 DEF FileOf
  <2> QED BY <1>1, <1>2, <2>1, <2>3, <2>4 DEF MissingIsUnseen
<1>4. CASE answer # p.content
  <2>1. UNCHANGED <<missing, captured>>
    BY <1>4 DEF Ask
  <2>2. ASSUME NEW q \in missing' PROVE FileOf(q) \notin seen'
    <3>1. FileOf(q) \notin seen /\ (q.name = p.name => q = p)
      BY <2>1, <2>2, <1>2 DEF OwnNames, MissingIsUnseen
    <3>2. FileOf(q) # [name |-> p.name, content |-> answer]
      BY <3>1, <1>4 DEF FileOf
    <3> QED BY <3>1, <3>2, <1>1
  <2>3. InPlaceUnlessOpen'
    BY <2>1, <1>1, <1>2 DEF InPlaceUnlessOpen, InPlace
  <2>4. Partition'
    <3>1. ask' \subseteq missing'
      BY <2>1, <1>1
    <3> QED BY <3>1, <2>1, <1>1, <1>2
  <2> QED BY <1>2, <2>2, <2>3, <2>4 DEF MissingIsUnseen
<1> QED BY <1>3, <1>4

LEMMA SelectInv ==
  ASSUME Inv, Select
  PROVE  Inv'
<1> USE DEF Inv, Partition
<1>1. at = "assets" /\ taken = {} /\ ask = {} /\ UNCHANGED <<captures, ask, captured>>
  BY DEF Select
<1>2. PICK asset \in Downloaded :
        IF asset.whole
        THEN /\ taken' = take_archive(asset)
             /\ missing' = missing \ take_archive(asset)
             /\ at' = "persist"
             /\ seen' = seen \cup FilesOf(asset)
        ELSE UNCHANGED <<at, taken, missing, seen>>
  BY DEF Select
<1>3. Pins' = Pins /\ OwnNames'
  BY <1>1 DEF OwnNames, Pins
<1>4. CASE asset.whole
  <2>1. /\ taken' = take_archive(asset)
        /\ missing' = missing \ take_archive(asset)
        /\ at' = "persist"
        /\ seen' = seen \cup FilesOf(asset)
    BY <1>2, <1>4
  <2>2. take_archive(asset) \subseteq missing
    BY DEF take_archive
  <2>3. Partition'
    BY <2>1, <2>2, <1>1, <1>3
  <2>4. InPlaceUnlessOpen'
    BY <2>1, <2>2, <1>1, <1>3 DEF InPlaceUnlessOpen, InPlace
  <2>5. ASSUME NEW q \in missing' PROVE FileOf(q) \notin seen'
    <3>1. q \in missing /\ FileOf(q) \notin FilesOf(asset)
      BY <2>1, <2>5 DEF take_archive
    <3> QED BY <3>1, <2>1 DEF MissingIsUnseen
  <2> QED BY <1>3, <2>3, <2>4, <2>5 DEF MissingIsUnseen
<1>5. CASE ~asset.whole
  BY <1>1, <1>2, <1>3, <1>5 DEF InPlaceUnlessOpen, InPlace, MissingIsUnseen
<1> QED BY <1>4, <1>5

LEMMA PersistInv ==
  ASSUME Inv, NEW p \in taken, PersistNext(p)
  PROVE  Inv'
<1> USE DEF Inv, Partition
<1>1. /\ at = "persist" /\ Persist(FileOf(p)) /\ taken' = taken \ {p}
      /\ UNCHANGED <<at, captures, missing, ask, seen>>
  BY DEF PersistNext
<1>2. p \in Pins /\ Pins' = Pins /\ OwnNames'
  BY <1>1 DEF OwnNames, Pins
<1>3. InPlace(p)' /\ \A q \in Pins : InPlace(q) => InPlace(q)'
  BY <1>1, <1>2, PersistOne
<1>4. InPlaceUnlessOpen'
  BY <1>1, <1>2, <1>3 DEF InPlaceUnlessOpen
<1> QED BY <1>1, <1>2, <1>4 DEF MissingIsUnseen

LEMMA StepInv == Inv /\ [CaptureNext]_captureVars => Inv'
BY QuietSteps, AskInv, SelectInv, PersistInv DEF CaptureNext

LEMMA InvHolds == CaptureSpec => []Inv
BY InitInv, StepInv, PTL DEF CaptureSpec

-----------------------------------------------------------------------------
(* A capture that reports success has every pinned payload under its name     *)
(* (capture.rs:354), for any pins, archives and answers.                      *)
THEOREM SuccessIsComplete == CaptureSpec => []CapturesAreInPlace
<1>1. Inv => CapturesAreInPlace
  BY DEF Inv, Partition, InPlaceUnlessOpen, InPlace, CapturesAreInPlace, Deciding
<1> QED BY <1>1, InvHolds, PTL

(* What a capture reports as unavailable (capture.rs:446-451) was not among   *)
(* the files it was offered.                                                  *)
THEOREM UnavailableIsUnseen == CaptureSpec => []NothingOfferedIsMissed
<1>1. Inv => NothingOfferedIsMissed
  BY DEF Inv, MissingIsUnseen, NothingOfferedIsMissed
<1> QED BY <1>1, InvHolds, PTL

(* No step of a capture changes a file to anything but the bytes it is pinned *)
(* to (capture.rs:356-357), so that a call may be cut short anywhere.         *)
THEOREM WritesArePinned == CaptureSpec => OnlyPinnedBytesAreWritten
<1> DEFINE Pinned == \A n \in DOMAIN captured' : n \notin DOMAIN captured \/ captured'[n] # captured[n] =>
                       \E pin \in Pins : pin.name = n /\ captured'[n] = pin.content
<1>1. ASSUME NEW pin \in Pins, Persist(FileOf(pin)) PROVE Pinned
  <2>1. captured' = [n \in DOMAIN captured \cup {pin.name} |-> IF n = pin.name THEN pin.content ELSE captured[n]]
    BY <1>1 DEF Persist, FileOf
  <2> QED BY <2>1
<1>2. ASSUME UNCHANGED captured PROVE Pinned
  BY <1>2
<1>3. Inv /\ [CaptureNext]_captureVars => [Pinned]_captureVars
  <2> SUFFICES ASSUME Inv, CaptureNext PROVE Pinned
    OBVIOUS
  <2> USE DEF Inv, Partition
  <2>1. ASSUME NEW pin \in ask, NEW answer, Ask(pin, answer) PROVE Pinned
    BY <2>1, <1>1, <1>2 DEF Ask
  <2>2. ASSUME NEW pin \in taken, PersistNext(pin) PROVE Pinned
    BY <2>2, <1>1 DEF PersistNext
  <2>3. Call \/ Check \/ Asked \/ Select \/ Persisted \/ EndCapture => UNCHANGED captured
    BY DEF Call, Check, Asked, Select, Persisted, EndCapture
  <2> QED BY <2>1, <2>2, <2>3, <1>2 DEF CaptureNext
<1>4. CaptureSpec => [][Pinned]_captureVars
  BY <1>3, InvHolds, PTL DEF CaptureSpec
<1> QED BY <1>4 DEF OnlyPinnedBytesAreWritten
=============================================================================
