------------------------------ MODULE Download ------------------------------
(***************************************************************************)
(* download_bundles_with (wa-fetch/src/download.rs): a pool of scoped      *)
(* threads takes URL positions from a shared atomic cursor, fetches each   *)
(* one and pushes the result on a shared vector; when every worker has     *)
(* left, the results are split into bundles and failures, each sorted by   *)
(* URL.  A URL is represented by its place in URL order, so Urls is a      *)
(* sequence of distinct numbers (the caller's URLs come out of a set).     *)
(***************************************************************************)
EXTENDS Integers, Sequences, FiniteSets

CONSTANTS
  Urls,      \* the URLs to download
  MaxWorkers,  \* opts.workers
  Body,      \* response bodies
  Failed,    \* a transport error or a status outside 200..299
  None       \* no item, no outcome, no answer yet

N == Len(Urls)

ASSUME UrlsAssumption ==
  /\ Urls \in Seq(Int)
  /\ \A i, j \in 1..N : Urls[i] = Urls[j] => i = j
ASSUME WorkersAssumption == MaxWorkers \in Nat
ASSUME SentinelAssumption == Failed \notin Body /\ None \notin Body /\ None # Failed

AtLeast1(n) == IF n < 1 THEN 1 ELSE n
AtMost(n, bound) == IF n > bound THEN bound ELSE n

\* opts.workers.clamp(1, urls.len().max(1))
PoolSize == AtMost(AtLeast1(MaxWorkers), AtLeast1(N))
Workers == 1..PoolSize

\* What is pushed for one URL: a Bundle or a DownloadFailure.
Item == [url : Int, got : Body \cup {Failed}]

VARIABLES
  cursor,   \* positions handed out so far
  at,       \* where each worker is in its loop
  index,    \* the position a worker took
  answered, \* history: how the server answered each position
  results,  \* what the workers pushed, in that order
  outcome   \* the DownloadOutcome, once the scope has been joined

vars == <<cursor, at, index, answered, results, outcome>>

Init ==
  /\ cursor = 0
  /\ at = [w \in Workers |-> "loop"]
  /\ index = [w \in Workers |-> 0]
  /\ answered = [i \in 1..N |-> None]
  /\ results = <<>>
  /\ outcome = None

Claim_split(w) ==  \* mutant: the cursor is read, and written later
  /\ at[w] = "loop"
  /\ \E seen \in {cursor, cursor - 1} \ {-1} :
       IF seen >= N
       THEN /\ at' = [at EXCEPT ![w] = "left"]
            /\ UNCHANGED <<cursor, index>>
       ELSE /\ cursor' = seen + 1
            /\ index' = [index EXCEPT ![w] = seen + 1]
            /\ at' = [at EXCEPT ![w] = "fetch"]
  /\ UNCHANGED <<answered, results, outcome>>

Claim_share(w) ==  \* mutant: a fixed share of the positions for each worker
  /\ at[w] = "loop"
  /\ LET mine == {i \in 1..N : (i % PoolSize) + 1 = w /\ i > index[w]}
     IN  IF mine = {}
         THEN at' = [at EXCEPT ![w] = "left"] /\ UNCHANGED <<cursor, index>>
         ELSE /\ index' = [index EXCEPT ![w] =
                             CHOOSE i \in mine : \A j \in mine : i <= j]
              /\ at' = [at EXCEPT ![w] = "fetch"]
              /\ cursor' = cursor + 1
  /\ UNCHANGED <<answered, results, outcome>>

Claim_pastEnd(w) ==  \* mutant: > for >=
  /\ at[w] = "loop"
  /\ cursor' = cursor + 1
  /\ IF cursor > N
     THEN at' = [at EXCEPT ![w] = "left"] /\ UNCHANGED index
     ELSE /\ at' = [at EXCEPT ![w] = "fetch"]
          /\ index' = [index EXCEPT ![w] = cursor + 1]
  /\ UNCHANGED <<answered, results, outcome>>

Claim_noBreak(w) ==  \* mutant: the loop is not left at the end
  /\ at[w] = "loop" /\ cursor < N
  /\ cursor' = cursor + 1
  /\ at' = [at EXCEPT ![w] = "fetch"]
  /\ index' = [index EXCEPT ![w] = cursor + 1]
  /\ UNCHANGED <<answered, results, outcome>>

\* cursor.fetch_add: one position, or the end of the loop.  (The cursor goes
\* on counting past the end; it is not read again.)
Claim(w) ==
  /\ at[w] = "loop"
  /\ cursor' = cursor + 1
  /\ IF cursor >= N
     THEN /\ at' = [at EXCEPT ![w] = "left"]
          /\ UNCHANGED index
     ELSE /\ at' = [at EXCEPT ![w] = "fetch"]
          /\ index' = [index EXCEPT ![w] = cursor + 1]
  /\ UNCHANGED <<answered, results, outcome>>

\* fetch_bytes returns.
Fetch(w) ==
  /\ at[w] = "fetch"
  /\ \E got \in Body \cup {Failed} :
       answered' = [answered EXCEPT ![index[w]] = got]
  /\ at' = [at EXCEPT ![w] = "push"]
  /\ UNCHANGED <<cursor, index, results, outcome>>

\* results.lock().push(item)
Push(w) ==
  /\ at[w] = "push"
  /\ results' = Append(results, [url |-> Urls[index[w]], got |-> answered[index[w]]])
  /\ at' = [at EXCEPT ![w] = "loop"]
  /\ UNCHANGED <<cursor, index, answered, outcome>>

\* How many of the results at positions K a sort puts before the one at k.
\* sort_by is stable: results of one URL would stay in the order they have.
Rank(items, K, k) ==
  Cardinality({j \in K : \/ items[j].url < items[k].url
                         \/ items[j].url = items[k].url /\ j < k})

ByUrl_unsorted(items, K) ==  \* mutant
  [n \in 1..Cardinality(K) |-> items[CHOOSE k \in K : Cardinality({j \in K : j < k}) = n - 1]]

\* sort_by URL, of the results at positions K.
ByUrl(items, K) ==
  [n \in 1..Cardinality(K) |-> items[CHOOSE k \in K : Rank(items, K, k) = n - 1]]

\* Bundles and failures, each sorted.
Outcome(items) ==
  [bundles  |-> ByUrl(items, {k \in 1..Len(items) : items[k].got # Failed}),
   failures |-> ByUrl(items, {k \in 1..Len(items) : items[k].got = Failed})]

\* The scope is joined: split and sort.
Join ==
  /\ outcome = None /\ \A w \in Workers : at[w] = "left"
  /\ outcome' = Outcome(results)
  /\ UNCHANGED <<cursor, at, index, answered, results>>

Next == Join \/ \E w \in Workers : Claim(w) \/ Fetch(w) \/ Push(w)

Spec == Init /\ [][Next]_vars

\* Threads that can run do run.  The client sets no timeout (native.rs): a
\* server may leave a fetch waiting for ever, so Fetch gets no fairness.
Fairness ==
  /\ WF_vars(Join)
  /\ \A w \in Workers : WF_vars(Claim(w)) /\ WF_vars(Push(w))

-----------------------------------------------------------------------------
TypeOK ==
  /\ cursor \in Nat
  /\ at \in [Workers -> {"loop", "fetch", "push", "left"}]
  /\ index \in [Workers -> 0..N]
  /\ answered \in [1..N -> Body \cup {Failed, None}]
  /\ results \in Seq(Item)
  /\ outcome \in {None} \cup [bundles : Seq(Item), failures : Seq(Item)]

\* No URL has two results, however the workers interleave, and once every
\* worker has left each URL has the result its server gave: no bundle is
\* lost, fetched twice or filed under another URL.
EveryUrlOnce ==
  /\ \A k, l \in 1..Len(results) : results[k].url = results[l].url => k = l
  /\ (\A w \in Workers : at[w] = "left") =>
       \A i \in 1..N : \E k \in 1..Len(results) :
         results[k] = [url |-> Urls[i], got |-> answered[i]]

\* download.rs:140 "Deterministic ordering regardless of thread scheduling":
\* the outcome is the one a single worker would have produced from the same
\* answers.
OutcomeIsSequential ==
  outcome # None =>
    outcome = Outcome([i \in 1..N |-> [url |-> Urls[i], got |-> answered[i]]])

\* The fetches of worker w do not stay unanswered for ever.
KeepsAnswering(w) == []<>(at[w] # "fetch")

\* If no fetch hangs, the download ends.
EndsIfAnswered ==
  (\A w \in Workers : KeepsAnswering(w)) => <>(outcome # None)

\* A fetch that hangs holds up no URL but its own, when there is another
\* worker: positions are handed out one at a time.
SlowUrlHoldsUpNoOther ==
  \A w \in Workers :
    (Workers # {w} /\ \A x \in Workers \ {w} : KeepsAnswering(x)) =>
      \A i \in 1..N : <>(answered[i] # None \/ (at[w] = "fetch" /\ index[w] = i))
=============================================================================
