--------------------------- MODULE DownloadProofs ---------------------------
(***************************************************************************)
(* For any list of URLs, any number of workers and any answers: every URL  *)
(* gets exactly one result, the outcome does not depend on the schedule,   *)
(* and saved bundles have a file each, whatever the URLs' last segments.   *)
(***************************************************************************)
EXTENDS SaveBundles, FiniteSetTheorems, WellFoundedInduction, TLAPS

\* Worker w holds a position whose result it has not pushed yet.
Holds(w) == at[w] \in {"fetch", "push"}

\* The result of position i.
ItemOf(i) == [url |-> Urls[i], got |-> answered[i]]

LoopType ==
  /\ cursor \in Nat
  /\ at \in [Workers -> {"loop", "fetch", "push", "left"}]
  /\ index \in [Workers -> 0..N]
  /\ answered \in [1..N -> Body \cup {Failed, None}]
  /\ results \in Seq(Item)
  /\ \A w \in Workers : at[w] = "push" => answered[index[w]] \in Body \cup {Failed}

\* A held position was handed out, to one worker.
HeldOnce ==
  /\ \A w \in Workers : Holds(w) => index[w] \in 1..N /\ index[w] <= cursor
  /\ \A w, x \in Workers : Holds(w) /\ Holds(x) /\ index[w] = index[x] => w = x

\* A result belongs to a position that was handed out and is no longer held.
ResultsAreOfReleased ==
  \A k \in 1..Len(results) : \E i \in 1..N :
    /\ i <= cursor /\ results[k] = ItemOf(i)
    /\ \A w \in Workers : Holds(w) => index[w] # i

NoUrlTwice ==
  \A k, l \in 1..Len(results) : results[k].url = results[l].url => k = l

\* A position that was handed out is held or has its result.
NoneLost ==
  \A i \in 1..N : i <= cursor =>
    \/ \E w \in Workers : Holds(w) /\ index[w] = i
    \/ \E k \in 1..Len(results) : results[k] = ItemOf(i)

LeftAtEnd == \A w \in Workers : at[w] = "left" => cursor >= N

Inv == /\ LoopType /\ HeldOnce /\ ResultsAreOfReleased /\ NoUrlTwice
       /\ NoneLost /\ LeftAtEnd

-----------------------------------------------------------------------------
\* Sorts of the parameters, and a pool that is never empty.
LEMMA Parameters ==
  /\ N \in Nat
  /\ \A i \in 1..N : Urls[i] \in Int
  /\ 1 \in Workers
BY UrlsAssumption, WorkersAssumption
   DEF N, Workers, PoolSize, AtMost, AtLeast1

LEMMA InitInv == Init => Inv
BY Parameters DEF Init, Inv, LoopType, HeldOnce, ResultsAreOfReleased, NoUrlTwice,
   NoneLost, LeftAtEnd, Holds

LEMMA ClaimInv ==
  ASSUME Inv, NEW w \in Workers, Claim(w)
  PROVE  Inv'
<1> USE DEF Inv
<1>0. LoopType /\ N \in Nat
  BY Parameters
<1>1. /\ \A x \in Workers \ {w} : at'[x] = at[x] /\ index'[x] = index[x]
      /\ cursor' = cursor + 1 /\ UNCHANGED <<answered, results>>
      /\ ~Holds(w)
  BY <1>0 DEF Claim, Holds, LoopType
<1>2. \A i \in 1..N : ItemOf(i)' = ItemOf(i)
  BY <1>1 DEF ItemOf
<1>3. CASE cursor >= N
  <2>1. at' = [at EXCEPT ![w] = "left"] /\ index' = index
    BY <1>3 DEF Claim
  <2>2. \A x \in Workers : Holds(x)' <=> Holds(x)
    BY <1>0, <1>1, <2>1 DEF Holds, LoopType
  <2>3. LoopType'
    BY <1>0, <1>1, <2>1 DEF LoopType
  <2>4. HeldOnce'
    BY <1>0, <1>1, <2>1, <2>2 DEF HeldOnce, LoopType
  <2>5. ResultsAreOfReleased'
    <3>1. ASSUME NEW k \in 1..Len(results)
          PROVE  \E i \in 1..N : /\ i <= cursor + 1 /\ results[k] = ItemOf(i)'
                                 /\ \A x \in Workers : Holds(x)' => index'[x] # i
      <4>1. PICK i \in 1..N : /\ i <= cursor /\ results[k] = ItemOf(i)
                              /\ \A x \in Workers : Holds(x) => index[x] # i
        BY DEF ResultsAreOfReleased
      <4>2. i <= cursor + 1 /\ results[k] = ItemOf(i)'
        BY <1>0, <1>2, <4>1 DEF LoopType
      <4>3. \A x \in Workers : Holds(x)' => index'[x] # i
        BY <1>0, <1>1, <2>1, <2>2, <4>1 DEF LoopType
      <4>4. QED
        BY <4>2, <4>3
    <3>2. QED
      BY <1>1, <3>1 DEF ResultsAreOfReleased
  <2>6. NoUrlTwice' /\ LeftAtEnd'
    BY <1>0, <1>1, <1>3, <2>1 DEF NoUrlTwice, LeftAtEnd, LoopType
  <2>7. NoneLost'
    <3>1. ASSUME NEW i \in 1..N
          PROVE  \/ \E x \in Workers : Holds(x)' /\ index'[x] = i
                 \/ \E k \in 1..Len(results) : results[k] = ItemOf(i)'
      <4>1. i <= cursor
        BY <1>0, <1>3 DEF LoopType
      <4>2. QED
        BY <1>2, <2>1, <2>2, <4>1 DEF NoneLost
    <3>2. QED
      BY <1>1, <3>1 DEF NoneLost
  <2>8. QED
    BY <2>3, <2>4, <2>5, <2>6, <2>7
<1>4. CASE cursor < N
  <2>1. at' = [at EXCEPT ![w] = "fetch"] /\ index' = [index EXCEPT ![w] = cursor + 1]
    BY <1>0, <1>4 DEF Claim, LoopType
  <2>2. /\ \A x \in Workers \ {w} : Holds(x)' <=> Holds(x)
        /\ Holds(w)' /\ index'[w] = cursor + 1 /\ cursor + 1 \in 1..N
    BY <1>0, <1>1, <1>4, <2>1 DEF Holds, LoopType
  <2>3. LoopType'
    BY <1>0, <1>1, <2>1, <2>2 DEF LoopType
  <2>4. HeldOnce'
    BY <1>0, <1>1, <2>1, <2>2 DEF HeldOnce, LoopType
  <2>5. ResultsAreOfReleased'
    <3>1. ASSUME NEW k \in 1..Len(results)
          PROVE  \E i \in 1..N : /\ i <= cursor + 1 /\ results[k] = ItemOf(i)'
                                 /\ \A x \in Workers : Holds(x)' => index'[x] # i
      <4>1. PICK i \in 1..N : /\ i <= cursor /\ results[k] = ItemOf(i)
                              /\ \A x \in Workers : Holds(x) => index[x] # i
        BY DEF ResultsAreOfReleased
      <4>2. i <= cursor + 1 /\ results[k] = ItemOf(i)'
        BY <1>0, <1>2, <4>1 DEF LoopType
      <4>3. \A x \in Workers : Holds(x)' => index'[x] # i
        BY <1>0, <1>1, <2>1, <2>2, <4>1 DEF LoopType
      <4>4. QED
        BY <4>2, <4>3
    <3>2. QED
      BY <1>1, <3>1 DEF ResultsAreOfReleased
  <2>6. NoUrlTwice' /\ LeftAtEnd'
    BY <1>0, <1>1, <1>4, <2>1 DEF NoUrlTwice, LeftAtEnd, LoopType
  <2>7. NoneLost'
    <3>1. ASSUME NEW i \in 1..N, i <= cursor'
          PROVE  \/ \E x \in Workers : Holds(x)' /\ index'[x] = i
                 \/ \E k \in 1..Len(results) : results[k] = ItemOf(i)'
      <4>1. CASE i = cursor + 1
        BY <2>2, <4>1
      <4>2. CASE i <= cursor
        <5>1. CASE \E x \in Workers : Holds(x) /\ index[x] = i
          BY <1>1, <2>2, <5>1
        <5>2. CASE \E k \in 1..Len(results) : results[k] = ItemOf(i)
          BY <1>2, <5>2
        <5>3. QED
          BY <4>2, <5>1, <5>2 DEF NoneLost
      <4>3. QED
        BY <1>0, <1>1, <3>1, <4>1, <4>2 DEF LoopType
    <3>2. QED
      BY <1>1, <3>1 DEF NoneLost
  <2>8. QED
    BY <2>3, <2>4, <2>5, <2>6, <2>7
<1>5. QED
  BY <1>0, <1>3, <1>4 DEF LoopType

LEMMA FetchInv ==
  ASSUME Inv, NEW w \in Workers, Fetch(w)
  PROVE  Inv'
<1> USE DEF Inv
<1>0. LoopType /\ N \in Nat
  BY Parameters
<1>1. PICK got \in Body \cup {Failed} : answered' = [answered EXCEPT ![index[w]] = got]
  BY DEF Fetch
<1>2. /\ at[w] = "fetch" /\ at' = [at EXCEPT ![w] = "push"]
      /\ UNCHANGED <<cursor, index, results>>
      /\ index[w] \in 1..N
  BY <1>0 DEF Fetch, HeldOnce, Holds, LoopType
<1>3. \A x \in Workers : Holds(x)' <=> Holds(x)
  BY <1>0, <1>2 DEF Holds, LoopType
<1>4. \A i \in 1..N : i # index[w] => ItemOf(i)' = ItemOf(i)
  BY <1>0, <1>1, <1>2 DEF ItemOf, LoopType
<1>5. LoopType'
  BY <1>0, <1>1, <1>2, <1>3 DEF HeldOnce, Holds, LoopType
<1>6. HeldOnce' /\ LeftAtEnd' /\ NoUrlTwice'
  BY <1>0, <1>2, <1>3 DEF HeldOnce, LeftAtEnd, NoUrlTwice, LoopType
<1>7. ResultsAreOfReleased'
  BY <1>2, <1>3, <1>4 DEF ResultsAreOfReleased, Holds
<1>8. NoneLost'
  BY <1>2, <1>3, <1>4 DEF NoneLost, Holds
<1>9. QED
  BY <1>5, <1>6, <1>7, <1>8

LEMMA PushInv ==
  ASSUME Inv, NEW w \in Workers, Push(w)
  PROVE  Inv'
<1> USE DEF Inv
<1>0. LoopType /\ N \in Nat
  BY Parameters
<1> DEFINE mine == index[w]
<1>1. /\ at[w] = "push" /\ Holds(w) /\ at' = [at EXCEPT ![w] = "loop"]
      /\ UNCHANGED <<cursor, index, answered>>
      /\ mine \in 1..N /\ mine <= cursor
      /\ answered[mine] \in Body \cup {Failed}
  BY <1>0 DEF Push, HeldOnce, Holds, LoopType
<1>2. results' = Append(results, ItemOf(mine)) /\ ItemOf(mine) \in Item
  BY <1>1, Parameters DEF Push, ItemOf, Item
<1>3. /\ Len(results) \in Nat /\ Len(results') = Len(results) + 1
      /\ \A k \in 1..Len(results) : results'[k] = results[k]
      /\ results'[Len(results) + 1] = ItemOf(mine)
  BY <1>0, <1>2 DEF LoopType
<1>4. /\ \A x \in Workers \ {w} : Holds(x)' <=> Holds(x)
      /\ ~Holds(w)'
  BY <1>0, <1>1 DEF Holds, LoopType
<1>5. \A i \in 1..N : ItemOf(i)' = ItemOf(i)
  BY <1>1 DEF ItemOf
<1>6. LoopType'
  BY <1>0, <1>1, <1>2 DEF LoopType
<1>7. HeldOnce' /\ LeftAtEnd'
  BY <1>0, <1>1, <1>4 DEF HeldOnce, LeftAtEnd, LoopType
<1>8. ResultsAreOfReleased'
  <2>1. ASSUME NEW k \in 1..Len(results)
        PROVE  \E i \in 1..N : /\ i <= cursor /\ results'[k] = ItemOf(i)'
                               /\ \A x \in Workers : Holds(x)' => index'[x] # i
    <3>1. PICK i \in 1..N : /\ i <= cursor /\ results[k] = ItemOf(i)
                            /\ \A x \in Workers : Holds(x) => index[x] # i
      BY DEF ResultsAreOfReleased
    <3>2. results'[k] = ItemOf(i)'
      BY <1>3, <1>5, <3>1
    <3>3. \A x \in Workers : Holds(x)' => index'[x] # i
      BY <1>1, <1>4, <3>1
    <3>4. QED
      BY <3>1, <3>2, <3>3
  <2>2. \A x \in Workers : Holds(x)' => index'[x] # mine
    BY <1>1, <1>4 DEF HeldOnce
  <2>3. \E i \in 1..N : /\ i <= cursor /\ results'[Len(results) + 1] = ItemOf(i)'
                        /\ \A x \in Workers : Holds(x)' => index'[x] # i
    BY <1>1, <1>3, <1>5, <2>2
  <2>4. \A k \in 1..Len(results') : k \in 1..Len(results) \/ k = Len(results) + 1
    BY <1>3
  <2>5. cursor' = cursor
    BY <1>1
  <2>6. QED
    BY <2>1, <2>3, <2>4, <2>5 DEF ResultsAreOfReleased
<1>9. NoUrlTwice'
  <2>1. ASSUME NEW k \in 1..Len(results)
        PROVE  results[k].url # Urls[mine]
    <3>1. PICK i \in 1..N : results[k] = ItemOf(i) /\ i # mine
      BY <1>1 DEF ResultsAreOfReleased
    <3>2. QED
      BY <1>1, <3>1, UrlsAssumption DEF ItemOf
  <2>2. results'[Len(results) + 1].url = Urls[mine]
    BY <1>3 DEF ItemOf
  <2>3. ASSUME NEW k \in 1..Len(results'), NEW l \in 1..Len(results'),
               results'[k].url = results'[l].url
        PROVE  k = l
    <3>1. /\ k \in 1..Len(results) \/ k = Len(results) + 1
          /\ l \in 1..Len(results) \/ l = Len(results) + 1
      BY <1>3
    <3>2. CASE k \in 1..Len(results) /\ l \in 1..Len(results)
      BY <1>3, <2>3, <3>2 DEF NoUrlTwice
    <3>3. CASE k = Len(results) + 1 \/ l = Len(results) + 1
      BY <1>3, <2>1, <2>2, <2>3, <3>1, <3>3
    <3>4. QED
      BY <3>1, <3>2, <3>3
  <2>4. QED
    BY <2>3 DEF NoUrlTwice
<1>10. NoneLost'
  <2>1. ASSUME NEW i \in 1..N, i <= cursor
        PROVE  \/ \E x \in Workers : Holds(x)' /\ index'[x] = i
               \/ \E k \in 1..Len(results') : results'[k] = ItemOf(i)'
    <3>1. CASE i = mine
      BY <1>3, <1>5, <3>1
    <3>2. CASE i # mine
      BY <1>1, <1>3, <1>4, <1>5, <2>1, <3>2 DEF NoneLost
    <3>3. QED
      BY <3>1, <3>2
  <2>2. QED
    BY <1>1, <2>1 DEF NoneLost
<1>11. QED
  BY <1>6, <1>7, <1>8, <1>9, <1>10

LEMMA NextInv == Inv /\ [Next]_vars => Inv'
<1> SUFFICES ASSUME Inv, [Next]_vars PROVE Inv'
  OBVIOUS
<1>1. CASE Join \/ UNCHANGED vars
  <2>1. UNCHANGED <<cursor, at, index, answered, results>>
    BY <1>1 DEF Join, vars
  <2>2. LoopType' /\ HeldOnce' /\ LeftAtEnd' /\ NoUrlTwice'
    BY <2>1 DEF Inv, LoopType, HeldOnce, LeftAtEnd, NoUrlTwice, Holds
  <2>3. ResultsAreOfReleased' /\ NoneLost'
    BY <2>1 DEF Inv, ResultsAreOfReleased, NoneLost, Holds, ItemOf
  <2>4. QED
    BY <2>2, <2>3 DEF Inv
<1>2. ASSUME NEW w \in Workers, Claim(w) \/ Fetch(w) \/ Push(w) PROVE Inv'
  BY <1>2, ClaimInv, FetchInv, PushInv
<1>3. QED
  BY <1>1, <1>2 DEF Next

\* No URL has two results, and when every worker has left every URL has the
\* result its server gave (download.rs:108-143).
THEOREM ResultsAreExact == Spec => []EveryUrlOnce
<1>1. Inv => EveryUrlOnce
  <2> SUFFICES ASSUME Inv PROVE EveryUrlOnce
    OBVIOUS
  <2>1. ASSUME \A w \in Workers : at[w] = "left", NEW i \in 1..N
        PROVE  \E k \in 1..Len(results) : results[k] = ItemOf(i)
    <3>1. i <= cursor
      BY <2>1, Parameters DEF Inv, LeftAtEnd, LoopType
    <3>2. \A w \in Workers : ~Holds(w)
      BY <2>1 DEF Holds
    <3>3. QED
      BY <3>1, <3>2 DEF Inv, NoneLost
  <2>2. QED
    BY <2>1 DEF Inv, EveryUrlOnce, NoUrlTwice, ItemOf
<1>2. QED
  BY <1>1, InitInv, NextInv, PTL DEF Spec
-----------------------------------------------------------------------------
\* Sorting by rank.  A result goes before another, and how many do:
Before(items, j, k) == items[j].url < items[k].url \/ (items[j].url = items[k].url /\ j < k)

\* K are positions of results.
Sortable(items, K) ==
  K \subseteq Nat /\ IsFiniteSet(K) /\ \A k \in K : items[k].url \in Int

LEMMA BeforeIsAnOrder ==
  ASSUME NEW items, NEW K, Sortable(items, K)
  PROVE  \A i, j, k \in K :
           /\ ~Before(items, i, i)
           /\ Before(items, i, j) /\ Before(items, j, k) => Before(items, i, k)
           /\ i # j => Before(items, i, j) \/ Before(items, j, i)
<1>1. SUFFICES ASSUME NEW i \in K, NEW j \in K, NEW k \in K
      PROVE  /\ ~Before(items, i, i)
             /\ Before(items, i, j) /\ Before(items, j, k) => Before(items, i, k)
             /\ i # j => Before(items, i, j) \/ Before(items, j, i)
  OBVIOUS
<1> DEFINE x == items[i].url
           y == items[j].url
           z == items[k].url
<1>2. x \in Int /\ y \in Int /\ z \in Int /\ i \in Nat /\ j \in Nat /\ k \in Nat
  BY DEF Sortable
<1>3. /\ Before(items, i, i) <=> x < x \/ (x = x /\ i < i)
      /\ Before(items, i, j) <=> x < y \/ (x = y /\ i < j)
      /\ Before(items, j, i) <=> y < x \/ (y = x /\ j < i)
      /\ Before(items, j, k) <=> y < z \/ (y = z /\ j < k)
      /\ Before(items, i, k) <=> x < z \/ (x = z /\ i < k)
  BY DEF Before
<1> HIDE DEF x, y, z
<1>4. QED
  BY <1>2, <1>3

\* Each place of the sorted sequence has exactly one result of K.
LEMMA RankIsPlace ==
  ASSUME NEW items, NEW K, Sortable(items, K), NEW n \in 1..Cardinality(K)
  PROVE  \E k \in K : /\ Rank(items, K, k) = n - 1
                      /\ \A j \in K : Rank(items, K, j) = n - 1 => j = k
<1> DEFINE Ahead(k) == {j \in K : Before(items, j, k)}
           last == Cardinality(K) - 1
           rank == [k \in K |-> Rank(items, K, k)]
<1>1. \A k \in K : Rank(items, K, k) = Cardinality(Ahead(k))
  BY DEF Rank, Before
<1>2. IsFiniteSet(K) /\ Cardinality(K) \in Nat
  BY FS_CardinalityType DEF Sortable
<1>3. \A k \in K : Ahead(k) \subseteq K \ {k}
  BY BeforeIsAnOrder
<1>4. ASSUME NEW k \in K
      PROVE  /\ IsFiniteSet(Ahead(k)) /\ Cardinality(Ahead(k)) \in 0..last
             /\ Cardinality(Ahead(k)) \in Int
  <2>1. IsFiniteSet(K \ {k}) /\ Cardinality(K \ {k}) = last
    BY <1>2, FS_RemoveElement
  <2>2. IsFiniteSet(Ahead(k)) /\ Cardinality(Ahead(k)) <= last
    BY <1>3, <2>1, FS_Subset
  <2>3. Cardinality(Ahead(k)) \in Nat
    BY <2>2, FS_CardinalityType
  <2>4. QED
    BY <1>2, <2>2, <2>3
<1>5. ASSUME NEW j \in K, NEW k \in K, Before(items, j, k)
      PROVE  Cardinality(Ahead(j)) < Cardinality(Ahead(k))
  <2>1. Ahead(j) \cup {j} \subseteq Ahead(k)
    BY <1>5, BeforeIsAnOrder
  <2>2. j \notin Ahead(j)
    BY <1>3
  <2>3. Cardinality(Ahead(j) \cup {j}) = Cardinality(Ahead(j)) + 1
    BY <1>4, <2>2, FS_AddElement
  <2>4. Cardinality(Ahead(j) \cup {j}) <= Cardinality(Ahead(k))
    BY <1>4, <2>1, FS_Subset
  <2>5. Cardinality(Ahead(j)) \in Int /\ Cardinality(Ahead(k)) \in Int
    BY ONLY <1>4, j \in K, k \in K, Zenon
  <2> HIDE DEF Ahead
  <2>6. QED
    BY <2>3, <2>4, <2>5
<1>6. \A j, k \in K : j # k => Before(items, j, k) \/ Before(items, k, j)
  BY BeforeIsAnOrder
<1>7. ASSUME NEW j \in K, NEW k \in K, rank[j] = rank[k]
      PROVE  j = k
  <2>1. Cardinality(Ahead(j)) = Cardinality(Ahead(k))
    BY <1>1, <1>7
  <2>2. Cardinality(Ahead(j)) \in Int /\ Cardinality(Ahead(k)) \in Int
    BY ONLY <1>4, j \in K, k \in K, Zenon
  <2>3. ~Before(items, j, k) /\ ~Before(items, k, j)
    BY <1>5, <2>1, <2>2
  <2>4. QED
    BY <1>6, <2>3
<1>8. rank \in Injection(K, 0..last)
  BY <1>1, <1>4, <1>7 DEF Injection, IsInjective
<1>9. IsFiniteSet(0..last) /\ Cardinality(0..last) = Cardinality(K)
  <2>1. 0 \in Int /\ last \in Int
    BY <1>2
  <2>2. IsFiniteSet(0..last) /\ Cardinality(0..last) = IF 0 > last THEN 0 ELSE last - 0 + 1
    BY <2>1, FS_Interval
  <2>3. QED
    BY <1>2, <2>2
<1>10. rank \in Surjection(K, 0..last)
  BY <1>8, <1>9, FS_Injection
<1>11. n - 1 \in 0..last
  BY <1>2
<1>12. PICK k \in K : rank[k] = n - 1
  BY <1>10, <1>11 DEF Surjection
<1>13. QED
  BY <1>7, <1>12

\* The result that ends up at place n.
At(items, K, n) == CHOOSE k \in K : Rank(items, K, k) = n - 1

LEMMA AtIsTheOne ==
  ASSUME NEW items, NEW K, Sortable(items, K), NEW n \in 1..Cardinality(K)
  PROVE  /\ At(items, K, n) \in K
         /\ Rank(items, K, At(items, K, n)) = n - 1
         /\ \A j \in K : Rank(items, K, j) = n - 1 => j = At(items, K, n)
         /\ ByUrl(items, K)[n] = items[At(items, K, n)]
<1>1. PICK k \in K : /\ Rank(items, K, k) = n - 1
                     /\ \A j \in K : Rank(items, K, j) = n - 1 => j = k
  BY RankIsPlace
<1>2. At(items, K, n) \in K /\ Rank(items, K, At(items, K, n)) = n - 1
  BY <1>1 DEF At
<1>3. QED
  BY <1>1, <1>2 DEF At, ByUrl

\* Two lists with the same results at different positions are sorted alike,
\* when no URL has two results.
LEMMA SortedAlike ==
  ASSUME NEW items, NEW K, Sortable(items, K), NEW other, NEW L \in SUBSET Nat,
         NEW m \in Bijection(K, L), \A k \in K : items[k] = other[m[k]],
         \A j, k \in K : items[j].url = items[k].url => j = k
  PROVE  ByUrl(items, K) = ByUrl(other, L)
<1> DEFINE Ahead(k) == {j \in K : Before(items, j, k)}
           OtherAhead(i) == {j \in L : Before(other, j, i)}
<1>1. /\ m \in [K -> L] /\ \A i \in L : \E k \in K : m[k] = i
      /\ \A j, k \in K : m[j] = m[k] => j = k
  BY DEF Bijection, Injection, Surjection, IsInjective
<1>2. IsFiniteSet(L) /\ Cardinality(L) = Cardinality(K) /\ Cardinality(K) \in Nat
  BY FS_Bijection, FS_CardinalityType DEF ExistsBijection, Sortable
<1>3. Sortable(other, L)
  BY <1>1, <1>2 DEF Sortable
<1>4. ASSUME NEW k \in K
      PROVE  Rank(other, L, m[k]) = Rank(items, K, k)
  <2> DEFINE g == [j \in Ahead(k) |-> m[j]]
  <2>1. \A j \in K : Before(items, j, k) <=> Before(other, m[j], m[k])
    <3>1. \A j \in K : items[j] = other[m[j]] /\ m[j] \in L
      BY <1>1
    <3>2. ASSUME NEW j \in K, j # k
          PROVE  (items[j].url < items[k].url) <=> Before(items, j, k)
      BY <3>2 DEF Before
    <3>3. ASSUME NEW j \in K, j # k
          PROVE  (other[m[j]].url < other[m[k]].url) <=> Before(other, m[j], m[k])
      <4>1. items[j].url # items[k].url
        BY <3>3
      <4>2. other[m[j]].url # other[m[k]].url
        BY <3>1, <4>1
      <4>3. QED
        BY <4>2 DEF Before
    <3>4. ~Before(items, k, k) /\ ~Before(other, m[k], m[k])
      BY <1>1, <1>3, BeforeIsAnOrder
    <3>5. QED
      BY <3>1, <3>2, <3>3, <3>4
  <2>2. g \in [Ahead(k) -> OtherAhead(m[k])]
    BY <1>1, <2>1
  <2>3. \A i \in OtherAhead(m[k]) : \E j \in Ahead(k) : g[j] = i
    BY <1>1, <2>1
  <2>4. \A i, j \in Ahead(k) : g[i] = g[j] => i = j
    BY <1>1
  <2>5. g \in Bijection(Ahead(k), OtherAhead(m[k]))
    BY <2>2, <2>3, <2>4 DEF Bijection, Injection, Surjection, IsInjective
  <2>6. IsFiniteSet(Ahead(k))
    BY FS_Subset DEF Sortable
  <2>7. Cardinality(Ahead(k)) = Cardinality(OtherAhead(m[k]))
    BY <2>5, <2>6, FS_Bijection DEF ExistsBijection
  <2>8. QED
    BY <2>7 DEF Rank, Before
<1>5. ASSUME NEW n \in 1..Cardinality(K)
      PROVE  items[At(items, K, n)] = other[At(other, L, n)]
  <2>1. At(items, K, n) \in K /\ Rank(items, K, At(items, K, n)) = n - 1
    BY AtIsTheOne
  <2>2. m[At(items, K, n)] \in L /\ Rank(other, L, m[At(items, K, n)]) = n - 1
    BY <1>1, <1>4, <2>1
  <2>3. m[At(items, K, n)] = At(other, L, n)
    <3>1. n \in 1..Cardinality(L)
      BY <1>2
    <3>2. QED
      BY <1>3, <2>2, <3>1, AtIsTheOne
  <2>4. QED
    BY <2>1, <2>3
<1>6. /\ ByUrl(items, K) = [n \in 1..Cardinality(K) |-> items[At(items, K, n)]]
      /\ ByUrl(other, L) = [n \in 1..Cardinality(L) |-> other[At(other, L, n)]]
  BY DEF ByUrl, At
<1>7. QED
  BY <1>2, <1>5, <1>6

-----------------------------------------------------------------------------
Gained(items) == {k \in 1..Len(items) : items[k].got # Failed}
Lost(items) == {k \in 1..Len(items) : items[k].got = Failed}

\* What a single worker would have pushed, given the same answers.
Sequential == [i \in 1..N |-> ItemOf(i)]

\* The outcome is made once, when every worker has left, out of all results.
OutcomeIsOfAll ==
  outcome # None => (\A w \in Workers : at[w] = "left") /\ outcome = Outcome(results)

\* Sorting keeps the results, one for each position.
LEMMA SortType ==
  ASSUME NEW items \in Seq(Item), NEW K \in SUBSET (1..Len(items))
  PROVE  /\ ByUrl(items, K) \in Seq(Item)
         /\ Len(ByUrl(items, K)) = Cardinality(K) /\ Cardinality(K) \in Nat
         /\ \A n \in 1..Cardinality(K) : \E k \in K : ByUrl(items, K)[n] = items[k]
<1>1. Len(items) \in Nat /\ \A k \in 1..Len(items) : items[k] \in Item
  OBVIOUS
<1>2. IsFiniteSet(K) /\ Cardinality(K) \in Nat /\ K \in SUBSET Nat
  <2>1. IsFiniteSet(1..Len(items))
    BY <1>1, FS_Interval
  <2>2. IsFiniteSet(K)
    BY <2>1, FS_Subset
  <2>3. K \in SUBSET Nat
    BY <1>1
  <2>4. QED
    BY <2>2, <2>3, FS_CardinalityType
<1>3. Sortable(items, K)
  BY <1>1, <1>2 DEF Item, Sortable
<1>4. ASSUME NEW n \in 1..Cardinality(K)
      PROVE  At(items, K, n) \in K /\ ByUrl(items, K)[n] = items[At(items, K, n)]
  BY <1>3, AtIsTheOne
<1>5. \A n \in 1..Cardinality(K) : ByUrl(items, K)[n] \in Item
  BY <1>1, <1>4
<1>6. ByUrl(items, K) \in [1..Cardinality(K) -> Item]
  BY <1>5 DEF ByUrl
<1>7. ByUrl(items, K) \in Seq(Item) /\ Len(ByUrl(items, K)) = Cardinality(K)
  BY <1>2, <1>6
<1>8. QED
  BY <1>2, <1>4, <1>7

LEMMA OutcomeType ==
  ASSUME NEW items \in Seq(Item)
  PROVE  Outcome(items) \in [bundles : Seq(Item), failures : Seq(Item)]
<1>1. Gained(items) \in SUBSET (1..Len(items)) /\ Lost(items) \in SUBSET (1..Len(items))
  BY DEF Gained, Lost
<1>2. QED
  BY <1>1, SortType DEF Outcome, Gained, Lost

LEMMA OutcomeInv == Inv /\ OutcomeIsOfAll /\ [Next]_vars => OutcomeIsOfAll'
<1> SUFFICES ASSUME Inv, OutcomeIsOfAll, [Next]_vars PROVE OutcomeIsOfAll'
  OBVIOUS
<1>1. CASE Join
  BY <1>1 DEF Join, OutcomeIsOfAll
<1>2. CASE UNCHANGED vars
  BY <1>2 DEF vars, OutcomeIsOfAll
<1>3. ASSUME NEW w \in Workers, Claim(w) \/ Fetch(w) \/ Push(w) PROVE OutcomeIsOfAll'
  <2>1. at[w] # "left" /\ outcome' = outcome
    BY <1>3 DEF Claim, Fetch, Push
  <2>2. outcome = None
    BY <2>1 DEF OutcomeIsOfAll
  <2>3. QED
    BY <2>1, <2>2 DEF OutcomeIsOfAll
<1>4. QED
  BY <1>1, <1>2, <1>3 DEF Next

LEMMA DownloadInv == Spec => [](Inv /\ OutcomeIsOfAll)
<1>1. Init => Inv /\ OutcomeIsOfAll
  BY InitInv DEF Init, OutcomeIsOfAll
<1>2. (Inv /\ OutcomeIsOfAll) /\ [Next]_vars => (Inv /\ OutcomeIsOfAll)'
  BY NextInv, OutcomeInv
<1>3. QED
  BY <1>1, <1>2, PTL DEF Spec

LEMMA TypeHolds == Inv /\ OutcomeIsOfAll => TypeOK
BY OutcomeType DEF Inv, LoopType, OutcomeIsOfAll, TypeOK

\* The variables keep their types; an outcome is two lists of results.
THEOREM DownloadTypes == Spec => []TypeOK
BY DownloadInv, TypeHolds, PTL

\* When every worker has left, what they pushed is what one worker would have
\* pushed, in another order.
LEMMA PushedAll ==
  ASSUME Inv, \A w \in Workers : at[w] = "left"
  PROVE  \E m \in Bijection(1..Len(results), 1..N) :
           \A k \in 1..Len(results) : results[k] = ItemOf(m[k])
<1>1. \A k \in 1..Len(results) : \E i \in 1..N : results[k] = ItemOf(i)
  BY DEF Inv, ResultsAreOfReleased
<1> DEFINE m == [k \in 1..Len(results) |-> CHOOSE i \in 1..N : results[k] = ItemOf(i)]
<1>2. \A k \in 1..Len(results) : m[k] \in 1..N /\ results[k] = ItemOf(m[k])
  BY <1>1
<1>3. \A j, k \in 1..Len(results) : m[j] = m[k] => j = k
  <2>1. \A j, k \in 1..Len(results) : m[j] = m[k] => results[j] = results[k]
    BY <1>2
  <2>2. QED
    BY <2>1 DEF Inv, NoUrlTwice
<1>4. ASSUME NEW i \in 1..N
      PROVE  \E k \in 1..Len(results) : m[k] = i
  <2>1. i <= cursor /\ \A w \in Workers : ~Holds(w)
    BY Parameters DEF Inv, LeftAtEnd, LoopType, Holds
  <2>2. PICK k \in 1..Len(results) : results[k] = ItemOf(i)
    BY <2>1 DEF Inv, NoneLost
  <2>3. ItemOf(m[k]) = ItemOf(i) /\ m[k] \in 1..N
    BY <1>2, <2>2
  <2>4. Urls[m[k]] = Urls[i]
    BY <2>3 DEF ItemOf
  <2>5. QED
    BY <2>3, <2>4, UrlsAssumption
<1>5. m \in Bijection(1..Len(results), 1..N)
  BY <1>2, <1>3, <1>4 DEF Bijection, Injection, Surjection, IsInjective
<1>6. QED
  BY <1>2, <1>5

\* Part of a list is sorted the same in both orders.
LEMMA PartAlike ==
  ASSUME Inv, NEW m \in Bijection(1..Len(results), 1..N),
         \A k \in 1..Len(results) : results[k] = ItemOf(m[k]),
         NEW K \in SUBSET (1..Len(results)), NEW L \in SUBSET (1..N),
         \A k \in 1..Len(results) : k \in K <=> m[k] \in L
  PROVE  ByUrl(results, K) = ByUrl(Sequential, L)
<1> DEFINE part == [k \in K |-> m[k]]
<1>1. /\ m \in [1..Len(results) -> 1..N]
      /\ \A i \in 1..N : \E k \in 1..Len(results) : m[k] = i
      /\ \A j, k \in 1..Len(results) : m[j] = m[k] => j = k
  BY DEF Bijection, Injection, Surjection, IsInjective
<1>2. part \in Bijection(K, L)
  BY <1>1 DEF Bijection, Injection, Surjection, IsInjective
<1>3. N \in Nat /\ Len(results) \in Nat /\ \A k \in 1..Len(results) : results[k] \in Item
  <2>1. results \in Seq(Item)
    BY DEF Inv, LoopType
  <2>2. QED
    BY <2>1, Parameters
<1>4. Sortable(results, K) /\ L \in SUBSET Nat
  <2>1. IsFiniteSet(1..Len(results))
    BY <1>3, FS_Interval
  <2>2. IsFiniteSet(K)
    BY <2>1, FS_Subset
  <2>3. K \in SUBSET Nat /\ L \in SUBSET Nat
    BY <1>3
  <2>4. QED
    BY <1>3, <2>2, <2>3 DEF Sortable, Item
<1>5. \A k \in K : results[k] = Sequential[part[k]]
  BY <1>1 DEF Sequential
<1>6. \A j, k \in K : results[j].url = results[k].url => j = k
  BY DEF Inv, NoUrlTwice
<1>7. QED
  BY <1>2, <1>3, <1>4, <1>5, <1>6, SortedAlike

\* The bundles and the failures do not depend on how the workers were
\* scheduled (download.rs:140-143).
THEOREM ScheduleDoesNotShow == Spec => []OutcomeIsSequential
<1>1. ASSUME Inv, OutcomeIsOfAll, outcome # None
      PROVE  outcome = Outcome(Sequential)
  <2>1. (\A w \in Workers : at[w] = "left") /\ outcome = Outcome(results)
    BY <1>1 DEF OutcomeIsOfAll
  <2>2. PICK m \in Bijection(1..Len(results), 1..N) :
          \A k \in 1..Len(results) : results[k] = ItemOf(m[k])
    BY <1>1, <2>1, PushedAll
  <2>3. m \in [1..Len(results) -> 1..N]
    BY DEF Bijection, Injection, IsInjective
  <2>4. \A i \in 1..N : Sequential[i] = ItemOf(i)
    BY DEF Sequential
  <2>5. Len(Sequential) = N
    BY Parameters DEF Sequential
  <2>6. ByUrl(results, Gained(results)) = ByUrl(Sequential, Gained(Sequential))
    <3>1. \A k \in 1..Len(results) : k \in Gained(results) <=> m[k] \in Gained(Sequential)
      BY <2>2, <2>3, <2>4, <2>5 DEF Gained
    <3>2. Gained(results) \in SUBSET (1..Len(results)) /\ Gained(Sequential) \in SUBSET (1..N)
      BY <2>5 DEF Gained
    <3>3. QED
      BY <1>1, <2>2, <3>1, <3>2, PartAlike
  <2>7. ByUrl(results, Lost(results)) = ByUrl(Sequential, Lost(Sequential))
    <3>1. \A k \in 1..Len(results) : k \in Lost(results) <=> m[k] \in Lost(Sequential)
      BY <2>2, <2>3, <2>4, <2>5 DEF Lost
    <3>2. Lost(results) \in SUBSET (1..Len(results)) /\ Lost(Sequential) \in SUBSET (1..N)
      BY <2>5 DEF Lost
    <3>3. QED
      BY <1>1, <2>2, <3>1, <3>2, PartAlike
  <2>8. QED
    BY <2>1, <2>6, <2>7 DEF Outcome, Gained, Lost
<1>2. Inv /\ OutcomeIsOfAll => OutcomeIsSequential
  BY <1>1 DEF OutcomeIsSequential, Sequential, ItemOf
<1>3. QED
  BY <1>2, DownloadInv, PTL

-----------------------------------------------------------------------------
\* What the bundles of a complete outcome are saved under.
NameType == [stem : Segment \cup (Int \X Nat), ext : Extension]

SaveType ==
  /\ saved \in Seq(NameType)
  /\ IsFiniteSet(used) /\ DOMAIN disk = used
  /\ file_name = None => saved = <<>>
  /\ file_name # None => /\ Complete
                         /\ file_name \in [UrlSet -> [stem : Segment, ext : {"js"}]]
                         /\ Len(saved) <= Len(outcome.bundles)

UsedAreTheSaved == used = {saved[i] : i \in 1..Len(saved)}

SaveInv == Inv /\ OutcomeIsOfAll /\ SaveType /\ UsedAreTheSaved /\ EveryBundleHasItsFile

\* A bundle has the URL of one of the positions.
LEMMA BundleUrls ==
  ASSUME Inv, OutcomeIsOfAll, outcome # None
  PROVE  /\ outcome.bundles \in Seq(Item)
         /\ \A n \in 1..Len(outcome.bundles) : outcome.bundles[n].url \in UrlSet
<1>1. results \in Seq(Item) /\ \A k \in 1..Len(results) : results[k].url \in UrlSet
  <2>1. results \in Seq(Item)
    BY DEF Inv, LoopType
  <2>2. \A k \in 1..Len(results) : \E i \in 1..N : results[k] = ItemOf(i)
    BY DEF Inv, ResultsAreOfReleased
  <2>3. \A i \in 1..N : ItemOf(i).url \in UrlSet
    BY DEF ItemOf, UrlSet
  <2>4. QED
    BY <2>1, <2>2, <2>3
<1>2. outcome.bundles = ByUrl(results, Gained(results))
  BY DEF OutcomeIsOfAll, Outcome, Gained
<1>3. Gained(results) \in SUBSET (1..Len(results))
  BY DEF Gained
<1>4. QED
  BY <1>1, <1>2, <1>3, SortType

\* A set of names leaves one of its first suffixes free, so there is a least.
LEMMA FreeSuffix ==
  ASSUME NEW taken, IsFiniteSet(taken), NEW url, NEW ext
  PROVE  \E n \in 0..Cardinality(taken) :
           /\ Name(<<url, n>>, ext) \notin taken
           /\ \A m \in 0..Cardinality(taken) : Name(<<url, m>>, ext) \notin taken => n <= m
<1> DEFINE suffixes == 0..Cardinality(taken)
           free == {n \in suffixes : Name(<<url, n>>, ext) \notin taken}
           name == [n \in suffixes |-> Name(<<url, n>>, ext)]
<1>1. Cardinality(taken) \in Nat
  BY FS_CardinalityType
<1>2. IsFiniteSet(suffixes) /\ Cardinality(suffixes) = Cardinality(taken) + 1
  <2>1. IsFiniteSet(suffixes)
        /\ Cardinality(suffixes) = IF 0 > Cardinality(taken) THEN 0 ELSE Cardinality(taken) - 0 + 1
    BY <1>1, FS_Interval
  <2>2. QED
    BY <1>1, <2>1
<1>3. \A m, n \in suffixes : name[m] = name[n] => m = n
  BY DEF Name
<1>4. free # {}
  <2>1. SUFFICES ASSUME free = {} PROVE FALSE
    OBVIOUS
  <2>2. name \in [suffixes -> taken]
    BY <2>1
  <2>3. Cardinality(taken) < Cardinality(suffixes)
    BY <1>1, <1>2
  <2>4. \E m, n \in suffixes : m # n /\ name[m] = name[n]
    <3> HIDE DEF suffixes, name
    <3>1. QED
      BY <1>2, <2>2, <2>3, FS_PigeonHole
  <2>5. QED
    BY <1>3, <2>4
<1> DEFINE Less == OpToRel(<, Nat)
<1>5. IsWellFoundedOn(Less, Nat)
  BY NatLessThanWellFounded
<1>6. free \subseteq Nat
  BY <1>1
<1>7. PICK n \in free : \A m \in free : <<m, n>> \notin Less
  <2> HIDE DEF Less, free
  <2>1. QED
    BY <1>4, <1>5, <1>6, WFMin
<1>8. \A m \in free : n <= m
  <2>1. \A m \in free : m \in Nat /\ n \in Nat /\ ~(m < n)
    BY <1>6, <1>7 DEF OpToRel
  <2>2. QED
    BY <2>1
<1>9. QED
  BY <1>8

\* The name a bundle is saved under is new, short enough and a .js.
LEMMA NameIsFresh ==
  ASSUME NEW taken, IsFiniteSet(taken), NEW url \in Int,
         NEW name \in [stem : Segment, ext : {"js"}]
  PROVE  LET given == disk_file_name(name, url, taken)
         IN  /\ given \in NameType /\ given \notin taken
             /\ given.ext = "js" /\ given.stem \notin TooLong
<1>1. name = Name(name.stem, "js") /\ name.stem \in Segment /\ name.ext = "js"
  BY DEF Name
<1>2. "js" \in Carried /\ "js" \in Extension
  BY NameAssumption
<1>3. CASE name.stem \notin TooLong /\ name \notin taken
  BY <1>1, <1>2, <1>3 DEF disk_file_name, NameType
<1>4. CASE ~(name.stem \notin TooLong /\ name \notin taken)
  <2> DEFINE free == {n \in 0..Cardinality(taken) : Name(<<url, n>>, "js") \notin taken}
             least == CHOOSE n \in free : \A m \in free : n <= m
  <2>1. \E n \in free : \A m \in free : n <= m
    BY FreeSuffix
  <2>2. least \in free
    BY <2>1
  <2>3. disk_file_name(name, url, taken) = Name(<<url, least>>, "js")
    BY <1>1, <1>2, <1>4 DEF disk_file_name, Fallback
  <2>4. Cardinality(taken) \in Nat
    BY FS_CardinalityType
  <2>5. <<url, least>> \in Int \X Nat /\ Name(<<url, least>>, "js") \notin taken
    <3> HIDE DEF least
    <3>1. QED
      BY <2>2, <2>4
  <2>6. <<url, least>> \notin TooLong
    BY <2>5, NameAssumption
  <2>7. QED
    BY <1>2, <2>3, <2>5, <2>6 DEF Name, NameType
<1>5. QED
  BY <1>3, <1>4

LEMMA SaveStep ==
  ASSUME SaveInv, Save, UNCHANGED vars
  PROVE  SaveInv'
<1>0. Inv /\ OutcomeIsOfAll /\ SaveType /\ UsedAreTheSaved /\ EveryBundleHasItsFile
  BY DEF SaveInv
<1> DEFINE n == Len(saved) + 1
           bundle == outcome.bundles[n]
           name == disk_file_name(file_name[bundle.url], bundle.url, used)
<1>1. /\ file_name # None /\ Len(saved) < Len(outcome.bundles)
      /\ used' = used \cup {name} /\ saved' = Append(saved, name)
      /\ disk' = [x \in DOMAIN disk \cup {name} |-> IF x = name THEN bundle.got ELSE disk[x]]
      /\ UNCHANGED file_name
  BY DEF Save
<1>2. Inv' /\ OutcomeIsOfAll'
  <2>1. [Next]_vars
    OBVIOUS
  <2>2. QED
    BY <1>0, <2>1, NextInv, OutcomeInv
<1>3. /\ Complete /\ outcome # None
      /\ file_name \in [UrlSet -> [stem : Segment, ext : {"js"}]]
      /\ saved \in Seq(NameType) /\ Len(saved) \in Nat
      /\ outcome' = outcome
  BY <1>0, <1>1 DEF SaveType, Complete, vars
<1>4. outcome.bundles \in Seq(Item) /\ bundle.url \in UrlSet
  BY <1>0, <1>1, <1>3, BundleUrls
<1>5. bundle.url \in Int
  BY <1>4, Parameters DEF UrlSet
<1>6. file_name[bundle.url] \in [stem : Segment, ext : {"js"}]
  BY <1>3, <1>4
<1>7. /\ name \in NameType /\ name \notin used
      /\ name.ext = "js" /\ name.stem \notin TooLong
  BY <1>0, <1>5, <1>6, NameIsFresh DEF SaveType
<1> HIDE DEF name, bundle
<1>8. /\ saved' \in Seq(NameType) /\ Len(saved') = n
      /\ \A i \in 1..Len(saved) : saved'[i] = saved[i]
      /\ saved'[n] = name
  BY <1>1, <1>3, <1>7
<1>9. 1..n = 1..Len(saved) \cup {n}
  BY <1>3
<1>10. UsedAreTheSaved'
  BY <1>0, <1>1, <1>8, <1>9 DEF UsedAreTheSaved
<1>11. SaveType'
  <2>1. IsFiniteSet(used')
    BY <1>0, <1>1, FS_AddElement DEF SaveType
  <2>2. DOMAIN disk' = used'
    BY <1>0, <1>1 DEF SaveType
  <2>3. Complete' /\ Len(saved') <= Len(outcome'.bundles)
    BY <1>1, <1>3, <1>4, <1>8 DEF Complete
  <2>4. QED
    BY <1>1, <1>3, <1>8, <2>1, <2>2, <2>3 DEF SaveType
<1>12. EveryBundleHasItsFile'
  <2>1. \A i \in 1..Len(saved) : saved[i] \in used /\ saved[i] # name
    BY <1>0, <1>7 DEF UsedAreTheSaved
  <2>2. \A i, j \in 1..n : saved'[i] = saved'[j] => i = j
    BY <1>0, <1>8, <1>9, <2>1 DEF EveryBundleHasItsFile
  <2>3. disk'[name] = bundle.got /\ \A i \in 1..Len(saved) : disk'[saved[i]] = disk[saved[i]]
    BY <1>0, <1>1, <2>1 DEF SaveType
  <2>4. ASSUME NEW i \in 1..n
        PROVE  /\ saved'[i].ext = "js" /\ saved'[i].stem \notin TooLong
               /\ disk'[saved'[i]] = outcome'.bundles[i].got
    <3>1. CASE i = n
      BY <1>3, <1>7, <1>8, <2>3, <3>1 DEF bundle
    <3>2. CASE i \in 1..Len(saved)
      BY <1>0, <1>3, <1>8, <2>3, <3>2 DEF EveryBundleHasItsFile
    <3>3. QED
      BY <1>9, <3>1, <3>2
  <2>5. DOMAIN disk' = {saved'[i] : i \in 1..Len(saved')}
    BY <1>10, <1>11 DEF UsedAreTheSaved, SaveType
  <2>6. QED
    BY <1>8, <2>2, <2>4, <2>5 DEF EveryBundleHasItsFile
<1>13. QED
  BY <1>2, <1>10, <1>11, <1>12 DEF SaveInv

\* Every bundle of a complete download gets a file of its own, with its
\* content, whatever the last segments of the URLs are (download.rs:182-253).
THEOREM DumpRoundTrips == SaveSpec => []EveryBundleHasItsFile
<1>1. SaveInit => SaveInv
  <2> SUFFICES ASSUME SaveInit PROVE SaveInv
    OBVIOUS
  <2>1. Inv /\ OutcomeIsOfAll
    BY InitInv DEF SaveInit, Init, OutcomeIsOfAll
  <2>2. SaveType
    BY FS_EmptySet DEF SaveInit, SaveType
  <2>3. UsedAreTheSaved /\ EveryBundleHasItsFile
    BY DEF SaveInit, UsedAreTheSaved, EveryBundleHasItsFile
  <2>4. QED
    BY <2>1, <2>2, <2>3 DEF SaveInv
<1>2. SaveInv /\ [SaveNext]_<<vars, saving>> => SaveInv'
  <2> SUFFICES ASSUME SaveInv, [SaveNext]_<<vars, saving>> PROVE SaveInv'
    OBVIOUS
  <2>0. Inv /\ OutcomeIsOfAll /\ SaveType /\ UsedAreTheSaved /\ EveryBundleHasItsFile
    BY DEF SaveInv
  <2>1. CASE [Next]_vars /\ UNCHANGED saving
    <3>1. Inv' /\ OutcomeIsOfAll'
      BY <2>0, <2>1, NextInv, OutcomeInv
    <3>2. outcome # None => outcome' = outcome
      BY <2>1 DEF Next, Join, Claim, Fetch, Push, vars
    <3>3. UNCHANGED <<file_name, used, disk, saved>>
      BY <2>1 DEF saving
    <3>4. file_name # None => outcome' = outcome
      BY <2>0, <3>2 DEF SaveType, Complete
    <3>5. SaveType' /\ UsedAreTheSaved'
      BY <2>0, <3>3, <3>4 DEF SaveType, Complete, UsedAreTheSaved
    <3>6. EveryBundleHasItsFile'
      BY <2>0, <3>3, <3>4 DEF SaveType, EveryBundleHasItsFile
    <3>7. QED
      BY <3>1, <3>5, <3>6 DEF SaveInv
  <2>2. CASE StartSaving /\ UNCHANGED vars
    <3>1. Inv' /\ OutcomeIsOfAll'
      BY <2>0, <2>2, NextInv, OutcomeInv
    <3>2. UNCHANGED <<used, disk, saved, outcome>> /\ saved = <<>>
      BY <2>0, <2>2 DEF StartSaving, SaveType, vars
    <3>3. UsedAreTheSaved' /\ EveryBundleHasItsFile'
      BY <2>0, <3>2 DEF UsedAreTheSaved, EveryBundleHasItsFile
    <3>4. Complete /\ outcome # None /\ outcome.bundles \in Seq(Item)
      BY <2>0, <2>2, BundleUrls DEF StartSaving, Complete
    <3>5. file_name' \in [UrlSet -> [stem : Segment, ext : {"js"}]] /\ UrlSet' = UrlSet
      BY <2>2 DEF StartSaving, UrlSet
    <3>6. SaveType'
      BY <2>0, <3>2, <3>4, <3>5 DEF SaveType, Complete
    <3>7. QED
      BY <3>1, <3>3, <3>6 DEF SaveInv
  <2>3. CASE Save /\ UNCHANGED vars
    BY <2>3, SaveStep
  <2>4. QED
    BY <2>1, <2>2, <2>3 DEF SaveNext, vars, saving
<1>3. SaveInv => EveryBundleHasItsFile
  BY DEF SaveInv
<1>4. QED
  BY <1>1, <1>2, <1>3, PTL DEF SaveSpec
=============================================================================
