------------------------------ MODULE Bootloader ------------------------------
(***************************************************************************)
(* Resolving bootloader handles (wa-fetch/src/bootloader.rs): the page's   *)
(* own bindings, then rounds of two requests to the endpoint the page      *)
(* names, until a round brings no new id.  WasmLock takes the outcome in   *)
(* one step; OutcomeOfLoadWasm states what it takes it to be.              *)
(***************************************************************************)
EXTENDS WasmHandles, FiniteSets, Sequences

CONSTANTS
  max_rounds, max_components,  \* WasmResolveOptions
  MaxDeferred                  \* bound: components a page defers

ASSUME ResolveAssumption ==
  /\ max_rounds \in Nat \ {0} /\ max_components \in Nat \ {0}
  /\ MaxDeferred \in Nat

\* The ids of a page and of the answers to it.
ASSUME IdsAssumption == IsFiniteSet(BxId)

\* MODULE_PARAMS: the requests of a round.
MODULE_PARAMS == <<"nb_modules", "modules">>

VARIABLES
  pc,        \* "start", "round", "ask", "finish", "done"
  bx_data,   \* the page's bindings
  endpoint,  \* the endpoint the page names: "none", "refused" or "trusted"
  deferred,  \* how many components the page defers
  scanned,   \* URLs found in the page's text
  bx, before, param, rounds, requests, failed_requests,
  failures,  \* the reasons recorded, each once
  observed_ids, by_id, urls,
  told       \* history: the answers, in order

page == <<bx_data, endpoint, deferred, scanned>>
outcome == <<observed_ids, by_id, urls>>
vars == <<pc, page, bx, before, param, rounds, requests, failed_requests, failures,
          outcome, told>>

EmptyMap == [x \in {} |-> None]
Answers == PartialMap(BxId, Url)

Init ==
  /\ pc = "start"
  /\ bx_data \in Answers /\ endpoint \in {"none", "refused", "trusted"}
  /\ deferred \in 0..MaxDeferred /\ scanned \in SUBSET Url
  /\ bx = bx_data /\ before = 0 /\ param = 1
  /\ rounds = 0 /\ requests = 0 /\ failed_requests = 0 /\ failures = {}
  /\ observed_ids = {} /\ by_id = EmptyMap /\ urls = {}
  /\ told = <<>>

\* Components beyond the cap are not asked for, and that is said.
Capped == deferred > max_components

Collect_lastWins(bindings, answer) == Extend(bindings, answer)  \* mutant

\* collect_bx_data: an id keeps the first URL it was given.
Collect(bindings, answer) == Extend(answer, bindings)

Finish_survivorsOnly ==  \* mutant: the ids that survive the filters
  /\ pc = "finish" /\ pc' = "done"
  /\ observed_ids' = DOMAIN ById(bx)
  /\ by_id' = ById(bx)
  /\ urls' = Image(ById(bx)) \cup (scanned \cap Accepted)
  /\ UNCHANGED <<page, bx, before, param, rounds, requests, failed_requests, failures, told>>

Begin_silent ==  \* mutant: nothing deferred is no reason
  /\ pc = "start"
  /\ pc' = IF endpoint = "trusted" /\ deferred > 0 THEN "round" ELSE "finish"
  /\ failures' = IF endpoint = "trusted" THEN {} ELSE {<<endpoint, 0>>}
  /\ UNCHANGED <<page, bx, before, param, rounds, requests, failed_requests, outcome, told>>

\* What is not asked is recorded as a failure.
Begin ==
  /\ pc = "start"
  /\ pc' = IF endpoint = "trusted" /\ deferred > 0 THEN "round" ELSE "finish"
  /\ failures' = (IF Capped THEN {<<"capped", 0>>} ELSE {}) \cup
                  (IF endpoint # "trusted" THEN {<<endpoint, 0>>} ELSE {}) \cup
                  (IF endpoint = "trusted" /\ deferred = 0 THEN {<<"nothing deferred", 0>>} ELSE {})
  /\ UNCHANGED <<page, bx, before, param, rounds, requests, failed_requests, outcome, told>>

Round_unbounded ==  \* mutant: until a round brings nothing new
  /\ pc = "round"
  /\ pc' = "ask" /\ before' = Cardinality(DOMAIN bx) /\ param' = 1
  /\ UNCHANGED <<page, bx, rounds, requests, failed_requests, failures, outcome, told>>

\* The head of the loop.
Round ==
  /\ pc = "round"
  /\ IF rounds < max_rounds
     THEN pc' = "ask" /\ before' = Cardinality(DOMAIN bx) /\ param' = 1
     ELSE pc' = "finish" /\ UNCHANGED <<before, param>>
  /\ UNCHANGED <<page, bx, rounds, requests, failed_requests, failures, outcome, told>>

EndOfRound_noBreak == rounds' = rounds + 1 /\ pc' = "round"  \* mutant

\* After the second request: a round without a new id is the last.
EndOfRound ==
  /\ rounds' = rounds + 1
  /\ pc' = IF Cardinality(DOMAIN bx') = before THEN "finish" ELSE "round"

\* fetch_payload returns an answer, or fails.
Ask ==
  /\ pc = "ask"
  /\ requests' = requests + 1
  /\ \/ \E answer \in Answers :
          /\ bx' = Collect(bx, answer)
          /\ told' = Append(told, answer)
          /\ UNCHANGED <<failed_requests, failures>>
     \/ /\ failed_requests' = failed_requests + 1
        /\ failures' = failures \cup {<<MODULE_PARAMS[param], rounds>>}
        /\ UNCHANGED <<bx, told>>
  /\ IF param < Len(MODULE_PARAMS)
     THEN param' = param + 1 /\ UNCHANGED <<pc, rounds>>
     ELSE UNCHANGED param /\ EndOfRound
  /\ UNCHANGED <<page, before, outcome>>

\* The bindings that survive the filters, and all ids that were mentioned.
Finish ==
  /\ pc = "finish" /\ pc' = "done"
  /\ observed_ids' = DOMAIN bx
  /\ by_id' = ById(bx)
  /\ urls' = Image(ById(bx)) \cup (scanned \cap Accepted)
  /\ UNCHANGED <<page, bx, before, param, rounds, requests, failed_requests, failures, told>>

Next == Begin \/ Round \/ Ask \/ Finish

Spec == Init /\ [][Next]_vars

-----------------------------------------------------------------------------
TypeOK ==
  /\ pc \in {"start", "round", "ask", "finish", "done"}
  /\ bx_data \in Answers /\ endpoint \in {"none", "refused", "trusted"}
  /\ deferred \in 0..MaxDeferred /\ scanned \subseteq Url
  /\ bx \in Answers /\ before \in Nat /\ param \in 1..2
  /\ rounds \in 0..max_rounds /\ requests \in 0..2 * max_rounds
  /\ failed_requests \in 0..requests
  /\ observed_ids \subseteq BxId /\ by_id \in PartialMap(BxId, Accepted)
  /\ urls \subseteq Accepted

\* discover.rs:451-453: whatever the answers, an id has the URL the page gave it, or
\* else the URL of the first answer that mentions it.
FirstBindingWins ==
  \A i \in BxId :
    /\ i \in DOMAIN bx <=>
         i \in DOMAIN bx_data \/ \E k \in DOMAIN told : i \in DOMAIN told[k]
    /\ i \in DOMAIN bx_data => bx[i] = bx_data[i]
    /\ i \notin DOMAIN bx_data =>
         \A k \in DOMAIN told :
           i \in DOMAIN told[k] /\ (\A j \in 1..(k - 1) : i \notin DOMAIN told[j])
             => bx[i] = told[k][i]

\* bootloader.rs:59-60: requests are two to a round, rounds are capped, and each round
\* but the last brought a new id.
RequestsAreBounded ==
  /\ requests = 2 * rounds + (IF pc = "ask" THEN param - 1 ELSE 0)
  /\ rounds <= max_rounds
  /\ rounds <= 1 + Cardinality(DOMAIN bx \ DOMAIN bx_data)

\* bootloader.rs:94-96, 142, 186-189: a resolution that did not ask for everything,
\* or was not answered every time, says why.
NothingIsSilent ==
  pc = "done" =>
    /\ requests = 0 \/ Capped \/ failed_requests > 0 => failures # {}
    /\ failed_requests = Cardinality({f \in failures : f[1] \in Image(MODULE_PARAMS)})

\* main.rs:1592-1612, WasmLock: the outcome is what LoadWasm takes it to be: bindings
\* that extend the page's, the accepted ones, and every id mentioned, whatever
\* became of the requests.
OutcomeOfLoadWasm ==
  pc = "done" =>
    /\ \E more \in PartialMap(BxId \ DOMAIN bx_data, Url) :
         LET all == Extend(bx_data, more)
         IN  observed_ids = DOMAIN all /\ by_id = ById(all)
    /\ \A k \in DOMAIN told : DOMAIN told[k] \subseteq observed_ids
    /\ urls = Image(by_id) \cup (scanned \cap Accepted)
=============================================================================
