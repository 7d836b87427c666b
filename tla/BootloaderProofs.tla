-------------------------- MODULE BootloaderProofs --------------------------
(***************************************************************************)
(* Resolving handles, for any ids and URLs, any page, any answers and any  *)
(* caps: what the bindings are, how often the endpoint is asked, and that  *)
(* what was not asked or not answered is recorded.                         *)
(***************************************************************************)
EXTENDS Bootloader, FiniteSetTheorems, TLAPS

Size(S) == Cardinality(S)

\* Requests come in pairs; a round is begun below the cap.
Counted ==
  /\ requests = 2 * rounds + (IF pc = "ask" THEN param - 1 ELSE 0)
  /\ pc = "start" => rounds = 0
  /\ pc = "ask" => rounds < max_rounds

\* Every round that was followed by another brought an id.
Gained ==
  /\ DOMAIN bx_data \subseteq DOMAIN bx
  /\ pc = "round" => rounds + Size(DOMAIN bx_data) <= Size(DOMAIN bx)
  /\ pc = "ask" => rounds + Size(DOMAIN bx_data) <= before /\ before <= Size(DOMAIN bx)
  /\ rounds + Size(DOMAIN bx_data) <= Size(DOMAIN bx) + 1

OfRequest(f) == f[1] \in Image(MODULE_PARAMS)
Unanswered == {f \in failures : OfRequest(f)}

\* Each failed request has a record of its own.
Recorded ==
  /\ IsFiniteSet(failures) /\ failed_requests = Size(Unanswered)
  /\ \A f \in Unanswered :
       /\ f[2] \in Nat
       /\ \/ f[2] < rounds
          \/ f[2] = rounds /\ pc = "ask" /\ \E j \in 1..(param - 1) : f[1] = MODULE_PARAMS[j]

\* What is not asked for is recorded when it is decided.
Said ==
  /\ pc = "start" => failures = {} /\ requests = 0
  /\ pc # "start" /\ Capped => failures # {}
  /\ pc \in {"finish", "done"} /\ requests = 0 => failures # {}

\* What is returned is read off the bindings.
Returned ==
  pc = "done" => /\ observed_ids = DOMAIN bx /\ by_id = ById(bx)
                 /\ urls = Image(ById(bx)) \cup (scanned \cap Accepted)

Inv ==
  /\ TypeOK /\ FirstBindingWins /\ told \in Seq(Answers)
  /\ Counted /\ Gained /\ Recorded /\ Said /\ Returned

-----------------------------------------------------------------------------
LEMMA Params ==
  /\ Len(MODULE_PARAMS) = 2
  /\ MODULE_PARAMS[1] = "nb_modules" /\ MODULE_PARAMS[2] = "modules"
  /\ Image(MODULE_PARAMS) = {"nb_modules", "modules"}
<1>1. DOMAIN MODULE_PARAMS = {1, 2}
  BY DEF MODULE_PARAMS
<1> QED BY <1>1 DEF MODULE_PARAMS, Image

LEMMA MapIs ==
  ASSUME NEW D, NEW R, NEW f \in PartialMap(D, R)
  PROVE  DOMAIN f \subseteq D /\ f \in [DOMAIN f -> R]
BY DEF PartialMap

LEMMA IsMap ==
  ASSUME NEW D, NEW R, NEW S \in SUBSET D, NEW f \in [S -> R]
  PROVE  f \in PartialMap(D, R)
BY DEF PartialMap

LEMMA CollectIs ==
  ASSUME NEW b \in Answers, NEW a \in Answers
  PROVE  /\ Collect(b, a) \in Answers
         /\ DOMAIN Collect(b, a) = DOMAIN b \cup DOMAIN a
         /\ \A i \in DOMAIN b : Collect(b, a)[i] = b[i]
         /\ \A i \in DOMAIN a \ DOMAIN b : Collect(b, a)[i] = a[i]
<1>1. /\ DOMAIN a \subseteq BxId /\ a \in [DOMAIN a -> Url]
      /\ DOMAIN b \subseteq BxId /\ b \in [DOMAIN b -> Url]
  BY MapIs DEF Answers
<1>2. Collect(b, a) = [i \in DOMAIN a \cup DOMAIN b |-> IF i \in DOMAIN b THEN b[i] ELSE a[i]]
  BY DEF Collect, Extend
<1>3. Collect(b, a) \in [DOMAIN a \cup DOMAIN b -> Url] /\ DOMAIN a \cup DOMAIN b \in SUBSET BxId
  BY <1>1, <1>2
<1>4. Collect(b, a) \in Answers
  BY <1>3, IsMap DEF Answers
<1> QED BY <1>2, <1>4

LEMMA ByIdIs ==
  ASSUME NEW b \in Answers
  PROVE  ById(b) \in PartialMap(BxId, Accepted) /\ Image(ById(b)) \subseteq Accepted
<1> DEFINE D == {j \in DOMAIN b : b[j] \in Accepted}
<1>1. DOMAIN b \subseteq BxId
  BY MapIs DEF Answers
<1>2. ById(b) \in [D -> Accepted] /\ D \in SUBSET BxId
  BY <1>1 DEF ById
<1>3. DOMAIN ById(b) = D
  BY <1>2
<1> QED BY <1>2, <1>3, IsMap DEF Image

\* Sizes of sets of ids.
LEMMA Sizes ==
  ASSUME NEW S, NEW T, S \subseteq T, T \subseteq BxId
  PROVE  /\ Size(S) \in Nat /\ Size(T) \in Nat /\ Size(S) <= Size(T)
         /\ Size(T \ S) = Size(T) - Size(S)
<1>1. IsFiniteSet(T) /\ IsFiniteSet(S) /\ IsFiniteSet(T \ S)
  BY FS_Subset, IdsAssumption
<1> DEFINE D == T \ S
<1>2. S \cup D = T /\ S \cap D = {} /\ IsFiniteSet(D) /\ Size({}) = 0
  BY <1>1, FS_EmptySet DEF Size
<1> HIDE DEF D
<1>3. Size(T) = Size(S) + Size(D) - Size({})
  <2>1. Cardinality(S \cup D) = Cardinality(S) + Cardinality(D) - Cardinality(S \cap D)
    BY <1>1, <1>2, FS_Union
  <2> QED BY <2>1, <1>2 DEF Size
<1>4. Size(S) \in Nat /\ Size(T) \in Nat /\ Size(D) \in Nat
  BY <1>1, <1>2, FS_CardinalityType DEF Size
<1>5. Size(S) <= Size(T)
  BY <1>1, FS_Subset DEF Size
<1> QED BY <1>2, <1>3, <1>4, <1>5 DEF D

LEMMA InitInv == Init => Inv
<1> SUFFICES ASSUME Init PROVE Inv
  OBVIOUS
<1> USE DEF Init
<1>1. bx \in Answers /\ DOMAIN bx \subseteq BxId
  BY MapIs DEF Answers
<1>2. EmptyMap \in PartialMap(BxId, Accepted)
  <2>1. EmptyMap \in [{} -> Accepted] /\ {} \in SUBSET BxId
    BY DEF EmptyMap
  <2> QED BY <2>1, IsMap
<1>3. TypeOK
  BY <1>1, <1>2, ResolveAssumption DEF TypeOK
<1>4. FirstBindingWins /\ told \in Seq(Answers)
  BY DEF FirstBindingWins
<1>5. Counted /\ Said /\ Returned
  BY ResolveAssumption DEF Counted, Said, Returned
<1>6. Gained
  <2>1. Size(DOMAIN bx) \in Nat
    BY <1>1, Sizes
  <2> QED BY <2>1 DEF Gained
<1>7. Recorded
  BY FS_EmptySet DEF Recorded, Unanswered, Size
<1> QED BY <1>3, <1>4, <1>5, <1>6, <1>7 DEF Inv

LEMMA BeginInv == Inv /\ Begin => Inv'
<1> SUFFICES ASSUME Inv, Begin PROVE Inv'
  OBVIOUS
<1>1. /\ TypeOK /\ FirstBindingWins /\ told \in Seq(Answers)
      /\ Counted /\ Gained /\ Recorded /\ Said
  BY DEF Inv
<1>2. /\ pc = "start" /\ pc' \in {"round", "finish"}
      /\ UNCHANGED <<bx_data, endpoint, deferred, scanned, bx, before, param, rounds,
                     requests, failed_requests, observed_ids, by_id, urls, told>>
  BY DEF Begin, page, outcome
<1>3. rounds = 0 /\ failures = {}
  BY <1>1, <1>2 DEF Counted, Said
<1>4. endpoint \in {"none", "refused", "trusted"} /\ deferred \in Nat
  BY <1>1, ResolveAssumption DEF TypeOK
<1>5. TypeOK' /\ FirstBindingWins' /\ (told \in Seq(Answers))'
  BY <1>1, <1>2 DEF TypeOK, FirstBindingWins
<1>6. Counted'
  BY <1>1, <1>2 DEF Counted
<1>7. Gained'
  <2>1. DOMAIN bx \subseteq BxId /\ DOMAIN bx_data \subseteq DOMAIN bx
    BY <1>1, MapIs DEF TypeOK, Answers, Gained
  <2>2. /\ Size(DOMAIN bx_data) \in Nat /\ Size(DOMAIN bx) \in Nat
        /\ Size(DOMAIN bx_data) <= Size(DOMAIN bx)
    BY <2>1, Sizes
  <2> QED BY <1>2, <1>3, <2>1, <2>2 DEF Gained, Size
<1>8. Recorded'
  <2> DEFINE R == {<<"capped", 0>>, <<endpoint, 0>>, <<"nothing deferred", 0>>}
  <2>1. failures' \subseteq R
    BY DEF Begin
  <2>2. ASSUME NEW f \in R PROVE f[1] \in {"capped", endpoint, "nothing deferred"}
    <3>1. CASE f = <<"capped", 0>>
      BY <3>1
    <3>2. CASE f = <<endpoint, 0>>
      BY <3>2
    <3>3. CASE f = <<"nothing deferred", 0>>
      BY <3>3
    <3> QED BY <3>1, <3>2, <3>3
  <2>3. IsFiniteSet(R)
    <3>1. R = ({<<"capped", 0>>} \cup {<<endpoint, 0>>}) \cup {<<"nothing deferred", 0>>}
      OBVIOUS
    <3> HIDE DEF R
    <3> QED BY <3>1, FS_Singleton, FS_Union
  <2> HIDE DEF R
  <2>4. \A f \in R : ~OfRequest(f)
    BY <2>2, <1>4, Params DEF OfRequest
  <2>5. IsFiniteSet(failures')
    BY <2>1, <2>3, FS_Subset
  <2>6. Unanswered' = {} /\ Unanswered = {}
    BY <2>1, <2>4, <1>3 DEF Unanswered, OfRequest
  <2> QED BY <1>1, <1>2, <2>5, <2>6 DEF Recorded
<1>9. Said'
  <2>1. Capped => <<"capped", 0>> \in failures'
    BY DEF Begin
  <2>2. endpoint # "trusted" => <<endpoint, 0>> \in failures'
    BY DEF Begin
  <2>3. endpoint = "trusted" /\ deferred = 0 => <<"nothing deferred", 0>> \in failures'
    BY DEF Begin
  <2>4. deferred # 0 => deferred > 0
    BY <1>4
  <2>5. pc' = "finish" => failures' # {}
    <3>1. CASE endpoint = "trusted" /\ deferred # 0
      <4>1. pc' = "round"
        BY <3>1, <2>4 DEF Begin
      <4> QED BY <4>1
    <3>2. CASE endpoint = "trusted" /\ deferred = 0
      BY <3>2, <2>3
    <3>3. CASE endpoint # "trusted"
      BY <3>3, <2>2
    <3> QED BY <3>1, <3>2, <3>3
  <2> QED BY <2>1, <2>5, <1>2 DEF Said, Capped
<1> QED BY <1>2, <1>5, <1>6, <1>7, <1>8, <1>9 DEF Inv, Returned

LEMMA RoundInv == Inv /\ Round => Inv'
<1> SUFFICES ASSUME Inv, Round PROVE Inv'
  OBVIOUS
<1> USE DEF Inv, Round, page, outcome
<1>1. DOMAIN bx \subseteq BxId /\ Size(DOMAIN bx) \in Nat
  BY MapIs, Sizes DEF TypeOK, Answers
<1>2. TypeOK' /\ FirstBindingWins' /\ (told \in Seq(Answers))'
  BY <1>1 DEF TypeOK, FirstBindingWins, Size
<1>3. Counted'
  BY ResolveAssumption DEF Counted, TypeOK
<1>4. Gained'
  BY <1>1 DEF Gained, Size
<1>5. Recorded'
  BY DEF Recorded, Unanswered, OfRequest
<1>6. Said' /\ Returned'
  BY ResolveAssumption DEF Said, Counted, TypeOK, Capped, Returned
<1> QED BY <1>2, <1>3, <1>4, <1>5, <1>6

LEMMA FinishInv == Inv /\ Finish => Inv'
<1> SUFFICES ASSUME Inv, Finish PROVE Inv'
  OBVIOUS
<1> USE DEF Inv, Finish, page
<1>1. DOMAIN bx \subseteq BxId
  BY MapIs DEF TypeOK, Answers
<1>2. ById(bx) \in PartialMap(BxId, Accepted) /\ Image(ById(bx)) \subseteq Accepted
  BY ByIdIs DEF TypeOK
<1>3. TypeOK' /\ FirstBindingWins' /\ (told \in Seq(Answers))'
  BY <1>1, <1>2 DEF TypeOK, FirstBindingWins
<1>4. Counted' /\ Gained' /\ Said' /\ Returned'
  BY DEF Counted, Gained, Said, Capped, Returned
<1>5. Recorded'
  BY DEF Recorded, Unanswered, OfRequest
<1> QED BY <1>3, <1>4, <1>5

\* What the answer to a request does to the bindings.
LEMMA AnswerInv ==
  ASSUME Inv, NEW answer \in Answers, bx' = Collect(bx, answer), told' = Append(told, answer),
         UNCHANGED bx_data
  PROVE  /\ bx' \in Answers /\ DOMAIN bx \subseteq DOMAIN bx'
         /\ FirstBindingWins' /\ (told \in Seq(Answers))'
<1>1. TypeOK /\ FirstBindingWins /\ told \in Seq(Answers)
  BY DEF Inv
<1>2. /\ bx' \in Answers /\ DOMAIN bx' = DOMAIN bx \cup DOMAIN answer
      /\ \A i \in DOMAIN bx : bx'[i] = bx[i]
      /\ \A i \in DOMAIN answer \ DOMAIN bx : bx'[i] = answer[i]
  BY <1>1, CollectIs DEF TypeOK
<1> DEFINE n == Len(told) + 1
<1>3. /\ told' \in Seq(Answers) /\ DOMAIN told' = DOMAIN told \cup {n} /\ n \notin DOMAIN told
      /\ told'[n] = answer /\ \A k \in DOMAIN told : told'[k] = told[k]
      /\ DOMAIN told = 1..(n - 1)
  BY <1>1
<1> HIDE DEF n
<1>4. ASSUME NEW i \in BxId
      PROVE  i \in DOMAIN bx' <=>
               i \in DOMAIN bx_data' \/ \E k \in DOMAIN told' : i \in DOMAIN told'[k]
  BY <1>1, <1>2, <1>3 DEF FirstBindingWins
<1>5. ASSUME NEW i \in BxId, i \in DOMAIN bx_data' PROVE bx'[i] = bx_data'[i]
  BY <1>1, <1>2, <1>5 DEF FirstBindingWins
<1>6. ASSUME NEW i \in BxId, i \notin DOMAIN bx_data', NEW k \in DOMAIN told',
             i \in DOMAIN told'[k], \A j \in 1..(k - 1) : i \notin DOMAIN told'[j]
      PROVE  bx'[i] = told'[k][i]
  <2>1. CASE k \in DOMAIN told
    <3>1. k \in 1..(n - 1) /\ \A j \in 1..(k - 1) : j \in DOMAIN told
      BY <2>1, <1>3, <1>1 DEF n
    <3>2. i \in DOMAIN told[k] /\ \A j \in 1..(k - 1) : i \notin DOMAIN told[j]
      BY <2>1, <3>1, <1>3, <1>6
    <3>3. i \in DOMAIN bx /\ bx[i] = told[k][i]
      BY <2>1, <3>2, <1>1, <1>6 DEF FirstBindingWins
    <3> QED BY <2>1, <3>3, <1>2, <1>3
  <2>2. CASE k = n
    <3>1. \A j \in DOMAIN told : i \notin DOMAIN told[j]
      BY <2>2, <1>3, <1>6
    <3>2. i \notin DOMAIN bx
      BY <3>1, <1>1, <1>6 DEF FirstBindingWins
    <3> QED BY <2>2, <3>2, <1>2, <1>3, <1>6
  <2> QED BY <2>1, <2>2, <1>3
<1> QED BY <1>2, <1>3, <1>4, <1>5, <1>6 DEF FirstBindingWins

\* What a failed request does to the record.
LEMMA FailureInv ==
  ASSUME Inv, pc = "ask", failures' = failures \cup {<<MODULE_PARAMS[param], rounds>>}
  PROVE  IsFiniteSet(failures') /\ Size(Unanswered') = failed_requests + 1
<1> DEFINE f == <<MODULE_PARAMS[param], rounds>>
<1>1. Recorded /\ param \in 1..2 /\ rounds \in Nat /\ failed_requests \in Nat
  BY ResolveAssumption DEF Inv, TypeOK
<1>2. f[1] = MODULE_PARAMS[param] /\ f[2] = rounds
  OBVIOUS
<1> HIDE DEF f
<1>3. OfRequest(f)
  BY <1>1, <1>2, Params DEF OfRequest
<1>4. f \notin Unanswered
  <2> SUFFICES ASSUME f \in Unanswered PROVE FALSE
    OBVIOUS
  <2>1. PICK j \in 1..(param - 1) : f[1] = MODULE_PARAMS[j]
    BY <1>1, <1>2 DEF Recorded
  <2>2. j = 1 /\ param = 2
    BY <1>1, <2>1
  <2> QED BY <2>1, <2>2, <1>2, Params
<1>5. failures' = failures \cup {f}
  BY DEF f
<1>6. Unanswered' = Unanswered \cup {f}
  BY <1>3, <1>5 DEF Unanswered, OfRequest
<1>7. IsFiniteSet(Unanswered) /\ IsFiniteSet(failures)
  <2>1. Unanswered \in SUBSET failures /\ IsFiniteSet(failures)
    BY <1>1 DEF Unanswered, Recorded
  <2> QED BY <2>1, FS_Subset
<1>8. IsFiniteSet(failures')
  BY <1>5, <1>7, FS_AddElement
<1>9. Cardinality(Unanswered \cup {f}) = Cardinality(Unanswered) + 1
  BY <1>4, <1>7, FS_AddElement
<1> QED BY <1>1, <1>6, <1>8, <1>9 DEF Recorded, Size

LEMMA AskInv == Inv /\ Ask => Inv'
<1> SUFFICES ASSUME Inv, Ask PROVE Inv'
  OBVIOUS
<1>1. /\ TypeOK /\ FirstBindingWins /\ told \in Seq(Answers)
      /\ Counted /\ Gained /\ Recorded /\ Said
  BY DEF Inv
<1>2. /\ pc = "ask" /\ requests' = requests + 1
      /\ UNCHANGED <<bx_data, endpoint, deferred, scanned, before, observed_ids, by_id, urls>>
  BY DEF Ask, page, outcome
<1>3. \/ /\ param = 1 /\ param' = 2 /\ UNCHANGED <<pc, rounds>>
      \/ /\ param = 2 /\ UNCHANGED param /\ rounds' = rounds + 1
         /\ pc' = IF Size(DOMAIN bx') = before THEN "finish" ELSE "round"
  <2>1. param \in 1..2
    BY <1>1 DEF TypeOK
  <2>2. CASE param = 1
    <3>1. param < Len(MODULE_PARAMS)
      BY <2>2, Params
    <3>2. param' = param + 1 /\ UNCHANGED <<pc, rounds>>
      BY <3>1 DEF Ask
    <3> QED BY <2>2, <3>2
  <2>3. CASE param = 2
    <3>1. ~(param < Len(MODULE_PARAMS))
      BY <2>3, Params
    <3>2. UNCHANGED param /\ EndOfRound
      BY <3>1 DEF Ask
    <3> QED BY <2>3, <3>2 DEF EndOfRound, Size
  <2> QED BY <2>1, <2>2, <2>3
<1>4. /\ rounds \in Nat /\ requests \in Nat /\ failed_requests \in 0..requests
      /\ rounds < max_rounds /\ max_rounds \in Nat /\ before \in Nat
      /\ requests = 2 * rounds + (param - 1)
  BY <1>1, <1>2, ResolveAssumption DEF TypeOK, Counted
<1>5. \/ /\ \E answer \in Answers : bx' = Collect(bx, answer) /\ told' = Append(told, answer)
         /\ UNCHANGED <<failed_requests, failures>>
      \/ /\ failed_requests' = failed_requests + 1
         /\ failures' = failures \cup {<<MODULE_PARAMS[param], rounds>>}
         /\ UNCHANGED <<bx, told>>
  BY DEF Ask
<1>6. /\ bx' \in Answers /\ DOMAIN bx \subseteq DOMAIN bx'
      /\ FirstBindingWins' /\ (told \in Seq(Answers))'
  <2>1. CASE \E answer \in Answers : bx' = Collect(bx, answer) /\ told' = Append(told, answer)
    BY <2>1, <1>2, AnswerInv
  <2>2. CASE UNCHANGED <<bx, told>>
    BY <2>2, <1>1, <1>2 DEF TypeOK, FirstBindingWins
  <2> QED BY <1>5, <2>1, <2>2
<1>7. /\ Size(DOMAIN bx_data) \in Nat /\ Size(DOMAIN bx) \in Nat /\ Size(DOMAIN bx') \in Nat
      /\ Size(DOMAIN bx) <= Size(DOMAIN bx')
  <2>1. DOMAIN bx' \subseteq BxId /\ DOMAIN bx_data \subseteq DOMAIN bx
    BY <1>1, <1>6, MapIs DEF Answers, Gained
  <2>2. /\ Size(DOMAIN bx) \in Nat /\ Size(DOMAIN bx') \in Nat
        /\ Size(DOMAIN bx) <= Size(DOMAIN bx')
    BY <2>1, <1>6, Sizes
  <2>3. DOMAIN bx_data \subseteq DOMAIN bx' /\ DOMAIN bx' \subseteq BxId
    BY <2>1, <1>6
  <2>4. Size(DOMAIN bx_data) \in Nat
    BY <2>3, Sizes
  <2> QED BY <2>2, <2>4
<1>8. Counted'
  BY <1>2, <1>3, <1>4 DEF Counted
<1>9. Gained'
  <2>1. /\ DOMAIN bx_data \subseteq DOMAIN bx /\ before <= Size(DOMAIN bx)
        /\ rounds + Size(DOMAIN bx_data) <= before
    BY <1>1, <1>2 DEF Gained
  <2>2. CASE param = 1
    BY <2>1, <2>2, <1>2, <1>3, <1>4, <1>6, <1>7 DEF Gained, Size
  <2>3. CASE param = 2
    BY <2>1, <2>3, <1>2, <1>3, <1>4, <1>6, <1>7 DEF Gained, Size
  <2> QED BY <2>2, <2>3, <1>3
<1>10. Recorded'
  <2>1. IsFiniteSet(failures') /\ failed_requests' = Size(Unanswered')
    <3>1. CASE UNCHANGED <<failed_requests, failures>>
      BY <3>1, <1>1 DEF Recorded, Unanswered, OfRequest
    <3>2. CASE failed_requests' = failed_requests + 1
               /\ failures' = failures \cup {<<MODULE_PARAMS[param], rounds>>}
      BY <3>2, <1>2, FailureInv
    <3> QED BY <1>5, <3>1, <3>2
  <2>2. ASSUME NEW f \in Unanswered'
        PROVE  f \in Unanswered \/ (f[1] = MODULE_PARAMS[param] /\ f[2] = rounds)
    <3>1. f \in failures' /\ OfRequest(f)
      BY <2>2 DEF Unanswered, OfRequest
    <3>2. f \in failures \/ f = <<MODULE_PARAMS[param], rounds>>
      BY <1>5, <3>1
    <3> QED BY <3>1, <3>2 DEF Unanswered
  <2>3. ASSUME NEW f \in Unanswered'
        PROVE  /\ f[2] \in Nat
               /\ f[2] < rounds \/ (f[2] = rounds /\ \E j \in 1..param : f[1] = MODULE_PARAMS[j])
    <3>1. CASE f \in Unanswered
      <4>1. /\ f[2] \in Nat
            /\ \/ f[2] < rounds
               \/ f[2] = rounds /\ \E j \in 1..(param - 1) : f[1] = MODULE_PARAMS[j]
        BY <3>1, <1>1 DEF Recorded
      <4>2. 1..(param - 1) \subseteq 1..param
        BY <1>3
      <4> QED BY <4>1, <4>2
    <3>2. CASE f[1] = MODULE_PARAMS[param] /\ f[2] = rounds
      <4>1. param \in 1..param
        BY <1>3
      <4> QED BY <3>2, <4>1, <1>4
    <3> QED BY <2>2, <3>1, <3>2
  <2>4. CASE param = 1
    <3>1. 1..param = 1..(param' - 1) /\ UNCHANGED <<pc, rounds>>
      BY <2>4, <1>3
    <3> QED BY <2>1, <2>3, <3>1, <1>2 DEF Recorded
  <2>5. CASE param = 2
    <3>1. rounds' = rounds + 1
      BY <2>5, <1>3
    <3>2. \A f \in Unanswered' : f[2] \in Nat /\ f[2] < rounds'
      BY <2>3, <3>1, <1>4
    <3> QED BY <2>1, <3>2 DEF Recorded
  <2> QED BY <2>4, <2>5, <1>3
<1>11. TypeOK'
  <2>1. rounds' \in 0..max_rounds /\ param' \in 1..2 /\ requests' \in 0..2 * max_rounds
    BY <1>2, <1>3, <1>4
  <2>2. failed_requests' \in 0..requests'
    BY <1>2, <1>4, <1>5
  <2>3. pc' \in {"start", "round", "ask", "finish", "done"}
    BY <1>2, <1>3
  <2> QED BY <1>1, <1>2, <1>6, <2>1, <2>2, <2>3 DEF TypeOK
<1>12. Said'
  <2>1. failures \subseteq failures'
    BY <1>5
  <2>2. pc' # "start" /\ requests' # 0
    BY <1>2, <1>3, <1>4
  <2> QED BY <2>1, <2>2, <1>1, <1>2 DEF Said, Capped
<1>13. Returned'
  BY <1>2, <1>3 DEF Returned
<1> QED BY <1>6, <1>8, <1>9, <1>10, <1>11, <1>12, <1>13 DEF Inv

LEMMA InvHolds == Spec => []Inv
<1>1. Inv /\ UNCHANGED vars => Inv'
  BY DEF Inv, vars, page, outcome, TypeOK, FirstBindingWins, Counted, Gained, Recorded, Said,
         Unanswered, OfRequest, Capped, Returned
<1>2. Inv /\ [Next]_vars => Inv'
  BY <1>1, BeginInv, RoundInv, AskInv, FinishInv DEF Next
<1> QED BY <1>2, InitInv, PTL DEF Spec

-----------------------------------------------------------------------------
(* The types of the state of resolve_wasm_with, its caps on rounds and        *)
(* requests included (bootloader.rs:59-60).                                   *)
THEOREM TypeCorrect == Spec => []TypeOK
<1>1. Inv => TypeOK
  BY DEF Inv
<1> QED BY <1>1, InvHolds, PTL

(* An id keeps the URL the page gave it, or else the first answer that        *)
(* mentions it (discover.rs:451-453), for any page and any answers.           *)
THEOREM FirstBindingStands == Spec => []FirstBindingWins
<1>1. Inv => FirstBindingWins
  BY DEF Inv
<1> QED BY <1>1, InvHolds, PTL

(* Two requests to a round, and no round after one that brought no new id     *)
(* (bootloader.rs:160-179), however large the cap.                            *)
THEOREM AskingEnds == Spec => []RequestsAreBounded
<1>1. Inv => RequestsAreBounded
  <2> SUFFICES ASSUME Inv PROVE RequestsAreBounded
    OBVIOUS
  <2>1. DOMAIN bx_data \subseteq DOMAIN bx /\ DOMAIN bx \subseteq BxId
    BY MapIs DEF Inv, TypeOK, Answers, Gained
  <2>2. /\ Size(DOMAIN bx_data) \in Nat /\ Size(DOMAIN bx) \in Nat
        /\ Size(DOMAIN bx \ DOMAIN bx_data) = Size(DOMAIN bx) - Size(DOMAIN bx_data)
    BY <2>1, Sizes
  <2>3. rounds \in Nat /\ rounds + Size(DOMAIN bx_data) <= Size(DOMAIN bx) + 1
    BY ResolveAssumption DEF Inv, TypeOK, Gained
  <2>4. rounds <= 1 + Size(DOMAIN bx \ DOMAIN bx_data)
    BY <2>2, <2>3
  <2>5. rounds <= max_rounds
    BY ResolveAssumption DEF Inv, TypeOK
  <2> QED BY <2>4, <2>5 DEF Inv, Counted, RequestsAreBounded, Size
<1> QED BY <1>1, InvHolds, PTL

(* A resolution that did not ask for everything, or was not answered every    *)
(* time, has recorded why, each failed request on its own (bootloader.rs:     *)
(* 94-96, 142, 186-189).                                                      *)
THEOREM DegradationIsRecorded == Spec => []NothingIsSilent
<1>1. Inv => NothingIsSilent
  <2> SUFFICES ASSUME Inv, pc = "done" PROVE NothingIsSilent
    BY DEF NothingIsSilent
  <2>1. Recorded /\ Said
    BY DEF Inv
  <2>2. failed_requests = Cardinality(Unanswered)
    BY <2>1 DEF Recorded, Size
  <2>3. failed_requests > 0 => failures # {}
    <3> SUFFICES ASSUME failures = {} PROVE failed_requests = 0
      OBVIOUS
    <3>1. Unanswered = {}
      BY DEF Unanswered
    <3> QED BY <2>2, <3>1, FS_EmptySet
  <2>4. requests = 0 \/ Capped => failures # {}
    BY <2>1 DEF Said
  <2> QED BY <2>2, <2>3, <2>4 DEF NothingIsSilent, Unanswered, OfRequest
<1> QED BY <1>1, InvHolds, PTL

(* Whatever became of the requests, the outcome is one WasmLock's LoadWasm may *)
(* choose (main.rs:1592-1612): the page's bindings and some for other ids,     *)
(* those accepted, and every id that was mentioned.                            *)
THEOREM OutcomeIsLoadable == Spec => []OutcomeOfLoadWasm
<1>1. Inv => OutcomeOfLoadWasm
  <2> SUFFICES ASSUME Inv, pc = "done" PROVE OutcomeOfLoadWasm
    BY DEF OutcomeOfLoadWasm
  <2>1. /\ observed_ids = DOMAIN bx /\ by_id = ById(bx)
        /\ urls = Image(ById(bx)) \cup (scanned \cap Accepted)
    BY DEF Inv, Returned
  <2>2. /\ bx \in Answers /\ bx_data \in Answers /\ told \in Seq(Answers) /\ FirstBindingWins
        /\ DOMAIN bx_data \subseteq DOMAIN bx
    BY DEF Inv, TypeOK, Gained
  <2>3. /\ bx \in [DOMAIN bx -> Url] /\ DOMAIN bx \subseteq BxId
        /\ \A i \in DOMAIN bx_data : bx_data[i] = bx[i]
    BY <2>2, MapIs DEF Answers, FirstBindingWins
  <2> DEFINE New == DOMAIN bx \ DOMAIN bx_data
             more == [i \in New |-> bx[i]]
  <2>4. more \in PartialMap(BxId \ DOMAIN bx_data, Url)
    <3>1. more \in [New -> Url] /\ New \in SUBSET (BxId \ DOMAIN bx_data)
      BY <2>3
    <3> HIDE DEF New, more
    <3> QED BY <3>1, IsMap
  <2>5. Extend(bx_data, more) = bx
    <3>1. DOMAIN more = New /\ DOMAIN bx_data \cup New = DOMAIN bx
      BY <2>2
    <3>2. Extend(bx_data, more) = [i \in DOMAIN bx |-> bx[i]]
      BY <3>1, <2>3 DEF Extend
    <3>3. bx = [i \in DOMAIN bx |-> bx[i]]
      BY <2>3
    <3> QED BY <3>2, <3>3
  <2> HIDE DEF more
  <2>6. ASSUME NEW k \in DOMAIN told PROVE DOMAIN told[k] \subseteq observed_ids
    <3>1. DOMAIN told[k] \subseteq BxId
      BY <2>2, MapIs DEF Answers
    <3> QED BY <3>1, <2>1, <2>2 DEF FirstBindingWins
  <2> QED BY <2>1, <2>4, <2>5, <2>6 DEF OutcomeOfLoadWasm
<1> QED BY <1>1, InvHolds, PTL
=============================================================================
