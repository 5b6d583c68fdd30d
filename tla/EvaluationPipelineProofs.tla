----------------------- MODULE EvaluationPipelineProofs -----------------------
(***************************************************************************)
(* What holds of EvaluationPipeline for every set of machines, orders,     *)
(* rates and record lists, and every bound.                                *)
(***************************************************************************)
EXTENDS EvaluationPipeline, WellFoundedInduction, TLAPS

-----------------------------------------------------------------------------
(* Looking a record up.                                                    *)

\* A nonempty set of positions of a list has a last one.
LEMMA LastPosition ==
    ASSUME NEW n \in Nat, NEW S \in SUBSET (1 .. n), S # {}
    PROVE  \E i \in S : \A j \in S : j <= i
<1> DEFINE D == {n - i : i \in S}
<1>1. D \subseteq Nat /\ D # {}
  <2>1. D \subseteq Nat
    <3>1. \A i \in S : n - i \in Nat
      OBVIOUS
    <3> QED BY <3>1
  <2>2. PICK k \in S : TRUE
    OBVIOUS
  <2>3. n - k \in D
    OBVIOUS
  <2> HIDE DEF D
  <2> QED BY <2>1, <2>3
<1>2. PICK x \in D : \A y \in D : ~ (<<y, x>> \in OpToRel(<, Nat))
  <2> HIDE DEF D
  <2> QED BY <1>1, NatLessThanWellFounded, WFMin
<1>3. \A y \in D : ~ (y < x)
  <2> HIDE DEF D
  <2> QED BY <1>1, <1>2 DEF OpToRel
<1>4. PICK i \in S : x = n - i
  BY <1>2
<1>5. ASSUME NEW j \in S PROVE j <= i
  <2>1. n - j \in D
    OBVIOUS
  <2>2. ~ (n - j < n - i)
    BY <2>1, <1>3, <1>4
  <2> QED BY <2>2
<1> QED BY <1>5

\* The row of an order in a list is its last record there.
LEMMA RowIsLast ==
    ASSUME NEW rows \in Seq(Record), NEW order, Found(rows, order)
    PROVE  \E i \in DOMAIN rows :
             /\ Row(rows, order) = rows[i] /\ rows[i] \in Record
             /\ DecidedBy(rows, order, i)
             /\ \A j \in DOMAIN rows : DecidedBy(rows, order, j) => j = i
<1> DEFINE S == {i \in DOMAIN rows : rows[i].order = order}
<1>1. S \in SUBSET (1 .. Len(rows)) /\ S # {} /\ Len(rows) \in Nat
  BY DEF Found
<1>2. PICK k \in S : \A j \in S : j <= k
  <2> HIDE DEF S
  <2> QED BY <1>1, LastPosition
<1>3. \E i \in DOMAIN rows : rows[i].order = order /\ Last(rows, i)
  <2>1. ASSUME NEW j \in DOMAIN rows, k < j, rows[j].order = rows[k].order PROVE FALSE
    BY <1>2, <2>1
  <2> QED BY <1>2, <2>1 DEF Last
<1> DEFINE i == CHOOSE j \in DOMAIN rows : rows[j].order = order /\ Last(rows, j)
<1>4. i \in DOMAIN rows /\ rows[i].order = order /\ Last(rows, i)
  BY <1>3
<1>5. Row(rows, order) = rows[i]
  BY DEF Row
<1> HIDE DEF i
<1>6. rows[i] \in Record
  BY <1>4
<1>7. ASSUME NEW j \in DOMAIN rows, rows[j].order = order PROVE j <= i
  BY <1>4, <1>7 DEF Last
<1>8. DecidedBy(rows, order, i)
  BY <1>4, <1>7 DEF DecidedBy
<1>9. ASSUME NEW j \in DOMAIN rows, DecidedBy(rows, order, j) PROVE j = i
  <2>1. j <= i /\ i <= j
    BY <1>4, <1>7, <1>9 DEF DecidedBy
  <2> QED BY <2>1, <1>4
<1> QED BY <1>4, <1>5, <1>6, <1>8, <1>9

\* `amount` is the ten-thousandth part of `product`, rounded down.
IsFloor(amount, product) ==
    10000 * amount <= product /\ product < 10000 * (amount + 1)

LEMMA FloorOfProduct ==
    ASSUME NEW product \in Nat
    PROVE  product \div 10000 \in Nat /\ IsFloor(product \div 10000, product)
BY DEF IsFloor

\* The commission is the floor of the exact quotient.
LEMMA CommissionIsFloor ==
    ASSUME NEW net \in Nat, NEW bps \in Nat
    PROVE  Commission(net, bps) \in Nat /\ IsFloor(Commission(net, bps), net * bps)
<1> DEFINE p == net * bps
<1>1. p \in Nat
  OBVIOUS
<1>2. Commission(net, bps) = p \div 10000
  BY DEF Commission
<1> HIDE DEF p
<1>3. Commission(net, bps) \in Nat /\ IsFloor(Commission(net, bps), p)
  BY <1>1, <1>2, FloorOfProduct
<1> QED BY <1>3 DEF p

\* A request field is what Request says.
LEMMA RequestFields ==
    ASSUME NEW request \in Request
    PROVE  /\ request.order \in Orders /\ request.bps \in Nat
           /\ request.terms \in Terms /\ request.parses \in BOOLEAN
BY RateAssumption DEF Request

\* Whatever the records and the request, the extension makes an answer.
LEMMA EvaluateType ==
    ASSUME NEW rows \in Seq(Record), NEW request \in Request
    PROVE  Evaluate(rows, request) \in Answer
<1> DEFINE row == Row(rows, request.order)
<1>1. request.order \in Orders /\ request.bps \in Nat /\ request.terms \in Terms
  BY RequestFields
<1>2. Error(request) \in Answer /\ Result(request, 0, 0) \in Answer
  BY <1>1 DEF Error, Result, Answer
<1>3. ASSUME Found(rows, request.order)
      PROVE  Result(request, 1, Commission(row.net, request.bps)) \in Answer
  <2>1. row.net \in Nat
    BY <1>3, RowIsLast DEF Record
  <2> HIDE DEF row
  <2>2. Commission(row.net, request.bps) \in Nat
    BY <1>1, <2>1, CommissionIsFloor, Zenon
  <2>3. ASSUME NEW amount \in Nat PROVE Result(request, 1, amount) \in Answer
    BY <1>1 DEF Result, Answer
  <2> QED BY <2>2, <2>3
<1> QED BY <1>2, <1>3 DEF Evaluate

-----------------------------------------------------------------------------
(* Types.                                                                  *)

\* Each variable keeps its type: every signature is over a well-formed answer, with
\* a status, a code and a natural amount.
THEOREM PipelineTypes == PipelineSpec => []PipelineTypeOK
<1>1. PipelineInit => PipelineTypeOK
  BY DEF PipelineInit, PipelineTypeOK
<1>2. PipelineTypeOK /\ [PipelineNext]_pipeline => PipelineTypeOK'
  <2> SUFFICES ASSUME PipelineTypeOK, [PipelineNext]_pipeline PROVE PipelineTypeOK'
    OBVIOUS
  <2> USE DEF PipelineTypeOK
  <2>1. CASE UNCHANGED pipeline
    BY <2>1 DEF pipeline
  <2>2. ASSUME NEW sender \in Senders, RegisterExtension(sender) PROVE PipelineTypeOK'
    BY <2>2 DEF RegisterExtension
  <2>3. ASSUME NEW id \in Ids, NEW tees \in SUBSET Tees, ActiveSetChanges(id, tees)
        PROVE  PipelineTypeOK'
    BY <2>3 DEF ActiveSetChanges
  <2>4. CASE SetExtensionId
    <3>1. Ids \subseteq Nat
      BY IdAssumption, BoundAssumption DEF Ids
    <3> QED BY <2>4, <3>1 DEF SetExtensionId
  <2>5. ASSUME NEW t \in Tees, NEW request \in Request, SendEvaluation(t, request)
        PROVE  PipelineTypeOK'
    <3>1. [tee |-> t, request |-> request] \in Instruction
      BY DEF Instruction
    <3> QED BY <2>5, <3>1 DEF SendEvaluation
  <2>6. ASSUME NEW t \in Tees, NEW rows \in RecordLists, StartExtension(t, rows)
        PROVE  PipelineTypeOK'
    BY <2>6 DEF StartExtension
  <2>7. ASSUME NEW t \in Tees, StopExtension(t) PROVE PipelineTypeOK'
    BY <2>7 DEF StopExtension
  <2>8. ASSUME NEW t \in Tees, NEW i \in DOMAIN sent, HandleAction(t, i)
        PROVE  PipelineTypeOK'
    <3>1. sent[i].request \in Request /\ i \in Nat
      <4>1. sent[i] \in Instruction /\ i \in Nat
        BY <2>8
      <4> QED BY <4>1 DEF Instruction
    <3>2. records[t] \in Seq(Record)
      BY <2>8, RecordsAssumption DEF HandleAction, Running
    <3>3. Evaluate(records[t], sent[i].request) \in Answer
      BY <3>1, <3>2, EvaluateType
    <3>4. [tee |-> t, instruction |-> i,
           answer |-> Evaluate(records[t], sent[i].request)] \in Signature
      BY <3>1, <3>3 DEF Signature
    <3> QED BY <2>8, <3>4 DEF HandleAction
  <2> QED BY <2>1, <2>2, <2>3, <2>4, <2>5, <2>6, <2>7, <2>8 DEF PipelineNext
<1> QED BY <1>1, <1>2, PTL DEF PipelineSpec

-----------------------------------------------------------------------------
(* The instruction sender.                                                 *)

\* The sender's extension is, for good, the first one registered for it.
THEOREM FirstOwn == PipelineSpec => []ExtensionIsFirstOwn
<1>1. PipelineInit => ExtensionIsFirstOwn
  BY DEF PipelineInit, ExtensionIsFirstOwn
<1>2. PipelineTypeOK /\ ExtensionIsFirstOwn /\ [PipelineNext]_pipeline
        => ExtensionIsFirstOwn'
  <2> SUFFICES ASSUME PipelineTypeOK, ExtensionIsFirstOwn, [PipelineNext]_pipeline,
                      extensionId' # 0
               PROVE  ExtensionIsFirstOwn'
    BY DEF ExtensionIsFirstOwn
  <2> USE DEF ExtensionIsFirstOwn
  <2>1. CASE UNCHANGED <<registry, extensionId>>
    BY <2>1
  <2>2. ASSUME NEW sender \in Senders, RegisterExtension(sender)
        PROVE  ExtensionIsFirstOwn'
    <3>1. extensionId' = extensionId /\ registry' = Append(registry, sender)
      BY <2>2 DEF RegisterExtension
    <3>2. registry \in Seq(Senders) /\ extensionId \in Nat /\ FirstId \in Nat
      BY IdAssumption DEF PipelineTypeOK
    <3>3. extensionId - FirstId + 1 \in 1 .. Len(registry)
      BY <3>1, <3>2
    <3>4. \A i \in 1 .. Len(registry) : registry'[i] = registry[i]
      BY <3>1, <3>2
    <3>5. ASSUME NEW i \in DOMAIN registry', registry'[i] = Self
          PROVE  extensionId <= FirstId + i - 1
      <4>1. CASE i \in 1 .. Len(registry)
        BY <3>1, <3>2, <3>4, <3>5, <4>1
      <4>2. CASE i = Len(registry) + 1
        BY <3>2, <3>3, <4>2
      <4> QED BY <3>1, <3>2, <4>1, <4>2
    <3>6. extensionId - FirstId + 1 \in DOMAIN registry'
      BY <3>1, <3>2, <3>3
    <3>7. registry'[extensionId - FirstId + 1] = Self
      BY <3>1, <3>3, <3>4
    <3> QED BY <3>1, <3>5, <3>6, <3>7
  <2>3. CASE SetExtensionId
    <3>1. PICK id \in Ids : Owned(id) /\ Lowest(id) /\ extensionId' = id
      BY <2>3 DEF SetExtensionId
    <3>2. registry' = registry /\ registry \in Seq(Senders)
      BY <2>3 DEF SetExtensionId, PipelineTypeOK
    <3>3. id \in Nat /\ FirstId \in Nat /\ FirstId <= id
      BY IdAssumption, BoundAssumption DEF Ids
    <3>4. ASSUME NEW i \in DOMAIN registry, registry[i] = Self
          PROVE  id <= FirstId + i - 1
      <4>1. i \in Nat /\ i >= 1
        BY <3>2
      <4>2. (FirstId + i - 1) - FirstId + 1 = i
        BY <3>3, <4>1
      <4>3. Owned(FirstId + i - 1)
        BY <3>4, <4>2 DEF Owned
      <4>4. ~ (FirstId + i - 1 \in FirstId .. (id - 1))
        BY <3>1, <4>3 DEF Lowest
      <4> QED BY <3>3, <4>1, <4>4
    <3> QED BY <3>1, <3>2, <3>4 DEF Owned
  <2> QED BY <2>1, <2>2, <2>3 DEF PipelineNext, pipeline, ActiveSetChanges, SendEvaluation,
             StartExtension, StopExtension, HandleAction
<1> QED BY <1>1, <1>2, PipelineTypes, PTL DEF PipelineSpec

-----------------------------------------------------------------------------
(* What a signature says.                                                  *)

\* Every signature is over what its machine computes, from the records it has, for
\* the request of the instruction, also long after it was made: this is what the
\* exactness of the results rests on.
SignedAsEvaluated ==
    \A x \in signed :
        /\ x.instruction \in DOMAIN sent
        /\ sent[x.instruction].tee = x.tee
        /\ records[x.tee] \in RecordLists
        /\ x.answer = Evaluate(records[x.tee], sent[x.instruction].request)

\* Instructions are never rewritten and a machine never gets other records, so a
\* signature keeps saying what its machine would say.
THEOREM Evaluated == PipelineSpec => []SignedAsEvaluated
<1>1. PipelineInit => SignedAsEvaluated
  BY DEF PipelineInit, SignedAsEvaluated
<1>2. PipelineTypeOK /\ SignedAsEvaluated /\ [PipelineNext]_pipeline => SignedAsEvaluated'
  <2> SUFFICES ASSUME PipelineTypeOK, SignedAsEvaluated, [PipelineNext]_pipeline
               PROVE  SignedAsEvaluated'
    OBVIOUS
  <2>1. CASE UNCHANGED <<records, sent, signed>>
    BY <2>1 DEF SignedAsEvaluated
  <2>2. ASSUME NEW t \in Tees, NEW request \in Request, SendEvaluation(t, request)
        PROVE  SignedAsEvaluated'
    <3>1. UNCHANGED <<records, signed>> /\ sent \in Seq(Instruction)
      BY <2>2 DEF SendEvaluation, PipelineTypeOK
    <3>2. sent' = Append(sent, [tee |-> t, request |-> request])
      BY <2>2 DEF SendEvaluation
    <3>3. \A i \in DOMAIN sent : i \in DOMAIN sent' /\ sent'[i] = sent[i]
      BY <3>1, <3>2
    <3> QED BY <3>1, <3>3 DEF SignedAsEvaluated
  <2>3. ASSUME NEW t \in Tees, NEW rows \in RecordLists, StartExtension(t, rows)
        PROVE  SignedAsEvaluated'
    <3>1. UNCHANGED <<sent, signed>> /\ records[t] = Off
      BY <2>3 DEF StartExtension, Loads
    <3>2. records' = [records EXCEPT ![t] = rows] /\ Off \notin RecordLists
      BY <2>3, MachineAssumption, RecordsAssumption DEF StartExtension
    <3>3. ASSUME NEW x \in signed PROVE records'[x.tee] = records[x.tee]
      <4>1. x.tee \in Tees /\ x.tee # t
        BY <3>1, <3>2 DEF SignedAsEvaluated, PipelineTypeOK, Signature
      <4> QED BY <3>2, <4>1 DEF PipelineTypeOK
    <3> QED BY <3>1, <3>3 DEF SignedAsEvaluated
  <2>4. ASSUME NEW t \in Tees, NEW i \in DOMAIN sent, HandleAction(t, i)
        PROVE  SignedAsEvaluated'
    <3>1. UNCHANGED <<sent, records>> /\ sent[i].tee = t
      BY <2>4 DEF HandleAction
    <3>2. signed' = signed \cup {[tee |-> t, instruction |-> i,
                                  answer |-> Evaluate(records[t], sent[i].request)]}
      BY <2>4 DEF HandleAction
    <3>3. records[t] \in RecordLists
      BY <2>4 DEF HandleAction, Running, PipelineTypeOK
    <3> QED BY <3>1, <3>2, <3>3 DEF SignedAsEvaluated
  <2> QED BY <2>1, <2>2, <2>3, <2>4 DEF PipelineNext, pipeline, RegisterExtension,
             ActiveSetChanges, SetExtensionId, StopExtension
<1> QED BY <1>1, <1>2, PipelineTypes, PTL DEF PipelineSpec

\* What ResultsAreExact says of one answer.
ExactAnswer(rows, q, a) ==
    /\ a.order = q.order /\ a.terms = q.terms
    /\ a.eligibilityCode = 1 =>
         \E i \in DOMAIN rows :
           /\ DecidedBy(rows, q.order, i)
           /\ ~rows[i].refunded
           /\ IsFloor(a.amount, rows[i].net * q.bps)
    /\ a.eligibilityCode = 0 =>
         /\ a.amount = 0
         /\ \A i \in DOMAIN rows : DecidedBy(rows, q.order, i) => rows[i].refunded

\* An answer with status 1 carries the order and the terms of the request, and its
\* amount and code are what the last record of the order earns.
LEMMA ResultIsExact ==
    ASSUME NEW rows \in Seq(Record), NEW q \in Request, Evaluate(rows, q).status = 1
    PROVE  ExactAnswer(rows, q, Evaluate(rows, q))
<1> USE DEF ExactAnswer
<1> DEFINE row == Row(rows, q.order)
<1>1. ~ (~q.parses \/ q.bps > 10000)
  BY DEF Evaluate, Error
<1>2. CASE ~Found(rows, q.order)
  <2>1. Evaluate(rows, q) = Result(q, 0, 0)
    BY <1>1, <1>2 DEF Evaluate
  <2>2. \A i \in DOMAIN rows : ~DecidedBy(rows, q.order, i)
    BY <1>2 DEF Found, DecidedBy
  <2> QED BY <2>1, <2>2 DEF Result
<1>3. CASE Found(rows, q.order)
  <2>1. PICK i \in DOMAIN rows :
          /\ row = rows[i] /\ rows[i] \in Record
          /\ DecidedBy(rows, q.order, i)
          /\ \A j \in DOMAIN rows : DecidedBy(rows, q.order, j) => j = i
    BY <1>3, RowIsLast
  <2>2. CASE ~Earns(row)
    <3>1. Evaluate(rows, q) = Result(q, 0, 0)
      BY <1>1, <2>2 DEF Evaluate
    <3>2. \A j \in DOMAIN rows : DecidedBy(rows, q.order, j) => rows[j].refunded
      BY <2>1, <2>2 DEF Earns, Record
    <3> QED BY <3>1, <3>2 DEF Result
  <2>3. CASE Earns(row)
    <3>1. row.readable
      BY <1>1, <1>3, <2>3 DEF Evaluate, Error
    <3>2. Evaluate(rows, q) = Result(q, 1, Commission(row.net, q.bps))
      BY <1>1, <1>3, <2>3, <3>1 DEF Evaluate
    <3>3. row.net \in Nat /\ q.bps \in Nat
      BY <2>1, RequestFields DEF Record
    <3>4. IsFloor(Commission(row.net, q.bps), row.net * q.bps)
      BY <3>3, CommissionIsFloor, Zenon
    <3>5. ~rows[i].refunded
      BY <2>1, <2>3 DEF Earns
    <3> HIDE DEF row
    <3> QED BY <2>1, <3>2, <3>4, <3>5 DEF Result
  <2> QED BY <2>2, <2>3
<1> QED BY <1>2, <1>3

\* Signed results are exact: no rounding, no mixing up of orders or terms, no other
\* record than the last one of the order.
THEOREM Exact == PipelineSpec => []ResultsAreExact
<1>1. PipelineTypeOK /\ SignedAsEvaluated => ResultsAreExact
  <2> SUFFICES ASSUME PipelineTypeOK, SignedAsEvaluated, NEW x \in signed,
                      x.answer.status = 1
               PROVE  ExactAnswer(records[x.tee], sent[x.instruction].request, x.answer)
    BY DEF ResultsAreExact, ExactAnswer, IsFloor
  <2>1. records[x.tee] \in Seq(Record)
    BY RecordsAssumption DEF SignedAsEvaluated
  <2>2. sent[x.instruction].request \in Request
    <3>1. x.instruction \in DOMAIN sent /\ sent \in Seq(Instruction)
      BY DEF SignedAsEvaluated, PipelineTypeOK
    <3>2. sent[x.instruction] \in Instruction
      BY <3>1
    <3> QED BY <3>2 DEF Instruction
  <2>3. x.answer = Evaluate(records[x.tee], sent[x.instruction].request)
    BY DEF SignedAsEvaluated
  <2> QED BY <2>1, <2>2, <2>3, ResultIsExact
<1> QED BY <1>1, Evaluated, PipelineTypes, PTL

\* One instruction, one answer, however often it is delivered.
THEOREM One == PipelineSpec => []OneAnswer
<1>1. PipelineTypeOK /\ SignedAsEvaluated => OneAnswer
  <2> SUFFICES ASSUME PipelineTypeOK, SignedAsEvaluated, NEW x \in signed, NEW y \in signed,
                      x.instruction = y.instruction
               PROVE  x = y
    BY DEF OneAnswer
  <2>1. x.tee = y.tee /\ x.answer = y.answer
    BY DEF SignedAsEvaluated
  <2>2. x \in Signature /\ y \in Signature
    BY DEF PipelineTypeOK
  <2> QED BY <2>1, <2>2 DEF Signature
<1> QED BY <1>1, Evaluated, PipelineTypes, PTL
=============================================================================
