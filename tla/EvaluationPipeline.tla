------------------------- MODULE EvaluationPipeline -------------------------
(***************************************************************************)
(* From an evaluation request to an answer a settlement contract accepts.  *)
(*                                                                         *)
(* JorqethInstructionSender passes a request to one machine of Jorqeth's   *)
(* extension; the machine runs the Go extension on the private records it  *)
(* was started with and signs the answer; FccResultVerifier accepts the    *)
(* answer as long as its signer is an active machine of the extension the  *)
(* verifier was deployed for.                                              *)
(*                                                                         *)
(* The key of a machine lives and dies with its process, so a machine here *)
(* is one run of the extension.  A signature is the pair of machine and    *)
(* answer: it verifies exactly the answer it was made for.                 *)
(***************************************************************************)
EXTENDS Integers, Sequences

CONSTANTS
    Self,           \* the instruction sender
    Senders,        \* contracts somebody may register an extension for
    FirstId,        \* FIRST_PUBLIC_EXTENSION_ID
    VerifierId,     \* the extension id the verifier was deployed with
    Tees,           \* machines
    Orders,         \* order digests
    Terms,          \* what a request carries for the contract: schema, chain, campaign, window
    Rates,          \* values of commissionBps
    RecordLists,    \* the record lists a machine may be started with
    MaxExtensions,  \* bound: extensions registered
    MaxSent,        \* bound: instructions sent
    Off             \* a machine that was never started

\* A record; "unreadable" is a netAmount that is no decimal natural number.
Record == [order : Orders, net : Nat, readable : BOOLEAN, refunded : BOOLEAN]

\* A request; `parses` is false for bytes that are no JSON object of the expected
\* fields.  Anyone may send one.
Request == [order : Orders, bps : Rates, terms : Terms, parses : BOOLEAN]

Answer == [status : {0, 1}, order : Orders, eligibilityCode : {0, 1}, amount : Nat,
           terms : Terms]

ASSUME SenderAssumption   == Self \in Senders
ASSUME IdAssumption       == FirstId \in Nat \ {0} /\ VerifierId \in Nat
ASSUME RateAssumption     == Rates \subseteq Nat
ASSUME RecordsAssumption  == RecordLists \subseteq Seq(Record)
ASSUME MachineAssumption  == Off \notin Seq(Record)
ASSUME BoundAssumption    == MaxExtensions \in Nat /\ MaxSent \in Nat

VARIABLES
    registry,     \* the sender of each registered extension, by id from FirstId
    extensionId,  \* storage of the instruction sender; 0 until it is set
    active,       \* the active machines of each extension id
    records,      \* the record list each machine was started with
    ended,        \* machines whose process has ended, with their key
    sent,         \* the instructions, numbered by instruction id
    signed        \* the signed answers that exist

pipeline == <<registry, extensionId, active, records, ended, sent, signed>>

Ids == FirstId .. (FirstId + MaxExtensions - 1)

Instruction == [tee : Tees, request : Request]
Signature   == [tee : Tees, instruction : Nat, answer : Answer]

PipelineTypeOK ==
    /\ registry \in Seq(Senders)
    /\ extensionId \in Nat
    /\ active \in [Ids \cup {VerifierId} -> SUBSET Tees]
    /\ records \in [Tees -> RecordLists \cup {Off}]
    /\ ended \subseteq Tees
    /\ sent \in Seq(Instruction)
    /\ signed \subseteq Signature

PipelineInit ==
    /\ registry = <<>>
    /\ extensionId = 0
    /\ active = [id \in Ids \cup {VerifierId} |-> {}]
    /\ records = [t \in Tees |-> Off]
    /\ ended = {}
    /\ sent = <<>>
    /\ signed = {}

-----------------------------------------------------------------------------
(* Flare's registries.                                                     *)

RegisterExtension(sender) ==
    /\ Len(registry) < MaxExtensions
    /\ registry' = Append(registry, sender)
    /\ UNCHANGED <<extensionId, active, records, ended, sent, signed>>

\* Machines are promoted and dropped, whether or not they run.
ActiveSetChanges(id, tees) ==
    /\ active' = [active EXCEPT ![id] = tees]
    /\ UNCHANGED <<registry, extensionId, records, ended, sent, signed>>

-----------------------------------------------------------------------------
(* Slips of the definitions below, each excluded by a property.             *)

Lowest_Any(id) == TRUE

Last_First(rows, i) == \A j \in DOMAIN rows : j < i => rows[j].order # rows[i].order

Commission_RoundsUp(net, bps) == (net * bps + 9999) \div 10000

Earns_DespiteRefund(row) == TRUE

Loads_Again(t) == TRUE

\* An error reported with the status of work that is still pending.
Error_Pending(request) ==
    [status |-> 2, order |-> request.order, eligibilityCode |-> 0, amount |-> 0,
     terms |-> request.terms]

Replies_NoErrors(answer) == answer.status = 1

Verifies_AnyMachine(x) == x.answer.status = 1

-----------------------------------------------------------------------------
(* JorqethInstructionSender.                                               *)

Owned(id) == id - FirstId + 1 \in DOMAIN registry /\ registry[id - FirstId + 1] = Self

Settable == extensionId = 0

\* The scan takes the first extension registered for this sender.
Lowest(id) == \A lower \in FirstId .. (id - 1) : ~Owned(lower)

SetExtensionId ==
    /\ Settable
    /\ \E id \in Ids :
         /\ Owned(id)
         /\ Lowest(id)
         /\ extensionId' = id
    /\ UNCHANGED <<registry, active, records, ended, sent, signed>>

\* The machine registry picks one of the active machines.
SendEvaluation(t, request) ==
    /\ extensionId # 0
    /\ t \in active[extensionId]
    /\ Len(sent) < MaxSent
    /\ sent' = Append(sent, [tee |-> t, request |-> request])
    /\ UNCHANGED <<registry, extensionId, active, records, ended, signed>>

-----------------------------------------------------------------------------
(* The extension.                                                          *)

Running(t) == records[t] # Off /\ t \notin ended

\* One process loads one list, once.
Loads(t) == records[t] = Off

\* newExtension; a list it rejects ends the process before it serves anything.
StartExtension(t, rows) ==
    /\ t \notin ended /\ Loads(t)
    /\ records' = [records EXCEPT ![t] = rows]
    /\ UNCHANGED <<registry, extensionId, active, ended, sent, signed>>

StopExtension(t) ==
    /\ Running(t)
    /\ ended' = ended \cup {t}
    /\ UNCHANGED <<registry, extensionId, active, records, sent, signed>>

\* The map is filled in list order, so a later record of an order wins.
Last(rows, i) == \A j \in DOMAIN rows : i < j => rows[j].order # rows[i].order

Found(rows, order) == \E i \in DOMAIN rows : rows[i].order = order

Row(rows, order) ==
    rows[CHOOSE i \in DOMAIN rows : rows[i].order = order /\ Last(rows, i)]

Commission(net, bps) == (net * bps) \div 10000

Earns(row) == ~row.refunded

Error(request) ==
    [status |-> 0, order |-> request.order, eligibilityCode |-> 0, amount |-> 0,
     terms |-> request.terms]

Result(request, code, amount) ==
    [status |-> 1, order |-> request.order, eligibilityCode |-> code, amount |-> amount,
     terms |-> request.terms]

Evaluate(rows, request) ==
    LET row == Row(rows, request.order)
    IN  IF ~request.parses \/ request.bps > 10000 THEN Error(request)
        ELSE IF ~Found(rows, request.order) \/ ~Earns(row) THEN Result(request, 0, 0)
        ELSE IF ~row.readable THEN Error(request)
        ELSE Result(request, 1, Commission(row.net, request.bps))

\* handleAction replies to every instruction of its own operation, also with an
\* error; the node signs the reply.
Replies(answer) == TRUE

HandleAction(t, i) ==
    /\ Running(t)
    /\ sent[i].tee = t
    /\ LET answer == Evaluate(records[t], sent[i].request)
       IN  /\ Replies(answer)
           /\ signed' = signed \cup {[tee |-> t, instruction |-> i, answer |-> answer]}
    /\ UNCHANGED <<registry, extensionId, active, records, ended, sent>>

-----------------------------------------------------------------------------
(* FccResultVerifier.                                                      *)

\* verify() on an answer and its signature; with no active machine it reverts.
Verifies(x) == x.answer.status = 1 /\ x.tee \in active[VerifierId]

PipelineNext ==
    \/ \E sender \in Senders : RegisterExtension(sender)
    \/ \E id \in Ids, tees \in SUBSET Tees : ActiveSetChanges(id, tees)
    \/ SetExtensionId
    \/ \E t \in Tees :
         \/ \E request \in Request : SendEvaluation(t, request)
         \/ \E rows \in RecordLists : StartExtension(t, rows)
         \/ StopExtension(t)
         \/ \E i \in DOMAIN sent : HandleAction(t, i)

PipelineSpec == PipelineInit /\ [][PipelineNext]_pipeline

-----------------------------------------------------------------------------
(* Properties.                                                             *)

\* The extension id, once found, is that of the first extension registered for this
\* sender, for good: whoever triggers the scan, and whatever is registered later,
\* instructions never go to the machines of another extension.
ExtensionIsFirstOwn ==
    extensionId # 0 =>
        LET own == {i \in DOMAIN registry : registry[i] = Self}
        IN  /\ extensionId - FirstId + 1 \in own
            /\ \A i \in own : extensionId <= FirstId + i - 1

DecidedBy(rows, order, i) ==
    rows[i].order = order /\ \A j \in DOMAIN rows : rows[j].order = order => j <= i

\* Every signed result carries the order and terms of its instruction and is exact:
\* the floor of the rate on the last record of the order among the records of the
\* machine that signed it, and nothing for a refunded or unknown order.
ResultsAreExact ==
    \A x \in signed : x.answer.status = 1 =>
        LET rows == records[x.tee]  q == sent[x.instruction].request  a == x.answer
        IN  /\ a.order = q.order /\ a.terms = q.terms
            /\ a.eligibilityCode = 1 =>
                 \E i \in DOMAIN rows :
                   /\ DecidedBy(rows, q.order, i)
                   /\ ~rows[i].refunded
                   /\ 10000 * a.amount <= rows[i].net * q.bps
                   /\ rows[i].net * q.bps < 10000 * (a.amount + 1)
            /\ a.eligibilityCode = 0 =>
                 /\ a.amount = 0
                 /\ \A i \in DOMAIN rows : DecidedBy(rows, q.order, i) => rows[i].refunded

\* However often an instruction is delivered, there is one answer to it.
OneAnswer ==
    \A x, y \in signed : x.instruction = y.instruction => x = y

Answered(i) == \E x \in signed : x.instruction = i

FairPipeline ==
    PipelineSpec /\ \A t \in Tees, i \in 1 .. MaxSent :
                       WF_pipeline(i \in DOMAIN sent /\ HandleAction(t, i))

\* A running machine answers every instruction sent to it, also one it cannot parse
\* or whose record it cannot read: no requester waits on a machine that is up.
RunningMachineAnswers ==
    \A t \in Tees, i \in 1 .. MaxSent :
        (i \in DOMAIN sent /\ sent[i].tee = t /\ Running(t))
            ~> (Answered(i) \/ ~Running(t))
=============================================================================
