---------------------------- MODULE JorqethSystem ----------------------------
(***************************************************************************)
(* The whole of Jorqeth on the chain and in the machines: settlement       *)
(* contracts and the evaluation pipeline.                                  *)
(*                                                                         *)
(* JorqethSettlement leaves open which results its verifier accepts; here  *)
(* they are the answers the pipeline has signed and still verifies.        *)
(*                                                                         *)
(* sendEvaluation is open: anyone may ask for any order, contract, rate    *)
(* and window.  The extension copies what it is asked into the result, and *)
(* settle() compares the copy with its campaign; nothing compares the rate *)
(* of a request with the rate the campaign was created for.                *)
(***************************************************************************)
EXTENDS EvaluationPipeline

CONSTANTS
    Contracts, Users, Campaigns, Rules, SchemaVersion, ChainId, Results, Configs,
    InitialBalance, Amounts, MaxTime, MaxFunded, NotDeployed, NoResult

VARIABLES now, balance, config, escrowBalance, totalSettled, settled, receipt, funded, withdrawn

chain == <<now, balance, config, escrowBalance, totalSettled, settled, receipt, funded,
           withdrawn>>

\* The payable result a machine signs: the request's terms, and the answer.
PayableResult(answer) ==
    [schemaVersion |-> answer.terms.schemaVersion, campaignId |-> answer.terms.campaignId,
     orderDigest |-> answer.order, creator |-> answer.terms.creator,
     amount |-> answer.amount, eligibilityCode |-> answer.eligibilityCode,
     chainId |-> answer.terms.chainId,
     settlementContract |-> answer.terms.settlementContract,
     ruleVersion |-> answer.terms.ruleVersion, issuedAt |-> answer.terms.issuedAt,
     expiry |-> answer.terms.expiry]

\* The results that requests can lead to are among the constants.
ASSUME ResultsAssumption ==
    \A rows \in RecordLists, request \in Request :
        Evaluate(rows, request).status = 1 =>
            PayableResult(Evaluate(rows, request)) \in Results

AcceptedResults == {PayableResult(x.answer) : x \in {y \in signed : Verifies(y)}}

Settlement == INSTANCE JorqethSettlement WITH accepts <- AcceptedResults

\* The constants are such as JorqethSettlement has them.
ASSUME SettlementAssumption ==
    /\ Settlement!AddressAssumption /\ Settlement!ResultAssumption
    /\ Settlement!ConfigAssumption /\ Settlement!AmountAssumption
    /\ Settlement!BalanceAssumption /\ Settlement!BoundAssumption
    /\ Settlement!NoneAssumption /\ Settlement!DigestAssumption

SystemVars == <<pipeline, chain>>

SystemInit == PipelineInit /\ Settlement!Init

-----------------------------------------------------------------------------
(* A transaction on the settlement contracts or a step of the pipeline.    *)

OnChain ==
    \/ Settlement!Tick
    \/ \E s \in Contracts :
         \/ \E c \in Configs : Settlement!Deploy(s, c)
         \/ \E caller \in Users, amount \in Amounts :
              Settlement!Fund(s, caller, amount) \/ Settlement!WithdrawEscrow(s, caller, amount)
         \/ \E r \in AcceptedResults : Settlement!Settle(s, r)

SystemNext ==
    \/ PipelineNext /\ UNCHANGED chain
    \/ UNCHANGED pipeline /\ OnChain

SystemSpec == SystemInit /\ [][SystemNext]_SystemVars

-----------------------------------------------------------------------------
(* Properties.                                                             *)

Supports(rows, o, bps, r) ==
    \/ /\ r.eligibilityCode = 1
       /\ \E i \in DOMAIN rows :
            /\ DecidedBy(rows, o, i) /\ ~rows[i].refunded
            /\ 10000 * r.amount <= rows[i].net * bps
            /\ rows[i].net * bps < 10000 * (r.amount + 1)
    \/ /\ r.eligibilityCode = 0
       /\ \A i \in DOMAIN rows : DecidedBy(rows, o, i) => rows[i].refunded

\* What a contract paid or denied for an order is what the private records of one
\* machine say of that very order, at the rate of an instruction that was sent to that
\* machine for that order and that contract: through instruction, machine, signature
\* and settlement nothing is mixed up between orders, contracts and machines, and
\* nothing is rounded twice.
VerdictsComeFromRecords ==
    \A s \in Contracts, o \in Orders : receipt[s][o] # NoResult =>
        \E i \in DOMAIN sent :
            LET q == sent[i].request  rows == records[sent[i].tee]
            IN  /\ q.order = o /\ q.terms.settlementContract = s
                /\ rows # Off
                /\ Supports(rows, o, q.bps, receipt[s][o])

\* How contract s comes to decide order o on the signature x.
DecidedOn(s, o, x) ==
    LET q == sent[x.instruction].request
    IN  /\ PayableResult(x.answer) = receipt'[s][o]
        /\ x.tee = sent[x.instruction].tee /\ x.tee \in active[VerifierId]
        /\ q.order = o /\ q.terms.settlementContract = s
        /\ q.terms.issuedAt <= now /\ now < q.terms.expiry
        /\ q.terms.expiry <= config[s].campaignEnd

\* An order is decided only by the answer of the machine its instruction was sent to,
\* while that machine is active and within the window the instruction asked for:
\* dropping a machine stops its answers in the same block, also the ones signed long
\* ago, and no answer outlives its request or its campaign.
DecidedAsRequested ==
    [][\A s \in Contracts, o \in Orders : receipt'[s][o] # receipt[s][o] =>
          \E x \in signed : DecidedOn(s, o, x)]_SystemVars

\* Seen from the contracts, the pipeline is a verifier whose set of accepted
\* results changes: all that holds of JorqethSettlement holds here.
ImplementsSettlement == Settlement!Spec
=============================================================================
