-------------------------- MODULE JorqethSystemProofs --------------------------
(***************************************************************************)
(* What holds of the composition of contracts and pipeline for every       *)
(* number of campaigns, machines, orders and record lists, and for         *)
(* requests of anyone.                                                     *)
(***************************************************************************)
EXTENDS JorqethSystem, EvaluationPipelineProofs

-----------------------------------------------------------------------------
(* The two parts.                                                          *)

\* The pipeline of the system is EvaluationPipeline, undisturbed by the contracts.
THEOREM PipelineRuns == SystemSpec => PipelineSpec
<1>1. SystemInit => PipelineInit
  BY DEF SystemInit
<1>2. [SystemNext]_SystemVars => [PipelineNext]_pipeline
  BY DEF SystemNext, SystemVars
<1> QED BY <1>1, <1>2, PTL DEF SystemSpec, PipelineSpec

\* What a contract may be shown is always among the results.
THEOREM Accepted == SystemSpec => [](AcceptedResults \subseteq Results)
<1>1. PipelineTypeOK /\ SignedAsEvaluated => AcceptedResults \subseteq Results
  <2> SUFFICES ASSUME PipelineTypeOK, SignedAsEvaluated, NEW x \in signed, Verifies(x)
               PROVE  PayableResult(x.answer) \in Results
    BY DEF AcceptedResults
  <2>1. x.instruction \in DOMAIN sent /\ sent \in Seq(Instruction)
    BY DEF SignedAsEvaluated, PipelineTypeOK
  <2>2. sent[x.instruction] \in Instruction
    BY <2>1
  <2>3. sent[x.instruction].request \in Request
    BY <2>2 DEF Instruction
  <2>4. /\ records[x.tee] \in RecordLists
        /\ x.answer = Evaluate(records[x.tee], sent[x.instruction].request)
    BY DEF SignedAsEvaluated
  <2>5. x.answer.status = 1
    BY DEF Verifies
  <2> QED BY <2>3, <2>4, <2>5, ResultsAssumption
<1> QED BY <1>1, PipelineRuns, PipelineTypes, Evaluated, PTL

\* Seen from the contracts, the pipeline is a verifier like any other.
THEOREM SettlementRuns == SystemSpec => ImplementsSettlement
<1>1. SystemInit => Settlement!Init
  <2>1. PipelineInit => AcceptedResults = {}
    BY DEF PipelineInit, AcceptedResults
  <2> QED BY <2>1 DEF SystemInit, Settlement!Init
<1>2. /\ AcceptedResults \subseteq Results
      /\ (AcceptedResults \subseteq Results)'
      /\ [SystemNext]_SystemVars
      => [Settlement!Next]_(Settlement!vars)
  <2> SUFFICES ASSUME AcceptedResults \subseteq Results, AcceptedResults' \subseteq Results,
                      [SystemNext]_SystemVars
               PROVE  [Settlement!Next]_(Settlement!vars)
    OBVIOUS
  <2>1. CASE UNCHANGED chain
    <3>1. Settlement!VerifierChanges
      BY <2>1 DEF chain, Settlement!VerifierChanges, Settlement!storage,
                        Settlement!events
    <3> QED BY <3>1 DEF Settlement!Next, Settlement!Environment
  <2>2. CASE OnChain
    BY <2>2 DEF OnChain, Settlement!Next, Settlement!Environment, Settlement!Contract
  <2> QED BY <2>1, <2>2 DEF SystemNext, SystemVars
<1> QED BY <1>1, <1>2, Accepted, PTL DEF SystemSpec, ImplementsSettlement,
        Settlement!Spec

-----------------------------------------------------------------------------
(* Requests and verdicts.                                                  *)

ReceiptTypeOK == receipt \in [Contracts -> [Orders -> Results \cup {NoResult}]]

\* A step of the system changes a receipt only by settling an accepted result.
LEMMA ReceiptStep ==
    ASSUME [SystemNext]_SystemVars
    PROVE  \/ UNCHANGED receipt
           \/ \E s \in Contracts, r \in AcceptedResults :
                /\ UNCHANGED pipeline
                /\ Settlement!Admissible(s, r)
                /\ receipt' = [receipt EXCEPT ![s][r.orderDigest] = r]
<1>1. ASSUME NEW s \in Contracts, NEW r \in AcceptedResults, Settlement!Settle(s, r)
      PROVE  /\ Settlement!Admissible(s, r)
             /\ receipt' = [receipt EXCEPT ![s][r.orderDigest] = r]
  BY <1>1 DEF Settlement!Settle, Settlement!SettleEligible, Settlement!SettleIneligible,
              Settlement!Record
<1>2. CASE UNCHANGED chain
  BY <1>2 DEF chain
<1>3. CASE UNCHANGED pipeline /\ OnChain
  <2>1. CASE Settlement!Tick
    BY <2>1 DEF Settlement!Tick, Settlement!events
  <2>2. ASSUME NEW s \in Contracts, NEW c \in Configs, Settlement!Deploy(s, c)
        PROVE  UNCHANGED receipt
    BY <2>2 DEF Settlement!Deploy, Settlement!events
  <2>3. ASSUME NEW s \in Contracts, NEW caller \in Users, NEW amount \in Amounts,
               Settlement!Fund(s, caller, amount) \/ Settlement!WithdrawEscrow(s, caller, amount)
        PROVE  UNCHANGED receipt
    BY <2>3 DEF Settlement!Fund, Settlement!WithdrawEscrow
  <2> QED BY <1>1, <1>3, <2>1, <2>2, <2>3 DEF OnChain
<1> QED BY <1>2, <1>3 DEF SystemNext, SystemVars

\* What is on file is a result.
THEOREM ReceiptTypes == SystemSpec => []ReceiptTypeOK
<1>1. SystemInit => ReceiptTypeOK
  BY DEF SystemInit, Settlement!Init, ReceiptTypeOK
<1>2. AcceptedResults \subseteq Results /\ ReceiptTypeOK /\ [SystemNext]_SystemVars
      => ReceiptTypeOK'
  BY ReceiptStep DEF ReceiptTypeOK
<1> QED BY <1>1, <1>2, Accepted, PTL DEF SystemSpec

\* What an accepted result says of the instruction it answers.
LEMMA AcceptedOrigin ==
    ASSUME PipelineTypeOK, SignedAsEvaluated, NEW r \in AcceptedResults
    PROVE  \E x \in signed :
             /\ PayableResult(x.answer) = r
             /\ x.instruction \in DOMAIN sent
             /\ x.tee = sent[x.instruction].tee
             /\ x.tee \in active[VerifierId]
             /\ records[x.tee] # Off
             /\ LET q == sent[x.instruction].request
                IN  /\ q.order = r.orderDigest
                    /\ q.terms.settlementContract = r.settlementContract
                    /\ q.terms.issuedAt = r.issuedAt /\ q.terms.expiry = r.expiry
                    /\ Supports(records[x.tee], q.order, q.bps, r)
<1>1. PICK x \in signed : Verifies(x) /\ PayableResult(x.answer) = r
  BY DEF AcceptedResults
<1> DEFINE q == sent[x.instruction].request
           rows == records[x.tee]
<1>2. x \in Signature /\ x.instruction \in DOMAIN sent /\ sent \in Seq(Instruction)
  BY DEF SignedAsEvaluated, PipelineTypeOK
<1>3. sent[x.instruction] \in Instruction
  BY <1>2
<1>4. q \in Request /\ x.answer \in Answer
  BY <1>2, <1>3 DEF Instruction, Signature
<1>5. rows \in RecordLists /\ x.answer = Evaluate(rows, q) /\ x.tee = sent[x.instruction].tee
  BY DEF SignedAsEvaluated
<1>6. rows \in Seq(Record) /\ records[x.tee] # Off
  BY <1>5, RecordsAssumption, MachineAssumption
<1>7. x.tee \in active[VerifierId] /\ x.answer.status = 1
  BY <1>1 DEF Verifies
<1>8. ExactAnswer(rows, q, x.answer)
  <2> HIDE DEF rows, q
  <2> QED BY <1>4, <1>5, <1>6, <1>7, ResultIsExact
<1> HIDE DEF rows, q
<1>10. x.answer.order = q.order /\ x.answer.terms = q.terms
  BY <1>8 DEF ExactAnswer
<1>11. /\ r.orderDigest = q.order /\ r.amount = x.answer.amount
       /\ r.eligibilityCode = x.answer.eligibilityCode
       /\ r.settlementContract = q.terms.settlementContract
       /\ r.issuedAt = q.terms.issuedAt /\ r.expiry = q.terms.expiry
  BY <1>1, <1>10 DEF PayableResult
<1>12. r.eligibilityCode \in {0, 1}
  BY <1>4, <1>11 DEF Answer
<1>13. Supports(rows, q.order, q.bps, r)
  BY <1>8, <1>11, <1>12 DEF ExactAnswer, Supports, IsFloor
<1> QED BY <1>1, <1>2, <1>5, <1>6, <1>7, <1>11, <1>13 DEF rows, q

\* Instructions and the records of a machine that was started stay as they are.
LEMMA EvidenceKept ==
    ASSUME PipelineTypeOK, [PipelineNext]_pipeline, NEW i \in DOMAIN sent
    PROVE  /\ i \in DOMAIN sent' /\ sent'[i] = sent[i]
           /\ records[sent[i].tee] # Off => records'[sent[i].tee] = records[sent[i].tee]
<1>1. sent \in Seq(Instruction) /\ sent[i] \in Instruction
  BY DEF PipelineTypeOK
<1>2. sent[i].tee \in Tees
  BY <1>1 DEF Instruction
<1>3. i \in DOMAIN sent' /\ sent'[i] = sent[i]
  <2>1. CASE UNCHANGED sent
    BY <2>1
  <2>2. ASSUME NEW t \in Tees, NEW request \in Request, SendEvaluation(t, request)
        PROVE  i \in DOMAIN sent' /\ sent'[i] = sent[i]
    <3>1. PICK x : x = [tee |-> t, request |-> request]
      OBVIOUS
    <3>2. sent' = Append(sent, x)
      BY <2>2, <3>1 DEF SendEvaluation
    <3>3. i \in 1 .. Len(sent) /\ Len(sent) \in Nat
      BY <1>1
    <3> QED BY <1>1, <3>2, <3>3
  <2> QED BY <2>1, <2>2 DEF PipelineNext, pipeline, RegisterExtension, ActiveSetChanges,
             SetExtensionId, StartExtension, StopExtension, HandleAction
<1>4. records[sent[i].tee] # Off => records'[sent[i].tee] = records[sent[i].tee]
  BY <1>2 DEF PipelineTypeOK, PipelineNext, pipeline, RegisterExtension, ActiveSetChanges,
     SetExtensionId, SendEvaluation, StartExtension, Loads, StopExtension, HandleAction
<1> QED BY <1>3, <1>4

\* Every verdict is what the records of one machine say of that order, for an
\* instruction sent to that machine about that order and that contract.
THEOREM FromRecords == SystemSpec => []VerdictsComeFromRecords
<1>1. SystemInit => VerdictsComeFromRecords
  BY DEF SystemInit, Settlement!Init, VerdictsComeFromRecords
<1>2. /\ VerdictsComeFromRecords /\ ReceiptTypeOK /\ PipelineTypeOK /\ SignedAsEvaluated
      /\ [PipelineNext]_pipeline /\ [SystemNext]_SystemVars
      => VerdictsComeFromRecords'
  <2> SUFFICES ASSUME VerdictsComeFromRecords, ReceiptTypeOK, PipelineTypeOK,
                      SignedAsEvaluated, [PipelineNext]_pipeline, [SystemNext]_SystemVars,
                      NEW s \in Contracts, NEW o \in Orders, receipt'[s][o] # NoResult
               PROVE  \E i \in DOMAIN sent' :
                        /\ sent'[i].request.order = o
                        /\ sent'[i].request.terms.settlementContract = s
                        /\ records'[sent'[i].tee] # Off
                        /\ Supports(records'[sent'[i].tee], o, sent'[i].request.bps,
                                    receipt'[s][o])
    BY DEF VerdictsComeFromRecords
  <2>1. \/ receipt'[s][o] = receipt[s][o]
        \/ \E r \in AcceptedResults :
             /\ Settlement!Admissible(s, r) /\ o = r.orderDigest
             /\ receipt'[s][o] = r
    BY ReceiptStep DEF ReceiptTypeOK
  <2>2. PICK i \in DOMAIN sent :
          /\ sent[i].request.order = o
          /\ sent[i].request.terms.settlementContract = s
          /\ records[sent[i].tee] # Off
          /\ Supports(records[sent[i].tee], o, sent[i].request.bps, receipt'[s][o])
    <3>1. CASE receipt'[s][o] = receipt[s][o]
      BY <3>1 DEF VerdictsComeFromRecords
    <3>2. ASSUME NEW r \in AcceptedResults, Settlement!Admissible(s, r), o = r.orderDigest,
                 receipt'[s][o] = r
          PROVE  \E i \in DOMAIN sent :
                   /\ sent[i].request.order = o
                   /\ sent[i].request.terms.settlementContract = s
                   /\ records[sent[i].tee] # Off
                   /\ Supports(records[sent[i].tee], o, sent[i].request.bps, receipt'[s][o])
      <4>1. r.settlementContract = s
        BY <3>2 DEF Settlement!Admissible, Settlement!Bound
      <4>2. PICK x \in signed :
              /\ x.instruction \in DOMAIN sent
              /\ x.tee = sent[x.instruction].tee
              /\ records[x.tee] # Off
              /\ LET q == sent[x.instruction].request
                 IN  /\ q.order = o /\ q.terms.settlementContract = s
                     /\ Supports(records[x.tee], q.order, q.bps, r)
        BY <3>2, <4>1, AcceptedOrigin
      <4> QED BY <3>2, <4>2
    <3> QED BY <2>1, <3>1, <3>2
  <2>3. /\ i \in DOMAIN sent' /\ sent'[i] = sent[i]
        /\ records'[sent[i].tee] = records[sent[i].tee]
    BY <2>2, EvidenceKept
  <2> QED BY <2>2, <2>3
<1> QED BY <1>1, <1>2, ReceiptTypes, PipelineRuns, PipelineTypes, Evaluated, PTL
        DEF SystemSpec, PipelineSpec

\* An order is decided only by the machine its instruction was sent to, active in that
\* block, within the window of that instruction.
THEOREM AsRequested == SystemSpec => DecidedAsRequested
<1>1. /\ ReceiptTypeOK /\ PipelineTypeOK /\ SignedAsEvaluated /\ [SystemNext]_SystemVars
      => [\A s \in Contracts, o \in Orders : receipt'[s][o] # receipt[s][o] =>
            \E x \in signed : DecidedOn(s, o, x)]_SystemVars
  <2> SUFFICES ASSUME ReceiptTypeOK, PipelineTypeOK, SignedAsEvaluated,
                      [SystemNext]_SystemVars,
                      NEW s \in Contracts, NEW o \in Orders, receipt'[s][o] # receipt[s][o]
               PROVE  \E x \in signed : DecidedOn(s, o, x)
    OBVIOUS
  <2>1. PICK r \in AcceptedResults : /\ Settlement!Admissible(s, r)
                                     /\ receipt'[s][o] = r /\ o = r.orderDigest
    BY ReceiptStep DEF ReceiptTypeOK
  <2>2. /\ r.settlementContract = s
        /\ r.issuedAt <= now /\ now < r.expiry /\ r.expiry <= config[s].campaignEnd
    BY <2>1 DEF Settlement!Admissible, Settlement!Bound, Settlement!InWindow
  <2>3. PICK x \in signed :
          /\ PayableResult(x.answer) = r
          /\ x.tee = sent[x.instruction].tee /\ x.tee \in active[VerifierId]
          /\ LET q == sent[x.instruction].request
             IN  /\ q.order = r.orderDigest
                 /\ q.terms.settlementContract = r.settlementContract
                 /\ q.terms.issuedAt = r.issuedAt /\ q.terms.expiry = r.expiry
    BY AcceptedOrigin
  <2>4. DecidedOn(s, o, x)
    BY <2>1, <2>2, <2>3 DEF DecidedOn
  <2> QED BY <2>4
<1> QED BY <1>1, ReceiptTypes, PipelineRuns, PipelineTypes, Evaluated, PTL
        DEF SystemSpec, DecidedAsRequested

-----------------------------------------------------------------------------
(* What is proved of the settlement contracts holds here.                  *)

SettlementProofs == INSTANCE JorqethSettlementProofs
    WITH accepts <- AcceptedResults

LEMMA AssumptionsOfSettlement ==
    /\ SettlementProofs!AddressAssumption /\ SettlementProofs!ResultAssumption
    /\ SettlementProofs!ConfigAssumption /\ SettlementProofs!AmountAssumption
    /\ SettlementProofs!BalanceAssumption /\ SettlementProofs!BoundAssumption
    /\ SettlementProofs!NoneAssumption /\ SettlementProofs!DigestAssumption
<1>1. SettlementProofs!DigestAssumption
  BY SettlementAssumption DEF SettlementAssumption, Settlement!DigestAssumption,
     SettlementProofs!DigestAssumption, Settlement!IsFiniteSet, SettlementProofs!IsFiniteSet
<1> QED
  BY <1>1, SettlementAssumption
     DEF Settlement!AddressAssumption, Settlement!ResultAssumption, Settlement!ConfigAssumption,
         Settlement!AmountAssumption, Settlement!BalanceAssumption, Settlement!BoundAssumption,
         Settlement!NoneAssumption,
         Settlement!PayableResult, Settlement!Config,
         Settlement!Accounts, SettlementProofs!AddressAssumption,
         SettlementProofs!ResultAssumption, SettlementProofs!ConfigAssumption,
         SettlementProofs!AmountAssumption, SettlementProofs!BalanceAssumption,
         SettlementProofs!BoundAssumption, SettlementProofs!NoneAssumption,
         SettlementProofs!PayableResult, SettlementProofs!Config, SettlementProofs!Accounts

LEMMA SettlementProofsRun == SystemSpec => SettlementProofs!Spec
<1>1. Settlement!Init => SettlementProofs!Init
  BY DEF Settlement!Init, SettlementProofs!Init
<1>2. [Settlement!Next]_(Settlement!vars) => [SettlementProofs!Next]_(SettlementProofs!vars)
  BY DEF Settlement!Next, Settlement!vars, Settlement!storage, Settlement!events,
         Settlement!Environment, Settlement!Tick, Settlement!VerifierChanges,
         Settlement!TokenTransfer, Settlement!Move, Settlement!Contract, Settlement!Deploy,
         Settlement!Fund, Settlement!WithdrawEscrow, Settlement!Settle, Settlement!SettleIneligible,
         Settlement!SettleEligible, Settlement!Deployed, Settlement!Credit, Settlement!Debit,
         Settlement!Covers, Settlement!Bound, Settlement!InWindow, Settlement!Fresh,
         Settlement!Authentic, Settlement!Admissible, Settlement!Record, Settlement!Payable,
         Settlement!Unlocked, Settlement!Accounts, Settlement!ELIGIBLE, Settlement!INELIGIBLE,
         SettlementProofs!Next, SettlementProofs!vars, SettlementProofs!storage,
         SettlementProofs!events, SettlementProofs!Environment, SettlementProofs!Tick,
         SettlementProofs!VerifierChanges, SettlementProofs!TokenTransfer,
         SettlementProofs!Move, SettlementProofs!Contract, SettlementProofs!Deploy,
         SettlementProofs!Fund, SettlementProofs!WithdrawEscrow, SettlementProofs!Settle,
         SettlementProofs!SettleIneligible, SettlementProofs!SettleEligible,
         SettlementProofs!Deployed, SettlementProofs!Credit, SettlementProofs!Debit,
         SettlementProofs!Covers, SettlementProofs!Bound, SettlementProofs!InWindow,
         SettlementProofs!Fresh, SettlementProofs!Authentic, SettlementProofs!Admissible,
         SettlementProofs!Record, SettlementProofs!Payable, SettlementProofs!Unlocked,
         SettlementProofs!Accounts, SettlementProofs!ELIGIBLE, SettlementProofs!INELIGIBLE
<1> QED BY <1>1, <1>2, SettlementRuns, PTL
        DEF ImplementsSettlement, Settlement!Spec, SettlementProofs!Spec

\* With the pipeline as its verifier, every campaign keeps its books backed and balanced,
\* marks exactly the orders it decided, has paid the sum of its receipts, and decides orders on
\* the terms it was deployed with; what it has paid back to the merchant no answer was entitled to.
THEOREM CampaignsKeepBooks ==
    SystemSpec =>
        [](/\ Settlement!EscrowBacked /\ Settlement!EscrowConserved
           /\ Settlement!GuardMatchesReceipts
           /\ Settlement!ReceiptsKeepTerms /\ Settlement!WithdrawalStrandsNoResult
           /\ Settlement!TotalIsSumOfReceipts)
<1>1. SettlementProofs!EscrowBacked => Settlement!EscrowBacked
  BY DEF Settlement!EscrowBacked, SettlementProofs!EscrowBacked
<1>2. SettlementProofs!EscrowConserved => Settlement!EscrowConserved
  BY DEF Settlement!EscrowConserved, SettlementProofs!EscrowConserved
<1>3. SettlementProofs!GuardMatchesReceipts => Settlement!GuardMatchesReceipts
  BY DEF Settlement!GuardMatchesReceipts, SettlementProofs!GuardMatchesReceipts
<1>5. SettlementProofs!ReceiptsKeepTerms => Settlement!ReceiptsKeepTerms
  BY DEF Settlement!ReceiptsKeepTerms, SettlementProofs!ReceiptsKeepTerms,
         Settlement!ELIGIBLE, Settlement!INELIGIBLE, SettlementProofs!ELIGIBLE,
         SettlementProofs!INELIGIBLE
<1>6. SettlementProofs!WithdrawalStrandsNoResult => Settlement!WithdrawalStrandsNoResult
  BY DEF Settlement!WithdrawalStrandsNoResult, SettlementProofs!WithdrawalStrandsNoResult,
         Settlement!Admissible, Settlement!Deployed, Settlement!Bound, Settlement!InWindow,
         Settlement!Fresh, Settlement!Authentic, SettlementProofs!Admissible,
         SettlementProofs!Deployed, SettlementProofs!Bound, SettlementProofs!InWindow,
         SettlementProofs!Fresh, SettlementProofs!Authentic
<1>7. SettlementProofs!TotalIsSumOfReceipts => Settlement!TotalIsSumOfReceipts
  BY DEF Settlement!TotalIsSumOfReceipts, SettlementProofs!TotalIsSumOfReceipts,
         Settlement!AmountDue, SettlementProofs!AmountDue,
         Settlement!SumFunction, SettlementProofs!SumFunction,
         Settlement!SumFunctionOnSet, SettlementProofs!SumFunctionOnSet,
         Settlement!FoldFunctionOnSet, SettlementProofs!FoldFunctionOnSet,
         Settlement!MapThenFoldSet, SettlementProofs!MapThenFoldSet
<1> QED BY <1>1, <1>2, <1>3, <1>5, <1>6, <1>7, SettlementProofsRun, AssumptionsOfSettlement,
           SettlementProofs!Backed, SettlementProofs!Conserved, SettlementProofs!GuardExact,
           SettlementProofs!TermsKept,
           SettlementProofs!NothingStranded, SettlementProofs!TotalExact, PTL

\* Every token that leaves a campaign is a commission an active machine has signed for,
\* or goes back to the merchant after the end, and no signed answer is honoured twice.
THEOREM CampaignsPayOnEvidence ==
    SystemSpec => /\ Settlement!OutflowsExplained /\ Settlement!DecidedOnceOnEvidence
                  /\ Settlement!HonouredOnce
<1>1. [\A s \in Contracts :
          balance'[s] < balance[s] =>
              \/ SettlementProofs!Paid(s, balance[s] - balance'[s])
              \/ SettlementProofs!Reclaimed(s, balance[s] - balance'[s])]_(SettlementProofs!vars)
      => [\A s \in Contracts :
          balance'[s] < balance[s] =>
              \/ Settlement!Paid(s, balance[s] - balance'[s])
              \/ Settlement!Reclaimed(s, balance[s] - balance'[s])]_(Settlement!vars)
  BY DEF Settlement!Paid, Settlement!Reclaimed, Settlement!ELIGIBLE, SettlementProofs!Paid,
         SettlementProofs!Reclaimed, SettlementProofs!ELIGIBLE, Settlement!vars,
         Settlement!storage, Settlement!events, SettlementProofs!vars, SettlementProofs!storage,
         SettlementProofs!events
<1>2. [\A s \in Contracts, o \in Orders :
          receipt'[s][o] # receipt[s][o] =>
              receipt[s][o] = NoResult /\ receipt'[s][o] \in AcceptedResults]_(SettlementProofs!vars)
      => [\A s \in Contracts, o \in Orders :
          receipt'[s][o] # receipt[s][o] =>
              receipt[s][o] = NoResult /\ receipt'[s][o] \in AcceptedResults]_(Settlement!vars)
  BY DEF Settlement!vars, Settlement!storage, Settlement!events, SettlementProofs!vars,
         SettlementProofs!storage, SettlementProofs!events
<1>3. SystemSpec => /\ SettlementProofs!OutflowsExplained
                    /\ SettlementProofs!DecidedOnceOnEvidence
                    /\ SettlementProofs!HonouredOnce
  BY SettlementProofsRun, AssumptionsOfSettlement, SettlementProofs!Outflows,
     SettlementProofs!FinalVerdicts, SettlementProofs!NoReplay
<1>4. SystemSpec => Settlement!OutflowsExplained
  BY <1>1, <1>3, PTL DEF Settlement!OutflowsExplained, SettlementProofs!OutflowsExplained
<1>5. SystemSpec => Settlement!DecidedOnceOnEvidence
  BY <1>2, <1>3, PTL DEF Settlement!DecidedOnceOnEvidence, SettlementProofs!DecidedOnceOnEvidence
<1>6. [\A s \in Contracts :
          receipt'[s] # receipt[s] \/ totalSettled'[s] # totalSettled[s] =>
              \E o \in Orders : SettlementProofs!Honours(s, receipt'[s][o])]_(SettlementProofs!vars)
      => [\A s \in Contracts :
          receipt'[s] # receipt[s] \/ totalSettled'[s] # totalSettled[s] =>
              \E o \in Orders : Settlement!Honours(s, receipt'[s][o])]_(Settlement!vars)
  BY DEF Settlement!Honours, SettlementProofs!Honours, Settlement!vars, Settlement!storage,
         Settlement!events, SettlementProofs!vars, SettlementProofs!storage,
         SettlementProofs!events
<1>7. SystemSpec => Settlement!HonouredOnce
  BY <1>3, <1>6, PTL DEF Settlement!HonouredOnce, SettlementProofs!HonouredOnce
<1> QED BY <1>4, <1>5, <1>7

\* From request to settlement, the whole system does what a campaign promises: a pool,
\* and one verdict per order.
THEOREM SystemImplementsEscrow == SystemSpec => Settlement!ImplementsEscrow
<1>1. SettlementProofs!Escrow!Init => Settlement!Escrow!Init
  BY DEF Settlement!Escrow!Init, SettlementProofs!Escrow!Init, Settlement!Verdict,
         Settlement!Ended, Settlement!Deployed, SettlementProofs!Verdict,
         SettlementProofs!Ended, SettlementProofs!Deployed
<1>2. [SettlementProofs!Escrow!Next]_(SettlementProofs!Escrow!escrowVars)
      => [Settlement!Escrow!Next]_(Settlement!Escrow!escrowVars)
  BY DEF Settlement!Escrow!Next, Settlement!Escrow!escrowVars, Settlement!Escrow!Close,
         Settlement!Escrow!Deposit, Settlement!Escrow!Reclaim, Settlement!Escrow!Decide,
         Settlement!Verdict, Settlement!Ended, Settlement!Deployed,
         SettlementProofs!Escrow!Next, SettlementProofs!Escrow!escrowVars,
         SettlementProofs!Escrow!Close, SettlementProofs!Escrow!Deposit,
         SettlementProofs!Escrow!Reclaim, SettlementProofs!Escrow!Decide,
         SettlementProofs!Verdict, SettlementProofs!Ended, SettlementProofs!Deployed
<1> QED BY <1>1, <1>2, SettlementProofsRun, AssumptionsOfSettlement,
           SettlementProofs!Implementation, PTL
        DEF Settlement!ImplementsEscrow, SettlementProofs!ImplementsEscrow,
            Settlement!Escrow!Spec, SettlementProofs!Escrow!Spec
=============================================================================
