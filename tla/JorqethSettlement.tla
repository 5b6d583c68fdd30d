------------------------- MODULE JorqethSettlement -------------------------
(***************************************************************************)
(* The JorqethSettlement contract: merchant-funded escrow that releases a  *)
(* commission against a signed, domain-bound result, once per order.       *)
(*                                                                         *)
(* Several instances live on one chain and share one token and one result  *)
(* verifier, so the contract's storage is indexed by the instance's        *)
(* address.  A transaction is one step: the EVM runs it alone, and a       *)
(* transaction that reverts leaves no trace, so every require and revert   *)
(* is a conjunct of the guard and a rejected call is a stuttering step.    *)
(*                                                                         *)
(* The token and the verifier are external.  The verifier is the set of    *)
(* results it accepts at the moment, which may grow and shrink at any      *)
(* time: a new result is signed, a signing machine leaves the active set.  *)
(***************************************************************************)
EXTENDS Integers, FiniteSets, Functions

CONSTANTS
    Contracts,       \* addresses a settlement contract may be deployed at
    Users,           \* addresses of people: merchants, creators
    Campaigns,       \* campaign ids
    Orders,          \* order digests
    Rules,           \* rule versions
    SchemaVersion,   \* the schema version the factory deploys with
    ChainId,         \* block.chainid
    Results,         \* the results that may ever be presented
    Configs,         \* the constructor arguments that may be used
    InitialBalance,  \* the token balances at the start
    Amounts,         \* the amounts a caller may pass
    MaxTime,         \* bound: the last block timestamp
    MaxFunded,       \* bound: what one contract may be funded in total
    NotDeployed,     \* the configuration of an address without a contract
    NoResult         \* the receipt of an order that was not settled

Accounts == Users \cup Contracts

INELIGIBLE == 0
ELIGIBLE == 1
INFRASTRUCTURE_UNKNOWN == 2

\* The nonce is left out: it is under the signature, and no contract reads it.
PayableResult ==
    [schemaVersion : Nat, campaignId : Campaigns, orderDigest : Orders,
     creator : Accounts, amount : Nat, eligibilityCode : Nat, chainId : Nat,
     settlementContract : Contracts, ruleVersion : Rules,
     issuedAt : Nat, expiry : Nat]

\* commissionBps is left out: the contract stores it and never reads it.
Config ==
    [merchant : Users, creator : Accounts, campaignId : Campaigns,
     ruleVersion : Rules, campaignEnd : Nat]

ASSUME AddressAssumption == Users \cap Contracts = {}
ASSUME ResultAssumption  == Results \subseteq PayableResult
ASSUME DigestAssumption  == IsFiniteSet(Orders)      \* a digest has 32 bytes
ASSUME ConfigAssumption  == Configs \subseteq Config
ASSUME AmountAssumption  == Amounts \subseteq Nat
ASSUME BalanceAssumption == InitialBalance \in [Accounts -> Nat]
ASSUME BoundAssumption   == MaxTime \in Nat /\ MaxFunded \in Nat
ASSUME NoneAssumption    == NotDeployed \notin Config /\ NoResult \notin PayableResult

VARIABLES
    now,            \* block.timestamp
    balance,        \* the token's balances
    accepts,        \* the results the verifier accepts now
    config,         \* the immutables of each deployed contract
    escrowBalance,  \* contract storage
    totalSettled,   \* contract storage
    settled,        \* contract storage: the digests already used
    receipt,        \* the Settled events: the result that settled an order
    funded,         \* the CampaignFunded events, summed
    withdrawn       \* the EscrowWithdrawn events, summed

storage == <<escrowBalance, totalSettled, settled>>
events  == <<receipt, funded, withdrawn>>
vars    == <<now, balance, accepts, config, storage, events>>

Deployed == {s \in Contracts : config[s] # NotDeployed}

TypeOK ==
    /\ now \in Nat
    /\ balance \in [Accounts -> Nat]
    /\ accepts \subseteq Results
    /\ config \in [Contracts -> Configs \cup {NotDeployed}]
    /\ escrowBalance \in [Contracts -> Nat]
    /\ totalSettled \in [Contracts -> Nat]
    /\ settled \in [Contracts -> SUBSET Orders]
    /\ receipt \in [Contracts -> [Orders -> Results \cup {NoResult}]]
    /\ funded \in [Contracts -> Nat]
    /\ withdrawn \in [Contracts -> Nat]

Init ==
    /\ now = 0
    /\ balance = InitialBalance
    /\ accepts = {}
    /\ config = [s \in Contracts |-> NotDeployed]
    /\ escrowBalance = [s \in Contracts |-> 0]
    /\ totalSettled = [s \in Contracts |-> 0]
    /\ settled = [s \in Contracts |-> {}]
    /\ receipt = [s \in Contracts |-> [o \in Orders |-> NoResult]]
    /\ funded = [s \in Contracts |-> 0]
    /\ withdrawn = [s \in Contracts |-> 0]

-----------------------------------------------------------------------------
(* The ERC-20 token.  A transfer of more than the sender holds reverts, and *)
(* the caller's transaction with it.                                       *)

Move(from, to, amount) ==
    LET debited == [balance EXCEPT ![from] = @ - amount]
    IN  /\ amount <= balance[from]
        /\ balance' = [debited EXCEPT ![to] = @ + amount]

\* A user's own transfer, to anyone: also straight to a settlement contract.
TokenTransfer(from, to, amount) ==
    /\ Move(from, to, amount)
    /\ UNCHANGED <<now, accepts, config, storage, events>>

-----------------------------------------------------------------------------
(* The environment: blocks and the verifier's set.                         *)

Tick ==
    /\ \E t \in (now + 1) .. MaxTime : now' = t
    /\ UNCHANGED <<balance, accepts, config, storage, events>>

\* Results are signed, signing machines join and leave: several results may
\* become acceptable, or stop being so, at once.
VerifierChanges ==
    /\ accepts' \in SUBSET Results
    /\ UNCHANGED <<now, balance, config, storage, events>>

-----------------------------------------------------------------------------
(* Slips of the contract's checks and bookkeeping.  No action uses them:    *)
(* each is a small mistake in the definition it is named after, and one of  *)
(* the properties below is there to exclude it.                            *)

Bound_AnyContract(s, r) ==
    /\ r.campaignId = config[s].campaignId
    /\ r.creator = config[s].creator

InWindow_OutlivesCampaign(s, r) == r.issuedAt <= now /\ now < r.expiry

Fresh_Always(s, r) == TRUE

Authentic_Always(r) == TRUE

Payable_UnlessDenied(r) == r.eligibilityCode # INELIGIBLE

Covers_Surplus(s, amount) == amount <= balance[s]

Covers_Strict(s, amount) == amount < escrowBalance[s]

Credit_Double(s, amount) == escrowBalance' = [escrowBalance EXCEPT ![s] = @ + 2 * amount]

Debit_Skipped(s, amount) == UNCHANGED escrowBalance

Unlocked_Always(s) == TRUE

Record_NoGuard(s, r) ==
    /\ receipt' = [receipt EXCEPT ![s][r.orderDigest] = r]
    /\ UNCHANGED settled

-----------------------------------------------------------------------------
(* The contract.                                                           *)

Deploy(s, c) ==
    /\ config[s] = NotDeployed
    /\ c.campaignEnd > now
    /\ config' = [config EXCEPT ![s] = c]
    /\ UNCHANGED <<now, balance, accepts, storage, events>>

Credit(s, amount) == escrowBalance' = [escrowBalance EXCEPT ![s] = @ + amount]

Debit(s, amount) == escrowBalance' = [escrowBalance EXCEPT ![s] = @ - amount]

Covers(s, amount) == amount <= escrowBalance[s]

\* There is no campaignEnd check: a merchant may add funds after the end.
Fund(s, caller, amount) ==
    /\ s \in Deployed
    /\ caller = config[s].merchant
    /\ amount # 0
    /\ funded[s] + amount <= MaxFunded
    /\ Move(caller, s, amount)
    /\ Credit(s, amount)
    /\ funded' = [funded EXCEPT ![s] = @ + amount]
    /\ UNCHANGED <<now, accepts, config, totalSettled, settled, receipt, withdrawn>>

Bound(s, r) ==
    /\ r.schemaVersion = SchemaVersion
    /\ r.campaignId = config[s].campaignId
    /\ r.chainId = ChainId
    /\ r.settlementContract = s
    /\ r.creator = config[s].creator
    /\ r.ruleVersion = config[s].ruleVersion

\* A result dies no later than the escrow lock lifts.
InWindow(s, r) ==
    /\ r.issuedAt <= now
    /\ now < r.expiry
    /\ r.expiry <= config[s].campaignEnd

Fresh(s, r) == r.orderDigest \notin settled[s]

Authentic(r) == r \in accepts

\* Everything settle() checks before it looks at the eligibility code.
Admissible(s, r) ==
    /\ s \in Deployed
    /\ Bound(s, r)
    /\ InWindow(s, r)
    /\ Fresh(s, r)
    /\ Authentic(r)

Record(s, r) ==
    /\ settled' = [settled EXCEPT ![s] = @ \cup {r.orderDigest}]
    /\ receipt' = [receipt EXCEPT ![s][r.orderDigest] = r]

SettleIneligible(s, r) ==
    /\ Admissible(s, r)
    /\ r.eligibilityCode = INELIGIBLE
    /\ r.amount = 0
    /\ Record(s, r)
    /\ UNCHANGED <<now, balance, accepts, config, escrowBalance, totalSettled,
                   funded, withdrawn>>

\* On any other code the call reverts and the digest stays unused.
Payable(r) == r.eligibilityCode = ELIGIBLE

SettleEligible(s, r) ==
    /\ Admissible(s, r)
    /\ Payable(r)
    /\ Covers(s, r.amount)
    /\ Record(s, r)
    /\ Debit(s, r.amount)
    /\ totalSettled' = [totalSettled EXCEPT ![s] = @ + r.amount]
    /\ Move(s, config[s].creator, r.amount)
    /\ UNCHANGED <<now, accepts, config, funded, withdrawn>>

\* Anyone may submit a result.
Settle(s, r) == SettleIneligible(s, r) \/ SettleEligible(s, r)

Unlocked(s) == now >= config[s].campaignEnd

WithdrawEscrow(s, caller, amount) ==
    /\ s \in Deployed
    /\ caller = config[s].merchant
    /\ Unlocked(s)
    /\ Covers(s, amount)
    /\ Debit(s, amount)
    /\ withdrawn' = [withdrawn EXCEPT ![s] = @ + amount]
    /\ Move(s, caller, amount)
    /\ UNCHANGED <<now, accepts, config, totalSettled, settled, receipt, funded>>

Environment ==
    \/ Tick
    \/ VerifierChanges
    \/ \E from \in Users, to \in Accounts, amount \in Amounts :
         TokenTransfer(from, to, amount)

Contract(s) ==
    \/ \E c \in Configs : Deploy(s, c)
    \/ \E caller \in Users, amount \in Amounts :
         Fund(s, caller, amount) \/ WithdrawEscrow(s, caller, amount)
    \/ \E r \in Results : Settle(s, r)

Next == Environment \/ \E s \in Contracts : Contract(s)

Spec == Init /\ [][Next]_vars
-----------------------------------------------------------------------------
(* Properties of the contract's state.                                     *)

\* Each instance holds at least the tokens its books say it holds: the
\* transfer and the bookkeeping of fund(), settle() and withdrawEscrow() agree,
\* whatever else happens to the shared token.
EscrowBacked == \A s \in Contracts : escrowBalance[s] <= balance[s]

\* Every token the merchant put in is still in escrow, was paid to the creator,
\* or went back to the merchant: the three entry points keep one set of books.
EscrowConserved ==
    \A s \in Contracts : funded[s] = escrowBalance[s] + totalSettled[s] + withdrawn[s]

AmountDue(s, o) == IF receipt[s][o] = NoResult THEN 0 ELSE receipt[s][o].amount

\* totalSettled is the sum of the Settled events, so no order was paid twice and
\* no denied order was paid at all.
TotalIsSumOfReceipts ==
    \A s \in Contracts :
        totalSettled[s] = SumFunction([o \in Orders |-> AmountDue(s, o)])

\* The replay guard and the Settled events say the same of every order, and the
\* event of an order is about that order.
GuardMatchesReceipts ==
    \A s \in Contracts, o \in Orders :
        /\ o \in settled[s] <=> receipt[s][o] # NoResult
        /\ receipt[s][o] # NoResult => receipt[s][o].orderDigest = o

\* Once the merchant has taken escrow back, no result can settle at that
\* contract any more: the settlement and the withdrawal windows are disjoint, so
\* a withdrawal never takes the money a valid result was about to pay.
WithdrawalStrandsNoResult ==
    \A s \in Contracts : withdrawn[s] > 0 => \A r \in Results : ~Admissible(s, r)

\* What settled an order always carried the terms its campaign was deployed with,
\* and paid something only as an ELIGIBLE outcome: an unknown outcome or a result
\* under another rule never uses up an order.
ReceiptsKeepTerms ==
    \A s \in Contracts, o \in Orders : receipt[s][o] # NoResult =>
        /\ receipt[s][o].creator = config[s].creator
        /\ receipt[s][o].ruleVersion = config[s].ruleVersion
        /\ receipt[s][o].eligibilityCode \in {INELIGIBLE, ELIGIBLE}
        /\ receipt[s][o].eligibilityCode = INELIGIBLE => receipt[s][o].amount = 0

-----------------------------------------------------------------------------
(* Properties of the contract's steps.                                     *)

\* An order is decided at most once, and only on a result the verifier accepts
\* at that moment: a receipt is final, and none appears without evidence.
DecidedOnceOnEvidence ==
    [][\A s \in Contracts, o \in Orders :
          receipt'[s][o] # receipt[s][o] =>
              receipt[s][o] = NoResult /\ receipt'[s][o] \in accepts]_vars

Honours(s, r) ==
    /\ r \in Results
    /\ totalSettled'[s] = totalSettled[s] + r.amount
    /\ \A t \in Contracts, o \in Orders : receipt[t][o] # r

\* One signed result is honoured at most once on the whole chain.  Whenever a contract
\* files a verdict or pays a commission, it does so for one result that no contract
\* had honoured yet, this one included: presenting a result again, here or at another
\* campaign of the same factory, neither pays nor decides anything.
HonouredOnce ==
    [][\A s \in Contracts :
          receipt'[s] # receipt[s] \/ totalSettled'[s] # totalSettled[s] =>
              \E o \in Orders : Honours(s, receipt'[s][o])]_vars

Paid(s, amount) ==
    /\ now < config[s].campaignEnd
    /\ \E o \in Orders :
         /\ receipt[s][o] = NoResult
         /\ receipt'[s][o] \in Results
         /\ receipt'[s][o].amount = amount
         /\ receipt'[s][o].eligibilityCode = ELIGIBLE
    /\ balance'[config[s].creator] = balance[config[s].creator] + amount

Reclaimed(s, amount) ==
    /\ now >= config[s].campaignEnd
    /\ receipt' = receipt
    /\ balance'[config[s].merchant] = balance[config[s].merchant] + amount

\* Tokens leave a contract in two ways only: before the end, the exact amount of
\* a newly settled eligible result to the creator of the campaign; after the end,
\* to its merchant.
OutflowsExplained ==
    [][\A s \in Contracts :
          balance'[s] < balance[s] =>
              \/ Paid(s, balance[s] - balance'[s])
              \/ Reclaimed(s, balance[s] - balance'[s])]_vars

\* Tokens sent to the contract outside fund() never enter its books: no call
\* pays from them, so what one campaign can spend is what its merchant funded.
SurplusNeverSpent ==
    [][\A s \in Contracts :
          balance'[s] - escrowBalance'[s] >= balance[s] - escrowBalance[s]]_vars

-----------------------------------------------------------------------------
(* The contract implements the abstract escrow.                            *)

Verdict ==
    [s \in Contracts |-> [o \in Orders |->
        IF receipt[s][o] = NoResult THEN NoResult ELSE receipt[s][o].amount]]

Ended == {s \in Deployed : config[s].campaignEnd <= now}

Escrow == INSTANCE CommissionEscrow WITH
    Undecided <- NoResult, pool <- escrowBalance, verdict <- Verdict, closed <- Ended

\* Every behaviour of the settlement contracts is a behaviour of the abstract
\* escrow: orders are decided once, from the pool, while the campaign is open.
ImplementsEscrow == Escrow!Spec

-----------------------------------------------------------------------------
(* No escrow is locked for good.                                           *)

\* Blocks keep coming, and a merchant keeps asking for all that is left.
FairSpec ==
    /\ Spec
    /\ WF_vars(Tick)
    /\ \A s \in Contracts, u \in Users : WF_vars(WithdrawEscrow(s, u, escrowBalance[s]))

\* A merchant who keeps asking gets the whole escrow back, whatever others settle
\* in between: from every funded state the escrow is eventually empty.
EscrowRecoverable == \A s \in Contracts : escrowBalance[s] > 0 ~> escrowBalance[s] = 0
=============================================================================
