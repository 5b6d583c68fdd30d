---------------------- MODULE JorqethSettlementProofs ----------------------
(***************************************************************************)
(* What holds of JorqethSettlement for every set of contracts, users,      *)
(* orders and results, every verifier and every bound.                     *)
(***************************************************************************)
EXTENDS JorqethSettlement, SumLemmas, TLAPS

\* A token transfer keeps balances natural numbers and changes exactly the two
\* accounts it names, by the amount, also when they are the same account.
LEMMA MoveEffect ==
    ASSUME balance \in [Accounts -> Nat],
           NEW from \in Accounts, NEW to \in Accounts, NEW amount \in Nat,
           Move(from, to, amount)
    PROVE  /\ balance' \in [Accounts -> Nat]
           /\ amount <= balance[from]
           /\ from # to => balance'[from] = balance[from] - amount
           /\ from # to => balance'[to] = balance[to] + amount
           /\ from = to => balance'[from] = balance[from]
           /\ \A a \in Accounts \ {from, to} : balance'[a] = balance[a]
BY DEF Move

\* A transfer takes from the sender only: nobody else's balance goes down.
LEMMA MoveOnlyDebitsSender ==
    ASSUME balance \in [Accounts -> Nat],
           NEW from \in Accounts, NEW to \in Accounts, NEW amount \in Nat,
           Move(from, to, amount), NEW a \in Accounts
    PROVE  /\ a # from => balance'[a] >= balance[a]
           /\ balance'[a] >= balance[a] - amount
<1>1. balance[a] \in Nat /\ balance[from] \in Nat
  OBVIOUS
<1>2. CASE from = to
  BY <1>1, <1>2, MoveEffect
<1>3. CASE from # to
  BY <1>1, <1>3, MoveEffect
<1> QED BY <1>2, <1>3

\* The fields of a result that the contract computes with have their types.
LEMMA ResultFields ==
    ASSUME NEW r \in Results
    PROVE  /\ r.amount \in Nat /\ r.orderDigest \in Orders
           /\ r.expiry \in Nat /\ r.issuedAt \in Nat
           /\ r.eligibilityCode \in Nat
BY ResultAssumption DEF PayableResult

\* A deployed contract has a merchant, a creator and an end.
LEMMA ConfigFields ==
    ASSUME TypeOK, NEW s \in Deployed
    PROVE  /\ config[s] \in Configs
           /\ config[s].merchant \in Users
           /\ config[s].creator \in Accounts
           /\ config[s].campaignEnd \in Nat
BY ConfigAssumption DEF TypeOK, Deployed, Config

\* Recording a result marks its order, and no other, as settled by that result.
LEMMA RecordEffect ==
    ASSUME TypeOK, NEW s \in Contracts, NEW r \in Results, Record(s, r)
    PROVE  /\ settled' \in [Contracts -> SUBSET Orders]
           /\ receipt' \in [Contracts -> [Orders -> Results \cup {NoResult}]]
           /\ settled'[s] = settled[s] \cup {r.orderDigest}
           /\ \A t \in Contracts \ {s} : settled'[t] = settled[t] /\ receipt'[t] = receipt[t]
           /\ receipt'[s][r.orderDigest] = r
           /\ \A o \in Orders \ {r.orderDigest} : receipt'[s][o] = receipt[s][o]
<1>1. r.orderDigest \in Orders
  BY ResultFields
<1>2. settled' = [settled EXCEPT ![s] = @ \cup {r.orderDigest}]
  BY DEF Record
<1>3. receipt' = [receipt EXCEPT ![s] = [@ EXCEPT ![r.orderDigest] = r]]
  BY DEF Record
<1>4. [receipt[s] EXCEPT ![r.orderDigest] = r] \in [Orders -> Results \cup {NoResult}]
  BY <1>1 DEF TypeOK
<1> QED BY <1>1, <1>2, <1>3, <1>4 DEF TypeOK

-----------------------------------------------------------------------------
(* Types.                                                                  *)

\* Each variable keeps its type: in particular no escrow, total or token balance
\* ever goes below zero, so no subtraction in the contract can underflow.
THEOREM TypeCorrect == Spec => []TypeOK
<1>1. Init => TypeOK
  BY BalanceAssumption DEF Init, TypeOK
<1>2. TypeOK /\ [Next]_vars => TypeOK'
  <2> SUFFICES ASSUME TypeOK, [Next]_vars PROVE TypeOK'
    OBVIOUS
  <2> USE DEF TypeOK, Accounts
  <2>1. CASE UNCHANGED vars
    BY <2>1 DEF vars, storage, events
  <2>2. CASE Tick
    BY <2>2, BoundAssumption DEF Tick, storage, events
  <2>3. CASE VerifierChanges
    BY <2>3 DEF VerifierChanges, storage, events
  <2>4. ASSUME NEW from \in Users, NEW to \in Accounts, NEW amount \in Amounts,
               TokenTransfer(from, to, amount)
        PROVE  TypeOK'
    <3>1. balance' \in [Accounts -> Nat]
      BY <2>4, MoveEffect, AmountAssumption DEF TokenTransfer
    <3> QED BY <2>4, <3>1 DEF TokenTransfer, storage, events
  <2>5. ASSUME NEW s \in Contracts, NEW c \in Configs, Deploy(s, c)
        PROVE  TypeOK'
    BY <2>5 DEF Deploy, storage, events
  <2>6. ASSUME NEW s \in Contracts, NEW u \in Users, NEW amount \in Amounts,
               Fund(s, u, amount)
        PROVE  TypeOK'
    <3>1. balance' \in [Accounts -> Nat]
      BY <2>6, MoveEffect, AmountAssumption DEF Fund
    <3>2. amount \in Nat
      BY AmountAssumption
    <3>3. escrowBalance' \in [Contracts -> Nat] /\ funded' \in [Contracts -> Nat]
      BY <2>6, <3>2 DEF Fund, Credit
    <3> QED BY <2>6, <3>1, <3>3 DEF Fund
  <2>7. ASSUME NEW s \in Contracts, NEW u \in Users, NEW amount \in Amounts,
               WithdrawEscrow(s, u, amount)
        PROVE  TypeOK'
    <3>1. balance' \in [Accounts -> Nat]
      BY <2>7, MoveEffect, AmountAssumption DEF WithdrawEscrow
    <3>2. amount \in Nat
      BY AmountAssumption
    <3>3. escrowBalance' \in [Contracts -> Nat] /\ withdrawn' \in [Contracts -> Nat]
      BY <2>7, <3>2 DEF WithdrawEscrow, Covers, Debit
    <3> QED BY <2>7, <3>1, <3>3 DEF WithdrawEscrow
  <2>8. ASSUME NEW s \in Contracts, NEW r \in Results, SettleIneligible(s, r)
        PROVE  TypeOK'
    BY <2>8, RecordEffect DEF SettleIneligible
  <2>9. ASSUME NEW s \in Contracts, NEW r \in Results, SettleEligible(s, r)
        PROVE  TypeOK'
    <3>1. s \in Deployed
      BY <2>9 DEF SettleEligible, Admissible
    <3>2. balance' \in [Accounts -> Nat]
      BY <2>9, <3>1, MoveEffect, ResultFields, ConfigFields DEF SettleEligible
    <3>3. escrowBalance' \in [Contracts -> Nat]
      BY <2>9, ResultFields DEF SettleEligible, Covers, Debit
    <3>4. totalSettled' \in [Contracts -> Nat]
      BY <2>9, ResultFields DEF SettleEligible
    <3> QED BY <2>9, <3>2, <3>3, <3>4, RecordEffect DEF SettleEligible
  <2> QED
    BY <2>1, <2>2, <2>3, <2>4, <2>5, <2>6, <2>7, <2>8, <2>9
    DEF Next, Environment, Contract, Settle
<1> QED BY <1>1, <1>2, PTL DEF Spec
-----------------------------------------------------------------------------
(* The inductive invariant.                                                *)
(*                                                                         *)
(* HonouredOnce needs to know which contract and order the receipts        *)
(* already held are bound to; WithdrawalStrandsNoResult is not inductive:  *)
(* it needs to know that what was withdrawn was withdrawn late.            *)

ReceiptsBound ==
    \A s \in Contracts, o \in Orders : receipt[s][o] # NoResult =>
        /\ s \in Deployed
        /\ Bound(s, receipt[s][o])
        /\ receipt[s][o].eligibilityCode \in {INELIGIBLE, ELIGIBLE}
        /\ receipt[s][o].eligibilityCode = INELIGIBLE => receipt[s][o].amount = 0

ReclaimedLate ==
    \A s \in Contracts : withdrawn[s] > 0 =>
        s \in Deployed /\ config[s].campaignEnd <= now

IInv ==
    /\ EscrowBacked
    /\ EscrowConserved
    /\ GuardMatchesReceipts
    /\ ReceiptsBound
    /\ ReclaimedLate

\* The books of a contract are natural numbers, before and after a step.
LEMMA BooksNat ==
    ASSUME TypeOK, TypeOK', NEW s \in Contracts
    PROVE  /\ balance[s] \in Nat /\ balance'[s] \in Nat
           /\ escrowBalance[s] \in Nat /\ escrowBalance'[s] \in Nat
BY DEF TypeOK, Accounts

\* A deployed contract keeps its configuration for ever.
LEMMA ConfigFixed ==
    ASSUME TypeOK, [Next]_vars, NEW s \in Deployed
    PROVE  s \in Deployed' /\ config'[s] = config[s]
<1> USE DEF Deployed, TypeOK
<1>1. CASE config' = config
  BY <1>1
<1>2. ASSUME NEW t \in Contracts, NEW c \in Configs, Deploy(t, c)
      PROVE  s \in Deployed' /\ config'[s] = config[s]
  BY <1>2 DEF Deploy
<1> QED
  BY <1>1, <1>2 DEF Next, Environment, Contract, Settle, Tick, VerifierChanges,
     TokenTransfer, Fund, WithdrawEscrow, SettleIneligible, SettleEligible, vars

\* Receipts stay bound when neither they nor the configuration they name move.
LEMMA ReceiptsStayBound ==
    ASSUME TypeOK, ReceiptsBound, [Next]_vars, UNCHANGED receipt
    PROVE  ReceiptsBound'
<1> SUFFICES ASSUME NEW s \in Contracts, NEW o \in Orders, receipt[s][o] # NoResult
             PROVE  s \in Deployed' /\ Bound(s, receipt[s][o])'
  BY DEF ReceiptsBound
<1>1. s \in Deployed /\ Bound(s, receipt[s][o])
  BY DEF ReceiptsBound
<1>2. s \in Deployed' /\ config'[s] = config[s]
  BY <1>1, ConfigFixed
<1> QED BY <1>1, <1>2 DEF Bound

\* A recorded result that was admissible leaves every receipt bound, and the
\* replay guard in step with the receipts.
LEMMA RecordKeepsReceipts ==
    ASSUME TypeOK, ReceiptsBound, GuardMatchesReceipts,
           NEW s \in Contracts, NEW r \in Results, Admissible(s, r), Record(s, r),
           r.eligibilityCode \in {INELIGIBLE, ELIGIBLE},
           r.eligibilityCode = INELIGIBLE => r.amount = 0,
           UNCHANGED config
    PROVE  ReceiptsBound' /\ GuardMatchesReceipts'
<1>1. r # NoResult /\ r.orderDigest \in Orders
  BY ResultAssumption, NoneAssumption, ResultFields
<1>2. ASSUME NEW t \in Contracts, NEW o \in Orders
      PROVE  \/ receipt'[t][o] = receipt[t][o] /\ (o \in settled'[t] <=> o \in settled[t])
             \/ t = s /\ o = r.orderDigest /\ receipt'[t][o] = r /\ o \in settled'[t]
  BY RecordEffect
<1>3. Bound(s, r) /\ s \in Deployed
  BY DEF Admissible
<1>4. GuardMatchesReceipts'
  BY <1>1, <1>2 DEF GuardMatchesReceipts
<1>5. Deployed' = Deployed
  BY DEF Deployed
<1>6. ReceiptsBound'
  BY <1>1, <1>2, <1>3, <1>5 DEF ReceiptsBound, Bound
<1> QED BY <1>4, <1>6

\* The invariant the theorems below rest on: the books add up, the replay guard and
\* the receipts agree, receipts are bound, and withdrawals were late.
THEOREM Inductive == Spec => []IInv
<1>1. Init => IInv
  BY BalanceAssumption DEF Init, IInv, EscrowBacked, EscrowConserved, GuardMatchesReceipts,
     ReceiptsBound, ReclaimedLate, Accounts
<1>2. TypeOK /\ TypeOK' /\ IInv /\ [Next]_vars => IInv'
  <2> SUFFICES ASSUME TypeOK, TypeOK', IInv, [Next]_vars PROVE IInv'
    OBVIOUS
  <2> USE DEF IInv
  <2>1. CASE UNCHANGED vars
    BY <2>1 DEF vars, storage, events, EscrowBacked, EscrowConserved,
       GuardMatchesReceipts, ReceiptsBound, ReclaimedLate, Deployed, Bound
  <2>2. CASE Tick
    <3>1. now <= now'
      BY <2>2, BoundAssumption DEF Tick, TypeOK
    <3>2. ReclaimedLate'
      BY <2>2, <3>1, ConfigFixed, ConfigFields
      DEF Tick, events, ReclaimedLate, TypeOK
    <3> QED
      BY <2>2, <3>2, ReceiptsStayBound
      DEF Tick, storage, events, EscrowBacked, EscrowConserved, GuardMatchesReceipts
  <2>3. CASE VerifierChanges
    BY <2>3, ReceiptsStayBound
    DEF VerifierChanges, storage, events, EscrowBacked, EscrowConserved,
        GuardMatchesReceipts, ReclaimedLate, Deployed
  <2>4. ASSUME NEW from \in Users, NEW to \in Accounts, NEW amount \in Amounts,
               TokenTransfer(from, to, amount)
        PROVE  IInv'
    <3>1. \A s \in Contracts : balance'[s] >= balance[s]
      <4> SUFFICES ASSUME NEW s \in Contracts PROVE balance'[s] >= balance[s]
        OBVIOUS
      <4>1. s \in Accounts /\ from \in Accounts /\ s # from /\ amount \in Nat
        BY AddressAssumption, AmountAssumption DEF Accounts
      <4> QED BY <2>4, <4>1, MoveOnlyDebitsSender DEF TokenTransfer, TypeOK
    <3>2. EscrowBacked'
      BY <2>4, <3>1, BooksNat DEF TokenTransfer, storage, EscrowBacked
    <3> QED
      BY <2>4, <3>2, ReceiptsStayBound
      DEF TokenTransfer, storage, events, EscrowConserved, GuardMatchesReceipts,
          ReclaimedLate, Deployed
  <2>5. ASSUME NEW s \in Contracts, NEW c \in Configs, Deploy(s, c)
        PROVE  IInv'
    <3>1. ReclaimedLate'
      BY <2>5, ConfigFixed DEF Deploy, events, ReclaimedLate
    <3> QED
      BY <2>5, <3>1, ReceiptsStayBound
      DEF Deploy, storage, events, EscrowBacked, EscrowConserved, GuardMatchesReceipts
  <2>6. ASSUME NEW s \in Contracts, NEW u \in Users, NEW amount \in Amounts,
               Fund(s, u, amount)
        PROVE  IInv'
    <3>0. amount \in Nat /\ u # s /\ u \in Accounts /\ Contracts \subseteq Accounts
      BY AmountAssumption, AddressAssumption DEF Accounts
    <3>1. /\ balance'[s] = balance[s] + amount
          /\ \A t \in Contracts \ {s} : balance'[t] = balance[t]
      BY <2>6, <3>0, MoveEffect, AddressAssumption DEF Fund, TypeOK
    <3>2. /\ escrowBalance'[s] = escrowBalance[s] + amount
          /\ funded'[s] = funded[s] + amount
          /\ \A t \in Contracts \ {s} : /\ escrowBalance'[t] = escrowBalance[t]
                                       /\ funded'[t] = funded[t]
      BY <2>6 DEF Fund, Credit, TypeOK
    <3>3. EscrowBacked'
      BY <3>0, <3>1, <3>2, BooksNat DEF EscrowBacked
    <3>4. EscrowConserved'
      BY <2>6, <3>0, <3>2 DEF Fund, EscrowConserved, TypeOK
    <3> QED
      BY <2>6, <3>3, <3>4, ReceiptsStayBound
      DEF Fund, GuardMatchesReceipts, ReclaimedLate, Deployed
  <2>7. ASSUME NEW s \in Contracts, NEW u \in Users, NEW amount \in Amounts,
               WithdrawEscrow(s, u, amount)
        PROVE  IInv'
    <3>0. amount \in Nat /\ u # s /\ u \in Accounts /\ Contracts \subseteq Accounts
      BY AmountAssumption, AddressAssumption DEF Accounts
    <3>1. /\ balance'[s] = balance[s] - amount
          /\ \A t \in Contracts \ {s} : balance'[t] = balance[t]
      BY <2>7, <3>0, MoveEffect, AddressAssumption DEF WithdrawEscrow, TypeOK
    <3>2. /\ escrowBalance'[s] = escrowBalance[s] - amount
          /\ withdrawn'[s] = withdrawn[s] + amount
          /\ \A t \in Contracts \ {s} : /\ escrowBalance'[t] = escrowBalance[t]
                                       /\ withdrawn'[t] = withdrawn[t]
      BY <2>7 DEF WithdrawEscrow, Debit, TypeOK
    <3>3. EscrowBacked'
      BY <3>0, <3>1, <3>2, BooksNat DEF EscrowBacked
    <3>4. EscrowConserved'
      BY <2>7, <3>0, <3>2 DEF WithdrawEscrow, EscrowConserved, TypeOK
    <3>5. s \in Deployed /\ config[s].campaignEnd <= now
      BY <2>7, ConfigFields DEF WithdrawEscrow, Unlocked, TypeOK
    <3>6. ReclaimedLate'
      BY <2>7, <3>2, <3>5 DEF WithdrawEscrow, ReclaimedLate, Deployed
    <3> QED
      BY <2>7, <3>3, <3>4, <3>6, ReceiptsStayBound
      DEF WithdrawEscrow, GuardMatchesReceipts
  <2>8. ASSUME NEW s \in Contracts, NEW r \in Results, SettleIneligible(s, r)
        PROVE  IInv'
    <3>1. ReceiptsBound' /\ GuardMatchesReceipts'
      BY <2>8, RecordKeepsReceipts DEF SettleIneligible
    <3> QED
      BY <2>8, <3>1
      DEF SettleIneligible, EscrowBacked, EscrowConserved, ReclaimedLate, Deployed
  <2>9. ASSUME NEW s \in Contracts, NEW r \in Results, SettleEligible(s, r)
        PROVE  IInv'
    <3>0. /\ r.amount \in Nat /\ s \in Accounts
          /\ s \in Deployed /\ config[s].creator \in Accounts
      BY <2>9, ResultFields, ConfigFields DEF SettleEligible, Admissible, Accounts
    <3>1. ReceiptsBound' /\ GuardMatchesReceipts'
      BY <2>9, RecordKeepsReceipts DEF SettleEligible, Payable, ELIGIBLE, INELIGIBLE
    <3>2. /\ balance'[s] >= balance[s] - r.amount
          /\ \A t \in Contracts \ {s} : balance'[t] >= balance[t]
      BY <2>9, <3>0, MoveOnlyDebitsSender DEF SettleEligible, TypeOK, Accounts
    <3>3. /\ escrowBalance'[s] = escrowBalance[s] - r.amount
          /\ totalSettled'[s] = totalSettled[s] + r.amount
          /\ \A t \in Contracts \ {s} : /\ escrowBalance'[t] = escrowBalance[t]
                                       /\ totalSettled'[t] = totalSettled[t]
      BY <2>9 DEF SettleEligible, Debit, TypeOK
    <3>4. EscrowBacked'
      BY <3>0, <3>2, <3>3, BooksNat DEF EscrowBacked
    <3>5. EscrowConserved'
      BY <2>9, <3>0, <3>3 DEF SettleEligible, EscrowConserved, TypeOK
    <3> QED
      BY <2>9, <3>1, <3>4, <3>5 DEF SettleEligible, ReclaimedLate, Deployed
  <2> QED
    BY <2>1, <2>2, <2>3, <2>4, <2>5, <2>6, <2>7, <2>8, <2>9
    DEF Next, Environment, Contract, Settle
<1> QED BY <1>1, <1>2, TypeCorrect, PTL DEF Spec
-----------------------------------------------------------------------------
(* Safety.                                                                 *)

\* At every contract the token balance covers the escrow the books show.
THEOREM Backed == Spec => []EscrowBacked
<1>1. IInv => EscrowBacked
  BY DEF IInv
<1> QED BY <1>1, Inductive, PTL

\* Everything the merchant funded is in escrow, with the creator, or back.
THEOREM Conserved == Spec => []EscrowConserved
<1>1. IInv => EscrowConserved
  BY DEF IInv
<1> QED BY <1>1, Inductive, PTL

\* The replay guard marks exactly the orders that have a Settled event.
THEOREM GuardExact == Spec => []GuardMatchesReceipts
<1>1. IInv => GuardMatchesReceipts
  BY DEF IInv
<1> QED BY <1>1, Inductive, PTL

\* What the receipts of a contract say was due, order by order.
Dues(s) == [o \in Orders |-> AmountDue(s, o)]

\* A recorded result adds its amount to what the receipts of its contract say was
\* due, since its order had no receipt, and changes no other contract's.
LEMMA RecordAddsDue ==
    ASSUME TypeOK, GuardMatchesReceipts, NEW s \in Contracts, NEW r \in Results,
           Fresh(s, r), Record(s, r)
    PROVE  /\ SumFunction(Dues(s))' = SumFunction(Dues(s)) + r.amount
           /\ \A t \in Contracts \ {s} : Dues(t)' = Dues(t)
<1>1. r.orderDigest \in Orders /\ r.amount \in Nat /\ r # NoResult
  BY ResultFields, ResultAssumption, NoneAssumption
<1>2. receipt[s][r.orderDigest] = NoResult
  BY <1>1 DEF Fresh, GuardMatchesReceipts
<1>3. Dues(s) \in [Orders -> Int]
  <2>1. ASSUME NEW o \in Orders PROVE AmountDue(s, o) \in Int
    <3>1. receipt[s][o] \in Results \cup {NoResult}
      BY DEF TypeOK
    <3> QED BY <3>1, ResultFields DEF AmountDue
  <2> QED BY <2>1 DEF Dues
<1>4. Dues(s)' = [Dues(s) EXCEPT ![r.orderDigest] = @ + r.amount]
  <2>1. AmountDue(s, r.orderDigest) = 0 /\ AmountDue(s, r.orderDigest)' = r.amount
    BY <1>1, <1>2, RecordEffect DEF AmountDue
  <2>2. \A o \in Orders \ {r.orderDigest} : AmountDue(s, o)' = AmountDue(s, o)
    BY RecordEffect DEF AmountDue
  <2>3. r.amount = 0 + r.amount
    BY <1>1
  <2> QED BY <1>1, <2>1, <2>2, <2>3 DEF Dues
<1>5. SumFunction(Dues(s)') = SumFunction(Dues(s)) + r.amount
  <2>1. PICK f \in [Orders -> Int] : f = Dues(s)
    BY <1>3
  <2>2. SumFunction([f EXCEPT ![r.orderDigest] = @ + r.amount]) = SumFunction(f) + r.amount
    <3>1. PICK x \in Orders, a \in Int : x = r.orderDigest /\ a = r.amount
      BY <1>1
    <3>2. IsFiniteSet(Orders)
      BY DigestAssumption
    <3>3. SumFunction([f EXCEPT ![x] = @ + a]) = SumFunction(f) + a
      BY <3>2, SumOfOneMore
    <3> QED BY <3>1, <3>3
  <2> QED BY <1>4, <2>1, <2>2
<1>6. ASSUME NEW t \in Contracts \ {s} PROVE Dues(t)' = Dues(t)
  BY RecordEffect DEF Dues, AmountDue
<1> QED BY <1>5, <1>6

\* What a contract has paid is what its Settled events say, order by order.
THEOREM TotalExact == Spec => []TotalIsSumOfReceipts
<1>1. Init => TotalIsSumOfReceipts
  <2> SUFFICES ASSUME Init, NEW s \in Contracts
               PROVE  totalSettled[s] = SumFunction(Dues(s))
    BY DEF TotalIsSumOfReceipts, Dues
  <2>1. PICK f : f = Dues(s)
    OBVIOUS
  <2>2. f \in [Orders -> {0}]
    BY <2>1 DEF Dues, AmountDue, Init
  <2>3. SumFunction(f) = 0
    BY <2>2, DigestAssumption, SumOfZeroes
  <2> QED BY <2>1, <2>3 DEF Init
<1>2. TypeOK /\ IInv /\ TotalIsSumOfReceipts /\ [Next]_vars => TotalIsSumOfReceipts'
  <2> SUFFICES ASSUME TypeOK, IInv, TotalIsSumOfReceipts, [Next]_vars,
                      NEW t \in Contracts
               PROVE  totalSettled'[t] = SumFunction(Dues(t))'
    BY DEF TotalIsSumOfReceipts, Dues
  <2>1. totalSettled[t] = SumFunction(Dues(t))
    BY DEF TotalIsSumOfReceipts, Dues
  <2>2. CASE UNCHANGED <<totalSettled, receipt>>
    BY <2>1, <2>2 DEF Dues, AmountDue
  <2>3. ASSUME NEW s \in Contracts, NEW r \in Results, SettleIneligible(s, r)
        PROVE  totalSettled'[t] = SumFunction(Dues(t))'
    <3>1. /\ SumFunction(Dues(s))' = SumFunction(Dues(s)) + 0
          /\ \A u \in Contracts \ {s} : Dues(u)' = Dues(u)
      BY <2>3, RecordAddsDue DEF SettleIneligible, Admissible, IInv
    <3>2. UNCHANGED totalSettled /\ totalSettled[t] \in Nat
      BY <2>3 DEF SettleIneligible, TypeOK
    <3>3. CASE t = s
      BY <2>1, <3>1, <3>2, <3>3
    <3>4. CASE t # s
      BY <2>1, <3>1, <3>2, <3>4
    <3> QED BY <3>3, <3>4
  <2>4. ASSUME NEW s \in Contracts, NEW r \in Results, SettleEligible(s, r)
        PROVE  totalSettled'[t] = SumFunction(Dues(t))'
    <3>1. /\ SumFunction(Dues(s))' = SumFunction(Dues(s)) + r.amount
          /\ \A u \in Contracts \ {s} : Dues(u)' = Dues(u)
      BY <2>4, RecordAddsDue DEF SettleEligible, Admissible, IInv
    <3>2. totalSettled' = [totalSettled EXCEPT ![s] = @ + r.amount]
      BY <2>4 DEF SettleEligible
    <3>3. totalSettled \in [Contracts -> Nat]
      BY DEF TypeOK
    <3>4. CASE t = s
      BY <2>1, <3>1, <3>2, <3>3, <3>4
    <3>5. CASE t # s
      BY <2>1, <3>1, <3>2, <3>3, <3>5
    <3> QED BY <3>4, <3>5
  <2> QED BY <2>2, <2>3, <2>4 DEF Next, Environment, Contract, Settle, Tick,
             VerifierChanges, TokenTransfer, Deploy, Fund, WithdrawEscrow, vars, storage, events
<1> QED BY <1>1, <1>2, TypeCorrect, Inductive, PTL DEF Spec

\* Whatever settled an order carried the terms of the campaign.
THEOREM TermsKept == Spec => []ReceiptsKeepTerms
<1>1. IInv => ReceiptsKeepTerms
  BY DEF IInv, ReceiptsBound, ReceiptsKeepTerms, Bound
<1> QED BY <1>1, Inductive, PTL

\* The settlement and withdrawal windows are disjoint: after a withdrawal no
\* result is admissible at that contract.
THEOREM NothingStranded == Spec => []WithdrawalStrandsNoResult
<1>1. IInv /\ TypeOK => WithdrawalStrandsNoResult
  <2> SUFFICES ASSUME IInv, TypeOK, NEW s \in Contracts, withdrawn[s] > 0,
                      NEW r \in Results, Admissible(s, r)
               PROVE  FALSE
    BY DEF WithdrawalStrandsNoResult
  <2>1. s \in Deployed /\ config[s].campaignEnd <= now
    BY DEF IInv, ReclaimedLate
  <2>2. now < r.expiry /\ r.expiry <= config[s].campaignEnd
    BY DEF Admissible, InWindow
  <2> QED BY <2>1, <2>2, ConfigFields, ResultFields DEF TypeOK
<1> QED BY <1>1, Inductive, TypeCorrect, PTL

\* A verdict is final and rests on a result the verifier accepted in that step.
THEOREM FinalVerdicts == Spec => DecidedOnceOnEvidence
<1> DEFINE Step == \A s \in Contracts, o \in Orders :
                      receipt'[s][o] # receipt[s][o] =>
                          receipt[s][o] = NoResult /\ receipt'[s][o] \in accepts
<1>1. TypeOK /\ IInv /\ [Next]_vars => [Step]_vars
  <2> SUFFICES ASSUME TypeOK, IInv, [Next]_vars PROVE Step
    OBVIOUS
  <2>1. CASE UNCHANGED receipt
    BY <2>1
  <2>2. ASSUME NEW s \in Contracts, NEW r \in Results, Admissible(s, r), Record(s, r)
        PROVE  Step
    <3>1. r \in accepts /\ r.orderDigest \notin settled[s]
      BY <2>2 DEF Admissible, Fresh, Authentic
    <3>2. receipt[s][r.orderDigest] = NoResult
      BY <3>1, ResultFields DEF IInv, GuardMatchesReceipts
    <3> QED BY <2>2, <3>1, <3>2, RecordEffect
  <2> QED
    BY <2>1, <2>2 DEF Next, Environment, Contract, Settle, Tick, VerifierChanges,
       TokenTransfer, Deploy, Fund, WithdrawEscrow, SettleIneligible, SettleEligible,
       vars, events
<1> QED BY <1>1, TypeCorrect, Inductive, PTL DEF Spec, DecidedOnceOnEvidence

\* Whatever a step files or pays is owed to one result that was never honoured before:
\* receipts name their contract and order, so a fresh order is a fresh result.
THEOREM NoReplay == Spec => HonouredOnce
<1> DEFINE Step == \A s \in Contracts :
                      receipt'[s] # receipt[s] \/ totalSettled'[s] # totalSettled[s] =>
                          \E o \in Orders : Honours(s, receipt'[s][o])
<1>1. TypeOK /\ IInv /\ [Next]_vars => [Step]_vars
  <2> SUFFICES ASSUME TypeOK, IInv, [Next]_vars PROVE Step
    OBVIOUS
  <2>1. CASE UNCHANGED <<receipt, totalSettled>>
    BY <2>1
  <2>2. ASSUME NEW s \in Contracts, NEW r \in Results, Admissible(s, r), Record(s, r),
               totalSettled'[s] = totalSettled[s] + r.amount,
               \A t \in Contracts \ {s} : totalSettled'[t] = totalSettled[t]
        PROVE  Step
    <3>1. r.orderDigest \in Orders /\ r.orderDigest \notin settled[s]
      BY <2>2, ResultFields DEF Admissible, Fresh
    <3>2. receipt'[s][r.orderDigest] = r
      BY <2>2, <3>1, RecordEffect
    <3>3. \A t \in Contracts \ {s} : receipt'[t] = receipt[t]
      BY <2>2 DEF Record, TypeOK
    <3>4. ASSUME NEW t \in Contracts, NEW o \in Orders, receipt[t][o] = r
          PROVE  FALSE
      <4>1. r # NoResult
        BY ResultAssumption, NoneAssumption
      <4>2. t = s
        BY <2>2, <3>4, <4>1 DEF Admissible, IInv, ReceiptsBound, Bound
      <4>3. o = r.orderDigest /\ o \in settled[s]
        BY <3>4, <4>1, <4>2 DEF IInv, GuardMatchesReceipts
      <4> QED BY <3>1, <4>3
    <3>5. Honours(s, receipt'[s][r.orderDigest])
      BY <2>2, <3>2, <3>4 DEF Honours
    <3> QED BY <2>2, <3>1, <3>3, <3>5
  <2>3. ASSUME NEW s \in Contracts, NEW r \in Results, SettleIneligible(s, r)
        PROVE  Step
    <3>1. totalSettled'[s] = totalSettled[s] + r.amount
      BY <2>3 DEF SettleIneligible, TypeOK
    <3> QED BY <2>2, <2>3, <3>1 DEF SettleIneligible
  <2>4. ASSUME NEW s \in Contracts, NEW r \in Results, SettleEligible(s, r)
        PROVE  Step
    <3>1. /\ totalSettled'[s] = totalSettled[s] + r.amount
          /\ \A t \in Contracts \ {s} : totalSettled'[t] = totalSettled[t]
      BY <2>4 DEF SettleEligible, TypeOK
    <3> QED BY <2>2, <2>4, <3>1 DEF SettleEligible
  <2> QED
    BY <2>1, <2>3, <2>4 DEF Next, Environment, Contract, Settle, Tick, VerifierChanges,
       TokenTransfer, Deploy, Fund, WithdrawEscrow, vars, storage, events
<1> QED BY <1>1, TypeCorrect, Inductive, PTL DEF Spec, HonouredOnce

\* No call spends tokens that fund() did not credit.
THEOREM SurplusKept == Spec => SurplusNeverSpent
<1> DEFINE Step == \A s \in Contracts :
                      balance'[s] - escrowBalance'[s] >= balance[s] - escrowBalance[s]
<1>1. TypeOK /\ TypeOK' /\ [Next]_vars => [Step]_vars
  <2> SUFFICES ASSUME TypeOK, TypeOK', [Next]_vars, NEW s \in Contracts
               PROVE  balance'[s] - escrowBalance'[s] >= balance[s] - escrowBalance[s]
    OBVIOUS
  <2>0. s \in Accounts /\ Users \subseteq Accounts /\ s \notin Users
    BY AddressAssumption DEF Accounts
  <2>1. CASE UNCHANGED <<balance, escrowBalance>>
    BY <2>1, BooksNat
  <2>2. ASSUME NEW from \in Users, NEW to \in Accounts, NEW amount \in Amounts,
               TokenTransfer(from, to, amount)
        PROVE  balance'[s] - escrowBalance'[s] >= balance[s] - escrowBalance[s]
    <3>1. balance'[s] >= balance[s]
      BY <2>0, <2>2, MoveOnlyDebitsSender, AmountAssumption DEF TokenTransfer, TypeOK
    <3> QED BY <2>2, <3>1, BooksNat DEF TokenTransfer, storage
  <2>3. ASSUME NEW t \in Contracts, NEW u \in Users, NEW amount \in Amounts,
               Fund(t, u, amount)
        PROVE  balance'[s] - escrowBalance'[s] >= balance[s] - escrowBalance[s]
    <3>0. amount \in Nat /\ t \in Accounts /\ t # u
      BY AmountAssumption, AddressAssumption DEF Accounts
    <3>1. balance'[s] = IF s = t THEN balance[s] + amount ELSE balance[s]
      BY <2>0, <2>3, <3>0, MoveEffect DEF Fund, TypeOK
    <3>2. escrowBalance'[s] = IF s = t THEN escrowBalance[s] + amount ELSE escrowBalance[s]
      BY <2>3 DEF Fund, Credit, TypeOK
    <3> QED BY <3>0, <3>1, <3>2, BooksNat
  <2>4. ASSUME NEW t \in Contracts, NEW to \in Accounts, NEW amount \in Nat,
               Move(t, to, amount), Debit(t, amount)
        PROVE  balance'[s] - escrowBalance'[s] >= balance[s] - escrowBalance[s]
    <3>0. t \in Accounts
      BY DEF Accounts
    <3>1. balance'[s] >= IF s = t THEN balance[s] - amount ELSE balance[s]
      BY <2>0, <2>4, <3>0, MoveOnlyDebitsSender, BooksNat DEF TypeOK
    <3>2. escrowBalance'[s] = IF s = t THEN escrowBalance[s] - amount ELSE escrowBalance[s]
      BY <2>4 DEF Debit, TypeOK
    <3> QED BY <3>1, <3>2, BooksNat
  <2>5. ASSUME NEW t \in Contracts, NEW u \in Users, NEW amount \in Amounts,
               WithdrawEscrow(t, u, amount)
        PROVE  balance'[s] - escrowBalance'[s] >= balance[s] - escrowBalance[s]
    BY <2>0, <2>4, <2>5, AmountAssumption DEF WithdrawEscrow
  <2>6. ASSUME NEW t \in Contracts, NEW r \in Results, SettleEligible(t, r)
        PROVE  balance'[s] - escrowBalance'[s] >= balance[s] - escrowBalance[s]
    BY <2>4, <2>6, ResultFields, ConfigFields DEF SettleEligible, Admissible
  <2> QED
    BY <2>1, <2>2, <2>3, <2>5, <2>6 DEF Next, Environment, Contract, Settle, Tick,
       VerifierChanges, Deploy, SettleIneligible, vars, storage
<1> QED BY <1>1, TypeCorrect, PTL DEF Spec, SurplusNeverSpent
\* Tokens leave a contract only as the exact commission to the creator while the
\* campaign runs, or back to the merchant once it has ended.
THEOREM Outflows == Spec => OutflowsExplained
<1> DEFINE Explained(s) ==
        balance'[s] < balance[s] =>
            \/ Paid(s, balance[s] - balance'[s])
            \/ Reclaimed(s, balance[s] - balance'[s])
<1>1. TypeOK /\ TypeOK' /\ IInv /\ [Next]_vars => [\A s \in Contracts : Explained(s)]_vars
  <2> SUFFICES ASSUME TypeOK, TypeOK', IInv, [Next]_vars,
                      NEW s \in Contracts, balance'[s] < balance[s]
               PROVE  Explained(s)
    OBVIOUS
  <2>0. s \in Accounts /\ Users \subseteq Accounts /\ s \notin Users
    BY AddressAssumption DEF Accounts
  <2>1. ASSUME NEW t \in Accounts, NEW to \in Accounts, NEW amount \in Nat,
               Move(t, to, amount)
        PROVE  /\ t = s /\ to # s
               /\ amount = balance[s] - balance'[s]
               /\ balance'[to] = balance[to] + amount
    <3>1. t = s
      BY <2>0, <2>1, MoveOnlyDebitsSender, BooksNat DEF TypeOK
    <3>2. to # s
      BY <2>0, <2>1, <3>1, MoveEffect, BooksNat DEF TypeOK
    <3> QED BY <2>0, <2>1, <3>1, <3>2, MoveEffect, BooksNat DEF TypeOK
  <2>2. CASE UNCHANGED balance
    BY <2>2, BooksNat
  <2>3. ASSUME NEW from \in Users, NEW to \in Accounts, NEW amount \in Amounts,
               TokenTransfer(from, to, amount)
        PROVE  FALSE
    BY <2>0, <2>1, <2>3, AmountAssumption DEF TokenTransfer
  <2>4. ASSUME NEW t \in Contracts, NEW u \in Users, NEW amount \in Amounts,
               Fund(t, u, amount)
        PROVE  FALSE
    BY <2>0, <2>1, <2>4, AmountAssumption DEF Fund, Accounts
  <2>5. ASSUME NEW t \in Contracts, NEW u \in Users, NEW amount \in Amounts,
               WithdrawEscrow(t, u, amount)
        PROVE  Explained(s)
    <3>1. /\ t = s /\ amount = balance[s] - balance'[s]
          /\ balance'[u] = balance[u] + amount
      BY <2>0, <2>1, <2>5, AmountAssumption DEF WithdrawEscrow, Accounts
    <3> QED BY <2>5, <3>1 DEF WithdrawEscrow, Unlocked, Reclaimed
  <2>6. ASSUME NEW t \in Contracts, NEW r \in Results, SettleEligible(t, r)
        PROVE  Explained(s)
    <3>0. t \in Deployed /\ t \in Accounts /\ r.amount \in Nat /\ r.orderDigest \in Orders
      BY <2>6, ResultFields DEF SettleEligible, Admissible, Accounts
    <3>1. /\ t = s /\ r.amount = balance[s] - balance'[s]
          /\ balance'[config[s].creator] = balance[config[s].creator] + r.amount
      BY <2>1, <2>6, <3>0, ConfigFields DEF SettleEligible
    <3>2. now < config[s].campaignEnd
      BY <2>6, <3>0, <3>1, ConfigFields, ResultFields
      DEF SettleEligible, Admissible, InWindow, TypeOK
    <3>3. receipt'[s][r.orderDigest] = r
      BY <2>6, <3>1, RecordEffect DEF SettleEligible
    <3>4. receipt[s][r.orderDigest] = NoResult
      BY <2>6, <3>0, <3>1
      DEF SettleEligible, Admissible, Fresh, IInv, GuardMatchesReceipts
    <3> QED BY <2>6, <3>0, <3>1, <3>2, <3>3, <3>4 DEF SettleEligible, Payable, Paid
  <2> QED
    BY <2>2, <2>3, <2>4, <2>5, <2>6 DEF Next, Environment, Contract, Settle, Tick,
       VerifierChanges, Deploy, SettleIneligible, vars
<1> QED BY <1>1, TypeCorrect, Inductive, PTL DEF Spec, OutflowsExplained

-----------------------------------------------------------------------------
(* Refinement.                                                             *)

\* What one recorded result does to the verdicts.
LEMMA RecordDecides ==
    ASSUME TypeOK, IInv, NEW s \in Contracts, NEW r \in Results,
           Admissible(s, r), Record(s, r)
    PROVE  /\ r.orderDigest \in Orders
           /\ Verdict[s][r.orderDigest] = NoResult
           /\ Verdict' = [Verdict EXCEPT ![s][r.orderDigest] = r.amount]
<1>1. r.orderDigest \in Orders /\ r # NoResult
  BY ResultFields, ResultAssumption, NoneAssumption
<1>2. receipt[s][r.orderDigest] = NoResult
  BY <1>1 DEF Admissible, Fresh, IInv, GuardMatchesReceipts
<1>3. Verdict[s][r.orderDigest] = NoResult
  BY <1>1, <1>2 DEF Verdict
<1>4. ASSUME NEW t \in Contracts, NEW o \in Orders
      PROVE  Verdict'[t][o] = IF t = s /\ o = r.orderDigest THEN r.amount ELSE Verdict[t][o]
  BY <1>1, RecordEffect DEF Verdict
<1>5. Verdict' = [Verdict EXCEPT ![s] = [@ EXCEPT ![r.orderDigest] = r.amount]]
  <2> DEFINE New == [Verdict EXCEPT ![s] = [@ EXCEPT ![r.orderDigest] = r.amount]]
  <2>1. /\ DOMAIN Verdict' = Contracts /\ DOMAIN New = Contracts
        /\ \A t \in Contracts : DOMAIN Verdict'[t] = Orders /\ DOMAIN New[t] = Orders
    BY DEF Verdict
  <2>2. \A t \in Contracts, o \in Orders : Verdict'[t][o] = New[t][o]
    BY <1>1, <1>4 DEF Verdict
  <2>3. ASSUME NEW t \in Contracts PROVE Verdict'[t] = New[t]
    <3>1. Verdict'[t] = [o \in Orders |-> Verdict'[t][o]]
      BY DEF Verdict
    <3>2. New[t] = [o \in Orders |-> New[t][o]]
      BY DEF Verdict
    <3> QED BY <2>2, <3>1, <3>2
  <2>4. Verdict' = [t \in Contracts |-> Verdict'[t]]
    BY DEF Verdict
  <2>5. New = [t \in Contracts |-> New[t]]
    BY DEF Verdict
  <2> HIDE DEF New
  <2>6. Verdict' = New
    BY <2>3, <2>4, <2>5
  <2> QED BY <2>6 DEF New
<1> QED BY <1>1, <1>3, <1>5

\* The settlement contracts implement the abstract escrow, whatever their number,
\* their users and their verifier.
THEOREM Implementation == Spec => ImplementsEscrow
<1>1. Init => Escrow!Init
  BY DEF Init, Escrow!Init, Verdict, Ended, Deployed
<1>2. TypeOK /\ TypeOK' /\ IInv /\ [Next]_vars => [Escrow!Next]_Escrow!escrowVars
  <2> SUFFICES ASSUME TypeOK, TypeOK', IInv, [Next]_vars
               PROVE  Escrow!Next \/ UNCHANGED Escrow!escrowVars
    OBVIOUS
  <2>1. CASE UNCHANGED <<escrowBalance, receipt, now, config>>
    BY <2>1 DEF Escrow!escrowVars, Verdict, Ended, Deployed
  <2>2. CASE Tick
    <3>1. now <= now' /\ UNCHANGED <<escrowBalance, receipt, config>>
      BY <2>2, BoundAssumption DEF Tick, storage, events, TypeOK
    <3>2. Ended \subseteq Ended' /\ Ended' \subseteq Contracts
      BY <3>1, ConfigFields DEF Ended, Deployed, TypeOK
    <3> QED BY <3>1, <3>2 DEF Escrow!Next, Escrow!Close, Verdict
  <2>3. ASSUME NEW s \in Contracts, NEW c \in Configs, Deploy(s, c)
        PROVE  UNCHANGED Escrow!escrowVars
    <3>1. ~(c.campaignEnd <= now) /\ c # NotDeployed
      BY <2>3, ConfigAssumption, NoneAssumption DEF Deploy, Config, TypeOK
    <3>2. Ended' = Ended
      BY <2>3, <3>1 DEF Deploy, Ended, Deployed, TypeOK
    <3> QED BY <2>3, <3>2 DEF Deploy, storage, events, Escrow!escrowVars, Verdict
  <2>4. ASSUME NEW s \in Contracts, NEW u \in Users, NEW amount \in Amounts,
               Fund(s, u, amount)
        PROVE  Escrow!Next
    <3>1. Escrow!Deposit(s, amount)
      BY <2>4 DEF Fund, Credit, Escrow!Deposit, Verdict, Ended, Deployed
    <3> QED BY <3>1 DEF Escrow!Next
  <2>5. ASSUME NEW s \in Contracts, NEW u \in Users, NEW amount \in Amounts,
               WithdrawEscrow(s, u, amount)
        PROVE  Escrow!Next
    <3>1. s \in Ended
      BY <2>5, ConfigFields DEF WithdrawEscrow, Unlocked, Ended, TypeOK
    <3>2. Escrow!Reclaim(s, amount)
      BY <2>5, <3>1 DEF WithdrawEscrow, Debit, Escrow!Reclaim, Verdict, Ended, Deployed
    <3>3. amount \in 0 .. escrowBalance[s]
      BY <2>5, BooksNat, AmountAssumption DEF WithdrawEscrow, Covers
    <3> QED BY <3>2, <3>3 DEF Escrow!Next
  <2>6. ASSUME NEW s \in Contracts, NEW r \in Results, Settle(s, r)
        PROVE  Escrow!Next
    <3>1. /\ Admissible(s, r) /\ Record(s, r) /\ r.amount \in Nat
          /\ UNCHANGED <<now, config>> /\ r.orderDigest \in Orders
      BY <2>6, ResultFields DEF Settle, SettleIneligible, SettleEligible
    <3>2. /\ r.amount \in 0 .. escrowBalance[s]
          /\ escrowBalance' = [escrowBalance EXCEPT ![s] = @ - r.amount]
      BY <2>6, <3>1, BooksNat
      DEF Settle, SettleIneligible, SettleEligible, Covers, Debit, TypeOK
    <3>3. s \notin Ended
      BY <3>1, ConfigFields, ResultFields DEF Admissible, InWindow, Ended, TypeOK
    <3>4. Escrow!Decide(s, r.orderDigest, r.amount)
      BY <3>1, <3>2, <3>3, RecordDecides DEF Escrow!Decide, Ended, Deployed
    <3> QED BY <3>1, <3>2, <3>4 DEF Escrow!Next
  <2> QED
    BY <2>1, <2>2, <2>3, <2>4, <2>5, <2>6 DEF Next, Environment, Contract,
       VerifierChanges, TokenTransfer, vars, storage, events
<1> QED BY <1>1, <1>2, TypeCorrect, Inductive, PTL DEF Spec, ImplementsEscrow, Escrow!Spec
=============================================================================
