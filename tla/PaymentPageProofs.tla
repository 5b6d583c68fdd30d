------------------------- MODULE PaymentPageProofs -------------------------
(***************************************************************************)
(* What holds of PaymentPage for every number of wallets, campaigns,       *)
(* orders, handlers, polls and transactions.                               *)
(*                                                                         *)
(* First that everything is well-formed (PageInv): a handler refers only   *)
(* to checks and transactions that exist.  On it rest, each with an        *)
(* invariant of its own, the saved payment (StorageMirrorsPage), the       *)
(* spinners (BusyInv), approvals (ApprovalInv) and payments (PayInv).      *)
(* Each is kept step by step: by the chain, by a click, by a handler at    *)
(* one of its awaits, and by the page's own steps.  The last part shows    *)
(* that all of it survives the steps of another page.                      *)
(***************************************************************************)
EXTENDS PaymentPage, TLAPS

-----------------------------------------------------------------------------
(* Types, and that every index points at something.                        *)

Signed == [tx : Tx, status : {"sent", "success", "reverted"}]

Known(i) == i = NoCheck \/ i \in DOMAIN checks

\* What a transaction is about exists; a campaign is known once it is created.
GoodTx(s, ids) ==
    /\ s.tx.kind # "create" \/ s.status = "success" => s.tx.campaign \in Campaigns
    /\ s.tx.kind \in {"approve", "fund"} => s.tx.from \in Wallets
    /\ s.tx.kind = "check" => s.tx.order \in Orders
    /\ s.tx.kind = "settle" => s.tx.check \in ids
    /\ s.tx.kind = "check" /\ s.status = "success" => s.tx.check \in ids

\* A handler waits for a transaction of its own kind, and for the answer to a check
\* that was submitted; only creating a payment begins without a campaign.
GoodTask(t) ==
    \/ t = Idle
    \/ /\ t \in Task
       /\ t.tx.kind # "create" => t.tx.campaign \in Campaigns
       /\ t.tx.kind \in {"approve", "fund"} => t.tx.from \in Wallets
       /\ t.tx.kind = "check" /\ t.at # "poll" => t.tx.order \in Orders
       /\ t.op = "fund" => t.tx.kind \in {"approve", "fund"}
       /\ t.at \notin {"simulate", "wallet", "confirm"} => t.tx.kind # "create"
       /\ t.tx.kind = "settle" \/ t.at = "poll" => t.tx.check \in DOMAIN checks
       /\ t.at = "precheck" => t.op = "pay"
       /\ t.at \in {"read", "precheck"} => t.tx.kind \in {"check", "settle"}
       /\ t.at = "confirm" => t.id \in DOMAIN txs /\ txs[t.id].tx.kind = t.tx.kind

GoodPage(p) == p \in Page /\ Known(p.result) /\ Known(p.pending)

GoodStorage(s) == s \in Storage /\ Known(s.pending)

ChainOK ==
    /\ merchant \in [Campaigns -> Wallets \cup {NoWallet}]
    /\ escrow \in [Campaigns -> Nat]
    /\ allowance \in [Wallets \X Campaigns -> Nat]
    /\ settled \in [Campaigns -> SUBSET Orders]
    /\ checks \in Seq(Check)

TxsOK == txs \in Seq(Signed) /\ \A i \in DOMAIN txs : GoodTx(txs[i], DOMAIN checks)

TasksOK == DOMAIN tasks = Slots \cup {AutoSlot} /\ \A k \in Slots \cup {AutoSlot} : GoodTask(tasks[k])

PageInv ==
    /\ ChainOK
    /\ TxsOK
    /\ account \in Wallets \cup {NoWallet}
    /\ GoodPage(page)
    /\ GoodStorage(storage)
    /\ refreshing \subseteq Campaigns
    /\ TasksOK

LEMMA InvTypes == PageInv => TypeOK
<1> SUFFICES ASSUME PageInv PROVE TypeOK
  OBVIOUS
<1>1. \A i \in DOMAIN txs : txs[i].tx \in Tx /\ txs[i].status \in {"sent", "success", "reverted"}
  <2>1. txs \in Seq(Signed)
    BY DEF PageInv, TxsOK
  <2>2. \A i \in DOMAIN txs : txs[i] \in Signed
    BY <2>1
  <2> QED BY <2>2 DEF Signed
<1>2. \A k \in DOMAIN tasks : tasks[k] = Idle \/ tasks[k] \in Task
  BY DEF PageInv, TasksOK, GoodTask
<1> QED BY <1>1, <1>2 DEF PageInv, TypeOK, ChainOK, TasksOK, GoodPage, GoodStorage

LEMMA InitInv == Init => PageInv
<1> SUFFICES ASSUME Init PROVE PageInv
  OBVIOUS
<1> USE WalletAssumption, OrderAssumption, AmountAssumption, ExistingAssumption
<1>1. ChainOK
  BY DEF Init, ChainOK
<1>2. TxsOK
  BY DEF Init, TxsOK
<1>3. account \in Wallets \cup {NoWallet} /\ refreshing \subseteq Campaigns
  BY DEF Init
<1>4. GoodStorage(storage)
  BY DEF Init, GoodStorage, Storage, Known, NoCheck
<1>5. GoodPage(page)
  BY DEF Init, GoodPage, Page, EmptyPage, Known, NoCheck
<1>6. TasksOK
  BY DEF Init, TasksOK, GoodTask
<1> QED BY <1>1, <1>2, <1>3, <1>4, <1>5, <1>6 DEF PageInv

-----------------------------------------------------------------------------
(* Steps of the browser.                                                   *)

\* A step that leaves chain and transactions alone has to be right about what it
\* writes only.
LEMMA BrowserStep ==
    ASSUME PageInv, UNCHANGED World,
           account' \in Wallets \cup {NoWallet},
           GoodPage(page'), GoodStorage(storage'), refreshing' \subseteq Campaigns,
           DOMAIN tasks' = Slots \cup {AutoSlot},
           \A k \in Slots \cup {AutoSlot} : GoodTask(tasks'[k])
    PROVE  PageInv'
<1>1. ChainOK' /\ TxsOK'
  BY DEF PageInv, World, chain, ChainOK, TxsOK, GoodTx
<1>2. GoodPage(page)' /\ GoodStorage(storage)'
  BY DEF GoodPage, GoodStorage, Known, World, chain
<1>3. TasksOK'
  BY DEF TasksOK, GoodTask, World, chain
<1> QED BY <1>1, <1>2, <1>3 DEF PageInv

\* One handler moves.
LEMMA TaskMoves ==
    ASSUME PageInv, UNCHANGED <<World, account>>,
           GoodPage(page'), GoodStorage(storage'), refreshing' \subseteq Campaigns,
           NEW k \in Slots \cup {AutoSlot}, NEW t, GoodTask(t),
           tasks' = [tasks EXCEPT ![k] = t]
    PROVE  PageInv'
<1>1. DOMAIN tasks' = Slots \cup {AutoSlot}
  BY DEF PageInv, TasksOK
<1>2. ASSUME NEW j \in Slots \cup {AutoSlot} PROVE GoodTask(tasks'[j])
  <2>1. tasks'[j] = t \/ tasks'[j] = tasks[j]
    BY DEF PageInv, TasksOK
  <2> QED BY <2>1 DEF PageInv, TasksOK
<1>3. account' \in Wallets \cup {NoWallet}
  BY DEF PageInv
<1> QED BY <1>1, <1>2, <1>3, BrowserStep

\* A handler that goes on to another await with the same transaction.
LEMMA Goes ==
    ASSUME PageInv, NEW k \in Slots \cup {AutoSlot}, NEW place,
           tasks[k] # Idle, tasks[k].at # "poll" \/ tasks[k].tx.kind # "check", Goto(k, place), GoodPage(page'),
           \/ place \in {"simulate", "wallet"}
           \/ place \in {"finally", "verify", "done"} /\ tasks[k].tx.kind # "create"
    PROVE  PageInv'
<1> DEFINE t == [tasks[k] EXCEPT !.at = place]
<1>1. GoodTask(tasks[k]) /\ tasks[k] \in Task
  BY DEF PageInv, TasksOK, GoodTask
<1>2. GoodTask(t)
  BY <1>1 DEF GoodTask, Task
<1>3. tasks' = [tasks EXCEPT ![k] = t]
  BY DEF Goto
<1>4. UNCHANGED <<World, account>> /\ GoodStorage(storage') /\ refreshing' \subseteq Campaigns
  BY DEF Goto, PageInv
<1> HIDE DEF t
<1> QED BY <1>2, <1>3, <1>4, TaskMoves

\* A handler that ends.
LEMMA Ends ==
    ASSUME PageInv, NEW k \in Slots \cup {AutoSlot}, End(k), UNCHANGED <<World, account>>,
           GoodPage(page'), GoodStorage(storage'), refreshing' \subseteq Campaigns
    PROVE  PageInv'
<1>1. GoodTask(Idle)
  BY DEF GoodTask
<1> QED BY <1>1, TaskMoves DEF End

\* A new handler.
LEMMA Starts ==
    ASSUME PageInv, NEW k \in Slots \cup {AutoSlot}, NEW op, NEW at, NEW tx, NEW polls,
           Start(k, op, at, tx, polls), GoodPage(page'),
           op \in {"create", "fund", "check", "resume", "pay"},
           at \in {"merchant", "read", "precheck", "simulate", "poll"},
           tx \in Tx, polls \in Nat,
           tx.kind # "create" => tx.campaign \in Campaigns,
           tx.kind \in {"approve", "fund"} => tx.from \in Wallets,
           tx.kind = "check" /\ at # "poll" => tx.order \in Orders,
           at = "precheck" => op = "pay",
           at \in {"read", "precheck"} => tx.kind \in {"check", "settle"},
           op = "fund" => tx.kind = "approve", at # "simulate" => tx.kind # "create",
           tx.kind = "settle" \/ at = "poll" => tx.check \in DOMAIN checks
    PROVE  PageInv'
<1> DEFINE t == [op |-> op, at |-> at, tx |-> tx, id |-> 0, polls |-> polls]
<1>1. t \in Task
  BY DEF Task
<1>2. GoodTask(t)
  BY <1>1 DEF GoodTask
<1>3. tasks' = [tasks EXCEPT ![k] = t]
  BY DEF Start
<1>4. UNCHANGED <<World, account>> /\ GoodStorage(storage') /\ refreshing' \subseteq Campaigns
  BY DEF Start, PageInv
<1> HIDE DEF t
<1> QED BY <1>2, <1>3, <1>4, TaskMoves

\* What a click captures.
LEMMA Captured ==
    ASSUME PageInv,
           NEW kind \in {"create", "approve", "fund", "check", "settle"}, NEW amount \in Nat,
           NEW order \in Orders \cup {NoOrder}, NEW check, Known(check)
    PROVE  Prepared(kind, amount, order, check) \in Tx
<1>1. check \in Nat
  BY DEF Known, NoCheck, PageInv, ChainOK
<1>2. page.campaign \in Campaigns \cup {NoCampaign} /\ account \in Wallets \cup {NoWallet}
  BY DEF PageInv, GoodPage, Page
<1> QED BY <1>1, <1>2 DEF Prepared, Tx

LEMMA StillGood ==
    ASSUME PageInv
    PROVE  /\ page \in Page /\ storage \in Storage
           /\ \A c \in Campaigns : escrow[c] \in Nat
           /\ Known(NoCheck)
BY DEF PageInv, GoodPage, GoodStorage, ChainOK, Known

LEMMA BusyIsGood ==
    ASSUME PageInv, NEW op \in {"create", "fund", "check", "resume"}, Busy(op)
    PROVE  GoodPage(page')
BY StillGood DEF PageInv, GoodPage, Page, Busy

LEMMA ClickInv ==
    ASSUME PageInv, NEW k \in Slots, Click(k)
    PROVE  PageInv'
<1> USE AmountAssumption, BoundAssumption
<1>1. CASE CreatePayment(k)
  <2>1. GoodPage(page')
    BY <1>1, BusyIsGood DEF CreatePayment
  <2>2. Prepared("create", 0, NoOrder, NoCheck) \in Tx
    BY Captured, StillGood
  <2>3. Prepared("create", 0, NoOrder, NoCheck).kind = "create"
    BY DEF Prepared
  <2> QED BY <1>1, <2>1, <2>2, <2>3, Starts DEF CreatePayment
<1>2. CASE \E amount \in FundAmounts : AddFunds(k, amount)
  <2>1. PICK amount \in FundAmounts : AddFunds(k, amount)
    BY <1>2
  <2>2. amount \in Nat
    OBVIOUS
  <2>3. GoodPage(page')
    BY <2>1, BusyIsGood DEF AddFunds
  <2>4. page.campaign \in Campaigns /\ account \in Wallets
    BY <2>1, StillGood DEF AddFunds, Page, PageInv
  <2> DEFINE tx == Prepared("approve", amount, NoOrder, NoCheck)
  <2>5. tx \in Tx /\ tx.kind = "approve" /\ tx.campaign \in Campaigns /\ tx.from \in Wallets
    <3>1. Known(NoCheck)
      BY StillGood
    <3>2. tx \in Tx
      BY <2>2, <3>1, Captured
    <3> QED BY <2>4, <3>2 DEF Prepared
  <2>6. Start(k, "fund", "merchant", tx, 0)
    BY <2>1 DEF AddFunds
  <2> HIDE DEF tx
  <2> QED BY <2>3, <2>5, <2>6, Starts
<1>3. CASE RunPrivateCheck(k)
  <2>1. GoodPage(page')
    BY <1>3, BusyIsGood DEF RunPrivateCheck
  <2>2. page.campaign \in Campaigns /\ page.reference \in Orders
    BY <1>3, StillGood DEF RunPrivateCheck, AsksForOrder, Page
  <2> DEFINE tx == Prepared("check", 0, page.reference, NoCheck)
  <2>3. tx \in Tx /\ tx.kind = "check" /\ tx.campaign \in Campaigns /\ tx.order \in Orders
    <3>1. tx \in Tx
      BY <2>2, Captured, StillGood
    <3> QED BY <2>2, <3>1 DEF Prepared
  <2>4. Start(k, "check", "read", tx, CheckPolls)
    BY <1>3 DEF RunPrivateCheck
  <2> HIDE DEF tx
  <2> QED BY <2>1, <2>3, <2>4, Starts
<1>4. CASE ResumePrivateCheck(k)
  <2>1. GoodPage(page')
    BY <1>4, BusyIsGood DEF ResumePrivateCheck
  <2>2. page.campaign \in Campaigns /\ Known(page.pending) /\ page.pending # NoCheck
    BY <1>4, StillGood DEF ResumePrivateCheck, AsksForOrder, Page, PageInv, GoodPage,
                           PendingIsOfCampaign
  <2> DEFINE tx == Prepared("check", 0, NoOrder, page.pending)
  <2>3. /\ tx \in Tx /\ tx.kind = "check" /\ tx.campaign \in Campaigns
        /\ tx.check \in DOMAIN checks
    <3>1. tx \in Tx
      BY <2>2, Captured
    <3> QED BY <2>2, <3>1 DEF Prepared, Known
  <2>4. Start(k, "resume", "poll", tx, ResumePolls)
    BY <1>4 DEF ResumePrivateCheck
  <2> HIDE DEF tx
  <2> QED BY <2>1, <2>3, <2>4, Starts
<1>5. CASE PayCommission(k)
  <2>1. GoodPage(page')
    BY <1>5 DEF PayCommission, PageInv, GoodPage, Page
  <2>2. page.campaign \in Campaigns /\ Known(page.result) /\ page.result # NoCheck
    BY <1>5, StillGood DEF PayCommission, Page, PageInv, GoodPage
  <2> DEFINE tx == Prepared("settle", 0, NoOrder, page.result)
  <2>3. /\ tx \in Tx /\ tx.kind = "settle" /\ tx.campaign \in Campaigns
        /\ tx.check \in DOMAIN checks
    <3>1. tx \in Tx
      BY <2>2, Captured
    <3> QED BY <2>2, <3>1 DEF Prepared, Known
  <2>4. Start(k, "pay", "precheck", tx, 0)
    BY <1>5 DEF PayCommission
  <2> HIDE DEF tx
  <2> QED BY <2>1, <2>3, <2>4, Starts
<1> QED BY <1>1, <1>2, <1>3, <1>4, <1>5 DEF Click

-----------------------------------------------------------------------------
(* The steps of a handler.                                                 *)

\* What a handler that waits at an await is known to be.
LEMMA Running ==
    ASSUME PageInv, NEW k \in Slots \cup {AutoSlot}, tasks[k] # Idle
    PROVE  /\ tasks[k] \in Task /\ tasks[k].tx \in Tx
           /\ tasks[k].tx.kind # "create" => tasks[k].tx.campaign \in Campaigns
           /\ tasks[k].tx.kind \in {"approve", "fund"} => tasks[k].tx.from \in Wallets
           /\ tasks[k].tx.kind = "check" /\ tasks[k].at # "poll" => tasks[k].tx.order \in Orders
           /\ tasks[k].op = "fund" => tasks[k].tx.kind \in {"approve", "fund"}
           /\ tasks[k].at \notin {"simulate", "wallet", "confirm"} => tasks[k].tx.kind # "create"
           /\ tasks[k].tx.kind = "settle" \/ tasks[k].at = "poll"
                => tasks[k].tx.check \in DOMAIN checks
           /\ tasks[k].at = "precheck" => tasks[k].op = "pay"
           /\ tasks[k].at \in {"read", "precheck"} => tasks[k].tx.kind \in {"check", "settle"}
           /\ tasks[k].at = "confirm"
                => tasks[k].id \in DOMAIN txs /\ txs[tasks[k].id].tx.kind = tasks[k].tx.kind
BY DEF PageInv, TasksOK, GoodTask, Task

\* What the receipt it has says.
LEMMA HasItsReceipt ==
    ASSUME PageInv, NEW k \in Slots \cup {AutoSlot}, NEW kind, Confirming(k, kind)
    PROVE  /\ tasks[k] # Idle /\ tasks[k].at = "confirm" /\ tasks[k].tx.kind = kind
           /\ Receipt(k).tx.campaign \in Campaigns
           /\ kind = "check" => Receipt(k).tx.check \in DOMAIN checks
<1>1. tasks[k] # Idle /\ tasks[k].at = "confirm" /\ tasks[k].tx.kind = kind
  BY DEF Confirming, At
<1>2. tasks[k].id \in DOMAIN txs /\ txs[tasks[k].id].tx.kind = kind
  BY <1>1, Running
<1>3. txs[tasks[k].id].status = "success"
  BY DEF Confirming, HasReceipt
<1>4. GoodTx(txs[tasks[k].id], DOMAIN checks)
  BY <1>2 DEF PageInv, TxsOK
<1> QED BY <1>1, <1>2, <1>3, <1>4 DEF GoodTx, Receipt

\* Writing the fields that refer to no check.
LEMMA Writes ==
    ASSUME PageInv,
           NEW campaign \in Campaigns \cup {NoCampaign}, NEW paid \in BOOLEAN,
           NEW available \in Nat,
           NEW busy \in {"none", "create", "fund", "check", "resume", "pay"},
           NEW message \in {"other", "fundsAdded", "paymentComplete"}
    PROVE  /\ GoodPage(page)
           /\ GoodPage([page EXCEPT !.campaign = campaign])
           /\ GoodPage([page EXCEPT !.message = message])
           /\ GoodPage([page EXCEPT !.available = available, !.message = message])
           /\ GoodPage([page EXCEPT !.available = available, !.busy = busy])
           /\ GoodPage([page EXCEPT !.available = available])
           /\ GoodPage([page EXCEPT !.paid = paid, !.available = available])
           /\ GoodPage([page EXCEPT !.busy = busy, !.message = message])
           /\ GoodPage([page EXCEPT !.message = message, !.busy = busy])
           /\ GoodPage([page EXCEPT !.available = available, !.busy = busy,
                                    !.message = message])
           /\ GoodPage([page EXCEPT !.campaign = campaign, !.busy = busy, !.message = message])
BY DEF PageInv, GoodPage, Page

LEMMA StorageWrites ==
    ASSUME PageInv, NEW campaign \in Campaigns \cup {NoCampaign}, NEW i, Known(i)
    PROVE  /\ GoodStorage(storage)
           /\ GoodStorage([storage EXCEPT !.campaign = campaign])
           /\ GoodStorage([storage EXCEPT !.pending = i])
           /\ GoodStorage([campaign |-> campaign, pending |-> i])
<1>1. i \in Nat
  BY DEF Known, NoCheck, PageInv, ChainOK
<1> QED BY <1>1 DEF PageInv, GoodStorage, Storage

LEMMA FailInv ==
    ASSUME PageInv, NEW k \in Slots \cup {AutoSlot}, Fail(k)
    PROVE  PageInv'
<1>1. page.busy \in {"none", "create", "fund", "check", "resume", "pay"}
  BY StillGood DEF Page
<1>2. GoodPage([page EXCEPT !.message = "other"])
      /\ GoodPage([page EXCEPT !.message = "other", !.busy = "none"])
  BY Writes
<1>3. GoodStorage(storage) /\ refreshing \subseteq Campaigns
  BY DEF PageInv
<1>4. CASE /\ tasks[k].op = "fund"
           /\ page' = [page EXCEPT !.message = "other"] /\ Goto(k, "finally")
  <2>1. tasks[k] # Idle /\ (tasks[k].op = "fund" => tasks[k].tx.kind \in {"approve", "fund"})
    BY Running DEF Fail
  <2> QED BY <1>2, <1>4, <2>1, Goes DEF Fail
<1>5. CASE /\ page' = [page EXCEPT !.message = "other", !.busy = "none"]
           /\ End(k)
           /\ UNCHANGED <<World, account, storage, refreshing>>
  BY <1>2, <1>3, <1>5, Ends
<1> QED BY <1>4, <1>5 DEF Fail

LEMMA SignInv ==
    ASSUME PageInv, NEW k \in Slots \cup {AutoSlot}, Sign(k)
    PROVE  PageInv'
<1> DEFINE s == [tx |-> tasks[k].tx, status |-> "sent"]
<1>1. tasks[k] # Idle /\ tasks[k].at = "wallet"
  BY DEF Sign, At
<1>2. /\ tasks[k] \in Task /\ tasks[k].tx \in Tx
      /\ tasks[k].tx.kind # "create" => tasks[k].tx.campaign \in Campaigns
      /\ tasks[k].tx.kind \in {"approve", "fund"} => tasks[k].tx.from \in Wallets
      /\ tasks[k].tx.kind = "check" => tasks[k].tx.order \in Orders
      /\ tasks[k].op = "fund" => tasks[k].tx.kind \in {"approve", "fund"}
      /\ tasks[k].tx.kind = "settle" => tasks[k].tx.check \in DOMAIN checks
  BY <1>1, Running
<1>3. s \in Signed /\ GoodTx(s, DOMAIN checks)
  BY <1>2 DEF Signed, GoodTx
<1>4. txs \in Seq(Signed) /\ txs' = Append(txs, s)
  BY DEF Sign, PageInv, TxsOK
<1>5. /\ txs' \in Seq(Signed) /\ DOMAIN txs' = DOMAIN txs \cup {Len(txs) + 1}
      /\ Len(txs) + 1 \in Nat
      /\ txs'[Len(txs) + 1] = s /\ \A i \in DOMAIN txs : txs'[i] = txs[i]
  <2> HIDE DEF s
  <2> QED BY <1>3, <1>4
<1>6. ChainOK' /\ UNCHANGED checks
  BY DEF Sign, chain, PageInv, ChainOK
<1>7. TxsOK'
  <2>1. \A i \in DOMAIN txs' : GoodTx(txs'[i], DOMAIN checks)
    <3> HIDE DEF s
    <3> QED BY <1>3, <1>5 DEF PageInv, TxsOK
  <2> QED BY <1>5, <1>6, <2>1 DEF TxsOK
<1>8. GoodPage(page)' /\ GoodStorage(storage)'
  BY <1>6 DEF Sign, PageInv, GoodPage, GoodStorage, Known
<1>9. TasksOK'
  <2>1. DOMAIN tasks' = Slots \cup {AutoSlot}
    BY DEF Sign, PageInv, TasksOK
  <2>2. ASSUME NEW j \in Slots \cup {AutoSlot}, j # k PROVE GoodTask(tasks[j])'
    <3>1. tasks'[j] = tasks[j] /\ GoodTask(tasks[j])
      BY <2>2 DEF Sign, PageInv, TasksOK
    <3> QED BY <3>1, <1>5, <1>6 DEF GoodTask
  <2>3. tasks'[k] = [tasks[k] EXCEPT !.at = "confirm", !.id = Len(txs) + 1]
    BY DEF Sign, PageInv, TasksOK
  <2>4. /\ tasks'[k] \in Task /\ tasks'[k].at = "confirm" /\ tasks'[k].id = Len(txs) + 1
        /\ tasks'[k].tx = tasks[k].tx /\ tasks'[k].op = tasks[k].op
    BY <2>3, <1>2, <1>5 DEF Task
  <2>5. txs'[tasks'[k].id].tx.kind = tasks'[k].tx.kind /\ tasks'[k].id \in DOMAIN txs'
    BY <2>4, <1>5
  <2>6. GoodTask(tasks[k])'
    BY <2>4, <2>5, <1>2, <1>6 DEF GoodTask
  <2> QED BY <2>1, <2>2, <2>6 DEF TasksOK
<1> QED BY <1>6, <1>7, <1>8, <1>9 DEF PageInv, Sign

LEMMA CreatedInv ==
    ASSUME PageInv, NEW k \in Slots \cup {AutoSlot}, Created(k)
    PROVE  PageInv'
<1>1. Receipt(k).tx.campaign \in Campaigns
  BY HasItsReceipt DEF Created
<1>2. GoodPage(page') /\ refreshing' \subseteq Campaigns
  BY <1>1 DEF Created, PageInv, GoodPage, Page, Known, NoCheck
<1>3. GoodStorage(storage')
  BY <1>1, StorageWrites, StillGood DEF Created
<1> QED BY <1>2, <1>3, Ends DEF Created

LEMMA ApprovedInv ==
    ASSUME PageInv, NEW k \in Slots \cup {AutoSlot}, Approved(k)
    PROVE  PageInv'
<1> DEFINE t == [tasks[k] EXCEPT !.at = "simulate", !.tx.kind = "fund"]
<1>1. tasks[k] # Idle /\ tasks[k].tx.kind = "approve"
  BY HasItsReceipt DEF Approved
<1>2. /\ tasks[k] \in Task /\ tasks[k].tx \in Tx /\ tasks[k].tx.campaign \in Campaigns
      /\ tasks[k].tx.from \in Wallets
  BY <1>1, Running
<1>3. /\ t \in Task /\ t.tx.kind = "fund" /\ t.tx.campaign \in Campaigns /\ t.at = "simulate"
      /\ t.tx.from \in Wallets
  BY <1>2 DEF Task, Tx
<1>4. tasks' = [tasks EXCEPT ![k] = t]
  BY DEF Approved
<1> HIDE DEF t
<1>5. GoodTask(t)
  BY <1>3 DEF GoodTask
<1>6. GoodPage(page') /\ GoodStorage(storage') /\ refreshing' \subseteq Campaigns
  BY DEF Approved, PageInv
<1> QED BY <1>4, <1>5, <1>6, TaskMoves DEF Approved

\* refreshCampaign, awaited by a handler, leaves page and storage well-formed.
LEMMA RefreshedGood ==
    ASSUME PageInv, NEW c \in Campaigns,
           NEW busy \in {"none", "create", "fund", "check", "resume", "pay"},
           NEW message \in {"other", "fundsAdded", "paymentComplete"},
           Refreshed(c, busy, message)
    PROVE  GoodPage(page') /\ GoodStorage(storage')
<1>1. escrow[c] \in Nat /\ NoCampaign \in Campaigns \cup {NoCampaign}
  BY StillGood
<1>2. GoodStorage(storage) /\ GoodStorage([storage EXCEPT !.campaign = NoCampaign])
  BY <1>1, StorageWrites, StillGood
<1>3. /\ GoodPage([page EXCEPT !.available = escrow[c], !.busy = busy, !.message = message])
      /\ GoodPage([page EXCEPT !.campaign = NoCampaign, !.busy = busy, !.message = message])
  BY <1>1 DEF PageInv, GoodPage, Page
<1> QED BY <1>2, <1>3 DEF Refreshed

LEMMA FundedInv ==
    ASSUME PageInv, NEW k \in Slots \cup {AutoSlot}, Funded(k)
    PROVE  PageInv'
<1> DEFINE t == [tasks[k] EXCEPT !.at = "finally"]
<1>1. tasks[k] # Idle /\ tasks[k].tx.kind = "fund"
  BY HasItsReceipt DEF Funded
<1>2. /\ tasks[k] \in Task /\ tasks[k].tx \in Tx /\ tasks[k].tx.campaign \in Campaigns
      /\ tasks[k].tx.from \in Wallets
  BY <1>1, Running
<1>3. page.busy \in {"none", "create", "fund", "check", "resume", "pay"}
  BY StillGood DEF Page
<1>4. GoodPage(page') /\ GoodStorage(storage')
  BY <1>2, <1>3, RefreshedGood DEF Funded
<1>5. GoodTask(t)
  BY <1>1, <1>2 DEF GoodTask, Task
<1>6. tasks' = [tasks EXCEPT ![k] = t] /\ refreshing' \subseteq Campaigns
  BY DEF Funded, PageInv
<1> HIDE DEF t
<1> QED BY <1>4, <1>5, <1>6, TaskMoves DEF Funded

LEMMA FundingEndsInv ==
    ASSUME PageInv, NEW k \in Slots \cup {AutoSlot}, FundingEnds(k)
    PROVE  PageInv'
<1>1. tasks[k] # Idle /\ tasks[k].at = "finally"
  BY DEF FundingEnds, At
<1>2. tasks[k].tx.campaign \in Campaigns
  BY <1>1, Running
<1>3. page.message \in {"other", "fundsAdded", "paymentComplete"}
  BY StillGood DEF Page
<1>4. GoodPage(page') /\ GoodStorage(storage')
  BY <1>2, <1>3, RefreshedGood DEF FundingEnds
<1> QED BY <1>4, Ends DEF FundingEnds, PageInv

LEMMA SubmittedInv ==
    ASSUME PageInv, NEW k \in Slots \cup {AutoSlot}, Submitted(k)
    PROVE  PageInv'
<1> DEFINE i == Receipt(k).tx.check
           t == [tasks[k] EXCEPT !.at = "poll", !.tx.check = i]
<1>1. tasks[k] # Idle /\ tasks[k].tx.kind = "check" /\ i \in DOMAIN checks
  BY HasItsReceipt DEF Submitted
<1>2. i \in Nat
  BY <1>1 DEF PageInv, ChainOK
<1>3. /\ tasks[k] \in Task /\ tasks[k].tx \in Tx /\ tasks[k].tx.campaign \in Campaigns
      /\ tasks[k].op # "fund"
  BY <1>1, Running
<1>4. tasks' = [tasks EXCEPT ![k] = t]
  BY DEF Submitted
<1>5. GoodPage(page') /\ GoodStorage(storage') /\ refreshing' \subseteq Campaigns
  <2> HIDE DEF t
  <2> QED BY <1>1, <1>2, StorageWrites DEF Submitted, PageInv, GoodPage, Page, Known
<1> HIDE DEF i
<1>6. /\ t \in Task /\ t.tx.kind = "check" /\ t.tx.campaign \in Campaigns /\ t.at = "poll"
      /\ t.tx.check = i /\ t.op # "fund"
  BY <1>1, <1>2, <1>3 DEF Task, Tx
<1> HIDE DEF t
<1>7. GoodTask(t)
  BY <1>1, <1>6 DEF GoodTask
<1> QED BY <1>4, <1>5, <1>7, TaskMoves DEF Submitted

LEMMA PollAgainInv ==
    ASSUME PageInv, NEW k \in Slots \cup {AutoSlot}, PollAgain(k)
    PROVE  PageInv'
<1> DEFINE t == [tasks[k] EXCEPT !.polls = @ - 1]
<1>1. tasks[k] # Idle /\ tasks[k].at = "poll" /\ tasks[k].polls > 1
  BY DEF PollAgain, At
<1>2. /\ GoodTask(tasks[k]) /\ tasks[k] \in Task
      /\ tasks[k].tx.kind # "create" /\ tasks[k].tx.check \in DOMAIN checks
  BY <1>1, Running DEF PageInv, TasksOK
<1>3. tasks[k].polls - 1 \in Nat
  BY <1>1, <1>2 DEF Task
<1>4. t \in Task /\ t.tx = tasks[k].tx /\ t.at = "poll" /\ t.op = tasks[k].op
  BY <1>1, <1>2, <1>3 DEF Task
<1>5. tasks' = [tasks EXCEPT ![k] = t]
  BY DEF PollAgain
<1> HIDE DEF t
<1>6. GoodTask(t)
  BY <1>1, <1>2, <1>4 DEF GoodTask
<1> QED BY <1>5, <1>6, TaskMoves DEF PollAgain, PageInv

LEMMA CheckedInv ==
    ASSUME PageInv, NEW k \in Slots \cup {AutoSlot}, Checked(k)
    PROVE  PageInv'
<1>1. tasks[k].tx.check \in DOMAIN checks
  BY Running DEF Checked, At
<1>2. tasks[k].tx.check \in Nat
  BY <1>1 DEF PageInv, ChainOK
<1>3. GoodPage(page')
  BY <1>1, <1>2 DEF Checked, PageInv, GoodPage, Page, Known, NoCheck
<1>4. GoodStorage(storage')
  BY StorageWrites, StillGood DEF Checked, RemovePending
<1> QED BY <1>3, <1>4, Ends DEF Checked, PageInv

LEMMA ReadEscrowInv ==
    ASSUME PageInv, NEW k \in Slots \cup {AutoSlot}, ReadEscrow(k)
    PROVE  PageInv'
<1> DEFINE c == tasks[k].tx.campaign
<1>1. tasks[k] # Idle /\ tasks[k].at = "precheck"
  BY DEF ReadEscrow, At
<1>2. escrow[c] \in Nat
  BY <1>1, Running, StillGood
<1>3. CASE page' = [page EXCEPT !.available = escrow[c], !.busy = "pay"] /\ Goto(k, "simulate")
  <2>1. GoodPage(page')
    BY <1>2, <1>3 DEF PageInv, GoodPage, Page
  <2> QED BY <1>1, <1>3, <2>1, Goes
<1>4. CASE /\ page' = [page EXCEPT !.available = escrow[c], !.message = "other"]
           /\ End(k)
           /\ UNCHANGED <<World, account, storage, refreshing>>
  <2>1. GoodPage(page')
    BY <1>2, <1>4 DEF PageInv, GoodPage, Page
  <2> QED BY <1>4, <2>1, Ends DEF PageInv
<1> QED BY <1>3, <1>4 DEF ReadEscrow

LEMMA VerifyPaymentInv ==
    ASSUME PageInv, NEW k \in Slots \cup {AutoSlot}, VerifyPayment(k)
    PROVE  PageInv'
<1>1. tasks[k] # Idle /\ tasks[k].at = "verify"
  BY DEF VerifyPayment, At
<1>2. tasks[k].tx.kind # "create" /\ tasks[k].tx.campaign \in Campaigns
  BY <1>1, Running
<1>3. escrow[tasks[k].tx.campaign] \in Nat /\ OnceSettled(k) \in BOOLEAN
  BY <1>2, StillGood DEF OnceSettled
<1>4. GoodPage(page')
  BY <1>3 DEF VerifyPayment, PageInv, GoodPage, Page
<1> QED BY <1>1, <1>2, <1>4, Goes DEF VerifyPayment

LEMMA TaskStepInv ==
    ASSUME PageInv, NEW k \in Slots \cup {AutoSlot}, TaskStep(k)
    PROVE  PageInv'
<1>1. CASE Simulate(k) \/ ReadMerchant(k) \/ ReadTerms(k)
  <2>1. tasks[k] # Idle /\ tasks[k].at # "poll" /\ GoodPage(page')
    BY <1>1 DEF Simulate, ReadMerchant, ReadTerms, At, PageInv
  <2> QED BY <1>1, <2>1, Goes DEF Simulate, ReadMerchant, ReadTerms
<1>2. CASE PayConfirmed(k)
  <2>1. tasks[k] # Idle /\ tasks[k].tx.kind # "create" /\ tasks[k].at # "poll"
    BY <1>2, HasItsReceipt DEF PayConfirmed
  <2> QED BY <1>2, <2>1, Goes DEF PayConfirmed, PageInv
<1>3. CASE StillProcessing(k)
  <2>1. GoodPage(page')
    BY <1>3 DEF StillProcessing, PageInv, GoodPage, Page
  <2> QED BY <1>3, <2>1, Ends DEF StillProcessing, PageInv
<1>4. CASE ReadEscrowFails(k)
  BY <1>4, Ends DEF ReadEscrowFails, PageInv
<1>5. CASE PaymentComplete(k)
  <2>1. GoodPage(page')
    BY <1>5 DEF PaymentComplete, PageInv, GoodPage, Page
  <2> QED BY <1>5, <2>1, Ends DEF PaymentComplete, PageInv
<1> QED BY <1>1, <1>2, <1>3, <1>4, <1>5, FailInv, SignInv, CreatedInv, ApprovedInv, FundedInv,
           FundingEndsInv, SubmittedInv, PollAgainInv, CheckedInv, ReadEscrowInv,
           VerifyPaymentInv DEF TaskStep

-----------------------------------------------------------------------------
(* Steps of the world.                                                     *)

\* Checks are never lost, and a transaction stays of its kind: what the browser
\* refers to is still there.
LEMMA WorldStep ==
    ASSUME PageInv, UNCHANGED Browser, ChainOK', TxsOK',
           DOMAIN checks \subseteq DOMAIN checks',
           \A i \in DOMAIN txs : i \in DOMAIN txs' /\ txs'[i].tx.kind = txs[i].tx.kind
    PROVE  PageInv'
<1>1. GoodPage(page)' /\ GoodStorage(storage)'
  BY DEF PageInv, Browser, GoodPage, GoodStorage, Known
<1>2. TasksOK'
  <2>1. ASSUME NEW k \in Slots \cup {AutoSlot} PROVE GoodTask(tasks[k])'
    <3>1. GoodTask(tasks[k]) /\ tasks'[k] = tasks[k]
      BY DEF PageInv, TasksOK, Browser
    <3> QED BY <3>1 DEF GoodTask
  <2> QED BY <2>1 DEF TasksOK, PageInv, Browser
<1> QED BY <1>1, <1>2 DEF PageInv, Browser

LEMMA TxIsTyped ==
    ASSUME PageInv, NEW i \in DOMAIN txs
    PROVE  /\ txs[i] \in Signed /\ txs[i].tx \in Tx /\ GoodTx(txs[i], DOMAIN checks)
           /\ txs \in Seq(Signed)
<1>1. txs \in Seq(Signed) /\ GoodTx(txs[i], DOMAIN checks)
  BY DEF PageInv, TxsOK
<1>2. txs[i] \in Signed
  BY <1>1
<1> QED BY <1>1, <1>2 DEF Signed

\* Paying takes no more than there is.
LEMMA PaidOutTyped ==
    ASSUME PageInv, NEW c \in Campaigns, NEW i \in DOMAIN checks, Settles(c, i), PaidOut(c, i)
    PROVE  escrow' \in [Campaigns -> Nat] /\ settled' \in [Campaigns -> SUBSET Orders]
<1>1. checks[i] \in Check
  BY DEF PageInv, ChainOK
<1>2. checks[i].order \in Orders
  BY <1>1 DEF Check
<1>3. Amount[checks[i].order] \in Nat /\ escrow[c] \in Nat
  BY <1>2, AmountAssumption, StillGood
<1>4. escrow[c] - Amount[checks[i].order] \in Nat
  BY <1>3 DEF Settles
<1> QED BY <1>2, <1>4 DEF PaidOut, PageInv, ChainOK

LEMMA Minus == ASSUME NEW a \in Nat, NEW b \in Nat, b <= a PROVE a - b \in Nat
OBVIOUS

LEMMA Plus == ASSUME NEW a \in Nat, NEW b \in Nat PROVE a + b \in Nat
OBVIOUS

LEMMA ExecutesTyped ==
    ASSUME PageInv, NEW tx \in Tx, NEW c \in Campaigns, WouldSucceed(tx), Executes(tx, c),
           tx.kind \in {"approve", "fund"} => tx.from \in Wallets,
           tx.kind = "check" => tx.order \in Orders,
           tx.kind = "settle" => tx.check \in DOMAIN checks
    PROVE  /\ ChainOK' /\ DOMAIN checks \subseteq DOMAIN checks'
           /\ tx.kind = "check" => Len(checks) + 1 \in DOMAIN checks'
<1>1. tx.from \in Wallets \cup {NoWallet} /\ tx.amount \in Nat
  BY DEF Tx
<1>2. CASE /\ tx.kind = "create"
           /\ merchant' = [merchant EXCEPT ![c] = tx.from]
           /\ UNCHANGED <<escrow, allowance, settled, checks>>
  BY <1>1, <1>2 DEF PageInv, ChainOK
<1>3. CASE /\ tx.kind = "approve"
           /\ allowance' = [allowance EXCEPT ![<<tx.from, c>>] = tx.amount]
           /\ UNCHANGED <<merchant, escrow, settled, checks>>
  BY <1>1, <1>3 DEF PageInv, ChainOK
<1>4. CASE /\ tx.kind = "fund" /\ c = tx.campaign
           /\ allowance' = [allowance EXCEPT ![<<tx.from, c>>] = @ - tx.amount]
           /\ escrow' = [escrow EXCEPT ![c] = @ + tx.amount]
           /\ UNCHANGED <<merchant, settled, checks>>
  <2>1. tx.amount <= allowance[tx.from, c] /\ tx.from \in Wallets
    BY <1>4 DEF WouldSucceed
  <2>2. allowance[tx.from, c] \in Nat /\ escrow[c] \in Nat
    BY <2>1 DEF PageInv, ChainOK
  <2>3. allowance[tx.from, c] - tx.amount \in Nat /\ escrow[c] + tx.amount \in Nat
    <3>1. allowance[tx.from, c] - tx.amount \in Nat
      BY <1>1, <1>4, <2>1, <2>2, Minus
    <3>2. escrow[c] + tx.amount \in Nat
      BY <1>1, <2>2, Plus
    <3> QED BY <3>1, <3>2
  <2>4. allowance' \in [Wallets \X Campaigns -> Nat]
    BY <1>4, <2>1, <2>3 DEF PageInv, ChainOK
  <2>5. escrow' \in [Campaigns -> Nat]
    BY <1>4, <2>3 DEF PageInv, ChainOK
  <2> QED BY <1>4, <2>4, <2>5 DEF PageInv, ChainOK
<1>5. CASE /\ tx.kind = "check"
           /\ checks' = Append(checks, [campaign |-> c, order |-> tx.order,
                                        answer |-> "none", expired |-> FALSE])
           /\ UNCHANGED <<merchant, escrow, allowance, settled>>
  <2> DEFINE new == [campaign |-> c, order |-> tx.order, answer |-> "none", expired |-> FALSE]
  <2>1. new \in Check
    BY <1>5 DEF Check
  <2> HIDE DEF new
  <2> QED BY <1>5, <2>1 DEF PageInv, ChainOK, new
<1>6. CASE tx.kind = "settle" /\ c = tx.campaign /\ PaidOut(c, tx.check)
           /\ UNCHANGED <<merchant, allowance, checks>>
  <2>1. Settles(c, tx.check)
    BY <1>6 DEF WouldSucceed
  <2> QED BY <1>6, <2>1, PaidOutTyped DEF PageInv, ChainOK
<1> QED BY <1>2, <1>3, <1>4, <1>5, <1>6 DEF Executes

LEMMA MineInv ==
    ASSUME PageInv, NEW i \in DOMAIN txs, Mine(i)
    PROVE  PageInv'
<1>0. PICK tx : tx = txs[i].tx
  OBVIOUS
<1>1. tx \in Tx /\ GoodTx(txs[i], DOMAIN checks) /\ txs[i] \in Signed /\ txs \in Seq(Signed)
  BY <1>0, TxIsTyped
<1>2. txs[i].status = "sent" /\ WouldSucceed(tx) /\ UNCHANGED Browser
  BY <1>0 DEF Mine
<1>12. PICK check : check = IF tx.kind = "check" THEN Len(checks) + 1 ELSE tx.check
  OBVIOUS
<1>3. PICK c \in Campaigns :
         /\ Executes(tx, c)
         /\ txs' = [txs EXCEPT ![i].status = "success", ![i].tx.campaign = c, ![i].tx.check = check]
  BY <1>0, <1>12 DEF Mine
<1>4. /\ tx.kind \in {"approve", "fund"} => tx.from \in Wallets
      /\ tx.kind = "check" => tx.order \in Orders
      /\ tx.kind = "settle" => tx.check \in DOMAIN checks
  BY <1>0, <1>1 DEF GoodTx
<1>5. /\ ChainOK' /\ DOMAIN checks \subseteq DOMAIN checks'
      /\ tx.kind = "check" => Len(checks) + 1 \in DOMAIN checks'
  <2>1. tx \in Tx /\ WouldSucceed(tx) /\ Executes(tx, c)
    BY <1>1, <1>2, <1>3
  <2> QED BY <2>1, <1>4, ExecutesTyped
<1>6. check \in Nat
  BY <1>1, <1>12 DEF PageInv, ChainOK, Tx
<1>13. PICK mined : mined = [txs[i] EXCEPT !.status = "success", !.tx.campaign = c, !.tx.check = check]
  OBVIOUS
<1>7. /\ mined \in Signed /\ mined.tx.kind = tx.kind /\ mined.tx.campaign = c
      /\ mined.tx.from = tx.from /\ mined.tx.order = tx.order /\ mined.tx.check = check
  BY <1>0, <1>1, <1>6, <1>13 DEF Signed, Tx
<1>8. txs' = [txs EXCEPT ![i] = mined]
  BY <1>3, <1>13
<1>9. GoodTx(mined, DOMAIN checks')
  BY <1>4, <1>5, <1>7, <1>12 DEF GoodTx
<1>10. TxsOK'
  <2>1. txs' \in Seq(Signed) /\ DOMAIN txs' = DOMAIN txs
    BY <1>1, <1>7, <1>8
  <2>2. ASSUME NEW j \in DOMAIN txs PROVE GoodTx(txs'[j], DOMAIN checks')
    <3>1. CASE j = i
      BY <1>1, <1>8, <1>9, <3>1
    <3>2. CASE j # i
      BY <1>1, <1>5, <1>8, <3>2 DEF PageInv, TxsOK, GoodTx
    <3> QED BY <3>1, <3>2
  <2> QED BY <2>1, <2>2 DEF TxsOK
<1>11. \A j \in DOMAIN txs : j \in DOMAIN txs' /\ txs'[j].tx.kind = txs[j].tx.kind
  BY <1>0, <1>1, <1>7, <1>8
<1> QED BY <1>2, <1>5, <1>10, <1>11, WorldStep

LEMMA RevertInv ==
    ASSUME PageInv, NEW i \in DOMAIN txs, Revert(i)
    PROVE  PageInv'
<1> DEFINE reverted == [txs[i] EXCEPT !.status = "reverted"]
<1>1. txs[i].tx \in Tx /\ GoodTx(txs[i], DOMAIN checks) /\ txs[i] \in Signed /\ txs \in Seq(Signed)
  BY TxIsTyped
<1>2. UNCHANGED <<chain, Browser>> /\ txs' = [txs EXCEPT ![i] = reverted] /\ txs[i].status = "sent"
  BY DEF Revert
<1>3. reverted \in Signed /\ reverted.tx = txs[i].tx /\ reverted.status = "reverted"
  BY <1>1 DEF Signed
<1>4. GoodTx(reverted, DOMAIN checks)
  BY <1>1, <1>2, <1>3 DEF GoodTx
<1> HIDE DEF reverted
<1>5. ChainOK'
  BY <1>2 DEF PageInv, ChainOK, chain
<1>6. TxsOK'
  <2>1. txs' \in Seq(Signed) /\ DOMAIN txs' = DOMAIN txs
    BY <1>1, <1>2, <1>3
  <2>2. ASSUME NEW j \in DOMAIN txs PROVE GoodTx(txs'[j], DOMAIN checks)
    BY <1>1, <1>2, <1>4 DEF PageInv, TxsOK
  <2>3. checks' = checks
    BY <1>2 DEF chain
  <2> QED BY <2>1, <2>2, <2>3 DEF TxsOK
<1>7. \A j \in DOMAIN txs : j \in DOMAIN txs' /\ txs'[j].tx.kind = txs[j].tx.kind
  BY <1>1, <1>2, <1>3
<1> QED BY <1>2, <1>5, <1>6, <1>7, WorldStep DEF chain

\* A new answer, or an expiry: no check comes or goes.
LEMMA ChecksChange ==
    ASSUME PageInv, NEW i \in DOMAIN checks, NEW check \in Check,
           checks' = [checks EXCEPT ![i] = check],
           UNCHANGED <<merchant, escrow, allowance, settled, txs, Browser>>
    PROVE  PageInv'
<1>1. checks' \in Seq(Check) /\ DOMAIN checks' = DOMAIN checks
  BY DEF PageInv, ChainOK
<1>2. ChainOK' /\ TxsOK'
  BY <1>1 DEF PageInv, ChainOK, TxsOK, GoodTx
<1> QED BY <1>1, <1>2, WorldStep

LEMMA ChecksInv ==
    ASSUME PageInv, NEW i \in DOMAIN checks, Answer(i) \/ Expire(i) \/ SettledByOther(i)
    PROVE  PageInv'
<1>1. checks[i] \in Check
  BY DEF PageInv, ChainOK
<1>2. CASE Answer(i)
  <2>1. PICK a \in Answers : checks' = [checks EXCEPT ![i] = [checks[i] EXCEPT !.answer = a]]
    BY <1>2 DEF Answer
  <2>2. [checks[i] EXCEPT !.answer = a] \in Check
    BY <1>1, AnswerAssumption DEF Check
  <2> QED BY <1>2, <2>1, <2>2, ChecksChange DEF Answer
<1>3. CASE Expire(i)
  <2>1. checks' = [checks EXCEPT ![i] = [checks[i] EXCEPT !.expired = TRUE]]
    BY <1>3 DEF Expire
  <2>2. [checks[i] EXCEPT !.expired = TRUE] \in Check
    BY <1>1 DEF Check
  <2> QED BY <1>3, <2>1, <2>2, ChecksChange DEF Expire
<1>4. CASE SettledByOther(i)
  <2>1. checks[i].campaign \in Campaigns
    BY <1>1 DEF Check
  <2>2. ChainOK'
    BY <1>4, <2>1, PaidOutTyped DEF SettledByOther, PageInv, ChainOK
  <2>3. TxsOK'
    BY <1>4 DEF SettledByOther, PageInv, TxsOK, GoodTx
  <2> QED BY <1>4, <2>2, <2>3, WorldStep DEF SettledByOther
<1> QED BY <1>2, <1>3, <1>4

-----------------------------------------------------------------------------
(* Steps of the page that belong to no handler.                            *)

\* A step of the page that leaves the handlers alone.
LEMMA PageStep ==
    ASSUME PageInv, UNCHANGED <<World, tasks>>, account' \in Wallets \cup {NoWallet},
           GoodPage(page'), GoodStorage(storage'), refreshing' \subseteq Campaigns
    PROVE  PageInv'
BY BrowserStep DEF PageInv, TasksOK

\* The first render; AppShell has it with another account, too.
LEMMA MountsInv ==
    ASSUME PageInv, Mounts, UNCHANGED <<World, storage>>, account' \in Wallets \cup {NoWallet}
    PROVE  PageInv'
<1> DEFINE resumes == PendingIsOfCampaign(storage.pending, storage.campaign)
           resumed == [op |-> "autoresume", at |-> "poll", id |-> 0, polls |-> 1,
                       tx |-> [kind |-> "check", campaign |-> storage.campaign,
                               from |-> account, amount |-> 0, order |-> NoOrder,
                               check |-> storage.pending]]
<1>1. /\ storage.campaign \in Campaigns \cup {NoCampaign}
      /\ storage.pending \in Nat /\ Known(storage.pending)
  BY DEF PageInv, GoodStorage, Storage
<1>2. ASSUME resumes PROVE GoodTask(resumed)
  <2>1. storage.campaign \in Campaigns /\ storage.pending \in DOMAIN checks
    BY <1>1, <1>2 DEF PendingIsOfCampaign, Known
  <2>2. resumed \in Task
    BY <1>1, <2>1 DEF Task, Tx, PageInv
  <2> QED BY <2>1, <2>2 DEF GoodTask
<1>3. /\ tasks' = [k \in Slots \cup {AutoSlot} |->
                     IF k = AutoSlot /\ resumes THEN resumed ELSE Idle]
      /\ refreshing' \subseteq Campaigns
  BY <1>1 DEF Mounts
<1>4. GoodPage(page')
  BY <1>1, OrderAssumption DEF Mounts, EmptyPage, GoodPage, Page, Known, NoCheck
<1> HIDE DEF resumed, resumes
<1>5. ASSUME NEW k \in Slots \cup {AutoSlot} PROVE GoodTask(tasks'[k])
  <2>1. GoodTask(Idle)
    BY DEF GoodTask
  <2> QED BY <1>2, <1>3, <2>1
<1>6. DOMAIN tasks' = Slots \cup {AutoSlot}
  BY <1>3
<1>7. GoodStorage(storage')
  BY DEF PageInv
<1> QED BY <1>3, <1>4, <1>5, <1>6, <1>7, BrowserStep

LEMMA PageActionsInv ==
    ASSUME PageInv,
           \/ \E c \in Campaigns : RefreshSucceeds(c) \/ RefreshFails(c)
           \/ \E w \in Exposed : AccountsChanged(w)
           \/ \E o \in Orders : HandleReferenceChange(o)
           \/ StartNextOrder \/ StartOver
    PROVE  PageInv'
<1>1. CASE \E c \in Campaigns : RefreshSucceeds(c)
  <2>1. PICK c \in Campaigns : RefreshSucceeds(c)
    BY <1>1
  <2>2. escrow[c] \in Nat
    BY StillGood
  <2>3. GoodPage(page')
    BY <2>1, <2>2 DEF RefreshSucceeds, PageInv, GoodPage, Page
  <2> QED BY <2>1, <2>3, PageStep DEF RefreshSucceeds, PageInv
<1>2. CASE \E c \in Campaigns : RefreshFails(c)
  <2>1. PICK c \in Campaigns : RefreshFails(c)
    BY <1>2
  <2>2. GoodPage(page') /\ GoodStorage(storage')
    BY <2>1 DEF RefreshFails, PageInv, GoodPage, Page, GoodStorage, Storage
  <2> QED BY <2>1, <2>2, PageStep DEF RefreshFails, PageInv
<1>3. CASE \E w \in Exposed : AccountsChanged(w)
  BY <1>3, WalletAssumption, PageStep DEF AccountsChanged, PageInv
<1>4. CASE \E o \in Orders : HandleReferenceChange(o)
  <2>1. GoodPage(page')
    BY <1>4 DEF HandleReferenceChange, PageInv, GoodPage, Page
  <2> QED BY <1>4, <2>1, PageStep DEF HandleReferenceChange, PageInv
<1>5. CASE StartNextOrder
  <2>1. GoodPage(page')
    BY <1>5 DEF StartNextOrder, PageInv, GoodPage, Page, Known, NoCheck
  <2>2. GoodStorage(storage')
    BY <1>5, StorageWrites, StillGood DEF StartNextOrder, RemovePending
  <2> QED BY <1>5, <2>1, <2>2, PageStep DEF StartNextOrder, PageInv
<1>6. CASE StartOver
  <2>1. GoodPage(page') /\ GoodStorage(storage')
    BY <1>6, OrderAssumption DEF StartOver, EmptyPage, PageInv, GoodPage, Page, GoodStorage,
                                 Storage, Known, NoCheck
  <2> QED BY <1>6, <2>1, PageStep DEF StartOver, PageInv
<1> QED BY <1>1, <1>2, <1>3, <1>4, <1>5, <1>6

LEMMA NextInv ==
    ASSUME PageInv, [Next]_vars
    PROVE  PageInv'
<1>1. CASE Next
  <2>1. CASE \E i \in DOMAIN txs : Mine(i) \/ Revert(i)
    BY <2>1, MineInv, RevertInv
  <2>2. CASE \E i \in DOMAIN checks : Answer(i) \/ Expire(i) \/ SettledByOther(i)
    BY <2>2, ChecksInv
  <2>3. CASE \E k \in Slots : Click(k)
    BY <2>3, ClickInv
  <2>4. CASE \E k \in Slots \cup {AutoSlot} : TaskStep(k)
    BY <2>4, TaskStepInv
  <2> QED BY <1>1, <2>1, <2>2, <2>3, <2>4, PageActionsInv, MountsInv DEF Next, Reload, PageInv
<1>2. CASE UNCHANGED vars
  <2>1. ChainOK' /\ TxsOK'
    BY <1>2 DEF PageInv, ChainOK, TxsOK, GoodTx, vars, chain
  <2> QED BY <1>2, <2>1, WorldStep DEF vars, chain, Browser
<1> QED BY <1>1, <1>2

\* Whatever the wallet, the nodes, the service and the user do, and in any order,
\* page, storage, handlers and chain are well-formed: no index points at a check or a
\* transaction that is not there, and no payment takes more than the escrow holds.
THEOREM TypeCorrect == Spec => []TypeOK
<1>1. Spec => []PageInv
  BY InitInv, NextInv, PTL DEF Spec
<1> QED BY <1>1, InvTypes, PTL

LEMMA Invariant == Spec => []PageInv
BY InitInv, NextInv, PTL DEF Spec

-----------------------------------------------------------------------------
(* The saved payment.                                                      *)

\* A click starts a handler and writes neither the payment nor the pending check.
LEMMA ClickMirrors ==
    ASSUME PageInv, NEW k \in Slots, Click(k)
    PROVE  /\ page'.campaign = page.campaign /\ page'.pending = page.pending
           /\ storage' = storage
BY DEF Click, CreatePayment, AddFunds, RunPrivateCheck, ResumePrivateCheck, PayCommission,
       Start, Busy, PageInv, GoodPage, Page

LEMMA RefreshedMirrors ==
    ASSUME PageInv, StorageMirrorsPage, NEW c, NEW busy, NEW message,
           Refreshed(c, busy, message)
    PROVE  StorageMirrorsPage'
BY DEF Refreshed, StorageMirrorsPage, PageInv, GoodPage, GoodStorage, Page, Storage

LEMMA TaskStepMirrors ==
    ASSUME PageInv, StorageMirrorsPage, NEW k \in Slots \cup {AutoSlot}, TaskStep(k)
    PROVE  StorageMirrorsPage'
<1> USE DEF StorageMirrorsPage, PageInv, GoodPage, GoodStorage, Page, Storage
<1>1. CASE Created(k)
  BY <1>1 DEF Created
<1>2. CASE Funded(k)
  BY <1>2, RefreshedMirrors DEF Funded
<1>3. CASE FundingEnds(k)
  BY <1>3, RefreshedMirrors DEF FundingEnds
<1>4. CASE Submitted(k)
  BY <1>4 DEF Submitted
<1>5. CASE Checked(k)
  BY <1>5 DEF Checked, RemovePending
<1>6. CASE Fail(k)
  BY <1>6 DEF Fail, Goto
<1>7. CASE Simulate(k) \/ Sign(k) \/ ReadMerchant(k) \/ Approved(k) \/ ReadTerms(k) \/ PollAgain(k)
           \/ ReadEscrowFails(k) \/ PayConfirmed(k)
  BY <1>7 DEF Simulate, Sign, ReadMerchant, Approved, ReadTerms, PollAgain, ReadEscrowFails,
              PayConfirmed, Goto
<1>8. CASE StillProcessing(k) \/ VerifyPayment(k) \/ PaymentComplete(k)
  BY <1>8 DEF StillProcessing, VerifyPayment, PaymentComplete, Goto
<1>9. CASE ReadEscrow(k)
  BY <1>9 DEF ReadEscrow, Goto
<1> QED BY <1>1, <1>2, <1>3, <1>4, <1>5, <1>6, <1>7, <1>8, <1>9 DEF TaskStep

LEMMA NextMirrors ==
    ASSUME PageInv, StorageMirrorsPage, [Next]_vars
    PROVE  StorageMirrorsPage'
<1> USE DEF StorageMirrorsPage, PageInv, GoodPage, GoodStorage, Page, Storage
<1>1. CASE \E i \in DOMAIN txs : Mine(i) \/ Revert(i)
  BY <1>1 DEF Mine, Revert, Browser
<1>2. CASE \E i \in DOMAIN checks : Answer(i) \/ Expire(i) \/ SettledByOther(i)
  BY <1>2 DEF Answer, Expire, SettledByOther, Browser
<1>3. CASE \E k \in Slots : Click(k)
  BY <1>3, ClickMirrors
<1>4. CASE \E k \in Slots \cup {AutoSlot} : TaskStep(k)
  BY <1>4, TaskStepMirrors
<1>5. CASE \E c \in Campaigns : RefreshSucceeds(c) \/ RefreshFails(c)
  BY <1>5 DEF RefreshSucceeds, RefreshFails
<1>6. CASE (\E w \in Exposed : AccountsChanged(w)) \/ (\E o \in Orders : HandleReferenceChange(o))
  BY <1>6 DEF AccountsChanged, HandleReferenceChange
<1>7. CASE StartNextOrder
  BY <1>7 DEF StartNextOrder, RemovePending
<1>10. CASE StartOver
  <2>1. page'.campaign = NoCampaign /\ page'.pending = NoCheck
    BY <1>10 DEF StartOver, EmptyPage
  <2>2. storage' = [campaign |-> NoCampaign, pending |-> NoCheck]
    BY <1>10 DEF StartOver
  <2> QED BY <2>1, <2>2
<1>8. CASE Reload
  BY <1>8 DEF Reload, Mounts, EmptyPage
<1>9. CASE UNCHANGED vars
  BY <1>9 DEF vars
<1> QED BY <1>1, <1>2, <1>3, <1>4, <1>5, <1>6, <1>7, <1>8, <1>9, <1>10 DEF Next

\* Whatever handlers run over each other, and whichever of them loses the payment on a
\* failed read, localStorage says what the page says.
THEOREM MirrorsCorrect == Spec => []StorageMirrorsPage
<1>1. Init => StorageMirrorsPage
  BY DEF Init, EmptyPage, StorageMirrorsPage
<1> QED BY <1>1, Invariant, NextMirrors, PTL DEF Spec

-----------------------------------------------------------------------------
(* The one `busy` of all handlers.                                         *)

\* The handler the page shows is past the read that precedes a payment: a click on
\* "Pay" whose first read fails ends without touching `busy`.
BusyInv ==
    page.busy # "none" =>
        \E k \in Slots \cup {AutoSlot} :
          tasks[k] # Idle /\ Owner(tasks[k].op) = page.busy /\ tasks[k].at # "precheck"

\* One handler moves and keeps its name, or it is at "precheck"; `busy` is as before.
LEMMA OwnerStays ==
    ASSUME TasksOK, BusyInv, page'.busy = page.busy, NEW k \in Slots \cup {AutoSlot}, NEW t,
           tasks' = [tasks EXCEPT ![k] = t],
           \/ t # Idle /\ t.op = tasks[k].op /\ t.at # "precheck"
           \/ tasks[k] = Idle
           \/ tasks[k].at = "precheck"
    PROVE  BusyInv'
<1> SUFFICES ASSUME page'.busy # "none" PROVE BusyInv'
  BY DEF BusyInv
<1>1. PICK j \in Slots \cup {AutoSlot} :
        tasks[j] # Idle /\ Owner(tasks[j].op) = page.busy /\ tasks[j].at # "precheck"
  BY DEF BusyInv
<1>2. CASE j = k
  <2>1. tasks'[k] = t /\ t # Idle /\ t.op = tasks[k].op /\ t.at # "precheck"
    BY <1>1, <1>2 DEF TasksOK
  <2> QED BY <1>1, <1>2, <2>1 DEF BusyInv
<1>3. CASE j # k
  <2>1. tasks'[j] = tasks[j]
    BY <1>3 DEF TasksOK
  <2> QED BY <1>1, <2>1 DEF BusyInv
<1> QED BY <1>2, <1>3

\* A handler that shows itself.
LEMMA OwnerShows ==
    ASSUME TasksOK, NEW k \in Slots \cup {AutoSlot}, NEW t,
           tasks' = [tasks EXCEPT ![k] = t],
           t # Idle, page'.busy = Owner(t.op), t.at # "precheck"
    PROVE  BusyInv'
<1>1. tasks'[k] = t
  BY DEF TasksOK
<1> QED BY <1>1 DEF BusyInv

LEMMA TaskStepBusy ==
    ASSUME PageInv, BusyInv, NEW k \in Slots \cup {AutoSlot}, TaskStep(k)
    PROVE  BusyInv'
<1>1. TasksOK /\ page \in Page
  BY DEF PageInv, GoodPage
<1>2. tasks[k] # Idle
  BY DEF TaskStep, At, Confirming, Fail, Simulate, Sign, Created, ReadMerchant, Approved, Funded,
         FundingEnds, ReadTerms, Submitted, PollAgain, StillProcessing, Checked, ReadEscrow,
         ReadEscrowFails, PayConfirmed, VerifyPayment, PaymentComplete
<1>3. tasks[k] \in Task /\ (tasks[k].at = "precheck" => tasks[k].op = "pay")
  BY <1>2, Running
<1>4. ASSUME NEW place \in {"simulate", "wallet", "finally", "verify", "done"},
             Goto(k, place), page'.busy = page.busy
      PROVE  BusyInv'
  <2> DEFINE t == [tasks[k] EXCEPT !.at = place]
  <2>1. t.at = place /\ t.op = tasks[k].op /\ t # Idle
    BY <1>3 DEF Task, Idle
  <2>2. tasks' = [tasks EXCEPT ![k] = t]
    BY <1>4 DEF Goto
  <2> HIDE DEF t
  <2>3. t.at # "precheck"
    BY <2>1
  <2> QED BY <1>1, <1>4, <2>1, <2>2, <2>3, OwnerStays
<1>5. CASE page'.busy = "none"
  BY <1>5 DEF BusyInv
<1>6. CASE Fail(k)
  BY <1>1, <1>4, <1>5, <1>6 DEF Fail, Page
<1>7. CASE Simulate(k) \/ ReadMerchant(k) \/ ReadTerms(k) \/ PayConfirmed(k)
  BY <1>4, <1>7 DEF Simulate, ReadMerchant, ReadTerms, PayConfirmed
<1>8. CASE VerifyPayment(k)
  <2>1. page'.busy = page.busy
    BY <1>1, <1>8 DEF VerifyPayment, Page
  <2> QED BY <1>4, <1>8, <2>1 DEF VerifyPayment
<1>9. CASE Sign(k)
  <2> DEFINE t == [tasks[k] EXCEPT !.at = "confirm", !.id = Len(txs) + 1]
  <2>1. t.at = "confirm" /\ t.op = tasks[k].op /\ t # Idle
    BY <1>3 DEF Task, Idle
  <2>2. tasks' = [tasks EXCEPT ![k] = t] /\ page' = page
    BY <1>9 DEF Sign
  <2> HIDE DEF t
  <2> QED BY <1>1, <2>1, <2>2, OwnerStays
<1>10. CASE Approved(k)
  <2> DEFINE t == [tasks[k] EXCEPT !.at = "simulate", !.tx.kind = "fund"]
  <2>1. t.at = "simulate" /\ t.op = tasks[k].op /\ t # Idle
    BY <1>3 DEF Task, Idle
  <2>2. tasks' = [tasks EXCEPT ![k] = t] /\ page' = page
    BY <1>10 DEF Approved
  <2> HIDE DEF t
  <2> QED BY <1>1, <2>1, <2>2, OwnerStays
<1>11. CASE Funded(k)
  <2> DEFINE t == [tasks[k] EXCEPT !.at = "finally"]
  <2>1. t.at = "finally" /\ t.op = tasks[k].op /\ t # Idle
    BY <1>3 DEF Task, Idle
  <2>2. tasks' = [tasks EXCEPT ![k] = t] /\ page'.busy = page.busy
    BY <1>1, <1>11 DEF Funded, Refreshed, Page
  <2> HIDE DEF t
  <2> QED BY <1>1, <2>1, <2>2, OwnerStays
<1>12. CASE Submitted(k)
  <2> DEFINE t == [tasks[k] EXCEPT !.at = "poll", !.tx.check = Receipt(k).tx.check]
  <2>1. t.at = "poll" /\ t.op = tasks[k].op /\ t # Idle
    BY <1>3 DEF Task, Idle
  <2>2. tasks' = [tasks EXCEPT ![k] = t] /\ page'.busy = page.busy
    BY <1>1, <1>12 DEF Submitted, Page
  <2> HIDE DEF t
  <2> QED BY <1>1, <2>1, <2>2, OwnerStays
<1>13. CASE PollAgain(k)
  <2> DEFINE t == [tasks[k] EXCEPT !.polls = @ - 1]
  <2>1. t.at = "poll" /\ t.op = tasks[k].op /\ t # Idle
    BY <1>3, <1>13 DEF Task, Idle, PollAgain, At
  <2>2. tasks' = [tasks EXCEPT ![k] = t] /\ page' = page
    BY <1>13 DEF PollAgain
  <2> HIDE DEF t
  <2> QED BY <1>1, <2>1, <2>2, OwnerStays
<1>14. CASE Created(k) \/ FundingEnds(k) \/ StillProcessing(k) \/ Checked(k) \/ PaymentComplete(k)
  <2>1. page'.busy = "none"
    BY <1>1, <1>14 DEF Created, FundingEnds, Refreshed, StillProcessing, Checked,
                       PaymentComplete, Page
  <2> QED BY <1>5, <2>1
<1>15. CASE ReadEscrow(k) \/ ReadEscrowFails(k)
  <2>1. tasks[k].at = "precheck" /\ tasks[k].op = "pay"
    BY <1>3, <1>15 DEF ReadEscrow, ReadEscrowFails, At
  <2>2. CASE Goto(k, "simulate") /\ page'.busy = "pay"
    <3> DEFINE t == [tasks[k] EXCEPT !.at = "simulate"]
    <3>1. t.at = "simulate" /\ Owner(t.op) = "pay" /\ t # Idle
      BY <1>3, <2>1 DEF Task, Idle, Owner
    <3>2. tasks' = [tasks EXCEPT ![k] = t]
      BY <2>2 DEF Goto
    <3> HIDE DEF t
    <3> QED BY <1>1, <2>2, <3>1, <3>2, OwnerShows
  <2>3. CASE End(k) /\ page'.busy = page.busy
    BY <1>1, <2>1, <2>3, OwnerStays DEF End
  <2> QED BY <1>1, <1>15, <2>2, <2>3 DEF ReadEscrow, ReadEscrowFails, Page
<1> QED BY <1>6, <1>7, <1>8, <1>9, <1>10, <1>11, <1>12, <1>13, <1>14, <1>15 DEF TaskStep

LEMMA ClickBusy ==
    ASSUME PageInv, BusyInv, NEW k \in Slots, Click(k)
    PROVE  BusyInv'
<1>1. TasksOK /\ page \in Page
  BY DEF PageInv, GoodPage
<1>2. ASSUME NEW op \in {"create", "fund", "check", "resume"},
             NEW at \in {"merchant", "read", "simulate", "poll"},
             NEW tx, NEW polls, Start(k, op, at, tx, polls), Busy(op)
      PROVE  BusyInv'
  <2> DEFINE t == [op |-> op, at |-> at, tx |-> tx, id |-> 0, polls |-> polls]
  <2>1. t # Idle /\ t.at # "precheck" /\ Owner(t.op) = op
    BY DEF Idle, Owner
  <2>2. tasks' = [tasks EXCEPT ![k] = t] /\ page'.busy = op
    BY <1>1, <1>2 DEF Start, Busy, Page
  <2> HIDE DEF t
  <2> QED BY <1>1, <2>1, <2>2, OwnerShows
<1>3. CASE PayCommission(k)
  <2>1. PICK t : tasks[k] = Idle /\ tasks' = [tasks EXCEPT ![k] = t]
    BY <1>3 DEF PayCommission, Start
  <2>2. page'.busy = page.busy
    BY <1>1, <1>3 DEF PayCommission, Page
  <2> QED BY <1>1, <2>1, <2>2, OwnerStays
<1> QED BY <1>2, <1>3 DEF Click, CreatePayment, AddFunds, RunPrivateCheck, ResumePrivateCheck

LEMMA MountsBusy == ASSUME Mounts PROVE BusyInv'
<1> DEFINE resumes == PendingIsOfCampaign(storage.pending, storage.campaign)
<1>1. page'.busy = IF resumes THEN "resume" ELSE "none"
  BY DEF Mounts, EmptyPage
<1>2. ASSUME resumes
      PROVE  /\ tasks'[AutoSlot].op = "autoresume" /\ tasks'[AutoSlot].at = "poll"
             /\ tasks'[AutoSlot] # Idle
  BY <1>2 DEF Mounts, Idle
<1> HIDE DEF resumes
<1> QED BY <1>1, <1>2 DEF BusyInv, Owner

LEMMA NextBusy ==
    ASSUME PageInv, BusyInv, [Next]_vars
    PROVE  BusyInv'
<1>1. page \in Page
  BY DEF PageInv, GoodPage
<1>2. ASSUME tasks' = tasks, page'.busy = page.busy PROVE BusyInv'
  BY <1>2 DEF BusyInv
<1>3. CASE \E i \in DOMAIN txs : Mine(i) \/ Revert(i)
  BY <1>2, <1>3 DEF Mine, Revert, Browser
<1>4. CASE \E i \in DOMAIN checks : Answer(i) \/ Expire(i) \/ SettledByOther(i)
  BY <1>2, <1>4 DEF Answer, Expire, SettledByOther, Browser
<1>5. CASE \E k \in Slots : Click(k)
  BY <1>5, ClickBusy
<1>6. CASE \E k \in Slots \cup {AutoSlot} : TaskStep(k)
  BY <1>6, TaskStepBusy
<1>7. CASE \E c \in Campaigns : RefreshSucceeds(c) \/ RefreshFails(c)
  BY <1>1, <1>2, <1>7 DEF RefreshSucceeds, RefreshFails, Page
<1>8. CASE (\E w \in Exposed : AccountsChanged(w)) \/ (\E o \in Orders : HandleReferenceChange(o))
  BY <1>1, <1>2, <1>8 DEF AccountsChanged, HandleReferenceChange, Page
<1>9. CASE StartNextOrder \/ StartOver
  BY <1>1, <1>2, <1>9 DEF StartNextOrder, StartOver, EmptyPage, Page
<1>10. CASE Reload
  BY <1>10, MountsBusy DEF Reload
<1>11. CASE UNCHANGED vars
  BY <1>2, <1>11 DEF vars
<1> QED BY <1>3, <1>4, <1>5, <1>6, <1>7, <1>8, <1>9, <1>10, <1>11 DEF Next

\* Five buttons, any number of running handlers and an effect share one `busy`; a
\* button shown as working always has a handler that is still to end.
THEOREM BusyCorrect == Spec => []BusyHasOwner
<1>1. Init => BusyInv
  BY DEF Init, EmptyPage, BusyInv
<1>2. PageInv /\ BusyInv => BusyHasOwner
  BY DEF PageInv, TasksOK, BusyInv, BusyHasOwner
<1> QED BY <1>1, <1>2, Invariant, NextBusy, PTL DEF Spec

-----------------------------------------------------------------------------
(* Approvals.                                                              *)

\* A handler that has read the merchant and is not done approving.
Approving(t) == t # Idle /\ t.tx.kind = "approve" /\ t.at \in {"simulate", "wallet", "confirm"}

\* The merchant check of addFunds comes before the simulation, the signature and the
\* block: what it found must still be so at each of them.
ApprovalInv ==
    /\ ApprovalOnlyToOwn
    /\ \A i \in DOMAIN txs : txs[i].tx.kind = "approve" =>
          merchant[txs[i].tx.campaign] = txs[i].tx.from
    /\ \A k \in Slots \cup {AutoSlot} : Approving(tasks[k]) =>
          merchant[tasks[k].tx.campaign] = tasks[k].tx.from

\* A handler moves and nothing else that matters here.
LEMMA ApprovalTask ==
    ASSUME PageInv, ApprovalInv, UNCHANGED World, NEW k \in Slots \cup {AutoSlot}, NEW t,
           tasks' = [tasks EXCEPT ![k] = t],
           Approving(t) => \/ Approving(tasks[k]) /\ t.tx = tasks[k].tx
                           \/ merchant[t.tx.campaign] = t.tx.from
    PROVE  ApprovalInv'
<1>1. UNCHANGED <<merchant, allowance, txs>>
  BY DEF World, chain
<1>2. ASSUME NEW j \in Slots \cup {AutoSlot}, Approving(tasks'[j])
      PROVE  merchant[tasks'[j].tx.campaign] = tasks'[j].tx.from
  <2>1. CASE j = k
    <3>1. tasks'[k] = t
      BY DEF PageInv, TasksOK
    <3> QED BY <1>2, <2>1, <3>1 DEF ApprovalInv
  <2>2. CASE j # k
    <3>1. tasks'[j] = tasks[j]
      BY <2>2 DEF PageInv, TasksOK
    <3> QED BY <1>2, <3>1 DEF ApprovalInv
  <2> QED BY <2>1, <2>2
<1> QED BY <1>1, <1>2 DEF ApprovalInv, ApprovalOnlyToOwn, Approving

LEMMA PositiveBefore ==
    ASSUME NEW before \in Nat, NEW taken \in Nat, NEW after, after = before - taken, after > 0
    PROVE  before > 0
OBVIOUS

\* The merchant of a campaign is decided once, and a refused or spent allowance is none.
LEMMA MineApproval ==
    ASSUME PageInv, ApprovalInv, NEW i \in DOMAIN txs, Mine(i)
    PROVE  ApprovalInv'
<1>1. PICK tx : tx = txs[i].tx
  OBVIOUS
<1>2. tx \in Tx /\ GoodTx(txs[i], DOMAIN checks) /\ txs[i] \in Signed /\ txs \in Seq(Signed)
  BY <1>1, TxIsTyped
<1>3. WouldSucceed(tx) /\ UNCHANGED Browser
  BY <1>1 DEF Mine
<1>15. PICK check : check = IF tx.kind = "check" THEN Len(checks) + 1 ELSE tx.check
  OBVIOUS
<1>4. PICK c \in Campaigns :
        /\ Executes(tx, c)
        /\ txs' = [txs EXCEPT ![i].status = "success", ![i].tx.campaign = c, ![i].tx.check = check]
  BY <1>1, <1>15 DEF Mine
<1>5. PICK mined : mined = [txs[i] EXCEPT !.status = "success", !.tx.campaign = c, !.tx.check = check]
  OBVIOUS
<1>6. mined.tx.kind = tx.kind /\ mined.tx.campaign = c /\ mined.tx.from = tx.from
  BY <1>1, <1>2, <1>5 DEF Signed, Tx
<1>7. txs' = [txs EXCEPT ![i] = mined]
  BY <1>4, <1>5
<1>8. tx.kind = "approve" => /\ c = tx.campaign /\ tx.from \in Wallets
                             /\ merchant[tx.campaign] = tx.from
  <2> SUFFICES ASSUME tx.kind = "approve"
               PROVE  c = tx.campaign /\ tx.from \in Wallets /\ merchant[tx.campaign] = tx.from
    OBVIOUS
  <2>1. c = tx.campaign
    BY <1>4 DEF Executes
  <2> QED BY <1>1, <1>2, <2>1 DEF GoodTx, ApprovalInv
<1>9. /\ merchant \in [Campaigns -> Wallets \cup {NoWallet}]
      /\ allowance \in [Wallets \X Campaigns -> Nat]
  BY DEF PageInv, ChainOK
\* What is decided stays.
<1>10. \A d \in Campaigns : merchant[d] # NoWallet => merchant'[d] = merchant[d]
  BY <1>4, <1>9 DEF Executes
<1>11. ASSUME NEW w \in Wallets, NEW d \in Campaigns, allowance'[w, d] > 0
       PROVE  merchant'[d] = w
  <2>1. allowance[w, d] > 0 \/ (tx.kind = "approve" /\ w = tx.from /\ d = c)
    <3>1. CASE tx.kind = "approve" /\ allowance' = [allowance EXCEPT ![<<tx.from, c>>] = tx.amount]
      BY <1>9, <1>11, <3>1
    <3>2. CASE /\ tx.kind = "fund" /\ c = tx.campaign
               /\ allowance' = [allowance EXCEPT ![<<tx.from, c>>] = @ - tx.amount]
      <4>1. tx.from \in Wallets /\ tx.amount \in Nat
        BY <1>1, <1>2, <3>2 DEF GoodTx, Tx
      <4>2. allowance[tx.from, c] \in Nat /\ tx.amount <= allowance[tx.from, c]
        BY <1>3, <1>9, <3>2, <4>1 DEF WouldSucceed
      <4>3. CASE w = tx.from /\ d = c
        <5>1. allowance'[w, d] = allowance[w, d] - tx.amount
          BY <1>9, <3>2, <4>3
        <5>2. allowance[w, d] = allowance[tx.from, c] /\ allowance[tx.from, c] \in Nat
          BY <4>2, <4>3
        <5> QED BY <1>11, <4>1, <5>1, <5>2, PositiveBefore
      <4>4. CASE ~(w = tx.from /\ d = c)
        <5>1. allowance'[w, d] = allowance[w, d]
          BY <1>9, <3>2, <4>1, <4>4
        <5> QED BY <1>11, <5>1
      <4> QED BY <4>3, <4>4
    <3>3. CASE UNCHANGED allowance
      BY <1>11, <3>3
    <3> QED BY <1>4, <3>1, <3>2, <3>3 DEF Executes
  <2>2. merchant[d] = w
    BY <1>8, <2>1 DEF ApprovalInv, ApprovalOnlyToOwn
  <2> QED BY <1>10, <2>2, WalletAssumption
<1>12. ASSUME NEW j \in DOMAIN txs', txs'[j].tx.kind = "approve"
       PROVE  merchant'[txs'[j].tx.campaign] = txs'[j].tx.from
  <2>1. /\ j \in DOMAIN txs /\ txs[j].tx.kind = "approve" /\ txs'[j].tx.from = txs[j].tx.from
        /\ txs'[j].tx.campaign = txs[j].tx.campaign
    <3>1. j \in DOMAIN txs
      BY <1>7
    <3>2. CASE j = i
      <4>1. txs'[i] = mined
        BY <1>2, <1>7
      <4> QED BY <1>1, <1>6, <1>8, <1>12, <3>1, <3>2, <4>1
    <3>3. CASE j # i
      BY <1>2, <1>7, <1>12, <3>1, <3>3
    <3> QED BY <3>2, <3>3
  <2>2. txs[j].tx.from \in Wallets /\ txs[j].tx.campaign \in Campaigns
    BY <2>1, TxIsTyped DEF GoodTx
  <2>3. merchant[txs[j].tx.campaign] = txs[j].tx.from
    BY <2>1 DEF ApprovalInv
  <2> QED BY <1>10, <2>1, <2>2, <2>3, WalletAssumption
<1>13. ASSUME NEW k \in Slots \cup {AutoSlot}, Approving(tasks[k])
       PROVE  merchant'[tasks[k].tx.campaign] = tasks[k].tx.from
  <2>1. tasks[k] # Idle /\ tasks[k].tx.kind = "approve"
    BY <1>13 DEF Approving
  <2>2. tasks[k].tx.from \in Wallets /\ tasks[k].tx.campaign \in Campaigns
    BY <2>1, Running
  <2>3. merchant[tasks[k].tx.campaign] = tasks[k].tx.from
    BY <1>13 DEF ApprovalInv
  <2> QED BY <1>10, <2>2, <2>3, WalletAssumption
<1>14. tasks' = tasks
  BY <1>3 DEF Browser
<1> QED BY <1>11, <1>12, <1>13, <1>14 DEF ApprovalInv, ApprovalOnlyToOwn, Approving

\* A step of the page after which the same handlers run, or none that approves.
LEMMA ApprovalPage ==
    ASSUME ApprovalInv, UNCHANGED World,
           \A k \in Slots \cup {AutoSlot} : tasks'[k] = tasks[k] \/ ~Approving(tasks'[k])
    PROVE  ApprovalInv'
<1>1. UNCHANGED <<merchant, allowance, txs>>
  BY DEF World, chain
<1> QED BY <1>1 DEF ApprovalInv, ApprovalOnlyToOwn, Approving

LEMMA SignApproval ==
    ASSUME PageInv, ApprovalInv, NEW k \in Slots \cup {AutoSlot}, Sign(k)
    PROVE  ApprovalInv'
<1> DEFINE s == [tx |-> tasks[k].tx, status |-> "sent"]
           t == [tasks[k] EXCEPT !.at = "confirm", !.id = Len(txs) + 1]
<1>1. tasks[k] # Idle /\ tasks[k].at = "wallet" /\ tasks[k] \in Task
  BY Running DEF Sign, At
<1>2. t.tx = tasks[k].tx
  BY <1>1 DEF Task
<1>3. txs' = Append(txs, s) /\ tasks' = [tasks EXCEPT ![k] = t] /\ UNCHANGED chain
  BY DEF Sign
<1>4. txs \in Seq(Signed)
  BY DEF PageInv, TxsOK
<1>5. s \in Signed /\ s.tx = tasks[k].tx
  BY <1>1 DEF Signed, Task
<1>6. tasks[k].tx.kind = "approve" => merchant[tasks[k].tx.campaign] = tasks[k].tx.from
  BY <1>1 DEF ApprovalInv, Approving
<1> HIDE DEF s, t
<1>7. ASSUME NEW i \in DOMAIN txs', txs'[i].tx.kind = "approve"
      PROVE  merchant[txs'[i].tx.campaign] = txs'[i].tx.from
  <2>1. CASE i \in DOMAIN txs
    <3>1. txs'[i] = txs[i]
      BY <1>3, <1>4, <1>5, <2>1
    <3> QED BY <1>7, <2>1, <3>1 DEF ApprovalInv
  <2>2. CASE i \notin DOMAIN txs
    <3>1. txs'[i] = s
      BY <1>3, <1>4, <1>5, <1>7, <2>2
    <3> QED BY <1>5, <1>6, <1>7, <3>1
  <2> QED BY <2>1, <2>2
<1>8. ASSUME NEW j \in Slots \cup {AutoSlot}, Approving(tasks'[j])
      PROVE  merchant[tasks'[j].tx.campaign] = tasks'[j].tx.from
  <2>1. CASE j = k
    <3>1. tasks'[j] = t
      BY <1>3, <2>1 DEF PageInv, TasksOK
    <3> QED BY <1>2, <1>6, <1>8, <3>1 DEF Approving
  <2>2. CASE j # k
    <3>1. tasks'[j] = tasks[j]
      BY <1>3, <2>2 DEF PageInv, TasksOK
    <3> QED BY <1>8, <3>1 DEF ApprovalInv
  <2> QED BY <2>1, <2>2
<1>9. UNCHANGED <<merchant, allowance>>
  BY <1>3 DEF chain
<1> QED BY <1>7, <1>8, <1>9 DEF ApprovalInv, ApprovalOnlyToOwn, Approving

LEMMA TaskStepApproval ==
    ASSUME PageInv, ApprovalInv, NEW k \in Slots \cup {AutoSlot}, TaskStep(k)
    PROVE  ApprovalInv'
<1>1. tasks[k] # Idle
  BY DEF TaskStep, At, Confirming, Fail, Simulate, Sign, Created, ReadMerchant, Approved, Funded,
         FundingEnds, ReadTerms, Submitted, PollAgain, StillProcessing, Checked, ReadEscrow,
         ReadEscrowFails, PayConfirmed, VerifyPayment, PaymentComplete
<1>2. tasks[k] \in Task /\ tasks[k].tx \in Tx
  BY <1>1, Running
<1>3. ASSUME End(k), UNCHANGED World PROVE ApprovalInv'
  <2>1. ~Approving(Idle)
    BY DEF Approving
  <2> QED BY <1>3, <2>1, ApprovalTask DEF End
<1>4. ASSUME NEW place, Goto(k, place),
             place \in {"simulate", "wallet", "confirm"} /\ tasks[k].tx.kind = "approve" =>
               Approving(tasks[k]) \/ merchant[tasks[k].tx.campaign] = tasks[k].tx.from
      PROVE  ApprovalInv'
  <2> DEFINE t == [tasks[k] EXCEPT !.at = place]
  <2>1. t.at = place /\ t.tx = tasks[k].tx
    BY <1>2 DEF Task
  <2>2. tasks' = [tasks EXCEPT ![k] = t] /\ UNCHANGED World
    BY <1>4 DEF Goto
  <2> HIDE DEF t
  <2>3. Approving(t) => \/ Approving(tasks[k]) /\ t.tx = tasks[k].tx
                        \/ merchant[t.tx.campaign] = t.tx.from
    BY <1>4, <2>1 DEF Approving
  <2> QED BY <2>2, <2>3, ApprovalTask
<1>5. CASE Fail(k)
  BY <1>3, <1>4, <1>5 DEF Fail
<1>6. CASE Simulate(k)
  <2>1. tasks[k].tx.kind = "approve" => Approving(tasks[k])
    BY <1>1, <1>6 DEF Simulate, At, Approving
  <2> QED BY <1>4, <1>6, <2>1 DEF Simulate
<1>7. CASE ReadMerchant(k)
  BY <1>4, <1>7 DEF ReadMerchant, IsMerchant
<1>8. CASE ReadTerms(k) \/ ReadEscrow(k) \/ ReadEscrowFails(k)
  <2>1. CASE Goto(k, "simulate")
    <3>1. tasks[k].at \in {"read", "precheck"}
      BY <1>8 DEF ReadTerms, ReadEscrow, ReadEscrowFails, At
    <3>2. tasks[k].tx.kind # "approve"
      BY <1>1, <3>1, Running
    <3> QED BY <1>4, <2>1, <3>2
  <2>2. CASE End(k) /\ UNCHANGED World
    BY <1>3, <2>2
  <2> QED BY <1>8, <2>1, <2>2 DEF ReadTerms, ReadEscrow, ReadEscrowFails
<1>9. CASE PayConfirmed(k) \/ VerifyPayment(k)
  BY <1>4, <1>9 DEF PayConfirmed, VerifyPayment
<1>10. CASE Created(k) \/ FundingEnds(k) \/ StillProcessing(k) \/ Checked(k) \/ PaymentComplete(k)
  BY <1>3, <1>10 DEF Created, FundingEnds, StillProcessing, Checked, PaymentComplete
<1>11. CASE Approved(k)
  <2> DEFINE t == [tasks[k] EXCEPT !.at = "simulate", !.tx.kind = "fund"]
  <2>1. t.tx.kind = "fund"
    BY <1>2 DEF Task, Tx
  <2>2. tasks' = [tasks EXCEPT ![k] = t] /\ UNCHANGED World
    BY <1>11 DEF Approved
  <2> HIDE DEF t
  <2>3. ~Approving(t)
    BY <2>1 DEF Approving
  <2> QED BY <2>2, <2>3, ApprovalTask
<1>12. CASE Funded(k) \/ Submitted(k) \/ PollAgain(k)
  <2>1. PICK t : /\ tasks' = [tasks EXCEPT ![k] = t] /\ UNCHANGED World
                 /\ t.at \in {"finally", "poll"}
    <3>1. CASE Funded(k)
      <4> WITNESS [tasks[k] EXCEPT !.at = "finally"]
      <4> QED BY <1>2, <3>1 DEF Funded, Task
    <3>2. CASE Submitted(k)
      <4> WITNESS [tasks[k] EXCEPT !.at = "poll", !.tx.check = Receipt(k).tx.check]
      <4> QED BY <1>2, <3>2 DEF Submitted, Task
    <3>3. CASE PollAgain(k)
      <4> WITNESS [tasks[k] EXCEPT !.polls = @ - 1]
      <4> QED BY <1>2, <3>3 DEF PollAgain, At, Task
    <3> QED BY <1>12, <3>1, <3>2, <3>3
  <2>2. ~Approving(t)
    BY <2>1 DEF Approving
  <2> QED BY <2>1, <2>2, ApprovalTask
<1> QED BY <1>5, <1>6, <1>7, <1>8, <1>9, <1>10, <1>11, <1>12, SignApproval DEF TaskStep

LEMMA NextApproval ==
    ASSUME PageInv, ApprovalInv, [Next]_vars
    PROVE  ApprovalInv'
<1>1. ASSUME UNCHANGED <<merchant, allowance, tasks, txs>> PROVE ApprovalInv'
  BY <1>1 DEF ApprovalInv, ApprovalOnlyToOwn, Approving
<1>2. CASE \E i \in DOMAIN txs : Mine(i)
  BY <1>2, MineApproval
<1>3. CASE \E i \in DOMAIN txs : Revert(i)
  <2>1. PICK i \in DOMAIN txs : Revert(i)
    BY <1>3
  <2>2. /\ UNCHANGED <<merchant, allowance, tasks>>
        /\ txs' = [txs EXCEPT ![i] = [txs[i] EXCEPT !.status = "reverted"]]
    BY <2>1 DEF Revert, chain, Browser
  <2>3. DOMAIN txs' = DOMAIN txs /\ \A j \in DOMAIN txs : txs'[j].tx = txs[j].tx
    BY <2>2, TxIsTyped DEF Signed
  <2> QED BY <2>2, <2>3 DEF ApprovalInv, ApprovalOnlyToOwn, Approving
<1>4. CASE \E i \in DOMAIN checks : Answer(i) \/ Expire(i) \/ SettledByOther(i)
  BY <1>1, <1>4 DEF Answer, Expire, SettledByOther, Browser
<1>5. CASE \E k \in Slots : Click(k)
  <2>1. PICK k \in Slots : Click(k)
    BY <1>5
  <2>2. ASSUME NEW op, NEW at, NEW tx, NEW polls, Start(k, op, at, tx, polls),
               at = "simulate" => tx.kind = "create", at \notin {"wallet", "confirm"}
        PROVE  ApprovalInv'
    <3> DEFINE t == [op |-> op, at |-> at, tx |-> tx, id |-> 0, polls |-> polls]
    <3>1. tasks' = [tasks EXCEPT ![k] = t] /\ UNCHANGED World
      BY <2>2 DEF Start
    <3>2. ~Approving(t)
      BY <2>2 DEF Approving
    <3> HIDE DEF t
    <3> QED BY <3>1, <3>2, ApprovalTask
  <2>3. CASE CreatePayment(k)
    BY <2>2, <2>3 DEF CreatePayment, Prepared
  <2> QED BY <2>1, <2>2, <2>3 DEF Click, AddFunds, RunPrivateCheck, ResumePrivateCheck,
                                 PayCommission
<1>6. CASE \E k \in Slots \cup {AutoSlot} : TaskStep(k)
  BY <1>6, TaskStepApproval
<1>7. CASE \E c \in Campaigns : RefreshSucceeds(c) \/ RefreshFails(c)
  BY <1>1, <1>7 DEF RefreshSucceeds, RefreshFails, World, chain
<1>8. CASE \/ \E w \in Exposed : AccountsChanged(w)
           \/ \E o \in Orders : HandleReferenceChange(o)
           \/ StartNextOrder \/ StartOver
  BY <1>1, <1>8 DEF AccountsChanged, HandleReferenceChange, StartNextOrder, StartOver, World, chain
<1>9. CASE Reload
  BY <1>9, ApprovalPage DEF Reload, Mounts, Approving
<1>10. CASE UNCHANGED vars
  BY <1>1, <1>10 DEF vars, chain
<1> QED BY <1>2, <1>3, <1>4, <1>5, <1>6, <1>7, <1>8, <1>9, <1>10 DEF Next

LEMMA InitApproval == Init => ApprovalInv
<1> SUFFICES ASSUME Init PROVE ApprovalInv
  OBVIOUS
<1>1. ASSUME NEW w \in Wallets, NEW c \in Campaigns PROVE ~(allowance[w, c] > 0)
  <2>1. PICK given : given = allowance[w, c]
    OBVIOUS
  <2>2. given = 0
    BY <2>1 DEF Init
  <2>3. ~(given > 0)
    BY <2>2
  <2> QED BY <2>1, <2>3
<1>2. ApprovalOnlyToOwn
  BY <1>1 DEF ApprovalOnlyToOwn
<1>3. txs = <<>> /\ \A k \in Slots \cup {AutoSlot} : tasks[k] = Idle
  BY DEF Init
<1> QED BY <1>2, <1>3 DEF ApprovalInv, Approving

\* addFunds compares the campaign's merchant with the account before it asks for an
\* approval: however late the approval is signed and mined, and whatever account and
\* payment the page shows by then, nobody's tokens are at a stranger's disposal.
THEOREM ApprovalCorrect == Spec => []ApprovalOnlyToOwn
<1>1. ApprovalInv => ApprovalOnlyToOwn
  BY DEF ApprovalInv
<1> QED BY <1>1, InitApproval, Invariant, NextApproval, PTL DEF Spec

-----------------------------------------------------------------------------
(* Payments.                                                               *)

IsSettled(tx) == checks[tx.check].order \in settled[tx.campaign]

\* A payment that was mined has settled its order; a handler that waits for one waits
\* for its own; and a handler that has a receipt has it of a payment that was mined.
PayInv ==
    /\ \A i \in DOMAIN txs :
         txs[i].tx.kind = "settle" /\ txs[i].status = "success" => IsSettled(txs[i].tx)
    /\ \A k \in Slots \cup {AutoSlot} : tasks[k] # Idle =>
         /\ tasks[k].at \in {"verify", "done"} =>
              tasks[k].tx.kind = "settle" /\ IsSettled(tasks[k].tx)
         /\ tasks[k].at = "confirm" /\ tasks[k].tx.kind = "settle" =>
              /\ txs[tasks[k].id].tx.check = tasks[k].tx.check
              /\ txs[tasks[k].id].tx.campaign = tasks[k].tx.campaign

\* What the world never undoes.
Grows ==
    /\ \A c \in Campaigns : settled[c] \subseteq settled'[c]
    /\ \A i \in DOMAIN checks : checks'[i].order = checks[i].order

LEMMA StaysSettled ==
    ASSUME Grows, NEW tx, tx.check \in DOMAIN checks, tx.campaign \in Campaigns, IsSettled(tx)
    PROVE  checks'[tx.check].order \in settled'[tx.campaign]
BY DEF Grows, IsSettled

LEMMA PayTask ==
    ASSUME PageInv, PayInv, UNCHANGED World, NEW k \in Slots \cup {AutoSlot}, NEW t,
           tasks' = [tasks EXCEPT ![k] = t],
           \/ t = Idle
           \/ t.at \notin {"verify", "done", "confirm"}
           \/ t.at \in {"verify", "done"} /\ t.tx.kind = "settle" /\ IsSettled(t.tx)
    PROVE  PayInv'
<1>1. UNCHANGED <<checks, settled, txs>>
  BY DEF World, chain
<1>2. \A j \in Slots \cup {AutoSlot} : tasks'[j] = IF j = k THEN t ELSE tasks[j]
  BY DEF PageInv, TasksOK
<1> QED BY <1>1, <1>2 DEF PayInv, IsSettled

\* A step of the world that undoes nothing.
LEMMA PayWorld ==
    ASSUME PageInv, PayInv, Grows, UNCHANGED tasks, DOMAIN txs' = DOMAIN txs,
           \A i \in DOMAIN txs :
             /\ txs'[i].tx.kind = txs[i].tx.kind
             /\ txs[i].tx.kind = "settle" =>
                  /\ txs'[i].tx.check = txs[i].tx.check
                  /\ txs'[i].tx.campaign = txs[i].tx.campaign
                  /\ txs'[i].status = "success" =>
                       \/ txs[i].status = "success"
                       \/ checks'[txs[i].tx.check].order \in settled'[txs[i].tx.campaign]
    PROVE  PayInv'
<1>1. ASSUME NEW i \in DOMAIN txs, txs'[i].tx.kind = "settle", txs'[i].status = "success"
      PROVE  checks'[txs'[i].tx.check].order \in settled'[txs'[i].tx.campaign]
  <2>1. /\ txs[i].tx.kind = "settle" /\ txs'[i].tx.check = txs[i].tx.check
        /\ txs'[i].tx.campaign = txs[i].tx.campaign
    BY <1>1
  <2>2. CASE txs[i].status = "success"
    <3>1. txs[i].tx.check \in DOMAIN checks /\ txs[i].tx.campaign \in Campaigns
      BY <2>1, TxIsTyped DEF GoodTx
    <3>2. IsSettled(txs[i].tx)
      BY <2>1, <2>2 DEF PayInv
    <3> QED BY <2>1, <3>1, <3>2, StaysSettled
  <2> QED BY <1>1, <2>1, <2>2
<1>2. ASSUME NEW k \in Slots \cup {AutoSlot}, tasks[k] # Idle, tasks[k].at \in {"verify", "done"}
      PROVE  /\ tasks[k].tx.kind = "settle"
             /\ checks'[tasks[k].tx.check].order \in settled'[tasks[k].tx.campaign]
  <2>1. tasks[k].tx.kind = "settle" /\ IsSettled(tasks[k].tx)
    BY <1>2 DEF PayInv
  <2>2. tasks[k].tx.check \in DOMAIN checks /\ tasks[k].tx.campaign \in Campaigns
    BY <1>2, <2>1, Running
  <2> QED BY <2>1, <2>2, StaysSettled
<1>3. ASSUME NEW k \in Slots \cup {AutoSlot}, tasks[k] # Idle, tasks[k].at = "confirm",
             tasks[k].tx.kind = "settle"
      PROVE  /\ txs'[tasks[k].id].tx.check = tasks[k].tx.check
             /\ txs'[tasks[k].id].tx.campaign = tasks[k].tx.campaign
  <2>1. tasks[k].id \in DOMAIN txs /\ txs[tasks[k].id].tx.kind = "settle"
    BY <1>3, Running
  <2> QED BY <1>3, <2>1 DEF PayInv
<1> QED BY <1>1, <1>2, <1>3 DEF PayInv, IsSettled

LEMMA MinePay ==
    ASSUME PageInv, PayInv, NEW i \in DOMAIN txs, Mine(i)
    PROVE  PayInv'
<1>1. PICK tx : tx = txs[i].tx
  OBVIOUS
<1>2. /\ tx \in Tx /\ GoodTx(txs[i], DOMAIN checks) /\ txs[i] \in Signed
      /\ txs \in Seq(Signed)
  BY <1>1, TxIsTyped
<1>3. WouldSucceed(tx) /\ UNCHANGED tasks
  BY <1>1 DEF Mine, Browser
<1>4. PICK check : check = IF tx.kind = "check" THEN Len(checks) + 1 ELSE tx.check
  OBVIOUS
<1>5. PICK c \in Campaigns :
        /\ Executes(tx, c)
        /\ txs' = [txs EXCEPT ![i].status = "success", ![i].tx.campaign = c, ![i].tx.check = check]
  BY <1>1, <1>4 DEF Mine
<1>6. PICK mined : mined = [txs[i] EXCEPT !.status = "success", !.tx.campaign = c, !.tx.check = check]
  OBVIOUS
<1>7. mined.tx.kind = tx.kind /\ mined.tx.campaign = c /\ mined.tx.check = check
  BY <1>1, <1>2, <1>6 DEF Signed, Tx
<1>8. txs' = [txs EXCEPT ![i] = mined]
  BY <1>5, <1>6
<1>9. checks \in Seq(Check) /\ settled \in [Campaigns -> SUBSET Orders]
  BY DEF PageInv, ChainOK
<1>10. Grows
  <2>1. \A d \in Campaigns : settled[d] \subseteq settled'[d]
    BY <1>5, <1>9 DEF Executes, PaidOut
  <2>2. CASE UNCHANGED checks
    BY <2>1, <2>2 DEF Grows
  <2>3. CASE checks' = Append(checks, [campaign |-> c, order |-> tx.order,
                                       answer |-> "none", expired |-> FALSE])
    BY <1>9, <2>1, <2>3 DEF Grows
  <2> QED BY <1>5, <2>2, <2>3 DEF Executes
<1>11. ASSUME tx.kind = "settle"
       PROVE  c = tx.campaign /\ check = tx.check /\ checks'[check].order \in settled'[c]
  <2>1. c = tx.campaign /\ PaidOut(c, tx.check) /\ UNCHANGED checks
    BY <1>5, <1>11 DEF Executes
  <2>2. check = tx.check
    BY <1>4, <1>11
  <2>3. settled'[c] = settled[c] \cup {checks[tx.check].order}
    BY <1>9, <2>1 DEF PaidOut
  <2> QED BY <2>1, <2>2, <2>3
<1>12. DOMAIN txs' = DOMAIN txs /\ \A j \in DOMAIN txs : txs'[j] = IF j = i THEN mined ELSE txs[j]
  BY <1>2, <1>8
<1> QED BY <1>1, <1>3, <1>7, <1>10, <1>11, <1>12, PayWorld

LEMMA WorldPay ==
    ASSUME PageInv, PayInv,
           \/ \E i \in DOMAIN txs : Mine(i) \/ Revert(i)
           \/ \E i \in DOMAIN checks : Answer(i) \/ Expire(i) \/ SettledByOther(i)
    PROVE  PayInv'
<1>1. CASE \E i \in DOMAIN txs : Mine(i)
  BY <1>1, MinePay
<1>2. CASE \E i \in DOMAIN txs : Revert(i)
  <2>1. PICK i \in DOMAIN txs : Revert(i)
    BY <1>2
  <2>2. /\ UNCHANGED <<checks, settled, tasks>>
        /\ txs' = [txs EXCEPT ![i] = [txs[i] EXCEPT !.status = "reverted"]]
    BY <2>1 DEF Revert, chain, Browser
  <2>3. Grows
    BY <2>2 DEF Grows
  <2>4. /\ DOMAIN txs' = DOMAIN txs
        /\ \A j \in DOMAIN txs : txs'[j].tx = txs[j].tx /\ txs'[j].status \in {"reverted", txs[j].status}
    BY <2>2, TxIsTyped DEF Signed
  <2> QED BY <2>2, <2>3, <2>4, PayWorld
<1>3. CASE \E i \in DOMAIN checks : Answer(i) \/ Expire(i) \/ SettledByOther(i)
  <2>1. PICK i \in DOMAIN checks : Answer(i) \/ Expire(i) \/ SettledByOther(i)
    BY <1>3
  <2>2. UNCHANGED <<txs, tasks>>
    BY <2>1 DEF Answer, Expire, SettledByOther, Browser
  <2>3. checks \in Seq(Check) /\ settled \in [Campaigns -> SUBSET Orders]
    BY DEF PageInv, ChainOK
  <2>4. \A d \in Campaigns : settled[d] \subseteq settled'[d]
    BY <2>1, <2>3 DEF Answer, Expire, SettledByOther, PaidOut
  <2>5. \A j \in DOMAIN checks : checks'[j].order = checks[j].order
    <3>1. checks[i] \in Check
      BY <2>3
    <3>2. CASE Answer(i)
      <4>1. PICK a : checks' = [checks EXCEPT ![i] = [checks[i] EXCEPT !.answer = a]]
        BY <3>2 DEF Answer
      <4> QED BY <2>3, <3>1, <4>1 DEF Check
    <3>3. CASE Expire(i)
      <4>1. checks' = [checks EXCEPT ![i] = [checks[i] EXCEPT !.expired = TRUE]]
        BY <3>3 DEF Expire
      <4> QED BY <2>3, <3>1, <4>1 DEF Check
    <3> QED BY <2>1, <3>2, <3>3 DEF SettledByOther
  <2> QED BY <2>2, <2>4, <2>5, PayWorld DEF Grows
<1> QED BY <1>1, <1>2, <1>3

LEMMA TaskStepPay ==
    ASSUME PageInv, PayInv, NEW k \in Slots \cup {AutoSlot}, TaskStep(k)
    PROVE  PayInv'
<1>1. tasks[k] # Idle
  BY DEF TaskStep, At, Confirming, Fail, Simulate, Sign, Created, ReadMerchant, Approved, Funded,
         FundingEnds, ReadTerms, Submitted, PollAgain, StillProcessing, Checked, ReadEscrow,
         ReadEscrowFails, PayConfirmed, VerifyPayment, PaymentComplete
<1>2. tasks[k] \in Task /\ tasks[k].tx \in Tx
  BY <1>1, Running
<1>3. ASSUME End(k), UNCHANGED World PROVE PayInv'
  BY <1>3, PayTask DEF End
<1>4. ASSUME NEW place, Goto(k, place),
             \/ place \in {"simulate", "wallet", "finally"}
             \/ place \in {"verify", "done"} /\ tasks[k].tx.kind = "settle" /\ IsSettled(tasks[k].tx)
      PROVE  PayInv'
  <2> DEFINE t == [tasks[k] EXCEPT !.at = place]
  <2>1. t.at = place /\ t.tx = tasks[k].tx
    BY <1>2 DEF Task
  <2>2. tasks' = [tasks EXCEPT ![k] = t] /\ UNCHANGED World
    BY <1>4 DEF Goto
  <2> HIDE DEF t
  <2> QED BY <1>4, <2>1, <2>2, PayTask
<1>5. CASE Fail(k) \/ Simulate(k) \/ ReadMerchant(k) \/ ReadTerms(k) \/ ReadEscrow(k) \/ ReadEscrowFails(k)
  BY <1>3, <1>4, <1>5 DEF Fail, Simulate, ReadMerchant, ReadTerms, ReadEscrow, ReadEscrowFails
<1>6. CASE Created(k) \/ FundingEnds(k) \/ StillProcessing(k) \/ Checked(k) \/ PaymentComplete(k)
  BY <1>3, <1>6 DEF Created, FundingEnds, StillProcessing, Checked, PaymentComplete
<1>7. CASE PayConfirmed(k)
  <2>1. /\ tasks[k].at = "confirm" /\ tasks[k].tx.kind = "settle"
        /\ txs[tasks[k].id].status = "success"
    BY <1>7 DEF PayConfirmed, Confirming, At, HasReceipt
  <2>2. tasks[k].id \in DOMAIN txs /\ txs[tasks[k].id].tx.kind = "settle"
    BY <1>1, <2>1, Running
  <2>3. IsSettled(txs[tasks[k].id].tx)
    BY <2>1, <2>2 DEF PayInv
  <2>4. IsSettled(tasks[k].tx)
    BY <1>1, <2>1, <2>3 DEF PayInv, IsSettled
  <2> QED BY <1>4, <1>7, <2>1, <2>4 DEF PayConfirmed
<1>8. CASE VerifyPayment(k)
  <2>1. tasks[k].at = "verify"
    BY <1>8 DEF VerifyPayment, At
  <2> QED BY <1>1, <1>4, <1>8, <2>1 DEF VerifyPayment, PayInv
<1>9. CASE Approved(k) \/ Funded(k) \/ Submitted(k) \/ PollAgain(k)
  <2>1. PICK t : /\ tasks' = [tasks EXCEPT ![k] = t] /\ UNCHANGED World
                 /\ t.at \in {"simulate", "finally", "poll"}
    <3>1. CASE Approved(k)
      <4> WITNESS [tasks[k] EXCEPT !.at = "simulate", !.tx.kind = "fund"]
      <4> QED BY <1>2, <3>1 DEF Approved, Task
    <3>2. CASE Funded(k)
      <4> WITNESS [tasks[k] EXCEPT !.at = "finally"]
      <4> QED BY <1>2, <3>2 DEF Funded, Task
    <3>3. CASE Submitted(k)
      <4> WITNESS [tasks[k] EXCEPT !.at = "poll", !.tx.check = Receipt(k).tx.check]
      <4> QED BY <1>2, <3>3 DEF Submitted, Task
    <3>4. CASE PollAgain(k)
      <4> WITNESS [tasks[k] EXCEPT !.polls = @ - 1]
      <4> QED BY <1>2, <3>4 DEF PollAgain, At, Task
    <3> QED BY <1>9, <3>1, <3>2, <3>3, <3>4
  <2> QED BY <2>1, PayTask
<1>10. CASE Sign(k)
  <2> DEFINE s == [tx |-> tasks[k].tx, status |-> "sent"]
             t == [tasks[k] EXCEPT !.at = "confirm", !.id = Len(txs) + 1]
  <2>1. t.tx = tasks[k].tx /\ t.id = Len(txs) + 1 /\ t.at = "confirm"
    BY <1>2 DEF Task
  <2>2. s \in Signed /\ s.tx = tasks[k].tx /\ s.status = "sent"
    BY <1>2 DEF Signed
  <2>3. txs' = Append(txs, s) /\ tasks' = [tasks EXCEPT ![k] = t] /\ UNCHANGED <<checks, settled>>
    BY <1>10 DEF Sign, chain
  <2> HIDE DEF s, t
  <2>4. /\ DOMAIN txs' = DOMAIN txs \cup {Len(txs) + 1} /\ txs'[Len(txs) + 1] = s
        /\ \A i \in DOMAIN txs : txs'[i] = txs[i]
    BY <2>2, <2>3 DEF PageInv, TxsOK
  <2>5. \A i \in DOMAIN txs' : txs'[i].tx.kind = "settle" /\ txs'[i].status = "success" =>
           IsSettled(txs'[i].tx)
    BY <2>2, <2>4 DEF PayInv
  <2>6. tasks'[k] = t /\ \A j \in Slots \cup {AutoSlot} : j # k => tasks'[j] = tasks[j]
    BY <2>3 DEF PageInv, TasksOK
  <2>7. ASSUME NEW j \in Slots \cup {AutoSlot}, tasks'[j] # Idle, tasks'[j].at \in {"verify", "done"}
        PROVE  tasks'[j].tx.kind = "settle" /\ IsSettled(tasks'[j].tx)
    <3>1. j # k
      BY <2>1, <2>6, <2>7
    <3> QED BY <2>6, <2>7, <3>1 DEF PayInv
  <2>8. ASSUME NEW j \in Slots \cup {AutoSlot}, tasks'[j] # Idle, tasks'[j].at = "confirm",
               tasks'[j].tx.kind = "settle"
        PROVE  /\ txs'[tasks'[j].id].tx.check = tasks'[j].tx.check
               /\ txs'[tasks'[j].id].tx.campaign = tasks'[j].tx.campaign
    <3>1. CASE j = k
      BY <2>1, <2>2, <2>4, <2>6, <3>1
    <3>2. CASE j # k
      <4>1. tasks'[j] = tasks[j]
        BY <2>6, <3>2
      <4>2. tasks[j].id \in DOMAIN txs
        BY <2>8, <4>1, Running
      <4> QED BY <2>4, <2>8, <4>1, <4>2 DEF PayInv
    <3> QED BY <3>1, <3>2
  <2> QED BY <2>3, <2>5, <2>7, <2>8 DEF PayInv, IsSettled
<1> QED BY <1>5, <1>6, <1>7, <1>8, <1>9, <1>10 DEF TaskStep

LEMMA MountsPay == ASSUME PayInv, Mounts, UNCHANGED World PROVE PayInv'
<1>1. /\ UNCHANGED <<checks, settled, txs>>
      /\ \A k \in Slots \cup {AutoSlot} : tasks'[k] = Idle \/ tasks'[k].at = "poll"
  BY DEF Mounts, World, chain
<1> QED BY <1>1 DEF PayInv, IsSettled

LEMMA NextPay ==
    ASSUME PageInv, PayInv, [Next]_vars
    PROVE  PayInv'
<1>1. ASSUME UNCHANGED <<checks, settled, tasks, txs>> PROVE PayInv'
  BY <1>1 DEF PayInv, IsSettled
<1>2. CASE \E k \in Slots : Click(k)
  <2>1. PICK k \in Slots : Click(k)
    BY <1>2
  <2>2. ASSUME NEW op, NEW at, NEW tx, NEW polls, Start(k, op, at, tx, polls),
               at \notin {"verify", "done", "confirm"}
        PROVE  PayInv'
    <3> DEFINE t == [op |-> op, at |-> at, tx |-> tx, id |-> 0, polls |-> polls]
    <3>1. tasks' = [tasks EXCEPT ![k] = t] /\ UNCHANGED World
      BY <2>2 DEF Start
    <3>2. t.at \notin {"verify", "done", "confirm"}
      BY <2>2
    <3> HIDE DEF t
    <3> QED BY <3>1, <3>2, PayTask
  <2> QED BY <2>1, <2>2 DEF Click, CreatePayment, AddFunds, RunPrivateCheck, ResumePrivateCheck,
                            PayCommission
<1>3. CASE \E k \in Slots \cup {AutoSlot} : TaskStep(k)
  BY <1>3, TaskStepPay
<1>4. CASE \/ \E c \in Campaigns : RefreshSucceeds(c) \/ RefreshFails(c)
           \/ \E w \in Exposed : AccountsChanged(w)
           \/ \E o \in Orders : HandleReferenceChange(o)
           \/ StartNextOrder \/ StartOver
  BY <1>1, <1>4 DEF RefreshSucceeds, RefreshFails, AccountsChanged, HandleReferenceChange,
                    StartNextOrder, StartOver, World, chain
<1>5. CASE Reload
  BY <1>5, MountsPay DEF Reload
<1>6. CASE UNCHANGED vars
  BY <1>1, <1>6 DEF vars, chain
<1> QED BY <1>2, <1>3, <1>4, <1>5, <1>6, WorldPay DEF Next

LEMMA PayInvariant == Spec => []PayInv
<1>1. Init => PayInv
  BY DEF Init, PayInv
<1> QED BY <1>1, Invariant, NextPay, PTL DEF Spec

\* "Payment complete" follows the receipt of a settlement that was mined for this very
\* result and campaign, whatever was simulated, funded, paid or expired in between.
THEOREM CompleteCorrect == Spec => CompleteMeansPaid
<1>1. ASSUME PageInv, PayInv
      PROVE  \A k \in DOMAIN tasks :
                At(k, "done") /\ page'.message = "paymentComplete" => OnceSettled(k)
  <2>1. DOMAIN tasks = Slots \cup {AutoSlot}
    BY <1>1 DEF PageInv, TasksOK
  <2> QED BY <1>1, <2>1 DEF At, PayInv, OnceSettled, IsSettled
<1> QED BY <1>1, Invariant, PayInvariant, PTL DEF CompleteMeansPaid

-----------------------------------------------------------------------------
(* A page beside another one, as AppShell has them: what the one does is a *)
(* step of the other's world.                                              *)

\* What a handler hands to the wallet.
Sent(s) ==
    /\ s \in Signed /\ s.status = "sent" /\ GoodTx(s, DOMAIN checks)
    /\ s.tx.kind = "approve" => merchant[s.tx.campaign] = s.tx.from

AddsAtMostOne ==
    UNCHANGED chain /\ (UNCHANGED txs \/ \E s : Sent(s) /\ txs' = Append(txs, s))

\* What a page does to the world: it has transactions signed.
LEMMA TaskStepAdds ==
    ASSUME PageInv, ApprovalInv, NEW k \in Slots \cup {AutoSlot}, TaskStep(k)
    PROVE  AddsAtMostOne /\ UNCHANGED account
<1>1. CASE Sign(k)
  <2>1. tasks[k] # Idle /\ tasks[k].at = "wallet"
    BY <1>1 DEF Sign, At
  <2>2. PICK s : s = [tx |-> tasks[k].tx, status |-> "sent"]
    OBVIOUS
  <2>3. GoodTask(tasks[k]) /\ tasks[k].tx \in Tx
    BY <2>1, Running DEF PageInv, TasksOK
  <2>4. s \in Signed /\ s.status = "sent" /\ s.tx = tasks[k].tx
    BY <2>2, <2>3 DEF Signed
  <2>5. GoodTx(s, DOMAIN checks)
    BY <2>1, <2>3, <2>4 DEF GoodTx, GoodTask
  <2>6. s.tx.kind = "approve" => merchant[s.tx.campaign] = s.tx.from
    BY <2>1, <2>4 DEF ApprovalInv, Approving
  <2>7. UNCHANGED <<chain, account>> /\ txs' = Append(txs, s)
    BY <1>1, <2>2 DEF Sign
  <2> QED BY <2>4, <2>5, <2>6, <2>7 DEF AddsAtMostOne, Sent
<1>2. CASE ~Sign(k)
  BY <1>2 DEF AddsAtMostOne, TaskStep, Fail, Simulate, Created, ReadMerchant, Approved, Funded,
              FundingEnds, ReadTerms, Submitted, PollAgain, StillProcessing, Checked, ReadEscrow,
              ReadEscrowFails, PayConfirmed, VerifyPayment, PaymentComplete, Goto, World
<1> QED BY <1>1, <1>2

\* No step of a handler leaves it where it was.
LEMMA TaskStepMoves ==
    ASSUME PageInv, NEW k \in Slots \cup {AutoSlot}, TaskStep(k)
    PROVE  tasks' # tasks
<1>1. tasks[k] # Idle
  BY DEF TaskStep, At, Confirming, Fail, Simulate, Sign, Created, ReadMerchant, Approved, Funded,
         FundingEnds, ReadTerms, Submitted, PollAgain, StillProcessing, Checked, ReadEscrow,
         ReadEscrowFails, PayConfirmed, VerifyPayment, PaymentComplete
<1>2. tasks[k] \in Task /\ DOMAIN tasks = Slots \cup {AutoSlot}
  BY <1>1, Running DEF PageInv, TasksOK
<1>3. ASSUME End(k) PROVE tasks' # tasks
  BY <1>1, <1>2, <1>3 DEF End
<1>4. ASSUME NEW place, NEW t, tasks' = [tasks EXCEPT ![k] = t],
             t.at = place, tasks[k].at # place
      PROVE  tasks' # tasks
  BY <1>2, <1>4
<1>5. ASSUME NEW place, Goto(k, place), tasks[k].at # place PROVE tasks' # tasks
  <2>1. PICK t : t = [tasks[k] EXCEPT !.at = place]
    OBVIOUS
  <2>2. t.at = place
    BY <1>2, <2>1 DEF Task
  <2>3. tasks' = [tasks EXCEPT ![k] = t]
    BY <1>5, <2>1 DEF Goto
  <2> QED BY <1>4, <1>5, <2>2, <2>3
<1>6. CASE Fail(k)
  BY <1>3, <1>5, <1>6 DEF Fail
<1>7. CASE Simulate(k) \/ ReadMerchant(k) \/ ReadTerms(k) \/ PayConfirmed(k) \/ VerifyPayment(k)
  BY <1>5, <1>7 DEF Simulate, ReadMerchant, ReadTerms, PayConfirmed, VerifyPayment, At, Confirming
<1>8. CASE ReadEscrow(k) \/ ReadEscrowFails(k)
  BY <1>3, <1>5, <1>8 DEF ReadEscrow, ReadEscrowFails, At
<1>9. CASE Created(k) \/ FundingEnds(k) \/ StillProcessing(k) \/ Checked(k) \/ PaymentComplete(k)
  BY <1>3, <1>9 DEF Created, FundingEnds, StillProcessing, Checked, PaymentComplete
<1>10. CASE Sign(k)
  <2>1. PICK t : t = [tasks[k] EXCEPT !.at = "confirm", !.id = Len(txs) + 1]
    OBVIOUS
  <2>2. t.at = "confirm" /\ tasks[k].at = "wallet" /\ tasks' = [tasks EXCEPT ![k] = t]
    BY <1>2, <1>10, <2>1 DEF Sign, At, Task
  <2> QED BY <1>4, <2>2
<1>11. CASE Approved(k) \/ Funded(k) \/ Submitted(k)
  <2>1. tasks[k].at = "confirm"
    BY <1>11 DEF Approved, Funded, Submitted, Confirming, At
  <2>2. PICK t : /\ tasks' = [tasks EXCEPT ![k] = t]
                 /\ t.at \in {"simulate", "finally", "poll"}
    <3>1. CASE Approved(k)
      <4> WITNESS [tasks[k] EXCEPT !.at = "simulate", !.tx.kind = "fund"]
      <4> QED BY <1>2, <3>1 DEF Approved, Task
    <3>2. CASE Funded(k)
      <4> WITNESS [tasks[k] EXCEPT !.at = "finally"]
      <4> QED BY <1>2, <3>2 DEF Funded, Task
    <3>3. CASE Submitted(k)
      <4> WITNESS [tasks[k] EXCEPT !.at = "poll", !.tx.check = Receipt(k).tx.check]
      <4> QED BY <1>2, <3>3 DEF Submitted, Task
    <3> QED BY <1>11, <3>1, <3>2, <3>3
  <2> QED BY <1>4, <2>1, <2>2
<1>12. CASE PollAgain(k)
  <2>1. tasks[k].polls \in Nat
    BY <1>2 DEF Task
  <2>2. PICK t : t = [tasks[k] EXCEPT !.polls = @ - 1]
    OBVIOUS
  <2>3. t.polls = tasks[k].polls - 1 /\ tasks' = [tasks EXCEPT ![k] = t]
    BY <1>2, <1>12, <2>2 DEF PollAgain, Task
  <2>4. t # tasks[k]
    BY <2>1, <2>3
  <2> QED BY <1>2, <2>3, <2>4
<1> QED BY <1>6, <1>7, <1>8, <1>9, <1>10, <1>11, <1>12 DEF TaskStep

\* What the page keeps while the other one acts.
LEMMA BesideInv ==
    ASSUME PageInv, AddsAtMostOne, UNCHANGED <<page, refreshing, tasks>>,
           account' \in Wallets \cup {NoWallet}, GoodStorage(storage)'
    PROVE  PageInv'
<1>1. UNCHANGED <<merchant, escrow, allowance, settled, checks>> /\ txs \in Seq(Signed)
  BY DEF AddsAtMostOne, chain, PageInv, TxsOK
<1>2. /\ txs' \in Seq(Signed) /\ DOMAIN txs \subseteq DOMAIN txs'
      /\ \A i \in DOMAIN txs : txs'[i] = txs[i]
      /\ \A i \in DOMAIN txs' : GoodTx(txs'[i], DOMAIN checks)
  <2>1. CASE UNCHANGED txs
    BY <1>1, <2>1 DEF PageInv, TxsOK
  <2>2. CASE \E s : Sent(s) /\ txs' = Append(txs, s)
    <3>1. PICK s : Sent(s) /\ txs' = Append(txs, s)
      BY <2>2
    <3>2. s \in Signed /\ GoodTx(s, DOMAIN checks)
      BY <3>1 DEF Sent
    <3>3. /\ txs' \in Seq(Signed) /\ DOMAIN txs' = DOMAIN txs \cup {Len(txs) + 1}
          /\ txs'[Len(txs) + 1] = s /\ \A i \in DOMAIN txs : txs'[i] = txs[i]
      BY <1>1, <3>1, <3>2
    <3> QED BY <3>2, <3>3 DEF PageInv, TxsOK
  <2> QED BY <2>1, <2>2 DEF AddsAtMostOne
<1>3. ChainOK' /\ TxsOK'
  BY <1>1, <1>2 DEF PageInv, ChainOK, TxsOK
<1>4. GoodPage(page)'
  BY <1>1 DEF PageInv, GoodPage, Known
<1>5. ASSUME NEW k \in Slots \cup {AutoSlot} PROVE GoodTask(tasks[k])'
  <2>1. GoodTask(tasks[k])
    BY DEF PageInv, TasksOK
  <2>2. tasks[k].id \in DOMAIN txs => txs'[tasks[k].id] = txs[tasks[k].id]
    BY <1>2
  <2> QED BY <1>1, <1>2, <2>1, <2>2 DEF GoodTask
<1>6. TasksOK'
  BY <1>5 DEF PageInv, TasksOK
<1> QED BY <1>3, <1>4, <1>6 DEF PageInv

LEMMA BesideApproval ==
    ASSUME PageInv, ApprovalInv, AddsAtMostOne, UNCHANGED tasks
    PROVE  ApprovalInv'
<1>1. UNCHANGED <<merchant, allowance>> /\ txs \in Seq(Signed)
  BY DEF AddsAtMostOne, chain, PageInv, TxsOK
<1>2. ASSUME NEW i \in DOMAIN txs', txs'[i].tx.kind = "approve"
      PROVE  merchant[txs'[i].tx.campaign] = txs'[i].tx.from
  <2>1. CASE UNCHANGED txs
    BY <1>2, <2>1 DEF ApprovalInv
  <2>2. CASE \E s : Sent(s) /\ txs' = Append(txs, s)
    <3>1. PICK s : Sent(s) /\ txs' = Append(txs, s)
      BY <2>2
    <3>2. s \in Signed /\ (s.tx.kind = "approve" => merchant[s.tx.campaign] = s.tx.from)
      BY <3>1 DEF Sent
    <3>3. txs'[i] = s \/ (i \in DOMAIN txs /\ txs'[i] = txs[i])
      BY <1>1, <1>2, <3>1, <3>2
    <3> QED BY <1>2, <3>2, <3>3 DEF ApprovalInv
  <2> QED BY <2>1, <2>2 DEF AddsAtMostOne
<1> QED BY <1>1, <1>2 DEF ApprovalInv, ApprovalOnlyToOwn, Approving

LEMMA BesidePay ==
    ASSUME PageInv, PayInv, AddsAtMostOne, UNCHANGED tasks
    PROVE  PayInv'
<1>1. UNCHANGED <<settled, checks>> /\ txs \in Seq(Signed)
  BY DEF AddsAtMostOne, chain, PageInv, TxsOK
<1>2. /\ \A i \in DOMAIN txs : txs'[i] = txs[i]
      /\ \A i \in DOMAIN txs' : txs'[i].status = "success" => i \in DOMAIN txs
  <2>1. CASE UNCHANGED txs
    BY <2>1
  <2>2. CASE \E s : Sent(s) /\ txs' = Append(txs, s)
    <3>1. PICK s : Sent(s) /\ txs' = Append(txs, s)
      BY <2>2
    <3>2. s \in Signed /\ s.status = "sent"
      BY <3>1 DEF Sent
    <3> QED BY <1>1, <3>1, <3>2
  <2> QED BY <2>1, <2>2 DEF AddsAtMostOne
<1>3. \A i \in DOMAIN txs' : txs'[i].tx.kind = "settle" /\ txs'[i].status = "success" =>
         IsSettled(txs'[i].tx)
  BY <1>2 DEF PayInv
<1>4. \A k \in Slots \cup {AutoSlot} :
         tasks[k] # Idle /\ tasks[k].at = "confirm" => txs'[tasks[k].id] = txs[tasks[k].id]
  BY <1>2, Running
<1> QED BY <1>1, <1>3, <1>4 DEF PayInv, IsSettled

\* A click, or the page's own step, signs nothing.
LEMMA PageAdds ==
    ASSUME \/ \E k \in Slots : Click(k)
           \/ \E c \in Campaigns : RefreshSucceeds(c) \/ RefreshFails(c)
           \/ \E w \in Exposed : AccountsChanged(w)
           \/ \E o \in Orders : HandleReferenceChange(o)
           \/ StartNextOrder \/ StartOver
    PROVE  AddsAtMostOne
BY DEF Click, CreatePayment, AddFunds, RunPrivateCheck, ResumePrivateCheck, PayCommission, Start,
       RefreshSucceeds, RefreshFails, AccountsChanged, HandleReferenceChange, StartNextOrder,
       StartOver, World, AddsAtMostOne

\* A page without state, handlers or reads.
LEMMA BlankInv ==
    ASSUME PageInv, ApprovalInv, PayInv, UNCHANGED <<World, storage>>,
           account' \in Wallets \cup {NoWallet}, page' = EmptyPage, refreshing' = {},
           tasks' = [k \in Slots \cup {AutoSlot} |-> Idle]
    PROVE  PageInv' /\ ApprovalInv' /\ PayInv' /\ BusyInv'
<1>1. GoodPage(page')
  BY OrderAssumption DEF EmptyPage, GoodPage, Page, Known, NoCheck
<1>2. /\ DOMAIN tasks' = Slots \cup {AutoSlot}
      /\ \A k \in Slots \cup {AutoSlot} : tasks'[k] = Idle
  OBVIOUS
<1>3. PageInv'
  BY <1>1, <1>2, BrowserStep DEF GoodTask, PageInv
<1>4. ApprovalInv'
  BY <1>2, ApprovalPage DEF Approving
<1>5. PayInv'
  BY <1>2 DEF PayInv, IsSettled, World, chain
<1>6. BusyInv'
  BY DEF BusyInv, EmptyPage
<1> QED BY <1>3, <1>4, <1>5, <1>6
=============
