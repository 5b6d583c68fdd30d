---------------------------- MODULE PaymentPage ----------------------------
(***************************************************************************)
(* The payment page (FxrpPaymentFlow): a merchant sets up a payment, adds  *)
(* funds, has an order checked by the private machine and pays.            *)
(*                                                                         *)
(* Every handler of the page is asynchronous.  It captures the page's      *)
(* values when it is clicked, waits for an RPC node, the wallet or the     *)
(* result service, and writes page and browser storage afterwards, while   *)
(* the user goes on clicking.  A running handler is a task; one step takes *)
(* it from one await to the next.  Loading the document again drops all    *)
(* tasks and all page state; what was sent to the chain and what is in     *)
(* localStorage stays.  Following a link is modelled in AppShell.          *)
(*                                                                         *)
(* An answer of a node is applied in the step it is given.  Forms that do  *)
(* not validate, the service light and the balance of the wallet only      *)
(* refuse a click, which is a step the user need not take.                 *)
(***************************************************************************)
EXTENDS Naturals, Sequences

CONSTANTS
    Wallets,       \* accounts of people
    Exposed,       \* what the browser wallet may expose: one of them, or NoWallet
    Campaigns,     \* addresses the factory may deploy a settlement at
    Orders,        \* order references the user may type
    DefaultOrder,  \* the reference the form starts with
    Amount,        \* the commission the machine computes for each order
    Denied,        \* the orders the machine finds ineligible
    FundAmounts,   \* what the user may add
    Existing,      \* payments of an earlier visit, by the wallet Founder
    Founder,
    InitialEscrow, \* what they still hold
    Answers,       \* how the machine may answer: "result", "error"
    Slots,         \* how many handlers the user may have running
    CheckPolls,    \* times a submitted check asks for its result
    ResumePolls,   \* times "Check result again" asks
    MaxTxs,        \* bound: transactions signed
    NoWallet, NoCampaign, NoOrder

NoCheck  == 0
AutoSlot == "auto"    \* the slot of the resume that runs when the page opens

ASSUME WalletAssumption == NoWallet \notin Wallets /\ Exposed \subseteq Wallets \cup {NoWallet}
ASSUME OrderAssumption == DefaultOrder \in Orders /\ Denied \subseteq Orders
ASSUME AmountAssumption ==
    /\ Amount \in [Orders -> Nat]
    /\ \A o \in Denied : Amount[o] = 0
    /\ FundAmounts \subseteq Nat \ {0}
ASSUME ExistingAssumption ==
    Existing \subseteq Campaigns /\ Founder \in Wallets /\ InitialEscrow \in Nat
ASSUME AnswerAssumption == Answers \subseteq {"result", "error"}
ASSUME BoundAssumption == CheckPolls \in Nat \ {0} /\ ResumePolls \in Nat \ {0} /\ MaxTxs \in Nat

VARIABLES
    merchant,    \* chain: who created each campaign
    escrow,      \* chain: escrowBalance
    allowance,   \* chain: what each wallet lets each campaign take
    settled,     \* chain: the settled orders of each campaign
    checks,      \* chain and machine: the instructions and their answers
    txs,         \* the signed transactions, in order
    account,     \* the wallet's account
    page,        \* the component's state
    storage,     \* localStorage
    refreshing,  \* the campaigns refreshCampaign is reading
    tasks        \* the running handlers

chain  == <<merchant, escrow, allowance, settled, checks>>
vars   == <<chain, txs, account, page, storage, refreshing, tasks>>

Check == [campaign : Campaigns, order : Orders, answer : {"none", "result", "error"},
          expired : BOOLEAN]

Tx == [kind : {"create", "approve", "fund", "check", "settle"},
       campaign : Campaigns \cup {NoCampaign}, from : Wallets \cup {NoWallet}, amount : Nat,
       order : Orders \cup {NoOrder}, check : Nat]

Page == [campaign : Campaigns \cup {NoCampaign}, reference : Orders \cup {NoOrder},
         result : Nat, pending : Nat, paid : BOOLEAN, available : Nat,
         busy : {"none", "create", "fund", "check", "resume", "pay"},
         message : {"other", "fundsAdded", "paymentComplete"}]

Storage == [campaign : Campaigns \cup {NoCampaign}, pending : Nat]

Idle == [at |-> "idle"]

Task == [op : {"create", "fund", "check", "resume", "autoresume", "pay"},
         at : {"merchant", "read", "precheck", "simulate", "wallet", "confirm",
               "finally", "poll", "verify", "done"},
         tx : Tx, id : Nat, polls : Nat]

TypeOK ==
    /\ merchant \in [Campaigns -> Wallets \cup {NoWallet}]
    /\ escrow \in [Campaigns -> Nat]
    /\ allowance \in [Wallets \X Campaigns -> Nat]
    /\ settled \in [Campaigns -> SUBSET Orders]
    /\ checks \in Seq(Check)
    /\ \A i \in DOMAIN txs : txs[i].tx \in Tx /\ txs[i].status \in {"sent", "success", "reverted"}
    /\ account \in Wallets \cup {NoWallet}
    /\ page \in Page
    /\ storage \in Storage
    /\ refreshing \subseteq Campaigns
    /\ DOMAIN tasks = Slots \cup {AutoSlot}
    /\ \A k \in DOMAIN tasks : tasks[k] = Idle \/ tasks[k] \in Task

\* The state a page is rendered with before it reads localStorage.
EmptyPage ==
    [campaign |-> NoCampaign, reference |-> DefaultOrder, result |-> NoCheck,
     pending |-> NoCheck, paid |-> FALSE, available |-> 0, busy |-> "none",
     message |-> "other"]

\* The page is opened for the first time, or with a payment saved earlier.
Init ==
    /\ merchant = [c \in Campaigns |-> IF c \in Existing THEN Founder ELSE NoWallet]
    /\ escrow = [c \in Campaigns |-> IF c \in Existing THEN InitialEscrow ELSE 0]
    /\ allowance = [p \in Wallets \X Campaigns |-> 0]
    /\ settled = [c \in Campaigns |-> {}]
    /\ checks = <<>>
    /\ txs = <<>>
    /\ account \in Exposed
    /\ storage \in [campaign : Existing \cup {NoCampaign}, pending : {NoCheck}]
    /\ page = [EmptyPage EXCEPT !.campaign = storage.campaign]
    /\ refreshing = {storage.campaign} \ {NoCampaign}
    /\ tasks = [k \in Slots \cup {AutoSlot} |-> Idle]

-----------------------------------------------------------------------------
(* The chain, as this page uses it.                                        *)

\* What settle() requires, of all it checks, that can differ between results.
Settles(c, i) ==
    /\ checks[i].campaign = c
    /\ checks[i].answer = "result" /\ ~checks[i].expired
    /\ checks[i].order \notin settled[c]
    /\ Amount[checks[i].order] <= escrow[c]

\* A simulation is right about the present only; the transaction runs later.
WouldSucceed(tx) ==
    CASE tx.kind = "create" -> \E c \in Campaigns : merchant[c] = NoWallet
      [] tx.kind = "fund"   -> /\ merchant[tx.campaign] = tx.from
                               /\ tx.amount <= allowance[tx.from, tx.campaign]
      [] tx.kind = "settle" -> Settles(tx.campaign, tx.check)
      [] OTHER -> TRUE

PaidOut(c, i) ==
    /\ settled' = [settled EXCEPT ![c] = @ \cup {checks[i].order}]
    /\ escrow' = [escrow EXCEPT ![c] = @ - Amount[checks[i].order]]

\* A mined transaction; the receipt of "create" carries the new address.
Executes(tx, c) ==
    \/ /\ tx.kind = "create" /\ merchant[c] = NoWallet
       /\ merchant' = [merchant EXCEPT ![c] = tx.from]
       /\ UNCHANGED <<escrow, allowance, settled, checks>>
    \/ /\ tx.kind = "approve" /\ c = tx.campaign
       /\ allowance' = [allowance EXCEPT ![<<tx.from, c>>] = tx.amount]
       /\ UNCHANGED <<merchant, escrow, settled, checks>>
    \/ /\ tx.kind = "fund" /\ c = tx.campaign
       /\ allowance' = [allowance EXCEPT ![<<tx.from, c>>] = @ - tx.amount]
       /\ escrow' = [escrow EXCEPT ![c] = @ + tx.amount]
       /\ UNCHANGED <<merchant, settled, checks>>
    \/ /\ tx.kind = "check" /\ c = tx.campaign
       /\ checks' = Append(checks, [campaign |-> c, order |-> tx.order,
                                    answer |-> "none", expired |-> FALSE])
       /\ UNCHANGED <<merchant, escrow, allowance, settled>>
    \/ /\ tx.kind = "settle" /\ c = tx.campaign
       /\ PaidOut(c, tx.check)
       /\ UNCHANGED <<merchant, allowance, checks>>

Browser == <<account, page, storage, refreshing, tasks>>

Mine(i) ==
    /\ txs[i].status = "sent"
    /\ WouldSucceed(txs[i].tx)
    /\ \E c \in Campaigns :
         /\ Executes(txs[i].tx, c)
         /\ txs' = [txs EXCEPT ![i].status = "success", ![i].tx.campaign = c,
                               ![i].tx.check = IF txs[i].tx.kind = "check"
                                               THEN Len(checks) + 1 ELSE @]
    /\ UNCHANGED Browser

Revert(i) ==
    /\ txs[i].status = "sent"
    /\ ~WouldSucceed(txs[i].tx)
    /\ txs' = [txs EXCEPT ![i].status = "reverted"]
    /\ UNCHANGED <<chain, Browser>>

\* The machine answers, at most once.
Answer(i) ==
    /\ checks[i].answer = "none"
    /\ \E a \in Answers : checks' = [checks EXCEPT ![i].answer = a]
    /\ UNCHANGED <<merchant, escrow, allowance, settled, txs, Browser>>

\* The expiry of a result passes; before there is one, it makes no difference yet.
Expire(i) ==
    /\ checks[i].answer = "result" /\ ~checks[i].expired
    /\ checks' = [checks EXCEPT ![i].expired = TRUE]
    /\ UNCHANGED <<merchant, escrow, allowance, settled, txs, Browser>>

\* The result service is public: anyone may hand a result to the contract.
SettledByOther(i) ==
    /\ Settles(checks[i].campaign, i)
    /\ PaidOut(checks[i].campaign, i)
    /\ UNCHANGED <<merchant, allowance, checks, txs, Browser>>

-----------------------------------------------------------------------------
(* Tasks.                                                                  *)

\* Everything outside the browser.
World == <<chain, txs>>

\* The values a handler captures when it starts.
Prepared(kind, amount, order, check) ==
    [kind |-> kind, campaign |-> page.campaign, from |-> account, amount |-> amount,
     order |-> order, check |-> check]

Start(k, op, at, tx, polls) ==
    /\ tasks[k] = Idle
    /\ tasks' = [tasks EXCEPT ![k] =
                    [op |-> op, at |-> at, tx |-> tx, id |-> 0, polls |-> polls]]
    /\ UNCHANGED <<World, account, storage, refreshing>>

\* clearMessages, and the handler's name in `busy`.
Busy(op) == page' = [page EXCEPT !.busy = op, !.message = "other"]

At(k, place) == tasks[k] # Idle /\ tasks[k].at = place

Goto(k, place) ==
    /\ tasks' = [tasks EXCEPT ![k].at = place]
    /\ UNCHANGED <<World, account, storage, refreshing>>

End(k) == tasks' = [tasks EXCEPT ![k] = Idle]

\* Any await inside the try block may throw: a node or the service does not
\* answer, the wallet refuses, waiting for a receipt times out.  The transaction
\* may be on its way or already executed.
Fail(k) ==
    /\ tasks[k] # Idle
    /\ tasks[k].at \notin {"precheck", "finally", "done"}
    /\ \/ /\ tasks[k].op = "fund"
          /\ page' = [page EXCEPT !.message = "other"]
          /\ Goto(k, "finally")
       \/ /\ tasks[k].op # "fund"
          /\ page' = [page EXCEPT !.message = "other", !.busy = "none"]
          /\ End(k)
          /\ UNCHANGED <<World, account, storage, refreshing>>

Simulate(k) ==
    /\ At(k, "simulate")
    /\ WouldSucceed(tasks[k].tx)
    /\ Goto(k, "wallet")
    /\ UNCHANGED page

Sign(k) ==
    /\ At(k, "wallet")
    /\ Len(txs) < MaxTxs
    /\ txs' = Append(txs, [tx |-> tasks[k].tx, status |-> "sent"])
    /\ tasks' = [tasks EXCEPT ![k].at = "confirm", ![k].id = Len(txs) + 1]
    /\ UNCHANGED <<chain, account, page, storage, refreshing>>

\* Slip of the definition after it, see "Slips" below.
HasReceipt_AnyStatus(i) == txs[i].status # "sent"

\* The client the page waits with throws on the receipt of a reverted transaction:
\* only Fail goes on from there.
HasReceipt(i) == txs[i].status = "success"

Confirming(k, kind) ==
    /\ At(k, "confirm")
    /\ tasks[k].tx.kind = kind
    /\ HasReceipt(tasks[k].id)

Receipt(k) == txs[tasks[k].id]

-----------------------------------------------------------------------------
(* Slips of the handlers below.  No action uses them: each is a small mistake in *)
(* the definition it is named after, and a property is there to exclude it. *)

RemovePending_Forgotten == UNCHANGED storage

IsMerchant_Always(k) == TRUE

StillProcessing_Spins(k) ==
    /\ At(k, "poll")
    /\ checks[tasks[k].tx.check].answer = "none"
    /\ tasks[k].polls = 1
    /\ End(k)
    /\ UNCHANGED <<World, account, page, storage, refreshing>>

PollAgain_Endless(k) ==
    /\ At(k, "poll")
    /\ checks[tasks[k].tx.check].answer = "none"
    /\ tasks' = [tasks EXCEPT ![k].polls = @ - 1]
    /\ UNCHANGED <<World, account, page, storage, refreshing>>

PaymentComplete_Spins(k) ==
    /\ At(k, "done")
    /\ page' = [page EXCEPT !.message = "paymentComplete"]
    /\ End(k)
    /\ UNCHANGED <<World, account, storage, refreshing>>

-----------------------------------------------------------------------------
(* Handlers of the page, in the order of its life.                         *)

RemovePending == storage' = [storage EXCEPT !.pending = NoCheck]

\* refreshCampaign(c) was called; a second call for the same address while one
\* is running reads the same.
RefreshSucceeds(c) ==
    /\ c \in refreshing
    /\ refreshing' = refreshing \ {c}
    /\ page' = [page EXCEPT !.available = escrow[c]]
    /\ UNCHANGED <<World, account, storage, tasks>>

\* One failed read, and the page forgets its payment, whichever it is by now.
RefreshFails(c) ==
    /\ c \in refreshing
    /\ refreshing' = refreshing \ {c}
    /\ page' = [page EXCEPT !.campaign = NoCampaign]
    /\ storage' = [storage EXCEPT !.campaign = NoCampaign]
    /\ UNCHANGED <<World, account, tasks>>

\* Connecting, restoring or switching the wallet's account.
AccountsChanged(w) ==
    /\ account # w
    /\ account' = w
    /\ UNCHANGED <<World, page, storage, refreshing, tasks>>

CreatePayment(k) ==
    /\ account # NoWallet /\ page.campaign = NoCampaign /\ page.busy # "create"
    /\ Start(k, "create", "simulate", Prepared("create", 0, NoOrder, NoCheck), 0)
    /\ Busy("create")

Created(k) ==
    /\ Confirming(k, "create")
    /\ LET c == Receipt(k).tx.campaign
       IN  /\ page' = [page EXCEPT !.campaign = c, !.result = NoCheck, !.pending = NoCheck,
                                   !.paid = FALSE, !.busy = "none", !.message = "other"]
           /\ storage' = [campaign |-> c, pending |-> NoCheck]
           /\ refreshing' = refreshing \cup {c}
    /\ End(k)
    /\ UNCHANGED <<World, account>>

AddFunds(k, amount) ==
    /\ account # NoWallet /\ page.campaign # NoCampaign /\ page.busy # "fund"
    /\ Start(k, "fund", "merchant", Prepared("approve", amount, NoOrder, NoCheck), 0)
    /\ Busy("fund")

IsMerchant(k) == merchant[tasks[k].tx.campaign] = tasks[k].tx.from

ReadMerchant(k) ==
    /\ At(k, "merchant")
    /\ IsMerchant(k)
    /\ Goto(k, "simulate")
    /\ UNCHANGED page

Approved(k) ==
    /\ Confirming(k, "approve")
    /\ tasks' = [tasks EXCEPT ![k].at = "simulate", ![k].tx.kind = "fund"]
    /\ UNCHANGED <<World, account, page, storage, refreshing>>

\* refreshCampaign is awaited here and again in the finally block; it catches its
\* own errors.
Refreshed(c, busy, message) ==
    \/ /\ page' = [page EXCEPT !.available = escrow[c], !.busy = busy, !.message = message]
       /\ UNCHANGED storage
    \/ /\ page' = [page EXCEPT !.campaign = NoCampaign, !.busy = busy, !.message = message]
       /\ storage' = [storage EXCEPT !.campaign = NoCampaign]

Funded(k) ==
    /\ Confirming(k, "fund")
    /\ Refreshed(tasks[k].tx.campaign, page.busy, "fundsAdded")
    /\ tasks' = [tasks EXCEPT ![k].at = "finally"]
    /\ UNCHANGED <<World, account, refreshing>>

FundingEnds(k) ==
    /\ At(k, "finally")
    /\ Refreshed(tasks[k].tx.campaign, "none", page.message)
    /\ End(k)
    /\ UNCHANGED <<World, account, refreshing>>

\* The order form: no result and nothing paid on screen.
AsksForOrder ==
    /\ account # NoWallet /\ page.campaign # NoCampaign
    /\ page.result = NoCheck /\ ~page.paid

HandleReferenceChange(o) ==
    /\ AsksForOrder
    /\ page.pending = NoCheck
    /\ page' = [page EXCEPT !.reference = o]
    /\ UNCHANGED <<World, account, storage, refreshing, tasks>>

RunPrivateCheck(k) ==
    /\ AsksForOrder
    /\ page.pending = NoCheck
    /\ page.busy # "check"
    /\ page.reference # NoOrder
    /\ Start(k, "check", "read", Prepared("check", 0, page.reference, NoCheck), CheckPolls)
    /\ Busy("check")

\* The order must be unsettled; the terms read here never change.
ReadTerms(k) ==
    /\ At(k, "read")
    /\ tasks[k].tx.order \notin settled[tasks[k].tx.campaign]
    /\ Goto(k, "simulate")
    /\ UNCHANGED page

Submitted(k) ==
    /\ Confirming(k, "check")
    /\ LET i == Receipt(k).tx.check
       IN  /\ tasks' = [tasks EXCEPT ![k].at = "poll", ![k].tx.check = i]
           /\ page' = [page EXCEPT !.pending = i, !.message = "other"]
           /\ storage' = [storage EXCEPT !.pending = i]
    /\ UNCHANGED <<World, account, refreshing>>

PendingIsOfCampaign(i, c) == i # NoCheck /\ c # NoCampaign /\ checks[i].campaign = c

ResumePrivateCheck(k) ==
    /\ AsksForOrder
    /\ page.busy \notin {"resume", "check"}
    /\ PendingIsOfCampaign(page.pending, page.campaign)
    /\ Start(k, "resume", "poll", Prepared("check", 0, NoOrder, page.pending), ResumePolls)
    /\ Busy("resume")

PollAgain(k) ==
    /\ At(k, "poll")
    /\ checks[tasks[k].tx.check].answer = "none"
    /\ tasks[k].polls > 1
    /\ tasks' = [tasks EXCEPT ![k].polls = @ - 1]
    /\ UNCHANGED <<World, account, page, storage, refreshing>>

StillProcessing(k) ==
    /\ At(k, "poll")
    /\ checks[tasks[k].tx.check].answer = "none"
    /\ tasks[k].polls = 1
    /\ page' = [page EXCEPT !.busy = "none",
                            !.message = IF tasks[k].op = "autoresume" THEN @ ELSE "other"]
    /\ End(k)
    /\ UNCHANGED <<World, account, storage, refreshing>>

\* decodePrivateCheck throws on an "error" answer, which is Fail, and on a result
\* for another campaign than the one captured, which the machine never gives.
IsResult(k) == checks[tasks[k].tx.check].answer = "result"

Checked(k) ==
    /\ At(k, "poll")
    /\ IsResult(k)
    /\ page' = [page EXCEPT !.result = tasks[k].tx.check, !.pending = NoCheck,
                            !.busy = "none", !.message = "other"]
    /\ RemovePending
    /\ End(k)
    /\ UNCHANGED <<World, account, refreshing>>

Due(i) == Amount[checks[i].order]

\* `busy` is set only after the first read, so two clicks start two payments.
PayCommission(k) ==
    /\ account # NoWallet /\ page.campaign # NoCampaign
    /\ page.result # NoCheck /\ ~page.paid
    /\ page.busy # "pay" /\ Due(page.result) <= page.available
    /\ Start(k, "pay", "precheck", Prepared("settle", 0, NoOrder, page.result), 0)
    /\ page' = [page EXCEPT !.message = "other"]

ReadEscrow(k) ==
    /\ At(k, "precheck")
    /\ LET c == tasks[k].tx.campaign
       IN  \/ /\ Due(tasks[k].tx.check) <= escrow[c]
              /\ page' = [page EXCEPT !.available = escrow[c], !.busy = "pay"]
              /\ Goto(k, "simulate")
           \/ /\ Due(tasks[k].tx.check) > escrow[c]
              /\ page' = [page EXCEPT !.available = escrow[c], !.message = "other"]
              /\ End(k)
              /\ UNCHANGED <<World, account, storage, refreshing>>

\* The read is outside the try block: the handler dies without a word.
ReadEscrowFails(k) ==
    /\ At(k, "precheck")
    /\ End(k)
    /\ UNCHANGED <<World, account, page, storage, refreshing>>

PayConfirmed(k) ==
    /\ Confirming(k, "settle")
    /\ Goto(k, "verify")
    /\ UNCHANGED page

OnceSettled(k) == checks[tasks[k].tx.check].order \in settled[tasks[k].tx.campaign]

VerifyPayment(k) ==
    /\ At(k, "verify")
    /\ page' = [page EXCEPT !.paid = OnceSettled(k), !.available = escrow[tasks[k].tx.campaign]]
    /\ Goto(k, "done")

PaymentComplete(k) ==
    /\ At(k, "done")
    /\ page' = [page EXCEPT !.busy = "none", !.message = "paymentComplete"]
    /\ End(k)
    /\ UNCHANGED <<World, account, storage, refreshing>>

StartNextOrder ==
    /\ account # NoWallet /\ page.campaign # NoCampaign
    /\ page.result # NoCheck \/ page.paid
    /\ page' = [page EXCEPT !.result = NoCheck, !.pending = NoCheck, !.paid = FALSE,
                            !.reference = NoOrder, !.message = "other"]
    /\ RemovePending
    /\ UNCHANGED <<World, account, refreshing, tasks>>

\* Running handlers go on, and `busy` stays.
StartOver ==
    /\ page.campaign # NoCampaign
    /\ page' = [EmptyPage EXCEPT !.busy = page.busy]
    /\ storage' = [campaign |-> NoCampaign, pending |-> NoCheck]
    /\ UNCHANGED <<World, account, refreshing, tasks>>

\* The effects of the first render: they read localStorage, refresh the payment and
\* ask once for a saved check of it.
Mounts ==
    /\ page' = [EmptyPage EXCEPT !.campaign = storage.campaign, !.pending = storage.pending,
                  !.busy = IF PendingIsOfCampaign(storage.pending, storage.campaign)
                           THEN "resume" ELSE "none"]
    /\ refreshing' = {storage.campaign} \ {NoCampaign}
    /\ tasks' = [k \in Slots \cup {AutoSlot} |->
                   IF k = AutoSlot /\ PendingIsOfCampaign(storage.pending, storage.campaign)
                   THEN [op |-> "autoresume", at |-> "poll", id |-> 0, polls |-> 1,
                         tx |-> [kind |-> "check", campaign |-> storage.campaign,
                                 from |-> account, amount |-> 0, order |-> NoOrder,
                                 check |-> storage.pending]]
                   ELSE Idle]

\* The document is loaded again, which ends all handlers; leaving by a link does not,
\* see AppShell.
Reload == Mounts /\ UNCHANGED <<World, account, storage>>

TaskStep(k) ==
    \/ Fail(k) \/ Simulate(k) \/ Sign(k)
    \/ Created(k)
    \/ ReadMerchant(k) \/ Approved(k) \/ Funded(k) \/ FundingEnds(k)
    \/ ReadTerms(k) \/ Submitted(k) \/ PollAgain(k) \/ StillProcessing(k) \/ Checked(k)
    \/ ReadEscrow(k) \/ ReadEscrowFails(k) \/ PayConfirmed(k) \/ VerifyPayment(k)
    \/ PaymentComplete(k)

Click(k) ==
    \/ CreatePayment(k)
    \/ \E amount \in FundAmounts : AddFunds(k, amount)
    \/ RunPrivateCheck(k)
    \/ ResumePrivateCheck(k)
    \/ PayCommission(k)

Next ==
    \/ \E i \in DOMAIN txs : Mine(i) \/ Revert(i)
    \/ \E i \in DOMAIN checks : Answer(i) \/ Expire(i) \/ SettledByOther(i)
    \/ \E k \in Slots : Click(k)
    \/ \E k \in Slots \cup {AutoSlot} : TaskStep(k)
    \/ \E c \in Campaigns : RefreshSucceeds(c) \/ RefreshFails(c)
    \/ \E w \in Exposed : AccountsChanged(w)
    \/ \E o \in Orders : HandleReferenceChange(o)
    \/ StartNextOrder \/ StartOver \/ Reload

Spec == Init /\ [][Next]_vars

-----------------------------------------------------------------------------
(* Safety.                                                                 *)

\* localStorage says what the page says, so loading the page again finds the same
\* payment and the same submitted check.
StorageMirrorsPage ==
    page.campaign = storage.campaign /\ page.pending = storage.pending

Owner(op) == IF op = "autoresume" THEN "resume" ELSE op

\* The page never shows a handler as running that is not: no button stays disabled
\* for good, although all handlers share the one `busy`.
BusyHasOwner ==
    page.busy # "none" =>
        \E k \in DOMAIN tasks : tasks[k] # Idle /\ Owner(tasks[k].op) = page.busy

\* An allowance is only ever given to a campaign of the very wallet that gives it,
\* although account and payment may change while addFunds runs.
ApprovalOnlyToOwn ==
    \A w \in Wallets, c \in Campaigns : allowance[w, c] > 0 => merchant[c] = w

\* "Payment complete. The commission was paid on Flare.": whatever happened between
\* simulation and block, the page announces it for a settled order only.
CompleteMeansPaid ==
    [][\A k \in DOMAIN tasks :
          At(k, "done") /\ page'.message = "paymentComplete" => OnceSettled(k)]_vars

-----------------------------------------------------------------------------
(* Progress.                                                               *)

\* Transactions are mined, checks are answered, awaits return or fail, the service
\* does not fail every time it is asked, and the user keeps asking for a result.
Progress ==
    /\ \A i \in 1 .. MaxTxs :
         /\ WF_vars(i \in DOMAIN txs /\ (Mine(i) \/ Revert(i)))
         /\ WF_vars(i \in DOMAIN checks /\ Answer(i))
    /\ \A k \in Slots \cup {AutoSlot} : WF_vars(TaskStep(k)) /\ SF_vars(Checked(k))
    /\ \A k \in Slots : SF_vars(ResumePrivateCheck(k))

FairSpec == Spec /\ Progress

ShowsProcessing(i) ==
    AsksForOrder /\ page.pending = i /\ PendingIsOfCampaign(i, page.campaign)

\* "Your private check is processing" does not stay on screen for good when the
\* user keeps asking for the result.
CheckResolves ==
    \A i \in 1 .. MaxTxs : ShowsProcessing(i) ~> ~ShowsProcessing(i)

\* Every spinner ends.
BusyClears == page.busy # "none" ~> page.busy = "none"

-----------------------------------------------------------------------------
(* What the page's words promise.                                          *)

\* "This order was paid.", with the amount and the reference of the result on screen:
\* that result was settled, and for a commission.
PaidMeansCommission ==
    page.paid /\ page.result # NoCheck =>
      LET check == checks[page.result]
      IN  check.order \in settled[check.campaign] /\ check.order \notin Denied
=============================================================================
