--------------------------- MODULE AppShellProofs ---------------------------
(***************************************************************************)
(* What holds of the pages under /app for every number of wallets,         *)
(* campaigns, orders, handlers and transactions, and any way through them. *)
(*                                                                         *)
(* The invariants of PaymentPage hold of both of its instances, of the one *)
(* on screen and of the one that was left.  A step of the one is seen by   *)
(* the other as a step of the world which adds at most a transaction, and  *)
(* writes localStorage; navigation hands the invariants over.  So all that *)
(* is proved about a page that is never left holds of it here, except that *)
(* it agrees with localStorage.                                            *)
(***************************************************************************)
EXTENDS AppShell, PaymentPageProofs

\* What is proved about a page, of the page that was left.
LeftProofs == INSTANCE PaymentPageProofs
    WITH page <- leftPage, refreshing <- leftRefreshing, tasks <- leftTasks

\* Only the payment that was saved when a live page opened is being read.
ViewOK ==
    /\ view \in [shown : Campaigns \cup {NoCampaign}, loaded : BOOLEAN,
                 reading : SUBSET Campaigns, saved : Campaigns \cup {NoCampaign}]
    /\ view.reading \subseteq {view.saved}
    /\ route # "live" => view.reading = {}

OnScreenInv == PageInv /\ ApprovalInv /\ PayInv /\ BusyInv

LeftInv == LeftProofs!PageInv /\ LeftProofs!ApprovalInv /\ LeftProofs!PayInv

ShellInv == OnScreenInv /\ LeftInv /\ ViewOK

-----------------------------------------------------------------------------
(* One page, instantiated twice: the definitions are the same.             *)

LEMMA AssumptionsOfLeft ==
    /\ LeftProofs!WalletAssumption /\ LeftProofs!OrderAssumption /\ LeftProofs!AmountAssumption
    /\ LeftProofs!ExistingAssumption /\ LeftProofs!AnswerAssumption
    /\ LeftProofs!BoundAssumption
BY WalletAssumption, OrderAssumption, AmountAssumption, ExistingAssumption, AnswerAssumption,
   BoundAssumption
   DEF LeftProofs!WalletAssumption, LeftProofs!OrderAssumption, LeftProofs!AmountAssumption,
       LeftProofs!ExistingAssumption, LeftProofs!AnswerAssumption, LeftProofs!BoundAssumption

LEMMA HandlersOfLeft ==
    ASSUME NEW k, Left!TaskStep(k)
    PROVE  LeftProofs!TaskStep(k)
BY DEF Left!TaskStep, Left!At, Left!Confirming, Left!HasReceipt, Left!Goto, Left!End,
       Left!World, Left!chain, Left!Receipt, Left!Refreshed, Left!IsMerchant, Left!IsResult,
       Left!RemovePending, Left!Due, Left!OnceSettled, Left!WouldSucceed, Left!Settles,
       Left!Idle, Left!NoCheck, Left!Fail, Left!Simulate, Left!Sign, Left!Created,
       Left!ReadMerchant, Left!Approved, Left!Funded, Left!FundingEnds, Left!ReadTerms,
       Left!Submitted, Left!PollAgain, Left!StillProcessing, Left!Checked, Left!ReadEscrow,
       Left!ReadEscrowFails, Left!PayConfirmed, Left!VerifyPayment, Left!PaymentComplete,
       LeftProofs!TaskStep, LeftProofs!At, LeftProofs!Confirming, LeftProofs!HasReceipt,
       LeftProofs!Goto, LeftProofs!End, LeftProofs!World, LeftProofs!chain,
       LeftProofs!Receipt, LeftProofs!Refreshed, LeftProofs!IsMerchant, LeftProofs!IsResult,
       LeftProofs!RemovePending, LeftProofs!Due, LeftProofs!OnceSettled,
       LeftProofs!WouldSucceed, LeftProofs!Settles, LeftProofs!Idle, LeftProofs!NoCheck,
       LeftProofs!Fail, LeftProofs!Simulate, LeftProofs!Sign, LeftProofs!Created,
       LeftProofs!ReadMerchant, LeftProofs!Approved, LeftProofs!Funded,
       LeftProofs!FundingEnds, LeftProofs!ReadTerms, LeftProofs!Submitted,
       LeftProofs!PollAgain, LeftProofs!StillProcessing, LeftProofs!Checked,
       LeftProofs!ReadEscrow, LeftProofs!ReadEscrowFails, LeftProofs!PayConfirmed,
       LeftProofs!VerifyPayment, LeftProofs!PaymentComplete

LEMMA ReadsOfLeft ==
    ASSUME NEW c, Left!RefreshSucceeds(c) \/ Left!RefreshFails(c)
    PROVE  LeftProofs!RefreshSucceeds(c) \/ LeftProofs!RefreshFails(c)
BY DEF Left!RefreshSucceeds, Left!RefreshFails, Left!World, Left!chain,
       LeftProofs!RefreshSucceeds, LeftProofs!RefreshFails, LeftProofs!World, LeftProofs!chain

\* Both pages have the one world.
WorldSteps ==
    \/ \E i \in DOMAIN txs : Mine(i) \/ Revert(i)
    \/ \E i \in DOMAIN checks : Answer(i) \/ Expire(i) \/ SettledByOther(i)

LEMMA WorldOfLeft ==
    ASSUME WorldSteps, UNCHANGED left
    PROVE  \/ \E i \in DOMAIN txs : LeftProofs!Mine(i) \/ LeftProofs!Revert(i)
           \/ \E i \in DOMAIN checks :
                LeftProofs!Answer(i) \/ LeftProofs!Expire(i) \/ LeftProofs!SettledByOther(i)
BY DEF WorldSteps, left, Mine, Revert, Answer, Expire, SettledByOther, WouldSucceed, Settles,
       Executes, PaidOut, Browser, chain,
       LeftProofs!Mine, LeftProofs!Revert, LeftProofs!Answer, LeftProofs!Expire,
       LeftProofs!SettledByOther, LeftProofs!WouldSucceed, LeftProofs!Settles,
       LeftProofs!Executes, LeftProofs!PaidOut, LeftProofs!Browser, LeftProofs!chain

LEMMA StorageOfLeft ==
    /\ GoodStorage(storage) <=> LeftProofs!GoodStorage(storage)
    /\ GoodStorage(storage)' <=> LeftProofs!GoodStorage(storage)'
    /\ AddsAtMostOne <=> LeftProofs!AddsAtMostOne
BY DEF GoodStorage, Storage, Known, NoCheck, AddsAtMostOne, Sent, Signed, Tx, GoodTx, chain,
       LeftProofs!GoodStorage, LeftProofs!Storage, LeftProofs!Known, LeftProofs!NoCheck,
       LeftProofs!AddsAtMostOne, LeftProofs!Sent, LeftProofs!Signed, LeftProofs!Tx,
       LeftProofs!GoodTx, LeftProofs!chain

LEMMA TaskOfLeft ==
    ASSUME NEW t
    PROVE  /\ GoodTask(t) <=> LeftProofs!GoodTask(t)
           /\ Approving(t) <=> LeftProofs!Approving(t)
BY DEF GoodTask, Approving, Idle, Task, Tx,
       LeftProofs!GoodTask, LeftProofs!Approving, LeftProofs!Idle, LeftProofs!Task, LeftProofs!Tx

-----------------------------------------------------------------------------
(* Steps of the one page, and what the other keeps.                        *)

LEMMA OnScreenActs ==
    ASSUME OnScreenInv, [Next]_vars
    PROVE  OnScreenInv'
BY NextInv, NextApproval, NextPay, NextBusy DEF OnScreenInv

LEMMA OnScreenBeside ==
    ASSUME OnScreenInv, AddsAtMostOne, UNCHANGED <<page, refreshing, tasks>>,
           account' \in Wallets \cup {NoWallet}, GoodStorage(storage)'
    PROVE  OnScreenInv'
BY BesideInv, BesideApproval, BesidePay DEF OnScreenInv, BusyInv

LEMMA LeftActs ==
    ASSUME LeftInv, LeftProofs!Next
    PROVE  LeftInv'
BY AssumptionsOfLeft, LeftProofs!NextInv, LeftProofs!NextApproval, LeftProofs!NextPay
   DEF LeftInv

LEMMA LeftBeside ==
    ASSUME LeftInv, AddsAtMostOne, UNCHANGED left,
           account' \in Wallets \cup {NoWallet}, GoodStorage(storage)'
    PROVE  LeftInv'
BY AssumptionsOfLeft, StorageOfLeft, LeftProofs!BesideInv, LeftProofs!BesideApproval,
   LeftProofs!BesidePay DEF LeftInv, left

\* After a document is loaded, there is no page that was left.
LEMMA LeftBlank ==
    ASSUME LeftInv, UNCHANGED <<World, storage>>, account' \in Wallets \cup {NoWallet},
           leftPage' = EmptyPage, leftRefreshing' = {}, leftTasks' = NoTasks
    PROVE  LeftInv'
<1>1. /\ UNCHANGED <<LeftProofs!World, storage>>
      /\ leftPage' = LeftProofs!EmptyPage
      /\ leftTasks' = [k \in Slots \cup {LeftProofs!AutoSlot} |-> LeftProofs!Idle]
  BY DEF World, chain, EmptyPage, NoTasks, AutoSlot, Idle, NoCheck, LeftProofs!World, LeftProofs!chain,
         LeftProofs!EmptyPage, LeftProofs!AutoSlot, LeftProofs!Idle, LeftProofs!NoCheck
<1> QED BY <1>1, AssumptionsOfLeft, LeftProofs!BlankInv DEF LeftInv

LEMMA Unmoved ==
    ASSUME ShellInv, UNCHANGED World
    PROVE  /\ AddsAtMostOne /\ account \in Wallets \cup {NoWallet}
           /\ UNCHANGED storage => GoodStorage(storage)'
BY DEF ShellInv, OnScreenInv, PageInv, AddsAtMostOne, World, GoodStorage, Known, chain

\* A page is mounted where there may have been another one.
LEMMA Mounted ==
    ASSUME OnScreenInv, Mounts, UNCHANGED <<World, storage>>, account' \in Wallets \cup {NoWallet}
    PROVE  OnScreenInv'
<1>1. PageInv' /\ PayInv' /\ BusyInv'
  BY MountsInv, MountsPay, MountsBusy DEF OnScreenInv
<1>2. \A k \in Slots \cup {AutoSlot} : ~Approving(tasks'[k])
  BY DEF Mounts, Approving
<1>3. ApprovalInv'
  BY <1>2, ApprovalPage DEF OnScreenInv
<1> QED BY <1>1, <1>3 DEF OnScreenInv

\* The page that is left takes its handlers and reads with it.
LEMMA LeavesWithTasks ==
    ASSUME ShellInv, LeavePay
    PROVE  LeftInv'
<1>1. /\ leftPage' = EmptyPage /\ leftRefreshing' = refreshing /\ leftTasks' = tasks
      /\ UNCHANGED <<merchant, allowance, settled, checks, txs, account, storage>>
      /\ UNCHANGED LeftProofs!World
  BY DEF LeavePay, World, chain, LeftProofs!World, LeftProofs!chain
<1>2. AutoSlot = LeftProofs!AutoSlot /\ Idle = LeftProofs!Idle
  BY DEF AutoSlot, Idle, LeftProofs!AutoSlot, LeftProofs!Idle
<1>3. LeftProofs!PageInv'
  <2>1. LeftProofs!GoodPage(leftPage')
    BY <1>1, OrderAssumption
       DEF EmptyPage, NoCheck, LeftProofs!GoodPage, LeftProofs!Page, LeftProofs!Known,
           LeftProofs!NoCheck
  <2>2. LeftProofs!GoodStorage(storage') /\ account' \in Wallets \cup {NoWallet}
    BY <1>1, StorageOfLeft DEF ShellInv, OnScreenInv, PageInv
  <2>3. /\ leftRefreshing' \subseteq Campaigns
        /\ DOMAIN leftTasks' = Slots \cup {LeftProofs!AutoSlot}
        /\ \A k \in Slots \cup {LeftProofs!AutoSlot} : LeftProofs!GoodTask(leftTasks'[k])
    BY <1>1, <1>2, TaskOfLeft DEF ShellInv, OnScreenInv, PageInv, TasksOK
  <2> QED BY <1>1, <2>1, <2>2, <2>3, AssumptionsOfLeft, LeftProofs!BrowserStep
          DEF ShellInv, LeftInv
<1>4. LeftProofs!ApprovalInv'
  BY <1>1, <1>2 DEF ShellInv, OnScreenInv, ApprovalInv, ApprovalOnlyToOwn, Approving,
     LeftProofs!ApprovalInv, LeftProofs!ApprovalOnlyToOwn, LeftProofs!Approving
<1>5. LeftProofs!PayInv'
  BY <1>1, <1>2 DEF ShellInv, OnScreenInv, PayInv, IsSettled, LeftProofs!PayInv, LeftProofs!IsSettled
<1> QED BY <1>3, <1>4, <1>5 DEF LeftInv

-----------------------------------------------------------------------------
(* The steps of the pages under /app.                                      *)

LEMMA InitShell == ShellInit => ShellInv
<1> SUFFICES ASSUME ShellInit PROVE ShellInv
  OBVIOUS
<1>1. OnScreenInv
  <2>1. PayInv /\ BusyInv
    BY DEF ShellInit, Init, PayInv, BusyInv, EmptyPage
  <2> QED BY <2>1, InitInv, InitApproval DEF ShellInit, OnScreenInv
<1>2. leftPage = EmptyPage /\ leftRefreshing = {} /\ leftTasks = NoTasks /\ txs = <<>>
  BY DEF ShellInit, Init
<1>3. AutoSlot = LeftProofs!AutoSlot /\ Idle = LeftProofs!Idle
  BY DEF AutoSlot, Idle, LeftProofs!AutoSlot, LeftProofs!Idle
<1>4. DOMAIN leftTasks = Slots \cup {AutoSlot} /\ \A k \in Slots \cup {AutoSlot} : leftTasks[k] = Idle
  BY <1>2 DEF NoTasks
<1>5. LeftProofs!PageInv
  <2>1. LeftProofs!ChainOK /\ LeftProofs!TxsOK
    BY <1>1, <1>2 DEF OnScreenInv, PageInv, ChainOK, Check, TxsOK, LeftProofs!ChainOK, LeftProofs!Check,
                      LeftProofs!TxsOK
  <2>2. LeftProofs!GoodPage(leftPage)
    BY <1>2, OrderAssumption
       DEF EmptyPage, NoCheck, LeftProofs!GoodPage, LeftProofs!Page, LeftProofs!Known,
           LeftProofs!NoCheck
  <2>3. LeftProofs!TasksOK
    BY <1>3, <1>4 DEF LeftProofs!TasksOK, LeftProofs!GoodTask
  <2>4. LeftProofs!GoodStorage(storage) /\ account \in Wallets \cup {NoWallet}
    BY <1>1, StorageOfLeft DEF OnScreenInv, PageInv
  <2> QED BY <1>2, <2>1, <2>2, <2>3, <2>4 DEF LeftProofs!PageInv
<1>6. LeftProofs!ApprovalInv
  BY <1>1, <1>2, <1>3, <1>4 DEF OnScreenInv, ApprovalInv, ApprovalOnlyToOwn, LeftProofs!ApprovalInv,
     LeftProofs!ApprovalOnlyToOwn, LeftProofs!Approving
<1>7. LeftProofs!PayInv
  BY <1>2, <1>3, <1>4 DEF LeftProofs!PayInv
<1>8. ViewOK
  BY DEF ShellInit, ViewOK, NewView
<1> QED BY <1>1, <1>5, <1>6, <1>7, <1>8 DEF ShellInv, LeftInv

LEMMA OnScreenInvs ==
    ASSUME ShellInv, OnScreen
    PROVE  OnScreenInv' /\ LeftInv'
<1>1. OnScreenInv /\ LeftInv /\ UNCHANGED left /\ PageInv /\ ApprovalInv
  BY DEF ShellInv, OnScreenInv, OnScreen
<1>2. OnScreenInv'
  <2>1. Next
    BY DEF OnScreen, Next
  <2> QED BY <1>1, <2>1, OnScreenActs
<1>3. account' \in Wallets \cup {NoWallet} /\ GoodStorage(storage)'
  BY <1>2 DEF OnScreenInv, PageInv
<1>4. CASE WorldSteps
  <2>1. LeftProofs!Next
    BY <1>1, <1>4, WorldOfLeft DEF LeftProofs!Next
  <2> QED BY <1>1, <1>2, <2>1, LeftActs
<1>5. CASE ~WorldSteps
  <2>1. AddsAtMostOne
    BY <1>1, <1>5, TaskStepAdds, PageAdds DEF OnScreenInv, OnScreen, WorldSteps
  <2> QED BY <1>1, <1>2, <1>3, <2>1, LeftBeside
<1> QED BY <1>4, <1>5

\* What the page that was left does is a step of its own, and signs at most something.
LEMMA OffScreenActs ==
    ASSUME ShellInv, OffScreen
    PROVE  LeftProofs!Next /\ AddsAtMostOne
<1>1. LeftInv
  BY DEF ShellInv
<1>2. \/ \E k \in Slots \cup {LeftProofs!AutoSlot} : LeftProofs!TaskStep(k)
      \/ \E c \in Campaigns : LeftProofs!RefreshSucceeds(c) \/ LeftProofs!RefreshFails(c)
  BY HandlersOfLeft, ReadsOfLeft DEF OffScreen, AutoSlot, LeftProofs!AutoSlot
<1>3. LeftProofs!Next
  BY <1>2 DEF LeftProofs!Next
<1>4. LeftProofs!AddsAtMostOne
  BY <1>1, <1>2, AssumptionsOfLeft, LeftProofs!TaskStepAdds, LeftProofs!PageAdds DEF LeftInv
<1> QED BY <1>3, <1>4, StorageOfLeft

LEMMA OffScreenInvs ==
    ASSUME ShellInv, OffScreen
    PROVE  OnScreenInv' /\ LeftInv'
<1>1. OnScreenInv /\ LeftInv /\ UNCHANGED <<page, refreshing, tasks>>
  BY DEF ShellInv, OffScreen
<1>2. LeftInv'
  BY <1>1, OffScreenActs, LeftActs
<1>3. account' \in Wallets \cup {NoWallet} /\ GoodStorage(storage)'
  BY <1>2, StorageOfLeft DEF LeftInv, LeftProofs!PageInv
<1> QED BY <1>1, <1>2, <1>3, OffScreenActs, OnScreenBeside

LEMMA ShellInvs ==
    ASSUME ShellInv, [ShellNext]_shellVars
    PROVE  OnScreenInv' /\ LeftInv'
<1>1. OnScreenInv /\ LeftInv /\ account \in Wallets \cup {NoWallet}
  BY DEF ShellInv, OnScreenInv, PageInv
<1>2. ASSUME UNCHANGED <<vars, left>> PROVE OnScreenInv' /\ LeftInv'
  <2>1. UNCHANGED <<World, storage, account>>
    BY <1>2 DEF vars, World
  <2>2. OnScreenInv'
    BY <1>1, <1>2, OnScreenActs
  <2> QED BY <1>1, <1>2, <2>1, <2>2, Unmoved, LeftBeside
<1>3. CASE LeavePay
  <2>1. /\ page' = EmptyPage /\ refreshing' = {} /\ UNCHANGED <<World, storage, account>>
        /\ tasks' = [k \in Slots \cup {AutoSlot} |-> Idle]
    BY <1>3 DEF LeavePay, NoTasks
  <2>2. OnScreenInv'
    BY <1>1, <2>1, BlankInv DEF OnScreenInv
  <2> QED BY <1>3, <2>2, LeavesWithTasks
<1>4. CASE ComeBack
  <2>1. Mounts /\ UNCHANGED <<World, storage, account, left>>
    BY <1>4 DEF ComeBack
  <2> QED BY <1>1, <2>1, Unmoved, Mounted, LeftBeside
<1>5. CASE LoadPay \/ DisconnectWallet
  <2>1. LoadDocument /\ account' \in Wallets \cup {NoWallet}
    BY <1>1, <1>5, WalletAssumption DEF LoadPay, DisconnectWallet
  <2> QED BY <1>1, <2>1, Mounted, LeftBlank DEF LoadDocument
<1>6. CASE ConnectWallet
  <2>1. (\E w \in Exposed : AccountsChanged(w)) /\ UNCHANGED left
    BY <1>6 DEF ConnectWallet
  <2>2. Next /\ UNCHANGED <<World, storage>>
    BY <2>1 DEF Next, AccountsChanged
  <2>3. OnScreenInv'
    BY <1>1, <2>2, OnScreenActs
  <2>4. account' \in Wallets \cup {NoWallet}
    BY <2>3 DEF OnScreenInv, PageInv
  <2> QED BY <1>1, <2>1, <2>2, <2>3, <2>4, Unmoved, LeftBeside
<1>7. CASE Browse \/ (\E c \in Campaigns : ReadArrives(c) \/ ReadFails(c))
  BY <1>2, <1>7 DEF Browse, ReadArrives, ReadFails
<1>8. CASE UNCHANGED shellVars
  BY <1>2, <1>8 DEF shellVars
<1> QED BY <1>3, <1>4, <1>5, <1>6, <1>7, <1>8, OnScreenInvs, OffScreenInvs DEF ShellNext

-----------------------------------------------------------------------------
(* The payment on view.                                                    *)

LEMMA NewViewOK == ASSUME view' = NewView PROVE ViewOK'
BY DEF ViewOK, NewView

LEMMA OpensView ==
    ASSUME ViewOK, route # "live", route' = "live", Opens,
           storage.campaign \in Campaigns \cup {NoCampaign}
    PROVE  /\ ViewOK'
           /\ view'.shown = view.shown
<1>1. PICK c : c = storage.campaign
  OBVIOUS
<1>2. view' = [view EXCEPT !.saved = c, !.reading = @ \cup ({c} \ {NoCampaign}),
                           !.loaded = @ \/ c = NoCampaign]
  BY <1>1 DEF Opens
<1>3. /\ view'.saved = c /\ view'.reading = {c} \ {NoCampaign} /\ view'.shown = view.shown
      /\ view'.loaded \in BOOLEAN
  BY <1>2 DEF ViewOK
<1>4. view' \in [shown : Campaigns \cup {NoCampaign}, loaded : BOOLEAN,
                 reading : SUBSET Campaigns, saved : Campaigns \cup {NoCampaign}]
  BY <1>1, <1>2, <1>3 DEF ViewOK
<1> QED BY <1>3, <1>4 DEF ViewOK

LEMMA ReadView ==
    ASSUME ViewOK, NEW c \in Campaigns, ReadArrives(c) \/ ReadFails(c)
    PROVE  ViewOK' /\ view'.shown \in {view.shown, view.saved}
<1>1. c = view.saved /\ UNCHANGED route
  BY DEF ViewOK, ReadArrives, ReadFails
<1>2. /\ view'.shown \in {view.shown, c} /\ view'.saved = view.saved
      /\ view'.reading = view.reading \ {c} /\ view'.loaded = TRUE
  BY DEF ViewOK, ReadArrives, ReadFails
<1>3. view' \in [shown : Campaigns \cup {NoCampaign}, loaded : BOOLEAN,
                 reading : SUBSET Campaigns, saved : Campaigns \cup {NoCampaign}]
  BY DEF ViewOK, ReadArrives, ReadFails
<1> QED BY <1>1, <1>2, <1>3 DEF ViewOK

\* No step shows another payment than before, or than the one saved when the page opened.
LEMMA ViewStep ==
    ASSUME ShellInv, [ShellNext]_shellVars
    PROVE  ViewOK' /\ (view' = NewView \/ view'.shown \in {view.shown, view.saved})
<1>1. ViewOK /\ storage.campaign \in Campaigns \cup {NoCampaign}
  BY DEF ShellInv, OnScreenInv, PageInv, GoodStorage, Storage
<1>2. CASE UNCHANGED <<view, route>>
  BY <1>1, <1>2 DEF ViewOK
<1>3. CASE view' = NewView
  BY <1>3, NewViewOK
<1>4. CASE route # "live" /\ route' = "live" /\ Opens
  BY <1>1, <1>4, OpensView
<1>5. CASE ComeBack
  <2>1. view' = [view EXCEPT !.reading = {}, !.saved = NoCampaign]
    BY <1>5 DEF ComeBack, Closes
  <2> QED BY <1>1, <2>1 DEF ViewOK
<1>6. CASE \E c \in Campaigns : ReadArrives(c) \/ ReadFails(c)
  BY <1>1, <1>6, ReadView
<1>7. CASE LeavePay \/ Browse
  BY <1>3, <1>4, <1>7 DEF LeavePay, Browse, Shows
<1>8. CASE OnScreen \/ OffScreen \/ ConnectWallet \/ UNCHANGED shellVars
  BY <1>2, <1>8 DEF OnScreen, OffScreen, ConnectWallet, shellVars
<1>9. CASE LoadPay \/ DisconnectWallet
  BY <1>3, <1>9 DEF LoadPay, DisconnectWallet, LoadDocument
<1> QED BY <1>5, <1>6, <1>7, <1>8, <1>9 DEF ShellNext

LEMMA ShellInvariant == ShellSpec => []ShellInv
<1>1. ShellInv /\ [ShellNext]_shellVars => ShellInv'
  BY ShellInvs, ViewStep DEF ShellInv
<1> QED BY InitShell, <1>1, PTL DEF ShellSpec

-----------------------------------------------------------------------------
(* Theorems.                                                               *)

\* However the user goes through the pages while handlers run, both pages, the world
\* and localStorage stay well-formed.
THEOREM ShellTyped == ShellSpec => [](TypeOK /\ LeftProofs!TypeOK)
<1>1. ShellInv => TypeOK /\ LeftProofs!TypeOK
  BY InvTypes, AssumptionsOfLeft, LeftProofs!InvTypes DEF ShellInv, OnScreenInv, LeftInv
<1> QED BY <1>1, ShellInvariant, PTL

\* A late answer never replaces the payment a live page is about.
THEOREM LateReadsCorrect == ShellSpec => LateReadsIgnored
<1> DEFINE A == Displayed' \in Campaigns => Displayed' \in {view.shown, view.saved}
<1>1. ShellInv /\ [ShellNext]_shellVars => [A]_shellVars
  <2> SUFFICES ASSUME ShellInv, [ShellNext]_shellVars, Displayed' \in Campaigns
               PROVE  Displayed' \in {view.shown, view.saved}
    OBVIOUS
  <2>1. Displayed' \notin Words
    BY WordsAssumption
  <2>2. Displayed' = view'.shown /\ view'.loaded
    BY <2>1 DEF Displayed, Words
  <2>3. view' # NewView
    BY <2>2 DEF NewView
  <2> QED BY <2>2, <2>3, ViewStep
<1> QED BY <1>1, ShellInvariant, PTL DEF ShellSpec, LateReadsIgnored

\* A step of the page that was left is seen by its handlers or its reads.
LEMMA LeftMoves ==
    ASSUME ShellInv, OffScreen
    PROVE  ~UNCHANGED left
<1>1. CASE \E k \in Slots \cup {AutoSlot} : Left!TaskStep(k)
  <2>1. \E k \in Slots \cup {LeftProofs!AutoSlot} : LeftProofs!TaskStep(k)
    BY <1>1, HandlersOfLeft DEF AutoSlot, LeftProofs!AutoSlot
  <2>2. leftTasks' # leftTasks
    BY <2>1, AssumptionsOfLeft, LeftProofs!TaskStepMoves DEF ShellInv, LeftInv
  <2> QED BY <2>2 DEF left
<1>2. CASE \E c \in Campaigns : Left!RefreshSucceeds(c) \/ Left!RefreshFails(c)
  BY <1>2 DEF Left!RefreshSucceeds, Left!RefreshFails, left
<1> QED BY <1>1, <1>2 DEF OffScreen

LEMMA MountsMirrors == ASSUME Mounts, UNCHANGED storage PROVE StorageMirrorsPage'
BY DEF Mounts, EmptyPage, StorageMirrorsPage

\* Page and localStorage part by a step of the page that was left, and by nothing else.
THEOREM PartingCorrect == ShellSpec => OnlyLeftParts
<1> DEFINE A == /\ route = "pay" /\ route' = "pay" /\ StorageMirrorsPage /\ UNCHANGED left
                => StorageMirrorsPage'
<1>1. ShellInv /\ [ShellNext]_shellVars => [A]_shellVars
  <2> SUFFICES ASSUME ShellInv, ShellNext, route = "pay", route' = "pay", StorageMirrorsPage,
                      UNCHANGED left
               PROVE  StorageMirrorsPage'
    OBVIOUS
  <2>1. PageInv
    BY DEF ShellInv, OnScreenInv
  <2>2. CASE OnScreen \/ ConnectWallet
    <3>1. Next
      BY <2>2 DEF OnScreen, ConnectWallet, Next
    <3> QED BY <2>1, <3>1, NextMirrors
  <2>3. CASE OffScreen
    BY <2>3, LeftMoves
  <2>4. CASE LoadPay \/ DisconnectWallet
    BY <2>4, MountsMirrors DEF LoadPay, DisconnectWallet, LoadDocument
  <2>5. CASE LeavePay \/ Browse \/ ComeBack
    BY <2>5 DEF LeavePay, Browse, ComeBack, Shows
  <2>6. CASE \E c \in Campaigns : ReadArrives(c) \/ ReadFails(c)
    BY <2>6 DEF ReadArrives, ReadFails, vars, StorageMirrorsPage
  <2> QED BY <2>2, <2>3, <2>4, <2>5, <2>6 DEF ShellNext
<1> QED BY <1>1, ShellInvariant, PTL DEF ShellSpec, OnlyLeftParts

\* A handler that goes on after its page was left still gives no stranger an allowance.
THEOREM ShellApprovalCorrect == ShellSpec => []ApprovalOnlyToOwn
<1>1. ShellInv => ApprovalOnlyToOwn
  BY DEF ShellInv, OnScreenInv, ApprovalInv
<1> QED BY <1>1, ShellInvariant, PTL

\* The page that is mounted shows no handler of the page that was left as its own.
THEOREM ShellBusyCorrect == ShellSpec => []BusyHasOwner
<1>1. ShellInv => BusyHasOwner
  BY DEF ShellInv, OnScreenInv, PageInv, TasksOK, BusyInv, BusyHasOwner
<1> QED BY <1>1, ShellInvariant, PTL

\* "Payment complete" is shown for a settled order only, on every page of a visit.
THEOREM ShellCompleteCorrect == ShellSpec => CompleteMeansPaid
<1>1. ShellInv => \A k \in DOMAIN tasks :
                     At(k, "done") /\ page'.message = "paymentComplete" => OnceSettled(k)
  <2> SUFFICES ASSUME ShellInv
               PROVE  \A k \in DOMAIN tasks :
                        At(k, "done") /\ page'.message = "paymentComplete" => OnceSettled(k)
    OBVIOUS
  <2>1. PayInv /\ DOMAIN tasks = Slots \cup {AutoSlot}
    BY DEF ShellInv, OnScreenInv, PageInv, TasksOK
  <2> QED BY <2>1 DEF At, PayInv, OnceSettled, IsSettled
<1> QED BY <1>1, ShellInvariant, PTL DEF CompleteMeansPaid
=============================================================================
