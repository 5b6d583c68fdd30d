------------------------------ MODULE AppShell ------------------------------
(***************************************************************************)
(* The pages under /app in the layout that navigates between them: the     *)
(* payment page, the pages that show the latest payment, and the wallet    *)
(* button.                                                                 *)
(*                                                                         *)
(* Following a link does not load a document.  The payment page is         *)
(* unmounted with its state; its handlers run on, and what they write to   *)
(* localStorage and sign counts.  Coming back mounts a new page from       *)
(* localStorage.  So there are two instances of PaymentPage, the one on    *)
(* screen and the one that was left, with one chain, wallet and storage.   *)
(*                                                                         *)
(* The receipt, inspector and activity pages are one route, "live": the    *)
(* payment on view is not read again between them.  Everything outside     *)
(* /app is one route, "away".                                              *)
(***************************************************************************)
EXTENDS PaymentPage

VARIABLES
    route,          \* "pay", "live" or "away"
    leftPage,       \* the page that was left, which nobody sees ...
    leftRefreshing, \* ... its reads ...
    leftTasks,      \* ... and its handlers
    view            \* the state of LivePaymentRoute

\* Addresses are not the words the live pages show without one.
Words == {"loading", "no payment is saved"}

ASSUME WordsAssumption == Words \cap Campaigns = {}

left == <<leftPage, leftRefreshing, leftTasks>>
shellVars == <<vars, route, left, view>>

Left == INSTANCE PaymentPage
    WITH page <- leftPage, refreshing <- leftRefreshing, tasks <- leftTasks

NoTasks == [k \in Slots \cup {AutoSlot} |-> Idle]

\* The payment of the last read, whether there was a read, the reads of this visit,
\* and what localStorage held when it began.
NewView == [shown |-> NoCampaign, loaded |-> FALSE, reading |-> {}, saved |-> NoCampaign]

ShellInit ==
    /\ Init
    /\ route = "pay"
    /\ leftPage = EmptyPage /\ leftRefreshing = {} /\ leftTasks = NoTasks
    /\ view = NewView

-----------------------------------------------------------------------------
(* A slip, as in PaymentPage: leaving the pages with the latest payment    *)
(* without the cleanup of the effect.                                      *)

Closes_Reading == UNCHANGED view

-----------------------------------------------------------------------------
(* The two instances.                                                      *)

\* What happens outside the browser, and to the page on screen.
OnScreen ==
    /\ \/ \E i \in DOMAIN txs : Mine(i) \/ Revert(i)
       \/ \E i \in DOMAIN checks : Answer(i) \/ Expire(i) \/ SettledByOther(i)
       \/ \E k \in Slots : route = "pay" /\ Click(k)
       \/ \E k \in Slots \cup {AutoSlot} : TaskStep(k)
       \/ \E c \in Campaigns : RefreshSucceeds(c) \/ RefreshFails(c)
       \/ \E w \in Exposed : AccountsChanged(w)
       \/ \E o \in Orders : route = "pay" /\ HandleReferenceChange(o)
       \/ route = "pay" /\ (StartNextOrder \/ StartOver)
    /\ UNCHANGED <<route, left, view>>

\* The page that was left goes on with what it was doing.
OffScreen ==
    /\ \/ \E k \in Slots \cup {AutoSlot} : Left!TaskStep(k)
       \/ \E c \in Campaigns : Left!RefreshSucceeds(c) \/ Left!RefreshFails(c)
    /\ UNCHANGED <<page, refreshing, tasks, route, view>>

-----------------------------------------------------------------------------
(* Navigation.                                                             *)

\* The effect of LivePaymentRoute when one of its pages opens: without a saved
\* payment nothing is read, and what an earlier visit has shown stays.
Opens ==
    view' = [view EXCEPT !.saved = storage.campaign,
                         !.reading = @ \cup ({storage.campaign} \ {NoCampaign}),
                         !.loaded = @ \/ storage.campaign = NoCampaign]

\* What a live page is about; the figures on it are those of that payment.
Displayed ==
    IF ~view.loaded THEN "loading"
    ELSE IF view.shown = NoCampaign THEN "no payment is saved"
    ELSE view.shown

\* The cleanup of the effect: an answer that comes later is ignored.
Closes == view' = [view EXCEPT !.reading = {}, !.saved = NoCampaign]

\* Outside /app there is no layout, and no state of it.
Shows(r) ==
    /\ route' = r
    /\ \/ r = "live" /\ Opens
       \/ r = "away" /\ view' = NewView

\* Bound: the page that was left before has nothing to do any more.
LeavePay ==
    /\ route = "pay"
    /\ leftTasks = NoTasks /\ leftRefreshing = {}
    /\ leftPage' = EmptyPage /\ leftRefreshing' = refreshing /\ leftTasks' = tasks
    /\ page' = EmptyPage /\ refreshing' = {} /\ tasks' = NoTasks
    /\ \E r \in {"live", "away"} : Shows(r)
    /\ UNCHANGED <<World, account, storage>>

Browse ==
    /\ route # "pay"
    /\ \E r \in {"live", "away"} \ {route} : Shows(r)
    /\ UNCHANGED <<vars, left>>

\* The new page reads localStorage like one that was loaded.
ComeBack ==
    /\ route # "pay"
    /\ route' = "pay"
    /\ Mounts
    /\ Closes
    /\ UNCHANGED <<World, account, storage, left>>

ReadArrives(c) ==
    /\ c \in view.reading
    /\ view' = [view EXCEPT !.shown = c, !.loaded = TRUE, !.reading = @ \ {c}]
    /\ UNCHANGED <<vars, route, left>>

\* What was shown before is shown on.
ReadFails(c) ==
    /\ c \in view.reading
    /\ view' = [view EXCEPT !.loaded = TRUE, !.reading = @ \ {c}]
    /\ UNCHANGED <<vars, route, left>>

-----------------------------------------------------------------------------
(* The document is loaded again, and the wallet button.                    *)

\* On any page; only the payment page has more to do than to read.
LoadDocument ==
    /\ route = "pay" /\ UNCHANGED route
    /\ Mounts
    /\ leftPage' = EmptyPage /\ leftRefreshing' = {} /\ leftTasks' = NoTasks
    /\ view' = NewView
    /\ UNCHANGED <<World, storage>>

LoadPay == LoadDocument /\ UNCHANGED account

\* The button asks the wallet for its accounts; the page hears of it.
ConnectWallet ==
    /\ account = NoWallet
    /\ \E w \in Exposed \ {NoWallet} : AccountsChanged(w)
    /\ UNCHANGED <<route, left, view>>

\* Not every wallet can take the permission back; the document is loaded anew all
\* the same.
DisconnectWallet ==
    /\ account # NoWallet
    /\ account' \in {account, NoWallet} \cap Exposed
    /\ LoadDocument

ShellNext ==
    \/ OnScreen \/ OffScreen
    \/ LeavePay \/ Browse \/ ComeBack
    \/ \E c \in Campaigns : ReadArrives(c) \/ ReadFails(c)
    \/ LoadPay \/ ConnectWallet \/ DisconnectWallet

ShellSpec == ShellInit /\ [][ShellNext]_shellVars

-----------------------------------------------------------------------------
(* Safety.                                                                 *)

\* Page and localStorage part through the page that was left only: nothing done on
\* the page, on other pages, with the wallet or by loading the document again makes
\* the next page find another payment or check than this one has.
OnlyLeftParts ==
    [][route = "pay" /\ route' = "pay" /\ StorageMirrorsPage /\ UNCHANGED left
          => StorageMirrorsPage']_shellVars

\* The "Current payment" of the live pages is never replaced by a late answer to an
\* earlier visit, when another payment was the current one.
LateReadsIgnored ==
    [][Displayed' \in Campaigns => Displayed' \in {view.shown, view.saved}]_shellVars

-----------------------------------------------------------------------------
(* What the page's words promise.                                          *)

\* "You can leave this page and come back without submitting it again": while the
\* page is left, the check it waits for is not forgotten.
AwayKeepsCheck ==
    [][route # "pay" /\ storage.pending # NoCheck => storage'.pending # NoCheck]_shellVars
=============================================================================
