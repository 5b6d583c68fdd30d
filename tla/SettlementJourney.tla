------------------------- MODULE SettlementJourney -------------------------
(***************************************************************************)
(* The demo at /app/demo (SettlementJourney): create a campaign for mock   *)
(* tokens, mint and fund, and have a record evaluated.                     *)
(*                                                                         *)
(* The demo never gets past the evaluation.  An answer without a "proof"   *)
(* beside its result is refused, and from one with a proof the amounts     *)
(* cannot be read: they are in the ABI data of the action result, which    *)
(* this page does not decode, so that BigInt(undefined) throws.  What      *)
(* comes after it, settling and settling again, has no state to start      *)
(* from and is left out.                                                   *)
(*                                                                         *)
(* A running handler is a task that goes from await to await; it belongs   *)
(* to the visit it was clicked in.  Following a link away from the page    *)
(* does not load a document: handlers and reads of that visit run on, and  *)
(* what they write to localStorage counts, but what they set on a page     *)
(* that is gone is lost.  The chain is there as what an await returns: the *)
(* receipt, with the address of a new campaign in it, or an error.         *)
(*                                                                         *)
(* Which account is connected matters to the chain alone.  The form and    *)
(* the record reference, which only refuse a click, messages, links and    *)
(* balances on display are left out.                                       *)
(***************************************************************************)
EXTENDS Integers

CONSTANTS
    Campaigns,   \* addresses the factory may deploy a settlement at
    Saved,       \* the campaign of an earlier session, or NoCampaign
    Slots,       \* how many handlers may run
    Polls,       \* times the route is asked for a result
    MaxVisits,   \* bound: visits between two loads of the document
    NoCampaign

ASSUME JourneyAssumption ==
    /\ NoCampaign \notin Campaigns
    /\ Saved \in Campaigns \cup {NoCampaign}
    /\ Polls \in Nat \ {0} /\ MaxVisits \in Nat \ {0}

VARIABLES
    created,    \* the campaigns that exist
    connected,  \* does the page know the wallet's account
    saved,      \* localStorage: jorqeth.campaign
    visit,      \* the number of the visit
    page,       \* the state of the component on screen
    refreshing, \* the calls of refreshCampaign that run on their own
    tasks       \* the running handlers

vars == <<created, connected, saved, visit, page, refreshing, tasks>>

Ops == {"connect", "create", "fund", "evaluate"}

Page == [campaign : Campaigns \cup {NoCampaign}, busy : Ops \cup {"none"}]

Idle == [op |-> "none"]

\* `tx` is the transaction a handler has signed at its wallet or waits for; `connected`
\* is what its closure captured.
Task == [op : Ops, at : {"dialog", "wallet", "mining", "refresh", "terms", "poll"},
         tx : {"none", "create", "mint", "approve", "fund", "evaluate"},
         connected : BOOLEAN, polls : 1 .. Polls, visit : 1 .. MaxVisits]

JourneyTypeOK ==
    /\ created \subseteq Campaigns
    /\ connected \in BOOLEAN
    /\ saved \in Campaigns \cup {NoCampaign}
    /\ visit \in 1 .. MaxVisits
    /\ page \in Page
    /\ refreshing \subseteq [campaign : Campaigns, visit : 1 .. MaxVisits]
    /\ DOMAIN tasks = Slots
    /\ \A k \in Slots : tasks[k] = Idle \/ tasks[k] \in Task

EmptyPage == [campaign |-> NoCampaign, busy |-> "none"]

\* The effect that follows `campaign` reads every campaign once when it appears.
Reads(c, v) == {[campaign |-> d, visit |-> v] : d \in {c} \ {NoCampaign}}

Init ==
    /\ created = {Saved} \ {NoCampaign}
    /\ connected = FALSE
    /\ saved = Saved
    /\ visit = 1
    /\ page = [EmptyPage EXCEPT !.campaign = Saved]
    /\ refreshing = Reads(Saved, 1)
    /\ tasks = [k \in Slots |-> Idle]

-----------------------------------------------------------------------------
(* Tasks.                                                                  *)

\* The setters of a component that is gone do nothing.
Sets(v, p) == page' = IF v = visit THEN p ELSE page

\* A handler starts with the values of the render it was clicked in.
Starts(k, op, at, tx) ==
    /\ tasks[k] = Idle
    /\ tasks' = [tasks EXCEPT ![k] =
         [op |-> op, at |-> at, tx |-> tx, connected |-> connected, polls |-> Polls,
          visit |-> visit]]
    /\ page' = [page EXCEPT !.busy = op]
    /\ UNCHANGED <<created, connected, saved, visit, refreshing>>

\* All buttons but the one that connects a wallet wait for `busy`.
Ready == page.busy = "none"

At(k, op, at) == tasks[k].op = op /\ tasks[k].at = at

GoesOn(k, at, tx) ==
    /\ tasks' = [tasks EXCEPT ![k].at = at, ![k].tx = tx]
    /\ UNCHANGED <<created, connected, saved, visit, page, refreshing>>

Ends(k) == tasks' = [tasks EXCEPT ![k] = Idle]

\* The wallet signs for the account of the click; without one nothing can be sent.
Sign(k) ==
    /\ tasks[k].op # "none" /\ tasks[k].at = "wallet" /\ tasks[k].connected
    /\ GoesOn(k, "mining", tasks[k].tx)

\* Slip, see below.
Fail_KeepsBusy(k) ==
    /\ tasks[k].op # "none" /\ tasks[k].at # "refresh"
    /\ Ends(k)
    /\ UNCHANGED <<created, connected, saved, visit, page, refreshing>>

\* Every await may throw, a receipt of a transaction that reverted too; only
\* refreshCampaign catches its errors itself.
Fail(k) ==
    /\ tasks[k].op # "none" /\ tasks[k].at # "refresh"
    /\ Sets(tasks[k].visit, [page EXCEPT !.busy = "none"])
    /\ Ends(k)
    /\ UNCHANGED <<created, connected, saved, visit, refreshing>>

\* Slip, see below.
Refreshed_PageOnly(v, busy) ==
    /\ \E c \in {page.campaign, NoCampaign} :
         Sets(v, [page EXCEPT !.campaign = c, !.busy = busy])
    /\ UNCHANGED saved

\* A read that fails makes page and localStorage forget their campaign, whichever it
\* is by now.
Refreshed(v, busy) ==
    \/ /\ Sets(v, [page EXCEPT !.busy = busy])
       /\ UNCHANGED saved
    \/ /\ Sets(v, [page EXCEPT !.campaign = NoCampaign, !.busy = busy])
       /\ saved' = NoCampaign

-----------------------------------------------------------------------------
(* Slips, here and above: forms that Fail, Refreshed, PollAgain and        *)
(* RefuseAnswer might have had.  Each of them breaks a property below.     *)

PollAgain_NoLimit(k) ==
    /\ At(k, "evaluate", "poll")
    /\ tasks' = [tasks EXCEPT ![k].polls = @ - 1]
    /\ UNCHANGED <<created, connected, saved, visit, page, refreshing>>

RefuseAnswer_AsksAnew(k) ==
    /\ At(k, "evaluate", "poll")
    /\ tasks' = [tasks EXCEPT ![k].polls = Polls]
    /\ UNCHANGED <<created, connected, saved, visit, page, refreshing>>

-----------------------------------------------------------------------------
(* Handlers.                                                               *)

ConnectWallet(k) ==
    /\ ~connected /\ page.busy # "connect"
    /\ Starts(k, "connect", "dialog", "none")

Connected(k) ==
    /\ At(k, "connect", "dialog")
    /\ connected' = (connected \/ tasks[k].visit = visit)
    /\ Sets(tasks[k].visit, [page EXCEPT !.busy = "none"])
    /\ Ends(k)
    /\ UNCHANGED <<created, saved, visit, refreshing>>

CreateCampaign(k) ==
    /\ Ready /\ connected /\ page.campaign = NoCampaign
    /\ Starts(k, "create", "wallet", "create")

\* The page shows the new campaign and reads it, and localStorage keeps it.
Created(k) ==
    /\ At(k, "create", "mining")
    /\ \E c \in Campaigns \ created :
         /\ created' = created \cup {c}
         /\ Sets(tasks[k].visit, [page EXCEPT !.campaign = c, !.busy = "none"])
         /\ saved' = c
         /\ refreshing' = IF tasks[k].visit = visit THEN refreshing \cup Reads(c, visit)
                                                    ELSE refreshing
    /\ Ends(k)
    /\ UNCHANGED <<connected, visit>>

\* Three transactions, one after the other, and then the figures are read.
FundCampaign(k) ==
    /\ Ready /\ connected /\ page.campaign # NoCampaign
    /\ Starts(k, "fund", "wallet", "mint")

FundingGoesOn(k, tx, next) ==
    /\ At(k, "fund", "mining") /\ tasks[k].tx = tx
    /\ GoesOn(k, "wallet", next)

FundingMined(k) ==
    /\ At(k, "fund", "mining") /\ tasks[k].tx = "fund"
    /\ GoesOn(k, "refresh", "none")

Funded(k) ==
    /\ At(k, "fund", "refresh")
    /\ Refreshed(tasks[k].visit, "none")
    /\ Ends(k)
    /\ UNCHANGED <<created, connected, visit, refreshing>>

RefreshCampaign(r) ==
    /\ Refreshed(r.visit, page.busy)
    /\ refreshing' = refreshing \ {r}
    /\ UNCHANGED <<created, connected, visit, tasks>>

EvaluateRecord(k) ==
    /\ Ready /\ page.campaign # NoCampaign
    /\ Starts(k, "evaluate", "terms", "none")

ReadTerms(k) ==
    /\ At(k, "evaluate", "terms")
    /\ GoesOn(k, "wallet", "evaluate")

Registered(k) ==
    /\ At(k, "evaluate", "mining")
    /\ GoesOn(k, "poll", "none")

\* The route says "pending".  After the last time the handler gives up, which is
\* a case of Fail.
PollAgain(k) ==
    /\ At(k, "evaluate", "poll") /\ tasks[k].polls > 1
    /\ tasks' = [tasks EXCEPT ![k].polls = @ - 1]
    /\ UNCHANGED <<created, connected, saved, visit, page, refreshing>>

\* Any answer: without a proof pollFceResult throws, with one verifyFceResult does.
RefuseAnswer(k) ==
    /\ At(k, "evaluate", "poll")
    /\ Sets(tasks[k].visit, [page EXCEPT !.busy = "none"])
    /\ Ends(k)
    /\ UNCHANGED <<created, connected, saved, visit, refreshing>>

-----------------------------------------------------------------------------
(* What happens beside the handlers.                                       *)

AccountsChanged ==
    /\ connected' \in BOOLEAN
    /\ UNCHANGED <<created, saved, visit, page, refreshing, tasks>>

\* "Start a new campaign" waits for no handler and leaves `busy` alone.
ResetCampaign ==
    /\ page.campaign # NoCampaign
    /\ page' = [page EXCEPT !.campaign = NoCampaign]
    /\ saved' = NoCampaign
    /\ UNCHANGED <<created, connected, visit, refreshing, tasks>>

\* A page takes the campaign from localStorage; the wallet has to be connected again.
Mounts ==
    /\ page' = [EmptyPage EXCEPT !.campaign = saved]
    /\ connected' = FALSE

Reload ==
    /\ Mounts
    /\ visit' = 1
    /\ refreshing' = Reads(saved, 1)
    /\ tasks' = [k \in Slots |-> Idle]
    /\ UNCHANGED <<created, saved>>

\* The user follows a link and comes back.  What handlers and reads do in between
\* they might as well have done before: with the page on screen nothing else changes
\* for localStorage, and what the page shows is lost anyway.
Revisit ==
    /\ visit < MaxVisits
    /\ Mounts
    /\ visit' = visit + 1
    /\ refreshing' = refreshing \cup Reads(saved, visit + 1)
    /\ UNCHANGED <<created, saved, tasks>>

Click(k) ==
    ConnectWallet(k) \/ CreateCampaign(k) \/ FundCampaign(k) \/ EvaluateRecord(k)

TaskStep(k) ==
    \/ Sign(k) \/ Fail(k) \/ Connected(k) \/ Created(k)
    \/ FundingGoesOn(k, "mint", "approve") \/ FundingGoesOn(k, "approve", "fund")
    \/ FundingMined(k) \/ Funded(k)
    \/ ReadTerms(k) \/ Registered(k) \/ PollAgain(k) \/ RefuseAnswer(k)

Next ==
    \/ \E k \in Slots : Click(k) \/ TaskStep(k)
    \/ \E r \in refreshing : RefreshCampaign(r)
    \/ AccountsChanged \/ ResetCampaign \/ Reload \/ Revisit

Spec == Init /\ [][Next]_vars

-----------------------------------------------------------------------------
(* Safety.                                                                 *)

\* All handlers share one `busy`, and the button that connects a wallet takes it from
\* the others.  Whatever the page says it is doing, a handler of this visit is doing:
\* no spinner outlives its handler, over errors, resets and visits.
BusyHasHandler ==
    page.busy # "none" =>
        \E k \in Slots : tasks[k] # Idle /\ tasks[k].visit = visit /\ tasks[k].op = page.busy

\* A handler or a read of an earlier visit has come to its end in this step.
LeftOneEnds ==
    \/ \E k \in Slots : tasks[k] # Idle /\ tasks[k].visit # visit /\ tasks'[k] = Idle
    \/ \E r \in refreshing : r.visit # visit /\ r \notin refreshing'

\* The campaign on the page is the one the next visit or session finds in localStorage:
\* a campaign that is created, reset or forgotten after a failed read changes both.
\* They part only through what an earlier visit left running.
OnlyEarlierVisitsPart ==
    [][page.campaign = saved /\ page'.campaign # saved' => LeftOneEnds]_vars

-----------------------------------------------------------------------------
(* Progress.                                                               *)

\* Awaits return or fail; wallet dialogs are closed in the end.
FairSpec == Spec /\ \A k \in Slots : WF_vars(TaskStep(k))

\* The buttons come back, although connecting a wallet takes the `busy` of others.
BusyEnds == page.busy # "none" ~> page.busy = "none"

=============================================================================
