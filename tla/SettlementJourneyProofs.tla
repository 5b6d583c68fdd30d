---------------------- MODULE SettlementJourneyProofs ----------------------
(***************************************************************************)
(* What holds of SettlementJourney for every number of campaigns,          *)
(* handlers, polls and visits.                                             *)
(*                                                                         *)
(* Types carry the rest.  BusyHasHandler is inductive beside them: a click *)
(* makes its own handler the owner of the spinner, a handler that ends in  *)
(* the visit on screen clears it whoever owns it, and one that ends in     *)
(* another visit touches neither the spinner nor its owner.                *)
(***************************************************************************)
EXTENDS SettlementJourney, TLAPS

-----------------------------------------------------------------------------
(* Types.                                                                  *)

\* What changes on the page of a visit leaves a page.
LEMMA SetsTypes ==
    ASSUME JourneyTypeOK, NEW v, NEW p \in Page, Sets(v, p)
    PROVE  page' \in Page
BY DEF JourneyTypeOK, Sets

LEMMA PageTypes ==
    ASSUME JourneyTypeOK, NEW b \in Ops \cup {"none"}, NEW c \in Campaigns \cup {NoCampaign}
    PROVE  /\ [page EXCEPT !.busy = b] \in Page
           /\ [page EXCEPT !.campaign = c] \in Page
           /\ [page EXCEPT !.campaign = c, !.busy = b] \in Page
BY DEF JourneyTypeOK, Page

\* A handler becomes another one, or ends.
LEMMA TasksTypes ==
    ASSUME JourneyTypeOK, NEW k \in Slots, NEW t, t = Idle \/ t \in Task,
           tasks' = [tasks EXCEPT ![k] = t]
    PROVE  /\ DOMAIN tasks' = Slots
           /\ \A j \in Slots : tasks'[j] = Idle \/ tasks'[j] \in Task
           /\ tasks'[k] = t
           /\ \A j \in Slots \ {k} : tasks'[j] = tasks[j]
BY DEF JourneyTypeOK

LEMMA ReadsTypes ==
    ASSUME NEW c \in Campaigns \cup {NoCampaign}, NEW v \in 1 .. MaxVisits
    PROVE  Reads(c, v) \subseteq [campaign : Campaigns, visit : 1 .. MaxVisits]
BY DEF Reads

LEMMA InitTypes == Init => JourneyTypeOK
<1> SUFFICES ASSUME Init PROVE JourneyTypeOK
  OBVIOUS
<1>1. page \in Page
  BY JourneyAssumption DEF Init, EmptyPage, Page
<1>2. 1 \in 1 .. MaxVisits
  BY JourneyAssumption
<1>3. refreshing \subseteq [campaign : Campaigns, visit : 1 .. MaxVisits]
  BY <1>2, ReadsTypes, JourneyAssumption DEF Init
<1> QED BY <1>1, <1>2, <1>3, JourneyAssumption DEF Init, JourneyTypeOK

\* A handler that goes on has the fields of a task still.
LEMMA TaskChanges ==
    ASSUME NEW t \in Task, NEW a \in {"dialog", "wallet", "mining", "refresh", "terms", "poll"},
           NEW x \in {"none", "create", "mint", "approve", "fund", "evaluate"},
           NEW n \in 1 .. Polls
    PROVE  /\ [t EXCEPT !.at = a, !.tx = x] \in Task
           /\ [t EXCEPT !.polls = n] \in Task
BY DEF Task

LEMMA ClickTypes ==
    ASSUME JourneyTypeOK, NEW k \in Slots, Click(k)
    PROVE  JourneyTypeOK'
<1>1. PICK op \in Ops, at \in {"dialog", "wallet", "terms"}, tx \in {"none", "create", "mint"} :
        Starts(k, op, at, tx)
  BY DEF Click, ConnectWallet, CreateCampaign, FundCampaign, EvaluateRecord, Ops
<1>2. [op |-> op, at |-> at, tx |-> tx, connected |-> connected, polls |-> Polls,
       visit |-> visit] \in Task
  BY JourneyAssumption DEF JourneyTypeOK, Task
<1>3. page' \in Page
  BY <1>1, PageTypes DEF Starts
<1>4. DOMAIN tasks' = Slots /\ \A j \in Slots : tasks'[j] = Idle \/ tasks'[j] \in Task
  BY <1>1, <1>2, TasksTypes DEF Starts
<1> QED BY <1>1, <1>3, <1>4 DEF Starts, JourneyTypeOK

\* Every step of a handler, in the cases that differ in what they write.
LEMMA TaskStepCases ==
    ASSUME NEW k \in Slots, TaskStep(k)
    PROVE  \/ /\ tasks[k].op # "none"
              /\ \E at \in {"wallet", "mining", "refresh", "poll"} :
                 \E tx \in {"none", "approve", "fund", "evaluate", tasks[k].tx} : GoesOn(k, at, tx)
           \/ PollAgain(k)
           \/ Fail(k) \/ RefuseAnswer(k)
           \/ Connected(k)
           \/ Created(k)
           \/ Funded(k)
BY DEF TaskStep, Sign, FundingGoesOn, FundingMined, ReadTerms, Registered, At

LEMMA TaskStepTypes ==
    ASSUME JourneyTypeOK, NEW k \in Slots, TaskStep(k)
    PROVE  JourneyTypeOK'
<1> USE DEF Ops
<1>0. Idle.op = "none"
  BY DEF Idle
<1>1. CASE /\ tasks[k].op # "none"
           /\ \E at \in {"wallet", "mining", "refresh", "poll"} :
              \E tx \in {"none", "approve", "fund", "evaluate", tasks[k].tx} : GoesOn(k, at, tx)
  <2>1. tasks[k] \in Task
    BY <1>0, <1>1 DEF JourneyTypeOK
  <2>2. PICK at \in {"wallet", "mining", "refresh", "poll"},
             tx \in {"none", "approve", "fund", "evaluate", tasks[k].tx} : GoesOn(k, at, tx)
    BY <1>1
  <2>3. tasks[k].tx \in {"none", "create", "mint", "approve", "fund", "evaluate"}
        /\ tasks[k].polls \in 1 .. Polls
    BY <2>1 DEF Task
  <2>4. [tasks[k] EXCEPT !.at = at, !.tx = tx] \in Task
    BY <2>1, <2>3, TaskChanges
  <2>5. tasks' = [tasks EXCEPT ![k] = [tasks[k] EXCEPT !.at = at, !.tx = tx]]
    BY <2>2 DEF GoesOn
  <2>6. DOMAIN tasks' = Slots /\ \A j \in Slots : tasks'[j] = Idle \/ tasks'[j] \in Task
    BY <2>4, <2>5, TasksTypes
  <2> QED BY <2>2, <2>6 DEF GoesOn, JourneyTypeOK
<1>2. CASE PollAgain(k)
  <2>1. tasks[k] \in Task
    BY <1>0, <1>2 DEF JourneyTypeOK, PollAgain, At
  <2>2. tasks[k].polls - 1 \in 1 .. Polls
    BY <1>2, <2>1, JourneyAssumption DEF PollAgain, Task
  <2>3. [tasks[k] EXCEPT !.polls = tasks[k].polls - 1] \in Task
    BY <2>1, <2>2 DEF Task
  <2>4. tasks' = [tasks EXCEPT ![k] = [tasks[k] EXCEPT !.polls = tasks[k].polls - 1]]
    BY <1>2 DEF PollAgain
  <2>5. DOMAIN tasks' = Slots /\ \A j \in Slots : tasks'[j] = Idle \/ tasks'[j] \in Task
    BY <2>3, <2>4, TasksTypes
  <2> QED BY <1>2, <2>5 DEF PollAgain, JourneyTypeOK
<1>3. CASE Fail(k) \/ RefuseAnswer(k) \/ Connected(k) \/ Created(k) \/ Funded(k)
  <2>1. DOMAIN tasks' = Slots /\ \A j \in Slots : tasks'[j] = Idle \/ tasks'[j] \in Task
    BY <1>3, TasksTypes DEF Fail, RefuseAnswer, Connected, Created, Funded, Ends
  <2>2. CASE Fail(k) \/ RefuseAnswer(k)
    <3>1. page' \in Page
      BY <2>2, SetsTypes, PageTypes DEF Fail, RefuseAnswer
    <3> QED BY <2>1, <2>2, <3>1 DEF Fail, RefuseAnswer, JourneyTypeOK
  <2>3. CASE Connected(k)
    <3>1. page' \in Page
      BY <2>3, SetsTypes, PageTypes DEF Connected
    <3>2. connected' \in BOOLEAN
      BY <2>3 DEF Connected, JourneyTypeOK
    <3> QED BY <2>1, <2>3, <3>1, <3>2 DEF Connected, JourneyTypeOK
  <2>4. CASE Created(k)
    <3>1. PICK c \in Campaigns \ created :
            /\ created' = created \cup {c}
            /\ Sets(tasks[k].visit, [page EXCEPT !.campaign = c, !.busy = "none"])
            /\ saved' = c
            /\ refreshing' = IF tasks[k].visit = visit THEN refreshing \cup Reads(c, visit)
                                                       ELSE refreshing
      BY <2>4 DEF Created
    <3>2. page' \in Page
      BY <3>1, SetsTypes, PageTypes
    <3>3. refreshing' \subseteq [campaign : Campaigns, visit : 1 .. MaxVisits]
      BY <3>1, ReadsTypes DEF JourneyTypeOK
    <3> QED BY <2>1, <2>4, <3>1, <3>2, <3>3 DEF Created, JourneyTypeOK
  <2>5. CASE Funded(k)
    <3>1. page' \in Page
      BY <2>5, SetsTypes, PageTypes DEF Funded, Refreshed
    <3>2. saved' \in Campaigns \cup {NoCampaign}
      BY <2>5 DEF Funded, Refreshed, JourneyTypeOK
    <3> QED BY <2>1, <2>5, <3>1, <3>2 DEF Funded, JourneyTypeOK
  <2> QED BY <1>3, <2>2, <2>3, <2>4, <2>5
<1> QED BY <1>1, <1>2, <1>3, TaskStepCases

LEMMA BesideTypes ==
    ASSUME JourneyTypeOK,
           \/ \E r \in refreshing : RefreshCampaign(r)
           \/ AccountsChanged \/ ResetCampaign \/ Reload \/ Revisit
    PROVE  JourneyTypeOK'
<1>1. ASSUME NEW r \in refreshing, RefreshCampaign(r) PROVE JourneyTypeOK'
  <2>1. page.busy \in Ops \cup {"none"}
    BY DEF JourneyTypeOK, Page
  <2>2. page' \in Page
    BY <1>1, <2>1, SetsTypes, PageTypes DEF RefreshCampaign, Refreshed
  <2>3. saved' \in Campaigns \cup {NoCampaign}
    BY <1>1 DEF RefreshCampaign, Refreshed, JourneyTypeOK
  <2> QED BY <1>1, <2>2, <2>3 DEF RefreshCampaign, JourneyTypeOK
<1>2. CASE AccountsChanged
  BY <1>2 DEF AccountsChanged, JourneyTypeOK
<1>3. CASE ResetCampaign
  <2>1. page' \in Page
    BY <1>3, PageTypes DEF ResetCampaign
  <2> QED BY <1>3, <2>1 DEF ResetCampaign, JourneyTypeOK
<1>4. ASSUME Mounts PROVE page' \in Page /\ connected' \in BOOLEAN
  BY <1>4 DEF Mounts, EmptyPage, Page, JourneyTypeOK
<1>5. CASE Reload
  <2>1. 1 \in 1 .. MaxVisits
    BY JourneyAssumption
  <2>2. refreshing' \subseteq [campaign : Campaigns, visit : 1 .. MaxVisits]
    BY <1>5, <2>1, ReadsTypes DEF Reload, JourneyTypeOK
  <2> QED BY <1>4, <1>5, <2>1, <2>2 DEF Reload, JourneyTypeOK
<1>6. CASE Revisit
  <2>1. visit + 1 \in 1 .. MaxVisits
    BY <1>6, JourneyAssumption DEF Revisit, JourneyTypeOK
  <2>2. refreshing' \subseteq [campaign : Campaigns, visit : 1 .. MaxVisits]
    BY <1>6, <2>1, ReadsTypes DEF Revisit, JourneyTypeOK
  <2> QED BY <1>4, <1>6, <2>1, <2>2 DEF Revisit, JourneyTypeOK
<1> QED BY <1>1, <1>2, <1>3, <1>5, <1>6

LEMMA StepTypes == JourneyTypeOK /\ [Next]_vars => JourneyTypeOK'
<1> SUFFICES ASSUME JourneyTypeOK, [Next]_vars PROVE JourneyTypeOK'
  OBVIOUS
<1>1. CASE UNCHANGED vars
  BY <1>1 DEF vars, JourneyTypeOK
<1>2. CASE Next
  BY <1>2, ClickTypes, TaskStepTypes, BesideTypes DEF Next
<1> QED BY <1>1, <1>2

\* Types are kept, and a check asks the route no more often than it is meant to.
THEOREM TypeCorrect == Spec => []JourneyTypeOK
BY InitTypes, StepTypes, PTL DEF Spec

-----------------------------------------------------------------------------
(* Who a spinner belongs to.                                               *)

\* A step that leaves handlers and visit alone, and does not start a spinner.
LEMMA SpinnerStays ==
    ASSUME BusyHasHandler, UNCHANGED <<tasks, visit>>, page'.busy = page.busy
    PROVE  BusyHasHandler'
BY DEF BusyHasHandler

\* One handler ends: in the visit on screen with the spinner cleared, in another one
\* with the page as it was.
LEMMA SpinnerEnds ==
    ASSUME JourneyTypeOK, BusyHasHandler, NEW k \in Slots, Ends(k), UNCHANGED visit,
           tasks[k].visit = visit => page'.busy = "none",
           tasks[k].visit # visit => page' = page
    PROVE  BusyHasHandler'
<1> SUFFICES ASSUME page'.busy # "none"
             PROVE  \E j \in Slots : /\ tasks'[j] # Idle
                                     /\ tasks'[j].visit = visit' /\ tasks'[j].op = page'.busy
  BY DEF BusyHasHandler
<1>1. tasks[k].visit # visit /\ page' = page
  OBVIOUS
<1>2. PICK j \in Slots : tasks[j] # Idle /\ tasks[j].visit = visit /\ tasks[j].op = page.busy
  BY <1>1 DEF BusyHasHandler
<1>3. tasks'[j] = tasks[j]
  BY <1>1, <1>2 DEF Ends, JourneyTypeOK
<1> QED BY <1>1, <1>2, <1>3

\* One handler goes on, the same one in the same visit.
LEMMA SpinnerMoves ==
    ASSUME JourneyTypeOK, BusyHasHandler, NEW k \in Slots, NEW t,
           tasks' = [tasks EXCEPT ![k] = t],
           t # Idle, t.op = tasks[k].op, t.visit = tasks[k].visit,
           UNCHANGED <<page, visit>>
    PROVE  BusyHasHandler'
<1>1. \A j \in Slots : tasks'[j] = IF j = k THEN t ELSE tasks[j]
  BY DEF JourneyTypeOK
<1> QED BY <1>1 DEF BusyHasHandler

LEMMA ClickOwns ==
    ASSUME JourneyTypeOK, NEW k \in Slots, Click(k)
    PROVE  BusyHasHandler'
<1>1. PICK op \in Ops, at \in {"dialog", "wallet", "terms"}, tx \in {"none", "create", "mint"} :
        Starts(k, op, at, tx)
  BY DEF Click, ConnectWallet, CreateCampaign, FundCampaign, EvaluateRecord, Ops
<1>2. PICK t : t = [op |-> op, at |-> at, tx |-> tx, connected |-> connected, polls |-> Polls,
                    visit |-> visit]
  OBVIOUS
<1>3. tasks'[k] = t
  BY <1>1, <1>2 DEF Starts, JourneyTypeOK
<1>4. t.op = op /\ t.visit = visit /\ op # "none" /\ Idle.op = "none"
  BY <1>2 DEF Ops, Idle
<1>5. page'.busy = op /\ visit' = visit
  BY <1>1 DEF Starts, JourneyTypeOK, Page
<1> QED BY <1>3, <1>4, <1>5 DEF BusyHasHandler

LEMMA TaskStepOwns ==
    ASSUME JourneyTypeOK, BusyHasHandler, NEW k \in Slots, TaskStep(k)
    PROVE  BusyHasHandler'
<1>0. Idle.op = "none"
  BY DEF Idle
<1>1. CASE /\ tasks[k].op # "none"
           /\ \E at \in {"wallet", "mining", "refresh", "poll"} :
              \E tx \in {"none", "approve", "fund", "evaluate", tasks[k].tx} : GoesOn(k, at, tx)
  <2>1. PICK at \in {"wallet", "mining", "refresh", "poll"},
             tx \in {"none", "approve", "fund", "evaluate", tasks[k].tx} : GoesOn(k, at, tx)
    BY <1>1
  <2>2. tasks[k] \in Task
    BY <1>0, <1>1 DEF JourneyTypeOK
  <2>3. PICK t : t = [tasks[k] EXCEPT !.at = at, !.tx = tx]
    OBVIOUS
  <2>4. t.op = tasks[k].op /\ t.visit = tasks[k].visit
    BY <2>2, <2>3 DEF Task
  <2>5. tasks' = [tasks EXCEPT ![k] = t] /\ UNCHANGED <<page, visit>>
    BY <2>1, <2>3 DEF GoesOn
  <2> QED BY <1>0, <1>1, <2>4, <2>5, SpinnerMoves
<1>2. CASE PollAgain(k)
  <2>1. tasks[k] \in Task /\ tasks[k].op # "none"
    BY <1>0, <1>2 DEF JourneyTypeOK, PollAgain, At
  <2>2. PICK t : t = [tasks[k] EXCEPT !.polls = tasks[k].polls - 1]
    OBVIOUS
  <2>3. t.op = tasks[k].op /\ t.visit = tasks[k].visit
    BY <2>1, <2>2 DEF Task
  <2>4. tasks' = [tasks EXCEPT ![k] = t] /\ UNCHANGED <<page, visit>>
    BY <1>2, <2>2 DEF PollAgain
  <2> QED BY <1>0, <2>1, <2>3, <2>4, SpinnerMoves
<1>3. CASE Fail(k) \/ RefuseAnswer(k) \/ Connected(k) \/ Created(k) \/ Funded(k)
  <2>1. Ends(k) /\ UNCHANGED visit
    BY <1>3 DEF Fail, RefuseAnswer, Connected, Created, Funded
  <2>2. page \in Page
    BY DEF JourneyTypeOK
  <2>3. /\ tasks[k].visit = visit => page'.busy = "none"
        /\ tasks[k].visit # visit => page' = page
    <3>1. CASE Fail(k) \/ RefuseAnswer(k) \/ Connected(k)
      BY <2>2, <3>1 DEF Fail, RefuseAnswer, Connected, Sets, Page
    <3>2. CASE Created(k)
      BY <2>2, <3>2 DEF Created, Sets, Page
    <3>3. CASE Funded(k)
      BY <2>2, <3>3 DEF Funded, Refreshed, Sets, Page
    <3> QED BY <1>3, <3>1, <3>2, <3>3
  <2> QED BY <2>1, <2>3, SpinnerEnds
<1> QED BY <1>1, <1>2, <1>3, TaskStepCases

LEMMA BesideOwns ==
    ASSUME JourneyTypeOK, BusyHasHandler,
           \/ \E r \in refreshing : RefreshCampaign(r)
           \/ AccountsChanged \/ ResetCampaign \/ Reload \/ Revisit
    PROVE  BusyHasHandler'
<1>1. ASSUME NEW r \in refreshing, RefreshCampaign(r) PROVE BusyHasHandler'
  <2>1. page'.busy = page.busy
    BY <1>1 DEF RefreshCampaign, Refreshed, Sets, JourneyTypeOK, Page
  <2> QED BY <1>1, <2>1, SpinnerStays DEF RefreshCampaign
<1>2. CASE AccountsChanged
  BY <1>2, SpinnerStays DEF AccountsChanged
<1>3. CASE ResetCampaign
  <2>1. page'.busy = page.busy
    BY <1>3 DEF ResetCampaign, JourneyTypeOK, Page
  <2> QED BY <1>3, <2>1, SpinnerStays DEF ResetCampaign
<1>4. CASE Reload \/ Revisit
  <2>1. page'.busy = "none"
    BY <1>4 DEF Reload, Revisit, Mounts, EmptyPage
  <2> QED BY <2>1 DEF BusyHasHandler
<1> QED BY <1>1, <1>2, <1>3, <1>4

\* No spinner outlives its handler, whoever takes it from whom in the meantime.
THEOREM SpinnersOwned == Spec => []BusyHasHandler
<1>1. Init => BusyHasHandler
  BY DEF Init, EmptyPage, BusyHasHandler
<1>2. JourneyTypeOK /\ BusyHasHandler /\ [Next]_vars => BusyHasHandler'
  <2> SUFFICES ASSUME JourneyTypeOK, BusyHasHandler, [Next]_vars PROVE BusyHasHandler'
    OBVIOUS
  <2>1. CASE UNCHANGED vars
    BY <2>1, SpinnerStays DEF vars
  <2>2. CASE Next
    BY <2>2, ClickOwns, TaskStepOwns, BesideOwns DEF Next
  <2> QED BY <2>1, <2>2
<1> QED BY <1>1, <1>2, TypeCorrect, PTL DEF Spec

-----------------------------------------------------------------------------
(* Page and localStorage.                                                  *)

\* A handler or a read of the visit on screen writes both or neither.
LEMMA BothOrNeither ==
    ASSUME JourneyTypeOK, page.campaign = saved, NEW busy, Refreshed(visit, busy)
    PROVE  page'.campaign = saved'
BY DEF Refreshed, Sets, JourneyTypeOK, Page

LEMMA TaskStepBoth ==
    ASSUME JourneyTypeOK, page.campaign = saved, page'.campaign # saved',
           NEW k \in Slots, TaskStep(k)
    PROVE  LeftOneEnds
<1>1. CASE \/ \E at \in {"wallet", "mining", "refresh", "poll"} :
              \E tx \in {"none", "approve", "fund", "evaluate", tasks[k].tx} : GoesOn(k, at, tx)
           \/ PollAgain(k)
  BY <1>1 DEF GoesOn, PollAgain
<1>2. CASE Fail(k) \/ RefuseAnswer(k) \/ Connected(k)
  BY <1>2 DEF Fail, RefuseAnswer, Connected, Sets, JourneyTypeOK, Page
<1>3. CASE Created(k) \/ Funded(k)
  <2>1. tasks[k].visit # visit
    <3>1. CASE Created(k)
      BY <3>1 DEF Created, Sets, JourneyTypeOK, Page
    <3>2. CASE Funded(k)
      BY <3>2, BothOrNeither DEF Funded
    <3> QED BY <1>3, <3>1, <3>2
  <2>2. tasks[k] # Idle /\ tasks'[k] = Idle
    <3>1. Ends(k) /\ tasks[k].op \in {"create", "fund"}
      BY <1>3 DEF Created, Funded, At
    <3>2. tasks'[k] = Idle
      BY <3>1 DEF Ends, JourneyTypeOK
    <3>3. tasks[k] # Idle
      <4>1. Idle.op = "none"
        BY DEF Idle
      <4> QED BY <3>1, <4>1
    <3> QED BY <3>2, <3>3
  <2> QED BY <2>1, <2>2 DEF LeftOneEnds
<1> QED BY <1>1, <1>2, <1>3, TaskStepCases

LEMMA BesideBoth ==
    ASSUME JourneyTypeOK, page.campaign = saved, page'.campaign # saved',
           \/ \E r \in refreshing : RefreshCampaign(r)
           \/ AccountsChanged \/ ResetCampaign \/ Reload \/ Revisit
    PROVE  LeftOneEnds
<1>1. ASSUME NEW r \in refreshing, RefreshCampaign(r) PROVE LeftOneEnds
  <2>1. r.visit # visit
    BY <1>1, BothOrNeither DEF RefreshCampaign
  <2> QED BY <1>1, <2>1 DEF RefreshCampaign, LeftOneEnds
<1>2. ~AccountsChanged
  BY DEF AccountsChanged
<1>3. ~ResetCampaign
  BY DEF ResetCampaign, JourneyTypeOK, Page
<1>4. ~Reload /\ ~Revisit
  BY DEF Reload, Revisit, Mounts, EmptyPage
<1> QED BY <1>1, <1>2, <1>3, <1>4

\* Page and localStorage name the same campaign until something that an earlier visit
\* left running comes to its end.
THEOREM PartedByEarlierVisits == Spec => OnlyEarlierVisitsPart
<1>1. JourneyTypeOK /\ [Next]_vars
        => [page.campaign = saved /\ page'.campaign # saved' => LeftOneEnds]_vars
  <2> SUFFICES ASSUME JourneyTypeOK, Next, page.campaign = saved, page'.campaign # saved'
               PROVE  LeftOneEnds
    OBVIOUS
  <2>1. ASSUME NEW k \in Slots, Click(k) PROVE FALSE
    <3>1. PICK op \in Ops, at \in {"dialog", "wallet", "terms"}, tx \in {"none", "create", "mint"} :
            Starts(k, op, at, tx)
      BY <2>1 DEF Click, ConnectWallet, CreateCampaign, FundCampaign, EvaluateRecord, Ops
    <3> QED BY <3>1 DEF Starts, JourneyTypeOK, Page
  <2> QED BY <2>1, TaskStepBoth, BesideBoth DEF Next
<1> QED BY <1>1, TypeCorrect, PTL DEF Spec, OnlyEarlierVisitsPart
=============================================================================
