# Jorqeth: formal models and proofs

Jorqeth pays a creator the exact commission on an order without showing the
merchant's sales record to anyone. The merchant puts money into an escrow
contract; a confidential machine (a Flare TEE) looks the order up in the private
record, computes the commission and signs a result; anyone may hand that result
to the escrow contract, which pays it once. This directory models that program in
TLA+, checks the models with TLC and proves the most important properties with
TLAPS.

## 1. Inventory

| Part | State it keeps | Operations | Talks to |
|---|---|---|---|
| `JorqethSettlement` (contract) | `escrowBalance`, `totalSettled`, `settled[digest]`, immutables | constructor, `fund`, `settle`, `withdrawEscrow` | ERC-20 token, result verifier |
| `JorqethCampaignFactory` (contract) | `isCampaign[address]` | `createCampaign` | deploys settlements on one token and one verifier |
| `FccResultVerifier` (contract) | none; reads Flare's active TEE set | `verify` | machine registry |
| `SignatureResultVerifier` (contract) | one trusted signer | `verify` | - |
| `JorqethInstructionSender` (contract) | `_extensionId` | `setExtensionId`, `sendEvaluation` | extension and machine registries |
| `JorqethEvaluator`, `JorqethResult` (libraries) | none | `evaluate`, `commission`, `hashStruct` | - |
| TEE extension (`fce-extension/main.go`) | private records, loaded at start | `POST /action` | TEE node, proxy |
| Result proxy, indexer, TEE node (`deploy/fce-coston2`) | results by instruction id | external services | chain, extension |
| Result route (`site/app/api/fce-result`) | none | `GET` | proxy |
| Payment page (`site/components/FxrpPaymentFlow.tsx`) | React state, two `localStorage` keys | connect, create, fund, check, resume, pay, next order, start over | wallet, RPC node, route |
| Layout, navigation and live pages (`site/app/app/layout.tsx`, `AppNav.tsx`, `LivePaymentRoute.tsx`) | the payment on view | follow a link, read the saved payment | payment page through `localStorage`, RPC node |
| Wallet session (`AppWalletDisconnect.tsx`) | accounts seen | connect, disconnect | wallet |
| Demo (`SettlementJourney.tsx`) | React state, one `localStorage` key | connect, create, mint and fund, evaluate, settle, try again, reset | wallet, RPC node, route |
| Evidence viewer (`web/`) | none | classify and show recorded vectors | files |
| QA runner (`scripts/jorqeth-qa.mjs`) | verdicts of a run, three artifacts | run checks, time out, summarise, report | child processes, deployment, RPC |
| Deploy and evidence scripts | files, broadcasts | one-shot | chain |

What is hard about each part, and what makes it correct:

* **Settlement.** Many contradicting results may be signed for one order, several
  orders compete for one pool, the set of accepted signers changes, campaigns
  share token, verifier and even campaign id, and the settlement window must end
  exactly where the withdrawal window begins. Correct means: one verdict per order
  and contract, paid exactly, from funded money only, before the end; nothing else
  leaves before the end; everything left is recoverable after it.
* **Evaluation pipeline.** A request is mined, picked up by one machine, answered
  from the records that machine was started with, signed, stored by a proxy and
  fetched much later. Machines restart with new records, leave the active set, and
  two requests for one order may be answered differently.
* **Payment page.** Every operation awaits a wallet, an RPC node or the route, with
  the user free to click, edit the form or reload in between; two keys of
  `localStorage` must be enough to find the way back.
* **Navigation.** Following a link inside the site unmounts a page and ends none of its
  handlers: what was left goes on writing the same `localStorage`.
* **Demo.** The same hazards as on the payment page with fewer precautions: resetting and
  connecting mind no other handler, and a failed read forgets whichever campaign is current.
* **QA runner.** Commands hang, ignore signals or leave processes behind; the deployment
  changes between two checks; a run is killed, or two run at once. What a report says has to
  come from the run it names, and it must come.
* **Route and viewer.** Every failure has to end in the right class: still pending,
  unavailable or rejected.

Which hazards of these parts are covered by which property is listed, line by line,
in `PROJECT.json` ("hazards"); the ones no property covers yet say why.

## 2. Plan

| Order | Module | About | State |
|---|---|---|---|
| 1 | `CommissionEscrow` | what a campaign promises: a pool and one verdict per order | done |
| 2 | `JorqethSettlement` | the contract, any number of instances on one token and one verifier | done |
| 3 | `JorqethSettlementProofs` | its invariants, and that it implements `CommissionEscrow` | done |
| 4 | `EvaluationPipeline` | instruction sender, machines, extension, signatures, verifier | done |
| 5 | `EvaluationPipelineProofs` | exactness and uniqueness of signed results | done |
| 6 | `JorqethSystem`, `JorqethSystemProofs` | both composed; implements `JorqethSettlement` | done |
| 7 | `PaymentPage` | the page's handlers, split at their awaits | done |
| 8 | `QaRunner` | runs, shell commands and their timers, verdicts, artifacts | done |
| 9 | `SettlementJourney` | the demo's handlers up to the evaluation, over several visits | done |
| 10 | `AppShell` | navigation under `/app`: the page that was left beside the one on screen, live pages, wallet button | done |
| 11 | `PaymentPageProofs` | the page's safety: storage, spinners, approvals, announcements | done |
| 12 | `SettlementJourneyProofs` | spinners have handlers, page and storage part through earlier visits only | done |
| 13 | `QaRunnerProofs` | checks do not overlap, passes are in time, the summary is the newest artifact | done |
| 14 | `AppShellProofs` | what is proved of the page holds of two of them beside each other | done |
| 15 | `SumLemmas` | sums over finite sets, for `totalSettled` | done |
| 16 | `CampaignFactory` | `isCampaign`, refused arguments, over `JorqethSettlement` | later |
| 17 | `ResultRoute`, `CommissionRule` | pure definitions against what their callers rely on; widths of Go, Solidity and ABI | later |
| 18 | `SettlementReentrancy` | a token that calls back during `fund`, `settle`, `withdrawEscrow` | later |

The order is by what can go wrong: money first, then what decides about money, then
what the user is told about it, then tools. Parameters are CONSTANTS with named
assumptions, each operation is one action, and no module uses a RECURSIVE operator,
so that everything checked can also be proved about.

How the modules fit together:

```
CommissionEscrow  <--implements--  JorqethSettlement  <--implements--  JorqethSystem
                                                                        |  EXTENDS
                                                                        v
                                                        EvaluationPipeline

PaymentPage       (around it, what the page can see of settlement and pipeline)
     ^
     |  EXTENDS, and INSTANCE for the page that was left
AppShell

SettlementJourney (the demo; contracts and machines are what its awaits return)
QaRunner          (no part of the product; looks at all of it from outside)
```

## 3. The contract: `JorqethSettlement`

**State.** `escrowBalance`, `totalSettled` and `settled` are the contract's storage,
`config` its immutables, all indexed by the address of the instance. `balance` is
the token, `now` is `block.timestamp`, `accepts` the set of results the verifier says
yes to at the moment. `receipt`, `funded` and `withdrawn` are the events, kept as
history: the contract emits them, and only properties and guards that bound the
state read them.

**Actions.** `Deploy`, `Fund`, `SettleIneligible` and `SettleEligible` (the two
branches of `settle`), `WithdrawEscrow`; `TokenTransfer` for transfers past `fund`,
`Tick` for blocks and `VerifierChanges` for signatures and the active set. A
transaction is one step and one that reverts is none, because that is what the EVM
does. Each check of `settle` is one named definition (`Bound`, `InWindow`, `Fresh`,
`Authentic`, `Payable`, `Covers`), and next to them stand slips
(`Covers_Surplus`, `InWindow_OutlivesCampaign`, ...): what a plausible mistake in that
check would be. No action uses a slip; each property is known to fail when the
definition is replaced by its slip.

**Abstraction.** The nonce of a result is left out (under the signature, never read);
`commissionBps` too (stored and never read: the source calls it informational). The
token is a standard ERC-20: no fee, no callback. Integers are unbounded; `TypeCorrect`
proves that no subtraction goes below zero, additions are bounded by the supply. Digests
are a finite set (`DigestAssumption`): they have 32 bytes, and a sum over them is defined.

The run `settlement` has two campaigns of one merchant with equal ids, rule and creator
and different ends on one token, two orders, results that contradict each other, compete
for one pool or are off the terms, transfers past `fund`, and time to one past the later
end. It shows that books are exact (`EscrowBacked`, `EscrowConserved`,
`TotalIsSumOfReceipts`), that outflows are explained and a surplus stays untouched, that a
withdrawal strands no result, that a result is honoured once on the whole chain (no step honours
one that any contract, the same one included, has honoured before), that verdicts are final and rest on evidence of that step, that `CommissionEscrow` is
implemented, and that under fairness neither a result nor the lack of one locks money: the
escrow always ends empty.

*Bounds.* `MaxTime = 3` with ends at 2 and 3 gives a time before, at and after each
end; `MaxFunded = 2` with amounts 1 and 2 makes the escrow suffice for one, for both
or for neither order. Two instances are enough for any confusion between a pair.

*Fairness* (`FairSpec`, only for `EscrowRecoverable`): blocks come, and the merchant
keeps asking for all that is left. The call needs nobody else, and nobody can make it
fail for good once the end is reached, so weak fairness is all that is asked.

## 4. The pipeline: `EvaluationPipeline`

**State.** `registry` and `active` are Flare's registries, `extensionId` is the
storage of `JorqethInstructionSender`, `records[t]` the list a machine was started with
(`extension.records`), `ended` the machines whose process is gone, `sent` the
instructions, `signed` the signatures that exist anywhere. A restarted machine has a
new key, so it is another element of `Tees`: `records[t]` is written once.

**Actions.** `RegisterExtension`, `ActiveSetChanges` (external), `SetExtensionId`
(the scan for the lowest own id), `SendEvaluation`, `StartExtension` (`newExtension`:
the last of several records of an order wins), `StopExtension`, `HandleAction`
(decode, evaluate, reply, sign; any number of times for one instruction).
`FccResultVerifier.verify` writes nothing and is the definition `Verifies`.

**Abstraction.** A signature is the pair of machine and answer. Hashes, ABI and JSON
encoding are injective and left out; bytes that do not parse are a request with
`parses = FALSE`, a `netAmount` that is no natural number a record with
`readable = FALSE`. The proxy and `/api/fce-result` keep and hand out what is signed.

The run `pipeline` has lists in which a refund follows a sale, a sale follows a refund
and an amount is unreadable, a rate within and one above 100%, and two
registrations by this or another sender. It shows that results are exact, that all
deliveries of an instruction give one answer, that the sender settles on its own first
extension, and (under `FairPipeline`: a delivery that stays possible happens) that a
machine that stays up answers also what it cannot evaluate. One machine is enough:
machines share nothing but the instructions, and the composition below has two.

## 5. The composition: `JorqethSystem`

`JorqethSystem` EXTENDS the pipeline and INSTANCEs `JorqethSettlement` with
`accepts <- AcceptedResults`: the payable results of the signatures that verify now. A step is
a step of the pipeline or a transaction on a contract. `sendEvaluation` stays open: a request
comes from anyone, for any order, contract, rate and window. The extension copies
the terms of a request into its result and `settle` compares the copy with the campaign; the rate is
not part of a result, and nothing compares it with the rate the campaign was created for. So a
request at another rate is signed and settles, and nothing is claimed here about the campaign's
rate, nor that a result is young: a window may be as long as the campaign.

The run `system` has two machines that nothing but their records tells apart, started before or
after the refund of an order, two instructions, a changing active set, and requests at
two rates and four kinds of terms: for one block, from the next block to the end, under another
rule, past the end. It shows

* `VerdictsComeFromRecords`: what is paid or denied for an order is what the records of one
  machine say of that order, at the rate of an instruction sent to that machine for that order
  and that contract, rounded down once;
* `DecidedAsRequested`: it is decided on a signature of that machine, active in that very step,
  within the window the instruction asked for, which ends with the campaign at the latest.

*Bounds.* With `campaignEnd = 2` and `MaxTime = 3` there is a time before, within and after each
window and after the end; two instructions can be for one order at different rates, or go to
different machines.

## 6. The page: `PaymentPage`

**State.** `page` is the React state that matters between handlers, `storage` the two
`localStorage` keys, `account` the wallet, `refreshing` the running calls of
`refreshCampaign`, `tasks` the running handlers: where each stands, and the transaction
it captured when it was clicked. `merchant`, `escrow`, `allowance`, `settled`, `checks`
and `txs` are what the page can notice of the chain and the machine.

**Actions.** A click (`CreatePayment`, `AddFunds`, `RunPrivateCheck`,
`ResumePrivateCheck`, `PayCommission`) starts a task; each step of a task runs to its next
`await`; `Fail` is the exception of any await inside a `try`. `StartNextOrder`,
`StartOver`, `HandleReferenceChange`, `AccountsChanged` and `Reload` happen at any time,
as they do in a browser; `Reload`, which loads the document again, drops the tasks and runs
the effects of the first render (`Mounts`).
`Mine`, `Revert`, `Answer`, `Expire` and `SettledByOther` are the world.

**Abstraction.** The chain is written from the page's side, smaller than `JorqethSettlement`: a
campaign has a merchant, an escrow and settled orders, and a transaction runs long after it was
simulated, perhaps beside others of the same page. The answer of an RPC node is applied in the step it is given; its loss or
delay is `Fail`. Connecting, the network id, the service light, form validation and the
wallet's token balance only refuse clicks and are left to the user. Wording is reduced to
the messages properties are about. There is one tab.

| Run | Instance | Shows |
|---|---|---|
| `page_orders` | two handlers at a time, two orders (one denied), errors, expiry, others settling, two transactions | storage mirrors the page, `busy` always has a running owner, "Payment complete" only for an order the contract has settled |
| `page_funds` | one handler, two wallets, three transactions | an allowance goes only to a campaign of the wallet that gives it |
| `page_progress` | one handler, an account that comes and goes, three transactions, fairness | a check stops processing, every spinner ends |

*Bounds.* Two slots are two handlers of the same or of different kinds, the least that can
interfere; `MaxTxs` 3 is create, approve and fund, or create, check and settle.
`CheckPolls` is 60 in the code and `ResumePolls` 30, or 1 after a reload; the value only says how often the
same question is asked. Runs use 1, and `page_progress` 2, where asking again matters.

*Fairness* (`Progress`). Weak: a signed transaction is mined or reverts, the machine
answers, a handler takes its next step or fails (every await has a timeout or belongs to a
wallet dialog that is closed in the end). Strong, for `CheckResolves`: the user keeps
pressing "Check result again" and the service does not fail each and every time.

*Receipts.* The page waits with the shared client of `lib/jorqeth.ts`, whose
`waitForTransactionReceipt` throws for a reverted transaction. `HasReceipt` is that, and
`CompleteMeansPaid` depends on it: with a client that returns any receipt (the slip
`HasReceipt_AnyStatus`) the page would announce payments that reverted.

## 7. Navigation: `AppShell`

**State.** `route` is where the user is: the payment page, one of the three pages that show
the latest payment ("live", one route because nothing is read again between them), or away
from `/app`. `leftPage`, `leftRefreshing` and `leftTasks` are a second instance of the
variables of `PaymentPage`, for the page that was left; chain, wallet and `localStorage` are
shared. `view` is the state of `LivePaymentRoute`.

**Actions.** `OnScreen` and `OffScreen` are the steps of the two instances. `LeavePay`,
`Browse` and `ComeBack` follow a link; leaving hands the handlers to the second instance, and
coming back mounts a new page from `localStorage`. `ReadArrives` and `ReadFails` answer the read of a
visit, `LoadPay` loads the document again, `ConnectWallet` and `DisconnectWallet` are the
button, the latter with and without a wallet that takes the permission back.

**Abstraction.** A page that was left must have ended what it was doing before another one
is left, so there are two instances and not any number. The figures of the live pages are
left out; whose they are is not. The words a live page has in place of a payment are no
addresses (`WordsAssumption`).

The run `shell` has two handlers at a time, two payments, a wallet that comes and goes and one
transaction. It shows that page and storage part only through a page that was left
(`OnlyLeftParts`) and that a late answer to an earlier visit never becomes the "Current
payment" (`LateReadsIgnored`, the cleanup of the effect). One transaction is enough for what
these are about, a check that is submitted or a second payment that is created; adding funds
is left to `page_funds`.

Not claimed, because the code does not keep it: that the live pages show the payment that is
saved *now*. `LivePaymentRoute` never clears what it has read, so an earlier payment stays on
view when the next read fails or when no payment is saved any more.

## 8. The demo: `SettlementJourney`

**What can happen.** No evaluation of the demo succeeds. `pollFceResult` refuses an answer without
a `proof` beside its result (`SettlementJourney.tsx:352`). An answer with one gets as far as
`verifyFceResult`, where `toPayableResult` reads `amount`, `chainId` and the times from the result
(line 98): but what the route passes on is the proxy's action result, whose payable result is in
ABI `data` that only the payment page decodes, so that `BigInt(undefined)` throws. Either way
`evaluateRecord` ends in its `catch`. The page never has an evaluation, the button that settles is
never enabled, and `settleCommission`, `verifySettlement` and `verifyReplayProtection` never run. The
model ends where the program does, and claims nothing of settlements.

**State.** `page` (campaign and `busy`), `saved` (the one `localStorage` key), `connected`, the calls
of `refreshCampaign` that run on their own, `tasks`, and `visit`, the number of the visit to which
the page on screen belongs. A task and a call of `refreshCampaign` belong to the visit they began in.

**Actions.** One per handler (`ConnectWallet`, `CreateCampaign`, `FundCampaign`, `EvaluateRecord`)
that starts a task, and one per await after it; `Fail` for an await that throws, a reverted receipt
among them. The user resets the campaign, switches the account, loads the page again (`Reload`),
or follows a link and comes back (`Revisit`). After that the handlers of the earlier visit go on:
their setters do nothing (`Sets`), but they still write `localStorage`.

**Abstraction.** The chain is what an await returns. Which account is connected matters to the
chain only. Figures, messages, links, the form and the record reference are left out. Leaving and
coming back are one step, since what happens in between might as well happen before.

The run `demo` has two handlers at a time, a saved campaign and a new one, two visits. It shows that
whatever the page says it is doing a handler of this visit is doing (`BusyHasHandler`), that page and
storage name the same campaign until something of an earlier visit comes to its end
(`OnlyEarlierVisitsPart`), and that the buttons come back (`BusyEnds`).

Not claimed: that the campaign on the page stays while its handlers run. Connecting a wallet clears
the `busy` of a handler that creates a campaign; a second one may then be created and replace it on
the page and in storage.

*Bounds.* Two handlers are the least that can take `busy` from each other, and two visits the least
that can disturb each other. `Polls` is 36 in the code; two tell asking again from giving up.

*Fairness.* A handler takes its next step or fails; the wallet's dialogs are closed in the end.

## 9. The QA runner: `QaRunner`

**State.** `run[r]` is an invocation: its command, the check it is at, the tally of verdicts,
its exit code; `child[r]` the shell command it waits for: whether it has ended, what holds its
pipes, which timers have fired; `files` which run each of the three artifacts is of; `tools` and `site` what
is installed and how the deployment answers.

**Actions.** `StartRun` and `StartOther` (a command, or an option the parser refuses).
`Inspect` for checks that read files, `Ask` for those that ask the deployment, `Spawn` ...
`CommandCloses` for shell commands: `ShellEnds`, `TimerFires` (SIGTERM), `KillFires`
(SIGKILL), `DescendantsEnd`, and the check ends with "close", when nothing holds the pipes.
`Summarise`, one `WriteArtifact` per file, `WriteFails`. `Killed` at any point; `Deploys`
changes the deployment at any point.

**Abstraction.** What a check finds in files or answers is left open; what is modelled is
which verdicts it can give then. Wording, redaction, the *.log files and the printed report
are left out. Pages are named by the ids of their checks (`PageAssumption`: no page has the id of another
check), and the states of the deployment say of each whether and how it answers
(`SiteAssumption`).

The run `qa` has two invocations, one after the other or at once, of five commands, two sets
of tools and a deployment that breaks. It shows that no command of a run is still at work when its
next check begins (`ChecksDoNotOverlap`), that only a command that ended by itself in time passes
(`PassedInTime`), that a killed run leaves no artifact newer than its summary
(`SummaryIsNewest`, for runs that are alone), and that a run ends (`RunsEnd`).

Not claimed: that exit code 0 means the pages were served. `route-*` and `asset-*` look at the status
of an answer, but `security-headers` looks at headers only and `copy-drift` at words, so that error
pages pass them when the deployment breaks between two checks.

*Bounds.* Two runs are the least that can disturb each other; one route stands for the
thirteen and the assets, which are checked one after the other in the same way; the tool sets
have a missing tool of each kind.

*Fairness* (only for `RunsEnd`). Node goes on and its timers fire. That what a killed shell
leaves behind ends some time (`DescendantsEnd`) is an assumption, not something the code sees to:
the kill reaches the shell only, and without the assumption a check waits for ever.

## 10. What the words do not keep

Three runs are expected to find a violation; each is one `finding` in `PROJECT.json`.

* `page_wedged`. A machine that answers with status 0 (an unreadable record, say) makes
  `decodePrivateCheck` throw. The handler keeps the saved check, so the page offers nothing
  but "Check result again", which throws again. The only way on is `StartOver`, which drops
  the campaign and its escrow from the page.
* `page_paid`. "Check a different order" stays enabled while a payment is being confirmed.
  `verifyPayment` then sets `paid` on a page that is about the next order by now, and the
  result of that order does not reset it: "This order was paid.", with the reference and the
  amount of an order nobody has settled, and no button to pay it. The same property fails
  sooner with `Denied = {o2}`: the page reads the amount and `settled()`, never the
  eligibility code, so settling a denial is announced as a payment too.
* `shell_left`. "You can leave this page and come back without submitting it again." Who leaves
  by a link while a handler asks for the result loses it: the handler hands the result to a page
  that is gone and removes the saved check.

The contract is right in all three: no money moves that should not.

## 11. What is proved

All theorems hold for every value of the constants under the named assumptions of the
modules: addresses of people and contracts are different, amounts and times are natural
numbers, the markers (`NoResult`, `NotDeployed`, `Off`) are no values. TLC evaluates each
assumption on the instances above.

**`JorqethSettlementProofs`.** `TypeCorrect` first: it carries the absence of underflow.
The safety properties are not inductive one by one. The invariant that is (`IInv`) says
five things together:

* `EscrowBacked` and `EscrowConserved`: books and token agree. The two meet in each step
  that moves tokens, via one lemma on what a transfer changes (`MoveEffect`);
* `GuardMatchesReceipts`: the replay guard marks what has a receipt;
* `ReceiptsBound`: a receipt was bound to its contract, order and terms. So a result that was
  honoured once was honoured by the contract it names, for its order; that contract's guard
  refuses it a second time, and every other contract always (`HonouredOnce`);
* `ReclaimedLate`: a withdrawal means the end has passed. With `expiry <= campaignEnd`
  this gives `WithdrawalStrandsNoResult`.

The action properties follow from it step by step, and `Implementation` shows that each step
maps to a step of `CommissionEscrow` or to a stutter.

**`EvaluationPipelineProofs`.** The invariant is `SignedAsEvaluated`: a signature is over
what its machine *still* computes for the instruction. It is inductive because instructions
are only appended and records are written once. `Exact` then follows from two facts about
data: the row of an order is its last record (`RowIsLast`, by well-foundedness of the
numbers) and the commission is the floor (`CommissionIsFloor`); `One` follows since both
sides are the same function of the same arguments.

**`JorqethSystemProofs`.** First that the system is a behaviour of `EvaluationPipeline`
(`PipelineRuns`), which brings all of the above along, then that it is a behaviour of
`JorqethSettlement` (`SettlementRuns`): the accepted results are always among the results.
`AcceptedOrigin` traces an accepted result back through signature, machine and instruction, and
`ReceiptStep` says that a receipt is written by `settle` alone. `AsRequested` is the two together at
that step. `FromRecords` needs more, since a verdict outlives the machine's place in the active
set: instructions are only appended and records written once (`EvidenceKept`).

**`PaymentPageProofs`.** `PageInv` says that a handler refers only to a campaign, a check
and a transaction that are there; it is inductive since checks and transactions are never
lost and a transaction stays of its kind. `TypeCorrect` follows, for any number of handlers
and transactions. On it rest, each with a strengthening of its own:

* `MirrorsCorrect`: inductive as it stands, since each handler that writes one of the two
  keys writes page and storage in the same step;
* `BusyCorrect`: the handler that keeps a spinner alive must be past the read that precedes a
  payment (`BusyInv`), for a payment that fails there ends without touching `busy`;
* `ApprovalCorrect`: what `addFunds` read about the merchant stays true from there to the
  block (`ApprovalInv`), because a merchant is decided once;
* `CompleteCorrect`: a settlement that was mined has settled its order, and a handler with a
  receipt has it of such a settlement (`PayInv`). This is where it matters
  that the shared client throws on the receipt of a reverted transaction.

**`AppShellProofs`.** The proofs of the page are used twice: EXTENDed for the page on screen, and
as an instance (`LeftProofs`) for the one that was left. `ShellInv` says the page's invariants
of both, except that nobody promises a spinner on a page that is gone. What makes it inductive
is a lemma for each part that says it survives a step of *another* page: to the one
page a step of the other is a step of the world that adds at most one transaction
(`OffScreenActs`). Navigation hands the invariants over from one instance to the other. So
`ShellApprovalCorrect`, `ShellBusyCorrect` and `ShellCompleteCorrect` carry over
what was proved of a page that is never left. `StorageMirrorsPage` does not carry over; what
takes its place is `PartingCorrect`. `LateReadsCorrect` rests on `ViewOK`: what is being read was
saved when the visit began.

**`SettlementJourneyProofs`.** Types carry the rest. `SpinnersOwned`: `BusyHasHandler` is inductive
beside them, because a handler that ends in the visit on screen clears the spinner whoever owns
it, and one that ends in another visit touches neither the spinner nor its owner.
`PartedByEarlierVisits` goes through the steps that write the page or the storage: those of the
visit on screen write both or neither (`BothOrNeither`).

**`QaRunnerProofs`.** `QaInv` has a part for each property: `ChildrenOK` (there is a shell only
while its run waits for it), `OrderOK` (of two runs that overlap neither counts as alone) and `FilesOK`
(how far a run that is alone has come with the three artifacts). The last is what makes a run
that is killed between two writes leave a summary that is the newest.

**The composed system.** `JorqethSystemProofs` instantiates `JorqethSettlementProofs` as well.
With `SettlementRuns` its theorems become theorems of the whole system: `CampaignsKeepBooks`,
`CampaignsPayOnEvidence` and `SystemImplementsEscrow`. None of them is proved a second time.

**`SumLemmas`.** `TotalExact` is about a sum over all orders of a contract, a recursion over
subsets. The library's induction theorems have a predicate as a parameter, which no installed
prover can instantiate; but a *set* of good elements can take its place, and that such a set
has every element follows from the minima of well-founded orders (`NatInduct`,
`SubsetInduct`). From there: the recursion that defines the sum exists (`SumIsRecursive`), a sum of
zeroes is zero, and a sum grows by what one summand grows (`SumOfOneMore`). In
`TotalExact` each settlement adds its own due (`RecordAddsDue`), because the replay guard says
that there was none before.

**Only model-checked.** Every invariant and action property of the passing runs is proved. What is
left to TLC is liveness (`EscrowRecoverable`, `RunningMachineAnswers`, `CheckResolves`,
`BusyClears`, `BusyEnds`, `RunsEnd`): fairness and ENABLED are beyond the prover. The three
violations of section 10 are TLC's too.

## 12. What is not modelled

Each part with its reason is in `PROJECT.json` ("components"). In short: presentation and
recorded evidence have no operations, and the viewer replays recorded vectors without
keeping anything; the scripts are fixed sequences of calls whose outcome the contract model
covers for every sequence; `FceSettlementJourney` and `LatestLivePayment` are imported by no
page, and what follows an evaluation in the demo is never reached (section 8); the route keeps
no state and appears as its callers see it. `isCampaign` and the arguments the factory refuses,
the width of a commission, tokens that call back, and two tabs of one browser are open; the first
three are planned (section 2).
