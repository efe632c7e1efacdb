# LumenLater: a TLA+ verification project

LumenLater is a buy-now-pay-later protocol on Stellar's Soroban. Liquidity
providers deposit USDC into a pool and receive rebasing LP shares. A shop that an
administrator has approved creates a bill for a buyer; the buyer pays it with USDC
that the protocol borrows from the pool against the buyer's own LP shares, and
repays later. Overdue loans are liquidated by burning those shares. A web
application keeps a database that mirrors the contracts, offers checkout sessions
to shops, notifies them by webhooks, and gives buyers, lenders, merchants and
administrators their pages. A testnet bot plays users and shops.

This directory holds TLA+ models of that system, TLC configurations that check
them on small instances, and theorems that TLAPS proves for every value of the
constants. `PROJECT.json` relates every definition to the source lines it
translates, and lists components, runs, hazards, findings and theorems. Paths
below are relative to the repository.

## 1. Inventory

### On the ledger (`contracts/`)

A contract call is atomic: a panic, an `Err` or a failing inner call undoes
everything. `Cargo.toml:30` sets `overflow-checks = true`, so an arithmetic
underflow is a panic too. Hard behaviour is therefore not interleaving *inside* a
call but the order of whole calls by users, shops, administrators and liquidators,
over days, with rounding at every step.

| component | state | operations | what makes it correct |
|---|---|---|---|
| USDC token, `usdc_token` | balances, allowances, supply, last mint day and amount per address | mint (limited per day), burn, transfer, approve and the `_from` variants | the daily limit holds across midnight; balances and supply agree |
| LP token, `lp_token` | raw shares, supply, rebase index, amount lent, asset, allowances | initialize, deposit, withdraw, update_index, admin mint, burn, transfer, approve; borrow, repay, repay_with_burn for the core | the index falls in no call but a repeated initialize; rounding costs the pool less than a share per call; newcomers take no earlier yield; locked collateral stays |
| BNPL Core, `bnpl_core` | merchants, bill counter, bills, each user's open bills | enroll, status update, create_bill, pay_bill_bnpl, repay_bill, liquidate_bill | what the pool has lent is what open bills owe; a user's list is exactly its open bills; repayment and liquidation are never blocked inside the protocol's margin; the core keeps nothing |
| terms, constants and `calc_late_fee` of `bnpl_core` | none | fee, interest, collateral and boundary arithmetic | shares of an amount never exceed it |

The core calls the pool (borrow, repay, repay_with_burn, update_index, balance)
and the USDC token (transfer, transfer_from, approve) inside its transactions; the
pool calls the token to move USDC and calls back into the core
(`get_user_required_collateral`) to know what part of a balance is locked.

### Off the ledger (`apps/web`, `packages/testnet-bot`, `packages/sdk`)

| component | state | operations | what is hard |
|---|---|---|---|
| Event indexer webhook, `api/indexer/webhook` | `ParsedBill`, `ParsedMerchant` (Postgres) | one handler per event, several per request | handlers of a batch run concurrently; an event whose handler fails is answered with 200 and lost; requests repeat |
| Checkout sessions, `lib/checkout/session.ts`, `api/pay` | `CheckoutSession`, `Bill` (MongoDB) | create, read (which may expire), complete | races of readers and completers around the expiry; the payment happens elsewhere, and the completion neither checks it nor who asks |
| Webhook delivery, `lib/checkout/webhook.ts` | `WebhookDelivery`, secrets | dispatch, attempt, retry sweep, change of the secret | fire-and-forget, overlapping sweeps, stale attempt counts, rows nothing picks up |
| API keys, `lib/auth/api-key.ts` and the settings page | `MerchantApiKey` | create, list, verify, revoke | creation in two calls, lists shown late, routes that trust the address in the request |
| Merchant onboarding, `enroll`, `hooks/use-merchant.ts`, the admin review | `MerchantApplication`, the core's merchant, the pages' caches | wizard, apply, enroll, review, enter the portal | two sources of truth; the second step of two fails; pages send visitors in circles |
| Bills and their pages, `api/bills`, `user/page.tsx`, the bill page | `Bill`, `ParsedBill`, the queries' caches | create by form, pay, repay, show, verify on chain | one bill in three places, cached allowances, copies read at different times |
| Lending and faucet pages | cached allowance, balance, counter | approve, deposit, withdraw, mint | decisions by stale copies and late answers |
| Wallet connection, `hooks/web3/use-wallet.ts` | the account and modal of a tab | connect, reconnect, disconnect | overlapping attempts |
| Snapshot cron and statistics | `ProtocolSnapshot` | hourly aggregation, reports | parallel reads at different moments, runs that overlap |
| Activity lists, `lib/event-parser.ts` | none, derived from events | merge a transaction's events | lists cut in the middle of a transaction |
| Testnet bot, `packages/testnet-bot` | scheduler, saved state, remote pause, accounts | timers, cooldown, poll, pause and resume, bootstrap and restore | duplicated timer chains, overwritten pause, failed restores, set-ups that end half-way |

`PROJECT.json` lists each component with its status, and under "hazards" every
place where this code is hard to test.

## 2. Modules

```
on the ledger
  Terms  <-  UsdcToken  <-  LpToken  <-  BnplCore  -->  LoanBook (abstract)
                                            \- Prefix (two loops as functions)
  MCTokens (token or pool)        MCBnplCore  <-  MCProtocol
off the ledger
  Checkout  <-  WebhookDelivery                 MCCheckout, MCWebhookDelivery
  EventIndexer, ApiKeys, ProtocolStats, ActivityViews          MCEventIndexer
  TestnetBot (process), BotSetup (accounts)                      MCTestnetBot
  LiquidityPages, Wallet, Onboarding, BillDetail, BillPages        MCWebPages
proofs
  ArithmeticProofs (sums, lists, quotients)
  UsdcTokenProofs   LpTokenProofs   BnplCoreProofs (with Terms and Prefix)
  EventIndexerProofs (with ProtocolStats)   WebhookDeliveryProofs (with Checkout)
  WebAppProofs (ApiKeys, Wallet, ActivityViews)   BotProofs (TestnetBot, BotSetup)
```

**Terms** is the arithmetic of `bnpl_core/src/lib.rs:18-40, 85-110, 438-510` as pure
operators. Rates and their scale are constants: `15 / 1000` and
`150_000 / 10_000_000` floor to the same amounts, and the second stays within TLC's
integers.

**UsdcToken** models `usdc_token`. Every entry point is an action whose guard is the
conjunction of the source's panics. `Moved` and `Spent` are the effects of a
transfer and of spending an allowance, as functions: contracts that call the token
several times in one transaction compose them. `Moved` has the source's behaviour
when sender and receiver are the same account. An approval may set any amount, a
negative one too, as the source looks at no sign. The history variable `mintedOn` holds what
was minted per address and ledger day, against which the daily limit is stated.

**LpToken** models `lp_token`. Amounts are converted to shares at the current index,
rounding down. Actions take what the core answers for the locked balance as an
argument, so that the pool can be checked alone (nothing locked, nothing lent) and
inside the protocol. `LpInitialize` is the source's `initialize` as a call at any time:
it does not look whether the pool is initialized, and the admin whose authorization it
asks for is an argument. It sets the index, the supply, the balances and what is lent
back and may name another asset; the history variable `reset` remembers it. What else
holds of the pool and of the loans holds until then, and says so.

**BnplCore** composes the three. One transaction is one action; the token and pool calls
it makes appear in it in the source's order as intermediate balances (`usdc1`, `usdc2`, or
`PrincipalReturned`, `FeesTaken`), with the guards of each. The reverts of inner calls are
guards of the whole action (for instance, the token refuses to transfer zero, so a
liquidation whose halved penalty is zero reverts). All guards of a repayment or a
liquidation together are `CanRepay` and `CanLiquidate`: with them the action only assigns,
so that "never blocked" is a predicate on states, which TLC and the proofs can both use.

**LoanBook** is what the protocol promises about loans without prices, fees, shares
or time: opened in order, drawn at most once, closed at most once, with the pool's
lending moving by exactly the principal. BnplCore implements it under the mapping
`LoanTable` / `borrowed` (the property `ImplementsLoanBook`), in every step before the
pool is initialized again.

**EventIndexer** models the chain's events in ledger order, Goldsky (external: batches
in order, one request at a time, sent again when there is no answer), and the handlers
of `api/indexer/webhook/route.ts`, one database call per step. A row is a status; the
other columns follow from the event and are left out. The event of a failed call
carries `ok = FALSE`. Any handler may fail at any of its calls (`HandlerFails`): the
webhook catches the error, answers 200, and the event is not sent again. The history
variable `disturbed` collects the bills and merchants that lost an event so, or two of
whose events were at work at once; of all the others the mirror is exact.

**Checkout** models `session.ts`, the pay API and the payment page's order of calls,
one database call per step: reading a session and marking it expired are two
steps, checking that it is pending and the conditional transaction are two more.
Anybody may ask to complete a session, paid or not: the route checks neither.
A request may be abandoned between any two of its steps.

**WebhookDelivery** extends Checkout with what follows a completion: nothing where the
session has no `webhookUrl` (`hooked`) or the merchant no secret; else the row, the first
attempt that nobody waits for, later attempts by sweeps of `processWebhookRetries`
that may overlap, the shop's endpoint that accepts, refuses or does not answer in
time, the shop's secret and the copy it verifies with. The attempt's count and retry
time are computed from the row read before the request, as the code does.

**ApiKeys** models `lib/auth/api-key.ts` with the settings page: the two calls of a
creation, lists that arrive when the account may have changed, revocation, and the
check of a request's key. Besides the page anybody may create or revoke a key in
anybody's name (`PostKey`, `DeleteKey`), as the routes take the owner from the request.

**Onboarding** models one merchant from the enrollment wizard through the
application, the enrollment on chain, the administrator's review and the indexer's
row to the portal, with the redirects of the pages between and the ages of their
cached answers, among them the "None" that a failed read of the status leaves for five
minutes.

**BillPages** models the merchant's form (row, bill on chain, link), the buyer's
dashboard over its three queries, payment and repayment with the cached allowance and
with the USDC that the buyer has, which may be spent elsewhere; events may be lost.
**BillDetail** is the page of one bill: the kept copy, the verification read from the
chain, and the mismatch between them.

**LiquidityPages** models the lending section and the faucet; **Wallet** the connection
of one tab; **ProtocolStats** the snapshot handler and the statistics pages, as the
parallel reads they make; **ActivityViews** the event lists cut at the indexer's limit.

**TestnetBot** models the bot's process: the timer and its callback, the thirty-second
poll of the remote state, the cooldown after failures, counters and daily goal, saves,
restarts and failed restores. A tool beside it restores the same row and saves it back,
and its bootstrap counts one activity (`ToolBootstraps`). **BotSetup** models how
merchants are onboarded, by a command or by the bot's own bootstrap scenario, how an
administrator gives them any status meanwhile, how the pool of accounts is saved,
restored (or not) and overwritten, and the bot's bill, which anyone may liquidate.

**MC modules.** `MCTokens`, `MCEventIndexer`, `MCTestnetBot` and `MCWebPages` check
side by side modules that share no variable: a behaviour picks one part at the start
and stays with it (`part`), so that the state space is the sum and not the product
of the parts'. `MCProtocol` has two kinds of behaviours of the same module: around two
loans, and around the pool's own calls.

Abstractions common to all modules: addresses and ids are model values; metadata, wording
and events' payloads are left out; authorisation (`require_auth`) decides who may make a
call and appears as the quantifier over the signers. `initialize` of the USDC token and of
the core, which refuse a second one, is the Init of their modules. Amounts are natural
numbers without the upper end of i128 and u128, which no USDC amount comes near;
subtractions keep their underflow panics as guards. USDC's supply is an integer, since
burning after a self-transfer can take the i128 below zero. Cached answers are values that
may grow old at any time; a fetch is an action that may happen whenever the page is open.

## 3. Runs

The instances are small and chosen at the boundaries. "Bound" names what keeps an
instance finite; all are constants of the modules.

| run | instance | what it asks |
|---|---|---|
| `tokens` | token: 2 users, timestamps on both sides of midnight, limit 2, approvals of -1 and 1; pool: 2 holders, index scale 4, amounts 1 and 3, donations of 1, initialize at any time | the daily limit over midnight, in terms of a history of who minted when; balances against supply; the index, rounding per call, newcomers and old yield |
| `core` | from deployment. Around loans: two bills of 500 of one user, deposit 1300, withdrawals 745 and 790, days 0, 1, 2, 15, 29, 138. Around the pool: one bill of 500 and any four pool calls of every kind, days 0 and 29. A second initialize in both | books, lists, refinement of LoanBook; repayment and liquidation never blocked inside the margin; locked collateral stays, paying leaves the collateral required, shares and supply agree, the core is a conduit |
| `indexer` | 4 events in batches of up to 2 with an overlapping resend and handlers that fail; 2 owners, 1 key, 1 list, 1 request; 2 loans, 2 snapshots, 2 jobs; lists of 2 events of 2 transactions | mirror, verdicts on keys, what reports and lists show |
| `checkout` | 1 session, 1 reader, 2 completers, 2 sweeps, 3 attempts with a delay of 1 each, 2 secrets, 1 abandoned request, sweeps of 1 row | one completion with one bill and one delivery; exact counts; which deliveries end, and that they do |
| `bot` | 2 failures to a cooldown, goal 2, 2 days, 2 outside events, tools and failed restores included; 2 merchants, 3 processes, an administrator who sets back to pending | timers neither multiply without bound nor run dry; the day's goal; stored pauses arrive; the saved pool follows the chain |
| `web` | 2 wallets; wealth 2, amounts of 1, daily limit 1, 1 new day; 1 reload; both kinds of viewer; one bill of the form and one of a session, of 100 each, a buyer with 205 USDC, a late fee of 5 percent, 1 failure, an index of 1 row | one wallet at a time; users are served in the end; merchants get in; a mismatch clears; a buyer finds the bill and repays it |
| `lp_self_transfer`, `lp_reinitialized` | the pool alone, one call each of few kinds | see the disagreements below |
| `core_grace` | one bill, days up to 15 | see below |
| `indexer_failed` | the instance of `indexer` with single events and no overlap | see below |
| `checkout_overwritten` | 1 session, 1 reader, 2 completers | see below |
| `enrollment_retried` | one merchant, 1 reload | see below |

Why the bounds are enough to be interesting. The late fee, grace period, expiry and
liquidation threshold change behaviour only at their boundary days: a bill of day 0
expires after day 1, owes a fee from day 15 (one whole day after the grace period),
can be liquidated from day 28 and, with a late fee of 50 and a penalty of 5, costs
exactly its collateral of 555 on day 138. Index scale 4 makes nearly every
conversion round. The amounts 745 and 790 that can be withdrawn lie on the two sides of
what one open loan of 500 leaves free of 1300, and 745 leaves exactly its collateral of
555, of which 90 percent are no longer enough to pay such a bill. Two bills are
needed for one to be settled in the other's presence, which is what list and book
maintenance can get wrong. Two events in one batch are the shortest race of handlers;
two completers give each request a rival; two sweeps are the fewest that overlap, and
three attempts are the code's own limit. One key with one owner and one stranger, one
list and one request meet every order of their steps. A second account of the wallet
and one reload are what a second connection needs. `MCProtocol`
bounds the number of pool calls in a behaviour of its second kind (`MaxPoolCalls`) and
not their kinds, since transfers, burns and allowances in any order have unboundedly many
share values; a pool that was initialized again stays empty in its first kind, as the loans
of before have no collateral from then on. In the statistics part of `indexer`, days pass
only with a single loan, and a second job works beside the first only in the first day, where
the liquidity providers rest and the pool cannot be read: what the two can do to each other is
in the figures of the tables. In the bills part of `web`, the late fee comes when both
bills are paid and nothing has failed, failures come before that, and the buyer spends the
USDC elsewhere while a repayment is under way, which is when it matters. Each property has a
mutant in `PROJECT.json`, a plausible mistake in the code under which the same run fails.

`CHECK_DEADLOCK FALSE` is set in every run: a bounded instance ends when its amounts,
days, events or calls are used up. The type invariants of token, pool, core and wallet are
proved, and the indexer's is part of `MirrorInv` (under `MirrorTyped`); those of the other
modules (`CheckoutTypeOK`, `BillPagesTypeOK`, ...) can be checked by naming them in a
configuration.

Some properties hold under a condition they state, and the condition is the finding:
whatever is said of the pool's loans as long as the pool is not initialized again (`reset`);
`LoansRecoverable` besides for borrowers none of whose loans has outgrown the 111 percent of
its principal, now or when it was liquidated (`strained`), with a halved penalty that is not
zero; `MirrorsUndisturbed`, `StatusesInOrder` and `EventuallyMirrored` for bills and merchants
that lost no event and none of whose events raced another; `ReportsTrue`, where it asks for
exact figures, for reports during which nothing moved; `VolumeNeverFalls` against the
snapshots stored before the handler began; `AttemptsExact` for rows that two sweeps never
held; `NoRowForgotten` for rows below three attempts whose first sender was not abandoned;
`CompletionNotified` for completions that found their session pending in time;
`OneWalletConnected` where no automatic reconnection overlaps the user's choice;
`PauseReaches` unless the stored pause is written over; `PoolNotAhead` where
`sync-merchants` was run for merchants approved by hand, as it is meant to be;
`MerchantGetsIn` if reads of the status do not fail for ever; `BuyerFindsBill` and
`BuyerRepays` for a buyer who comes back, has the USDC and is within the grace period, and
a bill that is among the newest the index answers with and whose event was not lost.

### Disagreements found

Six runs end in a violation, and each shows what a document, comment or page says and
the code does not do (quotes in `PROJECT.json`, "findings").

- `lp_self_transfer`: a holder's transfer to itself credits shares that were never
  debited; shares in circulation then exceed the supply. Burning such shares lowers the
  supply that other holders' liquidations have to burn from, so that `LoansRecoverable`
  assumes that shares and supply agree.
- `lp_reinitialized`: the pool's `initialize` can be repeated, unlike the other contracts';
  the index, said to only increase, falls back to one, and shares, supply and the amount lent
  are set to nothing.
- `core_grace`: the late fee runs from the bill's creation, documents say from its
  payment. `get_user_total_debt` counts from payment, so the fee that is charged is not
  the one shown.
- `indexer_failed`: failed events are said to be retried and the database to mirror the
  chain; the webhook answers 200 whatever its handlers made of their events, so an event whose
  handler the database failed is lost.
- `checkout_overwritten`: a slow reader marks a completed session expired.
- `enrollment_retried`: the page promises to retry an enrollment that failed on chain;
  nothing does, and the application cannot be sent again.

Properties of the same kind are stated in the modules and can be seen to fail by naming
them in a configuration: `EveryLoanBacked` (BnplCore: the late fee grows past the
collateral, and then a liquidation reverts), `RepaidWhenLate` (BillPages: "Approve a bit
more than needed (10% buffer for late fees)", `user/page.tsx:283`, is not what line 276
looks at), and `PausedUntilCommanded` (TestnetBot: "Responds to pause/resume commands from
the admin UI", `packages/testnet-bot/README.md:16`, against the save at
`state-manager.ts:110`).

What the models show of the code beyond the stated properties, or what was met on the
way and needs no run to be seen:

- *Contracts.* `create_bill` compares the order id with nothing, though
  docs/contracts/bnpl-core.md:118 asks for unique ids. The USDC token's `approve` stores
  negative allowances, which spend like none. `get_user_total_debt` returns
  (interest, principal), `use-user-info.ts` takes them in the other order.
- *Indexer.* Handlers of a batch run concurrently and their failures are answered
  with 200; in a batch the handler of a payment can run before that of the creation, throw,
  and leave the row behind for good. Goldsky's pipeline file does not say how many events a
  request carries.
- *Webhooks.* A third answer other than 2xx leaves a row PENDING with no retry time; so
  does a first attempt that is abandoned. Overlapping sweeps may send a fourth time, or
  write over DELIVERED. `processWebhookRetries` has no caller, and `vercel.json` has no
  job for it; the constant `cron` says whether sweeps happen.
- *Checkout.* A bill paid while its session's hour runs out is never completed, and the
  page thanks the buyer all the same (`pay/[sessionId]/page.tsx:131`); nor is one whose buyer
  closes the page between payment and completion. The route completes whatever it is asked
  to, without a look at the chain. The
  completion stores no transaction hash, so `getMerchantPayout`
  (`api/indexer/bills/[billId]/route.ts:9-36`) finds no payout. Nothing calls
  `cancelCheckoutSession`.
- *Bills.* The form sends `onChainBillId` as text and Prisma refuses it; the buyer's
  page finds the bill by its order id all the same. Bills without a row in MongoDB are
  not shown to the buyer. On the page of one bill a mismatch may be two copies read
  around a payment, and after a repayment the kept copy offers to repay for another
  half minute.
- *API keys.* The routes that create, list and revoke keys take the merchant's address from
  the request and ask for no proof of it.
- *Onboarding.* The enrollment page sends to `/merchant/dashboard` and
  `/merchant/application-success`, which do not exist. When the answer to a creation is
  lost, the application is stored and can never be enrolled. `saveDraft` has no caller.
- *Money pages.* The withdrawal form offers locked collateral, because `lockedBalance` is
  always null; its input is labelled LP tokens where the contract takes USDC.
- *Statistics.* The dashboard's `tvl` is the total of all bills, those never paid
  included; "LP Holders" counts borrowers. The liquidity page subtracts a total of one
  query from that of another. The snapshot is hourly, but its route answers GET too "for
  manual testing"; two that overlap can store their rows in the other order, so that
  `VolumeNeverFalls` compares a row with those stored before its handler began. An APY
  beyond Decimal(8,4) would fail a snapshot.
- *Bot.* A cooldown after failures ends at the next poll, long before its time. Saves
  every minute can write over links that the set-up tool stored. A failed restore makes
  a fresh pool that then replaces the saved one. A second bootstrap fails at step 6 once
  the first merchant has an application. Bills noted in `activeBills` are not repaid.
- *SDK.* The default address `.../api/v1` has no route.

## 4. Fairness

The contracts act only when somebody calls them, so the on-chain modules have no
fairness and claim safety only. "Never blocked" properties say that the guards of
repayment and liquidation hold: whoever wants to repay or liquidate, can.

Off the ledger, what a running process does by itself is weakly fair, and what a person
does is fair only as far as a property is about a person who keeps trying. No query of the
pages refetches by itself (`providers.tsx` and the hooks set a `staleTime` and no
`refetchInterval`): a page fetches when it is mounted or focused after its answer went
stale. That the person in front of it comes back often enough is an assumption about the
person, named as one where it can be (`BuyerComesBack`, `BuyerKeepsTrying`), and the
properties under it say what the pages do for such a person. Nothing is
fair about a request the server abandons (a restart, a time limit, a function frozen
after its answer), nor about what an administrator, a shop or the buyer's payment page after
the payment should do.

| specification | assumed | why |
|---|---|---|
| EventIndexer | WF on delivery, handlers, answer | Goldsky sends while there are events, Node runs the handlers it started, to their end or to their failure; the chain need not act, resends need not happen |
| Checkout, WebhookDelivery | WF on time, on each request's next step, on dispatch; on sweeps where `cron` | timers and awaited calls; nobody has to pay, to ask for the completion, or to accept a delivery |
| TestnetBot | WF on the timer, the callback's steps and the poll | `setTimeout`, `setInterval` and awaited calls |
| BillPages | WF on the indexer, on a started handler's next call; SF on caches expiring; `BuyerComesBack` (WF on the three queries), `BuyerKeepsTrying` (SF on the click) | events that are not lost are indexed, the cached allowance does expire between the tries; the rest is the buyer |
| LiquidityPages | WF on checks and expiries; SF on click, approval, deposit, mint | checks and caches have timers; the user keeps pressing and the wallet does not refuse for ever |
| Wallet | WF on the modal's end and the wallet's answer | the modal is closed or answered |
| Onboarding | WF on reads (which may fail), caches, redirects and the way to the portal; SF on loading the application, the layout's check, the entry | the merchant keeps going to the portal, and the page's checks run each time it is mounted; nothing is assumed of the administrator and the indexer |
| BillDetail | WF on the indexer and on copies growing old; SF on reading and verifying | the viewer comes back or presses verify again |

`MCWebPages` states the fairness of several parts as one condition on their
disjunction; as a behaviour has one part only, this is that part's own fairness.

## 5. Proofs

All theorems hold for every value of the constants allowed by the modules' named
assumptions: any set of users and shops, any amounts, rates with the three fee shares
adding up to the scale, a collateral ratio of at most 100/90, a positive day and scale,
and distinct addresses for core and pool that are neither users, shops, treasury nor
insurance fund; any number of keys, requests, sweeps, timers, events, reports. Sets that
are summed over are finite. TLC evaluates the assumptions on each run.

Every safety invariant and action property that a run asks for is stated by a theorem.
Most of them are not inductive, and what strengthens them is where the argument is.

**Types.** `UsdcTypeCorrect`, `LpTypeCorrect`, `TypeCorrect`: not a formality here, as
that balances stay in Nat after a transaction with five inner transfers needs that the
parts of a fee never exceed it (`FeePartsBounded`), that the merchant's fee is at most the
principal, and that each `Moved` is guarded by the balance it takes from. Allowances of the
USDC token may be any integers, as its `approve` looks at no sign.

**Arithmetic.** The sum over bills and the rebuilt list are recursive functions (`Prefix`),
the sums over holders, accounts and loans are `SumFunction` of the community modules, a
fold. The library's induction theorems are out of the prover's reach, so
`ArithmeticProofs` argues by the least counterexample (`LeastNatural`): a sum along any
listing of a finite set is the prefix sum (`SumIsTotal`), which gives what one entry's
change does to a sum (`TotalUpdate`, `SumUpdate`), that a sum covers its entries
(`TotalCoversEach`, `SumCoversEach`), and how floored fees add up (`TotalScaled`,
`SumScaledBy`).

**The tokens.** `SupplyTracked` and `SharesTracked`: what all balances exceed the supply
by changes only in a transfer to oneself, which both contracts get wrong; each transfer
between two accounts is two updates of one sum. `DailyLimitKept`, from `DailyInv`: the
counter holds what was minted on the day of the last mint, no day after that has seen any,
and that day is not in the future (ledger time never goes back, `LedgerClose`); without
the middle part a mint after midnight could not be known to start its day's count at zero.

**The pool.** `IndexMonotone` and `IndexMonotoneInProtocol`: the index falls in no step
but a repeated initialize, from `IndexForGrows`. `RoundingAlwaysBounded`: no call loses
the pool a share's price, and no withdrawal costs more than it pays; each conversion is
enclosed between a quotient and its successor (`SharesRoundDown`, `ValueRoundsDown`), and
calls combine those. `NewcomersPayTheirWay`: shares bought are worth no more than was
paid, even after the next update of the index. Rounding the index down makes shares cheap;
but the index can rise at the next update only where the deposit lost at least as much by
the rounding of its shares (`DepositSurplus`, `DepositWorth`).

**The books.** What is said here of the pool's loans is said until the pool is initialized
again (`reset`, which stays once it is set, `ResetStays`); the users' lists and the bills
themselves have no such condition. `BorrowedExact` and `UserBillsCorrect`: what the pool
has lent is the sum of the open bills' principals, and every user's list is exactly its
open bills, each once. `LoanBookImplemented`: the protocol implements the abstract loan
book. The books are not inductive as they stand. `BooksInv` strengthens them with type
correctness, `StatusReached` (liquidation also accepts the status Overdue, which no call
ever assigns: a liquidated Overdue bill would take its principal off a total that does not
hold it) and `BillsInOrder` (create_bill writes at the counter, where there must be no
bill yet, or an open loan could be overwritten). The two halves lean on each other:
settling bill b takes b off its user's list and its principal off the total, which needs
that b is counted once (`TotalUpdate`) and that the total covers it (`TotalCoversEach`),
so that the saturating subtraction does not saturate; that `Without` removes exactly b is
`WithoutFacts`.

**The protocol's money.** All of it rests on `BooksInv`. `CoreKeepsOnlyDust`: no
transaction pays out of what the core held, and at most 3 units stay with it, 2 of three
floored fee parts (`FeePartsDust`) and 1 of the halved penalty; for a repayment this needs
that the pool takes back the whole principal, which is the books' doing.
`AlwaysPaidWithCollateral`: a bill that passes the 90 percent check leaves the ratio of
111 percent, floors included, over all loans together (`TotalAppend`, `PayBillDebt`,
`CollateralWithinBalance`). `CollateralAlwaysStays`: no call other than the liquidation of
an own loan, or a repeated initialize, takes locked collateral out of a balance; each call
takes at most what is available (`AvailableLeavesLocked`), and a growing index only adds
(`ValueGrows`).

**Closing loans.** `RepaymentAlwaysPossible`: whoever holds and has approved what a loan
costs passes every check of the repayment and of the calls it makes. This needs
`LoansReal`, since the tokens refuse amounts of zero and the pool refuses a core it does
not know: no bill is for nothing, and none is paid before the pool knows its core. Then the
books say that the pool takes back all of the principal, and what is left with the core
covers the parts of the fee. `LoansAlwaysRecoverable`: while every open bill of a borrower
is within its 111 percent, and none of its bills was liquidated that was not, the borrower's
balance covers the cost of all of them, and a liquidation that is due passes every check.
Covering is not inductive: late fees grow with time while collateral does not. What is kept
is `LoansBacked`: the balance of a user who was never `strained` covers the collateral of
each open loan, rounded loan by loan, added up. Only the payment of a bill can raise that
sum (and there the single collateral over the whole debt, which the check looks at, is at
least the sum of the floored ones, `TotalScaledBy`), a liquidation inside the margin takes
at most the bill's own share of it from the balance (`LiquidationTakes`; one outside of it
may take what covered another loan, and is what strains the user), and every other call
leaves locked collateral alone.

**The mirror.** `NothingEverInvented` and `CreationsNeverOverwrite` hold for any batches,
resends and failures; they need only what a handler between two of its database calls has
seen. `MirrorsAlwaysUndisturbed` and `StatusesAlwaysInOrder`, from `MirrorInv`, say more of
each bill and merchant that is not `disturbed`. `ChainAsLogged` ties the chain to its log:
the successful events of a bill are places in the log (`Places`), each found what the one
before it had led to (`Legal`), and the chain is where the last one led. `AsOf` does the same
for the row: at most one of the bill's events is under way, and the row is as of that event,
or as of the one before it while a handler of the current request has still to write it. A
replayed event then meets a row that is just before or just after it, and an update that
fails because the row is missing cannot happen. What keeps `AsOf` in a batch is
`RowsAfterSend`: two events of one bill in one request, or one that is sent while a handler
of another still runs, put the bill among the disturbed, so that of all others a send starts
one handler at most; `RowsAfterHandler` then goes through the handlers' calls.

**Reports.** `ReportsAlwaysTrue`, from `StatsInv`: the indexed row of a bill is where the
bill is or was (`RowFollows`), what the pool has lent is the sum of the open bills'
(`Books`), a handler has got each figure it has asked for unless the pool could not be read
(`Underway`), and what it got is still true if nothing moved, and no more than the volume
of now if something did (`Truthful`). `VolumesNeverFall` adds `VolumesGrow`: a handler at
work that has its volume has counted no less than any row that was stored when it began
(`BeginningKept`), however many others store theirs meanwhile.

**Completion and delivery.** `CompletedOnceAlways`, from `RaceInv` (an open session has no
completer that won; whoever won has the one bill) and `DeliveryInv` (rows are those of the
winner, senders and batches hold rows that exist, a shop is told of completions only),
with `Grows`: what happened to a session is never undone as far as its bill and row are
concerned. `AttemptsAlwaysExact` and `RowsNeverForgotten`, from `AttemptInv` on top of
these: a row that two sweeps never held is in one hand at most (`SoleHolder`), still due
while a sweep has it (`StillDue`), its sender has read the attempts it still has
(`ReadCurrent`), each request sent is counted, being counted, or an abandoned sender's
(`Counted`), and without a retry time it is in its first sender's hands (`Remembered`).

**The bot.** `ChainsAlwaysBounded` and `NeverStallsAlways`, from `TimersInv`, which counts
timers and callbacks against the resumes that raced a callback (`RoomForATimer`).
`DailyGoalAlwaysKept`, from `DayInv` on top of it: what was done and what callbacks at
work may still do stays within the goal, one scenario per chain beside the first, what
midnight carried over and the bootstraps that a tool counted, both by the goal tracker's
count and by the statistics, of which also the copies in the database and in a tool's
hands are bounded, since a restart continues from them (or, when the restore fails, from
nothing); and the two counters differ by what was carried over (`BothCounted`).
`PoolNeverAhead`, from `SetupInv`: whatever is remembered of a merchant, in the memory of
a process or in the saved document, did happen, although an administrator may have set
another status since (`approved` remembers who was approved at some time); which needs
that a process about to enroll has an applicant (`EnrollsApplicants`) and that a bill in
hand is where the process left it (`CycleKnows`), or has been liquidated since.

**The web application.** `VerdictsAlwaysRight`, from `KeyInv`: a key
somebody holds has a row with its hash (`HeldWorks`), and the verdict on a call that began
with a dead key is never "valid", nor "refused" with a living one (`CallsRight`); rows are
only ever completed or ended. `OneWalletStaysConnected`, from `WalletInv`: the kit has
selected whichever wallet was asked last, and while a reconnection is under way nothing
else has been asked (`AskedSelected`). `EachListedOnce`, from `ListInv`: what is stored or
listed is an event of one of the transactions, whatever the cut; the rest is a case for
each kind of transaction and each part of its events that a list may hold.

Out of reach of the prover, and left to TLC: liveness under fairness
(`EventuallyMirrored`, `CompletionNotified`, `DeliveriesEnd`, `PauseReaches`,
`LenderServed`, `MerchantGetsIn`, `MismatchClears`, `BuyerFindsBill`, `BuyerRepays`), and
that `CanRepay` and `CanLiquidate` are when the actions are enabled, which is to be read
off their definitions. Not proved either are the type invariants of the modules off the
ledger that no theorem needs.

## 6. Not modelled

Parts of modelled components that are left out: drafts and the cancellation of sessions
(no caller), the figures of reports that are fixed percentages of others or count users,
the statistics cards of the buyer's and merchant's pages, the bot's set-up steps that
only move money (`bootstrap.ts:56-108`), the merchant's detail page at the
administrator's.

Whole parts: the generated contract clients; the user interface's components, settings
and context without state of their own; the bot's dashboard, whose routes ask MongoDB for
an id it refuses and always fail; the administrator's applications page, which calls
functions its hook does not return; deployment scripts and documentation; XDR and JSON
parsing, a conversion no property is about. The SDK and the demo shop appear as the other
side of Checkout and WebhookDelivery.

What could come next: the bounds of `Onboarding` and `BillPages` as safety properties
beside their liveness.

Hazards that PROJECT.json lists and no property covers, each with its reason there: what
attempts count when two sweeps hold one row, a list of keys that arrives for another account,
a reconnection that overlaps the user's choice, and a pause that a save writes over. In each
the properties around it leave the case out, and a property of the case itself would only say
that it can happen. Of bills two of whose events race in one batch, of the figures of a torn
report and of what rounding adds up to over many calls the properties say less than one would
wish, which the notes tell too.

## 7. Running

In this directory: `tlc -config X.cfg M` for the pairs in `PROJECT.json`, and
`tlapm M.tla` for the modules named `...Proofs`.
