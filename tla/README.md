# Verification of the MobilePay / ORZAYAH API

TLA+ models of the money-handling core of this repository (`src/apps/api`, a NestJS
service over PostgreSQL through Prisma, and the pages of its clients that move money), the
TLC configurations that check them on small instances, and TLAPS proofs of the properties
that matter most. File names without a directory below are under
`src/apps/api/src/modules/`, or under `src/apps/` where they begin with the name of a
client.

The system is a wallet: users and merchants hold FCFA balances, move them between each
other, take money in from and send it out to Mobile Money operators through an aggregator
(HUB2), buy airtime, gift cards and bill payments from a distributor (Reloadly), put money
aside in pots and prepaid cards, and are paid by QR code. Node runs many requests at once,
and several processes may serve the same database (`src/README.md:69-71`, stateless API),
so every `await` is a point where other requests run. The database is the only shared
state; HUB2 and Reloadly are called over HTTP and call back by webhook. In the clients every
`await fetch` is such a point too: a page goes on reacting to presses, timers and replies.

## 1. Inventory

| Part | State it keeps | Operations | What makes it correct |
|---|---|---|---|
| Ledger (`ledger/ledger.service.ts`) | `Wallet.cachedBalance`, `version`, `isFrozen`; `LedgerEntry` rows | `postDoubleEntry`, `debit`, `credit`, `computeFee` | cached balance = last entry; every entry continues the one before it; no overdraft |
| Internal movements (`wallets`, `payment-engine`, `merchants`, `admin` services) | `Transaction` rows and their unique idempotency key | `transfer`, `collectForMerchant`, `transferFromMerchant`, `fundRetailer`/`debitRetailer`, `recordManualFunding` | no lost update; a key moves money once; the answer is true |
| External settlement (`payment-engine`, `webhooks`) | transaction status, fee, provider reference, `PaymentAttempt`, `WebhookEvent`, goods of a payment made for airtime | `initiateTopup`, `sendToExternalAccount`, `collectForMerchantFromExternal`, `complete…`, `refreshFromProvider`, `processHub2Webhook`, sweep, `confirmPendingPayment` | money follows HUB2's decision, exactly once; decisions are eventually applied |
| Purchases at Reloadly (`payment-engine`, `merchants`, adapters) | transaction rows; goods at Reloadly | `purchaseAirtimeFromWallet`, `purchaseGiftCard`, `payUtilityBill`, `sellAirtime`, `buyGiftCard` | paid in full or not at all; refused = refunded; delivered once; rows conclude |
| Airtime paid by Mobile Money (`payment-engine`, `admin`) | row, latest attempt, refund mark | `purchaseAirtimeFromMobileMoney`, `purchaseAirtimeLite`, `completeAirtimeMobileMoneyDeposit`, `processRefund` | delivered only if paid, once; refunded once, of what was paid and owed |
| Stored value (`collecte`, `cards`) | balance and state of pots, Épargne Gold, virtual cards | create, issue, deposit, withdraw, delete, load, pay by card, freeze | value is conserved; no pot is overdrawn or deleted with money in it |
| QR codes, printed cards, merchants (`qr`, `agents`, `kyc`, `merchants`, `admin`) | `QrBatch`, `QrCode`, `Merchant.status`, `KycDossier` | print, assign, link, attach, create, review, suspend, block | a linked card keeps its merchant; a suspension reaches the codes |
| Limits and lockout (`security`) | failure counters; sums over past transactions | `assertWithinMonthlyLimit`, `assertNotLocked`, `recordFailure` | limit and counter hold under concurrent requests |
| Authentication (`auth`) | refresh tokens, one-time codes | login, refresh, verify, logout | a code or a token opens one session; only the test mode opens one without a code |
| Sessions of the clients (`apiClient.ts` of the five applications) | stored tokens, the shared renewal of a page | `apiFetch`, `refreshAccessToken`, `forceLogout` | a session ends for a cause; every call ends |
| Pages that move money (`web`, `business`, `pay`, `merchant`, `mobile`) | screen, form, polling timers | submit, answer, error, cut, poll, give up, code | an intention is executed once; the screen says what happened |
| Reconciliation sweep (`payment-engine/reconciliation.service.ts`) | none (a timer) | asks HUB2 about the ten newest undecided rows of a day | a decision nobody announces reaches the row, unless newer rows crowd it out |
| Pricing (`pricing`) | brackets, rates | `computeOurFee` | the fee charged is the fee announced |
| Cash collection, card funding, users, expenses, notifications, SMS, administration | one row per operation | single reads and writes | - |
| Back office, pages that only read | - | call the API | - |

Interactions. All balance changes of wallets go through the ledger, inside the database
transaction of the operation. Webhooks, polls by clients and the sweep all end in the same
`complete…` methods. Pots and virtual cards have balances outside the ledger and exchange
money with a wallet in one transaction. Payments of a QR code resolve the code to a
merchant and become an internal movement or an external settlement. KYC review,
administrators and distributors all write `Merchant.status`, some of them the codes too.
The pages share the tokens of their browser, and `apiFetch` sends a call again after a
renewal; what a page believes of a payment comes from the answer to its submission and from
the polls that follow.

What is hard here, and drives the choice of properties (the full list, with lines, is
`hazards` in `PROJECT.json`):

- **Check outside, act inside.** Most operations read a row (status, balance, key, limit,
  token, code, counter) before opening the transaction that acts on it.
- **Retries and replays.** Clients submit an intent again after a lost answer, often with a
  new key; SERIALIZABLE transactions are retried up to three times; some of them call
  Reloadly inside; `apiFetch` sends a refused call twice.
- **Three channels for one decision.** Webhook, poll and sweep race, repeat, and disagree
  on which provider states are final and on the provider's fee. Replies to polls overtake
  one another.
- **A crash between two writes.** The row, the provider's reference and the attempt are
  three separate writes around an HTTP call that cannot be rolled back.
- **Fees at the boundary.** A net amount of zero is refused by the ledger.
- **A sweep with a batch.** Newer undecided rows keep the older ones out.

## 2. Modules

| Module | Models | Composed with |
|---|---|---|
| `Ledger` | `LedgerService` as operators on accounts (row + its entries) | - |
| `Movement` | the legs each internal operation posts, its fees and refusals | extends `Ledger` |
| `MoneyMovement` | abstract: atomic movements, a keyed intent at most once | extends `Movement` |
| `WalletMovements` | concurrent requests over the ledger: key lookup, checks, snapshot, optimistic lock, retry, crash | extends `Movement`, refines `MoneyMovement` |
| `ExternalMoney` | abstract: HUB2 decides once, the decision is applied once | - |
| `Settlement` | rows, attempts, webhooks, polls, the selection of the sweep, finalisations | refines `ExternalMoney` |
| `PaidDelivery` | abstract: a purchase is paid whole, delivered once while the money is held, or given back whole | - |
| `Purchases` | purchases at Reloadly from a wallet | refines `PaidDelivery` |
| `AirtimeOrders` | airtime paid by Mobile Money, delivery and refund | refines `PaidDelivery` |
| `StoredValue` | pots, Épargne Gold, virtual cards | - |
| `MerchantCards` | batches, cards, static codes, merchant status | - |
| `Accounts` | clients' calls with their tokens, and the guards in front of a movement: session, lock, code, limit | API and clients in one module |
| `FollowUp` | the pages that move money, the payment routes behind them and HUB2 | API and clients in one module |
| `MC…` | the values of the constants for TLC | extend their module |
| `…Proofs` (eight) | theorems | extend their module |

How state and actions correspond to the code:

**WalletMovements.** `ledger[w]` is a `Wallet` row with the `LedgerEntry` rows of that
wallet in order of insertion; `posted` are the committed `Transaction` rows. A request goes
`received` (key lookup: `ReturnExisting`), `admitted` (lockout, PIN, limit, recipient, status
of the merchant: any of them may fail, `Reject`), `open` (its database transaction has read
the rows: `snapshot`), then `Commit`, `Refuse`, `DuplicateKey`, `Retry` or `GiveUp`. `View`
is the ledger as the request sees it. Commit requires that the version it read is still the
version of the row, which is both what `where: {id, version}` demands and what Postgres
would detect. SERIALIZABLE transactions may also abort for no visible reason.
`Lose` is a crash or a broken connection in any place. `MANUAL` (manual funding) runs at the
default isolation: only the version protects it. The commission legs have no counterpart
wallet, as in the code (`wallets.service.ts:219`).

**Settlement.** `status`, `feeAmount`, `providerRef` are columns of the row, `attempt` the
status of its latest `PaymentAttempt`, `caller` how far the creating request has come, `hub`
the truth at HUB2, `mail` the webhooks on their way (lost, repeated, reordered at will),
`tasks` the calls of a `complete…` method under way, `heard` the 45-second window in which
a webhook makes polls trust the database. `flow[t]` is what the entries of `t` add up to. A
`complete…` method is one step: it is one SERIALIZABLE transaction that reads the status
first, and `WalletMovements` shows what that rests on. `RefreshFromProvider` is the poll of
a client and the sweep alike; they call the same method. A pass of the sweep is `Sweep(t)` for
a row it takes: `Selectable` is its query, `Crowded` says that `Batch` newer rows come first
(transactions are numbered in the order of their creation), `old` are the rows older than
`MAX_AGE_MS`. The minimum of 90 seconds is left out: a younger row becomes due by itself.
A payment made for airtime (`ORZAYAH_AIRTIME`, the field `airtime` of its order) calls Reloadly
after the credit, inside the transaction that is retried: `served` counts what is delivered, and
a refused order leaves a FAILED row with the wallet credited, which is why `MoneyFollowsHub2`
speaks of HUB2's decision. `FeesConsume` names the payments whose finalisation always throws.

**Purchases, AirtimeOrders.** `delivered[r]` is the truth at Reloadly, `status` what the row
says. An open database transaction holds its row locks (`WalletLocked`, `KeyLocked`) while
Reloadly is called. In `AirtimeOrders` the finalisation runs in no transaction: read, call,
record the attempt and conclude are separate steps, for several finalisations at once;
`trouble` is a history variable that says which overlap or loss has occurred. A refund takes any
row that is not `refunded`, whatever its status, as `processRefund` does: one of a row that
`listPendingRefunds` would not have shown is noted as `unowed`, and counted in `early` if the
money had not been collected.
Both keep one promise, `PaidDelivery`: pay, deliver, give back, whoever collects the money. Its
`held` is the debit of the wallet, standing or waiting to be committed, or the collection of
HUB2 until the first transfer back; its `excused` lists what the code cannot rule out (a
transaction rolled back or dead after the call, overlapping or lost finalisations, a late
delivery, a refund of a row that was not listed). A gift card, a bill and a merchant's sale are never excused. In the open transaction
of an airtime purchase the refund and the debit are of one commit, so that a refusal takes
effect there. A second refund gives back nothing that is held; `RefundedOnce` bounds it.

**StoredValue, MerchantCards.** Each request is a check, that reads, and a later write.
`stale` and `overlapped` are history variables: somebody wrote what a request had read and
not yet used. In `StoredValue` a pot whose state is `NONE` is a row yet to be created, and what
is in a row that is deleted is lost to its owner: `Kept` counts it as nothing. In
`MerchantCards` a merchant, its static code or a batch has the name of the request that
creates it.

**Accounts.** A call of a page is what `apiFetch` does for it: it is sent with the access
token of the device, refused (401) if the token is over or the code it carries is wrong,
then waits for a renewal that all calls of the page share, and is sent once more; a second 401
is an error like another, and the tokens stay. It is a renewal refused that ends the session,
and any answer but a 2xx is a refusal: a dead token (`FindToken`, `FindExpired`), but also the
429 of the throttler or a 5xx (`RenewalFails`, `DieInRotation`). In a browser a renewal without
any answer keeps the tokens (`RenewalCut`), in the mobile application it does not
(`CutSignsOut`). The server's side of the call is
cut at each of its reads and writes: find the token, revoke it, issue another; read the lock
and the failures, compare, count; sum the past, record the movement. A login is two requests:
`LOGIN`, the password with its lockout, sends a code, or opens a session at once where
`SKIP_LOGIN_OTP` is set; `VERIFY`, password and code, opens one. `raced` (tokens revoked under
another refresh), `bare` (sessions opened without a code), `excused` (devices something has cost
their session) and `uncounted` (a limit read while other money was on its way) are history
variables.

**FollowUp.** `page` is a record of what one page does: the route it calls, the screen it makes
of each answer, which screens lead back to the form (`back`), and how it follows a payment
(`poll`); there is one for each of 26 pages and forms. `screen`, `about`, `waiting` are its React
state; `timers` the intervals that run, one for each payment, with the polls sent so far
(`ticks`), and `ref` the payment followed last. A press stops no timer and forgets no reply;
an earlier timer is stopped by the start of another where the page keeps one reference and clears
it first (`restarts`), and by loading the page anew (`chained`). Replies to polls are a set: they come in any order or never. `stage` and
`reply` are the submission and its answer, `row`, `linked`, `next` the payment's row, whether
its reference is stored and what is awaited from the payer, `hub` HUB2's decision. What brings a
decision to the row may never come: an inquiry may be answered by nothing of use, and a
conclusion that throws is caught (`Ask`). A key is made for each call and sent with no other, so
that no key is modelled; the only route of which a second execution finds the first is the
linking of a card (`single`: the card is ACTIVE, the phone is taken). Three history variables
say what the client was told: `misled` of an error about a payment that was, or could still be,
executed; `dismissed` of neither, when it went back to the form with a payment open; `presumed`
of a success that only the address of a page announced.

Bounds named in the modules: `MaxAttempts` (in `WalletMovements` and `Purchases` the code's
`MAX_SERIALIZATION_RETRIES`, in `Accounts` the attempts before the lock), `MaxSends` (webhooks
per transaction), `MaxFaults` (crashes and lost calls), `Batch` (in `Settlement`, rows a pass of
the sweep takes), `MaxTokens` and `MaxCodes` (sessions
and one-time codes issued), `MaxPresses`, `MaxTicks` and `MaxReplies` (presses of a button,
polls before a page gives up, replies on their way at a time). They are constants: the proofs hold for every
value.

## 3. Runs

Each run is `tlc -config <run>.cfg <module>`. Deadlock is checked in `wallet`, which has an
explicit `Done` step. In the others the system may really stop: nothing obliges a client,
an administrator or HUB2 to act again.

| Run | Instance | What it shows |
|---|---|---|
| `wallet` | 2 requests, for 1 or 2 intents, 3 wallets, 3 attempts; eight operations: transfers in both directions, a payment, a transfer the fee consumes, retailers, a movement outside SERIALIZABLE | `LedgerConsistent`, `AtMostOncePerKey`, `AnswersAreTrue`, refinement of `MoneyMovement`, and `EveryRequestEnds` under fairness |
| `settlement` | 2 transactions of every type, 1 webhook each, 1 lost or repeated finalisation, a sweep of 1 row; one payment its fees consume, one made for airtime | `MoneyFollowsHub2`, `MoneyIsConserved`, `SettledStays`, refinement of `ExternalMoney`, `DecisionsAreApplied` |
| `purchases` | 3 purchases of the four routes, 2 wallets, 2 keys, 2 attempts | refinement of `PaidDelivery` (`PromiseSpec`), `RowsAreTrue`, `DeliveriesAreBounded`, `RowsConclude` |
| `airtime` | 1 purchase, 2 finalisations, 2 administrators, 2 faults | refinement of `PaidDelivery` (`PromiseSpec`), `DeliveredTwiceOnlyIf`, `RowsAreTrue`, `RefundedOnce` |
| `stored_value` | 4 requests on a pot, a plan yet to be created, Épargne Gold and a card | `GoldIsCovered`, `OnlyStaleReadsHurt`, `ValueIsConserved` |
| `merchant_cards` | a batch of 2 cards, a second batch or a merchant or retailer, 2 competing requests, and any sequence of reviews, suspensions and blockings | `AnswersStand`, `ActivatedCodesKeepTheirMerchant`, `SuspensionReachesCodes` |
| `accounts` | 3 calls in six scenarios, from two tabs of a browser and the application on a phone; 6 tokens, 2 one-time codes, lock after 3 failures, limit 3 | `SessionsAreIssuedOnce`, `SessionsEndForACause`, `EntriesCountTwiceAtMost`, `LimitYieldsToOverlapOnly`, `EveryCallEnds` |
| `follow_up` | 13 pages, one of each behaviour; 2 presses, 2 polls before giving up, 2 replies on their way | `OneExecution`, `ScreensAreTrue`, `TimersRunOn` |
| `settlement_doc_refund`, `purchases_sale`, `airtime_refund`, `stored_overdraft` | as the run they belong to | a violation each: see section 6 |

Why these bounds are enough. Every hazard listed involves at most two concurrent actors on
one row and a third that replays or observes; the instances have two or three, and the
amounts are chosen so that one movement succeeds and two together do not, so that fees
reach zero and so that a provider's fee exceeds what is left. Longer histories repeat the
same states. A purchase in `AirtimeOrders` shares nothing with another, which is why one is
enough there. Symmetry is declared on requests, keys, tasks and administrators where no
liveness is checked. In `settlement` a batch of one row and two transactions is the smallest
case in which the sweep leaves a row out: the newer one crowds the older one out. In
`follow_up` two presses give a payment whose timer outlives it, and two replies an order to
confuse. In `accounts` the scenarios stand in for all triples of
calls: those that share a page, a device or only the account, with a wrong code, a code used
twice, two logins at once, a logout, and amounts that exceed the limit together. The pages left out of
`MCInUse` have the record of one that is there, but for one screen. For the theorems no
bound matters.

Most properties state an exact boundary rather than an absence: where the code allows a
race, the property says which race is needed (`OnlyStaleReadsHurt`, `DeliveredTwiceOnlyIf`,
`AnswersStand`, `SessionsAreIssuedOnce`, `LimitYieldsToOverlapOnly`, `OneExecution`), so
that anything worse than the known race is caught.

## 4. Fairness

- `WalletMovements!FairSpec`, `Purchases!FairSpec`: weak fairness of `Handle(r)`, the code
  between two `await`s: the event loop runs every handler to its end. Clients need never
  send; `Lose` and `Die` model the process that dies. `Retry` cannot go on for ever because
  `attempt` grows.
- `Accounts!FairSpec`: weak fairness of the client's and the server's side of a call, and of
  a renewal: both event loops go on, and `fetch` ends, with an answer or with an error. That
  it ends is what the platform promises, not the application: `apiFetch` sets no timeout.
- `Settlement!FairSpec`: weak fairness of `WindowPasses` (time), of `Sweep(t)`, hence only while
  a pass takes row `t` (the ten newest younger than 24 hours,
  `payment-engine/reconciliation.service.ts:61-78`), and of a finalisation of `t` under way.
  The first is the timer of the sweep with a HUB2 that answers sooner or later. No
  fairness is assumed of webhooks, of polls by a client, of HUB2's decision, or of the creating
  request. `DecisionsAreApplied` says what this gives and no more: its premise
  `caller[t] = "done"` is needed, for if the request dies after HUB2 accepted and before the
  attempt is stored, nothing can find the collection again; and it excepts a row newer rows
  crowd out again and again, a row that is a day old first, and the success of a payment whose
  fees consume it, which no finalisation can apply.
- `FollowUp` states no fairness and no liveness: a page may be closed at any time, and what the
  API owes the row is the business of `Settlement`.

## 5. What is proved

All proofs are for arbitrary constants that satisfy the assumptions the modules name
(`NoWalletAssumption`, `PayloadsAssumption`, `RequestsAssumption`, `SettlementAssumption`,
`StoredValueAssumption`, `PurchasesAssumption`, `AirtimeAssumption`, `CardsAssumption`,
`AccountsAssumption`, `FollowUpAssumption`; `FiniteRows`, that wallets, rows and requests are
finitely many, in the two modules that add them up). Each theorem is of the form `Spec => []P`,
`Spec => [][A]_vars` or `Spec => AbstractSpec`, from an inductive invariant `Inv`; the type
invariant is proved in every module. Every invariant and every action property that a passing
run checks is proved, and so are the four refinements.

**WalletMovementsProofs.** First the ledger: `RecordLemma`, `DebitLemma`, `CreditLemma` and
`PostLemma`: a posting that is not refused keeps accounts well typed and their chains sound,
only ever appends entries, and moves exactly its amount. Then `TypeCorrectness` (hence no
negative balance), `LedgerIsConsistent`, `KeysAreUsedOnce`, `AnswersCanBeTrusted`,
`ReadsAreHistory`, and `ImplementsMoneyMovement` (every reachable step is an atomic movement
or a stutter). The invariant is the conjunction of these properties and `Progress`, which
says what each `pc` implies. They need each other: a commit writes balances computed from a
snapshot, so `LedgerConsistent` is not inductive without knowing that a snapshot of the
current version holds the current balance; that is `SnapshotsAreHistory`, which in turn
needs that entries are only appended (`Grows`). `MovementLemma` follows the legs of one
operation through `View` to the new ledger; the refinement then compares its sums with
`Cost` and `Net`.

**SettlementProofs.** `MoneyOnlyFollowsHub2`, `SettledForEver`, `ImplementsExternalMoney` and
`Conservation`.
The invariant: `ProgressOK` bounds what can be known of a transaction by how far its request
has come (no decision before HUB2 accepted; no finalisation before the reference is stored),
`FlowOK` relates its entries to its status and to HUB2's decision, `MailOK` and `TaskOK` say that whatever is under
way carries the decision HUB2 has taken. Without them a webhook could bring a decision HUB2
never took. `DeliveryOK` adds what Reloadly has delivered: never before HUB2's success, and no more
often than a finalisation was completed, lost or begun again. `SettledForEver` uses the one subtle case, the top-up confirmed before its
reference is stored: its status may go back to PROCESSING, but it had no entries then, so it
was not settled. `Conservation` speaks of sums over all wallets and all transactions
(`MapThenSumSet`, a fold over sets). What such a sum is has to be proved first, for any finite set:
the fold picks an element at each call, so `SumExists` and `TotalIs` show, by taking a least
subset on which they fail, that there is a function that adds up every subset and that the fold
is its value; `TotalMoves` then says that changing one term changes the sum by as much,
`TotalStays` that moving an amount between two wallets does not. A step of the settlement
that touches money either adds one amount to a wallet and to the entries of its transaction, or
moves an amount between two wallets.

**PurchasesProofs.** `NoPartialPayment`, `TrueRows`, `BoundedDeliveries`, `KeepsPromise` and
`PromiseSuffices`. `Row(r)` says what each
place of a handler has left in the row and in the ledger, `Path(r)` how it can have come
there, `Goods(r)` what Reloadly may have delivered by then. `DeliveriesAreBounded` compares two
requests with one key, and needs `HeldOnce` (the unique key has one holder) and `LockedOnce`
(an open transaction excludes another on its locks). `KeepsPromise` is the refinement: `Seen` says
for each abstract action what a step of one request has to look like, and one lemma per action
of the code (`PlaceKeeps` ... `ConcludeKeeps`) that it does. A step that undoes a payment must show
that nothing was delivered, or an excuse, which is what `Goods` is for; that a payment existed
needs `Opened` (a transaction under way was counted). `PromiseSuffices` proves, from `PaidDelivery`
alone, what one expects of a purchase: the promise is not an empty one.

**AirtimeOrdersProofs.** `PaidFirst`, `DeliveredOnce`, `TrueRows`, `OneRefund`, `KeepsPromise`. Every step
concerns one purchase, and `Purchase(r)` is about one: `Begun`, `Informed` (a finalisation
carries HUB2's decision), `OneByOne` and `Ordered` (without trouble there is one finalisation,
and it is where the row says), `Unserved`, `Said`, and `Booked` for the refunds. Most parts are
implications from the absence of one trouble, which is what makes `DeliveredTwiceOnlyIf` an
exact boundary. `KeepsPromise` and `OneRefund` need one more invariant, `Collected`: whoever is at
a desk for a purchase, or has refunded it, does so for money HUB2 has collected, unless the row was not
among those listed; and what was sent before the collection is what `early` counts. Most steps are `Quiet`: they
note a trouble at most; the others are HUB2's decision, the call of Reloadly and the transfer back.

**StoredValueProofs.** `GoldCovered`, `OnlyStaleHurt`, `Conservation`. What carries the first two is
`Current`: a request whose reading is not marked stale could take its decision again now.
`Conservation` rests on it too. The sums over accounts, rows and fees, from the same lemmas as in
`SettlementProofs`, change by amounts that cancel, stale or not, but for one step: a deletion takes
away what is in the row. That this is nothing, unless the request acts on an old reading, is
`Current`; that the row is then among the blamed ones, and stays so, is the exception the property states.

**MerchantCardsProofs.** `AnswersAreKept`, `SuspensionIsComplete`, `CodesAreKept`. `Waiting`,
`Reading` and `Told` say what a request has written, what its check still knows when nothing
was written since, and what its answer is worth; `Reached` relates a code to its merchant.

**AccountsProofs.** `SessionsIssuedOnce`, `SessionsEnd`, `EntriesCount`, `LimitYields`.
`TokensOK`: who may still hold a token, and who has found it live; `CodesOK` counts the sessions
opened by a code against the codes sent, by cardinalities of finite sets, those in `bare` apart; `CausesOK`: a device that has
not been excused holds a token no other page is renewing; `FailuresOK` counts each wrong
entry, sent once or twice; `LimitOK`: what is on its way fits, or is excused.

**FollowUpProofs.** `ExecutedOnce`, `TrueScreens`, `TimersStop`, for any number of presses, of polls
before a page gives up and of replies on their way. `RowsOK` relates a press, its row and HUB2;
`FollowsOK` says that a timer or a reply is about a payment the API has answered for, and that an
outcome in a reply is that of the row, however old it is; `MisledOK` that an earlier payment still
open has been called failed or left behind; `FailedOK`, `SuccessOK` and `SteadyOK` what the screen
can say, and `ChainedOK` that a page loaded anew keeps nothing. The 26 pages enter through one
lemma, `PageLemma`, of what their records have in common.

Only model-checked: the liveness properties (`EveryRequestEnds`, `DecisionsAreApplied`,
`RowsConclude`, `EveryCallEnds`), as liveness under fairness is outside
what the prover handles.

## 6. Where code and documentation part

Shown by a run:

- **`settlement_doc_refund`**: "Remboursé automatiquement si HUB2 échoue après débit"
  (`payment-engine.service.ts:95-96`). When the call to HUB2 throws, nothing refunds.
- **`purchases_sale`**: `sellAirtime` claims the scheme of `purchaseAirtimeFromWallet`
  (`merchants.service.ts:396`) and does not refund a sale Reloadly refuses.
- **`airtime_refund`**: a refund is said to be the total the customer had paid
  (`admin.service.ts:196-197`); fees that were part of the amount are added to it, and for a
  purchase without account the fee collected is not the one returned.
- **`stored_overdraft`**: two concurrent withdrawals take more than a pot holds.

Observed while modelling, as boundaries in the properties or as hazards:

- A network cut is said to leave the outcome unknown (`web/src/components/StatusModal.tsx:39-51`);
  `apiFetch` turns it into an `ApiError` of status 0, which the pages show as a failure.
- The page a card payment comes back to shows a success when its last poll is cut and its own
  address says so, whatever the row (`pay/src/app/retour/page.tsx:42`).
- The timer of an earlier payment is stopped by no new press (`web/src/app/payer/page.tsx:89-131`
  and the pages like it): its outcome may be shown in the place of that of the later one. The
  checkout overwrites the only reference to a running timer (`pay/src/components/CheckoutPage.tsx:270`),
  which then rewrites the screen for as long as the page is open.
- A notice that says a payment goes on is closed back to an enabled form, and the next press pays again.
- Any answer but a 2xx to a renewal ends the session (`web/src/lib/apiClient.ts:50`): the 429 of the
  throttler or a 502 signs the user out, although the token is good.
- `SKIP_LOGIN_OTP` gives a session for the password alone (`auth/auth.service.ts:229-232`).
- `processRefund` looks at `refundedAt` and the payer only: given the id of a delivered or of an
  unpaid purchase it sends the money (`admin.service.ts:201-222`).
- A payment made for airtime credits the wallet before it orders: if Reloadly refuses, the row is
  FAILED and the credit stays (`payment-engine.service.ts:848-875`).
- The monthly limit sums every outgoing kind of the month, those that are never checked
  against it included (`security/kyc-limits.service.ts:56`); `spent` counts the checked ones only.
- A key is said to make an intention safe to repeat (`web/src/lib/apiClient.ts:28-30`); the
  pages make a fresh one for each press.
- The sweep says that older rows are taken up by the next passes
  (`payment-engine/reconciliation.service.ts:74-75`); each pass takes the newest again.
- A wrong secret code is answered 401, which `apiFetch` takes for a session that is over: it
  renews it and sends the code again, so that one wrong entry counts twice.
- Two tabs of one browser renew with one token; the loser clears what the winner stored.
- The mobile application multiplies amounts of pots by 100 (`mobile/src/components/PotsScreen.tsx:108`) and
  so do the routes it calls (`collecte.service.ts:82`, 125, 193, 236).
- `purchaseAirtimeLite` makes its own key for each call; `initiateTopup` looks its key up but
  stores another. A replay of either starts again.
- Funding and debiting a retailer take no key, although `src/README.md:62-64` asks for one
  on every route that moves money.
- A Mobile Money payment whose fees reach its amount can never be finalised: the ledger
  refuses a net of zero. Top-ups were corrected for this, payments were not.
- The branch that would deliver the whole amount of a LITE purchase comes after a return.
- A success costs HUB2's fee when a webhook brings it and nothing when a poll does.
- `confirmPendingPayment` takes any PENDING transaction with a destination, top-ups included.
- Commissions are debited without a credit to a platform wallet, against the wording of
  `schema.prisma:585`.
- `linkQrToNewMerchant` is documented for a blank card (`qr.service.ts:20-24`) and tests the
  status alone: a code that already names a merchant, but was never activated, is taken too.
  Its replay answer names whatever merchant the card leads to (`qr.service.ts:48-55`).
- Suspending a retailer as distributor leaves its codes active, unblocking a code ignores its
  merchant; a distributor can also lift the suspension an administrator imposed.

## 7. Not modelled, and why

Registration and its code, and the change of the secret code, guard a single write by a read
of the same row. Card funding, expenses, notifications, users, permissions and SMS are single
writes with no interaction. Pricing tables are data: every fee an order can carry is allowed.
PIN checks, limits and merchant status appear in the movement models as refusals that may
always happen, and in `Accounts` for what they are. Dynamic and personal QR codes and payment
links are rows created active and never changed; the payment of a code ends in `Movement`
or `Settlement`. The steps of a form before the last, fee previews, navigation,
translations, layout, the back office and the pages that only read hold no state a
property could be about; they, and the CRUD routes, are most of the lines of the repository,
which is why the modelled share of it is small. Formatting, hashing and images are
left out.

Abstractions that matter: amounts are small numbers and only their order relations count;
a SERIALIZABLE transaction is one step outside `WalletMovements` and `Purchases`; the
transaction of `linkQrToNewMerchant`, at the default isolation, is one step because its
writes do not depend on what it reads inside. In `Settlement` the finalisation of a payment for
airtime is one step with its call of Reloadly, and a conflict that repeats it a step of its own
(`RetryTask`); a row grows old only after those created before it. In `FollowUp` what a conclusion
does to money, the sweep and the 45-second window are left to `Settlement`: there the row learns
of a decision at any moment or never. Two timers of one payment (a second one is started when its
code is taken) are one, whose polls are counted anew.

## 8. Plan

Order followed: ledger and movements (the base of everything), settlement (the hardest
concurrency), the other users of money, merchants and codes, then the guards in front of a
movement, the pages, the selection of the sweep, and the proofs of every component.

What would add most next:

1. The payment of a code through `MerchantCards` into `Movement`, so that a suspension and a
   payment of the same code meet.
2. `Accounts` with registration, once its one-time codes are kept apart from those of a login.
