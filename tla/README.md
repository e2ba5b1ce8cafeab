# A verification project for kasma-backend-megaplatform

TLA+ models of the platform's backend (NestJS, PostgreSQL, MongoDB, Redis and
BullMQ), TLC runs that check them on small instances, and theorems that TLAPS
proves for every value of the constants. The reference of every definition is
the code under `src/`; `PROJECT.json` maps each definition to its lines.

Contents: 1 the system; 2 its components; 3 the modules; 4 the runs; 5 fairness;
6 the proofs; 7 what the code and its documents disagree on; 8 what is
abstracted or not modelled; 9 the plan.


## 1. The system

One NestJS application serves four domains (`ecommerce`, `social`, `blog`,
`learning`) and the services they share (`auth`, `user`, `registry`, `media`,
`mail`). Requests run as asynchronous functions; **a step of every model is the
code between two `await`s**, and steps of different requests interleave freely,
since several processes serve the API. State is in four places that share no
transaction:

| store | what is there | what the code relies on |
|---|---|---|
| PostgreSQL | orders, wallets, gift cards, revenue, payouts, accounts, memberships | transactions at READ COMMITTED, `FOR UPDATE` locks where asked for, the row lock of an uncommitted `UPDATE` |
| MongoDB | carts, ledger, messages, article bodies | one document is written atomically, whole |
| Redis | locks (Redlock), sessions, one-time caches | a time to live that runs whatever the holder does |
| BullMQ (Redis) | `sales-queue`, `marketing-queue`, `mail-queue` | each job goes to one worker of the queue, a job whose worker died runs again once, an id that exists is ignored |

The transaction microservice is called by HTTP (`TransactionBridgeService`);
a call may be refused, may not arrive, or may succeed with its answer lost.

How the parts of the core interact:

    ShoppingCart --cart--> createOrderFromCart --orders--> updateOrderStatus
         |                        |       |                      |
    marketing-queue          sales-queue  bridge       sales-queue: order-settlement
                                                                 |
       processRefund                            SalesProcessor | SettlementProcessor
        |         |                                              |
    creditUser   bridge                              settleOrder -> vendor_revenues
        |                                                        |
    wallet, ledger                           createPayoutRequest, processPayout -> bridge


## 2. The components

For each: the state it keeps, its operations, what is hard about it, and what
makes it correct.

**Wallet, gift cards, ledger** (`finance/wallet`). State: `store_credits`
(balance of a user), `gift_cards.status`, `FinanceTransaction` documents.
Operations: `getBalance` (inserts a missing wallet), `redeemGiftCard`,
`creditUser`. Hard: read-modify-write of a balance from two code paths, of which
one takes a Redis lock that may expire; no unique index on the user, so that a
user may get several wallets; a ledger outside the transaction; a commit whose
reply is lost. Correct: no credit lost, doubled or unaudited; a card used up
exactly when it is credited.

**Refunds** (`operations/refund`). State: `credit_memos`, `orders.status`.
Operation: `processRefund` by store credit, gateway or hand. Hard: `creditUser`
commits its own transaction inside the refund's and needs a second connection of
the same pool; `updateOrderStatus` and `cancelOrder` write the same status without a
memo. Correct: no memo without money; a refund's memo and status become visible
together, and only another writer undoes the status; every refund ends, unless the
pool is used up by calls that wait for one another.

**Order status, settlement, payouts** (`sales/order-management`,
`sales.processor`, `marketplace`). State: `orders.status`, the jobs of
`sales-queue`, `vendor_revenues`, `payout_requests`. Operations:
`updateOrderStatus`, `cancelOrder`, the two workers, `settleOrder`,
`createPayoutRequest`, `processPayout`. Hard: two workers on one queue, rows
saved one at a time, stalled jobs, a gateway called before the database is
written, two payouts over the same rows. Correct: settlements complete, revenue
settled once and only when paid, a processed payout was paid, every payout ends,
unless the pool is used up by payouts that have failed and wait for one another.

**Cart and checkout** (`sales/shopping-cart`, `sales/order-management`). State:
the cart document, the abandoned-cart job, orders and order items, jobs, payment
sessions. Operations: the cart's five and `createOrderFromCart`. Hard: three
stores without a common transaction, whole-document saves, failures at every
`await`. Correct: a split order is complete or absent, jobs and payments only for
orders that exist, the payment covers the orders, a success is one.

**Inventory** (`logistics/inventory`). State: `warehouse_inventory`. Operation:
`adjustStock` under a Redis lock of 5 s. Hard: nothing but that lock keeps two
adjustments apart, and it may expire before the save; no unique index on warehouse
and product. Correct: no adjustment is lost without an error for somebody. Returns
(`operations/rma`) would restock through it, but the only caller of `updateStatus`
never asks for that.

**Accounts and sessions** (`auth`, `user`). State: `users`, `user_credentials`, the
profile documents, `otps`, `auth_sessions`, and in the cache pending registrations
and the mapping of every token. Operations: register, login, `verifyOtp`,
`resendOtp`, `cancelOtp`, `refreshTokens`, `logout`, `logoutAll`; `adminUpdateUser`,
`updateProfile`, `changePassword`, `deleteUser`. Hard: rows are read, awaited over
and saved whole, without a transaction or a lock anywhere, and a `save` inserts a
row again that was removed in between; a code may be found twice; a session is two
cache entries and a row, each written and deleted on its own. Correct: an ended
token stays dead, a code makes one account, and a suspension or a deletion is
undone by nothing but a call that had read before it.

**Connections, notices, posts, feeds** (`social`). State: the rows of
`social_connections`, the counters of the profiles, posts, comments, reactions and
stories with the counters that follow them, tags and mentions in MongoDB, notices.
Operations: follow, friend request and answer, block, profile, suggestions; create,
repost, comment, react and delete; the three feeds; the notice lists. Hard: counters
are incremented apart from the row they count, each relation is looked for before it
is inserted, whole entities are saved from an earlier read, and a feed reads
connections and posts in awaits of their own. Correct: a block is effective, a
counter is the number of its rows, what was deleted stays so, a feed shows only what
the privacy of a post allows.

**Groups and conversations** (`social/group`, `social/messaging`). State: groups with
their members and the approval of their posts, conversations with participants and
messages. Operations: those of `GroupService` and `MessagingService`. Hard: a
membership is looked up, checked and saved as a whole while moderators work on it; the
size of a conversation is counted before members are added. Correct: counters, a ban
or a removal that stays, the limit of members.

**Articles and products** (`blog/content`, `blog/advanced`, `product-catalog`). State:
a row in PostgreSQL with a document in MongoDB, revisions, redirects, short links.
Operations: create (with a compensating delete), update, delete, publish by a job,
clean up by another, search. Hard: two databases without a transaction, a job and an
editor that save the same row. Correct: no text is lost, a create that failed leaves
no row.

**Cached tables** (`coupon`, `promotion`, `blog/display`, `blog/seo`). State: a row and
its copy in Redis. Hard: a reader fills the cache with what a writer has replaced
since. Correct: an entry is what the table holds.

**Learning** (`learning`). State: courses, chapters and lessons, enrollments, progress,
attempts and submissions, certificates, points, reviews, notes. Hard: attempts,
certificates and reviews are counted before they are made. Correct: certificates and
attempts are earned, single and within their limit; strict order is enforced.

**Registry** (`registry`). State: the modules there are, each with what it needs, and
those a tenant has installed. Hard: what depends on what is checked before the save.
Correct: an active module has all it needs, active.

**Marketing and back office** (bundles, affiliates, loyalty, abandoned carts, support,
wish lists, returns, procurement, fulfillment, shipping, warehouses, subscriptions,
pre-orders, product reviews, tax, currency, analytics, taxonomy). State: rows that are
inserted and given a status, and documents that are saved as a whole. Hard: documents
without a lock, look-ups before an insertion. Correct: what was added stays, what is
meant to be single is.

Mail, media, idempotency interceptor, guards and gateway are not modelled;
`PROJECT.json` lists every component with its status and the reason.


## 3. The modules

| module | models | state, in the code's words |
|---|---|---|
| `CreditBook` | the abstract promise of the wallet | the set of credits and the set of used cards |
| `Wallet` | `WalletService`, `LockService` | `card`, `rows`/`bal` (`store_credits`), `rowLock`/`cardLock` (PostgreSQL row locks), `redlock` (Redis), `target`/`seen` (a request's locals), `ledger` |
| `Refund` | `RefundService` over `Wallet`; `updateOrderStatus` and `cancelOrder` as the other writers of the status; the pool; the gateway | `rpc`, `method`, `status` (`orders.status`), `orderLock`, `memos`, `gateway`; `upc`, `wanted` of an update; the history variables `writer` (who wrote the status last), `found` (the writer a refund had read) |
| `Marketplace` | `OrderManagementService` (status), `SalesProcessor`, `SettlementProcessor`, `SettlementService`, `PayoutService` | `status`, `job`/`worker`/`try`/`todo`, `rows` (`vendor_revenues`), `payout`, `pc`/`claim`/`payLock`, `settled`, `paid`; the pool is counted from `pc` (`InUse`) |
| `Checkout` | `ShoppingCartService`, `createOrderFromCart` | `cart`, `job`/`jobItems`, `local`, `txn`, `orders`/`items`, `jobs`, `sessions` |
| `Inventory` | `InventoryService.adjustStock`, `LockService` | `lock` (Redis), `rows`/`stock` (`warehouse_inventory`), `target`/`seen` |
| `Users` | `UserService` | `status` (a row of `users`), `password` (`user_credentials`), `profiles`; a request's `call`, `pc`, `target`, `seen` |
| `Auth` | `AuthService`, `OtpService`, over `Users` | `otp`, `reg` (`auth:reg:*`), `live` (`auth:token:*`), `sessions` (`auth_sessions`); a request's `given`, `data`, `listed`, `todo` |
| `Calls` | what a request of the social, content and back-office services is | `call` (the operation and its arguments), `pc`, the locals `target`, `seen`, `todo`; the history variables `stale`, `before` |
| `Connections` | `ConnectionService`, `ProfileService`, `DiscoveryService` | `links` (`social_connections`), `profiles` (three counters), `activity` |
| `Notices` | `NoticeService` and its clients | `notices`, `unread` |
| `Posts` | `PostService`, `CommentService`, `ReactionService`, `StoryService`, the hashtag index | `posts`, `comments`, `reactions`, `stories`, `docs` (MongoDB) |
| `Feed` | `getPostById`, `NewsfeedService`, `TrendingService` | `listed`, `shown` |
| `Groups` | `GroupService` | `groups`, `members` |
| `Messaging` | `MessagingService` | `talks`, `parts`, `messages` |
| `Lists` | the routes of the social module that only read | |
| `Social` | the composition of the eight, and its properties | |
| `Records` | what TypeORM does to one entity | `rows` (the entity each request has inserted), `held` (what it has read besides) |
| `Content` | articles and products, revisions, redirects, short links, the two jobs | `details`, `revisions`, `redirects` |
| `Caches` | coupons, promotions, menus, site map and feed with their copies | `cache` (Redis) |
| `Learning` | the services of `learning` | `points` |
| `Registry` | `RegistryService` | (`rows`) |
| `Marketing` | bundles, affiliates, loyalty, abandoned carts | `logged`, `abandoned` |
| `Backoffice` | support, wish lists, returns, logistics, warehouses, commission rules, finance look-ups, subscriptions, reviews, analytics, taxonomy, dashboard reads | `dialogs`, `wishes` |
| `Services` | the composition of `Content` to `Backoffice`, and its properties | |
| `ServicesInvariants` | the inductive invariants of `Services`, for its proofs | |
| `MCWallet`, `MCRefund`, `MCMarketplace`, `MCCheckout`, `MCInventory`, `MCAuth`, `MCSocial`, `MCServices` | the instances TLC checks | |
| `WalletProofs`, `MarketplaceProofs`, `CheckoutProofs`, `InventoryProofs`, `AuthProofs`, `SocialProofs`, `SocialCountProofs`, `ServicesProofs` | theorems and their proofs | |

Conventions shared by all of them:

* `pc[r]` (or `rpc`, `upc`) is the `await` a request stands at; "ok" and "failed"
  are what its caller sees, which need not be what happened.
* A transaction's writes stay in variables of the request (`seen`, `cardLock`,
  `claim`, `txn`) and reach the tables in its commit action. The commit has two
  outcomes for the caller: the reply to `COMMIT` may be lost.
* Amounts are sets of requests where a lost or repeated update is the question
  (`Wallet`, `Inventory`), and numbers where sums are (`Marketplace`, `Checkout`).
* Modules EXTEND one another in a chain where they share tables: `Calls` to `Social`, and
  `Calls` to `Services`. Each has a `...Step` of its own requests; the composition adds
  what they leave alone.
* A crash ends a request at any step: PostgreSQL drops the transaction, Redis and
  MongoDB keep what they have.
* Definitions whose comment begins with "Mutation" are variants with a plausible
  bug; no specification uses them. Each property is checked to fail in one.

`Refund` EXTENDS `Wallet`: every refund by store credit is a wallet request, and
its steps are the wallet's own actions together with the refund's. Actions
correspond to code as follows (each is mapped to its lines in `PROJECT.json`):

* `Wallet`: `RedeemFind`, `CardSelect` and `CardUpdate` are the card's part of
  `redeemGiftCard` (a TypeORM `save` is a `SELECT` and an `UPDATE` of what
  differs); `CreditAcquire` to `ReleaseLock` the lock of `creditUser`; `Begin`,
  `FindForUpdate`, `SaveWallet`, `SaveLedger`, `Commit`, `Rollback` the
  transaction both have in common.
* `Refund`: `FindOrder` to `RefundCommit` follow `processRefund` line by line;
  `MoveByCredit` calls and `CreditReturns` awaits `creditUser`.
* `Marketplace`: `UpdateFind`/`CancelFind`/`SaveStatus`/`AddJob` are the two
  status methods; `TakeBySales`/`TakeBySettlement` the workers, `SettleVendor` a
  pass of the loop of `settleOrder`; `PayoutRequestCheck`/`Save` and `PayoutFind`
  to `MarkFailed` the two methods of `PayoutService`, with the `UPDATE ... WHERE
  isSettled = false` in the two halves PostgreSQL gives it: the rows found, and
  those that still qualify once their locks are free.
* `Checkout`: `CartFind`/`CartInsert`/`CartSave`/`CartJob` are the cart's methods,
  which all begin with `getCart`; `CheckoutFind` to `CheckoutPay` the checkout.
* `Inventory`: `Acquire` to `Release` follow `adjustStock`; `Write` is what its save
  does to the table, with (`Save`) or without (`Fails`) an answer.
* `Users`, `Auth`: `FindUser` to `Reread` are the four methods of `UserService`;
  `OtpFind` to `OtpMail` are `createAndSendOtp`, which three methods of `AuthService`
  call; `Verify` to `Activate` and then `StoreAccess` to `Log` are `verifyOtp`, and
  `refreshTokens` ends with the same four. `SaveUser` is what a TypeORM `save` of a
  user does: it writes every column that differs from the row, and inserts a row that
  is gone, unless the index on the e-mail address forbids it. `OtpAges` and
  `CacheLoses` are what time does.
* `Social` and `Services`: the actions have the names of the methods, or of their
  awaits where one has several (`FindMember`, `SaveMember`, `CountMember` and so on); what
  several methods do alike is one action whose guard names them. `call[r]` says which
  operation a request makes, of whom, on the row of which earlier request, and
  whether it was `made`, and had ended, before the others begin. A row is named
  after the request that inserted it. `stale` collects the requests whose `save` has
  overwritten a row that had changed since they read it, `before[r]` those that had
  ended well when `r` began: no action reads either, the properties do.


## 4. The runs

| run | module, specification | distinct states | result |
|---|---|---|---|
| `wallet` | `MCWallet`, `Spec` | 966,170 | holds |
| `gift_card` | `MCWallet`, `Spec` | | violated (section 7) |
| `refund` | `MCRefund`, `FairRefundSpec` | 219,980 | holds |
| `refund_rollback` | `MCRefund`, `RefundSpec` | | violated |
| `marketplace` | `MCMarketplace`, `FairSpec` | 184,713 | holds |
| `settlement_jobs` | `MCMarketplace`, `Spec` | | violated |
| `payout_balance` | `MCMarketplace`, `Spec` | | violated |
| `checkout` | `MCCheckout`, `Spec` | 1,620,033 | holds |
| `inventory` | `MCInventory`, `Spec` | 24,715 | holds |
| `auth` | `MCAuth`, `Spec` | 460,571 | holds |
| `social` | `MCSocial`, `Spec` | 289,884 | holds |
| `services` | `MCServices`, `Spec` | 115,043 | holds |

The systems really may stop, when every request has had its answer; the runs
therefore say `CHECK_DEADLOCK FALSE`, and that nothing gets stuck on the way is
checked as liveness (`RefundsEnd`, `PayoutsEnd`). The types of all modules are proved
(section 6), and those of `Social` and `Services` are checked besides.

**wallet**: two redemptions of one card by two users, two store credits for one of
them and a balance inquiry of the other, up to the exchange of the two credits.
`AcknowledgedCreditsKept`: what a caller was told of is in a wallet of the user, also when the Redis lock expires in the middle and when two wallets
came to be. `CreditsInOneRow`: nothing counts twice or for somebody else.
`CreditsAreLedgered`: money has its ledger entry although the two stores share no
transaction (the order of the two writes sees to it). `RedemptionAtomic`: a card
is used up exactly when some redemption of it is in a wallet.
`ImplementsCreditBook`: in terms of credited money and used cards every step is
one credit, with its card, or nothing.
*Bounds.* Each property needs at most three requests to break: the two that race
for a row and the one that finds two rows. One card suffices because redemptions
of different cards meet only in the wallet. The unbounded parts of the code (ten
retries of the lock, time) are nondeterministic choices, not counters.

**refund**: two refunds of one order, each with any method, an update of that
order's status to any value (or its cancellation), and a balance inquiry, on a pool of
two connections. `MemosBacked`: a memo's money has moved. `RefundedOrdersHaveMemos`:
an order is REFUNDED by a refund whose memo is there, or by an update that asked for
it; and one that has a memo and is something else was overwritten by an update that
came after the status the refund had read. `RefundsEnd`: every refund and every update
that has begun ends, unless the pool is exhausted (`PoolExhausted`: each of its
connections is held by a refund whose `creditUser` waits for a second one).
*Bounds.* Two refunds compete for the order, the wallet and the lock, and the update
is the third writer. Two connections are as few as the two refunds need to deadlock:
both hold one and wait in `creditUser` for another. TLC reaches that state, and
`RefundsEnd` is checked with it. A pool of one would be exhausted by every refund, and
with three connections or more two refunds never are.

**marketplace**: two orders that share a vendor, one of them with a second
vendor; a status update of each; one payout request with two calls of
`processPayout`, on a pool of two connections. `SettlementComplete`,
`SettledRevenueWasPaid`, `RevenueSettledOnce`, `ProcessedWasPaid`, and `PayoutsEnd`:
a payout that has begun ends, unless the pool is exhausted. *Bounds.* The loop of
`settleOrder` needs two vendors to be left half done, the race of two payouts two
calls and one row. Two connections are what two payouts that fail use up: the `catch`
block saves the request on a second one while the first is released only in `finally`
(TLC reaches that state too). `MaxStalled` = 1 is BullMQ's default, not a bound of
ours. With one payout request both calls are for the same one, the harder case for the
request's status; that calls of different requests do not interfere otherwise
follows from the theorems, which have any number of requests and of connections.

**checkout**: a cart of two lines from two warehouses, and three mixes of five
requests (`MCPlans`): a filled cart, then two checkouts with a reader; a checkout
with a removal and a reader; an update with a clear. Every `await` may fail.
`OrdersComplete`, `JobsHaveOrders`, `PaymentsCoverOrders`, `SuccessIsComplete`.
*Bounds.* Two warehouses make a parent and a child; prices 1 and 3 and the
quantities 1 and 2 give different sums to every subset of the lines. Requests of a
plan interleave in every order, so that a checkout also runs on a half-filled
cart or fails on an empty one.

**inventory**: four adjustments of one product in one warehouse, up to the exchange
of their names. `LostUpdatesAreNoticed`: an adjustment that was acknowledged is in
the stock, or somebody had read the level without it, has lost the lock and does
not report success (the release of an expired lock throws). `SecondRowsAreNoticed`:
likewise for a second row. *Bounds.* An overwritten adjustment takes three
requests (a slow one, the one it overwrites, and one that restores what was
overwritten); a fourth meets the rows they leave. Adjustments of different keys
share nothing.

**auth**: one e-mail address and nine plans of up to four calls beside an account or
none: registrations of one address (two registrations and a verification; one and
two verifications and a deletion; one with resend and cancel), ends of sessions (a
refresh with two logoutAlls; two refreshes with a logout; a login and its
verification with both logouts), administration (a pending user who is activated
while being suspended; two administrators, a rename and a refresh; a password
change, a rename, a deletion and a login). Every `await` may fail, codes expire and
the cache forgets at any time. `EndedTokensStayDead`: what a logout with both cookies, a logoutAll or a
refresh has ended never works again. A logout that lacks a cookie ends nothing, and
says the same (section 7). `OrphanTokensExplained`: a token that works
although its session has no row, so that no logoutAll will end it, was missed by the
list of a logoutAll that deleted the row. `SuspensionsKept`, `DeletionsAreFinal`: an
acknowledged suspension or deletion is undone only by a `save` of what was read
before (or by the next administrator), and the two leftovers of a deletion, a
password and a profile, have their authors. `OneAccountPerCode`: two verifications
may find one code active, but they do not make two accounts.
*Bounds.* Addresses share nothing, since codes, registrations and users are found by
address, so that one is enough; each property takes at most three calls to break, and
the plans bring together the calls that write what it reads.

**social**: four users and 35 plans of up to four calls made beforehand and up to four
that come together. `BlocksRespected`: a block acknowledged before a call began is not
got round by it. `TiesCounted`, `ReactionsCounted`, `MembersCounted`: when every call
has ended well and none has saved a row that had changed since it read it, the
counters of profiles, posts, comments and groups are the numbers of their rows,
whatever the interleaving; `TiesCounted` speaks of profiles made beforehand, since
one that is made late starts at zero whatever ties its user has, and only while nobody
has blocked anybody. `BansKept`, `RemovalsKept`: what was banned, deleted or
removed stays so but for such a stale save, or for who adds it again.
`LimitExplained`: a conversation exceeds its limit by nobody but those asked for by
additions that overlap with one and the same addition (the last that has counted), and
those who had left and whom a stale `markRead` or change of role has restored: so two
additions exceed it by no more than one of them asks for. That they exceed it at all is
against the module's README (section 7). `FeedsRespectPrivacy`: no feed shows what a privacy withholds, but for a
relation that changed while the feed was made. Where the code does not keep a promise
under concurrency, the property says exactly which overlap is to blame, so that any
other way of breaking it is an error.
*Bounds.* A relation has two ends, a group an owner, a moderator, a member and one who
joins: four people. `MaxMembers` = 3 stands for 256, so that one addition more reaches
it. Every property is broken by at most three concurrent calls on one row; the plans
bring together the calls that write what it reads, and a fourth that reads.

**services**: two users, three keys and 52 plans of up to five calls made beforehand and
up to five together, with the jobs among them. `ContentKept`: what an acknowledged
call has written is in the article or in a revision until it is deleted, unless the
article was updated while it was still being made, and a create that was undone has left
no row, but for a stale save. `CacheCurrent`: an entry of the
cache is what the table holds, unless a writer stopped in between or overlapped with
another call, or a menu has moved. `CredentialsEarned`: certificates are for completed
lessons, single, attempts within their limit and answered once, the strict order kept;
each with the overlap that explains the exception, or, for a certificate, a progress
reported under a course its lesson is not of (`Misplaced`), or a course that was deleted
and saved again (`Revived`). `DependenciesActive`: an active
module has all it needs, directly or not, unless it was installed beside a switch-off
or switched on again. `SinglesKept`: a pending abandoned cart, the buffer of a product,
the layout of a warehouse and the configuration of a carrier are single unless two
calls that look for them overlapped. `EntriesKept`: messages, wishes and clicks that
were acknowledged stay, but for a stale save of the whole.
*Bounds.* A race is of two calls and a third that shows it, so that four suffice; five
are together where a course is revived and gets a lesson and a certificate again; two
users separate "mine" from "another's" (notes, carts). Three keys make a chain of two
dependencies (direct and indirect) and a slug that changes. The services of different
areas share no rows, except that a product is referred to by wishes, reviews and
subscriptions and an article by short links; the plans combine those.


## 5. Fairness

`FairRefundSpec` and `FairSpec` (of `Marketplace`) assume weak fairness of the
steps of a request **that has started**, one conjunct for each request: the event
loop goes on with every promise that is settled, PostgreSQL answers, and gives a
lock to a waiter once its holder has ended. Nothing else is fair: no request has
to start, no call has to fail, no process to die, no Redis lock to expire, and no
job is taken by a particular worker. Failures are excluded from the fair steps
(`Step`, `RefundStep`, `CallStep` do not contain them), so that `RefundsEnd` and
`PayoutsEnd` do not rest on errors that happen to unblock somebody. Nor do they rest on
a connection that the pool has not: a step that takes one is enabled only while one is
free (`FreeConnection`), and both properties name the one way to wait for ever,
`PoolExhausted`: every connection is held by a call that waits for a second. No time-out
is set for that wait (`src/database/database.module.ts` hands only a URL to the driver,
and `pg` then waits without limit). The pool is counted for the requests of one module; a
real pool is shared by all of one process and split between processes, so that
connections others hold make it smaller. The safety runs use the specifications without
fairness.


## 6. The proofs

All theorems hold for every value of the constants under the named assumptions
of the modules (`WalletAssumption`, `RefundAssumption`, `MarketplaceAssumption`,
`CheckoutAssumption`, `InventoryAssumption`, `UsersAssumption`, `SocialAssumption`,
`ServicesAssumption`, `LearningAssumption`): types of the constants, and that `NONE` is no request. `SocialAssumption` also says of
the calls what their DTOs and routes say: a direct conversation has one addressee, an
answer names a request; that only calls which insert
rows have been made beforehand, and each on a row that was (`Grounded`: a reaction needs
its post or comment, a reply the comment it answers and of the same post, a membership
its group); that nobody has followed, befriended or blocked himself; and that no
conversation was made beyond the limit, which is at least two.
`ServicesAssumption` says that an id names an entity of the kind its route or foreign key
says (`Names`, `Reordered`), that only inserting calls have been made beforehand, that
of the coupons and the rows that are looked for first no two made ones have the same key, and what routes,
DTOs and columns ask of a call: that it names its row (`OnRow`), gives a key to what it
makes (`Keyed`) and a status of the enumeration (`Bodies`, `Statuses`), and that the
plug-ins that are installed beforehand were installed as `createRegistry` does it: each
has its module, and what it needs was registered and switched on (`InstalledInOrder`).
`LearningAssumption` says of what was made beforehand that it is about what was made
beforehand, that a learner has one progress on a lesson (the unique index), and that his
attempts are within the limit of their assessment.
Sets of requests, users, orders and vendors may be infinite, except the requests of
`Services`, since a short link counts them. Each proof has an
inductive invariant, one lemma for each group of actions, and the theorem.

**`WalletProofs`**: `TypeCorrect`, `CreditsKept`, `CreditsOnce`, `LedgerComplete`,
`RedemptionsAtomic`, `Refinement` (`Spec => ImplementsCreditBook`). The properties
are not inductive: a commit would break `CreditsInOneRow` if what a request has
`seen` were stale. `IInv` adds what the locks give. Its parts: `OpsMatch` (a label
belongs to its method), `TargetsHeld` (a request past `find` holds the lock of the
row it will write, unless it inserts one of its own name), `SeenIsCurrent` (what
it has in memory is the committed balance, and its own credit once added),
`BalancesOwned` (a balance holds credits of its own user, and each in one row),
`AppliedAreDone`, `DoneAreApplied` (money moved only in requests past their
commit, and in all that were acknowledged), `LedgerFirst` (the ledger entry
precedes the commit), `CardsHeld` and `RedeemedHaveCredit` (an uncommitted card
belongs to a request that will credit it). The Redis lock is in none of them: the
row lock alone carries the argument, which is why an expired lock is harmless.

Its second part is about `Refund`: `RefundsUseTheWallet` (`RefundSpec => Spec`: every step of a
refund is a step of the wallet or leaves it alone), hence all theorems of the
wallet hold under refunds (`RefundCreditsKept` is one); `RefundTypeCorrect`;
`MemosAreBacked`; `RefundedOrdersAreDocumented`. The invariant adds
`CreditNotStarted` (a refund's wallet request is idle until `MoveByCredit`),
`MethodsKnown`, `MovementDone` (past the movement, the money has moved),
`OrdersHeld` (who holds the order's lock stands between its save and its end, and a refund
about to commit holds it, or found the order refunded, in which case an update may have
written since: `Overwritten`) and `WritersKnown` (an update that has not written yet is
nobody's writer, and no refund has found its value).

**`MarketplaceProofs`**: `TypeCorrect`, `SettlementsComplete`,
`SettledRevenueIsPaid`, `RevenueIsSettledOnce`, `ProcessedIsPaid`. The invariant:
`JobsRecorded` (the vendors not in `todo` have their row), `PaidPastBridge` (a call
past the gateway has paid), `ClaimsOwned`, `ClaimsUnsettled` and `ClaimsApart`
(the rows a call has updated are its vendor's, unsettled, and no other call's:
what the second half of the `UPDATE` gives, and what selecting first and updating
by id would lose), `LocksHeld`.

**`CheckoutProofs`**: `Invariance`, `TypeCorrect`, `OrdersAreComplete`,
`JobsFollowOrders`, `SuccessMeansComplete`, `PaymentsCover`. The invariant speaks of
each request: `CartRequest` (the cart's methods place nothing), `CheckoutRequest`
(`PartSaved` while the loop runs, `Saved` from `clear` to the commit, `Committed` after
it), `OwnRows`, `Paid`. What a customer is asked to pay is a sum over the cart, and the
orders are sums over the lines of one warehouse each; that the second add up to the
first (`OrdersWorth`) is a fact about sums of finite sets. The fold of the community
modules takes the elements in an order of its own choice, and induction over the set is
out of reach; so a least subset without a sum is taken instead (`LeastSubset`), which
cannot be (`SumsExist`): a sum may be taken apart anywhere (`SumSplits`) and by groups
(`SumOfGroups`).
`PaymentInv` adds what they need: carts are finite (`CartsFinite`), the orders of a
transaction are of different warehouses (`Apart`), and a payment session belongs to a
checkout that is over (`SessionsOver`), so that its orders change no more.

**`InventoryProofs`**: `TypeCorrect`, `LossesAreNoticed`, `SecondRowsFail`. The
invariant: `GoodKept` (what was saved under a lock that still lasts is in its row,
or somebody is to blame), `FreshReads` (who is about to save under the lock has read
every acknowledged adjustment of its row, or somebody is to blame), `FirstRows` and
`OneGoodRow` for the insertion; `ExcusesStay` is the lemma that nobody who lost a
lock gets it back.

**`AuthProofs`**: `TypeCorrect`, `EndedStaysEnded`, `OrphansAreExplained`,
`SuspensionsStay`, `DeletionsStay`, `CodesMakeOneAccount`. The invariant has three
parts. `Core`: `Places` (a label belongs to its method) and `Targets` (from which label
on a request knows its user, and that a user is a request that inserted one).
`SessionInv`, for tokens: what each label of a refresh, a logout or a logoutAll has
deleted so far, that the session a client presents is an ended request, which stores
nothing any more, and for an orphan the logoutAll that has swept its row. `RowInv`, for
users: `CodeMatches` (a code found was sent to that address), `Present` (a user is there
or was deleted), `WasPending` (only a pending user is activated), `Suspended` and
`Deleted`, which extend two of the properties to the labels on the way. That a step
keeps `RowInv` follows from two frame lemmas (`StepRowFrame`: what a request has found
and saved stays so; `SavedStays`) and from three that name the cause of a change
(`StatusCause`, `CredentialCause`, `AdminDone`).

**`SocialProofs`**: `BansStay`, `BlocksHold`, `FeedsKeepPrivacy`, for any number of
users and of calls of every operation of the module. A user may be in the middle of
any of about 120 steps, hence each proof first shows of all steps but those of one
service that they lead past the state in question (`Aside`, `Apart`, `Blind`: no step
of notices, posts, conversations or lists writes a membership, a link or a feed, nor
leads to a label before such a write), and then goes through that service. *Bans*:
`RowsFound` (who is about to save a membership read one of the right user, in the status
his operation asks for) and `RemovedStay`, the property from the save of the ban on; the
heart is `SaveKeeps`: who saves a banned row has either seen the ban, and then bans as
well, or is stale. This needs the unique index of group and user also when a group's
owner is inserted (he may have joined his own group first). *Blocks*: once a block is
acknowledged its row can only go (`TurnKeeps`), so that everything a call checks when it
begins, or later, it finds blocked; `NoTie`, `NoTalk`, `NoHint` say how far such a call
can get. *Privacy*: `Justified`, what a feed has read or shows is so or was ended
meanwhile, by a call `TiesStay` names: a toggle or a block of the viewer, or a second
answer, which has overwritten the first.

*Types* (`SocialTypes`): `TypeOK` alone is not inductive, since a label says what a
call holds: `Walks` says for each label what its `target` and `seen` are, and is where
most of the module is gone through. *Removals* (`RemovalsStay`): `Gone`, that a row
once found or made is there (posts, stories, messages, participants are flagged, never
deleted), and that who saves over a flag has read the row before. *Limit*
(`LimitsHold`): `Limits`, which points at the last addition that has counted
(`LastCounted`): the active members **and all those it asks for**, without the excused,
are within the limit, and every other addition that is still adding overlaps with it.
Whoever becomes active after a step was asked for by that one, or by one that overlaps
with it, or is restored by a stale save (`Uncrowded`); a new count is the new last
(`CountedLimited`).

**`SocialCountProofs`**: `TiesHold`, `MembersHold`, `ReactionsHold`, for any number of
users, calls and rows. A counter is told of a row one or more awaits after the row is
written, so that no step keeps "counter = number of rows". The invariants are balances
(`Balance`): the counter and the calls that have it still to raise are together the rows
and the calls that have it still to lower (`TiesBalance`, `GroupsBalance`,
`ContentBalance`). `Shift` lists the five ways one step may move the four, and
`Shifted` is the one lemma about cardinalities; the rest shows that every step of the
module is one of the five for each of the counters. That needs to know where rows stand
(`LinkPlaces`, `GroupPlaces`, `ContentPlaces`: who is about to count has written, what is
to be lowered was there, each row was made by one call), and of the hashtag index that
no two calls index one post at a time (`IndexPlaces`). All but `LinkPlaces` are stated
as long as no save was stale and nobody failed, since a stale save breaks them.

**`ServicesProofs`**: `ServicesTypeCorrect`, `SinglesStaySingle`, `EntriesStay`,
`ContentStaysKept`, `CacheStaysCurrent`, `DependenciesStayActive` and
`CredentialsStayEarned`, for any finite number of calls of every operation of `Content` to
`Backoffice`. The invariants are in `ServicesInvariants`. As `Social`, the module has more than a
hundred steps; what most of them do not do is said once. `OnTheWay` says which labels an
operation may stand at, and a *stride* (`Strides`) that a step leads one label further and
writes, of the entities, only the row of its own request or the one it has as `target`;
`...Strides` proves it for each service and `StepStrides` for all. `Timely` says that
whoever is in `before` of a call has ended well.
`SinglesInv` (*singles*): who looks for a row and finds none stands between his look and his
insertion (`SinglesHeld`), so that two of them with one key were together at a time, and
of abandoned carts who is about to write one has read that there is none or that it is
recovered, or overlaps with the call that wrote since (`AbandonedHeld`). `EntriesInv`
(*entries*): a message, wish or click that a call has saved is in its document or the
document was spoiled (`DialogsHeld`, `WishesHeld`, `LinksHeld`). What has been read is
compared with what is there: who is about to save a document holds all of it, or is stale;
a stale save is remembered in `stale`, and so is never forgotten as the reason. The clicks
of a short link are counted as long as no save was stale, and so need the set of requests
to be finite. `ContentInv` (*content*) needs to know what rows look like: `RowsTyped` says
that an entity has the columns of its kind, and so has what a call that is about to save
has read (`Facing`), for every statement that writes a row (`...KeepsRows`). `ContentHeld`
then follows a text: an update that has begun follows the create, or was together with it
(`Following`); what it is about to overwrite has a revision (`Revising`), since a create
that has ended well has left a document to copy (`Documented`); so that what was written
is in the row or in a revision (`Recorded`). The reasons for a text to be gone
(`Overwritten`, `Cleared`, `Crossed`) stay once they hold, so that only the step that
takes the text away has to find one. What a step must do for that is `Settled` and
`Leading`, proved for creates, updates, deletions, the two jobs and all other calls.
`CacheInv` (*the cache*): a key is `Calm` as long as no writer of its family has overlapped
with a call of that family or moved a menu. Then an entry is fresh, or a writer `Owes` it:
it has failed, or has still to fill or to clear it; and who is in between has read what
the table holds (`Carries`), the writer of a coupon also in which row it is. A writer that
goes on has nobody beside it, or the key would not be calm after its step
(`NobodyBeside`), and a reader changes no row; so that only the writer's own steps
(`CouponWrites`, `PromotionWrites`, `MenuWrites`) and the reader's (`ReaderFills`) are left
to look at. One entry per code of a coupon needs `CodesUnique`, the unique index, which
the made coupons are assumed to respect.
`TypesInv` (*types*) adds to the columns of the entities what else a call writes
(`Shaped`): what a cache, a revision or an answer may hold.
`RegistryInv` (*the registry*): what a module needs is the least set that holds its direct
dependencies and theirs, and who uses it the least set the other way; as least closed sets
they are reasoned about without an induction (`NeedsClosed`, `NeedsLeast`). A module that
stands has everything it needs among the modules (`ModulesStand`), and so what it needs
cannot change any more when others are registered (`NeedsSettled`). A `createRegistry` is
followed from the look at its dependencies to the last row (`Placed`, `Supplied`,
`Running`), an `updateRegistry` from its reading of who uses the plug-in to its save
(`Switching`). The property holds of plug-ins whose calls were not together with a writer
of what they need; so that at each step either nobody was beside the writer, and what he
has read is still so, or the pair is excused for good.
`CredentialsInv` (*credentials*): the columns of a row that name others are those of the
call that inserted it (`RowsMeant`), so that sets of rows can be told by their calls;
chapters and lessons are there only with their course (`Seated`), and a call that names
another's row begins after that call has ended (`Led`). All that a step may do to such a
row is one of five things (`Changes`: nothing, its own insertion, the deletion of its
course, the return of a course, an alteration), proved once for every action
(`SchoolChanges`). On that rest: who has counted the lessons of a course has counted
those that are there as long as no exception holds, and who has found as many completed
has found just those, since progress is one per learner and lesson (`Certifying`,
`OneProgress`, `AllFinished`: an injection between finite sets); who asks for a
certificate was together with whoever else does (`OneCertificate`); the attempts that
were made **and the one about to be** are within the limit (`FewAttempts`); who submits
has found an attempt that was not completed, so that no submission of it had ended
(`AnswersHeld`); and who is granted a lesson has found the one before it completed, which
stays so unless the curriculum is rewritten (`Access`, `Granted`).

Model-checked only: `RefundsEnd` and `PayoutsEnd` (liveness is out of the prover's
reach), and the violations of section 7, which are traces.


## 7. Where the code and its documents disagree

The first four are runs that TLC ends with a trace; `PROJECT.json` quotes both sides.

* `gift_card`: the card is found ACTIVE before the transaction and without a lock;
  two redemptions credit its value twice, against "transactional redemption logic".
* `refund_rollback`: `creditUser` commits inside the refund's transaction; when the
  refund rolls back afterwards the credit stays, against "Transaction-safe refunds".
* `settlement_jobs`: `SalesProcessor` and `SettlementProcessor` are workers of one
  queue; the first completes an order-settlement job with a warning, against
  "dedicated workers (... revenue settlement)".
* `payout_balance`: `settleOrder` adds up `item.price`, which an order item does not
  have: revenue is `NaN`, and the balance check accepts every payout request.

Found while modelling, and visible in the models, but not the subject of a run:

* `messaging/README.md` promises "Groups up to 256 members". `addGroupMembers` counts
  the active members and then adds (`messaging.service.ts:335`): two additions that
  overlap exceed the limit, and so does a `markRead` that restores who had left.
  `LimitExplained` says by whom and so by how much; it does not say that 256 holds.
* `auth/README.md` says of a logout that the backend deletes the tokens from Redis. The
  controller does so only when both cookies come with the request, and answers "Logged
  out successfully" without them (`auth.controller.ts:175-184`). The access cookie lives
  30 minutes and the refresh cookie 7 days (`auth.config.ts:12-13`), and a request that
  comes through the gateway needs neither: such a client is told that it has logged out
  and its tokens go on working.
* `src/README.md` promises a "Strict Order guard (enforces sequential lesson
  completion)". The guard asks for the lesson with the preceding number in the same
  chapter (`learning-experience.service.ts:60-63`): the first lesson of each chapter,
  and one after a gap in the numbers, is open to everybody.
* `updateOrderStatus` takes REFUNDED as any other status and writes no memo, and it
  overwrites the status of an order that a refund has refunded meanwhile.

* The abandoned-cart job has a fixed id and BullMQ ignores an id it has
  (`QueueJob` of `Checkout`): `updateCartItem` neither updates nor resets the job,
  against its comment "Update/Reset Abandoned Cart Job".
* A request whose inventory lock has expired saves all the same and takes out an
  acknowledged adjustment, against "Strict concurrency control for sensitive resources
  (Inventory, Wallets) using Redis". `LostUpdatesAreNoticed` says what is left.
* `cache-manager` 7 counts in milliseconds; the times the code calls "1 hour" (3600) and
  "24 hours" (86400) are seconds. In the models any entry may be lost at any time.
* `saveMenu` clears the entry of the place a menu has now and not of the one it had;
  the site map and the feed are never cleared; `createCoupon` fills the cache without a
  time to live.
* `toggleBlock` removes a follow and leaves the counters as they are. `deleteComment`
  finds a comment that is deleted already and counts it down again.
* The course of a progress is what the client says (`updateProgress`), and a certificate
  counts the completed lessons of its course by that column: a lesson of another course
  reported under this one counts. `updateThumbnail` saves a course that was deleted
  meanwhile, which then is there again without its chapters and lessons; and who had
  counted them gets his certificate of a course that is new.
* Switching a registration on again checks nothing. The usage of a coupon is compared
  with its limit and never counted. `bundle.create` reads what it has committed inside
  the `try` whose `catch` rolls back. A loyalty balance may become negative.
* TypeORM leaves out `null` in a `where` (`comment.service.ts:101`), so that the list of
  comments has the replies in it too; and the last look-up of `calculateTax`, meant for
  a global rule, finds any rule of the tenant.
* TypeORM writes no column defaults into MongoDB, on which `is_deleted: false`
  (`messaging.service.ts:285`) and `log.duration += duration`
  (`analytics.service.ts:31`) rely. `ListMessages` models the filter as it is meant, and
  the duration is left out.


## 8. Abstractions, and what is not modelled

* **Tenants.** Every query is also filtered by `app_key` and `tenant_key`; the
  models are of one tenant.
* **The pool at its limit.** `Refund` and `Marketplace` count the connections of the
  pool, since a call of each takes a second one while it holds the first. A checkout
  does so too: it looks its variants up through `variantRepo`
  (`order-management.service.ts:45`) while its `queryRunner` is open. The connections of
  a checkout are not counted, since no liveness is claimed of it.
* **Status values.** `Marketplace` keeps pending, delivered and "cancelled" for
  every other status, and `Refund` besides REFUNDED those that `cancelOrder` tells apart,
  with CANCELLED for PROCESSING, SHIPPED and DELIVERED too. The other columns of an order,
  which a `save` writes only where they differ from the row, are left out.
* **Stalled jobs.** A job is run again after its worker has died. That BullMQ may
  also declare a job stalled whose worker is merely slow, and two runs then
  overlap, is not modelled.
* **Time in Auth.** A code is fresh for 60 seconds, then old, then dead, and a cache
  entry vanishes, each at any moment; how long that takes is left out. So is the
  unit of the token's time to live: 86400 * 7 is given to a cache that counts
  milliseconds, and the mapping is lost after ten minutes.
* **Users.** A status stands for the columns `status` and `is_locked`, and an
  `adminUpdateUser` gives both; roles, which nothing else reads, the audit log's
  content and `cleanupExpired`, which nobody calls, are left out. A refused request
  ends like one that throws, or does not begin. `Presents` is the guard's path by
  cookie. A request that comes through the gateway with a user header passes the guard
  without one, which is modelled for `logout`; `logoutAll` takes the user from the `sub`
  of the token, which such a request has not, and is left out. The two cookies of a client
  are those of one response: `setAuthCookies` sets both, and nothing sets one alone.
* **Numbers generated from the clock.** Two `MEMO-<ms>` or `ORD-<ms>-<i>` numbers may
  be equal; the unique index then makes a save fail, and every save may fail.
* **Inputs.** Quantities and amounts are natural numbers; the DTOs also let other
  values through where they have no validator. The variant's warehouse does not
  change during a checkout.
* **MongoDB saves** of one document are one step, and the `SELECT` that TypeORM
  sends before an `UPDATE` is a step of its own only where the difference shows
  (the gift card, the order's and the payout request's status).
* **Plans.** `Social` and `Services` are checked for the calls of the plans of their MC
  modules; ids are those of rows that earlier calls made. Rows that no code creates
  (enrollments, assessments, currencies) are put there by calls named `enroll` and
  `assess`, or may be missing.
* **Statements in Social and Services.** Any await may reject, or the process may die in
  it, and then the statement has had no effect; that a statement takes effect and its
  answer is lost shows as a request that dies at the next await. A request that is
  refused by a check ends like one that fails, or does not begin. `increment`,
  `decrement`, `update` and `delete` are one statement; `save` writes every column as it
  was read, and inserts a row again that is gone. Unique indexes are in place, as
  `synchronize` makes them.
* **Left out of Social.** Pages, ranking and scores, ciphers, the parsing of hashtags.
  All groups have one name, so that their slugs collide. The feeds ignore groups, as the
  code does. The clients of the socket and notification services catch their errors.
* **Left out of Services.** Dates and limits of coupons and the drip of lessons decide
  nondeterministically; scores, positions, prices, weights, averages, the postal code of
  a tax rule, versions and settings of modules, variants and categories of products, the
  table of contents and the density of keywords (computed from a text). The short links
  of a deleted article are found by `ILike` (a slug within the target); the model compares
  the slugs, and no property depends on which links go.
* **Called by nobody.** `deleteMaterial`, `registerPackage`, `analyzeOrder` and the
  restock loop of `RMAService.updateStatus`, which no caller asks for.
* **Not modelled.** Mail, media and the sanitizer are input and output. The idempotency
  interceptor is installed by no module. Guards and gateway decide from one read. Roles
  of users are rows that nothing else reads.
* Formatting, logging and, outside `Lists`, `Feed` and the answers of `Services`,
  read-only methods are left out.


## 9. The plan

The order puts what handles money first, then what guards accounts, then the
rest; modules that share no state but are alike are checked in one run.

1. *Done*: `Wallet` with `CreditBook`, `Refund`, `Marketplace`, `Checkout`,
   `Inventory`, `Users` with `Auth`, their runs and proofs.
2. *Done*: the social module (`Connections` to `Social`) and its run.
3. *Done*: content, caches, learning, registry, marketing and back office (`Records` to
   `Services`) and their run.
4. *Done*: every safety property of `Social` (`SocialProofs`, `SocialCountProofs`) and of
   `Services` (`ServicesInvariants`, `ServicesProofs`).
5. An abstract session store that `Auth` implements, and an abstract payout book that
   `Marketplace` implements.
