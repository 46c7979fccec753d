# Perimetra: the TLA+ project

This directory holds TLA+ models of the parts of Perimetra where requests,
worker processes and external services interleave, TLC configurations that
check them on small instances, and TLAPS proofs of their main safety
properties for instances of any size. The code is in `src/`; every definition
names the lines it models in `PROJECT.json` under `map`.

## 1. The system

Perimetra configures, prices, quotes and manufactures made-to-measure
products. The API (`apps/api`, NestJS on PostgreSQL) and a worker (the same
code base, BullMQ on Redis) carry the state; the web and mobile apps and the
pure packages (`engine`, `model`, `renderers`, `validators`) carry none that
outlives a request.

A request runs in one PostgreSQL transaction at READ COMMITTED (the ambient
transaction of `@Transactional()`). The code takes almost no explicit locks:
what it reads is a snapshot of a moment, and what protects the rows afterwards
is the WHERE clause of an UPDATE, a unique index, or nothing. That, the path from
a committed transaction through the outbox and a job queue to the outside
world, and the stores a quote must be derivable from for ever, are what this
project is about. Two parts of the pure packages keep state or order of their
own and are modelled too: the channel registry of `packages/realtime`, which
handlers re-enter, and the stages of `deriveSite`.

| component | state | operations | talks to | what makes it correct |
|---|---|---|---|---|
| numbering | one counter row per organization, series and year | `allocate` | called in the transaction of a quote, order or invoice | gap-free series, no number twice, nobody waits forever |
| quotes | quote rows: status, `revisionOfId`, `supersededById`, `validUntil` | `issue`, `revise`, accept and decline by share token | numbering, ledger, audit | linear chains, a resolution is final, a stale link is dead |
| orders | order rows: status, `quoteId` | `create`, `repoint`, `start`, `complete`, `cancel`, `recordException` | quotes, numbering, outbox, ledger | one live order per deal, resting on an accepted quote |
| invoices | invoice rows: status, `orderId`, frozen basis | `issue`, `markPaid`, `unmarkPaid` | orders, quotes, numbering, outbox | one invoice per order, for the deal of the order |
| outbox relay | outbox rows, BullMQ jobs | `emit`, relay cycle, `cleanup`, job processor, dead letters | every service that emits | nothing lost, duplicates explained, everything settles |
| deliveries | delivery rows | `send`, the handler of its event | outbox, SMTP | at most one mail, a truthful and final outcome |
| idempotency keys | one Redis record per key | the interceptor around a handler | Redis, every idempotent route | one execution per key, replays are true |
| releases and pins | releases, assignments, pins | `publish`, `retire`, `assign`, `broadcastAssign`, `unassign`, `pinVersion` | quotes, audit | an upgrade is opt-in, a pin is assigned |
| price tables, catalog versions | append-only versions | insert, resolve at an instant | quotes | an issued quote derives again for ever |
| deviation ledger | projected rows, margin overrides, order exceptions | record at issue, `rebuildLedger` | quotes, orders | every row exactly once |
| realtime fan-out | channel registry with reference counts | `subscribe`, `unsubscribe`, `disconnect`, deferred teardown | Centrifugo client, handlers of the apps | no leak, no close under a consumer |
| derivation engine | none | `deriveSite`: structure, instances, connections, aggregation | quotes | what two instances share is counted once |
| privacy erasure | none of its own | the erase job | handlers of the modules, Better Auth tables, purge hooks | repeatable, complete |
| the rest | rows of one organization, adapters, read models | single statements | | |

The behaviours that are hard here, listed one by one under `hazards` in
`PROJECT.json`:

* a read of a request that is stale by its own UPDATE (all of quotes, orders,
  invoices);
* a transaction that fails after it took a number;
* a relay that dies between Redis and PostgreSQL, which share no transaction;
* a job that is retried, stalled, run twice at once or pruned, in front of an
  SMTP server that cannot be asked what it did;
* a Redis key whose holder may die, outlive it, or be told that its commit
  failed when it did not;
* an assignment that is removed under a request that has read it;
* a rebuild that reads outside of the transaction that writes, beside issues
  and beside another rebuild;
* a registry whose own calls run handlers that subscribe, leave, disconnect or
  throw.

## 2. The modules

| module | what it is | code |
|---|---|---|
| `GapFreeSeries` | the abstract promise of document numbering | ADR 0109 |
| `Numbering` | the counter row, its lock and the issuing transactions; implements `GapFreeSeries` | `numbering.service.ts` and its callers |
| `Quotes` | quote rows and the requests that change them | `quotes.service.ts`, `quotes.repository.ts` |
| `Orders` | extends `Quotes` with the order rows | `orders.service.ts`, `orders.repository.ts` |
| `Invoices` | extends `Orders` with the invoice rows | `invoices.service.ts`, `invoices.repository.ts` |
| `DealBook` | the abstract promise of the deals: what is left of it when every request races | ADR 0126, `order_quote_active_uq`, `invoice_order_active_uq` |
| `Deal` | the composition of the three, its properties and its inductive invariant; implements `DealBook` | |
| `Outbox` | outbox rows, relay replicas, BullMQ jobs | `outbox-relay.service.ts`, `events.processor.ts` |
| `Deliveries` | extends `Outbox` with the delivery rows, the handler and SMTP | `deliveries.service.ts`, `deliveries.events.ts` |
| `Idempotency` | one Redis key and the requests that carry it | `idempotency.interceptor.ts` |
| `Tenancy` | the organizations, shared by the next three | |
| `Releases` | release status, assignments, pins, and the requests that change them | `releases.service.ts`, `releases.repository.ts` |
| `Ledger` | the rows of the deviation ledger and its rebuilds | `ledger.service.ts`, `quotes.service.ts` (`rebuildLedger`) |
| `Catalog` | composes `Releases` and `Ledger` with the append-only stores and the issue of quotes on them | `quotes.service.ts`, `price-tables.*`, `catalog-versions.*` |
| `ChannelSubscriptions` | the abstract contract: one subscription per channel | `types.ts` of `packages/realtime` |
| `Fanout` | the channel registry, its call stack and its microtasks; implements `ChannelSubscriptions` | `fanout.ts` |
| `Site` | the stages of `deriveSite` | `site.ts` of `packages/engine` |
| `NumberingProofs`, `DealProofs`, `OutboxProofs`, `DeliveriesProofs`, `IdempotencyProofs`, `CatalogProofs`, `FanoutProofs`, `SiteProofs` | the theorems | |
| `MC*` | the instances for TLC | |

### How code becomes actions

*Requests of the deal.* A request is a record `req[p]`: what it will do next
and the rows it has read. Its read step (`ReadRevise`, `ReadRepoint`, ...)
evaluates the guards of the service on the state of that moment and stores what
the code keeps in local variables. Its commit step (`CommitRevise`, ...) applies
all the writes of the transaction at once, and checks only what PostgreSQL
checks at that moment: the predicate of a conditional UPDATE, or a partial
unique index (`IndexAllows` is `order_quote_active_uq`, the guard of
`CommitInvoice` is `invoice_order_active_uq`). Any step of any other request
may come in between. A refusal, an error at commit and the death of the process
are `Abandon`: nothing was written. `OrdersService.create` and `repoint` have a
second read, so they have a step in the middle (`CheckDeal`, `CheckTarget`).
Those walk a chain with several queries in the code and are one step here. For
`CheckTarget` that changes nothing: a revision is linked in the transaction
that inserts it, so the target is in the chain whenever it can be read.
For `CheckDeal`, no property that is claimed under concurrency depends on it.

*Serial deals.* The strong properties of `Deal` are about executions in which no
two requests are about one deal at the same time (`DealsAreSerial`), which is
what a lock on the deal's first quote would give. Requests on different deals
interleave freely. One request at a time is a special case; the code has no
such lock, and what it loses without one is what the two race runs show.

*Expiry* is derived, as in the code: `Lapse` moves the clock and writes no
status. *Numbers* are left out of the deals: `Numbering` is about them.

*The relay.* A cycle is one transaction: `Claim` takes the row locks, `Enqueue`
and `EnqueueFails` touch Redis at once and stage their UPDATE in `batch[r]`,
`CommitBatch` writes, `RelayDies` forgets. An add that throws may have reached
Redis.

*The jobs.* `JobFails`, `Stall`, `DeadLetter` and `Prune` are what BullMQ does
with the options the code gives it (five attempts, a stalled job put back once,
completed and failed jobs removed by age). An `add` with a known `jobId` is
ignored, and one after the prune is a new job.

*A run of the delivery handler* has no transaction. `sender[d]` is where the
run is that won the claim; `late` and `detached` are runs that go on although
BullMQ has given their job to another. A detached run that dies is one that
takes no further step, so no action is needed for it.

*The idempotency key.* Each Redis command is a step of its own. `SET NX`, `SET
XX` and `DEL` do not look at whose claim they meet, and neither do the actions.
A command that throws may have been applied.

*Releases.* A request `req[p]` holds the release it has read and, for a
broadcast, the organizations still to do. `assignValidated` is an INSERT with
ON CONFLICT DO NOTHING and an `ensurePin` in one transaction: a new assignment
and its lazy pin are one step (`AssignNew`), because nobody sees one without
the other; when the row was there already the two statements are two steps
(`AssignAgain`, `PinAgain`), because an unassign may commit in between.
`pinVersion` reads the release, the assignment and the pin, and writes: four
steps. The history variable `overtaken` records the assignments that were removed while a
request was on its way past their check.

*Stores and quotes.* An INSERT under a unique index, and no UPDATE: that is all
the actions of the stores can do. The engine is pure, so what it derives is
represented by the record of what it was given (`Derived`). The gate of the
assignments and the insert of a quote are two steps; the gate reads the
assignments of a roster one query at a time in the code and is one step here,
because no property depends on their order.

*The ledger.* A rebuild reads (`RebuildRead`), deletes what is committed when
the DELETE starts (`RebuildDelete`) and commits what it read (`RebuildCommit`).
Each quote stands for one with one override and one margin override: a row that
can be projected again and a row that cannot. `missed` and `overlapped` are
history: they record which of the two windows of a rebuild a quote fell into.

*The registry.* JavaScript runs one thing at a time, so what interleaves is
re-entrance: `stack` is the call stack as far as the registry is on it, and a
handler on its top may call anything. An entry is named by the consumer that
created it, and a microtask runs when the stack is empty. A report of the vendor
comes then too, before a queued teardown or after it (the SDK has tasks and
microtasks of its own), or, as the mock does it, from inside `open`.

*The site.* One action per stage. What an instance derives is an open choice
between its conditional parts, and an issue may be raised wherever the code can
raise one.

## 3. The runs

| run | instance | question |
|---|---|---|
| `numbering` | 3 sessions, 2 series, 3 numbers | is the series gap-free, does it implement its promise, does nobody starve |
| `deal_serial` | 3 quotes (all with a validity date), 2 orders, 2 requests that are never about one deal, 1 invoice beside 1 order and 2 quotes | do the services keep what they promise when the requests on each deal come one at a time |
| `deal_races` | 3 quotes beside 1 order and 1 invoice, or 2 quotes beside 3 orders and invoices; 2 requests | do chains stay linear and invoices inside their deal, do the unique indexes hold, and do the tables implement `DealBook`, under any interleaving |
| `outbox` | 2 events, 2 replicas, batches of 2, 2 publish attempts, 1 rolled-back cycle | is anything lost, claimed twice or duplicated without a cause, and does everything settle |
| `deliveries` | 1 delivery, 2 replicas, 2 publish attempts, 2 job attempts, 1 rolled-back cycle | is the buyer mailed at most once, and the rep told the truth |
| `idempotency` | 4 requests, 2 bodies, 2 expiries, 1 unheard commit | is every execution after the first paid for, and every replay true |
| `fanout` | 2 channels, 3 subscribe calls, 1 stream position, 4 nested calls | does the registry implement its contract, and what can leak |
| `catalog` | 2 organizations, 2 releases of a model, 2 requests, 2 catalog versions, 2 price tables, 2 contents, 2 quotes, 2 rebuilds | when does a pin move or stray, does every quote derive again, when does the ledger drift |
| `site` | all sites of 3 fences and gates with up to 2 connections, and all placements of 2 of them | is a shared element counted once |
| `resolve_race` | 1 quote, 2 requests | violation: an accepted quote becomes declined, or the reverse |
| `repoint_race` | 2 quotes, 1 order, 2 requests | violation: an order moves to another quote after its production started |
| `idempotency_unheard` | 4 requests, no expiry, 1 unheard commit | violation: two executions within one window |

The three violations are disagreements between the code and its own comments;
`findings` in `PROJECT.json` quotes both.

### Why the bounds are enough

Three quotes make a chain with a middle, two successive revises and a quote of
another deal; two orders make a conflict; two requests make every pair of
stale read and commit, and the hazards of this code are pairwise: one commit
invalidates one read. In `deal_serial` the two requests show that nothing a
request does to its deal disturbs what another has read of another deal, and
its invoice needs no more than an order that can be cancelled and a quote it
can be moved to (`WithinSerialBounds`). Two series show that they do not disturb each other,
three sessions that a waiter can be overtaken. Two replicas, two events and batches of two
give a shared claim, a batch behind another, and a row whose add fails beside
one in the same batch whose add succeeds, in either order. The LIMIT of a batch
does not bite there; the proofs hold for every batch size. Two attempts are one retry and one exhaustion.
One rolled-back cycle is one duplicate; the proofs extend the count to any
number. `deliveries` has one delivery, so `document_delivery_inflight_uq`
refuses nothing in it: two deliveries are too many states. The index only
disables `Send`, which nothing waits for, and the theorems hold for any number
of deliveries of a document. Four requests are two retries that race each other, one that replays,
and one with another body; two expiries let an old request meet the claim of a
second and of a third.

Three subscribe calls are a channel's first consumer, one that joins or leaves
in the middle of a call, and one that comes while the channel drains; two
channels show that they do not disturb each other; four frames are a handler
inside a report inside an `open` that a handler made.

`catalog` bounds the product of its parts, not each of them (`WithinBounds`):
the requests race on the pins of two organizations with nothing quoted; one
quote is issued and kept while the stores go on to a second catalog and a second
content and the price tables to a second version, which is what a stamp could be
mixed up with, or while a request assigns, unassigns or pins; or two quotes are
issued beside two rebuilds. What is left out are combinations of these;
`CatalogProofs` covers them all. `site` takes
three instances because an owner whose element is consumed twice has two
neighbours, and two for the placements because a conflict of elevations is a
matter of one instance and one segment.

Symmetry is used for the deals and `catalog` only: the rows, requests,
organizations and contents are interchangeable and no liveness is checked
there. `VIEW Rows` leaves the outbox and ledger rows
of the orders out of the fingerprints of `deal_races`, whose properties do not
mention them; no guard reads them. Deadlock is checked for `numbering` only: in
the other instances every row that may exist can come to its end.

### Fairness

`numbering`: a transaction that holds the row ends (`WF` of commit or
rollback), which is the statement timeout and the connection's end at the
latest; PostgreSQL queues the waiters of a row lock (`SF` of `Allocate`: the
row is free again and again, and a waiter is not passed over forever). Nothing
forces a commit rather than a rollback.

`outbox` and `deliveries`: the relay ticks on an interval and catches what a
cycle throws (`WF` of claim, of the loop's next row and of the commit, per
replica), and BullMQ's workers take waiting jobs and end active ones. Nothing
forces an enqueue to succeed, a handler to return, a prune or a clean-up.
Rolled-back cycles are bounded by `MaxDeaths`: a relay that dies in every cycle
settles nothing, and the code does not claim that it does. In `deliveries` only
the way to the claim is fair: a run may be cut off anywhere after it.

`fanout`: a call returns (`WF`) and a queued microtask runs (`SF` of `Teardown`:
reports of the vendor may come before it and keep the stack busy, but the
microtask queue is first in, first out, so they do not pass it over for ever);
what handlers, applications and the vendor do is up to them. That is enough for
the fairness of the contract: a drained channel is closed.

Liveness is therefore claimed for four things: a channel nobody listens to does
not stay open (`ImplementsContract`), no issue waits forever
(`NoIssueWaitsForever`), every event settles (`EveryEventSettles`), and a
queued delivery is taken up (`QueuedIsTakenUp`) with its two exceptions, a dead
outbox row and a job that failed for good before the claim. In those the row
stays queued and blocks every later send of its document.

## 4. The proofs

All theorems are about `Spec` (safety, no fairness) and assume only the named
ASSUMEs of the modules: the null values are not members of the sets they stand
beside, `Events` are naturals (their ids are ordered), the limits are naturals,
and, for the counting argument of `Idempotency`, the requests are finitely
many. TLC evaluates every ASSUME. The theorems named `Serial...` are about the
executions in which no two requests are about one deal: they have
`[]DealsAreSerial` as a hypothesis of their statement.

* **Numbering.** `NumberingInv` adds to `GapFree` that a session that holds a
  number holds the row, and that its number is the successor of the last
  committed one. Without it a commit could append any number. The refinement
  to `GapFreeSeries` follows: only `Commit` changes `issued`.
* **Deals.** The chain of a quote is defined by what pointers reach.
  The first lemmas show that two pointers that undo each other make chains the
  classes of an equivalence; `ChainsAreLinear` says that `revisionOf` and
  `supersededBy` do. `DealInv` then needs what the requests in flight know:
  `RequestsKnowTheirRows` says that the rows they read still exist, that the
  order is still in the chain of the quote it was read with, and that a checked
  target is ahead of that quote. The proof first shows that a step only grows
  the rows (`StepGrows`), hence that chains only grow (`ChainsGrow`) and that
  what a request knows is stable (`KnowsStable`), then that each read step
  knows what it read (`StepKnows`), and last one lemma per conjunct. From it
  follow linear chains, one live order per quote, one invoice per order, an
  invoice that bills its deal, and that an order never leaves its deal.
  That the tables implement `DealBook` says the same in one piece, and more: no
  step joins, splits or reorders the deals themselves. `BookSees` writes the
  actions of the book out under the mapping (a deal is the chain of a quote that
  exists), and one lemma for each of the three services matches its steps. The
  hard one is a revision: `ReviseChains` shows that it adds its quote to the
  chain of the quote it revises and to no other, which needs that no step joins
  two deals (`DealsNeverMerge`): a new link leads from an existing quote to a new
  one (`LinksForward`), so two existing quotes are of one deal after a step only
  if they were before. A re-point is a move inside a deal because the target was
  checked against the chain; that the order was read long before does not
  matter. A status that is written late cancels, revives or changes nothing.
  For what the services promise while deals are serial, `SerialInv` says that
  what every request has read still holds (`ReadsStand`), that orders rest on
  acceptance, that started production is accounted for (`StartedIsAccounted`)
  and that a deal has one live order. `ReadsStand` is the heart of it: the deal
  of every request but the one that commits rests (`DealRests`), because the
  quote and the order it writes are of its own deal, and a read of a deal at
  rest stands (`RestingReads`, `OtherReadsStand`). From it follow the promises on
  orders and quotes, and that an invoice is issued for a live order on the offer
  it stands on. That the hypothesis cannot be dropped is what `resolve_race` and
  `repoint_race` show.
* **Outbox.** `OutboxInv` adds that only pending rows are locked, that a row
  marked added has had its job, and, for the duplicates, that as long as the
  next add of a pending row is still to come every job so far is explained by
  an earlier failure or rollback.
* **Deliveries.** The module is first shown to run `Outbox` unchanged
  (`DeliveriesImplementOutbox`), so its invariant may use `OutboxInv`.
  `SenderHoldsTheRow` says that the run that won the claim finds the row in
  sending, with no mail before SMTP has answered: so `markSent` and
  `markFailed`, which look at the id only, never meet another run's outcome.
* **Idempotency.** `SlotsAreConserved`: a request that runs or is about to
  release, an execution and the free key each hold a slot; steps pass slots on,
  and only an expiry or an unheard commit adds one. Two corollaries say what
  that means for the promise of the interceptor's comment: "at most once" within
  a window is true of every key whose commits were all heard of
  (`IdempotencyAtMostOnce`), so that the violation of `idempotency_unheard` is
  the only kind there is; and until the key first expires the claim is a lock,
  under which no two handlers run at once and none after an execution
  (`IdempotencyClaimExcludes`).
* **Catalog.** `CatalogInv` says what the requests in flight know of the
  assignments they have read (they still stand, or are among the `overtaken`),
  that a published release has its catalog, and that an issued quote derives
  from its stamps to its snapshot. The last is stable because the stores only
  grow (`Grows`, `ReproducedStays`), which is the one lemma the reproducibility
  rests on: no step of a retirement, an assignment or a pin appears in it. For
  the ledger, `LedgerInv` says what a rebuild knows between its steps: until its
  DELETE it has seen or missed every quote of its organization; its DELETE dooms
  rows of those only, and all of them unless another rebuild overlapped; and two
  rebuilds that run at once both know that they overlap. A rebuild that commits
  therefore replaces exactly the rows of what it has seen, or has recorded why
  not.
* **Fanout.** `RegistryInv` is deliberately weak: an entry is registered under
  its own channel, by a consumer that came before, and a forgotten entry has no
  consumers. It says nothing of the call stack, and needs nothing of it: however
  handlers nest, a subscription is closed only when its entry is drained,
  forgotten or disconnected. From it follow `NobodyIsCutOff` and the safety half
  of the refinement (`Contract!Spec`). The lemma `ContractSees` writes the
  contract's actions out under the refinement mapping, and the others match them
  one by one.
  `OnlyGhostsLeak` does need the call stack. `CallInv` is the checked `FanoutInv`
  and one thing that TLC did not ask for: nobody is in an entry that was never
  made, and who opens an entry is in it (`EntriesExist`). Its proof has two
  halves that meet only in the phases of the consumers: how frames are pushed,
  narrowed and popped (`StackCalls`, `StackDelivers`, `StackAlike`,
  `StackReturns`), and what each operation does to the entries, where a
  reopening, a disconnect and a teardown all reap.

* **Site.** `SiteInv` says that a site that is past the structural stage was
  sound (`PassedStructure`: among the rest, the other end of a port that consumes
  provides), and that the result has each surviving part under its own component
  and nothing else (`ResultIsAggregate`). So a part that survives is counted once
  and any other not at all (`SurvivorsAreCountedOnce`), and the property is a
  matter of who survives.

Model-checked only: the liveness properties and the liveness half of the
contract of the registry (fairness and ENABLED are outside of what the prover
handles), and the violations, which are refutations. Every safety property of a
passing run is stated by a theorem.

## 5. Where code and documentation part

Three disagreements are runs that expect a violation, and findings. Others were
met on the way and are in the models as the code has them:

* `site.ts` calls the owner's element "the part that stands", and CORE_SPEC's I6
  counts a shared element once. When the owner's rule does not emit that part,
  or the same element is consumed at another port of its owner, the consumer's
  part is dropped and none is counted (`OwnerIsGone`).
* `assignValidated` and `broadcastAssign` rest on "the row never changes", but
  `retire` changes its status: an assignment or a broadcast that read the
  release published goes on after it is retired.
* `unassign` returns when there is no assignment to remove, so a pin that
  strayed (`StrayPinsHaveACause`) is not cleaned up by calling it again.
* An assignment that was there already may still create a pin, and writes no
  audit row for it.
* `types.ts` of the registry lets every consumer receive every publication; a
  handler that throws keeps it from the consumers after it. A subscribe whose
  own handler throws leaves a consumer nobody can release
  (`OnlyGhostsLeak`).

## 6. What is not modelled

`components` in `PROJECT.json` gives the reason for each part. Within the
modelled parts: prices, VAT, the margin floor, the permission and tenancy
guards (they refuse, and a refusal changes nothing),
audit rows (written in the same transaction and never read by it), the readiness
gate of `publish`, the pruning of jobs by count, the exponential backoff, the
text of mails, and the stream position a joiner of a channel is told. A
statement that aborts by a serialization or deadlock error of PostgreSQL is
`Abandon` or `Rollback`.

Most of the repository is not a state machine. The web and mobile apps, the UI
kit, the renderers and the design files are rendering; the expression language,
the cascade and the rounding of money are pure functions whose inputs are whole
documents; the services of customers, projects, legal profiles and drafts change
one row by one statement. The erasure job is a sequence of idempotent statements
on tables that share no row. A model of any of them would restate the code.

## 7. What could come next

* Operators of the engine (the order of derivation, money and tax rounding)
  against reference definitions.
* An abstract mailbox (an event enters with its transaction, is handed to each
  consumer, takes effect at most once) that `Outbox` and `Deliveries` implement,
  in the way `Deal` implements `DealBook`.
* The part of a deal that holds without serial requests beyond `DealBook`: which
  pairs of requests on one deal commute, and which the code leaves to the client.
