# Verification of the AmisAd services

TLA+ models of the services under `src/poc/components`, TLC configurations that check them on small
instances, and TLAPS proofs of the properties that matter most. Paths below are relative to
`src/poc/components`; `coordinator` is `services/fabric-coordinator/src/main.rs`, `ledger`
`services/ledger-svc/src/main.rs`, `seller` `services/seller-svc/src/main.rs`, `slice`
`edge/slice-runtime/src/main.rs`, `lib` `lib/amisad-common/src/lib.rs`; the other services go by their
names, each in `services/<name>/src/main.rs`.

## The system

Buyers state sealed *needs*; sellers publish *offers*; a need is opened only inside an attested
environment at an edge, which matches it against the offers and either closes the match or returns a
shortlist. Money is settled on a hash-chained ledger, on which the consents each commitment relied on
are recorded too, so that an auditor can replay it.

| Component | State | Operations | Calls |
|---|---|---|---|
| fabric-coordinator | open needs, shortlists, orders by handle, mandates, pending and held commits, activity, all in memory only | state a need, book, consent, offer event, mandate grant/revoke, delegated need, approve, disclose, contributions | identity, ledger, resource, seller, ads, slice, platform |
| slice-runtime | armed faults, egress log | execute an environment; renew its lease | ledger, resource |
| seller-svc | offers, orders, stock (PostgreSQL, cached) | publish, stock, create and advance orders, catalogue, demand outlook | ledger, insights; events to coordinator and connect from detached threads |
| ledger-svc | three chains, settlement instructions (PostgreSQL, cached) | attest, instruct, confirm, adjust, consent, verify | none |
| audit-svc | access log | certify: replay the chains | ledger |
| ads-svc | campaigns, briefs, assets, attributions | create, activate, attribute, demand view | insights |
| connect-svc | partners, grants, delivered order events, ERP mirror | certify, grant, sync, events | seller |
| platform-svc | incidents, support cases, disclosures | open, disclose, refund, resolve | identity, ledger |
| resource-svc | edges with leases (memory), policies (PostgreSQL) | register, policy, place | none |
| insights-svc | cells, outlooks | aggregate, record, publish | coordinator |
| identity-mock | tokens | issue, verify | none |
| amisad-common | connection gate, one lock per service | serve, request, split arithmetic, store errors | — |

**What they have in common** (`lib`): a service reads at most 32 connections, one thread each, and runs
one handler at a time under the lock of its state. A handler that calls another service keeps the lock.
A call connects with one retry and waits 30 s for an answer; a POST is never sent twice, so a call that
was given up may have been done, may be done later, or never. There are no transactions over services.

**What is hard**: calls that fail between the steps of a commitment; late calls; a restart that loses the
coordinator's memory while its writes elsewhere remain; a ledger process that dies with a transaction in
doubt and whose successor reads the tables in several queries; events that repeat or are lost; data read
at one moment and relied on at a later one (consent, mandates, catalogue); locks held over calls;
wrapping money arithmetic. `PROJECT.json` lists each such hazard at its line with the properties that
cover it, or says why none does.

**What makes each part correct**

- *ledger-svc*: chains verify; only committed data is served; each match settles and is refunded once;
  a replayed request is answered for the very thing it asked.
- *matching* (coordinator, slice, seller): no order and no money without consent evidence on the chain;
  no use of a revoked consent; a need is ordered once and is not forgotten.
- *delegation*: mandate uses are valid when replayed, judged by the second at which the mandate was checked;
  nothing above the cap closes without the principal; a commit that failed part-way can be completed and is
  attributed once.
- *money arithmetic*: shares are exact away from overflow; whatever is stored balances (wrapped shares that still
  balance are stored).
- *serving*: handlers never wait for one another in a circle; every request is answered.
- *audit-svc*: a certificate is never untrue; a ledger at rest is refused one only for flawed evidence.
- *connect-svc*: the mirror catches up with the seller's board, and is ahead of it only in a state that somebody
  replayed before the order reached it; stock that a recorded delta replaced does not come back.
- *ads-svc*: a match is charged once, and only if its credit was instructed.
- *platform-svc*: what the agent can read, a running grant on the consent chain allows.
- *resource-svc*: an edge that renews stays placeable through a lost renewal, as long as its POSTs leave time for
  the next one; an acknowledged policy survives a restart.

## The modules

| Module | Models | Role |
|---|---|---|
| `Splits` | `lib` splits_for, ad_split; `ledger` parse_instruction; the table's CHECK | pure operators |
| `BookingPrice` | a price and a campaign credit becoming an instruction | the instance of `Splits` that TLC enumerates |
| `BookingPriceProofs` | | proofs |
| `Settlement` | what the ledger promises its clients | abstract specification |
| `Ledger` | ledger-svc with PostgreSQL | implements `Settlement` |
| `MCLedger`, `LedgerProofs` | | TLC instance; proofs |
| `Matching` | a buyer's own needs: coordinator, slice, seller and the ledger they write | composition of four services |
| `MCMatching`, `MatchingProofs` | | TLC instance; proofs |
| `Mandates` | delegated needs: coordinator, ledger and seller, and the auditor's rule | composition |
| `MCMandates`, `MandatesProofs` | | TLC instance; proofs |
| `ServiceLocks` | every service's gate and lock, and the call graph | composition of all services |
| `ServiceLocksProofs` | | proofs |
| `Audit` | audit-svc over `Ledger`, and what coordinator, slice, seller and platform-svc write there | composition of six services |
| `MCAudit`, `AuditProofs` | | TLC instance; proofs |
| `OrderMirror` | orders of seller-svc, their events, the mirror of connect-svc | two services |
| `StockSync` | inventory deltas through connect-svc into seller-svc's table and memory | two services |
| `AdBudget` | a campaign of ads-svc and the coordinator's boosted bookings | two services |
| `Leases` | edges (slice) renewing at resource-svc; its policies | two services |
| `SupportDesk` | the coordinator's disclosures and platform-svc's cases | two services |
| `Surroundings`, `MCSurroundings` | the five above | composition; TLC instance |
| `SurroundingsProofs` | | proofs, about each of the five and about their composition |

Definitions whose comment begins with *Faulty* are not used by any specification: each is a plausible bug
in the definition after it, and substituting it there must violate a property.

### Ledger

`db` is what PostgreSQL has committed, `mem[p]` and `status[p]` the cache and phase of process `p`,
`late` the transactions whose process died before it knew their outcome. Each POST handler of `ledger`
(338-565) is an action: it answers from memory (`InstructAnswer`, `ConfirmAnswer`, `AdjustAnswer`) and, if
there is something to write, ends in `Persist`: the database accepts and memory follows (`Store`), or the
connection is lost and the process exits (`Lose`, `store_error` in `database.rs`). An insert the database
refuses is a 503 and a stutter. A start is two actions because `main` reads the chains before the
instructions with no common snapshot. A confirmation or refund writes its rows in one transaction, so they
are one row here; a hash is the sequence of payloads it commits to, that is, SHA-256 is taken as injective.
The chart runs one process (`replicas: 1`, `Recreate`); the comment in `schema.sql` says what
UNIQUE (prev_hash) is for with two writers, so the model has any number. The write-token check and the mode
without a database are left out.

### Matching

The coordinator runs one handler at a time, so `handler` is a record that says which handler runs and which
remote call comes next; everything else may move between two calls. `attempt_match` (coordinator 210-398) is
`ConsentGate`, `FetchCatalog`, then what the environment did (`NoFittingOffer`, `Shortlist`, `CloseMatch`,
`DispatchFails`), then `RecordUse` and `CreateOrder`; a booking (1245-1426) is the gate, `RecordUse`,
`PostInstruction`, `CreateOrder`; `run_cycle` (400-441) is the same steps at an index of `openNeeds`. With
`Faulty`, every call may be refused or abandoned (`Fails`): not done, done, or kept in `late` to be done at any
time (`LateKinds`). Prices, slots, campaigns, tenants and regions are left out, offers are not changed once
published, the shortlists of delegated needs belong to `Mandates`, and a token is taken as valid.

### Mandates

Grant, revoke, delegated need, approval and the steps of `commit_delegated` (496-589) are actions; `Tick` may
happen between any two. `pending` and `held` are the commits that failed part-way and the over-cap matches.
`consent` holds mandate entries in the order the ledger received them; `Covers` and `InForce` are the auditor's
rule (`services/audit-svc/src/main.rs` 99-167). Three things are kept only for the properties: `checked`, the
second at which the handler checked the mandate, which its use carries; `unheard`, the pairs whose newest grant
or revoke is on the chain without an answer to the coordinator (an answered change ends that); and `excused`,
the uses that came late or were recorded while their pair was unheard. The environment is a step that returns
the offers that fit out of whatever the catalogue holds. A delegated need is declared in its mandate's category:
any other declaration is refused and changes nothing.

### ServiceLocks

A call is in the backlog, on a thread waiting for the lock, running with the lock, or calling with the lock.
`Calls` is the call graph read off every handler; a handler may make its calls in any order, any number of times
up to `MaxSteps`, and stop early. What the handlers compute is left out. Offer and order events leave seller-svc
on detached threads, so they are requests from outside (`Entry`).

### Audit

`Audit` EXTENDS `Ledger`, with payloads that say what was attested or consented to, and lets the services
that write there take their steps one call at a time. The coordinator's `handler` goes through
`Dispatch` - `RecordUse` - `CreateOrder` for a match closed in its environment, `Book` - `RecordUse` -
`InstructBooking` - `CreateOrder` for a booking (1245-1426), `GrantDisclosure` - `UseDisclosure` for a
disclosure (1126-1198). The slice runs one environment at a time (`Begin`, `Attests`, `InstructMatch`) and
ignores what the ledger answers, as `post_out` does (slice 193-213). `Fulfil` is the seller's confirmation and
`Refund` the support desk's. `PostFails` is a call that fails for its caller: refused, done with its answer
lost, or cut off with the ledger's process.

The auditor's run is four actions, `ReadAttestations`, `ReadSettlements`, `ReadConsents` and
`ReadInstructionsAndJudge`, in the order of `POST /v1/certify` (audit-svc 254-301), each reading what the
ledger's process serves at that moment; a read that fails answers the request without a certificate and changes
nothing, so it is a run that stays where it is. `Replay` is one entry of `consent_violations` (110-167) as a
step of a fold, `ReplayAll` the fold, written as a function of the number of entries so that it can be reasoned
about; `Incomplete` is `lifecycle_violations`, whose four events in order are stated of the positions of an
environment's rows (`RowsOfEnv`, `Complete`), and `SettlementHolds` `settlement_violations`, where the rows of
one confirmation or refund are one row as in `Ledger`. What a certificate must mean (`Flawed`) is stated without
a replay, by quantifying over positions of the chain.

Simplified: a match goes by the name of its environment, so that a shortlist is booked under one offer; a
re-grant's matching cycle is `Dispatch` steps after it; an aborted environment's retry is a new
environment; mandate uses are in `Mandates`; residency, which compares two fields of one row, is left out.

### The surroundings

Five pairs of services that meet on matters of their own. They share no state and no call, so nothing is lost
when TLC interleaves the steps of one pair only: `focus`, chosen in `Init`, says which pair moves.

- `OrderMirror`. `board` is seller-svc's table of orders, `senders` the detached threads of `notify_order_event`
  with the attempts they have left (`EVENT_RESEND_WAITS`), `wire` the sends they gave up on that may still be
  handled, `mirror` and `delivered` the state of connect-svc. `Applied` is `apply_delivery`. `Replay` is `POST
  /v1/webhooks/replay` (connect-svc 282-295), which takes any order in any ranked state at any time; `foretold`
  remembers the states replayed before the order had reached them. The process ends when a write is in doubt
  (`SellerExit`); whether such a write is done is settled before the next process loads the board. Tenants and
  slots are left out.
- `StockSync`. One offer. connect-svc holds its lock over the call (`sync`), so it passes on one delta at a
  time; `row` is the table, `shelf` seller-svc's memory, `calls` the calls given up on and `writes` the upserts
  in doubt, either of which may be done much later. `Taken` is the upsert's WHERE. The offer exists and belongs
  to the partner's tenant; only the scope `inventory` is kept of a grant.
- `AdBudget`. One campaign. `Boost` puts its credit on a shortlist when the feed shows it, `StartBooking` to
  `Attribute` are the calls of `POST /v1/bookings`, `Charge` is `POST /v1/attributions`, whose answer the
  coordinator does not wait for a second time. A shortlist is booked at most once and forgotten by a restart.
  Briefs do not gate anything and are left out.
- `Leases`. A clock in units: `timer` since the POST or sleep of each edge began, `age` since resource-svc
  registered it. `renew_lease` posts, then sleeps (slice 73-82); a POST takes any time until it times out at
  `MaxPost`, which may be longer than a renewal and than the lease; `waited` is the time spent in POSTs since
  the registration. `place` is `Candidates`; its choice of the roomiest is left out. One jurisdiction, since
  policies of different ones do not meet.
- `SupportDesk`. `grants` are the disclosure grants on the consent chain, `delivery` the one being delivered,
  `deliveries` those given up on. Cases are numbered by their count (platform-svc 143), so a restart reuses
  numbers, and a late delivery may reach a new case of the same number: the property speaks of numbers, as the
  grant's scope does.

## The runs

| Run | Question | Bounds |
|---|---|---|
| `BookingPrice` | Are shares exact, and does nothing unbalanced get stored? | a 12-bit width instead of 64, *every* price of it, six credits with the wrapping and rounding ones among them |
| `Ledger` | Do two processes, crashes and in-doubt transactions ever fork, double or lose a settlement? Is `Settlement` implemented? | 2 processes, 2 matches, 2 cases, 2 terms, one row on the other chains, 1 transaction in doubt; symmetry in all of them |
| `MatchingFaults` | Is there evidence before every order and settlement, whatever fails? | 1 buyer, an auto-closing and a manual need, 2 offers, 2 environments, 1 late call, 1 restart |
| `MatchingServed` | Without failures, is each need served once and none neglected? | 2 buyers, 3 needs, 2 offers, 3 environments, one of the offers going out of stock |
| `Mandates` | Do caps, scopes, evidence and resumption hold whatever fails? | 1 pair, 3 offers (cheap, dear, other category), 4 scopes, 2 changes, 2 environments, 1 late call, 1 restart, a clock of 2 seconds |
| `ServiceLocks` | Can handlers wait in a circle; is every request answered? | every entry but the outlook views, 2 requests at a time, gates of size 1 |
| `Audit` | Is a certificate ever untrue, a sound ledger at rest ever refused one, and do the services leave evidence it can be given for? | 1 ledger process, 1 buyer, a match closed in its environment and a booked one, a case, `MaxEvents` 3 |
| `Surroundings` | Do mirror, stock, budget, leases, policies and disclosures survive lost, repeated and late calls and restarts? | 1 order, replayed in any state, and 3 attempts per event; stocks 0 and 1, timestamps 0 to 2, 2 late calls or writes; 3 bookings at 2 of a budget of 5; 1 edge, a lease of 6, renewal 2, POSTs of up to 7, 2 policies; 2 cases, 2 artifacts, 2 grants, a clock of 3 |
| `LedgerRetry` | *violated*: a refused write can be retried | 1 process, 1 match |
| `MatchingLostOrder` | *violated*: a repeat cannot order a need twice | 1 need, 1 offer |
| `MandatesExpiry` | *violated*: no mandate use after expiry | no failures, 1 second |
| `LocksCycle` | *violated*: the call graph is acyclic | 3 requests |

The bounds are enough for what the properties tell apart: two of everything gives each pair of actors, matches
or cases that a property relates; one late call or restart can fall between any two steps; a third process or
match adds only more of the same pairs, which the proofs confirm for any number. `MaxEvents` of `Audit` counts
what starts work or fails: needs, changes of consent, disclosures, refunds, failed calls and crashes, in all;
three of them give a need and two of the others in every combination, between any two reads of the auditor. In
`Surroundings` an order passes through the three states a mirror can confuse, and an event has a first, a middle
and a last attempt, where the code has five; the budget pays for two of three bookings and leaves a rest below a
match, so the feed offers what cannot be charged; the lease is three renewals and a POST outlasts it, as in the
code (30, 10 and over 30 s); two grants of two artifacts in two lengths can be delivered in the wrong order and
outlive each other. Events of different orders and leases of different edges do not meet, and the proofs have
any number of each. Gates of size 1 are the tightest case: the proof covers every size. Deadlock is checked for
`Ledger`, which can always restart; the other models stop when their bounds are used up.

**What holds only under a stated condition.** `UsesAreAllowed` is checked with late instructions and orders but
not late uses: an abandoned use may reach the chain after a revoke, and the auditor then counts it.
`OneOrderPerShortlist` is checked without failures: after a booking whose order answer was lost, another offer
of the shortlist can be booked. `CheckedUsesAreValid` judges a use by the second at which its mandate was
checked, not the later one of its stamp (`MandatesExpiry` is about that one), and excepts uses that came late
and those recorded while a newer change of their mandate was on the chain without an answer to the coordinator;
a later use of the same pair is covered again once a change is answered. `AheadOnlyByReplay` excepts what was
replayed ahead of the order, which connect-svc applies like a first delivery. `NoneForgotten` and
`ServedInTheEnd` except offers that have been out of stock, since a restock is not announced, and say nothing of
manual needs, which leave with an empty shortlist when nothing fits although the coordinator's header says that
a need without a fitting offer stays open. `NoFalseAlarm` is about a run during which nothing is written: while
a match is under way a certificate may be refused, as the auditor's comment on traces in progress says
(audit-svc 92). `FlawsComeFromFailures` excludes failed calls and a delivery that outlives its grant
(`overdue`): the use is then stamped after the expiry, and the auditor counts it. `OneLossIsSurvived` is stated
of an edge heard from since it and resource-svc started, that has lost at most one POST, and for as long as its
time in POSTs and its sleeps since the registration are shorter than the lease; nothing is assumed of how long
POSTs take. `MirrorCatchesUp` excepts events that are never delivered (`missed`): given up on after five
attempts, lost with a process, or never sent because the write was in doubt. `PolicyHolds` lets a restart come
up with a policy whose write was in doubt at the last acknowledgement or since; it may commit late, over the
acknowledged one.

**Fairness.** `Matching`: weak fairness of the running handler (`Continue`), since every call it waits for ends
within its timeout and the state lock is released only at its end; strong fairness of `OfferPublished`, since
the seller sends the event again until it is answered and a request that waits for the lock is not passed over
for ever while others take it. Buyers, sellers, publications and consents are under no fairness. `ServiceLocks`:
weak fairness of each accept, each lock and each answer (threads are scheduled and handlers return); calls and
timeouts are not assumed to happen, so nothing rests on a read that times out. `Surroundings`: weak fairness of
`DeliverEvent` for each order and state, since the thread that has the event loops until it is taken or its
attempts run out, each send ending within its timeout; neither success nor any restart is assumed. `Audit` is
checked for safety only. `Ledger` (only `LedgerRetry`): processes are restarted, and a client repeats the
confirmation, under strong fairness of its success: even so it may never succeed.

## Where the code disagrees with itself

1. `LedgerRetry`: `database.rs` 23-24 says that SQL errors leave the process available for retry. A transaction
   in doubt that commits after the restarted process has read the chains makes its head stale; every later
   append of that chain is refused by UNIQUE (prev_hash), an error that does not close the connection, so the
   process answers 503 until somebody restarts it.
2. `MatchingLostOrder`: coordinator 1221-1222 and seller 121-125 say a repeated offer event cannot order a need
   twice. It can when the answer to the order was lost: the need stays open and the next event serves it in a
   new environment, under a new match id.
3. `MandatesExpiry`: coordinator 16-20 and 1088-1092 promise that recorded mandate uses are valid when replayed;
   the expiry is read at one second and the use stamped at a later one. That every other check holds from then
   to the use is `CheckedUsesAreValid`.
4. `LocksCycle`: `lib` 338-340 says the call graph is acyclic. The coordinator reads the seller's catalogue, the
   seller's demand outlook reads insights-svc, and the aggregation cycle reads the coordinator; the three then
   wait for each other until their reads time out. That they do go on after the timeouts is not checked.

## What is proved

| Theorem | Module | Says |
|---|---|---|
| `StoredBalanced` | `BookingPriceProofs` | `StoredIsBalanced`, for every width, price and credit |
| `ExactAwayFromOverflow` | `BookingPriceProofs` | `SharesAreExact` |
| `TypeCorrect` | `LedgerProofs` | `TypeOK` of `Ledger` |
| `ChainsAlwaysVerify` | `LedgerProofs` | `ChainsVerify`: no fork, for any number of processes |
| `NothingUncommittedServed` | `LedgerProofs` | `ServedIsCommitted` |
| `MoneyMovesOnce` | `LedgerProofs` | `SettledOnce` |
| `RefundsAreReplayed` | `LedgerProofs` | `RefundReplay` |
| `LedgerRefinesSettlement` | `LedgerProofs` | `KeepsPromise`: `Ledger` implements `Settlement` |
| `TypeCorrect`, `EvidenceComesFirst` | `MatchingProofs` | `TypeOK`, `EvidenceFirst`, whatever fails |
| `WhatIsToldIsBacked`, `ConfirmedBeforeSettled` | `MatchingProofs` | `RecordedIsBacked`, `SettledIsConfirmed`, whatever fails |
| `PromptUsesAreAllowed` | `MatchingProofs` | `UsesAreAllowed`, if no consent and no use lands late |
| `ShortlistOrderedOnce`, `NeedOrderedOnce` | `MatchingProofs` | `OneOrderPerShortlist`, `OrderedOncePerStatement`, without failures |
| `OpenNeedsAreRemembered` | `MatchingProofs` | `NoneForgotten`, without failures |
| `TypeCorrect`, `EvidenceComesFirst` | `MandatesProofs` | `TypeOK`, `EvidenceFirst` |
| `OverCapIsWithheld` | `MandatesProofs` | `WithheldUntilApproved` |
| `UnfinishedStaysResumable` | `MandatesProofs` | `UnfinishedIsResumable` |
| `AttributedOnlyOnce` | `MandatesProofs` | `AttributedOnce` |
| `UsesValidWhenChecked` | `MandatesProofs` | `CheckedUsesAreValid`, for any history of grants, failures and restarts |
| `AcyclicCannotDeadlock` | `ServiceLocksProofs` | `CannotDeadlock` when no entry is an outlook view |
| `TypeCorrect` | `ServiceLocksProofs` | `TypeOK` of `ServiceLocks` |
| `AuditTypeCorrect` | `AuditProofs` | `AuditTypeOK` |
| `LedgerKeptByServices` | `AuditProofs` | `ServedIsCommitted` and `SettledOnce` with the services as the ledger's clients |
| `TamperingIsLocated` | `AuditProofs` | `TamperLocated`, for chains of any length |
| `CertificatesAreTrue` | `AuditProofs` | `CertifiedIsTrue`, with one ledger process |
| `AlarmsAreReal` | `AuditProofs` | `NoFalseAlarm` |
| `FlawsNeedFailures` | `AuditProofs` | `FlawsComeFromFailures`, with one ledger process |
| `MirrorAheadOnlyByReplay` | `SurroundingsProofs` | `AheadOnlyByReplay`, for any orders and attempts |
| `CatalogueNeverGoesBack` | `SurroundingsProofs` | `CatalogueHonoursDeltas`, for any stocks, timestamps and late calls |
| `AdvertiserChargedOnce`, `AdTypeCorrect` | `SurroundingsProofs` | `ChargedOnce`, `AdTypeOK`, for any bookings, price and budget |
| `LeaseTypeCorrect`, `OneLossSurvived` | `SurroundingsProofs` | `LeaseTypeOK`; `OneLossIsSurvived`, for any edges, lease, renewal and POSTs |
| `PolicyNeverLost` | `SurroundingsProofs` | `PolicyHolds`, for any policies |
| `OnlyGrantedIsRead` | `SurroundingsProofs` | `DisclosedIsGranted`, for any cases, artifacts and lengths |
| `SurroundingsTypeCorrect` | `SurroundingsProofs` | `TypeOK` of the composition |

Two more are corollaries or housekeeping: `SurroundingsKeepPromises` restates the six properties of the pairs
for their composition, and `TypeCorrect` of `BookingPriceProofs` gives the ranges of the two inputs.

*BookingPrice.* `Wrap` is the identity on the type and negative just above it; a percentage is below a hundredth
of the range, so the sum `parse_instruction` computes can overflow at most once, upwards, and then shows as a
negative value, which the CHECK refuses. `LimitAssumption` (a positive width) and `AdCreditsAssumption` (ads-svc
refuses a campaign whose credit is not positive) are all it rests on. `ExactIfInRange` follows a price and a
credit within range through every intermediate value: none wraps, so the shares are the integers the documents
promise, and the sum `parse_instruction` computes is the value it compares with.

*Ledger.* The invariants are not inductive: `ChainsVerify` says nothing of the transactions in doubt, and
`SettledOnce` nothing of stale memory. `Inv` adds that every `prev` is the list of the payloads before its row
(`Committed`), that every transaction was built on the first rows of the committed chain (`Grounded`), that
memory is a prefix of the database, and that an *admissible* transaction is `Justified`: what its handler
checked in a possibly stale memory is true of the database. The key lemma is `UniqueMeansHead`: what UNIQUE
(prev_hash) lets in was built on the whole chain. One lemma per handler shows that the transaction it prepares
is sound; `ApplyKeepsSound` that applying one keeps the others sound. `NoTermsAssumption` is the assumption
used, and SHA-256 without collisions is built into `Hash`.

*ServiceLocks.* `Inv` says that calls run usable handlers and a caller's callee is one it may call.
`Measure`, the rank of the service and then the phase, falls along every wait (`WaitsGoDown`), so a set of
calls has a member that waits for none of them.

*Matching.* Four of the properties need no hypothesis and come from one invariant, `SafeInv`. `EvidenceFirst`
says nothing of what is still on its way, so `RemoteInv` adds that every late call is grounded: a late order's
match has its use, and a booked one its instruction, already. `HandlerInv` says the same of the running handler
by the call it has come to, and `MemoryInv` of what the coordinator remembers. The others need more:

- `AllowedInv` (`UsesAreAllowed`): a handler past its gate holds the coordinator's lock, so the buyer is still
  granted. The hypothesis `PromptConsent` is the bound of the run: an abandoned consent or use that lands later
  breaks the property.
- `OnceInv` (`OneOrderPerShortlist`): environments have numbers of their own, a shortlist with an order is
  booked, and a match in hand is new. The hypothesis is `~ Faulty`; with failures, a booking whose order answer
  was lost leaves the shortlist open.
- `CountInv` (`OrderedOncePerStatement`): a need that is open or in hand is owed one order, so it has had fewer
  than it was stated times. Counting orders uses finite sets.
- `WakeInv` (`NoneForgotten`): once no event is on its way, an open need something fits lies ahead of the
  running cycle's index, and a dispatched environment's catalogue holds all that is published. A need taken out
  of `openNeeds` moves those after it down by one, which is where the index matters (`RemoveAtIs`).

`PromptUsesAreAllowed` and the last three are implications from these hypotheses, which are on constants only;
the runs `MatchingFaults` and `MatchingServed` are instances that satisfy them. `ParametersAssumption` and
`NoMatchAssumption` are used.

*Mandates.* `SafeInv` is built like that of `Matching`; it holds `EvidenceFirst` and `WithheldUntilApproved`,
and every instruction is `Allowed`: approved, or within a cap that was granted on the chain. `ResumeInv` follows
the money: a match that is instructed, or will be by a late instruction, has its order, was given up, is in
hand, or is kept in `pending` or `held`. `OneInv` puts each commit in one place: commits that are kept or
running have environments of their own, a pair and need has one pending commit, and what is shown as done is
none of them. `ReplayInv` says that a mandate the coordinator remembers of a pair that is not unheard is the one
in force on the chain (`InForce`, the newest change of that pair), and that a handler between its check and its
use still acts under a mandate it remembers, which had not expired at the second of the check and covers its
commit (`InStep`). `InForceAfter` says what one more entry makes of the grant in force, `ValidAfter` that it
leaves the earlier uses as they were. `MandateParameters` and `NoneAssumption` are used.

*Audit.* `AuditInv` is the ledger's `Inv`, with which every handler's transaction is shown to be one `Ledger`
allows (`LedgerStep`: the composition takes only ledger steps, so all that is proved of `Ledger` holds in it),
and the types of what the services hold. On top of it:

- `TamperLocated`: an untouched chain verifies at every row; a changed payload changes the hash that is
  recomputed at its own row and at no row before it, and `HashInjective` makes that a difference.
- `RunInv` (`CertifiedIsTrue`): what the run has read so far is a prefix of the database and no shorter than
  what was there at its start, since chains only grow (`DatabaseGrows`). A use that was allowed where it stands
  stays so, and a match that is backed stays backed (`UsesGrow`), so reads at different moments are sound in the
  order in which they are made: the attestations first, the instructions last. The hypothesis `SingleLedger` is
  the deployment's: the chart refuses any number of replicas but one. With two processes, a later read could be
  answered by the one that is behind.
- `StillInv` (`NoFalseAlarm`): a run at rest reads one state. That the settlement rules never fail it
  (`SettlementChecked`) is `SettledOnce` and the rest of the ledger's `Inv` seen through the auditor's
  definitions.
- `OrderlyInv` (`FlawsComeFromFailures`): until a call fails, processes hold what is committed (`AtOnce`); the
  coordinator waits for the one environment there is (`Waiting`); its rows are those its next event calls for
  and all others' are whole (`Traces`); and what is instructed has a use or is in the hands of the slice or the
  handler that will record it, at a gate nobody can close meanwhile (`Uses`). One lemma per step of the
  coordinator and of the slice. It is an implication from `failures = 0`, with `SingleLedger`.

The last three rest on `ReplayKnows`: after n entries of the consent chain the replay holds exactly the keys
whose newest change is a grant or a revoke, the matches with an allowed use, and no invalid use if and only if
all uses were allowed. It is proved for every chain without an induction theorem: `ReplayExists` and
`ReplayKnows` take the least length at which they would fail, which exists because the natural numbers are
well-ordered (`NatMin`, from `WFMin` of the library), and derive a contradiction from the step. That makes
concrete recursive functions tractable where the theorems with an operator parameter cannot be instantiated.

*The surroundings.* Each theorem is about the specification of its own module (`MirrorSpec`, `StockSpec`, ...).
`PairsRun` shows that a behaviour of `Surroundings` is one of each of the five, so the properties hold in the
composition (`SurroundingsKeepPromises`). In each the property says nothing of what is still on its way, and the
invariant adds it. `BehindBoard`: every event a thread or the wire holds is of a state the order has reached,
and what is shown beyond the board was foretold. `HonoursInv`: a delta that seller-svc took, recorded or not, is
in its table or older than what is, and a serving process's memory is the table's row. `AdInv`: the booking
under way is not closed, is credited past its instruction, a charge closes its booking, and an attribution still
on its way is of a booking not charged; `spent` counts the charged ones. `AgesBounded` and `SleepsBounded`: how
old a registration can be, by the phase of the loop, the POSTs lost since and the time spent in them.
`PolicyInv`: the table holds the acknowledged policy or a doubted one. `GrantsFirst`: a delivery, and what a
case holds, is a grant on the chain. The assumptions are those on the constants beside them:
`AttemptsAssumption`, `StockAssumption`, `BudgetAssumption` (ads-svc 84 refuses other campaigns),
`TimeAssumption`, `PolicyAssumption`, `DeskAssumption`.

The strengthened invariants were model-checked on the instances of the runs before they were proved.

**Only model-checked.** Every safety invariant of the passing runs is now a theorem. What stays with TLC is
liveness (`ServedInTheEnd`, `EveryRequestAnswered`, `MirrorCatchesUp`), which is out of the prover's reach
together with ENABLED, and the four violated claims, which are counterexamples. Where a theorem has a hypothesis
the run is within it too: nothing is claimed of certificates while several ledger processes serve, which the
chart rules out, or of the properties of `MatchingServed` when calls fail.

## Known gaps

What the properties above leave open on purpose, because the code does:

- A credit can be settled that the campaign is never charged: the feed offers a campaign with less left than one
  match costs, bookings under way share the rest, an attribution is sent once, and ads-svc forgets what was
  spent when it restarts. The comment at ads-svc 209-210 is about the commitment ads-svc books, which is capped.
- An order event is not sent when the order's write was in doubt and committed, and none is sent again after a
  restart of connect-svc: the mirror stays behind until the next state.
- A disclosure whose delivery failed for the coordinator may still be readable, without its use on the chain.
- A need's evidence can be incomplete for ever after a lost attestation; the auditor then never certifies.
- One lost renewal can cost an edge its placement, against the comment at slice 46-47: a POST that hangs until
  its timeout of 30 s uses up the lease. `OneLossIsSurvived` says for how long a loss is survived.
- A replay of an order event is not checked against the order: `settled` replayed for a committed order is
  shown.
- Wrapped shares of a price near the limit of the integers can balance, and are then stored.

## Not modelled

HTTP parsing, JSON, localisation, health answers and the order of a shutdown; the contents of envelopes and the
matching rules beyond "this offer qualifies"; contribution consents, notifications and the activity trail; the
catalogue sync of connect-svc (a loop of publications), its partner registry and its log of refused calls;
capacities, telemetry and incidents; demand cells, their suppression threshold and outlooks, which are computed
by one handler from its own state; tokens; the user interfaces, charts, scripts and scenario tests.

## Plan

1. `Splits`, `BookingPrice`: done, proved.
2. `Ledger` over `Settlement`: done, proved.
3. `Matching`, `Mandates`: done, all safety properties proved.
4. `ServiceLocks`: done, proved.
5. `Audit` over `Ledger`: done, all safety properties proved.
6. `Surroundings`: done; the safety properties of its five modules proved, and of their composition.

Next: the refinement of the abstract matching promise by `Matching` (one order per need, evidence before it) as
a specification of its own, in the manner of `Settlement`; what survives of `OrderedOncePerStatement` with
failures.
