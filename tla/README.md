# A TLA+ verification project for Synesis

Synesis lets an organization buy recommendations from Olas mechs and act on
them through KeeperHub on Base. Its correctness rests on a handful of durable
state machines: intents, an outbox, a job queue, reservations of contract
calls, memberships and integration readiness, all in PostgreSQL, all written by
several processes at once. This directory models those state machines, checks
them with TLC on small instances and proves the central ones with TLAPS for
every instance.

Paths below are relative to the repository root.

## 1. The system

| Component | Code | State it keeps | Operations | What is hard |
| --- | --- | --- | --- | --- |
| Intent lifecycle | `packages/domain/src/state-machine.ts` | state, version, timestamps of an intent | `transitionIntent` | which paths the table opens, taken together |
| Intent persistence | `packages/database/src/repositories.ts`, `schema.ts` | `intents`, `audit_events` | compare-and-swap `applyTransition`, with and without outbox | callers act on versions they read earlier |
| Transactional outbox | `repositories.ts` (outbox), `apps/worker/src/coordinator.ts` | `outbox_messages` | enqueue, claim, publish, mark, retry, reclaim | leases that expire under a live publisher, crashes between queue and database |
| Coordinator, queue, runtime | `coordinator.ts`, `runtime.ts`, `packages/queue/src/index.ts` | BullMQ jobs, `event_inbox` | advance, ingest, reconcile, locked processor | jobs that run late, twice, or past their deadline |
| Olas gateway | `apps/api/src/olas-gateway.ts` | `keeperhub_executions`, `transaction_receipts`, `olas_requests` | `submit` | lost answers of a broadcast, concurrent retries |
| Receipt verification | `packages/keeperhub-client/src/receipt-verification.ts` | none | `reconcile` | which evidence decides first |
| KeeperHub client | `packages/keeperhub-client/src/safe-execution.ts`, `index.ts` | `#notBefore` of a client | simulate, broadcast, protocol actions | concurrent invocations under one rate limit, stale evidence, what the key leaves out |
| Membership | `apps/api/src/auth.ts` | `memberships`, audit events | role changes, decisions | reads that are stale at commit |
| Sessions | `apps/api/src/auth.ts`, `apps/web/src/app/api/auth` | `auth_sessions`, the browser's cookies | login, callback, reauthentication, sign-out | tabs, lost and reordered answers |
| Integration onboarding | `apps/api/src/integrations.ts` | secrets, health checks, readiness | configure, recheck, load | verification runs that overlap with replacement and use |
| Delivery webhook, validation | `apps/api/src/delivery-webhook.ts`, `apps/worker/src/olas-delivery-reconciliation.ts` | `event_inbox` | accept, validate | which request a delivery is of |
| Mech directory, selection | `apps/api/src/mechs.ts`, `packages/domain/src/mechs.ts` | a 60 s cache, frozen selections | read, freeze | two caches in a row, overlapping reads |
| Quorum, limits | `packages/domain/src/quorum.ts`, `spending-limits.ts` | none | evaluate | rules that must be satisfiable together |
| Proof bundles | `packages/domain/src/proofs.ts`, `hashing.ts` | none yet | create, verify, serve | what a root hash covers, and for whom it verifies |
| Olas and Aave contracts | `packages/olas-contracts/src` | none | calldata, manifest, events, health | which calls are acceptable |
| Olas adapter | `services/olas-adapter` | a 60 s cache | discover, score, quote, plan, sign | agreement with the contracts package and the frozen quotes |
| Migrations | `packages/database/src/migrations.ts` | `schema_migrations` | up, down, seed | concurrent runs |
| Web, UI, observability, deployment | `apps/web`, `packages/ui`, `packages/observability`, `deploy` | none that others read | rendering, logging | not modelled |

How they interact: requests change rows in transactions of their own; an
intent's transition and the message of its next job share one transaction; a
publisher carries messages to the queue; a queue worker runs the job in a
transaction that locks the intent; a reconciler turns overdue intents into
messages again. `submit` loads credentials from the integrations, reads the
intent, reserves the call, broadcasts it through KeeperHub and records what the
receipt verification concludes. The calls themselves come from the adapter's
plans, made at the price of the moment, and are admitted by the manifest's rules
and the quotes frozen into the intent. What the Mechs deliver is validated and
evaluated by a quorum; proof bundles are to publish how it went.

What makes each part correct: intents move along the table, one version at a
time, whoever races; a message is never lost; a job acts only on the version it
was made for; no call is broadcast twice, and success is recorded only for what
landed; authority goes back to the creator of the organization; readiness is
that of one complete verification; a sensitive action follows a recent
authentication of the same person; what is broadcast was simulated; an intent
spends no more than its frozen quotes.

## 2. The modules

| Module | Models | Instantiates |
| --- | --- | --- |
| `IntentLifecycle` | abstract: the transition table with versions and a trail | |
| `IntentStore` | the `intents` table with racing callers | `IntentLifecycle` (implemented) |
| `MessageDispatch` | abstract: what becomes of a message | |
| `Outbox` | outbox rows, publishers, leases, crashes | `MessageDispatch` (implemented) |
| `Coordinator` | intents, messages, jobs, reconciler together | `IntentStore`, `MessageDispatch` |
| `ReceiptVerification` | the classification of one reconciliation cycle | |
| `Gateway` | concurrent `submit` calls, KeeperHub and the chain | extends `ReceiptVerification` |
| `Membership` | roles, role changes, audited actions | |
| `Integrations` | credentials, verification runs, readiness, loads | |
| `Session` | login, cookies, sessions, reauthentication, sign-out | |
| `SafeExecution` | policy, key, simulation, rate limit of KeeperHub's client | |
| `MechDirectory` | Mechs, their scores, two caches, overlapping reads | |
| `Calldata` | the manifest and the rules that admit a call | |
| `Procurement` | plans, frozen quotes, executions, the shared allowance | extends `Calldata` |
| `RecommendationQuorum` | validation of a delivery, the nine rules of a quorum | |
| `Decision` | deliveries of paid Mechs, validated and evaluated | extends `RecommendationQuorum` |
| `ProofBundle` | redaction, creation, verification, serving of bundles | |
| `MC*` | small instances for TLC | the module named |
| `*Proofs` | theorems and proofs | extend the module named, and some a second: `MembershipProofs` also `Session`, `IntegrationsProofs` also `MechDirectory`, `SafeExecutionProofs` also `Procurement` |

A module whose proofs share a module with another's has names of its own for its
initial predicate, its steps and its specification (`SessionSpec`,
`DirectorySpec`, `PaymentSpec`).

Definitions that appear just before a mapped one, with almost its name
(`AlwaysMatches` before `Matches`), are the slips it is tested with: replaced by
the slip, some property of the runs must fail. Nothing else uses them.

### IntentLifecycle and IntentStore

`ALLOWED_INTENT_TRANSITIONS` is `Allowed`, in three parts. A caller's
`TransitionIntent` is the pure `transitionIntent` on the intent it read; it
*holds* the result, as the code holds an `IntentStateTransition`, while others
move. `ApplyTransition` is the transaction of `applyIntentTransition`: the
`WHERE` clause is `Matches`, the update and the audit event are
`WriteTransition`. Losing the race (`PersistenceConflictError`), rolling back
and dying are `GiveUp`. Ids, actors, hashes and reasons are left out.

### MessageDispatch and Outbox

A row has its status, its attempts and one flag `due` for the clocks:
`availableAt` has passed, or the lease has expired. A publisher is in one place
of `drainOnce`; `Publish` adds the BullMQ job (adding one twice changes
nothing), and `MarkPublished` or `MarkRetry` follow in transactions of their
own. In between leases expire, other workers take over, processes die.
`lockedBy` is written and never read, so it is left out; this is why a late
publisher may mark a row somebody else has leased, and why `PublishedIsQueued`
and `SettledStays` are worth stating.

### Coordinator

Intents come from `IntentStore`, messages from `MessageDispatch`. `Advance`,
`IngestEvent` and `EnqueueReconcile` are the transactions of
`DurableIntentCoordinator` and `ReconciliationService`; message keys are those
of the code, with their versions. A job has BullMQ's state: attempts, stalls,
waiting, active, completed, failed. `Timeout` is the timer that wins
`Promise.race` while the processor goes on; `Stall` is a lock that was not
renewed. A processor (`Process...`) holds the intent's lock from its first
statement, so it is one step at its commit. Handlers are not part of this
repository's worker (the default one does nothing), so a handler is anything a
handler may do: nothing, one legal transition with its message, or an error.

Approximations: BullMQ removes completed jobs after 7 days and failed ones
after 30; here job ids stay. Exponential backoff is not timed. Outside tests
nothing calls `advanceIntent` and `ingestEvent` yet; the callers are those the
interface is made for.

### ReceiptVerification and Gateway

`Checks` lists the tests of a reconciliation cycle in their order with the
verdict of each; `Classify` takes the first that applies. The gateway gives no
Safe address. `Gateway` runs `submit` of several requests, a step for each
transaction, each call of KeeperHub and the pause check; each may die between
any two (`Throw`). What may come before the reservation only reads and rejects
(`Begin`). KeeperHub and Base are external: KeeperHub makes one execution per
idempotency key, and is trusted to say which transaction that is, because a
request that retries does not know the hash; what became of the transaction
must come from the Base RPC. A 429 that is retried within the client is one
broadcast that was refused. Nothing in the code sets `pausedAt` yet;
`TogglePause` is whoever does. `TIMED_OUT` needs a deadline in the past, which
the gateway does not produce, but the model allows it.

### Membership

`authorize` is a read of the membership (`May`); what a request does comes
later, in its transaction. For a role change that transaction has three
statements, each its own step under READ COMMITTED: find the target's role,
count the owners if an owner would be demoted, set the role with its audit
event. No route inserts a member other than the creator, so `InsertMember` is
the operator of the database, who inserts no owners. Whether the session of the
request is good is the matter of `Session`.

### Integrations

`Configure` is the transaction of `configureAndCheck`, `Recheck` the read of
`recheck`; `Record` is the transaction at the end of `#runChecks` with whatever
the probes found (`Findings`: balances need a signer and a block number).
`Report` is the audit event of the route, a transaction of its own. A load
reads status and secret side by side, as `Promise.all` does.

### Session

One browser with several tabs: a request carries the cookies of the moment it
is sent, and its answer changes them when it comes, if it comes. Secrets are
random and new, so each is named by the request that made it. `BeginLogin` and
`Callback` are the routes of the web application, `SignIn` is `POST
/auth/session`, `Authenticate` is `authenticate` with `requireCsrf`, `Check` the
recent authentication `authorize` wants or the fresh token `POST
/auth/reauthenticate` wants, `Commit` the write to the row, `Answer` the cookies
that come back. The identity provider (`Issue`) authenticates anybody at any
time, by a clock that may be ahead, and may not tell when. `crossed` and `alone`
are history: cookie changes that overlapped or were lost.

### SafeExecution

The invocations of one client share `#notBefore`; each is a loop with an `await`
at its sleep and its `fetch`. `Look` computes the wait, `Fetch` sends whatever
the others have learnt meanwhile, `Receive` handles an answer. `Body` is what
KeeperHub is sent, `Key` what its idempotency key covers, `Allowed` the rules of
the policy. KeeperHub serves a quota in each period and refuses the rest. `told`
and `known` are history.

### MechDirectory

A read of the API is answered from its cache or asks the adapter (`Ask`), which
answers from a second cache or inspects the Mechs one by one (`Inspect`) while
they change; both caches compute their expiry from a clock read before the work
(`Store`, `Fill`), and a read gives up before the adapter does (`ReadFails`).
`Score`, `Reasons` and `Entry` are `_score_mech`. `lastShown` is history.

### Calldata and Procurement

`Validate` is `validateCalldata` on what a call decodes to. `Plan` is
`create_request_plan` at the Mech's price of the moment, `Send` the keyless
signer's way through the gateway, in one step, because `Gateway` has its steps;
the transactions are mined in any order (`MineApproval`, `MineRequest`,
`Revert`), and prices move in between (`Reprice`). A call in no plan is a stray:
the external `mech-client` may send it too.

### RecommendationQuorum, Decision and ProofBundle

`ValidDelivery` is `validateOlasDeliveryResult`, `Rules` the nine rules of
`evaluateRecommendationQuorum`. `Decision` puts them in a row, as the comment of
the former says they are meant to be; nothing calls them in a row yet, so the
caller may evaluate when, in which order and for which request it likes.
`ProofBundle` has redaction, creation, verification and the route as operators
without state. A payload is a function from paths to leaves. `canonicalJson`
sorts keys with `localeCompare`, so a digest is of a payload *and* the collation
of the process; a collation is any function from sets of paths to orders.

## 3. Runs

All runs are of instances small enough to be exhaustive.

| Run | Instance | Result |
| --- | --- | --- |
| `intent_store` | 1 intent, 2 callers, 2 timestamps, the whole table | chain unbroken, no re-entry, evaluation before execution, time forward, implements `IntentLifecycle` |
| `outbox` | 2 messages, 2 publishers, 2 attempts, batches of 2, 2 faults | nothing lost, none given up early, settled is final, implements `MessageDispatch`, everything settles |
| `coordinator` | 1 intent, 1 caller, 1 event, 1 reconciler, 1 version | transition and message together, messages tell history, reconciliation only when overdue, lifecycle still implemented |
| `coordinator_recovery` | 1 intent, 1 reconciler, 2 attempts, 1 stall, 1 fault | overdue intents get their message, every job ends, none completes without effect |
| `gateway` | 3 calls of 2 purposes, 2 requests, 3 submits | never rebroadcast, success landed, recorded together, answered means recorded, success is final |
| `membership` | 2 users, 2 requests, 4 role changes | authority from the creator, audit tells the role, last owner lost only in a race |
| `integrations` | 2 credentials, 4 components, 2 requests, 1 load, 3 runs | readiness is of one whole run, unverified credentials only after a replacement |
| `session` | 2 people, 4 requests, lifetimes of 1, times 0 and 1, 2 ID tokens | sensitive actions follow a recent authentication, CSRF and login are refused only after overlap, loss or expiry, a sign-out is final |
| `safe_execution` | 3 invocations, 5 calls under 2 rules, quota 1, 1 retry, times 0 to 2 | broadcast was simulated, one key one effect, served once, resets are waited for |
| `mech_directory` | 2 Mechs of 4 kinds, 2 reads, lifetime 2, timeout 1, 1 change | what is served was true less than two lifetimes ago, no refused Mech outscores an eligible one |
| `procurement` | 2 Mechs quoted 2 and 3, prices 1 to 3, 4 stray calls, 3 price changes | spending stays within the quotes, a Mech starves only by another |
| `decision` | 2 Mechs, SUPPLY or HOLD, 2 expiries | **violated**: two agreeing deliveries are rejected |

Why the bounds are enough. Rows of different intents, of different
organizations and of different messages share nothing, so one intent or
organization shows every race; two messages are needed for a batch with a rest.
Two actors are enough for one to overtake the other, and three submits for one
to broadcast, one to retry and one to come between. The transition table has no
cycle, so `intent_store` needs no bound on versions. One version in the
coordinator is enough for every job, event and candidate to be stale. Four
requests of a browser are two logins, a change of cookies and a request that
meets them; a lifetime of one tick is enough to let anything run out under a
request. Three invocations let an older answer of one come after a newer one of
another while a third is about to send. A change of one Mech, before, between or
after two reads and the inspections that outlive them, is all that a cache can
be late for. Counters of faults, submits, runs, role changes, tokens, price
changes and ticks exist only as bounds.

Runs of safety properties do not check for deadlock where the system may stop:
an intent ends in a terminal state, all messages are settled, invocations are
done, the clock and the bounds are used up.

### Fairness

- `Outbox`: clocks advance (`BecomeDue`), a publisher works through its batch
  and the reconciler reclaims leases: all three are timers or loops without a
  condition (weak fairness). A due row is claimed eventually although other
  rows compete (strong fairness): claims are ordered by `availableAt`.
- `Coordinator`: the reconciler's timer, the publisher (weak fairness of
  `Carry`, which the outbox run justifies), and the queue workers, which take
  waiting jobs and run processors to an end.
- Nothing is assumed to make a caller act, a deadline pass, a fault or a timeout
  happen. Faults are finitely many (`MaxFaults`), as in any liveness claim about
  crashes.

## 4. What was found

The first is a run with a counterexample. The others are behaviours that the
models contain and that the passing properties are stated around; none of them
contradicts more than a reader's expectation.

1. **No quorum can pass** (`packages/domain/src/quorum.ts:68`). Each delivery is
   validated against the request its own Mech was paid for, and request ids are
   unique; the rule `request_match` wants all recommendations to name one request.
   `docs/EPIC_STATUS.md:28` says "Two independent, schema-pinned deliveries feed
   deterministic quorum". The run `decision` shows two that agree and are
   rejected; the theorem `NoDecisionPasses` says that it is so for any number of
   Mechs, whatever they deliver.
2. **Last owner** (`apps/api/src/auth.ts:574`). The check reads without locking:
   two owners demoting each other, or a promotion overtaking a demotion that had
   not counted, leave an organization nobody can administer.
   `LastOwnerLostOnlyInRace` shows that this takes an overlap.
3. **Unverified credentials** (`apps/api/src/integrations.ts:224`). Storing new
   credentials leaves the organization `READY` for the old ones, and the
   execution path loads whatever is stored. `UnverifiedOnlyIfReplaced` shows that
   there is no other way; a load that overlaps a replacement can also mix the
   status of one with the secret of the other.
4. **Stuck intents** (`apps/worker/src/coordinator.ts:244`). There is one
   reconciliation message per intent and version. When its row is dead or its
   job failed, none is made again. `OverdueGetsMessage` promises only the first.
5. **A second economic action** (`packages/database/src/repositories.ts:1015`).
   Reservations dedup by idempotency key, which covers the calldata; the index by
   purpose covers recorded successes. A plan made again at another price is
   another call, so a Mech can be asked and paid twice; the idempotency keys the
   adapter puts into its plans are read by nothing. `SpendWithinQuotes` bounds what
   that costs by the sum of the frozen quotes.
6. **A shared allowance** (`services/olas-adapter/src/synesis_olas/service.py:451`).
   The Mechs of an intent draw on one allowance, which every approval replaces,
   and an approval is given once. A Mech may be left without, for good;
   `StarvedOnlyByAnother` says that this takes another Mech's approval or request.
7. **Success without execution** (`packages/domain/src/state-machine.ts:47`).
   `UNCONFIRMED` is shared by procurement and execution, so the table leads from
   `PROCUREMENT_EXECUTING` to `SUCCEEDED`.
8. **Aave supplies never pass the gateway** (`apps/api/src/olas-gateway.ts:349`).
   `validateCalldata` is not given `expectedWallet`, without which
   `packages/olas-contracts/src/calldata.ts:321` refuses every supply; the
   gateway's own branch for supplies (line 375) is dead.
9. **One Mech can fail the whole directory**
   (`services/olas-adapter/src/synesis_olas/service.py:143`). A tool name or
   description that `ToolSnapshot` refuses raises an error that is no
   `AdapterError`, although `discover_directory` is to "fail closed per provider"
   (line 264).
10. **Proofs verify for some** (`packages/domain/src/hashing.ts:10`). Key order
    depends on the locale of the process that hashes. The theorem
    `CreatedVerifiesIfCollatedAlike` says for whom a bundle verifies.
11. **Links are not evidence** (`packages/domain/src/proofs.ts:106`). Labels, source
    links and times of a bundle are outside its root (`LinksAreUnbound`), while
    `docs/DEMO_SCRIPT.md:15` has one "independently verify the ordered proof root
    and every source link".
12. **Overlapping tabs** (`apps/api/src/auth.ts:440`). A reauthentication that
    overlaps another, or whose answer is lost, leaves the browser with a CSRF
    cookie that the session refuses, until the next sign-in
    (`CsrfRejectedOnlyIfCrossed`).

## 5. Proofs

The proofs hold for every value of the constants under the modules' assumptions
(sets of any size, natural-number bounds).

- **`IntentStoreProofs`**: type correctness, the four safety invariants and the
  refinement of `IntentLifecycle`. `AuditChain` is not inductive. `StoreInv` adds
  that what a caller holds is a legal transition, one version ahead of the
  version it read, and no older than the row if it still matches; that every
  version below that of the row has its audit event; and that every event follows
  the table. `NeverReentered` follows from a height of each state (`Rank`) that
  every edge climbs.
- **`OutboxProofs`**: type correctness, `PublishedIsQueued`,
  `DeadAfterMaxAttempts`, `SettledStays` and the refinement of `MessageDispatch`.
  `OutboxInv` adds that a publisher about to mark a row has its job in the queue,
  and that whatever a publisher holds has a row.
- **`GatewayProofs`**: type correctness, `NeverRebroadcast`, `SuccessHasLanded`,
  `RecordedTogether`, `AnsweredIsRecorded`, `SuccessStays`. `GatewayInv` adds that
  at most one request is between a call's reservation and its broadcast, that the
  call has not been broadcast while it is there, and that a request holding a
  verdict of success reconciled a call that has landed; the last needs
  `VerifiedNeedsReceipt`, which follows the order of the checks.
- **`MembershipProofs`**: type correctness, `AuditTellsRole`,
  `LastOwnerLostOnlyInRace`, `AuthorityFromCreator`. `MembershipInv` adds that
  nothing happens before the organization is created and that a demotion of an
  owner that is about to be committed has counted others. `AuthorityInv` says of
  every set closed under making owners that it holds the owners and the users of
  all accepted administrative requests, in flight or committed: without those in
  flight it is not inductive, as they commit after their users may have lost the
  role. The assumption that `Users` is finite is needed to count owners.
- **Sessions**, in `MembershipProofs`: type correctness, `SensitiveIsRecent`,
  `CsrfRejectedOnlyIfCrossed`, `LoginRejectedOnlyIfOverlapping` and
  `SignedOutStays`, for any people, exchanges, lifetimes, clocks and ID tokens.
  `SessionInv` has a part for each. `VouchedInv` says where the `authenticatedAt`
  of a row comes from: an ID token of the row's user, or, for a token that tells
  no time, the moment of the sign-in; it has to say the same of what a request
  read from the row and of the tokens on their way. `CookieInv` is about the CSRF
  cookie: as long as nothing crossed, at most one cookie change is pending, it is
  of the browser's session, and cookie and row agree except between the commit
  of a reauthentication and its answer. `LoginInv` says that a login which is
  alone has its cookies in the browser.
- **`IntegrationsProofs`**: type correctness, `ReadyIsWhole`,
  `UnverifiedOnlyIfReplaced`. `ReadyIsWhole` needs only that a request at work
  belongs to a run that has begun. `TrustInv` adds for the last that what a
  request verifies, or a load has read, is still stored or else has been put down
  as replaced, and that what is stored can be trusted while the organization is
  READY or a load has seen it so.
- **The directory**, in `IntegrationsProofs`: type correctness,
  `ServedTellsRecentPast` and `EligibleOutscoresRefused`, for any Mechs, facts,
  readers, lifetime and timeout. `DirectoryInv` dates everything a directory
  passes through: an inquiry tells of what the Mechs showed since it read its
  clock (`ReadsInv`), the first cache is less than one lifetime behind when it
  expires and the second less than two (`CachesInv`). That the ages add up needs
  that an inquiry a read waits for has read its clock after the read did.
  `EligibleOutscoresRefused` is about the four scores, case by case.
- **`SafeExecutionProofs`**: `BroadcastWasSimulated`, `ServedOnce`,
  `OneKeyOneEffect` and `PutOffIsHeeded`. `ExecutionInv` adds that `told` is at
  most `notBefore` and that what an invocation knew when it looked is at most the
  time it waits for; that an invocation that was served is done or about to read
  an answer that is no refusal; that evidence is of the payload of its call, and
  that whoever is about to broadcast holds an approval of it. `OneKeyOneEffect` needs that the key has every
  field of the body but the gas.
- **Procurement**, in `SafeExecutionProofs`: `SpendWithinQuotes` and
  `StarvedOnlyByAnother`, for any number of Mechs, any quotes, prices and stray
  calls. Sums over the Mechs are the size of a set of units (`Total`), so facts
  about finite sets take the place of induction. `GrantedInv` is the strengthening:
  what was paid and what is still allowed is within the quotes of the Mechs whose
  approval was *mined*. It rests on `AdmittedCall`, that the manifest and the
  frozen quote leave each Mech exactly one approval of the tracker, and on keys
  being executed once. `AloneInv` says that whoever alone drew on the allowance,
  with no request of its own, has all of it. `BaseManifestValid` shows
  that the pinned manifest is one `validateContent` accepts, and a change of its
  predecessor that `createManifestUpdate` accepts.
- **`CoordinatorProofs`**: type correctness, `VersionHasMessage`,
  `MessageTellsHistory`, `CompletedIsHandledOrStale`, `ReconcileOnlyOverdue` and the
  refinements of `IntentLifecycle` by the intents and of `MessageDispatch` by the
  messages, for any number of intents, workers and retries. `OutboxProofs` shows
  that the outbox implements `MessageDispatch` too: the coordinator relies on no more
  than the outbox promises.
  None of them is inductive alone. `HistoryInv` says that the row of an intent is the
  latest entry of its history and the only one of its version; `KeyInv` that the
  message of a transition is for the version in its key, so that the key of a new
  version is free and `EnqueueMessage` really stores the message; `ScanInv` that a
  listed candidate is overdue as long as its intent has not moved on; `JobInv` that a
  job that may run has attempts and stalls left, which bounds the start numbers. A
  completed job that was not handled found another state or version than its own;
  what it names is in the history, so the version is the one that differs. Callers
  and handlers move intents by the same `AdvanceIntent`, so one lemma (`Advanced`)
  carries both.
- **`DecisionProofs`**: what `RecommendationQuorum`, `Decision` and `ProofBundle` compute.
  `TwoRequestsRejected`, `PassedLaterPassesEarlier` and `OrderIsIrrelevant` are of
  the nine rules. `NoDecisionPasses` is an invariant of `Decision`: `DecisionInv`
  binds every validated delivery to the request of its Mech. `RedactionIsComplete`,
  `CreatedVerifiesIfCollatedAlike`, `RootFixesEvidence` and `LinksAreUnbound` are of
  proof bundles, for every collation.

Every invariant and every action property of the passing runs is a theorem.
Only model-checked is liveness (`EventuallySettled`, `OverdueGetsMessage`,
`EveryJobEnds`): it rests on `ENABLED`, which the prover does not reach. The one
violated property, `AgreementPasses`, is a run's counterexample, and the theorem
`NoDecisionPasses` is its general form.

Not modelled: migrations (one transaction each, one after the other under one
advisory lock); the delivery webhook (one insert that a unique key makes
idempotent); spending limits (a comparison of given totals, without caller);
freezing a selection (a pure copy); `events.ts`, `health.ts`, `aave-position.ts`
(they decode answers of the chain and keep nothing); encryption (taken to give
back what was stored); parsing, rendering, observability and deployment.

## 6. Plan

1. Lemmas on the definitions that are only used by the runs so far: which
   calls `Validate` admits under any manifest that passes `validateManifest`, and
   what `Classify` concludes for each kind of evidence.
2. When the code calls the quorum, stores proof bundles or makes jobs of
   deliveries: `Decision` composed with `Coordinator`, in place of the abstract
   handler.
3. The exact spending limits once something enforces them.
