# A TLA+ verification of the Solana Developer Platform's money paths

The Solana Developer Platform (SDP) is a multi-tenant API (`apps/sdp-api`, Node.js,
Postgres, Redis) with a dashboard and shared packages.  Tenants issue tokens, pay,
schedule recurring payments, automate their assets, put treasury funds into Earn vaults,
and have the platform pay their transaction fees.  The API runs as several replicas,
every one of which also runs the cron jobs, so all state changes race with their own
retries, with other replicas and with reconciliation, and any of them may stop between
two statements.

This project models the parts where such races cost money or destroy something: managed
sponsorship of fees, wallet operations held for approval and replayed, payment transfers
and batches, recurring payments, and the workflow engine with its signing keys.

## 1. Inventory

| Component | State | Operations | What is hard | What makes it correct | Module |
|---|---|---|---|---|---|
| Sponsorship reservations (`services/sponsorship-budget.service.ts`, `db/repositories/sponsorship-budget.repository.ts`) | one row per digest of tenant, actor and message: status, attempt, signature, signed transaction, miss count, `redis_settled_at` | admit, sign, send, prepare an owned submission, release, mark ambiguous | duplicates, lost replies, crashes between statements, two rows for one message | one owner per attempt; whatever is signed stays paid for | `SponsorshipReservations`, `SponsorshipLedger` |
| Budget counters (`runtime/sponsorship-budget-redis.ts`) | Redis hashes per hour and day, ownership markers, reservation and settlement keys | INITIALIZE, RESERVE, SETTLE (Lua) | seeding from a stale snapshot, Redis loss, adoption, resent scripts | no limit exceeded, no counter below what was let through, no negative counter | `SponsorshipBudget` |
| Policy and breaker (`setPolicyEnabled`, `resumeGlobalBreaker`, `scripts/sponsorship-budget.ts`) | policy row with version and provenance; Redis control field; failure count | kill, resume, set, trip, automatic resume, sync | late and reordered syncs, decisions taken on old reads | a kill stays until a human lifts it; no admission under a superseded version | `SponsorshipBreaker` |
| Sponsorship reconciliation (`services/jobs/reconcile-sponsorship-budgets.ts`, every minute) | candidates as they were listed | commit, count a miss, charge as unknown, settle Redis | works on stale rows beside slow owners, may overlap itself | every reservation is eventually resolved and settled, none under its owner's feet | the three above |
| Owned payment submission (`services/payments/signed-submission.ts`) | `submission_started_at`, signed transaction of a payment | persist, mark as started, broadcast with retries | deciding that nothing was broadcast | a refund, or a failed payment, only when nothing can land | `SponsorshipReservations`, `PaymentTransfers` |
| Policy enforcement and approvals (`packages/sdp-policy/src/enforce.ts`, `services/policy/approved-operation-replay.ts`, `db/repositories/policy.repository.postgres.ts`) | operations with leases, attempt ids and an effect fence; approval requests; transfers by idempotency key | enforce and compensate, approve, reject, cancel, claim, fence, submit, finish, recover | a lease that expires around the external effect, clocks that disagree, repeated keys | no effect without clearance, none twice | `ApprovedOperations`, `WalletOperationGate` |
| Payment transfers and batches (`routes/payments/handlers/transfers.ts`, `transfer-batches/`, `services/jobs/track-pending-transfers.ts`) | transfer, recipient and batch rows | create, sign, start, send, confirm, track, finalize, settle a chunk, recompute the batch | verdicts from stale listings, forks, expiry, a crash before the signature | a reported success is on chain, a reported failure moved nothing | `PaymentTransfers` |
| Recurring payments (`services/payments/recurring-payments/*`, `services/jobs/collect-recurring-payments.ts`) | schedule and subscription with due dates, collection attempts, lifecycle attempts | collect, recover, cancel, resume | one period collected twice, cancel against collect, lost signatures | at most one charge per period; the schedule moves only for a charge | `RecurringPayments` |
| Workflow rules and signing keys (`routes/issuance/handlers/workflows.ts`, `asset-workflow.repository.postgres.ts`, `retire-workflow-secrets.ts`) | the rule with the version of its key; the secret store; queue of versions to destroy | create, patch, delete, rotate, destroy, sweep | rotation against rotation, deletion and sweep; stops between store and row | a live key is readable, an orphaned one is queued | `AssetWorkflows` |
| Workflow executions (`services/jobs/run-workflow-executions.ts`, `workflow-execution.repository.postgres.ts`) | executions with claims, attempt counts and locks | enqueue, approve, retry, cancel, claim, guard, dispatch, complete, fail, reschedule, recover | overlapping ticks, a crash in a non-idempotent action, a rule withdrawn meanwhile | a destructive action starts once per decision; a withdrawn rule starts nothing | `AssetWorkflows` |
| Earn vault movements (`services/jobs/reconcile-earn-vault-movements.ts`) | movement rows, catalogue rows, an hourly slot | advance to finalized or failed; sync catalogue | confirmed is not settled | only legal transitions; the slot has one holder | – |
| Private channels (`services/jobs/track-pending-deposits.ts`, `-withdrawals.ts`) | deposits, withdrawals, settlement observations | poll, match, settle | attribution of a release by content, racing pollers | a release settles one withdrawal | – |
| Helius rings (`services/helius-rings/service.ts`) | operations with events and retry lineage | provision, prepare, execute, retry | compare-and-set transitions | bounded lineage, no double execution | – |
| Idempotency middleware, rate limits, ramp webhooks, custody, issuance, audit log | rows keyed by tenant and external reference | claim and replay, status mapping, adapters | duplicates and order of external events | replays return the first answer | – |
| Web console, docs site, Helius gateway | none that matters here | – | – | – | – |

How they interact.  A request for a sponsored transaction reads the reservation row,
resolves the policies from Postgres, inserts or reopens the row, loads a snapshot of the
windows and runs INITIALIZE, the control syncs and RESERVE in Redis; then it calls the
provider and writes the outcome.  Every accounting fault trips the global policy, which
stops all admissions of the network.  Wallet operations (transfers, ramp quotes) pass
policy enforcement first; what needs approval is replayed later, by the approve handler
or a cron job, through the very same HTTP handler.  That handler writes the transfer row
under the client's idempotency key, signs, marks the submission as started and sends; the
tracking job settles whatever the handler left behind.  A collection of a recurring
payment is a transfer too, so that the tracking job settles it under the collector's
feet.  Workflow ticks dispatch actions that may go through approvals of their own.

`PROJECT.json` lists all components with their status, and the hazards with the
properties that watch them.

## 2. Plan

Done:

1. `SponsorshipReservations` with its abstract specification `SponsorshipLedger`,
   `SponsorshipBudget`, `SponsorshipBreaker`; proved.
2. `ApprovedOperations`, shown to implement `WalletOperationGate`; proved.
3. `PaymentTransfers`: single transfers, batches and the tracking job; proved.
4. `RecurringPayments`: collections, recovery, cancel and resume; proved.
5. `AssetWorkflows`: keys of a rule and executions of its action; proved.

Next, in this order:

6. `PrivateChannels` (the settlement observation as a claim) and `EarnMovements`
   (movement states against the chain).
7. The idempotency middleware and ramp webhooks: claim, replay, reordered events.
8. Compositions: breaker and reservations, so that "every policy enabled" is the
   breaker's own state; reservations and `PaymentTransfers` in place of the
   nondeterministic answers of `OwnedStart` and `Broadcast`.

## 3. Modules and the code

In all modules a statement or transaction of Postgres, a Lua script, and a call of an
external service is one step; its reply may be lost after it took effect where the code
distinguishes that; and a request or pass may stop between any two steps.  Timestamps
become one bit per threshold the code compares them with.  History variables record what
the code cannot know; no guard reads them, but for bounds.

Operators named `Something_How` with a comment "Slip" are deliberately wrong variants of
the definition below them.  Nothing uses them: they are what the properties must be able
to tell from the code, and under each of them TLC finds its property violated.

**`SponsorshipReservations`** (rows, requests, reconciliation, chain).

* `row` is a row of `sponsorship_budget_reservations` with what the code tells apart;
  the id is a digest, so `MessageOf` may give two ids the same message, and a message
  stands for its fee-payer signature.  `key` is the reservation key ("held"), the
  settlement key ("settled") or neither of an attempt.  `enabled` says that every
  policy of the scope is enabled.  `exposed`, `leaked`, `landed` and `expired` describe
  the world: messages whose signed transaction has left the service, has left it in a try
  of `signAndSend` whose retry was rejected, is on chain, or can no longer get there.
* The `Can...` operators are the WHERE clauses of the repository's statements, and
  `Signed`, `Submitted`, `WithStatus`, `Reserved` the rows they leave.  `Commit(i, r,
  reply, lost)` writes and then either answers or loses the answer.
* The `pc` of a request is the next statement, script or provider call of
  `admitAgainstCurrentPolicy`, `signAsFeePayer`, `signAndSend`,
  `prepareOwnedSubmission`, `releaseDurable`, `releaseDeterministic` and
  `markAmbiguous`.  `Abort` is a failure without effect, or the death of the process,
  between any two of them.
* A pass of the job keeps the candidate as it was listed (`JobTarget`).  The listing's
  age limit is not a guard: a request may be slower than any limit, so a live row may
  be listed at any time.
* Abstracted: amounts and limits (the gate answers anything `SponsorshipBudget`
  allows), reasons, timestamps, fingerprints (a changed provider configuration is
  `JobAbort`), logging.  Kora and custody are external answers, but the retries of the Kora adapter are
  modelled: `ProviderSend` is all tries of one `signAndSend`, of which only the last error
  is classified.

**`SponsorshipLedger`** is the promise: reservations are held, charged or given back; a
transaction may be exposed only when a reservation pays for its message, and giving
back must leave every exposed transaction paid for.

**`SponsorshipBudget`** (counters).  A window hash has the initialized fields, the
counters, the per-field markers (`own`) and the bare markers of the previous format
(`bare`).  `InitializedWindow`, `ReservedWindow` and `SettledWindow` are the three
scripts on one hash, and the scripts apply them to the hour and the day at once.  A row
is "reserved" until its transaction is signed or sent and "sent" from then on, since the
scripts and the snapshot do not tell more apart; contention for a row is left to
`SponsorshipReservations`.  `Snapshot` is read in one step (REPEATABLE READ) and used in
a later one: the sums of the windows (`usage`), and the attempt and hour of every
reservation that was live then (`live`).  `Lossy` lets Redis lose windows and keys, `Resends` lets the client repeat
a RESERVE whose answer was lost, `Excess` lets transactions cost more than reserved.

**`SponsorshipBreaker`** (policy).  Provenance is the pair `updated_by`,
`update_reason`.  A write commits and leaves its `syncPolicy` in `syncs`, from where it
is delivered at any time, in any order, or dropped.  A tick is
`reconcileSponsorshipBudgets` up to its loop.  `standing` and `told` are history: a kill
or integrity trip that no operator has undone, and the newest version Redis was told.

**`ApprovedOperations`**.  `status`, `attempt`, `lease` and `effect` are columns of
`wallet_operations`, `request` the status of the approval request, `enf` the progress of
`enforceWalletOperationPolicy`, whose three writes are separate statements with a
compensation when one fails.  An execution is an attempt of `executeApprovedOperation`
(claim, replay authentication, handler, fence, completion) or a request that policy
allowed directly.  `transfer` is the row under an idempotency key; `NoKey` is a route
that writes no such row before its effect (ramp quotes).  Leases are compared with the
replica's own clock: unless `clocksAgree`, the comparison may go either way.
`FailInterruptedEffect` is the job that closes fenced operations whose lease ran out.
**`WalletOperationGate`** is the promise: an operation is cleared or refused once, acts
only after it was cleared, and acts once per operation and key.

**`PaymentTransfers`**.  A transfer has at most one signed transaction and stands for its
signature.  `status`, `signed`, `started` and `aged` are the row; `rec` and `batch` the
recipients and the batch; `req` the request's progress through `PersistSigned`,
`MarkStarted`, `SendTransaction` and `ConfirmTransaction`; `job` what a pass listed and
learned.  `UpdateTerminalTransfer` is `updateTransfer` with `expectedStatus` and, for a
chunk, `settleTransferBatch`, which locks the transfer, the recipients and the batch.
It settles a chunk only when the row is processing and has recipients linked
(`Settleable`), and rolls back otherwise.  The transaction that creates a chunk and links
its recipients may commit and lose its reply; the request then takes the chunk for
rejected, and `FailUnlinkedRecipients` fails and unlinks recipients by the request's own
memory, without a condition on the row, which leaves an `Orphan`.  `ChunkThrows` is any
other error after the link, which leaves the row to the job.
The chain deepens a transaction from processed to finalized, or drops a processed one
with its fork.  `overtaken` records the two cases the code has no answer to: the request
signed or started a row after a pass listed it for failure, and an error seen on a fork
that is gone.

**`RecurringPayments`**.  One active schedule.  A collection attempt stands for its
transfer and its signature.  `work` is what a request (cron or manual; collect, recover,
cancel or resume) has read and where it stands.  `FinalizeCollection` is the transaction
that confirms transfer and attempt and moves both due dates by compare-and-set;
`MarkFailedAtomically` the one that fails an attempt unless its transfer was confirmed
meanwhile.  `TrackTransfer` is the tracking job in one step.  `confirmTransaction` reports
a success from commitment confirmed on and an error from any: a success is final, an error
may vanish with its fork (`ForkDropped`) and the transaction land on another.  `forked`
records the attempts this happened to and `loose` the lifecycle operations it may still
happen to (`LandsElsewhere`); `orphaned` records that a resume is on chain that its row does
not know of, because its signature was never written or only its error was seen.

**`AssetWorkflows`**.  One rule.  `req` is a request on it: create, patch or delete, with
the new version it stored, the version it read (`prev`) and the one it is destroying
(`victim`).  `queue` is `workflow_action_secret_retirements`, `sweep` the version
`retireOrphanedActionSecrets` is destroying.  `lost` records versions whose provisional
retirement was never written, `taken` those given to destruction while a commit installs
them.  An execution has its row (`status`, `count`, `stale` for `locked_at`), and each
tick its place in the run (`run`), the attempt it claimed and what it remembers of the
rule (`cache`: the guard reads the rule once per tick).  Recovery is two steps, as its SQL
is an UPDATE of what a subquery selected, without a lock and without a second look:
`SelectStaleProcessing` fills `selected`, `RecoverStaleProcessing` overwrites those rows,
whatever they are by then.  A lock may grow stale under a live run at any time.  The writes
of `processDueExecution` are in its try or in its catch (`InTry`, `InCatch`): one that
throws in the try, having taken effect or not, is followed by the one in the catch
(`WriteThrows`); a claim or a catch that throws ends the worker (`RunStops`).  All of them
are conditional on `processing` (`Writes`), not on the claim: `crossed` records that a run
rescheduled a row whose count another claim had changed.  `unspent` counts decisions to run
a gated action less the times it was started.

## 4. What is checked

| Run | Bounds | Shows |
|---|---|---|
| `reservations` | two ids with one message, one signs and one sends, two requests, one pass, one attempt | `SoleOwner`, `OwnerIsCurrent`, `SettledAfterTerminal`, `ExposedIsCharged`; the rows implement the ledger (`ImplementsLedger`) |
| `reservations_live` | one owned id, one request, one pass, two attempts, with fairness | `EventuallyResolved`, `EventuallySettled` |
| `budget_loss` | two organizations, two hours of one day, limits that admit one of the two, Redis loss and resends, overspend by one | `WithinBudget`, `NoUndercount`, `SettlementNeverRefused`, no negative counter (`TypeOK`) |
| `budget_refund` | two reservations, one hour, no loss, no resend | the divergence of section 6 |
| `breaker` | one request, one tick, one operator, one fault, threshold 2, versions up to 4, with fairness | `StandingDisableHolds`, `ControlIsFaithful`, `AdmissionSeesNewest`, `ConfigTripRecovers` |
| `approved_fence` | one operation without a key, three executions, two crashes or lost leases, with fairness | `OneSubmissionPerOperation`, `SubmittedWasCleared`, `ClosedStaysClosed`, `ExecutingEnds` |
| `approved_key` | two operations with the same key, two executions | `CompletedWasSubmitted`; the rows implement the gate (`ImplementsGate`) |
| `transfers_single` | one transfer, two overlapping passes, with fairness | `ConfirmedIsOnChain`, `FailedDidNotMove`, `SettledStays`, `OutcomeIsRecorded` |
| `transfers_batch` | a batch of two chunks, one pass | `RecipientsFollowChunk`, `BatchIsDerived` |
| `recurring` | two requests, one period; two attempts, or a request that stands still, or cancel and resume around a collection; on forks, two requests with one attempt, one request with two, or cancel and resume without a collection | `OneChargePerPeriod`, `AdvancedWasCharged`, `ConfirmedAttemptLanded`, `CanceledIsOnChain`, `CollectionsOnlyAdvance`, types |
| `recurring_live` | one request, one attempt, forks, with fairness | `ChargedAdvances` |
| `workflows` | two requests and two key versions; or one request, two ticks and one execution, gated or not, that may be slow or throw anywhere | `LiveKeyIsReadable`, `OrphanIsQueued`, `GatedRunsOncePerDecision`, `WithdrawnNeverRuns`, `PendingCanRun`, `FinalStays` |

Why the bounds are enough.  Rows, leases and claims are contended by pairs, and a third
request meets what the second does.  Two ids of a reservation share a signature.  For the
counters, one
reservation seeds while the other is reserved, settled or released; two hours make the
hour and the day disagree; the limits are such that one admission too many breaks them.
For the breaker two failures reach the threshold and four versions fit a kill, a trip, a
resume and a sync that is late by two.  For approvals three executions fit one that
stalls, one that takes its lease over and one that comes after both.  For transfers two
passes and the request are three writers of one row.  For recurring payments, a period is
charged twice by two attempts; the due date after it is period 2.  A rotation meets
another rotation, a delete and the sweep with two requests and two versions; two ticks
overlap, the second recovering what the first claimed, and two attempts reach the limit.

What the bounds leave to the theorems.  `reservations` has one attempt, so that a late
refund or a stale candidate that meets a reopened attempt is shown only by
`OwnerNotOvertaken` and `SettlementFollows` (`reservations_live` has two attempts, for the
liveness properties).  `breaker` has one tick: overlapping ticks are only in
`KillNeedsHuman`.  `recurring` has one period: that no due date goes back over several is
only in `OnlyAdvance`; and two collectors that retry on forks are only in `ChargesOnce`.
`approved_fence` has no key: for operations with one, `SubmittedOnce` and
`SubmittedOncePerKey`.

`Scenarios`, in `RecurringPayments` and `AssetWorkflows`, is a constant set of which a
behaviour picks one for good: it says which operations happen together, so that one run
covers several questions without their product.  It restricts what is asked, not what an
action does, and the proofs hold for any set of scenarios, the unrestricted one included.
`MaxAttempt`, `MaxVersion`, `MaxFailures`, `MaxFaults`, `Excess`, `Periods`, `MaxRows`
and `MaxDecisions` are the other bounds; the proofs use none of their values.

Fairness.

* Reservations: the job is started every minute on every replica
  (`cron/pending-transfers.ts`), so a pass keeps being started and a candidate that
  remains one is eventually listed and worked on (strong fairness, since other passes
  and requests interrupt).  RPC, Postgres and Redis answer eventually and blockhashes
  run out.  Requests have no fairness at all.
* Breaker: provider configuration that is unreadable for ever is excluded, as the
  property is about coming back.
* Approvals: the recovery job keeps claiming and closing what it may, leases run out,
  and a handler goes on or its process stops.  `ExecutingEnds` is claimed where clocks
  agree: otherwise one replica may take another's lease for ever.
* Transfers: time passes, blocks are built, and the job's calls succeed again and again
  (strong fairness); the request has none.
* Recurring payments: a request goes on or stops, and cron's listing and calls succeed
  again and again.
* Workflows: only safety is checked.

Deadlock is not checked where the bounds let a behaviour end (every request finished and
nothing due); the liveness properties say what must not be left over.

## 5. What is proved

All theorems are for any number of rows, requests, passes, ticks, versions and operators.
Types are proved for every detailed module, and every invariant and action property of
the passing runs is stated by one of them.

*Breaker* (`SponsorshipBreakerProofs`): `BreakerTyped`, `KillNeedsHuman`,
`ControlFollowsPolicy`, `NoStaleAdmission`.  `StandingDisableHolds` is not inductive: the
automatic resume compares provenance, so the invariant adds that a standing disable has
a provenance other than the recoverable one.  `ControlIsFaithful` needs that every
snapshot of the row, in a sync in flight or in a request, is not ahead of the row and
agrees with it at equal versions; a write makes them all strictly older.
`AdmissionSeesNewest` follows from `told = control.version`.

*Reservations* (`SponsorshipReservationsSteps`, `SponsorshipReservationsProofs`): `Types`,
`OneOwner`, `OwnerNotOvertaken`, `SettlementFollows`, `EverythingSentIsCharged`, and
`Refinement` (every step is a step of `SponsorshipLedger` or stutters in it).  The proof
has two layers.

`SponsorshipReservationsSteps` shows, one lemma per action, that each of the twenty-five
steps of a request has the form `StepOf`: it *keeps* its row (perhaps advancing it or
recording its signature), *takes* the next attempt of a row nobody is charged for, *gives
back* the attempt it owns, or *yields* to another row with the same signature; it hands
out its transaction only for one of three stated reasons (`Justified`), and settles Redis
only for what it has released.

`SponsorshipReservationsProofs` derives the inductive invariant `IInv` from that form.
`SoleOwner` and `OwnerIsCurrent` are inductive only together: an attempt is opened where
nobody is charged, hence (currency) nobody owns, and given back by its owner, hence
(sole owner) by nobody else's leave.  `ExposedIsCharged` is far from inductive: the
paying row might be given back by its owner in the next step.  `Covered` therefore asks
for a row that is charged and whose owner, if it still has one, is past the point where
it could release it (`Safe`).  The one escape is an owner of a `send` that finds its
signature taken by another id and releases its own row: `Recorded`, `Signatures` and
`Duplicates` say that the other row has the same message, is charged and has no owner
left, so it pays for the message for good.  This is where `OwnedMessagesAreApart` is
needed: an owned submission records its signature *before* it starts and may still
release it, so a message shared between an owned submission and a plain send would break
the argument.  What `signAndSend` leaks in its own retries (`leaked`) is outside the claim:
its owner goes on to release the attempt, and the ledger's `exposed` does not have it.  `RefundsAreClosed` and `JobsAreClosed` carry `SettledAfterTerminal`
through stale candidates: a closed attempt stays closed.

*Approved operations* (`ApprovedOperationsProofs`): `Typed`, `SubmittedOnce`,
`SubmittedOncePerKey`, `SubmittedCleared`, `CompletedSubmitted`, `ClosedForGood` and
`Refinement`.  That no operation submits twice rests on the fence: an execution that is
past it (`FenceHolds`) has set `effect` while the row named it and was executing, and no
claim, by whatever clock, touches a row with `effect` set, so the row names that
execution for good (`Alone` is the same for requests that policy allowed directly, which
run once).  That the submission was cleared is a statement about enforcement:
`Evaluated`, `Decided` and `Enforced` say which writes of the flow are still to come for
which outcome, so that a late compensation cannot revoke what has been acted upon.  For
keys, `KeyHolds` and `RowsHaveCreators` tie a submission to the one execution that
inserted the row of its key, and `ConfirmedRows`, `SubmittedIsMarked` and `Answered`
carry `CompletedWasSubmitted` from there to the operations that were answered with it.

*Transfers* (`PaymentTransfersProofs`): `Typed`, `ReportedSuccess`, `ReportedFailure`,
`RecipientsAgree`, `BatchAgrees` and `SettledForGood`.  A verdict is taken in one step
and written in a later one, so the invariant is about what is *about to be* written:
`Successes` and `Failures` say that a success in hand is confirmed on chain without an
error, and a failure in hand is final unless the row has been signed or started since
(`Holding`, `Fresh`).  `Marks` orders the markers (nothing is sent before it is started,
or started before it is signed), and `FailedUnsent` is `FailedDidNotMove` with the
request's part added: once failed, the request will not send.  `BatchInv` adds what the
batch request has still to do for chunks it takes for rejected; such a chunk stays rejected
and unsigned, with or without a row (`RejectedStays`), which is what makes an `Orphan`
harmless.

*Workflows* (`AssetWorkflowsProofs`): `Typed`, `LiveKeyReadable`, `OrphanQueued`,
`Withdrawn`, `NotStranded`, `OncePerDecision`, `FinalForGood`.  Requests and executions
share only the rule, so there are two invariants.

`KeyInv`: requests are first reduced to nine abstract actions on the rule and its keys
(`HandlesKeys`).  `LiveKeyIsReadable` becomes inductive as `LiveKey` (a live key that was
not taken is also not queued, not in the sweep and nobody's victim) with `OnItsWay` (a
version that is being installed is known to its request only, or recorded for the sweep,
which marks it taken if it lists it in that window) and `References` (a version that was
never written is nowhere referred to).  `OrphanIsQueued` rests on `OnItsWay` too: when a
request lets go of its version, that version is queued, lost or destroyed.

`RunInv`: `Seen` says that a tick knows the rule as enabled only if it was so since the
tick began.  `Counted`: a count that no other run's reschedule has crossed is at most the
limit, and below it when the row is pending; and a run that is going to reschedule claimed
an attempt below the limit.  No claim of exclusive possession is made, as a slow run and
its successor may hold an execution together.  `Gated`: the number of runs that are going
to start the action, and one more if the execution is due, is at most the number of
decisions left; each step moves one of the three.

*Recurring payments* (`RecurringPaymentsProofs`): `Typed`, `AdvancesCharged`,
`ConfirmedLanded`, `OnlyAdvance`, `ChargesOnce`, `CanceledOnChain`.  There are three layers,
each an invariant that uses the one before.

`CollectionInv` holds whoever stalls.  `RowInv` says what the rows mean: nothing is sent
before it is started (`Marks`), a period has one attempt that is not failed (`OneActive`),
schedule and subscription go together (`Together`).  `InHand` says what a request knows of
the attempt it works on, above all that a request about to finalize has seen its
transaction succeed.  `AdvancesCharged`, `ConfirmedLanded` and `OnlyAdvance` follow.

`ChargeInv` is for behaviours in which no live request stands still.  Each step of a
request is *discreet* (`Discreet`): it starts, sends and fails only the attempt in its
hand, and becomes collector only of an attempt it creates.  Hence there is one collector
per attempt, an attempt that has grown old has none (`Abandoned`), and whoever is about to
fail an attempt knows that its transaction failed or will never be sent (`Dead`); both are
stable, because nobody takes an attempt up again, unless a fork that had the error is
dropped, which `forked` records.  Two charges of one period would need two attempts, one of
them failed, hence dead or forked.

`LifeInv` (again without stalls) is about cancel and resume: one request has the claim
(`OneClaim`), the row and the chain have what it has seen (`ClaimOf`), and a payment that
is canceled, or resuming with no successful resume recorded or in hand, is canceled on
chain or has been resumed behind its row's back (`Undone`, `Reached`).

*Budget counters* (`SponsorshipBudgetProofs`): `Typed`, `StaysWithinBudget`,
`NeverUndercounts`, `NeverRefusesSettlement`.  All three properties are about sums over
reservations.  What a sum of the library's fold does when one term changes, or when every
term is bounded by another's, is proved first, with no induction principle: a set for
which it failed would have a smallest subset for which it failed, strict inclusion of
finite sets being well founded.  Hence the assumption that reservation ids are finitely
many.

`NoUndercount` is not inductive: a counter may be right by accident, because another
attempt's share makes up for a missing one.  `Counters` bounds each counter by its `Load`:
per reservation, the reserved amount for *every* marked attempt, and what it was let
through for when its current attempt is not marked.  RESERVE adds a mark and its amount,
SETTLE takes a mark and puts the actual cost in its place, and rows move in between
without asking for more (`Calm`, `Eases`).  What a settlement says must be what the row
ended with, for however long it has been in flight: `Final`, kept by `Steady`, carries that
from the row to requests (`CallOf`), passes (`JobOf`) and settlement keys (`KeyOf`).
`MarkersOf` makes the bare markers of the previous format harmless, as they never stand
alone.  That no counter becomes negative is part of the types and needs all of this.

Seeding is the hard case, as the snapshot is older than the hash.  `GoodSnapshot` says
that, for every counter that is still cold, the snapshot's sum covers the reserved amount
of each reservation it has seen and what each other one is allowed now (`Need`).  It stays
good because nobody is let through on a cold counter.  INITIALIZE corrects the sum for
reservations whose settlement key exists and marks the others, and the resulting term of
each reservation is at most its need plus its correction.  `WithinBudget` then follows
where a reservation is admitted: what was let through is at most the load, hence at most
the counter, which RESERVE has compared with the limit.

Only model-checked: liveness (`EventuallyResolved`, `EventuallySettled`,
`ConfigTripRecovers`, `ExecutingEnds`, `OutcomeIsRecorded`, `ChargedAdvances`), which is out
of the prover's reach.

## 6. Findings

The first has a run of its own.  The others are places where the code does less than a
comment, a decision record or a test says; the models contain the behaviour, and the
property concerned excepts it by a history variable or by name (section 7).

**A refused reservation is marked as settled without telling Redis.**
`releaseDurable` (`sponsorship-budget.service.ts:735`) releases a refused reservation
and sets `redis_settled_at` without running SETTLE.  It may do so because RESERVE did
not count the request; but between its insert and its refusal another request may have
loaded a snapshot with the new row in it and seeded cold counters from it, marker
included, and a resent RESERVE may have counted it itself.  The row is then reopenable
and looks settled while Redis still counts it, and a second attempt is counted on top.
`sponsorship-budget.repository.test.ts:364` says that a row "reopens a released
reservation exactly once and only after Redis settlement".  Run `budget_refund` shows
the case with neither loss nor resend.  The budget errs on the safe side: tenants are
denied early until the window ends, and `WithinBudget` and `NoUndercount` hold.

**A rejected retry releases a transaction an earlier try may have broadcast.**
`kora.adapter.ts:426` says that "Retrying is idempotent even when the first attempt may have
reached Kora".  For the cluster it is; for the accounting it is not.  `signAndSend`
(`:172-209`) throws the last error only, `sponsorship-budget.service.ts:361` and `:929-936`
take a deterministic rejection for proof that nothing left, and the reservation is released
and refunded.  Model: third disjunct of `ProviderSend`, history variable `leaked`.

**Recipients of a committed chunk are failed and unlinked.**
`transfer-batches/create.ts:218` says that the "cleanup only touches recipients still
unlinked" and that unlinking others "would orphan that transfer as permanently processing";
`execute.ts:100` that "a processing chunk transfer always has linked recipients".  The
cleanup goes by the request's memory: when the COMMIT of the linking transaction
(`execute.ts:135-187`) takes effect and its reply is lost, the memory says unlinked, the
UPDATE (`payment-transfer-batches.repository.postgres.ts:638-648`) has no condition on link
or status, and the chunk is left processing with no recipients, which `settleTransferBatch`
refuses for ever (`:787`).  Nothing was or will be paid for it (`RecipientsFollowChunk`).

**An error on a fork that is dropped is taken as final.**
`confirmTransaction` (`packages/sdp-rpc/src/solana.ts:343-355`) returns a success from the
commitment asked for, and an error from any.  A collection that failed at processed is
failed (`collection.ts:953-965`, `:1407-1411`) and collected anew, and both may land; a resume
that failed at processed puts its payment back to canceled (`lifecycle.ts:506-555`) and may
land later.  Model: `ForkDropped`, `LandsElsewhere`, with `forked` and `orphaned`.

**Stale recovery overwrites an outcome that was just written.**
`workflow-execution.repository.postgres.ts:191` says that terminal writes are guarded
because without it a verdict would be written "over a row another tick had already
re-claimed — the second run's result silently lost".  `recoverStaleProcessing` (`:121-154`)
has no such guard: its UPDATE takes the ids its subquery selected, and a run that succeeds
between the two is put back to pending, to run again, or parked as failed.  Model:
`selected`, the exception of `FinalStays`.

**An outcome does not know its claim.**
The same guard compares the status and not the claim, so it does not keep a slow run from
writing over a re-claimed row either.  No slowness is needed: in
`run-workflow-executions.ts:229-262` a reschedule that commits and loses its reply is
followed by a second one in the catch, and when another tick has claimed the row in between
with its last attempt, the row is pending at the cap and is never listed again.  Model:
`WriteThrows`, history variable `crossed`.

**A rotation that commits and loses its reply destroys the live key.**
`docs/decisions/0002-workflow-builder-architecture.md:250` says that a rule write is one
statement, "so a rejection genuinely means nothing committed", and the test "never destroys
the version a committed rotation installed" (`issuance-workflow-secret.test.ts:442`) guards
against the contrary.  The reply of that statement, or of its COMMIT, may be lost like any
other; `updateWorkflow` then destroys the version the rule now points at
(`routes/issuance/handlers/workflows.ts:392-395`).  Model: `UpdateWorkflow`, history
variable `taken`.

**A compensation that comes after an approval.**
`packages/sdp-policy/src/enforce.ts:27` says that already-written rows "are compensated to
`failed`".  An approval between the request's row and the failing write leaves the request
approved, which the compensation does not touch, and the operation neither failed nor
executable.  Nothing is sent without clearance (`SubmittedWasCleared`).

## 7. Assumptions, exceptions and what is left out

Assumptions:

* `OwnedMessagesAreApart`: no message is both an owned submission and a message to sign
  or send.  The callers guarantee it (payments own their submissions; pay links and Earn
  sign; recurring payments, issuance and the custody check send, with transactions of
  their own), the service does not: `markReleased` keeps the signature and the unique
  index covers released rows, so that without the assumption `ExposedIsCharged` fails.
* Redis does not lose a window while some request is between its snapshot and
  INITIALIZE (`LoseRedis`): the code has no defence there.
* The proofs about the counters take the set of reservation ids to be finite
  (`BudgetAssumption`); it may be of any size.

Exceptions, written into the properties because the code has them:

* `FailedDidNotMove` excepts `overtaken`: a request that signs or starts between a
  pass's listing and its write, and an error seen on a fork that is dropped later.
* `ExposedIsCharged` and `ImplementsLedger` except `leaked`: what `signAndSend` sent in a
  try whose retry was rejected.
* `RecipientsFollowChunk` excepts an `Orphan`: a committed chunk the request took for
  rejected, of which it says that nothing was or will be signed.
* `OneChargePerPeriod` is claimed where no live request stands still past the staleness
  threshold (`stalls`), as recovery fails an attempt whose collector is merely slow; and it
  excepts `forked`, a charge whose error was seen on a fork that is gone.  `ChargedAdvances`
  excepts `forked` too.
* `PendingCanRun` excepts `crossed`: a row that a run rescheduled after another had claimed
  it.  `FinalStays` excepts the step of a stale recovery on a row it had selected before.
* `WithdrawnNeverRuns` is about ticks that begin after the withdrawal: within a tick the
  guard runs on the rule it read first.
* `CanceledIsOnChain` excepts `orphaned` (a resume is on chain whose signature was never
  journaled, or of which only the error of a dropped fork was seen) and is
  claimed where no live request stands still.  Otherwise a resume that stalls before its
  send may send after another request reset its claim and put the payment back to
  canceled: neither the send nor `finalizeRecurringPaymentLifecycle` asks whose claim it is.
* `LiveKeyIsReadable` excepts `taken` and `OrphanIsQueued` excepts `lost`: a provisional
  retirement is due at once, so the sweep may list a version whose commit then installs
  it; a commit whose reply is lost is treated as rejected; and the provisional record is
  best effort.
* The recipients of chunks that never got a row stay pending when the batch request dies
  before it fails them; no job looks at them.

Left out:

* `CANCEL_LUA`, because nothing calls `cancel`.  Policies of organizations and projects
  have no breaker and are part of `enabled`.
* The batch limits of the jobs; the fairness assumptions say that no candidate fails for
  ever and blocks the others.
* The idempotent replay of a batch request (`transfer-batches/create.ts:39-74`); that of
  single transfers is in `ApprovedOperations`.
* Activation and update of recurring payments; transfer rows written before the signed
  outbox existed; policy evaluation itself (a nondeterministic decision); what a workflow
  action does beyond its outcome.
* The provider's and the chain's insides, HTTP, authentication, user interface and the
  components marked `not_modelled` in `PROJECT.json`.
