# A verification project for the Citadel ledger runtime

The repository governs what software agents do: an agent submits an action to
`Kernel.handle`, which records it, checks it against kill switches, capability
tokens, policy, budget and approvals, runs the governed function if everything
agrees, and leaves one decision and a chain of audit events in PostgreSQL. This
directory holds TLA+ models of that core, their model-checking configurations,
and machine-checked proofs about them. Paths below are relative to the
repository; `RT` stands for `src/apps/runtime/citadel`.

## 1. Inventory

| Component | State it keeps | Operations | What is hard | What makes it correct |
|---|---|---|---|---|
| Governance kernel (`RT/execution/kernel.py`, `executor.py`) | locals of each `handle` call | `handle`, `_terminal_decision`, `_check_spend_budget` | an `await` between any two statements, in several API processes at once; crashes and refused INSERTs between them; duplicates that race | at most one execution per idempotency key; no stage bypassed; answers and audit rows are backed by tables; every call returns |
| Precedence (`RT/utils/precedence.py`) | none (reads tables) | `evaluate`, `_check_kill_switch`, `_check_capability` | eight kill-switch SELECTs while rows change; capability read, then consumed | a standing switch stops the call; uses never exceed `max_uses` |
| Repository (`RT/core/repository.py`) | `actions`, `decisions`, `approvals`, `capabilities`, `policies`, `policy_snapshots`, `kill_switches`, `audit_events`, `execution_results` | one SQL statement or stored procedure per method | which constraint refuses what, and who catches it | atomic per statement; unique keys decide races |
| Schema (`src/db/schema.sql`, `src/db/migrations`) | the tables, enums, CHECKs, triggers, row-level security | `consume_capability`, `save_audit_event_atomic`, `verify_audit_chain` | enum and foreign-key refusals; the chain trigger under row-level security | counters exact, chain linear |
| Policy resolver, evaluator, controls (`RT/services/policy_*.py`) | `policies`; snapshot of a call | `resolve`, `evaluate`, `apply_approval_threshold` | a new version activated mid-call; two activations at once | one call, one snapshot; the policy in force never falls back to an older version or to none |
| Approvals (`RT/services/approval_service.py`, `RT/api/routers/approvals.py`) | `approvals` | `check_required`, `create_pending`, `resolve_approval`, `process_expirations`, `resolve_approval_to_decision` | a review racing the call that asked for it; expiry without a caller | a pending or refused action never runs; the decision follows the review |
| Audit service (`RT/services/audit_service.py`) | `audit_events` | one writer per event type | an event type the schema refuses | no event before what it reports |
| Governance audit trail (`RT/tokens/audit_trail.py`, migration 004) | `governance_audit_log` | `record`, `verify_chain` | appends of several tenants; gaps of rolled-back inserts; visibility in the trigger | linked rows, no false alarm, tampering found |
| Cost controls (`RT/commercial/cost_controls.py`) | `cost_budgets`, spend events, top-ups | `create_budget`, `check_budget`, `record_spend`, `top_up_tenant_budget`, `evaluate_budget_set` | check and record are separate calls | spend within a blocking budget, up to a bounded overrun; no top-up lost |
| Governance tokens (`RT/tokens/token_vault.py`, `token_verifier.py`, `decision_engine.py`) | `governance_decisions`, `governance_tokens` | `store_decision`, `revoke_decision`, `revoke_token`, `check_ancestry`, `verify_token`, `verify_decision` | cascades of bounded depth; reads in separate statements | nothing under a revoked decision verifies |
| Orchestration (`RT/execution/orchestration.py`) | the decision tree | `delegate`, `handoff`, `gather`, `introspect`, `_is_narrower_scope` | stale copies written back; partial gathers | children never wider than parents; handed-off authority ends |
| Governor (`RT/core/governor.py`) | none (reads the kernel's tables) | `get`, `list_by_state`, `list_failed`, `list_pending` | rows of one action appear one after the other, and some never | what is shown happened; lists and states agree |
| Rate limiter (`RT/middleware/rate_limit.py`) | buckets in memory | `consume`, `dispatch` | lazy refill, rounding of Retry-After | the promised rate and burst; a client that obeys is admitted |
| Python SDK (`src/packages/sdk-python/citadel_governance`) | one call's attempts | `_request`, `execute`, `guard` | answers lost after the action ran; retries overtaking late requests | a keyed call is told the truth; `guard` runs on a recorded execution; every call ends |
| Routers, identity, billing, authentication, web apps, archive | - | - | - | listed in PROJECT.json with the reason they are left out or how far they are covered |

How they interact: a router builds an `Action` and calls `handle` on a kernel
made for the request; `handle` calls its services one `await` at a time; all
shared state is in PostgreSQL, one implicit transaction per repository method.
Reviewers, operators and other tenants change the same tables from other
requests. Nothing calls back into a suspended `handle`.

## 2. Plan

1. **Kernel** with the services it awaits, and **Ledger**, what it promises: done.
2. **AuditLog**: appends, rolled-back appends, verification, with and without effective row-level security; properties: rows are linked, verification raises no false alarm, an append ends. **EventChain** is what its readers rely on. Theorems: linked rows, sound verification, the refinement of EventChain. Done.
3. **Delegation**: vault, verifier and orchestration over a tree of decisions, each statement of `revoke_decision`, `handoff`, `delegate`, `gather` and `verify_token` a step; the docstring of `check_ancestry` as a violation run. `_is_narrower_scope` became part of it (`InScope`), because what keeps children narrow is the order of its checks with introspection's. **Authority** is what the holders of decisions rely on. Done, all safety properties and the refinement of Authority proved.
4. **CostControls**: `check_budget`/`record_spend`/`top_up_tenant_budget`; the bound on overspending by calls in flight, and the docstring of `evaluate_budget_set`. Done, with both safety properties proved, and the docstring's claim under the condition it needs.
5. **Callers** and **RateLimiter**: the SDK's retries over an unreliable network, in front of the kernel as the ledger it was shown to implement. This is the composition of client, limiter and kernel. Done, all safety properties and the rate of the limiter proved.
6. **Governor**: the operators' view of the kernel's tables, an extension of `Kernel`. Done and proved.
7. **PolicyVersions** and **PolicyRegister**: overlapping activations of a policy, and the register that `Kernel` takes a policy to be. Done, refinement and absence of deadlock proved.
8. Left: Kernel composed with Delegation (the free verdict of `TokenVerify`) and with CostControls (the free verdict of `BudgetCheck`). Both verdicts are free in `Kernel`, so its properties already hold for whatever these components answer; a composition would add statements about both at once. Approval expiry and the decision after a review wait for code that calls them.

Not more than twelve runs in all; two or three actors per run, as the races
need. Recursion is written with recursive functions, so that every module can
be proved about.

## 3. What is modelled

`Kernel.tla` is `handle` with everything it awaits. `pc[r]` names the statement
at which call `r` is suspended; each action is one such statement and the
local code up to the next. The stages are, in order: idempotency lookup (`lookup`, `replay`), the INSERT of the action (`insert`), the loser's
polling loop (`poll`), the `action_received` event, the injection scan, policy
resolution and its event, eight kill-switch SELECTs (four scopes, each followed
by a SELECT for any global row), capability lookup and consumption or token
verification, policy verdict, budget, approval and dry run, the governed
function, the INSERT of the decision and its event, the result and its event.
A refused INSERT, a crash, a disconnect or an exception of the governed
function that is not caught ends the call (`aborted`).

The environment acts between any two steps: reviewers decide pending approvals,
capabilities are revoked or expire, policy versions are activated, kill-switch
rows are enabled and disabled.

`Ledger.tla` is the promise without stages, tables or statements: a submission
is accepted at most once per key, has its effect at most once and only before
it is settled, is settled as done exactly if it had its effect, and a caller is
told only settled verdicts. The mapping is in `Kernel` (`L`): rows of `actions`
are acceptances, invocations of the governed function effects, rows of
`decisions` verdicts, and `answer` what was told.

`KernelInvariant`, `KernelProofs` and `KernelRefinement` hold the proofs;
`MCKernel` the instances.

Abstractions, and why they lose nothing the properties are about:

- An (actor_id, idempotency_key) pair is one value; requests have their own
  `action_id`, as `submit_action` gives them one.
- A policy is what its rules do to the requests of an instance: let them pass,
  block them, or ask for an approval. All requests of an instance have the
  action, resource and actor that kill-switch rows of those scopes name.
- What the budget service, the injection scanner and the governance-token
  verifier answer is free, so the properties hold whatever they answer.
- `Resolve` takes the resolver's reads and the INSERT of its snapshot as one
  step: it reads the one policy that can change once.
- Row-level security does not restrict the reads of `handle` (migration 001
  redefines `set_tenant_context`); an INSERT it refuses is a failing statement,
  and every statement may fail (`Abort`).
- `audit` is the set of event rows; how they are chained is `AuditLog`. The
  order in which rows appear is kept, because each append is a step.
- The in-memory `KillSwitch` (`RT/tokens/kill_switch.py`) is created anew for
  every request and never active there, so it is left out.
- `ran`, `spent` and `standing` are histories: the calls that invoked the
  governed function, the calls whose `consume_capability` succeeded, and the
  rows that stayed enabled since a call entered. They are never read by an
  action.

`AuditLog.tla` is the append protocol of both hash-chained tables:
`governance_audit_log`, written by `GovernanceAuditTrail.record`, and
`audit_events`, written by `Repository.save_audit_event`. Each append is a
transaction of four steps (`Begin`, `Lock`, `Insert`, `Commit`) that may be
rolled back at any of them (`Rollback`); the two tables use different lock keys
and never meet, so one instance stands for either. Verification is a function
of the committed rows. `EventChain.tla` is the log as a reader sees it, without
writers, transactions or locks: one event at a time, each behind all that are
there and linked to the last its author may see. That a lock serializes the
appends shows in what a reader may do: whoever goes on from the last `event_id`
it has read misses none. The mapping (`Chain` in `AuditLog`) takes the committed
rows as the chain. Its abstractions:

- The hash of a row is its `event_id`: SHA-256 is taken not to collide, and
  what a hash covers is left out. 0 stands for the 64 zeros of the first row.
- `nextId` is the `BIGSERIAL` sequence: a rolled-back INSERT leaves a gap, and
  the verification functions compare a row only with the row at
  `event_id - 1`.
- `rls` says whether the database role is subject to row-level security (it is
  not for a superuser or a table owner without FORCE); `Visible` is what the
  trigger's SELECT then returns.

`CostControls.tla` is the service of the same name and the way the kernel uses
it. A caller begins (`Begin`), finds the matching budgets (`Select`), reads the
spend of each in a statement of its own (`ReadSpend`), decides and records the
enforcement (`Evaluate`), and, unless a blocking budget came first, runs and
reports its cost (`RecordSpend`). An infrastructure error lets the call through
(`CheckFails`), any other ends it (`Abandon`). A top-up is one transaction with
a row lock (`LockBudget`, `CommitTopUp`, `RollbackTopUp`). Its abstractions:

- `spent` is the sum that `_current_spend` computes, per budget, instead of the
  rows of `cost_spend_events`; a new period sets it to zero. `amount` 0 means
  that the budget is not there yet.
- A call costs what it projected, so that `Overrun` is about concurrency and
  not about estimates. Events whose call is never checked, or is let through,
  are counted apart in `unchecked`, a history variable.
- `rls`: `_matching_budgets` sets the tenant outside a transaction, so that
  under row-level security it finds no budget at all (`Matching`).

`Delegation.tla` is the token vault with everything that reads or writes it:
the verifier, the orchestration runtime and the decisions API. A call is a
coroutine suspended at a statement (`token`, `decision`, `parent`, `root`,
`scope`, `kill`, `kernel`, `supersede`, `issue`, `compensate`); what it read is
in `copy[c]`, the id it is going to store in `child[c]`. `Environment` creates
decisions, revokes, expires and kills between any two steps. `stood` is a
history: the grounds for refusal that held when a call began and never lapsed.
`Authority.tla` is the same without calls, statements and copies: authority is
created, passed on in one step and never wider, replaced, revoked with what
hangs below, and a token lapses for good. A successor stands beside a decision
only once that one is replaced, and a revocation is lifted by a replacement
only. The mapping (`Held` in `Delegation`) takes the rows for the decisions,
their revoked ones as `revoked`, the superseded ones as `replaced`, and the live
tokens as usable. A handoff is two of its steps: `Supersede` retires the
predecessor, `Issue` passes on.

**A handoff can undo a revocation.** It reads the row, awaits the kernel and
writes its copy back with `superseded_by`; the upsert of `store_decision` sets
`decision_type` and `revoked_at` to the values of the copy
(`RT/tokens/token_vault.py:206-217`). A revocation in between is lost:
`verify_decision` accepts the row again, and `check_ancestry` no longer refuses
on its account the descendants that the revocation has not marked themselves,
such as those stored since. That disagrees with `revoke_decision` ("Mark a
decision as no longer executable", `token_vault.py:410`). `RevocationLeavesMark`
says what is left: only
a handoff that read the row before the revocation can do this, the row is
superseded from then on, so that no handoff starts from it and `verify_token`
and `introspect` refuse it, and its token stays revoked. `RevocationIsFinal` is
the theorem that nothing else does it. So `Withdrawn` (revoked or superseded) is
used only where the code asks for both.

- A scope is the set of actions its patterns match. Resources, spend and rate
  limits are not represented: an empty list of the parent is skipped by
  `_is_narrower_scope`, so the code does not promise that those narrow.
- The runtime's kernel is a constructor argument and free to answer. This
  repository's `Kernel.handle` never answers ALLOWED, and `actions.root_decision_id`
  is a UUID that a `gd_` id would not fit; the repository's tests
  (`src/tests/test_orchestration.py`) inject a kernel that answers ALLOWED and
  check the child's token, and that is the runtime modelled.
- `revoke_decision` is one step: its statements run in one transaction and hold
  their row locks. In the runtime only the compensation of `delegate` calls it;
  it and `revoke_token` are modelled as the public interface of the vault.
- The reads' `SELECT set_tenant_context` is lost at the end of its statement
  and `SET LOCAL` outside a transaction does nothing, so the model assumes a
  role that sees the rows. `derive_token` of the governance router raises before
  it reaches the vault and is left out, as is the in-memory kill switch.
- Read off the code and not claimed by any property: `introspect` looks at
  neither the token's own revocation nor its expiry, nor at whether the decision
  is an `allow`; `delegate` does not compare its action name with the scope; two
  concurrent handoffs of one decision both succeed.
- The compensation of `delegate` comes after the outcome of the token
  transaction is settled: it has committed (though the caller got an error) or
  it has not and never will. A COMMIT that the database carries out only after
  the compensation has run is not modelled.

`Callers.tla` is the path of a call from the SDK to the kernel and back. An
attempt is `<<call, n>>`; it is sent, admitted or refused by the bucket
(`RateLimiter.tla`, instantiated), handled by the kernel, which is here
`Ledger` (instantiated: `KernelRefinement` proves that `Kernel` implements it),
and answered, unless the request, the server or the answer is lost or late. The
client retries network errors and 5xx with exponential back-off and 429 after
Retry-After. `RateLimiter` counts in parts of a request, 1/`Window` each, so
that the refill per second is the whole number `Requests`; `level`, a history,
is a bucket refilled every second, `promised` the calls that were told when to
come back and have not been overtaken since.

- Each HTTP attempt is a new action (a new `uuid4` in `submit_action`). Without
  an idempotency key every attempt may run the action, and a refused retry may
  follow one that ran; `guard` never sends a key, and a time-out is not retried
  (`httpx.TimeoutException` is no `NetworkError`), so a recorded execution may
  belong to a `guard` whose function never ran. None of the properties claims
  otherwise.
- The conflict answer of `handle` has no decision, `submit_action` reads its
  status and the client sees a 500 (`ServerError`); `decide()` ends the same
  way. 4xx answers are not retried and left out.
- The application mounts the limiter without Redis (`RT/api/__init__.py`), so
  the in-memory bucket is the one in use. Calls share one bucket key.

`Governor.tla` extends `Kernel` with the views operators get: `Shown`, the
state derived for one action, `Listed`, what the list of a state selects, and
`AwaitingReview`. They are functions of the tables, stated as invariants of
every state a query can meet. Left out: the lists of deferred and timed-out
actions name statuses `decision_status_enum` lacks (the query raises), and
`get_stats` counts every EXECUTED decision as executing.

`PolicyVersions.tla` is `apply_approval_threshold`, the only writer of
`policies`, as a READ COMMITTED transaction: `Begin`, the snapshot of the UPDATE
(`Update`), its row locks one by one with the re-check after a wait
(`LockRow`), the INSERT with its unique index (`Insert`, `InsertRefused`),
`Commit` or `Rollback`; and the resolver's lookup and snapshot. Two versions can
be active at once, because an UPDATE does not see the row of an apply that is
still open; then the resolver takes the one whose transaction began last, which
need not be the one that was answered last. `PolicyRegister.tla` says what is
true all the same, and what `Kernel` assumes with `ActivatePolicy`: a register
whose replaced contents never come back. `Obtains`, `NameFree` and `NameGone`
say when a row lock or the version name is granted; Abstractions: the begin and the
commit of transactions fall on different instants, since NOW() has microseconds;
`replaced` and `outdated` are histories. UPDATEs lock their rows in one order: the
statement has no ORDER BY, so this is an assumption about how PostgreSQL scans
the few rows of one tenant. The lock of a row that was waited for and turned
out retired is not kept, where PostgreSQL keeps it until the transaction ends: a
third apply may wait longer than modelled, for a row that is retired anyway.

Definitions with an underscore in their name are mistakes the code avoids
(an index checked too late, a swallowed error, a missing fallback); each is
seeded in turn to show that a property notices it.

## 4. Runs

| Run | Instance | Shows |
|---|---|---|
| `kernel_races` | 3 calls, 1 key, tenants t1, t2 and none, a dry run, a single-use capability, 1 poll, crashes | `AtMostOneExecution`, `ReplayIsFaithful`, `CapabilityAccounting`, `AuditIsBacked`, `AnswerIsDurable` under every interleaving |
| `kernel_stages` | 1 call, every kind of token, 3 policies, kill rows of 3 scopes and 2 tenants, reviews and revocations at every step | `KillSwitchFirst`, `NoStageBypassed`, `GovernorIsFaithful`, `ListsMatchStates` |
| `kernel_ledger` | 2 calls, duplicates included, 2 policies, reviews, 2 polls, crashes | `ImplementsLedger`, and `EveryCallReturns` under fairness |
| `kernel_budget` | 1 call, budget exceeded | violates `TerminalDecision` |
| `audit_chain` | 3 writers, 2 tenants, 3 event ids, with and without row-level security, rollbacks | `Chained`, `NoFalseAlarm`, `ImplementsChain`, and `EveryAppendEnds` under fairness |
| `audit_tenant` | 2 writers, row-level security | violates `TenantIsVerified` |
| `cost_race` | 2 callers, 3 checks, costs 1 and 2, an agent and a tenant budget of 2, 2 top-ups, new periods, with and without row-level security | `Overrun`, `TopUpsChain` |
| `cost_mask` | 1 caller, an agent budget that throttles, a tenant budget that blocks | violates `ExceededBlocks` |
| `delegation` | 2 calls of any operation, a root decision, 2 grants, 2 actions, one revocation, expiry or kill switch at any step | `ActionsAttenuate`, `OneRoot`, `StandingDenial`, `TokensDieWithDecision`, `NoOrphanGrant`, `RevocationLeavesMark`, `ImplementsAuthority` |
| `delegation_ancestry` | 1 call, a chain of a root and 4 grants, a revocation | violates `AncestorsActive` |
| `callers_retry` | 2 calls (one keyed, one of `guard`), 1 retry each, rate 2 per 3 s, burst 1 | `KeyedAnswerIsTrue`, `GuardIsBacked`, `LazyIsEager`, `RetryAfterSuffices`, and `EveryCallEnds` under fairness |
| `policy_versions` | 3 applies, 3 version names, 1 resolving call, failures at every step | `NoStaleVersion`, `ResolvesCurrent`, `ImplementsRegister`, and `EveryApplyEnds` under fairness |

Bounds. Three calls are the smallest number at which a duplicate can race a
winner while a third call competes for the same capability; the keys,
capabilities and polls are as few as make them collide (`max_uses` is 1, so the
second consumer meets the limit). The polling bound stands for the 50 of the
code and is reached. One call is enough for the stages, because calls meet only
through keys and capabilities, which the races cover; the switch rows cover a
hit by tenant, a hit by the global fallback of another tenant and a miss.
`Requests` is symmetric in `kernel_races`, where no temporal property is
checked. Three event ids and writers let a row follow a gap, another tenant's
row and a row of its own tenant; the bound on ids stops `Insert`, and a writer
it stops can only be rolled back. In `cost_race` two callers exceed the tenant
budget by exactly the bound (a cost of 2 each against 2), the third check comes
after a record, and two top-ups compete for the one row that can be topped up.
In `delegation` two calls are enough for one to change what the other has read,
and two grants for a handoff of a delegated decision; `MaxChanges` is 1 because
a second change is another call's doing. `delegation_ancestry` needs a chain of
five: with four, the parent or the root of the last one is marked. In
`callers_retry` one retry lets a late first request meet its successor, and a
rate of 2 per 3 seconds makes Retry-After a fraction that is rounded; seconds
are counted until the bucket is full. In `policy_versions` two applies overlap
and leave two active versions, and the third meets both; names may coincide.
Three applies cannot wait for each other in a circle in whatever order they lock
(a circle needs two versions active and two more applies over them, four in
all), so no run asks whether they do; the theorem `NeverAllWait` answers it for
any number.

Fairness. `FairSpec` assumes that a call which can take a step eventually does:
the event loop resumes every suspended coroutine and every statement returns or
raises. Nothing is assumed of the environment, and `Enter` and `Abort` are not
fair: a call may never be made and never crash.

In `AuditLog` the statements of a transaction that holds the lock end, by
commit or rollback (weak fairness), and PostgreSQL queues the waiters of an
advisory lock, so one for whom it is free again and again gets it (strong
fairness of `Lock`).

In `Callers` time passes, a client that has slept wakes up, and one that waits
is ended by its time-out (weak fairness of `Second`, `Wake` and `TimeOut`);
nothing is assumed of the network or the server, so `EveryCallEnds` holds even
if no request ever arrives. In `PolicyVersions` a transaction that has begun
goes on and a free lock is granted (weak fairness of its steps); that waiting
ends rests on the model itself: every holder ends by commit or rollback.
`Delegation` states no liveness: its calls are straight-line code without
loops or waits.

Four disagreements between code and documents are violation runs; PROJECT.json
quotes the lines. `src/docs/KERNEL_GUARANTEES.md` promises a terminal decision
for every action: the `spend_limit_exceeded` event has a type that the CHECK on
`audit_events` refuses, so `handle` raises before the decision is stored
(`kernel_budget`). Two more paths of `Kernel` end in the same way, and the
model has them: a `BLOCKED_CAPABILITY` decision for an unknown token breaks the
foreign key of `decisions`, and a dry run is decided with a status that
`decision_status_enum` lacks, so that the SDK's `decide()` never gets the
decision it documents (`Storable`, in every run of `Kernel`). `verify_chain(tenant_id)` documents that it verifies that
tenant's chain; the tenant is set in a statement of its own with
`set_config(..., TRUE)` and is gone when the rows are read, so that under
row-level security nothing is checked (`audit_tenant`). "Any exceeded budget can
enforce" says `evaluate_budget_set`; it returns the first exceeded one, and the
kernel ignores it unless it blocks, so that an agent budget that throttles
hides a tenant budget that blocks (`cost_mask`). `check_ancestry` documents that
it checks all ancestors; it reads the parent and the root, and a revocation
marks one level, so that a token three delegations below the revoked decision, four below
the root, still verifies (`delegation_ancestry`).

`NoFalseAlarm` claims the verification of the whole table only where row-level
security does not hide rows from the trigger: where it does, each tenant's rows
are a chain of their own (`Chained`), and the walk over all of them compares
neighbours of different chains.

## 5. Proofs

For every set of requests, keys, tenants, capabilities, policies and
kill-switch rows, every `max_uses` and every polling bound, TLAPS proves

| Theorem | Module | Statement |
|---|---|---|
| `TypeCorrect` | KernelProofs | `Spec => []TypeOK` |
| `OneExecution` | KernelProofs | `Spec => []AtMostOneExecution` |
| `ReplaySafe` | KernelProofs | `Spec => []ReplayIsFaithful` |
| `CapabilitiesAccounted` | KernelProofs | `Spec => []CapabilityAccounting` |
| `KillSwitchObeyed` | KernelProofs | `Spec => []KillSwitchFirst` |
| `StagesObeyed` | KernelProofs | `Spec => []NoStageBypassed` |
| `AuditBacked` | KernelProofs | `Spec => []AuditIsBacked` |
| `AnswersDurable` | KernelProofs | `Spec => []AnswerIsDurable` |
| `Refinement` | KernelRefinement | `Spec => ImplementsLedger` |
| `ChainLinked` | AuditLogProofs | `Spec => []Chained` |
| `VerificationSound` | AuditLogProofs | `Spec => []NoFalseAlarm` |
| `TypesOK` | CostControlsProofs | `Spec => []TypeOK` |
| `BoundedOverrun` | CostControlsProofs | `Spec => []Overrun` |
| `TopUpsChained` | CostControlsProofs | `Spec => []TopUpsChain` |
| `TypeCorrect` | AuditLogProofs | `Spec => []TypeOK` |
| `GovernorFaithful` | KernelProofs | `Spec => []GovernorIsFaithful` |
| `ListsMatch` | KernelProofs | `Spec => []ListsMatchStates` |
| `TypeCorrect` | DelegationProofs | `Spec => []TypeOK` |
| `AuthorityShrinks` | DelegationProofs | `Spec => []ActionsAttenuate` |
| `LineageHasOneRoot` | DelegationProofs | `Spec => []OneRoot` |
| `RevokedTokens` | DelegationProofs | `Spec => []TokensDieWithDecision` |
| `FailureLeavesNothing` | DelegationProofs | `Spec => []NoOrphanGrant` |
| `NoStandingDenialPassed` | DelegationProofs | `Spec => []StandingDenial` |
| `RevocationIsTraced` | DelegationProofs | `Spec => RevocationLeavesMark` |
| `RevocationIsFinal` | DelegationProofs | without handoffs (`NoHandoffs`), `Spec => [][what is revoked stays revoked]_vars` |
| `TypeCorrect` | CallersProofs | `Spec => []TypeOK` |
| `KeyedRetries` | CallersProofs | `Spec => []KeyedAnswerIsTrue` |
| `GuardsBacked` | CallersProofs | `Spec => []GuardIsBacked` |
| `LazyRefill` | CallersProofs | `Spec => []LazyIsEager` |
| `RetryAfterIsEnough` | CallersProofs | `Spec => []RetryAfterSuffices` |
| `TypeCorrect` | PolicyVersionsProofs | `Spec => []TypeOK` |
| `NothingStale` | PolicyVersionsProofs | `Spec => []NoStaleVersion` |
| `ResolvedCurrent` | PolicyVersionsProofs | `Spec => []ResolvesCurrent` |
| `Refinement` | PolicyVersionsProofs | `Spec => ImplementsRegister` |
| `NeverAllWait` | PolicyVersionsProofs | `Spec => []SomeApplyMoves` |
| `Refinement` | AuditLogProofs | `Spec => ImplementsChain` |
| `LockIsAttended` | AuditLogProofs | `Spec => []Attended` |
| `Refinement` | DelegationProofs | `Spec => ImplementsAuthority` |
| `NoCallGoesOn` | KernelProofs | `Spec => [][CallsDescend]_vars` |
| `RefusedUndecided` | KernelProofs | `Spec => []`(who is `Refused` has no decision) |
| `UndecidedRefusedOrRaised` | KernelProofs | `Spec => [][EndsUndecided(r) => Raises(r) \/ Refused(r)']_vars`, for every `r` |
| `BlocksUnlessMasked` | CostControlsProofs | `BlocksFirst => (Spec => []ExceededBlocks)` |
| `RateIsKept` | CallersProofs | `Metered => []RateOK` |

Assumptions: the constants have their types (`ParamsAssumption`,
`CapabilityAssumption`, `BoundAssumption`), and the null and the two special
tokens differ from all values (`NullAssumption`). `Requests` need not be finite.

None of the properties is inductive alone. `IInv` (KernelInvariant) is the
conjunction of eleven named parts, each saying what the place where a call is
suspended implies for the tables:

- `Ownership`: who has an action row, and that a call without one has no
  decision, approval, use, run or result. `UniqueKeys`: the unique index.
  Together they give `AtMostOneExecution`: what ran has a row, and rows of one
  key coincide.
- `Decisions`, `Stages`, `Answers`, `Replays`: what has been established when a
  call reaches a stage (a call at `execute` has an `allow` snapshot, is no dry
  run and carries no unknown token; a call at `decide` has run exactly if its
  rule is an execution rule; ...).
- `Spenders` and `Counted`: a call has spent a use only past the consuming
  statement, so that the statement adds a new spender; the counter is the
  cardinality of the spenders of its capability.
- `Switches`: a request under a standing row is `Held` in front of the stages
  beyond the row's own. `InForceShrinks` says that rows in force only leave
  once the request is in; `HeldStep` that a row still in force holds the
  request through any step; the interesting case is `KillCheck`, where the
  request cannot leave the stage that looks its row up.

For each part there is one lemma with one step per action (`OwnershipStep`,
...); `Invariance` puts them together. `KernelRefinement` maps the actions:
`SaveAction` to `Accept`, `Execute` to `Effect`, `SaveDecision` to `Settle`,
`DecisionMade`, `Lookup` and `Poll` to `Tell`, everything else to a stutter.

`NoCallGoesOn` is what `EveryCallReturns` rests on besides fairness: `Left(r)`,
the statements `r` still has before it at the most, is at most 25 + `MaxPolls`,
every step of `r` lowers it and no step of anybody else raises it. So a call
cannot be kept busy, not even the duplicate that polls for a decision nobody
will write. `RefusedUndecided` and `UndecidedRefusedOrRaised`
are the counterpart of the run `kernel_budget`. The first says that each of the
three refusals named in section 4 leaves the action without a decision for
good, crashes or not. The second says where else a call can end with its action
undecided: only in a step that raises, that is, at an uncaught exception (of the
governed function, or of the arithmetic on the projected cost), a failing
statement or a crash, any of which `Abort` stands for. That the code has no such
exception is not claimed; that every answer given in the ordinary course
carries a decision is.

`AuditLog` is proved for every set of writers and tenants, every bound on ids
and either kind of role. Its invariant `LInv` adds to `Chained` that only the
holder of the lock is between `Lock` and the end of its transaction (`Locked`),
that ids are drawn in order (`Drawn`), and that the row of the holder carries
the hash of the last row it may see (`Pending`): with nobody else committing in
between, it still does when it is committed. `VerificationSound` follows from
`Chained` alone: the row at `event_id - 1`, if it can be seen, is the last one
before. For `Refinement` a `Commit` is an `Add`: the id in the hands of the
holder of the lock is above all committed ones (`Drawn`). `LockIsAttended` says
that the lock is only held at statements that wait for nobody, so that
`EveryAppendEnds` needs no more than the fairness stated.

`CostControls` is proved for every finite set of callers, every set of
executives and budgets, and all amounts and costs. `TInv` says that a locked
budget is the reader's own and unchanged since it read it, and that no
adjustment results in more than the amount; hence a new adjustment starts
where the last one ended. For `Overrun`, a caller with a reading of a budget that
leaves room for its cost is `Passed`, and `Room` says that among these there is
one for which the room left, beyond `Rivals - 1` costs of at most `m`, suffices
for its own cost and `m` for each of the others. Whoever reads next becomes that
one; if it records, any other takes its place, because each has set aside at
most `m`. `CInv` supplies that readings are not above the amount and that an
allowed call has passed every budget it read. `BlocksUnlessMasked` is the
counterpart of the run `cost_mask`: the finding needs a more specific budget
that does not block. `Justified` says that a call which goes ahead after a
completed check either exceeded nothing or was let through by a budget that no
exceeded one outranks; if on every call the blocking budgets outrank the others
(`BlocksFirst`, which an operator can see to), "any exceeded budget can enforce"
holds of those that block. `cost_race`, where all budgets block, is such an
instance.

`Governor` needs one more invariant of the kernel, `Settled` (KernelProofs):
what a decision and a result row say of a run, at every place a call can be
suspended or dead at. Both views follow from it and `IInv`.

`Delegation` is proved for any decisions, calls, actions, jobs and changes. Its
invariant has three parts. `Tree` is what the tables hold: `OneRoot`,
`ActionsAttenuate` and `TokensDieWithDecision`, with `RootIsTop` (a root column
names an existing decision that has no root itself) and `Blank` (ids not yet
used). `Shape`, `Read` and `Child` tie a call to them: the copy it carries has
the scope and lineage of the row as it still is, since rows change their status
but never those; the scope it asks for is inside its copy's; the id it will
store is unused. `Clear` says which grounds of `stood` each statement it has
passed refutes, which gives `StandingDenial`. For the refinement of `Authority`
one more invariant is needed, `Replaced`: a handoff about to store the successor
has superseded its predecessor. Only `Supersede` leads there (`ToIssue`), and the
mark is never taken back. Then the one statement that stores a row is `PassOn`
(`IssuePassesOn`): the copy it was made from may be stale in its status, but not
in its scope, parent or root.

`Callers` is proved for any calls, keys, retries, rates, windows and bursts.
The only assumption about arithmetic beyond types is that a power of two is a
natural number (`BackoffAssumption`), which the provers do not know. `BucketOK`
holds `LazyIsEager` and, for every promised call, that the level plus what its
nap still adds reaches one request (`PromisesHold`): ticking moves one second
from the nap to the level, and admitting anyone voids the promise. `LedgerOK`
says that accepted requests with one key coincide and that verdicts match
effects; `AnswersHold` that what a client was told is the verdict of its own or
a same-keyed request. `KeyedRetries` and `GuardsBacked` follow. `RateIsKept`
states what a rate limit is: `Metered` is the specification with a meter beside
it that counts admitted requests and seconds and may be reset at any moment, and
at every moment `admitted * Window` is at most `Burst * Window + elapsed *
Requests`. The meter only watches (`OnlyWatches`) and misses no step
(`WatchesAll`); what was admitted plus what is in the bucket is at most what was
in it and what has flowed in. It is the reason why `LazyIsEager` matters.

`PolicyVersions` is proved for any applies, calls and names. The heart is
`Gapless`: with an active version, an open UPDATE has selected every active one
that was committed before it. Hence an apply cannot retire the version that had
replaced another and leave that other one active; with `Overtaken` (a replaced
version that is still active stands behind a younger one that was also
committed later) no replaced version comes back, which is the refinement. `Seen`
(an UPDATE has selected everything committed before its transaction began)
gives `NoStaleVersion`. That the versions have a newest one comes from the
well-founded order of the naturals (`HasNewest`). `NeverAllWait` rests on two
facts about the code: the UPDATE locks its rows in one order (`InOrder`: who
holds a row and still wants others wants later ones), and the version name is
only asked for with every row in hand, so that its holder waits for nothing
more. If all waited, take the youngest row anyone waits for next: its holder
waits for a younger one (`NoCircle`).

Only model-checked: `EveryCallReturns`, `EveryAppendEnds`, `EveryCallEnds` and
`EveryApplyEnds`, because liveness under fairness is out of the prover's reach.
Of three of them the part that is not fairness is proved: `NoCallGoesOn`,
`LockIsAttended`, `NeverAllWait`. The four violation runs refute what they
check; of two of them a theorem says under which condition the claim holds or
which actions it fails for. For `AncestorsActive` there is none: the ancestors of
a decision are a recursive function (`Lineage`), which the provers cannot
unfold; `NoStandingDenialPassed` says that a missed ancestor is the only
ground of refusal a call can slip past.

## 6. Not modelled, and why

PROJECT.json gives the reason for each part. In short:

- Nothing reachable to model: billing (the upsert of a subscription passes NULL
  for a column that is NOT NULL, `create_customer` has no caller, the webhook is
  behind the API-key check, `CommercialMiddleware` is not mounted); agent identity
  and trust scores (registration inserts, and scoring selects, columns that
  `011_agent_identity.sql` does not create, so no identity row exists); authentication
  (`AuthMiddleware` calls methods `APIKeyService` does not have). A model would
  have to invent their states.
- Without a caller: `DecisionEngine`, `core/orchestrator.py` (it would run an
  action a second time after `handle`), `core/router.py`, `utils/` (several call
  Governor methods that no longer exist), `process_expirations`,
  `resolve_approval_to_decision`, the Redis limiter.
- No state of their own: the execution middleware, `capability_service`, the
  dashboards' queries, most routers, the other HTTP client.
- Pure data or external I/O: evidence export and anchoring, the web
  applications, generated pages, the archive.

`handle`'s choice of `path_taken`, messages, timestamps and hashes are left out:
no property is about them.
