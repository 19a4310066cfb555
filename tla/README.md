# Deadbolt: a specification of the remediation core

Deadbolt turns entitlements that drifted from a ratified template into findings, findings into a
hashed plan, and approved plan actions into revocations that can be rolled back, with an audit
trail of every decision. This directory holds TLA+ models of the parts of it where order, failure
and concurrency decide whether the promises of the documentation are kept, TLC configurations that
check them on small instances, and TLAPS proofs of what holds for every instance.

Paths below are relative to `src/backend/src/deadbolt/` unless they start with `src/` or
`backend/`. `PROJECT.json` maps every definition to the lines it stands for.

## 1. Inventory

### 1.1 Components

| Component | State it keeps | Operations | Hard behaviour |
|---|---|---|---|
| **Executor** `executor/run.py`, `executor/idempotency.py` | `LOCK#plan#seq` and `PLAN#/ACT#` items in DynamoDB, pre-image objects in S3; locals of one call | `Executor.execute`; `IdempotencyStore.acquire / complete / release / get_actions` | repeated and concurrent deliveries, every remote call may fail before or after its effect, exceptions after the mutation, lock ttl, Lambda timeout |
| **Rollback** `executor/rollback.py` | none of its own | `RollbackExecutor.rollback` of one or all recorded actions | races deliveries; per-action failures are collected, the loop goes on |
| **Audit writer** `audit/writer.py` | one S3 object per record, hash-chained per plan | `write`, `verify_chain` | read-verify-number-put without a lock, listing pages, malformed chains, tampering |
| **Approval broker** `broker/statemachine.py`, `src/backend/infra/lib/broker-definition.ts` | the document and the state of a Step Functions execution | 25 states of a Standard workflow | waits, heartbeats, `Catch`, documents that lack what later states read |
| **Slack handler** `broker/handler.py`, `broker/card.py` | none; appends to the trail, answers task tokens | `lambda_handler` | duplicate, late and competing clicks; record first, answer second |
| **Negotiator** `broker/negotiate.py` | plan, proposal and audit records | `negotiate_decision` | untrusted model output, fallback model, replanning, repeated reductions |
| **Plan builder** `plan/*.py` | none | `build`, canonical encoding, `preimage_key` | order, downgrade rules, equal bodies have equal hashes |
| **Engine** `engine/*.py` | none | detection, risk score, tier | boundaries, break-glass and non-revocable exceptions |
| **Identity resolution** `graph/identity.py` | none | `resolve_identity` | precedence of sources, quarantine on ambiguity |
| **Snapshot and graph store** `graph/snapshot.py`, `graph/store.py` | entitlement and edge rows, run records | fan-out over providers, chunked batch writes with retries | partial failure of a fan-out, unprocessed items, rows that outlive their entitlement |
| **Register API** `api.py`, `handlers/api.py` | findings, decisions, events, plan and scan evidence in memory behind an `RLock`, persisted as one item | `decision`, `rollback`, `rerun`, `scan`, `metrics` | several Lambda instances with their own copy, slow provider calls outside the lock |
| **Connections** `connections.py` | stored connector configurations | save, test, snapshot, remove | write-back after a long call |
| **MCP server** `mcp_server.py`, `mcp_lambda.py` | a register of its own, on Lambda for one request only | tools over the register; GitHub onboarding and removal | plans previewed in one call and confirmed in another; multi-step onboarding |
| **Providers** `providers/*.py` | the systems' own entitlements | `snapshot`, `dry_run`, `revoke`, `downgrade`, `restore` | repeated requests that change state, changes by others, several permissions of one scope |
| Budget guard, telemetry, metrics, command line, captures, contracts, authentication, infrastructure, browser | see `PROJECT.json` | | mostly sequential or pure |

### 1.2 Interactions

`Executor.execute` claims a lock and an action record (`IdempotencyStore`), resolves its target from
`provider.snapshot()`, stores a pre-image in S3, asks the provider for a dry run, then for the
mutation, verifies on a new snapshot, restores on failure, and publishes its verdict twice: in the
lock item (what a duplicate is answered) and in the audit chain (what a reviewer reads).
`RollbackExecutor` reads the action records and pre-images the executor left, and calls the same
provider. Both call `AuditWriter.write` for the same plan, as does the Slack handler. The workflow
of the broker calls the notification function with a task token; the token comes back through the
Slack handler; the workflow then calls the audit and executor functions. Detection, planning and
negotiation are functions between a listing and the plan that executor and broker work on. The
register API is a second, self-contained path over fixture or captured data: it keeps its own
decisions, calls the negotiator in process, replaces its findings with what a connection lists, and
is what the MCP server works on too. The snapshot run copies what all providers list into the graph
table and a bucket. The adapters are behind everything that reads or changes a provider.

### 1.3 What makes each part correct

- *Executor*: one mutation however often an action is delivered; nobody works under somebody
  else's lock; what was removed can be put back, and nobody gets what he never had; after a failure
  an action is either done or undone, and both verdicts say which.
- *Audit*: what was written by one writer verifies and is a log; concurrent writers may break a
  chain but cannot hide that they did; a record with a successor is sealed.
- *Broker*: an answer counts only after it is on record, one click is told that it was taken,
  every execution ends, every branch leaves a record.
- *Engine, planner and negotiator*: no action widens access, and no reduction does, whatever the
  model answers; a worse entitlement is not in a lower tier; what needs no approval is about nobody
  who is protected; a plan does not depend on the order of what was listed; a reduction changes one
  action, and a repeated refusal nothing.
- *Register*: what a browser was told is stored and shown until a later request or scan; numbers are
  positions, and yet only a decision on a page that a scan overtook may verify what nobody saw and
  approved; a repeated request leaves findings and plan as the first did.
- *Connections*: a request that nobody overtook stores what the operators asked for.
- *Providers*: an adapter reports the truth; a restore gives back the very permission; every call
  ends.
- *Onboarding*: only what was previewed is granted, where it was previewed, and a call that
  succeeded granted all of it.
- *Snapshot*: one provider's failing listing does not take the others down; what the record of a run
  calls fresh can be found in the bucket and in the table.

The full list of hazards, each at its line and with the properties that cover it, is in
`PROJECT.json`.

## 2. Modules

| Module | Models | Checked by | Proofs |
|---|---|---|---|
| `Executor` | executor, idempotency store, rollback, provider as they see it | `MCExecutor` | `ExecutorProofs`, `ExecutorOutcomeProofs` |
| `AppendOnlyLog` | abstract: what an audit trail promises | | |
| `AuditChain` | audit writer | `MCAuditChain` | `AuditChainProofs` |
| `ApprovalBroker` | workflow of the broker and Slack handler | `MCApprovalBroker` | `ApprovalBrokerProofs` |
| `RiskPolicy` | scoring, tiers, detection, planner rules: pure operators | `MCRemediation` | `RemediationProofs` |
| `Remediation` | extends `RiskPolicy`: plans and decisions about them | `MCRemediation` | `RemediationProofs` |
| `Connections` | the stored configuration of one connection and its requests | `MCRegister` | `RegisterProofs` |
| `Register` | extends `Connections`: the register of every process, the stored one, the register tools | `MCRegister` | `RegisterProofs` |
| `ProviderAdapters` | one remediation through an adapter | `MCProviders` | `ProvidersProofs` |
| `GitHubOnboarding` | extends `ProviderAdapters`: the GitHub tools of the MCP server | `MCProviders` | `ProvidersProofs` |
| `GraphSnapshot` | extends `ProviderAdapters`: the fan-out into table and bucket | `MCProviders` | `ProvidersProofs` |
| `Providers` | composes the last three | `MCProviders` | `ProvidersProofs` |

### 2.1 Executor

State and code: `locks` is the table of `LOCK#` items (absent, pending, complete with a result),
`actions` the `PLAN#/ACT#` records, `preimages` the S3 objects by pre-image key, `audit` the execute
records, `grants` the provider's live entitlements. A pre-image key is made of the plan *hash*, so
`preimages` is indexed by action and not by plan: plans in `Plans` have the same body. `pc[d]` is the
remote call that delivery `d` makes next; `applied` is `applied_result`, `recovering` says that the
`except` block was entered, `undone` that the automatic rollback was verified.

Each remote call is one action with its outcomes: it succeeds, it raises without effect, or it
raises after its effect (`Fault(kind)`, at most `MaxFaults` of them in a behaviour). `Recover` is the
exception handler: before the mutation the lock is released; after it the live state decides
between rolling back and settling; a second exception goes to the caller. `Apply` contains what a
provider may do: revoke, refuse, claim a success without effect, raise before or after. The
provider's translation of requests, the contents of pre-images, hashes and reports are abstracted
away; a right is one `(system, resource, scope)`, because that is what `_target` compares.

`ExpireLock` and `ExpireAction` are the DynamoDB ttl of 24 hours. They are not enabled while a
delivery works under the item: the Lambda timeout is 30 seconds
(`src/backend/infra/lib/deadbolt-stack.ts:249`). A duplicate that polls the lock may see it expire.
`Administer` is somebody who grants or revokes at the provider by hand. `applies`, `removed` and
`withdrawn` are histories: what applies were sent and took away, and what was revoked by hand.

### 2.2 AuditChain

A record is identified by the call that wrote it, with its sequence number, the hash it stands upon
and whether somebody altered it; a hash is the identity of a record's bytes. `ReadChain` is
`_previous_hash` (list, sort, verify, hash the newest), `AllocateSeq` the second listing of `write`
when the caller supplies no number, `Put` the `put_object`. `FirstPage` is what one
`list_objects_v2` answer names, as `_records` makes one call. `Script` is what each process writes,
in order. `Tamper` is somebody with access to the bucket who alters a record and keeps it canonical,
or removes it.

`AppendOnlyLog` is the abstract specification: entries are added one at a time, on top of the
newest. `AuditChain!LogSpec` is its instance under the mapping *entries = hashes of the stored
records, below = (hash, previous hash), top = hash of the newest*.

### 2.3 ApprovalBroker

`StateMachine` is the table that `build_definition` returns. The actions `Choose`, `Mark`, `Invoke`,
`Ask` and `Expire` are what Step Functions makes of a state of each type; Step Functions is outside
the repository and modelled from the fields the table uses: a null `ResultPath` keeps the document,
an absent one replaces it by the result (or, in a `Catch`, by the error), a path that finds nothing
fails the execution, and a failure without `Retry` or `Catch` does too. The document is a function
from field names to values, so that what is missing from it is part of the model. A task is invoked
once, the functions behind the ARNs do what their names say.

`Click`, `WriteDecision` and `SendDecision` are the three parts of `lambda_handler` between which
other clicks and the execution may move. A click may come once or several times and after the
execution has ended, since the card stays in Slack. `HasWriter` is whether `AUDIT_BUCKET` is set.

The Python and the TypeScript table have the same transitions; the TypeScript audit state reads
fewer fields (`decision`, `plan_id`, `plan_hash`, `finding_id`, `acted`), none of which but the first
and the last is in the document after an answer, so that both behave alike in this model.

### 2.4 RiskPolicy and Remediation

`RiskPolicy` has the arithmetic of `engine/scoring.py` (basis points, integer division, caps), the
tiers of `engine/tiers.py` with break-glass and non-revocable rights, and the first half of
`plan/builder.py`: which findings call for an action, its target and its verb. Days since the last
use are numbers; the number of identities within reach is given in decades, the counts at which the
logarithm of the code is whole. A score off the scale raises, which fails the detection; `Scorable`
says so.

`Remediation` starts with a listing, builds its plan (`Detected` is the order of findings, `Position`
that of actions) and then takes decisions, as `negotiate_decision` does: `Reduce` asks a model,
whose answer is anything in `Texts` or an error, asks the `Fallback` if the first is not available,
falls back to `none` or keeps the action, replans with a new attempt, new hash and new pre-image
keys; `Keep` leaves a proposal, `Approve` and `Defer` a record. A hash is the body it is computed
from, so that equal hashes are equal bodies; an unknown model is any text. The prompt, token counts
and wording are left out. Asking twice to keep an action leaves two proposals, in the code and here.

### 2.5 Connections and Register

`Connections` is one operator's configuration for one provider. Each read, provider call and write
of `connections.py` is a step, so that requests (`Requests`) overlap; a configuration is the number
of the save that supplied its credentials, and `Blank` what is left when only test time and count
are written back. `asked` is what the operators wanted stored, `overtaken` that somebody wrote while
a request worked.

`Register` keeps the register of each process in `memory`: the list of findings, a stage for each,
the plan (the target of each action, under the finding it is about) and whether it came from a
capture. `Durable` processes are Lambda instances of the API: they restore the stored item when they
start and store the whole register after each change, which may fail after memory changed (`Decide`,
`Rollback`, `Promote`, each one step because the code holds the lock). The other servers are MCP
servers: `GetPlan` is the preview, the tools compare the hash, `Fresh` is the new server that Lambda
makes for every request, which forgets decisions. `Repeat` is the browser that asks again when an
answer was lost (`src/frontend/src/lib/api.ts:92`). Findings are rights. A browser decides on any
list it ever got (`shown`, of which one is its page) and sends the position alone
(`src/frontend/src/lib/api.ts:123`), which the process looks up in the list it has by then
(`api.py:486`). `told`, `approved` and `mistaken` are histories: what browsers were told; the
findings that somebody saw on a page and approved there; and the findings that such a decision
reached instead, because the page was no longer the list of the process.

What the register does and a reader may not expect is modelled as it is: the second finding of the
starting list of a capture is shown verified without a decision; `Rerun` rebuilds the plan and so
drops an accepted reduction, yet logs that the hash matched (`api.py:470`); two holders of one right
share the action of the first. The local `ThreadingHTTPServer` without a store is the same minus
persistence and has no instance of its own. The log is its newest entry, as the entries in memory do
not name their finding. A list with one right twice is left out.

### 2.6 ProviderAdapters, GitHubOnboarding, GraphSnapshot, Providers

A place is a right that somebody may hold; `world` says what is there and how often it was granted.
`List`, `ReadDocument`, `DryRun`, `Revoke`, `Downgrade`, `BeginRestore`, `Restore` and `Verify` are
what the adapters do with the place of a `job`, by the `Kind` of the right: GitHub collaborators,
tokens, team and organization memberships; AWS attached and inline policies; Salesforce permission
sets and object rights; GitHub Enterprise tokens, SAML sessions and deploy keys; Workday groups;
fixtures. `Request` is one request of any of them: answered, refused, or lost with or without its
effect, and repeated by the GitHub client after a server error (`github.py:138`). `Touch` is
everybody else, who grants, removes or deletes at any time. `touched` counts every change of a place,
whoever made it, and a job or a call counts its own changes in `since`: they differ once somebody
else was there. Details kept: an AWS user who is gone
counts as restored; a pre-image keeps the permission and not its scope, of which `push` and
`maintain` are one; what an adapter makes of a missing right differs from system to system; a
repeated removal may hit a new grant and still be truthful; a pre-image comes in the form the
adapter returned (`adapter`) or as the entitlement that the executor keeps (`entitlement`). The
listing of one system is one step. Salesforce is as if a permission set had one holder, because
`assignment_by_id` keeps the last; a repeated link in the paging of GitHub Enterprise would not end,
and is not modelled.

`GitHubOnboarding` is an administrator's agent: `Preview` of a plan (its hash is the plan; a removal
does not name the organization), `Onboard` with the invitation, the repositories and the team in the
order of the requests, the three removals, and `Connect`, by which another organization is
configured between preview and confirmation. An invitation counts as access; the organization role
is `member`.

`GraphSnapshot` is `run_snapshot`: system by system it lists, writes rows in batches with
unprocessed items and bounded attempts, writes identities, then the object, then after all systems
the record of the hour. Any step may raise, with or without effect; a failed listing makes a system
`stale`, a failed write ends the run. Two runs of one hour use the same keys. GitHub and
GitHub Enterprise are one system, `github`.

`Providers` lets the three work on one `world`.

## 3. Runs

| Run | Instance | Checks |
|---|---|---|
| `MCExecutorDelivery` | 1 action, 3 deliveries, 1 rollback, 3 faults of dynamo, s3, provider, audit, crash, admin | `TypeOK`, `AtMostOneApply`, `Reversible`, `OnlyReturnsWhatItTook` |
| `MCExecutorOneFault` | 2 actions on two rights, 3 deliveries, 1 fault | `NeverNeither`, `AuditTellsTheTruth` |
| `MCExecutorLive` | 1 action, 3 deliveries that run on, 1 fault of s3, provider, audit, expiry, admin | `LockSettles` (liveness), `LeaseExclusive` |
| `MCAuditPlan` | 1 writer: three forward records, four rollback records, up to 5 failing S3 calls | `TypeOK`, `ChainVerifies`, `LogSpec` (refinement) |
| `MCAuditShared` | 3 writers with 5 records, 2 troubles of failing S3 calls and tampering | `DamageConfined`, `SealedBySuccessor`, `NeverHeals` |
| `MCBroker` | 1 request of any tier, known or not, complete or not; 3 clicks; 2 failing calls | `TypeOK`, `AnswerWasRecorded`, `ToldIsTaken`, `SuccessIsRecorded`, `EveryExecutionEnds` (liveness) |
| `MCRemediation` | 2 holders, 2 places, all lists of one and two of ten rights and four of three; 3 decisions, any model answer | `TypeOK`, `NeverWidens`, `KeysAreItsOwn`, `OrderDoesNotMatter`, `AutomaticIsSafe`, `WorseIsNotLower`, `OneActionChanges`, `RefusedAgainIsHarmless` |
| `MCRegister` | 1 durable process and an MCP server, 4 findings in 3 lists, 2 connection requests, 1 failing call, 1 restart | `TypeOK`, `DecisionSurvives`, `OnlyOvertakenVerifies`, `OnlyOvertakenRevives`, `RepeatIsHarmless` |
| `MCProviders` | 15 rights of all kinds but tokens, 2 organizations, 2 systems in a fan-out | `TypeOK`, `RestoredIsExact`, `AppliedIsComplete`, `GrantsWerePreviewed`, `FreshIsStored`, `SuccessIsTrue`, `EveryCallEnds`, `RunIsRecorded` (the last two liveness) |
| `MCBrokerAudit` | violates `EveryBranchAudited` | finding 1 |
| `MCRegisterShared` | violates `DecisionSurvives` with two durable processes | finding 2 |
| `MCProvidersRollback` | violates `RollbackAsks` | finding 3 |

**Bounds and why they are enough.** *Executor*: three deliveries are needed for one that fails in
the middle, one that waits for it, and one that comes after both. A fault hits one call; two faults
hit a call and the handler of it; with three, a lost answer can precede both. One action suffices for
the properties that are about one lock; its pre-image and action record are its own. What became of
an action is checked with two, on two rights, since their deliveries share the provider and the
trail. `AliceOnly` starts with one holder of the right and `Administer` changes the holders, so that
none, one and two holders occur. *Audit*: three writers are needed for a writer that breaks a chain,
one that races it, and one that has a record in hand meanwhile; the script mixes supplied and
allocated numbers.
*Broker*: one request suffices because executions share nothing; three clicks give a winner, a loser
and a late one.

*Remediation*: two entries of a list are needed to compare findings and for two holders of one
right, three for an action whose number moves; the ten rights lie in every tier and on the
boundaries of days (0, 45, 89, 90, never) and reach. Three decisions are a reduction, another one of
the same or of a reduced action, and one after it. *Register*: the MCP server has a register of its
own, so that `MCApart` lets it or the dashboard work; and because the register sees of a connection
only the list it promotes, two requests overlap while no decision is pending or told, and with
decisions about there is one scan at a time. Nothing is scanned or repeated once an overtaken page
has had its effect (`mistaken`): by then the scan and the repetition that lead to it have happened.
A decision waits for its repetition only while the log has room for it. Two lists beside the
starting one bring findings, take them away and reorder them. Three log entries per process are two
changes; the restart comes at any point between. *Providers*: the work of the parts is bounded by
`MCBudgets`, of which one holds in a behaviour: a remediation among two changes of others, or with
two calls of the agent; an agent's two calls with a change between; three calls (two previews and a
confirmation); two fan-outs with a change. Each meets what it can interfere with; a remediation and
a fan-out share nothing but listing. The batch of two makes two batches of the three rows of one
system, and two attempts one repetition. The two sets that make one row are the case in which
storing raises.

Interchangeable deliveries and requests are a symmetry of the safety runs; the liveness runs do
without. Deadlock is not checked, because every instance comes to an end: its deliveries return, its
scripts are written, its clicks are handled, its bounds are reached.

**Fairness.** `Executor!FairSpec` lets every delivery that was started take its next step: `execute`
is one synchronous function, each call of which returns or raises (the AWS clients have timeouts).
Crashes are not part of the liveness run, since a crashed process leaves its lock pending until the
ttl; nor are faults of DynamoDB, for the reason given in section 6. `ApprovalBroker!FairSpec` lets
Step Functions take the next step of an execution and end a wait whose limit passed.
`Providers!Spec` lets a remediation, a tool call and a run that have begun make their next request
(`AdapterStep`, `OnboardingStep`, `GraphStep`): each is a synchronous function whose requests have
timeouts, so that they are answered, refused or lost. No fairness is assumed of people, faults,
expiry, rollbacks or of an answer's coming.

**Properties.** Each is stated in words above its definition, with what it does not claim.
`OnlyReturnsWhatItTook` and `NeverHeals` are about steps: the first says that the executor grants an
entitlement only if an apply or an administrator had taken it away (that it undoes the latter too is
in section 5), the second that adding records does not repair a chain. `NeverNeither` relates the
lock to the live entitlement after every way a delivery can stop once apply was entered.
`DecisionSurvives` relates what a browser was told to the store and to all processes;
`OnlyOvertakenVerifies` relates what is verified to what somebody saw when he approved, and
`RepeatIsHarmless` says of a repeated decision that findings and plan are as after the first attempt
(the log has a second entry, and a proposal to keep a finding is made twice). `OrderDoesNotMatter`
compares each built plan with those of all other lists of the same rights; `SuccessIsTrue` relates a
report to the world at the moment it is made, and `RestoredIsExact` to the world as it was listed.
`GrantsWerePreviewed` takes it that an agent knows the hash of a plan from a preview: the tool
compares hashes and keeps no previews, so that an agent that computes one is served too.
`RunIsRecorded` excepts the runs that a failing write aborts: they leave no record.

## 4. Proofs

All results hold for every value of the constants that satisfies the `ASSUME` of the module (which
only says what kind of thing each constant is), and the extra assumptions named here.

| Theorem | Says | Extra assumptions |
|---|---|---|
| `ExecutorTypeOK` | `TypeOK` | none |
| `ExecutorLeaseExclusive` | one delivery at a time under a lock | none |
| `ExecutorAppliesOnce` | one mutation per action | no expiry |
| `ExecutorReversible` | what was removed has its pre-image and record | no expiry, one plan per hash |
| `ExecutorOnlyReturnsWhatItTook` | what the executor grants, an apply or an administrator had taken away | none |
| `ExecutorAuditTellsTheTruth` | the trail claims only what is gone, and all that was reported | only deliveries move entitlements, jobs about different rights |
| `ExecutorNeverNeither` | an entered apply ends done or undone, and its lock says which | the same, one fault, no crash or expiry |
| `AuditTypeOK` | `TypeOK` | a listing names stored objects |
| `AuditNeverHeals` | writing on never repairs a chain | a listing names stored objects |
| `AuditDamageConfined` | one record per writer on a broken chain | a listing names all objects |
| `AuditSealedBySuccessor` | a verifying chain seals records with successors | a listing names stored objects |
| `AuditChainVerifies` | the chain verifies | one writer, numbers in order, complete listings, no tampering |
| `AuditImplementsLog` | refinement of `AppendOnlyLog` | the same |
| `BrokerTypeOK` | `TypeOK` | none |
| `BrokerAnswerWasRecorded` | an answer counts after its record | none |
| `BrokerToldIsTaken` | one click is told | none |
| `BrokerSuccessIsRecorded` | a success left a record of whether it acted | none |
| `RiskInRange` | four factors on the scale make a score on the scale | weights are not negative |
| `RemediationWorseIsNotLower` | a worse entitlement is not in a lower tier | weights are not negative |
| `RemediationTypeOK` | `TypeOK`; one replanning a decision | none |
| `RemediationNeverWidens` | no plan widens access after any reductions | none |
| `RemediationOneActionChanges` | a reduction leaves the other actions alone | none |
| `RemediationKeysAreItsOwn` | the keys of a plan are its own and differ | none |
| `RemediationRefusedAgainIsHarmless` | a refused reduction may be repeated | none |
| `RemediationAutomaticIsSafe` | tier 1 spares whom the identity record protects | none |
| `RemediationOrderDoesNotMatter` | a plan's hash does not depend on the order of the listing | none |
| `RegisterTypeOK` | every register has what its list calls for | none |
| `RegisterVerified` | what is verified was seen and approved, or reached from an overtaken page | none |
| `RegisterOnlyOvertaken` | only an overtaken request revives a configuration | none |
| `RegisterRepeatIsHarmless` | a repeated decision does no more than the first | none |
| `RegisterDecisionSurvives` | what a browser was told survives | one durable process |
| `TypeCorrect` | `TypeOK` of `Providers` | none |
| `Truth` | an adapter reports the truth | none |
| `Exact` | a restore gives back the very permission | none |
| `Previewed` | onboarding grants what was previewed, where it was | none |
| `Complete` | an onboarding that succeeded granted all of its plan | none |
| `Fresh` | what is recorded as fresh can be found | none |

*Executor.* `LeaseExclusive` is not inductive: the lock of a delivery that works must be present,
or a second one could claim it. `LeaseInv` adds that. For one mutation, `OnceInv` adds what rules a
second out: once an action was applied its lock is never absent again (release is only reached
before apply) and no delivery of it still stands before apply. For reversibility, `ReversibleInv`
adds that a delivery past the recording step has its job in `actions`, that at the dry run and at
apply the stored pre-image is the target it read (with one plan per hash nobody overwrites either),
and that what was removed belongs to an applied action. The assumptions are needed: with two plans
of one hash TLC finds `Reversible` violated (section 5), and an expired lock lets an action be
applied again.

*What becomes of an action* (`ExecutorOutcomeProofs`). `OnlyReturnsWhatItTook` looks at one step;
`KnownInv` says what the steps that grant know: the target of a delivery, a stored pre-image and
what a rollback read are live, or an apply took them, or an administrator did (`OnceHeld`); so what
is not live and is granted back was taken (`Taken`) or withdrawn. Nothing is assumed of
administrators. For `AuditTellsTheTruth`, `TruthInv` says of a delivery that has its target that it
is the only holder the right may still have; that behind a look at the live state that found nothing
(`Finding`) the right is gone, and that elsewhere on the way (`Pursuit`), where a restore may still
come, the trail makes no claim about the job. Locks keep the others away from the right
(`LeaseInv`), so that no number of faults, crashes and expiries harms it. `OnlyDeliveries` names
what it needs, and TLC finds it violated without each part: administration from outside and a
requested rollback give back what a record calls gone (the second is its purpose), and so does the
automatic rollback of a second action on the same right.

`NeverNeither` promises more and needs more, which `OneFault` adds. In `OutcomeInv`, `Fate` says of
every program counter at or behind apply what holds of the right, the lock and the fault that is
still left, and `Alone` that at most one delivery of a job gets there (from `OnceInv`). Again each
part is needed: a second fault can hit the handler of the first and leave a revoked right under a
pending lock, and a crash or an expired item does the same. Duplicates, dry runs, refusals and any
number of deliveries, plans and actions are within.

*AuditChain.* `LinkInv` says that every hash a record or a writer refers to is of a call that has
finished, so that the hash of the next record is new; a record nothing refers to cannot repair a
chain (`NothingRepairs`). `OriginInv` says that an unaltered stored record is the only one its call
wrote. `SerialInv`, for one writer in order, says that what it read is still so when it puts. The
order of sequence numbers needs finite sets to have a last element; `Ordered` carries that as part
of the type invariant instead of an induction.

*ApprovalBroker.* The table has no way back to the wait (`AfterStaysAfter`, state by state), hence
an answered execution cannot be answered again (`AnswerInv`). `WorkInv` says of each state what an
execution in it knows and has recorded (`Known`): behind `MarkApproved` its document says that it
acts, behind an audit state the trail does, and only an execution that ended has executed. Without
that a success could not be told from one that skipped its record; `KnownStep` shows it for each of
the 25 states.

*Remediation.* Monotonicity of the tier follows from that of each factor and of the weighted sum,
for which the weights must not be negative; the code asks only that they are integers and sum to
100, and with a negative one the theorem is false. Plans narrow by `NarrowInv`: each action came of a
listed right and its target is below its scope in severity and in the sense of its constructor. The
accepted answers of a reduction are below the *original* scope, which `Narrowing` says of the first
target as well, so that any number of reductions keeps it. That keys differ needs different sequence
numbers: keys of numbers are a strict total order (`KeysOrdered`), in which two elements of a finite
set differ in how many precede them (`CountsDiffer`), used once for the findings and once for the
actions (`DetectedDiffer`, `PositionsDiffer`), so that rights listed twice get two numbers as well.
`KeyInv` carries numbers and keys through reductions, and says of a refused one that its action
stands where the rules put it, which is why it may be repeated. `SafeInv` ties each action of tier 1
to the listed right it came of.

That the order of a listing does not matter (`RemediationOrderDoesNotMatter`) takes no induction
over lists. Findings about one right of one holder are detected by falling score (`HigherFirst`), so
that a plan is in the order of place, scope, holder and score (`FullKey`, `PlanInOrder`); what is
equal in these becomes the same action (`SameKeySameAction`), whichever of the two is listed first.
Two plans with as many rows use the same numbers (`EveryNumber`, an injection between finite sets of
one size is onto), and the rows with one number have one key (`SameNumberSameKey`): if that of one
were smaller, more rows of the other listing would have to precede its row than do.

*Register.* `RegisterInv` joins `ConnectionInv` with what every register satisfies (`Whole`): a
stage for each listed finding, an action for each that calls for one, verified only what was
approved or reached from an overtaken page (`Accounted`). `InStep` says that what a request has read
is still stored unless it was overtaken, which is what `OnlyOvertakenRevives` needs; `OnItsWay` says
what a scan promotes. `RepeatIsHarmless` needs `Retriable`, that a pending repetition is of a
decision its register has already taken, and that deciding twice is deciding once (`DecidedTwice`).
`DecisionInv` strengthens `DecisionSurvives` by what a restart needs: that a told register comes
from a capture and that memory agrees with it. It holds for one durable process (`Alone`); with two,
`MCRegisterShared` is the counterexample.

*Providers.* The invariant of the adapters adds `SinceOK` (the touches a job remembers are no more
than were counted, and a place that nobody touched since is not deleted), that of onboarding
`PreviewsNameOrg`, that of the fan-out `Accounted`: what is listed is in the table, in the batch, or
still to do. For a complete onboarding, `CompleteInv` says of a call under way that each grant of
its plan stands, is still to be asked for, or was touched by somebody else: that takes the count of
its own changes (`Counted`), since the repetition of a lost request may change a place twice or find
it changed. `StoreOK` says that objects hold rows of the table, which no step deletes. Each part's
steps leave the others' invariants alone by lemmas on `world`, `touched` and `left`. The induction
over the rows of a batch is avoided by keeping them as sets.

*Only model-checked*: liveness (`LockSettles`, `EveryExecutionEnds`, `EveryCallEnds`,
`RunIsRecorded`), which is out of the prover's reach. Every invariant and every property of steps
that a passing run checks is proved.

## 5. Findings

1. **A timeout ends an execution without a record** (`broker/statemachine.py:161`). The `Catch`
   replaces the document, `TimeoutByTier` finds no tier. An answer replaces it too
   (`broker/handler.py:185`), so that `RecordDecision` fails and an approved request is not executed.
2. **A decision is lost to another instance** (`api.py:344`). Every instance stores its whole
   register and reads the stored one only when it starts. After two instances decided, the item holds
   what the second one knew.
3. **A real provider's right is never restored** (`executor/run.py:118`). The executor keeps the
   entitlement as its pre-image; the adapters of GitHub, AWS, Salesforce and GitHub Enterprise want
   the one their own `revoke` returned and reject the other before they ask anything. The fixtures
   accept both.

**Seen with the same models, not kept as runs.** Each is an instance to set in a `.cfg`:

- `RevokesTheSubject` (`executor/run.py:99`): `_target` compares the right and not the identity. If
  the identity of the finding lost the right and another one holds it, that one is revoked
  (`BothOnWiki` and one event `admin`, or `TwoRights`, `AboutBoth`, `AliceBob` and two).
- `DuplicateIsNoOp` (`executor/run.py:356`): a failed dry run is published, its audit write raises,
  the handler deletes the published lock, and a later delivery starts over although an earlier
  duplicate was told the result (three deliveries, one fault).
- `Reversible` with two plans of one hash (`executor/run.py:115`): they overwrite each other's
  pre-images.
- `UndoesOnlyItsOwn` (`executor/rollback.py:65`): a rollback restores every pre-image of the plan. If
  an action was recorded and never applied, and an administrator revoked its right by hand, the
  rollback grants it again (`MCExecutorDelivery.cfg` with this as `PROPERTY`).
- `VerifiedWasApproved` (`api.py:486`): `src/README.md:48` says "Approval actions require an explicit
  review decision". The browser sends the position of the finding on its page, a scan replaces the
  list (`api.py:574`), and the finding at that position now is verified, though nobody looked at it;
  a repetition after a lost answer does the same (`MCRegister.cfg` with this as `INVARIANT`).
- `OneRecordPerAction` (`executor/run.py:371`): if publishing fails after `completed` was audited, the
  handler audits again with the same number, which breaks the chain of the plan.
- `ChainVerifies` with `RollbackBetween` (`audit/writer.py:309`): a rollback takes the next number, so
  that the following forward action, which supplies its own, breaks the chain.
- `ProtectedNeverAutomatic` with `SignalsOf <- MCIncident` (`engine/tiers.py:80`): the tier policy has
  six signals, of which three keep a right of tier 1 from proceeding on its own.
- Two failing DynamoDB calls leave a revoked entitlement under a pending lock (`NeverNeither` holds
  for one fault only); two deliveries of one plan fork its chain; a chain longer than one listing
  page is refused; the newest record of a chain is not protected by anything.

Noticed while modelling, without a property: an accepted reduction is dropped by a rerun
(`api.py:470`); a decision an agent takes on Lambda is forgotten with its server (`mcp_lambda.py`);
the plan of a removal does not name the organization (`mcp_server.py:242`); runs of one hour
overwrite each other's objects (`graph/snapshot.py`); rows are never deleted (`graph/store.py:178`);
an older scan may replace a newer one (`api.py:554`); what a failed onboarding call granted stays
(`mcp_server.py:178`); weights may be negative (`engine/scoring.py:116`).

## 6. Limits and what is not modelled

- Errors of DynamoDB after the claim (`executor/idempotency.py:197-219`) leave the lock pending until
  its ttl. `LockSettles` is therefore checked without them; `NeverNeither` is checked with them.
- The heartbeat limit of 300 seconds ends every wait long before the 72 and 24 hours of the tier
  table, as nothing sends heartbeats; the model has both limits and no clock.
- In the deployed stack the executor and audit functions all have the Slack handler as their code
  (`src/backend/infra/lib/deadbolt-stack.ts:113`) and `AUDIT_BUCKET` is not set; the models are of the
  application code and not of that deployment.
- The MCP server checks a hash and decides in one process and one request at a time, so that nothing
  comes between them; what may come between is the preview and the confirmation, and is modelled.
- Dead code is not modelled: the answer 404 at `providers/github.py:506`, which the client turns into
  an error before, cannot be reached. The reads of one system's listing are one step, though they are
  several requests.
- Text, encodings, cryptography, presentation, cost and timing are left out.

*Not modelled*, and why:

- Identity resolution (`graph/identity.py`): one pure pass over a list of candidates; only its tests
  call it.
- Budget guard: one pass over one event; who keeps the thresholds it has notified of is not in the
  repository.
- Captures and contracts: frozen values and one sequential validation.
- Authentication: signature and time comparisons without protocol state.
- Telemetry, metrics and `/health`: nothing else depends on them.
- Command line and rehearsal: sequential scripts over the parts above.
- Infrastructure and browser are partly modelled: the Lambda timeout is the crash of `Executor`, the
  TypeScript state machine is compared in 2.3, the client's repetition is `Register!Repeat`; the rest
  is description and presentation.

## 7. What is left

1. Compositions: `Executor` with `AuditChain` (the records the executor writes on a shared chain) and
   `ApprovalBroker` with `Executor` (an approval delivered twice).
2. Proofs: the outcome of an action under a crash or a second fault, for which the promise has to
   be restated as what a later delivery or rollback may rely on.
3. Identity resolution as a pure operator against a reference definition.
