# A verification project for Chainmail

Chainmail lets cooperating agents act only through *governors*: processes that
check each proposed action against predeclared authority, record it, and hand
it to an execution boundary. Several governor processes may share one SQLite
database (a *deployment namespace*), and most of what can go wrong lies between
them: every governor call is a chain of store transactions that the calls of
sibling processes, crashes, restarts and failing writes separate. A governor may
also run without a database, behind a Unix socket, for many clients.

This directory holds TLA+ modules of that machinery, TLC configurations that
check them on small deployments, and TLAPS proofs for every value of the
constants. `PROJECT.json` maps each definition to the source lines it stands
for and lists the runs, the seeded faults, the findings, the hazards and the
theorems. Paths below are relative to the repository; `governor.py` etc. are in
`src/chainmail/`.

## 1. Inventory

| component | state | operations | correct when |
|---|---|---|---|
| Permissions and authority (`core.py`) | values | `covers`, `_match`, `can`, `has_budget`, `is_subset_of`, `reduce_to`, `clamp_to_ceiling`, `consume_budget` | a clamped or contained authority permits no more than its bound, in scope, ceiling and remaining count |
| Envelope and config (`envelope.py`, `config.py`) | frozen at start, with a fingerprint | validation | a mutation is noticed before any decision |
| Durable store (`persistence.py`) | replay tables, step counters, live authority, restrictions, audit, ledgers, row MACs | one method per transaction | claims are unique, budgets never negative, rows and ledgers agree, also when a statement fails |
| Governor lifecycle and authority resolution (`governor.py`) | step mirror, caches, quotas | `__init__`, `_effective_authority`, `clear_restriction` | restarting renews nothing; restrictions bind until they are over |
| Governor evaluation (`governor.py`) | locals of one `evaluate` | the steps (1)-(19) of `_evaluate_locked` | one execution per identifier, audited first, within budgets |
| Delegation (`governor.py`) | locals of one call | `register_delegation`, `revoke_delegation` | never above the ceiling, never more than the delegator has, audited first |
| In-memory governor (`governor.py`) | bounded caches, live authority, restrictions, intent graph | the same calls, without a store, re-entrant | what is forgotten is forgotten only for want of room; no unit is spent by two threads |
| Rollback checkpoint (`persistence.py`) | `seq` in the file, an external high-water mark | `_check_rollback_checkpoint`, `advance_checkpoint` | a file older than an acknowledged mark is refused, a crash is not taken for one |
| Hash-chained log (`persistence.py`) | an append-only file of several processes, each with a copy | `append`, `load`, `verify` | honest writers never fork the chain; damage stops further appends |
| Restriction and init ledgers (`persistence.py`) | append-only tables beside the rows | append, cross-check on reading | a missing row is noticed; what raises the alarm without tampering has a known cause |
| Intent graph, embeddings (`intent.py`, `embeddings.py`) | bounded history of decisions | `record`, re-entry gate, signals | context can only tighten; a refused action comes back reworded only below the re-entry threshold or once the refusal is forgotten |
| Quorum (`quorum.py`) | none | `aggregate` | disagreement escalates, caution never helps an action through |
| Signatures, keys (`crypto.py`) | key registry | `add_key`, `revoke`, `rotate`, `resolve`, verify | a revoked key stays revoked, a kid never changes hands |
| Governor service (`service/`) | connections, semaphore, sessions | framed request and response, authentication, `stop` | an answer belongs to its request; slots are given back; a caller acts as itself, whichever thread's frame comes first |
| Execution boundary (`execution_boundary.py`) | none | `execute` | (external: it may act, refuse, raise, or evaluate, delegate or revoke in turn) |
| Evaluation harness, builders, redaction, tracing, `legacy/` | none that decisions depend on | | |

**Interactions.** A caller submits a proposal to one governor. The governor holds
its RLock for the whole call, so a process serves one call at a time; different
processes share only the store. Evaluation calls the store a dozen times, asks peers
(quorum) and then the execution boundary; delegation calls it up to four times. The
RLock lets a boundary evaluate, delegate and revoke on the governor that called it.
In front of a governor the service runs one thread per connection, and the threads
of a client process share one socket. Operators clear restrictions, revoke
delegations, change keys, stop and restart processes, and copy or restore the
database file.

**What is hard.** Steps of two governors in any order; a value read in one
transaction and used in a later one; crashes between a claim, a spent unit, the
side effect and the audit record; a failed store call at each of those places,
and the transaction a failed statement leaves open; restrictions that expire
while they are being judged or cleared; an older copy of the file put back; a log
line half written; caches that forget; calls within calls; answers that come
after the time-out. The full list, with lines, is under `hazards` in
`PROJECT.json`.

## 2. Modules

```
Authority          permissions and authorities (pure operators)
  SqliteStore      the shared tables, one action per transaction
    Governor       calls, crash/restart, authority resolution, clearing
      Evaluate     evaluate(), one action per store or external call
      Delegate     register_delegation(), revoke_delegation()
        Fleet      the deployment: both of them, n governors; the properties
          MCFleet  small deployments for TLC
ExecutionLedger    abstract: identifiers claimed, then executed at most once
BudgetAccount      abstract: units of a budget taken, then used at most once

SqliteTxn          the statements behind the store's methods  (MCTxn)
RollbackCheckpoint the file's sequence number and the external mark (MCRollback)
HashChain          the audit log file and its writers
AppendOnlyLog      abstract: what a log promises its readers

WeightedVotes      the quorum's aggregation (pure operators)
  MemoryGovernor   the governor without a store, its keys and intent graph
    Service        clients, server and connections in front of it (MCService)

FleetProofs <- TableProofs  <- BudgetProofs
            <- ReplayProofs <-
RollbackProofs, TxnProofs, ChainProofs, ServiceProofs
```

**Authority** translates the methods of `core.py` with their sort keys and
defaults: `Match` is `_match` (bounded before unbounded, smaller ceiling first,
then the scope, where `*` sorts first), `Contained` is the loop body of
`is_subset_of`, `ClampToCeiling` keeps only what the ceiling covers and cuts
budget and remaining count, `Merge` is the union in `register_delegation`,
`EffectiveAuthority` removes every permission that *covers* a restricted one.

**SqliteStore** has one variable per table and one action per method. A method
is one transaction, therefore one step. A row of `live_authority` carries a
ghost `epoch`, which tells two grants of the same permission apart.

**Governor** gives each process a program counter `pc[g]` (the store call it
makes next) and `loc[g]` (the locals of the call it serves). `down` is a stopped
process, `boot` and `seed` are `__init__`, `idle` waits for a call.
`_effective_authority` is a subroutine of three callers (`loc.stage`): `base`
reads rows, `restr` reads restrictions, `expire` marks the expired ones, one
store call each and each allowed to fail without changing the decision.
`Crash` loses everything a process keeps in memory.

**Evaluate** follows `_evaluate_locked`:

| pc | code | action |
|---|---|---|
| idle | (1)-(5) envelope, structure, agent, allow-list, signature | `Submit` |
| nonce, pid | (6) claims | `EvalClaimNonce`, `EvalClaimProposalId` |
| fleet, agent | (7) step budgets, (8) schema, (9) denials | `EvalCountFleet`, `EvalCountAgent` |
| live, base, restr, expire | (10) authority, (11) budget | `EvalReadLive`, `ReadBase`, `ReadRestrictions`, `ExpireOne` |
| gate | (10)-(13) decision | `EvalGate` |
| started, quorum | (14) audit, (15) peers | `EvalAuditStarted`, `EvalQuorum` |
| base ... spend, consume | (15b) fresh look, the durable unit | `ReadBase` ..., `EvalResolve`, `EvalConsume` |
| run | (16) execution boundary | `EvalExecute` |
| impose | (18) restriction | `EvalImpose` |
| completed | (19) audit, result | `EvalAuditCompleted` |

`EvalStoreFails` is `sqlite3.Error` at each of them: before the audit-started
record it denies, after it the decision becomes HUMAN and the call completes.

**Delegate** is `offer` (role map, containment, clamp), `current` (merge),
`audit`, `publish`; **Fleet** composes everything, states the properties and
instantiates the two abstract specifications. For **BudgetAccount**, an account is
the metered rows of an agent, a spender a governor, the unit in its hand the charge
of its call while it is at the boundary (pc `run`), and `paid` the charges of what
was executed.

**SqliteTxn** goes one level down: each connection's implicit transaction with
its snapshot, SQLite's one-writer rule, and every method as the sequence of its
statements (`Statements`). A statement that raises leaves the transaction open
unless the method rolls back; whatever operation of the connection commits next
commits the leftovers. `impose`, `expire` and `clear` write the row, its event and
its ledger entry; `consume` and `count` update a row and then, in a statement of
its own, its MAC. `db.unsealed` holds the rows whose MAC is not the one of what
they hold, and `SealSelect` is the check of `get_live_authority_rows` and
`increment_step_counter`. `FirstSelect` and `SecondSelect` are the two SELECTs of
`active_restrictions` and of `is_authority_initialized`.

**RollbackCheckpoint** separates the reads and writes of the two marks:
`OpenRead`, `OpenCompare`, `OpenHeal` are `_check_rollback_checkpoint`;
`SelectSeq`, `BumpSeq`, `PushSeq` are `advance_checkpoint`, whose lock covers the
first two and is shared by the threads of one process only. `Close` takes that
lock, so a thread that already pushes goes on pushing (`orphan`); `Crash` ends the
process with its threads. `Backup` and `Restore` are the operator.

**HashChain** is `HashChainLog`: `LockAndRead`, `BeginLine`, `EndLine`,
`Reflect` are `append` with the flock held from the first to the third. A line
of the file is whole, lacks its newline, is cut off, or holds two texts. A
failed flush releases the flock and leaves the rest of the text in the handle's
buffer, which `CloseFlush` may write once more. **AppendOnlyLog** is the promise.

**MemoryGovernor** has one action per way through `evaluate` up to the boundary
(`Unheeded`, `Denied`, `Refused`, `Executing`) and one for the way back
(`Executed`); `stack` holds the executions under way on the thread that has the
RLock. `Delegate` and `RevokeDelegation` may come from such an execution, too: the
code then takes the unit from the `Authority` object it had looked up, whoever the
agent's is by now, which `published.since` tells. `Reenters` is `reentry_risk`:
likeness times the confidence the proposal states, against the two thresholds.
`Remember` is the LRU of the replay caches, `intent` the intent graph, `Operator`
changes the key registry at any time.

**Service** is `GovernorClient` (`Connect` publishes the socket, `SendToken` and
`JoinFails` are the rest of `connect`, and in between other threads see the socket
already; `Call`, `Receive`, `Lost`, `Close`:
the lock of `_roundtrip`, the ids nobody compares), the accept loop (`Accept`,
`AcceptFails`, `ThreadFails`, `StopListening`) and `_serve_conn` (`Authenticate`,
one action per request, `GivesUp`), with the governor behind it. `Nested` and
`NestedGrants` are what a boundary does to it.

### Abstractions

* A proposal is `admissible` (steps 1-5) and `lawful` (8-9) or not; payloads,
  schemas and fingerprints are behind those two.
* The contextual verdict (13) may be anything, except that the in-memory governor
  has its re-entry gate: the score is a fixed table `Similarity` of topics times the
  confidence of the proposal, in per cent, against `reentry_high` and
  `reentry_medium`. The table is fixed as with a pretrained engine;
  `TfidfEmbeddingEngine` is refitted every `embedding_refit_interval` evaluations
  (`governor.py:661-677`), after which a fragment may be less like a refusal. In the
  fleet the quorum's verdict is a free choice; in front of the in-memory governor it
  is `Aggregate` of any ballot. The boundary may act and then raise.
* With a store the local replay caches never evict: they only save a query. The
  in-memory governor's do.
* The audit tables are one set; a write of an audit sink is one step.
* Restrictions are judged when the list is read; the code judges each row when
  it reaches it in the loop, a little later.
* In the fleet, store methods are atomic also when they fail, and an offer holds
  at most one permission per (name, scope). SqliteTxn has what happens otherwise.
* Nobody edits the tables or the log. A MAC that is inserted with its row always
  matches, then; those of live authority and step counters, which are updated after
  their row, are shown in SqliteTxn as matching or not. In the fleet no tamper check
  fires.
* Step-based restrictions belong to development configurations: `production_mode`
  refuses TTL_STEPS at start-up. The reason it gives is not what the code does any
  more (see *Findings*): siblings judge by mirrors of one durable counter.
* A HashChainLog without a file is a list of one process, and not modelled;
  blank lines are skipped by the readers, and not shown.
* Frames arrive whole and in order; the connections are enough and a client
  connects again only when it has no socket. Validity windows of keys and the
  cryptography are not modelled. A `snapshot` request is served like a ping.

## 3. Runs

| run | instance | properties |
|---|---|---|
| `fleet_replay` | 2 governors; three proposals, two of them sharing a nonce and two an id; quorum, wall-clock restrictions, failing store, 1 crash; two budget units | `TypeOK`, `NonceExecutesOnce`, `ProposalIdExecutesOnce`, `ExecutedIsAudited`, `RestrictionBinds`, `LedgerSpec`, `RestartKeepsAuthority`, `RestrictionsOneWay` |
| `fleet_delegate` | 2 governors, 2 agents; a replacing offer above the ceiling, a merge, a grant back, revocations; two proposals for one unit; siblings still booting | `WithinCeiling`, `GrantNotOverspent`, `PublishedIsAudited`, `AccountSpec` |
| `fleet_quota` | 2 governors, one under STEP_BUDGET and one under TTL_STEPS; four unsigned proposals, 3 fleet steps, a wildcard beside the restricted permission | `StepBudgetsBound`, `RestrictionBinds`, `ExpiryIsEarned`, `QuotaEscalates` |
| `fleet_progress` | 2 governors; a good, an inadmissible and an unlawful proposal, a merge, failing store, expiring restrictions; fairness | `CallsReturn` |
| `rollback_threads` | 1 process, 2 threads, up to 4 bumps | `NeverServesOlder`, `RefusedOnlyAfterRestore`, `HealedAtOpen` |
| `hash_chain` | 2 processes, 4 records, failed writes, late flushes, crashes | `OnlyLateRecordsBreak`, `OneWriterOutrunsDamage`, `ViewMatchesFile`, `LogSpec` |
| `store_txn` | 2 connections, 5 calls of any operation, any statement may raise, crashes | `LedgerIsChained`, `CommittedStays`, `ImposeIsWhole`, `OnlyFailuresStayOpen`, `RowsAreWhole`, `AlarmIsExplained` |
| `service` | 2 threads on one or two clients, 3 connections, 2 slots; a governor with caches of one nonce and two ids, one intent entry; boundaries that evaluate, delegate and revoke; six workloads | `TypeOK`, `AnswersBelong`, `SlotsConserved`, `OneMoreAfterStop`, `ReplayNeedsEviction`, `OverrunIsNested`, `RefusalSticks`, `RestrictionLasts`, `RevocationIsFinal`, `GrantsAreEntitled` |

Four more runs end in a counterexample (`fleet_renewal`, `fleet_merge_race`,
`rollback_backwards`, `store_alarm`); see *Findings*.

**What the properties say.**

* *Replay* (`NonceExecutesOnce`, `ProposalIdExecutesOnce`, `LedgerSpec`). Two
  governors with empty caches, a retry after a crash between claim and execution,
  a caller that reuses one identifier under another: an identifier reaches the
  outside world at most once. `ExecutionLedger` is the promise on its own: claim,
  then execute at most once, in a history no process can lose. Without a store
  (`ReplayNeedsEviction`) a nonce comes back, within the lifetime of one process,
  only after `max_seen_nonces` others; a restart forgets all of them, as the
  governor's own report says (`governor.py:270-276`).
* *Budgets* (`GrantNotOverspent`, `AccountSpec`, `RestartKeepsAuthority`,
  `StepBudgetsBound`). Several governors see the same remaining unit and pass step
  (11); the conditional UPDATE decides. A grant is one publication of a permission;
  what it paid for never exceeds its ceiling, a restart or a stale
  `is_authority_initialized` answer renews nothing. `BudgetAccount` says the same
  step by step: a unit leaves its row, by its number, before the one action it pays
  for; a boundary that refuses, or raises after it has acted, brings no unit back
  and none pays twice; only a grant writes an account, all of it. In memory the unit
  is taken after the boundary, so a boundary that evaluates can overrun it, and
  nothing else can, though boundaries delegate and revoke meanwhile
  (`OverrunIsNested`).
* *Order* (`ExecutedIsAudited`, `PublishedIsAudited`): nothing runs, and no
  delegation is published, before its record is durable.
* *Ceiling* (`WithinCeiling`): after any chain of delegations, merges, returns and
  revocations each permission of an agent lies within some permission of its
  ceiling, which is what `clamp_to_ceiling` and `is_subset_of` define. It is said
  of each row by itself: two rows under one wildcard ceiling may add up to more,
  which the repository lists as not covered (`README.md:548-550`).
* *Restrictions* (`RestrictionBinds`, `ExpiryIsEarned`, `RestrictionsOneWay`,
  `RestrictionLasts`, `RefusalSticks`). A restriction that was there before the
  governor's final look and is in force when the boundary is called keeps the
  permission from running, a wildcard included; it becomes EXPIRED only when its
  term is over for the whole fleet, though each governor judges by its own
  mirror; EXPIRED and CLEARED are final. In memory a term is that many
  evaluations, and a refused action comes back under other words only when the
  bounded intent graph has forgotten the refusal, or when its confidence times its
  likeness stays below `reentry_medium`: a proposal that states a confidence a
  little above `low_confidence_max` is let by.
* *Quota* (`QuotaEscalates`): a used-up quota ends in a HUMAN decision.
* *Liveness* (`CallsReturn`): every call ends.
* *Rollback*: a file older than the last mark whose `advance_checkpoint` returned on
  an open store is refused, whatever crashes, and pushes lost or late, came in
  between (`NeverServesOlder`; a bump whose push was lost is not protected before
  the file is opened again), nothing else is (`RefusedOnlyAfterRestore`), an
  opened store has caught up the mark (`HealedAtOpen`).
* *Store*: the ledger is one chain whatever fails (`LedgerIsChained`), no commit
  takes back what another has committed (`CommittedStays`), a restriction is imposed
  with its event and its ledger entry or not at all (`ImposeIsWhole`), and each
  oddity a process can meet has one of two causes: a call that failed midway, or a
  sibling's commit between two SELECTs (`OnlyFailuresStayOpen`, `RowsAreWhole`,
  `AlarmIsExplained`).
* *Log*: writers never fork the chain but through a text flushed after the lock
  was gone (`OnlyLateRecordsBreak`), damage stops every further append but one
  under way (`OneWriterOutrunsDamage`), no log in memory claims a history a
  verified file does not have (`ViewMatchesFile`), and the records before the
  first damage only ever grow at their end (`LogSpec`).
* *Service*: ids are drawn and compared nowhere, yet a call gets another's answer
  only where one has timed out before (`AnswersBelong`), also while a thread
  connects and its token is not yet the first frame; slots come back on every path
  (`SlotsConserved`); `stop` lets each connection serve one more request
  (`OneMoreAfterStop`); authority changes only by a boundary or at the word of the
  client whose frame is dispatched, by the token it owns (`GrantsAreEntitled`);
  revoked keys stay so (`RevocationIsFinal`).

**Bounds.** Replay and budget races are between two holders of one identifier or
unit, so two governors and two or three proposals reach every conflict; a third
would repeat one of the two. `MaxCrashes = 1` puts the crash at every point of
every call, with the restart after it. `MaxEpoch` stops new delegations and
revocations (two epochs go to seeding two agents; calls already started still
finish); proposals run out because their identifiers are used up, or, without
dedupe, because their nonces are. `MaxSeq` bounds the bumps: with four, a backup,
a restore and the bumps that follow it fit. `MaxFleetSteps = 3` with four
proposals is where only the fleet's budget binds; the agent's budget is one
above it. `MaxRecords = 4`: one record damages the file or is flushed late, and
two writers that had read before it come behind. `MaxCalls = 5`: a call that
fails midway, the sibling's, the one that commits the leftovers, a reader, and one
to prepare the row or the restriction they are about; a row starts with two units.
`store_alarm` needs two.

The state of the service with everything at once is out of reach, so a behaviour
picks a *workload*: who calls, how often, with which requests, and what else may
happen. In front of the governor: `Sharing` has two threads of one client, of which
either connects, calls or closes while the other does; `Stopping` two clients and
`stop`; `Rotation` signed proposals while an operator adds, revokes and rotates two
keys. Behind: `Nesting` one client whose boundary goes on to evaluate,
two deep, four evaluations of which the fourth is out of steps, with verdicts that
send back and restrict; `Granting` one whose boundary also delegates and revokes;
`Rivals` one that times out, connects again and asks for the same unit while its
first request still runs. Caches of one nonce, two ids and one intent entry
overflow within them. One proposal has a confidence so low that its likeness
is not held against it (40 of 100), the others 90; likeness is 100 or 50, against
thresholds of 70 and 45, so that each level is reached.

**Symmetry** is used in runs of safety and action properties only (`fleet_delegate`,
`fleet_quota`, and `store_txn`, whose connections are alike): governors are
interchangeable where their policies agree, and so are proposals that differ by
their identifiers alone. It permutes model values that no operator orders or chooses
by.

**Deadlock** is checked in the fleet and checkpoint runs: an idle governor can
always be called, a closed store opened. In `hash_chain`, `store_txn` and
`service` the bounds on records and calls let the system stop.

**Fairness.** `FairSpec` assumes weak fairness of `Serves(g)`, the steps a
governor takes by itself once it has been called: the code runs straight through
`_evaluate_locked` and `register_delegation`, so a process that is not stopped
takes its next step. It covers the boundary and the quorum, which have to answer
(a hanging boundary hangs the call: the code has no timeout there). Nothing is
assumed of callers, operators, the clock, failures, crashes or restarts.

**Seeded faults.** Each property of a passing run is paired with a fault a
plausible bug would be: an operator before its target, commented `seeded
fault`. Replacing the target by it makes TLC find that property violated, so no
property holds merely by the shape of the model. They are used nowhere else.

## 4. Proofs

All checked by `tlapm`; constants are constrained only by the named `ASSUME`s of
the modules, which TLC evaluates in the runs.

Every safety and action property that a passing run checks is also proved.

* **FleetProofs**: `Match` returns a candidate when there is one; `ClampIsWithin`:
  whatever `ClampToCeiling` returns lies within the ceiling; and `Shape`, an
  inductive invariant of control alone: which calls may be at which `pc`, and that
  their locals are of the right kind. All other proofs of the fleet use it.
* **TableProofs**: `CeilingHolds`, `Spec => []WithinCeiling`. The invariant
  adds what is in transit: the grant of every delegation between the clamp and
  its publication lies within the recipient's ceiling, also after a merge with
  rows that were read earlier. `TypesHold`; `RestrictionsStay`, `ExpiredWhenOver`
  (a mirror never runs ahead of the fleet's counter, which never runs back), and
  `RestrictedNotExecuted`: between the final look and the boundary an evaluation
  is judged, by every restriction that was there when it looked (`loc.floor`) and
  is still in force, and the authority it goes on with covers none of them.
* **ReplayProofs**: `ReplaySafety` and `ProposalIdSafety`. Neither property is
  inductive: nothing in them says why a *second* governor cannot be about to
  execute. The strengthening is about possession: from claim to boundary exactly
  one governor holds an identifier (`HeldNonces`, `HeldIds`), a held one has not
  been executed, and an executed one is claimed. Only claims create possession,
  only the boundary uses it up; all other actions are shown *quiet* by one lemma
  per module. From the same invariant `FleetImplementsLedger`: if every proposal
  has a nonce, each step of the fleet is a step of `ExecutionLedger` or a
  stutter. `RecordedBeforeExecuted` and `RecordedBeforePublished` follow from
  `AuditInv`: behind its audit write, a call's record is in the table.
* **BudgetProofs**: `BudgetsShrink` and `RestartRenewsNothing` from what each
  action may do to a row. `GrantsBound` is about *tickets*: the remaining count a
  governor's UPDATE found is the ticket of the one execution it may make; a row
  hands out only tickets above its own count, so no two holders or executions of
  one grant have the same one, and there are `max_budget`. `FleetImplementsAccount`:
  each step of the fleet is a grant, a taking, a payment or a loss of BudgetAccount, or
  a stutter. Only a seeding, a publication or a revocation writes rows (`Regranted`) and
  only `EvalConsume` puts a unit into a hand; what leaves a hand leaves it at the
  boundary or in a crash (`HandsKept`, `OnlyBoundaryRuns`). `StepsBound`: the
  fleet's counter numbers the evaluations, and none with a number above the
  budget passes; an agent's counter is at least what it has under way and done.
  `QuotasEscalate`: two actions and a crash change a quota.
* **RollbackProofs**: `RollbackDetected`, `NoFalseAlarm`, `OpeningHeals` and
  `CheckpointTypes`, all under `OneOwner`: one process opens the file, with any
  number of threads. The invariant orders the marks, `acked <= external <= high`,
  ties the file to `high` unless an older copy was restored, and says what the
  lock gives a thread between SELECT and UPSERT. Without `OneOwner` detection and
  the absence of false alarms both fail.
* **TxnProofs**, for any number of connections, restrictions, claims and offers. All
  of it rests on `Locks`: at most one connection writes, a snapshot that is not
  marked as overtaken is what is committed, and so the database a writer is about to
  commit extends the committed one (`CommittedWorkStays`). `LedgerStaysChained` and
  `ImposeStaysWhole` say of every open transaction what it will have to be when it
  ends: its ledger is chained (`Chained`), and restrictions, events and ledger agree
  but for the statements its call has still to run (`Imposed`). `FailuresStayOpen`,
  `RowsStayWhole` and `AlarmsAreExplained` follow the two causes a property may
  name: `partial` is raised where a call fails between its writes, and without it
  what is committed is whole (`Listed`, `Filled`); `mixed` where a sibling commits
  between two SELECTs; without either a reader's two answers are of one state
  (`Seeing`), and no row or counter is committed with a MAC that is not its own
  (`Stamped`).
* **ChainProofs**, for any number of processes and records. A step of a process leaves
  the file alone, adds a line behind one that is ended, or turns the last line, which
  is not, into another (`MovesAre`). `Places` says where a record under way can stand:
  nowhere until its text has begun, then on the last line, cut off. With `Tails`, what
  a writer will name as its predecessor is what it stands behind, or a line that is
  damaged or late: `ChainNeverForks`. `Outrun` counts the appends that came to their
  end behind a damaged line, one at most, and none while a writer holds the flock:
  `ChainFailsClosed`. `Views`: until the file is *spoiled* (a wrong link, or two texts
  on a line) every log in memory is what the file begins with, and a writer knows the
  number of its line; a file once spoiled never verifies again: `ChainViews`.
  `ChainImplementsLog`: each step adds at most one record to the whole ones at the
  front (`CutPut`), so the file implements AppendOnlyLog.
* **ServiceProofs**: of the quorum, `CautionNeverHelps` (for any weights and
  threshold, moving weight towards HUMAN never turns an outcome into CONTINUE)
  and `StrictIsUnanimous`. Of the service, for any numbers of threads, clients,
  connections and slots: `OnlyLateAnswersCross`, whose invariant `Pairs` says that
  on a connection where no call has timed out at most one call waits, and for the
  one frame on its way, which is what the client's lock is for;
  `StopServesOneMore`; `SlotsAreConserved`, by counting serving threads;
  `GrantsNeedTitle`, whose invariant `Sessions` says that every token sent on a
  connection is that of the client which made it, and that a connection past its
  first frame serves whom that token stands for: a request ahead of the token is
  turned away;
  and `RevokedForGood`, for any key registry and whatever the operator does to it.
* Of the governor without a store, also in **ServiceProofs**, for any caches, caps,
  loads and depths of nesting. `Operates` lists the eight things a step of the
  service may do to the governor; each proof goes through them. `Cached`: the cache
  of nonces is the last `max_seen_nonces` claims in their order, and equal claims
  are further apart than that (`ReplaysNeedEviction`). `Caution`: the graph is the
  end of the history, a restriction whose step has not come is still listed, and
  every evaluation that runs or has run was *clean* when it was judged: no
  restriction of its agent in force, no refusal in reach that it comes back to with
  likeness and confidence enough. A nested evaluation is judged before, and written
  down behind, the one that started it, so the judgement has to be kept with the
  execution on the stack, by the step at which it was heard and the length of the
  history it looked at (`RefusalsStick`, `RestrictionsLast`). `Spent`: all
  executions under way are of one thread and heard in order (`OneThread`, `Timely`);
  what an agent ran by itself since it was last given units and what it has left are
  covered by those units (`Covered`), and so is, while it runs, the outermost
  execution, which takes its unit afterwards, if the Authority it was judged by is
  still the agent's (`OuterCovered`): `OverrunsAreNested`. `Typing` adds what the
  types of `service` need: bounds of caches, stack, expiries and authority
  (`Bounded`), that a client's lock is held by a caller that waits (`Holders`) and
  that a connection runs exactly while it is on the stack (`Runners`):
  `ServiceTypes`. Assumed: caps are numbers and at least one evaluation may run
  (`CapAssumption`); agents, proposals, kids and units are those of the instance
  (`ProposalAssumption`, `HandledAssumption`, `RequestAssumption`: with an unknown
  agent `register_delegation` refuses before anything changes).

**Model-checked only:** `CallsReturn`. Liveness under fairness is beyond the prover,
as are ENABLED and induction over data. The violations of section 5 are TLC's too.

## 5. Findings

* `fleet_renewal`: a delegation is *checked* with remaining counts but
  *published* as (name, scope, max_budget) only, and the store inserts
  `remaining = max_budget`. A delegator with 1 of 2 units left hands on 2. By the
  same call a merge refills what the recipient had already spent.
* `fleet_merge_race`: two processes merging into one recipient both succeed and
  one grant is lost: read and replace are separate transactions, the RLock is
  per process.
* `rollback_backwards`: two processes in `advance_checkpoint`: the SELECT is not
  in the UPSERT's transaction, the slower writes an older number, and every later
  open is refused. With two processes an *opening* store can also be refused
  without any restore: it reads the file before, and the mark after, a sibling's
  advance (`persistence.py:877-893`).
* `store_alarm`: `impose_restriction` commits between the two SELECTs of a sibling's
  `active_restrictions`, and `RowIntegrityError` is raised with nobody having
  touched the file, where the alarm's text and `docs/DURABILITY.md:131-143` say it
  means a change outside of the write API. `AlarmIsExplained` says when a false
  alarm can come, and that there is no other way.

Two disagreements appear in runs that pass:

* `fleet_quota`, `ExpiryIsEarned`: `production_mode` refuses TTL_STEPS because a
  governor's `step_count` is "neither durable nor shared across processes"
  (`governor.py:138-151`, repeated in `tests/test_crypto.py:228-231`), so that a
  sibling with a higher count could silently lift a restriction. The code seeds it
  from the fleet's durable counter and sets it to that counter at each evaluation
  (`governor.py:196-197`, `947-965`): it lags behind and never runs ahead, and no
  restriction is retired early (also proved: `ExpiredWhenOver`). The text is stale.
* `store_txn`, `AlarmIsExplained`: when the MAC UPDATE of `consume_permission_budget`
  raises, the transaction stays open, and the connection's next operation commits
  the decremented row with its old MAC; every later read of it raises the tamper
  alarm. The comment in the method (`persistence.py:1912-1918`) says that no
  concurrent consumer can observe such a row. The property allows for it by its
  cause `partial`.

Related, without a run of their own; where a property touches them, it allows for
them by a cause it names:

* When the audit-completed write fails (`governor.py:1270`), the caller is told HUMAN
  although the action was executed, where `persistence.py:14-15` says that an
  audit-write failure escalates "(escalate to HUMAN, do not execute)".
  `fleet_replay` has that failure: submitted again, the action does not run twice.
* The durable unit is spent at (15b), before the boundary at (16), so a refusing
  boundary leaves a HUMAN decision with the unit gone, where the repository's
  README (invariant 7) says units are consumed only on CONTINUE. A unit is lost
  that way, never gained.
* `replace_live_authority` that raises midway (a second permission of one key)
  leaves its transaction open, and the next commit of the connection publishes a
  part, where its docstring (`persistence.py:1860-1866`) says that a reader can
  never observe a mix (`RowsAreWhole`, cause `partial`).
* A `HashChainLog.append` whose flush raises releases the lock, and closing the
  handle writes the rest afterwards: a record whose append failed may land behind
  a sibling's and break the chain (`OnlyLateRecordsBreak`, cause `failed`). And
  `append` may raise after its record is durable, when the reload meets a
  sibling's half-written line.
* A client that has timed out leaves the answer in the socket for its next call
  (`AnswersBelong`, cause `late`).
* `stop` does not interrupt `read_frame`: one more request is served
  (`OneMoreAfterStop`).
* An oversized frame is refused by its header and its body would be read as
  frames; the client of the package refuses to send one (`protocol.py:39`).

## 6. Not modelled, and what is left

Not modelled: the cryptography (a library) and the validity windows of keys;
embeddings and the other contextual signals (numeric); frames in parts and
malformed requests; redaction, tracing, builders, the evaluation harness (no
protocol state); the superseded `legacy/` module; the bytes of MACs, and MACs that are
inserted with their row, which say nothing unless somebody edits the file; a
HashChainLog without a file.

Two hazards have no property. The delegator's authority is read before the
delegation is audited and published, and a sibling may spend or replace it
meanwhile (`governor.py:737`): the docstring promises containment at the moment of
the call only. An opening store compares what it read earlier with a mark a
sibling has advanced (`persistence.py:877`): with two processes the property is
false, with one it holds and is proved.

Worth adding next: merging, wall-clock restrictions and STEP_BUDGET in
MemoryGovernor; that the in-memory governor, seen from its nonces, implements a
window of the last `max_seen_nonces` claims.
