# Verification of incident_triage

TLA+ models of *incident_triage*: alert intake, event delivery, investigation
with its evidence and hypotheses, remediation and verification; the TLC
instances that check them, and TLAPS proofs, for every value of the constants,
of every safety property the passing instances check. Paths are relative to the
repository root. `PROJECT.json` maps every definition to its source lines.

## The system

Alerts are correlated into **incidents**. An incident is investigated by an
LLM-driven agent; a root cause becomes a **remediation** proposal, which a pure
policy judges, a human approves and a worker executes; a **verification** then
observes the environment and resolves, re-investigates or escalates. Services
share one PostgreSQL database and communicate by an outbox relayed to Redis
streams. All state changes are transactions of "core services" that take row
locks before they read; workers hold leases on rows.

| Component | State | Operations | What makes it hard |
|---|---|---|---|
| Alert intake `packages/incident/service.py` | alerts, open incident per correlation key, processed commands | receive, resolve | concurrent alerts of one service, idempotency races, natural recovery against the start of an investigation |
| Correlation `packages/domain/correlation_engine.py` | none | score candidates | pure |
| Investigation `packages/incident/investigations.py`, `packages/agents/engine.py` | investigation row, lease, steps, hypotheses | request, claim, record step, update hypotheses, complete, escalate, release | resumption after a crash, fencing, budgets, stopping criteria |
| Policy and catalog `packages/policy`, `packages/remediation/catalog.py` | none | evaluate | many rules, each on a different fact |
| Remediation core `packages/incident/remediations.py` | remediation, approval, execution attempts, lease, kill switches, incident status | propose, decide_approval, expire_approvals, cancel, revise, claim_execution, complete_execution, record_baseline, set_kill_switch | approvals, timeouts, cancellations, claims and completions in any order |
| Remediation worker `packages/remediation/runner.py`, `executor.py`, `apps/worker/remediation_main.py` | ticket, executor thread, idempotency record in Redis | run, reconcile, execute, sweep | crash at any point, lease takeover, orphan threads, effect and record not atomic |
| Verification `packages/incident/verifications.py`, `packages/domain/verification.py`, `packages/verification` | verification row, observations, lease, streak | start, claim_due, record_observation, due | superseded workers, deadline against late results, stale verdicts |
| Event delivery `apps/worker/main.py`, `packages/events` | outbox, streams, consumed events | relay, read, reclaim, dead-letter | duplicates, reordering, crash between handler and acknowledgement |
| Evidence `packages/evidence`, `packages/tools` | evidence records, references in incident-core | scope, collect, retry, persist, register, list | persisting and registering are two transactions; window limits; tool budgets |
| API, queries, telemetry, evaluation, dashboard | – | – | no logic that decides state |

Interactions: the investigation's completion event wakes the planner, which
calls `propose`; `RemediationApproved` wakes the runner; a successful
`complete_execution` creates the verification row in its own transaction and
`VerificationRequested` starts it; a failed verdict leaves the incident for the
investigation scheduler. Every event is only a hint: each worker also sweeps.

What correctness means, per component: *intake* – at most one open incident per
key, an alert linked once; *investigation* – one owner writes, attempts are
bounded, exactly one outcome; *remediation* – one live remediation per
incident, nothing runs unapproved, limits hold, settled is final; *worker* – no
double action, no false success, everything approved is settled;
*verification* – RESOLVED means verified, verdict from evidence, always a
verdict; *events* – nothing lost, duplicates harmless.

## Modules

| Module | Models |
|---|---|
| `PolicyEngine` | catalog entries, default policy, `evaluate` as the set of denying rules |
| `RemediationPlanner` | from cause and cited records to at most one proposal; supplies the planner's proposals of the instances |
| `IncidentLifecycle` | the incident's status: the edges each service owns, from the code, and beside them the edges `04-incident-state-machine.md` documents |
| `Remediation` | `RemediationCoreService` for one incident: one action per command |
| `RemediationRunner` | extends `Remediation` with workers, executor threads, idempotency records, deadlines and crashes |
| `Verification` | one verification, its workers, the alerts, the scheduler |
| `InvestigationTrace` | abstract specification of a trace: one writer that never dies answers each turn call by call |
| `Investigation` | one investigation: the agent loop of several workers over claim, fence, steps, completion and escalation |
| `Evidence` | the path of a query through scope, window, adapter, record and reference; tools; how far back each adapter reads |
| `Hypotheses` | extends `Evidence` with hypothesis updates and the acceptance of a conclusion |
| `EventDelivery` | outbox, relay, stream, consumer group, ledger, dead letters |
| `CorrelationEngine` | the correlation rules and their decision, weights in hundredths |
| `AlertIntake` | alert notifications of several requests under the advisory lock, natural recovery, the scheduler |
| `RemediationProofs` | theorems about `Remediation` |
| `RunnerProofs` | theorems about `RemediationRunner`, on top of `RemediationProofs` |
| `VerificationProofs` | theorems about `Verification` |
| `InvestigationProofs` | theorems about `Investigation`, its refinement of `InvestigationTrace` included |
| `HypothesesProofs` | theorems about `Hypotheses` and `Evidence` |
| `EventDeliveryProofs` | theorems about `EventDelivery` |
| `AlertIntakeProofs` | theorems about `AlertIntake` and `CorrelationEngine` |
| `MC...` | constants and symmetry of the instances |

An operator `Faulty_x` stands before `x` and is `x` with one plausible mistake;
no specification uses it. `PROJECT.json` ("mutants") names, for every checked
property, the mistake that breaks it.

**Remediation.** A remediation is its idempotency key; each database column is
a function of the key. A command that raises rolls back, so the action is not
enabled. `expire_approvals` is two actions because it is two transactions
(select, then lock and look again); `claim_execution` is three, by what it
returns: a reconcile ticket, nothing because something blocks, or an execute
ticket. Time appears as: a lease is live or not, a request has been selected as
expired or not. Callers are unconstrained: any owner may report any outcome.
Outbox rows, timelines and metrics are left out: nothing reads them back.
Other services move the incident freely along their own edges, which
over-approximates them. The run holds the incident's moves against the
documented edges, not against those collected from the code, and so the one
move that is not documented, the withdrawal of an approved remediation, is
named by `LeavesTheTableOnlyToWithdraw` and is a finding of its own.

**RemediationRunner.** `runner[w]` is the program counter and ticket of
`RemediationRunner.run`; `call[a]` is the executor thread of attempt `a`, a
process of its own that goes on after a timeout; `applied[a]` counts changes to
the environment (a history variable); `stored[a]` is the record under the
idempotency key. Changing the environment and storing the record are separate
steps, as in `executor.py`. `Crash` kills a worker with its threads; `Abandon`
is a run that raises (database or Redis away, or a deadlock abort). A claim may
come at any time (an event delivered again). `LeaseExpires` knows that the
lease of a running attempt outlives its deadline (`max(lease, timeout + 30)`).

**Verification.** A sample is one of the five outcomes `evaluate_sample` tells
apart (all hold; one fails; a state check fails; a source errored; both of the
last two). The alert check is evaluated when the observation is recorded, as in
the code. `newer_remediation` is a denied proposal during VERIFYING, whose row
makes the verdict stale.

**Investigation.** A worker keeps in memory what `_run` keeps: its position,
the decision it works through, the counters of its `ToolExecutor`. Everything
else is the row and its steps, and `Load` is the read at the top of the loop.
A call of a backend or of the model and the step that records it are one
action, since a crash in between leaves the same trace as a crash before.
`record_step` renews the lease, `apply_hypothesis_updates` and a rejected
`complete` do not; the fence compares the owner and not the expiry. Time and
token limits may end a run at any load. `decision` reads a turn once when it
is new and reads only the unanswered calls on resume, as `_resolve_pending`
does. Its calls are a set, `todo`; `processed_before` is the order in which
`_process` works through its lists. The property `ReadsAsOneRun` is the refinement
`INSTANCE InvestigationTrace WITH status <- status, trace <- trace`: whatever
crashes, takeovers and duplicate deliveries do, the trace is one that a single
worker could have written.

**Evidence and Hypotheses.** An observation is its operation, which fixes its
evidence type; an adapter is the set of errors it may raise. Records and
references are separate variables because `_persist` and `_register` are
separate transactions in separate schemas. `shown` is what the trace has
shown the model; only `shown` and registered ids are accessible. One action is
one update of a batch. A query carries its arguments; `Resolve` reads the clock
and turns them into the window its adapter is given, or refuses them, in minutes
and with the real limits; a retry is a new query with a later clock.
`oldest_read` is where each adapter starts reading, which is not always where
its window starts. Left out there: the range selectors inside a PromQL query
and the `sha` that `get_code_changes` takes instead of its window.

**EventDelivery.** An event is its outbox sequence number. Redis (streams,
pending entries, XAUTOCLAIM) is modelled from how `consumer.py` uses it. A
publish may fail before or after the entry exists; a relay or a consumer dies
between any two calls; a pending entry grows stale, under a live consumer only
as a fault (a consumer slower than `claim_min_idle_ms`). `given_up` is a history
variable: the events some pass of a relay gave up on after its last publish
attempt. An event's number is drawn when its row is flushed and the event is
visible when its transaction commits, so commits come in any order.

**AlertIntake.** A request is read in four steps: received (idempotency key),
locked, decided, committed or rolled back. Between them the scheduler and the
later services, which take no advisory lock, move incidents. `CorrelationEngine`
scores candidates with the rules' weights; labels are the ones rules compare.
`TemporalProximityRule` is modelled as it computes; its docstring
(`correlation_engine.py:142-144`) speaks of a decay within the window that the
code does not have.

## Runs

| Run | Instance | Shows |
|---|---|---|
| `remediation` | 3 keys, 1 owner, 2 humans, 1 service, the global switch, 2 proposals (planner's restart, operator's scaling by 3, tier 2) | consistency of incident and remediation, one live remediation, limits, approvals, finality, documented edges but for a withdrawal |
| `runner` | 1 remediation, 2 workers, 2 crashes or failed runs | no double action, acts only when approved and with a baseline, EXECUTED is true, only the latest attempt runs |
| `runner_live` | 1 remediation, 1 worker, 2 crashes | approvals are decided, approved remediations settle |
| `verification` | 2 workers, 2 alerts, streak of 2, 3 polls, 2 investigation attempts | RESOLVED means verified, fencing, verdict from evidence, finality, attempts bounded, a verdict always comes |
| `investigation` | 2 workers, 3 turns of 6 kinds, 2 tool calls, 1 fault | refinement of `InvestigationTrace`, only the latest claim writes, the limit on identical calls across restarts, every investigation ends |
| `hypotheses` | 1 caller, 3 operations (with a telemetry window, a change window, none), 3 instants, 3 records, 2 hypotheses | an accepted conclusion is grounded, links and final statuses are kept, windows fit the bounds |
| `event_delivery` | 2 events, 1 relay, 2 consumers, 2 deliveries, 2 faults | nothing is lost, duplicates need a fault, disorder on the stream has one of two causes, every event is settled |
| `alert_intake` | 2 concurrent requests, 3 notifications, 2 sources, 4 clock ticks | TRIAGING and CANCELLED agree with the alerts, commands apply once, a new incident is unrelated to the open ones |
| `unknown_is_reconciled`, `failure_is_taken_up`, `moves_only_as_documented`, `emission_order_kept` | smallest instances | disagreements between code and documents, below |

**Bounds.** Three keys are one more than `max_attempted_remediations_per_incident`,
so the limit is met and tested; two attempts per remediation come from the
catalog, and both a retry-safe and an unsafe action are proposed. Two workers
and two crashes give takeover, a second takeover and a reconciler that dies.
One owner suffices in `remediation` because its callers are unconstrained. Three
polls with a streak of two allow a broken streak, a lost poll and recovery.
Three model turns give a turn after a resumed one and a final turn. With one
tool and `MaxIdentical` = 1 the limit on identical calls binds first, so the
budgets of tool calls and of evidence are never the ones met in the run
`investigation`; that they hold across restarts rests on the theorem
`BudgetsHold` (an instance with two tools, three calls and two records, where
those two bind, was also explored: 290,000 states). One fault is a crash at any
position or a lease that lapses under a live worker; deliveries and takeovers
are not faults and are unbounded. Three records are two supporting ones of
different kinds and one against; the three instants are the lookback limit, the
end of the longest telemetry window from there and the opening of the incident,
so that windows meet each limit from both sides. Two events and two faults give
a duplicate on the stream, a reordering, a redelivery to another consumer and
the delivery limit; one relay is what the run has, and any number is in the
theorems `NothingLost` and `DisorderCaused`. Three notifications are the least
for two alerts on one incident and a resolution, or a firing, its redelivery
and a resolution; the clock passes the debounce, the temporal window and the
candidate lookback. Ending two alerts by one command would take four
notifications: that conjunct of `CommandsApplyOnce` rests on the theorem
`CommandsOnce`. An hourly load of 0 leaves the per-service rule passing; the theorems hold for any
set of loads. Deadlock is
checked where the system never stops (`hypotheses`, `event_delivery`) or has an
explicit end (`investigation`); elsewhere a settled incident, or no more
notifications, really is the end.

**Fairness.** `RemediationRunner!Fairness`: `run_forever` sweeps for ever, so
each pending execution is eventually claimed and each expired approval
selected and expired; `run` finishes because it waits only until the deadline;
clocks advance. Nothing is assumed of humans, executor threads, kill switches
or event delivery; `pending_execution` is a conjunct, so only what the sweep
would find is fair. `Verification!Fairness`: `tick_due` handles what `due()`
returns, a tick ends, the deadline and leases pass, the investigation scheduler
runs. Polls need not come due before the deadline.
`Investigation!Fairness`: a run goes on (model and backend calls have timeouts),
`run_forever` calls `resume_stale` for ever, and the lease of a dead worker
lapses; deliveries are not fair, so the sweep alone carries liveness.
`EventDelivery!Fairness`: relay and consumer loops run for ever and an entry
nobody works on grows stale.

## Findings

- **UNKNOWN attempts** (`unknown_is_reconciled`): once an interrupted attempt is
  UNKNOWN, a further claim ignores both it and the reconciler's lease; the
  remediation can settle with an attempt the executor was never asked about,
  against ADR-0024 point 6. `NeverActsTwice` still holds: actions not
  retry-safe have a single attempt.
- **Failed verification nobody takes up** (`failure_is_taken_up`): the last
  alert resolves between the verdict and the scheduler, which both require a
  firing alert; the incident stays VERIFICATION_FAILED.
- **An undocumented edge** (`moves_only_as_documented`): cancelling an APPROVED
  remediation takes the incident from REMEDIATION_IN_PROGRESS back to RCA_READY,
  an edge no table of `04-incident-state-machine.md` has.
  `LeavesTheTableOnlyToWithdraw` shows that it is the only one, and is taken
  only before any attempt was claimed.
- **Order of one incident's events** (`emission_order_kept`):
  `05-event-model.md:107` guarantees emission order without exception. A
  transaction that drew its sequence first may commit second, after the relay
  has passed; the run needs no fault. With faults there is one more way: the
  relay goes on with its batch after it gave a row up (`main.py:154`), against
  "the relay publishes in sequence order" (`05-event-model.md:108-109`).
  `DisorderHasACause` shows that there is no third, however many relays run.
  Consumers bear it because they act on the rows, not on the order of events.

Seen while modelling, and in the models as the code is:

- the consumers of a group share each shard stream entry by entry
  (`consumer.py:184`), so two neighbouring events may be handled in either
  order even where the stream has them in order; `05-event-model.md:112-114`
  speaks of "whichever consumer owns that shard", and none owns one;
- the ledger entry follows the handler in another transaction
  (`consumer.py:246`), so a handler can run again after it succeeded, against
  the module's docstring (`consumer.py:18-20`); `DuplicatesAreBounded` says how
  often, and handlers bear it because the commands are idempotent;
- an id already linked as supporting satisfies the check of a rejection, and its
  link stays supporting (`ON CONFLICT DO NOTHING`, `investigations.py:415`): a
  hypothesis can be REJECTED without a contradicting link, against
  `15-investigation-engine.md:161`;
- a metric's baseline is read from up to a window's length before the lookback
  (`prometheus.py:183-186`), of changes also what was effective however old, and
  `get_trace` and `get_recent_commits` have no window at all, against
  `limits.py:20-22` ("no further") and `scope.py:12-13`; `WindowsFitBounds`
  bounds what an operation with a window is given and says which of them read
  past it;
- a denied proposal made during VERIFYING leaves the incident there for good
  (ADR-0025 point 8; `UnappliedOnlyWhenNewer`);
- `runner.py:79` says "not applied" of an attempt without a record, but the
  executor stores the record after the effect (`executor.py:204-207`);
- a record whose registration failed is listed to the model by
  `get_incident_evidence`, although `_register` says it is never returned; it
  cannot be cited (`ConclusionIsGrounded`);
- `malformed_output` ends an investigation FAILED; the documentation says
  ESCALATED;
- an event dead-lettered by one consumer may still be handled by a slow one;
- a firing alert may be linked to an incident that another service closes
  between decision and commit: linking does not check the version;
- an engine decision for a new incident may adopt the open incident of the same
  key and then reports a correlation below the threshold;
- the firing rows of a source without external ids are resolved one per
  notification;
- the advisory lock serialises a resolution with its firing only if an external
  id always comes with the same service and environment.

## Proofs

Each `...Proofs` module shows, from the `ASSUME`s of the module it is about,
that an inductive invariant holds initially and is kept by every action, one
step per action, and derives from it the properties its runs check. All
invariants below were model-checked on the instances before they were proved.

**`RemediationProofs`** proves every property of the run `remediation`, from
`IncidentAssumption` and `RemediationAssumption` (finite set of keys;
proposals, roster and loads of their types; `NoOne` distinct; no service called
"global").

1. `TypeCorrect`: `TypeOK` is strengthened to `TypeInv`, with `LiveIsKnown`: a
   live remediation's action is in the catalog. Without it nothing bounds the
   attempt counter. `NotDenied` supplies it when a proposal is accepted.
2. `IncidentAgrees` and `OneAtATime`, from `Coupled`: the status agreement and
   the uniqueness of the live remediation need each other. A cancellation may
   move the incident only because the cancelled remediation was the only one;
   a proposal is accepted only in RCA_READY, when there is none. `Holder` and
   `LetGo` carry that argument for every command.
3. `SettledForGood`: an action property, from `TypeInv` and one step per action.
4. `VerifiedHasSomethingToVerify`: with `SettledStep`, since EXECUTED stays.
5. `ApprovedBeforeExecution`, from `ApprovalsBind`: approved from APPROVED on,
   approver bound to the proposal, attempts within the entry's limit.
6. `LimitHolds`, from `TriedWithinLimit`: the remediations that acted are within
   the limit, and either all still count for policy or the incident is
   ESCALATED, which it never leaves (`EscalatedStays`). This is what makes the
   limit hold although policy's count omits cancelled remediations.
7. `DocumentedButForWithdrawal`: every step moves the incident along an edge
   the code's services own (`LifecycleStep`), all of those but one are documented
   (`OneEdgeMore`), and the one left is taken only by the cancellation of an
   approved remediation without attempts (`BackToRcaReady`, which needs
   `ApprovalsBind` to know that an APPROVED remediation has none).

**`RunnerProofs`** (any number of workers and crashes). `RunnerImplementsCore`:
`RunnerSpec => Spec`, every step of a worker, thread or sweep is a command of
the core service or a stutter, so all theorems above hold with the workers
running. `RunnerInv` adds what ties tickets, threads and the environment to the
rows: a ticket is of an attempt that was started, and of the latest one if its
worker owns the lease (`TicketsValid`); a ticket that may still act is held by
one worker and its attempt has no thread yet (`TicketsFresh`); a thread's state bounds what it
did to the environment (`CallsTrack`); what a worker is about to report is what
the executor did (`ReportsTrue`). From these: `ActsAtMostOnce`,
`ActsWhenReady`, `ExecutedWasApplied`, `LatestAttemptRuns`. That a crashed
worker's attempt is not repeated rests on one ticket to execute per attempt,
not on the idempotency record, which is stored after the effect.

**`VerificationProofs`** (any workers, alerts, streak length, polls, attempts).
`History` says that each claim number is used by one observation, recorded in
the order of claims (`ClaimsAhead`, `ClaimsRecordInOrder`), and that the streak
column counts observations at the end of the history that all passed
(`StreakTracks`); `StreakOpen` that an open verification has not completed it.
`Outcome` then ties the verdict to the history: `ResolvedIsVerified`,
`VerdictIsFromEvidence`, `UnappliedIsSuperseded`, `LoopIsBounded`, and the
action property `VerdictStaysFinal`.

**`InvestigationProofs`** (any workers, turns, budgets and faults; tools are not
called like the engine's own four functions, which `EVIDENCE_TOOL_ALIASES`
satisfies and which is needed: a tool called like a terminal call would be read
differently on resume). The argument follows the *holder*, the
worker that runs and owns the lease. `FenceOK`: it is the latest claimant;
`LatestClaimWrites` follows. `Located`: at each position of its loop the
holder's memory (iteration, calls to do, readings) agrees with the trace; what
others remember is arbitrary. `InOrder`: the answered calls of the last turn
precede the unanswered ones in processing order. Lemma `RestReadsTheSame` then
shows that the unanswered calls alone read as they do in the whole turn, the
point on which resumption depends: only the first terminal call of a turn
counts, and an answered prefix never contains it while a second is left.
`ReadsAsOne` maps each action to one of `InvestigationTrace`. `Counted` says
the holder's counters are at least what the trace shows, which makes
`BudgetsHold` survive restarts.

**`HypothesesProofs`** (any callers, services, records, hypotheses, criteria).
`WindowsFit`: the invariant says that the window of a query under way is the one
computed from its own arguments and the clock of this attempt, which is not
before the incident's opening (`WindowOK`); the lemmas `DefaultFits`,
`WindowFits` and `BoundsFit` say what that computation gives for every instant,
age and operation. `ConclusionGrounded`: an accepted
conclusion's links are to records that were shown and registered, of enough
kinds; it needs that records are finite in number (`RecordsFinite`) and that
references and links are never withdrawn (`Kept`). `HistoryKept` is the action
property.

**`EventDeliveryProofs`** (any number of events, relays, consumers, faults).
`NothingLost`, from `RelayCovers` (an event marked published, or about to be, is
undelivered on the stream, pending, handled or dead-lettered) and
`ConsumerSettles` (a consumer that marks has handled, one that acknowledges has
settled the event). `DisorderCaused` for any number of relays, from `OrderInv`: not
only the stream but every batch a relay still holds is in order but for the two
causes, since a batch is read in sequence and rows only leave it at its head.
`DuplicatesBounded`: every handling that may still happen (a new entry, a
pending one, a consumer before its handler) is a *token*; handled plus tokens
never exceeds copies on the stream plus faults, action by action
(`TokensBound`).

**`AlertIntakeProofs`** (any requests, notices and correlation configuration).
Lemmas about the engine: a score is a percentage, falls with age, and an empty
choice means that no candidate reached the threshold (`ScoreBounds`,
`ScoreFalls`, `NoneChosen`). `PlanOK` says what a request under the lock still
knows when it commits, although the scheduler and later services moved
incidents meanwhile; `LockIsExclusive` that no other request did; `LedgerOK`
ties processed commands to alerts. From these `TriageIsDecided`,
`CommandsOnce` and `NewIncidentUnrelated`. Assumed of the callers: an external
id always comes with the same notification (the finding on the advisory lock
above shows why).

What proving changed in the models: cases whose guards overlapped are now
IF/ELSE chains, as in the code, since a `CASE` leaves the choice open;
`Investigation` keeps the calls to do and the rows of a turn as sets with an
order, since `SelectSeq` is recursive; the step a failed model configuration
writes carries the row's iteration, as the code does; `InvestigationTrace`
takes any notice after the turn as the answer to an empty one, as
`_resolve_pending` does; assumptions the proofs need are stated where the
constants are declared.

Model-checked only: `ApprovedSettles`, `ApprovalIsDecided`, `VerificationEnds`,
`EventuallyEnds` and `EventuallySettled`, because the prover does not reason
about fairness, and the four disagreements under Findings, which are
counterexamples.

## Plan

1. `ClosedLoop`: investigation, remediation and verification composed over one
   incident, moving along `IncidentLifecycle`'s edges, with attempts bounded over
   several rounds. Today each module carries the others as the moves they make
   on the incident.
2. Proofs: what each service does to the incident is documented in
   `IncidentLifecycle`, as for `Remediation`; shorter proofs where several
   lemmas share an argument (`EventDeliveryProofs`).

## Not modelled

What adapters parse out of a backend's answer, sanitising, hashing, prompts,
transcripts and token accounting are data no decision here depends on.
Authentication and request validation of the API, queries, telemetry and the
dashboard read or render. The evaluation harness is offline scoring; migrations
and infrastructure are schema and deployment. PostgreSQL's own isolation and
Redis' streams are taken as documented, from how the code uses them. The order
in which a command takes its row locks is not modelled, since a command is one
action: that `complete_execution` and `claim_execution` lock in opposite orders
shows only as a failed run (`Abandon`). An entry whose envelope cannot be parsed
stops the consumer's process outside its error handling; such entries are not
modelled, so `EventuallySettled` speaks of well-formed ones.
