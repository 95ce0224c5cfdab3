---------------------------- MODULE Investigation ----------------------------
(***************************************************************************)
(* One investigation of one incident: the agent loop that the workers run  *)
(* (packages/agents/engine.py) over the commands of                        *)
(* InvestigationCoreService (packages/incident/investigations.py), with    *)
(* the tool budgets of packages/tools/executor.py.                         *)
(*                                                                         *)
(* It begins where request_investigation leaves off: the incident          *)
(* INVESTIGATING, the row CREATED, no lease.  A worker keeps nothing but   *)
(* its loop position, the decision it is working through and the counters  *)
(* of its toolset; it dies at any point, is too slow for its lease, or     *)
(* loses the row to another worker.  A call of a backend or of the model   *)
(* and the step that records its result are one action: a crash in between *)
(* leaves the trace as a crash before the call does.  Whether a conclusion *)
(* meets the criteria and which hypothesis updates apply is the module     *)
(* Hypotheses; here either answer is possible.                             *)
(***************************************************************************)
EXTENDS Naturals, Sequences, FiniteSets, SequencesExt

CONSTANTS
    Workers,         \* worker processes (engine owners)
    Tools,           \* EVIDENCE_TOOL_ALIASES; one name is one exact call
    Turns,           \* the turns the model may emit
    MaxIterations,   \* budget.max_iterations
    MaxToolCalls,    \* budget.max_tool_calls
    MaxIdentical,    \* budget.max_identical_tool_calls
    MaxEvidence,     \* budget.max_evidence_items
    MaxInvalidTurns, \* budget.max_consecutive_invalid_turns
    MaxToolFailures, \* budget.max_consecutive_tool_failures
    ModelAttempts,   \* RetryPolicy.attempts
    MaxFaults,       \* bound: crashes, and leases that lapse under a live worker
    NoOne            \* no lease owner

ASSUME InvestigationAssumption ==
    /\ NoOne \notin Workers
    /\ IsFiniteSet(Tools) /\ Tools \subseteq STRING /\ Turns \subseteq Seq(STRING)
    /\ Tools \cap {"get_incident_evidence", "update_hypotheses",
                   "conclude_investigation", "declare_inconclusive"} = {}
    /\ {MaxIterations, MaxToolCalls, MaxIdentical, MaxEvidence, MaxInvalidTurns,
        MaxToolFailures, ModelAttempts} \subseteq Nat \ {0}
    /\ MaxFaults \in Nat

VARIABLES
    incident,         \* incidents.status
    status,           \* investigations.status
    lease,            \* lease_owner, and whether lease_expires_at is ahead
    iteration_count, tool_call_count, evidence_count,
    trace,            \* the investigation_steps rows, by sequence
    worker,           \* per worker: its position in the loop
    claims,           \* how often the row was claimed (history)
    faults            \* crashes and lapsed leases so far

row == <<status, lease, iteration_count, tool_call_count, evidence_count, trace>>
vars == <<incident, row, worker, claims, faults>>

Trace == INSTANCE InvestigationTrace WITH status <- status, trace <- trace

InvestigationStatus ==
    {"CREATED", "INVESTIGATING"} \cup Trace!TERMINAL_INVESTIGATION_STATUSES

Finished == status \in Trace!TERMINAL_INVESTIGATION_STATUSES

Released == [owner |-> NoOne, live |-> FALSE]
NoCalls == [t \in Tools |-> 0]

\* _BACKEND_FAILURES: the evidence path itself is down.
BackendFailures == {"backend_unavailable"}

(* What _run holds in memory: `at` is its position, `run` the claim it     *)
(* works under, `todo` the calls of the decision still to process, `seen`  *)
(* and `calls` the counters of its ToolExecutor.                           *)
Idle == [at |-> "idle", run |-> 0, iteration |-> 0, todo |-> {}, final |-> "none",
         seen |-> NoCalls, calls |-> 0, used_evidence |-> 0, attempt |-> 0,
         outcome |-> "ESCALATED"]

Positions == {"idle", "start", "loop", "notice", "model", "no_action", "act", "stop"}

Init ==
    /\ incident = "INVESTIGATING"
    /\ status = "CREATED"
    /\ lease = Released
    /\ iteration_count = 0 /\ tool_call_count = 0 /\ evidence_count = 0
    /\ trace = <<>>
    /\ worker = [w \in Workers |-> Idle]
    /\ claims = 0
    /\ faults = 0

-----------------------------------------------------------------------------
(* The commands of incident-core *)

Faulty_fenced(w) == status = "INVESTIGATING"

\* _fenced compares the owner; it does not look at the expiry.
fenced(w) == status = "INVESTIGATING" /\ lease.owner = w

goto(w, position) == worker' = [worker EXCEPT ![w].at = position]
stop(w, outcome) == worker' = [worker EXCEPT ![w].at = "stop", ![w].outcome = outcome]

\* claim: not when finished, nor when another worker's lease is live.
claim(w) ==
    /\ worker[w].at = "idle"
    /\ ~Finished
    /\ ~(lease.live /\ lease.owner # w)
    /\ status' = "INVESTIGATING"
    /\ lease' = [owner |-> w, live |-> TRUE]
    /\ claims' = claims + 1
    /\ worker' = [worker EXCEPT ![w] = [Idle EXCEPT !.at = "start", !.run = claims + 1]]
    /\ UNCHANGED <<incident, iteration_count, tool_call_count, evidence_count, trace,
                   faults>>

append_step(kind, iteration, call, detail) ==
    trace' = Append(trace, Trace!Step(kind, iteration, call, detail))

\* record_step renews the lease.
record_step(w, kind, iteration, call, detail, counted, new_evidence) ==
    /\ fenced(w)
    /\ append_step(kind, iteration, call, detail)
    /\ iteration_count' = IF kind = "model_turn" /\ iteration > iteration_count
                            THEN iteration ELSE iteration_count
    /\ tool_call_count' = tool_call_count + IF counted THEN 1 ELSE 0
    /\ evidence_count' = evidence_count + new_evidence
    /\ lease' = [owner |-> w, live |-> TRUE]
    /\ UNCHANGED <<incident, status, claims, faults>>

record(w, kind, iteration, detail) ==
    record_step(w, kind, iteration, 0, detail, FALSE, 0)

\* apply_hypothesis_updates and a rejected complete do not renew it.
answer_decision(w, kind, call) ==
    /\ fenced(w)
    /\ append_step(kind, worker[w].iteration, call, "none")
    /\ UNCHANGED <<incident, status, lease, iteration_count, tool_call_count,
                   evidence_count, claims, faults>>

\* _move_incident
move_incident(to) == incident' = IF incident = "INVESTIGATING" THEN to ELSE incident

\* complete (accepted) and escalate: the outcome, the lease and the incident.
finish(w, outcome, to, call, reason) ==
    /\ fenced(w)
    /\ status' = outcome
    /\ lease' = Released
    /\ append_step("outcome", worker[w].iteration, call, reason)
    /\ move_incident(to)
    /\ worker' = [worker EXCEPT ![w] = Idle]
    /\ UNCHANGED <<iteration_count, tool_call_count, evidence_count, claims, faults>>

escalate(w, outcome, call, reason) == finish(w, outcome, "ESCALATED", call, reason)
complete(w, call) == finish(w, "COMPLETED", "RCA_READY", call, "root_cause_identified")

-----------------------------------------------------------------------------
(* What the engine reads from the trace *)

IsCounted(s) == s.kind = "tool_call" /\ s.detail.counted

Faulty_prior_calls == {}

\* _prior_calls: the counted calls already made, whichever worker made them.
prior_calls == {i \in DOMAIN trace : IsCounted(trace[i])}

\* ToolExecutor.__init__
seeded == [t \in Tools |-> Cardinality({i \in prior_calls : trace[i].detail.tool = t})]

\* _trailing_invalid_turns: the most recent turns without a valid action.
InvalidTurn(t) ==
    \A s \in ToSet(trace) : s.iteration = t.iteration /\ s.call # 0 => s.kind = "invalid_call"

trailing_invalid_turns ==
    Cardinality({i \in Trace!turns : \A j \in Trace!turns : j >= i => InvalidTurn(trace[j])})

trailing_backend_failures ==
    LET calls == {i \in DOMAIN trace : trace[i].kind = "tool_call"} IN
    Cardinality({i \in calls :
                   \A j \in calls : j >= i => trace[j].detail.code \in BackendFailures})

final_turn_reason(iteration, pending) ==
    IF iteration >= MaxIterations THEN "iterations"
    ELSE IF ~pending /\ tool_call_count >= MaxToolCalls THEN "tool_calls"
    ELSE IF ~pending /\ evidence_count >= MaxEvidence THEN "evidence"
    ELSE "none"

\* interpret_turn over these calls of a turn; on resume, the unanswered ones.
decision(actions, calls) ==
    {[call |-> i, tool |-> actions[i], as |-> Trace!reading(actions, calls, i)] : i \in calls}

Faulty_processed_before(c, d) == c.call < d.call

\* The loops of _process, one after the other, each in the order of the calls.
processed_before(c, d) ==
    \/ c.as = "hypothesis_update" /\ d.as # "hypothesis_update"
    \/ c.as = "invalid_call" /\ d.as \notin {"hypothesis_update", "invalid_call"}
    \/ c.as = "tool_call" /\ d.as \in Trace!TerminalCalls
    \/ c.as = "conclude_investigation" /\ d.as = "declare_inconclusive"
    \/ c.as = d.as /\ c.call < d.call

\* _resolve_pending: the calls of the last turn that no step answers.
pending == Trace!Unanswered

-----------------------------------------------------------------------------
(* The loop *)

\* The event, however often it is delivered, and the sweep of lapsed leases.
Deliver(w) == claim(w)
Faulty_Resume(w) == status = "CREATED" /\ claim(w)

Resume(w) == ~lease.live /\ claim(w)

\* _run up to the loop; a model that cannot be built ends the investigation.
ModelConfigError(w) ==
    /\ worker[w].at = "start"
    /\ worker' = [worker EXCEPT ![w].at = "stop", ![w].outcome = "FAILED",
                                ![w].iteration = iteration_count]
    /\ UNCHANGED <<incident, row, claims, faults>>

RecordContext(w) ==
    /\ worker[w].at = "start"
    /\ ~ \E s \in ToSet(trace) : s.kind = "context"
    /\ record(w, "context", 0, "none")
    /\ goto(w, "loop")

SeedToolset(w) ==
    /\ worker[w].at = "start"
    /\ \E s \in ToSet(trace) : s.kind = "context"
    /\ worker' = [worker EXCEPT ![w].at = "loop", ![w].seen = seeded,
                                ![w].calls = Cardinality(prior_calls)]
    /\ UNCHANGED <<incident, row, claims, faults>>

Faulty_LimitOutcomes ==
    {"ESCALATED"} \cup (IF \/ trailing_invalid_turns >= MaxInvalidTurns
                          \/ trailing_backend_failures >= MaxToolFailures
                          THEN {"FAILED"} ELSE {"none"})

\* The reasons _enforce_limits may find; time and tokens run out at any load.
LimitOutcomes ==
    IF iteration_count >= MaxIterations THEN {"ESCALATED"}
    ELSE {"ESCALATED"}
      \cup (IF trailing_invalid_turns >= MaxInvalidTurns
                 \/ trailing_backend_failures >= MaxToolFailures
              THEN {"FAILED"} ELSE {"none"})

\* One pass over the loaded state: what to do next.
Load(w) ==
    /\ worker[w].at = "loop"
    /\ \/ /\ Finished
          /\ worker' = [worker EXCEPT ![w] = Idle]
       \/ /\ ~Finished /\ pending # {}
          /\ LET k == Trace!LastTurn.iteration IN
             worker' = [worker EXCEPT ![w].at = "act", ![w].iteration = k,
                          ![w].final = final_turn_reason(k, TRUE),
                          ![w].todo = decision(Trace!LastTurn.detail, pending),
                          ![w].used_evidence = evidence_count]
       \/ /\ ~Finished /\ Trace!Unnoticed
          /\ worker' = [worker EXCEPT ![w].at = "no_action", ![w].final = "none",
                                      ![w].iteration = Trace!LastTurn.iteration]
       \/ /\ ~Finished /\ pending = {} /\ ~Trace!Unnoticed
          /\ \/ \E o \in LimitOutcomes \ {"none"} :
                   worker' = [worker EXCEPT ![w].at = "stop", ![w].outcome = o,
                                            ![w].iteration = iteration_count]
             \/ /\ "none" \in LimitOutcomes
                /\ LET k == iteration_count + 1 IN
                   worker' = [worker EXCEPT ![w].at = "notice", ![w].iteration = k,
                                ![w].attempt = 1, ![w].final = final_turn_reason(k, FALSE)]
    /\ UNCHANGED <<incident, row, claims, faults>>

BudgetNotice(w) ==
    /\ worker[w].at = "notice"
    /\ record(w, "feedback", worker[w].iteration, "budget")
    /\ goto(w, "model")

\* _call_model answered: the turn is recorded, then interpreted.
ModelTurn(w) ==
    /\ worker[w].at = "model"
    /\ \E t \in Turns :
          /\ record(w, "model_turn", worker[w].iteration, t)
          /\ worker' = [worker EXCEPT
                          ![w].at = IF t = <<>> THEN "no_action" ELSE "act",
                          ![w].todo = decision(t, DOMAIN t),
                          ![w].used_evidence = evidence_count]

(* What an adapter raises, and whether it may be tried again.  A turn cut  *)
(* off by max_tokens or length is no error: it is a turn without actions.  *)
Error(code, retryable) == [code |-> code, retryable |-> retryable]

ClaudeErrors ==
    {Error(c, TRUE) : c \in {"rate_limit", "timeout", "connection", "internal"}}
    \cup {Error(c, FALSE) : c \in {"authentication", "permission", "not_found",
                                   "bad_request", "too_large", "refusal"}}

category == {"authentication", "rate_limit", "model_unavailable", "timeout",
             "bad_request", "upstream_error"}
terminal_category == {"authentication", "model_unavailable", "bad_request"}

OpenAICompatibleErrors ==
    {Error(c, c \notin terminal_category) : c \in category \cup {"malformed_response"}}

ModelErrors == ClaudeErrors \cup OpenAICompatibleErrors

(* _call_model failed.  Its MODEL_ERROR row is left out of the trace:      *)
(* nothing reads it.  The attempts are counted in memory only.             *)
ModelError(w) ==
    /\ worker[w].at = "model"
    /\ fenced(w)
    /\ lease' = [owner |-> w, live |-> TRUE]
    /\ \E e \in ModelErrors :
          IF ~e.retryable \/ worker[w].attempt = ModelAttempts
            THEN stop(w, "FAILED")
            ELSE worker' = [worker EXCEPT ![w].attempt = @ + 1]
    /\ UNCHANGED <<incident, status, iteration_count, tool_call_count, evidence_count,
                   trace, claims, faults>>

\* After the last call of a decision; a final turn ends the investigation.
AfterDecision(w) == IF worker[w].final # "none" THEN "stop" ELSE "loop"
AfterCall(w, c) == IF worker[w].todo # {c} THEN "act" ELSE AfterDecision(w)

answered(w, c) ==
    worker' = [worker EXCEPT ![w].todo = @ \ {c}, ![w].at = AfterCall(w, c)]

NoAction(w) ==
    /\ worker[w].at = "no_action"
    /\ record(w, "feedback", worker[w].iteration, "no_action")
    /\ goto(w, AfterDecision(w))

\* The call that w works on.
Handling(w, c, as) ==
    /\ worker[w].at = "act"
    /\ c.as = as
    /\ \A d \in worker[w].todo \ {c} : processed_before(c, d)

UpdateHypotheses(w) == \E c \in worker[w].todo :
    /\ Handling(w, c, "hypothesis_update")
    /\ answer_decision(w, "hypothesis_update", c.call)
    /\ answered(w, c)

RejectCall(w) == \E c \in worker[w].todo :
    /\ Handling(w, c, "invalid_call")
    /\ record_step(w, "invalid_call", worker[w].iteration, c.call, "none", FALSE, 0)
    /\ answered(w, c)

\* What running a tool may come to: its arguments are validated first.
Answers == {"ok", "invalid_argument"} \cup BackendFailures

\* The executor counts before it runs a tool; the listing of evidence passes it by.
Outcomes(w, tool) ==
    IF worker[w].final # "none" THEN {"final_turn"}
    ELSE IF tool = Trace!GET_INCIDENT_EVIDENCE THEN Answers
    ELSE IF worker[w].used_evidence >= MaxEvidence THEN {"evidence_budget_exhausted"}
    ELSE IF worker[w].calls >= MaxToolCalls THEN {"budget_exceeded"}
    ELSE IF worker[w].seen[tool] >= MaxIdentical THEN {"repeated_call"}
    ELSE Answers

Refusals ==
    {"final_turn", "evidence_budget_exhausted", "budget_exceeded", "repeated_call"}

ToolCall(w) == \E c \in worker[w].todo :
    /\ Handling(w, c, "tool_call")
    /\ \E code \in Outcomes(w, c.tool) :
          LET counted == code \notin Refusals
              executed == counted /\ c.tool \in Tools
              found == IF executed /\ code = "ok" THEN 1 ELSE 0 IN
          /\ record_step(w, "tool_call", worker[w].iteration, c.call,
                         [tool |-> c.tool, code |-> code, counted |-> counted],
                         counted, found)
          /\ worker' = [worker EXCEPT
                          ![w].todo = @ \ {c}, ![w].at = AfterCall(w, c),
                          ![w].used_evidence = @ + found,
                          ![w].calls = @ + (IF executed THEN 1 ELSE 0),
                          ![w].seen = [t \in Tools |->
                             @[t] + IF executed /\ t = c.tool THEN 1 ELSE 0]]

Conclude(w) == \E c \in worker[w].todo :
    /\ Handling(w, c, "conclude_investigation")
    /\ \/ complete(w, c.call)
       \/ answer_decision(w, "conclusion_rejected", c.call) /\ answered(w, c)

DeclareInconclusive(w) == \E c \in worker[w].todo :
    /\ Handling(w, c, "declare_inconclusive")
    /\ escalate(w, "ESCALATED", c.call, "inconclusive")

Stop(w) ==
    /\ worker[w].at = "stop"
    /\ escalate(w, worker[w].outcome, 0, worker[w].outcome)

\* A fenced command raises LeaseLostError: the run ends without a write.
LeaseLost(w) ==
    /\ worker[w].at \notin {"idle", "loop"}
    /\ ~fenced(w)
    /\ worker' = [worker EXCEPT ![w] = Idle]
    /\ UNCHANGED <<incident, row, claims, faults>>

\* The process dies; also an exception that leaves engine.run.
Crash(w) ==
    /\ worker[w].at # "idle"
    /\ faults < MaxFaults
    /\ faults' = faults + 1
    /\ worker' = [worker EXCEPT ![w] = Idle]
    /\ UNCHANGED <<incident, row, claims>>

Holding == \E w \in Workers : worker[w].at # "idle" /\ worker[w].run = claims

\* lease_expires_at passes.  The lease of a dead worker is not renewed.
Expire ==
    /\ lease.live
    /\ Holding => faults < MaxFaults
    /\ faults' = IF Holding THEN faults + 1 ELSE faults
    /\ lease' = [lease EXCEPT !.live = FALSE]
    /\ UNCHANGED <<incident, status, iteration_count, tool_call_count, evidence_count,
                   trace, worker, claims>>

Run(w) ==
    \/ ModelConfigError(w) \/ RecordContext(w) \/ SeedToolset(w) \/ Load(w)
    \/ BudgetNotice(w) \/ ModelTurn(w) \/ ModelError(w) \/ NoAction(w)
    \/ UpdateHypotheses(w) \/ RejectCall(w) \/ ToolCall(w) \/ Conclude(w)
    \/ DeclareInconclusive(w) \/ Stop(w) \/ LeaseLost(w)

Done == Finished /\ (\A w \in Workers : worker[w].at = "idle") /\ UNCHANGED vars

Next ==
    \/ \E w \in Workers : Deliver(w) \/ Run(w) \/ Crash(w)
    \/ Expire
    \/ Done

(* A worker that runs goes on, a lapsed lease is found by the sweep of     *)
(* every worker loop, and the lease of a dead worker does lapse.  Crashes, *)
(* slow workers and event deliveries need never happen.                    *)
Fairness ==
    /\ \A w \in Workers : WF_vars(Run(w)) /\ WF_vars(Resume(w))
    /\ WF_vars(Expire /\ ~Holding)

Spec == Init /\ [][Next]_vars
FairSpec == Spec /\ Fairness

-----------------------------------------------------------------------------
(* Properties *)

\* The row and every worker are in the states the code knows.
TypeOK ==
    /\ incident \in {"INVESTIGATING", "RCA_READY", "ESCALATED"}
    /\ status \in InvestigationStatus
    /\ lease \in [owner : Workers \cup {NoOne}, live : BOOLEAN]
    /\ iteration_count \in 0..MaxIterations
    /\ tool_call_count \in Nat /\ evidence_count \in Nat
    /\ \A i \in DOMAIN trace : trace[i].iteration \in 0..MaxIterations
    /\ \A w \in Workers : /\ worker[w].at \in Positions
                          /\ worker[w].run \in 0..claims
                          /\ worker[w].at = "act" => worker[w].todo # {}
    /\ faults \in 0..MaxFaults

(* The trace reads as if one worker that never dies had written it: after  *)
(* any crash, takeover or duplicate delivery each call of a turn is        *)
(* answered once, in order, as the whole turn reads, and the model is not  *)
(* asked again before that (_resolve_pending, _fenced).                    *)
ReadsAsOneRun == Trace!Spec

(* A run writes nothing once another claim has succeeded: the fence on the *)
(* owner is enough although it ignores the expiry, because a worker has    *)
(* one run at a time.                                                      *)
OnlyLatestClaimWrites ==
    [][\A w \in Workers :
         trace' # trace /\ worker'[w] # worker[w] => worker[w].run = claims]_vars

Executed(t) == {i \in DOMAIN trace : IsCounted(trace[i]) /\ trace[i].detail.tool \in t}

(* The executor's limits hold over the whole investigation: a worker that  *)
(* takes over counts the calls of its predecessors (_prior_calls).         *)
BudgetsSurviveRestart ==
    /\ Cardinality(Executed(Tools)) <= MaxToolCalls
    /\ \A t \in Tools : Cardinality(Executed({t})) <= MaxIdentical
    /\ evidence_count <= MaxEvidence
    /\ Cardinality(Trace!turns) = iteration_count

\* Every investigation ends, whatever the model answers ("Every path
\* terminates", docs/architecture/15-investigation-engine.md).
EventuallyEnds == <>Finished

=============================================================================
