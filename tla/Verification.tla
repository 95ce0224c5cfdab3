---------------------------- MODULE Verification ----------------------------
(***************************************************************************)
(* One verification of one executed remediation: VerificationCoreService   *)
(* (packages/incident/verifications.py), the decision it applies           *)
(* (packages/domain/verification.py) and the workers that poll             *)
(* (packages/verification/engine.py, apps/worker/verification_main.py).    *)
(*                                                                         *)
(* It begins where complete_execution leaves off: the incident VERIFYING,  *)
(* the row PENDING.  Beside the workers run the alert intake, which fires  *)
(* and resolves alerts of the incident, an operator whose denied proposal  *)
(* adds a newer remediation row, and the investigation scheduler.          *)
(*                                                                         *)
(* A sample is what the environment checks of one observation amount to:   *)
(* "good" (all hold), "bad" (one fails), "definitive" (a state check       *)
(* fails: the change is not in place), "missing" (a source errored) or     *)
(* "partial" (a source errored, and a state check fails nevertheless).     *)
(* The alert check is evaluated when the observation is recorded.          *)
(***************************************************************************)
EXTENDS Naturals, Sequences, FiniteSets

CONSTANTS
    Workers,                    \* verification workers
    Alerts,                     \* alerts linked to the incident, sooner or later
    RequiredConsecutive,        \* spec.required_consecutive
    MaxInvestigationAttempts,   \* MAX_INVESTIGATION_ATTEMPTS
    MaxClaims,                  \* bound: polls claimed in a behaviour
    NoOne                       \* no lease owner

ASSUME VerificationAssumption ==
    /\ IsFiniteSet(Alerts)
    /\ NoOne \notin Workers
    /\ RequiredConsecutive \in Nat \ {0}
    /\ MaxInvestigationAttempts \in Nat \ {0}
    /\ MaxClaims \in Nat

VARIABLES
    incident,       \* incidents.status
    attempt_count,  \* incidents.attempt_count
    newer,          \* is there a remediation created after this one?
    alert,          \* alerts.status, "absent" until linked to the incident
    status,         \* verifications.status
    known,          \* known_alert_ids
    lease,          \* lease_owner, and whether lease_expires_at is ahead
    claims,         \* claim_attempt
    poll_due,       \* next_poll_at has come
    overdue,        \* deadline_at has come
    observations,   \* the verification_observations rows, in order
    streak,         \* consecutive_successes
    conclusive,     \* conclusive_count
    next_action,    \* what finalize decided
    worker          \* per worker: the ticket it is observing for, and the sample

row == <<status, known, lease, claims, poll_due, overdue, observations, streak,
         conclusive, next_action>>
vars == <<incident, attempt_count, newer, alert, row, worker>>

Lifecycle == INSTANCE IncidentLifecycle WITH incident <- incident

TERMINAL_VERIFICATION_STATUSES == {"PASSED", "FAILED", "TIMED_OUT"}
Samples == {"good", "bad", "definitive", "missing", "partial"}
Released == [owner |-> NoOne, live |-> FALSE]
Idle == [ticket |-> 0, sample |-> "missing"]

Observation == [claim : Nat, sample : Samples, new_alerts : SUBSET Alerts]

TypeOK ==
    /\ incident \in Lifecycle!IncidentStatus
    /\ attempt_count \in Nat
    /\ newer \in BOOLEAN
    /\ alert \in [Alerts -> {"absent", "firing", "resolved"}]
    /\ status \in {"PENDING", "RUNNING"} \cup TERMINAL_VERIFICATION_STATUSES
    /\ known \subseteq Alerts
    /\ lease \in [owner : Workers \cup {NoOne}, live : BOOLEAN]
    /\ claims \in Nat
    /\ poll_due \in BOOLEAN
    /\ overdue \in BOOLEAN
    /\ observations \in Seq(Observation)
    /\ streak \in 0..RequiredConsecutive
    /\ conclusive \in Nat
    /\ next_action \in {"pending", "none", "resolve", "escalate", "reinvestigate"}
    /\ worker \in [Workers -> [ticket : Nat, sample : Samples]]

Init ==
    /\ incident = "VERIFYING"
    /\ attempt_count \in 1..MaxInvestigationAttempts
    /\ newer = FALSE
    /\ alert \in [Alerts -> {"absent", "firing", "resolved"}]
    /\ \E a \in Alerts : alert[a] # "absent"
    /\ status = "PENDING"
    /\ known = {}
    /\ lease = Released
    /\ claims = 0
    /\ poll_due = FALSE
    /\ overdue = FALSE
    /\ observations = <<>>
    /\ streak = 0
    /\ conclusive = 0
    /\ next_action = "pending"
    /\ worker = [w \in Workers |-> Idle]

firing_alerts == {a \in Alerts : alert[a] = "firing"}
linked_alerts == {a \in Alerts : alert[a] # "absent"}

\* _new_firing_alerts
new_firing_alerts == firing_alerts \ known

-----------------------------------------------------------------------------
(* The pure part: evaluate_sample and decide *)

(* EvidenceObserver: what it reads of the sources behind the state checks  *)
(* and of those behind the health checks, each through evidence-service.   *)
Readings == {"holds", "fails", "errors"}

observe(state, health) ==
    IF state = "fails" THEN (IF health = "errors" THEN "partial" ELSE "definitive")
    ELSE IF "errors" \in {state, health} THEN "missing"
    ELSE IF health = "fails" THEN "bad"
    ELSE "good"

passed(o) == o.sample = "good" /\ o.new_alerts = {}
is_conclusive(o) == o.sample \notin {"missing", "partial"}
definitive_failure(o) == o.sample \in {"definitive", "partial"}

Faulty_decide_strict(definitive, consecutive, concl, late) ==
    IF definitive THEN "FAILED"
    ELSE IF consecutive > RequiredConsecutive THEN "PASSED"
    ELSE IF late THEN (IF concl = 0 THEN "TIMED_OUT" ELSE "FAILED")
    ELSE "RUNNING"

Faulty_decide(definitive, consecutive, concl, late) ==
    IF definitive THEN "FAILED"
    ELSE IF consecutive >= RequiredConsecutive THEN "PASSED"
    ELSE IF late THEN (IF observations = <<>> THEN "TIMED_OUT" ELSE "FAILED")
    ELSE "RUNNING"

decide(definitive, consecutive, concl, late) ==
    IF definitive THEN "FAILED"
    ELSE IF consecutive >= RequiredConsecutive THEN "PASSED"
    ELSE IF late THEN (IF concl = 0 THEN "TIMED_OUT" ELSE "FAILED")
    ELSE "RUNNING"

-----------------------------------------------------------------------------
(* Verdict *)

Faulty_stale == incident # "VERIFYING" \/ newer \/ firing_alerts = {}

\* _staleness.  The remediation stays EXECUTED and keeps this verification.
stale == incident # "VERIFYING" \/ newer

Faulty_after_failure == "reinvestigate"

after_failure ==
    IF attempt_count < MaxInvestigationAttempts /\ firing_alerts # {}
        THEN "reinvestigate" ELSE "escalate"

\* _finalize: the verdict and what it does to the incident, in one transaction.
finalize(verdict) ==
    /\ status' = verdict
    /\ lease' = Released
    /\ poll_due' = FALSE
    /\ next_action' = IF stale THEN "none"
                      ELSE IF verdict = "PASSED" THEN "resolve"
                      ELSE IF verdict = "TIMED_OUT" THEN "escalate"
                      ELSE after_failure
    /\ incident' = CASE next_action' = "none"     -> incident
                     [] next_action' = "resolve"  -> "RESOLVED"
                     [] next_action' = "escalate" -> "ESCALATED"
                     [] OTHER                     -> "VERIFICATION_FAILED"

-----------------------------------------------------------------------------
(* Commands *)

\* start(), and claim_due() on a row nobody started: the alerts of the incident
\* at this moment are the known ones.
start ==
    /\ status = "PENDING"
    /\ status' = "RUNNING"
    /\ known' = linked_alerts
    /\ UNCHANGED <<incident, attempt_count, newer, alert, lease, claims, poll_due,
                   overdue, observations, streak, conclusive, next_action, worker>>

\* claim_due past the deadline: the verdict from what was recorded.
claim_overdue(w) ==
    /\ worker[w] = Idle
    /\ status = "RUNNING"
    /\ ~lease.live
    /\ overdue
    /\ finalize(decide(FALSE, streak, conclusive, TRUE))
    /\ UNCHANGED <<attempt_count, newer, alert, known, claims, overdue, observations,
                   streak, conclusive, worker>>

\* claim_due with a poll due: lease, ticket, and the observation that follows.
claim_poll(w) ==
    /\ worker[w] = Idle
    /\ status = "RUNNING"
    /\ ~lease.live
    /\ ~overdue
    /\ poll_due
    /\ claims < MaxClaims
    /\ claims' = claims + 1
    /\ lease' = [owner |-> w, live |-> TRUE]
    /\ \E state, health \in Readings :
            worker' = [worker EXCEPT ![w] = [ticket |-> claims',
                                             sample |-> observe(state, health)]]
    /\ UNCHANGED <<incident, attempt_count, newer, alert, status, known, poll_due,
                   overdue, observations, streak, conclusive, next_action>>

Faulty_fence(w) == TRUE

\* Does the ticket still hold the row?
fence(w) ==
    /\ status = "RUNNING"
    /\ lease.owner = w
    /\ claims = worker[w].ticket

Faulty_next_streak(o) ==
    CASE passed(o)         -> streak + 1
      [] ~is_conclusive(o) -> streak
      [] OTHER             -> 0

next_streak(o) == IF passed(o) THEN streak + 1 ELSE 0

record_observation(w) ==
    LET o == [claim |-> worker[w].ticket, sample |-> worker[w].sample,
              new_alerts |-> new_firing_alerts]
        verdict == decide(definitive_failure(o), streak', conclusive', overdue)
    IN
    /\ worker[w] # Idle
    /\ fence(w)
    /\ observations' = Append(observations, o)
    /\ streak' = next_streak(o)
    /\ conclusive' = conclusive + (IF is_conclusive(o) THEN 1 ELSE 0)
    /\ \/ /\ verdict = "RUNNING"
          /\ poll_due' = FALSE
          /\ lease' = Released
          /\ UNCHANGED <<status, incident, next_action>>
       \/ /\ verdict # "RUNNING"
          /\ finalize(verdict)
    /\ worker' = [worker EXCEPT ![w] = Idle]
    /\ UNCHANGED <<attempt_count, newer, alert, known, claims, overdue>>

\* record_observation raises LeaseLostError; the tick is over.
observation_refused(w) ==
    /\ worker[w] # Idle
    /\ ~fence(w)
    /\ worker' = [worker EXCEPT ![w] = Idle]
    /\ UNCHANGED <<incident, attempt_count, newer, alert, row>>

-----------------------------------------------------------------------------
(* Time and crashes *)

poll_comes_due ==
    /\ status = "RUNNING" /\ ~poll_due
    /\ poll_due' = TRUE
    /\ UNCHANGED <<incident, attempt_count, newer, alert, status, known, lease, claims,
                   overdue, observations, streak, conclusive, next_action, worker>>

deadline_comes ==
    /\ status = "RUNNING" /\ ~overdue
    /\ overdue' = TRUE
    /\ UNCHANGED <<incident, attempt_count, newer, alert, status, known, lease, claims,
                   poll_due, observations, streak, conclusive, next_action, worker>>

lease_expires ==
    /\ lease.live
    /\ lease' = [lease EXCEPT !.live = FALSE]
    /\ UNCHANGED <<incident, attempt_count, newer, alert, status, known, claims,
                   poll_due, overdue, observations, streak, conclusive, next_action,
                   worker>>

crash(w) ==
    /\ worker[w] # Idle
    /\ worker' = [worker EXCEPT ![w] = Idle]
    /\ UNCHANGED <<incident, attempt_count, newer, alert, row>>

-----------------------------------------------------------------------------
(* The rest of the system *)

\* service.py: an alert correlates with the open incident, or is resolved; past
\* TRIAGING neither moves the incident.
alert_fires(a) ==
    /\ incident \notin Lifecycle!CLOSED_INCIDENT_STATUSES
    /\ alert[a] = "absent"
    /\ alert' = [alert EXCEPT ![a] = "firing"]
    /\ UNCHANGED <<incident, attempt_count, newer, row, worker>>

alert_resolves(a) ==
    /\ alert[a] = "firing"
    /\ alert' = [alert EXCEPT ![a] = "resolved"]
    /\ UNCHANGED <<incident, attempt_count, newer, row, worker>>

\* remediations.py: propose() on a VERIFYING incident is denied by policy, and
\* the POLICY_REJECTED row is newer than the remediation being verified.
newer_remediation ==
    /\ incident = "VERIFYING" /\ ~newer
    /\ newer' = TRUE
    /\ UNCHANGED <<incident, attempt_count, alert, row, worker>>

\* investigations.py: the scheduler finds the incident due and requests an
\* investigation.
request_investigation ==
    /\ incident = "VERIFICATION_FAILED"
    /\ firing_alerts # {}
    /\ attempt_count' = attempt_count + 1
    /\ incident' = "INVESTIGATING"
    /\ UNCHANGED <<newer, alert, row, worker>>

Next ==
    \/ start
    \/ \E w \in Workers : claim_overdue(w)
    \/ \E w \in Workers : claim_poll(w)
    \/ \E w \in Workers : record_observation(w)
    \/ \E w \in Workers : observation_refused(w)
    \/ \E w \in Workers : crash(w)
    \/ poll_comes_due
    \/ deadline_comes
    \/ lease_expires
    \/ \E a \in Alerts : alert_fires(a)
    \/ \E a \in Alerts : alert_resolves(a)
    \/ newer_remediation
    \/ request_investigation

Spec == Init /\ [][Next]_vars

Faulty_due ==
    status = "RUNNING" /\ (poll_due \/ overdue) /\ ~lease.live

\* due(): what tick_due goes through.
due ==
    \/ status = "PENDING"
    \/ status = "RUNNING" /\ (poll_due \/ overdue) /\ ~lease.live

(* The worker loop ticks what is due and a tick ends; time passes; the     *)
(* investigation scheduler runs.  No fairness for alerts, operators,       *)
(* polls (a deadline may find none) or the VerificationRequested event.    *)
Fairness ==
    /\ WF_vars(due /\ (start \/ \E w \in Workers : claim_overdue(w) \/ claim_poll(w)))
    /\ \A w \in Workers : WF_vars(record_observation(w) \/ observation_refused(w))
    /\ WF_vars(deadline_comes)
    /\ WF_vars(lease_expires)
    /\ WF_vars(request_investigation)

FairSpec == Spec /\ Fairness

-----------------------------------------------------------------------------
(* Properties *)

(* RESOLVED means verified: the last RequiredConsecutive observations all  *)
(* passed, with no new alert firing at any of them, and no other claim     *)
(* recorded anything in between, whatever workers crash, stall or lose     *)
(* their lease.                                                            *)
ResolvedMeansVerified ==
    incident = "RESOLVED" =>
        /\ Len(observations) >= RequiredConsecutive
        /\ \A i \in (Len(observations) - RequiredConsecutive + 1)..Len(observations) :
                passed(observations[i])

(* Every claim records at most one observation, and observations are in    *)
(* the order of their claims: a superseded worker records nothing.         *)
ClaimsRecordInOrder ==
    \A i, j \in 1..Len(observations) :
        i < j => observations[i].claim < observations[j].claim

(* The two ways of not passing are kept apart: TIMED_OUT only if nothing   *)
(* conclusive was ever seen, FAILED only on a definitive failure or on     *)
(* conclusive evidence at the deadline.                                    *)
VerdictFromEvidence ==
    /\ status = "TIMED_OUT" =>
            overdue /\ \A i \in 1..Len(observations) : ~is_conclusive(observations[i])
    /\ status = "FAILED" =>
            \/ definitive_failure(observations[Len(observations)])
            \/ overdue /\ \E i \in 1..Len(observations) : is_conclusive(observations[i])

(* A verdict leaves the incident in VERIFYING only because a newer         *)
(* remediation row exists, and nothing else ever takes it out.             *)
UnappliedOnlyWhenNewer ==
    status \in TERMINAL_VERIFICATION_STATUSES /\ incident = "VERIFYING" => newer

(* The investigate-remediate-verify loop is bounded although               *)
(* request_investigation itself does not look at the limit.                *)
AttemptsBounded == attempt_count <= MaxInvestigationAttempts

(* A verdict is final, and recorded observations stay: no late             *)
(* observation, claim or deadline changes either.                          *)
VerdictStays ==
    /\ status \in TERMINAL_VERIFICATION_STATUSES =>
            UNCHANGED <<status, observations, next_action>>
    /\ Len(observations') >= Len(observations)
    /\ SubSeq(observations', 1, Len(observations)) = observations

VerdictIsFinal == [][VerdictStays]_vars

(* Every verification reaches a verdict, even if its VerificationRequested *)
(* event is lost and every worker crashes in every poll.                   *)
VerificationEnds ==
    status = "PENDING" ~> status \in TERMINAL_VERIFICATION_STATUSES

(* What docs/adr/0025-verification-and-closed-loop.md says of a failed     *)
(* verification: it leads to a bounded re-investigation or to escalation.  *)
FailureIsTakenUp ==
    incident = "VERIFICATION_FAILED" ~> incident \in {"INVESTIGATING", "ESCALATED"}

=============================================================================
