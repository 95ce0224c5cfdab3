---------------------------- MODULE Remediation ----------------------------
(***************************************************************************)
(* RemediationCoreService (packages/incident/remediations.py) for one      *)
(* incident: the commands that propose, authorise, cancel, claim and       *)
(* settle remediations.  Every command is one transaction that takes the   *)
(* row locks it needs before it reads, so each is one action; a command    *)
(* that raises rolls back, so its action is then not enabled.              *)
(*                                                                         *)
(* A remediation is identified by its idempotency key: propose() creates   *)
(* at most one row per key.  Its row is spread over functions of the key,  *)
(* one per column.  Time appears only where it decides: a lease is live or *)
(* not, an approval request has been selected by the timeout sweep or not. *)
(*                                                                         *)
(* The callers here are unconstrained: any owner may report any outcome    *)
(* for any attempt at any time.  RemediationRunner adds the real worker.   *)
(*                                                                         *)
(* An operator whose name starts with Faulty_ is the definition after it   *)
(* with one plausible mistake; no specification uses it.  PROJECT.json     *)
(* says which property notices the mistake.                                *)
(***************************************************************************)
EXTENDS PolicyEngine

CONSTANTS
    Keys,          \* idempotency keys of proposals
    Owners,        \* worker identities (host:pid)
    Proposals,     \* the proposals somebody may make
    Roster,        \* approver roster: Humans -> roles
    HourlyLoads,   \* executions on a target in the last hour, all incidents
    Switchable,    \* kill-switch scopes that operators use
    NoOne          \* no lease owner, no approver, no remediation

ASSUME RemediationAssumption ==
    /\ IsFiniteSet(Keys)
    /\ Proposals \subseteq Proposal
    /\ Roster \in [Humans -> SUBSET Roles]
    /\ HourlyLoads \subseteq Nat
    /\ NoOne \notin Owners \cup Humans \cup Keys
    /\ "global" \notin Services
    /\ Switchable \subseteq {"global"} \cup Services

VARIABLES
    incident,      \* incidents.status
    status,        \* remediations.status, "none" before the row exists
    proposal,      \* the immutable proposal columns
    newest,        \* the key of the row created last (verification reads it)
    approval,      \* the approvals row: decision and approver
    attempts,      \* remediations.execution_attempts
    execution,     \* executions.status of every attempt
    lease,         \* lease_owner, and whether lease_expires_at is ahead
    baseline,      \* remediations with a captured baseline
    verification,  \* remediations with a verification_ref
    switches,      \* engaged kill-switch scopes
    expiring       \* remediations a timeout sweep has selected

rows == <<status, proposal, newest, approval, attempts, execution, lease,
          baseline, verification>>
vars == <<incident, rows, switches, expiring>>

Lifecycle == INSTANCE IncidentLifecycle WITH incident <- incident

RemediationStatus ==
    {"PROPOSED", "POLICY_REJECTED", "AWAITING_APPROVAL", "APPROVED",
     "EXECUTING", "EXECUTED", "FAILED", "CANCELLED"}
TERMINAL_REMEDIATION_STATUSES ==
    {"POLICY_REJECTED", "EXECUTED", "FAILED", "CANCELLED"}
Faulty_ATTEMPTED_REMEDIATION_STATUSES == {"EXECUTING", "FAILED"}
ATTEMPTED_REMEDIATION_STATUSES == {"EXECUTING", "EXECUTED", "FAILED"}
ExecutionStatus == {"RUNNING", "SUCCEEDED", "FAILED", "TIMED_OUT", "UNKNOWN"}

ALLOWED_TRANSITIONS ==
    {<<"PROPOSED", "POLICY_REJECTED">>, <<"PROPOSED", "AWAITING_APPROVAL">>,
     <<"AWAITING_APPROVAL", "APPROVED">>, <<"AWAITING_APPROVAL", "CANCELLED">>,
     <<"APPROVED", "EXECUTING">>, <<"APPROVED", "CANCELLED">>,
     <<"APPROVED", "FAILED">>, <<"EXECUTING", "EXECUTED">>,
     <<"EXECUTING", "FAILED">>, <<"EXECUTING", "EXECUTING">>,
     <<"EXECUTING", "CANCELLED">>}

can_transition(from, to) == <<from, to>> \in ALLOWED_TRANSITIONS

Scopes == {"global"} \cup Services
Released == [owner |-> NoOne, live |-> FALSE]
NoApproval == [decision |-> "none", approver |-> NoOne]
Attempts == 1..MaxAttempts

\* Statuses of a remediation that still holds the incident.
Live == {"AWAITING_APPROVAL", "APPROVED", "EXECUTING"}

TypeOK ==
    /\ incident \in Lifecycle!IncidentStatus
    /\ status \in [Keys -> RemediationStatus \cup {"none"}]
    /\ proposal \in [Keys -> Proposals \cup {NoOne}]
    /\ newest \in Keys \cup {NoOne}
    /\ approval \in [Keys ->
            [decision : {"none", "approved", "rejected", "timed_out"},
             approver : Humans \cup {NoOne}]]
    /\ attempts \in [Keys -> 0..MaxAttempts]
    /\ execution \in [Keys -> [Attempts -> ExecutionStatus \cup {"none"}]]
    /\ lease \in [Keys -> [owner : Owners \cup {NoOne}, live : BOOLEAN]]
    /\ baseline \subseteq Keys
    /\ verification \subseteq Keys
    /\ switches \subseteq Scopes
    /\ expiring \subseteq Keys

Init ==
    /\ incident = "TRIAGING"
    /\ status = [k \in Keys |-> "none"]
    /\ proposal = [k \in Keys |-> NoOne]
    /\ newest = NoOne
    /\ approval = [k \in Keys |-> NoApproval]
    /\ attempts = [k \in Keys |-> 0]
    /\ execution = [k \in Keys |-> [n \in Attempts |-> "none"]]
    /\ lease = [k \in Keys |-> Released]
    /\ baseline = {}
    /\ verification = {}
    /\ switches = {}
    /\ expiring = {}

-----------------------------------------------------------------------------
(* Shared steps of the commands *)



\* _move_incident: only from the statuses the command owns; otherwise the
\* remediation is recorded and the incident left where it is.
move_incident(from, to) ==
    incident' = IF incident \in from THEN to ELSE incident

\* _transition of the remediation row
transition(k, to) ==
    /\ can_transition(status[k], to)
    /\ status' = [status EXCEPT ![k] = to]

release_lease(k) == lease' = [lease EXCEPT ![k] = Released]

finish_failed(k) ==
    /\ transition(k, "FAILED")
    /\ release_lease(k)
    /\ move_incident({"REMEDIATION_IN_PROGRESS", "AWAITING_APPROVAL"}, "ESCALATED")

Faulty_finish_cancelled(k, incident_to) ==
    /\ transition(k, "CANCELLED")
    /\ release_lease(k)
    /\ move_incident({"AWAITING_APPROVAL"}, incident_to)

finish_cancelled(k, incident_to) ==
    /\ transition(k, "CANCELLED")
    /\ release_lease(k)
    /\ move_incident({"AWAITING_APPROVAL", "REMEDIATION_IN_PROGRESS"}, incident_to)

\* Is a switch engaged that covers this target?
kill_switch_engaged(target) == switches \cap {"global", target} # {}

-----------------------------------------------------------------------------
(* Proposal and policy *)

\* _context: what policy is told, read inside the proposing transaction.
context(p, load) ==
    [incident_status |-> incident,
     rca_available |-> p.rca,
     attempted |-> Cardinality(
        {k \in Keys : status[k] \in ATTEMPTED_REMEDIATION_STATUSES}),
     executions_last_hour |-> load,
     global_kill_switch_engaged |-> "global" \in switches,
     service_kill_switch_engaged |-> p.target \in switches]

\* The row is created PROPOSED, decided and routed in one transaction.
propose(k, p, load) ==
    /\ status[k] = "none"
    /\ proposal' = [proposal EXCEPT ![k] = p]
    /\ newest' = k
    /\ \/ /\ evaluate(p, context(p, load)) = "DENY"
          /\ status' = [status EXCEPT ![k] = "POLICY_REJECTED"]
          /\ move_incident({"RCA_READY"}, "ESCALATED")
       \/ /\ evaluate(p, context(p, load)) # "DENY"
          /\ status' = [status EXCEPT ![k] = "AWAITING_APPROVAL"]
          /\ move_incident({"RCA_READY"}, "AWAITING_APPROVAL")
    /\ UNCHANGED <<approval, attempts, execution, lease, baseline, verification,
                   switches, expiring>>

-----------------------------------------------------------------------------
(* Approval.  `seen` is the remediation whose proposal hash and policy     *)
(* decision the human reviewed; both must be those of this row.  A second  *)
(* decision is either a duplicate (nothing happens) or refused.            *)

Faulty_may_approve(k, human) ==
    Roster[human] \cap required_approver_roles(proposal[k]) # {}

\* An eligible role, and never the operator's own proposal.
may_approve(k, human) ==
    /\ Roster[human] \cap required_approver_roles(proposal[k]) # {}
    /\ ~(proposal[k].source = "operator" /\ proposal[k].proposed_by = human)

decide_approval(k, human, seen, approve) ==
    /\ approval[k].decision = "none"
    /\ status[k] = "AWAITING_APPROVAL"
    /\ seen = k
    /\ approve => may_approve(k, human)
    /\ approval' = [approval EXCEPT ![k] =
            [decision |-> IF approve THEN "approved" ELSE "rejected",
             approver |-> human]]
    /\ \/ /\ approve
          /\ transition(k, "APPROVED")
          /\ move_incident({"AWAITING_APPROVAL"}, "REMEDIATION_IN_PROGRESS")
          /\ UNCHANGED lease
       \/ /\ ~approve
          /\ finish_cancelled(k, "ESCALATED")
    /\ UNCHANGED <<proposal, newest, attempts, execution, baseline, verification,
                   switches, expiring>>

\* expire_approvals, first transaction: which requests are past the timeout.
select_expired(k) ==
    /\ status[k] = "AWAITING_APPROVAL"
    /\ k \notin expiring
    /\ expiring' = expiring \cup {k}
    /\ UNCHANGED <<incident, rows, switches>>

Faulty_expire_approval(k) ==
    /\ k \in expiring
    /\ expiring' = expiring \ {k}
    /\ approval' = [approval EXCEPT ![k] =
            [decision |-> "timed_out", approver |-> NoOne]]
    /\ status' = [status EXCEPT ![k] = "CANCELLED"]
    /\ release_lease(k)
    /\ move_incident({"AWAITING_APPROVAL", "REMEDIATION_IN_PROGRESS"}, "ESCALATED")
    /\ UNCHANGED <<proposal, newest, attempts, execution, baseline, verification,
                   switches>>

\* The sweep looks for the wrong status when it looks again.
Faulty_expire_approval_idle(k) ==
    /\ k \in expiring
    /\ status[k] = "PROPOSED" => finish_cancelled(k, "ESCALATED")
    /\ expiring' = expiring \ {k}
    /\ UNCHANGED <<incident, rows, switches>>

\* expire_approvals, one transaction per selected row: lock it, look again.
expire_approval(k) ==
    /\ k \in expiring
    /\ expiring' = expiring \ {k}
    /\ \/ /\ status[k] = "AWAITING_APPROVAL"
          /\ approval' = [approval EXCEPT ![k] =
                [decision |-> "timed_out", approver |-> NoOne]]
          /\ finish_cancelled(k, "ESCALATED")
       \/ /\ status[k] # "AWAITING_APPROVAL"
          /\ UNCHANGED <<incident, status, approval, lease>>
    /\ UNCHANGED <<proposal, newest, attempts, execution, baseline, verification,
                   switches>>

Faulty_cancel(k) ==
    /\ status[k] \in {"AWAITING_APPROVAL", "APPROVED", "EXECUTING"}
    /\ finish_cancelled(k, "RCA_READY")
    /\ UNCHANGED <<proposal, newest, approval, attempts, execution, baseline,
                   verification, switches, expiring>>

\* cancel(), and the first of the two transactions of revise(); the second
\* is a propose() of the operator.
cancel(k) ==
    /\ status[k] \in {"AWAITING_APPROVAL", "APPROVED"}
    /\ finish_cancelled(k, "RCA_READY")
    /\ UNCHANGED <<proposal, newest, approval, attempts, execution, baseline,
                   verification, switches, expiring>>

-----------------------------------------------------------------------------
(* Execution *)

entry(k) == CATALOG[proposal[k].action_id]

\* _latest_execution(...).status; attempts are numbered without gaps
latest_execution(k) ==
    IF attempts[k] = 0 THEN "none" ELSE execution[k][attempts[k]]

Claimable(k) == status[k] \in {"APPROVED", "EXECUTING"}

\* The attempt's worker lost its lease: what happened is unknown.  The caller
\* gets a "reconcile" ticket for that attempt.
claim_interrupted(k, w) ==
    /\ Claimable(k)
    /\ latest_execution(k) = "RUNNING"
    /\ ~lease[k].live
    /\ execution' = [execution EXCEPT ![k][attempts[k]] = "UNKNOWN"]
    /\ lease' = [lease EXCEPT ![k] = [owner |-> w, live |-> TRUE]]
    /\ UNCHANGED <<incident, status, proposal, newest, approval, attempts,
                   baseline, verification, switches, expiring>>

Faulty_execution_blocker(k, drift) ==
    IF kill_switch_engaged(proposal[k].target) THEN "kill_switch"
    ELSE IF approval[k].decision # "approved" THEN "approval_invalid"
    ELSE IF drift THEN "catalog_changed"
    ELSE IF attempts[k] > entry(k).max_attempts THEN "attempts_exhausted"
    ELSE "none"

\* _execution_blocker: anything that changed since the approval.  `drift`
\* stands for a deploy in between that changed the catalog version, the
\* parameter model or the topology.
execution_blocker(k, drift) ==
    IF kill_switch_engaged(proposal[k].target) THEN "kill_switch"
    ELSE IF approval[k].decision # "approved" THEN "approval_invalid"
    ELSE IF drift THEN "catalog_changed"
    ELSE IF attempts[k] >= entry(k).max_attempts THEN "attempts_exhausted"
    ELSE "none"

Faulty_claim_blocked(k, drift) ==
    /\ Claimable(k)
    /\ \/ /\ execution_blocker(k, drift) = "kill_switch"
          /\ finish_cancelled(k, "ESCALATED")
       \/ /\ execution_blocker(k, drift) \notin {"none", "kill_switch"}
          /\ finish_failed(k)
    /\ UNCHANGED <<proposal, newest, approval, attempts, execution, baseline,
                   verification, switches, expiring>>

claim_blocked(k, drift) ==
    /\ Claimable(k)
    /\ latest_execution(k) # "RUNNING"
    /\ \/ /\ execution_blocker(k, drift) = "kill_switch"
          /\ finish_cancelled(k, "ESCALATED")
       \/ /\ execution_blocker(k, drift) \notin {"none", "kill_switch"}
          /\ finish_failed(k)
    /\ UNCHANGED <<proposal, newest, approval, attempts, execution, baseline,
                   verification, switches, expiring>>

\* A new attempt row and the lease; the caller gets an "execute" ticket.
claim_started(k, w) ==
    /\ Claimable(k)
    /\ latest_execution(k) # "RUNNING"
    /\ execution_blocker(k, FALSE) = "none"
    /\ attempts' = [attempts EXCEPT ![k] = @ + 1]
    /\ execution' = [execution EXCEPT ![k][attempts[k] + 1] = "RUNNING"]
    /\ lease' = [lease EXCEPT ![k] = [owner |-> w, live |-> TRUE]]
    /\ transition(k, "EXECUTING")
    /\ UNCHANGED <<incident, proposal, newest, approval, baseline, verification,
                   switches, expiring>>

\* complete_execution of attempt n: settled rows and settled attempts are
\* left alone, a caller without the lease is refused.
can_retry(k, retryable) ==
    /\ entry(k).retry_safe
    /\ retryable
    /\ attempts[k] < entry(k).max_attempts

Faulty_request_verification(k) ==
    verification' = IF k \in baseline THEN verification \cup {k} ELSE verification

\* _request_verification: in the transaction that records the success.
request_verification(k) == verification' = verification \cup {k}

Outcomes == {"succeeded", "failed", "timed_out"}

complete_execution(k, n, w, outcome, retryable) ==
    /\ status[k] = "EXECUTING"
    /\ lease[k].owner = w
    /\ execution[k][n] \in {"RUNNING", "UNKNOWN"}
    /\ execution' = [execution EXCEPT ![k][n] =
            CASE outcome = "succeeded" -> "SUCCEEDED"
              [] outcome = "timed_out" -> "TIMED_OUT"
              [] OTHER -> "FAILED"]
    /\ \/ /\ outcome = "succeeded"
          /\ transition(k, "EXECUTED")
          /\ release_lease(k)
          /\ request_verification(k)
          /\ move_incident({"REMEDIATION_IN_PROGRESS"}, "VERIFYING")
       \/ /\ outcome # "succeeded"
          /\ can_retry(k, retryable)
          /\ release_lease(k)
          /\ UNCHANGED <<incident, status, verification>>
       \/ /\ outcome # "succeeded"
          /\ ~can_retry(k, retryable)
          /\ finish_failed(k)
          /\ UNCHANGED verification
    /\ UNCHANGED <<proposal, newest, approval, attempts, baseline, switches,
                   expiring>>

\* record_baseline: fenced by the lease owner, captured once.
record_baseline(k, w) ==
    /\ lease[k].owner = w
    /\ status[k] = "EXECUTING"
    /\ k \notin baseline
    /\ baseline' = baseline \cup {k}
    /\ UNCHANGED <<incident, status, proposal, newest, approval, attempts,
                   execution, lease, verification, switches, expiring>>

\* The clock passes lease_expires_at.
lease_expires(k) ==
    /\ lease[k].live
    /\ lease' = [lease EXCEPT ![k].live = FALSE]
    /\ UNCHANGED <<incident, status, proposal, newest, approval, attempts,
                   execution, baseline, verification, switches, expiring>>

set_kill_switch(scope, engaged) ==
    /\ switches' = IF engaged THEN switches \cup {scope} ELSE switches \ {scope}
    /\ UNCHANGED <<incident, rows, expiring>>

\* The edges of the other services: this module says only that they exist.
other_service_moves_incident ==
    /\ \E edge \in Lifecycle!AlertEdges \cup Lifecycle!InvestigationEdges
                        \cup Lifecycle!VerificationEdges :
            /\ incident = edge[1]
            /\ incident' = edge[2]
    /\ UNCHANGED <<rows, switches, expiring>>

-----------------------------------------------------------------------------

Next ==
    \/ \E k \in Keys, p \in Proposals, load \in HourlyLoads : propose(k, p, load)
    \/ \E k, seen \in Keys, human \in Humans, approve \in BOOLEAN :
            decide_approval(k, human, seen, approve)
    \/ \E k \in Keys : select_expired(k)
    \/ \E k \in Keys : expire_approval(k)
    \/ \E k \in Keys : cancel(k)
    \/ \E k \in Keys, w \in Owners : claim_interrupted(k, w)
    \/ \E k \in Keys, drift \in BOOLEAN : claim_blocked(k, drift)
    \/ \E k \in Keys, w \in Owners : claim_started(k, w)
    \/ \E k \in Keys, n \in Attempts, w \in Owners, outcome \in Outcomes,
         retryable \in BOOLEAN : complete_execution(k, n, w, outcome, retryable)
    \/ \E k \in Keys, w \in Owners : record_baseline(k, w)
    \/ \E k \in Keys : lease_expires(k)
    \/ \E scope \in Switchable, engaged \in BOOLEAN : set_kill_switch(scope, engaged)
    \/ other_service_moves_incident

Spec == Init /\ [][Next]_vars

-----------------------------------------------------------------------------
(* Properties *)

(* A remediation that still holds the incident and the incident's own      *)
(* status agree, whatever order approvals, timeouts, withdrawals, claims   *)
(* and completions arrive in: the incident waits for approval exactly      *)
(* while some remediation does, and is under remediation exactly while one *)
(* is approved or executing.                                               *)
IncidentMatchesRemediation ==
    /\ incident = "AWAITING_APPROVAL"
        <=> \E k \in Keys : status[k] = "AWAITING_APPROVAL"
    /\ incident = "REMEDIATION_IN_PROGRESS"
        <=> \E k \in Keys : status[k] \in {"APPROVED", "EXECUTING"}

(* Two proposals, however raised, never hold the incident together: the    *)
(* policy's remediable_incident_statuses rule, read under the incident     *)
(* lock, is what serialises them.                                          *)
OneLiveRemediation ==
    \A j, k \in Keys : status[j] \in Live /\ status[k] \in Live => j = k

(* An incident being verified has a remediation that succeeded and the     *)
(* verification created with it.                                           *)
VerifyingHasVerification ==
    incident = "VERIFYING" =>
        \E k \in Keys : status[k] = "EXECUTED" /\ k \in verification

(* No action ever ran for an incident on behalf of more remediations than  *)
(* max_attempted_remediations_per_incident.  The count policy is given     *)
(* leaves out a remediation a kill switch cancelled between two attempts;  *)
(* the limit holds all the same because that incident is ESCALATED for     *)
(* good.                                                                   *)
AttemptedRemediationsBounded ==
    Cardinality({k \in Keys : attempts[k] > 0})
        <= max_attempted_remediations_per_incident

(* Whatever started executing was approved by a human who holds a role the *)
(* tier requires and is not the operator who proposed it, and made no more *)
(* attempts than its catalog entry allows.                                 *)
OnlyApprovedExecutes ==
    \A k \in Keys : attempts[k] > 0 =>
        /\ approval[k].decision = "approved"
        /\ Roster[approval[k].approver]
                \cap required_approver_roles(proposal[k]) # {}
        /\ proposal[k].source = "operator"
                => proposal[k].proposed_by # approval[k].approver
        /\ attempts[k] <= entry(k).max_attempts

(* A settled remediation is never touched again: not by a late approval,   *)
(* timeout, claim or completion; nor is its proposal, ever.                *)
SettledStays(k) ==
    /\ status[k] \in TERMINAL_REMEDIATION_STATUSES =>
            /\ status'[k] = status[k]
            /\ approval'[k] = approval[k]
            /\ attempts'[k] = attempts[k]
            /\ execution'[k] = execution[k]
    /\ status[k] # "none" => proposal'[k] = proposal[k]

SettledIsFinal == [][\A k \in Keys : SettledStays(k)]_vars

(* The incident goes back from REMEDIATION_IN_PROGRESS to RCA_READY.       *)
Withdrawn ==
    /\ incident = "REMEDIATION_IN_PROGRESS" /\ incident' = "RCA_READY"
    /\ \E k \in Keys : /\ status[k] = "APPROVED" /\ status'[k] = "CANCELLED"
                       /\ attempts[k] = 0

(* However commands, timeouts and workers interleave, the incident moves   *)
(* along the documented edges, or an approved remediation of which no      *)
(* attempt was ever claimed is withdrawn (cancel, revise): once a worker   *)
(* has started, the incident is never handed back as if nothing had run.   *)
LeavesTheTableOnlyToWithdraw ==
    [][Lifecycle!DocumentedMove \/ Withdrawn]_incident

(* The documentation of the remediation edges, which lists                 *)
(* REMEDIATION_IN_PROGRESS to VERIFYING and to ESCALATED only: "the        *)
(* incident moves only along these edges".  cancel() accepts an APPROVED   *)
(* remediation too.                                                        *)
MovesOnlyAsDocumented == Lifecycle!Documented

=============================================================================
