------------------------- MODULE RemediationProofs -------------------------
(***************************************************************************)
(* Theorems about Remediation, for every set of keys, owners, humans,      *)
(* proposals, rosters and kill-switch scopes.                              *)
(***************************************************************************)
EXTENDS Remediation, FiniteSetTheorems, TLAPS

-----------------------------------------------------------------------------
(* What the policy and the catalog guarantee *)

(* A proposal that evaluate() does not deny names an action of the catalog *)
(* and was made while the incident was RCA_READY: the two rules the        *)
(* remediation service relies on without looking again.                    *)
LEMMA NotDenied ==
    ASSUME NEW p \in Proposal, NEW ctx, evaluate(p, ctx) # "DENY"
    PROVE  /\ Known(p)
           /\ ctx.incident_status = "RCA_READY"
<1>1. denying_rules(p, ctx) = {}
  BY DEF evaluate
<1>2. ~Known(p) => "action.known" \in denying_rules(p, ctx)
  BY DEF denying_rules
<1>3. ctx.incident_status # "RCA_READY"
        => "incident.remediable_status" \in denying_rules(p, ctx)
  BY DEF denying_rules, remediable_incident_statuses
<1>4. QED
  BY <1>1, <1>2, <1>3

(* No entry of the catalog allows more attempts than MaxAttempts. *)
LEMMA AttemptLimit ==
    ASSUME NEW a \in ActionIds
    PROVE  CATALOG[a].max_attempts \in 1..MaxAttempts
<1>1. CASE a = "restart_service"
  BY <1>1 DEF CATALOG, Entry, ActionIds, MaxAttempts
<1>2. CASE a = "scale_service"
  BY <1>2 DEF CATALOG, Entry, ActionIds, MaxAttempts
<1>3. CASE a = "rollback_deployment"
  BY <1>3 DEF CATALOG, Entry, ActionIds, MaxAttempts
<1>4. CASE a = "disable_feature_flag"
  BY <1>4 DEF CATALOG, Entry, ActionIds, MaxAttempts
<1>5. CASE a = "revert_configuration"
  BY <1>5 DEF CATALOG, Entry, ActionIds, MaxAttempts
<1>6. QED
  BY <1>1, <1>2, <1>3, <1>4, <1>5 DEF ActionIds

-----------------------------------------------------------------------------
(* Types *)

(* Only a proposal of a known action ever holds the incident.  TypeOK      *)
(* alone is not inductive: a claim stays within MaxAttempts because the    *)
(* catalog entry it looks up exists.                                       *)
LiveIsKnown ==
    \A k \in Keys : status[k] \in Live =>
        proposal[k] \in Proposals /\ Known(proposal[k])

TypeInv == TypeOK /\ LiveIsKnown

LEMMA TypeInit == Init => TypeInv
<1> SUFFICES ASSUME Init PROVE TypeInv
  OBVIOUS
<1>1. TypeOK
  BY DEF Init, TypeOK, Lifecycle!IncidentStatus, NoApproval, Released, Attempts,
         MaxAttempts
<1>2. LiveIsKnown
  BY DEF Init, LiveIsKnown, Live
<1>3. QED
  BY <1>1, <1>2 DEF TypeInv

(* Both ways of ending a remediation keep the types of what they write and *)
(* make nothing live.                                                      *)
LEMMA CancelledTypes ==
    ASSUME TypeOK, NEW k \in Keys, NEW to \in Lifecycle!IncidentStatus,
           finish_cancelled(k, to)
    PROVE  /\ incident' \in Lifecycle!IncidentStatus
           /\ status' \in [Keys -> RemediationStatus \cup {"none"}]
           /\ lease' \in [Keys -> [owner : Owners \cup {NoOne}, live : BOOLEAN]]
           /\ \A j \in Keys : status'[j] \in Live => status[j] \in Live
  BY DEF TypeOK, finish_cancelled, transition, release_lease, move_incident,
         Released, RemediationStatus, Live

LEMMA FailedTypes ==
    ASSUME TypeOK, NEW k \in Keys, finish_failed(k)
    PROVE  /\ incident' \in Lifecycle!IncidentStatus
           /\ status' \in [Keys -> RemediationStatus \cup {"none"}]
           /\ lease' \in [Keys -> [owner : Owners \cup {NoOne}, live : BOOLEAN]]
           /\ \A j \in Keys : status'[j] \in Live => status[j] \in Live
  BY DEF TypeOK, finish_failed, transition, release_lease, move_incident,
         Released, RemediationStatus, Live, Lifecycle!IncidentStatus

LEMMA TypeStep == TypeInv /\ [Next]_vars => TypeInv'
<1> SUFFICES ASSUME TypeInv, [Next]_vars PROVE TypeInv'
  OBVIOUS
<1> USE DEF TypeInv, TypeOK, LiveIsKnown, Live, RemediationStatus, ExecutionStatus,
            Lifecycle!IncidentStatus, rows
<1>1. ASSUME NEW k \in Keys, NEW p \in Proposals, NEW load \in HourlyLoads,
             propose(k, p, load)
      PROVE  TypeInv'
  <2>1. CASE evaluate(p, context(p, load)) = "DENY"
    BY <1>1, <2>1 DEF propose, move_incident
  <2>2. CASE evaluate(p, context(p, load)) # "DENY"
    <3>1. Known(p)
      BY <2>2, NotDenied, RemediationAssumption
    <3>2. QED
      BY <1>1, <2>2, <3>1 DEF propose, move_incident
  <2>3. QED
    BY <2>1, <2>2
<1>2. ASSUME NEW k \in Keys, NEW seen \in Keys, NEW human \in Humans,
                  NEW approve \in BOOLEAN,
             decide_approval(k, human, seen, approve)
      PROVE  TypeInv'
  <2>1. approval' \in [Keys -> [decision : {"none", "approved", "rejected", "timed_out"},
                               approver : Humans \cup {NoOne}]]
    BY <1>2 DEF decide_approval
  <2>2. CASE approve
    BY <1>2, <2>1, <2>2 DEF decide_approval, transition, move_incident
  <2>3. CASE ~approve
    BY <1>2, <2>1, <2>3, CancelledTypes DEF decide_approval
  <2>4. QED
    BY <2>2, <2>3
<1>3. ASSUME NEW k \in Keys,
             select_expired(k)
      PROVE  TypeInv'
  BY <1>3 DEF select_expired
<1>4. ASSUME NEW k \in Keys,
             expire_approval(k)
      PROVE  TypeInv'
  <2>1. CASE status[k] = "AWAITING_APPROVAL"
    <3>1. finish_cancelled(k, "ESCALATED")
      BY <1>4, <2>1 DEF expire_approval
    <3>2. approval' \in [Keys -> [decision : {"none", "approved", "rejected", "timed_out"},
                                 approver : Humans \cup {NoOne}]]
      <4>1. approval' = [approval EXCEPT ![k] =
                [decision |-> "timed_out", approver |-> NoOne]]
        BY <1>4, <2>1 DEF expire_approval
      <4>2. QED
        BY <4>1
    <3>3. QED
      BY <1>4, <3>1, <3>2, CancelledTypes DEF expire_approval
  <2>2. CASE status[k] # "AWAITING_APPROVAL"
    BY <1>4, <2>2 DEF expire_approval
  <2>3. QED
    BY <2>1, <2>2
<1>5. ASSUME NEW k \in Keys,
             cancel(k)
      PROVE  TypeInv'
  BY <1>5, CancelledTypes DEF cancel
<1>6. ASSUME NEW k \in Keys, NEW w \in Owners,
             claim_interrupted(k, w)
      PROVE  TypeInv'
  BY <1>6 DEF claim_interrupted
<1>7. ASSUME NEW k \in Keys, NEW drift \in BOOLEAN,
             claim_blocked(k, drift)
      PROVE  TypeInv'
  <2>1. CASE finish_cancelled(k, "ESCALATED")
    BY <1>7, <2>1, CancelledTypes DEF claim_blocked
  <2>2. CASE finish_failed(k)
    BY <1>7, <2>2, FailedTypes DEF claim_blocked
  <2>3. QED
    BY <1>7, <2>1, <2>2 DEF claim_blocked
<1>8. ASSUME NEW k \in Keys, NEW w \in Owners,
             claim_started(k, w)
      PROVE  TypeInv'
  <2>1. proposal[k] \in Proposals /\ Known(proposal[k])
    BY <1>8 DEF claim_started, Claimable
  <2>2. proposal[k].action_id \in ActionIds
    BY <2>1 DEF Known, CATALOG
  <2>3. entry(k).max_attempts \in 1..MaxAttempts
    BY <2>2, AttemptLimit DEF entry
  <2>4. attempts[k] + 1 \in 0..MaxAttempts
    <3>1. attempts[k] \in 0..MaxAttempts
      OBVIOUS
    <3>2. ~(attempts[k] >= entry(k).max_attempts)
      BY <1>8 DEF claim_started, execution_blocker
    <3> HIDE DEF TypeInv
    <3>3. QED
      BY <2>3, <3>1, <3>2 DEF MaxAttempts
  <2>5. execution' \in [Keys -> [Attempts -> ExecutionStatus \cup {"none"}]]
    BY <1>8 DEF claim_started
  <2>6. QED
    BY <1>8, <2>1, <2>4, <2>5 DEF claim_started, transition
<1>9. ASSUME NEW k \in Keys, NEW n \in Attempts, NEW w \in Owners,
                  NEW outcome \in Outcomes, NEW retryable \in BOOLEAN,
             complete_execution(k, n, w, outcome, retryable)
      PROVE  TypeInv'
  <2> DEFINE settled == CASE outcome = "succeeded" -> "SUCCEEDED"
                          [] outcome = "timed_out" -> "TIMED_OUT"
                          [] OTHER -> "FAILED"
  <2>1. settled \in ExecutionStatus
    BY DEF Outcomes
  <2>2. execution' = [execution EXCEPT ![k][n] = settled]
    BY <1>9 DEF complete_execution
  <2> HIDE DEF settled
  <2>3. execution' \in [Keys -> [Attempts -> ExecutionStatus \cup {"none"}]]
    BY <2>1, <2>2
  <2>4. UNCHANGED <<proposal, newest, approval, attempts, baseline, switches, expiring>>
    BY <1>9 DEF complete_execution
  <2>5. CASE /\ transition(k, "EXECUTED")
             /\ release_lease(k)
             /\ request_verification(k)
             /\ move_incident({"REMEDIATION_IN_PROGRESS"}, "VERIFYING")
    BY <2>3, <2>4, <2>5
       DEF request_verification, transition, release_lease, move_incident, Released
  <2>6. CASE release_lease(k) /\ UNCHANGED <<incident, status, verification>>
    BY <2>3, <2>4, <2>6 DEF release_lease, Released
  <2>7. CASE finish_failed(k) /\ UNCHANGED verification
    BY <2>3, <2>4, <2>7, FailedTypes
  <2>8. QED
    BY <1>9, <2>5, <2>6, <2>7 DEF complete_execution
<1>10. ASSUME NEW k \in Keys, NEW w \in Owners,
             record_baseline(k, w)
      PROVE  TypeInv'
  BY <1>10 DEF record_baseline
<1>11. ASSUME NEW k \in Keys,
             lease_expires(k)
      PROVE  TypeInv'
  BY <1>11 DEF lease_expires
<1>12. ASSUME NEW scope \in Switchable, NEW engaged \in BOOLEAN,
             set_kill_switch(scope, engaged)
      PROVE  TypeInv'
  BY <1>12, RemediationAssumption DEF set_kill_switch, Scopes
<1>13. CASE other_service_moves_incident
  BY <1>13 DEF other_service_moves_incident, Lifecycle!AlertEdges,
            Lifecycle!InvestigationEdges, Lifecycle!VerificationEdges
<1>14. CASE UNCHANGED vars
  BY <1>14 DEF vars
<1>15. QED
  BY <1>1, <1>2, <1>3, <1>4, <1>5, <1>6, <1>7, <1>8, <1>9, <1>10, <1>11, <1>12, <1>13, <1>14 DEF Next

(* Type correctness of the remediation rows, the incident and the          *)
(* executions: no sequence of commands makes an attempt beyond the catalog *)
(* or leaves a column outside its domain.                                  *)
THEOREM TypeCorrect == Spec => []TypeOK
<1>1. Spec => []TypeInv
  BY TypeInit, TypeStep, PTL DEF Spec
<1>2. TypeInv => TypeOK
  BY DEF TypeInv
<1>3. QED
  BY <1>1, <1>2, PTL

-----------------------------------------------------------------------------
(* The incident and the remediation that holds it *)

Coupled == IncidentMatchesRemediation /\ OneLiveRemediation

LEMMA CoupledInit == Init => Coupled
  BY DEF Init, Coupled, IncidentMatchesRemediation, OneLiveRemediation, Live

(* The remediation that holds the incident determines its status. *)
LEMMA Holder ==
    ASSUME Coupled, NEW k \in Keys, status[k] \in Live
    PROVE  /\ \A j \in Keys : status[j] \in Live => j = k
           /\ status[k] = "AWAITING_APPROVAL" => incident = "AWAITING_APPROVAL"
           /\ status[k] # "AWAITING_APPROVAL" => incident = "REMEDIATION_IN_PROGRESS"
  BY DEF Coupled, IncidentMatchesRemediation, OneLiveRemediation, Live

(* When the holder lets go and the incident leaves the two statuses that   *)
(* need a holder, the agreement is kept.                                   *)
LEMMA LetGo ==
    ASSUME Coupled, TypeOK, NEW k \in Keys, status[k] \in Live, NEW to,
           status' = [status EXCEPT ![k] = to], to \notin Live,
           incident' \notin {"AWAITING_APPROVAL", "REMEDIATION_IN_PROGRESS"}
    PROVE  Coupled'
<1>1. \A j \in Keys : status'[j] \notin Live
  BY Holder DEF TypeOK
<1>2. QED
  BY <1>1 DEF Coupled, IncidentMatchesRemediation, OneLiveRemediation, Live

LEMMA CancelledCoupled ==
    ASSUME Coupled, TypeOK, NEW k \in Keys, status[k] \in Live,
           NEW to \in {"RCA_READY", "ESCALATED"}, finish_cancelled(k, to)
    PROVE  Coupled'
<1>1. incident' = to
  BY Holder DEF finish_cancelled, move_incident
<1>2. QED
  BY <1>1, LetGo DEF finish_cancelled, transition, Live

LEMMA FailedCoupled ==
    ASSUME Coupled, TypeOK, NEW k \in Keys, status[k] \in Live, finish_failed(k)
    PROVE  Coupled'
<1>1. incident' = "ESCALATED"
  BY Holder DEF finish_failed, move_incident
<1>2. QED
  BY <1>1, LetGo DEF finish_failed, transition, Live

LEMMA CoupledStep == TypeInv /\ Coupled /\ [Next]_vars => Coupled'
<1> SUFFICES ASSUME TypeInv, Coupled, [Next]_vars PROVE Coupled'
  OBVIOUS
<1> USE DEF TypeInv
<1>1. CASE UNCHANGED <<incident, status>>
  BY <1>1 DEF Coupled, IncidentMatchesRemediation, OneLiveRemediation
<1>2. ASSUME NEW k \in Keys, NEW p \in Proposals, NEW load \in HourlyLoads,
             propose(k, p, load)
      PROVE  Coupled'
  <2>1. CASE evaluate(p, context(p, load)) = "DENY"
    <3>1. status' = [status EXCEPT ![k] = "POLICY_REJECTED"] /\ status[k] = "none"
      BY <1>2, <2>1 DEF propose
    <3>2. \A j \in Keys : status'[j] # status[j]
                => status'[j] = "POLICY_REJECTED" /\ status[j] = "none"
      BY <3>1 DEF TypeOK
    <3>3. \/ incident' = incident
          \/ incident = "RCA_READY" /\ incident' = "ESCALATED"
      BY <1>2, <2>1 DEF propose, move_incident
    <3>4. QED
      BY <3>2, <3>3 DEF Coupled, IncidentMatchesRemediation, OneLiveRemediation, Live
  <2>2. CASE evaluate(p, context(p, load)) # "DENY"
    <3>1. incident = "RCA_READY"
      BY <2>2, NotDenied, RemediationAssumption DEF context
    <3>2. \A j \in Keys : status[j] \notin Live
      BY <3>1 DEF Coupled, IncidentMatchesRemediation, Live
    <3>3. status' = [status EXCEPT ![k] = "AWAITING_APPROVAL"]
          /\ incident' = "AWAITING_APPROVAL"
      BY <1>2, <2>2, <3>1 DEF propose, move_incident
    <3>4. QED
      BY <3>2, <3>3 DEF Coupled, IncidentMatchesRemediation, OneLiveRemediation, Live,
                        TypeOK
  <2>3. QED
    BY <2>1, <2>2
<1>3. ASSUME NEW k \in Keys, NEW seen \in Keys, NEW human \in Humans,
             NEW approve \in BOOLEAN, decide_approval(k, human, seen, approve)
      PROVE  Coupled'
  <2>1. status[k] = "AWAITING_APPROVAL"
    BY <1>3 DEF decide_approval
  <2>2. CASE approve
    <3>1. status' = [status EXCEPT ![k] = "APPROVED"]
          /\ incident' = "REMEDIATION_IN_PROGRESS"
      BY <1>3, <2>1, <2>2, Holder DEF decide_approval, transition, move_incident, Live
    <3>2. \A j \in Keys : status'[j] \in Live => j = k
      BY <2>1, <3>1, Holder DEF TypeOK, Live
    <3>3. QED
      BY <3>1, <3>2 DEF Coupled, IncidentMatchesRemediation, OneLiveRemediation, Live,
                        TypeOK
  <2>3. CASE ~approve
    BY <1>3, <2>1, <2>3, CancelledCoupled DEF decide_approval, Live
  <2>4. QED
    BY <2>2, <2>3
<1>4. ASSUME NEW k \in Keys, expire_approval(k)
      PROVE  Coupled'
  BY <1>1, <1>4, CancelledCoupled DEF expire_approval, Live
<1>5. ASSUME NEW k \in Keys, cancel(k)
      PROVE  Coupled'
  BY <1>5, CancelledCoupled DEF cancel, Live
<1>6. ASSUME NEW k \in Keys, NEW drift \in BOOLEAN, claim_blocked(k, drift)
      PROVE  Coupled'
  BY <1>6, CancelledCoupled, FailedCoupled DEF claim_blocked, Claimable, Live
<1>7. ASSUME NEW k \in Keys, NEW w \in Owners, claim_started(k, w)
      PROVE  Coupled'
  <2>1. status' = [status EXCEPT ![k] = "EXECUTING"] /\ incident' = incident
    BY <1>7 DEF claim_started, transition
  <2>2. status[k] \in {"APPROVED", "EXECUTING"}
    BY <1>7 DEF claim_started, Claimable
  <2>3. QED
    BY <2>1, <2>2 DEF Coupled, IncidentMatchesRemediation, OneLiveRemediation, Live,
                      TypeOK
<1>8. ASSUME NEW k \in Keys, NEW n \in Attempts, NEW w \in Owners,
             NEW outcome \in Outcomes, NEW retryable \in BOOLEAN,
             complete_execution(k, n, w, outcome, retryable)
      PROVE  Coupled'
  <2>1. status[k] = "EXECUTING"
    BY <1>8 DEF complete_execution
  <2>2. CASE /\ transition(k, "EXECUTED")
             /\ move_incident({"REMEDIATION_IN_PROGRESS"}, "VERIFYING")
    <3>1. incident' = "VERIFYING"
      BY <2>1, <2>2, Holder DEF move_incident, Live
    <3>2. QED
      BY <2>1, <2>2, <3>1, LetGo DEF transition, Live
  <2>3. CASE finish_failed(k)
    BY <2>1, <2>3, FailedCoupled DEF Live
  <2>4. QED
    BY <1>1, <1>8, <2>2, <2>3 DEF complete_execution
<1>9. CASE other_service_moves_incident
  BY <1>9 DEF other_service_moves_incident, Lifecycle!AlertEdges,
              Lifecycle!InvestigationEdges, Lifecycle!VerificationEdges, rows,
              Coupled, IncidentMatchesRemediation, OneLiveRemediation
<1>10. CASE \/ \E k \in Keys : select_expired(k) \/ lease_expires(k)
            \/ \E k \in Keys, w \in Owners : claim_interrupted(k, w) \/ record_baseline(k, w)
            \/ \E scope \in Switchable, engaged \in BOOLEAN :
                    set_kill_switch(scope, engaged)
  BY <1>1, <1>10 DEF select_expired, lease_expires, claim_interrupted, record_baseline,
                     set_kill_switch, rows
<1>11. CASE UNCHANGED vars
  BY <1>1, <1>11 DEF vars, rows
<1>12. QED
  BY <1>2, <1>3, <1>4, <1>5, <1>6, <1>7, <1>8, <1>9, <1>10, <1>11 DEF Next

LEMMA CoupledAlways == Spec => [](TypeInv /\ Coupled)
  BY TypeInit, TypeStep, CoupledInit, CoupledStep, PTL DEF Spec

(* The incident is AWAITING_APPROVAL exactly while a remediation waits for *)
(* approval, and REMEDIATION_IN_PROGRESS exactly while one is approved or  *)
(* executing: propose, decide_approval, expire_approvals, cancel,          *)
(* claim_execution and complete_execution never let the two rows part.     *)
THEOREM IncidentAgrees == Spec => []IncidentMatchesRemediation
  BY CoupledAlways, PTL DEF Coupled

(* At most one remediation of an incident is live, for any number of       *)
(* proposals: propose() relies on the policy rule about the incident's     *)
(* status, and the agreement above makes that rule enough.                 *)
THEOREM OneAtATime == Spec => []OneLiveRemediation
  BY CoupledAlways, PTL DEF Coupled

-----------------------------------------------------------------------------
(* Settled remediations *)

LEMMA SettledStep == TypeInv /\ Next => \A k \in Keys : SettledStays(k)
<1> SUFFICES ASSUME TypeInv, Next, NEW j \in Keys PROVE SettledStays(j)
  OBVIOUS
<1> USE DEF TypeInv, TypeOK, SettledStays, TERMINAL_REMEDIATION_STATUSES, rows
<1>1. ASSUME NEW k \in Keys, NEW p \in Proposals, NEW load \in HourlyLoads,
             propose(k, p, load)
      PROVE  SettledStays(j)
  BY <1>1 DEF propose
<1>2. ASSUME NEW k \in Keys, NEW seen \in Keys, NEW human \in Humans,
             NEW approve \in BOOLEAN, decide_approval(k, human, seen, approve)
      PROVE  SettledStays(j)
  BY <1>2 DEF decide_approval, transition, finish_cancelled
<1>3. ASSUME NEW k \in Keys, select_expired(k)
      PROVE  SettledStays(j)
  BY <1>3 DEF select_expired
<1>4. ASSUME NEW k \in Keys, expire_approval(k)
      PROVE  SettledStays(j)
  BY <1>4 DEF expire_approval, transition, finish_cancelled
<1>5. ASSUME NEW k \in Keys, cancel(k)
      PROVE  SettledStays(j)
  BY <1>5 DEF cancel, transition, finish_cancelled
<1>6. ASSUME NEW k \in Keys, NEW w \in Owners, claim_interrupted(k, w)
      PROVE  SettledStays(j)
  BY <1>6 DEF claim_interrupted, Claimable
<1>7. ASSUME NEW k \in Keys, NEW drift \in BOOLEAN, claim_blocked(k, drift)
      PROVE  SettledStays(j)
  BY <1>7 DEF claim_blocked, Claimable, transition, finish_cancelled, finish_failed
<1>8. ASSUME NEW k \in Keys, NEW w \in Owners, claim_started(k, w)
      PROVE  SettledStays(j)
  BY <1>8 DEF claim_started, Claimable, transition
<1>9. ASSUME NEW k \in Keys, NEW n \in Attempts, NEW w \in Owners,
             NEW outcome \in Outcomes, NEW retryable \in BOOLEAN,
             complete_execution(k, n, w, outcome, retryable)
      PROVE  SettledStays(j)
  <2>1. status[k] = "EXECUTING"
    BY <1>9 DEF complete_execution
  <2>2. j # k => execution'[j] = execution[j]
    BY <1>9 DEF complete_execution
  <2>3. j # k => status'[j] = status[j]
    BY <1>9 DEF complete_execution, transition, finish_failed
  <2>4. UNCHANGED <<proposal, approval, attempts>>
    BY <1>9 DEF complete_execution
  <2>5. QED
    BY <2>1, <2>2, <2>3, <2>4
<1>10. ASSUME NEW k \in Keys, NEW w \in Owners, record_baseline(k, w)
       PROVE  SettledStays(j)
  BY <1>10 DEF record_baseline
<1>11. ASSUME NEW k \in Keys, lease_expires(k)
       PROVE  SettledStays(j)
  BY <1>11 DEF lease_expires
<1>12. ASSUME NEW scope \in Switchable, NEW engaged \in BOOLEAN,
              set_kill_switch(scope, engaged)
       PROVE  SettledStays(j)
  BY <1>12 DEF set_kill_switch
<1>13. CASE other_service_moves_incident
  BY <1>13 DEF other_service_moves_incident
<1>14. QED
  BY <1>1, <1>2, <1>3, <1>4, <1>5, <1>6, <1>7, <1>8, <1>9, <1>10, <1>11, <1>12,
     <1>13 DEF Next

(* Nothing touches a settled remediation: a late approval, timeout, claim  *)
(* or completion finds it as it was left, and no command ever rewrites a   *)
(* proposal.                                                               *)
THEOREM SettledForGood == Spec => SettledIsFinal
<1>1. Spec => [](TypeInv /\ Coupled)
  BY CoupledAlways
<1>2. TypeInv /\ [Next]_vars => [\A k \in Keys : SettledStays(k)]_vars
  BY SettledStep
<1>3. QED
  BY <1>1, <1>2, PTL DEF Spec, SettledIsFinal

-----------------------------------------------------------------------------
(* Verification follows success *)

LEMMA VerifyingStep ==
    TypeInv /\ VerifyingHasVerification /\ [Next]_vars => VerifyingHasVerification'
<1> SUFFICES ASSUME TypeInv, VerifyingHasVerification, [Next]_vars,
                    incident' = "VERIFYING"
             PROVE  \E k \in Keys : status'[k] = "EXECUTED" /\ k \in verification'
  BY DEF VerifyingHasVerification
<1>1. CASE incident = "VERIFYING"
  <2>1. PICK k \in Keys : status[k] = "EXECUTED" /\ k \in verification
    BY <1>1 DEF VerifyingHasVerification
  <2>2. status'[k] = "EXECUTED"
    <3>1. CASE UNCHANGED vars
      BY <2>1, <3>1 DEF vars, rows
    <3>2. CASE Next
      BY <2>1, <3>2, SettledStep DEF SettledStays, TERMINAL_REMEDIATION_STATUSES
    <3>3. QED
      BY <3>1, <3>2
  <2>3. verification \subseteq verification'
    BY DEF Next, vars, rows, propose, decide_approval, select_expired, expire_approval,
           cancel, claim_interrupted, claim_blocked, claim_started, complete_execution,
           request_verification, record_baseline, lease_expires, set_kill_switch,
           other_service_moves_incident
  <2>4. QED
    BY <2>1, <2>2, <2>3
<1>2. CASE incident # "VERIFYING"
  <2>1. PICK k \in Keys, n \in Attempts, w \in Owners, outcome \in Outcomes,
             retryable \in BOOLEAN : complete_execution(k, n, w, outcome, retryable)
    <3>1. ASSUME NEW k \in Keys
          PROVE  /\ ~finish_cancelled(k, "RCA_READY")
                 /\ ~finish_cancelled(k, "ESCALATED")
                 /\ ~finish_failed(k)
      BY <1>2 DEF finish_cancelled, finish_failed, move_incident
    <3>2. ASSUME NEW k \in Keys
          PROVE  /\ \A p \in Proposals, load \in HourlyLoads : ~propose(k, p, load)
                 /\ \A seen \in Keys, human \in Humans, approve \in BOOLEAN :
                        ~decide_approval(k, human, seen, approve)
      BY <1>2, <3>1 DEF propose, decide_approval, move_incident
    <3>3. ASSUME NEW k \in Keys
          PROVE  ~(select_expired(k) \/ expire_approval(k) \/ cancel(k) \/ lease_expires(k))
      BY <1>2, <3>1 DEF select_expired, expire_approval, cancel, lease_expires
    <3>4. ASSUME NEW k \in Keys, NEW w \in Owners
          PROVE  ~(claim_interrupted(k, w) \/ claim_started(k, w) \/ record_baseline(k, w))
      BY <1>2 DEF claim_interrupted, claim_started, record_baseline
    <3>5. ASSUME NEW k \in Keys, NEW drift \in BOOLEAN
          PROVE  ~claim_blocked(k, drift)
      BY <3>1 DEF claim_blocked
    <3>6. ~other_service_moves_incident
      BY <1>2 DEF other_service_moves_incident, Lifecycle!AlertEdges,
                  Lifecycle!InvestigationEdges, Lifecycle!VerificationEdges
    <3>7. ASSUME NEW scope \in Switchable, NEW engaged \in BOOLEAN
          PROVE  ~set_kill_switch(scope, engaged)
      BY <1>2 DEF set_kill_switch
    <3>8. Next
      BY <1>2 DEF vars
    <3>9. QED
      BY <3>2, <3>3, <3>4, <3>5, <3>6, <3>7, <3>8 DEF Next
  <2>2. transition(k, "EXECUTED") /\ request_verification(k)
    BY <1>2, <2>1 DEF complete_execution, finish_failed, move_incident
  <2>3. QED
    BY <2>2 DEF transition, request_verification, TypeInv, TypeOK
<1>3. QED
  BY <1>1, <1>2

(* An incident being verified always has an executed remediation with a    *)
(* verification row: complete_execution creates both in one transaction    *)
(* and no later command takes either back.                                 *)
THEOREM VerifiedHasSomethingToVerify == Spec => []VerifyingHasVerification
<1>1. Init => VerifyingHasVerification
  BY DEF Init, VerifyingHasVerification
<1>2. QED
  BY <1>1, CoupledAlways, VerifyingStep, PTL DEF Spec

-----------------------------------------------------------------------------
(* Approval *)

ApprovedBy(k) ==
    /\ approval[k].decision = "approved"
    /\ Roster[approval[k].approver] \cap required_approver_roles(proposal[k]) # {}
    /\ proposal[k].source = "operator" => proposal[k].proposed_by # approval[k].approver

(* OnlyApprovedExecutes speaks of remediations with an attempt; an attempt *)
(* starts from APPROVED or from another attempt, so the approval has to be *)
(* known before, and neither may exist while a decision can still change.  *)
Bound(k) ==
    /\ status[k] \in {"APPROVED", "EXECUTING"} => ApprovedBy(k)
    /\ attempts[k] > 0 => ApprovedBy(k) /\ attempts[k] <= entry(k).max_attempts
    /\ status[k] \in {"none", "AWAITING_APPROVAL", "APPROVED"} => attempts[k] = 0

ApprovalsBind == \A k \in Keys : Bound(k)

(* A row whose approval, proposal and attempts stay, and whose status      *)
(* stays or is settled, keeps its bound.                                   *)
LEMMA BoundFrame ==
    ASSUME NEW k \in Keys, Bound(k),
           approval'[k] = approval[k], proposal'[k] = proposal[k],
           attempts'[k] = attempts[k],
           \/ status'[k] = status[k]
           \/ status'[k] \in TERMINAL_REMEDIATION_STATUSES
    PROVE  Bound(k)'
  BY DEF Bound, ApprovedBy, entry, TERMINAL_REMEDIATION_STATUSES

(* Only the row it names is changed by a command that ends a remediation.  *)
LEMMA EndedStatus ==
    ASSUME TypeOK, NEW k \in Keys, NEW j \in Keys, NEW to,
           finish_failed(k) \/ finish_cancelled(k, to)
    PROVE  status'[j] = status[j] \/ status'[j] \in TERMINAL_REMEDIATION_STATUSES
  BY DEF TypeOK, finish_failed, finish_cancelled, transition,
         TERMINAL_REMEDIATION_STATUSES

LEMMA ApprovalStep == TypeInv /\ ApprovalsBind /\ [Next]_vars => ApprovalsBind'
<1> SUFFICES ASSUME TypeInv, ApprovalsBind, [Next]_vars, NEW j \in Keys
             PROVE  Bound(j)'
  BY DEF ApprovalsBind
<1> USE DEF TypeInv
<1>0. Bound(j)
  BY DEF ApprovalsBind
<1>1. ASSUME NEW k \in Keys, NEW p \in Proposals, NEW load \in HourlyLoads,
             propose(k, p, load)
      PROVE  Bound(j)'
  <2>1. CASE j = k
    <3>1. attempts'[j] = 0
      BY <1>0, <1>1, <2>1 DEF propose, Bound
    <3>2. status'[j] \in {"POLICY_REJECTED", "AWAITING_APPROVAL"}
      BY <1>1, <2>1 DEF propose, TypeOK
    <3>3. QED
      BY <3>1, <3>2 DEF Bound
  <2>2. CASE j # k
    BY <1>0, <1>1, <2>2, BoundFrame DEF propose, TypeOK
  <2>3. QED
    BY <2>1, <2>2
<1>2. ASSUME NEW k \in Keys, NEW seen \in Keys, NEW human \in Humans,
             NEW approve \in BOOLEAN, decide_approval(k, human, seen, approve)
      PROVE  Bound(j)'
  <2>1. CASE j # k
    BY <1>0, <1>2, <2>1, BoundFrame
       DEF decide_approval, transition, finish_cancelled, TypeOK
  <2>2. CASE j = k
    <3>1. attempts'[j] = 0
      BY <1>0, <1>2, <2>2 DEF decide_approval, Bound
    <3>2. CASE approve
      <4>1. may_approve(j, human) /\ proposal' = proposal
        BY <1>2, <2>2, <3>2 DEF decide_approval
      <4>2. approval'[j] = [decision |-> "approved", approver |-> human]
        BY <1>2, <2>2, <3>2 DEF decide_approval, TypeOK
      <4>3. ApprovedBy(j)'
        BY <4>1, <4>2 DEF ApprovedBy, may_approve
      <4>4. status'[j] = "APPROVED"
        BY <1>2, <2>2, <3>2 DEF decide_approval, transition, TypeOK
      <4>5. QED
        BY <3>1, <4>3, <4>4 DEF Bound
    <3>3. CASE ~approve
      <4>1. status'[j] = "CANCELLED"
        BY <1>2, <2>2, <3>3 DEF decide_approval, finish_cancelled, transition, TypeOK
      <4>2. QED
        BY <3>1, <4>1 DEF Bound
    <3>4. QED
      BY <3>2, <3>3
  <2>3. QED
    BY <2>1, <2>2
<1>3. ASSUME NEW k \in Keys, expire_approval(k)
      PROVE  Bound(j)'
  <2>1. CASE j # k \/ status[k] # "AWAITING_APPROVAL"
    BY <1>0, <1>3, <2>1, BoundFrame
       DEF expire_approval, transition, finish_cancelled, TypeOK
  <2>2. CASE j = k /\ status[k] = "AWAITING_APPROVAL"
    <3>1. attempts'[j] = 0
      BY <1>0, <1>3, <2>2 DEF expire_approval, Bound
    <3>2. status'[j] = "CANCELLED"
      BY <1>3, <2>2 DEF expire_approval, finish_cancelled, transition, TypeOK
    <3>3. QED
      BY <3>1, <3>2 DEF Bound
  <2>3. QED
    BY <2>1, <2>2
<1>4. ASSUME NEW k \in Keys, cancel(k)
      PROVE  Bound(j)'
  BY <1>0, <1>4, BoundFrame, EndedStatus DEF cancel
<1>5. ASSUME NEW k \in Keys, NEW drift \in BOOLEAN, claim_blocked(k, drift)
      PROVE  Bound(j)'
  BY <1>0, <1>5, BoundFrame, EndedStatus DEF claim_blocked
<1>6. ASSUME NEW k \in Keys, NEW w \in Owners, claim_started(k, w)
      PROVE  Bound(j)'
  <2>1. CASE j # k
    BY <1>0, <1>6, <2>1, BoundFrame DEF claim_started, transition, TypeOK
  <2>2. CASE j = k
    <3>1. ApprovedBy(j)'
      BY <1>0, <1>6, <2>2 DEF claim_started, Claimable, Bound, ApprovedBy
    <3>2. status'[j] = "EXECUTING"
      BY <1>6, <2>2 DEF claim_started, transition, TypeOK
    <3>3. attempts'[j] = attempts[j] + 1 /\ attempts[j] \in Nat
      BY <1>6, <2>2 DEF claim_started, TypeOK
    <3>4. entry(j)' = entry(j)
      BY <1>6 DEF claim_started, entry
    <3>5. proposal[j].action_id \in ActionIds
      BY <1>6, <2>2 DEF claim_started, Claimable, LiveIsKnown, Live, Known, CATALOG
    <3>6. entry(j).max_attempts \in Nat
      BY <3>5, AttemptLimit DEF entry, MaxAttempts
    <3>7. ~(attempts[j] >= entry(j).max_attempts)
      BY <1>6, <2>2 DEF claim_started, execution_blocker
    <3>8. attempts'[j] <= entry(j).max_attempts
      BY <3>3, <3>6, <3>7
    <3>9. QED
      BY <3>1, <3>2, <3>4, <3>8 DEF Bound
  <2>3. QED
    BY <2>1, <2>2
<1>7. ASSUME NEW k \in Keys, NEW n \in Attempts, NEW w \in Owners,
             NEW outcome \in Outcomes, NEW retryable \in BOOLEAN,
             complete_execution(k, n, w, outcome, retryable)
      PROVE  Bound(j)'
  <2>1. UNCHANGED <<proposal, approval, attempts>>
    BY <1>7 DEF complete_execution
  <2>2. status'[j] = status[j] \/ status'[j] \in TERMINAL_REMEDIATION_STATUSES
    <3>1. CASE transition(k, "EXECUTED")
      BY <3>1 DEF transition, TypeOK, TERMINAL_REMEDIATION_STATUSES
    <3>2. CASE finish_failed(k)
      BY <3>2, EndedStatus
    <3>3. QED
      BY <1>7, <3>1, <3>2 DEF complete_execution
  <2>3. QED
    BY <1>0, <2>1, <2>2, BoundFrame
<1>8. CASE \/ \E k \in Keys : select_expired(k) \/ lease_expires(k)
           \/ \E k \in Keys, w \in Owners : claim_interrupted(k, w) \/ record_baseline(k, w)
           \/ \E scope \in Switchable, engaged \in BOOLEAN :
                   set_kill_switch(scope, engaged)
           \/ other_service_moves_incident
           \/ UNCHANGED vars
  <2>1. UNCHANGED <<status, proposal, approval, attempts>>
    BY <1>8 DEF select_expired, lease_expires, claim_interrupted, record_baseline,
                set_kill_switch, other_service_moves_incident, vars, rows
  <2>2. QED
    BY <1>0, <2>1, BoundFrame
<1>9. QED
  BY <1>1, <1>2, <1>3, <1>4, <1>5, <1>6, <1>7, <1>8 DEF Next

LEMMA ApprovalsAlways == Spec => []ApprovalsBind
<1>1. Init => ApprovalsBind
  BY DEF Init, ApprovalsBind, Bound
<1>2. QED
  BY <1>1, CoupledAlways, ApprovalStep, PTL DEF Spec

(* Every remediation that ever made an attempt was approved by a human     *)
(* with an eligible role who did not propose it as an operator, and made   *)
(* no more attempts than its catalog entry allows: decide_approval,        *)
(* expire_approvals, claim_execution and complete_execution in any order.  *)
THEOREM ApprovedBeforeExecution == Spec => []OnlyApprovedExecutes
<1>1. ApprovalsBind => OnlyApprovedExecutes
  BY DEF ApprovalsBind, Bound, ApprovedBy, OnlyApprovedExecutes
<1>2. QED
  BY <1>1, ApprovalsAlways, PTL

-----------------------------------------------------------------------------
(* The documented lifecycle *)

LEMMA LifecycleStep == [Next]_vars => [Lifecycle!Move]_incident
<1> SUFFICES ASSUME [Next]_vars, incident' # incident PROVE Lifecycle!Move
  OBVIOUS
<1> USE DEF Lifecycle!Move, Lifecycle!Edges, Lifecycle!AlertEdges,
            Lifecycle!InvestigationEdges, Lifecycle!RemediationEdges,
            Lifecycle!VerificationEdges
<1>1. ASSUME NEW k \in Keys,
             \/ finish_cancelled(k, "RCA_READY")
             \/ finish_cancelled(k, "ESCALATED")
             \/ finish_failed(k)
      PROVE  Lifecycle!Move
  BY <1>1 DEF finish_cancelled, finish_failed, move_incident
<1>2. ASSUME NEW k \in Keys, NEW p \in Proposals, NEW load \in HourlyLoads,
             propose(k, p, load)
      PROVE  Lifecycle!Move
  BY <1>2 DEF propose, move_incident
<1>3. ASSUME NEW k \in Keys, NEW seen \in Keys, NEW human \in Humans,
             NEW approve \in BOOLEAN, decide_approval(k, human, seen, approve)
      PROVE  Lifecycle!Move
  BY <1>1, <1>3 DEF decide_approval, move_incident
<1>4. ASSUME NEW k \in Keys, expire_approval(k) \/ cancel(k)
      PROVE  Lifecycle!Move
  BY <1>1, <1>4 DEF expire_approval, cancel
<1>5. ASSUME NEW k \in Keys, NEW drift \in BOOLEAN, claim_blocked(k, drift)
      PROVE  Lifecycle!Move
  BY <1>1, <1>5 DEF claim_blocked
<1>6. ASSUME NEW k \in Keys, NEW n \in Attempts, NEW w \in Owners,
             NEW outcome \in Outcomes, NEW retryable \in BOOLEAN,
             complete_execution(k, n, w, outcome, retryable)
      PROVE  Lifecycle!Move
  BY <1>1, <1>6 DEF complete_execution, move_incident
<1>7. CASE other_service_moves_incident
  BY <1>7 DEF other_service_moves_incident
<1>8. CASE \/ \E k \in Keys : select_expired(k) \/ lease_expires(k)
           \/ \E k \in Keys, w \in Owners :
                claim_interrupted(k, w) \/ claim_started(k, w) \/ record_baseline(k, w)
           \/ \E scope \in Switchable, engaged \in BOOLEAN :
                set_kill_switch(scope, engaged)
           \/ UNCHANGED vars
  BY <1>8 DEF select_expired, lease_expires, claim_interrupted, claim_started,
              record_baseline, set_kill_switch, vars
<1>9. QED
  BY <1>2, <1>3, <1>4, <1>5, <1>6, <1>7, <1>8 DEF Next

(* The only edge of the services that the documentation does not list.     *)
LEMMA OneEdgeMore ==
    Lifecycle!Move => \/ Lifecycle!DocumentedMove
                      \/ incident = "REMEDIATION_IN_PROGRESS" /\ incident' = "RCA_READY"
  BY DEF Lifecycle!Move, Lifecycle!Edges, Lifecycle!AlertEdges,
         Lifecycle!InvestigationEdges, Lifecycle!RemediationEdges,
         Lifecycle!VerificationEdges, Lifecycle!DocumentedMove,
         Lifecycle!DocumentedEdges, Lifecycle!IncidentStatus, Lifecycle!Terminal

(* Only cancel() takes it, and of the remediation that holds the incident: *)
(* that one is APPROVED and has no attempt yet.                            *)
LEMMA BackToRcaReady ==
    ASSUME TypeInv, Coupled, ApprovalsBind, Next,
           incident = "REMEDIATION_IN_PROGRESS", incident' = "RCA_READY"
    PROVE  Withdrawn
<1>1. ASSUME NEW k \in Keys, cancel(k) PROVE Withdrawn
  <2>1. status[k] \in Live
    BY <1>1 DEF cancel, Live
  <2>2. status[k] = "APPROVED"
    BY <1>1, <2>1, Holder DEF cancel
  <2>3. attempts[k] = 0
    BY <2>2 DEF ApprovalsBind, Bound
  <2>4. status'[k] = "CANCELLED"
    BY <1>1 DEF cancel, finish_cancelled, transition, TypeInv, TypeOK
  <2>5. QED
    BY <2>2, <2>3, <2>4 DEF Withdrawn
<1>2. ASSUME NEW k \in Keys, finish_cancelled(k, "ESCALATED") \/ finish_failed(k)
      PROVE  FALSE
  BY <1>2 DEF finish_cancelled, finish_failed, move_incident
<1>3. ASSUME NEW k \in Keys, NEW p \in Proposals, NEW load \in HourlyLoads,
             propose(k, p, load)
      PROVE  FALSE
  BY <1>3 DEF propose, move_incident
<1>4. ASSUME NEW k \in Keys, NEW seen \in Keys, NEW human \in Humans,
             NEW approve \in BOOLEAN, decide_approval(k, human, seen, approve)
      PROVE  FALSE
  BY <1>2, <1>4 DEF decide_approval, move_incident
<1>5. ASSUME NEW k \in Keys, expire_approval(k)
      PROVE  FALSE
  BY <1>2, <1>5 DEF expire_approval
<1>6. ASSUME NEW k \in Keys, NEW drift \in BOOLEAN, claim_blocked(k, drift)
      PROVE  FALSE
  BY <1>2, <1>6 DEF claim_blocked
<1>7. ASSUME NEW k \in Keys, NEW n \in Attempts, NEW w \in Owners,
             NEW outcome \in Outcomes, NEW retryable \in BOOLEAN,
             complete_execution(k, n, w, outcome, retryable)
      PROVE  FALSE
  BY <1>2, <1>7 DEF complete_execution, move_incident
<1>8. CASE other_service_moves_incident
  BY <1>8 DEF other_service_moves_incident, Lifecycle!AlertEdges,
              Lifecycle!InvestigationEdges, Lifecycle!VerificationEdges
<1>9. CASE \/ \E k \in Keys : select_expired(k) \/ lease_expires(k)
           \/ \E k \in Keys, w \in Owners :
                claim_interrupted(k, w) \/ claim_started(k, w) \/ record_baseline(k, w)
           \/ \E scope \in Switchable, engaged \in BOOLEAN :
                set_kill_switch(scope, engaged)
  BY <1>9 DEF select_expired, lease_expires, claim_interrupted, claim_started,
              record_baseline, set_kill_switch
<1>10. QED
  BY <1>1, <1>3, <1>4, <1>5, <1>6, <1>7, <1>8, <1>9 DEF Next

(* Whatever proposals, humans, sweeps and workers do, the incident moves   *)
(* along the documented edges, with one exception: cancel() of an APPROVED *)
(* remediation that made no attempt takes it back to RCA_READY.  The       *)
(* argument needs more than the edges: that the incident under remediation *)
(* belongs to that row, and that APPROVED means no attempt.                *)
THEOREM DocumentedButForWithdrawal == Spec => LeavesTheTableOnlyToWithdraw
<1>1. TypeInv /\ Coupled /\ ApprovalsBind /\ [Next]_vars
        => [Lifecycle!DocumentedMove \/ Withdrawn]_incident
  <2> SUFFICES ASSUME TypeInv, Coupled, ApprovalsBind, [Next]_vars,
                      incident' # incident
               PROVE  Lifecycle!DocumentedMove \/ Withdrawn
    OBVIOUS
  <2>1. Next
    BY DEF vars
  <2>2. Lifecycle!Move
    BY LifecycleStep
  <2>3. QED
    BY <2>1, <2>2, OneEdgeMore, BackToRcaReady
<1>2. QED
  BY <1>1, CoupledAlways, ApprovalsAlways, PTL
     DEF Spec, LeavesTheTableOnlyToWithdraw

-----------------------------------------------------------------------------
(* The limit on remediations that act *)

(* A proposal that is not denied was made with the limit not yet reached.  *)
LEMMA NotDeniedBelowLimit ==
    ASSUME NEW p \in Proposal, NEW ctx, evaluate(p, ctx) # "DENY",
           ctx.attempted \in Nat
    PROVE  ctx.attempted < max_attempted_remediations_per_incident
<1>1. denying_rules(p, ctx) = {}
  BY DEF evaluate
<1>2. ctx.attempted >= max_attempted_remediations_per_incident
        => "attempts.per_incident" \in denying_rules(p, ctx)
  BY DEF denying_rules
<1>3. QED
  BY <1>1, <1>2 DEF max_attempted_remediations_per_incident

Tried == {k \in Keys : attempts[k] > 0}

(* Policy counts the rows whose status is EXECUTING, EXECUTED or FAILED;   *)
(* the limit is about rows with an attempt.  They differ in the rows a     *)
(* kill switch cancelled between attempts, which leave the incident        *)
(* ESCALATED, where nothing is proposed; and a row that holds the incident *)
(* and has not acted yet has a place kept for it.                          *)
TriedWithinLimit ==
    /\ Cardinality(Tried) <= 2
    /\ \A k \in Keys : status[k] \in Live /\ attempts[k] = 0
            => Cardinality(Tried) <= 1
    /\ \A k \in Keys : attempts[k] > 0
            => \/ status[k] \in ATTEMPTED_REMEDIATION_STATUSES
               \/ status[k] = "CANCELLED" /\ incident = "ESCALATED"

LEMMA TriedFinite ==
    ASSUME TypeOK PROVE IsFiniteSet(Tried) /\ Cardinality(Tried) \in Nat
  BY RemediationAssumption, FS_Subset, FS_CardinalityType DEF Tried

(* ESCALATED is where automation ends: no command leaves it. *)
LEMMA EscalatedStays ==
    ASSUME [Next]_vars, incident = "ESCALATED" PROVE incident' = "ESCALATED"
  BY LifecycleStep DEF Lifecycle!Move, Lifecycle!Edges, Lifecycle!AlertEdges,
         Lifecycle!InvestigationEdges, Lifecycle!RemediationEdges,
         Lifecycle!VerificationEdges

(* A step that makes no attempt and lets no new row hold the incident      *)
(* keeps the limit, provided rows with an attempt end in the ways above.   *)
LEMMA LimitFrame ==
    ASSUME TriedWithinLimit, [Next]_vars, attempts' = attempts,
           \A j \in Keys : status'[j] \in Live => status[j] \in Live,
           \A j \in Keys : attempts[j] > 0 =>
                \/ status'[j] = status[j]
                \/ status'[j] \in ATTEMPTED_REMEDIATION_STATUSES
                \/ status'[j] = "CANCELLED" /\ incident' = "ESCALATED"
    PROVE  TriedWithinLimit'
<1>1. Tried' = Tried
  BY DEF Tried
<1>2. QED
  BY <1>1, EscalatedStays DEF TriedWithinLimit

LEMMA LimitStep ==
    TypeInv /\ Coupled /\ TriedWithinLimit /\ [Next]_vars => TriedWithinLimit'
<1> SUFFICES ASSUME TypeInv, Coupled, TriedWithinLimit, [Next]_vars
             PROVE  TriedWithinLimit'
  OBVIOUS
<1> USE DEF TypeInv
<1>0. \A j \in Keys : status[j] \in {"none", "AWAITING_APPROVAL", "APPROVED"}
                        => ~(attempts[j] > 0)
  BY DEF TriedWithinLimit, ATTEMPTED_REMEDIATION_STATUSES
<1>1. ASSUME NEW k \in Keys, NEW p \in Proposals, NEW load \in HourlyLoads,
             propose(k, p, load)
      PROVE  TriedWithinLimit'
  <2>1. attempts' = attempts /\ status[k] = "none"
    BY <1>1 DEF propose
  <2>2. \A j \in Keys : j # k => status'[j] = status[j]
    BY <1>1 DEF propose, TypeOK
  <2>3. CASE evaluate(p, context(p, load)) = "DENY"
    <3>1. status'[k] = "POLICY_REJECTED"
      BY <1>1, <2>3 DEF propose, TypeOK
    <3>2. QED
      BY <1>0, <2>1, <2>2, <3>1, LimitFrame DEF Live
  <2>4. CASE evaluate(p, context(p, load)) # "DENY"
    <3> DEFINE Counted == {j \in Keys : status[j] \in ATTEMPTED_REMEDIATION_STATUSES}
    <3>1. incident = "RCA_READY"
      BY <2>4, NotDenied, RemediationAssumption DEF context
    <3>2. Tried \subseteq Counted
      BY <3>1 DEF TriedWithinLimit, Tried
    <3>3. IsFiniteSet(Counted)
      BY RemediationAssumption, FS_Subset
    <3>4. /\ Cardinality(Tried) <= Cardinality(Counted)
          /\ Cardinality(Counted) \in Nat
          /\ Cardinality(Tried) \in Nat
      BY <3>2, <3>3, FS_Subset, FS_CardinalityType, TriedFinite
    <3>5. context(p, load).attempted = Cardinality(Counted)
      BY DEF context
    <3>6. Cardinality(Counted) < 2
      BY <2>4, <3>4, <3>5, NotDeniedBelowLimit, RemediationAssumption
         DEF max_attempted_remediations_per_incident
    <3>7. Cardinality(Tried) <= 1
      BY <3>4, <3>6
    <3>8. Tried' = Tried
      BY <2>1 DEF Tried
    <3>9. \A j \in Keys : attempts'[j] > 0
            => status'[j] \in ATTEMPTED_REMEDIATION_STATUSES
      BY <1>0, <2>1, <2>2, <3>1 DEF TriedWithinLimit
    <3>10. QED
      BY <3>4, <3>7, <3>8, <3>9 DEF TriedWithinLimit
  <2>5. QED
    BY <2>3, <2>4
<1>2. ASSUME NEW k \in Keys, NEW seen \in Keys, NEW human \in Humans,
             NEW approve \in BOOLEAN, decide_approval(k, human, seen, approve)
      PROVE  TriedWithinLimit'
  <2>1. attempts' = attempts /\ status[k] = "AWAITING_APPROVAL"
    BY <1>2 DEF decide_approval
  <2>2. \A j \in Keys : j # k => status'[j] = status[j]
    BY <1>2 DEF decide_approval, transition, finish_cancelled, TypeOK
  <2>3. QED
    BY <1>0, <2>1, <2>2, LimitFrame DEF Live
<1>3. ASSUME NEW k \in Keys, expire_approval(k)
      PROVE  TriedWithinLimit'
  <2>1. attempts' = attempts
    BY <1>3 DEF expire_approval
  <2>2. \A j \in Keys : j # k \/ status[k] # "AWAITING_APPROVAL" => status'[j] = status[j]
    BY <1>3 DEF expire_approval, transition, finish_cancelled, TypeOK
  <2>3. QED
    BY <1>0, <2>1, <2>2, LimitFrame DEF Live
<1>4. ASSUME NEW k \in Keys, cancel(k)
      PROVE  TriedWithinLimit'
  <2>1. attempts' = attempts /\ status[k] \in {"AWAITING_APPROVAL", "APPROVED"}
    BY <1>4 DEF cancel
  <2>2. \A j \in Keys : j # k => status'[j] = status[j]
    BY <1>4 DEF cancel, transition, finish_cancelled, TypeOK
  <2>3. QED
    BY <1>0, <2>1, <2>2, LimitFrame DEF Live
<1>5. ASSUME NEW k \in Keys, NEW drift \in BOOLEAN, claim_blocked(k, drift)
      PROVE  TriedWithinLimit'
  <2>1. attempts' = attempts /\ status[k] \in Live
    BY <1>5 DEF claim_blocked, Claimable, Live
  <2>2. incident' = "ESCALATED"
    BY <1>5, <2>1, Holder DEF claim_blocked, finish_cancelled, finish_failed, move_incident
  <2>3. \A j \in Keys : j # k => status'[j] = status[j]
    BY <1>5 DEF claim_blocked, transition, finish_cancelled, finish_failed, TypeOK
  <2>4. status'[k] \in {"CANCELLED", "FAILED"}
    BY <1>5 DEF claim_blocked, transition, finish_cancelled, finish_failed, TypeOK
  <2>5. QED
    BY <2>1, <2>2, <2>3, <2>4, LimitFrame DEF Live, ATTEMPTED_REMEDIATION_STATUSES
<1>6. ASSUME NEW k \in Keys, NEW w \in Owners, claim_started(k, w)
      PROVE  TriedWithinLimit'
  <2>1. Tried' = Tried \cup {k}
    <3>1. attempts' = [attempts EXCEPT ![k] = attempts[k] + 1]
      BY <1>6 DEF claim_started
    <3>2. \A j \in Keys : attempts[j] \in 0..2
      BY DEF TypeOK, MaxAttempts
    <3>3. attempts'[k] > 0 /\ \A j \in Keys : j # k => attempts'[j] = attempts[j]
      BY <3>1, <3>2 DEF TypeOK
    <3>4. QED
      BY <3>3 DEF Tried
  <2>2. status[k] \in Live
    BY <1>6 DEF claim_started, Claimable, Live
  <2>3. /\ status'[k] = "EXECUTING"
        /\ \A j \in Keys : j # k => status'[j] = status[j] /\ attempts'[j] = attempts[j]
        /\ incident' = incident
    BY <1>6 DEF claim_started, transition, TypeOK
  <2>4. /\ IsFiniteSet(Tried)
        /\ Cardinality(Tried) \in Nat
        /\ Cardinality(Tried') = IF k \in Tried THEN Cardinality(Tried)
                                               ELSE Cardinality(Tried) + 1
    BY <2>1, TriedFinite, FS_AddElement
  <2>5. Cardinality(Tried') <= 2
    <3>1. CASE k \in Tried
      BY <2>4, <3>1 DEF TriedWithinLimit
    <3>2. CASE k \notin Tried
      <4>1. attempts[k] = 0
        BY <3>2 DEF Tried, TypeOK, MaxAttempts
      <4>2. QED
        BY <2>2, <2>4, <3>2, <4>1 DEF TriedWithinLimit
    <3>3. QED
      BY <3>1, <3>2
  <2>6. \A j \in Keys : ~(status'[j] \in Live /\ attempts'[j] = 0)
    <3>1. attempts'[k] # 0
      BY <2>1 DEF Tried
    <3>2. \A j \in Keys : j # k => status'[j] \notin Live
      BY <2>2, <2>3, Holder
    <3>3. QED
      BY <3>1, <3>2
  <2>7. QED
    BY <2>3, <2>5, <2>6 DEF TriedWithinLimit, ATTEMPTED_REMEDIATION_STATUSES
<1>7. ASSUME NEW k \in Keys, NEW n \in Attempts, NEW w \in Owners,
             NEW outcome \in Outcomes, NEW retryable \in BOOLEAN,
             complete_execution(k, n, w, outcome, retryable)
      PROVE  TriedWithinLimit'
  <2>1. attempts' = attempts
    BY <1>7 DEF complete_execution
  <2>2. \A j \in Keys : status'[j] = status[j] \/ status'[j] \in {"EXECUTED", "FAILED"}
    BY <1>7 DEF complete_execution, transition, finish_failed, TypeOK
  <2>3. QED
    BY <2>1, <2>2, LimitFrame DEF Live, ATTEMPTED_REMEDIATION_STATUSES
<1>8. CASE \/ \E k \in Keys : select_expired(k) \/ lease_expires(k)
           \/ \E k \in Keys, w \in Owners : claim_interrupted(k, w) \/ record_baseline(k, w)
           \/ \E scope \in Switchable, engaged \in BOOLEAN :
                   set_kill_switch(scope, engaged)
           \/ other_service_moves_incident
           \/ UNCHANGED vars
  <2>1. UNCHANGED <<status, attempts>>
    BY <1>8 DEF select_expired, lease_expires, claim_interrupted, record_baseline,
                set_kill_switch, other_service_moves_incident, vars, rows
  <2>2. QED
    BY <2>1, LimitFrame
<1>9. QED
  BY <1>1, <1>2, <1>3, <1>4, <1>5, <1>6, <1>7, <1>8 DEF Next

(* No more remediations ever act for an incident than policy allows, for   *)
(* any number of proposals and however kill switches, retries and lost     *)
(* workers interleave.                                                     *)
THEOREM LimitHolds == Spec => []AttemptedRemediationsBounded
<1>1. Init => TriedWithinLimit
  <2> SUFFICES ASSUME Init PROVE TriedWithinLimit
    OBVIOUS
  <2>1. Tried = {}
    BY DEF Init, Tried
  <2>2. QED
    BY <2>1, FS_EmptySet DEF Init, TriedWithinLimit
<1>2. Spec => []TriedWithinLimit
  BY <1>1, CoupledAlways, LimitStep, PTL DEF Spec
<1>3. TriedWithinLimit => AttemptedRemediationsBounded
  BY DEF TriedWithinLimit, AttemptedRemediationsBounded, Tried,
         max_attempted_remediations_per_incident
<1>4. QED
  BY <1>2, <1>3, PTL

=============================================================================
