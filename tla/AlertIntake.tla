----------------------------- MODULE AlertIntake -----------------------------
(***************************************************************************)
(* Alert ingestion (apps/api/routers/alerts.py) and the command it sends,  *)
(* IncidentCoreService.handle_alert_received (packages/incident/service.py *)
(* and repository.py), by several requests at once.                        *)
(*                                                                         *)
(* A request is one transaction at READ COMMITTED: it reads the command    *)
(* ledger, waits for the advisory lock of its (service, environment),      *)
(* reads what it decides from, and commits or rolls back, which releases   *)
(* the lock.  The investigation scheduler and the services that carry the  *)
(* incident on take no advisory lock and may move an incident between any  *)
(* two of these steps.  Statuses between INVESTIGATING and an outcome are  *)
(* one here: intake tells apart TRIAGING, open and closed only.            *)
(*                                                                         *)
(* An external id is taken to name one label set, as Alertmanager's        *)
(* fingerprint:startsAt does.  Senders that choose the idempotency key     *)
(* themselves are left out.                                                *)
(***************************************************************************)
EXTENDS CorrelationEngine, Sequences, Functions

CONSTANTS
    Requests,                \* concurrent requests
    Notices,                 \* what is notified: an external id (or Absent) and labels
    CandidateLookback,       \* DEFAULT_CANDIDATE_LOOKBACK_SECONDS
    DebounceSeconds,         \* DEFAULT_DEBOUNCE_SECONDS of the idempotency key
    InvestigationDebounce,   \* investigation_debounce_seconds
    MaxAttempts,             \* investigations of one incident
    MaxTime, MaxReceived     \* bounds: clock ticks and requests received

ASSUME IntakeAssumption ==
    /\ {CandidateLookback, DebounceSeconds, MaxAttempts} \subseteq Nat \ {0}
    /\ {TemporalWindow, InvestigationDebounce, MaxTime, MaxReceived} \subseteq Nat
    /\ \A n, m \in Notices : n.ext = m.ext /\ n.ext # Absent => n = m

VARIABLES
    alerts,      \* alerts rows in the order their transactions committed
    incidents,   \* incidents rows
    ledger,      \* processed_commands: the idempotency keys
    outbox,      \* outbox_events: type and aggregate
    request,     \* per request: where it is and what it read
    received,    \* requests received so far
    time

rows == <<alerts, incidents, ledger, outbox>>
vars == <<rows, request, received, time>>

AlertStatus == {"firing", "resolved"}
CLOSED_INCIDENT_STATUSES == {"CLOSED", "CANCELLED", "SUPPRESSED", "RESOLVED"}
Idle == [at |-> "idle"]
Ignore == [kind |-> "ignore"]
None == 0      \* no incident: rows are numbered from 1

Init ==
    /\ alerts = <<>> /\ incidents = <<>>
    /\ ledger = {} /\ outbox = {}
    /\ request = [r \in Requests |-> Idle]
    /\ received = 0 /\ time = 0

linked(i) == {a \in DOMAIN alerts : alerts[a].incident = i}
firing(i) == {a \in linked(i) : alerts[a].status = "firing"}
open(i) == incidents[i].status \notin CLOSED_INCIDENT_STATUSES

-----------------------------------------------------------------------------
(* Receiving a notification *)

(* The firing and the resolved notification of an episode are two          *)
(* commands.  Without an external id the payload, its status included, is  *)
(* hashed together with the debounce bucket.                               *)
derive_alert_idempotency_key(n, status) ==
    [notice |-> n, status |-> status,
     bucket |-> IF n.ext # Absent THEN 0 ELSE time \div DebounceSeconds]

(* A known key is answered from the ledger and changes nothing.  The       *)
(* transaction begins here, and received_at is its time.                   *)
Receive(r) ==
    /\ request[r] = Idle
    /\ received < MaxReceived
    /\ \E n \in Notices, status \in AlertStatus :
        LET key == derive_alert_idempotency_key(n, status) IN
        /\ key \notin ledger
        /\ request' = [request EXCEPT ![r] =
             [at |-> "received", notice |-> n, status |-> status, key |-> key,
              began |-> time, plan |-> Ignore]]
    /\ received' = received + 1
    /\ UNCHANGED <<rows, time>>

lock_key(r) == <<request[r].notice.labels.service, request[r].notice.labels.environment>>
holds_lock(r) == request[r].at \in {"locked", "decided"}

Faulty_lock_is_free(r) == TRUE
lock_is_free(r) ==
    \A q \in Requests \ {r} : holds_lock(q) => lock_key(q) # lock_key(r)

acquire_correlation_lock(r) ==
    /\ request[r].at = "received"
    /\ lock_is_free(r)
    /\ request' = [request EXCEPT ![r].at = "locked"]
    /\ UNCHANGED <<rows, received, time>>

-----------------------------------------------------------------------------
(* What the transaction reads and decides *)

known(n) == {a \in DOMAIN alerts : n.ext # Absent /\ alerts[a].ext = n.ext}

(* Open incidents of the service and environment with their most recently  *)
(* received alerts; alerts received together all count as the latest.      *)
find_open_incident_candidates(labels) ==
    UNION {{[incident |-> i, labels |-> alerts[a].labels, at |-> alerts[a].at] :
              a \in {b \in linked(i) :
                      /\ \A c \in linked(i) : alerts[c].at <= alerts[b].at
                      /\ alerts[b].at >= time - CandidateLookback}} :
           i \in {j \in DOMAIN incidents :
                   /\ open(j)
                   /\ incidents[j].key.of.service = labels.service
                   /\ incidents[j].key.of.environment = labels.environment}}

new_incident_correlation_key(labels) ==
    [of |-> labels, bucket |-> time \div CandidateLookback]

Link(i) == [kind |-> "link", incident |-> i]
Create(k) == [kind |-> "create", key |-> k]

(* get_or_create_open_incident: the open incident of this key is adopted   *)
(* although the engine chose none.                                         *)
get_or_create_open_incident(k) ==
    LET same == {i \in DOMAIN incidents : open(i) /\ incidents[i].key = k}
    IN  IF same = {} THEN {Create(k)} ELSE {Link(i) : i \in same}

(* A firing notification of a known episode changes nothing, even when the *)
(* episode has ended or was never linked.                                  *)
process_firing(n) ==
    LET chosen == decide(n.labels, time, find_open_incident_candidates(n.labels))
    IN  IF known(n) # {} THEN {Ignore}
        ELSE IF chosen # {} THEN {Link(c.incident) : c \in chosen}
        ELSE get_or_create_open_incident(new_incident_correlation_key(n.labels))

(* By external id; otherwise the latest alert of the same fingerprint that *)
(* fires for an open incident.                                             *)
find_alert_to_resolve(n) ==
    LET same == {a \in DOMAIN alerts :
                   /\ alerts[a].labels = n.labels /\ alerts[a].status = "firing"
                   /\ alerts[a].incident # None /\ open(alerts[a].incident)}
    IN  IF n.ext # Absent THEN known(n)
        ELSE {a \in same : \A b \in same : alerts[b].at <= alerts[a].at}

(* The alerts of the incident that fire once this one is resolved: the     *)
(* flush before the count makes the row's own change visible.              *)
remaining(a) == firing(alerts[a].incident) \ {a}

resolve(a) ==
    LET i == alerts[a].incident IN
    [kind |-> "resolve", alert |-> a,
     cancels |-> remaining(a) = {} /\ incidents[i].status = "TRIAGING",
     version |-> incidents[i].version]

process_alert_resolved(n) ==
    LET found == find_alert_to_resolve(n) IN
    IF found = {} THEN {[kind |-> "record"]}
    ELSE {IF alerts[a].status = "resolved" THEN Ignore ELSE resolve(a) : a \in found}

process_alert_received(r) ==
    /\ request[r].at = "locked"
    /\ \E plan \in IF request[r].status = "resolved"
                   THEN process_alert_resolved(request[r].notice)
                   ELSE process_firing(request[r].notice) :
          request' = [request EXCEPT ![r].at = "decided", ![r].plan = plan]
    /\ UNCHANGED <<rows, received, time>>

-----------------------------------------------------------------------------
(* Commit and rollback.  Both end the request and release the lock. *)

(* transition_incident_status: the version read with the status is gone.   *)
Faulty_moved_concurrently(r) == FALSE
moved_concurrently(r) ==
    LET plan == request[r].plan IN
    /\ plan.kind = "resolve" /\ plan.cancels
    /\ incidents[alerts[plan.alert].incident].version # plan.version

(* _finalize: a command with the same key committed while this one waited. *)
Faulty_lost_idempotency_race(r) == FALSE
lost_idempotency_race(r) == request[r].key \in ledger

Finalize(r) ==
    /\ request[r].at = "decided"
    /\ ~ moved_concurrently(r) /\ ~ lost_idempotency_race(r)
    /\ ledger' = ledger \cup {request[r].key}
    /\ request' = [request EXCEPT ![r] = Idle]
    /\ UNCHANGED <<received, time>>

new_alert(r, i) ==
    [ext |-> request[r].notice.ext, labels |-> request[r].notice.labels,
     status |-> request[r].status, incident |-> i, at |-> request[r].began,
     by |-> request[r].key, ended_by |-> Absent]
next_alert == Len(alerts) + 1

CommitNothing(r) ==
    /\ Finalize(r)
    /\ request[r].plan.kind = "ignore"
    /\ UNCHANGED <<alerts, incidents, outbox>>

(* A correlated alert only touches updated_at: the version stays.          *)
CommitLink(r) ==
    LET i == request[r].plan.incident IN
    /\ Finalize(r)
    /\ request[r].plan.kind = "link"
    /\ alerts' = Append(alerts, new_alert(r, i))
    /\ outbox' = outbox \cup {<<"AlertReceived", next_alert>>,
                              <<"AlertCorrelated", next_alert>>}
    /\ UNCHANGED incidents

CommitCreate(r) ==
    LET i == Len(incidents) + 1 IN
    /\ Finalize(r)
    /\ request[r].plan.kind = "create"
    /\ incidents' = Append(incidents,
         [status |-> "TRIAGING", version |-> 0, attempts |-> 0,
          key |-> request[r].plan.key, created_at |-> request[r].began])
    /\ alerts' = Append(alerts, new_alert(r, i))
    /\ outbox' = outbox \cup {<<"AlertReceived", next_alert>>, <<"IncidentCreated", i>>}

\* The episode was never seen firing: kept, so that its late firing is ignored.
insert_unlinked_resolved_alert(r) ==
    /\ Finalize(r)
    /\ request[r].plan.kind = "record"
    /\ alerts' = Append(alerts, new_alert(r, None))
    /\ UNCHANGED <<incidents, outbox>>

transition_incident_status(i, to) ==
    [incidents EXCEPT ![i].status = to, ![i].version = @ + 1]

CommitResolve(r) ==
    LET plan == request[r].plan
        i == alerts[plan.alert].incident
    IN
    /\ Finalize(r)
    /\ plan.kind = "resolve"
    /\ alerts' = [alerts EXCEPT ![plan.alert].status = "resolved",
                                ![plan.alert].ended_by = request[r].key]
    /\ IF plan.cancels
       THEN /\ incidents' = transition_incident_status(i, "CANCELLED")
            /\ outbox' = outbox \cup {<<"AlertResolved", plan.alert>>,
                                      <<"IncidentCancelled", i>>}
       ELSE /\ UNCHANGED incidents
            /\ outbox' = outbox \cup {<<"AlertResolved", plan.alert>>}

(* The winner's result is returned, or the sender is told to retry (409).  *)
Rollback(r) ==
    /\ request[r].at = "decided"
    /\ moved_concurrently(r) \/ lost_idempotency_race(r)
    /\ request' = [request EXCEPT ![r] = Idle]
    /\ UNCHANGED <<rows, received, time>>

-----------------------------------------------------------------------------
(* The services that take no advisory lock *)

due_for_investigation(i) ==
    /\ \/ /\ incidents[i].status = "TRIAGING"
          /\ incidents[i].created_at + InvestigationDebounce <= time
       \/ incidents[i].status = "VERIFICATION_FAILED"
    /\ firing(i) # {}

(* The row is locked for update while the guard is read and the status     *)
(* moves; the alerts it counts are not.                                    *)
request_investigation(i) ==
    /\ incidents[i].status \in {"TRIAGING", "VERIFICATION_FAILED"}
    /\ firing(i) # {}
    /\ incidents' = [transition_incident_status(i, "INVESTIGATING")
                       EXCEPT ![i].attempts = @ + 1]
    /\ outbox' = outbox \cup {<<"InvestigationStarted", i>>}
    /\ UNCHANGED <<alerts, ledger, request, received, time>>

(* The scheduler asks for what was due; what no longer is raises and is    *)
(* skipped.  A debounce that has elapsed stays elapsed.                    *)
schedule_due(i) == due_for_investigation(i) /\ request_investigation(i)

(* A failed verification is left for another investigation (otherwise the  *)
(* incident is escalated in the same transaction).                         *)
Faulty_reinvestigable(i) == firing(i) # {}
reinvestigable(i) == incidents[i].attempts < MaxAttempts /\ firing(i) # {}

\* Investigation, remediation and verification, from start to outcome.
CarryOn(i) ==
    /\ incidents[i].status = "INVESTIGATING"
    /\ \E to \in {"RESOLVED", "ESCALATED", "VERIFICATION_FAILED"} :
        /\ to = "VERIFICATION_FAILED" => reinvestigable(i)
        /\ incidents' = transition_incident_status(i, to)
    /\ UNCHANGED <<alerts, ledger, outbox, request, received, time>>

Tick ==
    /\ time < MaxTime
    /\ time' = time + 1
    /\ UNCHANGED <<rows, request, received>>

-----------------------------------------------------------------------------
RequestStep(r) ==
    \/ Receive(r) \/ acquire_correlation_lock(r) \/ process_alert_received(r)
    \/ CommitNothing(r) \/ CommitLink(r) \/ CommitCreate(r)
    \/ insert_unlinked_resolved_alert(r) \/ CommitResolve(r) \/ Rollback(r)

Next ==
    \/ \E r \in Requests : RequestStep(r)
    \/ \E i \in DOMAIN incidents : schedule_due(i) \/ CarryOn(i)
    \/ Tick

Spec == Init /\ [][Next]_vars

-----------------------------------------------------------------------------
(* Properties *)

(* Every row has its columns' types and refers to rows that exist.         *)
TypeOK ==
    /\ \A a \in DOMAIN alerts :
        /\ alerts[a].status \in AlertStatus
        /\ alerts[a].incident \in DOMAIN incidents \cup {None}
        /\ alerts[a].status = "firing" => alerts[a].incident # None
        /\ alerts[a].at <= time
    /\ \A i \in DOMAIN incidents :
        /\ incidents[i].status \in {"TRIAGING", "INVESTIGATING", "ESCALATED",
                "VERIFICATION_FAILED", "RESOLVED", "CANCELLED"}
        /\ incidents[i].attempts <= MaxAttempts
    /\ \A r \in Requests :
        request[r].at \in {"idle", "received", "locked", "decided"}
    /\ received <= MaxReceived /\ time <= MaxTime

(* service.py, _process_alert_resolved: natural recovery is decided by the *)
(* alerts that are really linked.  An incident waiting for triage has an   *)
(* alert that fires; one cancelled has none and was never handed to an     *)
(* investigation, however firing and resolved notifications, redeliveries  *)
(* and the scheduler interleave.                                           *)
AlertsDecideTriage ==
    \A i \in DOMAIN incidents :
        /\ incidents[i].status = "TRIAGING" => firing(i) # {}
        /\ incidents[i].status = "CANCELLED"
                => firing(i) = {} /\ incidents[i].attempts = 0

(* repository.py, acquire_correlation_lock: an incident is created only    *)
(* when, at the commit, no open incident would have taken its first alert. *)
NewIncidentIsUnrelated ==
    [][Len(incidents') > Len(incidents)
         => LET labels == alerts'[Len(alerts')].labels
            IN  decide(labels, time, find_open_incident_candidates(labels)) = {}]_vars

(* service.py, _finalize: two deliveries of one command that run at the    *)
(* same time leave one row, and end one alert.                             *)
CommandsApplyOnce ==
    \A a, b \in DOMAIN alerts :
        /\ alerts[a].by = alerts[b].by => a = b
        /\ alerts[a].ended_by = alerts[b].ended_by /\ alerts[a].ended_by # Absent => a = b

=============================================================================
