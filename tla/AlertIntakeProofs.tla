------------------------- MODULE AlertIntakeProofs -------------------------
(***************************************************************************)
(* Theorems about AlertIntake, for every set of requests and notices and   *)
(* every configuration of the correlation engine.                          *)
(***************************************************************************)
EXTENDS AlertIntake, SequenceTheorems, WellFoundedInduction, TLAPS

-----------------------------------------------------------------------------
(* Types *)

LabelSets == {n.labels : n \in Notices}
CommandKeys == [notice : Notices, status : AlertStatus, bucket : Nat]
IncidentKeys == [of : LabelSets, bucket : Nat]

AlertRows ==
    [ext : {n.ext : n \in Notices}, labels : LabelSets, status : AlertStatus,
     incident : Nat, at : Nat, by : CommandKeys, ended_by : CommandKeys \cup {Absent}]

Statuses == {"TRIAGING", "INVESTIGATING", "ESCALATED", "VERIFICATION_FAILED", "RESOLVED",
             "CANCELLED"}

IncidentRows ==
    [status : Statuses, version : Nat, attempts : Nat, key : IncidentKeys,
     created_at : Nat]

Plans ==
    {Ignore} \cup [kind : {"record"}] \cup [kind : {"link"}, incident : Nat]
             \cup [kind : {"create"}, key : IncidentKeys]
             \cup [kind : {"resolve"}, alert : Nat, cancels : BOOLEAN, version : Nat]

RequestRows ==
    [at : {"received", "locked", "decided"}, notice : Notices, status : AlertStatus,
     key : CommandKeys, began : Nat, plan : Plans]

Types ==
    /\ alerts \in Seq(AlertRows)
    /\ incidents \in Seq(IncidentRows)
    /\ request \in [Requests -> RequestRows \cup {Idle}]
    /\ received \in Nat /\ received <= MaxReceived
    /\ time \in Nat /\ time <= MaxTime

Place(labels) == <<labels.service, labels.environment>>

(* An alert is what its command notified, and belongs to an incident of    *)
(* its own service and environment.                                        *)
AlertOK(a) ==
    /\ alerts[a].ext = alerts[a].by.notice.ext
    /\ alerts[a].labels = alerts[a].by.notice.labels
    /\ alerts[a].at <= time
    /\ alerts[a].incident # None =>
          /\ alerts[a].incident \in DOMAIN incidents
          /\ Place(incidents[alerts[a].incident].key.of) = Place(alerts[a].labels)
    /\ alerts[a].status = "firing" => alerts[a].incident # None

(* Attempts are only counted from triage on, and a failed verification is  *)
(* left for another investigation only below the limit.                    *)
IncidentOK(i) ==
    /\ incidents[i].status = "TRIAGING" => incidents[i].attempts = 0
    /\ incidents[i].status = "VERIFICATION_FAILED" => incidents[i].attempts < MaxAttempts
    /\ incidents[i].attempts <= MaxAttempts

RequestOK(r) ==
    request[r] # Idle =>
        request[r].key.notice = request[r].notice /\ request[r].began <= time

TypeInv ==
    /\ Types
    /\ \A a \in DOMAIN alerts : AlertOK(a)
    /\ \A i \in DOMAIN incidents : IncidentOK(i)
    /\ \A r \in Requests : RequestOK(r)

-----------------------------------------------------------------------------
(* What the lock protects *)

(* No two transactions hold the lock of one service and environment. *)
LockIsExclusive ==
    \A q, r \in Requests :
        holds_lock(q) /\ holds_lock(r) /\ lock_key(q) = lock_key(r) => q = r

(* What a transaction has decided is still right when it commits: the      *)
(* incident it links to was not cancelled meanwhile, no open incident has  *)
(* become a match for the one it creates, and the alert it resolves still  *)
(* fires, alone where the incident is to be cancelled.                     *)
LinkOK(r) ==
    LET i == request[r].plan.incident IN
    /\ request[r].status = "firing"
    /\ i \in DOMAIN incidents
    /\ Place(incidents[i].key.of) = lock_key(r)
    /\ incidents[i].status # "CANCELLED"

CreateOK(r) ==
    LET labels == request[r].notice.labels IN
    /\ request[r].status = "firing"
    /\ request[r].plan.key.of = labels
    /\ \A c \in find_open_incident_candidates(labels) :
            score(labels, time, c) < DEFAULT_THRESHOLD

ResolveOK(r) ==
    LET plan == request[r].plan
        a == plan.alert
        i == alerts[a].incident
    IN
    /\ a \in DOMAIN alerts
    /\ alerts[a].status = "firing"
    /\ alerts[a].labels = request[r].notice.labels
    /\ plan.version <= incidents[i].version
    /\ IF plan.cancels
         THEN /\ firing(i) = {a}
              /\ incidents[i].version = plan.version => incidents[i].status = "TRIAGING"
         ELSE incidents[i].status = "TRIAGING" => \E b \in firing(i) : b # a

PlanOK(r) ==
    request[r].at = "decided" =>
        /\ request[r].plan.kind = "link" => LinkOK(r)
        /\ request[r].plan.kind = "create" => CreateOK(r)
        /\ request[r].plan.kind = "record" => request[r].status = "resolved"
        /\ request[r].plan.kind = "resolve" => ResolveOK(r)

(* Every command that wrote a row is in the ledger. *)
LedgerOK ==
    \A a \in DOMAIN alerts :
        /\ alerts[a].by \in ledger
        /\ alerts[a].ended_by # Absent => alerts[a].ended_by \in ledger

IntakeInv ==
    /\ TypeInv
    /\ LockIsExclusive
    /\ \A r \in Requests : PlanOK(r)
    /\ LedgerOK
    /\ CommandsApplyOnce
    /\ AlertsDecideTriage

-----------------------------------------------------------------------------
(* The correlation engine *)

(* A score is a percentage, and can only fall while time passes after the  *)
(* candidate's last alert.                                                 *)
LEMMA ScoreBounds ==
    ASSUME NEW labels, NEW now \in Nat, NEW c, c.at \in Nat
    PROVE  score(labels, now, c) \in 0..100
  BY IntakeAssumption DEF score, SameServiceRule, SameEnvironmentRule, SameLabelValueRule,
     TemporalProximityRule, RelatedAlertTypeRule, DeploymentProximityRule, Weight

LEMMA ScoreFalls ==
    ASSUME NEW labels, NEW now \in Nat, NEW c, c.at \in Nat, c.at <= now
    PROVE  score(labels, now + 1, c) <= score(labels, now, c)
<1> DEFINE rest == SameServiceRule(labels, c) + SameEnvironmentRule(labels, c)
                   + SameLabelValueRule(labels.region, c.labels.region, 10)
                   + SameLabelValueRule(labels.dependency, c.labels.dependency, 10)
           type == RelatedAlertTypeRule(labels, c) + DeploymentProximityRule
<1>1. rest \in Nat /\ type \in Nat
  BY DEF SameServiceRule, SameEnvironmentRule, SameLabelValueRule, RelatedAlertTypeRule,
         DeploymentProximityRule, Weight
<1>2. /\ TemporalProximityRule(now, c) \in Nat /\ TemporalProximityRule(now + 1, c) \in Nat
      /\ TemporalProximityRule(now + 1, c) <= TemporalProximityRule(now, c)
  BY IntakeAssumption DEF TemporalProximityRule, Weight
<1>3. \A t \in {now, now + 1} : score(labels, t, c) =
        IF rest + TemporalProximityRule(t, c) + type > 100 THEN 100
        ELSE rest + TemporalProximityRule(t, c) + type
  <2>1. RelatedAlertTypeRule(labels, c) \in Nat /\ DeploymentProximityRule \in Nat
    BY DEF SameLabelValueRule, RelatedAlertTypeRule, DeploymentProximityRule, Weight
  <2> HIDE DEF rest
  <2>2. QED
    BY <1>1, <1>2, <2>1 DEF score, rest
<1> HIDE DEF rest, type
<1>4. QED
  BY <1>1, <1>2, <1>3

(* A nonempty set of percentages has a largest element. *)
LEMMA LargestPercentage ==
    ASSUME NEW S \in SUBSET (0..100), S # {}
    PROVE  Max(S) \in S /\ \A x \in S : Max(S) >= x
<1> DEFINE T == {100 - x : x \in S}
<1>1. T \subseteq Nat /\ T # {}
  <2>1. \A x \in S : 100 - x \in Nat
    OBVIOUS
  <2>2. PICK x \in S : TRUE
    OBVIOUS
  <2>3. 100 - x \in T
    OBVIOUS
  <2> HIDE DEF T
  <2>4. T \subseteq Nat
    BY <2>1 DEF T
  <2>5. QED
    BY <2>3, <2>4
<1>2. PICK m \in T : \A y \in T : ~ (<<y, m>> \in OpToRel(<, Nat))
  BY <1>1, NatLessThanWellFounded, WFMin
<1>3. PICK x \in S : m = 100 - x
  OBVIOUS
<1>4. \A y \in S : x >= y
  <2> SUFFICES ASSUME NEW y \in S PROVE x >= y
    OBVIOUS
  <2>1. 100 - y \in T /\ 100 - y \in Nat /\ m \in Nat
    BY <1>1
  <2>2. ~ (100 - y < m)
    BY <1>2, <2>1 DEF OpToRel
  <2>3. QED
    BY <1>3, <2>2
<1>5. QED
  BY <1>4 DEF Max

(* The engine chooses no candidate exactly when none reaches the           *)
(* threshold.                                                              *)
LEMMA NoneChosen ==
    ASSUME NEW labels, NEW now \in Nat, NEW S, \A c \in S : c.at \in Nat
    PROVE  decide(labels, now, S) = {}
             <=> \A c \in S : score(labels, now, c) < DEFAULT_THRESHOLD
<1> DEFINE scores == {score(labels, now, c) : c \in S}
           best == Max(scores)
<1>1. scores \in SUBSET (0..100)
  BY ScoreBounds
<1>2. decide(labels, now, S)
        = {c \in S : score(labels, now, c) = best /\ best >= DEFAULT_THRESHOLD}
  BY DEF decide
<1>3. ASSUME NEW c \in S, ~(score(labels, now, c) < DEFAULT_THRESHOLD)
      PROVE  decide(labels, now, S) # {}
  <2>1. best \in scores /\ best >= score(labels, now, c)
    BY <1>1, LargestPercentage
  <2>2. PICK d \in S : score(labels, now, d) = best
    BY <2>1
  <2> HIDE DEF best, scores
  <2>3. score(labels, now, c) \in 0..100 /\ best \in 0..100
    BY <1>1, <2>1, ScoreBounds
  <2>4. best >= DEFAULT_THRESHOLD
    BY <1>3, <2>1, <2>3, ScoreBounds DEF DEFAULT_THRESHOLD
  <2>5. QED
    BY <1>2, <2>2, <2>4
<1>4. ASSUME NEW c \in decide(labels, now, S),
             \A d \in S : score(labels, now, d) < DEFAULT_THRESHOLD
      PROVE  FALSE
  BY <1>2, <1>4, ScoreBounds DEF DEFAULT_THRESHOLD
<1>5. QED
  BY <1>3, <1>4

-----------------------------------------------------------------------------
(* What the steps write *)

LEMMA Appended ==
    ASSUME NEW S, NEW s \in Seq(S), NEW e \in S
    PROVE  /\ Append(s, e) \in Seq(S)
           /\ DOMAIN Append(s, e) = DOMAIN s \cup {Len(s) + 1}
           /\ Len(s) + 1 \notin DOMAIN s
           /\ \A i \in DOMAIN s : Append(s, e)[i] = s[i]
           /\ Append(s, e)[Len(s) + 1] = e
  OBVIOUS

LEMMA Replaced ==
    ASSUME NEW S, NEW s \in Seq(S), NEW k \in DOMAIN s, NEW e \in S
    PROVE  /\ [s EXCEPT ![k] = e] \in Seq(S)
           /\ DOMAIN [s EXCEPT ![k] = e] = DOMAIN s
           /\ \A i \in DOMAIN s : i # k => [s EXCEPT ![k] = e][i] = s[i]
           /\ [s EXCEPT ![k] = e][k] = e
  OBVIOUS

LEMMA ActiveRequest ==
    ASSUME Types, NEW r \in Requests, request[r].at # "idle"
    PROVE  request[r] \in RequestRows /\ request[r] # Idle
  BY DEF Types, Idle

(* A commit writes the key to the ledger, where it was not, and ends the   *)
(* request.                                                                *)
Finalized(r) ==
    /\ request[r] \in RequestRows
    /\ request[r].at = "decided"
    /\ request[r].key \notin ledger
    /\ ledger' = ledger \cup {request[r].key}
    /\ request' = [request EXCEPT ![r] = Idle]
    /\ UNCHANGED <<received, time>>

LEMMA Finalizes ==
    ASSUME Types, NEW r \in Requests, Finalize(r)
    PROVE  Finalized(r)
  BY ActiveRequest DEF Finalize, Finalized, lost_idempotency_race

(* A new alert of incident i, which is open for it: an existing one that   *)
(* was not cancelled, a new one, or none for an alert that has ended.      *)
Inserted(r, i) ==
    /\ Finalized(r)
    /\ alerts' \in Seq(AlertRows)
    /\ DOMAIN alerts' = DOMAIN alerts \cup {next_alert}
    /\ next_alert \notin DOMAIN alerts
    /\ \A a \in DOMAIN alerts : alerts'[a] = alerts[a]
    /\ alerts'[next_alert] = new_alert(r, i)
    /\ incidents' \in Seq(IncidentRows)
    /\ DOMAIN incidents \subseteq DOMAIN incidents'
    /\ \A j \in DOMAIN incidents : incidents'[j] = incidents[j]
    /\ \A j \in DOMAIN incidents' \ DOMAIN incidents :
          /\ j = i /\ request[r].status = "firing"
          /\ incidents'[j].status = "TRIAGING" /\ incidents'[j].attempts = 0
    /\ i # None =>
          /\ i \in DOMAIN incidents'
          /\ Place(incidents'[i].key.of) = lock_key(r)
          /\ incidents'[i].status # "CANCELLED"
    /\ i = None => request[r].status = "resolved"

LEMMA NewAlert ==
    ASSUME NEW r \in Requests, request[r] \in RequestRows, NEW i \in Nat
    PROVE  new_alert(r, i) \in AlertRows
  BY DEF new_alert, AlertRows, RequestRows, LabelSets

LEMMA InsertsAlert ==
    ASSUME TypeInv, NEW r \in Requests, PlanOK(r),
           CommitLink(r) \/ CommitCreate(r) \/ insert_unlinked_resolved_alert(r)
    PROVE  \E i \in Nat : Inserted(r, i)
<1>0. Types
  BY DEF TypeInv
<1>1. Finalized(r)
  BY <1>0, Finalizes DEF CommitLink, CommitCreate, insert_unlinked_resolved_alert
<1>2. ASSUME NEW i \in Nat, alerts' = Append(alerts, new_alert(r, i))
      PROVE  /\ alerts' \in Seq(AlertRows)
             /\ DOMAIN alerts' = DOMAIN alerts \cup {next_alert}
             /\ next_alert \notin DOMAIN alerts
             /\ \A a \in DOMAIN alerts : alerts'[a] = alerts[a]
             /\ alerts'[next_alert] = new_alert(r, i)
  <2>1. new_alert(r, i) \in AlertRows /\ alerts \in Seq(AlertRows)
    BY <1>0, <1>1, NewAlert DEF Finalized, Types
  <2>2. QED
    BY <1>2, <2>1, Appended DEF next_alert
<1>3. CASE CommitLink(r)
  <2> DEFINE i == request[r].plan.incident
  <2>1. request[r].plan.kind = "link" /\ LinkOK(r)
    BY <1>1, <1>3 DEF CommitLink, PlanOK, Finalized
  <2>2. i \in DOMAIN incidents /\ i \in Nat \ {0}
    BY <1>0, <2>1 DEF LinkOK, Types
  <2>3. alerts' = Append(alerts, new_alert(r, i)) /\ UNCHANGED incidents
    BY <1>3 DEF CommitLink
  <2>4. Inserted(r, i)
    BY <1>0, <1>1, <1>2, <2>1, <2>2, <2>3 DEF Inserted, LinkOK, None, Types
  <2>5. QED
    BY <2>2, <2>4
<1>4. CASE CommitCreate(r)
  <2> DEFINE i == Len(incidents) + 1
             row == [status |-> "TRIAGING", version |-> 0, attempts |-> 0,
                     key |-> request[r].plan.key, created_at |-> request[r].began]
  <2>1. request[r].plan.kind = "create" /\ CreateOK(r)
    BY <1>1, <1>4 DEF CommitCreate, PlanOK, Finalized
  <2>2. i \in Nat \ {0}
    BY <1>0 DEF Types
  <2>3. row \in IncidentRows
    <3>1. request[r].plan \in Plans /\ request[r].began \in Nat
      BY <1>1 DEF Finalized, RequestRows
    <3>2. request[r].plan.key \in IncidentKeys
      BY <2>1, <3>1 DEF Plans, Ignore
    <3>3. QED
      BY <3>1, <3>2 DEF IncidentRows, Statuses
  <2>4. incidents' = Append(incidents, row)
    BY <1>4 DEF CommitCreate
  <2>5. /\ incidents' \in Seq(IncidentRows)
        /\ DOMAIN incidents' = DOMAIN incidents \cup {i}
        /\ \A j \in DOMAIN incidents : incidents'[j] = incidents[j]
        /\ incidents'[i] = row
    <3>1. incidents \in Seq(IncidentRows)
      BY <1>0 DEF Types
    <3> HIDE DEF row
    <3>2. QED
      BY <2>3, <2>4, <3>1, Appended
  <2>6. alerts' = Append(alerts, new_alert(r, i))
    BY <1>4 DEF CommitCreate
  <2>7. Place(row.key.of) = lock_key(r) /\ request[r].status = "firing"
    BY <2>1 DEF CreateOK, Place, lock_key
  <2>8. row.status = "TRIAGING" /\ row.attempts = 0
    OBVIOUS
  <2> HIDE DEF row, i
  <2>9. Inserted(r, i)
    BY <1>1, <1>2, <2>2, <2>5, <2>6, <2>7, <2>8 DEF Inserted, None
  <2>10. QED
    BY <2>2, <2>9
<1>5. CASE insert_unlinked_resolved_alert(r)
  <2>1. request[r].plan.kind = "record" /\ request[r].status = "resolved"
    BY <1>1, <1>5 DEF insert_unlinked_resolved_alert, PlanOK, Finalized
  <2>2. alerts' = Append(alerts, new_alert(r, None)) /\ UNCHANGED incidents
    BY <1>5 DEF insert_unlinked_resolved_alert
  <2>3. None \in Nat
    BY DEF None
  <2>4. Inserted(r, None)
    BY <1>0, <1>1, <1>2, <2>1, <2>2, <2>3 DEF Inserted, Types
  <2>5. QED
    BY <2>3, <2>4
<1>6. QED
  BY <1>3, <1>4, <1>5

LEMMA Transitioned ==
    ASSUME NEW row \in IncidentRows, NEW to \in Statuses, NEW v \in Nat
    PROVE  LET new == [row EXCEPT !.status = to, !.version = v] IN
           /\ new \in IncidentRows
           /\ new.status = to /\ new.version = v
           /\ new.attempts = row.attempts /\ new.key = row.key
  BY DEF IncidentRows

(* A resolved alert keeps all but its status and the command that ended    *)
(* it; where it was the last one that fired for an incident in triage, and *)
(* only there, the incident is cancelled.                                  *)
Ended(r, a) ==
    LET i == alerts[a].incident IN
    /\ Finalized(r)
    /\ alerts' \in Seq(AlertRows)
    /\ DOMAIN alerts' = DOMAIN alerts
    /\ a \in DOMAIN alerts
    /\ alerts[a].status = "firing"
    /\ alerts[a].labels = request[r].notice.labels
    /\ \A b \in DOMAIN alerts : b # a => alerts'[b] = alerts[b]
    /\ alerts'[a] = [alerts[a] EXCEPT !.status = "resolved", !.ended_by = request[r].key]
    /\ incidents' \in Seq(IncidentRows)
    /\ DOMAIN incidents' = DOMAIN incidents
    /\ i \in DOMAIN incidents
    /\ \A j \in DOMAIN incidents : j # i => incidents'[j] = incidents[j]
    /\ \/ /\ incidents'[i] = incidents[i]
          /\ incidents[i].status = "TRIAGING" => \E b \in firing(i) : b # a
       \/ /\ firing(i) = {a}
          /\ incidents[i].status = "TRIAGING"
          /\ incidents'[i] = [incidents[i] EXCEPT !.status = "CANCELLED",
                                                  !.version = @ + 1]

LEMMA EndsAlert ==
    ASSUME TypeInv, NEW r \in Requests, PlanOK(r), CommitResolve(r)
    PROVE  \E a \in Nat : Ended(r, a)
<1> DEFINE plan == request[r].plan
           a == plan.alert
           i == alerts[a].incident
<1>0. Types
  BY DEF TypeInv
<1>1. Finalized(r)
  BY <1>0, Finalizes DEF CommitResolve
<1>2. plan.kind = "resolve" /\ ResolveOK(r)
  BY <1>1 DEF CommitResolve, PlanOK, Finalized
<1>3. /\ a \in DOMAIN alerts /\ a \in Nat
      /\ alerts[a] \in AlertRows
      /\ alerts[a].status = "firing"
      /\ alerts[a].labels = request[r].notice.labels
      /\ i \in DOMAIN incidents /\ incidents[i] \in IncidentRows
  <2>1. a \in DOMAIN alerts /\ alerts[a].status = "firing"
        /\ alerts[a].labels = request[r].notice.labels
    BY <1>2 DEF ResolveOK
  <2>2. i \in DOMAIN incidents
    BY <2>1 DEF TypeInv, AlertOK
  <2>3. QED
    BY <1>0, <2>1, <2>2 DEF Types
<1>4. plan.cancels \in BOOLEAN
  <2>1. plan \in Plans
    BY <1>1 DEF Finalized, RequestRows
  <2>2. QED
    BY <1>2, <2>1 DEF Plans, Ignore
<1>5. alerts' = [alerts EXCEPT ![a] = [alerts[a] EXCEPT !.status = "resolved",
                                                       !.ended_by = request[r].key]]
  <2>1. alerts' = [alerts EXCEPT ![a].status = "resolved", ![a].ended_by = request[r].key]
    BY DEF CommitResolve
  <2> HIDE DEF a
  <2>2. QED
    BY <1>0, <1>3, <2>1 DEF Types
<1>6. [alerts[a] EXCEPT !.status = "resolved", !.ended_by = request[r].key] \in AlertRows
  BY <1>1, <1>3 DEF AlertRows, AlertStatus, Finalized, RequestRows
<1>7. /\ alerts' \in Seq(AlertRows)
      /\ DOMAIN alerts' = DOMAIN alerts
      /\ \A b \in DOMAIN alerts : b # a => alerts'[b] = alerts[b]
      /\ alerts'[a] = [alerts[a] EXCEPT !.status = "resolved", !.ended_by = request[r].key]
  <2> HIDE DEF a
  <2>1. alerts \in Seq(AlertRows)
    BY <1>0 DEF Types
  <2>2. QED
    BY <1>3, <1>5, <1>6, <2>1, Replaced
<1>8. CASE plan.cancels
  <2> DEFINE row == [incidents[i] EXCEPT !.status = "CANCELLED", !.version = @ + 1]
  <2>1. incidents' = [incidents EXCEPT ![i].status = "CANCELLED", ![i].version = @ + 1]
    BY <1>8 DEF CommitResolve, transition_incident_status
  <2>2. incidents' = [incidents EXCEPT ![i] = row]
    <3> HIDE DEF i
    <3>1. QED
      BY <1>0, <1>3, <2>1 DEF Types
  <2>3. row \in IncidentRows
    <3> HIDE DEF i
    <3>1. incidents[i].version + 1 \in Nat /\ "CANCELLED" \in Statuses
      BY <1>3 DEF IncidentRows, Statuses
    <3>2. QED
      BY <1>3, <3>1, Transitioned
  <2>4. /\ incidents' \in Seq(IncidentRows)
        /\ DOMAIN incidents' = DOMAIN incidents
        /\ \A j \in DOMAIN incidents : j # i => incidents'[j] = incidents[j]
        /\ incidents'[i] = row
    <3> HIDE DEF i, row
    <3>1. incidents \in Seq(IncidentRows)
      BY <1>0 DEF Types
    <3>2. QED
      BY <1>3, <2>2, <2>3, <3>1, Replaced
  <2>5. firing(i) = {a} /\ incidents[i].status = "TRIAGING"
    <3>1. incidents[i].version = plan.version
      BY <1>2, <1>8 DEF CommitResolve, Finalize, moved_concurrently
    <3>2. QED
      BY <1>2, <1>8, <3>1 DEF ResolveOK
  <2>6. Ended(r, a)
    <3> HIDE DEF a, plan
    <3>1. QED
      BY <1>1, <1>3, <1>7, <2>4, <2>5 DEF Ended
  <2>7. QED
    BY <1>3, <2>6
<1>9. CASE ~plan.cancels
  <2>1. UNCHANGED incidents
    BY <1>9 DEF CommitResolve
  <2>2. incidents[i].status = "TRIAGING" => \E b \in firing(i) : b # a
    BY <1>2, <1>9 DEF ResolveOK
  <2>3. Ended(r, a)
    <3> HIDE DEF a, plan
    <3>1. QED
      BY <1>0, <1>1, <1>3, <1>7, <2>1, <2>2 DEF Ended, Types
  <2>4. QED
    BY <1>3, <2>3
<1>10. QED
  BY <1>8, <1>9

(* The services that take no lock move an incident that is open and not to *)
(* be cancelled any more, and touch no alert.                              *)
Moved(i) ==
    /\ UNCHANGED <<alerts, ledger, request, received, time>>
    /\ incidents' \in Seq(IncidentRows)
    /\ DOMAIN incidents' = DOMAIN incidents
    /\ \A j \in DOMAIN incidents : j # i => incidents'[j] = incidents[j]
    /\ open(i)
    /\ incidents'[i].status \notin {"TRIAGING", "CANCELLED"}
    /\ incidents'[i].key = incidents[i].key
    /\ incidents'[i].version = incidents[i].version + 1
    /\ incidents'[i].attempts <= MaxAttempts
    /\ incidents'[i].status = "VERIFICATION_FAILED" =>
            incidents'[i].attempts < MaxAttempts

LEMMA Counted ==
    ASSUME NEW row \in IncidentRows, NEW n \in Nat
    PROVE  LET new == [row EXCEPT !.attempts = n] IN
           /\ new \in IncidentRows
           /\ new.attempts = n
           /\ new.status = row.status /\ new.version = row.version /\ new.key = row.key
  BY DEF IncidentRows

LEMMA MovesIncident ==
    ASSUME TypeInv, NEW i \in DOMAIN incidents, schedule_due(i) \/ CarryOn(i)
    PROVE  Moved(i)
<1>0. /\ incidents \in Seq(IncidentRows) /\ incidents[i] \in IncidentRows
      /\ incidents[i].version + 1 \in Nat /\ incidents[i].attempts \in Nat
      /\ IncidentOK(i) /\ MaxAttempts \in Nat \ {0}
  <2>1. incidents \in Seq(IncidentRows) /\ incidents[i] \in IncidentRows /\ IncidentOK(i)
    BY DEF TypeInv, Types
  <2>2. QED
    BY <2>1, IntakeAssumption DEF IncidentRows
<1>1. UNCHANGED <<alerts, ledger, request, received, time>>
  BY DEF schedule_due, request_investigation, CarryOn
<1>2. CASE schedule_due(i)
  <2> DEFINE mid == [incidents[i] EXCEPT !.status = "INVESTIGATING", !.version = @ + 1]
             row == [mid EXCEPT !.attempts = @ + 1]
  <2>1. /\ mid \in IncidentRows
        /\ mid.status = "INVESTIGATING" /\ mid.version = incidents[i].version + 1
        /\ mid.attempts = incidents[i].attempts /\ mid.key = incidents[i].key
    <3> DEFINE v == incidents[i].version + 1
               old == incidents[i]
    <3>1. "INVESTIGATING" \in Statuses /\ old \in IncidentRows /\ v \in Nat
      BY <1>0 DEF Statuses
    <3>2. mid = [old EXCEPT !.status = "INVESTIGATING", !.version = v]
      OBVIOUS
    <3> HIDE DEF v, old, mid
    <3>3. /\ mid \in IncidentRows
          /\ mid.status = "INVESTIGATING" /\ mid.version = v
          /\ mid.attempts = old.attempts /\ mid.key = old.key
      BY <3>1, <3>2 DEF IncidentRows
    <3>4. QED
      BY <3>3 DEF v, old
  <2>2. incidents' = [[incidents EXCEPT ![i] = mid] EXCEPT ![i].attempts = @ + 1]
    <3>1. [incidents EXCEPT ![i].status = "INVESTIGATING", ![i].version = @ + 1]
            = [incidents EXCEPT ![i] = mid]
      BY <1>0
    <3>2. QED
      BY <1>2, <3>1 DEF schedule_due, request_investigation, transition_incident_status
  <2> HIDE DEF mid
  <2>3. incidents' = [incidents EXCEPT ![i] = row]
    BY <1>0, <2>2
  <2>4. /\ row \in IncidentRows
        /\ row.status = "INVESTIGATING" /\ row.version = incidents[i].version + 1
        /\ row.attempts = incidents[i].attempts + 1 /\ row.key = incidents[i].key
    <3>1. mid.attempts + 1 \in Nat
      BY <1>0, <2>1
    <3>2. QED
      BY <2>1, <3>1, Counted
  <2> HIDE DEF row
  <2>5. /\ incidents' \in Seq(IncidentRows)
        /\ DOMAIN incidents' = DOMAIN incidents
        /\ \A j \in DOMAIN incidents : j # i => incidents'[j] = incidents[j]
        /\ incidents'[i] = row
    BY <1>0, <2>3, <2>4, Replaced
  <2>6. incidents[i].status \in {"TRIAGING", "VERIFICATION_FAILED"}
    BY <1>2 DEF schedule_due, request_investigation
  <2>7. open(i) /\ row.attempts <= MaxAttempts
    BY <1>0, <2>4, <2>6 DEF open, CLOSED_INCIDENT_STATUSES, IncidentOK
  <2>8. QED
    BY <1>1, <2>4, <2>5, <2>7 DEF Moved
<1>3. CASE CarryOn(i)
  <2>1. PICK to \in {"RESOLVED", "ESCALATED", "VERIFICATION_FAILED"} :
            /\ to = "VERIFICATION_FAILED" => reinvestigable(i)
            /\ incidents' = transition_incident_status(i, to)
    BY <1>3 DEF CarryOn
  <2> DEFINE row == [incidents[i] EXCEPT !.status = to, !.version = @ + 1]
  <2>2. /\ row \in IncidentRows
        /\ row.status = to /\ row.version = incidents[i].version + 1
        /\ row.attempts = incidents[i].attempts /\ row.key = incidents[i].key
    <3> DEFINE v == incidents[i].version + 1
               old == incidents[i]
    <3>1. to \in Statuses /\ old \in IncidentRows /\ v \in Nat
      BY <1>0 DEF Statuses
    <3>2. row = [old EXCEPT !.status = to, !.version = v]
      OBVIOUS
    <3> HIDE DEF v, old, row
    <3>3. /\ row \in IncidentRows
          /\ row.status = to /\ row.version = v
          /\ row.attempts = old.attempts /\ row.key = old.key
      BY <3>1, <3>2 DEF IncidentRows
    <3>4. QED
      BY <3>3 DEF v, old
  <2>3. incidents' = [incidents EXCEPT ![i] = row]
    BY <1>0, <2>1 DEF transition_incident_status
  <2> HIDE DEF row
  <2>4. /\ incidents' \in Seq(IncidentRows)
        /\ DOMAIN incidents' = DOMAIN incidents
        /\ \A j \in DOMAIN incidents : j # i => incidents'[j] = incidents[j]
        /\ incidents'[i] = row
    BY <1>0, <2>2, <2>3, Replaced
  <2>5. open(i)
    BY <1>3 DEF CarryOn, open, CLOSED_INCIDENT_STATUSES
  <2>6. row.status = "VERIFICATION_FAILED" => row.attempts < MaxAttempts
    BY <2>1, <2>2 DEF reinvestigable
  <2>7. row.attempts <= MaxAttempts
    BY <1>0, <2>2 DEF IncidentOK
  <2>8. QED
    BY <1>1, <2>1, <2>2, <2>4, <2>5, <2>6, <2>7 DEF Moved
<1>4. QED
  BY <1>2, <1>3

-----------------------------------------------------------------------------
(* What a transaction decides *)

LEMMA Candidate ==
    ASSUME NEW labels, NEW c \in find_open_incident_candidates(labels)
    PROVE  \E i \in DOMAIN incidents : \E a \in linked(i) :
              /\ open(i)
              /\ incidents[i].key.of.service = labels.service
              /\ incidents[i].key.of.environment = labels.environment
              /\ \A d \in linked(i) : alerts[d].at <= alerts[a].at
              /\ alerts[a].at >= time - CandidateLookback
              /\ c = [incident |-> i, labels |-> alerts[a].labels, at |-> alerts[a].at]
  BY Zenon DEF find_open_incident_candidates

LEMMA CandidateTimes ==
    ASSUME TypeInv, NEW labels
    PROVE  \A c \in find_open_incident_candidates(labels) : c.at \in Nat /\ c.at <= time
<1> SUFFICES ASSUME NEW c \in find_open_incident_candidates(labels)
             PROVE  c.at \in Nat /\ c.at <= time
  OBVIOUS
<1>1. PICK i \in DOMAIN incidents : \E a \in linked(i) : c.at = alerts[a].at
  BY Candidate
<1>2. PICK a \in DOMAIN alerts : c.at = alerts[a].at
  BY <1>1 DEF linked
<1>3. QED
  <2>1. alerts[a] \in AlertRows /\ AlertOK(a)
    BY DEF TypeInv, Types
  <2>2. QED
    BY <1>2, <2>1 DEF AlertOK, AlertRows

(* The four outcomes, as the plan that the lock will protect. *)
PlanFits(r, plan) ==
    /\ plan \in Plans
    /\ plan.kind = "link" =>
          /\ request[r].status = "firing"
          /\ plan.incident \in DOMAIN incidents
          /\ Place(incidents[plan.incident].key.of) = lock_key(r)
          /\ incidents[plan.incident].status # "CANCELLED"
    /\ plan.kind = "create" =>
          /\ request[r].status = "firing"
          /\ plan.key.of = request[r].notice.labels
          /\ \A c \in find_open_incident_candidates(request[r].notice.labels) :
                score(request[r].notice.labels, time, c) < DEFAULT_THRESHOLD
    /\ plan.kind = "record" => request[r].status = "resolved"
    /\ plan.kind = "resolve" =>
          LET i == alerts[plan.alert].incident IN
          /\ plan.alert \in DOMAIN alerts
          /\ alerts[plan.alert].status = "firing"
          /\ alerts[plan.alert].labels = request[r].notice.labels
          /\ plan.version <= incidents[i].version
          /\ IF plan.cancels
               THEN firing(i) = {plan.alert} /\ incidents[i].status = "TRIAGING"
               ELSE incidents[i].status = "TRIAGING" => \E b \in firing(i) : b # plan.alert

LEMMA FiringPlan ==
    ASSUME TypeInv, NEW r \in Requests, request[r] \in RequestRows,
           request[r].status = "firing", NEW plan \in process_firing(request[r].notice)
    PROVE  PlanFits(r, plan)
<1> DEFINE n == request[r].notice
           candidates == find_open_incident_candidates(n.labels)
           chosen == decide(n.labels, time, candidates)
           k == new_incident_correlation_key(n.labels)
           same == {i \in DOMAIN incidents : open(i) /\ incidents[i].key = k}
<1>0. /\ incidents \in Seq(IncidentRows) /\ time \in Nat /\ n \in Notices
      /\ CandidateLookback \in Nat \ {0}
  BY IntakeAssumption DEF TypeInv, Types, RequestRows
<1>1. k \in IncidentKeys /\ k.of = n.labels
  BY <1>0 DEF new_incident_correlation_key, IncidentKeys, LabelSets
<1>2. ASSUME NEW i \in DOMAIN incidents, open(i), Place(incidents[i].key.of) = lock_key(r),
             plan = Link(i)
      PROVE  PlanFits(r, plan)
  <2>1. plan.kind = "link" /\ plan.incident = i /\ i \in Nat
    BY <1>0, <1>2 DEF Link
  <2>2. plan \in Plans
    BY <1>2, <2>1 DEF Plans, Link
  <2>3. incidents[i].status # "CANCELLED"
    BY <1>2 DEF open, CLOSED_INCIDENT_STATUSES
  <2>4. QED
    BY <1>2, <2>1, <2>2, <2>3 DEF PlanFits
<1>3. CASE plan = Ignore
  BY <1>3 DEF PlanFits, Plans, Ignore
<1>4. ASSUME NEW c \in chosen, plan = Link(c.incident) PROVE PlanFits(r, plan)
  <2>1. c \in candidates
    BY DEF decide
  <2>2. PICK i \in DOMAIN incidents :
            /\ open(i) /\ c.incident = i
            /\ incidents[i].key.of.service = n.labels.service
            /\ incidents[i].key.of.environment = n.labels.environment
    BY <2>1, Candidate
  <2>3. QED
    BY <1>2, <1>4, <2>2 DEF Place, lock_key
<1>5. ASSUME chosen = {}, plan \in get_or_create_open_incident(k) PROVE PlanFits(r, plan)
  <2>1. CASE same = {} /\ plan = Create(k)
    <3>1. plan.kind = "create" /\ plan.key = k /\ plan \in Plans
      BY <1>1, <2>1 DEF Create, Plans
    <3>2. \A c \in candidates : score(n.labels, time, c) < DEFAULT_THRESHOLD
      BY <1>0, <1>5, CandidateTimes, NoneChosen
    <3>3. QED
      BY <1>1, <3>1, <3>2 DEF PlanFits
  <2>2. ASSUME NEW i \in same, plan = Link(i) PROVE PlanFits(r, plan)
    BY <1>1, <1>2, <2>2 DEF Place, lock_key
  <2>3. QED
    BY <1>5, <2>1, <2>2 DEF get_or_create_open_incident
<1>6. QED
  BY <1>3, <1>4, <1>5, Zenon DEF process_firing

LEMMA ResolvedPlan ==
    ASSUME TypeInv, NEW r \in Requests, request[r] \in RequestRows,
           request[r].status = "resolved",
           NEW plan \in process_alert_resolved(request[r].notice)
    PROVE  PlanFits(r, plan)
<1> DEFINE n == request[r].notice
<1>1. CASE plan = [kind |-> "record"]
  BY <1>1 DEF PlanFits, Plans
<1>2. CASE plan = Ignore
  BY <1>2 DEF PlanFits, Plans, Ignore
<1>3. ASSUME NEW a \in find_alert_to_resolve(n), alerts[a].status # "resolved",
             plan = resolve(a)
      PROVE  PlanFits(r, plan)
  <2> DEFINE i == alerts[a].incident
  <2>1. a \in DOMAIN alerts
    BY DEF find_alert_to_resolve, known
  <2>2. alerts[a] \in AlertRows /\ AlertOK(a) /\ a \in Nat /\ n \in Notices
    BY <2>1 DEF TypeInv, Types, RequestRows
  <2>3. alerts[a].status = "firing"
    BY <1>3, <2>2 DEF AlertRows, AlertStatus
  <2>4. i \in DOMAIN incidents /\ incidents[i] \in IncidentRows
    BY <2>2, <2>3 DEF AlertOK, TypeInv, Types
  <2>5. alerts[a].labels = n.labels
    <3>1. CASE n.ext # Absent
      <4>1. alerts[a].ext = n.ext
        BY <3>1 DEF find_alert_to_resolve, known
      <4>2. alerts[a].by.notice \in Notices /\ alerts[a].by.notice.ext = n.ext
        BY <2>2, <4>1 DEF AlertOK, AlertRows, CommandKeys
      <4>3. QED
        BY <2>2, <3>1, <4>2, IntakeAssumption DEF AlertOK
    <3>2. CASE n.ext = Absent
      BY <3>2 DEF find_alert_to_resolve
    <3>3. QED
      BY <3>1, <3>2
  <2>6. /\ plan.kind = "resolve" /\ plan.alert = a /\ plan.version = incidents[i].version
        /\ plan.cancels = (remaining(a) = {} /\ incidents[i].status = "TRIAGING")
        /\ plan = [kind |-> "resolve", alert |-> a, cancels |-> plan.cancels,
                   version |-> incidents[i].version]
    BY <1>3 DEF resolve
  <2>7. incidents[i].version \in Nat
    BY <2>4 DEF IncidentRows
  <2>8. plan.cancels \in BOOLEAN
    BY <2>6
  <2>9. plan \in Plans
    BY <2>2, <2>6, <2>7, <2>8 DEF Plans
  <2>10. a \in firing(i)
    BY <2>1, <2>3 DEF firing, linked
  <2>11. IF plan.cancels
           THEN firing(i) = {a} /\ incidents[i].status = "TRIAGING"
           ELSE incidents[i].status = "TRIAGING" => \E b \in firing(i) : b # a
    BY <2>6, <2>10 DEF remaining
  <2> HIDE DEF i
  <2>12. QED
    BY <2>1, <2>3, <2>5, <2>6, <2>7, <2>9, <2>11 DEF PlanFits, i
<1>4. QED
  BY <1>1, <1>2, <1>3, Zenon DEF process_alert_resolved

-----------------------------------------------------------------------------
(* The type invariant *)

LEMMA TypeInit == Init => TypeInv
<1> SUFFICES ASSUME Init PROVE TypeInv
  OBVIOUS
<1>1. Types
  BY IntakeAssumption DEF Init, Types, Idle
<1>2. QED
  BY <1>1 DEF Init, TypeInv, RequestOK

(* Steps that write no row: only the request moves on. *)
Quiet(r) ==
    /\ UNCHANGED <<alerts, incidents, ledger, time>>
    /\ request' \in [Requests -> RequestRows \cup {Idle}]
    /\ \A q \in Requests : q # r => request'[q] = request[q]
    /\ received' \in Nat /\ received' <= MaxReceived
    /\ request'[r] # Idle =>
          request'[r].key.notice = request'[r].notice /\ request'[r].began <= time

LEMMA ReceiveIsQuiet ==
    ASSUME TypeInv, NEW r \in Requests, Receive(r)
    PROVE  Quiet(r) /\ request'[r].at = "received"
<1>0. /\ request \in [Requests -> RequestRows \cup {Idle}] /\ time \in Nat
      /\ received \in Nat
  BY DEF TypeInv, Types
<1>1. PICK n \in Notices, status \in AlertStatus :
          request' = [request EXCEPT ![r] =
             [at |-> "received", notice |-> n, status |-> status,
              key |-> derive_alert_idempotency_key(n, status),
              began |-> time, plan |-> Ignore]]
  BY DEF Receive
<1> DEFINE key == derive_alert_idempotency_key(n, status)
           new == [at |-> "received", notice |-> n, status |-> status, key |-> key,
                   began |-> time, plan |-> Ignore]
<1>2. key \in CommandKeys /\ key.notice = n
  BY <1>0, IntakeAssumption DEF derive_alert_idempotency_key, CommandKeys
<1> HIDE DEF key
<1>3. /\ new \in RequestRows /\ new.at = "received"
      /\ new.key.notice = new.notice /\ new.began <= time
  BY <1>0, <1>2 DEF RequestRows, Plans
<1>4. request' = [request EXCEPT ![r] = new]
  BY <1>1 DEF key
<1> HIDE DEF new
<1>5. received' \in Nat /\ received' <= MaxReceived
  BY <1>0, IntakeAssumption DEF Receive
<1>6. UNCHANGED <<alerts, incidents, ledger, time>>
  BY DEF Receive, rows
<1>7. QED
  BY <1>0, <1>3, <1>4, <1>5, <1>6 DEF Quiet

LEMMA AcquireIsQuiet ==
    ASSUME TypeInv, NEW r \in Requests, acquire_correlation_lock(r)
    PROVE  /\ Quiet(r)
           /\ request'[r].at = "locked" /\ request'[r].notice = request[r].notice
<1>0. /\ request \in [Requests -> RequestRows \cup {Idle}] /\ RequestOK(r)
      /\ received \in Nat /\ received <= MaxReceived
  BY DEF TypeInv, Types
<1>1. request[r] \in RequestRows /\ request[r] # Idle
  BY ActiveRequest DEF TypeInv, acquire_correlation_lock
<1> DEFINE new == [request[r] EXCEPT !.at = "locked"]
<1>2. /\ new \in RequestRows /\ new.at = "locked" /\ new.notice = request[r].notice
      /\ new.key = request[r].key /\ new.began = request[r].began
  BY <1>1 DEF RequestRows
<1>3. request' = [request EXCEPT ![r] = new]
  BY <1>0 DEF acquire_correlation_lock
<1> HIDE DEF new
<1>4. UNCHANGED <<alerts, incidents, ledger, received, time>>
  BY DEF acquire_correlation_lock, rows
<1>5. QED
  BY <1>0, <1>1, <1>2, <1>3, <1>4 DEF Quiet, RequestOK

LEMMA DecideIsQuiet ==
    ASSUME TypeInv, NEW r \in Requests, process_alert_received(r)
    PROVE  /\ Quiet(r)
           /\ request'[r].at = "decided" /\ request'[r].notice = request[r].notice
           /\ request'[r].status = request[r].status
           /\ PlanFits(r, request'[r].plan)
<1>0. /\ request \in [Requests -> RequestRows \cup {Idle}] /\ RequestOK(r)
      /\ received \in Nat /\ received <= MaxReceived
  BY DEF TypeInv, Types
<1>1. request[r] \in RequestRows /\ request[r] # Idle
  BY ActiveRequest DEF TypeInv, process_alert_received
<1>2. PICK plan \in IF request[r].status = "resolved"
                   THEN process_alert_resolved(request[r].notice)
                   ELSE process_firing(request[r].notice) :
          request' = [request EXCEPT ![r].at = "decided", ![r].plan = plan]
  BY DEF process_alert_received
<1>3. PlanFits(r, plan)
  <2>1. request[r].status \in {"firing", "resolved"}
    BY <1>1 DEF RequestRows, AlertStatus
  <2>2. QED
    BY <1>1, <1>2, <2>1, FiringPlan, ResolvedPlan
<1> DEFINE new == [request[r] EXCEPT !.at = "decided", !.plan = plan]
<1>4. /\ new \in RequestRows /\ new.at = "decided" /\ new.notice = request[r].notice
      /\ new.status = request[r].status /\ new.plan = plan
      /\ new.key = request[r].key /\ new.began = request[r].began
  <2>1. plan \in Plans
    BY <1>3 DEF PlanFits
  <2>2. QED
    BY <1>1, <2>1 DEF RequestRows
<1>5. request' = [request EXCEPT ![r] = new]
  BY <1>0, <1>2
<1> HIDE DEF new
<1>6. UNCHANGED <<alerts, incidents, ledger, received, time>>
  BY DEF process_alert_received, rows
<1>7. Quiet(r)
  BY <1>0, <1>1, <1>4, <1>5, <1>6 DEF Quiet, RequestOK
<1>8. request'[r] = new
  BY <1>0, <1>5
<1>9. QED
  BY <1>3, <1>4, <1>7, <1>8

LEMMA RollbackIsQuiet ==
    ASSUME TypeInv, NEW r \in Requests, Rollback(r)
    PROVE  Quiet(r) /\ request'[r] = Idle
<1>1. /\ request \in [Requests -> RequestRows \cup {Idle}]
      /\ received \in Nat /\ received <= MaxReceived
  BY DEF TypeInv, Types
<1>2. QED
  BY <1>1 DEF Rollback, Quiet, rows

LEMMA QuietTypes ==
    ASSUME TypeInv, NEW r \in Requests, Quiet(r)
    PROVE  TypeInv'
<1>1. Types'
  BY DEF TypeInv, Types, Quiet
<1>2. \A a \in DOMAIN alerts' : AlertOK(a)'
  BY DEF TypeInv, Quiet, AlertOK
<1>3. \A i \in DOMAIN incidents' : IncidentOK(i)'
  BY DEF TypeInv, Quiet, IncidentOK
<1>4. \A q \in Requests : RequestOK(q)'
  BY DEF TypeInv, Quiet, RequestOK
<1>5. QED
  BY <1>1, <1>2, <1>3, <1>4 DEF TypeInv

LEMMA FinalizedTypes ==
    ASSUME TypeInv, NEW r \in Requests, Finalized(r)
    PROVE  /\ request' \in [Requests -> RequestRows \cup {Idle}]
           /\ received' \in Nat /\ received' <= MaxReceived
           /\ time' \in Nat /\ time' <= MaxTime
           /\ \A q \in Requests : RequestOK(q)'
           /\ RequestOK(r) /\ request[r] # Idle
  BY DEF TypeInv, Types, Finalized, RequestOK, Idle

LEMMA InsertedTypes ==
    ASSUME TypeInv, NEW r \in Requests, NEW i \in Nat, Inserted(r, i)
    PROVE  TypeInv'
<1>1. /\ Finalized(r) /\ time' = time /\ RequestOK(r) /\ request[r] # Idle
  BY FinalizedTypes DEF Inserted, Finalized
<1>2. Types' /\ \A q \in Requests : RequestOK(q)'
  BY FinalizedTypes DEF Types, Inserted
<1>3. ASSUME NEW a \in DOMAIN alerts PROVE AlertOK(a)'
  <2>1. AlertOK(a) /\ alerts'[a] = alerts[a]
    BY DEF TypeInv, Inserted
  <2>2. QED
    BY <1>1, <2>1 DEF AlertOK, Inserted
<1>4. ASSUME NEW a \in DOMAIN alerts' \ DOMAIN alerts PROVE AlertOK(a)'
  <2> DEFINE row == alerts'[a]
  <2>1. /\ row.ext = request[r].notice.ext
        /\ row.labels = request[r].notice.labels
        /\ row.by = request[r].key
        /\ row.at = request[r].began
        /\ row.incident = i
        /\ row.status = request[r].status
    BY DEF Inserted, new_alert
  <2>2. request[r].key.notice = request[r].notice /\ request[r].began <= time
    BY <1>1 DEF RequestOK
  <2>3. i # None => i \in DOMAIN incidents'
                    /\ Place(incidents'[i].key.of) = Place(request[r].notice.labels)
    BY DEF Inserted, Place, lock_key
  <2>4. request[r].status = "firing" => i # None
    BY DEF Inserted
  <2>5. /\ row.ext = row.by.notice.ext /\ row.labels = row.by.notice.labels
        /\ row.at <= time'
        /\ row.incident # None =>
                /\ row.incident \in DOMAIN incidents'
                /\ Place(incidents'[row.incident].key.of) = Place(row.labels)
        /\ row.status = "firing" => row.incident # None
    BY <1>1, <2>1, <2>2, <2>3, <2>4
  <2>6. QED
    BY <2>5 DEF AlertOK
<1>5. ASSUME NEW j \in DOMAIN incidents' PROVE IncidentOK(j)'
  <2>1. CASE j \in DOMAIN incidents
    BY <2>1 DEF TypeInv, IncidentOK, Inserted
  <2>2. CASE j \notin DOMAIN incidents
    BY <2>2, IntakeAssumption DEF IncidentOK, Inserted
  <2>3. QED
    BY <2>1, <2>2
<1>6. QED
  BY <1>2, <1>3, <1>4, <1>5 DEF TypeInv

LEMMA EndedTypes ==
    ASSUME TypeInv, NEW r \in Requests, NEW a \in Nat, Ended(r, a)
    PROVE  TypeInv'
<1> DEFINE i == alerts[a].incident
<1>1. Finalized(r) /\ time' = time
  BY DEF Ended, Finalized
<1>2. Types' /\ \A q \in Requests : RequestOK(q)'
  BY <1>1, FinalizedTypes DEF Types, Ended
<1>3. /\ a \in DOMAIN alerts /\ i \in DOMAIN incidents
      /\ alerts[a] \in AlertRows /\ incidents[i] \in IncidentRows
  BY DEF Ended, TypeInv, Types
<1>4. /\ alerts'[a].ext = alerts[a].ext /\ alerts'[a].labels = alerts[a].labels
      /\ alerts'[a].by = alerts[a].by /\ alerts'[a].at = alerts[a].at
      /\ alerts'[a].incident = i /\ alerts'[a].status = "resolved"
  BY <1>3 DEF Ended, AlertRows
<1>5. /\ incidents'[i].key = incidents[i].key
      /\ incidents'[i].attempts = incidents[i].attempts
      /\ incidents'[i].status \in {incidents[i].status, "CANCELLED"}
  <2> HIDE DEF i
  <2>1. CASE incidents'[i] = incidents[i]
    BY <2>1
  <2>2. CASE incidents'[i] = [incidents[i] EXCEPT !.status = "CANCELLED", !.version = @ + 1]
    BY <1>3, <2>2 DEF IncidentRows
  <2>3. QED
    BY <2>1, <2>2 DEF Ended, i
<1>6. \A j \in DOMAIN incidents : incidents'[j].key = incidents[j].key
  BY <1>5 DEF Ended
<1>7. ASSUME NEW b \in DOMAIN alerts' PROVE AlertOK(b)'
  <2>1. AlertOK(b) /\ b \in DOMAIN alerts /\ DOMAIN incidents' = DOMAIN incidents
    BY DEF TypeInv, Ended
  <2>2. CASE b # a
    <3>1. alerts'[b] = alerts[b]
      BY <2>1, <2>2 DEF Ended
    <3>2. QED
      BY <1>1, <1>6, <2>1, <3>1 DEF AlertOK
  <2>3. CASE b = a
    BY <1>1, <1>4, <1>6, <2>1, <2>3 DEF AlertOK
  <2>4. QED
    BY <2>2, <2>3
<1>8. ASSUME NEW j \in DOMAIN incidents' PROVE IncidentOK(j)'
  <2>1. IncidentOK(j)
    BY DEF TypeInv, Ended
  <2>2. CASE j # i
    <3>1. incidents'[j] = incidents[j]
      BY <2>2 DEF Ended
    <3>2. QED
      BY <2>1, <3>1 DEF IncidentOK
  <2>3. CASE j = i
    BY <1>5, <2>1, <2>3 DEF IncidentOK
  <2>4. QED
    BY <2>2, <2>3
<1>9. QED
  BY <1>2, <1>7, <1>8 DEF TypeInv

LEMMA MovedTypes ==
    ASSUME TypeInv, NEW i \in DOMAIN incidents, Moved(i)
    PROVE  TypeInv'
<1>1. Types'
  BY DEF TypeInv, Types, Moved
<1>2. \A j \in DOMAIN incidents : incidents'[j].key = incidents[j].key
  BY DEF Moved
<1>3. \A a \in DOMAIN alerts' : AlertOK(a)'
  BY <1>2 DEF TypeInv, Moved, AlertOK
<1>4. \A j \in DOMAIN incidents' : IncidentOK(j)'
  BY DEF TypeInv, Moved, IncidentOK
<1>5. \A q \in Requests : RequestOK(q)'
  BY DEF TypeInv, Moved, RequestOK
<1>6. QED
  BY <1>1, <1>3, <1>4, <1>5 DEF TypeInv

LEMMA TickTypes ==
    ASSUME TypeInv, Tick
    PROVE  TypeInv'
<1>1. /\ UNCHANGED <<alerts, incidents, ledger, request, received>>
      /\ time' = time + 1 /\ time \in Nat /\ time' <= MaxTime
  BY IntakeAssumption DEF Tick, rows, TypeInv, Types
<1>2. Types'
  BY <1>1 DEF TypeInv, Types
<1>3. ASSUME NEW a \in DOMAIN alerts PROVE AlertOK(a)'
  <2>1. AlertOK(a) /\ alerts[a] \in AlertRows
    BY DEF TypeInv, Types
  <2>2. alerts[a].at \in Nat
    BY <2>1 DEF AlertRows
  <2>3. QED
    BY <1>1, <2>1, <2>2 DEF AlertOK
<1>4. \A j \in DOMAIN incidents' : IncidentOK(j)'
  BY <1>1 DEF TypeInv, IncidentOK
<1>5. ASSUME NEW q \in Requests PROVE RequestOK(q)'
  <2>1. RequestOK(q) /\ request[q] \in RequestRows \cup {Idle}
    BY DEF TypeInv, Types
  <2>2. CASE request[q] # Idle
    <3>1. request[q].began \in Nat
      BY <2>1, <2>2 DEF RequestRows
    <3>2. QED
      BY <1>1, <2>1, <3>1 DEF RequestOK
  <2>3. CASE request[q] = Idle
    BY <1>1, <2>3 DEF RequestOK
  <2>4. QED
    BY <2>2, <2>3
<1>6. QED
  BY <1>1, <1>2, <1>3, <1>4, <1>5 DEF TypeInv

LEMMA NothingTypes ==
    ASSUME TypeInv, NEW r \in Requests, Finalized(r), UNCHANGED <<alerts, incidents>>
    PROVE  TypeInv'
<1>1. time' = time /\ Types' /\ \A q \in Requests : RequestOK(q)'
  BY FinalizedTypes DEF TypeInv, Types, Finalized
<1>2. QED
  BY <1>1 DEF TypeInv, AlertOK, IncidentOK

-----------------------------------------------------------------------------
(* Plans stay right while the lock is held *)

(* Nothing of the service and environment p changes. *)
Elsewhere(p) ==
    /\ \A i \in DOMAIN incidents : Place(incidents[i].key.of) = p =>
          i \in DOMAIN incidents' /\ incidents'[i] = incidents[i]
    /\ \A i \in DOMAIN incidents' : Place(incidents'[i].key.of) = p =>
          i \in DOMAIN incidents /\ incidents'[i] = incidents[i]
    /\ \A a \in DOMAIN alerts : Place(alerts[a].labels) = p =>
          a \in DOMAIN alerts' /\ alerts'[a] = alerts[a]
    /\ \A a \in DOMAIN alerts' : Place(alerts'[a].labels) = p =>
          a \in DOMAIN alerts /\ alerts'[a] = alerts[a]

LEMMA LinkedElsewhere ==
    ASSUME TypeInv, TypeInv', NEW p, Elsewhere(p), NEW i \in DOMAIN incidents,
           Place(incidents[i].key.of) = p
    PROVE  /\ linked(i)' = linked(i)
           /\ firing(i)' = firing(i)
           /\ \A a \in linked(i) : alerts'[a] = alerts[a]
<1>0. i # None /\ i \in DOMAIN incidents' /\ incidents'[i] = incidents[i]
  BY DEF TypeInv, Types, None, Elsewhere
<1>1. ASSUME NEW a \in linked(i) PROVE a \in linked(i)' /\ alerts'[a] = alerts[a]
  <2>1. a \in DOMAIN alerts /\ alerts[a].incident = i /\ AlertOK(a)
    BY DEF linked, TypeInv
  <2>2. Place(alerts[a].labels) = p
    BY <1>0, <2>1 DEF AlertOK
  <2>3. QED
    BY <2>1, <2>2 DEF Elsewhere, linked
<1>2. ASSUME NEW a \in linked(i)' PROVE a \in linked(i)
  <2>1. a \in DOMAIN alerts' /\ alerts'[a].incident = i /\ AlertOK(a)'
    BY DEF linked, TypeInv
  <2>2. Place(alerts'[a].labels) = p
    BY <1>0, <2>1 DEF AlertOK
  <2>3. QED
    BY <2>1, <2>2 DEF Elsewhere, linked
<1>3. linked(i)' = linked(i)
  BY <1>1, <1>2
<1>4. firing(i)' = firing(i)
  BY <1>1, <1>3 DEF firing
<1>5. QED
  BY <1>1, <1>3, <1>4

(* No step gives an alert a candidate it did not have, unless one of its   *)
(* own service and environment was changed.                                *)
LEMMA CandidatesShrink ==
    ASSUME NEW labels, time \in Nat, time' \in {time, time + 1}, TypeInv',
           \A i \in DOMAIN incidents' :
              Place(incidents'[i].key.of) = Place(labels) /\ open(i)' =>
                /\ i \in DOMAIN incidents /\ open(i)
                /\ incidents'[i].key = incidents[i].key
                /\ linked(i)' = linked(i)
                /\ \A a \in linked(i) : alerts'[a] = alerts[a]
    PROVE  find_open_incident_candidates(labels)' \subseteq
                find_open_incident_candidates(labels)
<1> SUFFICES ASSUME NEW c \in find_open_incident_candidates(labels)'
             PROVE  c \in find_open_incident_candidates(labels)
  OBVIOUS
<1>1. PICK i \in DOMAIN incidents' : \E a \in linked(i)' :
              /\ open(i)'
              /\ incidents'[i].key.of.service = labels.service
              /\ incidents'[i].key.of.environment = labels.environment
              /\ \A d \in linked(i)' : alerts'[d].at <= alerts'[a].at
              /\ alerts'[a].at >= time' - CandidateLookback
              /\ c = [incident |-> i, labels |-> alerts'[a].labels, at |-> alerts'[a].at]
  BY Zenon DEF find_open_incident_candidates
<1>2. /\ i \in DOMAIN incidents /\ open(i)
      /\ incidents'[i].key = incidents[i].key
      /\ linked(i)' = linked(i)
      /\ \A a \in linked(i) : alerts'[a] = alerts[a]
  BY <1>1 DEF Place
<1>3. PICK a \in linked(i) :
              /\ \A d \in linked(i) : alerts[d].at <= alerts[a].at
              /\ alerts'[a].at >= time' - CandidateLookback
              /\ c = [incident |-> i, labels |-> alerts[a].labels, at |-> alerts[a].at]
  BY <1>1, <1>2
<1>4. alerts[a].at >= time - CandidateLookback
  <2>1. a \in DOMAIN alerts' /\ alerts'[a] = alerts[a]
    BY <1>2, <1>3 DEF linked
  <2>2. alerts'[a].at \in Nat
    <3>1. alerts'[a] \in AlertRows
      BY <2>1 DEF TypeInv, Types
    <3>2. QED
      BY <3>1 DEF AlertRows
  <2>3. QED
    BY <1>3, <2>1, <2>2, IntakeAssumption
<1>5. /\ incidents[i].key.of.service = labels.service
      /\ incidents[i].key.of.environment = labels.environment
  BY <1>1, <1>2
<1> DEFINE Latest(j) == {b \in linked(j) :
                      /\ \A d \in linked(j) : alerts[d].at <= alerts[b].at
                      /\ alerts[b].at >= time - CandidateLookback}
           Of(j) == {[incident |-> j, labels |-> alerts[b].labels, at |-> alerts[b].at] :
                        b \in Latest(j)}
           Near == {j \in DOMAIN incidents :
                   /\ open(j)
                   /\ incidents[j].key.of.service = labels.service
                   /\ incidents[j].key.of.environment = labels.environment}
<1>6. i \in Near
  BY <1>2, <1>5
<1>7. a \in Latest(i)
  BY <1>3, <1>4
<1>8. c \in Of(i)
  BY <1>3, <1>7
<1>9. find_open_incident_candidates(labels) = UNION {Of(j) : j \in Near}
  BY DEF find_open_incident_candidates
<1> HIDE DEF Of, Near
<1>10. QED
  BY <1>6, <1>8, <1>9

LEMMA CreateKept ==
    ASSUME TypeInv, TypeInv', NEW labels, time' \in {time, time + 1},
           find_open_incident_candidates(labels)' \subseteq
                find_open_incident_candidates(labels),
           \A c \in find_open_incident_candidates(labels) :
                score(labels, time, c) < DEFAULT_THRESHOLD
    PROVE  \A c \in find_open_incident_candidates(labels)' :
                score(labels, time', c) < DEFAULT_THRESHOLD
<1> SUFFICES ASSUME NEW c \in find_open_incident_candidates(labels)'
             PROVE  score(labels, time', c) < DEFAULT_THRESHOLD
  OBVIOUS
<1>0. time \in Nat
  BY DEF TypeInv, Types
<1>1. /\ score(labels, time, c) < DEFAULT_THRESHOLD
      /\ c.at \in Nat /\ c.at <= time
  BY CandidateTimes
<1>2. score(labels, time, c) \in 0..100 /\ score(labels, time + 1, c) \in 0..100
  BY <1>0, <1>1, ScoreBounds
<1>3. score(labels, time + 1, c) <= score(labels, time, c)
  BY <1>0, <1>1, ScoreFalls
<1>4. QED
  BY <1>1, <1>2, <1>3 DEF DEFAULT_THRESHOLD

LEMMA PlanElsewhere ==
    ASSUME TypeInv, TypeInv', NEW q \in Requests, PlanOK(q),
           request'[q] = request[q], time' = time, Elsewhere(lock_key(q))
    PROVE  PlanOK(q)'
<1> SUFFICES ASSUME request[q].at = "decided" PROVE PlanOK(q)'
  BY DEF PlanOK
<1>0. /\ request[q].plan.kind = "link" => LinkOK(q)
      /\ request[q].plan.kind = "create" => CreateOK(q)
      /\ request[q].plan.kind = "record" => request[q].status = "resolved"
      /\ request[q].plan.kind = "resolve" => ResolveOK(q)
      /\ lock_key(q)' = lock_key(q)
  BY DEF PlanOK, lock_key
<1>1. PICK p : p = lock_key(q)
  OBVIOUS
<1>2. Elsewhere(p) /\ time \in Nat
  BY <1>1 DEF Elsewhere, TypeInv, Types
<1>3. ASSUME request[q].plan.kind = "link" PROVE LinkOK(q)'
  BY <1>0, <1>1, <1>2, <1>3 DEF LinkOK, Elsewhere
<1>4. ASSUME request[q].plan.kind = "create" PROVE CreateOK(q)'
  <2>1. PICK labels : labels = request[q].notice.labels
    OBVIOUS
  <2>2. p = Place(labels)
    BY <1>1, <2>1 DEF Place, lock_key
  <2>3. ASSUME NEW i \in DOMAIN incidents', Place(incidents'[i].key.of) = p, open(i)'
        PROVE  /\ i \in DOMAIN incidents /\ open(i)
               /\ incidents'[i].key = incidents[i].key
               /\ linked(i)' = linked(i)
               /\ \A a \in linked(i) : alerts'[a] = alerts[a]
    <3>1. i \in DOMAIN incidents /\ incidents'[i] = incidents[i]
      BY <1>2, <2>3 DEF Elsewhere
    <3>2. linked(i)' = linked(i) /\ \A a \in linked(i) : alerts'[a] = alerts[a]
      BY <1>2, <2>3, <3>1, LinkedElsewhere
    <3>3. QED
      BY <2>3, <3>1, <3>2 DEF open
  <2>4. find_open_incident_candidates(labels)' \subseteq
            find_open_incident_candidates(labels)
    BY <1>2, <2>2, <2>3, CandidatesShrink
  <2>5. /\ request[q].status = "firing" /\ request[q].plan.key.of = labels
        /\ \A c \in find_open_incident_candidates(labels) :
                score(labels, time, c) < DEFAULT_THRESHOLD
    BY <1>0, <1>4, <2>1 DEF CreateOK
  <2>6. \A c \in find_open_incident_candidates(labels)' :
            score(labels, time', c) < DEFAULT_THRESHOLD
    BY <2>4, <2>5, CreateKept
  <2>7. request'[q].notice.labels = labels
    BY <2>1
  <2>8. QED
    BY <2>1, <2>5, <2>6, <2>7 DEF CreateOK
<1>5. ASSUME request[q].plan.kind = "resolve" PROVE ResolveOK(q)'
  <2>1. PICK a, i : a = request[q].plan.alert /\ i = alerts[a].incident
    OBVIOUS
  <2>2. /\ a \in DOMAIN alerts /\ alerts[a].status = "firing"
        /\ alerts[a].labels = request[q].notice.labels
        /\ request[q].plan.version <= incidents[i].version
        /\ IF request[q].plan.cancels
             THEN /\ firing(i) = {a}
                  /\ incidents[i].version = request[q].plan.version =>
                        incidents[i].status = "TRIAGING"
             ELSE incidents[i].status = "TRIAGING" => \E b \in firing(i) : b # a
    BY <1>0, <1>5, <2>1 DEF ResolveOK
  <2>3. Place(alerts[a].labels) = p
    BY <1>1, <2>2 DEF Place, lock_key
  <2>4. i \in DOMAIN incidents /\ Place(incidents[i].key.of) = p
    BY <2>1, <2>2, <2>3 DEF TypeInv, AlertOK
  <2>5. /\ a \in DOMAIN alerts' /\ alerts'[a] = alerts[a]
        /\ incidents'[i] = incidents[i] /\ firing(i)' = firing(i)
    BY <1>2, <2>2, <2>3, <2>4, LinkedElsewhere DEF Elsewhere
  <2>6. alerts'[request'[q].plan.alert].incident = i /\ request'[q].plan.alert = a
    BY <2>1, <2>5
  <2>7. firing(i)' = {b \in {d \in DOMAIN alerts' : alerts'[d].incident = i} :
                            alerts'[b].status = "firing"}
    BY DEF firing, linked
  <2>8. QED
    BY <2>2, <2>5, <2>6, <2>7 DEF ResolveOK, firing, linked
<1>6. QED
  BY <1>0, <1>3, <1>4, <1>5 DEF PlanOK

LEMMA PlanMoved ==
    ASSUME TypeInv, TypeInv', NEW q \in Requests, PlanOK(q),
           NEW m \in DOMAIN incidents, Moved(m)
    PROVE  PlanOK(q)'
<1> SUFFICES ASSUME request[q].at = "decided" PROVE PlanOK(q)'
  BY DEF PlanOK, Moved
<1>0. /\ request[q].plan.kind = "link" => LinkOK(q)
      /\ request[q].plan.kind = "create" => CreateOK(q)
      /\ request[q].plan.kind = "record" => request[q].status = "resolved"
      /\ request[q].plan.kind = "resolve" => ResolveOK(q)
      /\ lock_key(q)' = lock_key(q)
      /\ UNCHANGED <<alerts, request, time>>
      /\ DOMAIN incidents' = DOMAIN incidents
      /\ \A i \in DOMAIN incidents : incidents'[i].key = incidents[i].key
      /\ time \in Nat
  BY DEF PlanOK, lock_key, Moved, TypeInv, Types
<1>1. /\ \A i : linked(i)' = linked(i)
      /\ \A i : firing(i)' = firing(i)
  BY <1>0 DEF linked, firing
<1>3. ASSUME request[q].plan.kind = "link" PROVE LinkOK(q)'
  BY <1>0, <1>3 DEF LinkOK, Moved
<1>4. ASSUME request[q].plan.kind = "create" PROVE CreateOK(q)'
  <2>1. PICK labels : labels = request[q].notice.labels
    OBVIOUS
  <2>3. ASSUME NEW i \in DOMAIN incidents', open(i)'
        PROVE  i \in DOMAIN incidents /\ open(i)
    BY <1>0, <2>3 DEF Moved, open
  <2>4. find_open_incident_candidates(labels)' \subseteq
            find_open_incident_candidates(labels)
    <3>1. ASSUME NEW i \in DOMAIN incidents',
                 Place(incidents'[i].key.of) = Place(labels), open(i)'
          PROVE  /\ i \in DOMAIN incidents /\ open(i)
                 /\ incidents'[i].key = incidents[i].key
                 /\ linked(i)' = linked(i)
                 /\ \A a \in linked(i) : alerts'[a] = alerts[a]
      BY <1>0, <1>1, <2>3, <3>1
    <3>2. QED
      BY <1>0, <3>1, CandidatesShrink
  <2>5. /\ request[q].status = "firing" /\ request[q].plan.key.of = labels
        /\ \A c \in find_open_incident_candidates(labels) :
                score(labels, time, c) < DEFAULT_THRESHOLD
    BY <1>0, <1>4, <2>1 DEF CreateOK
  <2>6. \A c \in find_open_incident_candidates(labels)' :
            score(labels, time', c) < DEFAULT_THRESHOLD
    BY <1>0, <2>4, <2>5, CreateKept
  <2>7. request'[q].notice.labels = labels
    BY <1>0, <2>1
  <2>8. QED
    BY <1>0, <2>5, <2>6, <2>7 DEF CreateOK
<1>5. ASSUME request[q].plan.kind = "resolve" PROVE ResolveOK(q)'
  <2>1. PICK a, i : a = request[q].plan.alert /\ i = alerts[a].incident
    OBVIOUS
  <2>2. /\ a \in DOMAIN alerts /\ alerts[a].status = "firing"
        /\ alerts[a].labels = request[q].notice.labels
        /\ request[q].plan.version <= incidents[i].version
        /\ IF request[q].plan.cancels
             THEN /\ firing(i) = {a}
                  /\ incidents[i].version = request[q].plan.version =>
                        incidents[i].status = "TRIAGING"
             ELSE incidents[i].status = "TRIAGING" => \E b \in firing(i) : b # a
    BY <1>0, <1>5, <2>1 DEF ResolveOK
  <2>3. i \in DOMAIN incidents /\ incidents[i].version \in Nat
    <3>1. i \in DOMAIN incidents
      BY <2>1, <2>2 DEF TypeInv, AlertOK
    <3>2. incidents[i] \in IncidentRows
      BY <3>1 DEF TypeInv, Types
    <3>3. QED
      BY <3>1, <3>2 DEF IncidentRows
  <2>4. request[q].plan.version \in Nat
    <3>1. request[q].plan \in Plans
      BY ActiveRequest DEF TypeInv, RequestRows
    <3>2. QED
      BY <1>5, <3>1 DEF Plans, Ignore
  <2>5. /\ request[q].plan.version <= incidents'[i].version
        /\ IF request[q].plan.cancels
             THEN /\ firing(i) = {a}
                  /\ incidents'[i].version = request[q].plan.version =>
                        incidents'[i].status = "TRIAGING"
             ELSE incidents'[i].status = "TRIAGING" => \E b \in firing(i) : b # a
    <3>1. CASE i # m
      BY <2>2, <2>3, <3>1 DEF Moved
    <3>2. CASE i = m
      <4>1. /\ incidents'[i].version = incidents[i].version + 1
            /\ incidents'[i].status # "TRIAGING"
        BY <3>2 DEF Moved
      <4>2. QED
        BY <2>2, <2>3, <2>4, <4>1
    <3>3. QED
      BY <3>1, <3>2
  <2>6. QED
    BY <1>0, <2>1, <2>2, <2>5 DEF ResolveOK, firing, linked
<1>6. QED
  BY <1>0, <1>3, <1>4, <1>5 DEF PlanOK

LEMMA PlanTick ==
    ASSUME TypeInv, TypeInv', NEW q \in Requests, PlanOK(q), Tick
    PROVE  PlanOK(q)'
<1> SUFFICES ASSUME request[q].at = "decided" PROVE PlanOK(q)'
  BY DEF PlanOK, Tick
<1>0. /\ request[q].plan.kind = "link" => LinkOK(q)
      /\ request[q].plan.kind = "create" => CreateOK(q)
      /\ request[q].plan.kind = "record" => request[q].status = "resolved"
      /\ request[q].plan.kind = "resolve" => ResolveOK(q)
      /\ UNCHANGED <<alerts, incidents, request>>
      /\ time' = time + 1 /\ time \in Nat
  BY DEF PlanOK, Tick, rows, TypeInv, Types
<1>1. ASSUME request[q].plan.kind = "create" PROVE CreateOK(q)'
  <2>1. PICK labels : labels = request[q].notice.labels
    OBVIOUS
  <2>2. find_open_incident_candidates(labels)' \subseteq
            find_open_incident_candidates(labels)
    <3>1. ASSUME NEW i \in DOMAIN incidents',
                 Place(incidents'[i].key.of) = Place(labels), open(i)'
          PROVE  /\ i \in DOMAIN incidents /\ open(i)
                 /\ incidents'[i].key = incidents[i].key
                 /\ linked(i)' = linked(i)
                 /\ \A a \in linked(i) : alerts'[a] = alerts[a]
      BY <1>0, <3>1 DEF open, linked
    <3>2. QED
      BY <1>0, <3>1, CandidatesShrink
  <2>3. /\ request[q].status = "firing" /\ request[q].plan.key.of = labels
        /\ \A c \in find_open_incident_candidates(labels) :
                score(labels, time, c) < DEFAULT_THRESHOLD
    BY <1>0, <1>1, <2>1 DEF CreateOK
  <2>4. \A c \in find_open_incident_candidates(labels)' :
            score(labels, time', c) < DEFAULT_THRESHOLD
    BY <1>0, <2>2, <2>3, CreateKept
  <2>5. request'[q].notice.labels = labels
    BY <1>0, <2>1
  <2>6. QED
    BY <1>0, <2>3, <2>4, <2>5 DEF CreateOK
<1>2. ASSUME request[q].plan.kind = "link" PROVE LinkOK(q)'
  BY <1>0, <1>2 DEF LinkOK, lock_key
<1>3. ASSUME request[q].plan.kind = "resolve" PROVE ResolveOK(q)'
  BY <1>0, <1>3 DEF ResolveOK, firing, linked
<1>4. QED
  BY <1>0, <1>1, <1>2, <1>3 DEF PlanOK

(* A quiet step leaves the plans of the others as they are. *)
LEMMA PlanQuiet ==
    ASSUME TypeInv, TypeInv', NEW r \in Requests, Quiet(r), NEW q \in Requests,
           PlanOK(q), q # r
    PROVE  PlanOK(q)'
<1>1. request'[q] = request[q] /\ time' = time /\ UNCHANGED <<alerts, incidents>>
  BY DEF Quiet
<1>2. Elsewhere(lock_key(q))
  BY <1>1 DEF Elsewhere
<1>3. QED
  BY <1>1, <1>2, PlanElsewhere

LEMMA PlanDecided ==
    ASSUME TypeInv, NEW r \in Requests, process_alert_received(r)
    PROVE  PlanOK(r)'
<1> DEFINE plan == request'[r].plan
<1>1. /\ UNCHANGED <<alerts, incidents, time>>
      /\ request'[r].at = "decided" /\ request'[r].notice = request[r].notice
      /\ request'[r].status = request[r].status
      /\ PlanFits(r, plan)
      /\ lock_key(r)' = lock_key(r)
  BY DecideIsQuiet DEF Quiet, lock_key
<1>2. /\ \A i : firing(i)' = firing(i)
      /\ \A labels : find_open_incident_candidates(labels)'
                        = find_open_incident_candidates(labels)
  BY <1>1 DEF firing, linked, find_open_incident_candidates, open
<1> HIDE DEF plan
<1>3. ASSUME plan.kind = "link" PROVE LinkOK(r)'
  BY <1>1, <1>3 DEF LinkOK, PlanFits, plan
<1>4. ASSUME plan.kind = "create" PROVE CreateOK(r)'
  <2>1. PICK labels : labels = request[r].notice.labels
    OBVIOUS
  <2>2. /\ request[r].status = "firing" /\ plan.key.of = labels
        /\ \A c \in find_open_incident_candidates(labels)' :
                score(labels, time', c) < DEFAULT_THRESHOLD
    BY <1>1, <1>2, <1>4, <2>1 DEF PlanFits
  <2>3. request'[r].notice.labels = labels
    BY <1>1, <2>1
  <2>4. QED
    BY <1>1, <2>2, <2>3 DEF CreateOK, plan
<1>5. ASSUME plan.kind = "resolve" PROVE ResolveOK(r)'
  <2>1. PICK a, i : a = plan.alert /\ i = alerts[a].incident
    OBVIOUS
  <2>2. /\ a \in DOMAIN alerts /\ alerts[a].status = "firing"
        /\ alerts[a].labels = request[r].notice.labels
        /\ plan.version <= incidents[i].version
        /\ IF plan.cancels
               THEN firing(i) = {a} /\ incidents[i].status = "TRIAGING"
               ELSE incidents[i].status = "TRIAGING" => \E b \in firing(i) : b # a
    BY <1>1, <1>5, <2>1 DEF PlanFits
  <2>3. request'[r].plan.alert = a /\ alerts'[a].incident = i
    BY <1>1, <2>1 DEF plan
  <2>4. QED
    BY <1>1, <2>2, <2>3 DEF ResolveOK, plan, firing, linked
<1>6. plan.kind = "record" => request'[r].status = "resolved"
  BY <1>1 DEF PlanFits
<1>7. QED
  BY <1>3, <1>4, <1>5, <1>6 DEF PlanOK, plan

(* A commit writes rows of the service and environment it has locked. *)
LEMMA InsertedElsewhere ==
    ASSUME TypeInv, NEW r \in Requests, NEW i \in Nat, Inserted(r, i),
           NEW p, p # lock_key(r)
    PROVE  Elsewhere(p)
<1>1. ASSUME NEW j \in DOMAIN incidents', Place(incidents'[j].key.of) = p
      PROVE  j \in DOMAIN incidents
  <2> SUFFICES ASSUME j \notin DOMAIN incidents PROVE FALSE
    OBVIOUS
  <2>1. j = i /\ request[r].status = "firing"
    BY DEF Inserted
  <2>2. i # None
    BY <2>1 DEF Inserted
  <2>3. QED
    BY <1>1, <2>1, <2>2 DEF Inserted
<1>2. ASSUME NEW a \in DOMAIN alerts', Place(alerts'[a].labels) = p
      PROVE  a \in DOMAIN alerts
  <2> SUFFICES ASSUME a \notin DOMAIN alerts PROVE FALSE
    OBVIOUS
  <2>1. alerts'[a].labels = request[r].notice.labels
    BY DEF Inserted, new_alert
  <2>2. QED
    BY <1>2, <2>1 DEF Place, lock_key
<1>3. QED
  BY <1>1, <1>2 DEF Elsewhere, Inserted

LEMMA EndedElsewhere ==
    ASSUME TypeInv, NEW r \in Requests, NEW a \in Nat, Ended(r, a),
           NEW p, p # lock_key(r)
    PROVE  Elsewhere(p)
<1> DEFINE i == alerts[a].incident
<1>1. /\ a \in DOMAIN alerts /\ i \in DOMAIN incidents
      /\ alerts[a] \in AlertRows /\ incidents[i] \in IncidentRows
      /\ Place(alerts[a].labels) # p
  BY DEF Ended, TypeInv, Types, Place, lock_key
<1>2. Place(incidents[i].key.of) # p
  BY <1>1 DEF TypeInv, AlertOK, Ended
<1>3. alerts'[a].labels = alerts[a].labels
  BY <1>1 DEF Ended, AlertRows
<1>4. incidents'[i].key = incidents[i].key
  <2> HIDE DEF i
  <2>1. CASE incidents'[i] = incidents[i]
    BY <2>1
  <2>2. CASE incidents'[i] = [incidents[i] EXCEPT !.status = "CANCELLED", !.version = @ + 1]
    BY <1>1, <2>2 DEF IncidentRows
  <2>3. QED
    BY <2>1, <2>2 DEF Ended, i
<1>5. QED
  BY <1>1, <1>2, <1>3, <1>4 DEF Elsewhere, Ended

-----------------------------------------------------------------------------
(* The invariant *)

(* Steps that leave the rows alone keep what is said of the rows. *)
RowsInv == LedgerOK /\ CommandsApplyOnce /\ AlertsDecideTriage

LEMMA RowsUnchanged ==
    ASSUME RowsInv, UNCHANGED <<alerts, incidents>>, ledger \subseteq ledger'
    PROVE  RowsInv'
<1>1. LedgerOK'
  BY DEF RowsInv, LedgerOK
<1>2. CommandsApplyOnce'
  BY DEF RowsInv, CommandsApplyOnce
<1>3. AlertsDecideTriage'
  BY DEF RowsInv, AlertsDecideTriage, firing, linked
<1>4. QED
  BY <1>1, <1>2, <1>3 DEF RowsInv

LEMMA RowsInserted ==
    ASSUME TypeInv, RowsInv, NEW r \in Requests, NEW i \in Nat, Inserted(r, i)
    PROVE  RowsInv'
<1>0. PICK n : n = next_alert
  OBVIOUS
<1>1. /\ DOMAIN alerts' = DOMAIN alerts \cup {n} /\ n \notin DOMAIN alerts
      /\ \A a \in DOMAIN alerts : alerts'[a] = alerts[a]
      /\ alerts'[n].by = request[r].key /\ alerts'[n].ended_by = Absent
      /\ alerts'[n].incident = i /\ alerts'[n].status = request[r].status
      /\ request[r].key \notin ledger /\ ledger' = ledger \cup {request[r].key}
  BY <1>0 DEF Inserted, new_alert, Finalized
<1>2. LedgerOK'
  BY <1>1 DEF RowsInv, LedgerOK
<1>3. CommandsApplyOnce'
  <2> SUFFICES ASSUME NEW a \in DOMAIN alerts', NEW b \in DOMAIN alerts'
      PROVE  /\ alerts'[a].by = alerts'[b].by => a = b
             /\ alerts'[a].ended_by = alerts'[b].ended_by /\ alerts'[a].ended_by # Absent
                    => a = b
    BY DEF CommandsApplyOnce
  <2>1. CASE a \in DOMAIN alerts /\ b \in DOMAIN alerts
    BY <1>1, <2>1 DEF RowsInv, CommandsApplyOnce
  <2>2. CASE a = n \/ b = n
    BY <1>1, <2>2 DEF RowsInv, LedgerOK
  <2>3. QED
    BY <1>1, <2>1, <2>2
<1>4. ASSUME NEW j \in DOMAIN incidents'
      PROVE  /\ incidents'[j].status = "TRIAGING" => firing(j)' # {}
             /\ incidents'[j].status = "CANCELLED"
                    => firing(j)' = {} /\ incidents'[j].attempts = 0
  <2>1. firing(j)' = firing(j) \cup {a \in {n} : i = j /\ request[r].status = "firing"}
    BY <1>1 DEF firing, linked
  <2>2. CASE j \in DOMAIN incidents
    <3>1. /\ incidents'[j] = incidents[j]
          /\ incidents[j].status = "TRIAGING" => firing(j) # {}
          /\ incidents[j].status = "CANCELLED" => firing(j) = {} /\ incidents[j].attempts = 0
      BY <2>2 DEF Inserted, RowsInv, AlertsDecideTriage
    <3>2. j # None
      BY <2>2 DEF TypeInv, Types, None
    <3>3. incidents'[j].status = "CANCELLED" => j # i
      BY <3>2 DEF Inserted
    <3>4. QED
      BY <2>1, <3>1, <3>3
  <2>3. CASE j \notin DOMAIN incidents
    BY <2>1, <2>3 DEF Inserted
  <2>4. QED
    BY <2>2, <2>3
<1>5. AlertsDecideTriage'
  BY <1>4 DEF AlertsDecideTriage
<1>6. QED
  BY <1>2, <1>3, <1>5 DEF RowsInv

LEMMA RowsEnded ==
    ASSUME TypeInv, RowsInv, NEW r \in Requests, NEW a \in Nat, Ended(r, a)
    PROVE  RowsInv'
<1>0. PICK i : i = alerts[a].incident
  OBVIOUS
<1>1. /\ a \in DOMAIN alerts /\ alerts[a] \in AlertRows
      /\ i \in DOMAIN incidents /\ incidents[i] \in IncidentRows
      /\ DOMAIN alerts' = DOMAIN alerts
      /\ \A b \in DOMAIN alerts : b # a => alerts'[b] = alerts[b]
      /\ alerts'[a] = [alerts[a] EXCEPT !.status = "resolved", !.ended_by = request[r].key]
      /\ request[r].key \notin ledger /\ ledger' = ledger \cup {request[r].key}
  BY <1>0 DEF Ended, Finalized, TypeInv, Types
<1>2. /\ alerts'[a].by = alerts[a].by /\ alerts'[a].incident = i
      /\ alerts'[a].status = "resolved" /\ alerts'[a].ended_by = request[r].key
  BY <1>0, <1>1 DEF AlertRows
<1>3. \A b \in DOMAIN alerts : alerts'[b].by = alerts[b].by
                              /\ alerts'[b].incident = alerts[b].incident
  BY <1>0, <1>1, <1>2
<1>4. LedgerOK'
  BY <1>1, <1>2, <1>3 DEF RowsInv, LedgerOK
<1>5. CommandsApplyOnce'
  <2> SUFFICES ASSUME NEW b \in DOMAIN alerts, NEW c \in DOMAIN alerts
      PROVE  /\ alerts'[b].by = alerts'[c].by => b = c
             /\ alerts'[b].ended_by = alerts'[c].ended_by /\ alerts'[b].ended_by # Absent
                    => b = c
    BY <1>1 DEF CommandsApplyOnce
  <2>1. alerts'[b].by = alerts'[c].by => b = c
    BY <1>3 DEF RowsInv, CommandsApplyOnce
  <2>2. CASE b # a /\ c # a
    BY <1>1, <2>1, <2>2 DEF RowsInv, CommandsApplyOnce
  <2>3. CASE b = a \/ c = a
    BY <1>1, <1>2, <2>1, <2>3 DEF RowsInv, LedgerOK
  <2>4. QED
    BY <2>2, <2>3
<1>6. ASSUME NEW j \in DOMAIN incidents'
      PROVE  /\ incidents'[j].status = "TRIAGING" => firing(j)' # {}
             /\ incidents'[j].status = "CANCELLED"
                    => firing(j)' = {} /\ incidents'[j].attempts = 0
  <2>1. firing(j)' = firing(j) \ {a}
    BY <1>1, <1>2, <1>3 DEF firing, linked
  <2>2. /\ j \in DOMAIN incidents
        /\ incidents[j].status = "TRIAGING" => firing(j) # {}
        /\ incidents[j].status = "CANCELLED" => firing(j) = {} /\ incidents[j].attempts = 0
        /\ incidents[j].status = "TRIAGING" => incidents[j].attempts = 0
    BY DEF Ended, RowsInv, AlertsDecideTriage, TypeInv, IncidentOK
  <2>3. CASE j # i
    <3>1. incidents'[j] = incidents[j]
      BY <1>0, <2>2, <2>3 DEF Ended
    <3>2. a \notin firing(j)
      BY <1>0, <2>3 DEF firing, linked
    <3>3. QED
      BY <2>1, <2>2, <3>1, <3>2
  <2>4. CASE j = i
    <3>1. CASE /\ incidents'[i] = incidents[i]
               /\ incidents[i].status = "TRIAGING" => \E b \in firing(i) : b # a
      BY <2>1, <2>2, <2>4, <3>1
    <3>2. CASE /\ firing(i) = {a}
               /\ incidents[i].status = "TRIAGING"
               /\ incidents'[i] = [incidents[i] EXCEPT !.status = "CANCELLED",
                                                       !.version = @ + 1]
      <4>1. /\ incidents'[i].status = "CANCELLED"
            /\ incidents'[i].attempts = incidents[i].attempts
        BY <1>1, <3>2 DEF IncidentRows
      <4>2. QED
        BY <2>1, <2>2, <2>4, <3>2, <4>1
    <3>3. QED
      BY <1>0, <3>1, <3>2 DEF Ended
  <2>5. QED
    BY <2>3, <2>4
<1>7. AlertsDecideTriage'
  BY <1>6 DEF AlertsDecideTriage
<1>8. QED
  BY <1>4, <1>5, <1>7 DEF RowsInv

LEMMA RowsMoved ==
    ASSUME RowsInv, NEW m \in DOMAIN incidents, Moved(m)
    PROVE  RowsInv'
<1>1. LedgerOK' /\ CommandsApplyOnce'
  BY DEF RowsInv, LedgerOK, CommandsApplyOnce, Moved
<1>2. \A i : firing(i)' = firing(i)
  BY DEF firing, linked, Moved
<1>3. AlertsDecideTriage'
  BY <1>2 DEF RowsInv, AlertsDecideTriage, Moved
<1>4. QED
  BY <1>1, <1>3 DEF RowsInv

(* Giving the lock up, or keeping it, keeps it exclusive. *)
LEMMA LockKept ==
    ASSUME LockIsExclusive,
           \A q \in Requests : holds_lock(q)' =>
                holds_lock(q) /\ request'[q].notice = request[q].notice
    PROVE  LockIsExclusive'
<1> SUFFICES ASSUME NEW q \in Requests, NEW r \in Requests, holds_lock(q)', holds_lock(r)',
                    lock_key(q)' = lock_key(r)'
             PROVE  q = r
  BY DEF LockIsExclusive
<1>1. holds_lock(q) /\ holds_lock(r)
  OBVIOUS
<1>2. lock_key(q) = lock_key(r)
  BY DEF lock_key
<1>3. QED
  BY <1>1, <1>2 DEF LockIsExclusive

LEMMA LockAcquired ==
    ASSUME TypeInv, LockIsExclusive, NEW r \in Requests, acquire_correlation_lock(r)
    PROVE  LockIsExclusive'
<1>1. /\ request'[r].notice = request[r].notice
      /\ \A q \in Requests : q # r => request'[q] = request[q]
  BY AcquireIsQuiet DEF Quiet
<1>2. \A q \in Requests : lock_key(q)' = lock_key(q)
  BY <1>1 DEF lock_key
<1>3. \A q \in Requests \ {r} : holds_lock(q)' => holds_lock(q) /\ lock_key(q) # lock_key(r)
  BY <1>1 DEF holds_lock, acquire_correlation_lock, lock_is_free
<1>4. QED
  BY <1>2, <1>3 DEF LockIsExclusive

(* A commit of r keeps the lock exclusive and the plans of the others      *)
(* right, because they hold other locks.                                   *)
LEMMA CommitKeepsPlans ==
    ASSUME TypeInv, TypeInv', LockIsExclusive, \A q \in Requests : PlanOK(q),
           NEW r \in Requests, Finalized(r),
           \A p : p # lock_key(r) => Elsewhere(p)
    PROVE  LockIsExclusive' /\ \A q \in Requests : PlanOK(q)'
<1>1. /\ request'[r] = Idle /\ Idle.at = "idle" /\ time' = time
      /\ \A q \in Requests : q # r => request'[q] = request[q]
      /\ request[r].at = "decided"
  BY DEF TypeInv, Types, Finalized, Idle
<1>2. LockIsExclusive'
  <2>1. \A q \in Requests : holds_lock(q)' =>
                holds_lock(q) /\ request'[q].notice = request[q].notice
    BY <1>1 DEF holds_lock
  <2>2. QED
    BY <2>1, LockKept
<1>3. ASSUME NEW q \in Requests PROVE PlanOK(q)'
  <2>1. CASE q = r
    BY <1>1, <2>1 DEF PlanOK
  <2>2. CASE q # r /\ request[q].at # "decided"
    BY <1>1, <2>2 DEF PlanOK
  <2>3. CASE q # r /\ request[q].at = "decided"
    <3>1. lock_key(q) # lock_key(r)
      BY <1>1, <2>3 DEF LockIsExclusive, holds_lock
    <3>2. Elsewhere(lock_key(q))
      BY <3>1
    <3>3. request'[q] = request[q]
      BY <1>1, <2>3
    <3>4. QED
      BY <1>1, <3>2, <3>3, PlanElsewhere
  <2>4. QED
    BY <2>1, <2>2, <2>3
<1>4. QED
  BY <1>2, <1>3

LEMMA IntakeInit == Init => IntakeInv
<1> SUFFICES ASSUME Init PROVE IntakeInv
  OBVIOUS
<1>1. TypeInv
  BY TypeInit
<1>2. \A r \in Requests : request[r].at = "idle"
  BY DEF Init, Idle
<1>3. LockIsExclusive /\ \A r \in Requests : PlanOK(r)
  BY <1>2 DEF LockIsExclusive, holds_lock, PlanOK
<1>4. LedgerOK /\ CommandsApplyOnce /\ AlertsDecideTriage
  BY DEF Init, LedgerOK, CommandsApplyOnce, AlertsDecideTriage
<1>5. QED
  BY <1>1, <1>3, <1>4 DEF IntakeInv

LEMMA IntakeStep == IntakeInv /\ [Next]_vars => IntakeInv'
<1> SUFFICES ASSUME IntakeInv, [Next]_vars PROVE IntakeInv'
  OBVIOUS
<1>0. /\ TypeInv /\ LockIsExclusive /\ RowsInv
      /\ \A r \in Requests : PlanOK(r)
  BY DEF IntakeInv, RowsInv
<1>Q. ASSUME TypeInv', LockIsExclusive', RowsInv', \A r \in Requests : PlanOK(r)'
      PROVE  IntakeInv'
  BY <1>Q DEF IntakeInv, RowsInv
<1>1. ASSUME NEW r \in Requests, Quiet(r), LockIsExclusive', PlanOK(r)'
      PROVE  IntakeInv'
  <2>1. TypeInv'
    BY <1>0, <1>1, QuietTypes
  <2>2. RowsInv'
    BY <1>0, <1>1, RowsUnchanged DEF Quiet
  <2>3. \A q \in Requests : PlanOK(q)'
    BY <1>0, <1>1, <2>1, PlanQuiet
  <2>4. QED
    BY <1>1, <1>Q, <2>1, <2>2, <2>3
<1>2. ASSUME NEW r \in Requests, Receive(r) PROVE IntakeInv'
  <2>1. Quiet(r) /\ request'[r].at = "received"
    BY <1>0, <1>2, ReceiveIsQuiet
  <2>2. LockIsExclusive'
    <3>1. \A q \in Requests : holds_lock(q)' =>
                holds_lock(q) /\ request'[q].notice = request[q].notice
      BY <2>1 DEF holds_lock, Quiet
    <3>2. QED
      BY <1>0, <3>1, LockKept
  <2>3. PlanOK(r)'
    BY <2>1 DEF PlanOK
  <2>4. QED
    BY <1>1, <2>1, <2>2, <2>3
<1>3. ASSUME NEW r \in Requests, acquire_correlation_lock(r) PROVE IntakeInv'
  <2>1. Quiet(r) /\ request'[r].at = "locked"
    BY <1>0, <1>3, AcquireIsQuiet
  <2>2. LockIsExclusive'
    BY <1>0, <1>3, LockAcquired
  <2>3. PlanOK(r)'
    BY <2>1 DEF PlanOK
  <2>4. QED
    BY <1>1, <2>1, <2>2, <2>3
<1>4. ASSUME NEW r \in Requests, process_alert_received(r) PROVE IntakeInv'
  <2>1. Quiet(r) /\ request'[r].notice = request[r].notice
    BY <1>0, <1>4, DecideIsQuiet
  <2>2. LockIsExclusive'
    <3>1. request[r].at = "locked"
      BY <1>4 DEF process_alert_received
    <3>2. \A q \in Requests : holds_lock(q)' =>
                holds_lock(q) /\ request'[q].notice = request[q].notice
      BY <2>1, <3>1 DEF holds_lock, Quiet
    <3>3. QED
      BY <1>0, <3>2, LockKept
  <2>3. PlanOK(r)'
    BY <1>0, <1>4, PlanDecided
  <2>4. QED
    BY <1>1, <2>1, <2>2, <2>3
<1>5. ASSUME NEW r \in Requests, Rollback(r) PROVE IntakeInv'
  <2>1. Quiet(r) /\ request'[r] = Idle /\ Idle.at = "idle"
    BY <1>0, <1>5, RollbackIsQuiet DEF Idle
  <2>2. LockIsExclusive'
    <3>1. \A q \in Requests : holds_lock(q)' =>
                holds_lock(q) /\ request'[q].notice = request[q].notice
      BY <2>1 DEF holds_lock, Quiet
    <3>2. QED
      BY <1>0, <3>1, LockKept
  <2>3. PlanOK(r)'
    BY <2>1 DEF PlanOK
  <2>4. QED
    BY <1>1, <2>1, <2>2, <2>3
<1>6. ASSUME NEW r \in Requests, CommitNothing(r) PROVE IntakeInv'
  <2>1. Finalized(r) /\ UNCHANGED <<alerts, incidents>>
    BY <1>0, <1>6, Finalizes DEF CommitNothing, TypeInv
  <2>2. TypeInv'
    BY <1>0, <2>1, NothingTypes
  <2>3. RowsInv'
    BY <1>0, <2>1, RowsUnchanged DEF Finalized
  <2>4. \A p : p # lock_key(r) => Elsewhere(p)
    BY <2>1 DEF Elsewhere
  <2>5. QED
    BY <1>0, <1>Q, <2>1, <2>2, <2>3, <2>4, CommitKeepsPlans
<1>7. ASSUME NEW r \in Requests,
             CommitLink(r) \/ CommitCreate(r) \/ insert_unlinked_resolved_alert(r)
      PROVE  IntakeInv'
  <2>1. PICK i \in Nat : Inserted(r, i)
    BY <1>0, <1>7, InsertsAlert
  <2>2. TypeInv'
    BY <1>0, <2>1, InsertedTypes
  <2>3. RowsInv'
    BY <1>0, <2>1, RowsInserted
  <2>4. \A p : p # lock_key(r) => Elsewhere(p)
    BY <1>0, <2>1, InsertedElsewhere
  <2>5. Finalized(r)
    BY <2>1 DEF Inserted
  <2>6. QED
    BY <1>0, <1>Q, <2>2, <2>3, <2>4, <2>5, CommitKeepsPlans
<1>8. ASSUME NEW r \in Requests, CommitResolve(r) PROVE IntakeInv'
  <2>1. PICK a \in Nat : Ended(r, a)
    BY <1>0, <1>8, EndsAlert
  <2>2. TypeInv'
    BY <1>0, <2>1, EndedTypes
  <2>3. RowsInv'
    BY <1>0, <2>1, RowsEnded
  <2>4. \A p : p # lock_key(r) => Elsewhere(p)
    BY <1>0, <2>1, EndedElsewhere
  <2>5. Finalized(r)
    BY <2>1 DEF Ended
  <2>6. QED
    BY <1>0, <1>Q, <2>2, <2>3, <2>4, <2>5, CommitKeepsPlans
<1>9. ASSUME NEW i \in DOMAIN incidents, schedule_due(i) \/ CarryOn(i) PROVE IntakeInv'
  <2>1. Moved(i)
    BY <1>0, <1>9, MovesIncident
  <2>2. TypeInv'
    BY <1>0, <2>1, MovedTypes
  <2>3. RowsInv'
    BY <1>0, <2>1, RowsMoved
  <2>4. \A q \in Requests : PlanOK(q)'
    BY <1>0, <2>1, <2>2, PlanMoved
  <2>5. LockIsExclusive'
    BY <1>0, <2>1, LockKept DEF Moved, holds_lock
  <2>6. QED
    BY <1>Q, <2>2, <2>3, <2>4, <2>5
<1>10. CASE Tick
  <2>1. TypeInv'
    BY <1>0, <1>10, TickTypes
  <2>2. RowsInv'
    BY <1>0, <1>10, RowsUnchanged DEF Tick, rows
  <2>3. \A q \in Requests : PlanOK(q)'
    BY <1>0, <1>10, <2>1, PlanTick
  <2>4. LockIsExclusive'
    BY <1>0, <1>10, LockKept DEF Tick, holds_lock
  <2>5. QED
    BY <1>Q, <2>1, <2>2, <2>3, <2>4
<1>11. CASE UNCHANGED vars
  <2>0. UNCHANGED <<alerts, incidents, ledger, request, received, time>>
    BY <1>11 DEF vars, rows
  <2>1. TypeInv'
    BY <1>0, <2>0 DEF TypeInv, Types, AlertOK, IncidentOK, RequestOK
  <2>2. RowsInv'
    BY <1>0, <2>0, RowsUnchanged
  <2>3. \A q \in Requests : PlanOK(q)'
    BY <1>0, <2>0, <2>1, PlanElsewhere DEF Elsewhere
  <2>4. LockIsExclusive'
    BY <1>0, <2>0, LockKept DEF holds_lock
  <2>5. QED
    BY <1>Q, <2>1, <2>2, <2>3, <2>4
<1>12. QED
  BY <1>2, <1>3, <1>4, <1>5, <1>6, <1>7, <1>8, <1>9, <1>10, <1>11 DEF Next, RequestStep

LEMMA IntakeAlways == Spec => []IntakeInv
  BY IntakeInit, IntakeStep, PTL DEF Spec

-----------------------------------------------------------------------------
(* Theorems *)

(* Every row has its columns' types and refers to rows that exist, an      *)
(* alert that fires belongs to an incident, and no incident is             *)
(* investigated more often than the limit (handle_alert_received and the   *)
(* services that carry the incident on).                                   *)
THEOREM TypeCorrect == Spec => []TypeOK
<1>1. IntakeInv => TypeOK
  <2> SUFFICES ASSUME IntakeInv PROVE TypeOK
    OBVIOUS
  <2>0. TypeInv /\ Types
    BY DEF IntakeInv, TypeInv
  <2>1. ASSUME NEW a \in DOMAIN alerts
        PROVE  /\ alerts[a].status \in AlertStatus
               /\ alerts[a].incident \in DOMAIN incidents \cup {None}
               /\ alerts[a].status = "firing" => alerts[a].incident # None
               /\ alerts[a].at <= time
    <3>1. alerts[a] \in AlertRows /\ AlertOK(a)
      BY <2>0 DEF TypeInv, Types
    <3>2. QED
      BY <3>1 DEF AlertRows, AlertOK
  <2>2. ASSUME NEW i \in DOMAIN incidents
        PROVE  incidents[i].status \in Statuses /\ incidents[i].attempts <= MaxAttempts
    <3>1. incidents[i] \in IncidentRows /\ IncidentOK(i)
      BY <2>0 DEF TypeInv, Types
    <3>2. QED
      BY <3>1 DEF IncidentRows, IncidentOK
  <2>3. \A r \in Requests : request[r].at \in {"idle", "received", "locked", "decided"}
    BY <2>0 DEF Types, RequestRows, Idle
  <2>4. QED
    BY <2>0, <2>1, <2>2, <2>3 DEF TypeOK, Types, Statuses
<1>2. QED
  BY <1>1, IntakeAlways, PTL

(* However many deliveries of one command run at the same time, they leave *)
(* one row, and end one alert (_finalize, the ledger's primary key).       *)
THEOREM CommandsOnce == Spec => []CommandsApplyOnce
<1>1. IntakeInv => CommandsApplyOnce
  BY DEF IntakeInv
<1>2. QED
  BY <1>1, IntakeAlways, PTL

(* Natural recovery is decided by the alerts that are really linked: an    *)
(* incident waiting for triage has an alert that fires, and a cancelled    *)
(* one has none and was never investigated, for any number of requests,    *)
(* although the scheduler takes no lock (_process_alert_resolved,          *)
(* acquire_correlation_lock, transition_incident_status).                  *)
THEOREM TriageIsDecided == Spec => []AlertsDecideTriage
<1>1. IntakeInv => AlertsDecideTriage
  BY DEF IntakeInv
<1>2. QED
  BY <1>1, IntakeAlways, PTL

(* An incident is created only when, at the commit, no open incident would *)
(* have taken its first alert, although time passes and incidents move     *)
(* between the decision and the commit (acquire_correlation_lock,          *)
(* _process_alert_received).                                               *)
THEOREM NewIncidentUnrelated == Spec => NewIncidentIsUnrelated
<1> DEFINE Action ==
       Len(incidents') > Len(incidents)
         => LET labels == alerts'[Len(alerts')].labels
            IN  decide(labels, time, find_open_incident_candidates(labels)) = {}
<1>1. ASSUME IntakeInv, [Next]_vars PROVE [Action]_vars
  <2>0. /\ TypeInv /\ \A r \in Requests : PlanOK(r)
        /\ Types
    BY <1>1 DEF IntakeInv, TypeInv
  <2>1. ASSUME Len(incidents') = Len(incidents) PROVE Action
    <3>1. Len(incidents) \in Nat
      BY <2>0 DEF Types
    <3>2. QED
      BY <2>1, <3>1
  <2>2. ASSUME NEW r \in Requests, CommitCreate(r) PROVE Action
    <3>1. Finalized(r) /\ CreateOK(r)
      BY <2>0, <2>2, Finalizes DEF CommitCreate, PlanOK, Finalized
    <3> DEFINE labels == request[r].notice.labels
               new == new_alert(r, Len(incidents) + 1)
    <3>2. new \in AlertRows /\ new.labels = labels
      <4>1. Len(incidents) + 1 \in Nat
        BY <2>0 DEF Types
      <4>2. QED
        BY <3>1, <4>1, NewAlert DEF Finalized, new_alert
    <3>3. alerts' = Append(alerts, new)
      BY <2>2 DEF CommitCreate
    <3> HIDE DEF new
    <3>4. alerts'[Len(alerts')] = new
      BY <2>0, <3>2, <3>3 DEF Types
    <3>5. decide(labels, time, find_open_incident_candidates(labels)) = {}
      <4>1. \A c \in find_open_incident_candidates(labels) :
                score(labels, time, c) < DEFAULT_THRESHOLD
        BY <3>1 DEF CreateOK
      <4>2. \A c \in find_open_incident_candidates(labels) : c.at \in Nat
        BY <2>0, CandidateTimes
      <4>3. time \in Nat
        BY <2>0 DEF Types
      <4> HIDE DEF labels
      <4>4. QED
        BY <4>1, <4>2, <4>3, NoneChosen
    <3>6. QED
      BY <3>2, <3>4, <3>5
  <2>3. ASSUME NEW r \in Requests,
               Receive(r) \/ acquire_correlation_lock(r) \/ process_alert_received(r)
               \/ CommitNothing(r) \/ CommitLink(r) \/ insert_unlinked_resolved_alert(r)
               \/ Rollback(r)
        PROVE  Action
    <3>1. UNCHANGED incidents
      BY <2>3 DEF Receive, acquire_correlation_lock, process_alert_received, CommitNothing,
         CommitLink, insert_unlinked_resolved_alert, Rollback, rows
    <3>2. QED
      BY <2>1, <3>1
  <2>4. ASSUME incidents' \in Seq(IncidentRows), DOMAIN incidents' = DOMAIN incidents
        PROVE  Action
    BY <2>0, <2>1, <2>4 DEF Types
  <2>5. ASSUME NEW r \in Requests, CommitResolve(r) PROVE Action
    BY <2>0, <2>4, <2>5, EndsAlert DEF Ended
  <2>6. ASSUME NEW i \in DOMAIN incidents, schedule_due(i) \/ CarryOn(i) PROVE Action
    BY <2>0, <2>4, <2>6, MovesIncident DEF Moved
  <2>7. CASE Tick
    BY <2>1, <2>7 DEF Tick, rows
  <2> HIDE DEF Action
  <2>8. QED
    BY <1>1, <2>2, <2>3, <2>5, <2>6, <2>7 DEF Next, RequestStep
<1>2. IntakeInv /\ [Next]_vars => [Action]_vars
  BY <1>1
<1>3. QED
  BY <1>2, IntakeAlways, PTL DEF Spec, NewIncidentIsUnrelated

=============================================================================
