------------------------- MODULE VerificationProofs -------------------------
(***************************************************************************)
(* Theorems about Verification, for every set of workers and alerts, every *)
(* length of the streak and every number of polls and attempts.            *)
(***************************************************************************)
EXTENDS Verification, SequenceTheorems, TLAPS

-----------------------------------------------------------------------------
(* Types *)

(* The streak stays within its limit because the poll that completes it    *)
(* also ends the verification.                                             *)
StreakOpen ==
    status \notin TERMINAL_VERIFICATION_STATUSES => streak < RequiredConsecutive

TypeInv == TypeOK /\ StreakOpen

Verdicts == TERMINAL_VERIFICATION_STATUSES

(* What decide() may answer, and what each answer says of its arguments.   *)
LEMMA DecideSays ==
    ASSUME NEW definitive \in BOOLEAN, NEW consecutive \in Nat, NEW concl \in Nat,
           NEW late \in BOOLEAN
    PROVE  LET d == decide(definitive, consecutive, concl, late) IN
           /\ d \in Verdicts \cup {"RUNNING"}
           /\ d = "RUNNING" => consecutive < RequiredConsecutive /\ ~late
           /\ d = "PASSED" => consecutive >= RequiredConsecutive
           /\ d = "TIMED_OUT" => late /\ concl = 0
           /\ d = "FAILED" => definitive \/ (late /\ concl # 0)
           /\ late => d # "RUNNING"
  BY VerificationAssumption DEF decide, Verdicts, TERMINAL_VERIFICATION_STATUSES

(* _finalize: the verdict becomes the status, the row is released, and     *)
(* next_action decides where the incident goes.                            *)
LEMMA FinalizeDoes ==
    ASSUME TypeOK, NEW verdict \in Verdicts, finalize(verdict)
    PROVE  /\ status' = verdict
           /\ lease' = Released
           /\ poll_due' = FALSE
           /\ next_action' \in {"none", "resolve", "escalate", "reinvestigate"}
           /\ next_action' = "none" => stale /\ incident' = incident
           /\ next_action' # "none" => incident = "VERIFYING" /\ ~newer
           /\ next_action' = "resolve" => verdict = "PASSED" /\ incident' = "RESOLVED"
           /\ next_action' = "escalate" => incident' = "ESCALATED"
           /\ next_action' = "reinvestigate" =>
                /\ incident' = "VERIFICATION_FAILED"
                /\ attempt_count < MaxInvestigationAttempts
<1>1. after_failure \in {"escalate", "reinvestigate"}
  BY DEF after_failure
<1>2. after_failure = "reinvestigate" => attempt_count < MaxInvestigationAttempts
  BY DEF after_failure
<1>3. CASE stale
  BY <1>3 DEF finalize
<1>4. CASE ~stale
  <2>1. incident = "VERIFYING" /\ ~newer
    BY <1>4 DEF stale
  <2>2. CASE verdict = "PASSED"
    BY <1>4, <2>1, <2>2 DEF finalize
  <2>3. CASE verdict = "TIMED_OUT"
    BY <1>4, <2>1, <2>3 DEF finalize
  <2>4. CASE verdict = "FAILED"
    BY <1>1, <1>2, <1>4, <2>1, <2>4 DEF finalize
  <2>5. QED
    BY <2>2, <2>3, <2>4 DEF Verdicts, TERMINAL_VERIFICATION_STATUSES
<1>5. QED
  BY <1>3, <1>4

LEMMA TypeInit == Init => TypeInv
<1> SUFFICES ASSUME Init PROVE TypeInv
  OBVIOUS
<1>1. RequiredConsecutive \in Nat /\ RequiredConsecutive > 0
  BY VerificationAssumption
<1>2. streak \in 0..RequiredConsecutive /\ StreakOpen
  BY <1>1 DEF Init, StreakOpen
<1>3. worker \in [Workers -> [ticket : Nat, sample : Samples]]
  BY DEF Init, Idle, Samples
<1>4. attempt_count \in Nat
  BY DEF Init
<1>5. lease \in [owner : Workers \cup {NoOne}, live : BOOLEAN]
  BY DEF Init, Released
<1>6. observations \in Seq(Observation)
  BY DEF Init
<1>7. QED
  BY <1>2, <1>3, <1>4, <1>5, <1>6
     DEF Init, TypeInv, TypeOK, Lifecycle!IncidentStatus

(* A poll's result: one more observation, the streak extended or broken,   *)
(* and either the row released for the next poll or a verdict.             *)
Recorded(w) == [claim |-> worker[w].ticket, sample |-> worker[w].sample,
                new_alerts |-> new_firing_alerts]

LEMMA RecordDoes ==
    ASSUME TypeInv, NEW w \in Workers, record_observation(w)
    PROVE  LET o == Recorded(w) IN
           /\ fence(w)
           /\ o \in Observation
           /\ observations' = Append(observations, o)
           /\ streak' = (IF passed(o) THEN streak + 1 ELSE 0)
           /\ streak' \in 0..RequiredConsecutive
           /\ conclusive' = (IF is_conclusive(o) THEN conclusive + 1 ELSE conclusive)
           /\ conclusive' \in Nat
           /\ worker' = [worker EXCEPT ![w] = Idle]
           /\ UNCHANGED <<attempt_count, newer, alert, known, claims, overdue>>
           /\ lease' = Released
           /\ poll_due' = FALSE
           /\ \/ /\ status' = "RUNNING" /\ streak' < RequiredConsecutive
                 /\ UNCHANGED <<incident, next_action>>
              \/ \E verdict \in Verdicts :
                    /\ verdict = decide(definitive_failure(o), streak', conclusive', overdue)
                    /\ finalize(verdict)
<1> DEFINE o == Recorded(w)
           v == decide(definitive_failure(o), streak', conclusive', overdue)
<1>1. o \in Observation
  BY DEF TypeInv, TypeOK, Recorded, Observation, new_firing_alerts, firing_alerts
<1>2. /\ fence(w)
      /\ observations' = Append(observations, o)
      /\ streak' = (IF passed(o) THEN streak + 1 ELSE 0)
      /\ conclusive' = conclusive + (IF is_conclusive(o) THEN 1 ELSE 0)
      /\ worker' = [worker EXCEPT ![w] = Idle]
      /\ UNCHANGED <<attempt_count, newer, alert, known, claims, overdue>>
      /\ \/ v = "RUNNING" /\ poll_due' = FALSE /\ lease' = Released
            /\ UNCHANGED <<status, incident, next_action>>
         \/ v # "RUNNING" /\ finalize(v)
  BY DEF record_observation, Recorded, next_streak
<1>3. status = "RUNNING" /\ streak < RequiredConsecutive /\ streak \in Nat
  BY <1>2, VerificationAssumption
     DEF fence, TypeInv, TypeOK, StreakOpen, TERMINAL_VERIFICATION_STATUSES
<1>4. streak' \in 0..RequiredConsecutive
  BY <1>2, <1>3, VerificationAssumption
<1>5. conclusive' = (IF is_conclusive(o) THEN conclusive + 1 ELSE conclusive)
      /\ conclusive' \in Nat
  BY <1>2 DEF TypeInv, TypeOK
<1>6. definitive_failure(o) \in BOOLEAN /\ overdue \in BOOLEAN
  BY DEF definitive_failure, TypeInv, TypeOK
<1>7. /\ v \in Verdicts \cup {"RUNNING"}
      /\ v = "RUNNING" => streak' < RequiredConsecutive
  <2> HIDE DEF o
  <2>1. streak' \in Nat
    BY <1>4
  <2>2. QED
    BY <1>5, <1>6, <2>1, DecideSays
<1>8. CASE v = "RUNNING"
  BY <1>1, <1>2, <1>3, <1>4, <1>5, <1>7, <1>8
<1>9. CASE v # "RUNNING"
  <2>1. v \in Verdicts /\ finalize(v)
    BY <1>2, <1>7, <1>9
  <2>2. lease' = Released /\ poll_due' = FALSE
    BY <2>1 DEF finalize
  <2>3. QED
    BY <1>1, <1>2, <1>4, <1>5, <2>1, <2>2
<1>10. QED
  BY <1>8, <1>9

(* A verdict keeps the types of what it writes. *)
LEMMA FinalizeTypes ==
    ASSUME TypeOK, NEW verdict \in Verdicts, finalize(verdict)
    PROVE  /\ incident' \in Lifecycle!IncidentStatus
           /\ status' \in {"PENDING", "RUNNING"} \cup TERMINAL_VERIFICATION_STATUSES
           /\ lease' \in [owner : Workers \cup {NoOne}, live : BOOLEAN]
           /\ poll_due' \in BOOLEAN
           /\ next_action' \in {"pending", "none", "resolve", "escalate", "reinvestigate"}
           /\ StreakOpen'
<1>1. incident' \in {incident, "RESOLVED", "ESCALATED", "VERIFICATION_FAILED"}
  BY FinalizeDoes
<1>2. status' = verdict /\ lease' = Released /\ poll_due' = FALSE
  BY FinalizeDoes
<1>3. next_action' \in {"none", "resolve", "escalate", "reinvestigate"}
  BY FinalizeDoes
<1>4. incident' \in Lifecycle!IncidentStatus
  BY <1>1 DEF TypeOK, Lifecycle!IncidentStatus
<1>5. QED
  BY <1>2, <1>3, <1>4 DEF Verdicts, Released, StreakOpen

LEMMA TypeStep == TypeInv /\ [Next]_vars => TypeInv'
<1> SUFFICES ASSUME TypeInv, [Next]_vars PROVE TypeInv'
  OBVIOUS
<1> USE DEF TypeInv, TypeOK, row
<1>1. CASE start
  BY <1>1 DEF start, linked_alerts, StreakOpen, TERMINAL_VERIFICATION_STATUSES
<1>2. ASSUME NEW w \in Workers, claim_overdue(w) PROVE TypeInv'
  <2>1. decide(FALSE, streak, conclusive, TRUE) \in Verdicts
    <3>1. streak \in Nat /\ conclusive \in Nat
      BY VerificationAssumption
    <3> HIDE DEF TypeInv
    <3>2. QED
      BY <3>1, DecideSays
  <2>2. QED
    BY <1>2, <2>1, FinalizeTypes DEF claim_overdue
<1>3. ASSUME NEW w \in Workers, claim_poll(w) PROVE TypeInv'
  <2>1. ASSUME NEW s \in Readings, NEW h \in Readings PROVE observe(s, h) \in Samples
    BY DEF observe, Samples
  <2>2. claims' \in Nat
    BY <1>3 DEF claim_poll
  <2>3. worker' \in [Workers -> [ticket : Nat, sample : Samples]]
    BY <1>3, <2>1, <2>2 DEF claim_poll
  <2>4. QED
    BY <1>3, <2>2, <2>3 DEF claim_poll, StreakOpen
<1>4. ASSUME NEW w \in Workers, record_observation(w) PROVE TypeInv'
  <2> DEFINE o == Recorded(w)
  <2>1. observations' \in Seq(Observation)
    <3>1. o \in Observation /\ observations' = Append(observations, o)
      BY <1>4, RecordDoes
    <3> HIDE DEF o
    <3>2. QED
      BY <3>1, AppendProperties
  <2>2. worker' \in [Workers -> [ticket : Nat, sample : Samples]]
    <3>1. Idle \in [ticket : Nat, sample : Samples]
      BY DEF Idle, Samples
    <3>2. QED
      BY <1>4, <3>1, RecordDoes
  <2>3. /\ streak' \in 0..RequiredConsecutive
        /\ conclusive' \in Nat
        /\ UNCHANGED <<attempt_count, newer, alert, known, claims, overdue>>
        /\ lease' = Released
        /\ poll_due' = FALSE
    BY <1>4, RecordDoes
  <2>4. CASE /\ status' = "RUNNING" /\ streak' < RequiredConsecutive
             /\ UNCHANGED <<incident, next_action>>
    BY <2>1, <2>2, <2>3, <2>4 DEF StreakOpen, Released
  <2>5. CASE \E verdict \in Verdicts : finalize(verdict)
    BY <2>1, <2>2, <2>3, <2>5, FinalizeTypes
  <2>6. QED
    BY <1>4, <2>4, <2>5, RecordDoes
<1>5. ASSUME NEW w \in Workers, observation_refused(w) \/ crash(w) PROVE TypeInv'
  <2>1. Idle \in [ticket : Nat, sample : Samples]
    BY DEF Idle, Samples
  <2>2. worker' = [worker EXCEPT ![w] = Idle]
        /\ UNCHANGED <<incident, attempt_count, newer, alert, row>>
    BY <1>5 DEF observation_refused, crash
  <2>3. QED
    BY <2>1, <2>2 DEF StreakOpen
<1>6. CASE poll_comes_due \/ deadline_comes \/ lease_expires
  BY <1>6 DEF poll_comes_due, deadline_comes, lease_expires, StreakOpen
<1>7. ASSUME NEW a \in Alerts, alert_fires(a) \/ alert_resolves(a) PROVE TypeInv'
  BY <1>7 DEF alert_fires, alert_resolves, StreakOpen
<1>8. CASE newer_remediation
  BY <1>8 DEF newer_remediation, StreakOpen
<1>9. CASE request_investigation
  BY <1>9 DEF request_investigation, StreakOpen, Lifecycle!IncidentStatus
<1>10. CASE UNCHANGED vars
  BY <1>10 DEF vars, StreakOpen
<1>11. QED
  BY <1>1, <1>2, <1>3, <1>4, <1>5, <1>6, <1>7, <1>8, <1>9, <1>10 DEF Next

LEMMA TypeAlways == Spec => []TypeInv
  BY TypeInit, TypeStep, PTL DEF Spec

(* Type correctness of the verification row, its observations and the      *)
(* workers: no poll, takeover or late result drives the streak past the    *)
(* length that ends the verification.                                      *)
THEOREM TypeCorrect == Spec => []TypeOK
  BY TypeAlways, PTL DEF TypeInv

-----------------------------------------------------------------------------
(* What the observations say *)

(* The steps that neither record nor decide anything: they may start the   *)
(* row, let time pass, move alerts, or have the scheduler take up a        *)
(* failed incident.                                                        *)
Quiet ==
    /\ UNCHANGED <<observations, streak, conclusive, claims, next_action>>
    /\ status' = status \/ (status = "PENDING" /\ status' = "RUNNING")
    /\ overdue => overdue'
    /\ newer => newer'
    /\ lease'.owner = lease.owner
    /\ \/ UNCHANGED <<incident, attempt_count>>
       \/ /\ incident = "VERIFICATION_FAILED"
          /\ incident' = "INVESTIGATING"
          /\ attempt_count' = attempt_count + 1

LEMMA StepKinds ==
    ASSUME TypeOK, [Next]_vars
    PROVE  \/ \E w \in Workers : record_observation(w)
           \/ \E w \in Workers : claim_overdue(w)
           \/ \E w \in Workers : claim_poll(w)
           \/ Quiet
<1> USE DEF Quiet
<1>r. ASSUME UNCHANGED row
      PROVE  UNCHANGED <<observations, streak, conclusive, claims, next_action, status,
                         overdue, lease>>
  BY <1>r DEF row
<1>1. CASE start
  BY <1>1 DEF start
<1>2. ASSUME NEW w \in Workers, observation_refused(w) \/ crash(w) PROVE Quiet
  <2>1. UNCHANGED <<row, incident, attempt_count, newer>>
    BY <1>2 DEF observation_refused, crash
  <2>2. QED
    BY <1>r, <2>1
<1>3. CASE poll_comes_due \/ deadline_comes
  BY <1>3 DEF poll_comes_due, deadline_comes
<1>4. CASE lease_expires
  <2>1. lease'.owner = lease.owner
    BY <1>4 DEF lease_expires, TypeOK
  <2>2. QED
    BY <1>4, <2>1 DEF lease_expires
<1>5. ASSUME NEW a \in Alerts, alert_fires(a) \/ alert_resolves(a) PROVE Quiet
  <2>1. UNCHANGED <<row, incident, attempt_count, newer>>
    BY <1>5 DEF alert_fires, alert_resolves
  <2>2. QED
    BY <1>r, <2>1
<1>6. CASE newer_remediation \/ request_investigation
  <2>1. UNCHANGED row
    BY <1>6 DEF newer_remediation, request_investigation
  <2>2. QED
    BY <1>6, <1>r, <2>1 DEF newer_remediation, request_investigation
<1>7. CASE UNCHANGED vars
  <2>1. UNCHANGED <<row, incident, attempt_count, newer>>
    BY <1>7 DEF vars
  <2>2. QED
    BY <1>r, <2>1
<1>8. QED
  BY <1>1, <1>2, <1>3, <1>4, <1>5, <1>6, <1>7 DEF Next

Recordings == 1..Len(observations)

(* A claim that holds the lease has recorded nothing yet, so its number is *)
(* larger than every recorded one; the streak is the length of the last    *)
(* run of passing observations, and conclusive is zero exactly as long as  *)
(* nothing conclusive was seen.                                            *)
ClaimsAhead ==
    \A i \in Recordings :
        /\ observations[i].claim <= claims
        /\ lease.owner # NoOne => observations[i].claim < claims

StreakTracks ==
    /\ streak <= Len(observations)
    /\ \A i \in (Len(observations) - streak + 1)..Len(observations) :
            passed(observations[i])

ConclusiveCounts ==
    conclusive = 0 <=> \A i \in Recordings : ~is_conclusive(observations[i])

History == ClaimsAhead /\ ClaimsRecordInOrder /\ StreakTracks /\ ConclusiveCounts

(* Appending an observation of the claim that holds the lease keeps all of *)
(* them.                                                                   *)
LEMMA HistoryRecord ==
    ASSUME TypeInv, History, NEW w \in Workers, record_observation(w)
    PROVE  History'
<1> DEFINE o == Recorded(w)
           n == Len(observations)
<1>1. /\ observations \in Seq(Observation)
      /\ o \in Observation
      /\ observations' = Append(observations, o)
  BY RecordDoes DEF TypeInv, TypeOK
<1>2. /\ n \in Nat
      /\ Len(observations') = n + 1
      /\ \A i \in 1..n : observations'[i] = observations[i]
      /\ observations'[n + 1] = o
  <2> HIDE DEF o
  <2>1. QED
    BY <1>1, AppendProperties, LenProperties
<1>3. /\ claims' = claims /\ claims \in Nat
      /\ o.claim = claims
      /\ lease.owner # NoOne
      /\ lease'.owner = NoOne
  <2>1. fence(w) /\ claims' = claims /\ lease' = Released
    BY RecordDoes
  <2>2. o.claim = claims /\ lease.owner = w
    BY <2>1 DEF fence, Recorded
  <2>3. QED
    BY <2>1, <2>2, VerificationAssumption DEF TypeInv, TypeOK, Released
<1>4. \A i \in 1..n : observations[i].claim \in Nat
  <2>1. ASSUME NEW i \in 1..n PROVE observations[i] \in Observation
    BY <1>1, ElementOfSeq
  <2>2. QED
    BY <2>1 DEF Observation
<1>5. ClaimsAhead'
  BY <1>2, <1>3 DEF History, ClaimsAhead, Recordings
<1>6. ClaimsRecordInOrder'
  BY <1>2, <1>3, <1>4 DEF History, ClaimsAhead, ClaimsRecordInOrder, Recordings
<1>7. StreakTracks'
  <2>1. streak' = (IF passed(o) THEN streak + 1 ELSE 0) /\ streak \in Nat
    <3>1. streak' = (IF passed(o) THEN streak + 1 ELSE 0)
      BY RecordDoes
    <3>2. streak \in Nat
      BY VerificationAssumption DEF TypeInv, TypeOK
    <3>3. QED
      BY <3>1, <3>2
  <2>2. CASE ~passed(o)
    BY <1>2, <2>1, <2>2 DEF StreakTracks
  <2>3. CASE passed(o)
    <3>1. streak' = streak + 1 /\ streak <= n
      BY <2>1, <2>3 DEF History, StreakTracks
    <3>2. ASSUME NEW i \in (n + 1 - (streak + 1) + 1)..(n + 1)
          PROVE  passed(observations'[i])
      <4>1. CASE i = n + 1
        BY <1>2, <2>3, <4>1
      <4>2. CASE i # n + 1
        <5>1. i \in (n - streak + 1)..n /\ i \in 1..n
          BY <1>2, <2>1, <3>1, <4>2
        <5>2. QED
          BY <1>2, <5>1 DEF History, StreakTracks
      <4>3. QED
        BY <4>1, <4>2
    <3>3. QED
      BY <1>2, <2>1, <3>1, <3>2 DEF StreakTracks
  <2>4. QED
    BY <2>2, <2>3
<1>8. ConclusiveCounts'
  <2>1. conclusive' = (IF is_conclusive(o) THEN conclusive + 1 ELSE conclusive)
        /\ conclusive \in Nat
    BY RecordDoes DEF TypeInv, TypeOK
  <2>2. QED
    BY <1>2, <2>1 DEF History, ConclusiveCounts, Recordings
<1>9. QED
  BY <1>5, <1>6, <1>7, <1>8 DEF History

LEMMA HistoryStep == TypeInv /\ History /\ [Next]_vars => History'
<1> SUFFICES ASSUME TypeInv, History, [Next]_vars PROVE History'
  OBVIOUS
<1> USE DEF TypeInv, History, ClaimsAhead, ClaimsRecordInOrder, StreakTracks,
            ConclusiveCounts, Recordings
<1>1. ASSUME NEW w \in Workers, record_observation(w) PROVE History'
  BY <1>1, HistoryRecord
<1>2. ASSUME NEW w \in Workers, claim_overdue(w) PROVE History'
  <2>1. UNCHANGED <<observations, streak, conclusive, claims>> /\ lease' = Released
    BY <1>2 DEF claim_overdue, finalize
  <2>2. QED
    BY <2>1 DEF Released
<1>3. ASSUME NEW w \in Workers, claim_poll(w) PROVE History'
  <2>1. UNCHANGED <<observations, streak, conclusive>> /\ claims' = claims + 1
    BY <1>3 DEF claim_poll
  <2>2. \A i \in Recordings : observations[i].claim \in Nat
    <3>1. ASSUME NEW i \in 1..Len(observations) PROVE observations[i] \in Observation
      BY ElementOfSeq DEF TypeOK
    <3>2. QED
      BY <3>1 DEF Observation
  <2>3. claims \in Nat
    BY DEF TypeOK
  <2>4. QED
    BY <2>1, <2>2, <2>3
<1>4. CASE Quiet
  BY <1>4 DEF Quiet
<1>5. QED
  BY <1>1, <1>2, <1>3, <1>4, StepKinds

LEMMA HistoryAlways == Spec => []History
<1>1. Init => History
  BY DEF Init, History, ClaimsAhead, ClaimsRecordInOrder, StreakTracks,
         ConclusiveCounts, Recordings
<1>2. QED
  BY <1>1, HistoryStep, TypeAlways, PTL DEF Spec

(* Every claim records at most once and in claim order, for any number of  *)
(* workers that crash, stall past their lease and come back: the fence in  *)
(* record_observation is enough.                                           *)
THEOREM ClaimsInOrder == Spec => []ClaimsRecordInOrder
  BY HistoryAlways, PTL DEF History

-----------------------------------------------------------------------------
(* What a verdict says *)

(* What the row and the incident hold once a verdict was reached, in terms *)
(* of the counters that decide() read.                                     *)
VerdictCounts ==
    /\ status = "PASSED" => streak >= RequiredConsecutive
    /\ status = "TIMED_OUT" => overdue /\ conclusive = 0
    /\ status = "FAILED" =>
            \/ definitive_failure(observations[Len(observations)])
            \/ overdue /\ conclusive # 0

ResolvedMeansPassed == incident = "RESOLVED" => status = "PASSED"

FailedBelowLimit ==
    incident = "VERIFICATION_FAILED" => attempt_count < MaxInvestigationAttempts

Outcome ==
    /\ VerdictCounts
    /\ ResolvedMeansPassed
    /\ UnappliedOnlyWhenNewer
    /\ FailedBelowLimit
    /\ AttemptsBounded

(* The two steps that may decide: the poll that records and the claim that *)
(* comes after the deadline.                                               *)
LEMMA Deciding ==
    ASSUME TypeInv, NEW w \in Workers, claim_overdue(w) \/ record_observation(w)
    PROVE  /\ status = "RUNNING"
           /\ UNCHANGED <<attempt_count, newer, overdue>>
           /\ \/ status' = "RUNNING" /\ UNCHANGED <<incident, next_action>>
              \/ \E verdict \in Verdicts :
                    /\ finalize(verdict)
                    /\ verdict = "PASSED" => streak' >= RequiredConsecutive
                    /\ verdict = "TIMED_OUT" => overdue /\ conclusive' = 0
                    /\ verdict = "FAILED" =>
                          \/ definitive_failure(observations'[Len(observations')])
                          \/ overdue /\ conclusive' # 0
<1>1. CASE claim_overdue(w)
  <2> DEFINE v == decide(FALSE, streak, conclusive, TRUE)
  <2>1. streak \in Nat /\ conclusive \in Nat
    BY VerificationAssumption DEF TypeInv, TypeOK
  <2>2. /\ v \in Verdicts
        /\ v = "PASSED" => streak >= RequiredConsecutive
        /\ v = "TIMED_OUT" => conclusive = 0
        /\ v = "FAILED" => conclusive # 0
    BY <2>1, DecideSays
  <2>3. /\ status = "RUNNING"
        /\ overdue
        /\ UNCHANGED <<attempt_count, newer, overdue, streak, conclusive>>
        /\ finalize(v)
    BY <1>1 DEF claim_overdue
  <2> HIDE DEF v
  <2>4. QED
    BY <2>2, <2>3
<1>2. CASE record_observation(w)
  <2> DEFINE o == Recorded(w)
             v == decide(definitive_failure(o), streak', conclusive', overdue)
  <2>1. /\ fence(w)
        /\ o \in Observation
        /\ observations' = Append(observations, o)
        /\ streak' \in 0..RequiredConsecutive
        /\ conclusive' \in Nat
        /\ UNCHANGED <<attempt_count, newer, overdue>>
        /\ \/ status' = "RUNNING" /\ UNCHANGED <<incident, next_action>>
           \/ v \in Verdicts /\ finalize(v)
    BY <1>2, RecordDoes
  <2>2. status = "RUNNING"
    BY <2>1 DEF fence
  <2>3. observations'[Len(observations')] = o
    <3>1. observations \in Seq(Observation)
      BY DEF TypeInv, TypeOK
    <3> HIDE DEF o
    <3>2. QED
      BY <2>1, <3>1, AppendProperties, LenProperties
  <2>4. /\ v = "PASSED" => streak' >= RequiredConsecutive
        /\ v = "TIMED_OUT" => overdue /\ conclusive' = 0
        /\ v = "FAILED" => definitive_failure(o) \/ (overdue /\ conclusive' # 0)
    <3>1. streak' \in Nat /\ conclusive' \in Nat
      BY <2>1, VerificationAssumption
    <3>2. definitive_failure(o) \in BOOLEAN /\ overdue \in BOOLEAN
      BY DEF definitive_failure, TypeInv, TypeOK
    <3> HIDE DEF o
    <3>3. QED
      BY <3>1, <3>2, DecideSays
  <2> HIDE DEF v, o
  <2>5. QED
    BY <2>1, <2>2, <2>3, <2>4
<1>3. QED
  BY <1>1, <1>2

LEMMA OutcomeStep == TypeInv /\ Outcome /\ [Next]_vars => Outcome'
<1> SUFFICES ASSUME TypeInv, Outcome, [Next]_vars PROVE Outcome'
  OBVIOUS
<1> USE DEF Outcome, VerdictCounts, ResolvedMeansPassed, UnappliedOnlyWhenNewer,
            FailedBelowLimit, AttemptsBounded
<1>t. attempt_count \in Nat /\ MaxInvestigationAttempts \in Nat
  BY VerificationAssumption DEF TypeInv, TypeOK
<1>1. ASSUME NEW w \in Workers, claim_overdue(w) \/ record_observation(w)
      PROVE  Outcome'
  <2>1. /\ status = "RUNNING"
        /\ UNCHANGED <<attempt_count, newer, overdue>>
    BY <1>1, Deciding
  <2>2. CASE status' = "RUNNING" /\ UNCHANGED <<incident, next_action>>
    BY <2>1, <2>2 DEF TERMINAL_VERIFICATION_STATUSES
  <2>3. ASSUME NEW verdict \in Verdicts, finalize(verdict),
               verdict = "PASSED" => streak' >= RequiredConsecutive,
               verdict = "TIMED_OUT" => overdue /\ conclusive' = 0,
               verdict = "FAILED" =>
                  \/ definitive_failure(observations'[Len(observations')])
                  \/ overdue /\ conclusive' # 0
        PROVE  Outcome'
    <3>1. /\ status' = verdict
          /\ next_action' \in {"none", "resolve", "escalate", "reinvestigate"}
          /\ next_action' = "none" => stale /\ incident' = incident
          /\ next_action' = "resolve" => verdict = "PASSED" /\ incident' = "RESOLVED"
          /\ next_action' = "escalate" => incident' = "ESCALATED"
          /\ next_action' = "reinvestigate" =>
                /\ incident' = "VERIFICATION_FAILED"
                /\ attempt_count < MaxInvestigationAttempts
      BY <2>3, FinalizeDoes DEF TypeInv
    <3>2. VerdictCounts'
      BY <2>1, <2>3, <3>1
    <3>3. ResolvedMeansPassed' /\ FailedBelowLimit' /\ AttemptsBounded'
      BY <2>1, <3>1
    <3>4. UnappliedOnlyWhenNewer'
      BY <2>1, <3>1 DEF stale
    <3>5. QED
      BY <3>2, <3>3, <3>4
  <2>4. QED
    BY <1>1, <2>2, <2>3, Deciding
<1>2. ASSUME NEW w \in Workers, claim_poll(w) PROVE Outcome'
  BY <1>2 DEF claim_poll
<1>3. CASE Quiet
  <2>1. VerdictCounts'
    BY <1>3 DEF Quiet
  <2>2. ResolvedMeansPassed' /\ UnappliedOnlyWhenNewer'
    BY <1>3 DEF Quiet, TERMINAL_VERIFICATION_STATUSES
  <2>3. FailedBelowLimit' /\ AttemptsBounded'
    BY <1>3, <1>t DEF Quiet
  <2>4. QED
    BY <2>1, <2>2, <2>3
<1>4. QED
  BY <1>1, <1>2, <1>3, StepKinds DEF TypeInv

LEMMA OutcomeAlways == Spec => []Outcome
<1>1. Init => Outcome
  BY VerificationAssumption
     DEF Init, Outcome, VerdictCounts, ResolvedMeansPassed, UnappliedOnlyWhenNewer,
         FailedBelowLimit, AttemptsBounded, TERMINAL_VERIFICATION_STATUSES
<1>2. QED
  BY <1>1, OutcomeStep, TypeAlways, PTL DEF Spec

(* RESOLVED means verified: only a PASSED verdict resolves, a verdict is   *)
(* PASSED only with the streak complete, and the streak counts passing     *)
(* observations at the end of the history.                                 *)
THEOREM ResolvedIsVerified == Spec => []ResolvedMeansVerified
<1>1. TypeInv /\ History /\ Outcome => ResolvedMeansVerified
  <2> SUFFICES ASSUME TypeInv, History, Outcome, incident = "RESOLVED"
               PROVE  /\ Len(observations) >= RequiredConsecutive
                      /\ \A i \in (Len(observations) - RequiredConsecutive + 1)
                                   ..Len(observations) : passed(observations[i])
    BY DEF ResolvedMeansVerified
  <2>1. streak = RequiredConsecutive
    BY VerificationAssumption
       DEF Outcome, VerdictCounts, ResolvedMeansPassed, TypeInv, TypeOK
  <2>2. QED
    BY <2>1 DEF History, StreakTracks
<1>2. QED
  BY <1>1, TypeAlways, HistoryAlways, OutcomeAlways, PTL

(* TIMED_OUT only when nothing conclusive was ever seen, FAILED only on a  *)
(* definitive failure or conclusive evidence at the deadline.              *)
THEOREM VerdictIsFromEvidence == Spec => []VerdictFromEvidence
<1>1. History /\ Outcome => VerdictFromEvidence
  BY DEF History, ConclusiveCounts, Recordings, Outcome, VerdictCounts,
         VerdictFromEvidence
<1>2. QED
  BY <1>1, HistoryAlways, OutcomeAlways, PTL

(* A verdict leaves the incident VERIFYING only for a newer remediation.   *)
THEOREM UnappliedIsSuperseded == Spec => []UnappliedOnlyWhenNewer
  BY OutcomeAlways, PTL DEF Outcome

(* The closed loop is bounded: request_investigation does not look at the  *)
(* limit, but an incident is VERIFICATION_FAILED only below it.            *)
THEOREM LoopIsBounded == Spec => []AttemptsBounded
  BY OutcomeAlways, PTL DEF Outcome

-----------------------------------------------------------------------------
(* Steps *)

(* A verdict is final and the history only grows, whatever arrives late.   *)
THEOREM VerdictStaysFinal == Spec => VerdictIsFinal
<1>1. TypeInv /\ [Next]_vars => [VerdictStays]_vars
  <2> SUFFICES ASSUME TypeInv, [Next]_vars PROVE VerdictStays
    OBVIOUS
  <2>1. observations \in Seq(Observation)
    BY DEF TypeInv, TypeOK
  <2>2. ASSUME observations' = observations
        PROVE  /\ Len(observations') >= Len(observations)
               /\ SubSeq(observations', 1, Len(observations)) = observations
    BY <2>1, <2>2, SubSeqFull, LenProperties
  <2>3. ASSUME NEW w \in Workers, record_observation(w) PROVE VerdictStays
    <3> DEFINE o == Recorded(w)
    <3>1. fence(w) /\ o \in Observation /\ observations' = Append(observations, o)
      BY <2>3, RecordDoes
    <3>2. status \notin TERMINAL_VERIFICATION_STATUSES
      BY <3>1 DEF fence, TERMINAL_VERIFICATION_STATUSES
    <3> HIDE DEF o
    <3>3. Len(observations') >= Len(observations)
      BY <2>1, <3>1, AppendProperties, LenProperties
    <3>4. SubSeq(observations', 1, Len(observations)) = observations
      <4>1. <<o>> \in Seq(Observation) /\ observations' = observations \o <<o>>
        BY <2>1, <3>1, AppendIsConcat
      <4>2. SubSeq(observations \o <<o>>, 1, Len(observations))
              = SubSeq(observations, 1, Len(observations))
        BY <2>1, <4>1, SubSeqOfConcat1, LenProperties
      <4>3. QED
        BY <2>1, <4>1, <4>2, SubSeqFull
    <3>5. QED
      BY <3>2, <3>3, <3>4 DEF VerdictStays
  <2>4. ASSUME NEW w \in Workers, claim_overdue(w) PROVE VerdictStays
    BY <2>2, <2>4 DEF claim_overdue, VerdictStays, TERMINAL_VERIFICATION_STATUSES
  <2>5. ASSUME NEW w \in Workers, claim_poll(w) PROVE VerdictStays
    BY <2>2, <2>5 DEF claim_poll, VerdictStays
  <2>6. CASE Quiet
    BY <2>2, <2>6 DEF Quiet, VerdictStays, TERMINAL_VERIFICATION_STATUSES
  <2>7. QED
    BY <2>3, <2>4, <2>5, <2>6, StepKinds DEF TypeInv
<1>2. QED
  BY <1>1, TypeAlways, PTL DEF Spec, VerdictIsFinal

=============================================================================
