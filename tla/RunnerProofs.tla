---------------------------- MODULE RunnerProofs ----------------------------
(***************************************************************************)
(* Theorems about RemediationRunner, for every set of keys, workers,       *)
(* humans and proposals and any number of crashes.  The worker only takes  *)
(* steps that incident-core offers, so what RemediationProofs shows of     *)
(* Remediation carries over; what is new relates the workers' tickets, the *)
(* executor's threads and the environment to the rows.                     *)
(***************************************************************************)
EXTENDS RemediationRunner, RemediationProofs

-----------------------------------------------------------------------------
(* The inductive invariant *)

(* A worker in a run holds a ticket of an attempt that was started, and of *)
(* the latest one if it still owns the lease.                              *)
TicketsValid ==
    \A w \in Owners : runner[w].pc # "idle" =>
        /\ Ticket(w) \in AttemptIds
        /\ Ticket(w)[2] <= attempts[Ticket(w)[1]]
        /\ lease[Ticket(w)[1]].owner = w => Ticket(w)[2] = attempts[Ticket(w)[1]]

(* An "execute" ticket is held by one worker, whose thread does not exist  *)
(* yet: the executor is called once per attempt.                           *)
TicketsFresh ==
    /\ \A w \in Owners : At(w, "claimed") => call[Ticket(w)].step = "none"
    /\ \A v, w \in Owners :
            At(v, "claimed") /\ At(w, "claimed") /\ Ticket(v) = Ticket(w) => v = w

(* What a worker is about to report happened. *)
ReportsTrue ==
    \A w \in Owners : At(w, "report") =>
        /\ runner[w].outcome # "none"
        /\ runner[w].outcome = "succeeded" => applied[Ticket(w)] = 1

(* Threads exist only for started attempts with their baseline captured;   *)
(* the environment changes on the way from "checked" to "acted" and at no  *)
(* other time, and a success is stored or returned only after it changed.  *)
Tracked(a) ==
    /\ call[a].step # "none" =>
        /\ a[2] <= attempts[a[1]]
        /\ entry(a[1]).baseline_required => a[1] \in baseline
    /\ call[a].step \in {"none", "submitted", "checked"} => applied[a] = 0
    /\ applied[a] <= 1
    /\ stored[a] = "succeeded" => applied[a] = 1
    /\ call[a].step \in {"acted", "returned"} /\ call[a].succeeded => applied[a] = 1

CallsTrack == \A a \in AttemptIds : Tracked(a)

TriedIsKnown ==
    \A k \in Keys : attempts[k] > 0 =>
        proposal[k] \in Proposals /\ Known(proposal[k])

RunnerInv ==
    /\ RunnerTypeOK
    /\ TypeInv
    /\ ApprovalsBind
    /\ TriedIsKnown
    /\ TicketsValid
    /\ TicketsFresh
    /\ ReportsTrue
    /\ CallsTrack
    /\ OnlyLatestRuns
    /\ ExecutedMeansApplied

-----------------------------------------------------------------------------
(* Every step is a step of incident-core, or none *)

(* What a worker in "report" asks complete_execution for is within what    *)
(* Remediation lets any caller ask.                                        *)
LEMMA CoreStep == RunnerInv /\ [RunnerNext]_allVars => [Next]_vars
<1> SUFFICES ASSUME RunnerInv, [RunnerNext]_allVars PROVE [Next]_vars
  OBVIOUS
<1>1. CASE Command
  BY <1>1 DEF Command, Next
<1>2. ASSUME NEW w \in Owners, NEW k \in Keys, Claim(w, k) PROVE Next
  BY <1>2 DEF Claim, Next
<1>3. ASSUME NEW w \in Owners, CaptureBaseline(w) PROVE [Next]_vars
  <2>1. Ticket(w) \in AttemptIds
    BY <1>3 DEF RunnerInv, TicketsValid, CaptureBaseline, At
  <2>2. Ticket(w)[1] \in Keys
    BY <2>1 DEF AttemptIds
  <2>3. QED
    BY <1>3, <2>2 DEF CaptureBaseline, Next
<1>4. ASSUME NEW w \in Owners, Report(w) PROVE [Next]_vars
  <2>1. Ticket(w) \in AttemptIds
    BY <1>4 DEF RunnerInv, TicketsValid, Report, At
  <2>2. Ticket(w)[1] \in Keys /\ Ticket(w)[2] \in Attempts
    BY <2>1 DEF AttemptIds
  <2>3. /\ runner[w].outcome \in {"not_applied"} \cup Outcomes
        /\ runner[w].retryable \in BOOLEAN
    BY <1>4 DEF RunnerInv, RunnerTypeOK, ReportsTrue, Report, At
  <2>4. QED
    BY <1>4, <2>2, <2>3 DEF Report, Next, Outcomes
<1>5. ASSUME NEW w \in Owners,
             \/ Reconcile(w) \/ BaselineLeaseLost(w) \/ Submit(w) \/ Await(w)
             \/ Crash(w) \/ Abandon(w)
      PROVE  UNCHANGED vars
  BY <1>5 DEF Reconcile, BaselineLeaseLost, Submit, Await, Crash, Abandon
<1>6. ASSUME NEW a \in AttemptIds,
             CheckDeadline(a) \/ Act(a) \/ StoreResult(a) \/ DeadlinePasses(a)
      PROVE  UNCHANGED vars
  BY <1>6 DEF CheckDeadline, Act, StoreResult, DeadlinePasses
<1>7. ASSUME NEW k \in Keys, LeaseExpires(k) PROVE Next
  BY <1>7 DEF LeaseExpires, Next
<1>8. CASE UNCHANGED allVars
  BY <1>8 DEF allVars
<1>9. QED
  BY <1>1, <1>2, <1>3, <1>4, <1>5, <1>6, <1>7, <1>8 DEF RunnerNext, WorkerStep

-----------------------------------------------------------------------------
(* What the commands leave alone *)

(* No command takes an attempt, a baseline or the proposal of a tried      *)
(* remediation back.                                                       *)
Grows ==
    /\ baseline \subseteq baseline'
    /\ \A k \in Keys :
        /\ attempts[k] <= attempts'[k]
        /\ attempts[k] > 0 => proposal'[k] = proposal[k]

LEMMA CoreGrows == TypeInv /\ ApprovalsBind /\ [Next]_vars => Grows
<1> SUFFICES ASSUME TypeInv, ApprovalsBind, [Next]_vars PROVE Grows
  OBVIOUS
<1>0. attempts \in [Keys -> 0..MaxAttempts] /\ MaxAttempts = 2
  BY DEF TypeInv, TypeOK, MaxAttempts
<1>1. ASSUME NEW k \in Keys, NEW p \in Proposals, NEW load \in HourlyLoads,
             propose(k, p, load)
      PROVE  Grows
  <2>1. attempts[k] = 0
    BY <1>1 DEF propose, ApprovalsBind, Bound
  <2>2. /\ UNCHANGED <<baseline, attempts>>
        /\ \A j \in Keys : j # k => proposal'[j] = proposal[j]
    BY <1>1 DEF propose, TypeInv, TypeOK
  <2>3. QED
    BY <1>0, <2>1, <2>2 DEF Grows
<1>2. ASSUME NEW k \in Keys, NEW w \in Owners, claim_started(k, w) PROVE Grows
  <2>1. attempts' = [attempts EXCEPT ![k] = @ + 1] /\ UNCHANGED <<baseline, proposal>>
    BY <1>2 DEF claim_started
  <2>2. QED
    BY <1>0, <2>1 DEF Grows
<1>3. ASSUME NEW k \in Keys, NEW w \in Owners, record_baseline(k, w) PROVE Grows
  <2>1. baseline \subseteq baseline' /\ UNCHANGED <<attempts, proposal>>
    BY <1>3 DEF record_baseline
  <2>2. QED
    BY <1>0, <2>1 DEF Grows
<1>4. ASSUME UNCHANGED <<attempts, baseline, proposal>> PROVE Grows
  BY <1>0, <1>4 DEF Grows
<1>5. ASSUME NEW k \in Keys, NEW seen \in Keys, NEW human \in Humans,
             NEW approve \in BOOLEAN, decide_approval(k, human, seen, approve)
      PROVE  Grows
  BY <1>4, <1>5 DEF decide_approval
<1>6. ASSUME NEW k \in Keys, select_expired(k) \/ expire_approval(k) \/ cancel(k)
      PROVE  Grows
  BY <1>4, <1>6 DEF select_expired, expire_approval, cancel, rows
<1>7. ASSUME NEW k \in Keys, NEW w \in Owners, NEW n, NEW outcome, NEW retryable,
             \/ claim_interrupted(k, w)
             \/ complete_execution(k, n, w, outcome, retryable)
      PROVE  Grows
  BY <1>4, <1>7 DEF claim_interrupted, complete_execution
<1>8. ASSUME NEW k \in Keys, NEW drift, claim_blocked(k, drift) PROVE Grows
  BY <1>4, <1>8 DEF claim_blocked
<1>9. ASSUME NEW k \in Keys, lease_expires(k) PROVE Grows
  BY <1>4, <1>9 DEF lease_expires
<1>10. ASSUME NEW scope, NEW engaged, set_kill_switch(scope, engaged) PROVE Grows
  BY <1>4, <1>10 DEF set_kill_switch, rows
<1>11. CASE other_service_moves_incident \/ UNCHANGED vars
  BY <1>4, <1>11 DEF other_service_moves_incident, vars, rows
<1>12. QED
  BY <1>1, <1>2, <1>3, <1>5, <1>6, <1>7, <1>8, <1>9, <1>10, <1>11 DEF Next

(* The steps that start, interrupt, block or settle no attempt. *)
Calm ==
    /\ UNCHANGED <<attempts, execution>>
    /\ \A k \in Keys :
        /\ lease'[k].owner \in {lease[k].owner, NoOne}
        /\ status[k] = "EXECUTING" => status'[k] = "EXECUTING"
        /\ status'[k] = "EXECUTED" => status[k] = "EXECUTED"

LEMMA CalmSteps ==
    ASSUME TypeInv,
           \/ Command
           \/ \E k \in Keys : lease_expires(k)
           \/ \E k \in Keys, w \in Owners : record_baseline(k, w)
           \/ UNCHANGED vars
    PROVE  Calm
<1> USE DEF TypeInv, TypeOK
<1>1. ASSUME NEW k \in Keys, NEW p \in Proposals, NEW load \in HourlyLoads,
             propose(k, p, load)
      PROVE  Calm
  BY <1>1 DEF propose, Calm
<1>2. ASSUME NEW k \in Keys, NEW to, finish_cancelled(k, to),
             status[k] \in {"AWAITING_APPROVAL", "APPROVED"},
             UNCHANGED <<attempts, execution>>
      PROVE  Calm
  BY <1>2 DEF finish_cancelled, transition, release_lease, Released, Calm
<1>3. ASSUME UNCHANGED <<attempts, execution, status, lease>> PROVE Calm
  BY <1>3 DEF Calm
<1>4. ASSUME NEW k \in Keys, NEW seen \in Keys, NEW human \in Humans,
             NEW approve \in BOOLEAN, decide_approval(k, human, seen, approve)
      PROVE  Calm
  <2>1. CASE approve
    BY <1>4, <2>1 DEF decide_approval, transition, Calm
  <2>2. CASE ~approve
    BY <1>2, <1>4, <2>2 DEF decide_approval
  <2>3. QED
    BY <2>1, <2>2
<1>5. ASSUME NEW k \in Keys, select_expired(k) \/ expire_approval(k) \/ cancel(k)
      PROVE  Calm
  <2>1. CASE select_expired(k)
    BY <1>3, <2>1 DEF select_expired, rows
  <2>2. CASE expire_approval(k)
    BY <1>2, <1>3, <2>2 DEF expire_approval
  <2>3. CASE cancel(k)
    BY <1>2, <2>3 DEF cancel
  <2>4. QED
    BY <1>5, <2>1, <2>2, <2>3
<1>6. ASSUME NEW scope, NEW engaged, set_kill_switch(scope, engaged) PROVE Calm
  BY <1>3, <1>6 DEF set_kill_switch, rows
<1>7. CASE other_service_moves_incident \/ UNCHANGED vars
  BY <1>3, <1>7 DEF other_service_moves_incident, vars, rows
<1>8. ASSUME NEW k \in Keys, lease_expires(k) PROVE Calm
  BY <1>8 DEF lease_expires, Calm
<1>9. ASSUME NEW k \in Keys, NEW w \in Owners, record_baseline(k, w) PROVE Calm
  BY <1>3, <1>9 DEF record_baseline
<1>10. QED
  BY <1>1, <1>4, <1>5, <1>6, <1>7, <1>8, <1>9 DEF Command

(* claim_execution that starts an attempt: the next number, within the     *)
(* limit of the catalog, on a remediation without a running attempt.       *)
LEMMA Started ==
    ASSUME TypeInv, NEW k \in Keys, NEW w \in Owners, claim_started(k, w)
    PROVE  /\ status[k] \in {"APPROVED", "EXECUTING"}
           /\ latest_execution(k) # "RUNNING"
           /\ attempts[k] + 1 \in Attempts
           /\ attempts'[k] = attempts[k] + 1
           /\ status'[k] = "EXECUTING"
           /\ lease'[k].owner = w
           /\ \A n \in Attempts : execution'[k][n] =
                IF n = attempts[k] + 1 THEN "RUNNING" ELSE execution[k][n]
           /\ \A j \in Keys \ {k} :
                /\ status'[j] = status[j]
                /\ attempts'[j] = attempts[j]
                /\ execution'[j] = execution[j]
                /\ lease'[j] = lease[j]
           /\ UNCHANGED <<proposal, baseline>>
<1>1. /\ status[k] \in {"APPROVED", "EXECUTING"}
      /\ latest_execution(k) # "RUNNING"
      /\ execution_blocker(k, FALSE) = "none"
      /\ attempts' = [attempts EXCEPT ![k] = @ + 1]
      /\ execution' = [execution EXCEPT ![k][attempts[k] + 1] = "RUNNING"]
      /\ lease' = [lease EXCEPT ![k] = [owner |-> w, live |-> TRUE]]
      /\ status' = [status EXCEPT ![k] = "EXECUTING"]
      /\ UNCHANGED <<proposal, baseline>>
  BY DEF claim_started, Claimable, transition
<1>2. attempts[k] + 1 \in Attempts
  <2>1. proposal[k].action_id \in ActionIds
    BY <1>1 DEF TypeInv, LiveIsKnown, Live, Known, CATALOG
  <2>2. entry(k).max_attempts \in 1..MaxAttempts
    BY <2>1, AttemptLimit DEF entry
  <2>3. ~(attempts[k] >= entry(k).max_attempts)
    BY <1>1 DEF execution_blocker
  <2>4. QED
    BY <2>2, <2>3 DEF TypeInv, TypeOK, Attempts, MaxAttempts
<1>3. /\ status \in [Keys -> RemediationStatus \cup {"none"}]
      /\ attempts \in [Keys -> 0..MaxAttempts]
      /\ execution \in [Keys -> [Attempts -> ExecutionStatus \cup {"none"}]]
      /\ lease \in [Keys -> [owner : Owners \cup {NoOne}, live : BOOLEAN]]
  BY DEF TypeInv, TypeOK
<1>4. QED
  BY <1>1, <1>2, <1>3

(* claim_execution on an attempt whose lease ran out. *)
LEMMA Interrupted ==
    ASSUME TypeInv, NEW k \in Keys, NEW w \in Owners, claim_interrupted(k, w)
    PROVE  /\ attempts[k] \in Attempts
           /\ lease'[k].owner = w
           /\ \A j \in Keys \ {k} : lease'[j] = lease[j]
           /\ \A j \in Keys, n \in Attempts :
                execution'[j][n] = execution[j][n] \/ execution'[j][n] = "UNKNOWN"
           /\ UNCHANGED <<status, attempts, proposal, baseline>>
<1>1. /\ latest_execution(k) = "RUNNING"
      /\ execution' = [execution EXCEPT ![k][attempts[k]] = "UNKNOWN"]
      /\ lease' = [lease EXCEPT ![k] = [owner |-> w, live |-> TRUE]]
      /\ UNCHANGED <<status, attempts, proposal, baseline>>
  BY DEF claim_interrupted
<1>2. attempts[k] \in Attempts
  BY <1>1 DEF latest_execution, TypeInv, TypeOK, Attempts, MaxAttempts
<1>3. /\ execution \in [Keys -> [Attempts -> ExecutionStatus \cup {"none"}]]
      /\ lease \in [Keys -> [owner : Owners \cup {NoOne}, live : BOOLEAN]]
  BY DEF TypeInv, TypeOK
<1>4. QED
  BY <1>1, <1>2, <1>3

(* claim_execution that finds the remediation blocked. *)
LEMMA Blocked ==
    ASSUME TypeInv, NEW k \in Keys, NEW drift, claim_blocked(k, drift)
    PROVE  /\ latest_execution(k) # "RUNNING"
           /\ status'[k] \in {"CANCELLED", "FAILED"}
           /\ \A j \in Keys \ {k} : status'[j] = status[j]
           /\ \A j \in Keys : lease'[j].owner \in {lease[j].owner, NoOne}
           /\ UNCHANGED <<attempts, execution, proposal, baseline>>
  BY DEF claim_blocked, finish_cancelled, finish_failed, transition, release_lease,
         Released, TypeInv, TypeOK

(* complete_execution of attempt n. *)
LEMMA Completed ==
    ASSUME TypeInv, NEW k \in Keys, NEW n \in Attempts, NEW w \in Owners,
           NEW outcome \in Outcomes, NEW retryable,
           complete_execution(k, n, w, outcome, retryable)
    PROVE  /\ status[k] = "EXECUTING"
           /\ lease[k].owner = w
           /\ execution'[k][n] \in {"SUCCEEDED", "TIMED_OUT", "FAILED"}
           /\ \/ status'[k] = "EXECUTED" /\ outcome = "succeeded"
                 /\ execution'[k][n] = "SUCCEEDED"
              \/ status'[k] \in {"EXECUTING", "FAILED"}
           /\ \A m \in Attempts \ {n} : execution'[k][m] = execution[k][m]
           /\ \A j \in Keys \ {k} :
                status'[j] = status[j] /\ execution'[j] = execution[j]
           /\ \A j \in Keys : lease'[j].owner \in {lease[j].owner, NoOne}
           /\ UNCHANGED <<attempts, proposal, baseline>>
<1> DEFINE result == CASE outcome = "succeeded" -> "SUCCEEDED"
                       [] outcome = "timed_out" -> "TIMED_OUT"
                       [] OTHER -> "FAILED"
<1>1. /\ status[k] = "EXECUTING"
      /\ lease[k].owner = w
      /\ execution' = [execution EXCEPT ![k][n] = result]
      /\ UNCHANGED <<attempts, proposal, baseline>>
  BY DEF complete_execution
<1>2. result \in {"SUCCEEDED", "TIMED_OUT", "FAILED"}
      /\ (outcome = "succeeded" => result = "SUCCEEDED")
  BY DEF Outcomes
<1>3. /\ status \in [Keys -> RemediationStatus \cup {"none"}]
      /\ execution \in [Keys -> [Attempts -> ExecutionStatus \cup {"none"}]]
      /\ lease \in [Keys -> [owner : Owners \cup {NoOne}, live : BOOLEAN]]
  BY DEF TypeInv, TypeOK
<1>4. /\ \/ status' = [status EXCEPT ![k] = "EXECUTED"] /\ outcome = "succeeded"
         \/ status' = [status EXCEPT ![k] = "FAILED"]
         \/ status' = status
      /\ lease' = [lease EXCEPT ![k] = Released]
  BY DEF complete_execution, finish_failed, transition, release_lease
<1> HIDE DEF result
<1>5. QED
  BY <1>1, <1>2, <1>3, <1>4 DEF Released

-----------------------------------------------------------------------------
(* What the workers do *)

(* Outside claims a worker only goes on with the ticket it has, or drops it. *)
Advance ==
    \A w \in Owners :
        \/ runner'[w] = runner[w]
        \/ runner'[w].pc = "idle"
        \/ /\ runner[w].pc # "idle"
           /\ runner'[w].pc \in {"running", "report"}
           /\ runner'[w].ticket = runner[w].ticket

Owned ==
    /\ UNCHANGED attempts
    /\ \A k \in Keys : lease'[k].owner \in {lease[k].owner, NoOne}

LEMMA Deciding ==
    ASSUME RunnerInv, NEW w \in Owners, NEW outcome, NEW retryable,
           Decide(w, outcome, retryable)
    PROVE  /\ runner'[w].pc = "report"
           /\ runner'[w].ticket = runner[w].ticket
           /\ runner'[w].outcome = outcome
           /\ runner'[w].retryable = retryable
           /\ \A v \in Owners \ {w} : runner'[v] = runner[v]
  BY DEF Decide, RunnerInv, RunnerTypeOK

LEMMA Stopping ==
    ASSUME RunnerInv, NEW w \in Owners, Stop(w)
    PROVE  /\ runner'[w] = Idle
           /\ \A v \in Owners \ {w} : runner'[v] = runner[v]
  BY DEF Stop, RunnerInv, RunnerTypeOK

LEMMA NotClaiming ==
    ASSUME RunnerInv, [RunnerNext]_allVars
    PROVE  \/ \E w \in Owners, k \in Keys : Claim(w, k)
           \/ Advance /\ Owned
<1> DEFINE Goal == Advance /\ Owned
<1>0. TypeInv
  BY DEF RunnerInv
<1>1. ASSUME Calm PROVE Owned
  BY <1>1 DEF Calm, Owned
<1>2. ASSUME UNCHANGED vars PROVE Owned
  BY <1>0, <1>1, <1>2, CalmSteps
<1>3. ASSUME UNCHANGED runner PROVE Advance
  BY <1>3 DEF Advance
<1>4. ASSUME NEW w \in Owners, Stop(w) PROVE Advance
  BY <1>4, Stopping DEF Advance, Idle
<1>5. ASSUME NEW w \in Owners, runner[w].pc # "idle", NEW outcome, NEW retryable,
             Decide(w, outcome, retryable)
      PROVE  Advance
  BY <1>5, Deciding DEF Advance
<1>6. CASE Command
  BY <1>0, <1>1, <1>3, <1>6, CalmSteps DEF Command, workerVars
<1>7. ASSUME NEW w \in Owners, CaptureBaseline(w) PROVE Goal
  <2>1. Ticket(w) \in AttemptIds
    BY <1>7 DEF RunnerInv, TicketsValid, CaptureBaseline, At
  <2>2. Ticket(w)[1] \in Keys
    BY <2>1 DEF AttemptIds
  <2>3. runner[w].pc # "idle"
    BY <1>7 DEF CaptureBaseline, At
  <2>4. CASE record_baseline(Ticket(w)[1], w) /\ UNCHANGED runner
    BY <1>0, <1>1, <1>3, <2>2, <2>4, CalmSteps
  <2>5. CASE Decide(w, "failed", TRUE) /\ UNCHANGED vars
    BY <1>2, <1>5, <2>3, <2>5
  <2>6. QED
    BY <1>7, <2>4, <2>5 DEF CaptureBaseline
<1>8. ASSUME NEW w \in Owners, Report(w) PROVE Goal
  <2> DEFINE k == Ticket(w)[1]
             n == Ticket(w)[2]
  <2>1. Ticket(w) \in AttemptIds
    BY <1>8 DEF RunnerInv, TicketsValid, Report, At
  <2>2. k \in Keys /\ n \in Attempts
    BY <2>1 DEF AttemptIds
  <2>3. runner[w].outcome \in {"not_applied"} \cup Outcomes
    BY <1>8 DEF RunnerInv, RunnerTypeOK, ReportsTrue, Report, At
  <2> HIDE DEF k, n
  <2>4. Stop(w) /\ (UNCHANGED vars \/ \E outcome \in Outcomes :
            complete_execution(k, n, w, outcome, runner[w].retryable))
    BY <1>8, <2>3 DEF Report, Outcomes, k, n
  <2>5. Owned
    BY <1>0, <1>2, <2>2, <2>4, Completed DEF Owned
  <2>6. QED
    BY <1>4, <2>4, <2>5
<1>9. ASSUME NEW w \in Owners, Submit(w) PROVE Goal
  <2>1. Advance
    BY <1>9 DEF Submit, Goto, At, Advance, RunnerInv, RunnerTypeOK
  <2>2. QED
    BY <1>2, <1>9, <2>1 DEF Submit
<1>10. ASSUME NEW w \in Owners, Reconcile(w) \/ Await(w) PROVE Goal
  <2>1. runner[w].pc # "idle" /\ UNCHANGED vars
    BY <1>10 DEF Reconcile, Await, At
  <2>2. \E outcome, retryable : Decide(w, outcome, retryable)
    <3>1. CASE Await(w)
      BY <3>1 DEF Await
    <3>2. CASE Reconcile(w)
      <4>1. Ticket(w) \in AttemptIds
        BY <3>2 DEF RunnerInv, TicketsValid, Reconcile, At
      <4>2. stored[Ticket(w)] \in {"none", "succeeded", "failed"}
        BY <4>1 DEF RunnerInv, RunnerTypeOK
      <4>3. QED
        BY <3>2, <4>2 DEF Reconcile
    <3>3. QED
      BY <1>10, <3>1, <3>2
  <2>3. QED
    BY <1>2, <1>5, <2>1, <2>2
<1>11. ASSUME NEW w \in Owners, BaselineLeaseLost(w) \/ Crash(w) \/ Abandon(w)
       PROVE  Goal
  BY <1>2, <1>4, <1>11 DEF BaselineLeaseLost, Crash, Abandon
<1>12. ASSUME NEW a \in AttemptIds,
              CheckDeadline(a) \/ Act(a) \/ StoreResult(a) \/ DeadlinePasses(a)
       PROVE  Goal
  BY <1>2, <1>3, <1>12 DEF CheckDeadline, Act, StoreResult, DeadlinePasses
<1>13. ASSUME NEW k \in Keys, LeaseExpires(k) PROVE Goal
  BY <1>0, <1>1, <1>3, <1>13, CalmSteps DEF LeaseExpires, workerVars
<1>14. CASE UNCHANGED allVars
  BY <1>2, <1>3, <1>14 DEF allVars, workerVars
<1>15. QED
  BY <1>6, <1>7, <1>8, <1>9, <1>10, <1>11, <1>12, <1>13, <1>14
     DEF RunnerNext, WorkerStep

(* A claim hands out the ticket of the attempt it starts or interrupts, or *)
(* none.                                                                   *)
LEMMA Claiming ==
    ASSUME RunnerInv, NEW w \in Owners, NEW k \in Keys, Claim(w, k)
    PROVE  /\ UNCHANGED <<call, applied, stored, overdue, crashes>>
           /\ \A v \in Owners \ {w} : runner'[v] = runner[v]
           /\ \/ /\ claim_started(k, w)
                 /\ runner'[w].pc = "claimed"
                 /\ runner'[w].ticket = <<k, attempts[k] + 1>>
              \/ /\ claim_interrupted(k, w)
                 /\ runner'[w].pc = "reconcile"
                 /\ runner'[w].ticket = <<k, attempts[k]>>
              \/ (\E drift \in BOOLEAN : claim_blocked(k, drift)) /\ UNCHANGED runner
<1>1. CASE claim_started(k, w) /\ runner' = [runner EXCEPT ![w].pc = "claimed",
                                            ![w].ticket = <<k, attempts'[k]>>]
  <2>1. attempts'[k] = attempts[k] + 1
    BY <1>1, Started DEF RunnerInv
  <2>2. QED
    BY <1>1, <2>1 DEF Claim, RunnerInv, RunnerTypeOK
<1>2. CASE claim_interrupted(k, w) /\ runner' = [runner EXCEPT ![w].pc = "reconcile",
                                                ![w].ticket = <<k, attempts[k]>>]
  BY <1>2 DEF Claim, RunnerInv, RunnerTypeOK
<1>3. CASE (\E drift \in BOOLEAN : claim_blocked(k, drift)) /\ UNCHANGED runner
  BY <1>3 DEF Claim
<1>4. QED
  BY <1>1, <1>2, <1>3 DEF Claim

-----------------------------------------------------------------------------
(* Each part of the invariant is kept *)

LEMMA TicketsStep ==
    RunnerInv /\ [RunnerNext]_allVars => TicketsValid'
<1> SUFFICES ASSUME RunnerInv, [RunnerNext]_allVars, NEW v \in Owners,
                    runner'[v].pc # "idle"
             PROVE  /\ runner'[v].ticket \in AttemptIds
                    /\ runner'[v].ticket[2] <= attempts'[runner'[v].ticket[1]]
                    /\ lease'[runner'[v].ticket[1]].owner = v
                         => runner'[v].ticket[2] = attempts'[runner'[v].ticket[1]]
  BY DEF TicketsValid, Ticket
<1>0. /\ attempts \in [Keys -> 0..2]
      /\ TypeInv
      /\ NoOne \notin Owners
  BY RemediationAssumption DEF RunnerInv, RunnerTypeOK, TypeOK, MaxAttempts
<1>1. runner[v].pc # "idle" =>
        /\ runner[v].ticket \in AttemptIds
        /\ runner[v].ticket[1] \in Keys
        /\ runner[v].ticket[2] \in Nat
        /\ runner[v].ticket[2] <= attempts[runner[v].ticket[1]]
        /\ lease[runner[v].ticket[1]].owner = v
             => runner[v].ticket[2] = attempts[runner[v].ticket[1]]
  BY DEF RunnerInv, TicketsValid, Ticket, AttemptIds, Attempts, MaxAttempts
<1>2. CASE Advance /\ Owned
  <2>1. runner[v].pc # "idle" /\ runner'[v].ticket = runner[v].ticket
    BY <1>2 DEF Advance
  <2>2. QED
    BY <1>0, <1>1, <1>2, <2>1 DEF Owned
<1>3. ASSUME NEW w \in Owners, NEW k \in Keys, Claim(w, k),
             claim_started(k, w),
             runner'[w].ticket = <<k, attempts[k] + 1>>
      PROVE  /\ runner'[v].ticket \in AttemptIds
             /\ runner'[v].ticket[2] <= attempts'[runner'[v].ticket[1]]
             /\ lease'[runner'[v].ticket[1]].owner = v
                  => runner'[v].ticket[2] = attempts'[runner'[v].ticket[1]]
  <2>1. /\ attempts[k] + 1 \in Attempts
        /\ attempts'[k] = attempts[k] + 1
        /\ lease'[k].owner = w
        /\ \A j \in Keys \ {k} : attempts'[j] = attempts[j] /\ lease'[j] = lease[j]
    BY <1>0, <1>3, Started
  <2>2. CASE v = w
    <3>1. runner'[v].ticket[1] = k /\ runner'[v].ticket[2] = attempts'[k]
      BY <1>3, <2>1, <2>2
    <3>2. <<k, attempts[k] + 1>> \in AttemptIds
      BY <2>1 DEF AttemptIds
    <3>3. attempts'[k] <= attempts'[k]
      BY <2>1 DEF Attempts, MaxAttempts
    <3>4. QED
      BY <1>3, <2>2, <3>1, <3>2, <3>3
  <2>3. CASE v # w
    <3>1. runner'[v] = runner[v]
      BY <1>3, <2>3, Claiming
    <3>2. CASE runner[v].ticket[1] = k
      BY <1>0, <1>1, <2>1, <2>3, <3>1, <3>2
    <3>3. CASE runner[v].ticket[1] # k
      BY <1>0, <1>1, <2>1, <3>1, <3>3
    <3>4. QED
      BY <3>2, <3>3
  <2>4. QED
    BY <2>2, <2>3
<1>4. ASSUME NEW w \in Owners, NEW k \in Keys, Claim(w, k),
             claim_interrupted(k, w),
             runner'[w].ticket = <<k, attempts[k]>>
      PROVE  /\ runner'[v].ticket \in AttemptIds
             /\ runner'[v].ticket[2] <= attempts'[runner'[v].ticket[1]]
             /\ lease'[runner'[v].ticket[1]].owner = v
                  => runner'[v].ticket[2] = attempts'[runner'[v].ticket[1]]
  <2>1. /\ attempts[k] \in Attempts
        /\ attempts' = attempts
        /\ lease'[k].owner = w
        /\ \A j \in Keys \ {k} : lease'[j] = lease[j]
    BY <1>0, <1>4, Interrupted
  <2>2. CASE v = w
    BY <1>0, <1>4, <2>1, <2>2 DEF AttemptIds
  <2>3. CASE v # w
    <3>1. runner'[v] = runner[v]
      BY <1>4, <2>3, Claiming
    <3>2. QED
      BY <1>1, <2>1, <2>3, <3>1
  <2>4. QED
    BY <2>2, <2>3
<1>5. ASSUME NEW k \in Keys, NEW drift, claim_blocked(k, drift), UNCHANGED runner
      PROVE  Advance /\ Owned
  BY <1>0, <1>5, Blocked DEF Advance, Owned
<1>6. QED
  BY <1>2, <1>3, <1>4, <1>5, Claiming, NotClaiming

(* Only Submit makes a thread. *)
LEMMA ThreadsKept ==
    ASSUME RunnerInv, [RunnerNext]_allVars
    PROVE  \/ \E w \in Owners : Submit(w)
           \/ \A a \in AttemptIds : call[a].step = "none" => call'[a].step = "none"
<1> USE DEF RunnerInv, RunnerTypeOK
<1>1. CASE Command
  BY <1>1 DEF Command, workerVars
<1>2. ASSUME NEW w \in Owners, NEW k \in Keys, Claim(w, k) PROVE UNCHANGED call
  BY <1>2 DEF Claim
<1>3. ASSUME NEW w \in Owners,
             \/ Reconcile(w) \/ CaptureBaseline(w) \/ BaselineLeaseLost(w)
             \/ Await(w) \/ Report(w) \/ Abandon(w)
      PROVE  UNCHANGED call
  BY <1>3 DEF Reconcile, CaptureBaseline, BaselineLeaseLost, Await, Report, Abandon
<1>4. ASSUME NEW a \in AttemptIds,
             CheckDeadline(a) \/ Act(a) \/ StoreResult(a) \/ DeadlinePasses(a),
             NEW b \in AttemptIds, call[b].step = "none"
      PROVE  call'[b].step = "none"
  <2>1. CASE DeadlinePasses(a)
    BY <1>4, <2>1 DEF DeadlinePasses
  <2>2. CASE CheckDeadline(a)
    BY <1>4, <2>2 DEF CheckDeadline
  <2>3. CASE Act(a)
    BY <1>4, <2>3 DEF Act
  <2>4. CASE StoreResult(a)
    BY <1>4, <2>4 DEF StoreResult
  <2>5. QED
    BY <1>4, <2>1, <2>2, <2>3, <2>4
<1>5. ASSUME NEW k \in Keys, LeaseExpires(k) PROVE UNCHANGED call
  BY <1>5 DEF LeaseExpires, workerVars
<1>6. ASSUME NEW w \in Owners, Crash(w), NEW b \in AttemptIds, call[b].step = "none"
      PROVE  call'[b].step = "none"
  BY <1>6 DEF Crash, InFlight
<1>7. CASE UNCHANGED allVars
  BY <1>7 DEF allVars, workerVars
<1>8. QED
  BY <1>1, <1>2, <1>3, <1>4, <1>5, <1>6, <1>7 DEF RunnerNext, WorkerStep

LEMMA FreshStep == RunnerInv /\ [RunnerNext]_allVars => TicketsFresh'
<1> SUFFICES ASSUME RunnerInv, [RunnerNext]_allVars PROVE TicketsFresh'
  OBVIOUS
<1> USE DEF TicketsFresh, At, Ticket
<1>0. TicketsFresh /\ TypeInv
  BY DEF RunnerInv
<1>1. ASSUME NEW w \in Owners, Submit(w) PROVE TicketsFresh'
  <2>1. /\ runner'[w].pc = "running"
        /\ \A v \in Owners \ {w} : runner'[v] = runner[v]
        /\ runner[w].pc = "claimed"
    BY <1>1 DEF Submit, Goto, RunnerInv, RunnerTypeOK
  <2>2. \A a \in AttemptIds \ {runner[w].ticket} : call'[a] = call[a]
    BY <1>1 DEF Submit, RunnerInv, RunnerTypeOK
  <2>3. \A v \in Owners : runner[v].pc = "claimed" => runner[v].ticket \in AttemptIds
    BY DEF RunnerInv, TicketsValid
  <2>4. QED
    BY <1>0, <2>1, <2>2, <2>3
<1>2. CASE /\ Advance
           /\ \A a \in AttemptIds : call[a].step = "none" => call'[a].step = "none"
  <2>1. \A v \in Owners : runner'[v].pc = "claimed" =>
            runner[v].pc = "claimed" /\ runner'[v].ticket = runner[v].ticket
    BY <1>2 DEF Advance
  <2>2. \A v \in Owners : runner[v].pc = "claimed" => runner[v].ticket \in AttemptIds
    BY DEF RunnerInv, TicketsValid
  <2>3. QED
    BY <1>0, <1>2, <2>1, <2>2
<1>3. ASSUME NEW w \in Owners, NEW k \in Keys, Claim(w, k) PROVE TicketsFresh'
  <2>1. UNCHANGED call /\ \A v \in Owners \ {w} : runner'[v] = runner[v]
    BY <1>3, Claiming
  <2>2. CASE runner'[w].pc # "claimed" \/ UNCHANGED runner
    BY <1>0, <2>1, <2>2
  <2>3. CASE claim_started(k, w) /\ runner'[w].ticket = <<k, attempts[k] + 1>>
    <3>1. attempts[k] + 1 \in Attempts /\ attempts[k] \in Nat
      BY <1>0, <2>3, Started DEF TypeInv, TypeOK
    <3>2. <<k, attempts[k] + 1>> \in AttemptIds
      BY <3>1 DEF AttemptIds
    <3>3. call[<<k, attempts[k] + 1>>].step = "none"
      BY <3>1, <3>2 DEF RunnerInv, CallsTrack, Tracked
    <3>4. \A v \in Owners : runner[v].pc = "claimed" =>
                runner[v].ticket # <<k, attempts[k] + 1>>
      BY <3>1 DEF RunnerInv, TicketsValid
    <3>5. QED
      BY <1>0, <2>1, <2>3, <3>3, <3>4
  <2>4. QED
    BY <1>3, <2>2, <2>3, Claiming
<1>4. QED
  BY <1>1, <1>2, <1>3, NotClaiming, ThreadsKept

LEMMA CallsStep == RunnerInv /\ [RunnerNext]_allVars => CallsTrack'
<1> SUFFICES ASSUME RunnerInv, [RunnerNext]_allVars, NEW a \in AttemptIds
             PROVE  Tracked(a)'
  BY DEF CallsTrack
<1>0. /\ Tracked(a)
      /\ a[1] \in Keys /\ a[2] \in 1..2
      /\ attempts \in [Keys -> 0..2]
      /\ call \in [AttemptIds -> [step : CallSteps, owner : Owners \cup {NoOne},
                                  succeeded : BOOLEAN]]
      /\ applied \in [AttemptIds -> Nat]
      /\ stored \in [AttemptIds -> {"none", "succeeded", "failed"}]
  BY DEF RunnerInv, CallsTrack, RunnerTypeOK, TypeOK, AttemptIds, Attempts, MaxAttempts
<1>1. Grows
  BY CoreStep, CoreGrows DEF RunnerInv
<1>2. /\ a[2] <= attempts[a[1]] =>
            a[2] <= attempts'[a[1]] /\ proposal'[a[1]] = proposal[a[1]]
      /\ a[1] \in baseline => a[1] \in baseline'
  <2>1. attempts[a[1]] <= attempts'[a[1]] /\ attempts'[a[1]] \in 0..2
    BY <1>0, <1>1, CoreStep, TypeStep
       DEF Grows, RunnerInv, TypeInv, TypeOK, MaxAttempts
  <2>2. QED
    BY <1>0, <1>1, <2>1 DEF Grows
<1>3. ASSUME call'[a] = call[a], applied'[a] = applied[a], stored'[a] = stored[a]
      PROVE  Tracked(a)'
  BY <1>0, <1>2, <1>3 DEF Tracked, entry
<1>4. ASSUME NEW w \in Owners, Submit(w) PROVE Tracked(a)'
  <2>1. CASE a = Ticket(w)
    <3>1. /\ call'[a].step = "submitted"
          /\ UNCHANGED <<applied, stored, attempts, baseline, proposal>>
          /\ runner[w].pc = "claimed"
          /\ ~NeedsBaseline(a[1])
      BY <1>0, <1>4, <2>1 DEF Submit, At, vars, rows
    <3>2. call[a].step = "none" /\ a[2] <= attempts[a[1]]
      BY <2>1, <3>1 DEF RunnerInv, TicketsFresh, TicketsValid, At
    <3>3. QED
      BY <1>0, <3>1, <3>2 DEF Tracked, NeedsBaseline, entry
  <2>2. CASE a # Ticket(w)
    BY <1>0, <1>3, <1>4, <2>2 DEF Submit
  <2>3. QED
    BY <2>1, <2>2
<1>5. ASSUME NEW b \in AttemptIds, CheckDeadline(b) PROVE Tracked(a)'
  <2>1. CASE a # b
    BY <1>0, <1>3, <1>5, <2>1 DEF CheckDeadline
  <2>2. CASE a = b
    <3>1. /\ call[a].step = "submitted"
          /\ UNCHANGED <<applied, stored>>
          /\ \/ call'[a].step = "returned" /\ call'[a].succeeded = (stored[a] = "succeeded")
             \/ call'[a].step \in {"late", "checked", "raised"}
      BY <1>0, <1>5, <2>2 DEF CheckDeadline
    <3>2. QED
      BY <1>0, <1>2, <3>1 DEF Tracked, entry
  <2>3. QED
    BY <2>1, <2>2
<1>6. ASSUME NEW b \in AttemptIds, Act(b) PROVE Tracked(a)'
  <2>1. CASE a # b
    BY <1>0, <1>3, <1>6, <2>1 DEF Act
  <2>2. CASE a = b
    <3>1. /\ call[a].step = "checked"
          /\ UNCHANGED stored
          /\ call'[a].step \in {"raised", "acted"}
          /\ \/ applied'[a] = applied[a] /\ ~call'[a].succeeded
             \/ applied'[a] = applied[a] + 1
      BY <1>0, <1>6, <2>2 DEF Act
    <3>2. applied[a] = 0 /\ stored[a] # "succeeded"
      BY <1>0, <3>1 DEF Tracked
    <3>3. QED
      BY <1>0, <1>2, <3>1, <3>2 DEF Tracked, entry
  <2>3. QED
    BY <2>1, <2>2
<1>7. ASSUME NEW b \in AttemptIds, StoreResult(b) PROVE Tracked(a)'
  <2>1. CASE a # b
    BY <1>0, <1>3, <1>7, <2>1 DEF StoreResult
  <2>2. CASE a = b
    <3>1. /\ call[a].step = "acted"
          /\ UNCHANGED applied
          /\ call'[a].step \in {"raised", "returned"}
          /\ call'[a].succeeded = call[a].succeeded
          /\ stored'[a] = "succeeded" => stored[a] = "succeeded" \/ call[a].succeeded
      BY <1>0, <1>7, <2>2 DEF StoreResult
    <3>2. QED
      BY <1>0, <1>2, <3>1 DEF Tracked, entry
  <2>3. QED
    BY <2>1, <2>2
<1>8. ASSUME NEW w \in Owners, Crash(w) PROVE Tracked(a)'
  <2>1. /\ call'[a] = IF call[a].owner = w /\ call[a].step \in InFlight
                        THEN [call[a] EXCEPT !.step = "lost"] ELSE call[a]
        /\ UNCHANGED <<applied, stored>>
    BY <1>8 DEF Crash
  <2>2. CASE call[a].owner = w /\ call[a].step \in InFlight
    <3>1. call'[a].step = "lost" /\ call[a].step # "none"
      BY <1>0, <2>1, <2>2 DEF InFlight
    <3>2. QED
      BY <1>0, <1>2, <2>1, <3>1 DEF Tracked, entry
  <2>3. QED
    BY <1>3, <2>1, <2>2
<1>9. ASSUME UNCHANGED <<call, applied, stored>> PROVE Tracked(a)'
  BY <1>3, <1>9
<1>10. CASE Command
  BY <1>9, <1>10 DEF Command, workerVars
<1>11. ASSUME NEW w \in Owners, NEW k \in Keys, Claim(w, k) PROVE Tracked(a)'
  BY <1>9, <1>11 DEF Claim
<1>12. ASSUME NEW w \in Owners,
              \/ Reconcile(w) \/ CaptureBaseline(w) \/ BaselineLeaseLost(w)
              \/ Await(w) \/ Report(w) \/ Abandon(w)
       PROVE  Tracked(a)'
  BY <1>9, <1>12
     DEF Reconcile, CaptureBaseline, BaselineLeaseLost, Await, Report, Abandon
<1>13. ASSUME NEW b \in AttemptIds, DeadlinePasses(b) PROVE Tracked(a)'
  BY <1>9, <1>13 DEF DeadlinePasses
<1>14. ASSUME NEW k \in Keys, LeaseExpires(k) PROVE Tracked(a)'
  BY <1>9, <1>14 DEF LeaseExpires, workerVars
<1>15. CASE UNCHANGED allVars
  BY <1>9, <1>15 DEF allVars, workerVars
<1>16. QED
  BY <1>4, <1>5, <1>6, <1>7, <1>8, <1>10, <1>11, <1>12, <1>13, <1>14, <1>15
     DEF RunnerNext, WorkerStep

(* What was done to the environment stays done, once. *)
LEMMA AppliedStays ==
    ASSUME RunnerInv, [RunnerNext]_allVars, NEW a \in AttemptIds, applied[a] = 1
    PROVE  applied'[a] = 1
<1>0. Tracked(a) /\ applied \in [AttemptIds -> Nat]
  BY DEF RunnerInv, CallsTrack, RunnerTypeOK
<1>1. ASSUME NEW b \in AttemptIds, Act(b) PROVE applied'[a] = 1
  <2>1. a # b
    BY <1>0, <1>1 DEF Act, Tracked
  <2>2. QED
    BY <1>0, <1>1, <2>1 DEF Act
<1>2. ASSUME NEW b \in AttemptIds,
             CheckDeadline(b) \/ StoreResult(b) \/ DeadlinePasses(b)
      PROVE  UNCHANGED applied
  BY <1>2 DEF CheckDeadline, StoreResult, DeadlinePasses
<1>3. ASSUME NEW w \in Owners, WorkerStep(w) \/ Crash(w) \/ Abandon(w)
      PROVE  UNCHANGED applied
  BY <1>3 DEF WorkerStep, Reconcile, CaptureBaseline, BaselineLeaseLost, Submit, Await,
              Report, Crash, Abandon
<1>4. ASSUME NEW w \in Owners, NEW k \in Keys, Claim(w, k) PROVE UNCHANGED applied
  BY <1>4 DEF Claim
<1>5. ASSUME NEW k \in Keys, LeaseExpires(k) PROVE UNCHANGED applied
  BY <1>5 DEF LeaseExpires, workerVars
<1>6. CASE Command \/ UNCHANGED allVars
  BY <1>6 DEF Command, allVars, workerVars
<1>7. QED
  BY <1>1, <1>2, <1>3, <1>4, <1>5, <1>6 DEF RunnerNext

LEMMA ReportsStep == RunnerInv /\ [RunnerNext]_allVars => ReportsTrue'
<1> DEFINE Goal(v) == /\ runner'[v].outcome # "none"
                      /\ runner'[v].outcome = "succeeded"
                            => applied'[runner'[v].ticket] = 1
<1> SUFFICES ASSUME RunnerInv, [RunnerNext]_allVars, NEW v \in Owners,
                    runner'[v].pc = "report"
             PROVE  Goal(v)
  BY DEF ReportsTrue, At, Ticket
<1>0. runner[v].pc # "idle" =>
        runner[v].ticket \in AttemptIds /\ Tracked(runner[v].ticket)
  BY DEF RunnerInv, TicketsValid, CallsTrack, Ticket
<1>1. ASSUME runner'[v] = runner[v] PROVE Goal(v)
  <2>1. /\ runner[v].ticket \in AttemptIds
        /\ runner[v].outcome # "none"
        /\ runner[v].outcome = "succeeded" => applied[runner[v].ticket] = 1
    BY <1>0, <1>1 DEF RunnerInv, ReportsTrue, At, Ticket
  <2>2. QED
    BY <1>1, <2>1, AppliedStays
<1>2. ASSUME NEW w \in Owners, Stop(w) PROVE Goal(v)
  BY <1>1, <1>2, Stopping DEF Idle
<1>3. ASSUME UNCHANGED runner PROVE Goal(v)
  BY <1>1, <1>3
<1>4. ASSUME NEW w \in Owners, runner[w].pc # "idle", NEW outcome, NEW retryable,
             Decide(w, outcome, retryable), outcome # "none",
             outcome = "succeeded" => applied[runner[w].ticket] = 1
      PROVE  Goal(v)
  <2>1. CASE v = w
    <3>1. runner'[v].outcome = outcome /\ runner'[v].ticket = runner[v].ticket
      BY <1>4, <2>1, Deciding
    <3>2. outcome = "succeeded" => applied'[runner[v].ticket] = 1
      BY <1>0, <1>4, <2>1, AppliedStays
    <3>3. QED
      BY <1>4, <3>1, <3>2
  <2>2. CASE v # w
    BY <1>1, <1>4, <2>2, Deciding
  <2>3. QED
    BY <2>1, <2>2
<1>5. ASSUME NEW w \in Owners, Reconcile(w) PROVE Goal(v)
  <2>1. runner[w].pc # "idle" /\ Ticket(w) \in AttemptIds /\ Tracked(Ticket(w))
    BY <1>5 DEF Reconcile, At, RunnerInv, TicketsValid, CallsTrack
  <2>2. stored[Ticket(w)] \in {"none", "succeeded", "failed"}
    BY <2>1 DEF RunnerInv, RunnerTypeOK
  <2>3. \/ Decide(w, "not_applied", TRUE)
        \/ Decide(w, "succeeded", FALSE) /\ stored[Ticket(w)] = "succeeded"
        \/ Decide(w, "failed", FALSE)
    BY <1>5, <2>2 DEF Reconcile
  <2>4. stored[Ticket(w)] = "succeeded" => applied[runner[w].ticket] = 1
    BY <2>1 DEF Tracked, Ticket
  <2>5. CASE Decide(w, "not_applied", TRUE) \/ Decide(w, "failed", FALSE)
    BY <1>4, <2>1, <2>5
  <2>6. CASE Decide(w, "succeeded", FALSE) /\ stored[Ticket(w)] = "succeeded"
    BY <1>4, <2>1, <2>4, <2>6
  <2>7. QED
    BY <2>3, <2>5, <2>6
<1>6. ASSUME NEW w \in Owners, Await(w) PROVE Goal(v)
  <2>1. runner[w].pc # "idle" /\ Tracked(Ticket(w))
    BY <1>6 DEF Await, At, RunnerInv, TicketsValid, CallsTrack
  <2>2. \/ /\ Decide(w, "succeeded", FALSE)
           /\ call[Ticket(w)].step = "returned" /\ call[Ticket(w)].succeeded
        \/ Decide(w, "failed", FALSE)
        \/ Decide(w, "timed_out", TRUE)
        \/ Decide(w, "failed", TRUE)
    BY <1>6 DEF Await
  <2>3. CASE /\ Decide(w, "succeeded", FALSE)
             /\ call[Ticket(w)].step = "returned" /\ call[Ticket(w)].succeeded
    <3>1. applied[runner[w].ticket] = 1
      BY <2>1, <2>3 DEF Tracked, Ticket
    <3>2. QED
      BY <1>4, <2>1, <2>3, <3>1
  <2>4. CASE \/ Decide(w, "failed", FALSE) \/ Decide(w, "timed_out", TRUE)
             \/ Decide(w, "failed", TRUE)
    BY <1>4, <2>1, <2>4
  <2>5. QED
    BY <2>2, <2>3, <2>4
<1>7. ASSUME NEW w \in Owners, CaptureBaseline(w) PROVE Goal(v)
  <2>1. runner[w].pc # "idle" /\ (UNCHANGED runner \/ Decide(w, "failed", TRUE))
    BY <1>7 DEF CaptureBaseline, At
  <2>2. QED
    BY <1>3, <1>4, <2>1
<1>8. ASSUME NEW w \in Owners, Submit(w) PROVE Goal(v)
  <2>1. v # w /\ runner'[v] = runner[v]
    BY <1>8 DEF Submit, Goto, RunnerInv, RunnerTypeOK
  <2>2. QED
    BY <1>1, <2>1
<1>9. ASSUME NEW w \in Owners,
             BaselineLeaseLost(w) \/ Report(w) \/ Crash(w) \/ Abandon(w)
      PROVE  Goal(v)
  <2>1. Stop(w)
    BY <1>9 DEF BaselineLeaseLost, Report, Crash, Abandon
  <2>2. QED
    BY <1>2, <2>1
<1>10. ASSUME NEW w \in Owners, NEW k \in Keys, Claim(w, k) PROVE Goal(v)
  <2>1. runner'[v] = runner[v]
    BY <1>10, Claiming
  <2>2. QED
    BY <1>1, <2>1
<1>11. ASSUME NEW a \in AttemptIds,
              CheckDeadline(a) \/ Act(a) \/ StoreResult(a) \/ DeadlinePasses(a)
       PROVE  Goal(v)
  BY <1>3, <1>11 DEF CheckDeadline, Act, StoreResult, DeadlinePasses
<1>12. ASSUME NEW k \in Keys, LeaseExpires(k) PROVE Goal(v)
  BY <1>3, <1>12 DEF LeaseExpires, workerVars
<1>13. CASE Command \/ UNCHANGED allVars
  BY <1>3, <1>13 DEF Command, allVars, workerVars
<1>14. QED
  BY <1>5, <1>6, <1>7, <1>8, <1>9, <1>10, <1>11, <1>12, <1>13
     DEF RunnerNext, WorkerStep

(* A worker that settles an attempt settles the latest one, as it found it. *)
Settles(w, k, n, outcome) ==
    /\ At(w, "report")
    /\ Ticket(w) = <<k, n>>
    /\ runner[w].outcome = "succeeded" <=> outcome = "succeeded"
    /\ complete_execution(k, n, w, outcome, runner[w].retryable)

LEMMA Kinds ==
    ASSUME RunnerInv, [RunnerNext]_allVars
    PROVE  \/ Calm
           \/ \E w \in Owners, k \in Keys : Claim(w, k)
           \/ \E w \in Owners, k \in Keys, n \in Attempts, outcome \in Outcomes :
                Settles(w, k, n, outcome)
<1>0. TypeInv
  BY DEF RunnerInv
<1>1. ASSUME UNCHANGED vars PROVE Calm
  BY <1>0, <1>1, CalmSteps
<1>2. CASE Command \/ UNCHANGED allVars
  BY <1>0, <1>2, CalmSteps DEF allVars
<1>3. ASSUME NEW w \in Owners, CaptureBaseline(w) PROVE Calm
  <2>1. Ticket(w) \in AttemptIds
    BY <1>3 DEF RunnerInv, TicketsValid, CaptureBaseline, At
  <2>2. Ticket(w)[1] \in Keys
    BY <2>1 DEF AttemptIds
  <2>3. record_baseline(Ticket(w)[1], w) \/ UNCHANGED vars
    BY <1>3 DEF CaptureBaseline
  <2>4. QED
    BY <1>0, <2>2, <2>3, CalmSteps
<1>4. ASSUME NEW w \in Owners, Report(w)
      PROVE  \/ Calm
             \/ \E k \in Keys, n \in Attempts, outcome \in Outcomes :
                    Settles(w, k, n, outcome)
  <2> DEFINE k == Ticket(w)[1]
             n == Ticket(w)[2]
             o == IF runner[w].outcome = "not_applied" THEN "failed"
                                                       ELSE runner[w].outcome
  <2>1. At(w, "report") /\ Ticket(w) \in AttemptIds
    BY <1>4 DEF RunnerInv, TicketsValid, Report, At
  <2>2. k \in Keys /\ n \in Attempts /\ Ticket(w) = <<k, n>>
    BY <2>1 DEF AttemptIds
  <2>3. runner[w].outcome \in {"not_applied"} \cup Outcomes
    BY <2>1 DEF RunnerInv, RunnerTypeOK, ReportsTrue, At
  <2>4. o \in Outcomes /\ (runner[w].outcome = "succeeded" <=> o = "succeeded")
    BY <2>3 DEF Outcomes
  <2>5. complete_execution(k, n, w, o, runner[w].retryable) \/ UNCHANGED vars
    BY <1>4 DEF Report
  <2> HIDE DEF k, n, o
  <2>6. QED
    BY <1>1, <2>1, <2>2, <2>4, <2>5 DEF Settles
<1>5. ASSUME NEW w \in Owners,
             \/ Reconcile(w) \/ BaselineLeaseLost(w) \/ Submit(w) \/ Await(w)
             \/ Crash(w) \/ Abandon(w)
      PROVE  UNCHANGED vars
  BY <1>5 DEF Reconcile, BaselineLeaseLost, Submit, Await, Crash, Abandon
<1>6. ASSUME NEW a \in AttemptIds,
             CheckDeadline(a) \/ Act(a) \/ StoreResult(a) \/ DeadlinePasses(a)
      PROVE  UNCHANGED vars
  BY <1>6 DEF CheckDeadline, Act, StoreResult, DeadlinePasses
<1>7. ASSUME NEW k \in Keys, LeaseExpires(k) PROVE Calm
  BY <1>0, <1>7, CalmSteps DEF LeaseExpires
<1>8. QED
  BY <1>1, <1>2, <1>3, <1>4, <1>5, <1>6, <1>7 DEF RunnerNext, WorkerStep

LEMMA LatestStep == RunnerInv /\ [RunnerNext]_allVars => OnlyLatestRuns'
<1> SUFFICES ASSUME RunnerInv, [RunnerNext]_allVars, NEW j \in Keys,
                    NEW m \in Attempts, execution'[j][m] = "RUNNING"
             PROVE  m = attempts'[j] /\ status'[j] = "EXECUTING"
  BY DEF OnlyLatestRuns
<1>0. /\ TypeInv
      /\ execution[j][m] = "RUNNING" => m = attempts[j] /\ status[j] = "EXECUTING"
  BY DEF RunnerInv, OnlyLatestRuns
<1>1. execution[j][m] = "RUNNING" => latest_execution(j) = "RUNNING"
  BY <1>0 DEF latest_execution, Attempts
<1>2. CASE Calm
  BY <1>0, <1>2 DEF Calm
<1>3. ASSUME NEW w \in Owners, NEW k \in Keys, claim_started(k, w)
      PROVE  m = attempts'[j] /\ status'[j] = "EXECUTING"
  <2>1. CASE j = k
    <3>1. m = attempts[k] + 1
      BY <1>0, <1>1, <1>3, <2>1, Started
    <3>2. QED
      BY <1>0, <1>3, <2>1, <3>1, Started
  <2>2. CASE j # k
    BY <1>0, <1>3, <2>2, Started
  <2>3. QED
    BY <2>1, <2>2
<1>4. ASSUME NEW w \in Owners, NEW k \in Keys, claim_interrupted(k, w)
      PROVE  m = attempts'[j] /\ status'[j] = "EXECUTING"
  BY <1>0, <1>4, Interrupted
<1>5. ASSUME NEW k \in Keys, NEW drift, claim_blocked(k, drift)
      PROVE  m = attempts'[j] /\ status'[j] = "EXECUTING"
  <2>1. execution' = execution /\ attempts' = attempts
    BY <1>0, <1>5, Blocked
  <2>2. j # k
    BY <1>0, <1>1, <1>5, <2>1, Blocked
  <2>3. QED
    BY <1>0, <1>5, <2>1, <2>2, Blocked
<1>6. ASSUME NEW w \in Owners, NEW k \in Keys, NEW n \in Attempts,
             NEW outcome \in Outcomes, Settles(w, k, n, outcome)
      PROVE  m = attempts'[j] /\ status'[j] = "EXECUTING"
  <2>1. complete_execution(k, n, w, outcome, runner[w].retryable)
    BY <1>6 DEF Settles
  <2>2. CASE j # k
    BY <1>0, <2>1, <2>2, Completed
  <2>3. CASE j = k
    <3>1. n = attempts[k]
      <4>1. lease[k].owner = w
        BY <1>0, <2>1, Completed
      <4>2. QED
        BY <1>6, <4>1 DEF Settles, At, RunnerInv, TicketsValid
    <3>2. m # n
      BY <1>0, <2>1, <2>3, Completed
    <3>3. execution[j][m] = "RUNNING"
      BY <1>0, <2>1, <2>3, <3>2, Completed
    <3>4. QED
      BY <1>0, <2>3, <3>1, <3>2, <3>3
  <2>4. QED
    BY <2>2, <2>3
<1>7. QED
  BY <1>2, <1>3, <1>4, <1>5, <1>6, Kinds, Claiming

LEMMA ExecutedStep == RunnerInv /\ [RunnerNext]_allVars => ExecutedMeansApplied'
<1> SUFFICES ASSUME RunnerInv, [RunnerNext]_allVars, NEW j \in Keys,
                    status'[j] = "EXECUTED"
             PROVE  \E n \in Attempts :
                        execution'[j][n] = "SUCCEEDED" /\ applied'[<<j, n>>] = 1
  BY DEF ExecutedMeansApplied
<1>0. TypeInv
  BY DEF RunnerInv
<1>1. CASE status[j] = "EXECUTED"
  <2>1. PICK n \in Attempts : execution[j][n] = "SUCCEEDED" /\ applied[<<j, n>>] = 1
    BY <1>1 DEF RunnerInv, ExecutedMeansApplied
  <2>2. execution'[j] = execution[j]
    <3>1. CASE Next
      BY <1>0, <1>1, <3>1, SettledStep DEF SettledStays, TERMINAL_REMEDIATION_STATUSES
    <3>2. CASE UNCHANGED vars
      BY <3>2 DEF vars, rows
    <3>3. QED
      BY <3>1, <3>2, CoreStep
  <2>3. applied'[<<j, n>>] = 1
    <3>1. <<j, n>> \in AttemptIds
      BY DEF AttemptIds
    <3>2. QED
      BY <2>1, <3>1, AppliedStays
  <2>4. QED
    BY <2>1, <2>2, <2>3
<1>2. CASE status[j] # "EXECUTED"
  <2>1. ASSUME NEW w \in Owners, NEW k \in Keys, NEW n \in Attempts,
               NEW outcome \in Outcomes, Settles(w, k, n, outcome)
        PROVE  \E i \in Attempts :
                    execution'[j][i] = "SUCCEEDED" /\ applied'[<<j, i>>] = 1
    <3>1. complete_execution(k, n, w, outcome, runner[w].retryable)
      BY <2>1 DEF Settles
    <3>2. j = k /\ outcome = "succeeded" /\ execution'[k][n] = "SUCCEEDED"
      BY <1>0, <1>2, <3>1, Completed
    <3>3. applied[<<k, n>>] = 1
      BY <2>1, <3>2 DEF Settles, RunnerInv, ReportsTrue
    <3>4. <<k, n>> \in AttemptIds
      BY DEF AttemptIds
    <3>5. applied'[<<k, n>>] = 1
      BY <3>3, <3>4, AppliedStays
    <3>6. QED
      BY <3>2, <3>5
  <2>2. CASE Calm
    BY <1>2, <2>2 DEF Calm
  <2>3. ASSUME NEW w \in Owners, NEW k \in Keys, Claim(w, k) PROVE FALSE
    <3>1. CASE claim_started(k, w)
      BY <1>0, <1>2, <3>1, Started
    <3>2. CASE claim_interrupted(k, w)
      BY <1>0, <1>2, <3>2, Interrupted
    <3>3. ASSUME NEW drift, claim_blocked(k, drift) PROVE FALSE
      BY <1>0, <1>2, <3>3, Blocked
    <3>4. QED
      BY <2>3, <3>1, <3>2, <3>3, Claiming
  <2>4. QED
    BY <2>1, <2>2, <2>3, Kinds
<1>3. QED
  BY <1>1, <1>2

LEMMA TriedStep == RunnerInv /\ [RunnerNext]_allVars => TriedIsKnown'
<1> SUFFICES ASSUME RunnerInv, [RunnerNext]_allVars, NEW j \in Keys, attempts'[j] > 0
             PROVE  (proposal[j] \in Proposals /\ Known(proposal[j]))'
  BY DEF TriedIsKnown
<1>0. TypeInv /\ attempts[j] \in Nat
  BY DEF RunnerInv, TypeInv, TypeOK
<1>1. CASE attempts[j] > 0
  <2>1. proposal'[j] = proposal[j]
    BY <1>1, CoreStep, CoreGrows DEF RunnerInv, Grows
  <2>2. QED
    BY <1>1, <2>1 DEF RunnerInv, TriedIsKnown, Known
<1>2. CASE attempts[j] = 0
  <2>1. ASSUME NEW w \in Owners, NEW k \in Keys, claim_started(k, w)
        PROVE  (proposal[j] \in Proposals /\ Known(proposal[j]))'
    <3>1. j = k /\ status[k] \in {"APPROVED", "EXECUTING"} /\ proposal' = proposal
      BY <1>0, <1>2, <2>1, Started
    <3>2. QED
      BY <1>0, <3>1 DEF TypeInv, LiveIsKnown, Live, Known
  <2>2. CASE Advance /\ Owned
    BY <1>2, <2>2 DEF Owned
  <2>3. ASSUME NEW w \in Owners, NEW k \in Keys, claim_interrupted(k, w) PROVE FALSE
    BY <1>0, <1>2, <2>3, Interrupted
  <2>4. ASSUME NEW k \in Keys, NEW drift, claim_blocked(k, drift) PROVE FALSE
    BY <1>0, <1>2, <2>4, Blocked
  <2>5. QED
    BY <2>1, <2>2, <2>3, <2>4, Claiming, NotClaiming
<1>3. QED
  BY <1>0, <1>1, <1>2

RunnerRow ==
    [pc : {"idle", "claimed", "running", "reconcile", "report"},
     ticket : AttemptIds \cup {<<NoOne, 0>>},
     outcome : {"none", "not_applied"} \cup Outcomes,
     retryable : BOOLEAN]

LEMMA TypesStep == RunnerInv /\ [RunnerNext]_allVars => RunnerTypeOK'
<1> SUFFICES ASSUME RunnerInv, [RunnerNext]_allVars PROVE RunnerTypeOK'
  OBVIOUS
<1>0. TypeOK' /\ TypeInv
  BY CoreStep, TypeStep DEF RunnerInv, TypeInv
<1>t. /\ runner \in [Owners -> RunnerRow]
      /\ call \in [AttemptIds -> [step : CallSteps, owner : Owners \cup {NoOne},
                                  succeeded : BOOLEAN]]
      /\ applied \in [AttemptIds -> Nat]
      /\ stored \in [AttemptIds -> {"none", "succeeded", "failed"}]
      /\ overdue \subseteq AttemptIds
      /\ crashes \in 0..MaxCrashes
  BY DEF RunnerInv, RunnerTypeOK, RunnerRow
<1>s. SUFFICES /\ runner' \in [Owners -> RunnerRow]
               /\ call' \in [AttemptIds -> [step : CallSteps, owner : Owners \cup {NoOne},
                                            succeeded : BOOLEAN]]
               /\ applied' \in [AttemptIds -> Nat]
               /\ stored' \in [AttemptIds -> {"none", "succeeded", "failed"}]
               /\ overdue' \subseteq AttemptIds
               /\ crashes' \in 0..MaxCrashes
  BY <1>0 DEF RunnerTypeOK, RunnerRow
<1>1. ASSUME NEW w \in Owners, Stop(w) PROVE runner' \in [Owners -> RunnerRow]
  BY <1>1, <1>t DEF Stop, Idle, RunnerRow
<1>2. ASSUME NEW w \in Owners, NEW outcome \in {"not_applied"} \cup Outcomes,
             NEW retryable \in BOOLEAN, Decide(w, outcome, retryable)
      PROVE  runner' \in [Owners -> RunnerRow]
  <2>1. runner[w] \in RunnerRow
    BY <1>t
  <2>2. [runner[w] EXCEPT !.pc = "report", !.outcome = outcome, !.retryable = retryable]
            \in RunnerRow
    BY <2>1 DEF RunnerRow
  <2>3. runner' = [runner EXCEPT ![w] = [runner[w] EXCEPT
                        !.pc = "report", !.outcome = outcome, !.retryable = retryable]]
    BY <1>2, <1>t DEF Decide
  <2>4. QED
    BY <1>t, <2>2, <2>3
<1>c. ASSUME NEW w \in Owners, NEW pc \in {"claimed", "reconcile"},
             NEW ticket \in AttemptIds
      PROVE  [runner EXCEPT ![w].pc = pc, ![w].ticket = ticket] \in [Owners -> RunnerRow]
  <2>1. runner[w] \in RunnerRow
    BY <1>t
  <2>2. [runner[w] EXCEPT !.pc = pc, !.ticket = ticket] \in RunnerRow
    BY <2>1 DEF RunnerRow
  <2>3. [runner EXCEPT ![w].pc = pc, ![w].ticket = ticket]
          = [runner EXCEPT ![w] = [runner[w] EXCEPT !.pc = pc, !.ticket = ticket]]
    BY <1>t
  <2>4. QED
    BY <1>t, <2>2, <2>3
<1>3. CASE Command \/ UNCHANGED allVars
  BY <1>3, <1>t DEF Command, allVars, workerVars
<1>4. ASSUME NEW k \in Keys, LeaseExpires(k) PROVE UNCHANGED workerVars
  BY <1>4 DEF LeaseExpires
<1>5. ASSUME NEW w \in Owners, NEW k \in Keys, Claim(w, k)
      PROVE  runner' \in [Owners -> RunnerRow]
             /\ UNCHANGED <<call, applied, stored, overdue, crashes>>
  <2>0. UNCHANGED <<call, applied, stored, overdue, crashes>>
    BY <1>5 DEF Claim
  <2>1. CASE claim_started(k, w) /\ runner' = [runner EXCEPT ![w].pc = "claimed",
                                              ![w].ticket = <<k, attempts'[k]>>]
    <3>1. attempts'[k] \in Attempts
      BY <1>0, <2>1, Started
    <3>2. <<k, attempts'[k]>> \in AttemptIds
      BY <3>1 DEF AttemptIds
    <3>3. QED
      BY <1>c, <2>0, <2>1, <3>2
  <2>2. CASE claim_interrupted(k, w) /\ runner' = [runner EXCEPT ![w].pc = "reconcile",
                                                  ![w].ticket = <<k, attempts[k]>>]
    <3>1. attempts[k] \in Attempts
      BY <1>0, <2>2, Interrupted
    <3>2. <<k, attempts[k]>> \in AttemptIds
      BY <3>1 DEF AttemptIds
    <3>3. QED
      BY <1>c, <2>0, <2>2, <3>2
  <2>3. CASE UNCHANGED runner
    BY <1>t, <2>0, <2>3
  <2>4. QED
    BY <1>5, <2>1, <2>2, <2>3 DEF Claim
<1>6. ASSUME NEW w \in Owners,
             \/ Reconcile(w) \/ CaptureBaseline(w) \/ BaselineLeaseLost(w)
             \/ Await(w) \/ Report(w)
      PROVE  runner' \in [Owners -> RunnerRow]
             /\ UNCHANGED <<call, applied, stored, overdue, crashes>>
  <2>0. UNCHANGED <<call, applied, stored, overdue, crashes>>
    BY <1>6 DEF Reconcile, CaptureBaseline, BaselineLeaseLost, Await, Report
  <2>1. CASE Reconcile(w)
    <3>1. Ticket(w) \in AttemptIds
      BY <2>1 DEF RunnerInv, TicketsValid, Reconcile, At
    <3>2. \/ Decide(w, "not_applied", TRUE) \/ Decide(w, "succeeded", FALSE)
          \/ Decide(w, "failed", FALSE)
      BY <1>t, <2>1, <3>1 DEF Reconcile
    <3>3. QED
      BY <1>2, <2>0, <3>2 DEF Outcomes
  <2>2. CASE CaptureBaseline(w)
    BY <1>2, <1>t, <2>0, <2>2 DEF CaptureBaseline, Outcomes
  <2>3. CASE BaselineLeaseLost(w) \/ Report(w)
    BY <1>1, <2>0, <2>3 DEF BaselineLeaseLost, Report
  <2>4. CASE Await(w)
    <3>1. \/ Decide(w, "succeeded", FALSE) \/ Decide(w, "failed", FALSE)
          \/ Decide(w, "timed_out", TRUE) \/ Decide(w, "failed", TRUE)
      BY <2>4 DEF Await
    <3>2. QED
      BY <1>2, <2>0, <3>1 DEF Outcomes
  <2>5. QED
    BY <1>6, <2>1, <2>2, <2>3, <2>4
<1>7. ASSUME NEW w \in Owners, Submit(w)
      PROVE  /\ runner' \in [Owners -> RunnerRow]
             /\ call' \in [AttemptIds -> [step : CallSteps, owner : Owners \cup {NoOne},
                                          succeeded : BOOLEAN]]
             /\ UNCHANGED <<applied, stored, overdue, crashes>>
  <2>1. runner' \in [Owners -> RunnerRow]
    BY <1>7, <1>t DEF Submit, Goto, RunnerRow
  <2>2. QED
    BY <1>7, <1>t, <2>1 DEF Submit, CallSteps
<1>8. ASSUME NEW a \in AttemptIds, CheckDeadline(a)
      PROVE  /\ call' \in [AttemptIds -> [step : CallSteps, owner : Owners \cup {NoOne},
                                          succeeded : BOOLEAN]]
             /\ UNCHANGED <<runner, applied, stored, overdue, crashes>>
  BY <1>8, <1>t DEF CheckDeadline, CallSteps
<1>9. ASSUME NEW a \in AttemptIds, Act(a)
      PROVE  /\ call' \in [AttemptIds -> [step : CallSteps, owner : Owners \cup {NoOne},
                                          succeeded : BOOLEAN]]
             /\ applied' \in [AttemptIds -> Nat]
             /\ UNCHANGED <<runner, stored, overdue, crashes>>
  <2>1. PICK changed \in BOOLEAN, raised \in BOOLEAN :
            /\ applied' = [applied EXCEPT ![a] = IF changed THEN @ + 1 ELSE @]
            /\ call' = [call EXCEPT ![a].step = IF raised THEN "raised" ELSE "acted",
                                    ![a].succeeded = changed /\ ~raised]
    BY <1>9 DEF Act
  <2>2. applied' \in [AttemptIds -> Nat]
    BY <1>t, <2>1
  <2>3. ASSUME NEW step \in CallSteps, NEW succeeded \in BOOLEAN
        PROVE  [call EXCEPT ![a].step = step, ![a].succeeded = succeeded]
                 \in [AttemptIds -> [step : CallSteps, owner : Owners \cup {NoOne},
                                     succeeded : BOOLEAN]]
    BY <1>t
  <2>4. call' \in [AttemptIds -> [step : CallSteps, owner : Owners \cup {NoOne},
                                  succeeded : BOOLEAN]]
    <3>1. (IF raised THEN "raised" ELSE "acted") \in CallSteps
      BY DEF CallSteps
    <3>2. (changed /\ ~raised) \in BOOLEAN
      OBVIOUS
    <3>3. QED
      BY <2>1, <2>3, <3>1, <3>2
  <2>5. QED
    BY <1>9, <2>2, <2>4 DEF Act
<1>10. ASSUME NEW a \in AttemptIds, StoreResult(a)
       PROVE  /\ call' \in [AttemptIds -> [step : CallSteps, owner : Owners \cup {NoOne},
                                           succeeded : BOOLEAN]]
              /\ stored' \in [AttemptIds -> {"none", "succeeded", "failed"}]
              /\ UNCHANGED <<runner, applied, overdue, crashes>>
  BY <1>10, <1>t DEF StoreResult, CallSteps
<1>11. ASSUME NEW a \in AttemptIds, DeadlinePasses(a)
       PROVE  /\ overdue' \subseteq AttemptIds
              /\ UNCHANGED <<runner, call, applied, stored, crashes>>
  BY <1>11, <1>t DEF DeadlinePasses
<1>12. ASSUME NEW w \in Owners, Crash(w) \/ Abandon(w)
       PROVE  /\ runner' \in [Owners -> RunnerRow]
              /\ call' \in [AttemptIds -> [step : CallSteps, owner : Owners \cup {NoOne},
                                           succeeded : BOOLEAN]]
              /\ crashes' \in 0..MaxCrashes
              /\ UNCHANGED <<applied, stored, overdue>>
  <2>1. Stop(w) /\ crashes < MaxCrashes /\ crashes' = crashes + 1
        /\ UNCHANGED <<applied, stored, overdue>>
    BY <1>12 DEF Crash, Abandon
  <2>2. crashes' \in 0..MaxCrashes
    BY <1>t, <2>1, MaxCrashesAssumption
  <2>3. call' \in [AttemptIds -> [step : CallSteps, owner : Owners \cup {NoOne},
                                  succeeded : BOOLEAN]]
    BY <1>12, <1>t DEF Crash, Abandon, CallSteps
  <2>4. QED
    BY <1>1, <2>1, <2>2, <2>3
<1>13. QED
  BY <1>3, <1>4, <1>5, <1>6, <1>7, <1>8, <1>9, <1>10, <1>11, <1>12, <1>t
     DEF RunnerNext, WorkerStep, workerVars

-----------------------------------------------------------------------------
(* Theorems *)

LEMMA RunnerInvInit == RunnerInit => RunnerInv
<1> SUFFICES ASSUME RunnerInit PROVE RunnerInv
  OBVIOUS
<1>1. TypeInv
  BY TypeInit DEF RunnerInit
<1>2. RunnerTypeOK
  BY <1>1, MaxCrashesAssumption
     DEF RunnerInit, RunnerTypeOK, TypeInv, Idle, CallSteps
<1>3. ApprovalsBind /\ TriedIsKnown /\ OnlyLatestRuns /\ ExecutedMeansApplied
  BY DEF RunnerInit, Init, ApprovalsBind, Bound, TriedIsKnown, OnlyLatestRuns,
         ExecutedMeansApplied
<1>4. TicketsValid /\ TicketsFresh /\ ReportsTrue
  BY DEF RunnerInit, TicketsValid, TicketsFresh, ReportsTrue, At, Idle
<1>5. CallsTrack
  BY DEF RunnerInit, CallsTrack, Tracked
<1>6. QED
  BY <1>1, <1>2, <1>3, <1>4, <1>5 DEF RunnerInv

LEMMA RunnerInvStep == RunnerInv /\ [RunnerNext]_allVars => RunnerInv'
<1> SUFFICES ASSUME RunnerInv, [RunnerNext]_allVars PROVE RunnerInv'
  OBVIOUS
<1>1. TypeInv' /\ ApprovalsBind'
  BY CoreStep, TypeStep, ApprovalStep DEF RunnerInv
<1>2. QED
  BY <1>1, TypesStep, TriedStep, TicketsStep, FreshStep, ReportsStep, CallsStep,
     LatestStep, ExecutedStep
     DEF RunnerInv

LEMMA RunnerInvAlways == RunnerSpec => []RunnerInv
  BY RunnerInvInit, RunnerInvStep, PTL DEF RunnerSpec

(* Type correctness of the workers, their threads and the rows. *)
THEOREM RunnerTypeCorrect == RunnerSpec => []RunnerTypeOK
  BY RunnerInvAlways, PTL DEF RunnerInv

(* The worker implements incident-core's protocol: every step of claiming, *)
(* reconciling, capturing, executing, reporting, crashing and retrying is  *)
(* a command Remediation allows, or leaves its rows alone.                 *)
THEOREM RunnerImplementsCore == RunnerSpec => Spec
<1>1. RunnerInit => Init
  BY DEF RunnerInit
<1>2. QED
  BY <1>1, CoreStep, RunnerInvAlways, PTL DEF RunnerSpec, Spec

(* An entry that is not retry-safe allows one attempt. *)
LEMMA OneAttemptUnlessRetrySafe ==
    ASSUME NEW a \in ActionIds, ~CATALOG[a].retry_safe
    PROVE  CATALOG[a].max_attempts = 1
<1>1. CASE a = "restart_service"
  BY <1>1 DEF CATALOG, Entry, ActionIds
<1>2. CASE a = "scale_service"
  BY <1>2 DEF CATALOG, Entry, ActionIds
<1>3. CASE a = "rollback_deployment"
  BY <1>3 DEF CATALOG, Entry, ActionIds
<1>4. CASE a = "disable_feature_flag"
  BY <1>4 DEF CATALOG, Entry, ActionIds
<1>5. CASE a = "revert_configuration"
  BY <1>5 DEF CATALOG, Entry, ActionIds
<1>6. QED
  BY <1>1, <1>2, <1>3, <1>4, <1>5 DEF ActionIds

(* A thread that changed something belongs to an attempt that was started. *)
LEMMA AppliedWasStarted ==
    ASSUME RunnerInv, NEW k \in Keys, NEW n \in Attempts, applied[<<k, n>>] > 0
    PROVE  /\ call[<<k, n>>].step # "none"
           /\ n <= attempts[k]
           /\ attempts[k] > 0
<1>1. <<k, n>> \in AttemptIds
  BY DEF AttemptIds
<1>2. Tracked(<<k, n>>)
  BY <1>1 DEF RunnerInv, CallsTrack
<1>3. call[<<k, n>>].step # "none" /\ n <= attempts[k]
  BY <1>2 DEF Tracked
<1>4. QED
  BY <1>3 DEF RunnerInv, TypeInv, TypeOK, Attempts, MaxAttempts

(* The environment is changed at most once per idempotency key, and at     *)
(* most once in all for an action that is not retry-safe, for any number   *)
(* of workers, crashes, takeovers, redeliveries and orphaned threads.      *)
THEOREM ActsAtMostOnce == RunnerSpec => []NeverActsTwice
<1>1. RunnerInv => NeverActsTwice
  <2> SUFFICES ASSUME RunnerInv, NEW k \in Keys
               PROVE  /\ \A n \in Attempts : applied[<<k, n>>] <= 1
                      /\ \A m, n \in Attempts :
                            applied[<<k, m>>] > 0 /\ applied[<<k, n>>] > 0 /\ m # n
                                => entry(k).retry_safe
    BY DEF NeverActsTwice
  <2>1. ASSUME NEW n \in Attempts PROVE applied[<<k, n>>] <= 1
    <3>1. <<k, n>> \in AttemptIds
      BY DEF AttemptIds
    <3>2. QED
      BY <3>1 DEF RunnerInv, CallsTrack, Tracked
  <2>2. ASSUME NEW m \in Attempts, NEW n \in Attempts, m # n,
               applied[<<k, m>>] > 0, applied[<<k, n>>] > 0,
               ~entry(k).retry_safe
        PROVE  FALSE
    <3>1. m <= attempts[k] /\ n <= attempts[k] /\ attempts[k] > 0
      BY <2>2, AppliedWasStarted
    <3>2. proposal[k].action_id \in ActionIds
      BY <3>1 DEF RunnerInv, TriedIsKnown, Known, CATALOG
    <3>3. entry(k).max_attempts = 1
      BY <2>2, <3>2, OneAttemptUnlessRetrySafe DEF entry
    <3>4. attempts[k] <= 1
      BY <3>1, <3>3 DEF RunnerInv, ApprovalsBind, Bound
    <3>5. QED
      BY <2>2, <3>1, <3>4 DEF Attempts, MaxAttempts, RunnerInv, TypeInv, TypeOK
  <2>3. QED
    BY <2>1, <2>2
<1>2. QED
  BY <1>1, RunnerInvAlways, PTL

(* The environment was changed only with a human's approval, and with the  *)
(* baseline captured if its verification needs one.                        *)
THEOREM ActsWhenReady == RunnerSpec => []ActsOnlyWhenReady
<1>1. RunnerInv => ActsOnlyWhenReady
  <2> SUFFICES ASSUME RunnerInv, NEW k \in Keys, NEW n \in Attempts,
                      applied[<<k, n>>] > 0
               PROVE  /\ approval[k].decision = "approved"
                      /\ entry(k).baseline_required => k \in baseline
    BY DEF ActsOnlyWhenReady
  <2>1. call[<<k, n>>].step # "none" /\ attempts[k] > 0
    BY AppliedWasStarted
  <2>2. <<k, n>> \in AttemptIds
    BY DEF AttemptIds
  <2>3. Tracked(<<k, n>>)
    BY <2>2 DEF RunnerInv, CallsTrack
  <2>4. QED
    BY <2>1, <2>3 DEF Tracked, RunnerInv, ApprovalsBind, Bound, ApprovedBy
<1>2. QED
  BY <1>1, RunnerInvAlways, PTL

(* EXECUTED is never wishful: the attempt recorded SUCCEEDED changed the   *)
(* environment, also when it was a reconciler that recorded it.            *)
THEOREM ExecutedWasApplied == RunnerSpec => []ExecutedMeansApplied
  BY RunnerInvAlways, PTL DEF RunnerInv

(* At most the latest attempt is RUNNING, and none once the remediation is *)
(* settled.  Remediation alone does not promise it: a caller could settle  *)
(* an older attempt; a worker cannot, because the lease it still owns is   *)
(* the one of its ticket.                                                  *)
THEOREM LatestAttemptRuns == RunnerSpec => []OnlyLatestRuns
  BY RunnerInvAlways, PTL DEF RunnerInv

=============================================================================
