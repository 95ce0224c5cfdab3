------------------------- MODULE RemediationRunner -------------------------
(***************************************************************************)
(* The remediation worker on top of incident-core's commands:              *)
(* RemediationRunner (packages/remediation/runner.py), the executor it     *)
(* calls (packages/remediation/executor.py), the baseline collector        *)
(* (packages/verification/engine.py) and the consumer and sweep that wake  *)
(* it (apps/worker/remediation_main.py).                                   *)
(*                                                                         *)
(* A worker claims, captures a baseline, hands the call to a thread and    *)
(* waits for it until the deadline.  The thread is a process of its own:   *)
(* after a timeout it keeps running.  It checks the deadline, acts on the  *)
(* environment and stores the result under the attempt's idempotency key,  *)
(* in separate steps.  A crash of the worker takes its threads with it at  *)
(* any of these points.  A RemediationApproved event may be delivered      *)
(* again at any time, so a claim may come at any time.                     *)
(***************************************************************************)
EXTENDS Remediation

CONSTANT MaxCrashes      \* bound: crashes and failed runs in a behaviour

ASSUME MaxCrashesAssumption == MaxCrashes \in Nat

VARIABLES
    runner,      \* per owner: where RemediationRunner.run is, and its ticket
    call,        \* per attempt: the executor thread of its execute() call
    applied,     \* per attempt: how often the handler changed the environment
    stored,      \* per attempt: the result under its idempotency key
    overdue,     \* attempts whose deadline has passed
    crashes

workerVars == <<runner, call, applied, stored, overdue, crashes>>
allVars == <<vars, workerVars>>

AttemptIds == Keys \X Attempts

\* Where the thread of a call is.  "lost": it died with its process.
CallSteps == {"none", "submitted", "checked", "acted", "returned", "late",
              "raised", "lost"}
InFlight == {"submitted", "checked", "acted"}

Idle == [pc |-> "idle", ticket |-> <<NoOne, 0>>, outcome |-> "none",
         retryable |-> FALSE]

RunnerTypeOK ==
    /\ TypeOK
    /\ runner \in [Owners ->
            [pc : {"idle", "claimed", "running", "reconcile", "report"},
             ticket : AttemptIds \cup {<<NoOne, 0>>},
             outcome : {"none", "not_applied"} \cup Outcomes,
             retryable : BOOLEAN]]
    /\ call \in [AttemptIds -> [step : CallSteps, owner : Owners \cup {NoOne},
                                succeeded : BOOLEAN]]
    /\ applied \in [AttemptIds -> Nat]
    /\ stored \in [AttemptIds -> {"none", "succeeded", "failed"}]
    /\ overdue \subseteq AttemptIds
    /\ crashes \in 0..MaxCrashes

RunnerInit ==
    /\ Init
    /\ runner = [w \in Owners |-> Idle]
    /\ call = [a \in AttemptIds |->
                [step |-> "none", owner |-> NoOne, succeeded |-> FALSE]]
    /\ applied = [a \in AttemptIds |-> 0]
    /\ stored = [a \in AttemptIds |-> "none"]
    /\ overdue = {}
    /\ crashes = 0

-----------------------------------------------------------------------------
(* RemediationRunner.run *)

Ticket(w) == runner[w].ticket
At(w, pc) == runner[w].pc = pc
Goto(w, pc) == runner' = [runner EXCEPT ![w].pc = pc]
Stop(w) == runner' = [runner EXCEPT ![w] = Idle]
Decide(w, outcome, retryable) ==
    runner' = [runner EXCEPT ![w].pc = "report", ![w].outcome = outcome,
                             ![w].retryable = retryable]

\* One claim_execution and the ticket it returns; none means break.
Claim(w, k) ==
    /\ At(w, "idle")
    /\ \/ /\ claim_started(k, w)
          /\ runner' = [runner EXCEPT ![w].pc = "claimed",
                                      ![w].ticket = <<k, attempts'[k]>>]
       \/ /\ claim_interrupted(k, w)
          /\ runner' = [runner EXCEPT ![w].pc = "reconcile",
                                      ![w].ticket = <<k, attempts[k]>>]
       \/ /\ \E drift \in BOOLEAN : claim_blocked(k, drift)
          /\ UNCHANGED runner
    /\ UNCHANGED <<call, applied, stored, overdue, crashes>>

\* No record under the key: assume the lost worker got through.
Faulty_Reconcile(w) ==
    /\ At(w, "reconcile")
    /\ CASE stored[Ticket(w)] = "failed" -> Decide(w, "failed", FALSE)
         [] OTHER                        -> Decide(w, "succeeded", FALSE)
    /\ UNCHANGED <<vars, call, applied, stored, overdue, crashes>>

\* _reconcile: ask the executor about the interrupted attempt's key.
Reconcile(w) ==
    /\ At(w, "reconcile")
    /\ CASE stored[Ticket(w)] = "none"      -> Decide(w, "not_applied", TRUE)
         [] stored[Ticket(w)] = "succeeded" -> Decide(w, "succeeded", FALSE)
         [] stored[Ticket(w)] = "failed"    -> Decide(w, "failed", FALSE)
    /\ UNCHANGED <<vars, call, applied, stored, overdue, crashes>>

NeedsBaseline(k) == entry(k).baseline_required /\ k \notin baseline
HoldsLease(w, k) == lease[k].owner = w /\ status[k] = "EXECUTING"

\* BaselineCollector: captured, not observable, or refused by the fence.
CaptureBaseline(w) ==
    LET k == Ticket(w)[1] IN
    /\ At(w, "claimed")
    /\ NeedsBaseline(k)
    /\ \/ record_baseline(k, w) /\ UNCHANGED runner
       \/ Decide(w, "failed", TRUE) /\ UNCHANGED vars
    /\ UNCHANGED <<call, applied, stored, overdue, crashes>>

BaselineLeaseLost(w) ==
    LET k == Ticket(w)[1] IN
    /\ At(w, "claimed")
    /\ entry(k).baseline_required
    /\ ~HoldsLease(w, k)
    /\ Stop(w)
    /\ UNCHANGED <<vars, call, applied, stored, overdue, crashes>>

Faulty_Submit(w) ==
    /\ At(w, "claimed")
    /\ Goto(w, "running")
    /\ call' = [call EXCEPT ![Ticket(w)] =
                    [step |-> "submitted", owner |-> w, succeeded |-> FALSE]]
    /\ UNCHANGED <<vars, applied, stored, overdue, crashes>>

\* _execute hands the request to a thread.
Submit(w) ==
    /\ At(w, "claimed")
    /\ ~NeedsBaseline(Ticket(w)[1])
    /\ Goto(w, "running")
    /\ call' = [call EXCEPT ![Ticket(w)] =
                    [step |-> "submitted", owner |-> w, succeeded |-> FALSE]]
    /\ UNCHANGED <<vars, applied, stored, overdue, crashes>>

\* future.result(timeout=...): a result, an exception, or the deadline.
Await(w) ==
    LET c == call[Ticket(w)] IN
    /\ At(w, "running")
    /\ \/ /\ c.step = "returned"
          /\ Decide(w, IF c.succeeded THEN "succeeded" ELSE "failed", FALSE)
       \/ /\ c.step = "late" \/ Ticket(w) \in overdue
          /\ Decide(w, "timed_out", TRUE)
       \/ /\ c.step = "raised"
          /\ Decide(w, "failed", TRUE)
    /\ UNCHANGED <<vars, call, applied, stored, overdue, crashes>>

\* complete_execution; a reconciled "not applied" is a retryable failure.
Report(w) ==
    LET k == Ticket(w)[1]
        n == Ticket(w)[2]
        outcome == IF runner[w].outcome = "not_applied" THEN "failed"
                                                        ELSE runner[w].outcome
    IN
    /\ At(w, "report")
    /\ \/ complete_execution(k, n, w, outcome, runner[w].retryable)
       \/ /\ ~HoldsLease(w, k) \/ execution[k][n] \notin {"RUNNING", "UNKNOWN"}
          /\ UNCHANGED vars
    /\ Stop(w)
    /\ UNCHANGED <<call, applied, stored, overdue, crashes>>

-----------------------------------------------------------------------------
(* SimulatorRemediationExecutor.execute, in its thread *)

\* What is under the key already, then the deadline; the read may fail.  The
\* checks in between repeat what propose() and the claim of the same process
\* established of the action, its parameters and the environment.
CheckDeadline(a) ==
    /\ call[a].step = "submitted"
    /\ \/ /\ stored[a] # "none"
          /\ call' = [call EXCEPT ![a].step = "returned",
                                  ![a].succeeded = (stored[a] = "succeeded")]
       \/ /\ stored[a] = "none"
          /\ call' = [call EXCEPT ![a].step = IF a \in overdue THEN "late"
                                                               ELSE "checked"]
       \/ call' = [call EXCEPT ![a].step = "raised"]
    /\ UNCHANGED <<vars, runner, applied, stored, overdue, crashes>>

\* The handler carries its action out (a rollback or a revert that finds its
\* target already in place included), refuses (target changed, replica limit),
\* or its transport fails before or after the change.
Act(a) ==
    /\ call[a].step = "checked"
    /\ \E changed, raised \in BOOLEAN :
        /\ applied' = [applied EXCEPT ![a] = IF changed THEN @ + 1 ELSE @]
        /\ call' = [call EXCEPT ![a].step = IF raised THEN "raised" ELSE "acted",
                                ![a].succeeded = changed /\ ~raised]
    /\ UNCHANGED <<vars, runner, stored, overdue, crashes>>

\* The result goes under the idempotency key and into the operations log;
\* either write may fail.
StoreResult(a) ==
    /\ call[a].step = "acted"
    /\ \/ /\ stored' = [stored EXCEPT ![a] =
                IF call[a].succeeded THEN "succeeded" ELSE "failed"]
          /\ \E step \in {"returned", "raised"} : call' = [call EXCEPT ![a].step = step]
       \/ /\ call' = [call EXCEPT ![a].step = "raised"]
          /\ UNCHANGED stored
    /\ UNCHANGED <<vars, runner, applied, overdue, crashes>>

-----------------------------------------------------------------------------
(* Time and failure *)

DeadlinePasses(a) ==
    /\ execution[a[1]][a[2]] # "none"
    /\ a \notin overdue
    /\ overdue' = overdue \cup {a}
    /\ UNCHANGED <<vars, runner, call, applied, stored, crashes>>

\* The lease of an attempt is max(lease_seconds, timeout + 30): it outlives
\* the attempt's deadline.
LeaseExpires(k) ==
    /\ latest_execution(k) = "RUNNING" => <<k, attempts[k]>> \in overdue
    /\ lease_expires(k)
    /\ UNCHANGED workerVars

Crash(w) ==
    /\ crashes < MaxCrashes
    /\ crashes' = crashes + 1
    /\ Stop(w)
    /\ call' = [a \in AttemptIds |->
                    IF call[a].owner = w /\ call[a].step \in InFlight
                      THEN [call[a] EXCEPT !.step = "lost"] ELSE call[a]]
    /\ UNCHANGED <<vars, applied, stored, overdue>>

\* run() raises: the database or Redis is away while it reconciles, captures
\* the baseline or reports.  The worker goes on with something else and its
\* thread, if one is left, too.
Abandon(w) ==
    /\ runner[w].pc \in {"claimed", "reconcile", "report"}
    /\ crashes < MaxCrashes
    /\ crashes' = crashes + 1
    /\ Stop(w)
    /\ UNCHANGED <<vars, call, applied, stored, overdue>>

\* Commands of the other callers: planner, operators, sweep, other services.
Command ==
    /\ \/ \E k \in Keys, p \in Proposals, load \in HourlyLoads : propose(k, p, load)
       \/ \E k, seen \in Keys, human \in Humans, approve \in BOOLEAN :
            decide_approval(k, human, seen, approve)
       \/ \E k \in Keys : select_expired(k) \/ expire_approval(k) \/ cancel(k)
       \/ \E scope \in Switchable, engaged \in BOOLEAN :
            set_kill_switch(scope, engaged)
       \/ other_service_moves_incident
    /\ UNCHANGED workerVars

WorkerStep(w) ==
    \/ Reconcile(w)
    \/ CaptureBaseline(w)
    \/ BaselineLeaseLost(w)
    \/ Submit(w)
    \/ Await(w)
    \/ Report(w)

RunnerNext ==
    \/ Command
    \/ \E w \in Owners, k \in Keys : Claim(w, k)
    \/ \E w \in Owners : WorkerStep(w)
    \/ \E a \in AttemptIds :
        CheckDeadline(a) \/ Act(a) \/ StoreResult(a) \/ DeadlinePasses(a)
    \/ \E k \in Keys : LeaseExpires(k)
    \/ \E w \in Owners : Crash(w) \/ Abandon(w)

RunnerSpec == RunnerInit /\ [][RunnerNext]_allVars

Faulty_pending_execution(k) == status[k] = "APPROVED"

\* pending_executions: what a sweep claims.
pending_execution(k) ==
    \/ status[k] = "APPROVED"
    \/ status[k] = "EXECUTING" /\ ~lease[k].live

(* The worker loop sweeps forever and finishes the run it is in; deadlines *)
(* and leases run out; the approval sweep runs.  No fairness for humans,   *)
(* executor threads or crashes.                                            *)
Fairness ==
    /\ \A k \in Keys :
        /\ WF_allVars(pending_execution(k) /\ \E w \in Owners : Claim(w, k))
        /\ WF_allVars(LeaseExpires(k))
        /\ WF_allVars(select_expired(k) /\ UNCHANGED workerVars)
        /\ WF_allVars(expire_approval(k) /\ UNCHANGED workerVars)
    /\ \A a \in AttemptIds : WF_allVars(DeadlinePasses(a))
    /\ \A w \in Owners : WF_allVars(WorkerStep(w))

FairRunnerSpec == RunnerSpec /\ Fairness

-----------------------------------------------------------------------------
(* Properties *)

(* The environment is changed at most once under one idempotency key, and  *)
(* at most once in all for an action that is not retry-safe, through any   *)
(* crash, lease takeover, redelivery and orphaned executor thread.         *)
NeverActsTwice ==
    \A k \in Keys :
        /\ \A n \in Attempts : applied[<<k, n>>] <= 1
        /\ \A m, n \in Attempts :
            applied[<<k, m>>] > 0 /\ applied[<<k, n>>] > 0 /\ m # n
                => entry(k).retry_safe

(* The environment was changed only for a remediation a human approved,    *)
(* and with the "before" its verification needs already captured.          *)
ActsOnlyWhenReady ==
    \A k \in Keys : (\E n \in Attempts : applied[<<k, n>>] > 0) =>
        /\ approval[k].decision = "approved"
        /\ entry(k).baseline_required => k \in baseline

(* EXECUTED is never wishful: the attempt recorded as SUCCEEDED did change *)
(* the environment, also when a reconciler recorded it.                    *)
ExecutedMeansApplied ==
    \A k \in Keys : status[k] = "EXECUTED" =>
        \E n \in Attempts :
            execution[k][n] = "SUCCEEDED" /\ applied[<<k, n>>] = 1

(* At most the latest attempt is RUNNING, and none is once the remediation *)
(* is settled: a kill switch cancels only between attempts.                *)
OnlyLatestRuns ==
    \A k \in Keys, n \in Attempts : execution[k][n] = "RUNNING" =>
        n = attempts[k] /\ status[k] = "EXECUTING"

(* An approved remediation is settled in the end: executed, failed or      *)
(* cancelled, however workers crash and leases run out.                    *)
ApprovedSettles ==
    \A k \in Keys : status[k] = "APPROVED"
        ~> status[k] \in TERMINAL_REMEDIATION_STATUSES

(* A request for approval never waits for ever: somebody decides, or the   *)
(* timeout sweep does.                                                     *)
ApprovalIsDecided ==
    \A k \in Keys : status[k] = "AWAITING_APPROVAL"
        ~> status[k] # "AWAITING_APPROVAL"

(* What the documents say of a lost worker: its attempt is UNKNOWN until   *)
(* the executor has been asked, so no settled remediation keeps one.       *)
UnknownIsReconciled ==
    \A k \in Keys, n \in Attempts :
        status[k] \in TERMINAL_REMEDIATION_STATUSES
            => execution[k][n] # "UNKNOWN"

=============================================================================
