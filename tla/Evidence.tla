------------------------------ MODULE Evidence ------------------------------
(***************************************************************************)
(* The evidence service (packages/evidence) and the tool executor in front *)
(* of it (packages/tools/executor.py), for one incident.                   *)
(*                                                                         *)
(* Every query resolves the incident's scope and its window against the    *)
(* clock, asks one adapter, persists an immutable record in the evidence   *)
(* schema and registers a reference with incident-core, in that order and  *)
(* in transactions of their own.                                           *)
(* What a backend observed is left out; an observation is the services it  *)
(* involves and its evidence type.  A caller dies between any two steps.   *)
(* The investigation is shown an id by a tool result or by the listing of  *)
(* the evidence already recorded.                                          *)
(***************************************************************************)
EXTENDS Integers, FiniteSets

CONSTANTS
    Callers,            \* tool executors and API requests
    Investigation,      \* the caller whose results the model sees
    Services, Service,  \* of the catalog; the incident's own
    Dependencies,       \* <<caller, callee>> pairs of the service catalog
    CreatedAt,          \* the incident's created_at, in minutes
    Instants,           \* bound: the times a clock shows and a caller names
    Queries,            \* bound: the operations an instance uses
    EvidenceIds         \* bound: the records there may be

ASSUME EvidenceAssumption ==
    /\ Investigation \in Callers
    /\ Service \in Services
    /\ Dependencies \subseteq Services \X Services
    /\ CreatedAt \in Nat /\ Instants \subseteq Nat

VARIABLES
    records,   \* evidence_records: id -> the operation that observed it
    refs,      \* evidence_refs: the registered ids
    shown,     \* evidence_ids of the investigation's context and tool steps
    caller     \* per caller: the query under way

evidence_vars == <<records, refs, shown, caller>>

-----------------------------------------------------------------------------
(* Scope: scope.py and limits.py, in minutes *)

MIN_WINDOW == 1
DEFAULT_WINDOW == 30
MAX_WINDOW == 180
MAX_CHANGE_WINDOW == 48 * 60
MAX_LOOKBACK_BEFORE_INCIDENT == 24 * 60

Unset == -1
Epoch == 0

earliest == CreatedAt - MAX_LOOKBACK_BEFORE_INCIDENT

Larger(a, b) == IF a >= b THEN a ELSE b
Smaller(a, b) == IF a <= b THEN a ELSE b

\* ServiceCatalog.neighborhood
neighborhood(s) ==
    {s} \cup {t \in Services : <<s, t>> \in Dependencies \/ <<t, s>> \in Dependencies}

Faulty_resolved_start(start, end, default) == IF start # Unset THEN start ELSE end - default

resolved_start(start, end, default) ==
    IF start # Unset THEN start ELSE Larger(end - default, earliest)

(* IncidentScope.window: the bounded window, or the error that refuses it. *)
window(start, end, now, default, max_length) ==
    LET e == Smaller(IF end = Unset THEN now ELSE end, now)
        s == resolved_start(start, e, default)
    IN IF s >= e \/ e - s > max_length \/ e - s < MIN_WINDOW
         THEN [error |-> "invalid_argument"]
       ELSE IF s < earliest
         THEN [error |-> "scope_violation"]
       ELSE [error |-> "none", start |-> s, end |-> e]

-----------------------------------------------------------------------------
(* The adapters: what each operation records, and how it may fail *)

get_json == {"backend_timeout", "backend_unavailable", "invalid_argument"}
registry_read == {"backend_timeout", "backend_unavailable"}
git_log == {"backend_timeout", "backend_unavailable", "invalid_argument", "scope_violation"}

metric_window == [type |-> "metric", errors |-> get_json]
service_health == [type |-> "metric", errors |-> get_json]
query_logs == [type |-> "log", errors |-> get_json]
get_trace == [type |-> "trace", errors |-> get_json \cup {"scope_violation"}]
trace_search == [type |-> "trace", errors |-> get_json]
deployments == [type |-> "deployment", errors |-> registry_read]
config_changes == [type |-> "configuration", errors |-> registry_read]
runtime_state == [type |-> "configuration", errors |-> registry_read]
recent_commits == [type |-> "git_change", errors |-> git_log]
code_changes == [type |-> "git_change", errors |-> git_log]
similar_incidents == [type |-> "incident_history", errors |-> {}]

telemetry == [metric_window |-> metric_window, service_health |-> service_health,
              logs |-> query_logs, trace_by_id |-> get_trace,
              trace_search |-> trace_search]
changes_and_history ==
    [recent_deployments |-> deployments, config_changes |-> config_changes,
     code_changes |-> code_changes, recent_commits |-> recent_commits,
     runtime_state |-> runtime_state, similar_incidents |-> similar_incidents]

\* EvidenceService: one method per operation.
Operations == DOMAIN telemetry \cup DOMAIN changes_and_history
adapter == [op \in Operations |-> IF op \in DOMAIN telemetry THEN telemetry[op]
                                 ELSE changes_and_history[op]]

\* The tool contracts; runtime_state has none, only the verification's observer asks.
TOOLS == [get_metrics |-> "metric_window", get_service_health |-> "service_health",
          get_logs |-> "logs", get_trace |-> "trace_by_id", get_traces |-> "trace_search",
          get_deploys |-> "recent_deployments", get_config_history |-> "config_changes",
          get_git_diff |-> "code_changes", get_recent_commits |-> "recent_commits",
          search_historical_incidents |-> "similar_incidents"]

(* What the service's methods pass to IncidentScope.window; the operations  *)
(* not listed here pass nothing and have no window.                        *)
change_sources == {"recent_deployments", "config_changes", "code_changes"}
windowed == {"metric_window", "service_health", "logs", "trace_search"} \cup change_sources

default_window(op) ==
    IF op \in change_sources THEN MAX_CHANGE_WINDOW
    ELSE IF op = "service_health" THEN MIN_WINDOW
    ELSE DEFAULT_WINDOW

longest_window(op) == IF op \in change_sources THEN MAX_CHANGE_WINDOW ELSE MAX_WINDOW

\* The arguments of the tool contracts: service_health names an instant only.
starts(op) == {Unset} \cup IF op \in windowed \ {"service_health"} THEN Instants ELSE {}
ends(op) == {Unset} \cup IF op \in windowed THEN Instants ELSE {}

bounds(op, start, end, now) ==
    IF op \in windowed THEN window(start, end, now, default_window(op), longest_window(op))
    ELSE [error |-> "none"]

(* The earliest instant a windowed operation's adapter asks its backend    *)
(* about: a metric's baseline is the window before the window, and of      *)
(* deployments and configuration the adapter also returns what was         *)
(* effective at the end, however old.  The range selectors inside a        *)
(* metric's query and the sha that code_changes takes instead of its       *)
(* window are left out; an operation without a window reads without limit. *)
oldest_read(op, w) ==
    CASE op = "metric_window" -> w.start - (w.end - w.start)
      [] op = "service_health" -> w.end
      [] op \in {"logs", "trace_search", "code_changes"} -> w.start
      [] op \in {"recent_deployments", "config_changes"} -> Epoch

\* errors.py: transient failures, which the executor tries once more.
retryable == {"backend_timeout", "backend_unavailable"}
max_attempts_per_call == 2

Idle == [at |-> "idle"]

EvidenceInit ==
    /\ records = <<>>
    /\ refs = {}
    /\ shown = {}
    /\ caller = [c \in Callers |-> Idle]

-----------------------------------------------------------------------------
(* One query: EvidenceService._run under ToolExecutor.execute *)

\* The model asks through a tool; the observer calls the service itself.
asks(c) == Queries \cap IF c = Investigation THEN {TOOLS[t] : t \in DOMAIN TOOLS}
                         ELSE Operations

Query(c) ==
    /\ caller[c].at = "idle"
    /\ DOMAIN records # EvidenceIds
    /\ \E op \in asks(c) : \E start \in starts(op), end \in ends(op) :
          caller' = [caller EXCEPT ![c] = [at |-> "scope", op |-> op, start |-> start,
                                           end |-> end, attempt |-> 1]]
    /\ UNCHANGED <<records, refs, shown>>

\* resolve_scope and the clock; the incident was opened before it is asked about.
Resolve(c) ==
    /\ caller[c].at = "scope"
    /\ \E now \in {t \in Instants : t >= CreatedAt} :
          LET q == caller[c]
              w == bounds(q.op, q.start, q.end, now)
          IN caller' = [caller EXCEPT ![c] =
                          [at |-> IF w.error = "none" THEN "collect" ELSE "refused",
                           op |-> q.op, start |-> q.start, end |-> q.end,
                           attempt |-> q.attempt, now |-> now, window |-> w]]
    /\ UNCHANGED <<records, refs, shown>>

\* The error goes back to the caller; it is not transient.
Refuse(c) ==
    /\ caller[c].at = "refused"
    /\ caller' = [caller EXCEPT ![c] = Idle]
    /\ UNCHANGED <<records, refs, shown>>

(* A query names a service, or finds services in the trace it asked for:   *)
(* the first is refused before the backend is asked, the second before     *)
(* anything is persisted.  An empty trace has no services to refuse.       *)
in_scope(op, services) ==
    IF op = "trace_by_id" THEN services = {} \/ services \cap neighborhood(Service) # {}
    ELSE services \in {{s} : s \in neighborhood(Service)}

Collect(c) ==
    /\ caller[c].at = "collect"
    /\ \E services \in SUBSET Services : in_scope(caller[c].op, services)
    /\ caller' = [caller EXCEPT ![c] = [at |-> "persist", op |-> caller[c].op]]
    /\ UNCHANGED <<records, refs, shown>>

(* The executor retries a transient failure, as a new query with the same  *)
(* arguments and a later clock; any other failure ends the call.           *)
CollectFails(c) ==
    /\ caller[c].at = "collect"
    /\ \E code \in adapter[caller[c].op].errors \cup {"scope_violation"} :
          caller' = [caller EXCEPT ![c] =
                       IF code \in retryable /\ @.attempt < max_attempts_per_call
                         THEN [at |-> "scope", op |-> @.op, start |-> @.start,
                               end |-> @.end, attempt |-> @.attempt + 1]
                         ELSE Idle]
    /\ UNCHANGED <<records, refs, shown>>

insert_record(id, op) == [e \in DOMAIN records \cup {id} |->
                            IF e = id THEN op ELSE records[e]]

\* _persist: a fresh id.
Persist(c) ==
    /\ caller[c].at = "persist"
    /\ \E id \in EvidenceIds \ DOMAIN records :
          /\ records' = insert_record(id, caller[c].op)
          /\ caller' = [caller EXCEPT ![c] = [at |-> "register", id |-> id]]
    /\ UNCHANGED <<refs, shown>>

\* _register; incident-core's register_evidence_ref is idempotent by id.
Register(c) ==
    /\ caller[c].at = "register"
    /\ refs' = refs \cup {caller[c].id}
    /\ caller' = [caller EXCEPT ![c].at = "return"]
    /\ UNCHANGED <<records, shown>>

\* The item is returned; the engine records it as a tool step.
Return(c) ==
    /\ caller[c].at = "return"
    /\ shown' = IF c = Investigation THEN shown \cup {caller[c].id} ELSE shown
    /\ caller' = [caller EXCEPT ![c] = Idle]
    /\ UNCHANGED <<records, refs>>

\* get_incident_evidence lists every record, registered or not.
ListRecords ==
    /\ shown' = shown \cup DOMAIN records
    /\ UNCHANGED <<records, refs, caller>>

\* The initial context lists the registered ones.
ListRefs ==
    /\ shown' = shown \cup refs
    /\ UNCHANGED <<records, refs, caller>>

\* The caller dies, or registration raises: what is persisted stays.
Abandon(c) ==
    /\ caller[c].at # "idle"
    /\ caller' = [caller EXCEPT ![c] = Idle]
    /\ UNCHANGED <<records, refs, shown>>

EvidenceNext ==
    \/ \E c \in Callers : Query(c) \/ Resolve(c) \/ Refuse(c) \/ Collect(c)
                             \/ CollectFails(c) \/ Persist(c) \/ Register(c)
                             \/ Return(c) \/ Abandon(c)
    \/ ListRecords \/ ListRefs

evidence_type(e) == adapter[records[e]].type

-----------------------------------------------------------------------------
(* Properties *)

(* The window an adapter is given starts within the lookback, ends by the  *)
(* clock of the attempt, has an admissible length and is no wider than the *)
(* caller named ("a caller can ask for less, never more", limits.py).  A   *)
(* query that names no instant is never refused, because the default fits  *)
(* the bounds however old the incident is.  What the adapter then reads is *)
(* another matter: it reaches back before the lookback, against limits.py  *)
(* ("no further"), by at most the longest telemetry window for a baseline, *)
(* and without limit for what was effective at the end of a change window. *)
WindowsFitBounds ==
    \A c \in Callers :
        LET q == caller[c] IN
        /\ q.at = "collect" /\ q.op \in windowed =>
              /\ q.window.start >= earliest /\ q.window.end <= q.now
              /\ q.window.end - q.window.start \in MIN_WINDOW..longest_window(q.op)
              /\ q.start # Unset => q.window.start >= q.start
              /\ q.end # Unset => q.window.end <= q.end
              /\ \/ oldest_read(q.op, q.window) >= earliest
                 \/ q.op = "metric_window"
                      /\ oldest_read(q.op, q.window) >= earliest - MAX_WINDOW
                 \/ q.op \in {"recent_deployments", "config_changes"}
        /\ q.at = "refused" => q.start # Unset \/ q.end # Unset

=============================================================================
