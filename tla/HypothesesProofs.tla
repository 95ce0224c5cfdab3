-------------------------- MODULE HypothesesProofs --------------------------
(***************************************************************************)
(* Theorems about Hypotheses and the Evidence it stands on, for every set  *)
(* of callers, services, evidence ids, hypothesis keys and criteria.       *)
(***************************************************************************)
EXTENDS Hypotheses, FiniteSetTheorems, TLAPS

-----------------------------------------------------------------------------
(* Windows *)

(* IncidentScope.window for every instant, every age of the incident and   *)
(* every default and maximum length: a query without a window is never     *)
(* refused.                                                                *)
LEMMA DefaultFits ==
    ASSUME NEW now \in Int, NEW default \in Int, NEW longest \in Int,
           CreatedAt <= now, MIN_WINDOW <= default, default <= longest
    PROVE  window(Unset, Unset, now, default, longest).error = "none"
<1> DEFINE s == resolved_start(Unset, now, default)
<1>0. earliest \in Int /\ earliest < now - MIN_WINDOW
  BY EvidenceAssumption DEF earliest, MAX_LOOKBACK_BEFORE_INCIDENT, MIN_WINDOW
<1>1. Smaller(IF Unset = Unset THEN now ELSE Unset, now) = now
  BY DEF Smaller
<1>2. /\ s \in Int
      /\ s >= earliest
      /\ s >= now - default
      /\ s = now - default \/ s = earliest
  BY <1>0 DEF resolved_start, Larger
<1>3. ~(s >= now \/ now - s > longest \/ now - s < MIN_WINDOW) /\ ~(s < earliest)
  BY <1>0, <1>2 DEF MIN_WINDOW
<1>4. window(Unset, Unset, now, default, longest)
        = [error |-> "none", start |-> s, end |-> now]
  BY <1>1, <1>3 DEF window
<1>5. QED
  BY <1>4

(* What IncidentScope.window returns: an error, or a window between the    *)
(* lookback and now, of an admissible length and no wider than asked for.  *)
Errors == [error : {"invalid_argument", "scope_violation"}]
Windows == [error : {"none"}, start : Int, end : Int]

LEMMA WindowFits ==
    ASSUME NEW start \in Int, NEW end \in Int, NEW now \in Int,
           NEW default \in Int, NEW longest \in Int
    PROVE  LET w == window(start, end, now, default, longest) IN
           /\ w \in Errors \cup Windows
           /\ w.error = "none" =>
                /\ w.start >= earliest /\ w.end <= now
                /\ w.end - w.start \in MIN_WINDOW..longest
                /\ start # Unset => w.start >= start
                /\ end # Unset => w.end <= end
<1> DEFINE e == Smaller(IF end = Unset THEN now ELSE end, now)
           s == resolved_start(start, e, default)
           w == window(start, end, now, default, longest)
<1>0. earliest \in Int
  BY EvidenceAssumption DEF earliest, MAX_LOOKBACK_BEFORE_INCIDENT
<1>1. e \in Int /\ e <= now /\ (end # Unset => e <= end)
  BY DEF Smaller
<1>2. s \in Int /\ (start # Unset => s = start)
  <2> HIDE DEF e
  <2>1. QED
    BY <1>0, <1>1 DEF resolved_start, Larger
<1>3. w = IF s >= e \/ e - s > longest \/ e - s < MIN_WINDOW
            THEN [error |-> "invalid_argument"]
          ELSE IF s < earliest
            THEN [error |-> "scope_violation"]
          ELSE [error |-> "none", start |-> s, end |-> e]
  BY DEF window
<1> HIDE DEF e, s, w
<1>4. w \in Errors \cup Windows
  BY <1>1, <1>2, <1>3 DEF Errors, Windows
<1>5. ASSUME w.error = "none"
      PROVE  /\ w.start >= earliest /\ w.end <= now
             /\ w.end - w.start \in MIN_WINDOW..longest
             /\ start # Unset => w.start >= start
             /\ end # Unset => w.end <= end
  <2>1. ~(s >= e \/ e - s > longest \/ e - s < MIN_WINDOW)
    BY <1>3, <1>5
  <2>2. ~(s < earliest)
    BY <1>3, <1>5, <2>1
  <2>3. w.start = s /\ w.end = e
    BY <1>3, <2>1, <2>2
  <2>4. QED
    BY <1>0, <1>1, <1>2, <2>1, <2>2, <2>3 DEF MIN_WINDOW
<1>6. QED
  BY <1>4, <1>5 DEF w

-----------------------------------------------------------------------------
(* Types *)

Asking == [at : {"scope"}, op : Operations, start : Int, end : Int, attempt : Nat]

Resolved == [at : {"collect", "refused"}, op : Operations, start : Int, end : Int,
             attempt : Nat, now : Int, window : Errors \cup Windows \cup [error : {"none"}]]

Querying ==
    {Idle} \cup Asking \cup Resolved
           \cup [at : {"persist"}, op : Operations]
           \cup [at : {"register", "return"}, id : EvidenceIds]

(* The window of a query is the one the service computed from the query's  *)
(* own arguments and the clock of this attempt.                            *)
WindowOK(q) ==
    q.at \in {"collect", "refused"} =>
        /\ q.now >= CreatedAt
        /\ q.window = bounds(q.op, q.start, q.end, q.now)
        /\ q.at = "collect" <=> q.window.error = "none"

(* A query under way asks an operation of the service within its window,   *)
(* and what it has persisted is a record.                                  *)
EvidenceOK ==
    /\ caller \in [Callers -> Querying]
    /\ \A c \in Callers : WindowOK(caller[c])
    /\ \A c \in Callers : caller[c].at \in {"register", "return"} =>
            caller[c].id \in DOMAIN records
    /\ DOMAIN records \subseteq EvidenceIds
    /\ \A e \in DOMAIN records : records[e] \in Operations
    /\ refs \subseteq DOMAIN records
    /\ shown \subseteq DOMAIN records

(* A hypothesis is a row of two columns, and every evidence linked to it   *)
(* was accessible when it was linked, so it is registered and was shown.   *)
RowOK(h) ==
    /\ h = [status |-> h.status, links |-> h.links]
    /\ h.status \in HypothesisStatus
    /\ DOMAIN h.links \subseteq refs \cap shown
    /\ \A e \in DOMAIN h.links : h.links[e] \in Relations

HypothesesOK ==
    /\ Considered \subseteq Keys
    /\ \A k \in Considered : RowOK(hypotheses[k])
    /\ rca # NoRca => rca.selected \in Considered
    /\ rca = NoRca => \A k \in Considered : hypotheses[k].status # "SELECTED"

TypeInv == EvidenceOK /\ HypothesesOK

LEMMA TypeInit == Init => TypeInv
<1> SUFFICES ASSUME Init PROVE TypeInv
  OBVIOUS
<1>1. EvidenceOK
  BY DEF Init, EvidenceInit, EvidenceOK, WindowOK, Querying, Idle
<1>2. HypothesesOK
  BY DEF Init, HypothesesOK, Considered
<1>3. QED
  BY <1>1, <1>2 DEF TypeInv

(* Every tool asks an operation of the evidence service. *)
LEMMA AsksOperations ==
    ASSUME NEW c, NEW op \in asks(c)
    PROVE  op \in Operations
<1>1. ASSUME NEW t \in DOMAIN TOOLS PROVE TOOLS[t] \in Operations
  BY DEF TOOLS, Operations, telemetry, changes_and_history
<1>2. QED
  BY <1>1 DEF asks

(* What evidence steps do to the records: none changes, none is lost. *)
Kept ==
    /\ DOMAIN records \subseteq DOMAIN records'
    /\ \A e \in DOMAIN records : records'[e] = records[e]
    /\ refs \subseteq refs'
    /\ shown \subseteq shown'

(* The window of an operation: what its default and its longest give.      *)
LEMMA BoundsFit ==
    ASSUME NEW op \in Operations, NEW start \in Int, NEW end \in Int, NEW now \in Int
    PROVE  LET w == bounds(op, start, end, now) IN
           /\ w \in Errors \cup Windows \cup [error : {"none"}]
           /\ op \in windowed /\ w.error = "none" =>
                /\ w.start >= earliest /\ w.end <= now
                /\ w.end - w.start \in MIN_WINDOW..longest_window(op)
                /\ start # Unset => w.start >= start
                /\ end # Unset => w.end <= end
           /\ now >= CreatedAt /\ start = Unset /\ end = Unset => w.error = "none"
<1>1. /\ default_window(op) \in Int /\ longest_window(op) \in Int
      /\ MIN_WINDOW <= default_window(op) /\ default_window(op) <= longest_window(op)
  BY DEF default_window, longest_window, MIN_WINDOW, MAX_WINDOW, DEFAULT_WINDOW,
         MAX_CHANGE_WINDOW
<1>2. CASE op \in windowed
  <2>1. bounds(op, start, end, now)
          = window(start, end, now, default_window(op), longest_window(op))
    BY <1>2 DEF bounds
  <2>2. now >= CreatedAt =>
            window(Unset, Unset, now, default_window(op), longest_window(op)).error = "none"
    BY <1>1, DefaultFits, EvidenceAssumption
  <2>3. QED
    BY <1>1, <2>1, <2>2, WindowFits
<1>3. CASE op \notin windowed
  BY <1>3 DEF bounds
<1>4. QED
  BY <1>2, <1>3

LEMMA EvidenceStep ==
    ASSUME EvidenceOK, EvidenceNext
    PROVE  EvidenceOK' /\ Kept
<1> USE DEF EvidenceOK, Kept
<1>0. /\ Idle \in Querying /\ Idle.at = "idle"
      /\ \A q : q.at \notin {"collect", "refused"} => WindowOK(q)
  BY DEF Querying, Idle, WindowOK
<1>1. ASSUME NEW c \in Callers, Query(c) PROVE EvidenceOK' /\ Kept
  <2>1. PICK op \in asks(c) : \E start \in starts(op), end \in ends(op) :
            caller' = [caller EXCEPT ![c] = [at |-> "scope", op |-> op, start |-> start,
                                             end |-> end, attempt |-> 1]]
    BY <1>1 DEF Query
  <2>2. PICK start \in starts(op), end \in ends(op) :
            caller' = [caller EXCEPT ![c] = [at |-> "scope", op |-> op, start |-> start,
                                             end |-> end, attempt |-> 1]]
    BY <2>1
  <2> DEFINE q == [at |-> "scope", op |-> op, start |-> start, end |-> end, attempt |-> 1]
  <2>3. start \in Int /\ end \in Int
    BY EvidenceAssumption DEF starts, ends, Unset
  <2>4. q \in Querying /\ q.at = "scope"
    BY <2>3, AsksOperations DEF Querying, Asking
  <2>5. WindowOK(q)
    BY <1>0, <2>4
  <2>6. caller' = [caller EXCEPT ![c] = q] /\ UNCHANGED <<records, refs, shown>>
    BY <1>1, <2>2 DEF Query
  <2> HIDE DEF q
  <2>7. QED
    BY <2>4, <2>5, <2>6
<1>1a. ASSUME NEW c \in Callers, Resolve(c) PROVE EvidenceOK' /\ Kept
  <2>1. caller[c] \in Asking
    BY <1>1a DEF Resolve, Querying, Idle, Resolved
  <2>2. PICK now \in {t \in Instants : t >= CreatedAt} :
            LET w == bounds(caller[c].op, caller[c].start, caller[c].end, now)
            IN caller' = [caller EXCEPT ![c] =
                            [at |-> IF w.error = "none" THEN "collect" ELSE "refused",
                             op |-> caller[c].op, start |-> caller[c].start,
                             end |-> caller[c].end, attempt |-> caller[c].attempt,
                             now |-> now, window |-> w]]
    BY <1>1a DEF Resolve
  <2> DEFINE w == bounds(caller[c].op, caller[c].start, caller[c].end, now)
             q == [at |-> IF w.error = "none" THEN "collect" ELSE "refused",
                   op |-> caller[c].op, start |-> caller[c].start,
                   end |-> caller[c].end, attempt |-> caller[c].attempt,
                   now |-> now, window |-> w]
  <2>3. now \in Int /\ now >= CreatedAt
    BY <2>2, EvidenceAssumption
  <2>4. w \in Errors \cup Windows \cup [error : {"none"}]
    BY <2>1, <2>3, BoundsFit DEF Asking
  <2>5. caller' = [caller EXCEPT ![c] = q] /\ UNCHANGED <<records, refs, shown>>
    BY <1>1a, <2>2 DEF Resolve
  <2> HIDE DEF w
  <2>6. q \in Querying /\ q.at \in {"collect", "refused"}
    BY <2>1, <2>3, <2>4 DEF Querying, Asking, Resolved
  <2>7. WindowOK(q)
    BY <2>3 DEF WindowOK, w
  <2> HIDE DEF q
  <2>8. QED
    BY <2>5, <2>6, <2>7
<1>2. ASSUME NEW c \in Callers, Collect(c) PROVE EvidenceOK' /\ Kept
  <2>1. caller[c].op \in Operations
    BY <1>2 DEF Collect, Querying, Idle, Asking, Resolved
  <2> DEFINE q == [at |-> "persist", op |-> caller[c].op]
  <2>2. q \in Querying /\ q.at = "persist"
    BY <2>1 DEF Querying
  <2>3. WindowOK(q)
    BY <1>0, <2>2
  <2>4. caller' = [caller EXCEPT ![c] = q] /\ UNCHANGED <<records, refs, shown>>
    BY <1>2 DEF Collect
  <2> HIDE DEF q
  <2>5. QED
    BY <2>2, <2>3, <2>4
<1>3. ASSUME NEW c \in Callers, CollectFails(c) PROVE EvidenceOK' /\ Kept
  <2>1. caller[c] \in Resolved
    BY <1>3 DEF CollectFails, Querying, Idle, Asking
  <2> DEFINE again == [at |-> "scope", op |-> caller[c].op, start |-> caller[c].start,
                       end |-> caller[c].end, attempt |-> caller[c].attempt + 1]
  <2>2. PICK q \in {again, Idle} : caller' = [caller EXCEPT ![c] = q]
    <3>1. PICK code \in adapter[caller[c].op].errors \cup {"scope_violation"} :
              caller' = [caller EXCEPT ![c] =
                IF code \in retryable /\ @.attempt < max_attempts_per_call
                  THEN [at |-> "scope", op |-> @.op, start |-> @.start,
                        end |-> @.end, attempt |-> @.attempt + 1]
                  ELSE Idle]
      BY <1>3, Zenon DEF CollectFails
    <3>2. CASE code \in retryable /\ caller[c].attempt < max_attempts_per_call
      BY <3>1, <3>2
    <3>3. CASE ~(code \in retryable /\ caller[c].attempt < max_attempts_per_call)
      BY <3>1, <3>3
    <3>4. QED
      BY <3>2, <3>3
  <2>3. again \in Querying /\ again.at = "scope"
    BY <2>1 DEF Querying, Asking, Resolved
  <2>4. q \in Querying /\ q.at \in {"scope", "idle"}
    BY <1>0, <2>2, <2>3
  <2>5. WindowOK(q)
    BY <1>0, <2>4
  <2>6. UNCHANGED <<records, refs, shown>>
    BY <1>3 DEF CollectFails
  <2>7. QED
    BY <2>2, <2>4, <2>5, <2>6
<1>4. ASSUME NEW c \in Callers, Persist(c) PROVE EvidenceOK' /\ Kept
  <2>1. PICK id \in EvidenceIds \ DOMAIN records :
            /\ records' = insert_record(id, caller[c].op)
            /\ caller' = [caller EXCEPT ![c] = [at |-> "register", id |-> id]]
    BY <1>4 DEF Persist
  <2>2. caller[c].op \in Operations
    BY <1>4 DEF Persist, Querying, Idle, Asking, Resolved
  <2>3. [at |-> "register", id |-> id] \in Querying
    BY DEF Querying
  <2>4. /\ DOMAIN records' = DOMAIN records \cup {id}
        /\ \A e \in DOMAIN records' :
                records'[e] = IF e = id THEN caller[c].op ELSE records[e]
    BY <2>1 DEF insert_record
  <2>5. UNCHANGED <<refs, shown>>
    BY <1>4 DEF Persist
  <2>6. \A d \in Callers : caller'[d].at \in {"register", "return"} =>
            caller'[d].id \in DOMAIN records'
    BY <2>1, <2>4
  <2>7. caller' \in [Callers -> Querying]
    BY <2>1, <2>3
  <2>8. WindowOK([at |-> "register", id |-> id])
    BY <1>0
  <2>9. \A d \in Callers : WindowOK(caller'[d])
    BY <2>1, <2>8
  <2>10. QED
    BY <2>2, <2>4, <2>5, <2>6, <2>7, <2>9
<1>5. ASSUME NEW c \in Callers, Register(c) PROVE EvidenceOK' /\ Kept
  <2>1. /\ caller[c] \in [at : {"register", "return"}, id : EvidenceIds]
        /\ caller[c].id \in DOMAIN records
    BY <1>5 DEF Register, Querying, Idle, Asking, Resolved
  <2>2. [caller[c] EXCEPT !.at = "return"] \in Querying
        /\ [caller[c] EXCEPT !.at = "return"].id = caller[c].id
    BY <2>1 DEF Querying
  <2>3. caller' = [caller EXCEPT ![c] = [caller[c] EXCEPT !.at = "return"]]
    BY <1>5 DEF Register
  <2>4. refs' = refs \cup {caller[c].id} /\ UNCHANGED <<records, shown>>
    BY <1>5 DEF Register
  <2>5. \A d \in Callers : caller'[d].at \in {"register", "return"} =>
            caller'[d].id \in DOMAIN records'
    BY <2>1, <2>2, <2>3, <2>4
  <2>6. caller' \in [Callers -> Querying]
    BY <2>2, <2>3
  <2>7. WindowOK([caller[c] EXCEPT !.at = "return"])
    BY <1>0, <2>1
  <2>8. \A d \in Callers : WindowOK(caller'[d])
    BY <2>3, <2>7
  <2>9. QED
    BY <2>1, <2>4, <2>5, <2>6, <2>8
<1>6. ASSUME NEW c \in Callers, Return(c) \/ Abandon(c) \/ Refuse(c) PROVE EvidenceOK' /\ Kept
  <2>1. /\ caller' = [caller EXCEPT ![c] = Idle]
        /\ UNCHANGED <<records, refs>>
        /\ shown' = shown \/ (caller[c].at = "return" /\ shown' = shown \cup {caller[c].id})
    BY <1>6 DEF Return, Abandon, Refuse
  <2>2. Idle \in Querying /\ Idle.at = "idle" /\ WindowOK(Idle)
    BY <1>0
  <2>3. QED
    BY <2>1, <2>2
<1>7. CASE ListRecords \/ ListRefs
  BY <1>7 DEF ListRecords, ListRefs
<1>8. QED
  BY <1>1, <1>1a, <1>2, <1>3, <1>4, <1>5, <1>6, <1>7 DEF EvidenceNext

(* What an update writes: the row of its key, with the links it had kept   *)
(* as they were and accessible evidence added.                             *)
LEMMA Updates ==
    ASSUME HypothesesOK, apply_hypothesis_updates
    PROVE  \E key \in Keys :
           /\ rca = NoRca
           /\ UNCHANGED <<evidence_vars, rca>>
           /\ DOMAIN hypotheses' = Considered \cup {key}
           /\ \A k \in Considered \ {key} : hypotheses'[k] = hypotheses[k]
           /\ RowOK(hypotheses'[key])
           /\ hypotheses'[key].status # "SELECTED"
           /\ key \in Considered =>
                /\ hypotheses[key].status \notin {"REJECTED", "SELECTED"}
                /\ \A e \in DOMAIN hypotheses[key].links :
                        /\ e \in DOMAIN hypotheses'[key].links
                        /\ hypotheses'[key].links[e] = hypotheses[key].links[e]
<1>0. PICK key \in Keys, status \in MODEL_SETTABLE_HYPOTHESIS_STATUSES \cup {Keep},
           s \in Cites, c \in Cites :
          /\ check_hypothesis_update(Update(key, status, s, c))
          /\ hypotheses' = apply_update(Update(key, status, s, c))
  BY DEF apply_hypothesis_updates
<1> DEFINE u == Update(key, status, s, c)
           old == existing(key)
           links == add_links(old.links, u)
           st == IF status = Keep THEN old.status ELSE status
           row == [status |-> st, links |-> links]
<1>1. u.key = key /\ u.status = status /\ u.supports = s /\ u.contradicts = c
  BY DEF Update
<1>2. /\ old.status \in HypothesisStatus \ {"REJECTED", "SELECTED"}
      /\ DOMAIN old.links \subseteq refs \cap shown
      /\ \A e \in DOMAIN old.links : old.links[e] \in Relations
  <2>1. CASE key \in Considered
    BY <1>0, <1>1, <2>1 DEF existing, HypothesesOK, RowOK, check_hypothesis_update
  <2>2. CASE key \notin Considered
    BY <2>2 DEF existing, New, HypothesisStatus, MODEL_SETTABLE_HYPOTHESIS_STATUSES
  <2>3. QED
    BY <2>1, <2>2
<1>3. s \cup c \subseteq refs \cap shown
  BY <1>0, <1>1 DEF check_hypothesis_update, accessible_evidence
<1>4. /\ DOMAIN links = DOMAIN old.links \cup s \cup c
      /\ \A e \in DOMAIN links : links[e] \in Relations
      /\ \A e \in DOMAIN old.links : links[e] = old.links[e]
  <2> HIDE DEF u, old
  <2>1. QED
    BY <1>1, <1>2 DEF add_links, Relations
<1>5. st \in HypothesisStatus /\ st # "SELECTED"
  <2> HIDE DEF old
  <2>1. QED
    BY <1>2 DEF HypothesisStatus, MODEL_SETTABLE_HYPOTHESIS_STATUSES, Keep
<1>6. hypotheses' = [k \in Considered \cup {key} |->
                            IF k = key THEN row ELSE hypotheses[k]]
  BY <1>0 DEF apply_update, Update
<1>7. key \in Considered => old = hypotheses[key]
  BY DEF existing
<1> HIDE DEF old, links, st, u
<1>8. RowOK(row)
  BY <1>2, <1>3, <1>4, <1>5 DEF RowOK
<1>9. row.status = st /\ row.links = links
  OBVIOUS
<1> HIDE DEF row
<1>10. hypotheses'[key] = row
  BY <1>6
<1>11. rca = NoRca /\ UNCHANGED <<evidence_vars, rca>>
  BY DEF apply_hypothesis_updates
<1>12. QED
  BY <1>2, <1>4, <1>5, <1>6, <1>7, <1>8, <1>9, <1>10, <1>11

(* What complete writes: the selected row's status and the conclusion.     *)
LEMMA Concludes ==
    ASSUME HypothesesOK, complete
    PROVE  \E key \in Considered : \E root, noted :
           LET draft == RcaDraft(key, root, noted) IN
           /\ rca = NoRca
           /\ draft.cited \subseteq refs \cap shown
           /\ evaluate_conclusion(draft)
           /\ rca' = draft
           /\ DOMAIN hypotheses' = Considered
           /\ hypotheses'[key].status = "SELECTED"
           /\ hypotheses'[key].links = hypotheses[key].links
           /\ RowOK(hypotheses'[key])
           /\ \A k \in Considered \ {key} : hypotheses'[k] = hypotheses[k]
           /\ UNCHANGED evidence_vars
<1>1. PICK key \in Keys, root \in SUBSET EvidenceIds, noted \in SUBSET EvidenceIds :
          /\ ungrounded_ids(RcaDraft(key, root, noted).cited) = {}
          /\ evaluate_conclusion(RcaDraft(key, root, noted))
          /\ hypotheses' = [hypotheses EXCEPT ![key].status = "SELECTED"]
          /\ rca' = RcaDraft(key, root, noted)
  BY DEF complete
<1> DEFINE draft == RcaDraft(key, root, noted)
<1>2. draft.selected = key /\ draft.cited = root \cup noted
  BY DEF RcaDraft
<1>3. key \in Considered
  BY <1>1, <1>2 DEF evaluate_conclusion
<1>4. draft.cited \subseteq refs \cap shown
  BY <1>1 DEF ungrounded_ids, accessible_evidence
<1>5. RowOK(hypotheses[key])
  BY <1>3 DEF HypothesesOK
<1>6. [hypotheses[key] EXCEPT !.status = "SELECTED"]
        = [status |-> "SELECTED", links |-> hypotheses[key].links]
  BY <1>5 DEF RowOK
<1>7. hypotheses' = [k \in Considered |->
        IF k = key THEN [status |-> "SELECTED", links |-> hypotheses[key].links]
                   ELSE hypotheses[k]]
  BY <1>1, <1>6 DEF Considered
<1>8. RowOK([status |-> "SELECTED", links |-> hypotheses[key].links])
  BY <1>5 DEF RowOK, HypothesisStatus
<1>9. rca = NoRca /\ UNCHANGED evidence_vars
  BY DEF complete
<1>10. /\ DOMAIN hypotheses' = Considered
       /\ hypotheses'[key] = [status |-> "SELECTED", links |-> hypotheses[key].links]
       /\ \A k \in Considered \ {key} : hypotheses'[k] = hypotheses[k]
  BY <1>3, <1>7
<1>11. /\ hypotheses'[key].status = "SELECTED"
       /\ hypotheses'[key].links = hypotheses[key].links
       /\ RowOK(hypotheses'[key])
  BY <1>8, <1>10
<1> HIDE DEF draft
<1>12. QED
  BY <1>1, <1>3, <1>4, <1>9, <1>10, <1>11 DEF draft

(* A conclusion is not the absence of one. *)
LEMMA DraftIsRca ==
    ASSUME NEW key, NEW root, NEW noted
    PROVE  RcaDraft(key, root, noted) # NoRca
<1>1. "cited" \in DOMAIN RcaDraft(key, root, noted)
  BY DEF RcaDraft
<1>2. "cited" \notin DOMAIN NoRca
  BY DEF NoRca
<1>3. QED
  BY <1>1, <1>2

(* A row that was in order stays so while the evidence only grows. *)
LEMMA RowKept ==
    ASSUME NEW h, RowOK(h), Kept
    PROVE  /\ h = [status |-> h.status, links |-> h.links]
           /\ h.status \in HypothesisStatus
           /\ DOMAIN h.links \subseteq refs' \cap shown'
           /\ \A e \in DOMAIN h.links : h.links[e] \in Relations
  BY DEF RowOK, Kept

LEMMA TypeStep == TypeInv /\ [Next]_vars => TypeInv'
<1> SUFFICES ASSUME TypeInv, [Next]_vars PROVE TypeInv'
  OBVIOUS
<1>0. EvidenceOK /\ HypothesesOK
  BY DEF TypeInv
<1>1. CASE EvidenceNext /\ UNCHANGED <<hypotheses, rca>>
  <2>1. EvidenceOK' /\ Kept
    BY <1>0, <1>1, EvidenceStep
  <2>2. ASSUME NEW k \in Considered PROVE RowOK(hypotheses[k])'
    BY <1>0, <1>1, <2>1, <2>2, RowKept DEF HypothesesOK, RowOK
  <2>3. HypothesesOK'
    BY <1>0, <1>1, <2>2 DEF HypothesesOK, Considered
  <2>4. QED
    BY <2>1, <2>3 DEF TypeInv
<1>2. ASSUME UNCHANGED evidence_vars PROVE EvidenceOK'
  BY <1>0, <1>2 DEF evidence_vars, EvidenceOK
<1>3. CASE apply_hypothesis_updates
  <2>1. PICK key \in Keys :
            /\ rca = NoRca
            /\ UNCHANGED <<evidence_vars, rca>>
            /\ DOMAIN hypotheses' = Considered \cup {key}
            /\ \A k \in Considered \ {key} : hypotheses'[k] = hypotheses[k]
            /\ RowOK(hypotheses'[key])
            /\ hypotheses'[key].status # "SELECTED"
    BY <1>0, <1>3, Updates
  <2>4. UNCHANGED <<refs, shown>>
    BY <2>1 DEF evidence_vars
  <2>5. ASSUME NEW k \in DOMAIN hypotheses'
        PROVE  RowOK(hypotheses[k])' /\ hypotheses'[k].status # "SELECTED"
    <3>1. RowOK(hypotheses'[k]) /\ hypotheses'[k].status # "SELECTED"
      BY <1>0, <2>1 DEF HypothesesOK
    <3>2. QED
      BY <2>4, <3>1 DEF RowOK
  <2>6. HypothesesOK'
    BY <1>0, <2>1, <2>5 DEF HypothesesOK, Considered
  <2>7. QED
    BY <1>2, <2>1, <2>6 DEF TypeInv
<1>4. CASE complete
  <2>1. PICK key, root, noted :
            /\ key \in Considered
            /\ rca' = RcaDraft(key, root, noted)
            /\ DOMAIN hypotheses' = Considered
            /\ RowOK(hypotheses'[key])
            /\ \A k \in Considered \ {key} : hypotheses'[k] = hypotheses[k]
            /\ UNCHANGED evidence_vars
    BY <1>0, <1>4, Concludes
  <2>2. UNCHANGED <<refs, shown>>
    BY <2>1 DEF evidence_vars
  <2>3. ASSUME NEW k \in Considered PROVE RowOK(hypotheses[k])'
    <3>1. RowOK(hypotheses'[k])
      BY <1>0, <2>1 DEF HypothesesOK
    <3>2. QED
      BY <2>2, <3>1 DEF RowOK
  <2>4. rca' # NoRca /\ rca'.selected = key
    BY <2>1, DraftIsRca DEF RcaDraft
  <2>5. HypothesesOK'
    BY <1>0, <2>1, <2>3, <2>4 DEF HypothesesOK, Considered
  <2>6. QED
    BY <1>2, <2>1, <2>5 DEF TypeInv
<1>5. CASE UNCHANGED vars
  <2>1. EvidenceOK'
    BY <1>2, <1>5 DEF vars
  <2>2. UNCHANGED <<hypotheses, rca, refs, shown>>
    BY <1>5 DEF vars, evidence_vars
  <2>3. HypothesesOK'
    BY <1>0, <2>2 DEF HypothesesOK, Considered, RowOK
  <2>4. QED
    BY <2>1, <2>3 DEF TypeInv
<1>6. QED
  BY <1>1, <1>3, <1>4, <1>5 DEF Next

LEMMA TypeAlways == Spec => []TypeInv
  BY TypeInit, TypeStep, PTL DEF Spec

(* In every reachable state, for any callers, clocks and arguments and an  *)
(* incident of any age: the window an adapter is given lies within the     *)
(* lookback, ends by the clock of that attempt, has an admissible length   *)
(* and is no wider than asked for, and a query that names no instant is    *)
(* never refused (IncidentScope.window under EvidenceService._run).        *)
THEOREM WindowsFit == Spec => []WindowsFitBounds
<1>1. TypeInv => WindowsFitBounds
  <2> SUFFICES ASSUME EvidenceOK, NEW c \in Callers
               PROVE  LET q == caller[c] IN
                      /\ q.at = "collect" /\ q.op \in windowed =>
                            /\ q.window.start >= earliest /\ q.window.end <= q.now
                            /\ q.window.end - q.window.start
                                  \in MIN_WINDOW..longest_window(q.op)
                            /\ q.start # Unset => q.window.start >= q.start
                            /\ q.end # Unset => q.window.end <= q.end
                            /\ \/ oldest_read(q.op, q.window) >= earliest
                               \/ q.op = "metric_window"
                                    /\ oldest_read(q.op, q.window) >= earliest - MAX_WINDOW
                               \/ q.op \in {"recent_deployments", "config_changes"}
                      /\ q.at = "refused" => q.start # Unset \/ q.end # Unset
    BY DEF TypeInv, WindowsFitBounds
  <2>1. CASE caller[c].at \in {"collect", "refused"}
    <3>1. /\ caller[c].op \in Operations /\ caller[c].start \in Int
          /\ caller[c].end \in Int /\ caller[c].now \in Int
      BY <2>1 DEF EvidenceOK, Querying, Idle, Asking, Resolved
    <3>2. /\ caller[c].now >= CreatedAt
          /\ caller[c].window
                = bounds(caller[c].op, caller[c].start, caller[c].end, caller[c].now)
          /\ caller[c].at = "collect" <=> caller[c].window.error = "none"
      BY <2>1 DEF EvidenceOK, WindowOK
    <3>3. ASSUME caller[c].at = "collect", caller[c].op \in windowed
          PROVE  \/ oldest_read(caller[c].op, caller[c].window) >= earliest
                 \/ caller[c].op = "metric_window"
                      /\ oldest_read(caller[c].op, caller[c].window) >= earliest - MAX_WINDOW
                 \/ caller[c].op \in {"recent_deployments", "config_changes"}
      <4> DEFINE w == caller[c].window
      <4>1. /\ w.start >= earliest
            /\ w.end - w.start \in MIN_WINDOW..longest_window(caller[c].op)
        BY <3>1, <3>2, <3>3, BoundsFit
      <4>2. w.start \in Int /\ w.end \in Int
        BY <3>1, <3>2, <3>3, EvidenceAssumption DEF bounds, window, resolved_start, Larger,
           Smaller, earliest, MAX_LOOKBACK_BEFORE_INCIDENT, default_window,
           DEFAULT_WINDOW, MIN_WINDOW, MAX_CHANGE_WINDOW
      <4>3. earliest \in Int
        BY EvidenceAssumption DEF earliest, MAX_LOOKBACK_BEFORE_INCIDENT
      <4> HIDE DEF w
      <4>4. CASE caller[c].op = "metric_window"
        <5>1. oldest_read("metric_window", w) = w.start - (w.end - w.start)
          BY DEF oldest_read
        <5>2. longest_window("metric_window") = MAX_WINDOW
          BY DEF longest_window, change_sources
        <5>3. QED
          BY <4>1, <4>2, <4>3, <4>4, <5>1, <5>2 DEF MIN_WINDOW, MAX_WINDOW, w
      <4>5. CASE caller[c].op = "service_health"
        <5>1. oldest_read("service_health", w) = w.end
          BY DEF oldest_read
        <5>2. longest_window("service_health") = MAX_WINDOW
          BY DEF longest_window, change_sources
        <5>3. QED
          BY <4>1, <4>2, <4>3, <4>5, <5>1, <5>2 DEF MIN_WINDOW, MAX_WINDOW, w
      <4>6. CASE caller[c].op \in {"logs", "trace_search", "code_changes"}
        <5>1. oldest_read(caller[c].op, w) = w.start
          BY <4>6 DEF oldest_read
        <5>2. QED
          BY <4>1, <5>1 DEF w
      <4>7. QED
        BY <3>3, <4>4, <4>5, <4>6 DEF windowed, change_sources
    <3>4. QED
      BY <2>1, <3>1, <3>2, <3>3, BoundsFit
  <2>2. CASE caller[c].at \notin {"collect", "refused"}
    BY <2>2
  <2>3. QED
    BY <2>1, <2>2
<1>2. QED
  BY <1>1, TypeAlways, PTL

(* Records, references, links and the conclusion stay in the states the    *)
(* schema knows: a hypothesis is linked to registered evidence only, and   *)
(* the conclusion selects a hypothesis that was considered.                *)
THEOREM TypeCorrect == Spec => []TypeOK
<1>1. DOMAIN adapter = Operations
  BY DEF adapter
<1>2. TypeInv => TypeOK
  <2> SUFFICES ASSUME TypeInv PROVE TypeOK
    OBVIOUS
  <2>1. Range(records) \subseteq DOMAIN adapter
    BY <1>1 DEF Range, TypeInv, EvidenceOK
  <2>2. \A k \in Considered : /\ hypotheses[k].status \in HypothesisStatus
                             /\ DOMAIN hypotheses[k].links \subseteq refs
                             /\ Range(hypotheses[k].links) \subseteq Relations
    BY DEF Range, TypeInv, HypothesesOK, RowOK
  <2>3. QED
    BY <2>1, <2>2 DEF TypeOK, TypeInv, EvidenceOK, HypothesesOK
<1>3. QED
  BY <1>2, TypeAlways, PTL

-----------------------------------------------------------------------------
(* The conclusion *)

(* Records are inserted one at a time: there are finitely many, however    *)
(* many ids there are.                                                     *)
RecordsFinite == IsFiniteSet(DOMAIN records)

LEMMA FiniteInit == Init => RecordsFinite
<1> SUFFICES ASSUME Init PROVE RecordsFinite
  OBVIOUS
<1>1. DOMAIN records = {}
  BY DEF Init, EvidenceInit
<1>2. QED
  BY <1>1, FS_EmptySet DEF RecordsFinite

LEMMA FiniteStep == RecordsFinite /\ [Next]_vars => RecordsFinite'
<1> SUFFICES ASSUME RecordsFinite, [Next]_vars PROVE RecordsFinite'
  OBVIOUS
<1>1. ASSUME NEW c \in Callers, Persist(c) PROVE RecordsFinite'
  <2>1. PICK id : records' = insert_record(id, caller[c].op)
    BY <1>1 DEF Persist
  <2>2. DOMAIN records' = DOMAIN records \cup {id}
    BY <2>1 DEF insert_record
  <2>3. QED
    BY <2>2, FS_AddElement DEF RecordsFinite
<1>2. ASSUME UNCHANGED records PROVE RecordsFinite'
  BY <1>2 DEF RecordsFinite
<1>3. CASE EvidenceNext
  BY <1>1, <1>2, <1>3 DEF EvidenceNext, Query, Resolve, Refuse, Collect, CollectFails,
     Register, Return, Abandon, ListRecords, ListRefs
<1>4. CASE apply_hypothesis_updates \/ complete
  BY <1>2, <1>4 DEF apply_hypothesis_updates, complete, evidence_vars
<1>5. CASE UNCHANGED vars
  BY <1>2, <1>5 DEF vars, evidence_vars
<1>6. QED
  BY <1>3, <1>4, <1>5 DEF Next

(* The criteria of evaluate_conclusion are those of the theorem below.  In *)
(* particular a hypothesis nothing speaks against has supporting evidence, *)
(* because the criteria ask for at least one item of it.                   *)
LEMMA CriteriaHold ==
    ASSUME TypeInv, RecordsFinite, NEW key \in Considered, NEW root, NEW noted,
           evaluate_conclusion(RcaDraft(key, root, noted)),
           \A k \in Considered : hypotheses[k].status # "SELECTED"
    PROVE  LET h == hypotheses[key] IN
           /\ Cardinality({adapter[records[e]].type : e \in supporting(h)})
                >= MinSupportingEvidenceTypes
           /\ Cardinality(contradicting(h)) < Cardinality(supporting(h))
           /\ contradicting(h) \subseteq noted
           /\ \A k \in Considered \ {key} :
                    hypotheses[k].status \in {"WEAKENED", "REJECTED"}
<1> DEFINE h == hypotheses[key]
           draft == RcaDraft(key, root, noted)
<1>1. draft.selected = key /\ draft.noted = noted
  BY DEF RcaDraft
<1>2. /\ Cardinality(supporting(h)) >= MinSupportingEvidence
      /\ Cardinality({evidence_type(e) : e \in supporting(h)}) >= MinSupportingEvidenceTypes
      /\ \/ contradicting(h) = {}
         \/ Cardinality(supporting(h)) > Cardinality(contradicting(h))
      /\ contradicting(h) \subseteq noted
      /\ still_open(key) = {}
  BY <1>1, Zenon DEF evaluate_conclusion
<1>3. /\ IsFiniteSet(supporting(h)) /\ Cardinality(supporting(h)) \in Nat
      /\ IsFiniteSet(contradicting(h)) /\ Cardinality(contradicting(h)) \in Nat
  <2>1. supporting(h) \subseteq DOMAIN records /\ contradicting(h) \subseteq DOMAIN records
    BY DEF TypeInv, EvidenceOK, HypothesesOK, RowOK, supporting, contradicting, Linked
  <2>2. QED
    BY <2>1, FS_Subset, FS_CardinalityType DEF RecordsFinite
<1>4. Cardinality(contradicting(h)) < Cardinality(supporting(h))
  <2>1. CASE contradicting(h) = {}
    <3>1. Cardinality(contradicting(h)) = 0
      BY <2>1, FS_EmptySet
    <3>2. MinSupportingEvidence \in Nat \ {0}
      BY CriteriaAssumption
    <3>3. QED
      BY <1>2, <1>3, <3>1, <3>2
  <2>2. CASE Cardinality(supporting(h)) > Cardinality(contradicting(h))
    BY <1>3, <2>2
  <2>3. QED
    BY <1>2, <2>1, <2>2
<1>5. ASSUME NEW k \in Considered \ {key}
      PROVE  hypotheses[k].status \in {"WEAKENED", "REJECTED"}
  <2>1. hypotheses[k].status \notin {"ACTIVE", "SUPPORTED", "SELECTED"}
    BY <1>2 DEF still_open
  <2>2. hypotheses[k].status \in HypothesisStatus
    BY DEF TypeInv, HypothesesOK, RowOK
  <2>3. QED
    BY <2>1, <2>2 DEF HypothesisStatus, MODEL_SETTABLE_HYPOTHESIS_STATUSES
<1>6. {adapter[records[e]].type : e \in supporting(h)}
        = {evidence_type(e) : e \in supporting(h)}
  BY DEF evidence_type
<1>7. QED
  BY <1>2, <1>4, <1>5, <1>6

LEMMA GroundedStep ==
    ASSUME TypeInv, RecordsFinite, ConclusionIsGrounded, [Next]_vars
    PROVE  ConclusionIsGrounded'
<1>0. EvidenceOK /\ HypothesesOK
  BY DEF TypeInv
<1>1. ASSUME Kept, UNCHANGED <<hypotheses, rca>> PROVE ConclusionIsGrounded'
  <2> SUFFICES ASSUME rca # NoRca
      PROVE  LET h == hypotheses[rca.selected] IN
             /\ rca.cited \cup DOMAIN h.links \subseteq refs' \cap shown'
             /\ Cardinality({adapter[records'[e]].type : e \in supporting(h)})
                    >= MinSupportingEvidenceTypes
             /\ Cardinality(contradicting(h)) < Cardinality(supporting(h))
             /\ contradicting(h) \subseteq rca.noted
             /\ \A k \in Considered : IF k = rca.selected THEN h.status = "SELECTED"
                        ELSE hypotheses[k].status \in {"WEAKENED", "REJECTED"}
    BY <1>1 DEF ConclusionIsGrounded, supporting, contradicting, Linked, Considered
  <2> DEFINE h == hypotheses[rca.selected]
  <2>1. /\ rca.cited \cup DOMAIN h.links \subseteq refs \cap shown
        /\ Cardinality({adapter[records[e]].type : e \in supporting(h)})
                >= MinSupportingEvidenceTypes
        /\ Cardinality(contradicting(h)) < Cardinality(supporting(h))
        /\ contradicting(h) \subseteq rca.noted
        /\ \A k \in Considered : IF k = rca.selected THEN h.status = "SELECTED"
                        ELSE hypotheses[k].status \in {"WEAKENED", "REJECTED"}
    BY DEF ConclusionIsGrounded
  <2>2. \A e \in supporting(h) : e \in DOMAIN records
    BY <1>0, <2>1 DEF EvidenceOK, supporting, Linked
  <2>3. \A e \in supporting(h) : records'[e] = records[e]
    BY <1>1, <2>2 DEF Kept
  <2>4. {adapter[records'[e]].type : e \in supporting(h)}
          = {adapter[records[e]].type : e \in supporting(h)}
    BY <2>3
  <2>5. rca.cited \cup DOMAIN h.links \subseteq refs' \cap shown'
    BY <1>1, <2>1 DEF Kept
  <2> HIDE DEF h
  <2>6. QED
    BY <2>1, <2>4, <2>5 DEF h
<1>2. CASE EvidenceNext /\ UNCHANGED <<hypotheses, rca>>
  BY <1>0, <1>1, <1>2, EvidenceStep
<1>3. CASE apply_hypothesis_updates
  BY <1>3 DEF apply_hypothesis_updates, ConclusionIsGrounded
<1>4. CASE complete
  <2>1. PICK key, root, noted :
            /\ key \in Considered
            /\ rca = NoRca
            /\ RcaDraft(key, root, noted).cited \subseteq refs \cap shown
            /\ evaluate_conclusion(RcaDraft(key, root, noted))
            /\ rca' = RcaDraft(key, root, noted)
            /\ DOMAIN hypotheses' = Considered
            /\ hypotheses'[key].status = "SELECTED"
            /\ hypotheses'[key].links = hypotheses[key].links
            /\ \A k \in Considered \ {key} : hypotheses'[k] = hypotheses[k]
            /\ UNCHANGED evidence_vars
    BY <1>0, <1>4, Concludes
  <2> DEFINE h == hypotheses[key]
             g == hypotheses'[key]
  <2>2. /\ Cardinality({adapter[records[e]].type : e \in supporting(h)})
                >= MinSupportingEvidenceTypes
        /\ Cardinality(contradicting(h)) < Cardinality(supporting(h))
        /\ contradicting(h) \subseteq noted
        /\ \A k \in Considered \ {key} :
                    hypotheses[k].status \in {"WEAKENED", "REJECTED"}
    <3>1. \A k \in Considered : hypotheses[k].status # "SELECTED"
      BY <1>0, <2>1 DEF HypothesesOK
    <3>2. QED
      BY <2>1, <3>1, CriteriaHold
  <2>3. supporting(g) = supporting(h) /\ contradicting(g) = contradicting(h)
    BY <2>1 DEF supporting, contradicting, Linked
  <2>4. rca'.selected = key /\ rca'.noted = noted
    BY <2>1 DEF RcaDraft
  <2>5. UNCHANGED <<records, refs, shown>>
    BY <2>1 DEF evidence_vars
  <2>6. DOMAIN h.links \subseteq refs \cap shown
    BY <1>0, <2>1 DEF HypothesesOK, RowOK
  <2>7. \A k \in DOMAIN hypotheses' : IF k = key THEN g.status = "SELECTED"
                        ELSE hypotheses'[k].status \in {"WEAKENED", "REJECTED"}
    BY <2>1, <2>2
  <2>8. rca'.cited \cup DOMAIN g.links \subseteq refs' \cap shown'
    BY <2>1, <2>5, <2>6
  <2>9. /\ Cardinality({adapter[records'[e]].type : e \in supporting(g)})
                >= MinSupportingEvidenceTypes
        /\ Cardinality(contradicting(g)) < Cardinality(supporting(g))
        /\ contradicting(g) \subseteq rca'.noted
    <3> HIDE DEF g, h
    <3>1. QED
      BY <2>2, <2>3, <2>4, <2>5
  <2>10. QED
    BY <2>4, <2>7, <2>8, <2>9
       DEF ConclusionIsGrounded, supporting, contradicting, Linked, Considered
<1>5. CASE UNCHANGED vars
  <2>1. Kept /\ UNCHANGED <<hypotheses, rca>>
    BY <1>5 DEF vars, evidence_vars, Kept
  <2>2. QED
    BY <1>1, <2>1
<1>6. QED
  BY <1>2, <1>3, <1>4, <1>5 DEF Next

(* An accepted root cause stands, now and later, on registered evidence    *)
(* the investigation was shown, of as many kinds as the criteria ask,      *)
(* outweighs what contradicts it, explains that, and leaves no other       *)
(* explanation open (complete, evaluate_conclusion, _accessible_evidence), *)
(* whatever the callers, services, ids, keys and criteria.                 *)
THEOREM ConclusionGrounded == Spec => []ConclusionIsGrounded
<1>1. Init => ConclusionIsGrounded
  BY DEF Init, ConclusionIsGrounded
<1>2. TypeInv /\ RecordsFinite /\ ConclusionIsGrounded /\ [Next]_vars
        => ConclusionIsGrounded'
  BY GroundedStep
<1>3. Spec => []RecordsFinite
  BY FiniteInit, FiniteStep, PTL DEF Spec
<1>4. QED
  BY <1>1, <1>2, <1>3, TypeAlways, PTL DEF Spec

(* No step of any worker takes a link away, turns one round, changes a     *)
(* rejected hypothesis or anything after the conclusion                    *)
(* (apply_hypothesis_updates, complete).                                   *)
THEOREM HistoryKept == Spec => HistoryIsKept
<1> DEFINE Action ==
       /\ Considered \subseteq DOMAIN hypotheses'
       /\ \A k \in Considered :
             /\ \A e \in DOMAIN hypotheses[k].links :
                   /\ e \in DOMAIN hypotheses'[k].links
                   /\ hypotheses'[k].links[e] = hypotheses[k].links[e]
             /\ hypotheses[k].status \in {"REJECTED", "SELECTED"} =>
                   hypotheses'[k] = hypotheses[k]
       /\ rca # NoRca => rca' = rca /\ hypotheses' = hypotheses
<1>1. ASSUME TypeInv, [Next]_vars PROVE [Action]_vars
  <2>0. HypothesesOK
    BY <1>1 DEF TypeInv
  <2>1. CASE EvidenceNext /\ UNCHANGED <<hypotheses, rca>>
    BY <2>1 DEF Considered
  <2>2. CASE apply_hypothesis_updates
    <3>1. PICK key \in Keys :
           /\ rca = NoRca
           /\ DOMAIN hypotheses' = Considered \cup {key}
           /\ \A k \in Considered \ {key} : hypotheses'[k] = hypotheses[k]
           /\ key \in Considered =>
                /\ hypotheses[key].status \notin {"REJECTED", "SELECTED"}
                /\ \A e \in DOMAIN hypotheses[key].links :
                        /\ e \in DOMAIN hypotheses'[key].links
                        /\ hypotheses'[key].links[e] = hypotheses[key].links[e]
      BY <2>0, <2>2, Updates
    <3>2. QED
      BY <3>1
  <2>3. CASE complete
    <3>1. PICK key, root, noted :
           /\ key \in Considered
           /\ rca = NoRca
           /\ evaluate_conclusion(RcaDraft(key, root, noted))
           /\ DOMAIN hypotheses' = Considered
           /\ hypotheses'[key].links = hypotheses[key].links
           /\ \A k \in Considered \ {key} : hypotheses'[k] = hypotheses[k]
      BY <2>0, <2>3, Concludes
    <3>2. hypotheses[key].status = "SUPPORTED"
      BY <3>1 DEF evaluate_conclusion, RcaDraft
    <3>3. QED
      BY <3>1, <3>2
  <2>4. CASE UNCHANGED vars
    BY <2>4
  <2>5. QED
    BY <1>1, <2>1, <2>2, <2>3, <2>4 DEF Next
<1>2. TypeInv /\ [Next]_vars => [Action]_vars
  BY <1>1
<1>3. QED
  BY <1>2, TypeAlways, PTL DEF Spec, HistoryIsKept

=============================================================================
