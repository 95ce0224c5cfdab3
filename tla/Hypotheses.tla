----------------------------- MODULE Hypotheses -----------------------------
(***************************************************************************)
(* The hypotheses of one investigation and its conclusion: the rules of    *)
(* packages/domain/investigation.py, applied by apply_hypothesis_updates   *)
(* and complete of packages/incident/investigations.py over the evidence   *)
(* that module Evidence collects.                                          *)
(*                                                                         *)
(* A batch applies its updates one after the other in one transaction, and *)
(* only the fenced worker writes here: one action is one update.           *)
(* Descriptions, causes, rationales and missing evidence are left out: an  *)
(* update they disqualify is quarantined and changes nothing.              *)
(***************************************************************************)
EXTENDS Evidence, Functions

CONSTANTS
    Keys,                       \* hypothesis keys the model chooses from
    MaxCited,                   \* bound: evidence ids an update adds per relation
    MinHypothesesConsidered, MinSupportingEvidence,
    MinSupportingEvidenceTypes  \* StoppingCriteria

ASSUME CriteriaAssumption ==
    {MaxCited, MinHypothesesConsidered, MinSupportingEvidence,
     MinSupportingEvidenceTypes} \subseteq Nat \ {0}

VARIABLES
    hypotheses,  \* hypotheses and hypothesis_evidence_links, by key
    rca          \* the accepted conclusion, or NoRca

vars == <<evidence_vars, hypotheses, rca>>

NoRca == [selected |-> "none"]

MODEL_SETTABLE_HYPOTHESIS_STATUSES == {"ACTIVE", "SUPPORTED", "WEAKENED", "REJECTED"}
HypothesisStatus == MODEL_SETTABLE_HYPOTHESIS_STATUSES \cup {"SELECTED"}
Relations == {"supports", "contradicts"}

New == [status |-> "ACTIVE", links |-> <<>>]

Linked(h, relation) == {e \in DOMAIN h.links : h.links[e] = relation}
supporting(h) == Linked(h, "supports")
contradicting(h) == Linked(h, "contradicts")

Init ==
    /\ EvidenceInit
    /\ hypotheses = <<>>
    /\ rca = NoRca

Considered == DOMAIN hypotheses
existing(key) == IF key \in Considered THEN hypotheses[key] ELSE New

Faulty_accessible_evidence == shown

\* _accessible_evidence: shown by the trace and registered for the incident.
accessible_evidence == shown \cap refs

-----------------------------------------------------------------------------
(* Hypothesis updates *)

Cites == {ids \in SUBSET EvidenceIds : Cardinality(ids) <= MaxCited}

Faulty_check_hypothesis_update(u) ==
    /\ u.supports \cup u.contradicts \subseteq accessible_evidence
    /\ u.supports \cap u.contradicts = {}
    /\ u.status = "REJECTED" => u.contradicts \cup contradicting(existing(u.key)) # {}
    /\ u.status = "SUPPORTED" => u.supports \cup supporting(existing(u.key)) # {}

\* No problem found: the update is applied as a whole.
check_hypothesis_update(u) ==
    /\ u.supports \cup u.contradicts \subseteq accessible_evidence
    /\ u.supports \cap u.contradicts = {}
    /\ existing(u.key).status \notin {"REJECTED", "SELECTED"}
    /\ u.status = "REJECTED" => u.contradicts \cup contradicting(existing(u.key)) # {}
    /\ u.status = "SUPPORTED" => u.supports \cup supporting(existing(u.key)) # {}

\* ON CONFLICT DO NOTHING: a link keeps the relation it was created with.
add_links(links, u) ==
    [e \in DOMAIN links \cup u.supports \cup u.contradicts |->
        IF e \in DOMAIN links THEN links[e]
        ELSE IF e \in u.supports THEN "supports"
        ELSE "contradicts"]

Keep == "keep"  \* update.status is None

apply_update(u) ==
    LET old == existing(u.key)
        new == [status |-> IF u.status = Keep THEN old.status ELSE u.status,
                links |-> add_links(old.links, u)]
    IN [k \in Considered \cup {u.key} |-> IF k = u.key THEN new ELSE hypotheses[k]]

Update(key, status, supports, contradicts) ==
    [key |-> key, status |-> status, supports |-> supports, contradicts |-> contradicts]

apply_hypothesis_updates ==
    /\ rca = NoRca
    /\ caller[Investigation].at = "idle"
    /\ \E key \in Keys, status \in MODEL_SETTABLE_HYPOTHESIS_STATUSES \cup {Keep},
          s \in Cites, c \in Cites :
          LET u == Update(key, status, s, c) IN
          /\ check_hypothesis_update(u)
          /\ hypotheses' = apply_update(u)
    /\ UNCHANGED <<evidence_vars, rca>>

-----------------------------------------------------------------------------
(* The conclusion *)

Faulty_still_open(key) == {k \in Considered \ {key} : hypotheses[k].status = "ACTIVE"}

still_open(key) ==
    {k \in Considered \ {key} : hypotheses[k].status \in {"ACTIVE", "SUPPORTED"}}

(* The draft of conclude_investigation: `root` are the ids of its grounded *)
(* sections, never empty, and `noted` the contradictions it explains.  The *)
(* confidence is the model's to choose.                                    *)
RcaDraft(key, root, noted) ==
    [selected |-> key, cited |-> root \cup noted, root |-> root, noted |-> noted]

evaluate_conclusion(draft) ==
    /\ draft.selected \in Considered
    /\ LET selected == hypotheses[draft.selected] IN
       /\ selected.status = "SUPPORTED"
       /\ Cardinality(supporting(selected)) >= MinSupportingEvidence
       /\ Cardinality({evidence_type(e) : e \in supporting(selected)})
            >= MinSupportingEvidenceTypes
       /\ \/ contradicting(selected) = {}
          \/ Cardinality(supporting(selected)) > Cardinality(contradicting(selected))
       /\ contradicting(selected) \subseteq draft.noted
       /\ draft.root \cap supporting(selected) # {}
    /\ Cardinality(Considered) >= MinHypothesesConsidered
    /\ still_open(draft.selected) = {}

ungrounded_ids(cited) == cited \ accessible_evidence

complete ==
    /\ rca = NoRca
    /\ caller[Investigation].at = "idle"
    /\ \E key \in Keys, root, noted \in SUBSET EvidenceIds :
          LET draft == RcaDraft(key, root, noted) IN
          /\ root # {}
          /\ ungrounded_ids(draft.cited) = {}
          /\ evaluate_conclusion(draft)
          /\ hypotheses' = [hypotheses EXCEPT ![key].status = "SELECTED"]
          /\ rca' = draft
    /\ UNCHANGED evidence_vars

(* A quarantined update, a rejected conclusion and an escalation leave the *)
(* hypotheses and the evidence as they are: each is a stutter here.        *)
Next ==
    \/ EvidenceNext /\ UNCHANGED <<hypotheses, rca>>
    \/ apply_hypothesis_updates
    \/ complete

Spec == Init /\ [][Next]_vars

-----------------------------------------------------------------------------
(* Properties *)

\* Records, references, links and the conclusion are in the states the schema knows.
TypeOK ==
    /\ DOMAIN records \subseteq EvidenceIds
    /\ Range(records) \subseteq DOMAIN adapter
    /\ refs \subseteq DOMAIN records
    /\ shown \subseteq DOMAIN records
    /\ Considered \subseteq Keys
    /\ \A k \in Considered : /\ hypotheses[k].status \in HypothesisStatus
                             /\ DOMAIN hypotheses[k].links \subseteq refs
                             /\ Range(hypotheses[k].links) \subseteq Relations
    /\ rca # NoRca => rca.selected \in Considered

(* An accepted root cause stands on evidence the investigation was shown   *)
(* and incident-core knows, on records of as many kinds as the criteria    *)
(* ask, outweighs what speaks against it, which the report explains, and   *)
(* every other explanation was weakened or rejected; a record whose        *)
(* registration failed is never cited (complete, _accessible_evidence,     *)
(* _register).                                                             *)
ConclusionIsGrounded ==
    rca # NoRca =>
        LET h == hypotheses[rca.selected] IN
        /\ rca.cited \cup DOMAIN h.links \subseteq refs \cap shown
        /\ Cardinality({adapter[records[e]].type : e \in supporting(h)})
                >= MinSupportingEvidenceTypes
        /\ Cardinality(contradicting(h)) < Cardinality(supporting(h))
        /\ contradicting(h) \subseteq rca.noted
        /\ \A k \in Considered : IF k = rca.selected THEN h.status = "SELECTED"
                                 ELSE hypotheses[k].status \in {"WEAKENED", "REJECTED"}

(* A hypothesis never loses evidence it has been linked to, no link turns  *)
(* round, a rejected explanation is never revived, and after the           *)
(* conclusion none of it changes (HypothesisUpdate, HypothesisStatus).     *)
HistoryIsKept ==
    [][/\ Considered \subseteq DOMAIN hypotheses'
       /\ \A k \in Considered :
             /\ \A e \in DOMAIN hypotheses[k].links :
                   /\ e \in DOMAIN hypotheses'[k].links
                   /\ hypotheses'[k].links[e] = hypotheses[k].links[e]
             /\ hypotheses[k].status \in {"REJECTED", "SELECTED"} =>
                   hypotheses'[k] = hypotheses[k]
       /\ rca # NoRca => rca' = rca /\ hypotheses' = hypotheses]_vars

=============================================================================
