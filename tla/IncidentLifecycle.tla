------------------------- MODULE IncidentLifecycle -------------------------
(***************************************************************************)
(* What the whole system promises about one incident: the status moves     *)
(* only along the edges its services own.  Every edge is one call of       *)
(* repository.transition_incident_status (packages/incident/repository.py) *)
(* and each set below collects the calls of one service.                   *)
(*                                                                         *)
(* Beside them stand the edges the documentation allows, and what it       *)
(* promises of them, Documented.  The detailed modules are held against    *)
(* both; neither says when a service may take a step.                      *)
(***************************************************************************)

VARIABLE incident   \* status of the incident

IncidentStatus ==
    {"TRIAGING", "INVESTIGATING", "RCA_READY", "AWAITING_APPROVAL",
     "REMEDIATION_IN_PROGRESS", "VERIFYING", "VERIFICATION_FAILED",
     "RESOLVED", "ESCALATED", "SUPPRESSED", "CANCELLED", "CLOSED"}

(* Statuses that no longer hold the correlation key: a later alert opens a *)
(* new incident.                                                           *)
CLOSED_INCIDENT_STATUSES == {"CLOSED", "CANCELLED", "SUPPRESSED", "RESOLVED"}

\* service.py: natural recovery before an investigation started.
AlertEdges == {<<"TRIAGING", "CANCELLED">>}

\* investigations.py
InvestigationEdges ==
    {<<"TRIAGING", "INVESTIGATING">>, <<"VERIFICATION_FAILED", "INVESTIGATING">>,
     <<"INVESTIGATING", "RCA_READY">>, <<"INVESTIGATING", "ESCALATED">>}

\* remediations.py
RemediationEdges ==
    {<<"RCA_READY", "AWAITING_APPROVAL">>, <<"RCA_READY", "ESCALATED">>,
     <<"AWAITING_APPROVAL", "REMEDIATION_IN_PROGRESS">>,
     <<"AWAITING_APPROVAL", "RCA_READY">>, <<"AWAITING_APPROVAL", "ESCALATED">>,
     <<"REMEDIATION_IN_PROGRESS", "RCA_READY">>,
     <<"REMEDIATION_IN_PROGRESS", "ESCALATED">>,
     <<"REMEDIATION_IN_PROGRESS", "VERIFYING">>}

(* verifications.py.  A failed verdict that cannot be re-investigated goes *)
(* through VERIFICATION_FAILED and on to ESCALATED in one transaction.     *)
VerificationEdges ==
    {<<"VERIFYING", "RESOLVED">>, <<"VERIFYING", "VERIFICATION_FAILED">>,
     <<"VERIFYING", "ESCALATED">>}

Edges == AlertEdges \cup InvestigationEdges \cup RemediationEdges
            \cup VerificationEdges

Init == incident = "TRIAGING"

Move == <<incident, incident'>> \in Edges

-----------------------------------------------------------------------------
(* The documented machine: the transition table and the tables of phases 7 *)
(* and 8 in docs/architecture/04-incident-state-machine.md.                *)

Terminal == {"SUPPRESSED", "CANCELLED", "CLOSED"}

DocumentedEdges ==
    {<<"TRIAGING", "SUPPRESSED">>, <<"TRIAGING", "INVESTIGATING">>,
     <<"TRIAGING", "CANCELLED">>,
     <<"INVESTIGATING", "RCA_READY">>,
     <<"RCA_READY", "AWAITING_APPROVAL">>,
     <<"RCA_READY", "REMEDIATION_IN_PROGRESS">>, <<"RCA_READY", "CLOSED">>,
     <<"AWAITING_APPROVAL", "REMEDIATION_IN_PROGRESS">>,
     <<"AWAITING_APPROVAL", "RCA_READY">>,
     <<"REMEDIATION_IN_PROGRESS", "VERIFYING">>,
     <<"VERIFYING", "RESOLVED">>, <<"VERIFYING", "VERIFICATION_FAILED">>,
     <<"VERIFICATION_FAILED", "INVESTIGATING">>,
     <<"RESOLVED", "CLOSED">>, <<"ESCALATED", "CLOSED">>}
    \cup (IncidentStatus \ Terminal) \X {"ESCALATED"}

DocumentedMove == <<incident, incident'>> \in DocumentedEdges

Documented == Init /\ [][DocumentedMove]_incident

=============================================================================
