-------------------------- MODULE InvestigationTrace --------------------------
(***************************************************************************)
(* What an investigation promises about its trace (investigation_steps):   *)
(* it reads as if one worker that never dies had run the agent loop.  The  *)
(* model is asked again only when every call of its last turn has been     *)
(* answered; the calls of a turn are answered once each, in the order      *)
(* updates, invalid calls, evidence tools, terminal call; nothing follows  *)
(* the outcome.  There are no workers, leases or crashes here: the module  *)
(* Investigation, which has them, implements this one.                     *)
(*                                                                         *)
(* A turn is the sequence of tool names the model called; call i of turn k *)
(* is the call_id <<k, i>>.  An action whose name is none of the tools     *)
(* stands for an unknown tool and for arguments that fail validation.      *)
(***************************************************************************)
EXTENDS Naturals, Sequences, FiniteSets, FiniteSetsExt, SequencesExt

CONSTANTS
    Tools,           \* EVIDENCE_TOOL_ALIASES: tools the executor runs
    Turns,           \* the turns the model may emit
    MaxIterations    \* budget.max_iterations

VARIABLES
    status,          \* investigations.status
    trace            \* the investigation_steps rows, by sequence

GET_INCIDENT_EVIDENCE == "get_incident_evidence"
EVIDENCE_TOOL_NAMES == Tools \cup {GET_INCIDENT_EVIDENCE}
TerminalCalls == {"conclude_investigation", "declare_inconclusive"}

TERMINAL_INVESTIGATION_STATUSES == {"COMPLETED", "FAILED", "ESCALATED"}
ACTION_STEP_KINDS ==
    {"tool_call", "hypothesis_update", "conclusion_rejected", "invalid_call"}

\* A row of the trace; `call` is 0 when the step answers none.
Step(kind, iteration, call, detail) ==
    [kind |-> kind, iteration |-> iteration, call |-> call, detail |-> detail]

turns == {i \in DOMAIN trace : trace[i].kind = "model_turn"}
LastTurn == trace[Max(turns)]

\* The rows that follow the last turn.
after == {trace[i] : i \in {j \in DOMAIN trace : \A t \in turns : t < j}}

(* interpret_turn: how call i of a turn reads among these calls of it.     *)
(* Only the first terminal call counts, a second one is invalid.           *)
reading(actions, calls, i) ==
    IF actions[i] = "update_hypotheses" THEN "hypothesis_update"
    ELSE IF actions[i] \in EVIDENCE_TOOL_NAMES THEN "tool_call"
    ELSE IF /\ actions[i] \in TerminalCalls
            /\ \A j \in calls : j < i => actions[j] \notin TerminalCalls
      THEN actions[i]
    ELSE "invalid_call"

\* The reading of call i in the whole turn.
Reads(actions, i) == reading(actions, DOMAIN actions, i)

\* _process: the order in which it works through the readings.
Phase == [hypothesis_update |-> 1, invalid_call |-> 2, tool_call |-> 3,
          conclude_investigation |-> 4, declare_inconclusive |-> 5]

Precedes(actions, i, j) ==
    \/ Phase[Reads(actions, i)] < Phase[Reads(actions, j)]
    \/ Reads(actions, i) = Reads(actions, j) /\ i < j

answered == {s.call : s \in {t \in after : t.kind \in ACTION_STEP_KINDS \/ t.call # 0}}
Unanswered == IF turns = {} THEN {} ELSE DOMAIN LastTurn.detail \ answered

\* A turn without a call is answered by a notice.
Unnoticed ==
    /\ turns # {}
    /\ LastTurn.detail = <<>>
    /\ ~ \E s \in after : s.kind = "feedback"

Settled == Unanswered = {} /\ ~Unnoticed

Append1(s) == trace' = Append(trace, s)

Open == status \notin TERMINAL_INVESTIGATION_STATUSES

Init == status = "CREATED" /\ trace = <<>>

Start == status = "CREATED" /\ status' = "INVESTIGATING" /\ UNCHANGED trace

WriteContext ==
    /\ status = "INVESTIGATING" /\ trace = <<>>
    /\ Append1(Step("context", 0, 0, "none"))
    /\ UNCHANGED status

\* A budget notice precedes the turn it belongs to.
Note ==
    /\ status = "INVESTIGATING" /\ trace # <<>> /\ Settled
    /\ Append1(Step("feedback", Cardinality(turns) + 1, 0, "budget"))
    /\ UNCHANGED status

Ask ==
    /\ status = "INVESTIGATING" /\ trace # <<>> /\ Settled
    /\ Cardinality(turns) < MaxIterations
    /\ \E t \in Turns : Append1(Step("model_turn", Cardinality(turns) + 1, 0, t))
    /\ UNCHANGED status

NoAction ==
    /\ status = "INVESTIGATING" /\ Unnoticed
    /\ Append1(Step("feedback", LastTurn.iteration, 0, "no_action"))
    /\ UNCHANGED status

\* The next unanswered call, in processing order and as the whole turn reads.
IsNext(i) == i \in Unanswered
    /\ \A j \in Unanswered \ {i} : Precedes(LastTurn.detail, i, j)

Answer ==
    /\ status = "INVESTIGATING"
    /\ \E i \in Unanswered :
          /\ IsNext(i)
          /\ LET r == Reads(LastTurn.detail, i)
                 s == Last(trace') IN
             /\ trace' = Append(trace, s)
             /\ s.iteration = LastTurn.iteration /\ s.call = i
             /\ s.kind = IF r = "conclude_investigation" THEN "conclusion_rejected" ELSE r
    /\ UNCHANGED status

(* An outcome that answers a call answers the next one in order; an        *)
(* engine-made escalation may come at any point of the loop.               *)
End ==
    /\ status = "INVESTIGATING"
    /\ status' \in TERMINAL_INVESTIGATION_STATUSES
    /\ LET s == Last(trace') IN
       /\ trace' = Append(trace, s)
       /\ s.kind = "outcome"
       /\ s.call # 0 => /\ IsNext(s.call)
                        /\ Reads(LastTurn.detail, s.call) \in TerminalCalls
       /\ s.call = 0 => status' # "COMPLETED"

Next == Start \/ WriteContext \/ Note \/ Ask \/ NoAction \/ Answer \/ End

Spec == Init /\ [][Next]_<<status, trace>>

=============================================================================
