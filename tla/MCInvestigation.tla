--------------------------- MODULE MCInvestigation ---------------------------
(* Instances of Investigation for TLC. *)
EXTENDS Investigation

MCTools == {"get_logs"}

(* No call; a tool and an update; two tools at once; a terminal call       *)
(* beside another; an unknown tool.                                        *)
MCTurns ==
    {<<>>, <<"unknown">>, <<"get_logs", "update_hypotheses">>,
     <<"get_incident_evidence", "get_logs">>,
     <<"conclude_investigation", "declare_inconclusive">>, <<"declare_inconclusive">>}
=============================================================================
