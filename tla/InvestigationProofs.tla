------------------------- MODULE InvestigationProofs -------------------------
(***************************************************************************)
(* Proofs about Investigation, for every value of its constants.           *)
(*                                                                         *)
(* The argument is about the holder: the worker that owns the lease and    *)
(* runs.  Only it writes, so whatever it last loaded still is what the     *)
(* trace says, and what a worker that lost the lease remembers is          *)
(* irrelevant.  At each position of its loop the holder's memory agrees    *)
(* with the trace (Located), and the part of a turn that is answered       *)
(* precedes the part that is not (InOrder), which is why the unanswered    *)
(* calls alone read as they read in the whole turn.                        *)
(***************************************************************************)
EXTENDS Investigation, TLAPS, FiniteSetTheorems, SequenceTheorems, WellFoundedInduction

-----------------------------------------------------------------------------
(* The inductive invariant *)

Kinds == {"context", "feedback", "model_turn", "tool_call", "hypothesis_update",
          "conclusion_rejected", "invalid_call", "outcome"}
Notes == {"none", "budget", "no_action", "root_cause_identified", "inconclusive",
          "ESCALATED", "FAILED"}
Codes == {"ok", "invalid_argument"} \cup BackendFailures \cup Refusals
Details == Notes \cup Turns \cup [tool : STRING, code : Codes, counted : BOOLEAN]
Rows == [kind : Kinds, iteration : 0..MaxIterations, call : Nat, detail : Details]

Readings == {"hypothesis_update", "invalid_call", "tool_call",
             "conclude_investigation", "declare_inconclusive"}
Calls == [call : Nat, tool : STRING, as : Readings]
WorkerRows ==
    [at : Positions, run : Nat, iteration : 0..MaxIterations, todo : SUBSET Calls,
     final : {"none", "iterations", "tool_calls", "evidence"}, seen : [Tools -> Nat],
     calls : Nat, used_evidence : Nat, attempt : Nat, outcome : {"ESCALATED", "FAILED"}]

\* The trace has a last turn, once it has one, and the row counts the turns.
TurnsOK ==
    /\ \A i \in Trace!turns : trace[i].detail \in Turns
    /\ Trace!turns # {} => \E m \in Trace!turns : \A i \in Trace!turns : i <= m
    /\ iteration_count = Cardinality(Trace!turns)

TypeInv ==
    /\ TypeOK
    /\ claims \in Nat
    /\ worker \in [Workers -> WorkerRows]
    /\ trace \in Seq(Rows)
    /\ TurnsOK

Holder(w) == lease.owner = w /\ worker[w].at # "idle"

\* The lease is held in a running investigation, by the latest claim.
FenceOK ==
    /\ lease.live => lease.owner # NoOne
    /\ lease.owner # NoOne => status = "INVESTIGATING"
    /\ \A w \in Workers : Holder(w) => worker[w].run = claims

\* The calls as the whole turn reads them.
Whole(actions, calls) ==
    {[call |-> i, tool |-> actions[i], as |-> Trace!Reads(actions, i)] : i \in calls}

\* What the holder remembers at its position is what the trace says.
At(w) ==
    /\ worker[w].at \notin {"start", "stop"} => trace # <<>>
    /\ worker[w].at = "act" =>
          /\ Trace!turns # {}
          /\ worker[w].todo = Whole(Trace!LastTurn.detail, Trace!Unanswered)
          /\ worker[w].todo # {}
          /\ worker[w].iteration = Trace!LastTurn.iteration
          /\ worker[w].used_evidence = evidence_count
    /\ worker[w].at = "no_action" =>
          Trace!Unnoticed /\ worker[w].iteration = Trace!LastTurn.iteration
    /\ worker[w].at \in {"notice", "model"} =>
          Trace!Settled /\ worker[w].iteration = iteration_count + 1

Located == \A w \in Workers : Holder(w) => At(w)

\* Until the end, the context comes first and calls are answered in order.
InOrder ==
    ~Finished =>
       /\ trace # <<>> => \E s \in ToSet(trace) : s.kind = "context"
       /\ Trace!turns # {} =>
             \A i \in DOMAIN Trace!LastTurn.detail \ Trace!Unanswered, j \in Trace!Unanswered :
                Trace!Precedes(Trace!LastTurn.detail, i, j)

\* The holder's toolset has counted at least what the trace shows executed.
Counted ==
    \A w \in Workers :
       Holder(w) /\ worker[w].at \notin {"start", "stop"} =>
          /\ worker[w].calls >= Cardinality(Executed(Tools))
          /\ \A t \in Tools : worker[w].seen[t] >= Cardinality(Executed({t}))

InvestigationInv ==
    TypeInv /\ FenceOK /\ Located /\ InOrder /\ Counted /\ BudgetsSurviveRestart

-----------------------------------------------------------------------------
(* The trace *)

LEMMA MaxIs ==
    ASSUME NEW S, S \subseteq Nat, NEW m \in S, \A i \in S : i <= m
    PROVE  Trace!Max(S) = m
<1> DEFINE P(x) == x \in S /\ \A y \in S : x >= y
<1>1. P(m)
  OBVIOUS
<1>2. P(CHOOSE x : P(x))
  BY <1>1
<1>3. \A x : P(x) => x = m
  OBVIOUS
<1>4. (CHOOSE x : P(x)) = m
  BY <1>2, <1>3
<1>5. QED
  BY <1>4 DEF Trace!Max

\* The last turn is a row of the trace.
LEMMA LastIsTurn ==
    ASSUME trace \in Seq(Rows), TurnsOK, Trace!turns # {}
    PROVE  /\ Trace!Max(Trace!turns) \in Trace!turns
           /\ Trace!LastTurn \in Rows
           /\ Trace!LastTurn.detail \in Turns
<1>1. Trace!turns \subseteq DOMAIN trace /\ DOMAIN trace \subseteq Nat
  BY DEF Trace!turns
<1>2. PICK m \in Trace!turns : \A i \in Trace!turns : i <= m
  BY DEF TurnsOK
<1>3. Trace!Max(Trace!turns) = m
  BY <1>1, <1>2, MaxIs
<1>4. QED
  BY <1>1, <1>3 DEF TurnsOK, Trace!LastTurn

LEMMA AppendedRow ==
    ASSUME trace \in Seq(Rows), NEW s \in Rows, trace' = Append(trace, s)
    PROVE  /\ trace' \in Seq(Rows)
           /\ Len(trace) + 1 \notin DOMAIN trace
           /\ DOMAIN trace \subseteq Nat
           /\ \A i \in DOMAIN trace : i < Len(trace) + 1
           /\ DOMAIN trace' = DOMAIN trace \cup {Len(trace) + 1}
           /\ \A i \in DOMAIN trace : trace'[i] = trace[i]
           /\ trace'[Len(trace) + 1] = s
           /\ trace' # <<>>
           /\ Trace!Last(trace') = s
           /\ ToSet(trace') = ToSet(trace) \cup {s}
<1>1. /\ trace' \in Seq(Rows) /\ Len(trace') = Len(trace) + 1 /\ Len(trace) \in Nat
      /\ DOMAIN trace = 1..Len(trace) /\ DOMAIN trace' = 1..Len(trace) + 1
      /\ \A i \in DOMAIN trace : trace'[i] = trace[i]
      /\ trace'[Len(trace) + 1] = s
  BY AppendProperties, LenProperties
<1>2. DOMAIN trace' = DOMAIN trace \cup {Len(trace) + 1}
  BY <1>1
<1>3. ToSet(trace') = ToSet(trace) \cup {s}
  BY <1>1, <1>2 DEF ToSet
<1>4. trace' # <<>>
  BY <1>1
<1>5. QED
  BY <1>1, <1>2, <1>3, <1>4 DEF Trace!Last

\* A row that is not a turn leaves the last turn and may answer a call of it.
LEMMA RowAdded ==
    ASSUME trace \in Seq(Rows), TurnsOK, NEW s \in Rows, s.kind # "model_turn",
           trace' = Append(trace, s)
    PROVE  /\ Trace!turns' = Trace!turns
           /\ Trace!turns # {} => Trace!LastTurn' = Trace!LastTurn
           /\ Trace!Unanswered' = Trace!Unanswered \ {s.call}
           /\ Trace!Unnoticed' <=> Trace!Unnoticed /\ s.kind # "feedback"
<1>1. /\ DOMAIN trace' = DOMAIN trace \cup {Len(trace) + 1}
      /\ DOMAIN trace \subseteq Nat
      /\ \A i \in DOMAIN trace : i < Len(trace) + 1
      /\ \A i \in DOMAIN trace : trace'[i] = trace[i]
      /\ trace'[Len(trace) + 1] = s
  BY AppendedRow
<1>2. Trace!turns' = Trace!turns
  BY <1>1 DEF Trace!turns
<1>3. Trace!turns # {} => Trace!LastTurn' = Trace!LastTurn
  BY <1>1, <1>2, LastIsTurn DEF Trace!turns, Trace!LastTurn
<1>4. Trace!after' = Trace!after \cup {s}
  <2>1. \A t \in Trace!turns : t < Len(trace) + 1
    BY <1>1 DEF Trace!turns
  <2>2. QED
    BY <1>1, <1>2, <2>1 DEF Trace!after
<1>5. Trace!answered' = Trace!answered \cup
        (IF s.kind \in Trace!ACTION_STEP_KINDS \/ s.call # 0 THEN {s.call} ELSE {})
  BY <1>4 DEF Trace!answered
<1>6. Trace!turns # {} => 0 \notin DOMAIN Trace!LastTurn.detail
  BY LastIsTurn, InvestigationAssumption
<1>7. Trace!Unanswered' = Trace!Unanswered \ {s.call}
  BY <1>2, <1>3, <1>5, <1>6 DEF Trace!Unanswered
<1>8. Trace!Unnoticed' <=> Trace!Unnoticed /\ s.kind # "feedback"
  BY <1>2, <1>3, <1>4 DEF Trace!Unnoticed
<1>9. QED
  BY <1>2, <1>3, <1>7, <1>8

\* A turn becomes the last one, and nothing of it is answered yet.
LEMMA TurnAdded ==
    ASSUME trace \in Seq(Rows), NEW s \in Rows, s.kind = "model_turn",
           trace' = Append(trace, s)
    PROVE  /\ Trace!turns' = Trace!turns \cup {Len(trace) + 1}
           /\ Len(trace) + 1 \notin Trace!turns
           /\ \A i \in Trace!turns' : i <= Len(trace) + 1
           /\ Trace!LastTurn' = s
           /\ Trace!Unanswered' = DOMAIN s.detail
           /\ Trace!Unnoticed' <=> s.detail = <<>>
<1>1. /\ DOMAIN trace' = DOMAIN trace \cup {Len(trace) + 1}
      /\ Len(trace) + 1 \notin DOMAIN trace
      /\ DOMAIN trace \subseteq Nat
      /\ \A i \in DOMAIN trace : i < Len(trace) + 1
      /\ \A i \in DOMAIN trace : trace'[i] = trace[i]
      /\ trace'[Len(trace) + 1] = s
      /\ Len(trace) \in Nat
  BY AppendedRow, LenProperties
<1>2. /\ Trace!turns' = Trace!turns \cup {Len(trace) + 1}
      /\ Len(trace) + 1 \notin Trace!turns
      /\ Trace!turns \subseteq Nat
      /\ \A i \in Trace!turns' : i <= Len(trace) + 1
  BY <1>1 DEF Trace!turns
<1>3. PICK n \in Nat : n = Len(trace) + 1
  BY <1>1
<1>4. PICK S : S = Trace!turns \cup {n}
  OBVIOUS
<1>5. Trace!Max(S) = n
  BY <1>2, <1>3, <1>4, MaxIs
<1>6. Trace!LastTurn' = s
  BY <1>1, <1>2, <1>3, <1>4, <1>5 DEF Trace!LastTurn
<1>7. Trace!after' = {}
  BY <1>1, <1>2 DEF Trace!after
<1>8. Trace!answered' = {}
  BY <1>7 DEF Trace!answered
<1>9. QED
  BY <1>2, <1>6, <1>7, <1>8 DEF Trace!Unanswered, Trace!Unnoticed

-----------------------------------------------------------------------------
(* How a turn is read *)

LEMMA ReadingKinds ==
    ASSUME NEW actions, NEW calls, NEW i
    PROVE  /\ Trace!reading(actions, calls, i) \in Readings
           /\ Trace!Phase[Trace!reading(actions, calls, i)] \in 1..5
BY DEF Trace!reading, Trace!TerminalCalls, Trace!Phase, Readings

LEMMA FirstTerminal ==
    ASSUME NEW actions \in Seq(STRING), NEW i \in DOMAIN actions,
           actions[i] \in Trace!TerminalCalls
    PROVE  \E j \in DOMAIN actions :
              /\ j <= i /\ actions[j] \in Trace!TerminalCalls
              /\ \A k \in DOMAIN actions : k < j => actions[k] \notin Trace!TerminalCalls
<1> DEFINE T == {k \in DOMAIN actions : actions[k] \in Trace!TerminalCalls}
<1>1. T \subseteq Nat /\ i \in T
  OBVIOUS
<1> HIDE DEF T
<1>2. PICK j \in T : \A k \in T : ~ (<<k, j>> \in OpToRel(<, Nat))
  BY <1>1, NatLessThanWellFounded, WFMin
<1>3. \A k \in T : ~ (k < j)
  BY <1>1, <1>2 DEF OpToRel
<1>4. j <= i
  BY <1>1, <1>3
<1>5. DOMAIN actions \subseteq Nat
  OBVIOUS
<1>6. QED
  BY <1>1, <1>3, <1>4, <1>5 DEF T

(* The calls that are left of a turn read as they do in the whole turn:    *)
(* a second terminal call is rejected before the first one is acted on, so *)
(* the first is still there as long as the second is.                      *)
LEMMA RestReadsTheSame ==
    ASSUME NEW actions \in Seq(STRING), NEW rest \in SUBSET DOMAIN actions,
           \A i \in DOMAIN actions \ rest, j \in rest : Trace!Precedes(actions, i, j),
           NEW i \in rest
    PROVE  Trace!reading(actions, rest, i) = Trace!Reads(actions, i)
<1>1. DOMAIN actions \subseteq Nat
  OBVIOUS
<1>2. CASE actions[i] \notin Trace!TerminalCalls
  BY <1>2 DEF Trace!reading, Trace!Reads
<1>3. CASE \A j \in DOMAIN actions : j < i => actions[j] \notin Trace!TerminalCalls
  BY <1>3 DEF Trace!reading, Trace!Reads
<1>4. ASSUME actions[i] \in Trace!TerminalCalls,
             NEW k \in DOMAIN actions, k < i, actions[k] \in Trace!TerminalCalls,
             actions[i] # "update_hypotheses",
             actions[i] \notin Trace!EVIDENCE_TOOL_NAMES
      PROVE  \E j \in rest : j < i /\ actions[j] \in Trace!TerminalCalls
  <2>1. PICK j \in DOMAIN actions :
              /\ j <= k /\ actions[j] \in Trace!TerminalCalls
              /\ \A n \in DOMAIN actions : n < j => actions[n] \notin Trace!TerminalCalls
    BY <1>4, FirstTerminal
  <2>2. j < i
    BY <1>1, <1>4, <2>1
  <2>3. Trace!Reads(actions, i) = "invalid_call"
    BY <1>4 DEF Trace!Reads, Trace!reading
  <2>4. ~ Trace!Precedes(actions, j, i)
    <3>1. CASE Trace!Reads(actions, j) = actions[j]
      BY <2>1, <2>3, <3>1 DEF Trace!Precedes, Trace!Phase, Trace!TerminalCalls
    <3>2. Trace!Reads(actions, j) = actions[j]
      <4>1. actions[j] \in {"conclude_investigation", "declare_inconclusive"}
        BY <2>1 DEF Trace!TerminalCalls
      <4>2. actions[j] # "update_hypotheses"
        BY <4>1
      <4>3. actions[j] \notin Trace!EVIDENCE_TOOL_NAMES
        BY <1>4, <2>1, InvestigationAssumption
           DEF Trace!EVIDENCE_TOOL_NAMES, Trace!GET_INCIDENT_EVIDENCE, Trace!TerminalCalls
      <4>4. QED
        BY <2>1, <4>2, <4>3 DEF Trace!Reads, Trace!reading
    <3>3. QED
      BY <3>1, <3>2
  <2>5. j \in rest
    BY <2>4
  <2>6. QED
    BY <2>1, <2>2, <2>5
<1>5. QED
  BY <1>1, <1>2, <1>3, <1>4 DEF Trace!reading, Trace!Reads

\* The call the holder works on is the next one of the turn.
LEMMA NextCall ==
    ASSUME TypeInv, Located, NEW w \in Workers, Holder(w),
           NEW c \in worker[w].todo, NEW as, Handling(w, c, as)
    PROVE  /\ Trace!turns # {}
           /\ Trace!IsNext(c.call)
           /\ Trace!Reads(Trace!LastTurn.detail, c.call) = as
           /\ c.call \in Nat \ {0}
           /\ worker[w].iteration = Trace!LastTurn.iteration
           /\ c.tool \in STRING
<1> DEFINE turn == Trace!LastTurn.detail
<1>1. /\ Trace!turns # {}
      /\ worker[w].todo = Whole(turn, Trace!Unanswered)
      /\ worker[w].iteration = Trace!LastTurn.iteration
  BY DEF Located, At, Handling
<1>2. turn \in Seq(STRING)
  BY <1>1, LastIsTurn, InvestigationAssumption DEF TypeInv
<1>3. Trace!Unanswered \subseteq DOMAIN turn /\ DOMAIN turn \subseteq Nat \ {0}
  BY <1>2 DEF Trace!Unanswered
<1> HIDE DEF turn
<1>4. \A d \in worker[w].todo :
         /\ d.call \in Trace!Unanswered
         /\ d.as = Trace!Reads(turn, d.call)
         /\ d.tool = turn[d.call]
  BY <1>1 DEF Whole
<1>5. \A i \in Trace!Unanswered :
         \E d \in worker[w].todo : d.call = i /\ d.as = Trace!Reads(turn, i)
  <2> SUFFICES ASSUME NEW i \in Trace!Unanswered
               PROVE  \E d \in worker[w].todo : d.call = i /\ d.as = Trace!Reads(turn, i)
    OBVIOUS
  <2>1. [call |-> i, tool |-> turn[i], as |-> Trace!Reads(turn, i)] \in worker[w].todo
    BY <1>1 DEF Whole
  <2>2. QED
    BY <2>1
<1>6. ASSUME NEW i \in Trace!Unanswered \ {c.call} PROVE Trace!Precedes(turn, c.call, i)
  <2>1. PICK d \in worker[w].todo : d.call = i /\ d.as = Trace!Reads(turn, i)
    BY <1>5
  <2>2. processed_before(c, d)
    BY <2>1 DEF Handling
  <2>3. c.as \in Readings /\ d.as \in Readings
    BY <1>4, <2>1, ReadingKinds DEF Trace!Reads
  <2>4. Trace!Phase[c.as] < Trace!Phase[d.as] \/ (c.as = d.as /\ c.call < d.call)
    BY <2>2, <2>3 DEF processed_before, Readings, Trace!Phase, Trace!TerminalCalls
  <2>5. QED
    BY <1>4, <2>1, <2>4 DEF Trace!Precedes
<1>7. Trace!IsNext(c.call)
  BY <1>4, <1>6 DEF Trace!IsNext, turn
<1>8. c.tool \in STRING
  BY <1>2, <1>3, <1>4
<1>9. QED
  BY <1>1, <1>3, <1>4, <1>7, <1>8 DEF Handling, turn

-----------------------------------------------------------------------------
(* What was executed *)

LEMMA ExecutedFinite ==
    ASSUME trace \in Seq(Rows), NEW T
    PROVE  IsFiniteSet(Executed(T)) /\ IsFiniteSet(prior_calls)
           /\ Executed(T) \subseteq prior_calls
<1>1. IsFiniteSet(DOMAIN trace)
  BY LenProperties, FS_Interval
<1>2. Executed(T) \subseteq DOMAIN trace /\ prior_calls \subseteq DOMAIN trace
  BY DEF Executed, prior_calls
<1>3. IsFiniteSet(Executed(T)) /\ IsFiniteSet(prior_calls)
  BY <1>1, <1>2, FS_Subset
<1>4. QED
  BY <1>3 DEF Executed, prior_calls

\* A row that is no counted call leaves what was executed.
LEMMA ExecutedKept ==
    ASSUME trace \in Seq(Rows), NEW s \in Rows, ~IsCounted(s), trace' = Append(trace, s)
    PROVE  \A T : Executed(T)' = Executed(T)
BY AppendedRow DEF Executed

\* A counted call adds itself.
LEMMA ExecutedGrows ==
    ASSUME trace \in Seq(Rows), NEW s \in Rows, IsCounted(s), trace' = Append(trace, s),
           NEW T
    PROVE  Cardinality(Executed(T)') =
              Cardinality(Executed(T)) + (IF s.detail.tool \in T THEN 1 ELSE 0)
<1>1. CASE s.detail.tool \notin T
  <2>1. Executed(T)' = Executed(T)
    BY <1>1, AppendedRow DEF Executed
  <2>2. Cardinality(Executed(T)) \in Nat
    BY ExecutedFinite, FS_CardinalityType
  <2>3. QED
    BY <1>1, <2>1, <2>2
<1>2. CASE s.detail.tool \in T
  <2>1. Executed(T)' = Executed(T) \cup {Len(trace) + 1}
    BY <1>2, AppendedRow DEF Executed
  <2>2. Len(trace) + 1 \notin Executed(T)
    BY AppendedRow DEF Executed
  <2>3. QED
    BY <1>2, <2>1, <2>2, ExecutedFinite, FS_AddElement
<1>3. QED
  BY <1>1, <1>2

-----------------------------------------------------------------------------
(* The kinds of steps *)

Leases == [owner : Workers \cup {NoOne}, live : BOOLEAN]

\* Only w moves.
Moved(w) ==
    /\ worker' \in [Workers -> WorkerRows]
    /\ \A v \in Workers \ {w} : worker'[v] = worker[v]

LEMMA TurnsKept ==
    ASSUME TypeInv, NEW s \in Rows, s.kind # "model_turn", trace' = Append(trace, s),
           iteration_count' = iteration_count
    PROVE  trace' \in Seq(Rows) /\ TurnsOK'
           /\ \A i \in DOMAIN trace' : trace'[i].iteration \in 0..MaxIterations
<1>1. Trace!turns' = Trace!turns
  BY RowAdded DEF TypeInv
<1>2. /\ trace' \in Seq(Rows) /\ Trace!turns \subseteq DOMAIN trace
      /\ \A i \in DOMAIN trace : trace'[i] = trace[i]
  BY AppendedRow DEF TypeInv, Trace!turns
<1>3. TurnsOK'
  BY <1>1, <1>2 DEF TurnsOK, TypeInv
<1>4. \A i \in DOMAIN trace' : trace'[i] \in Rows
  BY <1>2
<1>5. QED
  BY <1>2, <1>3, <1>4 DEF Rows

(* The holder appends a row that is not a turn; if the row answers a call, *)
(* it answers the next one.                                                *)
LEMMA Write ==
    ASSUME TypeInv, FenceOK, Located, InOrder,
           NEW w \in Workers, fenced(w), worker[w].at # "idle",
           NEW s \in Rows, s.kind # "model_turn", trace' = Append(trace, s),
           trace # <<>> \/ s.kind = "context",
           s.call # 0 => Trace!turns # {} /\ Trace!IsNext(s.call),
           lease' \in Leases, lease'.owner = w,
           UNCHANGED <<incident, status, iteration_count, claims, faults>>,
           tool_call_count' \in Nat, evidence_count' \in Nat,
           Moved(w), worker'[w].run = worker[w].run, At(w)'
    PROVE  TypeInv' /\ FenceOK' /\ Located' /\ InOrder'
<1>1. Holder(w) /\ status = "INVESTIGATING" /\ NoOne \notin Workers
  BY InvestigationAssumption DEF fenced, Holder
<1>2. trace' \in Seq(Rows) /\ TurnsOK'
      /\ \A i \in DOMAIN trace' : trace'[i].iteration \in 0..MaxIterations
  BY TurnsKept
<1>3. TypeInv'
  <2>1. \A v \in Workers :
            /\ worker'[v].at \in Positions
            /\ worker'[v].run \in 0..claims'
            /\ worker'[v].at = "act" => worker'[v].todo # {}
    BY DEF Moved, WorkerRows, TypeInv, TypeOK, At
  <2>2. TypeOK'
    BY <1>2, <2>1 DEF TypeInv, TypeOK, Leases
  <2>3. QED
    BY <1>2, <2>2 DEF TypeInv, Moved
<1>4. \A v \in Workers : Holder(v)' => v = w
  BY DEF Holder
<1>5. FenceOK'
  BY <1>1, <1>4 DEF FenceOK
<1>6. Located'
  BY <1>4 DEF Located
<1>7. InOrder'
  <2>1. \E t \in ToSet(trace') : t.kind = "context"
    BY <1>1, AppendedRow DEF TypeInv, InOrder, Finished, Trace!TERMINAL_INVESTIGATION_STATUSES
  <2>2. ASSUME Trace!turns' # {},
               NEW i \in DOMAIN Trace!LastTurn'.detail \ Trace!Unanswered',
               NEW j \in Trace!Unanswered'
        PROVE  Trace!Precedes(Trace!LastTurn'.detail, i, j)
    <3>1. /\ Trace!turns # {} /\ Trace!LastTurn' = Trace!LastTurn
          /\ Trace!Unanswered' = Trace!Unanswered \ {s.call}
      BY <2>2, RowAdded DEF TypeInv
    <3>2. CASE i \notin Trace!Unanswered
      BY <1>1, <3>1, <3>2
         DEF InOrder, Finished, Trace!TERMINAL_INVESTIGATION_STATUSES
    <3>3. CASE i \in Trace!Unanswered
      <4>1. i = s.call
        BY <3>1, <3>3
      <4>2. s.call # 0
        <5>1. Trace!LastTurn.detail \in Seq(STRING)
          BY <3>1, LastIsTurn, InvestigationAssumption DEF TypeInv
        <5>2. QED
          BY <3>1, <4>1, <5>1
      <4>3. QED
        BY <3>1, <4>1, <4>2 DEF Trace!IsNext
    <3>4. QED
      BY <3>2, <3>3
  <2>3. QED
    BY <2>1, <2>2 DEF InOrder, Trace!Precedes
<1>8. QED
  BY <1>3, <1>5, <1>6, <1>7

\* After the answer to a call the holder is where its memory and the trace agree.
LEMMA Answered ==
    ASSUME TypeInv, Located, NEW w \in Workers, Holder(w),
           NEW c \in worker[w].todo, NEW as, Handling(w, c, as),
           NEW s \in Rows, s.kind # "model_turn", s.call = c.call, trace' = Append(trace, s),
           worker'[w].todo = worker[w].todo \ {c}, worker'[w].at = AfterCall(w, c),
           worker'[w].iteration = worker[w].iteration,
           worker'[w].used_evidence = evidence_count'
    PROVE  At(w)'
<1>1. /\ Trace!turns # {}
      /\ worker[w].todo = Whole(Trace!LastTurn.detail, Trace!Unanswered)
      /\ worker[w].iteration = Trace!LastTurn.iteration
  BY DEF Located, At, Handling
<1>2. /\ Trace!turns' # {} /\ Trace!LastTurn' = Trace!LastTurn
      /\ Trace!Unanswered' = Trace!Unanswered \ {c.call}
  BY <1>1, RowAdded DEF TypeInv
<1>3. worker[w].todo \ {c} = Whole(Trace!LastTurn.detail, Trace!Unanswered \ {c.call})
  BY <1>1 DEF Whole
<1>4. worker'[w].at = "act" => worker'[w].todo # {}
  BY DEF AfterCall, AfterDecision
<1>5. worker'[w].at \in {"act", "stop", "loop"}
  BY DEF AfterCall, AfterDecision
<1>6. trace' # <<>>
  BY AppendedRow DEF TypeInv
<1>7. worker'[w].todo = Whole(Trace!LastTurn'.detail, Trace!Unanswered')
  BY <1>2, <1>3
<1>8. QED
  BY <1>1, <1>2, <1>4, <1>5, <1>6, <1>7 DEF At, Whole, Trace!Reads, Trace!reading

\* A step that writes nothing.
LEMMA Local ==
    ASSUME InvestigationInv, NEW w \in Workers, Moved(w),
           UNCHANGED <<incident, status, iteration_count, tool_call_count, evidence_count,
                       trace, claims>>,
           faults' \in 0..MaxFaults, lease' \in Leases, lease'.owner = lease.owner,
           lease'.live => lease'.owner # NoOne,
           worker'[w].run \in 0..claims,
           worker'[w].at = "act" => worker'[w].todo # {},
           Holder(w)' => /\ worker'[w].run = claims
                         /\ At(w)'
                         /\ worker'[w].at \notin {"start", "stop"} =>
                              /\ worker'[w].calls >= Cardinality(Executed(Tools))
                              /\ \A t \in Tools :
                                    worker'[w].seen[t] >= Cardinality(Executed({t}))
    PROVE  InvestigationInv'
<1>1. TypeInv /\ FenceOK /\ Located /\ InOrder /\ Counted /\ BudgetsSurviveRestart
  BY DEF InvestigationInv
<1>2. TypeInv'
  <2>1. \A v \in Workers :
            /\ worker'[v].at \in Positions
            /\ worker'[v].run \in 0..claims'
            /\ worker'[v].at = "act" => worker'[v].todo # {}
    BY <1>1 DEF Moved, WorkerRows, TypeInv, TypeOK
  <2>2. TypeOK'
    BY <1>1, <2>1 DEF TypeInv, TypeOK, Leases
  <2>3. TurnsOK'
    BY <1>1 DEF TypeInv, TurnsOK, Trace!turns
  <2>4. QED
    BY <1>1, <2>2, <2>3 DEF TypeInv, Moved
<1>3. \A v \in Workers \ {w} : (Holder(v)' <=> Holder(v)) /\ worker'[v] = worker[v]
  BY DEF Holder, Moved
<1>4. FenceOK'
  BY <1>1, <1>3 DEF FenceOK
<1>5. /\ Trace!turns' = Trace!turns /\ Trace!LastTurn' = Trace!LastTurn
      /\ Trace!Unanswered' = Trace!Unanswered /\ Trace!Unnoticed' = Trace!Unnoticed
      /\ Trace!Settled' = Trace!Settled
  BY DEF Trace!turns, Trace!LastTurn, Trace!Unanswered, Trace!Unnoticed, Trace!answered,
         Trace!after, Trace!Settled
<1>6. Located'
  <2>1. ASSUME NEW v \in Workers \ {w}, Holder(v) PROVE At(v)'
    <3>1. At(v)
      BY <1>1, <2>1 DEF Located
    <3>2. QED
      BY <1>3, <1>5, <3>1 DEF At, Whole, Trace!Reads, Trace!reading
  <2>2. QED
    BY <1>3, <2>1 DEF Located
<1>7. InOrder'
  BY <1>1, <1>5 DEF InOrder, Finished, Trace!Precedes, Trace!Reads, Trace!reading
<1>8. \A T : Executed(T)' = Executed(T)
  BY DEF Executed
<1>9. Counted'
  BY <1>1, <1>3, <1>8 DEF Counted
<1>10. BudgetsSurviveRestart'
  BY <1>1, <1>5, <1>8 DEF BudgetsSurviveRestart
<1>11. QED
  BY <1>2, <1>4, <1>6, <1>7, <1>9, <1>10 DEF InvestigationInv

LEMMA Bounds ==
    /\ MaxIterations \in Nat \ {0} /\ MaxToolCalls \in Nat \ {0}
    /\ MaxIdentical \in Nat \ {0} /\ MaxEvidence \in Nat \ {0}
BY InvestigationAssumption

LEMMA IdleRow ==
    Idle \in WorkerRows /\ Idle.at = "idle" /\ Idle.run = 0
<1>1. NoCalls \in [Tools -> Nat]
  BY DEF NoCalls
<1>2. {} \in SUBSET Calls /\ "idle" \in Positions /\ 0 \in 0..MaxIterations
  BY Bounds DEF Positions
<1>3. Idle \in WorkerRows
  BY <1>1, <1>2 DEF Idle, WorkerRows
<1>4. QED
  BY <1>3 DEF Idle

\* A row that is no counted call spends nothing.
LEMMA NothingSpent ==
    ASSUME InvestigationInv, TypeInv', NEW w \in Workers, Holder(w),
           NEW s \in Rows, ~IsCounted(s), trace' = Append(trace, s), lease'.owner \in {w, NoOne},
           evidence_count' = evidence_count,
           worker'[w].at \notin {"idle", "start", "stop"} =>
              /\ worker[w].at \notin {"start", "stop"}
              /\ worker'[w].calls = worker[w].calls /\ worker'[w].seen = worker[w].seen
    PROVE  Counted' /\ BudgetsSurviveRestart'
<1>1. \A T : Executed(T)' = Executed(T)
  BY ExecutedKept DEF InvestigationInv, TypeInv
<1>2. \A v \in Workers : Holder(v)' => v = w
  BY InvestigationAssumption DEF Holder
<1>3. Counted'
  BY <1>1, <1>2 DEF Counted, InvestigationInv, Holder
<1>4. BudgetsSurviveRestart'
  BY <1>1 DEF BudgetsSurviveRestart, InvestigationInv, TypeInv, TurnsOK
<1>5. QED
  BY <1>3, <1>4

\* The outcome: nobody holds the lease any more.
LEMMA End ==
    ASSUME InvestigationInv, NEW w \in Workers, worker[w].at # "idle",
           NEW outcome \in Trace!TERMINAL_INVESTIGATION_STATUSES,
           NEW to \in {"RCA_READY", "ESCALATED"}, NEW call \in Nat, NEW reason \in Notes,
           finish(w, outcome, to, call, reason)
    PROVE  InvestigationInv'
<1> DEFINE s == Trace!Step("outcome", worker[w].iteration, call, reason)
<1>1. TypeInv /\ FenceOK
  BY DEF InvestigationInv
<1>2. Holder(w) /\ NoOne \notin Workers
  BY InvestigationAssumption DEF Holder, finish, fenced
<1>3. s \in Rows /\ s.kind # "model_turn" /\ ~IsCounted(s)
  <2>1. worker[w].iteration \in 0..MaxIterations
    BY <1>1 DEF TypeInv, WorkerRows
  <2>2. reason \in Details
    BY DEF Details
  <2>3. s = [kind |-> "outcome", iteration |-> worker[w].iteration, call |-> call,
             detail |-> reason]
    BY DEF Trace!Step
  <2>4. s \in Rows
    BY <2>1, <2>2, <2>3 DEF Rows, Kinds
  <2>5. QED
    BY <2>3, <2>4 DEF IsCounted
<1>4. trace' = Append(trace, s)
  BY DEF finish, append_step
<1> HIDE DEF s
<1>5. trace' \in Seq(Rows) /\ TurnsOK'
      /\ \A i \in DOMAIN trace' : trace'[i].iteration \in 0..MaxIterations
  BY <1>1, <1>3, <1>4, TurnsKept DEF finish
<1>6. Idle \in WorkerRows /\ Idle.at = "idle" /\ Idle.run = 0
  BY IdleRow
<1>7. /\ worker' \in [Workers -> WorkerRows]
      /\ \A v \in Workers : worker'[v] = IF v = w THEN Idle ELSE worker[v]
  BY <1>1, <1>6 DEF finish, TypeInv
<1>8. TypeInv'
  <2>1. \A v \in Workers :
            /\ worker'[v].at \in Positions
            /\ worker'[v].run \in 0..claims'
            /\ worker'[v].at = "act" => worker'[v].todo # {}
    BY <1>1, <1>6, <1>7 DEF TypeInv, TypeOK, finish, Positions
  <2>2. TypeOK'
    BY <1>1, <1>5, <2>1 DEF TypeInv, TypeOK, finish, Released, move_incident, InvestigationStatus
  <2>3. QED
    BY <1>1, <1>5, <1>7, <2>2 DEF TypeInv, finish
<1>9. lease'.owner = NoOne /\ \A v \in Workers : ~Holder(v)'
  BY <1>2 DEF finish, Released, Holder
<1>10. FenceOK' /\ Located'
  BY <1>9 DEF FenceOK, Located, finish, Released
<1>11. Finished'
  BY DEF finish, Finished
<1>12. InOrder'
  BY <1>11 DEF InOrder
<1>13. Counted' /\ BudgetsSurviveRestart'
  BY <1>2, <1>3, <1>4, <1>6, <1>7, <1>8, <1>9, NothingSpent DEF finish
<1>14. QED
  BY <1>8, <1>10, <1>12, <1>13 DEF InvestigationInv

\* A claim makes its worker the holder, at the start of a run.
LEMMA Claim ==
    ASSUME InvestigationInv, NEW w \in Workers, claim(w)
    PROVE  InvestigationInv'
<1> DEFINE r == [Idle EXCEPT !.at = "start", !.run = claims + 1]
<1>1. TypeInv /\ FenceOK /\ Located /\ InOrder /\ Counted /\ BudgetsSurviveRestart
  BY DEF InvestigationInv
<1>2. r \in WorkerRows /\ r.at = "start" /\ r.run = claims + 1
  <2>1. "start" \in Positions /\ claims + 1 \in Nat
    BY <1>1 DEF Positions, TypeInv
  <2>2. QED
    BY <2>1, IdleRow DEF WorkerRows
<1>3. worker' = [worker EXCEPT ![w] = r]
  BY DEF claim
<1> HIDE DEF r
<1>4. /\ worker' \in [Workers -> WorkerRows]
      /\ \A v \in Workers : worker'[v] = IF v = w THEN r ELSE worker[v]
  BY <1>1, <1>2, <1>3 DEF TypeInv
<1>5. UNCHANGED <<incident, iteration_count, tool_call_count, evidence_count, trace, faults>>
      /\ status' = "INVESTIGATING" /\ lease' = [owner |-> w, live |-> TRUE]
      /\ claims' = claims + 1 /\ ~Finished
  BY DEF claim
<1>6. TypeInv'
  <2>1. \A v \in Workers :
            /\ worker'[v].at \in Positions
            /\ worker'[v].run \in 0..claims'
            /\ worker'[v].at = "act" => worker'[v].todo # {}
    BY <1>1, <1>2, <1>4, <1>5 DEF TypeInv, TypeOK, Positions
  <2>2. TypeOK'
    BY <1>1, <1>5, <2>1 DEF TypeInv, TypeOK, InvestigationStatus
  <2>3. TurnsOK'
    BY <1>1, <1>5 DEF TypeInv, TurnsOK, Trace!turns
  <2>4. QED
    BY <1>1, <1>4, <1>5, <2>2, <2>3 DEF TypeInv
<1>7. \A v \in Workers : Holder(v)' => v = w /\ worker'[v] = r
  BY <1>4, <1>5 DEF Holder
<1>8. FenceOK'
  BY <1>2, <1>5, <1>7, InvestigationAssumption DEF FenceOK
<1>9. Located'
  BY <1>2, <1>7 DEF Located, At
<1>10. InOrder'
  <2>1. /\ Trace!turns' = Trace!turns /\ Trace!LastTurn' = Trace!LastTurn
        /\ Trace!Unanswered' = Trace!Unanswered
    BY <1>5 DEF Trace!turns, Trace!LastTurn, Trace!Unanswered, Trace!answered, Trace!after
  <2>2. QED
    BY <1>1, <1>5, <2>1 DEF InOrder, Trace!Precedes, Trace!Reads, Trace!reading
<1>11. \A T : Executed(T)' = Executed(T)
  BY <1>5 DEF Executed
<1>12. Counted'
  BY <1>2, <1>7 DEF Counted
<1>13. BudgetsSurviveRestart'
  BY <1>1, <1>5, <1>11 DEF BudgetsSurviveRestart, Trace!turns
<1>14. QED
  BY <1>6, <1>8, <1>9, <1>10, <1>12, <1>13 DEF InvestigationInv

-----------------------------------------------------------------------------
(* The steps, one by one *)

LEMMA Unmoved ==
    ASSUME InvestigationInv, UNCHANGED vars
    PROVE  InvestigationInv'
<1>1. /\ Trace!turns' = Trace!turns /\ Trace!LastTurn' = Trace!LastTurn
      /\ Trace!Unanswered' = Trace!Unanswered /\ Trace!Unnoticed' = Trace!Unnoticed
      /\ Trace!Settled' = Trace!Settled
  BY DEF vars, row, Trace!turns, Trace!LastTurn, Trace!Unanswered, Trace!Unnoticed,
         Trace!answered, Trace!after, Trace!Settled
<1>2. \A T : Executed(T)' = Executed(T)
  BY DEF Executed, vars, row
<1>3. TypeInv'
  BY <1>1 DEF InvestigationInv, TypeInv, TypeOK, TurnsOK, vars, row
<1>4. FenceOK' /\ Located'
  BY <1>1 DEF InvestigationInv, FenceOK, Located, Holder, At, Whole, vars, row
<1>5. InOrder'
  BY <1>1 DEF InvestigationInv, InOrder, Finished, vars, row, Trace!Precedes, Trace!Reads,
              Trace!reading
<1>6. Counted' /\ BudgetsSurviveRestart'
  BY <1>1, <1>2 DEF InvestigationInv, Counted, BudgetsSurviveRestart, Holder, vars, row
<1>7. QED
  BY <1>3, <1>4, <1>5, <1>6 DEF InvestigationInv

\* A run that ends without a write.
LEMMA RunEnds ==
    ASSUME InvestigationInv, NEW w \in Workers, worker' = [worker EXCEPT ![w] = Idle],
           UNCHANGED <<incident, row, claims>>, faults' \in 0..MaxFaults
    PROVE  InvestigationInv'
<1>1. TypeInv /\ FenceOK
  BY DEF InvestigationInv
<1>2. Moved(w) /\ worker'[w] = Idle
  BY <1>1, IdleRow DEF TypeInv, Moved
<1>3. lease' = lease /\ lease \in Leases
  BY <1>1 DEF row, TypeInv, TypeOK, Leases
<1>4. ~Holder(w)' /\ worker'[w].run \in 0..claims /\ worker'[w].at # "act"
  BY <1>1, <1>2, IdleRow DEF Holder, TypeInv
<1>5. QED
  BY <1>1, <1>2, <1>3, <1>4, Local DEF row, FenceOK

LEMMA WorkerSet ==
    ASSUME worker \in [Workers -> WorkerRows], NEW w \in Workers, NEW r \in WorkerRows,
           worker' = [worker EXCEPT ![w] = r]
    PROVE  Moved(w) /\ worker'[w] = r
BY DEF Moved

LEMMA ModelConfigErrorStep ==
    ASSUME InvestigationInv, NEW w \in Workers, ModelConfigError(w)
    PROVE  InvestigationInv'
<1>1. TypeInv /\ FenceOK
  BY DEF InvestigationInv
<1>2. /\ Moved(w) /\ worker'[w].at = "stop" /\ worker'[w].run = worker[w].run
      /\ worker[w].at # "idle"
  <2> DEFINE r == [worker[w] EXCEPT !.at = "stop", !.outcome = "FAILED",
                                    !.iteration = iteration_count]
  <2>1. worker[w] \in WorkerRows /\ worker[w].at # "idle"
        /\ iteration_count \in 0..MaxIterations
    BY <1>1 DEF ModelConfigError, TypeInv, TypeOK
  <2>2. r \in WorkerRows
    BY <2>1 DEF WorkerRows, Positions
  <2>3. r.at = "stop" /\ r.run = worker[w].run
    BY <2>1 DEF WorkerRows
  <2>4. worker' = [worker EXCEPT ![w] = r]
    BY <1>1 DEF ModelConfigError
  <2> HIDE DEF r
  <2>5. QED
    BY <1>1, <2>1, <2>2, <2>3, <2>4, WorkerSet DEF TypeInv
<1>3. lease' = lease /\ lease \in Leases
  BY <1>1 DEF row, TypeInv, TypeOK, Leases, ModelConfigError
<1>4. worker'[w].run \in 0..claims /\ (Holder(w)' => worker'[w].run = claims /\ At(w)')
  BY <1>1, <1>2, <1>3 DEF TypeInv, TypeOK, FenceOK, Holder, At
<1>5. QED
  BY <1>1, <1>2, <1>3, <1>4, Local DEF row, FenceOK, ModelConfigError, TypeInv, TypeOK

LEMMA SeedToolsetStep ==
    ASSUME InvestigationInv, NEW w \in Workers, SeedToolset(w)
    PROVE  InvestigationInv'
<1>1. TypeInv /\ FenceOK
  BY DEF InvestigationInv
<1>2. /\ Cardinality(prior_calls) \in Nat
      /\ Cardinality(prior_calls) >= Cardinality(Executed(Tools))
  <2>1. Cardinality(prior_calls) \in Nat /\ Cardinality(Executed(Tools)) \in Nat
    BY <1>1, ExecutedFinite, FS_CardinalityType DEF TypeInv
  <2>2. Cardinality(Executed(Tools)) <= Cardinality(prior_calls)
    BY <1>1, ExecutedFinite, FS_Subset DEF TypeInv
  <2>3. QED
    BY <2>1, <2>2
<1>3. \A t \in Tools : {i \in prior_calls : trace[i].detail.tool = t} = Executed({t})
  BY DEF prior_calls, Executed
<1>4. \A t \in Tools : Cardinality(Executed({t})) \in Nat
  BY <1>1, ExecutedFinite, FS_CardinalityType DEF TypeInv
<1>5. /\ seeded \in [Tools -> Nat]
      /\ \A t \in Tools : seeded[t] = Cardinality(Executed({t}))
  BY <1>3, <1>4 DEF seeded
<1>6. /\ Moved(w) /\ worker'[w].at = "loop" /\ worker'[w].run = worker[w].run
      /\ worker[w].at # "idle" /\ worker'[w].seen = seeded
      /\ worker'[w].calls = Cardinality(prior_calls)
  <2> DEFINE r == [worker[w] EXCEPT !.at = "loop", !.seen = seeded,
                                    !.calls = Cardinality(prior_calls)]
  <2>1. worker[w] \in WorkerRows /\ worker[w].at # "idle"
    BY <1>1 DEF SeedToolset, TypeInv
  <2>2. /\ r \in WorkerRows
        /\ r.at = "loop" /\ r.run = worker[w].run
        /\ r.seen = seeded /\ r.calls = Cardinality(prior_calls)
    BY <1>2, <1>5, <2>1 DEF WorkerRows, Positions
  <2>3. worker' = [worker EXCEPT ![w] = r]
    BY <1>1 DEF SeedToolset
  <2> HIDE DEF r
  <2>4. QED
    BY <1>1, <2>1, <2>2, <2>3, WorkerSet DEF TypeInv
<1>7. lease' = lease /\ lease \in Leases
  BY <1>1 DEF row, TypeInv, TypeOK, Leases, SeedToolset
<1>8. trace # <<>> /\ trace' = trace
  BY DEF SeedToolset, ToSet, row
<1>9. worker'[w].run \in 0..claims /\ (Holder(w)' => worker'[w].run = claims /\ At(w)')
  BY <1>1, <1>6, <1>7, <1>8 DEF TypeInv, TypeOK, FenceOK, Holder, At
<1>10. /\ worker'[w].calls >= Cardinality(Executed(Tools))
       /\ \A t \in Tools : worker'[w].seen[t] >= Cardinality(Executed({t}))
  BY <1>2, <1>4, <1>5, <1>6
<1>11. QED
  BY <1>1, <1>6, <1>7, <1>9, <1>10, Local DEF row, FenceOK, SeedToolset, TypeInv, TypeOK

LEMMA DecisionCalls ==
    ASSUME NEW turn \in Seq(STRING), NEW S \in SUBSET DOMAIN turn
    PROVE  decision(turn, S) \in SUBSET Calls /\ (S # {} => decision(turn, S) # {})
<1>1. \A i \in S : turn[i] \in STRING /\ i \in Nat
  OBVIOUS
<1>2. \A i \in S : Trace!reading(turn, S, i) \in Readings
  BY ReadingKinds
<1>3. \A i \in S :
         [call |-> i, tool |-> turn[i], as |-> Trace!reading(turn, S, i)] \in Calls
  BY <1>1, <1>2 DEF Calls
<1>4. QED
  BY <1>3 DEF decision

LEMMA FinalReasons ==
    ASSUME NEW k, NEW answering
    PROVE  final_turn_reason(k, answering) \in {"none", "iterations", "tool_calls", "evidence"}
BY DEF final_turn_reason

\* What Load makes of a worker, whoever holds the lease.
LEMMA Loaded ==
    ASSUME InvestigationInv, NEW w \in Workers, worker[w].at = "loop", NEW r \in WorkerRows,
           worker' = [worker EXCEPT ![w] = r],
           UNCHANGED <<incident, row, claims, faults>>,
           r.at # "start", r.run = worker[w].run, r.calls = worker[w].calls,
           r.seen = worker[w].seen, r.at = "act" => r.todo # {}, Holder(w) => At(w)'
    PROVE  InvestigationInv'
<1>1. TypeInv /\ FenceOK /\ Counted
  BY DEF InvestigationInv
<1>2. Moved(w) /\ worker'[w] = r
  BY <1>1, WorkerSet DEF TypeInv
<1>3. lease' = lease /\ lease \in Leases
  BY <1>1 DEF row, TypeInv, TypeOK, Leases
<1>4. Holder(w)' => Holder(w)
  BY <1>2, <1>3 DEF Holder
<1>5. worker'[w].run \in 0..claims /\ (Holder(w)' => worker'[w].run = claims)
  BY <1>1, <1>2, <1>4 DEF TypeInv, TypeOK, FenceOK
<1>6. Holder(w)' => /\ worker'[w].calls >= Cardinality(Executed(Tools))
                    /\ \A t \in Tools : worker'[w].seen[t] >= Cardinality(Executed({t}))
  BY <1>1, <1>2, <1>4 DEF Counted
<1>7. QED
  BY <1>1, <1>2, <1>3, <1>4, <1>5, <1>6, Local DEF row, FenceOK, TypeInv, TypeOK

LEMMA LoadStep ==
    ASSUME InvestigationInv, NEW w \in Workers, Load(w)
    PROVE  InvestigationInv'
<1>1. TypeInv /\ FenceOK /\ Located /\ InOrder
  BY DEF InvestigationInv
<1>2. /\ worker[w].at = "loop" /\ worker[w] \in WorkerRows
      /\ UNCHANGED <<incident, row, claims, faults>> /\ trace' = trace
  BY <1>1 DEF Load, row, TypeInv
<1>3. worker \in [Workers -> WorkerRows]
  BY <1>1 DEF TypeInv
<1>4. Holder(w) => trace # <<>>
  BY <1>1, <1>2 DEF Located, At
<1>5. /\ Trace!turns' = Trace!turns /\ Trace!LastTurn' = Trace!LastTurn
      /\ Trace!Unanswered' = Trace!Unanswered /\ Trace!Unnoticed' = Trace!Unnoticed
      /\ Trace!Settled' = Trace!Settled
      /\ evidence_count' = evidence_count /\ iteration_count' = iteration_count
  BY <1>2 DEF row, Trace!turns, Trace!LastTurn, Trace!Unanswered, Trace!Unnoticed,
              Trace!answered, Trace!after, Trace!Settled
<1>6. CASE worker' = [worker EXCEPT ![w] = Idle]
  BY <1>1, <1>2, <1>6, RunEnds DEF TypeInv, TypeOK
<1>7. ASSUME ~Finished, pending # {},
             worker' = [worker EXCEPT
                ![w].at = "act", ![w].iteration = Trace!LastTurn.iteration,
                ![w].final = final_turn_reason(Trace!LastTurn.iteration, TRUE),
                ![w].todo = decision(Trace!LastTurn.detail, pending),
                ![w].used_evidence = evidence_count]
      PROVE  InvestigationInv'
  <2> DEFINE turn == Trace!LastTurn.detail
             r == [worker[w] EXCEPT
                !.at = "act", !.iteration = Trace!LastTurn.iteration,
                !.final = final_turn_reason(Trace!LastTurn.iteration, TRUE),
                !.todo = decision(turn, pending), !.used_evidence = evidence_count]
  <2>1. Trace!turns # {} /\ pending = Trace!Unanswered
    BY <1>7 DEF pending, Trace!Unanswered
  <2>2. turn \in Seq(STRING) /\ Trace!LastTurn.iteration \in 0..MaxIterations
    BY <1>1, <2>1, LastIsTurn, InvestigationAssumption DEF TypeInv, Rows
  <2>3. Trace!Unanswered \subseteq DOMAIN turn /\ DOMAIN turn \subseteq Nat
    BY <2>1, <2>2 DEF Trace!Unanswered
  <2>4. worker' = [worker EXCEPT ![w] = r]
    BY <1>3, <1>7
  <2> HIDE DEF turn
  <2>5. \A i \in Trace!Unanswered :
           Trace!reading(turn, Trace!Unanswered, i) = Trace!Reads(turn, i)
    BY <1>1, <1>7, <2>1, <2>2, <2>3, RestReadsTheSame DEF InOrder, turn
  <2>6. decision(turn, pending) = Whole(turn, Trace!Unanswered)
    BY <2>1, <2>5 DEF decision, Whole
  <2>7. decision(turn, pending) \in SUBSET Calls /\ decision(turn, pending) # {}
    BY <1>7, <2>1, <2>2, <2>3, DecisionCalls
  <2>8. /\ r \in WorkerRows /\ r.at = "act" /\ r.iteration = Trace!LastTurn.iteration
        /\ r.todo = decision(turn, pending) /\ r.used_evidence = evidence_count
        /\ r.run = worker[w].run /\ r.calls = worker[w].calls /\ r.seen = worker[w].seen
    <3>1. evidence_count \in Nat
      BY <1>1 DEF TypeInv, TypeOK
    <3>2. QED
      BY <1>2, <2>2, <2>7, <3>1, FinalReasons DEF WorkerRows, Positions
  <2> HIDE DEF r
  <2>9. worker'[w] = r
    BY <1>3, <2>4
  <2>10. r.todo = Whole(Trace!LastTurn'.detail, Trace!Unanswered')
    BY <1>5, <2>6, <2>8 DEF turn
  <2>11. Holder(w) => At(w)'
    BY <1>2, <1>4, <1>5, <2>1, <2>7, <2>8, <2>9, <2>10
       DEF At, Whole, Trace!Reads, Trace!reading
  <2>12. QED
    BY <1>2, <2>4, <2>7, <2>8, <2>11, Loaded
<1>8. ASSUME Trace!Unnoticed,
             worker' = [worker EXCEPT ![w].at = "no_action", ![w].final = "none",
                                      ![w].iteration = Trace!LastTurn.iteration]
      PROVE  InvestigationInv'
  <2> DEFINE r == [worker[w] EXCEPT !.at = "no_action", !.final = "none",
                                    !.iteration = Trace!LastTurn.iteration]
  <2>1. Trace!LastTurn.iteration \in 0..MaxIterations
    BY <1>1, <1>8, LastIsTurn DEF TypeInv, Rows, Trace!Unnoticed
  <2>2. /\ r \in WorkerRows /\ r.at = "no_action" /\ r.iteration = Trace!LastTurn.iteration
        /\ r.run = worker[w].run /\ r.calls = worker[w].calls /\ r.seen = worker[w].seen
    BY <1>2, <2>1 DEF WorkerRows, Positions
  <2>3. worker' = [worker EXCEPT ![w] = r]
    BY <1>3, <1>8
  <2> HIDE DEF r
  <2>4. worker'[w] = r
    BY <1>3, <2>3
  <2>5. Holder(w) => At(w)'
    BY <1>2, <1>4, <1>5, <1>8, <2>2, <2>4 DEF At
  <2>6. QED
    BY <1>2, <2>2, <2>3, <2>5, Loaded
<1>9. ASSUME NEW o \in {"ESCALATED", "FAILED"},
             worker' = [worker EXCEPT ![w].at = "stop", ![w].outcome = o,
                                      ![w].iteration = iteration_count]
      PROVE  InvestigationInv'
  <2> DEFINE r == [worker[w] EXCEPT !.at = "stop", !.outcome = o,
                                    !.iteration = iteration_count]
  <2>1. iteration_count \in 0..MaxIterations
    BY <1>1 DEF TypeInv, TypeOK
  <2>2. /\ r \in WorkerRows /\ r.at = "stop"
        /\ r.run = worker[w].run /\ r.calls = worker[w].calls /\ r.seen = worker[w].seen
    BY <1>2, <2>1 DEF WorkerRows, Positions
  <2>3. worker' = [worker EXCEPT ![w] = r]
    BY <1>3, <1>9
  <2> HIDE DEF r
  <2>4. worker'[w] = r
    BY <1>3, <2>3
  <2>5. Holder(w) => At(w)'
    BY <2>2, <2>4 DEF At
  <2>6. QED
    BY <1>2, <2>2, <2>3, <2>5, Loaded
<1>10. ASSUME pending = {}, ~Trace!Unnoticed, "none" \in LimitOutcomes,
              worker' = [worker EXCEPT ![w].at = "notice", ![w].iteration = iteration_count + 1,
                           ![w].attempt = 1,
                           ![w].final = final_turn_reason(iteration_count + 1, FALSE)]
       PROVE  InvestigationInv'
  <2> DEFINE r == [worker[w] EXCEPT !.at = "notice", !.iteration = iteration_count + 1,
                           !.attempt = 1,
                           !.final = final_turn_reason(iteration_count + 1, FALSE)]
  <2>1. iteration_count + 1 \in 0..MaxIterations
    BY <1>1, <1>10, Bounds DEF TypeInv, TypeOK, LimitOutcomes
  <2>2. /\ r \in WorkerRows /\ r.at = "notice" /\ r.iteration = iteration_count + 1
        /\ r.run = worker[w].run /\ r.calls = worker[w].calls /\ r.seen = worker[w].seen
    BY <1>2, <2>1, FinalReasons DEF WorkerRows, Positions
  <2>3. worker' = [worker EXCEPT ![w] = r]
    BY <1>3, <1>10
  <2> HIDE DEF r
  <2>4. worker'[w] = r
    BY <1>3, <2>3
  <2>5. Trace!Settled
    BY <1>10 DEF pending, Trace!Settled
  <2>6. Holder(w) => At(w)'
    BY <1>2, <1>4, <1>5, <2>2, <2>4, <2>5 DEF At
  <2>7. QED
    BY <1>2, <2>2, <2>3, <2>6, Loaded
<1>11. LimitOutcomes \ {"none"} \subseteq {"ESCALATED", "FAILED"}
  BY DEF LimitOutcomes
<1>12. QED
  BY <1>6, <1>7, <1>8, <1>9, <1>10, <1>11 DEF Load

LEMMA StepRow ==
    ASSUME NEW kind \in Kinds, NEW k \in 0..MaxIterations, NEW call \in Nat,
           NEW detail \in Details
    PROVE  /\ Trace!Step(kind, k, call, detail) \in Rows
           /\ Trace!Step(kind, k, call, detail).kind = kind
           /\ Trace!Step(kind, k, call, detail).iteration = k
           /\ Trace!Step(kind, k, call, detail).call = call
           /\ Trace!Step(kind, k, call, detail).detail = detail
<1>1. [kind |-> kind, iteration |-> k, call |-> call, detail |-> detail] \in Rows
  BY DEF Rows
<1>2. QED
  BY <1>1 DEF Trace!Step

\* What record_step does with a row that is not a turn.
LEMMA Recorded ==
    ASSUME TypeInv, NEW w \in Workers, NEW kind, kind # "model_turn", NEW k, NEW call,
           NEW detail, NEW counted \in BOOLEAN, NEW found \in Nat,
           record_step(w, kind, k, call, detail, counted, found)
    PROVE  /\ fenced(w)
           /\ trace' = Append(trace, Trace!Step(kind, k, call, detail))
           /\ lease' \in Leases /\ lease'.owner = w
           /\ UNCHANGED <<incident, status, iteration_count, claims, faults>>
           /\ tool_call_count' \in Nat /\ evidence_count' \in Nat
           /\ evidence_count' = evidence_count + found
BY DEF record_step, append_step, Leases, TypeInv, TypeOK

LEMMA RecordContextStep ==
    ASSUME InvestigationInv, NEW w \in Workers, RecordContext(w)
    PROVE  InvestigationInv'
<1> DEFINE s == Trace!Step("context", 0, 0, "none")
           r == [worker[w] EXCEPT !.at = "loop"]
<1>1. TypeInv /\ FenceOK /\ Located /\ InOrder
  BY DEF InvestigationInv
<1>2. s \in Rows /\ s.kind = "context" /\ s.call = 0
  <2>1. "context" \in Kinds /\ 0 \in 0..MaxIterations /\ 0 \in Nat /\ "none" \in Details
    BY Bounds DEF Kinds, Details, Notes
  <2>2. QED
    BY <2>1, StepRow
<1>3. /\ fenced(w) /\ trace' = Append(trace, s) /\ lease' \in Leases /\ lease'.owner = w
      /\ UNCHANGED <<incident, status, iteration_count, claims, faults>>
      /\ tool_call_count' \in Nat /\ evidence_count' \in Nat /\ evidence_count' = evidence_count
  <2>1. record_step(w, "context", 0, 0, "none", FALSE, 0)
    BY DEF RecordContext, record
  <2>2. FALSE \in BOOLEAN /\ 0 \in Nat /\ evidence_count \in Nat
    BY <1>1 DEF TypeInv, TypeOK
  <2>3. /\ fenced(w) /\ trace' = Append(trace, s) /\ lease' \in Leases /\ lease'.owner = w
        /\ UNCHANGED <<incident, status, iteration_count, claims, faults>>
        /\ tool_call_count' \in Nat /\ evidence_count' \in Nat
        /\ evidence_count' = evidence_count + 0
    BY <1>1, <2>1, <2>2, Recorded, Zenon
  <2> HIDE DEF s
  <2>4. QED
    BY <2>2, <2>3
<1> HIDE DEF s
<1>4. worker[w] \in WorkerRows /\ worker[w].at = "start" /\ worker \in [Workers -> WorkerRows]
  BY <1>1 DEF RecordContext, TypeInv
<1>5. r \in WorkerRows /\ r.at = "loop" /\ r.run = worker[w].run
  BY <1>4 DEF WorkerRows, Positions
<1>6. worker' = [worker EXCEPT ![w] = r]
  BY <1>4 DEF RecordContext, goto
<1> HIDE DEF r
<1>7. Moved(w) /\ worker'[w] = r
  BY <1>4, <1>5, <1>6, WorkerSet
<1>8. At(w)'
  <2>1. trace' # <<>>
    BY <1>1, <1>2, <1>3, AppendedRow DEF TypeInv
  <2>2. QED
    BY <1>5, <1>7, <2>1 DEF At
<1>9. TypeInv' /\ FenceOK' /\ Located' /\ InOrder'
  BY <1>1, <1>2, <1>3, <1>4, <1>5, <1>7, <1>8, Write
<1>10. trace = <<>>
  BY <1>1, <1>3 DEF InOrder, fenced, Finished, Trace!TERMINAL_INVESTIGATION_STATUSES,
                    RecordContext
<1>11. \A T : Cardinality(Executed(T))' = 0
  <2>1. \A T : Executed(T)' = Executed(T)
    BY <1>1, <1>2, <1>3, ExecutedKept DEF TypeInv, IsCounted
  <2>2. \A T : Executed(T) = {}
    BY <1>10 DEF Executed
  <2>3. QED
    BY <2>1, <2>2, FS_EmptySet
<1>12. Counted' /\ BudgetsSurviveRestart'
  <2>1. \A v \in Workers : worker'[v].calls \in Nat /\ worker'[v].seen \in [Tools -> Nat]
    BY <1>7 DEF Moved, WorkerRows
  <2>2. Counted'
    BY <1>11, <2>1 DEF Counted
  <2>3. BudgetsSurviveRestart'
    BY <1>3, <1>9, <1>11, Bounds DEF BudgetsSurviveRestart, InvestigationInv, TypeInv, TurnsOK
  <2>4. QED
    BY <2>2, <2>3
<1>13. QED
  BY <1>9, <1>12 DEF InvestigationInv

LEMMA BudgetNoticeStep ==
    ASSUME InvestigationInv, NEW w \in Workers, BudgetNotice(w)
    PROVE  InvestigationInv'
<1> DEFINE s == Trace!Step("feedback", worker[w].iteration, 0, "budget")
           r == [worker[w] EXCEPT !.at = "model"]
<1>1. TypeInv /\ FenceOK /\ Located /\ InOrder
  BY DEF InvestigationInv
<1>2. worker[w] \in WorkerRows /\ worker[w].at = "notice" /\ worker \in [Workers -> WorkerRows]
  BY <1>1 DEF BudgetNotice, TypeInv
<1>3. s \in Rows /\ s.kind = "feedback" /\ s.call = 0
  <2>1. "feedback" \in Kinds /\ worker[w].iteration \in 0..MaxIterations /\ "budget" \in Details
    BY <1>2 DEF Kinds, Details, Notes, WorkerRows
  <2>2. QED
    BY <2>1, StepRow
<1>4. /\ fenced(w) /\ trace' = Append(trace, s) /\ lease' \in Leases /\ lease'.owner = w
      /\ UNCHANGED <<incident, status, iteration_count, claims, faults>>
      /\ tool_call_count' \in Nat /\ evidence_count' \in Nat /\ evidence_count' = evidence_count
  <2>1. record_step(w, "feedback", worker[w].iteration, 0, "budget", FALSE, 0)
    BY DEF BudgetNotice, record
  <2>2. FALSE \in BOOLEAN /\ 0 \in Nat /\ evidence_count \in Nat
    BY <1>1 DEF TypeInv, TypeOK
  <2>3. /\ fenced(w) /\ trace' = Append(trace, s) /\ lease' \in Leases /\ lease'.owner = w
        /\ UNCHANGED <<incident, status, iteration_count, claims, faults>>
        /\ tool_call_count' \in Nat /\ evidence_count' \in Nat
        /\ evidence_count' = evidence_count + 0
    BY <1>1, <2>1, <2>2, Recorded, Zenon
  <2> HIDE DEF s
  <2>4. QED
    BY <2>2, <2>3
<1> HIDE DEF s
<1>5. /\ r \in WorkerRows /\ r.at = "model" /\ r.run = worker[w].run
      /\ r.iteration = worker[w].iteration
      /\ r.calls = worker[w].calls /\ r.seen = worker[w].seen
  BY <1>2 DEF WorkerRows, Positions
<1>6. worker' = [worker EXCEPT ![w] = r]
  BY <1>2 DEF BudgetNotice, goto
<1> HIDE DEF r
<1>7. Moved(w) /\ worker'[w] = r
  BY <1>2, <1>5, <1>6, WorkerSet
<1>8. Holder(w)
  BY <1>2, <1>4 DEF Holder, fenced
<1>9. trace # <<>> /\ Trace!Settled /\ worker[w].iteration = iteration_count + 1
  BY <1>1, <1>2, <1>8 DEF Located, At
<1>10. At(w)'
  <2>1. trace' # <<>>
    BY <1>1, <1>3, <1>4, AppendedRow DEF TypeInv
  <2>2. Trace!Settled'
    BY <1>1, <1>3, <1>4, <1>9, RowAdded DEF TypeInv, Trace!Settled
  <2>3. QED
    BY <1>4, <1>5, <1>7, <1>9, <2>1, <2>2 DEF At
<1>11. TypeInv' /\ FenceOK' /\ Located' /\ InOrder'
  BY <1>1, <1>2, <1>3, <1>4, <1>5, <1>7, <1>9, <1>10, Write
<1>12. Counted' /\ BudgetsSurviveRestart'
  BY <1>2, <1>3, <1>4, <1>5, <1>7, <1>8, <1>11, NothingSpent DEF IsCounted
<1>13. QED
  BY <1>11, <1>12 DEF InvestigationInv

LEMMA NoActionStep ==
    ASSUME InvestigationInv, NEW w \in Workers, NoAction(w)
    PROVE  InvestigationInv'
<1> DEFINE s == Trace!Step("feedback", worker[w].iteration, 0, "no_action")
           r == [worker[w] EXCEPT !.at = AfterDecision(w)]
<1>1. TypeInv /\ FenceOK /\ Located /\ InOrder
  BY DEF InvestigationInv
<1>2. /\ worker[w] \in WorkerRows /\ worker[w].at = "no_action"
      /\ worker \in [Workers -> WorkerRows]
  BY <1>1 DEF NoAction, TypeInv
<1>3. s \in Rows /\ s.kind = "feedback" /\ s.call = 0
  <2>1. /\ "feedback" \in Kinds /\ worker[w].iteration \in 0..MaxIterations
        /\ "no_action" \in Details
    BY <1>2 DEF Kinds, Details, Notes, WorkerRows
  <2>2. QED
    BY <2>1, StepRow
<1>4. /\ fenced(w) /\ trace' = Append(trace, s) /\ lease' \in Leases /\ lease'.owner = w
      /\ UNCHANGED <<incident, status, iteration_count, claims, faults>>
      /\ tool_call_count' \in Nat /\ evidence_count' \in Nat /\ evidence_count' = evidence_count
  <2>1. record_step(w, "feedback", worker[w].iteration, 0, "no_action", FALSE, 0)
    BY DEF NoAction, record
  <2>2. FALSE \in BOOLEAN /\ 0 \in Nat /\ evidence_count \in Nat
    BY <1>1 DEF TypeInv, TypeOK
  <2>3. /\ fenced(w) /\ trace' = Append(trace, s) /\ lease' \in Leases /\ lease'.owner = w
        /\ UNCHANGED <<incident, status, iteration_count, claims, faults>>
        /\ tool_call_count' \in Nat /\ evidence_count' \in Nat
        /\ evidence_count' = evidence_count + 0
    BY <1>1, <2>1, <2>2, Recorded, Zenon
  <2> HIDE DEF s
  <2>4. QED
    BY <2>2, <2>3
<1> HIDE DEF s
<1>5. /\ r \in WorkerRows /\ r.at \in {"stop", "loop"} /\ r.run = worker[w].run
      /\ r.calls = worker[w].calls /\ r.seen = worker[w].seen
  BY <1>2 DEF WorkerRows, Positions, AfterDecision
<1>6. worker' = [worker EXCEPT ![w] = r]
  BY <1>2 DEF NoAction, goto
<1> HIDE DEF r
<1>7. Moved(w) /\ worker'[w] = r
  BY <1>2, <1>5, <1>6, WorkerSet
<1>8. Holder(w)
  BY <1>2, <1>4 DEF Holder, fenced
<1>9. trace # <<>>
  BY <1>1, <1>2, <1>8 DEF Located, At
<1>10. At(w)'
  <2>1. trace' # <<>>
    BY <1>1, <1>3, <1>4, AppendedRow DEF TypeInv
  <2>2. QED
    BY <1>5, <1>7, <2>1 DEF At
<1>11. TypeInv' /\ FenceOK' /\ Located' /\ InOrder'
  BY <1>1, <1>2, <1>3, <1>4, <1>5, <1>7, <1>9, <1>10, Write
<1>12. Counted' /\ BudgetsSurviveRestart'
  BY <1>2, <1>3, <1>4, <1>5, <1>7, <1>8, <1>11, NothingSpent DEF IsCounted
<1>13. QED
  BY <1>11, <1>12 DEF InvestigationInv

\* An answer to the next call that spends nothing.
LEMMA AnswerStep ==
    ASSUME InvestigationInv, NEW w \in Workers, NEW c \in worker[w].todo, NEW as,
           Handling(w, c, as), fenced(w),
           NEW kind \in Kinds, kind \notin {"model_turn", "tool_call"},
           trace' = Append(trace, Trace!Step(kind, worker[w].iteration, c.call, "none")),
           lease' \in Leases, lease'.owner = w, answered(w, c),
           UNCHANGED <<incident, status, iteration_count, evidence_count, claims, faults>>,
           tool_call_count' \in Nat
    PROVE  InvestigationInv'
<1> DEFINE s == Trace!Step(kind, worker[w].iteration, c.call, "none")
           r == [worker[w] EXCEPT !.todo = worker[w].todo \ {c}, !.at = AfterCall(w, c)]
<1>1. TypeInv /\ FenceOK /\ Located /\ InOrder
  BY DEF InvestigationInv
<1>2. /\ worker[w] \in WorkerRows /\ worker[w].at = "act"
      /\ worker \in [Workers -> WorkerRows] /\ Holder(w)
  BY <1>1 DEF Handling, TypeInv, Holder, fenced
<1>3. trace # <<>> /\ worker[w].used_evidence = evidence_count
  BY <1>1, <1>2 DEF Located, At
<1>4. Trace!turns # {} /\ Trace!IsNext(c.call) /\ c.call \in Nat
  BY <1>1, <1>2, NextCall
<1>5. s \in Rows /\ s.kind = kind /\ s.call = c.call
  <2>1. worker[w].iteration \in 0..MaxIterations /\ "none" \in Details
    BY <1>2 DEF Details, Notes, WorkerRows
  <2>2. QED
    BY <1>4, <2>1, StepRow
<1>6. trace' = Append(trace, s)
  OBVIOUS
<1> HIDE DEF s
<1>7. /\ r \in WorkerRows /\ r.at = AfterCall(w, c) /\ r.at \in {"act", "stop", "loop"}
      /\ r.todo = worker[w].todo \ {c} /\ r.run = worker[w].run
      /\ r.iteration = worker[w].iteration /\ r.used_evidence = worker[w].used_evidence
      /\ r.calls = worker[w].calls /\ r.seen = worker[w].seen
  BY <1>2 DEF WorkerRows, Positions, AfterCall, AfterDecision
<1>8. worker' = [worker EXCEPT ![w] = r]
  BY <1>2 DEF answered
<1> HIDE DEF r
<1>9. Moved(w) /\ worker'[w] = r
  BY <1>2, <1>7, <1>8, WorkerSet
<1>10. At(w)'
  BY <1>1, <1>2, <1>3, <1>5, <1>6, <1>7, <1>9, Answered
<1>11. TypeInv' /\ FenceOK' /\ Located' /\ InOrder'
  <2>1. evidence_count' \in Nat
    BY <1>1 DEF TypeInv, TypeOK
  <2>2. QED
    BY <1>1, <1>2, <1>3, <1>4, <1>5, <1>6, <1>7, <1>9, <1>10, <2>1, Write
<1>12. Counted' /\ BudgetsSurviveRestart'
  BY <1>2, <1>5, <1>6, <1>7, <1>9, <1>11, NothingSpent DEF IsCounted
<1>13. QED
  BY <1>11, <1>12 DEF InvestigationInv

LEMMA UpdateHypothesesStep ==
    ASSUME InvestigationInv, NEW w \in Workers, UpdateHypotheses(w)
    PROVE  InvestigationInv'
<1>1. PICK c \in worker[w].todo :
        /\ Handling(w, c, "hypothesis_update")
        /\ answer_decision(w, "hypothesis_update", c.call)
        /\ answered(w, c)
  BY DEF UpdateHypotheses
<1>2. lease' \in Leases /\ lease'.owner = w /\ tool_call_count' \in Nat
  BY <1>1 DEF answer_decision, fenced, InvestigationInv, TypeInv, TypeOK, Leases
<1>3. "hypothesis_update" \in Kinds
  BY DEF Kinds
<1>4. QED
  BY <1>1, <1>2, <1>3, AnswerStep DEF answer_decision, append_step

LEMMA RejectCallStep ==
    ASSUME InvestigationInv, NEW w \in Workers, RejectCall(w)
    PROVE  InvestigationInv'
<1>1. PICK c \in worker[w].todo :
        /\ Handling(w, c, "invalid_call")
        /\ record_step(w, "invalid_call", worker[w].iteration, c.call, "none", FALSE, 0)
        /\ answered(w, c)
  BY DEF RejectCall
<1>2. TypeInv /\ evidence_count \in Nat
  BY DEF InvestigationInv, TypeInv, TypeOK
<1>3. /\ fenced(w) /\ lease' \in Leases /\ lease'.owner = w /\ tool_call_count' \in Nat
      /\ trace' = Append(trace, Trace!Step("invalid_call", worker[w].iteration, c.call, "none"))
      /\ UNCHANGED <<incident, status, iteration_count, claims, faults>>
      /\ evidence_count' = evidence_count
  <2>1. FALSE \in BOOLEAN /\ 0 \in Nat
    OBVIOUS
  <2>2. /\ fenced(w) /\ lease' \in Leases /\ lease'.owner = w /\ tool_call_count' \in Nat
        /\ trace' = Append(trace, Trace!Step("invalid_call", worker[w].iteration, c.call, "none"))
        /\ UNCHANGED <<incident, status, iteration_count, claims, faults>>
        /\ evidence_count' = evidence_count + 0
    BY <1>1, <1>2, <2>1, Recorded, Zenon
  <2>3. QED
    BY <1>2, <2>2
<1>4. "invalid_call" \in Kinds
  BY DEF Kinds
<1>5. QED
  BY <1>1, <1>3, <1>4, AnswerStep

LEMMA ConcludeStep ==
    ASSUME InvestigationInv, NEW w \in Workers, Conclude(w)
    PROVE  InvestigationInv'
<1>1. PICK c \in worker[w].todo :
        /\ Handling(w, c, "conclude_investigation")
        /\ \/ complete(w, c.call)
           \/ answer_decision(w, "conclusion_rejected", c.call) /\ answered(w, c)
  BY DEF Conclude
<1>2. TypeInv /\ Located /\ worker[w].at # "idle"
  BY <1>1 DEF InvestigationInv, Handling
<1>3. ASSUME complete(w, c.call) PROVE InvestigationInv'
  <2>1. Holder(w)
    BY <1>2, <1>3 DEF complete, finish, fenced, Holder
  <2>2. c.call \in Nat
    BY <1>1, <1>2, <2>1, NextCall
  <2>3. "root_cause_identified" \in Notes /\ "COMPLETED" \in Trace!TERMINAL_INVESTIGATION_STATUSES
    BY DEF Notes, Trace!TERMINAL_INVESTIGATION_STATUSES
  <2>4. QED
    BY <1>2, <1>3, <2>2, <2>3, End DEF complete
<1>4. ASSUME answer_decision(w, "conclusion_rejected", c.call), answered(w, c)
      PROVE  InvestigationInv'
  <2>1. lease' \in Leases /\ lease'.owner = w /\ tool_call_count' \in Nat
    BY <1>4 DEF answer_decision, fenced, InvestigationInv, TypeInv, TypeOK, Leases
  <2>2. "conclusion_rejected" \in Kinds
    BY DEF Kinds
  <2>3. QED
    BY <1>1, <1>4, <2>1, <2>2, AnswerStep DEF answer_decision, append_step
<1>5. QED
  BY <1>1, <1>3, <1>4

LEMMA DeclareInconclusiveStep ==
    ASSUME InvestigationInv, NEW w \in Workers, DeclareInconclusive(w)
    PROVE  InvestigationInv'
<1>1. PICK c \in worker[w].todo :
        /\ Handling(w, c, "declare_inconclusive")
        /\ escalate(w, "ESCALATED", c.call, "inconclusive")
  BY DEF DeclareInconclusive
<1>2. TypeInv /\ Located /\ worker[w].at # "idle"
  BY <1>1 DEF InvestigationInv, Handling
<1>3. Holder(w)
  BY <1>1, <1>2 DEF escalate, finish, fenced, Holder
<1>4. c.call \in Nat
  BY <1>1, <1>2, <1>3, NextCall
<1>5. "inconclusive" \in Notes /\ "ESCALATED" \in Trace!TERMINAL_INVESTIGATION_STATUSES
  BY DEF Notes, Trace!TERMINAL_INVESTIGATION_STATUSES
<1>6. QED
  BY <1>1, <1>2, <1>4, <1>5, End DEF escalate

LEMMA StopStep ==
    ASSUME InvestigationInv, NEW w \in Workers, Stop(w)
    PROVE  InvestigationInv'
<1>1. worker[w].at # "idle" /\ worker[w].outcome \in {"ESCALATED", "FAILED"}
      /\ escalate(w, worker[w].outcome, 0, worker[w].outcome)
  BY DEF Stop, InvestigationInv, TypeInv, WorkerRows
<1>2. PICK o \in {"ESCALATED", "FAILED"} : o = worker[w].outcome
  BY <1>1
<1>3. o \in Notes /\ o \in Trace!TERMINAL_INVESTIGATION_STATUSES /\ 0 \in Nat
  BY DEF Notes, Trace!TERMINAL_INVESTIGATION_STATUSES
<1>4. finish(w, o, "ESCALATED", 0, o)
  BY <1>1, <1>2 DEF escalate
<1>5. QED
  BY <1>1, <1>3, <1>4, End

LEMMA ModelErrorStep ==
    ASSUME InvestigationInv, NEW w \in Workers, ModelError(w)
    PROVE  InvestigationInv'
<1>1. TypeInv /\ FenceOK /\ Located /\ Counted
  BY DEF InvestigationInv
<1>2. /\ worker[w] \in WorkerRows /\ worker \in [Workers -> WorkerRows]
      /\ worker[w].at = "model" /\ Holder(w)
  BY <1>1 DEF ModelError, TypeInv, Holder, fenced
<1>3. lease' \in Leases /\ lease'.owner = w /\ lease.owner = w /\ NoOne \notin Workers
  BY InvestigationAssumption DEF ModelError, fenced, Leases
<1>4. \/ worker' = [worker EXCEPT ![w].at = "stop", ![w].outcome = "FAILED"]
      \/ worker' = [worker EXCEPT ![w].attempt = worker[w].attempt + 1]
  BY <1>2 DEF ModelError, stop
<1>5. \E r \in WorkerRows :
        /\ worker' = [worker EXCEPT ![w] = r]
        /\ r.at \in {"stop", "model"} /\ r.run = worker[w].run
        /\ r.iteration = worker[w].iteration
        /\ r.calls = worker[w].calls /\ r.seen = worker[w].seen
  <2>1. CASE worker' = [worker EXCEPT ![w].at = "stop", ![w].outcome = "FAILED"]
    <3> DEFINE r == [worker[w] EXCEPT !.at = "stop", !.outcome = "FAILED"]
    <3>1. /\ r \in WorkerRows /\ r.at = "stop" /\ r.run = worker[w].run
          /\ r.iteration = worker[w].iteration
          /\ r.calls = worker[w].calls /\ r.seen = worker[w].seen
      BY <1>2 DEF WorkerRows, Positions
    <3>2. worker' = [worker EXCEPT ![w] = r]
      BY <1>2, <2>1
    <3> HIDE DEF r
    <3>3. QED
      BY <3>1, <3>2
  <2>2. CASE worker' = [worker EXCEPT ![w].attempt = worker[w].attempt + 1]
    <3> DEFINE r == [worker[w] EXCEPT !.attempt = worker[w].attempt + 1]
    <3>1. /\ r \in WorkerRows /\ r.at = "model" /\ r.run = worker[w].run
          /\ r.iteration = worker[w].iteration
          /\ r.calls = worker[w].calls /\ r.seen = worker[w].seen
      BY <1>2 DEF WorkerRows
    <3>2. worker' = [worker EXCEPT ![w] = r]
      BY <1>2, <2>2
    <3> HIDE DEF r
    <3>3. QED
      BY <3>1, <3>2
  <2>3. QED
    BY <1>4, <2>1, <2>2
<1>6. PICK r \in WorkerRows :
        /\ worker' = [worker EXCEPT ![w] = r]
        /\ r.at \in {"stop", "model"} /\ r.run = worker[w].run
        /\ r.iteration = worker[w].iteration
        /\ r.calls = worker[w].calls /\ r.seen = worker[w].seen
  BY <1>5
<1>7. Moved(w) /\ worker'[w] = r
  BY <1>2, <1>6, WorkerSet
<1>8. UNCHANGED <<incident, status, iteration_count, tool_call_count, evidence_count,
                  trace, claims, faults>>
  BY DEF ModelError
<1>9. At(w)'
  <2>1. At(w)
    BY <1>1, <1>2 DEF Located
  <2>2. Trace!Settled' = Trace!Settled
    BY <1>8 DEF Trace!turns, Trace!LastTurn, Trace!Unanswered, Trace!Unnoticed,
                Trace!answered, Trace!after, Trace!Settled
  <2>3. QED
    BY <1>2, <1>6, <1>7, <1>8, <2>1, <2>2 DEF At
<1>10. worker'[w].run \in 0..claims /\ worker'[w].run = claims
  BY <1>1, <1>2, <1>6, <1>7 DEF TypeInv, TypeOK, FenceOK
<1>11. /\ worker'[w].calls >= Cardinality(Executed(Tools))
       /\ \A t \in Tools : worker'[w].seen[t] >= Cardinality(Executed({t}))
  BY <1>1, <1>2, <1>6, <1>7 DEF Counted
<1>12. QED
  BY <1>1, <1>3, <1>6, <1>7, <1>8, <1>9, <1>10, <1>11, Local DEF TypeInv, TypeOK

\* A tool that is executed is within every budget the worker counts.
LEMMA WithinBudget ==
    ASSUME NEW w \in Workers, NEW tool \in Tools, NEW code \in Outcomes(w, tool),
           code \notin Refusals
    PROVE  /\ ~(worker[w].used_evidence >= MaxEvidence)
           /\ ~(worker[w].calls >= MaxToolCalls)
           /\ ~(worker[w].seen[tool] >= MaxIdentical)
<1>1. tool # Trace!GET_INCIDENT_EVIDENCE
  BY InvestigationAssumption DEF Trace!GET_INCIDENT_EVIDENCE
<1>2. QED
  BY <1>1 DEF Outcomes, Refusals

LEMMA ToolCallStep ==
    ASSUME InvestigationInv, NEW w \in Workers, ToolCall(w)
    PROVE  InvestigationInv'
<1>1. TypeInv /\ FenceOK /\ Located /\ InOrder /\ Counted /\ BudgetsSurviveRestart
  BY DEF InvestigationInv
<1>0. PICK c \in worker[w].todo :
        /\ Handling(w, c, "tool_call")
        /\ \E code \in Outcomes(w, c.tool) :
             LET counted == code \notin Refusals
                 executed == counted /\ c.tool \in Tools
                 found == IF executed /\ code = "ok" THEN 1 ELSE 0 IN
             /\ record_step(w, "tool_call", worker[w].iteration, c.call,
                            [tool |-> c.tool, code |-> code, counted |-> counted],
                            counted, found)
             /\ worker' = [worker EXCEPT
                             ![w].todo = @ \ {c}, ![w].at = AfterCall(w, c),
                             ![w].used_evidence = @ + found,
                             ![w].calls = @ + (IF executed THEN 1 ELSE 0),
                             ![w].seen = [t \in Tools |->
                                @[t] + IF executed /\ t = c.tool THEN 1 ELSE 0]]
  BY DEF ToolCall
<1>2. PICK code \in Outcomes(w, c.tool) :
        LET counted == code \notin Refusals
            executed == counted /\ c.tool \in Tools
            found == IF executed /\ code = "ok" THEN 1 ELSE 0 IN
        /\ record_step(w, "tool_call", worker[w].iteration, c.call,
                       [tool |-> c.tool, code |-> code, counted |-> counted],
                       counted, found)
        /\ worker' = [worker EXCEPT
                        ![w].todo = @ \ {c}, ![w].at = AfterCall(w, c),
                        ![w].used_evidence = @ + found,
                        ![w].calls = @ + (IF executed THEN 1 ELSE 0),
                        ![w].seen = [t \in Tools |->
                           @[t] + IF executed /\ t = c.tool THEN 1 ELSE 0]]
  BY <1>0
<1> DEFINE counted == code \notin Refusals
           executed == counted /\ c.tool \in Tools
           found == IF executed /\ code = "ok" THEN 1 ELSE 0
           spent == IF executed THEN 1 ELSE 0
           detail == [tool |-> c.tool, code |-> code, counted |-> counted]
           s == Trace!Step("tool_call", worker[w].iteration, c.call, detail)
           seen == [t \in Tools |->
                      worker[w].seen[t] + IF executed /\ t = c.tool THEN 1 ELSE 0]
           r == [worker[w] EXCEPT !.todo = worker[w].todo \ {c}, !.at = AfterCall(w, c),
                     !.used_evidence = worker[w].used_evidence + found,
                     !.calls = worker[w].calls + spent, !.seen = seen]
<1>3. /\ worker[w] \in WorkerRows /\ worker[w].at = "act"
      /\ worker \in [Workers -> WorkerRows] /\ Holder(w) /\ fenced(w)
  BY <1>1, <1>0, <1>2 DEF Handling, TypeInv, Holder, fenced, record_step
<1>4. trace # <<>> /\ worker[w].used_evidence = evidence_count
  BY <1>1, <1>3 DEF Located, At
<1>5. Trace!turns # {} /\ Trace!IsNext(c.call) /\ c.call \in Nat /\ c.tool \in STRING
  BY <1>1, <1>0, <1>3, NextCall
<1>6. /\ found \in Nat /\ spent \in Nat /\ counted \in BOOLEAN
      /\ found <= spent /\ (executed => spent = 1) /\ (~executed => spent = 0)
  OBVIOUS
<1>7. s \in Rows /\ s.kind = "tool_call" /\ s.call = c.call /\ s.detail = detail
  <2>1. code \in Codes
    BY DEF Outcomes, Answers, Codes, Refusals, BackendFailures
  <2>2. detail \in [tool : STRING, code : Codes, counted : BOOLEAN]
    BY <1>5, <1>6, <2>1
  <2>3. /\ "tool_call" \in Kinds /\ worker[w].iteration \in 0..MaxIterations
        /\ detail \in Details
    BY <1>3, <2>2 DEF Details, Kinds, WorkerRows
  <2> HIDE DEF detail
  <2>4. QED
    BY <1>5, <2>3, StepRow
<1>8. /\ trace' = Append(trace, s) /\ lease' \in Leases /\ lease'.owner = w
      /\ UNCHANGED <<incident, status, iteration_count, claims, faults>>
      /\ tool_call_count' \in Nat /\ evidence_count' \in Nat
      /\ evidence_count' = evidence_count + found
  <2>1. record_step(w, "tool_call", worker[w].iteration, c.call, detail, counted, found)
    BY <1>2
  <2> HIDE DEF detail, counted, found
  <2>2. QED
    BY <1>1, <1>6, <2>1, Recorded
<1>9. seen \in [Tools -> Nat]
  BY <1>3 DEF WorkerRows
<1>10. worker' = [worker EXCEPT ![w] = r]
  BY <1>2, <1>3
<1>11. detail.tool = c.tool /\ detail.counted = counted
  OBVIOUS
<1>12. \A t \in Tools : seen[t] = worker[w].seen[t] + IF executed /\ t = c.tool THEN 1 ELSE 0
  OBVIOUS
<1>13. executed => /\ ~(worker[w].used_evidence >= MaxEvidence)
                   /\ ~(worker[w].calls >= MaxToolCalls)
                   /\ ~(worker[w].seen[c.tool] >= MaxIdentical)
  BY WithinBudget
<1>14. IsCounted(s) <=> counted
  <2> HIDE DEF s, detail
  <2>1. QED
    BY <1>7, <1>11 DEF IsCounted
<1>15. executed <=> counted /\ c.tool \in Tools
  OBVIOUS
<1> HIDE DEF s, seen, detail, executed, found, spent, counted
<1>16. /\ r \in WorkerRows /\ r.at = AfterCall(w, c) /\ r.at \in {"act", "stop", "loop"}
      /\ r.todo = worker[w].todo \ {c} /\ r.run = worker[w].run
      /\ r.iteration = worker[w].iteration
      /\ r.used_evidence = worker[w].used_evidence + found
      /\ r.calls = worker[w].calls + spent /\ r.seen = seen
  <2>1. AfterCall(w, c) \in {"act", "stop", "loop"} /\ AfterCall(w, c) \in Positions
    BY DEF AfterCall, AfterDecision, Positions
  <2>2. /\ worker[w].todo \ {c} \in SUBSET Calls
        /\ worker[w].used_evidence + found \in Nat /\ worker[w].calls + spent \in Nat
    BY <1>3, <1>6 DEF WorkerRows
  <2>3. r \in WorkerRows
    BY <1>3, <1>9, <2>1, <2>2 DEF WorkerRows
  <2>4. QED
    BY <1>3, <2>1, <2>3 DEF WorkerRows
<1> HIDE DEF r
<1>17. Moved(w) /\ worker'[w] = r
  BY <1>3, <1>10, <1>16, WorkerSet
<1>18. At(w)'
  BY <1>1, <1>0, <1>3, <1>4, <1>7, <1>8, <1>16, <1>17, Answered
<1>19. TypeInv' /\ FenceOK' /\ Located' /\ InOrder'
  BY <1>1, <1>3, <1>4, <1>5, <1>7, <1>8, <1>16, <1>17, <1>18, Write
<1>20. \A T : Cardinality(Executed(T)) \in Nat
  BY <1>1, ExecutedFinite, FS_CardinalityType DEF TypeInv
<1>21. ASSUME NEW T \in SUBSET Tools
       PROVE  Cardinality(Executed(T)') =
                 Cardinality(Executed(T)) + IF executed /\ c.tool \in T THEN 1 ELSE 0
  <2>1. CASE counted
    <3>1. Cardinality(Executed(T)') =
             Cardinality(Executed(T)) + (IF c.tool \in T THEN 1 ELSE 0)
      BY <1>1, <1>7, <1>8, <1>11, <1>14, <2>1, ExecutedGrows DEF TypeInv
    <3>2. c.tool \in T <=> executed /\ c.tool \in T
      BY <1>15, <2>1
    <3>3. QED
      BY <3>1, <3>2
  <2>2. CASE ~counted
    <3>1. Executed(T)' = Executed(T)
      BY <1>1, <1>7, <1>8, <1>14, <2>2, ExecutedKept DEF TypeInv
    <3>2. ~executed
      BY <1>15, <2>2
    <3>3. QED
      BY <1>20, <3>1, <3>2
  <2>3. QED
    BY <2>1, <2>2
<1>22. worker[w].calls \in Nat /\ worker[w].seen \in [Tools -> Nat] /\ evidence_count \in Nat
  BY <1>1, <1>3 DEF WorkerRows, TypeInv, TypeOK
<1>23. /\ worker[w].calls >= Cardinality(Executed(Tools))
       /\ \A t \in Tools : worker[w].seen[t] >= Cardinality(Executed({t}))
  BY <1>1, <1>3 DEF Counted
<1>24. Cardinality(Executed(Tools)') = Cardinality(Executed(Tools)) + spent
  BY <1>6, <1>15, <1>21
<1>25. ASSUME NEW t \in Tools
       PROVE  Cardinality(Executed({t})') =
                 Cardinality(Executed({t})) + IF executed /\ t = c.tool THEN 1 ELSE 0
  <2>1. {t} \in SUBSET Tools /\ (c.tool \in {t} <=> t = c.tool)
    OBVIOUS
  <2>2. QED
    BY <1>21, <2>1
<1>26. /\ worker'[w].calls >= Cardinality(Executed(Tools)')
       /\ \A t \in Tools : worker'[w].seen[t] >= Cardinality(Executed({t})')
  <2>1. worker'[w].calls >= Cardinality(Executed(Tools)')
    BY <1>6, <1>16, <1>17, <1>20, <1>22, <1>23, <1>24
  <2>2. ASSUME NEW t \in Tools PROVE worker'[w].seen[t] >= Cardinality(Executed({t})')
    <3>1. Cardinality(Executed({t})) \in Nat /\ worker[w].seen[t] \in Nat
      BY <1>20, <1>22
    <3>2. QED
      BY <1>12, <1>16, <1>17, <1>23, <1>25, <3>1
  <2>3. QED
    BY <2>1, <2>2
<1>27. Counted'
  <2>1. \A v \in Workers : Holder(v)' => v = w
    BY <1>8 DEF Holder
  <2>2. QED
    BY <1>26, <2>1 DEF Counted
<1>28. Cardinality(Executed(Tools)') <= MaxToolCalls
  <2>1. Cardinality(Executed(Tools)) <= MaxToolCalls
    BY <1>1 DEF BudgetsSurviveRestart
  <2>2. QED
    BY <1>6, <1>13, <1>20, <1>22, <1>23, <1>24, <2>1, Bounds
<1>29. ASSUME NEW t \in Tools PROVE Cardinality(Executed({t})') <= MaxIdentical
  <2>1. Cardinality(Executed({t})) <= MaxIdentical
    BY <1>1 DEF BudgetsSurviveRestart
  <2>2. Cardinality(Executed({t})) \in Nat /\ worker[w].seen[t] \in Nat
    BY <1>20, <1>22
  <2>3. QED
    BY <1>13, <1>23, <1>25, <2>1, <2>2, Bounds
<1>30. evidence_count' <= MaxEvidence
  <2>1. evidence_count <= MaxEvidence
    BY <1>1 DEF BudgetsSurviveRestart
  <2>2. QED
    BY <1>4, <1>6, <1>8, <1>13, <1>22, <2>1, Bounds
<1>31. BudgetsSurviveRestart'
  BY <1>19, <1>28, <1>29, <1>30 DEF BudgetsSurviveRestart, TypeInv, TurnsOK
<1>32. QED
  BY <1>19, <1>27, <1>31 DEF InvestigationInv

LEMMA ModelTurnStep ==
    ASSUME InvestigationInv, NEW w \in Workers, ModelTurn(w)
    PROVE  InvestigationInv'
<1>1. TypeInv /\ FenceOK /\ Located /\ InOrder
  BY DEF InvestigationInv
<1>2. PICK t \in Turns :
        /\ record(w, "model_turn", worker[w].iteration, t)
        /\ worker' = [worker EXCEPT
                        ![w].at = IF t = <<>> THEN "no_action" ELSE "act",
                        ![w].todo = decision(t, DOMAIN t),
                        ![w].used_evidence = evidence_count]
  BY DEF ModelTurn
<1> DEFINE s == Trace!Step("model_turn", worker[w].iteration, 0, t)
           r == [worker[w] EXCEPT !.at = IF t = <<>> THEN "no_action" ELSE "act",
                     !.todo = decision(t, DOMAIN t), !.used_evidence = evidence_count]
<1>3. /\ worker[w] \in WorkerRows /\ worker \in [Workers -> WorkerRows]
      /\ worker[w].at = "model" /\ Holder(w) /\ fenced(w)
  BY <1>1, <1>2 DEF ModelTurn, TypeInv, Holder, fenced, record, record_step
<1>4. trace # <<>> /\ worker[w].iteration = iteration_count + 1
  BY <1>1, <1>3 DEF Located, At
<1>5. s \in Rows /\ s.kind = "model_turn" /\ s.detail = t /\ s.iteration = worker[w].iteration
  <2>1. /\ "model_turn" \in Kinds /\ worker[w].iteration \in 0..MaxIterations /\ t \in Details
        /\ 0 \in Nat
    BY <1>3 DEF Kinds, Details, WorkerRows
  <2>2. QED
    BY <2>1, StepRow
<1>6. iteration_count \in Nat /\ tool_call_count \in Nat /\ evidence_count \in Nat
  BY <1>1, Bounds DEF TypeInv, TypeOK
<1>7. /\ trace' = Append(trace, s) /\ lease' \in Leases /\ lease'.owner = w
      /\ UNCHANGED <<incident, status, claims, faults, evidence_count>>
      /\ tool_call_count' \in Nat /\ iteration_count' = iteration_count + 1
      /\ iteration_count' = worker[w].iteration
  BY <1>2, <1>4, <1>6 DEF record, record_step, append_step, Leases
<1>8. t \in Seq(STRING)
  BY InvestigationAssumption
<1>9. decision(t, DOMAIN t) \in SUBSET Calls /\ (t # <<>> => decision(t, DOMAIN t) # {})
  <2>1. t # <<>> => DOMAIN t # {}
    <3>1. Len(t) \in Nat /\ DOMAIN t = 1..Len(t) /\ (t # <<>> => Len(t) # 0)
      BY <1>8, LenProperties, EmptySeq
    <3>2. QED
      BY <3>1
  <2>2. QED
    BY <1>8, <2>1, DecisionCalls
<1>10. worker' = [worker EXCEPT ![w] = r]
  BY <1>2, <1>3
<1>11. /\ r \in WorkerRows /\ r.at = (IF t = <<>> THEN "no_action" ELSE "act")
       /\ r.todo = decision(t, DOMAIN t) /\ r.used_evidence = evidence_count
       /\ r.iteration = worker[w].iteration /\ r.run = worker[w].run
       /\ r.calls = worker[w].calls /\ r.seen = worker[w].seen
  BY <1>3, <1>6, <1>9 DEF WorkerRows, Positions
<1> HIDE DEF s, r
<1>12. Moved(w) /\ worker'[w] = r
  BY <1>3, <1>10, <1>11, WorkerSet
<1>13. /\ Trace!turns' = Trace!turns \cup {Len(trace) + 1}
       /\ Len(trace) + 1 \notin Trace!turns
       /\ \A i \in Trace!turns' : i <= Len(trace) + 1
       /\ Trace!LastTurn' = s
       /\ Trace!Unanswered' = DOMAIN s.detail
       /\ Trace!Unnoticed' <=> s.detail = <<>>
  BY <1>1, <1>5, <1>7, TurnAdded DEF TypeInv
<1>14. /\ trace' \in Seq(Rows) /\ trace' # <<>> /\ trace'[Len(trace) + 1] = s
       /\ Trace!turns \subseteq DOMAIN trace /\ \A i \in DOMAIN trace : trace'[i] = trace[i]
       /\ ToSet(trace') = ToSet(trace) \cup {s}
  BY <1>1, <1>5, <1>7, AppendedRow DEF TypeInv, Trace!turns
<1>15. TurnsOK'
  <2>1. \A i \in Trace!turns' : trace'[i].detail \in Turns
    BY <1>1, <1>5, <1>13, <1>14 DEF TypeInv, TurnsOK
  <2>2. IsFiniteSet(Trace!turns)
    <3>1. IsFiniteSet(DOMAIN trace)
      BY <1>1, LenProperties, FS_Interval DEF TypeInv
    <3>2. QED
      BY <1>14, <3>1, FS_Subset
  <2>3. Cardinality(Trace!turns') = Cardinality(Trace!turns) + 1
    BY <1>13, <2>2, FS_AddElement
  <2>4. iteration_count' = Cardinality(Trace!turns')
    BY <1>1, <1>7, <2>3 DEF TypeInv, TurnsOK
  <2>5. \E m \in Trace!turns' : \A i \in Trace!turns' : i <= m
    BY <1>13
  <2>6. QED
    BY <2>1, <2>4, <2>5 DEF TurnsOK
<1>16. At(w)'
  <2>1. decision(t, DOMAIN t) = Whole(t, DOMAIN t)
    BY DEF decision, Whole, Trace!Reads
  <2>2. worker'[w].todo = Whole(Trace!LastTurn'.detail, Trace!Unanswered')
    BY <1>5, <1>11, <1>12, <1>13, <2>1
  <2>3. QED
    BY <1>5, <1>7, <1>9, <1>11, <1>12, <1>13, <1>14, <2>2
       DEF At, Whole, Trace!Reads, Trace!reading
<1>17. TypeInv'
  <2>1. \A v \in Workers :
            /\ worker'[v].at \in Positions
            /\ worker'[v].run \in 0..claims'
            /\ worker'[v].at = "act" => worker'[v].todo # {}
    <3>1. \A v \in Workers : worker'[v].at \in Positions
      BY <1>12 DEF Moved, WorkerRows
    <3>2. worker'[w].run \in 0..claims' /\ (worker'[w].at = "act" => worker'[w].todo # {})
      BY <1>1, <1>7, <1>9, <1>11, <1>12 DEF TypeInv, TypeOK
    <3>3. \A v \in Workers \ {w} :
             /\ worker'[v].run \in 0..claims'
             /\ worker'[v].at = "act" => worker'[v].todo # {}
      BY <1>1, <1>7, <1>12 DEF Moved, TypeInv, TypeOK
    <3>4. QED
      BY <3>1, <3>2, <3>3
  <2>2. \A i \in DOMAIN trace' : trace'[i].iteration \in 0..MaxIterations
    <3>1. \A i \in DOMAIN trace' : trace'[i] \in Rows
      BY <1>14
    <3>2. QED
      BY <3>1 DEF Rows
  <2>3. iteration_count' \in 0..MaxIterations
    BY <1>3, <1>7 DEF WorkerRows
  <2>4. TypeOK'
    BY <1>1, <1>7, <2>1, <2>2, <2>3 DEF TypeInv, TypeOK, Leases
  <2>5. QED
    BY <1>1, <1>7, <1>12, <1>14, <1>15, <2>4 DEF TypeInv, Moved
<1>18. \A v \in Workers : Holder(v)' => v = w
  BY <1>7 DEF Holder
<1>19. FenceOK' /\ Located'
  <2>1. w # NoOne /\ status' = "INVESTIGATING"
    BY <1>3, <1>7, InvestigationAssumption DEF fenced
  <2>2. worker'[w].run = claims'
    BY <1>1, <1>3, <1>7, <1>11, <1>12 DEF FenceOK
  <2>3. QED
    BY <1>7, <1>16, <1>18, <2>1, <2>2 DEF FenceOK, Located
<1>20. InOrder'
  <2>1. \E x \in ToSet(trace') : x.kind = "context"
    BY <1>1, <1>3, <1>4, <1>14
       DEF InOrder, fenced, Finished, Trace!TERMINAL_INVESTIGATION_STATUSES
  <2>2. DOMAIN Trace!LastTurn'.detail \ Trace!Unanswered' = {}
    BY <1>13
  <2>3. QED
    BY <2>1, <2>2 DEF InOrder
<1>21. Counted' /\ BudgetsSurviveRestart'
  BY <1>3, <1>5, <1>7, <1>11, <1>12, <1>17, NothingSpent DEF IsCounted
<1>22. QED
  BY <1>17, <1>19, <1>20, <1>21 DEF InvestigationInv

LEMMA ExpireStep ==
    ASSUME InvestigationInv, Expire
    PROVE  InvestigationInv'
<1>1. TypeInv /\ FenceOK /\ Located /\ Counted
  BY DEF InvestigationInv
<1>2. lease.owner \in Workers /\ lease' \in Leases /\ lease'.owner = lease.owner /\ ~lease'.live
  BY <1>1 DEF Expire, TypeInv, TypeOK, FenceOK, Leases
<1>3. PICK w \in Workers : w = lease.owner
  BY <1>2
<1>4. /\ UNCHANGED <<incident, status, iteration_count, tool_call_count, evidence_count,
                     trace, claims, worker>>
      /\ faults' \in 0..MaxFaults
  BY <1>1, InvestigationAssumption DEF Expire, TypeInv, TypeOK
<1>5. Moved(w)
  BY <1>1, <1>4 DEF Moved, TypeInv
<1>6. Holder(w)' => Holder(w)
  BY <1>2, <1>4 DEF Holder
<1>7. ASSUME Holder(w) PROVE At(w)'
  <2>1. At(w)
    BY <1>1, <1>7 DEF Located
  <2>2. /\ Trace!turns' = Trace!turns /\ Trace!LastTurn' = Trace!LastTurn
        /\ Trace!Unanswered' = Trace!Unanswered /\ Trace!Unnoticed' = Trace!Unnoticed
        /\ Trace!Settled' = Trace!Settled
    BY <1>4 DEF Trace!turns, Trace!LastTurn, Trace!Unanswered, Trace!Unnoticed,
                Trace!answered, Trace!after, Trace!Settled
  <2>3. QED
    BY <1>4, <2>1, <2>2 DEF At, Whole, Trace!Reads, Trace!reading
<1>8. worker'[w].run \in 0..claims /\ (Holder(w) => worker'[w].run = claims)
      /\ (worker'[w].at = "act" => worker'[w].todo # {})
  BY <1>1, <1>4 DEF TypeInv, TypeOK, FenceOK
<1>9. Holder(w) /\ worker'[w].at \notin {"start", "stop"} =>
          /\ worker'[w].calls >= Cardinality(Executed(Tools))
          /\ \A t \in Tools : worker'[w].seen[t] >= Cardinality(Executed({t}))
  BY <1>1, <1>4 DEF Counted
<1>10. QED
  BY <1>2, <1>4, <1>5, <1>6, <1>7, <1>8, <1>9, Local

-----------------------------------------------------------------------------
(* The invariant *)

LEMMA InitInv == Init => InvestigationInv
<1> SUFFICES ASSUME Init PROVE InvestigationInv
  OBVIOUS
<1>1. trace = <<>> /\ DOMAIN trace = {} /\ trace \in Seq(Rows)
  BY DEF Init
<1>2. Trace!turns = {} /\ \A T : Executed(T) = {}
  BY <1>1 DEF Trace!turns, Executed
<1>3. \A w \in Workers : worker[w] = Idle
  BY DEF Init
<1>4. worker \in [Workers -> WorkerRows]
  BY IdleRow DEF Init
<1>5. TypeOK
  <2>1. \A w \in Workers : worker[w].at = "idle" /\ worker[w].run = 0
    BY <1>3, IdleRow
  <2>2. QED
    BY <1>1, <2>1, Bounds, InvestigationAssumption
       DEF Init, TypeOK, Released, InvestigationStatus, Positions
<1>6. TurnsOK
  BY <1>2, FS_EmptySet DEF Init, TurnsOK
<1>7. TypeInv
  BY <1>1, <1>4, <1>5, <1>6 DEF TypeInv, Init
<1>8. \A w \in Workers : ~Holder(w)
  BY <1>3, IdleRow DEF Holder
<1>9. FenceOK /\ Located /\ Counted
  BY <1>8 DEF FenceOK, Located, Counted, Init, Released
<1>10. InOrder
  BY <1>1, <1>2 DEF InOrder
<1>11. BudgetsSurviveRestart
  <2>1. \A T : Cardinality(Executed(T)) = 0
    BY <1>2, FS_EmptySet
  <2>2. Cardinality(Trace!turns) = iteration_count /\ evidence_count = 0
    BY <1>6 DEF TurnsOK, Init
  <2>3. QED
    BY <2>1, <2>2, Bounds DEF BudgetsSurviveRestart
<1>12. QED
  BY <1>7, <1>9, <1>10, <1>11 DEF InvestigationInv

LEMMA NextInv == InvestigationInv /\ [Next]_vars => InvestigationInv'
<1> SUFFICES ASSUME InvestigationInv, [Next]_vars PROVE InvestigationInv'
  OBVIOUS
<1>1. ASSUME NEW w \in Workers, Deliver(w) PROVE InvestigationInv'
  BY <1>1, Claim DEF Deliver
<1>2. ASSUME NEW w \in Workers, Run(w) PROVE InvestigationInv'
  <2>1. CASE LeaseLost(w)
    BY <2>1, RunEnds DEF LeaseLost, InvestigationInv, TypeInv, TypeOK
  <2>2. CASE ModelConfigError(w) \/ SeedToolset(w) \/ Load(w) \/ ModelError(w)
    BY <2>2, ModelConfigErrorStep, SeedToolsetStep, LoadStep, ModelErrorStep
  <2>3. CASE RecordContext(w) \/ BudgetNotice(w) \/ ModelTurn(w) \/ NoAction(w)
    BY <2>3, RecordContextStep, BudgetNoticeStep, ModelTurnStep, NoActionStep
  <2>4. CASE UpdateHypotheses(w) \/ RejectCall(w) \/ ToolCall(w) \/ Conclude(w)
    BY <2>4, UpdateHypothesesStep, RejectCallStep, ToolCallStep, ConcludeStep
  <2>5. CASE DeclareInconclusive(w) \/ Stop(w)
    BY <2>5, DeclareInconclusiveStep, StopStep
  <2>6. QED
    BY <1>2, <2>1, <2>2, <2>3, <2>4, <2>5 DEF Run
<1>3. ASSUME NEW w \in Workers, Crash(w) PROVE InvestigationInv'
  <2>1. faults' \in 0..MaxFaults
    BY <1>3, InvestigationAssumption DEF Crash, InvestigationInv, TypeInv, TypeOK
  <2>2. QED
    BY <1>3, <2>1, RunEnds DEF Crash
<1>4. CASE Expire
  BY <1>4, ExpireStep
<1>5. CASE Done \/ UNCHANGED vars
  BY <1>5, Unmoved DEF Done
<1>6. QED
  BY <1>1, <1>2, <1>3, <1>4, <1>5 DEF Next

LEMMA Invariance == Spec => []InvestigationInv
BY InitInv, NextInv, PTL DEF Spec

(* The row and the workers always are in the states the code knows; no     *)
(* turn and no step goes beyond the iteration budget.                      *)
THEOREM TypeCorrect == Spec => []TypeOK
<1>1. InvestigationInv => TypeOK
  BY DEF InvestigationInv, TypeInv
<1>2. QED
  BY <1>1, Invariance, PTL

(* The tool, repetition and evidence budgets hold over all the workers of  *)
(* an investigation together, and iteration_count is the number of turns.  *)
THEOREM BudgetsHold == Spec => []BudgetsSurviveRestart
<1>1. InvestigationInv => BudgetsSurviveRestart
  BY DEF InvestigationInv
<1>2. QED
  BY <1>1, Invariance, PTL

-----------------------------------------------------------------------------
(* Only the latest claim writes *)

\* Whoever changes the trace is in a run, passes the fence and moves alone.
LEMMA Writer ==
    ASSUME InvestigationInv, Next, trace' # trace
    PROVE  \E u \in Workers :
              /\ fenced(u) /\ worker[u].at # "idle"
              /\ \A v \in Workers \ {u} : worker'[v] = worker[v]
<1>1. worker \in [Workers -> WorkerRows]
  BY DEF InvestigationInv, TypeInv
<1>2. PICK w \in Workers : Run(w)
  BY DEF Next, Deliver, claim, Crash, Expire, Done, row, vars
<1>3. \A r : worker' = [worker EXCEPT ![w] = r] =>
             \A v \in Workers \ {w} : worker'[v] = worker[v]
  BY <1>1
<1>4. CASE RecordContext(w) \/ BudgetNotice(w) \/ NoAction(w)
  BY <1>1, <1>4 DEF RecordContext, BudgetNotice, NoAction, record, record_step, goto
<1>5. CASE ModelTurn(w)
  BY <1>1, <1>5 DEF ModelTurn, record, record_step
<1>6. CASE UpdateHypotheses(w) \/ RejectCall(w)
  BY <1>1, <1>6 DEF UpdateHypotheses, RejectCall, Handling, answer_decision, record_step, answered
<1>7. CASE ToolCall(w)
  <2>1. fenced(w) /\ worker[w].at # "idle"
    BY <1>7 DEF ToolCall, Handling, record_step
  <2>2. \A v \in Workers \ {w} : worker'[v] = worker[v]
    BY <1>1, <1>7 DEF ToolCall
  <2>3. QED
    BY <2>1, <2>2
<1>8. CASE Conclude(w)
  BY <1>1, <1>3, <1>8 DEF Conclude, Handling, complete, finish, answer_decision, answered
<1>9. CASE DeclareInconclusive(w) \/ Stop(w)
  BY <1>3, <1>9 DEF DeclareInconclusive, Stop, Handling, escalate, finish
<1>10. QED
  BY <1>2, <1>4, <1>5, <1>6, <1>7, <1>8, <1>9
     DEF Run, ModelConfigError, SeedToolset, Load, ModelError, LeaseLost, row

(* A run writes nothing once another claim has succeeded, although the     *)
(* fence looks at the owner and not at the lease's expiry.                 *)
THEOREM LatestClaimWrites == Spec => OnlyLatestClaimWrites
<1>1. ASSUME InvestigationInv, Next, NEW w \in Workers, trace' # trace,
             worker'[w] # worker[w]
      PROVE  worker[w].run = claims
  <2>1. PICK u \in Workers :
              /\ fenced(u) /\ worker[u].at # "idle"
              /\ \A v \in Workers \ {u} : worker'[v] = worker[v]
    BY <1>1, Writer
  <2>2. u = w
    BY <1>1, <2>1
  <2>3. QED
    BY <1>1, <2>1, <2>2 DEF InvestigationInv, FenceOK, Holder, fenced
<1>2. InvestigationInv /\ [Next]_vars =>
         [\A w \in Workers :
            trace' # trace /\ worker'[w] # worker[w] => worker[w].run = claims]_vars
  BY <1>1
<1>3. QED
  BY <1>2, Invariance, PTL DEF Spec, OnlyLatestClaimWrites

-----------------------------------------------------------------------------
(* The trace reads as one run *)

LEMMA AnswersNext ==
    ASSUME InvestigationInv, NEW w \in Workers, NEW c \in worker[w].todo, NEW as,
           Handling(w, c, as), fenced(w), status' = status,
           NEW s \in Rows, trace' = Append(trace, s),
           s.iteration = worker[w].iteration, s.call = c.call,
           s.kind = IF as = "conclude_investigation" THEN "conclusion_rejected" ELSE as
    PROVE  Trace!Answer
<1>1. TypeInv /\ Located /\ Holder(w) /\ status = "INVESTIGATING"
  BY DEF InvestigationInv, Holder, Handling, fenced
<1>2. /\ Trace!IsNext(c.call) /\ Trace!Reads(Trace!LastTurn.detail, c.call) = as
      /\ worker[w].iteration = Trace!LastTurn.iteration
  BY <1>1, NextCall
<1>3. Trace!Last(trace') = s
  BY <1>1, AppendedRow DEF TypeInv
<1>4. c.call \in Trace!Unanswered
  BY <1>2 DEF Trace!IsNext
<1>5. QED
  BY <1>1, <1>2, <1>3, <1>4 DEF Trace!Answer

LEMMA EndsTrace ==
    ASSUME InvestigationInv, NEW w \in Workers, worker[w].at # "idle",
           NEW outcome \in Trace!TERMINAL_INVESTIGATION_STATUSES, NEW to,
           NEW call \in Nat, NEW reason \in Notes, finish(w, outcome, to, call, reason),
           call # 0 => /\ Trace!IsNext(call)
                       /\ Trace!Reads(Trace!LastTurn.detail, call) \in Trace!TerminalCalls,
           call = 0 => outcome # "COMPLETED"
    PROVE  Trace!End
<1> DEFINE s == Trace!Step("outcome", worker[w].iteration, call, reason)
<1>1. s \in Rows /\ s.kind = "outcome" /\ s.call = call
  <2>1. "outcome" \in Kinds /\ worker[w].iteration \in 0..MaxIterations /\ reason \in Details
    BY DEF Kinds, Details, InvestigationInv, TypeInv, WorkerRows
  <2>2. [kind |-> "outcome", iteration |-> worker[w].iteration, call |-> call,
         detail |-> reason] \in Rows
    BY <2>1 DEF Rows
  <2>3. QED
    BY <2>2 DEF Trace!Step
<1>2. trace' = Append(trace, s) /\ status = "INVESTIGATING" /\ status' = outcome
  BY DEF finish, append_step, fenced
<1> HIDE DEF s
<1>3. Trace!Last(trace') = s
  BY <1>1, <1>2, AppendedRow DEF InvestigationInv, TypeInv
<1>4. QED
  BY <1>1, <1>2, <1>3 DEF Trace!End

LEMMA SameCount == ASSUME NEW S PROVE Trace!Cardinality(S) = Cardinality(S)
BY DEF Cardinality, Trace!Cardinality

LEMMA RunReadsAsOne ==
    ASSUME InvestigationInv, NEW w \in Workers, Run(w)
    PROVE  Trace!Next \/ UNCHANGED <<status, trace>>
<1>1. TypeInv /\ FenceOK /\ Located /\ InOrder /\ worker[w] \in WorkerRows
  BY DEF InvestigationInv, TypeInv
<1>2. /\ Cardinality(Trace!turns) = iteration_count /\ iteration_count \in Nat
      /\ Trace!Cardinality(Trace!turns) = Cardinality(Trace!turns)
  BY <1>1, Bounds, SameCount DEF TypeInv, TypeOK, TurnsOK
<1>3. CASE \/ ModelConfigError(w) \/ SeedToolset(w) \/ Load(w) \/ ModelError(w)
           \/ LeaseLost(w)
  BY <1>3 DEF ModelConfigError, SeedToolset, Load, ModelError, LeaseLost, row
<1>4. ASSUME RecordContext(w) PROVE Trace!WriteContext
  <2>1. /\ fenced(w) /\ trace' = Append(trace, Trace!Step("context", 0, 0, "none"))
        /\ status' = status
    BY <1>4 DEF RecordContext, record, record_step, append_step
  <2>2. trace = <<>>
    BY <1>1, <1>4, <2>1 DEF InOrder, fenced, Finished, Trace!TERMINAL_INVESTIGATION_STATUSES,
                            RecordContext
  <2>3. QED
    BY <2>1, <2>2 DEF Trace!WriteContext, Trace!Append1, fenced
<1>5. ASSUME BudgetNotice(w) PROVE Trace!Note
  <2>1. /\ fenced(w) /\ status' = status /\ worker[w].at = "notice"
        /\ trace' = Append(trace, Trace!Step("feedback", worker[w].iteration, 0, "budget"))
    BY <1>5 DEF BudgetNotice, record, record_step, append_step
  <2>2. trace # <<>> /\ Trace!Settled /\ worker[w].iteration = Cardinality(Trace!turns) + 1
    BY <1>1, <1>2, <2>1 DEF Located, At, Holder, fenced
  <2>3. worker[w].iteration = Trace!Cardinality(Trace!turns) + 1
    BY <1>2, <2>2
  <2>4. trace' = Append(trace, Trace!Step("feedback", Trace!Cardinality(Trace!turns) + 1, 0,
                                          "budget"))
    BY <2>1, <2>3
  <2>5. QED
    BY <2>1, <2>2, <2>4 DEF Trace!Note, Trace!Append1, fenced
<1>6. ASSUME ModelTurn(w) PROVE Trace!Ask
  <2>1. PICK t \in Turns : record(w, "model_turn", worker[w].iteration, t)
    BY <1>6 DEF ModelTurn
  <2>2. /\ fenced(w) /\ status' = status /\ worker[w].at = "model"
        /\ trace' = Append(trace, Trace!Step("model_turn", worker[w].iteration, 0, t))
    BY <1>6, <2>1 DEF ModelTurn, record, record_step, append_step
  <2>3. trace # <<>> /\ Trace!Settled /\ worker[w].iteration = Cardinality(Trace!turns) + 1
    BY <1>1, <1>2, <2>2 DEF Located, At, Holder, fenced
  <2>4. Trace!Cardinality(Trace!turns) < MaxIterations
    BY <1>1, <1>2, <2>3, Bounds DEF WorkerRows
  <2>5. trace' = Append(trace, Trace!Step("model_turn", Trace!Cardinality(Trace!turns) + 1, 0,
                                          t))
    BY <1>2, <2>2, <2>3
  <2>6. QED
    BY <2>2, <2>3, <2>4, <2>5 DEF Trace!Ask, Trace!Append1, fenced
<1>7. ASSUME NoAction(w) PROVE Trace!NoAction
  <2>1. /\ fenced(w) /\ status' = status /\ worker[w].at = "no_action"
        /\ trace' = Append(trace, Trace!Step("feedback", worker[w].iteration, 0, "no_action"))
    BY <1>7 DEF NoAction, record, record_step, append_step
  <2>2. Trace!Unnoticed /\ worker[w].iteration = Trace!LastTurn.iteration
    BY <1>1, <2>1 DEF Located, At, Holder, fenced
  <2>3. QED
    BY <2>1, <2>2 DEF Trace!NoAction, Trace!Append1, fenced
<1>8. ASSUME NEW c \in worker[w].todo, NEW as, Handling(w, c, as), fenced(w),
             NEW kind \in Kinds, NEW detail \in Details, status' = status,
             trace' = Append(trace, Trace!Step(kind, worker[w].iteration, c.call, detail)),
             kind = IF as = "conclude_investigation" THEN "conclusion_rejected" ELSE as
      PROVE  Trace!Answer
  <2> DEFINE s == Trace!Step(kind, worker[w].iteration, c.call, detail)
  <2>1. Holder(w)
    BY <1>8 DEF Holder, fenced, Handling
  <2>2. c.call \in Nat /\ worker[w].iteration \in 0..MaxIterations
    BY <1>1, <1>8, <2>1, NextCall DEF WorkerRows
  <2>3. s \in Rows /\ s.kind = kind /\ s.iteration = worker[w].iteration /\ s.call = c.call
    <3>1. [kind |-> kind, iteration |-> worker[w].iteration, call |-> c.call,
           detail |-> detail] \in Rows
      BY <1>8, <2>2 DEF Rows
    <3>2. QED
      BY <3>1 DEF Trace!Step
  <2>4. trace' = Append(trace, s)
    BY <1>8
  <2> HIDE DEF s
  <2>5. QED
    BY <1>8, <2>3, <2>4, AnswersNext
<1>9. "none" \in Details /\ {"hypothesis_update", "invalid_call", "tool_call",
                             "conclusion_rejected"} \subseteq Kinds
  BY DEF Kinds, Details, Notes
<1>10. ASSUME UpdateHypotheses(w) PROVE Trace!Answer
  <2>1. PICK c \in worker[w].todo :
          Handling(w, c, "hypothesis_update")
          /\ answer_decision(w, "hypothesis_update", c.call)
    BY <1>10 DEF UpdateHypotheses
  <2>2. QED
    BY <1>8, <1>9, <2>1 DEF answer_decision, append_step
<1>11. ASSUME RejectCall(w) PROVE Trace!Answer
  <2>1. PICK c \in worker[w].todo :
          Handling(w, c, "invalid_call")
          /\ record_step(w, "invalid_call", worker[w].iteration, c.call, "none", FALSE, 0)
    BY <1>11 DEF RejectCall
  <2>2. QED
    BY <1>8, <1>9, <2>1 DEF record_step, append_step
<1>12. ASSUME ToolCall(w) PROVE Trace!Answer
  <2>1. PICK c \in worker[w].todo :
          /\ Handling(w, c, "tool_call") /\ fenced(w) /\ status' = status
          /\ \E code \in Outcomes(w, c.tool), counted \in BOOLEAN :
                trace' = Append(trace, Trace!Step("tool_call", worker[w].iteration, c.call,
                            [tool |-> c.tool, code |-> code, counted |-> counted]))
    BY <1>12 DEF ToolCall, record_step, append_step
  <2>2. PICK code \in Outcomes(w, c.tool), counted \in BOOLEAN :
                trace' = Append(trace, Trace!Step("tool_call", worker[w].iteration, c.call,
                            [tool |-> c.tool, code |-> code, counted |-> counted]))
    BY <2>1
  <2> DEFINE detail == [tool |-> c.tool, code |-> code, counted |-> counted]
  <2>3. code \in Codes
    BY DEF Outcomes, Answers, Codes, Refusals, BackendFailures
  <2>4. c.tool \in STRING
    BY <1>1, <2>1, NextCall DEF Holder, fenced, Handling
  <2>5. detail \in [tool : STRING, code : Codes, counted : BOOLEAN]
    BY <2>3, <2>4
  <2>6. detail \in Details
    BY <2>5 DEF Details
  <2>7. trace' = Append(trace, Trace!Step("tool_call", worker[w].iteration, c.call, detail))
    BY <2>2
  <2> HIDE DEF detail
  <2>8. QED
    BY <1>8, <1>9, <2>1, <2>6, <2>7
<1>13. ASSUME Conclude(w) PROVE Trace!Answer \/ Trace!End
  <2>1. PICK c \in worker[w].todo :
          /\ Handling(w, c, "conclude_investigation")
          /\ \/ complete(w, c.call)
             \/ answer_decision(w, "conclusion_rejected", c.call)
    BY <1>13 DEF Conclude
  <2>2. ASSUME answer_decision(w, "conclusion_rejected", c.call) PROVE Trace!Answer
    BY <1>8, <1>9, <2>1, <2>2 DEF answer_decision, append_step
  <2>3. ASSUME complete(w, c.call) PROVE Trace!End
    <3>1. Holder(w) /\ worker[w].at # "idle"
      BY <2>1, <2>3 DEF Holder, fenced, Handling, complete, finish
    <3>2. /\ Trace!IsNext(c.call) /\ c.call \in Nat \ {0}
          /\ Trace!Reads(Trace!LastTurn.detail, c.call) = "conclude_investigation"
      BY <1>1, <2>1, <3>1, NextCall
    <3>3. /\ "root_cause_identified" \in Notes
          /\ "COMPLETED" \in Trace!TERMINAL_INVESTIGATION_STATUSES
          /\ "conclude_investigation" \in Trace!TerminalCalls
      BY DEF Notes, Trace!TERMINAL_INVESTIGATION_STATUSES, Trace!TerminalCalls
    <3>4. finish(w, "COMPLETED", "RCA_READY", c.call, "root_cause_identified")
      BY <2>3 DEF complete
    <3>5. QED
      BY <3>1, <3>2, <3>3, <3>4, EndsTrace
  <2>4. QED
    BY <2>1, <2>2, <2>3
<1>14. ASSUME DeclareInconclusive(w) PROVE Trace!End
  <2>1. PICK c \in worker[w].todo :
          /\ Handling(w, c, "declare_inconclusive")
          /\ finish(w, "ESCALATED", "ESCALATED", c.call, "inconclusive")
    BY <1>14 DEF DeclareInconclusive, escalate
  <2>2. Holder(w) /\ worker[w].at # "idle"
    BY <2>1 DEF Holder, fenced, Handling, finish
  <2>3. /\ Trace!IsNext(c.call) /\ c.call \in Nat \ {0}
        /\ Trace!Reads(Trace!LastTurn.detail, c.call) = "declare_inconclusive"
    BY <1>1, <2>1, <2>2, NextCall
  <2>4. /\ "inconclusive" \in Notes
        /\ "ESCALATED" \in Trace!TERMINAL_INVESTIGATION_STATUSES
        /\ "declare_inconclusive" \in Trace!TerminalCalls
    BY DEF Notes, Trace!TERMINAL_INVESTIGATION_STATUSES, Trace!TerminalCalls
  <2>5. QED
    BY <2>1, <2>2, <2>3, <2>4, EndsTrace
<1>15. ASSUME Stop(w) PROVE Trace!End
  <2>1. PICK o \in {"ESCALATED", "FAILED"} : o = worker[w].outcome
    BY <1>1 DEF WorkerRows
  <2>2. worker[w].at # "idle" /\ finish(w, o, "ESCALATED", 0, o)
    BY <1>15, <2>1 DEF Stop, escalate
  <2>3. o \in Notes /\ o \in Trace!TERMINAL_INVESTIGATION_STATUSES /\ o # "COMPLETED"
    BY DEF Notes, Trace!TERMINAL_INVESTIGATION_STATUSES
  <2>4. QED
    BY <2>2, <2>3, EndsTrace
<1>16. QED
  BY <1>3, <1>4, <1>5, <1>6, <1>7, <1>10, <1>11, <1>12, <1>13, <1>14, <1>15
     DEF Run, Trace!Next

(* After any crash, takeover or duplicate delivery the trace is one that a *)
(* single worker that never dies could have written.                       *)
THEOREM ReadsAsOne == Spec => ReadsAsOneRun
<1>1. Init => Trace!Init
  BY DEF Init, Trace!Init
<1>2. InvestigationInv /\ [Next]_vars => [Trace!Next]_<<status, trace>>
  <2> SUFFICES ASSUME InvestigationInv, [Next]_vars
               PROVE  Trace!Next \/ UNCHANGED <<status, trace>>
    OBVIOUS
  <2>1. ASSUME NEW w \in Workers, Deliver(w)
        PROVE  Trace!Start \/ UNCHANGED <<status, trace>>
    <3>1. status' = "INVESTIGATING" /\ trace' = trace /\ ~Finished
      BY <2>1 DEF Deliver, claim
    <3>2. status \in {"CREATED", "INVESTIGATING"}
      BY <3>1 DEF InvestigationInv, TypeInv, TypeOK, InvestigationStatus, Finished
    <3>3. QED
      BY <3>1, <3>2 DEF Trace!Start
  <2>2. ASSUME NEW w \in Workers, Run(w) PROVE Trace!Next \/ UNCHANGED <<status, trace>>
    BY <2>2, RunReadsAsOne
  <2>3. CASE (\E w \in Workers : Crash(w)) \/ Expire \/ Done \/ UNCHANGED vars
    BY <2>3 DEF Crash, Expire, Done, vars, row
  <2>4. QED
    BY <2>1, <2>2, <2>3 DEF Next, Trace!Next
<1>3. QED
  BY <1>1, <1>2, Invariance, PTL DEF Spec, ReadsAsOneRun, Trace!Spec

=============================================================================
