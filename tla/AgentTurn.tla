------------------------------ MODULE AgentTurn ------------------------------
(***************************************************************************)
(* One agent's turn inside a node of the pipeline: the model calls, the    *)
(* tool loop, a manager's delegations, the wrap-up call, the grounding     *)
(* check with its corrective call, the preview that streams meanwhile, and *)
(* the stop another thread may ask for at any moment.                      *)
(*                                                                         *)
(* A step ends where the turn waits: for a model, for a tool, for its      *)
(* subordinates.  What it does in between, the looks at the stop flag      *)
(* included, is one step.  A text is a sequence of pieces, numbered as     *)
(* the models say them.                                                    *)
(***************************************************************************)
EXTENDS Integers, Sequences, FiniteSets

CONSTANTS
    Subordinates,   \* a manager's specialists
    MaxToolRounds,  \* _MAX_TOOL_ITERATIONS
    FlushPieces,    \* _TOKEN_FLUSH_CHARS, in pieces
    MaxBatch,       \* bound: tool calls a model asks for at once
    MaxSaid         \* bound: pieces of text in a turn

ASSUME TurnAssumption ==
    /\ MaxToolRounds \in Nat /\ MaxSaid \in Nat
    /\ FlushPieces \in Nat \ {0}
    /\ IsFiniteSet(Subordinates) /\ MaxBatch \in 1..Cardinality(Subordinates)

VARIABLES
    setting,   \* the agent and the run it works for: fixed before the turn
    turn,      \* the frame of _run_agent
    helpers,   \* the frames of the subordinates' _run_agent
    sink,      \* _TokenSink: what it holds back and what it has published
    stop,      \* the cancel flag of the run
    refusal,   \* _FORCED_TOOL_CHOICE_REFUSED, and whether the model does refuse
    \* history
    said,      \* pieces of text the models have said
    paid,      \* model calls the provider charges for
    usage,     \* those in the node's usage sink
    lost       \* those broken off by a stop

turnVars == <<setting, turn, helpers, sink, stop, refusal, said, paid, usage, lost>>

----------------------------------------------------------------------------
Blank == <<>>
Notice == <<0>>       \* _tool_loop_exhausted_notice
RefusalText == <<-1>> \* GROUNDING_REFUSAL_TEXT

\* Only a share run has a token sink and polls the flag, and only the agent whose
\* text is the run's output forwards it (compile decides which).
Settings ==
    {s \in [tools : {"none", "plain", "knowledge", "delegate"},
            policy : {"observe", "retry", "refuse"}, claims : BOOLEAN,
            live : BOOLEAN, forward : BOOLEAN] :
        /\ s.forward => s.live
        /\ s.tools # "knowledge" => s.policy = "observe" /\ ~s.claims}

Calls == {"first", "loop", "wrapup", "retry"}

\* A manager's and a knowledge agent's opening call must use a tool.
Forced(s) == s.tools \in {"knowledge", "delegate"}

Stopped == setting.live /\ stop

NoHelper == [pc |-> "none", calls |-> 0]

TurnInit ==
    /\ setting \in Settings
    /\ refusal \in {f \in [real : BOOLEAN, known : BOOLEAN] : f.known => f.real}
    /\ turn = [pc |-> "call", call |-> "first", forced |-> Forced(setting) /\ ~refusal.known,
               text |-> Blank, asks |-> "nothing", left |-> 0, round |-> 0, emitted |-> FALSE,
               answer |-> Blank, retried |-> FALSE, retract |-> FALSE, broken |-> "none", output |-> Blank]
    /\ helpers = [s \in Subordinates |-> NoHelper]
    /\ sink = [held |-> Blank, shown |-> Blank, flushed |-> FALSE]
    /\ stop = FALSE
    /\ said = 0 /\ paid = 0 /\ usage = 0 /\ lost = 0

Frames == [pc : {"call", "generating", "serial", "fanout", "delegated", "grading", "done", "raised"},
           call : Calls, forced : BOOLEAN, text : Seq(Int), asks : {"nothing", "tools", "delegations"},
           left : 0..MaxBatch, round : 0..MaxToolRounds, emitted : BOOLEAN, answer : Seq(Int),
           retried : BOOLEAN, retract : BOOLEAN, broken : Calls \cup {"none"}, output : Seq(Int)]

Helpers == [pc : {"none", "call", "generating"}, calls : 0..MaxToolRounds]

Sinks == [held : Seq(Int), shown : Seq(Int), flushed : BOOLEAN]

TurnTypeOK ==
    /\ setting \in Settings /\ turn \in Frames
    /\ helpers \in [Subordinates -> Helpers] /\ sink \in Sinks
    /\ stop \in BOOLEAN /\ refusal \in [real : BOOLEAN, known : BOOLEAN]
    /\ said \in 0..MaxSaid /\ paid \in Nat /\ usage \in 0..paid /\ lost \in 0..paid

----------------------------------------------------------------------------
(* The token sink.                                                         *)

NothingShown == [held |-> Blank, shown |-> Blank, flushed |-> FALSE]

Flushed(k) == IF k.held = Blank THEN k
              ELSE [held |-> Blank, shown |-> k.shown \o k.held, flushed |-> TRUE]

\* The first flush of a reply waits for the threshold; a later one may come when
\* enough time has passed.
Sunk(piece) ==
    LET k == [sink EXCEPT !.held = @ \o piece]
    IN IF Len(k.held) >= FlushPieces THEN {Flushed(k)}
       ELSE {k} \cup (IF k.flushed THEN {Flushed(k)} ELSE {})

----------------------------------------------------------------------------
(* The turn between two waits: the frames that may follow a frame t.       *)

\* The output of a stopped turn is empty, whatever it has shown.
Silent(t) == [t EXCEPT !.pc = "done", !.output = Blank]

Answer(t, text) == [t EXCEPT !.pc = "done", !.output = IF Stopped THEN Blank ELSE text]

Call(t, call) == [t EXCEPT !.pc = "call", !.call = call]

NextRound(t) == Call([t EXCEPT !.round = @ + 1, !.left = 0], "loop")

\* The grounding policies: one corrective call, then the refusal.  The viewer is
\* told to discard a text that will be replaced.
Corrects(t, passes) == setting.policy \in {"retry", "refuse"} /\ ~passes /\ ~t.retried
Refuses(t, passes) == setting.policy = "refuse" /\ ~passes /\ t.retried

JudgeKeepingPreview(t, passes) ==
    IF Corrects(t, passes) THEN Call([t EXCEPT !.answer = t.text], "retry")
    ELSE IF Refuses(t, passes) THEN Answer([t EXCEPT !.retract = TRUE], RefusalText)
    ELSE Answer(t, t.text)

Judge(t, passes) ==
    IF Corrects(t, passes) THEN Call([t EXCEPT !.answer = t.text, !.retract = TRUE], "retry")
    ELSE IF Refuses(t, passes) THEN Answer([t EXCEPT !.retract = TRUE], RefusalText)
    ELSE Answer(t, t.text)

\* The citations are checked, then a model grades the claims.  No grader call is
\* opened after a stop.
Ground(t) ==
    {Judge(t, FALSE)} \cup
    IF setting.claims /\ ~Stopped THEN {[t EXCEPT !.pc = "grading"]} ELSE {Judge(t, TRUE)}

\* Only a knowledge agent's text is checked; the others return it as it is.
Conclude(t) ==
    IF setting.tools = "knowledge" THEN Ground(t)
    ELSE {[t EXCEPT !.pc = "done", !.output = t.text]}

\* The loop is over: no tool call is left to run, or no iteration to run it in.
SettleUnpolled(t) == IF t.asks # "nothing" THEN {Call(t, "wrapup")} ELSE Conclude(t)

Settle(t) == IF Stopped THEN {Silent(t)}
             ELSE IF t.asks # "nothing" THEN {Call(t, "wrapup")} ELSE Conclude(t)

\* What the turn does with the response it has.
Responded(t) ==
    CASE t.call \in {"first", "loop"} ->
            IF t.asks = "nothing" \/ t.round = MaxToolRounds THEN Settle(t)
            ELSE IF Stopped THEN {Silent(t)}
            ELSE {[t EXCEPT !.pc = IF t.asks = "delegations" /\ t.left > 1 THEN "fanout" ELSE "serial"]}
      [] t.call = "wrapup" ->
            IF t.text = Blank THEN {[t EXCEPT !.pc = "done", !.output = Notice]} ELSE Conclude(t)
      [] t.call = "retry" ->
            IF Stopped THEN {Silent(t)}
            ELSE IF t.asks = "nothing" THEN Ground([t EXCEPT !.retried = TRUE])
            ELSE {Judge([t EXCEPT !.text = t.answer, !.retried = TRUE], FALSE)}

\* The turn goes on with one of the frames.
Proceed(frames, k, charged) ==
    \E t \in frames :
        /\ turn' = [t EXCEPT !.retract = FALSE]
        /\ sink' = IF t.retract /\ setting.forward THEN NothingShown ELSE k
        /\ paid' = charged + (IF t.pc = "grading" THEN 1 ELSE 0)

----------------------------------------------------------------------------
(* The steps of the turn.                                                  *)

\* Another thread: registry.request_cancel.
AskToStop ==
    /\ ~stop /\ turn.pc \notin {"done", "raised"}
    /\ stop' = TRUE
    /\ UNCHANGED <<setting, turn, helpers, sink, refusal, said, paid, usage, lost>>

\* _call: after a stop no request is opened and the response is empty.
CallModel ==
    LET empty == [turn EXCEPT !.text = Blank, !.asks = "nothing", !.left = 0, !.emitted = FALSE]
    IN
    /\ turn.pc = "call"
    /\ IF Stopped THEN Proceed(Responded(empty), sink, paid)
       ELSE Proceed({[empty EXCEPT !.pc = "generating"]}, sink, paid + 1)
    /\ UNCHANGED <<setting, helpers, stop, refusal, said, usage, lost>>

Refused == turn.forced /\ turn.call = "first" /\ refusal.real

\* _first_call: the forcing is dropped, remembered, and the request not billed.
ModelRefusesForcing ==
    /\ turn.pc = "generating" /\ Refused
    /\ refusal' = [refusal EXCEPT !.known = TRUE]
    /\ turn' = [turn EXCEPT !.pc = "call", !.forced = FALSE]
    /\ paid' = paid - 1
    /\ UNCHANGED <<setting, helpers, sink, stop, said, usage, lost>>

\* After each chunk the flag is polled; a stop breaks the generation off before
\* the chunk that carries its usage.
Polled(t, k) ==
    IF Stopped
    THEN /\ lost' = lost + 1
         /\ Proceed(Responded([t EXCEPT !.broken = t.call]), k, paid)
    ELSE /\ UNCHANGED lost
         /\ Proceed({t}, k, paid)

\* A chunk of text: it goes to the sink unless a tool call has begun.
ModelSays ==
    LET piece == <<said + 1>>
        t == [turn EXCEPT !.text = @ \o piece]
    IN
    /\ turn.pc = "generating" /\ ~Refused /\ said < MaxSaid
    /\ said' = said + 1
    /\ IF setting.forward /\ turn.asks = "nothing"
       THEN \E k \in Sunk(piece) : Polled([t EXCEPT !.emitted = TRUE], k)
       ELSE Polled(t, sink)
    /\ UNCHANGED <<setting, helpers, stop, refusal, usage>>

\* A chunk of tool calls: text that has gone out is retracted.
ModelAsks ==
    /\ turn.pc = "generating" /\ ~Refused
    /\ turn.asks = "nothing" /\ turn.call # "wrapup" /\ setting.tools # "none"
    /\ \E asks \in {"tools"} \cup (IF setting.tools = "delegate" THEN {"delegations"} ELSE {}),
          n \in 1..MaxBatch :
            Polled([turn EXCEPT !.asks = asks, !.left = n],
                   IF turn.emitted THEN NothingShown ELSE sink)
    /\ UNCHANGED <<setting, helpers, stop, refusal, said, usage>>

\* _record_usage comes before anything is done with the response.
MeteredUnlessStopped(t) == IF t.call = "retry" /\ Stopped THEN 0 ELSE 1
Metered(t) == 1

ModelEnds ==
    /\ turn.pc = "generating" /\ ~Refused
    /\ turn.forced /\ turn.call = "first" => turn.asks # "nothing"
    /\ usage' = usage + Metered(turn)
    /\ Proceed(Responded(turn), sink, paid)
    /\ UNCHANGED <<setting, helpers, stop, refusal, said, lost>>

\* The provider fails: the node raises and takes its usage sink with it.
ModelFails ==
    /\ turn.pc = "generating" /\ ~Refused
    /\ turn' = [turn EXCEPT !.pc = "raised"]
    /\ UNCHANGED <<setting, helpers, sink, stop, refusal, said, paid, usage, lost>>

\* _execute_call, one call after the other; a tool that fails answers with its
\* error.  A single delegation is run here too.
RunTool ==
    /\ turn.pc = "serial"
    /\ IF Stopped THEN turn' = Silent(turn) /\ UNCHANGED helpers
       ELSE IF turn.asks = "delegations"
       THEN /\ turn' = [turn EXCEPT !.pc = "delegated"]
            /\ \E s \in Subordinates : helpers' = [helpers EXCEPT ![s].pc = "call"]
       ELSE /\ turn' = IF turn.left = 1 THEN NextRound(turn) ELSE [turn EXCEPT !.left = @ - 1]
            /\ UNCHANGED helpers
    /\ UNCHANGED <<setting, sink, stop, refusal, said, paid, usage, lost>>

\* A batch of delegations only: the pool runs them concurrently.
FanOut ==
    /\ turn.pc = "fanout"
    /\ IF Stopped THEN turn' = Silent(turn) /\ UNCHANGED helpers
       ELSE /\ turn' = [turn EXCEPT !.pc = "delegated"]
            /\ \E chosen \in SUBSET Subordinates :
                /\ Cardinality(chosen) = turn.left
                /\ helpers' = [s \in Subordinates |->
                        IF s \in chosen THEN [NoHelper EXCEPT !.pc = "call"] ELSE helpers[s]]
    /\ UNCHANGED <<setting, sink, stop, refusal, said, paid, usage, lost>>

\* The manager goes on when the last of them is back.
HelperIs(s, frame) ==
    /\ helpers' = [helpers EXCEPT ![s] = frame]
    /\ turn' = IF \A q \in Subordinates : helpers'[q].pc = "none" THEN NextRound(turn) ELSE turn

HelperCalls(s) ==
    /\ helpers[s].pc = "call"
    /\ IF Stopped THEN HelperIs(s, NoHelper) /\ UNCHANGED paid
       ELSE /\ HelperIs(s, [pc |-> "generating", calls |-> helpers[s].calls + 1])
            /\ paid' = paid + 1
    /\ UNCHANGED <<setting, sink, stop, refusal, said, usage, lost>>

\* A subordinate has no sink for its text; its usage goes to the manager's.
HelperEnds(s) ==
    /\ helpers[s].pc = "generating"
    /\ \/ /\ usage' = usage + 1 /\ UNCHANGED <<paid, lost>>
          /\ \/ HelperIs(s, NoHelper)
             \/ /\ ~Stopped /\ helpers[s].calls < MaxToolRounds
                /\ HelperIs(s, [helpers[s] EXCEPT !.pc = "call"])
       \/ /\ Stopped /\ lost' = lost + 1 /\ UNCHANGED <<paid, usage>>
          /\ HelperIs(s, NoHelper)
       \/ /\ paid' = paid - 1 /\ UNCHANGED <<usage, lost>>
          /\ HelperIs(s, NoHelper)
    /\ UNCHANGED <<setting, sink, stop, refusal, said>>

\* grade_claims: charged and metered whatever it found; a grading that could not
\* be made passes.
GraderEnds ==
    /\ turn.pc = "grading"
    /\ usage' = usage + 1
    /\ \E passes \in BOOLEAN : Proceed({Judge(turn, passes)}, sink, paid)
    /\ UNCHANGED <<setting, helpers, stop, refusal, said, lost>>

TurnNext ==
    \/ AskToStop \/ CallModel \/ ModelRefusesForcing \/ ModelSays \/ ModelAsks \/ ModelEnds
    \/ ModelFails \/ RunTool \/ FanOut \/ GraderEnds
    \/ \E s \in Subordinates : HelperCalls(s) \/ HelperEnds(s)

TurnSpec == TurnInit /\ [][TurnNext]_turnVars

----------------------------------------------------------------------------
(* Properties.                                                             *)

Answered == turn.pc = "done" /\ ~Stopped

\* What the visitor has seen stream, with what the sink still holds, is the
\* answer that is recorded, or nothing: never a preamble of a tool call, a text
\* the grounding policy replaced, or half of the answer.
PreviewIsAnswer ==
    Answered => sink.shown \o sink.held \in {Blank, turn.output}

\* "a stopped agent must not be recorded as having completed with partial
\* output" (langgraph_adapter.py:925): the text of a call that was broken off is
\* not the turn's output.  The code keeps this in every call but the wrap-up of
\* an agent without a knowledge base.
PartialReplyIsNotKept ==
    turn.pc = "done" /\ turn.broken # "none" =>
        \/ turn.output \in {Blank, Notice}
        \/ turn.broken = "wrapup" /\ setting.tools # "knowledge"

\* A turn that returns has metered every model call it was charged for, its
\* subordinates' and its grader's, but those a stop broke off.
TurnIsMetered == turn.pc = "done" => paid = usage + lost
==============================================================================
