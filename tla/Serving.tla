------------------------------- MODULE Serving -------------------------------
(***************************************************************************)
(* A run while it is at work, for TLC: the registry's runs and who watches *)
(* them, one agent's turn, the chat behind a share link, the chunks an XML *)
(* document is searched by, and what is told of the runs that failed.      *)
(*                                                                         *)
(* The components share no variable in the code: what one passes to        *)
(* another (the cancel flag, the text of a reply, a verdict) each takes    *)
(* from everything the other could pass.  A behaviour is a behaviour of    *)
(* one of them, chosen by `focus`, while the others stay as they started:  *)
(* the state spaces add up and do not multiply.                            *)
(***************************************************************************)
EXTENDS RunStream, AgentTurn, ShareChat, XmlChunks, TriggerHealth

VARIABLE focus      \* the component whose behaviour this is

servingVars == <<focus, streamVars, turnVars, chatVars, chunkVars, healthVars>>

AnyOf(S) == CHOOSE x \in S : TRUE

\* A component out of focus needs one of its initial states only.
ServingInit ==
    /\ focus \in {"stream", "turn", "chat", "chunks", "health"}
    /\ \/ focus = "turn"
       \/ focus # "turn" /\ setting = AnyOf(Settings) /\ refusal = [real |-> FALSE, known |-> FALSE]
    /\ \/ focus = "chunks"
       \/ focus # "chunks" /\ doc = AnyOf(Rendered(1)) /\ size = AnyOf(ChunkSizes)
    /\ StreamInit /\ TurnInit /\ ShareInit /\ ChunkInit /\ HealthInit

ServingNext ==
    /\ UNCHANGED focus
    /\ \/ focus = "stream" /\ StreamNext /\ UNCHANGED <<turnVars, chatVars, chunkVars, healthVars>>
       \/ focus = "turn" /\ TurnNext /\ UNCHANGED <<streamVars, chatVars, chunkVars, healthVars>>
       \/ focus = "chat" /\ ShareNext /\ UNCHANGED <<streamVars, turnVars, chunkVars, healthVars>>
       \/ focus = "chunks" /\ ChunkNext /\ UNCHANGED <<streamVars, turnVars, chatVars, healthVars>>
       \/ focus = "health" /\ HealthNext /\ UNCHANGED <<streamVars, turnVars, chatVars, chunkVars>>

ServingSpec == ServingInit /\ [][ServingNext]_servingVars

\* The next change of a link sets everything: when a closed one would have expired does
\* not matter.
LinkView == IF Open THEN link ELSE [link EXCEPT !.active = FALSE, !.until = 0]

\* Where a stream was cut off matters while it has no access, until it is closed in time.
StreamView ==
    [v \in Viewers |->
        IF /\ stream[v].pc = "closed"
           /\ stream[v].got = <<>> \/ stream[v].from + Len(stream[v].got) <= stream[v].cut
        THEN [Closed EXCEPT !.pc = "closed"]
        ELSE IF stream[v].pc = "none" \/ (stream[v].pc # "closed" /\ Allowed(v, account))
        THEN [stream[v] EXCEPT !.cut = 0]
        ELSE stream[v]]

\* Two states can differ in the component in focus only.
ServingView ==
    CASE focus = "stream" -> <<focus, entry, order, subscribed, row, trace, driver, StreamView, account,
                              historyVars, upsets>>
      [] focus = "turn" -> <<focus, turnVars>>
      [] focus = "chat" -> <<focus, LinkView, visit, message, latch, tab, reply, chatRest>>
      [] focus = "chunks" -> <<focus, chunkVars>>
      [] focus = "health" -> <<focus, healthVars>>

\* Every variable of the component in focus has a value its columns, frames and
\* messages allow; no counter of a share link exceeds the highest cap a link may have.
ServingTypeOK ==
    /\ focus = "stream" => StreamTypeOK
    /\ focus = "turn" => TurnTypeOK
    /\ focus = "chat" => ShareTypeOK
    /\ focus = "chunks" => ChunkTypeOK
    /\ focus = "health" => HealthTypeOK
=============================================================================
