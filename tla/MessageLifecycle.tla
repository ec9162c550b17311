-------------------------- MODULE MessageLifecycle --------------------------
(***************************************************************************)
(* What the inbox ledger promises about one message, whatever polls,       *)
(* retries, workers and crashes do: it is seen once, held by at most one   *)
(* run at a time, tried at most MaxTries times unless a person asks again, *)
(* and once answered it is left alone.                                     *)
(*                                                                         *)
(* A step moves any number of messages the same way, as one commit does.   *)
(***************************************************************************)
EXTENDS Naturals

CONSTANTS
    Messages,
    MaxTries    \* a positive number

VARIABLE message

Phases == {"unseen", "waiting", "setAside", "held", "answered", "givenUp"}

TypeInvariant == message \in [Messages -> [phase : Phases, tries : 0..MaxTries]]

Unseen == [phase |-> "unseen", tries |-> 0]

Init == message = [m \in Messages |-> Unseen]

In(phases) == {m \in Messages : message[m].phase \in phases}

\* Every message of S goes to that phase and keeps its tries.
Move(S, phase) ==
    message' = [m \in Messages |->
        IF m \in S THEN [message[m] EXCEPT !.phase = phase] ELSE message[m]]

\* Detected, and queued or set aside by the filter.
See == \E S \in SUBSET In({"unseen"}), F \in SUBSET In({"unseen"}) :
    message' = [m \in Messages |->
        IF m \in S THEN [Unseen EXCEPT !.phase = IF m \in F THEN "setAside" ELSE "waiting"]
        ELSE message[m]]

\* A person puts a message the filter set aside back in the queue.
Restore == \E m \in In({"setAside"}) : Move({m}, "waiting")

\* A run takes hold of waiting messages.
Hold == \E S \in SUBSET In({"waiting"}) : Move(S, "held")

\* A run is started on the messages it holds.
Try == \E S \in SUBSET {m \in In({"held"}) : message[m].tries < MaxTries} :
    message' = [m \in Messages |->
        IF m \in S THEN [message[m] EXCEPT !.tries = @ + 1] ELSE message[m]]

\* Held messages come back: to the queue while tries are left, else for good.
ComeBack == \E S \in SUBSET In({"held"}) :
    message' = [m \in Messages |->
        IF m \in S
        THEN [message[m] EXCEPT !.phase = IF message[m].tries < MaxTries
                                          THEN "waiting" ELSE "givenUp"]
        ELSE message[m]]

\* A run is over: each of its messages is answered or given up.
Settle == \E S \in SUBSET In({"held"}), A \in SUBSET In({"held"}) :
    message' = [m \in Messages |->
        IF m \in S THEN [message[m] EXCEPT !.phase = IF m \in A THEN "answered" ELSE "givenUp"]
        ELSE message[m]]

\* The mailbox of waiting messages was replaced.
Abandon == \E S \in SUBSET In({"waiting", "setAside"}) : Move(S, "givenUp")

\* A person asks for the failed messages of a run again.  Those found answered
\* are closed, the others are held with their tries forgiven.
AskAgain == \E S \in SUBSET In({"givenUp"}), A \in SUBSET In({"givenUp"}) :
    message' = [m \in Messages |->
        IF m \in A THEN [message[m] EXCEPT !.phase = "answered"]
        ELSE IF m \in S THEN [phase |-> "held", tries |-> 0]
        ELSE message[m]]

Next == See \/ Restore \/ Hold \/ Try \/ ComeBack \/ Settle \/ Abandon \/ AskAgain

Spec == Init /\ [][Next]_message
============================================================================
