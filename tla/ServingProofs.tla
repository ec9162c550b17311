---------------------------- MODULE ServingProofs ---------------------------
(***************************************************************************)
(* Theorems of the other parts of a run at work, ShareChat, AgentTurn and  *)
(* TriggerHealth, for every number of tabs, sessions, turns, days,         *)
(* specialists and tool rounds, and every cap and threshold; and of        *)
(* Serving, every behaviour of which is one of each of its components, so  *)
(* that what is proved of a component holds of it.                         *)
(***************************************************************************)
EXTENDS Serving, StreamProofs, ChunkProofs, FiniteSetTheorems, SequenceTheorems, TLAPS

----------------------------------------------------------------------------
(* ShareChat.                                                              *)

\* The inductive invariant, by what each part is about.

\* The turn numbers of a session are the first ones, and odd ones are questions.
EndsAt(turns, last) ==
    /\ last > 0 => turns[last] # Nobody
    /\ \A n \in Turns : n > last => turns[n] = Nobody

Writer(n) == IF n % 2 = 1 THEN "user" ELSE "assistant"

TranscriptInv ==
    \A s \in Sessions : \E last \in 0..MaxTurn :
        EndsAt(message[s], last) /\ \A n \in 1..last : message[s][n] = Writer(n)

\* A send that has got past the session's lock holds it until it is rejected or
\* its question is committed, and found no question open.
LatchInv ==
    /\ \A c \in Tabs : tab[c].pc \in {"lock", "claimSession", "append", "giveBack",
                                      "commitRun", "submit"} => tab[c].session \in Sessions
    /\ \A c \in Tabs : tab[c].pc \in {"claimSession", "append", "giveBack"} =>
            latch[tab[c].session] = c
    /\ \A c \in Tabs : tab[c].pc \in {"claimSession", "append"} => ~Pending(tab[c].session)

\* The question a request or a run is to answer is the last turn of its session,
\* and nothing else is to answer it.
Asks(c) == tab[c].pc \in {"commitRun", "submit"}

Answers(s, n) == reply[s][n] \in {"submitted", "settled"}

AskedInv ==
    /\ \A c \in Tabs : Asks(c) =>
        LET s == tab[c].session
            n == tab[c].turn
        IN n \in Turns /\ n = LastTurn(s) /\ Pending(s) /\ reply[s][n] = "none"
    /\ \A c, d \in Tabs : Asks(c) /\ Asks(d) /\ tab[c].session = tab[d].session => c = d
    /\ \A s \in Sessions, n \in Turns :
        /\ Answers(s, n) => n < MaxTurn /\ n = LastTurn(s) /\ Pending(s)
        /\ n > LastTurn(s) => reply[s][n] = "none"

\* No day is in the future.
DayInv ==
    /\ link.date <= today /\ \A s \in Sessions : visit[s].date <= today
    /\ \A c \in Tabs : tab[c].day <= today

\* Unless a day began in the middle of a send, a send claims on the day it began,
\* from counters that are at that day.
Appending(s) == {c \in Tabs : tab[c].session = s /\ tab[c].pc = "append"}

SameDayInv ==
    ~straddled =>
        /\ \A c \in Tabs : tab[c].pc \in {"rollLink", "claimLink", "append"} => tab[c].day = today
        /\ \A c \in Tabs : c \in Claiming \/ tab[c].pc = "claimLink" => link.date = today
        /\ \A c \in Tabs : tab[c].pc = "append" => visit[tab[c].session].date = today

ChargeInv ==
    /\ IsFiniteSet(Claiming) /\ \A s \in Sessions : IsFiniteSet(Appending(s))
    /\ \A d \in 1..LastDay : d > link.date /\ ~straddled => askedAll[d] = 0
    /\ \A s \in Sessions, d \in 1..LastDay : d > visit[s].date /\ ~straddled => asked[s][d] = 0

ShareInv ==
    /\ ShareTypeOK
    /\ TranscriptInv /\ LatchInv /\ AskedInv /\ OpenTurnIsServed
    /\ DayInv /\ SameDayInv /\ ChargeInv /\ TurnsAreCharged

----------------------------------------------------------------------------
\* Typing.

LEMMA NoTabTyped == NoTab \in TabStates /\ NoTab.pc = "idle"
  BY ShareAssumption DEF NoTab, TabStates

\* A counter stays within the cap through a rollover, a claim and a refund.
LEMMA CounterTyped ==
    ASSUME NEW rec, rec.turns \in 0..LinkCap, NEW cap \in 0..LinkCap
    PROVE  /\ BelowCap(rec, cap) => rec.turns + 1 \in 0..LinkCap
           /\ rec.turns > 0 => rec.turns - 1 \in 0..LinkCap
           /\ 0 \in 0..LinkCap
  BY ShareAssumption DEF BelowCap

LinkRows == [active : BOOLEAN, cap : 1..LinkCap, until : 0..LastDay,
             turns : 0..LinkCap, date : 0..LastDay]

LEMMA LinkTyped ==
    ASSUME NEW rec \in LinkRows, NEW day \in 0..LastDay, NEW cap \in 0..LinkCap
    PROVE  /\ RolledOver(rec, day) \in LinkRows /\ Refunded(rec) \in LinkRows
           /\ BelowCap(rec, cap) => Claimed(rec) \in LinkRows
<1>1. rec.turns \in 0..LinkCap
  BY DEF LinkRows
<1> DEFINE up == rec.turns + 1
           down == rec.turns - 1
<1>2. BelowCap(rec, cap) => up \in 0..LinkCap
  BY <1>1, CounterTyped
<1>3. rec.turns > 0 => down \in 0..LinkCap
  BY <1>1, CounterTyped
<1>4. 0 \in 0..LinkCap
  BY <1>1, CounterTyped
<1>5. /\ Claimed(rec) = [rec EXCEPT !.turns = up]
      /\ Refunded(rec) = IF rec.turns > 0 THEN [rec EXCEPT !.turns = down] ELSE rec
  BY DEF Claimed, Refunded
<1> HIDE DEF up, down
<1>6. RolledOver(rec, day) \in LinkRows
  BY <1>4 DEF RolledOver, LinkRows
<1>7. Refunded(rec) \in LinkRows /\ (BelowCap(rec, cap) => Claimed(rec) \in LinkRows)
  BY <1>2, <1>3, <1>5 DEF LinkRows
<1> QED  BY <1>6, <1>7

VisitRows == [exists : BOOLEAN, turns : 0..LinkCap, date : 0..LastDay]

LEMMA VisitTyped ==
    ASSUME NEW rec \in VisitRows, NEW day \in 0..LastDay, NEW cap \in 0..LinkCap
    PROVE  /\ RolledOver(rec, day) \in VisitRows
           /\ BelowCap(rec, cap) => Claimed(rec) \in VisitRows
           /\ [rec EXCEPT !.exists = TRUE] \in VisitRows
<1>1. rec.turns \in 0..LinkCap
  BY DEF VisitRows
<1> DEFINE up == rec.turns + 1
<1>2. BelowCap(rec, cap) => up \in 0..LinkCap
  BY <1>1, CounterTyped
<1>3. 0 \in 0..LinkCap
  BY <1>1, CounterTyped
<1>4. Claimed(rec) = [rec EXCEPT !.turns = up]
  BY DEF Claimed
<1> HIDE DEF up
<1>5. RolledOver(rec, day) \in VisitRows
  BY <1>3 DEF RolledOver, VisitRows
<1>6. BelowCap(rec, cap) => Claimed(rec) \in VisitRows
  BY <1>2, <1>4 DEF VisitRows
<1> QED  BY <1>5, <1>6 DEF VisitRows

\* A transcript has one end, and LastTurn is it.
LEMMA OneEnd ==
    ASSUME NEW turns, NEW last \in 0..MaxTurn, EndsAt(turns, last)
    PROVE  (CHOOSE n \in 0..MaxTurn : EndsAt(turns, n)) = last
<1>1. ASSUME NEW n \in 0..MaxTurn, EndsAt(turns, n)
      PROVE  n = last
  <2>1. MaxTurn \in Nat /\ n \in Nat /\ last \in Nat /\ n <= MaxTurn /\ last <= MaxTurn
    BY ShareAssumption
  <2>2. CASE n < last
    <3>1. last \in Turns /\ last > 0
      BY <2>1, <2>2 DEF Turns
    <3> QED  BY <1>1, <2>2, <3>1 DEF EndsAt
  <2>3. CASE last < n
    <3>1. n \in Turns /\ n > 0
      BY <2>1, <2>3 DEF Turns
    <3> QED  BY <1>1, <2>3, <3>1 DEF EndsAt
  <2> QED  BY <2>1, <2>2, <2>3
<1> QED  BY <1>1

LEMMA LastTurnIs ==
    ASSUME NEW s, NEW last \in 0..MaxTurn
    PROVE  /\ EndsAt(message[s], last) => LastTurn(s) = last
           /\ EndsAt(message'[s], last) => LastTurn(s)' = last
<1>1. LastTurn(s) = CHOOSE n \in 0..MaxTurn : EndsAt(message[s], n)
  BY DEF LastTurn, EndsAt
<1>2. LastTurn(s)' = CHOOSE n \in 0..MaxTurn : EndsAt(message'[s], n)
  BY DEF LastTurn, EndsAt
<1> QED  BY <1>1, <1>2, OneEnd

\* What TranscriptInv says of LastTurn.
LEMMA Transcript ==
    ASSUME TranscriptInv, NEW s \in Sessions
    PROVE  /\ LastTurn(s) \in 0..MaxTurn /\ LastTurn(s) \in Nat
           /\ EndsAt(message[s], LastTurn(s))
           /\ \A n \in 1..LastTurn(s) : message[s][n] = Writer(n)
           /\ Pending(s) <=> LastTurn(s) % 2 = 1
<1>1. PICK last \in 0..MaxTurn :
         EndsAt(message[s], last) /\ \A n \in 1..last : message[s][n] = Writer(n)
  BY DEF TranscriptInv
<1>2. LastTurn(s) = last
  BY <1>1, LastTurnIs
<1>3. last \in Nat /\ (last > 0 => last \in 1..last)
  BY ShareAssumption
<1>4. last > 0 => message[s][last] = Writer(last)
  BY <1>1, <1>3
<1>5. last % 2 = 1 => last > 0
  BY <1>3
<1> QED  BY <1>1, <1>2, <1>3, <1>4, <1>5 DEF Pending, Writer

\* A turn that is added to a transcript becomes its last one.
LEMMA TurnAdded ==
    ASSUME ShareTypeOK, TranscriptInv, NEW s \in Sessions, NEW n \in Turns, n = LastTurn(s) + 1,
           message' = [message EXCEPT ![s][n] = Writer(n)]
    PROVE  /\ TranscriptInv' /\ LastTurn(s)' = n
           /\ \A q \in Sessions : q # s => LastTurn(q)' = LastTurn(q)
<1>a. message \in [Sessions -> [Turns -> {"user", "assistant", Nobody}]]
  BY DEF ShareTypeOK
<1>b. n \in 0..MaxTurn /\ n \in Nat /\ n > 0
  BY ShareAssumption DEF Turns
<1>c. Writer(n) # Nobody
  BY DEF Writer, Nobody
<1>1. /\ message'[s][n] = Writer(n)
      /\ \A m \in Turns : m # n => message'[s][m] = message[s][m]
      /\ \A q \in Sessions : q # s => message'[q] = message[q]
  BY <1>a
<1>2. EndsAt(message[s], LastTurn(s)) /\ LastTurn(s) \in Nat
      /\ \A m \in 1..LastTurn(s) : message[s][m] = Writer(m)
  BY Transcript
<1>3. EndsAt(message'[s], n)
  <2>1. \A m \in Turns : m > n => m # n /\ m > LastTurn(s)
    BY <1>2, <1>b DEF Turns
  <2> QED  BY <1>1, <1>2, <1>b, <1>c, <2>1 DEF EndsAt
<1>4. \A m \in 1..n : message'[s][m] = Writer(m)
  <2>1. \A m \in 1..n : m = n \/ (m # n /\ m \in Turns /\ m \in 1..LastTurn(s))
    BY <1>2, <1>b, ShareAssumption DEF Turns
  <2> QED  BY <1>1, <1>2, <2>1
<1>5. ASSUME NEW q \in Sessions, q # s
      PROVE  /\ LastTurn(q)' = LastTurn(q)
             /\ \E last \in 0..MaxTurn :
                   EndsAt(message'[q], last) /\ \A m \in 1..last : message'[q][m] = Writer(m)
  <2>1. PICK last \in 0..MaxTurn :
           EndsAt(message[q], last) /\ \A m \in 1..last : message[q][m] = Writer(m)
    BY DEF TranscriptInv
  <2>2. message'[q] = message[q]
    BY <1>1, <1>5
  <2>3. LastTurn(q) = last /\ LastTurn(q)' = last
    BY <2>1, <2>2, LastTurnIs
  <2> QED  BY <2>1, <2>2, <2>3
<1>6. TranscriptInv'
  BY <1>b, <1>3, <1>4, <1>5 DEF TranscriptInv
<1> QED  BY <1>b, <1>3, <1>5, <1>6, LastTurnIs

\* What a request does in one step.
Acts(c) ==
    \/ Send(c) \/ RollLink(c) \/ ClaimLink(c) \/ OpenSession(c) \/ Lock(c)
    \/ ClaimSession(c) \/ GiveBack(c) \/ AppendTurn(c) \/ CommitRun(c) \/ Submit(c)

\* What the types say of the parts the proofs use.
LEMMA ShareTypes ==
    ASSUME ShareTypeOK
    PROVE  /\ link \in LinkRows /\ visit \in [Sessions -> VisitRows]
           /\ message \in [Sessions -> [Turns -> {"user", "assistant", Nobody}]]
           /\ latch \in [Sessions -> Tabs \cup {"free"}]
           /\ tab \in [Tabs -> TabStates]
           /\ reply \in [Sessions -> [Turns -> {"none", "submitted", "settled", "over"}]]
           /\ today \in 1..LastDay /\ today \in 0..LastDay /\ faults \in 0..MaxChatFaults
           /\ asked \in [Sessions -> [1..LastDay -> Nat]] /\ askedAll \in [1..LastDay -> Nat]
           /\ NoTab \in TabStates /\ NoTab.pc = "idle"
           /\ \A c \in Tabs : tab[c].day \in 0..LastDay /\ tab[c].cap \in 0..LinkCap
<1>1. today \in 1..LastDay => today \in 0..LastDay
  BY ShareAssumption
<1>2. tab \in [Tabs -> TabStates] => \A c \in Tabs : tab[c].day \in 0..LastDay /\ tab[c].cap \in 0..LinkCap
  BY DEF TabStates
<1> QED  BY <1>1, <1>2, NoTabTyped DEF ShareTypeOK, LinkRows, VisitRows

\* Every handler, worker and fault keeps the columns' types and the caps.
LEMMA TypeStep ==
    ASSUME ShareTypeOK, TranscriptInv, LatchInv, ShareNext
    PROVE  ShareTypeOK'
<1>a. /\ link \in LinkRows /\ visit \in [Sessions -> VisitRows]
      /\ message \in [Sessions -> [Turns -> {"user", "assistant", Nobody}]]
      /\ latch \in [Sessions -> Tabs \cup {"free"}] /\ tab \in [Tabs -> TabStates]
      /\ reply \in [Sessions -> [Turns -> {"none", "submitted", "settled", "over"}]]
      /\ today \in 1..LastDay /\ today \in 0..LastDay /\ faults \in 0..MaxChatFaults
      /\ asked \in [Sessions -> [1..LastDay -> Nat]] /\ askedAll \in [1..LastDay -> Nat]
      /\ NoTab \in TabStates /\ \A c \in Tabs : tab[c].day \in 0..LastDay /\ tab[c].cap \in 0..LinkCap
      /\ spilled \in BOOLEAN /\ straddled \in BOOLEAN
  BY ShareTypes DEF ShareTypeOK
<1>b. /\ \A pc \in {"idle", "rollLink", "claimLink", "openSession", "lock", "claimSession",
                    "append", "giveBack", "commitRun", "submit"}, c \in Tabs :
            [tab EXCEPT ![c].pc = pc] \in [Tabs -> TabStates]
      /\ \A c \in Tabs : [tab EXCEPT ![c] = NoTab] \in [Tabs -> TabStates]
  BY <1>a DEF TabStates
<1>c. Fault => faults' \in 0..MaxChatFaults
  BY <1>a, ShareAssumption DEF Fault
<1>d. \A s \in Sessions : LastTurn(s) \in 0..MaxTurn /\ LastTurn(s) \in Nat
  BY Transcript
<1>e. SUFFICES
        /\ link' \in LinkRows /\ visit' \in [Sessions -> VisitRows]
        /\ message' \in [Sessions -> [Turns -> {"user", "assistant", Nobody}]]
        /\ latch' \in [Sessions -> Tabs \cup {"free"}] /\ tab' \in [Tabs -> TabStates]
        /\ reply' \in [Sessions -> [Turns -> {"none", "submitted", "settled", "over"}]]
        /\ today' \in 1..LastDay /\ faults' \in 0..MaxChatFaults
        /\ asked' \in [Sessions -> [1..LastDay -> Nat]] /\ askedAll' \in [1..LastDay -> Nat]
        /\ spilled' \in BOOLEAN /\ straddled' \in BOOLEAN
  BY DEF ShareTypeOK, LinkRows, VisitRows
<1> USE DEF chatRest, Goes
<1>1. ASSUME NEW c \in Tabs, Send(c)
      PROVE  tab' \in [Tabs -> TabStates] /\ UNCHANGED <<link, visit, message, latch, reply, chatRest>>
  <2>1. PICK s \in {"none"} \cup {q \in Sessions : Exists(q)} :
          tab' = [tab EXCEPT ![c] = [NoTab EXCEPT !.pc = "rollLink", !.session = s, !.day = today,
                                                  !.cap = link.cap]]
    BY <1>1 DEF Send
  <2>2. link.cap \in 0..LinkCap
    BY <1>a DEF LinkRows
  <2>3. [NoTab EXCEPT !.pc = "rollLink", !.session = s, !.day = today, !.cap = link.cap] \in TabStates
    BY <1>a, <2>1, <2>2 DEF TabStates
  <2> QED  BY <1>1, <1>a, <2>1, <2>3 DEF Send
<1>2. ASSUME NEW c \in Tabs, RollLink(c) \/ ClaimLink(c)
      PROVE  /\ link' \in LinkRows /\ tab' \in [Tabs -> TabStates]
             /\ UNCHANGED <<visit, message, latch, reply, chatRest>>
  <2>1. CASE RollLink(c)
    <3>1. link' = RolledOver(link, tab[c].day) /\ tab' = [tab EXCEPT ![c].pc = "claimLink"]
      BY <2>1 DEF RollLink
    <3>2. RolledOver(link, tab[c].day) \in LinkRows
      BY <1>a, LinkTyped
    <3> QED  BY <2>1, <1>b, <3>1, <3>2 DEF RollLink
  <2>2. CASE ClaimLink(c)
    <3>1. /\ link' = link \/ (BelowCap(link, tab[c].cap) /\ link' = Claimed(link))
          /\ tab' \in {[tab EXCEPT ![c].pc = "openSession", ![c].day = 0, ![c].cap = link.cap],
                       [tab EXCEPT ![c] = NoTab]}
      BY <2>2 DEF ClaimLink
    <3>2. link' \in LinkRows
      BY <1>a, <3>1, LinkTyped
    <3>a. link.cap \in 0..LinkCap /\ 0 \in 0..LastDay
      BY <1>a, ShareAssumption DEF LinkRows
    <3>3. [tab EXCEPT ![c].pc = "openSession", ![c].day = 0, ![c].cap = link.cap] \in [Tabs -> TabStates]
      BY <1>a, <3>a DEF TabStates
    <3> QED  BY <2>2, <1>b, <3>1, <3>2, <3>3 DEF ClaimLink
  <2> QED  BY <1>2, <2>1, <2>2
<1>3. ASSUME NEW c \in Tabs, OpenSession(c)
      PROVE  /\ visit' \in [Sessions -> VisitRows] /\ tab' \in [Tabs -> TabStates]
             /\ UNCHANGED <<link, message, latch, reply, chatRest>>
  <2>1. CASE tab[c].session # "none"
    <3>1. tab' = [tab EXCEPT ![c].pc = "lock"] /\ UNCHANGED visit
      BY <1>3, <2>1 DEF OpenSession
    <3>2. [tab EXCEPT ![c].pc = "lock"] \in [Tabs -> TabStates]
      BY <1>b
    <3> QED  BY <1>3, <1>a, <3>1, <3>2 DEF OpenSession
  <2>2. CASE tab[c].session = "none"
    <3>1. PICK s \in Sessions :
            /\ visit' = [visit EXCEPT ![s].exists = TRUE]
            /\ tab' = [tab EXCEPT ![c].pc = "lock", ![c].session = s]
      BY <1>3, <2>2 DEF OpenSession, Unopened
    <3>2. visit' \in [Sessions -> VisitRows]
      BY <1>a, <3>1 DEF VisitRows
    <3>3. tab' \in [Tabs -> TabStates]
      BY <1>a, <3>1 DEF TabStates
    <3> QED  BY <1>3, <3>2, <3>3 DEF OpenSession
  <2> QED  BY <2>1, <2>2
<1>4. ASSUME NEW c \in Tabs, Lock(c)
      PROVE  /\ latch' \in [Sessions -> Tabs \cup {"free"}] /\ tab' \in [Tabs -> TabStates]
             /\ UNCHANGED <<link, visit, message, reply, chatRest>>
  BY <1>4, <1>a, <1>b DEF Lock
<1>5. ASSUME NEW c \in Tabs, ClaimSession(c)
      PROVE  /\ visit' \in [Sessions -> VisitRows] /\ tab' \in [Tabs -> TabStates]
             /\ UNCHANGED <<link, message, latch, reply, chatRest>>
  <2> DEFINE s == tab[c].session
             rec == RolledOver(visit[s], today)
  <2>1. tab[c].pc = "claimSession" /\ s \in Sessions
    BY <1>5 DEF ClaimSession, LatchInv
  <2>2. rec \in VisitRows /\ (BelowCap(rec, tab[c].cap) => Claimed(rec) \in VisitRows)
    BY <1>a, <2>1, VisitTyped
  <2>3. \/ /\ BelowCap(rec, tab[c].cap) /\ visit' = [visit EXCEPT ![s] = Claimed(rec)]
           /\ tab' = [tab EXCEPT ![c].pc = "append", ![c].day = today, ![c].cap = 0]
        \/ visit' = [visit EXCEPT ![s] = rec] /\ tab' = [tab EXCEPT ![c].pc = "giveBack"]
    BY <1>5 DEF ClaimSession
  <2>a. 0 \in 0..LinkCap
    BY ShareAssumption
  <2>4. /\ [tab EXCEPT ![c].pc = "append", ![c].day = today, ![c].cap = 0] \in [Tabs -> TabStates]
        /\ [tab EXCEPT ![c].pc = "giveBack"] \in [Tabs -> TabStates]
    BY <1>a, <2>a DEF TabStates
  <2> HIDE DEF rec, s
  <2>5. visit' \in [Sessions -> VisitRows]
    BY <1>a, <2>2, <2>3
  <2>6. tab' \in [Tabs -> TabStates]
    BY <2>3, <2>4
  <2> QED  BY <1>5, <2>5, <2>6 DEF ClaimSession
<1>6. ASSUME NEW c \in Tabs, GiveBack(c)
      PROVE  /\ link' \in LinkRows /\ tab' \in [Tabs -> TabStates]
             /\ latch' \in [Sessions -> Tabs \cup {"free"}]
             /\ UNCHANGED <<visit, message, reply, chatRest>>
  BY <1>6, <1>a, <1>b, LinkTyped DEF GiveBack, Unlatched
<1>7. ASSUME NEW c \in Tabs, AppendTurn(c)
      PROVE  /\ message' \in [Sessions -> [Turns -> {"user", "assistant", Nobody}]]
             /\ latch' \in [Sessions -> Tabs \cup {"free"}] /\ tab' \in [Tabs -> TabStates]
             /\ asked' \in [Sessions -> [1..LastDay -> Nat]] /\ askedAll' \in [1..LastDay -> Nat]
             /\ UNCHANGED <<link, visit, reply, today, faults, spilled, straddled>>
  <2> DEFINE s == tab[c].session
             n == LastTurn(s) + 1
             day == tab[c].day
  <2>1. s \in Sessions /\ n <= MaxTurn
    BY <1>7 DEF AppendTurn, LatchInv
  <2>2. n \in Turns /\ n \in 0..MaxTurn /\ 0 \in 0..LastDay
    BY <2>1, <1>d, ShareAssumption DEF Turns
  <2>3. /\ message' = [message EXCEPT ![s][n] = "user"]
        /\ asked' = [asked EXCEPT ![s][day] = @ + 1]
        /\ askedAll' = [askedAll EXCEPT ![day] = @ + 1]
        /\ tab' = [tab EXCEPT ![c].pc = "commitRun", ![c].day = 0, ![c].turn = n]
    BY <1>7 DEF AppendTurn
  <2> HIDE DEF s, n, day
  <2>4. message' \in [Sessions -> [Turns -> {"user", "assistant", Nobody}]]
    BY <1>a, <2>3
  <2>5. tab' \in [Tabs -> TabStates]
    BY <1>a, <2>2, <2>3 DEF TabStates
  <2>6. askedAll' \in [1..LastDay -> Nat]
    <3> DEFINE up == askedAll[day] + 1
    <3>0. day \in 1..LastDay => askedAll[day] \in Nat
      BY <1>a
    <3>1. day \in 1..LastDay => up \in Nat
      BY <3>0
    <3>2. askedAll' = [askedAll EXCEPT ![day] = up]
      BY <2>3
    <3> HIDE DEF up
    <3> QED  BY <1>a, <3>1, <3>2
  <2>7. asked' \in [Sessions -> [1..LastDay -> Nat]]
    <3> DEFINE up == asked[s][day] + 1
               own == [asked[s] EXCEPT ![day] = up]
    <3>a. asked[s] \in [1..LastDay -> Nat]
      BY <1>a, <2>1
    <3>b. day \in 1..LastDay => asked[s][day] \in Nat
      BY <3>a
    <3>1. day \in 1..LastDay => up \in Nat
      BY <3>b
    <3>2. asked' = [asked EXCEPT ![s] = own]
      BY <1>a, <2>1, <2>3
    <3> HIDE DEF up
    <3>3. own \in [1..LastDay -> Nat]
      BY <3>a, <3>1
    <3> HIDE DEF own
    <3> QED  BY <1>a, <3>2, <3>3
  <2> QED  BY <1>7, <1>a, <2>4, <2>5, <2>6, <2>7 DEF AppendTurn, Unlatched
<1>8. ASSUME NEW c \in Tabs, CommitRun(c)
      PROVE  /\ tab' \in [Tabs -> TabStates] /\ faults' \in 0..MaxChatFaults
             /\ UNCHANGED <<link, visit, message, latch, reply, today, asked, askedAll, spilled,
                            straddled>>
  <2>1. \/ tab' = [tab EXCEPT ![c].pc = "submit"] /\ UNCHANGED faults
        \/ Fault /\ tab' = [tab EXCEPT ![c] = NoTab]
    BY <1>8 DEF CommitRun
  <2>2. tab' \in [Tabs -> TabStates]
    BY <1>b, <2>1
  <2> QED  BY <1>8, <1>a, <1>c, <2>1, <2>2 DEF CommitRun
<1>f. \A s \in Sessions, n \in Turns :
        WithReply(s, n) \in [Sessions -> [Turns -> {"user", "assistant", Nobody}]]
  BY <1>a DEF WithReply
<1>9. ASSUME NEW c \in Tabs, Submit(c)
      PROVE  /\ message' \in [Sessions -> [Turns -> {"user", "assistant", Nobody}]]
             /\ reply' \in [Sessions -> [Turns -> {"none", "submitted", "settled", "over"}]]
             /\ tab' \in [Tabs -> TabStates] /\ UNCHANGED <<link, visit, latch, chatRest>>
  <2>1. message' \in {message, WithReply(tab[c].session, tab[c].turn)}
    BY <1>9 DEF Submit, RepliedOnRefusal
  <2>2. WithReply(tab[c].session, tab[c].turn) \in [Sessions -> [Turns -> {"user", "assistant", Nobody}]]
    BY <1>a DEF WithReply
  <2>3. message' \in [Sessions -> [Turns -> {"user", "assistant", Nobody}]]
    BY <1>a, <2>1, <2>2
  <2>4. PICK x \in {"submitted", "over"} :
           reply' = [reply EXCEPT ![tab[c].session][tab[c].turn] = x]
    BY <1>9 DEF Submit
  <2>5. reply' \in [Sessions -> [Turns -> {"none", "submitted", "settled", "over"}]]
    BY <1>a, <2>4
  <2>6. tab' \in [Tabs -> TabStates] /\ UNCHANGED <<link, visit, latch, chatRest>>
    BY <1>9, <1>b DEF Submit
  <2> QED  BY <2>3, <2>5, <2>6
<1>10. ASSUME NEW s \in Sessions, NEW n \in Turns, SettleRun(s, n) \/ RecordReply(s, n)
       PROVE  /\ message' \in [Sessions -> [Turns -> {"user", "assistant", Nobody}]]
              /\ reply' \in [Sessions -> [Turns -> {"none", "submitted", "settled", "over"}]]
              /\ faults' \in 0..MaxChatFaults
              /\ UNCHANGED <<link, visit, latch, tab, today, asked, askedAll, spilled, straddled>>
  <2>1. message' \in {message, WithReply(s, n)} /\ (UNCHANGED faults \/ Fault)
    BY <1>10 DEF SettleRun, RecordReply
  <2>2. message' \in [Sessions -> [Turns -> {"user", "assistant", Nobody}]]
    BY <1>a, <1>f, <2>1
  <2>3. faults' \in 0..MaxChatFaults
    BY <1>a, <1>c, <2>1
  <2>4. PICK x \in {"settled", "over"} : reply' = [reply EXCEPT ![s][n] = x]
    BY <1>10 DEF SettleRun, RecordReply
  <2>5. reply' \in [Sessions -> [Turns -> {"none", "submitted", "settled", "over"}]]
    BY <1>a, <2>4
  <2>6. UNCHANGED <<link, visit, latch, tab, today, asked, askedAll, spilled, straddled>>
    BY <1>10 DEF SettleRun, RecordReply
  <2> QED  BY <2>2, <2>3, <2>5, <2>6
<1>11. CASE PatchLink
  BY <1>11, <1>a, <1>c DEF PatchLink, LinkRows
<1>12. CASE Midnight
  BY <1>12, <1>a, ShareAssumption DEF Midnight
<1>13. CASE RestartChat
  BY <1>13, <1>a, <1>c DEF RestartChat
<1>14. CASE \E c \in Tabs : Acts(c)
  BY <1>14, <1>a, <1>1, <1>2, <1>3, <1>4, <1>5, <1>6, <1>7, <1>8, <1>9 DEF Acts
<1>15. CASE \E s \in Sessions, n \in Turns : SettleRun(s, n) \/ RecordReply(s, n)
  BY <1>15, <1>a, <1>10
<1> QED  BY <1>11, <1>12, <1>13, <1>14, <1>15 DEF ShareNext, Acts

----------------------------------------------------------------------------
\* The transcript.

\* Turn n of session s is written, as the next one.
Adds(s, n) ==
    /\ s \in Sessions /\ n \in Turns /\ n = LastTurn(s) + 1
    /\ message' = [message EXCEPT ![s][n] = Writer(n)]

\* A question is added under the session's lock, to a transcript without an open one.
LEMMA QuestionAdds ==
    ASSUME ShareTypeOK, TranscriptInv, LatchInv, NEW c \in Tabs, AppendTurn(c)
    PROVE  ~Pending(tab[c].session) /\ Adds(tab[c].session, LastTurn(tab[c].session) + 1)
<1> DEFINE s == tab[c].session
<1>1. s \in Sessions /\ ~Pending(s) /\ LastTurn(s) + 1 <= MaxTurn
      /\ message' = [message EXCEPT ![s][LastTurn(s) + 1] = "user"]
  BY DEF AppendTurn, LatchInv
<1> HIDE DEF s
<1>2. LastTurn(s) \in Nat /\ LastTurn(s) % 2 # 1
  BY <1>1, Transcript
<1>3. LastTurn(s) + 1 \in Turns
  BY <1>1, <1>2, ShareAssumption DEF Turns
<1>4. Writer(LastTurn(s) + 1) = "user"
  <2>1. \A n \in Nat : n % 2 # 1 => Writer(n + 1) = "user"
    BY DEF Writer
  <2> QED  BY <1>2, <2>1
<1> QED  BY <1>1, <1>3, <1>4 DEF Adds, s

\* The first reply to an open question is added after it.
LEMMA AnswerAdds ==
    ASSUME ShareTypeOK, TranscriptInv, NEW s \in Sessions, NEW n \in Turns, n < MaxTurn,
           n = LastTurn(s), Pending(s), message' = WithReply(s, n)
    PROVE  Adds(s, n + 1)
<1>1. n + 1 \in Turns /\ n \in Nat
  BY ShareAssumption DEF Turns
<1>2. message[s][n + 1] = Nobody
  BY <1>1, Transcript DEF EndsAt
<1>3. Writer(n + 1) = "assistant"
  <2>1. \A m \in Nat : m % 2 = 1 => Writer(m + 1) = "assistant"
    BY DEF Writer
  <2> QED  BY <1>1, <2>1, Transcript
<1> QED  BY <1>1, <1>2, <1>3 DEF WithReply, Adds

\* A question is added under the session's lock to a transcript without an open
\* one, an answer to the transcript whose last turn is the question it answers.
LEMMA TurnsMove ==
    ASSUME ShareTypeOK, TranscriptInv, LatchInv, AskedInv, ShareNext
    PROVE  \/ UNCHANGED message
           \/ \E c \in Tabs : AppendTurn(c) /\ ~Pending(tab[c].session)
                              /\ Adds(tab[c].session, LastTurn(tab[c].session) + 1)
           \/ \E c \in Tabs : Submit(c) /\ Pending(tab[c].session)
                              /\ Adds(tab[c].session, tab[c].turn + 1)
           \/ \E s \in Sessions, n \in Turns : RecordReply(s, n) /\ Pending(s) /\ Adds(s, n + 1)
<1>c. ASSUME NEW s \in Sessions, NEW n \in Turns, n < MaxTurn, n = LastTurn(s), Pending(s),
             message' = WithReply(s, n)
      PROVE  Adds(s, n + 1)
  BY <1>c, AnswerAdds
<1>1. ASSUME NEW c \in Tabs, AppendTurn(c)
      PROVE  ~Pending(tab[c].session) /\ Adds(tab[c].session, LastTurn(tab[c].session) + 1)
  BY <1>1, QuestionAdds
<1>2. ASSUME NEW c \in Tabs, Submit(c)
      PROVE  UNCHANGED message \/ (Pending(tab[c].session) /\ Adds(tab[c].session, tab[c].turn + 1))
  <2>1. /\ tab[c].session \in Sessions /\ tab[c].turn \in Turns
        /\ tab[c].turn = LastTurn(tab[c].session) /\ Pending(tab[c].session)
    BY <1>2 DEF Submit, AskedInv, LatchInv, Asks
  <2>2. /\ tab[c].turn < MaxTurn
        /\ UNCHANGED message \/ message' = WithReply(tab[c].session, tab[c].turn)
    BY <1>2 DEF Submit, RepliedOnRefusal
  <2> QED  BY <1>c, <2>1, <2>2
<1>3. ASSUME NEW s \in Sessions, NEW n \in Turns, RecordReply(s, n)
      PROVE  UNCHANGED message \/ (Pending(s) /\ Adds(s, n + 1))
  <2>1. n < MaxTurn /\ n = LastTurn(s) /\ Pending(s)
    BY <1>3 DEF RecordReply, AskedInv, Answers
  <2>2. UNCHANGED message \/ message' = WithReply(s, n)
    BY <1>3 DEF RecordReply
  <2> QED  BY <1>c, <2>1, <2>2
<1> QED  BY <1>1, <1>2, <1>3 DEF ShareNext, Send, RollLink, ClaimLink, OpenSession, Lock,
            ClaimSession, GiveBack, CommitRun, SettleRun, PatchLink, Midnight, RestartChat

\* A turn that is added opens its session's question or answers it, and leaves
\* the other sessions alone.
LEMMA TurnOpensOrCloses ==
    ASSUME ShareTypeOK, TranscriptInv, NEW s, NEW n, Adds(s, n)
    PROVE  /\ TranscriptInv'
           /\ LastTurn(s)' = n /\ (Pending(s)' <=> ~Pending(s))
           /\ \A q \in Sessions : q # s => LastTurn(q)' = LastTurn(q) /\ Pending(q)' = Pending(q)
<1>1. s \in Sessions /\ n \in Turns /\ n = LastTurn(s) + 1
      /\ message' = [message EXCEPT ![s][n] = Writer(n)]
  BY DEF Adds
<1>a. message \in [Sessions -> [Turns -> {"user", "assistant", Nobody}]]
  BY ShareTypes
<1>2. /\ TranscriptInv' /\ LastTurn(s)' = n
      /\ \A q \in Sessions : q # s => LastTurn(q)' = LastTurn(q)
  BY <1>1, TurnAdded
<1>3. Pending(s)' <=> n % 2 = 1
  <2>1. message'[s][n] = Writer(n) /\ n > 0
    BY <1>1, <1>a, ShareAssumption DEF Turns
  <2> QED  BY <1>2, <2>1 DEF Pending, Writer
<1>4. Pending(s) <=> LastTurn(s) % 2 = 1
  BY <1>1, Transcript
<1>5. n % 2 = 1 <=> LastTurn(s) % 2 # 1
  <2>1. LastTurn(s) \in Nat
    BY <1>1, Transcript
  <2> QED  BY <1>1, <2>1
<1>6. ASSUME NEW q \in Sessions, q # s
      PROVE  Pending(q)' = Pending(q)
  <2>1. message'[q] = message[q] /\ LastTurn(q)' = LastTurn(q)
    BY <1>1, <1>2, <1>6, <1>a
  <2> QED  BY <2>1 DEF Pending
<1>7. Pending(s)' <=> ~Pending(s)
  BY <1>3, <1>4, <1>5
<1>8. \A q \in Sessions : q # s => LastTurn(q)' = LastTurn(q) /\ Pending(q)' = Pending(q)
  BY <1>2, <1>6
<1> QED  BY <1>2, <1>7, <1>8

LEMMA SameTurns ==
    ASSUME UNCHANGED message
    PROVE  /\ TranscriptInv => TranscriptInv'
           /\ \A s \in Sessions : LastTurn(s)' = LastTurn(s) /\ Pending(s)' = Pending(s)
  BY DEF TranscriptInv, LastTurn, Pending

\* Every step keeps questions and answers in turn.
LEMMA TranscriptStep ==
    ASSUME ShareTypeOK, TranscriptInv, LatchInv, AskedInv, ShareNext
    PROVE  TranscriptInv'
  BY TurnsMove, TurnOpensOrCloses, SameTurns

\* A request moves its own record only; the workers and the clock move none.
LEMMA TabFrame ==
    ASSUME ShareTypeOK, ShareNext
    PROVE  \/ \E c \in Tabs : Acts(c) /\ \A d \in Tabs : d # c => tab'[d] = tab[d]
           \/ RestartChat
           \/ UNCHANGED <<tab, latch>>
<1>a. tab \in [Tabs -> TabStates]
  BY ShareTypes
<1>1. ASSUME NEW c \in Tabs, Acts(c)
      PROVE  \A d \in Tabs : d # c => tab'[d] = tab[d]
  BY <1>1, <1>a DEF Acts, Goes, Send, RollLink, ClaimLink, OpenSession, Lock, ClaimSession,
        GiveBack, AppendTurn, CommitRun, Submit
<1>2. ASSUME NEW q \in Sessions, NEW n \in Turns, SettleRun(q, n) \/ RecordReply(q, n)
      PROVE  UNCHANGED <<tab, latch>>
  BY <1>2 DEF SettleRun, RecordReply
<1>3. PatchLink \/ Midnight => UNCHANGED <<tab, latch>>
  BY DEF PatchLink, Midnight
<1> QED  BY <1>1, <1>2, <1>3 DEF ShareNext, Acts

\* What each handler does to its request.
LEMMA Moves ==
    ASSUME ShareTypeOK, NEW c \in Tabs
    PROVE  /\ Send(c) => tab'[c].pc = "rollLink" /\ tab'[c].day = today
           /\ RollLink(c) => tab'[c] = [tab[c] EXCEPT !.pc = "claimLink"]
           /\ ClaimLink(c) => \/ /\ BelowCap(link, tab[c].cap)
                                 /\ tab'[c] = [tab[c] EXCEPT !.pc = "openSession", !.day = 0,
                                                             !.cap = link.cap]
                              \/ ~BelowCap(link, tab[c].cap) /\ tab'[c] = NoTab
           /\ OpenSession(c) => /\ tab'[c].pc = "lock" /\ tab'[c].session \in Sessions
                                /\ tab'[c].day = tab[c].day
           /\ Lock(c) => tab'[c] = [tab[c] EXCEPT !.pc =
                            IF Pending(tab[c].session) THEN "giveBack" ELSE "claimSession"]
           /\ ClaimSession(c) =>
                LET rec == RolledOver(visit[tab[c].session], today) IN
                \/ /\ BelowCap(rec, tab[c].cap)
                   /\ tab'[c] = [tab[c] EXCEPT !.pc = "append", !.day = today, !.cap = 0]
                \/ ~BelowCap(rec, tab[c].cap) /\ tab'[c] = [tab[c] EXCEPT !.pc = "giveBack"]
           /\ GiveBack(c) => tab'[c] = NoTab
           /\ AppendTurn(c) => tab'[c] = [tab[c] EXCEPT !.pc = "commitRun", !.day = 0,
                                             !.turn = LastTurn(tab[c].session) + 1]
           /\ CommitRun(c) => \/ tab'[c] = [tab[c] EXCEPT !.pc = "submit"]
                              \/ tab'[c] = NoTab /\ Fault
           /\ Submit(c) => tab'[c] = NoTab
<1>a. tab \in [Tabs -> TabStates] /\ tab[c].session \in Sessions \cup {"none"}
  BY ShareTypes DEF TabStates
<1> USE DEF Goes
<1>1. Send(c) => tab'[c].pc = "rollLink" /\ tab'[c].day = today
  BY <1>a DEF Send, NoTab
<1>2. RollLink(c) => tab'[c] = [tab[c] EXCEPT !.pc = "claimLink"]
  BY <1>a DEF RollLink
<1>3. ClaimLink(c) => \/ /\ BelowCap(link, tab[c].cap)
                         /\ tab'[c] = [tab[c] EXCEPT !.pc = "openSession", !.day = 0,
                                                     !.cap = link.cap]
                      \/ ~BelowCap(link, tab[c].cap) /\ tab'[c] = NoTab
  BY <1>a DEF ClaimLink
<1>4. OpenSession(c) => /\ tab'[c].pc = "lock" /\ tab'[c].session \in Sessions
                        /\ tab'[c].day = tab[c].day
  BY <1>a DEF OpenSession, Unopened, TabStates
<1>5. Lock(c) => tab'[c] = [tab[c] EXCEPT !.pc =
                    IF Pending(tab[c].session) THEN "giveBack" ELSE "claimSession"]
  BY <1>a DEF Lock
<1>6. ClaimSession(c) =>
        LET rec == RolledOver(visit[tab[c].session], today) IN
        \/ /\ BelowCap(rec, tab[c].cap)
           /\ tab'[c] = [tab[c] EXCEPT !.pc = "append", !.day = today, !.cap = 0]
        \/ ~BelowCap(rec, tab[c].cap) /\ tab'[c] = [tab[c] EXCEPT !.pc = "giveBack"]
  BY <1>a DEF ClaimSession
<1>7. GiveBack(c) => tab'[c] = NoTab
  BY <1>a DEF GiveBack
<1>8. AppendTurn(c) => tab'[c] = [tab[c] EXCEPT !.pc = "commitRun", !.day = 0,
                                     !.turn = LastTurn(tab[c].session) + 1]
  BY <1>a DEF AppendTurn
<1>9. CommitRun(c) => tab'[c] = [tab[c] EXCEPT !.pc = "submit"] \/ (tab'[c] = NoTab /\ Fault)
  BY <1>a DEF CommitRun
<1>10. Submit(c) => tab'[c] = NoTab
  BY <1>a DEF Submit
<1> QED  BY <1>1, <1>2, <1>3, <1>4, <1>5, <1>6, <1>7, <1>8, <1>9, <1>10

\* The lock over a session: who is inside, and that no question is open then.
LEMMA LatchStep ==
    ASSUME ShareTypeOK, TranscriptInv, LatchInv, AskedInv, ShareNext
    PROVE  LatchInv'
<1>a. /\ tab \in [Tabs -> TabStates] /\ latch \in [Sessions -> Tabs \cup {"free"}]
      /\ NoTab.pc = "idle"
  BY ShareTypes
<1>b. "free" \notin Tabs
  BY ShareAssumption
<1> DEFINE Within(t) == t.pc \in {"claimSession", "append", "giveBack"}
           InASession(t) == t.pc \in {"lock", "claimSession", "append", "giveBack", "commitRun", "submit"}
<1>1. CASE RestartChat
  BY <1>1, <1>a DEF RestartChat, LatchInv
<1>2. ASSUME UNCHANGED <<tab, latch>>
      PROVE  LatchInv'
  <2>1. ASSUME NEW d \in Tabs, tab[d].pc \in {"claimSession", "append"},
               NEW s \in Sessions, s = tab[d].session
        PROVE  ~Pending(s)'
    <3>1. ~Pending(s)
      BY <2>1 DEF LatchInv
    <3>2. \A c \in Tabs : ~AppendTurn(c) /\ ~Submit(c)
      BY <1>2, <1>a DEF AppendTurn, Submit, TabStates
    <3> QED  BY <3>1, <3>2, TurnsMove, TurnOpensOrCloses, SameTurns DEF Adds
  <2>2. \A d \in Tabs : tab[d].pc \in {"claimSession", "append"} =>
            \E s \in Sessions : s = tab[d].session /\ ~Pending(s)'
    BY <2>1 DEF LatchInv
  <2> QED  BY <1>2, <2>2 DEF LatchInv
<1>3. ASSUME NEW c \in Tabs, Acts(c), \A d \in Tabs : d # c => tab'[d] = tab[d]
      PROVE  LatchInv'
  <2>1. InASession(tab'[c]) => tab'[c].session \in Sessions
    <3>1. CASE OpenSession(c)
      BY <3>1, Moves
    <3>2. CASE Lock(c)
      <4>1. tab[c].pc = "lock" /\ tab'[c].session = tab[c].session
        BY <3>2, <1>a, Moves DEF Lock, TabStates
      <4> QED  BY <4>1 DEF LatchInv
    <3>3. CASE ClaimSession(c)
      <4>1. tab[c].pc = "claimSession" /\ tab'[c].session = tab[c].session
        BY <3>3, <1>a, Moves DEF ClaimSession, TabStates
      <4> QED  BY <4>1 DEF LatchInv
    <3>4. CASE AppendTurn(c)
      <4>1. tab[c].pc = "append" /\ tab'[c].session = tab[c].session
        <5> DEFINE n == LastTurn(tab[c].session) + 1
        <5>1. tab'[c] = [tab[c] EXCEPT !.pc = "commitRun", !.day = 0, !.turn = n]
          BY <3>4, Moves
        <5> HIDE DEF n
        <5> QED  BY <3>4, <5>1, <1>a DEF AppendTurn, TabStates
      <4> QED  BY <4>1 DEF LatchInv
    <3>5. CASE CommitRun(c)
      <4>1. tab[c].pc = "commitRun" /\ (tab'[c].session = tab[c].session \/ tab'[c] = NoTab)
        BY <3>5, <1>a, Moves DEF CommitRun, TabStates
      <4> QED  BY <4>1, <1>a DEF LatchInv
    <3>6. CASE Send(c) \/ RollLink(c) \/ ClaimLink(c) \/ GiveBack(c) \/ Submit(c)
      <4>1. tab'[c].pc \in {"idle", "rollLink", "claimLink", "openSession"}
        BY <3>6, <1>a, Moves DEF TabStates
      <4> QED  BY <4>1
    <3> QED  BY <1>3, <3>1, <3>2, <3>3, <3>4, <3>5, <3>6 DEF Acts
  <2>2. Within(tab'[c]) => latch'[tab'[c].session] = c
    <3>1. CASE Lock(c)
      BY <3>1, <1>a, <2>1 DEF Lock, Goes, TabStates
    <3>2. CASE ClaimSession(c)
      BY <3>2, <1>a DEF ClaimSession, LatchInv, Goes, TabStates
    <3>3. CASE ~Lock(c) /\ ~ClaimSession(c)
      <4>1. tab'[c].pc \notin {"claimSession", "append", "giveBack"}
        <5>1. CASE Send(c) \/ OpenSession(c)
          BY <5>1, Moves
        <5>2. CASE RollLink(c) \/ ClaimLink(c) \/ GiveBack(c) \/ AppendTurn(c) \/ CommitRun(c) \/ Submit(c)
          BY <5>2, <1>a, Moves DEF TabStates
        <5> QED  BY <1>3, <3>3, <5>1, <5>2 DEF Acts
      <4> QED  BY <4>1
    <3> QED  BY <3>1, <3>2, <3>3
  <2>3. \A d \in Tabs : d # c /\ Within(tab[d]) => latch'[tab[d].session] = d
    <3>1. CASE Lock(c)
      BY <3>1, <1>a, <1>b DEF Lock, LatchOpen, LatchInv
    <3>2. CASE GiveBack(c) \/ AppendTurn(c)
      BY <3>2, <1>a DEF GiveBack, AppendTurn, Unlatched, LatchInv
    <3>3. CASE UNCHANGED latch
      BY <3>3 DEF LatchInv
    <3> QED  BY <1>3, <3>1, <3>2, <3>3 DEF Acts, Send, RollLink, ClaimLink, OpenSession, ClaimSession,
                CommitRun, Submit
  <2>4. ASSUME NEW d \in Tabs, tab'[d].pc \in {"claimSession", "append"},
               NEW s \in Sessions, s = tab'[d].session
        PROVE  ~Pending(s)'
    <3>1. CASE d # c
      <4>1. ~Pending(s) /\ latch[s] = d /\ tab[d].session = s
        BY <1>3, <2>4, <3>1 DEF LatchInv
      <4>2. ASSUME NEW e \in Tabs, AppendTurn(e)
            PROVE  tab[e].session # s
        <5>1. CASE e # d
          BY <4>1, <4>2, <5>1 DEF AppendTurn, LatchInv
        <5>2. CASE e = d
          BY <1>3, <1>a, <2>4, <3>1, <4>2, <5>2 DEF AppendTurn, TabStates
        <5> QED  BY <5>1, <5>2
      <4>3. UNCHANGED message \/ \E q \in Sessions, n \in Turns : q # s /\ Adds(q, n)
        BY <4>1, <4>2, TurnsMove DEF Adds
      <4>4. ASSUME NEW q \in Sessions, NEW n \in Turns, q # s, Adds(q, n)
            PROVE  Pending(s)' = Pending(s)
        BY <4>4, TurnOpensOrCloses
      <4> QED  BY <4>1, <4>3, <4>4, SameTurns
    <3>2. CASE d = c
      <4>1. Lock(c) \/ ClaimSession(c)
        <5>1. CASE Send(c) \/ OpenSession(c)
          BY <5>1, <2>4, <3>2, Moves
        <5>2. CASE RollLink(c) \/ ClaimLink(c) \/ GiveBack(c) \/ CommitRun(c) \/ Submit(c)
          BY <5>2, <2>4, <3>2, <1>a, Moves DEF TabStates
        <5>3. CASE AppendTurn(c)
          <6> DEFINE n == LastTurn(tab[c].session) + 1
          <6>1. tab'[c] = [tab[c] EXCEPT !.pc = "commitRun", !.day = 0, !.turn = n]
            BY <5>3, Moves
          <6> HIDE DEF n
          <6> QED  BY <2>4, <3>2, <6>1, <1>a DEF TabStates
        <5> QED  BY <1>3, <5>1, <5>2, <5>3 DEF Acts
      <4>2. UNCHANGED message /\ ~Pending(s)
        <5>1. CASE Lock(c)
          BY <5>1, <2>4, <3>2, <1>a, Moves DEF Lock, TabStates
        <5>2. CASE ClaimSession(c)
          <6>1. tab[c].pc = "claimSession" /\ tab'[c].session = tab[c].session /\ UNCHANGED message
            BY <5>2, <1>a, Moves DEF ClaimSession, TabStates
          <6> QED  BY <6>1, <2>4, <3>2 DEF LatchInv
        <5> QED  BY <4>1, <5>1, <5>2
      <4> QED  BY <4>2, SameTurns
    <3> QED  BY <3>1, <3>2
  <2> QED  BY <1>3, <2>1, <2>2, <2>3, <2>4 DEF LatchInv
<1> QED  BY <1>1, <1>2, <1>3, TabFrame

\* What a step does to the run of a turn.
LEMMA RepliesMove ==
    ASSUME ShareTypeOK, ShareNext, NEW s \in Sessions, NEW n \in Turns
    PROVE  \/ reply'[s][n] = reply[s][n]
           \/ \E c \in Tabs : /\ Submit(c) /\ tab[c].session = s /\ tab[c].turn = n
                              /\ \/ reply'[s][n] = "submitted" /\ UNCHANGED message
                                 \/ reply'[s][n] = "over"
           \/ SettleRun(s, n) /\ reply'[s][n] = "settled"
           \/ RecordReply(s, n) /\ reply'[s][n] = "over"
           \/ RestartChat /\ reply'[s][n] \in {"none", "over"}
                          /\ (reply[s][n] = "none" => reply'[s][n] = "none")
<1>a. reply \in [Sessions -> [Turns -> {"none", "submitted", "settled", "over"}]]
  BY ShareTypes
<1>1. ASSUME NEW c \in Tabs, Submit(c)
      PROVE  \/ reply'[s][n] = reply[s][n]
             \/ /\ tab[c].session = s /\ tab[c].turn = n
                /\ \/ reply'[s][n] = "submitted" /\ UNCHANGED message
                   \/ reply'[s][n] = "over"
  <2>1. \/ /\ reply' = [reply EXCEPT ![tab[c].session][tab[c].turn] = "submitted"]
           /\ UNCHANGED message
        \/ reply' = [reply EXCEPT ![tab[c].session][tab[c].turn] = "over"]
    BY <1>1 DEF Submit
  <2>2. ASSUME NEW x, reply' = [reply EXCEPT ![tab[c].session][tab[c].turn] = x]
        PROVE  \/ reply'[s][n] = reply[s][n]
               \/ tab[c].session = s /\ tab[c].turn = n /\ reply'[s][n] = x
    BY <2>2, <1>a
  <2> QED  BY <2>1, <2>2
<1>2. ASSUME NEW q \in Sessions, NEW m \in Turns, SettleRun(q, m)
      PROVE  reply'[s][n] = reply[s][n] \/ (q = s /\ m = n /\ reply'[s][n] = "settled")
  BY <1>2, <1>a DEF SettleRun
<1>3. ASSUME NEW q \in Sessions, NEW m \in Turns, RecordReply(q, m)
      PROVE  reply'[s][n] = reply[s][n] \/ (q = s /\ m = n /\ reply'[s][n] = "over")
  BY <1>3, <1>a DEF RecordReply
<1>4. CASE RestartChat
  BY <1>4, <1>a DEF RestartChat
<1>5. CASE UNCHANGED reply
  BY <1>5
<1> QED  BY <1>1, <1>2, <1>3, <1>4, <1>5 DEF ShareNext, Send, RollLink, ClaimLink, OpenSession, Lock,
            ClaimSession, GiveBack, AppendTurn, CommitRun, PatchLink, Midnight

\* The transcript of a session whose question is being answered, or asked to be,
\* changes by that answer only.
LEMMA OpenStays ==
    ASSUME ShareTypeOK, TranscriptInv, LatchInv, AskedInv, ShareNext, NEW s \in Sessions, Pending(s)
    PROVE  \/ LastTurn(s)' = LastTurn(s) /\ Pending(s)'
           \/ \E c \in Tabs : Submit(c) /\ tab[c].session = s /\ Adds(s, LastTurn(s) + 1)
           \/ RecordReply(s, LastTurn(s)) /\ Adds(s, LastTurn(s) + 1)
<1>1. CASE UNCHANGED message
  BY <1>1, SameTurns
<1>2. ASSUME NEW q \in Sessions, NEW n \in Turns, q # s, Adds(q, n)
      PROVE  LastTurn(s)' = LastTurn(s) /\ Pending(s)'
  BY <1>2, TurnOpensOrCloses
<1>3. ASSUME NEW c \in Tabs, AppendTurn(c), ~Pending(tab[c].session),
             Adds(tab[c].session, LastTurn(tab[c].session) + 1)
      PROVE  LastTurn(s)' = LastTurn(s) /\ Pending(s)'
  BY <1>2, <1>3 DEF Adds
<1>4. ASSUME NEW c \in Tabs, Submit(c), Adds(tab[c].session, tab[c].turn + 1)
      PROVE  \/ LastTurn(s)' = LastTurn(s) /\ Pending(s)'
             \/ tab[c].session = s /\ Adds(s, LastTurn(s) + 1)
  BY <1>2, <1>4 DEF Adds, Submit, AskedInv, Asks
<1>5. ASSUME NEW q \in Sessions, NEW n \in Turns, RecordReply(q, n), Adds(q, n + 1)
      PROVE  \/ LastTurn(s)' = LastTurn(s) /\ Pending(s)'
             \/ RecordReply(s, LastTurn(s)) /\ Adds(s, LastTurn(s) + 1)
  <2>1. n = LastTurn(q)
    BY <1>5 DEF RecordReply, AskedInv, Answers
  <2> QED  BY <1>2, <1>5, <2>1 DEF Adds
<1> QED  BY <1>1, <1>3, <1>4, <1>5, TurnsMove

\* Every step keeps the question and who is to answer it together.
LEMMA AskedStep ==
    ASSUME ShareTypeOK, TranscriptInv, LatchInv, AskedInv, ShareNext
    PROVE  AskedInv'
<1>a. /\ tab \in [Tabs -> TabStates] /\ NoTab.pc = "idle"
      /\ reply \in [Sessions -> [Turns -> {"none", "submitted", "settled", "over"}]]
  BY ShareTypes
<1>b. \A s \in Sessions : LastTurn(s) \in Nat
  BY Transcript
\* Who asks after the step asked before it, or has just appended the question.
<1>1. ASSUME NEW c \in Tabs, Asks(c)'
      PROVE  \/ /\ Asks(c) /\ tab'[c].session = tab[c].session /\ tab'[c].turn = tab[c].turn
                /\ ~Submit(c) /\ ~RestartChat
             \/ AppendTurn(c) /\ tab'[c].session = tab[c].session
                /\ tab'[c].turn = LastTurn(tab[c].session) + 1
  <2>1. tab'[c].pc \in {"commitRun", "submit"}
    BY <1>1 DEF Asks
  <2>2. ~Submit(c) /\ ~RestartChat
    BY <2>1, <1>a, Moves DEF RestartChat
  <2>3. CASE tab'[c] = tab[c]
    BY <2>1, <2>2, <2>3 DEF Asks
  <2>4. CASE Acts(c)
    <3>1. CASE CommitRun(c)
      <4>1. tab'[c] = [tab[c] EXCEPT !.pc = "submit"] /\ tab[c].pc = "commitRun"
        BY <3>1, <2>1, <1>a, Moves DEF CommitRun
      <4> QED  BY <4>1, <2>2, <1>a DEF Asks, TabStates
    <3>2. CASE AppendTurn(c)
      <4> DEFINE n == LastTurn(tab[c].session) + 1
      <4>1. tab'[c] = [tab[c] EXCEPT !.pc = "commitRun", !.day = 0, !.turn = n]
        BY <3>2, Moves
      <4> HIDE DEF n
      <4>2. tab'[c].session = tab[c].session /\ tab'[c].turn = n
        BY <4>1, <1>a DEF TabStates
      <4> QED  BY <3>2, <4>2 DEF n
    <3>3. CASE Send(c) \/ OpenSession(c)
      BY <3>3, <2>1, Moves
    <3>4. CASE RollLink(c) \/ ClaimLink(c) \/ Lock(c) \/ ClaimSession(c) \/ GiveBack(c)
      BY <3>4, <2>1, <1>a, Moves DEF TabStates
    <3> QED  BY <2>2, <2>4, <3>1, <3>2, <3>3, <3>4 DEF Acts
  <2> QED  BY <2>2, <2>3, <2>4, TabFrame
<1>2. ASSUME NEW c \in Tabs, Asks(c)', NEW s, s = tab'[c].session, NEW n, n = tab'[c].turn
      PROVE  s \in Sessions /\ n \in Turns /\ n = LastTurn(s)' /\ Pending(s)' /\ reply'[s][n] = "none"
  <2>1. CASE /\ Asks(c) /\ s = tab[c].session /\ n = tab[c].turn /\ ~Submit(c) /\ ~RestartChat
    <3>1. /\ s \in Sessions /\ n \in Turns /\ n = LastTurn(s) /\ Pending(s) /\ reply[s][n] = "none"
      BY <2>1 DEF Asks, AskedInv, LatchInv
    <3>2. \A e \in Tabs : Submit(e) => tab[e].session # s
      BY <2>1 DEF Submit, AskedInv, Asks
    <3>3. ~SettleRun(s, n) /\ ~RecordReply(s, n)
      BY <3>1 DEF SettleRun, RecordReply
    <3>4. LastTurn(s)' = LastTurn(s) /\ Pending(s)'
      BY <3>1, <3>2, <3>3, OpenStays
    <3>5. reply'[s][n] = reply[s][n]
      BY <2>1, <3>1, <3>2, <3>3, RepliesMove
    <3> QED  BY <3>1, <3>4, <3>5
  <2>2. CASE AppendTurn(c) /\ s = tab[c].session /\ n = LastTurn(s) + 1
    <3>1. ~Pending(s) /\ Adds(s, n)
      BY <2>2, QuestionAdds
    <3>2. s \in Sessions /\ n \in Turns /\ n > LastTurn(s)
      BY <2>2, <3>1, <1>b DEF Adds
    <3>3. LastTurn(s)' = n /\ Pending(s)'
      BY <3>1, TurnOpensOrCloses
    <3>4. reply'[s][n] = "none"
      BY <2>2, <3>2 DEF AppendTurn, AskedInv
    <3> QED  BY <3>2, <3>3, <3>4
  <2> QED  BY <1>1, <1>2, <2>1, <2>2
<1>3. ASSUME NEW c \in Tabs, NEW d \in Tabs, Asks(c)', Asks(d)', tab'[c].session = tab'[d].session
      PROVE  c = d
  <2>1. \A e \in Tabs : AppendTurn(e) => ~Pending(tab[e].session) /\ latch[tab[e].session] = e
    BY DEF AppendTurn, LatchInv
  <2>2. \A e \in Tabs : Asks(e) => Pending(tab[e].session)
    BY DEF AskedInv
  <2>3. CASE Asks(c) /\ Asks(d) /\ tab[c].session = tab[d].session
    BY <2>3 DEF AskedInv
  <2> QED  BY <1>1, <1>3, <2>1, <2>2, <2>3
<1>4. ASSUME NEW s \in Sessions, NEW n \in Turns, Answers(s, n)'
      PROVE  n < MaxTurn /\ n = LastTurn(s)' /\ Pending(s)'
  <2>1. reply'[s][n] \in {"submitted", "settled"}
    BY <1>4 DEF Answers
  <2>2. CASE reply'[s][n] = reply[s][n]
    <3>1. n < MaxTurn /\ n = LastTurn(s) /\ Pending(s) /\ reply[s][n] # "none"
      BY <2>1, <2>2 DEF AskedInv, Answers
    <3>2. \A e \in Tabs : Submit(e) => tab[e].session # s
      BY <3>1 DEF Submit, AskedInv, Asks
    <3>3. ~RecordReply(s, n)
      BY <2>1, <1>a DEF RecordReply
    <3> QED  BY <3>1, <3>2, <3>3, OpenStays
  <2>3. ASSUME NEW c \in Tabs, Submit(c), tab[c].session = s, tab[c].turn = n, UNCHANGED message
        PROVE  n < MaxTurn /\ n = LastTurn(s)' /\ Pending(s)'
    <3>1. n < MaxTurn /\ n = LastTurn(s) /\ Pending(s)
      BY <2>3 DEF Submit, AskedInv, Asks
    <3> QED  BY <2>3, <3>1, SameTurns
  <2>4. CASE SettleRun(s, n)
    <3>1. n < MaxTurn /\ n = LastTurn(s) /\ Pending(s) /\ UNCHANGED message
      BY <2>4 DEF SettleRun, AskedInv, Answers
    <3> QED  BY <3>1, SameTurns
  <2> QED  BY <2>1, <2>2, <2>3, <2>4, RepliesMove
<1>5. ASSUME NEW s \in Sessions, NEW n \in Turns, n > LastTurn(s)'
      PROVE  reply'[s][n] = "none"
  <2>1. LastTurn(s)' = LastTurn(s) \/ LastTurn(s)' = LastTurn(s) + 1
    <3>1. ASSUME NEW q, NEW m, Adds(q, m)
          PROVE  LastTurn(s)' = LastTurn(s) \/ LastTurn(s)' = LastTurn(s) + 1
      <4>1. m = LastTurn(q) + 1
        BY <3>1 DEF Adds
      <4> QED  BY <3>1, <4>1, TurnOpensOrCloses
    <3>2. CASE UNCHANGED message
      BY <3>2, SameTurns
    <3> QED  BY <3>1, <3>2, TurnsMove
  <2>2. n \in Nat /\ n > LastTurn(s)
    BY <1>5, <2>1, <1>b, ShareAssumption DEF Turns
  <2>3. n # LastTurn(s)
    BY <2>2, <1>b
  <2>4. reply[s][n] = "none"
    BY <2>2 DEF AskedInv
  <2>5. ~SettleRun(s, n) /\ ~RecordReply(s, n)
    BY <2>4 DEF SettleRun, RecordReply
  <2>6. \A c \in Tabs : Submit(c) /\ tab[c].session = s => tab[c].turn # n
    BY <2>3 DEF Submit, AskedInv, Asks
  <2> QED  BY <2>4, <2>5, <2>6, RepliesMove
<1> QED  BY <1>2, <1>3, <1>4, <1>5 DEF AskedInv

\* A fault is counted.
LEMMA FaultsMove ==
    ASSUME ShareTypeOK, ShareNext
    PROVE  /\ faults \in Nat /\ (faults' = faults \/ Fault)
           /\ faults > 0 \/ Fault => faults' > 0
<1>1. faults \in Nat
  BY ShareTypes, ShareAssumption
<1>2. faults' = faults \/ Fault
  BY DEF ShareNext, chatRest, Send, RollLink, ClaimLink, OpenSession, Lock, ClaimSession, GiveBack,
     AppendTurn, CommitRun, Submit, SettleRun, RecordReply, PatchLink, Midnight, RestartChat
<1> QED  BY <1>1, <1>2 DEF Fault

\* Only a fault takes away who is to answer an open question.
LEMMA ServedStep ==
    ASSUME ShareTypeOK, TranscriptInv, LatchInv, AskedInv, OpenTurnIsServed, ShareNext
    PROVE  OpenTurnIsServed'
<1>a. /\ tab \in [Tabs -> TabStates]
      /\ reply \in [Sessions -> [Turns -> {"none", "submitted", "settled", "over"}]]
  BY ShareTypes
<1>b. SUFFICES ASSUME NEW s \in Sessions, ~Fault, faults = 0, Pending(s)'
               PROVE  AtWork(s)'
  <2>1. faults = 0 \/ faults > 0
    BY FaultsMove
  <2> QED  BY <1>b, <2>1, FaultsMove DEF OpenTurnIsServed
<1>1. CASE ~Pending(s)
  <2>1. PICK c \in Tabs : AppendTurn(c) /\ tab[c].session = s
    <3>1. UNCHANGED message => Pending(s)' = Pending(s)
      BY SameTurns
    <3>2. ASSUME NEW q, NEW n, Adds(q, n), q # s
          PROVE  Pending(s)' = Pending(s)
      BY <3>2, TurnOpensOrCloses
    <3> QED  BY <1>1, <1>b, <3>1, <3>2, TurnsMove
  <2>2. tab'[c].session = s /\ tab'[c].pc = "commitRun"
    <3> DEFINE n == LastTurn(tab[c].session) + 1
    <3>1. tab'[c] = [tab[c] EXCEPT !.pc = "commitRun", !.day = 0, !.turn = n]
      BY <2>1, Moves
    <3> HIDE DEF n
    <3> QED  BY <2>1, <3>1, <1>a DEF TabStates
  <2> QED  BY <2>2 DEF AtWork
<1>2. ASSUME NEW c \in Tabs, Asks(c), tab[c].session = s
      PROVE  AtWork(s)'
  <2>1. /\ tab[c].turn \in Turns /\ tab[c].turn = LastTurn(s) /\ Pending(s)
        /\ tab[c].pc \in {"commitRun", "submit"}
    BY <1>2 DEF AskedInv, Asks
  <2>2. CASE tab'[c] = tab[c]
    BY <1>2, <2>1, <2>2 DEF AtWork
  <2>3. CASE CommitRun(c)
    <3>1. tab'[c].session = s /\ tab'[c].pc = "submit"
      <4>1. tab'[c] = [tab[c] EXCEPT !.pc = "submit"]
        BY <1>b, <2>3, Moves
      <4> QED  BY <1>2, <4>1, <1>a DEF TabStates
    <3> QED  BY <3>1 DEF AtWork
  <2>4. CASE Submit(c)
    <3>1. CASE reply' = [reply EXCEPT ![s][tab[c].turn] = "submitted"]
      <4>1. reply'[s][tab[c].turn] = "submitted"
        BY <2>1, <3>1, <1>a
      <4> QED  BY <2>1, <4>1 DEF AtWork
    <3>2. CASE message' = WithReply(s, tab[c].turn)
      <4>1. tab[c].turn < MaxTurn
        BY <2>4 DEF Submit
      <4>2. Adds(s, tab[c].turn + 1)
        BY <2>1, <3>2, <4>1, AnswerAdds
      <4> QED  BY <1>b, <2>1, <4>2, TurnOpensOrCloses
    <3> QED  BY <1>2, <2>4, <3>1, <3>2 DEF Submit, RepliedOnRefusal
  <2>5. ~RestartChat
    BY <1>b DEF RestartChat
  <2>6. CASE Acts(c)
    BY <2>1, <2>3, <2>4, <2>6 DEF Acts, Send, RollLink, ClaimLink, OpenSession, Lock, ClaimSession,
       GiveBack, AppendTurn
  <2> QED  BY <2>2, <2>5, <2>6, TabFrame
<1>3. ASSUME NEW n \in Turns, Answers(s, n)
      PROVE  AtWork(s)'
  <2>1. n < MaxTurn /\ n = LastTurn(s) /\ Pending(s) /\ reply[s][n] \in {"submitted", "settled"}
    BY <1>3 DEF AskedInv, Answers
  <2>2. CASE reply'[s][n] = reply[s][n] \/ reply'[s][n] = "settled"
    BY <2>1, <2>2 DEF AtWork
  <2>3. \A c \in Tabs : ~(Submit(c) /\ tab[c].session = s /\ tab[c].turn = n)
    BY <2>1 DEF Submit, AskedInv, Asks
  <2>4. ~RecordReply(s, n)
    <3>1. ASSUME RecordReply(s, n)
          PROVE  FALSE
      <4>1. message' = WithReply(s, n)
        BY <1>b, <3>1 DEF RecordReply
      <4>2. Adds(s, n + 1)
        BY <2>1, <4>1, AnswerAdds
      <4> QED  BY <1>b, <2>1, <4>2, TurnOpensOrCloses
    <3> QED  BY <3>1
  <2>5. ~RestartChat
    BY <1>b DEF RestartChat
  <2> QED  BY <2>2, <2>3, <2>4, <2>5, RepliesMove
<1>4. Pending(s) => AtWork(s)
  BY <1>b DEF OpenTurnIsServed
<1> QED  BY <1>1, <1>2, <1>3, <1>4 DEF AtWork, Asks, Answers

----------------------------------------------------------------------------
\* The counters.

LEMMA ActFrame ==
    ASSUME ShareTypeOK, NEW c \in Tabs, Acts(c)
    PROVE  /\ \A d \in Tabs : d # c => tab'[d] = tab[d]
           /\ UNCHANGED <<today, spilled, straddled>>
<1>1. tab \in [Tabs -> TabStates]
  BY ShareTypes
<1>2. \A d \in Tabs : d # c => tab'[d] = tab[d]
  BY <1>1 DEF Acts, Goes, Send, RollLink, ClaimLink, OpenSession, Lock, ClaimSession,
     GiveBack, AppendTurn, CommitRun, Submit
<1>3. UNCHANGED <<today, spilled, straddled>>
  BY DEF Acts, Send, RollLink, ClaimLink, OpenSession, Lock, ClaimSession,
     GiveBack, AppendTurn, CommitRun, Submit, chatRest
<1> QED  BY <1>2, <1>3

ClaimPcs == {"openSession", "lock", "claimSession", "append", "giveBack"}

\* Where a handler finds its request and where it leaves it.
LEMMA PcsMove ==
    ASSUME ShareTypeOK, NEW c \in Tabs
    PROVE  /\ Send(c) => tab[c].pc = "idle" /\ tab'[c].pc = "rollLink"
           /\ RollLink(c) => tab[c].pc = "rollLink" /\ tab'[c].pc = "claimLink"
           /\ ClaimLink(c) => /\ tab[c].pc = "claimLink"
                              /\ BelowCap(link, tab[c].cap) => tab'[c].pc = "openSession"
                              /\ ~BelowCap(link, tab[c].cap) => tab'[c].pc = "idle"
           /\ OpenSession(c) => tab[c].pc = "openSession" /\ tab'[c].pc = "lock"
           /\ Lock(c) => tab[c].pc = "lock" /\ tab'[c].pc \in {"giveBack", "claimSession"}
           /\ ClaimSession(c) =>
                LET rec == RolledOver(visit[tab[c].session], today) IN
                /\ tab[c].pc = "claimSession" /\ tab'[c].session = tab[c].session
                /\ BelowCap(rec, tab[c].cap) => tab'[c].pc = "append" /\ tab'[c].day = today
                /\ ~BelowCap(rec, tab[c].cap) => tab'[c].pc = "giveBack" /\ tab'[c].day = tab[c].day
           /\ GiveBack(c) => tab[c].pc = "giveBack" /\ tab'[c].pc = "idle"
           /\ AppendTurn(c) => /\ tab[c].pc = "append" /\ tab'[c].pc = "commitRun"
                               /\ tab'[c].day = 0
           /\ CommitRun(c) => tab[c].pc = "commitRun" /\ tab'[c].pc \in {"submit", "idle"}
           /\ Submit(c) => tab[c].pc = "submit" /\ tab'[c].pc = "idle"
<1>a. tab \in [Tabs -> TabStates] /\ NoTab.pc = "idle"
  BY ShareTypes
<1>1. Send(c) => tab[c].pc = "idle" /\ tab'[c].pc = "rollLink"
  BY Moves DEF Send
<1>2. RollLink(c) => tab[c].pc = "rollLink" /\ tab'[c].pc = "claimLink"
  BY <1>a, Moves DEF RollLink, TabStates
<1>3. ClaimLink(c) => /\ tab[c].pc = "claimLink"
                      /\ BelowCap(link, tab[c].cap) => tab'[c].pc = "openSession"
                      /\ ~BelowCap(link, tab[c].cap) => tab'[c].pc = "idle"
  BY <1>a, Moves DEF ClaimLink, TabStates
<1>4. OpenSession(c) => tab[c].pc = "openSession" /\ tab'[c].pc = "lock"
  BY Moves DEF OpenSession
<1>5. Lock(c) => tab[c].pc = "lock" /\ tab'[c].pc \in {"giveBack", "claimSession"}
  BY <1>a, Moves DEF Lock, TabStates
<1>6. ASSUME ClaimSession(c), NEW rec, rec = RolledOver(visit[tab[c].session], today)
      PROVE  /\ tab[c].pc = "claimSession" /\ tab'[c].session = tab[c].session
             /\ BelowCap(rec, tab[c].cap) => tab'[c].pc = "append" /\ tab'[c].day = today
             /\ ~BelowCap(rec, tab[c].cap) => tab'[c].pc = "giveBack" /\ tab'[c].day = tab[c].day
  <2>1. \/ /\ BelowCap(rec, tab[c].cap)
           /\ tab'[c] = [tab[c] EXCEPT !.pc = "append", !.day = today, !.cap = 0]
        \/ ~BelowCap(rec, tab[c].cap) /\ tab'[c] = [tab[c] EXCEPT !.pc = "giveBack"]
    BY <1>6, Moves
  <2> QED  BY <1>6, <1>a, <2>1 DEF ClaimSession, TabStates
<1>7. GiveBack(c) => tab[c].pc = "giveBack" /\ tab'[c].pc = "idle"
  BY <1>a, Moves DEF GiveBack
<1>8. AppendTurn(c) => tab[c].pc = "append" /\ tab'[c].pc = "commitRun" /\ tab'[c].day = 0
  <2> SUFFICES ASSUME AppendTurn(c), NEW n, n = LastTurn(tab[c].session) + 1
               PROVE  tab[c].pc = "append" /\ tab'[c].pc = "commitRun" /\ tab'[c].day = 0
    OBVIOUS
  <2>1. tab'[c] = [tab[c] EXCEPT !.pc = "commitRun", !.day = 0, !.turn = n]
    BY Moves
  <2> QED  BY <2>1, <1>a DEF AppendTurn, TabStates
<1>9. CommitRun(c) => tab[c].pc = "commitRun" /\ tab'[c].pc \in {"submit", "idle"}
  BY <1>a, Moves DEF CommitRun, TabStates
<1>10. Submit(c) => tab[c].pc = "submit" /\ tab'[c].pc = "idle"
  BY <1>a, Moves DEF Submit
<1> QED  BY <1>1, <1>2, <1>3, <1>4, <1>5, <1>6, <1>7, <1>8, <1>9, <1>10

\* A claim enters the count with the link's counter and leaves it by a refund or a
\* question.
LEMMA ClaimingMoves ==
    ASSUME ShareTypeOK, NEW c \in Tabs, Acts(c)
    PROVE  /\ ClaimLink(c) /\ BelowCap(link, tab[c].cap) =>
                c \notin Claiming /\ Claiming' = Claiming \cup {c}
           /\ GiveBack(c) \/ AppendTurn(c) => c \in Claiming /\ Claiming' = Claiming \ {c}
           /\ ~(ClaimLink(c) /\ BelowCap(link, tab[c].cap)) /\ ~GiveBack(c) /\ ~AppendTurn(c) =>
                Claiming' = Claiming
<1>1. \A d \in Tabs : d # c => tab'[d] = tab[d]
  BY ActFrame
<1>2. ClaimLink(c) /\ BelowCap(link, tab[c].cap) => tab[c].pc \notin ClaimPcs /\ tab'[c].pc \in ClaimPcs
  BY PcsMove DEF ClaimPcs
<1>3. GiveBack(c) \/ AppendTurn(c) => tab[c].pc \in ClaimPcs /\ tab'[c].pc \notin ClaimPcs
  BY PcsMove DEF ClaimPcs
<1>4. ~(ClaimLink(c) /\ BelowCap(link, tab[c].cap)) /\ ~GiveBack(c) /\ ~AppendTurn(c) =>
        (tab[c].pc \in ClaimPcs <=> tab'[c].pc \in ClaimPcs)
  <2>1. ClaimSession(c) => tab[c].pc \in ClaimPcs /\ tab'[c].pc \in ClaimPcs
    BY PcsMove DEF ClaimPcs
  <2>2. OpenSession(c) \/ Lock(c) => tab[c].pc \in ClaimPcs /\ tab'[c].pc \in ClaimPcs
    BY PcsMove DEF ClaimPcs
  <2>3. Send(c) \/ RollLink(c) \/ CommitRun(c) \/ Submit(c) =>
            tab[c].pc \notin ClaimPcs /\ tab'[c].pc \notin ClaimPcs
    BY PcsMove DEF ClaimPcs
  <2>4. ClaimLink(c) /\ ~BelowCap(link, tab[c].cap) => tab[c].pc \notin ClaimPcs /\ tab'[c].pc \notin ClaimPcs
    BY PcsMove DEF ClaimPcs
  <2> QED  BY <2>1, <2>2, <2>3, <2>4 DEF Acts
<1>5. \A d : d \in Claiming <=> d \in Tabs /\ tab[d].pc \in ClaimPcs
  BY DEF Claiming, ClaimPcs
<1>6. \A d : d \in Claiming' <=> d \in Tabs /\ tab'[d].pc \in ClaimPcs
  BY DEF Claiming, ClaimPcs
<1>7. \A d : d # c => (d \in Claiming' <=> d \in Claiming)
  BY <1>1, <1>5, <1>6
<1> QED  BY <1>2, <1>3, <1>4, <1>5, <1>6, <1>7

\* The same of a session's counter.
LEMMA AppendingMoves ==
    ASSUME ShareTypeOK, NEW c \in Tabs, Acts(c), NEW s \in Sessions
    PROVE  LET claims == /\ ClaimSession(c) /\ tab[c].session = s
                         /\ BelowCap(RolledOver(visit[s], today), tab[c].cap)
               asks == AppendTurn(c) /\ tab[c].session = s
           IN /\ claims => c \notin Appending(s) /\ Appending(s)' = Appending(s) \cup {c}
              /\ asks => c \in Appending(s) /\ Appending(s)' = Appending(s) \ {c}
              /\ ~claims /\ ~asks => Appending(s)' = Appending(s)
<1> DEFINE claims == /\ ClaimSession(c) /\ tab[c].session = s
                     /\ BelowCap(RolledOver(visit[s], today), tab[c].cap)
           asks == AppendTurn(c) /\ tab[c].session = s
           was == tab[c].session = s /\ tab[c].pc = "append"
           is == tab'[c].session = s /\ tab'[c].pc = "append"
<1>1. \A d \in Tabs : d # c => tab'[d] = tab[d]
  BY ActFrame
<1>2. claims => ~was /\ is
  BY PcsMove
<1>3. asks => was /\ ~is
  BY PcsMove
<1>4. ~claims /\ ~asks => (was <=> is)
  <2>1. CASE ClaimSession(c)
    BY <2>1, PcsMove
  <2>2. CASE AppendTurn(c)
    BY <2>2, PcsMove
  <2>3. CASE ~ClaimSession(c) /\ ~AppendTurn(c)
    <3>1. tab[c].pc # "append"
      BY <2>3, PcsMove DEF Acts
    <3>2. tab'[c].pc # "append"
      BY <2>3, PcsMove DEF Acts
    <3> QED  BY <3>1, <3>2
  <2> QED  BY <2>1, <2>2, <2>3
<1>5. \A d : d \in Appending(s) <=> d \in Tabs /\ tab[d].session = s /\ tab[d].pc = "append"
  BY DEF Appending
<1>6. \A d : d \in Appending(s)' <=> d \in Tabs /\ tab'[d].session = s /\ tab'[d].pc = "append"
  BY DEF Appending
<1>7. \A d : d # c => (d \in Appending(s)' <=> d \in Appending(s))
  BY <1>1, <1>5, <1>6
<1>8. (c \in Appending(s) <=> was) /\ (c \in Appending(s)' <=> is)
  BY <1>5, <1>6
<1> HIDE DEF claims, asks, was, is
<1>9. /\ claims => c \notin Appending(s) /\ Appending(s)' = Appending(s) \cup {c}
      /\ asks => c \in Appending(s) /\ Appending(s)' = Appending(s) \ {c}
      /\ ~claims /\ ~asks => Appending(s)' = Appending(s)
  BY <1>2, <1>3, <1>4, <1>7, <1>8
<1> QED  BY <1>9 DEF claims, asks

\* What a request does to the link's row, and what it does to the sessions' rows.
LEMMA LinkMoves ==
    ASSUME ShareTypeOK, NEW c \in Tabs, Acts(c)
    PROVE  /\ RollLink(c) => IF link.date # tab[c].day
                             THEN link'.turns = 0 /\ link'.date = tab[c].day
                             ELSE link' = link
           /\ ClaimLink(c) /\ BelowCap(link, tab[c].cap) =>
                link'.turns = link.turns + 1 /\ link'.date = link.date
           /\ GiveBack(c) => /\ link'.date = link.date
                             /\ link.turns > 0 => link'.turns = link.turns - 1
           /\ ~RollLink(c) /\ ~(ClaimLink(c) /\ BelowCap(link, tab[c].cap)) /\ ~GiveBack(c) => link' = link
<1>a. link \in LinkRows
  BY ShareTypes
<1>1. RollLink(c) => IF link.date # tab[c].day
                     THEN link'.turns = 0 /\ link'.date = tab[c].day
                     ELSE link' = link
  BY <1>a DEF RollLink, RolledOver, LinkRows
<1>2. ClaimLink(c) /\ BelowCap(link, tab[c].cap) => link'.turns = link.turns + 1 /\ link'.date = link.date
  <2> SUFFICES ASSUME ClaimLink(c), BelowCap(link, tab[c].cap), NEW up, up = link.turns + 1
               PROVE  link'.turns = up /\ link'.date = link.date
    OBVIOUS
  <2>1. link' = [link EXCEPT !.turns = up]
    BY DEF ClaimLink, Claimed
  <2> QED  BY <2>1, <1>a DEF LinkRows
<1>3. GiveBack(c) => /\ link'.date = link.date
                     /\ link.turns > 0 => link'.turns = link.turns - 1
  <2> SUFFICES ASSUME GiveBack(c), NEW down, down = link.turns - 1
               PROVE  link'.date = link.date /\ (link.turns > 0 => link'.turns = down)
    OBVIOUS
  <2>1. link' = IF link.turns > 0 THEN [link EXCEPT !.turns = down] ELSE link
    BY DEF GiveBack, Refunded
  <2> QED  BY <2>1, <1>a DEF LinkRows
<1>4. ~RollLink(c) /\ ~(ClaimLink(c) /\ BelowCap(link, tab[c].cap)) /\ ~GiveBack(c) => link' = link
  BY DEF Acts, Send, ClaimLink, OpenSession, Lock, ClaimSession, AppendTurn, CommitRun, Submit
<1> QED  BY <1>1, <1>2, <1>3, <1>4

LEMMA VisitsMove ==
    ASSUME ShareTypeOK, LatchInv, NEW c \in Tabs, Acts(c), NEW s \in Sessions
    PROVE  IF ClaimSession(c) /\ tab[c].session = s
           THEN \E rec \in VisitRows :
                /\ rec = RolledOver(visit[s], today)
                /\ visit'[s].date = today
                /\ visit'[s].turns = IF BelowCap(rec, tab[c].cap) THEN rec.turns + 1 ELSE rec.turns
           ELSE visit'[s].date = visit[s].date /\ visit'[s].turns = visit[s].turns
<1>a. visit \in [Sessions -> VisitRows] /\ today \in 0..LastDay
  BY ShareTypes
<1>1. ASSUME ClaimSession(c), tab[c].session = s
      PROVE  \E rec \in VisitRows :
                /\ rec = RolledOver(visit[s], today)
                /\ visit'[s].date = today
                /\ visit'[s].turns = IF BelowCap(rec, tab[c].cap) THEN rec.turns + 1 ELSE rec.turns
  <2>1. PICK rec : rec = RolledOver(visit[s], today)
    OBVIOUS
  <2>2. rec \in VisitRows /\ rec.date = today
    <3>1. visit[s] \in VisitRows
      BY <1>a
    <3>2. rec \in VisitRows
      <4>1. 0 \in 0..LinkCap
        BY ShareAssumption
      <4> QED  BY <1>a, <2>1, <3>1, <4>1, VisitTyped
    <3>3. rec.date = today
      BY <2>1, <3>1 DEF RolledOver, VisitRows
    <3> QED  BY <3>2, <3>3
  <2>3. PICK up : up = rec.turns + 1
    OBVIOUS
  <2>4. \/ BelowCap(rec, tab[c].cap) /\ visit' = [visit EXCEPT ![s] = [rec EXCEPT !.turns = up]]
        \/ ~BelowCap(rec, tab[c].cap) /\ visit' = [visit EXCEPT ![s] = rec]
    BY <1>1, <2>1, <2>3 DEF ClaimSession, Claimed
  <2>5. visit'[s].date = today /\ visit'[s].turns = IF BelowCap(rec, tab[c].cap) THEN up ELSE rec.turns
    BY <1>a, <2>2, <2>4 DEF VisitRows
  <2> QED  BY <2>1, <2>2, <2>3, <2>5
<1>2. ASSUME ClaimSession(c), tab[c].session # s
      PROVE  visit'[s] = visit[s]
  <2> DEFINE q == tab[c].session
             rec == RolledOver(visit[q], today)
  <2>1. \/ visit' = [visit EXCEPT ![q] = Claimed(rec)]
        \/ visit' = [visit EXCEPT ![q] = rec]
    BY <1>2 DEF ClaimSession
  <2>2. q # s
    BY <1>2
  <2> HIDE DEF q, rec
  <2> QED  BY <2>1, <2>2, <1>a
<1>3. ASSUME OpenSession(c)
      PROVE  visit'[s].date = visit[s].date /\ visit'[s].turns = visit[s].turns
  <2>1. UNCHANGED visit \/ \E q \in Sessions : visit' = [visit EXCEPT ![q].exists = TRUE]
    BY <1>3 DEF OpenSession, Unopened
  <2> QED  BY <2>1, <1>a DEF VisitRows
<1>4. ~ClaimSession(c) /\ ~OpenSession(c) => UNCHANGED visit
  BY DEF Acts, Send, RollLink, ClaimLink, Lock, GiveBack, AppendTurn, CommitRun, Submit
<1> QED  BY <1>1, <1>2, <1>3, <1>4

\* Everything else leaves the counters and who claims from them alone.
LEMMA OthersKeep ==
    ASSUME ShareTypeOK, ShareNext, ~RestartChat, ~Midnight, \A c \in Tabs : ~Acts(c)
    PROVE  /\ UNCHANGED <<visit, tab, today, asked, askedAll, spilled, straddled>>
           /\ link'.turns = link.turns /\ link'.date = link.date
<1>1. link \in LinkRows
  BY ShareTypes
<1> QED  BY <1>1 DEF ShareNext, Acts, SettleRun, RecordReply, PatchLink, chatRest, LinkRows

LEMMA KeepsDay ==
    ASSUME ShareTypeOK, NEW c \in Tabs,
           \/ RollLink(c) \/ ClaimLink(c) \/ OpenSession(c) \/ Lock(c) \/ GiveBack(c)
           \/ CommitRun(c) \/ Submit(c)
    PROVE  /\ tab'[c].day \in {tab[c].day, 0}
           /\ tab'[c].day = tab[c].day \/ tab'[c] = NoTab \/ ClaimLink(c)
<1>a. tab[c] \in TabStates /\ NoTab.day = 0
  BY ShareTypes DEF NoTab
<1>b. ClaimLink(c) => tab'[c].day = 0
  BY <1>a, Moves DEF TabStates
<1>1. \/ \E pc : tab'[c] = [tab[c] EXCEPT !.pc = pc]
      \/ tab'[c] = NoTab \/ OpenSession(c) \/ ClaimLink(c)
  BY Moves
<1>2. \A pc : [tab[c] EXCEPT !.pc = pc].day = tab[c].day
  BY <1>a DEF TabStates
<1>3. OpenSession(c) => tab'[c].day = tab[c].day
  BY Moves
<1> QED  BY <1>a, <1>b, <1>1, <1>2, <1>3

\* A claim's day is read off the clock.
LEMMA DayStep ==
    ASSUME ShareTypeOK, LatchInv, DayInv, ShareNext
    PROVE  DayInv'
<1>a. /\ tab \in [Tabs -> TabStates] /\ visit \in [Sessions -> VisitRows] /\ link \in LinkRows
      /\ today \in Nat /\ NoTab.day = 0
      /\ link.date \in Nat /\ \A s \in Sessions : visit[s].date \in Nat
      /\ \A d \in Tabs : tab[d].day \in Nat
  <2>1. today \in Nat /\ NoTab.day = 0
    BY ShareTypes, ShareAssumption DEF NoTab
  <2>2. 0..LastDay \subseteq Nat
    BY ShareAssumption
  <2> QED  BY <2>1, <2>2, ShareTypes DEF LinkRows, VisitRows, TabStates
<1>1. ASSUME NEW c \in Tabs, Acts(c)
      PROVE  DayInv'
  <2>1. today' = today /\ \A d \in Tabs : d # c => tab'[d] = tab[d]
    BY <1>1, ActFrame
  <2>2. link'.date \in {link.date, tab[c].day}
    BY <1>1, LinkMoves
  <2>3. \A s \in Sessions : visit'[s].date \in {visit[s].date, today}
    BY <1>1, VisitsMove
  <2>4. tab'[c].day \in {tab[c].day, today, 0}
    <3>1. CASE ClaimSession(c)
      BY <3>1, PcsMove
    <3>2. CASE AppendTurn(c)
      BY <3>2, PcsMove
    <3>3. CASE Send(c) \/ OpenSession(c)
      BY <3>3, Moves
    <3>4. CASE RollLink(c) \/ ClaimLink(c) \/ Lock(c) \/ GiveBack(c) \/ CommitRun(c) \/ Submit(c)
      BY <3>4, <1>a, KeepsDay
    <3> QED  BY <1>1, <3>1, <3>2, <3>3, <3>4 DEF Acts
  <2>5. tab'[c].day <= today
    BY <1>a, <2>4 DEF DayInv
  <2>6. link'.date <= today /\ \A s \in Sessions : visit'[s].date <= today
    BY <1>a, <2>2, <2>3 DEF DayInv
  <2> QED  BY <2>1, <2>5, <2>6 DEF DayInv
<1>2. CASE RestartChat
  BY <1>2, <1>a DEF RestartChat, DayInv
<1>3. CASE Midnight
  <2>1. today' = today + 1 /\ UNCHANGED <<link, visit, tab>>
    BY <1>3 DEF Midnight
  <2>2. \A d \in Nat : d <= today => d <= today'
    BY <2>1, <1>a
  <2> QED  BY <2>1, <2>2, <1>a DEF DayInv
<1>4. CASE ~RestartChat /\ ~Midnight /\ \A c \in Tabs : ~Acts(c)
  <2>1. UNCHANGED <<visit, tab, today>> /\ link'.date = link.date
    BY <1>4, OthersKeep
  <2> QED  BY <2>1 DEF DayInv
<1> QED  BY <1>1, <1>2, <1>3, <1>4

\* Where a request holds the day it claims on.
DayPcs == {"rollLink", "claimLink", "append"}

\* Unless a day begins over a send, the send finds its counters on its day.
LEMMA SameDayStep ==
    ASSUME ShareTypeOK, LatchInv, SameDayInv, ShareNext
    PROVE  SameDayInv'
<1>a. tab \in [Tabs -> TabStates] /\ NoTab.pc = "idle"
  BY ShareTypes
<1>b. SUFFICES ASSUME ~straddled' PROVE
        /\ \A d \in Tabs : tab'[d].pc \in DayPcs => tab'[d].day = today'
        /\ \A d \in Tabs : tab'[d].pc \in ClaimPcs \cup {"claimLink"} => link'.date = today'
        /\ \A d \in Tabs : tab'[d].pc = "append" => visit'[tab'[d].session].date = today'
  BY DEF SameDayInv, Claiming, ClaimPcs, DayPcs
<1>c. ~straddled =>
        /\ \A d \in Tabs : tab[d].pc \in DayPcs => tab[d].day = today
        /\ \A d \in Tabs : tab[d].pc \in ClaimPcs \cup {"claimLink"} => link.date = today
        /\ \A d \in Tabs : tab[d].pc = "append" => visit[tab[d].session].date = today
  BY DEF SameDayInv, Claiming, ClaimPcs, DayPcs
<1>1. ASSUME NEW c \in Tabs, Acts(c)
      PROVE  /\ \A d \in Tabs : tab'[d].pc \in DayPcs => tab'[d].day = today'
             /\ \A d \in Tabs : tab'[d].pc \in ClaimPcs \cup {"claimLink"} => link'.date = today'
             /\ \A d \in Tabs : tab'[d].pc = "append" => visit'[tab'[d].session].date = today'
  <2>1. today' = today /\ ~straddled /\ \A d \in Tabs : d # c => tab'[d] = tab[d]
    BY <1>1, <1>b, ActFrame
  <2>2. tab'[c].pc \in DayPcs => tab'[c].day = today
    <3>1. CASE ClaimSession(c)
      BY <3>1, PcsMove DEF DayPcs
    <3>2. CASE AppendTurn(c) \/ GiveBack(c) \/ CommitRun(c) \/ Submit(c)
      BY <3>2, PcsMove DEF DayPcs
    <3>3. CASE Send(c)
      BY <3>3, Moves
    <3>4. CASE RollLink(c)
      <4>1. tab[c].day = today
        BY <3>4, <1>c, <2>1, PcsMove DEF DayPcs
      <4>2. tab'[c].day = tab[c].day \/ tab'[c].pc = "idle"
        BY <3>4, <1>a, PcsMove, KeepsDay
      <4> QED  BY <4>1, <4>2 DEF DayPcs
    <3>5. CASE ClaimLink(c) \/ OpenSession(c) \/ Lock(c)
      BY <3>5, PcsMove DEF DayPcs
    <3> QED  BY <1>1, <3>1, <3>2, <3>3, <3>4, <3>5 DEF Acts
  <2>3. \A d \in Tabs : tab'[d].pc \in ClaimPcs \cup {"claimLink"} => link'.date = today
    <3>1. CASE RollLink(c)
      <4>1. tab[c].day = today
        BY <3>1, <1>c, <2>1, PcsMove DEF DayPcs
      <4>2. link'.date = today
        BY <3>1, <4>1, <1>1, LinkMoves
      <4> QED  BY <4>2
    <3>2. CASE ~RollLink(c)
      <4>1. link'.date = link.date
        BY <3>2, <1>1, LinkMoves
      <4>2. tab'[c].pc \in ClaimPcs \cup {"claimLink"} => tab[c].pc \in ClaimPcs \cup {"claimLink"}
        <5>1. CASE Send(c) \/ CommitRun(c) \/ Submit(c)
          BY <5>1, PcsMove DEF ClaimPcs
        <5>2. CASE ClaimLink(c) \/ OpenSession(c) \/ Lock(c) \/ GiveBack(c) \/ AppendTurn(c)
          BY <5>2, PcsMove DEF ClaimPcs
        <5>3. CASE ClaimSession(c)
          BY <5>3, PcsMove DEF ClaimPcs
        <5> QED  BY <1>1, <3>2, <5>1, <5>2, <5>3 DEF Acts
      <4> QED  BY <4>1, <4>2, <2>1, <1>c
    <3> QED  BY <3>1, <3>2
  <2>4. ASSUME NEW d \in Tabs, tab'[d].pc = "append", NEW s, s = tab'[d].session
        PROVE  s \in Sessions /\ visit'[s].date = today
    <3>1. CASE d # c
      <4>1. tab[d].pc = "append" /\ s = tab[d].session
        BY <2>1, <2>4, <3>1
      <4>2. s \in Sessions /\ visit[s].date = today
        BY <4>1, <2>1, <1>c DEF LatchInv
      <4> QED  BY <4>2, <1>1, VisitsMove
    <3>2. CASE d = c
      <4>1. ClaimSession(c)
        BY <1>1, <2>4, <3>2, PcsMove DEF Acts
      <4>2. s = tab[c].session /\ s \in Sessions
        BY <2>4, <3>2, <4>1, PcsMove DEF LatchInv, ClaimSession
      <4> QED  BY <4>1, <4>2, <1>1, VisitsMove
    <3> QED  BY <3>1, <3>2
  <2>5. \A d \in Tabs : tab'[d].pc = "append" => visit'[tab'[d].session].date = today
    BY <2>4
  <2>6. \A d \in Tabs : tab'[d].pc \in DayPcs => tab'[d].day = today
    BY <2>1, <2>2, <1>c
  <2> QED  BY <2>1, <2>3, <2>5, <2>6
<1>2. CASE RestartChat
  BY <1>2, <1>a DEF RestartChat, ClaimPcs, DayPcs
<1>3. CASE Midnight
  BY <1>3, <1>b DEF Midnight, Claiming, ClaimPcs, DayPcs
<1>4. CASE ~RestartChat /\ ~Midnight /\ \A c \in Tabs : ~Acts(c)
  <2>1. UNCHANGED <<visit, tab, today, straddled>> /\ link'.date = link.date
    BY <1>4, OthersKeep
  <2> QED  BY <2>1, <1>b, <1>c
<1> QED  BY <1>1, <1>2, <1>3, <1>4

\* A question is charged to the day its link and its session are at.
LEMMA AskedMoves ==
    ASSUME ShareTypeOK, LatchInv, SameDayInv, NEW c \in Tabs, Acts(c), ~straddled
    PROVE  IF AppendTurn(c)
           THEN /\ link.date = today /\ today \in 1..LastDay
                /\ askedAll' = [askedAll EXCEPT ![today] = @ + 1]
                /\ tab[c].session \in Sessions /\ visit[tab[c].session].date = today
                /\ asked' = [asked EXCEPT ![tab[c].session][today] = @ + 1]
           ELSE UNCHANGED <<asked, askedAll>>
<1>1. ASSUME AppendTurn(c)
      PROVE  /\ link.date = today /\ tab[c].day = today
             /\ tab[c].session \in Sessions /\ visit[tab[c].session].date = today
  BY <1>1 DEF AppendTurn, SameDayInv, Claiming, LatchInv
<1>2. AppendTurn(c) => /\ askedAll' = [askedAll EXCEPT ![tab[c].day] = @ + 1]
                       /\ asked' = [asked EXCEPT ![tab[c].session][tab[c].day] = @ + 1]
  BY DEF AppendTurn
<1>3. ~AppendTurn(c) => UNCHANGED <<asked, askedAll>>
  BY DEF Acts, Send, RollLink, ClaimLink, OpenSession, Lock, ClaimSession, GiveBack, CommitRun,
     Submit, chatRest
<1> QED  BY <1>1, <1>2, <1>3, ShareTypes

\* Nothing has been charged to a day a counter has not reached.
LEMMA ChargeStep ==
    ASSUME ShareTypeOK, LatchInv, DayInv, SameDayInv, ChargeInv, ShareNext
    PROVE  ChargeInv'
<1>a. /\ askedAll \in [1..LastDay -> Nat] /\ asked \in [Sessions -> [1..LastDay -> Nat]]
      /\ today \in Nat /\ link.date \in Nat /\ \A s \in Sessions : visit[s].date \in Nat
      /\ 1..LastDay \subseteq Nat /\ NoTab.pc = "idle"
  <2>1. 0..LastDay \subseteq Nat /\ 1..LastDay \subseteq Nat
    BY ShareAssumption
  <2> QED  BY <2>1, ShareTypes DEF LinkRows, VisitRows
<1>b. ~straddled' => ~straddled
  BY DEF ShareNext, Send, RollLink, ClaimLink, OpenSession, Lock, ClaimSession, GiveBack, AppendTurn,
     CommitRun, Submit, SettleRun, RecordReply, PatchLink, Midnight, RestartChat, chatRest
<1>1. ASSUME NEW c \in Tabs, Acts(c)
      PROVE  ChargeInv'
  <2>1. IsFiniteSet(Claiming)'
    <3>1. Claiming' \in {Claiming, Claiming \cup {c}, Claiming \ {c}}
      BY <1>1, ClaimingMoves
    <3> QED  BY <3>1, FS_AddElement, FS_RemoveElement DEF ChargeInv
  <2>2. ASSUME NEW s \in Sessions
        PROVE  IsFiniteSet(Appending(s))'
    <3>1. Appending(s)' \in {Appending(s), Appending(s) \cup {c}, Appending(s) \ {c}}
      BY <1>1, AppendingMoves
    <3> QED  BY <3>1, FS_AddElement, FS_RemoveElement DEF ChargeInv
  <2>3. ASSUME NEW d \in 1..LastDay, d > link'.date, ~straddled'
        PROVE  askedAll'[d] = 0
    <3>1. link'.date = link.date \/ (link'.date = today /\ ~AppendTurn(c))
      <4>1. RollLink(c) => tab[c].day = today /\ ~AppendTurn(c)
        BY <1>b, <2>3 DEF RollLink, AppendTurn, SameDayInv
      <4> QED  BY <4>1, <1>1, LinkMoves
    <3>2. d > link.date
      BY <2>3, <3>1, <1>a DEF DayInv
    <3>3. askedAll[d] = 0
      BY <1>b, <2>3, <3>2 DEF ChargeInv
    <3>4. CASE AppendTurn(c)
      <4>1. PICK up : up = askedAll[today] + 1
        OBVIOUS
      <4>2. askedAll' = [askedAll EXCEPT ![today] = up] /\ d # today
        <5>1. askedAll' = [askedAll EXCEPT ![today] = @ + 1] /\ link.date = today
          BY <1>1, <1>b, <2>3, <3>4, AskedMoves
        <5>2. d # today
          BY <3>2, <5>1, <1>a
        <5> QED  BY <5>1, <5>2, <4>1
      <4> QED  BY <4>2, <3>3, <1>a
    <3>5. CASE ~AppendTurn(c)
      BY <1>1, <1>b, <2>3, <3>3, <3>5, AskedMoves
    <3> QED  BY <3>4, <3>5
  <2>4. ASSUME NEW s \in Sessions, NEW d \in 1..LastDay, d > visit'[s].date, ~straddled'
        PROVE  asked'[s][d] = 0
    <3>1. visit'[s].date = visit[s].date \/ (visit'[s].date = today /\ ~AppendTurn(c))
      <4>1. ClaimSession(c) => ~AppendTurn(c)
        BY DEF ClaimSession, AppendTurn
      <4> QED  BY <4>1, <1>1, VisitsMove
    <3>2. d > visit[s].date
      BY <2>4, <3>1, <1>a DEF DayInv
    <3>3. asked[s][d] = 0
      BY <1>b, <2>4, <3>2 DEF ChargeInv
    <3>4. CASE AppendTurn(c) /\ tab[c].session = s
      <4>1. PICK own : own = asked[s]
        OBVIOUS
      <4>2. PICK up : up = own[today] + 1
        OBVIOUS
      <4>3. asked' = [asked EXCEPT ![s] = [own EXCEPT ![today] = up]] /\ d # today
        <5>1. asked' = [asked EXCEPT ![s][today] = @ + 1] /\ visit[s].date = today
          BY <1>1, <1>b, <2>4, <3>4, AskedMoves
        <5>2. d # today
          BY <3>2, <5>1, <1>a
        <5> QED  BY <5>1, <5>2, <4>1, <4>2, <1>a
      <4>4. own \in [1..LastDay -> Nat]
        BY <4>1, <1>a
      <4>5. asked'[s] = [own EXCEPT ![today] = up]
        BY <4>3, <1>a
      <4> QED  BY <4>1, <4>3, <4>4, <4>5, <3>3
    <3>5. CASE ~AppendTurn(c)
      BY <1>1, <1>b, <2>4, <3>3, <3>5, AskedMoves
    <3>6. CASE AppendTurn(c) /\ tab[c].session # s
      <4>1. asked'[s] = asked[s]
        <5> DEFINE q == tab[c].session
                   own == [asked[q] EXCEPT ![today] = @ + 1]
        <5>1. q # s /\ q \in Sessions /\ asked' = [asked EXCEPT ![q] = own]
          BY <1>1, <1>a, <1>b, <2>4, <3>6, AskedMoves
        <5> HIDE DEF q, own
        <5> QED  BY <5>1, <1>a
      <4> QED  BY <4>1, <3>3
    <3> QED  BY <3>4, <3>5, <3>6
  <2> QED  BY <2>1, <2>2, <2>3, <2>4 DEF ChargeInv
<1>2. CASE RestartChat
  <2>1. Claiming' = {} /\ \A s \in Sessions : Appending(s)' = {}
    BY <1>2, <1>a DEF RestartChat, Claiming, Appending
  <2>2. UNCHANGED <<link, visit, asked, askedAll, straddled>>
    BY <1>2 DEF RestartChat
  <2>3. IsFiniteSet({})
    BY FS_EmptySet
  <2> QED  BY <2>1, <2>2, <2>3 DEF ChargeInv
<1>3. CASE Midnight
  <2>1. Claiming' = Claiming /\ \A s \in Sessions : Appending(s)' = Appending(s)
    BY <1>3 DEF Midnight, Claiming, Appending
  <2>2. UNCHANGED <<link, visit, asked, askedAll>>
    BY <1>3 DEF Midnight
  <2> QED  BY <1>b, <2>1, <2>2 DEF ChargeInv
<1>4. CASE ~RestartChat /\ ~Midnight /\ \A c \in Tabs : ~Acts(c)
  <2>1. UNCHANGED <<visit, tab, today, asked, askedAll, spilled, straddled>> /\ link'.date = link.date
    BY <1>4, OthersKeep
  <2>2. Claiming' = Claiming /\ \A s \in Sessions : Appending(s)' = Appending(s)
    BY <2>1 DEF Claiming, Appending
  <2> QED  BY <2>1, <2>2 DEF ChargeInv
<1> QED  BY <1>1, <1>2, <1>3, <1>4

\* What TurnsAreCharged says of the link, and of a session.
LinkCharged ==
    link.date > 0 => link.turns = askedAll[link.date] + Cardinality(Claiming)

VisitCharged(s) ==
    visit[s].date > 0 =>
        visit[s].turns = asked[s][visit[s].date] + Cardinality(Appending(s))

LEMMA Charged ==
    /\ TurnsAreCharged <=>
        (~straddled /\ ~spilled => LinkCharged /\ \A s \in Sessions : VisitCharged(s))
    /\ TurnsAreCharged' <=>
        (~straddled' /\ ~spilled' => LinkCharged' /\ \A s \in Sessions : VisitCharged(s)')
  BY DEF TurnsAreCharged, LinkCharged, VisitCharged, Appending

\* The link's counter follows every claim, refund and question.
LEMMA LinkChargedStep ==
    ASSUME ShareTypeOK, LatchInv, DayInv, SameDayInv, ChargeInv, LinkCharged, NEW c \in Tabs, Acts(c),
           ~straddled
    PROVE  LinkCharged'
<1>a. /\ askedAll \in [1..LastDay -> Nat] /\ today \in 1..LastDay /\ today \in Nat /\ today > 0
      /\ link.turns \in Nat /\ link.date \in Nat
  <2>1. 0..LastDay \subseteq Nat /\ 0..LinkCap \subseteq Nat /\ \A d \in 1..LastDay : d \in Nat /\ d > 0
    BY ShareAssumption
  <2> QED  BY <2>1, ShareTypes DEF LinkRows
<1>b. IsFiniteSet(Claiming) /\ Cardinality(Claiming) \in Nat
  BY FS_CardinalityType DEF ChargeInv
<1>c. Claiming # {} => link.date = today
  BY DEF SameDayInv, Claiming
<1>1. CASE RollLink(c) /\ link.date # tab[c].day
  <2>1. tab[c].day = today
    BY <1>1 DEF RollLink, SameDayInv
  <2>2. link'.turns = 0 /\ link'.date = today
    BY <1>1, <2>1, LinkMoves
  <2>3. ~ClaimLink(c) /\ ~GiveBack(c) /\ ~AppendTurn(c)
    BY <1>1 DEF RollLink, ClaimLink, GiveBack, AppendTurn
  <2>4. Claiming' = {} /\ askedAll' = askedAll
    BY <1>1, <1>c, <2>1, <2>3, ClaimingMoves, AskedMoves
  <2>5. today > link.date
    BY <1>1, <1>a, <2>1 DEF DayInv
  <2>6. askedAll[today] = 0
    BY <1>a, <2>5 DEF ChargeInv
  <2>7. Cardinality({}) = 0
    BY FS_EmptySet
  <2> QED  BY <2>2, <2>4, <2>6, <2>7 DEF LinkCharged
<1>2. CASE ClaimLink(c) /\ BelowCap(link, tab[c].cap)
  <2>1. link'.turns = link.turns + 1 /\ link'.date = link.date
    BY <1>2, LinkMoves
  <2>2. c \notin Claiming /\ Claiming' = Claiming \cup {c}
    BY <1>2, ClaimingMoves
  <2>3. Cardinality(Claiming') = Cardinality(Claiming) + 1
    BY <1>b, <2>2, FS_AddElement
  <2>4. askedAll' = askedAll
    BY <1>2, AskedMoves DEF ClaimLink, AppendTurn
  <2>5. link.date > 0 => link.date \in 1..LastDay
    BY ShareTypes, ShareAssumption DEF LinkRows
  <2>6. link.date > 0 => askedAll[link.date] \in Nat
    BY <2>5, <1>a
  <2> QED  BY <1>a, <1>b, <2>1, <2>3, <2>4, <2>6 DEF LinkCharged
<1>3. CASE GiveBack(c)
  <2>1. c \in Claiming /\ Claiming' = Claiming \ {c} /\ link.date = today
    BY <1>3, <1>c, ClaimingMoves
  <2>2. Cardinality(Claiming') = Cardinality(Claiming) - 1
    BY <1>b, <2>1, FS_RemoveElement
  <2>3. Cardinality(Claiming) > 0
    BY <1>b, <2>1, FS_EmptySet
  <2>4. askedAll' = askedAll
    BY <1>3, AskedMoves DEF GiveBack, AppendTurn
  <2>5. askedAll[today] \in Nat /\ link.turns = askedAll[today] + Cardinality(Claiming)
    BY <1>a, <2>1 DEF LinkCharged
  <2>6. link.turns > 0
    BY <1>b, <2>3, <2>5
  <2>7. link'.turns = link.turns - 1 /\ link'.date = today
    BY <1>3, <2>1, <2>6, LinkMoves
  <2>8. link'.turns = askedAll[today] + (Cardinality(Claiming) - 1)
    BY <1>b, <2>5, <2>7
  <2> QED  BY <2>2, <2>4, <2>7, <2>8 DEF LinkCharged
<1>4. CASE AppendTurn(c)
  <2>1. c \in Claiming /\ Claiming' = Claiming \ {c} /\ link' = link
    BY <1>4, ClaimingMoves, LinkMoves DEF AppendTurn, RollLink, ClaimLink, GiveBack
  <2>2. Cardinality(Claiming') = Cardinality(Claiming) - 1
    BY <1>b, <2>1, FS_RemoveElement
  <2>3. link.date = today /\ askedAll' = [askedAll EXCEPT ![today] = @ + 1]
    BY <1>4, AskedMoves
  <2>4. askedAll'[today] = askedAll[today] + 1 /\ askedAll[today] \in Nat
    BY <1>a, <2>3
  <2>5. link.turns = askedAll[today] + Cardinality(Claiming)
    BY <1>a, <2>3 DEF LinkCharged
  <2>6. link.turns = (askedAll[today] + 1) + (Cardinality(Claiming) - 1)
    BY <1>b, <2>4, <2>5
  <2> QED  BY <2>1, <2>2, <2>3, <2>4, <2>6 DEF LinkCharged
<1>5. CASE /\ ~(RollLink(c) /\ link.date # tab[c].day) /\ ~(ClaimLink(c) /\ BelowCap(link, tab[c].cap))
           /\ ~GiveBack(c) /\ ~AppendTurn(c)
  <2>1. link' = link
    BY <1>5, LinkMoves
  <2>2. Claiming' = Claiming
    BY <1>5, ClaimingMoves
  <2>3. askedAll' = askedAll
    BY <1>5, AskedMoves
  <2> QED  BY <2>1, <2>2, <2>3 DEF LinkCharged
<1> QED  BY <1>1, <1>2, <1>3, <1>4, <1>5

\* A session's counter follows its claims and questions.
LEMMA VisitChargedStep ==
    ASSUME ShareTypeOK, LatchInv, DayInv, SameDayInv, ChargeInv, NEW s \in Sessions,
           VisitCharged(s), NEW c \in Tabs, Acts(c), ~straddled
    PROVE  VisitCharged(s)'
<1>a. /\ asked[s] \in [1..LastDay -> Nat] /\ today \in 1..LastDay /\ today \in Nat /\ today > 0
      /\ visit[s] \in VisitRows /\ visit[s].turns \in Nat /\ visit[s].date \in Nat
  <2>1. 0..LastDay \subseteq Nat /\ 0..LinkCap \subseteq Nat /\ \A d \in 1..LastDay : d \in Nat /\ d > 0
    BY ShareAssumption
  <2> QED  BY <2>1, ShareTypes DEF VisitRows
<1>b. IsFiniteSet(Appending(s)) /\ Cardinality(Appending(s)) \in Nat
  BY FS_CardinalityType DEF ChargeInv
<1>c. Appending(s) # {} => visit[s].date = today
  BY DEF SameDayInv, Appending
<1>d. asked[s][today] \in Nat
  BY <1>a
<1>1. CASE ClaimSession(c) /\ tab[c].session = s
  <2>1. PICK rec \in VisitRows :
          /\ rec = RolledOver(visit[s], today) /\ visit'[s].date = today
          /\ visit'[s].turns = IF BelowCap(rec, tab[c].cap) THEN rec.turns + 1 ELSE rec.turns
    BY <1>1, VisitsMove
  <2>2. asked' = asked /\ ~AppendTurn(c)
    BY <1>1, AskedMoves DEF ClaimSession, AppendTurn
  <2>3. rec.turns = asked[s][today] + Cardinality(Appending(s))
    <3>1. CASE visit[s].date = today
      <4>1. rec = visit[s]
        BY <2>1, <3>1 DEF RolledOver
      <4> QED  BY <4>1, <3>1, <1>a DEF VisitCharged
    <3>2. CASE visit[s].date # today
      <4>1. Appending(s) = {} /\ today > visit[s].date
        BY <1>a, <1>c, <3>2 DEF DayInv
      <4>2. asked[s][today] = 0
        BY <1>a, <4>1 DEF ChargeInv
      <4>3. rec.turns = 0
        BY <2>1, <3>2, <1>a DEF RolledOver, VisitRows
      <4>4. Cardinality({}) = 0
        BY FS_EmptySet
      <4> QED  BY <4>1, <4>2, <4>3, <4>4
    <3> QED  BY <3>1, <3>2
  <2>4. CASE BelowCap(rec, tab[c].cap)
    <3>1. c \notin Appending(s) /\ Appending(s)' = Appending(s) \cup {c}
      BY <1>1, <2>1, <2>4, AppendingMoves
    <3>2. Cardinality(Appending(s)') = Cardinality(Appending(s)) + 1
      BY <1>b, <3>1, FS_AddElement
    <3>3. visit'[s].turns = asked[s][today] + (Cardinality(Appending(s)) + 1)
      BY <1>b, <1>d, <2>1, <2>3, <2>4
    <3> QED  BY <2>1, <2>2, <3>2, <3>3 DEF VisitCharged
  <2>5. CASE ~BelowCap(rec, tab[c].cap)
    <3>1. Appending(s)' = Appending(s)
      BY <2>1, <2>2, <2>5, AppendingMoves
    <3> QED  BY <2>1, <2>2, <2>3, <2>5, <3>1 DEF VisitCharged
  <2> QED  BY <2>4, <2>5
<1>2. CASE AppendTurn(c) /\ tab[c].session = s
  <2>1. visit'[s].turns = visit[s].turns /\ visit'[s].date = visit[s].date
    BY <1>2, VisitsMove DEF AppendTurn, ClaimSession
  <2>2. c \in Appending(s) /\ Appending(s)' = Appending(s) \ {c}
    BY <1>2, AppendingMoves
  <2>3. Cardinality(Appending(s)') = Cardinality(Appending(s)) - 1
    BY <1>b, <2>2, FS_RemoveElement
  <2>4. visit[s].date = today /\ asked' = [asked EXCEPT ![s][today] = @ + 1]
    BY <1>2, AskedMoves
  <2>5. asked'[s][today] = asked[s][today] + 1
    <3>1. PICK up : up = asked[s][today] + 1
      OBVIOUS
    <3>2. asked' = [asked EXCEPT ![s] = [asked[s] EXCEPT ![today] = up]]
      BY <2>4, <3>1, ShareTypes
    <3> QED  BY <1>a, <3>1, <3>2, ShareTypes
  <2>6. visit[s].turns = asked[s][today] + Cardinality(Appending(s))
    BY <1>a, <2>4 DEF VisitCharged
  <2>7. visit[s].turns = (asked[s][today] + 1) + (Cardinality(Appending(s)) - 1)
    BY <1>b, <1>d, <2>6
  <2> QED  BY <2>1, <2>3, <2>4, <2>5, <2>7 DEF VisitCharged
<1>3. CASE tab[c].session # s \/ (~ClaimSession(c) /\ ~AppendTurn(c))
  <2>1. visit'[s].turns = visit[s].turns /\ visit'[s].date = visit[s].date
    BY <1>3, VisitsMove
  <2>2. Appending(s)' = Appending(s)
    BY <1>3, AppendingMoves
  <2>3. asked'[s] = asked[s]
    <3>1. CASE AppendTurn(c)
      <4> DEFINE q == tab[c].session
                 own == [asked[q] EXCEPT ![today] = @ + 1]
      <4>1. q # s /\ q \in Sessions /\ asked' = [asked EXCEPT ![q] = own]
        BY <1>3, <3>1, ShareTypes, AskedMoves
      <4> HIDE DEF q, own
      <4> QED  BY <4>1, ShareTypes
    <3>2. CASE ~AppendTurn(c)
      BY <3>2, AskedMoves
    <3> QED  BY <3>1, <3>2
  <2> QED  BY <2>1, <2>2, <2>3 DEF VisitCharged
<1> QED  BY <1>1, <1>2, <1>3

\* The counters stay exact.
LEMMA ChargedStep ==
    ASSUME ShareTypeOK, LatchInv, DayInv, SameDayInv, ChargeInv, TurnsAreCharged, ShareNext
    PROVE  TurnsAreCharged'
<1>a. NoTab.pc = "idle"
  BY ShareTypes
<1>b. (~straddled' => ~straddled) /\ (~spilled' => ~spilled)
  <2>1. CASE Midnight
    BY <2>1 DEF Midnight
  <2>2. CASE RestartChat
    BY <2>2 DEF RestartChat
  <2>3. ~Midnight /\ ~RestartChat => UNCHANGED <<straddled, spilled>>
    BY DEF ShareNext, Send, RollLink, ClaimLink, OpenSession, Lock, ClaimSession, GiveBack, AppendTurn,
       CommitRun, Submit, SettleRun, RecordReply, PatchLink, chatRest
  <2> QED  BY <2>1, <2>2, <2>3
<1>c. SUFFICES ASSUME ~straddled', ~spilled', LinkCharged, \A s \in Sessions : VisitCharged(s)
               PROVE  LinkCharged' /\ \A s \in Sessions : VisitCharged(s)'
  BY <1>b, Charged
<1>1. ASSUME NEW c \in Tabs, Acts(c)
      PROVE  LinkCharged' /\ \A s \in Sessions : VisitCharged(s)'
  BY <1>1, <1>b, <1>c, LinkChargedStep, VisitChargedStep
<1>2. CASE RestartChat
  <2>1. Claiming = {} /\ UNCHANGED <<link, visit, asked, askedAll>>
    BY <1>2, <1>c DEF RestartChat
  <2>2. Claiming' = {}
    BY <1>2, <1>a DEF RestartChat, Claiming
  <2>3. ASSUME NEW s \in Sessions
        PROVE  Appending(s) = {} /\ Appending(s)' = {}
    BY <1>2, <1>a, <2>1 DEF RestartChat, Appending, Claiming
  <2> QED  BY <1>c, <2>1, <2>2, <2>3 DEF LinkCharged, VisitCharged
<1>3. ASSUME UNCHANGED <<tab, asked, askedAll, visit>>, link'.turns = link.turns, link'.date = link.date
      PROVE  LinkCharged' /\ \A s \in Sessions : VisitCharged(s)'
  <2>1. Claiming' = Claiming /\ \A s \in Sessions : Appending(s)' = Appending(s)
    BY <1>3 DEF Claiming, Appending
  <2> QED  BY <1>3, <1>c, <2>1 DEF LinkCharged, VisitCharged
<1>4. Midnight => UNCHANGED <<tab, asked, askedAll, visit, link>>
  BY DEF Midnight
<1> QED  BY <1>1, <1>2, <1>3, <1>4, OthersKeep

----------------------------------------------------------------------------
\* The theorems.

LEMMA InitShare == ShareInit => ShareInv
<1> SUFFICES ASSUME ShareInit PROVE ShareInv
  OBVIOUS
<1> USE ShareAssumption DEF ShareInit
<1>1. ShareTypeOK
  <2>1. tab \in [Tabs -> TabStates]
    BY NoTabTyped
  <2>2. link \in LinkRows /\ visit \in [Sessions -> VisitRows]
    BY DEF LinkRows, VisitRows
  <2>3. /\ message \in [Sessions -> [Turns -> {"user", "assistant", Nobody}]]
        /\ reply \in [Sessions -> [Turns -> {"none", "submitted", "settled", "over"}]]
        /\ latch \in [Sessions -> Tabs \cup {"free"}]
    OBVIOUS
  <2>4. /\ asked \in [Sessions -> [1..LastDay -> Nat]] /\ askedAll \in [1..LastDay -> Nat]
        /\ today \in 1..LastDay /\ faults \in 0..MaxChatFaults
    OBVIOUS
  <2> QED  BY <2>1, <2>2, <2>3, <2>4 DEF ShareTypeOK, LinkRows, VisitRows
<1>a. NoTab.pc = "idle" /\ NoTab.day = 0
  BY DEF NoTab
<1>b. \A s \in Sessions : EndsAt(message[s], 0)
  BY DEF EndsAt
<1>c. 0 \in 0..MaxTurn /\ \A n : n \notin 1..0
  OBVIOUS
<1>2. TranscriptInv
  BY <1>b, <1>c DEF TranscriptInv
<1>d. \A s \in Sessions : LastTurn(s) = 0 /\ ~Pending(s)
  BY <1>b, <1>c, LastTurnIs DEF Pending
<1>3. LatchInv
  BY <1>a DEF LatchInv
<1>4. AskedInv
  BY <1>a DEF AskedInv, Asks, Answers
<1>5. OpenTurnIsServed
  BY <1>d DEF OpenTurnIsServed
<1>6. DayInv /\ SameDayInv
  BY <1>a DEF DayInv, SameDayInv, Claiming
<1>7. Claiming = {} /\ \A s \in Sessions : Appending(s) = {}
  BY <1>a DEF Claiming, Appending
<1>8. ChargeInv
  BY <1>7, FS_EmptySet DEF ChargeInv
<1>9. TurnsAreCharged
  BY DEF TurnsAreCharged
<1> QED  BY <1>1, <1>2, <1>3, <1>4, <1>5, <1>6, <1>8, <1>9 DEF ShareInv

LEMMA StutterShare == ShareInv /\ UNCHANGED chatVars => ShareInv'
<1> SUFFICES ASSUME ShareInv, UNCHANGED chatVars PROVE ShareInv'
  OBVIOUS
<1> USE DEF chatVars
<1>1. ShareTypeOK'
  BY DEF ShareInv, ShareTypeOK
<1>2. /\ TranscriptInv' /\ \A s \in Sessions : LastTurn(s)' = LastTurn(s) /\ Pending(s)' = Pending(s)
  BY SameTurns DEF ShareInv
<1>3. LatchInv'
  <2>1. \A d \in Tabs : tab[d].pc \in {"claimSession", "append"} =>
            \E s \in Sessions : s = tab[d].session /\ ~Pending(s)'
    BY <1>2 DEF ShareInv, LatchInv
  <2> QED  BY <2>1 DEF ShareInv, LatchInv
<1>4. AskedInv'
  <2>1. ASSUME NEW c \in Tabs, Asks(c)', NEW s, s = tab'[c].session, NEW n, n = tab'[c].turn
        PROVE  n \in Turns /\ n = LastTurn(s)' /\ Pending(s)' /\ reply'[s][n] = "none"
    BY <1>2, <2>1 DEF ShareInv, AskedInv, LatchInv, Asks
  <2>2. ASSUME NEW s \in Sessions, NEW n \in Turns
        PROVE  /\ Answers(s, n)' => n < MaxTurn /\ n = LastTurn(s)' /\ Pending(s)'
               /\ n > LastTurn(s)' => reply'[s][n] = "none"
    BY <1>2 DEF ShareInv, AskedInv, Answers
  <2>3. \A c, d \in Tabs : Asks(c)' /\ Asks(d)' /\ tab'[c].session = tab'[d].session => c = d
    BY DEF ShareInv, AskedInv, Asks
  <2> QED  BY <2>1, <2>2, <2>3 DEF AskedInv
<1>5. OpenTurnIsServed'
  BY <1>2 DEF ShareInv, OpenTurnIsServed, AtWork
<1>6. DayInv' /\ SameDayInv'
  BY DEF ShareInv, DayInv, SameDayInv, Claiming
<1>7. ChargeInv' /\ TurnsAreCharged'
  BY DEF ShareInv, ChargeInv, TurnsAreCharged, Claiming, Appending
<1> QED  BY <1>1, <1>2, <1>3, <1>4, <1>5, <1>6, <1>7 DEF ShareInv

LEMMA ShareInductive == ShareInv /\ [ShareNext]_chatVars => ShareInv'
<1>1. ASSUME ShareInv, ShareNext
      PROVE  ShareInv'
  BY <1>1, TypeStep, TranscriptStep, LatchStep, AskedStep, ServedStep, DayStep, SameDayStep,
     ChargeStep, ChargedStep DEF ShareInv
<1> QED  BY <1>1, StutterShare

\* The invariant of the share chat: the transcripts alternate, the lock of a session
\* keeps other sends out, an open question has one request or run to answer it, and
\* the counters agree with the claims made on their day.
THEOREM ShareInvariance == ShareSpec => []ShareInv
<1>1. ShareInit => ShareInv
  BY InitShare
<1>2. ShareInv /\ [ShareNext]_chatVars => ShareInv'
  BY ShareInductive
<1> QED  BY <1>1, <1>2, PTL DEF ShareSpec

\* The rows, locks, requests and runs keep their types, and no counter passes its cap.
THEOREM ShareTypeCorrect == ShareSpec => []ShareTypeOK
<1>1. ShareInv => ShareTypeOK
  BY DEF ShareInv
<1> QED  BY <1>1, ShareInvariance, PTL

\* However many tabs send at once, a transcript is questions and answers in turn
\* (post_share_message under _session_lock, record_share_reply).
THEOREM TranscriptAlternatesHolds == ShareSpec => []TranscriptAlternates
<1>1. ShareInv => TranscriptAlternates
  BY Transcript DEF ShareInv, TranscriptAlternates, Writer
<1> QED  BY <1>1, ShareInvariance, PTL

\* A question nobody is at work on met a fault: a refused, failed or cancelled run
\* leaves no session closed (record_share_reply, _has_pending_turn).
THEOREM OpenTurnIsServedHolds == ShareSpec => []OpenTurnIsServed
<1>1. ShareInv => OpenTurnIsServed
  BY DEF ShareInv
<1> QED  BY <1>1, ShareInvariance, PTL

\* The counters equal the questions of their day and the sends still undecided,
\* whichever way a send ended (try_consume_link_turn, try_consume_turn and refunds).
THEOREM TurnsAreChargedHolds == ShareSpec => []TurnsAreCharged
<1>1. ShareInv => TurnsAreCharged
  BY DEF ShareInv
<1> QED  BY <1>1, ShareInvariance, PTL

----------------------------------------------------------------------------
\* The inductive invariant of an agent's turn, by what each part is about.

\* A round is left for the tools that are asked for, and there is one to run.
RoundInv ==
    /\ turn.pc \in {"serial", "fanout", "delegated"} => turn.round < MaxToolRounds
    /\ turn.pc \in {"serial", "fanout"} => turn.asks # "nothing"
    /\ turn.pc \in {"generating", "serial", "fanout"} /\ turn.asks # "nothing" => turn.left >= 1

\* Subordinates work only while the manager waits for them.
HelpersInv ==
    \A s \in Subordinates :
        /\ helpers[s].pc # "none" => turn.pc = "delegated"
        /\ helpers[s].pc = "none" => helpers[s].calls = 0
        /\ helpers[s].pc = "call" => helpers[s].calls < MaxToolRounds

\* What is paid for is metered, broken off, or still being generated.
Generating == {s \in Subordinates : helpers[s].pc = "generating"}

InFlight == IF turn.pc \in {"generating", "grading", "raised"} THEN 1 ELSE 0

MeterInv == paid = usage + lost + InFlight + Cardinality(Generating)

\* A turn one of whose calls was broken off is stopped: it is over, without that
\* call's text, or about to make a corrective call that will not be opened.
Dropped(t) == \/ t.output \in {Blank, Notice}
              \/ t.broken = "wrapup" /\ setting.tools # "knowledge"

BrokenInv ==
    turn.broken # "none" =>
        /\ Stopped
        /\ \/ turn.pc = "done" /\ Dropped(turn)
           \/ turn.pc = "call" /\ turn.call = "retry"

\* What has streamed of a turn, with what is held back, is the text in hand.
Preview(k) == k.shown \o k.held

Suits(t, preview) ==
    /\ t.pc \in {"call", "serial", "fanout", "delegated"} => preview = Blank
    /\ t.pc = "grading" => preview \in {Blank, t.text}
    /\ t.pc = "done" => preview \in {Blank, t.output}
    /\ t.pc = "generating" =>
        IF t.asks = "nothing" THEN preview = t.text /\ (t.emitted <=> t.text # Blank)
        ELSE preview = Blank

PreviewInv ==
    /\ ~setting.forward => Preview(sink) = Blank
    /\ setting.forward /\ ~stop => Suits(turn, Preview(sink))
    /\ turn.pc = "generating" /\ Refused => turn.text = Blank

TurnInv ==
    /\ TurnTypeOK
    /\ ~turn.retract /\ RoundInv /\ HelpersInv /\ MeterInv /\ BrokenInv /\ PreviewInv

----------------------------------------------------------------------------
\* Frames, texts and the sink.

LEMMA TurnTypes ==
    ASSUME TurnTypeOK
    PROVE  /\ setting.forward \in BOOLEAN /\ setting.live \in BOOLEAN
           /\ setting.forward => setting.live
           /\ turn \in Frames /\ helpers \in [Subordinates -> Helpers] /\ sink \in Sinks
           /\ stop \in BOOLEAN /\ said \in Nat /\ paid \in Nat /\ usage \in Nat /\ lost \in Nat
           /\ Preview(sink) \in Seq(Int)
<1>1. setting \in Settings /\ turn \in Frames /\ sink \in Sinks
  BY DEF TurnTypeOK
<1>2. /\ setting.forward \in BOOLEAN /\ setting.live \in BOOLEAN
      /\ setting.forward => setting.live
  BY <1>1 DEF Settings
<1>3. Preview(sink) \in Seq(Int)
  BY <1>1, ConcatProperties DEF Preview, Sinks
<1>4. said \in Nat /\ paid \in Nat /\ usage \in Nat /\ lost \in Nat
  BY TurnAssumption DEF TurnTypeOK
<1> QED  BY <1>1, <1>2, <1>3, <1>4 DEF TurnTypeOK

LEMMA TextsTyped ==
    /\ Blank \in Seq(Int) /\ Notice \in Seq(Int) /\ RefusalText \in Seq(Int)
    /\ \A n \in Nat : <<n + 1>> \in Seq(Int) /\ <<n + 1>> # Blank
    /\ NothingShown \in Sinks /\ Preview(NothingShown) = Blank
<1>1. Blank \in Seq(Int) /\ Notice \in Seq(Int) /\ RefusalText \in Seq(Int)
  BY DEF Blank, Notice, RefusalText
<1>2. \A n \in Nat : <<n + 1>> \in Seq(Int) /\ <<n + 1>> # Blank
  BY DEF Blank
<1>3. NothingShown \in Sinks
  BY <1>1 DEF NothingShown, Sinks
<1>4. Blank \o Blank = Blank
  BY <1>1, ConcatEmptySeq DEF Blank
<1>5. Preview(NothingShown) = Blank
  BY <1>4 DEF Preview, NothingShown
<1> QED  BY <1>1, <1>2, <1>3, <1>5

\* Whether it is flushed or held back, a piece joins the text that streams.
LEMMA SunkIs ==
    ASSUME sink \in Sinks, NEW piece \in Seq(Int), NEW k \in Sunk(piece)
    PROVE  k \in Sinks /\ Preview(k) = Preview(sink) \o piece
<1> DEFINE more == sink.held \o piece
           kept == [sink EXCEPT !.held = more]
<1>1. sink.held \in Seq(Int) /\ sink.shown \in Seq(Int)
  BY DEF Sinks
<1>2. more \in Seq(Int)
  BY <1>1, ConcatProperties
<1>3. sink.shown \o more = (sink.shown \o sink.held) \o piece
  <2>1. \A a, b, c \in Seq(Int) : (a \o b) \o c = a \o (b \o c)
    BY ConcatAssociative
  <2> QED  BY <1>1, <2>1, Zenon
<1>4. k = kept \/ k = Flushed(kept)
  BY DEF Sunk
<1> HIDE DEF more
<1>5. /\ kept \in Sinks /\ kept.held = more /\ kept.shown = sink.shown
  BY <1>2 DEF Sinks
<1>6. CASE k = kept
  BY <1>3, <1>5, <1>6 DEF Preview
<1>7. CASE k # kept
  <2> DEFINE shown == sink.shown \o more
  <2>1. k = [held |-> Blank, shown |-> shown, flushed |-> TRUE]
    BY <1>4, <1>5, <1>7 DEF Flushed
  <2>2. shown \in Seq(Int)
    BY <1>1, <1>2, ConcatProperties
  <2>3. shown \o Blank = shown
    BY <2>2, ConcatEmptySeq DEF Blank
  <2>4. shown = Preview(sink) \o piece
    BY <1>3 DEF Preview
  <2> HIDE DEF shown
  <2>5. k \in Sinks /\ k.shown = shown /\ k.held = Blank
    BY <2>1, <2>2, TextsTyped DEF Sinks
  <2> QED  BY <2>3, <2>4, <2>5 DEF Preview
<1> QED  BY <1>6, <1>7

\* The frames the grounding policy leads to.
LEMMA JudgeIs ==
    ASSUME NEW t \in Frames, ~t.retract, NEW passes \in BOOLEAN, NEW f, f = Judge(t, passes)
    PROVE  /\ f \in Frames /\ f.pc \in {"call", "done"} /\ f.broken = t.broken
           /\ f.pc = "call" => ~t.retried /\ f.call = "retry" /\ f.retract
           /\ f.pc = "done" /\ Stopped => f.output = Blank
           /\ f.pc = "done" /\ ~f.retract /\ ~Stopped => f.output = t.text
<1>1. CASE Corrects(t, passes)
  <2> DEFINE g == [t EXCEPT !.answer = t.text, !.retract = TRUE, !.pc = "call", !.call = "retry"]
  <2>1. f = g
    BY <1>1 DEF Judge, Call
  <2>2. /\ g \in Frames /\ g.pc = "call" /\ g.call = "retry" /\ g.retract /\ g.broken = t.broken
    BY DEF Frames, Calls
  <2> QED  BY <1>1, <2>1, <2>2 DEF Corrects
<1>2. CASE ~Corrects(t, passes) /\ Refuses(t, passes)
  <2> DEFINE text == IF Stopped THEN Blank ELSE RefusalText
             g == [t EXCEPT !.retract = TRUE, !.pc = "done", !.output = text]
  <2>1. f = g
    BY <1>2 DEF Judge, Answer
  <2>2. text \in Seq(Int)
    BY TextsTyped
  <2>3. Stopped => text = Blank
    OBVIOUS
  <2> HIDE DEF text
  <2>4. g \in Frames /\ g.pc = "done" /\ g.retract /\ g.output = text /\ g.broken = t.broken
    BY <2>2 DEF Frames
  <2> QED  BY <2>1, <2>3, <2>4
<1>3. CASE ~Corrects(t, passes) /\ ~Refuses(t, passes)
  <2> DEFINE text == IF Stopped THEN Blank ELSE t.text
             g == [t EXCEPT !.pc = "done", !.output = text]
  <2>1. f = g
    BY <1>3 DEF Judge, Answer
  <2>2. text \in Seq(Int)
    BY TextsTyped DEF Frames
  <2>3. (Stopped => text = Blank) /\ (~Stopped => text = t.text)
    OBVIOUS
  <2> HIDE DEF text
  <2>4. g \in Frames /\ g.pc = "done" /\ ~g.retract /\ g.output = text /\ g.broken = t.broken
    BY <2>2 DEF Frames
  <2> QED  BY <2>1, <2>3, <2>4
<1> QED  BY <1>1, <1>2, <1>3

\* What may follow a text that is to be checked.
LEMMA GroundIs ==
    ASSUME NEW t \in Frames, ~t.retract, NEW f \in Ground(t)
    PROVE  /\ f \in Frames /\ f.pc \in {"call", "done", "grading"} /\ f.broken = t.broken
           /\ f.pc = "call" => ~t.retried /\ f.call = "retry" /\ f.retract
           /\ f.pc = "done" /\ Stopped => f.output = Blank
           /\ f.pc = "done" /\ ~f.retract /\ ~Stopped => f.output = t.text
           /\ f.pc = "grading" => ~Stopped /\ ~f.retract /\ f.text = t.text
<1>1. CASE f = Judge(t, FALSE) \/ f = Judge(t, TRUE)
  BY <1>1, JudgeIs
<1>2. CASE ~Stopped /\ f = [t EXCEPT !.pc = "grading"]
  <2>1. f \in Frames /\ f.pc = "grading" /\ f.text = t.text /\ ~f.retract /\ f.broken = t.broken
    BY <1>2 DEF Frames
  <2> QED  BY <1>2, <2>1
<1> QED  BY <1>1, <1>2 DEF Ground

LEMMA ConcludeIs ==
    ASSUME NEW t \in Frames, ~t.retract, NEW f \in Conclude(t)
    PROVE  /\ f \in Frames /\ f.pc \in {"call", "done", "grading"} /\ f.broken = t.broken
           /\ f.pc = "call" => ~t.retried /\ f.call = "retry" /\ f.retract
           /\ f.pc = "done" /\ Stopped => f.output = Blank \/ setting.tools # "knowledge"
           /\ f.pc = "done" /\ ~f.retract /\ ~Stopped => f.output = t.text
           /\ f.pc = "grading" => ~Stopped /\ ~f.retract /\ f.text = t.text
<1>1. CASE setting.tools = "knowledge"
  BY <1>1, GroundIs DEF Conclude
<1>2. CASE setting.tools # "knowledge"
  <2>1. f = [t EXCEPT !.pc = "done", !.output = t.text]
    BY <1>2 DEF Conclude
  <2>2. f \in Frames /\ f.pc = "done" /\ f.output = t.text /\ f.broken = t.broken
    BY <2>1 DEF Frames
  <2> QED  BY <1>2, <2>2
<1> QED  BY <1>1, <1>2

\* A response leads to the next call, to its tools, to a grading or to the end; of a
\* call broken off only the wrap-up of an agent without a knowledge base is kept.
LEMMA RespondedIs ==
    ASSUME NEW t \in Frames, ~t.retract, NEW f \in Responded(t)
    PROVE  /\ f \in Frames /\ f.pc \in {"call", "serial", "fanout", "grading", "done"}
           /\ f.broken = t.broken
           /\ f.pc \in {"serial", "fanout"} =>
                f.round = t.round /\ t.round # MaxToolRounds /\ f.asks = t.asks /\ f.left = t.left
                /\ t.asks # "nothing" /\ ~f.retract
           /\ f.pc = "grading" => ~f.retract /\ ~Stopped
           /\ Stopped /\ t.call = "retry" => f.pc = "done" /\ f.output = Blank
           /\ Stopped => \/ f.pc = "done" /\ f.output \in {Blank, Notice}
                         \/ f.pc = "done" /\ t.call = "wrapup" /\ setting.tools # "knowledge"
                         \/ f.pc = "call" /\ f.call = "retry" /\ t.call = "wrapup"
           /\ \A preview \in {Blank, t.text} :
                ~Stopped /\ (t.asks # "nothing" => preview = Blank) => f.retract \/ Suits(f, preview)
<1>1. CASE Stopped /\ f = Silent(t)
  <2>1. f = [t EXCEPT !.pc = "done", !.output = Blank]
    BY <1>1 DEF Silent
  <2>2. f \in Frames /\ f.pc = "done" /\ f.output = Blank /\ f.broken = t.broken
    BY <2>1, TextsTyped DEF Frames
  <2> QED  BY <1>1, <2>2
<1>2. CASE /\ t.call \in {"first", "loop"} /\ ~Stopped
           /\ t.asks = "nothing" \/ t.round = MaxToolRounds
  <2>1. f \in Settle(t)
    BY <1>2 DEF Responded
  <2>2. CASE t.asks # "nothing"
    <3>1. f = [t EXCEPT !.pc = "call", !.call = "wrapup"]
      BY <1>2, <2>1, <2>2 DEF Settle, Call
    <3>2. f \in Frames /\ f.pc = "call" /\ f.broken = t.broken
      BY <3>1 DEF Frames, Calls
    <3> QED  BY <1>2, <2>2, <3>2 DEF Suits
  <2>3. CASE t.asks = "nothing"
    <3>1. f \in Conclude(t)
      BY <1>2, <2>1, <2>3 DEF Settle
    <3>2. \A preview \in {Blank, t.text} : f.retract \/ Suits(f, preview)
      BY <1>2, <3>1, ConcludeIs DEF Suits
    <3> QED  BY <1>2, <3>1, <3>2, ConcludeIs
  <2> QED  BY <2>2, <2>3
<1>3. CASE /\ t.call \in {"first", "loop"} /\ ~Stopped
           /\ ~(t.asks = "nothing" \/ t.round = MaxToolRounds)
  <2>1. PICK pc \in {"serial", "fanout"} : f = [t EXCEPT !.pc = pc]
    BY <1>3 DEF Responded
  <2>2. /\ f \in Frames /\ f.pc = pc /\ f.round = t.round /\ f.asks = t.asks /\ f.left = t.left
        /\ f.retract = t.retract /\ f.broken = t.broken
    BY <2>1 DEF Frames
  <2> QED  BY <1>3, <2>1, <2>2 DEF Suits
<1>4. CASE t.call \in {"first", "loop"} /\ Stopped
  <2>1. f = Silent(t)
    BY <1>4 DEF Responded, Settle
  <2> QED  BY <1>1, <1>4, <2>1
<1>5. CASE t.call = "wrapup" /\ t.text = Blank
  <2>1. f = [t EXCEPT !.pc = "done", !.output = Notice]
    BY <1>5 DEF Responded
  <2>2. f \in Frames /\ f.pc = "done" /\ f.output = Notice /\ f.broken = t.broken
    BY <2>1, TextsTyped DEF Frames
  <2> QED  BY <1>5, <2>2 DEF Suits
<1>6. CASE t.call = "wrapup" /\ t.text # Blank
  <2>1. f \in Conclude(t)
    BY <1>6 DEF Responded
  <2>2. ~Stopped => \A preview \in {Blank, t.text} : f.retract \/ Suits(f, preview)
    BY <2>1, ConcludeIs DEF Suits
  <2>3. Stopped => \/ f.pc = "done" /\ f.output \in {Blank, Notice}
                   \/ f.pc = "done" /\ setting.tools # "knowledge"
                   \/ f.pc = "call" /\ f.call = "retry"
    BY <2>1, ConcludeIs
  <2>4. /\ f \in Frames /\ f.pc \in {"call", "done", "grading"} /\ f.broken = t.broken
        /\ f.pc = "grading" => ~f.retract /\ ~Stopped
    BY <2>1, ConcludeIs
  <2> QED  BY <1>6, <2>2, <2>3, <2>4
<1>7. CASE t.call = "retry" /\ ~Stopped /\ t.asks = "nothing"
  <2> DEFINE g == [t EXCEPT !.retried = TRUE]
  <2>1. f \in Ground(g)
    BY <1>7 DEF Responded
  <2>2. /\ g \in Frames /\ ~g.retract /\ g.text = t.text /\ g.retried /\ g.broken = t.broken
    BY DEF Frames
  <2> HIDE DEF g
  <2>3. \A preview \in {Blank, t.text} : f.retract \/ Suits(f, preview)
    BY <1>7, <2>1, <2>2, GroundIs DEF Suits
  <2> QED  BY <1>7, <2>1, <2>2, <2>3, GroundIs
<1>8. CASE t.call = "retry" /\ ~Stopped /\ t.asks # "nothing"
  <2> DEFINE g == [t EXCEPT !.text = t.answer, !.retried = TRUE]
  <2>1. f = Judge(g, FALSE)
    BY <1>8 DEF Responded
  <2>2. /\ g \in Frames /\ ~g.retract /\ g.retried /\ g.broken = t.broken
    BY DEF Frames
  <2> HIDE DEF g
  <2>3. f \in Frames /\ f.pc = "done" /\ f.broken = t.broken
    BY <2>1, <2>2, JudgeIs
  <2> QED  BY <1>8, <2>3 DEF Suits
<1>9. CASE t.call = "retry" /\ Stopped
  <2>1. f = Silent(t)
    BY <1>9 DEF Responded
  <2> QED  BY <1>1, <1>9, <2>1
<1>10. t.call \in Calls
  BY DEF Frames
<1> QED  BY <1>2, <1>3, <1>4, <1>5, <1>6, <1>7, <1>8, <1>9, <1>10 DEF Calls

----------------------------------------------------------------------------
\* Every step of a turn keeps the invariant.

\* Nothing is generated by a subordinate while the manager does not wait for it.
LEMMA NoneGenerates ==
    ASSUME HelpersInv, turn.pc # "delegated"
    PROVE  Generating = {} /\ Cardinality(Generating) = 0
<1>1. Generating = {}
  BY DEF HelpersInv, Generating
<1> QED  BY <1>1, FS_EmptySet

\* The turn goes from one wait of its own to another.
LEMMA OneFrameStep ==
    ASSUME TurnInv, turn.pc \notin {"delegated"}, NEW f \in Frames, NEW k \in Sinks,
           f.pc \in {"call", "generating", "serial", "fanout", "grading", "done"},
           UNCHANGED <<setting, helpers, stop>>,
           turn' = [f EXCEPT !.retract = FALSE],
           sink' = IF f.retract /\ setting.forward THEN NothingShown ELSE k,
           refusal' \in [real : BOOLEAN, known : BOOLEAN], refusal'.real = refusal.real,
           said' \in 0..MaxSaid, usage' \in Nat, lost' \in Nat,
           paid' = usage' + lost' + (IF f.pc \in {"generating", "grading"} THEN 1 ELSE 0),
           f.pc \in {"serial", "fanout"} => f.round < MaxToolRounds /\ f.asks # "nothing",
           f.pc \in {"generating", "serial", "fanout"} /\ f.asks # "nothing" => f.left >= 1,
           f.broken # "none" =>
                Stopped /\ ((f.pc = "done" /\ Dropped(f)) \/ (f.pc = "call" /\ f.call = "retry")),
           ~setting.forward => Preview(k) = Blank,
           setting.forward /\ ~stop => f.retract \/ Suits(f, Preview(k)),
           f.retract => f.pc \in {"call", "done"},
           f.pc = "generating" /\ f.forced /\ f.call = "first" /\ refusal.real => f.text = Blank
    PROVE  TurnInv'
<1> DEFINE g == [f EXCEPT !.retract = FALSE]
<1>1. /\ TurnTypeOK /\ HelpersInv
  BY DEF TurnInv
<1>2. /\ g \in Frames /\ ~g.retract /\ g.pc = f.pc /\ g.call = f.call /\ g.asks = f.asks
      /\ g.left = f.left /\ g.round = f.round /\ g.broken = f.broken /\ g.output = f.output
      /\ g.text = f.text /\ g.emitted = f.emitted /\ g.forced = f.forced
  BY DEF Frames
<1>3. turn' = g
  OBVIOUS
<1> HIDE DEF g
<1>4. sink' \in Sinks
  BY TextsTyped
<1>5. TurnTypeOK'
  <2>1. paid' \in Nat /\ usage' \in 0..paid' /\ lost' \in 0..paid'
    <3> DEFINE more == IF f.pc \in {"generating", "grading"} THEN 1 ELSE 0
    <3>1. more \in Nat /\ paid' = usage' + lost' + more
      OBVIOUS
    <3> HIDE DEF more
    <3> QED  BY <3>1
  <2> QED  BY <1>1, <1>2, <1>3, <1>4, <2>1 DEF TurnTypeOK
<1>6. RoundInv'
  BY <1>2, <1>3 DEF RoundInv
<1>7. \A s \in Subordinates : helpers[s].pc = "none"
  BY <1>1 DEF HelpersInv
<1>8. HelpersInv'
  BY <1>1, <1>7 DEF HelpersInv
<1>9. MeterInv'
  <2>1. Generating' = {}
    BY <1>7 DEF Generating
  <2>2. Cardinality(Generating') = 0
    BY <2>1, FS_EmptySet
  <2>3. InFlight' = IF f.pc \in {"generating", "grading"} THEN 1 ELSE 0
    BY <1>2, <1>3 DEF InFlight
  <2>4. InFlight' \in Nat
    BY <2>3
  <2> QED  BY <2>2, <2>3, <2>4 DEF MeterInv
<1>10. BrokenInv'
  BY <1>2, <1>3 DEF BrokenInv, Dropped, Stopped
<1>11. PreviewInv'
  <2>1. ~setting.forward => Preview(sink') = Blank
    OBVIOUS
  <2>2. setting.forward /\ ~stop => Suits(g, Preview(sink'))
    <3>1. Suits(f, Preview(k)) => Suits(g, Preview(k))
      BY <1>2 DEF Suits
    <3>2. f.retract => Suits(g, Blank)
      BY <1>2 DEF Suits
    <3> QED  BY <3>1, <3>2, TextsTyped
  <2>3. g.pc = "generating" /\ g.forced /\ g.call = "first" /\ refusal'.real => g.text = Blank
    BY <1>2
  <2> QED  BY <1>3, <2>1, <2>2, <2>3 DEF PreviewInv, Refused
<1> QED  BY <1>2, <1>3, <1>5, <1>6, <1>8, <1>9, <1>10, <1>11 DEF TurnInv

LEMMA CallModelStep ==
    ASSUME TurnInv, CallModel
    PROVE  TurnInv'
<1> DEFINE empty == [turn EXCEPT !.text = Blank, !.asks = "nothing", !.left = 0, !.emitted = FALSE]
<1>1. /\ TurnTypeOK /\ HelpersInv /\ MeterInv /\ BrokenInv /\ PreviewInv /\ ~turn.retract
      /\ turn \in Frames /\ sink \in Sinks /\ turn.pc = "call"
      /\ paid \in Nat /\ usage \in Nat /\ lost \in Nat
      /\ setting.forward \in BOOLEAN /\ setting.forward => setting.live
  BY TurnTypes DEF TurnInv, CallModel
<1>2. UNCHANGED <<setting, helpers, stop, refusal, said, usage, lost>>
  BY DEF CallModel
<1>3. /\ empty \in Frames /\ ~empty.retract /\ empty.text = Blank /\ empty.asks = "nothing"
      /\ empty.left = 0 /\ ~empty.emitted /\ empty.call = turn.call /\ empty.broken = turn.broken
      /\ empty.round = turn.round
  <2>1. 0 \in 0..MaxBatch
    BY TurnAssumption, FS_CardinalityType
  <2> QED  BY <1>1, <2>1, TextsTyped DEF Frames
<1>4. paid = usage + lost
  <2>1. Cardinality(Generating) = 0 /\ InFlight = 0
    BY <1>1, NoneGenerates DEF InFlight
  <2> QED  BY <1>1, <2>1 DEF MeterInv
<1>5. said' \in 0..MaxSaid /\ refusal' \in [real : BOOLEAN, known : BOOLEAN]
  BY <1>1, <1>2 DEF TurnTypeOK
<1>6. CASE Stopped
  <2>1. PICK f \in Responded(empty) :
            /\ turn' = [f EXCEPT !.retract = FALSE]
            /\ sink' = IF f.retract /\ setting.forward THEN NothingShown ELSE sink
            /\ paid' = paid + (IF f.pc = "grading" THEN 1 ELSE 0)
    BY <1>6 DEF CallModel, Proceed
  <2> HIDE DEF empty
  <2>2. /\ f \in Frames /\ f.pc \in {"call", "serial", "fanout", "done"} /\ f.broken = turn.broken
        /\ f.pc \notin {"serial", "fanout"}
        /\ turn.call = "retry" => f.pc = "done" /\ f.output = Blank
    BY <1>3, <1>6, RespondedIs
  <2>3. f.broken # "none" => f.pc = "done" /\ Dropped(f)
    BY <1>1, <2>2 DEF BrokenInv, Dropped
  <2>4. setting.forward => stop
    BY <1>1, <1>6 DEF Stopped
  <2>5. paid' = usage + lost + 0
    BY <1>1, <1>4, <2>1, <2>2
  <2>6. ~setting.forward => Preview(sink) = Blank
    BY <1>1 DEF PreviewInv
  <2>7. usage' \in Nat /\ lost' \in Nat /\ paid' = usage' + lost' + 0
    BY <1>1, <1>2, <2>5
  <2>8. f.pc \in {"call", "done"}
    BY <2>2
  <2> QED  BY <1>1, <1>2, <1>5, <1>6, <2>1, <2>2, <2>3, <2>4, <2>6, <2>7, <2>8, OneFrameStep
<1>7. CASE ~Stopped
  <2> DEFINE f == [empty EXCEPT !.pc = "generating"]
  <2>1. /\ f \in Frames /\ f.pc = "generating" /\ ~f.retract /\ f.text = Blank /\ f.asks = "nothing"
        /\ ~f.emitted /\ f.broken = turn.broken
    BY <1>3 DEF Frames
  <2>2. turn' = [f EXCEPT !.retract = FALSE] /\ sink' = sink /\ paid' = paid + 1 + 0
    <3>1. \E t \in {f} :
            /\ turn' = [t EXCEPT !.retract = FALSE]
            /\ sink' = IF t.retract /\ setting.forward THEN NothingShown ELSE sink
            /\ paid' = paid + 1 + (IF t.pc = "grading" THEN 1 ELSE 0)
      BY <1>7 DEF CallModel, Proceed
    <3> HIDE DEF f
    <3> QED  BY <2>1, <3>1
  <2> HIDE DEF f
  <2>3. f.broken = "none"
    BY <1>1, <1>7, <2>1 DEF BrokenInv
  <2>4. setting.forward /\ ~stop => Suits(f, Preview(sink))
    BY <1>1, <2>1 DEF PreviewInv, Suits
  <2>5. paid' = usage + lost + 1
    BY <1>1, <1>4, <2>2
  <2> QED  BY <1>1, <1>2, <1>5, <2>1, <2>2, <2>3, <2>4, <2>5, OneFrameStep DEF PreviewInv
<1> QED  BY <1>6, <1>7

\* A chunk of the response, k being what the sink is after it: the turn goes on
\* generating, or is broken off.
LEMMA PolledStep ==
    ASSUME TurnInv, turn.pc = "generating", ~Refused, NEW t \in Frames, NEW k \in Sinks,
           t.pc = "generating", ~t.retract, t.call = turn.call, t.round = turn.round,
           t.broken = turn.broken, t.forced = turn.forced, t.asks # "nothing" => t.left >= 1,
           ~setting.forward => Preview(k) = Blank,
           setting.forward /\ ~stop => Suits(t, Preview(k)),
           Polled(t, k), UNCHANGED <<setting, helpers, stop, refusal, usage>>, said' \in 0..MaxSaid
    PROVE  TurnInv'
<1>1. /\ TurnTypeOK /\ HelpersInv /\ MeterInv /\ BrokenInv
      /\ paid \in Nat /\ usage \in Nat /\ lost \in Nat
      /\ setting.forward \in BOOLEAN /\ setting.forward => setting.live
      /\ refusal' \in [real : BOOLEAN, known : BOOLEAN]
  BY TurnTypes DEF TurnInv, TurnTypeOK
<1>2. turn.broken = "none"
  BY <1>1 DEF BrokenInv
<1>3. paid = usage + lost + 1
  <2>1. Cardinality(Generating) = 0 /\ InFlight = 1
    BY <1>1, NoneGenerates DEF InFlight
  <2> QED  BY <1>1, <2>1 DEF MeterInv
<1>4. ~(t.forced /\ t.call = "first" /\ refusal.real)
  BY DEF Refused
<1>5. CASE Stopped
  <2> DEFINE g == [t EXCEPT !.broken = t.call]
  <2>1. PICK f \in Responded(g) :
            /\ turn' = [f EXCEPT !.retract = FALSE]
            /\ sink' = IF f.retract /\ setting.forward THEN NothingShown ELSE k
            /\ paid' = paid + (IF f.pc = "grading" THEN 1 ELSE 0)
    BY <1>5 DEF Polled, Proceed
  <2>2. g \in Frames /\ ~g.retract /\ g.call = t.call /\ g.broken = t.call
    BY DEF Frames, Calls
  <2> HIDE DEF g
  <2>3. /\ f \in Frames /\ f.pc \in {"call", "done"} /\ f.broken = t.call
        /\ \/ f.pc = "done" /\ f.output \in {Blank, Notice}
           \/ f.pc = "done" /\ t.call = "wrapup" /\ setting.tools # "knowledge"
           \/ f.pc = "call" /\ f.call = "retry" /\ t.call = "wrapup"
    BY <1>5, <2>2, RespondedIs
  <2>4. (f.pc = "done" /\ Dropped(f)) \/ (f.pc = "call" /\ f.call = "retry")
    <3>1. CASE f.pc = "done" /\ f.output \in {Blank, Notice}
      BY <3>1 DEF Dropped
    <3>2. CASE f.pc = "done" /\ t.call = "wrapup" /\ setting.tools # "knowledge"
      <4>1. f.broken = "wrapup"
        BY <2>3, <3>2
      <4> QED  BY <3>2, <4>1 DEF Dropped
    <3> QED  BY <2>3, <3>1, <3>2
  <2>5. setting.forward => stop
    BY <1>1, <1>5 DEF Stopped
  <2>6. lost' = lost + 1
    BY <1>5 DEF Polled
  <2>7. lost' \in Nat /\ usage' \in Nat /\ paid' = usage' + lost' + 0
    BY <1>1, <1>3, <2>1, <2>3, <2>6
  <2> QED  BY <1>1, <1>5, <2>1, <2>3, <2>4, <2>5, <2>7, OneFrameStep
<1>6. CASE ~Stopped
  <2>1. /\ turn' = [t EXCEPT !.retract = FALSE] /\ sink' = k /\ paid' = paid + 0 /\ lost' = lost
    <3>1. /\ lost' = lost
          /\ \E f \in {t} :
                /\ turn' = [f EXCEPT !.retract = FALSE]
                /\ sink' = IF f.retract /\ setting.forward THEN NothingShown ELSE k
                /\ paid' = paid + (IF f.pc = "grading" THEN 1 ELSE 0)
      BY <1>6 DEF Polled, Proceed
    <3> QED  BY <3>1
  <2>2. lost' \in Nat /\ usage' \in Nat /\ paid' = usage' + lost' + 1
    BY <1>1, <1>3, <2>1
  <2> QED  BY <1>1, <1>2, <1>4, <2>1, <2>2, OneFrameStep
<1> QED  BY <1>5, <1>6

LEMMA ModelSaysStep ==
    ASSUME TurnInv, ModelSays
    PROVE  TurnInv'
<1> DEFINE piece == <<said + 1>>
           text == turn.text \o piece
           t == [turn EXCEPT !.text = text]
           loud == [turn EXCEPT !.text = text, !.emitted = TRUE]
<1>1. /\ TurnTypeOK /\ RoundInv /\ PreviewInv /\ ~turn.retract /\ turn \in Frames /\ sink \in Sinks
      /\ said \in Nat /\ turn.text \in Seq(Int) /\ Preview(sink) \in Seq(Int)
  BY TurnTypes DEF TurnInv, Frames
<1>2. /\ turn.pc = "generating" /\ ~Refused /\ said < MaxSaid /\ said' = said + 1
      /\ UNCHANGED <<setting, helpers, stop, refusal, usage>>
  BY DEF ModelSays
<1>3. said' \in 0..MaxSaid
  BY <1>1, <1>2, TurnAssumption
<1>4. piece \in Seq(Int) /\ text \in Seq(Int)
  <2>1. piece \in Seq(Int)
    BY <1>1, TextsTyped
  <2> HIDE DEF piece
  <2> QED  BY <1>1, <2>1, ConcatProperties
<1>5. text # Blank
  <2>1. Len(piece) = 1 /\ Len(text) = Len(turn.text) + 1 /\ Len(turn.text) \in Nat
    <3>1. Len(piece) = 1
      OBVIOUS
    <3>2. piece \in Seq(Int)
      BY <1>4
    <3> HIDE DEF piece
    <3>3. Len(turn.text \o piece) = Len(turn.text) + Len(piece)
      BY <1>1, <3>2, ConcatProperties
    <3>4. Len(turn.text) \in Nat
      BY <1>1, LenProperties
    <3> QED  BY <3>1, <3>3, <3>4
  <2>2. Len(Blank) = 0
    BY EmptySeq DEF Blank
  <2> QED  BY <2>1, <2>2
<1>6. turn.asks # "nothing" => turn.left >= 1
  BY <1>1, <1>2 DEF RoundInv
<1>7. CASE setting.forward /\ turn.asks = "nothing"
  <2>1. PICK k \in Sunk(piece) : Polled(loud, k)
    <3>1. \E k \in Sunk(<<said + 1>>) :
                Polled([[turn EXCEPT !.text = @ \o <<said + 1>>] EXCEPT !.emitted = TRUE], k)
      BY <1>7 DEF ModelSays
    <3>2. [[turn EXCEPT !.text = @ \o <<said + 1>>] EXCEPT !.emitted = TRUE] = loud
      OBVIOUS
    <3> QED  BY <3>1, <3>2
  <2>2. k \in Sinks /\ Preview(k) = Preview(sink) \o piece
    BY <1>1, <1>4, SunkIs
  <2> HIDE DEF piece, text
  <2>3. /\ loud \in Frames /\ loud.pc = "generating" /\ ~loud.retract /\ loud.call = turn.call
        /\ loud.round = turn.round /\ loud.broken = turn.broken /\ loud.forced = turn.forced
        /\ loud.asks = turn.asks /\ loud.left = turn.left /\ loud.text = text /\ loud.emitted
    BY <1>1, <1>2, <1>4 DEF Frames
  <2> HIDE DEF loud
  <2>4. setting.forward /\ ~stop => Suits(loud, Preview(k))
    <3>1. setting.forward /\ ~stop => Preview(sink) = turn.text
      BY <1>1, <1>2, <1>7 DEF PreviewInv, Suits
    <3>2. setting.forward /\ ~stop => Preview(k) = text
      BY <2>2, <3>1 DEF text
    <3> QED  BY <1>5, <1>7, <2>3, <3>2 DEF Suits
  <2> QED  BY <1>2, <1>3, <1>6, <1>7, <2>1, <2>2, <2>3, <2>4, PolledStep
<1>8. CASE ~(setting.forward /\ turn.asks = "nothing")
  <2>1. Polled(t, sink)
    BY <1>8 DEF ModelSays
  <2> HIDE DEF piece, text
  <2>2. /\ t \in Frames /\ t.pc = "generating" /\ ~t.retract /\ t.call = turn.call
        /\ t.round = turn.round /\ t.broken = turn.broken /\ t.forced = turn.forced
        /\ t.asks = turn.asks /\ t.left = turn.left
    BY <1>1, <1>2, <1>4 DEF Frames
  <2> HIDE DEF t
  <2>3. /\ setting.forward /\ ~stop => Suits(t, Preview(sink))
        /\ ~setting.forward => Preview(sink) = Blank
    BY <1>1, <1>2, <1>8, <2>2 DEF PreviewInv, Suits
  <2> QED  BY <1>1, <1>2, <1>3, <1>6, <2>1, <2>2, <2>3, PolledStep
<1> QED  BY <1>7, <1>8

LEMMA ModelAsksStep ==
    ASSUME TurnInv, ModelAsks
    PROVE  TurnInv'
<1>1. /\ TurnTypeOK /\ PreviewInv /\ ~turn.retract /\ turn \in Frames /\ sink \in Sinks
  BY TurnTypes DEF TurnInv
<1>2. /\ turn.pc = "generating" /\ ~Refused /\ turn.asks = "nothing"
      /\ UNCHANGED <<setting, helpers, stop, refusal, said, usage>>
  BY DEF ModelAsks
<1>3. PICK asks \in {"tools", "delegations"}, n \in 1..MaxBatch :
        Polled([turn EXCEPT !.asks = asks, !.left = n], IF turn.emitted THEN NothingShown ELSE sink)
  BY DEF ModelAsks
<1> DEFINE t == [turn EXCEPT !.asks = asks, !.left = n]
           k == IF turn.emitted THEN NothingShown ELSE sink
<1>4. n \in 0..MaxBatch /\ n >= 1 /\ asks # "nothing"
  <2>1. MaxBatch \in Nat
    BY TurnAssumption, FS_CardinalityType
  <2> QED  BY <2>1
<1>5. /\ t \in Frames /\ t.pc = "generating" /\ ~t.retract /\ t.call = turn.call
      /\ t.round = turn.round /\ t.broken = turn.broken /\ t.forced = turn.forced
      /\ t.asks = asks /\ t.left = n
  BY <1>1, <1>2, <1>4 DEF Frames
<1>6. k \in Sinks
  BY <1>1, TextsTyped
<1>7. Polled(t, k) /\ said' \in 0..MaxSaid
  BY <1>1, <1>2, <1>3 DEF TurnTypeOK
\* Text that had gone out is retracted; if none had, none was said.
<1>8. /\ ~setting.forward => Preview(k) = Blank
      /\ setting.forward /\ ~stop => Preview(k) = Blank
  BY <1>1, <1>2, TextsTyped DEF PreviewInv, Suits
<1> HIDE DEF t, k
<1>9. setting.forward /\ ~stop => Suits(t, Preview(k))
  BY <1>4, <1>5, <1>8 DEF Suits
<1> QED  BY <1>2, <1>4, <1>5, <1>6, <1>7, <1>8, <1>9, PolledStep

LEMMA ModelEndsStep ==
    ASSUME TurnInv, ModelEnds \/ GraderEnds
    PROVE  TurnInv'
<1>1. /\ TurnTypeOK /\ HelpersInv /\ MeterInv /\ BrokenInv /\ PreviewInv /\ RoundInv /\ ~turn.retract
      /\ turn \in Frames /\ sink \in Sinks
      /\ paid \in Nat /\ usage \in Nat /\ lost \in Nat
      /\ setting.forward \in BOOLEAN /\ setting.forward => setting.live
  BY TurnTypes DEF TurnInv
<1>2. /\ turn.pc \in {"generating", "grading"} /\ usage' = usage + 1
      /\ UNCHANGED <<setting, helpers, stop, refusal, said, lost>>
  BY DEF ModelEnds, GraderEnds, Metered
<1>3. turn.broken = "none"
  BY <1>1, <1>2 DEF BrokenInv
<1>4. paid = usage + lost + 1
  <2>1. Cardinality(Generating) = 0 /\ InFlight = 1
    BY <1>1, <1>2, NoneGenerates DEF InFlight
  <2> QED  BY <1>1, <2>1 DEF MeterInv
<1>5. /\ said' \in 0..MaxSaid /\ refusal' \in [real : BOOLEAN, known : BOOLEAN]
      /\ ~setting.forward => Preview(sink) = Blank
      /\ setting.forward /\ ~stop => Suits(turn, Preview(sink)) /\ ~Stopped
  BY <1>1, <1>2 DEF TurnTypeOK, PreviewInv, Stopped
<1>6. \E f \in Frames :
        /\ turn' = [f EXCEPT !.retract = FALSE]
        /\ sink' = IF f.retract /\ setting.forward THEN NothingShown ELSE sink
        /\ paid' = paid + (IF f.pc = "grading" THEN 1 ELSE 0)
        /\ f.pc \in {"call", "serial", "fanout", "grading", "done"} /\ f.broken = "none"
        /\ f.pc \in {"serial", "fanout"} => f.round < MaxToolRounds /\ f.asks # "nothing" /\ f.left >= 1
        /\ f.retract => f.pc \in {"call", "done"}
        /\ setting.forward /\ ~stop => f.retract \/ Suits(f, Preview(sink))
  <2>1. CASE ModelEnds
    <3>1. turn.pc = "generating"
      BY <2>1 DEF ModelEnds
    <3>2. PICK f \in Responded(turn) :
            /\ turn' = [f EXCEPT !.retract = FALSE]
            /\ sink' = IF f.retract /\ setting.forward THEN NothingShown ELSE sink
            /\ paid' = paid + (IF f.pc = "grading" THEN 1 ELSE 0)
      BY <2>1 DEF ModelEnds, Proceed
    <3>3. /\ f \in Frames /\ f.pc \in {"call", "serial", "fanout", "grading", "done"}
          /\ f.broken = turn.broken
          /\ f.pc \in {"serial", "fanout"} =>
                f.round = turn.round /\ turn.round # MaxToolRounds /\ f.asks = turn.asks
                /\ f.left = turn.left /\ turn.asks # "nothing" /\ ~f.retract
          /\ f.pc = "grading" => ~f.retract
          /\ \A preview \in {Blank, turn.text} :
                ~Stopped /\ (turn.asks # "nothing" => preview = Blank) => f.retract \/ Suits(f, preview)
      BY <1>1, RespondedIs
    <3>4. f.pc \in {"serial", "fanout"} => f.round < MaxToolRounds /\ f.asks # "nothing" /\ f.left >= 1
      <4>1. turn.round # MaxToolRounds => turn.round < MaxToolRounds
        <5>1. turn.round \in 0..MaxToolRounds
          BY <1>1 DEF Frames
        <5> QED  BY <5>1, TurnAssumption
      <4>2. turn.asks # "nothing" => turn.left >= 1
        BY <1>1, <3>1 DEF RoundInv
      <4> QED  BY <3>3, <4>1, <4>2
    <3>5. setting.forward /\ ~stop => f.retract \/ Suits(f, Preview(sink))
      <4> SUFFICES ASSUME setting.forward, ~stop PROVE f.retract \/ Suits(f, Preview(sink))
        OBVIOUS
      <4>1. /\ Preview(sink) \in {Blank, turn.text} /\ ~Stopped
            /\ turn.asks # "nothing" => Preview(sink) = Blank
        BY <1>5, <3>1 DEF Suits
      <4> QED  BY <3>3, <4>1
    <3>6. f.retract => f.pc \in {"call", "done"}
      BY <3>3
    <3> QED  BY <1>3, <3>2, <3>3, <3>4, <3>5, <3>6
  <2>2. CASE GraderEnds
    <3>1. turn.pc = "grading"
      BY <2>2 DEF GraderEnds
    <3>2. PICK passes \in BOOLEAN : Proceed({Judge(turn, passes)}, sink, paid)
      BY <2>2 DEF GraderEnds
    <3> DEFINE f == Judge(turn, passes)
    <3>3. /\ turn' = [f EXCEPT !.retract = FALSE]
          /\ sink' = IF f.retract /\ setting.forward THEN NothingShown ELSE sink
          /\ paid' = paid + (IF f.pc = "grading" THEN 1 ELSE 0)
      BY <3>2 DEF Proceed
    <3>4. /\ f \in Frames /\ f.pc \in {"call", "done"} /\ f.broken = turn.broken
          /\ f.pc = "call" => f.retract
          /\ f.pc = "done" /\ ~f.retract /\ ~Stopped => f.output = turn.text
      BY <1>1, JudgeIs
    <3> HIDE DEF f
    <3>5. setting.forward /\ ~stop => f.retract \/ Suits(f, Preview(sink))
      BY <1>5, <3>1, <3>4 DEF Suits
    <3> QED  BY <1>3, <3>3, <3>4, <3>5
  <2> QED  BY <2>1, <2>2
<1>7. PICK f \in Frames :
        /\ turn' = [f EXCEPT !.retract = FALSE]
        /\ sink' = IF f.retract /\ setting.forward THEN NothingShown ELSE sink
        /\ paid' = paid + (IF f.pc = "grading" THEN 1 ELSE 0)
        /\ f.pc \in {"call", "serial", "fanout", "grading", "done"} /\ f.broken = "none"
        /\ f.pc \in {"serial", "fanout"} => f.round < MaxToolRounds /\ f.asks # "nothing" /\ f.left >= 1
        /\ f.retract => f.pc \in {"call", "done"}
        /\ setting.forward /\ ~stop => f.retract \/ Suits(f, Preview(sink))
  BY <1>6
<1>8. /\ usage' \in Nat /\ lost' \in Nat
      /\ paid' = usage' + lost' + (IF f.pc \in {"generating", "grading"} THEN 1 ELSE 0)
  <2>1. CASE f.pc = "grading"
    BY <1>1, <1>2, <1>4, <1>7, <2>1
  <2>2. CASE f.pc # "grading"
    <3>1. paid' = paid + 0 /\ f.pc \notin {"generating", "grading"}
      BY <1>7, <2>2
    <3> QED  BY <1>1, <1>2, <1>4, <3>1
  <2> QED  BY <2>1, <2>2
<1> QED  BY <1>1, <1>2, <1>5, <1>7, <1>8, OneFrameStep

LEMMA AskToStopStep ==
    ASSUME TurnInv, AskToStop
    PROVE  TurnInv'
<1>1. /\ ~stop /\ stop' = TRUE
      /\ UNCHANGED <<setting, turn, helpers, sink, refusal, said, paid, usage, lost>>
  BY DEF AskToStop
<1>2. TurnTypeOK'
  BY <1>1 DEF TurnInv, TurnTypeOK
<1>3. RoundInv' /\ HelpersInv' /\ ~turn'.retract
  BY <1>1 DEF TurnInv, RoundInv, HelpersInv
<1>4. MeterInv'
  BY <1>1 DEF TurnInv, MeterInv, InFlight, Generating
<1>5. BrokenInv'
  BY <1>1 DEF TurnInv, BrokenInv, Stopped
<1>6. PreviewInv'
  BY <1>1 DEF TurnInv, PreviewInv, Refused
<1> QED  BY <1>2, <1>3, <1>4, <1>5, <1>6 DEF TurnInv

LEMMA ModelRefusesForcingStep ==
    ASSUME TurnInv, ModelRefusesForcing
    PROVE  TurnInv'
<1> DEFINE f == [turn EXCEPT !.pc = "call", !.forced = FALSE]
<1>1. /\ TurnTypeOK /\ HelpersInv /\ MeterInv /\ BrokenInv /\ PreviewInv /\ ~turn.retract
      /\ turn \in Frames /\ sink \in Sinks
      /\ paid \in Nat /\ usage \in Nat /\ lost \in Nat
  BY TurnTypes DEF TurnInv
<1>2. /\ turn.pc = "generating" /\ Refused /\ paid' = paid - 1 /\ turn' = f
      /\ refusal' = [refusal EXCEPT !.known = TRUE]
      /\ UNCHANGED <<setting, helpers, sink, stop, said, usage, lost>>
  BY DEF ModelRefusesForcing
<1>3. /\ f \in Frames /\ f.pc = "call" /\ ~f.retract /\ f.broken = turn.broken
      /\ [f EXCEPT !.retract = FALSE] = f
  BY <1>1 DEF Frames
<1>4. /\ refusal' \in [real : BOOLEAN, known : BOOLEAN] /\ refusal'.real = refusal.real
      /\ said' \in 0..MaxSaid
  BY <1>1, <1>2 DEF TurnTypeOK
<1>5. usage' \in Nat /\ lost' \in Nat /\ paid' = usage' + lost' + 0
  <2>1. Cardinality(Generating) = 0 /\ InFlight = 1
    BY <1>1, <1>2, NoneGenerates DEF InFlight
  <2> QED  BY <1>1, <1>2, <2>1 DEF MeterInv
<1> HIDE DEF f
<1>6. f.broken = "none"
  BY <1>1, <1>2, <1>3 DEF BrokenInv
\* A request that is refused has produced nothing.
<1>7. /\ ~setting.forward => Preview(sink) = Blank
      /\ setting.forward /\ ~stop => Suits(f, Preview(sink))
  <2>1. turn.text = Blank
    BY <1>1, <1>2 DEF PreviewInv
  <2>2. setting.forward /\ ~stop => Preview(sink) = Blank
    BY <1>1, <1>2, <2>1 DEF PreviewInv, Suits
  <2> QED  BY <1>1, <1>3, <2>2 DEF PreviewInv, Suits
<1> QED  BY <1>1, <1>2, <1>3, <1>4, <1>5, <1>6, <1>7, OneFrameStep

LEMMA ModelFailsStep ==
    ASSUME TurnInv, ModelFails
    PROVE  TurnInv'
<1> DEFINE f == [turn EXCEPT !.pc = "raised"]
<1>1. /\ TurnTypeOK /\ HelpersInv /\ MeterInv /\ BrokenInv /\ PreviewInv /\ ~turn.retract
      /\ turn \in Frames
  BY TurnTypes DEF TurnInv
<1>2. /\ turn.pc = "generating" /\ turn' = f
      /\ UNCHANGED <<setting, helpers, sink, stop, refusal, said, paid, usage, lost>>
  BY DEF ModelFails
<1>3. f \in Frames /\ f.pc = "raised" /\ ~f.retract /\ f.broken = turn.broken
  BY <1>1 DEF Frames
<1> HIDE DEF f
<1>4. TurnTypeOK'
  BY <1>1, <1>2, <1>3 DEF TurnTypeOK
<1>5. RoundInv'
  BY <1>2, <1>3 DEF RoundInv
<1>6. HelpersInv'
  BY <1>1, <1>2 DEF HelpersInv
<1>7. MeterInv'
  BY <1>1, <1>2, <1>3 DEF MeterInv, InFlight, Generating
<1>8. BrokenInv'
  BY <1>1, <1>2, <1>3 DEF BrokenInv
<1>9. PreviewInv'
  BY <1>1, <1>2, <1>3 DEF PreviewInv, Suits
<1> QED  BY <1>2, <1>3, <1>4, <1>5, <1>6, <1>7, <1>8, <1>9 DEF TurnInv

\* A frame the tools leave behind, while no subordinate generates.
LEMMA ToolFrameStep ==
    ASSUME TurnInv, turn.pc \in {"serial", "fanout"}, NEW f \in Frames, turn' = f, ~f.retract,
           f.broken = "none", helpers' \in [Subordinates -> Helpers],
           \A s \in Subordinates :
                \/ helpers'[s] = helpers[s]
                \/ helpers'[s].pc = "call" /\ helpers'[s].calls = 0 /\ f.pc = "delegated",
           UNCHANGED <<setting, sink, stop, refusal, said, paid, usage, lost>>,
           \/ f.pc = "call"
           \/ f.pc = "done" /\ f.output = Blank
           \/ f.pc = "delegated" /\ f.round = turn.round
           \/ f.pc = "serial" /\ f.round = turn.round /\ f.asks # "nothing" /\ f.left >= 1
    PROVE  TurnInv'
<1>1. /\ TurnTypeOK /\ HelpersInv /\ MeterInv /\ BrokenInv /\ PreviewInv /\ RoundInv
  BY DEF TurnInv
<1>2. turn.round < MaxToolRounds /\ turn.round \in 0..MaxToolRounds
  BY <1>1, TurnTypes DEF RoundInv, Frames
<1>3. \A s \in Subordinates : helpers[s].pc = "none" /\ helpers[s].calls = 0
  BY <1>1 DEF HelpersInv
<1>4. TurnTypeOK'
  BY <1>1 DEF TurnTypeOK
<1>5. RoundInv'
  BY <1>2 DEF RoundInv
<1>6. HelpersInv'
  <2>1. 0 < MaxToolRounds
    BY <1>2, TurnAssumption
  <2> QED  BY <1>3, <2>1 DEF HelpersInv
<1>7. MeterInv'
  <2>1. Generating' = {} /\ Generating = {}
    BY <1>3 DEF Generating
  <2>2. InFlight' = 0 /\ InFlight = 0
    BY DEF InFlight
  <2>3. Generating' = Generating
    BY <2>1
  <2> QED  BY <1>1, <2>2, <2>3 DEF MeterInv
<1>8. BrokenInv'
  BY DEF BrokenInv
<1>9. PreviewInv'
  <2>1. setting.forward /\ ~stop => Preview(sink) = Blank
    BY <1>1 DEF PreviewInv, Suits
  <2> QED  BY <1>1, <2>1 DEF PreviewInv, Suits
<1> QED  BY <1>4, <1>5, <1>6, <1>7, <1>8, <1>9 DEF TurnInv

\* The frames of a turn that goes on to another round, stops, or waits.
LEMMA ToolFramesAre ==
    ASSUME NEW t \in Frames, ~t.retract, t.broken = "none", t.round < MaxToolRounds
    PROVE  /\ NextRound(t) \in Frames /\ NextRound(t).pc = "call" /\ ~NextRound(t).retract
           /\ NextRound(t).broken = "none"
           /\ Silent(t) \in Frames /\ Silent(t).pc = "done" /\ Silent(t).output = Blank
           /\ ~Silent(t).retract /\ Silent(t).broken = "none"
           /\ [t EXCEPT !.pc = "delegated"] \in Frames
           /\ [t EXCEPT !.pc = "delegated"].pc = "delegated"
           /\ [t EXCEPT !.pc = "delegated"].round = t.round
           /\ [t EXCEPT !.pc = "delegated"].broken = "none"
           /\ ~[t EXCEPT !.pc = "delegated"].retract
<1>1. t.round + 1 \in 0..MaxToolRounds /\ 0 \in 0..MaxBatch
  <2>1. t.round \in 0..MaxToolRounds
    BY DEF Frames
  <2> QED  BY <2>1, TurnAssumption, FS_CardinalityType
<1> DEFINE more == t.round + 1
<1>2. NextRound(t) = [t EXCEPT !.round = more, !.left = 0, !.pc = "call", !.call = "loop"]
  BY DEF NextRound, Call
<1>3. more \in 0..MaxToolRounds
  BY <1>1
<1> HIDE DEF more
<1>4. /\ NextRound(t) \in Frames /\ NextRound(t).pc = "call" /\ ~NextRound(t).retract
      /\ NextRound(t).broken = "none"
  BY <1>1, <1>2, <1>3 DEF Frames, Calls
<1>5. /\ Silent(t) \in Frames /\ Silent(t).pc = "done" /\ Silent(t).output = Blank
      /\ ~Silent(t).retract /\ Silent(t).broken = "none"
  BY TextsTyped DEF Silent, Frames
<1> QED  BY <1>4, <1>5 DEF Frames

LEMMA RunToolStep ==
    ASSUME TurnInv, RunTool
    PROVE  TurnInv'
<1>1. /\ TurnTypeOK /\ HelpersInv /\ BrokenInv /\ RoundInv /\ ~turn.retract
      /\ turn \in Frames /\ helpers \in [Subordinates -> Helpers]
  BY TurnTypes DEF TurnInv
<1>2. turn.pc = "serial" /\ UNCHANGED <<setting, sink, stop, refusal, said, paid, usage, lost>>
  BY DEF RunTool
<1>3. /\ turn.broken = "none" /\ turn.round < MaxToolRounds
      /\ turn.asks # "nothing" /\ turn.left >= 1
  BY <1>1, <1>2 DEF BrokenInv, RoundInv
<1>4. CASE Stopped
  <2>1. turn' = Silent(turn) /\ UNCHANGED helpers
    BY <1>4 DEF RunTool
  <2> QED  BY <1>1, <1>2, <1>3, <2>1, ToolFramesAre, ToolFrameStep
<1>5. CASE ~Stopped /\ turn.asks = "delegations"
  <2>1. PICK s \in Subordinates : helpers' = [helpers EXCEPT ![s].pc = "call"]
    BY <1>5 DEF RunTool
  <2>2. turn' = [turn EXCEPT !.pc = "delegated"]
    BY <1>5 DEF RunTool
  <2>3. helpers[s] \in Helpers /\ helpers[s].calls = 0
    BY <1>1, <1>2 DEF HelpersInv
  <2> DEFINE h == [helpers[s] EXCEPT !.pc = "call"]
  <2>4. h \in Helpers /\ h.pc = "call" /\ h.calls = 0
    BY <2>3 DEF Helpers
  <2>5. helpers' = [helpers EXCEPT ![s] = h]
    BY <2>1
  <2> HIDE DEF h
  <2>6. /\ helpers' \in [Subordinates -> Helpers] /\ helpers'[s] = h
        /\ \A q \in Subordinates \ {s} : helpers'[q] = helpers[q]
    BY <1>1, <2>4, <2>5
  <2>7. /\ turn' \in Frames /\ turn'.pc = "delegated" /\ turn'.round = turn.round
        /\ turn'.broken = "none" /\ ~turn'.retract
    BY <1>1, <1>3, <2>2, ToolFramesAre
  <2> QED  BY <1>2, <2>4, <2>6, <2>7, ToolFrameStep
<1>6. CASE ~Stopped /\ turn.asks # "delegations" /\ turn.left = 1
  <2>1. turn' = NextRound(turn) /\ UNCHANGED helpers
    BY <1>6 DEF RunTool
  <2> QED  BY <1>1, <1>2, <1>3, <2>1, ToolFramesAre, ToolFrameStep
<1>7. CASE ~Stopped /\ turn.asks # "delegations" /\ turn.left # 1
  <2> DEFINE less == turn.left - 1
             f == [turn EXCEPT !.left = less]
  <2>1. turn' = f /\ UNCHANGED helpers
    BY <1>7 DEF RunTool
  <2>2. less \in 0..MaxBatch /\ less >= 1
    <3>1. turn.left \in 0..MaxBatch /\ MaxBatch \in Nat
      BY <1>1, TurnAssumption, FS_CardinalityType DEF Frames
    <3> QED  BY <1>3, <1>7, <3>1
  <2> HIDE DEF less
  <2>3. /\ f \in Frames /\ f.pc = "serial" /\ f.round = turn.round /\ f.asks = turn.asks
        /\ f.left = less /\ ~f.retract /\ f.broken = "none"
    BY <1>1, <1>2, <1>3, <2>2 DEF Frames
  <2> HIDE DEF f
  <2> QED  BY <1>1, <1>2, <1>3, <2>1, <2>2, <2>3, ToolFrameStep
<1> QED  BY <1>4, <1>5, <1>6, <1>7

LEMMA FanOutStep ==
    ASSUME TurnInv, FanOut
    PROVE  TurnInv'
<1>1. /\ TurnTypeOK /\ HelpersInv /\ BrokenInv /\ RoundInv /\ ~turn.retract
      /\ turn \in Frames /\ helpers \in [Subordinates -> Helpers]
  BY TurnTypes DEF TurnInv
<1>2. turn.pc = "fanout" /\ UNCHANGED <<setting, sink, stop, refusal, said, paid, usage, lost>>
  BY DEF FanOut
<1>3. turn.broken = "none" /\ turn.round < MaxToolRounds
  BY <1>1, <1>2 DEF BrokenInv, RoundInv
<1>4. CASE Stopped
  <2>1. turn' = Silent(turn) /\ UNCHANGED helpers
    BY <1>4 DEF FanOut
  <2> QED  BY <1>1, <1>2, <1>3, <2>1, ToolFramesAre, ToolFrameStep
<1>5. CASE ~Stopped
  <2>1. turn' = [turn EXCEPT !.pc = "delegated"]
    BY <1>5 DEF FanOut
  <2>2. PICK chosen \in SUBSET Subordinates :
            helpers' = [s \in Subordinates |->
                    IF s \in chosen THEN [NoHelper EXCEPT !.pc = "call"] ELSE helpers[s]]
    BY <1>5 DEF FanOut
  <2> DEFINE h == [NoHelper EXCEPT !.pc = "call"]
  <2>3. h \in Helpers /\ h.pc = "call" /\ h.calls = 0
    BY TurnAssumption DEF NoHelper, Helpers
  <2> HIDE DEF h
  <2>4. /\ helpers' \in [Subordinates -> Helpers]
        /\ \A s \in Subordinates : helpers'[s] = helpers[s] \/ helpers'[s] = h
    BY <1>1, <2>2, <2>3 DEF h
  <2>5. /\ turn' \in Frames /\ turn'.pc = "delegated" /\ turn'.round = turn.round
        /\ turn'.broken = "none" /\ ~turn'.retract
    BY <1>1, <1>3, <2>1, ToolFramesAre
  <2> QED  BY <1>2, <2>3, <2>4, <2>5, ToolFrameStep
<1> QED  BY <1>4, <1>5

LEMMA HelperStep ==
    ASSUME TurnInv, NEW s \in Subordinates, helpers[s].pc # "none", NEW h \in Helpers,
           HelperIs(s, h), h.pc = "none" => h.calls = 0, h.pc = "call" => h.calls < MaxToolRounds,
           UNCHANGED <<setting, sink, stop, refusal, said>>, usage' \in Nat, lost' \in Nat,
           paid' = usage' + lost' + Cardinality(Generating \ {s})
                   + (IF h.pc = "generating" THEN 1 ELSE 0)
    PROVE  TurnInv'
<1>1. /\ TurnTypeOK /\ HelpersInv /\ BrokenInv /\ PreviewInv /\ RoundInv /\ ~turn.retract
      /\ turn \in Frames /\ helpers \in [Subordinates -> Helpers]
  BY TurnTypes DEF TurnInv
<1>2. turn.pc = "delegated" /\ turn.broken = "none" /\ turn.round < MaxToolRounds
  BY <1>1 DEF HelpersInv, BrokenInv, RoundInv
<1>3. /\ helpers' = [helpers EXCEPT ![s] = h]
      /\ turn' = IF \A q \in Subordinates : helpers'[q].pc = "none" THEN NextRound(turn) ELSE turn
  BY DEF HelperIs
<1>4. /\ helpers' \in [Subordinates -> Helpers] /\ helpers'[s] = h
      /\ \A q \in Subordinates \ {s} : helpers'[q] = helpers[q]
  BY <1>1, <1>3
<1>5. /\ turn' \in Frames /\ turn'.pc \in {"delegated", "call"} /\ ~turn'.retract
      /\ turn'.broken = "none" /\ (turn'.pc = "delegated" => turn' = turn)
      /\ (\E q \in Subordinates : helpers'[q].pc # "none") => turn'.pc = "delegated"
  BY <1>1, <1>2, <1>3, ToolFramesAre
<1>6. IsFiniteSet(Generating) /\ IsFiniteSet(Generating \ {s}) /\ Cardinality(Generating \ {s}) \in Nat
  <2>1. Generating \in SUBSET Subordinates /\ IsFiniteSet(Subordinates)
    BY TurnAssumption DEF Generating
  <2>2. IsFiniteSet(Generating)
    BY <2>1, FS_Subset
  <2> QED  BY <2>2, FS_RemoveElement, FS_CardinalityType
<1> DEFINE others == Generating \ {s}
           mine == IF h.pc = "generating" THEN 1 ELSE 0
<1>7. Cardinality(Generating') = Cardinality(others) + mine
  <2>1. CASE h.pc = "generating"
    <3>1. Generating' = others \cup {s} /\ s \notin others
      BY <1>4, <2>1 DEF Generating
    <3> HIDE DEF others
    <3>2. IsFiniteSet(others)
      BY <1>6 DEF others
    <3>3. Cardinality(others \cup {s}) = Cardinality(others) + 1
      BY <3>1, <3>2, FS_AddElement
    <3> QED  BY <2>1, <3>1, <3>3
  <2>2. CASE h.pc # "generating"
    <3>1. Generating' = others
      BY <1>4, <2>2 DEF Generating
    <3>2. mine = 0 /\ Cardinality(others) \in Nat
      BY <1>6, <2>2
    <3> HIDE DEF others, mine
    <3> QED  BY <3>1, <3>2
  <2> QED  BY <2>1, <2>2
<1>8. mine \in Nat /\ Cardinality(others) \in Nat /\ paid' = usage' + lost' + Cardinality(others) + mine
  BY <1>6
<1> HIDE DEF others, mine
<1>9. TurnTypeOK'
  <2>1. paid' \in Nat /\ usage' \in 0..paid' /\ lost' \in 0..paid'
    BY <1>8
  <2> QED  BY <1>1, <1>4, <1>5, <2>1 DEF TurnTypeOK
<1>10. RoundInv'
  BY <1>2, <1>5 DEF RoundInv
<1>11. HelpersInv'
  <2>1. ASSUME NEW q \in Subordinates
        PROVE  /\ helpers'[q].pc # "none" => turn'.pc = "delegated"
               /\ helpers'[q].pc = "none" => helpers'[q].calls = 0
               /\ helpers'[q].pc = "call" => helpers'[q].calls < MaxToolRounds
    <3>1. CASE q = s
      BY <1>4, <1>5, <3>1
    <3>2. CASE q # s
      BY <1>1, <1>4, <1>5, <3>2 DEF HelpersInv
    <3> QED  BY <3>1, <3>2
  <2> QED  BY <2>1 DEF HelpersInv
<1>12. MeterInv'
  <2>1. InFlight' = 0
    BY <1>5 DEF InFlight
  <2> QED  BY <1>7, <1>8, <2>1 DEF MeterInv
<1>13. BrokenInv'
  BY <1>5 DEF BrokenInv
<1>14. PreviewInv'
  <2>1. setting.forward /\ ~stop => Preview(sink) = Blank
    BY <1>1, <1>2 DEF PreviewInv, Suits
  <2> QED  BY <1>1, <1>5, <2>1 DEF PreviewInv, Suits
<1> QED  BY <1>5, <1>9, <1>10, <1>11, <1>12, <1>13, <1>14 DEF TurnInv

LEMMA HelperMoves ==
    ASSUME TurnInv, NEW s \in Subordinates, HelperCalls(s) \/ HelperEnds(s)
    PROVE  TurnInv'
<1>1. /\ TurnTypeOK /\ HelpersInv /\ MeterInv /\ helpers \in [Subordinates -> Helpers]
      /\ helpers[s] \in Helpers /\ helpers[s].calls \in 0..MaxToolRounds
      /\ paid \in Nat /\ usage \in Nat /\ lost \in Nat
  BY TurnTypes DEF TurnInv, Helpers
<1>2. helpers[s].pc \in {"call", "generating"} /\ UNCHANGED <<setting, sink, stop, refusal, said>>
  BY DEF HelperCalls, HelperEnds
<1>3. NoHelper \in Helpers /\ NoHelper.pc = "none" /\ NoHelper.calls = 0
  BY TurnAssumption DEF NoHelper, Helpers
<1>4. Generating \in SUBSET Subordinates /\ IsFiniteSet(Generating)
  <2>1. Generating \in SUBSET Subordinates /\ IsFiniteSet(Subordinates)
    BY TurnAssumption DEF Generating
  <2> QED  BY <2>1, FS_Subset
<1> DEFINE n == Cardinality(Generating \ {s})
           one == IF helpers[s].pc = "generating" THEN 1 ELSE 0
<1>5. paid = usage + lost + n + one /\ n \in Nat
  <2>1. turn.pc = "delegated"
    BY <1>1, <1>2 DEF HelpersInv
  <2>2. InFlight = 0
    BY <2>1 DEF InFlight
  <2>3. s \in Generating <=> helpers[s].pc = "generating"
    BY DEF Generating
  <2>4. /\ IsFiniteSet(Generating \ {s})
        /\ n = IF s \in Generating THEN Cardinality(Generating) - 1 ELSE Cardinality(Generating)
    BY <1>4, FS_RemoveElement
  <2>5. n \in Nat /\ Cardinality(Generating) \in Nat
    BY <1>4, <2>4, FS_CardinalityType
  <2>6. Cardinality(Generating) = n + one
    <3> HIDE DEF n
    <3> QED  BY <2>3, <2>4, <2>5
  <2>7. paid = usage + lost + 0 + Cardinality(Generating)
    BY <1>1, <2>2 DEF MeterInv
  <2>8. one \in Nat
    OBVIOUS
  <2>9. paid \in Nat /\ usage \in Nat /\ lost \in Nat
    BY <1>1
  <2> HIDE DEF n, one
  <2>10. paid = usage + lost + n + one
    BY <2>5, <2>6, <2>7, <2>8, <2>9
  <2> QED  BY <2>5, <2>10
<1> HIDE DEF n
<1>6. ASSUME NEW h \in Helpers, HelperIs(s, h), h.pc = "none" => h.calls = 0,
             h.pc = "call" => h.calls < MaxToolRounds, usage' \in Nat, lost' \in Nat,
             paid' = usage' + lost' + n + (IF h.pc = "generating" THEN 1 ELSE 0)
      PROVE  TurnInv'
  BY <1>2, <1>6, HelperStep DEF n
<1>7. CASE HelperCalls(s)
  <2>1. one = 0 /\ helpers[s].pc = "call" /\ UNCHANGED <<usage, lost>>
    BY <1>7 DEF HelperCalls
  <2>2. CASE Stopped
    <3>1. HelperIs(s, NoHelper) /\ UNCHANGED paid
      BY <1>7, <2>2 DEF HelperCalls
    <3>2. paid' = usage' + lost' + n + 0
      BY <1>1, <1>5, <2>1, <3>1
    <3> QED  BY <1>1, <1>3, <1>6, <2>1, <3>1, <3>2
  <2>3. CASE ~Stopped
    <3> DEFINE calls == helpers[s].calls + 1
               h == [pc |-> "generating", calls |-> calls]
    <3>1. HelperIs(s, h) /\ paid' = paid + 1
      BY <1>7, <2>3 DEF HelperCalls
    <3>2. calls \in 0..MaxToolRounds
      <4>1. helpers[s].calls < MaxToolRounds
        BY <1>1, <2>1 DEF HelpersInv
      <4> QED  BY <1>1, <4>1, TurnAssumption
    <3> HIDE DEF calls
    <3>3. h \in Helpers /\ h.pc = "generating"
      BY <3>2 DEF Helpers
    <3>4. paid' = usage' + lost' + n + 1
      BY <1>1, <1>5, <2>1, <3>1
    <3> HIDE DEF h
    <3> QED  BY <1>1, <1>6, <2>1, <3>1, <3>3, <3>4
  <2> QED  BY <2>2, <2>3
<1>8. CASE HelperEnds(s)
  <2>1. one = 1
    BY <1>8 DEF HelperEnds
  <2>2. CASE HelperIs(s, NoHelper)
    <3>1. /\ usage' \in Nat /\ lost' \in Nat /\ paid' = usage' + lost' + n + 0
      <4>1. \/ usage' = usage + 1 /\ UNCHANGED <<paid, lost>>
            \/ lost' = lost + 1 /\ UNCHANGED <<paid, usage>>
            \/ paid' = paid - 1 /\ UNCHANGED <<usage, lost>>
        BY <1>8 DEF HelperEnds
      <4> HIDE DEF one
      <4> QED  BY <1>1, <1>5, <2>1, <4>1
    <3> QED  BY <1>3, <1>6, <2>2, <3>1
  <2>3. CASE /\ usage' = usage + 1 /\ UNCHANGED <<paid, lost>> /\ helpers[s].calls < MaxToolRounds
             /\ HelperIs(s, [helpers[s] EXCEPT !.pc = "call"])
    <3> DEFINE h == [helpers[s] EXCEPT !.pc = "call"]
    <3>1. h \in Helpers /\ h.pc = "call" /\ h.calls = helpers[s].calls
      BY <1>1 DEF Helpers
    <3>2. usage' \in Nat /\ lost' \in Nat /\ paid' = usage' + lost' + n + 0
      <4> HIDE DEF one
      <4> QED  BY <1>1, <1>5, <2>1, <2>3
    <3>3. HelperIs(s, h)
      BY <2>3
    <3> HIDE DEF h
    <3> QED  BY <1>6, <2>3, <3>1, <3>2, <3>3
  <2> QED  BY <1>8, <2>2, <2>3 DEF HelperEnds
<1> QED  BY <1>7, <1>8

----------------------------------------------------------------------------
\* The theorems of an agent's turn.

LEMMA TurnInitInv == TurnInit => TurnInv
<1> SUFFICES ASSUME TurnInit PROVE TurnInv
  OBVIOUS
<1>1. /\ setting \in Settings /\ refusal \in [real : BOOLEAN, known : BOOLEAN]
      /\ turn = [pc |-> "call", call |-> "first", forced |-> Forced(setting) /\ ~refusal.known,
                 text |-> Blank, asks |-> "nothing", left |-> 0, round |-> 0, emitted |-> FALSE,
                 answer |-> Blank, retried |-> FALSE, retract |-> FALSE, broken |-> "none",
                 output |-> Blank]
      /\ helpers = [s \in Subordinates |-> NoHelper]
      /\ sink = NothingShown
      /\ stop = FALSE /\ said = 0 /\ paid = 0 /\ usage = 0 /\ lost = 0
  BY DEF TurnInit, NothingShown
<1>2. 0 \in 0..MaxBatch /\ 0 \in 0..MaxToolRounds /\ 0 \in 0..MaxSaid /\ 0 \in 0..0
  BY TurnAssumption, FS_CardinalityType
<1>3. turn \in Frames
  <2>1. (Forced(setting) /\ ~refusal.known) \in BOOLEAN
    OBVIOUS
  <2> DEFINE forced == Forced(setting) /\ ~refusal.known
  <2> HIDE DEF forced
  <2> QED  BY <1>1, <1>2, <2>1, TextsTyped DEF Frames, Calls, forced
<1>4. NoHelper \in Helpers /\ NoHelper.pc = "none" /\ NoHelper.calls = 0
  BY TurnAssumption DEF NoHelper, Helpers
<1>5. TurnTypeOK
  <2>1. helpers \in [Subordinates -> Helpers] /\ sink \in Sinks
    BY <1>1, <1>4, TextsTyped
  <2> QED  BY <1>1, <1>2, <1>3, <2>1 DEF TurnTypeOK
<1>6. \A s \in Subordinates : helpers[s].pc = "none" /\ helpers[s].calls = 0
  BY <1>1, <1>4
<1>7. turn.pc = "call" /\ turn.broken = "none" /\ ~turn.retract
  BY <1>1
<1>8. RoundInv /\ HelpersInv /\ BrokenInv
  BY <1>6, <1>7 DEF RoundInv, HelpersInv, BrokenInv
<1>9. MeterInv
  <2>1. Cardinality(Generating) = 0 /\ InFlight = 0
    BY <1>7, <1>8, NoneGenerates DEF InFlight
  <2> QED  BY <1>1, <2>1 DEF MeterInv
<1>10. PreviewInv
  BY <1>1, <1>7, TextsTyped DEF PreviewInv, Suits
<1> QED  BY <1>5, <1>7, <1>8, <1>9, <1>10 DEF TurnInv

LEMMA TurnStep == TurnInv /\ [TurnNext]_turnVars => TurnInv'
<1>1. TurnInv /\ TurnNext => TurnInv'
  BY AskToStopStep, CallModelStep, ModelRefusesForcingStep, ModelSaysStep, ModelAsksStep,
     ModelEndsStep, ModelFailsStep, RunToolStep, FanOutStep, HelperMoves DEF TurnNext
<1>2. TurnInv /\ UNCHANGED turnVars => TurnInv'
  <2> SUFFICES ASSUME TurnInv, UNCHANGED turnVars PROVE TurnInv'
    OBVIOUS
  <2>1. UNCHANGED <<setting, turn, helpers, sink, stop, refusal, said, paid, usage, lost>>
    BY DEF turnVars
  <2>2. TurnTypeOK' /\ ~turn'.retract
    BY <2>1 DEF TurnInv, TurnTypeOK
  <2>3. RoundInv' /\ HelpersInv' /\ BrokenInv'
    BY <2>1 DEF TurnInv, RoundInv, HelpersInv, BrokenInv, Stopped, Dropped
  <2>4. MeterInv'
    BY <2>1 DEF TurnInv, MeterInv, InFlight, Generating
  <2>5. PreviewInv'
    BY <2>1 DEF TurnInv, PreviewInv, Refused
  <2> QED  BY <2>2, <2>3, <2>4, <2>5 DEF TurnInv
<1> QED  BY <1>1, <1>2

\* The inductive invariant holds in every reachable state.
THEOREM TurnInvariance == TurnSpec => []TurnInv
<1> QED  BY TurnInitInv, TurnStep, PTL DEF TurnSpec

\* Every frame, text and counter of a turn keeps its type, and no more calls are
\* metered or broken off than are paid for (langgraph_adapter.py _run_agent).
THEOREM TurnTypeCorrect == TurnSpec => []TurnTypeOK
<1>1. TurnInv => TurnTypeOK
  BY DEF TurnInv
<1> QED  BY <1>1, TurnInvariance, PTL

\* What streamed of a turn that answers is its answer, or nothing: never the preamble
\* of a tool call or a text the grounding policy replaced (_TokenSink, _run_agent).
THEOREM PreviewIsAnswerHolds == TurnSpec => []PreviewIsAnswer
<1>1. TurnInv => PreviewIsAnswer
  <2> SUFFICES ASSUME TurnInv, turn.pc = "done", ~Stopped
               PROVE  Preview(sink) \in {Blank, turn.output}
    BY DEF PreviewIsAnswer, Answered, Preview
  <2>1. setting.forward \in BOOLEAN /\ (setting.forward => ~stop)
    BY TurnTypes DEF TurnInv, Stopped
  <2> QED  BY <2>1 DEF TurnInv, PreviewInv, Suits
<1> QED  BY <1>1, TurnInvariance, PTL

\* The text of a call that a stop broke off is not the turn's output, but in the
\* wrap-up of an agent without a knowledge base (langgraph_adapter.py:925).
THEOREM PartialReplyIsNotKeptHolds == TurnSpec => []PartialReplyIsNotKept
<1>1. TurnInv => PartialReplyIsNotKept
  BY DEF TurnInv, BrokenInv, Dropped, PartialReplyIsNotKept
<1> QED  BY <1>1, TurnInvariance, PTL

\* A turn that returns has metered every call it was charged for, its subordinates'
\* and its grader's, but those a stop broke off (_record_usage, the usage sinks).
THEOREM TurnIsMeteredHolds == TurnSpec => []TurnIsMetered
<1>1. TurnInv => TurnIsMetered
  <2> SUFFICES ASSUME TurnInv, turn.pc = "done" PROVE paid = usage + lost
    BY DEF TurnIsMetered
  <2>1. Cardinality(Generating) = 0 /\ InFlight = 0
    BY NoneGenerates DEF TurnInv, InFlight
  <2>2. paid = usage + lost + 0 + 0 /\ usage \in Nat /\ lost \in Nat
    BY <2>1, TurnTypes DEF TurnInv, MeterInv
  <2> QED  BY <2>2
<1> QED  BY <1>1, TurnInvariance, PTL
----------------------------------------------------------------------------
(* TriggerHealth: the columns of one trigger row, and what was told of them. *)

\* What the two sessions and the row hold are health columns, and a fault that is
\* judged leaves room for its count.
RowsInv ==
    /\ health \in Health
    /\ poller \in [pc : {"idle", "loaded", "released", "checked", "upkeep"}, copy : Health]
    /\ judge \in [verdict : Verdicts \cup {"none"}, seen : Health]
    /\ judge.verdict \in DOMAIN PrintOf => judge.seen.faults < MaxFaults
    /\ repeated \in BOOLEAN /\ raced \in BOOLEAN /\ told \subseteq Prints

HealthInv == RowsInv /\ AlertsMatchEpisodes

\* What a decision says, against the columns it leaves: an alert of what was not
\* outstanding and is, a recovery of what was and is not.
Consistent(d, h) ==
    /\ d.health \in Health
    /\ d.say \in [alert : SUBSET Prints, recovered : SUBSET Prints]
    /\ d.say.alert \cap h.out = {}
    /\ d.health.out = (h.out \cup d.say.alert) \ d.say.recovered

LEMMA HealthTypes ==
    /\ \A h \in Health : /\ h.faults \in 0..MaxFaults /\ h.out \in SUBSET Prints
                         /\ h = [faults |-> h.faults, out |-> h.out]
    /\ \A n \in 0..MaxFaults, s \in SUBSET Prints : [faults |-> n, out |-> s] \in Health
    /\ Healthy \in Health
    /\ Nothing \in [alert : SUBSET Prints, recovered : SUBSET Prints]
<1>1. 0 \in 0..MaxFaults
  BY TriggerHealthAssumption
<1> QED  BY <1>1 DEF Health, Healthy, Nothing

\* A verdict's columns and its notice agree.
LEMMA EvaluateConsistent ==
    ASSUME NEW verdict \in Verdicts, NEW h \in Health,
           verdict \in DOMAIN PrintOf => h.faults < MaxFaults
    PROVE  Consistent(Evaluate(verdict, h), h)
<1>1. h.faults \in 0..MaxFaults /\ h.out \in SUBSET Prints /\ 0 \in 0..MaxFaults
  BY HealthTypes, TriggerHealthAssumption
<1>2. CASE verdict \in DOMAIN OkClears
  <2> DEFINE cleared == h.out \cap OkClears[verdict]
  <2>1. CASE h.out \cap FaultPrints = {}
    <3>1. Evaluate(verdict, h) = [health |-> [h EXCEPT !.faults = 0], say |-> Nothing]
      BY <1>2, <2>1 DEF Evaluate
    <3>2. [h EXCEPT !.faults = 0] = [faults |-> 0, out |-> h.out]
      BY HealthTypes DEF Health
    <3> QED  BY <1>1, <3>1, <3>2, HealthTypes DEF Consistent, Nothing
  <2>2. CASE h.out \cap FaultPrints # {} /\ cleared # {}
    <3>1. Evaluate(verdict, h) = [health |-> [faults |-> 0, out |-> h.out \ cleared],
                                  say |-> [Nothing EXCEPT !.recovered = cleared]]
      BY <1>2, <2>2 DEF Evaluate
    <3>2. [Nothing EXCEPT !.recovered = cleared] = [alert |-> {}, recovered |-> cleared]
      BY DEF Nothing
    <3>3. h.out \ cleared \in SUBSET Prints /\ cleared \in SUBSET Prints
      BY <1>1
    <3> HIDE DEF cleared
    <3> QED  BY <1>1, <3>1, <3>2, <3>3, HealthTypes DEF Consistent
  <2>3. CASE h.out \cap FaultPrints # {} /\ cleared = {}
    <3>1. Evaluate(verdict, h) = [health |-> h, say |-> Nothing]
      BY <1>2, <2>3 DEF Evaluate
    <3> QED  BY <1>1, <3>1, HealthTypes DEF Consistent, Nothing
  <2> QED  BY <2>1, <2>2, <2>3
<1>3. CASE verdict \notin DOMAIN OkClears
  <2> DEFINE f == PrintOf[verdict]
             counted == [h EXCEPT !.faults = @ + 1]
             due == verdict = "run_timeout" \/ counted.faults >= Threshold
  <2>1. verdict \in DOMAIN PrintOf /\ f \in Prints
    BY <1>3 DEF Verdicts, PrintOf, Prints, FaultPrints
  <2>2. counted = [faults |-> h.faults + 1, out |-> h.out] /\ h.faults + 1 \in 0..MaxFaults
    <3>1. counted = [faults |-> h.faults + 1, out |-> h.out]
      BY HealthTypes DEF Health
    <3>2. h.faults + 1 \in 0..MaxFaults
      BY <1>1, <2>1, TriggerHealthAssumption
    <3> QED  BY <3>1, <3>2
  <2>3. counted \in Health /\ counted.out = h.out
    BY <1>1, <2>2, HealthTypes
  <2>4. CASE due /\ f \notin h.out
    <3>1. Evaluate(verdict, h) = [health |-> [counted EXCEPT !.out = Alerting(@, f)],
                                  say |-> [Nothing EXCEPT !.alert = {f}]]
      BY <1>3, <2>4 DEF Evaluate
    <3> HIDE DEF f
    <3> DEFINE more == [faults |-> h.faults + 1, out |-> h.out \cup {f}]
               say == [alert |-> {f}, recovered |-> {}]
    <3>2. [counted EXCEPT !.out = Alerting(@, f)] = more /\ [Nothing EXCEPT !.alert = {f}] = say
      <4> HIDE DEF counted
      <4>1. [counted EXCEPT !.out = Alerting(@, f)] = more
        BY <2>2 DEF Alerting
      <4> QED  BY <4>1 DEF Nothing
    <3>3. h.out \cup {f} \in SUBSET Prints /\ {f} \in SUBSET Prints /\ {f} \cap h.out = {}
      BY <1>1, <2>1, <2>4
    <3>4. more \in Health /\ say \in [alert : SUBSET Prints, recovered : SUBSET Prints]
      BY <2>2, <3>3, HealthTypes
    <3>5. say.alert \cap h.out = {} /\ more.out = (h.out \cup say.alert) \ say.recovered
      BY <3>3
    <3>6. Evaluate(verdict, h) = [health |-> more, say |-> say]
      BY <3>1, <3>2
    <3> HIDE DEF more, say
    <3> QED  BY <3>4, <3>5, <3>6 DEF Consistent
  <2>5. CASE ~(due /\ f \notin h.out)
    <3>1. Evaluate(verdict, h) = [health |-> counted, say |-> Nothing]
      BY <1>3, <2>5 DEF Evaluate
    <3> HIDE DEF counted
    <3> QED  BY <2>3, <3>1, HealthTypes DEF Consistent, Nothing
  <2> QED  BY <2>4, <2>5
<1> QED  BY <1>2, <1>3

LEMMA BacklogConsistent ==
    ASSUME NEW h \in Health, NEW over \in BOOLEAN
    PROVE  Consistent(EvaluateBacklog(h, over), h)
<1>1. h.faults \in 0..MaxFaults /\ h.out \in SUBSET Prints /\ "backlog" \in Prints
  BY HealthTypes DEF Prints
<1>2. CASE over /\ "backlog" \notin h.out
  <2>1. EvaluateBacklog(h, over) = [health |-> [h EXCEPT !.out = Alerting(@, "backlog")],
                                    say |-> [Nothing EXCEPT !.alert = {"backlog"}]]
    BY <1>2 DEF EvaluateBacklog
  <2>2. /\ [h EXCEPT !.out = Alerting(@, "backlog")] = [faults |-> h.faults, out |-> h.out \cup {"backlog"}]
        /\ [Nothing EXCEPT !.alert = {"backlog"}] = [alert |-> {"backlog"}, recovered |-> {}]
    BY HealthTypes DEF Nothing, Alerting, Health
  <2>3. h.out \cup {"backlog"} \in SUBSET Prints /\ {"backlog"} \in SUBSET Prints /\ {"backlog"} \cap h.out = {}
    BY <1>1, <1>2
  <2> DEFINE more == [faults |-> h.faults, out |-> h.out \cup {"backlog"}]
             say == [alert |-> {"backlog"}, recovered |-> {}]
  <2>4. more \in Health /\ say \in [alert : SUBSET Prints, recovered : SUBSET Prints]
    BY <1>1, <2>3, HealthTypes
  <2>5. say.alert \cap h.out = {} /\ more.out = (h.out \cup say.alert) \ say.recovered
    BY <2>3
  <2>6. EvaluateBacklog(h, over) = [health |-> more, say |-> say]
    BY <2>1, <2>2
  <2> HIDE DEF more, say
  <2> QED  BY <2>4, <2>5, <2>6 DEF Consistent
<1>3. CASE ~over /\ "backlog" \in h.out
  <2>1. EvaluateBacklog(h, over) = [health |-> [h EXCEPT !.out = @ \ {"backlog"}],
                                    say |-> [Nothing EXCEPT !.recovered = {"backlog"}]]
    BY <1>3 DEF EvaluateBacklog
  <2>2. /\ [h EXCEPT !.out = @ \ {"backlog"}] = [faults |-> h.faults, out |-> h.out \ {"backlog"}]
        /\ [Nothing EXCEPT !.recovered = {"backlog"}] = [alert |-> {}, recovered |-> {"backlog"}]
    BY HealthTypes DEF Nothing, Health
  <2>3. h.out \ {"backlog"} \in SUBSET Prints
    BY <1>1
  <2> QED  BY <1>1, <2>1, <2>2, <2>3, HealthTypes DEF Consistent
<1>4. CASE ~(over /\ "backlog" \notin h.out) /\ ~(~over /\ "backlog" \in h.out)
  <2>1. EvaluateBacklog(h, over) = [health |-> h, say |-> Nothing]
    BY <1>4 DEF EvaluateBacklog
  <2> QED  BY <2>1, HealthTypes DEF Consistent, Nothing
<1> QED  BY <1>2, <1>3, <1>4

\* A commit of such a decision keeps the columns and what was told in step; one over
\* a row that has changed since says so.
LEMMA CommitKeeps ==
    ASSUME HealthInv, NEW d, NEW b \in Health, Consistent(d, b), CommitDecision(d, b)
    PROVE  /\ health' \in Health /\ repeated' \in BOOLEAN /\ raced' \in BOOLEAN
           /\ told' \subseteq Prints /\ AlertsMatchEpisodes'
<1>1. /\ health \in Health /\ told \subseteq Prints /\ raced \in BOOLEAN /\ repeated \in BOOLEAN
      /\ ~raced => (health.out = told /\ ~repeated)
  BY DEF HealthInv, RowsInv, AlertsMatchEpisodes
<1>2. /\ d.health \in Health /\ d.say.alert \cap b.out = {}
      /\ d.say.alert \in SUBSET Prints
      /\ d.health.out = (b.out \cup d.say.alert) \ d.say.recovered
  BY DEF Consistent
<1>3. /\ health' = Changed(b, d.health)
      /\ raced' = (raced \/ health # b)
      /\ told' = IF raced' THEN {} ELSE (told \cup d.say.alert) \ d.say.recovered
      /\ repeated' = (~raced' /\ (repeated \/ d.say.alert \cap told # {}))
  BY DEF CommitDecision
<1>4. Changed(b, d.health) = [faults |-> IF d.health.faults = b.faults THEN health.faults ELSE d.health.faults,
                              out |-> IF d.health.out = b.out THEN health.out ELSE d.health.out]
  BY DEF Changed
<1>5. health' \in Health
  BY <1>1, <1>2, <1>3, <1>4, HealthTypes
<1>6. told' \subseteq Prints /\ raced' \in BOOLEAN /\ repeated' \in BOOLEAN
  BY <1>1, <1>2, <1>3
<1>7. ASSUME ~raced' PROVE health'.out = told' /\ ~repeated'
  <2>1. ~raced /\ health = b /\ health.out = told /\ ~repeated
    BY <1>1, <1>3, <1>7
  <2>2. health'.out = d.health.out
    BY <1>3, <1>4, <2>1
  <2> QED  BY <1>2, <1>3, <1>7, <2>1, <2>2
<1> QED  BY <1>5, <1>6, <1>7 DEF AlertsMatchEpisodes

\* The poller commits a verdict on its own copy and goes on with what it wrote.
LEMMA PollVerdictStep ==
    ASSUME HealthInv, NEW verdict \in Verdicts, NEW next \in {"released", "checked"},
           PollVerdict(verdict, next)
    PROVE  HealthInv'
<1> DEFINE d == Evaluate(verdict, poller.copy)
<1>1. poller.copy \in Health
  BY DEF HealthInv, RowsInv
<1>2. Consistent(d, poller.copy)
  BY <1>1, EvaluateConsistent DEF PollVerdict
<1>3. CommitDecision(d, poller.copy) /\ poller' = [pc |-> next, copy |-> d.health] /\ UNCHANGED judge
  BY DEF PollVerdict
<1> HIDE DEF d
<1>4. d.health \in Health
  BY <1>2 DEF Consistent
<1>5. /\ health' \in Health /\ repeated' \in BOOLEAN /\ raced' \in BOOLEAN
      /\ told' \subseteq Prints /\ AlertsMatchEpisodes'
  BY <1>1, <1>2, <1>3, CommitKeeps
<1>6. poller' \in [pc : {"idle", "loaded", "released", "checked", "upkeep"}, copy : Health]
  BY <1>3, <1>4
<1> QED  BY <1>3, <1>5, <1>6 DEF HealthInv, RowsInv

LEMMA ApplyBacklogHealthStep ==
    ASSUME HealthInv, ApplyBacklogHealth
    PROVE  HealthInv'
<1>1. poller.copy \in Health /\ health \in Health
  BY DEF HealthInv, RowsInv
<1>2. PICK over \in BOOLEAN :
        LET d == EvaluateBacklog(poller.copy, over)
        IN \/ /\ d.health # poller.copy /\ CommitDecision(d, poller.copy)
              /\ poller' = [pc |-> "upkeep", copy |-> d.health]
           \/ /\ poller' = [pc |-> "upkeep", copy |-> health]
              /\ UNCHANGED <<health, notices, told, repeated, raced>>
  BY DEF ApplyBacklogHealth
<1> DEFINE d == EvaluateBacklog(poller.copy, over)
<1>3. Consistent(d, poller.copy)
  BY <1>1, BacklogConsistent
<1>4. UNCHANGED judge
  BY DEF ApplyBacklogHealth
<1>5. CASE CommitDecision(d, poller.copy) /\ poller' = [pc |-> "upkeep", copy |-> d.health]
  <2> HIDE DEF d
  <2>1. d.health \in Health
    BY <1>3 DEF Consistent
  <2>2. /\ health' \in Health /\ repeated' \in BOOLEAN /\ raced' \in BOOLEAN
        /\ told' \subseteq Prints /\ AlertsMatchEpisodes'
    BY <1>1, <1>3, <1>5, CommitKeeps
  <2>3. poller' \in [pc : {"idle", "loaded", "released", "checked", "upkeep"}, copy : Health]
    BY <1>5, <2>1
  <2> QED  BY <1>4, <2>2, <2>3 DEF HealthInv, RowsInv
<1>6. CASE poller' = [pc |-> "upkeep", copy |-> health] /\ UNCHANGED <<health, notices, told, repeated, raced>>
  <2>1. poller' \in [pc : {"idle", "loaded", "released", "checked", "upkeep"}, copy : Health]
    BY <1>1, <1>6
  <2> QED  BY <1>4, <1>6, <2>1 DEF HealthInv, RowsInv, AlertsMatchEpisodes
<1> QED  BY <1>2, <1>5, <1>6

LEMMA CommitVerdictStep ==
    ASSUME HealthInv, CommitVerdict
    PROVE  HealthInv'
<1> DEFINE d == Evaluate(judge.verdict, judge.seen)
<1>1. judge.seen \in Health /\ judge.verdict \in Verdicts
      /\ (judge.verdict \in DOMAIN PrintOf => judge.seen.faults < MaxFaults)
  BY DEF HealthInv, RowsInv, CommitVerdict
<1>2. Consistent(d, judge.seen)
  BY <1>1, EvaluateConsistent
<1>3. CommitDecision(d, judge.seen) /\ judge' = [verdict |-> "none", seen |-> Healthy] /\ UNCHANGED poller
  BY DEF CommitVerdict
<1> HIDE DEF d
<1>4. /\ health' \in Health /\ repeated' \in BOOLEAN /\ raced' \in BOOLEAN
      /\ told' \subseteq Prints /\ AlertsMatchEpisodes'
  BY <1>1, <1>2, <1>3, CommitKeeps
<1>5. judge' \in [verdict : Verdicts \cup {"none"}, seen : Health] /\ judge'.verdict \notin DOMAIN PrintOf
  BY <1>3, HealthTypes DEF PrintOf
<1> QED  BY <1>3, <1>4, <1>5 DEF HealthInv, RowsInv

LEMMA HealthInitInv == HealthInit => HealthInv
<1> SUFFICES ASSUME HealthInit PROVE HealthInv
  OBVIOUS
<1> QED  BY HealthTypes DEF HealthInit, HealthInv, RowsInv, AlertsMatchEpisodes, Healthy, PrintOf

LEMMA HealthStep == HealthInv /\ [HealthNext]_healthVars => HealthInv'
<1> SUFFICES ASSUME HealthInv, [HealthNext]_healthVars PROVE HealthInv'
  OBVIOUS
<1>1. CASE LoadTriggers
  BY <1>1 DEF LoadTriggers, HealthInv, RowsInv, AlertsMatchEpisodes
<1>2. CASE ReleaseStale
  <2>1. "run_timeout" \in Verdicts
    BY DEF Verdicts, PrintOf
  <2> QED  BY <1>2, <2>1, PollVerdictStep DEF ReleaseStale
<1>3. CASE CheckMailbox
  <2>1. {"mailbox_ok", "mailbox_fault"} \subseteq Verdicts
    BY DEF Verdicts, PrintOf, OkClears
  <2>2. CASE \E verdict \in {"mailbox_ok", "mailbox_fault"} : PollVerdict(verdict, "checked")
    BY <2>1, <2>2, PollVerdictStep
  <2>3. CASE /\ poller' = [poller EXCEPT !.pc = "checked"]
             /\ UNCHANGED <<health, judge, notices, secret, told, repeated, raced>>
    BY <2>3 DEF HealthInv, RowsInv, AlertsMatchEpisodes
  <2> QED  BY <1>3, <2>2, <2>3 DEF CheckMailbox
<1>4. CASE ApplyBacklogHealth
  BY <1>4, ApplyBacklogHealthStep
<1>5. CASE SweepExpiry
  BY <1>5 DEF SweepExpiry, HealthInv, RowsInv, AlertsMatchEpisodes
<1>6. CASE Dispatch
  BY <1>6, HealthTypes DEF Dispatch, HealthInv, RowsInv, AlertsMatchEpisodes
<1>7. CASE EndPass
  BY <1>7, HealthTypes DEF EndPass, HealthInv, RowsInv, AlertsMatchEpisodes
<1>8. CASE ReadRow
  <2>1. PICK verdict \in {"workflow_ok", "workflow_fault", "run_timeout"} :
          /\ verdict # "workflow_ok" => health.faults < MaxFaults
          /\ judge' = [verdict |-> verdict, seen |-> health]
    BY <1>8 DEF ReadRow
  <2>2. verdict \in Verdicts /\ (verdict \in DOMAIN PrintOf => verdict # "workflow_ok")
    BY DEF Verdicts, PrintOf, OkClears
  <2>3. health \in Health
    BY DEF HealthInv, RowsInv
  <2>4. /\ judge' \in [verdict : Verdicts \cup {"none"}, seen : Health]
        /\ judge'.verdict \in DOMAIN PrintOf => judge'.seen.faults < MaxFaults
    BY <2>1, <2>2, <2>3
  <2> QED  BY <1>8, <2>4 DEF ReadRow, HealthInv, RowsInv, AlertsMatchEpisodes
<1>9. CASE CommitVerdict
  BY <1>9, CommitVerdictStep
<1>10. CASE SecretMoves
  BY <1>10 DEF SecretMoves, HealthInv, RowsInv, AlertsMatchEpisodes
<1>11. CASE UNCHANGED healthVars
  BY <1>11 DEF healthVars, HealthInv, RowsInv, AlertsMatchEpisodes
<1> QED  BY <1>1, <1>2, <1>3, <1>4, <1>5, <1>6, <1>7, <1>8, <1>9, <1>10, <1>11 DEF HealthNext

\* The columns, the poller's copy of them and the other session's are well formed, and
\* they agree with what was told, in every state of any trigger's health.
THEOREM HealthInvariance == HealthSpec => []HealthInv
<1> QED  BY HealthInitInv, HealthStep, PTL DEF HealthSpec

\* What the column holds outstanding is what the organisation was last told, and no
\* alert is repeated, unless a verdict was committed over a row that had changed.
THEOREM AlertsMatchEpisodesHolds == HealthSpec => []AlertsMatchEpisodes
<1>1. HealthInv => AlertsMatchEpisodes
  BY DEF HealthInv
<1> QED  BY <1>1, HealthInvariance, PTL

\* The notifications a pass leaves for the next one, attempt counts that have not
\* reached the limit, are no more than there were.
Attempts == Seq(0..MaxDeliveries - 1)

NoticePlaces == [i \in 1..Len(notices) |-> i]

LeftAfter(failed, left, i) ==
    IF i \in failed /\ notices[i] + 1 < MaxDeliveries THEN Append(left, notices[i] + 1) ELSE left

LeftStep(failed) ==
    [x \in Attempts \X (1..Len(notices)) |-> LeftAfter(failed, x[1], x[2])]

LEMMA AttemptsTyped ==
    ASSUME notices \in Attempts, NEW a \in Attempts, NEW i \in 1..Len(notices)
    PROVE  /\ notices[i] \in 0..MaxDeliveries - 1
           /\ notices[i] + 1 < MaxDeliveries =>
                /\ Append(a, notices[i] + 1) \in Attempts
                /\ Len(Append(a, notices[i] + 1)) = Len(a) + 1
<1>1. notices[i] \in 0..MaxDeliveries - 1
  BY ElementOfSeq DEF Attempts
<1>2. MaxDeliveries \in Nat
  BY TriggerHealthAssumption
<1> SUFFICES ASSUME notices[i] + 1 < MaxDeliveries
             PROVE  /\ Append(a, notices[i] + 1) \in Attempts
                    /\ Len(Append(a, notices[i] + 1)) = Len(a) + 1
  BY <1>1
<1>3. notices[i] + 1 \in 0..MaxDeliveries - 1
  BY <1>1, <1>2
<1> QED  BY <1>3, AppendProperties DEF Attempts

LEMMA LeftTyped ==
    ASSUME notices \in Attempts, NEW failed
    PROVE  \A a \in Attempts, i \in 1..Len(notices) : LeftAfter(failed, a, i) \in Attempts
  BY AttemptsTyped DEF LeftAfter

LEMMA UndeliveredGoes ==
    ASSUME notices \in Attempts, NEW failed
    PROVE  Reaches(Attempts, LeftStep(failed), <<>>, NoticePlaces, Undelivered(failed))
<1> DEFINE step == LeftStep(failed)
           n == Len(NoticePlaces)
<1>1. n \in Nat /\ DOMAIN NoticePlaces = 1..n /\ \A i \in 1..n : NoticePlaces[i] \in (1..Len(notices))
  BY LenProperties, ElementOfSeq DEF NoticePlaces
<1>2. \A a \in Attempts, b \in (1..Len(notices)) : LeftAfter(failed, a, b) \in Attempts
  BY LeftTyped
<1>3. step \in [Attempts \X (1..Len(notices)) -> Attempts]
  BY <1>2 DEF LeftStep
<1>4. \A a \in Attempts, b \in (1..Len(notices)) : step[<<a, b>>] = LeftAfter(failed, a, b)
  BY DEF LeftStep
<1> HIDE DEF step
<1>5. <<>> \in Attempts /\ NoticePlaces \in Seq((1..Len(notices)))
  BY DEF Attempts, NoticePlaces
<1>6. PICK g \in [SUBSET (1..n) -> Attempts] : Iterates(g, n, step, <<>>, NoticePlaces)
  BY <1>3, <1>5, FoldExists
<1> HIDE DEF n
<1>7. \A t \in SUBSET (1..n) : t # {} => Max(t) \in 1..n /\ t \ {Max(t)} \in SUBSET (1..n)
  BY <1>1, MaxInside
<1>8. \A t \in SUBSET (1..n) :
         g[t] = IF t = {} THEN <<>> ELSE LeftAfter(failed, g[t \ {Max(t)}], NoticePlaces[Max(t)])
  BY <1>1, <1>4, <1>6, <1>7 DEF Iterates
<1> DEFINE Solved(f) == f = [t \in SUBSET (1..n) |->
                               IF t = {} THEN <<>> ELSE LeftAfter(failed, f[t \ {Max(t)}], NoticePlaces[Max(t)])]
           iter == CHOOSE f : Solved(f)
<1>9. Solved(g)
  BY <1>6, <1>8
<1>10. Solved(iter)
  <2> HIDE DEF Solved
  <2> QED  BY <1>9
<1>11. Undelivered(failed) = iter[1..n]
  BY <1>1 DEF Undelivered, LeftAfter, NoticePlaces, FoldLeft, MapThenFoldSet
<1>12. Recurs(iter, Attempts, n, step, <<>>, NoticePlaces)
  <2> HIDE DEF iter
  <2> QED  BY <1>1, <1>4, <1>7, <1>10 DEF Recurs
<1> HIDE DEF iter
<1>13. Reaches(Attempts, step, <<>>, NoticePlaces, iter[1..n])
  BY <1>3, <1>5, <1>12, FoldReaches DEF n
<1> QED  BY <1>11, <1>13 DEF step

LEMMA UndeliveredTyped ==
    ASSUME notices \in Attempts, NEW failed
    PROVE  Undelivered(failed) \in Attempts /\ Len(Undelivered(failed)) <= Len(notices)
<1> DEFINE q == NoticePlaces
           none == <<>>
           step == LeftStep(failed)
           I == {x \in Nat \X Attempts : Len(x[2]) <= x[1]}
<1>1. /\ q \in Seq(1..Len(notices)) /\ Len(q) = Len(notices) /\ Len(notices) \in Nat
      /\ \A i \in 1..Len(notices) : q[i] = i
  BY LenProperties DEF NoticePlaces, Attempts
<1>2. none \in Attempts /\ Len(none) = 0
  BY DEF Attempts
<1>3. Reaches(Attempts, step, none, q, Undelivered(failed))
  BY UndeliveredGoes
<1>4. step \in [Attempts \X (1..Len(notices)) -> Attempts]
  BY LeftTyped DEF LeftStep
<1>5. Lasts(I, Attempts, step, q)
  <2> SUFFICES ASSUME NEW i \in 1..Len(q), NEW a \in Attempts, <<i - 1, a>> \in I
               PROVE  <<i, step[<<a, q[i]>>]>> \in I
    BY DEF Lasts
  <2>1. i \in 1..Len(notices) /\ i \in Nat /\ q[i] = i
    BY <1>1
  <2>2. Len(a) <= i - 1 /\ Len(a) \in Nat
    BY LenProperties DEF Attempts
  <2>3. step[<<a, i>>] = IF i \in failed /\ notices[i] + 1 < MaxDeliveries
                         THEN Append(a, notices[i] + 1) ELSE a
    BY <2>1 DEF LeftStep, LeftAfter
  <2>4. step[<<a, i>>] \in Attempts /\ Len(step[<<a, i>>]) <= i
    BY <2>1, <2>2, <2>3, AttemptsTyped
  <2> HIDE DEF step, q
  <2> QED  BY <2>1, <2>4
<1>6. <<0, none>> \in I
  <2> HIDE DEF none
  <2> QED  BY <1>2
<1>7. Undelivered(failed) \in Attempts /\ <<Len(q), Undelivered(failed)>> \in I
  <2> DEFINE places == 1..Len(notices)
             last == Undelivered(failed)
  <2>1. q \in Seq(places) /\ step \in [Attempts \X places -> Attempts]
    BY <1>1, <1>4
  <2> HIDE DEF q, none, step, I, places, last
  <2>2. Reaches(Attempts, step, none, q, last) /\ <<0, none>> \in I /\ Lasts(I, Attempts, step, q)
    BY <1>3, <1>5, <1>6 DEF last
  <2>3. none \in Attempts
    BY <1>2
  <2>4. last \in Attempts /\ <<Len(q), last>> \in I
    BY <2>1, <2>2, <2>3, FoldKeeps
  <2> QED  BY <2>4 DEF last
<1> HIDE DEF q
<1> QED  BY <1>1, <1>7

\* The notices are no more than fit, at every step.
NoticesTyped ==
    /\ notices \in Attempts /\ Len(notices) <= MaxNotices
    /\ secret \in {"far", "near", "announced"}

LEMMA RaiseTyped ==
    ASSUME NoticesTyped, Len(notices) < MaxNotices, Raise
    PROVE  notices' \in Attempts /\ Len(notices') <= MaxNotices
<1>1. 0 \in 0..MaxDeliveries - 1 /\ MaxNotices \in Nat
  BY TriggerHealthAssumption
<1>2. notices' \in Attempts /\ Len(notices') = Len(notices) + 1 /\ Len(notices) \in Nat
  BY <1>1, AppendProperties, LenProperties DEF Attempts, NoticesTyped, Raise
<1> QED  BY <1>1, <1>2

LEMMA CommitRaises ==
    ASSUME NoticesTyped, NEW d, NEW b, CommitDecision(d, b)
    PROVE  notices' \in Attempts /\ Len(notices') <= MaxNotices
<1>1. CASE d.say = Nothing
  BY <1>1 DEF CommitDecision, NoticesTyped
<1>2. CASE d.say # Nothing
  BY <1>2, RaiseTyped DEF CommitDecision
<1> QED  BY <1>1, <1>2

LEMMA NoticesStep == NoticesTyped /\ [HealthNext]_healthVars => NoticesTyped'
<1> SUFFICES ASSUME NoticesTyped, [HealthNext]_healthVars PROVE NoticesTyped'
  OBVIOUS
<1>1. CASE UNCHANGED <<notices, secret>>
  BY <1>1 DEF NoticesTyped
<1>2. ASSUME UNCHANGED secret, NEW d, NEW b, CommitDecision(d, b)
      PROVE  NoticesTyped'
  BY <1>2, CommitRaises DEF NoticesTyped
<1>3. CASE LoadTriggers \/ EndPass \/ ReadRow \/ UNCHANGED healthVars
  BY <1>1, <1>3 DEF LoadTriggers, EndPass, ReadRow, healthVars
<1>4. ASSUME NEW verdict, NEW next, PollVerdict(verdict, next)
      PROVE  NoticesTyped'
  BY <1>2, <1>4 DEF PollVerdict
<1>5. CASE ReleaseStale \/ CheckMailbox
  BY <1>1, <1>4, <1>5 DEF ReleaseStale, CheckMailbox
<1>6. CASE ApplyBacklogHealth
  BY <1>1, <1>2, <1>6 DEF ApplyBacklogHealth
<1>7. CASE SweepExpiry
  BY <1>7, RaiseTyped DEF SweepExpiry, NoticesTyped
<1>8. CASE Dispatch
  <2>1. PICK failed : notices' = Undelivered(failed)
    BY <1>8 DEF Dispatch
  <2>2. notices' \in Attempts /\ Len(notices') <= Len(notices)
    BY <2>1, UndeliveredTyped DEF NoticesTyped
  <2>3. Len(notices) \in Nat /\ Len(notices') \in Nat /\ MaxNotices \in Nat /\ UNCHANGED secret
    BY <1>8, <2>2, LenProperties, TriggerHealthAssumption DEF Dispatch, NoticesTyped, Attempts
  <2> QED  BY <2>2, <2>3 DEF NoticesTyped
<1>9. CASE CommitVerdict
  BY <1>2, <1>9 DEF CommitVerdict
<1>10. CASE SecretMoves
  BY <1>10 DEF SecretMoves, NoticesTyped
<1> QED  BY <1>3, <1>5, <1>6, <1>7, <1>8, <1>9, <1>10 DEF HealthNext

\* Every column, copy and notice of a trigger's health has its type.
THEOREM HealthTypeCorrect == HealthSpec => []HealthTypeOK
<1>1. HealthInit => NoticesTyped
  BY TriggerHealthAssumption DEF HealthInit, NoticesTyped, Attempts
<1>2. HealthInv /\ NoticesTyped => HealthTypeOK
  BY DEF HealthInv, RowsInv, NoticesTyped, Attempts, HealthTypeOK
<1> QED  BY <1>1, <1>2, NoticesStep, HealthInvariance, PTL DEF HealthSpec

----------------------------------------------------------------------------
(* Serving.                                                                *)

\* A step of a run at work is a step of the component in focus, and the others stay as
\* they are: a behaviour of Serving is a behaviour of each of these.
THEOREM ServingImplementsItsParts ==
    ServingSpec => StreamSpec /\ TurnSpec /\ ShareSpec /\ ChunkSpec /\ HealthSpec
<1>1. ServingInit => StreamInit /\ TurnInit /\ ShareInit /\ ChunkInit /\ HealthInit
  BY DEF ServingInit
<1>2. [ServingNext]_servingVars =>
        /\ [StreamNext]_streamVars /\ [TurnNext]_turnVars /\ [ShareNext]_chatVars
        /\ [ChunkNext]_chunkVars /\ [HealthNext]_healthVars
  BY DEF ServingNext, servingVars
<1> QED
  BY <1>1, <1>2, PTL DEF ServingSpec, StreamSpec, TurnSpec, ShareSpec, ChunkSpec, HealthSpec

\* Every variable of every component has its type at every step of a run at work.
THEOREM ServingTypeCorrect == ServingSpec => []ServingTypeOK
<1>1. StreamTypeOK /\ TurnTypeOK /\ ShareTypeOK /\ ChunkTypeOK /\ HealthTypeOK => ServingTypeOK
  BY DEF ServingTypeOK
<1> QED
  BY <1>1, ServingImplementsItsParts, StreamTypeCorrect, TurnTypeCorrect, ShareTypeCorrect,
     ChunkTypeCorrect, HealthTypeCorrect, PTL
=============================================================================
