------------------------------ MODULE ShareChat ------------------------------
(***************************************************************************)
(* The anonymous chat behind one share link: visitors' sends, the link's   *)
(* and the session's daily counters, the transcript and the run that       *)
(* answers a turn.                                                         *)
(*                                                                         *)
(* A step ends where the code commits, or takes or leaves a session's      *)
(* lock.  The clock is read once per claim, before its first statement.    *)
(***************************************************************************)
EXTENDS Naturals, FiniteSets

CONSTANTS
    Tabs,          \* request threads: browser tabs that send
    Sessions,      \* share_sessions rows that can ever be created
    LinkCap,       \* the highest daily_cap, of the link and of each of its sessions
    MaxTurn,       \* bound: turn numbers
    LastDay,       \* bound: days
    MaxChatFaults  \* bound: failed commits, lost replies, restarts and changes of the link

ASSUME ShareAssumption ==
    /\ LinkCap \in Nat \ {0} /\ MaxTurn \in Nat /\ LastDay \in Nat \ {0} /\ MaxChatFaults \in Nat
    /\ "free" \notin Tabs

VARIABLES
    link,      \* the share_links row: active, daily_cap, expires_at, and its counter
    visit,     \* the share_sessions rows
    message,   \* share_messages: who wrote a turn of a session, if anybody
    latch,     \* _session_locks: the tab that holds a session's lock
    tab,       \* the requests
    reply,     \* the run of a user's turn
    today, faults,
    \* history
    asked,     \* a session's user turns committed, by the day they were charged to
    askedAll,  \* the same of all the link's sessions together
    spilled,   \* turns claimed that a fault kept from being refunded or used
    straddled  \* a day began while a send was between its claims

chatVars == <<link, visit, message, latch, tab, reply, today, faults, asked, askedAll, spilled,
              straddled>>

Turns == 1..MaxTurn
Nobody == "nobody"

TabStates ==
    [pc : {"idle", "rollLink", "claimLink", "openSession", "lock", "claimSession", "append",
           "giveBack", "commitRun", "submit"},
     session : Sessions \cup {"none"}, day : 0..LastDay, turn : 0..MaxTurn, cap : 0..LinkCap]

NoTab == [pc |-> "idle", session |-> "none", day |-> 0, turn |-> 0, cap |-> 0]

Exists(s) == visit[s].exists

\* list_messages, next_turn_number, _has_pending_turn
LastTurn(s) == CHOOSE n \in 0..MaxTurn :
    /\ n > 0 => message[s][n] # Nobody
    /\ \A m \in Turns : m > n => message[s][m] = Nobody

Pending(s) == LastTurn(s) > 0 /\ message[s][LastTurn(s)] = "user"

ShareInit ==
    /\ \E cap \in 1..LinkCap :
        link = [active |-> TRUE, cap |-> cap, until |-> LastDay, turns |-> 0, date |-> 0]
    /\ visit = [s \in Sessions |-> [exists |-> FALSE, turns |-> 0, date |-> 0]]
    /\ message = [s \in Sessions |-> [n \in Turns |-> Nobody]]
    /\ latch = [s \in Sessions |-> "free"]
    /\ tab = [c \in Tabs |-> NoTab]
    /\ reply = [s \in Sessions |-> [n \in Turns |-> "none"]]
    /\ today = 1 /\ faults = 0
    /\ asked = [s \in Sessions |-> [d \in 1..LastDay |-> 0]]
    /\ askedAll = [d \in 1..LastDay |-> 0]
    /\ spilled = FALSE /\ straddled = FALSE

ShareTypeOK ==
    /\ link \in [active : BOOLEAN, cap : 1..LinkCap, until : 0..LastDay,
                turns : 0..LinkCap, date : 0..LastDay]
    /\ visit \in [Sessions -> [exists : BOOLEAN, turns : 0..LinkCap, date : 0..LastDay]]
    /\ message \in [Sessions -> [Turns -> {"user", "assistant", Nobody}]]
    /\ latch \in [Sessions -> Tabs \cup {"free"}]
    /\ tab \in [Tabs -> TabStates]
    /\ reply \in [Sessions -> [Turns -> {"none", "submitted", "settled", "over"}]]
    /\ today \in 1..LastDay /\ faults \in 0..MaxChatFaults
    /\ asked \in [Sessions -> [1..LastDay -> Nat]] /\ askedAll \in [1..LastDay -> Nat]
    /\ spilled \in BOOLEAN /\ straddled \in BOOLEAN

----------------------------------------------------------------------------
(* try_consume_link_turn and try_consume_turn: a guarded rollover, then a  *)
(* conditional increment.                                                  *)

RolledOver(row, day) == IF row.date # day THEN [row EXCEPT !.turns = 0, !.date = day] ELSE row

BelowCapOrAt(row, cap) == row.turns <= cap
BelowCap(row, cap) == row.turns < cap

Claimed(row) == [row EXCEPT !.turns = @ + 1]

\* _refund_link_turn, and the same statement for a session.
RefundNothing(row) == row
Refunded(row) == IF row.turns > 0 THEN [row EXCEPT !.turns = @ - 1] ELSE row

Goes(c, pc) == tab' = [tab EXCEPT ![c].pc = pc]

Fault == faults < MaxChatFaults /\ faults' = faults + 1

chatRest == <<today, faults, asked, askedAll, spilled, straddled>>

----------------------------------------------------------------------------
(* POST /api/share/{token}/messages.                                       *)

\* _is_expired: `until` is the last day a link serves.
Open == link.active /\ link.until >= today

\* The link, its organisation and its team are resolved; the request may carry a
\* session's cookie.  The cap it claims against is the one it has read.
Send(c) ==
    /\ tab[c].pc = "idle" /\ Open
    /\ \E s \in {"none"} \cup {q \in Sessions : Exists(q)} :
        tab' = [tab EXCEPT ![c] = [NoTab EXCEPT !.pc = "rollLink", !.session = s, !.day = today,
                                                !.cap = link.cap]]
    /\ UNCHANGED <<link, visit, message, latch, reply, chatRest>>

RollLink(c) ==
    /\ tab[c].pc = "rollLink"
    /\ link' = RolledOver(link, tab[c].day)
    /\ Goes(c, "claimLink")
    /\ UNCHANGED <<visit, message, latch, reply, chatRest>>

\* The row is read again after the claim, and with it the cap for the session's.
ClaimLink(c) ==
    /\ tab[c].pc = "claimLink"
    /\ IF BelowCap(link, tab[c].cap)
       THEN /\ link' = Claimed(link)
            /\ tab' = [tab EXCEPT ![c].pc = "openSession", ![c].day = 0, ![c].cap = link.cap]
       ELSE UNCHANGED link /\ tab' = [tab EXCEPT ![c] = NoTab]
    /\ UNCHANGED <<visit, message, latch, reply, chatRest>>

\* _get_or_create_session: which row a new session gets does not matter.
Unopened == {s \in Sessions : ~Exists(s)}

OpenSession(c) ==
    /\ tab[c].pc = "openSession"
    /\ IF tab[c].session # "none" THEN Goes(c, "lock") /\ UNCHANGED visit
       ELSE /\ Unopened # {}
            /\ LET s == CHOOSE s \in Unopened : TRUE IN
               /\ visit' = [visit EXCEPT ![s].exists = TRUE]
               /\ tab' = [tab EXCEPT ![c].pc = "lock", ![c].session = s]
    /\ UNCHANGED <<link, message, latch, reply, chatRest>>

\* with _session_lock(session.id): nobody else's send gets past here, so what
\* follows under the lock is one step up to each commit.
LatchIgnored(s) == TRUE
LatchOpen(s) == latch[s] = "free"

Lock(c) ==
    LET s == tab[c].session IN
    /\ tab[c].pc = "lock" /\ LatchOpen(s)
    /\ latch' = [latch EXCEPT ![s] = c]
    /\ Goes(c, IF Pending(s) THEN "giveBack" ELSE "claimSession")
    /\ UNCHANGED <<link, visit, message, reply, chatRest>>

ClaimSession(c) ==
    LET s == tab[c].session
        row == RolledOver(visit[s], today)
    IN
    /\ tab[c].pc = "claimSession"
    /\ IF BelowCap(row, tab[c].cap)
       THEN /\ visit' = [visit EXCEPT ![s] = Claimed(row)]
            /\ tab' = [tab EXCEPT ![c].pc = "append", ![c].day = today, ![c].cap = 0]
       ELSE /\ visit' = [visit EXCEPT ![s] = row]
            /\ Goes(c, "giveBack")
    /\ UNCHANGED <<link, message, latch, reply, chatRest>>

Unlatched(c) == [s \in Sessions |-> IF latch[s] = c THEN "free" ELSE latch[s]]

\* A send that is rejected under the lock costs the link nothing.
GiveBack(c) ==
    /\ tab[c].pc = "giveBack"
    /\ link' = Refunded(link)
    /\ latch' = Unlatched(c)
    /\ tab' = [tab EXCEPT ![c] = NoTab]
    /\ UNCHANGED <<visit, message, reply, chatRest>>

\* append_message: a turn number that is taken violates the unique constraint,
\* and both claims are refunded.
AppendTurn(c) ==
    LET s == tab[c].session
        n == LastTurn(s) + 1
    IN
    /\ tab[c].pc = "append" /\ n <= MaxTurn
    /\ message' = [message EXCEPT ![s][n] = "user"]
    /\ asked' = [asked EXCEPT ![s][tab[c].day] = @ + 1]
    /\ askedAll' = [askedAll EXCEPT ![tab[c].day] = @ + 1]
    /\ latch' = Unlatched(c)
    /\ tab' = [tab EXCEPT ![c].pc = "commitRun", ![c].day = 0, ![c].turn = n]
    /\ UNCHANGED <<link, visit, reply, today, faults, spilled, straddled>>

\* The run row; nothing handles a failure of this commit.
CommitRun(c) ==
    LET s == tab[c].session IN
    /\ tab[c].pc = "commitRun"
    /\ \/ /\ Goes(c, "submit")
          /\ UNCHANGED faults
       \/ /\ Fault
          /\ tab' = [tab EXCEPT ![c] = NoTab]
    /\ UNCHANGED <<link, visit, message, latch, reply, today, asked, askedAll, spilled, straddled>>

\* record_share_reply: the first reply of a turn wins.
WithReply(s, n) == IF message[s][n + 1] = Nobody THEN [message EXCEPT ![s][n + 1] = "assistant"]
                   ELSE message

RepliedNever(s, n) == message
RepliedOnRefusal(s, n) == WithReply(s, n)

\* The executor takes the run, or refuses it: then the fallback reply is recorded
\* here, and the turn stays charged.
Submit(c) ==
    LET s == tab[c].session
        n == tab[c].turn
    IN
    /\ tab[c].pc = "submit" /\ n < MaxTurn
    /\ \/ /\ reply' = [reply EXCEPT ![s][n] = "submitted"]
          /\ UNCHANGED message
       \/ /\ message' = RepliedOnRefusal(s, n)
          /\ reply' = [reply EXCEPT ![s][n] = "over"]
    /\ tab' = [tab EXCEPT ![c] = NoTab]
    /\ UNCHANGED <<link, visit, latch, chatRest>>

----------------------------------------------------------------------------
(* The worker, and the world.                                              *)

\* run_in_background commits the terminal status, completed, failed, cancelled or
\* caught, before it records the reply.
SettleRun(s, n) ==
    /\ reply[s][n] = "submitted"
    /\ reply' = [reply EXCEPT ![s][n] = "settled"]
    /\ UNCHANGED <<link, visit, message, latch, tab, chatRest>>

\* _safe_record_share_reply: three attempts, then the turn stays unanswered.
RecordReply(s, n) ==
    /\ reply[s][n] = "settled"
    /\ reply' = [reply EXCEPT ![s][n] = "over"]
    /\ \/ message' = WithReply(s, n) /\ UNCHANGED faults
       \/ Fault /\ UNCHANGED message
    /\ UNCHANGED <<link, visit, latch, tab, today, asked, askedAll, spilled, straddled>>

\* patch_share_link: the requests under way keep the cap they read.
PatchLink ==
    /\ Fault
    /\ \E active \in BOOLEAN, cap \in 1..LinkCap, until \in 0..LastDay :
        link' = [link EXCEPT !.active = active, !.cap = cap, !.until = until]
    /\ UNCHANGED <<visit, message, latch, tab, reply, today, asked, askedAll, spilled, straddled>>

\* The tabs that hold a claim on the link's counter with nothing to show for it.
Claiming == {c \in Tabs : tab[c].pc \in {"openSession", "lock", "claimSession",
                                         "append", "giveBack"}}

\* Past the rollover, a claim and its refund meet the counter of whatever day the
\* row is at.
Midnight ==
    /\ today < LastDay /\ today' = today + 1
    /\ straddled' = (straddled \/ \E c \in Tabs : tab[c].pc \in {"rollLink", "claimLink"} \/ c \in Claiming)
    /\ UNCHANGED <<link, visit, message, latch, tab, reply, faults, asked, askedAll, spilled>>

\* A restart forgets the requests, the locks and the workers.
RestartChat ==
    /\ Fault
    /\ spilled' = (spilled \/ Claiming # {})
    /\ tab' = [c \in Tabs |-> NoTab]
    /\ latch' = [s \in Sessions |-> "free"]
    /\ reply' = [s \in Sessions |-> [n \in Turns |-> IF reply[s][n] = "none" THEN "none" ELSE "over"]]
    /\ UNCHANGED <<link, visit, message, today, asked, askedAll, straddled>>

ShareNext ==
    \/ \E c \in Tabs :
        \/ Send(c) \/ RollLink(c) \/ ClaimLink(c) \/ OpenSession(c) \/ Lock(c)
        \/ ClaimSession(c) \/ GiveBack(c) \/ AppendTurn(c) \/ CommitRun(c) \/ Submit(c)
    \/ \E s \in Sessions, n \in Turns : SettleRun(s, n) \/ RecordReply(s, n)
    \/ PatchLink \/ Midnight \/ RestartChat

ShareSpec == ShareInit /\ [][ShareNext]_chatVars

----------------------------------------------------------------------------
(* Properties.                                                             *)

\* A transcript is questions and answers in turn, one question open at most,
\* however many tabs of a visitor send at once (share_chat.py _session_locks).
TranscriptAlternates ==
    \A s \in Sessions : \A n \in 1..LastTurn(s) :
        message[s][n] = IF n % 2 = 1 THEN "user" ELSE "assistant"

\* The counters are exact: the link has been charged for the turns its visitors
\* asked today and for the sends still undecided, and for nothing else, whichever
\* way a send was rejected; and so has each session.  A request that began before
\* midnight and claims after it is the overshoot share_sessions.py accepts.
TurnsAreCharged ==
    (~straddled /\ ~spilled) =>
        /\ link.date > 0 =>
            link.turns = askedAll[link.date] + Cardinality(Claiming)
        /\ \A s \in Sessions : visit[s].date > 0 =>
            visit[s].turns = asked[s][visit[s].date]
                + Cardinality({c \in Tabs : tab[c].session = s /\ tab[c].pc = "append"})

\* A question without an answer has a request or a run at work that will answer
\* it, or it met a fault: no rejected, refused, failed or cancelled turn leaves
\* the session closed for ever (_has_pending_turn).
AtWork(s) ==
    \/ \E c \in Tabs : tab[c].session = s /\ tab[c].pc \in {"commitRun", "submit"}
    \/ \E n \in Turns : reply[s][n] \in {"submitted", "settled"}

OpenTurnIsServed == \A s \in Sessions : Pending(s) /\ ~AtWork(s) => faults > 0

\* "This must be called on every terminal path so a share session's 'last message
\* is still unanswered' guard never wedges a visitor's chat shut after a failure"
\* (share_transcript.py:26): a restart is such a path.
SessionStaysOpen == \A s \in Sessions : Pending(s) => AtWork(s)
==============================================================================
