-------------------------------- MODULE Login --------------------------------
(***************************************************************************)
(* One member account: logging in under the throttle, changing the         *)
(* password, and what an operator does to the account meanwhile.           *)
(*                                                                         *)
(* The routes run in a thread pool.  LoginRateLimiter is atomic under its  *)
(* own lock; everything else is one database read or one commit, with a    *)
(* slow password hash between them.                                        *)
(***************************************************************************)
EXTENDS Naturals, FiniteSets, SequencesExt

CONSTANTS
    Attempts,       \* requests that may be in flight at once
    UserLimit, AddressLimit,
    Window,         \* window_seconds, in ticks
    TokenLife,      \* ACCESS_TOKEN_EXPIRE_MINUTES, in ticks
    MaxTime,        \* bound: ticks
    MaxStamps,      \* bound: security stamps ever drawn
    MaxTries        \* bound: requests

ASSUME LoginAssumption ==
    /\ UserLimit \in Nat \ {0} /\ AddressLimit \in Nat \ {0} /\ Window \in Nat \ {0}
    /\ TokenLife \in Nat /\ MaxTime \in Nat /\ MaxStamps \in Nat \ {0} /\ MaxTries \in Nat

VARIABLES
    now,
    failures,   \* LoginRateLimiter._failures: key -> times, oldest first
    member,     \* the User row; id survives a rotation, not a deletion
    orgActive,  \* per organization
    attempt,
    tokens,     \* access tokens handed out, each with the password it was obtained with
    drawn,      \* security stamps drawn so far
    tries,
    guesses     \* history: per name, when attempts were admitted since its last success

loginVars == <<now, failures, member, orgActive, attempt, tokens, drawn, tries, guesses>>

Passwords == {"p", "q"}
Organizations == {"home", "other"}
Names == {"member", "nobody"}
Keys == Names \cup {"address"}

LimitFor(k) == IF k = "address" THEN AddressLimit ELSE UserLimit

NoAttempt == [pc |-> "idle", kind |-> "login", name |-> "nobody", given |-> "p", new |-> "p",
              seen |-> [exists |-> FALSE, id |-> 0, org |-> "home", password |-> "p", stamp |-> 0]]

LoginInit ==
    /\ now = 0 /\ failures = [k \in Keys |-> <<>>] /\ orgActive = [o \in Organizations |-> TRUE]
    /\ member = [exists |-> TRUE, id |-> 1, org |-> "home", password |-> "p", stamp |-> 1]
    /\ attempt = [a \in Attempts |-> NoAttempt] /\ tokens = {} /\ drawn = 1 /\ tries = 0
    /\ guesses = [n \in Names |-> <<>>]

Row == [exists : BOOLEAN, id : 0 .. 2, org : Organizations, password : Passwords, stamp : 0 .. MaxStamps]

AttemptStates == [pc : {"idle", "asked", "reserved", "matched"}, kind : {"login", "change"},
                  name : Names, given : Passwords, new : Passwords, seen : Row]

LoginTypeOK ==
    /\ now \in 0 .. MaxTime /\ drawn \in 1 .. MaxStamps /\ tries \in 0 .. MaxTries /\ orgActive \in [Organizations -> BOOLEAN]
    /\ member \in Row
    /\ attempt \in [Attempts -> AttemptStates]
    /\ tokens \subseteq [password : Passwords, stamp : 0 .. MaxStamps, exp : 0 .. MaxTime + TokenLife]
    /\ guesses \in [Names -> Seq(0 .. MaxTime)] /\ failures \in [Keys -> Seq(0 .. MaxTime)]
    /\ \A k \in Keys : /\ Len(failures[k]) <= LimitFor(k)
                       /\ \A i \in 1 .. Len(failures[k]) - 1 : failures[k][i] <= failures[k][i + 1]

----------------------------------------------------------------------------
(* The throttle.                                                           *)

\* Faulty: the oldest failure leaves the window one tick early.
InsideByOne(t) == t + Window > now + 1

Inside(t) == t + Window > now

\* Failures are dropped from the left until one is inside.
Prune(k) ==
    LET past == CHOOSE n \in 0 .. Len(failures[k]) :
                  /\ \A i \in 1 .. n : ~Inside(failures[k][i])
                  /\ n < Len(failures[k]) => Inside(failures[k][n + 1])
    IN  SubSeq(failures[k], past + 1, Len(failures[k]))

KeysOf(a) == {attempt[a].name, "address"}

\* reserve: the attempt is counted in the step that admits it, or refused (429) and not counted.
Reserve(a) ==
    /\ attempt[a].pc = "asked"
    /\ IF \A k \in KeysOf(a) : Len(Prune(k)) < LimitFor(k)
       THEN /\ failures' = [k \in Keys |-> IF k \in KeysOf(a) THEN Append(Prune(k), now) ELSE failures[k]]
            /\ guesses' = [guesses EXCEPT ![attempt[a].name] = Append(@, now)]
            /\ attempt' = [attempt EXCEPT ![a].pc = "reserved"]
       ELSE /\ failures' = [k \in Keys |-> IF k \in KeysOf(a) THEN Prune(k) ELSE failures[k]]
            /\ attempt' = [attempt EXCEPT ![a] = NoAttempt]
            /\ UNCHANGED guesses
    /\ UNCHANGED <<now, member, orgActive, tokens, drawn, tries>>

\* record_success: the name is forgiven outright, the address gets its newest slot back.
Forgiven(a) ==
    [failures EXCEPT ![attempt[a].name] = <<>>,
                     !["address"] = IF @ = <<>> THEN @ ELSE Front(@)]

----------------------------------------------------------------------------
(* Requests.                                                               *)

\* get_current_user lets the token in.
Admits(t) ==
    member.exists /\ now <= t.exp /\ t.stamp = member.stamp /\ orgActive[member.org]

AskLogin(a) ==
    /\ attempt[a].pc = "idle" /\ tries < MaxTries /\ tries' = tries + 1
    /\ \E n \in Names, p \in Passwords :
         /\ n = "nobody" => p = "p"
         /\ attempt' = [attempt EXCEPT ![a] = [NoAttempt EXCEPT !.pc = "asked", !.name = n, !.given = p]]
    /\ UNCHANGED <<now, failures, member, orgActive, tokens, drawn, guesses>>

\* get_current_user loads the row the handler will check and write.
AskPassword(a) ==
    /\ attempt[a].pc = "idle" /\ tries < MaxTries /\ tries' = tries + 1
    /\ \E t \in tokens : Admits(t)
    /\ \E p \in Passwords, q \in Passwords :
         attempt' = [attempt EXCEPT ![a] = [pc |-> "asked", kind |-> "change", name |-> "member",
                                            given |-> p, new |-> q, seen |-> member]]
    /\ UNCHANGED <<now, failures, member, orgActive, tokens, drawn, guesses>>

\* The hash a login compares is read now; the one a change compares was read before.
Verify(a) ==
    /\ attempt[a].pc = "reserved"
    /\ LET row == IF attempt[a].kind = "change" THEN attempt[a].seen
                  ELSE IF attempt[a].name = "member" THEN member ELSE [member EXCEPT !.exists = FALSE]
       IN attempt' = [attempt EXCEPT ![a] = IF row.exists /\ row.password = attempt[a].given
                                            THEN [@ EXCEPT !.pc = "matched", !.seen = row] ELSE NoAttempt]
    /\ UNCHANGED <<now, failures, member, orgActive, tokens, drawn, guesses, tries>>

\* Faulty: the stamp is read again when the token is made.
StampNow(a) == member.stamp

\* The stamp that goes into the token: of the row whose hash was compared.
TokenStamp(a) == attempt[a].seen.stamp

Token(password, stamp) == [password |-> password, stamp |-> stamp, exp |-> now + TokenLife]

Forgive(a) ==
    /\ failures' = Forgiven(a) /\ guesses' = [guesses EXCEPT ![attempt[a].name] = <<>>]
    /\ attempt' = [attempt EXCEPT ![a] = NoAttempt]

FinishLogin(a) ==
    /\ attempt[a].pc = "matched" /\ attempt[a].kind = "login"
    /\ Forgive(a)
    /\ tokens' = IF orgActive[attempt[a].seen.org] THEN tokens \cup {Token(attempt[a].given, TokenStamp(a))} ELSE tokens
    /\ UNCHANGED <<now, member, orgActive, drawn, tries>>

\* One UPDATE by id writes hash and stamp; it fails (500) when the row is gone.
FinishChange(a) ==
    /\ attempt[a].pc = "matched" /\ attempt[a].kind = "change"
    /\ Forgive(a)
    /\ \/ /\ drawn < MaxStamps /\ drawn' = drawn + 1
          /\ member.exists /\ member.id = attempt[a].seen.id
          /\ member' = [member EXCEPT !.password = attempt[a].new, !.stamp = drawn + 1]
          /\ tokens' = tokens \cup {Token(attempt[a].new, drawn + 1)}
       \/ \* the new password is too short, or the account was deleted
          UNCHANGED <<member, tokens, drawn>>
    /\ UNCHANGED <<now, orgActive, tries>>

----------------------------------------------------------------------------
(* The operator, and time.                                                 *)

ResetMember ==
    /\ member.exists /\ drawn < MaxStamps /\ drawn' = drawn + 1
    /\ \E p \in Passwords : member' = [member EXCEPT !.password = p, !.stamp = drawn + 1]
    /\ UNCHANGED <<now, failures, orgActive, attempt, tokens, guesses, tries>>

DeleteMember ==
    /\ member.exists /\ member' = [member EXCEPT !.exists = FALSE]
    /\ UNCHANGED <<now, failures, orgActive, attempt, tokens, drawn, guesses, tries>>

\* The database may hand the deleted row's id out again.
CreateMember ==
    /\ ~member.exists /\ drawn < MaxStamps /\ drawn' = drawn + 1
    /\ \E p \in Passwords, i \in {member.id, 2} :
         member' = [exists |-> TRUE, id |-> i, org |-> member.org, password |-> p, stamp |-> drawn + 1]
    /\ UNCHANGED <<now, failures, orgActive, attempt, tokens, guesses, tries>>

\* set_user_org: into an organization without a member; the stamp stays, so do the sessions.
MoveMember ==
    /\ member.exists
    /\ \E o \in Organizations \ {member.org} : member' = [member EXCEPT !.org = o]
    /\ UNCHANGED <<now, failures, orgActive, attempt, tokens, drawn, guesses, tries>>

SetOrgActive(o) ==
    /\ orgActive' = [orgActive EXCEPT ![o] = ~@]
    /\ UNCHANGED <<now, failures, member, attempt, tokens, drawn, guesses, tries>>

Tick ==
    /\ now < MaxTime /\ now' = now + 1
    /\ UNCHANGED <<failures, member, orgActive, attempt, tokens, drawn, guesses, tries>>

LoginNext ==
    \/ \E a \in Attempts : \/ AskLogin(a) \/ AskPassword(a) \/ Reserve(a) \/ Verify(a)
                           \/ FinishLogin(a) \/ FinishChange(a)
    \/ ResetMember \/ DeleteMember \/ CreateMember \/ MoveMember \/ Tick
    \/ \E o \in Organizations : SetOrgActive(o)

LoginSpec == LoginInit /\ [][LoginNext]_loginVars

----------------------------------------------------------------------------
(* Properties.                                                             *)

\* A session that is let in was obtained with the password the account has now:
\* a login that was comparing hashes while the password was reset, changed, or
\* the account deleted and created again, does not come out with a session that
\* works (User.security_stamp is drawn again with every new password).
SessionsFollowThePassword ==
    \A t \in tokens : Admits(t) => t.password = member.password

\* However the requests overlap, no more than UserLimit passwords are admitted
\* for one name inside a window that has no success in it (reserve counts in the
\* step that admits).
GuessesAreBounded ==
    \A n \in Names :
        Cardinality({i \in 1 .. Len(guesses[n]) : guesses[n][i] + Window > now}) <= UserLimit
=============================================================================
