----------------------------- MODULE LoginProofs -----------------------------
(***************************************************************************)
(* Theorems of Login for every number of requests, limits, windows, stamps *)
(* and ticks.                                                              *)
(***************************************************************************)
EXTENDS Login, FiniteSetTheorems, SequenceTheorems, WellFoundedInduction, TLAPS

----------------------------------------------------------------------------
\* The inductive invariant, by what each part is about.

\* A stamp stands for one password: what a token or a request carries under the
\* account's stamp is the account's password, and the next stamp is nobody's yet.
\* A request that matched was given the password it saw.
StampInv ==
    /\ member.stamp \in 1 .. drawn
    /\ \A t \in tokens :
         t.stamp <= drawn /\ (t.stamp = member.stamp => t.password = member.password)
    /\ \A a \in Attempts :
         LET seen == attempt[a].seen
         IN  /\ seen.stamp <= drawn /\ (seen.stamp = member.stamp => seen.password = member.password)
             /\ attempt[a].pc = "matched" => attempt[a].given = seen.password

\* Nothing was counted in the future.
PastInv == \A k \in Keys : \A i \in 1 .. Len(failures[k]) : failures[k][i] <= now

\* What the limiter remembers of a name is the guesses since the last success, without
\* some of the oldest, which the window has left behind.
GuessInv ==
    \A n \in Names :
        LET gone == Len(guesses[n]) - Len(failures[n])
        IN  /\ gone >= 0 /\ \A i \in 1 .. gone : guesses[n][i] + Window <= now
            /\ \A i \in 1 .. Len(failures[n]) : failures[n][i] = guesses[n][gone + i]

LoginInv == LoginTypeOK /\ StampInv /\ PastInv /\ GuessInv

----------------------------------------------------------------------------
\* The loop of _prune.

\* A non-empty set of numbers has a least one.
LEMMA LeastNumber ==
    ASSUME NEW T, T \subseteq Nat, T # {}
    PROVE  \E m \in T : \A k \in T : m <= k
<1>1. \E m \in T : \A k \in T : ~ (<<k, m>> \in OpToRel(<, Nat))
  BY WFMin, NatLessThanWellFounded
<1>2. \A k, m \in Nat : k < m => <<k, m>> \in OpToRel(<, Nat)
  BY DEF OpToRel
<1>3. PICK m \in T : \A k \in T : ~ (<<k, m>> \in OpToRel(<, Nat))
  BY <1>1
<1>4. \A k \in T : ~ (k < m)
  BY <1>2, <1>3
<1>5. \A k \in T : m <= k
  BY <1>4
<1> QED  BY <1>5

\* The loop stops: what it drops is a prefix the window has left, and it leaves nothing of it.
LEMMA PruneDrops ==
    ASSUME NEW k \in Keys, failures[k] \in Seq(Nat), now \in Nat
    PROVE  \E n \in 0 .. Len(failures[k]) :
             /\ \A i \in 1 .. n : failures[k][i] + Window <= now
             /\ Prune(k) = SubSeq(failures[k], n + 1, Len(failures[k]))
<1> DEFINE s == failures[k]
           Stops(n) == (\A i \in 1 .. n : ~Inside(s[i])) /\ (n < Len(s) => Inside(s[n + 1]))
           T == {n \in 0 .. Len(s) : n < Len(s) => Inside(s[n + 1])}
<1>1. Len(s) \in Nat /\ Len(s) \in T
  OBVIOUS
<1>2. PICK m \in T : \A n \in T : m <= n
  <2>1. T \subseteq Nat /\ T # {}
    BY <1>1
  <2> HIDE DEF T
  <2> QED  BY <2>1, LeastNumber
<1>3. Stops(m)
  <2> SUFFICES ASSUME NEW i \in 1 .. m, Inside(s[i]) PROVE FALSE
    BY <1>2
  <2>1. i - 1 \in T
    BY <1>1, <1>2
  <2>2. m \in Nat
    BY <1>1, <1>2
  <2>3. m <= i - 1
    <3> HIDE DEF T
    <3> QED  BY <1>2, <2>1
  <2> QED  BY <2>2, <2>3
<1>4. \E n \in 0 .. Len(s) : Stops(n)
  BY <1>2, <1>3
<1>5. PICK n \in 0 .. Len(s) : Stops(n) /\ Prune(k) = SubSeq(s, n + 1, Len(s))
  BY <1>4 DEF Prune
<1>6. \A i \in 1 .. n : s[i] + Window <= now
  <2> SUFFICES ASSUME NEW i \in 1 .. n PROVE s[i] + Window <= now
    OBVIOUS
  <2>1. ~Inside(s[i]) /\ s[i] \in Nat
    BY <1>1, <1>5
  <2> QED  BY <2>1, LoginAssumption DEF Inside
<1> QED  BY <1>5, <1>6

\* So what _prune leaves is a suffix, in order, of what it found.
LEMMA PruneTyped ==
    ASSUME LoginTypeOK, NEW k \in Keys
    PROVE  \E n \in 0 .. Len(failures[k]) :
             /\ \A i \in 1 .. n : failures[k][i] + Window <= now
             /\ Prune(k) \in Seq(0 .. MaxTime) /\ Len(Prune(k)) = Len(failures[k]) - n
             /\ \A i \in 1 .. Len(Prune(k)) : Prune(k)[i] = failures[k][n + i]
<1> DEFINE s == failures[k]
<1>1. s \in Seq(0 .. MaxTime) /\ now \in Nat
  BY LoginAssumption DEF LoginTypeOK
<1>2. s \in Seq(Nat) /\ Len(s) \in Nat
  <2>1. 0 .. MaxTime \subseteq Nat
    OBVIOUS
  <2> HIDE DEF s
  <2> QED  BY <1>1, <2>1, SeqMonotonic, LenProperties
<1>3. PICK n \in 0 .. Len(s) : /\ \A i \in 1 .. n : s[i] + Window <= now
                              /\ Prune(k) = SubSeq(s, n + 1, Len(s))
  BY <1>1, <1>2, PruneDrops
<1>4. /\ SubSeq(s, n + 1, Len(s)) \in Seq(0 .. MaxTime)
      /\ Len(SubSeq(s, n + 1, Len(s))) = Len(s) - n
      /\ \A i \in 1 .. Len(s) - n : SubSeq(s, n + 1, Len(s))[i] = s[n + i]
  <2>1. Len(s) \in Nat /\ \A i \in n + 1 .. Len(s) : s[i] \in 0 .. MaxTime
    <3>1. \A i \in 1 .. Len(s) : s[i] \in 0 .. MaxTime
      BY <1>1, ElementOfSeq
    <3> QED  BY <1>2, <3>1
  <2> HIDE DEF s
  <2>2. /\ SubSeq(s, n + 1, Len(s)) \in Seq(0 .. MaxTime)
        /\ Len(SubSeq(s, n + 1, Len(s))) = IF n + 1 <= Len(s) THEN Len(s) - (n + 1) + 1 ELSE 0
        /\ \A i \in 1 .. Len(s) - (n + 1) + 1 : SubSeq(s, n + 1, Len(s))[i] = s[n + 1 + i - 1]
    BY <2>1, SubSeqProperties
  <2> QED  BY <2>1, <2>2
<1> QED  BY <1>3, <1>4

\* What a request does to what is remembered of one key.
KeyMove(k) ==
    \/ failures'[k] = failures[k] \/ failures'[k] = <<>> \/ failures'[k] = Prune(k)
    \/ Len(Prune(k)) < LimitFor(k) /\ failures'[k] = Append(Prune(k), now)
    \/ failures[k] # <<>> /\ failures'[k] = Front(failures[k])

LEMMA KeyTyped ==
    ASSUME LoginTypeOK, PastInv, NEW k \in Keys, KeyMove(k)
    PROVE  /\ failures'[k] \in Seq(0 .. MaxTime) /\ Len(failures'[k]) <= LimitFor(k)
           /\ \A i \in 1 .. Len(failures'[k]) - 1 : failures'[k][i] <= failures'[k][i + 1]
           /\ \A i \in 1 .. Len(failures'[k]) : failures'[k][i] <= now
<1> DEFINE s == failures[k]
           t == failures'[k]
           Good(u) == /\ u \in Seq(0 .. MaxTime) /\ Len(u) <= LimitFor(k)
                      /\ \A i \in 1 .. Len(u) - 1 : u[i] <= u[i + 1]
                      /\ \A i \in 1 .. Len(u) : u[i] <= now
<1>1. Good(s) /\ now \in 0 .. MaxTime /\ LimitFor(k) \in Nat /\ Len(s) \in Nat
  BY LoginAssumption DEF LoginTypeOK, PastInv, LimitFor
<1>2. \A i \in 1 .. Len(s) : s[i] \in 0 .. MaxTime
  BY <1>1, ElementOfSeq
<1>3. Good(<<>>)
  BY <1>1
<1>4. Good(Prune(k)) /\ Len(Prune(k)) \in Nat
  <2>1. PICK n \in 0 .. Len(s) :
          /\ Prune(k) \in Seq(0 .. MaxTime) /\ Len(Prune(k)) = Len(s) - n
          /\ \A i \in 1 .. Len(Prune(k)) : Prune(k)[i] = s[n + i]
    BY PruneTyped
  <2> HIDE DEF s
  <2>2. \A i \in 1 .. Len(Prune(k)) - 1 :
          /\ n + i \in 1 .. Len(s) - 1 /\ i \in 1 .. Len(Prune(k)) /\ i + 1 \in 1 .. Len(Prune(k))
          /\ n + (i + 1) = (n + i) + 1
    BY <1>1, <2>1
  <2>3. \A i \in 1 .. Len(Prune(k)) : n + i \in 1 .. Len(s)
    BY <1>1, <2>1
  <2>4. \A i \in 1 .. Len(Prune(k)) - 1 : Prune(k)[i] <= Prune(k)[i + 1]
    BY <1>1, <2>1, <2>2
  <2>5. \A i \in 1 .. Len(Prune(k)) : Prune(k)[i] <= now
    BY <1>1, <2>1, <2>3
  <2> QED  BY <1>1, <2>1, <2>4, <2>5
<1>5. ASSUME Len(Prune(k)) < LimitFor(k) PROVE Good(Append(Prune(k), now))
  <2> DEFINE p == Prune(k)
             q == Append(p, now)
  <2> HIDE DEF p, q
  <2>1. /\ q \in Seq(0 .. MaxTime) /\ Len(q) = Len(p) + 1
        /\ \A i \in 1 .. Len(p) : q[i] = p[i]
        /\ q[Len(p) + 1] = now
    BY <1>1, <1>4, AppendProperties DEF p, q
  <2>2. \A i \in 1 .. Len(q) : i \in 1 .. Len(p) \/ i = Len(p) + 1
    BY <1>4, <2>1 DEF p
  <2>3. \A i \in 1 .. Len(q) : q[i] <= now
    BY <1>1, <1>4, <2>1, <2>2 DEF p
  <2>4. \A i \in 1 .. Len(q) - 1 : i \in 1 .. Len(p) /\ i + 1 \in 1 .. Len(p) + 1
    BY <1>4, <2>1 DEF p
  <2>5. \A i \in 1 .. Len(q) - 1 : q[i] <= q[i + 1]
    BY <1>1, <1>4, <2>1, <2>2, <2>4 DEF p
  <2>6. Len(q) <= LimitFor(k)
    BY <1>1, <1>4, <1>5, <2>1 DEF p
  <2> QED  BY <2>1, <2>3, <2>5, <2>6 DEF p, q
<1>6. ASSUME s # <<>> PROVE Good(Front(s))
  <2>1. Front(s) = SubSeq(s, 1, Len(s) - 1)
    BY DEF Front
  <2>2. Len(s) > 0 /\ Len(s) - 1 \in Int
    BY <1>1, <1>6, EmptySeq
  <2>3. \A i \in 1 .. Len(s) - 1 : s[i] \in 0 .. MaxTime
    BY <1>1, <1>2
  <2> HIDE DEF s
  <2>4. /\ SubSeq(s, 1, Len(s) - 1) \in Seq(0 .. MaxTime)
        /\ Len(SubSeq(s, 1, Len(s) - 1)) = IF 1 <= Len(s) - 1 THEN (Len(s) - 1) - 1 + 1 ELSE 0
        /\ \A i \in 1 .. (Len(s) - 1) - 1 + 1 : SubSeq(s, 1, Len(s) - 1)[i] = s[1 + i - 1]
    BY <2>2, <2>3, SubSeqProperties
  <2>5. Len(Front(s)) = Len(s) - 1 /\ \A i \in 1 .. Len(s) - 1 : Front(s)[i] = s[i]
    <3>1. (Len(s) - 1) - 1 + 1 = Len(s) - 1 /\ \A i \in 1 .. Len(s) - 1 : 1 + i - 1 = i
      BY <1>1
    <3>2. Len(Front(s)) = Len(s) - 1
      BY <1>1, <2>1, <2>2, <2>4, <3>1
    <3>3. \A i \in 1 .. Len(s) - 1 : Front(s)[i] = s[1 + i - 1]
      BY <2>1, <2>4, <3>1
    <3> QED  BY <3>1, <3>2, <3>3
  <2> QED  BY <1>1, <2>1, <2>4, <2>5
<1>7. Good(t)
  <2> HIDE DEF Good
  <2> QED  BY <1>1, <1>3, <1>4, <1>5, <1>6 DEF KeyMove
<1> QED  BY <1>7

----------------------------------------------------------------------------
\* What the steps do to the throttle.

\* The history of guesses moves with the limiter's own record of a name.
GuessMove(n) ==
    \/ guesses'[n] = guesses[n] /\ (failures'[n] = failures[n] \/ failures'[n] = Prune(n))
    \/ guesses'[n] = <<>> /\ failures'[n] = <<>>
    \/ /\ Len(Prune(n)) < LimitFor(n)
       /\ guesses'[n] = Append(guesses[n], now) /\ failures'[n] = Append(Prune(n), now)

ThrottleMoves ==
    /\ DOMAIN failures' = Keys /\ failures' = [k \in Keys |-> failures'[k]] /\ \A k \in Keys : KeyMove(k)
    /\ guesses' = [n \in Names |-> guesses'[n]] /\ \A n \in Names : GuessMove(n)
    /\ now' \in 0 .. MaxTime /\ now <= now'

LEMMA ReserveMoves ==
    ASSUME LoginInv, NEW a \in Attempts, Reserve(a)
    PROVE  ThrottleMoves
<1> USE DEF LoginInv, LoginTypeOK
<1>1. attempt[a].name \in Names /\ KeysOf(a) \subseteq Keys
  BY DEF AttemptStates, KeysOf, Keys
<1>2. KeysOf(a) \cap Names = {attempt[a].name}
  BY <1>1 DEF KeysOf, Names
<1>3. now' \in 0 .. MaxTime /\ now <= now'
  BY LoginAssumption DEF Reserve
<1>4. CASE \A k \in KeysOf(a) : Len(Prune(k)) < LimitFor(k)
  <2>1. failures' = [k \in Keys |-> IF k \in KeysOf(a) THEN Append(Prune(k), now) ELSE failures[k]]
    BY <1>4 DEF Reserve
  <2>2. guesses' = [guesses EXCEPT ![attempt[a].name] = Append(@, now)]
    BY <1>4 DEF Reserve
  <2>3. \A k \in Keys : KeyMove(k)
    BY <1>4, <2>1 DEF KeyMove
  <2>4. \A n \in Names : GuessMove(n)
    BY <1>1, <1>2, <1>4, <2>1, <2>2 DEF GuessMove, Keys
  <2>5. guesses' = [n \in Names |-> guesses'[n]]
    BY <1>1, <2>2
  <2> QED  BY <1>3, <2>1, <2>3, <2>4, <2>5 DEF ThrottleMoves
<1>5. CASE ~\A k \in KeysOf(a) : Len(Prune(k)) < LimitFor(k)
  <2>1. failures' = [k \in Keys |-> IF k \in KeysOf(a) THEN Prune(k) ELSE failures[k]] /\ UNCHANGED guesses
    BY <1>5 DEF Reserve
  <2>2. \A k \in Keys : KeyMove(k)
    BY <2>1 DEF KeyMove
  <2>3. \A n \in Names : GuessMove(n)
    BY <2>1 DEF GuessMove, Keys
  <2> QED  BY <1>3, <2>1, <2>2, <2>3 DEF ThrottleMoves
<1> QED  BY <1>4, <1>5

LEMMA ForgiveMoves ==
    ASSUME LoginInv, NEW a \in Attempts, Forgive(a), UNCHANGED now
    PROVE  ThrottleMoves
<1> USE DEF LoginInv, LoginTypeOK
<1>1. attempt[a].name \in Names /\ "address" \notin Names /\ Names \subseteq Keys
  BY DEF AttemptStates, Keys, Names
<1>2. now' \in 0 .. MaxTime /\ now <= now'
  BY LoginAssumption
<1>3. /\ failures' = [k \in Keys |-> failures'[k]] /\ failures'[attempt[a].name] = <<>>
      /\ failures'["address"] = IF failures["address"] = <<>> THEN failures["address"] ELSE Front(failures["address"])
      /\ \A k \in Keys \ {attempt[a].name, "address"} : failures'[k] = failures[k]
  BY <1>1 DEF Forgive, Forgiven, Keys
<1>4. \A k \in Keys : KeyMove(k)
  BY <1>1, <1>3 DEF KeyMove
<1>5. guesses' = [guesses EXCEPT ![attempt[a].name] = <<>>]
  BY DEF Forgive
<1>6. \A n \in Names : GuessMove(n)
  BY <1>1, <1>3, <1>5 DEF GuessMove
<1>7. guesses' = [n \in Names |-> guesses'[n]]
  BY <1>1, <1>5
<1> QED  BY <1>2, <1>3, <1>4, <1>6, <1>7 DEF ThrottleMoves

LEMMA OthersMove ==
    ASSUME LoginInv, UNCHANGED <<failures, guesses>>, now' \in 0 .. MaxTime, now <= now'
    PROVE  ThrottleMoves
<1>1. failures = [k \in Keys |-> failures[k]] /\ guesses = [n \in Names |-> guesses[n]]
  BY DEF LoginInv, LoginTypeOK
<1> QED  BY <1>1 DEF ThrottleMoves, KeyMove, GuessMove

LEMMA ThrottleStep ==
    ASSUME LoginInv, LoginNext
    PROVE  ThrottleMoves
<1>1. now \in 0 .. MaxTime /\ now <= now
  BY LoginAssumption DEF LoginInv, LoginTypeOK
<1>2. ASSUME NEW a \in Attempts, AskLogin(a) \/ AskPassword(a) \/ Verify(a)
      PROVE  ThrottleMoves
  BY <1>1, <1>2, OthersMove DEF AskLogin, AskPassword, Verify
<1>3. ASSUME NEW a \in Attempts, FinishLogin(a) \/ FinishChange(a)
      PROVE  ThrottleMoves
  BY <1>3, ForgiveMoves DEF FinishLogin, FinishChange
<1>4. CASE ResetMember \/ DeleteMember \/ CreateMember \/ MoveMember \/ \E o \in Organizations : SetOrgActive(o)
  BY <1>1, <1>4, OthersMove DEF ResetMember, DeleteMember, CreateMember, MoveMember, SetOrgActive
<1>5. CASE Tick
  <2>1. now' \in 0 .. MaxTime /\ now <= now'
    BY <1>1, <1>5, LoginAssumption DEF Tick
  <2> QED  BY <1>5, <2>1, OthersMove DEF Tick
<1> QED  BY <1>2, <1>3, <1>4, <1>5, ReserveMoves DEF LoginNext

\* What the limiter remembers keeps its type, its order and its bound.
LEMMA FailuresStep ==
    ASSUME LoginInv, ThrottleMoves
    PROVE  /\ failures' \in [Keys -> Seq(0 .. MaxTime)]
           /\ \A k \in Keys : /\ Len(failures'[k]) <= LimitFor(k)
                              /\ \A i \in 1 .. Len(failures'[k]) - 1 : failures'[k][i] <= failures'[k][i + 1]
           /\ PastInv'
<1>1. ASSUME NEW k \in Keys
      PROVE  /\ failures'[k] \in Seq(0 .. MaxTime) /\ Len(failures'[k]) <= LimitFor(k)
             /\ \A i \in 1 .. Len(failures'[k]) - 1 : failures'[k][i] <= failures'[k][i + 1]
             /\ \A i \in 1 .. Len(failures'[k]) : failures'[k][i] <= now
  BY KeyTyped DEF LoginInv, ThrottleMoves
<1>2. failures' \in [Keys -> Seq(0 .. MaxTime)]
  BY <1>1 DEF ThrottleMoves
<1>3. PastInv'
  <2> SUFFICES ASSUME NEW k \in Keys, NEW i \in 1 .. Len(failures'[k]) PROVE failures'[k][i] <= now'
    BY DEF PastInv
  <2>1. failures'[k][i] \in 0 .. MaxTime /\ failures'[k][i] <= now
    BY <1>1, ElementOfSeq
  <2>2. now \in Nat /\ now' \in Nat /\ now <= now'
    BY LoginAssumption DEF ThrottleMoves, LoginInv, LoginTypeOK
  <2> QED  BY <2>1, <2>2
<1> QED  BY <1>1, <1>2, <1>3

\* The guesses that the limiter has forgotten are those the window has left behind: pruning
\* forgets such only, and admitting an attempt adds it to both.
LEMMA GuessStep ==
    ASSUME LoginInv, ThrottleMoves
    PROVE  guesses' \in [Names -> Seq(0 .. MaxTime)] /\ GuessInv'
<1>1. now \in 0 .. MaxTime /\ now' \in Nat /\ now \in Nat /\ now <= now'
  BY LoginAssumption DEF ThrottleMoves, LoginInv, LoginTypeOK
<1>2. ASSUME NEW n \in Names
      PROVE  /\ guesses'[n] \in Seq(0 .. MaxTime)
             /\ LET gone == Len(guesses'[n]) - Len(failures'[n])
                IN  /\ gone >= 0 /\ \A i \in 1 .. gone : guesses'[n][i] + Window <= now'
                    /\ \A i \in 1 .. Len(failures'[n]) : failures'[n][i] = guesses'[n][gone + i]
  <2> DEFINE g == guesses[n]
             f == failures[n]
             gg == guesses'[n]
             ff == failures'[n]
             OK(u, v, t) == /\ Len(u) - Len(v) >= 0
                            /\ \A i \in 1 .. Len(u) - Len(v) : u[i] + Window <= t
                            /\ \A i \in 1 .. Len(v) : v[i] = u[(Len(u) - Len(v)) + i]
  <2>1. n \in Keys /\ g \in Seq(0 .. MaxTime) /\ f \in Seq(0 .. MaxTime) /\ OK(g, f, now)
    BY DEF LoginInv, LoginTypeOK, GuessInv, Keys
  <2>2. Len(g) \in Nat /\ Len(f) \in Nat /\ \A i \in 1 .. Len(g) : g[i] \in 0 .. MaxTime
    BY <2>1, ElementOfSeq, LenProperties
  <2>3. PICK d \in 0 .. Len(f) :
          /\ \A i \in 1 .. d : f[i] + Window <= now
          /\ Prune(n) \in Seq(0 .. MaxTime) /\ Len(Prune(n)) = Len(f) - d
          /\ \A i \in 1 .. Len(Prune(n)) : Prune(n)[i] = f[d + i]
    BY <2>1, PruneTyped DEF LoginInv
  <2> HIDE DEF g, f
  <2>4. OK(g, Prune(n), now) /\ Len(Prune(n)) \in Nat
    <3> DEFINE p == Prune(n)
               e == Len(g) - Len(f)
    <3>1. p \in Seq(0 .. MaxTime) /\ Len(p) = Len(f) - d /\ Len(p) \in Nat /\ e \in Nat
      BY <2>1, <2>2, <2>3
    <3> HIDE DEF p
    <3>2. Len(g) - Len(p) = e + d
      BY <2>2, <3>1
    <3>3. \A i \in 1 .. e + d : g[i] + Window <= now
      <4> SUFFICES ASSUME NEW i \in 1 .. e + d PROVE g[i] + Window <= now
        OBVIOUS
      <4>1. CASE i \in 1 .. e
        BY <2>1, <4>1
      <4>2. CASE i \notin 1 .. e
        <5>1. i - e \in 1 .. d /\ i - e \in 1 .. Len(f) /\ e + (i - e) = i
          BY <2>2, <3>1, <4>2
        <5>2. f[i - e] = g[e + (i - e)]
          BY <2>1, <5>1
        <5> QED  BY <2>3, <5>1, <5>2
      <4> QED  BY <4>1, <4>2
    <3>4. \A i \in 1 .. Len(p) : p[i] = g[(e + d) + i]
      <4> SUFFICES ASSUME NEW i \in 1 .. Len(p) PROVE p[i] = g[(e + d) + i]
        OBVIOUS
      <4>1. d + i \in 1 .. Len(f) /\ e + (d + i) = (e + d) + i
        BY <2>2, <3>1
      <4>2. p[i] = f[d + i]
        BY <2>3 DEF p
      <4>3. f[d + i] = g[e + (d + i)]
        BY <2>1, <4>1
      <4> QED  BY <4>1, <4>2, <4>3
    <3> QED  BY <3>1, <3>2, <3>3, <3>4, <2>2 DEF p
  <2>5. \A u, v : u \in Seq(0 .. MaxTime) /\ Len(v) \in Nat /\ OK(u, v, now) => OK(u, v, now')
    <3> SUFFICES ASSUME NEW u, NEW v, u \in Seq(0 .. MaxTime), Len(v) \in Nat, OK(u, v, now)
                 PROVE  \A i \in 1 .. Len(u) - Len(v) : u[i] + Window <= now'
      OBVIOUS
    <3>1. Len(u) \in Nat /\ \A i \in 1 .. Len(u) : u[i] \in 0 .. MaxTime
      BY ElementOfSeq, LenProperties
    <3>2. \A i \in 1 .. Len(u) - Len(v) : i \in 1 .. Len(u)
      BY <3>1
    <3>3. \A i \in 1 .. Len(u) - Len(v) : u[i] + Window <= now /\ u[i] + Window \in Nat
      BY <3>1, <3>2, LoginAssumption
    <3> QED  BY <1>1, <3>3
  <2>6. CASE gg = g /\ (ff = f \/ ff = Prune(n))
    <3>1. OK(gg, ff, now')
      <4> HIDE DEF OK
      <4> QED  BY <2>1, <2>2, <2>4, <2>5, <2>6
    <3> QED  BY <2>1, <2>6, <3>1
  <2>7. CASE gg = <<>> /\ ff = <<>>
    BY <2>7
  <2>8. CASE gg = Append(g, now) /\ ff = Append(Prune(n), now)
    <3> DEFINE p == Prune(n)
               u == Append(g, now)
               v == Append(p, now)
    <3>1. p \in Seq(0 .. MaxTime) /\ Len(p) \in Nat /\ OK(g, p, now)
      BY <2>3, <2>4
    <3> HIDE DEF p
    <3>2. /\ u \in Seq(0 .. MaxTime) /\ Len(u) = Len(g) + 1 /\ u[Len(g) + 1] = now
          /\ \A i \in 1 .. Len(g) : u[i] = g[i]
      BY <1>1, <2>1, AppendProperties
    <3>3. /\ v \in Seq(0 .. MaxTime) /\ Len(v) = Len(p) + 1 /\ v[Len(p) + 1] = now
          /\ \A i \in 1 .. Len(p) : v[i] = p[i]
      BY <1>1, <3>1, AppendProperties
    <3> HIDE DEF u, v
    <3> DEFINE e == Len(g) - Len(p)
    <3>4. Len(u) - Len(v) = e /\ e \in Nat
      BY <2>2, <3>1, <3>2, <3>3
    <3>5. \A i \in 1 .. e : u[i] + Window <= now
      <4>1. \A i \in 1 .. e : i \in 1 .. Len(g)
        BY <2>2, <3>1, <3>4
      <4> QED  BY <3>1, <3>2, <4>1
    <3>6. \A i \in 1 .. Len(v) : v[i] = u[e + i]
      <4> SUFFICES ASSUME NEW i \in 1 .. Len(v) PROVE v[i] = u[e + i]
        OBVIOUS
      <4>1. CASE i \in 1 .. Len(p)
        <5>1. e + i \in 1 .. Len(g)
          BY <2>2, <3>1, <3>4, <4>1
        <5> QED  BY <3>1, <3>2, <3>3, <4>1, <5>1
      <4>2. CASE i \notin 1 .. Len(p)
        <5>1. i = Len(p) + 1 /\ e + i = Len(g) + 1
          <6>1. Len(v) = Len(p) + 1 /\ Len(p) \in Nat /\ Len(g) \in Nat
            BY <2>2, <3>1, <3>3
          <6> QED  BY <4>2, <6>1
        <5> QED  BY <3>2, <3>3, <5>1
      <4> QED  BY <4>1, <4>2
    <3>7. OK(u, v, now)
      <4> HIDE DEF e
      <4>1. Len(u) - Len(v) >= 0
        BY <3>4
      <4>2. \A i \in 1 .. Len(u) - Len(v) : u[i] + Window <= now
        BY <3>4, <3>5
      <4>3. \A i \in 1 .. Len(v) : v[i] = u[(Len(u) - Len(v)) + i]
        BY <3>4, <3>6
      <4> QED  BY <4>1, <4>2, <4>3
    <3>8. OK(u, v, now')
      <4> HIDE DEF OK
      <4> QED  BY <2>5, <3>1, <3>2, <3>3, <3>7
    <3> QED  BY <2>8, <3>2, <3>8 DEF u, v, p
  <2> QED  BY <2>6, <2>7, <2>8 DEF ThrottleMoves, GuessMove, g, f
<1>3. guesses' \in [Names -> Seq(0 .. MaxTime)]
  BY <1>2 DEF ThrottleMoves
<1> QED  BY <1>2, <1>3 DEF GuessInv

----------------------------------------------------------------------------
\* What the steps do to the account and to those who log in.

AccountOK ==
    /\ drawn \in 1 .. MaxStamps /\ tries \in 0 .. MaxTries /\ orgActive \in [Organizations -> BOOLEAN]
    /\ member \in Row
    /\ attempt \in [Attempts -> AttemptStates]
    /\ tokens \subseteq [password : Passwords, stamp : 0 .. MaxStamps, exp : 0 .. MaxTime + TokenLife]

\* Carries(x): who has x's stamp has its password, as far as the account is concerned.
Carries(x, m, top) == x.stamp <= top /\ (x.stamp = m.stamp => x.password = m.password)

Matched(s) == s.pc = "matched" => s.given = s.seen.password

LEMMA StampsCarry ==
    StampInv <=> /\ member.stamp \in 1 .. drawn
                 /\ \A t \in tokens : Carries(t, member, drawn)
                 /\ \A a \in Attempts : Carries(attempt[a].seen, member, drawn) /\ Matched(attempt[a])
  BY DEF StampInv, Carries, Matched

\* An idle attempt carries no stamp.
LEMMA IdleCarries ==
    ASSUME LoginTypeOK, StampInv
    PROVE  /\ NoAttempt \in AttemptStates /\ Matched(NoAttempt)
           /\ Carries(NoAttempt.seen, member, drawn)
<1>1. 0 \in 0 .. MaxStamps /\ drawn \in Nat /\ member.stamp # 0
  BY LoginAssumption DEF LoginTypeOK, StampInv
<1> QED
  BY <1>1 DEF NoAttempt, AttemptStates, Row, Organizations, Passwords, Names, Matched, Carries

\* A request that moves while the account stays: what it carries has to be looked at only.
LEMMA AttemptMoves ==
    ASSUME LoginInv, NEW a \in Attempts, NEW s \in AttemptStates,
           Carries(s.seen, member, drawn), Matched(s),
           attempt' = [attempt EXCEPT ![a] = s],
           UNCHANGED <<member, drawn, orgActive>>, tries' \in 0 .. MaxTries,
           NEW T \in SUBSET [password : Passwords, stamp : 0 .. MaxStamps, exp : 0 .. MaxTime + TokenLife],
           \A t \in T : Carries(t, member, drawn),
           tokens' = tokens \cup T
    PROVE  AccountOK' /\ StampInv'
<1>1. \A b \in Attempts : attempt'[b] = IF b = a THEN s ELSE attempt[b]
  BY DEF LoginInv, LoginTypeOK
<1>2. StampInv'
  BY <1>1, StampsCarry DEF LoginInv, StampInv, Carries, Matched
<1>3. AccountOK'
  BY DEF LoginInv, LoginTypeOK, AccountOK
<1> QED  BY <1>2, <1>3

\* An operator's step that leaves the requests and tokens alone, and either leaves hash and
\* stamp alone or draws a new stamp.
LEMMA MemberMoves ==
    ASSUME LoginInv, UNCHANGED <<attempt, tokens, tries>>, orgActive' \in [Organizations -> BOOLEAN],
           member' \in Row,
           \/ UNCHANGED drawn /\ member'.stamp = member.stamp /\ member'.password = member.password
           \/ drawn' = drawn + 1 /\ drawn' \in 1 .. MaxStamps /\ member'.stamp = drawn'
    PROVE  AccountOK' /\ StampInv'
<1>1. AccountOK'
  BY DEF LoginInv, LoginTypeOK, AccountOK
<1> USE DEF LoginInv, StampInv
<1>2. CASE UNCHANGED drawn /\ member'.stamp = member.stamp /\ member'.password = member.password
  <2>1. /\ member'.stamp \in 1 .. drawn'
        /\ \A t \in tokens' :
             t.stamp <= drawn' /\ (t.stamp = member'.stamp => t.password = member'.password)
    BY <1>2
  <2>2. \A a \in Attempts :
          /\ attempt'[a].seen.stamp <= drawn'
          /\ attempt'[a].seen.stamp = member'.stamp => attempt'[a].seen.password = member'.password
          /\ attempt'[a].pc = "matched" => attempt'[a].given = attempt'[a].seen.password
    BY <1>2
  <2> QED  BY <1>1, <2>1, <2>2
<1>3. CASE drawn' = drawn + 1 /\ drawn' \in 1 .. MaxStamps /\ member'.stamp = drawn'
  <2>1. drawn \in Nat /\ \A t \in tokens : t.stamp \in Nat
    BY LoginAssumption DEF LoginTypeOK
  <2>2. \A a \in Attempts : attempt[a].seen.stamp \in Nat
    BY DEF LoginTypeOK, AttemptStates, Row
  <2>3. /\ member'.stamp \in 1 .. drawn'
        /\ \A t \in tokens' :
             t.stamp <= drawn' /\ (t.stamp = member'.stamp => t.password = member'.password)
    BY <1>3, <2>1
  <2>4. \A a \in Attempts :
          /\ attempt'[a].seen.stamp <= drawn'
          /\ attempt'[a].seen.stamp = member'.stamp => attempt'[a].seen.password = member'.password
          /\ attempt'[a].pc = "matched" => attempt'[a].given = attempt'[a].seen.password
    BY <1>3, <2>1, <2>2
  <2> QED  BY <1>1, <2>3, <2>4
<1> QED  BY <1>2, <1>3

\* One UPDATE gives the account a new hash under a new stamp, and its token both.
LEMMA ChangeMoves ==
    ASSUME LoginInv, NEW a \in Attempts, NEW p \in Passwords,
           drawn < MaxStamps, drawn' = drawn + 1,
           member' = [member EXCEPT !.password = p, !.stamp = drawn + 1],
           tokens' = tokens \cup {Token(p, drawn + 1)},
           attempt' = [attempt EXCEPT ![a] = NoAttempt], UNCHANGED <<orgActive, tries>>
    PROVE  AccountOK' /\ StampInv'
<1>1. drawn \in 1 .. MaxStamps /\ now \in 0 .. MaxTime /\ MaxStamps \in Nat /\ TokenLife \in Nat
  BY LoginAssumption DEF LoginInv, LoginTypeOK
<1>2. drawn' \in 1 .. MaxStamps /\ drawn' \in 0 .. MaxStamps
  BY <1>1
<1>3. member' \in Row /\ member'.stamp = drawn' /\ member'.password = p
  BY <1>2 DEF LoginInv, LoginTypeOK, Row
<1>4. Token(p, drawn + 1) \in [password : Passwords, stamp : 0 .. MaxStamps, exp : 0 .. MaxTime + TokenLife]
  BY <1>1, <1>2, LoginAssumption DEF Token
<1>5. NoAttempt \in AttemptStates /\ Matched(NoAttempt) /\ NoAttempt.seen.stamp = 0
  BY IdleCarries DEF LoginInv, NoAttempt
<1>6. AccountOK'
  BY <1>2, <1>3, <1>4, <1>5 DEF LoginInv, LoginTypeOK, AccountOK
<1>7. \A t \in tokens' : t.stamp <= drawn' /\ (t.stamp = member'.stamp => t.password = member'.password)
  <2>1. \A t \in tokens : t.stamp \in Nat /\ t.stamp <= drawn
    BY DEF LoginInv, LoginTypeOK, StampInv
  <2>2. Token(p, drawn + 1).stamp = drawn' /\ Token(p, drawn + 1).password = p
    BY DEF Token
  <2> QED  BY <1>1, <1>3, <2>1, <2>2
<1>8. \A b \in Attempts :
        /\ attempt'[b].seen.stamp <= drawn'
        /\ attempt'[b].seen.stamp = member'.stamp => attempt'[b].seen.password = member'.password
        /\ attempt'[b].pc = "matched" => attempt'[b].given = attempt'[b].seen.password
  <2>1. \A b \in Attempts : attempt[b].seen.stamp \in Nat /\ attempt[b].seen.stamp <= drawn
    BY DEF LoginInv, LoginTypeOK, StampInv, AttemptStates, Row
  <2>2. \A b \in Attempts : attempt'[b] = IF b = a THEN NoAttempt ELSE attempt[b]
    BY DEF LoginInv, LoginTypeOK
  <2> QED  BY <1>1, <1>3, <1>5, <2>1, <2>2 DEF LoginInv, StampInv, Matched
<1> QED  BY <1>2, <1>3, <1>6, <1>7, <1>8 DEF StampInv

LEMMA AccountStep ==
    ASSUME LoginInv, LoginNext
    PROVE  AccountOK' /\ StampInv'
<1> DEFINE Tokens == [password : Passwords, stamp : 0 .. MaxStamps, exp : 0 .. MaxTime + TokenLife]
<1> USE DEF LoginInv
<1>1. drawn \in 1 .. MaxStamps /\ now \in 0 .. MaxTime /\ MaxStamps \in Nat /\ TokenLife \in Nat /\ member \in Row
  BY LoginAssumption DEF LoginTypeOK
<1>2. Carries(member, member, drawn)
  BY <1>1 DEF StampInv, Carries
<1>3. /\ NoAttempt \in AttemptStates /\ Matched(NoAttempt) /\ Carries(NoAttempt.seen, member, drawn)
  BY IdleCarries
<1>4. \A a \in Attempts : attempt[a] \in AttemptStates /\ Carries(attempt[a].seen, member, drawn) /\ Matched(attempt[a])
  BY StampsCarry DEF LoginTypeOK
<1>5. tries \in 0 .. MaxTries /\ orgActive \in [Organizations -> BOOLEAN]
  BY DEF LoginTypeOK
\* the request moves to s, and no token is handed out
<1>6. ASSUME NEW a \in Attempts, NEW s \in AttemptStates, Carries(s.seen, member, drawn), Matched(s),
             attempt' = [attempt EXCEPT ![a] = s],
             UNCHANGED <<member, drawn, orgActive, tokens>>, tries' \in 0 .. MaxTries
      PROVE  AccountOK' /\ StampInv'
  <2> DEFINE T == {}
  <2>1. tokens' = tokens \cup T /\ T \in SUBSET Tokens /\ \A t \in T : Carries(t, member, drawn)
    BY <1>6
  <2> HIDE DEF T
  <2> QED  BY <1>6, <2>1, AttemptMoves
<1>7. ASSUME NEW a \in Attempts, AskLogin(a) PROVE AccountOK' /\ StampInv'
  <2>1. PICK n \in Names, p \in Passwords :
          attempt' = [attempt EXCEPT ![a] = [NoAttempt EXCEPT !.pc = "asked", !.name = n, !.given = p]]
    BY <1>7 DEF AskLogin
  <2> DEFINE s == [NoAttempt EXCEPT !.pc = "asked", !.name = n, !.given = p]
  <2>2. s \in AttemptStates /\ s.seen = NoAttempt.seen /\ s.pc = "asked"
    BY <1>3 DEF AttemptStates
  <2>3. tries' \in 0 .. MaxTries
    BY <1>5, <1>7, LoginAssumption DEF AskLogin
  <2> HIDE DEF s
  <2>4. Carries(s.seen, member, drawn) /\ Matched(s) /\ attempt' = [attempt EXCEPT ![a] = s]
    BY <1>3, <2>1, <2>2 DEF Matched, s
  <2> QED  BY <1>6, <1>7, <2>2, <2>3, <2>4 DEF AskLogin
<1>8. ASSUME NEW a \in Attempts, AskPassword(a) PROVE AccountOK' /\ StampInv'
  <2>1. PICK p \in Passwords, q \in Passwords :
          attempt' = [attempt EXCEPT ![a] = [pc |-> "asked", kind |-> "change", name |-> "member",
                                             given |-> p, new |-> q, seen |-> member]]
    BY <1>8 DEF AskPassword
  <2> DEFINE s == [pc |-> "asked", kind |-> "change", name |-> "member", given |-> p, new |-> q, seen |-> member]
  <2>2. s \in AttemptStates /\ s.seen = member /\ s.pc = "asked"
    BY <1>1 DEF AttemptStates, Names
  <2>3. tries' \in 0 .. MaxTries
    BY <1>5, <1>8, LoginAssumption DEF AskPassword
  <2> HIDE DEF s
  <2>4. Carries(s.seen, member, drawn) /\ Matched(s) /\ attempt' = [attempt EXCEPT ![a] = s]
    BY <1>2, <2>1, <2>2 DEF Matched, s
  <2> QED  BY <1>6, <1>8, <2>2, <2>3, <2>4 DEF AskPassword
<1>9. ASSUME NEW a \in Attempts, Reserve(a) PROVE AccountOK' /\ StampInv'
  <2>1. CASE attempt' = [attempt EXCEPT ![a] = NoAttempt]
    BY <1>3, <1>5, <1>6, <1>9, <2>1 DEF Reserve
  <2>2. CASE attempt' = [attempt EXCEPT ![a].pc = "reserved"]
    <3> DEFINE s == [attempt[a] EXCEPT !.pc = "reserved"]
    <3>1. s \in AttemptStates /\ s.seen = attempt[a].seen /\ s.pc = "reserved"
      BY <1>4 DEF AttemptStates
    <3>2. attempt' = [attempt EXCEPT ![a] = s]
      BY <1>4, <2>2 DEF AttemptStates
    <3> HIDE DEF s
    <3>3. Carries(s.seen, member, drawn) /\ Matched(s)
      BY <1>4, <3>1 DEF Matched
    <3> QED  BY <1>5, <1>6, <1>9, <3>1, <3>2, <3>3 DEF Reserve
  <2> QED  BY <1>9, <2>1, <2>2 DEF Reserve
<1>10. ASSUME NEW a \in Attempts, Verify(a) PROVE AccountOK' /\ StampInv'
  <2> DEFINE row == IF attempt[a].kind = "change" THEN attempt[a].seen
                    ELSE IF attempt[a].name = "member" THEN member ELSE [member EXCEPT !.exists = FALSE]
             s == [attempt[a] EXCEPT !.pc = "matched", !.seen = row]
  <2>1. row \in Row /\ Carries(row, member, drawn)
    <3>1. [member EXCEPT !.exists = FALSE] \in Row /\ Carries([member EXCEPT !.exists = FALSE], member, drawn)
      BY <1>1, <1>2 DEF Row, Carries
    <3>2. attempt[a].seen \in Row /\ Carries(attempt[a].seen, member, drawn)
      BY <1>4 DEF AttemptStates
    <3> QED  BY <1>1, <1>2, <3>1, <3>2
  <2> HIDE DEF row
  <2>2. CASE row.password = attempt[a].given /\ attempt' = [attempt EXCEPT ![a] = s]
    <3>1. s \in AttemptStates /\ s.seen = row /\ s.given = attempt[a].given
      BY <1>4, <2>1 DEF AttemptStates
    <3> HIDE DEF s
    <3>2. Carries(s.seen, member, drawn) /\ Matched(s)
      BY <2>1, <2>2, <3>1 DEF Matched
    <3> QED  BY <1>5, <1>6, <1>10, <2>2, <3>1, <3>2 DEF Verify
  <2>3. CASE attempt' = [attempt EXCEPT ![a] = NoAttempt]
    BY <1>3, <1>5, <1>6, <1>10, <2>3 DEF Verify
  <2>4. \/ row.password = attempt[a].given /\ attempt' = [attempt EXCEPT ![a] = s]
        \/ attempt' = [attempt EXCEPT ![a] = NoAttempt]
    BY <1>4, <1>10 DEF Verify, row
  <2> QED  BY <2>2, <2>3, <2>4
<1>11. ASSUME NEW a \in Attempts, FinishLogin(a) PROVE AccountOK' /\ StampInv'
  <2>1. attempt' = [attempt EXCEPT ![a] = NoAttempt] /\ UNCHANGED <<member, drawn, orgActive>> /\ tries' \in 0 .. MaxTries
    BY <1>5, <1>11 DEF FinishLogin, Forgive
  <2> DEFINE t == Token(attempt[a].given, TokenStamp(a))
  <2>2. t \in Tokens
    <3>1. attempt[a].given \in Passwords /\ attempt[a].seen.stamp \in 0 .. MaxStamps
      BY <1>4 DEF AttemptStates, Row
    <3>2. now + TokenLife \in 0 .. MaxTime + TokenLife
      BY <1>1, LoginAssumption
    <3> QED  BY <3>1, <3>2 DEF Token, TokenStamp
  <2>3. Carries(t, member, drawn)
    <3>1. attempt[a].given = attempt[a].seen.password
      BY <1>4, <1>11 DEF FinishLogin, Matched
    <3> QED  BY <1>4, <3>1 DEF Carries, Token, TokenStamp
  <2>4. tokens' = tokens \/ tokens' = tokens \cup {t}
    BY <1>11 DEF FinishLogin
  <2> HIDE DEF t
  <2>5. PICK T \in SUBSET {t} : tokens' = tokens \cup T
    <3>1. tokens = tokens \cup {} /\ {} \in SUBSET {t} /\ {t} \in SUBSET {t}
      OBVIOUS
    <3> QED  BY <2>4, <3>1
  <2> QED  BY <1>3, <2>1, <2>2, <2>3, <2>5, AttemptMoves
<1>12. ASSUME NEW a \in Attempts, FinishChange(a) PROVE AccountOK' /\ StampInv'
  <2>1. attempt' = [attempt EXCEPT ![a] = NoAttempt] /\ UNCHANGED <<orgActive, tries>>
    BY <1>12 DEF FinishChange, Forgive
  <2>2. CASE UNCHANGED <<member, tokens, drawn>>
    BY <1>3, <1>5, <1>6, <2>1, <2>2
  <2>3. CASE ~UNCHANGED <<member, tokens, drawn>>
    <3>1. attempt[a].new \in Passwords
      BY <1>4 DEF AttemptStates
    <3>2. /\ drawn < MaxStamps /\ drawn' = drawn + 1
          /\ member' = [member EXCEPT !.password = attempt[a].new, !.stamp = drawn + 1]
          /\ tokens' = tokens \cup {Token(attempt[a].new, drawn + 1)}
      BY <1>12, <2>3 DEF FinishChange
    <3> QED  BY <2>1, <3>1, <3>2, ChangeMoves
  <2> QED  BY <2>2, <2>3
<1>13. CASE ResetMember
  <2>1. drawn' = drawn + 1 /\ drawn' \in 1 .. MaxStamps /\ drawn' \in 0 .. MaxStamps
    BY <1>1, <1>13 DEF ResetMember
  <2>2. member' \in Row /\ member'.stamp = drawn'
    BY <1>1, <1>13, <2>1 DEF ResetMember, Row
  <2> QED  BY <1>5, <1>13, <2>1, <2>2, MemberMoves DEF ResetMember
<1>14. CASE DeleteMember
  <2>1. member' \in Row /\ member'.stamp = member.stamp /\ member'.password = member.password
    BY <1>1, <1>14 DEF DeleteMember, Row
  <2> QED  BY <1>5, <1>14, <2>1, MemberMoves DEF DeleteMember
<1>15. CASE CreateMember
  <2>1. drawn' = drawn + 1 /\ drawn' \in 1 .. MaxStamps /\ drawn' \in 0 .. MaxStamps
    BY <1>1, <1>15 DEF CreateMember
  <2>2. member' \in Row /\ member'.stamp = drawn'
    BY <1>1, <1>15, <2>1 DEF CreateMember, Row
  <2> QED  BY <1>5, <1>15, <2>1, <2>2, MemberMoves DEF CreateMember
<1>16. CASE MoveMember
  <2>1. member' \in Row /\ member'.stamp = member.stamp /\ member'.password = member.password
    BY <1>1, <1>16 DEF MoveMember, Row
  <2> QED  BY <1>5, <1>16, <2>1, MemberMoves DEF MoveMember
<1>17. ASSUME NEW o \in Organizations, SetOrgActive(o) PROVE AccountOK' /\ StampInv'
  <2>1. orgActive' \in [Organizations -> BOOLEAN]
    BY <1>5, <1>17 DEF SetOrgActive
  <2> QED  BY <1>1, <1>17, <2>1, MemberMoves DEF SetOrgActive
<1>18. CASE Tick
  BY <1>1, <1>5, <1>18, MemberMoves DEF Tick
<1> QED
  BY <1>7, <1>8, <1>9, <1>10, <1>11, <1>12, <1>13, <1>14, <1>15, <1>16, <1>17, <1>18 DEF LoginNext

----------------------------------------------------------------------------
\* The theorems.

LEMMA LoginInitInv == LoginInit => LoginInv
<1> SUFFICES ASSUME LoginInit PROVE LoginInv
  OBVIOUS
<1> USE LoginAssumption DEF LoginInit
<1>1. 0 \in 0 .. MaxTime /\ 1 \in 1 .. MaxStamps /\ 1 \in 0 .. MaxStamps /\ 0 \in 0 .. MaxTries
  OBVIOUS
<1>2. member \in Row
  BY <1>1 DEF Row, Organizations, Passwords
<1>3. NoAttempt \in AttemptStates
  BY <1>1 DEF NoAttempt, AttemptStates, Row, Organizations, Passwords, Names
<1>4. \A S : <<>> \in Seq(S) /\ Len(<<>>) = 0
  BY EmptySeq
<1>5. \A k \in Keys : LimitFor(k) >= 0
  BY DEF LimitFor
<1>6. \A k \in Keys : failures[k] = <<>>
  OBVIOUS
<1>7. Len(<<>>) = 0 /\ \A i \in 1 .. 0 : FALSE
  BY <1>4
<1>8. LoginTypeOK
  <2>1. failures \in [Keys -> Seq(0 .. MaxTime)] /\ guesses \in [Names -> Seq(0 .. MaxTime)]
    BY <1>4
  <2>2. \A k \in Keys : /\ Len(failures[k]) <= LimitFor(k)
                         /\ \A i \in 1 .. Len(failures[k]) - 1 : failures[k][i] <= failures[k][i + 1]
    BY <1>5, <1>6, <1>7
  <2>3. attempt \in [Attempts -> AttemptStates] /\ tokens = {}
    BY <1>3
  <2> QED  BY <1>1, <1>2, <2>1, <2>2, <2>3 DEF LoginTypeOK
<1>9. StampInv
  BY DEF StampInv, NoAttempt
<1>10. PastInv
  BY <1>6, <1>7 DEF PastInv
<1>11. GuessInv
  <2>1. \A n \in Names : guesses[n] = <<>> /\ failures[n] = <<>>
    BY DEF Keys
  <2> QED  BY <1>7, <2>1 DEF GuessInv
<1> QED  BY <1>8, <1>9, <1>10, <1>11 DEF LoginInv

LEMMA LoginStutter ==
    ASSUME LoginInv, UNCHANGED loginVars
    PROVE  LoginInv'
<1>1. LoginTypeOK'
  BY DEF loginVars, LoginInv, LoginTypeOK
<1>2. StampInv' /\ PastInv' /\ GuessInv'
  BY DEF loginVars, LoginInv, StampInv, PastInv, GuessInv
<1> QED  BY <1>1, <1>2 DEF LoginInv

\* The inductive invariant holds: every step keeps the types, the stamps and the bookkeeping
\* of the guesses.
THEOREM LoginInvariance == LoginSpec => []LoginInv
<1>1. ASSUME LoginInv, LoginNext PROVE LoginInv'
  <2>1. ThrottleMoves
    BY <1>1, ThrottleStep
  <2>2. LoginTypeOK'
    BY <1>1, <2>1, AccountStep, FailuresStep, GuessStep DEF AccountOK, LoginTypeOK, ThrottleMoves
  <2> QED  BY <1>1, <2>1, <2>2, AccountStep, FailuresStep, GuessStep DEF LoginInv
<1>2. LoginInv /\ [LoginNext]_loginVars => LoginInv'
  BY <1>1, LoginStutter
<1> QED  BY <1>2, LoginInitInv, PTL DEF LoginSpec

\* Every variable of the login keeps its type, and no key remembers more failures than its
\* limit, in the order they came (login_rate_limit.py: LoginRateLimiter).
THEOREM LoginTypeCorrect == LoginSpec => []LoginTypeOK
<1>1. LoginInv => LoginTypeOK
  BY DEF LoginInv
<1> QED  BY <1>1, LoginInvariance, PTL

\* A session that is let in was obtained with the password the account has now, however
\* logins, changes, resets, deletions and re-creations overlap (auth.py: the stamp in the token).
THEOREM SessionsFollowThePasswordHolds == LoginSpec => []SessionsFollowThePassword
<1>1. LoginInv => SessionsFollowThePassword
  BY DEF LoginInv, StampInv, SessionsFollowThePassword, Admits
<1> QED  BY <1>1, LoginInvariance, PTL

\* No more than UserLimit guesses at one name are inside the window, whatever the requests
\* overlap with (login_rate_limit.py: reserve counts in the step that admits).
THEOREM GuessesAreBoundedHolds == LoginSpec => []GuessesAreBounded
<1>1. ASSUME LoginInv PROVE GuessesAreBounded
  <2> SUFFICES ASSUME NEW n \in Names
               PROVE  Cardinality({i \in 1 .. Len(guesses[n]) : guesses[n][i] + Window > now}) <= UserLimit
    BY DEF GuessesAreBounded
  <2> DEFINE I == {i \in 1 .. Len(guesses[n]) : guesses[n][i] + Window > now}
             gone == Len(guesses[n]) - Len(failures[n])
  <2>1. n \in Keys /\ LimitFor(n) = UserLimit
    BY DEF Keys, Names, LimitFor
  <2>2. /\ Len(guesses[n]) \in Nat /\ Len(failures[n]) \in Nat /\ gone >= 0
        /\ \A i \in 1 .. Len(guesses[n]) : guesses[n][i] \in Nat
        /\ Len(failures[n]) <= UserLimit /\ now \in Nat /\ Window \in Nat /\ UserLimit \in Nat
    <3>1. guesses[n] \in Seq(0 .. MaxTime) /\ failures[n] \in Seq(0 .. MaxTime)
      BY <1>1, <2>1 DEF LoginInv, LoginTypeOK
    <3>2. \A i \in 1 .. Len(guesses[n]) : guesses[n][i] \in 0 .. MaxTime
      BY <3>1, ElementOfSeq
    <3>3. Len(guesses[n]) \in Nat /\ Len(failures[n]) \in Nat
      BY <3>1, LenProperties
    <3>4. now \in Nat /\ Window \in Nat /\ UserLimit \in Nat /\ Len(failures[n]) <= UserLimit
      BY <1>1, <2>1, LoginAssumption DEF LoginInv, LoginTypeOK
    <3>5. gone >= 0
      BY <1>1 DEF LoginInv, GuessInv
    <3>6. \A i \in 1 .. Len(guesses[n]) : guesses[n][i] \in Nat
      BY <3>2
    <3> QED  BY <3>3, <3>4, <3>5, <3>6
  <2>3. \A i \in 1 .. gone : guesses[n][i] + Window <= now
    BY <1>1 DEF LoginInv, GuessInv
  <2>4. I \subseteq gone + 1 .. Len(guesses[n])
    <3> SUFFICES ASSUME NEW i \in I PROVE i \in gone + 1 .. Len(guesses[n])
      OBVIOUS
    <3>1. i \in 1 .. Len(guesses[n]) /\ guesses[n][i] \in Nat /\ guesses[n][i] + Window > now
      BY <2>2
    <3>2. i \notin 1 .. gone
      BY <2>2, <2>3, <3>1
    <3> QED  BY <2>2, <3>1, <3>2
  <2>5. /\ IsFiniteSet(gone + 1 .. Len(guesses[n]))
        /\ Cardinality(gone + 1 .. Len(guesses[n])) =
             IF gone + 1 > Len(guesses[n]) THEN 0 ELSE Len(guesses[n]) - (gone + 1) + 1
    <3>1. gone + 1 \in Int /\ Len(guesses[n]) \in Int
      BY <2>2
    <3> QED  BY <3>1, FS_Interval
  <2>6. IsFiniteSet(I) /\ Cardinality(I) <= Cardinality(gone + 1 .. Len(guesses[n]))
    <3> HIDE DEF I, gone
    <3> QED  BY <2>4, <2>5, FS_Subset
  <2>7. Cardinality(I) \in Nat
    <3> HIDE DEF I
    <3> QED  BY <2>6, FS_CardinalityType
  <2>8. Cardinality(gone + 1 .. Len(guesses[n])) <= UserLimit
    <3>1. Len(guesses[n]) - (gone + 1) + 1 = Len(failures[n])
      BY <2>2
    <3>2. Len(failures[n]) <= UserLimit /\ UserLimit >= 0
      BY <2>2
    <3> HIDE DEF gone
    <3> QED  BY <2>5, <3>1, <3>2
  <2> HIDE DEF I
  <2>9. Cardinality(I) <= UserLimit
    <3>1. Cardinality(gone + 1 .. Len(guesses[n])) \in Nat
      BY <2>5, FS_CardinalityType
    <3> HIDE DEF gone
    <3> QED  BY <2>2, <2>6, <2>7, <2>8, <3>1
  <2> QED  BY <2>9 DEF I
<1> QED  BY <1>1, LoginInvariance, PTL

=============================================================================
