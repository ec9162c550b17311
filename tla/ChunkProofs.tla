----------------------------- MODULE ChunkProofs ----------------------------
(***************************************************************************)
(* Theorems of XmlChunks for every document, of any length, depth and      *)
(* width, and every chunk size.                                            *)
(***************************************************************************)
EXTENDS XmlChunks, FoldTheorems, FiniteSetTheorems, SequenceTheorems, TLAPS

----------------------------------------------------------------------------
\* Texts, and sequences of them.

Chars == Nat \X Nat
Texts == Seq(Chars)

\* A character is in a text; it is in one of the pieces.
Occurs(c, t) == \E j \in 1..Len(t) : t[j] = c
In(c, parts) == \E k \in 1..Len(parts) : Occurs(c, parts[k])

\* Pieces that hold what the text t does, and that fit.
HoldAll(parts, t) == parts \in Seq(Texts) /\ \A c : In(c, parts) <=> Occurs(c, t)
Fit(parts, limit) == \A k \in 1..Len(parts) : Len(parts[k]) <= limit

LEMMA CharsTyped ==
    /\ Space \in Chars /\ NewLine \in Chars /\ LineOf(Space) = 0 /\ LineOf(NewLine) = 0
    /\ \A i, k \in Nat : <<i, k>> \in Chars /\ LineOf(<<i, k>>) = i
    /\ \A c \in Chars : LineOf(c) \in Nat
  BY DEF Chars, Space, NewLine, LineOf

LEMMA OccursIs ==
    ASSUME NEW t \in Texts
    PROVE  /\ Len(t) \in Nat /\ DOMAIN t = 1..Len(t)
           /\ \A j \in 1..Len(t) : t[j] \in Chars
           /\ \A c : c \in Range(t) <=> Occurs(c, t)
           /\ \A c : Occurs(c, t) => c \in Chars
<1>1. Len(t) \in Nat /\ DOMAIN t = 1..Len(t) /\ \A j \in 1..Len(t) : t[j] \in Chars
  BY LenProperties, ElementOfSeq DEF Texts
<1> QED  BY <1>1 DEF Range, Occurs

LEMMA EmptyText ==
    /\ <<>> \in Texts /\ Len(<<>>) = 0 /\ \A c : ~Occurs(c, <<>>)
    /\ <<>> \in Seq(Texts) /\ \A c : ~In(c, <<>>)
  BY DEF Texts, Occurs, In

LEMMA OneChar ==
    ASSUME NEW c \in Chars
    PROVE  <<c>> \in Texts /\ Len(<<c>>) = 1 /\ \A d : Occurs(d, <<c>>) <=> d = c
<1>1. <<c>> \in Seq(Chars) /\ Len(<<c>>) = 1 /\ <<c>>[1] = c
  OBVIOUS
<1>2. 1..1 = {1}
  OBVIOUS
<1> QED  BY <1>1, <1>2 DEF Texts, Occurs

LEMMA Joined ==
    ASSUME NEW s \in Texts, NEW t \in Texts
    PROVE  /\ s \o t \in Texts /\ Len(s \o t) = Len(s) + Len(t)
           /\ \A c : Occurs(c, s \o t) <=> Occurs(c, s) \/ Occurs(c, t)
<1> DEFINE m == Len(s)
           n == Len(t)
<1>1. m \in Nat /\ n \in Nat
  BY OccursIs
<1>2. /\ s \o t \in Texts /\ Len(s \o t) = m + n
      /\ \A i \in 1..m + n : (s \o t)[i] = IF i <= m THEN s[i] ELSE t[i - m]
  BY ConcatProperties DEF Texts
<1> DEFINE st == s \o t
<1> HIDE DEF m, n, st
<1>3. Len(st) = m + n /\ \A i \in 1..m + n : st[i] = IF i <= m THEN s[i] ELSE t[i - m]
  BY <1>2 DEF st
<1>4. ASSUME NEW c, Occurs(c, st)
      PROVE  Occurs(c, s) \/ Occurs(c, t)
  <2>1. PICK i \in 1..m + n : st[i] = c
    BY <1>3, <1>4 DEF Occurs
  <2>2. CASE i <= m
    BY <1>1, <1>3, <2>1, <2>2 DEF Occurs, m
  <2>3. CASE ~(i <= m)
    <3>1. i - m \in 1..n /\ t[i - m] = c
      BY <1>1, <1>3, <2>1, <2>3
    <3> QED  BY <3>1 DEF Occurs, n
  <2> QED  BY <2>2, <2>3
<1>5. ASSUME NEW c, Occurs(c, s)
      PROVE  Occurs(c, st)
  <2>1. PICK i \in 1..m : s[i] = c
    BY <1>5 DEF Occurs, m
  <2>2. i \in 1..m + n /\ st[i] = c
    BY <1>1, <1>3, <2>1
  <2> QED  BY <1>3, <2>2 DEF Occurs
<1>6. ASSUME NEW c, Occurs(c, t)
      PROVE  Occurs(c, st)
  <2>1. PICK i \in 1..n : t[i] = c
    BY <1>6 DEF Occurs, n
  <2>2. i + m \in 1..m + n /\ ~(i + m <= m) /\ (i + m) - m = i
    BY <1>1, <2>1
  <2>3. st[i + m] = c
    BY <1>3, <2>1, <2>2
  <2> QED  BY <1>3, <2>2, <2>3 DEF Occurs
<1> QED  BY <1>2, <1>4, <1>5, <1>6 DEF m, n, st

\* The same of pieces.
LEMMA PiecesAre ==
    ASSUME NEW a \in Seq(Texts)
    PROVE  /\ Len(a) \in Nat /\ DOMAIN a = 1..Len(a)
           /\ \A k \in 1..Len(a) : a[k] \in Texts
  BY LenProperties, ElementOfSeq

LEMMA PiecesJoined ==
    ASSUME NEW a \in Seq(Texts), NEW b \in Seq(Texts), NEW limit
    PROVE  /\ a \o b \in Seq(Texts)
           /\ \A c : In(c, a \o b) <=> In(c, a) \/ In(c, b)
           /\ Fit(a, limit) /\ Fit(b, limit) => Fit(a \o b, limit)
<1> DEFINE m == Len(a)
           n == Len(b)
           st == a \o b
<1>1. m \in Nat /\ n \in Nat
  BY PiecesAre
<1>2. /\ a \o b \in Seq(Texts) /\ Len(a \o b) = m + n
      /\ \A i \in 1..m + n : (a \o b)[i] = IF i <= m THEN a[i] ELSE b[i - m]
  BY ConcatProperties
<1> HIDE DEF m, n, st
<1>3. Len(st) = m + n /\ \A i \in 1..m + n : st[i] = IF i <= m THEN a[i] ELSE b[i - m]
  BY <1>2 DEF st
<1>4. \A i \in 1..m + n : /\ i <= m => i \in 1..m
                          /\ ~(i <= m) => i - m \in 1..n
  BY <1>1
<1>5. \A i \in 1..m : i \in 1..m + n /\ i <= m
  BY <1>1
<1>6. \A i \in 1..n : i + m \in 1..m + n /\ ~(i + m <= m) /\ (i + m) - m = i
  BY <1>1
<1>7. ASSUME NEW c, In(c, st)
      PROVE  In(c, a) \/ In(c, b)
  <2>1. PICK i \in 1..m + n : Occurs(c, st[i])
    BY <1>3, <1>7 DEF In
  <2> QED  BY <1>3, <1>4, <2>1 DEF In, m, n
<1>8. ASSUME NEW c, In(c, a)
      PROVE  In(c, st)
  <2>1. PICK i \in 1..m : Occurs(c, a[i])
    BY <1>8 DEF In, m
  <2>2. i \in 1..m + n /\ st[i] = a[i]
    BY <1>3, <1>5
  <2> QED  BY <1>3, <2>1, <2>2 DEF In
<1>9. ASSUME NEW c, In(c, b)
      PROVE  In(c, st)
  <2>1. PICK i \in 1..n : Occurs(c, b[i])
    BY <1>9 DEF In, n
  <2>2. i + m \in 1..m + n /\ st[i + m] = b[i]
    BY <1>3, <1>6
  <2> QED  BY <1>3, <2>1, <2>2 DEF In
<1>10. ASSUME Fit(a, limit), Fit(b, limit)
       PROVE  Fit(st, limit)
  BY <1>3, <1>4, <1>10 DEF Fit, m, n
<1> QED  BY <1>2, <1>7, <1>8, <1>9, <1>10 DEF st

LEMMA OnePiece ==
    ASSUME NEW t \in Texts, NEW limit
    PROVE  /\ <<t>> \in Seq(Texts) /\ \A c : In(c, <<t>>) <=> Occurs(c, t)
           /\ Fit(<<t>>, limit) <=> Len(t) <= limit
<1>1. <<t>> \in Seq(Texts) /\ Len(<<t>>) = 1 /\ <<t>>[1] = t
  OBVIOUS
<1>2. 1..1 = {1}
  OBVIOUS
<1> QED  BY <1>1, <1>2 DEF In, Fit

LEMMA PieceAppended ==
    ASSUME NEW a \in Seq(Texts), NEW t \in Texts, NEW limit
    PROVE  /\ Append(a, t) \in Seq(Texts)
           /\ \A c : In(c, Append(a, t)) <=> In(c, a) \/ Occurs(c, t)
           /\ Fit(a, limit) /\ Len(t) <= limit => Fit(Append(a, t), limit)
<1>1. Append(a, t) = a \o <<t>>
  BY AppendIsConcat
<1> QED  BY <1>1, OnePiece, PiecesJoined

----------------------------------------------------------------------------
\* Divisions.

LEMMA CeilingIs ==
    ASSUME NEW a \in Nat, NEW b \in Nat \ {0}
    PROVE  /\ Ceiling(a, b) \in Nat
           /\ a <= Ceiling(a, b) * b /\ Ceiling(a, b) * b < a + b
<1>1. ASSUME NEW x \in Nat
      PROVE  x \div b \in Nat /\ b * (x \div b) <= x /\ x < b * (x \div b) + b
  <2>1. x \div b \in Int /\ x \div b >= 0
    OBVIOUS
  <2>2. b * (x \div b) <= x
    OBVIOUS
  <2>3. x < b * (x \div b) + b
    OBVIOUS
  <2> QED  BY <2>1, <2>2, <2>3
<1> DEFINE x == a + b - 1
           y == x \div b
<1>2. x \in Nat /\ x = (a + b) - 1
  OBVIOUS
<1>3. y \in Nat /\ b * y <= x /\ x < b * y + b
  BY <1>1, <1>2
<1>4. Ceiling(a, b) = y
  BY DEF Ceiling
<1> HIDE DEF x, y
<1>5. b * y = y * b /\ b * y \in Nat
  BY <1>3
<1> QED  BY <1>2, <1>3, <1>4, <1>5

\* Dividing evenly into as few as fit leaves none above the limit.
LEMMA EachFits ==
    ASSUME NEW n \in Nat \ {0}, NEW limit \in Nat \ {0}
    PROVE  LET c == Ceiling(n, limit)
               each == Ceiling(n, c)
               m == Ceiling(n, each)
           IN /\ c \in Nat \ {0} /\ each \in Nat \ {0} /\ each <= limit
              /\ m \in Nat /\ n <= m * each /\ (m - 1) * each < n
<1> DEFINE c == Ceiling(n, limit)
           each == Ceiling(n, c)
           m == Ceiling(n, each)
<1>1. c \in Nat /\ n <= c * limit /\ c * limit < n + limit
  BY CeilingIs
<1> HIDE DEF c
<1>2. c # 0
  BY <1>1
<1>3. each \in Nat /\ n <= each * c /\ each * c < n + c
  BY <1>1, <1>2, CeilingIs
<1> HIDE DEF each
<1>4. each # 0
  BY <1>1, <1>3
<1>5. each <= limit
  <2> SUFFICES ASSUME each >= limit + 1 PROVE FALSE
    BY <1>3
  <2>1. each * c >= (limit + 1) * c
    BY <1>1, <1>3
  <2>2. (limit + 1) * c = c * limit + c
    BY <1>1
  <2> QED  BY <1>1, <1>3, <2>1, <2>2
<1>6. m \in Nat /\ n <= m * each /\ m * each < n + each
  BY <1>3, <1>4, CeilingIs
<1> HIDE DEF m
<1>7. (m - 1) * each = m * each - each
  BY <1>3, <1>6
<1>8. (m - 1) * each < n
  BY <1>3, <1>6, <1>7
<1> QED  BY <1>1, <1>2, <1>3, <1>4, <1>5, <1>6, <1>8 DEF c, each, m

----------------------------------------------------------------------------
\* The pieces a separator leaves.

Cuts == Seq(Texts) \ {<<>>}

SplitStep(sep) == [x \in Cuts \X Chars |-> NextChar(x[1], x[2], sep)]

LEMMA NextCharIs ==
    ASSUME NEW parts \in Cuts, NEW c \in Chars, NEW sep
    PROVE  /\ NextChar(parts, c, sep) \in Cuts
           /\ \A d : In(d, NextChar(parts, c, sep)) <=> In(d, parts) \/ d = c
<1> DEFINE n == Len(parts)
           end == Append(parts[n], c)
           longer == [parts EXCEPT ![n] = end]
<1>1. n \in Nat \ {0} /\ n \in 1..n /\ parts \in Seq(Texts) /\ \A k \in 1..n : parts[k] \in Texts
  BY PiecesAre, EmptySeq DEF Cuts
<1>2. /\ end \in Texts /\ \A d : Occurs(d, end) <=> Occurs(d, parts[n]) \/ d = c
  <2>1. end = parts[n] \o <<c>>
    BY <1>1, AppendIsConcat DEF Texts
  <2> QED  BY <1>1, <2>1, OneChar, Joined
<1> HIDE DEF end
<1>3. longer \in Seq(Texts) /\ Len(longer) = n
      /\ \A k \in 1..n : longer[k] = IF k = n THEN end ELSE parts[k]
  BY <1>1, <1>2, ExceptSeq
<1>4. NextChar(parts, c, sep) = IF c = sep THEN Append(longer, <<>>) ELSE longer
  BY DEF NextChar, end
<1> HIDE DEF longer
<1>5. \A d : In(d, longer) <=> In(d, parts) \/ d = c
  BY <1>1, <1>2, <1>3 DEF In
<1>6. longer \in Cuts
  BY <1>1, <1>3 DEF Cuts
<1>7. Append(longer, <<>>) \in Cuts /\ \A d : In(d, Append(longer, <<>>)) <=> In(d, longer)
  <2>1. Append(longer, <<>>) \in Seq(Texts) /\ \A d : In(d, Append(longer, <<>>)) <=> In(d, longer)
    BY <1>3, EmptyText, PieceAppended
  <2>2. Append(longer, <<>>) # <<>>
    BY <1>3, EmptyText, AppendProperties
  <2> QED  BY <2>1, <2>2 DEF Cuts
<1> QED  BY <1>4, <1>5, <1>6, <1>7

LEMMA SplitGoes ==
    ASSUME NEW text \in Texts, NEW sep
    PROVE  Reaches(Cuts, SplitStep(sep), <<<<>>>>, text, SplitAfter(text, sep))
<1> DEFINE step == SplitStep(sep)
           n == Len(text)
<1>1. n \in Nat /\ DOMAIN text = 1..n /\ \A i \in 1..n : text[i] \in Chars
  BY LenProperties, ElementOfSeq DEF Texts
<1>2. \A a \in Cuts, b \in Chars : NextChar(a, b, sep) \in Cuts
  BY NextCharIs
<1>3. step \in [Cuts \X Chars -> Cuts]
  BY <1>2 DEF SplitStep
<1>4. \A a \in Cuts, b \in Chars : step[<<a, b>>] = NextChar(a, b, sep)
  BY DEF SplitStep
<1> HIDE DEF step
<1>5. <<<<>>>> \in Cuts /\ text \in Seq(Chars)
  BY EmptyText, OnePiece DEF Cuts, Texts
<1>6. PICK g \in [SUBSET (1..n) -> Cuts] : Iterates(g, n, step, <<<<>>>>, text)
  BY <1>3, <1>5, FoldExists
<1> HIDE DEF n
<1>7. \A t \in SUBSET (1..n) : t # {} => Max(t) \in 1..n /\ t \ {Max(t)} \in SUBSET (1..n)
  BY <1>1, MaxInside
<1>8. \A t \in SUBSET (1..n) :
         g[t] = IF t = {} THEN <<<<>>>> ELSE NextChar(g[t \ {Max(t)}], text[Max(t)], sep)
  BY <1>1, <1>4, <1>6, <1>7 DEF Iterates
<1> DEFINE Solved(f) == f = [t \in SUBSET (1..n) |->
                               IF t = {} THEN <<<<>>>> ELSE NextChar(f[t \ {Max(t)}], text[Max(t)], sep)]
           iter == CHOOSE f : Solved(f)
<1>9. Solved(g)
  BY <1>6, <1>8
<1>10. Solved(iter)
  <2> HIDE DEF Solved
  <2> QED  BY <1>9
<1>11. SplitAfter(text, sep) = iter[1..n]
  BY <1>1 DEF SplitAfter, FoldLeft, MapThenFoldSet
<1>12. Recurs(iter, Cuts, n, step, <<<<>>>>, text)
  <2> HIDE DEF iter
  <2> QED  BY <1>1, <1>4, <1>7, <1>10 DEF Recurs
<1> HIDE DEF iter
<1>13. Reaches(Cuts, step, <<<<>>>>, text, iter[1..n])
  BY <1>3, <1>5, <1>12, FoldReaches DEF n
<1> QED  BY <1>11, <1>13 DEF step

LEMMA SplitAfterIs ==
    ASSUME NEW t \in Texts, NEW sep
    PROVE  HoldAll(SplitAfter(t, sep), t)
<1> DEFINE step == SplitStep(sep)
           last == SplitAfter(t, sep)
           I == {x \in Nat \X Cuts : \A c : In(c, x[2]) <=> \E j \in 1..x[1] : t[j] = c}
<1>1. Reaches(Cuts, step, <<<<>>>>, t, last)
  BY SplitGoes
<1>2. /\ step \in [Cuts \X Chars -> Cuts]
      /\ \A a \in Cuts, b \in Chars : step[<<a, b>>] = NextChar(a, b, sep)
  BY NextCharIs DEF SplitStep
<1>3. <<<<>>>> \in Cuts /\ \A c : ~In(c, <<<<>>>>)
  BY EmptyText, OnePiece DEF Cuts
<1>4. <<0, <<<<>>>>>> \in I
  BY <1>3
<1>5. Len(t) \in Nat /\ t \in Seq(Chars) /\ \A i \in 1..Len(t) : t[i] \in Chars
  BY OccursIs DEF Texts
<1> HIDE DEF step, last
<1>6. ASSUME NEW i \in 1..Len(t), NEW a \in Cuts, <<i - 1, a>> \in I
      PROVE  <<i, step[<<a, t[i]>>]>> \in I
  <2> DEFINE b == step[<<a, t[i]>>]
  <2>1. b \in Cuts /\ \A c : In(c, b) <=> In(c, a) \/ c = t[i]
    BY <1>2, <1>5, NextCharIs
  <2>2. \A c : In(c, a) <=> \E j \in 1..i - 1 : t[j] = c
    BY <1>6
  <2>3. \A j : j \in 1..i <=> j \in 1..i - 1 \/ j = i
    BY <1>5
  <2> HIDE DEF b
  <2>4. \A c : In(c, b) <=> \E j \in 1..i : t[j] = c
    BY <2>1, <2>2, <2>3
  <2> QED  BY <1>5, <2>1, <2>4 DEF b
<1> HIDE DEF I
<1>7. last \in Cuts /\ <<Len(t), last>> \in I
  <2>1. Lasts(I, Cuts, step, t)
    BY <1>6 DEF Lasts
  <2> QED  BY <1>1, <1>2, <1>3, <1>4, <1>5, <2>1, FoldKeeps
<1>8. \A c : In(c, last) <=> \E j \in 1..Len(t) : t[j] = c
  BY <1>7 DEF I
<1> QED  BY <1>7, <1>8 DEF HoldAll, Occurs, Cuts, last

----------------------------------------------------------------------------
\* Neighbours merged.

Accs == [out : Seq(Texts), current : Texts]

PackStep(limit) == [x \in Accs \X Texts |-> NextPiece(x[1], x[2], limit)]

LEMMA NextPieceIs ==
    ASSUME NEW acc \in Accs, NEW p \in Texts, NEW limit
    PROVE  /\ NextPiece(acc, p, limit) \in Accs
           /\ \A c : In(c, NextPiece(acc, p, limit).out) \/ Occurs(c, NextPiece(acc, p, limit).current)
                        <=> In(c, acc.out) \/ Occurs(c, acc.current) \/ Occurs(c, p)
<1> DEFINE next == NextPiece(acc, p, limit)
<1>1. acc.out \in Seq(Texts) /\ acc.current \in Texts
  BY DEF Accs
<1>2. CASE Len(acc.current) + Len(p) <= limit
  <2>1. next = [acc EXCEPT !.current = acc.current \o p]
    BY <1>2 DEF NextPiece
  <2>2. next \in Accs /\ next.out = acc.out /\ next.current = acc.current \o p
    BY <1>1, <2>1, Joined DEF Accs
  <2> HIDE DEF next
  <2>3. \A c : Occurs(c, next.current) <=> Occurs(c, acc.current) \/ Occurs(c, p)
    BY <1>1, <2>2, Joined
  <2> QED  BY <2>2, <2>3 DEF next
<1>3. CASE ~(Len(acc.current) + Len(p) <= limit) /\ Len(p) > limit
  <2> DEFINE both == acc.current \o p
  <2>1. next = [out |-> Append(acc.out, both), current |-> <<>>]
    BY <1>3 DEF NextPiece
  <2>2. both \in Texts /\ \A c : Occurs(c, both) <=> Occurs(c, acc.current) \/ Occurs(c, p)
    BY <1>1, Joined
  <2> HIDE DEF both
  <2>3. Append(acc.out, both) \in Seq(Texts) /\ \A c : In(c, Append(acc.out, both)) <=> In(c, acc.out) \/ Occurs(c, both)
    BY <1>1, <2>2, PieceAppended
  <2>4. next \in Accs /\ next.out = Append(acc.out, both) /\ next.current = <<>>
    BY <2>1, <2>3, EmptyText DEF Accs
  <2> HIDE DEF next
  <2> QED  BY <2>2, <2>3, <2>4, EmptyText DEF next
<1>4. CASE ~(Len(acc.current) + Len(p) <= limit) /\ ~(Len(p) > limit)
  <2> DEFINE out == IF acc.current = <<>> THEN acc.out ELSE Append(acc.out, acc.current)
  <2>1. next = [out |-> out, current |-> p]
    BY <1>4 DEF NextPiece
  <2>2. out \in Seq(Texts) /\ \A c : In(c, out) <=> In(c, acc.out) \/ Occurs(c, acc.current)
    BY <1>1, PieceAppended, EmptyText
  <2> HIDE DEF out
  <2>3. next \in Accs /\ next.out = out /\ next.current = p
    BY <2>1, <2>2 DEF Accs
  <2> HIDE DEF next
  <2> QED  BY <2>2, <2>3 DEF next
<1> QED  BY <1>2, <1>3, <1>4

PackFold(parts, limit) ==
    FoldLeft(LAMBDA acc, p : NextPiece(acc, p, limit), [out |-> <<>>, current |-> <<>>], parts)

LEMMA PackGoes ==
    ASSUME NEW parts \in Seq(Texts), NEW limit
    PROVE  Reaches(Accs, PackStep(limit), [out |-> <<>>, current |-> <<>>], parts, PackFold(parts, limit))
<1> DEFINE step == PackStep(limit)
           n == Len(parts)
<1>1. n \in Nat /\ DOMAIN parts = 1..n /\ \A i \in 1..n : parts[i] \in Texts
  BY LenProperties, ElementOfSeq
<1>2. \A a \in Accs, b \in Texts : NextPiece(a, b, limit) \in Accs
  BY NextPieceIs
<1>3. step \in [Accs \X Texts -> Accs]
  BY <1>2 DEF PackStep
<1>4. \A a \in Accs, b \in Texts : step[<<a, b>>] = NextPiece(a, b, limit)
  BY DEF PackStep
<1> HIDE DEF step
<1>5. [out |-> <<>>, current |-> <<>>] \in Accs /\ parts \in Seq(Texts)
  BY EmptyText DEF Accs
<1>6. PICK g \in [SUBSET (1..n) -> Accs] : Iterates(g, n, step, [out |-> <<>>, current |-> <<>>], parts)
  BY <1>3, <1>5, FoldExists
<1> HIDE DEF n
<1>7. \A t \in SUBSET (1..n) : t # {} => Max(t) \in 1..n /\ t \ {Max(t)} \in SUBSET (1..n)
  BY <1>1, MaxInside
<1>8. \A t \in SUBSET (1..n) :
         g[t] = IF t = {} THEN [out |-> <<>>, current |-> <<>>] ELSE NextPiece(g[t \ {Max(t)}], parts[Max(t)], limit)
  BY <1>1, <1>4, <1>6, <1>7 DEF Iterates
<1> DEFINE Solved(f) == f = [t \in SUBSET (1..n) |->
                               IF t = {} THEN [out |-> <<>>, current |-> <<>>] ELSE NextPiece(f[t \ {Max(t)}], parts[Max(t)], limit)]
           iter == CHOOSE f : Solved(f)
<1>9. Solved(g)
  BY <1>6, <1>8
<1>10. Solved(iter)
  <2> HIDE DEF Solved
  <2> QED  BY <1>9
<1>11. PackFold(parts, limit) = iter[1..n]
  BY <1>1 DEF PackFold, FoldLeft, MapThenFoldSet
<1>12. Recurs(iter, Accs, n, step, [out |-> <<>>, current |-> <<>>], parts)
  <2> HIDE DEF iter
  <2> QED  BY <1>1, <1>4, <1>7, <1>10 DEF Recurs
<1> HIDE DEF iter
<1>13. Reaches(Accs, step, [out |-> <<>>, current |-> <<>>], parts, iter[1..n])
  BY <1>3, <1>5, <1>12, FoldReaches DEF n
<1> QED  BY <1>11, <1>13 DEF step

LEMMA PackedIs ==
    ASSUME NEW parts \in Seq(Texts), NEW limit
    PROVE  /\ Packed(parts, limit) \in Seq(Texts)
           /\ \A c : In(c, Packed(parts, limit)) <=> In(c, parts)
<1> DEFINE step == PackStep(limit)
           base == [out |-> <<>>, current |-> <<>>]
           last == PackFold(parts, limit)
           I == {x \in Nat \X Accs : \A c : In(c, x[2].out) \/ Occurs(c, x[2].current)
                                               <=> \E j \in 1..x[1] : Occurs(c, parts[j])}
<1>1. Reaches(Accs, step, base, parts, last)
  BY PackGoes
<1>2. /\ step \in [Accs \X Texts -> Accs]
      /\ \A a \in Accs, p \in Texts : step[<<a, p>>] = NextPiece(a, p, limit)
  BY NextPieceIs DEF PackStep
<1>3. base \in Accs /\ base.out = <<>> /\ base.current = <<>>
  BY EmptyText DEF Accs
<1>4. Packed(parts, limit) = IF last.current = <<>> THEN last.out ELSE Append(last.out, last.current)
  BY DEF Packed, PackFold
<1> HIDE DEF step, last, base
<1>5. <<0, base>> \in I
  BY <1>3, EmptyText
<1>6. Len(parts) \in Nat /\ \A i \in 1..Len(parts) : parts[i] \in Texts
  BY PiecesAre
<1>7. ASSUME NEW i \in 1..Len(parts), NEW a \in Accs, <<i - 1, a>> \in I
      PROVE  <<i, step[<<a, parts[i]>>]>> \in I
  <2> DEFINE b == step[<<a, parts[i]>>]
  <2>1. /\ b \in Accs
        /\ \A c : In(c, b.out) \/ Occurs(c, b.current)
                     <=> In(c, a.out) \/ Occurs(c, a.current) \/ Occurs(c, parts[i])
    BY <1>2, <1>6, NextPieceIs
  <2>2. \A c : In(c, a.out) \/ Occurs(c, a.current) <=> \E j \in 1..i - 1 : Occurs(c, parts[j])
    BY <1>7
  <2>3. \A j : j \in 1..i <=> j \in 1..i - 1 \/ j = i
    BY <1>6
  <2> HIDE DEF b
  <2>4. \A c : In(c, b.out) \/ Occurs(c, b.current) <=> \E j \in 1..i : Occurs(c, parts[j])
    BY <2>1, <2>2, <2>3
  <2>5. i \in Nat /\ b \in Accs
    BY <1>6, <2>1
  <2> QED  BY <2>4, <2>5 DEF b
<1> HIDE DEF I
<1>8. last \in Accs /\ <<Len(parts), last>> \in I
  <2>1. Lasts(I, Accs, step, parts)
    BY <1>7 DEF Lasts
  <2> QED  BY <1>1, <1>2, <1>3, <1>5, <2>1, FoldKeeps
<1>9. \A c : In(c, last.out) \/ Occurs(c, last.current) <=> In(c, parts)
  BY <1>8 DEF I, In
<1>10. last.out \in Seq(Texts) /\ last.current \in Texts
  BY <1>8 DEF Accs
<1>11. CASE last.current = <<>>
  <2>1. \A c : ~Occurs(c, last.current)
    BY <1>11, EmptyText
  <2> QED  BY <1>4, <1>9, <1>10, <1>11, <2>1
<1>12. CASE last.current # <<>>
  <2> DEFINE both == Append(last.out, last.current)
  <2>1. both \in Seq(Texts) /\ \A c : In(c, both) <=> In(c, last.out) \/ Occurs(c, last.current)
    BY <1>10, PieceAppended
  <2>2. Packed(parts, limit) = both
    BY <1>4, <1>12
  <2> HIDE DEF both
  <2> QED  BY <1>9, <2>1, <2>2
<1> QED  BY <1>11, <1>12

\* An even division of a text that does not fit.
LEMMA BalancedIs ==
    ASSUME NEW t \in Texts, NEW limit \in Nat \ {0}, Len(t) > limit
    PROVE  HoldAll(Balanced(t, limit), t) /\ Fit(Balanced(t, limit), limit)
<1> DEFINE n == Len(t)
           each == Ceiling(n, Ceiling(n, limit))
           m == Ceiling(n, each)
           Until(k) == Min({k * each, n})
           Part(k) == SubSeq(t, (k - 1) * each + 1, Until(k))
<1>1. n \in Nat \ {0}
  BY OccursIs
<1>2. Balanced(t, limit) = [k \in 1..m |-> Part(k)]
  BY DEF Balanced
<1> HIDE DEF n
<1>3. each \in Nat \ {0} /\ each <= limit /\ m \in Nat /\ n <= m * each /\ (m - 1) * each < n
  BY <1>1, EachFits
<1> HIDE DEF each, m
<1>4. ASSUME NEW k \in 1..m
      PROVE  /\ Until(k) = IF k * each <= n THEN k * each ELSE n
             /\ (k - 1) * each \in Nat /\ k * each = (k - 1) * each + each
             /\ (k - 1) * each < n
  <2>1. k \in Nat /\ k - 1 \in Nat /\ k * each \in Nat /\ (k - 1) * each \in Nat
    BY <1>3
  <2>2. k * each = (k - 1) * each + each
    BY <1>3, <2>1
  <2>3. \A x, y \in Nat : Min({x, y}) = IF x <= y THEN x ELSE y
    BY DEF Min
  <2>4. (k - 1) * each <= (m - 1) * each
    BY <1>3, <2>1
  <2>5. Until(k) = IF k * each <= n THEN k * each ELSE n
    BY <1>1, <2>1, <2>3
  <2>6. (m - 1) * each \in Int
    BY <1>3
  <2> HIDE DEF Until
  <2> QED  BY <1>1, <1>3, <2>1, <2>2, <2>4, <2>5, <2>6
<1>5. ASSUME NEW k \in 1..m
      PROVE  /\ Part(k) \in Texts /\ Len(Part(k)) <= limit
             /\ \A j \in 1..Len(Part(k)) : /\ Part(k)[j] = t[(k - 1) * each + j]
                                           /\ (k - 1) * each + j \in 1..n
             /\ \A j \in (k - 1) * each + 1 .. Until(k) :
                   /\ j - (k - 1) * each \in 1..Len(Part(k))
                   /\ Part(k)[j - (k - 1) * each] = t[j]
  <2> DEFINE a == (k - 1) * each
             u == Until(k)
  <2>1. /\ a \in Nat /\ a < n /\ u \in Nat /\ a + 1 <= u /\ u <= n /\ u <= a + each
    BY <1>1, <1>3, <1>4
  <2> HIDE DEF a, u
  <2>2. t \in Seq(Chars) /\ a + 1 \in 1..n /\ u \in 1..n
    BY <1>1, <2>1 DEF Texts
  <2> DEFINE p == SubSeq(t, a + 1, u)
  <2>3. p \in Seq(Chars) /\ Len(p) = (u - a) /\ \A j \in 1..u - a : p[j] = t[a + j]
    <3>1. a + 1 \in 1..Len(t) + 1 /\ u \in a + 1 - 1..Len(t)
      BY <2>1, <2>2 DEF n
    <3>2. /\ p \in Seq(Chars)
          /\ Len(p) = IF a + 1 <= u THEN u - (a + 1) + 1 ELSE 0
          /\ \A j \in 1..u - (a + 1) + 1 : p[j] = t[(a + 1) + j - 1]
      BY <2>2, <3>1, SubSeqProperties
    <3>3. u - (a + 1) + 1 = u - a /\ \A j \in 1..u - a : (a + 1) + j - 1 = a + j
      BY <2>1
    <3> HIDE DEF p
    <3> QED  BY <2>1, <3>2, <3>3
  <2>4. Part(k) = p
    BY DEF a, u
  <2> HIDE DEF p, Part
  <2>5. u - a <= limit
    BY <1>3, <2>1
  <2>6. \A j \in 1..u - a : a + j \in 1..n
    BY <1>1, <2>1
  <2>7. \A j \in a + 1..u : j - a \in 1..u - a /\ a + (j - a) = j
    BY <2>1
  <2>8. \A j \in a + 1..u : j - a \in 1..Len(p) /\ p[j - a] = t[j]
    BY <2>3, <2>7
  <2>9. p \in Texts /\ Len(p) <= limit /\ \A j \in 1..Len(p) : p[j] = t[a + j] /\ a + j \in 1..n
    BY <2>3, <2>5, <2>6 DEF Texts
  <2> QED  BY <2>4, <2>8, <2>9 DEF a, u
<1> DEFINE parts == [k \in 1..m |-> Part(k)]
<1> HIDE DEF Part
<1>6. parts \in Seq(Texts) /\ Len(parts) = m /\ \A k \in 1..m : parts[k] = Part(k)
  <2>1. \A k \in 1..m : Part(k) \in Texts
    BY <1>5
  <2> QED  BY <1>3, <2>1
<1>7. Fit(parts, limit)
  BY <1>5, <1>6 DEF Fit
<1>8. ASSUME NEW c, In(c, parts)
      PROVE  Occurs(c, t)
  <2>1. PICK k \in 1..m : Occurs(c, Part(k))
    BY <1>6, <1>8 DEF In
  <2>2. PICK j \in 1..Len(Part(k)) : Part(k)[j] = c
    BY <2>1 DEF Occurs
  <2> QED  BY <1>5, <2>2 DEF Occurs, n
<1>9. ASSUME NEW c, Occurs(c, t)
      PROVE  In(c, parts)
  <2>1. PICK j \in 1..n : t[j] = c
    BY <1>9 DEF Occurs, n
  <2> DEFINE k == Ceiling(j, each)
  <2>2. k \in Nat /\ j <= k * each /\ k * each < j + each
    <3>1. j \in Nat
      BY <1>1
    <3> QED  BY <1>3, <3>1, CeilingIs
  <2> HIDE DEF k
  <2>3. k >= 1
    BY <1>1, <2>2, <1>3
  <2>4. k <= m
    <3> SUFFICES ASSUME k >= m + 1 PROVE FALSE
      BY <1>3, <2>2
    <3>1. k * each >= (m + 1) * each
      BY <1>3, <2>2
    <3>2. (m + 1) * each = m * each + each /\ m * each \in Nat /\ k * each \in Nat
      BY <1>3, <2>2
    <3> QED  BY <1>1, <1>3, <2>2, <3>1, <3>2
  <2>5. k \in 1..m
    BY <1>3, <2>2, <2>3, <2>4
  <2>6. j \in (k - 1) * each + 1..Until(k)
    <3>1. /\ Until(k) = IF k * each <= n THEN k * each ELSE n
          /\ (k - 1) * each \in Nat /\ k * each = (k - 1) * each + each
      BY <1>4, <2>5
    <3> DEFINE a == (k - 1) * each
    <3> HIDE DEF Until, a
    <3> QED  BY <1>1, <1>3, <2>2, <3>1 DEF a
  <2>7. Occurs(c, Part(k))
    BY <1>5, <2>1, <2>5, <2>6 DEF Occurs
  <2> QED  BY <1>6, <2>5, <2>7 DEF In
<1> QED  BY <1>2, <1>6, <1>7, <1>8, <1>9 DEF HoldAll
----------------------------------------------------------------------------
\* What is still too long is divided again, in its place.

SpreadStep(each) == [x \in Seq(Texts) \X Texts |-> x[1] \o each[x[2]]]

\* Divides a piece into pieces that hold what it does and fit.
Divides(each, limit) ==
    /\ each \in [Texts -> Seq(Texts)]
    /\ \A p \in Texts : HoldAll(each[p], p) /\ Fit(each[p], limit)

LEMMA SpreadIs ==
    ASSUME NEW parts \in Seq(Texts), NEW limit, NEW each, Divides(each, limit),
           NEW last, Reaches(Seq(Texts), SpreadStep(each), <<>>, parts, last)
    PROVE  /\ last \in Seq(Texts) /\ Fit(last, limit)
           /\ \A c : In(c, last) <=> In(c, parts)
<1> DEFINE step == SpreadStep(each)
           I == {x \in Nat \X Seq(Texts) : /\ Fit(x[2], limit)
                                           /\ \A c : In(c, x[2]) <=> \E j \in 1..x[1] : Occurs(c, parts[j])}
<1>1. \A p \in Texts : each[p] \in Seq(Texts) /\ Fit(each[p], limit) /\ \A c : In(c, each[p]) <=> Occurs(c, p)
  BY DEF Divides, HoldAll
<1>2. /\ step \in [Seq(Texts) \X Texts -> Seq(Texts)]
      /\ \A a \in Seq(Texts), p \in Texts : step[<<a, p>>] = a \o each[p]
  <2>1. \A a \in Seq(Texts), p \in Texts : a \o each[p] \in Seq(Texts)
    BY <1>1, PiecesJoined
  <2> QED  BY <2>1 DEF SpreadStep
<1>3. <<>> \in Seq(Texts) /\ Fit(<<>>, limit) /\ \A c : ~In(c, <<>>)
  BY EmptyText DEF Fit
<1>4. <<0, <<>>>> \in I
  <2>1. ~\E j : j \in 1..0
    OBVIOUS
  <2> DEFINE none == <<>>
  <2>2. none \in Seq(Texts) /\ Fit(none, limit) /\ \A c : ~In(c, none)
    BY <1>3
  <2> HIDE DEF none
  <2> QED  BY <2>1, <2>2 DEF none
<1>5. Len(parts) \in Nat /\ \A i \in 1..Len(parts) : parts[i] \in Texts
  BY PiecesAre
<1> HIDE DEF step
<1>6. ASSUME NEW i \in 1..Len(parts), NEW a \in Seq(Texts), <<i - 1, a>> \in I
      PROVE  <<i, step[<<a, parts[i]>>]>> \in I
  <2> DEFINE b == step[<<a, parts[i]>>]
             p == parts[i]
  <2>1. p \in Texts /\ b = a \o each[p]
    BY <1>2, <1>5
  <2>2. Fit(a, limit) /\ \A c : In(c, a) <=> \E j \in 1..i - 1 : Occurs(c, parts[j])
    BY <1>6
  <2>3. \A j : j \in 1..i <=> j \in 1..i - 1 \/ j = i
    BY <1>5
  <2> HIDE DEF b
  <2>4. b \in Seq(Texts) /\ Fit(b, limit) /\ \A c : In(c, b) <=> In(c, a) \/ In(c, each[p])
    BY <1>1, <2>1, <2>2, PiecesJoined
  <2>5. \A c : In(c, each[p]) <=> Occurs(c, p)
    BY <1>1, <2>1
  <2>6. \A c : In(c, b) <=> \E j \in 1..i : Occurs(c, parts[j])
    BY <2>2, <2>3, <2>4, <2>5
  <2>7. i \in Nat
    BY <1>5
  <2> QED  BY <2>4, <2>6, <2>7 DEF b
<1> HIDE DEF I
<1>7. last \in Seq(Texts) /\ <<Len(parts), last>> \in I
  <2>1. Lasts(I, Seq(Texts), step, parts)
    BY <1>6 DEF Lasts
  <2> QED  BY <1>2, <1>3, <1>4, <1>5, <2>1, FoldKeeps DEF step
<1> QED  BY <1>7 DEF I, In

LEMMA PieceOrParts ==
    ASSUME NEW p \in Texts, NEW limit \in Nat, NEW parts, Len(p) > limit => HoldAll(parts, p) /\ Fit(parts, limit)
    PROVE  LET all == IF Len(p) <= limit THEN <<p>> ELSE parts
           IN HoldAll(all, p) /\ Fit(all, limit)
<1>1. CASE Len(p) <= limit
  BY <1>1, OnePiece DEF HoldAll
<1>2. CASE ~(Len(p) <= limit)
  <2>1. Len(p) \in Nat
    BY OccursIs
  <2>2. Len(p) > limit
    BY <1>2, <2>1
  <2> QED  BY <1>2, <2>2
<1> QED  BY <1>1, <1>2

WordCut(limit) == [p \in Texts |-> IF Len(p) <= limit THEN <<p>> ELSE Balanced(p, limit)]

WordFold(parts, limit) ==
    FoldLeft(LAMBDA out, p : out \o (IF Len(p) <= limit THEN <<p>> ELSE Balanced(p, limit)), <<>>, parts)

LEMMA WordCutIs ==
    ASSUME NEW limit \in Nat \ {0}
    PROVE  /\ Divides(WordCut(limit), limit)
           /\ \A a \in Seq(Texts), b \in Texts :
                 a \o (IF Len(b) <= limit THEN <<b>> ELSE Balanced(b, limit)) \in Seq(Texts)
<1> DEFINE One(p) == IF Len(p) <= limit THEN <<p>> ELSE Balanced(p, limit)
<1>1. ASSUME NEW p \in Texts
      PROVE  HoldAll(One(p), p) /\ Fit(One(p), limit)
  <2>1. Len(p) > limit => HoldAll(Balanced(p, limit), p) /\ Fit(Balanced(p, limit), limit)
    BY BalancedIs
  <2> QED  BY <2>1, PieceOrParts
<1>2. \A p \in Texts : One(p) \in Seq(Texts)
  BY <1>1 DEF HoldAll
<1>3. WordCut(limit) = [p \in Texts |-> One(p)]
  BY DEF WordCut
<1>4. \A a \in Seq(Texts), b \in Texts : a \o One(b) \in Seq(Texts)
  BY <1>2, PiecesJoined
<1>5. \A a \in Seq(Texts), b \in Texts :
         a \o (IF Len(b) <= limit THEN <<b>> ELSE Balanced(b, limit)) \in Seq(Texts)
  BY <1>4
<1> HIDE DEF One
<1> QED  BY <1>1, <1>2, <1>3, <1>5 DEF Divides

LEMMA WordsGoes ==
    ASSUME NEW parts \in Seq(Texts), NEW limit \in Nat \ {0}
    PROVE  Reaches(Seq(Texts), SpreadStep(WordCut(limit)), <<>>, parts, WordFold(parts, limit))
<1> DEFINE step == SpreadStep(WordCut(limit))
           n == Len(parts)
<1>1. n \in Nat /\ DOMAIN parts = 1..n /\ \A i \in 1..n : parts[i] \in Texts
  BY LenProperties, ElementOfSeq
<1>2. \A a \in Seq(Texts), b \in Texts : a \o (IF Len(b) <= limit THEN <<b>> ELSE Balanced(b, limit)) \in Seq(Texts)
  BY WordCutIs
<1>3. step \in [Seq(Texts) \X Texts -> Seq(Texts)]
  BY <1>2 DEF SpreadStep, WordCut
<1>4. \A a \in Seq(Texts), b \in Texts : step[<<a, b>>] = a \o (IF Len(b) <= limit THEN <<b>> ELSE Balanced(b, limit))
  BY DEF SpreadStep, WordCut
<1> HIDE DEF step
<1>5. <<>> \in Seq(Texts) /\ parts \in Seq(Texts)
  BY EmptyText
<1>6. PICK g \in [SUBSET (1..n) -> Seq(Texts)] : Iterates(g, n, step, <<>>, parts)
  BY <1>3, <1>5, FoldExists
<1> HIDE DEF n
<1>7. \A t \in SUBSET (1..n) : t # {} => Max(t) \in 1..n /\ t \ {Max(t)} \in SUBSET (1..n)
  BY <1>1, MaxInside
<1>8. \A t \in SUBSET (1..n) :
         g[t] = IF t = {} THEN <<>> ELSE g[t \ {Max(t)}] \o (IF Len(parts[Max(t)]) <= limit THEN <<parts[Max(t)]>> ELSE Balanced(parts[Max(t)], limit))
  BY <1>1, <1>4, <1>6, <1>7 DEF Iterates
<1> DEFINE Solved(f) == f = [t \in SUBSET (1..n) |->
                               IF t = {} THEN <<>> ELSE f[t \ {Max(t)}] \o (IF Len(parts[Max(t)]) <= limit THEN <<parts[Max(t)]>> ELSE Balanced(parts[Max(t)], limit))]
           iter == CHOOSE f : Solved(f)
<1>9. Solved(g)
  BY <1>6, <1>8
<1>10. Solved(iter)
  <2> HIDE DEF Solved
  <2> QED  BY <1>9
<1>11. WordFold(parts, limit) = iter[1..n]
  BY <1>1 DEF WordFold, FoldLeft, MapThenFoldSet
<1>12. Recurs(iter, Seq(Texts), n, step, <<>>, parts)
  <2> HIDE DEF iter
  <2> QED  BY <1>1, <1>4, <1>7, <1>10 DEF Recurs
<1> HIDE DEF iter
<1>13. Reaches(Seq(Texts), step, <<>>, parts, iter[1..n])
  BY <1>3, <1>5, <1>12, FoldReaches DEF n
<1> QED  BY <1>11, <1>13 DEF step

LEMMA SplitWordsIs ==
    ASSUME NEW t \in Texts, NEW limit \in Nat \ {0}
    PROVE  HoldAll(SplitWords(t, limit), t) /\ Fit(SplitWords(t, limit), limit)
<1> DEFINE cuts == SplitAfter(t, Space)
           parts == Packed(cuts, limit)
<1>1. cuts \in Seq(Texts) /\ \A c : In(c, cuts) <=> Occurs(c, t)
  BY SplitAfterIs DEF HoldAll
<1>2. SplitWords(t, limit) = WordFold(parts, limit)
  BY DEF SplitWords, WordFold
<1> HIDE DEF cuts
<1>3. parts \in Seq(Texts) /\ \A c : In(c, parts) <=> In(c, cuts)
  BY <1>1, PackedIs
<1> HIDE DEF parts
<1>4. Reaches(Seq(Texts), SpreadStep(WordCut(limit)), <<>>, parts, WordFold(parts, limit))
  BY <1>3, WordsGoes
<1> DEFINE last == WordFold(parts, limit)
<1> HIDE DEF last
<1>5. last \in Seq(Texts) /\ Fit(last, limit) /\ \A c : In(c, last) <=> In(c, parts)
  BY <1>3, <1>4, WordCutIs, SpreadIs DEF last
<1> QED  BY <1>1, <1>2, <1>3, <1>5 DEF HoldAll, last

LineCut(limit) == [p \in Texts |-> IF Len(p) <= limit THEN <<p>> ELSE SplitWords(p, limit)]

LineFold(parts, limit) ==
    FoldLeft(LAMBDA out, p : out \o (IF Len(p) <= limit THEN <<p>> ELSE SplitWords(p, limit)), <<>>, parts)

LEMMA LineCutIs ==
    ASSUME NEW limit \in Nat \ {0}
    PROVE  /\ Divides(LineCut(limit), limit)
           /\ \A a \in Seq(Texts), b \in Texts :
                 a \o (IF Len(b) <= limit THEN <<b>> ELSE SplitWords(b, limit)) \in Seq(Texts)
<1> DEFINE One(p) == IF Len(p) <= limit THEN <<p>> ELSE SplitWords(p, limit)
<1>1. ASSUME NEW p \in Texts
      PROVE  HoldAll(One(p), p) /\ Fit(One(p), limit)
  <2>1. Len(p) > limit => HoldAll(SplitWords(p, limit), p) /\ Fit(SplitWords(p, limit), limit)
    BY SplitWordsIs
  <2> QED  BY <2>1, PieceOrParts
<1>2. \A p \in Texts : One(p) \in Seq(Texts)
  BY <1>1 DEF HoldAll
<1>3. LineCut(limit) = [p \in Texts |-> One(p)]
  BY DEF LineCut
<1>4. \A a \in Seq(Texts), b \in Texts : a \o One(b) \in Seq(Texts)
  BY <1>2, PiecesJoined
<1>5. \A a \in Seq(Texts), b \in Texts :
         a \o (IF Len(b) <= limit THEN <<b>> ELSE SplitWords(b, limit)) \in Seq(Texts)
  BY <1>4
<1> HIDE DEF One
<1> QED  BY <1>1, <1>2, <1>3, <1>5 DEF Divides

LEMMA LinewiseGoes ==
    ASSUME NEW parts \in Seq(Texts), NEW limit \in Nat \ {0}
    PROVE  Reaches(Seq(Texts), SpreadStep(LineCut(limit)), <<>>, parts, LineFold(parts, limit))
<1> DEFINE step == SpreadStep(LineCut(limit))
           n == Len(parts)
<1>1. n \in Nat /\ DOMAIN parts = 1..n /\ \A i \in 1..n : parts[i] \in Texts
  BY LenProperties, ElementOfSeq
<1>2. \A a \in Seq(Texts), b \in Texts : a \o (IF Len(b) <= limit THEN <<b>> ELSE SplitWords(b, limit)) \in Seq(Texts)
  BY LineCutIs
<1>3. step \in [Seq(Texts) \X Texts -> Seq(Texts)]
  BY <1>2 DEF SpreadStep, LineCut
<1>4. \A a \in Seq(Texts), b \in Texts : step[<<a, b>>] = a \o (IF Len(b) <= limit THEN <<b>> ELSE SplitWords(b, limit))
  BY DEF SpreadStep, LineCut
<1> HIDE DEF step
<1>5. <<>> \in Seq(Texts) /\ parts \in Seq(Texts)
  BY EmptyText
<1>6. PICK g \in [SUBSET (1..n) -> Seq(Texts)] : Iterates(g, n, step, <<>>, parts)
  BY <1>3, <1>5, FoldExists
<1> HIDE DEF n
<1>7. \A t \in SUBSET (1..n) : t # {} => Max(t) \in 1..n /\ t \ {Max(t)} \in SUBSET (1..n)
  BY <1>1, MaxInside
<1>8. \A t \in SUBSET (1..n) :
         g[t] = IF t = {} THEN <<>> ELSE g[t \ {Max(t)}] \o (IF Len(parts[Max(t)]) <= limit THEN <<parts[Max(t)]>> ELSE SplitWords(parts[Max(t)], limit))
  BY <1>1, <1>4, <1>6, <1>7 DEF Iterates
<1> DEFINE Solved(f) == f = [t \in SUBSET (1..n) |->
                               IF t = {} THEN <<>> ELSE f[t \ {Max(t)}] \o (IF Len(parts[Max(t)]) <= limit THEN <<parts[Max(t)]>> ELSE SplitWords(parts[Max(t)], limit))]
           iter == CHOOSE f : Solved(f)
<1>9. Solved(g)
  BY <1>6, <1>8
<1>10. Solved(iter)
  <2> HIDE DEF Solved
  <2> QED  BY <1>9
<1>11. LineFold(parts, limit) = iter[1..n]
  BY <1>1 DEF LineFold, FoldLeft, MapThenFoldSet
<1>12. Recurs(iter, Seq(Texts), n, step, <<>>, parts)
  <2> HIDE DEF iter
  <2> QED  BY <1>1, <1>4, <1>7, <1>10 DEF Recurs
<1> HIDE DEF iter
<1>13. Reaches(Seq(Texts), step, <<>>, parts, iter[1..n])
  BY <1>3, <1>5, <1>12, FoldReaches DEF n
<1> QED  BY <1>11, <1>13 DEF step

LEMMA SplitLinesIs ==
    ASSUME NEW t \in Texts, NEW limit \in Nat \ {0}
    PROVE  HoldAll(SplitLines(t, limit), t) /\ Fit(SplitLines(t, limit), limit)
<1> DEFINE cuts == SplitAfter(t, NewLine)
           parts == Packed(cuts, limit)
<1>1. cuts \in Seq(Texts) /\ \A c : In(c, cuts) <=> Occurs(c, t)
  BY SplitAfterIs DEF HoldAll
<1>2. SplitLines(t, limit) = LineFold(parts, limit)
  BY DEF SplitLines, LineFold
<1> HIDE DEF cuts
<1>3. parts \in Seq(Texts) /\ \A c : In(c, parts) <=> In(c, cuts)
  BY <1>1, PackedIs
<1> HIDE DEF parts
<1>4. Reaches(Seq(Texts), SpreadStep(LineCut(limit)), <<>>, parts, LineFold(parts, limit))
  BY <1>3, LinewiseGoes
<1> DEFINE last == LineFold(parts, limit)
<1> HIDE DEF last
<1>5. last \in Seq(Texts) /\ Fit(last, limit) /\ \A c : In(c, last) <=> In(c, parts)
  BY <1>3, <1>4, LineCutIs, SpreadIs DEF last
<1> QED  BY <1>1, <1>2, <1>3, <1>5 DEF HoldAll, last

----------------------------------------------------------------------------
\* The pieces that say something.

TextStep == [x \in Seq(Texts) \X Texts |-> IF HasText(x[2]) THEN Append(x[1], x[2]) ELSE x[1]]

LEMMA TextStepIs ==
    \A a \in Seq(Texts), b \in Texts : (IF HasText(b) THEN Append(a, b) ELSE a) \in Seq(Texts)
  BY PieceAppended

LEMMA WithTextGoes ==
    ASSUME NEW parts \in Seq(Texts)
    PROVE  Reaches(Seq(Texts), TextStep, <<>>, parts, WithText(parts))
<1> DEFINE step == TextStep
           n == Len(parts)
<1>1. n \in Nat /\ DOMAIN parts = 1..n /\ \A i \in 1..n : parts[i] \in Texts
  BY LenProperties, ElementOfSeq
<1>2. \A a \in Seq(Texts), b \in Texts : (IF HasText(b) THEN Append(a, b) ELSE a) \in Seq(Texts)
  BY TextStepIs
<1>3. step \in [Seq(Texts) \X Texts -> Seq(Texts)]
  BY <1>2 DEF TextStep
<1>4. \A a \in Seq(Texts), b \in Texts : step[<<a, b>>] = (IF HasText(b) THEN Append(a, b) ELSE a)
  BY DEF TextStep
<1> HIDE DEF step
<1>5. <<>> \in Seq(Texts) /\ parts \in Seq(Texts)
  BY EmptyText
<1>6. PICK g \in [SUBSET (1..n) -> Seq(Texts)] : Iterates(g, n, step, <<>>, parts)
  BY <1>3, <1>5, FoldExists
<1> HIDE DEF n
<1>7. \A t \in SUBSET (1..n) : t # {} => Max(t) \in 1..n /\ t \ {Max(t)} \in SUBSET (1..n)
  BY <1>1, MaxInside
<1>8. \A t \in SUBSET (1..n) :
         g[t] = IF t = {} THEN <<>> ELSE IF HasText(parts[Max(t)]) THEN Append(g[t \ {Max(t)}], parts[Max(t)]) ELSE g[t \ {Max(t)}]
  BY <1>1, <1>4, <1>6, <1>7 DEF Iterates
<1> DEFINE Solved(f) == f = [t \in SUBSET (1..n) |->
                               IF t = {} THEN <<>> ELSE IF HasText(parts[Max(t)]) THEN Append(f[t \ {Max(t)}], parts[Max(t)]) ELSE f[t \ {Max(t)}]]
           iter == CHOOSE f : Solved(f)
<1>9. Solved(g)
  BY <1>6, <1>8
<1>10. Solved(iter)
  <2> HIDE DEF Solved
  <2> QED  BY <1>9
<1>11. WithText(parts) = iter[1..n]
  BY <1>1 DEF WithText, FoldLeft, MapThenFoldSet
<1>12. Recurs(iter, Seq(Texts), n, step, <<>>, parts)
  <2> HIDE DEF iter
  <2> QED  BY <1>1, <1>4, <1>7, <1>10 DEF Recurs
<1> HIDE DEF iter
<1>13. Reaches(Seq(Texts), step, <<>>, parts, iter[1..n])
  BY <1>3, <1>5, <1>12, FoldReaches DEF n
<1> QED  BY <1>11, <1>13 DEF step

LEMMA WithTextIs ==
    ASSUME NEW parts \in Seq(Texts), NEW limit, Fit(parts, limit)
    PROVE  /\ WithText(parts) \in Seq(Texts) /\ Fit(WithText(parts), limit)
           /\ \A c : In(c, WithText(parts)) => In(c, parts)
           /\ \A c : In(c, parts) /\ LineOf(c) > 0 => In(c, WithText(parts))
<1> DEFINE step == TextStep
           last == WithText(parts)
           Seen(a, i) == /\ \A c : In(c, a) => \E j \in 1..i : Occurs(c, parts[j])
                         /\ \A c : (\E j \in 1..i : Occurs(c, parts[j])) /\ LineOf(c) > 0 => In(c, a)
           I == {x \in Nat \X Seq(Texts) : Fit(x[2], limit) /\ Seen(x[2], x[1])}
<1>1. Reaches(Seq(Texts), step, <<>>, parts, last)
  BY WithTextGoes
<1>2. /\ step \in [Seq(Texts) \X Texts -> Seq(Texts)]
      /\ \A a \in Seq(Texts), p \in Texts : step[<<a, p>>] = (IF HasText(p) THEN Append(a, p) ELSE a)
  BY TextStepIs DEF TextStep
<1> HIDE DEF step, last
<1>3. <<>> \in Seq(Texts) /\ Fit(<<>>, limit) /\ \A c : ~In(c, <<>>)
  BY EmptyText DEF Fit
<1>4. <<0, <<>>>> \in I
  <2>1. ~\E j : j \in 1..0
    OBVIOUS
  <2> DEFINE none == <<>>
  <2>2. none \in Seq(Texts) /\ Fit(none, limit) /\ \A c : ~In(c, none)
    BY <1>3
  <2> HIDE DEF none
  <2> QED  BY <2>1, <2>2 DEF none
<1>5. /\ Len(parts) \in Nat
      /\ \A i \in 1..Len(parts) : parts[i] \in Texts /\ Len(parts[i]) <= limit
  BY PiecesAre DEF Fit
<1>6. ASSUME NEW i \in 1..Len(parts), NEW a \in Seq(Texts), <<i - 1, a>> \in I
      PROVE  <<i, step[<<a, parts[i]>>]>> \in I
  <2> DEFINE b == step[<<a, parts[i]>>]
             p == parts[i]
  <2>1. p \in Texts /\ Len(p) <= limit /\ b = IF HasText(p) THEN Append(a, p) ELSE a
    BY <1>2, <1>5
  <2>2. Fit(a, limit) /\ Seen(a, i - 1)
    BY <1>6
  <2>3. (\A j : j \in 1..i <=> j \in 1..i - 1 \/ j = i) /\ i \in Nat
    BY <1>5
  <2> HIDE DEF b
  <2>4. CASE HasText(p)
    <3>1. b \in Seq(Texts) /\ Fit(b, limit) /\ \A c : In(c, b) <=> In(c, a) \/ Occurs(c, p)
      BY <2>1, <2>2, <2>4, PieceAppended
    <3>2. Seen(b, i)
      BY <2>2, <2>3, <3>1
    <3> QED  BY <2>3, <3>1, <3>2 DEF b
  <2>5. CASE ~HasText(p)
    <3>1. \A c : Occurs(c, p) => ~(LineOf(c) > 0)
      <4>1. DOMAIN p = 1..Len(p)
        BY <2>1, OccursIs
      <4> QED  BY <2>5, <4>1 DEF HasText, Occurs
    <3>2. b = a
      BY <2>1, <2>5
    <3>3. Seen(b, i)
      BY <2>2, <2>3, <3>1, <3>2
    <3> QED  BY <2>2, <2>3, <3>2, <3>3 DEF b
  <2> QED  BY <2>4, <2>5
<1> HIDE DEF I
<1>7. last \in Seq(Texts) /\ <<Len(parts), last>> \in I
  <2>1. Lasts(I, Seq(Texts), step, parts)
    BY <1>6 DEF Lasts
  <2> QED  BY <1>1, <1>2, <1>3, <1>4, <1>5, <2>1, FoldKeeps
<1>8. Fit(last, limit) /\ Seen(last, Len(parts))
  BY <1>7 DEF I
<1> QED  BY <1>7, <1>8 DEF last, In
----------------------------------------------------------------------------
\* The texts of the lines of a document d, and of the path to its line under anc.

LineTextIn(d, i) == [k \in 1 .. 2 * d[i].depth |-> Space] \o [k \in 1 .. d[i].length |-> <<i, k>>]

BodyIn(d, start, end) ==
    FoldLeft(LAMBDA t, i : t \o <<NewLine>> \o LineTextIn(d, i), LineTextIn(d, start),
             [k \in 1 .. end - start - 1 |-> start + k])

PathIn(d, anc, k) ==
    FoldLeft(LAMBDA t, i : t \o LineTextIn(d, i) \o <<NewLine>>, <<>>,
             SubSeq(anc, Len(anc) - k + 1, Len(anc)))

KeptIn(d, n, anc) == Max({k \in 0 .. Len(anc) : Len(PathIn(d, anc, k)) <= n \div 2})

PrefixIn(d, n, anc) == PathIn(d, anc, KeptIn(d, n, anc))

BudgetIn(d, n, anc) == n - Len(PrefixIn(d, n, anc))

WordIn(d, i) == {<<i, k>> : k \in 1 .. d[i].length}

AboveIn(d, a, i) == a < i /\ d[a].element /\ \A j \in a + 1 .. i : d[j].depth > d[a].depth

\* A text that has the line i, whole.
HoldsIn(d, t, i) == \A c \in WordIn(d, i) : Occurs(c, t)

LEMMA TextsOfTheDocument ==
    /\ \A i : LineText(i) = LineTextIn(doc, i)
    /\ \A s, e : Body(s, e) = BodyIn(doc, s, e)
    /\ \A k : Path(k) = PathIn(doc, ancestors, k)
    /\ KeptAbove = KeptIn(doc, size, ancestors)
    /\ Prefix = PrefixIn(doc, size, ancestors)
    /\ Budget = BudgetIn(doc, size, ancestors)
    /\ \A i : Word(i) = WordIn(doc, i)
    /\ \A a, i : Above(a, i) <=> AboveIn(doc, a, i)
<1>1. \A i : LineText(i) = LineTextIn(doc, i)
  BY DEF LineText, LineTextIn
<1>2. \A s, e : Body(s, e) = BodyIn(doc, s, e)
  BY DEF Body, BodyIn, LineText, LineTextIn
<1>3. \A k : Path(k) = PathIn(doc, ancestors, k)
  BY DEF Path, PathIn, LineText, LineTextIn
<1>4. KeptAbove = KeptIn(doc, size, ancestors)
  BY DEF KeptAbove, KeptIn, Path, PathIn, LineText, LineTextIn, Half
<1>5. Prefix = PrefixIn(doc, size, ancestors)
  BY <1>3, <1>4 DEF Prefix, PrefixIn
<1>6. Budget = BudgetIn(doc, size, ancestors)
  BY <1>5 DEF Budget, BudgetIn
<1> QED  BY <1>1, <1>2, <1>3, <1>4, <1>5, <1>6 DEF Word, WordIn, Above, AboveIn

\* The lines of a document have a depth and a length.
LinesTyped(d) ==
    /\ Len(d) \in Nat \ {0}
    /\ \A i \in 1..Len(d) : d[i].depth \in Nat /\ d[i].length \in Nat \ {0}

LEMMA WordIs ==
    ASSUME NEW d, LinesTyped(d), NEW i \in 1..Len(d)
    PROVE  /\ <<i, 1>> \in WordIn(d, i)
           /\ \A c \in WordIn(d, i) : c \in Chars /\ LineOf(c) = i /\ LineOf(c) > 0
<1>1. i \in Nat /\ i > 0 /\ d[i].length \in Nat \ {0}
  BY DEF LinesTyped
<1>2. 1 \in 1..d[i].length /\ \A k \in 1..d[i].length : k \in Nat
  BY <1>1
<1> QED  BY <1>1, <1>2, CharsTyped DEF WordIn

LEMMA LineTextIs ==
    ASSUME NEW d, LinesTyped(d), NEW i \in 1..Len(d)
    PROVE  /\ LineTextIn(d, i) \in Texts /\ HoldsIn(d, LineTextIn(d, i), i)
           /\ Len(LineTextIn(d, i)) = 2 * d[i].depth + d[i].length
           /\ \A c : Occurs(c, LineTextIn(d, i)) => LineOf(c) = 0 \/ LineOf(c) = i
<1> DEFINE m == 2 * d[i].depth
           n == d[i].length
           blanks == [k \in 1..m |-> Space]
           own == [k \in 1..n |-> <<i, k>>]
<1>1. m \in Nat /\ n \in Nat /\ i \in Nat
  BY DEF LinesTyped
<1> HIDE DEF m, n
<1>2. blanks \in Seq(Chars) /\ Len(blanks) = m /\ \A k \in 1..m : blanks[k] = Space
  BY <1>1, CharsTyped
<1>3. own \in Seq(Chars) /\ Len(own) = n /\ \A k \in 1..n : own[k] = <<i, k>>
  <2>1. \A k \in 1..n : <<i, k>> \in Chars
    BY <1>1, CharsTyped
  <2> QED  BY <1>1, <2>1
<1>4. LineTextIn(d, i) = blanks \o own
  BY DEF LineTextIn, m, n
<1> HIDE DEF blanks, own
<1>5. /\ blanks \o own \in Texts /\ Len(blanks \o own) = m + n
      /\ \A c : Occurs(c, blanks \o own) <=> Occurs(c, blanks) \/ Occurs(c, own)
  BY <1>2, <1>3, Joined DEF Texts
<1>6. \A c : Occurs(c, blanks) => LineOf(c) = 0
  BY <1>2, CharsTyped DEF Occurs
<1>7. \A c : Occurs(c, own) => LineOf(c) = i
  <2>1. \A k \in 1..n : LineOf(<<i, k>>) = i
    BY DEF LineOf
  <2> QED  BY <1>3, <2>1 DEF Occurs
<1>8. \A c \in WordIn(d, i) : Occurs(c, own)
  BY <1>3 DEF Occurs, WordIn, n
<1> QED  BY <1>4, <1>5, <1>6, <1>7, <1>8 DEF m, n, HoldsIn

\* What stands between lines is no line's.
LEMMA JoinedLines ==
    ASSUME NEW s \in Texts, NEW t \in Texts
    PROVE  /\ s \o <<NewLine>> \o t \in Texts
           /\ Len(s \o <<NewLine>> \o t) = Len(s) + 1 + Len(t)
           /\ \A c : Occurs(c, s) \/ Occurs(c, t) => Occurs(c, s \o <<NewLine>> \o t)
           /\ \A c : Occurs(c, s \o <<NewLine>> \o t) => LineOf(c) = 0 \/ Occurs(c, s) \/ Occurs(c, t)
<1> DEFINE end == s \o <<NewLine>>
           all == s \o <<NewLine>> \o t
<1>1. <<NewLine>> \in Texts /\ Len(<<NewLine>>) = 1 /\ \A d : Occurs(d, <<NewLine>>) <=> d = NewLine
  BY CharsTyped, OneChar
<1>2. end \in Texts /\ Len(end) = Len(s) + 1 /\ \A c : Occurs(c, end) <=> Occurs(c, s) \/ c = NewLine
  BY <1>1, Joined
<1> HIDE DEF end
<1>3. all = end \o t
  BY DEF end
<1>4. all \in Texts /\ Len(all) = Len(end) + Len(t) /\ \A c : Occurs(c, all) <=> Occurs(c, end) \/ Occurs(c, t)
  BY <1>2, <1>3, Joined
<1> HIDE DEF all
<1>5. LineOf(NewLine) = 0
  BY CharsTyped
<1> QED  BY <1>2, <1>4, <1>5, OccursIs DEF all

----------------------------------------------------------------------------
\* The lines from start to the one before end.

BodyStep(d) == [x \in Texts \X (1..Len(d)) |-> x[1] \o <<NewLine>> \o LineTextIn(d, x[2])]

LinesBelow(start, end) == [k \in 1 .. end - start - 1 |-> start + k]

LEMMA LinesBelowIs ==
    ASSUME NEW n \in Nat, NEW start \in 1..n, NEW end \in start + 1..n + 1
    PROVE  /\ LinesBelow(start, end) \in Seq(1..n) /\ Len(LinesBelow(start, end)) = (end - start) - 1
           /\ \A k \in 1..(end - start) - 1 : LinesBelow(start, end)[k] = start + k
<1>1. (end - start) - 1 \in Nat /\ end - start - 1 = (end - start) - 1
  OBVIOUS
<1>2. \A k \in 1..(end - start) - 1 : start + k \in 1..n
  OBVIOUS
<1> DEFINE m == (end - start) - 1
<1> HIDE DEF m
<1>3. [k \in 1..m |-> start + k] \in Seq(1..n) /\ Len([k \in 1..m |-> start + k]) = m
  BY <1>1, <1>2 DEF m
<1>4. LinesBelow(start, end) = [k \in 1..m |-> start + k]
  BY <1>1 DEF LinesBelow, m
<1> QED  BY <1>3, <1>4 DEF m

LEMMA BodyStepIs ==
    ASSUME NEW d, LinesTyped(d)
    PROVE  \A a \in Texts, b \in 1..Len(d) : a \o <<NewLine>> \o LineTextIn(d, b) \in Texts
  BY LineTextIs, JoinedLines

LEMMA BodyGoes ==
    ASSUME NEW d, LinesTyped(d), NEW start \in 1..Len(d), NEW end \in start + 1..Len(d) + 1
    PROVE  Reaches(Texts, BodyStep(d), LineTextIn(d, start), LinesBelow(start, end), BodyIn(d, start, end))
<1> DEFINE step == BodyStep(d)
           n == Len(LinesBelow(start, end))
<1>1. n \in Nat /\ DOMAIN LinesBelow(start, end) = 1..n /\ \A i \in 1..n : LinesBelow(start, end)[i] \in (1..Len(d))
  BY LinesBelowIs, LenProperties, ElementOfSeq DEF LinesTyped
<1>2. \A a \in Texts, b \in (1..Len(d)) : a \o <<NewLine>> \o LineTextIn(d, b) \in Texts
  BY BodyStepIs
<1>3. step \in [Texts \X (1..Len(d)) -> Texts]
  BY <1>2 DEF BodyStep
<1>4. \A a \in Texts, b \in (1..Len(d)) : step[<<a, b>>] = a \o <<NewLine>> \o LineTextIn(d, b)
  BY DEF BodyStep
<1> HIDE DEF step
<1>5. LineTextIn(d, start) \in Texts /\ LinesBelow(start, end) \in Seq((1..Len(d)))
  BY LineTextIs, LinesBelowIs DEF LinesTyped
<1>6. PICK g \in [SUBSET (1..n) -> Texts] : Iterates(g, n, step, LineTextIn(d, start), LinesBelow(start, end))
  BY <1>3, <1>5, FoldExists
<1> HIDE DEF n
<1>7. \A t \in SUBSET (1..n) : t # {} => Max(t) \in 1..n /\ t \ {Max(t)} \in SUBSET (1..n)
  BY <1>1, MaxInside
<1>8. \A t \in SUBSET (1..n) :
         g[t] = IF t = {} THEN LineTextIn(d, start) ELSE g[t \ {Max(t)}] \o <<NewLine>> \o LineTextIn(d, LinesBelow(start, end)[Max(t)])
  BY <1>1, <1>4, <1>6, <1>7 DEF Iterates
<1> DEFINE Solved(f) == f = [t \in SUBSET (1..n) |->
                               IF t = {} THEN LineTextIn(d, start) ELSE f[t \ {Max(t)}] \o <<NewLine>> \o LineTextIn(d, LinesBelow(start, end)[Max(t)])]
           iter == CHOOSE f : Solved(f)
<1>9. Solved(g)
  BY <1>6, <1>8
<1>10. Solved(iter)
  <2> HIDE DEF Solved
  <2> QED  BY <1>9
<1>11. BodyIn(d, start, end) = iter[1..n]
  BY <1>1 DEF BodyIn, LinesBelow, FoldLeft, MapThenFoldSet
<1>12. Recurs(iter, Texts, n, step, LineTextIn(d, start), LinesBelow(start, end))
  <2> HIDE DEF iter
  <2> QED  BY <1>1, <1>4, <1>7, <1>10 DEF Recurs
<1> HIDE DEF iter
<1>13. Reaches(Texts, step, LineTextIn(d, start), LinesBelow(start, end), iter[1..n])
  BY <1>3, <1>5, <1>12, FoldReaches DEF n
<1> QED  BY <1>11, <1>13 DEF step

LEMMA BodyIs ==
    ASSUME NEW d, LinesTyped(d), NEW start \in 1..Len(d), NEW end \in start + 1..Len(d) + 1
    PROVE  /\ BodyIn(d, start, end) \in Texts
           /\ end = start + 1 => BodyIn(d, start, end) = LineTextIn(d, start)
           /\ \A i \in start..end - 1 : HoldsIn(d, BodyIn(d, start, end), i)
           /\ \A c : Occurs(c, BodyIn(d, start, end)) => LineOf(c) = 0 \/ LineOf(c) \in start..end - 1
<1> DEFINE step == BodyStep(d)
           base == LineTextIn(d, start)
           q == LinesBelow(start, end)
           m == (end - start) - 1
           last == BodyIn(d, start, end)
           Has(t, k) == /\ \A i \in start..start + k : HoldsIn(d, t, i)
                        /\ \A c : Occurs(c, t) => LineOf(c) = 0 \/ LineOf(c) \in start..start + k
           I == {x \in Nat \X Texts : Has(x[2], x[1])}
<1>1. Reaches(Texts, step, base, q, last)
  BY BodyGoes
<1>2. step \in [Texts \X (1..Len(d)) -> Texts]
      /\ \A a \in Texts, b \in 1..Len(d) : step[<<a, b>>] = a \o <<NewLine>> \o LineTextIn(d, b)
  BY BodyStepIs DEF BodyStep
<1>3. Len(d) \in Nat /\ m \in Nat /\ start \in Nat /\ end = start + m + 1
  BY DEF LinesTyped
<1>4. q \in Seq(1..Len(d)) /\ Len(q) = m /\ \A k \in 1..m : q[k] = start + k /\ start + k \in 1..Len(d)
  <2>1. \A k \in 1..m : start + k \in 1..Len(d)
    BY <1>3
  <2> QED  BY <1>3, <2>1, LinesBelowIs
<1> HIDE DEF step, last, q, m
<1>5. base \in Texts /\ HoldsIn(d, base, start) /\ \A c : Occurs(c, base) => LineOf(c) = 0 \/ LineOf(c) = start
  BY LineTextIs
<1> HIDE DEF base
<1>6. <<0, base>> \in I
  <2>1. \A i : i \in start..start + 0 <=> i = start
    BY <1>3
  <2>2. Has(base, 0)
    BY <1>5, <2>1
  <2> HIDE DEF Has
  <2> QED  BY <1>5, <2>2
<1>7. ASSUME NEW k \in 1..m, NEW a \in Texts, <<k - 1, a>> \in I
      PROVE  <<k, step[<<a, q[k]>>]>> \in I
  <2> DEFINE b == step[<<a, q[k]>>]
             line == LineTextIn(d, start + k)
  <2>1. k \in Nat /\ start + k \in 1..Len(d) /\ q[k] = start + k
    BY <1>3, <1>4
  <2>9. k \in Nat /\ k > 0
    BY <1>3
  <2>10. \A i : i \in start..start + k <=> i \in start..start + (k - 1) \/ i = start + k
    BY <1>3, <2>9
  <2>2. b = a \o <<NewLine>> \o line
    BY <1>2, <2>1
  <2>3. line \in Texts /\ HoldsIn(d, line, start + k)
        /\ \A c : Occurs(c, line) => LineOf(c) = 0 \/ LineOf(c) = start + k
    BY <2>1, LineTextIs
  <2>4. Has(a, k - 1)
    BY <1>7
  <2> HIDE DEF b, line
  <2>5. /\ b \in Texts /\ \A c : Occurs(c, a) \/ Occurs(c, line) => Occurs(c, b)
        /\ \A c : Occurs(c, b) => LineOf(c) = 0 \/ Occurs(c, a) \/ Occurs(c, line)
    BY <2>2, <2>3, JoinedLines
  <2>6. Has(b, k)
    <3>1. \A i : HoldsIn(d, a, i) \/ HoldsIn(d, line, i) => HoldsIn(d, b, i)
      BY <2>5 DEF HoldsIn
    <3> QED  BY <2>1, <2>3, <2>4, <2>5, <2>10, <3>1
  <2> HIDE DEF Has
  <2> QED  BY <2>1, <2>5, <2>6 DEF b
<1> HIDE DEF I
<1>8. last \in Texts /\ <<m, last>> \in I
  <2>1. Lasts(I, Texts, step, q)
    BY <1>4, <1>7 DEF Lasts
  <2> QED  BY <1>1, <1>2, <1>4, <1>5, <1>6, <2>1, FoldKeeps
<1>9. Has(last, m)
  BY <1>8 DEF I
<1>10. end = start + 1 => last = base
  <2> SUFFICES ASSUME end = start + 1 PROVE last = base
    OBVIOUS
  <2>1. Len(q) = 0
    BY <1>3, <1>4
  <2> QED  BY <1>1, <2>1 DEF Reaches
<1>11. end - 1 = start + m
  BY <1>3
<1> QED  BY <1>8, <1>9, <1>10, <1>11 DEF last, base

----------------------------------------------------------------------------
\* The path to a line.

PathStep(d) == [x \in Texts \X (1..Len(d)) |-> x[1] \o LineTextIn(d, x[2]) \o <<NewLine>>]

LEMMA LineEnded ==
    ASSUME NEW s \in Texts, NEW t \in Texts
    PROVE  /\ s \o t \o <<NewLine>> \in Texts
           /\ Len(s \o t \o <<NewLine>>) = Len(s) + Len(t) + 1
           /\ \A c : Occurs(c, s) \/ Occurs(c, t) => Occurs(c, s \o t \o <<NewLine>>)
           /\ \A c : Occurs(c, s \o t \o <<NewLine>>) => LineOf(c) = 0 \/ Occurs(c, s) \/ Occurs(c, t)
<1> DEFINE both == s \o t
           all == s \o t \o <<NewLine>>
<1>1. <<NewLine>> \in Texts /\ Len(<<NewLine>>) = 1 /\ \A d : Occurs(d, <<NewLine>>) <=> d = NewLine
  BY CharsTyped, OneChar
<1>2. both \in Texts /\ Len(both) = Len(s) + Len(t) /\ \A c : Occurs(c, both) <=> Occurs(c, s) \/ Occurs(c, t)
  BY Joined
<1> HIDE DEF both
<1>3. all = both \o <<NewLine>>
  BY DEF both
<1>4. all \in Texts /\ Len(all) = Len(both) + 1 /\ \A c : Occurs(c, all) <=> Occurs(c, both) \/ c = NewLine
  BY <1>1, <1>2, <1>3, Joined
<1> HIDE DEF all
<1>5. LineOf(NewLine) = 0
  BY CharsTyped
<1> QED  BY <1>2, <1>4, <1>5 DEF all

LEMMA PathStepIs ==
    ASSUME NEW d, LinesTyped(d)
    PROVE  \A a \in Texts, b \in 1..Len(d) : a \o LineTextIn(d, b) \o <<NewLine>> \in Texts
  BY LineTextIs, LineEnded

Nearest(anc, k) == SubSeq(anc, Len(anc) - k + 1, Len(anc))

LEMMA NearestIs ==
    ASSUME NEW S, NEW anc \in Seq(S), NEW k \in 0..Len(anc)
    PROVE  /\ Nearest(anc, k) \in Seq(S) /\ Len(Nearest(anc, k)) = k
           /\ \A j \in 1..k : Nearest(anc, k)[j] = anc[(Len(anc) - k) + j]
<1> DEFINE n == Len(anc)
           m == n - k + 1
           s == SubSeq(anc, m, n)
<1>1. n \in Nat /\ m \in 1..n + 1 /\ n \in m - 1..n
  BY LenProperties
<1>2. /\ s \in Seq(S) /\ Len(s) = IF m <= n THEN n - m + 1 ELSE 0
      /\ \A j \in 1..n - m + 1 : s[j] = anc[m + j - 1]
  BY <1>1, SubSeqProperties
<1>3. n - m + 1 = k /\ (~(m <= n) => k = 0) /\ \A j \in 1..k : m + j - 1 = (n - k) + j
  BY <1>1
<1> HIDE DEF m, s
<1>4. s \in Seq(S) /\ Len(s) = k /\ \A j \in 1..k : s[j] = anc[(n - k) + j]
  BY <1>1, <1>2, <1>3
<1>5. Nearest(anc, k) = s
  BY DEF Nearest, s, m
<1> QED  BY <1>4, <1>5

LEMMA PathGoes ==
    ASSUME NEW d, LinesTyped(d), NEW anc \in Seq(1..Len(d)), NEW k \in 0..Len(anc)
    PROVE  Reaches(Texts, PathStep(d), <<>>, Nearest(anc, k), PathIn(d, anc, k))
<1> DEFINE step == PathStep(d)
           n == Len(Nearest(anc, k))
<1>1. n \in Nat /\ DOMAIN Nearest(anc, k) = 1..n /\ \A i \in 1..n : Nearest(anc, k)[i] \in (1..Len(d))
  BY NearestIs, LenProperties, ElementOfSeq
<1>2. \A a \in Texts, b \in (1..Len(d)) : a \o LineTextIn(d, b) \o <<NewLine>> \in Texts
  BY PathStepIs
<1>3. step \in [Texts \X (1..Len(d)) -> Texts]
  BY <1>2 DEF PathStep
<1>4. \A a \in Texts, b \in (1..Len(d)) : step[<<a, b>>] = a \o LineTextIn(d, b) \o <<NewLine>>
  BY DEF PathStep
<1> HIDE DEF step
<1>5. <<>> \in Texts /\ Nearest(anc, k) \in Seq((1..Len(d)))
  BY EmptyText, NearestIs
<1>6. PICK g \in [SUBSET (1..n) -> Texts] : Iterates(g, n, step, <<>>, Nearest(anc, k))
  BY <1>3, <1>5, FoldExists
<1> HIDE DEF n
<1>7. \A t \in SUBSET (1..n) : t # {} => Max(t) \in 1..n /\ t \ {Max(t)} \in SUBSET (1..n)
  BY <1>1, MaxInside
<1>8. \A t \in SUBSET (1..n) :
         g[t] = IF t = {} THEN <<>> ELSE g[t \ {Max(t)}] \o LineTextIn(d, Nearest(anc, k)[Max(t)]) \o <<NewLine>>
  BY <1>1, <1>4, <1>6, <1>7 DEF Iterates
<1> DEFINE Solved(f) == f = [t \in SUBSET (1..n) |->
                               IF t = {} THEN <<>> ELSE f[t \ {Max(t)}] \o LineTextIn(d, Nearest(anc, k)[Max(t)]) \o <<NewLine>>]
           iter == CHOOSE f : Solved(f)
<1>9. Solved(g)
  BY <1>6, <1>8
<1>10. Solved(iter)
  <2> HIDE DEF Solved
  <2> QED  BY <1>9
<1>11. PathIn(d, anc, k) = iter[1..n]
  BY <1>1 DEF PathIn, Nearest, FoldLeft, MapThenFoldSet
<1>12. Recurs(iter, Texts, n, step, <<>>, Nearest(anc, k))
  <2> HIDE DEF iter
  <2> QED  BY <1>1, <1>4, <1>7, <1>10 DEF Recurs
<1> HIDE DEF iter
<1>13. Reaches(Texts, step, <<>>, Nearest(anc, k), iter[1..n])
  BY <1>3, <1>5, <1>12, FoldReaches DEF n
<1> QED  BY <1>11, <1>13 DEF step

LEMMA PathIs ==
    ASSUME NEW d, LinesTyped(d), NEW anc \in Seq(1..Len(d)), NEW k \in 0..Len(anc)
    PROVE  /\ PathIn(d, anc, k) \in Texts
           /\ k = 0 => PathIn(d, anc, k) = <<>>
           /\ k = 1 => Len(PathIn(d, anc, k)) = Len(LineTextIn(d, anc[Len(anc)])) + 1
           /\ \A j \in (Len(anc) - k) + 1..Len(anc) : HoldsIn(d, PathIn(d, anc, k), anc[j])
           /\ \A c : Occurs(c, PathIn(d, anc, k)) =>
                       LineOf(c) = 0 \/ \E j \in 1..Len(anc) : LineOf(c) = anc[j]
<1> DEFINE step == PathStep(d)
           q == Nearest(anc, k)
           n == Len(anc)
           last == PathIn(d, anc, k)
           Has(t, l) == /\ \A j \in 1..l : HoldsIn(d, t, q[j])
                        /\ \A c : Occurs(c, t) => LineOf(c) = 0 \/ \E j \in 1..l : LineOf(c) = q[j]
           I == {x \in Nat \X Texts : Has(x[2], x[1])}
<1>1. Reaches(Texts, step, <<>>, q, last)
  BY PathGoes
<1>2. step \in [Texts \X (1..Len(d)) -> Texts]
      /\ \A a \in Texts, b \in 1..Len(d) : step[<<a, b>>] = a \o LineTextIn(d, b) \o <<NewLine>>
  BY PathStepIs DEF PathStep
<1>3. n \in Nat /\ k \in Nat /\ n - k \in Nat
  BY LenProperties
<1>4. q \in Seq(1..Len(d)) /\ Len(q) = k /\ \A j \in 1..k : q[j] = anc[(n - k) + j] /\ q[j] \in 1..Len(d)
  BY NearestIs, ElementOfSeq
<1> HIDE DEF step, last, q, n
<1>5. <<>> \in Texts /\ \A c : ~Occurs(c, <<>>)
  BY EmptyText
<1>6. <<0, <<>>>> \in I
  <2>1. ~\E j : j \in 1..0
    OBVIOUS
  <2>2. Has(<<>>, 0)
    BY <1>5, <2>1
  <2> HIDE DEF Has
  <2> DEFINE none == <<>>
  <2>3. none \in Texts /\ Has(none, 0)
    BY <1>5, <2>2
  <2> HIDE DEF none
  <2> QED  BY <2>3 DEF none
<1>7. ASSUME NEW l \in 1..k, NEW a \in Texts, <<l - 1, a>> \in I
      PROVE  <<l, step[<<a, q[l]>>]>> \in I
  <2> DEFINE b == step[<<a, q[l]>>]
             line == LineTextIn(d, q[l])
  <2>1. /\ l \in Nat /\ q[l] \in 1..Len(d)
        /\ \A i : i \in 1..l <=> i \in 1..l - 1 \/ i = l
    BY <1>3, <1>4
  <2>2. b = a \o line \o <<NewLine>>
    BY <1>2, <2>1
  <2>3. line \in Texts /\ HoldsIn(d, line, q[l])
        /\ \A c : Occurs(c, line) => LineOf(c) = 0 \/ LineOf(c) = q[l]
    BY <2>1, LineTextIs
  <2>4. Has(a, l - 1)
    BY <1>7
  <2> HIDE DEF b, line
  <2>5. /\ b \in Texts /\ \A c : Occurs(c, a) \/ Occurs(c, line) => Occurs(c, b)
        /\ \A c : Occurs(c, b) => LineOf(c) = 0 \/ Occurs(c, a) \/ Occurs(c, line)
    BY <2>2, <2>3, LineEnded
  <2>6. Has(b, l)
    <3>1. \A i : HoldsIn(d, a, i) \/ HoldsIn(d, line, i) => HoldsIn(d, b, i)
      BY <2>5 DEF HoldsIn
    <3> QED  BY <2>1, <2>3, <2>4, <2>5, <3>1
  <2> HIDE DEF Has
  <2> QED  BY <2>1, <2>5, <2>6 DEF b
<1> HIDE DEF I
<1>8. last \in Texts /\ <<k, last>> \in I
  <2>1. Lasts(I, Texts, step, q)
    BY <1>4, <1>7 DEF Lasts
  <2> QED  BY <1>1, <1>2, <1>4, <1>5, <1>6, <2>1, FoldKeeps
<1>9. Has(last, k)
  BY <1>8 DEF I
<1>10. k = 0 => last = <<>>
  BY <1>1, <1>4 DEF Reaches
<1>11. k = 1 => Len(last) = Len(LineTextIn(d, anc[n])) + 1
  <2> SUFFICES ASSUME k = 1 PROVE Len(last) = Len(LineTextIn(d, anc[n])) + 1
    OBVIOUS
  <2>1. 1 \in 1..k /\ (n - k) + 1 = n
    BY <1>3
  <2>2. q[1] = anc[n] /\ q[1] \in 1..Len(d)
    BY <1>4, <2>1
  <2>3. PICK h \in [0..1 -> Texts] : h[0] = <<>> /\ h[1] = last /\ \A i \in 1..1 : h[i] = step[<<h[i - 1], q[i]>>]
    BY <1>1, <1>4 DEF Reaches
  <2>4. last = step[<<<<>>, q[1]>>]
    <3>1. 1 \in 1..1 /\ 1 - 1 = 0
      OBVIOUS
    <3>2. h[1] = step[<<h[0], q[1]>>]
      BY <2>3, <3>1
    <3> QED  BY <2>3, <3>2
  <2>5. last = <<>> \o LineTextIn(d, q[1]) \o <<NewLine>>
    BY <1>2, <1>5, <2>2, <2>4
  <2>6. LineTextIn(d, q[1]) \in Texts
    BY <2>2, LineTextIs
  <2>7. Len(last) = Len(<<>>) + Len(LineTextIn(d, q[1])) + 1
    BY <1>5, <2>5, <2>6, LineEnded
  <2>8. Len(LineTextIn(d, q[1])) \in Nat /\ Len(<<>>) = 0
    BY <2>6, OccursIs, EmptyText
  <2> QED  BY <2>2, <2>7, <2>8
<1>12. \A j \in (n - k) + 1..n : HoldsIn(d, last, anc[j])
  <2> SUFFICES ASSUME NEW j \in (n - k) + 1..n PROVE HoldsIn(d, last, anc[j])
    OBVIOUS
  <2>1. j - (n - k) \in 1..k /\ (n - k) + (j - (n - k)) = j
    BY <1>3
  <2> QED  BY <1>4, <1>9, <2>1
<1>13. \A c : Occurs(c, last) => LineOf(c) = 0 \/ \E j \in 1..n : LineOf(c) = anc[j]
  <2>1. \A j \in 1..k : (n - k) + j \in 1..n
    BY <1>3
  <2> QED  BY <1>4, <1>9, <2>1
<1> QED  BY <1>8, <1>10, <1>11, <1>12, <1>13 DEF last, n

----------------------------------------------------------------------------
\* As much of the path as leaves room.

LEMMA GreatestIs ==
    \A n \in Nat : \A S \in SUBSET (0..n) : S # {} => Max(S) \in S /\ \A x \in S : x <= Max(S)
<1> DEFINE P == {n \in Nat : \A S \in SUBSET (0..n) : S # {} => \E x \in S : \A y \in S : x >= y}
<1>1. 0 \in P
  <2>1. 0..0 = {0}
    OBVIOUS
  <2>2. ASSUME NEW S \in SUBSET (0..0), S # {}
        PROVE  \E x \in S : \A y \in S : x >= y
    <3>1. S = {0}
      BY <2>1, <2>2
    <3> QED  BY <3>1
  <2> QED  BY <2>2
<1>2. ASSUME NEW n \in P
      PROVE  n + 1 \in P
  <2>1. n \in Nat /\ \A S \in SUBSET (0..n) : S # {} => \E x \in S : \A y \in S : x >= y
    OBVIOUS
  <2>2. ASSUME NEW S \in SUBSET (0..n + 1), S # {}
        PROVE  \E x \in S : \A y \in S : x >= y
    <3>1. CASE n + 1 \in S
      <4>1. \A y \in S : n + 1 >= y
        BY <2>1
      <4> QED  BY <3>1, <4>1
    <3>2. CASE n + 1 \notin S
      <4>1. S \in SUBSET (0..n)
        BY <2>1, <3>2
      <4> QED  BY <2>1, <2>2, <4>1
    <3> QED  BY <3>1, <3>2
  <2> QED  BY <2>1, <2>2
<1> HIDE DEF P
<1>3. P = Nat
  <2>1. P \in SUBSET Nat
    BY DEF P
  <2> QED  BY <1>1, <1>2, <2>1, Induction
<1>4. ASSUME NEW n \in Nat, NEW S \in SUBSET (0..n), S # {}
      PROVE  Max(S) \in S /\ \A x \in S : x <= Max(S)
  <2>1. \E x \in S : \A y \in S : x >= y
    BY <1>3, <1>4 DEF P
  <2>2. Max(S) \in S /\ \A y \in S : Max(S) >= y
    BY <2>1 DEF Max
  <2>3. \A x \in S : x \in Int
    OBVIOUS
  <2> QED  BY <2>2, <2>3
<1> QED  BY <1>4

LEMMA KeptIs ==
    ASSUME NEW d, LinesTyped(d), NEW n \in Nat \ {0}, NEW anc \in Seq(1..Len(d))
    PROVE  /\ KeptIn(d, n, anc) \in 0..Len(anc)
           /\ Len(PrefixIn(d, n, anc)) <= n \div 2
           /\ Len(anc) > 0 /\ Len(LineTextIn(d, anc[Len(anc)])) + 1 <= n \div 2 => KeptIn(d, n, anc) > 0
<1> DEFINE m == Len(anc)
           S == {k \in 0..m : Len(PathIn(d, anc, k)) <= n \div 2}
<1>1. m \in Nat /\ 0 \in 0..m
  BY LenProperties
<1>2. n \div 2 \in Int /\ n \div 2 >= 0
  OBVIOUS
<1>3. 0 \in S
  BY <1>1, <1>2, PathIs, EmptyText
<1>4. Max(S) \in S /\ \A x \in S : x <= Max(S)
  BY <1>1, <1>3, GreatestIs
<1>5. KeptIn(d, n, anc) = Max(S)
  BY DEF KeptIn
<1>6. m > 0 /\ Len(LineTextIn(d, anc[m])) + 1 <= n \div 2 => 1 \in S
  BY <1>1, PathIs
<1> HIDE DEF S
<1>7. Max(S) \in 0..m /\ Len(PathIn(d, anc, Max(S))) <= n \div 2
  BY <1>4 DEF S
<1>8. 1 \in S => Max(S) > 0
  BY <1>1, <1>4, <1>7
<1> QED  BY <1>5, <1>6, <1>7, <1>8 DEF PrefixIn

LEMMA PrefixIs ==
    ASSUME NEW d, LinesTyped(d), NEW n \in Nat \ {0}, NEW anc \in Seq(1..Len(d))
    PROVE  /\ PrefixIn(d, n, anc) \in Texts
           /\ BudgetIn(d, n, anc) \in Nat \ {0}
           /\ Len(PrefixIn(d, n, anc)) + BudgetIn(d, n, anc) = n
           /\ BudgetIn(d, n, anc) >= n \div 2
           /\ \A j \in (Len(anc) - KeptIn(d, n, anc)) + 1..Len(anc) : HoldsIn(d, PrefixIn(d, n, anc), anc[j])
           /\ \A c : Occurs(c, PrefixIn(d, n, anc)) =>
                       LineOf(c) = 0 \/ \E j \in 1..Len(anc) : LineOf(c) = anc[j]
<1> DEFINE k == KeptIn(d, n, anc)
           t == PrefixIn(d, n, anc)
<1>1. k \in 0..Len(anc) /\ Len(t) <= n \div 2
  BY KeptIs
<1>2. t = PathIn(d, anc, k)
  BY DEF PrefixIn
<1> HIDE DEF k, t
<1>3. /\ t \in Texts
      /\ \A j \in (Len(anc) - k) + 1..Len(anc) : HoldsIn(d, t, anc[j])
      /\ \A c : Occurs(c, t) => LineOf(c) = 0 \/ \E j \in 1..Len(anc) : LineOf(c) = anc[j]
  BY <1>1, <1>2, PathIs
<1>4. Len(t) \in Nat
  BY <1>3, OccursIs
<1>5. BudgetIn(d, n, anc) = n - Len(t)
  BY DEF BudgetIn, t
<1>6. n \div 2 \in Int /\ n \div 2 >= 0 /\ 2 * (n \div 2) <= n
  OBVIOUS
<1>7. /\ BudgetIn(d, n, anc) \in Nat \ {0} /\ Len(t) + BudgetIn(d, n, anc) = n
      /\ BudgetIn(d, n, anc) >= n \div 2
  <2> DEFINE h == n \div 2
  <2>1. h \in Int /\ h >= 0 /\ 2 * h <= n /\ Len(t) <= h
    BY <1>1, <1>6
  <2> HIDE DEF h
  <2> QED  BY <1>4, <1>5, <2>1 DEF h
<1> QED  BY <1>3, <1>7 DEF k, t
----------------------------------------------------------------------------
\* The invariant, of a document d cut into chunks of n characters.

Levels == [start : Nat, end : Nat, at : Nat, current : Texts]

Chunks == [text : Texts, heading : Nat]

\* A text in which the only lines are of S.
From(t, S) == \A j \in 1..Len(t) : LineOf(t[j]) = 0 \/ LineOf(t[j]) \in S

\* A line is one deeper than the one before it at most, and then opens an element in one.
DocOK(d) ==
    /\ LinesTyped(d) /\ d[1].depth = 0 /\ d[1].element
    /\ \A i \in 1..Len(d) - 1 :
          d[i + 1].depth > d[i].depth =>
              d[i + 1].depth = d[i].depth + 1 /\ d[i].element /\ d[i + 1].element

\* A level's lines start with one of the elements directly under its parent, and its
\* next section with a line as deep.  What is being merged is from before that.
LevelOK(d, l) ==
    /\ l.start \in 1..Len(d) /\ l.end \in l.start + 1..Len(d) + 1 /\ l.at \in l.start..l.end
    /\ d[l.start].element
    /\ \A i \in l.start..l.end - 1 : d[i].depth >= d[l.start].depth
    /\ l.at < l.end => d[l.at].depth = d[l.start].depth
    /\ From(l.current, l.start..l.at - 1)

\* The k-th opener has passed to a level of its own, and heads it.
OpenerOK(d, n, st, anc, k) ==
    /\ st[k].current = <<>>
    /\ anc[k] \in st[k].start..st[k].at - 1
    /\ Len(LineTextIn(d, anc[k])) + 1 <= n \div 2
    /\ \A j \in 1..k, i \in st[k + 1].start..st[k + 1].end - 1 : AboveIn(d, anc[j], i)

StackOK(d, n, st, anc) ==
    /\ st \in Seq(Levels) /\ anc \in Seq(1..Len(d))
    /\ st = <<>> => anc = <<>>
    /\ st # <<>> => /\ Len(st) = Len(anc) + 1
                    /\ Len(st[Len(st)].current) <= BudgetIn(d, n, anc)
    /\ \A k \in 1..Len(st) : LevelOK(d, st[k])
    /\ \A k \in 1..Len(anc) : OpenerOK(d, n, st, anc, k)

\* The openers that were repeated are in a chunk.
MarksOK(d, anc, mk, pc) ==
    /\ mk \in Seq(BOOLEAN) /\ Len(mk) = Len(anc)
    /\ \A k \in 1..Len(mk) : mk[k] => \E j \in 1..Len(pc) : HoldsIn(d, pc[j].text, anc[k])

\* The lines of a text are of the subtree of h, or on the path to it.
Beside(d, h, t) ==
    \A j \in 1..Len(t) :
        LineOf(t[j]) \in 1..Len(d) /\ LineOf(t[j]) # h
            => AboveIn(d, LineOf(t[j]), h) \/ AboveIn(d, h, LineOf(t[j]))

ChunkOK(d, n, p) ==
    /\ Len(p.text) <= n /\ p.heading \in 0..Len(d)
    /\ p.heading # 0 => HoldsIn(d, p.text, p.heading) /\ Beside(d, p.heading, p.text)

ChunksOK(d, n, pc) == pc \in Seq(Chunks) /\ \A k \in 1..Len(pc) : ChunkOK(d, n, pc[k])

\* A line that need not be torn.
Short(d, n, i) == \A a \in 1..Len(d) : a = i \/ AboveIn(d, a, i) => Len(LineTextIn(d, a)) < n \div 2

\* The texts there are: the chunks, and what is being merged.
Store(pc, st) == {pc[k].text : k \in 1..Len(pc)} \cup {st[k].current : k \in 1..Len(st)}

\* All of a line is in the texts T, in one of them if it need not be torn.
Placed(d, n, T, i) ==
    /\ \A c \in WordIn(d, i) : \E t \in T : Occurs(c, t)
    /\ Short(d, n, i) => \E t \in T : HoldsIn(d, t, i)

Ahead(st, i) == \E k \in 1..Len(st) : i \in st[k].at..st[k].end - 1

Heads(anc, i) == \E k \in 1..Len(anc) : anc[k] = i

\* Every line is ahead, or heads the path, or is placed.
Covered(d, n, st, anc, pc) ==
    \A i \in 1..Len(d) : Ahead(st, i) \/ Heads(anc, i) \/ Placed(d, n, Store(pc, st), i)

ChunkInv ==
    /\ DocOK(doc) /\ size \in ChunkSizes /\ cutting \in BOOLEAN
    /\ StackOK(doc, size, stack, ancestors) /\ (~cutting => stack = <<>>)
    /\ MarksOK(doc, ancestors, inPath, pieces)
    /\ ChunksOK(doc, size, pieces)
    /\ Covered(doc, size, stack, ancestors, pieces)
----------------------------------------------------------------------------
\* Where the lines of a text are from, and where a line's characters are.

LEMMA FromIs ==
    ASSUME NEW t \in Texts, NEW S
    PROVE  From(t, S) <=> \A c : Occurs(c, t) => LineOf(c) = 0 \/ LineOf(c) \in S
  BY DEF From, Occurs

LEMMA FromWider ==
    ASSUME NEW t, NEW S, NEW T, From(t, S), S \subseteq T
    PROVE  From(t, T)
  BY DEF From

LEMMA FromNone == \A S : From(<<>>, S)
  BY EmptyText DEF From

LEMMA FromJoined ==
    ASSUME NEW s \in Texts, NEW t \in Texts, NEW S, From(s, S), From(t, S)
    PROVE  From(s \o <<NewLine>> \o t, S)
<1> DEFINE all == s \o <<NewLine>> \o t
<1>1. all \in Texts /\ \A c : Occurs(c, all) => LineOf(c) = 0 \/ Occurs(c, s) \/ Occurs(c, t)
  BY JoinedLines
<1> HIDE DEF all
<1>2. From(all, S)
  BY <1>1, FromIs
<1> QED  BY <1>2 DEF all

Inside(s, t) == \A c : Occurs(c, s) => Occurs(c, t)

\* Every text that says something is inside one of the others.
Grows(A, B) == \A s \in A : s # <<>> => \E t \in B : Inside(s, t)

LEMMA PlacedWhole ==
    ASSUME NEW d, NEW n, NEW i, NEW T, NEW t \in T, HoldsIn(d, t, i)
    PROVE  Placed(d, n, T, i)
  BY DEF Placed, HoldsIn

LEMMA PlacedStays ==
    ASSUME NEW d, LinesTyped(d), NEW i \in 1..Len(d), NEW n, NEW A, NEW B, Placed(d, n, A, i), Grows(A, B)
    PROVE  Placed(d, n, B, i)
<1>1. ASSUME NEW c, NEW s \in A, Occurs(c, s)
      PROVE  \E t \in B : Inside(s, t)
  BY <1>1, EmptyText DEF Grows
<1>2. ASSUME NEW c \in WordIn(d, i)
      PROVE  \E t \in B : Occurs(c, t)
  BY <1>1 DEF Placed, Inside
<1>3. ASSUME NEW s \in A, HoldsIn(d, s, i)
      PROVE  \E t \in B : HoldsIn(d, t, i)
  <2>1. Occurs(<<i, 1>>, s)
    BY <1>3, WordIs DEF HoldsIn
  <2>2. PICK t \in B : Inside(s, t)
    BY <1>1, <2>1
  <2> QED  BY <1>3, <2>2 DEF HoldsIn, Inside
<1> QED  BY <1>2, <1>3 DEF Placed

----------------------------------------------------------------------------
\* The next section of a level.

LEMMA LeastIs ==
    ASSUME NEW S \in SUBSET Nat, S # {}
    PROVE  Min(S) \in S /\ \A x \in S : Min(S) <= x
<1> DEFINE R == OpToRel(<, Nat)
<1>1. PICK n \in S : \A m \in S : ~(<<m, n>> \in R)
  BY WFMin, NatLessThanWellFounded
<1> HIDE DEF R
<1>2. ASSUME NEW x \in S
      PROVE  n <= x
  <2>1. x \in Nat /\ n \in Nat
    OBVIOUS
  <2>2. x < n => <<x, n>> \in R
    BY <2>1 DEF OpToRel, R
  <2> QED  BY <1>1, <2>1, <2>2
<1> QED  BY <1>2 DEF Min

LEMMA SectionEndIs ==
    ASSUME LinesTyped(doc), LevelOK(doc, Top), Top.at < Top.end
    PROVE  /\ SectionEnd \in Top.at + 1..Top.end
           /\ \A j \in Top.at + 1..SectionEnd - 1 : doc[j].depth > doc[Top.at].depth
           /\ SectionEnd < Top.end => doc[SectionEnd].depth = doc[Top.start].depth
<1> DEFINE start == Top.start
           end == Top.end
           at == Top.at
           base == doc[start].depth
           elements == {i \in start .. end - 1 : doc[i].element}
           depths == {doc[i].depth : i \in elements}
           level == Min(depths)
           S == {end} \cup {i \in at + 1 .. end - 1 : elements # {} /\ doc[i].depth = level}
<1>1. /\ Len(doc) \in Nat /\ start \in 1..Len(doc) /\ end \in start + 1..Len(doc) + 1
      /\ at \in start..end - 1 /\ doc[start].element
  BY DEF LevelOK, LinesTyped
<1>2. (\A i \in start..end - 1 : doc[i].depth >= base) /\ doc[at].depth = base
  BY DEF LevelOK
<1>3. \A i \in start..end - 1 : doc[i].depth \in Nat
  BY <1>1 DEF LinesTyped
<1>4. SectionEnd = Min(S)
  BY DEF SectionEnd
<1> HIDE DEF start, end, at, base
<1>5. start \in elements
  BY <1>1
<1>6. level = base
  <2>1. depths \in SUBSET Nat /\ base \in depths
    BY <1>3, <1>5 DEF base
  <2>2. level \in depths /\ level <= base
    BY <2>1, LeastIs
  <2>3. \A x \in depths : x >= base
    BY <1>2
  <2> QED  BY <2>1, <2>2, <2>3
<1> HIDE DEF level, elements
<1>7. S \in SUBSET Nat /\ end \in S
  BY <1>1
<1>8. Min(S) \in S /\ \A x \in S : Min(S) <= x
  BY <1>7, LeastIs
<1>9. SectionEnd \in at + 1..end
  BY <1>1, <1>4, <1>8
<1>10. ASSUME NEW j \in at + 1..SectionEnd - 1
       PROVE  doc[j].depth > doc[at].depth
  <2>1. j \in at + 1..end - 1 /\ j \in start..end - 1 /\ ~(SectionEnd <= j)
    BY <1>1, <1>9, <1>10
  <2>2. j \notin S
    BY <1>4, <1>8, <2>1
  <2>3. doc[j].depth # base
    BY <1>5, <1>6, <2>1, <2>2
  <2>4. doc[j].depth \in Nat /\ doc[j].depth >= base /\ base \in Nat
    BY <1>1, <1>2, <1>3, <2>1 DEF base
  <2> QED  BY <1>2, <2>3, <2>4
<1>11. SectionEnd < end => doc[SectionEnd].depth = base
  BY <1>1, <1>4, <1>6, <1>8, <1>9
<1> QED  BY <1>9, <1>10, <1>11 DEF start, end, at, base

\* A section of more than a line is one element, with others in it.
LEMMA SectionIs ==
    ASSUME DocOK(doc), LevelOK(doc, Top), Top.at < Top.end
    PROVE  /\ SectionText \in Texts /\ Top.at \in 1..Len(doc)
           /\ \A i \in Top.at..SectionEnd - 1 : HoldsIn(doc, SectionText, i)
           /\ From(SectionText, Top.at..SectionEnd - 1)
           /\ SectionEnd = Top.at + 1 => SectionText = LineTextIn(doc, Top.at)
           /\ SectionEnd # Top.at + 1 =>
                 /\ doc[Top.at].element /\ doc[Top.at + 1].element
                 /\ \A i \in Top.at + 1..SectionEnd - 1 : /\ AboveIn(doc, Top.at, i)
                                                          /\ doc[i].depth >= doc[Top.at + 1].depth
<1> DEFINE at == Top.at
           end == SectionEnd
<1>1. LinesTyped(doc)
  BY DEF DocOK
<1>2. /\ at \in Top.start..Top.end - 1 /\ Top.start \in 1..Len(doc) /\ Top.end \in Top.start + 1..Len(doc) + 1
      /\ Len(doc) \in Nat
  BY <1>1 DEF LevelOK, LinesTyped
<1>3. end \in at + 1..Top.end /\ \A j \in at + 1..end - 1 : doc[j].depth > doc[at].depth
  BY <1>1, SectionEndIs
<1> HIDE DEF at, end
<1>4. at \in 1..Len(doc) /\ end \in at + 1..Len(doc) + 1
  BY <1>2, <1>3
<1>5. SectionText = BodyIn(doc, at, end)
  BY TextsOfTheDocument DEF SectionText, at, end
<1> HIDE DEF SectionText
<1>6. /\ SectionText \in Texts
      /\ end = at + 1 => SectionText = LineTextIn(doc, at)
      /\ \A i \in at..end - 1 : HoldsIn(doc, SectionText, i)
      /\ \A c : Occurs(c, SectionText) => LineOf(c) = 0 \/ LineOf(c) \in at..end - 1
  BY <1>1, <1>4, <1>5, BodyIs
<1>7. From(SectionText, at..end - 1)
  BY <1>6, FromIs
<1>8. ASSUME end # at + 1
      PROVE  /\ doc[at].element /\ doc[at + 1].element
             /\ \A i \in at + 1..end - 1 : AboveIn(doc, at, i) /\ doc[i].depth >= doc[at + 1].depth
  <2>1. at + 1 \in at + 1..end - 1 /\ at \in 1..Len(doc) - 1 /\ at \in Nat
    BY <1>4, <1>8
  <2>2. doc[at + 1].depth > doc[at].depth
    BY <1>3, <2>1
  <2>3. doc[at + 1].depth = doc[at].depth + 1 /\ doc[at].element /\ doc[at + 1].element
    BY <2>1, <2>2 DEF DocOK
  <2>4. ASSUME NEW i \in at + 1..end - 1
        PROVE  AboveIn(doc, at, i) /\ doc[i].depth >= doc[at + 1].depth
    <3>1. i \in Nat /\ at < i /\ \A j \in at + 1..i : j \in at + 1..end - 1
      BY <1>4, <2>4
    <3>2. AboveIn(doc, at, i)
      BY <1>3, <2>3, <3>1 DEF AboveIn
    <3>3. doc[i].depth \in Nat /\ doc[at].depth \in Nat
      <4>1. i \in 1..Len(doc)
        BY <1>2, <1>4
      <4> QED  BY <1>1, <1>4, <4>1 DEF LinesTyped
    <3>4. doc[i].depth > doc[at].depth
      BY <1>3, <2>4
    <3> QED  BY <2>3, <3>2, <3>3, <3>4
  <2> QED  BY <2>3, <2>4
<1> QED  BY <1>4, <1>6, <1>7, <1>8 DEF at, end

\* A section that has to be torn has no line that need not be.
LEMMA TornIsLong ==
    ASSUME DocOK(doc), LevelOK(doc, Top), Top.at < Top.end, NEW n \in Nat, n >= Half, size \in Nat,
           Len(SectionText) > n, ~CanOpen
    PROVE  \A i \in Top.at..SectionEnd - 1 : ~Short(doc, size, i)
<1> DEFINE at == Top.at
           line == LineTextIn(doc, at)
<1>1. LinesTyped(doc) /\ at \in 1..Len(doc) /\ at \in Nat
  BY SectionIs DEF DocOK, LevelOK
<1>2. Len(line) \in Nat /\ Half \in Int /\ Half = size \div 2
  BY <1>1, LineTextIs, OccursIs DEF Half
<1>3. SectionEnd \in at + 1..Top.end
  BY <1>1, SectionEndIs
<1>4. Len(line) >= Half
  <2>1. CASE SectionEnd = at + 1
    BY <1>2, <2>1, SectionIs
  <2>2. CASE SectionEnd # at + 1
    <3>1. SectionEnd - at > 1
      BY <1>1, <1>3, <2>2
    <3>2. doc[at].element
      BY <2>2, SectionIs
    <3>3. ~(Len(line) + 1 <= Half)
      BY <3>1, <3>2, TextsOfTheDocument DEF CanOpen
    <3> QED  BY <1>2, <3>3
  <2> QED  BY <2>1, <2>2
<1>5. ASSUME NEW i \in at..SectionEnd - 1
      PROVE  ~Short(doc, size, i)
  <2>1. at = i \/ AboveIn(doc, at, i)
    <3>1. CASE SectionEnd = at + 1
      BY <1>1, <3>1
    <3>2. CASE SectionEnd # at + 1
      <4>1. i = at \/ i \in at + 1..SectionEnd - 1
        BY <1>1
      <4> QED  BY <3>2, <4>1, SectionIs
    <3> QED  BY <3>1, <3>2
  <2>2. ~(Len(line) < size \div 2)
    BY <1>2, <1>4
  <2> QED  BY <1>1, <2>1, <2>2 DEF Short
<1> QED  BY <1>5
----------------------------------------------------------------------------
\* The chunks cut from a level.

LEMMA TopIs ==
    ASSUME StackOK(doc, size, stack, ancestors), stack # <<>>
    PROVE  /\ Len(stack) \in Nat \ {0} /\ Len(ancestors) \in Nat /\ Len(stack) = Len(ancestors) + 1
           /\ Top = stack[Len(stack)] /\ Top \in Levels /\ LevelOK(doc, Top)
           /\ Len(Top.current) <= Budget /\ Budget = BudgetIn(doc, size, ancestors)
           /\ \A j \in 1..Len(ancestors), i \in Top.start..Top.end - 1 : AboveIn(doc, ancestors[j], i)
<1>1. /\ stack \in Seq(Levels) /\ Len(stack) \in Nat /\ Len(ancestors) \in Nat
      /\ Len(stack) = Len(ancestors) + 1
  BY LenProperties DEF StackOK
<1>2. Len(stack) \in 1..Len(stack) /\ Top = stack[Len(stack)]
  BY <1>1 DEF Top, Last
<1>3. Top \in Levels /\ LevelOK(doc, Top)
  BY <1>1, <1>2, ElementOfSeq DEF StackOK
<1>4. Budget = BudgetIn(doc, size, ancestors) /\ Len(Top.current) <= Budget
  BY <1>2, TextsOfTheDocument DEF StackOK
<1>5. \A j \in 1..Len(ancestors), i \in Top.start..Top.end - 1 : AboveIn(doc, ancestors[j], i)
  <2>1. CASE Len(ancestors) = 0
    BY <2>1
  <2>2. CASE Len(ancestors) # 0
    <3>1. Len(ancestors) \in 1..Len(ancestors)
      BY <1>1, <2>2
    <3>2. OpenerOK(doc, size, stack, ancestors, Len(ancestors))
      BY <3>1 DEF StackOK
    <3> QED  BY <1>1, <1>2, <3>2 DEF OpenerOK
  <2> QED  BY <2>1, <2>2
<1> QED  BY <1>1, <1>2, <1>3, <1>4, <1>5

\* The openers head one another's children.
LEMMA AncestorsAbove ==
    ASSUME StackOK(doc, size, stack, ancestors), stack # <<>>,
           NEW k \in 1..Len(ancestors), NEW j \in 1..k - 1
    PROVE  AboveIn(doc, ancestors[j], ancestors[k])
<1>1. Len(ancestors) \in Nat /\ Len(stack) = Len(ancestors) + 1 /\ stack \in Seq(Levels)
  BY TopIs DEF StackOK
<1>2. k - 1 \in 1..Len(ancestors) /\ (k - 1) + 1 = k /\ k \in 1..Len(stack)
  BY <1>1
<1>3. OpenerOK(doc, size, stack, ancestors, k - 1) /\ OpenerOK(doc, size, stack, ancestors, k)
  BY <1>2 DEF StackOK
<1>4. ancestors[k] \in stack[k].start..stack[k].at - 1 /\ stack[k] \in Levels /\ LevelOK(doc, stack[k])
  BY <1>1, <1>2, <1>3, ElementOfSeq DEF OpenerOK, StackOK
<1>5. ancestors[k] \in stack[k].start..stack[k].end - 1
  BY <1>4 DEF LevelOK, Levels
<1> QED  BY <1>2, <1>3, <1>5 DEF OpenerOK

\* The path above a chunk, with the line it ends in.
LEMMA PrefixHolds ==
    ASSUME DocOK(doc), size \in Nat \ {0}, StackOK(doc, size, stack, ancestors), stack # <<>>
    PROVE  /\ Prefix \in Texts /\ Budget \in Nat \ {0} /\ Len(Prefix) + Budget = size /\ Budget >= size \div 2
           /\ KeptAbove \in 0..Len(ancestors)
           /\ \A k \in (Len(ancestors) - KeptAbove) + 1..Len(ancestors) : HoldsIn(doc, Prefix, ancestors[k])
           /\ \A c : Occurs(c, Prefix) => LineOf(c) = 0 \/ \E j \in 1..Len(ancestors) : LineOf(c) = ancestors[j]
           /\ Len(ancestors) > 0 => /\ Heading = ancestors[Len(ancestors)] /\ Heading \in 1..Len(doc)
                                    /\ HoldsIn(doc, Prefix, Heading)
           /\ Len(ancestors) = 0 => Heading = 0
<1> DEFINE m == Len(ancestors)
<1>1. LinesTyped(doc) /\ ancestors \in Seq(1..Len(doc)) /\ m \in Nat
  BY TopIs DEF DocOK, StackOK
<1>2. Prefix = PrefixIn(doc, size, ancestors) /\ Budget = BudgetIn(doc, size, ancestors)
      /\ KeptAbove = KeptIn(doc, size, ancestors)
  BY TextsOfTheDocument
<1>3. /\ Prefix \in Texts /\ Budget \in Nat \ {0} /\ Len(Prefix) + Budget = size /\ Budget >= size \div 2
      /\ \A k \in (m - KeptAbove) + 1..m : HoldsIn(doc, Prefix, ancestors[k])
      /\ \A c : Occurs(c, Prefix) => LineOf(c) = 0 \/ \E j \in 1..m : LineOf(c) = ancestors[j]
  BY <1>1, <1>2, PrefixIs
<1>4. KeptAbove \in 0..m
  BY <1>1, <1>2, KeptIs
<1>5. ASSUME m > 0
      PROVE  /\ Heading = ancestors[m] /\ Heading \in 1..Len(doc) /\ HoldsIn(doc, Prefix, Heading)
  <2>1. m \in 1..m
    BY <1>1, <1>5
  <2>2. Heading = ancestors[m]
    BY <1>1, <1>5, EmptySeq DEF Heading, Last
  <2>3. OpenerOK(doc, size, stack, ancestors, m)
    BY <2>1 DEF StackOK
  <2>4. KeptAbove > 0
    BY <1>1, <1>2, <1>5, <2>3, KeptIs DEF OpenerOK
  <2>5. m \in (m - KeptAbove) + 1..m
    BY <1>1, <1>4, <2>4
  <2> QED  BY <1>1, <1>3, <2>1, <2>2, <2>5, ElementOfSeq
<1>6. m = 0 => Heading = 0
  BY <1>1, EmptySeq DEF Heading
<1> QED  BY <1>3, <1>4, <1>5, <1>6

Chunk(body) == [text |-> Prefix \o body, heading |-> Heading]

LEMMA ChunkIs ==
    ASSUME DocOK(doc), size \in Nat \ {0}, StackOK(doc, size, stack, ancestors), stack # <<>>,
           NEW body \in Texts, Len(body) <= Budget, From(body, Top.start..Top.end - 1)
    PROVE  /\ Chunk(body) \in Chunks /\ ChunkOK(doc, size, Chunk(body)) /\ Inside(body, Chunk(body).text)
           /\ \A k \in (Len(ancestors) - KeptAbove) + 1..Len(ancestors) :
                 HoldsIn(doc, Chunk(body).text, ancestors[k])
<1> DEFINE m == Len(ancestors)
           text == Prefix \o body
<1>1. m \in Nat /\ Len(doc) \in Nat
  BY TopIs DEF DocOK, LinesTyped
<1>2. /\ Prefix \in Texts /\ Budget \in Nat \ {0} /\ Len(Prefix) + Budget = size
      /\ \A k \in (m - KeptAbove) + 1..m : HoldsIn(doc, Prefix, ancestors[k])
      /\ \A c : Occurs(c, Prefix) => LineOf(c) = 0 \/ \E j \in 1..m : LineOf(c) = ancestors[j]
      /\ m > 0 => Heading = ancestors[m] /\ Heading \in 1..Len(doc) /\ HoldsIn(doc, Prefix, Heading)
      /\ m = 0 => Heading = 0
  BY PrefixHolds
<1>3. /\ text \in Texts /\ Len(text) = Len(Prefix) + Len(body)
      /\ \A c : Occurs(c, text) <=> Occurs(c, Prefix) \/ Occurs(c, body)
  BY <1>2, Joined
<1>4. Chunk(body) = [text |-> text, heading |-> Heading] /\ Chunk(body).text = text /\ Chunk(body).heading = Heading
  BY DEF Chunk
<1> HIDE DEF text, m
<1>5. Heading \in 0..Len(doc) /\ (Heading # 0 => m > 0)
  BY <1>1, <1>2
<1>6. Len(text) <= size
  <2>1. Len(Prefix) \in Nat /\ Len(body) \in Nat
    BY <1>2, OccursIs
  <2> QED  BY <1>2, <1>3, <2>1
<1>7. \A k : HoldsIn(doc, Prefix, k) => HoldsIn(doc, text, k)
  BY <1>3 DEF HoldsIn
<1>8. ASSUME Heading # 0
      PROVE  HoldsIn(doc, text, Heading) /\ Beside(doc, Heading, text)
  <2>1. HoldsIn(doc, text, Heading)
    BY <1>2, <1>5, <1>7, <1>8
  <2>2. ASSUME NEW c, Occurs(c, text), LineOf(c) \in 1..Len(doc), LineOf(c) # Heading
        PROVE  AboveIn(doc, LineOf(c), Heading) \/ AboveIn(doc, Heading, LineOf(c))
    <3>1. LineOf(c) # 0
      BY <1>1, <2>2
    <3>2. CASE Occurs(c, Prefix)
      <4>1. PICK j \in 1..m : LineOf(c) = ancestors[j]
        BY <1>2, <3>1, <3>2
      <4>2. j # m
        BY <1>2, <1>5, <1>8, <2>2, <4>1
      <4>3. m \in 1..m /\ j \in 1..m - 1
        BY <1>1, <4>2
      <4> QED  BY <1>2, <1>5, <1>8, <4>1, <4>3, AncestorsAbove DEF m
    <3>3. CASE Occurs(c, body)
      <4>1. LineOf(c) \in Top.start..Top.end - 1
        BY <3>1, <3>3, FromIs
      <4>2. m \in 1..m
        BY <1>1, <1>5, <1>8
      <4> QED  BY <1>2, <1>5, <1>8, <4>1, <4>2, TopIs DEF m
    <3> QED  BY <1>3, <2>2, <3>2, <3>3
  <2>3. \A j \in 1..Len(text) : Occurs(text[j], text)
    BY DEF Occurs
  <2> QED  BY <2>1, <2>2, <2>3 DEF Beside
<1>9. ChunkOK(doc, size, Chunk(body))
  BY <1>4, <1>5, <1>6, <1>8 DEF ChunkOK
<1>10. Chunk(body) \in Chunks
  BY <1>1, <1>3, <1>4, <1>5 DEF Chunks
<1> QED  BY <1>2, <1>3, <1>4, <1>7, <1>9, <1>10 DEF Inside, m

\* The chunks stay, and what is cut joins them.
Gathers(pc, bodies, pc2) ==
    /\ \A k \in 1..Len(pc) : \E j \in 1..Len(pc2) : pc2[j].text = pc[k].text
    /\ \A k \in 1..Len(bodies) : \E j \in 1..Len(pc2) : Inside(bodies[k], pc2[j].text)

LEMMA CutIs ==
    ASSUME DocOK(doc), size \in Nat \ {0}, StackOK(doc, size, stack, ancestors), stack # <<>>,
           MarksOK(doc, ancestors, inPath, pieces), ChunksOK(doc, size, pieces),
           NEW bodies \in Seq(Texts), Fit(bodies, Budget),
           \A k \in 1..Len(bodies) : From(bodies[k], Top.start..Top.end - 1)
    PROVE  /\ ChunksOK(doc, size, PiecesWith(bodies))
           /\ MarksOK(doc, ancestors, Marked(bodies), PiecesWith(bodies))
           /\ Gathers(pieces, bodies, PiecesWith(bodies))
<1> DEFINE m == Len(pieces)
           n == Len(bodies)
           more == [k \in 1..n |-> Chunk(bodies[k])]
           all == PiecesWith(bodies)
<1>1. m \in Nat /\ n \in Nat /\ DOMAIN bodies = 1..n /\ \A k \in 1..n : bodies[k] \in Texts
  BY LenProperties, PiecesAre DEF ChunksOK
<1>2. pieces \in Seq(Chunks) /\ \A k \in 1..m : ChunkOK(doc, size, pieces[k])
  BY DEF ChunksOK
<1>3. ASSUME NEW k \in 1..n
      PROVE  /\ Chunk(bodies[k]) \in Chunks /\ ChunkOK(doc, size, Chunk(bodies[k]))
             /\ Inside(bodies[k], Chunk(bodies[k]).text)
             /\ \A j \in (Len(ancestors) - KeptAbove) + 1..Len(ancestors) :
                   HoldsIn(doc, Chunk(bodies[k]).text, ancestors[j])
  <2>1. bodies[k] \in Texts /\ Len(bodies[k]) <= Budget /\ From(bodies[k], Top.start..Top.end - 1)
    BY <1>1 DEF Fit
  <2> QED  BY <2>1, ChunkIs
<1>4. more \in Seq(Chunks) /\ Len(more) = n /\ \A k \in 1..n : more[k] = Chunk(bodies[k])
  BY <1>1, <1>3
<1>5. all = pieces \o more
  BY <1>1 DEF PiecesWith, Chunk
<1> HIDE DEF more, all, m, n
<1>6. /\ all \in Seq(Chunks) /\ Len(all) = m + n
      /\ \A i \in 1..m + n : all[i] = IF i <= m THEN pieces[i] ELSE more[i - m]
  BY <1>2, <1>4, <1>5, ConcatProperties DEF m
<1>7. \A i \in 1..m : i \in 1..m + n /\ all[i] = pieces[i]
  BY <1>1, <1>6
<1>8. \A i \in 1..n : i + m \in 1..m + n /\ all[i + m] = Chunk(bodies[i])
  <2> SUFFICES ASSUME NEW i \in 1..n PROVE i + m \in 1..m + n /\ all[i + m] = Chunk(bodies[i])
    OBVIOUS
  <2>1. i + m \in 1..m + n /\ ~(i + m <= m) /\ (i + m) - m = i
    BY <1>1
  <2> QED  BY <1>4, <1>6, <2>1
<1>9. \A i \in 1..m + n : ChunkOK(doc, size, all[i])
  <2> SUFFICES ASSUME NEW i \in 1..m + n PROVE ChunkOK(doc, size, all[i])
    OBVIOUS
  <2>1. CASE i <= m
    BY <1>1, <1>2, <1>6, <2>1
  <2>2. CASE ~(i <= m)
    <3>1. i - m \in 1..n
      BY <1>1, <2>2
    <3> QED  BY <1>3, <1>4, <1>6, <2>2, <3>1
  <2> QED  BY <2>1, <2>2
<1>10. ChunksOK(doc, size, all)
  BY <1>6, <1>9 DEF ChunksOK
<1>11. Gathers(pieces, bodies, all)
  BY <1>3, <1>6, <1>7, <1>8 DEF Gathers, m, n
<1>12. MarksOK(doc, ancestors, Marked(bodies), all)
  <2> DEFINE l == Len(inPath)
             marks == Marked(bodies)
  <2>1. /\ inPath \in Seq(BOOLEAN) /\ l = Len(ancestors) /\ l \in Nat /\ DOMAIN inPath = 1..l
        /\ \A k \in 1..l : inPath[k] \in BOOLEAN
        /\ \A k \in 1..l : inPath[k] => \E j \in 1..m : HoldsIn(doc, pieces[j].text, ancestors[k])
    BY LenProperties, ElementOfSeq DEF MarksOK, m
  <2>2. marks = [k \in 1..l |-> inPath[k] \/ (bodies # <<>> /\ k > l - KeptAbove)]
    BY <2>1 DEF Marked
  <2> HIDE DEF l, marks
  <2>3. marks \in Seq(BOOLEAN) /\ Len(marks) = l
        /\ \A k \in 1..l : marks[k] <=> inPath[k] \/ (bodies # <<>> /\ k > l - KeptAbove)
    <3> DEFINE Repeated(k) == inPath[k] \/ (bodies # <<>> /\ k > l - KeptAbove)
    <3>1. \A k \in 1..l : Repeated(k) \in BOOLEAN
      OBVIOUS
    <3>2. marks = [k \in 1..l |-> Repeated(k)]
      BY <2>2
    <3> HIDE DEF Repeated
    <3>3. marks \in [1..l -> BOOLEAN] /\ \A k \in 1..l : marks[k] = Repeated(k)
      BY <3>1, <3>2, Zenon
    <3>4. marks \in Seq(BOOLEAN) /\ Len(marks) = l
      BY <2>1, <3>3
    <3> QED  BY <3>3, <3>4 DEF Repeated
  <2>4. ASSUME NEW k \in 1..l, marks[k]
        PROVE  \E j \in 1..m + n : HoldsIn(doc, all[j].text, ancestors[k])
    <3>1. CASE inPath[k]
      <4>1. PICK j \in 1..m : HoldsIn(doc, pieces[j].text, ancestors[k])
        BY <2>1, <3>1
      <4> QED  BY <1>7, <4>1
    <3>2. CASE bodies # <<>> /\ k > l - KeptAbove
      <4>1. 1 \in 1..n
        BY <1>1, <3>2, EmptySeq DEF n
      <4>2. KeptAbove \in 0..Len(ancestors)
        BY PrefixHolds
      <4>3. k \in (Len(ancestors) - KeptAbove) + 1..Len(ancestors)
        BY <2>1, <3>2, <4>2
      <4> QED  BY <1>3, <1>8, <4>1, <4>3
    <3> QED  BY <2>3, <2>4, <3>1, <3>2
  <2> QED  BY <1>6, <2>1, <2>3, <2>4 DEF MarksOK, marks
<1> QED  BY <1>10, <1>11, <1>12 DEF all
----------------------------------------------------------------------------
\* A step over the next section.

LEMMA PassedIs ==
    ASSUME DocOK(doc), size \in Nat \ {0}, StackOK(doc, size, stack, ancestors), Walking,
           NEW text \in Texts, Len(text) <= Budget, From(text, Top.start..SectionEnd - 1)
    PROVE  /\ StackOK(doc, size, Passed(text), ancestors) /\ Passed(text) # <<>>
           /\ Len(Passed(text)) = Len(stack)
           /\ \A k \in 1..Len(stack) - 1 : Passed(text)[k] = stack[k]
           /\ Passed(text)[Len(stack)] =
                 [start |-> Top.start, end |-> Top.end, at |-> SectionEnd, current |-> text]
<1> DEFINE n == Len(stack)
           l == [start |-> Top.start, end |-> Top.end, at |-> SectionEnd, current |-> text]
           st == Passed(text)
           end == SectionEnd
<1>1. /\ stack # <<>> /\ Top.at < Top.end /\ n \in Nat \ {0} /\ n = Len(ancestors) + 1 /\ Top = stack[n]
      /\ Top \in Levels /\ LevelOK(doc, Top) /\ stack \in Seq(Levels) /\ Len(ancestors) \in Nat
  BY TopIs DEF Walking, StackOK
<1>2. /\ end \in Top.at + 1..Top.end
      /\ end < Top.end => doc[end].depth = doc[Top.start].depth
  BY <1>1, SectionEndIs DEF DocOK
<1>3. Top.start \in Nat /\ Top.end \in Nat /\ Top.at \in Nat /\ Top.at \in Top.start..Top.end
  BY <1>1 DEF Levels, LevelOK
<1> HIDE DEF end
<1>4. l \in Levels /\ LevelOK(doc, l)
  <2>1. end \in Nat /\ end \in Top.start..Top.end
    BY <1>2, <1>3
  <2>2. l \in Levels
    BY <1>3, <2>1 DEF Levels, end
  <2>3. l.start = Top.start /\ l.end = Top.end /\ l.at = end /\ l.current = text
    BY DEF end
  <2> HIDE DEF l
  <2> QED  BY <1>1, <1>2, <2>1, <2>2, <2>3 DEF LevelOK, end
<1>5. st = [stack EXCEPT ![n] = l]
  <2>1. [Top EXCEPT !.at = SectionEnd, !.current = text] = l
    <3> DEFINE r == [Top EXCEPT !.at = SectionEnd, !.current = text]
    <3>1. SectionEnd \in Nat
      BY <1>2, <1>3 DEF end
    <3>2. /\ r \in Levels /\ r.start = Top.start /\ r.end = Top.end
          /\ r.at = SectionEnd /\ r.current = text
      BY <1>1, <3>1 DEF Levels
    <3>3. l \in Levels /\ l.start = Top.start /\ l.end = Top.end /\ l.at = SectionEnd /\ l.current = text
      BY <1>4
    <3> HIDE DEF r, l
    <3>4. r = l
      BY <3>2, <3>3 DEF Levels
    <3> QED  BY <3>4 DEF r
  <2> QED  BY <1>1, <2>1 DEF Passed
<1> HIDE DEF l, st, n
<1>6. st \in Seq(Levels) /\ Len(st) = n /\ \A k \in 1..n : st[k] = IF k = n THEN l ELSE stack[k]
  BY <1>1, <1>4, <1>5, ExceptSeq DEF n
<1>7. \A k \in 1..n - 1 : k \in 1..n /\ st[k] = stack[k]
  BY <1>1, <1>6
<1>8. n \in 1..n /\ st[n] = l
  BY <1>1, <1>6
<1>9. \A k \in 1..n : LevelOK(doc, st[k])
  BY <1>4, <1>6 DEF StackOK, n
<1>10. ASSUME NEW k \in 1..Len(ancestors)
       PROVE  OpenerOK(doc, size, st, ancestors, k)
  <2>1. OpenerOK(doc, size, stack, ancestors, k) /\ k \in 1..n - 1 /\ k + 1 \in 1..n
    BY <1>1 DEF StackOK
  <2>2. st[k] = stack[k]
    BY <1>7, <2>1
  <2>3. st[k + 1].start = stack[k + 1].start /\ st[k + 1].end = stack[k + 1].end
    <3>1. CASE k + 1 = n
      BY <1>1, <1>8, <3>1 DEF l
    <3>2. CASE k + 1 # n
      BY <1>6, <2>1, <3>2
    <3> QED  BY <3>1, <3>2
  <2> QED  BY <2>1, <2>2, <2>3 DEF OpenerOK
<1>11. st # <<>> /\ Len(st[n].current) <= BudgetIn(doc, size, ancestors)
  BY <1>1, <1>6, <1>8, TopIs, EmptySeq DEF l
<1>12. ancestors \in Seq(1..Len(doc))
  BY DEF StackOK
<1>13. StackOK(doc, size, st, ancestors)
  BY <1>1, <1>6, <1>9, <1>10, <1>11, <1>12 DEF StackOK
<1> QED  BY <1>6, <1>7, <1>8, <1>11, <1>13 DEF st, l, n

\* The section that is passed is no longer ahead, and nothing else is.
LEMMA AheadOfPassed ==
    ASSUME DocOK(doc), size \in Nat \ {0}, StackOK(doc, size, stack, ancestors), Walking,
           NEW text \in Texts, Len(text) <= Budget, From(text, Top.start..SectionEnd - 1),
           NEW i, Ahead(stack, i)
    PROVE  Ahead(Passed(text), i) \/ i \in Top.at..SectionEnd - 1
<1> DEFINE n == Len(stack)
           st == Passed(text)
<1>1. /\ Len(st) = n /\ \A k \in 1..n - 1 : st[k] = stack[k]
      /\ st[n].at = SectionEnd /\ st[n].end = Top.end
  <2> DEFINE l == [start |-> Top.start, end |-> Top.end, at |-> SectionEnd, current |-> text]
  <2>1. Len(st) = n /\ (\A k \in 1..n - 1 : st[k] = stack[k]) /\ st[n] = l
    BY PassedIs
  <2>2. l.at = SectionEnd /\ l.end = Top.end
    OBVIOUS
  <2> HIDE DEF l, st, n
  <2> QED  BY <2>1, <2>2
<1>2. n \in Nat \ {0} /\ Top = stack[n] /\ Top \in Levels /\ LevelOK(doc, Top) /\ Top.at < Top.end
  BY TopIs DEF Walking
<1>3. SectionEnd \in Top.at + 1..Top.end
  BY <1>2, SectionEndIs DEF DocOK
<1> HIDE DEF st
<1>4. PICK k \in 1..n : i \in stack[k].at..stack[k].end - 1
  BY DEF Ahead
<1>5. CASE k # n
  <2>1. k \in 1..n - 1
    BY <1>2, <1>5
  <2> QED  BY <1>1, <1>4, <2>1 DEF Ahead, st
<1>6. CASE k = n
  <2>1. i \in Top.at..Top.end - 1 /\ n \in 1..n
    BY <1>2, <1>4, <1>6
  <2>2. Top.at \in Nat /\ Top.end \in Nat
    BY <1>2 DEF Levels
  <2>3. i \in Top.at..SectionEnd - 1 \/ i \in SectionEnd..Top.end - 1
    BY <1>3, <2>1, <2>2
  <2> QED  BY <1>1, <2>1, <2>3 DEF Ahead, st
<1> QED  BY <1>5, <1>6

LEMMA StoreGrows ==
    ASSUME StackOK(doc, size, stack, ancestors), stack # <<>>, NEW pc, NEW st,
           \A k \in 1..Len(pieces) : \E j \in 1..Len(pc) : pc[j].text = pieces[k].text,
           Top.current = <<>> \/ \E t \in Store(pc, st) : Inside(Top.current, t)
    PROVE  Grows(Store(pieces, stack), Store(pc, st))
<1>1. Len(stack) \in Nat /\ Len(stack) = Len(ancestors) + 1 /\ Top = stack[Len(stack)]
  BY TopIs
<1>2. \A k \in 1..Len(stack) : k # Len(stack) => stack[k].current = <<>>
  <2> SUFFICES ASSUME NEW k \in 1..Len(stack), k # Len(stack) PROVE stack[k].current = <<>>
    OBVIOUS
  <2>1. k \in 1..Len(ancestors)
    BY <1>1, TopIs
  <2> QED  BY <2>1 DEF StackOK, OpenerOK
<1>3. ASSUME NEW k \in 1..Len(stack), stack[k].current # <<>>
      PROVE  \E t \in Store(pc, st) : Inside(stack[k].current, t)
  BY <1>1, <1>2, <1>3
<1>4. ASSUME NEW k \in 1..Len(pieces)
      PROVE  \E t \in Store(pc, st) : Inside(pieces[k].text, t)
  BY DEF Store, Inside
<1> QED  BY <1>3, <1>4 DEF Store, Grows

LEMMA CoveredStays ==
    ASSUME DocOK(doc), Covered(doc, size, stack, ancestors, pieces), NEW st, NEW anc, NEW pc,
           Grows(Store(pieces, stack), Store(pc, st)),
           \A i \in 1..Len(doc) : Ahead(stack, i) \/ Heads(ancestors, i) =>
               Ahead(st, i) \/ Heads(anc, i) \/ Placed(doc, size, Store(pc, st), i)
    PROVE  Covered(doc, size, st, anc, pc)
<1> SUFFICES ASSUME NEW i \in 1..Len(doc)
             PROVE  Ahead(st, i) \/ Heads(anc, i) \/ Placed(doc, size, Store(pc, st), i)
  BY DEF Covered
<1>1. CASE Placed(doc, size, Store(pieces, stack), i)
  BY <1>1, PlacedStays DEF DocOK
<1> QED  BY <1>1 DEF Covered

\* What was being merged, as pieces to cut.
LEMMA MergedIs ==
    ASSUME DocOK(doc), StackOK(doc, size, stack, ancestors), stack # <<>>
    PROVE  /\ Merged(Top) \in Seq(Texts) /\ Fit(Merged(Top), Budget)
           /\ \A k \in 1..Len(Merged(Top)) : From(Merged(Top)[k], Top.start..Top.end - 1)
           /\ Top.current = <<>> \/ (1 \in 1..Len(Merged(Top)) /\ Merged(Top)[1] = Top.current)
<1>1. /\ Top.current \in Texts /\ Len(Top.current) <= Budget /\ From(Top.current, Top.start..Top.at - 1)
      /\ Top.at \in Top.start..Top.end /\ Top.start \in Nat /\ Top.end \in Nat
  BY TopIs DEF Levels, LevelOK
<1>2. From(Top.current, Top.start..Top.end - 1)
  <2>1. Top.start..Top.at - 1 \subseteq Top.start..Top.end - 1
    BY <1>1
  <2> QED  BY <1>1, <2>1, FromWider
<1>3. CASE Top.current = <<>>
  <2>1. Merged(Top) = <<>>
    BY <1>3 DEF Merged
  <2> QED  BY <1>3, <2>1, EmptyText DEF Fit
<1>4. CASE Top.current # <<>>
  <2>1. Merged(Top) = <<Top.current>>
    BY <1>4 DEF Merged
  <2>2. /\ <<Top.current>> \in Seq(Texts) /\ Len(<<Top.current>>) = 1 /\ <<Top.current>>[1] = Top.current
        /\ Fit(<<Top.current>>, Budget)
    BY <1>1, OnePiece
  <2>3. 1..1 = {1}
    OBVIOUS
  <2> QED  BY <1>2, <2>1, <2>2, <2>3
<1> QED  BY <1>3, <1>4

\* What was being merged is in what has been cut.
LEMMA MergedGathered ==
    ASSUME DocOK(doc), StackOK(doc, size, stack, ancestors), stack # <<>>, NEW pc, NEW st, NEW bodies,
           Gathers(pieces, bodies, pc),
           \A k \in 1..Len(Merged(Top)) : k \in 1..Len(bodies) /\ bodies[k] = Merged(Top)[k]
    PROVE  Grows(Store(pieces, stack), Store(pc, st))
<1>1. Top.current = <<>> \/ \E t \in Store(pc, st) : Inside(Top.current, t)
  <2>1. CASE Top.current # <<>>
    <3>1. 1 \in 1..Len(bodies) /\ bodies[1] = Top.current
      BY <2>1, MergedIs
    <3> QED  BY <3>1 DEF Gathers, Store
  <2> QED  BY <2>1
<1> QED  BY <1>1, StoreGrows DEF Gathers
----------------------------------------------------------------------------
\* Each step preserves the invariant.

LEMMA ChunkInvIs ==
    ASSUME ChunkInv
    PROVE  /\ DocOK(doc) /\ LinesTyped(doc) /\ Len(doc) \in Nat \ {0} /\ size \in Nat \ {0}
           /\ StackOK(doc, size, stack, ancestors) /\ MarksOK(doc, ancestors, inPath, pieces)
           /\ ChunksOK(doc, size, pieces) /\ Covered(doc, size, stack, ancestors, pieces)
  BY XmlChunksAssumption DEF ChunkInv, DocOK, LinesTyped

\* The section that is passed, when what is then being merged has all of it.
LEMMA PassedWhole ==
    ASSUME ChunkInv, Walking, NEW pc,
           NEW text \in Texts, Len(text) <= Budget, From(text, Top.start..SectionEnd - 1),
           \A i \in Top.at..SectionEnd - 1 : HoldsIn(doc, text, i),
           Grows(Store(pieces, stack), Store(pc, Passed(text)))
    PROVE  Covered(doc, size, Passed(text), ancestors, pc)
<1> DEFINE st == Passed(text)
           T == Store(pc, st)
<1>1. text \in T
  <2>1. Len(stack) \in 1..Len(st) /\ st[Len(stack)].current = text
    <3> DEFINE l == [start |-> Top.start, end |-> Top.end, at |-> SectionEnd, current |-> text]
    <3>1. Len(st) = Len(stack) /\ st[Len(stack)] = l
      BY ChunkInvIs, PassedIs
    <3>2. l.current = text
      OBVIOUS
    <3>3. Len(stack) \in Nat \ {0}
      BY ChunkInvIs, TopIs DEF Walking
    <3> HIDE DEF l, st
    <3> QED  BY <3>1, <3>2, <3>3
  <2> QED  BY <2>1 DEF Store
<1>2. ASSUME NEW i \in 1..Len(doc), Ahead(stack, i)
      PROVE  Ahead(st, i) \/ Placed(doc, size, T, i)
  <2>1. Ahead(st, i) \/ i \in Top.at..SectionEnd - 1
    BY <1>2, ChunkInvIs, AheadOfPassed
  <2> HIDE DEF st, T
  <2> QED  BY <1>1, <2>1, PlacedWhole
<1> HIDE DEF st
<1> QED  BY <1>2, ChunkInvIs, CoveredStays DEF st

LEMMA MergeSectionKeeps ==
    ASSUME ChunkInv, MergeSection
    PROVE  ChunkInv'
<1> DEFINE text == Top.current \o <<NewLine>> \o SectionText
           st == Passed(text)
<1>1. /\ Walking /\ Fits /\ stack' = st
      /\ doc' = doc /\ size' = size /\ ancestors' = ancestors /\ inPath' = inPath
      /\ pieces' = pieces /\ cutting' = cutting
  BY DEF MergeSection
<1>2. /\ stack # <<>> /\ Top.at < Top.end /\ LevelOK(doc, Top)
      /\ Top.current \in Texts /\ From(Top.current, Top.start..Top.at - 1)
      /\ Top.start \in Nat /\ Top.at \in Top.start..Top.end /\ Top.end \in Nat
  BY <1>1, ChunkInvIs, TopIs DEF Walking, Levels, LevelOK
<1>3. /\ SectionText \in Texts /\ From(SectionText, Top.at..SectionEnd - 1)
      /\ \A i \in Top.at..SectionEnd - 1 : HoldsIn(doc, SectionText, i)
  BY <1>2, ChunkInvIs, SectionIs
<1>4. SectionEnd \in Top.at + 1..Top.end
  BY <1>2, ChunkInvIs, SectionEndIs
<1>5. /\ text \in Texts /\ Len(text) = Len(Top.current) + 1 + Len(SectionText)
      /\ \A c : Occurs(c, Top.current) \/ Occurs(c, SectionText) => Occurs(c, text)
  BY <1>2, <1>3, JoinedLines
<1>6. From(text, Top.start..SectionEnd - 1)
  <2>1. /\ Top.start..Top.at - 1 \subseteq Top.start..SectionEnd - 1
        /\ Top.at..SectionEnd - 1 \subseteq Top.start..SectionEnd - 1
    BY <1>2, <1>4
  <2>2. From(Top.current, Top.start..SectionEnd - 1) /\ From(SectionText, Top.start..SectionEnd - 1)
    BY <1>2, <1>3, <2>1, FromWider
  <2> QED  BY <1>2, <1>3, <2>2, FromJoined
<1>7. Len(text) <= Budget
  BY <1>1, <1>5 DEF Fits
<1>8. \A i \in Top.at..SectionEnd - 1 : HoldsIn(doc, text, i)
  BY <1>3, <1>5 DEF HoldsIn
<1> HIDE DEF text
<1>9. StackOK(doc, size, st, ancestors) /\ st # <<>>
  BY <1>1, <1>5, <1>6, <1>7, ChunkInvIs, PassedIs
<1>10. Grows(Store(pieces, stack), Store(pieces, st))
  <2>1. text \in Store(pieces, st)
    <3> DEFINE l == [start |-> Top.start, end |-> Top.end, at |-> SectionEnd, current |-> text]
    <3>1. Len(st) = Len(stack) /\ st[Len(stack)] = l
      BY <1>1, <1>5, <1>6, <1>7, ChunkInvIs, PassedIs
    <3>2. l.current = text
      OBVIOUS
    <3>3. Len(stack) \in Nat \ {0}
      BY <1>2, ChunkInvIs, TopIs
    <3> HIDE DEF l, st
    <3> QED  BY <3>1, <3>2, <3>3 DEF Store
  <2>2. Inside(Top.current, text)
    BY <1>5 DEF Inside
  <2> HIDE DEF st
  <2> QED  BY <1>2, <2>1, <2>2, ChunkInvIs, StoreGrows
<1>11. Covered(doc, size, st, ancestors, pieces)
  BY <1>1, <1>5, <1>6, <1>7, <1>8, <1>10, PassedWhole
<1> HIDE DEF st
<1>12. ~cutting => stack = <<>>
  BY DEF ChunkInv
<1> QED  BY <1>1, <1>2, <1>9, <1>11, <1>12, ChunkInvIs DEF ChunkInv

LEMMA StartSectionKeeps ==
    ASSUME ChunkInv, StartSection
    PROVE  ChunkInv'
<1> DEFINE text == SectionText
           st == Passed(text)
           bodies == Merged(Top)
           pc == PiecesWith(bodies)
           marks == Marked(bodies)
<1>1. /\ Walking /\ Len(text) <= Budget /\ stack' = st /\ pieces' = pc /\ inPath' = marks
      /\ doc' = doc /\ size' = size /\ ancestors' = ancestors /\ cutting' = cutting
  BY DEF StartSection, Cut
<1>2. /\ stack # <<>> /\ Top.at < Top.end /\ LevelOK(doc, Top)
      /\ Top.start \in Nat /\ Top.at \in Top.start..Top.end /\ Top.end \in Nat
  BY <1>1, ChunkInvIs, TopIs DEF Walking, Levels, LevelOK
<1>3. /\ text \in Texts /\ From(text, Top.at..SectionEnd - 1)
      /\ \A i \in Top.at..SectionEnd - 1 : HoldsIn(doc, text, i)
  BY <1>2, ChunkInvIs, SectionIs
<1>4. SectionEnd \in Top.at + 1..Top.end
  BY <1>2, ChunkInvIs, SectionEndIs
<1>5. From(text, Top.start..SectionEnd - 1)
  <2>1. Top.at..SectionEnd - 1 \subseteq Top.start..SectionEnd - 1
    BY <1>2, <1>4
  <2> QED  BY <1>3, <2>1, FromWider
<1> HIDE DEF text
<1>6. StackOK(doc, size, st, ancestors) /\ st # <<>>
  BY <1>1, <1>3, <1>5, ChunkInvIs, PassedIs
<1>7. /\ ChunksOK(doc, size, pc) /\ MarksOK(doc, ancestors, marks, pc) /\ Gathers(pieces, bodies, pc)
  BY <1>2, ChunkInvIs, MergedIs, CutIs
<1>8. Grows(Store(pieces, stack), Store(pc, st))
  <2> HIDE DEF pc, st
  <2> QED  BY <1>2, <1>7, ChunkInvIs, MergedGathered
<1>9. Covered(doc, size, st, ancestors, pc)
  BY <1>1, <1>3, <1>5, <1>8, PassedWhole
<1> HIDE DEF st, pc, marks
<1>10. ~cutting => stack = <<>>
  BY DEF ChunkInv
<1> QED  BY <1>1, <1>2, <1>6, <1>7, <1>9, <1>10, ChunkInvIs DEF ChunkInv

LEMMA SplitSectionKeeps ==
    ASSUME ChunkInv, SplitSection
    PROVE  ChunkInv'
<1> DEFINE st == Passed(<<>>)
           torn == SplitLines(SectionText, Budget)
           kept == WithText(torn)
           bodies == Merged(Top) \o kept
           pc == PiecesWith(bodies)
           marks == Marked(bodies)
<1>1. /\ Walking /\ Len(SectionText) > Budget /\ ~CanOpen /\ stack' = st /\ pieces' = pc /\ inPath' = marks
      /\ doc' = doc /\ size' = size /\ ancestors' = ancestors /\ cutting' = cutting
  BY DEF SplitSection, Cut
<1>2. /\ stack # <<>> /\ Top.at < Top.end /\ LevelOK(doc, Top)
      /\ Top.start \in Nat /\ Top.at \in Top.start..Top.end /\ Top.end \in Nat
  BY <1>1, ChunkInvIs, TopIs DEF Walking, Levels, LevelOK
<1>3. Budget \in Nat \ {0} /\ Budget >= Half
  BY <1>2, ChunkInvIs, PrefixHolds DEF Half
<1>4. /\ SectionText \in Texts /\ From(SectionText, Top.at..SectionEnd - 1)
      /\ \A i \in Top.at..SectionEnd - 1 : HoldsIn(doc, SectionText, i)
  BY <1>2, ChunkInvIs, SectionIs
<1>5. SectionEnd \in Top.at + 1..Top.end
  BY <1>2, ChunkInvIs, SectionEndIs
<1>6. torn \in Seq(Texts) /\ Fit(torn, Budget) /\ \A c : In(c, torn) <=> Occurs(c, SectionText)
  BY <1>3, <1>4, SplitLinesIs DEF HoldAll
<1> HIDE DEF torn
<1>7. /\ kept \in Seq(Texts) /\ Fit(kept, Budget)
      /\ \A c : In(c, kept) => Occurs(c, SectionText)
      /\ \A c : Occurs(c, SectionText) /\ LineOf(c) > 0 => In(c, kept)
  BY <1>6, WithTextIs
<1> HIDE DEF kept
<1>8. \A k \in 1..Len(kept) : From(kept[k], Top.start..Top.end - 1)
  <2> SUFFICES ASSUME NEW k \in 1..Len(kept) PROVE From(kept[k], Top.start..Top.end - 1)
    OBVIOUS
  <2>1. Top.at..SectionEnd - 1 \subseteq Top.start..Top.end - 1
    BY <1>2, <1>5
  <2>2. \A c : Occurs(c, kept[k]) => Occurs(c, SectionText)
    BY <1>7 DEF In
  <2>3. \A c : Occurs(c, SectionText) => LineOf(c) = 0 \/ LineOf(c) \in Top.at..SectionEnd - 1
    BY <1>4, FromIs
  <2>4. kept[k] \in Texts
    BY <1>7, PiecesAre
  <2>5. From(kept[k], Top.at..SectionEnd - 1)
    BY <2>2, <2>3, <2>4, FromIs
  <2> QED  BY <2>1, <2>5, FromWider
<1>9. /\ Merged(Top) \in Seq(Texts) /\ Fit(Merged(Top), Budget)
      /\ \A k \in 1..Len(Merged(Top)) : From(Merged(Top)[k], Top.start..Top.end - 1)
  BY <1>2, ChunkInvIs, MergedIs
<1> DEFINE m == Len(Merged(Top))
           n == Len(kept)
<1>10. m \in Nat /\ n \in Nat
  BY <1>7, <1>9, PiecesAre
<1>11. /\ bodies \in Seq(Texts) /\ Fit(bodies, Budget) /\ Len(bodies) = m + n
       /\ \A k \in 1..m + n : bodies[k] = IF k <= m THEN Merged(Top)[k] ELSE kept[k - m]
  BY <1>7, <1>9, PiecesJoined, ConcatProperties
<1> HIDE DEF bodies
<1>12. \A k \in 1..Len(bodies) : From(bodies[k], Top.start..Top.end - 1)
  <2> SUFFICES ASSUME NEW k \in 1..m + n PROVE From(bodies[k], Top.start..Top.end - 1)
    BY <1>11
  <2>1. CASE k <= m
    <3>1. k \in 1..m
      BY <1>10, <2>1
    <3> QED  BY <1>9, <1>11, <2>1, <3>1
  <2>2. CASE ~(k <= m)
    <3>1. k - m \in 1..n
      BY <1>10, <2>2
    <3> QED  BY <1>8, <1>11, <2>2, <3>1
  <2> QED  BY <2>1, <2>2
<1>13. /\ ChunksOK(doc, size, pc) /\ MarksOK(doc, ancestors, marks, pc) /\ Gathers(pieces, bodies, pc)
  BY <1>2, <1>11, <1>12, ChunkInvIs, CutIs
<1> HIDE DEF pc, marks
<1>14. \A k \in 1..m : k \in 1..Len(bodies) /\ bodies[k] = Merged(Top)[k]
  <2>1. \A k \in 1..m : k \in 1..m + n /\ k <= m
    BY <1>10
  <2> QED  BY <1>11, <2>1
<1>15. \A k \in 1..n : \E j \in 1..Len(bodies) : bodies[j] = kept[k]
  <2> SUFFICES ASSUME NEW k \in 1..n PROVE \E j \in 1..Len(bodies) : bodies[j] = kept[k]
    OBVIOUS
  <2>1. k + m \in 1..m + n /\ ~(k + m <= m) /\ (k + m) - m = k
    BY <1>10
  <2> QED  BY <1>11, <2>1
<1>16. <<>> \in Texts /\ Len(<<>>) <= Budget /\ From(<<>>, Top.start..SectionEnd - 1)
  BY <1>3, EmptyText, FromNone
<1>17. StackOK(doc, size, st, ancestors) /\ st # <<>>
  BY <1>1, <1>16, ChunkInvIs, PassedIs
<1>18. \A i \in 1..Len(doc) : Ahead(stack, i) => Ahead(st, i) \/ i \in Top.at..SectionEnd - 1
  BY <1>1, <1>16, ChunkInvIs, AheadOfPassed
<1> HIDE DEF st
<1>19. Grows(Store(pieces, stack), Store(pc, st))
  BY <1>2, <1>13, <1>14, ChunkInvIs, MergedGathered
<1>20. ASSUME NEW i \in 1..Len(doc), i \in Top.at..SectionEnd - 1
       PROVE  Placed(doc, size, Store(pc, st), i)
  <2>1. ~Short(doc, size, i)
    BY <1>1, <1>2, <1>3, <1>20, ChunkInvIs, TornIsLong
  <2>2. ASSUME NEW c \in WordIn(doc, i)
        PROVE  \E t \in Store(pc, st) : Occurs(c, t)
    <3>1. Occurs(c, SectionText) /\ LineOf(c) > 0
      BY <1>4, <1>20, ChunkInvIs, WordIs DEF HoldsIn
    <3>2. PICK k \in 1..n : Occurs(c, kept[k])
      BY <1>7, <3>1 DEF In
    <3>3. PICK j \in 1..Len(bodies) : bodies[j] = kept[k]
      BY <1>15
    <3>4. PICK l \in 1..Len(pc) : Inside(bodies[j], pc[l].text)
      BY <1>13 DEF Gathers
    <3> QED  BY <3>2, <3>3, <3>4 DEF Inside, Store
  <2> QED  BY <2>1, <2>2 DEF Placed
<1>21. Covered(doc, size, st, ancestors, pc)
  BY <1>18, <1>19, <1>20, ChunkInvIs, CoveredStays
<1>22. ~cutting => stack = <<>>
  BY DEF ChunkInv
<1> QED  BY <1>1, <1>2, <1>13, <1>17, <1>21, <1>22, ChunkInvIs DEF ChunkInv
----------------------------------------------------------------------------
\* An element gets a level of its own.

LEMMA OpenedIs ==
    ASSUME ChunkInv, Walking, CanOpen
    PROVE  LET st == Append(Passed(<<>>), Level(Top.at + 1, SectionEnd))
               anc == Append(ancestors, Top.at)
           IN /\ StackOK(doc, size, st, anc) /\ st # <<>> /\ Len(anc) = Len(ancestors) + 1
              /\ \A k \in 1..Len(ancestors) : anc[k] = ancestors[k]
              /\ \A i \in 1..Len(doc) : Ahead(stack, i) \/ Heads(ancestors, i) => Ahead(st, i) \/ Heads(anc, i)
<1> DEFINE n == Len(stack)
           m == Len(ancestors)
           old == Passed(<<>>)
           new == Level(Top.at + 1, SectionEnd)
           st == Append(old, new)
           anc == Append(ancestors, Top.at)
<1>1. /\ stack # <<>> /\ Top.at < Top.end /\ LevelOK(doc, Top) /\ n \in Nat \ {0} /\ m \in Nat /\ n = m + 1
      /\ \A j \in 1..m, i \in Top.start..Top.end - 1 : AboveIn(doc, ancestors[j], i)
  BY ChunkInvIs, TopIs DEF Walking
<1>2. /\ Top.start \in 1..Len(doc) /\ Top.at \in Top.start..Top.end - 1 /\ Top.end \in Top.start + 1..Len(doc) + 1
      /\ Len(doc) \in Nat
  BY <1>1, ChunkInvIs DEF LevelOK
<1>3. SectionEnd \in Top.at + 1..Top.end /\ SectionEnd # Top.at + 1
      /\ Len(LineTextIn(doc, Top.at)) + 1 <= size \div 2
  <2>1. SectionEnd \in Top.at + 1..Top.end
    BY <1>1, ChunkInvIs, SectionEndIs
  <2>2. SectionEnd - Top.at > 1
    BY DEF CanOpen
  <2> QED  BY <1>2, <2>1, <2>2, TextsOfTheDocument DEF CanOpen, Half
<1>4. /\ doc[Top.at + 1].element
      /\ \A i \in Top.at + 1..SectionEnd - 1 : /\ AboveIn(doc, Top.at, i)
                                               /\ doc[i].depth >= doc[Top.at + 1].depth
  BY <1>1, <1>3, ChunkInvIs, SectionIs
<1>5. /\ StackOK(doc, size, old, ancestors) /\ Len(old) = n /\ old \in Seq(Levels)
      /\ old[n].start = Top.start /\ old[n].at = SectionEnd /\ old[n].current = <<>>
      /\ \A i \in 1..Len(doc) : Ahead(stack, i) => Ahead(old, i) \/ i \in Top.at..SectionEnd - 1
  <2> DEFINE l == [start |-> Top.start, end |-> Top.end, at |-> SectionEnd, current |-> <<>>]
  <2>1. <<>> \in Texts /\ Len(<<>>) <= Budget /\ From(<<>>, Top.start..SectionEnd - 1)
    BY <1>1, ChunkInvIs, PrefixHolds, EmptyText, FromNone
  <2>2. StackOK(doc, size, old, ancestors) /\ Len(old) = n /\ old[n] = l
    BY <2>1, ChunkInvIs, PassedIs
  <2>3. \A i \in 1..Len(doc) : Ahead(stack, i) => Ahead(old, i) \/ i \in Top.at..SectionEnd - 1
    BY <2>1, ChunkInvIs, AheadOfPassed
  <2>4. l.start = Top.start /\ l.at = SectionEnd /\ l.current = <<>>
    OBVIOUS
  <2> HIDE DEF l, old, n
  <2> QED  BY <2>2, <2>3, <2>4 DEF StackOK
<1>6. /\ new \in Levels /\ new.start = Top.at + 1 /\ new.end = SectionEnd
      /\ new.at = Top.at + 1 /\ new.current = <<>>
  BY <1>2, <1>3, EmptyText DEF Level, Levels
<1> HIDE DEF old, new
<1>7. /\ st \in Seq(Levels) /\ Len(st) = n + 1 /\ st[n + 1] = new
      /\ \A k \in 1..n : st[k] = old[k]
  BY <1>5, <1>6, AppendProperties
<1>8. /\ anc \in Seq(1..Len(doc)) /\ Len(anc) = m + 1 /\ anc[m + 1] = Top.at
      /\ \A k \in 1..m : anc[k] = ancestors[k]
  <2>1. ancestors \in Seq(1..Len(doc)) /\ Top.at \in 1..Len(doc)
    BY <1>2, ChunkInvIs DEF StackOK
  <2> QED  BY <2>1, AppendProperties
<1> HIDE DEF st, anc, n, m
<1>9. LevelOK(doc, new)
  <2>1. /\ new.start \in 1..Len(doc) /\ new.end \in new.start + 1..Len(doc) + 1
        /\ new.at \in new.start..new.end
    <3>1. Top.at \in Nat /\ Top.end \in Nat /\ Top.at >= 1 /\ Top.end <= Len(doc) + 1
      BY <1>2
    <3>2. SectionEnd \in Nat /\ SectionEnd > Top.at + 1 /\ SectionEnd <= Top.end
      BY <1>3, <3>1
    <3>3. Top.at + 1 \in 1..Len(doc) /\ SectionEnd \in Top.at + 1 + 1..Len(doc) + 1
      BY <1>2, <3>1, <3>2
    <3>4. Top.at + 1 \in Top.at + 1..SectionEnd
      BY <3>1, <3>2
    <3> QED  BY <1>6, <3>3, <3>4
  <2> QED  BY <1>4, <1>6, <2>1, FromNone DEF LevelOK
<1>10. \A k \in 1..Len(st) : LevelOK(doc, st[k])
  <2> SUFFICES ASSUME NEW k \in 1..n + 1 PROVE LevelOK(doc, st[k])
    BY <1>7
  <2>1. CASE k = n + 1
    BY <1>7, <1>9, <2>1
  <2>2. CASE k # n + 1
    <3>1. k \in 1..n
      BY <1>1, <2>2
    <3> QED  BY <1>5, <1>7, <3>1 DEF StackOK
  <2> QED  BY <2>1, <2>2
<1>11. ASSUME NEW k \in 1..Len(anc)
       PROVE  OpenerOK(doc, size, st, anc, k)
  <2>1. CASE k = m + 1
    <3>1. n \in 1..n /\ k = n
      BY <1>1, <2>1
    <3>2. st[k].start = Top.start /\ st[k].at = SectionEnd /\ st[k].current = <<>>
          /\ st[k + 1] = new /\ anc[k] = Top.at
      BY <1>5, <1>7, <1>8, <2>1, <3>1
    <3>3. Top.at \in Top.start..SectionEnd - 1
      BY <1>2, <1>3
    <3>4. ASSUME NEW j \in 1..k, NEW i \in Top.at + 1..SectionEnd - 1
          PROVE  AboveIn(doc, anc[j], i)
      <4>1. CASE j = k
        BY <1>4, <3>2, <4>1
      <4>2. CASE j # k
        <5>1. j \in 1..m /\ i \in Top.start..Top.end - 1
          BY <1>1, <1>2, <1>3, <2>1, <4>2
        <5> QED  BY <1>1, <1>8, <5>1
      <4> QED  BY <4>1, <4>2
    <3> QED  BY <1>3, <1>6, <3>2, <3>3, <3>4 DEF OpenerOK
  <2>2. CASE k # m + 1
    <3>1. k \in 1..m /\ k \in 1..n /\ k + 1 \in 1..n
      BY <1>1, <1>8, <2>2
    <3>2. OpenerOK(doc, size, old, ancestors, k)
      BY <1>5, <3>1 DEF StackOK, m
    <3>3. st[k] = old[k] /\ st[k + 1] = old[k + 1] /\ anc[k] = ancestors[k]
      BY <1>7, <1>8, <3>1
    <3>4. \A j \in 1..k : anc[j] = ancestors[j]
      BY <1>1, <1>8, <3>1
    <3> QED  BY <3>2, <3>3, <3>4 DEF OpenerOK
  <2> QED  BY <2>1, <2>2
<1>12. Len(st[Len(st)].current) <= BudgetIn(doc, size, anc)
  <2>1. BudgetIn(doc, size, anc) \in Nat
    BY <1>8, ChunkInvIs, PrefixIs
  <2> QED  BY <1>6, <1>7, <2>1, EmptyText
<1>13. st # <<>> /\ Len(st) = Len(anc) + 1
  BY <1>1, <1>7, <1>8, EmptySeq
<1>14. StackOK(doc, size, st, anc)
  BY <1>7, <1>8, <1>10, <1>11, <1>12, <1>13 DEF StackOK
<1>15. ASSUME NEW i \in 1..Len(doc), Ahead(stack, i)
       PROVE  Ahead(st, i) \/ Heads(anc, i)
  <2>1. \A k \in 1..n : k \in 1..n + 1
    BY <1>1
  <2>2. CASE Ahead(old, i)
    BY <1>5, <1>7, <2>1, <2>2 DEF Ahead
  <2>3. CASE i \in Top.at..SectionEnd - 1
    <3>1. i = Top.at \/ i \in Top.at + 1..SectionEnd - 1
      BY <1>2, <1>3, <2>3
    <3>2. i = Top.at => Heads(anc, i)
      <4>1. m + 1 \in 1..m + 1
        BY <1>1
      <4> QED  BY <1>8, <4>1 DEF Heads
    <3>3. i \in Top.at + 1..SectionEnd - 1 => Ahead(st, i)
      <4>1. n + 1 \in 1..n + 1
        BY <1>1
      <4> QED  BY <1>6, <1>7, <4>1 DEF Ahead
    <3> QED  BY <3>1, <3>2, <3>3
  <2> QED  BY <1>5, <1>15, <2>2, <2>3
<1>16. ASSUME NEW i, Heads(ancestors, i)
       PROVE  Heads(anc, i)
  <2>1. \A k \in 1..m : k \in 1..m + 1
    BY <1>1
  <2> QED  BY <1>8, <1>16, <2>1 DEF Heads, m
<1> QED  BY <1>8, <1>13, <1>14, <1>15, <1>16 DEF st, anc, old, new, m

LEMMA OpenSectionKeeps ==
    ASSUME ChunkInv, OpenSection
    PROVE  ChunkInv'
<1> DEFINE st == Append(Passed(<<>>), Level(Top.at + 1, SectionEnd))
           anc == Append(ancestors, Top.at)
           bodies == Merged(Top)
           pc == PiecesWith(bodies)
           marks == Marked(bodies)
           marks2 == Append(marks, FALSE)
<1>1. /\ Walking /\ CanOpen /\ stack' = st /\ pieces' = pc /\ inPath' = marks2 /\ ancestors' = anc
      /\ doc' = doc /\ size' = size /\ cutting' = cutting
  BY DEF OpenSection
<1>2. stack # <<>>
  BY <1>1 DEF Walking
<1>3. /\ StackOK(doc, size, st, anc) /\ st # <<>> /\ Len(anc) = Len(ancestors) + 1
      /\ \A k \in 1..Len(ancestors) : anc[k] = ancestors[k]
      /\ \A i \in 1..Len(doc) : Ahead(stack, i) \/ Heads(ancestors, i) => Ahead(st, i) \/ Heads(anc, i)
  BY <1>1, OpenedIs
<1> HIDE DEF st, anc
<1>4. /\ ChunksOK(doc, size, pc) /\ MarksOK(doc, ancestors, marks, pc) /\ Gathers(pieces, bodies, pc)
  BY <1>2, ChunkInvIs, MergedIs, CutIs
<1> HIDE DEF pc, marks
<1>5. Grows(Store(pieces, stack), Store(pc, st))
  BY <1>2, <1>4, ChunkInvIs, MergedGathered
<1>6. Covered(doc, size, st, anc, pc)
  BY <1>3, <1>5, ChunkInvIs, CoveredStays
<1>7. MarksOK(doc, anc, marks2, pc)
  <2> DEFINE m == Len(ancestors)
  <2>1. /\ marks \in Seq(BOOLEAN) /\ Len(marks) = m /\ m \in Nat
        /\ \A k \in 1..m : marks[k] => \E j \in 1..Len(pc) : HoldsIn(doc, pc[j].text, ancestors[k])
    BY <1>2, <1>4, ChunkInvIs, TopIs DEF MarksOK
  <2>2. /\ marks2 \in Seq(BOOLEAN) /\ Len(marks2) = m + 1 /\ marks2[m + 1] = FALSE
        /\ \A k \in 1..m : marks2[k] = marks[k]
    <3> DEFINE no == FALSE
               S == BOOLEAN
    <3>1. marks \in Seq(S) /\ no \in S
      BY <2>1
    <3> HIDE DEF no, S
    <3>2. /\ Append(marks, no) \in Seq(S) /\ Len(Append(marks, no)) = Len(marks) + 1
          /\ Append(marks, no)[Len(marks) + 1] = no
          /\ \A k \in 1..Len(marks) : Append(marks, no)[k] = marks[k]
      BY <3>1, AppendProperties
    <3>3. marks2 = Append(marks, no)
      BY DEF no
    <3> HIDE DEF marks2
    <3>4. marks2 \in Seq(S) /\ Len(marks2) = m + 1 /\ marks2[m + 1] = no /\ \A k \in 1..m : marks2[k] = marks[k]
      BY <2>1, <3>2, <3>3
    <3> QED  BY <3>4 DEF no, S
  <2> HIDE DEF marks2, m
  <2>3. ASSUME NEW k \in 1..m + 1, marks2[k]
        PROVE  \E j \in 1..Len(pc) : HoldsIn(doc, pc[j].text, anc[k])
    <3>1. k # m + 1
      BY <2>2, <2>3
    <3>2. k \in 1..m
      BY <2>1, <3>1
    <3>3. marks[k] /\ anc[k] = ancestors[k]
      BY <1>3, <2>2, <2>3, <3>2 DEF m
    <3> QED  BY <2>1, <3>2, <3>3
  <2> QED  BY <1>3, <2>2, <2>3 DEF MarksOK, m
<1> HIDE DEF marks2
<1>8. ~cutting => stack = <<>>
  BY DEF ChunkInv
<1> QED  BY <1>1, <1>2, <1>3, <1>4, <1>6, <1>7, <1>8, ChunkInvIs DEF ChunkInv

----------------------------------------------------------------------------
\* A level ends.

LEMMA FrontIs ==
    ASSUME NEW S, NEW s \in Seq(S), s # <<>>
    PROVE  /\ Front(s) \in Seq(S) /\ Len(Front(s)) = Len(s) - 1
           /\ \A k \in 1..Len(s) - 1 : Front(s)[k] = s[k]
<1> DEFINE n == Len(s)
           t == SubSeq(s, 1, n - 1)
<1>1. n \in Nat \ {0}
  BY LenProperties, EmptySeq
<1>2. Front(s) = t
  BY DEF Front
<1>3. 1 \in 1..n + 1 /\ n - 1 \in 1 - 1..n
  BY <1>1
<1>4. /\ t \in Seq(S) /\ Len(t) = IF 1 <= n - 1 THEN (n - 1) - 1 + 1 ELSE 0
      /\ \A i \in 1..(n - 1) - 1 + 1 : t[i] = s[1 + i - 1]
  BY <1>3, SubSeqProperties
<1> HIDE DEF t, n
<1>5. Len(t) = n - 1 /\ \A i \in 1..n - 1 : t[i] = s[i]
  <2>1. (n - 1) - 1 + 1 = n - 1 /\ \A i \in 1..n - 1 : 1 + i - 1 = i
    BY <1>1
  <2> QED  BY <1>1, <1>4, <2>1
<1> QED  BY <1>2, <1>4, <1>5 DEF n

\* The level above goes on from where it was, with text being merged.
ReopenedWith(st, text) ==
    LET m == Len(stack) - 1
    IN /\ st \in Seq(Levels) /\ Len(st) = m /\ \A k \in 1..m - 1 : st[k] = stack[k]
       /\ st[m].start = stack[m].start /\ st[m].end = stack[m].end /\ st[m].at = stack[m].at
       /\ st[m].current = text

LEMMA ReopenedIs ==
    ASSUME DocOK(doc), size \in Nat \ {0}, StackOK(doc, size, stack, ancestors),
           stack # <<>>, ancestors # <<>>,
           NEW text \in Texts, NEW st, ReopenedWith(st, text), Len(text) <= size \div 2,
           From(text, stack[Len(ancestors)].start..stack[Len(ancestors)].at - 1)
    PROVE  StackOK(doc, size, st, Front(ancestors)) /\ st # <<>>
<1> DEFINE m == Len(ancestors)
           anc == Front(ancestors)
<1>1. /\ m \in Nat \ {0} /\ Len(stack) = m + 1 /\ m = Len(stack) - 1 /\ ancestors \in Seq(1..Len(doc))
      /\ LinesTyped(doc)
  BY TopIs, EmptySeq DEF StackOK, DocOK
<1>2. anc \in Seq(1..Len(doc)) /\ Len(anc) = m - 1 /\ \A k \in 1..m - 1 : anc[k] = ancestors[k]
  BY <1>1, FrontIs
<1> HIDE DEF anc
<1>3. /\ st \in Seq(Levels) /\ Len(st) = m /\ \A k \in 1..m - 1 : st[k] = stack[k]
      /\ st[m].start = stack[m].start /\ st[m].end = stack[m].end /\ st[m].at = stack[m].at
      /\ st[m].current = text
  BY <1>1 DEF ReopenedWith
<1> HIDE DEF m
<1>4. \A k \in 1..m : st[k].start = stack[k].start /\ st[k].end = stack[k].end
  <2> SUFFICES ASSUME NEW k \in 1..m PROVE st[k].start = stack[k].start /\ st[k].end = stack[k].end
    OBVIOUS
  <2>1. CASE k = m
    BY <1>3, <2>1
  <2>2. CASE k # m
    <3>1. k \in 1..m - 1
      BY <1>1, <2>2
    <3> QED  BY <1>3, <3>1
  <2> QED  BY <2>1, <2>2
<1>5. ASSUME NEW k \in 1..m
      PROVE  LevelOK(doc, st[k])
  <2>1. LevelOK(doc, stack[k])
    BY <1>1 DEF StackOK
  <2>2. CASE k = m
    BY <1>3, <2>1, <2>2 DEF LevelOK, m
  <2>3. CASE k # m
    <3>1. k \in 1..m - 1
      BY <1>1, <2>3
    <3> QED  BY <1>3, <2>1, <3>1
  <2> QED  BY <2>2, <2>3
<1>6. ASSUME NEW k \in 1..m - 1
      PROVE  OpenerOK(doc, size, st, anc, k)
  <2>1. k \in 1..m /\ k + 1 \in 1..m
    BY <1>1
  <2>2. OpenerOK(doc, size, stack, ancestors, k)
    BY <2>1 DEF StackOK, m
  <2>3. st[k] = stack[k] /\ st[k + 1].start = stack[k + 1].start /\ st[k + 1].end = stack[k + 1].end
    BY <1>3, <1>4, <2>1
  <2>4. \A j \in 1..k : anc[j] = ancestors[j]
    <3>1. \A j \in 1..k : j \in 1..m - 1
      BY <1>1
    <3> QED  BY <1>2, <3>1
  <2>5. anc[k] = ancestors[k]
    BY <1>2
  <2> QED  BY <2>2, <2>3, <2>4, <2>5 DEF OpenerOK
<1>7. Len(st[Len(st)].current) <= BudgetIn(doc, size, anc)
  <2>1. BudgetIn(doc, size, anc) \in Nat /\ BudgetIn(doc, size, anc) >= size \div 2
    BY <1>1, <1>2, PrefixIs
  <2>2. Len(text) \in Nat /\ size \div 2 \in Int
    BY OccursIs
  <2> DEFINE h == size \div 2
  <2> HIDE DEF h
  <2>3. Len(text) <= h /\ BudgetIn(doc, size, anc) >= h /\ h \in Int
    BY <2>1, <2>2 DEF h
  <2> QED  BY <1>3, <2>1, <2>2, <2>3
<1>8. st # <<>> /\ Len(st) = Len(anc) + 1
  BY <1>1, <1>2, <1>3, EmptySeq
<1>9. StackOK(doc, size, st, anc)
  BY <1>2, <1>3, <1>5, <1>6, <1>7, <1>8 DEF StackOK
<1> QED  BY <1>8, <1>9 DEF anc
LEMMA CloseLevelKeeps ==
    ASSUME ChunkInv, CloseLevel
    PROVE  ChunkInv'
<1> DEFINE bodies == Merged(Top)
           pc == PiecesWith(bodies)
           marks == Marked(bodies)
           n == Len(stack)
           m == Len(ancestors)
<1>1. /\ stack # <<>> /\ ~Walking /\ pieces' = pc
      /\ doc' = doc /\ size' = size /\ cutting' = cutting
  BY DEF CloseLevel
<1>2. /\ m \in Nat /\ n = m + 1 /\ Top = stack[n] /\ Top \in Levels /\ LevelOK(doc, Top) /\ stack \in Seq(Levels)
  BY <1>1, ChunkInvIs, TopIs DEF StackOK
<1>3. \A i : ~(i \in Top.at..Top.end - 1)
  <2>1. ~(Top.at < Top.end) /\ Top.at \in Nat /\ Top.end \in Nat
    BY <1>1, <1>2 DEF Walking, Levels
  <2> QED  BY <2>1
<1>4. /\ ChunksOK(doc, size, pc) /\ MarksOK(doc, ancestors, marks, pc) /\ Gathers(pieces, bodies, pc)
  BY <1>1, ChunkInvIs, MergedIs, CutIs
<1>5. \A st : Grows(Store(pieces, stack), Store(pc, st))
  <2> HIDE DEF pc
  <2> QED  BY <1>1, <1>4, ChunkInvIs, MergedGathered
<1>6. ASSUME NEW i, Ahead(stack, i)
      PROVE  \E k \in 1..m : i \in stack[k].at..stack[k].end - 1
  <2>1. PICK k \in 1..n : i \in stack[k].at..stack[k].end - 1
    BY <1>6 DEF Ahead
  <2>2. k # n
    BY <1>2, <1>3, <2>1
  <2> QED  BY <1>2, <2>1, <2>2
<1>7. ~cutting => stack = <<>>
  BY DEF ChunkInv
<1> HIDE DEF pc
<1>8. CASE ancestors = <<>>
  <2>1. stack' = <<>> /\ ancestors' = ancestors /\ inPath' = inPath
    BY <1>8 DEF CloseLevel
  <2>2. m = 0 /\ \A k : k \notin 1..m
    BY <1>8, EmptySeq
  <2>3. \A i : ~Ahead(stack, i) /\ ~Heads(ancestors, i)
    BY <1>6, <2>2 DEF Heads
  <2>4. Covered(doc, size, <<>>, ancestors, pc)
    BY <1>5, <2>3, ChunkInvIs, CoveredStays
  <2>5. StackOK(doc, size, <<>>, ancestors)
    <3>1. <<>> \in Seq(Levels) /\ Len(<<>>) = 0 /\ ancestors \in Seq(1..Len(doc))
      BY ChunkInvIs DEF StackOK
    <3>2. \A k : k \notin 1..Len(<<>>)
      BY <3>1
    <3> QED  BY <1>8, <2>2, <3>1, <3>2 DEF StackOK
  <2>6. MarksOK(doc, ancestors, inPath, pc)
    <3>1. inPath \in Seq(BOOLEAN) /\ Len(inPath) = m
      BY ChunkInvIs DEF MarksOK
    <3> QED  BY <2>2, <3>1 DEF MarksOK
  <2> QED  BY <1>1, <1>4, <1>7, <2>1, <2>4, <2>5, <2>6, ChunkInvIs DEF ChunkInv
<1>9. CASE ancestors # <<>>
  <2> DEFINE anc == Front(ancestors)
             mk == Front(marks)
             front == Front(stack)
             line == LineTextIn(doc, ancestors[m])
             text == IF NotRepeated(marks) THEN line ELSE <<>>
             st == IF NotRepeated(marks) THEN [front EXCEPT ![n - 1].current = LineText(Last(ancestors))] ELSE front
  <2>1. stack' = st /\ ancestors' = anc /\ inPath' = mk
    BY <1>9 DEF CloseLevel
  <2>2. m \in Nat \ {0} /\ m = n - 1 /\ m \in 1..m /\ m \in 1..n /\ n \in Nat
    BY <1>2, <1>9, EmptySeq
  <2>3. ancestors \in Seq(1..Len(doc)) /\ ancestors[m] \in 1..Len(doc) /\ Last(ancestors) = ancestors[m]
    BY <2>2, ElementOfSeq, ChunkInvIs DEF StackOK, Last
  <2>4. /\ OpenerOK(doc, size, stack, ancestors, m) /\ stack[m] \in Levels /\ LevelOK(doc, stack[m])
    BY <1>2, <2>2, ElementOfSeq, ChunkInvIs DEF StackOK
  <2>5. /\ marks \in Seq(BOOLEAN) /\ Len(marks) = m /\ marks # <<>>
        /\ \A k \in 1..m : marks[k] => \E j \in 1..Len(pc) : HoldsIn(doc, pc[j].text, ancestors[k])
    BY <1>4, <2>2, EmptySeq DEF MarksOK
  <2>6. NotRepeated(marks) <=> ~marks[m]
    BY <2>5 DEF NotRepeated, Last
  <2>7. line \in Texts /\ HoldsIn(doc, line, ancestors[m])
        /\ \A c : Occurs(c, line) => LineOf(c) = 0 \/ LineOf(c) = ancestors[m]
    BY <2>3, ChunkInvIs, LineTextIs
  <2> HIDE DEF marks, line
  <2>8. front \in Seq(Levels) /\ Len(front) = m /\ \A k \in 1..m : front[k] = stack[k]
    BY <1>1, <1>2, <2>2, FrontIs
  <2>9. anc \in Seq(1..Len(doc)) /\ Len(anc) = m - 1 /\ \A k \in 1..m - 1 : anc[k] = ancestors[k]
    BY <1>9, <2>3, FrontIs
  <2>10. mk \in Seq(BOOLEAN) /\ Len(mk) = m - 1 /\ \A k \in 1..m - 1 : mk[k] = marks[k]
    BY <2>5, FrontIs
  <2> HIDE DEF n
  <2>11. text \in Texts /\ Len(text) <= size \div 2 /\ From(text, stack[m].start..stack[m].at - 1)
    <3>1. CASE NotRepeated(marks)
      <4>1. From(line, stack[m].start..stack[m].at - 1)
        BY <2>4, <2>7, FromIs DEF OpenerOK
      <4>2. Len(line) + 1 <= size \div 2 /\ Len(line) \in Nat /\ size \div 2 \in Int
        BY <2>4, <2>7, OccursIs, ChunkInvIs DEF OpenerOK, line
      <4> DEFINE h == size \div 2
      <4>3. Len(line) + 1 <= h /\ Len(line) \in Nat /\ h \in Int
        BY <4>2
      <4> HIDE DEF h
      <4>4. Len(line) <= h
        BY <4>3
      <4> QED  BY <2>7, <3>1, <4>1, <4>4 DEF h
    <3>2. CASE ~NotRepeated(marks)
      <4>1. size \div 2 \in Int /\ size \div 2 >= 0
        BY ChunkInvIs
      <4> QED  BY <3>2, <4>1, EmptyText, FromNone
    <3> QED  BY <3>1, <3>2
  <2>12. ReopenedWith(st, text)
    <3>1. CASE ~NotRepeated(marks)
      <4>1. st = front /\ text = <<>>
        BY <3>1
      <4>2. stack[m].current = <<>> /\ \A k \in 1..m - 1 : k \in 1..m
        BY <2>2, <2>4 DEF OpenerOK
      <4> HIDE DEF st, front, text
      <4> QED  BY <2>2, <2>8, <4>1, <4>2 DEF ReopenedWith, n
    <3>2. CASE NotRepeated(marks)
      <4> DEFINE l == [stack[m] EXCEPT !.current = line]
      <4>1. st = [front EXCEPT ![m] = l] /\ text = line
        <5>1. LineText(Last(ancestors)) = line
          BY <2>3, TextsOfTheDocument DEF line
        <5>2. st = [front EXCEPT ![m].current = line]
          BY <2>2, <3>2, <5>1
        <5> HIDE DEF st, front
        <5>3. front[m] = stack[m]
          BY <2>2, <2>8
        <5>4. [front EXCEPT ![m].current = line] = [front EXCEPT ![m] = [front[m] EXCEPT !.current = line]]
          OBVIOUS
        <5> QED  BY <3>2, <5>2, <5>3, <5>4
      <4>2. /\ l \in Levels /\ l.start = stack[m].start /\ l.end = stack[m].end
            /\ l.at = stack[m].at /\ l.current = line
        BY <2>4, <2>7 DEF Levels
      <4> HIDE DEF st, front, text, l
      <4>3. st \in Seq(Levels) /\ Len(st) = m /\ \A k \in 1..m : st[k] = IF k = m THEN l ELSE front[k]
        BY <2>2, <2>8, <4>1, <4>2, ExceptSeq
      <4>4. st[m] = l /\ \A k \in 1..m - 1 : st[k] = stack[k]
        <5>1. \A k \in 1..m - 1 : k \in 1..m /\ k # m
          BY <2>2
        <5> QED  BY <2>2, <2>8, <4>3, <5>1
      <4> QED  BY <2>2, <4>1, <4>2, <4>3, <4>4 DEF ReopenedWith, n
    <3> QED  BY <3>1, <3>2
  <2> HIDE DEF st, text
  <2>13. StackOK(doc, size, st, anc) /\ st # <<>>
    BY <1>1, <1>9, <2>11, <2>12, ChunkInvIs, ReopenedIs
  <2>14. MarksOK(doc, anc, mk, pc)
    <3>1. \A k \in 1..m - 1 : k \in 1..m
      BY <2>2
    <3>2. ASSUME NEW k \in 1..m - 1, mk[k]
          PROVE  \E j \in 1..Len(pc) : HoldsIn(doc, pc[j].text, anc[k])
      BY <2>5, <2>9, <2>10, <3>1, <3>2
    <3> HIDE DEF anc, mk
    <3> QED  BY <2>9, <2>10, <3>2 DEF MarksOK
  <2>15. st[m].current = text /\ Len(st) = m /\ \A k \in 1..m : st[k].at = stack[k].at /\ st[k].end = stack[k].end
    <3>1. /\ Len(st) = m /\ \A k \in 1..m - 1 : st[k] = stack[k]
          /\ st[m].end = stack[m].end /\ st[m].at = stack[m].at /\ st[m].current = text
      BY <2>2, <2>12 DEF ReopenedWith, n
    <3>2. ASSUME NEW k \in 1..m, k # m
          PROVE  k \in 1..m - 1
      BY <2>2, <3>2
    <3> QED  BY <3>1, <3>2
  <2>16. ASSUME NEW i \in 1..Len(doc), Ahead(stack, i)
         PROVE  Ahead(st, i)
    BY <1>6, <2>15, <2>16 DEF Ahead
  <2>17. ASSUME NEW i \in 1..Len(doc), Heads(ancestors, i)
         PROVE  Heads(anc, i) \/ Placed(doc, size, Store(pc, st), i)
    <3>1. PICK k \in 1..m : ancestors[k] = i
      BY <2>17 DEF Heads
    <3>2. CASE k # m
      <4>1. k \in 1..m - 1
        BY <2>2, <3>2
      <4> QED  BY <2>9, <3>1, <4>1 DEF Heads
    <3>3. CASE k = m /\ marks[m]
      <4>1. PICK j \in 1..Len(pc) : HoldsIn(doc, pc[j].text, i)
        BY <2>2, <2>5, <3>1, <3>3
      <4>2. pc[j].text \in Store(pc, st)
        BY DEF Store
      <4> QED  BY <4>1, <4>2, PlacedWhole
    <3>4. CASE k = m /\ ~marks[m]
      <4>1. text = line /\ HoldsIn(doc, text, i)
        BY <2>6, <2>7, <3>1, <3>4 DEF text
      <4>2. text \in Store(pc, st)
        BY <2>2, <2>15 DEF Store
      <4> QED  BY <4>1, <4>2, PlacedWhole
    <3> QED  BY <3>2, <3>3, <3>4
  <2> HIDE DEF anc, mk
  <2>18. Covered(doc, size, st, anc, pc)
    BY <1>5, <2>16, <2>17, ChunkInvIs, CoveredStays
  <2> QED  BY <1>1, <1>4, <1>7, <2>1, <2>13, <2>14, <2>18, ChunkInvIs DEF ChunkInv
<1> QED  BY <1>8, <1>9

----------------------------------------------------------------------------
\* The header line.

LEMMA FinishChunksKeeps ==
    ASSUME ChunkInv, FinishChunks
    PROVE  ChunkInv'
<1> DEFINE m == Len(pieces)
           first == pieces[1]
           header == [k \in 1 .. HeaderLength |-> <<Len(doc) + 1, k>>]
           text == header \o <<NewLine>> \o first.text
           p == [first EXCEPT !.text = text]
           pc == IF HeaderLength + 1 + Len(first.text) <= size THEN [pieces EXCEPT ![1].text = text] ELSE pieces
<1>1. /\ stack = <<>> /\ stack' = stack /\ pieces' = pc /\ inPath' = inPath /\ ancestors' = ancestors
      /\ doc' = doc /\ size' = size /\ cutting' = FALSE
  BY DEF FinishChunks
<1>2. /\ pieces \in Seq(Chunks) /\ m \in Nat /\ \A k \in 1..m : pieces[k] \in Chunks /\ ChunkOK(doc, size, pieces[k])
      /\ Len(doc) \in Nat \ {0} /\ ancestors = <<>> /\ size \in Nat
  BY <1>1, ChunkInvIs, LenProperties, ElementOfSeq DEF ChunksOK, StackOK
<1>3. \A k : k \notin 1..Len(stack) /\ k \notin 1..Len(ancestors)
  BY <1>1, <1>2, EmptySeq
<1>4. m # 0
  <2>1. 1 \in 1..Len(doc)
    BY <1>2
  <2>2. ~Ahead(stack, 1) /\ ~Heads(ancestors, 1)
    BY <1>3 DEF Ahead, Heads
  <2>3. Placed(doc, size, Store(pieces, stack), 1)
    BY <2>1, <2>2, ChunkInvIs DEF Covered
  <2>4. PICK t \in Store(pieces, stack) : Occurs(<<1, 1>>, t)
    BY <2>1, <2>3, ChunkInvIs, WordIs DEF Placed
  <2>5. \E k \in 1..m : TRUE
    BY <1>3, <2>4 DEF Store
  <2> QED  BY <1>2, <2>5
<1>5. 1 \in 1..m /\ first \in Chunks /\ first.text \in Texts /\ first.heading \in Nat /\ ChunkOK(doc, size, first)
  BY <1>2, <1>4 DEF Chunks
<1>6. /\ header \in Texts /\ Len(header) = HeaderLength /\ \A c : Occurs(c, header) => LineOf(c) = Len(doc) + 1
  <2>1. HeaderLength \in Nat
    BY XmlChunksAssumption
  <2>2. \A k \in 1..HeaderLength : <<Len(doc) + 1, k>> \in Chars /\ LineOf(<<Len(doc) + 1, k>>) = Len(doc) + 1
    BY <1>2, <2>1, CharsTyped
  <2>3. header \in Seq(Chars) /\ Len(header) = HeaderLength
        /\ \A k \in 1..HeaderLength : header[k] = <<Len(doc) + 1, k>>
    BY <2>1, <2>2
  <2> HIDE DEF header
  <2> QED  BY <2>2, <2>3 DEF Texts, Occurs
<1> HIDE DEF header
<1>7. /\ text \in Texts /\ Len(text) = HeaderLength + 1 + Len(first.text) /\ Inside(first.text, text)
      /\ \A c : Occurs(c, text) => LineOf(c) = 0 \/ LineOf(c) = Len(doc) + 1 \/ Occurs(c, first.text)
  BY <1>5, <1>6, JoinedLines DEF Inside
<1>8. CASE ~(HeaderLength + 1 + Len(first.text) <= size)
  <2>1. pc = pieces
    BY <1>8
  <2> HIDE DEF pc
  <2> QED  BY <1>1, <2>1, ChunkInvIs DEF ChunkInv
<1>9. CASE HeaderLength + 1 + Len(first.text) <= size
  <2>1. pc = [pieces EXCEPT ![1] = p]
    BY <1>9
  <2> HIDE DEF text
  <2>2. p \in Chunks /\ p.text = text /\ p.heading = first.heading
    BY <1>5, <1>7 DEF Chunks
  <2> HIDE DEF p, pc, m, first
  <2>3. pc \in Seq(Chunks) /\ Len(pc) = m /\ \A k \in 1..m : pc[k] = IF k = 1 THEN p ELSE pieces[k]
    BY <1>2, <1>5, <2>1, <2>2, ExceptSeq DEF m
  <2>4. ChunkOK(doc, size, p)
    <3>1. Len(p.text) <= size
      BY <1>7, <1>9, <2>2
    <3>2. ASSUME first.heading # 0
          PROVE  HoldsIn(doc, text, first.heading) /\ Beside(doc, first.heading, text)
      <4>1. HoldsIn(doc, first.text, first.heading) /\ Beside(doc, first.heading, first.text)
        BY <1>5, <3>2 DEF ChunkOK
      <4>2. HoldsIn(doc, text, first.heading)
        BY <1>7, <4>1 DEF HoldsIn, Inside
      <4>3. ASSUME NEW c, Occurs(c, text), LineOf(c) \in 1..Len(doc), LineOf(c) # first.heading
            PROVE  AboveIn(doc, LineOf(c), first.heading) \/ AboveIn(doc, first.heading, LineOf(c))
        <5>1. Occurs(c, first.text)
          BY <1>2, <1>7, <4>3
        <5> QED  BY <4>1, <4>3, <5>1 DEF Beside, Occurs
      <4>4. \A j \in 1..Len(text) : Occurs(text[j], text)
        BY DEF Occurs
      <4> QED  BY <4>2, <4>3, <4>4 DEF Beside
    <3> QED  BY <1>5, <2>2, <3>1, <3>2 DEF ChunkOK
  <2>5. ChunksOK(doc, size, pc)
    BY <1>2, <2>3, <2>4 DEF ChunksOK, m
  <2>6. Grows(Store(pieces, stack), Store(pc, stack))
    <3> SUFFICES ASSUME NEW s \in Store(pieces, stack) PROVE \E t \in Store(pc, stack) : Inside(s, t)
      BY DEF Grows
    <3>1. PICK k \in 1..m : s = pieces[k].text
      BY <1>3 DEF Store, m
    <3>2. pc[k].text \in Store(pc, stack)
      BY <2>3 DEF Store
    <3>3. Inside(s, pc[k].text)
      <4>1. CASE k = 1
        BY <1>7, <2>2, <2>3, <3>1, <4>1 DEF first
      <4>2. CASE k # 1
        BY <2>3, <3>1, <4>2 DEF Inside
      <4> QED  BY <4>1, <4>2
    <3> QED  BY <3>2, <3>3
  <2>7. Covered(doc, size, stack, ancestors, pc)
    <3>1. \A i : ~Ahead(stack, i) /\ ~Heads(ancestors, i)
      BY <1>3 DEF Ahead, Heads
    <3> QED  BY <2>6, <3>1, ChunkInvIs, CoveredStays
  <2>8. MarksOK(doc, ancestors, inPath, pc)
    <3>1. inPath \in Seq(BOOLEAN) /\ Len(inPath) = Len(ancestors)
      BY ChunkInvIs DEF MarksOK
    <3> QED  BY <1>3, <3>1 DEF MarksOK
  <2> QED  BY <1>1, <2>5, <2>7, <2>8, ChunkInvIs DEF ChunkInv
<1> QED  BY <1>8, <1>9
----------------------------------------------------------------------------
\* The rendered documents.

LEMMA DocumentsAre ==
    ASSUME NEW d \in Documents
    PROVE  DocOK(d)
<1>1. PICK n \in 1..MaxLines : d \in Rendered(n)
  BY DEF Documents
<1>2. n \in Nat \ {0}
  BY <1>1, XmlChunksAssumption
<1>3. /\ d \in [1..n -> Line(0..MaxDepth, BOOLEAN)] /\ d[1].depth = 0 /\ d[1].element
      /\ \A k \in 2..n : d[k] \in May(d[k - 1])
  BY <1>1 DEF Rendered
<1>4. Len(d) = n
  BY <1>2, <1>3
<1>5. \A i \in 1..n : d[i].depth \in Nat /\ d[i].length \in Nat \ {0}
  <2>1. \A l \in Line(0..MaxDepth, BOOLEAN) : l.depth \in 0..MaxDepth /\ l.length \in Lengths
    BY DEF Line
  <2>2. \A i \in 1..n : d[i].depth \in 0..MaxDepth /\ d[i].length \in Lengths
    BY <1>3, <2>1
  <2>3. \A x \in 0..MaxDepth : x \in Nat
    BY XmlChunksAssumption
  <2> QED  BY <2>2, <2>3, XmlChunksAssumption
<1>6. ASSUME NEW i \in 1..n - 1, d[i + 1].depth > d[i].depth
      PROVE  d[i + 1].depth = d[i].depth + 1 /\ d[i].element /\ d[i + 1].element
  <2> DEFINE k == d[i].depth
             next == d[i + 1]
             most == Min({MaxDepth, k + (IF d[i].element THEN 1 ELSE 0)})
  <2>1. i + 1 \in 2..n /\ (i + 1) - 1 = i /\ i \in 1..n
    BY <1>2
  <2>2. next \in May(d[i])
    BY <1>3, <2>1
  <2>3. k \in Nat /\ MaxDepth \in Nat
    BY <1>5, <2>1, XmlChunksAssumption
  <2>4. \A x, y \in Nat : Min({x, y}) = IF x <= y THEN x ELSE y
    BY DEF Min
  <2>5. most <= k + 1 /\ (~d[i].element => most <= k) /\ most \in Nat
    <3>1. CASE d[i].element
      <4>1. k + 1 \in Nat /\ most = Min({MaxDepth, k + 1})
        BY <2>3, <3>1
      <4> HIDE DEF most, k
      <4> QED  BY <2>3, <2>4, <3>1, <4>1
    <3>2. CASE ~d[i].element
      <4>1. most = Min({MaxDepth, k + 0}) /\ k + 0 = k
        BY <2>3, <3>2
      <4> HIDE DEF most, k
      <4> QED  BY <2>3, <2>4, <4>1
    <3> QED  BY <3>1, <3>2
  <2>6. next \in Line(1..most, {TRUE}) \/ next \in Line(1..k - (IF d[i].element THEN 0 ELSE 1), {FALSE})
    BY <2>2 DEF May
  <2>7. next.depth > k
    BY <1>6
  <2>8. next \notin Line(1..k - (IF d[i].element THEN 0 ELSE 1), {FALSE})
    <3>1. ASSUME next \in Line(1..k - (IF d[i].element THEN 0 ELSE 1), {FALSE})
          PROVE  FALSE
      <4>1. next.depth \in 1..k - (IF d[i].element THEN 0 ELSE 1)
        BY <3>1 DEF Line
      <4> HIDE DEF next, k
      <4> QED  BY <2>3, <2>7, <4>1
    <3> QED  BY <3>1
  <2>9. next.depth \in 1..most /\ next.element \in {TRUE}
    BY <2>6, <2>8 DEF Line
  <2> HIDE DEF most, k, next
  <2>10. d[i].element
    BY <2>3, <2>5, <2>7, <2>9
  <2>11. next.depth = k + 1
    BY <2>3, <2>5, <2>7, <2>9
  <2>12. next.element
    BY <2>9
  <2> QED  BY <2>10, <2>11, <2>12 DEF k, next
<1> QED  BY <1>2, <1>3, <1>4, <1>5, <1>6 DEF DocOK, LinesTyped

LEMMA ChunkInitKeeps == ChunkInit => ChunkInv
<1> SUFFICES ASSUME ChunkInit PROVE ChunkInv
  OBVIOUS
<1> DEFINE l == Level(1, Len(doc) + 1)
           n == Len(doc)
<1>1. /\ DocOK(doc) /\ size \in ChunkSizes /\ size \in Nat \ {0} /\ stack = <<l>> /\ ancestors = <<>>
      /\ inPath = <<>> /\ pieces = <<>> /\ cutting = TRUE
  BY DocumentsAre, XmlChunksAssumption DEF ChunkInit
<1>2. LinesTyped(doc) /\ n \in Nat \ {0} /\ \A i \in 1..n : doc[i].depth \in Nat
  BY <1>1 DEF DocOK, LinesTyped
<1>3. l \in Levels /\ l.start = 1 /\ l.end = n + 1 /\ l.at = 1 /\ l.current = <<>>
  BY <1>2, EmptyText DEF Level, Levels
<1> HIDE DEF l, n
<1>4. stack \in Seq(Levels) /\ Len(stack) = 1 /\ stack # <<>> /\ stack[1] = l /\ \A k : k \in 1..Len(stack) <=> k = 1
  <2>1. stack \in Seq(Levels) /\ Len(stack) = 1 /\ stack[1] = l
    BY <1>1, <1>3
  <2>2. 1..1 = {1}
    OBVIOUS
  <2> QED  BY <2>1, <2>2, EmptySeq
<1>5. \A k : k \notin 1..Len(ancestors) /\ k \notin 1..Len(inPath) /\ k \notin 1..Len(pieces)
  BY <1>1
<1>6. Len(ancestors) = 0 /\ Len(inPath) = 0 /\ ancestors \in Seq(1..Len(doc)) /\ inPath \in Seq(BOOLEAN)
      /\ pieces \in Seq(Chunks)
  BY <1>1
<1>7. LevelOK(doc, l)
  <2>1. /\ l.start \in 1..Len(doc) /\ l.end \in l.start + 1..Len(doc) + 1 /\ l.at \in l.start..l.end
    BY <1>2, <1>3 DEF n
  <2>2. \A i \in l.start..l.end - 1 : doc[i].depth >= doc[l.start].depth
    <3>1. doc[1].depth = 0 /\ l.start..l.end - 1 = 1..n
      BY <1>1, <1>2, <1>3 DEF DocOK
    <3> QED  BY <1>2, <1>3, <3>1
  <2>3. l.at < l.end => doc[l.at].depth = doc[l.start].depth
    BY <1>3
  <2>4. doc[l.start].element /\ From(l.current, l.start..l.at - 1)
    BY <1>1, <1>3, FromNone DEF DocOK
  <2> QED  BY <2>1, <2>2, <2>3, <2>4 DEF LevelOK
<1>8. Len(l.current) <= BudgetIn(doc, size, ancestors)
  <2>1. BudgetIn(doc, size, ancestors) \in Nat
    BY <1>1, <1>2, <1>6, PrefixIs
  <2> QED  BY <1>3, <2>1, EmptyText
<1>9. StackOK(doc, size, stack, ancestors)
  BY <1>4, <1>5, <1>6, <1>7, <1>8 DEF StackOK
<1>10. \A i \in 1..Len(doc) : Ahead(stack, i)
  BY <1>2, <1>3, <1>4 DEF Ahead, n
<1>11. Covered(doc, size, stack, ancestors, pieces)
  BY <1>10 DEF Covered
<1>12. ChunksOK(doc, size, pieces) /\ MarksOK(doc, ancestors, inPath, pieces)
  BY <1>5, <1>6 DEF ChunksOK, MarksOK
<1> QED  BY <1>1, <1>9, <1>11, <1>12 DEF ChunkInv

\* The invariant of the walk, whatever the document and the chunk size.
THEOREM ChunkInvariance == ChunkSpec => []ChunkInv
<1>1. ChunkInv /\ [ChunkNext]_chunkVars => ChunkInv'
  <2> SUFFICES ASSUME ChunkInv, [ChunkNext]_chunkVars PROVE ChunkInv'
    OBVIOUS
  <2>1. CASE MergeSection
    BY <2>1, MergeSectionKeeps
  <2>2. CASE StartSection
    BY <2>2, StartSectionKeeps
  <2>3. CASE OpenSection
    BY <2>3, OpenSectionKeeps
  <2>4. CASE SplitSection
    BY <2>4, SplitSectionKeeps
  <2>5. CASE CloseLevel
    BY <2>5, CloseLevelKeeps
  <2>6. CASE FinishChunks
    BY <2>6, FinishChunksKeeps
  <2>7. CASE UNCHANGED chunkVars
    BY <2>7 DEF chunkVars, ChunkInv
  <2> QED  BY <2>1, <2>2, <2>3, <2>4, <2>5, <2>6, <2>7 DEF ChunkNext
<1> QED  BY <1>1, ChunkInitKeeps, PTL DEF ChunkSpec

\* The walk keeps a path mark for each open element, and every heading is a line.
THEOREM ChunkTypeCorrect == ChunkSpec => []ChunkTypeOK
<1>1. ChunkInv => ChunkTypeOK
  <2> SUFFICES ASSUME ChunkInv PROVE ChunkTypeOK
    OBVIOUS
  <2>1. /\ ancestors \in Seq(1..Len(doc)) /\ DOMAIN ancestors = 1..Len(ancestors)
        /\ \A k \in 1..Len(ancestors) : ancestors[k] \in Lines
    BY ChunkInvIs, LenProperties, ElementOfSeq DEF StackOK, Lines
  <2>2. /\ Len(inPath) = Len(ancestors) /\ \A k \in 1..Len(ancestors) : inPath[k] \in BOOLEAN
    BY ChunkInvIs, ElementOfSeq DEF MarksOK
  <2>3. \A k \in DOMAIN pieces : pieces[k].heading \in Lines \cup {0}
    <3>1. pieces \in Seq(Chunks) /\ DOMAIN pieces = 1..Len(pieces) /\ Len(doc) \in Nat
      BY ChunkInvIs, LenProperties DEF ChunksOK
    <3>2. \A i \in 0..Len(doc) : i \in Lines \cup {0}
      BY <3>1 DEF Lines
    <3> QED  BY <3>1, <3>2, ChunkInvIs DEF ChunksOK, ChunkOK
  <2>4. stack # <<>> => Len(stack) = Len(ancestors) + 1
    BY ChunkInvIs DEF StackOK
  <2>5. size \in ChunkSizes /\ cutting \in BOOLEAN
    BY DEF ChunkInv
  <2> QED  BY <2>1, <2>2, <2>3, <2>4, <2>5 DEF ChunkTypeOK
<1> QED  BY <1>1, ChunkInvariance, PTL

\* However deep the tree and long its lines, when the walk has ended no chunk is longer
\* than chunk_size, every character of every line is in one, a line is whole in one
\* unless it or something it is under is half a chunk long, and every chunk has its
\* heading and no line from another branch (_xml_pieces, _xml_sections).
THEOREM DocumentHeld == ChunkSpec => []ChunksHoldTheDocument
<1>1. ChunkInv => ChunksHoldTheDocument
  <2> SUFFICES ASSUME ChunkInv, ~cutting
               PROVE  ChunksFit /\ NoTextIsLost /\ LinesStayWhole /\ HeadingsAreTrue
    BY DEF ChunksHoldTheDocument
  <2> DEFINE m == Len(pieces)
  <2>1. /\ pieces \in Seq(Chunks) /\ DOMAIN pieces = 1..m
        /\ \A k \in 1..m : pieces[k] \in Chunks /\ pieces[k].text \in Texts /\ ChunkOK(doc, size, pieces[k])
    <3>1. pieces \in Seq(Chunks) /\ \A k \in 1..m : ChunkOK(doc, size, pieces[k])
      BY ChunkInvIs DEF ChunksOK
    <3>2. DOMAIN pieces = 1..m /\ \A k \in 1..m : pieces[k] \in Chunks
      BY <3>1, LenProperties, ElementOfSeq
    <3>3. \A p \in Chunks : p.text \in Texts
      BY DEF Chunks
    <3> QED  BY <3>1, <3>2, <3>3
  <2>2. stack = <<>> /\ ancestors = <<>>
    BY ChunkInvIs DEF ChunkInv, StackOK
  <2>3. \A k : k \notin 1..Len(stack) /\ k \notin 1..Len(ancestors)
    BY <2>2
  <2>4. \A i \in Lines : Placed(doc, size, Store(pieces, stack), i)
    BY <2>3, ChunkInvIs DEF Covered, Ahead, Heads, Lines
  <2>5. \A t \in Store(pieces, stack) : \E k \in 1..m : t = pieces[k].text
    BY <2>3 DEF Store
  <2>6. \A k \in 1..m : \A c : c \in Range(pieces[k].text) <=> Occurs(c, pieces[k].text)
    BY <2>1, OccursIs
  <2>7. \A i : Word(i) = WordIn(doc, i)
    BY TextsOfTheDocument
  <2>8. \A k \in 1..m : \A i : HoldsIn(doc, pieces[k].text, i) => Holds(pieces[k].text, i)
    BY <2>6, <2>7 DEF HoldsIn, Holds
  <2>9. ChunksFit
    BY <2>1 DEF ChunksFit, ChunkOK
  <2>10. NoTextIsLost
    BY <2>1, <2>4, <2>5, <2>6, <2>7 DEF NoTextIsLost, Placed
  <2>11. LinesStayWhole
    <3> SUFFICES ASSUME NEW i \in Lines,
                        \A a \in Lines : a = i \/ Above(a, i) => Len(LineText(a)) < Half
                 PROVE  \E k \in DOMAIN pieces : Holds(pieces[k].text, i)
      BY DEF LinesStayWhole
    <3>1. Short(doc, size, i)
      BY TextsOfTheDocument DEF Short, Lines, Half
    <3>2. PICK t \in Store(pieces, stack) : HoldsIn(doc, t, i)
      BY <2>4, <3>1 DEF Placed
    <3> QED  BY <2>1, <2>5, <2>8, <3>2
  <2>12. HeadingsAreTrue
    <3> SUFFICES ASSUME NEW k \in 1..m, pieces[k].heading # 0
                 PROVE  /\ Holds(pieces[k].text, pieces[k].heading)
                        /\ \A j \in DOMAIN pieces[k].text :
                              LineOf(pieces[k].text[j]) \in Lines \ {pieces[k].heading} =>
                                 \/ Above(LineOf(pieces[k].text[j]), pieces[k].heading)
                                 \/ Above(pieces[k].heading, LineOf(pieces[k].text[j]))
      BY <2>1 DEF HeadingsAreTrue
    <3>1. /\ HoldsIn(doc, pieces[k].text, pieces[k].heading)
          /\ Beside(doc, pieces[k].heading, pieces[k].text)
      BY <2>1 DEF ChunkOK
    <3>2. DOMAIN pieces[k].text = 1..Len(pieces[k].text)
      BY <2>1, OccursIs
    <3> QED  BY <2>8, <3>1, <3>2, TextsOfTheDocument DEF Beside, Lines
  <2> QED  BY <2>9, <2>10, <2>11, <2>12
<1> QED  BY <1>1, ChunkInvariance, PTL
=============================================================================
