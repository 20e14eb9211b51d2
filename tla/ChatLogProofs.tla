---------------------------- MODULE ChatLogProofs ----------------------------
(***************************************************************************)
(* Proofs about ChatLog: that every log stays ordered by date, what becomes*)
(* of a message that comes late, and that the marks under a message are    *)
(* true and complete.                                                      *)
(***************************************************************************)
EXTENDS ChatLog, SequenceTheorems, WellFoundedInduction, TLAPS

-----------------------------------------------------------------------------
(* Where _postChatMessage puts a line *)

LEMMA Smallest ==
  ASSUME NEW T \in SUBSET Nat, T # {}
  PROVE  \E x \in T : \A y \in T : x <= y
<1> DEFINE R == {pair \in Nat \X Nat : pair[1] < pair[2]}
<1>1. OpToRel(<, Nat) = R
  BY Zenon DEF OpToRel
<1>2. IsWellFoundedOn(R, Nat)
  BY <1>1, NatLessThanWellFounded, Zenon
<1>3. \A x, y \in Nat : <<y, x>> \in R <=> y < x
  OBVIOUS
<1> HIDE DEF R
<1>4. PICK x \in T : \A y \in T : ~(<<y, x>> \in R)
  BY <1>2, WFMin
<1>5. \A y \in T : x <= y
  <2> SUFFICES ASSUME NEW y \in T
               PROVE  x <= y
    OBVIOUS
  <2>1. ~(y < x)
    BY <1>3, <1>4
  <2> QED
    BY <2>1
<1> QED
  BY <1>5

LEMMA Largest ==
  ASSUME NEW n \in Nat, NEW T \in SUBSET (1 .. n), T # {}
  PROVE  Max(T) \in T /\ \A y \in T : y <= Max(T)
<1> DEFINE Above == {b \in Nat : \A y \in T : y <= b}
<1>1. n \in Above
  OBVIOUS
<1>2. PICK b \in Above : \A c \in Above : b <= c
  BY <1>1, Smallest
<1>3. b \in T
  <2> SUFFICES ASSUME b \notin T
               PROVE  FALSE
    OBVIOUS
  <2>1. PICK t \in T : TRUE
    OBVIOUS
  <2>2. b - 1 \in Above
    BY <2>1
  <2> QED
    BY <1>2, <2>2
<1>4. \A y \in T : b >= y
  OBVIOUS
<1> QED
  BY <1>3, <1>4 DEF Max

LEMMA Inserted ==
  ASSUME NEW S, NEW s \in Seq(S), NEW e \in S, NEW i \in 1 .. Len(s) + 1
  PROVE  /\ InsertAt(s, i, e) \in Seq(S) /\ DOMAIN InsertAt(s, i, e) = 1 .. Len(s) + 1
         /\ \A j \in 1 .. Len(s) + 1 :
              InsertAt(s, i, e)[j] = IF j < i THEN s[j] ELSE IF j = i THEN e ELSE s[j - 1]
<1> DEFINE a == SubSeq(s, 1, i - 1)
           b == SubSeq(s, i, Len(s))
<1>1. a \in Seq(S) /\ Len(a) = i - 1 /\ \A j \in 1 .. i - 1 : a[j] = s[j]
  OBVIOUS
<1>2. b \in Seq(S) /\ Len(b) = Len(s) - i + 1 /\ \A j \in 1 .. Len(b) : b[j] = s[i + j - 1]
  OBVIOUS
<1>3. InsertAt(s, i, e) = a \o <<e>> \o b
  BY DEF InsertAt
<1> HIDE DEF a, b
<1>4. a \o <<e>> \in Seq(S) /\ Len(a \o <<e>>) = i
      /\ \A j \in 1 .. i : (a \o <<e>>)[j] = IF j < i THEN s[j] ELSE e
  BY <1>1
<1> DEFINE c == a \o <<e>>
<1> HIDE DEF c
<1>5. c \in Seq(S) /\ Len(c) = i /\ \A j \in 1 .. i : c[j] = IF j < i THEN s[j] ELSE e
  BY <1>4 DEF c
<1>6. c \o b \in Seq(S) /\ Len(c \o b) = Len(s) + 1
  <2>1. c \o b \in Seq(S) /\ Len(c \o b) = Len(c) + Len(b)
    BY <1>2, <1>5, ConcatProperties
  <2>2. Len(c) + Len(b) = Len(s) + 1
    BY <1>2, <1>5
  <2> QED
    BY <2>1, <2>2
<1>7. \A j \in 1 .. Len(s) + 1 : (c \o b)[j] = IF j <= i THEN c[j] ELSE b[j - i]
  BY <1>2, <1>5
<1>8. \A j \in 1 .. Len(s) + 1 :
        (c \o b)[j] = IF j < i THEN s[j] ELSE IF j = i THEN e ELSE s[j - 1]
  BY <1>2, <1>5, <1>7
<1> QED
  BY <1>3, <1>6, <1>8 DEF c

\* Dates in order stay in order when one goes in after the last that is not later.
LEMMA Between ==
  ASSUME NEW n \in Nat, NEW d \in [1 .. n -> Nat], NEW x \in Nat, NEW m \in 1 .. n,
         NEW e \in [1 .. n + 1 -> Nat],
         \A i, j \in 1 .. n : i < j => d[i] <= d[j],
         d[m] <= x, \A i \in 1 .. n : i > m => d[i] > x,
         \A j \in 1 .. n + 1 : e[j] = IF j <= m THEN d[j] ELSE IF j = m + 1 THEN x ELSE d[j - 1]
  PROVE  d[1] <= x /\ e[1] = d[1] /\ \A i, j \in 1 .. n + 1 : i < j => e[i] <= e[j]
<1> USE DEF Nat
<1>1. d[1] <= d[m] /\ d[1] \in Nat /\ d[m] \in Nat
  <2>1. m = 1 \/ 1 < m
    OBVIOUS
  <2>2. 1 \in 1 .. n
    OBVIOUS
  <2> QED
    BY <2>1, <2>2
<1>2. d[1] <= x
  BY <1>1
<1>3. e[1] = d[1]
  <2>1. 1 \in 1 .. n + 1 /\ 1 <= m
    OBVIOUS
  <2> QED
    BY <2>1
<1>4. ASSUME NEW i \in 1 .. n + 1, NEW j \in 1 .. n + 1, i < j
      PROVE  e[i] <= e[j]
  <2>1. CASE j <= m
    <3>1. i \in 1 .. n /\ j \in 1 .. n /\ e[i] = d[i] /\ e[j] = d[j]
      BY <1>4, <2>1
    <3> QED
      BY <1>4, <3>1
  <2>2. CASE j = m + 1
    <3>1. i \in 1 .. n /\ i <= m /\ e[i] = d[i] /\ e[j] = x
      BY <1>4, <2>2
    <3>2. i = m \/ i < m
      BY <3>1
    <3>3. d[i] <= d[m]
      BY <3>1, <3>2
    <3> QED
      BY <3>1, <3>3
  <2>3. CASE j > m + 1
    <3>1. j - 1 \in 1 .. n /\ j - 1 > m /\ e[j] = d[j - 1]
      BY <2>3
    <3>2. CASE i = m + 1
      <4>1. e[i] = x /\ d[j - 1] > x
        BY <3>1, <3>2
      <4> QED
        BY <3>1, <4>1
    <3>3. CASE i <= m
      <4>1. i \in 1 .. n /\ i < j - 1 /\ e[i] = d[i]
        BY <2>3, <3>3
      <4> QED
        BY <3>1, <4>1
    <3>4. CASE i > m + 1
      <4>1. i - 1 \in 1 .. n /\ i - 1 < j - 1 /\ e[i] = d[i - 1]
        BY <1>4, <3>4
      <4> QED
        BY <3>1, <4>1
    <3> QED
      BY <3>2, <3>3, <3>4
  <2> QED
    BY <2>1, <2>2, <2>3
<1> QED
  BY <1>2, <1>3, <1>4

InOrder(lines) == \A i, j \in DOMAIN lines : i < j => lines[i].date <= lines[j].date
Ids0(lines) == {lines[i].id : i \in DOMAIN lines}

LEMMA DatesAreNaturals == Dates \subseteq Nat /\ \A line \in Line : line.date \in Nat
<1>1. Dates \subseteq Nat
  BY ChatBoundsAssumption DEF Dates
<1> QED
  BY <1>1 DEF Line

\* What Posted does to a log that has a line which is not later.
LEMMA PostedBetween ==
  ASSUME NEW lines \in Seq(Line), NEW line \in Line, NEW k \in DOMAIN lines,
         lines[k].date <= line.date
  PROVE  \E m \in 1 .. Len(lines) :
           /\ lines[m].date <= line.date
           /\ \A i \in 1 .. Len(lines) : i > m => lines[i].date > line.date
           /\ Posted(lines, line) \in Seq(Line)
           /\ DOMAIN Posted(lines, line) = 1 .. Len(lines) + 1
           /\ \A j \in 1 .. Len(lines) + 1 :
                Posted(lines, line)[j] =
                  IF j <= m THEN lines[j] ELSE IF j = m + 1 THEN line ELSE lines[j - 1]
<1> DEFINE earlier == {i \in DOMAIN lines : lines[i].date <= line.date}
<1>1. Len(lines) \in Nat /\ DOMAIN lines = 1 .. Len(lines)
  OBVIOUS
<1>2. earlier \in SUBSET (1 .. Len(lines)) /\ earlier # {} /\ lines # <<>>
  BY <1>1
<1>3. Max(earlier) \in earlier /\ \A i \in earlier : i <= Max(earlier)
  <2> HIDE DEF earlier
  <2> QED
    BY <1>1, <1>2, Largest
<1>4. Posted(lines, line) = InsertAt(lines, Max(earlier) + 1, line)
  BY <1>2 DEF Posted
<1>5. PICK m \in 1 .. Len(lines) : m = Max(earlier)
  BY <1>1, <1>3
<1>6. lines[m].date <= line.date
  BY <1>3, <1>5
<1>7. \A i \in 1 .. Len(lines) : i > m => lines[i].date > line.date
  <2> SUFFICES ASSUME NEW i \in 1 .. Len(lines), i > m
               PROVE  lines[i].date > line.date
    OBVIOUS
  <2>1. ~(i <= m)
    BY <1>1
  <2>2. i \notin earlier
    BY <1>3, <1>5, <2>1
  <2>3. ~(lines[i].date <= line.date)
    BY <1>1, <2>2
  <2>4. lines[i].date \in Nat /\ line.date \in Nat
    BY <1>1, DatesAreNaturals
  <2> QED
    BY <2>3, <2>4
<1>8. m + 1 \in 1 .. Len(lines) + 1 /\ Posted(lines, line) = InsertAt(lines, m + 1, line)
  BY <1>1, <1>4, <1>5
<1> HIDE DEF earlier
<1>9. \A i \in 1 .. Len(lines) + 1 :
        /\ InsertAt(lines, i, line) \in Seq(Line)
        /\ DOMAIN InsertAt(lines, i, line) = 1 .. Len(lines) + 1
        /\ \A j \in 1 .. Len(lines) + 1 :
             InsertAt(lines, i, line)[j] =
               IF j < i THEN lines[j] ELSE IF j = i THEN line ELSE lines[j - 1]
  <2> SUFFICES ASSUME NEW i \in 1 .. Len(lines) + 1
               PROVE  /\ InsertAt(lines, i, line) \in Seq(Line)
                      /\ DOMAIN InsertAt(lines, i, line) = 1 .. Len(lines) + 1
                      /\ \A j \in 1 .. Len(lines) + 1 :
                           InsertAt(lines, i, line)[j] =
                             IF j < i THEN lines[j] ELSE IF j = i THEN line ELSE lines[j - 1]
    OBVIOUS
  <2> QED
    BY ONLY Inserted, lines \in Seq(Line), line \in Line, i \in 1 .. Len(lines) + 1
<1>10. /\ InsertAt(lines, m + 1, line) \in Seq(Line)
      /\ DOMAIN InsertAt(lines, m + 1, line) = 1 .. Len(lines) + 1
      /\ \A j \in 1 .. Len(lines) + 1 :
           InsertAt(lines, m + 1, line)[j] =
             IF j < m + 1 THEN lines[j] ELSE IF j = m + 1 THEN line ELSE lines[j - 1]
  BY <1>8, <1>9
<1>11. \A j \in 1 .. Len(lines) + 1 : j < m + 1 <=> j <= m
  BY <1>1
<1> QED
  BY <1>6, <1>7, <1>8, <1>10, <1>11

\* A line goes in if the log is empty or its first line is not later; then all the
\* others are kept, and the first one stays the first.
LEMMA PostedLines ==
  ASSUME NEW lines \in Seq(Line), NEW line \in Line, InOrder(lines)
  PROVE  /\ Posted(lines, line) \in Seq(Line) /\ InOrder(Posted(lines, line))
         /\ lines = <<>> => Posted(lines, line) = <<line>>
         /\ lines # <<>> => Posted(lines, line) # <<>> /\ Posted(lines, line)[1] = lines[1]
         /\ lines # <<>> /\ line.date < lines[1].date => Posted(lines, line) = lines
         /\ lines # <<>> /\ line.date >= lines[1].date =>
              Ids0(Posted(lines, line)) = Ids0(lines) \cup {line.id}
<1>1. CASE lines = <<>>
  <2>1. Posted(lines, line) = <<line>>
    BY <1>1 DEF Posted
  <2>2. <<line>> \in Seq(Line) /\ InOrder(<<line>>)
    BY DEF InOrder
  <2> QED
    BY <1>1, <2>1, <2>2
<1>2. CASE lines # <<>> /\ ~(\E k \in DOMAIN lines : lines[k].date <= line.date)
  <2>1. Posted(lines, line) = lines
    BY <1>2 DEF Posted
  <2>2. 1 \in DOMAIN lines
    BY <1>2
  <2>3. ~(lines[1].date <= line.date) /\ lines[1].date \in Nat /\ line.date \in Nat
    BY <1>2, <2>2, DatesAreNaturals
  <2>4. ~(line.date >= lines[1].date)
    BY <2>3
  <2> QED
    BY <1>2, <2>1, <2>4
<1>3. CASE \E k \in DOMAIN lines : lines[k].date <= line.date
  <2>1. PICK m \in 1 .. Len(lines) :
          /\ lines[m].date <= line.date
          /\ \A i \in 1 .. Len(lines) : i > m => lines[i].date > line.date
          /\ Posted(lines, line) \in Seq(Line)
          /\ DOMAIN Posted(lines, line) = 1 .. Len(lines) + 1
          /\ \A j \in 1 .. Len(lines) + 1 :
               Posted(lines, line)[j] =
                 IF j <= m THEN lines[j] ELSE IF j = m + 1 THEN line ELSE lines[j - 1]
    BY <1>3, PostedBetween
  <2> DEFINE n == Len(lines)
             new == Posted(lines, line)
             d == [i \in 1 .. n |-> lines[i].date]
             e == [j \in 1 .. n + 1 |-> new[j].date]
  <2>2. n \in Nat /\ DOMAIN lines = 1 .. n /\ lines # <<>> /\ m \in 1 .. n
        /\ \A i \in 1 .. n : lines[i] \in Line
    BY <2>1
  <2> HIDE DEF n, new
  <2>3. new \in Seq(Line) /\ DOMAIN new = 1 .. n + 1 /\ \A j \in 1 .. n + 1 : new[j] \in Line
    BY <2>1 DEF n, new
  <2>4. \A j \in 1 .. n + 1 :
          new[j] = IF j <= m THEN lines[j] ELSE IF j = m + 1 THEN line ELSE lines[j - 1]
    BY <2>1 DEF n, new
  <2>5. d \in [1 .. n -> Nat] /\ e \in [1 .. n + 1 -> Nat] /\ line.date \in Nat
    BY <2>2, <2>3, DatesAreNaturals
  <2>6. \A i, j \in 1 .. n : i < j => d[i] <= d[j]
    BY <2>2 DEF InOrder
  <2>7. d[m] <= line.date /\ \A i \in 1 .. n : i > m => d[i] > line.date
    BY <2>1, <2>2 DEF n
  <2>8. \A j \in 1 .. n + 1 :
          e[j] = IF j <= m THEN d[j] ELSE IF j = m + 1 THEN line.date ELSE d[j - 1]
    <3> SUFFICES ASSUME NEW j \in 1 .. n + 1
                 PROVE e[j] = IF j <= m THEN d[j] ELSE IF j = m + 1 THEN line.date ELSE d[j - 1]
      OBVIOUS
    <3>1. CASE j <= m
      <4>1. j \in 1 .. n /\ new[j] = lines[j]
        BY <2>2, <2>4, <3>1
      <4> QED
        BY <3>1, <4>1
    <3>2. CASE j = m + 1
      <4>1. new[j] = line /\ ~(j <= m)
        BY <2>2, <2>4, <3>2
      <4> QED
        BY <3>2, <4>1
    <3>3. CASE j > m + 1
      <4>1. j - 1 \in 1 .. n /\ ~(j <= m) /\ j # m + 1
        BY <2>2, <3>3
      <4>2. new[j] = lines[j - 1]
        BY <2>4, <4>1
      <4> QED
        BY <4>1, <4>2
    <3> QED
      BY <2>2, <3>1, <3>2, <3>3
  <2>9. d[1] <= line.date /\ e[1] = d[1] /\ \A i, j \in 1 .. n + 1 : i < j => e[i] <= e[j]
    <3> DEFINE x == line.date
    <3> HIDE DEF d, e, x
    <3>1. /\ n \in Nat /\ d \in [1 .. n -> Nat] /\ x \in Nat /\ m \in 1 .. n
          /\ e \in [1 .. n + 1 -> Nat] /\ d[m] <= x
          /\ \A i \in 1 .. n : i > m => d[i] > x
          /\ \A j \in 1 .. n + 1 :
               e[j] = IF j <= m THEN d[j] ELSE IF j = m + 1 THEN x ELSE d[j - 1]
      BY <2>2, <2>5, <2>7, <2>8 DEF x
    <3>2. d[1] <= x /\ e[1] = d[1] /\ \A i, j \in 1 .. n + 1 : i < j => e[i] <= e[j]
      BY ONLY <2>6, <3>1, Between
    <3> QED
      BY <3>2 DEF x
  <2>10. 1 \in 1 .. n /\ 1 \in 1 .. n + 1 /\ 1 <= m
    BY <2>2
  <2>11. new # <<>> /\ new[1] = lines[1] /\ ~(line.date < lines[1].date)
    <3>1. lines[1].date <= line.date /\ lines[1].date \in Nat
      BY <2>5, <2>9, <2>10
    <3>2. ~(line.date < lines[1].date)
      BY <2>5, <3>1
    <3>3. Len(new) \in Nat /\ 1 <= Len(new)
      BY <2>2, <2>3
    <3>4. new # <<>>
      BY <3>3
    <3> QED
      BY <2>4, <2>10, <3>2, <3>4
  <2>12. InOrder(new)
    BY <2>3, <2>9 DEF InOrder
  <2>13. \A j \in DOMAIN new : new[j] = line \/ \E i \in DOMAIN lines : new[j] = lines[i]
    <3> SUFFICES ASSUME NEW j \in 1 .. n + 1
                 PROVE  new[j] = line \/ \E i \in DOMAIN lines : new[j] = lines[i]
      BY <2>3
    <3>1. j <= m => j \in 1 .. n
      BY <2>2
    <3>2. j > m + 1 => j - 1 \in 1 .. n
      BY <2>2
    <3>3. j <= m \/ j = m + 1 \/ (~(j <= m) /\ j # m + 1 /\ j > m + 1)
      BY <2>2
    <3> QED
      BY <2>2, <2>4, <3>1, <3>2, <3>3
  <2>14. m + 1 \in DOMAIN new /\ new[m + 1] = line
    <3>1. m + 1 \in 1 .. n + 1 /\ ~(m + 1 <= m)
      BY <2>2
    <3> QED
      BY <2>3, <2>4, <3>1
  <2>15. \A i \in DOMAIN lines : \E j \in DOMAIN new : new[j] = lines[i]
    <3> SUFFICES ASSUME NEW i \in 1 .. n
                 PROVE  \E j \in 1 .. n + 1 : new[j] = lines[i]
      BY <2>2, <2>3
    <3>1. CASE i <= m
      <4>1. i \in 1 .. n + 1
        BY <2>2
      <4> QED
        BY <2>4, <3>1, <4>1
    <3>2. CASE i > m
      <4>1. i + 1 \in 1 .. n + 1 /\ ~(i + 1 <= m) /\ i + 1 # m + 1 /\ (i + 1) - 1 = i
        BY <2>2, <3>2
      <4>2. new[i + 1] = lines[(i + 1) - 1]
        BY <2>4, <4>1
      <4> QED
        BY <4>1, <4>2
    <3> QED
      BY <2>2, <3>1, <3>2
  <2>16. Ids0(new) = Ids0(lines) \cup {line.id}
    <3>1. Ids0(new) \subseteq Ids0(lines) \cup {line.id}
      BY <2>13 DEF Ids0
    <3>2. Ids0(lines) \cup {line.id} \subseteq Ids0(new)
      BY <2>14, <2>15 DEF Ids0
    <3> QED
      BY <3>1, <3>2
  <2> QED
    BY <2>2, <2>3, <2>11, <2>12, <2>16 DEF new
<1> QED
  BY <1>1, <1>2, <1>3

-----------------------------------------------------------------------------
(* Messages under way and lists *)

Wires == [Pages -> [Pages -> Seq(DataMessage)]]

LEMMA Appended ==
  ASSUME NEW S, NEW s \in Seq(S), NEW e \in S
  PROVE  Append(s, e) \in Seq(S) /\ Range(Append(s, e)) = Range(s) \cup {e}
<1>1. /\ Append(s, e) \in Seq(S) /\ Len(s) \in Nat
      /\ DOMAIN s = 1 .. Len(s) /\ DOMAIN Append(s, e) = 1 .. Len(s) + 1
      /\ Append(s, e)[Len(s) + 1] = e /\ \A i \in 1 .. Len(s) : Append(s, e)[i] = s[i]
  OBVIOUS
<1> DEFINE t == Append(s, e)
<1> HIDE DEF t
<1>2. \A x \in Range(t) : x \in Range(s) \/ x = e
  <2> SUFFICES ASSUME NEW i \in 1 .. Len(s) + 1
               PROVE  t[i] \in Range(s) \/ t[i] = e
    BY <1>1 DEF Range, t
  <2>1. i \in 1 .. Len(s) \/ i = Len(s) + 1
    BY <1>1
  <2> QED
    BY <1>1, <2>1 DEF Range, t
<1>3. \A x \in Range(s) : x \in Range(t)
  <2> SUFFICES ASSUME NEW i \in 1 .. Len(s)
               PROVE  s[i] \in Range(t)
    BY <1>1 DEF Range
  <2>1. i \in 1 .. Len(s) + 1
    BY <1>1
  <2> QED
    BY <1>1, <2>1 DEF Range, t
<1>4. e \in Range(t)
  <2>1. Len(s) + 1 \in 1 .. Len(s) + 1
    BY <1>1
  <2> QED
    BY <1>1, <2>1 DEF Range, t
<1> QED
  BY <1>1, <1>2, <1>3, <1>4 DEF t

LEMMA Shifted ==
  ASSUME NEW S, NEW s \in Seq(S), s # <<>>
  PROVE  /\ Head(s) \in S /\ Head(s) \in Range(s) /\ Tail(s) \in Seq(S)
         /\ Range(Tail(s)) \subseteq Range(s) /\ Range(s) \subseteq Range(Tail(s)) \cup {Head(s)}
<1>1. /\ Len(s) \in Nat /\ Len(s) >= 1 /\ DOMAIN s = 1 .. Len(s) /\ Head(s) = s[1] /\ s[1] \in S
      /\ Tail(s) \in Seq(S) /\ DOMAIN Tail(s) = 1 .. Len(s) - 1
      /\ \A i \in 1 .. Len(s) - 1 : Tail(s)[i] = s[i + 1]
  OBVIOUS
<1> DEFINE t == Tail(s)
<1>2. Head(s) \in Range(s)
  <2>1. 1 \in 1 .. Len(s)
    BY <1>1
  <2> QED
    BY <1>1, <2>1 DEF Range
<1> HIDE DEF t
<1>3. \A x \in Range(t) : x \in Range(s)
  <2> SUFFICES ASSUME NEW i \in 1 .. Len(s) - 1
               PROVE  t[i] \in Range(s)
    BY <1>1 DEF Range, t
  <2>1. i + 1 \in 1 .. Len(s)
    BY <1>1
  <2> QED
    BY <1>1, <2>1 DEF Range, t
<1>4. \A x \in Range(s) : x \in Range(t) \/ x = Head(s)
  <2> SUFFICES ASSUME NEW i \in 1 .. Len(s)
               PROVE  s[i] \in Range(t) \/ s[i] = Head(s)
    BY <1>1 DEF Range
  <2>1. CASE i = 1
    BY <1>1, <2>1
  <2>2. CASE i > 1
    <3>1. i - 1 \in 1 .. Len(s) - 1 /\ (i - 1) + 1 = i
      BY <1>1, <2>2
    <3>2. t[i - 1] = s[i]
      BY <1>1, <3>1 DEF t
    <3> QED
      BY <1>1, <3>1, <3>2 DEF Range, t
  <2> QED
    BY <1>1, <2>1, <2>2
<1> QED
  BY <1>1, <1>2, <1>3, <1>4 DEF t

\* sendMessageToPeers adds the message to every channel that is open and not closed
\* at the other end, and nowhere else.
Reached(p) == {q \in OpenTo(p) : channel[q][p] # "closed"}
Adds(w, new, p, m) ==
  \A a, b \in Pages : \A x :
    x \in Range(new[a][b]) <=> x \in Range(w[a][b]) \/ (a = p /\ b \in Reached(p) /\ x = m)
LEMMA Sending ==
  ASSUME NEW w \in Wires, NEW p \in Pages, NEW m \in DataMessage
  PROVE  Sent(w, p, m) \in Wires /\ Adds(w, Sent(w, p, m), p, m)
<1> DEFINE row == [q \in Pages |-> IF q \in Reached(p) THEN Append(w[p][q], m) ELSE w[p][q]]
<1>1. Sent(w, p, m) = [w EXCEPT ![p] = row]
  BY DEF Sent, Wires, Reached
<1>2. \A q \in Pages : w[p][q] \in Seq(DataMessage)
  BY DEF Wires
<1>3. \A q \in Pages : row[q] \in Seq(DataMessage)
  BY <1>2, Appended
<1>4. row \in [Pages -> Seq(DataMessage)]
  BY <1>3
<1>5. \A q \in Pages :
        Range(row[q]) = IF q \in Reached(p) THEN Range(w[p][q]) \cup {m} ELSE Range(w[p][q])
  <2> SUFFICES ASSUME NEW q \in Pages
      PROVE Range(row[q]) = IF q \in Reached(p) THEN Range(w[p][q]) \cup {m} ELSE Range(w[p][q])
    OBVIOUS
  <2>1. Range(Append(w[p][q], m)) = Range(w[p][q]) \cup {m}
    BY <1>2, Appended
  <2> QED
    BY <2>1
<1> HIDE DEF row
<1>6. Sent(w, p, m) \in Wires
  BY <1>1, <1>4 DEF Wires
<1>7. \A a, b \in Pages : Sent(w, p, m)[a][b] = IF a = p THEN row[b] ELSE w[a][b]
  BY <1>1 DEF Wires
<1> QED
  BY <1>5, <1>6, <1>7 DEF Adds

LEMMA Removing ==
  ASSUME NEW w \in Wires, NEW q \in Pages, NEW p \in Pages, NEW s \in Seq(DataMessage)
  PROVE  /\ [w EXCEPT ![q][p] = s] \in Wires
         /\ \A a, b \in Pages : [w EXCEPT ![q][p] = s][a][b] = IF a = q /\ b = p THEN s ELSE w[a][b]
<1>1. [w[q] EXCEPT ![p] = s] \in [Pages -> Seq(DataMessage)]
  BY DEF Wires
<1>2. [w EXCEPT ![q][p] = s] \in Wires
  BY <1>1 DEF Wires
<1>3. \A a, b \in Pages : [w EXCEPT ![q][p] = s][a][b] = IF a = q /\ b = p THEN s ELSE w[a][b]
  BY DEF Wires
<1> QED
  BY <1>2, <1>3

\* What a page that is being told something takes off the wire.
LEMMA Taking ==
  ASSUME wire \in Wires, NEW p \in Pages, NEW q \in Pages, wire[q][p] # <<>>
  PROVE  /\ Head(wire[q][p]) \in DataMessage /\ Head(wire[q][p]) \in Range(wire[q][p])
         /\ Taken(p, q) \in Wires
         /\ \A a, b \in Pages :
              /\ Range(Taken(p, q)[a][b]) \subseteq Range(wire[a][b])
              /\ Range(wire[a][b]) \subseteq
                   Range(Taken(p, q)[a][b]) \cup (IF a = q /\ b = p THEN {Head(wire[q][p])} ELSE {})
<1>1. wire[q][p] \in Seq(DataMessage)
  BY DEF Wires
<1> DEFINE s == wire[q][p]
<1> HIDE DEF s
<1>2. /\ Head(s) \in DataMessage /\ Head(s) \in Range(s) /\ Tail(s) \in Seq(DataMessage)
      /\ Range(Tail(s)) \subseteq Range(s) /\ Range(s) \subseteq Range(Tail(s)) \cup {Head(s)}
  BY <1>1, Shifted DEF s
<1>3. Taken(p, q) = [wire EXCEPT ![q][p] = Tail(s)]
  BY DEF Taken, s, Wires
<1>4. /\ Taken(p, q) \in Wires
      /\ \A a, b \in Pages : Taken(p, q)[a][b] = IF a = q /\ b = p THEN Tail(s) ELSE wire[a][b]
  <2>1. PICK t \in Seq(DataMessage) : t = Tail(s)
    BY ONLY <1>2
  <2> DEFINE W == [wire EXCEPT ![q][p] = t]
  <2>2. Taken(p, q) = W
    BY <1>3, <2>1
  <2>3. W \in Wires /\ \A a, b \in Pages : W[a][b] = IF a = q /\ b = p THEN t ELSE wire[a][b]
    <3>1. [wire[q] EXCEPT ![p] = t] \in [Pages -> Seq(DataMessage)]
      BY DEF Wires
    <3>2. W \in Wires
      BY <3>1 DEF Wires
    <3>3. \A a, b \in Pages : W[a][b] = IF a = q /\ b = p THEN t ELSE wire[a][b]
      BY DEF Wires
    <3> QED
      BY <3>2, <3>3
  <2> HIDE DEF W
  <2> QED
    BY <2>1, <2>2, <2>3
<1>5. \A a, b \in Pages :
        /\ Range(Taken(p, q)[a][b]) \subseteq Range(wire[a][b])
        /\ Range(wire[a][b]) \subseteq
             Range(Taken(p, q)[a][b]) \cup (IF a = q /\ b = p THEN {Head(s)} ELSE {})
  BY <1>2, <1>4 DEF s
<1> QED
  BY <1>2, <1>4, <1>5 DEF s

\* What is left of what is under way when a channel fails.
LEMMA Prefix ==
  ASSUME NEW S, NEW s \in Seq(S), NEW n \in 0 .. Len(s)
  PROVE  SubSeq(s, 1, n) \in Seq(S) /\ Range(SubSeq(s, 1, n)) \subseteq Range(s)
<1>1. /\ SubSeq(s, 1, n) \in Seq(S) /\ DOMAIN SubSeq(s, 1, n) = 1 .. n
      /\ \A i \in 1 .. n : SubSeq(s, 1, n)[i] = s[i]
      /\ DOMAIN s = 1 .. Len(s) /\ 1 .. n \subseteq 1 .. Len(s)
  OBVIOUS
<1> QED
  BY <1>1 DEF Range

LEMMA Failing ==
  ASSUME wire \in Wires, NEW p \in Pages, NEW q \in Pages, Fails(p, q)
  PROVE  /\ wire' \in Wires
         /\ \A a, b \in Pages :
              /\ Range(wire'[a][b]) \subseteq Range(wire[a][b])
              /\ ~(a = p /\ b = q) /\ ~(a = q /\ b = p) => wire'[a][b] = wire[a][b]
<1>1. PICK n \in 0 .. Len(wire[p][q]) :
        wire' = [wire EXCEPT ![p][q] = SubSeq(@, 1, n), ![q][p] = <<>>]
  BY DEF Fails
<1>2. PICK s \in Seq(DataMessage) :
        s = SubSeq(wire[p][q], 1, n) /\ Range(s) \subseteq Range(wire[p][q])
  <2>1. wire[p][q] \in Seq(DataMessage)
    BY DEF Wires
  <2> QED
    BY <2>1, Prefix
<1>3. PICK w \in Wires : /\ w = [wire EXCEPT ![p][q] = s]
                         /\ \A a, b \in Pages : w[a][b] = IF a = p /\ b = q THEN s ELSE wire[a][b]
  <2> DEFINE W == [wire EXCEPT ![p][q] = s]
  <2>1. W \in Wires /\ \A a, b \in Pages : W[a][b] = IF a = p /\ b = q THEN s ELSE wire[a][b]
    BY ONLY wire \in Wires, s \in Seq(DataMessage), p \in Pages, q \in Pages, Removing
  <2> HIDE DEF W
  <2>2. \E w \in Wires : w = W
    BY <2>1
  <2> QED
    BY <2>1, <2>2 DEF W
<1>4. PICK e \in Seq(DataMessage) : e = <<>> /\ Range(e) = {}
  <2>1. <<>> \in Seq(DataMessage) /\ Range(<<>>) = {}
    BY DEF Range
  <2> QED
    BY <2>1
<1>5. wire' = [w EXCEPT ![q][p] = e]
  <2>1. [wire EXCEPT ![p][q] = SubSeq(@, 1, n)] = w
    BY <1>2, <1>3 DEF Wires
  <2> QED
    BY <1>1, <1>4, <2>1
<1>6. /\ [w EXCEPT ![q][p] = e] \in Wires
      /\ \A a, b \in Pages : [w EXCEPT ![q][p] = e][a][b] = IF a = q /\ b = p THEN e ELSE w[a][b]
  BY ONLY w \in Wires, e \in Seq(DataMessage), p \in Pages, q \in Pages, Removing, SMTT(30)
<1>7. /\ wire' \in Wires
      /\ \A a, b \in Pages : wire'[a][b] = IF a = q /\ b = p THEN e ELSE w[a][b]
  BY ONLY <1>5, <1>6
<1>8. ASSUME NEW a \in Pages, NEW b \in Pages
      PROVE  /\ Range(wire'[a][b]) \subseteq Range(wire[a][b])
             /\ ~(a = p /\ b = q) /\ ~(a = q /\ b = p) => wire'[a][b] = wire[a][b]
  <2>1. CASE a = q /\ b = p
    <3>1. wire'[a][b] = e
      BY <1>7, <2>1
    <3> QED
      BY ONLY <1>4, <2>1, <3>1
  <2>2. CASE ~(a = q /\ b = p)
    <3>1. wire'[a][b] = IF a = p /\ b = q THEN s ELSE wire[a][b]
      BY <1>3, <1>7, <2>2
    <3> QED
      BY ONLY <1>2, <2>2, <3>1
  <2> QED
    BY <2>1, <2>2
<1> QED
  BY ONLY <1>7, <1>8

LEMMA MarksAre ==
  \A u : u \in Marks <=> \E S \in SUBSET Pages : u \in [S -> {0} \cup Ids]
BY DEF Marks
LEMMA ListMarked ==
  ASSUME NEW S \in SUBSET Pages, NEW u \in [S -> {0} \cup Ids]
  PROVE  u \in Marks
BY MarksAre

-----------------------------------------------------------------------------
(* Types, and logs in order *)

TypesInv == ChatTypeOK /\ LogSorted

LEMMA Dated ==
  ASSUME ChatTypeOK, NEW p \in Pages
  PROVE  Clock(p) \in Dates /\ News(p) \in Line /\ News(p).id = 0 /\ News(p).date = Clock(p)
<1>1. MaxTime \in Nat /\ Skew \in Nat /\ now \in 0 .. MaxTime
  BY ChatBoundsAssumption DEF ChatTypeOK
<1>2. Clock(p) \in 0 .. MaxTime + Skew
  BY <1>1 DEF Clock
<1> QED
  BY <1>2 DEF Dates, News, Line

LEMMA Posting ==
  ASSUME TypesInv, NEW p \in Pages, NEW line \in Line, Posts(p, line)
  PROVE  /\ log' \in [Pages -> Seq(Line)] /\ LogSorted'
         /\ \A q \in Pages : log'[q] = IF q = p THEN Posted(log[p], line) ELSE log[q]
<1>1. log \in [Pages -> Seq(Line)] /\ \A q \in Pages : InOrder(log[q])
  BY DEF TypesInv, ChatTypeOK, LogSorted, InOrder
<1>2. Posted(log[p], line) \in Seq(Line) /\ InOrder(Posted(log[p], line))
  BY <1>1, PostedLines
<1>3. /\ log' \in [Pages -> Seq(Line)]
      /\ \A q \in Pages : log'[q] = IF q = p THEN Posted(log[p], line) ELSE log[q]
  BY <1>1, <1>2 DEF Posts
<1>4. \A q \in Pages : InOrder(log'[q])
  BY <1>1, <1>2, <1>3
<1>5. LogSorted'
  BY <1>4 DEF LogSorted, InOrder
<1> QED
  BY <1>3, <1>5

LEMMA TypesHold ==
  ASSUME TypesInv, [Next]_chatVars
  PROVE  TypesInv'
<1> USE DEF chatVars, netVars, chatHistory
<1>1. /\ now \in 0 .. MaxTime /\ here \in [Pages -> {"out", "in", "left"}]
      /\ users \in [Pages -> Marks] /\ \A p \in Pages : p \notin DOMAIN users[p]
      /\ log \in [Pages -> Seq(Line)] /\ LogSorted
      /\ channel \in [Pages -> [Pages -> {"new", "open", "closed"}]]
      /\ wire \in Wires /\ written \in Seq(Pages) /\ owed \in Seq(SUBSET Pages)
      /\ received \in [Pages -> SUBSET DataMessage] /\ ChatTypeOK
  BY DEF TypesInv, ChatTypeOK, Wires
<1>2. \A p \in Pages : DOMAIN users[p] \in SUBSET Pages
                       /\ users[p] \in [DOMAIN users[p] -> {0} \cup Ids]
  <2> SUFFICES ASSUME NEW p \in Pages
               PROVE  DOMAIN users[p] \in SUBSET Pages /\ users[p] \in [DOMAIN users[p] -> {0} \cup Ids]
    OBVIOUS
  <2>1. PICK S \in SUBSET Pages : users[p] \in [S -> {0} \cup Ids]
    BY <1>1, MarksAre
  <2> QED
    BY <2>1
<1> DEFINE Typed ==
      /\ now' \in 0 .. MaxTime /\ here' \in [Pages -> {"out", "in", "left"}]
      /\ users' \in [Pages -> Marks] /\ \A p \in Pages : p \notin DOMAIN users'[p]
      /\ log' \in [Pages -> Seq(Line)] /\ LogSorted'
      /\ channel' \in [Pages -> [Pages -> {"new", "open", "closed"}]]
      /\ wire' \in Wires /\ written' \in Seq(Pages) /\ owed' \in Seq(SUBSET Pages)
      /\ received' \in [Pages -> SUBSET DataMessage]
<1>3. SUFFICES Typed
  BY DEF TypesInv, ChatTypeOK, Wires
<1>4. UNCHANGED log => log' \in [Pages -> Seq(Line)] /\ LogSorted'
  BY <1>1 DEF LogSorted
<1>5. \A p \in Pages : News(p) \in Line
  BY <1>1, Dated
<1>6. ASSUME NEW p \in Pages, Enter(p)
      PROVE  Typed
  <2>1. [q \in Present |-> 0] \in Marks /\ p \notin DOMAIN [q \in Present |-> 0]
    <3>1. Present \in SUBSET Pages /\ p \notin Present
      BY <1>6 DEF Present, Enter
    <3> QED
      BY <3>1, ListMarked
  <2>2. users' \in [Pages -> Marks] /\ \A q \in Pages : q \notin DOMAIN users'[q]
    BY <1>1, <1>6, <2>1 DEF Enter
  <2>3. log' \in [Pages -> Seq(Line)] /\ LogSorted'
    BY <1>4, <1>5, <1>6, Posting DEF Enter
  <2> QED
    BY <1>1, <1>6, <2>2, <2>3 DEF Enter
<1>7. ASSUME NEW p \in Pages, Leave(p)
      PROVE  Typed
  <2>1. log' \in [Pages -> Seq(Line)] /\ LogSorted'
    <3>1. log' \in [Pages -> Seq(Line)]
      BY <1>1, <1>7 DEF Leave
    <3>2. \A q \in Pages : log'[q] = log[q] \/ log'[q] = <<>>
      BY <1>1, <1>7 DEF Leave
    <3> QED
      BY <1>1, <3>1, <3>2 DEF LogSorted
  <2>2. wire' \in Wires
    <3>1. \A q \in Pages : [wire[q] EXCEPT ![p] = <<>>] \in [Pages -> Seq(DataMessage)]
      BY <1>1 DEF Wires
    <3> QED
      BY <1>7, <3>1 DEF Leave, Wires
  <2> QED
    BY <1>1, <1>7, <2>1, <2>2 DEF Leave
<1>8. ASSUME NEW p \in Pages, onSendMessage(p)
      PROVE  Typed
  <2>1. Len(written) + 1 \in Ids /\ Clock(p) \in Dates
    BY <1>1, <1>8, Dated, ChatBoundsAssumption DEF onSendMessage, Ids
  <2>2. /\ [id |-> Len(written) + 1, date |-> Clock(p)] \in Line
        /\ [type |-> "CHAT", id |-> Len(written) + 1, date |-> Clock(p)] \in DataMessage
    BY <2>1 DEF Line, DataMessage
  <2>3. log' \in [Pages -> Seq(Line)] /\ LogSorted'
    BY <1>8, <2>2, Posting DEF onSendMessage
  <2>4. wire' \in Wires
    BY <1>1, <1>8, <2>2, Sending DEF onSendMessage
  <2>5. written' \in Seq(Pages) /\ owed' \in Seq(SUBSET Pages)
    BY <1>1, <1>8 DEF onSendMessage, OpenTo
  <2> QED
    BY <1>1, <1>8, <2>3, <2>4, <2>5 DEF onSendMessage
<1>9. ASSUME NEW p \in Pages, NEW q \in Pages, OnUserAdded(p, q)
      PROVE  Typed
  <2> DEFINE u == [r \in DOMAIN users[p] \cup {q} |-> IF r = q THEN 0 ELSE users[p][r]]
  <2>1. u \in Marks /\ p \notin DOMAIN u
    <3>1. DOMAIN users[p] \cup {q} \in SUBSET Pages /\ p \notin DOMAIN users[p] \cup {q}
      BY <1>1, <1>2, <1>9 DEF OnUserAdded
    <3>2. u \in [DOMAIN users[p] \cup {q} -> {0} \cup Ids]
      BY <1>2
    <3> QED
      BY <3>1, <3>2, ListMarked
  <2>2. users' = [users EXCEPT ![p] = u]
    BY <1>1, <1>9 DEF OnUserAdded
  <2> HIDE DEF u
  <2>3. users' \in [Pages -> Marks] /\ \A r \in Pages : r \notin DOMAIN users'[r]
    BY <1>1, <2>1, <2>2
  <2>4. log' \in [Pages -> Seq(Line)] /\ LogSorted'
    BY <1>5, <1>9, Posting DEF OnUserAdded
  <2> QED
    BY <1>1, <1>9, <2>3, <2>4 DEF OnUserAdded
<1>10. ASSUME NEW p \in Pages, NEW q \in Pages, OnUserRemoved(p, q)
       PROVE  Typed
  <2> DEFINE u == Restrict(users[p], DOMAIN users[p] \ {q})
  <2>1. u \in Marks /\ p \notin DOMAIN u
    <3>1. DOMAIN users[p] \ {q} \in SUBSET Pages /\ p \notin DOMAIN users[p] \ {q}
      BY <1>1, <1>2
    <3>2. u \in [DOMAIN users[p] \ {q} -> {0} \cup Ids]
      BY <1>2 DEF Restrict
    <3> QED
      BY <3>1, <3>2, ListMarked
  <2>2. users' = [users EXCEPT ![p] = u]
    BY <1>1, <1>10 DEF OnUserRemoved
  <2> HIDE DEF u
  <2>3. users' \in [Pages -> Marks] /\ \A r \in Pages : r \notin DOMAIN users'[r]
    BY <1>1, <2>1, <2>2
  <2>4. log' \in [Pages -> Seq(Line)] /\ LogSorted'
    BY <1>5, <1>10, Posting DEF OnUserRemoved
  <2>5. wire' \in Wires
    <3>1. <<>> \in Seq(DataMessage)
      OBVIOUS
    <3> QED
      BY <1>1, <1>10, <3>1, Removing DEF OnUserRemoved
  <2>6. channel' \in [Pages -> [Pages -> {"new", "open", "closed"}]]
    <3>1. [channel[p] EXCEPT ![q] = "closed"] \in [Pages -> {"new", "open", "closed"}]
      BY <1>1
    <3> QED
      BY <1>1, <1>10, <3>1 DEF OnUserRemoved
  <2> QED
    BY <1>1, <1>10, <2>3, <2>4, <2>5, <2>6 DEF OnUserRemoved
<1>11. ASSUME NEW p \in Pages, NEW q \in Pages, Opens(p, q)
       PROVE  Typed
  <2>1. [channel[p] EXCEPT ![q] = "open"] \in [Pages -> {"new", "open", "closed"}]
    BY <1>1
  <2> QED
    BY <1>1, <1>4, <1>11, <2>1 DEF Opens
<1>18. ASSUME NEW p \in Pages, NEW q \in Pages, Fails(p, q)
       PROVE  Typed
  <2>1. [channel[p] EXCEPT ![q] = "closed"] \in [Pages -> {"new", "open", "closed"}]
    BY <1>1
  <2>2. channel' \in [Pages -> [Pages -> {"new", "open", "closed"}]]
    BY <1>1, <1>18, <2>1 DEF Fails
  <2>3. wire' \in Wires
    BY <1>1, <1>18, Failing
  <2> QED
    BY <1>1, <1>4, <1>18, <2>2, <2>3 DEF Fails
<1>12. ASSUME NEW p \in Pages, NEW q \in Pages, channel[p][q] = "open", wire[q][p] # <<>>,
              Head(wire[q][p]).id \in Ids
       PROVE  [users EXCEPT ![p][q] = Head(wire[q][p]).id] \in [Pages -> Marks]
              /\ \A r \in Pages : r \notin DOMAIN [users EXCEPT ![p][q] = Head(wire[q][p]).id][r]
  <2> DEFINE u == [users[p] EXCEPT ![q] = Head(wire[q][p]).id]
  <2>1. u \in [DOMAIN users[p] -> {0} \cup Ids] /\ DOMAIN u = DOMAIN users[p]
    BY <1>2, <1>12
  <2>2. u \in Marks /\ p \notin DOMAIN u
    BY <1>1, <1>2, <2>1, ListMarked
  <2>3. [users EXCEPT ![p][q] = Head(wire[q][p]).id] = [users EXCEPT ![p] = u]
    BY <1>1
  <2> HIDE DEF u
  <2> QED
    BY <1>1, <2>2, <2>3
<1>13. \A m \in DataMessage : m.id \in Ids /\ m.type \in {"CHAT", "ACK_CHAT"}
                              /\ (m.type = "CHAT" => m.date \in Dates)
  BY DEF DataMessage
<1>14. ASSUME NEW p \in Pages, NEW q \in Pages, OnChat(p, q)
       PROVE  Typed
  <2> DEFINE m == Head(wire[q][p])
  <2>1. channel[p][q] = "open" /\ wire[q][p] # <<>> /\ m.type = "CHAT"
    BY <1>14 DEF OnChat, Takes
  <2>2. m \in DataMessage /\ Taken(p, q) \in Wires
    BY <1>1, <2>1, Taking
  <2>3. m.id \in Ids /\ m.date \in Dates
    BY <1>13, <2>1, <2>2
  <2>4. /\ [id |-> m.id, date |-> m.date] \in Line
        /\ [type |-> "ACK_CHAT", id |-> m.id] \in DataMessage
    BY <2>3 DEF Line, DataMessage
  <2>5. log' \in [Pages -> Seq(Line)] /\ LogSorted'
    BY <1>14, <2>4, Posting DEF OnChat
  <2>6. wire' \in Wires
    BY <1>14, <2>2, <2>4, Sending DEF OnChat
  <2>7. users' \in [Pages -> Marks] /\ \A r \in Pages : r \notin DOMAIN users'[r]
    BY <1>12, <1>14, <2>1, <2>3 DEF OnChat
  <2>8. received' \in [Pages -> SUBSET DataMessage]
    BY <1>1, <1>14, <2>2 DEF OnChat
  <2> QED
    BY <1>1, <1>14, <2>5, <2>6, <2>7, <2>8 DEF OnChat, Takes
<1>15. ASSUME NEW p \in Pages, NEW q \in Pages, OnAck(p, q)
       PROVE  Typed
  <2> DEFINE m == Head(wire[q][p])
  <2>1. channel[p][q] = "open" /\ wire[q][p] # <<>> /\ m.type = "ACK_CHAT"
    BY <1>15 DEF OnAck, Takes
  <2>2. m \in DataMessage /\ Taken(p, q) \in Wires
    BY <1>1, <2>1, Taking
  <2>3. m.id \in Ids
    BY <1>13, <2>2
  <2>4. users' \in [Pages -> Marks] /\ \A r \in Pages : r \notin DOMAIN users'[r]
    BY <1>12, <1>15, <2>1, <2>3 DEF OnAck
  <2>5. owed' \in Seq(SUBSET Pages)
    <3>1. \A id \in Ids : [owed EXCEPT ![id] = @ \ {q}] \in Seq(SUBSET Pages)
      <4> SUFFICES ASSUME NEW id \in Ids
                   PROVE  [owed EXCEPT ![id] = @ \ {q}] \in Seq(SUBSET Pages)
        OBVIOUS
      <4>1. owed \in [1 .. Len(owed) -> SUBSET Pages] /\ Len(owed) \in Nat
        BY <1>1
      <4>2. [owed EXCEPT ![id] = @ \ {q}] \in [1 .. Len(owed) -> SUBSET Pages]
        BY <4>1
      <4> QED
        BY <4>1, <4>2, SeqDef
    <3> QED
      BY <1>1, <1>15, <2>3, <3>1 DEF OnAck
  <2> QED
    BY <1>1, <1>4, <1>15, <2>2, <2>4, <2>5 DEF OnAck, Takes
<1>16. CASE Tick
  BY <1>1, <1>4, <1>16, ChatBoundsAssumption DEF Tick
<1>17. CASE UNCHANGED chatVars
  BY <1>1, <1>4, <1>17
<1> QED
  BY <1>6, <1>7, <1>8, <1>9, <1>10, <1>11, <1>14, <1>15, <1>16, <1>17,
     <1>18 DEF Next, PageStep, PairStep, Hears

LEMMA TypesBegin == Init => TypesInv
<1> SUFFICES ASSUME Init
             PROVE  TypesInv
  OBVIOUS
<1>1. \A S : <<>> \in Seq(S)
  OBVIOUS
<1>2. <<>> \in Marks
  <2>1. <<>> \in [{} -> {0} \cup Ids]
    OBVIOUS
  <2> QED
    BY <2>1, MarksAre
<1>3. users \in [Pages -> Marks] /\ \A p \in Pages : p \notin DOMAIN users[p]
  BY <1>2 DEF Init
<1>4. now \in 0 .. MaxTime
  BY ChatBoundsAssumption DEF Init
<1>5. LogSorted
  BY DEF Init, LogSorted
<1> QED
  BY <1>1, <1>3, <1>4, <1>5 DEF Init, TypesInv, ChatTypeOK

\* Every state has its type: who is listed, what is said and what is under way.
THEOREM ChatTypeCorrect == Spec => []ChatTypeOK
<1>1. TypesInv => ChatTypeOK
  BY DEF TypesInv
<1> QED
  BY <1>1, TypesBegin, TypesHold, PTL DEF Spec

\* Logs are ordered by date, whatever the clocks and the order of arrival.
THEOREM LogsSorted == Spec => []LogSorted
<1>1. TypesInv => LogSorted
  BY DEF TypesInv
<1> QED
  BY <1>1, TypesBegin, TypesHold, PTL DEF Spec

-----------------------------------------------------------------------------
(* The inductive invariant *)

\* What is under way from a to b, whatever its order.
Flight(a, b) == Range(wire[a][b])

\* Nobody lists a page that has not come yet; an open channel is of a page that
\* is in and lists the other.
KnownPages == \A p \in Pages : \A q \in DOMAIN users[p] : here[q] # "out"
OpenListed ==
  \A p, q \in Pages : channel[p][q] = "open" => here[p] = "in" /\ q \in DOMAIN users[p]
\* An empty log is of a page that lists nobody, has heard and written nothing.
NothingYet ==
  \A p \in Pages :
    /\ here[p] = "out" => log[p] = <<>>
    /\ here[p] # "left" /\ log[p] = <<>> =>
         /\ DOMAIN users[p] = {} /\ received[p] = {}
         /\ \A id \in DOMAIN written : written[id] # p
PagesInv == KnownPages /\ OpenListed /\ NothingYet

\* A message comes from its author, a receipt from somebody who has the message.
Has(p, id) == \E m \in received[p] : m.id = id
FromWriters ==
  \A a, b \in Pages : \A m \in Flight(a, b) :
    /\ m.id \in DOMAIN written
    /\ m.type = "CHAT" => written[m.id] = a
    /\ m.type = "ACK_CHAT" => Has(a, m.id)
\* Nobody receives what it has written.
ReceivedWritten ==
  \A p \in Pages : \A m \in received[p] :
    m.type = "CHAT" /\ m.id \in DOMAIN written /\ written[m.id] # p
MarksTrue ==
  \A p \in Pages : \A q \in DOMAIN users[p] : \A id :
    users[p][q] = id /\ id # 0 =>
      id \in DOMAIN written /\ (written[id] = q \/ Has(q, id))
MarksInv == FromWriters /\ ReceivedWritten /\ MarksTrue

\* All copies of a message, under way or received, bear the same date.
Copy(m) ==
  m.type = "CHAT" /\ ((\E a, b \in Pages : m \in Flight(a, b)) \/ \E p \in Pages : m \in received[p])
SameDate == \A m, k \in DataMessage : Copy(m) /\ Copy(k) /\ m.id = k.id => m.date = k.date
\* A log begins with a line of the page's own clock.
BeginsOwn == \A p \in Pages : log[p] # <<>> => log[p][1].date <= Clock(p)
OwnShown ==
  \A p \in Pages : here[p] = "in" =>
    \A id \in DOMAIN written : written[id] = p => id \in Ids0(log[p])
ReceivedKept ==
  \A p \in Pages : here[p] = "in" =>
    \A m \in received[p] : m.id \in Ids0(log[p]) <=> m.date >= log[p][1].date
ShownKnown ==
  \A p \in Pages : \A id \in Ids0(log[p]) :
    id = 0 \/ (id \in DOMAIN written /\ (written[id] = p \/ Has(p, id)))
LinesInv == SameDate /\ BeginsOwn /\ OwnShown /\ ReceivedKept /\ ShownKnown

\* A mark that is still owed has the message or its receipt under way, or its
\* channel has failed.
OwedUnderWay ==
  /\ DOMAIN owed = DOMAIN written
  /\ \A id \in DOMAIN owed : \A r \in owed[id] :
       /\ here[written[id]] # "out" /\ here[r] # "out"
       /\ here[written[id]] = "in" /\ here[r] = "in" =>
         \/ \E m \in Flight(written[id], r) : m.type = "CHAT" /\ m.id = id
         \/ \E m \in Flight(r, written[id]) : m.type = "ACK_CHAT" /\ m.id = id
         \/ Failed(written[id], r)

ChatInv == TypesInv /\ PagesInv /\ MarksInv /\ LinesInv /\ OwedUnderWay

-----------------------------------------------------------------------------
(* What a step does to a page, to what it is told, and to what is under way *)

\* Pages come once and leave once.
Onward ==
  \A p \in Pages :
    /\ here'[p] = "out" => here[p] = "out"
    /\ here[p] = "left" => here'[p] = "left"

SameHistory(p) == received'[p] = received[p] /\ written' = written
\* The page's log stays as it is; if it comes in, it comes into an empty room.
Stays(p) ==
  /\ log'[p] = log[p] /\ received'[p] = received[p] /\ DOMAIN users'[p] = DOMAIN users[p]
  /\ here'[p] = "in" /\ here[p] # "in" => here[p] = "out"
  /\ written' = written \/ \E q \in Pages \ {p} : written' = Append(written, q)
Clears(p) == here'[p] = "left" /\ log'[p] = <<>> /\ SameHistory(p)
Announces(p) ==
  /\ here[p] # "left" /\ here'[p] = "in"
  /\ log'[p] = Posted(log[p], News(p)) /\ SameHistory(p)
Writes(p) ==
  /\ here[p] = "in" /\ here'[p] = "in" /\ received'[p] = received[p]
  /\ log'[p] = Posted(log[p], [id |-> Len(written) + 1, date |-> Clock(p)])
  /\ Len(written) < MaxMessages /\ written' = Append(written, p)
Receives(p) ==
  /\ here[p] = "in" /\ here'[p] = "in" /\ written' = written
  /\ \E q \in DOMAIN users[p] : \E m \in Flight(q, p) :
       /\ m.type = "CHAT" /\ received'[p] = received[p] \cup {m}
       /\ log'[p] = Posted(log[p], [id |-> m.id, date |-> m.date])
LogEffect(p) == Stays(p) \/ Clears(p) \/ Announces(p) \/ Writes(p) \/ Receives(p)

\* What is noted of a listed page: as before, nothing, or what it has just said.
MarkEffect(p) ==
  \A q \in DOMAIN users'[p] :
    \/ q \in DOMAIN users[p] /\ users'[p][q] = users[p][q]
    \/ users'[p][q] = 0 /\ here[q] # "out"
    \/ q \in DOMAIN users[p] /\ \E m \in Flight(q, p) : users'[p][q] = m.id

\* What is under way from a: what was, a new message, or a receipt for what a has.
NewMessage(a, m) ==
  /\ written' = Append(written, a)
  /\ m = [type |-> "CHAT", id |-> Len(written) + 1, date |-> Clock(a)]
NewReceipt(a, m) ==
  /\ written' = written /\ m.type = "ACK_CHAT"
  /\ \E b \in Pages : \E k \in Flight(b, a) : k \in received'[a] /\ m.id = k.id
FlightEffect(a, b) ==
  \A m \in Flight(a, b)' : m \in Flight(a, b) \/ NewMessage(a, m) \/ NewReceipt(a, m)

LEMMA Written ==
  ASSUME written \in Seq(Pages), NEW p \in Pages
  PROVE  /\ DOMAIN written = 1 .. Len(written) /\ Len(written) \in Nat
         /\ DOMAIN Append(written, p) = DOMAIN written \cup {Len(written) + 1}
         /\ Len(written) + 1 \notin DOMAIN written
         /\ Append(written, p)[Len(written) + 1] = p
         /\ \A id \in DOMAIN written : Append(written, p)[id] = written[id]
OBVIOUS

LEMMA HeadHas ==
  ASSUME TypesInv, PagesInv, NEW p \in Pages, NEW q \in Pages, NEW type, Takes(p, q, type)
  PROVE  /\ Head(wire[q][p]) \in DataMessage /\ Head(wire[q][p]) \in Flight(q, p)
         /\ Head(wire[q][p]).type = type /\ here[p] = "in" /\ q \in DOMAIN users[p] /\ q # p
         /\ wire \in Wires /\ Taken(p, q) \in Wires
         /\ \A a, b \in Pages :
              /\ Range(Taken(p, q)[a][b]) \subseteq Range(wire[a][b])
              /\ Range(wire[a][b]) \subseteq
                   Range(Taken(p, q)[a][b]) \cup (IF a = q /\ b = p THEN {Head(wire[q][p])} ELSE {})
<1>1. wire \in Wires /\ wire[q][p] # <<>> /\ channel[p][q] = "open"
      /\ Head(wire[q][p]).type = type
  BY DEF TypesInv, ChatTypeOK, Wires, Takes
<1>2. here[p] = "in" /\ q \in DOMAIN users[p] /\ q # p
  BY <1>1 DEF PagesInv, OpenListed, TypesInv, ChatTypeOK
<1> QED
  BY <1>1, <1>2, Taking DEF Flight

LEMMA StepsOnward ==
  ASSUME TypesInv, [Next]_chatVars
  PROVE  Onward
<1>1. here \in [Pages -> {"out", "in", "left"}]
  BY DEF TypesInv, ChatTypeOK
<1>2. \/ here' = here
      \/ \E p \in Pages : here[p] = "out" /\ here' = [here EXCEPT ![p] = "in"]
      \/ \E p \in Pages : here[p] = "in" /\ here' = [here EXCEPT ![p] = "left"]
  <2>1. Tick \/ UNCHANGED chatVars => here' = here
    BY DEF Tick, chatVars
  <2>2. \A p \in Pages : PageStep(p) => here' = here \/ Enter(p) \/ Leave(p)
    BY DEF PageStep, onSendMessage
  <2>3. ASSUME NEW p \in Pages, NEW q \in Pages, PairStep(p, q)
        PROVE  here' = here
    <3>1. OnUserAdded(p, q) \/ OnUserRemoved(p, q) => here' = here
      BY DEF OnUserAdded, OnUserRemoved
    <3>2. Opens(p, q) \/ Fails(p, q) => here' = here
      BY DEF Opens, Fails
    <3>3. OnChat(p, q) \/ OnAck(p, q) => here' = here
      BY DEF OnChat, OnAck, Takes
    <3> QED
      BY <2>3, <3>1, <3>2, <3>3 DEF PairStep, Hears
  <2>4. here' = here \/ \E p \in Pages : Enter(p) \/ Leave(p)
    BY <2>1, <2>2, <2>3 DEF Next
  <2> QED
    BY <2>4 DEF Enter, Leave
<1> QED
  BY <1>1, <1>2 DEF Onward

LEMMA StepsFlight ==
  ASSUME TypesInv, PagesInv, [Next]_chatVars, NEW a \in Pages, NEW b \in Pages
  PROVE  FlightEffect(a, b)
<1>1. wire \in Wires /\ written \in Seq(Pages)
  BY DEF TypesInv, ChatTypeOK, Wires
<1>2. SUFFICES ASSUME NEW m \in Range(wire'[a][b])
               PROVE  m \in Range(wire[a][b]) \/ NewMessage(a, m) \/ NewReceipt(a, m)
  BY DEF FlightEffect, Flight
<1>3. CASE wire' = wire
  BY <1>2, <1>3
<1>4. ASSUME NEW p \in Pages, Leave(p)
      PROVE  m \in Range(wire[a][b])
  <2>1. wire'[a][b] = IF b = p THEN <<>> ELSE wire[a][b]
    BY <1>1, <1>4 DEF Leave, Wires
  <2> QED
    BY <1>2, <2>1 DEF Range
<1>5. ASSUME NEW p \in Pages, NEW q \in Pages, OnUserRemoved(p, q)
      PROVE  m \in Range(wire[a][b])
  <2>1. <<>> \in Seq(DataMessage)
    OBVIOUS
  <2>2. wire'[a][b] = IF a = q /\ b = p THEN <<>> ELSE wire[a][b]
    <3> DEFINE W == [wire EXCEPT ![q][p] = <<>>]
    <3>1. \A x, y \in Pages : W[x][y] = IF x = q /\ y = p THEN <<>> ELSE wire[x][y]
      <4>1. \A s \in Seq(DataMessage) :
              /\ [wire EXCEPT ![q][p] = s] \in Wires
              /\ \A x, y \in Pages :
                   [wire EXCEPT ![q][p] = s][x][y] = IF x = q /\ y = p THEN s ELSE wire[x][y]
        BY <1>1, Removing
      <4> QED
        BY <2>1, <4>1, Zenon
    <3>2. wire' = W
      BY <1>5 DEF OnUserRemoved
    <3> HIDE DEF W
    <3> QED
      BY <3>1, <3>2
  <2> QED
    BY <1>2, <2>2 DEF Range
<1>6. ASSUME NEW p \in Pages, onSendMessage(p)
      PROVE  m \in Range(wire[a][b]) \/ NewMessage(a, m)
  <2> DEFINE k == [type |-> "CHAT", id |-> Len(written) + 1, date |-> Clock(p)]
  <2>1. k \in DataMessage
    BY <1>1, <1>6, Dated, ChatBoundsAssumption DEF onSendMessage, Ids, DataMessage, TypesInv
  <2>2. wire' = Sent(wire, p, k) /\ written' = Append(written, p)
    BY <1>6 DEF onSendMessage
  <2>3. m \in Range(wire[a][b]) \/ (a = p /\ m = k)
    <3> HIDE DEF k
    <3>1. Adds(wire, wire', p, k)
      BY <1>1, <2>1, <2>2, Sending
    <3> QED
      BY <1>2, <3>1 DEF Adds
  <2> QED
    BY <2>2, <2>3 DEF NewMessage
<1>7. ASSUME NEW p \in Pages, NEW q \in Pages, OnChat(p, q)
      PROVE  m \in Range(wire[a][b]) \/ NewReceipt(a, m)
  <2> DEFINE h == Head(wire[q][p])
             k == [type |-> "ACK_CHAT", id |-> h.id]
  <2>1. /\ Takes(p, q, "CHAT") /\ wire' = Sent(Taken(p, q), p, k) /\ written' = written
        /\ received' = [received EXCEPT ![p] = @ \cup {h}]
    BY <1>7 DEF OnChat, Takes
  <2>2. /\ h \in DataMessage /\ h \in Flight(q, p) /\ Taken(p, q) \in Wires
        /\ Range(Taken(p, q)[a][b]) \subseteq Range(wire[a][b])
    <3> HIDE DEF k
    <3>1. Takes(p, q, "CHAT")
      BY <2>1
    <3>2. h \in DataMessage /\ h \in Flight(q, p) /\ Taken(p, q) \in Wires
      BY ONLY TypesInv, PagesInv, p \in Pages, q \in Pages, <3>1, HeadHas
    <3>3. \A x, y \in Pages : Range(Taken(p, q)[x][y]) \subseteq Range(wire[x][y])
      BY ONLY TypesInv, PagesInv, p \in Pages, q \in Pages, <3>1, HeadHas
    <3> QED
      BY <1>1, <3>2, <3>3
  <2>3. k \in DataMessage /\ h \in received'[p]
    BY <2>1, <2>2 DEF DataMessage, TypesInv, ChatTypeOK
  <2>4. m \in Range(wire[a][b]) \/ (a = p /\ m = k)
    <3> HIDE DEF k
    <3> DEFINE W == Taken(p, q)
    <3> HIDE DEF W
    <3>1. Adds(W, wire', p, k)
      BY <2>1, <2>2, <2>3, Sending DEF W
    <3> QED
      BY <1>2, <2>1, <2>2, <3>1 DEF W, Adds
  <2>5. m = k => m.type = "ACK_CHAT" /\ m.id = h.id
    OBVIOUS
  <2> HIDE DEF h, k
  <2> QED
    BY <2>1, <2>2, <2>3, <2>4, <2>5 DEF NewReceipt
<1>8. ASSUME NEW p \in Pages, NEW q \in Pages, OnAck(p, q)
      PROVE  m \in Range(wire[a][b])
  <2>1. Takes(p, q, "ACK_CHAT") /\ wire' = Taken(p, q)
    BY <1>8 DEF OnAck
  <2> QED
    BY <1>2, <2>1, HeadHas
<1>9. ASSUME NEW p \in Pages, NEW q \in Pages, Fails(p, q)
      PROVE  m \in Range(wire[a][b])
  BY <1>1, <1>2, <1>9, Failing
<1> QED
  BY <1>3, <1>4, <1>5, <1>6, <1>7, <1>8, <1>9
     DEF Next, PageStep, PairStep, Hears, Tick, Enter, OnUserAdded, Opens, chatVars, netVars

LEMMA PostsOne ==
  ASSUME TypesInv, NEW p \in Pages, NEW line, Posts(p, line)
  PROVE  \A q \in Pages : log'[q] = IF q = p THEN Posted(log[p], line) ELSE log[q]
BY DEF Posts, TypesInv, ChatTypeOK

LEMMA StepsLog ==
  ASSUME TypesInv, PagesInv, [Next]_chatVars, NEW a \in Pages
  PROVE  LogEffect(a)
<1> USE DEF chatHistory
<1>1. /\ here \in [Pages -> {"out", "in", "left"}] /\ users \in [Pages -> Marks]
      /\ log \in [Pages -> Seq(Line)] /\ received \in [Pages -> SUBSET DataMessage]
  BY DEF TypesInv, ChatTypeOK
<1>2. ASSUME log'[a] = log[a], DOMAIN users'[a] = DOMAIN users[a], UNCHANGED <<here, chatHistory>>
      PROVE  LogEffect(a)
  BY <1>2 DEF Stays, LogEffect
<1>3. ASSUME NEW p \in Pages, Enter(p)
      PROVE  LogEffect(a)
  <2>1. here[p] = "out" /\ here' = [here EXCEPT ![p] = "in"] /\ UNCHANGED chatHistory
        /\ users' = [users EXCEPT ![p] = [q \in Present |-> 0]]
    BY <1>3 DEF Enter
  <2>2. CASE a # p
    <3>1. log'[a] = log[a]
      BY <1>3, <2>2, PostsOne DEF Enter
    <3> QED
      BY <1>1, <2>1, <2>2, <3>1 DEF Stays, LogEffect
  <2>3. CASE a = p /\ Present = {}
    <3>1. log' = log
      BY <1>3, <2>3 DEF Enter
    <3>2. DOMAIN users[p] = {}
      BY <2>1 DEF PagesInv, NothingYet
    <3>3. DOMAIN users'[p] = {}
      BY <1>1, <2>1, <2>3
    <3> QED
      BY <1>1, <2>1, <2>3, <3>1, <3>2, <3>3 DEF Stays, LogEffect
  <2>4. CASE a = p /\ Present # {}
    <3>1. log'[p] = Posted(log[p], News(p))
      BY <1>3, <2>4, PostsOne DEF Enter
    <3> QED
      BY <1>1, <2>1, <2>4, <3>1 DEF Announces, SameHistory, LogEffect
  <2> QED
    BY <2>2, <2>3, <2>4
<1>4. ASSUME NEW p \in Pages, Leave(p)
      PROVE  LogEffect(a)
  <2>1. /\ here[p] = "in" /\ here' = [here EXCEPT ![p] = "left"] /\ UNCHANGED <<users, chatHistory>>
        /\ log' = [log EXCEPT ![p] = <<>>]
    BY <1>4 DEF Leave
  <2>2. a # p => Stays(a)
    BY <1>1, <2>1 DEF Stays
  <2>3. a = p => Clears(a)
    BY <1>1, <2>1 DEF Clears, SameHistory
  <2> QED
    BY <2>2, <2>3 DEF LogEffect
<1>5. ASSUME NEW p \in Pages, onSendMessage(p)
      PROVE  LogEffect(a)
  <2>1. /\ here[p] = "in" /\ UNCHANGED <<here, users, received>> /\ written' = Append(written, p)
        /\ Len(written) < MaxMessages
        /\ Posts(p, [id |-> Len(written) + 1, date |-> Clock(p)])
    BY <1>5 DEF onSendMessage
  <2>2. log'[a] = IF a = p THEN Posted(log[p], [id |-> Len(written) + 1, date |-> Clock(p)])
                  ELSE log[a]
    BY <2>1, PostsOne
  <2>3. a # p => Stays(a)
    BY <1>1, <2>1, <2>2 DEF Stays
  <2>4. a = p => Writes(a)
    BY <1>1, <2>1, <2>2 DEF Writes
  <2> QED
    BY <2>3, <2>4 DEF LogEffect
<1>6. ASSUME NEW p \in Pages, NEW q \in Pages, OnUserAdded(p, q) \/ OnUserRemoved(p, q)
      PROVE  LogEffect(a)
  <2>1. here[p] = "in" /\ UNCHANGED <<here, chatHistory>> /\ Posts(p, News(p))
    BY <1>6 DEF OnUserAdded, OnUserRemoved
  <2>2. log'[a] = IF a = p THEN Posted(log[p], News(p)) ELSE log[a]
    BY <2>1, PostsOne
  <2>3. a # p => users'[a] = users[a]
    BY <1>1, <1>6 DEF OnUserAdded, OnUserRemoved
  <2>4. a # p => Stays(a)
    BY <2>1, <2>2, <2>3 DEF Stays
  <2>5. a = p => Announces(a)
    BY <2>1, <2>2 DEF Announces, SameHistory
  <2> QED
    BY <2>4, <2>5 DEF LogEffect
<1>7. ASSUME NEW p \in Pages, NEW q \in Pages, NEW id, users' = [users EXCEPT ![p][q] = id]
      PROVE  DOMAIN users'[a] = DOMAIN users[a]
  BY <1>1, <1>7
<1>8. ASSUME NEW p \in Pages, NEW q \in Pages, OnChat(p, q)
      PROVE  LogEffect(a)
  <2> DEFINE m == Head(wire[q][p])
  <2>1. /\ Takes(p, q, "CHAT") /\ UNCHANGED <<here, written>>
        /\ Posts(p, [id |-> m.id, date |-> m.date]) /\ users' = [users EXCEPT ![p][q] = m.id]
        /\ received' = [received EXCEPT ![p] = @ \cup {m}]
    BY <1>8 DEF OnChat, Takes
  <2>2. m \in Flight(q, p) /\ m.type = "CHAT" /\ here[p] = "in" /\ q \in DOMAIN users[p]
    BY <2>1, HeadHas
  <2>3. log'[a] = IF a = p THEN Posted(log[p], [id |-> m.id, date |-> m.date]) ELSE log[a]
    BY <2>1, PostsOne
  <2>4. DOMAIN users'[a] = DOMAIN users[a]
    BY <1>7, <2>1
  <2> HIDE DEF m
  <2>5. a # p => Stays(a)
    BY <1>1, <2>1, <2>3, <2>4 DEF Stays
  <2>6. a = p => Receives(a)
    BY <1>1, <2>1, <2>2, <2>3 DEF Receives
  <2> QED
    BY <2>5, <2>6 DEF LogEffect
<1>9. ASSUME NEW p \in Pages, NEW q \in Pages, OnAck(p, q)
      PROVE  LogEffect(a)
  <2>1. /\ UNCHANGED <<here, written, log, received>>
        /\ users' = [users EXCEPT ![p][q] = Head(wire[q][p]).id]
    BY <1>9 DEF OnAck, Takes
  <2>2. DOMAIN users'[a] = DOMAIN users[a]
    BY <1>7, <2>1
  <2> QED
    BY <2>1, <2>2 DEF Stays, LogEffect
<1>10. ASSUME NEW p \in Pages, NEW q \in Pages, Opens(p, q) \/ Fails(p, q)
       PROVE  LogEffect(a)
  BY <1>2, <1>10 DEF Opens, Fails
<1>11. CASE Tick \/ UNCHANGED chatVars
  BY <1>2, <1>11 DEF Tick, chatVars
<1> QED
  BY <1>3, <1>4, <1>5, <1>6, <1>8, <1>9, <1>10, <1>11 DEF Next, PageStep, PairStep, Hears

LEMMA StepsMark ==
  ASSUME TypesInv, PagesInv, [Next]_chatVars, NEW a \in Pages
  PROVE  MarkEffect(a)
<1>1. /\ here \in [Pages -> {"out", "in", "left"}] /\ users \in [Pages -> Marks]
      /\ \A q \in Pages : q \notin DOMAIN users[q]
  BY DEF TypesInv, ChatTypeOK
<1>2. users'[a] = users[a] => MarkEffect(a)
  BY DEF MarkEffect
<1>3. ASSUME NEW p \in Pages, Enter(p)
      PROVE  MarkEffect(a)
  <2>1. users' = [users EXCEPT ![p] = [q \in Present |-> 0]]
    BY <1>3 DEF Enter
  <2>2. a = p => users'[a] = [q \in Present |-> 0]
    BY <1>1, <2>1
  <2>3. a # p => users'[a] = users[a]
    BY <1>1, <2>1
  <2> QED
    BY <1>2, <2>2, <2>3 DEF MarkEffect, Present
<1>4. ASSUME NEW p \in Pages, NEW q \in Pages, OnUserAdded(p, q)
      PROVE  MarkEffect(a)
  <2>1. users' = [users EXCEPT ![p] = [r \in DOMAIN @ \cup {q} |-> IF r = q THEN 0 ELSE @[r]]]
        /\ here[q] # "out"
    BY <1>4 DEF OnUserAdded
  <2>2. a = p => users'[a] = [r \in DOMAIN users[a] \cup {q} |-> IF r = q THEN 0 ELSE users[a][r]]
    BY <1>1, <2>1
  <2>3. a # p => users'[a] = users[a]
    BY <1>1, <2>1
  <2> QED
    BY <1>2, <2>1, <2>2, <2>3 DEF MarkEffect
<1>5. ASSUME NEW p \in Pages, NEW q \in Pages, OnUserRemoved(p, q)
      PROVE  MarkEffect(a)
  <2>1. users' = [users EXCEPT ![p] = Restrict(@, DOMAIN @ \ {q})]
    BY <1>5 DEF OnUserRemoved
  <2>2. a = p => users'[a] = [r \in DOMAIN users[a] \ {q} |-> users[a][r]]
    BY <1>1, <2>1 DEF Restrict
  <2>3. a # p => users'[a] = users[a]
    BY <1>1, <2>1
  <2> QED
    BY <1>2, <2>2, <2>3 DEF MarkEffect
<1>6. ASSUME NEW p \in Pages, NEW q \in Pages, NEW type, Takes(p, q, type),
             users' = [users EXCEPT ![p][q] = Head(wire[q][p]).id]
      PROVE  MarkEffect(a)
  <2>1. Head(wire[q][p]) \in Flight(q, p) /\ q \in DOMAIN users[p]
    BY <1>6, HeadHas
  <2>2. a = p => users'[a] = [users[a] EXCEPT ![q] = Head(wire[q][p]).id]
    BY <1>1, <1>6
  <2>3. a # p => users'[a] = users[a]
    BY <1>1, <1>6
  <2>4. ASSUME a = p
        PROVE  MarkEffect(a)
    <3>1. \A r \in DOMAIN users'[a] :
            r \in DOMAIN users[a] /\ (users'[a][r] = users[a][r] \/ (r = q /\ users'[a][r] = Head(wire[q][p]).id))
      BY <2>2, <2>4
    <3> QED
      BY <2>1, <2>4, <3>1 DEF MarkEffect
  <2> QED
    BY <1>2, <2>3, <2>4
<1>7. ASSUME NEW p \in Pages, NEW q \in Pages, OnChat(p, q) \/ OnAck(p, q)
      PROVE  MarkEffect(a)
  BY <1>6, <1>7 DEF OnChat, OnAck
<1>8. users' = users => MarkEffect(a)
  BY <1>2
<1> QED
  BY <1>3, <1>4, <1>5, <1>7, <1>8
     DEF Next, PageStep, PairStep, Hears, Tick, Leave, onSendMessage, Opens, Fails, chatVars

LEMMA Listed ==
  ASSUME TypesInv, NEW p \in Pages
  PROVE  DOMAIN users[p] \subseteq Pages /\ users[p] \in [DOMAIN users[p] -> {0} \cup Ids]
<1>1. PICK S \in SUBSET Pages : users[p] \in [S -> {0} \cup Ids]
  BY MarksAre DEF TypesInv, ChatTypeOK
<1> QED
  BY <1>1

LEMMA InFlight ==
  ASSUME TypesInv, NEW a \in Pages, NEW b \in Pages, NEW m \in Flight(a, b)
  PROVE  /\ m \in DataMessage /\ m.id \in Ids /\ m.id # 0 /\ m.type \in {"CHAT", "ACK_CHAT"}
         /\ m.type = "CHAT" => [id |-> m.id, date |-> m.date] \in Line
<1>1. wire[a][b] \in Seq(DataMessage)
  BY DEF TypesInv, ChatTypeOK
<1>2. m \in DataMessage
  BY <1>1 DEF Flight, Range
<1>3. m.id \in Ids /\ m.type \in {"CHAT", "ACK_CHAT"} /\ (m.type = "CHAT" => m.date \in Dates)
  BY <1>2 DEF DataMessage
<1>4. m.id # 0
  BY <1>3, ChatBoundsAssumption DEF Ids
<1> QED
  BY <1>2, <1>3, <1>4 DEF Line

\* The log a line has been posted to.
LEMMA Grown ==
  ASSUME TypesInv, NEW p \in Pages, NEW line \in Line, log'[p] = Posted(log[p], line)
  PROVE  /\ log'[p] # <<>>
         /\ log[p] = <<>> => log'[p][1] = line /\ Ids0(log'[p]) = {line.id}
         /\ log[p] # <<>> => log'[p][1] = log[p][1] /\ log[p][1].date \in Nat /\ line.date \in Nat
         /\ log[p] # <<>> /\ line.date < log[p][1].date => Ids0(log'[p]) = Ids0(log[p])
         /\ log[p] # <<>> /\ line.date >= log[p][1].date =>
              Ids0(log'[p]) = Ids0(log[p]) \cup {line.id}
<1>1. log[p] \in Seq(Line) /\ InOrder(log[p])
  BY DEF TypesInv, ChatTypeOK, LogSorted, InOrder
<1>2. CASE log[p] = <<>>
  <2>1. log'[p] = <<line>>
    BY <1>1, <1>2, PostedLines
  <2>2. Ids0(<<line>>) = {line.id}
    BY DEF Ids0
  <2> QED
    BY <1>2, <2>1, <2>2
<1>3. CASE log[p] # <<>>
  <2>1. log[p][1] \in Line
    BY <1>1, <1>3
  <2>2. log[p][1].date \in Nat /\ line.date \in Nat
    BY <2>1, DatesAreNaturals
  <2> QED
    BY <1>1, <1>3, <2>2, PostedLines
<1> QED
  BY <1>2, <1>3

\* The line that a page is told, announces or writes is one.
LEMMA LineOf ==
  ASSUME TypesInv, NEW p \in Pages
  PROVE  /\ Announces(p) => News(p) \in Line /\ News(p).id = 0 /\ News(p).date = Clock(p)
         /\ Writes(p) => [id |-> Len(written) + 1, date |-> Clock(p)] \in Line
         /\ Receives(p) =>
              \E q \in DOMAIN users[p] : \E m \in Flight(q, p) :
                /\ q \in Pages \ {p} /\ m \in DataMessage /\ m.id # 0
                /\ [id |-> m.id, date |-> m.date] \in Line
                /\ m.type = "CHAT" /\ received'[p] = received[p] \cup {m}
                /\ log'[p] = Posted(log[p], [id |-> m.id, date |-> m.date])
<1>1. News(p) \in Line /\ News(p).id = 0 /\ News(p).date = Clock(p) /\ Clock(p) \in Dates
  BY Dated DEF TypesInv
<1>2. Writes(p) => [id |-> Len(written) + 1, date |-> Clock(p)] \in Line
  BY <1>1, ChatBoundsAssumption DEF Writes, Line, Ids, TypesInv, ChatTypeOK
<1>3. ASSUME Receives(p)
      PROVE  \E q \in DOMAIN users[p] : \E m \in Flight(q, p) :
                /\ q \in Pages \ {p} /\ m \in DataMessage /\ m.id # 0
                /\ [id |-> m.id, date |-> m.date] \in Line
                /\ m.type = "CHAT" /\ received'[p] = received[p] \cup {m}
                /\ log'[p] = Posted(log[p], [id |-> m.id, date |-> m.date])
  <2>1. PICK q \in DOMAIN users[p] : \E m \in Flight(q, p) :
          /\ m.type = "CHAT" /\ received'[p] = received[p] \cup {m}
          /\ log'[p] = Posted(log[p], [id |-> m.id, date |-> m.date])
    BY <1>3 DEF Receives
  <2>2. PICK m \in Flight(q, p) :
          /\ m.type = "CHAT" /\ received'[p] = received[p] \cup {m}
          /\ log'[p] = Posted(log[p], [id |-> m.id, date |-> m.date])
    BY <2>1
  <2>3. q \in Pages /\ q # p
    BY Listed DEF TypesInv, ChatTypeOK
  <2>4. m \in DataMessage /\ m.id # 0 /\ [id |-> m.id, date |-> m.date] \in Line
    BY <2>2, <2>3, InFlight
  <2> QED
    BY <2>2, <2>3, <2>4
<1> QED
  BY <1>1, <1>2, <1>3

LEMMA StepsOpen ==
  ASSUME TypesInv, PagesInv, [Next]_chatVars
  PROVE  OpenListed'
<1>1. /\ here \in [Pages -> {"out", "in", "left"}] /\ users \in [Pages -> Marks]
      /\ channel \in [Pages -> [Pages -> {"new", "open", "closed"}]] /\ OpenListed
  BY DEF TypesInv, ChatTypeOK, PagesInv
<1>2. SUFFICES ASSUME NEW a \in Pages, NEW b \in Pages, channel'[a][b] = "open"
               PROVE  here'[a] = "in" /\ b \in DOMAIN users'[a]
  BY DEF OpenListed
<1>3. channel[a][b] = "open" => here[a] = "in" /\ b \in DOMAIN users[a]
  BY <1>1 DEF OpenListed
<1> DEFINE Listing == here'[a] = "in" /\ b \in DOMAIN users'[a]
<1>4. ASSUME NEW p \in Pages, Enter(p)
      PROVE  Listing
  BY <1>1, <1>2, <1>3, <1>4 DEF Enter, netVars
<1>5. ASSUME NEW p \in Pages, Leave(p)
      PROVE  Listing
  <2>1. channel' = [channel EXCEPT ![p] = [q \in Pages |-> "closed"]] /\ users' = users
        /\ here' = [here EXCEPT ![p] = "left"]
    BY <1>5 DEF Leave
  <2>2. a # p
    BY <1>1, <1>2, <2>1
  <2> QED
    BY <1>1, <1>2, <1>3, <2>1, <2>2
<1>6. ASSUME NEW p \in Pages, NEW q \in Pages, OnUserAdded(p, q)
      PROVE  Listing
  BY <1>1, <1>2, <1>3, <1>6 DEF OnUserAdded, netVars
<1>7. ASSUME NEW p \in Pages, NEW q \in Pages, OnUserRemoved(p, q)
      PROVE  Listing
  <2>1. channel' = [channel EXCEPT ![p][q] = "closed"] /\ here' = here
        /\ users' = [users EXCEPT ![p] = Restrict(@, DOMAIN @ \ {q})]
    BY <1>7 DEF OnUserRemoved
  <2>2. ~(a = p /\ b = q) /\ channel[a][b] = "open"
    BY <1>1, <1>2, <2>1
  <2> QED
    BY <1>1, <1>3, <2>1, <2>2 DEF Restrict
<1>8. ASSUME NEW p \in Pages, NEW q \in Pages, Opens(p, q)
      PROVE  Listing
  <2>1. channel' = [channel EXCEPT ![p][q] = "open"] /\ UNCHANGED <<here, users>>
        /\ here[p] = "in" /\ q \in DOMAIN users[p]
    BY <1>8 DEF Opens
  <2>2. (a = p /\ b = q) \/ channel[a][b] = "open"
    BY <1>1, <1>2, <2>1
  <2> QED
    BY <1>3, <2>1, <2>2
<1>9. ASSUME NEW p \in Pages, NEW q \in Pages, OnChat(p, q) \/ OnAck(p, q)
      PROVE  Listing
  <2>1. users' = [users EXCEPT ![p][q] = Head(wire[q][p]).id] /\ UNCHANGED <<here, channel>>
    BY <1>9 DEF OnChat, OnAck, Takes
  <2>2. DOMAIN users'[a] = DOMAIN users[a]
    BY <1>1, <2>1
  <2> QED
    BY <1>2, <1>3, <2>1, <2>2
<1>10. ASSUME UNCHANGED <<here, users, channel>>
       PROVE  Listing
  BY <1>2, <1>3, <1>10
<1>11. ASSUME NEW p \in Pages, NEW q \in Pages, Fails(p, q)
       PROVE  Listing
  <2>1. channel' = [channel EXCEPT ![p][q] = "closed"] /\ UNCHANGED <<here, users>>
    BY <1>11 DEF Fails
  <2>2. channel[a][b] = "open"
    BY <1>1, <1>2, <2>1
  <2> QED
    BY <1>3, <2>1, <2>2
<1> QED
  BY <1>4, <1>5, <1>6, <1>7, <1>8, <1>9, <1>10, <1>11
     DEF Next, PageStep, PairStep, Hears, Tick, onSendMessage, chatVars, netVars

LEMMA PagesHold ==
  ASSUME TypesInv, TypesInv', PagesInv, [Next]_chatVars
  PROVE  PagesInv'
<1>1. Onward /\ OpenListed' /\ KnownPages /\ NothingYet
  BY StepsOnward, StepsOpen DEF PagesInv
<1>2. KnownPages'
  <2> SUFFICES ASSUME NEW p \in Pages, NEW q \in DOMAIN users'[p]
               PROVE  here'[q] # "out"
    BY DEF KnownPages
  <2>1. MarkEffect(p)
    BY StepsMark
  <2>2. PICK S \in SUBSET Pages : users'[p] \in [S -> {0} \cup Ids]
    BY MarksAre DEF TypesInv, ChatTypeOK
  <2>3. q \in Pages
    BY <2>2
  <2>4. here[q] # "out"
    BY <1>1, <2>1 DEF MarkEffect, KnownPages
  <2> QED
    BY <1>1, <2>3, <2>4 DEF Onward
<1>3. NothingYet'
  <2> SUFFICES ASSUME NEW p \in Pages
               PROVE  /\ here'[p] = "out" => log'[p] = <<>>
                      /\ here'[p] # "left" /\ log'[p] = <<>> =>
                           /\ DOMAIN users'[p] = {} /\ received'[p] = {}
                           /\ \A id \in DOMAIN written' : written'[id] # p
    BY DEF NothingYet
  <2>1. LogEffect(p)
    BY StepsLog
  <2>2. CASE Stays(p)
    <3>1. here[p] = "left" => here'[p] = "left"
      BY <1>1 DEF Onward
    <3>2. here'[p] = "out" => here[p] = "out"
      BY <1>1 DEF Onward
    <3>3. (\A id \in DOMAIN written : written[id] # p) =>
            \A id \in DOMAIN written' : written'[id] # p
      <4>1. CASE written' = written
        BY <4>1
      <4>2. ASSUME NEW q \in Pages \ {p}, written' = Append(written, q)
            PROVE  (\A id \in DOMAIN written : written[id] # p) =>
                     \A id \in DOMAIN written' : written'[id] # p
        <5>1. written \in Seq(Pages)
          BY DEF TypesInv, ChatTypeOK
        <5>2. /\ DOMAIN written' = DOMAIN written \cup {Len(written) + 1}
              /\ written'[Len(written) + 1] = q
              /\ \A id \in DOMAIN written : written'[id] = written[id]
          BY <4>2, <5>1, Written
        <5> QED
          BY <5>2
      <4> QED
        BY <2>2, <4>1, <4>2 DEF Stays
    <3> QED
      BY <1>1, <2>2, <3>1, <3>2, <3>3 DEF Stays, NothingYet
  <2>3. CASE Clears(p)
    BY <2>3 DEF Clears
  <2>4. CASE Announces(p)
    <3>1. log'[p] # <<>>
      BY <2>4, LineOf, Grown DEF Announces
    <3> QED
      BY <2>4, <3>1 DEF Announces
  <2>5. CASE Writes(p)
    <3>1. log'[p] # <<>>
      BY <2>5, LineOf, Grown DEF Writes
    <3> QED
      BY <2>5, <3>1 DEF Writes
  <2>6. CASE Receives(p)
    <3>1. PICK line \in Line : log'[p] = Posted(log[p], line)
      BY <2>6, LineOf
    <3>2. log'[p] # <<>>
      BY <3>1, Grown
    <3> QED
      BY <2>6, <3>2 DEF Receives
  <2> QED
    BY <2>1, <2>2, <2>3, <2>4, <2>5, <2>6 DEF LogEffect
<1> QED
  BY <1>1, <1>2, <1>3 DEF PagesInv

-----------------------------------------------------------------------------
(* Marks are true *)

\* What is known of who wrote and received what is never forgotten.
LEMMA Remembered ==
  ASSUME TypesInv, PagesInv, [Next]_chatVars
  PROVE  /\ written' = written \/ \E a \in Pages : written' = Append(written, a)
         /\ \A id \in DOMAIN written : id \in DOMAIN written' /\ written'[id] = written[id]
         /\ \A p \in Pages : received[p] \subseteq received'[p]
         /\ \A p \in Pages : \A id : Has(p, id) => Has(p, id)'
<1>1. \A p \in Pages : LogEffect(p)
  BY StepsLog
<1>2. written' = written \/ \E a \in Pages : written' = Append(written, a)
  <2>1. Founder \in Pages
    BY PagesAssumption
  <2>2. LogEffect(Founder)
    BY <1>1, <2>1
  <2> QED
    BY <2>1, <2>2 DEF LogEffect, Stays, Clears, Announces, Writes, Receives, SameHistory
<1>3. \A id \in DOMAIN written : id \in DOMAIN written' /\ written'[id] = written[id]
  <2>1. written \in Seq(Pages)
    BY DEF TypesInv, ChatTypeOK
  <2>2. ASSUME NEW a \in Pages, written' = Append(written, a), NEW id \in DOMAIN written
        PROVE  id \in DOMAIN written' /\ written'[id] = written[id]
    BY <2>1, <2>2, Written
  <2> QED
    BY <1>2, <2>2
<1>4. \A p \in Pages : received[p] \subseteq received'[p]
  BY <1>1 DEF LogEffect, Stays, Clears, Announces, Writes, Receives, SameHistory
<1>5. \A p \in Pages : \A id : Has(p, id) => Has(p, id)'
  BY <1>4 DEF Has
<1> QED
  BY <1>2, <1>3, <1>4, <1>5

\* Whatever a page has been told lately was on its way to it.
LEMMA StepsReceived ==
  ASSUME TypesInv, PagesInv, [Next]_chatVars, NEW p \in Pages, NEW m \in received'[p]
  PROVE  m \in received[p] \/ \E q \in Pages \ {p} : m \in Flight(q, p) /\ m.type = "CHAT"
<1>1. LogEffect(p)
  BY StepsLog
<1>2. Receives(p) \/ received'[p] = received[p]
  BY <1>1 DEF LogEffect, Stays, Clears, Announces, Writes, SameHistory
<1>3. CASE Receives(p)
  <2>1. PICK q \in DOMAIN users[p] : \E k \in Flight(q, p) :
          q \in Pages \ {p} /\ k.type = "CHAT" /\ received'[p] = received[p] \cup {k}
    BY <1>3, LineOf
  <2> QED
    BY <2>1
<1> QED
  BY <1>2, <1>3

LEMMA MarksHold ==
  ASSUME TypesInv, PagesInv, MarksInv, [Next]_chatVars
  PROVE  MarksInv'
<1>1. FromWriters /\ ReceivedWritten /\ MarksTrue
  BY DEF MarksInv
<1>2. \A id \in DOMAIN written : id \in DOMAIN written' /\ written'[id] = written[id]
  BY Remembered
<1>3. \A p \in Pages : \A id : Has(p, id) => Has(p, id)'
  BY Remembered
<1>4. FromWriters'
  <2> SUFFICES ASSUME NEW a \in Pages, NEW b \in Pages, NEW m \in Flight(a, b)'
               PROVE  /\ m.id \in DOMAIN written'
                      /\ m.type = "CHAT" => written'[m.id] = a
                      /\ m.type = "ACK_CHAT" => Has(a, m.id)'
    BY DEF FromWriters
  <2>1. m \in Flight(a, b) \/ NewMessage(a, m) \/ NewReceipt(a, m)
    BY StepsFlight DEF FlightEffect
  <2>2. CASE m \in Flight(a, b)
    BY <1>1, <1>2, <1>3, <2>2 DEF FromWriters
  <2>3. CASE NewMessage(a, m)
    <3>1. m.id = Len(written) + 1 /\ m.type = "CHAT" /\ written' = Append(written, a)
      BY <2>3 DEF NewMessage
    <3> QED
      BY <3>1, Written DEF TypesInv, ChatTypeOK
  <2>4. CASE NewReceipt(a, m)
    <3>1. m.type = "ACK_CHAT"
      BY <2>4 DEF NewReceipt
    <3>2. PICK b0 \in Pages : \E k \in Flight(b0, a) : k \in received'[a] /\ m.id = k.id
      BY <2>4 DEF NewReceipt
    <3>3. PICK k \in Flight(b0, a) : k \in received'[a] /\ m.id = k.id
      BY <3>2
    <3>4. m.id \in DOMAIN written
      BY <1>1, <3>3 DEF FromWriters
    <3>5. Has(a, m.id)'
      BY <3>3 DEF Has
    <3> QED
      BY <1>2, <3>1, <3>4, <3>5
  <2> QED
    BY <2>1, <2>2, <2>3, <2>4
<1>5. ReceivedWritten'
  <2> SUFFICES ASSUME NEW p \in Pages, NEW m \in received'[p]
               PROVE  m.type = "CHAT" /\ m.id \in DOMAIN written' /\ written'[m.id] # p
    BY DEF ReceivedWritten
  <2>1. m.type = "CHAT" /\ m.id \in DOMAIN written /\ written[m.id] # p
    <3>1. CASE m \in received[p]
      BY <1>1, <3>1 DEF ReceivedWritten
    <3>2. ASSUME NEW q \in Pages \ {p}, m \in Flight(q, p), m.type = "CHAT"
          PROVE  m.type = "CHAT" /\ m.id \in DOMAIN written /\ written[m.id] # p
      BY <1>1, <3>2 DEF FromWriters
    <3> QED
      BY <3>1, <3>2, StepsReceived
  <2> QED
    BY <1>2, <2>1
<1>6. MarksTrue'
  <2> SUFFICES ASSUME NEW p \in Pages, NEW q \in DOMAIN users'[p], NEW id,
                      users'[p][q] = id, id # 0
               PROVE  id \in DOMAIN written' /\ (written'[id] = q \/ Has(q, id)')
    BY DEF MarksTrue
  <2>1. /\ q \in DOMAIN users[p]
        /\ users[p][q] = id \/ \E m \in Flight(q, p) : id = m.id
    BY StepsMark DEF MarkEffect
  <2>2. q \in Pages
    BY <2>1, Listed
  <2>3. id \in DOMAIN written /\ (written[id] = q \/ Has(q, id))
    <3>1. CASE users[p][q] = id
      BY <1>1, <2>1, <3>1 DEF MarksTrue
    <3>2. ASSUME NEW m \in Flight(q, p), id = m.id
          PROVE  id \in DOMAIN written /\ (written[id] = q \/ Has(q, id))
      <4>1. m.type \in {"CHAT", "ACK_CHAT"}
        BY <2>2, InFlight
      <4> QED
        BY <1>1, <2>2, <3>2, <4>1 DEF FromWriters
    <3> QED
      BY <2>1, <3>1, <3>2
  <2> QED
    BY <1>2, <1>3, <2>2, <2>3
<1> QED
  BY <1>4, <1>5, <1>6 DEF MarksInv

LEMMA InvariantsBegin ==
  Init => PagesInv /\ MarksInv /\ LinesInv /\ OwedUnderWay
<1> SUFFICES ASSUME Init
             PROVE  PagesInv /\ MarksInv /\ LinesInv /\ OwedUnderWay
  OBVIOUS
<1>1. DOMAIN <<>> = {} /\ Range(<<>>) = {}
  BY DEF Range
<1>2. \A a, b \in Pages : Flight(a, b) = {}
  BY <1>1 DEF Init, Flight
<1>3. \A p \in Pages : Ids0(log[p]) = {} /\ log[p] = <<>> /\ users[p] = <<>> /\ received[p] = {}
  BY <1>1 DEF Init, Ids0
<1>4. DOMAIN written = {} /\ DOMAIN owed = {}
  BY <1>1 DEF Init
<1>5. PagesInv
  BY <1>1, <1>3, <1>4 DEF Init, PagesInv, KnownPages, OpenListed, NothingYet
<1>6. MarksInv
  BY <1>1, <1>2, <1>3 DEF MarksInv, FromWriters, ReceivedWritten, MarksTrue
<1>7. LinesInv
  BY <1>2, <1>3, <1>4 DEF LinesInv, SameDate, Copy, BeginsOwn, OwnShown, ReceivedKept, ShownKnown
<1>8. OwedUnderWay
  BY <1>4 DEF OwedUnderWay
<1> QED
  BY <1>5, <1>6, <1>7, <1>8

\* Whoever is marked as having seen a message has written or received it.
THEOREM SeenMarksTrue == Spec => []ReceiptsTruthful
<1> DEFINE I == TypesInv /\ PagesInv /\ MarksInv
<1>1. Init => I
  BY TypesBegin, InvariantsBegin
<1>2. I /\ [Next]_chatVars => I'
  BY TypesHold, PagesHold, MarksHold
<1>3. I => ReceiptsTruthful
  <2> SUFFICES ASSUME MarksTrue, NEW p \in Present, NEW q \in DOMAIN users[p], users[p][q] # 0
               PROVE  written[users[p][q]] = q \/ \E m \in received[q] : m.id = users[p][q]
    BY DEF ReceiptsTruthful, MarksInv
  <2> QED
    BY DEF MarksTrue, Has, Present
<1> QED
  BY <1>1, <1>2, <1>3, PTL DEF Spec

-----------------------------------------------------------------------------
(* What a log shows *)

LEMMA CopiesWritten ==
  ASSUME MarksInv, NEW m, Copy(m)
  PROVE  m.id \in DOMAIN written
BY DEF MarksInv, FromWriters, ReceivedWritten, Copy

\* A copy that was not there before is of the message being written.
LEMMA StepsCopy ==
  ASSUME TypesInv, PagesInv, [Next]_chatVars, NEW m, Copy(m)'
  PROVE  Copy(m) \/ \E a \in Pages : NewMessage(a, m)
<1>1. m.type = "CHAT"
  BY DEF Copy
<1>2. ASSUME NEW a \in Pages, NEW b \in Pages, m \in Flight(a, b)'
      PROVE  Copy(m) \/ NewMessage(a, m)
  <2>1. m \in Flight(a, b) \/ NewMessage(a, m) \/ NewReceipt(a, m)
    BY <1>2, StepsFlight DEF FlightEffect
  <2>2. ~NewReceipt(a, m)
    BY <1>1 DEF NewReceipt
  <2> QED
    BY <1>1, <2>1, <2>2 DEF Copy
<1>3. ASSUME NEW p \in Pages, m \in received'[p]
      PROVE  Copy(m)
  BY <1>1, <1>3, StepsReceived DEF Copy
<1> QED
  BY <1>2, <1>3 DEF Copy

LEMMA DatesHold ==
  ASSUME TypesInv, PagesInv, MarksInv, SameDate, [Next]_chatVars
  PROVE  SameDate'
<1> SUFFICES ASSUME NEW m \in DataMessage, NEW k \in DataMessage, Copy(m)', Copy(k)', m.id = k.id
             PROVE  m.date = k.date
  BY DEF SameDate
<1>1. ASSUME NEW a \in Pages, NEW j, NewMessage(a, j)
      PROVE  /\ j.id \notin DOMAIN written /\ j.date = Clock(a)
             /\ j.id \in DOMAIN written' /\ written'[j.id] = a
  BY <1>1, Written DEF NewMessage, TypesInv, ChatTypeOK
<1>2. Copy(m) \/ \E a \in Pages : NewMessage(a, m)
  BY StepsCopy
<1>3. Copy(k) \/ \E a \in Pages : NewMessage(a, k)
  BY StepsCopy
<1>4. CASE Copy(m) /\ Copy(k)
  BY <1>4 DEF SameDate
<1>5. ASSUME Copy(m), NEW a \in Pages, NewMessage(a, k)
      PROVE  m.date = k.date
  BY <1>1, <1>5, CopiesWritten
<1>6. ASSUME Copy(k), NEW a \in Pages, NewMessage(a, m)
      PROVE  m.date = k.date
  BY <1>1, <1>6, CopiesWritten
<1>7. ASSUME NEW a \in Pages, NewMessage(a, m), NEW b \in Pages, NewMessage(b, k)
      PROVE  m.date = k.date
  <2>1. m.date = Clock(a) /\ written'[m.id] = a
    BY <1>1, <1>7
  <2>2. k.date = Clock(b) /\ written'[k.id] = b
    BY <1>1, <1>7
  <2> QED
    BY <2>1, <2>2
<1> QED
  BY <1>2, <1>3, <1>4, <1>5, <1>6, <1>7

\* A log that is not empty keeps its lines, and gains at most the one posted.
LEMMA Shows ==
  ASSUME TypesInv, NEW p \in Pages, NEW line \in Line, log'[p] = Posted(log[p], line)
  PROVE  /\ Ids0(log[p]) \subseteq Ids0(log'[p])
         /\ Ids0(log'[p]) \subseteq Ids0(log[p]) \cup {line.id}
         /\ log[p] = <<>> \/ line.date >= log[p][1].date => line.id \in Ids0(log'[p])
<1>1. Ids0(<<>>) = {}
  BY DEF Ids0
<1>2. CASE log[p] = <<>>
  BY <1>1, <1>2, Grown
<1>3. CASE log[p] # <<>>
  <2>1. line.date < log[p][1].date \/ line.date >= log[p][1].date
    BY <1>3, Grown
  <2>2. CASE line.date < log[p][1].date
    <3>1. ~(line.date >= log[p][1].date)
      BY <1>3, <2>2, Grown
    <3> QED
      BY <1>3, <2>2, <3>1, Grown
  <2>3. CASE line.date >= log[p][1].date
    <3>1. Ids0(log'[p]) = Ids0(log[p]) \cup {line.id}
      BY <1>3, <2>3, Grown
    <3> QED
      BY <3>1
  <2> QED
    BY <2>1, <2>2, <2>3
<1> QED
  BY <1>2, <1>3

LEMMA BeginsHold ==
  ASSUME TypesInv, TypesInv', PagesInv, BeginsOwn, [Next]_chatVars
  PROVE  BeginsOwn'
<1> SUFFICES ASSUME NEW p \in Pages, log'[p] # <<>>
             PROVE  log'[p][1].date <= Clock(p)'
  BY DEF BeginsOwn
<1>1. Clock(p) \in Nat /\ Clock(p)' \in Nat /\ Clock(p) <= Clock(p)'
  <2>1. now' = now \/ now' = now + 1
    <3>1. Tick \/ UNCHANGED chatVars => now' = now \/ now' = now + 1
      BY DEF Tick, chatVars
    <3>2. \A a \in Pages : PageStep(a) => now' = now
      BY DEF PageStep, Enter, Leave, onSendMessage
    <3>3. \A a, b \in Pages :
            /\ OnUserAdded(a, b) \/ OnUserRemoved(a, b) => now' = now
            /\ Opens(a, b) \/ Fails(a, b) => now' = now
      BY DEF OnUserAdded, OnUserRemoved, Opens, Fails
    <3>4. \A a, b \in Pages : OnChat(a, b) \/ OnAck(a, b) => now' = now
      BY DEF OnChat, OnAck, Takes
    <3> QED
      BY <3>1, <3>2, <3>3, <3>4 DEF Next, PairStep, Hears
  <2>2. now \in Nat /\ Skew \in Nat
    BY ChatBoundsAssumption DEF TypesInv, ChatTypeOK
  <2> QED
    BY <2>1, <2>2 DEF Clock
<1>2. log[p] # <<>> => log[p][1].date <= Clock(p)
  BY DEF BeginsOwn
<1>3. LogEffect(p)
  BY StepsLog
<1>4. ASSUME log[p] # <<>>, log'[p][1] = log[p][1], log[p][1].date \in Nat
      PROVE  log'[p][1].date <= Clock(p)'
  BY <1>1, <1>2, <1>4
<1>5. ASSUME NEW line \in Line, log'[p] = Posted(log[p], line), line.date = Clock(p) \/ log[p] # <<>>
      PROVE  log'[p][1].date <= Clock(p)'
  <2>1. CASE log[p] = <<>>
    <3>1. log'[p][1] = line /\ line.date = Clock(p)
      BY <1>5, <2>1, Grown
    <3> QED
      BY <1>1, <3>1
  <2>2. CASE log[p] # <<>>
    BY <1>4, <1>5, <2>2, Grown
  <2> QED
    BY <2>1, <2>2
<1>6. CASE Stays(p)
  <2>1. log[p] # <<>> /\ log'[p] = log[p]
    BY <1>6 DEF Stays
  <2>2. log[p][1] \in Line
    BY <2>1 DEF TypesInv, ChatTypeOK
  <2> QED
    BY <1>4, <2>1, <2>2, DatesAreNaturals
<1>7. CASE Clears(p)
  BY <1>7 DEF Clears
<1>8. CASE Announces(p)
  BY <1>5, <1>8, LineOf DEF Announces
<1>9. CASE Writes(p)
  <2> DEFINE line == [id |-> Len(written) + 1, date |-> Clock(p)]
  <2>1. line \in Line /\ log'[p] = Posted(log[p], line) /\ line.date = Clock(p)
    BY <1>9, LineOf DEF Writes
  <2> HIDE DEF line
  <2> QED
    BY <1>5, <2>1
<1>10. CASE Receives(p)
  <2>1. log[p] # <<>>
    BY <1>10 DEF Receives, PagesInv, NothingYet
  <2>2. PICK line \in Line : log'[p] = Posted(log[p], line)
    BY <1>10, LineOf
  <2> QED
    BY <1>5, <2>1, <2>2
<1> QED
  BY <1>3, <1>6, <1>7, <1>8, <1>9, <1>10 DEF LogEffect

\* Who has an empty log and is in has written and received nothing.
LEMMA EmptyLog ==
  ASSUME PagesInv, NEW p \in Pages, log[p] = <<>>, here[p] # "left"
  PROVE  DOMAIN users[p] = {} /\ received[p] = {} /\ \A id \in DOMAIN written : written[id] # p
BY DEF PagesInv, NothingYet

LEMMA CameIn ==
  ASSUME TypesInv, PagesInv, [Next]_chatVars, NEW p \in Pages, here'[p] = "in", here[p] # "in"
  PROVE  here[p] # "left" /\ log[p] = <<>>
<1>1. here[p] \in {"out", "in", "left"} /\ Onward
  BY StepsOnward DEF TypesInv, ChatTypeOK
<1>2. here[p] = "out"
  BY <1>1 DEF Onward
<1> QED
  BY <1>2 DEF PagesInv, NothingYet

LEMMA OwnHold ==
  ASSUME TypesInv, PagesInv, LinesInv, [Next]_chatVars
  PROVE  OwnShown'
<1> SUFFICES ASSUME NEW p \in Pages, here'[p] = "in", NEW id \in DOMAIN written', written'[id] = p
             PROVE  id \in Ids0(log'[p])
  BY DEF OwnShown, Ids0
<1>1. written \in Seq(Pages)
  BY DEF TypesInv, ChatTypeOK
<1>2. ASSUME id \in DOMAIN written, written[id] = p
      PROVE  id \in Ids0(log[p])
  <2>1. here[p] = "in"
    BY <1>2, CameIn, EmptyLog
  <2> QED
    BY <1>2, <2>1 DEF LinesInv, OwnShown
<1>3. LogEffect(p)
  BY StepsLog
<1>4. CASE Stays(p)
  <2>1. id \in DOMAIN written /\ written[id] = p
    BY <1>1, <1>4, Written DEF Stays
  <2> QED
    BY <1>2, <1>4, <2>1 DEF Stays
<1>5. CASE Clears(p)
  BY <1>5 DEF Clears
<1>6. CASE Announces(p)
  <2>1. id \in Ids0(log[p])
    BY <1>2, <1>6 DEF Announces, SameHistory
  <2>2. Ids0(log[p]) \subseteq Ids0(log'[p])
    BY <1>6, LineOf, Shows DEF Announces
  <2> QED
    BY <2>1, <2>2
<1>7. CASE Receives(p)
  <2>1. id \in Ids0(log[p])
    BY <1>2, <1>7 DEF Receives
  <2>2. PICK line \in Line : log'[p] = Posted(log[p], line)
    BY <1>7, LineOf
  <2>3. Ids0(log[p]) \subseteq Ids0(log'[p])
    BY <2>2, Shows
  <2> QED
    BY <2>1, <2>3
<1>8. CASE Writes(p)
  <2> DEFINE line == [id |-> Len(written) + 1, date |-> Clock(p)]
  <2>1. line \in Line /\ log'[p] = Posted(log[p], line)
    BY <1>8, LineOf DEF Writes
  <2>2. line.id = Len(written) + 1 /\ line.date = Clock(p)
    OBVIOUS
  <2> HIDE DEF line
  <2>3. /\ Ids0(log[p]) \subseteq Ids0(log'[p])
        /\ log[p] = <<>> \/ line.date >= log[p][1].date => line.id \in Ids0(log'[p])
    BY <2>1, Shows
  <2>4. log[p] = <<>> \/ line.date >= log[p][1].date
    <3>1. log[p] # <<>> => log[p][1].date <= Clock(p) /\ log[p][1].date \in Nat /\ line.date \in Nat
      BY <2>1, Grown DEF LinesInv, BeginsOwn
    <3> QED
      BY <2>2, <3>1
  <2>5. id = Len(written) + 1 \/ (id \in DOMAIN written /\ written[id] = p)
    BY <1>1, <1>8, Written DEF Writes
  <2> QED
    BY <1>2, <2>2, <2>3, <2>4, <2>5
<1> QED
  BY <1>3, <1>4, <1>5, <1>6, <1>7, <1>8 DEF LogEffect

LEMMA KnownHold ==
  ASSUME TypesInv, PagesInv, MarksInv, LinesInv, [Next]_chatVars
  PROVE  ShownKnown'
<1> SUFFICES ASSUME NEW p \in Pages, NEW id \in Ids0(log'[p]), id # 0
             PROVE  id \in DOMAIN written' /\ (written'[id] = p \/ Has(p, id)')
  BY DEF ShownKnown, Ids0
<1>1. ASSUME id \in Ids0(log[p])
      PROVE  id \in DOMAIN written' /\ (written'[id] = p \/ Has(p, id)')
  <2>1. id \in DOMAIN written /\ (written[id] = p \/ Has(p, id))
    BY <1>1 DEF LinesInv, ShownKnown
  <2> QED
    BY <2>1, Remembered
<1>2. LogEffect(p)
  BY StepsLog
<1>3. CASE Stays(p)
  BY <1>1, <1>3 DEF Stays
<1>4. CASE Clears(p)
  BY <1>4 DEF Clears, Ids0
<1>5. CASE Announces(p)
  <2>1. PICK line \in Line : log'[p] = Posted(log[p], line) /\ line.id = 0
    BY <1>5, LineOf DEF Announces
  <2>2. id \in Ids0(log[p]) \/ id = 0
    BY <2>1, Shows
  <2> QED
    BY <1>1, <2>2
<1>6. CASE Writes(p)
  <2> DEFINE line == [id |-> Len(written) + 1, date |-> Clock(p)]
  <2>1. line \in Line /\ log'[p] = Posted(log[p], line) /\ line.id = Len(written) + 1
    BY <1>6, LineOf DEF Writes
  <2> HIDE DEF line
  <2>2. id \in Ids0(log[p]) \/ id = Len(written) + 1
    BY <2>1, Shows
  <2>3. Len(written) + 1 \in DOMAIN written' /\ written'[Len(written) + 1] = p
    BY <1>6, Written DEF Writes, TypesInv, ChatTypeOK
  <2> QED
    BY <1>1, <2>2, <2>3
<1>7. CASE Receives(p)
  <2>1. PICK q \in DOMAIN users[p] : \E m \in Flight(q, p) :
          /\ q \in Pages \ {p} /\ m \in DataMessage /\ m.id # 0
          /\ [id |-> m.id, date |-> m.date] \in Line
          /\ m.type = "CHAT" /\ received'[p] = received[p] \cup {m}
          /\ log'[p] = Posted(log[p], [id |-> m.id, date |-> m.date])
    BY ONLY <1>7, TypesInv, p \in Pages, LineOf
  <2>2. PICK m \in Flight(q, p) :
          /\ q \in Pages /\ [id |-> m.id, date |-> m.date] \in Line
          /\ received'[p] = received[p] \cup {m}
          /\ log'[p] = Posted(log[p], [id |-> m.id, date |-> m.date])
    BY <2>1
  <2>3. PICK line \in Line : log'[p] = Posted(log[p], line) /\ line.id = m.id
    BY <2>2
  <2>4. id \in Ids0(log[p]) \/ id = m.id
    BY <2>3, Shows
  <2>5. Has(p, m.id)'
    BY <2>2 DEF Has
  <2>6. m.id \in DOMAIN written'
    BY <2>2, Remembered DEF MarksInv, FromWriters
  <2> QED
    BY <1>1, <2>4, <2>5, <2>6
<1> QED
  BY <1>2, <1>3, <1>4, <1>5, <1>6, <1>7 DEF LogEffect

LEMMA ReceivedHold ==
  ASSUME TypesInv, TypesInv', PagesInv, MarksInv, LinesInv, [Next]_chatVars
  PROVE  ReceivedKept'
<1> SUFFICES ASSUME NEW p \in Pages, here'[p] = "in", NEW m \in received'[p]
             PROVE  m.id \in Ids0(log'[p]) <=> m.date >= log'[p][1].date
  BY DEF ReceivedKept, Ids0
<1>1. m \in DataMessage /\ received[p] \subseteq DataMessage /\ written \in Seq(Pages)
  BY DEF TypesInv, ChatTypeOK
<1>2. \A k \in received[p] :
        Copy(k) /\ k.id \in DOMAIN written /\ k.id # 0 /\ written[k.id] # p
  <2>1. \A k \in received[p] : k.type = "CHAT" /\ k.id \in DOMAIN written /\ written[k.id] # p
    BY DEF MarksInv, ReceivedWritten
  <2>2. 0 \notin DOMAIN written
    BY <1>1
  <2> QED
    BY <2>1, <2>2 DEF Copy
<1>3. ASSUME NEW k \in received[p]
      PROVE  /\ here[p] # "left" => here[p] = "in" /\ log[p] # <<>>
             /\ here[p] = "in" => (k.id \in Ids0(log[p]) <=> k.date >= log[p][1].date)
  <2>1. here[p] \in {"out", "in", "left"}
    BY DEF TypesInv, ChatTypeOK
  <2>2. here[p] # "left" => here[p] = "in" /\ log[p] # <<>>
    BY <2>1, EmptyLog DEF PagesInv, NothingYet
  <2> QED
    BY <2>2 DEF LinesInv, ReceivedKept
<1>4. here[p] # "left"
  BY CameIn
<1>5. LogEffect(p)
  BY StepsLog
<1>6. CASE Stays(p)
  BY <1>3, <1>4, <1>6 DEF Stays
<1>7. CASE Clears(p)
  BY <1>7 DEF Clears
<1>8. ASSUME m \in received[p], NEW line \in Line, log'[p] = Posted(log[p], line), line.id # m.id
      PROVE  m.id \in Ids0(log'[p]) <=> m.date >= log'[p][1].date
  <2>1. log[p] # <<>> /\ (m.id \in Ids0(log[p]) <=> m.date >= log[p][1].date)
    BY <1>3, <1>4, <1>8
  <2>2. log'[p][1] = log[p][1]
    BY <1>8, <2>1, Grown
  <2>3. m.id \in Ids0(log'[p]) <=> m.id \in Ids0(log[p])
    BY <1>8, Shows
  <2> QED
    BY <2>1, <2>2, <2>3
<1>9. CASE Announces(p)
  <2>1. PICK line \in Line : log'[p] = Posted(log[p], line) /\ line.id = 0
    BY <1>9, LineOf DEF Announces
  <2>2. m \in received[p]
    BY <1>9 DEF Announces, SameHistory
  <2> QED
    BY <1>2, <1>8, <2>1, <2>2
<1>10. CASE Writes(p)
  <2> DEFINE line == [id |-> Len(written) + 1, date |-> Clock(p)]
  <2>1. line \in Line /\ log'[p] = Posted(log[p], line) /\ line.id = Len(written) + 1
    BY <1>10, LineOf DEF Writes
  <2> HIDE DEF line
  <2>2. m \in received[p]
    BY <1>10 DEF Writes
  <2>3. line.id # m.id
    BY <1>1, <1>2, <2>1, <2>2
  <2> QED
    BY <1>8, <2>1, <2>2, <2>3
<1>11. CASE Receives(p)
  <2>1. PICK q \in DOMAIN users[p] : \E k \in Flight(q, p) :
          /\ q \in Pages \ {p} /\ k \in DataMessage /\ k.id # 0
          /\ [id |-> k.id, date |-> k.date] \in Line
          /\ k.type = "CHAT" /\ received'[p] = received[p] \cup {k}
          /\ log'[p] = Posted(log[p], [id |-> k.id, date |-> k.date])
    BY ONLY <1>11, TypesInv, p \in Pages, LineOf
  <2>2. PICK k \in Flight(q, p) :
          /\ q \in Pages \ {p} /\ k \in DataMessage /\ k.id # 0 /\ k.type = "CHAT"
          /\ [id |-> k.id, date |-> k.date] \in Line
          /\ received'[p] = received[p] \cup {k}
          /\ log'[p] = Posted(log[p], [id |-> k.id, date |-> k.date])
    BY <2>1
  <2>3. PICK line \in Line : log'[p] = Posted(log[p], line) /\ line.id = k.id /\ line.date = k.date
    BY <2>2
  <2>4. log[p] # <<>> /\ here[p] = "in"
    BY <1>11, EmptyLog DEF Receives
  <2>5. log'[p][1] = log[p][1] /\ log[p][1].date \in Nat /\ line.date \in Nat
    BY <2>3, <2>4, Grown
  <2>6. CASE m.id # k.id
    BY <1>8, <2>2, <2>3, <2>6
  <2>7. CASE m.id = k.id
    <3>1. Copy(k) /\ k.id \in DOMAIN written /\ written[k.id] = q
      BY <2>2 DEF Copy, MarksInv, FromWriters
    <3>2. \A j \in received[p] : j.id = k.id => j.date = k.date
      BY <1>1, <1>2, <2>2, <3>1 DEF LinesInv, SameDate
    <3>3. m.date = k.date
      BY <2>2, <2>7, <3>2
    <3>4. CASE line.date >= log[p][1].date
      <4>1. line.id \in Ids0(log'[p])
        BY <2>3, <3>4, Shows
      <4> QED
        BY <2>3, <2>5, <2>7, <3>3, <3>4, <4>1
    <3>5. CASE line.date < log[p][1].date
      <4>1. Ids0(log'[p]) = Ids0(log[p])
        BY <2>3, <2>4, <3>5, Grown
      <4>2. ~(k.date >= log[p][1].date)
        BY <2>3, <2>5, <3>5
      <4>3. ASSUME k.id \in Ids0(log[p])
            PROVE  FALSE
        <5>1. Has(p, k.id)
          BY <2>2, <3>1, <4>3 DEF LinesInv, ShownKnown
        <5>2. PICK j \in received[p] : j.id = k.id
          BY <5>1 DEF Has
        <5>3. j.date = k.date /\ j.date >= log[p][1].date
          BY <1>3, <2>4, <3>2, <4>3, <5>2
        <5> QED
          BY <4>2, <5>3
      <4> QED
        BY <2>5, <2>7, <3>3, <4>1, <4>2, <4>3
    <3> QED
      BY <2>5, <3>4, <3>5
  <2> QED
    BY <2>6, <2>7
<1> QED
  BY <1>5, <1>6, <1>7, <1>9, <1>10, <1>11 DEF LogEffect

\* A page shows what it has written and, of what it has received, all that is not
\* dated before its first line.
THEOREM OnlyOlderLost == Spec => []OnlyOlderDropped
<1> DEFINE I == TypesInv /\ PagesInv /\ MarksInv /\ LinesInv
<1>1. Init => I
  BY TypesBegin, InvariantsBegin
<1>2. I /\ [Next]_chatVars => I'
  <2> SUFFICES ASSUME I, [Next]_chatVars
               PROVE  I'
    OBVIOUS
  <2>1. TypesInv' /\ PagesInv' /\ MarksInv'
    BY TypesHold, PagesHold, MarksHold
  <2>2. SameDate' /\ BeginsOwn'
    BY <2>1, DatesHold, BeginsHold DEF LinesInv
  <2>3. OwnShown' /\ ShownKnown' /\ ReceivedKept'
    BY <2>1, OwnHold, KnownHold, ReceivedHold
  <2> QED
    BY <2>1, <2>2, <2>3 DEF LinesInv
<1>3. I => OnlyOlderDropped
  BY DEF LinesInv, OwnShown, ReceivedKept, Ids0, OnlyOlderDropped, Present, Shown
<1> QED
  BY <1>1, <1>2, <1>3, PTL DEF Spec

-----------------------------------------------------------------------------
(* No receipt is lost *)

\* An end that has been closed is never opened again.
LEMMA StaysClosed ==
  ASSUME TypesInv, [Next]_chatVars, NEW a \in Pages, NEW b \in Pages, channel[a][b] = "closed"
  PROVE  channel'[a][b] = "closed"
<1>1. channel \in [Pages -> [Pages -> {"new", "open", "closed"}]]
  BY DEF TypesInv, ChatTypeOK
<1>2. \A p \in Pages : Leave(p) => channel'[a][b] = "closed"
  BY <1>1 DEF Leave
<1>3. \A p, q \in Pages : OnUserRemoved(p, q) \/ Fails(p, q) => channel'[a][b] = "closed"
  BY <1>1 DEF OnUserRemoved, Fails
<1>4. \A p, q \in Pages : Opens(p, q) => channel'[a][b] = "closed"
  BY <1>1 DEF Opens
<1>5. channel' = channel => channel'[a][b] = "closed"
  OBVIOUS
<1>6. \A p \in Pages : PageStep(p) => Leave(p) \/ channel' = channel
  BY DEF PageStep, Enter, onSendMessage, netVars
<1>7. \A p, q \in Pages : OnUserAdded(p, q) \/ OnChat(p, q) \/ OnAck(p, q) => channel' = channel
  BY DEF OnUserAdded, OnChat, OnAck, Takes, netVars
<1>8. \A p, q \in Pages :
        PairStep(p, q) => \/ OnUserRemoved(p, q) \/ Fails(p, q) \/ Opens(p, q)
                          \/ channel' = channel
  BY <1>7 DEF PairStep, Hears
<1>9. Tick \/ UNCHANGED chatVars => channel' = channel
  BY DEF Tick, chatVars, netVars
<1> QED
  BY <1>2, <1>3, <1>4, <1>5, <1>6, <1>8, <1>9 DEF Next

LEMMA StaysFailed ==
  ASSUME TypesInv, [Next]_chatVars, NEW a \in Pages, NEW b \in Pages, Failed(a, b)
  PROVE  Failed(a, b)'
BY StaysClosed DEF Failed

\* Between two pages that are and stay in, nothing gets lost while their channel is
\* whole: a message gives way to its receipt, and a receipt to the mark under the
\* message.
Kept(a, b) ==
  \A m \in Flight(a, b) :
    \/ m \in Flight(a, b)'
    \/ m.type = "CHAT" /\ \E k \in Flight(b, a)' : k.type = "ACK_CHAT" /\ k.id = m.id
    \/ m.type = "ACK_CHAT" /\ (written[m.id] = b /\ m.id \in DOMAIN owed => a \notin owed'[m.id])

LEMMA StepsKeep ==
  ASSUME TypesInv, PagesInv, [Next]_chatVars, NEW a \in Pages, NEW b \in Pages,
         here[a] = "in", here[b] = "in", here'[a] = "in", here'[b] = "in", ~Failed(a, b)'
  PROVE  Kept(a, b)
<1>1. wire \in Wires /\ here \in [Pages -> {"out", "in", "left"}] /\ written \in Seq(Pages)
      /\ channel \in [Pages -> [Pages -> {"new", "open", "closed"}]] /\ owed \in Seq(SUBSET Pages)
  BY DEF TypesInv, ChatTypeOK, Wires
<1>2. SUFFICES ASSUME NEW m \in Flight(a, b), m \notin Flight(a, b)'
               PROVE  \/ /\ m.type = "CHAT"
                         /\ \E k \in Flight(b, a)' : k.type = "ACK_CHAT" /\ k.id = m.id
                      \/ /\ m.type = "ACK_CHAT"
                         /\ written[m.id] = b /\ m.id \in DOMAIN owed => a \notin owed'[m.id]
  BY DEF Kept
<1>3. wire' # wire
  BY <1>2 DEF Flight
<1>4. ASSUME NEW p \in Pages, Leave(p)
      PROVE  FALSE
  <2>1. p # b
    BY <1>1, <1>4 DEF Leave
  <2>2. wire'[a][b] = wire[a][b]
    BY <1>1, <1>4, <2>1 DEF Leave, Wires
  <2> QED
    BY <1>2, <2>2 DEF Flight
<1>5. ASSUME NEW p \in Pages, NEW q \in Pages, OnUserRemoved(p, q)
      PROVE  FALSE
  <2>1. a # q
    BY <1>5 DEF OnUserRemoved
  <2>2. wire'[a] = wire[a]
    BY <1>1, <1>5, <2>1 DEF OnUserRemoved, Wires
  <2> QED
    BY <1>2, <2>2 DEF Flight
<1>6. ASSUME NEW w \in Wires, NEW k \in DataMessage, NEW p \in Pages, wire' = Sent(w, p, k)
      PROVE  /\ \A e, f \in Pages : Range(w[e][f]) \subseteq Flight(e, f)'
             /\ \A f \in Reached(p) : k \in Flight(p, f)'
  <2>1. Adds(w, wire', p, k)
    BY <1>6, Sending
  <2>2. \A e, f \in Pages : \A x :
          x \in Flight(e, f)' <=> x \in Range(w[e][f]) \/ (e = p /\ f \in Reached(p) /\ x = k)
    BY <2>1 DEF Flight, Adds
  <2> QED
    BY <2>2 DEF Reached, OpenTo
<1>7. ASSUME NEW p \in Pages, onSendMessage(p)
      PROVE  FALSE
  <2> DEFINE k == [type |-> "CHAT", id |-> Len(written) + 1, date |-> Clock(p)]
  <2>1. k \in DataMessage
    BY <1>1, <1>7, Dated, ChatBoundsAssumption DEF onSendMessage, Ids, DataMessage, TypesInv
  <2>2. wire' = Sent(wire, p, k)
    BY <1>7 DEF onSendMessage
  <2> HIDE DEF k
  <2>3. Range(wire[a][b]) \subseteq Flight(a, b)'
    BY <1>1, <1>6, <2>1, <2>2
  <2> QED
    BY <1>2, <2>3 DEF Flight
<1>8. ASSUME NEW p \in Pages, NEW q \in Pages, OnChat(p, q)
      PROVE  m.type = "CHAT" /\ \E k \in Flight(b, a)' : k.type = "ACK_CHAT" /\ k.id = m.id
  <2> DEFINE h == Head(wire[q][p])
             k == [type |-> "ACK_CHAT", id |-> h.id]
             w == Taken(p, q)
  <2>1. Takes(p, q, "CHAT") /\ wire' = Sent(w, p, k) /\ channel[p][q] = "open"
        /\ channel' = channel
    BY <1>8 DEF OnChat, Takes
  <2>2. /\ h \in DataMessage /\ h.type = "CHAT" /\ w \in Wires
        /\ Range(wire[a][b]) \subseteq Range(w[a][b]) \cup (IF a = q /\ b = p THEN {h} ELSE {})
    BY <2>1, HeadHas
  <2>3. k \in DataMessage /\ k.type = "ACK_CHAT" /\ k.id = h.id
    BY <2>1, <2>2 DEF DataMessage
  <2> HIDE DEF h, k, w
  <2>4. Range(w[a][b]) \subseteq Flight(a, b)'
    BY <1>6, <2>1, <2>2, <2>3
  <2>5. a = q /\ b = p /\ m = h
    BY <1>2, <2>2, <2>4 DEF Flight
  <2>6. q \in Reached(p)
    BY <2>1, <2>5 DEF Reached, OpenTo, Failed
  <2>7. k \in Flight(p, q)'
    BY <1>6, <2>1, <2>2, <2>3, <2>6
  <2> QED
    BY <2>2, <2>3, <2>5, <2>7
<1>9. ASSUME NEW p \in Pages, NEW q \in Pages, OnAck(p, q)
      PROVE  /\ m.type = "ACK_CHAT"
             /\ written[m.id] = b /\ m.id \in DOMAIN owed => a \notin owed'[m.id]
  <2> DEFINE h == Head(wire[q][p])
  <2>1. Takes(p, q, "ACK_CHAT") /\ wire' = Taken(p, q)
        /\ owed' = IF written[h.id] = p THEN [owed EXCEPT ![h.id] = @ \ {q}] ELSE owed
    BY <1>9 DEF OnAck
  <2>2. /\ h.type = "ACK_CHAT"
        /\ Range(wire[a][b]) \subseteq
             Range(Taken(p, q)[a][b]) \cup (IF a = q /\ b = p THEN {h} ELSE {})
    BY <2>1, HeadHas
  <2> HIDE DEF h
  <2>3. a = q /\ b = p /\ m = h
    BY <1>2, <2>1, <2>2 DEF Flight
  <2> QED
    BY <1>1, <2>1, <2>2, <2>3
<1>10. ASSUME NEW p \in Pages, NEW q \in Pages, Fails(p, q)
       PROVE  FALSE
  <2>1. channel'[p][q] = "closed"
    BY <1>1, <1>10 DEF Fails
  <2>2. ~(a = p /\ b = q) /\ ~(a = q /\ b = p)
    BY <2>1 DEF Failed
  <2>3. \A x, y \in Pages :
          ~(x = p /\ y = q) /\ ~(x = q /\ y = p) => wire'[x][y] = wire[x][y]
    BY ONLY <1>1, <1>10, p \in Pages, q \in Pages, Failing
  <2>4. wire'[a][b] = wire[a][b]
    BY <2>2, <2>3
  <2> QED
    BY <1>2, <2>4 DEF Flight
<1> QED
  BY <1>3, <1>4, <1>5, <1>7, <1>8, <1>9, <1>10
     DEF Next, PageStep, PairStep, Hears, Tick, Enter, OnUserAdded, Opens, chatVars, netVars

\* What is owed was owed before, or is for the message just written.
LEMMA StepsOwed ==
  ASSUME TypesInv, PagesInv, [Next]_chatVars, DOMAIN owed = DOMAIN written
  PROVE  /\ DOMAIN owed' = DOMAIN written'
         /\ \A id \in DOMAIN owed' : \A r \in owed'[id] :
              \/ id \in DOMAIN owed /\ r \in owed[id] /\ written'[id] = written[id]
              \/ \E p \in Pages : onSendMessage(p) /\ id = Len(written) + 1 /\ r \in OpenTo(p)
<1>1. written \in Seq(Pages) /\ owed \in Seq(SUBSET Pages)
  BY DEF TypesInv, ChatTypeOK
<1> DEFINE Goal ==
      /\ DOMAIN owed' = DOMAIN written'
      /\ \A id \in DOMAIN owed' : \A r \in owed'[id] :
           \/ id \in DOMAIN owed /\ r \in owed[id] /\ written'[id] = written[id]
           \/ \E p \in Pages : onSendMessage(p) /\ id = Len(written) + 1 /\ r \in OpenTo(p)
<1>2. owed' = owed /\ written' = written => Goal
  OBVIOUS
<1>3. ASSUME NEW p \in Pages, onSendMessage(p)
      PROVE  Goal
  <2>1. written' = Append(written, p) /\ owed' = Append(owed, OpenTo(p))
    BY <1>3 DEF onSendMessage
  <2>2. Len(owed) = Len(written) /\ Len(owed) \in Nat
    BY <1>1
  <2>3. OpenTo(p) \in SUBSET Pages
    BY DEF OpenTo
  <2>4. /\ DOMAIN owed' = DOMAIN owed \cup {Len(written) + 1}
        /\ owed'[Len(written) + 1] = OpenTo(p)
        /\ \A id \in DOMAIN owed : owed'[id] = owed[id]
    BY <1>1, <2>1, <2>2, <2>3
  <2>5. /\ DOMAIN written' = DOMAIN written \cup {Len(written) + 1}
        /\ \A id \in DOMAIN written : written'[id] = written[id]
    BY <1>1, <2>1, Written
  <2> QED
    BY <1>3, <2>4, <2>5
<1>4. ASSUME NEW p \in Pages, NEW q \in Pages, OnAck(p, q)
      PROVE  Goal
  <2> DEFINE id0 == Head(wire[q][p]).id
  <2>1. written' = written /\ owed' \in {owed, [owed EXCEPT ![id0] = @ \ {q}]}
    BY <1>4 DEF OnAck, Takes
  <2> HIDE DEF id0
  <2>2. DOMAIN owed' = DOMAIN owed /\ \A id \in DOMAIN owed : owed'[id] \subseteq owed[id]
    BY <1>1, <2>1
  <2> QED
    BY <2>1, <2>2
<1>5. Tick \/ UNCHANGED chatVars => owed' = owed /\ written' = written
  BY DEF Tick, chatVars, chatHistory
<1>6. \A p \in Pages : Enter(p) \/ Leave(p) => owed' = owed /\ written' = written
  BY DEF Enter, Leave, chatHistory
<1>7. \A p, q \in Pages :
        OnUserAdded(p, q) \/ OnUserRemoved(p, q) \/ Opens(p, q) \/ Fails(p, q) \/ OnChat(p, q)
          => owed' = owed /\ written' = written
  BY DEF OnUserAdded, OnUserRemoved, Opens, Fails, OnChat, Takes, chatHistory
<1> QED
  BY <1>2, <1>3, <1>4, <1>5, <1>6, <1>7 DEF Next, PageStep, PairStep, Hears

LEMMA OwedHold ==
  ASSUME TypesInv, PagesInv, OwedUnderWay, [Next]_chatVars
  PROVE  OwedUnderWay'
<1>1. /\ DOMAIN owed' = DOMAIN written'
      /\ \A id \in DOMAIN owed' : \A r \in owed'[id] :
           \/ id \in DOMAIN owed /\ r \in owed[id] /\ written'[id] = written[id]
           \/ \E p \in Pages : onSendMessage(p) /\ id = Len(written) + 1 /\ r \in OpenTo(p)
  BY StepsOwed DEF OwedUnderWay
<1>2. Onward
  BY StepsOnward
<1>3. SUFFICES ASSUME NEW id \in DOMAIN owed', NEW r \in owed'[id], NEW a, a = written'[id]
               PROVE  /\ here'[a] # "out" /\ here'[r] # "out"
                      /\ here'[a] = "in" /\ here'[r] = "in" =>
                           \/ \E m \in Flight(a, r)' : m.type = "CHAT" /\ m.id = id
                           \/ \E m \in Flight(r, a)' : m.type = "ACK_CHAT" /\ m.id = id
                           \/ Failed(a, r)'
  BY <1>1 DEF OwedUnderWay, Flight, Failed
<1>4. ASSUME NEW p \in Pages, onSendMessage(p), id = Len(written) + 1, r \in OpenTo(p)
      PROVE  /\ here'[p] # "out" /\ here'[r] # "out" /\ written'[id] = p
             /\ (\E m \in Flight(p, r)' : m.type = "CHAT" /\ m.id = id) \/ Failed(p, r)'
  <2> DEFINE k == [type |-> "CHAT", id |-> id, date |-> Clock(p)]
  <2>1. written' = Append(written, p) /\ here' = here /\ here[p] = "in" /\ wire' = Sent(wire, p, k)
        /\ Len(written) < MaxMessages /\ channel' = channel
    BY <1>4 DEF onSendMessage
  <2>2. written'[id] = p /\ id \in Ids
    BY <1>4, <2>1, ChatBoundsAssumption, Written DEF TypesInv, ChatTypeOK, Ids
  <2>3. r \in Pages /\ channel[p][r] = "open"
    BY <1>4 DEF OpenTo
  <2>4. here[r] # "out"
    BY <2>3 DEF PagesInv, OpenListed, KnownPages
  <2>5. k \in DataMessage /\ k.type = "CHAT" /\ k.id = id
    BY <2>2, Dated DEF DataMessage, TypesInv
  <2>6. wire \in Wires
    BY DEF TypesInv, ChatTypeOK, Wires
  <2> HIDE DEF k
  <2>7. Adds(wire, wire', p, k)
    BY <2>1, <2>5, <2>6, Sending
  <2>8. k \in Flight(p, r)' \/ Failed(p, r)'
    <3>1. CASE r \in Reached(p)
      BY <2>3, <2>7, <3>1 DEF Flight, Adds
    <3>2. CASE r \notin Reached(p)
      BY <1>4, <2>1, <3>2 DEF Reached, Failed
    <3> QED
      BY <3>1, <3>2
  <2> QED
    BY <2>1, <2>2, <2>4, <2>5, <2>8
<1>5. ASSUME id \in DOMAIN owed, r \in owed[id], written[id] = a
      PROVE  /\ here'[a] # "out" /\ here'[r] # "out"
             /\ here'[a] = "in" /\ here'[r] = "in" =>
                  \/ \E m \in Flight(a, r)' : m.type = "CHAT" /\ m.id = id
                  \/ \E m \in Flight(r, a)' : m.type = "ACK_CHAT" /\ m.id = id
                  \/ Failed(a, r)'
  <2>1. a \in Pages /\ r \in Pages
    <3>1. written \in Seq(Pages) /\ owed \in Seq(SUBSET Pages) /\ DOMAIN owed = DOMAIN written
      BY DEF TypesInv, ChatTypeOK, OwedUnderWay
    <3>2. written[id] \in Pages /\ owed[id] \in SUBSET Pages
      BY <1>5, <3>1
    <3> QED
      BY <1>5, <3>2
  <2>2. here[a] # "out" /\ here[r] # "out"
        /\ (here[a] = "in" /\ here[r] = "in" =>
             \/ \E m \in Flight(a, r) : m.type = "CHAT" /\ m.id = id
             \/ \E m \in Flight(r, a) : m.type = "ACK_CHAT" /\ m.id = id
             \/ Failed(a, r))
    BY <1>5 DEF OwedUnderWay
  <2>3. here'[a] # "out" /\ here'[r] # "out"
    BY <1>2, <2>1, <2>2 DEF Onward
  <2>4. ASSUME here'[a] = "in", here'[r] = "in", ~Failed(a, r)'
        PROVE  \/ \E m \in Flight(a, r)' : m.type = "CHAT" /\ m.id = id
               \/ \E m \in Flight(r, a)' : m.type = "ACK_CHAT" /\ m.id = id
    <3>1. here[a] = "in" /\ here[r] = "in"
      BY <1>2, <2>1, <2>2, <2>4 DEF Onward, TypesInv, ChatTypeOK
    <3>2. Kept(a, r) /\ Kept(r, a) /\ ~Failed(a, r)
      <4>1. ~Failed(r, a)' /\ ~Failed(a, r)
        BY <2>1, <2>4, StaysFailed DEF Failed
      <4> QED
        BY <2>1, <2>4, <3>1, <4>1, StepsKeep
    <3>3. ASSUME NEW m \in Flight(a, r), m.type = "CHAT", m.id = id
          PROVE  \/ m \in Flight(a, r)'
                 \/ \E k \in Flight(r, a)' : k.type = "ACK_CHAT" /\ k.id = id
      BY <3>2, <3>3 DEF Kept
    <3>4. ASSUME NEW m \in Flight(r, a), m.type = "ACK_CHAT", m.id = id
          PROVE  m \in Flight(r, a)'
      BY <1>3, <1>5, <3>2, <3>4 DEF Kept
    <3> QED
      BY <2>2, <3>1, <3>2, <3>3, <3>4
  <2> QED
    BY <2>3, <2>4
<1> QED
  BY <1>1, <1>3, <1>4, <1>5

\* At rest nothing is owed between pages that are in unless their channel has failed:
\* nothing else loses a receipt.
THEOREM SeenInTheEnd == Spec => []SeenAtRest
<1> DEFINE I == TypesInv /\ PagesInv /\ OwedUnderWay
<1>1. Init => I
  BY TypesBegin, InvariantsBegin
<1>2. I /\ [Next]_chatVars => I'
  BY TypesHold, PagesHold, OwedHold
<1>3. I => SeenAtRest
  <2> SUFFICES ASSUME OwedUnderWay, ChatTypeOK, Quiet, NEW id \in DOMAIN written,
                      here[written[id]] = "in", NEW r \in owed[id] \cap Present
               PROVE  Failed(written[id], r)
    BY DEF SeenAtRest, TypesInv
  <2>1. id \in DOMAIN owed /\ written[id] \in Present /\ r \in Present /\ here[r] = "in"
    BY DEF OwedUnderWay, ChatTypeOK, Present
  <2>2. wire[written[id]][r] = <<>> /\ wire[r][written[id]] = <<>>
    BY <2>1 DEF Quiet
  <2>3. Flight(written[id], r) = {} /\ Flight(r, written[id]) = {}
    BY <2>2 DEF Flight, Range
  <2> QED
    BY <2>1, <2>3 DEF OwedUnderWay
<1> QED
  BY <1>1, <1>2, <1>3, PTL DEF Spec
=============================================================================
