------------------------ MODULE Conversation_proofs ------------------------
(***************************************************************************)
(* Theorems about module Conversation, for every set of setups and every   *)
(* number of runs and turns.                                               *)
(***************************************************************************)
EXTENDS Conversation, SequenceTheorems, TLAPS

(* What the compaction and the truncation of a sequence keep. *)

\* The elements of two sequences that are joined.
LEMMA Joined ==
  ASSUME NEW S, NEW t \in Seq(S), NEW u \in Seq(S)
  PROVE  /\ t \o u \in Seq(S)
         /\ Len(t \o u) = Len(t) + Len(u)
         /\ \A i \in 1..Len(t) : (t \o u)[i] = t[i]
         /\ \A i \in 1..Len(u) : (t \o u)[Len(t) + i] = u[i]
<1> DEFINE n == Len(t)
           m == Len(u)
           v == t \o u
<1>1. n \in Nat /\ m \in Nat
  BY LenProperties
<1>2. /\ v \in Seq(S) /\ Len(v) = n + m
      /\ \A i \in 1..n + m : v[i] = IF i <= n THEN t[i] ELSE u[i - n]
  BY ConcatProperties
<1> HIDE DEF n, m, v
<1>3. \A i \in 1..n : v[i] = t[i]
  BY <1>1, <1>2
<1>4. \A i \in 1..m : v[n + i] = u[i]
  <2> TAKE i \in 1..m
  <2>1. n + i \in 1..n + m /\ ~(n + i <= n) /\ n + i - n = i
    BY <1>1
  <2>2. QED
    BY <1>1, <1>2, <2>1
<1>5. QED
  BY <1>2, <1>3, <1>4 DEF n, m, v

LEMMA JoinedElements ==
  ASSUME NEW S, NEW t \in Seq(S), NEW u \in Seq(S)
  PROVE  t \o u \in Seq(S) /\ Elements(t \o u) = Elements(t) \cup Elements(u)
<1> DEFINE n == Len(t)
           m == Len(u)
           v == t \o u
<1>1. n \in Nat /\ m \in Nat
  BY LenProperties
<1>2. /\ v \in Seq(S) /\ Len(v) = n + m
      /\ \A i \in 1..n : v[i] = t[i]
      /\ \A i \in 1..m : v[n + i] = u[i]
  BY Joined
<1>3. DOMAIN t = 1..n /\ DOMAIN u = 1..m /\ DOMAIN v = 1..n + m
  BY <1>2, LenProperties
<1> HIDE DEF n, m, v
<1>4. \A i \in 1..n : i \in 1..n + m
  BY <1>1
<1>5. \A i \in 1..m : n + i \in 1..n + m
  BY <1>1
<1>6. Elements(t) \cup Elements(u) \subseteq Elements(v)
  BY <1>2, <1>3, <1>4, <1>5 DEF Elements
<1>7. Elements(v) \subseteq Elements(t) \cup Elements(u)
  <2> SUFFICES ASSUME NEW i \in 1..n + m PROVE v[i] \in Elements(t) \cup Elements(u)
    BY <1>3 DEF Elements
  <2>1. CASE i <= n
    <3>1. i \in 1..n
      BY <1>1, <2>1
    <3>2. QED
      BY <1>2, <1>3, <3>1 DEF Elements
  <2>2. CASE ~(i <= n)
    <3>1. i - n \in 1..m /\ n + (i - n) = i
      BY <1>1, <2>2
    <3>2. v[n + (i - n)] = u[i - n]
      BY <1>2, <3>1
    <3>3. QED
      BY <1>3, <3>1, <3>2 DEF Elements
  <2>3. QED
    BY <2>1, <2>2
<1>8. QED
  BY <1>2, <1>6, <1>7 DEF v

\* A part of a sequence, with numbers that are in it.
LEMMA PartOf ==
  ASSUME NEW S, NEW s \in Seq(S), NEW a \in Nat \ {0}, NEW b \in Nat, a <= b, b <= Len(s)
  PROVE  /\ SubSeq(s, a, b) \in Seq(S)
         /\ Len(SubSeq(s, a, b)) = b - a + 1
         /\ \A i \in 1..b - a + 1 : SubSeq(s, a, b)[i] = s[a + i - 1]
         /\ Elements(SubSeq(s, a, b)) = {s[i] : i \in a..b}
<1>1. Len(s) \in Nat
  BY LenProperties
<1>2. \A i \in a..b : s[i] \in S
  BY <1>1, ElementOfSeq
<1> DEFINE v == SubSeq(s, a, b)
<1>3. /\ v \in Seq(S) /\ Len(v) = IF a <= b THEN b - a + 1 ELSE 0
      /\ \A i \in 1..b - a + 1 : v[i] = s[a + i - 1]
  BY <1>2, SubSeqProperties
<1>4. DOMAIN v = 1..b - a + 1
  BY <1>3, LenProperties
<1> HIDE DEF v
<1>5. Elements(v) = {s[i] : i \in a..b}
  <2>1. \A i \in 1..b - a + 1 : a + i - 1 \in a..b /\ v[i] = s[a + i - 1]
    BY <1>3
  <2>2. \A i \in a..b : i - a + 1 \in 1..b - a + 1 /\ a + (i - a + 1) - 1 = i
    OBVIOUS
  <2>3. \A i \in a..b : v[i - a + 1] = s[i]
    BY <2>1, <2>2
  <2>4. Elements(v) \subseteq {s[i] : i \in a..b}
    BY <1>4, <2>1 DEF Elements
  <2>5. {s[i] : i \in a..b} \subseteq Elements(v)
    BY <1>4, <2>2, <2>3 DEF Elements
  <2>6. QED
    BY <2>4, <2>5
<1>6. QED
  BY <1>3, <1>5 DEF v

\* The last ones of a sequence end as it ends.
LEMMA LastOnesKeep ==
  ASSUME NEW S, NEW s \in Seq(S), NEW k \in Nat, s # <<>>
  PROVE  /\ LastOnes(s, k) \in Seq(S)
         /\ Len(LastOnes(s, k)) = IF k = 0 \/ k > Len(s) THEN Len(s) ELSE k
         /\ Len(LastOnes(s, k)) > 0
         /\ \A i \in 1..Len(LastOnes(s, k)) :
              LastOnes(s, k)[i] = s[Len(s) - Len(LastOnes(s, k)) + i]
<1>1. Len(s) \in Nat /\ Len(s) > 0
  BY EmptySeq, LenProperties
<1>2. CASE k = 0 \/ k > Len(s)
  <2>1. LastOnes(s, k) = s
    BY <1>2 DEF LastOnes
  <2>2. \A i \in 1..Len(s) : s[Len(s) - Len(s) + i] = s[i]
    <3> TAKE i \in 1..Len(s)
    <3>1. Len(s) - Len(s) + i = i
      BY <1>1
    <3>2. QED
      BY <3>1
  <2>3. QED
    BY <1>1, <1>2, <2>1, <2>2
<1>3. CASE ~(k = 0 \/ k > Len(s))
  <2> DEFINE from == Len(s) - k + 1
  <2>1. from \in 1..Len(s) /\ k \in 1..Len(s)
    BY <1>1, <1>3
  <2>2. \A i \in from..Len(s) : s[i] \in S
    BY <2>1, ElementOfSeq
  <2>3. LastOnes(s, k) = SubSeq(s, from, Len(s))
    BY <1>3 DEF LastOnes
  <2> HIDE DEF from
  <2>4. /\ SubSeq(s, from, Len(s)) \in Seq(S)
        /\ Len(SubSeq(s, from, Len(s))) = Len(s) - from + 1
        /\ \A i \in 1..(Len(s) - from + 1) : SubSeq(s, from, Len(s))[i] = s[from + i - 1]
    BY <2>1, <2>2, SubSeqProperties
  <2>5. Len(s) - from + 1 = k /\ from = Len(s) - k + 1
    BY <1>1 DEF from
  <2>6. \A i \in 1..k : SubSeq(s, from, Len(s))[i] = s[Len(s) - k + i]
    <3> TAKE i \in 1..k
    <3>1. SubSeq(s, from, Len(s))[i] = s[from + i - 1]
      BY <2>4, <2>5
    <3>2. from + i - 1 = Len(s) - k + i
      BY <1>1, <2>5
    <3>3. QED
      BY <3>1, <3>2
  <2>7. Len(SubSeq(s, from, Len(s))) = k
    BY <2>4, <2>5
  <2>8. QED
    BY <1>1, <1>3, <2>1, <2>3, <2>4, <2>6, <2>7
<1>4. QED
  BY <1>2, <1>3

\* Truncation keeps the share at both ends, and Share is at least one.
LEMMA TruncatedKeeps ==
  ASSUME NEW S, NEW s \in Seq(S), Note \in S, s # <<>>
  PROVE  /\ Truncated(s) \in Seq(S)
         /\ Truncated(s) # <<>>
         /\ Truncated(s)[1] = s[1]
         /\ Last(Truncated(s)) = Last(s)
<1>1. Len(s) \in Nat /\ Len(s) > 0
  BY EmptySeq, LenProperties
<1>2. CASE ~TooLong(s)
  BY <1>2 DEF Truncated
<1>3. CASE TooLong(s)
  <2> DEFINE h == Share(s)
  <2>1. h \in Nat /\ 1 <= h /\ 2 * h < Len(s)
    BY <1>1, <1>3 DEF Share, TooLong
  <2> HIDE DEF h
  <2> DEFINE front == SubSeq(s, 1, h)
             back  == SubSeq(s, Len(s) - h + 1, Len(s))
  <2>2. /\ front \in Seq(S) /\ Len(front) = h
        /\ front[1] = s[1]
    <3>1. \A i \in 1..h : s[i] \in S
      BY <1>1, <2>1, ElementOfSeq
    <3>2. /\ front \in Seq(S) /\ Len(front) = IF 1 <= h THEN h - 1 + 1 ELSE 0
          /\ \A i \in 1..(h - 1 + 1) : front[i] = s[1 + i - 1]
      BY <2>1, <3>1, SubSeqProperties
    <3>3. QED
      BY <2>1, <3>2
  <2>3. /\ back \in Seq(S) /\ Len(back) = h
        /\ back[h] = s[Len(s)]
    <3> DEFINE from == Len(s) - h + 1
    <3>1. \A i \in from..Len(s) : s[i] \in S
      BY <1>1, <2>1, ElementOfSeq
    <3>2. from \in Int /\ from <= Len(s) /\ Len(s) - from + 1 = h
      BY <1>1, <2>1
    <3> HIDE DEF from
    <3>3. /\ SubSeq(s, from, Len(s)) \in Seq(S)
          /\ Len(SubSeq(s, from, Len(s))) = IF from <= Len(s) THEN Len(s) - from + 1 ELSE 0
          /\ \A i \in 1..(Len(s) - from + 1) : SubSeq(s, from, Len(s))[i] = s[from + i - 1]
      BY <1>1, <3>1, <3>2, SubSeqProperties
    <3>4. from + h - 1 = Len(s)
      BY <1>1, <2>1, <3>2
    <3>5. SubSeq(s, from, Len(s))[h] = s[Len(s)]
      BY <2>1, <3>2, <3>3, <3>4
    <3>6. QED
      BY <3>2, <3>3, <3>5 DEF from
  <2>4. Truncated(s) = front \o <<Note>> \o back
    BY <1>3 DEF Truncated, h
  <2> HIDE DEF front, back
  <2>5. /\ front \o <<Note>> \in Seq(S) /\ Len(front \o <<Note>>) = h + 1
        /\ (front \o <<Note>>)[1] = front[1]
    BY <2>1, <2>2
  <2>6. /\ Truncated(s) \in Seq(S) /\ Len(Truncated(s)) = h + 1 + h
        /\ Truncated(s)[1] = front[1]
        /\ Truncated(s)[h + 1 + h] = back[h]
    <3>1. PICK t \in Seq(S) : t = front \o <<Note>> /\ Len(t) = h + 1 /\ t[1] = front[1]
      BY <2>5
    <3>2. Truncated(s) = t \o back
      BY <2>4, <3>1
    <3>3. /\ t \o back \in Seq(S) /\ Len(t \o back) = Len(t) + Len(back)
          /\ \A i \in 1..Len(t) : (t \o back)[i] = t[i]
          /\ \A i \in 1..Len(back) : (t \o back)[Len(t) + i] = back[i]
      <4>1. back \in Seq(S)
        BY <2>3
      <4>2. QED
        BY <4>1, Joined
    <3>4. 1 \in 1..h + 1 /\ h \in 1..h
      BY <2>1
    <3>5. (t \o back)[1] = t[1]
      BY <3>1, <3>3, <3>4
    <3>6. (t \o back)[h + 1 + h] = back[h]
      BY <2>3, <3>1, <3>3, <3>4
    <3>7. QED
      BY <2>3, <3>1, <3>2, <3>3, <3>5, <3>6
  <2>7. Truncated(s) # <<>>
    <3>1. h + 1 + h > 0
      BY <2>1
    <3>2. QED
      BY <2>6, <3>1, EmptySeq
  <2>8. Last(Truncated(s)) = Last(s)
    BY <2>3, <2>6 DEF Last
  <2>9. QED
    BY <2>2, <2>6, <2>7, <2>8
<1>4. QED
  BY <1>2, <1>3

\* What truncation leaves out of the sequence is Removed, and Removed is empty only if
\* nothing is left out.
LEMMA TruncatedLoses ==
  ASSUME NEW S, NEW s \in Seq(S), Note \in S, s # <<>>
  PROVE  /\ Removed(s) \subseteq S
         /\ Elements(s) \subseteq Elements(Truncated(s)) \cup Removed(s)
         /\ Removed(s) = {} => Truncated(s) = s
<1>1. Len(s) \in Nat /\ Len(s) > 0
  BY EmptySeq, LenProperties
<1>2. CASE ~TooLong(s)
  BY <1>2 DEF Truncated, Removed
<1>3. CASE TooLong(s)
  <2> DEFINE h == Share(s)
             front == SubSeq(s, 1, h)
             cut   == SubSeq(s, h + 1, Len(s) - h)
             back  == SubSeq(s, Len(s) - h + 1, Len(s))
  <2>1. h \in Nat /\ 1 <= h /\ 2 * h < Len(s)
    BY <1>1, <1>3 DEF Share, TooLong
  <2>2. Truncated(s) = front \o <<Note>> \o back /\ Removed(s) = Elements(cut)
    BY <1>3 DEF Truncated, Removed
  <2>3. front \in Seq(S) /\ Elements(front) = {s[i] : i \in 1..h}
    <3>1. 1 \in Nat \ {0} /\ 1 <= h /\ h <= Len(s)
      BY <1>1, <2>1
    <3> HIDE DEF h
    <3>2. QED
      BY <2>1, <3>1, PartOf
  <2>4. Elements(cut) = {s[i] : i \in (h + 1)..(Len(s) - h)}
    <3>1. /\ h + 1 \in Nat \ {0} /\ Len(s) - h \in Nat
          /\ h + 1 <= Len(s) - h /\ Len(s) - h <= Len(s)
      BY <1>1, <2>1
    <3> HIDE DEF h
    <3>2. QED
      BY <3>1, PartOf
  <2>5. back \in Seq(S) /\ Elements(back) = {s[i] : i \in (Len(s) - h + 1)..Len(s)}
    <3>1. Len(s) - h + 1 \in Nat \ {0} /\ Len(s) - h + 1 <= Len(s)
      BY <1>1, <2>1
    <3> HIDE DEF h
    <3>2. QED
      BY <1>1, <3>1, PartOf
  <2> HIDE DEF h, front, cut, back
  <2>6. front \o <<Note>> \in Seq(S) /\ Elements(front) \subseteq Elements(front \o <<Note>>)
    <3> DEFINE note == <<Note>>
    <3>1. note \in Seq(S)
      OBVIOUS
    <3> HIDE DEF note
    <3>2. front \o note \in Seq(S) /\ Elements(front \o note) = Elements(front) \cup Elements(note)
      BY <2>3, <3>1, JoinedElements
    <3>3. QED
      BY <3>2 DEF note
  <2>7. Elements(front) \cup Elements(back) \subseteq Elements(Truncated(s))
    <3>1. PICK t \in Seq(S) : t = front \o <<Note>>
      BY <2>6
    <3>2. Elements(t \o back) = Elements(t) \cup Elements(back)
      BY <2>5, JoinedElements
    <3>3. QED
      BY <2>2, <2>6, <3>1, <3>2
  <2>8. Elements(s) = {s[i] : i \in 1..Len(s)}
    BY LenProperties DEF Elements
  <2>9. \A i \in 1..Len(s) :
          i \in 1..h \/ i \in (h + 1)..(Len(s) - h) \/ i \in (Len(s) - h + 1)..Len(s)
    BY <1>1, <2>1
  <2>10. Elements(s) \subseteq Elements(Truncated(s)) \cup Removed(s)
    BY <2>2, <2>3, <2>4, <2>5, <2>7, <2>8, <2>9
  <2>11. Removed(s) \subseteq S /\ Removed(s) # {}
    <3>1. \A i \in (h + 1)..(Len(s) - h) : i \in 1..Len(s)
      BY <1>1, <2>1
    <3>2. h + 1 \in (h + 1)..(Len(s) - h)
      BY <1>1, <2>1
    <3>3. \A i \in 1..Len(s) : s[i] \in S
      BY ElementOfSeq
    <3>4. QED
      BY <2>2, <2>4, <3>1, <3>2, <3>3
  <2>12. QED
    BY <2>10, <2>11
<1>4. QED
  BY <1>2, <1>3

-----------------------------------------------------------------------------
(* Types *)

\* While a run is going on, there are messages, and its question is among those made.
WhereInv ==
  Running =>
    /\ run \in 1..MaxRuns /\ turn \in 1..MaxTurns
    /\ messages # <<>> /\ made # <<>>
    /\ \E i \in DOMAIN made : made[i].kind = "user" /\ made[i].run = run

TypeInv == TypeOK /\ WhereInv

LEMMA SetupTypes ==
  ASSUME setup \in Setups
  PROVE  /\ setup.direct \in BOOLEAN /\ setup.recall \in BOOLEAN
         /\ setup.maxHistory \in Nat /\ setup.strategy \in Strategies
         /\ setup.keep \in Nat /\ setup.limit \in Nat /\ setup.retries \in Nat
BY ConversationAssumption DEF SetupType

LEMMA NoteType == Note \in Messages
BY DEF Messages

\* A head, a note and the last ones: what both ways to fold leave.
LEMMA FoldKeeps ==
  ASSUME NEW s \in Seq(Messages), s # <<>>, NEW k \in Nat,
         NEW t \in Seq(Messages), Len(t) > 0, t[1] = Head(s)
  PROVE  /\ t \o LastOnes(s, k) \in Seq(Messages)
         /\ t \o LastOnes(s, k) # <<>>
         /\ (t \o LastOnes(s, k))[1] = s[1]
         /\ Last(t \o LastOnes(s, k)) = Last(s)
<1> DEFINE l == LastOnes(s, k)
           v == t \o l
<1>1. Len(s) \in Nat /\ Len(s) > 0 /\ Len(t) \in Nat
  BY EmptySeq, LenProperties
<1>2. /\ l \in Seq(Messages) /\ Len(l) > 0 /\ Len(l) \in Nat
      /\ \A i \in 1..Len(l) : l[i] = s[Len(s) - Len(l) + i]
  BY LastOnesKeep, LenProperties
<1> HIDE DEF l
<1>3. /\ v \in Seq(Messages) /\ Len(v) = Len(t) + Len(l)
      /\ \A i \in 1..Len(t) : v[i] = t[i]
      /\ \A i \in 1..Len(l) : v[Len(t) + i] = l[i]
  BY <1>2, Joined
<1> HIDE DEF v
<1>4. 1 \in 1..Len(t) /\ Len(l) \in 1..Len(l) /\ Len(s) - Len(l) + Len(l) = Len(s)
  BY <1>1, <1>2
<1>5. v[1] = s[1]
  BY <1>3, <1>4
<1>6. v[Len(t) + Len(l)] = s[Len(s)]
  BY <1>2, <1>3, <1>4
<1>7. v # <<>>
  BY <1>1, <1>2, <1>3, EmptySeq
<1>8. QED
  BY <1>3, <1>5, <1>6, <1>7 DEF Last, v, l

\* Whatever s06 does, it keeps the last message, and the first one unless the window slides.
LEMMA ContextKeeps ==
  ASSUME setup \in Setups, messages \in Seq(Messages), messages # <<>>, stored \subseteq Messages,
         Compact \/ NoPressure
  PROVE  /\ messages' \in Seq(Messages) /\ messages' # <<>>
         /\ stored' \subseteq Messages
         /\ Last(messages') = Last(messages)
         /\ setup.strategy # "sliding_window" => messages'[1] = messages[1]
<1> DEFINE k == setup.keep
           h == Head(messages)
<1>1. k \in Nat
  BY SetupTypes
<1>2. Len(messages) \in Nat /\ Len(messages) > 0
  BY EmptySeq, LenProperties
<1>3. h \in Messages
  BY HeadTailProperties
<1> HIDE DEF k
<1>4. CASE NoPressure
  BY <1>4 DEF NoPressure
<1>5. ASSUME NEW noted \in BOOLEAN, Fold(noted)
      PROVE  /\ messages' \in Seq(Messages) /\ messages' # <<>>
             /\ stored' \subseteq Messages
             /\ Last(messages') = Last(messages) /\ messages'[1] = messages[1]
  <2>1. stored' \subseteq Messages
    <3>1. Elements(Middle(messages, k)) \subseteq Messages
      <4>1. CASE k = 0
        BY <4>1 DEF Middle, Elements
      <4>2. CASE k # 0
        <5>1. /\ 2 \in Nat \ {0} /\ Len(messages) - k \in Nat
              /\ 2 <= Len(messages) - k /\ Len(messages) - k <= Len(messages)
          BY <1>1, <1>2, <1>5 DEF Fold, Foldable, k
        <5>2. Elements(SubSeq(messages, 2, Len(messages) - k)) =
                {messages[i] : i \in 2..(Len(messages) - k)}
          BY <5>1, PartOf
        <5>3. \A i \in 2..(Len(messages) - k) : i \in 1..Len(messages)
          BY <1>1, <1>2, <5>1
        <5>4. QED
          BY <4>2, <5>2, <5>3, ElementOfSeq DEF Middle
      <4>3. QED
        BY <4>1, <4>2
    <3>2. QED
      BY <1>5, <3>1 DEF Fold, k
  <2>2. CASE noted
    <3> DEFINE t == <<h, Note>>
    <3>1. t \in Seq(Messages) /\ Len(t) = 2 /\ t[1] = h
      BY <1>3, NoteType
    <3>2. messages' = t \o LastOnes(messages, k)
      BY <1>5, <2>2 DEF Fold, k
    <3> HIDE DEF t
    <3>3. Len(t) > 0
      BY <3>1
    <3>4. QED
      BY <1>1, <2>1, <3>1, <3>2, <3>3, FoldKeeps
  <2>3. CASE ~noted
    BY <1>5, <2>1, <2>3 DEF Fold
  <2>4. QED
    BY <2>2, <2>3
<1>6. CASE TokenBudget
  <2> DEFINE t == <<h>>
  <2>1. t \in Seq(Messages) /\ Len(t) = 1 /\ t[1] = h
    BY <1>3
  <2>2. messages' = t \o LastOnes(messages, 3)
    BY <1>6 DEF TokenBudget
  <2> HIDE DEF t
  <2>3. Len(t) > 0
    BY <2>1
  <2>4. /\ t \o LastOnes(messages, 3) \in Seq(Messages)
        /\ t \o LastOnes(messages, 3) # <<>>
        /\ (t \o LastOnes(messages, 3))[1] = messages[1]
        /\ Last(t \o LastOnes(messages, 3)) = Last(messages)
    <3>1. 3 \in Nat
      OBVIOUS
    <3>2. QED
      BY <2>1, <2>3, <3>1, FoldKeeps
  <2>5. QED
    BY <1>6, <2>2, <2>4 DEF TokenBudget
<1>7. CASE SlidingWindow /\ setup.strategy = "sliding_window"
  <2> DEFINE l == LastOnes(messages, k)
  <2>1. /\ l \in Seq(Messages) /\ Len(l) > 0 /\ Len(l) \in Nat
        /\ \A i \in 1..Len(l) : l[i] = messages[Len(messages) - Len(l) + i]
    BY <1>1, LastOnesKeep, LenProperties
  <2>2. messages' = l /\ stored' = stored
    BY <1>7 DEF SlidingWindow, k
  <2> HIDE DEF l
  <2>3. Len(l) \in 1..Len(l) /\ Len(messages) - Len(l) + Len(l) = Len(messages)
    BY <1>2, <2>1
  <2>4. l[Len(l)] = messages[Len(messages)]
    BY <2>1, <2>3
  <2>5. QED
    BY <1>7, <2>1, <2>2, <2>4, EmptySeq DEF Last
<1>8. QED
  BY <1>4, <1>5, <1>6, <1>7 DEF Compact, Collapse, Autocompact

\* Truncation keeps the types of the messages.
LEMMA TruncateType ==
  ASSUME TypeOK, messages # <<>>
  PROVE  /\ Truncated(messages) \in Seq(Messages)
         /\ Truncated(messages) # <<>>
         /\ Truncated(messages)[1] = messages[1]
         /\ Last(Truncated(messages)) = Last(messages)
         /\ Removed(messages) \subseteq Messages
<1>1. messages \in Seq(Messages)
  BY DEF TypeOK
<1>2. QED
  BY <1>1, NoteType, TruncatedKeeps, TruncatedLoses

\* A new question, at the end of the messages of a run.
LEMMA BeginMessages ==
  ASSUME TypeOK, Begin
  PROVE  /\ messages' \in Seq(Messages) /\ messages' # <<>>
         /\ \E i \in DOMAIN made' : made'[i].kind = "user" /\ made'[i].run = run'
<1>1. past \in Seq(Messages) /\ run + 1 \in 1..MaxRuns /\ MaxRuns \in Nat
  BY ConversationAssumption DEF TypeOK, Begin
<1>2. Recalled \in Seq(Messages)
  <2> DEFINE k == setup.maxHistory
  <2>1. k \in Nat
    BY SetupTypes DEF TypeOK
  <2> HIDE DEF k
  <2>2. LastOnes(past, k) \in Seq(Messages)
    <3>1. CASE past = <<>>
      <4>1. k = 0 \/ k > Len(past)
        BY <2>1, <3>1, EmptySeq
      <4>2. QED
        BY <1>1, <4>1 DEF LastOnes
    <3>2. CASE past # <<>>
      BY <1>1, <2>1, <3>2, LastOnesKeep
    <3>3. QED
      BY <3>1, <3>2
  <2>3. QED
    BY <2>2, EmptySeq DEF Recalled, k
<1>3. PICK long \in BOOLEAN :
        messages' = (IF setup.direct THEN past ELSE <<>>) \o Recalled \o <<Question(run + 1, long)>>
  BY DEF Begin
<1> DEFINE q == Question(run + 1, long)
           t == (IF setup.direct THEN past ELSE <<>>) \o Recalled
           one == <<q>>
<1>4. q \in Messages /\ q.kind = "user" /\ q.run = run + 1
  BY <1>1, ConversationAssumption DEF Question, Messages
<1>5. t \in Seq(Messages)
  <2>1. (IF setup.direct THEN past ELSE <<>>) \in Seq(Messages)
    BY <1>1, EmptySeq
  <2>2. QED
    BY <1>2, <2>1, Joined
<1>6. messages' = t \o one
  BY <1>3
<1> HIDE DEF q, t
<1>7. one \in Seq(Messages) /\ Len(one) = 1 /\ one[1] = q
  BY <1>4
<1> HIDE DEF one
<1> DEFINE v == t \o one
<1>8. v \in Seq(Messages) /\ Len(v) = Len(t) + 1 /\ v[Len(t) + 1] = q
  <2>1. /\ v \in Seq(Messages) /\ Len(v) = Len(t) + Len(one)
        /\ \A i \in 1..Len(one) : v[Len(t) + i] = one[i]
    BY <1>5, <1>7, Joined
  <2> HIDE DEF v
  <2>2. 1 \in 1..Len(one)
    BY <1>7
  <2>3. QED
    BY <1>7, <2>1, <2>2
<1> HIDE DEF v
<1>9. Len(t) + 1 \in DOMAIN v /\ v # <<>>
  <2>1. Len(t) \in Nat
    BY <1>5, LenProperties
  <2>2. DOMAIN v = 1..Len(t) + 1 /\ Len(v) # 0
    BY <1>8, <2>1, LenProperties
  <2>3. QED
    BY <2>1, <2>2, EmptySeq
<1>10. made' = v /\ messages' = v /\ run' = run + 1
  BY <1>6 DEF Begin, v
<1>11. QED
  BY <1>4, <1>8, <1>9, <1>10

\* The question of a run is found among the messages made.
LEMMA AskedType ==
  ASSUME TypeInv, Running
  PROVE  /\ made[Asked] \in Messages
         /\ made[Asked].kind = "user" /\ made[Asked].run = run
<1>1. Asked \in DOMAIN made /\ made[Asked].kind = "user" /\ made[Asked].run = run
  BY DEF TypeInv, WhereInv, Asked
<1>2. made \in Seq(Messages)
  BY DEF TypeInv, TypeOK
<1>3. QED
  BY <1>1, <1>2, LenProperties, ElementOfSeq

\* An output is at most one text.
LEMMA OutputType ==
  ASSUME TypeInv, Running, NEW output \in Outputs
  PROVE  output = <<>> \/ \E m \in Messages : output = <<m>> /\ m.kind = "text"
<1>1. /\ messages \in Seq(Messages) /\ answer \in Messages
      /\ run \in 1..MaxRuns /\ turn \in 1..MaxTurns
      /\ MaxTurns \in Nat
  BY ConversationAssumption DEF TypeInv, TypeOK, WhereInv
<1>2. CASE answer # Note
  <2>1. AsText(answer) \in Messages /\ AsText(answer).kind = "text"
    BY <1>1, <1>2 DEF AsText, Messages
  <2>2. QED
    BY <1>2, <2>1 DEF Outputs
<1>3. CASE answer = Note /\ LastTexts # {}
  <2>1. PICK i \in LastTexts : output = <<messages[i]>>
    BY <1>3 DEF Outputs
  <2>2. messages[i] \in Messages /\ messages[i].kind = "text"
    BY <1>1, LenProperties, ElementOfSeq DEF LastTexts
  <2>3. QED
    BY <2>1, <2>2
<1>4. CASE answer = Note /\ LastTexts = {}
  <2>1. Payload \in Messages /\ Payload.kind = "text"
    BY <1>1 DEF Payload, Messages
  <2>2. QED
    BY <1>4, <2>1 DEF Outputs
<1>5. QED
  BY <1>2, <1>3, <1>4

\* Adding a message to those made.
LEMMA MadeGrows ==
  ASSUME TypeInv, Running, NEW m \in Messages
  PROVE  /\ Append(made, m) \in Seq(Messages) /\ Append(made, m) # <<>>
         /\ \E i \in DOMAIN Append(made, m) :
              Append(made, m)[i].kind = "user" /\ Append(made, m)[i].run = run
<1>1. made \in Seq(Messages)
  BY DEF TypeInv, TypeOK
<1>2. PICK i \in DOMAIN made : made[i].kind = "user" /\ made[i].run = run
  BY DEF TypeInv, WhereInv
<1> DEFINE v == Append(made, m)
<1>3. /\ v \in Seq(Messages) /\ v # <<>> /\ Len(v) = Len(made) + 1
      /\ \A j \in 1..Len(made) : v[j] = made[j]
  BY <1>1, AppendProperties
<1> HIDE DEF v
<1>4. i \in 1..Len(made) /\ i \in DOMAIN v
  BY <1>1, <1>3, LenProperties
<1>5. QED
  BY <1>2, <1>3, <1>4 DEF v

\* What a run leaves in the session: its question, and perhaps a text.
LEMMA Recorded ==
  ASSUME TypeInv, Finish \/ Fail
  PROVE  /\ past' \in Seq(Messages)
         /\ IsPrefix(past, past')
         /\ \A i \in 1..Len(past) : past'[i] = past[i]
         /\ Len(past') - Len(past) \in 1..2
         /\ past'[Len(past) + 1].kind = "user" /\ past'[Len(past) + 1].run = run
         /\ Last(past').kind \in {"user", "text"}
<1> DEFINE q == made[Asked]
           p == Append(past, q)
<1>1. Running
  BY DEF Finish, Fail, Running
<1>2. q \in Messages /\ q.kind = "user" /\ q.run = run
  BY <1>1, AskedType
<1>3. past \in Seq(Messages) /\ Len(past) \in Nat
  BY LenProperties DEF TypeInv, TypeOK
<1> HIDE DEF q
<1>4. /\ p \in Seq(Messages) /\ Len(p) = Len(past) + 1
      /\ \A i \in 1..Len(past) : p[i] = past[i]
      /\ p[Len(past) + 1] = q
  BY <1>2, <1>3, AppendProperties
<1>5. past' = p \/ \E m \in Messages : past' = Append(p, m) /\ m.kind = "text"
  <2>1. CASE Fail
    BY <2>1 DEF Fail, q
  <2>2. CASE Finish
    <3>1. PICK output \in Outputs : past' = p \o output
      BY <2>2 DEF Finish, q
    <3>2. CASE output = <<>>
      BY <1>4, <3>1, <3>2, ConcatEmptySeq
    <3>3. CASE \E m \in Messages : output = <<m>> /\ m.kind = "text"
      <4>1. PICK m \in Messages : output = <<m>> /\ m.kind = "text"
        BY <3>3
      <4>2. Append(p, m) = p \o <<m>>
        BY <1>4, AppendIsConcat
      <4>3. QED
        BY <3>1, <4>1, <4>2
    <3>4. QED
      BY <1>1, <3>2, <3>3, OutputType
  <2>3. QED
    BY <2>1, <2>2
<1> HIDE DEF p
<1>6. /\ past' \in Seq(Messages)
      /\ Len(past') \in {Len(past) + 1, Len(past) + 2}
      /\ \A i \in 1..Len(past) + 1 : past'[i] = p[i]
      /\ past'[Len(past')].kind \in {"user", "text"}
  <2>1. CASE past' = p
    BY <1>2, <1>4, <2>1
  <2>2. ASSUME NEW m \in Messages, past' = Append(p, m), m.kind = "text"
        PROVE  /\ past' \in Seq(Messages)
               /\ Len(past') = Len(past) + 2
               /\ \A i \in 1..Len(past) + 1 : past'[i] = p[i]
               /\ past'[Len(past')].kind = "text"
    <3> DEFINE v == Append(p, m)
    <3>1. /\ v \in Seq(Messages) /\ Len(v) = Len(p) + 1
          /\ \A i \in 1..Len(p) : v[i] = p[i]
          /\ v[Len(p) + 1] = m
      BY <1>4, AppendProperties
    <3>2. past' = v
      BY <2>2
    <3> HIDE DEF v
    <3>3. Len(p) + 1 = Len(past) + 2
      BY <1>3, <1>4
    <3>4. QED
      BY <1>4, <2>2, <3>1, <3>2, <3>3
  <2>3. QED
    BY <1>5, <2>1, <2>2
<1>7. IsPrefix(past, past')
  <2>1. \A i \in 1..Len(past) : i \in 1..Len(past) + 1 /\ past'[i] = past[i] /\ i \in 1..Len(past')
    BY <1>3, <1>4, <1>6
  <2>2. SubSeq(past, 1, Len(past)) = past
    BY <1>3, SubSeqFull
  <2>3. SubSeq(past', 1, Len(past)) = past
    <3> DEFINE v == SubSeq(past', 1, Len(past))
    <3>1. \A i \in 1..Len(past) : past'[i] \in Messages
      BY <1>6, <2>1, ElementOfSeq
    <3>2. /\ v \in Seq(Messages)
          /\ Len(v) = IF 1 <= Len(past) THEN Len(past) - 1 + 1 ELSE 0
          /\ \A i \in 1..Len(past) - 1 + 1 : v[i] = past'[1 + i - 1]
      BY <1>3, <3>1, SubSeqProperties
    <3> HIDE DEF v
    <3>3. Len(v) = Len(past) /\ \A i \in 1..Len(past) : v[i] = past'[i]
      BY <1>3, <3>2
    <3>4. \A i \in 1..Len(v) : v[i] = past[i]
      BY <2>1, <3>3
    <3>5. v = past
      BY <1>3, <3>2, <3>3, <3>4, SeqEqual
    <3>6. QED
      BY <3>5 DEF v
  <2>4. QED
    BY <1>3, <1>6, <2>2, <2>3 DEF IsPrefix
<1>8. Len(past') - Len(past) \in 1..2
  BY <1>3, <1>6
<1>9. past'[Len(past) + 1] = q
  BY <1>3, <1>4, <1>6
<1>10. \A i \in 1..Len(past) : past'[i] = past[i]
  BY <1>3, <1>4, <1>6
<1>11. QED
  BY <1>2, <1>6, <1>7, <1>8, <1>9, <1>10 DEF Last

LEMMA InitType == Init => TypeInv
<1> SUFFICES ASSUME Init PROVE TypeInv
  OBVIOUS
<1> USE ConversationAssumption, NoteType DEF Init
<1>1. past \in Seq(Messages) /\ messages \in Seq(Messages) /\ made \in Seq(Messages)
  BY EmptySeq
<1>2. stored \subseteq Messages /\ truncated \subseteq Messages /\ answer \in Messages
  OBVIOUS
<1>3. attempt \in 0..setup.retries
  BY SetupTypes
<1>4. QED
  BY <1>1, <1>2, <1>3 DEF TypeInv, TypeOK, WhereInv, Running

\* Every step keeps the types.
LEMMA StepType == TypeInv /\ [Next]_vars => TypeInv'
<1> SUFFICES ASSUME TypeInv, [Next]_vars PROVE TypeInv'
  OBVIOUS
<1> TypeOK /\ (Running => messages # <<>>)
  BY DEF TypeInv, WhereInv
<1> setup \in Setups /\ setup.retries \in Nat /\ MaxRuns \in Nat /\ MaxTurns \in Nat \ {0}
  BY ConversationAssumption, SetupTypes DEF TypeOK
<1>1. CASE Begin
  <2>1. /\ messages' \in Seq(Messages) /\ messages' # <<>>
        /\ \E i \in DOMAIN made' : made'[i].kind = "user" /\ made'[i].run = run'
    BY <1>1, BeginMessages
  <2>2. made' = messages' /\ run' \in 1..MaxRuns /\ run' \in 0..MaxRuns
    BY <1>1 DEF Begin, TypeOK
  <2>3. stored' \subseteq Messages /\ truncated' \subseteq Messages /\ answer' \in Messages
    BY <1>1, NoteType DEF Begin
  <2>4. /\ setup' \in Setups /\ past' \in Seq(Messages)
        /\ pc' \in {"idle", "context", "call", "act", "boundary"}
        /\ turn' \in 1..MaxTurns /\ turn' \in 0..MaxTurns /\ attempt' \in 0..setup'.retries
    BY <1>1 DEF Begin, TypeOK
  <2>5. TypeOK'
    BY <2>1, <2>2, <2>3, <2>4 DEF TypeOK
  <2>6. WhereInv'
    BY <2>1, <2>2, <2>4 DEF WhereInv
  <2>7. QED
    BY <2>5, <2>6 DEF TypeInv
<1>2. CASE Context
  <2>1. /\ messages' \in Seq(Messages) /\ messages' # <<>>
        /\ stored' \subseteq Messages
    BY <1>2, ContextKeeps DEF Context, TypeOK, Running
  <2>2. QED
    BY <1>2, <2>1 DEF Context, TypeInv, TypeOK, WhereInv, Running
<1>3. CASE CallAgain
  <2>1. /\ messages' \in Seq(Messages) /\ messages' # <<>>
        /\ truncated' \subseteq Messages
    BY <1>3, TruncateType DEF CallAgain, Truncate, TypeOK, Running
  <2>2. attempt' \in 0..setup.retries
    BY <1>3 DEF CallAgain, TypeOK
  <2>3. QED
    BY <1>3, <2>1, <2>2 DEF CallAgain, TypeInv, TypeOK, WhereInv, Running
<1>4. ASSUME NEW m \in Messages, Add(m), Truncate, Running
      PROVE  /\ messages' \in Seq(Messages) /\ messages' # <<>>
             /\ truncated' \subseteq Messages
             /\ made' \in Seq(Messages) /\ made' # <<>>
             /\ \E i \in DOMAIN made' : made'[i].kind = "user" /\ made'[i].run = run
  <2>1. messages' \in Seq(Messages) /\ messages' # <<>>
    BY <1>4, TruncateType, AppendProperties DEF Add
  <2>2. truncated' \subseteq Messages
    BY <1>4, TruncateType DEF Truncate, TypeOK
  <2>3. QED
    BY <1>4, <2>1, <2>2, MadeGrows DEF Add
<1>5. ASSUME Running, NEW kind \in {"text", "uses", "results"}, NEW long \in BOOLEAN
      PROVE  [kind |-> kind, run |-> run, turn |-> turn, long |-> long] \in Messages
  BY <1>5 DEF TypeInv, TypeOK, WhereInv, Messages
<1>6. CASE ReplyText
  <2> Running /\ Truncate
    BY <1>6 DEF ReplyText, Running
  <2>1. CASE messages' = Truncated(messages) /\ UNCHANGED <<made, answer>>
    <3>1. /\ messages' \in Seq(Messages) /\ messages' # <<>>
          /\ truncated' \subseteq Messages
      BY <2>1, TruncateType DEF Truncate, TypeOK
    <3>2. QED
      BY <1>6, <2>1, <3>1 DEF ReplyText, TypeInv, TypeOK, WhereInv, Running
  <2>2. ASSUME NEW m \in Messages, Add(m), answer' = m
        PROVE  TypeInv'
    BY <1>4, <1>6, <2>2 DEF ReplyText, TypeInv, TypeOK, WhereInv, Running
  <2>3. QED
    BY <1>5, <1>6, <2>1, <2>2 DEF ReplyText
<1>7. CASE ReplyCalls
  <2> Running /\ Truncate
    BY <1>7 DEF ReplyCalls, Running
  <2>1. ASSUME NEW m \in Messages, Add(m), answer' = m \/ answer' = answer
        PROVE  TypeInv'
    BY <1>4, <1>7, <2>1 DEF ReplyCalls, TypeInv, TypeOK, WhereInv, Running
  <2>2. QED
    BY <1>5, <1>7, <2>1 DEF ReplyCalls
<1>8. CASE Results
  <2> DEFINE results == [kind |-> "results", run |-> run, turn |-> turn, long |-> FALSE]
  <2> Running
    BY <1>8 DEF Results, Running
  <2>1. results \in Messages
    BY <1>5
  <2>2. messages' = Append(messages, results) /\ made' = Append(made, results)
    BY <1>8 DEF Results
  <2> HIDE DEF results
  <2>3. messages' \in Seq(Messages) /\ messages' # <<>>
    BY <2>1, <2>2, AppendProperties DEF TypeOK
  <2>4. /\ made' \in Seq(Messages) /\ made' # <<>>
        /\ \E i \in DOMAIN made' : made'[i].kind = "user" /\ made'[i].run = run
    BY <2>1, <2>2, MadeGrows
  <2>5. QED
    BY <1>8, <2>3, <2>4 DEF Results, TypeInv, TypeOK, WhereInv, Running
<1>9. CASE NextTurn
  BY <1>9 DEF NextTurn, TypeInv, TypeOK, WhereInv, Running
<1>10. CASE Finish \/ Fail \/ Cancel
  <2>1. past' \in Seq(Messages)
    BY <1>10, Recorded DEF Cancel, TypeOK
  <2>2. QED
    BY <1>10, <2>1 DEF Finish, Fail, Cancel, TypeInv, TypeOK, WhereInv, Running
<1>11. CASE UNCHANGED vars
  BY <1>11 DEF vars, TypeInv, TypeOK, WhereInv, Running
<1>12. QED
  BY <1>1, <1>2, <1>3, <1>6, <1>7, <1>8, <1>9, <1>10, <1>11 DEF Next, Step

\* Every variable keeps its type: Spec implies TypeOK.
THEOREM TypeCorrect == Spec => []TypeOK
<1>1. TypeInv => TypeOK
  BY DEF TypeInv
<1>2. QED
  BY <1>1, InitType, StepType, PTL DEF Spec

\* The session only grows, by a question and perhaps a text (HarnessSession.run): Spec
\* implies PastGrows.
THEOREM OnlyGrows == Spec => PastGrows
<1>1. TypeInv /\ [Next]_vars =>
        [past' # past =>
           /\ IsPrefix(past, past')
           /\ Len(past') - Len(past) \in 1..2
           /\ past'[Len(past) + 1].kind = "user" /\ past'[Len(past) + 1].run = run
           /\ Last(past').kind \in {"user", "text"}]_vars
  <2> SUFFICES ASSUME TypeInv, [Next]_vars, past' # past
               PROVE  /\ IsPrefix(past, past')
                      /\ Len(past') - Len(past) \in 1..2
                      /\ past'[Len(past) + 1].kind = "user" /\ past'[Len(past) + 1].run = run
                      /\ Last(past').kind \in {"user", "text"}
    OBVIOUS
  <2>1. Finish \/ Fail
    BY DEF Next, Step, Begin, Context, CallAgain, ReplyText, ReplyCalls, Results, NextTurn,
       Cancel, vars
  <2>2. QED
    BY <2>1, Recorded
<1>2. QED
  BY <1>1, InitType, StepType, PTL DEF Spec, PastGrows

-----------------------------------------------------------------------------
(* The ends of the conversation *)

\* The messages end with the newest message made; they begin with the oldest unless the
\* window slides.
EndsInv ==
  Running =>
    /\ Last(messages) = Last(made)
    /\ setup.strategy # "sliding_window" => messages[1] = made[1]

\* Appending keeps the first message and makes the new one the last.
LEMMA AppendEnds ==
  ASSUME NEW s \in Seq(Messages), s # <<>>, NEW m \in Messages
  PROVE  Append(s, m)[1] = s[1] /\ Last(Append(s, m)) = m
<1> DEFINE v == Append(s, m)
<1>1. Len(s) \in Nat /\ Len(s) > 0
  BY EmptySeq, LenProperties
<1>2. /\ Len(v) = Len(s) + 1
      /\ \A i \in 1..Len(s) : v[i] = s[i]
      /\ v[Len(s) + 1] = m
  BY AppendProperties
<1> HIDE DEF v
<1>3. 1 \in 1..Len(s)
  BY <1>1
<1>4. v[1] = s[1] /\ v[Len(v)] = m
  BY <1>2, <1>3
<1>5. QED
  BY <1>4 DEF v, Last

LEMMA StepEnds == TypeInv /\ EndsInv /\ [Next]_vars => EndsInv'
<1> SUFFICES ASSUME TypeInv, EndsInv, [Next]_vars, Running' PROVE EndsInv'
  BY DEF EndsInv
<1> TypeOK /\ setup \in Setups /\ made \in Seq(Messages) /\ messages \in Seq(Messages)
  BY DEF TypeInv, TypeOK
<1> Running => messages # <<>> /\ made # <<>>
  BY DEF TypeInv, WhereInv
<1>1. CASE Begin
  BY <1>1 DEF Begin, EndsInv
<1>2. CASE Context
  <2>1. /\ Last(messages') = Last(messages)
        /\ setup.strategy # "sliding_window" => messages'[1] = messages[1]
    BY <1>2, ContextKeeps DEF Context, TypeOK, Running
  <2>2. QED
    BY <1>2, <2>1 DEF Context, EndsInv, Running
<1>3. CASE CallAgain
  <2>1. Last(messages') = Last(messages) /\ messages'[1] = messages[1]
    BY <1>3, TruncateType DEF CallAgain, Running
  <2>2. QED
    BY <1>3, <2>1 DEF CallAgain, EndsInv, Running
<1>4. ASSUME NEW kind \in {"text", "uses", "results"}, NEW long \in BOOLEAN, Running,
             NEW s \in Seq(Messages), s # <<>>, s[1] = messages[1],
             messages' = Append(s, [kind |-> kind, run |-> run, turn |-> turn, long |-> long]),
             made' = Append(made, [kind |-> kind, run |-> run, turn |-> turn, long |-> long]),
             setup' = setup
      PROVE  EndsInv'
  <2> DEFINE m == [kind |-> kind, run |-> run, turn |-> turn, long |-> long]
  <2>1. m \in Messages
    BY <1>4 DEF TypeInv, TypeOK, WhereInv, Messages
  <2> HIDE DEF m
  <2>2. messages' = Append(s, m) /\ made' = Append(made, m)
    BY <1>4 DEF m
  <2>3. messages'[1] = messages[1] /\ Last(messages') = m
    BY <1>4, <2>1, <2>2, AppendEnds
  <2>4. made'[1] = made[1] /\ Last(made') = m
    BY <1>4, <2>1, <2>2, AppendEnds
  <2>5. QED
    BY <1>4, <2>3, <2>4 DEF EndsInv
<1>5. CASE ReplyText
  <2>1. Running /\ setup' = setup
    BY <1>5 DEF ReplyText, Running
  <2>2. /\ Truncated(messages) \in Seq(Messages) /\ Truncated(messages) # <<>>
        /\ Truncated(messages)[1] = messages[1] /\ Last(Truncated(messages)) = Last(messages)
    BY <2>1, TruncateType
  <2>3. CASE messages' = Truncated(messages) /\ UNCHANGED <<made, answer>>
    BY <2>1, <2>2, <2>3 DEF EndsInv
  <2>4. QED
    BY <1>4, <1>5, <2>1, <2>2, <2>3 DEF ReplyText, Add
<1>6. CASE ReplyCalls
  <2>1. Running /\ setup' = setup
    BY <1>6 DEF ReplyCalls, Running
  <2>2. /\ Truncated(messages) \in Seq(Messages) /\ Truncated(messages) # <<>>
        /\ Truncated(messages)[1] = messages[1]
    BY <2>1, TruncateType
  <2>3. QED
    BY <1>4, <1>6, <2>1, <2>2 DEF ReplyCalls, Add
<1>7. CASE Results
  BY <1>4, <1>7 DEF Results, Running
<1>8. CASE NextTurn
  BY <1>8 DEF NextTurn, EndsInv, Running
<1>9. CASE Finish \/ Fail \/ Cancel
  BY <1>9 DEF Finish, Fail, Cancel, Running
<1>10. CASE UNCHANGED vars
  BY <1>10 DEF vars, EndsInv, Running
<1>11. QED
  BY <1>1, <1>2, <1>3, <1>5, <1>6, <1>7, <1>8, <1>9, <1>10 DEF Next, Step

\* The LLM gets the newest message last and, unless the window slides, the oldest first,
\* whatever was compacted, truncated and retried: Spec implies EndsKept.
THEOREM Ends == Spec => []EndsKept
<1>1. Init => EndsInv
  BY DEF Init, EndsInv, Running
<1>2. TypeInv /\ EndsInv => EndsKept
  <2> SUFFICES ASSUME TypeInv, EndsInv, Running
               PROVE  /\ Last(Truncated(messages)) = Last(made)
                      /\ setup.strategy # "sliding_window" =>
                           Head(Truncated(messages)) = Head(made)
    BY DEF EndsKept
  <2>1. TypeOK /\ messages # <<>> /\ made # <<>> /\ made \in Seq(Messages)
    BY DEF TypeInv, TypeOK, WhereInv
  <2>2. /\ Truncated(messages) \in Seq(Messages) /\ Truncated(messages) # <<>>
        /\ Truncated(messages)[1] = messages[1]
        /\ Last(Truncated(messages)) = Last(messages)
    BY <2>1, TruncateType
  <2>3. Head(Truncated(messages)) = Truncated(messages)[1] /\ Head(made) = made[1]
    BY <2>1, <2>2
  <2>4. QED
    BY <2>2, <2>3 DEF EndsInv
<1>3. QED
  BY <1>1, <1>2, InitType, StepType, StepEnds, PTL DEF Spec

-----------------------------------------------------------------------------
(* What is folded can be fetched. *)

\* The elements of the last ones, and of what is left when they are taken away.
LEMMA LastOnesElements ==
  ASSUME NEW S, NEW s \in Seq(S), NEW k \in Nat
  PROVE  /\ LastOnes(s, k) \in Seq(S)
         /\ Elements(LastOnes(s, k)) \subseteq Elements(s)
         /\ Len(s) > k + 1 =>
              Elements(s) \subseteq {s[1]} \cup Elements(Middle(s, k)) \cup Elements(LastOnes(s, k))
<1>1. Len(s) \in Nat /\ DOMAIN s = 1..Len(s)
  BY LenProperties
<1>2. CASE k = 0 \/ k > Len(s)
  BY <1>2 DEF LastOnes
<1>3. CASE ~(k = 0 \/ k > Len(s))
  <2> DEFINE from == Len(s) - k + 1
  <2>1. from \in Nat \ {0} /\ from <= Len(s)
    BY <1>1, <1>3
  <2>2. LastOnes(s, k) = SubSeq(s, from, Len(s))
    BY <1>3 DEF LastOnes
  <2> HIDE DEF from
  <2>3. LastOnes(s, k) \in Seq(S) /\ Elements(LastOnes(s, k)) = {s[i] : i \in from..Len(s)}
    BY <1>1, <2>1, <2>2, PartOf
  <2>4. Elements(LastOnes(s, k)) \subseteq Elements(s)
    <3>1. \A i \in from..Len(s) : i \in 1..Len(s)
      BY <1>1, <2>1
    <3>2. QED
      BY <1>1, <2>3, <3>1 DEF Elements
  <2>5. ASSUME Len(s) > k + 1
        PROVE  Elements(s) \subseteq {s[1]} \cup Elements(Middle(s, k)) \cup Elements(LastOnes(s, k))
    <3>1. /\ 2 \in Nat \ {0} /\ Len(s) - k \in Nat
          /\ 2 <= Len(s) - k /\ Len(s) - k <= Len(s)
      BY <1>1, <2>5
    <3>2. Elements(SubSeq(s, 2, Len(s) - k)) = {s[i] : i \in 2..(Len(s) - k)}
      BY <3>1, PartOf
    <3>3. Elements(Middle(s, k)) = {s[i] : i \in 2..(Len(s) - k)}
      BY <1>3, <3>2 DEF Middle
    <3>4. \A i \in 1..Len(s) : i = 1 \/ i \in 2..(Len(s) - k) \/ i \in from..Len(s)
      BY <1>1 DEF from
    <3>5. QED
      BY <1>1, <2>3, <3>3, <3>4 DEF Elements
  <2>6. QED
    BY <2>3, <2>4, <2>5
<1>4. QED
  BY <1>2, <1>3

\* Folding stores what it takes away, and puts nothing but a note into its place.
LEMMA FoldElements ==
  ASSUME setup \in Setups, messages \in Seq(Messages), messages # <<>>,
         NEW noted \in BOOLEAN, Fold(noted)
  PROVE  /\ Elements(messages) \subseteq Elements(messages') \cup stored'
         /\ Elements(messages') \subseteq Elements(messages) \cup {Note}
<1> DEFINE k == setup.keep
           l == LastOnes(messages, k)
           t == <<Head(messages), Note>>
<1>1. k \in Nat
  BY SetupTypes
<1>2. Len(messages) \in Nat /\ Len(messages) > 0
  BY EmptySeq, LenProperties
<1>3. Head(messages) = messages[1] /\ messages[1] \in Messages /\ messages[1] \in Elements(messages)
  <2>1. 1 \in 1..Len(messages) /\ DOMAIN messages = 1..Len(messages)
    BY <1>2, LenProperties
  <2>2. QED
    BY <2>1, ElementOfSeq DEF Elements
<1>4. Len(messages) > k + 1 /\ stored' = stored \cup Elements(Middle(messages, k))
  BY DEF Fold, Foldable
<1>5. CASE ~noted
  BY <1>5 DEF Fold
<1>6. CASE noted
  <2>1. messages' = t \o l
    BY <1>6 DEF Fold
  <2>2. t \in Seq(Messages) /\ Elements(t) = {messages[1], Note}
    <3>1. t \in Seq(Messages) /\ DOMAIN t = {1, 2} /\ t[1] = messages[1] /\ t[2] = Note
      BY <1>3, NoteType
    <3> HIDE DEF t
    <3>2. QED
      BY <3>1 DEF Elements
  <2> HIDE DEF k
  <2>3. /\ l \in Seq(Messages) /\ Elements(l) \subseteq Elements(messages)
        /\ Elements(messages) \subseteq
             {messages[1]} \cup Elements(Middle(messages, k)) \cup Elements(l)
    BY <1>1, <1>4, LastOnesElements
  <2> HIDE DEF l, t
  <2>4. Elements(t \o l) = Elements(t) \cup Elements(l)
    BY <2>2, <2>3, JoinedElements
  <2>5. QED
    BY <1>3, <1>4, <2>1, <2>2, <2>3, <2>4
<1>7. QED
  BY <1>5, <1>6

LEMMA AppendElements ==
  ASSUME NEW s \in Seq(Messages), NEW m \in Messages
  PROVE  Elements(Append(s, m)) = Elements(s) \cup {m}
<1> DEFINE v == Append(s, m)
<1>1. /\ v \in Seq(Messages) /\ Len(v) = Len(s) + 1
      /\ \A i \in 1..Len(s) : v[i] = s[i]
      /\ v[Len(s) + 1] = m
  BY AppendProperties
<1>2. Len(s) \in Nat /\ DOMAIN s = 1..Len(s) /\ DOMAIN v = 1..Len(s) + 1
  BY <1>1, LenProperties
<1> HIDE DEF v
<1>3. \A i \in 1..Len(s) + 1 : i \in 1..Len(s) \/ i = Len(s) + 1
  BY <1>2
<1>4. \A i \in 1..Len(s) : i \in 1..Len(s) + 1
  BY <1>2
<1>5. Len(s) + 1 \in 1..Len(s) + 1
  BY <1>2
<1>6. Elements(v) \subseteq Elements(s) \cup {m}
  BY <1>1, <1>2, <1>3 DEF Elements
<1>7. Elements(s) \cup {m} \subseteq Elements(v)
  BY <1>1, <1>2, <1>4, <1>5 DEF Elements
<1>8. QED
  BY <1>6, <1>7 DEF v

LEMMA StepFetch == TypeInv /\ Fetchable /\ [Next]_vars => Fetchable'
<1> DEFINE Folds == setup.strategy \notin {"token_budget", "sliding_window"}
<1> SUFFICES ASSUME TypeInv, Fetchable, [Next]_vars, Running', Folds'
             PROVE  Elements(made') \subseteq Elements(messages') \cup stored' \cup truncated'
  BY DEF Fetchable
<1> TypeOK /\ setup \in Setups /\ made \in Seq(Messages) /\ messages \in Seq(Messages)
  BY DEF TypeInv, TypeOK
<1> Running => messages # <<>>
  BY DEF TypeInv, WhereInv
<1> setup' = setup /\ Folds
  BY DEF Next, Step, Begin, Context, CallAgain, ReplyText, ReplyCalls, Results, NextTurn,
     Finish, Fail, Cancel, vars
<1>1. Running => Elements(made) \subseteq Elements(messages) \cup stored \cup truncated
  BY DEF Fetchable
<1>2. CASE Begin
  BY <1>2 DEF Begin
<1>3. CASE Context
  <2>1. Running /\ made' = made /\ truncated' = truncated
    BY <1>3 DEF Context, Running
  <2>2. CASE UNCHANGED <<messages, stored>>
    BY <1>1, <2>1, <2>2
  <2>3. ASSUME NEW noted \in BOOLEAN, Fold(noted)
        PROVE  Elements(messages) \cup stored \subseteq Elements(messages') \cup stored'
    BY <2>1, <2>3, FoldElements DEF Fold
  <2>4. QED
    BY <1>1, <1>3, <2>1, <2>2, <2>3 DEF Context, Compact, NoPressure, Collapse, Autocompact
<1>4. ASSUME Running, Truncate
      PROVE  /\ Truncated(messages) \in Seq(Messages)
             /\ Elements(messages) \cup truncated \subseteq
                  Elements(Truncated(messages)) \cup truncated'
  BY <1>4, NoteType, TruncateType, TruncatedLoses DEF Truncate
<1>5. CASE CallAgain
  BY <1>1, <1>4, <1>5 DEF CallAgain, Running
<1>6. ASSUME NEW kind \in {"text", "uses", "results"}, NEW long \in BOOLEAN, Running,
             NEW s \in Seq(Messages),
             Elements(messages) \cup truncated \subseteq Elements(s) \cup truncated',
             messages' = Append(s, [kind |-> kind, run |-> run, turn |-> turn, long |-> long]),
             made' = Append(made, [kind |-> kind, run |-> run, turn |-> turn, long |-> long]),
             stored' = stored
      PROVE  Elements(made') \subseteq Elements(messages') \cup stored' \cup truncated'
  <2> DEFINE m == [kind |-> kind, run |-> run, turn |-> turn, long |-> long]
  <2>1. m \in Messages
    BY <1>6 DEF TypeInv, TypeOK, WhereInv, Messages
  <2>2. messages' = Append(s, m) /\ made' = Append(made, m)
    BY <1>6
  <2> HIDE DEF m
  <2>3. Elements(messages') = Elements(s) \cup {m} /\ Elements(made') = Elements(made) \cup {m}
    BY <2>1, <2>2, AppendElements
  <2>4. QED
    BY <1>1, <1>6, <2>3
<1>7. CASE ReplyText
  <2>1. Running /\ Truncate /\ stored' = stored
    BY <1>7 DEF ReplyText, Running
  <2>2. CASE messages' = Truncated(messages) /\ UNCHANGED <<made, answer>>
    BY <1>1, <1>4, <2>1, <2>2
  <2>3. QED
    BY <1>4, <1>6, <1>7, <2>1, <2>2 DEF ReplyText, Add
<1>8. CASE ReplyCalls
  <2>1. Running /\ Truncate /\ stored' = stored
    BY <1>8 DEF ReplyCalls, Running
  <2>2. QED
    BY <1>4, <1>6, <1>8, <2>1 DEF ReplyCalls, Add
<1>9. CASE Results
  <2>1. Running /\ stored' = stored /\ truncated' = truncated
    BY <1>9 DEF Results, Running
  <2>2. QED
    BY <1>6, <1>9, <2>1 DEF Results
<1>10. CASE NextTurn
  BY <1>1, <1>10 DEF NextTurn, Running
<1>11. CASE Finish \/ Fail \/ Cancel
  BY <1>11 DEF Finish, Fail, Cancel, Running
<1>12. CASE UNCHANGED vars
  BY <1>1, <1>12 DEF vars, Running
<1>13. QED
  BY <1>2, <1>3, <1>5, <1>7, <1>8, <1>9, <1>10, <1>11, <1>12 DEF Next, Step

\* The strategies that fold lose nothing: Spec implies Fetchable.
THEOREM NothingLost == Spec => []Fetchable
<1>1. Init => Fetchable
  BY DEF Init, Fetchable, Running
<1>2. QED
  BY <1>1, InitType, StepType, StepFetch, PTL DEF Spec

-----------------------------------------------------------------------------
(* Calls and their results stay together. *)

Before(s, i) ==
  s[i].kind = "results" =>
    i > 1 /\ s[i - 1].kind = "uses" /\ s[i - 1].run = s[i].run /\ s[i - 1].turn = s[i].turn
After(s, i) == s[i].kind = "uses" => i < Len(s) /\ s[i + 1].kind = "results"

\* All calls have their results, or all but the last message.
Closed(s)  == \A i \in DOMAIN s : Before(s, i) /\ After(s, i)
OpenEnd(s) == \A i \in DOMAIN s : Before(s, i) /\ (i < Len(s) => After(s, i))

Spoken == {"user", "text"}

\* The session holds neither calls nor results, nor do the messages of a run before the
\* first call: s06 has nothing to part.
PairInv ==
  /\ \A m \in Elements(past) : m.kind \in Spoken
  /\ pc = "context" /\ turn = 1 => \A m \in Elements(messages) : m.kind \in Spoken
  /\ pc = "act" =>
       /\ Last(messages).kind = "uses"
       /\ Last(messages).run = run /\ Last(messages).turn = turn
  /\ Running /\ truncated = {} =>
       IF pc = "act" THEN OpenEnd(messages) ELSE Closed(messages)

LEMMA PairsFollow == PairInv => PairsUntruncated
BY DEF PairInv, PairsUntruncated, Pair, Closed, OpenEnd, Before, After, Running

\* Messages without calls and results have no pairs to part.
LEMMA SpokenClosed ==
  ASSUME NEW s \in Seq(Messages), \A m \in Elements(s) : m.kind \in Spoken \cup {"note"}
  PROVE  Closed(s)
<1>1. \A i \in DOMAIN s : s[i].kind \in {"user", "text", "note"}
  BY DEF Elements, Spoken
<1>2. QED
  BY <1>1 DEF Closed, Before, After

\* A new message at the end: a text, calls, or the results of the calls before it.
LEMMA AppendPairs ==
  ASSUME NEW s \in Seq(Messages), s # <<>>, NEW m \in Messages
  PROVE  /\ Closed(s) /\ m.kind = "text" => Closed(Append(s, m))
         /\ Closed(s) /\ m.kind = "uses" => OpenEnd(Append(s, m))
         /\ /\ OpenEnd(s) /\ m.kind = "results"
            /\ Last(s).kind = "uses" /\ Last(s).run = m.run /\ Last(s).turn = m.turn
            => Closed(Append(s, m))
<1> DEFINE v == Append(s, m)
           n == Len(s)
<1>1. n \in Nat /\ n > 0 /\ DOMAIN s = 1..n
  BY EmptySeq, LenProperties
<1>2. /\ Len(v) = n + 1 /\ DOMAIN v = 1..n + 1
      /\ \A i \in 1..n : v[i] = s[i]
      /\ v[n + 1] = m
  BY AppendProperties, LenProperties
<1> HIDE DEF v, n
<1>3. ASSUME NEW i \in 1..n, Before(s, i) PROVE Before(v, i)
  <2>1. v[i] = s[i]
    BY <1>2
  <2>2. CASE i > 1
    <3>1. i - 1 \in 1..n
      BY <1>1, <2>2
    <3>2. v[i - 1] = s[i - 1]
      BY <1>2, <3>1
    <3>3. QED
      BY <1>3, <2>1, <3>2 DEF Before
  <2>3. QED
    BY <1>3, <2>1, <2>2 DEF Before
<1>4. ASSUME NEW i \in 1..n, After(s, i) PROVE After(v, i)
  <2>1. v[i] = s[i]
    BY <1>2
  <2>2. CASE i < n
    <3>1. i + 1 \in 1..n /\ i < n + 1
      BY <1>1, <2>2
    <3>2. v[i + 1] = s[i + 1]
      BY <1>2, <3>1
    <3>3. QED
      BY <1>2, <1>4, <2>1, <3>1, <3>2 DEF After
  <2>3. CASE ~(i < n)
    BY <1>4, <2>1, <2>3 DEF After, n
  <2>4. QED
    BY <2>2, <2>3
<1>5. \A i \in 1..n + 1 : i \in 1..n \/ i = n + 1
  BY <1>1
<1>6. ASSUME Closed(s), m.kind \notin {"results", "uses"} PROVE Closed(v)
  <2>1. Before(v, n + 1) /\ After(v, n + 1)
    BY <1>2, <1>6 DEF Before, After
  <2>2. \A i \in 1..n : Before(s, i) /\ After(s, i)
    BY <1>1, <1>6 DEF Closed
  <2>3. QED
    BY <1>2, <1>3, <1>4, <1>5, <2>1, <2>2 DEF Closed
<1>7. ASSUME Closed(s), m.kind = "uses" PROVE OpenEnd(v)
  <2>1. Before(v, n + 1)
    BY <1>2, <1>7 DEF Before
  <2>2. \A i \in 1..n : Before(s, i) /\ After(s, i)
    BY <1>1, <1>7 DEF Closed
  <2>3. ~(n + 1 < Len(v))
    BY <1>1, <1>2
  <2>4. QED
    BY <1>2, <1>3, <1>4, <1>5, <2>1, <2>2, <2>3 DEF OpenEnd
<1>8. ASSUME OpenEnd(s), m.kind = "results", s[n].kind = "uses", s[n].run = m.run,
             s[n].turn = m.turn
      PROVE  Closed(v)
  <2>1. n \in 1..n /\ v[n] = s[n] /\ n + 1 - 1 = n /\ n + 1 > 1 /\ n < n + 1
    BY <1>1, <1>2
  <2>2. Before(v, n + 1) /\ After(v, n + 1)
    BY <1>2, <1>8, <2>1 DEF Before, After
  <2>3. After(v, n)
    BY <1>2, <1>8, <2>1 DEF After
  <2>4. \A i \in 1..n : Before(s, i) /\ (i < n => After(s, i))
    BY <1>1, <1>8 DEF OpenEnd, n
  <2>5. \A i \in 1..n : i < n \/ i = n
    BY <1>1
  <2>6. \A i \in 1..n : Before(v, i) /\ After(v, i)
    BY <1>3, <1>4, <2>3, <2>4, <2>5
  <2>7. QED
    BY <1>2, <1>5, <2>2, <2>6 DEF Closed
<1>9. QED
  BY <1>6, <1>7, <1>8 DEF Last, v, n

\* A run begins with the history and a question.
LEMMA BeginSpoken ==
  ASSUME TypeOK, PairInv, Begin
  PROVE  \A m \in Elements(messages') : m.kind \in Spoken
<1>1. past \in Seq(Messages) /\ setup.maxHistory \in Nat /\ run + 1 \in 1..MaxRuns
  BY SetupTypes, ConversationAssumption DEF TypeOK, Begin
<1> DEFINE front == IF setup.direct THEN past ELSE <<>>
           back  == Recalled
<1>2. front \in Seq(Messages) /\ Elements(front) \subseteq Elements(past)
  BY <1>1, EmptySeq DEF Elements
<1>3. back \in Seq(Messages) /\ Elements(back) \subseteq Elements(past)
  <2>1. CASE ~setup.recall \/ setup.maxHistory = 0
    BY <2>1, EmptySeq DEF Recalled, Elements
  <2>2. CASE ~(~setup.recall \/ setup.maxHistory = 0)
    BY <1>1, <2>2, LastOnesElements DEF Recalled
  <2>3. QED
    BY <2>1, <2>2
<1>4. PICK long \in BOOLEAN : messages' = front \o back \o <<Question(run + 1, long)>>
  BY DEF Begin
<1> DEFINE q == Question(run + 1, long)
           one == <<q>>
           t == front \o back
<1>5. q \in Messages /\ q.kind = "user"
  BY <1>1, ConversationAssumption DEF Question, Messages
<1> HIDE DEF q, front, back
<1>6. one \in Seq(Messages) /\ Elements(one) = {q}
  BY <1>5 DEF Elements
<1> HIDE DEF one
<1>7. t \in Seq(Messages) /\ Elements(t) = Elements(front) \cup Elements(back)
  BY <1>2, <1>3, JoinedElements
<1>8. messages' = t \o one
  BY <1>4 DEF one, q
<1> HIDE DEF t
<1>9. Elements(t \o one) = Elements(t) \cup Elements(one)
  BY <1>6, <1>7, JoinedElements
<1>10. QED
  BY <1>2, <1>3, <1>5, <1>6, <1>7, <1>8, <1>9 DEF PairInv, Spoken

\* Whatever s06 does, it brings in nothing but a note.
LEMMA ContextElements ==
  ASSUME TypeOK, messages # <<>>, Compact \/ NoPressure
  PROVE  Elements(messages') \subseteq Elements(messages) \cup {Note}
<1>1. messages \in Seq(Messages) /\ setup \in Setups /\ setup.keep \in Nat
  BY SetupTypes DEF TypeOK
<1>2. CASE NoPressure
  BY <1>2 DEF NoPressure
<1>3. CASE SlidingWindow
  BY <1>1, <1>3, LastOnesElements DEF SlidingWindow
<1>4. CASE TokenBudget
  <2> DEFINE l == LastOnes(messages, 3)
             one == <<Head(messages)>>
  <2>1. l \in Seq(Messages) /\ Elements(l) \subseteq Elements(messages)
    <3>1. 3 \in Nat
      OBVIOUS
    <3>2. QED
      BY <1>1, <3>1, LastOnesElements
  <2>2. Head(messages) \in Messages /\ Head(messages) \in Elements(messages)
    <3>1. Len(messages) \in Nat /\ Len(messages) > 0 /\ DOMAIN messages = 1..Len(messages)
      BY <1>1, EmptySeq, LenProperties
    <3>2. 1 \in DOMAIN messages /\ Head(messages) = messages[1]
      BY <1>1, <3>1
    <3>3. QED
      BY <1>1, <3>1, <3>2, ElementOfSeq DEF Elements
  <2>3. one \in Seq(Messages) /\ Elements(one) = {Head(messages)}
    BY <2>2 DEF Elements
  <2>4. messages' = one \o l
    BY <1>4 DEF TokenBudget
  <2> HIDE DEF one, l
  <2>5. Elements(one \o l) = Elements(one) \cup Elements(l)
    BY <2>1, <2>3, JoinedElements
  <2>6. QED
    BY <2>1, <2>2, <2>3, <2>4, <2>5
<1>5. ASSUME NEW noted \in BOOLEAN, Fold(noted)
      PROVE  Elements(messages') \subseteq Elements(messages) \cup {Note}
  BY <1>1, <1>5, FoldElements
<1>6. QED
  BY <1>2, <1>3, <1>4, <1>5 DEF Compact, Collapse, Autocompact

\* The session records nothing but a question and a text.
LEMMA RecordedSpoken ==
  ASSUME TypeInv, PairInv, Finish \/ Fail
  PROVE  \A m \in Elements(past') : m.kind \in Spoken
<1> DEFINE n == Len(past)
<1>1. /\ past' \in Seq(Messages)
      /\ \A i \in 1..n : past'[i] = past[i]
      /\ Len(past') - n \in 1..2
      /\ past'[n + 1].kind = "user"
      /\ Last(past').kind \in {"user", "text"}
  BY Recorded
<1>2. past \in Seq(Messages) /\ n \in Nat /\ DOMAIN past = 1..n
      /\ Len(past') \in Nat /\ DOMAIN past' = 1..Len(past')
  BY <1>1, LenProperties DEF TypeInv, TypeOK
<1> HIDE DEF n
<1>3. Len(past') \in Nat /\ n \in Nat /\ Len(past') - n \in 1..2
  BY <1>1, <1>2
<1>4. \A i \in 1..Len(past') : i \in 1..n \/ i = n + 1 \/ i = Len(past')
  BY <1>3
<1>5. \A i \in 1..n : past'[i].kind \in Spoken
  BY <1>1, <1>2 DEF PairInv, Elements
<1>6. past'[Len(past')].kind \in Spoken /\ past'[n + 1].kind \in Spoken
  BY <1>1 DEF Last, Spoken
<1>7. \A i \in DOMAIN past' : past'[i].kind \in Spoken
  BY <1>2, <1>4, <1>5, <1>6
<1>8. QED
  BY <1>7 DEF Elements

LEMMA StepPairs == TypeInv /\ PairInv /\ [Next]_vars => PairInv'
<1> SUFFICES ASSUME TypeInv, PairInv, [Next]_vars PROVE PairInv'
  OBVIOUS
<1> TypeOK /\ (Running => messages # <<>>)
  BY DEF TypeInv, WhereInv
<1> setup \in Setups /\ messages \in Seq(Messages)
  BY DEF TypeOK
<1>1. CASE Begin
  <2>1. \A m \in Elements(messages') : m.kind \in Spoken
    BY <1>1, BeginSpoken
  <2>2. messages' \in Seq(Messages)
    BY <1>1, BeginMessages
  <2>3. Closed(messages')
    BY <2>1, <2>2, SpokenClosed
  <2>4. pc' = "context" /\ past' = past
    BY <1>1 DEF Begin
  <2>5. QED
    BY <2>1, <2>3, <2>4 DEF PairInv
<1>2. CASE Context
  <2>1. /\ pc = "context" /\ pc' = "call" /\ past' = past /\ truncated' = truncated
        /\ Running
    BY <1>2 DEF Context, Running
  <2>2. CASE turn > 1
    BY <1>2, <2>1, <2>2 DEF Context, PairInv, Running
  <2>3. CASE ~(turn > 1)
    <3>1. turn = 1
      BY <2>1, <2>3, ConversationAssumption DEF TypeInv, WhereInv
    <3>2. Compact \/ NoPressure
      BY <1>2, <2>3 DEF Context
    <3>3. messages' \in Seq(Messages)
      BY <2>1, <3>2, ContextKeeps DEF TypeOK
    <3>4. Elements(messages') \subseteq Elements(messages) \cup {Note}
      BY <2>1, <3>2, ContextElements
    <3>5. \A m \in Elements(messages') : m.kind \in Spoken \cup {"note"}
      BY <2>1, <3>1, <3>4 DEF PairInv, Note
    <3>6. Closed(messages')
      BY <3>3, <3>5, SpokenClosed
    <3>7. QED
      BY <2>1, <3>6 DEF PairInv
  <2>4. QED
    BY <2>2, <2>3
<1>3. ASSUME Running, Truncate, pc # "act", truncated' = {}
      PROVE  Truncated(messages) = messages /\ Closed(messages)
  <2>1. truncated = {} /\ Removed(messages) = {}
    BY <1>3 DEF Truncate
  <2>2. QED
    BY <1>3, <2>1, NoteType, TruncatedLoses DEF PairInv
<1>4. CASE CallAgain
  BY <1>3, <1>4 DEF CallAgain, PairInv, Running
<1>5. CASE ReplyText
  <2>1. /\ pc = "call" /\ pc' = "boundary" /\ past' = past /\ Running /\ Truncate
        /\ run \in 1..MaxRuns /\ turn \in 1..MaxTurns
    BY <1>5 DEF ReplyText, Running, TypeInv, WhereInv
  <2>2. SUFFICES ASSUME truncated' = {} PROVE Closed(messages')
    BY <2>1 DEF PairInv
  <2>3. Truncated(messages) = messages /\ Closed(messages)
    BY <1>3, <2>1, <2>2
  <2>4. ASSUME NEW long \in BOOLEAN,
               messages' = Append(messages,
                 [kind |-> "text", run |-> run, turn |-> turn, long |-> long])
        PROVE  Closed(messages')
    <3> DEFINE m == [kind |-> "text", run |-> run, turn |-> turn, long |-> long]
    <3>1. m \in Messages
      BY <2>1, <2>4, ConversationAssumption DEF Messages
    <3>2. m.kind = "text" /\ messages' = Append(messages, m)
      BY <2>4
    <3> HIDE DEF m
    <3>3. QED
      BY <2>1, <2>3, <3>1, <3>2, AppendPairs
  <2>5. QED
    BY <1>5, <2>3, <2>4 DEF ReplyText, Add
<1>6. CASE ReplyCalls
  <2>1. /\ pc = "call" /\ pc' = "act" /\ past' = past /\ Running /\ Truncate
        /\ run' = run /\ turn' = turn
        /\ run \in 1..MaxRuns /\ turn \in 1..MaxTurns
    BY <1>6 DEF ReplyCalls, Running, TypeInv, WhereInv
  <2>2. PICK long \in BOOLEAN :
          messages' = Append(Truncated(messages),
            [kind |-> "uses", run |-> run, turn |-> turn, long |-> long])
    BY <1>6 DEF ReplyCalls, Add
  <2> DEFINE m == [kind |-> "uses", run |-> run, turn |-> turn, long |-> long]
  <2>3. m \in Messages
    BY <2>1, <2>2, ConversationAssumption DEF Messages
  <2>4. /\ m.kind = "uses" /\ m.run = run /\ m.turn = turn
        /\ messages' = Append(Truncated(messages), m)
    BY <2>2
  <2> HIDE DEF m
  <2>5. Last(messages') = m
    BY <2>1, <2>3, <2>4, TruncateType, AppendEnds
  <2>6. truncated' = {} => OpenEnd(messages')
    BY <1>3, <2>1, <2>3, <2>4, AppendPairs
  <2>7. QED
    BY <2>1, <2>4, <2>5, <2>6 DEF PairInv
<1>7. CASE Results
  <2>1. /\ pc = "act" /\ pc' = "boundary" /\ past' = past /\ Running /\ truncated' = truncated
        /\ run \in 1..MaxRuns /\ turn \in 1..MaxTurns
    BY <1>7 DEF Results, Running, TypeInv, WhereInv
  <2> DEFINE m == [kind |-> "results", run |-> run, turn |-> turn, long |-> FALSE]
  <2>2. m \in Messages
    BY <2>1, ConversationAssumption DEF Messages
  <2>3. m.kind = "results" /\ m.run = run /\ m.turn = turn /\ messages' = Append(messages, m)
    BY <1>7 DEF Results
  <2> HIDE DEF m
  <2>4. truncated' = {} => Closed(messages')
    BY <2>1, <2>2, <2>3, AppendPairs DEF PairInv
  <2>5. QED
    BY <2>1, <2>4 DEF PairInv
<1>8. CASE NextTurn
  <2>1. turn' # 1
    BY <1>8, ConversationAssumption DEF NextTurn, TypeInv, WhereInv, Running
  <2>2. QED
    BY <1>8, <2>1 DEF NextTurn, PairInv, Running
<1>9. CASE Finish \/ Fail \/ Cancel
  <2>1. pc' = "idle"
    BY <1>9 DEF Finish, Fail, Cancel
  <2>2. \A m \in Elements(past') : m.kind \in Spoken
    BY <1>9, RecordedSpoken DEF Cancel, PairInv
  <2>3. QED
    BY <2>1, <2>2 DEF PairInv, Running
<1>10. CASE UNCHANGED vars
  BY <1>10 DEF vars, PairInv, Running
<1>11. QED
  BY <1>1, <1>2, <1>4, <1>5, <1>6, <1>7, <1>8, <1>9, <1>10 DEF Next, Step

\* Calls and results stay together unless truncation has parted them: Spec implies
\* PairsUntruncated.
THEOREM Pairs == Spec => []PairsUntruncated
<1>1. Init => PairInv
  BY DEF Init, PairInv, Running, Elements
<1>2. QED
  BY <1>1, InitType, StepType, StepPairs, PairsFollow, PTL DEF Spec
=============================================================================
