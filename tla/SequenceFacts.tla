----------------------------- MODULE SequenceFacts -----------------------------
(***************************************************************************)
(* Facts about the elements of queues that the proofs of several modules   *)
(* use.  Range and IsInjective are those of Functions.                     *)
(***************************************************************************)
EXTENDS SequenceTheorems, TLAPS

\* Appending adds one element.
LEMMA AppendElements ==
  ASSUME NEW S, NEW s \in Seq(S), NEW e \in S
  PROVE  Range(Append(s, e)) = Range(s) \cup {e}
<1>1. /\ Append(s, e) \in Seq(S)
      /\ Len(Append(s, e)) = Len(s) + 1
      /\ \A i \in 1..Len(s) : Append(s, e)[i] = s[i]
      /\ Append(s, e)[Len(s) + 1] = e
  BY AppendProperties
<1>2. DOMAIN s = 1..Len(s) /\ Len(s) \in Nat
  BY LenProperties
<1>3. DOMAIN Append(s, e) = 1..(Len(s) + 1)
  BY <1>1, LenProperties
<1>4. Range(Append(s, e)) \subseteq Range(s) \cup {e}
  BY <1>1, <1>2, <1>3 DEF Range
<1>5. Range(s) \subseteq Range(Append(s, e))
  BY <1>1, <1>2, <1>3 DEF Range
<1>6. e \in Range(Append(s, e))
  BY <1>1, <1>2, <1>3 DEF Range
<1> QED
  BY <1>4, <1>5, <1>6

\* Taking the head off removes at most that element.
LEMMA TailElements ==
  ASSUME NEW S, NEW s \in Seq(S), s # <<>>
  PROVE  /\ Range(Tail(s)) \subseteq Range(s)
         /\ Range(s) = Range(Tail(s)) \cup {Head(s)}
<1>1. /\ Tail(s) \in Seq(S)
      /\ Len(Tail(s)) = Len(s) - 1
      /\ \A i \in 1..Len(Tail(s)) : Tail(s)[i] = s[i + 1]
  BY HeadTailProperties
<1>2. DOMAIN s = 1..Len(s) /\ Len(s) \in Nat /\ Len(s) # 0
  BY LenProperties, EmptySeq
<1>3. DOMAIN Tail(s) = 1..(Len(s) - 1)
  BY <1>1, LenProperties
<1>4. Head(s) = s[1]
  OBVIOUS
<1>5. Range(Tail(s)) \subseteq Range(s)
  BY <1>1, <1>2, <1>3 DEF Range
<1>6. Head(s) \in Range(s)
  BY <1>2, <1>4 DEF Range
<1>7. ASSUME NEW i \in DOMAIN s PROVE s[i] \in Range(Tail(s)) \cup {Head(s)}
  <2>1. CASE i = 1
    BY <2>1, <1>4
  <2>2. CASE i # 1
    <3>1. i - 1 \in DOMAIN Tail(s) /\ Tail(s)[i - 1] = s[i]
      BY <2>2, <1>1, <1>2, <1>3
    <3> QED
      BY <3>1 DEF Range
  <2> QED
    BY <2>1, <2>2
<1> QED
  BY <1>5, <1>6, <1>7 DEF Range

\* A sequence without repetitions keeps none when a new element is appended or
\* its head is taken off, and the head does not occur again.
LEMMA AppendDistinct ==
  ASSUME NEW S, NEW s \in Seq(S), NEW e \in S, IsInjective(s), e \notin Range(s)
  PROVE  IsInjective(Append(s, e))
<1>1. /\ Append(s, e) \in Seq(S)
      /\ Len(Append(s, e)) = Len(s) + 1
      /\ \A i \in 1..Len(s) : Append(s, e)[i] = s[i]
      /\ Append(s, e)[Len(s) + 1] = e
  BY AppendProperties
<1>2. DOMAIN s = 1..Len(s) /\ Len(s) \in Nat
  BY LenProperties
<1>3. DOMAIN Append(s, e) = 1..(Len(s) + 1)
  BY <1>1, LenProperties
<1>4. \A i \in 1..Len(s) : s[i] # e
  BY <1>2 DEF Range
<1> QED
  BY <1>1, <1>2, <1>3, <1>4 DEF IsInjective

LEMMA TailDistinct ==
  ASSUME NEW S, NEW s \in Seq(S), s # <<>>, IsInjective(s)
  PROVE  /\ IsInjective(Tail(s))
         /\ Range(Tail(s)) = Range(s) \ {Head(s)}
<1>1. /\ Tail(s) \in Seq(S)
      /\ Len(Tail(s)) = Len(s) - 1
      /\ \A i \in 1..Len(Tail(s)) : Tail(s)[i] = s[i + 1]
  BY HeadTailProperties
<1>2. DOMAIN s = 1..Len(s) /\ Len(s) \in Nat /\ Len(s) # 0
  BY LenProperties, EmptySeq
<1>3. DOMAIN Tail(s) = 1..(Len(s) - 1)
  BY <1>1, LenProperties
<1>4. IsInjective(Tail(s))
  BY <1>1, <1>2, <1>3 DEF IsInjective
<1>5. \A i \in 1..(Len(s) - 1) : s[i + 1] # s[1]
  BY <1>2 DEF IsInjective
<1>6. Head(s) = s[1]
  OBVIOUS
<1>7. Head(s) \notin Range(Tail(s))
  BY <1>1, <1>2, <1>3, <1>5, <1>6 DEF Range
<1> QED
  BY <1>4, <1>7, TailElements

\* A sequence of the values of f at the elements of q.
LEMMA MappedSeq ==
  ASSUME NEW S, NEW T, NEW f \in [S -> T], NEW q \in Seq(S)
  PROVE  /\ [i \in DOMAIN q |-> f[q[i]]] \in Seq(T)
         /\ Len([i \in DOMAIN q |-> f[q[i]]]) = Len(q)
         /\ [i \in DOMAIN q |-> f[q[i]]] = <<>> <=> q = <<>>
<1> DEFINE m == [i \in DOMAIN q |-> f[q[i]]]
<1>1. q \in [1..Len(q) -> S] /\ Len(q) \in Nat /\ DOMAIN q = 1..Len(q)
  BY LenProperties
<1>2. m \in [1..Len(q) -> T]
  BY <1>1
<1>3. m \in Seq(T)
  BY <1>1, <1>2, SeqDef
<1>4. Len(m) = Len(q)
  BY <1>1, <1>2, <1>3, LenProperties
<1> HIDE DEF m
<1>5. m = <<>> <=> q = <<>>
  BY <1>3, <1>4, EmptySeq
<1> QED
  BY <1>3, <1>4, <1>5 DEF m

LEMMA MappedTail ==
  ASSUME NEW S, NEW T, NEW f \in [S -> T], NEW q \in Seq(S), q # <<>>
  PROVE  /\ Head([i \in DOMAIN q |-> f[q[i]]]) = f[Head(q)]
         /\ Tail([i \in DOMAIN q |-> f[q[i]]]) = [i \in DOMAIN Tail(q) |-> f[Tail(q)[i]]]
<1> DEFINE m == [i \in DOMAIN q |-> f[q[i]]]
           n == [i \in DOMAIN Tail(q) |-> f[Tail(q)[i]]]
<1>1. m \in Seq(T) /\ Len(m) = Len(q) /\ m # <<>>
  BY MappedSeq
<1>2. /\ Len(q) \in Nat /\ Len(q) # 0 /\ DOMAIN q = 1..Len(q)
      /\ Tail(q) \in Seq(S) /\ Len(Tail(q)) = Len(q) - 1
      /\ \A i \in 1..Len(Tail(q)) : Tail(q)[i] = q[i + 1]
  BY LenProperties, HeadTailProperties, EmptySeq
<1>3. n \in Seq(T) /\ Len(n) = Len(q) - 1
  BY <1>2, MappedSeq
<1>4. /\ Tail(m) \in Seq(T) /\ Len(Tail(m)) = Len(m) - 1
      /\ \A i \in 1..Len(Tail(m)) : Tail(m)[i] = m[i + 1]
  BY <1>1, HeadTailProperties
<1>5. \A i \in 1..Len(q) : m[i] = f[q[i]]
  BY <1>2
<1>6. \A i \in 1..(Len(q) - 1) : n[i] = f[q[i + 1]]
  BY <1>2, LenProperties
<1>7. Head(q) = q[1] /\ Head(m) = m[1]
  OBVIOUS
<1> HIDE DEF m, n
<1>8. Head(m) = f[Head(q)]
  BY <1>2, <1>5, <1>7
<1>9. \A i \in 1..Len(n) : Tail(m)[i] = n[i]
  BY <1>1, <1>2, <1>3, <1>4, <1>5, <1>6
<1>10. Tail(m) = n
  BY <1>1, <1>3, <1>4, <1>9, SeqEqual
<1> QED
  BY <1>8, <1>10 DEF m, n

\* A queue is its head and what follows.
LEMMA HeadThenTail ==
  ASSUME NEW S, NEW t \in Seq(S), t # <<>>
  PROVE  <<Head(t)>> \o Tail(t) = t
<1> DEFINE u == <<Head(t)>> \o Tail(t)
<1>1. <<Head(t)>> \in Seq(S) /\ Len(<<Head(t)>>) = 1 /\ <<Head(t)>>[1] = Head(t)
  BY HeadTailProperties
<1>2. /\ u \in Seq(S)
      /\ Len(u) = 1 + Len(Tail(t))
      /\ \A i \in 1..(1 + Len(Tail(t))) :
           u[i] = IF i <= 1 THEN <<Head(t)>>[i] ELSE Tail(t)[i - 1]
  BY HeadTailProperties, <1>1, ConcatProperties
<1>3. /\ Len(t) \in Nat /\ Len(Tail(t)) = Len(t) - 1 /\ Head(t) = t[1]
      /\ \A i \in 1..Len(Tail(t)) : Tail(t)[i] = t[i + 1]
  BY HeadTailProperties, LenProperties
<1> HIDE DEF u
<1>4. ASSUME NEW i \in 1..Len(t) PROVE t[i] = u[i]
  <2>1. CASE i = 1
    BY <1>1, <1>2, <1>3, <2>1
  <2>2. CASE i # 1
    <3>1. i - 1 \in 1..Len(Tail(t)) /\ i \in 1..(1 + Len(Tail(t))) /\ ~(i <= 1)
      BY <1>3, <2>2
    <3>2. u[i] = Tail(t)[i - 1]
      BY <1>2, <3>1
    <3>3. Tail(t)[i - 1] = t[(i - 1) + 1] /\ (i - 1) + 1 = i
      BY <1>3, <3>1
    <3> QED
      BY <3>2, <3>3
  <2> QED
    BY <2>1, <2>2
<1>5. t = u
  BY <1>2, <1>3, <1>4, SeqEqual
<1> QED
  BY <1>5 DEF u

\* Moving the head of what follows to the end of what precedes leaves the whole.
LEMMA ConcatMovesHead ==
  ASSUME NEW S, NEW s \in Seq(S), NEW t \in Seq(S), t # <<>>
  PROVE  Append(s, Head(t)) \o Tail(t) = s \o t
<1>1. Head(t) \in S /\ Tail(t) \in Seq(S)
  BY HeadTailProperties
<1>2. <<Head(t)>> \o Tail(t) = t
  BY HeadThenTail
<1>3. Append(s, Head(t)) = s \o <<Head(t)>>
  BY <1>1, AppendIsConcat
<1>4. (s \o <<Head(t)>>) \o Tail(t) = s \o (<<Head(t)>> \o Tail(t))
  BY <1>1, ConcatAssociative
<1> QED
  BY <1>2, <1>3, <1>4

LEMMA PrefixedQueue ==
  ASSUME NEW S, NEW e \in S, NEW s \in Seq(S)
  PROVE  /\ <<e>> \o s \in Seq(S)
         /\ <<e>> \o s # <<>>
         /\ Head(<<e>> \o s) = e
         /\ Tail(<<e>> \o s) = s
<1> DEFINE q == <<e>> \o s
<1>1. <<e>> \in Seq(S) /\ Len(<<e>>) = 1 /\ <<e>>[1] = e
  OBVIOUS
<1>2. /\ q \in Seq(S)
      /\ Len(q) = 1 + Len(s)
      /\ \A i \in 1..(1 + Len(s)) : q[i] = IF i <= 1 THEN <<e>>[i] ELSE s[i - 1]
  BY <1>1, ConcatProperties
<1>3. Len(s) \in Nat
  BY LenProperties
<1> HIDE DEF q
<1>4. q # <<>>
  BY <1>2, <1>3, EmptySeq
<1>5. Head(q) = e
  <2>1. 1 \in 1..(1 + Len(s))
    BY <1>3
  <2>2. Head(q) = q[1]
    OBVIOUS
  <2> QED
    BY <1>1, <1>2, <2>1, <2>2
<1>6. Tail(q) = s
  <2>1. /\ Tail(q) \in Seq(S) /\ Len(Tail(q)) = Len(s)
        /\ \A i \in 1..Len(s) : Tail(q)[i] = q[i + 1]
    BY <1>2, <1>3, <1>4, HeadTailProperties
  <2>2. ASSUME NEW i \in 1..Len(s) PROVE Tail(q)[i] = s[i]
    <3>1. i + 1 \in 1..(1 + Len(s)) /\ ~(i + 1 <= 1) /\ (i + 1) - 1 = i
      BY <1>3
    <3> QED
      BY <1>2, <2>1, <3>1
  <2> QED
    BY <2>1, <2>2, SeqEqual
<1> QED
  BY <1>2, <1>4, <1>5, <1>6 DEF q

=============================================================================
