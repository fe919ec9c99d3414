-------------------------- MODULE PullPointStreamProofs --------------------------
(***************************************************************************)
(* Proofs about what the clients of a pull point receive, in any order of  *)
(* requests, alarms and timeouts, for any number of pull points,           *)
(* exchanges, generators and sources.                                      *)
(***************************************************************************)
EXTENDS PullPointProofs, PullPointSubscriptions, WellFoundedInduction

-----------------------------------------------------------------------------
(* A history in order and up to date, as StreamInOrder and NothingMissed    *)
(* say, in a form that is kept by each step: h is a history, b the numbers  *)
(* of changes at its begin, c those and l the states at its end.            *)

Fits(m, stamp) == IF m.op = "Changed" THEN m.stamp = stamp + 1 ELSE m.stamp >= stamp

InOrder(h, b) ==
  \A j \in DOMAIN h :
    /\ \A i \in DOMAIN h : Precedes(h, i, j) => Fits(h[j], h[i].stamp)
    /\ (\A i \in DOMAIN h : ~Precedes(h, i, j)) => Fits(h[j], b[h[j].source])

IsLast(h, i, s) == h[i].source = s /\ \A k \in DOMAIN h : h[k].source = s => k <= i

UpToDate(h, b, c, l) ==
  \A s \in Sources :
    /\ (\A i \in DOMAIN h : h[i].source # s) => c[s] = b[s]
    /\ \A i \in DOMAIN h : IsLast(h, i, s) =>
         h[i].stamp = c[s] /\ (h[i].op = "Changed" => h[i].value = l[s])

\* No message is from the future.
Bounded(h, b, c) ==
  /\ \A s \in Sources : b[s] <= c[s]
  /\ \A i \in DOMAIN h : h[i].stamp <= c[h[i].source]

\* What is queued anew at a synchronization point replaces all that was queued.
Reported(h) == \A i \in DOMAIN h : h[i].source \in Range(SyncSources)

HistoryOK(p) ==
  /\ InOrder(History(p), base[p])
  /\ Bounded(History(p), base[p], changes)
  /\ Reported(History(p))
  /\ p \in Live => UpToDate(History(p), base[p], changes, logical)
  /\ p \notin created => stream[p] = <<>> /\ events[p] = <<>>

StreamInv == \A p \in PullPoints : HistoryOK(p)

-----------------------------------------------------------------------------
(* Histories.                                                              *)

\* Places in a sequence have a last one.
LEMMA LastPlace ==
  ASSUME NEW n \in Nat, NEW S \in SUBSET (1..n), S # {}
  PROVE  \E m \in S : \A k \in S : k <= m
<1> DEFINE B == {b \in Nat : \A k \in S : k <= b}
<1>1. n \in B /\ B \in SUBSET Nat
  OBVIOUS
<1>2. PICK b \in B : \A y \in B : ~(<<y, b>> \in OpToRel(<, Nat))
  <2>1. IsWellFoundedOn(OpToRel(<, Nat), Nat)
    BY NatLessThanWellFounded
  <2>2. B # {}
    BY <1>1
  <2> QED
    BY <1>1, <2>1, <2>2, WFMin
<1>3. ASSUME NEW y \in B PROVE ~(y < b)
  <2>1. y \in Nat /\ b \in Nat
    OBVIOUS
  <2>2. y < b => <<y, b>> \in OpToRel(<, Nat)
    BY <2>1 DEF OpToRel
  <2> QED
    BY <1>2, <2>2, Zenon
<1>4. ASSUME b \notin S PROVE FALSE
  <2>1. PICK k \in S : k \in 1..n /\ k <= b
    OBVIOUS
  <2>2. b - 1 \in Nat /\ \A i \in S : i <= b - 1
    BY <1>4, <2>1
  <2> QED
    BY <1>3, <2>2
<1> QED
  BY <1>4

LEMMA Joined ==
  ASSUME NEW h \in Seq(Message), NEW t \in Seq(Message)
  PROVE  /\ h \o t \in Seq(Message)
         /\ Len(h) \in Nat /\ Len(t) \in Nat
         /\ Len(h \o t) = Len(h) + Len(t)
         /\ DOMAIN h = 1..Len(h) /\ DOMAIN t = 1..Len(t)
         /\ DOMAIN (h \o t) = 1..(Len(h) + Len(t))
         /\ \A i \in 1..Len(h) : (h \o t)[i] = h[i]
         /\ \A i \in 1..Len(t) : (h \o t)[Len(h) + i] = t[i]
         /\ \A i \in 1..Len(h) : h[i] \in Message
         /\ \A i \in 1..Len(t) : t[i] \in Message
<1>1. /\ h \o t \in Seq(Message)
      /\ Len(h \o t) = Len(h) + Len(t)
      /\ \A i \in 1..Len(h) + Len(t) :
           (h \o t)[i] = IF i <= Len(h) THEN h[i] ELSE t[i - Len(h)]
  BY ConcatProperties
<1>2. /\ Len(h) \in Nat /\ Len(t) \in Nat
      /\ DOMAIN h = 1..Len(h) /\ DOMAIN t = 1..Len(t)
  BY LenProperties
<1>3. DOMAIN (h \o t) = 1..(Len(h) + Len(t))
  BY <1>1, LenProperties
<1>4. \A i \in 1..Len(h) : (h \o t)[i] = h[i]
  BY <1>1, <1>2
<1>5. \A i \in 1..Len(t) : (h \o t)[Len(h) + i] = t[i]
  BY <1>1, <1>2
<1>6. /\ \A i \in 1..Len(h) : h[i] \in Message
      /\ \A i \in 1..Len(t) : t[i] \in Message
  BY ElementOfSeq
<1> QED
  BY <1>1, <1>2, <1>3, <1>4, <1>5, <1>6

LEMMA Regrouped ==
  ASSUME NEW a \in Seq(Message), NEW b \in Seq(Message), NEW c \in Seq(Message)
  PROVE  (a \o b) \o c = a \o (b \o c)
BY ConcatAssociative

\* The head of a sequence may be moved to the end of the one before.
LEMMA HeadMoved ==
  ASSUME NEW a \in Seq(Message), NEW t \in Seq(Message), t # <<>>
  PROVE  /\ Append(a, Head(t)) \in Seq(Message) /\ Tail(t) \in Seq(Message)
         /\ Append(a, Head(t)) \o Tail(t) = a \o t
<1> DEFINE e == Append(a, Head(t))
           u == Tail(t)
           n == Len(a)
           m == Len(t)
<1>1. /\ u \in Seq(Message) /\ Len(u) = m - 1
      /\ \A i \in 1..Len(u) : u[i] = t[i + 1]
      /\ Head(t) = t[1] /\ t[1] \in Message
  BY HeadTailProperties
<1>2. /\ e \in Seq(Message) /\ Len(e) = n + 1
      /\ \A i \in 1..n : e[i] = a[i]
      /\ e[n + 1] = t[1]
  BY <1>1, AppendProperties
<1>3. n \in Nat /\ m \in Nat \ {0}
  BY LenProperties, EmptySeq
<1> HIDE DEF e, u
<1>4. /\ e \o u \in Seq(Message)
      /\ Len(e \o u) = Len(e) + Len(u)
      /\ \A i \in 1..(Len(e) + Len(u)) :
           (e \o u)[i] = IF i <= Len(e) THEN e[i] ELSE u[i - Len(e)]
  BY <1>1, <1>2, ConcatProperties
<1>5. /\ a \o t \in Seq(Message)
      /\ Len(a \o t) = n + m
      /\ \A i \in 1..(n + m) : (a \o t)[i] = IF i <= n THEN a[i] ELSE t[i - n]
  BY ConcatProperties
<1> HIDE DEF n, m
<1>6. Len(e) = n + 1 /\ Len(u) = m - 1 /\ Len(e) + Len(u) = n + m
  BY <1>1, <1>2, <1>3
<1>7. ASSUME NEW i \in 1..(n + m) PROVE (e \o u)[i] = (a \o t)[i]
  <2>1. CASE i <= n
    BY <1>2, <1>3, <1>4, <1>5, <1>6, <2>1
  <2>2. CASE i = n + 1
    BY <1>2, <1>3, <1>4, <1>5, <1>6, <2>2
  <2>3. CASE i > n + 1
    <3>0. i \in Nat /\ ~(i <= Len(e)) /\ ~(i <= n) /\ i \in 1..(Len(e) + Len(u))
      BY <1>3, <1>6, <2>3
    <3>1. (e \o u)[i] = u[i - (n + 1)] /\ (a \o t)[i] = t[i - n]
      BY <1>4, <1>5, <1>6, <3>0, Zenon
    <3>2. i - (n + 1) \in 1..Len(u) /\ (i - (n + 1)) + 1 = i - n
      BY <1>3, <1>6, <2>3
    <3> QED
      BY <1>1, <3>1, <3>2
  <2>4. i <= n \/ i = n + 1 \/ i > n + 1
    BY <1>3
  <2> QED
    BY <2>1, <2>2, <2>3, <2>4, Zenon
<1>8. e \o u = a \o t
  BY <1>4, <1>5, <1>6, <1>7, SeqEqual
<1> QED
  BY <1>1, <1>2, <1>8 DEF e, u

LEMMA InFront ==
  ASSUME NEW h \in Seq(Message), NEW t \in Seq(Message), NEW i \in DOMAIN h
  PROVE  i \in DOMAIN (h \o t) /\ (h \o t)[i] = h[i]
<1>1. /\ Len(h) \in Nat /\ Len(t) \in Nat
      /\ DOMAIN h = 1..Len(h) /\ DOMAIN (h \o t) = 1..(Len(h) + Len(t))
      /\ \A k \in 1..Len(h) : (h \o t)[k] = h[k]
  BY Joined
<1> QED
  BY <1>1

LEMMA PrecedesInFront ==
  ASSUME NEW h \in Seq(Message), NEW t \in Seq(Message), NEW i \in 1..Len(h), NEW j \in 1..Len(h)
  PROVE  Precedes(h \o t, i, j) <=> Precedes(h, i, j)
<1>1. \A k \in 1..Len(h) : (h \o t)[k] = h[k]
  BY Joined
<1>2. \A k \in (i + 1)..(j - 1) : k \in 1..Len(h)
  BY Joined
<1> QED
  BY <1>1, <1>2 DEF Precedes

\* A front of a history is in order, ...
LEMMA FrontInOrder ==
  ASSUME NEW h \in Seq(Message), NEW t \in Seq(Message), NEW b, InOrder(h \o t, b)
  PROVE  InOrder(h, b)
<1> DEFINE g == h \o t
<1>1. /\ Len(h) \in Nat /\ Len(t) \in Nat
      /\ DOMAIN h = 1..Len(h) /\ DOMAIN g = 1..(Len(h) + Len(t))
      /\ \A i \in 1..Len(h) : g[i] = h[i]
  BY Joined
<1>2. InOrder(g, b)
  OBVIOUS
<1> SUFFICES ASSUME NEW j \in DOMAIN h
             PROVE  /\ \A i \in DOMAIN h : Precedes(h, i, j) => Fits(h[j], h[i].stamp)
                    /\ (\A i \in DOMAIN h : ~Precedes(h, i, j)) => Fits(h[j], b[h[j].source])
  BY DEF InOrder
<1>3. j \in DOMAIN g /\ g[j] = h[j] /\ j \in 1..Len(h)
  BY <1>1
<1>4. \A i \in 1..Len(h) : Precedes(g, i, j) <=> Precedes(h, i, j)
  BY <1>3, PrecedesInFront
<1> HIDE DEF g
<1>5. \A i \in DOMAIN h : Precedes(h, i, j) => Fits(h[j], h[i].stamp)
  <2> SUFFICES ASSUME NEW i \in DOMAIN h, Precedes(h, i, j) PROVE Fits(h[j], h[i].stamp)
    OBVIOUS
  <2>1. i \in DOMAIN g /\ g[i] = h[i] /\ Precedes(g, i, j)
    BY <1>1, <1>4
  <2>2. Fits(g[j], g[i].stamp)
    BY <1>2, <1>3, <2>1 DEF InOrder
  <2> QED
    BY <2>1, <2>2, <1>3
<1>6. ASSUME \A i \in DOMAIN h : ~Precedes(h, i, j) PROVE Fits(h[j], b[h[j].source])
  <2>1. \A i \in DOMAIN g : ~Precedes(g, i, j)
    <3> SUFFICES ASSUME NEW i \in DOMAIN g, Precedes(g, i, j) PROVE FALSE
      OBVIOUS
    <3>1. i < j /\ i \in 1..Len(h)
      BY <1>1, <1>3 DEF Precedes
    <3> QED
      BY <1>1, <1>4, <1>6, <3>1
  <2>2. Fits(g[j], b[g[j].source])
    BY <1>2, <1>3, <2>1 DEF InOrder
  <2> QED
    BY <2>2, <1>3
<1> QED
  BY <1>5, <1>6

\* ... and so is one whose new messages fit what is before them.
LEMMA LongerInOrder ==
  ASSUME NEW h \in Seq(Message), NEW t \in Seq(Message), NEW b, InOrder(h, b),
         \A n \in 1..Len(t) :
           /\ \A i \in 1..(Len(h) + n - 1) :
                Precedes(h \o t, i, Len(h) + n) => Fits(t[n], (h \o t)[i].stamp)
           /\ (\A i \in 1..(Len(h) + n - 1) : ~Precedes(h \o t, i, Len(h) + n)) =>
                Fits(t[n], b[t[n].source])
  PROVE  InOrder(h \o t, b)
<1> DEFINE g == h \o t
<1>1. /\ Len(h) \in Nat /\ Len(t) \in Nat
      /\ DOMAIN h = 1..Len(h) /\ DOMAIN t = 1..Len(t) /\ DOMAIN g = 1..(Len(h) + Len(t))
      /\ \A i \in 1..Len(h) : g[i] = h[i]
      /\ \A i \in 1..Len(t) : g[Len(h) + i] = t[i]
  BY Joined
<1>2. \A n \in 1..Len(t) :
        /\ \A i \in 1..(Len(h) + n - 1) :
             Precedes(g, i, Len(h) + n) => Fits(t[n], g[i].stamp)
        /\ (\A i \in 1..(Len(h) + n - 1) : ~Precedes(g, i, Len(h) + n)) =>
             Fits(t[n], b[t[n].source])
  OBVIOUS
<1> SUFFICES ASSUME NEW j \in DOMAIN g
             PROVE  /\ \A i \in DOMAIN g : Precedes(g, i, j) => Fits(g[j], g[i].stamp)
                    /\ (\A i \in DOMAIN g : ~Precedes(g, i, j)) => Fits(g[j], b[g[j].source])
  BY DEF InOrder
<1>3. CASE j \in 1..Len(h)
  <2>1. \A i \in 1..Len(h) : Precedes(g, i, j) <=> Precedes(h, i, j)
    BY <1>3, PrecedesInFront
  <2> HIDE DEF g
  <2>2. \A i \in DOMAIN g : Precedes(g, i, j) => i \in 1..Len(h)
    BY <1>1, <1>3 DEF Precedes
  <2>3. ASSUME NEW i \in DOMAIN g, Precedes(g, i, j) PROVE Fits(g[j], g[i].stamp)
    <3>1. i \in DOMAIN h /\ j \in DOMAIN h /\ Precedes(h, i, j)
      BY <1>1, <1>3, <2>1, <2>2, <2>3
    <3>2. Fits(h[j], h[i].stamp)
      BY <3>1 DEF InOrder
    <3> QED
      BY <3>1, <3>2, <1>1
  <2>4. ASSUME \A i \in DOMAIN g : ~Precedes(g, i, j) PROVE Fits(g[j], b[g[j].source])
    <3>1. j \in DOMAIN h /\ \A i \in DOMAIN h : ~Precedes(h, i, j)
      BY <1>1, <1>3, <2>1, <2>4
    <3>2. Fits(h[j], b[h[j].source])
      BY <3>1 DEF InOrder
    <3> QED
      BY <3>1, <3>2, <1>1
  <2> QED
    BY <2>3, <2>4
<1>4. CASE j \notin 1..Len(h)
  <2> HIDE DEF g
  <2>1. j - Len(h) \in 1..Len(t) /\ j = Len(h) + (j - Len(h))
    BY <1>1, <1>4
  <2> DEFINE n == j - Len(h)
  <2>2. n \in 1..Len(t) /\ j = Len(h) + n /\ g[j] = t[n]
    BY <2>1, <1>1
  <2>3. \A i \in DOMAIN g : Precedes(g, i, j) => i \in 1..(Len(h) + n - 1)
    BY <1>1, <2>2 DEF Precedes
  <2>4. 1..(Len(h) + n - 1) \subseteq DOMAIN g
    BY <1>1, <2>2
  <2> HIDE DEF n
  <2> QED
    BY <1>2, <2>2, <2>3, <2>4
<1> QED
  BY <1>3, <1>4

-----------------------------------------------------------------------------
(* A burst is put after a history.                                         *)

\* t is a burst: each source changes once, from c to c1 and from l to l1.
IsBurst(t, c, l, c1, l1) ==
  /\ \A i \in DOMAIN t :
       /\ t[i].op = "Changed"
       /\ t[i].stamp = c[t[i].source] + 1
       /\ t[i].stamp = c1[t[i].source]
       /\ t[i].value = l1[t[i].source]
       /\ \A j \in DOMAIN t : t[i].source = t[j].source => i = j
  /\ \A s \in Sources :
       (\A i \in DOMAIN t : t[i].source # s) => c1[s] = c[s] /\ l1[s] = l[s]

\* The last message of a source in a sequence, if there is one.
LEMMA HasLast ==
  ASSUME NEW h \in Seq(Message), NEW s, NEW k \in DOMAIN h, h[k].source = s
  PROVE  \E m \in DOMAIN h : IsLast(h, m, s)
<1> DEFINE S == {i \in DOMAIN h : h[i].source = s}
<1>1. Len(h) \in Nat /\ DOMAIN h = 1..Len(h)
  BY LenProperties
<1>2. S \in SUBSET (1..Len(h)) /\ S # {}
  BY <1>1
<1>3. PICK m \in S : \A i \in S : i <= m
  BY <1>1, <1>2, LastPlace
<1> QED
  BY <1>3 DEF IsLast

LEMMA BurstInOrder ==
  ASSUME NEW h \in Seq(Message), NEW t \in Seq(Message), NEW b, NEW c, NEW l, NEW c1, NEW l1,
         InOrder(h, b), UpToDate(h, b, c, l), IsBurst(t, c, l, c1, l1)
  PROVE  InOrder(h \o t, b)
<1> DEFINE g == h \o t
<1>1. /\ Len(h) \in Nat /\ Len(t) \in Nat
      /\ DOMAIN h = 1..Len(h) /\ DOMAIN t = 1..Len(t)
      /\ \A i \in 1..Len(h) : g[i] = h[i]
      /\ \A i \in 1..Len(t) : g[Len(h) + i] = t[i]
      /\ \A i \in 1..Len(t) : t[i] \in Message
  BY Joined
<1>2. ASSUME NEW n \in 1..Len(t)
      PROVE  /\ \A i \in 1..(Len(h) + n - 1) :
                  Precedes(g, i, Len(h) + n) => Fits(t[n], g[i].stamp)
             /\ (\A i \in 1..(Len(h) + n - 1) : ~Precedes(g, i, Len(h) + n)) =>
                  Fits(t[n], b[t[n].source])
  <2> DEFINE s == t[n].source
  <2>1. s \in Sources /\ t[n].op = "Changed" /\ t[n].stamp = c[s] + 1
    BY <1>1 DEF IsBurst, Message
  <2>2. \A k \in 1..(n - 1) : g[Len(h) + k].source # s
    <3> SUFFICES ASSUME NEW k \in 1..(n - 1) PROVE g[Len(h) + k].source # s
      OBVIOUS
    <3>1. k \in 1..Len(t) /\ k # n
      BY <1>1
    <3> QED
      BY <3>1, <1>1 DEF IsBurst
  <2>3. g[Len(h) + n] = t[n]
    BY <1>1
  <2> HIDE DEF g
  <2>4. ASSUME NEW i \in 1..(Len(h) + n - 1), Precedes(g, i, Len(h) + n)
        PROVE  Fits(t[n], g[i].stamp)
    <3>1. g[i].source = s
      BY <2>3, <2>4 DEF Precedes
    <3>2. i \in 1..Len(h)
      <4>1. CASE i > Len(h)
        <5>1. i - Len(h) \in 1..(n - 1) /\ i = Len(h) + (i - Len(h))
          BY <4>1, <1>1
        <5> QED
          BY <5>1, <2>2, <3>1
      <4> QED
        BY <4>1, <1>1
    <3>3. IsLast(h, i, s)
      <4>1. ASSUME NEW k \in DOMAIN h, h[k].source = s, ~(k <= i) PROVE FALSE
        <5>1. k \in (i + 1)..((Len(h) + n) - 1) /\ g[k].source = s
          BY <4>1, <3>2, <1>1
        <5>2. g[k].source # g[Len(h) + n].source
          BY <2>4, <5>1 DEF Precedes
        <5> QED
          BY <5>1, <5>2, <2>3
      <4>2. h[i].source = s
        BY <3>1, <3>2, <1>1
      <4> QED
        BY <4>1, <4>2 DEF IsLast
    <3>4. h[i].stamp = c[s]
      BY <2>1, <3>2, <3>3, <1>1 DEF UpToDate
    <3> QED
      BY <2>1, <3>2, <3>4, <1>1 DEF Fits
  <2>5. ASSUME \A i \in 1..(Len(h) + n - 1) : ~Precedes(g, i, Len(h) + n)
        PROVE  Fits(t[n], b[s])
    <3>1. ASSUME NEW k \in DOMAIN h, h[k].source = s PROVE FALSE
      <4>1. PICK m \in DOMAIN h : IsLast(h, m, s)
        BY <3>1, HasLast
      <4>2. m \in 1..Len(h) /\ g[m].source = s /\ m \in 1..(Len(h) + n - 1) /\ m < Len(h) + n
        BY <4>1, <1>1 DEF IsLast
      <4>3. ASSUME NEW i \in (m + 1)..((Len(h) + n) - 1), g[i].source = s PROVE FALSE
        <5>1. CASE i \in 1..Len(h)
          <6>1. i \in DOMAIN h /\ h[i].source = s /\ ~(i <= m)
            BY <4>2, <4>3, <5>1, <1>1
          <6> QED
            BY <6>1, <4>1 DEF IsLast
        <5>2. CASE i \notin 1..Len(h)
          <6>1. i - Len(h) \in 1..(n - 1) /\ i = Len(h) + (i - Len(h))
            BY <4>2, <5>2, <1>1
          <6> QED
            BY <6>1, <2>2, <4>3
        <5> QED
          BY <5>1, <5>2
      <4>4. Precedes(g, m, Len(h) + n)
        BY <4>2, <4>3, <2>3 DEF Precedes
      <4> QED
        BY <4>2, <4>4, <2>5
    <3>2. c[s] = b[s]
      BY <2>1, <3>1 DEF UpToDate
    <3> QED
      BY <2>1, <3>2 DEF Fits
  <2> QED
    BY <2>4, <2>5
<1> HIDE DEF g
<1>3. \A n \in 1..Len(t) :
        /\ \A i \in 1..(Len(h) + n - 1) :
             Precedes(g, i, Len(h) + n) => Fits(t[n], g[i].stamp)
        /\ (\A i \in 1..(Len(h) + n - 1) : ~Precedes(g, i, Len(h) + n)) =>
             Fits(t[n], b[t[n].source])
  BY <1>2
<1> QED
  BY <1>3, LongerInOrder DEF g

LEMMA BurstUpToDate ==
  ASSUME NEW h \in Seq(Message), NEW t \in Seq(Message), NEW b, NEW c, NEW l, NEW c1, NEW l1,
         UpToDate(h, b, c, l), IsBurst(t, c, l, c1, l1)
  PROVE  UpToDate(h \o t, b, c1, l1)
<1> DEFINE g == h \o t
<1>1. /\ Len(h) \in Nat /\ Len(t) \in Nat
      /\ DOMAIN h = 1..Len(h) /\ DOMAIN t = 1..Len(t) /\ DOMAIN g = 1..(Len(h) + Len(t))
      /\ \A i \in 1..Len(h) : g[i] = h[i]
      /\ \A i \in 1..Len(t) : g[Len(h) + i] = t[i]
  BY Joined
<1> HIDE DEF g
<1> SUFFICES ASSUME NEW s \in Sources
             PROVE  /\ (\A i \in DOMAIN g : g[i].source # s) => c1[s] = b[s]
                    /\ \A i \in DOMAIN g : IsLast(g, i, s) =>
                         g[i].stamp = c1[s] /\ (g[i].op = "Changed" => g[i].value = l1[s])
  BY DEF UpToDate, g
<1>2. ASSUME \A i \in DOMAIN g : g[i].source # s PROVE c1[s] = b[s]
  <2>1. \A i \in DOMAIN h : h[i].source # s
    BY <1>1, <1>2
  <2>2. \A i \in DOMAIN t : Len(h) + i \in DOMAIN g /\ g[Len(h) + i] = t[i]
    BY <1>1
  <2>3. \A i \in DOMAIN t : t[i].source # s
    BY <1>2, <2>2
  <2> QED
    BY <2>1, <2>3 DEF UpToDate, IsBurst
<1>3. ASSUME NEW i \in DOMAIN g, IsLast(g, i, s)
      PROVE  g[i].stamp = c1[s] /\ (g[i].op = "Changed" => g[i].value = l1[s])
  <2>1. CASE i \in 1..Len(h)
    <3>1. \A k \in DOMAIN t : t[k].source # s
      <4> SUFFICES ASSUME NEW k \in DOMAIN t, t[k].source = s PROVE FALSE
        OBVIOUS
      <4>1. Len(h) + k \in DOMAIN g /\ g[Len(h) + k].source = s /\ ~(Len(h) + k <= i)
        BY <1>1, <2>1
      <4> QED
        BY <1>3, <4>1 DEF IsLast
    <3>2. IsLast(h, i, s)
      BY <1>1, <1>3, <2>1 DEF IsLast
    <3>3. h[i].stamp = c[s] /\ (h[i].op = "Changed" => h[i].value = l[s])
      BY <1>1, <2>1, <3>2 DEF UpToDate
    <3> QED
      BY <3>1, <3>3, <1>1, <2>1 DEF IsBurst
  <2>2. CASE i \notin 1..Len(h)
    <3>1. i - Len(h) \in DOMAIN t /\ i = Len(h) + (i - Len(h))
      BY <1>1, <2>2
    <3>2. g[i] = t[i - Len(h)] /\ g[i].source = s
      BY <1>1, <1>3, <3>1 DEF IsLast
    <3> QED
      BY <3>1, <3>2 DEF IsBurst
  <2> QED
    BY <2>1, <2>2
<1> QED
  BY <1>2, <1>3

-----------------------------------------------------------------------------
(* A synchronization point takes the place of the end of a history.        *)

\* t tells the present state of each source that is reported.
IsReport(t, c) ==
  /\ \A i \in DOMAIN t : /\ t[i].op = "Initialized"
                         /\ t[i].stamp = c[t[i].source]
                         /\ t[i].source \in Range(SyncSources)
  /\ \A s \in Range(SyncSources) : \E i \in DOMAIN t : t[i].source = s

LEMMA ReportInOrder ==
  ASSUME NEW h \in Seq(Message), NEW t \in Seq(Message), NEW b \in [Sources -> Nat],
         NEW c \in [Sources -> Nat],
         InOrder(h, b), Bounded(h, b, c), IsReport(t, c)
  PROVE  InOrder(h \o t, b) /\ Bounded(h \o t, b, c)
<1> DEFINE g == h \o t
<1>1. /\ Len(h) \in Nat /\ Len(t) \in Nat
      /\ DOMAIN h = 1..Len(h) /\ DOMAIN t = 1..Len(t) /\ DOMAIN g = 1..(Len(h) + Len(t))
      /\ \A i \in 1..Len(h) : g[i] = h[i] /\ h[i] \in Message
      /\ \A i \in 1..Len(t) : g[Len(h) + i] = t[i] /\ t[i] \in Message
  BY Joined
<1>2. \A i \in DOMAIN g : g[i].stamp <= c[g[i].source]
  <2> SUFFICES ASSUME NEW i \in DOMAIN g PROVE g[i].stamp <= c[g[i].source]
    OBVIOUS
  <2> HIDE DEF g
  <2>1. CASE i \in 1..Len(h)
    BY <2>1, <1>1 DEF Bounded
  <2>2. CASE i \notin 1..Len(h)
    <3>1. i - Len(h) \in 1..Len(t) /\ i = Len(h) + (i - Len(h))
      BY <1>1, <2>2
    <3>2. g[i] = t[i - Len(h)] /\ t[i - Len(h)] \in Message
      BY <1>1, <3>1
    <3>3. g[i].stamp = c[g[i].source] /\ g[i].stamp \in Nat
      BY <1>1, <3>1, <3>2 DEF IsReport, Message
    <3> QED
      BY <3>3
  <2> QED
    BY <2>1, <2>2
<1>3. ASSUME NEW n \in 1..Len(t)
      PROVE  /\ \A i \in 1..(Len(h) + n - 1) :
                  Precedes(g, i, Len(h) + n) => Fits(t[n], g[i].stamp)
             /\ (\A i \in 1..(Len(h) + n - 1) : ~Precedes(g, i, Len(h) + n)) =>
                  Fits(t[n], b[t[n].source])
  <2> DEFINE s == t[n].source
  <2>1. s \in Sources /\ t[n].op # "Changed" /\ t[n].stamp = c[s] /\ g[Len(h) + n] = t[n]
    BY <1>1 DEF IsReport, Message
  <2>2. ASSUME NEW i \in 1..(Len(h) + n - 1), Precedes(g, i, Len(h) + n)
        PROVE  Fits(t[n], g[i].stamp)
    <3> HIDE DEF g
    <3>1. i \in DOMAIN g /\ g[i].source = s
      BY <1>1, <2>1, <2>2 DEF Precedes
    <3>2. g[i].stamp <= c[s] /\ g[i].stamp \in Nat /\ c[s] \in Nat
      <4>1. i \in 1..Len(h) \/ (i - Len(h) \in 1..Len(t) /\ i = Len(h) + (i - Len(h)))
        BY <1>1
      <4>2. g[i] \in Message
        BY <1>1, <4>1
      <4> QED
        BY <1>2, <2>1, <3>1, <4>2 DEF Message
    <3> QED
      BY <2>1, <3>2 DEF Fits
  <2>3. Fits(t[n], b[s])
    BY <2>1 DEF Fits, Bounded
  <2> QED
    BY <2>2, <2>3
<1> HIDE DEF g
<1>4. \A n \in 1..Len(t) :
        /\ \A i \in 1..(Len(h) + n - 1) :
             Precedes(g, i, Len(h) + n) => Fits(t[n], g[i].stamp)
        /\ (\A i \in 1..(Len(h) + n - 1) : ~Precedes(g, i, Len(h) + n)) =>
             Fits(t[n], b[t[n].source])
  BY <1>3
<1>5. InOrder(g, b)
  BY <1>4, LongerInOrder DEF g
<1> QED
  BY <1>2, <1>5 DEF Bounded, g

LEMMA ReportUpToDate ==
  ASSUME NEW h \in Seq(Message), NEW t \in Seq(Message), NEW b, NEW c, NEW l,
         Reported(h), IsReport(t, c),
         \A s \in Sources \ Range(SyncSources) : c[s] = b[s]
  PROVE  UpToDate(h \o t, b, c, l) /\ Reported(h \o t)
<1> DEFINE g == h \o t
<1>1. /\ Len(h) \in Nat /\ Len(t) \in Nat
      /\ DOMAIN h = 1..Len(h) /\ DOMAIN t = 1..Len(t) /\ DOMAIN g = 1..(Len(h) + Len(t))
      /\ \A i \in 1..Len(h) : g[i] = h[i]
      /\ \A i \in 1..Len(t) : g[Len(h) + i] = t[i]
  BY Joined
<1> HIDE DEF g
<1>2. ASSUME NEW i \in DOMAIN g, i \notin DOMAIN h
      PROVE  i - Len(h) \in DOMAIN t /\ g[i] = t[i - Len(h)]
  <2>1. i - Len(h) \in DOMAIN t /\ i = Len(h) + (i - Len(h))
    BY <1>1, <1>2
  <2> QED
    BY <1>1, <2>1
<1>3. \A i \in DOMAIN t : Len(h) + i \in DOMAIN g /\ g[Len(h) + i] = t[i]
  BY <1>1
<1>4. Reported(g)
  BY <1>1, <1>2 DEF Reported, IsReport
<1>5. ASSUME NEW s \in Sources
      PROVE  /\ (\A i \in DOMAIN g : g[i].source # s) => c[s] = b[s]
             /\ \A i \in DOMAIN g : IsLast(g, i, s) =>
                  g[i].stamp = c[s] /\ (g[i].op = "Changed" => g[i].value = l[s])
  <2>1. ASSUME \A i \in DOMAIN g : g[i].source # s PROVE c[s] = b[s]
    <3>1. \A i \in DOMAIN t : t[i].source # s
      BY <1>3, <2>1
    <3> QED
      BY <3>1 DEF IsReport
  <2>2. ASSUME NEW i \in DOMAIN g, IsLast(g, i, s)
        PROVE  g[i].stamp = c[s] /\ (g[i].op = "Changed" => g[i].value = l[s])
    <3>1. s \in Range(SyncSources)
      BY <1>4, <2>2 DEF Reported, IsLast
    <3>2. PICK k \in DOMAIN t : t[k].source = s
      BY <3>1 DEF IsReport
    <3>3. Len(h) + k <= i
      BY <1>3, <2>2, <3>2 DEF IsLast
    <3>4. i \notin DOMAIN h
      BY <1>1, <3>2, <3>3
    <3> QED
      BY <1>2, <2>2, <3>4 DEF IsReport, IsLast
  <2> QED
    BY <2>1, <2>2
<1> QED
  BY <1>4, <1>5 DEF UpToDate, g

-----------------------------------------------------------------------------
(* Steps.                                                                  *)

LEMMA HistoryType ==
  ASSUME TypeOK, NEW p \in PullPoints
  PROVE  /\ stream[p] \in Seq(Message) /\ events[p] \in Seq(Message)
         /\ History(p) \in Seq(Message)
         /\ base[p] \in [Sources -> Nat] /\ changes \in [Sources -> Nat]
<1>1. stream[p] \in Seq(Message) /\ events[p] \in Seq(Message)
  BY DEF TypeOK
<1> QED
  BY <1>1, ConcatProperties DEF History, TypeOK

\* What does not change a history keeps it.
LEMMA SameHistory ==
  ASSUME NEW p \in PullPoints, HistoryOK(p),
         History(p)' = History(p),
         UNCHANGED <<base, changes, logical>>,
         Live' \subseteq Live,
         p \notin created' => p \notin created /\ UNCHANGED <<stream[p], events[p]>>
  PROVE  HistoryOK(p)'
  BY DEF HistoryOK

\* Nor does what is queued go to a client.
LEMMA HandedOut ==
  ASSUME TypeOK, NEW p \in PullPoints, NEW q \in PullPoints,
         stream' = [stream EXCEPT ![p] = @ \o events[p]],
         events' = SwappedOut(p)
  PROVE  /\ History(q)' = History(q)
         /\ q # p => UNCHANGED <<stream[q], events[q]>>
<1>1. stream \in [PullPoints -> Seq(Message)] /\ events \in [PullPoints -> Seq(Message)]
  BY DEF TypeOK
<1>2. CASE q = p
  <2>1. stream'[p] = stream[p] \o events[p] /\ events'[p] = <<>>
    BY <1>1 DEF SwappedOut
  <2>2. stream[p] \o events[p] \in Seq(Message)
    BY <1>1, ConcatProperties
  <2>3. (stream[p] \o events[p]) \o <<>> = stream[p] \o events[p]
    BY <2>2, ConcatEmptySeq
  <2> QED
    BY <1>2, <2>1, <2>3 DEF History
<1>3. CASE q # p
  <2>1. stream'[q] = stream[q] /\ events'[q] = events[q]
    BY <1>1, <1>3 DEF SwappedOut
  <2> QED
    BY <2>1, <1>3 DEF History
<1> QED
  BY <1>2, <1>3

LEMMA AnswerWaiterStream ==
  ASSUME IInv, StreamInv, NEW q \in Live, AnswerWaiter(q)
  PROVE  StreamInv'
<1>1. q \in PullPoints /\ q \in created
  BY LiveInPullPoints DEF IInv, Registered
<1>2. /\ UNCHANGED <<base, changes, logical, created>> /\ Live' = Live
  BY DEF AnswerWaiter, alarmVars, Live
<1> SUFFICES ASSUME NEW p \in PullPoints PROVE HistoryOK(p)'
  BY DEF StreamInv
<1>3. HistoryOK(p)
  BY DEF StreamInv
<1>4. CASE is_client_waiting[q]
  <2>1. stream' = [stream EXCEPT ![q] = @ \o events[q]] /\ events' = SwappedOut(q)
    BY <1>4 DEF AnswerWaiter
  <2>2. History(p)' = History(p) /\ (p # q => UNCHANGED <<stream[p], events[p]>>)
    BY <1>1, <2>1, HandedOut DEF IInv
  <2> QED
    BY <1>1, <1>2, <1>3, <2>2, SameHistory
<1>5. CASE ~is_client_waiting[q]
  <2>1. UNCHANGED <<stream, events>>
    BY <1>5 DEF AnswerWaiter
  <2> QED
    BY <1>2, <1>3, <2>1, SameHistory DEF History
<1> QED
  BY <1>4, <1>5

LEMMA CreatePullPointStream ==
  ASSUME IInv, StreamInv, NEW r \in Requests, NEW q \in PullPoints, CreatePullPoint(r, q)
  PROVE  StreamInv'
<1>1. /\ UNCHANGED <<stream, events, changes, logical>> /\ created' = created \cup {q}
      /\ q \notin created
      /\ pullpoints' = Append(pullpoints, q)
      /\ base' = [base EXCEPT ![q] = changes]
  BY DEF CreatePullPoint, pullVars
<1>2. Live' = Live \cup {q}
  BY <1>1, AppendElements DEF IInv, TypeOK, Live
<1> SUFFICES ASSUME NEW p \in PullPoints PROVE HistoryOK(p)'
  BY DEF StreamInv
<1>3. HistoryOK(p) /\ History(p)' = History(p)
  BY <1>1 DEF StreamInv, History
<1>4. CASE p = q
  <2>1. stream[p] = <<>> /\ events[p] = <<>>
    BY <1>1, <1>3, <1>4 DEF HistoryOK
  <2>2. History(p)' = <<>> /\ DOMAIN <<>> = {}
    BY <1>1, <2>1 DEF History
  <2>3. base'[p] = changes
    BY <1>1, <1>4 DEF IInv, TypeOK
  <2>4. \A s \in Sources : changes[s] <= changes[s]
    BY DEF IInv, TypeOK
  <2> QED
    BY <1>1, <1>4, <2>2, <2>3, <2>4 DEF HistoryOK, InOrder, Bounded, Reported, UpToDate
<1>5. CASE p # q
  <2>1. base'[p] = base[p]
    BY <1>1, <1>5 DEF IInv, TypeOK
  <2> QED
    BY <1>1, <1>2, <1>3, <1>5, <2>1 DEF HistoryOK
<1> QED
  BY <1>4, <1>5

LEMMA PullMessagesStream ==
  ASSUME IInv, StreamInv, NEW r \in Requests, NEW to,
         PullMessagesAtOnce(r, to) \/ PullMessagesWait(r, to)
  PROVE  StreamInv'
<1> DEFINE q == FindPullPoint(to)
<1>1. q \in PullPoints /\ q \in created
  <2>1. q # None
    BY DEF PullMessagesAtOnce, PullMessagesWait
  <2> QED
    BY <2>1, FoundPullPoint DEF IInv, Registered
<1>2. /\ UNCHANGED <<base, changes, logical, created>> /\ Live' = Live
  BY DEF PullMessagesAtOnce, PullMessagesWait, alarmVars, Live
<1> SUFFICES ASSUME NEW p \in PullPoints PROVE HistoryOK(p)'
  BY DEF StreamInv
<1>3. HistoryOK(p)
  BY DEF StreamInv
<1>4. CASE PullMessagesAtOnce(r, to)
  <2>1. stream' = [stream EXCEPT ![q] = @ \o events[q]] /\ events' = SwappedOut(q)
    BY <1>4 DEF PullMessagesAtOnce
  <2> HIDE DEF q
  <2>2. History(p)' = History(p) /\ (p # q => UNCHANGED <<stream[p], events[p]>>)
    BY <1>1, <2>1, HandedOut DEF IInv
  <2> QED
    BY <1>1, <1>2, <1>3, <2>2, SameHistory
<1>5. CASE PullMessagesWait(r, to)
  <2>1. UNCHANGED <<stream, events>>
    BY <1>5 DEF PullMessagesWait
  <2> QED
    BY <1>2, <1>3, <2>1, SameHistory DEF History
<1> QED
  BY <1>4, <1>5

\* The front of a history that is no longer added to.
LEMMA UnsubscribeStream ==
  ASSUME IInv, StreamInv, NEW r \in Requests, NEW to, UnsubscribeFound(r, to)
  PROVE  StreamInv'
<1> DEFINE q == FindPullPoint(to)
<1>1. q \in PullPoints /\ q \in created /\ q = Head(pullpoints) /\ pullpoints # <<>>
  <2>1. q # None
    BY DEF UnsubscribeFound
  <2> QED
    BY <2>1, FoundPullPoint DEF IInv, Registered
<1>2. /\ UNCHANGED <<base, changes, logical, created, stream>>
      /\ events' = [events EXCEPT ![q] = <<>>]
      /\ pullpoints' = Tail(pullpoints)
  BY DEF UnsubscribeFound, alarmVars
<1>3. Live' = Live \ {q}
  BY <1>1, <1>2, TailDistinct DEF IInv, TypeOK, Registered, Live
<1> HIDE DEF q
<1> SUFFICES ASSUME NEW p \in PullPoints PROVE HistoryOK(p)'
  BY DEF StreamInv
<1>4. HistoryOK(p)
  BY DEF StreamInv
<1>5. CASE p = q
  <2>1. /\ stream[p] \in Seq(Message) /\ events[p] \in Seq(Message)
    BY HistoryType DEF IInv
  <2>2. History(p)' = stream[p]
    <3>1. events'[p] = <<>>
      BY <1>2, <1>5 DEF IInv, TypeOK
    <3> QED
      BY <1>2, <2>1, <3>1, ConcatEmptySeq DEF History
  <2>3. InOrder(stream[p], base[p])
    BY <1>4, <2>1, FrontInOrder DEF HistoryOK, History
  <2>4. \A i \in DOMAIN stream[p] : i \in DOMAIN History(p) /\ History(p)[i] = stream[p][i]
    BY <2>1, InFront DEF History
  <2>5. Bounded(stream[p], base[p], changes) /\ Reported(stream[p])
    BY <1>4, <2>4 DEF HistoryOK, Bounded, Reported
  <2>6. p \notin Live' /\ p \in created'
    BY <1>1, <1>2, <1>3, <1>5
  <2> QED
    BY <1>2, <2>2, <2>3, <2>5, <2>6 DEF HistoryOK
<1>6. CASE p # q
  <2>1. events'[p] = events[p]
    BY <1>2, <1>6 DEF IInv, TypeOK
  <2> QED
    BY <1>2, <1>3, <1>4, <2>1, SameHistory DEF History
<1> QED
  BY <1>5, <1>6

LEMMA SynchronizationReports ==
  ASSUME TypeOK
  PROVE  IsReport(SyncMessages, changes)
<1>1. DOMAIN SyncMessages = DOMAIN SyncSources
  BY DEF SyncMessages
<1>2. \A i \in DOMAIN SyncSources : SyncSources[i] \in Range(SyncSources)
  BY DEF Range
<1>3. \A i \in DOMAIN SyncMessages : /\ SyncMessages[i].op = "Initialized"
                                    /\ SyncMessages[i].source = SyncSources[i]
                                    /\ SyncMessages[i].stamp = changes[SyncSources[i]]
  BY DEF SyncMessages
<1>4. ASSUME NEW s \in Range(SyncSources)
      PROVE  \E i \in DOMAIN SyncMessages : SyncMessages[i].source = s
  BY <1>1, <1>3 DEF Range
<1> QED
  BY <1>1, <1>2, <1>3, <1>4 DEF IsReport

\* All that is queued is replaced by a report of the present states.
LEMMA SetSynchronizationPointStream ==
  ASSUME IInv, StreamInv, NEW r \in Requests, NEW to, SetSynchronizationPoint(r, to)
  PROVE  StreamInv'
<1> DEFINE q == FindPullPoint(to)
<1>1. /\ UNCHANGED <<base, changes, logical, created, stream>> /\ Live' = Live
  BY DEF SetSynchronizationPoint, alarmVars, Live
<1> SUFFICES ASSUME NEW p \in PullPoints PROVE HistoryOK(p)'
  BY DEF StreamInv
<1>2. HistoryOK(p)
  BY DEF StreamInv
<1>3. CASE events'[p] = events[p]
  BY <1>1, <1>2, <1>3, SameHistory DEF History
<1>4. CASE events'[p] # events[p]
  <2>1. q # None
    BY <1>4 DEF SetSynchronizationPoint
  <2>2. q \in Live /\ q \in created /\ q \in PullPoints
    BY <2>1, FoundPullPoint DEF IInv, Registered
  <2>3. events' = [events EXCEPT ![q] = SyncMessages]
    BY <2>1 DEF SetSynchronizationPoint
  <2> HIDE DEF q
  <2>4. p = q /\ events'[p] = SyncMessages
    BY <1>4, <2>2, <2>3 DEF IInv, TypeOK
  <2>5. stream[p] \in Seq(Message) /\ events[p] \in Seq(Message) /\ SyncMessages \in Seq(Message)
    BY HistoryType, SyncMessagesType DEF IInv
  <2>6. base[p] \in [Sources -> Nat] /\ changes \in [Sources -> Nat]
    BY HistoryType DEF IInv
  <2>8. \A i \in DOMAIN stream[p] : i \in DOMAIN History(p) /\ History(p)[i] = stream[p][i]
    BY <2>5, InFront DEF History
  <2>9. Bounded(stream[p], base[p], changes) /\ Reported(stream[p])
    BY <1>2, <2>8 DEF HistoryOK, Bounded, Reported
  <2>10. InOrder(stream[p], base[p])
    BY <1>2, <2>5, FrontInOrder DEF HistoryOK, History
  <2>11. IsReport(SyncMessages, changes)
    BY SynchronizationReports DEF IInv
  <2>12. \A s \in Sources \ Range(SyncSources) : changes[s] = base[p][s]
    <3> SUFFICES ASSUME NEW s \in Sources \ Range(SyncSources) PROVE changes[s] = base[p][s]
      OBVIOUS
    <3>1. \A i \in DOMAIN History(p) : History(p)[i].source # s
      BY <1>2 DEF HistoryOK, Reported
    <3> QED
      BY <1>2, <2>2, <2>4, <3>1 DEF HistoryOK, UpToDate
  <2>13. History(p)' = stream[p] \o SyncMessages
    BY <1>1, <2>4 DEF History
  <2> DEFINE g == stream[p] \o SyncMessages
  <2>14. InOrder(g, base[p]) /\ Bounded(g, base[p], changes)
    BY <2>5, <2>6, <2>9, <2>10, <2>11, ReportInOrder
  <2>15. UpToDate(g, base[p], changes, logical) /\ Reported(g)
    BY <2>5, <2>9, <2>11, <2>12, ReportUpToDate
  <2>16. p \in created'
    BY <1>1, <2>2, <2>4
  <2> HIDE DEF g
  <2> QED
    BY <1>1, <2>13, <2>14, <2>15, <2>16 DEF HistoryOK, g
<1> QED
  BY <1>3, <1>4

\* What an alarm signals, and what it leaves.
LEMMA AlarmBursts ==
  ASSUME TypeOK, NEW g \in Generators, GenerateEvent(g)
  PROVE  /\ IsBurst(Burst(g), changes, logical, changes', logical')
         /\ Reported(Burst(g))
         /\ \A s \in Sources : changes[s] <= changes'[s]
<1> DEFINE t == Burst(g)
<1>1. Signals[g] \in Seq(Sources)
  BY SourcesAssumption
<1>2. DOMAIN t = DOMAIN Signals[g] /\ \A i \in DOMAIN t : Signals[g][i] \in Sources
  BY <1>1, LenProperties, ElementOfSeq DEF Burst
<1>3. \A i \in DOMAIN t : /\ t[i].op = "Changed"
                         /\ t[i].source = Signals[g][i]
                         /\ t[i].value = ~logical[Signals[g][i]]
                         /\ t[i].stamp = changes[Signals[g][i]] + 1
  BY DEF Burst
<1> HIDE DEF t
<1>4. \A s \in Sources :
        /\ changes'[s] = IF s \in Inverted(g) THEN changes[s] + 1 ELSE changes[s]
        /\ logical'[s] = IF s \in Inverted(g) THEN ~logical[s] ELSE logical[s]
  BY DEF GenerateEvent
<1>5. \A i \in DOMAIN t : Signals[g][i] \in Inverted(g)
  BY <1>2 DEF Inverted
<1>6. \A i, j \in DOMAIN t : t[i].source = t[j].source => i = j
  BY <1>2, <1>3, DistinctAssumption
<1>7. ASSUME NEW s \in Sources, \A i \in DOMAIN t : t[i].source # s
      PROVE  changes'[s] = changes[s] /\ logical'[s] = logical[s]
  <2>1. s \notin Inverted(g)
    BY <1>2, <1>3, <1>7 DEF Inverted
  <2> QED
    BY <1>4, <2>1
<1>8. IsBurst(t, changes, logical, changes', logical')
  <2>1. \A i \in DOMAIN t : /\ t[i].stamp = changes[t[i].source] + 1
                           /\ t[i].stamp = changes'[t[i].source]
                           /\ t[i].value = logical'[t[i].source]
    BY <1>2, <1>3, <1>4, <1>5
  <2> QED
    BY <1>3, <1>6, <1>7, <2>1 DEF IsBurst
<1>9. Reported(t)
  <2>1. Range(Signals[g]) \subseteq Range(SyncSources)
    BY SyncAssumption
  <2>2. \A i \in DOMAIN t : Signals[g][i] \in Range(Signals[g])
    BY <1>2 DEF Range
  <2> QED
    BY <1>3, <2>1, <2>2 DEF Reported
<1>10. \A s \in Sources : changes[s] <= changes'[s]
  <2>1. \A s \in Sources : changes[s] \in Nat
    BY DEF TypeOK
  <2> QED
    BY <1>4, <2>1
<1> QED
  BY <1>8, <1>9, <1>10 DEF t

\* An alarm adds its burst to the history of each live pull point, whether the first
\* message goes to a client or not.
LEMMA AlarmAdds ==
  ASSUME IInv, NEW g \in Generators, GenerateEvent(g), NEW p \in PullPoints
  PROVE  IF p \in Live THEN History(p)' = History(p) \o Burst(g)
                       ELSE UNCHANGED <<stream[p], events[p]>> /\ History(p)' = History(p)
<1> DEFINE t == Burst(g)
<1>1. stream[p] \in Seq(Message) /\ events[p] \in Seq(Message) /\ t \in Seq(Message)
  BY HistoryType, BurstType DEF IInv
<1>2. /\ events'[p] = Queued(p, t)
      /\ stream'[p] = IF Answers(p, t) THEN stream[p] \o Sent(p, t) ELSE stream[p]
  BY DEF GenerateEvent
<1> HIDE DEF t
<1>3. CASE Answers(p, t)
  <2>1. p \in Live /\ t # <<>>
    BY <1>3 DEF Answers
  <2> DEFINE e == Append(events[p], Head(t))
  <2>2. e \in Seq(Message) /\ Tail(t) \in Seq(Message) /\ e \o Tail(t) = events[p] \o t
    BY <1>1, <2>1, HeadMoved
  <2> HIDE DEF e
  <2>3. (stream[p] \o e) \o Tail(t) = stream[p] \o (e \o Tail(t))
    BY <1>1, <2>2, Regrouped
  <2>4. stream[p] \o (events[p] \o t) = (stream[p] \o events[p]) \o t
    BY <1>1, Regrouped
  <2>5. events'[p] = Tail(t) /\ stream'[p] = stream[p] \o e
    BY <1>2, <1>3 DEF Queued, Sent, e
  <2> QED
    BY <2>1, <2>2, <2>3, <2>4, <2>5 DEF History, t
<1>4. CASE ~Answers(p, t) /\ p \in Live
  <2>1. events'[p] = events[p] \o t /\ stream'[p] = stream[p]
    BY <1>2, <1>4 DEF Queued
  <2>2. stream[p] \o (events[p] \o t) = (stream[p] \o events[p]) \o t
    BY <1>1, Regrouped
  <2> QED
    BY <1>4, <2>1, <2>2 DEF History, t
<1>5. CASE p \notin Live
  <2>1. UNCHANGED <<stream[p], events[p]>>
    BY <1>2, <1>5 DEF Queued, Answers
  <2> QED
    BY <1>5, <2>1 DEF History
<1> QED
  BY <1>3, <1>4, <1>5

LEMMA GenerateEventStream ==
  ASSUME IInv, StreamInv, NEW g \in Generators, GenerateEvent(g)
  PROVE  StreamInv'
<1> DEFINE t == Burst(g)
<1>1. UNCHANGED <<base, created, pullpoints>> /\ Live' = Live
  BY DEF GenerateEvent, Live
<1>2. /\ IsBurst(t, changes, logical, changes', logical')
      /\ Reported(t)
      /\ \A s \in Sources : changes[s] <= changes'[s]
  BY AlarmBursts DEF IInv
<1>3. t \in Seq(Message) /\ changes' \in [Sources -> Nat]
  BY BurstType, NextType DEF IInv, Next, RunReady, TypeOK
<1> SUFFICES ASSUME NEW p \in PullPoints PROVE HistoryOK(p)'
  BY DEF StreamInv
<1>4. HistoryOK(p)
  BY DEF StreamInv
<1> DEFINE h == History(p)
<1>5. h \in Seq(Message) /\ base[p] \in [Sources -> Nat] /\ changes \in [Sources -> Nat]
  BY HistoryType DEF IInv
<1>6. DOMAIN h = 1..Len(h) /\ \A i \in DOMAIN h : h[i] \in Message
  BY <1>5, LenProperties, ElementOfSeq
<1>7. /\ \A s \in Sources : base[p][s] <= changes'[s]
      /\ \A i \in DOMAIN h : h[i].stamp <= changes'[h[i].source]
  <2>1. \A s \in Sources : base[p][s] \in Nat /\ changes[s] \in Nat /\ changes'[s] \in Nat
    BY <1>3, <1>5
  <2>2. \A i \in DOMAIN h : h[i].source \in Sources /\ h[i].stamp \in Nat
    BY <1>6 DEF Message
  <2>3. /\ \A s \in Sources : base[p][s] <= changes[s]
        /\ \A i \in DOMAIN h : h[i].stamp <= changes[h[i].source]
    BY <1>4 DEF HistoryOK, Bounded
  <2> HIDE DEF h, t
  <2> QED
    BY <1>2, <2>1, <2>2, <2>3
<1>8. CASE p \in Live
  <2>1. History(p)' = h \o t /\ p \in created
    BY <1>8, AlarmAdds DEF IInv, Registered
  <2>2. InOrder(h, base[p]) /\ UpToDate(h, base[p], changes, logical) /\ Reported(h)
    BY <1>4, <1>8 DEF HistoryOK
  <2> HIDE DEF h, t
  <2>3. InOrder(h \o t, base[p])
    BY <1>2, <1>3, <1>5, <2>2, BurstInOrder
  <2>4. UpToDate(h \o t, base[p], changes', logical')
    BY <1>2, <1>3, <1>5, <2>2, BurstUpToDate
  <2> DEFINE gg == h \o t
  <2>5. ASSUME NEW i \in DOMAIN gg
        PROVE  \/ i \in DOMAIN h /\ gg[i] = h[i]
               \/ i - Len(h) \in DOMAIN t /\ gg[i] = t[i - Len(h)]
    <3>1. /\ Len(h) \in Nat /\ Len(t) \in Nat
          /\ DOMAIN h = 1..Len(h) /\ DOMAIN t = 1..Len(t) /\ DOMAIN gg = 1..(Len(h) + Len(t))
          /\ \A k \in 1..Len(h) : gg[k] = h[k]
          /\ \A k \in 1..Len(t) : gg[Len(h) + k] = t[k]
      BY <1>3, <1>5, Joined
    <3> HIDE DEF gg
    <3>2. CASE i \notin DOMAIN h
      <4>1. i - Len(h) \in DOMAIN t /\ i = Len(h) + (i - Len(h))
        BY <3>1, <3>2
      <4> QED
        BY <3>1, <4>1
    <3> QED
      BY <3>1, <3>2
  <2>6. \A i \in DOMAIN t : t[i].stamp <= changes'[t[i].source]
    <3>1. \A i \in DOMAIN t : t[i] \in Message
      BY <1>3, LenProperties, ElementOfSeq
    <3> QED
      BY <1>2, <3>1 DEF IsBurst, Message
  <2> HIDE DEF gg
  <2>7. Bounded(gg, base[p], changes') /\ Reported(gg)
    BY <1>2, <1>7, <2>2, <2>5, <2>6 DEF Bounded, Reported
  <2> QED
    BY <1>1, <2>1, <2>3, <2>4, <2>7 DEF HistoryOK, gg
<1>9. CASE p \notin Live
  <2>1. History(p)' = h /\ UNCHANGED <<stream[p], events[p]>>
    BY <1>9, AlarmAdds
  <2> QED
    BY <1>1, <1>4, <1>7, <1>9, <2>1 DEF HistoryOK, Bounded
<1> QED
  BY <1>8, <1>9

LEMMA StreamStep ==
  ASSUME IInv, StreamInv, [Next]_vars
  PROVE  StreamInv'
<1>1. ASSUME UNCHANGED <<stream, events, base, changes, logical, pullpoints, created>>
      PROVE  StreamInv'
  <2>1. Live' = Live /\ \A p \in PullPoints : History(p)' = History(p)
    BY <1>1 DEF Live, History
  <2> QED
    BY <1>1, <2>1, SameHistory DEF StreamInv
<1>2. ASSUME NEW r \in Requests, Request(r) PROVE StreamInv'
  <2>1. ASSUME NEW q \in PullPoints, CreatePullPoint(r, q) PROVE StreamInv'
    BY <2>1, CreatePullPointStream
  <2>2. ASSUME NEW to \in Addresses,
               \/ PullMessagesAtOnce(r, to) \/ PullMessagesWait(r, to)
               \/ SetSynchronizationPoint(r, to) \/ UnsubscribeFound(r, to)
        PROVE  StreamInv'
    BY <2>2, PullMessagesStream, SetSynchronizationPointStream, UnsubscribeStream
  <2>3. CASE \/ \E to \in Addresses : PullMessagesNotFound(r, to) \/ UnsubscribeNotFound(r, to)
             \/ Renew(r) \/ NotUnderstood(r)
    BY <1>1, <2>3 DEF PullMessagesNotFound, UnsubscribeNotFound, Renew, AnswerOk, NotUnderstood,
                      pullVars, alarmVars
  <2> QED
    BY <1>2, <2>1, <2>2, <2>3 DEF Request
<1>3. ASSUME NEW g \in Generators, GenerateEvent(g) PROVE StreamInv'
  BY <1>3, GenerateEventStream
<1>4. ASSUME NEW p \in PullPoints, PullTimeout(p) PROVE StreamInv'
  BY <1>4, AnswerWaiterStream DEF PullTimeout
<1>5. ASSUME NEW p \in PullPoints, DanglingTimeout(p) PROVE StreamInv'
  BY <1>1, <1>5, AnswerWaiterStream DEF DanglingTimeout, pullVars, alarmVars
<1>6. CASE \/ \E g \in Generators : AlarmExpires(g)
           \/ \E p \in PullPoints : TimeoutExpires(p)
           \/ UNCHANGED vars
  BY <1>1, <1>6 DEF AlarmExpires, TimeoutExpires, vars, pullVars, alarmVars
<1> QED
  BY <1>2, <1>3, <1>4, <1>5, <1>6 DEF Next, RunReady

LEMMA InitStream == Init => StreamInv
<1> SUFFICES ASSUME Init, NEW p \in PullPoints PROVE HistoryOK(p)
  BY DEF StreamInv
<1>1. /\ stream[p] = <<>> /\ events[p] = <<>> /\ base[p] = changes
      /\ changes = [s \in Sources |-> 0] /\ pullpoints = <<>>
  BY DEF Init
<1>2. History(p) = <<>> /\ DOMAIN <<>> = {}
  BY <1>1 DEF History
<1>3. p \notin Live
  BY <1>1 DEF Live, Range
<1> QED
  BY <1>1, <1>2, <1>3 DEF HistoryOK, InOrder, Bounded, Reported

LEMMA StreamInductive == Spec => []StreamInv
  BY InitStream, StreamStep, Inductive, PTL DEF Spec

-----------------------------------------------------------------------------
(* The theorems.                                                           *)

\* Over any number of pulls, timeouts, dangling ones too, synchronization points and
\* alarms of any length, the clients of a pull point see each change once and in order.
THEOREM StreamAlwaysInOrder == Spec => []StreamInOrder
<1>1. StreamInv => StreamInOrder
  <2> SUFFICES ASSUME StreamInv, NEW p \in PullPoints, NEW j \in DOMAIN History(p)
               PROVE  LET h == History(p)
                          Expected(k) ==
                            IF \E i \in DOMAIN h : Precedes(h, i, k)
                            THEN h[CHOOSE i \in DOMAIN h : Precedes(h, i, k)].stamp
                            ELSE base[p][h[k].source]
                      IN IF h[j].op = "Changed" THEN h[j].stamp = Expected(j) + 1
                                                ELSE h[j].stamp >= Expected(j)
    BY DEF StreamInOrder
  <2> DEFINE h == History(p)
  <2>1. InOrder(h, base[p])
    BY DEF StreamInv, HistoryOK
  <2>2. /\ \A i \in DOMAIN h : Precedes(h, i, j) => Fits(h[j], h[i].stamp)
        /\ (\A i \in DOMAIN h : ~Precedes(h, i, j)) => Fits(h[j], base[p][h[j].source])
    BY <2>1 DEF InOrder
  <2> QED
    BY <2>2 DEF Fits
<1> QED
  BY <1>1, StreamInductive, PTL

\* At any time what a live subscription was sent and has queued leads up to the present
\* state of each source.
THEOREM NothingEverMissed == Spec => []NothingMissed
<1>1. IInv /\ StreamInv => NothingMissed
  <2> SUFFICES ASSUME IInv, StreamInv, NEW p \in Live, NEW s \in Sources
               PROVE  LET h == History(p)
                          about == {i \in DOMAIN h : h[i].source = s}
                      IN IF about = {} THEN changes[s] = base[p][s]
                         ELSE LET last == h[CHOOSE i \in about : \A j \in about : j <= i]
                              IN /\ last.stamp = changes[s]
                                 /\ last.op = "Changed" => last.value = logical[s]
    BY DEF NothingMissed
  <2>1. p \in PullPoints
    BY LiveInPullPoints DEF IInv
  <2> DEFINE h == History(p)
             about == {i \in DOMAIN h : h[i].source = s}
             l == CHOOSE i \in about : \A j \in about : j <= i
  <2>2. h \in Seq(Message) /\ UpToDate(h, base[p], changes, logical)
    BY <2>1, HistoryType DEF IInv, StreamInv, HistoryOK
  <2> HIDE DEF h
  <2>3. CASE about = {}
    <3>1. changes[s] = base[p][s]
      BY <2>2, <2>3 DEF UpToDate
    <3> QED
      BY <2>3, <3>1 DEF h
  <2>4. CASE about # {}
    <3>1. PICK k \in DOMAIN h : h[k].source = s
      BY <2>4
    <3>2. PICK m \in DOMAIN h : IsLast(h, m, s)
      BY <2>2, <3>1, HasLast
    <3>3. \E i \in about : \A j \in about : j <= i
      BY <3>2 DEF IsLast
    <3>4. l \in about /\ \A j \in about : j <= l
      BY <3>3, Zenon
    <3> HIDE DEF l
    <3>5. l \in DOMAIN h /\ IsLast(h, l, s)
      BY <3>4 DEF IsLast
    <3>6. h[l].stamp = changes[s] /\ (h[l].op = "Changed" => h[l].value = logical[s])
      BY <2>2, <3>5 DEF UpToDate
    <3> QED
      BY <2>4, <3>6 DEF l, h
  <2> QED
    BY <2>3, <2>4
<1> QED
  BY <1>1, Inductive, StreamInductive, PTL
-----------------------------------------------------------------------------
(* The core implements the logs of Subscriptions: under Log, Position and  *)
(* Waiting each step is a step of those or changes nothing.                *)

LEMMA FrontAndRest ==
  ASSUME NEW a \in Seq(Message), NEW b \in Seq(Message)
  PROVE  /\ SubSeq(a \o b, 1, Len(a)) = a
         /\ SubSeq(a \o b, Len(a) + 1, Len(a \o b)) = b
<1> DEFINE g == a \o b
           f == SubSeq(g, 1, Len(a))
           r == SubSeq(g, Len(a) + 1, Len(g))
<1>1. /\ g \in Seq(Message) /\ Len(a) \in Nat /\ Len(b) \in Nat
      /\ Len(g) = Len(a) + Len(b)
      /\ \A i \in 1..Len(a) : g[i] = a[i]
      /\ \A i \in 1..Len(b) : g[Len(a) + i] = b[i]
      /\ \A i \in 1..Len(a) : a[i] \in Message
      /\ \A i \in 1..Len(b) : b[i] \in Message
  BY Joined
<1>2. \A i \in 1..Len(g) : g[i] \in Message
  BY <1>1, ElementOfSeq
<1> HIDE DEF g
<1>3. f = a
  <2>1. \A i \in 1..Len(a) : g[i] \in Message
    BY <1>1, <1>2
  <2>2. /\ f \in Seq(Message)
        /\ Len(f) = IF 1 <= Len(a) THEN Len(a) - 1 + 1 ELSE 0
        /\ \A i \in 1..(Len(a) - 1 + 1) : f[i] = g[1 + i - 1]
    BY <1>1, <2>1, SubSeqProperties
  <2> HIDE DEF f
  <2>3. Len(f) = Len(a) /\ \A i \in 1..Len(a) : f[i] = g[i]
    BY <1>1, <2>2
  <2> QED
    BY <1>1, <2>2, <2>3, SeqEqual
<1>4. r = b
  <2>1. \A i \in (Len(a) + 1)..Len(g) : g[i] \in Message
    BY <1>1, <1>2
  <2>2. /\ r \in Seq(Message)
        /\ Len(r) = IF Len(a) + 1 <= Len(g) THEN Len(g) - (Len(a) + 1) + 1 ELSE 0
        /\ \A i \in 1..(Len(g) - (Len(a) + 1) + 1) : r[i] = g[(Len(a) + 1) + i - 1]
    BY <1>1, <2>1, SubSeqProperties
  <2> HIDE DEF r
  <2>3. Len(r) = Len(b)
    BY <1>1, <2>2
  <2>4. \A i \in 1..Len(b) : r[i] = b[i]
    <3> SUFFICES ASSUME NEW i \in 1..Len(b) PROVE r[i] = b[i]
      OBVIOUS
    <3>1. i \in 1..(Len(g) - (Len(a) + 1) + 1) /\ (Len(a) + 1) + i - 1 = Len(a) + i
      BY <1>1
    <3> QED
      BY <1>1, <2>2, <3>1
  <2> QED
    BY <1>1, <2>2, <2>3, <2>4, SeqEqual
<1> QED
  BY <1>3, <1>4 DEF g

\* What stands behind the position is the queue, what stands before it was handed out.
LEMMA LogOfPullPoint ==
  ASSUME TypeOK, NEW p \in PullPoints
  PROVE  /\ Log[p] = stream[p] \o events[p]
         /\ Position[p] = Len(stream[p])
         /\ Waiting[p] = IF is_client_waiting[p] THEN response_writer[p] ELSE None
         /\ Logs!Sent(p) = stream[p]
         /\ Logs!Rest(p) = events[p]
<1>1. stream[p] \in Seq(Message) /\ events[p] \in Seq(Message)
  BY HistoryType
<1>2. /\ Log[p] = stream[p] \o events[p]
      /\ Position[p] = Len(stream[p])
      /\ Waiting[p] = IF is_client_waiting[p] THEN response_writer[p] ELSE None
  BY DEF Log, Position, Waiting, History
<1>3. /\ SubSeq(stream[p] \o events[p], 1, Len(stream[p])) = stream[p]
      /\ SubSeq(stream[p] \o events[p], Len(stream[p]) + 1, Len(stream[p] \o events[p])) = events[p]
  BY <1>1, FrontAndRest
<1> QED
  BY <1>2, <1>3 DEF Logs!Sent, Logs!Rest

\* Who waits, in both.
LEMMA WaitingExchange ==
  ASSUME IInv, NEW p \in PullPoints
  PROVE  /\ Waiting[p] # None <=> is_client_waiting[p]
         /\ is_client_waiting[p] => /\ Waiting[p] = response_writer[p]
                                    /\ response_writer[p] \in Requests
                                    /\ reply[response_writer[p]] = Open
                                    /\ p \in Live
         /\ Logs!Displaced(p) = Released(p)
<1>1. Waiting[p] = IF is_client_waiting[p] THEN response_writer[p] ELSE None
  BY DEF Waiting
<1>2. is_client_waiting[p] => response_writer[p] \in Requests /\ response_writer[p] # None
  BY SourcesAssumption DEF IInv, WriterIsOpen
<1>3. Logs!Displaced(p) = Released(p)
  <2>1. Logs!Bare("dropped") = Dropped
    BY DEF Logs!Bare, Dropped, Plain
  <2>2. CASE is_client_waiting[p]
    BY <1>1, <1>2, <2>1, <2>2 DEF Logs!Displaced, Released
  <2>3. CASE ~is_client_waiting[p]
    BY <1>1, <2>3, Zenon DEF Logs!Displaced, Released
  <2> QED
    BY <2>2, <2>3
<1> QED
  BY <1>1, <1>2, <1>3 DEF IInv, WriterIsOpen

\* An exchange that was waited for at p was waited for nowhere else.
LEMMA WaitsOnce ==
  ASSUME IInv, NEW p \in PullPoints, NEW q \in PullPoints,
         is_client_waiting[p], is_client_waiting[q], response_writer[p] = response_writer[q]
  PROVE  p = q
<1>1. response_writer[p] \in Requests /\ reply[response_writer[p]] = Open
  BY DEF IInv, WriterIsOpen
<1>2. PICK o \in Live : \A x \in PullPoints : HeldBy(response_writer[p], x) => x = o
  BY <1>1 DEF IInv, OpenPullIsCovered
<1> QED
  BY <1>2 DEF HeldBy
\* The statuses of both.
LEMMA SameAnswers ==
  /\ Logs!Bare("unsent") = Unsent /\ Logs!Bare("open") = Open /\ Logs!Bare("ok") = Ok
  /\ Logs!Bare("fault") = Fault /\ Logs!Bare("dropped") = Dropped
  /\ \A msgs : Logs!Given(msgs) = PullMessagesResponse(msgs)
  BY DEF Logs!Bare, Logs!Given, Plain, Unsent, Open, Ok, Fault, Dropped, PullMessagesResponse

LEMMA CreateIsSubscribe ==
  ASSUME IInv, NEW r \in Requests, NEW q \in PullPoints, CreatePullPoint(r, q)
  PROVE  Logs!Subscribe(r, q)
<1>1. /\ UNCHANGED <<stream, events, is_client_waiting, response_writer, changes, logical>>
      /\ created' = created \cup {q} /\ q \notin created
      /\ pullpoints' = Append(pullpoints, q)
      /\ reply' = [reply EXCEPT ![r] = Ok]
  BY DEF CreatePullPoint, pullVars
<1>2. Live' = Live \cup {q}
  BY <1>1, AppendElements DEF IInv, TypeOK, Live
<1>3. UNCHANGED <<Log, Position, Waiting>>
  BY <1>1 DEF Log, Position, Waiting, History
<1> QED
  BY <1>1, <1>2, <1>3, SameAnswers DEF Logs!Subscribe, Logs!logs, Logs!world

\* The positions move with what is handed out.
LEMMA PositionsFollow ==
  ASSUME NEW p \in PullPoints, NEW h,
         \A q \in PullPoints : stream'[q] = IF q = p THEN h ELSE stream[q]
  PROVE  Position' = [q \in PullPoints |-> IF q = p THEN Len(h) ELSE Len(stream[q])]
<1>1. ASSUME NEW q \in PullPoints
      PROVE  Len(stream'[q]) = IF q = p THEN Len(h) ELSE Len(stream[q])
  <2>1. CASE q = p
    BY <2>1
  <2>2. CASE q # p
    BY <2>2
  <2> QED
    BY <2>1, <2>2
<1> QED
  BY <1>1 DEF Position

\* All that is queued goes to an exchange: the position is at the end of the log.
LEMMA HandedOutIsRead ==
  ASSUME IInv, NEW p \in PullPoints,
         stream' = [stream EXCEPT ![p] = @ \o events[p]], events' = SwappedOut(p),
         StopsWaiting(p)
  PROVE  /\ Log' = Log
         /\ Position' = [Position EXCEPT ![p] = Len(Log[p])]
         /\ Waiting' = [Waiting EXCEPT ![p] = None]
<1>1. TypeOK
  BY DEF IInv
<1>2. \A q \in PullPoints : History(q)' = History(q)
  BY <1>1, HandedOut
<1>3. Log' = Log
  BY <1>2 DEF Log
<1>4. Log[p] = stream[p] \o events[p]
  BY <1>1, LogOfPullPoint
<1>5. \A q \in PullPoints : stream'[q] = IF q = p THEN stream[p] \o events[p] ELSE stream[q]
  BY <1>1 DEF TypeOK
<1>6. Position' = [Position EXCEPT ![p] = Len(Log[p])]
  <2>1. Position' = [q \in PullPoints |-> IF q = p THEN Len(Log[p]) ELSE Len(stream[q])]
    BY <1>4, <1>5, PositionsFollow
  <2> QED
    BY <2>1 DEF Position
<1>7. \A q \in PullPoints :
        /\ is_client_waiting'[q] = IF q = p THEN FALSE ELSE is_client_waiting[q]
        /\ response_writer'[q] = IF q = p THEN None ELSE response_writer[q]
  BY <1>1 DEF StopsWaiting, TypeOK
<1>8. Waiting' = [Waiting EXCEPT ![p] = None]
  <2>1. Waiting' = [q \in PullPoints |->
          IF q = p THEN None
          ELSE IF is_client_waiting[q] THEN response_writer[q] ELSE None]
    BY <1>7 DEF Waiting
  <2> QED
    BY <2>1 DEF Waiting
<1> QED
  BY <1>3, <1>6, <1>8

\* Who is waited for at one pull point alone.
LEMMA AtOnceIsPull ==
  ASSUME IInv, NEW r \in Requests, NEW to, PullMessagesAtOnce(r, to)
  PROVE  /\ FindPullPoint(to) \in Live
         /\ Logs!Pull(r, FindPullPoint(to))
<1> DEFINE q == FindPullPoint(to)
<1>1. q \in PullPoints /\ q \in Live
  BY FoundPullPoint DEF PullMessagesAtOnce, IInv
<1>2. /\ events[q] # <<>>
      /\ reply' = [Released(q) EXCEPT ![r] = PullMessagesResponse(events[q])]
      /\ stream' = [stream EXCEPT ![q] = @ \o events[q]]
      /\ events' = SwappedOut(q)
      /\ StopsWaiting(q)
      /\ UNCHANGED <<created, pullpoints, logical, changes>>
  BY DEF PullMessagesAtOnce, alarmVars
<1> HIDE DEF q
<1>3. /\ Log' = Log
      /\ Position' = [Position EXCEPT ![q] = Len(Log[q])]
      /\ Waiting' = [Waiting EXCEPT ![q] = None]
  BY <1>1, <1>2, HandedOutIsRead
<1>4. Logs!Rest(q) = events[q] /\ Logs!Displaced(q) = Released(q)
  BY <1>1, LogOfPullPoint, WaitingExchange DEF IInv
<1>5. Live' = Live
  BY <1>2 DEF Live
<1>6. reply' = [Logs!Displaced(q) EXCEPT ![r] = Logs!Given(Logs!Rest(q))]
  BY <1>2, <1>4, SameAnswers
<1>7. Logs!Pull(r, q)
  BY <1>2, <1>3, <1>4, <1>5, <1>6 DEF Logs!Pull, Logs!world
<1> QED
  BY <1>1, <1>7 DEF q

LEMMA WaitIsWait ==
  ASSUME IInv, NEW r \in Requests, NEW to, PullMessagesWait(r, to)
  PROVE  /\ FindPullPoint(to) \in Live
         /\ Logs!Wait(r, FindPullPoint(to))
<1> DEFINE q == FindPullPoint(to)
<1>1. q \in PullPoints /\ q \in Live
  BY FoundPullPoint DEF PullMessagesWait, IInv
<1>2. /\ events[q] = <<>>
      /\ reply' = [Released(q) EXCEPT ![r] = Open]
      /\ is_client_waiting' = [is_client_waiting EXCEPT ![q] = TRUE]
      /\ response_writer' = [response_writer EXCEPT ![q] = r]
      /\ UNCHANGED <<created, pullpoints, events, stream, logical, changes>>
  BY DEF PullMessagesWait, alarmVars
<1> HIDE DEF q
<1>3. UNCHANGED <<Log, Position>>
  BY <1>2 DEF Log, Position, History
<1>4. Waiting' = [Waiting EXCEPT ![q] = r]
  <2>1. \A p \in PullPoints :
          /\ is_client_waiting'[p] = IF p = q THEN TRUE ELSE is_client_waiting[p]
          /\ response_writer'[p] = IF p = q THEN r ELSE response_writer[p]
    BY <1>1, <1>2 DEF IInv, TypeOK
  <2>2. Waiting' = [p \in PullPoints |->
          IF p = q THEN r ELSE IF is_client_waiting[p] THEN response_writer[p] ELSE None]
    BY <2>1 DEF Waiting
  <2> QED
    BY <2>2 DEF Waiting
<1>5. Logs!Rest(q) = events[q] /\ Logs!Displaced(q) = Released(q)
  BY <1>1, LogOfPullPoint, WaitingExchange DEF IInv
<1>6. Live' = Live
  BY <1>2 DEF Live
<1>7. reply' = [Logs!Displaced(q) EXCEPT ![r] = Logs!Bare("open")]
  BY <1>2, <1>5, SameAnswers
<1>8. Logs!Wait(r, q)
  BY <1>2, <1>3, <1>4, <1>5, <1>6, <1>7 DEF Logs!Wait, Logs!world
<1> QED
  BY <1>1, <1>8 DEF q

LEMMA LogsFollow ==
  ASSUME NEW p \in PullPoints, NEW new, UNCHANGED stream,
         \A q \in PullPoints : events'[q] = IF q = p THEN new ELSE events[q]
  PROVE  Log' = [q \in PullPoints |-> IF q = p THEN stream[p] \o new ELSE stream[q] \o events[q]]
<1>1. ASSUME NEW q \in PullPoints
      PROVE  stream'[q] \o events'[q] = IF q = p THEN stream[p] \o new ELSE stream[q] \o events[q]
  <2>1. CASE q = p
    BY <2>1
  <2>2. CASE q # p
    BY <2>2
  <2> QED
    BY <2>1, <2>2
<1> QED
  BY <1>1 DEF Log, History

\* Where only the queue of p changes, the log is what was sent and the new queue.
LEMMA QueueReplaced ==
  ASSUME TypeOK, NEW p \in PullPoints, NEW new \in Seq(Message),
         events' = [events EXCEPT ![p] = new], UNCHANGED stream
  PROVE  /\ Log' = [Log EXCEPT ![p] = stream[p] \o new]
         /\ UNCHANGED Position
<1>1. \A q \in PullPoints : events'[q] = IF q = p THEN new ELSE events[q]
  BY DEF TypeOK
<1>2. Log' = [q \in PullPoints |-> IF q = p THEN stream[p] \o new ELSE stream[q] \o events[q]]
  BY <1>1, LogsFollow
<1>3. Log' = [Log EXCEPT ![p] = stream[p] \o new]
  BY <1>2 DEF Log, History
<1> QED
  BY <1>3 DEF Position

LEMMA UnsubscribeIsUnsubscribe ==
  ASSUME IInv, NEW r \in Requests, NEW to, UnsubscribeFound(r, to)
  PROVE  /\ FindPullPoint(to) \in Live
         /\ Logs!Unsubscribe(r, FindPullPoint(to))
<1> DEFINE q == FindPullPoint(to)
<1>1. q \in PullPoints /\ q \in Live /\ q = Head(pullpoints) /\ pullpoints # <<>>
  BY FoundPullPoint DEF UnsubscribeFound, IInv
<1>2. /\ pullpoints' = Tail(pullpoints)
      /\ events' = [events EXCEPT ![q] = <<>>]
      /\ is_client_waiting' = [is_client_waiting EXCEPT ![q] = FALSE]
      /\ response_writer' = [response_writer EXCEPT ![q] = None]
      /\ reply' = [Released(q) EXCEPT ![r] = Ok]
      /\ UNCHANGED <<created, stream, logical, changes>>
  BY DEF UnsubscribeFound, alarmVars
<1> HIDE DEF q
<1>3. Live' = Live \ {q}
  BY <1>1, <1>2, TailDistinct DEF IInv, TypeOK, Registered, Live
<1>4. Log' = [Log EXCEPT ![q] = Logs!Sent(q)] /\ UNCHANGED Position
  <2>1. TypeOK /\ <<>> \in Seq(Message)
    BY DEF IInv
  <2>2. Log' = [Log EXCEPT ![q] = stream[q] \o <<>>] /\ UNCHANGED Position
    BY <1>1, <1>2, <2>1, QueueReplaced
  <2>3. stream[q] \o <<>> = stream[q] /\ Logs!Sent(q) = stream[q]
    BY <1>1, <2>1, HistoryType, ConcatEmptySeq, LogOfPullPoint
  <2> QED
    BY <2>2, <2>3
<1>5. Waiting' = [Waiting EXCEPT ![q] = None]
  <2>1. \A p \in PullPoints :
          /\ is_client_waiting'[p] = IF p = q THEN FALSE ELSE is_client_waiting[p]
          /\ response_writer'[p] = IF p = q THEN None ELSE response_writer[p]
    BY <1>1, <1>2 DEF IInv, TypeOK
  <2>2. Waiting' = [p \in PullPoints |->
          IF p = q THEN None ELSE IF is_client_waiting[p] THEN response_writer[p] ELSE None]
    BY <2>1 DEF Waiting
  <2> QED
    BY <2>2 DEF Waiting
<1>6. reply' = [Logs!Displaced(q) EXCEPT ![r] = Logs!Bare("ok")]
  BY <1>1, <1>2, WaitingExchange, SameAnswers
<1>7. Logs!Unsubscribe(r, q)
  BY <1>2, <1>3, <1>4, <1>5, <1>6 DEF Logs!Unsubscribe, Logs!world
<1> QED
  BY <1>1, <1>7 DEF q

\* The request for a synchronization point that reaches a pull point.
LEMMA SynchronizationIsSynchronize ==
  ASSUME IInv, NEW r \in Requests, NEW to, SetSynchronizationPoint(r, to),
         FindPullPoint(to) # None
  PROVE  /\ FindPullPoint(to) \in Live
         /\ Logs!Synchronize(r, FindPullPoint(to))
<1> DEFINE q == FindPullPoint(to)
<1>1. q \in PullPoints /\ q \in Live
  BY FoundPullPoint DEF IInv
<1>2. /\ reply' = [reply EXCEPT ![r] = Ok]
      /\ events' = [events EXCEPT ![q] = SyncMessages]
      /\ UNCHANGED <<created, pullpoints, is_client_waiting, response_writer, stream,
                     logical, changes>>
  BY DEF SetSynchronizationPoint, alarmVars
<1> HIDE DEF q
<1>3. Logs!Present = SyncMessages
  BY DEF Logs!Present, SyncMessages
<1>4. Log' = [Log EXCEPT ![q] = Logs!Sent(q) \o Logs!Present] /\ UNCHANGED Position
  <2>1. TypeOK /\ SyncMessages \in Seq(Message)
    BY SyncMessagesType DEF IInv
  <2>2. Log' = [Log EXCEPT ![q] = stream[q] \o SyncMessages] /\ UNCHANGED Position
    BY <1>1, <1>2, <2>1, QueueReplaced
  <2>3. Logs!Sent(q) = stream[q]
    BY <1>1, <2>1, LogOfPullPoint
  <2> QED
    BY <1>3, <2>2, <2>3
<1>5. UNCHANGED <<Waiting, Live>>
  BY <1>2 DEF Waiting, Live
<1>6. reply' = [reply EXCEPT ![r] = Logs!Bare("ok")]
  BY <1>2, SameAnswers
<1>7. Logs!Synchronize(r, q)
  BY <1>2, <1>4, <1>5, <1>6 DEF Logs!Synchronize, Logs!world
<1> QED
  BY <1>1, <1>7 DEF q

\* The timeout's answer, also when the handler's pull point is gone and another one
\* is at its address.
LEMMA AnswerWaiterIsExpire ==
  ASSUME IInv, NEW q \in Live, AnswerWaiter(q)
  PROVE  Logs!Expire(q) \/ UNCHANGED Logs!vars
<1>1. q \in PullPoints
  BY LiveInPullPoints DEF IInv
<1>2. UNCHANGED <<created, pullpoints, Live, logical, changes>>
  BY DEF AnswerWaiter, alarmVars, Live
<1>3. CASE is_client_waiting[q]
  <2>1. /\ reply' = [reply EXCEPT ![response_writer[q]] = PullMessagesResponse(events[q])]
        /\ stream' = [stream EXCEPT ![q] = @ \o events[q]]
        /\ events' = SwappedOut(q)
        /\ StopsWaiting(q)
    BY <1>3 DEF AnswerWaiter
  <2>2. /\ Log' = Log
        /\ Position' = [Position EXCEPT ![q] = Len(Log[q])]
        /\ Waiting' = [Waiting EXCEPT ![q] = None]
    BY <1>1, <2>1, HandedOutIsRead
  <2>3. /\ Waiting[q] # None /\ Waiting[q] = response_writer[q]
        /\ Logs!Rest(q) = events[q]
    BY <1>1, <1>3, WaitingExchange, LogOfPullPoint DEF IInv
  <2>4. reply' = [reply EXCEPT ![Waiting[q]] = Logs!Given(Logs!Rest(q))]
    BY <2>1, <2>3, SameAnswers
  <2> QED
    BY <1>2, <2>2, <2>3, <2>4 DEF Logs!Expire, Logs!world
<1>4. CASE ~is_client_waiting[q]
  <2>1. UNCHANGED <<reply, stream, events, is_client_waiting, response_writer>>
    BY <1>4 DEF AnswerWaiter
  <2>2. UNCHANGED <<Log, Position, Waiting>>
    BY <2>1 DEF Log, Position, Waiting, History
  <2> QED
    BY <1>2, <2>1, <2>2 DEF Logs!vars, Logs!logs, Logs!world
<1> QED
  BY <1>3, <1>4

\* What an alarm does to one pull point, as to a log.
LEMMA ToldIsAnswered ==
  ASSUME IInv, NEW g \in Generators, NEW p \in PullPoints
  PROVE  /\ Logs!Changes(Signals[g]) = Burst(g)
         /\ Answers(p, Burst(g)) <=> p \in Live /\ Waiting[p] # None /\ Signals[g] # <<>>
<1>1. Logs!Changes(Signals[g]) = Burst(g)
  BY DEF Logs!Changes, Burst
<1>2. Burst(g) # <<>> <=> Signals[g] # <<>>
  <2>1. Signals[g] \in Seq(Sources) /\ Burst(g) \in Seq(Message)
    BY SourcesAssumption, BurstType DEF IInv
  <2>2. DOMAIN Burst(g) = DOMAIN Signals[g]
    BY DEF Burst
  <2> HIDE DEF Burst
  <2>3. Len(Burst(g)) = Len(Signals[g])
    BY <2>1, <2>2, LenProperties
  <2> QED
    BY <2>1, <2>3, EmptySeq
<1>3. Waiting[p] # None <=> is_client_waiting[p]
  BY WaitingExchange
<1> QED
  BY <1>1, <1>2, <1>3 DEF Answers

LEMMA OneLonger ==
  ASSUME NEW a \in Seq(Message), NEW d \in Seq(Message), NEW e \in Seq(Message),
         Len(e) = Len(d) + 1
  PROVE  Len(a \o e) = Len(a \o d) + 1
<1>1. Len(a \o e) = Len(a) + Len(e) /\ Len(a \o d) = Len(a) + Len(d)
  BY Joined
<1>2. Len(a) \in Nat /\ Len(d) \in Nat
  BY Joined
<1> QED
  BY <1>1, <1>2

LEMMA AlarmMovesPosition ==
  ASSUME IInv, NEW g \in Generators, GenerateEvent(g), NEW p \in PullPoints
  PROVE  Len(stream'[p]) = IF Answers(p, Burst(g)) THEN Len(Log[p]) + 1 ELSE Len(stream[p])
<1>1. stream[p] \in Seq(Message) /\ events[p] \in Seq(Message) /\ Burst(g) \in Seq(Message)
  BY HistoryType, BurstType DEF IInv
<1>2. stream'[p] = IF Answers(p, Burst(g)) THEN stream[p] \o Sent(p, Burst(g)) ELSE stream[p]
  BY DEF GenerateEvent
<1>3. CASE Answers(p, Burst(g))
  <2>1. Burst(g) # <<>>
    BY <1>3 DEF Answers
  <2>2. Head(Burst(g)) \in Message
    BY <1>1, <2>1, HeadTailProperties
  <2>3. Sent(p, Burst(g)) \in Seq(Message) /\ Len(Sent(p, Burst(g))) = Len(events[p]) + 1
    BY <1>1, <2>2, AppendProperties DEF Sent
  <2>4. Len(stream[p] \o Sent(p, Burst(g))) = Len(stream[p] \o events[p]) + 1
    BY <1>1, <2>3, OneLonger
  <2>5. Log[p] = stream[p] \o events[p] /\ stream'[p] = stream[p] \o Sent(p, Burst(g))
    BY <1>2, <1>3, LogOfPullPoint DEF IInv
  <2>6. Len(stream'[p]) = Len(Log[p]) + 1
    BY <2>4, <2>5
  <2> QED
    BY <1>3, <2>6
<1>4. CASE ~Answers(p, Burst(g))
  BY <1>2, <1>4
<1> QED
  BY <1>3, <1>4

\* The client that waits gets what is queued and the first message of the burst; it
\* waits at one pull point only, so nobody else writes to it.
LEMMA AlarmAnswers ==
  ASSUME IInv, NEW g \in Generators, GenerateEvent(g),
         NEW p \in PullPoints, Answers(p, Burst(g))
  PROVE  /\ Waiting[p] \in Requests
         /\ reply'[Waiting[p]] = Logs!Given(Append(Logs!Rest(p), Head(Burst(g))))
<1> DEFINE t == Burst(g)
           r == Waiting[p]
<1>1. /\ r = response_writer[p] /\ r \in Requests
      /\ is_client_waiting[p]
      /\ Logs!Rest(p) = events[p]
  BY WaitingExchange, LogOfPullPoint DEF Answers, IInv
<1>2. \A q \in PullPoints : Answers(q, t) /\ response_writer[q] = r => q = p
  BY <1>1, WaitsOnce DEF Answers
<1> HIDE DEF t, r
<1>3. (CHOOSE q \in PullPoints : Answers(q, t) /\ response_writer[q] = r) = p
  BY <1>1, <1>2 DEF t
<1>4. reply'[r] = PullMessagesResponse(Sent(p, t))
  <2>1. reply'[r] = IF \E q \in PullPoints : Answers(q, t) /\ response_writer[q] = r
                    THEN PullMessagesResponse(Sent(CHOOSE q \in PullPoints :
                           Answers(q, t) /\ response_writer[q] = r, t))
                    ELSE reply[r]
    BY <1>1, Zenon DEF GenerateEvent, t
  <2>2. \E q \in PullPoints : Answers(q, t) /\ response_writer[q] = r
    BY <1>1 DEF t
  <2> QED
    BY <1>3, <2>1, <2>2, Zenon
<1> QED
  BY <1>1, <1>4, SameAnswers DEF Sent, t, r

LEMMA GenerateEventIsChange ==
  ASSUME IInv, NEW g \in Generators, GenerateEvent(g)
  PROVE  /\ Signals[g] \in Range(Signals)
         /\ Logs!Change(Signals[g])
<1> DEFINE t == Burst(g)
           told == {p \in Live : Waiting[p] # None /\ Signals[g] # <<>>}
<1>1. Live \subseteq PullPoints
  BY LiveInPullPoints DEF IInv
<1>2. Logs!Changes(Signals[g]) = t
  BY DEF Logs!Changes, Burst
<1> HIDE DEF t
<1>3. \A p \in PullPoints : p \in told <=> Answers(p, t)
  BY ToldIsAnswered DEF t
<1>4. told \subseteq PullPoints
  BY <1>1
<1> HIDE DEF told
<1>5. Inverted(g) = Logs!Range(Signals[g])
  BY DEF Inverted, Logs!Range
<1>6. /\ logical' = [s \in DOMAIN logical |->
                        IF s \in Logs!Range(Signals[g]) THEN ~logical[s] ELSE logical[s]]
      /\ changes' = [s \in DOMAIN changes |->
                        IF s \in Logs!Range(Signals[g]) THEN changes[s] + 1 ELSE changes[s]]
  <2>1. DOMAIN logical = Sources /\ DOMAIN changes = Sources
    BY DEF IInv, TypeOK
  <2> QED
    BY <1>5, <2>1, Zenon DEF GenerateEvent
<1>7. Log' = [p \in PullPoints |-> IF p \in Live THEN Log[p] \o t ELSE Log[p]]
  <2>1. ASSUME NEW p \in PullPoints
        PROVE  History(p)' = IF p \in Live THEN Log[p] \o t ELSE Log[p]
    <3>1. Log[p] = History(p)
      BY DEF Log
    <3> QED
      BY <3>1, AlarmAdds DEF t
  <2> QED
    BY <2>1 DEF Log
<1>8. Position' = [p \in PullPoints |-> IF p \in told THEN Len(Log[p]) + 1 ELSE Position[p]]
  <2>1. ASSUME NEW p \in PullPoints
        PROVE  Len(stream'[p]) = IF p \in told THEN Len(Log[p]) + 1 ELSE Position[p]
    <3>1. Position[p] = Len(stream[p])
      BY DEF Position
    <3>2. Len(stream'[p]) = IF Answers(p, t) THEN Len(Log[p]) + 1 ELSE Len(stream[p])
      BY AlarmMovesPosition DEF t
    <3> QED
      BY <1>3, <3>1, <3>2
  <2> QED
    BY <2>1 DEF Position
<1>9. Waiting' = [p \in PullPoints |-> IF p \in told THEN None ELSE Waiting[p]]
  <2>1. \A p \in PullPoints :
          /\ is_client_waiting'[p] <=> is_client_waiting[p] /\ ~Answers(p, t)
          /\ response_writer'[p] = IF Answers(p, t) THEN None ELSE response_writer[p]
    BY DEF GenerateEvent, t
  <2>2. \A p \in PullPoints :
          (IF is_client_waiting'[p] THEN response_writer'[p] ELSE None) =
            IF p \in told THEN None ELSE Waiting[p]
    BY <1>3, <2>1 DEF Waiting
  <2> QED
    BY <2>2 DEF Waiting
<1>10. \A p \in told : reply'[Waiting[p]] = Logs!Given(Append(Logs!Rest(p), Head(t)))
  BY <1>3, <1>4, AlarmAnswers DEF t
<1>11. ASSUME NEW r \in Requests, \A p \in told : Waiting[p] # r
       PROVE  reply'[r] = reply[r]
  <2>1. ~\E p \in PullPoints : Answers(p, t) /\ response_writer[p] = r
    <3> SUFFICES ASSUME NEW p \in PullPoints, Answers(p, t), response_writer[p] = r PROVE FALSE
      OBVIOUS
    <3>1. p \in told /\ is_client_waiting[p]
      BY <1>3 DEF Answers
    <3> QED
      BY <1>11, <3>1, WaitingExchange
  <2> QED
    BY <2>1, Zenon DEF GenerateEvent, t
<1>12. UNCHANGED <<created, Live>>
  BY DEF GenerateEvent, Live
<1>13. Logs!Change(Signals[g])
  BY <1>2, <1>6, <1>7, <1>8, <1>9, <1>10, <1>11, <1>12 DEF Logs!Change, told
<1>14. Signals[g] \in Range(Signals)
  BY SourcesAssumption DEF Range
<1> QED
  BY <1>13, <1>14

\* Requests that reach no pull point, or none has to be reached.
LEMMA ReplyOnlyIsAlone ==
  ASSUME NEW r \in Requests, NEW a \in {Ok, Fault, Dropped},
         reply' = [reply EXCEPT ![r] = a],
         UNCHANGED <<pullpoints, created, events, is_client_waiting, response_writer,
                     logical, changes, stream>>
  PROVE  Logs!AnswerAlone(r)
<1>1. UNCHANGED <<Live, Log, Position, Waiting>>
  BY DEF Live, Log, Position, Waiting, History
<1>2. \E status \in {"ok", "fault", "dropped"} : a = Logs!Bare(status)
  BY SameAnswers
<1> QED
  BY <1>1, <1>2 DEF Logs!AnswerAlone, Logs!logs, Logs!world

LEMMA RequestIsExchange ==
  ASSUME IInv, NEW r \in Requests, Request(r)
  PROVE  Logs!Exchange(r)
<1>1. reply[r] = Logs!Unsent
  <2>1. reply[r] = Unsent
    BY DEF Request, CreatePullPoint, PullMessagesNotFound, PullMessagesAtOnce, PullMessagesWait,
           SetSynchronizationPoint, UnsubscribeFound, UnsubscribeNotFound, Renew, AnswerOk,
           NotUnderstood
  <2> QED
    BY <2>1, SameAnswers DEF Logs!Unsent
<1>2. ASSUME NEW p \in PullPoints, CreatePullPoint(r, p) PROVE Logs!Exchange(r)
  BY <1>1, <1>2, CreateIsSubscribe DEF Logs!Exchange
<1>3. ASSUME NEW to \in Addresses, PullMessagesAtOnce(r, to) PROVE Logs!Exchange(r)
  BY <1>1, <1>3, AtOnceIsPull DEF Logs!Exchange
<1>4. ASSUME NEW to \in Addresses, PullMessagesWait(r, to) PROVE Logs!Exchange(r)
  BY <1>1, <1>4, WaitIsWait DEF Logs!Exchange
<1>5. ASSUME NEW to \in Addresses, SetSynchronizationPoint(r, to) PROVE Logs!Exchange(r)
  <2>1. CASE FindPullPoint(to) # None
    BY <1>1, <1>5, <2>1, SynchronizationIsSynchronize DEF Logs!Exchange
  <2>2. CASE FindPullPoint(to) = None
    <3>1. /\ reply' = [reply EXCEPT ![r] = Fault]
          /\ UNCHANGED <<pullpoints, created, events, is_client_waiting, response_writer,
                         logical, changes, stream>>
      BY <1>5, <2>2 DEF SetSynchronizationPoint, alarmVars
    <3> QED
      BY <1>1, <3>1, ReplyOnlyIsAlone DEF Logs!Exchange
  <2> QED
    BY <2>1, <2>2
<1>6. ASSUME NEW to \in Addresses, UnsubscribeFound(r, to) PROVE Logs!Exchange(r)
  BY <1>1, <1>6, UnsubscribeIsUnsubscribe DEF Logs!Exchange
<1>7. CASE \/ \E to \in Addresses : PullMessagesNotFound(r, to) \/ UnsubscribeNotFound(r, to)
           \/ Renew(r) \/ NotUnderstood(r)
  <2>1. PICK a \in {Ok, Fault, Dropped} :
          /\ reply' = [reply EXCEPT ![r] = a]
          /\ UNCHANGED <<pullpoints, created, events, is_client_waiting, response_writer,
                         logical, changes, stream>>
    BY <1>7 DEF PullMessagesNotFound, UnsubscribeNotFound, Renew, AnswerOk, NotUnderstood,
                pullVars, alarmVars
  <2> QED
    BY <1>1, <2>1, ReplyOnlyIsAlone DEF Logs!Exchange
<1> QED
  BY <1>2, <1>3, <1>4, <1>5, <1>6, <1>7 DEF Request

LEMMA CoreStepIsLogStep ==
  ASSUME IInv, [Next]_vars
  PROVE  [Logs!Next]_(Logs!vars)
<1>1. ASSUME UNCHANGED <<pullpoints, created, events, is_client_waiting, response_writer,
                         logical, changes, reply, stream>>
      PROVE  UNCHANGED Logs!vars
  BY <1>1 DEF Live, Log, Position, Waiting, History, Logs!vars, Logs!logs, Logs!world
<1>2. ASSUME NEW r \in Requests, Request(r) PROVE Logs!Next
  BY <1>2, RequestIsExchange DEF Logs!Next
<1>3. ASSUME NEW g \in Generators, GenerateEvent(g) PROVE Logs!Next
  BY <1>3, GenerateEventIsChange DEF Logs!Next
<1>4. ASSUME NEW q \in Live, AnswerWaiter(q) PROVE [Logs!Next]_(Logs!vars)
  BY <1>4, AnswerWaiterIsExpire DEF Logs!Next
<1>5. ASSUME NEW p \in PullPoints, PullTimeout(p) PROVE [Logs!Next]_(Logs!vars)
  BY <1>4, <1>5 DEF PullTimeout
<1>6. ASSUME NEW p \in PullPoints, DanglingTimeout(p) PROVE [Logs!Next]_(Logs!vars)
  BY <1>1, <1>4, <1>6 DEF DanglingTimeout, pullVars, alarmVars
<1>7. CASE \/ \E g \in Generators : AlarmExpires(g)
           \/ \E p \in PullPoints : TimeoutExpires(p)
           \/ UNCHANGED vars
  BY <1>1, <1>7 DEF AlarmExpires, TimeoutExpires, vars, pullVars, alarmVars
<1> QED
  BY <1>2, <1>3, <1>5, <1>6, <1>7 DEF Next, RunReady

LEMMA CoreInitIsLogInit == Init => Logs!Init
<1> SUFFICES ASSUME Init PROVE Logs!Init
  OBVIOUS
<1>1. created = {} /\ Live = {}
  BY DEF Init, Live, Range
<1>2. Log = [p \in PullPoints |-> <<>>]
  <2>1. \A p \in PullPoints : History(p) = <<>>
    BY DEF Init, History
  <2> QED
    BY <2>1 DEF Log
<1>3. Position = [p \in PullPoints |-> 0]
  <2>1. \A p \in PullPoints : Len(stream[p]) = 0
    BY DEF Init
  <2> QED
    BY <2>1 DEF Position
<1>4. Waiting = [p \in PullPoints |-> None]
  BY DEF Init, Waiting
<1>5. \A r \in Requests : reply[r] = Logs!Unsent
  BY SameAnswers DEF Init, Logs!Unsent
<1> QED
  BY <1>1, <1>2, <1>3, <1>4, <1>5 DEF Logs!Init

\* The core is a set of logs with positions, for any number of pull points, exchanges,
\* generators and sources: its timers, its queue of completion handlers, the addresses
\* and a timeout that finds its pull point gone change nothing a client can tell.
THEOREM CoreImplementsSubscriptions == Spec => ImplementsSubscriptions
  BY CoreInitIsLogInit, CoreStepIsLogStep, Inductive, PTL
     DEF Spec, ImplementsSubscriptions, Logs!Spec

================================================================================
