----------------------------- MODULE PoolProofs -----------------------------
(***************************************************************************)
(* Proofs about Pool, for any limits of the pool and any number of         *)
(* workers, dispatchers, connections, deaths and stops.                    *)
(***************************************************************************)
EXTENDS Pool, TLAPS

-----------------------------------------------------------------------------
(* Sequences with one element taken out *)

LEMMA Removed ==
    ASSUME NEW S, NEW s \in Seq(S), NEW k \in 1..Len(s)
    PROVE  /\ Without(s, k) \in Seq(S) /\ Len(Without(s, k)) = Len(s) - 1
           /\ \A j \in 1..Len(s) - 1 :
                 Without(s, k)[j] = IF j < k THEN s[j] ELSE s[j + 1]
<1> DEFINE a == SubSeq(s, 1, k - 1)
           b == SubSeq(s, k + 1, Len(s))
<1>1. a \in Seq(S) /\ Len(a) = k - 1 /\ \A j \in 1..k - 1 : a[j] = s[j]
  OBVIOUS
<1>2. b \in Seq(S) /\ Len(b) = Len(s) - k /\ \A j \in 1..Len(s) - k : b[j] = s[k + j]
  OBVIOUS
<1>3. Without(s, k) = a \o b
  BY Zenon DEF Without
<1> HIDE DEF a, b
<1>4. a \o b \in Seq(S) /\ Len(a \o b) = Len(a) + Len(b) /\ (k - 1) + (Len(s) - k) = Len(s) - 1
  <2>1. \A x, y \in Seq(S) : x \o y \in Seq(S) /\ Len(x \o y) = Len(x) + Len(y)
    OBVIOUS
  <2>2. k \in Int /\ Len(s) \in Int
    OBVIOUS
  <2>3. (k - 1) + (Len(s) - k) = Len(s) - 1
    BY <2>2
  <2> QED
    BY <1>1, <1>2, <2>1, <2>3, Zenon
<1>5. \A j \in 1..Len(s) - 1 : (a \o b)[j] = IF j < k THEN s[j] ELSE s[j + 1]
  <2>1. TAKE j \in 1..Len(s) - 1
  <2>2. CASE j < k
    BY <1>1, <1>2, <2>2
  <2>3. CASE ~(j < k)
    <3>1. (a \o b)[j] = b[j - (k - 1)]
      BY <1>1, <1>2, <2>3
    <3>2. j - (k - 1) \in 1..Len(s) - k /\ k + (j - (k - 1)) = j + 1
      BY <2>3
    <3> QED
      BY <1>2, <2>3, <3>1, <3>2
  <2> QED
    BY <2>2, <2>3, Zenon
<1> QED
  BY <1>1, <1>2, <1>3, <1>4, <1>5

LEMMA EmptyIsShort == Len(<<>>) <= 1
OBVIOUS

LEMMA SameSequence ==
    ASSUME NEW S, NEW s \in Seq(S), NEW t \in Seq(S), Len(s) = Len(t),
           \A j \in 1..Len(s) : s[j] = t[j]
    PROVE  s = t
OBVIOUS

LEMMA TailIsRemove ==
    ASSUME NEW S, NEW s \in Seq(S), NEW t \in Seq(S), t # <<>>
    PROVE  /\ Len(s) + 1 \in 1..Len(s \o t)
           /\ (s \o t)[Len(s) + 1] = Head(t)
           /\ s \o Tail(t) = Without(s \o t, Len(s) + 1)
<1> DEFINE r == Without(s \o t, Len(s) + 1)
<1>1. s \o t \in Seq(S) /\ Len(s \o t) = Len(s) + Len(t) /\ Len(t) # 0
  OBVIOUS
<1>2. Len(s) + 1 \in 1..Len(s \o t) /\ (s \o t)[Len(s) + 1] = Head(t)
  BY <1>1
<1>3. /\ r \in Seq(S) /\ Len(r) = Len(s \o t) - 1
      /\ \A j \in 1..Len(s \o t) - 1 : r[j] = IF j < Len(s) + 1 THEN (s \o t)[j] ELSE (s \o t)[j + 1]
  BY <1>1, <1>2, Removed, Zenon
<1> HIDE DEF r
<1>4. s \o Tail(t) \in Seq(S) /\ Len(s \o Tail(t)) = Len(s) + Len(t) - 1
  BY <1>1
<1>5. \A j \in 1..Len(s) + Len(t) - 1 : (s \o Tail(t))[j] = r[j]
  <2>1. TAKE j \in 1..Len(s) + Len(t) - 1
  <2>2. CASE j < Len(s) + 1
    BY <1>1, <1>3, <2>2
  <2>3. CASE ~(j < Len(s) + 1)
    <3>1. (s \o Tail(t))[j] = Tail(t)[j - Len(s)] /\ j - Len(s) \in 1..Len(t) - 1
      BY <1>1, <2>3
    <3>2. Tail(t)[j - Len(s)] = t[j - Len(s) + 1]
      BY <1>1, <3>1
    <3>3. r[j] = (s \o t)[j + 1]
      BY <1>1, <1>3, <2>3
    <3>4. (s \o t)[j + 1] = t[j + 1 - Len(s)]
      BY <1>1, <2>3
    <3> QED
      BY <3>1, <3>2, <3>3, <3>4
  <2> QED
    BY <2>2, <2>3
<1>6. Len(s \o Tail(t)) = Len(r)
  BY <1>1, <1>3, <1>4
<1>7. \A j \in 1..Len(s \o Tail(t)) : (s \o Tail(t))[j] = r[j]
  BY <1>4, <1>5, Zenon
<1>8. s \o Tail(t) = r
  BY <1>3, <1>4, <1>6, <1>7, SameSequence, Zenon
<1> QED
  BY <1>2, <1>8 DEF r

-----------------------------------------------------------------------------
(* What the operations of recv and recv_by_condition do to the messages    *)
(* that are pending.                                                       *)

LEMMA PendingTyped ==
    ASSUME NEW b \in Boxes
    PROVE  /\ b.cache \in Seq(Messages) /\ b.cacheBox \in Seq(Messages) /\ b.box \in Seq(Messages)
           /\ Pending(b) = b.cache \o (b.cacheBox \o b.box)
           /\ Pending(b) \in Seq(Messages)
<1>1. b.cache \in Seq(Messages) /\ b.cacheBox \in Seq(Messages) /\ b.box \in Seq(Messages)
  BY DEF Boxes
<1>2. Pending(b) = (b.cache \o b.cacheBox) \o b.box
  BY DEF Pending
<1>a. \A s, t, u \in Seq(Messages) : (s \o t) \o u = s \o (t \o u)
  OBVIOUS
<1>3. Pending(b) = b.cache \o (b.cacheBox \o b.box)
  BY <1>1, <1>2, <1>a, Zenon
<1>4. b.cacheBox \o b.box \in Seq(Messages)
  BY <1>1
<1>5. b.cache \o (b.cacheBox \o b.box) \in Seq(Messages)
  BY <1>1, <1>4
<1> QED
  BY <1>1, <1>3, <1>5

LEMMA BoxArrive ==
    ASSUME NEW b \in Boxes, NEW m \in Messages
    PROVE  Arrive(b, m) \in Boxes /\ Pending(Arrive(b, m)) = Append(Pending(b), m)
<1> DEFINE a == Arrive(b, m)
<1>1. b.cache \in Seq(Messages) /\ b.cacheBox \in Seq(Messages) /\ b.box \in Seq(Messages)
  BY PendingTyped, Zenon
<1>2. a.cache = b.cache /\ a.cacheBox = b.cacheBox /\ a.box = Append(b.box, m)
  BY DEF Boxes, Arrive
<1>3. Append(b.box, m) \in Seq(Messages)
  BY <1>1
<1>4. a \in Boxes
  BY <1>3 DEF Boxes, Arrive
<1>5. Pending(a) = (b.cache \o b.cacheBox) \o Append(b.box, m)
  BY <1>2 DEF Pending
<1>6. b.cache \o b.cacheBox \in Seq(Messages)
  BY <1>1
<1>7. \A s, t \in Seq(Messages) : s \o Append(t, m) = Append(s \o t, m)
  OBVIOUS
<1>8. Pending(a) = Append((b.cache \o b.cacheBox) \o b.box, m)
  BY <1>1, <1>5, <1>6, <1>7, Zenon
<1> QED
  BY <1>4, <1>8 DEF Pending

LEMMA BoxRest ==
    ASSUME NEW b \in Boxes, Available(b)
    PROVE  /\ Rest(b) \in Boxes /\ First(b) \in Messages /\ Rest(b).cache = b.cache
           /\ b.cacheBox \o b.box \in Seq(Messages) /\ b.cacheBox \o b.box # <<>>
           /\ Head(b.cacheBox \o b.box) = First(b)
           /\ Rest(b).cacheBox \o Rest(b).box = Tail(b.cacheBox \o b.box)
<1> DEFINE a == Rest(b)
<1>1. b.cache \in Seq(Messages) /\ b.cacheBox \in Seq(Messages) /\ b.box \in Seq(Messages)
  BY PendingTyped, Zenon
<1>2. CASE b.cacheBox # <<>>
  <2>1. Tail(b.cacheBox) \in Seq(Messages) /\ First(b) \in Messages /\ First(b) = Head(b.cacheBox)
    BY <1>1, <1>2 DEF First
  <2>2. a = [b EXCEPT !.cacheBox = Tail(b.cacheBox)]
    BY <1>2 DEF Rest
  <2>3. a \in Boxes /\ a.cache = b.cache /\ a.cacheBox = Tail(b.cacheBox) /\ a.box = b.box
    BY <2>1, <2>2, Zenon DEF Boxes
  <2>4. \A s, t \in Seq(Messages) : s # <<>> => /\ s \o t # <<>> /\ Head(s \o t) = Head(s)
                                                /\ Tail(s) \o t = Tail(s \o t)
                                                /\ s \o t \in Seq(Messages)
    OBVIOUS
  <2> QED
    BY <1>1, <1>2, <2>1, <2>3, <2>4, Zenon
<1>3. CASE b.cacheBox = <<>>
  <2>1. b.box # <<>>
    BY <1>3 DEF Available
  <2>2. Tail(b.box) \in Seq(Messages) /\ First(b) \in Messages /\ First(b) = Head(b.box)
    BY <1>1, <1>3, <2>1 DEF First
  <2>3. a = [b EXCEPT !.box = Tail(b.box)]
    BY <1>3 DEF Rest
  <2>4. a \in Boxes /\ a.cache = b.cache /\ a.cacheBox = b.cacheBox /\ a.box = Tail(b.box)
    BY <2>2, <2>3, Zenon DEF Boxes
  <2>5. \A t \in Seq(Messages) : <<>> \o t = t
    OBVIOUS
  <2> QED
    BY <1>1, <1>3, <2>1, <2>2, <2>4, <2>5, Zenon
<1> QED
  BY <1>2, <1>3, Zenon

LEMMA BoxRestore ==
    ASSUME NEW b \in Boxes
    PROVE  Restore(b) \in Boxes /\ Pending(Restore(b)) = Pending(b)
<1> DEFINE a == Restore(b)
<1>1. b.cache \in Seq(Messages) /\ b.cacheBox \in Seq(Messages) /\ b.box \in Seq(Messages)
  BY PendingTyped, Zenon
<1>2. a = [b EXCEPT !.cacheBox = b.cache \o b.cacheBox, !.cache = <<>>]
  BY DEF Restore
<1>3. b.cache \o b.cacheBox \in Seq(Messages) /\ <<>> \in Seq(Messages)
  BY <1>1
<1>4. a.cache = <<>> /\ a.cacheBox = b.cache \o b.cacheBox /\ a.box = b.box
  BY <1>2 DEF Boxes
<1>5. a \in Boxes
  BY <1>2, <1>3, Zenon DEF Boxes
<1>6. <<>> \o (b.cache \o b.cacheBox) = b.cache \o b.cacheBox
  BY <1>3
<1> QED
  BY <1>4, <1>5, <1>6 DEF Pending

LEMMA BoxAside ==
    ASSUME NEW b \in Boxes, Available(b)
    PROVE  SetAside(b) \in Boxes /\ Pending(SetAside(b)) = Pending(b)
<1> DEFINE r == Rest(b)
           a == SetAside(b)
           q == b.cacheBox \o b.box
<1>1. /\ r \in Boxes /\ First(b) \in Messages /\ r.cache = b.cache
      /\ q \in Seq(Messages) /\ q # <<>> /\ Head(q) = First(b)
      /\ r.cacheBox \o r.box = Tail(q)
  BY BoxRest, Zenon
<1>2. a = [r EXCEPT !.cache = Append(r.cache, First(b))]
  BY DEF SetAside
<1>3. r.cache \in Seq(Messages) /\ r.cacheBox \in Seq(Messages) /\ r.box \in Seq(Messages)
  BY <1>1, PendingTyped, Zenon
<1> HIDE DEF r, a, q
<1>4. Append(r.cache, First(b)) \in Seq(Messages)
  BY <1>1, <1>3
<1>5. /\ a \in Boxes /\ a.cacheBox = r.cacheBox /\ a.box = r.box
      /\ a.cache = Append(r.cache, First(b))
  BY <1>1, <1>2, <1>3, <1>4, Zenon DEF Boxes
<1>6. Pending(a) = Append(b.cache, Head(q)) \o Tail(q)
  BY <1>1, <1>5, PendingTyped, Zenon
<1>7. \A s, t \in Seq(Messages) : t # <<>> => Append(s, Head(t)) \o Tail(t) = s \o t
  OBVIOUS
<1>8. Pending(b) = b.cache \o q
  BY PendingTyped, Zenon DEF q
<1>9. Pending(a) = Pending(b)
  BY <1>1, <1>3, <1>6, <1>7, <1>8, Zenon
<1> QED
  BY <1>5, <1>9 DEF a

LEMMA BoxTake ==
    ASSUME NEW b \in Boxes, Available(b)
    PROVE  /\ TakeFirst(b) \in Boxes /\ First(b) \in Messages
           /\ \E k \in 1..Len(Pending(b)) : /\ Pending(b)[k] = First(b)
                                            /\ Pending(TakeFirst(b)) = Without(Pending(b), k)
<1> DEFINE r == Rest(b)
           q == b.cacheBox \o b.box
<1>1. /\ r \in Boxes /\ First(b) \in Messages /\ r.cache = b.cache
      /\ q \in Seq(Messages) /\ q # <<>> /\ Head(q) = First(b)
      /\ r.cacheBox \o r.box = Tail(q)
  BY BoxRest, Zenon
<1>2. TakeFirst(b) \in Boxes /\ Pending(TakeFirst(b)) = Pending(r)
  BY <1>1, BoxRestore DEF TakeFirst
<1>3. Pending(r) = b.cache \o Tail(q) /\ Pending(b) = b.cache \o q /\ b.cache \in Seq(Messages)
  BY <1>1, PendingTyped, Zenon
<1> HIDE DEF r, q
<1>4. /\ Len(b.cache) + 1 \in 1..Len(b.cache \o q)
      /\ (b.cache \o q)[Len(b.cache) + 1] = Head(q)
      /\ b.cache \o Tail(q) = Without(b.cache \o q, Len(b.cache) + 1)
  BY <1>1, <1>3, TailIsRemove, Zenon
<1> QED
  BY <1>1, <1>2, <1>3, <1>4, Zenon

-----------------------------------------------------------------------------
(* Where the elements of a set are in a sequence, after a step *)

LEMMA IndexesAppend ==
    ASSUME NEW S, NEW s \in Seq(S), NEW m \in S, NEW T
    PROVE  /\ Append(s, m) \in Seq(S)
           /\ m \notin T => IndexesOf(Append(s, m), T) = IndexesOf(s, T)
           /\ m \in T => IndexesOf(Append(s, m), T) = IndexesOf(s, T) \cup {Len(s) + 1}
<1>1. /\ Append(s, m) \in Seq(S) /\ Len(Append(s, m)) = Len(s) + 1 /\ Len(s) \in Nat
      /\ Append(s, m)[Len(s) + 1] = m
      /\ \A i \in 1..Len(s) : Append(s, m)[i] = s[i]
  OBVIOUS
<1>2. 1..Len(s) + 1 = 1..Len(s) \cup {Len(s) + 1} /\ Len(s) + 1 \notin 1..Len(s)
  BY <1>1
<1> QED
  BY <1>1, <1>2 DEF IndexesOf

LEMMA IndexesRemove ==
    ASSUME NEW S, NEW s \in Seq(S), NEW k \in 1..Len(s), NEW T
    PROVE  /\ AtMostOne(IndexesOf(s, T)) => AtMostOne(IndexesOf(Without(s, k), T))
           /\ s[k] \notin T => ((IndexesOf(Without(s, k), T) = {}) <=> (IndexesOf(s, T) = {}))
           /\ AtMostOne(IndexesOf(s, T)) /\ s[k] \in T => IndexesOf(Without(s, k), T) = {}
           /\ IndexesOf(s, T) = {} => IndexesOf(Without(s, k), T) = {}
<1> DEFINE r == Without(s, k)
           Old(j) == IF j < k THEN j ELSE j + 1
<1>a. Len(s) \in Nat /\ k \in Nat /\ k >= 1 /\ k <= Len(s)
  OBVIOUS
<1>b. /\ Len(r) = Len(s) - 1
      /\ \A j \in 1..Len(s) - 1 : r[j] = IF j < k THEN s[j] ELSE s[j + 1]
  BY Removed, Zenon
<1>c. \A j : (j < k => Old(j) = j) /\ (~(j < k) => Old(j) = j + 1)
  BY Zenon
<1>d. \A j \in 1..Len(s) - 1 : r[j] = s[Old(j)]
  BY <1>b, <1>c, Zenon
<1>1. Len(r) = Len(s) - 1 /\ Len(s) \in Nat /\ k \in Nat /\ k >= 1 /\ k <= Len(s)
  BY <1>a, <1>b, Zenon
<1> HIDE DEF r, Old
<1>2. \A j \in 1..Len(s) - 1 : r[j] = s[Old(j)] /\ Old(j) \in 1..Len(s) /\ Old(j) # k
  <2>1. TAKE j \in 1..Len(s) - 1
  <2>2. Old(j) \in 1..Len(s) /\ Old(j) # k
    BY <1>1, <1>c
  <2> QED
    BY <1>d, <2>2
<1>3. \A i, j \in 1..Len(s) - 1 : Old(i) = Old(j) => i = j
  BY <1>1, <1>c
<1>4. \A i \in 1..Len(s) : i # k => \E j \in 1..Len(s) - 1 : Old(j) = i
  <2>1. TAKE i \in 1..Len(s)
  <2>2. CASE i < k
    <3>1. i \in 1..Len(s) - 1 /\ Old(i) = i
      BY <1>1, <1>c, <2>2
    <3> QED
      BY <3>1
  <2>3. CASE i > k
    <3>1. i - 1 \in 1..Len(s) - 1 /\ Old(i - 1) = i
      BY <1>1, <1>c, <2>3
    <3> QED
      BY <3>1
  <2> QED
    BY <1>1, <2>2, <2>3
<1>5. \A j : j \in IndexesOf(r, T) => j \in 1..Len(s) - 1 /\ Old(j) \in IndexesOf(s, T) /\ Old(j) # k
  BY <1>1, <1>2 DEF IndexesOf
<1>6. \A i \in IndexesOf(s, T) : i # k => \E j \in IndexesOf(r, T) : Old(j) = i
  BY <1>1, <1>2, <1>4, Zenon DEF IndexesOf
<1>7. s[k] \in T => k \in IndexesOf(s, T)
  BY DEF IndexesOf
<1>8. \A i \in IndexesOf(s, T) : s[i] \in T
  BY DEF IndexesOf
<1>9. AtMostOne(IndexesOf(s, T)) => AtMostOne(IndexesOf(r, T))
  <2>1. SUFFICES ASSUME AtMostOne(IndexesOf(s, T)), NEW i \in IndexesOf(r, T), NEW j \in IndexesOf(r, T)
                 PROVE  i = j
    BY DEF AtMostOne
  <2>2. Old(i) = Old(j)
    BY <1>5, <2>1, Zenon DEF AtMostOne
  <2> QED
    BY <1>3, <1>5, <2>2, Zenon
<1>10. s[k] \notin T => ((IndexesOf(r, T) = {}) <=> (IndexesOf(s, T) = {}))
  BY <1>5, <1>6, <1>8, Zenon
<1>11. AtMostOne(IndexesOf(s, T)) /\ s[k] \in T => IndexesOf(r, T) = {}
  BY <1>5, <1>7, Zenon DEF AtMostOne
<1>12. IndexesOf(s, T) = {} => IndexesOf(r, T) = {}
  BY <1>5, Zenon
<1> QED
  BY <1>9, <1>10, <1>11, <1>12 DEF r

LEMMA TailRemoves ==
    ASSUME NEW S, NEW s \in Seq(S), s # <<>>
    PROVE  /\ Tail(s) \in Seq(S) /\ Head(s) \in S /\ 1 \in 1..Len(s) /\ s[1] = Head(s)
           /\ Tail(s) = Without(s, 1)
<1>1. <<>> \in Seq(S) /\ <<>> \o s = s /\ <<>> \o Tail(s) = Tail(s) /\ Len(<<>>) + 1 = 1
      /\ Tail(s) \in Seq(S) /\ Head(s) \in S /\ 1 \in 1..Len(s) /\ s[1] = Head(s)
  OBVIOUS
<1>2. <<>> \o Tail(s) = Without(<<>> \o s, Len(<<>>) + 1)
  BY <1>1, TailIsRemove, Zenon
<1> QED
  BY <1>1, <1>2

-----------------------------------------------------------------------------
(* The mailbox of the pool, step by step *)

Adds(m) == mail' \in Boxes /\ Pending(mail') = Append(Pending(mail), m)
Takes(m) == /\ mail' \in Boxes /\ m \in Messages
            /\ \E k \in 1..Len(Pending(mail)) : /\ Pending(mail)[k] = m
                                                /\ Pending(mail') = Without(Pending(mail), k)
Keeps == mail' \in Boxes /\ Pending(mail') = Pending(mail)

LEMMA MailSteps ==
    ASSUME mail \in Boxes
    PROVE  /\ \A m \in Messages : ToPool(m) => Adds(m)
           /\ Available(mail) /\ mail' = TakeFirst(mail) => Takes(Top)
           /\ Available(mail) /\ mail' = SetAside(mail) => Keeps
           /\ mail' = mail => Keeps
<1>1. ASSUME NEW m \in Messages, ToPool(m) PROVE Adds(m)
  BY <1>1, BoxArrive DEF ToPool, Adds
<1>2. ASSUME Available(mail), mail' = TakeFirst(mail) PROVE Takes(Top)
  BY <1>2, BoxTake DEF Takes, Top
<1>3. ASSUME Available(mail), mail' = SetAside(mail) PROVE Keeps
  BY <1>3, BoxAside DEF Keeps
<1>4. ASSUME mail' = mail PROVE Keeps
  BY <1>4 DEF Keeps
<1> QED
  BY <1>1, <1>2, <1>3, <1>4

(* Whether the messages of T are at most one, and whether there is one.    *)
SameIn(s, t, T) ==
    /\ AtMostOne(IndexesOf(s, T)) => AtMostOne(IndexesOf(t, T))
    /\ (IndexesOf(t, T) = {}) <=> (IndexesOf(s, T) = {})

LEMMA MailIndexes ==
    ASSUME mail \in Boxes, NEW T
    PROVE  /\ \A m \in Messages : Adds(m) /\ m \notin T => SameIn(Pending(mail), Pending(mail'), T)
           /\ \A m \in Messages : Adds(m) /\ m \in T =>
                 /\ IndexesOf(Pending(mail'), T) # {}
                 /\ IndexesOf(Pending(mail), T) = {} => AtMostOne(IndexesOf(Pending(mail'), T))
           /\ \A m \in Messages : Takes(m) /\ m \notin T => SameIn(Pending(mail), Pending(mail'), T)
           /\ \A m \in Messages : Takes(m) /\ m \in T =>
                 /\ IndexesOf(Pending(mail), T) # {}
                 /\ AtMostOne(IndexesOf(Pending(mail), T)) => IndexesOf(Pending(mail'), T) = {}
           /\ Keeps => SameIn(Pending(mail), Pending(mail'), T)
<1>1. Pending(mail) \in Seq(Messages)
  BY PendingTyped, Zenon
<1>2. ASSUME NEW m \in Messages, Adds(m)
      PROVE  /\ m \notin T => SameIn(Pending(mail), Pending(mail'), T)
             /\ m \in T => /\ IndexesOf(Pending(mail'), T) # {}
                           /\ IndexesOf(Pending(mail), T) = {} => AtMostOne(IndexesOf(Pending(mail'), T))
  <2>1. /\ m \notin T => IndexesOf(Pending(mail'), T) = IndexesOf(Pending(mail), T)
        /\ m \in T => IndexesOf(Pending(mail'), T) = IndexesOf(Pending(mail), T) \cup {Len(Pending(mail)) + 1}
    BY <1>1, <1>2, IndexesAppend DEF Adds
  <2> QED
    BY <2>1, Zenon DEF SameIn, AtMostOne
<1>3. ASSUME NEW m \in Messages, Takes(m)
      PROVE  /\ m \notin T => SameIn(Pending(mail), Pending(mail'), T)
             /\ m \in T => /\ IndexesOf(Pending(mail), T) # {}
                           /\ AtMostOne(IndexesOf(Pending(mail), T)) => IndexesOf(Pending(mail'), T) = {}
  <2>1. PICK k \in 1..Len(Pending(mail)) : /\ Pending(mail)[k] = m
                                           /\ Pending(mail') = Without(Pending(mail), k)
    BY <1>3 DEF Takes
  <2>2. /\ AtMostOne(IndexesOf(Pending(mail), T)) => AtMostOne(IndexesOf(Pending(mail'), T))
        /\ m \notin T => ((IndexesOf(Pending(mail'), T) = {}) <=> (IndexesOf(Pending(mail), T) = {}))
        /\ AtMostOne(IndexesOf(Pending(mail), T)) /\ m \in T => IndexesOf(Pending(mail'), T) = {}
    BY <1>1, <2>1, IndexesRemove
  <2>3. m \in T => k \in IndexesOf(Pending(mail), T)
    BY <2>1 DEF IndexesOf
  <2> QED
    BY <2>2, <2>3 DEF SameIn
<1>4. Keeps => SameIn(Pending(mail), Pending(mail'), T)
  BY DEF Keeps, SameIn
<1> QED
  BY <1>2, <1>3, <1>4

(* The same for a sequence that is appended to, or whose head is taken.    *)
LEMMA SeqIndexes ==
    ASSUME NEW S, NEW s \in Seq(S), NEW T
    PROVE  /\ \A m \in S : m \notin T => SameIn(s, Append(s, m), T)
           /\ \A m \in S : m \in T => /\ IndexesOf(Append(s, m), T) # {}
                                      /\ IndexesOf(s, T) = {} => AtMostOne(IndexesOf(Append(s, m), T))
           /\ s # <<>> /\ Head(s) \notin T => SameIn(s, Tail(s), T)
           /\ s # <<>> /\ Head(s) \in T => /\ IndexesOf(s, T) # {}
                                           /\ AtMostOne(IndexesOf(s, T)) => IndexesOf(Tail(s), T) = {}
<1>1. ASSUME NEW m \in S
      PROVE  /\ m \notin T => SameIn(s, Append(s, m), T)
             /\ m \in T => /\ IndexesOf(Append(s, m), T) # {}
                           /\ IndexesOf(s, T) = {} => AtMostOne(IndexesOf(Append(s, m), T))
  <2>1. /\ m \notin T => IndexesOf(Append(s, m), T) = IndexesOf(s, T)
        /\ m \in T => IndexesOf(Append(s, m), T) = IndexesOf(s, T) \cup {Len(s) + 1}
    BY IndexesAppend
  <2> QED
    BY <2>1, Zenon DEF SameIn, AtMostOne
<1>2. ASSUME s # <<>>
      PROVE  /\ Head(s) \notin T => SameIn(s, Tail(s), T)
             /\ Head(s) \in T => /\ IndexesOf(s, T) # {}
                                 /\ AtMostOne(IndexesOf(s, T)) => IndexesOf(Tail(s), T) = {}
  <2>1. 1 \in 1..Len(s) /\ s[1] = Head(s) /\ Tail(s) = Without(s, 1)
    BY <1>2, TailRemoves
  <2>2. /\ AtMostOne(IndexesOf(s, T)) => AtMostOne(IndexesOf(Tail(s), T))
        /\ Head(s) \notin T => ((IndexesOf(Tail(s), T) = {}) <=> (IndexesOf(s, T) = {}))
        /\ AtMostOne(IndexesOf(s, T)) /\ Head(s) \in T => IndexesOf(Tail(s), T) = {}
    BY <2>1, IndexesRemove, Zenon
  <2>3. Head(s) \in T => 1 \in IndexesOf(s, T)
    BY <2>1 DEF IndexesOf
  <2> QED
    BY <2>2, <2>3 DEF SameIn
<1> QED
  BY <1>1, <1>2

(* A message that is appended is found ...                                 *)
LEMMA IndexesGain ==
    ASSUME NEW S, NEW s \in Seq(S), NEW T, NEW m \in S, m \in T
    PROVE  IndexesOf(Append(s, m), T) # {}
<1>1. IndexesOf(Append(s, m), T) = IndexesOf(s, T) \cup {Len(s) + 1}
  BY IndexesAppend
<1> QED
  BY <1>1, Zenon

(* ... and is alone if there was none of its kind.                         *)
LEMMA IndexesGainOne ==
    ASSUME NEW S, NEW s \in Seq(S), NEW T, NEW m \in S, m \in T, IndexesOf(s, T) = {}
    PROVE  AtMostOne(IndexesOf(Append(s, m), T))
<1>1. IndexesOf(Append(s, m), T) = IndexesOf(s, T) \cup {Len(s) + 1}
  BY IndexesAppend
<1> QED
  BY <1>1, Zenon DEF AtMostOne

-----------------------------------------------------------------------------
(* Types *)

PoolTypes == TypeOK /\ BoxTypes /\ (dpc = "add" => dw # 0)

LEMMA MessageKinds ==
    /\ \A d \in Disps : Msg("get", d, 0) \in Messages
    /\ \A w \in Workers : Msg("put", w, w) \in Messages /\ Msg("stop", 0, w) \in Messages
    /\ Msg("answer", 0, 0) \in Messages
    /\ Msg("start", 0, 0) \in SupMessages
    /\ \A w \in Workers : Msg("stop", 0, w) \in SupMessages /\ Msg("EXIT", 0, w) \in SupMessages
    /\ \A f \in 0..MaxWorkers, w \in Workers : Msg("reply", f, w) \in DispMessages
    /\ \A type, from, w : /\ Msg(type, from, w).type = type /\ Msg(type, from, w).from = from
                          /\ Msg(type, from, w).w = w
    /\ \A m \in Messages : /\ m.type = "get" => m.from \in Disps
                           /\ m.type \in {"put", "stop"} => m.w \in Workers
                           /\ m.type \in {"get", "put", "stop", "answer"}
    /\ \A m \in SupMessages : /\ m.type \in {"stop", "EXIT"} => m.w \in Workers
                              /\ m.type \in {"start", "stop", "EXIT"}
                              /\ m = Msg(m.type, 0, m.w)
                              /\ m.type = "start" => m.w = 0
    /\ \A m \in DispMessages : m.w \in Workers /\ m.from \in 0..MaxWorkers
    /\ Workers \subseteq 0..MaxWorkers /\ 0 \in 0..MaxWorkers /\ 0 \notin Workers
<1> USE DEF Messages, SupMessages, DispMessages, Msg
<1>0. Workers \subseteq 0..MaxWorkers /\ 0 \in 0..MaxWorkers /\ 0 \notin Workers
  BY PoolAssumption DEF Workers
<1>1. /\ \A d \in Disps : Msg("get", d, 0) \in Messages
      /\ Msg("answer", 0, 0) \in Messages
      /\ Msg("start", 0, 0) \in SupMessages
  OBVIOUS
<1>2. \A w \in Workers : Msg("put", w, w) \in Messages /\ Msg("stop", 0, w) \in Messages
  BY <1>0
<1>3. \A w \in Workers : Msg("stop", 0, w) \in SupMessages /\ Msg("EXIT", 0, w) \in SupMessages
  OBVIOUS
<1>4. \A f \in 0..MaxWorkers, w \in Workers : Msg("reply", f, w) \in DispMessages
  OBVIOUS
<1>5. \A type, from, w : /\ Msg(type, from, w).type = type /\ Msg(type, from, w).from = from
                         /\ Msg(type, from, w).w = w
  OBVIOUS
<1>6. \A m \in Messages : /\ m.type = "get" => m.from \in Disps
                          /\ m.type \in {"put", "stop"} => m.w \in Workers
                          /\ m.type \in {"get", "put", "stop", "answer"}
  OBVIOUS
<1>7. \A m \in SupMessages : /\ m.type \in {"stop", "EXIT"} => m.w \in Workers
                             /\ m.type \in {"start", "stop", "EXIT"}
                             /\ m = Msg(m.type, 0, m.w)
                             /\ m.type = "start" => m.w = 0
  OBVIOUS
<1>8. \A m \in DispMessages : m.w \in Workers /\ m.from \in 0..MaxWorkers
  OBVIOUS
<1> QED
  BY <1>0, <1>1, <1>2, <1>3, <1>4, <1>5, <1>6, <1>7, <1>8, Zenon

LEMMA ReplyKinds ==
    ASSUME NEW v \in Workers, NEW f \in Workers \cup {0}
    PROVE  /\ Msg("reply", f, v) \in DispMessages
           /\ Msg("reply", f, v).from = f /\ Msg("reply", f, v).w = v
BY MessageKinds, Zenon DEF Msg, DispMessages

LEMMA SeqTypes ==
    ASSUME NEW S, NEW s \in Seq(S)
    PROVE  /\ \A m \in S : Append(s, m) \in Seq(S)
           /\ s # <<>> => Tail(s) \in Seq(S) /\ Head(s) \in S
           /\ <<>> \in Seq(S)
OBVIOUS

LEMMA InitTypes ==
    ASSUME Init
    PROVE  PoolTypes
<1>1. /\ \A S : <<>> \in Seq(S)
      /\ 0 \in 0..MaxWorkers /\ 0 \in 0..0 /\ 0 \in Int /\ MinProcs \in Nat /\ 1 \in Disps
  BY PoolAssumption DEF Disps
<1>2. mail \in Boxes
  BY <1>1 DEF Init, NewBox, Boxes
<1>3. dmail \in [Disps -> Seq(DispMessages)] /\ wmail \in [Workers -> Seq(Disps)]
      /\ smail \in Seq(SupMessages) /\ dataq \in Seq(Workers) /\ customerq \in Seq(Disps)
  BY <1>1 DEF Init
<1>4. /\ procs \in [Workers -> {"none", "idle", "used"}]
      /\ wlife \in [Workers -> {"none", "spawned", "ready", "busy", "killed", "dead"}]
  BY DEF Init
<1>5. (sw # 0) = (spc = "wait") /\ srec \subseteq Workers
  BY DEF Init
<1> QED
  BY <1>1, <1>2, <1>3, <1>4, <1>5 DEF Init, PoolTypes, TypeOK, BoxTypes

LEMMA StepTypes ==
    ASSUME PoolTypes, [Next]_vars
    PROVE  PoolTypes'
<1>PoolStepTypes.
      ASSUME PoolTypes, Pool
      PROVE  PoolTypes'
  <2> USE <1>PoolStepTypes
  <2> USE DEF supVars, dispVars, bounds
  <2>1. /\ mail \in Boxes /\ smail \in Seq(SupMessages) /\ dmail \in [Disps -> Seq(DispMessages)]
        /\ dataq \in Seq(Workers) /\ customerq \in Seq(Disps) /\ todo \in Nat
        /\ procs \in [Workers -> {"none", "idle", "used"}]
    BY DEF PoolTypes, TypeOK, BoxTypes
  <2>2. ASSUME Available(mail), mail' = TakeFirst(mail) PROVE mail' \in Boxes /\ Top \in Messages
    BY <2>1, <2>2, BoxTake DEF Top
  <2>3. _create_process => smail' \in Seq(SupMessages)
    BY <2>1, MessageKinds, SeqTypes DEF _create_process, ToSup
  <2>4. CASE PoolInit
    <3>1. smail' \in Seq(SupMessages) /\ todo' \in Nat /\ ppc' \in {"callInit", "loop"}
      BY <2>1, <2>3, <2>4 DEF PoolInit
    <3> QED
      BY <2>4, <3>1 DEF PoolInit, PoolTypes, TypeOK, BoxTypes
  <2>5. CASE get_process_none
    <3>1. mail' \in Boxes /\ Top \in Messages /\ Top.type = "get"
      BY <2>2, <2>5 DEF get_process_none, Receives
    <3>2. customerq' \in Seq(Disps)
      BY <2>1, <2>5, <3>1, MessageKinds, SeqTypes DEF get_process_none
    <3>3. smail' \in Seq(SupMessages) /\ ppc' \in {"callGet", "loop"}
      BY <2>1, <2>3, <2>5 DEF get_process_none, Receives
    <3> QED
      BY <2>5, <3>1, <3>2, <3>3 DEF get_process_none, PoolTypes, TypeOK, BoxTypes
  <2>6. ASSUME NEW d \in Disps, NEW f \in 0..MaxWorkers, NEW w \in Workers, ToDisp(d, Msg("reply", f, w))
        PROVE  dmail' \in [Disps -> Seq(DispMessages)]
    <3>1. Append(dmail[d], Msg("reply", f, w)) \in Seq(DispMessages)
      BY <2>1, MessageKinds, SeqTypes
    <3> QED
      BY <2>1, <2>6, <3>1 DEF ToDisp
  <2>7. CASE get_process
    <3>1. mail' \in Boxes /\ Top \in Messages /\ Top.type = "get" /\ Top.from \in Disps
      BY <2>2, <2>7, MessageKinds DEF get_process, Receives
    <3>2. dataq # <<>> /\ dataq' = Tail(dataq) /\ dataq' \in Seq(Workers) /\ Head(dataq) \in Workers
      BY <2>1, <2>7, SeqTypes DEF get_process
    <3>3. procs' \in [Workers -> {"none", "idle", "used"}] /\ dmail' \in [Disps -> Seq(DispMessages)]
      <4>1. CASE procs[Head(dataq)] = "none"
        BY <2>1, <2>7, <4>1 DEF get_process
      <4>2. CASE procs[Head(dataq)] # "none"
        <5>1. procs' = [procs EXCEPT ![Head(dataq)] = "used"] /\ ToDisp(Top.from, Msg("reply", 0, Head(dataq)))
          BY <2>7, <4>2, Zenon DEF get_process
        <5> QED
          BY <2>1, <2>6, <3>1, <3>2, <5>1, MessageKinds, Zenon
      <4> QED
        BY <4>1, <4>2
    <3> QED
      BY <2>7, <3>1, <3>2, <3>3 DEF get_process, PoolTypes, TypeOK, BoxTypes
  <2>8. CASE put
    <3>1. mail' \in Boxes /\ Top \in Messages /\ Top.type = "put" /\ Top.w \in Workers
      BY <2>2, <2>8, MessageKinds DEF put, Receives
    <3>2. procs' \in [Workers -> {"none", "idle", "used"}]
      BY <2>1, <2>8, <3>1 DEF put
    <3>3. dataq' \in Seq(Workers) /\ customerq' \in Seq(Disps) /\ dmail' \in [Disps -> Seq(DispMessages)]
      <4>1. CASE customerq = <<>>
        <5>1. dataq' = Append(dataq, Top.w) /\ customerq' = customerq /\ dmail' = dmail
          BY <2>8, <4>1, Zenon DEF put
        <5> QED
          BY <2>1, <3>1, <5>1
      <4>2. CASE customerq # <<>>
        <5>1. /\ customerq' = Tail(customerq) /\ ToDisp(Head(customerq), Msg("reply", 0, Top.w))
              /\ dataq' = dataq
          BY <2>8, <4>2, Zenon DEF put
        <5>2. Head(customerq) \in Disps /\ Tail(customerq) \in Seq(Disps)
          BY <2>1, <4>2, SeqTypes
        <5> QED
          BY <2>1, <2>6, <3>1, <5>1, <5>2, MessageKinds, Zenon
      <4> QED
        BY <4>1, <4>2
    <3> QED
      BY <2>8, <3>1, <3>2, <3>3, Zenon DEF put, PoolTypes, TypeOK, BoxTypes
  <2>9. CASE stop_processes
    <3>1. mail' \in Boxes /\ Top \in Messages /\ Top.type = "stop" /\ Top.w \in Workers /\ ppc = "loop"
      BY <2>2, <2>9, MessageKinds DEF stop_processes, Receives
    <3>2. smail' \in Seq(SupMessages) /\ ppc' \in {"loop", "callStop"} /\ todo' \in Nat
      <4>1. CASE procs[Top.w] = "none"
        BY <2>1, <2>9, <3>1, <4>1 DEF stop_processes
      <4>2. CASE procs[Top.w] # "none"
        <5>1. smail' = Append(smail, Msg("stop", 0, Top.w)) /\ ppc' = "callStop" /\ todo' = Top.w
          BY <2>9, <4>2, Zenon DEF stop_processes, ToSup
        <5> QED
          BY <2>1, <3>1, <5>1, MessageKinds, SeqTypes DEF Workers
      <4> QED
        BY <4>1, <4>2
    <3> QED
      BY <2>9, <3>1, <3>2 DEF stop_processes, PoolTypes, TypeOK, BoxTypes
  <2>10. CASE PoolAside
    <3>1. mail' \in Boxes
      BY <2>1, <2>10, BoxAside DEF PoolAside, InCall
    <3> QED
      BY <2>10, <3>1 DEF PoolAside, poolVars, PoolTypes, TypeOK, BoxTypes
  <2>11. CASE PoolAnswered
    <3>1. mail' \in Boxes
      BY <2>2, <2>11 DEF PoolAnswered, InCall
    <3>2. /\ ppc' \in {"init", "loop"} /\ todo' \in Nat
          /\ procs' \in [Workers -> {"none", "idle", "used"}] /\ count' \in Int
      BY <2>1, <2>11 DEF PoolAnswered, PoolTypes, TypeOK
    <3> QED
      BY <2>11, <3>1, <3>2 DEF PoolAnswered, PoolTypes, TypeOK, BoxTypes
  <2> QED
    BY <2>4, <2>5, <2>7, <2>8, <2>9, <2>10, <2>11 DEF Pool
<1>SpawnTypes.
      ASSUME PoolTypes, NEW who \in {"pool", "none"}, SpawnFor(who)
      PROVE  /\ wlife' \in [Workers -> {"none", "spawned", "ready", "busy", "killed", "dead"}]
             /\ spawned' \in 0..MaxWorkers /\ sw' \in 0..spawned' /\ sw' \in Workers
             /\ spc' = "wait" /\ sw' # 0 /\ sfor' \in {"pool", "none"}
  <2> USE <1>SpawnTypes
  <2>1. /\ spawned \in 0..MaxWorkers /\ MaxWorkers \in Nat
        /\ wlife \in [Workers -> {"none", "spawned", "ready", "busy", "killed", "dead"}]
    BY PoolAssumption DEF PoolTypes, TypeOK, BoxTypes
  <2>2. /\ spawned < MaxWorkers /\ spawned' = spawned + 1 /\ sw' = spawned' /\ spc' = "wait"
        /\ sfor' = who /\ wlife' = [wlife EXCEPT ![spawned'] = "spawned"]
    BY Zenon DEF SpawnFor
  <2>3. spawned' \in Workers /\ spawned' \in 0..MaxWorkers /\ sw' \in 0..spawned' /\ sw' # 0
    BY <2>1, <2>2 DEF Workers
  <2> QED
    BY <2>1, <2>2, <2>3
<1>SupStepTypes.
      ASSUME PoolTypes, Sup
      PROVE  PoolTypes'
  <2> USE <1>SupStepTypes
  <2> USE DEF poolVars, dispVars, bounds
  <2>1. /\ mail \in Boxes /\ smail \in Seq(SupMessages) /\ srec \subseteq Workers
        /\ spawned \in 0..MaxWorkers /\ sw \in 0..spawned /\ MaxWorkers \in Nat
        /\ wlife \in [Workers -> {"none", "spawned", "ready", "busy", "killed", "dead"}]
        /\ (sw # 0) = (spc = "wait")
    BY PoolAssumption DEF PoolTypes, TypeOK, BoxTypes
  <2>2. ASSUME smail # <<>> PROVE Tail(smail) \in Seq(SupMessages) /\ STop \in SupMessages
    BY <2>1, <2>2, SeqTypes DEF STop
  <2>3. ASSUME ToPool(Msg("answer", 0, 0)) PROVE mail' \in Boxes
    BY <2>1, <2>3, MailSteps, MessageKinds DEF Adds
  <2>4. CASE SupStart
    <3>1. smail' \in Seq(SupMessages)
      BY <2>2, <2>4, Zenon DEF SupStart, SupReceives
    <3>2. CASE SpawnFor("pool")
      BY <2>4, <3>1, <3>2, <1>SpawnTypes, Zenon DEF SupStart, PoolTypes, TypeOK, BoxTypes
    <3>3. CASE SpawnFails
      BY <2>4, <3>1, <3>3, Zenon DEF SupStart, SpawnFails, PoolTypes, TypeOK, BoxTypes
    <3> QED
      BY <2>4, <3>2, <3>3, Zenon DEF SupStart
  <2>5. CASE SupExit
    <3>1. smail' \in Seq(SupMessages) /\ srec' \subseteq Workers
      BY <2>1, <2>2, <2>5 DEF SupExit, SupReceives
    <3>2. CASE SpawnFor("none")
      BY <2>5, <3>1, <3>2, <1>SpawnTypes DEF SupExit, PoolTypes, TypeOK, BoxTypes
    <3>3. CASE UNCHANGED <<wlife, spawned, spc, sw, sfor>>
      BY <2>5, <3>1, <3>3 DEF SupExit, PoolTypes, TypeOK, BoxTypes
    <3> QED
      BY <2>5, <3>2, <3>3, Zenon DEF SupExit
  <2>6. CASE SupWaited
    <3>1. mail' \in Boxes
      BY <2>1, <2>3, <2>6, Zenon DEF SupWaited, Answer
    <3>2. smail' \in Seq(SupMessages)
      <4>1. CASE \E i \in 1..Len(smail) : smail' = Without(smail, i)
        BY <2>1, <4>1, Removed
      <4>2. CASE smail' = smail
        BY <2>1, <4>2
      <4> QED
        BY <2>6, <4>1, <4>2, Zenon DEF SupWaited
    <3>3. srec' \subseteq Workers
      <4>1. spc = "wait" /\ (srec' = srec \/ srec' = srec \cup {sw})
        BY <2>6, Zenon DEF SupWaited
      <4>2. sw \in Workers
        BY <2>1, <4>1 DEF Workers
      <4> QED
        BY <2>1, <4>1, <4>2, Zenon
    <3>4. spawned' = spawned /\ sw' = 0 /\ spc' = "loop" /\ sfor' = "pool"
      BY <2>6, Zenon DEF SupWaited
    <3>5. 0 \in 0..spawned
      BY <2>1
    <3> QED
      BY <2>6, <3>1, <3>2, <3>3, <3>4, <3>5, Zenon DEF SupWaited, PoolTypes, TypeOK, BoxTypes
  <2>7. CASE SupStop
    <3>1. mail' \in Boxes
      BY <2>3, <2>7 DEF SupStop
    <3>2. smail' \in Seq(SupMessages) /\ srec' \subseteq Workers
      BY <2>1, <2>2, <2>7 DEF SupStop, SupReceives
    <3>3. wlife' \in [Workers -> {"none", "spawned", "ready", "busy", "killed", "dead"}]
      BY <2>1, <2>7 DEF SupStop
    <3> QED
      BY <2>7, <3>1, <3>2, <3>3 DEF SupStop, PoolTypes, TypeOK, BoxTypes
  <2> QED
    BY <2>4, <2>5, <2>6, <2>7 DEF Sup
<1>WorkerStepTypes.
      ASSUME PoolTypes, NEW w \in Workers,
             Worker(w) \/ on_message(w) \/ LastSlice(w) \/ Die(w) \/ AskStop(w)
      PROVE  PoolTypes'
  <2> USE <1>WorkerStepTypes
  <2> USE DEF poolVars, supVars, dispVars, bounds
  <2>1. /\ mail \in Boxes /\ smail \in Seq(SupMessages) /\ dmail \in [Disps -> Seq(DispMessages)]
        /\ wlife \in [Workers -> {"none", "spawned", "ready", "busy", "killed", "dead"}]
        /\ wmail \in [Workers -> Seq(Disps)]
    BY DEF PoolTypes, TypeOK, BoxTypes
  <2>2. Msg("put", w, w) \in Messages /\ Msg("stop", 0, w) \in Messages /\ Msg("EXIT", 0, w) \in SupMessages
    BY MessageKinds, Zenon
  <2>3. \A m \in Messages : ToPool(m) => mail' \in Boxes
    BY <2>1, MailSteps DEF Adds
  <2>4. CASE on_init(w) \/ on_message(w) \/ LastSlice(w)
    <3>1. mail' \in Boxes /\ wlife' \in [Workers -> {"none", "spawned", "ready", "busy", "killed", "dead"}]
      BY <2>1, <2>2, <2>3, <2>4, Zenon DEF on_init, on_message, LastSlice
    <3> QED
      BY <2>4, <3>1 DEF on_init, on_message, LastSlice, PoolTypes, TypeOK, BoxTypes
  <2>5. CASE add_task(w)
    <3>1. /\ wlife' \in [Workers -> {"none", "spawned", "ready", "busy", "killed", "dead"}]
          /\ Tail(wmail[w]) \in Seq(Disps) /\ Head(wmail[w]) \in Disps /\ mail' = mail
      BY <2>1, <2>5, SeqTypes DEF add_task
    <3>2. wmail' \in [Workers -> Seq(Disps)]
      BY <2>1, <2>5, <3>1 DEF add_task
    <3>3. dmail' \in [Disps -> Seq(DispMessages)]
      <4>1. CASE dmail' = dmail
        BY <2>1, <4>1
      <4>2. CASE ToDisp(Head(wmail[w]), Msg("reply", w, w))
        <5>1. w \in 0..MaxWorkers
          BY DEF Workers
        <5>2. Append(dmail[Head(wmail[w])], Msg("reply", w, w)) \in Seq(DispMessages)
          BY <2>1, <3>1, <5>1, MessageKinds, SeqTypes
        <5> QED
          BY <2>1, <3>1, <4>2, <5>2 DEF ToDisp
      <4> QED
        BY <2>5, <4>1, <4>2, Zenon DEF add_task
    <3> QED
      BY <2>5, <3>1, <3>2, <3>3 DEF add_task, PoolTypes, TypeOK, BoxTypes
  <2>6. CASE Die(w)
    <3>1. smail' \in Seq(SupMessages)
      BY <2>1, <2>2, <2>6, SeqTypes, Zenon DEF Die, ToSup
    <3>2. /\ wlife' \in [Workers -> {"none", "spawned", "ready", "busy", "killed", "dead"}]
          /\ wmail' \in [Workers -> Seq(Disps)]
      <4>1. wlife' = [wlife EXCEPT ![w] = "dead"] /\ wmail' = [wmail EXCEPT ![w] = <<>>]
        BY <2>6, Zenon DEF Die
      <4>2. <<>> \in Seq(Disps)
        OBVIOUS
      <4> QED
        BY <2>1, <4>1, <4>2
    <3> QED
      BY <2>6, <3>1, <3>2, Zenon DEF Die, PoolTypes, TypeOK, BoxTypes
  <2>7. CASE AskStop(w)
    <3>1. mail' \in Boxes
      BY <2>2, <2>3, <2>7 DEF AskStop
    <3> QED
      BY <2>7, <3>1 DEF AskStop, PoolTypes, TypeOK, BoxTypes
  <2> QED
    BY <2>4, <2>5, <2>6, <2>7 DEF Worker
<1>DispStepTypes.
      ASSUME PoolTypes, Dispatcher \/ Accept \/ NewDisp
      PROVE  PoolTypes'
  <2> USE <1>DispStepTypes
  <2> USE DEF poolVars, supVars, bounds
  <2>1. /\ mail \in Boxes /\ dmail \in [Disps -> Seq(DispMessages)] /\ disp \in Disps
        /\ wmail \in [Workers -> Seq(Disps)]
    BY DEF PoolTypes, TypeOK, BoxTypes
  <2>2. ASSUME dmail[disp] # <<>>
        PROVE  /\ Tail(dmail[disp]) \in Seq(DispMessages) /\ DTop \in DispMessages
               /\ [dmail EXCEPT ![disp] = Tail(@)] \in [Disps -> Seq(DispMessages)]
    BY <2>1, <2>2, SeqTypes DEF DTop
  <2>3. CASE GotWorker
    <3>1. DTop.w \in Workers /\ DTop.w \in 0..MaxWorkers /\ DTop.w # 0
      BY <2>2, <2>3 DEF GotWorker, DispMessages, Workers
    <3>2. wmail' \in [Workers -> Seq(Disps)]
      BY <2>1, <2>3, <3>1, SeqTypes DEF GotWorker
    <3>3. dmail' \in [Disps -> Seq(DispMessages)]
      BY <2>2, <2>3 DEF GotWorker
    <3> QED
      BY <2>3, <3>1, <3>2, <3>3 DEF GotWorker, PoolTypes, TypeOK, BoxTypes
  <2>4. CASE TaskAdded
    <3>1. dmail' \in [Disps -> Seq(DispMessages)]
      BY <2>2, <2>4, Zenon DEF TaskAdded
    <3>2. MaxWorkers \in Nat
      BY PoolAssumption, Zenon
    <3>3. 0 \in 0..MaxWorkers
      BY <3>2
    <3> QED
      BY <2>4, <3>1, <3>3 DEF TaskAdded, PoolTypes, TypeOK, BoxTypes
  <2>5. CASE Accept
    <3>1. mail' \in Boxes
      BY <2>1, <2>5, MessageKinds, MailSteps DEF Accept, Adds
    <3> QED
      BY <2>5, <3>1 DEF Accept, PoolTypes, TypeOK, BoxTypes
  <2>6. CASE NewDisp
    <3>1. disp' \in Disps /\ 0 \in 0..MaxWorkers
      BY <2>1, <2>6, PoolAssumption DEF NewDisp, Disps
    <3> QED
      BY <2>6, <3>1 DEF NewDisp, boxes, PoolTypes, TypeOK, BoxTypes
  <2> QED
    BY <2>3, <2>4, <2>5, <2>6 DEF Dispatcher
<1>1. CASE UNCHANGED vars
  BY <1>1 DEF vars, poolVars, supVars, dispVars, boxes, bounds, PoolTypes, TypeOK, BoxTypes
<1> QED
  BY <1>1, <1>PoolStepTypes, <1>SupStepTypes, <1>WorkerStepTypes, <1>DispStepTypes DEF Next

-----------------------------------------------------------------------------
(* Selective receive *)

(* Every variable of the pool, of the supervisor and of the dispatcher     *)
(* stays in its type, and so do the messages between them.                 *)
LEMMA TypesAreKept ==
    Spec => []PoolTypes
BY InitTypes, StepTypes, PTL DEF Spec

(* recv_by_condition of the pool's calls sets messages aside and restores  *)
(* them (_core.lua); whatever the other processes send in the meantime, no *)
(* step reorders, duplicates or drops what the pool has not handled.       *)
THEOREM ReceiveKeepsOrder == Spec => OrderKept
<1>MailMoves. ASSUME PoolTypes, [Next]_vars
              PROVE  Keeps \/ (\E m \in Messages : Adds(m)) \/ (\E m \in Messages : Takes(m))
  <2> USE <1>MailMoves
  <2>1. mail \in Boxes /\ disp \in Disps
    BY DEF PoolTypes, TypeOK, BoxTypes
  <2>2. ASSUME Available(mail), mail' = TakeFirst(mail) PROVE \E m \in Messages : Takes(m)
    BY <2>1, <2>2, MailSteps DEF Takes
  <2>3. mail' = mail => Keeps
    BY <2>1, MailSteps
  <2>4. \A m \in Messages : ToPool(m) => \E n \in Messages : Adds(n)
    BY <2>1, MailSteps
  <2>5. CASE UNCHANGED vars
    BY <2>3, <2>5 DEF vars, boxes
  <2>6. CASE Pool
    <3>1. CASE PoolInit
      BY <2>3, <3>1 DEF PoolInit
    <3>2. CASE get_process_none \/ get_process \/ put \/ stop_processes
      BY <2>2, <3>2 DEF get_process_none, get_process, put, stop_processes, Receives
    <3>3. CASE PoolAside
      BY <2>1, <3>3, MailSteps DEF PoolAside, InCall
    <3>4. CASE PoolAnswered
      BY <2>2, <3>4 DEF PoolAnswered, InCall
    <3> QED
      BY <2>6, <3>1, <3>2, <3>3, <3>4 DEF Pool
  <2>7. CASE Sup
    BY <2>3, <2>4, <2>7, MessageKinds, Zenon DEF Sup, SupStart, SupExit, SupWaited, SupStop, Answer
  <2>8. CASE Dispatcher \/ Accept \/ NewDisp
    BY <2>1, <2>3, <2>4, <2>8, MessageKinds DEF Dispatcher, GotWorker, TaskAdded, Accept, NewDisp, boxes
  <2>9. ASSUME NEW w \in Workers, Worker(w) \/ on_message(w) \/ LastSlice(w) \/ Die(w) \/ AskStop(w)
        PROVE  Keeps \/ (\E m \in Messages : Adds(m))
    BY <2>3, <2>4, <2>9, MessageKinds, Zenon DEF Worker, on_init, add_task, on_message, LastSlice, Die, AskStop
  <2> QED
    BY <2>5, <2>6, <2>7, <2>8, <2>9 DEF Next
<1>1. ASSUME PoolTypes, [Next]_vars
      PROVE  [LET p == Pending(mail)
                  q == Pending(mail')
              IN  \/ q = p
                  \/ Len(q) = Len(p) + 1 /\ p = SubSeq(q, 1, Len(p))
                  \/ \E i \in 1..Len(p) : q = Without(p, i)]_mail
  <2>1. Pending(mail) \in Seq(Messages)
    BY <1>1, PendingTyped, Zenon DEF PoolTypes, BoxTypes
  <2>2. CASE Keeps
    BY <2>2 DEF Keeps
  <2>3. ASSUME NEW m \in Messages, Adds(m)
        PROVE  /\ Len(Pending(mail')) = Len(Pending(mail)) + 1
               /\ Pending(mail) = SubSeq(Pending(mail'), 1, Len(Pending(mail)))
    <3>1. \A s \in Seq(Messages) : /\ Len(Append(s, m)) = Len(s) + 1
                                   /\ s = SubSeq(Append(s, m), 1, Len(s))
      OBVIOUS
    <3> QED
      BY <2>1, <2>3, <3>1, Zenon DEF Adds
  <2>4. ASSUME NEW m \in Messages, Takes(m)
        PROVE  \E i \in 1..Len(Pending(mail)) : Pending(mail') = Without(Pending(mail), i)
    BY <2>4 DEF Takes
  <2> QED
    BY <1>1, <2>2, <2>3, <2>4, <1>MailMoves, Zenon
<1> QED
  BY <1>1, TypesAreKept, PTL DEF Spec, OrderKept

-----------------------------------------------------------------------------
(* Calls of the pool *)

Asks == {m \in SupMessages : m.type # "EXIT"}
Answers == {m \in Messages : m.type = "answer"}
Others(m) == {x \in SupMessages : x.type # "EXIT" /\ x # m}

(* The two requests of the pool to its supervisor.                         *)
LEMMA AskKinds ==
    /\ Msg("start", 0, 0) \in SupMessages /\ Msg("start", 0, 0).type # "EXIT"
    /\ \A w \in Workers : Msg("stop", 0, w) \in SupMessages /\ Msg("stop", 0, w).type # "EXIT"
BY DEF SupMessages, Msg

(* Workers are spawned in order.                                           *)
InOrder == \A w \in Workers : (wlife[w] = "none") = (w > spawned)

(* A step that does nothing for the call.                                  *)
NoCall ==
    /\ \A T \in SUBSET Asks : SameIn(smail, smail', T)
    /\ SameIn(Pending(mail), Pending(mail'), Answers)
    /\ UNCHANGED <<ppc, todo>>
    /\ Served' <=> Served
    /\ \A w \in Workers : wlife[w] # "none" => /\ wlife'[w] # "none"
                                               /\ Live(w)' => Live(w)

LEMMA AsksAre ==
    /\ Requests = IndexesOf(smail, Asks) /\ Answered = IndexesOf(Pending(mail), Answers)
    /\ \A m : Strange(m) = IndexesOf(smail, Others(m))
    /\ \A m : Others(m) \in SUBSET Asks
    /\ \A m \in SupMessages : m \in Asks <=> m.type # "EXIT"
    /\ \A m \in Messages : m \in Answers <=> m.type = "answer"
    /\ \A n : \A m \in SupMessages : m \in Others(n) <=> m.type # "EXIT" /\ m # n
BY DEF Requests, Answered, Strange, Asks, Answers, Others

LEMMA SameSelf ==
    ASSUME NEW s
    PROVE  \A T : SameIn(s, s, T)
BY DEF SameIn

-----------------------------------------------------------------------------
(* Where a worker is *)

PutsOf(w) == {m \in Messages : m.type = "put" /\ m.w = w}
HandedOver(w) == {m \in DispMessages : m.from = 0 /\ m.w = w}

QueuedAt(w) == IndexesOf(dataq, {w})
OfferedAt(w) == IndexesOf(Pending(mail), PutsOf(w))
GivenAt(w, d) == IndexesOf(dmail[d], HandedOver(w))

Queued(w) == QueuedAt(w) # {}
Offered(w) == OfferedAt(w) # {}
GivenTo(w, d) == GivenAt(w, d) # {}
Given(w) == \E d \in Disps : GivenTo(w, d)
Tasked(w) == wmail[w] # <<>>
Working(w) == wlife[w] \in {"spawned", "busy"}

(* Places(w), one kind of place at a time.                                 *)
PlaceOf(w) ==
    /\ AtMostOne(QueuedAt(w)) /\ AtMostOne(OfferedAt(w)) /\ Len(wmail[w]) <= 1
    /\ \A d \in Disps : AtMostOne(GivenAt(w, d))
    /\ \A d, e \in Disps : GivenTo(w, d) /\ GivenTo(w, e) => d = e
    /\ Queued(w) => ~Offered(w) /\ ~Given(w) /\ ~Tasked(w) /\ ~Working(w)
    /\ Offered(w) => ~Given(w) /\ ~Tasked(w) /\ ~Working(w)
    /\ Given(w) => ~Tasked(w) /\ ~Working(w)
    /\ Tasked(w) => ~Working(w)
    /\ Live(w) => Queued(w) \/ Offered(w) \/ Given(w) \/ Tasked(w) \/ Working(w)
    /\ wlife[w] \in {"none", "killed"} =>
          ~Queued(w) /\ ~Offered(w) /\ ~Given(w) /\ ~Tasked(w) /\ ~Working(w)

WorkerOf(w) == KnownOf(w) /\ PlaceOf(w)

LEMMA PlacesAre ==
    ASSUME PoolTypes, NEW w \in Workers, PlaceOf(w)
    PROVE  /\ \A a, b \in Places(w) : a = b
           /\ Live(w) => Places(w) # {}
<1>1. /\ Pending(mail) \in Seq(Messages) /\ dmail \in [Disps -> Seq(DispMessages)]
      /\ wmail \in [Workers -> Seq(Disps)]
  BY PendingTyped, Zenon DEF PoolTypes, TypeOK, BoxTypes
<1> DEFINE Q == {j \in 1..Len(dataq) : dataq[j] = w}
           P == {j \in 1..Len(Pending(mail)) :
                   Pending(mail)[j].type = "put" /\ Pending(mail)[j].w = w}
           G(d) == {j \in 1..Len(dmail[d]) : dmail[d][j].from = 0 /\ dmail[d][j].w = w}
           T == 1..Len(wmail[w])
           W == {wlife[w]} \cap {"spawned", "busy"}
<1>2. Q = QueuedAt(w)
  BY DEF QueuedAt, IndexesOf
<1>3. P = OfferedAt(w)
  BY <1>1 DEF OfferedAt, IndexesOf, PutsOf
<1>4. \A d \in Disps : G(d) = GivenAt(w, d)
  <2>1. TAKE d \in Disps
  <2>2. \A j \in 1..Len(dmail[d]) : dmail[d][j] \in DispMessages
    <3>1. dmail[d] \in Seq(DispMessages)
      BY <1>1
    <3> QED
      BY <3>1
  <2>3. \A j : j \in G(d) <=> j \in GivenAt(w, d)
    BY <2>2, Zenon DEF GivenAt, IndexesOf, HandedOver
  <2> QED
    BY <2>3, Zenon
<1>5. /\ Len(wmail[w]) <= 1 => \A i, j \in T : i = j
      /\ (T = {}) <=> ~Tasked(w)
  <2>1. wmail[w] \in Seq(Disps)
    BY <1>1
  <2>2. Len(wmail[w]) \in Nat /\ (wmail[w] = <<>> <=> Len(wmail[w]) = 0)
    BY <2>1
  <2>3. \A n \in Nat : (n <= 1 => \A i, j \in 1..n : i = j) /\ (1..n = {} <=> n = 0)
    <3>1. \A n \in Nat : n # 0 => 1 \in 1..n
      OBVIOUS
    <3> QED
      BY <3>1
  <2> QED
    BY <2>2, <2>3, Zenon DEF Tasked
<1>6. (\A i, j \in W : i = j) /\ ((W = {}) <=> ~Working(w))
  BY Zenon DEF Working
<1>7. /\ \A i, j \in Q : i = j
      /\ \A i, j \in P : i = j
      /\ \A d \in Disps : \A i, j \in G(d) : i = j
      /\ \A i, j \in T : i = j
      /\ \A d, e \in Disps : G(d) # {} /\ G(e) # {} => d = e
  <2>1. /\ \A i, j \in Q : i = j
        /\ \A i, j \in P : i = j
        /\ \A i, j \in T : i = j
    BY <1>2, <1>3, <1>5, Zenon DEF PlaceOf, AtMostOne
  <2>2. \A d \in Disps : \A i, j \in G(d) : i = j
    BY <1>4, Zenon DEF PlaceOf, AtMostOne
  <2>3. \A d, e \in Disps : G(d) # {} /\ G(e) # {} => d = e
    BY <1>4, Zenon DEF PlaceOf, GivenTo
  <2> QED
    BY <2>1, <2>2, <2>3, Zenon
<1>8. /\ (Q = {}) <=> ~Queued(w)
      /\ (P = {}) <=> ~Offered(w)
      /\ (\A d \in Disps : G(d) = {}) <=> ~Given(w)
  BY <1>2, <1>3, <1>4, Zenon DEF Queued, Offered, Given, GivenTo
<1>9. Places(w) = {<<"dataq", i>> : i \in Q} \cup {<<"put", i>> : i \in P}
                  \cup (UNION {{<<"reply", d, i>> : i \in G(d)} : d \in Disps})
                  \cup {<<"task", i>> : i \in T} \cup {<<"work", l>> : l \in W}
  BY Zenon DEF Places
<1> HIDE DEF Q, P, G, T, W
<1>10. \A a : a \in Places(w) <=>
                 \/ \E i \in Q : a = <<"dataq", i>>
                 \/ \E i \in P : a = <<"put", i>>
                 \/ \E d \in Disps : \E i \in G(d) : a = <<"reply", d, i>>
                 \/ \E i \in T : a = <<"task", i>>
                 \/ \E l \in W : a = <<"work", l>>
  <2>1. TAKE a
  <2> DEFINE R(d) == {<<"reply", d, i>> : i \in G(d)}
             AQ == {<<"dataq", i>> : i \in Q}
             AP == {<<"put", i>> : i \in P}
             AT == {<<"task", i>> : i \in T}
             AW == {<<"work", l>> : l \in W}
  <2>2. Places(w) = AQ \cup AP \cup (UNION {R(d) : d \in Disps}) \cup AT \cup AW
    BY <1>9, Zenon
  <2>3. /\ a \in AQ <=> \E i \in Q : a = <<"dataq", i>>
        /\ a \in AP <=> \E i \in P : a = <<"put", i>>
        /\ a \in AT <=> \E i \in T : a = <<"task", i>>
        /\ a \in AW <=> \E l \in W : a = <<"work", l>>
    OBVIOUS
  <2>4. \A d \in Disps : a \in R(d) <=> \E i \in G(d) : a = <<"reply", d, i>>
    OBVIOUS
  <2> HIDE DEF R, AQ, AP, AT, AW
  <2>5. a \in UNION {R(d) : d \in Disps} <=> \E d \in Disps : a \in R(d)
    OBVIOUS
  <2>7. a \in Places(w) <=> \/ a \in AQ \/ a \in AP \/ a \in UNION {R(d) : d \in Disps}
                            \/ a \in AT \/ a \in AW
    BY <2>2, Zenon
  <2> QED
    BY <2>3, <2>4, <2>5, <2>7, Zenon
<1>11. /\ Q # {} => P = {} /\ (\A d \in Disps : G(d) = {}) /\ T = {} /\ W = {}
       /\ P # {} => (\A d \in Disps : G(d) = {}) /\ T = {} /\ W = {}
       /\ (\E d \in Disps : G(d) # {}) => T = {} /\ W = {}
       /\ T # {} => W = {}
       /\ Live(w) => Q # {} \/ P # {} \/ (\E d \in Disps : G(d) # {}) \/ T # {} \/ W # {}
  BY <1>5, <1>6, <1>8 DEF PlaceOf
<1>12. \A a, b \in Places(w) : a = b
  <2>1. SUFFICES ASSUME NEW a \in Places(w), NEW b \in Places(w) PROVE a = b
    OBVIOUS
  <2>2. CASE Q # {}
    <3>1. \E i \in Q : a = <<"dataq", i>>
      BY <1>10, <1>11, <2>2
    <3>2. \E i \in Q : b = <<"dataq", i>>
      BY <1>10, <1>11, <2>2
    <3> QED
      BY <1>7, <3>1, <3>2, Zenon
  <2>3. CASE Q = {} /\ P # {}
    <3>1. \E i \in P : a = <<"put", i>>
      BY <1>10, <1>11, <2>3
    <3>2. \E i \in P : b = <<"put", i>>
      BY <1>10, <1>11, <2>3
    <3> QED
      BY <1>7, <3>1, <3>2, Zenon
  <2>4. CASE Q = {} /\ P = {} /\ \E d \in Disps : G(d) # {}
    <3>1. PICK d \in Disps : \E i \in G(d) : a = <<"reply", d, i>>
      BY <1>10, <1>11, <2>4, Zenon
    <3>2. PICK e \in Disps : \E j \in G(e) : b = <<"reply", e, j>>
      BY <1>10, <1>11, <2>4, Zenon
    <3>3. d = e
      BY <1>7, <3>1, <3>2, Zenon
    <3> QED
      BY <1>7, <3>1, <3>2, <3>3, Zenon
  <2>5. CASE Q = {} /\ P = {} /\ ~(\E d \in Disps : G(d) # {}) /\ T # {}
    <3>1. \E i \in T : a = <<"task", i>>
      BY <1>10, <1>11, <2>5
    <3>2. \E i \in T : b = <<"task", i>>
      BY <1>10, <1>11, <2>5
    <3> QED
      BY <1>7, <3>1, <3>2, Zenon
  <2>6. CASE Q = {} /\ P = {} /\ ~(\E d \in Disps : G(d) # {}) /\ T = {}
    <3>1. \E i \in W : a = <<"work", i>>
      BY <1>10, <1>11, <2>6
    <3>2. \E i \in W : b = <<"work", i>>
      BY <1>10, <1>11, <2>6
    <3> QED
      BY <1>6, <3>1, <3>2, Zenon
  <2> QED
    BY <2>2, <2>3, <2>4, <2>5, <2>6
<1>13. Live(w) => Places(w) # {}
  BY <1>10, <1>11, Zenon
<1> QED
  BY <1>12, <1>13

-----------------------------------------------------------------------------
(* Steps that leave a worker where it is *)

StaysPut(w) ==
    /\ SameIn(dataq, dataq', {w})
    /\ SameIn(Pending(mail), Pending(mail'), PutsOf(w))
    /\ \A d \in Disps : SameIn(dmail[d], dmail'[d], HandedOver(w))
    /\ wmail'[w] = wmail[w] /\ wlife'[w] = wlife[w]

StillKnown(w) ==
    /\ (w > spawned') = (w > spawned)
    /\ wlife'[w] = wlife[w] /\ procs'[w] = procs[w]
    /\ Live(w) => w \in srec' \cup {sw'}
    /\ SameIn(smail, smail', {Msg("EXIT", 0, w)})
    /\ SameIn(dataq, dataq', {w})

PoolInv == PoolTypes /\ CallInv /\ \A w \in Workers : WorkerOf(w)

(* Every step keeps the one request of the pool in its one place.          *)
LEMMA CallStep == PoolInv /\ [Next]_vars => CallInv'
<1>StrangeIsAsked.
      ASSUME NEW m, Requests = {}
      PROVE  Strange(m) = {}
  BY <1>StrangeIsAsked DEF Requests, Strange, IndexesOf
<1>CallQuiet. ASSUME CallInv, NoCall
              PROVE  CallInv'
  <2> USE <1>CallQuiet
  <2>1. /\ AtMostOne(Requests) => AtMostOne(Requests')
        /\ AtMostOne(Answered) => AtMostOne(Answered')
        /\ Requests' = {} <=> Requests = {}
        /\ Answered' = {} <=> Answered = {}
    BY Zenon DEF NoCall, SameIn, Requests, Answered, Asks, Answers
  <2>2. \A m : Strange(m)' = {} <=> Strange(m) = {}
    <3>1. TAKE m
    <3>2. Others(m) \in SUBSET Asks
      BY AsksAre, Zenon
    <3> QED
      BY <3>2 DEF NoCall, SameIn, Strange, Others
  <2>4. ASSUME NEW t, t = todo, ppc = "callStop"
        PROVE  /\ Strange(Msg("stop", 0, todo))' = {}
               /\ todo' \in Workers /\ wlife'[todo'] # "none"
               /\ Answered' # {} => ~Live(todo)'
    <3>1. /\ todo' = t /\ Strange(Msg("stop", 0, t)) = {} /\ t \in Workers /\ wlife[t] # "none"
          /\ Answered # {} => ~Live(t)
      BY <2>4 DEF CallInv, NoCall
    <3>2. Strange(Msg("stop", 0, t))' = {}
      BY <2>2, <3>1
    <3>3. wlife'[t] # "none" /\ (Live(t)' => Live(t))
      BY <3>1 DEF NoCall, Live
    <3> QED
      BY <2>1, <3>1, <3>2, <3>3 DEF Strange, Live, Msg
  <2>5. ppc \in {"callInit", "callGet"} => Strange(Msg("start", 0, 0))' = {}
    BY <2>2 DEF CallInv, NoCall, Msg
  <2> QED
    BY <2>1, <2>4, <2>5 DEF CallInv, NoCall, AtMostOne
<1>SameMail. ASSUME mail \in Boxes
             PROVE  /\ mail' = mail => SameIn(Pending(mail), Pending(mail'), Answers)
                    /\ Available(mail) /\ mail' = SetAside(mail) => SameIn(Pending(mail), Pending(mail'), Answers)
                    /\ Available(mail) /\ mail' = TakeFirst(mail) /\ Top.type # "answer" =>
                          SameIn(Pending(mail), Pending(mail'), Answers)
                    /\ \A m \in Messages : ToPool(m) /\ m.type # "answer" =>
                          SameIn(Pending(mail), Pending(mail'), Answers)
  <2> USE <1>SameMail
  <2>1. \A m \in Messages : m \in Answers <=> m.type = "answer"
    BY AsksAre, Zenon
  <2>2. ASSUME Available(mail), mail' = TakeFirst(mail), Top.type # "answer"
        PROVE  SameIn(Pending(mail), Pending(mail'), Answers)
    <3>1. Takes(Top) /\ Top \in Messages
      BY <2>2, MailSteps DEF Takes
    <3> QED
      BY <2>1, <2>2, <3>1, MailIndexes
  <2> QED
    BY <2>1, <2>2, MailSteps, MailIndexes
<1>CallPoolStep.
      ASSUME PoolTypes, CallInv, Pool,
             \A w \in Workers : wlife[w] = "none" => procs[w] = "none"
      PROVE  CallInv'
  <2> USE <1>CallPoolStep
  <2> USE DEF supVars, dispVars, bounds
  <2>1. mail \in Boxes /\ smail \in Seq(SupMessages)
    BY DEF PoolTypes, BoxTypes
  <2>2. ASSUME NEW m \in Asks, ppc \in {"init", "loop"}, smail' = Append(smail, m),
               SameIn(Pending(mail), Pending(mail'), Answers), UNCHANGED <<spc, sfor, wlife>>,
               \/ ppc' \in {"callInit", "callGet"} /\ m = Msg("start", 0, 0)
               \/ /\ ppc' = "callStop" /\ todo' \in Workers /\ wlife[todo'] # "none"
                  /\ m = Msg("stop", 0, todo')
        PROVE  CallInv'
    <3>1. Requests = {} /\ Answered = {} /\ ~Served
      BY <2>2 DEF CallInv
    <3>2. m \in SupMessages /\ m \notin Others(m)
      BY DEF Asks, Others
    <3>3. AtMostOne(Requests') /\ Requests' # {}
      <4>1. IndexesOf(smail, Asks) = {}
        BY <3>1, AsksAre
      <4>2. AtMostOne(IndexesOf(smail', Asks)) /\ IndexesOf(smail', Asks) # {}
        BY <2>1, <2>2, <3>2, <4>1, SeqIndexes
      <4> QED
        BY <4>2 DEF Requests, Asks
    <3>4. Answered' = {} /\ AtMostOne(Answered') /\ ~Served'
      BY <2>2, <3>1 DEF SameIn, Answered, Answers, Served, AtMostOne
    <3>5. Strange(m) = {}
      BY <3>1, <1>StrangeIsAsked
    <3>6. SameIn(smail, smail', Others(m))
      BY <2>1, <2>2, <3>2, SeqIndexes
    <3>7. IndexesOf(smail', Others(m)) = {}
      BY <3>5, <3>6, AsksAre, Zenon DEF SameIn
    <3>8. \A n : n = m => IndexesOf(smail', Others(n)) = {}
      BY <3>7, Zenon
    <3>9. /\ ppc' \in {"callInit", "callGet"} => Strange(Msg("start", 0, 0))' = {}
          /\ ppc' = "callStop" => Strange(Msg("stop", 0, todo))' = {}
      BY <2>2, <3>8, Zenon DEF Strange, Others, Msg
    <3>10. AtMostOne(Requests)' /\ AtMostOne(Answered)'
      BY <3>3, <3>4, Zenon DEF AtMostOne
    <3> QED
      BY <2>2, <3>3, <3>4, <3>9, <3>10 DEF CallInv
  <2>3. CASE PoolInit
    <3>1. SameIn(Pending(mail), Pending(mail'), Answers)
      BY <2>1, <2>3, <1>SameMail, Zenon DEF PoolInit
    <3>2. CASE ppc' = "callInit"
      <4>1. smail' = Append(smail, Msg("start", 0, 0)) /\ Msg("start", 0, 0) \in Asks
        BY <2>3, <3>2, MessageKinds DEF PoolInit, _create_process, ToSup, Asks
      <4> QED
        BY <2>2, <2>3, <3>1, <3>2, <4>1 DEF PoolInit
    <3>3. CASE ppc' # "callInit"
      <4>1. ppc = "init" /\ ppc' = "loop" /\ UNCHANGED <<mail, smail, spc, sfor>>
        BY <2>3, <3>3, Zenon DEF PoolInit
      <4> QED
        BY <4>1 DEF CallInv, Requests, Answered, Served
    <3> QED
      BY <3>2, <3>3
  <2>4. CASE get_process_none
    <3>1. SameIn(Pending(mail), Pending(mail'), Answers)
      BY <2>1, <2>4, <1>SameMail, Zenon DEF get_process_none, Receives
    <3>2. CASE smail' = smail /\ ppc' = ppc
      <4>1. NoCall
        BY <2>4, <3>1, <3>2, SameSelf, Zenon DEF get_process_none, NoCall, Served, Live
      <4> QED
        BY <4>1, <1>CallQuiet
    <3>3. CASE _create_process /\ ppc' = "callGet"
      <4>1. smail' = Append(smail, Msg("start", 0, 0)) /\ Msg("start", 0, 0) \in Asks
        BY <3>3, MessageKinds DEF _create_process, ToSup, Asks
      <4> QED
        BY <2>2, <2>4, <3>1, <3>3, <4>1 DEF get_process_none, Receives
    <3> QED
      BY <2>4, <3>2, <3>3, Zenon DEF get_process_none
  <2>5. CASE get_process \/ put
    <3>1. SameIn(Pending(mail), Pending(mail'), Answers)
      BY <2>1, <2>5, <1>SameMail, Zenon DEF get_process, put, Receives
    <3>2. UNCHANGED <<smail, ppc, todo, spc, sfor, wlife>>
      BY <2>5, Zenon DEF get_process, put
    <3>3. NoCall
      BY <3>1, <3>2, SameSelf, Zenon DEF NoCall, Served, Live
    <3> QED
      BY <3>3, <1>CallQuiet
  <2>6. CASE stop_processes
    <3>1. SameIn(Pending(mail), Pending(mail'), Answers)
      BY <2>1, <2>6, <1>SameMail, Zenon DEF stop_processes, Receives
    <3>2. CASE procs[Top.w] = "none"
      <4>1. UNCHANGED <<smail, ppc, todo, spc, sfor, wlife>>
        BY <2>6, <3>2, Zenon DEF stop_processes
      <4>2. NoCall
        BY <3>1, <4>1, SameSelf, Zenon DEF NoCall, Served, Live
      <4> QED
        BY <4>2, <1>CallQuiet
    <3>3. CASE procs[Top.w] # "none"
      <4>1. /\ smail' = Append(smail, Msg("stop", 0, Top.w)) /\ ppc' = "callStop" /\ todo' = Top.w
            /\ UNCHANGED <<spc, sfor, wlife>> /\ ppc = "loop"
        BY <2>6, <3>3, Zenon DEF stop_processes, ToSup, Receives
      <4>2. Top \in Messages /\ Top.type = "stop"
        BY <2>1, <2>6, MailSteps DEF stop_processes, Receives, Takes
      <4>3. Top.w \in Workers
        BY <4>2, MessageKinds
      <4>4. wlife[Top.w] # "none" /\ Msg("stop", 0, Top.w) \in Asks
        BY <3>3, <4>3, AskKinds, Zenon DEF Asks
      <4> QED
        BY <2>2, <3>1, <4>1, <4>3, <4>4
    <3> QED
      BY <3>2, <3>3
  <2>7. CASE PoolAside
    <3>1. SameIn(Pending(mail), Pending(mail'), Answers)
      BY <2>1, <2>7, <1>SameMail DEF PoolAside, InCall
    <3>2. UNCHANGED <<smail, ppc, todo, spc, sfor, wlife>>
      BY <2>7, Zenon DEF PoolAside, poolVars
    <3>3. NoCall
      BY <3>1, <3>2, SameSelf DEF NoCall, Served, Live
    <3> QED
      BY <3>3, <1>CallQuiet
  <2>8. CASE PoolAnswered
    <3>1. Takes(Top) /\ Top \in Messages /\ Top \in Answers
      BY <2>1, <2>8, MailSteps, Zenon DEF PoolAnswered, InCall, Takes, Answers
    <3>2. Answered # {} /\ Answered' = {}
      <4>1. AtMostOne(IndexesOf(Pending(mail), Answers))
        BY AsksAre DEF CallInv
      <4> QED
        BY <2>1, <3>1, <4>1, MailIndexes, Zenon DEF Answered, Answers
    <3>3. Requests = {} /\ ~Served
      BY <3>2 DEF CallInv
    <3>4. ppc' \in {"init", "loop"} /\ UNCHANGED <<smail, spc, sfor>>
      BY <2>8 DEF PoolAnswered
    <3>5. Requests' = {} /\ ~Served'
      BY <3>3, <3>4 DEF Requests, Served
    <3> QED
      BY <3>2, <3>4, <3>5 DEF CallInv, AtMostOne
  <2> QED
    BY <2>3, <2>4, <2>5, <2>6, <2>7, <2>8 DEF Pool
<1>CallSupStep.
      ASSUME PoolTypes, CallInv, InOrder, Sup,
             \A w \in Workers : Live(w) => w \in srec \cup {sw}
      PROVE  CallInv'
  <2> USE <1>CallSupStep
  <2> USE DEF poolVars, dispVars, bounds
  <2>1. /\ mail \in Boxes /\ smail \in Seq(SupMessages) /\ spawned \in 0..MaxWorkers
        /\ wlife \in [Workers -> {"none", "spawned", "ready", "busy", "killed", "dead"}]
        /\ (sw # 0) = (spc = "wait")
    BY DEF PoolTypes, TypeOK, BoxTypes
  <2>2. ASSUME smail # <<>>, smail' = Tail(smail), STop.type = "EXIT"
        PROVE  \A T \in SUBSET Asks : SameIn(smail, smail', T)
    <3>1. STop \in SupMessages /\ STop \notin Asks
      BY <2>1, <2>2, SeqTypes DEF STop, Asks
    <3> QED
      BY <2>1, <2>2, <3>1, SeqIndexes DEF STop
  <2>3. ASSUME smail # <<>>, smail' = Tail(smail), STop.type # "EXIT"
        PROVE  /\ STop \in SupMessages /\ Requests # {} /\ Requests' = {} /\ AtMostOne(Requests')
               /\ \A n : Strange(n) = {} => STop = n
               /\ ppc \notin {"init", "loop"} /\ ~Served /\ Answered = {}
    <3>1. STop \in SupMessages /\ STop \in Asks
      BY <2>1, <2>3, SeqTypes DEF STop, Asks
    <3>2. AtMostOne(IndexesOf(smail, Asks))
      BY AsksAre DEF CallInv
    <3>3. IndexesOf(smail, Asks) # {} /\ IndexesOf(smail', Asks) = {}
      BY <2>1, <2>3, <3>1, <3>2, SeqIndexes DEF STop
    <3>4. Requests # {} /\ Requests' = {} /\ AtMostOne(Requests')
      BY <3>3, AsksAre DEF Requests, Asks, AtMostOne
    <3>5. \A n : Strange(n) = {} => STop = n
      <4>1. TAKE n
      <4>2. STop \in Others(n) => IndexesOf(smail, Others(n)) # {}
        BY <2>1, <2>3, SeqIndexes DEF STop
      <4> QED
        BY <2>3, <3>1, <4>2, AsksAre
    <3> QED
      BY <3>1, <3>4, <3>5 DEF CallInv
  <2>4. ASSUME NEW who, SpawnFor(who)
        PROVE  \A w \in Workers : wlife[w] # "none" => wlife'[w] # "none" /\ (Live(w)' => Live(w))
    <3>1. spawned' = spawned + 1 /\ wlife' = [wlife EXCEPT ![spawned'] = "spawned"]
      BY <2>4, Zenon DEF SpawnFor
    <3>2. TAKE w \in Workers
    <3>3. HAVE wlife[w] # "none"
    <3>4. w # spawned'
      BY <2>1, <3>1, <3>3 DEF InOrder, Workers
    <3>5. wlife'[w] = wlife[w]
      BY <2>1, <3>1, <3>4
    <3> QED
      BY <3>3, <3>5 DEF Live
  <2>5. CASE SupStart
    <3>1. smail # <<>> /\ smail' = Tail(smail) /\ STop.type = "start" /\ UNCHANGED <<mail, ppc, todo>>
      BY <2>5, Zenon DEF SupStart, SupReceives
    <3>2. /\ STop \in SupMessages /\ Requests' = {} /\ AtMostOne(Requests')
          /\ \A n : Strange(n) = {} => STop = n
          /\ ppc \notin {"init", "loop"} /\ Answered = {}
      BY <2>3, <3>1
    <3>3. ppc # "callStop"
      BY <3>1, <3>2, MessageKinds DEF CallInv
    <3>4. Answered' = {} /\ AtMostOne(Answered')
      BY <3>1, <3>2 DEF Answered, AtMostOne
    <3>5. Strange(Msg("start", 0, 0))' = {}
      BY <3>2, <1>StrangeIsAsked DEF Strange, Requests, IndexesOf, Msg
    <3> QED
      BY <3>1, <3>2, <3>3, <3>4, <3>5 DEF CallInv, AtMostOne
  <2>6. CASE SupExit
    <3>1. smail # <<>> /\ smail' = Tail(smail) /\ STop.type = "EXIT" /\ UNCHANGED <<mail, ppc, todo>>
          /\ spc = "loop"
      BY <2>6, Zenon DEF SupExit, SupReceives
    <3>2. SpawnFor("none") \/ UNCHANGED <<wlife, spawned, spc, sw, sfor>>
      BY <2>6, Zenon DEF SupExit
    <3>3. /\ ~Served /\ ~Served'
          /\ \A w \in Workers : wlife[w] # "none" => wlife'[w] # "none" /\ (Live(w)' => Live(w))
      <4>1. CASE SpawnFor("none")
        BY <2>4, <3>1, <4>1 DEF SpawnFor, Served
      <4>2. CASE UNCHANGED <<wlife, spawned, spc, sw, sfor>>
        BY <3>1, <4>2 DEF Served, Live
      <4> QED
        BY <3>2, <4>1, <4>2
    <3>4. SameIn(Pending(mail), Pending(mail'), Answers)
      BY <3>1, SameSelf
    <3>5. NoCall
      BY <2>2, <3>1, <3>3, <3>4, Zenon DEF NoCall
    <3> QED
      BY <3>5, <1>CallQuiet
  <2>7. CASE SupWaited
    <3>1. /\ spc = "wait" /\ spc' = "loop" /\ UNCHANGED <<ppc, todo, wlife>> /\ Answer
          /\ \/ \E i \in 1..Len(smail) : smail[i] = Msg("EXIT", 0, sw) /\ smail' = Without(smail, i)
             \/ smail' = smail
      BY <2>7, Zenon DEF SupWaited
    <3>2. \A T \in SUBSET Asks : SameIn(smail, smail', T)
      <4>1. ASSUME NEW i \in 1..Len(smail), smail[i] = Msg("EXIT", 0, sw), smail' = Without(smail, i),
                   NEW T \in SUBSET Asks
            PROVE  SameIn(smail, smail', T)
        <5>1. smail[i] \notin T
          BY <4>1, MessageKinds, Zenon DEF Asks
        <5> QED
          BY <2>1, <4>1, <5>1, IndexesRemove DEF SameIn
      <4> QED
        BY <3>1, <4>1, SameSelf
    <3>3. CASE sfor = "pool"
      <4>1. Served /\ ~Served' /\ Requests = {} /\ Answered = {} /\ ppc \in {"callInit", "callGet"}
        BY <3>1, <3>3 DEF Served, CallInv, PoolTypes, TypeOK
      <4>2. Msg("answer", 0, 0) \in Messages /\ Msg("answer", 0, 0) \in Answers
        BY MessageKinds DEF Answers
      <4>3. Adds(Msg("answer", 0, 0))
        BY <2>1, <3>1, <3>3, <4>2, MailSteps DEF Answer
      <4>4. AtMostOne(Answered')
        BY <2>1, <4>1, <4>2, <4>3, AsksAre, MailIndexes DEF Answered, Answers
      <4>5. Requests' = {} /\ AtMostOne(Requests')
        BY <3>2, <4>1 DEF SameIn, Requests, Asks, AtMostOne
      <4>6. Strange(Msg("start", 0, 0))' = {}
        BY <4>5 DEF Strange, Requests, IndexesOf, Msg
      <4> QED
        BY <3>1, <4>1, <4>4, <4>5, <4>6 DEF CallInv, AtMostOne
    <3>4. CASE sfor # "pool"
      <4>1. mail' = mail /\ ~Served /\ ~Served'
        BY <3>1, <3>4 DEF Answer, Served
      <4>2. NoCall
        BY <3>1, <3>2, <4>1, SameSelf DEF NoCall, Live
      <4> QED
        BY <4>2, <1>CallQuiet
    <3> QED
      BY <3>3, <3>4
  <2>8. CASE SupStop
    <3>1. /\ smail # <<>> /\ smail' = Tail(smail) /\ STop.type = "stop" /\ spc = "loop"
          /\ UNCHANGED <<ppc, todo, spc, sfor>> /\ ToPool(Msg("answer", 0, 0))
      BY <2>8, Zenon DEF SupStop, SupReceives
    <3>2. /\ STop \in SupMessages /\ Requests' = {} /\ AtMostOne(Requests')
          /\ \A n : Strange(n) = {} => STop = n
          /\ ppc \notin {"init", "loop"} /\ ~Served /\ Answered = {}
      BY <2>3, <3>1
    <3>3. ppc = "callStop"
      <4>1. STop # Msg("start", 0, 0)
        BY <3>1, MessageKinds
      <4> QED
        BY <3>2, <4>1, Zenon DEF CallInv, PoolTypes, TypeOK
    <3>4. STop.w = todo /\ todo \in Workers /\ wlife[todo] # "none"
      BY <3>2, <3>3, MessageKinds DEF CallInv
    <3>5. Msg("answer", 0, 0) \in Messages /\ Msg("answer", 0, 0) \in Answers
      BY MessageKinds DEF Answers
    <3>6. Adds(Msg("answer", 0, 0))
      BY <2>1, <3>1, <3>5, MailSteps
    <3>7. AtMostOne(Answered')
      BY <2>1, <3>2, <3>5, <3>6, AsksAre, MailIndexes DEF Answered, Answers
    <3>8. wlife'[todo] # "none" /\ wlife'[todo] \notin {"spawned", "ready", "busy"}
      <4>1. CASE todo \in srec
        BY <2>1, <2>8, <3>4, <4>1 DEF SupStop
      <4>2. CASE todo \notin srec
        <5>1. wlife' = wlife /\ sw = 0 /\ todo # 0
          BY <2>1, <2>8, <3>1, <3>4, <4>2, MessageKinds DEF SupStop
        <5> QED
          BY <3>4, <4>2, <5>1 DEF Live
      <4> QED
        BY <4>1, <4>2
    <3>9. \A n : Strange(n)' = {}
      BY <3>2 DEF Strange, Requests, IndexesOf
    <3>10. ~Served'
      BY <3>1 DEF Served
    <3>11. Strange(Msg("stop", 0, todo))' = {}
      BY <3>1, <3>9, Zenon DEF Msg, Strange
    <3> QED
      BY <3>1, <3>2, <3>3, <3>4, <3>7, <3>8, <3>10, <3>11 DEF CallInv, AtMostOne, Live
  <2> QED
    BY <2>5, <2>6, <2>7, <2>8 DEF Sup
<1>CallOtherStep.
      ASSUME PoolTypes, CallInv,
             \/ Dispatcher \/ Accept \/ NewDisp \/ UNCHANGED vars
             \/ \E w \in Workers : Worker(w) \/ on_message(w) \/ LastSlice(w) \/ Die(w) \/ AskStop(w)
      PROVE  CallInv'
  <2> USE <1>CallOtherStep
  <2> USE DEF poolVars, supVars, bounds
  <2>1. /\ mail \in Boxes /\ smail \in Seq(SupMessages) /\ disp \in Disps
        /\ wlife \in [Workers -> {"none", "spawned", "ready", "busy", "killed", "dead"}]
    BY DEF PoolTypes, TypeOK, BoxTypes
  <2>2. ASSUME UNCHANGED <<ppc, todo, spc, sfor>>,
               SameIn(Pending(mail), Pending(mail'), Answers),
               \A T \in SUBSET Asks : SameIn(smail, smail', T),
               \/ wlife' = wlife
               \/ \E w \in Workers, l \in {"spawned", "ready", "busy"} :
                     Live(w) /\ wlife' = [wlife EXCEPT ![w] = l]
               \/ \E w \in Workers : wlife[w] # "none" /\ wlife' = [wlife EXCEPT ![w] = "dead"]
        PROVE  CallInv'
    <3>1. \A v \in Workers : wlife[v] # "none" => wlife'[v] # "none" /\ (Live(v)' => Live(v))
      <4>1. TAKE v \in Workers
      <4>2. CASE wlife' = wlife
        BY <4>2 DEF Live
      <4>3. ASSUME NEW w \in Workers, NEW l \in {"spawned", "ready", "busy"},
                   Live(w), wlife' = [wlife EXCEPT ![w] = l]
            PROVE  wlife[v] # "none" => wlife'[v] # "none" /\ (Live(v)' => Live(v))
        BY <2>1, <4>3 DEF Live
      <4>4. ASSUME NEW w \in Workers, wlife' = [wlife EXCEPT ![w] = "dead"]
            PROVE  wlife[v] # "none" => wlife'[v] # "none" /\ (Live(v)' => Live(v))
        BY <2>1, <4>4 DEF Live
      <4> QED
        BY <2>2, <4>2, <4>3, <4>4
    <3>2. NoCall
      BY <2>2, <3>1 DEF NoCall, Served
    <3> QED
      BY <3>2, <1>CallQuiet
  <2>3. /\ mail' = mail => SameIn(Pending(mail), Pending(mail'), Answers)
        /\ smail' = smail => \A T \in SUBSET Asks : SameIn(smail, smail', T)
    BY SameSelf
  <2>4. ASSUME NEW m \in Messages, ToPool(m), m.type # "answer"
        PROVE  SameIn(Pending(mail), Pending(mail'), Answers)
    BY <2>1, <2>4, <1>SameMail
  <2>5. CASE Dispatcher \/ NewDisp \/ UNCHANGED vars
    <3>1. UNCHANGED <<ppc, todo, spc, sfor, mail, smail, wlife>>
      BY <2>5, Zenon DEF Dispatcher, GotWorker, TaskAdded, NewDisp, vars, boxes
    <3> QED
      BY <2>2, <2>3, <3>1
  <2>6. CASE Accept
    <3>1. UNCHANGED <<ppc, todo, spc, sfor, smail, wlife>> /\ ToPool(Msg("get", disp, 0))
      BY <2>6, Zenon DEF Accept
    <3>2. SameIn(Pending(mail), Pending(mail'), Answers)
      <4>1. Msg("get", disp, 0) \in Messages /\ Msg("get", disp, 0).type # "answer"
        BY <2>1, MessageKinds
      <4> QED
        BY <2>4, <3>1, <4>1, Zenon
    <3> QED
      BY <2>2, <2>3, <3>1, <3>2
  <2>7. ASSUME NEW w \in Workers, on_init(w) \/ on_message(w) \/ LastSlice(w)
        PROVE  CallInv'
    <3>1. /\ UNCHANGED <<ppc, todo, spc, sfor, smail>> /\ ToPool(Msg("put", w, w))
          /\ \/ wlife[w] \in {"spawned", "busy"} /\ wlife' = [wlife EXCEPT ![w] = "ready"]
             \/ wlife[w] = "killed" /\ wlife' = [wlife EXCEPT ![w] = "dead"]
      BY <2>7 DEF on_init, on_message, LastSlice
    <3>2. SameIn(Pending(mail), Pending(mail'), Answers)
      <4>1. Msg("put", w, w) \in Messages /\ Msg("put", w, w).type # "answer"
        BY MessageKinds
      <4> QED
        BY <2>4, <3>1, <4>1, Zenon
    <3>3. \/ \E l \in {"spawned", "ready", "busy"} : Live(w) /\ wlife' = [wlife EXCEPT ![w] = l]
          \/ wlife[w] # "none" /\ wlife' = [wlife EXCEPT ![w] = "dead"]
      BY <3>1 DEF Live
    <3> QED
      BY <2>2, <2>3, <3>1, <3>2, <3>3
  <2>8. ASSUME NEW w \in Workers, add_task(w)
        PROVE  CallInv'
    <3>1. /\ UNCHANGED <<ppc, todo, spc, sfor, smail, mail>> /\ wlife[w] = "ready"
          /\ \/ wlife' = [wlife EXCEPT ![w] = "busy"]
             \/ wlife' = [wlife EXCEPT ![w] = "spawned"]
      BY <2>8, Zenon DEF add_task
    <3>2. \E l \in {"spawned", "ready", "busy"} : Live(w) /\ wlife' = [wlife EXCEPT ![w] = l]
      BY <3>1 DEF Live
    <3> QED
      BY <2>2, <2>3, <3>1, <3>2, Zenon
  <2>9. ASSUME NEW w \in Workers, Die(w)
        PROVE  CallInv'
    <3>1. /\ UNCHANGED <<ppc, todo, spc, sfor, mail>> /\ Live(w)
          /\ wlife' = [wlife EXCEPT ![w] = "dead"] /\ smail' = Append(smail, Msg("EXIT", 0, w))
      BY <2>9, Zenon DEF Die, ToSup
    <3>2. Msg("EXIT", 0, w) \in SupMessages /\ Msg("EXIT", 0, w) \notin Asks
      BY MessageKinds DEF Asks
    <3>3. \A T \in SUBSET Asks : SameIn(smail, smail', T)
      BY <2>1, <3>1, <3>2, SeqIndexes, Zenon
    <3>4. wlife[w] # "none"
      BY <3>1 DEF Live
    <3> QED
      BY <2>2, <2>3, <3>1, <3>3, <3>4, Zenon
  <2>10. ASSUME NEW w \in Workers, AskStop(w)
         PROVE  CallInv'
    <3>1. UNCHANGED <<ppc, todo, spc, sfor, smail, wlife>> /\ ToPool(Msg("stop", 0, w))
      BY <2>10, Zenon DEF AskStop
    <3>2. SameIn(Pending(mail), Pending(mail'), Answers)
      <4>1. Msg("stop", 0, w) \in Messages /\ Msg("stop", 0, w).type # "answer"
        BY MessageKinds
      <4> QED
        BY <2>4, <3>1, <4>1, Zenon
    <3> QED
      BY <2>2, <2>3, <3>1, <3>2
  <2> QED
    BY <2>5, <2>6, <2>7, <2>8, <2>9, <2>10 DEF Worker
<1>1. SUFFICES ASSUME PoolInv, [Next]_vars PROVE CallInv'
  OBVIOUS
<1>2. PoolTypes /\ CallInv /\ \A w \in Workers : WorkerOf(w)
  BY <1>1 DEF PoolInv
<1>4. /\ InOrder
      /\ \A w \in Workers : wlife[w] = "none" => procs[w] = "none"
      /\ \A w \in Workers : Live(w) => w \in srec \cup {sw}
  BY <1>2, Zenon DEF WorkerOf, KnownOf, InOrder
<1>5. \/ Pool \/ Sup \/ Dispatcher \/ Accept \/ NewDisp \/ UNCHANGED vars
      \/ \E v \in Workers : Worker(v) \/ on_message(v) \/ LastSlice(v) \/ Die(v) \/ AskStop(v)
  BY <1>1, Zenon DEF Next
<1> QED
  BY <1>2, <1>4, <1>5, <1>CallPoolStep, <1>CallSupStep, <1>CallOtherStep, Zenon

-----------------------------------------------------------------------------
(* Steps that move a worker *)

-----------------------------------------------------------------------------
(* The invariant *)

LEMMA InitInv == Init => PoolInv
<1>1. SUFFICES ASSUME Init PROVE PoolInv
  OBVIOUS
<1>2. PoolTypes
  BY <1>1, InitTypes
<1>3. /\ dataq = <<>> /\ smail = <<>> /\ ppc = "init" /\ spc = "loop" /\ spawned = 0
      /\ procs = [w \in Workers |-> "none"] /\ wlife = [w \in Workers |-> "none"]
      /\ wmail = [w \in Workers |-> <<>>] /\ dmail = [d \in Disps |-> <<>>]
  BY <1>1 DEF Init
<1>4. Pending(mail) = <<>>
  <2>1. mail.cache = <<>> /\ mail.cacheBox = <<>> /\ mail.box = <<>>
    BY <1>1 DEF Init, NewBox
  <2> QED
    BY <2>1 DEF Pending
<1>5. \A T : IndexesOf(<<>>, T) = {}
  <2>1. 1..Len(<<>>) = {}
    OBVIOUS
  <2> QED
    BY <2>1, Zenon DEF IndexesOf
<1>6. AtMostOne({})
  BY DEF AtMostOne
<1>7. CallInv
  <2>1. Requests = {} /\ Answered = {} /\ ~Served
    BY <1>3, <1>4, <1>5 DEF Requests, Answered, Served
  <2> QED
    BY <1>3, <1>6, <2>1 DEF CallInv
<1>8. ASSUME NEW w \in Workers PROVE WorkerOf(w)
  <2>1. wlife[w] = "none" /\ procs[w] = "none" /\ wmail[w] = <<>> /\ Len(wmail[w]) <= 1
    BY <1>3
  <2>2. QueuedAt(w) = {} /\ OfferedAt(w) = {} /\ \A d \in Disps : GivenAt(w, d) = {}
    BY <1>3, <1>4, <1>5 DEF QueuedAt, OfferedAt, GivenAt
  <2>3. PlaceOf(w)
    BY <1>6, <2>1, <2>2, Zenon DEF PlaceOf, Queued, Offered, Given, GivenTo, Tasked, Working, Live
  <2>4. w > spawned
    BY <1>3 DEF Workers
  <2>5. KnownOf(w)
    BY <1>3, <1>5, <2>1, <2>4 DEF KnownOf, Live
  <2> QED
    BY <2>3, <2>5 DEF WorkerOf
<1> QED
  BY <1>2, <1>7, <1>8 DEF PoolInv

(* Every step keeps every worker in its one place.                         *)
LEMMA WorkersStep == PoolInv /\ [Next]_vars => \A w \in Workers : WorkerOf(w)'
<1>PlaceQuiet.
      ASSUME NEW w \in Workers, PlaceOf(w), StaysPut(w)
      PROVE  PlaceOf(w)'
  <2> USE <1>PlaceQuiet
  <2>1. /\ AtMostOne(QueuedAt(w)) => AtMostOne(QueuedAt(w)')
        /\ AtMostOne(OfferedAt(w)) => AtMostOne(OfferedAt(w)')
        /\ Queued(w)' <=> Queued(w)
        /\ Offered(w)' <=> Offered(w)
    BY Zenon DEF StaysPut, SameIn, QueuedAt, OfferedAt, Queued, Offered, PutsOf
  <2>2. \A d \in Disps : /\ AtMostOne(GivenAt(w, d)) => AtMostOne(GivenAt(w, d)')
                         /\ GivenTo(w, d)' <=> GivenTo(w, d)
    BY Zenon DEF StaysPut, SameIn, GivenAt, GivenTo, HandedOver
  <2>3. Given(w)' <=> Given(w)
    BY <2>2, Zenon DEF Given
  <2>4. /\ Tasked(w)' <=> Tasked(w)
        /\ Working(w)' <=> Working(w)
        /\ Live(w)' <=> Live(w)
        /\ Len(wmail'[w]) = Len(wmail[w]) /\ wlife'[w] = wlife[w]
    BY Zenon DEF StaysPut, Tasked, Working, Live
  <2>5. AtMostOne(QueuedAt(w))' /\ AtMostOne(OfferedAt(w))'
    BY <2>1 DEF PlaceOf, AtMostOne
  <2>6. \A d \in Disps : AtMostOne(GivenAt(w, d))'
    BY <2>2 DEF PlaceOf, AtMostOne
  <2> QED
    BY <2>1, <2>2, <2>3, <2>4, <2>5, <2>6, Zenon DEF PlaceOf
<1>KnownQuiet.
      ASSUME NEW w \in Workers, KnownOf(w), StillKnown(w)
      PROVE  KnownOf(w)'
  BY <1>KnownQuiet, Zenon DEF KnownOf, StillKnown, SameIn, Live, Msg
<1>MailPuts. ASSUME PoolTypes, NEW w \in Workers
             PROVE  /\ mail' = mail => SameIn(Pending(mail), Pending(mail'), PutsOf(w))
                    /\ Available(mail) /\ mail' = SetAside(mail) => SameIn(Pending(mail), Pending(mail'), PutsOf(w))
                    /\ Available(mail) /\ mail' = TakeFirst(mail) /\ ~(Top.type = "put" /\ Top.w = w) =>
                          SameIn(Pending(mail), Pending(mail'), PutsOf(w))
                    /\ Available(mail) /\ mail' = TakeFirst(mail) /\ Top.type = "put" /\ Top.w = w =>
                          Offered(w) /\ (AtMostOne(OfferedAt(w)) => OfferedAt(w)' = {})
                    /\ \A m \in Messages : ToPool(m) /\ ~(m.type = "put" /\ m.w = w) =>
                          SameIn(Pending(mail), Pending(mail'), PutsOf(w))
                    /\ ToPool(Msg("put", w, w)) =>
                          Offered(w)' /\ (~Offered(w) => AtMostOne(OfferedAt(w)'))
  <2> USE <1>MailPuts
  <2>1. mail \in Boxes
    BY DEF PoolTypes, BoxTypes
  <2>2. \A m \in Messages : m \in PutsOf(w) <=> m.type = "put" /\ m.w = w
    BY DEF PutsOf
  <2>3. ASSUME Available(mail), mail' = TakeFirst(mail), ~(Top.type = "put" /\ Top.w = w)
        PROVE  SameIn(Pending(mail), Pending(mail'), PutsOf(w))
    <3>1. Takes(Top) /\ Top \in Messages
      BY <2>1, <2>3, MailSteps, Zenon DEF Takes
    <3> QED
      BY <2>1, <2>2, <2>3, <3>1, MailIndexes
  <2>4. ASSUME Available(mail), mail' = TakeFirst(mail), Top.type = "put", Top.w = w
        PROVE  Offered(w) /\ (AtMostOne(OfferedAt(w)) => OfferedAt(w)' = {})
    <3>1. Takes(Top) /\ Top \in Messages
      BY <2>1, <2>4, MailSteps, Zenon DEF Takes
    <3>2. /\ IndexesOf(Pending(mail), PutsOf(w)) # {}
          /\ AtMostOne(IndexesOf(Pending(mail), PutsOf(w))) => IndexesOf(Pending(mail'), PutsOf(w)) = {}
      BY <2>1, <2>2, <2>4, <3>1, MailIndexes
    <3> QED
      BY <3>2 DEF Offered, OfferedAt, PutsOf
  <2>5. ASSUME NEW m \in Messages, ToPool(m), ~(m.type = "put" /\ m.w = w)
        PROVE  SameIn(Pending(mail), Pending(mail'), PutsOf(w))
    BY <2>1, <2>2, <2>5, MailSteps, MailIndexes
  <2>6. ASSUME ToPool(Msg("put", w, w))
        PROVE  Offered(w)' /\ (~Offered(w) => AtMostOne(OfferedAt(w)'))
    <3>1. Msg("put", w, w) \in Messages /\ Msg("put", w, w) \in PutsOf(w) /\ Adds(Msg("put", w, w))
      BY <2>1, <2>2, <2>6, MessageKinds, MailSteps
    <3>2. /\ IndexesOf(Pending(mail'), PutsOf(w)) # {}
          /\ IndexesOf(Pending(mail), PutsOf(w)) = {} => AtMostOne(IndexesOf(Pending(mail'), PutsOf(w)))
      BY <2>1, <3>1, MailIndexes
    <3> QED
      BY <3>2, Zenon DEF Offered, OfferedAt, PutsOf
  <2>7. mail' = mail \/ (Available(mail) /\ mail' = SetAside(mail)) =>
           SameIn(Pending(mail), Pending(mail'), PutsOf(w))
    BY <2>1, MailSteps, MailIndexes
  <2> QED
    BY <2>3, <2>4, <2>5, <2>6, <2>7, Zenon
<1>MailOthers.
      ASSUME PoolTypes, NEW w \in Workers
      PROVE  /\ ToPool(Msg("answer", 0, 0)) => SameIn(Pending(mail), Pending(mail'), PutsOf(w))
             /\ \A d \in Disps : ToPool(Msg("get", d, 0)) =>
                   SameIn(Pending(mail), Pending(mail'), PutsOf(w))
             /\ \A v \in Workers : ToPool(Msg("stop", 0, v)) =>
                   SameIn(Pending(mail), Pending(mail'), PutsOf(w))
             /\ \A v \in Workers : v # w /\ ToPool(Msg("put", v, v)) =>
                   SameIn(Pending(mail), Pending(mail'), PutsOf(w))
  <2> USE <1>MailOthers
  <2>1. \A m \in Messages : ToPool(m) /\ ~(m.type = "put" /\ m.w = w) =>
           SameIn(Pending(mail), Pending(mail'), PutsOf(w))
    BY <1>MailPuts, Zenon
  <2>2. /\ Msg("answer", 0, 0) \in Messages /\ Msg("answer", 0, 0).type = "answer"
        /\ \A d \in Disps : Msg("get", d, 0) \in Messages /\ Msg("get", d, 0).type = "get"
        /\ \A v \in Workers : Msg("stop", 0, v) \in Messages /\ Msg("stop", 0, v).type = "stop"
        /\ \A v \in Workers : Msg("put", v, v) \in Messages /\ Msg("put", v, v).w = v
    <3>1. /\ Msg("answer", 0, 0) \in Messages
          /\ \A d \in Disps : Msg("get", d, 0) \in Messages
          /\ \A v \in Workers : Msg("stop", 0, v) \in Messages /\ Msg("put", v, v) \in Messages
      BY MessageKinds, Zenon
    <3> QED
      BY <3>1, Zenon DEF Msg
  <2>3. "answer" # "put" /\ "get" # "put" /\ "stop" # "put"
    OBVIOUS
  <2> QED
    BY <2>1, <2>2, <2>3, Zenon
<1>DispGives. ASSUME PoolTypes, NEW w \in Workers, NEW e \in Disps, NEW m \in DispMessages, ToDisp(e, m)
              PROVE  /\ \A d \in Disps : d # e \/ m.from # 0 \/ m.w # w =>
                           SameIn(dmail[d], dmail'[d], HandedOver(w))
                     /\ m.from = 0 /\ m.w = w =>
                           GivenTo(w, e)' /\ (~GivenTo(w, e) => AtMostOne(GivenAt(w, e)'))
  <2> USE <1>DispGives
  <2>1. /\ dmail \in [Disps -> Seq(DispMessages)] /\ dmail' = [dmail EXCEPT ![e] = Append(@, m)]
        /\ m \in HandedOver(w) <=> m.from = 0 /\ m.w = w
    BY DEF PoolTypes, BoxTypes, ToDisp, HandedOver
  <2>2. dmail[e] \in Seq(DispMessages) /\ dmail'[e] = Append(dmail[e], m)
        /\ \A d \in Disps : d # e => dmail'[d] = dmail[d]
    BY <2>1
  <2>3. /\ m \notin HandedOver(w) => SameIn(dmail[e], dmail'[e], HandedOver(w))
        /\ m \in HandedOver(w) => IndexesOf(dmail'[e], HandedOver(w)) # {}
        /\ m \in HandedOver(w) /\ IndexesOf(dmail[e], HandedOver(w)) = {} =>
              AtMostOne(IndexesOf(dmail'[e], HandedOver(w)))
    <3>1. /\ m \notin HandedOver(w) => SameIn(dmail[e], Append(dmail[e], m), HandedOver(w))
          /\ m \in HandedOver(w) =>
                /\ IndexesOf(Append(dmail[e], m), HandedOver(w)) # {}
                /\ IndexesOf(dmail[e], HandedOver(w)) = {} =>
                      AtMostOne(IndexesOf(Append(dmail[e], m), HandedOver(w)))
      <4>1. \A n \in DispMessages : n \notin HandedOver(w) =>
               SameIn(dmail[e], Append(dmail[e], n), HandedOver(w))
        BY <2>2, SeqIndexes, Zenon
      <4>2. \A n \in DispMessages : n \in HandedOver(w) =>
               IndexesOf(Append(dmail[e], n), HandedOver(w)) # {}
        BY <2>2, IndexesGain, Zenon
      <4>3. \A n \in DispMessages : n \in HandedOver(w) /\ IndexesOf(dmail[e], HandedOver(w)) = {} =>
               AtMostOne(IndexesOf(Append(dmail[e], n), HandedOver(w)))
        BY <2>2, IndexesGainOne, Zenon
      <4> QED
        BY <4>1, <4>2, <4>3, Zenon
    <3> QED
      BY <2>2, <3>1, Zenon
  <2>4. \A d \in Disps : d # e => SameIn(dmail[d], dmail'[d], HandedOver(w))
    BY <2>2, SameSelf
  <2>5. m.from = 0 /\ m.w = w => GivenTo(w, e)' /\ (~GivenTo(w, e) => AtMostOne(GivenAt(w, e)'))
    BY <2>1, <2>3, Zenon DEF GivenTo, GivenAt, HandedOver
  <2> QED
    BY <2>1, <2>3, <2>4, <2>5
<1>DispTakes. ASSUME PoolTypes, NEW w \in Workers, NEW e \in Disps, dmail[e] # <<>>,
                     dmail' = [dmail EXCEPT ![e] = Tail(@)]
              PROVE  /\ Head(dmail[e]) \in DispMessages
                     /\ \A d \in Disps : d # e \/ Head(dmail[e]).from # 0 \/ Head(dmail[e]).w # w =>
                           SameIn(dmail[d], dmail'[d], HandedOver(w))
                     /\ Head(dmail[e]).from = 0 /\ Head(dmail[e]).w = w =>
                           GivenTo(w, e) /\ (AtMostOne(GivenAt(w, e)) => GivenAt(w, e)' = {})
  <2> USE <1>DispTakes
  <2> DEFINE m == Head(dmail[e])
  <2>1. dmail \in [Disps -> Seq(DispMessages)]
    BY DEF PoolTypes, BoxTypes
  <2>2. dmail[e] \in Seq(DispMessages) /\ dmail'[e] = Tail(dmail[e])
        /\ \A d \in Disps : d # e => dmail'[d] = dmail[d]
    BY <2>1
  <2>3. m \in DispMessages
    BY <2>2, SeqTypes
  <2>4. m \in HandedOver(w) <=> m.from = 0 /\ m.w = w
    BY <2>3 DEF HandedOver
  <2>5. /\ m \notin HandedOver(w) => SameIn(dmail[e], dmail'[e], HandedOver(w))
        /\ m \in HandedOver(w) => IndexesOf(dmail[e], HandedOver(w)) # {}
        /\ m \in HandedOver(w) /\ AtMostOne(IndexesOf(dmail[e], HandedOver(w))) =>
              IndexesOf(dmail'[e], HandedOver(w)) = {}
    BY <2>2, SeqIndexes
  <2>6. \A d \in Disps : d # e => SameIn(dmail[d], dmail'[d], HandedOver(w))
    BY <2>2, SameSelf
  <2>7. m.from = 0 /\ m.w = w => GivenTo(w, e) /\ (AtMostOne(GivenAt(w, e)) => GivenAt(w, e)' = {})
    BY <2>4, <2>5, Zenon DEF GivenTo, GivenAt, HandedOver
  <2> QED
    BY <2>3, <2>4, <2>5, <2>6, <2>7, Zenon
(* A worker that is nowhere, or in a single place, after the step.         *)
<1>Placed. ASSUME NEW w \in Workers,
                  AtMostOne(QueuedAt(w)'), AtMostOne(OfferedAt(w)'), Len(wmail'[w]) <= 1,
                  \A d \in Disps : AtMostOne(GivenAt(w, d)'),
                  \A d, e \in Disps : GivenTo(w, d)' /\ GivenTo(w, e)' => d = e,
                  Queued(w)' => ~Offered(w)' /\ ~Given(w)' /\ ~Tasked(w)' /\ ~Working(w)',
                  Offered(w)' => ~Given(w)' /\ ~Tasked(w)' /\ ~Working(w)',
                  Given(w)' => ~Tasked(w)' /\ ~Working(w)',
                  Tasked(w)' => ~Working(w)',
                  Live(w)' => Queued(w)' \/ Offered(w)' \/ Given(w)' \/ Tasked(w)' \/ Working(w)',
                  wlife'[w] \in {"none", "killed"} =>
                     ~Queued(w)' /\ ~Offered(w)' /\ ~Given(w)' /\ ~Tasked(w)' /\ ~Working(w)'
           PROVE  PlaceOf(w)'
  BY <1>Placed DEF PlaceOf, AtMostOne
<1>GetProcessStep.
      ASSUME PoolTypes, NEW w \in Workers, WorkerOf(w), get_process
      PROVE  WorkerOf(w)'
  <2> USE <1>GetProcessStep
  <2> USE DEF supVars, dispVars, bounds
  <2>1. /\ dataq \in Seq(Workers) /\ procs \in [Workers -> {"none", "idle", "used"}]
        /\ wlife \in [Workers -> {"none", "spawned", "ready", "busy", "killed", "dead"}]
        /\ mail \in Boxes
    BY DEF PoolTypes, TypeOK, BoxTypes
  <2>2. /\ Available(mail) /\ mail' = TakeFirst(mail) /\ Top.type = "get"
        /\ dataq # <<>> /\ dataq' = Tail(dataq)
        /\ UNCHANGED <<smail, wmail, wlife, spawned, srec, sw>>
    BY Zenon DEF get_process, Receives
  <2> DEFINE v == Head(dataq)
             r == Msg("reply", 0, v)
  <2>3. v \in Workers /\ Top.from \in Disps /\ r \in DispMessages /\ r.from = 0 /\ r.w = v
    <3>1. v \in Workers
      BY <2>1, <2>2, SeqTypes
    <3>2. Top \in Messages
      BY <2>1, <2>2, MailSteps, Zenon DEF Takes
    <3>3. Top.from \in Disps
      BY <2>2, <3>2, MessageKinds
    <3>4. r \in DispMessages /\ r.from = 0 /\ r.w = v
      BY <3>1, ReplyKinds
    <3> QED
      BY <3>1, <3>3, <3>4
  <2>e. PICK e \in Disps : e = Top.from
    BY <2>3
  <2>4. /\ procs[v] = "none" => UNCHANGED <<procs, dmail>>
        /\ procs[v] # "none" => procs' = [procs EXCEPT ![v] = "used"] /\ ToDisp(e, r)
    BY <2>e, Zenon DEF get_process
  <2> HIDE DEF v, r
  <2>5. /\ SameIn(Pending(mail), Pending(mail'), PutsOf(w))
        /\ SameIn(smail, smail', {Msg("EXIT", 0, w)})
    BY <2>2, <1>MailPuts, SameSelf
  <2>6. CASE w # v
    <3>1. SameIn(dataq, dataq', {w})
      BY <2>1, <2>2, <2>6, SeqIndexes DEF v
    <3>2. procs'[w] = procs[w] /\ \A d \in Disps : SameIn(dmail[d], dmail'[d], HandedOver(w))
      <4>1. CASE procs[v] = "none"
        BY <2>4, <4>1, SameSelf
      <4>2. CASE procs[v] # "none"
        BY <2>1, <2>3, <2>4, <2>6, <4>2, <1>DispGives, Zenon
      <4> QED
        BY <4>1, <4>2
    <3>3. StaysPut(w) /\ StillKnown(w)
      BY <2>2, <2>5, <3>1, <3>2, Zenon DEF StaysPut, StillKnown, WorkerOf, KnownOf
    <3> QED
      BY <3>3, <1>PlaceQuiet, <1>KnownQuiet DEF WorkerOf
  <2>7. CASE w = v
    <3>1. Queued(w) /\ (AtMostOne(QueuedAt(w)) => QueuedAt(w)' = {})
      <4>1. /\ IndexesOf(dataq, {w}) # {}
            /\ AtMostOne(IndexesOf(dataq, {w})) => IndexesOf(dataq', {w}) = {}
        BY <2>1, <2>2, <2>7, SeqIndexes, Zenon DEF v
      <4> QED
        BY <4>1 DEF Queued, QueuedAt
    <3>2. /\ QueuedAt(w)' = {} /\ ~Queued(w)'
          /\ ~Offered(w) /\ ~Tasked(w) /\ ~Working(w) /\ wlife[w] \notin {"none", "killed"}
          /\ \A d \in Disps : ~GivenTo(w, d)
      BY <3>1 DEF WorkerOf, PlaceOf, Given, Queued
    <3>3. OfferedAt(w)' = {} /\ ~Offered(w)'
      BY <2>5, <3>2, Zenon DEF SameIn, Offered, OfferedAt, PutsOf
    <3>4. /\ wmail'[w] = <<>> /\ Len(wmail'[w]) <= 1 /\ ~Tasked(w)' /\ ~Working(w)'
          /\ wlife'[w] \notin {"none", "killed"} /\ (Live(w)' <=> Live(w))
      BY <2>2, <3>2, EmptyIsShort, Zenon DEF Tasked, Working, Live
    <3>5. AtMostOne({})
      BY DEF AtMostOne
    <3>6. KnownOf(w)'
      <4>1. CASE procs[v] = "none"
        BY <2>2, <2>4, <3>2, <4>1, Zenon DEF WorkerOf, KnownOf, Live, QueuedAt, Msg
      <4>2. CASE procs[v] # "none"
        <5>1. procs'[w] = "used"
          BY <2>1, <2>4, <2>7, <4>2
        <5> QED
          BY <2>2, <3>2, <5>1, Zenon DEF WorkerOf, KnownOf, Live, Msg
      <4> QED
        BY <4>1, <4>2
    <3>7. PlaceOf(w)'
      <4>1. CASE procs[v] = "none"
        <5>1. ~Live(w)
          BY <2>7, <3>1, <4>1 DEF WorkerOf, KnownOf, Queued, QueuedAt
        <5>2. \A d \in Disps : GivenAt(w, d)' = {}
          BY <2>4, <3>2, <4>1 DEF GivenTo, GivenAt
        <5>3. ~Given(w)' /\ \A d \in Disps : ~GivenTo(w, d)'
          BY <5>2 DEF Given, GivenTo
        <5> QED
          BY <3>2, <3>3, <3>4, <3>5, <5>1, <5>2, <5>3, <1>Placed, Zenon
      <4>2. CASE procs[v] # "none"
        <5>1. /\ GivenTo(w, e)' /\ AtMostOne(GivenAt(w, e)')
              /\ \A d \in Disps : d # e => SameIn(dmail[d], dmail'[d], HandedOver(w))
          BY <2>3, <2>4, <2>7, <3>2, <4>2, <1>DispGives, Zenon
        <5>2. \A d \in Disps : d # e => GivenAt(w, d)' = {} /\ ~GivenTo(w, d)'
          BY <3>2, <5>1, Zenon DEF SameIn, GivenTo, GivenAt, HandedOver
        <5>3. Given(w)'
          BY <5>1, Zenon DEF Given
        <5> QED
          BY <3>2, <3>3, <3>4, <3>5, <5>1, <5>2, <5>3, <1>Placed, Zenon
      <4> QED
        BY <4>1, <4>2
    <3> QED
      BY <3>6, <3>7 DEF WorkerOf
  <2> QED
    BY <2>6, <2>7
<1>PutStep. ASSUME PoolTypes, NEW w \in Workers, WorkerOf(w), put
            PROVE  WorkerOf(w)'
  <2> USE <1>PutStep
  <2> USE DEF supVars, dispVars, bounds
  <2>1. /\ dataq \in Seq(Workers) /\ procs \in [Workers -> {"none", "idle", "used"}]
        /\ customerq \in Seq(Disps) /\ dmail \in [Disps -> Seq(DispMessages)] /\ mail \in Boxes
    BY DEF PoolTypes, TypeOK, BoxTypes
  <2>2. /\ Available(mail) /\ mail' = TakeFirst(mail) /\ Top.type = "put"
        /\ UNCHANGED <<smail, wmail, wlife, spawned, srec, sw>>
    BY Zenon DEF put, Receives
  <2>3. PICK v \in Workers : v = Top.w
    <3>1. Top \in Messages
      BY <2>1, <2>2, MailSteps, Zenon DEF Takes
    <3>2. Top.w \in Workers
      BY <2>2, <3>1, MessageKinds
    <3> QED
      BY <3>2
  <2>4. /\ procs' = [procs EXCEPT ![v] = "idle"]
        /\ customerq = <<>> => dataq' = Append(dataq, v) /\ dmail' = dmail
        /\ customerq # <<>> => ToDisp(Head(customerq), Msg("reply", 0, v)) /\ dataq' = dataq
    BY <2>3, Zenon DEF put
  <2>5. customerq # <<>> => \E e \in Disps : e = Head(customerq)
    BY <2>1, SeqTypes
  <2>6. Msg("reply", 0, v) \in DispMessages /\ Msg("reply", 0, v).from = 0 /\ Msg("reply", 0, v).w = v
    BY ReplyKinds
  <2>7. SameIn(smail, smail', {Msg("EXIT", 0, w)})
    BY <2>2, SameSelf
  <2>8. CASE w # v
    <3>1. SameIn(Pending(mail), Pending(mail'), PutsOf(w))
      BY <2>2, <2>3, <2>8, <1>MailPuts, Zenon
    <3>2. SameIn(dataq, dataq', {w}) /\ \A d \in Disps : SameIn(dmail[d], dmail'[d], HandedOver(w))
      <4>1. CASE customerq = <<>>
        <5>1. dataq' = Append(dataq, v) /\ dmail' = dmail /\ v \notin {w}
          BY <2>4, <2>8, <4>1
        <5>2. SameIn(dataq, Append(dataq, v), {w})
          BY <2>1, <5>1, SeqIndexes, Zenon
        <5> QED
          BY <5>1, <5>2, SameSelf
      <4>2. CASE customerq # <<>>
        <5>1. PICK e \in Disps : e = Head(customerq)
          BY <2>5, <4>2
        <5>2. ToDisp(e, Msg("reply", 0, v))
          BY <2>4, <4>2, <5>1
        <5> QED
          BY <2>4, <2>6, <2>8, <4>2, <5>2, <1>DispGives, SameSelf
      <4> QED
        BY <4>1, <4>2, Zenon
    <3>3. procs'[w] = procs[w]
      BY <2>1, <2>4, <2>8
    <3>4. StaysPut(w) /\ StillKnown(w)
      BY <2>2, <2>7, <3>1, <3>2, <3>3, Zenon DEF StaysPut, StillKnown, WorkerOf, KnownOf
    <3> QED
      BY <3>4, <1>PlaceQuiet, <1>KnownQuiet DEF WorkerOf
  <2>9. CASE w = v
    <3>1. Offered(w) /\ (AtMostOne(OfferedAt(w)) => OfferedAt(w)' = {})
      BY <2>2, <2>3, <2>9, <1>MailPuts, Zenon
    <3>2. /\ OfferedAt(w)' = {} /\ ~Offered(w)' /\ QueuedAt(w) = {}
          /\ ~Tasked(w) /\ ~Working(w) /\ wlife[w] \notin {"none", "killed"}
          /\ \A d \in Disps : ~GivenTo(w, d)
      BY <3>1 DEF WorkerOf, PlaceOf, Given, Queued, Offered
    <3>3. /\ wmail'[w] = <<>> /\ Len(wmail'[w]) <= 1 /\ ~Tasked(w)' /\ ~Working(w)'
          /\ wlife'[w] \notin {"none", "killed"} /\ (Live(w)' <=> Live(w)) /\ procs'[w] = "idle"
      BY <2>1, <2>2, <2>4, <2>9, <3>2, EmptyIsShort, Zenon DEF Tasked, Working, Live
    <3>4. AtMostOne({})
      BY DEF AtMostOne
    <3>5. KnownOf(w)'
      BY <2>2, <3>2, <3>3, Zenon DEF WorkerOf, KnownOf, Live, Msg
    <3>6. PlaceOf(w)'
      <4>1. CASE customerq = <<>>
        <5>1. /\ IndexesOf(dataq', {w}) # {}
              /\ IndexesOf(dataq, {w}) = {} => AtMostOne(IndexesOf(dataq', {w}))
          <6>1. dataq' = Append(dataq, w) /\ w \in {w}
            BY <2>4, <2>9, <4>1
          <6>2. dataq \in Seq(Workers) /\ w \in Workers
            BY <2>1
          <6>3. IndexesOf(Append(dataq, w), {w}) = IndexesOf(dataq, {w}) \cup {Len(dataq) + 1}
            BY <6>1, <6>2, IndexesAppend
          <6> QED
            BY <6>1, <6>3, Zenon DEF AtMostOne
        <5>2. Queued(w)' /\ AtMostOne(QueuedAt(w)')
          BY <3>2, <5>1 DEF Queued, QueuedAt
        <5>3. \A d \in Disps : GivenAt(w, d)' = {}
          BY <2>4, <3>2, <4>1 DEF GivenTo, GivenAt
        <5>4. ~Given(w)' /\ \A d \in Disps : ~GivenTo(w, d)'
          BY <5>3 DEF Given, GivenTo
        <5> QED
          BY <3>2, <3>3, <3>4, <5>2, <5>3, <5>4, <1>Placed, Zenon
      <4>2. CASE customerq # <<>>
        <5>1. PICK e \in Disps : e = Head(customerq)
          BY <2>5, <4>2
        <5>2. ToDisp(e, Msg("reply", 0, v))
          BY <2>4, <4>2, <5>1
        <5>3. /\ GivenTo(w, e)' /\ AtMostOne(GivenAt(w, e)')
              /\ \A d \in Disps : d # e => SameIn(dmail[d], dmail'[d], HandedOver(w))
          BY <2>6, <2>9, <3>2, <5>2, <1>DispGives, Zenon
        <5>4. \A d \in Disps : d # e => GivenAt(w, d)' = {} /\ ~GivenTo(w, d)'
          BY <3>2, <5>3, Zenon DEF SameIn, GivenTo, GivenAt, HandedOver
        <5>5. Given(w)'
          BY <5>3, Zenon DEF Given
        <5>6. QueuedAt(w)' = {} /\ ~Queued(w)'
          BY <2>4, <3>2, <4>2, Zenon DEF Queued, QueuedAt
        <5> QED
          BY <3>2, <3>3, <3>4, <5>3, <5>4, <5>5, <5>6, <1>Placed, Zenon
      <4> QED
        BY <4>1, <4>2
    <3> QED
      BY <3>5, <3>6 DEF WorkerOf
  <2> QED
    BY <2>8, <2>9
<1>PoolRestStep.
      ASSUME PoolTypes, CallInv, NEW w \in Workers, WorkerOf(w),
             PoolInit \/ get_process_none \/ stop_processes \/ PoolAside \/ PoolAnswered
      PROVE  WorkerOf(w)'
  <2> USE <1>PoolRestStep
  <2> USE DEF supVars, dispVars, bounds
  <2>1. /\ smail \in Seq(SupMessages) /\ mail \in Boxes
        /\ procs \in [Workers -> {"none", "idle", "used"}]
    BY DEF PoolTypes, TypeOK, BoxTypes
  <2>2. UNCHANGED <<dataq, dmail, wmail, wlife, spawned, srec, sw>>
    BY Zenon DEF PoolInit, get_process_none, stop_processes, PoolAside, PoolAnswered, poolVars
  <2>3. /\ SameIn(dataq, dataq', {w})
        /\ \A d \in Disps : SameIn(dmail[d], dmail'[d], HandedOver(w))
    BY <2>2, SameSelf
  <2>4. SameIn(Pending(mail), Pending(mail'), PutsOf(w))
    <3>1. CASE PoolInit
      BY <3>1, <1>MailPuts, Zenon DEF PoolInit
    <3>2. CASE get_process_none \/ stop_processes \/ PoolAnswered
      BY <3>2, <1>MailPuts, Zenon DEF get_process_none, stop_processes, PoolAnswered, Receives, InCall
    <3>3. CASE PoolAside
      BY <3>3, <1>MailPuts, Zenon DEF PoolAside, InCall
    <3> QED
      BY <3>1, <3>2, <3>3
  <2>5. StaysPut(w)
    BY <2>2, <2>3, <2>4, Zenon DEF StaysPut
  <2>6. SameIn(smail, smail', {Msg("EXIT", 0, w)})
    <3>1. \A m \in SupMessages : m.type # "EXIT" /\ smail' = Append(smail, m) =>
             SameIn(smail, smail', {Msg("EXIT", 0, w)})
      <4>1. SUFFICES ASSUME NEW m \in SupMessages, m.type # "EXIT", smail' = Append(smail, m)
                     PROVE  SameIn(smail, smail', {Msg("EXIT", 0, w)})
        BY Zenon
      <4>2. m \notin {Msg("EXIT", 0, w)}
        BY <4>1 DEF Msg
      <4> QED
        BY <2>1, <4>1, <4>2, SeqIndexes, Zenon
    <3>2. CASE smail' = smail
      BY <3>2, SameSelf
    <3>3. CASE smail' = Append(smail, Msg("start", 0, 0))
      BY <3>1, <3>3, AskKinds, Zenon
    <3>4. ASSUME NEW v \in Workers, smail' = Append(smail, Msg("stop", 0, v))
          PROVE  SameIn(smail, smail', {Msg("EXIT", 0, w)})
      BY <3>1, <3>4, AskKinds, Zenon
    <3>5. CASE stop_processes
      <4>1. Top \in Messages /\ Top.type = "stop"
        BY <2>1, <3>5, MailSteps, Zenon DEF stop_processes, Receives, Takes
      <4>2. Top.w \in Workers
        BY <4>1, MessageKinds
      <4>3. smail' = smail \/ smail' = Append(smail, Msg("stop", 0, Top.w))
        BY <3>5, Zenon DEF stop_processes, ToSup
      <4> QED
        BY <3>2, <3>4, <4>2, <4>3, Zenon
    <3>6. CASE PoolInit \/ get_process_none \/ PoolAside \/ PoolAnswered
      <4>1. smail' = smail \/ smail' = Append(smail, Msg("start", 0, 0))
        BY <3>6, Zenon DEF PoolInit, get_process_none, PoolAside, PoolAnswered, _create_process, ToSup
      <4> QED
        BY <3>2, <3>3, <4>1
    <3> QED
      BY <3>5, <3>6
  <2>7. procs'[w] = procs[w] \/ (~Live(w) /\ wlife[w] # "none" /\ procs'[w] = "none")
    <3>1. CASE PoolAnswered /\ ppc = "callStop"
      <4>1. /\ todo \in Workers /\ wlife[todo] # "none"
            /\ Answered # {} => ~Live(todo)
        BY <3>1 DEF CallInv
      <4>2. Takes(Top) /\ Top \in Answers
        BY <2>1, <3>1, MailSteps, Zenon DEF PoolAnswered, InCall, Takes, Answers
      <4>3. Answered # {}
        <5>1. Top \in Messages
          BY <4>2 DEF Takes
        <5> QED
          BY <2>1, <4>2, <5>1, MailIndexes, AsksAre
      <4>4. procs' = [procs EXCEPT ![todo] = "none"]
        BY <3>1 DEF PoolAnswered
      <4>5. CASE w = todo
        BY <2>1, <4>1, <4>3, <4>4, <4>5
      <4>6. CASE w # todo
        BY <2>1, <4>4, <4>6
      <4> QED
        BY <4>5, <4>6
    <3>2. CASE ~(PoolAnswered /\ ppc = "callStop")
      <4>1. procs' = procs
        BY <3>2, Zenon DEF PoolInit, get_process_none, stop_processes, PoolAside, PoolAnswered, poolVars
      <4> QED
        BY <4>1, Zenon
    <3> QED
      BY <3>1, <3>2
  <2>8. KnownOf(w)'
    <3>1. CASE procs'[w] = procs[w]
      <4>1. StillKnown(w)
        BY <2>2, <2>3, <2>6, <3>1 DEF StillKnown, WorkerOf, KnownOf
      <4> QED
        BY <4>1, <1>KnownQuiet DEF WorkerOf
    <3>2. CASE ~Live(w) /\ wlife[w] # "none" /\ procs'[w] = "none"
      BY <2>2, <2>6, <3>2, Zenon DEF WorkerOf, KnownOf, Live, SameIn, Msg
    <3> QED
      BY <2>7, <3>1, <3>2, Zenon
  <2> QED
    BY <2>5, <2>8, <1>PlaceQuiet DEF WorkerOf
<1>SpawnStep. ASSUME PoolTypes, NEW w \in Workers, WorkerOf(w), InOrder, NEW who, SpawnFor(who),
                     spc = "loop", smail # <<>>, smail' = Tail(smail),
                     UNCHANGED <<mail, dataq, dmail, wmail, procs>>,
                     Live(w) => w \in srec'
              PROVE  WorkerOf(w)'
  <2> USE <1>SpawnStep
  <2>1. /\ spawned \in 0..MaxWorkers /\ smail \in Seq(SupMessages) /\ (sw # 0) = (spc = "wait")
        /\ wlife \in [Workers -> {"none", "spawned", "ready", "busy", "killed", "dead"}]
    BY DEF PoolTypes, TypeOK, BoxTypes
  <2>2. /\ spawned < MaxWorkers /\ spawned' = spawned + 1 /\ sw' = spawned'
        /\ wlife' = [wlife EXCEPT ![spawned'] = "spawned"]
    BY Zenon DEF SpawnFor
  <2>3. IndexesOf(smail, {Msg("EXIT", 0, w)}) = {} => IndexesOf(smail', {Msg("EXIT", 0, w)}) = {}
    <3>1. 1 \in 1..Len(smail) /\ Tail(smail) = Without(smail, 1)
      BY <2>1, TailRemoves
    <3> QED
      BY <2>1, <3>1, IndexesRemove, Zenon
  <2>4. spawned' \in Workers /\ spawned' > spawned /\ spawned \in Nat /\ spawned' \in Nat
    BY <2>1, <2>2, PoolAssumption DEF Workers
  <2>5. CASE w = spawned'
    <3>1. wlife[w] = "none" /\ wlife'[w] = "spawned"
      BY <2>1, <2>2, <2>4, <2>5 DEF InOrder
    <3>2. /\ QueuedAt(w) = {} /\ OfferedAt(w) = {} /\ wmail[w] = <<>>
          /\ \A d \in Disps : GivenAt(w, d) = {}
      BY <3>1, Zenon DEF WorkerOf, PlaceOf, Queued, Offered, Given, GivenTo, Tasked
    <3>3. /\ QueuedAt(w)' = {} /\ OfferedAt(w)' = {} /\ wmail'[w] = <<>> /\ Len(wmail'[w]) <= 1
          /\ \A d \in Disps : GivenAt(w, d)' = {}
      <4>1. QueuedAt(w)' = {} /\ OfferedAt(w)' = {}
        BY <3>2, Zenon DEF QueuedAt, OfferedAt, PutsOf
      <4>2. \A d \in Disps : GivenAt(w, d)' = {}
        BY <3>2, Zenon DEF GivenAt, HandedOver
      <4>3. wmail'[w] = <<>> /\ Len(wmail'[w]) <= 1
        BY <3>2, EmptyIsShort, Zenon
      <4> QED
        BY <4>1, <4>2, <4>3, Zenon
    <3>4. /\ ~Queued(w)' /\ ~Offered(w)' /\ ~Given(w)' /\ ~Tasked(w)' /\ Working(w)'
          /\ \A d \in Disps : ~GivenTo(w, d)'
      BY <3>1, <3>3, Zenon DEF Queued, Offered, Given, GivenTo, Tasked, Working
    <3>5. AtMostOne({})
      BY DEF AtMostOne
    <3>6. PlaceOf(w)'
      BY <3>1, <3>3, <3>4, <3>5, <1>Placed, Zenon
    <3>7. IndexesOf(smail', {Msg("EXIT", 0, w)}) = {}
      BY <2>3, <3>1, Zenon DEF WorkerOf, KnownOf
    <3>8. ~(w > spawned') /\ w \in srec' \cup {sw'}
      BY <2>2, <2>4, <2>5
    <3>9. KnownOf(w)'
      <4>1. ((wlife'[w] = "none") = (w > spawned')) /\ wlife'[w] # "none"
        BY <2>4, <2>5, <3>1
      <4>2. IndexesOf(dataq', {w}) = {}
        BY <3>3, Zenon DEF QueuedAt
      <4> QED
        BY <3>7, <3>8, <4>1, <4>2, Zenon DEF KnownOf, Live, Msg
    <3> QED
      BY <3>6, <3>9 DEF WorkerOf
  <2>6. CASE w # spawned'
    <3>1. wlife'[w] = wlife[w]
      BY <2>1, <2>2, <2>6
    <3>2. StaysPut(w)
      BY <3>1, SameSelf, Zenon DEF StaysPut
    <3>3. (w > spawned') = (w > spawned)
      BY <2>2, <2>4, <2>6 DEF Workers
    <3>4. KnownOf(w)'
      BY <2>3, <3>1, <3>3, Zenon DEF WorkerOf, KnownOf, Live, Msg
    <3> QED
      BY <3>2, <3>4, <1>PlaceQuiet DEF WorkerOf
  <2> QED
    BY <2>5, <2>6
<1>SupWorkerStep.
      ASSUME PoolTypes, CallInv, InOrder, NEW w \in Workers, WorkerOf(w), Sup
      PROVE  WorkerOf(w)'
  <2> USE <1>SupWorkerStep
  <2> USE DEF poolVars, dispVars, bounds
  <2>1. /\ smail \in Seq(SupMessages) /\ mail \in Boxes /\ (sw # 0) = (spc = "wait")
        /\ wlife \in [Workers -> {"none", "spawned", "ready", "busy", "killed", "dead"}]
        /\ sw \in 0..spawned /\ spawned \in 0..MaxWorkers
    BY DEF PoolTypes, TypeOK, BoxTypes
  <2> DEFINE x == Msg("EXIT", 0, w)
  <2>2. IndexesOf(smail, {x}) = {} /\ smail # <<>> /\ smail' = Tail(smail) => IndexesOf(smail', {x}) = {}
    <3>1. SUFFICES ASSUME IndexesOf(smail, {x}) = {}, smail # <<>>, smail' = Tail(smail)
                   PROVE  IndexesOf(smail', {x}) = {}
      BY Zenon
    <3>2. 1 \in 1..Len(smail) /\ Tail(smail) = Without(smail, 1)
      BY <2>1, <3>1, TailRemoves
    <3> QED
      BY <2>1, <3>1, <3>2, IndexesRemove, Zenon
  <2>3. smail # <<>> /\ STop = x => IndexesOf(smail, {x}) # {}
    BY <2>1, SeqIndexes DEF STop
  <2>4. spc = "loop" => (Live(w) => w \in srec) /\ sw = 0
    <3>1. w # 0
      BY MessageKinds
    <3> QED
      BY <2>1, <3>1 DEF WorkerOf, KnownOf
  <2>5. CASE SupStart
    <3>1. /\ spc = "loop" /\ smail # <<>> /\ smail' = Tail(smail)
          /\ UNCHANGED <<mail, dataq, dmail, wmail, procs, srec>>
      BY <2>5, Zenon DEF SupStart, SupReceives
    <3>2. CASE SpawnFor("pool")
      BY <2>4, <3>1, <3>2, <1>SpawnStep
    <3>3. CASE SpawnFails
      <4>1. StaysPut(w)
        BY <3>1, <3>3, SameSelf, Zenon DEF StaysPut, SpawnFails
      <4>2. KnownOf(w)'
        BY <2>2, <3>1, <3>3, Zenon DEF WorkerOf, KnownOf, SpawnFails, Live, Msg
      <4> QED
        BY <4>1, <4>2, <1>PlaceQuiet DEF WorkerOf
    <3> QED
      BY <2>5, <3>2, <3>3, Zenon DEF SupStart
  <2>6. CASE SupExit
    <3>1. /\ spc = "loop" /\ smail # <<>> /\ smail' = Tail(smail) /\ STop.type = "EXIT"
          /\ UNCHANGED <<mail, dataq, dmail, wmail, procs>> /\ srec' = srec \ {STop.w}
      BY <2>6, Zenon DEF SupExit, SupReceives
    <3>2. Live(w) => w \in srec'
      <4>1. STop \in SupMessages
        BY <2>1, <3>1, SeqTypes DEF STop
      <4>2. STop.w = w => STop = x
        BY <3>1, <4>1, MessageKinds
      <4>3. STop.w = w => wlife[w] \in {"killed", "dead"}
        BY <2>3, <3>1, <4>2, Zenon DEF WorkerOf, KnownOf
      <4> QED
        BY <2>4, <3>1, <4>3 DEF Live
    <3>3. CASE SpawnFor("none")
      BY <3>1, <3>2, <3>3, <1>SpawnStep
    <3>4. CASE UNCHANGED <<wlife, spawned, spc, sw, sfor>>
      <4>1. StaysPut(w)
        BY <3>1, <3>4, SameSelf, Zenon DEF StaysPut
      <4>2. KnownOf(w)'
        BY <2>2, <3>1, <3>2, <3>4, Zenon DEF WorkerOf, KnownOf, Live, Msg
      <4> QED
        BY <4>1, <4>2, <1>PlaceQuiet DEF WorkerOf
    <3> QED
      BY <2>6, <3>3, <3>4, Zenon DEF SupExit
  <2>7. CASE SupWaited
    <3>1. /\ UNCHANGED <<dataq, dmail, wmail, procs, wlife, spawned>> /\ sw' = 0 /\ Answer
          /\ \/ /\ \E i \in 1..Len(smail) : /\ smail[i] = Msg("EXIT", 0, sw)
                                            /\ smail' = Without(smail, i)
                /\ srec' = srec
             \/ smail' = smail /\ srec' = srec \cup {sw}
      BY <2>7, Zenon DEF SupWaited
    <3>2. SameIn(Pending(mail), Pending(mail'), PutsOf(w))
      <4>1. CASE ToPool(Msg("answer", 0, 0))
        BY <4>1, <1>MailOthers, Zenon
      <4>2. CASE mail' = mail
        BY <4>2, <1>MailPuts, Zenon
      <4> QED
        BY <3>1, <4>1, <4>2 DEF Answer
    <3>3. StaysPut(w)
      BY <3>1, <3>2, SameSelf, Zenon DEF StaysPut
    <3>4. KnownOf(w)'
      <4>1. CASE smail' = smail /\ srec' = srec \cup {sw}
        BY <3>1, <4>1, Zenon DEF WorkerOf, KnownOf, Live, Msg
      <4>2. ASSUME NEW i \in 1..Len(smail), smail[i] = Msg("EXIT", 0, sw),
                   smail' = Without(smail, i), srec' = srec
            PROVE  KnownOf(w)'
        <5>1. IndexesOf(smail, {x}) = {} => IndexesOf(smail', {x}) = {}
          BY <2>1, <4>2, IndexesRemove, Zenon
        <5>2. Live(w) => w \in srec
          <6>1. CASE w = sw
            <7>1. i \in IndexesOf(smail, {x})
              BY <4>2, <6>1 DEF IndexesOf
            <7> QED
              BY <7>1 DEF WorkerOf, KnownOf, Live
          <6>2. CASE w # sw
            BY <6>2 DEF WorkerOf, KnownOf
          <6> QED
            BY <6>1, <6>2
        <5> QED
          BY <3>1, <4>2, <5>1, <5>2, Zenon DEF WorkerOf, KnownOf, Live, Msg
      <4> QED
        BY <3>1, <4>1, <4>2
    <3> QED
      BY <3>3, <3>4, <1>PlaceQuiet DEF WorkerOf
  <2>8. CASE SupStop
    <3>1. /\ spc = "loop" /\ smail # <<>> /\ smail' = Tail(smail) /\ STop.type = "stop"
          /\ UNCHANGED <<dataq, dmail, wmail, procs, sw, spawned>> /\ srec' = srec \ {STop.w}
          /\ ToPool(Msg("answer", 0, 0))
      BY <2>8, Zenon DEF SupStop, SupReceives
    <3>2. SameIn(Pending(mail), Pending(mail'), PutsOf(w))
      BY <3>1, <1>MailOthers, Zenon
    <3>3. /\ SameIn(dataq, dataq', {w})
          /\ \A d \in Disps : SameIn(dmail[d], dmail'[d], HandedOver(w))
      BY <3>1, SameSelf
    <3>4. STop \in SupMessages /\ STop \in Asks
      BY <2>1, <3>1, SeqTypes DEF STop, Asks
    <3>5. STop.w \in srec => wlife[STop.w] # "none"
      <4>1. IndexesOf(smail, Asks) # {} /\ \A n : STop \in Others(n) => IndexesOf(smail, Others(n)) # {}
        BY <2>1, <3>1, <3>4, SeqIndexes DEF STop
      <4>2. Requests # {} /\ \A n : Strange(n) = {} => STop = n
        BY <3>1, <3>4, <4>1, AsksAre
      <4>3. STop # Msg("start", 0, 0)
        BY <3>1 DEF Msg
      <4>4. ppc = "callStop"
        BY <4>2, <4>3, Zenon DEF CallInv, PoolTypes, TypeOK
      <4>5. STop = Msg("stop", 0, todo) /\ wlife[todo] # "none"
        BY <4>2, <4>4 DEF CallInv
      <4> QED
        BY <4>5, MessageKinds
    <3>6. CASE w = STop.w /\ w \in srec
      <4>1. \/ wlife'[w] = "dead"
            \/ wlife[w] \in {"spawned", "busy"} /\ wlife'[w] = "killed"
        <5>1. \E l \in {"dead"} \cup (IF wlife[w] \in {"spawned", "busy"} THEN {"killed"} ELSE {}) :
                 wlife' = [wlife EXCEPT ![w] = l]
          BY <2>8, <3>6 DEF SupStop
        <5> QED
          BY <2>1, <5>1
      <4>2. ~Live(w)' /\ ~Working(w)' /\ wlife'[w] # "none"
        BY <4>1, Zenon DEF Live, Working
      <4>3. KnownOf(w)'
        <5>1. wlife[w] # "none" /\ wlife'[w] \in {"killed", "dead"}
          BY <3>5, <3>6, <4>1, Zenon
        <5> QED
          BY <3>1, <4>2, <5>1 DEF WorkerOf, KnownOf
      <4>4. wlife'[w] = "killed" => Working(w)
        BY <4>1, Zenon DEF Working
      <4>5. /\ AtMostOne(QueuedAt(w)') /\ AtMostOne(OfferedAt(w)')
            /\ Queued(w)' <=> Queued(w)
            /\ Offered(w)' <=> Offered(w)
        BY <3>2, <3>3, Zenon DEF WorkerOf, PlaceOf, SameIn, QueuedAt, OfferedAt, Queued, Offered, PutsOf
      <4>6. \A d \in Disps : AtMostOne(GivenAt(w, d)') /\ (GivenTo(w, d)' <=> GivenTo(w, d))
        BY <3>3, Zenon DEF WorkerOf, PlaceOf, SameIn, GivenAt, GivenTo, HandedOver
      <4>7. Given(w)' <=> Given(w)
        BY <4>6, Zenon DEF Given
      <4>8. (Tasked(w)' <=> Tasked(w)) /\ Len(wmail'[w]) = Len(wmail[w])
        BY <3>1, Zenon DEF Tasked
      <4>9. PlaceOf(w)'
        BY <4>2, <4>4, <4>5, <4>6, <4>7, <4>8, <1>Placed, Zenon DEF WorkerOf, PlaceOf
      <4> QED
        BY <4>3, <4>9 DEF WorkerOf
    <3>7. CASE ~(w = STop.w /\ w \in srec)
      <4>1. wlife'[w] = wlife[w]
        <5>1. CASE STop.w \in srec
          <6>1. \E l : wlife' = [wlife EXCEPT ![STop.w] = l]
            BY <2>8, <5>1, Zenon DEF SupStop
          <6> QED
            BY <2>1, <3>7, <5>1, <6>1
        <5>2. CASE STop.w \notin srec
          BY <2>8, <5>2, Zenon DEF SupStop
        <5> QED
          BY <5>1, <5>2, Zenon
      <4>2. StaysPut(w)
        BY <3>1, <3>2, <3>3, <4>1, Zenon DEF StaysPut
      <4>3. Live(w) => w \in srec'
        BY <2>4, <3>1, <3>7
      <4>4. KnownOf(w)'
        BY <2>2, <3>1, <4>1, <4>3, Zenon DEF WorkerOf, KnownOf, Live, Msg
      <4> QED
        BY <4>2, <4>4, <1>PlaceQuiet DEF WorkerOf
    <3> QED
      BY <3>6, <3>7
  <2> QED
    BY <2>5, <2>6, <2>7, <2>8 DEF Sup
<1>OffersStep.
      ASSUME PoolTypes, NEW w \in Workers, WorkerOf(w), NEW v \in Workers,
             on_init(v) \/ on_message(v) \/ LastSlice(v)
      PROVE  WorkerOf(w)'
  <2> USE <1>OffersStep
  <2>1. wlife \in [Workers -> {"none", "spawned", "ready", "busy", "killed", "dead"}]
    BY DEF PoolTypes, TypeOK
  <2>2. /\ UNCHANGED <<smail, wmail, dmail, dataq, procs, spawned, srec, sw>>
        /\ ToPool(Msg("put", v, v))
        /\ \/ wlife[v] \in {"spawned", "busy"} /\ wlife' = [wlife EXCEPT ![v] = "ready"]
           \/ wlife[v] = "killed" /\ wlife' = [wlife EXCEPT ![v] = "dead"]
    BY Zenon DEF on_init, on_message, LastSlice, poolVars, supVars
  <2>3. /\ SameIn(dataq, dataq', {w}) /\ SameIn(smail, smail', {Msg("EXIT", 0, w)})
        /\ \A d \in Disps : SameIn(dmail[d], dmail'[d], HandedOver(w))
    BY <2>2, SameSelf
  <2>4. CASE w # v
    <3>1. SameIn(Pending(mail), Pending(mail'), PutsOf(w))
      BY <2>2, <2>4, <1>MailOthers, Zenon
    <3>2. wlife'[w] = wlife[w]
      BY <2>1, <2>2, <2>4
    <3>3. StaysPut(w) /\ StillKnown(w)
      BY <2>2, <2>3, <3>1, <3>2, Zenon DEF StaysPut, StillKnown, WorkerOf, KnownOf
    <3> QED
      BY <3>3, <1>PlaceQuiet, <1>KnownQuiet DEF WorkerOf
  <2>5. CASE w = v
    <3>1. /\ wlife[w] \in {"spawned", "busy", "killed"}
          /\ wlife[w] # "killed" => wlife'[w] = "ready"
          /\ wlife[w] = "killed" => wlife'[w] = "dead"
      BY <2>1, <2>2, <2>5
    <3>2. /\ QueuedAt(w) = {} /\ ~Offered(w) /\ wmail[w] = <<>>
          /\ \A d \in Disps : GivenAt(w, d) = {}
      BY <3>1, Zenon DEF WorkerOf, PlaceOf, Queued, Offered, Given, GivenTo, Tasked, Working
    <3>3. QueuedAt(w)' = {} /\ wmail'[w] = <<>> /\ \A d \in Disps : GivenAt(w, d)' = {}
      BY <2>2, <3>2, Zenon DEF QueuedAt, GivenAt, HandedOver
    <3>4. Offered(w)' /\ AtMostOne(OfferedAt(w)')
      BY <2>2, <2>5, <3>2, <1>MailPuts, Zenon
    <3>5. /\ ~Queued(w)' /\ ~Given(w)' /\ ~Tasked(w)' /\ ~Working(w)'
          /\ \A d \in Disps : ~GivenTo(w, d)'
      BY <3>1, <3>3, Zenon DEF Queued, Given, GivenTo, Tasked, Working
    <3>6. AtMostOne({}) /\ Len(wmail'[w]) <= 1
      BY <3>3, EmptyIsShort, Zenon DEF AtMostOne
    <3>7. PlaceOf(w)'
      BY <3>1, <3>3, <3>4, <3>5, <3>6, <1>Placed, Zenon
    <3>8. KnownOf(w)'
      BY <2>2, <3>1, Zenon DEF WorkerOf, KnownOf, Live, Msg
    <3> QED
      BY <3>7, <3>8 DEF WorkerOf
  <2> QED
    BY <2>4, <2>5
<1>AddTaskStep.
      ASSUME PoolTypes, NEW w \in Workers, WorkerOf(w), NEW v \in Workers, add_task(v)
      PROVE  WorkerOf(w)'
  <2> USE <1>AddTaskStep
  <2>1. /\ wlife \in [Workers -> {"none", "spawned", "ready", "busy", "killed", "dead"}]
        /\ wmail \in [Workers -> Seq(Disps)] /\ dmail \in [Disps -> Seq(DispMessages)]
    BY DEF PoolTypes, TypeOK, BoxTypes
  <2>2. /\ UNCHANGED <<smail, mail, dataq, procs, spawned, srec, sw>>
        /\ wlife[v] = "ready" /\ wmail[v] # <<>> /\ wmail' = [wmail EXCEPT ![v] = Tail(@)]
        /\ \/ wlife' = [wlife EXCEPT ![v] = "busy"] /\ ToDisp(Head(wmail[v]), Msg("reply", v, v))
           \/ wlife' = [wlife EXCEPT ![v] = "spawned"] /\ dmail' = dmail
    BY Zenon DEF add_task, poolVars, supVars
  <2>3. /\ SameIn(dataq, dataq', {w}) /\ SameIn(smail, smail', {Msg("EXIT", 0, w)})
        /\ SameIn(Pending(mail), Pending(mail'), PutsOf(w))
    BY <2>2, SameSelf
  <2>4. \A d \in Disps : SameIn(dmail[d], dmail'[d], HandedOver(w))
    <3>1. CASE dmail' = dmail
      BY <3>1, SameSelf
    <3>2. CASE ToDisp(Head(wmail[v]), Msg("reply", v, v))
      <4>1. /\ Msg("reply", v, v) \in DispMessages /\ Msg("reply", v, v).from = v /\ v # 0
        BY ReplyKinds, MessageKinds, Zenon
      <4>2. wmail[v] \in Seq(Disps) /\ wmail[v] # <<>>
        BY <2>1, <2>2
      <4>3. PICK e \in Disps : e = Head(wmail[v])
        BY <4>2, SeqTypes
      <4>4. ToDisp(e, Msg("reply", v, v))
        BY <3>2, <4>3
      <4> QED
        BY <4>1, <4>4, <1>DispGives, Zenon
    <3> QED
      BY <2>2, <3>1, <3>2
  <2>5. CASE w # v
    <3>1. wlife'[w] = wlife[w] /\ wmail'[w] = wmail[w]
      BY <2>1, <2>2, <2>5
    <3>2. StaysPut(w) /\ StillKnown(w)
      BY <2>2, <2>3, <2>4, <3>1, Zenon DEF StaysPut, StillKnown, WorkerOf, KnownOf
    <3> QED
      BY <3>2, <1>PlaceQuiet, <1>KnownQuiet DEF WorkerOf
  <2>6. CASE w = v
    <3>1. wlife[w] = "ready" /\ wlife'[w] \in {"busy", "spawned"} /\ Tasked(w)
      BY <2>1, <2>2, <2>6 DEF Tasked
    <3>2. QueuedAt(w) = {} /\ OfferedAt(w) = {} /\ \A d \in Disps : GivenAt(w, d) = {}
      BY <3>1, Zenon DEF WorkerOf, PlaceOf, Queued, Offered, Given, GivenTo
    <3>3. wmail'[w] = <<>> /\ Len(wmail'[w]) <= 1
      <4>1. wmail[w] \in Seq(Disps) /\ wmail[w] # <<>> /\ Len(wmail[w]) <= 1 /\ wmail'[w] = Tail(wmail[w])
        BY <2>1, <2>2, <2>6 DEF WorkerOf, PlaceOf
      <4>2. \A q \in Seq(Disps) : Len(q) <= 1 => Tail(q) = <<>>
        OBVIOUS
      <4> QED
        BY <4>1, <4>2, EmptyIsShort, Zenon
    <3>4. QueuedAt(w)' = {} /\ OfferedAt(w)' = {}
      BY <2>2, <3>2, Zenon DEF QueuedAt, OfferedAt, PutsOf
    <3>5. \A d \in Disps : GivenAt(w, d)' = {}
      BY <2>4, <3>2, Zenon DEF GivenAt, SameIn, HandedOver
    <3>6. /\ ~Queued(w)' /\ ~Offered(w)' /\ ~Given(w)' /\ ~Tasked(w)' /\ Working(w)'
          /\ \A d \in Disps : ~GivenTo(w, d)'
      BY <3>1, <3>3, <3>4, <3>5, Zenon DEF Queued, Offered, Given, GivenTo, Tasked, Working
    <3>7. AtMostOne({})
      BY DEF AtMostOne
    <3>8. PlaceOf(w)'
      BY <3>1, <3>3, <3>4, <3>5, <3>6, <3>7, <1>Placed, Zenon
    <3>9. KnownOf(w)'
      BY <2>2, <3>1, Zenon DEF WorkerOf, KnownOf, Live, Msg
    <3> QED
      BY <3>8, <3>9 DEF WorkerOf
  <2> QED
    BY <2>5, <2>6
<1>DieStep. ASSUME PoolTypes, NEW w \in Workers, WorkerOf(w), NEW v \in Workers, Die(v)
            PROVE  WorkerOf(w)'
  <2> USE <1>DieStep
  <2>1. /\ wlife \in [Workers -> {"none", "spawned", "ready", "busy", "killed", "dead"}]
        /\ wmail \in [Workers -> Seq(Disps)] /\ smail \in Seq(SupMessages)
    BY DEF PoolTypes, TypeOK, BoxTypes
  <2>2. /\ UNCHANGED <<mail, dmail, dataq, procs, spawned, srec, sw>> /\ Live(v)
        /\ wlife' = [wlife EXCEPT ![v] = "dead"] /\ wmail' = [wmail EXCEPT ![v] = <<>>]
        /\ smail' = Append(smail, Msg("EXIT", 0, v))
    BY Zenon DEF Die, poolVars, supVars, ToSup
  <2>3. /\ SameIn(dataq, dataq', {w}) /\ SameIn(Pending(mail), Pending(mail'), PutsOf(w))
        /\ \A d \in Disps : SameIn(dmail[d], dmail'[d], HandedOver(w))
    BY <2>2, SameSelf
  <2>4. CASE w # v
    <3>1. wlife'[w] = wlife[w] /\ wmail'[w] = wmail[w]
      BY <2>1, <2>2, <2>4
    <3>2. Msg("EXIT", 0, v) \in SupMessages /\ Msg("EXIT", 0, v) \notin {Msg("EXIT", 0, w)}
      BY <2>4, MessageKinds, Zenon DEF Msg
    <3>3. SameIn(smail, smail', {Msg("EXIT", 0, w)})
      BY <2>1, <2>2, <3>2, SeqIndexes, Zenon
    <3>4. StaysPut(w) /\ StillKnown(w)
      BY <2>2, <2>3, <3>1, <3>3, Zenon DEF StaysPut, StillKnown, WorkerOf, KnownOf
    <3> QED
      BY <3>4, <1>PlaceQuiet, <1>KnownQuiet DEF WorkerOf
  <2>5. CASE w = v
    <3>1. /\ wlife'[w] = "dead" /\ wmail'[w] = <<>> /\ Len(wmail'[w]) <= 1 /\ Live(w) /\ wlife[w] # "none"
      BY <2>1, <2>2, <2>5 DEF Live
    <3>2. /\ AtMostOne(QueuedAt(w)') /\ AtMostOne(OfferedAt(w)')
          /\ Queued(w)' <=> Queued(w)
          /\ Offered(w)' <=> Offered(w)
      BY <2>3, Zenon DEF WorkerOf, PlaceOf, SameIn, QueuedAt, OfferedAt, Queued, Offered, PutsOf
    <3>3. \A d \in Disps : AtMostOne(GivenAt(w, d)') /\ (GivenTo(w, d)' <=> GivenTo(w, d))
      BY <2>3, Zenon DEF WorkerOf, PlaceOf, SameIn, GivenAt, GivenTo, HandedOver
    <3>4. Given(w)' <=> Given(w)
      BY <3>3, Zenon DEF Given
    <3>5. ~Tasked(w)' /\ ~Working(w)' /\ ~Live(w)'
      BY <3>1 DEF Tasked, Working, Live
    <3>6. PlaceOf(w)'
      BY <3>1, <3>2, <3>3, <3>4, <3>5, <1>Placed, Zenon DEF WorkerOf, PlaceOf
    <3>7. KnownOf(w)'
      BY <2>2, <3>1, <3>5, Zenon DEF WorkerOf, KnownOf
    <3> QED
      BY <3>6, <3>7 DEF WorkerOf
  <2> QED
    BY <2>4, <2>5
<1>GotWorkerStep.
      ASSUME PoolTypes, NEW w \in Workers, WorkerOf(w), GotWorker
      PROVE  WorkerOf(w)'
  <2> USE <1>GotWorkerStep
  <2>1. /\ wmail \in [Workers -> Seq(Disps)] /\ dmail \in [Disps -> Seq(DispMessages)]
        /\ disp \in Disps
    BY DEF PoolTypes, TypeOK, BoxTypes
  <2>e. PICK e \in Disps : e = disp
    BY <2>1
  <2>2. /\ UNCHANGED <<mail, smail, dataq, procs, spawned, srec, sw, wlife>>
        /\ dmail[e] # <<>> /\ dmail' = [dmail EXCEPT ![e] = Tail(@)] /\ Head(dmail[e]).from = 0
    BY <2>e, Zenon DEF GotWorker, DTop, poolVars, supVars
  <2>3. Head(dmail[e]) \in DispMessages
    BY <2>2, <1>DispTakes, Zenon
  <2>4. PICK v \in Workers : v = Head(dmail[e]).w
    BY <2>3, MessageKinds, Zenon
  <2>5. wmail' = IF Live(v) THEN [wmail EXCEPT ![v] = Append(@, e)] ELSE wmail
    BY <2>e, <2>4, Zenon DEF GotWorker, DTop
  <2>6. /\ SameIn(dataq, dataq', {w}) /\ SameIn(Pending(mail), Pending(mail'), PutsOf(w))
        /\ SameIn(smail, smail', {Msg("EXIT", 0, w)})
    BY <2>2, SameSelf
  <2>7. CASE w # v
    <3>1. wmail'[w] = wmail[w]
      BY <2>1, <2>5, <2>7
    <3>2. \A d \in Disps : SameIn(dmail[d], dmail'[d], HandedOver(w))
      BY <2>2, <2>4, <2>7, <1>DispTakes, Zenon
    <3>3. StaysPut(w) /\ StillKnown(w)
      BY <2>2, <2>6, <3>1, <3>2, Zenon DEF StaysPut, StillKnown, WorkerOf, KnownOf
    <3> QED
      BY <3>3, <1>PlaceQuiet, <1>KnownQuiet DEF WorkerOf
  <2>8. CASE w = v
    <3>1. /\ GivenTo(w, e)
          /\ AtMostOne(GivenAt(w, e)) => GivenAt(w, e)' = {}
          /\ \A d \in Disps : d # e => SameIn(dmail[d], dmail'[d], HandedOver(w))
      BY <2>2, <2>4, <2>8, <1>DispTakes, Zenon
    <3>2. /\ GivenAt(w, e)' = {} /\ Given(w)
          /\ \A d \in Disps : d # e => ~GivenTo(w, d)
      BY <3>1, Zenon DEF WorkerOf, PlaceOf, Given
    <3>3. /\ QueuedAt(w) = {} /\ OfferedAt(w) = {} /\ ~Tasked(w) /\ ~Working(w)
          /\ wlife[w] \notin {"none", "killed"}
      BY <3>2 DEF WorkerOf, PlaceOf, Queued, Offered
    <3>4. \A d \in Disps : GivenAt(w, d)' = {}
      BY <3>1, <3>2, Zenon DEF SameIn, GivenTo, GivenAt, HandedOver
    <3>5. QueuedAt(w)' = {} /\ OfferedAt(w)' = {}
      BY <2>2, <3>3, Zenon DEF QueuedAt, OfferedAt, PutsOf
    <3>6. /\ ~Queued(w)' /\ ~Offered(w)' /\ ~Given(w)' /\ ~Working(w)'
          /\ \A d \in Disps : ~GivenTo(w, d)'
      BY <2>2, <3>3, <3>4, <3>5 DEF Queued, Offered, Given, GivenTo, Working
    <3>7. Len(wmail'[w]) <= 1 /\ (Live(w)' => Tasked(w)')
      <4>1. wmail[w] = <<>>
        BY <3>3 DEF Tasked
      <4>2. CASE Live(w)
        <5>1. wmail'[w] = Append(<<>>, e)
          BY <2>1, <2>5, <2>8, <4>1, <4>2
        <5>2. Append(<<>>, e) # <<>> /\ Len(Append(<<>>, e)) = 1
          OBVIOUS
        <5> QED
          BY <5>1, <5>2 DEF Tasked
      <4>3. CASE ~Live(w)
        <5>1. wmail'[w] = <<>> /\ ~Live(w)'
          BY <2>2, <2>5, <2>8, <4>1, <4>3 DEF Live
        <5> QED
          BY <5>1, EmptyIsShort, Zenon
      <4> QED
        BY <4>2, <4>3
    <3>8. AtMostOne({}) /\ wlife'[w] \notin {"none", "killed"}
      BY <2>2, <3>3 DEF AtMostOne
    <3>9. PlaceOf(w)'
      BY <3>4, <3>5, <3>6, <3>7, <3>8, <1>Placed, Zenon
    <3>10. KnownOf(w)'
      <4>1. StillKnown(w)
        BY <2>2, <2>6, Zenon DEF StillKnown, WorkerOf, KnownOf
      <4> QED
        BY <4>1, <1>KnownQuiet DEF WorkerOf
    <3> QED
      BY <3>9, <3>10 DEF WorkerOf
  <2> QED
    BY <2>7, <2>8
<1>RestStep. ASSUME PoolTypes, NEW w \in Workers, WorkerOf(w),
                    \/ TaskAdded \/ Accept \/ NewDisp \/ UNCHANGED vars
                    \/ \E v \in Workers : AskStop(v)
             PROVE  WorkerOf(w)'
  <2> USE <1>RestStep
  <2>2. UNCHANGED <<smail, dataq, procs, spawned, srec, sw, wlife, wmail>>
    BY Zenon DEF TaskAdded, Accept, NewDisp, AskStop, vars, boxes, poolVars, supVars
  <2>3. SameIn(dataq, dataq', {w}) /\ SameIn(smail, smail', {Msg("EXIT", 0, w)})
    BY <2>2, SameSelf
  <2>4. \A d \in Disps : SameIn(dmail[d], dmail'[d], HandedOver(w))
    <3>1. CASE dmail' = dmail
      BY <3>1, SameSelf
    <3>2. CASE TaskAdded
      <4>1. PICK e \in Disps : e = disp
        BY DEF PoolTypes, TypeOK
      <4>2. /\ dmail[e] # <<>> /\ dmail' = [dmail EXCEPT ![e] = Tail(@)]
            /\ Head(dmail[e]).from = dw /\ dw # 0
        BY <3>2, <4>1 DEF TaskAdded, DTop, PoolTypes
      <4> QED
        BY <4>2, <1>DispTakes, Zenon
    <3> QED
      BY <3>1, <3>2, Zenon DEF Accept, NewDisp, AskStop, vars, boxes
  <2>5. SameIn(Pending(mail), Pending(mail'), PutsOf(w))
    <3>1. CASE mail' = mail
      BY <3>1, SameSelf
    <3>2. CASE Accept
      <4>1. ToPool(Msg("get", disp, 0)) /\ disp \in Disps
        BY <3>2 DEF Accept, PoolTypes, TypeOK
      <4> QED
        BY <4>1, <1>MailOthers, Zenon
    <3>3. ASSUME NEW v \in Workers, AskStop(v)
          PROVE  SameIn(Pending(mail), Pending(mail'), PutsOf(w))
      <4>1. ToPool(Msg("stop", 0, v))
        BY <3>3 DEF AskStop
      <4> QED
        BY <4>1, <1>MailOthers, Zenon
    <3> QED
      BY <3>1, <3>2, <3>3 DEF TaskAdded, NewDisp, vars, boxes
  <2>6. StaysPut(w) /\ StillKnown(w)
    BY <2>2, <2>3, <2>4, <2>5, Zenon DEF StaysPut, StillKnown, WorkerOf, KnownOf
  <2> QED
    BY <2>6, <1>PlaceQuiet, <1>KnownQuiet DEF WorkerOf
<1>1. SUFFICES ASSUME PoolInv, [Next]_vars, NEW w \in Workers PROVE WorkerOf(w)'
  OBVIOUS
<1>2. PoolTypes /\ CallInv /\ \A v \in Workers : WorkerOf(v)
  BY <1>1 DEF PoolInv
<1>4. /\ InOrder
      /\ \A v \in Workers : wlife[v] = "none" => procs[v] = "none"
      /\ \A v \in Workers : Live(v) => v \in srec \cup {sw}
  BY <1>2, Zenon DEF WorkerOf, KnownOf, InOrder
<1>5. \/ Pool \/ Sup \/ Dispatcher \/ Accept \/ NewDisp \/ UNCHANGED vars
      \/ \E v \in Workers : Worker(v) \/ on_message(v) \/ LastSlice(v) \/ Die(v) \/ AskStop(v)
  BY <1>1, Zenon DEF Next
<1>6. WorkerOf(w)
  BY <1>2
<1>7. CASE Pool
  BY <1>2, <1>6, <1>7, <1>GetProcessStep, <1>PutStep, <1>PoolRestStep DEF Pool
<1>8. CASE Sup
  BY <1>2, <1>4, <1>6, <1>8, <1>SupWorkerStep
<1>9. CASE Dispatcher \/ Accept \/ NewDisp \/ UNCHANGED vars
  BY <1>2, <1>6, <1>9, <1>GotWorkerStep, <1>RestStep DEF Dispatcher
<1>10. ASSUME NEW v \in Workers, Worker(v) \/ on_message(v) \/ LastSlice(v) \/ Die(v) \/ AskStop(v)
       PROVE  WorkerOf(w)'
  BY <1>2, <1>6, <1>10, <1>OffersStep, <1>AddTaskStep, <1>DieStep, <1>RestStep DEF Worker
<1> QED
  BY <1>5, <1>7, <1>8, <1>9, <1>10

LEMMA InvStep == PoolInv /\ [Next]_vars => PoolInv'
BY StepTypes, CallStep, WorkersStep DEF PoolInv

LEMMA PoolInvariance == Spec => []PoolInv
BY InitInv, InvStep, PTL DEF Spec

-----------------------------------------------------------------------------
(* What the pool promises *)

INSTANCE FiniteSetTheorems

LEMMA OneAnswer ==
    ASSUME PoolTypes, CallInv
    PROVE  AnswerIsForThisCall
<1>1. Pending(mail) \in Seq(Messages)
  BY PendingTyped, Zenon DEF PoolTypes, BoxTypes
<1>2. PoolAnswers = Answered
  BY <1>1 DEF PoolAnswers, Answered, IndexesOf
<1>3. CASE Answered = {}
  <2>1. Cardinality(PoolAnswers) = 0
    BY <1>2, <1>3, FS_EmptySet
  <2> QED
    BY <2>1 DEF AnswerIsForThisCall
<1>4. CASE Answered # {}
  <2>1. PICK i : i \in Answered
    BY <1>4
  <2>2. Answered = {i}
    BY <2>1 DEF CallInv, AtMostOne
  <2>3. Cardinality(PoolAnswers) = 1
    BY <1>2, <2>2, FS_Singleton, Zenon
  <2>4. ppc \notin {"init", "loop"}
    BY <1>4 DEF CallInv
  <2> QED
    BY <2>3, <2>4 DEF AnswerIsForThisCall
<1> QED
  BY <1>3, <1>4

(* client:call takes the first message of the supervisor for its answer,   *)
(* and nothing in it says to which request (rpc_client.lua).  As the pool  *)
(* sends one request at a time and the supervisor answers none of its own  *)
(* restarts, an answer is there only while the pool waits for it, and      *)
(* there is one.                                                           *)
THEOREM AnswersAreForTheCall == Spec => []AnswerIsForThisCall
<1>1. PoolInv => AnswerIsForThisCall
  BY OneAnswer DEF PoolInv
<1> QED
  BY <1>1, PoolInvariance, PTL

(* Whatever dies, is stopped or is started again, a worker is in one place *)
(* only: in _dataq, in a put, in an answer to a dispatcher, in a task, or  *)
(* at work (pool.lua, processor.lua); so no worker serves two connections  *)
(* at once, and a live worker is never forgotten.                          *)
THEOREM WorkersAreKept == Spec => []WorkersKept
<1>1. PoolInv => WorkersKept
  <2>1. SUFFICES ASSUME PoolInv PROVE WorkersKept
    OBVIOUS
  <2>2. PoolTypes /\ \A w \in Workers : PlaceOf(w)
    BY <2>1 DEF PoolInv, WorkerOf
  <2>3. HandedOnce /\ NoWorkerLost
    BY <2>2, PlacesAre DEF HandedOnce, NoWorkerLost
  <2> QED
    BY <2>2, <2>3 DEF WorkersKept, PoolTypes
<1> QED
  BY <1>1, PoolInvariance, PTL

=============================================================================
