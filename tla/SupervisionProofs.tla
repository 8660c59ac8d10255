-------------------------- MODULE SupervisionProofs --------------------------
(***************************************************************************)
(* Proofs about Supervision, for any kids, any number of spawns, requests, *)
(* crashes and names.                                                      *)
(***************************************************************************)
EXTENDS Supervision, TLAPS

-----------------------------------------------------------------------------
(* What the operations of recv and recv_by_condition do to the messages in *)
(* the boxes.                                                              *)

Elems(s) == {s[j] : j \in 1..Len(s)}

LEMMA ElemsAppend ==
    ASSUME NEW S, NEW s \in Seq(S), NEW m \in S
    PROVE  Elems(Append(s, m)) = Elems(s) \cup {m}
BY DEF Elems

LEMMA ElemsConcat ==
    ASSUME NEW S, NEW s \in Seq(S), NEW t \in Seq(S)
    PROVE  Elems(s \o t) = Elems(s) \cup Elems(t)
<1>1. Elems(s \o t) \subseteq Elems(s) \cup Elems(t)
  BY DEF Elems
<1>2. Elems(s) \subseteq Elems(s \o t)
  BY DEF Elems
<1>3. \A j \in 1..Len(t) : (s \o t)[Len(s) + j] = t[j] /\ Len(s) + j \in 1..Len(s \o t)
  OBVIOUS
<1>4. Elems(t) \subseteq Elems(s \o t)
  BY <1>3 DEF Elems
<1> QED
  BY <1>1, <1>2, <1>4

LEMMA ElemsTail ==
    ASSUME NEW S, NEW s \in Seq(S), s # <<>>
    PROVE  /\ Tail(s) \in Seq(S) /\ Head(s) \in S
           /\ Elems(s) = Elems(Tail(s)) \cup {Head(s)}
<1>1. Tail(s) \in Seq(S) /\ Head(s) \in S /\ Head(s) = s[1] /\ Len(s) # 0
  OBVIOUS
<1>2. \A j \in 1..Len(Tail(s)) : Tail(s)[j] = s[j + 1] /\ j + 1 \in 1..Len(s)
  OBVIOUS
<1>3. Elems(Tail(s)) \cup {Head(s)} \subseteq Elems(s)
  BY <1>1, <1>2 DEF Elems
<1>4. \A j \in 1..Len(s) : j = 1 \/ (j - 1 \in 1..Len(Tail(s)) /\ Tail(s)[j - 1] = s[j])
  BY <1>1
<1>5. Elems(s) \subseteq Elems(Tail(s)) \cup {Head(s)}
  BY <1>1, <1>4 DEF Elems
<1> QED
  BY <1>1, <1>3, <1>5

(* A box holds what its three sequences hold.                              *)
LEMMA InsideOf ==
    ASSUME NEW b \in Boxes
    PROVE  Inside(b) = Elems(b.cache) \cup Elems(b.cacheBox) \cup Elems(b.box)
<1>1. b.cache \in Seq(Messages) /\ b.cacheBox \in Seq(Messages) /\ b.box \in Seq(Messages)
  BY DEF Boxes
<1>2. b.cache \o b.cacheBox \in Seq(Messages)
  BY <1>1
<1>3. Inside(b) = Elems(Pending(b))
  BY DEF Inside, Elems
<1>4. Pending(b) = (b.cache \o b.cacheBox) \o b.box
  BY DEF Pending
<1>5. Elems(Pending(b)) = Elems(b.cache \o b.cacheBox) \cup Elems(b.box)
  BY <1>1, <1>2, <1>4, ElemsConcat, Zenon
<1>6. Elems(b.cache \o b.cacheBox) = Elems(b.cache) \cup Elems(b.cacheBox)
  BY <1>1, ElemsConcat
<1> QED
  BY <1>3, <1>5, <1>6

LEMMA BoxArrive ==
    ASSUME NEW b \in Boxes, NEW m \in Messages
    PROVE  Arrive(b, m) \in Boxes /\ Inside(Arrive(b, m)) = Inside(b) \cup {m}
<1> DEFINE a == Arrive(b, m)
<1>1. /\ b.cache \in Seq(Messages) /\ b.cacheBox \in Seq(Messages) /\ b.box \in Seq(Messages)
      /\ a.cache = b.cache /\ a.cacheBox = b.cacheBox /\ a.box = Append(b.box, m)
  BY DEF Boxes, Arrive
<1>2. a \in Boxes
  <2>1. Append(b.box, m) \in Seq(Messages)
    BY <1>1
  <2> QED
    BY <2>1, Zenon DEF Boxes, Arrive
<1>3. Elems(a.box) = Elems(b.box) \cup {m}
  BY <1>1, ElemsAppend
<1> QED
  BY <1>1, <1>2, <1>3, InsideOf, Zenon

LEMMA BoxRest ==
    ASSUME NEW b \in Boxes, Available(b)
    PROVE  /\ Rest(b) \in Boxes /\ First(b) \in Messages /\ Rest(b).cache = b.cache
           /\ Inside(b) = Inside(Rest(b)) \cup {First(b)}
<1> DEFINE a == Rest(b)
<1>1. b.cache \in Seq(Messages) /\ b.cacheBox \in Seq(Messages) /\ b.box \in Seq(Messages)
  BY DEF Boxes
<1>2. CASE b.cacheBox # <<>>
  <2>1. Tail(b.cacheBox) \in Seq(Messages) /\ First(b) \in Messages
        /\ Elems(b.cacheBox) = Elems(Tail(b.cacheBox)) \cup {First(b)}
    BY <1>1, <1>2, ElemsTail DEF First
  <2>2. a = [b EXCEPT !.cacheBox = Tail(b.cacheBox)]
    BY <1>2 DEF Rest
  <2>3. a \in Boxes /\ a.cache = b.cache /\ a.cacheBox = Tail(b.cacheBox) /\ a.box = b.box
    BY <2>1, <2>2, Zenon DEF Boxes
  <2> QED
    BY <2>1, <2>3, InsideOf
<1>3. CASE b.cacheBox = <<>>
  <2>1. Tail(b.box) \in Seq(Messages) /\ First(b) \in Messages
        /\ Elems(b.box) = Elems(Tail(b.box)) \cup {First(b)}
    BY <1>1, <1>3, ElemsTail DEF First, Available
  <2>2. a = [b EXCEPT !.box = Tail(b.box)]
    BY <1>3 DEF Rest
  <2>3. a \in Boxes /\ a.cache = b.cache /\ a.cacheBox = b.cacheBox /\ a.box = Tail(b.box)
    BY <2>1, <2>2, Zenon DEF Boxes
  <2> QED
    BY <2>1, <2>3, InsideOf
<1> QED
  BY <1>2, <1>3

LEMMA BoxRestore ==
    ASSUME NEW b \in Boxes
    PROVE  Restore(b) \in Boxes /\ Inside(Restore(b)) = Inside(b)
<1> DEFINE a == Restore(b)
<1>1. b.cache \in Seq(Messages) /\ b.cacheBox \in Seq(Messages) /\ b.box \in Seq(Messages)
  BY DEF Boxes
<1>2. a = [b EXCEPT !.cacheBox = b.cache \o b.cacheBox, !.cache = <<>>]
  BY DEF Restore
<1>3. b.cache \o b.cacheBox \in Seq(Messages) /\ <<>> \in Seq(Messages)
  BY <1>1
<1>4. a.cache = <<>> /\ a.cacheBox = b.cache \o b.cacheBox /\ a.box = b.box
  BY <1>2 DEF Boxes
<1>5. a \in Boxes
  BY <1>2, <1>3, Zenon DEF Boxes
<1>6. Elems(a.cache) = {}
  BY <1>4 DEF Elems
<1>7. Elems(a.cacheBox) = Elems(b.cache) \cup Elems(b.cacheBox)
  BY <1>1, <1>4, ElemsConcat
<1> QED
  BY <1>4, <1>5, <1>6, <1>7, InsideOf, Zenon

LEMMA BoxAside ==
    ASSUME NEW b \in Boxes, Available(b)
    PROVE  SetAside(b) \in Boxes /\ Inside(SetAside(b)) = Inside(b)
<1> DEFINE r == Rest(b)
           a == SetAside(b)
<1>1. /\ r \in Boxes /\ First(b) \in Messages
      /\ Inside(b) = Inside(r) \cup {First(b)}
  BY BoxRest
<1>2. a = [r EXCEPT !.cache = Append(r.cache, First(b))]
  BY DEF SetAside
<1>3. r.cache \in Seq(Messages) /\ r.cacheBox \in Seq(Messages) /\ r.box \in Seq(Messages)
  BY <1>1 DEF Boxes
<1> HIDE DEF r, a
<1>4. Append(r.cache, First(b)) \in Seq(Messages)
  BY <1>1, <1>3
<1>5. /\ a \in Boxes /\ a.cacheBox = r.cacheBox /\ a.box = r.box
      /\ a.cache = Append(r.cache, First(b))
  BY <1>1, <1>2, <1>3, <1>4, Zenon DEF Boxes
<1> USE DEF r, a
<1>6. Elems(a.cache) = Elems(r.cache) \cup {First(b)}
  BY <1>1, <1>3, <1>5, ElemsAppend
<1> QED
  BY <1>1, <1>5, <1>6, InsideOf, Zenon

LEMMA BoxTake ==
    ASSUME NEW b \in Boxes, Available(b)
    PROVE  /\ TakeFirst(b) \in Boxes /\ First(b) \in Messages
           /\ Inside(b) = Inside(TakeFirst(b)) \cup {First(b)}
BY BoxRest, BoxRestore DEF TakeFirst

-----------------------------------------------------------------------------
(* NamedProcessTable *)

LifeTypes == life \in [Spawns -> {"none", "spawned", "up", "ended", "exited", "cleaned", "gone"}]

NameTypes ==
    /\ LifeTypes
    /\ kid \in [Spawns -> Kids] /\ names \in [Kids -> 0..MaxSpawns]
    /\ nameOf \in [Spawns -> SUBSET Kids]

(* What a child goes through by itself, except for its name.               *)
Ages(i) ==
    \/ life'[i] = life[i]
    \/ life[i] \in {"spawned", "up", "ended"} /\ life'[i] \in {"ended", "exited"}
    \/ life[i] = "cleaned" /\ life'[i] = "gone"
    \/ life[i] = "none" /\ life'[i] = "spawned"

LEMMA NamesStay ==
    ASSUME NameTypes, NamesInv, UNCHANGED nameVars,
           \A i \in Spawns : Ages(i),
           \A i \in Spawns : life[i] # "none" => kid'[i] = kid[i]
    PROVE  NamesInv'
<1>1. ASSUME NEW k \in Kids PROVE EntryOf(k)'
  <2>1. names[k] \in 0..MaxSpawns /\ names' = names /\ nameOf' = nameOf /\ renamed' = renamed
    BY DEF NameTypes, nameVars
  <2>2. CASE names[k] = 0
    BY <2>1, <2>2 DEF EntryOf
  <2>3. CASE names[k] # 0
    <3>1. names[k] \in Spawns
      BY <2>1, <2>3, SupervisionAssumption DEF Spawns
    <3>2. EntryOf(k) /\ Ages(names[k])
      BY <3>1 DEF NamesInv
    <3> QED
      BY <2>1, <2>3, <3>2 DEF EntryOf, Ages
  <2> QED
    BY <2>2, <2>3
<1>2. ASSUME NEW j \in Spawns, NEW k \in Kids PROVE OwnedOf(j, k)'
  <2>1. OwnedOf(j, k) /\ Ages(j)
    BY DEF NamesInv
  <2> QED
    BY <2>1 DEF OwnedOf, Ages, nameVars
<1>3. ASSUME NEW i \in Spawns, life'[i] = "up", <<i, kid'[i]>> \notin unreg'
      PROVE  names'[kid'[i]] = i \/ \E j \in Spawns \ {i} : <<j, kid'[i]>> \in unreg'
  <2>1. life[i] = "up"
    BY <1>3 DEF Ages
  <2>2. kid'[i] = kid[i]
    BY <2>1
  <2> QED
    BY <1>3, <2>1, <2>2 DEF NamesInv, NameKept, nameVars
<1> QED
  BY <1>1, <1>2, <1>3 DEF NamesInv, NameKept

LEMMA RegisterNames ==
    ASSUME NameTypes, NamesInv, NEW i \in Spawns, life[i] = "spawned", names[kid[i]] = 0,
           names' = [names EXCEPT ![kid[i]] = i],
           nameOf' = [nameOf EXCEPT ![i] = {kid[i]}],
           life' = [life EXCEPT ![i] = "up"],
           UNCHANGED <<kid, unreg, renamed>>
    PROVE  NamesInv'
<1>0. /\ i # 0 /\ \A k \in Kids : names[k] # 0 => names[k] \in Spawns
      /\ kid[i] \in Kids
  BY SupervisionAssumption DEF NameTypes, Spawns
<1>1. ASSUME NEW k \in Kids PROVE EntryOf(k)'
  <2>1. EntryOf(k)
    BY DEF NamesInv
  <2>2. CASE k = kid[i]
    <3>1. names'[k] = i /\ life'[i] = "up" /\ nameOf'[i] = {k}
      BY <2>2 DEF NameTypes, LifeTypes
    <3> QED
      BY <3>1 DEF EntryOf
  <2>3. CASE k # kid[i]
    <3>1. names'[k] = names[k]
      BY <2>3 DEF NameTypes
    <3>2. names[k] # i
      BY <2>1, <1>0 DEF EntryOf
    <3>3. names[k] # 0 => life'[names[k]] = life[names[k]] /\ nameOf'[names[k]] = nameOf[names[k]]
      BY <1>0, <3>2 DEF NameTypes, LifeTypes
    <3> QED
      BY <2>1, <3>1, <3>3 DEF EntryOf
  <2> QED
    BY <2>2, <2>3
<1>2. ASSUME NEW j \in Spawns, NEW k \in Kids PROVE OwnedOf(j, k)'
  <2>1. OwnedOf(j, k)
    BY DEF NamesInv
  <2>2. CASE j = i
    BY <2>2, <1>0 DEF OwnedOf, NameTypes
  <2>3. CASE j # i
    <3>1. nameOf'[j] = nameOf[j] /\ life'[j] = life[j] /\ j # 0
      BY <2>3 DEF NameTypes, LifeTypes, Spawns
    <3>2. names[k] = j => names'[k] = j
      BY <3>1, <1>0 DEF NameTypes
    <3> QED
      BY <2>1, <3>1, <3>2 DEF OwnedOf
  <2> QED
    BY <2>2, <2>3
<1>3. ASSUME NEW j \in Spawns, life'[j] = "up", <<j, kid'[j]>> \notin unreg'
      PROVE  names'[kid'[j]] = j \/ \E h \in Spawns \ {j} : <<h, kid'[j]>> \in unreg'
  <2>1. CASE j = i
    BY <2>1, <1>0 DEF NameTypes
  <2>2. CASE j # i
    <3>1. life[j] = "up" /\ j # 0 /\ kid[j] \in Kids
      BY <2>2, <1>3 DEF NameTypes, LifeTypes, Spawns
    <3>2. names[kid[j]] = j \/ \E h \in Spawns \ {j} : <<h, kid[j]>> \in unreg
      BY <3>1, <1>3 DEF NamesInv, NameKept
    <3>3. names[kid[j]] = j => names'[kid[j]] = j
      BY <3>1, <1>0 DEF NameTypes
    <3> QED
      BY <3>2, <3>3
  <2> QED
    BY <2>1, <2>2, Zenon
<1> QED
  BY <1>1, <1>2, <1>3 DEF NamesInv, NameKept

LEMMA RegisterMoreNames ==
    ASSUME NameTypes, NamesInv, NEW i \in Spawns, NEW n \in Kids,
           life[i] = "up", names[n] = 0,
           names' = [names EXCEPT ![n] = i],
           nameOf' = [nameOf EXCEPT ![i] = {n}],
           renamed' = renamed \cup {i},
           UNCHANGED <<life, kid, unreg>>
    PROVE  NamesInv'
<1>0. /\ i # 0 /\ \A k \in Kids : names[k] # 0 => names[k] \in Spawns
  BY SupervisionAssumption DEF NameTypes, Spawns
<1>1. ASSUME NEW k \in Kids PROVE EntryOf(k)'
  <2>1. EntryOf(k)
    BY DEF NamesInv
  <2>2. CASE names'[k] = i
    BY <2>2 DEF EntryOf
  <2>3. CASE names'[k] # i
    <3>1. names'[k] = names[k]
      BY <2>3 DEF NameTypes
    <3>2. names[k] # 0 => nameOf'[names[k]] = nameOf[names[k]]
      BY <1>0, <2>3, <3>1 DEF NameTypes
    <3> QED
      BY <2>1, <3>1, <3>2 DEF EntryOf
  <2> QED
    BY <2>2, <2>3
<1>2. ASSUME NEW j \in Spawns, NEW k \in Kids PROVE OwnedOf(j, k)'
  <2>1. OwnedOf(j, k)
    BY DEF NamesInv
  <2>2. CASE j = i
    BY <2>2, <1>0 DEF OwnedOf, NameTypes
  <2>3. CASE j # i
    <3>1. nameOf'[j] = nameOf[j] /\ j # 0
      BY <2>3 DEF NameTypes, Spawns
    <3>2. names[k] = j => names'[k] = j
      BY <3>1 DEF NameTypes
    <3> QED
      BY <2>1, <3>1, <3>2 DEF OwnedOf
  <2> QED
    BY <2>2, <2>3
<1>3. ASSUME NEW j \in Spawns, life'[j] = "up", <<j, kid'[j]>> \notin unreg'
      PROVE  names'[kid'[j]] = j \/ \E h \in Spawns \ {j} : <<h, kid'[j]>> \in unreg'
  <2>1. life[j] = "up" /\ j # 0 /\ kid[j] \in Kids
    BY <1>3 DEF NameTypes, Spawns
  <2>2. names[kid[j]] = j \/ \E h \in Spawns \ {j} : <<h, kid[j]>> \in unreg
    BY <2>1, <1>3 DEF NamesInv, NameKept
  <2>3. names[kid[j]] = j => names'[kid[j]] = j
    BY <2>1 DEF NameTypes
  <2> QED
    BY <2>2, <2>3
<1> QED
  BY <1>1, <1>2, <1>3 DEF NamesInv, NameKept

LEMMA UnRegisterNames ==
    ASSUME NameTypes, NamesInv, NEW i \in Spawns, NEW n \in Kids,
           names' = [names EXCEPT ![n] = 0],
           unreg' = unreg \cup {<<i, n>>},
           UNCHANGED <<life, kid, nameOf, renamed>>
    PROVE  NamesInv'
<1>1. ASSUME NEW k \in Kids PROVE EntryOf(k)'
  <2>1. EntryOf(k) /\ (names'[k] = 0 \/ names'[k] = names[k])
    BY DEF NamesInv, NameTypes
  <2> QED
    BY <2>1 DEF EntryOf
<1>2. ASSUME NEW j \in Spawns, NEW k \in Kids PROVE OwnedOf(j, k)'
  <2>1. OwnedOf(j, k)
    BY DEF NamesInv
  <2>2. CASE k = n
    BY <2>2 DEF OwnedOf
  <2>3. CASE k # n
    <3>1. names'[k] = names[k]
      BY <2>3 DEF NameTypes
    <3> QED
      BY <2>1, <3>1 DEF OwnedOf
  <2> QED
    BY <2>2, <2>3
<1>3. ASSUME NEW j \in Spawns, life'[j] = "up", <<j, kid'[j]>> \notin unreg'
      PROVE  names'[kid'[j]] = j \/ \E h \in Spawns \ {j} : <<h, kid'[j]>> \in unreg'
  <2>1. life[j] = "up" /\ kid[j] \in Kids /\ <<j, kid[j]>> \notin unreg
    BY <1>3 DEF NameTypes
  <2>2. names[kid[j]] = j \/ \E h \in Spawns \ {j} : <<h, kid[j]>> \in unreg
    BY <2>1 DEF NamesInv, NameKept
  <2>3. CASE kid[j] = n
    BY <1>3, <2>3
  <2>4. CASE kid[j] # n
    BY <2>1, <2>2, <2>4, Zenon DEF NameTypes
  <2> QED
    BY <2>3, <2>4
<1> QED
  BY <1>1, <1>2, <1>3 DEF NamesInv, NameKept

(* Clean deletes the entry of __name__, whose ever it is: a process it     *)
(* does not belong to can only have got it after the name was given up.    *)
LEMMA CleanNames ==
    ASSUME NameTypes, NamesInv, NEW i \in Spawns, NEW l \in {"cleaned", "gone"},
           life[i] \in {"up", "exited"},
           life' = [life EXCEPT ![i] = l],
           names' = Cleaned(i),
           UNCHANGED <<kid, nameOf, unreg, renamed>>
    PROVE  NamesInv'
<1>0. \A k \in Kids : /\ names'[k] = IF k \in nameOf[i] THEN 0 ELSE names[k]
                      /\ names[k] # 0 => names[k] \in Spawns
  BY SupervisionAssumption DEF Cleaned, NameTypes, Spawns
<1>1. ASSUME NEW k \in Kids PROVE EntryOf(k)'
  <2>1. EntryOf(k)
    BY DEF NamesInv
  <2>2. CASE names'[k] = 0
    BY <2>2 DEF EntryOf
  <2>3. CASE names'[k] # 0
    <3>1. names'[k] = names[k] /\ k \notin nameOf[i] /\ names[k] \in Spawns
      BY <1>0, <2>3
    <3>2. CASE names[k] = i
      BY <2>1, <2>3, <3>1, <3>2 DEF EntryOf, NameTypes, LifeTypes
    <3>3. CASE names[k] # i
      <4>1. life'[names[k]] = life[names[k]]
        BY <3>1, <3>3 DEF NameTypes, LifeTypes
      <4> QED
        BY <2>1, <3>1, <4>1 DEF EntryOf
    <3> QED
      BY <3>2, <3>3
  <2> QED
    BY <2>2, <2>3
<1>2. ASSUME NEW k \in Kids, k \in nameOf[i] PROVE names[k] = i \/ \E h \in Spawns : <<h, k>> \in unreg
  <2>1. OwnedOf(i, k)
    BY DEF NamesInv
  <2> QED
    BY <1>2, <2>1 DEF OwnedOf
<1>3. ASSUME NEW j \in Spawns, NEW k \in Kids PROVE OwnedOf(j, k)'
  <2>1. OwnedOf(j, k)
    BY DEF NamesInv
  <2>2. CASE j = i
    <3>1. life'[j] = l
      BY <2>2 DEF NameTypes, LifeTypes
    <3> QED
      BY <3>1 DEF OwnedOf
  <2>3. CASE j # i
    <3>1. life'[j] = life[j]
      BY <2>3 DEF NameTypes, LifeTypes
    <3> QED
      BY <1>0, <1>2, <2>1, <2>3, <3>1 DEF OwnedOf
  <2> QED
    BY <2>2, <2>3
<1>4. ASSUME NEW j \in Spawns, life'[j] = "up", <<j, kid'[j]>> \notin unreg'
      PROVE  names'[kid'[j]] = j \/ \E h \in Spawns \ {j} : <<h, kid'[j]>> \in unreg'
  <2>1. j # i /\ life[j] = "up" /\ kid[j] \in Kids /\ kid' = kid /\ unreg' = unreg
    BY <1>4 DEF NameTypes, LifeTypes
  <2>2. names[kid[j]] = j \/ \E h \in Spawns \ {j} : <<h, kid[j]>> \in unreg
    BY <1>4, <2>1, Zenon DEF NamesInv, NameKept
  <2>3. CASE kid[j] \in nameOf[i] /\ names[kid[j]] = j
    <3>1. PICK h \in Spawns : <<h, kid[j]>> \in unreg
      BY <1>2, <2>1, <2>3
    <3>2. h # j
      BY <1>4, <2>1, <3>1
    <3> QED
      BY <2>1, <3>1, <3>2
  <2>4. CASE kid[j] \notin nameOf[i]
    BY <1>0, <2>1, <2>2, <2>4
  <2> QED
    BY <2>1, <2>2, <2>3, <2>4
<1> QED
  BY <1>1, <1>3, <1>4 DEF NamesInv, NameKept

-----------------------------------------------------------------------------
(* The supervisor.  Ground is what holds of the messages and the children; *)
(* Care is what the supervisor does with them.                             *)

Ground ==
    /\ TypeOK /\ mail \in Boxes
    /\ \A i \in Spawns : SpawnOf(i)
    /\ \A m \in Inside(mail) : LastWords(m)

Care == Waited /\ watched \cap ByName = {} /\ Supervised /\ Watched /\ DeathNoticed

ExitIn(b, i) == \E m \in Inside(b) : m.type = "EXIT" /\ m.from = i

LEMMA ExitIs == \A i : ExitPending(i) <=> ExitIn(mail, i)
BY DEF ExitPending, ExitIn, Inside

LEMMA ExitIsNext == \A i : ExitPending(i)' <=> ExitIn(mail', i)
BY DEF ExitPending, ExitIn, Inside

LEMMA MsgTyped ==
    ASSUME NEW type \in {"start", "stop", "restart", "reply", "EXIT"}, NEW from \in 0..MaxSpawns
    PROVE  Msg(type, from) \in Messages /\ Msg(type, from).type = type /\ Msg(type, from).from = from
<1>1. AnyKid \in Kids
  BY SupervisionAssumption DEF AnyKid
<1>2. 0 \in 0..MaxSpawns
  BY SupervisionAssumption
<1> QED
  BY <1>1, <1>2 DEF Msg, Messages

LEMMA InMessages ==
    ASSUME NEW b \in Boxes
    PROVE  Inside(b) \subseteq Messages
<1>1. b.cache \in Seq(Messages) /\ b.cacheBox \in Seq(Messages) /\ b.box \in Seq(Messages)
  BY DEF Boxes
<1>2. \A s \in Seq(Messages) : Elems(s) \subseteq Messages
  BY DEF Elems
<1> QED
  BY <1>1, <1>2, InsideOf

(* A receive: nothing new comes in, and only a message that is taken goes. *)
LEMMA Receive ==
    ASSUME mail \in Boxes,
           \/ HasMail /\ (Take \/ PutAside)
           \/ TimeOut
    PROVE  /\ mail' \in Boxes /\ Inside(mail') \subseteq Inside(mail)
           /\ (HasMail /\ PutAside) \/ TimeOut => Inside(mail') = Inside(mail)
           /\ \A m \in Inside(mail) : m \in Inside(mail') \/ m = Top
           /\ HasMail => Top \in Messages /\ Top \in Inside(mail)
<1>1. CASE HasMail /\ Take
  BY <1>1, BoxTake, BoxAside DEF HasMail, Take, Top, TimeOut, PutAside
<1>2. CASE HasMail /\ PutAside
  BY <1>2, BoxAside, BoxTake DEF HasMail, PutAside, Top, TimeOut
<1>3. CASE TimeOut
  BY <1>3, BoxRestore DEF TimeOut, GiveUp
<1> QED
  BY <1>1, <1>2, <1>3

LEMMA ReceiveGround ==
    ASSUME Ground, TypeOK', life' = life, next' = next,
           \/ HasMail /\ (Take \/ PutAside)
           \/ TimeOut
    PROVE  Ground'
<1>1. mail' \in Boxes /\ Inside(mail') \subseteq Inside(mail)
  BY Receive DEF Ground
<1>2. \A i \in Spawns : SpawnOf(i)'
  BY DEF Ground, SpawnOf
<1>3. \A m \in Inside(mail') : LastWords(m)'
  BY <1>1 DEF Ground, LastWords
<1> QED
  BY <1>1, <1>2, <1>3 DEF Ground

(* What a child may do to its life while the supervisor does nothing.      *)
Grows(i) ==
    /\ (life[i] = "none") = (life'[i] = "none")
    /\ life'[i] \in {"spawned", "up"} => life[i] \in {"spawned", "up"}
    /\ \/ life[i] \in {"spawned", "up", "ended"} => life'[i] \in {"spawned", "up", "ended"}
       \/ ExitIn(mail', i)

LEMMA ChildKeeps ==
    ASSUME Ground, Care, TypeOK', mail' \in Boxes,
           UNCHANGED <<kid, orders, superVars>>,
           \A i \in Spawns : Grows(i),
           Inside(mail) \subseteq Inside(mail'),
           \A m \in Inside(mail') : m \in Inside(mail) \/ LastWords(m)'
    PROVE  Ground' /\ Care'
<1> USE DEF superVars, pastVars, orders
<1>1. \A i \in Spawns : SpawnOf(i)'
  BY DEF Ground, SpawnOf, Grows
<1>2. \A m \in Inside(mail) : m.from \in 0..MaxSpawns
  BY InMessages DEF Ground, Messages
<1>3. ASSUME NEW m \in Inside(mail) PROVE LastWords(m)'
  <2>1. CASE m.from = 0
    BY <2>1 DEF LastWords
  <2>2. CASE m.from # 0
    <3>1. m.from \in Spawns
      BY <1>2, <2>2, SupervisionAssumption DEF Spawns
    <3>2. Grows(m.from) /\ LastWords(m)
      BY <3>1 DEF Ground
    <3> QED
      BY <2>2, <3>2 DEF LastWords, Grows
  <2> QED
    BY <2>1, <2>2
<1>4. \A m \in Inside(mail') : LastWords(m)'
  BY <1>3
<1>5. Ground'
  BY <1>1, <1>4 DEF Ground
<1>6. \A i \in Spawns : ExitPending(i) => ExitPending(i)'
  BY ExitIs, ExitIsNext DEF ExitIn
<1>7. \A i \in Spawns : ExitIn(mail', i) => ExitPending(i)'
  BY ExitIsNext
<1>8. cur \in 0..MaxSpawns /\ cur # 0 => cur \in Spawns
  BY SupervisionAssumption DEF Spawns
<1>9. cur \in 0..MaxSpawns /\ (cur # 0) = (spc \in {"wait", "stopCall", "stopWait"})
      /\ records \subseteq Spawns
  BY SupervisionAssumption DEF Ground, TypeOK, Spawns
<1>10. Waited'
  <2>1. (cur # 0 => cur \notin records)'
    BY DEF Care, Waited
  <2>2. ASSUME spc = "stopWait"
        PROVE  life'[cur] \notin {"spawned", "up"} \/ cur \in killed \cup letgo
    <3>1. cur \in Spawns
      BY <1>8, <1>9, <2>2
    <3>2. Grows(cur)
      BY <3>1
    <3> QED
      BY <2>2, <3>2 DEF Care, Waited, Grows
  <2>3. ASSUME spc = "wait"
        PROVE  life'[cur] \in {"spawned", "up", "ended"} \/ ExitPending(cur)'
    <3>1. cur \in Spawns
      BY <1>8, <1>9, <2>3
    <3>2. Grows(cur)
      BY <3>1
    <3> QED
      BY <1>6, <1>7, <2>3, <3>1, <3>2 DEF Care, Waited, Grows
  <2> QED
    BY <2>1, <2>2, <2>3 DEF Waited
<1>11. Supervised'
  BY DEF Care, Supervised, Grows
<1>12. Watched'
  BY DEF Care, Watched
<1>13. DeathNoticed'
  <2>1. SUFFICES ASSUME NEW i \in records
                 PROVE  \/ life'[i] \in {"spawned", "up", "ended"}
                        \/ ExitPending(i)' \/ ExitSwallowed(i)'
    BY DEF DeathNoticed
  <2>2. i \in Spawns /\ Grows(i)
    BY <1>9
  <2>3. \/ life[i] \in {"spawned", "up", "ended"}
        \/ ExitPending(i) \/ ExitSwallowed(i)
    BY DEF Care, DeathNoticed
  <2>4. ExitSwallowed(i) => ExitSwallowed(i)'
    BY DEF ExitSwallowed
  <2> QED
    BY <1>6, <1>7, <2>2, <2>3, <2>4 DEF Grows
<1> QED
  BY <1>5, <1>10, <1>11, <1>12, <1>13 DEF Care

LEMMA ChildStep ==
    ASSUME Ground, Care, NEW i \in Spawns, Child(i) \/ Destory(i)
    PROVE  Ground' /\ Care'
<1> USE DEF nameVars, bounds, Become
<1>1. life \in [Spawns -> {"none", "spawned", "up", "ended", "exited", "cleaned", "gone"}]
  BY DEF Ground, TypeOK
<1>2. life[i] # "none" => i \in 1..next
  BY DEF Ground, SpawnOf, Spawns, TypeOK
<1>3. i \in 0..MaxSpawns /\ i # 0
  BY SupervisionAssumption DEF Spawns
<1>4. ASSUME NEW m \in Messages, Deliver(m)
      PROVE  mail' \in Boxes /\ Inside(mail') = Inside(mail) \cup {m}
  BY <1>4, BoxArrive DEF Ground, Deliver
<1>5. CASE Register(i)
  <2>1. TypeOK'
    BY <1>2, <1>5 DEF Ground, TypeOK, Register, superVars, pastVars, orders, Spawns
  <2>2. \A j \in Spawns : Grows(j)
    BY <1>1, <1>5 DEF Register, Grows
  <2> QED
    BY <1>5, <2>1, <2>2, ChildKeeps DEF Register, Ground
<1>6. CASE UnRegister(i)
  <2>0. PICK k \in nameOf[i] : /\ names' = [names EXCEPT ![k] = 0]
                               /\ unreg' = unreg \cup {<<i, k>>}
    BY <1>6, Zenon DEF UnRegister
  <2>k. /\ k \in Kids /\ i \in 1..next /\ 0 \in 0..MaxSpawns
        /\ UNCHANGED <<life, kid, nameOf, renamed, orders, superVars, bounds>>
    BY <1>2, <1>6, SupervisionAssumption DEF Ground, TypeOK, UnRegister
  <2>n. names' \in [Kids -> 0..MaxSpawns] /\ unreg' \subseteq (1..next) \X Kids
    BY <2>0, <2>k DEF Ground, TypeOK
  <2>1. TypeOK'
    BY <2>k, <2>n DEF Ground, TypeOK, superVars, pastVars, orders
  <2>2. \A j \in Spawns : Grows(j)
    BY <1>1, <1>6, Zenon DEF UnRegister, Grows
  <2> QED
    BY <1>6, <2>1, <2>2, ChildKeeps DEF UnRegister, Ground
<1>7. CASE Crash(i)
  <2>1. TypeOK'
    BY <1>1, <1>7, SupervisionAssumption DEF Ground, TypeOK, Crash, superVars, pastVars, orders, Spawns
  <2>2. \A j \in Spawns : Grows(j)
    BY <1>1, <1>7 DEF Crash, Grows
  <2> QED
    BY <1>7, <2>1, <2>2, ChildKeeps DEF Crash, Ground
<1>8. CASE Stop(i)
  <2>1. TypeOK'
    BY <1>1, <1>8 DEF Ground, TypeOK, Stop, superVars, pastVars, orders, Spawns
  <2>2. \A j \in Spawns : Grows(j)
    BY <1>1, <1>8 DEF Stop, Grows
  <2>3. Msg("reply", i) \in Messages /\ Msg("reply", i).from = i
    BY <1>3, MsgTyped
  <2>4. mail' \in Boxes /\ Inside(mail') = Inside(mail) \cup {Msg("reply", i)}
    BY <1>4, <1>8, <2>3 DEF Stop
  <2>5. LastWords(Msg("reply", i))'
    BY <1>1, <1>8, <2>3 DEF LastWords, Stop
  <2> QED
    BY <1>8, <2>1, <2>2, <2>4, <2>5, ChildKeeps DEF Stop
<1>9. ASSUME NEW k \in Kids, RegisterMore(i, k) PROVE Ground' /\ Care'
  <2>1. TypeOK'
    BY <1>2, <1>9 DEF Ground, TypeOK, RegisterMore, superVars, pastVars, orders, Spawns
  <2>2. \A j \in Spawns : Grows(j)
    BY <1>1, <1>9 DEF RegisterMore, Grows
  <2> QED
    BY <1>9, <2>1, <2>2, ChildKeeps DEF RegisterMore, Ground
<1>10. CASE Killed(i)
  <2>1. TypeOK'
    BY <1>1, <1>10 DEF Ground, TypeOK, Killed, superVars, pastVars, orders, Spawns
  <2>2. \A j \in Spawns : Grows(j)
    BY <1>1, <1>10 DEF Killed, Grows
  <2> QED
    BY <1>10, <2>1, <2>2, ChildKeeps DEF Killed, Ground
<1>11. CASE SendExitMsg(i)
  <2>1. TypeOK'
    BY <1>1, <1>11 DEF Ground, TypeOK, SendExitMsg, superVars, pastVars, orders, Spawns
  <2>2. /\ Msg("EXIT", i) \in Messages
        /\ Msg("EXIT", i).from = i /\ Msg("EXIT", i).type = "EXIT"
    BY <1>3, MsgTyped
  <2>3. mail' \in Boxes /\ Inside(mail') = Inside(mail) \cup {Msg("EXIT", i)}
    BY <1>4, <1>11, <2>2 DEF SendExitMsg
  <2>4. ExitIn(mail', i)
    BY <2>2, <2>3 DEF ExitIn
  <2>5. \A j \in Spawns : Grows(j)
    BY <1>1, <1>11, <2>4 DEF SendExitMsg, Grows
  <2>6. LastWords(Msg("EXIT", i))'
    BY <1>1, <1>11, <2>2 DEF LastWords, SendExitMsg
  <2> QED
    BY <1>11, <2>1, <2>3, <2>5, <2>6, ChildKeeps DEF SendExitMsg
<1>12. CASE Clean(i)
  <2>1. Cleaned(i) \in [Kids -> 0..MaxSpawns]
    BY SupervisionAssumption DEF Cleaned, Ground, TypeOK
  <2>2. TypeOK'
    BY <1>1, <1>12, <2>1 DEF Ground, TypeOK, Clean, superVars, pastVars, orders, Spawns
  <2>3. \A j \in Spawns : Grows(j)
    BY <1>1, <1>12 DEF Clean, Grows
  <2> QED
    BY <1>12, <2>2, <2>3, ChildKeeps DEF Clean, Ground
<1>13. CASE Unmap(i)
  <2>1. TypeOK'
    BY <1>1, <1>13 DEF Ground, TypeOK, Unmap, superVars, pastVars, orders, Spawns
  <2>2. \A j \in Spawns : Grows(j)
    BY <1>1, <1>13 DEF Unmap, Grows
  <2> QED
    BY <1>13, <2>1, <2>2, ChildKeeps DEF Unmap, Ground
<1> QED
  BY <1>5, <1>6, <1>7, <1>8, <1>9, <1>10, <1>11, <1>12, <1>13 DEF Child, Destory

LEMMA RequestStep ==
    ASSUME Ground, Care, Request
    PROVE  Ground' /\ Care'
<1>u. /\ requests < MaxRequests /\ requests' = requests + 1
      /\ UNCHANGED <<childVars, superVars, crashes>>
  BY Zenon DEF Request
<1>0. requests' \in 0..MaxRequests /\ UNCHANGED <<childVars, superVars, crashes>>
  BY <1>u, SupervisionAssumption DEF Ground, TypeOK
<1>1. TypeOK'
  BY <1>0 DEF Ground, TypeOK, childVars, nameVars, orders, superVars, pastVars
<1>2. \A j \in Spawns : Grows(j)
  BY Zenon DEF Request, childVars, Grows
<1>3. PICK m \in Messages : m.from = 0 /\ Deliver(m)
  <2>1. \A type \in {"start", "stop", "restart"} : Msg(type, 0) \in Messages /\ Msg(type, 0).from = 0
    BY MsgTyped, SupervisionAssumption
  <2>2. ASSUME NEW k \in Kids, Deliver([Msg("start", 0) EXCEPT !.kid = k])
        PROVE  \E m \in Messages : m.from = 0 /\ Deliver(m)
    <3>1. /\ [Msg("start", 0) EXCEPT !.kid = k] \in Messages
          /\ [Msg("start", 0) EXCEPT !.kid = k].from = 0
      BY <2>1 DEF Messages
    <3> QED
      BY <2>2, <3>1, Zenon
  <2>3. ASSUME NEW i \in 1..next, NEW type \in {"stop", "restart"}, NEW t \in {"raw", "gen", "none"},
               Deliver([Msg(type, 0) EXCEPT !.child = i, !.process_type = t])
        PROVE  \E m \in Messages : m.from = 0 /\ Deliver(m)
    <3>1. i \in 0..MaxSpawns
      BY SupervisionAssumption DEF Ground, TypeOK
    <3>2. /\ [Msg(type, 0) EXCEPT !.child = i, !.process_type = t] \in Messages
          /\ [Msg(type, 0) EXCEPT !.child = i, !.process_type = t].from = 0
      BY <2>1, <3>1, Zenon DEF Messages
    <3> QED
      BY <2>3, <3>2, Zenon
  <2> QED
    BY <2>2, <2>3, Zenon DEF Request
<1>4. mail' \in Boxes /\ Inside(mail') = Inside(mail) \cup {m}
  BY <1>3, BoxArrive DEF Ground, Deliver
<1>5. LastWords(m)'
  BY <1>3 DEF LastWords
<1> QED
  BY <1>1, <1>2, <1>4, <1>5, ChildKeeps, Zenon DEF Request, childVars

(* An EXIT message stays until it is taken.                                *)
LEMMA ExitsStay ==
    ASSUME mail \in Boxes,
           \/ HasMail /\ (Take \/ PutAside)
           \/ TimeOut
    PROVE  \A i : ExitPending(i) => \/ ExitPending(i)'
                                    \/ HasMail /\ Take /\ Top.type = "EXIT" /\ Top.from = i
<1>1. CASE HasMail /\ Take
  BY <1>1, Receive, ExitIs, ExitIsNext DEF ExitIn
<1>2. CASE (HasMail /\ PutAside) \/ TimeOut
  BY <1>2, Receive, ExitIs, ExitIsNext DEF ExitIn
<1> QED
  BY <1>1, <1>2

(* The supervisor's own steps, when they leave the children alone.         *)
LEMMA OnExitStep ==
    ASSUME Ground, Care, OnExit
    PROVE  Ground' /\ Care'
<1> USE DEF pastVars, bounds
<1>1. spc = "loop" /\ HasMail /\ Top.type = "EXIT" /\ Take /\ UNCHANGED <<cur, again, next, watched, failed, refused, swallowed, letgo>>
      /\ records' = records \ {Top.from}
      /\ life' = life /\ kid' = kid /\ killed' = killed
      /\ IF Top.from \in records THEN spc' = "spawn" /\ want' = kid[Top.from] ELSE spc' = spc /\ want' = want
  BY DEF OnExit, childVars, orders
<1>a. kid \in [Spawns -> Kids] /\ want \in Kids /\ records \subseteq Spawns
  BY SupervisionAssumption DEF Ground, TypeOK, Spawns
<1>b. spc' \in {"loop", "spawn"} /\ want' \in Kids
  BY <1>1, <1>a
<1>0. spc' \in {"loop", "spawn"} /\ want' \in Kids /\ UNCHANGED <<childVars, bounds>>
  BY <1>b DEF OnExit
<1>2. TypeOK'
  BY <1>0, <1>1 DEF Ground, TypeOK, childVars, nameVars, orders
<1>3. Ground'
  BY <1>1, <1>2, ReceiveGround
<1>4. Top \in Messages /\ LastWords(Top)
  BY <1>1, Receive DEF Ground
<1>5. records \subseteq Spawns /\ cur = 0
  BY <1>1, SupervisionAssumption DEF Ground, TypeOK, Spawns
<1>6. Top.from \in Spawns => life[Top.from] \notin {"spawned", "up"}
  BY <1>4 DEF LastWords, Spawns
<1>7. Waited' /\ (watched \cap ByName = {})'
  BY <1>1, <1>5 DEF Care, Waited
<1>8. Supervised'
  BY <1>1, <1>6 DEF Care, Supervised
<1>9. Watched'
  <2>1. SUFFICES ASSUME NEW k \in watched
                 PROVE  \/ \E i \in records' : kid[i] = k
                        \/ spc' = "spawn" /\ want' = k
                        \/ \E i \in failed : kid[i] = k
                        \/ k \in refused
    BY <1>1 DEF Watched
  <2>2. \/ \E i \in records : kid[i] = k
        \/ \E i \in failed : kid[i] = k
        \/ k \in refused
    BY <1>1 DEF Care, Watched
  <2> QED
    BY <1>1, <2>2
<1>10. DeathNoticed'
  <2>1. SUFFICES ASSUME NEW i \in records, i # Top.from
                 PROVE  life[i] \in {"spawned", "up", "ended"} \/ ExitPending(i)' \/ ExitSwallowed(i)'
    BY <1>1 DEF DeathNoticed
  <2>2. ExitPending(i) => ExitPending(i)'
    BY <1>1, <2>1, ExitsStay DEF Ground
  <2> QED
    BY <1>1, <2>2 DEF Care, DeathNoticed, ExitSwallowed
<1> QED
  BY <1>3, <1>7, <1>8, <1>9, <1>10 DEF Care

(* A message that is neither an EXIT nor a stop of a recorded child.       *)
LEMMA OtherStep ==
    ASSUME Ground, Care, OnStart \/ OnStopUnknown \/ OnReply
    PROVE  Ground' /\ Care'
<1> USE DEF pastVars, bounds
<1>1. spc = "loop" /\ HasMail /\ Top.type # "EXIT" /\ Take
      /\ UNCHANGED <<cur, again, next, watched, failed, refused, swallowed, letgo>>
      /\ records' = records /\ life' = life /\ kid' = kid /\ killed' = killed
      /\ ((spc' = "loop" /\ want' = want) \/ (spc' = "spawn" /\ want' = Top.kid))
  BY DEF OnStart, OnStopUnknown, OnReply, childVars, orders, superVars
<1>2. Top \in Messages
  BY <1>1, Receive DEF Ground
<1>3. want' \in Kids /\ UNCHANGED <<childVars, bounds>>
  BY <1>1, <1>2 DEF Messages, Ground, TypeOK, OnStart, OnStopUnknown, OnReply
<1>4. TypeOK'
  BY <1>1, <1>3 DEF Ground, TypeOK, childVars, nameVars, orders, Spawns
<1>5. Ground'
  BY <1>1, <1>4, ReceiveGround
<1>6. cur = 0
  BY <1>1 DEF Ground, TypeOK
<1>7. Waited' /\ (watched \cap ByName = {})'
  BY <1>1, <1>6 DEF Care, Waited
<1>8. Supervised'
  BY <1>1 DEF Care, Supervised
<1>9. Watched'
  BY <1>1 DEF Care, Watched
<1>10. DeathNoticed'
  <2>1. \A i : ExitPending(i) => ExitPending(i)'
    BY <1>1, ExitsStay DEF Ground
  <2> QED
    BY <1>1, <2>1 DEF Care, DeathNoticed, ExitSwallowed
<1> QED
  BY <1>5, <1>7, <1>8, <1>9, <1>10 DEF Care

LEMMA WaitStep ==
    ASSUME Ground, Care, Wait
    PROVE  Ground' /\ Care'
<1> USE DEF pastVars, bounds
<1>1. /\ spc = "wait"
      /\ UNCHANGED <<childVars, want, again, next, refused, swallowed, letgo, bounds>>
      /\ life' = life /\ kid' = kid /\ killed' = killed
  BY DEF Wait, childVars, orders
<1>2. \/ HasMail /\ (Take \/ PutAside)
      \/ TimeOut
  BY DEF Wait
<1>3. cur \in Spawns /\ cur \in 1..next /\ records \subseteq Spawns /\ cur \notin records
  BY <1>1, SupervisionAssumption DEF Ground, TypeOK, Spawns, Care, Waited
<1>4. kid[cur] \in Kids
  BY <1>3 DEF Ground, TypeOK
<1>5. \A i : ExitPending(i) => \/ ExitPending(i)'
                               \/ HasMail /\ Take /\ Top.type = "EXIT" /\ Top.from = i
  BY <1>2, ExitsStay DEF Ground
<1>6. CASE HasMail /\ IsItsExit(Top) /\ Take /\ failed' = failed \cup {cur}
           /\ spc' = "loop" /\ cur' = 0 /\ UNCHANGED <<records, watched>>
  <2>1. TypeOK'
    BY <1>1, <1>3, <1>6 DEF Ground, TypeOK, childVars, nameVars, orders, Spawns
  <2>2. Ground'
    BY <1>1, <1>6, <2>1, ReceiveGround
  <2>3. Top.type = "EXIT" /\ Top.from = cur /\ LastWords(Top)
    BY <1>6, Receive DEF IsItsExit, Ground
  <2>4. life[cur] \notin {"spawned", "up"}
    BY <1>3, <2>3 DEF LastWords, Spawns
  <2>5. Waited' /\ (watched \cap ByName = {})'
    BY <1>1, <1>6 DEF Care, Waited
  <2>6. Supervised'
    BY <1>1, <1>6, <2>4 DEF Care, Supervised
  <2>7. Watched'
    BY <1>1, <1>6 DEF Care, Watched
  <2>8. DeathNoticed'
    BY <1>1, <1>3, <1>5, <1>6, <2>3 DEF Care, DeathNoticed, ExitSwallowed
  <2> QED
    BY <2>2, <2>5, <2>6, <2>7, <2>8 DEF Care
<1>7. CASE HasMail /\ ~IsItsExit(Top) /\ PutAside /\ UNCHANGED <<failed, spc, cur, records, watched>>
  <2>1. TypeOK'
    BY <1>1, <1>7 DEF Ground, TypeOK, childVars, nameVars, orders, Spawns
  <2>2. Ground'
    BY <1>1, <1>7, <2>1, ReceiveGround
  <2>3. \A i : ExitPending(i) => ExitPending(i)'
    BY <1>7, Receive, ExitIs, ExitIsNext DEF ExitIn, Ground
  <2>4. Waited' /\ (watched \cap ByName = {})'
    BY <1>1, <1>7, <2>3 DEF Care, Waited
  <2>5. Supervised' /\ Watched'
    BY <1>1, <1>7 DEF Care, Supervised, Watched
  <2>6. DeathNoticed'
    BY <1>1, <1>7, <2>3, Zenon DEF Care, DeathNoticed, ExitSwallowed
  <2> QED
    BY <2>2, <2>4, <2>5, <2>6 DEF Care
<1>8. CASE /\ TimeOut /\ spc' = "loop" /\ cur' = 0 /\ UNCHANGED failed
           /\ IF kid[cur] \in ByName THEN UNCHANGED <<records, watched>>
              ELSE records' = records \cup {cur} /\ watched' = watched \cup {kid[cur]}
  <2>1. TypeOK'
    BY <1>1, <1>3, <1>4, <1>8 DEF Ground, TypeOK, childVars, nameVars, orders, Spawns
  <2>2. Ground'
    BY <1>1, <1>8, <2>1, ReceiveGround
  <2>3. \A i : ExitPending(i) => ExitPending(i)'
    BY <1>8, Receive, ExitIs, ExitIsNext DEF ExitIn, Ground
  <2>4. Waited' /\ (watched \cap ByName = {})'
    BY <1>1, <1>8 DEF Care, Waited
  <2>5. Supervised'
    BY <1>1, <1>8 DEF Care, Supervised
  <2>6. Watched'
    BY <1>1, <1>8 DEF Care, Watched
  <2>7. DeathNoticed'
    BY <1>1, <1>8, <2>3 DEF Care, DeathNoticed, ExitSwallowed, Waited
  <2> QED
    BY <2>2, <2>4, <2>5, <2>6, <2>7 DEF Care
<1> QED
  BY <1>6, <1>7, <1>8 DEF Wait

LEMMA WaitNilStep ==
    ASSUME Ground, Care, WaitNil
    PROVE  Ground' /\ Care'
<1> USE DEF pastVars, bounds
<1>1. /\ spc = "waitNil" /\ spc' = "loop"
      /\ UNCHANGED <<childVars, records, cur, want, again, next, watched, failed, refused, letgo, bounds>>
      /\ life' = life /\ kid' = kid /\ killed' = killed
  BY DEF WaitNil, childVars, orders
<1>2. \/ HasMail /\ Take /\ swallowed' = swallowed \cup {Top}
      \/ TimeOut /\ swallowed' = swallowed
  BY DEF WaitNil
<1>3. TypeOK'
  BY <1>1 DEF Ground, TypeOK, childVars, nameVars, orders, Spawns
<1>4. Ground'
  BY <1>1, <1>2, <1>3, ReceiveGround
<1>5. \A i : ExitPending(i) => ExitPending(i)' \/ ExitSwallowed(i)'
  <2>1. CASE TimeOut
    BY <2>1, Receive, ExitIs, ExitIsNext DEF ExitIn, Ground
  <2>2. CASE HasMail /\ Take /\ swallowed' = swallowed \cup {Top}
    BY <2>2, ExitsStay DEF Ground, ExitSwallowed
  <2> QED
    BY <1>2, <2>1, <2>2
<1>6. \A i : ExitSwallowed(i) => ExitSwallowed(i)'
  BY <1>2 DEF ExitSwallowed
<1>7. cur = 0
  BY <1>1 DEF Ground, TypeOK
<1>8. Waited' /\ (watched \cap ByName = {})'
  BY <1>1, <1>7 DEF Care, Waited
<1>9. Supervised' /\ Watched'
  BY <1>1 DEF Care, Supervised, Watched
<1>10. DeathNoticed'
  BY <1>1, <1>5, <1>6 DEF Care, DeathNoticed
<1> QED
  BY <1>4, <1>8, <1>9, <1>10 DEF Care

LEMMA StopWaitStep ==
    ASSUME Ground, Care, StopWait
    PROVE  Ground' /\ Care'
<1> USE DEF pastVars, bounds
<1>1. /\ spc = "stopWait"
      /\ UNCHANGED <<childVars, records, again, next, pastVars, bounds>>
      /\ life' = life /\ kid' = kid /\ killed' = killed
  BY DEF StopWait, childVars, orders
<1>2. cur \in Spawns /\ cur \in 1..next /\ records \subseteq Spawns /\ cur \notin records
      /\ kid[cur] \in Kids /\ AnyKid \in Kids
  BY <1>1, SupervisionAssumption DEF Ground, TypeOK, Spawns, Care, Waited, AnyKid
<1>3. CASE HasMail /\ Top.from # cur /\ PutAside /\ UNCHANGED <<spc, cur, want>>
  <2>1. TypeOK'
    BY <1>1, <1>3 DEF Ground, TypeOK, childVars, nameVars, orders, Spawns
  <2>2. Ground'
    BY <1>1, <1>3, <2>1, ReceiveGround
  <2>3. \A i : ExitPending(i) => ExitPending(i)'
    BY <1>3, Receive, ExitIs, ExitIsNext DEF ExitIn, Ground
  <2>4. Waited' /\ (watched \cap ByName = {})'
    BY <1>1, <1>3, <2>3 DEF Care, Waited
  <2>5. Supervised' /\ Watched'
    BY <1>1, <1>3 DEF Care, Supervised, Watched
  <2>6. DeathNoticed'
    BY <1>1, <1>3, <2>3 DEF Care, DeathNoticed, ExitSwallowed
  <2> QED
    BY <2>2, <2>4, <2>5, <2>6 DEF Care
<1>4. CASE /\ (HasMail /\ Top.from = cur /\ Take) \/ TimeOut
           /\ spc' = IF again THEN "spawn" ELSE "loop"
           /\ want' = IF again THEN kid[cur] ELSE AnyKid
           /\ cur' = 0
  <2>1. TypeOK'
    BY <1>1, <1>2, <1>4 DEF Ground, TypeOK, childVars, nameVars, orders, Spawns
  <2>2. Ground'
    BY <1>1, <1>4, <2>1, ReceiveGround
  <2>3. \A i : ExitPending(i) => ExitPending(i)' \/ i = cur
    <3>1. CASE TimeOut
      BY <3>1, Receive, ExitIs, ExitIsNext DEF ExitIn, Ground
    <3>2. CASE HasMail /\ Top.from = cur /\ Take
      BY <3>2, ExitsStay DEF Ground
    <3> QED
      BY <1>4, <3>1, <3>2
  <2>4. Waited' /\ (watched \cap ByName = {})'
    BY <1>1, <1>4 DEF Care, Waited
  <2>5. Supervised'
    BY <1>1, <1>4 DEF Care, Supervised, Waited
  <2>6. Watched'
    BY <1>1, <1>4 DEF Care, Watched
  <2>7. DeathNoticed'
    BY <1>1, <1>2, <1>4, <2>3 DEF Care, DeathNoticed, ExitSwallowed
  <2> QED
    BY <2>2, <2>4, <2>5, <2>6, <2>7 DEF Care
<1> QED
  BY <1>3, <1>4 DEF StopWait

LEMMA SpawnStep ==
    ASSUME Ground, Care, Spawn
    PROVE  Ground' /\ Care'
<1> USE DEF pastVars, bounds
<1>1. /\ spc = "spawn" /\ again' = FALSE /\ want' = AnyKid
      /\ UNCHANGED <<nameVars, orders, mail, records, watched, failed, swallowed, letgo, bounds>>
      /\ killed' = killed
  BY DEF Spawn, orders
<1>2. /\ cur = 0 /\ AnyKid \in Kids /\ want \in Kids
      /\ records \subseteq 1..next /\ failed \subseteq 1..next
      /\ next \in 0..MaxSpawns /\ MaxSpawns \in Nat
  BY <1>1, SupervisionAssumption DEF Ground, TypeOK, AnyKid
<1>3. CASE /\ spc' = AfterRefusal(want) /\ refused' = refused \cup {want}
           /\ UNCHANGED <<life, kid, next, cur>>
  <2>1. spc' \in {"loop", "waitNil"}
    BY <1>3 DEF AfterRefusal
  <2>2. TypeOK'
    <3>1. (cur' # 0) = (spc' \in {"wait", "stopCall", "stopWait"}) /\ cur' \in 0..next'
      BY <1>2, <1>3, <2>1
    <3>2. watched' \cup refused' \subseteq Kids
      BY <1>1, <1>2, <1>3 DEF Ground, TypeOK
    <3> QED
      BY <1>1, <1>2, <1>3, <2>1, <3>1, <3>2, Zenon DEF Ground, TypeOK, nameVars, orders
  <2>3. \A i \in Spawns : SpawnOf(i)'
    BY <1>3 DEF Ground, SpawnOf
  <2>4. \A m \in Inside(mail') : LastWords(m)'
    BY <1>1, <1>3 DEF Ground, LastWords
  <2>5. Ground'
    BY <1>1, <2>2, <2>3, <2>4 DEF Ground
  <2>6. Waited' /\ (watched \cap ByName = {})'
    BY <1>1, <1>2, <1>3, <2>1 DEF Care, Waited
  <2>7. Supervised'
    BY <1>1, <1>3, Zenon DEF Care, Supervised
  <2>8. Watched'
    BY <1>1, <1>3 DEF Care, Watched
  <2>9. DeathNoticed'
    BY <1>1, <1>3, ExitIs, ExitIsNext, Zenon DEF Care, DeathNoticed, ExitSwallowed
  <2> QED
    BY <2>5, <2>6, <2>7, <2>8, <2>9 DEF Care
<1>4. CASE /\ next < MaxSpawns
           /\ next' = next + 1
           /\ kid' = [kid EXCEPT ![next'] = want]
           /\ Become(next', "spawned")
           /\ spc' = "wait" /\ cur' = next'
           /\ UNCHANGED refused
  <2> DEFINE n == next + 1
  <2>1. /\ n \in Spawns /\ n # 0 /\ n \notin 1..next /\ 1..next \subseteq Spawns
        /\ 1..next \subseteq 1..n /\ next' = n /\ n \in 1..n /\ n \in 0..MaxSpawns
    BY <1>2, <1>4 DEF Spawns
  <2>2. /\ life \in [Spawns -> {"none", "spawned", "up", "ended", "exited", "cleaned", "gone"}]
        /\ kid \in [Spawns -> Kids]
    BY DEF Ground, TypeOK
  <2>3. /\ life' = [life EXCEPT ![n] = "spawned"] /\ kid' = [kid EXCEPT ![n] = want]
        /\ cur' = n /\ spc' = "wait" /\ refused' = refused
    BY <1>4 DEF Become
  <2>4. life[n] = "none"
    BY <1>2, <2>1 DEF Ground, SpawnOf
  <2>5. /\ life'[n] = "spawned" /\ kid'[n] = want
        /\ \A i \in Spawns : i # n => life'[i] = life[i] /\ kid'[i] = kid[i]
    BY <2>1, <2>2, <2>3
  <2> HIDE DEF n
  <2>6. TypeOK'
    <3>1. /\ life' \in [Spawns -> {"none", "spawned", "up", "ended", "exited", "cleaned", "gone"}]
          /\ kid' \in [Spawns -> Kids]
      BY <1>2, <2>1, <2>2, <2>3
    <3>2. /\ unreg' \subseteq (1..n) \X Kids
          /\ renamed' \cup stopping' \cup killed' \cup records' \cup failed' \cup letgo' \subseteq 1..n
      BY <1>1, <2>1 DEF Ground, TypeOK, nameVars, orders
    <3>3. cur' \in 0..next' /\ (cur' # 0) = (spc' \in {"wait", "stopCall", "stopWait"})
      BY <2>1, <2>3
    <3> QED
      BY <1>1, <1>2, <2>1, <2>3, <3>1, <3>2, <3>3, Zenon DEF Ground, TypeOK, nameVars
  <2>7. \A i \in Spawns : SpawnOf(i)'
    <3>1. TAKE i \in Spawns
    <3>2. CASE i = n
      BY <1>2, <2>1, <2>5, <3>2 DEF SpawnOf, n
    <3>3. CASE i # n
      <4>1. SpawnOf(i) /\ life'[i] = life[i]
        BY <2>5, <3>3 DEF Ground
      <4>2. (i > next) = (i > next')
        BY <1>2, <1>4, <3>3 DEF n, Spawns
      <4> QED
        BY <4>1, <4>2 DEF SpawnOf
    <3> QED
      BY <3>2, <3>3
  <2>8. \A m \in Inside(mail') : LastWords(m)'
    <3>1. TAKE m \in Inside(mail')
    <3>2. m \in Messages /\ LastWords(m)
      BY <1>1, InMessages DEF Ground
    <3>3. m.from # 0 => m.from \in Spawns
      BY <1>2, <3>2 DEF Messages, Spawns
    <3>4. m.from # 0 => m.from # n
      BY <2>4, <3>2 DEF LastWords
    <3> QED
      BY <2>5, <3>2, <3>3, <3>4 DEF LastWords
  <2>9. Ground'
    BY <1>1, <2>6, <2>7, <2>8 DEF Ground
  <2>10. Waited' /\ (watched \cap ByName = {})'
    BY <1>1, <1>2, <2>1, <2>3, <2>5 DEF Care, Waited
  <2>11. Supervised'
    <3>1. SUFFICES ASSUME NEW i \in Spawns, life'[i] \in {"spawned", "up"}, i # n
                   PROVE  i \in records \/ i \in killed \/ i \in letgo \/ kid'[i] \in ByName
      BY <1>1, <2>3 DEF Supervised
    <3>2. i # 0 /\ life[i] \in {"spawned", "up"} /\ kid'[i] = kid[i]
      BY <2>5, <3>1 DEF Spawns
    <3> QED
      BY <1>2, <3>2 DEF Care, Supervised
  <2>12. Watched'
    <3>1. SUFFICES ASSUME NEW k \in watched
                   PROVE  \/ \E i \in records : kid'[i] = k
                          \/ kid'[n] = k
                          \/ \E i \in failed : kid'[i] = k
                          \/ k \in refused
      BY <1>1, <2>3 DEF Watched
    <3>2. \/ \E i \in records : kid[i] = k
          \/ want = k
          \/ \E i \in failed : kid[i] = k
          \/ k \in refused
      BY <1>1 DEF Care, Watched
    <3>3. \A i \in records \cup failed : kid'[i] = kid[i]
      BY <1>2, <2>1, <2>5
    <3> QED
      BY <2>5, <3>2, <3>3
  <2>13. DeathNoticed'
    <3>1. \A i \in records : life'[i] = life[i]
      BY <1>2, <2>1, <2>5, Zenon
    <3> QED
      BY <1>1, <3>1, ExitIs, ExitIsNext DEF Care, DeathNoticed, ExitSwallowed
  <2> QED
    BY <2>9, <2>10, <2>11, <2>12, <2>13 DEF Care
<1> QED
  BY <1>3, <1>4 DEF Spawn

(* glr.kill ends the child or marks it, and an end is announced.           *)
LEMMA KillGround ==
    ASSUME Ground, NEW i \in Spawns, NEW r \in BOOLEAN, NEW b \in Boxes,
           Inside(b) \subseteq Inside(mail), Kill(i, r), mail' = WithExit(b, i, r),
           next' = next
    PROVE  /\ mail' \in Boxes /\ Inside(b) \subseteq Inside(mail')
           /\ \A m \in Inside(mail') : LastWords(m)'
           /\ \A j \in Spawns : SpawnOf(j)'
           /\ life' \in [Spawns -> {"none", "spawned", "up", "ended", "exited", "cleaned", "gone"}]
           /\ names' \in [Kids -> 0..MaxSpawns]
           /\ killed \subseteq killed' /\ killed' \subseteq killed \cup {i}
           /\ \A j \in Spawns : j # i => life'[j] = life[j]
           /\ life'[i] \notin {"spawned", "up"} \/ i \in killed'
           /\ UNCHANGED <<kid, nameOf, unreg, renamed, stopping>>
<1>1. /\ life \in [Spawns -> {"none", "spawned", "up", "ended", "exited", "cleaned", "gone"}]
      /\ names \in [Kids -> 0..MaxSpawns]
  BY DEF Ground, TypeOK
<1>2. UNCHANGED <<kid, nameOf, unreg, renamed, stopping>>
  BY DEF Kill
<1>3. CASE r
  <2>1. life[i] = "up" /\ life' = [life EXCEPT ![i] = "gone"] /\ killed' = killed /\ names' = Cleaned(i)
    BY <1>3 DEF Kill
  <2>2. Cleaned(i) \in [Kids -> 0..MaxSpawns]
    <3>1. MaxSpawns \in Nat
      BY SupervisionAssumption, Zenon
    <3>2. 0 \in 0..MaxSpawns
      BY <3>1
    <3> QED
      BY <1>1, <3>2, Zenon DEF Cleaned
  <2>3. i \in 0..MaxSpawns
    BY SupervisionAssumption DEF Spawns
  <2>4. Msg("EXIT", i) \in Messages /\ Msg("EXIT", i).from = i
    BY <2>3, MsgTyped
  <2>5. mail' \in Boxes /\ Inside(mail') = Inside(b) \cup {Msg("EXIT", i)}
    BY <1>3, <2>4, BoxArrive DEF WithExit
  <2>6. life'[i] = "gone" /\ \A j \in Spawns : j # i => life'[j] = life[j]
    BY <1>1, <2>1
  <2>7. \A m \in Inside(mail') : LastWords(m)'
    <3>1. TAKE m \in Inside(mail')
    <3>2. CASE m = Msg("EXIT", i)
      BY <2>4, <2>6, <3>2 DEF LastWords
    <3>3. CASE m \in Inside(mail)
      <4>1. m \in Messages /\ LastWords(m)
        BY <3>3, InMessages DEF Ground
      <4>2. m.from # 0 => m.from \in Spawns
        BY <4>1, SupervisionAssumption DEF Messages, Spawns
      <4> QED
        BY <2>6, <4>1, <4>2 DEF LastWords
    <3> QED
      BY <2>5, <3>2, <3>3
  <2>8. \A j \in Spawns : SpawnOf(j)'
    BY <2>1, <2>6 DEF Ground, SpawnOf
  <2> QED
    BY <1>1, <1>2, <2>1, <2>2, <2>5, <2>6, <2>7, <2>8
<1>4. CASE ~r
  <2>1. /\ life' = life /\ names' = names /\ mail' = b
        /\ killed' = IF life[i] \in {"spawned", "up"} THEN killed \cup {i} ELSE killed
    BY <1>4 DEF Kill, WithExit
  <2>2. \A m \in Inside(mail') : LastWords(m)'
    BY <2>1 DEF Ground, LastWords
  <2>3. \A j \in Spawns : SpawnOf(j)'
    BY <2>1 DEF Ground, SpawnOf
  <2> QED
    BY <1>1, <1>2, <2>1, <2>2, <2>3
<1> QED
  BY <1>3, <1>4, Zenon

LEMMA StopCallStep ==
    ASSUME Ground, Care, StopCall
    PROVE  Ground' /\ Care'
<1> USE DEF pastVars, bounds
<1>1. spc = "stopCall" /\ UNCHANGED <<records, cur, want, again, next, pastVars, bounds>>
  BY DEF StopCall
<1>2. cur \in Spawns /\ cur # 0 /\ cur \in 1..next /\ records \subseteq Spawns /\ cur \notin records
  BY <1>1, SupervisionAssumption DEF Ground, TypeOK, Spawns, Care, Waited
<1>3. CASE HasMail /\ Top.from = cur /\ Take /\ spc' = "stopWait" /\ UNCHANGED <<childVars>>
  <2>1. life' = life /\ kid' = kid /\ killed' = killed
    BY <1>3 DEF childVars, orders
  <2>2. TypeOK'
    BY <1>1, <1>2, <1>3 DEF Ground, TypeOK, childVars, nameVars, orders
  <2>3. Ground'
    BY <1>1, <1>3, <2>1, <2>2, ReceiveGround
  <2>4. life[cur] \notin {"spawned", "up"}
    <3>1. LastWords(Top)
      BY <1>3, Receive DEF Ground
    <3> QED
      BY <1>2, <1>3, <3>1 DEF LastWords
  <2>5. Waited' /\ (watched \cap ByName = {})'
    BY <1>1, <1>2, <1>3, <2>1, <2>4 DEF Care, Waited
  <2>6. Supervised' /\ Watched'
    BY <1>1, <1>3, <2>1 DEF Care, Supervised, Watched
  <2>7. \A j : ExitPending(j) => ExitPending(j)' \/ j = cur
    BY <1>3, ExitsStay DEF Ground
  <2>8. DeathNoticed'
    BY <1>1, <1>2, <2>1, <2>7 DEF Care, DeathNoticed, ExitSwallowed
  <2> QED
    BY <2>3, <2>5, <2>6, <2>8 DEF Care
<1>4. CASE HasMail /\ Top.from # cur /\ PutAside /\ UNCHANGED <<childVars, spc>>
  <2>1. life' = life /\ kid' = kid /\ killed' = killed
    BY <1>4 DEF childVars, orders
  <2>2. TypeOK'
    BY <1>1, <1>2, <1>4 DEF Ground, TypeOK, childVars, nameVars, orders
  <2>3. Ground'
    BY <1>1, <1>4, <2>1, <2>2, ReceiveGround
  <2>4. Waited' /\ (watched \cap ByName = {})'
    BY <1>1, <1>2, <1>4, <2>1 DEF Care, Waited
  <2>5. Supervised' /\ Watched'
    BY <1>1, <1>4, <2>1 DEF Care, Supervised, Watched
  <2>6. \A j : ExitPending(j) => ExitPending(j)'
    BY <1>4, Receive, ExitIs, ExitIsNext DEF ExitIn, Ground
  <2>7. DeathNoticed'
    BY <1>1, <2>1, <2>6, Zenon DEF Care, DeathNoticed, ExitSwallowed
  <2> QED
    BY <2>3, <2>4, <2>5, <2>7 DEF Care
<1>5. ASSUME ~HasMail, NEW r \in BOOLEAN, Kill(cur, r), mail' = WithExit(GiveUp(mail), cur, r),
             spc' = "stopWait"
      PROVE  Ground' /\ Care'
  <2>1. GiveUp(mail) \in Boxes /\ Inside(GiveUp(mail)) = Inside(mail)
    BY BoxRestore DEF Ground, GiveUp
  <2>2. Inside(GiveUp(mail)) \subseteq Inside(mail) /\ next' = next
    BY <1>1, <2>1
  <2>3. /\ mail' \in Boxes /\ Inside(GiveUp(mail)) \subseteq Inside(mail')
        /\ \A m \in Inside(mail') : LastWords(m)'
        /\ \A j \in Spawns : SpawnOf(j)'
        /\ life' \in [Spawns -> {"none", "spawned", "up", "ended", "exited", "cleaned", "gone"}]
        /\ names' \in [Kids -> 0..MaxSpawns]
        /\ killed \subseteq killed' /\ killed' \subseteq killed \cup {cur}
        /\ \A j \in Spawns : j # cur => life'[j] = life[j]
        /\ life'[cur] \notin {"spawned", "up"} \/ cur \in killed'
        /\ UNCHANGED <<kid, nameOf, unreg, renamed, stopping>>
    BY <1>2, <1>5, <2>1, <2>2, KillGround, Zenon
  <2>4. TypeOK'
    BY <1>1, <1>2, <1>5, <2>3 DEF Ground, TypeOK
  <2>5. Ground'
    BY <2>3, <2>4 DEF Ground
  <2>6. Waited' /\ (watched \cap ByName = {})'
    BY <1>1, <1>2, <1>5, <2>3 DEF Care, Waited
  <2>7. Supervised'
    BY <1>1, <1>5, <2>3, Zenon DEF Care, Supervised
  <2>8. Watched'
    BY <1>1, <1>5, <2>3, Zenon DEF Care, Watched
  <2>9. \A j : ExitPending(j) => ExitPending(j)'
    BY <2>1, <2>3, ExitIs, ExitIsNext DEF ExitIn
  <2>10. DeathNoticed'
    <3>1. \A j \in records : life'[j] = life[j]
      BY <1>2, <2>3
    <3> QED
      BY <1>1, <2>9, <3>1, Zenon DEF Care, DeathNoticed, ExitSwallowed
  <2> QED
    BY <2>5, <2>6, <2>7, <2>8, <2>10 DEF Care
<1> QED
  BY <1>3, <1>4, <1>5 DEF StopCall

(* stop_process takes the record first; the child it was of is waited for, *)
(* or let go.                                                              *)
LEMMA StopCare ==
    ASSUME Ground, Care, spc = "loop", NEW i \in records,
           records' = records \ {i}, watched' = watched \ {kid[i]},
           UNCHANGED <<kid, failed, refused, swallowed>>,
           spc' \in {"loop", "stopCall", "stopWait"}, cur' \in {0, i},
           cur' = 0 => i \in letgo' /\ spc' = "loop",
           letgo \subseteq letgo', killed \subseteq killed',
           spc' = "stopWait" => life'[i] \notin {"spawned", "up"} \/ i \in killed' \cup letgo',
           \A j \in Spawns : j # i => life'[j] = life[j],
           \A j : j # i /\ ExitPending(j) => ExitPending(j)'
    PROVE  Care'
<1>1. cur = 0 /\ records \subseteq Spawns
  BY SupervisionAssumption DEF Ground, TypeOK, Spawns
<1>2. Waited' /\ (watched \cap ByName = {})'
  BY DEF Care, Waited
<1>3. Supervised'
  <2>1. SUFFICES ASSUME NEW j \in Spawns, life'[j] \in {"spawned", "up"}
                 PROVE  \/ j \in records' \/ cur' = j \/ j \in killed' \/ j \in letgo'
                        \/ kid[j] \in ByName
    BY DEF Supervised
  <2>2. CASE j = i
    BY <2>2
  <2>3. CASE j # i
    <3>1. life[j] \in {"spawned", "up"} /\ j # 0
      BY <2>1, <2>3 DEF Spawns
    <3> QED
      BY <1>1, <2>3, <3>1 DEF Care, Supervised
  <2> QED
    BY <2>2, <2>3
<1>4. Watched'
  <2>1. SUFFICES ASSUME NEW k \in watched, k # kid[i]
                 PROVE  \/ \E j \in records' : kid[j] = k
                        \/ \E j \in failed : kid[j] = k
                        \/ k \in refused
    BY DEF Watched
  <2> QED
    BY <2>1 DEF Care, Watched
<1>5. DeathNoticed'
  <2>1. SUFFICES ASSUME NEW j \in records, j # i
                 PROVE  \/ life'[j] \in {"spawned", "up", "ended"}
                        \/ ExitPending(j)' \/ ExitSwallowed(j)'
    BY DEF DeathNoticed
  <2>2. life'[j] = life[j]
    BY <1>1, <2>1
  <2> QED
    BY <2>1, <2>2 DEF Care, DeathNoticed, ExitSwallowed
<1> QED
  BY <1>2, <1>3, <1>4, <1>5 DEF Care

LEMMA OnStopStep ==
    ASSUME Ground, Care, OnStop
    PROVE  Ground' /\ Care'
<1> DEFINE i == Top.child
           t == Top.process_type
           callable == kid[i] \in Gen
<1>1. /\ spc = "loop" /\ HasMail /\ Top.type \in {"stop", "restart"}
      /\ i \in records /\ records' = records \ {i} /\ watched' = watched \ {kid[i]}
      /\ cur' = IF t = "gen" /\ ~callable THEN 0 ELSE i
      /\ again' = (Top.type = "restart" /\ cur' = i)
      /\ letgo' = IF t = "none" \/ cur' = 0 THEN letgo \cup {i} ELSE letgo
      /\ UNCHANGED <<want, next, failed, refused, swallowed, bounds>>
  BY Zenon DEF OnStop
<1>2. \/ /\ t = "raw" /\ spc' = "stopWait"
         /\ \E r \in BOOLEAN : Kill(i, r) /\ mail' = WithExit(TakeFirst(mail), i, r)
      \/ /\ t = "gen" /\ callable /\ spc' = "stopCall"
         /\ stopping' = stopping \cup {i}
         /\ Take
         /\ UNCHANGED <<life, kid, nameVars, killed>>
      \/ /\ t = "none" \/ (t = "gen" /\ ~callable)
         /\ spc' = IF t = "none" THEN "stopWait" ELSE "loop"
         /\ Take
         /\ UNCHANGED <<childVars>>
  BY Zenon DEF OnStop
<1>4. /\ records \subseteq 1..next /\ 1..next \subseteq Spawns /\ i \in 1..next /\ i \in Spawns /\ i # 0
      /\ i \in 0..next
  BY <1>1, SupervisionAssumption DEF Ground, TypeOK, Spawns
<1>5. again' \in BOOLEAN /\ cur' \in 0..next /\ cur' \in {0, i} /\ letgo' \subseteq letgo \cup {i}
      /\ letgo \subseteq letgo' /\ (cur' = 0 => i \in letgo')
  BY <1>1, <1>4, SupervisionAssumption, Zenon DEF Ground, TypeOK
<1>6. /\ Inside(TakeFirst(mail)) \subseteq Inside(mail) /\ TakeFirst(mail) \in Boxes
      /\ \A m \in Inside(mail) : m \in Inside(TakeFirst(mail)) \/ m = Top
  BY <1>1, BoxTake DEF HasMail, Top, Ground
<1>7. ASSUME t = "raw", spc' = "stopWait", NEW r \in BOOLEAN, Kill(i, r),
             mail' = WithExit(TakeFirst(mail), i, r)
      PROVE  Ground' /\ Care'
  <2>1. /\ mail' \in Boxes /\ Inside(TakeFirst(mail)) \subseteq Inside(mail')
        /\ \A m \in Inside(mail') : LastWords(m)'
        /\ \A j \in Spawns : SpawnOf(j)'
        /\ life' \in [Spawns -> {"none", "spawned", "up", "ended", "exited", "cleaned", "gone"}]
        /\ names' \in [Kids -> 0..MaxSpawns]
        /\ killed \subseteq killed' /\ killed' \subseteq killed \cup {i}
        /\ \A j \in Spawns : j # i => life'[j] = life[j]
        /\ life'[i] \notin {"spawned", "up"} \/ i \in killed'
        /\ UNCHANGED <<kid, nameOf, unreg, renamed, stopping>>
    BY <1>1, <1>4, <1>6, <1>7, KillGround, Zenon
  <2>2. cur' = i
    BY <1>1, <1>7
  <2> HIDE DEF i, t, callable
  <2>3. TypeOK'
    <3>1. (cur' # 0) = (spc' \in {"wait", "stopCall", "stopWait"})
      BY <1>4, <1>7, <2>2
    <3>2. renamed' \cup stopping' \cup killed' \cup records' \cup failed' \cup letgo' \subseteq 1..next
      BY <1>1, <1>4, <1>5, <2>1 DEF Ground, TypeOK
    <3> QED
      BY <1>1, <1>5, <1>7, <2>1, <3>1, <3>2, Zenon DEF Ground, TypeOK, bounds
  <2>4. \A j : j # i /\ ExitPending(j) => ExitPending(j)'
    BY <1>1, <1>6, <2>1, ExitIs, ExitIsNext DEF ExitIn
  <2>5. Care'
    BY <1>1, <1>4, <1>5, <1>7, <2>1, <2>2, <2>4, StopCare
  <2> QED
    BY <2>1, <2>3, <2>5 DEF Ground
<1>8. ASSUME \/ /\ t = "gen" /\ callable /\ spc' = "stopCall"
                /\ stopping' = stopping \cup {i}
                /\ UNCHANGED <<life, kid, nameVars, killed>>
             \/ /\ t = "none" \/ (t = "gen" /\ ~callable)
                /\ spc' = IF t = "none" THEN "stopWait" ELSE "loop"
                /\ UNCHANGED <<childVars>>,
             Take
      PROVE  Ground' /\ Care'
  <2>1. /\ life' = life /\ kid' = kid /\ killed' = killed /\ UNCHANGED nameVars
        /\ stopping' \subseteq stopping \cup {i}
    BY <1>8 DEF childVars, orders
  <2>2. /\ spc' \in {"loop", "stopCall", "stopWait"}
        /\ (cur' # 0) = (spc' \in {"wait", "stopCall", "stopWait"})
        /\ spc' = "stopWait" => i \in letgo'
    BY <1>1, <1>4, <1>8
  <2> HIDE DEF i, t, callable
  <2>3. TypeOK'
    <3>1. renamed' \cup stopping' \cup killed' \cup records' \cup failed' \cup letgo' \subseteq 1..next
      BY <1>1, <1>4, <1>5, <2>1 DEF Ground, TypeOK, nameVars
    <3> QED
      BY <1>1, <1>5, <2>1, <2>2, <3>1 DEF Ground, TypeOK, bounds, nameVars
  <2>4. Ground'
    BY <1>1, <1>8, <2>1, <2>3, ReceiveGround
  <2>5. \A j : j # i /\ ExitPending(j) => ExitPending(j)'
    BY <1>1, <1>8, ExitsStay DEF Ground
  <2>6. Care'
    BY <1>1, <1>4, <1>5, <2>1, <2>2, <2>5, StopCare
  <2> QED
    BY <2>4, <2>6
<1> QED
  BY <1>2, <1>7, <1>8

-----------------------------------------------------------------------------
(* The invariants *)

SupervisionInv == SupervisorInv /\ NamesInv

LEMMA InitInv == Init => SupervisionInv
<1>1. SUFFICES ASSUME Init PROVE SupervisionInv
  OBVIOUS
<1>2. /\ AnyKid \in Kids /\ MaxSpawns \in Nat
      /\ {MaxRequests, MaxCrashes, MaxSpawns, MaxNaming} \subseteq Nat
  BY SupervisionAssumption DEF AnyKid
<1>3. TypeOK
  <2>1. /\ life \in [Spawns -> {"none", "spawned", "up", "ended", "exited", "cleaned", "gone"}]
        /\ kid \in [Spawns -> Kids] /\ names \in [Kids -> 0..MaxSpawns]
        /\ nameOf \in [Spawns -> SUBSET Kids]
    BY <1>1, <1>2 DEF Init
  <2>2. /\ cur \in 0..next /\ next \in 0..MaxSpawns
        /\ requests \in 0..MaxRequests /\ crashes \in 0..MaxCrashes
    BY <1>1, <1>2 DEF Init
  <2>3. /\ unreg = {} /\ renamed = {} /\ stopping = {} /\ killed = {} /\ records = {} /\ failed = {}
        /\ letgo = {} /\ watched = {} /\ refused = {}
        /\ spc = "loop" /\ cur = 0 /\ want \in Kids /\ again = FALSE
    BY <1>1, <1>2 DEF Init
  <2>4. (cur # 0) = (spc \in {"wait", "stopCall", "stopWait"})
    BY <2>3
  <2> QED
    BY <2>1, <2>2, <2>3, <2>4, Zenon DEF TypeOK
<1>4. mail \in Boxes /\ Inside(mail) = {}
  <2>1. NewBox \in Boxes /\ Pending(NewBox) = <<>>
    BY DEF NewBox, Boxes, Pending
  <2> QED
    BY <1>1, <2>1 DEF Init, Inside
<1>5. \A i \in Spawns : SpawnOf(i)
  BY <1>1, <1>2 DEF Init, SpawnOf, Spawns
<1>6. Waited /\ watched \cap ByName = {} /\ Supervised /\ Watched /\ DeathNoticed
  BY <1>1 DEF Init, Waited, Supervised, Watched, DeathNoticed
<1>7. NamesInv
  BY <1>1, <1>2 DEF Init, NamesInv, EntryOf, OwnedOf, NameKept
<1> QED
  BY <1>3, <1>4, <1>5, <1>6, <1>7 DEF SupervisionInv, SupervisorInv

LEMMA GroundAndCare == SupervisorInv <=> Ground /\ Care
BY DEF SupervisorInv, Ground, Care

LEMMA SupervisorKept ==
    ASSUME SupervisorInv, [Next]_vars
    PROVE  SupervisorInv'
<1>1. Ground /\ Care
  BY GroundAndCare
<1>2. CASE Next
  <2>1. Ground' /\ Care'
    BY <1>1, <1>2, RequestStep, ChildStep, OnExitStep, OtherStep, OnStopStep, SpawnStep,
       WaitStep, WaitNilStep, StopCallStep, StopWaitStep
       DEF Next, Supervisor
  <2> QED
    BY <2>1, GroundAndCare, PTL
<1>3. CASE UNCHANGED vars
  <2>1. mail' = mail /\ life' = life /\ UNCHANGED vars
    BY <1>3 DEF vars, childVars
  <2>2. TypeOK'
    BY <1>1, <1>3 DEF Ground, TypeOK, vars, childVars, nameVars, orders, superVars, pastVars, bounds
  <2>3. Ground' /\ Care'
    BY <1>1, <1>3, <2>2, ChildKeeps
       DEF vars, childVars, Grows, Ground
  <2> QED
    BY <2>3, GroundAndCare, PTL
<1> QED
  BY <1>2, <1>3

LEMMA NamesStep ==
    ASSUME SupervisionInv, [Next]_vars
    PROVE  NamesInv'
<1>1. NameTypes /\ NamesInv /\ Ground
  BY DEF SupervisionInv, SupervisorInv, TypeOK, NameTypes, LifeTypes, Ground
<1>a. life \in [Spawns -> {"none", "spawned", "up", "ended", "exited", "cleaned", "gone"}]
  BY <1>1 DEF NameTypes, LifeTypes
<1>2. ASSUME UNCHANGED <<life, kid, nameVars>> PROVE NamesInv'
  BY <1>1, <1>2, NamesStay DEF Ages
<1>3. CASE UNCHANGED vars
  BY <1>2, <1>3 DEF vars, childVars
<1>4. CASE Request \/ OnExit \/ OnStart \/ OnStopUnknown \/ OnReply \/ Wait \/ WaitNil \/ StopWait
  BY <1>2, <1>4, Zenon DEF Request, OnExit, OnStart, OnStopUnknown, OnReply, Wait, WaitNil, StopWait, childVars
<1>5. ASSUME NEW i \in Spawns, Child(i) \/ Destory(i) PROVE NamesInv'
  <2>1. CASE Register(i)
    <3>1. CASE names[kid[i]] = 0
      BY <1>1, <2>1, <3>1, RegisterNames DEF Register, Become
    <3>2. CASE names[kid[i]] # 0
      <4>1. UNCHANGED nameVars /\ kid' = kid /\ life' = [life EXCEPT ![i] = "ended"] /\ life[i] = "spawned"
        BY <2>1, <3>2 DEF Register, Become, nameVars
      <4>2. \A j \in Spawns : Ages(j)
        BY <1>a, <4>1 DEF Ages
      <4> QED
        BY <1>1, <4>1, <4>2, NamesStay
    <3> QED
      BY <3>1, <3>2
  <2>2. CASE UnRegister(i)
    <3>1. PICK k \in nameOf[i] : names' = [names EXCEPT ![k] = 0] /\ unreg' = unreg \cup {<<i, k>>}
      BY <2>2, Zenon DEF UnRegister
    <3>2. k \in Kids
      BY <1>1 DEF NameTypes
    <3> QED
      BY <1>1, <2>2, <3>1, <3>2, UnRegisterNames, Zenon DEF UnRegister
  <2>3. ASSUME NEW k \in Kids, RegisterMore(i, k) PROVE NamesInv'
    BY <1>1, <2>3, RegisterMoreNames, Zenon DEF RegisterMore
  <2>4. CASE Crash(i) \/ Stop(i) \/ Killed(i) \/ SendExitMsg(i) \/ Unmap(i)
    <3>1. /\ UNCHANGED nameVars /\ kid' = kid
          /\ \/ life[i] \in {"spawned", "up"} /\ life' = [life EXCEPT ![i] = "ended"]
             \/ life[i] = "ended" /\ life' = [life EXCEPT ![i] = "exited"]
             \/ life[i] = "cleaned" /\ life' = [life EXCEPT ![i] = "gone"]
      BY <2>4 DEF Crash, Stop, Killed, SendExitMsg, Unmap, Become
    <3>2. \A j \in Spawns : Ages(j)
      BY <1>a, <3>1 DEF Ages
    <3> QED
      BY <1>1, <3>1, <3>2, NamesStay
  <2>5. CASE Clean(i)
    BY <1>1, <2>5, CleanNames, Zenon DEF Clean, Become
  <2> QED
    BY <1>5, <2>1, <2>2, <2>3, <2>4, <2>5 DEF Child, Destory
<1>6. ASSUME NEW i \in Spawns, NEW r \in BOOLEAN, Kill(i, r) PROVE NamesInv'
  <2>1. CASE r
    BY <1>1, <1>6, <2>1, CleanNames, Zenon DEF Kill
  <2>2. CASE ~r
    BY <1>2, <1>6, <2>2 DEF Kill, nameVars
  <2> QED
    BY <2>1, <2>2
<1>7. CASE OnStop
  <2>1. HasMail /\ Top.child \in records
    BY <1>7, Zenon DEF OnStop
  <2>2. Top.child \in Spawns
    BY <1>1, <2>1, SupervisionAssumption DEF Ground, TypeOK, Spawns
  <2>3. \/ \E r \in BOOLEAN : Kill(Top.child, r)
        \/ UNCHANGED <<life, kid, nameVars>>
    BY <1>7 DEF OnStop, childVars
  <2> QED
    BY <1>2, <1>6, <2>2, <2>3
<1>8. CASE StopCall
  <2>1. spc = "stopCall" /\ (UNCHANGED childVars \/ \E r \in BOOLEAN : Kill(cur, r))
    BY <1>8 DEF StopCall
  <2>2. cur \in Spawns
    BY <1>1, <2>1, SupervisionAssumption DEF Ground, TypeOK, Spawns
  <2> QED
    BY <1>2, <1>6, <2>1, <2>2 DEF childVars
<1>9. CASE Spawn
  <2>1. /\ UNCHANGED nameVars
        /\ \/ UNCHANGED <<life, kid>>
           \/ /\ next < MaxSpawns
              /\ kid' = [kid EXCEPT ![next + 1] = want]
              /\ life' = [life EXCEPT ![next + 1] = "spawned"]
    BY <1>9, Zenon DEF Spawn, Become
  <2>2. CASE /\ next < MaxSpawns
             /\ kid' = [kid EXCEPT ![next + 1] = want]
             /\ life' = [life EXCEPT ![next + 1] = "spawned"]
    <3>1. next + 1 \in Spawns /\ next + 1 > next /\ kid \in [Spawns -> Kids]
      BY <1>1, <2>2, SupervisionAssumption DEF Ground, TypeOK, Spawns
    <3>2. life[next + 1] = "none"
      BY <1>1, <3>1 DEF Ground, SpawnOf
    <3>3. \A j \in Spawns : Ages(j)
      BY <1>a, <2>2, <3>1, <3>2 DEF Ages
    <3>4. \A j \in Spawns : life[j] # "none" => kid'[j] = kid[j]
      BY <2>2, <3>1, <3>2
    <3> QED
      BY <1>1, <2>1, <3>3, <3>4, NamesStay
  <2> QED
    BY <1>2, <2>1, <2>2
<1> QED
  BY <1>3, <1>4, <1>5, <1>7, <1>8, <1>9 DEF Next, Supervisor

LEMMA SupervisionInvariance == Spec => []SupervisionInv
<1>1. SupervisionInv /\ [Next]_vars => SupervisionInv'
  BY SupervisorKept, NamesStep DEF SupervisionInv
<1> QED
  BY <1>1, InitInv, PTL DEF Spec

(* For any kids, however their starts, stops, kills, crashes and names     *)
(* interleave: what the table of names leads to lives (or has taken a      *)
(* second name), because Clean runs before a process leaves NodeMap; and   *)
(* a live process is found by its name unless that name was given up.      *)
THEOREM NamesAreSound == Spec => []NamesSound
<1>1. SupervisionInv => NamesSound
  <2>1. SUFFICES ASSUME SupervisionInv PROVE NamesSound
    OBVIOUS
  <2>2. \A k \in Kids : EntryOf(k)
    BY <2>1 DEF SupervisionInv, NamesInv
  <2>3. NameIsLive
    BY <2>2 DEF NameIsLive, EntryOf
  <2> QED
    BY <2>1, <2>3 DEF NamesSound, SupervisionInv, NamesInv
<1> QED
  BY <1>1, SupervisionInvariance, PTL

(* The death of a child on record is never overlooked: its EXIT message    *)
(* is in one of the boxes of selective receive until on_message takes it,  *)
(* and only the condition that raises an error loses it.                   *)
THEOREM DeathsAreNoticed == Spec => []DeathNoticed
<1>1. SupervisionInv => DeathNoticed
  BY DEF SupervisionInv, SupervisorInv
<1> QED
  BY <1>1, SupervisionInvariance, PTL

(* Every variable has its type, a live child is on record or waited for,   *)
(* killed or let go, and a kid on record is replaced when its child ends.  *)
THEOREM ChildrenAreOverseen == Spec => []Overseen
<1>1. SupervisionInv => Overseen
  BY DEF SupervisionInv, SupervisorInv, Overseen
<1> QED
  BY <1>1, SupervisionInvariance, PTL

====
