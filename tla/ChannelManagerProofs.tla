------------------------ MODULE ChannelManagerProofs ------------------------
(***************************************************************************)
(* Proofs about ChannelManager for every set of threads and any number of  *)
(* ids and channels: no channel is deleted while a thread holds it, the    *)
(* shared holds are exactly the live scopes, an id names one channel, and  *)
(* no channel is lost.                                                     *)
(***************************************************************************)
EXTENDS ChannelManager, SequenceTheorems, TLAPS

(* The inductive invariant.  A held channel stays in the map: RemoveItem()   *)
(* needs the lock that its holder shares.  What is inserted is fresh, and    *)
(* what is deleted is out of the map, so neither disturbs a holder.          *)
ScopesBounded ==
  \A t \in Threads : /\ Len(scopes[t]) <= 2
                     /\ pc[t] = "find" => Len(scopes[t]) < 2
                     /\ pc[t] = "idle" => scopes[t] = << >>
HeldMapped ==
  \A t \in Threads : \A i \in 1 .. Len(scopes[t]) : scopes[t][i] \subseteq Mapped
HandsOK ==
  /\ \A t \in Threads : obj[t] # NoObject <=> pc[t] \in {"insert", "delete"}
  /\ \A t \in Threads : pc[t] \in {"insert", "remove", "wantWrite"} => arg[t] \in Ids
  /\ \A t, u \in Threads :
       t # u => /\ obj[t] # NoObject => obj[t] # obj[u]
                /\ pc[t] = "insert" /\ pc[u] = "insert" => arg[t] # arg[u]
IInv == /\ TypeOK /\ ScopesBounded /\ HoldsMatchScopes /\ HeldMapped
        /\ IdsUnique /\ HandsOK /\ NoChannelLost

-----------------------------------------------------------------------------
(* The map only changes where it is written. *)
LEMMA SameMap ==
  ASSUME items' = items
  PROVE  Mapped' = Mapped
BY DEF Mapped

(* A thread that moves without touching a channel keeps the invariant. *)
LEMMA LocalStep ==
  ASSUME IInv, NEW t \in Threads, NEW place \in Places \ {"insert", "delete"},
         pc[t] \notin {"insert", "delete"}, GoOn(t, place),
         UNCHANGED <<rwShared, freeItemIds, items, created, destroyed, exists, obj, scopes>>,
         arg' = arg \/ \E id \in Ids \cup {All} : arg' = [arg EXCEPT ![t] = id],
         place \in {"remove", "wantWrite"} => arg'[t] \in Ids,
         place = "find" => Len(scopes[t]) < 2,
         place = "idle" => scopes[t] = << >>,
         apiCrit' \in ApiThreads \cup {NoThread}, itemsCrit' \in Threads \cup {NoThread}
  PROVE  IInv'
<1>1. pc' \in [Threads -> Places] /\ pc'[t] = place /\ \A u \in Threads \ {t} : pc'[u] = pc[u]
  BY DEF GoOn, IInv, TypeOK
<1>2. arg' \in [Threads -> Ids \cup {All}] /\ \A u \in Threads \ {t} : arg'[u] = arg[u]
  BY DEF IInv, TypeOK
<1>3. TypeOK'
  BY <1>1, <1>2 DEF IInv, TypeOK
<1>4. ScopesBounded'
  BY <1>1 DEF IInv, ScopesBounded
<1>5. HoldsMatchScopes'
  BY DEF IInv, HoldsMatchScopes
<1>6. HeldMapped'
  BY SameMap DEF IInv, HeldMapped
<1>7. IdsUnique'
  BY <1>1, <1>2 DEF IInv, IdsUnique
<1>8. HandsOK'
  BY <1>1, <1>2 DEF IInv, HandsOK
<1>9. NoChannelLost'
  BY SameMap DEF IInv, NoChannelLost, InHand
<1> QED BY <1>3, <1>4, <1>5, <1>6, <1>7, <1>8, <1>9 DEF IInv

LEMMA GetItemStep ==
  ASSUME IInv, NEW t \in Threads, GetItem(t)
  PROVE  IInv'
<1> DEFINE n == Len(scopes[t])
<1>1. /\ pc[t] = "find" /\ GoOn(t, "call")
      /\ scopes' = [scopes EXCEPT ![t] = Append(@, Found(arg[t]))]
      /\ rwShared' = IF Found(arg[t]) = {} THEN rwShared ELSE rwShared \cup {<<t, n + 1>>}
      /\ UNCHANGED <<apiCrit, itemsCrit, freeItemIds, items, created, destroyed, exists, arg, obj>>
  BY DEF GetItem
<1>2. scopes[t] \in Seq(SUBSET Objects) /\ n \in 0 .. 1 /\ arg[t] \in Ids \cup {All}
  <2>1. scopes[t] \in Seq(SUBSET Objects) /\ arg[t] \in Ids \cup {All}
    BY DEF IInv, TypeOK
  <2>2. n < 2
    BY <1>1 DEF IInv, ScopesBounded
  <2>3. n \in Nat
    BY <2>1, LenProperties
  <2>4. n \in 0 .. 1
    <3> HIDE DEF n
    <3> QED BY <2>2, <2>3
  <2> QED BY <2>1, <2>4
<1>3. Found(arg[t]) \subseteq Mapped /\ Found(arg[t]) \in SUBSET Objects
  BY <1>2 DEF Found, Mapped, All, Ids, IInv, TypeOK
<1>4. /\ scopes'[t] \in Seq(SUBSET Objects) /\ Len(scopes'[t]) = n + 1
      /\ scopes'[t][n + 1] = Found(arg[t])
      /\ \A i \in 1 .. n : scopes'[t][i] = scopes[t][i]
      /\ \A u \in Threads \ {t} : scopes'[u] = scopes[u]
      /\ scopes' \in [Threads -> Seq(SUBSET Objects)]
  BY <1>1, <1>2, <1>3, AppendProperties DEF IInv, TypeOK
<1>5. pc' \in [Threads -> Places] /\ pc'[t] = "call" /\ \A u \in Threads \ {t} : pc'[u] = pc[u]
  BY <1>1 DEF GoOn, IInv, TypeOK, Places
<1>6. TypeOK'
  <2>1. rwShared' \subseteq Threads \X (Nat \ {0})
    BY <1>1, <1>2 DEF IInv, TypeOK
  <2> QED BY <1>1, <1>4, <1>5, <2>1 DEF IInv, TypeOK
<1>7. ScopesBounded'
  <2> SUFFICES ASSUME NEW u \in Threads
               PROVE  /\ Len(scopes'[u]) <= 2
                      /\ pc'[u] = "find" => Len(scopes'[u]) < 2
                      /\ pc'[u] = "idle" => scopes'[u] = << >>
    BY DEF ScopesBounded
  <2>1. CASE u = t
    BY <1>2, <1>4, <1>5, <2>1
  <2>2. CASE u # t
    BY <1>4, <1>5, <2>2 DEF IInv, ScopesBounded
  <2> QED BY <2>1, <2>2
<1>8. HoldsMatchScopes'
  BY <1>1, <1>2, <1>4 DEF IInv, HoldsMatchScopes
<1>9. HeldMapped'
  BY <1>1, <1>2, <1>3, <1>4, SameMap DEF IInv, HeldMapped
<1>10. IdsUnique'
  BY <1>1, <1>5 DEF IInv, IdsUnique
<1>11. HandsOK'
  BY <1>1, <1>5 DEF IInv, HandsOK
<1>12. NoChannelLost'
  BY <1>1, SameMap DEF IInv, NoChannelLost, InHand
<1> QED BY <1>6, <1>7, <1>8, <1>9, <1>10, <1>11, <1>12 DEF IInv

LEMMA CloseScopeStep ==
  ASSUME IInv, NEW t \in Threads, CloseScope(t)
  PROVE  IInv'
<1> DEFINE n == Len(scopes[t])
<1>1. /\ pc[t] = "call" /\ scopes[t] # << >>
      /\ rwShared' = IF scopes[t][n] # {} THEN rwShared \ {<<t, n>>} ELSE rwShared
      /\ scopes' = [scopes EXCEPT ![t] = SubSeq(@, 1, n - 1)]
      /\ UNCHANGED <<apiCrit, itemsCrit, freeItemIds, items, created, destroyed, exists, pc, arg, obj>>
  BY DEF CloseScope, NeedsRelease
<1>2. scopes[t] \in Seq(SUBSET Objects) /\ n \in 1 .. 2
  <2>1. scopes[t] \in Seq(SUBSET Objects)
    BY DEF IInv, TypeOK
  <2>2. n <= 2
    BY DEF IInv, ScopesBounded
  <2>3. n \in Nat \ {0}
    BY <1>1, <2>1, EmptySeq
  <2>4. n \in 1 .. 2
    <3> HIDE DEF n
    <3> QED BY <2>2, <2>3
  <2> QED BY <2>1, <2>4
<1>3. /\ scopes'[t] \in Seq(SUBSET Objects) /\ Len(scopes'[t]) = n - 1
      /\ \A i \in 1 .. n - 1 : scopes'[t][i] = scopes[t][i]
      /\ \A u \in Threads \ {t} : scopes'[u] = scopes[u]
      /\ scopes' \in [Threads -> Seq(SUBSET Objects)]
  <2>1. scopes'[t] = SubSeq(scopes[t], 1, n - 1)
    BY <1>1 DEF IInv, TypeOK
  <2>2. /\ scopes'[t] \in Seq(SUBSET Objects) /\ Len(scopes'[t]) = n - 1
        /\ \A i \in 1 .. n - 1 : scopes'[t][i] = scopes[t][i]
    <3>1. \A i \in 1 .. n - 1 : scopes[t][i] \in SUBSET Objects
      BY <1>2, ElementOfSeq
    <3>2. /\ SubSeq(scopes[t], 1, n - 1) \in Seq(SUBSET Objects)
          /\ Len(SubSeq(scopes[t], 1, n - 1)) = IF 1 <= n - 1 THEN (n - 1) - 1 + 1 ELSE 0
          /\ \A i \in 1 .. (n - 1) - 1 + 1 : SubSeq(scopes[t], 1, n - 1)[i] = scopes[t][1 + i - 1]
      <4>1. n - 1 \in Int /\ 1 \in Int
        BY <1>2
      <4> QED BY <3>1, <4>1, SubSeqProperties
    <3> HIDE DEF n
    <3> QED BY <1>2, <2>1, <3>2
  <2> QED BY <1>1, <2>1, <2>2 DEF IInv, TypeOK
<1>4. TypeOK'
  BY <1>1, <1>3 DEF IInv, TypeOK
<1>5. ScopesBounded'
  BY <1>1, <1>2, <1>3 DEF IInv, ScopesBounded
<1>6. HoldsMatchScopes'
  <2>1. \A i \in 1 .. 2 : <<t, i>> \in rwShared' <=> i <= n - 1 /\ scopes'[t][i] # {}
    BY <1>1, <1>2, <1>3 DEF IInv, HoldsMatchScopes
  <2>2. \A u \in Threads \ {t}, i \in 1 .. 2 : <<u, i>> \in rwShared' <=> <<u, i>> \in rwShared
    BY <1>1
  <2>3. rwShared' \subseteq Threads \X (1 .. 2)
    BY <1>1 DEF IInv, HoldsMatchScopes
  <2>4. \A h \in Threads \X (1 .. 2) :
           h \in rwShared' <=> h[2] <= Len(scopes'[h[1]]) /\ scopes'[h[1]][h[2]] # {}
    <3> SUFFICES ASSUME NEW h \in Threads \X (1 .. 2)
                 PROVE  h \in rwShared' <=> h[2] <= Len(scopes'[h[1]]) /\ scopes'[h[1]][h[2]] # {}
      OBVIOUS
    <3> DEFINE u == h[1]
               i == h[2]
    <3>0. u \in Threads /\ i \in 1 .. 2 /\ h = <<u, i>>
      OBVIOUS
    <3> HIDE DEF u, i
    <3>1. CASE u = t
      BY <1>3, <2>1, <3>0, <3>1 DEF u, i
    <3>2. CASE u # t
      <4>1. <<u, i>> \in rwShared <=> i <= Len(scopes[u]) /\ scopes[u][i] # {}
        BY <3>0 DEF IInv, HoldsMatchScopes
      <4> QED BY <1>3, <2>2, <3>0, <3>2, <4>1 DEF u, i
    <3> QED BY <3>1, <3>2
  <2> QED BY <2>3, <2>4 DEF HoldsMatchScopes
<1>7. HeldMapped'
  BY <1>1, <1>2, <1>3, SameMap DEF IInv, HeldMapped
<1>8. IdsUnique' /\ HandsOK'
  BY <1>1 DEF IInv, IdsUnique, HandsOK
<1>9. NoChannelLost'
  BY <1>1, SameMap DEF IInv, NoChannelLost, InHand
<1> QED BY <1>4, <1>5, <1>6, <1>7, <1>8, <1>9 DEF IInv

LEMMA CreateItemStep ==
  ASSUME IInv, NEW t \in Threads, CreateItem(t)
  PROVE  IInv'
<1>1. /\ pc[t] = "create"
      /\ UNCHANGED <<apiCrit, itemsCrit, rwShared, items, destroyed, exists, scopes>>
  BY DEF CreateItem
<1>2. HoldsMatchScopes' /\ HeldMapped'
  BY <1>1, SameMap DEF IInv, HoldsMatchScopes, HeldMapped
<1>3. CASE /\ GoOn(t, "call") /\ UNCHANGED <<created, arg, obj>>
           /\ freeItemIds' \subseteq freeItemIds
  <2>1. pc' \in [Threads -> Places] /\ pc'[t] = "call" /\ \A u \in Threads \ {t} : pc'[u] = pc[u]
    BY <1>3 DEF GoOn, IInv, TypeOK, Places
  <2>2. TypeOK'
    BY <1>1, <1>3, <2>1 DEF IInv, TypeOK
  <2>3. ScopesBounded'
    BY <1>1, <2>1 DEF IInv, ScopesBounded
  <2>4. IdsUnique' /\ HandsOK'
    BY <1>1, <1>3, <2>1 DEF IInv, IdsUnique, HandsOK
  <2>5. NoChannelLost'
    BY <1>1, <1>3, SameMap DEF IInv, NoChannelLost, InHand
  <2> QED BY <1>2, <2>2, <2>3, <2>4, <2>5 DEF IInv
<1>4. ASSUME NEW id \in freeItemIds, freeItemIds' = freeItemIds \ {id},
             created < MaxObjects, created' = created + 1,
             arg' = [arg EXCEPT ![t] = id], obj' = [obj EXCEPT ![t] = created + 1],
             GoOn(t, "insert")
      PROVE  IInv'
  <2>1. id \in Ids /\ created \in 0 .. MaxObjects /\ MaxObjects \in Nat
    BY BoundsAssumption DEF IInv, TypeOK
  <2>2. /\ pc' \in [Threads -> Places] /\ pc'[t] = "insert"
        /\ \A u \in Threads \ {t} : pc'[u] = pc[u]
    BY <1>4 DEF GoOn, IInv, TypeOK, Places
  <2>3. /\ arg' \in [Threads -> Ids \cup {All}] /\ arg'[t] = id
        /\ \A u \in Threads \ {t} : arg'[u] = arg[u]
    BY <1>4, <2>1 DEF IInv, TypeOK
  <2>4. created' \in Objects /\ created' \in 0 .. MaxObjects /\ created' # NoObject
    BY <1>4, <2>1 DEF Objects, NoObject
  <2>5. /\ obj' \in [Threads -> Objects \cup {NoObject}] /\ obj'[t] = created'
        /\ \A u \in Threads \ {t} : obj'[u] = obj[u]
    BY <1>4, <2>4 DEF IInv, TypeOK
  <2>6. TypeOK'
    BY <1>1, <1>4, <2>2, <2>3, <2>4, <2>5 DEF IInv, TypeOK
  <2>7. ScopesBounded'
    BY <1>1, <2>2 DEF IInv, ScopesBounded
  <2>8. IdsUnique'
    BY <1>1, <1>4, <2>1, <2>2, <2>3 DEF IInv, IdsUnique
  <2>9. created' \notin 1 .. created /\ 1 .. created' = (1 .. created) \cup {created'}
    BY <1>4, <2>1
  <2>10. obj[t] = NoObject
    BY <1>1 DEF IInv, HandsOK
  <2>11. InHand' = InHand \cup {created'} /\ created' \notin InHand /\ created' \notin Mapped \cup destroyed
    <3>1. InHand' = InHand \cup {created'}
      BY <2>4, <2>5, <2>10 DEF InHand
    <3> QED BY <2>9, <3>1 DEF IInv, NoChannelLost
  <2>12. HandsOK'
    <3>1. \A u \in Threads \ {t} : obj[u] # created'
      BY <2>4, <2>11 DEF InHand
    <3>2. \A u \in Threads \ {t} : pc[u] = "insert" => arg[u] # id
      BY DEF IInv, IdsUnique
    <3>3. \A u \in Threads : obj'[u] # NoObject <=> pc'[u] \in {"insert", "delete"}
      BY <2>2, <2>4, <2>5 DEF IInv, HandsOK
    <3>4. \A u \in Threads : pc'[u] \in {"insert", "remove", "wantWrite"} => arg'[u] \in Ids
      BY <2>1, <2>2, <2>3 DEF IInv, HandsOK
    <3>5. \A u, v \in Threads : u # v =>
             /\ obj'[u] # NoObject => obj'[u] # obj'[v]
             /\ pc'[u] = "insert" /\ pc'[v] = "insert" => arg'[u] # arg'[v]
      BY <2>2, <2>3, <2>4, <2>5, <3>1, <3>2 DEF IInv, HandsOK
    <3> QED BY <3>3, <3>4, <3>5 DEF HandsOK
  <2>13. NoChannelLost'
    <3>1. Mapped' = Mapped /\ destroyed' = destroyed
      BY <1>1, SameMap
    <3> QED BY <2>9, <2>11, <3>1 DEF IInv, NoChannelLost
  <2> QED BY <1>2, <2>6, <2>7, <2>8, <2>12, <2>13 DEF IInv
<1> QED BY <1>3, <1>4 DEF CreateItem, TakeId

LEMMA InsertItemStep ==
  ASSUME IInv, NEW t \in Threads, InsertItem(t)
  PROVE  IInv'
<1>1. /\ pc[t] = "insert" /\ GoOn(t, "call")
      /\ items' = [items EXCEPT ![arg[t]] = obj[t]] /\ obj' = [obj EXCEPT ![t] = NoObject]
      /\ UNCHANGED <<apiCrit, itemsCrit, rwShared, freeItemIds, created, destroyed, exists, arg, scopes>>
  BY DEF InsertItem
<1>2. /\ arg[t] \in Ids /\ obj[t] # NoObject /\ obj[t] \in Objects
      /\ items[arg[t]] = NoObject /\ arg[t] \notin freeItemIds
  BY <1>1 DEF IInv, HandsOK, IdsUnique, TypeOK
<1>3. obj[t] \in InHand /\ obj[t] \notin Mapped /\ obj[t] \notin destroyed
  BY <1>2 DEF InHand, IInv, NoChannelLost
<1>4. /\ items' \in [Ids -> Objects \cup {NoObject}] /\ items'[arg[t]] = obj[t]
      /\ \A id \in Ids \ {arg[t]} : items'[id] = items[id]
  BY <1>1, <1>2 DEF IInv, TypeOK
<1>5. Mapped' = Mapped \cup {obj[t]}
  BY <1>2, <1>4 DEF Mapped
<1>6. /\ obj' \in [Threads -> Objects \cup {NoObject}] /\ obj'[t] = NoObject
      /\ \A u \in Threads \ {t} : obj'[u] = obj[u]
  BY <1>1 DEF IInv, TypeOK
<1>7. /\ pc' \in [Threads -> Places] /\ pc'[t] = "call"
      /\ \A u \in Threads \ {t} : pc'[u] = pc[u]
  BY <1>1 DEF GoOn, IInv, TypeOK, Places
<1>8. TypeOK'
  BY <1>1, <1>4, <1>6, <1>7 DEF IInv, TypeOK
<1>9. ScopesBounded'
  BY <1>1, <1>7 DEF IInv, ScopesBounded
<1>10. HoldsMatchScopes'
  BY <1>1 DEF IInv, HoldsMatchScopes
<1>11. HeldMapped'
  BY <1>1, <1>5 DEF IInv, HeldMapped
<1>12. IdsUnique'
  <2>1. \A id \in Ids : items[id] # obj[t]
    BY <1>2, <1>3 DEF Mapped
  <2>2. \A id \in Ids : items'[id] # NoObject => id \notin freeItemIds'
    BY <1>1, <1>2, <1>4 DEF IInv, IdsUnique
  <2>3. \A id, other \in Ids : items'[id] # NoObject /\ items'[id] = items'[other] => id = other
    BY <1>4, <2>1 DEF IInv, IdsUnique
  <2>4. \A u \in Threads : pc'[u] = "insert" =>
           items'[arg'[u]] = NoObject /\ arg'[u] \notin freeItemIds'
    <3> SUFFICES ASSUME NEW u \in Threads, pc'[u] = "insert"
                 PROVE  items'[arg[u]] = NoObject /\ arg[u] \notin freeItemIds
      BY <1>1
    <3>1. u # t /\ pc[u] = "insert"
      BY <1>7
    <3>2. arg[u] # arg[t] /\ arg[u] \in Ids
      BY <1>1, <3>1 DEF IInv, HandsOK
    <3> QED BY <1>4, <3>1, <3>2 DEF IInv, IdsUnique
  <2> QED BY <2>2, <2>3, <2>4 DEF IdsUnique
<1>13. HandsOK'
  BY <1>1, <1>6, <1>7 DEF IInv, HandsOK
<1>14. NoChannelLost'
  <2>1. InHand' = InHand \ {obj[t]}
    BY <1>2, <1>6 DEF InHand, IInv, HandsOK
  <2> QED BY <1>1, <1>3, <1>5, <2>1 DEF IInv, NoChannelLost
<1> QED BY <1>8, <1>9, <1>10, <1>11, <1>12, <1>13, <1>14 DEF IInv

LEMMA RemoveItemStep ==
  ASSUME IInv, NEW t \in Threads, RemoveItem(t)
  PROVE  IInv'
<1>1. /\ pc[t] = "wantWrite" /\ rwShared = {}
      /\ UNCHANGED <<apiCrit, rwShared, created, destroyed, exists, arg, scopes>>
      /\ itemsCrit' = NoThread
  BY DEF RemoveItem, MayRemove
<1>2. arg[t] \in Ids /\ obj[t] = NoObject
  BY <1>1 DEF IInv, HandsOK
(* Nobody holds a channel: every open scope found nothing. *)
<1>3. \A u \in Threads : \A i \in 1 .. Len(scopes[u]) : scopes[u][i] = {}
  <2> SUFFICES ASSUME NEW u \in Threads, NEW i \in 1 .. Len(scopes[u]), scopes[u][i] # {}
               PROVE  FALSE
    OBVIOUS
  <2>1. Len(scopes[u]) \in Nat
    BY LenProperties DEF IInv, TypeOK
  <2>2. Len(scopes[u]) <= 2
    BY DEF IInv, ScopesBounded
  <2>3. i \in 1 .. 2 /\ i <= Len(scopes[u])
    BY <2>1, <2>2
  <2>4. <<u, i>> \in rwShared
    BY <2>3 DEF IInv, HoldsMatchScopes
  <2> QED BY <1>1, <2>4
<1>4. HoldsMatchScopes'
  BY <1>1 DEF IInv, HoldsMatchScopes
<1>5. HeldMapped'
  BY <1>1, <1>3 DEF HeldMapped
<1>6. CASE GoOn(t, "call") /\ UNCHANGED <<items, freeItemIds, obj>>
  <2>1. /\ pc' \in [Threads -> Places] /\ pc'[t] = "call"
        /\ \A u \in Threads \ {t} : pc'[u] = pc[u]
    BY <1>6 DEF GoOn, IInv, TypeOK, Places
  <2>2. TypeOK' /\ ScopesBounded'
    BY <1>1, <1>6, <2>1 DEF IInv, TypeOK, ScopesBounded
  <2>3. IdsUnique' /\ HandsOK'
    BY <1>1, <1>6, <2>1 DEF IInv, IdsUnique, HandsOK
  <2>4. NoChannelLost'
    BY <1>1, <1>6, SameMap DEF IInv, NoChannelLost, InHand
  <2> QED BY <1>4, <1>5, <2>2, <2>3, <2>4 DEF IInv
<1>7. CASE /\ items[arg[t]] # NoObject
           /\ items' = [items EXCEPT ![arg[t]] = NoObject]
           /\ freeItemIds' = freeItemIds \cup {arg[t]}
           /\ obj' = [obj EXCEPT ![t] = items[arg[t]]]
           /\ GoOn(t, "delete")
  <2> DEFINE gone == items[arg[t]]
  <2>1. /\ pc' \in [Threads -> Places] /\ pc'[t] = "delete"
        /\ \A u \in Threads \ {t} : pc'[u] = pc[u]
    BY <1>7 DEF GoOn, IInv, TypeOK, Places
  <2>2. gone \in Objects /\ gone \in Mapped /\ gone # NoObject
    BY <1>2, <1>7 DEF IInv, TypeOK, Mapped
  <2>3. /\ items' \in [Ids -> Objects \cup {NoObject}] /\ items'[arg[t]] = NoObject
        /\ \A id \in Ids \ {arg[t]} : items'[id] = items[id]
    BY <1>2, <1>7 DEF IInv, TypeOK
  <2>4. /\ obj' \in [Threads -> Objects \cup {NoObject}] /\ obj'[t] = gone
        /\ \A u \in Threads \ {t} : obj'[u] = obj[u]
    BY <1>7, <2>2 DEF IInv, TypeOK
  <2>5. Mapped' = Mapped \ {gone}
    <3>1. \A id \in Ids : items[id] = gone => id = arg[t]
      BY <1>2, <2>2 DEF IInv, IdsUnique
    <3> QED BY <1>2, <2>2, <2>3, <3>1 DEF Mapped
  <2>6. InHand' = InHand \cup {gone}
    BY <1>2, <2>2, <2>4 DEF InHand
  <2>7. TypeOK'
    BY <1>1, <1>2, <1>7, <2>1, <2>3, <2>4 DEF IInv, TypeOK
  <2>8. ScopesBounded'
    BY <1>1, <2>1 DEF IInv, ScopesBounded
  <2>9. IdsUnique'
    BY <1>1, <1>2, <1>7, <2>1, <2>3 DEF IInv, IdsUnique, HandsOK
  <2>10. HandsOK'
    <3>1. \A u \in Threads : obj[u] # gone
      BY <2>2 DEF InHand, IInv, NoChannelLost
    <3> QED BY <1>1, <2>1, <2>2, <2>4, <3>1 DEF IInv, HandsOK
  <2>11. NoChannelLost'
    BY <1>1, <2>2, <2>5, <2>6 DEF IInv, NoChannelLost
  <2> QED BY <1>4, <1>5, <2>7, <2>8, <2>9, <2>10, <2>11 DEF IInv
<1> QED BY <1>6, <1>7 DEF RemoveItem, Erased, AddFreeItemId

LEMMA DeleteChannelStep ==
  ASSUME IInv, NEW t \in Threads, DeleteChannel(t)
  PROVE  IInv'
<1>1. /\ pc[t] = "delete" /\ GoOn(t, "call")
      /\ destroyed' = destroyed \cup {obj[t]} /\ obj' = [obj EXCEPT ![t] = NoObject]
      /\ UNCHANGED <<apiCrit, itemsCrit, rwShared, freeItemIds, items, created, exists, arg, scopes>>
  BY DEF DeleteChannel
<1>2. obj[t] # NoObject /\ obj[t] \in Objects
  BY <1>1 DEF IInv, HandsOK, TypeOK
<1>3. /\ pc' \in [Threads -> Places] /\ pc'[t] = "call"
      /\ \A u \in Threads \ {t} : pc'[u] = pc[u]
  BY <1>1 DEF GoOn, IInv, TypeOK, Places
<1>4. /\ obj' \in [Threads -> Objects \cup {NoObject}] /\ obj'[t] = NoObject
      /\ \A u \in Threads \ {t} : obj'[u] = obj[u]
  BY <1>1 DEF IInv, TypeOK
<1>5. InHand' = InHand \ {obj[t]} /\ obj[t] \in InHand
  BY <1>2, <1>4 DEF InHand, IInv, HandsOK
<1>6. TypeOK'
  BY <1>1, <1>2, <1>3, <1>4 DEF IInv, TypeOK
<1>7. ScopesBounded'
  BY <1>1, <1>3 DEF IInv, ScopesBounded
<1>8. HoldsMatchScopes' /\ HeldMapped'
  BY <1>1, SameMap DEF IInv, HoldsMatchScopes, HeldMapped
<1>9. IdsUnique' /\ HandsOK'
  BY <1>1, <1>3, <1>4 DEF IInv, IdsUnique, HandsOK
<1>10. NoChannelLost'
  BY <1>1, <1>5, SameMap DEF IInv, NoChannelLost
<1> QED BY <1>6, <1>7, <1>8, <1>9, <1>10 DEF IInv

LEMMA DestroyAllItemsStep ==
  ASSUME IInv, DestroyAllItems
  PROVE  IInv'
<1>1. /\ \A t \in Threads : pc[t] = "idle"
      /\ exists' = FALSE /\ destroyed' = destroyed \cup Mapped
      /\ items' = [id \in Ids |-> NoObject] /\ freeItemIds' = {}
      /\ UNCHANGED <<apiCrit, itemsCrit, rwShared, created, pc, arg, obj, scopes>>
  BY DEF DestroyAllItems, locals
<1>2. Mapped' = {} /\ Mapped \subseteq Objects
  BY <1>1 DEF Mapped, IInv, TypeOK
<1>3. \A t \in Threads : scopes[t] = << >> /\ Len(scopes[t]) = 0
  BY <1>1, EmptySeq DEF IInv, ScopesBounded
<1>4. TypeOK'
  BY <1>1, <1>2 DEF IInv, TypeOK
<1>5. ScopesBounded' /\ HoldsMatchScopes' /\ HandsOK'
  BY <1>1 DEF IInv, ScopesBounded, HoldsMatchScopes, HandsOK
<1>6. HeldMapped'
  BY <1>1, <1>3 DEF HeldMapped
<1>7. IdsUnique'
  BY <1>1 DEF IdsUnique
<1>8. NoChannelLost'
  BY <1>1, <1>2 DEF IInv, NoChannelLost, InHand, HandsOK
<1> QED BY <1>4, <1>5, <1>6, <1>7, <1>8 DEF IInv
-----------------------------------------------------------------------------
LEMMA Invariance == Spec => []IInv
<1>1. Init => IInv
  <2> SUFFICES ASSUME Init PROVE IInv
    OBVIOUS
  <2>1. Mapped = {} /\ InHand = {}
    BY DEF Init, Mapped, InHand
  <2>2. \A t \in Threads : scopes[t] = << >> /\ Len(scopes[t]) = 0
    BY EmptySeq DEF Init
  <2>3. TypeOK
    <3>1. << >> \in Seq(SUBSET Objects)
      BY EmptySeq
    <3>2. 0 \in Ids
      BY BoundsAssumption DEF Ids
    <3> QED BY <3>1, <3>2, BoundsAssumption DEF Init, TypeOK, Places, NoObject
  <2>4. ScopesBounded /\ HeldMapped
    BY <2>2 DEF ScopesBounded, HeldMapped
  <2>5. HoldsMatchScopes
    BY <2>2 DEF Init, HoldsMatchScopes
  <2>6. IdsUnique /\ HandsOK
    BY DEF Init, IdsUnique, HandsOK
  <2>7. NoChannelLost
    BY <2>1 DEF Init, NoChannelLost
  <2> QED BY <2>3, <2>4, <2>5, <2>6, <2>7 DEF IInv
<1>2. IInv /\ [Next]_vars => IInv'
  <2> SUFFICES ASSUME IInv, [Next]_vars PROVE IInv'
    OBVIOUS
  <2>1. ASSUME NEW t \in Threads, EnterCall(t) PROVE IInv'
    <3>1. apiCrit' \in ApiThreads \cup {NoThread}
      BY <2>1 DEF EnterCall, IInv, TypeOK
    <3> QED BY <2>1, <3>1, LocalStep DEF EnterCall, IInv, TypeOK, Places
  <2>2. ASSUME NEW t \in Threads, LeaveCall(t) PROVE IInv'
    <3>1. apiCrit' \in ApiThreads \cup {NoThread}
      BY <2>2 DEF LeaveCall, IInv, TypeOK
    <3> QED BY <2>2, <3>1, LocalStep DEF LeaveCall, IInv, TypeOK, Places
  <2>3. ASSUME NEW t \in Threads, OpenScope(t) PROVE IInv'
    <3>1. Len(scopes[t]) < MaxNest(t)
      BY <2>3 DEF OpenScope
    <3>2. Len(scopes[t]) \in Nat
      BY LenProperties DEF IInv, TypeOK
    <3>3. Len(scopes[t]) < 2
      BY <3>1, <3>2 DEF MaxNest
    <3> QED BY <2>3, <3>3, LocalStep DEF OpenScope, IInv, TypeOK, Places
  <2>4. ASSUME NEW t \in Threads, StartCreate(t) PROVE IInv'
    BY <2>4, LocalStep DEF StartCreate, IInv, TypeOK, Places
  <2>5. ASSUME NEW t \in Threads, StartRemove(t) PROVE IInv'
    <3>1. PICK id \in Ids : arg' = [arg EXCEPT ![t] = id]
      BY <2>5 DEF StartRemove
    <3>2. arg'[t] \in Ids
      BY <3>1 DEF IInv, TypeOK
    <3> QED BY <2>5, <3>1, <3>2, LocalStep DEF StartRemove, IInv, TypeOK, Places
  <2>6. ASSUME NEW t \in Threads, RemoveEnter(t) PROVE IInv'
    <3>1. arg'[t] \in Ids /\ itemsCrit' \in Threads \cup {NoThread}
      BY <2>6 DEF RemoveEnter, IInv, HandsOK
    <3> QED BY <2>6, <3>1, LocalStep DEF RemoveEnter, IInv, TypeOK, Places
  <2>7. ASSUME DestroyAllItems PROVE IInv'
    BY <2>7, DestroyAllItemsStep
  <2>8. CASE UNCHANGED vars
    <3>1. UNCHANGED <<apiCrit, itemsCrit, rwShared, freeItemIds, items, created, destroyed,
                      exists, pc, arg, obj, scopes>>
      BY <2>8 DEF vars, locals
    <3>2. TypeOK' /\ ScopesBounded' /\ HoldsMatchScopes'
      BY <3>1 DEF IInv, TypeOK, ScopesBounded, HoldsMatchScopes
    <3>3. HeldMapped' /\ IdsUnique' /\ HandsOK'
      BY <3>1, SameMap DEF IInv, HeldMapped, IdsUnique, HandsOK
    <3>4. NoChannelLost'
      BY <3>1, SameMap DEF IInv, NoChannelLost, InHand
    <3> QED BY <3>2, <3>3, <3>4 DEF IInv
  <2> QED BY <2>1, <2>2, <2>3, <2>4, <2>5, <2>6, <2>7, <2>8, GetItemStep, CloseScopeStep,
             CreateItemStep, InsertItemStep, RemoveItemStep, DeleteChannelStep
          DEF Next, Destroyed
<1> QED BY <1>1, <1>2, PTL DEF Spec

(* The manager's variables keep their types. *)
THEOREM TypeCorrect == Spec => []TypeOK
BY Invariance, PTL DEF IInv

(* No channel is deleted while a ScopedChannel of any thread holds it. *)
THEOREM ChannelsProtected == Spec => []HeldChannelsLive
<1>1. IInv => HeldChannelsLive
  BY DEF IInv, HeldMapped, NoChannelLost, HeldChannelsLive
<1> QED BY <1>1, Invariance, PTL

(* A shared hold of the lock stands for exactly one open scope. *)
THEOREM HoldsCorrect == Spec => []HoldsMatchScopes
BY Invariance, PTL DEF IInv

(* InsertItem()'s assertion holds and an id names one channel. *)
THEOREM IdsCorrect == Spec => []IdsUnique
BY Invariance, PTL DEF IInv

(* Every channel made is in the map, in a thread's hands, or deleted. *)
THEOREM NothingLost == Spec => []NoChannelLost
BY Invariance, PTL DEF IInv

(* Both: a channel is under one id, in one place, until it is deleted. *)
THEOREM Accounted == Spec => []ChannelsAccountedFor
BY IdsCorrect, NothingLost, PTL DEF ChannelsAccountedFor
=============================================================================
