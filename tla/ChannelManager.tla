--------------------------- MODULE ChannelManager ---------------------------
(***************************************************************************)
(* voice_engine/channel_manager_base.cc and channel_manager.cc: the map    *)
(* of channels, and the two locks that let audio and network threads use a *)
(* channel while an API call destroys it.                                  *)
(*                                                                         *)
(* _itemsCritSectPtr protects the map and the free ids.  _itemsRWLockPtr   *)
(* is held shared for as long as a ScopedChannel lives and exclusively by  *)
(* RemoveItem(), which waits for it while it holds _itemsCritSectPtr.      *)
(* An action is the run of one thread between two points where it can be   *)
(* made to wait; a thread that asks for a lock is committed to it.         *)
(*                                                                         *)
(* An API thread runs its call under SharedData's _apiCritPtr and may      *)
(* nest two ScopedChannels (VoEBaseImpl::StopSend(int) counts the sending  *)
(* channels while it holds one); a worker (audio device, network) takes    *)
(* no API lock and holds one ScopedChannel at a time.                      *)
(***************************************************************************)
EXTENDS Integers, Sequences, FiniteSets

CONSTANTS ApiThreads, WorkerThreads,   \* the threads
          N,              \* KMaxNumberOfItems
          MaxObjects,     \* bound: channel objects created in a behaviour
          NoThread        \* the owner of a free lock

ASSUME ThreadsAssumption == /\ ApiThreads \cap WorkerThreads = {}
                            /\ NoThread \notin ApiThreads \cup WorkerThreads
ASSUME BoundsAssumption == N \in Nat \ {0} /\ MaxObjects \in Nat

Threads == ApiThreads \cup WorkerThreads
Ids == 0 .. N - 1
NoObject == 0
Objects == 1 .. MaxObjects
All == N                  \* the argument of a ScopedChannel over every channel

VARIABLES apiCrit,        \* owner of SharedData::_apiCritPtr
          itemsCrit,      \* owner of _itemsCritSectPtr, when it is kept across a wait
          rwShared,       \* the shared holds of _itemsRWLockPtr, one token each
          freeItemIds,    \* _freeItemIds
          items,          \* _items: the channel object under each id
          created,        \* how many channel objects were created
          destroyed,      \* the objects that were deleted
          exists,         \* the manager is not destroyed
          pc, arg, obj,   \* each thread's place, its channel id and its object
          scopes          \* each thread's ScopedChannels, innermost last

locals == <<pc, arg, obj, scopes>>
vars == <<apiCrit, itemsCrit, rwShared, freeItemIds, items, created, destroyed, exists, locals>>

Places == {"idle", "call", "find", "create", "insert", "remove", "wantWrite", "delete"}

Mapped == {items[id] : id \in Ids} \ {NoObject}

Init == /\ apiCrit = NoThread /\ itemsCrit = NoThread
        /\ rwShared = {}
        /\ freeItemIds = Ids
        /\ items = [id \in Ids |-> NoObject]
        /\ created = 0 /\ destroyed = {} /\ exists = TRUE
        /\ pc = [t \in Threads |-> "idle"]
        /\ arg = [t \in Threads |-> 0]
        /\ obj = [t \in Threads |-> NoObject]
        /\ scopes = [t \in Threads |-> << >>]

GoOn(t, place) == pc' = [pc EXCEPT ![t] = place]
-----------------------------------------------------------------------------
\* Variants of definitions below, each with one mistake, that the properties reject.
NeedsRelease_Never(scope) == FALSE
MayRemove_NoWriteLock == TRUE
Erased_Kept(id) == items
-----------------------------------------------------------------------------
(* A call of the engine's API takes _apiCritPtr first; a worker takes nothing. *)
ApiLockFree(t) == t \in ApiThreads => apiCrit = NoThread

EnterCall(t) ==
  /\ exists /\ pc[t] = "idle"
  /\ ApiLockFree(t)
  /\ apiCrit' = IF t \in ApiThreads THEN t ELSE apiCrit
  /\ GoOn(t, "call")
  /\ UNCHANGED <<itemsCrit, rwShared, freeItemIds, items, created, destroyed, exists, arg, obj, scopes>>

LeaveCall(t) ==
  /\ pc[t] = "call" /\ scopes[t] = << >>
  /\ apiCrit' = IF apiCrit = t THEN NoThread ELSE apiCrit
  /\ GoOn(t, "idle")
  /\ UNCHANGED <<itemsCrit, rwShared, freeItemIds, items, created, destroyed, exists, arg, obj, scopes>>

(* ScopedChannel's constructors: look one channel up, or all of them. *)
MaxNest(t) == IF t \in ApiThreads THEN 2 ELSE 1

OpenScope(t) ==
  /\ pc[t] = "call" /\ Len(scopes[t]) < MaxNest(t)
  /\ \E id \in Ids \cup {All} : arg' = [arg EXCEPT ![t] = id]
  /\ GoOn(t, "find")
  /\ UNCHANGED <<apiCrit, itemsCrit, rwShared, freeItemIds, items, created, destroyed, exists, obj, scopes>>

(* What GetItem() or GetChannels() finds. *)
Found(id) == IF id = All THEN Mapped ELSE {items[id]} \ {NoObject}

(* The shared lock is taken inside the critical section and only if         *)
(* something is found.                                                      *)
GetItem(t) ==
  /\ pc[t] = "find" /\ itemsCrit = NoThread
  /\ scopes' = [scopes EXCEPT ![t] = Append(@, Found(arg[t]))]
  /\ rwShared' = IF Found(arg[t]) = {} THEN rwShared
                 ELSE rwShared \cup {<<t, Len(scopes[t]) + 1>>}
  /\ GoOn(t, "call")
  /\ UNCHANGED <<apiCrit, itemsCrit, freeItemIds, items, created, destroyed, exists, arg, obj>>

(* ~ScopedChannel() gives the shared lock back if it found something. *)
NeedsRelease(scope) == scope # {}

CloseScope(t) ==
  /\ pc[t] = "call" /\ scopes[t] # << >>
  /\ LET depth == Len(scopes[t])
     IN  /\ rwShared' = IF NeedsRelease(scopes[t][depth])
                        THEN rwShared \ {<<t, depth>>} ELSE rwShared
         /\ scopes' = [scopes EXCEPT ![t] = SubSeq(@, 1, depth - 1)]
  /\ UNCHANGED <<apiCrit, itemsCrit, freeItemIds, items, created, destroyed, exists, pc, arg, obj>>
-----------------------------------------------------------------------------
StartCreate(t) ==
  /\ t \in ApiThreads /\ pc[t] = "call" /\ scopes[t] = << >>
  /\ GoOn(t, "create")
  /\ UNCHANGED <<apiCrit, itemsCrit, rwShared, freeItemIds, items, created, destroyed, exists, arg, obj, scopes>>

(* CreateItem() up to InsertItem(): the lowest free id is taken and the     *)
(* channel is made.  When NewItem() fails the id is not given back.         *)
TakeId(id) == freeItemIds \ {id}

CreateItem(t) ==
  /\ pc[t] = "create" /\ itemsCrit = NoThread
  /\ \/ /\ freeItemIds = {}
        /\ GoOn(t, "call")
        /\ UNCHANGED <<freeItemIds, created, arg, obj>>
     \/ \E id \in freeItemIds :
          /\ \A other \in freeItemIds : id <= other
          /\ freeItemIds' = TakeId(id)
          /\ \/ /\ created < MaxObjects
                /\ created' = created + 1
                /\ arg' = [arg EXCEPT ![t] = id]
                /\ obj' = [obj EXCEPT ![t] = created + 1]
                /\ GoOn(t, "insert")
             \/ /\ GoOn(t, "call")
                /\ UNCHANGED <<created, arg, obj>>
  /\ UNCHANGED <<apiCrit, itemsCrit, rwShared, items, destroyed, exists, scopes>>

InsertItem(t) ==
  /\ pc[t] = "insert" /\ itemsCrit = NoThread
  /\ items' = [items EXCEPT ![arg[t]] = obj[t]]
  /\ obj' = [obj EXCEPT ![t] = NoObject]
  /\ GoOn(t, "call")
  /\ UNCHANGED <<apiCrit, itemsCrit, rwShared, freeItemIds, created, destroyed, exists, arg, scopes>>
-----------------------------------------------------------------------------
StartRemove(t) ==
  /\ t \in ApiThreads /\ pc[t] = "call" /\ scopes[t] = << >>
  /\ \E id \in Ids : arg' = [arg EXCEPT ![t] = id]
  /\ GoOn(t, "remove")
  /\ UNCHANGED <<apiCrit, itemsCrit, rwShared, freeItemIds, items, created, destroyed, exists, obj, scopes>>

(* RemoveItem() enters the critical section and asks for the write lock. *)
RemoveEnter(t) ==
  /\ pc[t] = "remove" /\ itemsCrit = NoThread
  /\ itemsCrit' = t
  /\ GoOn(t, "wantWrite")
  /\ UNCHANGED <<apiCrit, rwShared, freeItemIds, items, created, destroyed, exists, arg, obj, scopes>>

MayRemove == rwShared = {}
Erased(id) == [items EXCEPT ![id] = NoObject]
AddFreeItemId(id) == freeItemIds \cup {id}

RemoveItem(t) ==
  /\ pc[t] = "wantWrite" /\ MayRemove
  /\ itemsCrit' = NoThread
  /\ \/ /\ items[arg[t]] = NoObject
        /\ GoOn(t, "call")
        /\ UNCHANGED <<items, freeItemIds, obj>>
     \/ /\ items[arg[t]] # NoObject
        /\ items' = Erased(arg[t])
        /\ freeItemIds' = AddFreeItemId(arg[t])
        /\ obj' = [obj EXCEPT ![t] = items[arg[t]]]
        /\ GoOn(t, "delete")
  /\ UNCHANGED <<apiCrit, rwShared, created, destroyed, exists, arg, scopes>>

(* DestroyChannel() deletes the channel outside both locks. *)
DeleteChannel(t) ==
  /\ pc[t] = "delete"
  /\ destroyed' = destroyed \cup {obj[t]}
  /\ obj' = [obj EXCEPT ![t] = NoObject]
  /\ GoOn(t, "call")
  /\ UNCHANGED <<apiCrit, itemsCrit, rwShared, freeItemIds, items, created, exists, arg, scopes>>

(* ~ChannelManager(), once no thread is in a call: DestroyAllItems() takes  *)
(* no write lock.                                                           *)
DestroyAllItems ==
  /\ exists /\ \A t \in Threads : pc[t] = "idle"
  /\ exists' = FALSE
  /\ destroyed' = destroyed \cup Mapped
  /\ items' = [id \in Ids |-> NoObject]
  /\ freeItemIds' = {}
  /\ UNCHANGED <<apiCrit, itemsCrit, rwShared, created, locals>>

Destroyed == ~exists /\ UNCHANGED vars

Next == \/ \E t \in Threads :
             \/ EnterCall(t) \/ LeaveCall(t)
             \/ OpenScope(t) \/ GetItem(t) \/ CloseScope(t)
             \/ StartCreate(t) \/ CreateItem(t) \/ InsertItem(t)
             \/ StartRemove(t) \/ RemoveEnter(t) \/ RemoveItem(t) \/ DeleteChannel(t)
        \/ DestroyAllItems \/ Destroyed

(***************************************************************************)
(* Fairness: threads run, scopes end, and a thread that waits for          *)
(* _itemsCritSectPtr is not passed over for ever.                          *)
(***************************************************************************)
Fairness == \A t \in Threads :
              /\ SF_vars(GetItem(t) \/ RemoveEnter(t))
              /\ WF_vars(CloseScope(t) \/ RemoveItem(t))

Spec == Init /\ [][Next]_vars
FairSpec == Spec /\ Fairness
-----------------------------------------------------------------------------
(* Every variable has its type. *)
TypeOK == /\ apiCrit \in ApiThreads \cup {NoThread}
          /\ itemsCrit \in Threads \cup {NoThread}
          /\ rwShared \subseteq Threads \X (Nat \ {0})
          /\ freeItemIds \subseteq Ids
          /\ items \in [Ids -> Objects \cup {NoObject}]
          /\ created \in 0 .. MaxObjects
          /\ destroyed \subseteq Objects
          /\ exists \in BOOLEAN
          /\ pc \in [Threads -> Places]
          /\ arg \in [Threads -> Ids \cup {All}]
          /\ obj \in [Threads -> Objects \cup {NoObject}]
          /\ scopes \in [Threads -> Seq(SUBSET Objects)]

(* No thread has a pointer to a deleted channel: "Protects channels from    *)
(* being destroyed while being used" (channel_manager_base.h).              *)
HeldChannelsLive ==
  \A t \in Threads : \A i \in 1 .. Len(scopes[t]) : scopes[t][i] \cap destroyed = {}

(* The shared holds of the lock are the ScopedChannels that found something, *)
(* so none is released twice or forgotten.                                   *)
HoldsMatchScopes ==
  rwShared = {h \in Threads \X (1 .. 2) : /\ h[2] <= Len(scopes[h[1]])
                                         /\ scopes[h[1]][h[2]] # {}}

(* An id in use is not free, so InsertItem()'s assert(!_items.Find(itemId)) *)
(* holds, and a channel is under one id only.                               *)
IdsUnique ==
  /\ \A id \in Ids : items[id] # NoObject => id \notin freeItemIds
  /\ \A id, other \in Ids : items[id] # NoObject /\ items[id] = items[other] => id = other
  /\ \A t \in Threads : pc[t] = "insert" =>
       items[arg[t]] = NoObject /\ arg[t] \notin freeItemIds

(* A channel is in the map, being inserted or being deleted, or deleted:    *)
(* none is forgotten, and none is reachable after it is deleted.            *)
InHand == {obj[t] : t \in Threads} \ {NoObject}
NoChannelLost == /\ 1 .. created = Mapped \cup InHand \cup destroyed
                 /\ Mapped \cap (InHand \cup destroyed) = {}
                 /\ InHand \cap destroyed = {}

(* So each channel is under one id, in one place, until it is deleted. *)
ChannelsAccountedFor == IdsUnique /\ NoChannelLost

(* A call that destroys a channel, or looks one up, comes back: the thread  *)
(* that waits for the write lock inside the critical section does not wait  *)
(* for a thread that waits for the critical section.                        *)
CallsReturn == \A t \in Threads :
                 pc[t] \in {"find", "remove"} ~> pc[t] \in {"call", "delete"}
=============================================================================
