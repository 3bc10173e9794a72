--------------------------- MODULE ParcelLoadsProofs -------------------------
EXTENDS ParcelLoads, SequenceTheorems, WellFoundedInduction, TLAPS

(* Every set of naturals has a least one. *)
LEMMA LeastOf ==
  ASSUME NEW I \in SUBSET Nat, I # {}
  PROVE  Min(I) \in I
<1>1. PICK i \in I : \A j \in I : ~(<<j, i>> \in OpToRel(<, Nat))
  BY NatLessThanWellFounded, WFMin
<1>2. \A j \in I : ~(j < i)
  <2> SUFFICES ASSUME NEW j \in I, j < i PROVE FALSE
    OBVIOUS
  <2>1. <<j, i>> \in Nat \X Nat /\ <<j, i>>[1] = j /\ <<j, i>>[2] = i
    OBVIOUS
  <2>2. <<j, i>> \in OpToRel(<, Nat)
    BY <2>1, Zenon DEF OpToRel
  <2>3. QED
    BY <1>1, <2>2, Zenon
<1>3. \A j \in I : i <= j
  BY <1>2
<1>4. QED
  BY <1>3, Zenon DEF Min

(* RemoveAt leaves a sequence of what was there, one shorter. *)
LEMMA RemoveAtKeeps ==
  ASSUME NEW S, NEW s \in Seq(S), NEW i \in DOMAIN s
  PROVE  /\ RemoveAt(s, i) \in Seq(S)
         /\ Len(RemoveAt(s, i)) = Len(s) - 1
         /\ \A j \in DOMAIN RemoveAt(s, i) : \E m \in DOMAIN s : RemoveAt(s, i)[j] = s[m]
<1> DEFINE front == SubSeq(s, 1, i - 1)
           back == SubSeq(s, i + 1, Len(s))
<1>1. Len(s) \in Nat /\ DOMAIN s = 1..Len(s) /\ i \in 1..Len(s) /\ \A j \in 1..Len(s) : s[j] \in S
  BY LenProperties, ElementOfSeq
<1>2. /\ front \in Seq(S) /\ Len(front) = i - 1
      /\ \A j \in 1 .. i - 1 : front[j] = s[j]
  BY <1>1, SubSeqProperties
<1>3. /\ back \in Seq(S) /\ Len(back) = Len(s) - i
      /\ \A j \in 1 .. Len(s) - i : back[j] = s[i + j]
  BY <1>1, SubSeqProperties
<1>4. RemoveAt(s, i) = front \o back
  BY DEF RemoveAt
<1> HIDE DEF front, back
<1>a. /\ front \o back \in Seq(S)
      /\ Len(front \o back) = Len(front) + Len(back)
      /\ \A j \in 1 .. Len(front) + Len(back) :
           (front \o back)[j] = IF j <= Len(front) THEN front[j] ELSE back[j - Len(front)]
  BY <1>2, <1>3, ConcatProperties, Zenon
<1>b. Len(front) + Len(back) = Len(s) - 1
  BY <1>1, <1>2, <1>3
<1>5. /\ front \o back \in Seq(S)
      /\ Len(front \o back) = Len(s) - 1
      /\ \A j \in 1 .. Len(s) - 1 : (front \o back)[j] = IF j <= i - 1 THEN front[j] ELSE back[j - (i - 1)]
  BY <1>2, <1>a, <1>b
<1>6. \A j \in 1 .. Len(s) - 1 : \E m \in 1..Len(s) : (front \o back)[j] = s[m]
  <2> SUFFICES ASSUME NEW j \in 1 .. Len(s) - 1 PROVE \E m \in 1..Len(s) : (front \o back)[j] = s[m]
    OBVIOUS
  <2>1. CASE j <= i - 1
    BY <1>1, <1>2, <1>5, <2>1
  <2>2. CASE j > i - 1
    <3>1. j - (i - 1) \in 1 .. Len(s) - i /\ i + (j - (i - 1)) = j + 1 /\ j + 1 \in 1..Len(s)
      BY <1>1, <2>2
    <3>2. (front \o back)[j] = back[j - (i - 1)]
      BY <1>1, <1>5, <2>2
    <3>3. back[j - (i - 1)] = s[i + (j - (i - 1))]
      BY <1>3, <3>1
    <3>4. QED
      BY <3>1, <3>2, <3>3
  <2>3. j <= i - 1 \/ j > i - 1
    BY <1>1
  <2>4. QED
    BY <2>1, <2>2, <2>3
<1>7. QED
  BY <1>1, <1>4, <1>5, <1>6, LenProperties

(* So does RemoveFirstMatch, if there is a match. *)
LEMMA RemoveFirstMatchKeeps ==
  ASSUME NEW S, NEW s \in Seq(S), \E i \in DOMAIN s : Expired(s[i])
  PROVE  /\ RemoveFirstMatch(s, Expired) \in Seq(S)
         /\ Len(RemoveFirstMatch(s, Expired)) = Len(s) - 1
         /\ \A j \in DOMAIN RemoveFirstMatch(s, Expired) :
              \E m \in DOMAIN s : RemoveFirstMatch(s, Expired)[j] = s[m]
<1> DEFINE I == {i \in 1..Len(s) : Expired(s[i])}
<1>1. DOMAIN s = 1..Len(s) /\ Len(s) \in Nat
  BY LenProperties
<1>2. I \in SUBSET Nat /\ I # {}
  BY <1>1
<1>3. Min(I) \in DOMAIN s
  BY <1>1, <1>2, LeastOf
<1>4. RemoveFirstMatch(s, Expired) = RemoveAt(s, Min(I))
  BY <1>1, <1>2 DEF RemoveFirstMatch, SelectInSeq
<1> HIDE DEF I
<1>5. QED
  BY <1>3, <1>4, RemoveAtKeeps

-----------------------------------------------------------------------------
Entries == [key : Keys, value : Nat, expiresAt : Nat]
CallType == [pc : {"idle", "waiting", "loading", "read"}, key : Keys \cup {None},
             since : Nat, value : Nat, caches : BOOLEAN]

Inductive == TypeOK /\ IInv

(* A cache that holds nothing but what was cached before. *)
Leaves(s) ==
  /\ s \in Seq(Entries)
  /\ Len(s) <= Len(store)
  /\ \A j \in DOMAIN s : \E m \in DOMAIN store : s[j] = store[m]

(* The cache is a sequence of entries. *)
LEMMA StoreType ==
  ASSUME TypeOK
  PROVE  /\ store \in Seq(Entries) /\ Len(store) \in Nat /\ DOMAIN store = 1..Len(store)
         /\ \A i \in DOMAIN store : store[i] \in Entries
<1>1. store \in Seq(Entries)
  BY DEF TypeOK, Entries
<1>2. Len(store) \in Nat /\ DOMAIN store = 1..Len(store)
  BY <1>1, LenProperties, Zenon
<1>3. \A i \in 1..Len(store) : store[i] \in Entries
  BY <1>1, ElementOfSeq, Zenon
<1>4. QED
  BY <1>1, <1>2, <1>3, Zenon

(* Reading adds nothing to the cache. *)
LEMMA PurgedLeaves ==
  ASSUME TypeOK, NEW k \in Keys
  PROVE  Leaves(Purged(k))
<1>1. CASE Holds(k) /\ Get(k) = None
  <2>1. At(k) \in DOMAIN store
    BY <1>1, Zenon DEF Holds, At
  <2>2. Purged(k) = RemoveAt(store, At(k))
    BY <1>1, Zenon DEF Purged
  <2> HIDE DEF At
  <2>3. /\ RemoveAt(store, At(k)) \in Seq(Entries)
        /\ Len(RemoveAt(store, At(k))) = Len(store) - 1
        /\ \A j \in DOMAIN RemoveAt(store, At(k)) : \E m \in DOMAIN store : RemoveAt(store, At(k))[j] = store[m]
    BY <2>1, StoreType, RemoveAtKeeps, Zenon
  <2>4. Len(store) - 1 <= Len(store)
    BY StoreType
  <2>5. QED
    BY <2>2, <2>3, <2>4, Zenon DEF Leaves
<1>2. CASE ~(Holds(k) /\ Get(k) = None)
  <2>1. Purged(k) = store
    BY <1>2, Zenon DEF Purged
  <2>2. Len(store) <= Len(store)
    BY StoreType
  <2>3. QED
    BY <2>1, <2>2, StoreType, Zenon DEF Leaves
<1>3. QED
  BY <1>1, <1>2, Zenon

(* Making room removes one entry and adds none. *)
LEMMA MakeRoomLeaves ==
  ASSUME TypeOK, store # <<>>
  PROVE  Leaves(MakeRoom) /\ Len(MakeRoom) = Len(store) - 1
<1>0. Len(store) - 1 <= Len(store)
  BY StoreType
<1>1. CASE \E i \in DOMAIN store : Expired(store[i])
  <2>1. MakeRoom = RemoveFirstMatch(store, Expired)
    BY <1>1, Zenon DEF MakeRoom
  <2>2. /\ RemoveFirstMatch(store, Expired) \in Seq(Entries)
        /\ Len(RemoveFirstMatch(store, Expired)) = Len(store) - 1
        /\ \A j \in DOMAIN RemoveFirstMatch(store, Expired) :
             \E m \in DOMAIN store : RemoveFirstMatch(store, Expired)[j] = store[m]
    BY <1>1, StoreType, RemoveFirstMatchKeeps, Zenon
  <2>3. QED
    BY <1>0, <2>1, <2>2, Zenon DEF Leaves
<1>2. CASE ~ \E i \in DOMAIN store : Expired(store[i])
  <2>1. /\ Tail(store) \in Seq(Entries) /\ Len(Tail(store)) = Len(store) - 1
        /\ \A i \in 1 .. Len(Tail(store)) : Tail(store)[i] = store[i + 1]
    BY StoreType, HeadTailProperties, Zenon
  <2>2. \A i \in 1 .. Len(Tail(store)) : i + 1 \in DOMAIN store
    BY <2>1, StoreType
  <2>3. MakeRoom = Tail(store)
    BY <1>2, Zenon DEF MakeRoom
  <2>4. DOMAIN Tail(store) = 1..Len(Tail(store))
    BY <2>1, LenProperties, Zenon
  <2>5. QED
    BY <1>0, <2>1, <2>2, <2>3, <2>4, Zenon DEF Leaves
<1>3. QED
  BY <1>1, <1>2, Zenon

(* What is cached once a value was set: that value for its key, and for    *)
(* the other keys what was cached before; within the bound.                *)
LEMMA SetCaches ==
  ASSUME TypeOK, CacheBounded, NEW k \in Keys, NEW value \in Nat
  PROVE  /\ Set(k, value) \in Seq(Entries)
         /\ Len(Set(k, value)) <= MaxEntries
         /\ \A j \in DOMAIN Set(k, value) :
              \/ Set(k, value)[j] = [key |-> k, value |-> value, expiresAt |-> now + Ttl]
              \/ /\ Set(k, value)[j].key # k
                 /\ \E m \in DOMAIN store : Set(k, value)[j] = store[m]
<1> DEFINE entry == [key |-> k, value |-> value, expiresAt |-> now + Ttl]
           room == IF Len(store) >= MaxEntries THEN MakeRoom ELSE store
           again == [i \in DOMAIN room |-> IF room[i].key = k THEN entry ELSE room[i]]
<1>1. entry \in Entries
  BY BoundsAssumption DEF TypeOK, Entries
<1>2. Leaves(room) /\ Len(room) < MaxEntries
  <2>1. Len(store) \in Nat /\ Len(store) <= MaxEntries /\ MaxEntries \in Nat \ {0}
    BY StoreType, BoundsAssumption DEF CacheBounded
  <2>2. CASE Len(store) >= MaxEntries
    <3>1. store # <<>>
      BY <2>1, <2>2, EmptySeq
    <3>2. QED
      BY <2>1, <2>2, <3>1, MakeRoomLeaves
  <2>3. CASE ~(Len(store) >= MaxEntries)
    BY <2>1, <2>3, StoreType DEF Leaves
  <2>4. QED
    BY <2>2, <2>3
<1>3. Set(k, value) = IF \E i \in DOMAIN room : room[i].key = k THEN again ELSE Append(room, entry)
  BY DEF Set
<1> HIDE DEF entry, room
<1>4. /\ room \in Seq(Entries) /\ Len(room) \in Nat /\ DOMAIN room = 1..Len(room)
      /\ \A i \in DOMAIN room : room[i] \in Entries
  BY <1>2, LenProperties, ElementOfSeq DEF Leaves
<1>5. CASE \E i \in DOMAIN room : room[i].key = k
  <2>1. again \in Seq(Entries) /\ Len(again) = Len(room) /\ DOMAIN again = DOMAIN room
    BY <1>1, <1>4, IsASeq, LenProperties
  <2>2. QED
    BY <1>2, <1>3, <1>5, <2>1, BoundsAssumption DEF Leaves, entry
<1>6. CASE ~ \E i \in DOMAIN room : room[i].key = k
  <2>1. /\ Append(room, entry) \in Seq(Entries)
        /\ Len(Append(room, entry)) = Len(room) + 1
        /\ \A i \in 1..Len(room) : Append(room, entry)[i] = room[i]
        /\ Append(room, entry)[Len(room) + 1] = entry
    BY <1>1, <1>4, AppendProperties
  <2>2. DOMAIN Append(room, entry) = 1 .. Len(room) + 1
    BY <2>1, LenProperties
  <2>3. QED
    BY <1>2, <1>3, <1>4, <1>6, <2>1, <2>2, BoundsAssumption DEF Leaves, entry
<1>7. QED
  BY <1>5, <1>6

(* Removing entries keeps what is sound of them. *)
LEMMA LeavesKeep ==
  ASSUME TypeOK, CacheBounded, EntriesSound, Leaves(store'), now' = now
  PROVE  store' \in Seq(Entries) /\ CacheBounded' /\ EntriesSound'
<1>1. /\ store' \in Seq(Entries) /\ Len(store') <= Len(store)
      /\ \A j \in DOMAIN store' : \E m \in DOMAIN store : store'[j] = store[m]
  BY DEF Leaves
<1>2. CacheBounded'
  <2>1. Len(store') \in Nat /\ Len(store) \in Nat /\ MaxEntries \in Nat
    BY <1>1, StoreType, LenProperties, BoundsAssumption
  <2>2. QED
    BY <1>1, <2>1 DEF CacheBounded
<1>3. EntriesSound'
  <2>1. \A i \in DOMAIN store' :
          store'[i].value <= now' /\ store'[i].expiresAt <= store'[i].value + MaxLoad + Ttl
    BY <1>1 DEF EntriesSound
  <2>2. \A i, j \in DOMAIN store' : store'[i].key = store'[j].key => store'[i] = store'[j]
    BY <1>1 DEF EntriesSound
  <2>3. QED
    BY <2>1, <2>2 DEF EntriesSound
<1>4. QED
  BY <1>1, <1>2, <1>3

(* What the end of a load leaves of the calls and the loads in flight. *)
LEMMA LoadEnds ==
  ASSUME TypeOK, CallsSound, LoadsShared, NEW c \in Calls, Loading(c),
         End(c), Leave(c), now' = now
  PROVE  /\ call' \in [Calls -> CallType] /\ inflight' \in [Keys -> Calls \cup {None}]
         /\ \A d \in Calls : call'[d].pc # "idle" => call'[d] = call[d] /\ d # c
         /\ CallsSound' /\ LoadsShared'
<1>0. Idle \in CallType /\ Idle.pc = "idle"
  BY DEF Idle, CallType
<1>1. /\ call \in [Calls -> CallType] /\ inflight \in [Keys -> Calls \cup {None}]
      /\ call[c].key \in Keys /\ call[c].pc # "idle"
  BY DEF TypeOK, CallType, CallsSound, Loading
<1>2. call' \in [Calls -> CallType]
  BY <1>0, <1>1 DEF End
<1>3. inflight' \in [Keys -> Calls \cup {None}]
  BY <1>1 DEF Leave
<1>4. \A d \in Calls : call'[d] = IF d = c \/ (SingleFlight /\ call[d].pc = "waiting" /\ call[d].key = call[c].key)
                                   THEN Idle ELSE call[d]
  BY DEF End
<1>5. \A d \in Calls : call'[d].pc # "idle" => call'[d] = call[d] /\ d # c
  BY <1>0, <1>4, Zenon
<1>6. CallsSound'
  BY <1>5 DEF CallsSound, Loading
<1>7. LoadsShared'
  <2> SUFFICES ASSUME SingleFlight, NEW d \in Calls, Loading(d)'
               PROVE  inflight'[call'[d].key] = d /\ call'[d].caches
    BY DEF LoadsShared
  <2>1. call'[d] = call[d] /\ d # c /\ Loading(d)
    BY <1>5 DEF Loading
  <2>2. /\ inflight[call[d].key] = d /\ call[d].caches
        /\ inflight[call[c].key] = c
    BY <2>1 DEF LoadsShared
  <2>3. call[d].key # call[c].key /\ call[d].key \in Keys
    BY <2>1, <2>2 DEF CallsSound, Loading
  <2>4. inflight'[call[d].key] = inflight[call[d].key]
    BY <1>1, <2>3 DEF Leave
  <2>5. QED
    BY <2>1, <2>2, <2>4
<1>8. QED
  BY <1>2, <1>3, <1>5, <1>6, <1>7

-----------------------------------------------------------------------------
(* The invariant holds at first. *)
LEMMA InitInductive ==
  ASSUME Init
  PROVE  Inductive
<1>1. store = <<>> /\ store \in Seq(Entries) /\ Len(store) = 0 /\ DOMAIN store = {}
  BY EmptySeq DEF Init
<1>2. TypeOK
  BY <1>1 DEF Init, TypeOK, Idle, Entries
<1>3. IInv
  BY <1>1, BoundsAssumption, NoneAssumption
     DEF Init, Idle, IInv, CacheBounded, FreshEnough, EntriesSound, CallsSound, LoadsShared, InOrder,
         Loading, Reads, ServedBy
<1>4. QED
  BY <1>2, <1>3 DEF Inductive

(* Time that no load outlasts keeps the invariant. *)
LEMMA TickKeeps ==
  ASSUME Inductive, Tick
  PROVE  Inductive'
<1> USE DEF Inductive, Tick
<1>1. now' = now + 1 /\ now \in Nat /\ UNCHANGED <<store, inflight, call, served>>
  BY DEF TypeOK
<1>2. TypeOK'
  BY <1>1 DEF TypeOK
<1>3. CacheBounded' /\ FreshEnough' /\ LoadsShared'
  BY <1>1 DEF IInv, CacheBounded, FreshEnough, LoadsShared, Loading
<1>4. EntriesSound'
  <2>1. \A i \in DOMAIN store : store[i].value \in Nat
    BY StoreType DEF Entries
  <2>2. QED
    BY <1>1, <2>1 DEF IInv, EntriesSound
<1>5. CallsSound'
  <2>1. \A c \in Calls : call[c].since \in Nat /\ call[c].value \in Nat
    BY DEF TypeOK
  <2>2. QED
    BY <1>1, <2>1, BoundsAssumption DEF IInv, CallsSound, Loading
<1>6. InOrder'
  <2>1. \A k \in Keys : served[k].value \in Nat \cup {None}
    BY DEF TypeOK
  <2>2. \A k \in Keys : ServedBy(k, now) => ServedBy(k, now)'
    BY <1>1, <2>1, NoneAssumption DEF ServedBy
  <2>3. QED
    BY <1>1, <2>2 DEF IInv, InOrder, ServedBy, Reads
<1>7. QED
  BY <1>2, <1>3, <1>4, <1>5, <1>6 DEF IInv

(* An empty cache is sound. *)
LEMMA ClearKeeps ==
  ASSUME Inductive, ClearParcelCache
  PROVE  Inductive'
<1> USE DEF Inductive, ClearParcelCache
<1>1. store' = <<>> /\ store' \in Seq(Entries) /\ Len(store') = 0 /\ DOMAIN store' = {}
  BY EmptySeq
<1>2. UNCHANGED <<now, inflight, call, served>>
  OBVIOUS
<1>3. TypeOK'
  BY <1>1, <1>2 DEF TypeOK, Entries
<1>4. CacheBounded' /\ EntriesSound'
  BY <1>1, BoundsAssumption DEF CacheBounded, EntriesSound
<1>5. FreshEnough' /\ CallsSound' /\ LoadsShared'
  BY <1>2 DEF IInv, FreshEnough, CallsSound, LoadsShared, Loading
<1>6. InOrder'
  BY <1>1, <1>2 DEF IInv, InOrder, ServedBy, Reads
<1>7. QED
  BY <1>3, <1>4, <1>5, <1>6 DEF IInv

(* What the services read now is newer than all that was served or cached. *)
LEMMA ReadKeeps ==
  ASSUME Inductive, NEW c \in Calls, Read(c)
  PROVE  Inductive'
<1> USE DEF Inductive
<1>1. /\ now \in Nat /\ call[c].pc = "loading" /\ UNCHANGED <<now, store, inflight, served>>
      /\ call \in [Calls -> CallType]
      /\ call' = [call EXCEPT ![c].pc = "read", ![c].value = now]
  BY DEF Read, TypeOK, CallType
<1>2. /\ call' \in [Calls -> CallType]
      /\ call'[c].pc = "read" /\ call'[c].value = now
      /\ call'[c].key = call[c].key /\ call'[c].since = call[c].since /\ call'[c].caches = call[c].caches
      /\ \A d \in Calls : d # c => call'[d] = call[d]
  BY <1>1 DEF CallType
<1>3. TypeOK'
  BY <1>1, <1>2 DEF TypeOK, CallType
<1>4. CacheBounded' /\ FreshEnough' /\ EntriesSound'
  BY <1>1 DEF IInv, CacheBounded, FreshEnough, EntriesSound
<1>5. CallsSound' /\ LoadsShared'
  BY <1>1, <1>2 DEF IInv, CallsSound, LoadsShared, Loading
<1>6. InOrder'
  <2>1. \A d \in Calls, k \in Keys : Reads(d, k)' => (d = c /\ call'[d].value = now) \/ (Reads(d, k) /\ call'[d] = call[d])
    BY <1>2 DEF Reads
  <2>2. \A i \in DOMAIN store : store[i].value <= now
    BY DEF IInv, EntriesSound
  <2>3. QED
    BY <1>1, <2>1, <2>2 DEF IInv, InOrder, ServedBy
<1>7. QED
  BY <1>3, <1>4, <1>5, <1>6 DEF IInv

(* A load that fails caches and serves nothing. *)
LEMMA FailKeeps ==
  ASSUME Inductive, NEW c \in Calls, Fail(c)
  PROVE  Inductive'
<1> USE DEF Inductive
<1>1. UNCHANGED <<now, store, served>> /\ Loading(c) /\ End(c) /\ Leave(c)
  BY DEF Fail, Loading
<1>2. /\ call' \in [Calls -> CallType] /\ inflight' \in [Keys -> Calls \cup {None}]
      /\ \A d \in Calls : call'[d].pc # "idle" => call'[d] = call[d] /\ d # c
      /\ CallsSound' /\ LoadsShared'
  BY <1>1, LoadEnds DEF IInv
<1>3. TypeOK'
  BY <1>1, <1>2 DEF TypeOK, CallType
<1>4. CacheBounded' /\ FreshEnough' /\ EntriesSound'
  BY <1>1 DEF IInv, CacheBounded, FreshEnough, EntriesSound
<1>5. InOrder'
  BY <1>1, <1>2 DEF IInv, InOrder, ServedBy, Reads
<1>6. QED
  BY <1>2, <1>3, <1>4, <1>5 DEF IInv

(* What a load serves and caches, when it settles. *)
LEMMA SettleKeeps ==
  ASSUME Inductive, NEW c \in Calls, Settle(c)
  PROVE  Inductive'
<1> DEFINE key == call[c].key
           value == call[c].value
           entry == [key |-> key, value |-> value, expiresAt |-> now + Ttl]
<1> USE DEF Inductive
<1>1. /\ call[c].pc = "read" /\ Loading(c) /\ End(c) /\ Leave(c) /\ now' = now /\ now \in Nat
      /\ store' = IF call[c].caches THEN Set(key, value) ELSE store
      /\ served' = [served EXCEPT ![key] = [value |-> value, at |-> now]]
  BY DEF Settle, Serve, Loading, TypeOK
<1>2. /\ key \in Keys /\ value \in Nat /\ value <= now
      /\ now <= value + MaxLoad
  <2>1. call[c].since \in Nat /\ value \in Nat
    BY DEF TypeOK
  <2>2. QED
    BY <1>1, <2>1, BoundsAssumption DEF IInv, CallsSound
<1>3. /\ call' \in [Calls -> CallType] /\ inflight' \in [Keys -> Calls \cup {None}]
      /\ \A d \in Calls : call'[d].pc # "idle" => call'[d] = call[d] /\ d # c
      /\ CallsSound' /\ LoadsShared'
  BY <1>1, LoadEnds DEF IInv
<1>4. /\ store' \in Seq(Entries) /\ Len(store') <= MaxEntries
      /\ \A j \in DOMAIN store' :
           \/ call[c].caches /\ store'[j] = entry
           \/ /\ call[c].caches => store'[j].key # key
              /\ \E m \in DOMAIN store : store'[j] = store[m]
  <2>1. CASE call[c].caches
    <3>1. store' = Set(key, value)
      BY <1>1, <2>1
    <3> HIDE DEF key, value
    <3>2. QED
      BY <1>2, <2>1, <3>1, SetCaches DEF IInv
  <2>2. CASE ~call[c].caches
    BY <1>1, <2>2, StoreType DEF IInv, CacheBounded
  <2>3. QED
    BY <2>1, <2>2
<1>5. entry.key = key /\ entry.value = value /\ entry.expiresAt = now + Ttl
  OBVIOUS
<1>6. /\ served'[key] = [value |-> value, at |-> now]
      /\ served' \in [Keys -> [value : Nat \cup {None}, at : Nat]]
      /\ \A k \in Keys : k # key => served'[k] = served[k]
  BY <1>1, <1>2 DEF TypeOK
<1> HIDE DEF entry, key, value
<1>7. TypeOK'
  BY <1>1, <1>3, <1>4, <1>6 DEF TypeOK, CallType, Entries
<1>8. CacheBounded'
  BY <1>4 DEF CacheBounded
<1>9. FreshEnough'
  BY <1>1, <1>2, <1>6, BoundsAssumption DEF IInv, FreshEnough
<1>10. EntriesSound'
  <2>1. \A i \in DOMAIN store' :
          store'[i].value <= now' /\ store'[i].expiresAt <= store'[i].value + MaxLoad + Ttl
    BY <1>1, <1>2, <1>4, <1>5, BoundsAssumption DEF IInv, EntriesSound
  <2>2. \A i, j \in DOMAIN store' : store'[i].key = store'[j].key => store'[i] = store'[j]
    BY <1>4, <1>5 DEF IInv, EntriesSound
  <2>3. QED
    BY <2>1, <2>2 DEF EntriesSound
<1>11. InOrder'
  <2> SUFFICES ASSUME SingleFlight, NEW k \in Keys
               PROVE  /\ ServedBy(k, now)'
                      /\ \A i \in DOMAIN store' : store'[i].key = k => ServedBy(k, store[i].value)'
                      /\ \A d \in Calls : Reads(d, k)' => ServedBy(k, call[d].value)'
                      /\ \A i \in DOMAIN store', d \in Calls :
                           store'[i].key = k /\ Reads(d, k)' => store'[i].value <= call'[d].value
    BY DEF InOrder
  <2>1. call[c].caches /\ inflight[key] = c
    BY <1>1 DEF IInv, LoadsShared, key
  <2>2. \A d \in Calls : Reads(d, k)' => Reads(d, k) /\ call'[d] = call[d] /\ d # c
    BY <1>3 DEF Reads
  <2>3. CASE k = key
    <3>1. \A d \in Calls : ~Reads(d, k)'
      BY <2>1, <2>2, <2>3 DEF IInv, LoadsShared, Loading, Reads
    <3>2. \A i \in DOMAIN store' : store'[i].key = k => store'[i].value = value
      BY <1>4, <1>5, <2>1, <2>3
    <3>3. QED
      BY <1>1, <1>2, <1>6, <2>3, <3>1, <3>2 DEF ServedBy
  <2>4. CASE k # key
    <3>1. \A i \in DOMAIN store' : store'[i].key = k => \E m \in DOMAIN store : store'[i] = store[m]
      BY <1>4, <1>5, <2>4
    <3>2. served'[k] = served[k]
      BY <1>6, <2>4
    <3>3. QED
      BY <1>1, <2>2, <3>1, <3>2 DEF IInv, InOrder, ServedBy
  <2>5. QED
    BY <2>3, <2>4
<1>12. QED
  BY <1>3, <1>7, <1>8, <1>9, <1>10, <1>11 DEF IInv

(* A call is served from the cache, joins a load or starts the only one. *)
LEMMA FetchKeeps ==
  ASSUME Inductive, NEW c \in Calls, Fetch(c)
  PROVE  Inductive'
<1> USE DEF Inductive
<1>1. PICK k \in Keys, caches \in {TRUE, SingleFlight} :
        \/ /\ caches /\ Get(k) # None
           /\ Serve(k, Get(k))
           /\ UNCHANGED <<store, inflight, call>>
        \/ /\ caches => Get(k) = None
           /\ store' = IF caches THEN Purged(k) ELSE store
           /\ IF SingleFlight /\ inflight[k] # None
                THEN Join(c, k) /\ UNCHANGED inflight
                ELSE /\ call' = [call EXCEPT ![c] =
                          [Idle EXCEPT !.pc = "loading", !.key = k, !.since = now, !.caches = caches]]
                     /\ inflight' = IF SingleFlight THEN [inflight EXCEPT ![k] = c] ELSE inflight
           /\ UNCHANGED served
  BY DEF Fetch
<1>2. now' = now /\ now \in Nat /\ call[c].pc = "idle" /\ caches \in BOOLEAN
  BY SharingAssumption DEF Fetch, TypeOK
<1>3. CASE Get(k) # None /\ Serve(k, Get(k)) /\ UNCHANGED <<store, inflight, call>>
  <2>1. PICK m \in DOMAIN store : store[m].key = k /\ Get(k) = store[m].value /\ ~Expired(store[m])
    BY <1>3, Zenon DEF Get, Holds, At
  <2>2. /\ store[m] \in Entries /\ store[m].value <= now
        /\ now <= store[m].value + MaxLoad + Ttl
    <3>1. store[m] \in Entries
      BY StoreType
    <3>2. QED
      BY <1>2, <2>1, <3>1, BoundsAssumption DEF IInv, EntriesSound, Expired, Entries
  <2>3. /\ served' = [served EXCEPT ![k] = [value |-> store[m].value, at |-> now]]
        /\ store[m].value \in Nat
    BY <1>3, <2>1, <2>2 DEF Serve, Entries
  <2>4. /\ served'[k] = [value |-> store[m].value, at |-> now]
        /\ served' \in [Keys -> [value : Nat \cup {None}, at : Nat]]
        /\ \A l \in Keys : l # k => served'[l] = served[l]
    BY <1>2, <2>3 DEF TypeOK
  <2>5. TypeOK' /\ CacheBounded' /\ EntriesSound' /\ CallsSound' /\ LoadsShared'
    BY <1>2, <1>3, <2>4 DEF TypeOK, IInv, CacheBounded, EntriesSound, CallsSound, LoadsShared, Loading
  <2>6. FreshEnough'
    BY <1>2, <2>2, <2>3, <2>4, BoundsAssumption DEF IInv, FreshEnough
  <2>7. InOrder'
    <3> SUFFICES ASSUME SingleFlight, NEW l \in Keys
                 PROVE  /\ ServedBy(l, now)'
                        /\ \A i \in DOMAIN store : store[i].key = l => ServedBy(l, store[i].value)'
                        /\ \A d \in Calls : Reads(d, l) => ServedBy(l, call[d].value)'
                        /\ \A i \in DOMAIN store, d \in Calls :
                             store[i].key = l /\ Reads(d, l) => store[i].value <= call[d].value
      BY <1>3 DEF InOrder, Reads
    <3>1. CASE l = k
      <4>1. \A i \in DOMAIN store : store[i].key = l => store[i] = store[m]
        BY <2>1, <3>1 DEF IInv, EntriesSound
      <4>2. QED
        BY <1>2, <1>3, <2>1, <2>2, <2>4, <3>1, <4>1 DEF IInv, InOrder, ServedBy
    <3>2. CASE l # k
      BY <1>2, <1>3, <2>4, <3>2 DEF IInv, InOrder, ServedBy
    <3>3. QED
      BY <3>1, <3>2
  <2>8. QED
    BY <2>5, <2>6, <2>7 DEF IInv
<1>4. CASE /\ store' = IF caches THEN Purged(k) ELSE store
           /\ IF SingleFlight /\ inflight[k] # None
                THEN Join(c, k) /\ UNCHANGED inflight
                ELSE /\ call' = [call EXCEPT ![c] =
                          [Idle EXCEPT !.pc = "loading", !.key = k, !.since = now, !.caches = caches]]
                     /\ inflight' = IF SingleFlight THEN [inflight EXCEPT ![k] = c] ELSE inflight
           /\ UNCHANGED served
  <2>1. Leaves(store')
    <3>1. CASE caches
      BY <1>4, <3>1, PurgedLeaves
    <3>2. CASE ~caches
      BY <1>4, <3>2, StoreType DEF Leaves
    <3>3. QED
      BY <3>1, <3>2
  <2>2. store' \in Seq(Entries) /\ CacheBounded' /\ EntriesSound'
    BY <1>2, <2>1, LeavesKeep DEF IInv
  <2>3. /\ call \in [Calls -> CallType]
        /\ [Idle EXCEPT !.pc = "waiting", !.key = k] \in CallType
        /\ [Idle EXCEPT !.pc = "loading", !.key = k, !.since = now, !.caches = caches] \in CallType
    BY <1>2 DEF TypeOK, Idle, CallType
  <2>4. /\ call' \in [Calls -> CallType]
        /\ call'[c].key = k /\ call'[c].pc \in {"waiting", "loading"}
        /\ call'[c].pc = "loading" =>
             /\ call'[c].since = now /\ call'[c].caches = caches
             /\ ~(SingleFlight /\ inflight[k] # None)
        /\ \A d \in Calls : d # c => call'[d] = call[d]
    BY <1>4, <2>3 DEF Join, Idle
  <2>5. /\ inflight' \in [Keys -> Calls \cup {None}]
        /\ \A l \in Keys : l # k => inflight'[l] = inflight[l]
        /\ SingleFlight /\ call'[c].pc = "loading" => inflight'[k] = c
        /\ SingleFlight /\ inflight[k] # None => inflight'[k] = inflight[k]
    <3>1. inflight \in [Keys -> Calls \cup {None}]
      BY DEF TypeOK
    <3>2. CASE SingleFlight /\ inflight[k] # None
      BY <1>4, <2>4, <3>1, <3>2
    <3>3. CASE ~(SingleFlight /\ inflight[k] # None)
      <4>1. inflight' = IF SingleFlight THEN [inflight EXCEPT ![k] = c] ELSE inflight
        BY <1>4, <3>3
      <4>2. QED
        BY <2>4, <3>1, <3>3, <4>1
    <3>4. QED
      BY <3>2, <3>3
  <2>6. TypeOK'
    BY <1>2, <1>4, <2>2, <2>4, <2>5 DEF TypeOK, CallType, Entries
  <2>7. FreshEnough'
    BY <1>4 DEF IInv, FreshEnough
  <2>8. CallsSound'
    <3>1. CallsSound!(c)'
      BY <1>2, <2>4, BoundsAssumption DEF Loading
    <3>2. \A d \in Calls : d # c => CallsSound!(d)'
      BY <1>2, <2>4 DEF IInv, CallsSound, Loading
    <3>3. QED
      BY <3>1, <3>2 DEF CallsSound
  <2>9. LoadsShared'
    <3> SUFFICES ASSUME SingleFlight, NEW d \in Calls, Loading(d)'
                 PROVE  inflight'[call'[d].key] = d /\ call'[d].caches
      BY DEF LoadsShared
    <3>1. CASE d = c
      BY <2>4, <2>5, <3>1 DEF Loading
    <3>2. CASE d # c
      <4>1. /\ call'[d] = call[d] /\ Loading(d) /\ call[d].key \in Keys
            /\ inflight[call[d].key] = d /\ call[d].caches
        BY <2>4, <3>2 DEF IInv, LoadsShared, CallsSound, Loading
      <4>2. d # None
        BY NoneAssumption
      <4>3. QED
        BY <2>5, <4>1, <4>2
    <3>3. QED
      BY <3>1, <3>2
  <2>10. InOrder'
    <3>1. \A d \in Calls, l \in Keys : Reads(d, l)' => Reads(d, l) /\ call'[d] = call[d]
      BY <2>4 DEF Reads
    <3>2. \A j \in DOMAIN store' : \E m \in DOMAIN store : store'[j] = store[m]
      BY <2>1 DEF Leaves
    <3>3. QED
      BY <1>2, <1>4, <3>1, <3>2 DEF IInv, InOrder, ServedBy
  <2>11. QED
    BY <2>2, <2>6, <2>7, <2>8, <2>9, <2>10 DEF IInv
<1>5. QED
  BY <1>1, <1>3, <1>4

(* Every step keeps the invariant. *)
LEMMA StepKeeps ==
  ASSUME Inductive, [Next]_vars
  PROVE  Inductive'
<1>1. CASE Next
  <2>1. ASSUME NEW c \in Calls, Fetch(c) PROVE Inductive'
    BY <2>1, FetchKeeps
  <2>2. ASSUME NEW c \in Calls, Load(c) PROVE Inductive'
    BY <2>2, ReadKeeps, SettleKeeps, FailKeeps DEF Load
  <2>3. QED
    BY <1>1, <2>1, <2>2, ClearKeeps, TickKeeps DEF Next
<1>2. CASE UNCHANGED vars
  BY <1>2 DEF vars, Inductive, TypeOK, IInv, CacheBounded, FreshEnough, EntriesSound, CallsSound,
              LoadsShared, InOrder, Loading, Reads, ServedBy
<1>3. QED
  BY <1>1, <1>2

(* It holds in every behaviour. *)
LEMMA Invariance == Spec => []Inductive
  BY InitInductive, StepKeeps, PTL DEF Spec

(* A step serves nothing older than what was served before. *)
LEMMA StepServesInOrder ==
  ASSUME Inductive, [Next]_vars, SingleFlight, NEW k \in Keys, served[k].value # None
  PROVE  served'[k].value >= served[k].value
<1>1. served[k].value \in Nat /\ served \in [Keys -> [value : Nat \cup {None}, at : Nat]]
  BY DEF Inductive, TypeOK
<1>2. CASE served'[k] = served[k]
  BY <1>1, <1>2
<1>3. ASSUME NEW c \in Calls, Fetch(c) PROVE served'[k].value >= served[k].value
  <2>1. PICK l \in Keys : \/ served' = served
                          \/ Get(l) # None /\ served' = [served EXCEPT ![l] = [value |-> Get(l), at |-> now]]
    BY <1>3 DEF Fetch, Serve
  <2>2. CASE Get(l) # None /\ served' = [served EXCEPT ![l] = [value |-> Get(l), at |-> now]] /\ l = k
    <3>1. PICK m \in DOMAIN store : store[m].key = k /\ Get(k) = store[m].value
      BY <2>2, Zenon DEF Get, Holds, At
    <3>2. store[m].value \in Nat
      BY StoreType DEF Entries, Inductive
    <3>3. served[k].value <= store[m].value
      BY <3>1 DEF Inductive, IInv, InOrder, ServedBy
    <3>4. served'[k].value = store[m].value
      BY <1>1, <2>2, <3>1
    <3>5. QED
      BY <1>1, <3>2, <3>3, <3>4
  <2>3. CASE served' = served \/ l # k
    BY <1>1, <1>2, <2>1, <2>3
  <2>4. QED
    BY <2>1, <2>2, <2>3
<1>4. ASSUME NEW c \in Calls, Settle(c) PROVE served'[k].value >= served[k].value
  <2>1. served' = [served EXCEPT ![call[c].key] = [value |-> call[c].value, at |-> now]] /\ call[c].value \in Nat
    BY <1>4 DEF Settle, Serve, Inductive, TypeOK
  <2>2. CASE call[c].key = k
    <3>1. served[k].value <= call[c].value
      BY <1>4, <2>2 DEF Settle, Inductive, IInv, InOrder, Reads, ServedBy
    <3>2. QED
      BY <1>1, <2>1, <2>2, <3>1
  <2>3. CASE call[c].key # k
    BY <1>1, <1>2, <2>1, <2>3
  <2>4. QED
    BY <2>2, <2>3
<1>5. CASE UNCHANGED served
  BY <1>2, <1>5
<1>6. QED
  BY <1>3, <1>4, <1>5 DEF Next, Load, Read, Fail, ClearParcelCache, Tick, vars

-----------------------------------------------------------------------------
(* Every variable of the caches and loads has its type. *)
THEOREM ParcelTypeCorrect == Spec => []TypeOK
<1>1. Inductive => TypeOK
  BY DEF Inductive
<1>2. QED
  BY <1>1, Invariance, PTL

(* The cache never outgrows CACHE_MAX_ENTRIES. *)
THEOREM CacheCorrect == Spec => []CacheBounded
<1>1. Inductive => CacheBounded
  BY DEF Inductive, IInv
<1>2. QED
  BY <1>1, Invariance, PTL

(* Nothing is served that was read longer ago than a life and a load. *)
THEOREM FreshCorrect == Spec => []FreshEnough
<1>1. Inductive => FreshEnough
  BY DEF Inductive, IInv
<1>2. QED
  BY <1>1, Invariance, PTL

(* A business is loaded by one call at a time. *)
THEOREM LoadsCorrect == Spec => []OneLoadPerKey
<1>1. Inductive => OneLoadPerKey
  BY DEF Inductive, IInv, LoadsShared, OneLoadPerKey
<1>2. QED
  BY <1>1, Invariance, PTL

(* Where loads are shared, what is served for a key never goes back. *)
THEOREM OrderCorrect == Spec => NeverOlder
<1>1. Inductive /\ [Next]_vars =>
        [SingleFlight => \A k \in Keys : served[k].value # None => served'[k].value >= served[k].value]_vars
  BY StepServesInOrder
<1>2. QED
  BY <1>1, Invariance, PTL DEF Spec, NeverOlder
=============================================================================
