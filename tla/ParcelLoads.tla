----------------------------- MODULE ParcelLoads ----------------------------
(***************************************************************************)
(* The land data a server process keeps for a while: the parcels of a      *)
(* business (SingleFlight: callers that miss share one load) and, each in  *)
(* a cache of its own, the actions of a parcel and the authorised parcels  *)
(* (every caller that misses loads for itself).                            *)
(*                                                                         *)
(* External: the services the data is read from.  A value is the time at   *)
(* which they read it.                                                     *)
(***************************************************************************)
EXTENDS Integers, SequencesExt

CONSTANTS Calls,        \* slots for calls being served at the same time
          Keys,         \* what can be asked for
          None,         \* no key, no load in flight, nothing usable cached
          SingleFlight, \* do callers of one key share a load?
          MaxEntries,   \* CACHE_MAX_ENTRIES
          Ttl,          \* CACHE_TTL_MS
          MaxLoad,      \* how long the time-outs let a load last
          MaxTime       \* bound: the clock

VARIABLES now,      \* the clock
          store,    \* the cache's entries, oldest key first
          inflight, \* the call that loads each key for everybody
          call,     \* the calls being served
          served    \* the value last served for each key, and when

vars == <<now, store, inflight, call, served>>

ASSUME BoundsAssumption == MaxEntries \in Nat \ {0} /\ {Ttl, MaxLoad, MaxTime} \subseteq Nat
ASSUME SharingAssumption == SingleFlight \in BOOLEAN
ASSUME NoneAssumption == None \notin Calls \cup Keys \cup Int

Idle == [pc |-> "idle", key |-> None, since |-> 0, value |-> 0, caches |-> TRUE]

Init ==
  /\ now = 0
  /\ store = <<>>
  /\ inflight = [k \in Keys |-> None]
  /\ call = [c \in Calls |-> Idle]
  /\ served = [k \in Keys |-> [value |-> None, at |-> 0]]

Expired(entry) == now > entry.expiresAt
Holds(k) == \E i \in DOMAIN store : store[i].key = k
At(k) == CHOOSE i \in DOMAIN store : store[i].key = k

(* Mutant: what has expired is served. *)
GetExpired(k) == IF Holds(k) THEN store[At(k)].value ELSE None

Get(k) == IF Holds(k) /\ ~Expired(store[At(k)]) THEN store[At(k)].value ELSE None

(* Reading an entry that has expired removes it. *)
Purged(k) == IF Holds(k) /\ Get(k) = None THEN RemoveAt(store, At(k)) ELSE store

(* A full cache makes room: the first entry that has expired goes, or else *)
(* the oldest.                                                             *)
MakeRoom == IF \E i \in DOMAIN store : Expired(store[i]) THEN RemoveFirstMatch(store, Expired) ELSE Tail(store)

(* Mutant: only entries that have expired make room. *)
SetKeeping(k, value) ==
  LET entry == [key |-> k, value |-> value, expiresAt |-> now + Ttl]
      room == IF Len(store) >= MaxEntries THEN RemoveFirstMatch(store, Expired) ELSE store
  IN  IF \E i \in DOMAIN room : room[i].key = k
        THEN [i \in DOMAIN room |-> IF room[i].key = k THEN entry ELSE room[i]]
        ELSE Append(room, entry)

(* A key that is set again keeps its place. *)
Set(k, value) ==
  LET entry == [key |-> k, value |-> value, expiresAt |-> now + Ttl]
      room == IF Len(store) >= MaxEntries THEN MakeRoom ELSE store
  IN  IF \E i \in DOMAIN room : room[i].key = k
        THEN [i \in DOMAIN room |-> IF room[i].key = k THEN entry ELSE room[i]]
        ELSE Append(room, entry)

Serve(k, value) == served' = [served EXCEPT ![k] = [value |-> value, at |-> now]]
Join(c, k) == call' = [call EXCEPT ![c] = [Idle EXCEPT !.pc = "waiting", !.key = k]]

(* Mutant: nobody waits for the load of another. *)
FetchAlone(c) ==
  /\ call[c].pc = "idle"
  /\ \E k \in Keys :
       \/ Get(k) # None /\ Serve(k, Get(k)) /\ UNCHANGED <<store, inflight, call>>
       \/ /\ Get(k) = None
          /\ store' = Purged(k)
          /\ call' = [call EXCEPT ![c] = [Idle EXCEPT !.pc = "loading", !.key = k, !.since = now]]
          /\ inflight' = [inflight EXCEPT ![k] = c]
          /\ UNCHANGED served
  /\ UNCHANGED now

(* What is cached is served; a call that misses joins the load in flight,  *)
(* or starts one.  The actions of a parcel are asked for past the cache    *)
(* when actions are planned on it.                                         *)
Fetch(c) ==
  /\ call[c].pc = "idle"
  /\ \E k \in Keys, caches \in {TRUE, SingleFlight} :
       \/ /\ caches /\ Get(k) # None
          /\ Serve(k, Get(k))
          /\ UNCHANGED <<store, inflight, call>>
       \/ /\ caches => Get(k) = None
          /\ store' = IF caches THEN Purged(k) ELSE store
          /\ IF SingleFlight /\ inflight[k] # None
               THEN Join(c, k) /\ UNCHANGED inflight
               ELSE /\ call' = [call EXCEPT ![c] =
                         [Idle EXCEPT !.pc = "loading", !.key = k, !.since = now, !.caches = caches]]
                    /\ inflight' = IF SingleFlight THEN [inflight EXCEPT ![k] = c] ELSE inflight
          /\ UNCHANGED served
  /\ UNCHANGED now

(* The services read the data; their answer is on its way. *)
Read(c) ==
  /\ call[c].pc = "loading"
  /\ call' = [call EXCEPT ![c].pc = "read", ![c].value = now]
  /\ UNCHANGED <<now, store, inflight, served>>

(* The call that loads k ends, and with it those that wait for it. *)
End(c) ==
  call' = [d \in Calls |->
    IF d = c \/ (SingleFlight /\ call[d].pc = "waiting" /\ call[d].key = call[c].key) THEN Idle ELSE call[d]]
Leave(c) == inflight' = IF SingleFlight THEN [inflight EXCEPT ![call[c].key] = None] ELSE inflight

(* The answer is cached and served to everybody who waits for it. *)
Settle(c) ==
  /\ call[c].pc = "read"
  /\ store' = IF call[c].caches THEN Set(call[c].key, call[c].value) ELSE store
  /\ Serve(call[c].key, call[c].value)
  /\ End(c)
  /\ Leave(c)
  /\ UNCHANGED now

(* Mutant: a load that failed stays in flight. *)
FailStaying(c) ==
  /\ call[c].pc \in {"loading", "read"}
  /\ End(c)
  /\ UNCHANGED <<now, store, inflight, served>>

(* A load fails or times out; a failure is never cached. *)
Fail(c) ==
  /\ call[c].pc \in {"loading", "read"}
  /\ End(c)
  /\ Leave(c)
  /\ UNCHANGED <<now, store, served>>

(* Mutant: the loads in flight are forgotten too. *)
ClearLoads ==
  /\ store' = <<>>
  /\ inflight' = [k \in Keys |-> None]
  /\ UNCHANGED <<now, call, served>>

(* Development: the state of an application is cleared, and the caches. *)
ClearParcelCache ==
  /\ store' = <<>>
  /\ UNCHANGED <<now, inflight, call, served>>

(* No load outlasts its time-outs; the bound ends the clock. *)
Tick ==
  /\ now < MaxTime
  /\ \A c \in Calls : call[c].pc \in {"loading", "read"} => now < call[c].since + MaxLoad
  /\ now' = now + 1
  /\ UNCHANGED <<store, inflight, call, served>>

Load(c) == Read(c) \/ Settle(c) \/ Fail(c)

Next ==
  \/ \E c \in Calls : Fetch(c) \/ Load(c)
  \/ ClearParcelCache
  \/ Tick

Spec == Init /\ [][Next]_vars

(* The services' answers, and the failures to answer, arrive. *)
FairSpec == Spec /\ \A c \in Calls : WF_vars(Load(c))

-----------------------------------------------------------------------------
(* Every variable has its type. *)
TypeOK ==
  /\ now \in Nat
  /\ store \in Seq([key : Keys, value : Nat, expiresAt : Nat])
  /\ inflight \in [Keys -> Calls \cup {None}]
  /\ call \in [Calls -> [pc : {"idle", "waiting", "loading", "read"}, key : Keys \cup {None}, since : Nat, value : Nat, caches : BOOLEAN]]
  /\ served \in [Keys -> [value : Nat \cup {None}, at : Nat]]

Loading(c) == call[c].pc \in {"loading", "read"}

(* The cache never outgrows CACHE_MAX_ENTRIES, whatever loads overlap. *)
CacheBounded == Len(store) <= MaxEntries

(* Nothing is served that the services read longer ago than an entry lives *)
(* and a load lasts.                                                       *)
FreshEnough == \A k \in Keys : served[k].value # None => served[k].at - served[k].value <= Ttl + MaxLoad

(* "Concurrent calls for the same SBI share a single upstream load": so    *)
(* what is served for a key is never older than what was served before,    *)
(* though failures, expiries and clearings come between.                   *)
NeverOlder ==
  [][SingleFlight => \A k \in Keys : served[k].value # None => served'[k].value >= served[k].value]_vars

(* A business is loaded by one call at a time: callers that miss together, *)
(* with failures and clearings in between, never start a second load.      *)
OneLoadPerKey ==
  SingleFlight => \A c, d \in Calls : Loading(c) /\ Loading(d) /\ call[c].key = call[d].key => c = d

(***************************************************************************)
(* The strengthening every step preserves: entries and loads are no older  *)
(* than their lives allow, the load of a shared key is the one in flight,  *)
(* and what was served is no newer than what is cached, and that no newer  *)
(* than what a load has read.                                              *)
(***************************************************************************)
EntriesSound ==
  /\ \A i \in DOMAIN store :
       store[i].value <= now /\ store[i].expiresAt <= store[i].value + MaxLoad + Ttl
  /\ \A i, j \in DOMAIN store : store[i].key = store[j].key => store[i] = store[j]

CallsSound ==
  \A c \in Calls :
    /\ call[c].pc # "idle" => call[c].key \in Keys
    /\ Loading(c) => call[c].since <= now /\ now <= call[c].since + MaxLoad
    /\ call[c].pc = "read" => call[c].since <= call[c].value /\ call[c].value <= now

LoadsShared ==
  SingleFlight => \A c \in Calls : Loading(c) => inflight[call[c].key] = c /\ call[c].caches

Reads(c, k) == call[c].pc = "read" /\ call[c].key = k
ServedBy(k, value) == served[k].value # None => served[k].value <= value

InOrder ==
  SingleFlight => \A k \in Keys :
    /\ ServedBy(k, now)
    /\ \A i \in DOMAIN store : store[i].key = k => ServedBy(k, store[i].value)
    /\ \A c \in Calls : Reads(c, k) => ServedBy(k, call[c].value)
    /\ \A i \in DOMAIN store, c \in Calls :
         store[i].key = k /\ Reads(c, k) => store[i].value <= call[c].value

IInv == CacheBounded /\ FreshEnough /\ EntriesSound /\ CallsSound /\ LoadsShared /\ InOrder

(* Every call is answered or fails: none waits for a load that is over. *)
EveryCallEnds == \A c \in Calls : call[c].pc # "idle" ~> call[c].pc = "idle"
=============================================================================
