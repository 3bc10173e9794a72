----------------------------- MODULE TokensProofs -----------------------------
(***************************************************************************)
(* The tokens of a session only ever move forward, and while cache and     *)
(* Defra Identity answer the cached ones can be renewed, for any number of *)
(* requests and sessions.  No call of a service is sent with a token about *)
(* to expire, for any number of calls and attempts and any times.          *)
(***************************************************************************)
EXTENDS SessionTokens, ServiceCalls, TLAPS

RequestType ==
  [pc : {"idle", "signing in", "arrived", "refreshing", "caching", "admitted", "rejected", "signing out"},
   session : Sessions \cup {NoSession}, user : UserSessions]

(* A pair of tokens, and its parts. *)
LEMMA TokensType ==
  ASSUME NEW n \in Nat \ {0}
  PROVE  /\ Tokens(n) \in UserSessions
         /\ Tokens(n).token = n
         /\ Tokens(n).refreshToken = n
  BY DEF Tokens, UserSessions

(* A slot that serves nothing is well typed. *)
LEMMA IdleType ==
  /\ Idle \in RequestType
  /\ Idle.pc = "idle"
  /\ Idle.session = NoSession
  BY TokensType DEF Idle, RequestType

(* A user session is something, with two tokens. *)
LEMMA UserType ==
  ASSUME NEW user \in UserSessions
  PROVE  user.token \in Nat \ {0} /\ user.refreshToken \in Nat \ {0} /\ user # NoSession
  BY AbsenceAssumption DEF UserSessions

(* The fields of a well-typed request. *)
LEMMA RequestFields ==
  ASSUME TypeOK, NEW r \in Requests
  PROVE  /\ req[r] \in RequestType
         /\ req[r].session \in Sessions \cup {NoSession}
         /\ req[r].user \in UserSessions
  BY DEF TypeOK, RequestType

(* Nothing precedes itself. *)
LEMMA Less ==
  ASSUME NEW n \in Nat
  PROVE  ~(n < n)
  OBVIOUS

(* Replacing a request changes no other. *)
LEMMA RequestUpdate ==
  ASSUME TypeOK, NEW r \in Requests, NEW x \in RequestType, req' = [req EXCEPT ![r] = x]
  PROVE  /\ req' \in [Requests -> RequestType]
         /\ req'[r] = x
         /\ \A q \in Requests \ {r} : req'[q] = req[q]
  BY DEF TypeOK, RequestType

(* Nor does moving it on. *)
LEMMA PcUpdate ==
  ASSUME TypeOK, NEW r \in Requests, NEW pc \in {"admitted", "rejected"}, req' = [req EXCEPT ![r].pc = pc]
  PROVE  /\ req' \in [Requests -> RequestType]
         /\ req'[r].pc = pc /\ req'[r].session = req[r].session /\ req'[r].user = req[r].user
         /\ \A q \in Requests \ {r} : req'[q] = req[q]
<1> DEFINE x == [req[r] EXCEPT !.pc = pc]
<1>1. x \in RequestType /\ x.pc = pc /\ x.session = req[r].session /\ x.user = req[r].user
  BY RequestFields DEF RequestType
<1>2. req' = [req EXCEPT ![r] = x]
  OBVIOUS
<1> HIDE DEF x
<1>3. req' \in [Requests -> RequestType] /\ req'[r] = x /\ \A q \in Requests \ {r} : req'[q] = req[q]
  BY <1>1, <1>2, RequestUpdate
<1>4. QED
  BY <1>1, <1>3

(* The invariant holds at first. *)
LEMMA InitInv == Init => IInv
<1> SUFFICES ASSUME Init PROVE IInv
  OBVIOUS
<1> USE DEF Init
<1>1. \A r \in Requests : req[r] = Idle
  OBVIOUS
<1>2. TypeOK
  BY IdleType DEF TypeOK, RequestType
<1>3. CachedIsHonoured
  BY <1>1, IdleType, SessionsAssumption, ReliableAssumption DEF CachedIsHonoured, Caching
<1>4. CachedArePaired
  BY <1>1, IdleType, SessionsAssumption DEF CachedArePaired, Paired
<1>5. ReadArePaired
  BY <1>1, IdleType, SessionsAssumption DEF ReadArePaired, Reading, Paired
<1>6. LastAreCachedOnce
  BY <1>1, IdleType, SessionsAssumption DEF LastAreCachedOnce, Reading, Paired, CachedArePaired, ReadArePaired
<1>7. SessionsAreNew
  BY <1>1, IdleType, SessionsAssumption DEF SessionsAreNew
<1>8. SessionsAreGiven
  BY <1>1, IdleType, SessionsAssumption DEF SessionsAreGiven
<1>9. QED
  BY <1>2, <1>3, <1>4, <1>5, <1>6, <1>7, <1>8 DEF IInv

(***************************************************************************)
(* Most steps are quiet: they give no token and cache none, though they    *)
(* may drop what is cached, and no request that was about to cache, or     *)
(* comes to be, takes part.                                                *)
(***************************************************************************)
QuietFor(q) ==
  /\ req[q].pc # "caching"
  /\ req'[q].pc \notin {"caching", "signing in"}
  /\ req'[q].pc # "idle" => req'[q].session \in Sessions
  /\ req'[q].session \in {req[q].session, cookie, NoSession}
  /\ req'[q].pc = "refreshing" => /\ cache[req'[q].session] # NoSession
                                  /\ req'[q].user = cache[req'[q].session]

Quiet ==
  /\ given' = given
  /\ cookie' \in {cookie, NoSession}
  /\ \A s \in Sessions : cache'[s] \in {cache[s], NoSession}
  /\ \A q \in Requests : req'[q] = req[q] \/ QuietFor(q)

(* A step that gives no tokens and changes nobody else keeps the invariant. *)
LEMMA QuietInv ==
  ASSUME IInv, TypeOK', Quiet
  PROVE  IInv'
<1>1. CachedIsHonoured'
  <2> SUFFICES ASSUME NEW s \in Sessions, s \in Reliable, cache'[s] # NoSession
               PROVE  cache'[s].refreshToken = given'[s] \/ Caching(s)'
    BY ReliableAssumption DEF CachedIsHonoured
  <2>1. cache'[s] = cache[s] /\ given'[s] = given[s]
    BY DEF Quiet
  <2>2. cache[s].refreshToken = given[s] \/ Caching(s)
    BY <2>1 DEF IInv, CachedIsHonoured
  <2>3. Caching(s) => Caching(s)'
    BY DEF Quiet, QuietFor, Caching
  <2>4. QED
    BY <2>1, <2>2, <2>3
<1>2. CachedArePaired'
  <2> SUFFICES ASSUME NEW s \in Sessions, cache'[s] # NoSession
               PROVE  Paired(cache[s], s) /\ cache'[s] = cache[s] /\ given' = given
    BY DEF CachedArePaired, Paired
  <2>1. cache'[s] = cache[s] /\ given' = given
    BY DEF Quiet
  <2>2. QED
    BY <2>1 DEF IInv, CachedArePaired
<1>3. ReadArePaired'
  <2> SUFFICES ASSUME NEW q \in Requests, req'[q].pc \in {"refreshing", "caching"}
               PROVE  Paired(req'[q].user, req'[q].session) /\ given' = given
    BY DEF ReadArePaired, Reading, Paired
  <2>1. CASE req'[q] = req[q]
    BY <2>1 DEF IInv, ReadArePaired, Reading, Quiet
  <2>2. CASE QuietFor(q)
    BY <2>2 DEF IInv, CachedArePaired, Quiet, QuietFor
  <2>3. QED
    BY <2>1, <2>2 DEF Quiet
<1>4. LastAreCachedOnce'
  <2> SUFFICES ASSUME NEW r \in Requests, req'[r].pc = "caching"
               PROVE  LET s == req'[r].session
                      IN  /\ req'[r].user.token = given'[s]
                          /\ cache'[s] # NoSession => cache'[s].token < given'[s]
                          /\ \A q \in Requests \ {r} : Reading(q)' /\ req'[q].session = s => req'[q].user.token < given'[s]
    BY DEF LastAreCachedOnce
  <2>1. req'[r] = req[r] /\ given' = given /\ req[r].session \in Sessions
    BY DEF Quiet, QuietFor, IInv, SessionsAreGiven
  <2>2. req[r].user.token = given[req[r].session] /\ (cache[req[r].session] # NoSession => cache[req[r].session].token < given[req[r].session])
    BY <2>1 DEF IInv, LastAreCachedOnce
  <2>3. ASSUME NEW q \in Requests \ {r}, Reading(q)', req'[q].session = req[r].session
        PROVE  req'[q].user.token < given[req[r].session]
    <3>1. CASE req'[q] = req[q]
      BY <2>1, <2>3, <3>1 DEF IInv, LastAreCachedOnce, Reading
    <3>2. CASE QuietFor(q)
      BY <2>2, <2>3, <3>2 DEF QuietFor, Reading
    <3>3. QED
      BY <3>1, <3>2 DEF Quiet
  <2>4. cache'[req[r].session] \in {cache[req[r].session], NoSession}
    BY <2>1 DEF Quiet
  <2>5. QED
    BY <2>1, <2>2, <2>3, <2>4
<1>5. SessionsAreNew'
  <2> SUFFICES ASSUME NEW r \in Requests, req'[r].pc = "signing in"
               PROVE  LET s == req'[r].session
                      IN  /\ given'[s] = 1
                          /\ req'[r].user = Tokens(1)
                          /\ cache'[s] = NoSession
                          /\ cookie' # s
                          /\ \A q \in Requests \ {r} : req'[q].session # s
    BY DEF SessionsAreNew
  <2>1. req'[r] = req[r] /\ req[r].session \in Sessions /\ req[r].session # NoSession
    BY SessionsAssumption DEF Quiet, QuietFor, IInv, SessionsAreGiven
  <2>2. /\ given[req[r].session] = 1 /\ req[r].user = Tokens(1) /\ cache[req[r].session] = NoSession
        /\ cookie # req[r].session
        /\ \A q \in Requests \ {r} : req[q].session # req[r].session
    BY <2>1 DEF IInv, SessionsAreNew
  <2>3. cache'[req[r].session] = NoSession /\ given' = given /\ cookie' # req[r].session
    BY <2>1, <2>2 DEF Quiet
  <2>4. \A q \in Requests \ {r} : req'[q].session # req[r].session
    BY <2>1, <2>2 DEF Quiet, QuietFor
  <2>5. QED
    BY <2>1, <2>2, <2>3, <2>4
<1>6. SessionsAreGiven'
  <2>1. ASSUME NEW s \in Sessions, given'[s] = 0 PROVE cookie' # s /\ \A q \in Requests : req'[q].session # s
    <3>1. given[s] = 0 /\ cookie # s /\ cookie' # s /\ s # NoSession /\ \A q \in Requests : req[q].session # s
      BY <2>1, SessionsAssumption DEF Quiet, IInv, SessionsAreGiven
    <3>2. QED
      BY <3>1 DEF Quiet, QuietFor
  <2>2. \A q \in Requests : req'[q].pc # "idle" => req'[q].session \in Sessions
    BY DEF IInv, SessionsAreGiven, Quiet, QuietFor
  <2>3. QED
    BY <2>1, <2>2 DEF SessionsAreGiven
<1>7. QED
  BY <1>1, <1>2, <1>3, <1>4, <1>5, <1>6 DEF IInv

(* Arrive keeps the invariant. *)
LEMMA ArriveInv ==
  ASSUME IInv, NEW r \in Requests, Arrive(r)
  PROVE  IInv'
<1>1. TypeOK
  BY DEF IInv
<1>2. PICK pc \in {"arrived", "signing out"} : req' = [req EXCEPT ![r] = [Idle EXCEPT !.pc = pc, !.session = cookie]]
  BY DEF Arrive
<1>3. req[r].pc = "idle" /\ cookie # NoSession /\ UNCHANGED <<cookie, cache, given, expired>>
  BY DEF Arrive
<1>4. req' \in [Requests -> RequestType] /\ \A q \in Requests \ {r} : req'[q] = req[q]
  BY <1>1, <1>2, IdleType DEF TypeOK, RequestType
<1>5. req'[r].pc \in {"arrived", "signing out"} /\ req'[r].session = cookie /\ cookie \in Sessions
  BY <1>1, <1>2, <1>3, IdleType DEF TypeOK, RequestType
<1>6. TypeOK'
  BY <1>1, <1>3, <1>4 DEF TypeOK, RequestType
<1>7. Quiet
  BY <1>3, <1>4, <1>5 DEF Quiet, QuietFor
<1>8. QED
  BY <1>6, <1>7, QuietInv

(* Validate keeps the invariant. *)
LEMMA ValidateInv ==
  ASSUME IInv, NEW r \in Requests, Validate(r)
  PROVE  IInv'
<1>1. TypeOK
  BY DEF IInv
<1>2. req[r].pc = "arrived" /\ req[r].session \in Sessions /\ UNCHANGED <<cookie, cache, given, expired>>
  BY DEF Validate, IInv, SessionsAreGiven
<1>3. \/ req' = [req EXCEPT ![r].pc = "rejected"]
      \/ /\ cache[req[r].session] \in UserSessions
         /\ \E pc \in {"admitted", "refreshing", "rejected"} :
              req' = [req EXCEPT ![r].user = cache[req[r].session], ![r].pc = pc]
  BY <1>1, <1>2 DEF Validate, Goto, TypeOK
<1>4. req' \in [Requests -> RequestType] /\ \A q \in Requests \ {r} : req'[q] = req[q]
  <2>1. CASE req' = [req EXCEPT ![r].pc = "rejected"]
    BY <1>1, <2>1, PcUpdate
  <2>2. ASSUME cache[req[r].session] \in UserSessions, NEW pc \in {"admitted", "refreshing", "rejected"},
               req' = [req EXCEPT ![r].user = cache[req[r].session], ![r].pc = pc]
        PROVE  req' \in [Requests -> RequestType] /\ \A q \in Requests \ {r} : req'[q] = req[q]
    <3> DEFINE x == [req[r] EXCEPT !.user = cache[req[r].session], !.pc = pc]
    <3>1. x \in RequestType
      BY <1>1, <2>2, RequestFields DEF RequestType
    <3>2. req' = [req EXCEPT ![r] = x]
      BY <1>1, <2>2 DEF TypeOK
    <3> HIDE DEF x
    <3>3. QED
      BY <1>1, <3>1, <3>2, RequestUpdate
  <2>3. QED
    BY <1>3, <2>1, <2>2
<1>5. req'[r].session = req[r].session
  BY <1>1, <1>3 DEF TypeOK
<1>6. \/ req'[r].pc \in {"admitted", "rejected"}
      \/ req'[r].pc = "refreshing" /\ cache[req[r].session] # NoSession /\ req'[r].user = cache[req[r].session]
  <2>1. CASE req' = [req EXCEPT ![r].pc = "rejected"]
    BY <1>1, <2>1 DEF TypeOK
  <2>2. ASSUME cache[req[r].session] \in UserSessions, NEW pc \in {"admitted", "refreshing", "rejected"},
               req' = [req EXCEPT ![r].user = cache[req[r].session], ![r].pc = pc]
        PROVE  req'[r].pc = pc /\ cache[req[r].session] # NoSession /\ req'[r].user = cache[req[r].session]
    <3>1. req'[r] = [req[r] EXCEPT !.user = cache[req[r].session], !.pc = pc] /\ req[r] \in RequestType
      BY <1>1, <2>2 DEF TypeOK, RequestType
    <3>2. QED
      BY <2>2, <3>1, AbsenceAssumption DEF RequestType
  <2>3. QED
    BY <1>3, <2>1, <2>2
<1>7. TypeOK'
  BY <1>1, <1>2, <1>4 DEF TypeOK, RequestType
<1>8. Quiet
  BY <1>2, <1>4, <1>5, <1>6 DEF Quiet, QuietFor
<1>9. QED
  BY <1>7, <1>8, QuietInv

(* Respond keeps the invariant. *)
LEMMA RespondInv ==
  ASSUME IInv, NEW r \in Requests, Respond(r)
  PROVE  IInv'
<1>1. TypeOK
  BY DEF IInv
<1>2. req[r].pc # "caching" /\ req' = [req EXCEPT ![r] = Idle] /\ UNCHANGED <<cookie, cache, given, expired>>
  BY DEF Respond, Finish
<1>3. req' \in [Requests -> RequestType] /\ (\A q \in Requests \ {r} : req'[q] = req[q]) /\ req'[r] = Idle
  BY <1>1, <1>2, IdleType DEF TypeOK, RequestType
<1>4. TypeOK'
  BY <1>1, <1>2, <1>3 DEF TypeOK, RequestType
<1>5. Quiet
  BY <1>2, <1>3, IdleType DEF Quiet, QuietFor
<1>6. QED
  BY <1>4, <1>5, QuietInv

(* SignOut keeps the invariant. *)
LEMMA SignOutInv ==
  ASSUME IInv, NEW r \in Requests, SignOut(r)
  PROVE  IInv'
<1>1. TypeOK
  BY DEF IInv
<1>2. req[r].pc # "caching" /\ req' = [req EXCEPT ![r] = Idle] /\ UNCHANGED <<given, expired>>
  BY DEF SignOut, Finish
<1>3. req' \in [Requests -> RequestType] /\ (\A q \in Requests \ {r} : req'[q] = req[q]) /\ req'[r] = Idle
  BY <1>1, <1>2, IdleType DEF TypeOK, RequestType
<1>4. /\ cookie' \in {cookie, NoSession}
      /\ cache' \in [Sessions -> UserSessions \cup {NoSession}]
      /\ \A s \in Sessions : cache'[s] \in {cache[s], NoSession}
  BY <1>1 DEF SignOut, Put, TypeOK
<1>5. TypeOK'
  BY <1>1, <1>2, <1>3, <1>4 DEF TypeOK, RequestType
<1>6. Quiet
  BY <1>2, <1>3, <1>4, IdleType DEF Quiet, QuietFor
<1>7. QED
  BY <1>5, <1>6, QuietInv

(* Expire keeps the invariant. *)
LEMMA ExpireInv ==
  ASSUME IInv, NEW s \in Sessions, Expire(s)
  PROVE  IInv'
<1>1. UNCHANGED <<cookie, cache, given, req>>
  BY DEF Expire
<1>2. PICK n \in expired[s] + 1 .. given[s] : expired' = [expired EXCEPT ![s] = n]
  BY DEF Expire
<1>3. expired[s] \in Nat /\ given[s] \in Nat
  BY DEF IInv, TypeOK
<1>4. n \in Nat
  BY <1>3
<1>5. TypeOK'
  BY <1>1, <1>2, <1>4 DEF IInv, TypeOK
<1>6. Quiet
  BY <1>1 DEF Quiet
<1>7. QED
  BY <1>5, <1>6, QuietInv

(* Evict keeps the invariant. *)
LEMMA EvictInv ==
  ASSUME IInv, NEW s \in Sessions, Evict(s)
  PROVE  IInv'
<1>1. cache' = [cache EXCEPT ![s] = NoSession] /\ UNCHANGED <<cookie, given, expired, req>>
  BY DEF Evict, Put
<1>2. TypeOK'
  BY <1>1 DEF IInv, TypeOK
<1>3. Quiet
  BY <1>1 DEF IInv, TypeOK, Quiet
<1>4. QED
  BY <1>2, <1>3, QuietInv

(***************************************************************************)
(* The four steps that give tokens or cache them.                          *)
(***************************************************************************)
LEMMA SignInInv ==
  ASSUME IInv, NEW r \in Requests, SignIn(r)
  PROVE  IInv'
<1>1. TypeOK
  BY DEF IInv
<1>2. PICK s \in Sessions : /\ given[s] = 0 /\ given' = [given EXCEPT ![s] = 1]
        /\ req' = [req EXCEPT ![r] = [pc |-> "signing in", session |-> s, user |-> Tokens(1)]]
  BY DEF SignIn
<1>3. req[r].pc = "idle" /\ UNCHANGED <<cookie, cache, expired>>
  BY DEF SignIn
<1> DEFINE x == [pc |-> "signing in", session |-> s, user |-> Tokens(1)]
<1>a. x \in RequestType
  <2>1. Tokens(1) \in UserSessions
    BY TokensType
  <2>2. QED
    BY <2>1 DEF RequestType
<1>b. x.pc = "signing in" /\ x.session = s /\ x.user = Tokens(1) /\ req' = [req EXCEPT ![r] = x]
  BY <1>2
<1> HIDE DEF x
<1>4. req' \in [Requests -> RequestType] /\ req'[r] = x /\ \A q \in Requests \ {r} : req'[q] = req[q]
  BY <1>1, <1>a, <1>b, RequestUpdate
<1>5. req'[r].pc = "signing in" /\ req'[r].session = s /\ req'[r].user = Tokens(1)
  BY <1>4, <1>b
<1>6. given' \in [Sessions -> Nat] /\ given'[s] = 1 /\ \A z \in Sessions \ {s} : given'[z] = given[z]
  BY <1>1, <1>2 DEF TypeOK
<1>7. cookie # s /\ \A q \in Requests : req[q].session # s
  BY <1>2 DEF IInv, SessionsAreGiven
<1>8. cache[s] = NoSession
  <2> SUFFICES ASSUME cache[s] # NoSession PROVE FALSE
    OBVIOUS
  <2>1. cache[s] \in UserSessions /\ cache[s].token <= given[s]
    BY <1>1 DEF IInv, CachedArePaired, Paired, TypeOK
  <2>2. cache[s].token \in Nat \ {0}
    BY <2>1, UserType
  <2>3. cache[s].token <= 0
    BY <1>2, <2>1
  <2>4. QED
    BY <2>2, <2>3
<1>9. TypeOK'
  BY <1>1, <1>3, <1>4, <1>6 DEF TypeOK, RequestType
<1>10. CachedIsHonoured'
  <2> SUFFICES ASSUME NEW z \in Sessions, z \in Reliable, cache[z] # NoSession
               PROVE  cache[z].refreshToken = given'[z] \/ Caching(z)'
    BY ReliableAssumption, <1>3 DEF CachedIsHonoured
  <2>1. given'[z] = given[z]
    BY <1>6, <1>8
  <2>2. Caching(z) => Caching(z)'
    BY <1>3, <1>4 DEF Caching
  <2>3. cache[z].refreshToken = given[z] \/ Caching(z)
    BY DEF IInv, CachedIsHonoured
  <2>4. QED
    BY <2>1, <2>2, <2>3
<1>11. CachedArePaired'
  BY <1>3, <1>6, <1>8 DEF IInv, CachedArePaired, Paired
<1>12. ReadArePaired'
  <2> SUFFICES ASSUME NEW q \in Requests, req'[q].pc \in {"refreshing", "caching"}
               PROVE  req'[q].user.refreshToken = req'[q].user.token /\ req'[q].user.token <= given'[req'[q].session]
    BY DEF ReadArePaired, Reading, Paired
  <2>1. req'[q] = req[q] /\ req[q].session \in Sessions \ {s}
    BY <1>4, <1>5, <1>7 DEF IInv, SessionsAreGiven
  <2>2. Paired(req[q].user, req[q].session)
    BY <2>1 DEF IInv, ReadArePaired, Reading
  <2>3. QED
    BY <1>6, <2>1, <2>2 DEF Paired
<1>13. LastAreCachedOnce'
  <2> SUFFICES ASSUME NEW p \in Requests, req'[p].pc = "caching"
               PROVE  LET z == req'[p].session
                      IN  /\ req'[p].user.token = given'[z]
                          /\ cache'[z] # NoSession => cache'[z].token < given'[z]
                          /\ \A q \in Requests \ {p} : Reading(q)' /\ req'[q].session = z => req'[q].user.token < given'[z]
    BY DEF LastAreCachedOnce
  <2>1. req'[p] = req[p] /\ req[p].session \in Sessions \ {s}
    BY <1>4, <1>5, <1>7 DEF IInv, SessionsAreGiven
  <2>2. given'[req[p].session] = given[req[p].session]
    BY <1>6, <2>1
  <2>3. ASSUME NEW q \in Requests \ {p}, Reading(q)', req'[q].session = req[p].session
        PROVE  req'[q] = req[q] /\ Reading(q)
    BY <1>4, <1>5, <2>3 DEF Reading
  <2>4. QED
    BY <1>3, <2>1, <2>2, <2>3 DEF IInv, LastAreCachedOnce
<1>14. SessionsAreNew'
  <2> SUFFICES ASSUME NEW p \in Requests, req'[p].pc = "signing in"
               PROVE  LET z == req'[p].session
                      IN  /\ given'[z] = 1
                          /\ req'[p].user = Tokens(1)
                          /\ cache'[z] = NoSession
                          /\ cookie' # z
                          /\ \A q \in Requests \ {p} : req'[q].session # z
    BY DEF SessionsAreNew
  <2>1. CASE p = r
    BY <1>3, <1>4, <1>5, <1>6, <1>7, <1>8, <2>1
  <2>2. CASE p # r
    <3>1. req'[p] = req[p] /\ req[p].session \in Sessions \ {s}
      BY <1>4, <1>7, <2>2 DEF IInv, SessionsAreGiven
    <3>2. req[p].pc = "signing in" /\ given'[req[p].session] = given[req[p].session] /\ r # p
      BY <1>6, <2>2, <3>1
    <3>3. /\ given[req[p].session] = 1 /\ req[p].user = Tokens(1) /\ cache[req[p].session] = NoSession
          /\ cookie # req[p].session
          /\ \A q \in Requests \ {p} : req[q].session # req[p].session
      BY <3>2 DEF IInv, SessionsAreNew
    <3>4. \A q \in Requests \ {p} : req'[q].session # req[p].session
      BY <1>4, <1>5, <3>1, <3>3
    <3>5. QED
      BY <1>3, <3>1, <3>2, <3>3, <3>4
  <2>3. QED
    BY <2>1, <2>2
<1>15. SessionsAreGiven'
  <2>1. ASSUME NEW z \in Sessions, given'[z] = 0 PROVE z # s /\ given[z] = 0
    BY <1>6, <2>1
  <2>2. ASSUME NEW z \in Sessions, given'[z] = 0 PROVE cookie # z /\ \A q \in Requests : req'[q].session # z
    BY <1>4, <1>5, <2>1, <2>2 DEF IInv, SessionsAreGiven
  <2>3. \A q \in Requests : req'[q].pc # "idle" => req'[q].session \in Sessions
    BY <1>4, <1>5 DEF IInv, SessionsAreGiven
  <2>4. QED
    BY <1>3, <2>2, <2>3 DEF SessionsAreGiven
<1>16. QED
  BY <1>9, <1>10, <1>11, <1>12, <1>13, <1>14, <1>15 DEF IInv

(* StoreSessionData keeps the invariant. *)
LEMMA StoreSessionDataInv ==
  ASSUME IInv, NEW r \in Requests, StoreSessionData(r)
  PROVE  IInv'
<1> DEFINE s == req[r].session
<1>1. TypeOK
  BY DEF IInv
<1>2. req[r].pc = "signing in" /\ req' = [req EXCEPT ![r] = Idle] /\ UNCHANGED <<given, expired>>
  BY DEF StoreSessionData, Finish
<1>3. req' \in [Requests -> RequestType] /\ (\A q \in Requests \ {r} : req'[q] = req[q]) /\ req'[r] = Idle
  BY <1>1, <1>2, IdleType DEF TypeOK, RequestType
<1>4. /\ s \in Sessions /\ req[r].user = Tokens(1) /\ given[s] = 1 /\ cache[s] = NoSession
      /\ \A q \in Requests \ {r} : req[q].session # s
  BY <1>2 DEF IInv, SessionsAreNew, SessionsAreGiven
<1>5. s # NoSession
  BY <1>4, SessionsAssumption
<1>6. CASE UNCHANGED <<cache, cookie>>
  <2>1. TypeOK'
    BY <1>1, <1>2, <1>3, <1>6 DEF TypeOK, RequestType
  <2>2. Quiet
    BY <1>2, <1>3, <1>6, IdleType DEF Quiet, QuietFor
  <2>3. QED
    BY <2>1, <2>2, QuietInv
<1>7. CASE cache' = [cache EXCEPT ![s] = Tokens(1)] /\ cookie' = s
  <2> HIDE DEF s
  <2>1. cache'[s] = Tokens(1) /\ \A z \in Sessions \ {s} : cache'[z] = cache[z]
    BY <1>1, <1>4, <1>7 DEF TypeOK
  <2>2. Tokens(1).token = 1 /\ Tokens(1).refreshToken = 1 /\ Tokens(1) \in UserSessions
    BY TokensType
  <2>3. TypeOK'
    BY <1>1, <1>2, <1>3, <1>4, <1>7, <2>2 DEF TypeOK, RequestType
  <2>4. Idle.pc = "idle" /\ Idle.session = NoSession
    BY IdleType
  <2>5. CachedIsHonoured'
    <3> SUFFICES ASSUME NEW z \in Sessions, z \in Reliable, cache'[z] # NoSession
                 PROVE  cache'[z].refreshToken = given'[z] \/ Caching(z)'
      BY ReliableAssumption DEF CachedIsHonoured
    <3>1. CASE z = s
      BY <1>2, <1>4, <2>1, <2>2, <3>1
    <3>2. CASE z # s
      <4>1. Caching(z) => Caching(z)'
        BY <1>2, <1>3 DEF Caching
      <4>2. cache'[z] = cache[z] /\ given'[z] = given[z]
        BY <1>2, <2>1, <3>2
      <4>3. QED
        BY <4>1, <4>2 DEF IInv, CachedIsHonoured
    <3>3. QED
      BY <3>1, <3>2
  <2>6. CachedArePaired'
    <3> SUFFICES ASSUME NEW z \in Sessions, cache'[z] # NoSession
                 PROVE  cache'[z].refreshToken = cache'[z].token /\ cache'[z].token <= given[z]
      BY <1>2 DEF CachedArePaired, Paired
    <3>1. CASE z = s
      BY <1>4, <2>1, <2>2, <3>1
    <3>2. CASE z # s
      BY <2>1, <3>2 DEF IInv, CachedArePaired, Paired
    <3>3. QED
      BY <3>1, <3>2
  <2>7. ReadArePaired'
    BY <1>2, <1>3, <2>4 DEF IInv, ReadArePaired, Reading, Paired
  <2>8. \A q \in Requests : req'[q].pc # "idle" => q # r /\ req'[q] = req[q] /\ req[q].session \in Sessions \ {s}
    BY <1>3, <1>4, <2>4 DEF IInv, SessionsAreGiven
  <2>9. LastAreCachedOnce'
    <3> SUFFICES ASSUME NEW p \in Requests, req'[p].pc = "caching"
                 PROVE  LET z == req'[p].session
                        IN  /\ req'[p].user.token = given'[z]
                            /\ cache'[z] # NoSession => cache'[z].token < given'[z]
                            /\ \A q \in Requests \ {p} : Reading(q)' /\ req'[q].session = z => req'[q].user.token < given'[z]
      BY DEF LastAreCachedOnce
    <3>1. req'[p] = req[p] /\ req[p].session \in Sessions \ {s}
      BY <2>8
    <3>2. cache'[req[p].session] = cache[req[p].session] /\ given' = given
      BY <1>2, <2>1, <3>1
    <3>3. \A q \in Requests : Reading(q)' => Reading(q) /\ req'[q] = req[q]
      BY <2>8 DEF Reading
    <3>4. QED
      BY <3>1, <3>2, <3>3 DEF IInv, LastAreCachedOnce
  <2>10. SessionsAreNew'
    <3> SUFFICES ASSUME NEW p \in Requests, req'[p].pc = "signing in"
                 PROVE  LET z == req'[p].session
                        IN  /\ given'[z] = 1
                            /\ req'[p].user = Tokens(1)
                            /\ cache'[z] = NoSession
                            /\ cookie' # z
                            /\ \A q \in Requests \ {p} : req'[q].session # z
      BY DEF SessionsAreNew
    <3>1. p # r /\ req'[p] = req[p] /\ req[p].session \in Sessions \ {s} /\ req[p].session # NoSession
      BY <2>8, SessionsAssumption
    <3>2. cache'[req[p].session] = cache[req[p].session] /\ given' = given /\ cookie' # req[p].session
      BY <1>2, <1>7, <2>1, <3>1
    <3>3. \A q \in Requests \ {p} : req'[q] = req[q] \/ req'[q].session = NoSession
      BY <1>3, <2>4
    <3>4. QED
      BY <3>1, <3>2, <3>3 DEF IInv, SessionsAreNew
  <2>11. SessionsAreGiven'
    <3>1. ASSUME NEW z \in Sessions, given'[z] = 0 PROVE cookie' # z /\ \A q \in Requests : req'[q].session # z
      <4>1. given[z] = 0
        BY <1>2, <3>1
      <4>2. z # s /\ z # NoSession
        BY <1>4, <4>1, SessionsAssumption
      <4>3. QED
        BY <1>3, <1>7, <2>4, <4>1, <4>2 DEF IInv, SessionsAreGiven
    <3>2. QED
      BY <2>8, <3>1 DEF SessionsAreGiven
  <2>12. QED
    BY <2>3, <2>5, <2>6, <2>7, <2>9, <2>10, <2>11 DEF IInv
<1>8. QED
  BY <1>4, <1>6, <1>7 DEF StoreSessionData, Put

(* Refresh keeps the invariant. *)
LEMMA RefreshInv ==
  ASSUME IInv, NEW r \in Requests, Refresh(r)
  PROVE  IInv'
<1> DEFINE s == req[r].session
           next == Tokens(given[s] + 1)
<1>1. TypeOK
  BY DEF IInv
<1>2. req[r].pc = "refreshing" /\ s \in Sessions /\ UNCHANGED <<cookie, cache, expired>>
  BY DEF Refresh, IInv, SessionsAreGiven
<1>3. given[s] \in Nat /\ Paired(req[r].user, s)
  BY <1>1, <1>2 DEF IInv, ReadArePaired, Reading, TypeOK
<1>4. next \in UserSessions /\ next.token = given[s] + 1 /\ next.refreshToken = given[s] + 1
  BY <1>3, TokensType
<1>5. CASE req' = [req EXCEPT ![r].pc = "rejected"] /\ UNCHANGED given
  <2>1. req' \in [Requests -> RequestType] /\ \A q \in Requests \ {r} : req'[q] = req[q]
    BY <1>1, <1>5 DEF TypeOK, RequestType
  <2>2. req'[r].pc = "rejected" /\ req'[r].session = s
    BY <1>1, <1>5 DEF TypeOK
  <2>3. TypeOK'
    BY <1>1, <1>2, <1>5, <2>1 DEF TypeOK, RequestType
  <2>4. Quiet
    BY <1>2, <1>5, <2>1, <2>2 DEF Quiet, QuietFor
  <2>5. QED
    BY <2>3, <2>4, QuietInv
<1>6. CASE /\ Honoured(r)
           /\ given' = [given EXCEPT ![s] = @ + 1]
           /\ \/ req' = [req EXCEPT ![r].pc = "caching", ![r].user = next]
              \/ s \notin Reliable /\ req' = [req EXCEPT ![r].pc = "rejected"]
  <2>1. req[r].user.refreshToken = given[s] /\ req[r].user.token = given[s]
    BY <1>3, <1>6 DEF Honoured, Paired
  <2>a. given' = [given EXCEPT ![s] = given[s] + 1]
    BY <1>6
  <2>b. [req[r] EXCEPT !.pc = "caching", !.user = next] \in RequestType
    BY <1>1, <1>4, RequestFields DEF RequestType
  <2>c. ASSUME req' = [req EXCEPT ![r].pc = "caching", ![r].user = next]
        PROVE  /\ req' \in [Requests -> RequestType] /\ \A q \in Requests \ {r} : req'[q] = req[q]
               /\ req'[r].session = s /\ req'[r].pc = "caching" /\ req'[r].user = next
    <3> DEFINE x == [req[r] EXCEPT !.pc = "caching", !.user = next]
    <3>1. req' = [req EXCEPT ![r] = x]
      BY <1>1, <2>c DEF TypeOK
    <3>2. x.pc = "caching" /\ x.session = s /\ x.user = next
      BY <1>1, RequestFields DEF RequestType
    <3> HIDE DEF x, next
    <3>3. req' \in [Requests -> RequestType] /\ req'[r] = x /\ \A q \in Requests \ {r} : req'[q] = req[q]
      BY <1>1, <2>b, <3>1, RequestUpdate DEF x
    <3>4. QED
      BY <3>2, <3>3
  <2>d. ASSUME req' = [req EXCEPT ![r].pc = "rejected"]
        PROVE  /\ req' \in [Requests -> RequestType] /\ \A q \in Requests \ {r} : req'[q] = req[q]
               /\ req'[r].session = s /\ req'[r].pc = "rejected"
    BY <1>1, <2>d, PcUpdate
  <2> HIDE DEF s, next
  <2>2. given'[s] = given[s] + 1 /\ (\A z \in Sessions \ {s} : given'[z] = given[z]) /\ given' \in [Sessions -> Nat]
    <3>1. given \in [Sessions -> Nat] /\ s \in Sessions
      BY <1>1, <1>2 DEF TypeOK
    <3>2. QED
      BY <3>1, <2>a
  <2>3. req' \in [Requests -> RequestType] /\ \A q \in Requests \ {r} : req'[q] = req[q]
    BY <1>6, <2>c, <2>d
  <2>4. req'[r].session = s
    BY <1>6, <2>c, <2>d
  <2>5. \/ req'[r].pc = "caching" /\ req'[r].user = next
        \/ s \notin Reliable /\ req'[r].pc = "rejected"
    BY <1>6, <2>c, <2>d
  <2>6. TypeOK'
    BY <1>1, <1>2, <2>2, <2>3 DEF TypeOK, RequestType
  <2>7. \A q \in Requests \ {r} : ~(req[q].session = s /\ req[q].pc \in {"caching", "signing in"})
    <3> SUFFICES ASSUME NEW q \in Requests \ {r}, req[q].session = s, req[q].pc \in {"caching", "signing in"}
                 PROVE  FALSE
      OBVIOUS
    <3>1. CASE req[q].pc = "caching"
      <4>1. req[r].user.token < given[s]
        BY <1>2, <3>1 DEF IInv, LastAreCachedOnce, Reading, s
      <4>2. QED
        BY <1>3, <2>1, <4>1, Less
    <3>2. CASE req[q].pc = "signing in"
      BY <1>2, <3>2 DEF IInv, SessionsAreNew, s
    <3>3. QED
      BY <3>1, <3>2
  <2>8. CachedIsHonoured'
    <3> SUFFICES ASSUME NEW z \in Sessions, z \in Reliable, cache[z] # NoSession
                 PROVE  cache[z].refreshToken = given'[z] \/ Caching(z)'
      BY ReliableAssumption, <1>2 DEF CachedIsHonoured
    <3>1. CASE z = s
      BY <2>4, <2>5, <3>1 DEF Caching
    <3>2. CASE z # s
      <4>1. Caching(z) => Caching(z)'
        BY <1>2, <2>3 DEF Caching
      <4>2. QED
        BY <2>2, <3>2, <4>1 DEF IInv, CachedIsHonoured
    <3>3. QED
      BY <3>1, <3>2
  <2>9. \A z \in Sessions : given[z] \in Nat /\ given'[z] \in Nat /\ given[z] <= given'[z]
    <3> SUFFICES ASSUME NEW z \in Sessions PROVE given[z] \in Nat /\ given'[z] \in Nat /\ given[z] <= given'[z]
      OBVIOUS
    <3>1. given[z] \in Nat /\ given'[z] \in {given[z], given[z] + 1}
      BY <1>1, <2>2 DEF TypeOK
    <3>2. QED
      BY <3>1
  <2>10. CachedArePaired'
    <3> SUFFICES ASSUME NEW z \in Sessions, cache[z] # NoSession
                 PROVE  cache[z].refreshToken = cache[z].token /\ cache[z].token <= given'[z]
      BY <1>2 DEF CachedArePaired, Paired
    <3>1. cache[z].refreshToken = cache[z].token /\ cache[z].token <= given[z] /\ cache[z] \in UserSessions
      BY <1>1 DEF IInv, CachedArePaired, Paired, TypeOK
    <3>2. cache[z].token \in Nat
      BY <3>1, UserType
    <3>3. QED
      BY <2>9, <3>1, <3>2
  <2>11. ReadArePaired'
    <3> SUFFICES ASSUME NEW q \in Requests, req'[q].pc \in {"refreshing", "caching"}
                 PROVE  req'[q].user.refreshToken = req'[q].user.token /\ req'[q].user.token <= given'[req'[q].session]
      BY DEF ReadArePaired, Reading, Paired
    <3>1. CASE q = r
      BY <1>3, <1>4, <2>2, <2>4, <2>5, <3>1
    <3>2. CASE q # r
      <4>1. req'[q] = req[q] /\ req[q].session \in Sessions /\ req[q].user \in UserSessions
        BY <1>1, <2>3, <3>2, RequestFields DEF IInv, SessionsAreGiven
      <4>2. req[q].user.refreshToken = req[q].user.token /\ req[q].user.token <= given[req[q].session]
        BY <4>1 DEF IInv, ReadArePaired, Reading, Paired
      <4>3. req[q].user.token \in Nat
        BY <4>1, UserType
      <4>4. QED
        BY <2>9, <4>1, <4>2, <4>3
    <3>3. QED
      BY <3>1, <3>2
  <2>12. LastAreCachedOnce'
    <3> SUFFICES ASSUME NEW p \in Requests, req'[p].pc = "caching"
                 PROVE  LET z == req'[p].session
                        IN  /\ req'[p].user.token = given'[z]
                            /\ cache'[z] # NoSession => cache'[z].token < given'[z]
                            /\ \A q \in Requests \ {p} : Reading(q)' /\ req'[q].session = z => req'[q].user.token < given'[z]
      BY DEF LastAreCachedOnce
    <3>1. CASE p = r
      <4>1. req'[r].user.token = given'[s]
        BY <1>4, <2>2, <2>5, <3>1
      <4>2. cache[s] # NoSession => cache[s].token < given'[s]
        <5>1. cache[s] # NoSession => cache[s].token \in Nat /\ cache[s].token <= given[s]
          BY <1>1, <1>2, UserType DEF IInv, CachedArePaired, Paired, TypeOK
        <5>2. QED
          BY <1>3, <2>2, <5>1
      <4>3. ASSUME NEW q \in Requests \ {r}, Reading(q)', req'[q].session = s PROVE req'[q].user.token < given'[s]
        <5>1. req'[q] = req[q] /\ req[q].user.token <= given[s] /\ req[q].user \in UserSessions
          BY <1>1, <2>3, <4>3, RequestFields DEF IInv, ReadArePaired, Reading, Paired
        <5>2. req[q].user.token \in Nat
          BY <5>1, UserType
        <5>3. QED
          BY <1>3, <2>2, <5>1, <5>2
      <4>4. QED
        BY <1>2, <2>4, <3>1, <4>1, <4>2, <4>3
    <3>2. CASE p # r
      <4>1. req'[p] = req[p] /\ req[p].session \in Sessions \ {s}
        BY <2>3, <2>7, <3>2 DEF IInv, SessionsAreGiven
      <4>2. given'[req[p].session] = given[req[p].session]
        BY <2>2, <4>1
      <4>3. ASSUME NEW q \in Requests \ {p}, Reading(q)', req'[q].session = req[p].session PROVE req'[q] = req[q] /\ Reading(q)
        BY <2>3, <2>4, <4>1, <4>3 DEF Reading
      <4>4. QED
        BY <1>2, <4>1, <4>2, <4>3 DEF IInv, LastAreCachedOnce
    <3>3. QED
      BY <3>1, <3>2
  <2>13. SessionsAreNew'
    <3> SUFFICES ASSUME NEW p \in Requests, req'[p].pc = "signing in"
                 PROVE  LET z == req'[p].session
                        IN  /\ given'[z] = 1
                            /\ req'[p].user = Tokens(1)
                            /\ cache'[z] = NoSession
                            /\ cookie' # z
                            /\ \A q \in Requests \ {p} : req'[q].session # z
      BY DEF SessionsAreNew
    <3>1. p # r
      BY <2>5
    <3>2. req'[p] = req[p] /\ req[p].session \in Sessions \ {s}
      BY <2>3, <2>7, <3>1 DEF IInv, SessionsAreGiven
    <3>3. \A q \in Requests : req'[q].session = req[q].session
      BY <2>3, <2>4 DEF s
    <3>4. QED
      BY <1>2, <2>2, <3>2, <3>3 DEF IInv, SessionsAreNew
  <2>14. SessionsAreGiven'
    <3>1. \A q \in Requests : req'[q].session = req[q].session
      BY <2>3, <2>4 DEF s
    <3>2. \A q \in Requests : req'[q].pc # "idle" => req'[q].session \in Sessions
      BY <1>2, <2>3, <2>4 DEF IInv, SessionsAreGiven
    <3>3. \A z \in Sessions : given'[z] = 0 => given[z] = 0
      BY <2>9
    <3>4. QED
      BY <1>2, <3>1, <3>2, <3>3 DEF IInv, SessionsAreGiven
  <2>15. QED
    BY <2>6, <2>8, <2>10, <2>11, <2>12, <2>13, <2>14 DEF IInv
<1>7. QED
  BY <1>5, <1>6 DEF Refresh, Goto

(* CacheTokens keeps the invariant. *)
LEMMA CacheTokensInv ==
  ASSUME IInv, NEW r \in Requests, CacheTokens(r)
  PROVE  IInv'
<1> DEFINE s == req[r].session
<1>1. TypeOK
  BY DEF IInv
<1>2. req[r].pc = "caching" /\ s \in Sessions /\ req[r].user \in UserSessions /\ UNCHANGED <<cookie, given, expired>>
  BY <1>1, RequestFields DEF CacheTokens, IInv, SessionsAreGiven
<1>3. /\ req[r].user.token = given[s]
      /\ req[r].user.refreshToken = given[s]
      /\ cache[s] # NoSession => cache[s].token < given[s]
      /\ \A q \in Requests \ {r} : Reading(q) /\ req[q].session = s => req[q].user.token < given[s]
  BY <1>2 DEF IInv, LastAreCachedOnce, ReadArePaired, Reading, Paired
<1>4. \A q \in Requests \ {r} : ~(req[q].session = s /\ req[q].pc \in {"caching", "signing in"})
  <2> SUFFICES ASSUME NEW q \in Requests \ {r}, req[q].session = s, req[q].pc \in {"caching", "signing in"}
               PROVE  FALSE
    OBVIOUS
  <2>1. CASE req[q].pc = "caching"
    <3>1. req[q].user.token = given[s] /\ req[q].user.token < given[s] /\ given[s] \in Nat
      BY <1>1, <1>2, <1>3, <2>1 DEF IInv, LastAreCachedOnce, Reading, TypeOK
    <3>2. QED
      BY <3>1, Less
  <2>2. CASE req[q].pc = "signing in"
    BY <1>2, <2>2 DEF IInv, SessionsAreNew
  <2>3. QED
    BY <2>1, <2>2
<1>5. \/ cache' = [cache EXCEPT ![s] = req[r].user] /\ req' = [req EXCEPT ![r].pc = "admitted"]
      \/ s \notin Reliable /\ cache' = cache /\ req' = [req EXCEPT ![r].pc = "rejected"]
  BY DEF CacheTokens, Put, Goto
<1> HIDE DEF s
<1>a. PICK pc \in {"admitted", "rejected"} : req' = [req EXCEPT ![r].pc = pc]
  BY <1>5
<1>6. req' \in [Requests -> RequestType] /\ \A q \in Requests \ {r} : req'[q] = req[q]
  BY <1>1, <1>a, PcUpdate
<1>7. req'[r].session = s /\ req'[r].user = req[r].user
  BY <1>1, <1>a, PcUpdate DEF s
<1>8. req'[r].pc \in {"admitted", "rejected"}
  BY <1>1, <1>a, PcUpdate
<1>9. /\ cache' \in [Sessions -> UserSessions \cup {NoSession}]
      /\ \A z \in Sessions \ {s} : cache'[z] = cache[z]
      /\ cache'[s] = req[r].user \/ (s \notin Reliable /\ cache'[s] = cache[s])
  BY <1>1, <1>2, <1>5 DEF TypeOK
<1>10. TypeOK'
  BY <1>1, <1>2, <1>6, <1>9 DEF TypeOK, RequestType
<1>11. CachedIsHonoured'
  <2> SUFFICES ASSUME NEW z \in Sessions, z \in Reliable, cache'[z] # NoSession
               PROVE  cache'[z].refreshToken = given[z] \/ Caching(z)'
    BY ReliableAssumption, <1>2 DEF CachedIsHonoured
  <2>1. CASE z = s
    BY <1>3, <1>9, <2>1
  <2>2. CASE z # s
    <3>1. Caching(z) => Caching(z)'
      BY <1>6, <2>2 DEF Caching, s
    <3>2. QED
      BY <1>9, <2>2, <3>1 DEF IInv, CachedIsHonoured
  <2>3. QED
    BY <2>1, <2>2
<1>12. CachedArePaired'
  <2> SUFFICES ASSUME NEW z \in Sessions, cache'[z] # NoSession
               PROVE  cache'[z].refreshToken = cache'[z].token /\ cache'[z].token <= given[z]
    BY <1>2 DEF CachedArePaired, Paired
  <2>1. given[z] \in Nat
    BY <1>1 DEF TypeOK
  <2>2. CASE cache'[z] = cache[z]
    BY <2>2 DEF IInv, CachedArePaired, Paired
  <2>3. CASE z = s /\ cache'[s] = req[r].user
    BY <1>3, <2>1, <2>3
  <2>4. QED
    BY <1>9, <2>2, <2>3
<1>13. ReadArePaired'
  <2> SUFFICES ASSUME NEW q \in Requests, req'[q].pc \in {"refreshing", "caching"}
               PROVE  req'[q] = req[q] /\ given' = given
    BY DEF IInv, ReadArePaired, Reading, Paired
  <2>1. QED
    BY <1>2, <1>6, <1>8
<1>14. LastAreCachedOnce'
  <2> SUFFICES ASSUME NEW p \in Requests, req'[p].pc = "caching"
               PROVE  LET z == req'[p].session
                      IN  /\ req'[p].user.token = given'[z]
                          /\ cache'[z] # NoSession => cache'[z].token < given'[z]
                          /\ \A q \in Requests \ {p} : Reading(q)' /\ req'[q].session = z => req'[q].user.token < given'[z]
    BY DEF LastAreCachedOnce
  <2>1. req'[p] = req[p] /\ req[p].session \in Sessions \ {s}
    BY <1>4, <1>6, <1>8 DEF IInv, SessionsAreGiven
  <2>2. cache'[req[p].session] = cache[req[p].session] /\ given' = given
    BY <1>2, <1>9, <2>1
  <2>3. ASSUME NEW q \in Requests \ {p}, Reading(q)' PROVE req'[q] = req[q] /\ Reading(q)
    BY <1>6, <1>8, <2>3 DEF Reading
  <2>4. QED
    BY <2>1, <2>2, <2>3 DEF IInv, LastAreCachedOnce
<1>15. SessionsAreNew'
  <2> SUFFICES ASSUME NEW p \in Requests, req'[p].pc = "signing in"
               PROVE  LET z == req'[p].session
                      IN  /\ given'[z] = 1
                          /\ req'[p].user = Tokens(1)
                          /\ cache'[z] = NoSession
                          /\ cookie' # z
                          /\ \A q \in Requests \ {p} : req'[q].session # z
    BY DEF SessionsAreNew
  <2>1. req'[p] = req[p] /\ req[p].session \in Sessions \ {s}
    BY <1>4, <1>6, <1>8 DEF IInv, SessionsAreGiven
  <2>2. cache'[req[p].session] = cache[req[p].session] /\ given' = given /\ cookie' = cookie
    BY <1>2, <1>9, <2>1
  <2>3. \A q \in Requests : req'[q].session = req[q].session
    BY <1>6, <1>7 DEF s
  <2>4. QED
    BY <2>1, <2>2, <2>3 DEF IInv, SessionsAreNew
<1>16. SessionsAreGiven'
  <2>1. \A q \in Requests : req'[q].session = req[q].session
    BY <1>6, <1>7 DEF s
  <2>2. \A q \in Requests : req'[q].pc # "idle" => req'[q].session \in Sessions
    BY <1>2, <1>6, <1>7 DEF IInv, SessionsAreGiven
  <2>3. QED
    BY <1>2, <2>1, <2>2 DEF IInv, SessionsAreGiven
<1>17. QED
  BY <1>10, <1>11, <1>12, <1>13, <1>14, <1>15, <1>16 DEF IInv

(* Nothing happening keeps the invariant. *)
LEMMA StutterInv == IInv /\ UNCHANGED vars => IInv'
<1> SUFFICES ASSUME IInv, UNCHANGED vars PROVE IInv'
  OBVIOUS
<1> USE DEF vars
<1>1. TypeOK'
  BY DEF IInv, TypeOK
<1>2. CachedIsHonoured'
  BY DEF IInv, CachedIsHonoured, Caching
<1>3. CachedArePaired'
  BY DEF IInv, CachedArePaired, Paired
<1>4. ReadArePaired'
  BY DEF IInv, ReadArePaired, Reading, Paired
<1>5. LastAreCachedOnce'
  BY DEF IInv, LastAreCachedOnce, Reading, Paired, CachedArePaired, ReadArePaired
<1>6. SessionsAreNew'
  BY DEF IInv, SessionsAreNew
<1>7. SessionsAreGiven'
  BY DEF IInv, SessionsAreGiven
<1>8. QED
  BY <1>1, <1>2, <1>3, <1>4, <1>5, <1>6, <1>7 DEF IInv

(* Every step keeps the invariant. *)
LEMMA NextInv == IInv /\ [Next]_vars => IInv'
  BY SignInInv, StoreSessionDataInv, ArriveInv, ValidateInv, RefreshInv, CacheTokensInv, RespondInv, SignOutInv, ExpireInv, EvictInv, StutterInv DEF Next, Serve

(* IInv is an invariant. *)
LEMMA Invariance == Spec => []IInv
  BY InitInv, NextInv, PTL DEF Spec

-----------------------------------------------------------------------------
(* The variables keep their types. *)
THEOREM SessionTypeCorrect == Spec => []TypeOK
<1>1. IInv => TypeOK
  BY DEF IInv
<1>2. QED
  BY <1>1, Invariance, PTL

(* What is cached can be renewed, or is about to be replaced by what can.  *)
THEOREM HonouredCorrect == Spec => []CachedIsHonoured
<1>1. IInv => CachedIsHonoured
  BY DEF IInv
<1>2. QED
  BY <1>1, Invariance, PTL

(* The one action that replaces tokens caches newer ones.                  *)
LEMMA StepsForward == IInv /\ [Next]_vars => GoesForward
<1> SUFFICES ASSUME IInv, [Next]_vars, NEW s \in Sessions, cache[s] # NoSession, cache'[s] # NoSession
             PROVE  cache'[s].token >= cache[s].token
  BY DEF GoesForward
<1>1. TypeOK /\ cache \in [Sessions -> UserSessions \cup {NoSession}] /\ cache[s].token \in Nat /\ SessionsAreGiven
  BY UserType DEF IInv, TypeOK
<1>2. ASSUME NEW r \in Requests, StoreSessionData(r) PROVE cache'[s] = cache[s]
<2>1. req[r].session \in Sessions /\ cache[req[r].session] = NoSession
  BY <1>2 DEF IInv, StoreSessionData, SessionsAreNew, SessionsAreGiven
<2>2. QED
  BY <1>1, <1>2, <2>1 DEF StoreSessionData, Put
<1>3. ASSUME NEW r \in Requests, CacheTokens(r) PROVE cache'[s].token >= cache[s].token
<2>1. /\ req[r].session \in Sessions
      /\ req[r].user.token = given[req[r].session]
      /\ cache[req[r].session] # NoSession => cache[req[r].session].token < given[req[r].session]
  BY <1>3 DEF IInv, CacheTokens, LastAreCachedOnce, SessionsAreGiven
<2>2. given[s] \in Nat
  BY <1>1 DEF TypeOK
<2>3. \/ cache' = cache
      \/ cache' = [cache EXCEPT ![req[r].session] = req[r].user]
  BY <1>3 DEF CacheTokens, Put
<2>4. CASE cache' = cache
  BY <2>4, <1>1
<2>5. CASE cache' = [cache EXCEPT ![req[r].session] = req[r].user] /\ s = req[r].session
  BY <2>5, <1>1, <2>1, <2>2
<2>6. CASE cache' = [cache EXCEPT ![req[r].session] = req[r].user] /\ s # req[r].session
  BY <2>6, <1>1, <2>1
<2>7. QED
  BY <2>3, <2>4, <2>5, <2>6
<1>4. ASSUME NEW r \in Requests, SignOut(r) PROVE cache'[s] = cache[s]
<2>1. req[r].session \in Sessions
  BY <1>1, <1>4 DEF SignOut, SessionsAreGiven
<2>2. QED
  BY <1>1, <1>4, <2>1 DEF SignOut, Put
<1>5. ASSUME NEW q \in Sessions, Evict(q) PROVE cache'[s] = cache[s]
  BY <1>1, <1>5 DEF Evict, Put
<1>6. \/ cache' = cache
      \/ \E r \in Requests : StoreSessionData(r) \/ CacheTokens(r) \/ SignOut(r)
      \/ \E q \in Sessions : Evict(q)
  BY DEF Next, Serve, vars, SignIn, Arrive, Validate, Refresh, Respond, Expire
<1>7. QED
  BY <1>1, <1>2, <1>3, <1>4, <1>5, <1>6

(* The cached tokens of a session never go back to earlier ones.           *)
THEOREM NeverBackCorrect == Spec => NeverBack
<1>1. IInv /\ [Next]_vars => [GoesForward]_vars
  BY StepsForward
<1>2. QED
  BY <1>1, Invariance, PTL DEF Spec, NeverBack

-----------------------------------------------------------------------------
(* The calls of the consolidated view and the token they share.              *)

\* The cached token is not kept for longer than it lives, an answer is not
\* older than it may be, and a call that may be tried again has attempts left.
CallsInv ==
  /\ SCTypeOK
  /\ tokenState.currentToken # None
       => tokenState.tokenExpiry <= tokenState.currentToken + MaxDelay + Lifetime
  /\ \A o \in ops : o.phase = "issued" => o.token \in 0..now /\ now <= o.token + MaxDelay
  /\ \A c \in Calls : calls[c].phase \in {"idle", "waiting"} => calls[c].attempt < MaxAttempts

LEMMA CallsInitial == SCInit => CallsInv
<1> SUFFICES ASSUME SCInit PROVE CallsInv
  OBVIOUS
<1>1. [c \in Calls |-> [phase |-> "idle", attempt |-> 0]]
        \in [Calls -> [phase : CallPhases, attempt : 0..MaxAttempts]]
  BY AttemptAssumption DEF CallPhases
<1> QED BY <1>1, TimeAssumption, AttemptAssumption DEF SCInit, CallsInv, SCTypeOK, Times, None

\* The attempt a call starts with holds a token that lives on, or none yet.
LEMMA AttemptIs ==
  ASSUME CallsInv, NEW c \in Calls, NEW k \in 1..MaxAttempts
  PROVE  /\ Attempt(c, k) \in Operations
         /\ Attempt(c, k).phase # "issued"
         /\ Attempt(c, k).phase = "sending" => now + Margin <= Attempt(c, k).token + Lifetime
<1>1. tokenState.currentToken \in Times \union {None}
  BY DEF CallsInv, SCTypeOK
<1>2. CASE HasToken
  <2>1. Attempt(c, k) = [call |-> c, attempt |-> k, phase |-> "sending", token |-> tokenState.currentToken]
    BY <1>2 DEF Attempt
  <2>2. now + Margin <= tokenState.currentToken + Lifetime
    BY <1>1, <1>2, TimeAssumption DEF HasToken, IsTokenExpired, CallsInv, SCTypeOK, Times, None, Margin
  <2> QED BY <1>1, <2>1, <2>2 DEF Operations
<1>3. CASE ~HasToken
  BY <1>3 DEF Attempt, Operations
<1> QED BY <1>2, <1>3

\* A token that has just been read lives on for longer than the margin.
LEMMA ReadIs ==
  ASSUME CallsInv, NEW o \in ops, ReadToken(o)
  PROVE  now + Margin <= o.token + Lifetime /\ tokenState'.tokenExpiry <= o.token + MaxDelay + Lifetime
<1>1. o.token \in Nat /\ now \in Nat /\ now <= o.token + MaxDelay
  BY TimeAssumption DEF CallsInv, SCTypeOK, ReadToken, Times, Operations
<1> QED BY <1>1, TimeAssumption DEF ReadToken, Margin

\* A call after one of its attempts failed.
LEMMA AfterFailureIs ==
  ASSUME CallsInv, NEW c \in Calls
  PROVE  /\ AfterFailure(c) \in [Calls -> [phase : CallPhases, attempt : 0..MaxAttempts]]
         /\ \A d \in Calls : AfterFailure(c)[d].phase \in {"idle", "waiting"}
                               => AfterFailure(c)[d].attempt < MaxAttempts
BY AttemptAssumption DEF CallsInv, SCTypeOK, AfterFailure, CallPhases

\* One attempt takes the place of another.
LEMMA ChangeIs ==
  ASSUME ops \subseteq Operations, NEW o \in ops, NEW phase \in {"asking", "issued", "sending"},
         NEW token \in Times \union {None}, Change(o, [o EXCEPT !.phase = phase, !.token = token])
  PROVE  /\ ops' \subseteq Operations
         /\ \A p \in ops' : p \in ops \/ (p.phase = phase /\ p.token = token)
BY DEF Change, Operations

LEMMA TryStep ==
  ASSUME CallsInv, NEW c \in Calls, calls[c].phase \in {"idle", "waiting"}, Try(c)
  PROVE  /\ CallsInv'
         /\ \A o \in ops' \ ops : o.phase = "sending" => now + Margin <= o.token + Lifetime
<1> DEFINE k == calls[c].attempt + 1
<1>1. k \in 1..MaxAttempts
  BY AttemptAssumption DEF CallsInv, SCTypeOK
<1>2. /\ calls' = [calls EXCEPT ![c] = [phase |-> "trying", attempt |-> k]]
      /\ ops' = ops \union {Attempt(c, k)} /\ now' = now /\ tokenState' = tokenState
  BY DEF Try
<1> HIDE DEF k
<1>3. /\ calls' \in [Calls -> [phase : CallPhases, attempt : 0..MaxAttempts]]
      /\ \A d \in Calls : calls'[d].phase \in {"idle", "waiting"} => calls'[d].attempt < MaxAttempts
  BY <1>1, <1>2, AttemptAssumption DEF CallsInv, SCTypeOK, CallPhases
<1>4. /\ Attempt(c, k) \in Operations /\ Attempt(c, k).phase # "issued"
      /\ Attempt(c, k).phase = "sending" => now + Margin <= Attempt(c, k).token + Lifetime
  BY <1>1, AttemptIs
<1> QED BY <1>2, <1>3, <1>4 DEF CallsInv, SCTypeOK

LEMMA OpStep ==
  ASSUME CallsInv, NEW o \in ops,
         \/ Issue(o) \/ ReadToken(o) \/ AskAgain(o)
         \/ AttemptFails(o) \/ AttemptSucceeds(o)
  PROVE  /\ CallsInv'
         /\ \A p \in ops' \ ops : p.phase = "sending" => now + Margin <= p.token + Lifetime
<1>1. /\ o \in Operations /\ ops \subseteq Operations /\ now \in Times /\ Times \subseteq Nat
      /\ o.call \in Calls
  BY TimeAssumption DEF CallsInv, SCTypeOK, Times, Operations
<1>2. CASE Issue(o)
  <2>1. /\ ops' \subseteq Operations
        /\ \A p \in ops' : p \in ops \/ (p.phase = "issued" /\ p.token = now)
    BY <1>1, <1>2, ChangeIs DEF Issue
  <2> QED BY <1>1, <1>2, <2>1, TimeAssumption DEF Issue, CallsInv, SCTypeOK
<1>3. CASE ReadToken(o)
  <2>1. [o EXCEPT !.phase = "sending"] = [o EXCEPT !.phase = "sending", !.token = o.token]
    BY <1>1 DEF Operations
  <2>2. /\ ops' \subseteq Operations
        /\ \A p \in ops' : p \in ops \/ (p.phase = "sending" /\ p.token = o.token)
    BY <1>1, <1>3, <2>1, ChangeIs DEF ReadToken, Operations
  <2>3. /\ now + Margin <= o.token + Lifetime
        /\ tokenState'.tokenExpiry <= o.token + MaxDelay + Lifetime
    BY <1>3, ReadIs
  <2>4. /\ tokenState'.currentToken = o.token /\ tokenState'.tokenExpiry = now + Lifetime
        /\ now' = now /\ calls' = calls
    BY <1>3 DEF ReadToken
  <2>5. tokenState'.currentToken \in Times \union {None} /\ now + Lifetime \in 0..MaxTime + Lifetime
    BY <1>1, <2>4, TimeAssumption DEF Operations, Times
  <2> QED BY <2>2, <2>3, <2>4, <2>5 DEF CallsInv, SCTypeOK
<1>4. CASE AskAgain(o)
  <2>1. /\ ops' \subseteq Operations
        /\ \A p \in ops' : p \in ops \/ (p.phase = "asking" /\ p.token = None)
    BY <1>1, <1>4, ChangeIs DEF AskAgain
  <2> QED BY <1>1, <1>4, <2>1 DEF AskAgain, CallsInv, SCTypeOK
<1>5. CASE AttemptFails(o)
  BY <1>1, <1>5, AfterFailureIs DEF AttemptFails, CallsInv, SCTypeOK
<1>6. CASE AttemptSucceeds(o)
  <2> DEFINE answered == [calls EXCEPT ![o.call].phase = "answered"]
  <2>1. /\ answered \in [Calls -> [phase : CallPhases, attempt : 0..MaxAttempts]]
        /\ \A d \in Calls : answered[d].phase \in {"idle", "waiting"} => answered[d].attempt < MaxAttempts
    BY <1>1 DEF CallsInv, SCTypeOK, CallPhases
  <2> QED BY <1>1, <1>6, <2>1 DEF AttemptSucceeds, CallsInv, SCTypeOK
<1> QED BY <1>2, <1>3, <1>4, <1>5, <1>6

LEMMA CallsStep ==
  ASSUME CallsInv, [SCNext]_scVars
  PROVE  /\ CallsInv'
         /\ \A o \in ops' \ ops : o.phase = "sending" => now + Margin <= o.token + Lifetime
<1>1. CASE Tick
  <2>1. now \in Nat /\ now' \in Times /\ now' = now + 1
    BY <1>1, TimeAssumption DEF Tick, CallsInv, SCTypeOK, Times
  <2>2. ASSUME NEW o \in ops, o.phase = "issued"
        PROVE  o.token \in 0..now' /\ now' <= o.token + MaxDelay
    BY <1>1, <2>1, <2>2, TimeAssumption DEF Tick, CallsInv
  <2> QED BY <1>1, <2>1, <2>2 DEF Tick, CallsInv, SCTypeOK
<1>2. ASSUME NEW c \in Calls, Start(c) \/ Retry(c)
      PROVE  /\ CallsInv'
             /\ \A o \in ops' \ ops : o.phase = "sending" => now + Margin <= o.token + Lifetime
  BY <1>2, TryStep DEF Start, Retry
<1>3. ASSUME NEW c \in Calls, TimeOut(c)
      PROVE  CallsInv' /\ ops' = ops
  BY <1>3, AfterFailureIs DEF TimeOut, CallsInv, SCTypeOK
<1>4. CASE \E o \in ops : \/ Issue(o) \/ ReadToken(o) \/ AskAgain(o)
                          \/ AttemptFails(o) \/ AttemptSucceeds(o)
  BY <1>4, OpStep
<1>5. CASE UNCHANGED scVars
  BY <1>5 DEF scVars, CallsInv, SCTypeOK
<1>6. Tick => ops' = ops
  BY DEF Tick
<1>7. UNCHANGED scVars => ops' = ops
  BY DEF scVars
<1> QED BY <1>1, <1>2, <1>3, <1>4, <1>5, <1>6, <1>7 DEF SCNext

LEMMA CallsInvariant == SCSpec => []CallsInv
<1>1. CallsInv /\ [SCNext]_scVars => CallsInv'
  BY CallsStep
<1> QED BY <1>1, CallsInitial, PTL DEF SCSpec

\* The clock, the token, the calls and their attempts hold what they may hold,
\* however often calls are made and time out.
THEOREM CallsTypeCorrect == SCSpec => []SCTypeOK
<1>1. CallsInv => SCTypeOK
  BY DEF CallsInv
<1> QED BY <1>1, CallsInvariant, PTL

\* No request is ever sent with a token about to expire.
THEOREM SentCorrect == SCSpec => SentInTime
<1>1. CallsInv /\ [SCNext]_scVars
        => [\A o \in ops' : o.phase = "sending" /\ o \notin ops => now + Margin <= o.token + Lifetime]_scVars
  BY CallsStep
<1> QED BY <1>1, CallsInvariant, PTL DEF SCSpec, SentInTime
=============================================================================
