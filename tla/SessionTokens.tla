---------------------------- MODULE SessionTokens ---------------------------
(***************************************************************************)
(* The signed-in session: the cookie of one browser, the session cache the *)
(* cookie points into, and the Defra Identity tokens kept there.  Every    *)
(* request reads the session before its handler runs, and renews the       *)
(* tokens when the access token has expired; requests overlap as they      *)
(* please.                                                                 *)
(*                                                                         *)
(* External: Defra Identity, which honours only the refresh token it gave  *)
(* last; the session cache, whose entries may run out.  The tokens of a    *)
(* session are numbered in the order they were given.                      *)
(***************************************************************************)
EXTENDS Naturals

CONSTANTS Requests,      \* slots for requests being served at the same time
          Sessions,      \* the session ids sign-in draws
          NoSession,     \* no cookie, or nothing cached
          RefreshTokens, \* defraId.refreshTokens
          Reliable,      \* the sessions for which cache and Defra Identity always answer
          MaxTokens      \* bound: tokens given to one session

VARIABLES cookie,        \* the session the browser's cookie names
          cache,         \* what is cached for each session
          given,         \* how many tokens Defra Identity gave each session
          expired,       \* how many of them can no longer be used for access
          req            \* the requests being served

vars == <<cookie, cache, given, expired, req>>

ASSUME ReliableAssumption == Reliable \subseteq Sessions /\ RefreshTokens \in BOOLEAN
ASSUME SessionsAssumption == NoSession \notin Sessions

UserSessions == [token : Nat \ {0}, refreshToken : Nat \ {0}]
ASSUME AbsenceAssumption == NoSession \notin UserSessions

Tokens(n) == [token |-> n, refreshToken |-> n]
Idle == [pc |-> "idle", session |-> NoSession, user |-> Tokens(1)]

Init ==
  /\ cookie = NoSession
  /\ cache = [s \in Sessions |-> NoSession]
  /\ given = [s \in Sessions |-> 0]
  /\ expired = [s \in Sessions |-> 0]
  /\ req = [r \in Requests |-> Idle]

Finish(r) == req' = [req EXCEPT ![r] = Idle]
Goto(r, pc) == req' = [req EXCEPT ![r].pc = pc]
Put(s, user) == cache' = [cache EXCEPT ![s] = user]

(* The user comes back from Defra Identity with the tokens of a new        *)
(* session, whatever session the browser had before.                       *)
SignIn(r) ==
  /\ req[r].pc = "idle"
  /\ \E s \in Sessions :
       /\ given[s] = 0
       /\ given' = [given EXCEPT ![s] = 1]
       /\ req' = [req EXCEPT ![r] = [pc |-> "signing in", session |-> s, user |-> Tokens(1)]]
  /\ UNCHANGED <<cookie, cache, expired>>

(* The session is cached, and then the cookie is set; or the access token  *)
(* is not verified or not cached, and the sign-in fails.                   *)
StoreSessionData(r) ==
  /\ req[r].pc = "signing in"
  /\ \/ Put(req[r].session, req[r].user) /\ cookie' = req[r].session
     \/ req[r].session \notin Reliable /\ UNCHANGED <<cache, cookie>>
  /\ Finish(r)
  /\ UNCHANGED <<given, expired>>

(* A request arrives with the cookie. *)
Arrive(r) ==
  /\ req[r].pc = "idle"
  /\ cookie # NoSession
  /\ \E pc \in {"arrived", "signing out"} : req' = [req EXCEPT ![r] = [Idle EXCEPT !.pc = pc, !.session = cookie]]
  /\ UNCHANGED <<cookie, cache, given, expired>>

(* The cookie strategy reads the session, and verifies the time of the     *)
(* access token in it.                                                     *)
Validate(r) ==
  /\ req[r].pc = "arrived"
  /\ LET s == req[r].session
         user == cache[s]
     IN  IF user = NoSession
           THEN Goto(r, "rejected")
           ELSE req' = [req EXCEPT
                  ![r].user = user,
                  ![r].pc = CASE user.token > expired[s] -> "admitted"
                              [] user.token <= expired[s] /\ RefreshTokens -> "refreshing"
                              [] OTHER -> "rejected"]
  /\ UNCHANGED <<cookie, cache, given, expired>>

Honoured(r) == req[r].user.refreshToken = given[req[r].session]

(* Mutant: the session is cached again when its tokens were refused. *)
RefreshRestoring(r) ==
  /\ req[r].pc = "refreshing"
  /\ IF Honoured(r)
       THEN /\ given' = [given EXCEPT ![req[r].session] = @ + 1]
            /\ req' = [req EXCEPT ![r].pc = "caching", ![r].user = Tokens(given[req[r].session] + 1)]
            /\ UNCHANGED cache
       ELSE Goto(r, "rejected") /\ Put(req[r].session, req[r].user) /\ UNCHANGED given
  /\ UNCHANGED <<cookie, expired>>

(* refreshTokens: an honoured token is exchanged for the next ones; the    *)
(* answer may be lost, or the request for it.                              *)
Refresh(r) ==
  /\ req[r].pc = "refreshing"
  /\ LET s == req[r].session
     IN  \/ /\ Honoured(r)
            /\ given' = [given EXCEPT ![s] = @ + 1]
            /\ \/ req' = [req EXCEPT ![r].pc = "caching", ![r].user = Tokens(given[s] + 1)]
               \/ s \notin Reliable /\ Goto(r, "rejected")
         \/ ~(s \in Reliable /\ Honoured(r)) /\ Goto(r, "rejected") /\ UNCHANGED given
  /\ UNCHANGED <<cookie, cache, expired>>

(* Mutant: only the access token is replaced. *)
CacheAccessToken(r) ==
  /\ req[r].pc = "caching"
  /\ Put(req[r].session, [req[r].user EXCEPT !.refreshToken = @ - 1])
  /\ Goto(r, "admitted")
  /\ UNCHANGED <<cookie, given, expired>>

(* The new tokens are cached in place of the old ones. *)
CacheTokens(r) ==
  /\ req[r].pc = "caching"
  /\ \/ Put(req[r].session, req[r].user) /\ Goto(r, "admitted")
     \/ req[r].session \notin Reliable /\ UNCHANGED cache /\ Goto(r, "rejected")
  /\ UNCHANGED <<cookie, given, expired>>

(* The handler runs; or the browser is sent to sign in, cookie and all. *)
Respond(r) ==
  /\ req[r].pc \in {"admitted", "rejected"}
  /\ Finish(r)
  /\ UNCHANGED <<cookie, cache, given, expired>>

(* Back from signing out at Defra Identity: without renewing any token,    *)
(* the session is dropped, and then the cookie is cleared; or there is no  *)
(* session, or the state that comes back is not the one that was sent.     *)
SignOut(r) ==
  /\ req[r].pc = "signing out"
  /\ \/ cache[req[r].session] # NoSession /\ Put(req[r].session, NoSession) /\ cookie' = NoSession
     \/ UNCHANGED <<cookie, cache>>
  /\ Finish(r)
  /\ UNCHANGED <<given, expired>>

(* Time passes: access tokens expire (the bound: while there may be more). *)
Expire(s) ==
  /\ given[s] < MaxTokens
  /\ \E n \in expired[s] + 1 .. given[s] : expired' = [expired EXCEPT ![s] = n]
  /\ UNCHANGED <<cookie, cache, given, req>>

(* And so does what is cached. *)
Evict(s) ==
  /\ cache[s] # NoSession
  /\ Put(s, NoSession)
  /\ UNCHANGED <<cookie, given, expired, req>>

Serve(r) ==
  StoreSessionData(r) \/ Validate(r) \/ Refresh(r) \/ CacheTokens(r) \/ Respond(r) \/ SignOut(r)

Next ==
  \/ \E r \in Requests : SignIn(r) \/ Arrive(r) \/ Serve(r)
  \/ \E s \in Sessions : Expire(s) \/ Evict(s)

Spec == Init /\ [][Next]_vars

-----------------------------------------------------------------------------
(* Every variable has its type. *)
TypeOK ==
  /\ cookie \in Sessions \cup {NoSession}
  /\ cache \in [Sessions -> UserSessions \cup {NoSession}]
  /\ given \in [Sessions -> Nat]
  /\ expired \in [Sessions -> Nat]
  /\ req \in [Requests ->
       [pc : {"idle", "signing in", "arrived", "refreshing", "caching", "admitted", "rejected", "signing out"},
        session : Sessions \cup {NoSession}, user : UserSessions]]

(* The tokens cached for a session are never replaced by earlier ones,     *)
(* however the requests that renew them overlap and whatever is lost.      *)
GoesForward ==
  \A s \in Sessions : cache[s] # NoSession /\ cache'[s] # NoSession => cache'[s].token >= cache[s].token

NeverBack == [][GoesForward]_vars

Caching(s) == \E r \in Requests : req[r].pc = "caching" /\ req[r].session = s

(* Where cache and Defra Identity answer, what is cached can be renewed,   *)
(* or is about to be replaced by what can: a user whom an overlap sent to  *)
(* sign in is still signed in.                                             *)
CachedIsHonoured ==
  \A s \in Reliable :
    cache[s] # NoSession => cache[s].refreshToken = given[s] \/ Caching(s)

(***************************************************************************)
(* The strengthening every step preserves: the tokens of a session come    *)
(* and go together, and while a request is about to cache the last ones    *)
(* nobody else has them.                                                   *)
(***************************************************************************)
Paired(user, s) == user.refreshToken = user.token /\ user.token <= given[s]
Reading(r) == req[r].pc \in {"refreshing", "caching"}

CachedArePaired == \A s \in Sessions : cache[s] # NoSession => Paired(cache[s], s)
ReadArePaired == \A r \in Requests : Reading(r) => Paired(req[r].user, req[r].session)

LastAreCachedOnce ==
  \A r \in Requests : req[r].pc = "caching" =>
    LET s == req[r].session
    IN  /\ req[r].user.token = given[s]
        /\ cache[s] # NoSession => cache[s].token < given[s]
        /\ \A q \in Requests \ {r} : Reading(q) /\ req[q].session = s => req[q].user.token < given[s]

SessionsAreNew ==
  \A r \in Requests : req[r].pc = "signing in" =>
    LET s == req[r].session
    IN  /\ given[s] = 1
        /\ req[r].user = Tokens(1)
        /\ cache[s] = NoSession
        /\ cookie # s
        /\ \A q \in Requests \ {r} : req[q].session # s

SessionsAreGiven ==
  /\ \A s \in Sessions : given[s] = 0 => cookie # s /\ \A r \in Requests : req[r].session # s
  /\ \A r \in Requests : req[r].pc # "idle" => req[r].session \in Sessions

IInv ==
  /\ TypeOK
  /\ CachedIsHonoured
  /\ CachedArePaired
  /\ ReadArePaired
  /\ LastAreCachedOnce
  /\ SessionsAreNew
  /\ SessionsAreGiven
=============================================================================
