----------------------------- MODULE ServiceCalls -----------------------------
(***************************************************************************)
(* Calls of the consolidated view (consolidated-view.service.js), retried   *)
(* by retry.js, each attempt with the Entra token that all requests of the  *)
(* process share (entra/token-manager.js).  A timeout does not cancel what  *)
(* it gives up: the attempt goes on, and may still store a token.           *)
(***************************************************************************)
EXTENDS Integers, FiniteSets

CONSTANTS
  Calls,        \* the calls made by the process
  MaxAttempts,  \* maxAttempts
  Lifetime,     \* expires_in
  Buffer,       \* expirationBuffer
  MaxDelay,     \* the longest an issued token takes to be read
  MaxTime       \* bound: the clock

None == -1      \* no token yet

\* The buffer of five minutes covers the timeout of 15 seconds of the answer
\* and the reading of its body; a token lives longer than its answer takes.
ASSUME TimeAssumption == /\ {Lifetime, Buffer, MaxDelay, MaxTime} \subseteq Nat
                         /\ MaxDelay < Buffer /\ MaxDelay < Lifetime
ASSUME AttemptAssumption == MaxAttempts \in Nat \ {0}

VARIABLES
  now,         \* the clock
  tokenState,  \* the cached token, named by when it was issued, and its expiry
  calls,       \* each call and the attempt it is at
  ops          \* the attempts under way, those given up included

scVars == <<now, tokenState, calls, ops>>

Times == 0..MaxTime
CallPhases == {"idle", "trying", "waiting", "answered", "failed"}

Operations ==
  [call : Calls, attempt : 1..MaxAttempts, phase : {"asking", "issued", "sending"},
   token : Times \union {None}]

SCTypeOK ==
  /\ now \in Times
  /\ tokenState.currentToken \in Times \union {None}
  /\ tokenState.tokenExpiry \in 0..MaxTime + Lifetime
  /\ calls \in [Calls -> [phase : CallPhases, attempt : 0..MaxAttempts]]
  /\ ops \subseteq Operations

-----------------------------------------------------------------------------
(* Mutant: a token is used until it expires. *)
ExpiredAtLast(expiry) == now >= expiry

\* isTokenExpired
IsTokenExpired(expiry) == now >= expiry - Buffer

HasToken == tokenState.currentToken # None /\ ~IsTokenExpired(tokenState.tokenExpiry)

\* An attempt starts with getValidToken: it sends its request with the cached
\* token, or asks for another first, whoever else is asking.
Attempt(c, k) ==
  IF HasToken
  THEN [call |-> c, attempt |-> k, phase |-> "sending", token |-> tokenState.currentToken]
  ELSE [call |-> c, attempt |-> k, phase |-> "asking", token |-> None]

\* The promise of an attempt given up settles nothing.
Awaited(o) == calls[o.call].phase = "trying" /\ calls[o.call].attempt = o.attempt

(* Mutant: the attempts are counted from zero. *)
AfterFailureFromZero(c) ==
  [calls EXCEPT ![c].phase = IF calls[c].attempt > MaxAttempts THEN "failed" ELSE "waiting"]

\* The call after an attempt failed: another one after a delay, or the error.
AfterFailure(c) ==
  [calls EXCEPT ![c].phase = IF calls[c].attempt = MaxAttempts THEN "failed" ELSE "waiting"]

SCInit ==
  /\ now = 0
  /\ tokenState = [currentToken |-> None, tokenExpiry |-> 0]
  /\ calls = [c \in Calls |-> [phase |-> "idle", attempt |-> 0]]
  /\ ops = {}

-----------------------------------------------------------------------------
(* The call: retry of makeConsolidatedViewRequest.                           *)

Try(c) ==
  /\ calls' = [calls EXCEPT ![c] = [phase |-> "trying", attempt |-> @.attempt + 1]]
  /\ ops' = ops \union {Attempt(c, calls[c].attempt + 1)}
  /\ UNCHANGED <<now, tokenState>>

Start(c) == calls[c].phase = "idle" /\ Try(c)

Retry(c) == calls[c].phase = "waiting" /\ Try(c)

(* Mutant: an attempt is waited for while it asks for a token. *)
TimeOutSent(c) ==
  /\ calls[c].phase = "trying"
  /\ \A o \in ops : o.call = c /\ Awaited(o) => o.phase = "sending"
  /\ calls' = AfterFailure(c)
  /\ UNCHANGED <<now, tokenState, ops>>

\* race: the attempt is given up and goes on.
TimeOut(c) ==
  /\ calls[c].phase = "trying"
  /\ calls' = AfterFailure(c)
  /\ UNCHANGED <<now, tokenState, ops>>

-----------------------------------------------------------------------------
(* The attempt: refreshToken, itself retried, and the request.               *)

Change(o, p) == ops' = (ops \ {o}) \union {p}

\* Entra issues a token.
Issue(o) ==
  /\ o.phase = "asking"
  /\ Change(o, [o EXCEPT !.phase = "issued", !.token = now])
  /\ UNCHANGED <<now, tokenState, calls>>

\* The answer is read, and the request sent with this token at once.
ReadToken(o) ==
  /\ o.phase = "issued"
  /\ tokenState' = [currentToken |-> o.token, tokenExpiry |-> now + Lifetime]
  /\ Change(o, [o EXCEPT !.phase = "sending"])
  /\ UNCHANGED <<now, calls>>

\* The token request timed out: its answer is dropped, and it is made again.
AskAgain(o) ==
  /\ o.phase = "issued"
  /\ Change(o, [o EXCEPT !.phase = "asking", !.token = None])
  /\ UNCHANGED <<now, tokenState, calls>>

\* No token could be had, after one request or several, or the request itself
\* was refused or answered with errors that are not tolerated.
AttemptFails(o) ==
  /\ ops' = ops \ {o}
  /\ calls' = IF Awaited(o) THEN AfterFailure(o.call) ELSE calls
  /\ UNCHANGED <<now, tokenState>>

\* The answer, a partial one whose failures are tolerated included.
AttemptSucceeds(o) ==
  /\ o.phase = "sending"
  /\ ops' = ops \ {o}
  /\ calls' = IF Awaited(o) THEN [calls EXCEPT ![o.call].phase = "answered"] ELSE calls
  /\ UNCHANGED <<now, tokenState>>

\* Time passes; the timeout of the token request bounds what an answer takes.
Tick ==
  /\ now < MaxTime
  /\ \A o \in ops : o.phase = "issued" => now < o.token + MaxDelay
  /\ now' = now + 1
  /\ UNCHANGED <<tokenState, calls, ops>>

SCNext ==
  \/ Tick
  \/ \E c \in Calls : Start(c) \/ Retry(c) \/ TimeOut(c)
  \/ \E o \in ops :
       \/ Issue(o) \/ ReadToken(o) \/ AskAgain(o)
       \/ AttemptFails(o) \/ AttemptSucceeds(o)

\* The timers of the process run; nothing makes a service answer.
Fairness == \A c \in Calls : WF_scVars(TimeOut(c)) /\ WF_scVars(Retry(c))

SCSpec == SCInit /\ [][SCNext]_scVars /\ Fairness

-----------------------------------------------------------------------------
(* Properties.                                                               *)

\* Every request is sent with a token that lives on for what the buffer leaves
\* (:11), an attempt given up long ago and one that waited for its token included.
Margin == (IF Buffer < Lifetime THEN Buffer ELSE Lifetime) - MaxDelay

SentInTime ==
  [][\A o \in ops' : o.phase = "sending" /\ o \notin ops => now + Margin <= o.token + Lifetime]_scVars

\* Every call is answered or fails, although neither service need answer.
EveryCallEnds ==
  \A c \in Calls : calls[c].phase = "trying" ~> calls[c].phase \in {"answered", "failed"}
=============================================================================
