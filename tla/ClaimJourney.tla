---------------------------- MODULE ClaimJourney ----------------------------
(***************************************************************************)
(* Claims against one accepted application.  The claims live in the same   *)
(* saved document as the application; the start page of the claim journey  *)
(* opens or refreshes the current claim, the claim declaration submits it. *)
(* As in ApplicationLifecycle a request decides on the snapshot it read,   *)
(* writes the whole document back, and gives way at every await.           *)
(*                                                                         *)
(* External: GAS, which decides when a claim is awaited, and the payment   *)
(* service, whose amounts may change from one call to the next.            *)
(***************************************************************************)
EXTENDS StateStore, Naturals, Sequences, FiniteSets

CONSTANTS Requests,   \* slots for requests being served at the same time
          Amounts,    \* amounts the payment service may calculate
          NoAmount,
          MaxClaims   \* bound: claims of one application

VARIABLES ledger,     \* the claims GAS accepted
          inFlight,   \* posts that nobody waits for any more
          req         \* the requests being served

vars == <<doc, ledger, inFlight, req>>

ASSUME AmountsAssumption == NoAmount \notin Amounts
ASSUME MaxClaimsAssumption == MaxClaims \in Nat

Status == {"SUBMITTED", "CLAIM_STARTED", "CLAIM_SUBMITTED"}
Claims == [number : 1..MaxClaims, status : {"IN_PROGRESS", "SUBMITTED"}, amount : Amounts]
Payloads == [number : 0..MaxClaims, amount : Amounts \cup {NoAmount}]

(* The claims of a document that are not submitted, by position. *)
Open(claims) == {i \in DOMAIN claims : claims[i].status # "SUBMITTED"}
First(positions) == CHOOSE i \in positions : \A j \in positions : i <= j

(* Mutant: claims are numbered from nought. *)
NewClaimFromZero(claims, amount) ==
  [number |-> Len(claims), status |-> "IN_PROGRESS", amount |-> amount]

(* The claim that follows those of the document. *)
NewClaim(claims, amount) ==
  [number |-> Len(claims) + 1, status |-> "IN_PROGRESS", amount |-> amount]

(* Mutant: a visit to the start page opens a claim whether one is open or not. *)
UpsertAppending(claims, amount) == Append(claims, NewClaim(claims, amount))

(* upsertCurrentClaim: refresh the current claim, or open the next one. *)
UpsertCurrentClaim(claims, amount) ==
  IF Open(claims) = {} THEN Append(claims, NewClaim(claims, amount))
                       ELSE [claims EXCEPT ![First(Open(claims))].amount = amount]

MarkClaimSubmitted(claims, number) ==
  [i \in DOMAIN claims |->
     IF claims[i].number = number THEN [claims[i] EXCEPT !.status = "SUBMITTED"] ELSE claims[i]]

NoClaim == [number |-> 0, amount |-> NoAmount]

(* buildClaimData: the current claim's fields, undefined when there is none. *)
Payload(state) ==
  IF Open(state.claims) = {}
    THEN NoClaim
    ELSE LET claim == state.claims[First(Open(state.claims))]
         IN  [number |-> claim.number, amount |-> claim.amount]

Accepted == [status |-> "SUBMITTED", claims |-> <<>>]
Idle == [pc |-> "idle", kind |-> "start", ctx |-> Accepted]

(* The application was submitted, and no claim was opened yet. *)
Init ==
  /\ doc = Accepted
  /\ ledger = {}
  /\ inFlight = {}
  /\ req = [r \in Requests |-> Idle]

Goto(r, pc) == req' = [req EXCEPT ![r].pc = pc]
Finish(r) == req' = [req EXCEPT ![r] = Idle]

(* A GET of the start page, or a POST of the claim declaration, comes in. *)
Load(r) ==
  /\ req[r].pc = "idle"
  /\ \E kind \in {"start", "declaration"} :
       req' = [req EXCEPT ![r] = [pc |-> "loaded", kind |-> kind, ctx |-> doc]]
  /\ UNCHANGED <<doc, ledger, inFlight>>

(***************************************************************************)
(* formsStatusRedirect.  While a claim is under way its start page and the *)
(* pages after it are open, without asking GAS; once it is submitted every *)
(* request is redirected to the claim's confirmation.  In between the page *)
(* is reached through GAS, or past it when the one-shot marker of a status *)
(* change or pending check-details changes say so.                         *)
(***************************************************************************)
Pipeline(r) ==
  /\ req[r].pc = "loaded"
  /\ CASE req[r].ctx.status = "CLAIM_STARTED"   -> Goto(r, "handler")
       [] req[r].ctx.status = "CLAIM_SUBMITTED" -> Finish(r)
       [] req[r].ctx.status = "SUBMITTED"       -> Goto(r, "lookup") \/ Goto(r, "handler")
  /\ UNCHANGED <<doc, ledger, inFlight>>

(* handlePostSubmission: a claim is awaited, GAS does not know the         *)
(* application (the request goes on), or there is nothing to claim for or  *)
(* GAS cannot be asked (redirect).                                         *)
GasLookup(r) ==
  /\ req[r].pc = "lookup"
  /\ Goto(r, "patching") \/ Goto(r, "handler") \/ Finish(r)
  /\ UNCHANGED <<doc, ledger, inFlight>>

(* persistStatus: the stored document is PATCHed, and the request goes on  *)
(* with the snapshot it has when it is for the start page already.         *)
StartClaim(r) ==
  /\ req[r].pc = "patching"
  /\ PatchStatus("CLAIM_STARTED")
  /\ IF req[r].kind = "start" THEN Goto(r, "handler") ELSE Finish(r)
  /\ UNCHANGED <<ledger, inFlight>>

(* The start page calculates the payment and persists the current claim;   *)
(* when the payment service fails, nothing is written.                     *)
PersistCurrentClaim(r) ==
  /\ req[r].pc = "handler"
  /\ req[r].kind = "start"
  /\ \/ \E amount \in Amounts :
          LET claims == UpsertCurrentClaim(req[r].ctx.claims, amount)
          IN  /\ Len(claims) <= MaxClaims
              /\ Save([req[r].ctx EXCEPT !.claims = claims])
     \/ UNCHANGED doc
  /\ Finish(r)
  /\ UNCHANGED <<ledger, inFlight>>

Declare(r) ==
  /\ req[r].pc = "handler"
  /\ req[r].kind = "declaration"
  /\ Goto(r, "submitting")
  /\ UNCHANGED <<doc, ledger, inFlight>>

(* Mutant: the answer of GAS is not looked at. *)
SubmitTrustingAnyAnswer(r) ==
  /\ req[r].pc = "submitting"
  /\ ledger' \in {ledger, ledger \cup {Payload(req[r].ctx)}}
  /\ Goto(r, "marking")
  /\ UNCHANGED <<doc, inFlight>>

(* submitClaim: accepted and acknowledged; or the user is shown an error,  *)
(* and the post lands later or never.                                      *)
Submit(r) ==
  /\ req[r].pc = "submitting"
  /\ LET payload == Payload(req[r].ctx)
     IN  \/ /\ ledger' = ledger \cup {payload}
            /\ Goto(r, "marking")
            /\ UNCHANGED inFlight
         \/ /\ inFlight' = inFlight \cup {payload}
            /\ Finish(r)
            /\ UNCHANGED ledger
  /\ UNCHANGED doc

Land(payload) ==
  /\ payload \in inFlight
  /\ ledger' = ledger \cup {payload}
  /\ inFlight' = inFlight \ {payload}
  /\ UNCHANGED <<doc, req>>

(* The document after a successful submission. *)
Marked(state) ==
  [state EXCEPT !.status = "CLAIM_SUBMITTED",
                !.claims = MarkClaimSubmitted(@, Payload(state).number)]

(* Mutant: the document is read again first. *)
MarkSubmittedRereading(r) ==
  /\ req[r].pc = "marking"
  /\ Save(Marked(doc))
  /\ Finish(r)
  /\ UNCHANGED <<ledger, inFlight>>

(* handleSuccessfulClaimSubmission, from the state memoised at the start.  *)
MarkSubmitted(r) ==
  /\ req[r].pc = "marking"
  /\ Save(Marked(req[r].ctx))
  /\ Finish(r)
  /\ UNCHANGED <<ledger, inFlight>>

Serve(r) ==
  \/ Pipeline(r) \/ GasLookup(r) \/ StartClaim(r) \/ PersistCurrentClaim(r)
  \/ Declare(r) \/ Submit(r) \/ MarkSubmitted(r)

Next ==
  \/ \E r \in Requests : Load(r) \/ Serve(r)
  \/ \E payload \in inFlight : Land(payload)

Spec == Init /\ [][Next]_vars

-----------------------------------------------------------------------------
States == [status : Status, claims : Seq(Claims)]
Pcs == {"idle", "loaded", "lookup", "patching", "handler", "submitting", "marking"}

(* Every variable has its type. *)
TypeOK ==
  /\ doc \in States
  /\ ledger \subseteq Payloads
  /\ inFlight \subseteq Payloads
  /\ req \in [Requests -> [pc : Pcs, kind : {"start", "declaration"}, ctx : States]]

NumbersOf(entries) == {entry.number : entry \in entries}
Numbers == NumbersOf(ledger)

(* Whatever tabs overlap and whatever is lost, a document never holds two  *)
(* claims that are still to be submitted, and each claim has the number of *)
(* its place.                                                              *)
OneCurrentClaim ==
  /\ Cardinality(Open(doc.claims)) <= 1
  /\ \A i \in DOMAIN doc.claims : doc.claims[i].number = i

(* A claim shown as submitted is one GAS accepted, with the very amount    *)
(* shown, though amounts are refreshed while a submission is under way.    *)
SubmittedClaimIsAccepted ==
  \A i \in DOMAIN doc.claims :
    doc.claims[i].status = "SUBMITTED" =>
      [number |-> doc.claims[i].number, amount |-> doc.claims[i].amount] \in ledger

(* GAS holds no claim whose predecessors it does not hold. *)
ClaimsInOrder == \A n \in Numbers : \A m \in 1..n : m \in Numbers

(***************************************************************************)
(* The strengthening of these that every step preserves.  Only the last    *)
(* claim of a document or of a snapshot may still be open, and what is     *)
(* posted, accepted or not yet landed, carries the claim of a snapshot     *)
(* whose earlier claims GAS accepted.                                      *)
(***************************************************************************)
SoundClaims(claims, entries) ==
  \A i \in DOMAIN claims :
    /\ claims[i].number = i
    /\ i < Len(claims) => claims[i].status = "SUBMITTED"
    /\ claims[i].status = "SUBMITTED" => [number |-> i, amount |-> claims[i].amount] \in entries

SoundPayload(payload, entries) ==
  \A m \in 1..(payload.number - 1) : m \in NumbersOf(entries)

IInv ==
  /\ SoundClaims(doc.claims, ledger)
  /\ \A r \in Requests : SoundClaims(req[r].ctx.claims, ledger)
  /\ \A r \in Requests : req[r].pc = "marking" => Payload(req[r].ctx) \in ledger
  /\ \A payload \in ledger \cup inFlight : SoundPayload(payload, ledger)

(* What the whole keeps of the abstract ledger of claims: pending is what  *)
(* the document, a request's snapshot or a post under way would submit.    *)
Pending ==
  ({Payload(state) : state \in {doc} \cup {req[r].ctx : r \in Requests}} \cup inFlight) \ {NoClaim}
Closed(claims) == {[number |-> i, amount |-> claims[i].amount] : i \in DOMAIN claims \ Open(claims)}

Ledger == INSTANCE ClaimLedger WITH Claims <- Payloads, pending <- Pending, shown <- Closed(doc.claims)

(* Requests, snapshots, changing amounts, lost writes and late posts never *)
(* make the ledger of claims do what its specification does not allow.     *)
ImplementsClaimLedger == Ledger!Spec
=============================================================================
