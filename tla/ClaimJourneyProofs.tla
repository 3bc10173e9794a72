------------------------- MODULE ClaimJourneyProofs -------------------------
(***************************************************************************)
(* Claims stay in order, at most one of them open, and what is shown as    *)
(* submitted is what GAS accepted, for any number of requests, any amounts *)
(* and any pattern of lost writes and late posts.                          *)
(***************************************************************************)
EXTENDS ClaimJourney, SequenceTheorems, FiniteSetTheorems, TLAPS

RequestType == [pc : Pcs, kind : {"start", "declaration"}, ctx : States]

-----------------------------------------------------------------------------
(* The operations on claims. *)

(* Only the last of sound claims can be open, so it is the current one.    *)
LEMMA OpenIsLast ==
  ASSUME NEW claims \in Seq(Claims), NEW entries, SoundClaims(claims, entries)
  PROVE  Open(claims) = {} \/ (Open(claims) = {Len(claims)} /\ First(Open(claims)) = Len(claims))
<1>1. ASSUME NEW i \in DOMAIN claims, i # Len(claims) PROVE claims[i].status = "SUBMITTED"
  <2>1. Len(claims) \in Nat /\ i \in 1..Len(claims)
    BY LenProperties
  <2>2. i < Len(claims)
    BY <1>1, <2>1
  <2>3. QED
    BY <2>2 DEF SoundClaims
<1>2. Open(claims) \subseteq {Len(claims)}
  BY <1>1 DEF Open
<1>3. First({Len(claims)}) = Len(claims)
  BY DEF First
<1>4. QED
  BY <1>2, <1>3

(* Claims stay sound while the ledger grows. *)
LEMMA SoundClaimsGrows ==
  ASSUME NEW old, NEW new, old \subseteq new, NEW claims, SoundClaims(claims, old)
  PROVE  SoundClaims(claims, new)
  BY DEF SoundClaims

(* So does a payload. *)
LEMMA SoundPayloadGrows ==
  ASSUME NEW old, NEW new, old \subseteq new, NEW payload, SoundPayload(payload, old)
  PROVE  SoundPayload(payload, new)
  BY DEF SoundPayload, NumbersOf

(* upsertCurrentClaim keeps claims sound, and well typed within the bound. *)
LEMMA UpsertSound ==
  ASSUME NEW claims \in Seq(Claims), NEW entries, SoundClaims(claims, entries),
         NEW amount \in Amounts,
         Len(UpsertCurrentClaim(claims, amount)) <= MaxClaims
  PROVE  /\ UpsertCurrentClaim(claims, amount) \in Seq(Claims)
         /\ SoundClaims(UpsertCurrentClaim(claims, amount), entries)
<1> DEFINE upserted == UpsertCurrentClaim(claims, amount)
<1>1. CASE Open(claims) = {}
  <2> DEFINE claim == NewClaim(claims, amount)
  <2>1. upserted = Append(claims, claim) /\ Len(upserted) = Len(claims) + 1
    BY <1>1 DEF UpsertCurrentClaim
  <2>2. claim \in Claims /\ claim.number = Len(claims) + 1 /\ claim.status = "IN_PROGRESS"
    BY <2>1, MaxClaimsAssumption DEF NewClaim, Claims
  <2>3. upserted \in Seq(Claims)
    BY <2>1, <2>2
  <2>4. \A i \in DOMAIN claims : claims[i].status = "SUBMITTED"
    BY <1>1 DEF Open
  <2>5. /\ \A i \in DOMAIN claims : upserted[i] = claims[i]
        /\ upserted[Len(claims) + 1] = claim
    BY <2>1, <2>2
  <2>6. DOMAIN upserted = 1..(Len(claims) + 1)
    BY <2>1, <2>3
  <2>7. SoundClaims(upserted, entries)
    BY <2>1, <2>2, <2>4, <2>5, <2>6 DEF SoundClaims
  <2>8. QED
    BY <2>3, <2>7
<1>2. CASE Open(claims) = {Len(claims)} /\ First(Open(claims)) = Len(claims)
  <2> DEFINE n == Len(claims)
             claim == [claims[n] EXCEPT !.amount = amount]
  <2>1. upserted = [claims EXCEPT ![n] = claim]
    BY <1>2 DEF UpsertCurrentClaim
  <2>2. n \in 1..Len(claims) /\ DOMAIN claims = 1..Len(claims) /\ claims[n].status # "SUBMITTED"
    BY <1>2, LenProperties DEF Open
  <2>3. claims[n] \in Claims
    BY <2>2, ElementOfSeq
  <2>4. claim \in Claims /\ claim.number = claims[n].number /\ claim.status = claims[n].status
    BY <2>3 DEF Claims
  <2> HIDE DEF claim
  <2>5. /\ upserted \in Seq(Claims) /\ Len(upserted) = Len(claims)
        /\ \A i \in 1..Len(claims) : upserted[i] = IF i = n THEN claim ELSE claims[i]
    BY <2>1, <2>2, <2>4, ExceptSeq
  <2> HIDE DEF upserted
  <2>6. DOMAIN upserted = 1..Len(claims)
    BY <2>5, LenProperties
  <2>7. ASSUME NEW i \in DOMAIN upserted
        PROVE  /\ upserted[i].number = i
               /\ i < Len(upserted) => upserted[i].status = "SUBMITTED"
               /\ upserted[i].status = "SUBMITTED" =>
                    [number |-> i, amount |-> upserted[i].amount] \in entries
    BY <2>2, <2>4, <2>5, <2>6 DEF SoundClaims
  <2>8. QED
    BY <2>5, <2>7 DEF SoundClaims, upserted
<1>3. QED
  BY <1>1, <1>2, OpenIsLast

(* The payload of a sound snapshot names its last claim or none, and GAS   *)
(* holds the claims before it.                                             *)
LEMMA PayloadSound ==
  ASSUME NEW state \in States, NEW entries, SoundClaims(state.claims, entries)
  PROVE  SoundPayload(Payload(state), entries)
<1>1. CASE Open(state.claims) = {}
  BY <1>1 DEF Payload, NoClaim, SoundPayload
<1>2. CASE Open(state.claims) # {}
  <2>1. /\ First(Open(state.claims)) = Len(state.claims)
        /\ Len(state.claims) \in DOMAIN state.claims
    BY <1>2, OpenIsLast DEF States, Open
  <2>2. Payload(state).number = Len(state.claims)
    BY <1>2, <2>1 DEF Payload, SoundClaims
  <2>3. ASSUME NEW m \in 1..(Len(state.claims) - 1) PROVE m \in NumbersOf(entries)
    <3>1. m \in DOMAIN state.claims /\ m < Len(state.claims)
      BY DEF States
    <3>2. [number |-> m, amount |-> state.claims[m].amount] \in entries
      BY <3>1 DEF SoundClaims
    <3>3. QED
      BY <3>2 DEF NumbersOf
  <2>4. QED
    BY <2>2, <2>3 DEF SoundPayload
<1>3. QED
  BY <1>1, <1>2

(* The payload of a state with sound claims is well typed. *)
LEMMA PayloadType ==
  ASSUME NEW state \in States, NEW entries, SoundClaims(state.claims, entries)
  PROVE  Payload(state) \in Payloads
<1>1. CASE Open(state.claims) = {}
  BY <1>1, MaxClaimsAssumption DEF Payload, NoClaim, Payloads
<1>2. CASE Open(state.claims) # {}
  <2>1. /\ First(Open(state.claims)) = Len(state.claims)
        /\ Len(state.claims) \in DOMAIN state.claims
    BY <1>2, OpenIsLast DEF States, Open
  <2>2. state.claims[Len(state.claims)] \in Claims
    BY <2>1 DEF States
  <2>3. QED
    BY <1>2, <2>1, <2>2, MaxClaimsAssumption DEF Payload, Payloads, Claims
<1>3. QED
  BY <1>1, <1>2

(* Marking the claim GAS accepted keeps the claims sound. *)
LEMMA MarkedSound ==
  ASSUME NEW state \in States, NEW entries, SoundClaims(state.claims, entries),
         Payload(state) \in entries
  PROVE  Marked(state) \in States /\ SoundClaims(Marked(state).claims, entries)
<1> DEFINE claims == state.claims
           number == Payload(state).number
           marked == MarkClaimSubmitted(claims, number)
<1>1. claims \in Seq(Claims)
  BY DEF States
<1>2. DOMAIN claims = 1..Len(claims) /\ \A i \in 1..Len(claims) : claims[i] \in Claims
  BY <1>1, LenProperties, ElementOfSeq
<1>3. /\ marked \in Seq(Claims) /\ Len(marked) = Len(claims)
      /\ \A i \in DOMAIN claims :
           /\ marked[i].number = claims[i].number /\ marked[i].amount = claims[i].amount
           /\ marked[i].status = IF claims[i].number = number THEN "SUBMITTED" ELSE claims[i].status
  <2>1. ASSUME NEW i \in 1..Len(claims)
        PROVE  /\ marked[i] \in Claims
               /\ marked[i].number = claims[i].number /\ marked[i].amount = claims[i].amount
               /\ marked[i].status =
                    IF claims[i].number = number THEN "SUBMITTED" ELSE claims[i].status
    BY <1>2 DEF MarkClaimSubmitted, Claims
  <2>2. marked = [i \in 1..Len(claims) |-> marked[i]] /\ Len(claims) \in Nat
    BY <1>1, <1>2, LenProperties DEF MarkClaimSubmitted
  <2> HIDE DEF marked
  <2>3. marked \in [1..Len(claims) -> Claims]
    BY <2>1, <2>2
  <2>4. marked \in Seq(Claims) /\ Len(marked) = Len(claims)
    BY <2>2, <2>3
  <2>5. QED
    BY <1>2, <2>1, <2>4
<1>4. ASSUME NEW i \in DOMAIN claims, claims[i].number = number
      PROVE  [number |-> i, amount |-> claims[i].amount] \in entries
  <2>1. CASE claims[i].status = "SUBMITTED"
    BY <2>1 DEF SoundClaims
  <2>2. CASE claims[i].status # "SUBMITTED"
    <3>1. i \in Open(claims)
      BY <2>2 DEF Open
    <3>2. First(Open(claims)) = i
      BY <1>1, <3>1, OpenIsLast
    <3>3. Payload(state) = [number |-> i, amount |-> claims[i].amount]
      BY <3>1, <3>2 DEF Payload, SoundClaims
    <3>4. QED
      BY <3>3
  <2>3. QED
    BY <2>1, <2>2
<1>5. SoundClaims(marked, entries)
  <2> HIDE DEF marked
  <2>1. DOMAIN marked = DOMAIN claims
    BY <1>2, <1>3, LenProperties
  <2>2. QED
    BY <1>3, <1>4, <2>1 DEF SoundClaims
<1>6. Marked(state) \in States /\ Marked(state).claims = marked
  BY <1>3 DEF Marked, States, Status
<1>7. QED
  BY <1>5, <1>6

-----------------------------------------------------------------------------
(* The inductive invariant. *)

Inductive == TypeOK /\ IInv

(* The invariant holds at first. *)
LEMMA InductiveInit == Init => Inductive
<1> SUFFICES ASSUME Init PROVE Inductive
  OBVIOUS
<1>1. Accepted \in States /\ Accepted.claims = <<>>
  BY DEF Accepted, States, Status
<1>2. SoundClaims(<<>>, {})
  BY DEF SoundClaims
<1>3. TypeOK
  BY <1>1 DEF Init, TypeOK, Idle, Pcs
<1>4. IInv
  BY <1>1, <1>2 DEF Init, IInv, Idle
<1>5. QED
  BY <1>3, <1>4 DEF Inductive

(* What a step of one request has to show: the document it leaves and the  *)
(* request it moves are well typed and sound.                              *)
LEMMA InductiveKept ==
  ASSUME Inductive, NEW r \in Requests, NEW q \in RequestType,
         req' = [req EXCEPT ![r] = q],
         SoundClaims(q.ctx.claims, ledger'),
         q.pc = "marking" => Payload(q.ctx) \in ledger',
         doc' = doc \/ (doc' \in States /\ SoundClaims(doc'.claims, ledger')),
         ledger \subseteq ledger', ledger' \subseteq Payloads, inFlight' \subseteq Payloads,
         \A payload \in ledger' \cup inFlight' : SoundPayload(payload, ledger')
  PROVE  Inductive'
<1>1. TypeOK'
  BY DEF Inductive, TypeOK, RequestType
<1>2. SoundClaims(doc'.claims, ledger')
  BY SoundClaimsGrows DEF Inductive, IInv
<1>3. ASSUME NEW p \in Requests
      PROVE  /\ SoundClaims(req'[p].ctx.claims, ledger')
             /\ req'[p].pc = "marking" => Payload(req'[p].ctx) \in ledger'
  BY SoundClaimsGrows DEF Inductive, IInv, TypeOK
<1>4. QED
  BY <1>1, <1>2, <1>3 DEF Inductive, IInv

(* The same for a step that only ends the request, or moves it on without  *)
(* touching the ledger.                                                    *)
LEMMA InductiveFinish ==
  ASSUME Inductive, NEW r \in Requests, Finish(r), UNCHANGED <<ledger, inFlight>>,
         doc' = doc \/ (doc' \in States /\ SoundClaims(doc'.claims, ledger))
  PROVE  Inductive'
<1>1. Idle \in RequestType /\ SoundClaims(Idle.ctx.claims, ledger)
  BY DEF Idle, Accepted, RequestType, Pcs, States, Status, SoundClaims
<1>2. QED
  BY <1>1, InductiveKept DEF Finish, Inductive, TypeOK, IInv, Idle

(* The same for a step that moves the request on. *)
LEMMA InductiveGoto ==
  ASSUME Inductive, NEW r \in Requests, NEW pc \in Pcs \ {"marking"}, Goto(r, pc),
         UNCHANGED <<ledger, inFlight>>,
         doc' = doc \/ (doc' \in States /\ SoundClaims(doc'.claims, ledger))
  PROVE  Inductive'
<1> DEFINE q == [req[r] EXCEPT !.pc = pc]
<1>1. q \in RequestType /\ q.ctx = req[r].ctx /\ q.pc = pc /\ req' = [req EXCEPT ![r] = q]
  BY DEF Goto, Inductive, TypeOK, RequestType
<1>2. SoundClaims(q.ctx.claims, ledger')
  BY <1>1 DEF Inductive, IInv
<1> HIDE DEF q
<1>3. QED
  BY <1>1, <1>2, InductiveKept DEF Inductive, TypeOK, IInv

(* Every step keeps the invariant. *)
LEMMA InductiveStep == ASSUME Inductive, [Next]_vars PROVE Inductive'
<1>1. ASSUME NEW r \in Requests, Load(r) PROVE Inductive'
  <2>1. PICK kind \in {"start", "declaration"} :
          req' = [req EXCEPT ![r] = [pc |-> "loaded", kind |-> kind, ctx |-> doc]]
    BY <1>1 DEF Load
  <2>2. [pc |-> "loaded", kind |-> kind, ctx |-> doc] \in RequestType
    BY DEF Inductive, TypeOK, RequestType, Pcs
  <2>3. QED
    BY <1>1, <2>1, <2>2, InductiveKept DEF Load, Inductive, TypeOK, IInv
<1>2. ASSUME NEW r \in Requests, Pipeline(r) PROVE Inductive'
  <2>1. Finish(r) \/ Goto(r, "handler") \/ Goto(r, "lookup")
    BY <1>2 DEF Pipeline, Inductive, TypeOK, States, Status
  <2>2. QED
    BY <1>2, <2>1, InductiveFinish, InductiveGoto DEF Pipeline, Pcs
<1>3. ASSUME NEW r \in Requests, GasLookup(r) PROVE Inductive'
  BY <1>3, InductiveFinish, InductiveGoto DEF GasLookup, Pcs
<1>4. ASSUME NEW r \in Requests, StartClaim(r) PROVE Inductive'
  <2>1. doc' = doc \/ (doc' \in States /\ SoundClaims(doc'.claims, ledger))
    BY <1>4 DEF StartClaim, PatchStatus, Written, Inductive, TypeOK, IInv, States, Status
  <2>2. QED
    BY <1>4, <2>1, InductiveFinish, InductiveGoto DEF StartClaim, Pcs
<1>5. ASSUME NEW r \in Requests, PersistCurrentClaim(r) PROVE Inductive'
  <2> DEFINE state == req[r].ctx
  <2>1. state \in States /\ state.claims \in Seq(Claims) /\ SoundClaims(state.claims, ledger)
    BY DEF Inductive, TypeOK, IInv, States
  <2>2. ASSUME NEW amount \in Amounts,
               Len(UpsertCurrentClaim(state.claims, amount)) <= MaxClaims,
               Save([state EXCEPT !.claims = UpsertCurrentClaim(state.claims, amount)])
        PROVE  doc' = doc \/ (doc' \in States /\ SoundClaims(doc'.claims, ledger))
    BY <2>1, <2>2, UpsertSound DEF Save, Written, States
  <2>3. doc' = doc \/ (doc' \in States /\ SoundClaims(doc'.claims, ledger))
    BY <1>5, <2>2 DEF PersistCurrentClaim
  <2>4. QED
    BY <1>5, <2>3, InductiveFinish DEF PersistCurrentClaim
<1>6. ASSUME NEW r \in Requests, Declare(r) PROVE Inductive'
  BY <1>6, InductiveGoto DEF Declare, Pcs
<1>7. ASSUME NEW r \in Requests, Submit(r) PROVE Inductive'
  <2> DEFINE payload == Payload(req[r].ctx)
  <2>1. req[r].ctx \in States /\ SoundClaims(req[r].ctx.claims, ledger)
    BY DEF Inductive, TypeOK, IInv
  <2>2. payload \in Payloads /\ SoundPayload(payload, ledger)
    BY <2>1, PayloadSound, PayloadType
  <2>3. CASE /\ ledger' = ledger \cup {payload}
             /\ Goto(r, "marking")
             /\ UNCHANGED inFlight
    <3> DEFINE q == [req[r] EXCEPT !.pc = "marking"]
    <3>1. q \in RequestType /\ q.ctx = req[r].ctx /\ req' = [req EXCEPT ![r] = q]
      BY <2>3 DEF Goto, Inductive, TypeOK, RequestType, Pcs
    <3>2. SoundClaims(q.ctx.claims, ledger') /\ Payload(q.ctx) \in ledger'
      BY <2>1, <2>3, <3>1, SoundClaimsGrows
    <3>3. \A p \in ledger' \cup inFlight' : SoundPayload(p, ledger')
      BY <2>2, <2>3, SoundPayloadGrows DEF Inductive, IInv
    <3> HIDE DEF q
    <3>4. QED
      BY <1>7, <2>2, <2>3, <3>1, <3>2, <3>3, InductiveKept DEF Submit, Inductive, TypeOK
  <2>4. CASE /\ inFlight' = inFlight \cup {payload}
             /\ Finish(r)
             /\ UNCHANGED ledger
    <3>1. Idle \in RequestType /\ SoundClaims(Idle.ctx.claims, ledger) /\ Idle.pc = "idle"
      BY DEF Idle, Accepted, RequestType, Pcs, States, Status, SoundClaims
    <3>2. inFlight' \subseteq Payloads /\ \A p \in ledger' \cup inFlight' : SoundPayload(p, ledger')
      BY <2>2, <2>4 DEF Inductive, TypeOK, IInv
    <3>3. QED
      BY <1>7, <2>4, <3>1, <3>2, InductiveKept DEF Submit, Finish, Inductive, TypeOK
  <2>5. QED
    BY <1>7, <2>3, <2>4 DEF Submit
<1>8. ASSUME NEW r \in Requests, MarkSubmitted(r) PROVE Inductive'
  <2>1. /\ req[r].ctx \in States /\ SoundClaims(req[r].ctx.claims, ledger)
        /\ Payload(req[r].ctx) \in ledger
    BY <1>8 DEF MarkSubmitted, Inductive, TypeOK, IInv
  <2>2. doc' = doc \/ (doc' \in States /\ SoundClaims(doc'.claims, ledger))
    BY <1>8, <2>1, MarkedSound DEF MarkSubmitted, Save, Written
  <2>3. QED
    BY <1>8, <2>2, InductiveFinish DEF MarkSubmitted
<1>9. ASSUME NEW payload \in inFlight, Land(payload) PROVE Inductive'
  <2>1. /\ ledger' = ledger \cup {payload} /\ inFlight' \subseteq inFlight
        /\ UNCHANGED <<doc, req>>
    BY <1>9 DEF Land
  <2>2. \A p \in ledger' \cup inFlight' : SoundPayload(p, ledger')
    BY <1>9, <2>1, SoundPayloadGrows DEF Inductive, IInv
  <2>3. /\ SoundClaims(doc'.claims, ledger')
        /\ \A r \in Requests : SoundClaims(req'[r].ctx.claims, ledger')
    BY <2>1, SoundClaimsGrows DEF Inductive, IInv
  <2>4. QED
    BY <1>9, <2>1, <2>2, <2>3 DEF Inductive, TypeOK, IInv
<1>10. CASE UNCHANGED vars
  BY <1>10 DEF vars, Inductive, TypeOK, IInv
<1>11. QED
  BY <1>1, <1>2, <1>3, <1>4, <1>5, <1>6, <1>7, <1>8, <1>9, <1>10 DEF Next, Serve

(* It holds in every behaviour. *)
LEMMA InductiveHolds == Spec => []Inductive
  BY InductiveInit, InductiveStep, PTL DEF Spec

-----------------------------------------------------------------------------
(* The results. *)

(* Every reachable state is well typed. *)
THEOREM ClaimTypeCorrect == Spec => []TypeOK
<1>1. Inductive => TypeOK
  BY DEF Inductive
<1>2. QED
  BY <1>1, InductiveHolds, PTL

(* A claim that handleSuccessfulClaimSubmission marked is one GAS accepted,*)
(* with the amount shown.                                                  *)
THEOREM SubmittedClaimCorrect == Spec => []SubmittedClaimIsAccepted
<1>1. Inductive => SubmittedClaimIsAccepted
  BY DEF Inductive, IInv, SoundClaims, SubmittedClaimIsAccepted
<1>2. QED
  BY <1>1, InductiveHolds, PTL

(* upsertCurrentClaim never opens a second claim beside the current one,   *)
(* whichever snapshots it works on.                                        *)
THEOREM OneCurrentClaimCorrect == Spec => []OneCurrentClaim
<1>1. Inductive => OneCurrentClaim
  <2> SUFFICES ASSUME Inductive PROVE OneCurrentClaim
    OBVIOUS
  <2>1. doc.claims \in Seq(Claims) /\ SoundClaims(doc.claims, ledger)
    BY DEF Inductive, TypeOK, IInv, States
  <2>2. Open(doc.claims) \in {{}, {Len(doc.claims)}}
    BY <2>1, OpenIsLast
  <2>3. Cardinality({}) = 0 /\ Cardinality({Len(doc.claims)}) = 1
    BY FS_EmptySet, FS_Singleton
  <2>4. Cardinality(Open(doc.claims)) \in {0, 1}
    BY <2>2, <2>3
  <2>5. Cardinality(Open(doc.claims)) <= 1
    BY <2>4
  <2>6. QED
    BY <2>1, <2>5 DEF OneCurrentClaim, SoundClaims
<1>2. QED
  BY <1>1, InductiveHolds, PTL

(* GAS never holds a claim without the claims before it. *)
THEOREM ClaimsInOrderCorrect == Spec => []ClaimsInOrder
<1>1. Inductive => ClaimsInOrder
  <2> SUFFICES ASSUME Inductive, NEW n \in Numbers, NEW m \in 1..n PROVE m \in Numbers
    BY DEF ClaimsInOrder
  <2>1. PICK payload \in ledger : payload.number = n
    BY DEF Numbers, NumbersOf
  <2>2. n \in 0..MaxClaims
    BY <2>1 DEF Inductive, TypeOK, Payloads
  <2>3. CASE m = n
    BY <2>3
  <2>4. CASE m # n
    <3>1. m \in 1..(payload.number - 1)
      BY <2>1, <2>2, <2>4
    <3>2. QED
      BY <2>1, <3>1 DEF Inductive, IInv, SoundPayload, Numbers
  <2>5. QED
    BY <2>3, <2>4
<1>2. QED
  BY <1>1, InductiveHolds, PTL
-----------------------------------------------------------------------------
(* The claim journey implements the abstract ledger of claims.             *)

(* The first state is one of the ledger of claims. *)
LEMMA LedgerInit == Init => Ledger!Init
<1> SUFFICES ASSUME Init PROVE Ledger!Init
  OBVIOUS
<1>1. Open(<<>>) = {} /\ Accepted.claims = <<>> /\ Payload(Accepted) = NoClaim
  BY DEF Open, Accepted, Payload
<1>2. Pending = {}
  BY <1>1 DEF Init, Pending, Idle
<1>3. Closed(doc.claims) = {}
  BY <1>1 DEF Init, Closed
<1> QED BY <1>2, <1>3 DEF Init, Ledger!Init

(* What sound claims show as submitted may be shown. *)
LEMMA SoundIsShowable ==
  ASSUME NEW claims \in Seq(Claims), NEW entries, SoundClaims(claims, entries)
  PROVE  Ledger!Showable(Closed(claims), entries)
<1> DEFINE closed == DOMAIN claims \ Open(claims)
           at(i) == [number |-> i, amount |-> claims[i].amount]
<1>1. DOMAIN claims = 1..Len(claims) /\ Len(claims) \in Nat
  BY LenProperties
<1>2. \A i \in closed : claims[i].status = "SUBMITTED" /\ at(i) \in entries
  BY <1>1 DEF Open, SoundClaims
<1>3. Closed(claims) = {at(i) : i \in closed}
  BY DEF Closed
<1>4. ASSUME NEW i \in closed, NEW m \in 1..i PROVE m \in closed
  <2>1. m \in 1..Len(claims) /\ (m = i \/ m < Len(claims))
    BY <1>1
  <2>2. CASE m = i
    BY <2>2
  <2>3. CASE m < Len(claims)
    BY <1>1, <2>1, <2>3 DEF SoundClaims, Open
  <2> QED BY <2>1, <2>2, <2>3
<1>5. \A x \in Closed(claims) : \E i \in closed : x = at(i) /\ x.number = i
  BY <1>3
<1>6. \A i \in closed : at(i) \in Closed(claims) /\ at(i).number = i
  BY <1>3
<1> HIDE DEF closed, at
<1>7. Closed(claims) \subseteq entries /\ \A x, y \in Closed(claims) : x.number = y.number => x = y
  BY <1>2, <1>5
<1>8. Ledger!NumbersOf(Closed(claims)) = closed
  BY <1>5, <1>6 DEF Ledger!NumbersOf
<1> QED BY <1>4, <1>7, <1>8 DEF Ledger!Showable

(* A step that moves one request is a step of the ledger, if what it leaves*)
(* to be submitted was pending, or is the claim it puts in the document.   *)
LEMMA RequestImplements ==
  ASSUME Inductive, Inductive', NEW r \in Requests, NEW q, req' = [req EXCEPT ![r] = q],
         Payload(q.ctx) \in Pending \cup {NoClaim}, UNCHANGED <<ledger, inFlight>>
  PROVE  Ledger!Next
<1> DEFINE claim == Payload(doc')
<1>1. claim \in Payloads /\ SoundPayload(claim, ledger)
  BY PayloadSound, PayloadType DEF Inductive, TypeOK, IInv
<1>2. Pending' \subseteq Pending \cup {claim}
  BY DEF Pending, Inductive, TypeOK
<1>3. Ledger!Showable(Closed(doc'.claims), ledger)
  BY SoundIsShowable DEF Inductive, TypeOK, IInv, States
<1>4. Ledger!Open(claim)
  BY <1>1, <1>2, <1>3 DEF Ledger!Open, SoundPayload, NumbersOf, Ledger!NumbersOf
<1> QED BY <1>1, <1>4 DEF Ledger!Next

(* A step that accepts a claim it holds is one too. *)
LEMMA AcceptImplements ==
  ASSUME Inductive, NEW claim \in Payloads, claim \in Pending \cup {NoClaim},
         ledger' = ledger \cup {claim}, inFlight' \subseteq inFlight, doc' = doc,
         \A r \in Requests : req'[r].ctx = req[r].ctx
  PROVE  Ledger!Next
<1>1. Pending' \subseteq Pending
  BY DEF Pending
<1>2. Ledger!Accept(claim)
  BY <1>1 DEF Ledger!Accept
<1> QED BY <1>2 DEF Ledger!Next

(* Every step is one of the ledger of claims, or leaves it as it is.       *)
LEMMA StepImplements ==
  ASSUME Inductive, Inductive', [Next]_vars
  PROVE  [Ledger!Next]_<<ledger, Pending, Closed(doc.claims)>>
<1>1. Payload(doc) \in Pending \cup {NoClaim}
      /\ \A r \in Requests : Payload(req[r].ctx) \in Pending \cup {NoClaim}
  BY DEF Pending
<1>2. ASSUME NEW r \in Requests, Finish(r), UNCHANGED <<ledger, inFlight>> PROVE Ledger!Next
  <2>1. Payload(Idle.ctx) = NoClaim
    BY DEF Idle, Accepted, Payload, Open
  <2> QED BY <1>2, <2>1, RequestImplements DEF Finish
<1>3. ASSUME NEW r \in Requests, NEW pc, Goto(r, pc), UNCHANGED <<ledger, inFlight>>
      PROVE  Ledger!Next
  <2>1. [req[r] EXCEPT !.pc = pc].ctx = req[r].ctx /\ req' = [req EXCEPT ![r] = [req[r] EXCEPT !.pc = pc]]
    BY <1>3 DEF Goto, Inductive, TypeOK
  <2> QED BY <1>1, <1>3, <2>1, RequestImplements
<1>4. ASSUME NEW r \in Requests, Load(r) PROVE Ledger!Next
  <2>1. PICK kind \in {"start", "declaration"} :
          req' = [req EXCEPT ![r] = [pc |-> "loaded", kind |-> kind, ctx |-> doc]]
    BY <1>4 DEF Load
  <2>2. UNCHANGED <<ledger, inFlight>>
    BY <1>4 DEF Load
  <2> QED BY <1>1, <2>1, <2>2, RequestImplements
<1>5. ASSUME NEW r \in Requests, Submit(r) PROVE Ledger!Next
  <2> DEFINE payload == Payload(req[r].ctx)
  <2>1. payload \in Payloads
    BY PayloadType DEF Inductive, TypeOK, IInv
  <2>2. CASE ledger' = ledger \cup {payload} /\ Goto(r, "marking") /\ UNCHANGED inFlight
    <3>1. \A q \in Requests : req'[q].ctx = req[q].ctx
      BY <2>2 DEF Goto, Inductive, TypeOK
    <3> QED BY <1>1, <1>5, <2>1, <2>2, <3>1, AcceptImplements DEF Submit
  <2>3. CASE inFlight' = inFlight \cup {payload} /\ Finish(r) /\ UNCHANGED ledger
    <3>1. Payload(Idle.ctx) = NoClaim
      BY DEF Idle, Accepted, Payload, Open
    <3>2. doc' = doc /\ req' = [req EXCEPT ![r] = Idle]
      BY <1>5, <2>3 DEF Submit, Finish
    <3>3. Pending' \subseteq Pending
      BY <2>3, <3>1, <3>2 DEF Pending, Inductive, TypeOK
    <3>4. Ledger!Showable(Closed(doc'.claims), ledger)
      BY <2>3, SoundIsShowable DEF Inductive, TypeOK, IInv, States
    <3> QED BY <2>3, <3>3, <3>4 DEF Ledger!Next, Ledger!Show
  <2> QED BY <1>5, <2>2, <2>3 DEF Submit
<1>6. ASSUME NEW payload \in inFlight, Land(payload) PROVE Ledger!Next
  <2>1. payload \in Payloads /\ payload \in Pending \cup {NoClaim}
    BY <1>6 DEF Inductive, TypeOK, Pending
  <2> QED BY <1>6, <2>1, AcceptImplements DEF Land
<1>7. ASSUME NEW r \in Requests, Pipeline(r) PROVE Ledger!Next
  <2>1. Finish(r) \/ Goto(r, "handler") \/ Goto(r, "lookup")
    BY <1>7 DEF Pipeline, Inductive, TypeOK, States, Status
  <2> QED BY <1>2, <1>3, <1>7, <2>1 DEF Pipeline
<1>8. ASSUME NEW r \in Requests,
             \/ GasLookup(r) \/ StartClaim(r) \/ PersistCurrentClaim(r)
             \/ Declare(r) \/ MarkSubmitted(r)
      PROVE  Ledger!Next
  BY <1>2, <1>3, <1>8 DEF GasLookup, StartClaim, PersistCurrentClaim, Declare, MarkSubmitted
<1>9. CASE UNCHANGED vars
  BY <1>9 DEF vars, Pending
<1> QED BY <1>4, <1>5, <1>6, <1>7, <1>8, <1>9 DEF Next, Serve

(* Whatever requests overlap, amounts change and writes are lost, opening  *)
(* and submitting claims (upsertCurrentClaim, submitClaim and              *)
(* handleSuccessfulClaimSubmission) do to the ledger of claims only what   *)
(* ClaimLedger allows.                                                     *)
THEOREM ClaimLedgerImplemented == Spec => ImplementsClaimLedger
  BY LedgerInit, StepImplements, InductiveHolds, PTL DEF Spec, ImplementsClaimLedger, Ledger!Spec
=============================================================================
