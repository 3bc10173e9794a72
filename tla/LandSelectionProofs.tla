------------------------ MODULE LandSelectionProofs -------------------------
(***************************************************************************)
(* What GAS receives was validated, what is shown as submitted is what it  *)
(* received, and neither empty parcels nor payments without parcels are    *)
(* left behind, for any parcels, actions and number of requests and any    *)
(* pattern of lost writes.                                                 *)
(***************************************************************************)
EXTENDS LandSelection, TLAPS

RequestType ==
  [pc : {"idle", "loaded", "failed", "submitting", "recording"}, ctx : Documents, rules : Selections]

-----------------------------------------------------------------------------
(* Selections and the operations on them. *)

(* What a selection maps a parcel to. *)
LEMMA SelectionMember ==
  ASSUME NEW land
  PROVE  land \in Selections <=> \E chosen \in SUBSET Parcels : land \in [chosen -> SUBSET Actions]
  BY DEF Selections

(* What makes a selection. *)
LEMMA SelectionType ==
  ASSUME NEW land \in Selections
  PROVE  DOMAIN land \subseteq Parcels /\ land \in [DOMAIN land -> SUBSET Actions]
  BY SelectionMember

(* The empty selection is one. *)
LEMMA NoneSelectedType == NoneSelected \in Selections /\ DOMAIN NoneSelected = {}
<1>1. NoneSelected \in [{} -> SUBSET Actions]
  BY DEF NoneSelected
<1>2. QED
  BY <1>1, SelectionMember

(* What is selected of a document is a selection. *)
LEMMA SelectedType ==
  ASSUME NEW land \in Selections \cup {NoLand}
  PROVE  Selected(land) \in Selections
  BY NoneSelectedType DEF Selected

(* There is one selection without parcels. *)
LEMMA EmptySelection ==
  ASSUME NEW land \in Selections, DOMAIN land = {}
  PROVE  land = NoneSelected
<1>1. land = [p \in {} |-> land[p]]
  BY SelectionType
<1>2. QED
  BY <1>1 DEF NoneSelected

(* The snapshots requests work on: of the right type, sound, not submitted.*)
Draft(state) == state \in Documents /\ Sound(state) /\ state.status = "DRAFT"

(* The document of a started application is a sound draft. *)
LEMMA StartedDraft == Draft(Started)
<1>1. Started \in Documents
  BY DEF Started, Documents
<1>2. Selected(Started.land) = NoneSelected
  BY DEF Started, Selected
<1>3. Sound(Started)
  BY <1>2, NoneSelectedType DEF Started, Sound, Priced, Filled, PricesNothing
<1>4. QED
  BY <1>1, <1>3 DEF Draft, Started

(* Adding actions to a parcel. *)
LEMMA BuildNewStateDraft ==
  ASSUME NEW state, Draft(state), NEW parcel \in Parcels, NEW codes \in SUBSET Actions,
         parcel \in Steady => codes # {}
  PROVE  Draft(BuildNewState(state, parcel, codes))
<1> DEFINE land == Selected(state.land)
           new == [p \in DOMAIN land \cup {parcel} |-> IF p = parcel THEN codes ELSE land[p]]
           built == BuildNewState(state, parcel, codes)
<1>1. state \in Documents /\ Sound(state) /\ state.status = "DRAFT"
  BY DEF Draft
<1>2. land \in Selections /\ DOMAIN land \subseteq Parcels /\ land \in [DOMAIN land -> SUBSET Actions]
  BY <1>1, SelectedType, SelectionType DEF Documents
<1>3. new \in [DOMAIN land \cup {parcel} -> SUBSET Actions]
  BY <1>2
<1>4. new \in Selections
  BY <1>2, <1>3, SelectionMember
<1>5. built = [state EXCEPT !.land = new]
  BY DEF BuildNewState
<1> HIDE DEF new
<1>6. built \in Documents /\ built.land = new /\ built.payment = state.payment /\ built.status = "DRAFT"
  BY <1>1, <1>4, <1>5 DEF Documents
<1>7. Selected(built.land) = new
  BY <1>4, <1>6, AbsenceAssumption DEF Selected
<1>8. DOMAIN new # {} /\ (\A p \in Steady \cap DOMAIN new : new[p] # {})
  BY <1>1 DEF new, Sound, Filled
<1>9. Sound(built)
  BY <1>7, <1>8 DEF Sound, Priced, Filled
<1>10. QED
  BY <1>6, <1>9 DEF Draft

(* A document with fewer parcels, its last parcel taking the payment along.*)
LEMMA DropEmptyLandDraft ==
  ASSUME NEW state, Draft(state), NEW land \in Selections,
         \A p \in Steady \cap DOMAIN land : land[p] # {}
  PROVE  Draft(DropEmptyLand([state EXCEPT !.land = land]))
<1> DEFINE left == [state EXCEPT !.land = land]
           dropped == DropEmptyLand(left)
<1>1. state \in Documents /\ state.status = "DRAFT"
  BY DEF Draft
<1>2. left \in Documents /\ left.land = land /\ left.status = "DRAFT" /\ left.payment = state.payment
  BY <1>1 DEF Documents
<1> HIDE DEF left
<1>3. CASE DOMAIN land = {}
  <2>1. dropped = [left EXCEPT !.land = NoLand, !.payment = NoPayment]
    BY <1>2, <1>3 DEF DropEmptyLand
  <2>2. /\ dropped \in Documents /\ dropped.status = "DRAFT"
        /\ dropped.land = NoLand /\ dropped.payment = NoPayment
    BY <1>2, <2>1 DEF Documents
  <2>3. Sound(dropped)
    BY <2>2, NoneSelectedType DEF Sound, Priced, Filled, Selected, PricesNothing
  <2>4. QED
    BY <2>2, <2>3 DEF Draft, left
<1>4. CASE DOMAIN land # {}
  <2>1. dropped = left
    BY <1>2, <1>4 DEF DropEmptyLand
  <2>2. Selected(left.land) = land
    BY <1>2, AbsenceAssumption DEF Selected
  <2>3. Sound(left)
    BY <1>4, <2>2 DEF Sound, Priced, Filled
  <2>4. QED
    BY <1>2, <2>1, <2>3 DEF Draft, left
<1>5. QED
  BY <1>3, <1>4

(* Removing a parcel keeps a draft sound. *)
LEMMA DeleteParcelDraft ==
  ASSUME NEW state, Draft(state), state.land # NoLand, NEW parcel
  PROVE  Draft(DeleteParcel(state, parcel))
<1> DEFINE land == state.land
           kept == Keep(land, DOMAIN land \ {parcel})
<1>1. land \in Selections /\ DOMAIN land \subseteq Parcels /\ land \in [DOMAIN land -> SUBSET Actions]
  BY SelectionType DEF Draft, Documents
<1>2. kept \in [DOMAIN land \ {parcel} -> SUBSET Actions]
  BY <1>1 DEF Keep
<1>3. kept \in Selections
  BY <1>1, <1>2, SelectionMember
<1>4. \A p \in Steady \cap DOMAIN kept : kept[p] # {}
  BY DEF Draft, Sound, Filled, Selected, Keep
<1>5. DeleteParcel(state, parcel) = DropEmptyLand([state EXCEPT !.land = kept])
  BY DEF DeleteParcel
<1> HIDE DEF kept
<1>6. QED
  BY <1>3, <1>4, <1>5, DropEmptyLandDraft

(* So does removing an action. *)
LEMMA DeleteActionDraft ==
  ASSUME NEW state, Draft(state), state.land # NoLand,
         NEW parcel \in DOMAIN state.land, NEW code \in state.land[parcel]
  PROVE  Draft(DeleteAction(state, parcel, code))
<1> DEFINE land == state.land
           new == [land EXCEPT ![parcel] = @ \ {code}]
           left == [state EXCEPT !.land = new]
<1>1. CASE land[parcel] = {code}
  BY <1>1, DeleteParcelDraft DEF DeleteAction
<1>2. CASE land[parcel] # {code}
  <2>1. land \in Selections /\ DOMAIN land \subseteq Parcels /\ land \in [DOMAIN land -> SUBSET Actions]
    BY SelectionType DEF Draft, Documents
  <2>2. new \in [DOMAIN land -> SUBSET Actions] /\ new[parcel] = land[parcel] \ {code}
    BY <2>1
  <2>3. new \in Selections
    BY <2>1, <2>2, SelectionMember
  <2>4. \A p \in Steady \cap DOMAIN new : new[p] # {}
    <3>1. new[parcel] # {}
      BY <1>2, <2>2
    <3>2. \A p \in Steady \cap DOMAIN land : land[p] # {}
      BY DEF Draft, Sound, Filled, Selected
    <3>3. QED
      BY <2>1, <3>1, <3>2
  <2>5. DeleteAction(state, parcel, code) = left
    BY <1>2 DEF DeleteAction
  <2>6. DOMAIN new # {}
    BY <2>2
  <2> HIDE DEF new
  <2>7. left.land = new
    BY DEF Draft, Documents
  <2> HIDE DEF left
  <2>8. DropEmptyLand(left) = left
    BY <2>6, <2>7 DEF DropEmptyLand
  <2>9. QED
    BY <2>3, <2>4, <2>5, <2>8, DropEmptyLandDraft DEF left
<1>3. QED
  BY <1>1, <1>2

(* A payment for the selection a document has, or none. *)
LEMMA PaymentDraft ==
  ASSUME NEW state, Draft(state), NEW payment \in {NoPayment, Selected(state.land)}
  PROVE  Draft([state EXCEPT !.payment = payment])
<1> DEFINE priced == [state EXCEPT !.payment = payment]
<1>1. Selected(state.land) \in Selections
  BY SelectedType DEF Draft, Documents
<1>2. /\ priced \in Documents /\ priced.status = "DRAFT"
      /\ priced.land = state.land /\ priced.payment = payment
  BY <1>1 DEF Draft, Documents
<1> HIDE DEF priced
<1>3. DOMAIN Selected(state.land) = {} => PricesNothing(payment)
  BY <1>1, EmptySelection DEF PricesNothing
<1>4. Sound(priced)
  BY <1>2, <1>3 DEF Draft, Sound, Priced, Filled
<1>5. QED
  BY <1>2, <1>4 DEF Draft, priced
-----------------------------------------------------------------------------
(* The inductive invariant. *)

Inductive == TypeOK /\ IInv

(* What the invariant says of one request. *)
SoundRequest(q, entries) ==
  /\ Draft(q.ctx)
  /\ q.pc \in {"submitting", "recording"} => q.rules = Selected(q.ctx.land)
  /\ q.pc = "recording" => Payload(q.ctx, q.rules) \in entries

(* What it says of the document. *)
SoundDocument(state, entries) ==
  /\ state \in Documents
  /\ Sound(state)
  /\ state.status = "SUBMITTED" =>
       \E payload \in entries : payload.land = Selected(state.land) /\ payload.payment = state.payment

(* The invariant, taken apart. *)
LEMMA InductiveParts ==
  Inductive <=>
    /\ SoundDocument(doc, ledger)
    /\ forms \subseteq Forms
    /\ ledger \subseteq Payloads /\ SubmittedIsValidated
    /\ req \in [Requests -> RequestType]
    /\ \A r \in Requests : SoundRequest(req[r], ledger)
<1>1. ASSUME Inductive PROVE \A r \in Requests : SoundRequest(req[r], ledger)
  BY <1>1 DEF Inductive, TypeOK, IInv, SoundRequest, Draft
<1>2. ASSUME Inductive
      PROVE  /\ SoundDocument(doc, ledger) /\ forms \subseteq Forms /\ ledger \subseteq Payloads
             /\ SubmittedIsValidated /\ req \in [Requests -> RequestType]
  BY <1>2 DEF Inductive, TypeOK, IInv, SoundDocument, SubmittedIsKept, RequestType
<1>3. ASSUME SoundDocument(doc, ledger), forms \subseteq Forms, ledger \subseteq Payloads,
             SubmittedIsValidated, req \in [Requests -> RequestType],
             \A r \in Requests : SoundRequest(req[r], ledger)
      PROVE  Inductive
  <2>1. TypeOK
    BY <1>3 DEF TypeOK, SoundDocument, RequestType
  <2>2. IInv
    BY <1>3 DEF IInv, SoundDocument, SubmittedIsKept, SoundRequest, Draft
  <2>3. QED
    BY <2>1, <2>2 DEF Inductive
<1>4. QED
  BY <1>1, <1>2, <1>3

(* A slot that serves nothing is well typed and sound. *)
LEMMA IdleSound == Idle \in RequestType /\ \A entries : SoundRequest(Idle, entries)
  BY StartedDraft, NoneSelectedType DEF Idle, RequestType, SoundRequest, Draft

(* The invariant holds at first. *)
LEMMA InductiveInit == Init => Inductive
<1> SUFFICES ASSUME Init PROVE Inductive
  OBVIOUS
<1>1. SoundDocument(doc, ledger)
  BY StartedDraft DEF Init, SoundDocument, Draft
<1>2. req \in [Requests -> RequestType] /\ \A r \in Requests : SoundRequest(req[r], ledger)
  BY IdleSound DEF Init
<1>3. QED
  BY <1>1, <1>2, InductiveParts DEF Init, SubmittedIsValidated

(* What a step of one request has to show: the request it moves, the       *)
(* document it leaves and the ledger it adds to are sound.                 *)
LEMMA InductiveKept ==
  ASSUME Inductive, NEW r \in Requests, NEW q \in RequestType,
         req' = [req EXCEPT ![r] = q], SoundRequest(q, ledger'),
         doc' = doc \/ SoundDocument(doc', ledger'),
         forms' \subseteq Forms,
         ledger \subseteq ledger', ledger' \subseteq Payloads, SubmittedIsValidated'
  PROVE  Inductive'
<1>1. SoundDocument(doc', ledger')
  BY InductiveParts DEF SoundDocument
<1>2. req' \in [Requests -> RequestType]
  BY InductiveParts
<1>3. \A p \in Requests : SoundRequest(req'[p], ledger')
  BY InductiveParts DEF SoundRequest
<1>4. TypeOK'
  BY <1>1, <1>2 DEF TypeOK, SoundDocument, RequestType
<1>5. IInv'
  BY <1>1, <1>3 DEF IInv, SoundDocument, SubmittedIsKept, SoundRequest, Draft
<1>6. QED
  BY <1>4, <1>5 DEF Inductive

(* A draft is a sound document whatever GAS holds. *)
LEMMA DraftSound ==
  ASSUME NEW state, Draft(state), NEW entries
  PROVE  SoundDocument(state, entries)
  BY DEF Draft, SoundDocument

(* What a save leaves: what was saved, or what was there. *)
LEMMA SaveCases ==
  ASSUME NEW state, Save(state)
  PROVE  doc' = state \/ doc' = doc
  BY DEF Save, Written

(* A request that ends with the save of a draft, or with no save at all. *)
LEMMA FinishWithDraft ==
  ASSUME Inductive, NEW r \in Requests, Finish(r),
         doc' = doc \/ Draft(doc'), forms' \subseteq Forms, UNCHANGED ledger
  PROVE  Inductive'
<1>1. SubmittedIsValidated' /\ ledger' \subseteq Payloads
  BY InductiveParts DEF SubmittedIsValidated
<1>2. doc' = doc \/ SoundDocument(doc', ledger')
  BY DraftSound
<1>3. QED
  BY <1>1, <1>2, IdleSound, InductiveKept DEF Finish

(* A request that moves on without touching anything else. *)
LEMMA MovesOn ==
  ASSUME Inductive, NEW r \in Requests, NEW pc \in {"failed", "loaded"}, Goto(r, pc),
         UNCHANGED <<doc, forms, ledger>>
  PROVE  Inductive'
<1> DEFINE q == [req[r] EXCEPT !.pc = pc]
<1>1. req[r] \in RequestType /\ SoundRequest(req[r], ledger)
  BY InductiveParts
<1>2. q \in RequestType /\ q.pc = pc /\ q.ctx = req[r].ctx
  BY <1>1 DEF RequestType
<1>3. req' = [req EXCEPT ![r] = q]
  BY DEF Goto
<1> HIDE DEF q
<1>4. SoundRequest(q, ledger')
  BY <1>1, <1>2 DEF SoundRequest
<1>5. SubmittedIsValidated' /\ ledger' \subseteq Payloads /\ forms' \subseteq Forms
  BY InductiveParts DEF SubmittedIsValidated
<1>6. QED
  BY <1>2, <1>3, <1>4, <1>5, InductiveKept

(* A form is one of the forms. *)
LEMMA FormTypes ==
  ASSUME NEW state, Draft(state)
  PROVE  Offered(state) \subseteq Forms /\ \A p \in Parcels : ActionsForm(p) \in Forms
<1>1. /\ Selected(state.land) \in [DOMAIN Selected(state.land) -> SUBSET Actions]
      /\ DOMAIN Selected(state.land) \subseteq Parcels
  BY SelectedType, SelectionType DEF Draft, Documents
<1>2. QED
  BY <1>1 DEF Offered, Forms

-----------------------------------------------------------------------------
(* Every step preserves it. *)

(* A request that is being served holds a sound draft. *)
LEMMA ServingDraft ==
  ASSUME Inductive, NEW r \in Requests
  PROVE  Draft(req[r].ctx) /\ forms \subseteq Forms
  BY InductiveParts DEF SoundRequest

(* Load keeps the invariant. *)
LEMMA LoadKeeps == ASSUME Inductive, NEW r \in Requests, Load(r) PROVE Inductive'
<1> DEFINE q == [Idle EXCEPT !.pc = "loaded", !.ctx = doc]
<1>1. Draft(doc)
  BY InductiveParts DEF Load, SoundDocument, Draft
<1>2. q \in RequestType /\ q.pc = "loaded" /\ q.ctx = doc
  BY <1>1, IdleSound DEF RequestType, Draft, Idle
<1>3. req' = [req EXCEPT ![r] = q]
  BY DEF Load
<1> HIDE DEF q
<1>4. SoundRequest(q, ledger')
  BY <1>1, <1>2 DEF SoundRequest
<1>5. /\ SubmittedIsValidated' /\ ledger' \subseteq Payloads /\ forms' \subseteq Forms
      /\ doc' = doc /\ ledger' = ledger
  BY InductiveParts DEF SubmittedIsValidated, Load
<1>6. QED
  BY <1>2, <1>3, <1>4, <1>5, InductiveKept

(* ShowForm keeps the invariant. *)
LEMMA ShowFormKeeps == ASSUME Inductive, NEW r \in Requests, ShowForm(r) PROVE Inductive'
<1>1. forms' \subseteq Forms
  BY ServingDraft, FormTypes DEF ShowForm
<1>2. QED
  BY <1>1, FinishWithDraft DEF ShowForm

(* MapPage keeps the invariant. *)
LEMMA MapPageKeeps == ASSUME Inductive, NEW r \in Requests, MapPage(r) PROVE Inductive'
<1> DEFINE ctx == req[r].ctx
           emptied == [ctx EXCEPT !.land = NoneSelected]
<1>1. Draft(ctx)
  BY ServingDraft
<1>2. SingleParcel => Draft(emptied)
  <2>1. /\ emptied \in Documents /\ emptied.land = NoneSelected /\ emptied.status = "DRAFT"
    BY <1>1, NoneSelectedType DEF Draft, Documents
  <2>2. Selected(emptied.land) = NoneSelected
    BY <2>1 DEF Selected
  <2>3. SingleParcel => Sound(emptied)
    BY <2>2, NoneSelectedType DEF Sound, Filled
  <2>4. QED
    BY <2>1, <2>3 DEF Draft
<1>3. forms' \subseteq Forms
  BY <1>1, ServingDraft, FormTypes DEF MapPage
<1>4. doc' = doc \/ Draft(doc')
  <2>1. CASE Save(IF SingleParcel THEN emptied ELSE ctx)
    BY <1>1, <1>2, <2>1, SaveCases
  <2>2. QED
    BY <2>1 DEF MapPage
<1>5. QED
  BY <1>3, <1>4, FinishWithDraft DEF MapPage

(* SelectActions keeps the invariant. *)
LEMMA SelectActionsKeeps == ASSUME Inductive, NEW r \in Requests, SelectActions(r) PROVE Inductive'
<1>1. Draft(req[r].ctx) /\ forms \subseteq Forms
  BY ServingDraft
<1>2. ASSUME NEW parcel \in Parcels, NEW chosen \in (SUBSET Actions) \ {{}},
             NEW listed \in IF parcel \in Steady THEN {chosen} ELSE SUBSET chosen,
             Save(BuildNewState(req[r].ctx, parcel, listed))
      PROVE  doc' = doc \/ Draft(doc')
  <2>1. listed \in SUBSET Actions /\ (parcel \in Steady => listed # {})
    <3>1. CASE parcel \in Steady
      BY <3>1
    <3>2. CASE parcel \notin Steady
      BY <3>2
    <3>3. QED
      BY <3>1, <3>2, FlagsAssumption
  <2>2. Draft(BuildNewState(req[r].ctx, parcel, listed))
    BY <1>1, <2>1, BuildNewStateDraft
  <2>3. QED
    BY <1>2, <2>2, SaveCases
<1>3. doc' = doc \/ Draft(doc')
  BY <1>2 DEF SelectActions
<1>4. QED
  BY <1>1, <1>3, FinishWithDraft DEF SelectActions

(* RemoveParcel keeps the invariant. *)
LEMMA RemoveParcelKeeps == ASSUME Inductive, NEW r \in Requests, RemoveParcel(r) PROVE Inductive'
<1>1. Draft(req[r].ctx) /\ forms \subseteq Forms
  BY ServingDraft
<1>2. PICK parcel \in Parcels :
        IF req[r].ctx.land = NoLand
          THEN Goto(r, "failed") /\ UNCHANGED doc
          ELSE Finish(r) /\ Save(DeleteParcel(req[r].ctx, parcel))
  BY DEF RemoveParcel
<1>3. CASE req[r].ctx.land = NoLand
  BY <1>2, <1>3, MovesOn DEF RemoveParcel
<1>4. CASE req[r].ctx.land # NoLand
  <2>1. doc' = doc \/ Draft(doc')
    BY <1>1, <1>2, <1>4, DeleteParcelDraft, SaveCases
  <2>2. QED
    BY <1>1, <1>2, <1>4, <2>1, FinishWithDraft DEF RemoveParcel
<1>5. QED
  BY <1>3, <1>4

(* RemoveAction keeps the invariant. *)
LEMMA RemoveActionKeeps == ASSUME Inductive, NEW r \in Requests, RemoveAction(r) PROVE Inductive'
<1> DEFINE ctx == req[r].ctx
<1>1. Draft(ctx) /\ forms \subseteq Forms
  BY ServingDraft
<1>2. CASE ctx.land = NoLand
  BY <1>2, MovesOn DEF RemoveAction
<1>3. CASE ctx.land # NoLand
  <2>1. ASSUME NEW parcel \in DOMAIN ctx.land, NEW code \in ctx.land[parcel],
               Save(DeleteAction(ctx, parcel, code))
        PROVE  doc' = doc \/ Draft(doc')
    BY <1>1, <1>3, <2>1, DeleteActionDraft, SaveCases
  <2>2. Finish(r) /\ (doc' = doc \/ Draft(doc'))
    BY <1>3, <2>1 DEF RemoveAction
  <2>3. QED
    BY <1>1, <2>2, FinishWithDraft DEF RemoveAction
<1>4. QED
  BY <1>2, <1>3

(* ReportFailure keeps the invariant. *)
LEMMA ReportFailureKeeps == ASSUME Inductive, NEW r \in Requests, ReportFailure(r) PROVE Inductive'
  BY ServingDraft, FinishWithDraft DEF ReportFailure

(* ConfirmPage keeps the invariant. *)
LEMMA ConfirmPageKeeps == ASSUME Inductive, NEW r \in Requests, ConfirmPage(r) PROVE Inductive'
<1>1. Draft(req[r].ctx) /\ forms \subseteq Forms
  BY ServingDraft
<1>2. PICK payment \in {NoPayment, Selected(req[r].ctx.land)} :
        Save([req[r].ctx EXCEPT !.payment = payment])
  BY DEF ConfirmPage
<1>3. doc' = doc \/ Draft(doc')
  BY <1>1, <1>2, PaymentDraft, SaveCases
<1>4. QED
  BY <1>1, <1>3, FinishWithDraft DEF ConfirmPage

(* PaymentPage keeps the invariant. *)
LEMMA PaymentPageKeeps == ASSUME Inductive, NEW r \in Requests, PaymentPage(r) PROVE Inductive'
<1>1. Draft(req[r].ctx) /\ forms \subseteq Forms
  BY ServingDraft
<1>2. ASSUME NEW payment \in {NoPayment, Selected(req[r].ctx.land)},
             Save([req[r].ctx EXCEPT !.payment = payment])
      PROVE  doc' = doc \/ Draft(doc')
  BY <1>1, <1>2, PaymentDraft, SaveCases
<1>3. QED
  BY <1>1, <1>2, FinishWithDraft DEF PaymentPage

(* Validate keeps the invariant. *)
LEMMA ValidateKeeps == ASSUME Inductive, NEW r \in Requests, Validate(r) PROVE Inductive'
<1> DEFINE rules == Selected(req[r].ctx.land)
           q == [req[r] EXCEPT !.pc = "submitting", !.rules = rules]
<1>1. req[r] \in RequestType /\ Draft(req[r].ctx) /\ forms \subseteq Forms
  BY InductiveParts, ServingDraft
<1>2. CASE Finish(r)
  BY <1>1, <1>2, FinishWithDraft DEF Validate
<1>3. CASE req' = [req EXCEPT ![r] = q]
  <2>1. rules \in Selections
    BY <1>1, SelectedType DEF Draft, Documents
  <2>2. q \in RequestType /\ q.pc = "submitting" /\ q.rules = rules /\ q.ctx = req[r].ctx
    BY <1>1, <2>1 DEF RequestType
  <2> HIDE DEF q
  <2>3. SoundRequest(q, ledger')
    BY <1>1, <2>2 DEF SoundRequest
  <2>4. SubmittedIsValidated' /\ ledger' \subseteq Payloads /\ ledger' = ledger /\ doc' = doc /\ forms' = forms
    BY InductiveParts DEF SubmittedIsValidated, Validate
  <2>5. QED
    BY <1>1, <1>3, <2>2, <2>3, <2>4, InductiveKept
<1>4. QED
  <2>1. req' = [req EXCEPT ![r].pc = "submitting", ![r].rules = rules] \/ Finish(r)
    BY DEF Validate
  <2>2. req \in [Requests -> RequestType]
    BY InductiveParts
  <2>3. ASSUME req' = [req EXCEPT ![r].pc = "submitting", ![r].rules = rules]
        PROVE  req' = [req EXCEPT ![r] = q]
    BY <2>2, <2>3
  <2>4. QED
    BY <1>2, <1>3, <2>1, <2>3

(* Submit keeps the invariant. *)
LEMMA SubmitKeeps == ASSUME Inductive, NEW r \in Requests, Submit(r) PROVE Inductive'
<1> DEFINE ctx == req[r].ctx
           rules == req[r].rules
           payload == Payload(ctx, rules)
           q == [req[r] EXCEPT !.pc = "recording"]
<1>1. /\ req[r] \in RequestType /\ Draft(ctx) /\ forms \subseteq Forms
      /\ ledger \subseteq Payloads /\ SubmittedIsValidated
      /\ req[r].pc = "submitting" /\ rules = Selected(ctx.land)
  BY InductiveParts, ServingDraft DEF Submit, SoundRequest
<1>2. payload \in Payloads /\ payload.land = payload.rules
  BY <1>1, SelectedType DEF Payload, Payloads, Draft, Documents
<1>3. /\ ledger' = ledger \/ ledger' = ledger \cup {payload}
      /\ doc' = doc /\ forms' = forms
  BY DEF Submit
<1>4. ledger \subseteq ledger' /\ ledger' \subseteq Payloads /\ SubmittedIsValidated'
  BY <1>1, <1>2, <1>3 DEF SubmittedIsValidated
<1>5. CASE Finish(r)
  BY <1>1, <1>3, <1>4, <1>5, IdleSound, InductiveKept DEF Finish
<1>6. CASE ledger' = ledger \cup {payload} /\ Goto(r, "recording")
  <2>1. q \in RequestType /\ q.pc = "recording" /\ q.ctx = ctx /\ q.rules = rules
    BY <1>1 DEF RequestType
  <2>2. req' = [req EXCEPT ![r] = q]
    BY <1>6 DEF Goto
  <2> HIDE DEF q
  <2>3. SoundRequest(q, ledger')
    BY <1>1, <1>6, <2>1 DEF SoundRequest
  <2>4. QED
    BY <1>1, <1>3, <1>4, <2>1, <2>2, <2>3, InductiveKept
<1>7. QED
  BY <1>5, <1>6 DEF Submit

(* Record keeps the invariant. *)
LEMMA RecordKeeps == ASSUME Inductive, NEW r \in Requests, Record(r) PROVE Inductive'
<1> DEFINE ctx == req[r].ctx
           recorded == [ctx EXCEPT !.status = "SUBMITTED"]
<1>1. /\ Draft(ctx) /\ forms \subseteq Forms /\ ledger \subseteq Payloads /\ SubmittedIsValidated
      /\ req[r].pc = "recording" /\ Payload(ctx, req[r].rules) \in ledger
  BY InductiveParts, ServingDraft DEF Record, SoundRequest
<1>2. recorded \in Documents /\ recorded.land = ctx.land /\ recorded.payment = ctx.payment
  BY <1>1 DEF Draft, Documents
<1> HIDE DEF recorded
<1>3. Sound(recorded)
  BY <1>1, <1>2 DEF Draft, Sound, Priced, Filled
<1>4. \E payload \in ledger : payload.land = Selected(ctx.land) /\ payload.payment = ctx.payment
  BY <1>1 DEF Payload
<1>5. SoundDocument(recorded, ledger)
  BY <1>2, <1>3, <1>4 DEF SoundDocument
<1>6. ledger' = ledger /\ forms' = forms /\ SubmittedIsValidated'
  BY <1>1 DEF Record, SubmittedIsValidated
<1>7. doc' = doc \/ SoundDocument(doc', ledger')
  BY <1>5, <1>6, SaveCases DEF Record, recorded
<1>8. QED
  BY <1>1, <1>6, <1>7, IdleSound, InductiveKept DEF Record, Finish

(* Every step keeps the invariant. *)
LEMMA InductiveNext == Inductive /\ [Next]_vars => Inductive'
<1> SUFFICES ASSUME Inductive, [Next]_vars PROVE Inductive'
  OBVIOUS
<1>1. ASSUME NEW r \in Requests, Load(r) \/ Serve(r) PROVE Inductive'
  BY <1>1, LoadKeeps, ShowFormKeeps, MapPageKeeps, SelectActionsKeeps, RemoveParcelKeeps,
     RemoveActionKeeps, ReportFailureKeeps, ConfirmPageKeeps, PaymentPageKeeps, ValidateKeeps,
     SubmitKeeps, RecordKeeps DEF Serve
<1>2. CASE UNCHANGED vars
  BY <1>2 DEF vars, Inductive, TypeOK, IInv, SubmittedIsValidated, SubmittedIsKept
<1>3. QED
  BY <1>1, <1>2 DEF Next

-----------------------------------------------------------------------------
(* The results. *)

(* It holds in every behaviour. *)
LEMMA Invariance == Spec => []Inductive
  BY InductiveInit, InductiveNext, PTL DEF Spec

(* Every variable has its type. *)
THEOREM LandTypeCorrect == Spec => []TypeOK
<1>1. Inductive => TypeOK
  BY DEF Inductive
<1>2. QED
  BY <1>1, Invariance, PTL

(* Outside single-parcel grants no document without parcels carries a      *)
(* payment for parcels.                                                    *)
THEOREM PaymentCorrect == Spec => []NoPaymentWithoutParcels
<1>1. Inductive => NoPaymentWithoutParcels
  BY DEF Inductive, IInv, Sound, NoPaymentWithoutParcels
<1>2. QED
  BY <1>1, Invariance, PTL

(* No parcel is left without an action while the action lists are stable.  *)
THEOREM ParcelsCorrect == Spec => []NoEmptyParcel
<1>1. Inductive => NoEmptyParcel
  BY DEF Inductive, IInv, Sound, NoEmptyParcel
<1>2. QED
  BY <1>1, Invariance, PTL

(* GAS receives the selection that was validated. *)
THEOREM ValidatedCorrect == Spec => []SubmittedIsValidated
<1>1. Inductive => SubmittedIsValidated
  BY DEF Inductive, IInv
<1>2. QED
  BY <1>1, Invariance, PTL

(* What is shown as submitted is what GAS accepted. *)
THEOREM KeptCorrect == Spec => []SubmittedIsKept
<1>1. Inductive => SubmittedIsKept
  BY DEF Inductive, IInv
<1>2. QED
  BY <1>1, Invariance, PTL
=============================================================================
