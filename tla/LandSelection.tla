---------------------------- MODULE LandSelection ---------------------------
(***************************************************************************)
(* The land parcels of an application, the actions chosen for each, and    *)
(* the payment calculated for them.  Every page reads the saved document   *)
(* when its request begins, waits for the land grants service, and writes  *)
(* the whole document back; tabs overlap as they please.                   *)
(*                                                                         *)
(* External: the land grants service, which lists the actions of a parcel, *)
(* prices a selection and says whether it is valid; GAS, which accepts an  *)
(* application or not.  Pages may be visited in any order: the journey is  *)
(* configured outside the repository.  A form is posted only once it was   *)
(* shown, but may be posted again and again, from another tab or by going  *)
(* back.  A document that was submitted is the subject of                  *)
(* ApplicationLifecycle, and opens none of these pages.                    *)
(***************************************************************************)
EXTENDS StateStore, Naturals, FiniteSets

CONSTANTS Requests,      \* slots for requests being served at the same time
          Parcels,       \* the land parcels of the business
          Actions,       \* the codes of the actions the grant offers
          NoLand,        \* the document has no landParcels key
          NoPayment,     \* the document has no payment
          SingleParcel,  \* singleParcelSubmission of the grant
          FormsOpen,     \* were all forms shown already, earlier in the application?
          Steady,        \* the parcels whose list of actions stays as the page showed it
          MaxAccepted    \* bound: different applications GAS accepts

VARIABLES forms,         \* the forms the browser was shown
          ledger,        \* the applications GAS accepted
          req            \* the requests being served

vars == <<doc, forms, ledger, req>>

ASSUME FlagsAssumption == SingleParcel \in BOOLEAN /\ FormsOpen \in BOOLEAN /\ Steady \subseteq Parcels

(* A selection gives the chosen actions of each selected parcel. *)
Selections == UNION {[chosen -> SUBSET Actions] : chosen \in SUBSET Parcels}
NoneSelected == [p \in {} |-> {}]

ASSUME AbsenceAssumption == NoLand \notin Selections /\ NoPayment \notin Selections

(* state.landParcels || {} *)
Selected(land) == IF land = NoLand THEN NoneSelected ELSE land
Keep(land, parcels) == [p \in parcels |-> land[p]]

(* buildNewState: the actions of one parcel are replaced. *)
BuildNewState(state, parcel, codes) ==
  LET land == Selected(state.land)
  IN  [state EXCEPT !.land = [p \in DOMAIN land \cup {parcel} |-> IF p = parcel THEN codes ELSE land[p]]]

(* Mutant: the payment survives the last parcel. *)
DropEmptyLandOnly(state) ==
  IF DOMAIN state.land = {} THEN [state EXCEPT !.land = NoLand] ELSE state

(* The last parcel takes the key and the payment with it. *)
DropEmptyLand(state) ==
  IF DOMAIN state.land = {} THEN [state EXCEPT !.land = NoLand, !.payment = NoPayment] ELSE state

DeleteParcel(state, parcel) ==
  DropEmptyLand([state EXCEPT !.land = Keep(@, DOMAIN @ \ {parcel})])

(* Mutant: a parcel stays when its last action is removed. *)
DeleteActionOnly(state, parcel, code) ==
  [state EXCEPT !.land[parcel] = @ \ {code}]

DeleteAction(state, parcel, code) ==
  IF state.land[parcel] = {code}
    THEN DeleteParcel(state, parcel)
    ELSE [state EXCEPT !.land[parcel] = @ \ {code}]

ActionsForm(parcel) == [page |-> "actions", of |-> <<parcel>>]
RemoveParcelForm(parcel) == [page |-> "remove parcel", of |-> <<parcel>>]
RemoveActionForm(parcel, code) == [page |-> "remove action", of |-> <<parcel, code>>]

Forms ==
  {ActionsForm(p) : p \in Parcels} \cup {RemoveParcelForm(p) : p \in Parcels}
    \cup {RemoveActionForm(p, a) : p \in Parcels, a \in Actions}

(* The forms a document offers: those its summary links to, and the actions*)
(* of any parcel where the parcel is selected on a page of its own.        *)
Offered(state) ==
  LET land == Selected(state.land)
      selectable == IF SingleParcel THEN DOMAIN land ELSE Parcels
  IN  {ActionsForm(p) : p \in selectable} \cup {RemoveParcelForm(p) : p \in DOMAIN land}
        \cup UNION {{RemoveActionForm(p, a) : a \in land[p]} : p \in DOMAIN land}

Started == [status |-> "DRAFT", land |-> NoLand, payment |-> NoPayment]
Idle == [pc |-> "idle", ctx |-> Started, rules |-> NoneSelected]

Init ==
  /\ doc = Started
  /\ forms = IF FormsOpen THEN Forms ELSE {}
  /\ ledger = {}
  /\ req = [r \in Requests |-> Idle]

Serving(r) == req[r].pc = "loaded"
Goto(r, pc) == req' = [req EXCEPT ![r].pc = pc]
Finish(r) == req' = [req EXCEPT ![r] = Idle]

(* A request for one of the pages reads the document. *)
Load(r) ==
  /\ req[r].pc = "idle"
  /\ doc.status = "DRAFT"
  /\ req' = [req EXCEPT ![r] = [Idle EXCEPT !.pc = "loaded", !.ctx = doc]]
  /\ UNCHANGED <<doc, forms, ledger>>

(* One of the forms the document offers is shown. *)
ShowForm(r) ==
  /\ Serving(r)
  /\ \E form \in Offered(req[r].ctx) : forms' = forms \cup {form}
  /\ Finish(r)
  /\ UNCHANGED <<doc, ledger>>

(* The map page: a parcel was picked, and its actions are shown next; or   *)
(* the pick is rejected and the document is left as it is.                 *)
MapPage(r) ==
  /\ Serving(r)
  /\ \/ /\ Save(IF SingleParcel THEN [req[r].ctx EXCEPT !.land = NoneSelected] ELSE req[r].ctx)
        /\ \E parcel \in Parcels : forms' = forms \cup {ActionsForm(parcel)}
     \/ UNCHANGED <<doc, forms>>
  /\ Finish(r)
  /\ UNCHANGED ledger

(* The select actions page.  Codes the service no longer lists are left    *)
(* out, all of them even, which leaves a parcel without actions; a refused *)
(* selection changes nothing.  The pages post at least one code.           *)
SelectActions(r) ==
  /\ Serving(r)
  /\ \/ \E parcel \in Parcels, chosen \in (SUBSET Actions) \ {{}} :
          /\ ActionsForm(parcel) \in forms
          /\ \E listed \in IF parcel \in Steady THEN {chosen} ELSE SUBSET chosen :
               Save(BuildNewState(req[r].ctx, parcel, listed))
     \/ UNCHANGED doc
  /\ Finish(r)
  /\ UNCHANGED <<forms, ledger>>

(* The remove parcel page: deleting from a landParcels that is not there   *)
(* throws.                                                                 *)
RemoveParcel(r) ==
  /\ Serving(r)
  /\ \E parcel \in Parcels :
       /\ RemoveParcelForm(parcel) \in forms
       /\ IF req[r].ctx.land = NoLand
            THEN Goto(r, "failed") /\ UNCHANGED doc
            ELSE Finish(r) /\ Save(DeleteParcel(req[r].ctx, parcel))
  /\ UNCHANGED <<forms, ledger>>

(* The remove action page: an action that is not there leads back, and so  *)
(* does answering no; looking it up without any landParcels throws.        *)
RemoveAction(r) ==
  /\ Serving(r)
  /\ LET land == req[r].ctx.land
     IN  \E parcel \in Parcels, code \in Actions :
           /\ RemoveActionForm(parcel, code) \in forms
           /\ IF land = NoLand
                THEN Goto(r, "failed") /\ UNCHANGED doc
                ELSE /\ Finish(r)
                     /\ \/ /\ parcel \in DOMAIN land
                           /\ code \in land[parcel]
                           /\ Save(DeleteAction(req[r].ctx, parcel, code))
                        \/ UNCHANGED doc
  /\ UNCHANGED <<forms, ledger>>

(* The error page is shown. *)
ReportFailure(r) ==
  /\ req[r].pc = "failed"
  /\ Finish(r)
  /\ UNCHANGED <<doc, forms, ledger>>

(* The land and actions summary: prices the selection, and drops a payment *)
(* it cannot renew or that has nothing left to price.                      *)
ConfirmPage(r) ==
  /\ Serving(r)
  /\ LET land == Selected(req[r].ctx.land)
     IN  \E payment \in {NoPayment} \cup (IF DOMAIN land = {} THEN {} ELSE {land}) :
           Save([req[r].ctx EXCEPT !.payment = payment])
  /\ Finish(r)
  /\ UNCHANGED <<forms, ledger>>

(* The payment page of the other journeys: prices the selection, whatever  *)
(* it is, and keeps the last payment when the service fails.               *)
PaymentPage(r) ==
  /\ Serving(r)
  /\ \/ \E payment \in {NoPayment, Selected(req[r].ctx.land)} :
          Save([req[r].ctx EXCEPT !.payment = payment])
     \/ UNCHANGED doc
  /\ Finish(r)
  /\ UNCHANGED <<forms, ledger>>

(* The submission page asks for the selection to be validated first. *)
Validate(r) ==
  /\ Serving(r)
  /\ \/ req' = [req EXCEPT ![r].pc = "submitting", ![r].rules = Selected(req[r].ctx.land)]
     \/ Finish(r)
  /\ UNCHANGED <<doc, forms, ledger>>

Payload(state, rules) ==
  [land |-> Selected(state.land), payment |-> state.payment, rules |-> rules]

(* Mutant: the application is read again after the validation. *)
SubmitRereading(r) ==
  /\ req[r].pc = "submitting"
  /\ ledger' = ledger \cup {Payload(doc, req[r].rules)}
  /\ Goto(r, "recording")
  /\ UNCHANGED <<doc, forms>>

(* GAS accepts the application and says so; or the user is shown an error, *)
(* whether GAS has it or not.                                              *)
Submit(r) ==
  /\ req[r].pc = "submitting"
  /\ LET accepted == ledger \cup {Payload(req[r].ctx, req[r].rules)}
     IN  \/ /\ Cardinality(accepted) <= MaxAccepted
            /\ ledger' = accepted
            /\ Goto(r, "recording") \/ Finish(r)
         \/ UNCHANGED ledger /\ Finish(r)
  /\ UNCHANGED <<doc, forms>>

(* Mutant: the submission is recorded on the document as it is by now. *)
RecordRereading(r) ==
  /\ req[r].pc = "recording"
  /\ Save([doc EXCEPT !.status = "SUBMITTED"])
  /\ Finish(r)
  /\ UNCHANGED <<forms, ledger>>

(* handleSuccessfulSubmission: getState answers with the snapshot the      *)
(* request has already read.                                               *)
Record(r) ==
  /\ req[r].pc = "recording"
  /\ Save([req[r].ctx EXCEPT !.status = "SUBMITTED"])
  /\ Finish(r)
  /\ UNCHANGED <<forms, ledger>>

Serve(r) ==
  \/ ShowForm(r) \/ MapPage(r) \/ SelectActions(r) \/ RemoveParcel(r) \/ RemoveAction(r) \/ ReportFailure(r)
  \/ ConfirmPage(r) \/ PaymentPage(r)
  \/ Validate(r) \/ Submit(r) \/ Record(r)

Next == \E r \in Requests : Load(r) \/ Serve(r)

Spec == Init /\ [][Next]_vars

-----------------------------------------------------------------------------
Documents ==
  [status : {"DRAFT", "SUBMITTED"},
   land : Selections \cup {NoLand},
   payment : Selections \cup {NoPayment}]
Payloads == [land : Selections, payment : Selections \cup {NoPayment}, rules : Selections]

(* Every variable has its type. *)
TypeOK ==
  /\ doc \in Documents
  /\ forms \subseteq Forms
  /\ ledger \subseteq Payloads
  /\ req \in [Requests -> [pc : {"idle", "loaded", "failed", "submitting", "recording"},
                           ctx : Documents, rules : Selections]]

PricesNothing(payment) == payment \in {NoPayment, NoneSelected}
Priced(state) == DOMAIN Selected(state.land) = {} => PricesNothing(state.payment)
Filled(state) == \A p \in Steady \cap DOMAIN Selected(state.land) : Selected(state.land)[p] # {}

(* However tabs overlap, a document without parcels carries no payment for *)
(* parcels: what the check answers page and the GAS mapper would read.     *)
(* (The map page of a single-parcel grant empties the selection and leaves *)
(* the payment to the next visit of the summary.)                          *)
NoPaymentWithoutParcels == SingleParcel \/ Priced(doc)

(* No parcel is left in an application without an action, where the        *)
(* service still lists what the page showed.                               *)
NoEmptyParcel == Filled(doc)

(* GAS never receives a selection other than the one that was validated,   *)
(* though the document may change between the two calls.                   *)
SubmittedIsValidated == \A payload \in ledger : payload.land = payload.rules

(* A document shown as submitted holds the selection and the payment of an *)
(* application GAS accepted.                                               *)
SubmittedIsKept ==
  doc.status = "SUBMITTED" =>
    \E payload \in ledger : payload.land = Selected(doc.land) /\ payload.payment = doc.payment

(***************************************************************************)
(* The strengthening every step preserves: what holds of the document      *)
(* holds of every snapshot a request may still write back, snapshots being *)
(* read before the submission; and what a request submits is what it asked *)
(* to be validated, and what it records is what GAS accepted.              *)
(***************************************************************************)
Sound(state) == (SingleParcel \/ Priced(state)) /\ Filled(state)

IInv ==
  /\ Sound(doc)
  /\ \A r \in Requests : Sound(req[r].ctx)
  /\ \A r \in Requests : req[r].pc \in {"submitting", "recording"} => req[r].rules = Selected(req[r].ctx.land)
  /\ \A r \in Requests : req[r].pc = "recording" => Payload(req[r].ctx, req[r].rules) \in ledger
  /\ \A r \in Requests : req[r].ctx.status = "DRAFT"
  /\ SubmittedIsValidated
  /\ SubmittedIsKept
=============================================================================
