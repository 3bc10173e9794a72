-------------------------- MODULE DependentAnswers --------------------------
(***************************************************************************)
(* Answers that rest on something else: the applicant's details on their   *)
(* confirmation (check-details), woodland hectares and the payment on the  *)
(* land parcels selected.  Pages work on the document their request has    *)
(* read and write it back whole, from several tabs and in any order: the   *)
(* journey is configured outside the repository.                           *)
(*                                                                         *)
(* External: the consolidated view, which may fail to give the details;    *)
(* the land grants service, which measures parcels, and judges and prices  *)
(* an answer; the forms engine's mergeState, whose update wins.            *)
(***************************************************************************)
EXTENDS Naturals, StateStore

CONSTANTS Requests,     \* slots for requests being served at the same time
          Parcels,      \* the land parcels of the business
          Nothing,      \* a question that was not answered
          Invalidates,  \* pageConfig.invalidates of the parcel page
          SfdEnabled,   \* externalLinks.sfd.enabled
          Total,        \* what parcels measure together
          Minimum,      \* minimumAreaHa; 0 where it is not configured
          Hectares      \* what is entered on the hectares page

VARIABLES req           \* the requests being served

daVars == <<doc, req>>

Dependents == {"hectares", "payment"}

ASSUME ConfigAssumption == /\ Invalidates \subseteq Dependents
                           /\ SfdEnabled \in BOOLEAN
                           /\ \A selected \in SUBSET Parcels : selected # Nothing
ASSUME AreaAssumption ==
  /\ Total \in [SUBSET Parcels -> Nat] /\ Minimum \in Nat /\ Hectares \subseteq Nat
  /\ \A all \in SUBSET Parcels : \A some \in SUBSET all : Total[some] <= Total[all]

(* measured are the selected parcels whose area was known as they were     *)
(* saved: the total in the document is Total[measured].  Of a dependent    *)
(* answer, what matters is which parcels it was given for, and of the      *)
(* hectares how many.                                                      *)
Documents ==
  [detailsConfirmed : {Nothing, TRUE, FALSE},
   checkDetailsChangesPending : BOOLEAN,
   applicant : BOOLEAN,
   landParcels : SUBSET Parcels,
   measured : SUBSET Parcels,
   hectares : Hectares \cup {0},
   given : [Dependents -> {Nothing} \cup SUBSET Parcels]]

Started ==
  [detailsConfirmed |-> Nothing, checkDetailsChangesPending |-> FALSE, applicant |-> FALSE,
   landParcels |-> {}, measured |-> {}, hectares |-> 0, given |-> [k \in Dependents |-> Nothing]]

Idle == [pc |-> "idle", ctx |-> Started]

DAInit == doc = Started /\ req = [r \in Requests |-> Idle]

Serving(r) == req[r].pc = "loaded"
Finish(r) == req' = [req EXCEPT ![r] = Idle]

Load(r) ==
  /\ req[r].pc = "idle"
  /\ req' = [req EXCEPT ![r] = [pc |-> "loaded", ctx |-> doc]]
  /\ UNCHANGED doc

(* A page is shown; or again with its errors, the parcel check's and those *)
(* of a service that cannot be reached included.                           *)
Show(r) == Serving(r) /\ Finish(r) /\ UNCHANGED doc

Answer(r, state) == Serving(r) /\ Save(state) /\ Finish(r)

-----------------------------------------------------------------------------
(* check-details.                                                          *)

(* redirectToSfdForDetailsUpdate *)
AwaitingUpdate(state) ==
  [state EXCEPT !.detailsConfirmed = Nothing, !.checkDetailsChangesPending = TRUE]

WithAnswer(state, value) ==
  [state EXCEPT !.detailsConfirmed = value, !.checkDetailsChangesPending = FALSE]

(* The link to the Farm and Land Service. *)
UpdateOnSfd(r) == SfdEnabled /\ Answer(r, AwaitingUpdate(req[r].ctx))

(* No, with or without a Farm and Land Service to go to. *)
RejectDetails(r) ==
  Answer(r, IF SfdEnabled THEN AwaitingUpdate(req[r].ctx) ELSE WithAnswer(req[r].ctx, FALSE))

(* Yes: the answer is saved, and the details asked for again. *)
ConfirmDetails(r) ==
  LET state == WithAnswer(req[r].ctx, TRUE)
  IN  /\ Serving(r)
      /\ Save(state)
      /\ req' = [req EXCEPT ![r] = [pc |-> "confirming", ctx |-> state]]

(* handleDetailsConfirmed: with the details, the document is saved again. *)
RecordApplicant(r) ==
  /\ req[r].pc = "confirming"
  /\ Save([req[r].ctx EXCEPT !.applicant = TRUE])
  /\ Finish(r)

DetailsUnavailable(r) == req[r].pc = "confirming" /\ Finish(r) /\ UNCHANGED doc

(* The page of the grants that ask for no confirmation. *)
ConfirmFarmDetails(r) == Answer(r, [req[r].ctx EXCEPT !.applicant = TRUE])

-----------------------------------------------------------------------------
(* The parcels, and the answers that depend on them.                       *)

(* buildInvalidatedState: the keys that lose their value. *)
Invalidated(previous, selected) == IF previous = selected THEN {} ELSE Invalidates

(* The dependent answers, with a selection that replaces previous. *)
Kept(state, previous, selected) ==
  LET lost == Invalidated(previous, selected)
  IN  [state EXCEPT !.hectares = IF "hectares" \in lost THEN 0 ELSE @,
                    !.given = [k \in Dependents |-> IF k \in lost THEN Nothing ELSE @[k]]]

(* Mutant: the selection is compared with the document as it is by now. *)
WithParcelsComparedAnew(state, selected, measured) ==
  [Kept(state, doc.landParcels, selected) EXCEPT !.landParcels = selected, !.measured = measured]

(* mergeState of the parcel page; getState answers with the snapshot. *)
WithParcels(state, selected, measured) ==
  [Kept(state, state.landParcels, selected) EXCEPT !.landParcels = selected, !.measured = measured]

(* A parcel without an area counts for nothing, and all of them where the  *)
(* parcels could not be fetched; only the total is held to the minimum.    *)
SelectParcels(r) ==
  \E selected \in (SUBSET Parcels) \ {{}} : \E measured \in SUBSET selected :
    /\ Total[measured] >= Minimum
    /\ Answer(r, WithParcels(req[r].ctx, selected, measured))

Give(state, key) == [state EXCEPT !.given[key] = state.landParcels]

(* Mutant: the total is read again from the document, once the service has *)
(* accepted the hectares.                                                  *)
EnterHectaresRereadingTotal(r) ==
  \E hectares \in Hectares :
    /\ hectares <= Total[doc.measured]
    /\ Answer(r, [Give(req[r].ctx, "hectares") EXCEPT !.hectares = hectares])

(* The hectares fit the total area saved with the parcels, and the service *)
(* accepts them.                                                           *)
EnterHectares(r) ==
  \E hectares \in Hectares :
    /\ hectares <= Total[req[r].ctx.measured]
    /\ Answer(r, [Give(req[r].ctx, "hectares") EXCEPT !.hectares = hectares])

(* Visiting the payment page prices the parcels. *)
PaymentPage(r) == Answer(r, Give(req[r].ctx, "payment"))

Serve(r) ==
  \/ Show(r) \/ UpdateOnSfd(r) \/ RejectDetails(r) \/ ConfirmDetails(r)
  \/ RecordApplicant(r) \/ DetailsUnavailable(r) \/ ConfirmFarmDetails(r)
  \/ SelectParcels(r) \/ EnterHectares(r) \/ PaymentPage(r)

DANext == \E r \in Requests : Load(r) \/ Serve(r)

DASpec == DAInit /\ [][DANext]_daVars

-----------------------------------------------------------------------------
(* Every variable has its type. *)
DATypeOK ==
  /\ doc \in Documents
  /\ req \in [Requests -> [pc : {"idle", "loaded", "confirming"}, ctx : Documents]]

(* However tabs overlap, an answer the parcel page invalidates was given   *)
(* for the parcels the document holds: the selection is compared with the  *)
(* snapshot it replaces, and not with what another tab has saved meanwhile *)
(* (common-select-land-parcel-page.controller.js:80).                      *)
Follows(state) == \A k \in Invalidates : state.given[k] \in {Nothing, state.landParcels}
DependentsFollow == Follows(doc)

(* Details waiting to be changed are not confirmed: the pending mark makes *)
(* the pipeline pass over the status of the application                    *)
(* (forms-status-redirect.js:486), submitted ones included.                *)
AwaitsAnswer(state) == state.checkDetailsChangesPending => state.detailsConfirmed = Nothing
PendingIsUnanswered == AwaitsAnswer(doc)

(* However tabs overlap, the woodland entered is no larger than the        *)
(* parcels it stands beside in the document, if selecting other parcels    *)
(* invalidates it (woodland-hectares-page.controller.js:105).  Areas that  *)
(* are missing as parcels are selected can only make the page stricter.    *)
HectaresWithinArea ==
  "hectares" \in Invalidates /\ doc.given["hectares"] # Nothing
    => doc.hectares <= Total[doc.landParcels]

(* Why: they fit the parcels they were given for. *)
Fits(state) ==
  /\ state.measured \subseteq state.landParcels
  /\ state.given["hectares"] # Nothing => state.hectares <= Total[state.given["hectares"]]

(* The strengthening: what holds of the document holds of every snapshot.  *)
Sound(state) == state \in Documents /\ Follows(state) /\ AwaitsAnswer(state) /\ Fits(state)

IInv == DATypeOK /\ Sound(doc) /\ \A r \in Requests : Sound(req[r].ctx)
=============================================================================
