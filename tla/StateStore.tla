----------------------------- MODULE StateStore -----------------------------
(***************************************************************************)
(* The saved-state document of one application, as grants-ui sees it: one  *)
(* document per business (sbi) and grant, held by grants-ui-backend and    *)
(* reached only through the persistence helpers.                           *)
(*                                                                         *)
(* Every save replaces the whole document.  The helpers swallow a refused  *)
(* or failed save (they log it and resolve), so the caller goes on as if   *)
(* it had been stored; Lossy says whether that may happen.                 *)
(***************************************************************************)
CONSTANTS NoDoc,        \* there is no saved document
          Lossy         \* may a save or a status update be lost silently?

VARIABLE doc            \* the saved document, or NoDoc

ASSUME LossyAssumption == Lossy \in BOOLEAN

(* What becomes of a write that would leave the store at d. *)
Written(d) == {d} \cup (IF Lossy THEN {doc} ELSE {})

(* persistStateToApi: POST of the whole state. *)
Save(state) == doc' \in Written(state)

(* updateApplicationStatus: PATCH of the status field of whatever document *)
(* is stored when it arrives; there is nothing to update without one.      *)
PatchStatus(status) ==
    doc' \in IF doc = NoDoc THEN {doc} ELSE Written([doc EXCEPT !.status = status])

(* clearSavedStateFromApi: DELETE; a failure other than 404 is thrown. *)
Discard == doc' \in {NoDoc, doc}
=============================================================================
