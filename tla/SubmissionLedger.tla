-------------------------- MODULE SubmissionLedger --------------------------
(***************************************************************************)
(* What grants-ui promises about submitting and amending one application,  *)
(* with requests, snapshots and storage left out.  GAS keeps a ledger of   *)
(* accepted applications that only grows.  An entry is never restated with *)
(* another predecessor, a predecessor is an application GAS already holds, *)
(* and the application shown to the user as submitted is one GAS holds.    *)
(***************************************************************************)
CONSTANTS Refs, NoRef

VARIABLES ledger,   \* accepted applications: ref and the ref it amends
          shown     \* the reference shown as submitted, or NoRef

Held == {entry.ref : entry \in ledger}

Init == ledger = {} /\ shown = NoRef

Accept(ref, prev) ==
  /\ prev \in Held \cup {NoRef}
  /\ prev # ref
  /\ \A entry \in ledger : entry.ref = ref => entry.prev = prev
  /\ ledger' = ledger \cup {[ref |-> ref, prev |-> prev]}
  /\ UNCHANGED shown

Show == shown' \in Held \cup {NoRef} /\ UNCHANGED ledger

Next == Show \/ \E ref \in Refs, prev \in Refs \cup {NoRef} : Accept(ref, prev)

Spec == Init /\ [][Next]_<<ledger, shown>>
=============================================================================
