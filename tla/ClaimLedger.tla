----------------------------- MODULE ClaimLedger -----------------------------
(***************************************************************************)
(* What grants-ui promises about claiming for one accepted application,    *)
(* with requests, snapshots and storage left out.  GAS keeps a ledger of   *)
(* claims that only grows.  A claim is opened once GAS holds those before  *)
(* it; GAS accepts only what is still pending (or a submission without a   *)
(* claim); and the user is shown as submitted an unbroken row of claims,   *)
(* with amounts GAS accepted.                                              *)
(***************************************************************************)
EXTENDS Naturals

CONSTANTS Claims, NoClaim   \* claims, each with its number; a submission without one

VARIABLES ledger,    \* the claims GAS accepted
          pending,   \* the claims it may yet be sent
          shown      \* the claims shown as submitted

NumbersOf(claims) == {claim.number : claim \in claims}

(* Claims that may be shown as submitted when GAS holds the entries. *)
Showable(claims, entries) ==
  /\ claims \subseteq entries
  /\ \A x, y \in claims : x.number = y.number => x = y
  /\ \A n \in NumbersOf(claims) : 1..n \subseteq NumbersOf(claims)

Init == ledger = {} /\ pending = {} /\ shown = {}

(* A claim is opened, or given another amount; what it replaces may be     *)
(* forgotten.                                                              *)
Open(claim) ==
  /\ 1..(claim.number - 1) \subseteq NumbersOf(ledger)
  /\ pending' \subseteq pending \cup {claim}
  /\ UNCHANGED ledger
  /\ Showable(shown', ledger)

Accept(claim) ==
  /\ claim \in pending \cup {NoClaim}
  /\ ledger' = ledger \cup {claim}
  /\ pending' \subseteq pending
  /\ UNCHANGED shown

Show ==
  /\ Showable(shown', ledger)
  /\ pending' \subseteq pending
  /\ UNCHANGED ledger

Next == Show \/ \E claim \in Claims : Open(claim) \/ Accept(claim)

Spec == Init /\ [][Next]_<<ledger, pending, shown>>
=============================================================================
