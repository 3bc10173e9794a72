--------------------------- MODULE RedirectRules ---------------------------
(***************************************************************************)
(* Application statuses, and the grant redirect rules that map a status of *)
(* the local document and a status reported by GAS to a new local status   *)
(* and a destination.                                                      *)
(***************************************************************************)
EXTENDS Naturals, Sequences

(* ApplicationStatus, with NONE for a document that has no status yet. *)
Status == {"NONE", "SUBMITTED", "REOPENED", "CLEARED", "PURGED",
           "CLAIM_STARTED", "CLAIM_SUBMITTED"}

Rule(from, gas, to, path) == [from |-> from, gas |-> gas, to |-> to, path |-> path]

(* The rules every grant inherits. *)
SharedPostSubmissionRules ==
  << Rule({"SUBMITTED", "REOPENED"}, {"APPLICATION_WITHDRAWN"}, "CLEARED", "start"),
     Rule({"SUBMITTED"}, {"APPLICATION_AMEND"}, "REOPENED", "summary"),
     Rule({"SUBMITTED"}, {"OFFER_SENT", "OFFER_WITHDRAWN", "OFFER_ACCEPTED"}, "SUBMITTED", "agreements"),
     Rule({"REOPENED"}, {"default"}, "REOPENED", "summary"),
     Rule({"SUBMITTED"}, {"default"}, "SUBMITTED", "confirmation"),
     Rule({"default"}, {"default"}, "SUBMITTED", "confirmation") >>

Matches(rule, from, gas) ==
  /\ {from, "default"} \cap rule.from # {}
  /\ {gas, "default"} \cap rule.gas # {}

HasRule(from, gas, rules) == \E i \in DOMAIN rules : Matches(rules[i], from, gas)

(* mapStatusToUrl: the first rule that matches. *)
MapStatusToUrl(from, gas, rules) ==
  rules[CHOOSE i \in DOMAIN rules :
          /\ Matches(rules[i], from, gas)
          /\ \A j \in DOMAIN rules : Matches(rules[j], from, gas) => i <= j]
=============================================================================
