----------------------- MODULE MCApplicationLifecycle -----------------------
EXTENDS ApplicationLifecycle, TLC

MCRules == SharedPostSubmissionRules

(* The rules of a grant whose accepted applications can be claimed for. *)
MCClaimRules ==
  << Rule({"SUBMITTED"}, {"STATUS_AWAITING_CLAIM"}, "CLAIM_STARTED", "claim"),
     Rule({"CLAIM_STARTED"}, {"default"}, "CLAIM_STARTED", "claim") >>
  \o SharedPostSubmissionRules

Symmetry == Permutations(Requests) \cup Permutations(Refs)
=============================================================================
