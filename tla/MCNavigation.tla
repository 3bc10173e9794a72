----------------------------- MODULE MCNavigation -----------------------------
(* Three grants: one that starts with the details and has a gate that leads    *)
(* nowhere, one with a start page and a landing page for reopened             *)
(* applications, one with claims and a gate that leads to its question.       *)
EXTENDS Navigation

CONSTANTS t1, t2

MCEntries == {"root", "check-details"}
TwoSessions == (t1 :> "s" @@ t2 :> "v")
Shared(start) ==
  << Rule({"SUBMITTED", "REOPENED"}, {"APPLICATION_WITHDRAWN"}, "CLEARED", start) >>
  \o Tail(SharedPostSubmissionRules)

MCGrant(journey, rules, guards, gated, incomplete, excluded, sfd, level, statuses) ==
  [journey |-> journey, rules |-> rules, guards |-> guards, gated |-> gated,
   before |-> "summary", incomplete |-> incomplete, excluded |-> excluded, sfd |-> sfd,
   may |-> [s |-> "SUBMIT", v |-> level], statuses |-> statuses]

Application == <<"question", "summary", "declaration", "confirmation">>
DetailsFirst == <<"check-details">> \o Application
StartFirst == <<"start", "check-details">> \o Application \o <<"reopened">>
WithClaims == <<"check-details">> \o Application \o <<"claim">>

\* docs/FEATURES.md: a landing page shown when an application is reopened.
LandingRules == <<Rule({"SUBMITTED"}, {"APPLICATION_AMEND"}, "REOPENED", "reopened")>> \o SharedPostSubmissionRules
ClaimRules ==
  << Rule({"SUBMITTED"}, {"STATUS_AWAITING_CLAIM"}, "CLAIM_STARTED", "claim"),
     Rule({"CLAIM_STARTED"}, {"default"}, "CLAIM_STARTED", "claim") >> \o Shared("check-details")

\* The guard of the tests: nothing before the details are there.
DetailsGuard == [key |-> "details", paths |-> {}, allowed |-> {"check-details"}, to |-> "check-details"]

MCGrants ==
  {MCGrant(DetailsFirst, Shared("check-details"), <<>>, TRUE, None, {}, "off", "AMEND",
           {"APPLICATION_AMEND", "APPLICATION_WITHDRAWN"}),
   MCGrant(StartFirst, LandingRules, <<DetailsGuard>>, FALSE, None, {}, "on", "VIEW",
           {"APPLICATION_AMEND", "RECEIVED"}),
   MCGrant(WithClaims, ClaimRules, <<>>, TRUE, "question", {"confirmation"}, "broken", "AMEND",
           {"APPLICATION_AMEND", "STATUS_AWAITING_CLAIM"})}
=============================================================================
