------------------------------ MODULE Navigation ------------------------------
(***************************************************************************)
(* Where a user ends up.  Every GET and POST of a page runs the request     *)
(* pipeline (src/src/server/common/request-pipeline): a purged application, *)
(* the status of the application, the rules of the grant and what GAS says  *)
(* may each send the browser elsewhere, and the page it is sent to is       *)
(* another request, with the pipeline before it.  Only then the forms       *)
(* engine (external) asks whether the page can be reached with the answers  *)
(* saved, and redirects on its own account.                                 *)
(*                                                                         *)
(* A request is one step here; what happens inside one is the subject of    *)
(* ApplicationLifecycle.  Between a redirect and the request it leads to    *)
(* anything may happen.                                                     *)
(***************************************************************************)
EXTENDS RedirectRules, SequencesExt

CONSTANTS
  Tabs,
  Session,      \* of each tab, the session its requests belong to
  Grants,       \* of each grant: its form and rules, how the server is deployed, what the
                \* users may do, and (a bound) the statuses GAS may report
  Entries       \* bound: what a user opens from outside the grant

Pages == {"start", "tasks", "check-details", "update-details", "question", "summary",
          "declaration", "confirmation", "reopened", "claim"}
Outside == {"outside", "agreements", "sfd"}
Elsewhere == {"root", "application-deleted", "forbidden", "cannot-submit"} \union Outside
Places == Pages \union Elsewhere
None == "none"

\* A page comes once, the answered ones are not the last, and configuration
\* leads to pages there are.
ASSUME GrantsAssumption ==
  \A g \in Grants :
    /\ g.journey \in Seq(Pages \ {"update-details"}) /\ IsInjective(g.journey)
    /\ {"check-details", "summary"} \subseteq ToSet(g.journey)
    /\ Last(g.journey) \notin {"check-details", "question"}
    /\ DOMAIN g.guards \subseteq Nat /\ \A i \in DOMAIN g.guards : g.guards[i].to \in Places
    /\ {g.before, g.incomplete} \subseteq Places \union {None}
    /\ g.sfd \in {"off", "on", "broken"}
ASSUME EntriesAssumption == Entries \subseteq Places

\* The rules end with the shared ones: some rule always applies, a reopened
\* application is submitted by its user only, and the confirmation is for
\* submitted ones.
ASSUME RulesAssumption ==
  \A g \in Grants :
    /\ DOMAIN g.rules \subseteq Nat
    /\ \E i \in DOMAIN g.rules : "default" \in g.rules[i].from \intersect g.rules[i].gas
    /\ \A i \in DOMAIN g.rules :
         /\ g.rules[i].to \in Status \ {"PURGED"}
         /\ g.rules[i].path \in ToSet(g.journey) \union Outside
         /\ g.rules[i].path = "confirmation" => g.rules[i].to = "SUBMITTED"
    /\ \A x \in g.statuses : MapStatusToUrl("REOPENED", x, g.rules).to # "SUBMITTED"

VARIABLES
  grant,    \* the one the users apply for
  doc,      \* the saved state of the application
  gas,      \* what GAS says of what was last submitted, UNKNOWN while it answers 404
  marker,   \* of each session, YarKeys.STATUS_CHANGE_REDIRECT
  tabs,     \* what each tab shows, or has requested and not got yet
  due       \* history: where a change of the status sent a tab, until something else happens

vars == <<grant, doc, gas, marker, tabs, due>>

Documents ==
  [status : Status, confirmed : {"unset", "yes", "no"}, pending : BOOLEAN, answered : BOOLEAN]
Empty == [status |-> "NONE", confirmed |-> "unset", pending |-> FALSE, answered |-> FALSE]

\* fetchSite is the browser's sec-fetch-site, kept along redirects.
Requests == [at : Places, busy : BOOLEAN, method : {"get", "post"}, fetchSite : {"same-origin", "none"}]
Shows(p) == [at |-> p, busy |-> FALSE, method |-> "get", fetchSite |-> "none"]
Asks(p, method, site) == [at |-> p, busy |-> TRUE, method |-> method, fetchSite |-> site]
NothingDue == [tab |-> None, to |-> None]
Sessions == {Session[t] : t \in Tabs}

TypeOK ==
  /\ grant \in Grants /\ doc \in Documents
  /\ gas \in grant.statuses \union {"UNKNOWN"}
  /\ marker \in [Sessions -> Places \union {None}]
  /\ tabs \in [Tabs -> Requests]
  /\ due \in [tab : Tabs \union {None}, to : Places \union {None}]

Init ==
  /\ grant \in Grants
  /\ doc = Empty
  /\ gas = "UNKNOWN"
  /\ marker = [s \in Sessions |-> None]
  /\ tabs = [t \in Tabs |-> Shows("outside")]
  /\ due = NothingDue

StartPage == Head(grant.journey)

-----------------------------------------------------------------------------
(* The forms engine (external): it walks the pages in their order, and leads *)
(* back to the first that the answers do not get past.                       *)

Position(p) == CHOOSE i \in DOMAIN grant.journey : grant.journey[i] = p

\* ensureUpdateDetailsPage puts the page right after check-details.
Rank(p) == IF p = "update-details" THEN 2 * Position("check-details") + 1 ELSE 2 * Position(p)

OnPath(d, p) ==
  IF p = "update-details" THEN d.confirmed = "no" ELSE p \in ToSet(grant.journey)

\* A page not answered yet, and the terminal one.
Stops(p) ==
  \/ p = "check-details" /\ doc.confirmed = "unset"
  \/ p = "update-details" /\ doc.confirmed = "no"
  \/ p = "question" /\ ~doc.answered

First(pages) == CHOOSE p \in pages : \A q \in pages : Rank(p) <= Rank(q)
LastOf(pages) == CHOOSE p \in pages : \A q \in pages : Rank(q) <= Rank(p)

\* The page a request for one is answered with.  A confirmation page is its own
\* relevant path, and so is update-details while changes are pending.
Reach(p) ==
  LET way   == {q \in Pages : OnPath(doc, q) /\ (OnPath(doc, p) => Rank(q) <= Rank(p))}
      stops == {q \in way : Stops(q)}
  IN IF p = "confirmation" \/ (p = "update-details" /\ doc.pending) THEN p
     ELSE IF stops # {} THEN First(stops) ELSE LastOf(way)

NextPage(d, p) == First({q \in Pages : OnPath(d, q) /\ Rank(q) > Rank(p)})

Complete == doc.confirmed = "yes" /\ doc.answered

-----------------------------------------------------------------------------
(* Permissions: metadata.permissions of a grant with an application journey. *)

Rights == [NONE |-> {}, VIEW |-> {"view"}, AMEND |-> {"view", "amend"},
           SUBMIT |-> {"view", "amend", "submit"}]
Can(s, right) == right \in Rights[grant.may[s]]

(* Mutant: the default stands for every page. *)
RequiredByDefault(p) == "amend"

\* getRequiredPermission: the rule for the page, or the default.
RequiredPermission(p) ==
  CASE p = "declaration" -> "submit" [] p = "confirmation" -> "view" [] OTHER -> "amend"

\* isViewOnlyUser
ViewOnly(s) == Can(s, "view") /\ ~Can(s, "amend") /\ ~Can(s, "submit")

\* enforcePagePermission: what it answers instead of the page, if anything.
Refusal(s, p) ==
  CASE ViewOnly(s) -> IF p = "confirmation" /\ doc.status = "SUBMITTED" THEN None ELSE "forbidden"
    [] ~ViewOnly(s) /\ Can(s, RequiredPermission(p)) -> None
    [] OTHER -> IF RequiredPermission(p) = "submit" /\ Can(s, "amend") THEN "cannot-submit" ELSE "forbidden"

-----------------------------------------------------------------------------
(* The pipeline's decisions that need no answer of GAS.                      *)

ClaimStatuses == {"CLAIM_STARTED", "CLAIM_SUBMITTED"}
DraftStatuses == {"NONE", "CLEARED"}

\* hasMeaningfulPreSubmissionState: any key beyond the base ones.
Meaningful == doc.confirmed # "unset" \/ doc.pending \/ doc.answered

(* Mutant: changes of the details being pending do not matter. *)
SkippedThoughPending(r) ==
  \/ r.at \in grant.excluded
  \/ r.fetchSite = "same-origin" /\ doc.status # "SUBMITTED"

\* shouldSkipFormsStatusRedirect
Skipped(r) ==
  \/ r.at \in grant.excluded
  \/ r.fetchSite = "same-origin" /\ doc.status # "SUBMITTED"
  \/ doc.pending /\ StartPage = "check-details"

\* What a guard or a gate of a grant may ask of the state.
Holds(key) == (key = "details" /\ doc.confirmed = "yes") \/ (key = "answer" /\ doc.answered)

\* checkStateGuards: the grant's guards that a request for p does not pass.
Failing(p) ==
  {i \in DOMAIN grant.guards :
     LET g == grant.guards[i]
     IN (g.paths = {} \/ p \in g.paths) /\ ~Holds(g.key) /\ p \notin g.allowed}

\* resolvePreSubmissionDestination: None when the gate is closed and leads nowhere.
Destination == IF ~grant.gated \/ Holds("answer") THEN grant.before ELSE grant.incomplete

\* preSubmissionRedirect: where to, or None to go on.
BeforeSubmission(p) ==
  CASE Failing(p) # {} -> grant.guards[Min(Failing(p))].to
    [] Failing(p) = {} -> IF Meaningful /\ p = StartPage THEN Destination ELSE None

\* isAtOrAfterJourneyStartPage: in the definition update-details comes last.
AtOrAfter(p, start) ==
  /\ start \in ToSet(grant.journey)
  /\ p = "update-details" \/ (p \in ToSet(grant.journey) /\ Position(start) <= Position(p))

\* claimJourneyRedirect: where to, or None to go on.
ClaimStart(p) ==
  LET start == MapStatusToUrl(doc.status, "default", grant.rules).path
  IN IF p \in grant.excluded \/ AtOrAfter(p, start) \/ p = start THEN None ELSE start

\* What the pipeline does with a request for a page, in its order: a marker is
\* left alone by the two first, and let through where it was meant for.
Stage(s, r) ==
  CASE doc.status = "PURGED" -> "deleted"
    [] r.at = "confirmation" /\ doc.status \in DraftStatuses \union {"REOPENED"} -> "forbidden"
    [] OTHER -> IF marker[s] = r.at THEN "go"
                ELSE IF doc.status \in ClaimStatuses THEN "claim"
                ELSE IF Skipped(r) THEN "go"
                ELSE IF doc.status \in DraftStatuses THEN "before" ELSE "ask"

-----------------------------------------------------------------------------
(* What the server does with a request.                                      *)

Place(t, request) == tabs' = [tabs EXCEPT ![t] = request]
Redirect(t, p) ==
  Place(t, IF p \in Outside THEN Shows(p) ELSE Asks(p, "get", tabs[t].fetchSite))

\* consumeStatusChangeRedirect
ConsumeMarker(t) == marker' = [marker EXCEPT ![Session[t]] = None]

\* What is due to a tab is forgotten when a request of another is served.
StillDue(t) == due' = IF due.tab = t THEN due ELSE NothingDue

(* Mutant: a gate that leads nowhere is not allowed for. *)
RootWithoutDestination(t) ==
  /\ tabs[t].at = "root"
  /\ Redirect(t, IF StartPage = "check-details" /\ doc.status \in DraftStatuses /\ Meaningful
                 THEN Destination ELSE StartPage)
  /\ StillDue(t)
  /\ UNCHANGED <<grant, doc, gas, marker>>

\* The dispatch to the start page, and serviceRootRedirect in its place.
Root(t) ==
  /\ tabs[t].at = "root"
  /\ Redirect(t, IF /\ StartPage = "check-details" /\ Destination # None
                    /\ doc.status \in DraftStatuses /\ Meaningful
                 THEN Destination ELSE StartPage)
  /\ StillDue(t)
  /\ UNCHANGED <<grant, doc, gas, marker>>

\* The application-deleted page is a route of its own; leaving it deletes the
\* document.
DeletedPage(t) ==
  /\ tabs[t].at = "application-deleted"
  /\ \/ /\ tabs[t].method = "get"
        /\ doc' = IF doc.status = "PURGED" THEN [Empty EXCEPT !.status = "PURGED"] ELSE doc
        /\ Place(t, Shows("application-deleted"))
     \/ /\ tabs[t].method = "post"
        /\ doc' = Empty
        /\ Redirect(t, "root")
  /\ StillDue(t)
  /\ UNCHANGED <<grant, gas, marker>>

\* CheckDetailsController.  Yes is saved before the details are fetched, which may
\* fail.  No leads to update-details or, not saved then, to the service that
\* updates them; without a usable address of that service it leads to
\* update-details all the same.
ConfirmDetails(t) ==
  /\ tabs[t].at = "check-details"
  /\ \/ /\ doc' = [doc EXCEPT !.confirmed = "yes", !.pending = FALSE]
        /\ \/ Redirect(t, NextPage([doc EXCEPT !.confirmed = "yes"], "check-details"))
           \/ Place(t, Shows("check-details"))
     \/ /\ doc' = IF grant.sfd = "off" THEN [doc EXCEPT !.confirmed = "no", !.pending = FALSE]
                  ELSE [doc EXCEPT !.confirmed = "unset", !.pending = TRUE]
        /\ Redirect(t, IF grant.sfd = "on" THEN "sfd" ELSE "update-details")
  /\ UNCHANGED gas

\* A question page saves its answer and leads on.
Answer(t) ==
  /\ tabs[t].at = "question"
  /\ doc' = [doc EXCEPT !.answered = TRUE]
  /\ Redirect(t, NextPage(doc, "question"))
  /\ UNCHANGED gas

\* DeclarationPageController: GAS does not know the new reference at once.  The
\* save may be lost, and what GAS refuses shows the page again.
Submit(t, kept) ==
  /\ tabs[t].at = "declaration"
  /\ \/ /\ doc' = [doc EXCEPT !.status = "SUBMITTED"]
        /\ gas' = "UNKNOWN"
        /\ Redirect(t, "confirmation")
     \/ /\ doc' = kept
        /\ UNCHANGED gas
        /\ Redirect(t, "confirmation") \/ Place(t, Shows("declaration"))

\* The pipeline lets the request through to enforcePagePermission and to the
\* engine, with the state it was given; "kept" is the document by now, which
\* a handler that saves overwrites.
Continue(t, kept) ==
  LET p == tabs[t].at
      refusal == Refusal(Session[t], p)
      shown == refusal = None /\ Reach(p) = p
  IN \/ ~shown /\ doc' = kept /\ UNCHANGED gas
        /\ IF refusal = None THEN Redirect(t, Reach(p)) ELSE Place(t, Shows(refusal))
     \/ shown /\ tabs[t].method = "get" /\ doc' = kept /\ Place(t, Shows(p)) /\ UNCHANGED gas
     \/ shown /\ tabs[t].method = "post" /\ (ConfirmDetails(t) \/ Answer(t) \/ Submit(t, kept))

\* formsRequestPipeline where GAS is not asked.
Decide(t) ==
  LET p == tabs[t].at
      stage == Stage(Session[t], tabs[t])
      to == CASE stage = "claim" -> ClaimStart(p) [] stage = "before" -> BeforeSubmission(p)
              [] stage = "deleted" -> "application-deleted" [] OTHER -> None
  IN /\ p \in Pages /\ stage # "ask"
     /\ IF stage = "forbidden" THEN Place(t, Shows("forbidden")) /\ UNCHANGED <<doc, gas>>
        ELSE IF to # None THEN Redirect(t, to) /\ UNCHANGED <<doc, gas>>
        ELSE Continue(t, doc)
     /\ IF stage \in {"deleted", "forbidden"} THEN UNCHANGED marker ELSE ConsumeMarker(t)
     /\ StillDue(t)
     /\ UNCHANGED grant

\* persistStatus
Persisted(status) ==
  IF status = "CLEARED" THEN [Empty EXCEPT !.status = "CLEARED"] ELSE [doc EXCEPT !.status = status]

(* Mutant: a navigation that a change of the status leads to is not recorded. *)
NeverMarked(rule) == None

\* The marker a redirect leaves: where it leads, if the status changed.
Marked(rule) == IF rule.to = doc.status THEN None ELSE rule.path

\* handlePostSubmission
Ask(t) ==
  /\ tabs[t].at \in Pages /\ Stage(Session[t], tabs[t]) = "ask"
  /\ gas # "UNKNOWN"
  /\ LET rule == MapStatusToUrl(doc.status, gas, grant.rules)
     IN \/ /\ rule.path = tabs[t].at
           /\ Continue(t, Persisted(rule.to))
           /\ ConsumeMarker(t)
           /\ StillDue(t)
        \/ /\ rule.path # tabs[t].at
           /\ doc' = Persisted(rule.to)
           /\ Redirect(t, rule.path)
           /\ marker' = [marker EXCEPT ![Session[t]] = Marked(rule)]
           /\ due' = IF rule.to = doc.status THEN NothingDue ELSE [tab |-> t, to |-> rule.path]
           /\ UNCHANGED gas
  /\ UNCHANGED grant

\* handlePostSubmissionError: 404 lets the request through, any other failure
\* leads to the fallback, whatever GAS knows and even after the status was saved.
AskFails(t) ==
  LET fallback == MapStatusToUrl("default", "default", grant.rules).path
      written == {Persisted(MapStatusToUrl(doc.status, g, grant.rules).to) : g \in {gas} \ {"UNKNOWN"}}
  IN /\ tabs[t].at \in Pages /\ Stage(Session[t], tabs[t]) = "ask"
     /\ \E kept \in {doc} \union {d \in written : d.status # "CLEARED"} :
          \/ (tabs[t].at = fallback \/ gas = "UNKNOWN") /\ Continue(t, kept)
          \/ tabs[t].at # fallback /\ doc' = kept /\ Redirect(t, fallback) /\ UNCHANGED gas
     /\ ConsumeMarker(t)
     /\ StillDue(t)
     /\ UNCHANGED grant

Serve(t) ==
  /\ tabs[t].busy
  /\ Root(t) \/ DeletedPage(t) \/ Decide(t) \/ Ask(t) \/ AskFails(t)

-----------------------------------------------------------------------------
(* Users, GAS and the backend.                                               *)

\* An address typed, or a link from elsewhere, sign-in included.
Enter(t, p) ==
  /\ ~tabs[t].busy
  /\ Place(t, Asks(p, "get", "none"))
  /\ due' = IF due.tab = t THEN NothingDue ELSE due
  /\ UNCHANGED <<grant, doc, gas, marker>>

\* A link of the page shown, a button that only leads on, or the way back.
Follow(t, p) ==
  /\ tabs[t].at \in Pages /\ ~tabs[t].busy
  /\ Place(t, Asks(p, "get", "same-origin"))
  /\ due' = IF due.tab = t THEN NothingDue ELSE due
  /\ UNCHANGED <<grant, doc, gas, marker>>

Post(t) ==
  /\ ~tabs[t].busy /\ tabs[t].at \in {"check-details", "question", "declaration", "application-deleted"}
  /\ Place(t, Asks(tabs[t].at, "post", "same-origin"))
  /\ due' = IF due.tab = t THEN NothingDue ELSE due
  /\ UNCHANGED <<grant, doc, gas, marker>>

\* External: GAS decides on what was submitted.
GasDecides ==
  /\ doc.status \notin DraftStatuses \union {"PURGED"}
  /\ gas' \in grant.statuses \ {gas}
  /\ UNCHANGED <<grant, doc, marker, tabs, due>>

\* External: the backend purges a draft left too long.
Purge ==
  /\ doc.status \in DraftStatuses \union {"REOPENED"} /\ doc # Empty
  /\ doc' = [doc EXCEPT !.status = "PURGED"]
  /\ due' = NothingDue
  /\ UNCHANGED <<grant, gas, marker, tabs>>

Next ==
  \/ \E t \in Tabs :
       \/ Serve(t) \/ Post(t)
       \/ \E p \in Entries : Enter(t, p)
       \/ \E p \in ToSet(grant.journey) : Follow(t, p)
  \/ GasDecides
  \/ Purge

Spec == Init /\ [][Next]_vars

\* A browser follows every redirect, and the server answers every request.
FairSpec == Spec /\ \A t \in Tabs : WF_vars(Serve(t))

-----------------------------------------------------------------------------
(* Properties.                                                               *)

\* Once the users start nothing new.
LeftAlone == <>[][\A t \in Tabs : ~tabs[t].busy => ~tabs'[t].busy]_vars

\* Every navigation comes to rest: redirects of the pipeline and of the
\* engine never send a browser round in circles, which is what the comments of
\* forms-status-redirect.js:846 and check-details.controller.js:303 are about.
EveryNavigationRests == LeftAlone => <>[](\A t \in Tabs : ~tabs[t].busy)

\* It does, whatever GAS and failures do meanwhile, unless a reopened or a
\* claimed application lacks an answer.
RestsUnlessIncomplete ==
  LeftAlone => <>[](\A t \in Tabs : tabs[t].busy =>
                      doc.status \in {"REOPENED"} \union ClaimStatuses /\ ~Complete)

\* A user sent to a page by a change of the status gets there, or is refused
\* it, and is not sent on by the rule for the new status.  This is said of an
\* application that is complete, as a withdrawn one that was emptied is not:
\* the engine leads that to its first unanswered page; and only as long as no
\* other request of anybody is served in between, for another tab of the
\* session would consume the one-shot marker.
StatusChangeArrives ==
  due.tab # None /\ Complete =>
    tabs[due.tab].at \in {due.to} \union
      IF Can(Session[due.tab], RequiredPermission(due.to)) THEN {} ELSE {"forbidden", "cannot-submit"}

Answers(d) == <<d.confirmed, d.pending, d.answered>>

\* Whatever way a request takes through the pipeline, only a user who may amend
\* changes an answer of a document that stays, and only one who may submit
\* makes an application submitted.
OnlyTheEntitled ==
  [][\A t \in Tabs : tabs'[t] # tabs[t] /\ tabs[t].busy =>
       /\ Answers(doc') \notin {Answers(doc), Answers(Empty)} => Can(Session[t], "amend")
       /\ doc'.status = "SUBMITTED" /\ doc.status # "SUBMITTED" => Can(Session[t], "submit")]_vars
=============================================================================
