------------------------ MODULE ApplicationLifecycle ------------------------
(***************************************************************************)
(* The life of one grant application: requests of the signed-in user (any  *)
(* number of tabs and sessions) read the saved document once, decide on    *)
(* that snapshot, and write the whole document back, while GAS holds what  *)
(* was really submitted.  A request is a little process: it gives way to   *)
(* the others at every call it awaits.                                     *)
(*                                                                         *)
(* External, modelled from how the code uses it: GAS, grants-ui-backend    *)
(* and the forms engine, which reads the state, gives it a reference if it *)
(* has none, runs the request pipeline and then the page's handler.        *)
(***************************************************************************)
EXTENDS StateStore, RedirectRules, FiniteSets

CONSTANTS Requests,     \* slots for requests being served at the same time
          Kinds,        \* the kinds of request the users make
          Refs,         \* bound: references that can be generated
          NoRef,
          Fields,       \* the questions of the form
          GasStatuses,  \* statuses GAS may report for an application it holds
          Rules         \* grantRedirectRules.postSubmission

VARIABLES minted,       \* history: each generated reference, with the
                        \* previousReferenceNumber of the state it went into
          ledger,       \* the applications GAS accepted: client reference and
                        \* previous client reference of each
          inFlight,     \* posts that nobody waits for any more
          gasStatus,    \* the status GAS reports for a client reference,
                        \* UNKNOWN while it answers 404
          submissions,  \* the backend's collection of submissions
          req           \* the requests being served

vars == <<doc, minted, ledger, inFlight, gasStatus, submissions, req>>

AllKinds == {"view", "confirmation", "question", "declaration", "deletedView", "deletedPost"}
EngineKinds == {"view", "confirmation", "question", "declaration"}

ASSUME KindsAssumption == Kinds \subseteq AllKinds
ASSUME NoRefAssumption == NoRef \notin Refs
ASSUME FieldsAssumption == Fields # {}
ASSUME GasStatusesAssumption == "UNKNOWN" \notin GasStatuses

(* No grant's rules turn a reopened application into a submitted one: only *)
(* a new submission does.                                                  *)
ASSUME RulesAssumption ==
  \A from \in {"SUBMITTED", "REOPENED"}, gas \in GasStatuses :
    HasRule(from, gas, Rules) =>
      /\ MapStatusToUrl(from, gas, Rules).to \in Status \ {"NONE", "PURGED"}
      /\ from = "REOPENED" => MapStatusToUrl(from, gas, Rules).to # "SUBMITTED"

States == [status : Status, ref : Refs \cup {NoRef}, prev : Refs \cup {NoRef},
           answers : SUBSET Fields]
Submissions == [ref : Refs \cup {NoRef}, prev : Refs \cup {NoRef}]

(* NoDoc is not a document. *)
ASSUME NoDocAssumption == NoDoc \notin States

EmptyState == [status |-> "NONE", ref |-> NoRef, prev |-> NoRef, answers |-> {}]

(* getState: the nested form state of the envelope, or {}. *)
StateOf(d) == IF d = NoDoc THEN EmptyState ELSE d

Idle == [pc |-> "idle", kind |-> "view", memo |-> NoDoc, ctx |-> EmptyState, to |-> "NONE"]

Init ==
  /\ doc = NoDoc
  /\ minted = [r \in {} |-> NoRef]
  /\ ledger = {}
  /\ inFlight = {}
  /\ gasStatus = [r \in Refs |-> "UNKNOWN"]
  /\ submissions = {}
  /\ req = [r \in Requests |-> Idle]

Goto(r, pc) == req' = [req EXCEPT ![r].pc = pc]
Finish(r) == req' = [req EXCEPT ![r] = Idle]

(* The pipeline redirects; or it goes on into the page with the snapshot   *)
(* it has, where the page requested is the one a rule leads to.            *)
Redirect(r) == Finish(r) \/ Goto(r, "handler")

(* Requests that will have a reference generated for them. *)
NeedsReference(r) == /\ req[r].pc = "loaded"
                     /\ req[r].kind \in EngineKinds
                     /\ req[r].ctx.ref = NoRef

(* Bound: a request that needs a reference comes in only while one is left. *)
ReferenceLeft ==
  Cardinality({q \in Requests : NeedsReference(q)}) < Cardinality(Refs \ DOMAIN minted)

(***************************************************************************)
(* A request comes in and its one read of the document is made; a read     *)
(* that fails ends the request with nothing written.                       *)
(***************************************************************************)
Load(r) ==
  /\ req[r].pc = "idle"
  /\ \E kind \in Kinds :
       /\ kind \in EngineKinds /\ StateOf(doc).ref = NoRef => ReferenceLeft
       /\ req' = [req EXCEPT ![r] = [pc |-> "loaded", kind |-> kind, memo |-> doc,
                                     ctx |-> StateOf(doc), to |-> "NONE"]]
  /\ UNCHANGED <<doc, minted, ledger, inFlight, gasStatus, submissions>>

(***************************************************************************)
(* The engine gives the state a reference when it has none, merging it     *)
(* into the object it was handed (the memoised one, when there is a        *)
(* document) and saving the result.                                        *)
(***************************************************************************)
EnsureReference(r) ==
  /\ NeedsReference(r)
  /\ \E n \in Refs \ DOMAIN minted :
       LET named == [req[r].ctx EXCEPT !.ref = n]
       IN  /\ minted' = [m \in DOMAIN minted \cup {n} |->
                           IF m = n THEN named.prev ELSE minted[m]]
           /\ Save(named)
           /\ req' = [req EXCEPT ![r].ctx = named,
                                 ![r].memo = IF @ = NoDoc THEN NoDoc ELSE named]
  /\ UNCHANGED <<ledger, inFlight, gasStatus, submissions>>

(***************************************************************************)
(* What formsRequestPipeline may do with a request, from the status in its *)
(* snapshot: "end" (redirect or refuse), "handler" (let it through) or     *)
(* "lookup" (ask GAS).  Where two appear the choice depends on the path,   *)
(* on excludedPaths, sec-fetch-site, checkDetailsChangesPending or the     *)
(* one-shot marker of a status change.                                     *)
(***************************************************************************)
PipelineOutcomes(status, kind) ==
  CASE status = "PURGED"                               -> {"end"}
    [] status \in {"CLAIM_STARTED", "CLAIM_SUBMITTED"} -> {"end", "handler"}
    [] status # "SUBMITTED" /\ kind = "confirmation"   -> {"end"}
    [] status \in {"NONE", "CLEARED"}                  -> {"end", "handler"}
    [] OTHER                                           -> {"lookup", "handler"}

Pipeline(r) ==
  /\ req[r].pc = "loaded"
  /\ req[r].kind \in EngineKinds
  /\ req[r].ctx.ref # NoRef
  /\ \E outcome \in PipelineOutcomes(req[r].ctx.status, req[r].kind) :
       IF outcome = "end" THEN Finish(r) ELSE Goto(r, outcome)
  /\ UNCHANGED <<doc, minted, ledger, inFlight, gasStatus, submissions>>

(* resolveClientReference. *)
ClientReference(state) ==
  IF state.status = "REOPENED" /\ state.prev # NoRef THEN state.prev ELSE state.ref

(* Mutant: persistStatus without its early return for an unchanged status. *)
GasLookupReopeningAgain(r) ==
  /\ req[r].pc = "lookup"
  /\ IF gasStatus[ClientReference(req[r].ctx)] = "UNKNOWN"
       THEN Goto(r, "handler")
       ELSE req' = [req EXCEPT ![r].to = "REOPENED", ![r].pc = "reopening"]
  /\ UNCHANGED <<doc, minted, ledger, inFlight, gasStatus, submissions>>

(***************************************************************************)
(* handlePostSubmission up to its first write.  GAS may not know the       *)
(* reference (404: the request goes on), may report a status, or may fail; *)
(* a failure, or a status no rule covers, redirects to the fallback page.  *)
(***************************************************************************)
GasLookup(r) ==
  /\ req[r].pc = "lookup"
  /\ LET state  == req[r].ctx
         answer == gasStatus[ClientReference(state)]
         target == MapStatusToUrl(state.status, answer, Rules).to
     IN  \/ /\ answer = "UNKNOWN"
            /\ Goto(r, "handler")
         \/ /\ answer # "UNKNOWN"
            /\ HasRule(state.status, answer, Rules)
            /\ target # state.status
            /\ req' = [req EXCEPT ![r].to = target,
                                  ![r].pc = CASE target = "CLEARED"  -> "clearing"
                                              [] target = "REOPENED" -> "reopening"
                                              [] OTHER               -> "patching"]
         \/ /\ answer # "UNKNOWN"
            /\ HasRule(state.status, answer, Rules) => target = state.status
            /\ Redirect(r)
         \/ Redirect(r)    \* GAS cannot be reached or answers with an error
  /\ UNCHANGED <<doc, minted, ledger, inFlight, gasStatus, submissions>>

(* Mutant: the withdrawn application is kept, and only its status changed. *)
ClearKeepingTheRest(r) ==
  /\ req[r].pc = "clearing"
  /\ Save([req[r].ctx EXCEPT !.status = "CLEARED"])
  /\ Redirect(r)
  /\ UNCHANGED <<minted, ledger, inFlight, gasStatus, submissions>>

(* persistStatus, CLEARED: everything but the status is dropped. *)
Clear(r) ==
  /\ req[r].pc = "clearing"
  /\ Save([EmptyState EXCEPT !.status = "CLEARED"])
  /\ Redirect(r)
  /\ UNCHANGED <<minted, ledger, inFlight, gasStatus, submissions>>

(* Mutants: the reopened document keeps its reference; it forgets it. *)
ReopenedKeepingReference(state) == [state EXCEPT !.status = "REOPENED", !.prev = state.ref]
ReopenedForgettingReference(state) == [state EXCEPT !.status = "REOPENED", !.ref = NoRef]

(* persistStatus, REOPENED: the reference becomes the previous reference.  *)
Reopened(state) ==
  [status |-> "REOPENED", ref |-> NoRef, prev |-> state.ref, answers |-> state.answers]

(* The save resolves even when it was lost, and the PATCH follows; a state *)
(* over the size limit is thrown and ends in the fallback redirect.        *)
Reopen(r) ==
  /\ req[r].pc = "reopening"
  /\ \/ Save(Reopened(req[r].ctx)) /\ Goto(r, "patching")
     \/ Redirect(r) /\ UNCHANGED doc
  /\ UNCHANGED <<minted, ledger, inFlight, gasStatus, submissions>>

(* persistStatus, any status but CLEARED: PATCH the stored document. *)
Patch(r) ==
  /\ req[r].pc = "patching"
  /\ PatchStatus(req[r].to)
  /\ Redirect(r)
  /\ UNCHANGED <<minted, ledger, inFlight, gasStatus, submissions>>

(***************************************************************************)
(* The page handlers.  A GET, a page that has validation errors and a page *)
(* the user may not use end the request with nothing written.  A question  *)
(* page saves the snapshot with its answer.  The declaration page submits  *)
(* once the engine finds every question answered.                          *)
(***************************************************************************)
Render(r) ==
  /\ req[r].pc = "handler"
  /\ Finish(r)
  /\ UNCHANGED <<doc, minted, ledger, inFlight, gasStatus, submissions>>

Answer(r) ==
  /\ req[r].pc = "handler"
  /\ req[r].kind = "question"
  /\ \E f \in Fields : Save([req[r].ctx EXCEPT !.answers = @ \cup {f}])
  /\ Finish(r)
  /\ UNCHANGED <<minted, ledger, inFlight, gasStatus, submissions>>

Declare(r) ==
  /\ req[r].pc = "handler"
  /\ req[r].kind = "declaration"
  /\ req[r].ctx.answers = Fields
  /\ Goto(r, "submitting")
  /\ UNCHANGED <<doc, minted, ledger, inFlight, gasStatus, submissions>>

(* The payload's clientRef and previousClientRef: buildIdentifiers. *)
Payload(state) == [ref |-> state.ref, prev |-> state.prev]

(* POST to GAS lands. *)
Accept(payload) == ledger' = ledger \cup {payload}

(* Mutant: the answer of GAS is not looked at. *)
SubmitTrustingAnyAnswer(r) ==
  /\ req[r].pc = "submitting"
  /\ \/ Accept(Payload(req[r].ctx))
     \/ UNCHANGED ledger
  /\ Goto(r, "marking")
  /\ UNCHANGED <<doc, minted, inFlight, gasStatus, submissions>>

(* Mutant: a post that timed out is tried again, however often. *)
SubmitRetryingForEver(r) ==
  /\ req[r].pc = "submitting"
  /\ \/ Accept(Payload(req[r].ctx)) /\ Goto(r, "marking") /\ UNCHANGED inFlight
     \/ inFlight' = inFlight \cup {Payload(req[r].ctx)} /\ UNCHANGED <<ledger, req>>
  /\ UNCHANGED <<doc, minted, gasStatus, submissions>>

(***************************************************************************)
(* submitGrantApplication.  The application may land and be acknowledged   *)
(* with 204.  Any other answer, and a time-out on the last attempt, end    *)
(* the request with an error page; but a post that has timed out is not    *)
(* cancelled, and may land at any later time or never.                     *)
(***************************************************************************)
Submit(r) ==
  /\ req[r].pc = "submitting"
  /\ \/ /\ Accept(Payload(req[r].ctx))
        /\ Goto(r, "marking")
        /\ UNCHANGED inFlight
     \/ /\ inFlight' = inFlight \cup {Payload(req[r].ctx)}
        /\ Finish(r)
        /\ UNCHANGED ledger
  /\ UNCHANGED <<doc, minted, gasStatus, submissions>>

Land(payload) ==
  /\ payload \in inFlight
  /\ Accept(payload)
  /\ inFlight' = inFlight \ {payload}
  /\ UNCHANGED <<doc, minted, gasStatus, submissions, req>>

(* handleSuccessfulSubmission writes back the memoised state, not a fresh  *)
(* read; a state over the size limit is thrown and shown as an error.      *)
MarkSubmitted(r) ==
  /\ req[r].pc = "marking"
  /\ \/ Save([StateOf(req[r].memo) EXCEPT !.status = "SUBMITTED"]) /\ Goto(r, "recording")
     \/ Finish(r) /\ UNCHANGED doc
  /\ UNCHANGED <<minted, ledger, inFlight, gasStatus, submissions>>

(* persistSubmissionToApi, whose failures are swallowed too. *)
RecordSubmission(r) ==
  /\ req[r].pc = "recording"
  /\ submissions' \in {submissions \cup {Payload(req[r].ctx)}}
                        \cup (IF Lossy THEN {submissions} ELSE {})
  /\ Finish(r)
  /\ UNCHANGED <<doc, minted, ledger, inFlight, gasStatus>>

(***************************************************************************)
(* The application-deleted page, outside the engine: showing it reduces a  *)
(* purged document to its status, leaving it deletes the document.         *)
(***************************************************************************)
ShowDeleted(r) ==
  /\ req[r].pc = "loaded"
  /\ req[r].kind = "deletedView"
  /\ IF req[r].ctx.status = "PURGED"
       THEN Save([EmptyState EXCEPT !.status = "PURGED"])
       ELSE UNCHANGED doc
  /\ Finish(r)
  /\ UNCHANGED <<minted, ledger, inFlight, gasStatus, submissions>>

LeaveDeleted(r) ==
  /\ req[r].pc = "loaded"
  /\ req[r].kind = "deletedPost"
  /\ Discard
  /\ Finish(r)
  /\ UNCHANGED <<minted, ledger, inFlight, gasStatus, submissions>>

(* External: GAS reports an application it holds, sooner or later after    *)
(* accepting it, and moves it to any other status.                         *)
GasDecides(entry) ==
  /\ \E s \in GasStatuses \ {gasStatus[entry.ref]} :
       gasStatus' = [gasStatus EXCEPT ![entry.ref] = s]
  /\ UNCHANGED <<doc, minted, ledger, inFlight, submissions, req>>

(* External: the backend purges an application left as a draft too long. *)
Purge ==
  /\ StateOf(doc).status \in {"NONE", "REOPENED", "CLEARED"}
  /\ doc # NoDoc
  /\ doc' = [doc EXCEPT !.status = "PURGED"]
  /\ UNCHANGED <<minted, ledger, inFlight, gasStatus, submissions, req>>

Serve(r) ==
  \/ EnsureReference(r) \/ Pipeline(r) \/ GasLookup(r)
  \/ Clear(r) \/ Reopen(r) \/ Patch(r)
  \/ Render(r) \/ Answer(r) \/ Declare(r)
  \/ Submit(r) \/ MarkSubmitted(r) \/ RecordSubmission(r)
  \/ ShowDeleted(r) \/ LeaveDeleted(r)

Next ==
  \/ \E r \in Requests : Load(r) \/ Serve(r)
  \/ \E payload \in inFlight : Land(payload)
  \/ \E entry \in ledger : GasDecides(entry)
  \/ Purge

Spec == Init /\ [][Next]_vars

(* Every await of a handler resolves: GAS calls are timed out, and Node    *)
(* runs each continuation.                                                 *)
FairSpec == Spec /\ \A r \in Requests : WF_vars(Serve(r))

-----------------------------------------------------------------------------
Pcs == {"idle", "loaded", "lookup", "handler", "clearing", "reopening", "patching",
        "submitting", "marking", "recording"}

RequestType == [pc : Pcs, kind : AllKinds, memo : States \cup {NoDoc}, ctx : States, to : Status]

(* Every variable has its type. *)
TypeOK ==
  /\ doc \in States \cup {NoDoc}
  /\ DOMAIN minted \subseteq Refs
  /\ minted \in [DOMAIN minted -> Refs \cup {NoRef}]
  /\ ledger \subseteq Submissions
  /\ inFlight \subseteq Submissions
  /\ gasStatus \in [Refs -> GasStatuses \cup {"UNKNOWN"}]
  /\ submissions \subseteq Submissions
  /\ req \in [Requests -> RequestType]

(* The references of the applications GAS has accepted. *)
RefsOf(entries) == {entry.ref : entry \in entries}
Held == RefsOf(ledger)

(* A document that says SUBMITTED holds a reference GAS accepted, whatever *)
(* was lost, refused, or written by another tab between reading the        *)
(* document and writing it back.                                           *)
SubmittedIsAccepted == doc # NoDoc /\ doc.status = "SUBMITTED" => doc.ref \in Held

(* The previous reference in a saved document is an application GAS        *)
(* accepted, and never the reference the document itself goes by.          *)
PredecessorIsAccepted ==
  doc # NoDoc /\ doc.prev # NoRef => doc.prev \in Held /\ doc.prev # doc.ref

(* An application that starts afresh after a withdrawal does not go on as  *)
(* an amendment of the one withdrawn.                                      *)
ClearedStartsAfresh == doc # NoDoc /\ doc.status = "CLEARED" => doc.prev = NoRef

(* The backend's submissions collection lists no submission, and no        *)
(* predecessor of one, that GAS did not accept.                            *)
RecordedIsAccepted == submissions \subseteq ledger

(***************************************************************************)
(* The strengthening of the invariants above that every step preserves.    *)
(* The documents are as good as the snapshots written back over them, so   *)
(* the same is asked of both; the history of the generated references ties *)
(* each reference to one predecessor, and the rest says how far a request  *)
(* has got when it holds a snapshot.                                       *)
(***************************************************************************)
SoundState(state, entries, named) ==
  /\ state.status = "SUBMITTED" => state.ref \in RefsOf(entries)
  /\ state.prev # NoRef => state.prev \in RefsOf(entries) /\ state.prev # state.ref
  /\ state.status = "CLEARED" => state.prev = NoRef
  /\ state.ref # NoRef => state.ref \in DOMAIN named /\ named[state.ref] = state.prev

SoundPayloads(payloads, entries, named) ==
  \A entry \in payloads :
    /\ entry.ref \in DOMAIN named
    /\ named[entry.ref] = entry.prev
    /\ entry.prev # NoRef => entry.prev \in RefsOf(entries) /\ entry.prev # entry.ref

SoundRequest(q, entries, named) ==
  /\ SoundState(q.ctx, entries, named)
  /\ q.memo \in {NoDoc, q.ctx}
  /\ q.memo = NoDoc => q.ctx.answers = {}
  /\ q.pc \notin {"idle", "loaded"} => q.ctx.ref # NoRef
  /\ q.pc = "lookup" => q.ctx.status \in {"SUBMITTED", "REOPENED"}
  /\ q.pc = "reopening" => q.ctx.status = "SUBMITTED" /\ q.to = "REOPENED"
  /\ q.pc = "patching" => q.to \notin {"SUBMITTED", "CLEARED"}
  /\ q.pc \in {"submitting", "marking", "recording"} => q.ctx.answers = Fields
  /\ q.pc \in {"marking", "recording"} => Payload(q.ctx) \in entries

IInv ==
  /\ doc # NoDoc => SoundState(doc, ledger, minted)
  /\ SoundPayloads(ledger, ledger, minted)
  /\ SoundPayloads(inFlight, ledger, minted)
  /\ submissions \subseteq ledger
  /\ \A r \in Requests : SoundRequest(req[r], ledger, minted)

(* For a user of one tab: what is resubmitted for a reopened application   *)
(* stays linked to what GAS holds, going under a reference GAS accepted or *)
(* naming one, whichever saves of the reopened state are lost.  With such  *)
(* a loss it names none, whatever grant-application.service.js:211 says of *)
(* re-submissions ("carries `previousClientRef`").                         *)
ResubmissionIsLinked ==
  \A r \in Requests :
    req[r].pc = "submitting" /\ req[r].ctx.status = "REOPENED"
      => {req[r].ctx.ref, req[r].ctx.prev} \cap Held # {}

(* Every request is answered: no handler is left waiting for a step that   *)
(* cannot come.                                                            *)
EveryRequestEnds == \A r \in Requests : req[r].pc # "idle" ~> req[r].pc = "idle"

(* What the whole keeps of the abstract ledger of submissions. *)
Ledger == INSTANCE SubmissionLedger
            WITH shown <- IF doc # NoDoc /\ doc.status = "SUBMITTED" THEN doc.ref ELSE NoRef

(* Requests, snapshots, lost writes and stale tabs never make the ledger   *)
(* of submissions do what its specification does not allow.                *)
ImplementsLedger == Ledger!Spec
=============================================================================
