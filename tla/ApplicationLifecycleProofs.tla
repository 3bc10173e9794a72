--------------------- MODULE ApplicationLifecycleProofs ---------------------
(***************************************************************************)
(* Proofs about ApplicationLifecycle, for any number of requests served at *)
(* once, any references, questions and GAS statuses, any redirect rules    *)
(* that keep RulesAssumption, and whether or not writes may be lost.       *)
(***************************************************************************)
EXTENDS ApplicationLifecycle, TLAPS

(* The empty state is a state. *)
LEMMA EmptyStateType == EmptyState \in States
  BY DEF EmptyState, States, Status

(* A request slot that serves nothing is well typed. *)
LEMMA IdleType == Idle \in RequestType
  BY EmptyStateType DEF Idle, RequestType, Pcs, AllKinds, Status

(* Where a status change leads, when a rule covers it. *)
LEMMA TargetType ==
  ASSUME NEW state \in States, state.status \in {"SUBMITTED", "REOPENED"},
         NEW gas \in GasStatuses, HasRule(state.status, gas, Rules)
  PROVE  MapStatusToUrl(state.status, gas, Rules).to \in Status
  BY RulesAssumption

-----------------------------------------------------------------------------
(* The type invariant. *)

(* The first state is well typed. *)
LEMMA TypeInit == Init => TypeOK
  BY EmptyStateType, IdleType DEF Init, TypeOK, Submissions

(* What a save or a PATCH leaves is a document or none. *)
LEMMA SaveType ==
  ASSUME TypeOK, NEW state \in States, Save(state) PROVE doc' \in States \cup {NoDoc}
  BY DEF Save, Written, TypeOK

(* A PATCH of the status leaves a document or none. *)
LEMMA PatchType ==
  ASSUME TypeOK, NEW status \in Status, PatchStatus(status)
  PROVE  doc' \in States \cup {NoDoc}
<1>1. CASE doc = NoDoc
  BY <1>1 DEF PatchStatus
<1>2. CASE doc # NoDoc
  <2>1. [doc EXCEPT !.status = status] \in States
    BY <1>2 DEF TypeOK, States
  <2>2. QED
    BY <1>2, <2>1 DEF PatchStatus, Written, TypeOK
<1>3. QED
  BY <1>1, <1>2

(* Ending a request, and moving it on, leave it well typed. *)
LEMMA FinishType ==
  ASSUME req \in [Requests -> RequestType], NEW r \in Requests, Finish(r)
  PROVE  req' \in [Requests -> RequestType]
  BY IdleType DEF Finish

(* Moving a request on leaves it well typed. *)
LEMMA GotoType ==
  ASSUME req \in [Requests -> RequestType], NEW r \in Requests, NEW pc \in Pcs, Goto(r, pc)
  PROVE  req' \in [Requests -> RequestType]
  BY DEF Goto, RequestType

LEMMA RedirectType ==
  ASSUME req \in [Requests -> RequestType], NEW r \in Requests, Redirect(r)
  PROVE  req' \in [Requests -> RequestType]
  BY FinishType, GotoType DEF Redirect, Pcs

(* Every step keeps the types; that GAS is asked with a reference, about a *)
(* status the rules are for, comes from the inductive invariant.           *)
LEMMA TypeStep == ASSUME TypeOK, IInv, [Next]_vars PROVE TypeOK'
<1> USE DEF TypeOK
<1>1. ASSUME NEW r \in Requests, Load(r) PROVE TypeOK'
  <2>1. StateOf(doc) \in States
    BY EmptyStateType DEF StateOf
  <2>2. QED
    BY <1>1, <2>1, KindsAssumption DEF Load, RequestType, Pcs, Status
<1>2. ASSUME NEW r \in Requests, EnsureReference(r) PROVE TypeOK'
  <2>1. PICK n \in Refs \ DOMAIN minted :
          /\ minted' = [m \in DOMAIN minted \cup {n} |->
                          IF m = n THEN req[r].ctx.prev ELSE minted[m]]
          /\ Save([req[r].ctx EXCEPT !.ref = n])
          /\ req' = [req EXCEPT ![r].ctx = [req[r].ctx EXCEPT !.ref = n],
                                ![r].memo = IF @ = NoDoc THEN NoDoc
                                            ELSE [req[r].ctx EXCEPT !.ref = n]]
    BY <1>2 DEF EnsureReference, RequestType, States
  <2>2. [req[r].ctx EXCEPT !.ref = n] \in States
    BY DEF RequestType, States
  <2>3. doc' \in States \cup {NoDoc}
    BY <2>1, <2>2, SaveType
  <2>4. DOMAIN minted' \subseteq Refs /\ minted' \in [DOMAIN minted' -> Refs \cup {NoRef}]
    BY <2>1 DEF RequestType, States
  <2>5. req' \in [Requests -> RequestType]
    BY <2>1, <2>2 DEF RequestType
  <2>6. QED
    BY <1>2, <2>3, <2>4, <2>5 DEF EnsureReference
<1>3. ASSUME NEW r \in Requests, Pipeline(r) PROVE TypeOK'
  <2>1. PICK outcome \in {"end", "lookup", "handler"} :
          IF outcome = "end" THEN Finish(r) ELSE Goto(r, outcome)
    BY <1>3 DEF Pipeline, PipelineOutcomes
  <2>2. req' \in [Requests -> RequestType]
    BY <2>1, FinishType, GotoType DEF Pcs
  <2>3. QED
    BY <1>3, <2>2 DEF Pipeline
<1>4. ASSUME NEW r \in Requests, GasLookup(r) PROVE TypeOK'
  <2> DEFINE state  == req[r].ctx
             answer == gasStatus[ClientReference(state)]
             target == MapStatusToUrl(state.status, answer, Rules).to
  <2>1. CASE Goto(r, "handler") \/ Redirect(r)
    BY <1>4, <2>1, RedirectType, GotoType DEF GasLookup, Pcs
  <2>2. CASE /\ answer # "UNKNOWN"
             /\ HasRule(state.status, answer, Rules)
             /\ req' = [req EXCEPT ![r].to = target,
                                   ![r].pc = CASE target = "CLEARED"  -> "clearing"
                                               [] target = "REOPENED" -> "reopening"
                                               [] OTHER               -> "patching"]
    <3>1. state \in States /\ SoundRequest(req[r], ledger, minted) /\ req[r].pc = "lookup"
      BY <1>4 DEF GasLookup, IInv, RequestType
    <3>2. state.status \in {"SUBMITTED", "REOPENED"} /\ state.ref # NoRef
      BY <3>1 DEF SoundRequest
    <3>3. ClientReference(state) \in Refs
      BY <3>1, <3>2 DEF ClientReference, States
    <3>4. answer \in GasStatuses
      BY <2>2, <3>3
    <3>5. target \in Status
      BY <2>2, <3>1, <3>2, <3>4, TargetType
    <3>6. QED
      BY <1>4, <2>2, <3>5 DEF GasLookup, RequestType, Pcs
  <2>3. QED
    BY <1>4, <2>1, <2>2 DEF GasLookup
<1>5. ASSUME NEW r \in Requests, Clear(r) PROVE TypeOK'
  <2>1. [EmptyState EXCEPT !.status = "CLEARED"] \in States
    BY EmptyStateType DEF States, Status
  <2>2. QED
    BY <1>5, <2>1, SaveType, RedirectType DEF Clear
<1>6. ASSUME NEW r \in Requests, Reopen(r) PROVE TypeOK'
  <2>1. Reopened(req[r].ctx) \in States
    BY DEF Reopened, RequestType, States, Status
  <2>2. doc' \in States \cup {NoDoc}
    BY <1>6, <2>1, SaveType DEF Reopen
  <2>3. req' \in [Requests -> RequestType]
    BY <1>6, RedirectType, GotoType DEF Reopen, Pcs
  <2>4. QED
    BY <1>6, <2>2, <2>3 DEF Reopen
<1>7. ASSUME NEW r \in Requests, Patch(r) PROVE TypeOK'
  <2>1. req[r].to \in Status
    BY DEF RequestType
  <2>2. QED
    BY <1>7, <2>1, PatchType, RedirectType DEF Patch
<1>8. ASSUME NEW r \in Requests, Render(r) PROVE TypeOK'
  BY <1>8, FinishType DEF Render
<1>9. ASSUME NEW r \in Requests, Answer(r) PROVE TypeOK'
  <2>1. PICK f \in Fields : Save([req[r].ctx EXCEPT !.answers = @ \cup {f}])
    BY <1>9 DEF Answer
  <2>2. [req[r].ctx EXCEPT !.answers = @ \cup {f}] \in States
    BY DEF RequestType, States
  <2>3. doc' \in States \cup {NoDoc}
    BY <2>1, <2>2, SaveType
  <2>4. QED
    BY <1>9, <2>3, FinishType DEF Answer
<1>10. ASSUME NEW r \in Requests, Declare(r) PROVE TypeOK'
  BY <1>10, GotoType DEF Declare, Pcs
<1>11. ASSUME NEW r \in Requests, Submit(r) PROVE TypeOK'
  <2>1. Payload(req[r].ctx) \in Submissions
    BY DEF Payload, RequestType, States, Submissions
  <2>2. /\ ledger' \subseteq Submissions /\ inFlight' \subseteq Submissions
        /\ gasStatus' \in [Refs -> GasStatuses \cup {"UNKNOWN"}]
    BY <1>11, <2>1, GasStatusesAssumption DEF Submit, Accept
  <2>3. req' \in [Requests -> RequestType]
    BY <1>11, FinishType, GotoType DEF Submit, Pcs
  <2>4. QED
    BY <1>11, <2>2, <2>3 DEF Submit
<1>12. ASSUME NEW r \in Requests, MarkSubmitted(r) PROVE TypeOK'
  <2>1. [StateOf(req[r].memo) EXCEPT !.status = "SUBMITTED"] \in States
    BY EmptyStateType DEF StateOf, RequestType, States, Status
  <2>2. doc' \in States \cup {NoDoc}
    BY <1>12, <2>1, SaveType DEF MarkSubmitted
  <2>3. req' \in [Requests -> RequestType]
    BY <1>12, FinishType, GotoType DEF MarkSubmitted, Pcs
  <2>4. QED
    BY <1>12, <2>2, <2>3 DEF MarkSubmitted
<1>13. ASSUME NEW r \in Requests, RecordSubmission(r) PROVE TypeOK'
  <2>1. Payload(req[r].ctx) \in Submissions
    BY DEF Payload, RequestType, States, Submissions
  <2>2. QED
    BY <1>13, <2>1, FinishType DEF RecordSubmission
<1>14. ASSUME NEW r \in Requests, ShowDeleted(r) PROVE TypeOK'
  <2>1. [EmptyState EXCEPT !.status = "PURGED"] \in States
    BY EmptyStateType DEF States, Status
  <2>2. doc' \in States \cup {NoDoc}
    BY <1>14, <2>1, SaveType DEF ShowDeleted
  <2>3. QED
    BY <1>14, <2>2, FinishType DEF ShowDeleted
<1>15. ASSUME NEW r \in Requests, LeaveDeleted(r) PROVE TypeOK'
  BY <1>15, FinishType DEF LeaveDeleted, Discard
<1>16. ASSUME NEW entry \in ledger, GasDecides(entry) PROVE TypeOK'
  BY <1>16 DEF GasDecides
<1>17. ASSUME Purge PROVE TypeOK'
  BY <1>17 DEF Purge, States, Status
<1>18. ASSUME NEW payload \in inFlight, Land(payload) PROVE TypeOK'
  BY <1>18, GasStatusesAssumption DEF Land, Accept
<1>19. CASE UNCHANGED vars
  BY <1>19 DEF vars
<1>20. QED
  BY <1>1, <1>2, <1>3, <1>4, <1>5, <1>6, <1>7, <1>8, <1>9, <1>10, <1>11, <1>12, <1>13,
     <1>14, <1>15, <1>16, <1>17, <1>18, <1>19 DEF Next, Serve

-----------------------------------------------------------------------------
(* The inductive invariant. *)

(* Nothing sound stops being so when GAS accepts more, or when another     *)
(* reference is generated.                                                 *)
Extends(named, new) == \A ref \in DOMAIN named : ref \in DOMAIN new /\ new[ref] = named[ref]

(* More entries hold more references. *)
LEMMA RefsOfGrows ==
  ASSUME NEW old, NEW new, old \subseteq new PROVE RefsOf(old) \subseteq RefsOf(new)
  BY DEF RefsOf

(* A state stays sound while the ledger and the history grow. *)
LEMMA SoundStateGrows ==
  ASSUME NEW old, NEW new, old \subseteq new,
         NEW named, NEW renamed, Extends(named, renamed),
         NEW state, SoundState(state, old, named)
  PROVE  SoundState(state, new, renamed)
  BY RefsOfGrows DEF SoundState, Extends

(* So does a request. *)
LEMMA SoundRequestGrows ==
  ASSUME NEW old, NEW new, old \subseteq new,
         NEW named, NEW renamed, Extends(named, renamed),
         NEW q, SoundRequest(q, old, named)
  PROVE  SoundRequest(q, new, renamed)
  BY SoundStateGrows DEF SoundRequest

(* So do payloads. *)
LEMMA SoundPayloadsGrows ==
  ASSUME NEW old, NEW new, old \subseteq new,
         NEW named, NEW renamed, Extends(named, renamed),
         NEW payloads, SoundPayloads(payloads, old, named)
  PROVE  SoundPayloads(payloads, new, renamed)
  BY RefsOfGrows DEF SoundPayloads, Extends

(* What a step has to show: that the document it leaves and the request it *)
(* moves are sound.                                                        *)
LEMMA IInvKept ==
  ASSUME IInv, NEW r \in Requests,
         ledger \subseteq ledger', Extends(minted, minted'),
         doc' = doc \/ doc' = NoDoc \/ SoundState(doc', ledger', minted'),
         SoundRequest(req'[r], ledger', minted'),
         \A q \in Requests \ {r} : req'[q] = req[q],
         submissions' \subseteq ledger',
         SoundPayloads(ledger', ledger', minted'), SoundPayloads(inFlight', ledger', minted')
  PROVE  IInv'
<1>1. doc' # NoDoc => SoundState(doc', ledger', minted')
  BY SoundStateGrows DEF IInv
<1>2. ASSUME NEW q \in Requests PROVE SoundRequest(req'[q], ledger', minted')
  BY SoundRequestGrows DEF IInv
<1>3. QED
  BY <1>1, <1>2 DEF IInv

(* An empty state is sound, unless it claims to be submitted. *)
LEMMA EmptyStateSound ==
  ASSUME NEW status \in Status \ {"SUBMITTED"}, NEW entries, NEW named
  PROVE  SoundState([EmptyState EXCEPT !.status = status], entries, named)
  BY DEF EmptyState, SoundState

(* A sound state stays sound when it is given a reference never used       *)
(* before, once the history has it.                                        *)
LEMMA NamedSound ==
  ASSUME NEW state \in States, NEW entries, NEW old, NEW new, NEW n \in Refs,
         SoundState(state, entries, old), state.status # "SUBMITTED",
         n \notin RefsOf(entries), n \in DOMAIN new, new[n] = state.prev
  PROVE  SoundState([state EXCEPT !.ref = n], entries, new)
<1>1. /\ [state EXCEPT !.ref = n].status = state.status
      /\ [state EXCEPT !.ref = n].prev = state.prev
      /\ [state EXCEPT !.ref = n].ref = n
  BY DEF States
<1>2. QED
  BY <1>1 DEF SoundState

(* A slot that serves nothing is sound. *)
LEMMA IdleSound == ASSUME NEW entries, NEW named PROVE SoundRequest(Idle, entries, named)
  BY DEF Idle, EmptyState, SoundState, SoundRequest

(* The invariant holds at first. *)
LEMMA IInvInit == Init => IInv
  BY IdleSound DEF Init, IInv, SoundPayloads

(* A step that only ends the request, or a step of no request, disturbs    *)
(* nothing the invariant speaks of.                                        *)
LEMMA IInvFinish ==
  ASSUME TypeOK, IInv, NEW r \in Requests, Finish(r),
         UNCHANGED <<minted, ledger, inFlight>>, submissions' \subseteq ledger,
         doc' = doc \/ doc' = NoDoc \/ SoundState(doc', ledger, minted)
  PROVE  IInv'
<1>1. SoundRequest(req'[r], ledger', minted')
  BY IdleSound DEF Finish, TypeOK
<1>2. Extends(minted, minted')
  BY DEF Extends
<1>3. QED
  BY <1>1, <1>2, IInvKept DEF IInv, Finish, TypeOK

(* The same, for a step that moves the request on.                         *)
LEMMA IInvGoto ==
  ASSUME TypeOK, IInv, NEW r \in Requests, NEW pc, Goto(r, pc),
         UNCHANGED <<minted, ledger, inFlight, submissions>>,
         doc' = doc \/ doc' = NoDoc \/ SoundState(doc', ledger, minted),
         SoundRequest([req[r] EXCEPT !.pc = pc], ledger, minted)
  PROVE  IInv'
<1>1. SoundRequest(req'[r], ledger', minted')
  BY DEF Goto, TypeOK
<1>2. Extends(minted, minted')
  BY DEF Extends
<1>3. QED
  BY <1>1, <1>2, IInvKept DEF IInv, Goto, TypeOK

(* The same, for a redirect of the pipeline.                               *)
LEMMA IInvRedirect ==
  ASSUME TypeOK, IInv, NEW r \in Requests, req[r].pc \notin {"idle", "loaded"}, Redirect(r),
         UNCHANGED <<minted, ledger, inFlight, submissions>>,
         doc' = doc \/ doc' = NoDoc \/ SoundState(doc', ledger, minted)
  PROVE  IInv'
<1>1. SoundRequest(req[r], ledger, minted) /\ req[r] \in RequestType
  BY DEF IInv, TypeOK
<1>2. SoundRequest([req[r] EXCEPT !.pc = "handler"], ledger, minted)
  BY <1>1 DEF RequestType, SoundRequest
<1>3. QED
  BY <1>2, IInvFinish, IInvGoto DEF Redirect, IInv

(* GAS may accept any sound payload. *)
LEMMA AcceptSound ==
  ASSUME IInv, NEW entry, SoundPayloads({entry}, ledger, minted),
         ledger' = ledger \cup {entry}, minted' = minted, inFlight' \subseteq inFlight
  PROVE  SoundPayloads(ledger', ledger', minted') /\ SoundPayloads(inFlight', ledger', minted')
  BY RefsOfGrows DEF IInv, SoundPayloads

(* Every step keeps the inductive invariant. *)
LEMMA IInvStep == ASSUME TypeOK, IInv, [Next]_vars PROVE IInv'
<1>1. ASSUME NEW r \in Requests, Load(r) PROVE IInv'
  <2>1. SoundRequest(req'[r], ledger', minted')
    BY <1>1, IdleSound DEF Load, IInv, TypeOK, SoundRequest, SoundState, StateOf, EmptyState
  <2>2. Extends(minted, minted')
    BY <1>1 DEF Load, Extends
  <2>3. QED
    BY <1>1, <2>1, <2>2, IInvKept DEF Load, IInv, TypeOK
<1>2. ASSUME NEW r \in Requests, EnsureReference(r) PROVE IInv'
  <2>1. req[r] \in RequestType /\ req[r].ctx \in States /\ SoundRequest(req[r], ledger, minted)
    BY DEF TypeOK, RequestType, IInv
  <2>2. PICK n \in Refs \ DOMAIN minted :
          /\ minted' = [m \in DOMAIN minted \cup {n} |->
                          IF m = n THEN req[r].ctx.prev ELSE minted[m]]
          /\ Save([req[r].ctx EXCEPT !.ref = n])
          /\ req' = [req EXCEPT ![r].ctx = [req[r].ctx EXCEPT !.ref = n],
                                ![r].memo = IF @ = NoDoc THEN NoDoc
                                            ELSE [req[r].ctx EXCEPT !.ref = n]]
    BY <1>2, <2>1 DEF EnsureReference, States
  <2> DEFINE named == [req[r].ctx EXCEPT !.ref = n]
  <2>3. Extends(minted, minted')
    BY <2>2 DEF Extends
  <2>4. n # NoRef /\ n \notin RefsOf(ledger)
    BY <2>2, NoRefAssumption DEF IInv, SoundPayloads, RefsOf
  <2>5. /\ named.status = req[r].ctx.status /\ named.ref = n
        /\ named.prev = req[r].ctx.prev /\ named.answers = req[r].ctx.answers
    BY <2>1 DEF States
  <2>6. SoundState(named, ledger, minted')
    <3>1. SoundState(req[r].ctx, ledger, minted)
      BY <2>1 DEF SoundRequest
    <3>2. n \in DOMAIN minted' /\ minted'[n] = req[r].ctx.prev
      BY <2>2
    <3>3. req[r].ctx.status # "SUBMITTED"
      <4>1. NoRef \notin RefsOf(ledger)
        BY NoRefAssumption DEF IInv, TypeOK, SoundPayloads, RefsOf
      <4>2. QED
        BY <1>2, <3>1, <4>1 DEF EnsureReference, NeedsReference, SoundState
    <3>4. QED
      BY <2>1, <2>4, <3>1, <3>2, <3>3, NamedSound
  <2>7. SoundRequest(req'[r], ledger, minted')
    <3>1. /\ req'[r].ctx = named /\ req'[r].pc = "loaded"
          /\ req'[r].memo = IF req[r].memo = NoDoc THEN NoDoc ELSE named
      BY <1>2, <2>1, <2>2 DEF EnsureReference, NeedsReference, TypeOK, RequestType
    <3>2. SoundRequest(req'[r], ledger, minted') <=>
            /\ SoundState(named, ledger, minted')
            /\ req'[r].memo \in {NoDoc, named}
            /\ req'[r].memo = NoDoc => req[r].ctx.answers = {}
      BY <2>5, <3>1 DEF SoundRequest
    <3>3. named # NoDoc
      BY <2>1, NoDocAssumption DEF States
    <3>4. req[r].memo = NoDoc => req[r].ctx.answers = {}
      BY <2>1 DEF SoundRequest
    <3> HIDE DEF named
    <3>5. QED
      BY <2>6, <3>1, <3>2, <3>3, <3>4
  <2>8. SoundPayloads(ledger, ledger, minted') /\ SoundPayloads(inFlight, ledger, minted')
    BY <2>3, SoundPayloadsGrows DEF IInv
  <2>9. doc' = doc \/ SoundState(doc', ledger, minted')
    BY <2>2, <2>6 DEF Save, Written
  <2>10. QED
    BY <1>2, <2>2, <2>3, <2>7, <2>8, <2>9, IInvKept DEF EnsureReference, IInv, TypeOK
<1>3. ASSUME NEW r \in Requests, Pipeline(r) PROVE IInv'
  <2>1. PICK outcome \in PipelineOutcomes(req[r].ctx.status, req[r].kind) :
          IF outcome = "end" THEN Finish(r) ELSE Goto(r, outcome)
    BY <1>3 DEF Pipeline
  <2>2. CASE outcome = "end"
    BY <1>3, <2>1, <2>2, IInvFinish DEF Pipeline, IInv
  <2>3. CASE outcome # "end"
    <3>1. outcome \in {"lookup", "handler"}
      BY <2>3 DEF PipelineOutcomes
    <3>2. outcome = "lookup" => req[r].ctx.status \in {"SUBMITTED", "REOPENED"}
      BY DEF PipelineOutcomes, TypeOK, RequestType, States, Status
    <3>3. SoundRequest([req[r] EXCEPT !.pc = outcome], ledger, minted)
      BY <1>3, <3>1, <3>2 DEF Pipeline, IInv, TypeOK, RequestType, SoundRequest
    <3>4. QED
      BY <1>3, <2>1, <2>3, <3>3, IInvGoto DEF Pipeline
  <2>4. QED
    BY <2>2, <2>3
<1>4. ASSUME NEW r \in Requests, GasLookup(r) PROVE IInv'
  <2> DEFINE state  == req[r].ctx
             answer == gasStatus[ClientReference(state)]
             target == MapStatusToUrl(state.status, answer, Rules).to
  <2>1. /\ state \in States /\ req[r] \in RequestType /\ req[r].pc = "lookup"
        /\ SoundRequest(req[r], ledger, minted)
        /\ state.status \in {"SUBMITTED", "REOPENED"} /\ state.ref # NoRef
    BY <1>4 DEF GasLookup, TypeOK, RequestType, IInv, SoundRequest
  <2>2. CASE Redirect(r)
    BY <1>4, <2>2, IInvRedirect DEF GasLookup
  <2>3. CASE Goto(r, "handler")
    <3>1. SoundRequest([req[r] EXCEPT !.pc = "handler"], ledger, minted)
      BY <2>1 DEF RequestType, SoundRequest
    <3>2. QED
      BY <1>4, <2>3, <3>1, IInvGoto DEF GasLookup
  <2>4. CASE /\ answer # "UNKNOWN"
             /\ HasRule(state.status, answer, Rules)
             /\ target # state.status
             /\ req' = [req EXCEPT ![r].to = target,
                                   ![r].pc = CASE target = "CLEARED"  -> "clearing"
                                               [] target = "REOPENED" -> "reopening"
                                               [] OTHER               -> "patching"]
    <3>1. ClientReference(state) \in Refs
      BY <2>1 DEF ClientReference, States
    <3>2. answer \in GasStatuses
      BY <2>4, <3>1 DEF TypeOK
    <3>3. target = "REOPENED" => state.status = "SUBMITTED"
      BY <2>1, <2>4
    <3>4. target # "SUBMITTED"
      BY <2>1, <2>4, <3>2, RulesAssumption
    <3>5. /\ req'[r].ctx = state /\ req'[r].memo = req[r].memo /\ req'[r].to = target
          /\ req'[r].pc \in {"clearing", "reopening", "patching"}
          /\ req'[r].pc = "reopening" => target = "REOPENED"
          /\ req'[r].pc = "patching" => target # "CLEARED"
      BY <2>1, <2>4 DEF TypeOK, RequestType
    <3>6. SoundRequest(req'[r], ledger, minted)
      BY <2>1, <3>3, <3>4, <3>5 DEF SoundRequest
    <3>7. Extends(minted, minted')
      BY <1>4 DEF GasLookup, Extends
    <3>8. QED
      BY <1>4, <2>4, <3>6, <3>7, IInvKept DEF GasLookup, IInv, TypeOK
  <2>5. QED
    BY <1>4, <2>2, <2>3, <2>4 DEF GasLookup
<1>5. ASSUME NEW r \in Requests, Clear(r) PROVE IInv'
  <2>1. SoundState([EmptyState EXCEPT !.status = "CLEARED"], ledger, minted)
    BY EmptyStateSound DEF Status
  <2>2. QED
    BY <1>5, <2>1, IInvRedirect DEF Clear, Save, Written
<1>6. ASSUME NEW r \in Requests, Reopen(r) PROVE IInv'
  <2>1. /\ req[r].ctx \in States /\ SoundRequest(req[r], ledger, minted)
        /\ req[r] \in RequestType /\ req[r].pc = "reopening" /\ req[r].ctx.status = "SUBMITTED"
        /\ req[r].to = "REOPENED"
    BY <1>6 DEF Reopen, TypeOK, RequestType, IInv, SoundRequest
  <2>2. SoundState(Reopened(req[r].ctx), ledger, minted)
    BY <2>1 DEF SoundRequest, SoundState, Reopened
  <2>3. doc' = doc \/ SoundState(doc', ledger, minted)
    BY <1>6, <2>2 DEF Reopen, Save, Written
  <2>4. CASE Redirect(r)
    BY <1>6, <2>3, <2>4, IInvRedirect DEF Reopen
  <2>5. CASE Goto(r, "patching")
    <3>1. SoundRequest([req[r] EXCEPT !.pc = "patching"], ledger, minted)
      BY <2>1 DEF RequestType, SoundRequest
    <3>2. QED
      BY <1>6, <2>3, <2>5, <3>1, IInvGoto DEF Reopen
  <2>6. QED
    BY <1>6, <2>4, <2>5 DEF Reopen
<1>7. ASSUME NEW r \in Requests, Patch(r) PROVE IInv'
  <2>1. req[r].to \in Status \ {"SUBMITTED", "CLEARED"}
    BY <1>7 DEF Patch, TypeOK, RequestType, IInv, SoundRequest
  <2>2. doc' = doc \/ SoundState(doc', ledger, minted)
    <3>1. CASE doc = NoDoc
      BY <1>7, <3>1 DEF Patch, PatchStatus
    <3>2. CASE doc # NoDoc
      <4>1. SoundState([doc EXCEPT !.status = req[r].to], ledger, minted)
        BY <2>1, <3>2 DEF IInv, TypeOK, States, SoundState
      <4>2. QED
        BY <1>7, <3>2, <4>1 DEF Patch, PatchStatus, Written
    <3>3. QED
      BY <3>1, <3>2
  <2>3. QED
    BY <1>7, <2>2, IInvRedirect DEF Patch
<1>8. ASSUME NEW r \in Requests, Render(r) PROVE IInv'
  BY <1>8, IInvFinish DEF Render, IInv
<1>9. ASSUME NEW r \in Requests, Answer(r) PROVE IInv'
  <2>1. PICK f \in Fields : Save([req[r].ctx EXCEPT !.answers = @ \cup {f}])
    BY <1>9 DEF Answer
  <2>2. SoundState([req[r].ctx EXCEPT !.answers = @ \cup {f}], ledger, minted)
    BY DEF IInv, TypeOK, RequestType, States, SoundRequest, SoundState
  <2>3. doc' = doc \/ SoundState(doc', ledger, minted)
    BY <2>1, <2>2 DEF Save, Written
  <2>4. QED
    BY <1>9, <2>3, IInvFinish DEF Answer, IInv
<1>10. ASSUME NEW r \in Requests, Declare(r) PROVE IInv'
  <2>1. SoundRequest([req[r] EXCEPT !.pc = "submitting"], ledger, minted)
    BY <1>10 DEF Declare, IInv, TypeOK, RequestType, SoundRequest
  <2>2. QED
    BY <1>10, <2>1, IInvGoto DEF Declare
<1>11. ASSUME NEW r \in Requests, Submit(r) PROVE IInv'
  <2> DEFINE entry == Payload(req[r].ctx)
  <2>1. /\ req[r] \in RequestType /\ req[r].ctx \in States /\ req[r].pc = "submitting"
        /\ SoundRequest(req[r], ledger, minted)
    BY <1>11 DEF Submit, TypeOK, RequestType, IInv
  <2>2. Extends(minted, minted') /\ entry \in Submissions
    BY <1>11, <2>1 DEF Submit, Extends, Payload, States, Submissions
  <2>3. SoundPayloads({entry}, ledger, minted)
    BY <2>1 DEF SoundRequest, SoundState, SoundPayloads, Payload
  <2>4. CASE /\ inFlight' = inFlight \cup {entry}
             /\ Finish(r)
             /\ UNCHANGED ledger
    <3>1. SoundPayloads(inFlight', ledger', minted')
      BY <1>11, <2>3, <2>4 DEF Submit, IInv, SoundPayloads
    <3>2. SoundRequest(req'[r], ledger', minted')
      BY <2>4, IdleSound DEF Finish, TypeOK
    <3>3. QED
      BY <1>11, <2>2, <2>4, <3>1, <3>2, IInvKept DEF Submit, Finish, IInv, TypeOK
  <2>5. CASE Accept(entry) /\ Goto(r, "marking") /\ UNCHANGED inFlight
    <3>1. ledger' = ledger \cup {entry} /\ minted' = minted
      BY <1>11, <2>5 DEF Submit, Accept
    <3>2. SoundPayloads(ledger', ledger', minted') /\ SoundPayloads(inFlight', ledger', minted')
      BY <2>3, <2>5, <3>1, AcceptSound
    <3>3. SoundRequest(req'[r], ledger', minted')
      <4>1. SoundRequest(req[r], ledger', minted')
        BY <2>1, <2>2, <3>1, SoundRequestGrows
      <4>2. req'[r] = [req[r] EXCEPT !.pc = "marking"]
        BY <2>5 DEF Goto, TypeOK
      <4>3. QED
        BY <2>1, <3>1, <4>1, <4>2 DEF RequestType, SoundRequest
    <3>4. QED
      BY <1>11, <2>2, <2>5, <3>1, <3>2, <3>3, IInvKept DEF Submit, Goto, IInv, TypeOK
  <2>6. QED
    BY <1>11, <2>4, <2>5 DEF Submit
<1>12. ASSUME NEW r \in Requests, MarkSubmitted(r) PROVE IInv'
  <2>1. /\ req[r] \in RequestType /\ req[r].ctx \in States /\ req[r].pc = "marking"
        /\ SoundRequest(req[r], ledger, minted)
    BY <1>12 DEF MarkSubmitted, TypeOK, RequestType, IInv
  <2>2. req[r].memo = req[r].ctx /\ StateOf(req[r].memo) = req[r].ctx
    BY <2>1, FieldsAssumption, NoDocAssumption DEF SoundRequest, StateOf
  <2>3. req[r].ctx.ref \in RefsOf(ledger)
    BY <2>1 DEF SoundRequest, Payload, RefsOf
  <2>4. SoundState([StateOf(req[r].memo) EXCEPT !.status = "SUBMITTED"], ledger, minted)
    BY <2>1, <2>2, <2>3 DEF SoundRequest, SoundState, States
  <2>5. doc' = doc \/ SoundState(doc', ledger, minted)
    BY <1>12, <2>4 DEF MarkSubmitted, Save, Written
  <2>6. CASE Finish(r)
    BY <1>12, <2>5, <2>6, IInvFinish DEF MarkSubmitted, IInv
  <2>7. CASE Goto(r, "recording")
    <3>1. SoundRequest([req[r] EXCEPT !.pc = "recording"], ledger, minted)
      BY <2>1 DEF RequestType, SoundRequest
    <3>2. QED
      BY <1>12, <2>5, <2>7, <3>1, IInvGoto DEF MarkSubmitted
  <2>8. QED
    BY <1>12, <2>6, <2>7 DEF MarkSubmitted
<1>13. ASSUME NEW r \in Requests, RecordSubmission(r) PROVE IInv'
  <2>1. Payload(req[r].ctx) \in ledger
    BY <1>13 DEF RecordSubmission, IInv, SoundRequest
  <2>2. QED
    BY <1>13, <2>1, IInvFinish DEF RecordSubmission, IInv
<1>14. ASSUME NEW r \in Requests, ShowDeleted(r) PROVE IInv'
  <2>1. SoundState([EmptyState EXCEPT !.status = "PURGED"], ledger, minted)
    BY EmptyStateSound DEF Status
  <2>2. QED
    BY <1>14, <2>1, IInvFinish DEF ShowDeleted, Save, Written, IInv
<1>15. ASSUME NEW r \in Requests, LeaveDeleted(r) PROVE IInv'
  BY <1>15, IInvFinish DEF LeaveDeleted, Discard, IInv
<1>16. ASSUME NEW entry \in ledger, GasDecides(entry) PROVE IInv'
  BY <1>16 DEF GasDecides, IInv
<1>17. ASSUME Purge PROVE IInv'
  <2>1. SoundState([doc EXCEPT !.status = "PURGED"], ledger, minted)
    BY <1>17 DEF Purge, IInv, TypeOK, States, SoundState
  <2>2. QED
    BY <1>17, <2>1 DEF Purge, IInv
<1>18. ASSUME NEW payload \in inFlight, Land(payload) PROVE IInv'
  <2>1. /\ ledger' = ledger \cup {payload} /\ minted' = minted
        /\ inFlight' \subseteq inFlight /\ UNCHANGED <<doc, submissions, req>>
    BY <1>18 DEF Land, Accept
  <2>2. SoundPayloads({payload}, ledger, minted)
    BY <1>18 DEF IInv, SoundPayloads
  <2>3. SoundPayloads(ledger', ledger', minted') /\ SoundPayloads(inFlight', ledger', minted')
    BY <2>1, <2>2, AcceptSound
  <2>4. /\ ledger \subseteq ledger' /\ Extends(minted, minted')
    BY <2>1 DEF Extends
  <2>5. \A q \in Requests : SoundRequest(req'[q], ledger', minted')
    BY <2>1, <2>4, SoundRequestGrows DEF IInv
  <2>6. doc' # NoDoc => SoundState(doc', ledger', minted')
    BY <2>1, <2>4, SoundStateGrows DEF IInv
  <2>7. QED
    BY <2>1, <2>3, <2>5, <2>6 DEF IInv
<1>19. CASE UNCHANGED vars
  BY <1>19 DEF vars, IInv
<1>20. QED
  BY <1>1, <1>2, <1>3, <1>4, <1>5, <1>6, <1>7, <1>8, <1>9, <1>10, <1>11, <1>12, <1>13,
     <1>14, <1>15, <1>16, <1>17, <1>18, <1>19 DEF Next, Serve

Inductive == TypeOK /\ IInv

(* The inductive invariant holds in every behaviour. *)
LEMMA InductiveHolds == Spec => []Inductive
<1>1. Init => Inductive
  BY TypeInit, IInvInit DEF Inductive
<1>2. Inductive /\ [Next]_vars => Inductive'
  BY TypeStep, IInvStep DEF Inductive
<1>3. QED
  BY <1>1, <1>2, PTL DEF Spec

-----------------------------------------------------------------------------
(* The results. *)

(* Every reachable state is well typed. *)
THEOREM TypeCorrect == Spec => []TypeOK
<1>1. Inductive => TypeOK
  BY DEF Inductive
<1>2. QED
  BY <1>1, InductiveHolds, PTL

(* Whatever saves are lost and however requests overlap, a document that   *)
(* says SUBMITTED (handleSuccessfulSubmission) holds a reference GAS       *)
(* accepted.                                                               *)
THEOREM SubmittedCorrect == Spec => []SubmittedIsAccepted
<1>1. Inductive => SubmittedIsAccepted
  BY DEF Inductive, IInv, SoundState, SubmittedIsAccepted, Held
<1>2. QED
  BY <1>1, InductiveHolds, PTL

(* A previous reference (persistStatus, REOPENED) is always one GAS        *)
(* accepted, and another one than the document's own.                      *)
THEOREM PredecessorCorrect == Spec => []PredecessorIsAccepted
<1>1. Inductive => PredecessorIsAccepted
  BY DEF Inductive, IInv, SoundState, PredecessorIsAccepted, Held
<1>2. QED
  BY <1>1, InductiveHolds, PTL

(* An application cleared after a withdrawal is never an amendment.        *)
THEOREM ClearedCorrect == Spec => []ClearedStartsAfresh
<1>1. Inductive => ClearedStartsAfresh
  BY DEF Inductive, IInv, SoundState, ClearedStartsAfresh
<1>2. QED
  BY <1>1, InductiveHolds, PTL

(* The submissions collection records only what GAS accepted.              *)
THEOREM RecordedCorrect == Spec => []RecordedIsAccepted
<1>1. Inductive => RecordedIsAccepted
  BY DEF Inductive, IInv, RecordedIsAccepted
<1>2. QED
  BY <1>1, InductiveHolds, PTL

-----------------------------------------------------------------------------
(* One request at a time, whatever writes are lost: what keeps a reopened  *)
(* application linked to what GAS holds.  The save that moves the          *)
(* reference over to the previous one may be lost and the PATCH to         *)
(* REOPENED not, but then the document keeps the reference GAS accepted.   *)
(* With a second tab it fails, for the PATCH changes the status of         *)
(* whatever document it finds.                                             *)

Alone == \A q, r \in Requests : q = r

(* A state that goes under a reference of these entries, or names one.     *)
Linked(state, entries) == {state.ref, state.prev} \cap RefsOf(entries) # {}
ReopenedLinked(state, entries) == state.status = "REOPENED" => Linked(state, entries)

(* A request that is about to reopen the document, or may come to.         *)
MayReopen(q) ==
  \/ q.pc \in {"loaded", "lookup"} /\ q.ctx.status = "SUBMITTED"
  \/ q.pc = "reopening"
  \/ q.pc = "patching" /\ q.to = "REOPENED"

LinkedInv ==
  /\ doc # NoDoc => ReopenedLinked(doc, ledger)
  /\ \A r \in Requests :
       /\ req[r].pc # "idle" => ReopenedLinked(req[r].ctx, ledger)
       /\ MayReopen(req[r]) /\ doc # NoDoc => Linked(doc, ledger)

LEMMA LinkedGrows ==
  ASSUME NEW old, NEW new, old \subseteq new, NEW state
  PROVE  /\ Linked(state, old) => Linked(state, new)
         /\ ReopenedLinked(state, old) => ReopenedLinked(state, new)
  BY RefsOfGrows DEF Linked, ReopenedLinked

(* What GAS accepted has a reference.                                      *)
LEMMA HeldIsMinted == ASSUME Inductive PROVE NoRef \notin RefsOf(ledger)
  BY NoRefAssumption DEF Inductive, TypeOK, IInv, SoundPayloads, RefsOf

(* What a step of the only request has to show.                            *)
LEMMA LinkedKept ==
  ASSUME Alone, LinkedInv, NEW r \in Requests, ledger \subseteq ledger',
         doc' = doc \/ doc' = NoDoc \/ ReopenedLinked(doc', ledger'),
         req'[r].pc # "idle" => ReopenedLinked(req'[r].ctx, ledger'),
         MayReopen(req'[r]) /\ doc' # NoDoc => Linked(doc', ledger')
  PROVE  LinkedInv'
<1>1. \A q \in Requests : q = r
  BY DEF Alone
<1>2. doc' # NoDoc => ReopenedLinked(doc', ledger')
  BY LinkedGrows DEF LinkedInv
<1>3. QED
  BY <1>1, <1>2 DEF LinkedInv

(* A step that ends the request. *)
LEMMA LinkedFinish ==
  ASSUME Alone, LinkedInv, NEW r \in Requests, req \in [Requests -> RequestType], Finish(r),
         ledger' = ledger, doc' = doc \/ doc' = NoDoc \/ ReopenedLinked(doc', ledger)
  PROVE  LinkedInv'
<1>1. req'[r].pc = "idle"
  BY DEF Finish, Idle
<1>2. ~MayReopen(req'[r])
  BY <1>1 DEF MayReopen
<1>3. QED
  BY <1>1, <1>2, LinkedKept

(* A step that moves it on, past the reopening of the document.            *)
LEMMA LinkedGoto ==
  ASSUME Alone, LinkedInv, NEW r \in Requests, req \in [Requests -> RequestType],
         NEW pc, Goto(r, pc), req[r].pc # "idle",
         pc \notin {"loaded", "lookup", "reopening", "patching"}, ledger \subseteq ledger',
         doc' = doc \/ doc' = NoDoc \/ ReopenedLinked(doc', ledger)
  PROVE  LinkedInv'
<1>1. req'[r].pc = pc /\ req'[r].ctx = req[r].ctx
  BY DEF Goto, RequestType
<1>2. ~MayReopen(req'[r])
  BY <1>1 DEF MayReopen
<1>3. ReopenedLinked(req[r].ctx, ledger')
  BY LinkedGrows DEF LinkedInv
<1>4. doc' = doc \/ doc' = NoDoc \/ ReopenedLinked(doc', ledger')
  BY LinkedGrows
<1>5. QED
  BY <1>1, <1>2, <1>3, <1>4, LinkedKept

(* A redirect of the pipeline. *)
LEMMA LinkedRedirect ==
  ASSUME Alone, LinkedInv, NEW r \in Requests, req \in [Requests -> RequestType],
         Redirect(r), req[r].pc # "idle", ledger' = ledger,
         doc' = doc \/ doc' = NoDoc \/ ReopenedLinked(doc', ledger)
  PROVE  LinkedInv'
  BY LinkedFinish, LinkedGoto DEF Redirect

(* Every step keeps it. *)
LEMMA LinkedStep ==
  ASSUME Alone, Inductive, Inductive', LinkedInv, [Next]_vars PROVE LinkedInv'
<1>0. /\ req \in [Requests -> RequestType] /\ req' \in [Requests -> RequestType]
      /\ doc \in States \cup {NoDoc}
      /\ \A r \in Requests : SoundRequest(req[r], ledger, minted)
      /\ \A r \in Requests : SoundRequest(req'[r], ledger', minted')
  BY DEF Inductive, TypeOK, IInv
<1>1. ASSUME NEW r \in Requests, Load(r) PROVE LinkedInv'
  <2>1. doc' = doc /\ ledger' = ledger /\ req'[r].ctx = StateOf(doc) /\ req'[r].pc = "loaded"
    BY <1>0, <1>1 DEF Load
  <2>2. ReopenedLinked(StateOf(doc), ledger)
    BY DEF StateOf, EmptyState, ReopenedLinked, LinkedInv
  <2>3. doc # NoDoc /\ doc.status = "SUBMITTED" => Linked(doc, ledger)
    BY DEF Inductive, IInv, SoundState, Linked
  <2>4. QED
    BY <1>0, <2>1, <2>2, <2>3, LinkedKept DEF MayReopen, StateOf
<1>2. ASSUME NEW r \in Requests, EnsureReference(r) PROVE LinkedInv'
  <2>1. PICK n \in Refs :
          /\ Save([req[r].ctx EXCEPT !.ref = n])
          /\ req' = [req EXCEPT ![r].ctx = [req[r].ctx EXCEPT !.ref = n],
                                ![r].memo = IF @ = NoDoc THEN NoDoc
                                            ELSE [req[r].ctx EXCEPT !.ref = n]]
    BY <1>2 DEF EnsureReference
  <2> DEFINE named == [req[r].ctx EXCEPT !.ref = n]
  <2>2. /\ req[r].pc = "loaded" /\ req[r].ctx \in States /\ req[r].ctx.ref = NoRef
        /\ ledger' = ledger
    BY <1>0, <1>2 DEF EnsureReference, NeedsReference, RequestType
  <2>3. named.status = req[r].ctx.status /\ named.prev = req[r].ctx.prev
    BY <2>2 DEF States
  <2>4. ReopenedLinked(named, ledger)
    BY <2>2, <2>3, HeldIsMinted DEF LinkedInv, ReopenedLinked, Linked
  <2>5. named.status # "SUBMITTED"
    BY <1>0, <2>2, <2>3, HeldIsMinted DEF SoundRequest, SoundState
  <2>6. doc' = named \/ doc' = doc
    BY <2>1 DEF Save, Written
  <2>7. req'[r].ctx = named /\ req'[r].pc = "loaded"
    BY <1>0, <2>1, <2>2 DEF RequestType
  <2> HIDE DEF named
  <2>8. ~MayReopen(req'[r])
    BY <2>5, <2>7 DEF MayReopen
  <2>9. QED
    BY <2>2, <2>4, <2>6, <2>7, <2>8, LinkedKept
<1>3. ASSUME NEW r \in Requests, Pipeline(r) PROVE LinkedInv'
  <2>1. PICK outcome \in {"end", "lookup", "handler"} :
          IF outcome = "end" THEN Finish(r) ELSE Goto(r, outcome)
    BY <1>3 DEF Pipeline, PipelineOutcomes
  <2>2. req[r].pc = "loaded" /\ doc' = doc /\ ledger' = ledger
    BY <1>3 DEF Pipeline
  <2>3. CASE Goto(r, "lookup")
    <3>1. req'[r].pc = "lookup" /\ req'[r].ctx = req[r].ctx
      BY <1>0, <2>3 DEF Goto, RequestType
    <3>2. MayReopen(req'[r]) => MayReopen(req[r])
      BY <2>2, <3>1 DEF MayReopen
    <3>3. QED
      BY <2>2, <3>1, <3>2, LinkedKept DEF LinkedInv
  <2>4. QED
    BY <1>0, <2>1, <2>2, <2>3, LinkedFinish, LinkedGoto
<1>4. ASSUME NEW r \in Requests, GasLookup(r) PROVE LinkedInv'
  <2> DEFINE state  == req[r].ctx
             answer == gasStatus[ClientReference(state)]
             target == MapStatusToUrl(state.status, answer, Rules).to
  <2>1. req[r].pc = "lookup" /\ doc' = doc /\ ledger' = ledger
    BY <1>4 DEF GasLookup
  <2>2. CASE Goto(r, "handler") \/ Redirect(r)
    BY <1>0, <2>1, <2>2, LinkedRedirect, LinkedGoto
  <2>3. CASE req' = [req EXCEPT ![r].to = target,
                                ![r].pc = CASE target = "CLEARED"  -> "clearing"
                                            [] target = "REOPENED" -> "reopening"
                                            [] OTHER               -> "patching"]
    <3>1. /\ req'[r].ctx = req[r].ctx /\ req'[r].to = target
          /\ req'[r].pc \in {"clearing", "reopening", "patching"}
          /\ req'[r].pc = "patching" => target # "REOPENED"
      BY <1>0, <2>3 DEF RequestType
    <3>2. MayReopen(req'[r]) => req'[r].pc = "reopening" /\ req[r].ctx.status = "SUBMITTED"
      BY <1>0, <3>1 DEF MayReopen, SoundRequest
    <3>3. MayReopen(req'[r]) => MayReopen(req[r])
      BY <2>1, <3>2 DEF MayReopen
    <3>4. QED
      BY <2>1, <3>1, <3>3, LinkedKept DEF LinkedInv
  <2>4. QED
    BY <1>4, <2>2, <2>3 DEF GasLookup
<1>5. ASSUME NEW r \in Requests, Clear(r) PROVE LinkedInv'
  <2>1. doc' = doc \/ ReopenedLinked(doc', ledger)
    BY <1>5 DEF Clear, Save, Written, EmptyState, ReopenedLinked
  <2>2. QED
    BY <1>0, <1>5, <2>1, LinkedRedirect DEF Clear
<1>6. ASSUME NEW r \in Requests, Reopen(r) PROVE LinkedInv'
  <2>1. /\ req[r].pc = "reopening" /\ req[r].ctx.status = "SUBMITTED"
        /\ req[r].ctx.ref \in RefsOf(ledger) /\ ledger' = ledger
    BY <1>0, <1>6 DEF Reopen, SoundRequest, SoundState
  <2>2. CASE Save(Reopened(req[r].ctx)) /\ Goto(r, "patching")
    <3>1. Linked(Reopened(req[r].ctx), ledger)
      BY <2>1 DEF Reopened, Linked
    <3>2. MayReopen(req[r])
      BY <2>1 DEF MayReopen
    <3>3. doc' \in {doc, Reopened(req[r].ctx)}
      BY <2>2 DEF Save, Written
    <3>4. doc' # NoDoc => Linked(doc', ledger)
      BY <3>1, <3>2, <3>3 DEF LinkedInv
    <3>5. req'[r].ctx = req[r].ctx
      BY <1>0, <2>2 DEF Goto, RequestType
    <3>6. ReopenedLinked(req'[r].ctx, ledger)
      BY <2>1, <3>5 DEF ReopenedLinked
    <3>7. QED
      BY <2>1, <3>4, <3>6, LinkedKept DEF ReopenedLinked
  <2>3. CASE Redirect(r) /\ UNCHANGED doc
    BY <1>0, <2>1, <2>3, LinkedRedirect
  <2>4. QED
    BY <1>6, <2>2, <2>3 DEF Reopen
<1>7. ASSUME NEW r \in Requests, Patch(r) PROVE LinkedInv'
  <2>1. doc' = doc \/ ReopenedLinked(doc', ledger)
    <3>1. CASE doc = NoDoc
      BY <1>7, <3>1 DEF Patch, PatchStatus
    <3>2. CASE doc # NoDoc
      <4> DEFINE patched == [doc EXCEPT !.status = req[r].to]
      <4>1. /\ patched.status = req[r].to /\ patched.ref = doc.ref /\ patched.prev = doc.prev
        BY <1>0, <3>2 DEF States
      <4>2. req[r].to = "REOPENED" => Linked(doc, ledger)
        BY <1>7, <3>2 DEF Patch, MayReopen, LinkedInv
      <4>3. ReopenedLinked(patched, ledger)
        BY <4>1, <4>2 DEF ReopenedLinked, Linked
      <4>4. doc' = patched \/ doc' = doc
        BY <1>7, <3>2 DEF Patch, PatchStatus, Written
      <4>5. QED
        BY <4>3, <4>4
    <3>3. QED
      BY <3>1, <3>2
  <2>2. QED
    BY <1>0, <1>7, <2>1, LinkedRedirect DEF Patch
<1>8. ASSUME NEW r \in Requests, Render(r) PROVE LinkedInv'
  BY <1>0, <1>8, LinkedFinish DEF Render
<1>9. ASSUME NEW r \in Requests, Answer(r) PROVE LinkedInv'
  <2>1. PICK f \in Fields : Save([req[r].ctx EXCEPT !.answers = @ \cup {f}])
    BY <1>9 DEF Answer
  <2> DEFINE answered == [req[r].ctx EXCEPT !.answers = @ \cup {f}]
  <2>2. req[r].ctx \in States /\ ReopenedLinked(req[r].ctx, ledger)
    BY <1>0, <1>9 DEF Answer, RequestType, LinkedInv
  <2>3. ReopenedLinked(answered, ledger)
    BY <2>2 DEF ReopenedLinked, Linked, States
  <2>4. doc' = answered \/ doc' = doc
    BY <2>1 DEF Save, Written
  <2>5. QED
    BY <1>0, <1>9, <2>3, <2>4, LinkedFinish DEF Answer
<1>10. ASSUME NEW r \in Requests, Declare(r) PROVE LinkedInv'
  BY <1>0, <1>10, LinkedGoto DEF Declare
<1>11. ASSUME NEW r \in Requests, Submit(r) PROVE LinkedInv'
  BY <1>0, <1>11, LinkedFinish, LinkedGoto DEF Submit, Accept
<1>12. ASSUME NEW r \in Requests, MarkSubmitted(r) PROVE LinkedInv'
  <2>1. CASE Save([StateOf(req[r].memo) EXCEPT !.status = "SUBMITTED"]) /\ Goto(r, "recording")
    <3>1. StateOf(req[r].memo) \in States
      BY <1>0, EmptyStateType DEF StateOf, RequestType
    <3>2. doc' = doc \/ ReopenedLinked(doc', ledger)
      BY <2>1, <3>1 DEF Save, Written, ReopenedLinked, States
    <3>3. QED
      BY <1>0, <1>12, <2>1, <3>2, LinkedGoto DEF MarkSubmitted
  <2>2. CASE Finish(r) /\ UNCHANGED doc
    BY <1>0, <1>12, <2>2, LinkedFinish DEF MarkSubmitted
  <2>3. QED
    BY <1>12, <2>1, <2>2 DEF MarkSubmitted
<1>13. ASSUME NEW r \in Requests, RecordSubmission(r) PROVE LinkedInv'
  BY <1>0, <1>13, LinkedFinish DEF RecordSubmission
<1>14. ASSUME NEW r \in Requests, ShowDeleted(r) PROVE LinkedInv'
  <2>1. doc' = doc \/ doc' = [EmptyState EXCEPT !.status = "PURGED"]
    BY <1>14 DEF ShowDeleted, Save, Written
  <2>2. doc' = doc \/ ReopenedLinked(doc', ledger)
    BY <2>1 DEF EmptyState, ReopenedLinked
  <2>3. QED
    BY <1>0, <1>14, <2>2, LinkedFinish DEF ShowDeleted
<1>15. ASSUME NEW r \in Requests, LeaveDeleted(r) PROVE LinkedInv'
  BY <1>0, <1>15, LinkedFinish DEF LeaveDeleted, Discard
<1>16. ASSUME NEW entry \in ledger, GasDecides(entry) PROVE LinkedInv'
  BY <1>16 DEF GasDecides, LinkedInv, MayReopen
<1>17. ASSUME Purge PROVE LinkedInv'
  <2>1. /\ doc \in States /\ doc # NoDoc /\ doc' = [doc EXCEPT !.status = "PURGED"]
        /\ req' = req /\ ledger' = ledger
    BY <1>0, <1>17 DEF Purge
  <2>2. doc'.status = "PURGED" /\ doc'.ref = doc.ref /\ doc'.prev = doc.prev
    BY <2>1 DEF States
  <2>3. QED
    BY <2>1, <2>2 DEF LinkedInv, ReopenedLinked, Linked, MayReopen
<1>18. ASSUME NEW payload \in inFlight, Land(payload) PROVE LinkedInv'
  <2>1. doc' = doc /\ req' = req /\ ledger \subseteq ledger'
    BY <1>18 DEF Land, Accept
  <2>2. QED
    BY <2>1, LinkedGrows DEF LinkedInv, MayReopen
<1>19. CASE UNCHANGED vars
  BY <1>19 DEF vars, LinkedInv, MayReopen
<1>20. QED
  BY <1>1, <1>2, <1>3, <1>4, <1>5, <1>6, <1>7, <1>8, <1>9, <1>10, <1>11, <1>12, <1>13,
     <1>14, <1>15, <1>16, <1>17, <1>18, <1>19 DEF Next, Serve

(* For a user of one tab, what is resubmitted for a reopened application   *)
(* goes under a reference GAS accepted or names one (buildIdentifiers),    *)
(* whichever saves are lost and even when it is purged half-way.           *)
THEOREM ResubmissionCorrect ==
  ASSUME Alone PROVE Spec => []ResubmissionIsLinked
<1>1. Init => LinkedInv
  BY DEF Init, Idle, LinkedInv, MayReopen
<1>2. Inductive /\ Inductive' /\ LinkedInv /\ [Next]_vars => LinkedInv'
  BY LinkedStep
<1>3. LinkedInv => ResubmissionIsLinked
  BY DEF LinkedInv, ReopenedLinked, Linked, ResubmissionIsLinked, Held
<1>4. QED
  BY <1>1, <1>2, <1>3, InductiveHolds, PTL DEF Spec

-----------------------------------------------------------------------------
(* The lifecycle implements the abstract ledger of submissions.            *)

Shown == IF doc # NoDoc /\ doc.status = "SUBMITTED" THEN doc.ref ELSE NoRef

(* The first state is one of the ledger. *)
LEMMA LedgerInit == Init => Ledger!Init
  BY DEF Init, Ledger!Init

(* What a step may add to the ledger is what the ledger allows: the        *)
(* reference is new or restated with the same predecessor, which GAS holds.*)
LEMMA AcceptAllowed ==
  ASSUME Inductive, NEW payload \in Submissions, payload.ref # NoRef,
         SoundPayloads({payload}, ledger, minted), Accept(payload), doc' = doc
  PROVE  Ledger!Next
<1> DEFINE ref == payload.ref
           prev == payload.prev
<1>1. ref \in Refs /\ prev \in Refs \cup {NoRef}
  BY DEF Submissions
<1>2. prev \in Ledger!Held \cup {NoRef}
  BY DEF SoundPayloads, RefsOf, Ledger!Held
<1>3. prev # ref
  BY DEF SoundPayloads
<1>4. \A entry \in ledger : entry.ref = ref => entry.prev = prev
  BY DEF Inductive, IInv, SoundPayloads
<1>5. ledger' = ledger \cup {[ref |-> ref, prev |-> prev]}
  BY DEF Accept, Submissions
<1>6. Ledger!Accept(ref, prev)
  BY <1>2, <1>3, <1>4, <1>5 DEF Ledger!Accept
<1>7. QED
  BY <1>1, <1>6 DEF Ledger!Next

(* A submission that changes the ledger is a step of it. *)
LEMMA SubmitAccepts ==
  ASSUME Inductive, NEW r \in Requests, Submit(r), ledger' # ledger
  PROVE  Ledger!Next
<1> DEFINE payload == Payload(req[r].ctx)
<1>1. /\ req[r].ctx \in States /\ req[r].ctx.ref # NoRef
      /\ SoundState(req[r].ctx, ledger, minted)
  BY DEF Inductive, TypeOK, RequestType, IInv, SoundRequest, Submit
<1>2. /\ payload \in Submissions /\ payload.ref # NoRef
      /\ SoundPayloads({payload}, ledger, minted)
  BY <1>1 DEF States, Submissions, Payload, SoundState, SoundPayloads
<1>3. Accept(payload) /\ doc' = doc
  BY DEF Submit
<1>4. QED
  BY <1>2, <1>3, AcceptAllowed

(* So is a late arrival. *)
LEMMA LandAccepts ==
  ASSUME Inductive, NEW payload \in inFlight, Land(payload) PROVE Ledger!Next
<1>1. /\ payload \in Submissions
      /\ SoundPayloads({payload}, ledger, minted)
  BY DEF Inductive, TypeOK, IInv, SoundPayloads
<1>2. payload.ref # NoRef
  BY <1>1, NoRefAssumption DEF Inductive, TypeOK, SoundPayloads
<1>3. Accept(payload) /\ doc' = doc
  BY DEF Land
<1>4. QED
  BY <1>1, <1>2, <1>3, AcceptAllowed

(* Any other step leaves the ledger alone and shows a reference GAS holds. *)
LEMMA OthersShow ==
  ASSUME Inductive', ledger' = ledger PROVE Ledger!Show
  BY DEF Inductive, IInv, SoundState, RefsOf, Ledger!Show, Ledger!Held

(* Nothing but these two changes the ledger. *)
LEMMA OnlyTheseAccept ==
  ASSUME [Next]_vars, ledger' # ledger
  PROVE  (\E r \in Requests : Submit(r)) \/ (\E payload \in inFlight : Land(payload))
  BY DEF Next, Serve, vars, Load, EnsureReference, Pipeline, GasLookup, Clear, Reopen, Patch,
         Render, Answer, Declare, MarkSubmitted, RecordSubmission, ShowDeleted, LeaveDeleted,
         GasDecides, Purge

(* Whatever requests overlap and whatever is lost, submitting, reopening   *)
(* and resubmitting (submitGrantApplication, persistStatus) do to the      *)
(* ledger of GAS only what SubmissionLedger allows.                        *)
THEOREM LedgerImplemented == Spec => ImplementsLedger
<1>1. Inductive /\ Inductive' /\ [Next]_vars => [Ledger!Next]_<<ledger, Shown>>
  <2>1. SUFFICES ASSUME Inductive, Inductive', [Next]_vars PROVE Ledger!Next
    OBVIOUS
  <2>2. CASE ledger' = ledger
    BY <2>1, <2>2, OthersShow DEF Ledger!Next
  <2>3. CASE ledger' # ledger
    BY <2>1, <2>3, OnlyTheseAccept, SubmitAccepts, LandAccepts
  <2>4. QED
    BY <2>2, <2>3
<1>2. QED
  BY <1>1, LedgerInit, InductiveHolds, PTL DEF Spec, ImplementsLedger, Ledger!Spec, Shown
=============================================================================
