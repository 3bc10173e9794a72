# Verification of grants-ui

grants-ui is the Node.js (Hapi) front end with which farmers apply for grants,
claim against an accepted application, and choose land parcels and actions. It
keeps no database of its own. The answers of an application live in a document
held by grants-ui-backend, sessions live in Redis, what was really submitted
lives in GAS, and a few short-lived caches live in the server process. Almost
everything that can go wrong follows from that: every request works on a
snapshot, waits for other services, and writes back to a place other requests
use too.

This directory holds TLA+ modules that model those parts, TLC configurations
that check them on small instances, and proofs that TLAPS checks for every value
of the constants. `PROJECT.json` is the index: components, runs, mutants, the
map from definitions to source lines, findings, hazards, theorems. Source paths
below are relative to `src/server/` of the repository unless they start with
`docs/`, `plugins/` or `client/`.

- [1. The system](#1-the-system)
- [2. Modules and the code](#2-modules-and-the-code)
- [3. Runs, bounds and fairness](#3-runs-bounds-and-fairness)
- [4. What the code does that its documentation says otherwise](#4-what-the-code-does-that-its-documentation-says-otherwise)
- [5. What is proved](#5-what-is-proved)
- [6. What is not modelled](#6-what-is-not-modelled)
- [7. Plan](#7-plan)
- [8. Running the checks](#8-running-the-checks)

## 1. The system

### 1.1 Components, their state and their operations

| component | state it keeps | operations that change state | where |
|---|---|---|---|
| saved-state store | one document per business and grant: status, reference number, previous reference, answers, claims, land parcels, payment | whole-document save, status PATCH, DELETE, record a submission | `common/services/state-persistence/`, `common/helpers/state/` |
| request pipeline | none of its own; decides on the snapshot of the request | clear a withdrawn application, reopen one to amend, PATCH the status GAS implies | `common/request-pipeline/` |
| application submission | GAS's ledger (outside); the document; the submissions collection | submit to GAS, save SUBMITTED, record the submission | `declaration/`, `common/services/grant-application/` |
| claim journey | the claims inside the document | open or refresh the current claim, submit it | `claims/`, `declaration/` |
| land selection and payment | `landParcels` and `payment` inside the document | pick a parcel, choose actions, remove an action, remove a parcel, price, validate and submit | `land-grants/`, `common/map/` |
| sign-in and session tokens | cookie, Redis session entry, tokens held by Defra Identity | sign in, authenticate a request, renew tokens, sign out | `plugins/auth.js`, `auth/` |
| parcel caches and loads | in-process caches and the table of loads in flight | look up, load, set, make room, clear | `land-grants/services/`, `common/services/consolidated-view/` |
| live availability of actions | the browser's page: checkboxes, typed quantities, requests under way; the actions of one parcel in the document | tick, type, refresh, apply or drop an answer, post, validate, show again, store | `client/javascripts/land-grants/select-actions-page.js` (under `src/`), `land-grants/land-grants-actions.plugin.js`, `land-grants/controllers/` |
| task list | none; derived from the answers | where a link, a posted page, a back link and a landing page lead | `task-list/` |
| answers that rest on others | `detailsConfirmed`, `checkDetailsChangesPending`, `applicant`, `landParcels`, woodland hectares, payment, inside the document | confirm, reject or update the details; select parcels and drop the answers that depend on them; enter hectares; price | `details-page/`, `land-grants/common/`, `woodland/`, `payment/`, `common/utils/state-invalidation.js` |
| service credentials and retried calls | one Entra token per process; the attempts of each call | ask for a token, keep it, try, give up, try again | `common/helpers/entra/`, `common/helpers/retry.js`, `common/services/consolidated-view/` |
| redirects and page permissions | the one-shot marker of a status change, in the session | lead the browser to another page, refuse a page | `common/request-pipeline/`, `common/helpers/permissions/` |
| application locks | held by the backend | mint a lock token, release | `common/helpers/lock/` |
| answers page, confirmation, print | none | render | `check-responses/`, `confirmation/`, `print-submitted-application/` |
| form definitions and allowlist | definitions cached with the state | load | `common/forms/`, `common/helpers/allowlist/` |
| audit, errors, cookies, agreements, sample grants, developer tools, configuration | none that the others read | - | the rest |

### 1.2 How they interact

A request goes through these stations, and it gives way to other requests at
each one that is awaited:

1. `plugins/auth.js` reads the session named by the cookie and may renew its
   tokens with Defra Identity.
2. The forms engine reads the saved document once and memoises it for the
   request; if it has no reference number it draws one and saves.
3. The pipeline (`formsRequestPipeline`) looks at the status in the snapshot, and
   for a submitted or reopened application asks GAS for the current status. The
   grant's redirect rules map the pair of statuses to a new local status and a
   page. Changing the status means a save, a PATCH, or both.
4. The page's handler runs: a question saves its answer, the declaration submits
   to GAS and then saves, the land pages ask the land grants service and save.

Three facts shape every model here.

- A save replaces the whole document, and `getState` answers from the memo made
  when the request began. Two tabs therefore overwrite each other.
- The persistence helpers swallow failures: a save that was refused or lost is
  logged and resolves (`common/helpers/state/persist-state-helper.js`), so the
  caller goes on as if it had been stored.
- A call that times out is given up, not cancelled
  (`common/helpers/retry.js`): a post may land after the user saw an error page.

The application lock does not order the requests of one user: its token names the
user, the business, the grant and the version, and no session. All models are of
one user's application with any number of tabs and sessions.

### 1.3 What is hard, and what must hold

`PROJECT.json` lists each hazard at its line. In short:

| part | what is hard | what must hold |
|---|---|---|
| lifecycle | stale snapshots, lost saves between two writes that belong together, late posts, a PATCH that reaches another application | what is shown or recorded as submitted was accepted by GAS; an amendment names an accepted predecessor that is not itself; a restart after a withdrawal is no amendment; every request is answered |
| claims | a refresh of the current claim racing its submission; a late PATCH reopening the journey; a claim that was never saved | one current claim; what is shown as submitted was accepted with that very amount; GAS gets the claims in order |
| land | removals and additions from two tabs; the summary pricing a selection that is gone by the time it saves; validation and submission on different data | no payment without parcels; no parcel without actions; what is submitted is what was validated and what the document keeps |
| session | overlapping renewals of one refresh token; answers lost after Defra Identity exchanged the token | the cached tokens never go back; what is cached can be renewed |
| parcel loads | bursts that miss together; slow loads finishing after faster ones; a full cache; a failing shared load | one load per business; nothing served older than before, or older than its life; the cache is bounded; nobody waits for ever |
| live availability | answers in another order than their requests, each computed for claims the page no longer holds; one piece of freed land offered to several actions; a failed refresh leaving actions disabled, an answer that leaves some out; rejected values refreshed away | nothing stays disabled but what shows why or was left out of the last answer; of what that answer gave, a page at rest shows what is left under its own claims; freed land is given once; what is stored is what was shown, where the answers spoke of it; the page comes to rest |
| task list | answers that stay in the document after their page stopped to apply; tasks that come and go; two ways to show the list | an unfinished list has a link to an unanswered page; complete means walked to the end; both ways agree |
| dependent answers | a selection compared with a document another tab has changed; parcels whose area cannot be fetched | what was given for other parcels is dropped; hectares never exceed the area known of the parcels they were given for |
| navigation | the pipeline and the forms engine each redirect on their own account; a status change and the rules for the new status; requests let through at many places | every navigation comes to rest; a status change takes the user to its page; nobody changes or submits what they may not |
| service calls | overlapping refreshes of one token, answers read late and out of order, attempts given up that go on | no request is sent with a token about to expire; every call ends though nobody answers |

## 2. Modules and the code

| module | role | models |
|---|---|---|
| `StateStore` | the document store, extended by four of the modules | `persistStateToApi`, `updateApplicationStatus`, `clearSavedStateFromApi` |
| `RedirectRules` | pure rules | `ApplicationStatus`, the shared rules, `mapStatusToUrl` |
| `ApplicationLifecycle` | component | pipeline, reference numbers, questions, submission, deleted page |
| `SubmissionLedger` | abstract specification | what the lifecycle promises about submitting and amending |
| `ClaimJourney` | component | start page, claim declaration, the pipeline for claim statuses |
| `ClaimLedger` | abstract specification | what the claim journey promises about opening, submitting and showing claims |
| `LandSelection` | component | the pages that change `landParcels` and `payment`, and the land submission page |
| `SessionTokens` | component | sign-in, the cookie strategy's `validate`, `refreshTokens`, sign-out |
| `ParcelLoads` | component | `parcel-cache.js`, `fetchParcels`, `fetchParcelActions`, `fetchAuthorisedParcelIds` |
| `ActionsRefresh` | component | the select-actions page in the browser, its endpoint, and what the server does with the posted form |
| `TaskList` | component | `task-list.helper.js` and the task, terminal and landing pages |
| `DependentAnswers` | component | check-details, the common parcel page, woodland hectares, the payment page |
| `ServiceCalls` | component | `token-manager.js`, `retry.js`, the consolidated view's requests |
| `Navigation` | component | where a request ends up: the redirects of the pipeline, permissions, check-details, the deleted page, the forms engine's own redirects |
| `MC*` | model checking | symmetry sets, the rules given to the lifecycle, the grants given to `Navigation` |
| `*Proofs` | theorems | one per component, except that `TokensProofs` is about `SessionTokens` and `ServiceCalls`, and `AnswersProofs` about `TaskList` and `DependentAnswers` |

In the first five components a request (or a call) is a record with a program counter:
`idle`, then one value per station at which the code awaits something. An action
is the code between two awaits, so the modules' interleavings are the ones Node
can produce. `ctx` is the snapshot the request works on. The operators
`Goto` and `Finish` move one request and are the only ones that touch it besides
the actions themselves.

A module of proofs about two components extends both. The usual names of one of the two
(`Init`, `Next`, `Spec`, `TypeOK`) therefore have a prefix: `SC` in `ServiceCalls`, `DA` in
`DependentAnswers`.

### 2.1 StateStore

`doc` is the saved document or `NoDoc`. `Save`, `PatchStatus` and `Discard` allow
the written value, and, where the helper swallows failures (`Lossy`), also the old one.
A PATCH changes the status of whatever document is stored when it arrives.

### 2.2 ApplicationLifecycle

| action | code |
|---|---|
| `Load` | the request's one read of the document |
| `EnsureReference` | the engine drawing a reference number and saving it |
| `Pipeline` | `formsRequestPipeline` and `formsStatusRedirect` up to asking GAS |
| `GasLookup` | `handlePostSubmission` and `mapStatusToUrl` |
| `Clear`, `Reopen`, `Patch` | `persistStatus`: CLEARED drops all but the status; REOPENED moves the reference to `previousReferenceNumber` and is followed by the PATCH |
| `Render`, `Answer`, `Declare` | the handlers of a page, a question, the declaration |
| `Submit`, `Land` | `submitGrantApplication`, and the post that was given up and lands later |
| `MarkSubmitted`, `RecordSubmission` | `handleSuccessfulSubmission` and `persistSubmissionToApi` |
| `ShowDeleted`, `LeaveDeleted` | `application-deleted.route.js` |
| `GasDecides`, `Purge` | external: GAS moves an application's status, the backend purges a draft |

`minted` is a history variable: the reference numbers drawn so far, each with the
previous reference of the state it went into. No guard reads it except the bound on
references.

Where the pipeline's choice depends on things the properties do not tell apart
(the path, `excludedPaths`, `sec-fetch-site`, pending check-details changes, the
one-shot marker of a status change, all of them in `Navigation`), `PipelineOutcomes` offers every outcome that
the status admits. That allows more than the code does, so what holds of the
model holds of the code.

A redirect of the pipeline usually ends the request and begins another. When it would lead
to the page asked for, the code goes on into the handler with the snapshot it has
(`forms-status-redirect.js:574`); `Redirect` allows both wherever the pipeline redirects
after asking GAS.

### 2.3 ClaimJourney

Starts where an application was accepted. `StartClaim` is `persistStatus` to
CLAIM_STARTED, `PersistCurrentClaim` the start page with `upsertCurrentClaim` and
its payment calculation, `Submit` and `MarkSubmitted` the declaration with
`buildClaimData` and `markClaimSubmitted`. Claims are sequences in the document,
and the amount of a claim is the answer of the payment service, which may differ
at every call. A payload without a current claim has number 0 and `NoAmount`,
which stand for `undefined` (`NoClaim`).

### 2.4 LandSelection

A selection is a function from the chosen parcels to their chosen actions, a
payment is the selection it was calculated for. One action per page: `MapPage`,
`SelectActions`, `RemoveParcel`, `RemoveAction`, `ConfirmPage`, `PaymentPage`,
`Validate`, `Submit`, `Record`. `forms` is the set of forms the browser was shown:
a form can be posted once it was shown, and again later, from another tab or by
going back. `FormsOpen` starts with every form shown, which allows more than the
code. The difference between a missing `landParcels` and an empty one is kept (`NoLand`),
because the code tells them apart in some places and not in others. `Steady` is the set of
parcels for which the service still lists, at the post, the actions the page showed.

### 2.5 SessionTokens

Each session's tokens are numbered in the order Defra Identity gave them, and a
pair of tokens is the same number twice. `Validate` is the cookie strategy's
check of the cached session and the access token's expiry, `Refresh` the
exchange, `CacheTokens` the write of the new pair, `SignOut` the callback of
signing out, `Expire` the passing of time and `Evict` the end of an entry's life
in Redis. `Reliable` is the set of sessions for which every answer and every cache
write arrives; of the others some are lost.

### 2.6 ParcelLoads

A value is the time at which the services read it, so age and order can be stated
directly. `SingleFlight` chooses between the parcels of a business, whose callers
share one load (`inflightParcelsBySbi`), and the other caches, where each caller
that misses loads for itself. `Set` keeps the place of a key that is set again, as
a JavaScript `Map` does, and makes room even for a key that is there already.
`caches` is the flag by which `fetchParcelActions` goes past the cache.

### 2.7 ActionsRefresh

The page is one record: what is `checked`, `disabled`, `refused` (shown as
unavailable), `typed`, `chosen` (the area an action claims), `kept` (rejected values
shown again), the `banner`s, the `live` availability. `inflight` holds the requests
under way, each with the claims it was computed for, and which of them is `current`:
the page's counter of refreshes is only compared for equality with the latest.
`Toggle`, `Type`, `Flush` and `Load` are the handlers of a change, of typing, of the
debounce and of loading the page; `Stale`, `Fail` and `Answer` what becomes of a
request; `Redisplay` and `Save` what the server makes of the posted form.
`Answer` is the whole of `applyRefreshResponse`, with the follow-up request it may
send. An answer speaks of the actions it lists, and of a checked one only if it also gives its area
(`Heard`): the page skips the others (`:540`, `:462`), and `skipped` keeps which they were. `Answers`
is what the endpoint may return, a whole list, a part of it, or `actions: []`. `synced` are the actions
whose area the last answer gave. No guard reads these two. Availability is `Left`: the area under the action's cover that the claims of
its competitors leave.

### 2.8 TaskList

A form is a sequence of pages, each with a kind (question, optional, unlisted, exit,
landing, list), a section and the earlier answer it depends on. `Tasks`,
`Completion`, `TriggersExit`, `AllPreviousCompleted`, `Group` and `TaskStatus` are the
helpers of `task-list.helper.js`; `ItemLinks` and `GroupLinks` the links of the two
ways to show the list. The forms engine's walk (`Path`, `Walk`, `Reach`, `NextPath`) is
external, taken from how the pages here use it. `Visit`, `Post`, `Proceed` and
`BackToList` move one of several tabs.

### 2.9 DependentAnswers

What an answer is does not matter here, only which parcels it was `given` for.
`SelectParcels` is the post of the common parcel page with `getInvalidatedState` and the
minimum area. The page adds the areas of the selected parcels that could be fetched (`measured`,
another set at each post), compares that total with the minimum, and saves it as `Total`
of these parcels: one parcel of unknown area beside a large one passes, and lowers what is saved.
`EnterHectares` takes no more than the total of its snapshot; it and `PaymentPage` give
an answer for the parcels of the snapshot. `UpdateOnSfd`, `RejectDetails`, `ConfirmDetails`,
`RecordApplicant` and `DetailsUnavailable` are check-details, where confirming saves twice with a call of
the consolidated view in between. `mergeState`, of the forms engine, is modelled as
"the update wins, and what it does not name stays, inside `additionalAnswers` too".

### 2.10 ServiceCalls

A token is named by the time it was issued. An attempt is an operation in `ops` that
outlives its call's patience: `TimeOut` moves the call and leaves the operation, which
may still store a token (`ReadToken`) or send its request. `AskAgain` is a token
request that timed out, whose answer is dropped. The delays between attempts are not timed:
`Retry` may come at any time after the failure.

### 2.11 Navigation

The lifecycle asks what a request does to the document, this module where the user
ends up. A request is one step, and a redirect is another request, so other tabs,
GAS and the backend come in between the hops of a navigation and not inside one.

| definition | code |
|---|---|
| `Stage` | the order of the pipeline's decisions: deleted, forbidden, the marker, claims, requests that are skipped, drafts, GAS |
| `Decide`, `Ask`, `AskFails` | a request the pipeline judges by itself, by GAS's answer, without one |
| `Failing`, `Destination`, `BeforeSubmission` | the guards of a grant that the state does not pass (the first decides), and where a started draft is led, a gate open or closed, or one that leads nowhere |
| `Marked`, `ConsumeMarker` | `YarKeys.STATUS_CHANGE_REDIRECT`, one per session |
| `Refusal`, `RequiredPermission` | `enforcePagePermission` and the rules of pages |
| `Continue` | what comes after the pipeline: permission, the engine's redirect, the handler |
| `ConfirmDetails`, `Submit`, `DeletedPage`, `Root` | the handlers, and the redirect from the service's root |
| `Reach`, `NextPage`, `Stops` | external: the engine's walk to the first page not answered or not passable, with `update-details` after `check-details` when the details are rejected |

The engine is not in the repository. What is taken of it is what the code here relies on:
that a page past an unanswered one, or past a terminal one, is answered by a redirect to
that one (`check-details.controller.js:35` and `:303`), except when it is its own relevant
path (`:39`). `fetchSite` is the browser's `sec-fetch-site`, which a redirect keeps: a
navigation that began outside stays one. "No" with the service that updates details
stands also for the link to that service on the page (`:244`).

`due` is a history variable: where a status change sent a tab, until something else is
served or asked for.

## 3. Runs, bounds and fairness

### 3.1 Passing runs

| run | instance | shows |
|---|---|---|
| `lifecycle_two_tabs` | 2 requests, 2 references, 1 field, lossy | `SubmittedIsAccepted`, `PredecessorIsAccepted`, `ClearedStartsAfresh`, and that the system implements `SubmissionLedger` |
| `lifecycle_one_tab` | 1 request, every kind of request, claim rules, lossy, fair | `ResubmissionIsLinked`, `EveryRequestEnds` |
| `claims_two_tabs` | 2 requests, 2 amounts, 2 claims, lossy, late posts | `OneCurrentClaim`, `SubmittedClaimIsAccepted`, `ClaimsInOrder`, and that the system implements `ClaimLedger` |
| `land_two_tabs` | 2 requests, 2 parcels (1 steady), 1 action, lossy, all forms open | `NoPaymentWithoutParcels`, `NoEmptyParcel`, `SubmittedIsValidated`, `SubmittedIsKept` |
| `session_overlap` | 3 requests, 2 sessions (1 reliable), 3 tokens each | `CachedIsHonoured`, `NeverBack` |
| `parcels_shared` | 3 calls, 2 keys, 1 entry, clock to 4, fair | `CacheBounded`, `OneLoadPerKey`, `FreshEnough`, `NeverOlder`, `EveryCallEnds` |
| `actions_refresh` | 3 actions (1 with a quantity) on 2 units of land, 3 values to type, whole, partial and empty answers, 2 requests under way, 1 follow-up, fair | `TypeOK`, `NothingStuck`, `ShowsWhatIsLeft`, `GrowthFits`, `KeptUntouched`, `SavedAsShown`, `SettlesOnceLeftAlone` |
| `task_list` | 225 forms of 5 pages, 2 tabs | `Onward`, `CompleteWhenWalked`, `ModesAgree` |
| `answers_two_tabs` | 2 requests, 2 parcels of which either may be unmeasured, a minimum area, 1 or 2 hectares, lossy | `DependentsFollow`, `HectaresWithinArea` |
| `service_calls` | 2 calls, 2 attempts each, tokens of 4 with a buffer of 2, clock to 4, fair | `SCTypeOK`, `SentInTime`, `EveryCallEnds` |
| `navigation` | 2 tabs of 2 users, 3 grants (details first; a start page, a landing page and a viewer; claims), 2 entry points, fair | `TypeOK`, `StatusChangeArrives`, `RestsUnlessIncomplete`, `OnlyTheEntitled` |

The type invariants that no run lists are theorems.

Each property has a mutant in `PROJECT.json`: a plausible mistake in one mapped
definition which the property's own run then catches.

### 3.2 Why the bounds are enough

- Two requests suffice for a race between a reader and a writer of the document;
  the third in `session_overlap` and the parcel runs allows one to renew or load
  while a second holds the old pair and a third arrives.
- Two references allow one reopening with its resubmission, and two tabs that both
  reopen. What is amended a second time is covered by the theorems, which hold for
  every set of references. `ReferenceLeft` keeps requests that need a reference out
  when none is left. A `deletedView` request needs none, so the bound does not stop
  the model.
- `MaxClaims` 2 has the claim that is submitted and the next one; the theorems cover
  longer histories.
- Two parcels with one action each tell an emptied selection from an emptied parcel,
  and one steady parcel beside another tells what depends on the service's list from what
  does not. Several actions on one parcel are covered by the theorems; with two
  parcels and two actions TLC does not finish in minutes. `MaxAccepted` 1 lets two
  requests submit the same selection or one of them be refused.
- `MaxTokens` bounds what Defra Identity gives one session; 3 allows a renewal of
  a renewal.
- `MaxEntries` 1 with two keys makes a full cache and an eviction, of an entry that
  has expired or has not; larger caches, and loads that are not shared, are covered
  by the theorems. `Ttl` 1 and `MaxLoad` 1 make entries that have
  expired, that expire this instant, and that have not, and `MaxTime` is longer than
  one life and one load together.
- Three actions let one grow into what a second frees while a third competes for it;
  `MaxFollowUps` 1 and two requests under way give a refresh, one that overtakes it and one that
  follows up. `Typed` has nothing, a value that fits and one that does not. One of the partial
  answers leaves out the quantity action and lists another without an area, which are the two
  ways the page skips an action.
- With two parcels that measure 1 each and a `Minimum` of 1, a selection of both passes with one of
  them unmeasured and is refused with neither measured; one hectare fits a parcel, two need both.
- The forms of `task_list` have a page of each sort (conditional, optional, unlisted,
  exit, landing) beside plain ones, so each helper meets each sort before, at and
  after the page it is asked about.
- Two attempts of two calls are enough for one call's abandoned attempt to read a
  token after the other's, and after its own second attempt; a clock of one lifetime
  reaches the buffer and the expiry.
- The grants of `navigation` differ in what the decisions depend on: the start page, a
  landing page, claims, a guard, a gate, one that leads nowhere while it is closed, `excludedPaths`, whether the service that updates details is off, on
  or without a usable address, and the level of the second user. Two statuses of GAS each
  are enough, one that changes the status and one that reopens, clears or matches the
  default; one question stands for all. Two sessions tell the session's marker from the
  other's.
- The symmetry sets permute only model values that no definition tells apart, and
  no run with symmetry checks a liveness property.

### 3.3 Deadlock

Deadlock is checked in every run but those of `LandSelection`, `SessionTokens`,
`ActionsRefresh` and `ServiceCalls`. There the instance may
stop, or nothing is left to do, for a good reason: once a submitted document is saved,
none of the pages of `LandSelection` opens any more; once both sessions have signed in
and signed out, `SessionTokens` has no session id left to draw; once the actions are
stored the user has left the page; once every call has ended and the clock is at its
bound, `ServiceCalls` has nothing to do.

### 3.4 Fairness

`FairSpec` of `ApplicationLifecycle` has weak fairness of `Serve(r)` for each request
on its own: Node runs every continuation, and every call a handler awaits is timed
out, so a request that has come in always takes a next step. Nothing is assumed of
the users (`Load`), of GAS's decisions, of purges, or of late posts. `FairSpec` of
`ParcelLoads` has weak fairness of `Load(c)`: the services' answer, or the
failure by which a time-out ends the load. Calls that wait for another's load get
no fairness of their own; that they end is what `EveryCallEnds` shows.

`Spec` of `ActionsRefresh` has weak fairness of `Reply`, for a browser ends every request
with an answer or an error, and of `Flush`, the debounce timer. `SettlesOnceLeftAlone`
assumes that the user stops, as its premise says, and not as fairness. `Spec` of
`ServiceCalls` has weak fairness of `TimeOut` and `Retry` of each call, which are
timers of the process; no service has any.

`FairSpec` of `Navigation` has weak fairness of `Serve(t)` for each tab: the server answers
every request, and a browser follows every redirect. Nothing is assumed of users, GAS or
purges; that the users start nothing new is the premise `LeftAlone` of the properties.

## 4. What the code does that its documentation says otherwise

One run expects a violation of its property, which states what the quoted lines say.

| run | property | the line | what happens |
|---|---|---|---|
| `navigation_loop` | `EveryNavigationRests` | `common/request-pipeline/redirects/forms-status-redirect.js:846` "an additional layer of protection against redirect loops", and `:848`, where only a submitted application has "no in-progress journey to protect from redirect loops" | a reopened application whose details were rejected is entered from outside the grant: the rule for REOPENED leads every page to the summary, the engine leads the summary to `update-details`, and so on. The same happens while the details are to be confirmed again, and in a claim journey whose document lacks an answer of the application |

`RestsUnlessIncomplete`, which `navigation` shows, says that these are the only loops.
The run needs one tab and neither failures nor a second user.

Disagreements that the modules show step by step, and that have no run of
their own:

- `common/services/grant-application/grant-application.service.js:211` says "A re-submission of a
  reopened application carries `previousClientRef`". Reopening saves the new state
  (`forms-status-redirect.js:119`) and then PATCHes the status (`:135`). When the save is lost silently and
  the PATCH is applied, the application is resubmitted under its old reference with no predecessor,
  and the event is audited as a first submission. `lifecycle_one_tab` has such losses; what holds in
  spite of them is `ResubmissionIsLinked`: its own reference or its predecessor is one GAS accepted.
- `client/javascripts/land-grants/select-actions-page.js:112` says of the inputs that a refresh
  disables that "applyAvailability restores them after". An action the answer does not list is
  skipped (`:540`), and a checked one listed without an area returns before it is restored (`:462`).
  The endpoint answers 200 with `actions: []` for a parcel it does not find
  (`land-grants.service.js:207`), and the page reads a missing list as an empty one (`:503`). After such
  an answer the notice goes, and the actions stay disabled with no message, show the old figures
  and are not posted: accepted, the selection is stored without them. Three steps of `actions_refresh`
  lead there: the page is loaded, an action is ticked off, and its answer leaves out the
  others. `NothingStuck` says that only what the last answer left out stays disabled,
  `ShowsWhatIsLeft` that the figures of the others are right, `SavedAsShown` that what is stored is
  what was shown once the answers spoke of every checked action. Another change whose
  answer lists the actions, or a refresh that fails, sets them right. How often the land grants
  service leaves an action out is not known here; nothing in this code keeps it from doing so.
- `task-list/task-list.helper.js:206` says "True if all previous tasks are completed or not
  applicable". An answer stays in the document when its page stops to apply, its exit page's
  condition still holds, and every task after it shows "Cannot start yet"
  (`AllPreviousCompleted` in `TaskList`).
- `docs/FEATURES.md` writes the paths of permission rules with a leading slash;
  `common/helpers/permissions/page-permissions.js:24` compares them with a path that has
  none (`RequiredPermission` in `Navigation`).
- `docs/AUTH-AND-SECURITY.md:361` says that the lock prevents "concurrent modifications" by
  "multiple users or sessions". Two sessions of one user share it, and the later save of
  a whole snapshot removes the answer the other saved (`Answer` in `ApplicationLifecycle`).
- `claims/services/claim-state.js:5` says that "each GAS submission targets that single
  current claim". The status opens the journey before the claim is saved; when that save
  is lost, the declaration submits without a claim number (`Payload` in `ClaimJourney`).
- `land-grants/view-state/land-parcel.view-state.js:300` promises "null if not found".
  Removing the last action deletes `landParcels`, and posting the removal again
  throws (`RemoveAction` in `LandSelection`).
- `auth/refresh-tokens.js:37` says "Refresh tokens can only be used once". Two requests of
  one session that find the access token expired both send it, and the refused
  one is sent to sign in (`Refresh` in `SessionTokens`).
- `client/javascripts/land-grants/select-actions-page.js:591` leaves the updating notice of an
  overtaken refresh to the newer one, "the newer refresh owns it". A newer refresh
  of another action hides its own notice only, and the first one stays
  (`Stale` in `ActionsRefresh`).
- `details-page/check-details.controller.js:327` saves the confirmation before it fetches the
  details. When that fails the page says "Unable to save your details", and the document
  says confirmed and holds no applicant (`DetailsUnavailable` in `DependentAnswers`).
- `ARCHITECTURE.md` calls a page completed when its required fields have values. A page
  with optional fields only is never completed (`Completion` in `TaskList`).
- `ARCHITECTURE.md:43` calls the engine's `mergeState` shallow. Were it so, the common parcel
  page (`common-select-land-parcel-page.controller.js:221`) would drop the applicant from
  `additionalAnswers`; the recorded payloads under `contracts/` show both, and so it is modelled.

## 5. What is proved

Every component has theorems, for every number of requests, references, claims, amounts,
parcels, actions, sessions, calls, users and tabs, every form and grant, every size and life
of a cache, and every pattern of lost writes. Every invariant and every action property that
a run checks is one of them, and so are both refinements. In each the argument is: an inductive invariant holds
initially, every step preserves it, and the properties follow from it. Each inductive
invariant was first checked by TLC on the instance of the component's run.

### 5.1 ApplicationLifecycleProofs

`TypeCorrect`, `SubmittedCorrect`, `PredecessorCorrect`, `ClearedCorrect`,
`RecordedCorrect`, `ResubmissionCorrect` and `LedgerImplemented`.

The properties speak of the document only, and are not inductive: a request may write a
snapshot it read long ago. `IInv` therefore asks the same (`SoundState`) of the
document and of every snapshot, and says how far a request has got when it holds
one (`SoundRequest`): only a reopening request has a SUBMITTED snapshot, only an
accepted payload is marked. The hardest case is a late resubmission: why can GAS
not hold one reference with two different predecessors? Because a reference is drawn
once, into one state, and `minted` records that state's predecessor. `SoundPayloads` says
that every payload, accepted or still in flight, agrees with `minted`. That also
gives the refinement: `Submit` and `Land` are `Accept` steps of `SubmissionLedger`,
everything else is `Show` or a stutter.

`ResubmissionCorrect` assumes one request at a time (`Alone`) and nothing of the store: saves and PATCHes
may be lost. With two requests it is false, since `persistStatus` saves first and PATCHes the status of
whatever document it finds by then. `LinkedInv` says that a reopened document, and every
snapshot of one, has its own reference or its predecessor among those GAS accepted, and that this
holds of the document under any status while a request may still PATCH it to REOPENED (`MayReopen`). The save may have
been lost, and a purge may come in between: the PATCH then reopens the document under
the old reference, or the purged one.

### 5.2 ClaimJourneyProofs

`ClaimTypeCorrect`, `OneCurrentClaimCorrect`, `SubmittedClaimCorrect`,
`ClaimsInOrderCorrect` and `ClaimLedgerImplemented`.

`SoundClaims`: in the document and in every snapshot, only the last claim may be
open, the i-th claim has number i, and a submitted one was accepted with its
amount. `UpsertSound` and `MarkedSound` are the two lemmas about the operators.
`SoundPayload` carries the order over to posts that land late: the claim of a snapshot has
all its predecessors accepted already, and GAS forgets nothing.

The refinement takes as `pending` whatever the document, a snapshot or a post under way would
submit (`Pending`), and as `shown` the claims the document says are submitted (`Closed`). Each step
of a request adds at most one claim to what is pending, the one it puts in the document
(`RequestImplements`); `SoundIsShowable` says that sound claims show an unbroken row.

### 5.3 LandSelectionProofs

`LandTypeCorrect`, `PaymentCorrect`, `ParcelsCorrect`, `ValidatedCorrect`,
`KeptCorrect`.

`Sound` of the document is asked of each snapshot too, each operator on documents
(`BuildNewState`, `DeleteParcel`, `DeleteAction`) has a lemma that it keeps it, and a
request that is submitting still holds the selection it had validated.

### 5.4 TokensProofs

Of `SessionTokens`: `SessionTypeCorrect`, `HonouredCorrect`, `NeverBackCorrect` (an action property).

A request in `refreshing` holds what it read earlier, so why can a slow renewal not
put an old pair back? Because only the request whose token was honoured gets to
`caching`, it then holds the very last pair, and anybody else's is older
(`LastAreCachedOnce`). That needs the pairs to be pairs (`CachedArePaired`,
`ReadArePaired`), and it needs a session that is being signed in to be nobody
else's (`SessionsAreNew`, `SessionsAreGiven`). Most actions change one request and
neither `cache` nor `given`; `QuietInv` handles them together.

Of `ServiceCalls`: `CallsTypeCorrect` and `SentCorrect` (an action property). An answer that is
read late counts its token's life from when it was read, and may replace a newer one. So
`CallsInv` says that the cached expiry is at most `MaxDelay` after the token's real end, whichever
token is cached, and that no answer is read more than `MaxDelay` after it was issued. That
a retry stays within its attempts (`CallsTypeCorrect`) needs `CallsInv` too: a call that waits
or has not begun has an attempt left.

### 5.5 ParcelLoadsProofs

`ParcelTypeCorrect`, `CacheCorrect`, `FreshCorrect`, `LoadsCorrect` and `OrderCorrect`
(an action property).

An entry's life starts when its load ends, so its age is bounded only because a load's
is: `EntriesSound` bounds what is cached, `CallsSound` what is being loaded, and the
two add up to `FreshEnough`. That loads are shared is `LoadsShared`: whoever loads a
key is the call in flight for it. `InOrder` says that what was served of a key is no
newer than what is cached of it, and that no newer than what a load has read. The
critical step is `Settle`, where it needs that nobody else has read that key:
`LoadsShared` again. `SetCaches`, `PurgedLeaves` and `MakeRoomLeaves` say what the
operations of the cache leave in it, from lemmas about `RemoveAt` and
`RemoveFirstMatch` of the community modules; they need that a set of naturals has a least
element, which the library's well-founded `<` provides.

### 5.6 ActionsRefreshProofs

`StuckCorrect`: nothing stays disabled without its reason, once no refresh is awaited, but what
the last answer said nothing about.
`StuckInv` adds `Sound(page)`: the sets are of actions, and no refresh has disabled a
protected action that it has not refused. Recovering from a failed refresh skips the
protected actions, so without that it could leave one of them disabled for good. What was
saved must be actions too, since loading the page starts from it. Each operator on pages
has a lemma that says what it leaves disabled.

`TypeCorrect`, `GrowthCorrect` (an action property): an answer to claims that fitted leaves claims
that fit. Areas are summed over sets of actions by the folds of the community modules. What is needed of
a sum (`SumEquation`, `SumSplit`, `SumMonotone`, `SumBounded`) is proved for a smallest subset that
would refute it, which the library's well-founded subset order provides. An answer lets one action
alone grow (`Growers`), by what its plan leaves for it, and every other one claims no more than it
did in the plan (`AppliedPlan`).

`ShowsCorrect`, `SavedCorrect` and `KeptCorrect`: for the actions the last answer gave an area, the page
at rest shows what is left under the claims it holds; that is what is posted; and rejected values are
left alone. The page changes while
a request is under way, and each change sends a new one, so `SettledInv` says how far the page
may be from the claims of the one current request (`Reflects`): by a quantity being typed, by one
typed and given up, by a claim never established. An answer that lets nothing grow closes the
gap for the actions it speaks of (`Rests`), and one that lets an action grow asks again.

### 5.7 AnswersProofs: the task list

`ListTypeCorrect`, `CompleteCorrect`, `OnwardCorrect` and `ModesCorrect`, for every form. They
need no invariant but the type.

The engine's walk (`Path`) is a recursive function over the pages. `Passed` shows that there is a
function with its equation, again by the least page at which there would be none, and `PathIs`
that the walk passes a page exactly when the page applies and the one it rests on was passed.
`CompleteCorrect` and `OnwardCorrect` are about forms in which a page rests on the answer of a page
before it (`Ordered`), in states in which no answer is left of a page off the path (`NothingStale`),
no exit is triggered and every listed page asks something (`Plain`). The first page not yet
answered is then one the walk comes to, and the first unfinished task leads to it.

`ModesCorrect`: whatever the answers, the two ways to show the list agree, for every form
whose sections' pages follow one another (`Contiguous`) and whose listed pages all ask
something, no exit being triggered (`Plain`). Forms are configured outside the repository; on one
without that shape the two ways do differ: a section's task then waits for the whole of
the sections before it, its pages only for the tasks before them. The proof
rests on each task belonging to one section and on the sections being in the order of
their first pages.

### 5.8 AnswersProofs: dependent answers

`AnswersTypeCorrect`, `FollowCorrect`, `PendingCorrect` and `FitCorrect`. The strengthening is
`Sound`, of the document and of every snapshot: a page changes its snapshot, and
`WithParcels` compares the selection with that very snapshot, so what is written
is as sound as what was read, whatever others wrote meanwhile. `FitCorrect` is about the area the parcels
have, not the total saved with them: a total that counts a missing area as none is too
small (`AreaAssumption`), so what it admits fits (`Fits`), and stays fitting as long as the
parcels are those it was given for (`Follows`).

### 5.9 NavigationProofs

`NavigationTypeCorrect`: every redirect leads to a page of the grant or to one of the known
pages outside it. `ArrivalCorrect` needs it of the pages that guards, gates and rules name.

`EntitledCorrect` (an action property): the pipeline lets requests through at eight places, and
each of them ends at `Refusal` before a handler changes an answer or submits. The only other
changes of the document are a status that GAS reports, which no rule makes SUBMITTED
for one that was not, and leaving the deleted page, which empties it.

`ArrivalCorrect`: a user sent to a page by a change of the status gets there, unless the
permission is lacking. `DueInv` says of the tab that it is on its way (`OnTheWay`: the marker of
its session is for that page, and neither a purge nor a changed status is in the way) or has
arrived, as long as nothing else is served. `CompleteReaches` is what it takes of the engine: with
every answer given, it leads nobody away from a page of the journey.

### 5.10 Assumptions

All are named in the module that declares the constants, and TLC evaluates them.

| assumption | says | why the code justifies it |
|---|---|---|
| `LossyAssumption`, `ReliableAssumption`, `FlagsAssumption`, `SharingAssumption` | flags are Booleans | - |
| `NoDocAssumption`, `NoRefAssumption`, `AmountsAssumption`, `AbsenceAssumption`, `SessionsAssumption`, `NoneAssumption` | "nothing" is not a value | `undefined` or a missing key is told apart from every value |
| `KindsAssumption` | the requests of an instance are among those modelled | - |
| `FieldsAssumption` | a form has at least one question | a declaration follows questions in every journey |
| `GasStatusesAssumption` | UNKNOWN is no status of GAS | it stands for the answer 404 |
| `RulesAssumption` | no rule turns a reopened application into a submitted one, nor goes back to no status or PURGED | true of the shared rules, and of those of the claim journeys; rules of individual grants are configuration outside the repository |
| `MaxClaimsAssumption`, `BoundsAssumption`, `SizeAssumption`, `AttemptAssumption` | bounds are naturals; of pages, attempts, actions, area and requests under way there is at least one | - |
| `ConfigAssumption` | what the parcel page invalidates are answers of the model; flags are Booleans | page configuration |
| `AreaAssumption` | parcels measure what they measure, and more parcels no less | an area is fetched at each visit; that it does not change between visits is assumed |
| `AnswerAssumption` | an answer lists actions of the page, and gives an area for some of those | the page ignores codes it has no checkbox for |
| `ActionAssumption`, `DocumentAssumption` | actions with a quantity are actions, each action has a cover, what is typed lies in or just beyond the area; what is saved is a selection | the page's rows and its form fields |
| `FormAssumption` | every page is of a modelled kind, is shown always or on an answer of the form, and belongs to one of its sections or none | form definitions |
| `GrantsAssumption`, `EntriesAssumption` | a journey is a sequence of different pages, has the details and the summary among them, and does not end with a page that asks; guards and gates lead to places of the service | the journeys the modelled controllers and the shared rules are for |
| `RulesAssumption` (of `Navigation`) | some rule applies to every status; rules lead to pages of the journey or outside it, and to the confirmation with SUBMITTED only; none leads to PURGED, nor from REOPENED to SUBMITTED | true of the shared rules, with which every grant's rules end |
| `TimeAssumption` | the answer to a token request takes less than the buffer and than a token's life | the buffer is 5 minutes, the time-out 15 seconds (`token-manager.js:10` and `:96`) |

### 5.11 Only model-checked

- Liveness (`EveryRequestEnds`, `SettlesOnceLeftAlone`, `RestsUnlessIncomplete`, both `EveryCallEnds`): fairness is
  beyond the prover.
- The violated property of section 4.

## 6. What is not modelled

- Rendering, wording, validation of single answers, logging, audit events.
- The forms engine itself and its journeys: definitions come from the backend.
  Which page precedes which is free in every model but `Navigation` and
  `TaskList`, which are given small journeys.
- More than one user of one application: the lock is the backend's.
- The OIDC exchange at sign-in, cookies' encryption, Redis as a server, rate limits.
- Status codes and messages: an error path is modelled by the state it leaves.
- The pages of a claim journey after its start page, in `Navigation`.
- The numbers: payments and areas are opaque values.
- The last four rows of section 1.1, for reasons `PROJECT.json` gives component by component.

## 7. Plan

Done: the lifecycle with its ledger, claims, land, sessions, parcel loads, the live
availability of actions, the task list, dependent answers, service calls, and navigation, in that order.

Left, in this order:

1. A composition of `SessionTokens` with `ApplicationLifecycle`: a request that renews its
   tokens before it reads the document.
2. The loading of the OIDC configuration and of form definitions, both shared by the
   requests of a process, as instances of the loads of `ParcelLoads`.
3. An abstract specification for the tokens of a session, with the proof that
   `SessionTokens` implements it.

## 8. Running the checks

    tlc -workers 2 -config lifecycle_two_tabs.cfg MCApplicationLifecycle
    tlapm ApplicationLifecycleProofs.tla

The longest runs, `lifecycle_two_tabs` and `claims_two_tabs`, take two to three minutes,
`navigation` about one; the others take seconds to a minute.
