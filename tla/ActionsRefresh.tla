---------------------------- MODULE ActionsRefresh ----------------------------
(***************************************************************************)
(* The page that selects the actions of one land parcel, in the browser     *)
(* (src/src/client/javascripts/land-grants/select-actions-page.js), with    *)
(* the server handler its form posts to.  After each change the page asks   *)
(* the server how much land is left for every action given the claims it    *)
(* plans, and applies the answer to checkboxes, quantities and claims.      *)
(* Several requests may be under way, and each may fail or be answered in   *)
(* part: an answer need not list every action, nor give an area for it.     *)
(***************************************************************************)
EXTENDS Integers, FiniteSets, FiniteSetsExt, Functions

CONSTANTS
  N,             \* the number of actions listed on the page
  Quantity,      \* those whose quantity the user types; the others claim all that is left
  Cover,         \* the land cover an action needs: actions of one cover compete
  Area,          \* the area of each cover in the parcel, in whole units
  MaxFollowUps,  \* MAX_GROWTH_FOLLOW_UPS
  MaxInFlight,   \* bound: requests under way at a time
  Typed,         \* bound: the quantities a user types
  Documents,     \* bound: the selections stored when the page is visited
  Answers        \* bound: the actions an answer lists, and those it gives an area for

Actions == 1..N
None == 0        \* no checkbox: the refresh of the page load, or nothing pending

ASSUME SizeAssumption == /\ N \in Nat \ {0} /\ Area \in Nat \ {0}
                         /\ MaxFollowUps \in Nat /\ MaxInFlight \in Nat \ {0}
ASSUME ActionAssumption == /\ Quantity \subseteq Actions /\ DOMAIN Cover = Actions
                           /\ Typed \subseteq 0..Area + 1
ASSUME AnswerAssumption ==
  Answers \subseteq {told \in [listed : SUBSET Actions, measured : SUBSET Actions] :
                       told.measured \subseteq told.listed}

VARIABLES
  page,      \* what the document in the browser holds
  inflight,  \* the availability requests not answered yet
  synced,    \* the actions the latest answer gave an area for, once applied with no growth
  skipped,   \* those an applied answer left as they were, disabled ones included
  saved,     \* the selection stored for the parcel
  open       \* FALSE once the selection was accepted and the page is left

vars == <<page, inflight, synced, skipped, saved, open>>

Quantities == [Actions -> 0..Area]

Pages ==
  [checked : SUBSET Actions, disabled : SUBSET Actions, refused : SUBSET Actions,
   kept : SUBSET Actions, banner : SUBSET Actions,
   typed : [Actions -> 0..Area + 1],   \* 0: empty; Area + 1: more than there is
   chosen : Quantities,                \* 0: no claim established
   live : Quantities, pending : Actions \union {None}]

Selections == [on : SUBSET Actions, value : Quantities]

ASSUME DocumentAssumption == Documents \subseteq Selections

Requests ==
  [trigger : Actions \union {None}, left : 0..MaxFollowUps, plan : Quantities, current : BOOLEAN]

TypeOK ==
  /\ page \in Pages
  /\ inflight \subseteq Requests
  /\ synced \subseteq Actions
  /\ skipped \subseteq Actions
  /\ saved \in Selections
  /\ open \in BOOLEAN

-----------------------------------------------------------------------------
(* The land grants API (external): what is left of a cover under a plan,    *)
(* and whether a selection fits the parcel.                                  *)

Competing(a) == {b \in Actions : Cover[b] = Cover[a]}

Left(a, plan) == Max({0, Area - SumFunctionOnSet(plan, Competing(a))})

Fits(plan) == \A a \in Actions : SumFunctionOnSet(plan, Competing(a)) <= Area

-----------------------------------------------------------------------------
(* Reading and changing the page.                                            *)

Protected(p) == p.kept \intersect p.checked

ValidTyped(p, a) == IF p.typed[a] \in 1..Area THEN p.typed[a] ELSE 0

\* getClaimForRequest: the typed or confirmed quantity; what is held or else what is left.
Claim(p, a) ==
  LET first  == IF a \in Quantity THEN ValidTyped(p, a) ELSE p.chosen[a]
      second == IF a \in Quantity THEN p.chosen[a] ELSE p.live[a]
  IN IF first > 0 THEN first ELSE second

Plan(p) == [a \in Actions |-> IF a \in p.checked THEN Claim(p, a) ELSE 0]

\* buildPlannedActions leaves out an action without a quantity to claim.
Planned(p) == {a \in p.checked : a \in Quantity => Claim(p, a) > 0}

(* Mutant: a rejected quantity is reverted like any other. *)
RevertProtectedToo(p) ==
  LET unconfirmed == {a \in Quantity \intersect p.checked : ValidTyped(p, a) = 0}
  IN [p EXCEPT !.typed = [a \in Actions |-> IF a \in unconfirmed THEN p.chosen[a] ELSE @[a]],
               !.checked = @ \ {a \in unconfirmed : p.chosen[a] = 0}]

\* uncheckUnconfirmedQuantityActions
RevertUnconfirmed(p) ==
  LET unconfirmed == {a \in (Quantity \intersect p.checked) \ Protected(p) : ValidTyped(p, a) = 0}
  IN [p EXCEPT !.typed = [a \in Actions |-> IF a \in unconfirmed THEN p.chosen[a] ELSE @[a]],
               !.checked = @ \ {a \in unconfirmed : p.chosen[a] = 0}]

DisableOthers(p, trigger) ==
  [p EXCEPT !.disabled = @ \union (Actions \ (Protected(p) \union {trigger}))]

\* markUnavailable for the actions of gone, clearUnavailable for those of free.
Mark(p, gone, free) ==
  [p EXCEPT !.checked = @ \ gone,
            !.disabled = (@ \ free) \union gone,
            !.refused = (@ \ free) \union gone,
            !.chosen = [a \in Actions |-> IF a \in gone THEN 0 ELSE @[a]],
            !.typed = [a \in Actions |-> IF a \in gone THEN 0 ELSE @[a]]]

\* Actions an answer can enlarge: it must give their area (:462).
Growable(p, plan, told) ==
  {a \in (p.checked \intersect told.measured) \ (Quantity \union Protected(p)) : Left(a, plan) > 0}

(* Mutant: every action grows into the land one answer reports. *)
AllGrow(p, plan, told) == Growable(p, plan, told)

\* The first checked action, in page order, with land to grow into.
Growers(p, plan, told) ==
  LET can == Growable(p, plan, told) IN IF can = {} THEN {} ELSE {Min(can)}

\* The actions an answer says something about: one it does not list, and a
\* checked one it gives no area for, stay as they are, disabled included.
Heard(p, told) == told.measured \union (told.listed \ p.checked)

\* applyRefreshResponse, and applyAvailability for each action of the answer.
Apply(p, plan, told) ==
  LET own    == (p.checked \intersect told.measured) \ Protected(p)
      held   == [a \in Actions |->
                   IF a \notin own \/ (a \in Quantity /\ plan[a] = 0) THEN p.chosen[a]
                   ELSE plan[a] + (IF a \in Growers(p, plan, told) THEN Left(a, plan) ELSE 0)]
      gone   == {a \in told.measured \ p.checked :
                   \/ Left(a, plan) = 0
                   \/ a \in Quantity /\ Left(a, plan) < ValidTyped(p, a)}
                \union {a \in own \ Quantity : held[a] = 0}
      live   == [a \in Actions |-> IF a \in told.measured THEN Left(a, plan) ELSE p.live[a]]
  IN Mark([p EXCEPT !.live = live, !.chosen = held], gone, Heard(p, told) \ gone)

(* Mutant: a failed refresh removes the messages only. *)
RecoverMessages(p) == [p EXCEPT !.refused = @ \ (Actions \ Protected(p))]

\* recoverFromFailedRefresh
Recover(p) == LET free == Actions \ Protected(p)
              IN [p EXCEPT !.disabled = @ \ free, !.refused = @ \ free]

HideBanner(p, trigger) == [p EXCEPT !.banner = @ \ {trigger}]

\* refreshAvailability up to the request it sends: the page it leaves.
Prepared(p, trigger, left) ==
  LET reverted == RevertUnconfirmed(p)
  IN IF trigger # None /\ left = MaxFollowUps
     THEN DisableOthers([reverted EXCEPT !.banner = @ \union {trigger}], trigger)
     ELSE reverted

(* Mutant: an earlier request keeps its say. *)
NoneOutdated(requests) == requests

\* Nothing of a request is read once a newer one is sent (thisRequestId).
Outdated(requests) ==
  {[trigger |-> None, left |-> 0, plan |-> [a \in Actions |-> 0], current |-> FALSE] : r \in requests}

\* A refresh: the newest request makes every earlier one stale.
Refresh(p, trigger, left, others) ==
  LET sent == Prepared(p, trigger, left)
  IN /\ page' = sent
     /\ inflight' = Outdated(others)
          \union {[trigger |-> trigger, left |-> left, plan |-> Plan(sent), current |-> TRUE]}
     /\ synced' = {} /\ skipped' = {}

-----------------------------------------------------------------------------
(* The page as the server renders it: the stored selection, or what a        *)
(* rejected form held, each checked action then protected from refreshes.    *)

(* Mutant: a claim is seeded from a quantity that is not valid. *)
RenderedUnchecked(on, value, rejected) ==
  [checked |-> on, disabled |-> {}, refused |-> {}, banner |-> {}, pending |-> None,
   kept |-> IF rejected THEN on ELSE {},
   typed |-> [a \in Actions |-> IF a \in on \intersect Quantity THEN value[a] ELSE 0],
   chosen |-> [a \in Actions |-> IF a \in on THEN value[a] ELSE 0],
   live |-> [a \in Actions |-> Area]]

Rendered(on, value, rejected) ==
  [checked |-> on, disabled |-> {}, refused |-> {}, banner |-> {}, pending |-> None,
   kept |-> IF rejected THEN on ELSE {},
   typed |-> [a \in Actions |-> IF a \in on \intersect Quantity THEN value[a] ELSE 0],
   \* seedConfirmedQuantities, and the hidden fields of the other actions
   chosen |-> [a \in Actions |-> IF a \in on /\ value[a] <= Area THEN value[a] ELSE 0],
   live |-> [a \in Actions |-> Area]]

\* initSelectActionsPage
Load(p) ==
  IF Planned(p) # {} THEN Refresh(p, None, MaxFollowUps, {})
  ELSE page' = p /\ inflight' = {} /\ synced' = Actions /\ skipped' = {}

Init ==
  /\ saved \in Documents
  /\ open = TRUE
  /\ skipped = {}
  /\ LET p == Rendered(saved.on, saved.value, FALSE)
     IN IF Planned(p) = {} THEN page = p /\ inflight = {} /\ synced = Actions
        ELSE /\ page = p
             /\ inflight = {[trigger |-> None, left |-> MaxFollowUps, plan |-> Plan(p), current |-> TRUE]}
             /\ synced = {}

-----------------------------------------------------------------------------
(* The user.  Leaving a quantity input flushes its pending refresh, so that  *)
(* nothing else is touched while one is pending.                             *)

CanAsk == Cardinality(inflight) < MaxInFlight

Toggle(a) ==
  LET isOn == a \notin page.checked
      p == [page EXCEPT !.checked = IF isOn THEN @ \union {a} ELSE @ \ {a},
                        !.kept = @ \ {a},
                        !.typed[a] = IF isOn THEN @ ELSE 0,
                        !.chosen[a] = IF isOn THEN @ ELSE 0]
  IN /\ page.pending = None
     /\ a \notin page.disabled
     /\ CanAsk
     /\ UNCHANGED <<saved, open>>
     /\ IF isOn /\ a \in Quantity /\ ValidTyped(p, a) = 0
        THEN page' = p /\ UNCHANGED <<inflight, synced, skipped>>
        ELSE Refresh(p, a, MaxFollowUps, inflight)

Type(a, value) ==
  /\ a \in Quantity \intersect page.checked
  /\ a \notin page.disabled
  /\ page.pending \in {None, a}
  /\ value # page.typed[a]
  /\ page' = [page EXCEPT !.typed[a] = value, !.kept = @ \ {a}, !.pending = a]
  /\ UNCHANGED <<inflight, synced, skipped, saved, open>>

(* Mutant: the pending refresh is sent and not cleared. *)
FlushAgain ==
  /\ page.pending # None
  /\ CanAsk
  /\ UNCHANGED <<saved, open>>
  /\ IF ValidTyped(page, page.pending) > 0
     THEN Refresh(page, page.pending, MaxFollowUps, inflight)
     ELSE UNCHANGED <<page, inflight, synced, skipped>>

\* The debounce timer, or the input left: flushPending.
Flush ==
  LET p == [page EXCEPT !.pending = None]
  IN /\ page.pending # None
     /\ CanAsk
     /\ UNCHANGED <<saved, open>>
     /\ IF ValidTyped(page, page.pending) > 0
        THEN Refresh(p, page.pending, MaxFollowUps, inflight)
        ELSE page' = p /\ UNCHANGED <<inflight, synced, skipped>>

-----------------------------------------------------------------------------
(* The answers of the availability requests, in any order.                   *)

Stale(r) ==
  /\ ~r.current
  /\ inflight' = inflight \ {r}
  /\ UNCHANGED <<page, synced, skipped, saved, open>>

Fail(r) ==
  /\ r.current
  /\ page' = Recover(HideBanner(page, r.trigger))
  /\ inflight' = inflight \ {r}
  /\ UNCHANGED <<synced, skipped, saved, open>>

Answer(r, told) ==
  LET grew == Growers(page, r.plan, told) # {}
      p    == Apply(page, r.plan, told)
  IN /\ r.current
     /\ UNCHANGED <<saved, open>>
     /\ IF grew /\ r.left > 0
        THEN Refresh(IF r.trigger = None THEN p ELSE DisableOthers(p, r.trigger),
                     r.trigger, r.left - 1, inflight \ {r})
        ELSE /\ page' = HideBanner(p, r.trigger)
             /\ inflight' = inflight \ {r}
             /\ synced' = IF grew THEN {} ELSE told.measured
             /\ skipped' = Actions \ Heard(page, told)

-----------------------------------------------------------------------------
(* The form.  The browser leaves disabled fields out of what it posts; the   *)
(* server recomputes what is left under the posted claims, has the API       *)
(* validate the selection and stores it, or renders the page again.          *)

Posted(p) == p.checked \ p.disabled

FieldValue(p, a) == IF a \in Quantity THEN p.typed[a] ELSE p.chosen[a]

(* Mutant: the hidden claims of the other actions are not read. *)
PostedQuantities(p) ==
  [a \in Actions |-> IF a \in Posted(p) \intersect Quantity THEN p.typed[a] ELSE 0]

\* buildPlannedActionsFromFields
PostedPlan(p) == [a \in Actions |-> IF a \in Posted(p) THEN FieldValue(p, a) ELSE 0]

\* No answer to the recompute, or none asked for, is one that lists nothing.
Unanswered == [listed |-> {}, measured |-> {}]

Recomputes(p) == {told \in Answers : PostedPlan(p) # [a \in Actions |-> 0]} \union {Unanswered}

\* recomputeActionsForState, mergeRecomputedAvailability, buildActionStateEntry:
\* an action the recompute does not list is stored with its first area.
Entry(p, a, told) ==
  IF a \in Quantity THEN p.typed[a]
  ELSE IF a \notin told.listed THEN Area
  ELSE IF PostedPlan(p)[a] > 0 THEN PostedPlan(p)[a]
  ELSE IF a \in told.measured THEN Left(a, PostedPlan(p)) ELSE 0

Entries(p, told) ==
  [a \in Actions |-> IF a \in Posted(p) THEN Entry(p, a, told) ELSE 0]

Unquantified(p) == {a \in Quantity \intersect Posted(p) : p.typed[a] = 0}

\* handleValidationErrors and the rejection of handleApplicationValidation
Redisplay ==
  /\ \/ Posted(page) = {} /\ Load(Rendered(saved.on, saved.value, TRUE))
     \/ /\ Unquantified(page) # {}
        /\ Load(Rendered(Posted(page),
                         [a \in Actions |-> IF a \in Quantity THEN page.typed[a] ELSE saved.value[a]],
                         TRUE))
     \/ /\ Posted(page) # {} /\ Unquantified(page) = {}
        /\ Load(Rendered(Posted(page), PostedPlan(page), TRUE))
  /\ UNCHANGED <<saved, open>>

\* An accepted selection is stored, and the page left for the next one.
Save(told) ==
  LET entries == Entries(page, told)
  IN /\ told \in Recomputes(page)
     /\ Posted(page) # {} /\ Unquantified(page) = {}
     /\ Fits(entries)
     /\ saved' = [on |-> Posted(page), value |-> entries]
     /\ open' = FALSE
     /\ inflight' = {}
     /\ UNCHANGED <<page, synced, skipped>>

-----------------------------------------------------------------------------
User ==
  /\ open
  /\ \/ \E a \in Actions : Toggle(a)
     \/ \E a \in Quantity, value \in Typed : Type(a, value)
     \/ page.pending = None /\ Redisplay
     \/ page.pending = None /\ \E told \in Recomputes(page) : Save(told)

Reply == \E r \in inflight : Stale(r) \/ Fail(r) \/ \E told \in Answers : Answer(r, told)

Next == User \/ Flush \/ Reply

\* A browser ends every request, with an answer or with an error, and runs
\* its timers; nothing makes the user act.
Spec == Init /\ [][Next]_vars /\ WF_vars(Reply) /\ WF_vars(Flush)

-----------------------------------------------------------------------------
(* Properties.                                                               *)

Awaiting == \E r \in inflight : r.current
AtRest == ~Awaiting /\ page.pending = None

\* Checked quantities typed and then cleared or made invalid.
GivenUp == {a \in Quantity \intersect page.checked : ValidTyped(page, a) = 0}

\* No action stays disabled by a refresh that is over: whatever is disabled
\* while no answer is awaited shows the reason, or is one the last answer
\* said nothing about (select-actions-page.js:511, :540).  Those do stay
\* disabled, whatever :112 says of the inputs a refresh disables
\* ("applyAvailability restores them after").
NothingStuck == open /\ ~Awaiting => page.disabled \subseteq page.refused \union skipped

\* Every protected action without a quantity has a claim; one posted before
\* its first answer has none, and claims whatever is left each time.
Established == \A a \in Protected(page) \ Quantity : page.chosen[a] > 0

\* At rest after an answer, the actions it gave an area for show what is left
\* under the claims the page now holds, whatever was clicked and typed while
\* requests were under way; a quantity given up must be one of them.
ShowsWhatIsLeft ==
  AtRest /\ Established /\ GivenUp \subseteq synced
    => \A a \in synced : page.live[a] = Left(a, Plan(page))

\* An answer to claims that fitted never makes them exceed the land, unless
\* the user is typing another quantity or gave up one it does not confirm:
\* freed land goes to one action, not to each that could take it (:521).
GrowthFits ==
  [][\A r \in inflight, told \in Answers :
       Answer(r, told) /\ Fits(r.plan) /\ page.pending = None /\ Established
         /\ GivenUp \subseteq told.measured
         => Fits(Plan(page)')]_vars

\* No refresh touches an action shown again with its rejected value until
\* the user does (:54).
KeptUntouched ==
  [][Reply \/ Flush \/ (\E a \in Actions : Toggle(a)) =>
       \A a \in Protected(page) \intersect page'.kept :
         /\ a \in page'.checked
         /\ page'.typed[a] = page.typed[a]
         /\ page'.chosen[a] = page.chosen[a]]_vars

\* What is stored from a page at rest is what it showed, when its answer and
\* the server's spoke of every checked action: no action disabled meanwhile is
\* left out.
SavedAsShown ==
  [][\A told \in Answers :
       Save(told) /\ AtRest /\ page.kept = {} /\ page.checked \subseteq synced \intersect told.listed
         => saved' = [on |-> page.checked, value |-> Plan(page)]]_vars

\* Once the user stops, the page comes to rest: each chain of follow-up
\* requests ends (:555).
SettlesOnceLeftAlone == <>[][~User]_vars => <>[]AtRest
=============================================================================
