------------------------------- MODULE TaskList -------------------------------
(***************************************************************************)
(* The task list of an application (src/src/server/task-list): which tasks  *)
(* it shows, which of them can be opened, and where a finished page leads.  *)
(* The list is computed from the saved state and the form definition, apart *)
(* from the forms engine's own walk through the pages; the two must agree.  *)
(***************************************************************************)
EXTENDS Integers, Sequences, FiniteSets, FiniteSetsExt, SequencesExt

CONSTANTS
  Tabs,      \* the browser tabs of the user
  N,         \* the number of pages of a form
  Sections,  \* the sections (tasks) a form is divided into
  Forms      \* the form definitions considered

Page == 1..N
None == 0                  \* no page, no section
Values == {"yes", "no"}
Unset == "unset"           \* no answer
Answered == Values \union {Unset}

Always == [page |-> None, is |-> Unset]
Conditions == {Always} \union [page : Page, is : Values]

\* "list" is the TaskListPageController; "optional" asks only what need not
\* be answered, "unlisted" is a controller left out of the list.
Kinds == {"list", "question", "optional", "unlisted", "exit", "landing"}

Pages == [kind : Kinds, section : Sections \union {None}, when : Conditions, links : Seq(Page)]

ASSUME SizeAssumption == N \in Nat \ {0} /\ None \notin Sections
\* The controllers of these pages hold no question, and a list needs no answer.
ASSUME FormAssumption ==
  \A form \in Forms :
    /\ form.showQuestions \in BOOLEAN /\ form.returnAfterSection \in BOOLEAN
    /\ DOMAIN form.pages = Page
    /\ \A p \in Page :
         /\ form.pages[p].kind \in Kinds /\ form.pages[p].when \in Conditions
         /\ form.pages[p].section \in Sections \union {None}

VARIABLES
  form,      \* the definition the application uses
  answers,   \* the saved state: one answer for each page
  at         \* the page each tab shows

vars == <<form, answers, at>>

TypeOK ==
  /\ form \in Forms
  /\ answers \in [Page -> Answered]
  /\ at \in [Tabs -> Page]

Def(p) == form.pages[p]

\* evaluateCondition: on whatever state it is given.
Holds(condition, state) ==
  condition = Always \/ state[condition.page] = condition.is

-----------------------------------------------------------------------------
(* The task list.                                                            *)

Tasks == {p \in Page : Def(p).section # None /\ Def(p).kind \notin {"exit", "unlisted"}}

(* Mutant: a page without required fields counts as completed, and so does  *)
(* every page whose condition does not hold.                                 *)
CompletionIgnoringCondition(p) ==
  IF Def(p).kind # "question" \/ answers[p] = Unset THEN "incomplete" ELSE "completed"

\* isTaskPageCompleted, with its null as "notApplicable"; what is not asked
\* (no required field) is incomplete, whether it applies or not.
Completion(p) ==
  IF Def(p).kind # "question" THEN "incomplete"
  ELSE IF ~Holds(Def(p).when, answers) THEN "notApplicable"
  ELSE IF answers[p] = Unset THEN "incomplete" ELSE "completed"

Incomplete(p) == Completion(p) = "incomplete"
Applicable(p) == Completion(p) # "notApplicable"

\* An exit page follows before the next page that belongs to a section.
TriggersExit(p) ==
  \E q \in p+1..N :
    /\ \A r \in p+1..q : Def(r).section = None
    /\ Def(q).kind = "exit" /\ Def(q).when # Always /\ Holds(Def(q).when, answers)

(* Mutant: only the task before is looked at. *)
PreviousCompleted(p) ==
  \A q \in {q \in Tasks : q < p} :
    (\A r \in Tasks : r < p => r <= q) => ~Incomplete(q) /\ ~TriggersExit(q)

(* Mutant: a task waits for itself. *)
CompletedUpTo(p) ==
  \A q \in {q \in Tasks : q <= p} : ~Incomplete(q) /\ ~TriggersExit(q)

\* areAllPreviousTasksCompleted
AllPreviousCompleted(p) ==
  \A q \in {q \in Tasks : q < p} : ~Incomplete(q) /\ ~TriggersExit(q)

\* createTaskItem: the status of one page, and whether it has a link.
ItemStatus(p) ==
  IF Completion(p) = "completed" THEN "completed"
  ELSE IF AllPreviousCompleted(p) THEN "notStarted" ELSE "cannotStart"

Group(s) == {p \in Tasks : Def(p).section = s}
Shown == {s \in Sections : Group(s) # {}}
Finished(s) == \A p \in Group(s) : ~Incomplete(p)

Begun(s) == \E p \in Group(s) : Completion(p) = "completed"

\* arePreviousTaskPagesCompleted, groups in the order of their first pages
PreviousFinished(s) == \A t \in Shown : Min(Group(t)) < Min(Group(s)) => Finished(t)

\* getTaskStatus
TaskStatus(s) ==
  CASE  Finished(s) /\  PreviousFinished(s) -> "completed"
    [] ~Finished(s) /\  PreviousFinished(s) -> IF Begun(s) THEN "inProgress" ELSE "notStarted"
    [] ~PreviousFinished(s) -> IF Finished(s) \/ Begun(s) THEN "cannotContinue" ELSE "cannotStart"

GroupLink(s) == IF TaskStatus(s) = "inProgress" THEN Max(Group(s)) ELSE Min(Group(s))

\* What the list can be left for, with the status shown beside it.
ItemLinks == {<<p, ItemStatus(p)>> : p \in {q \in Tasks : Applicable(q) /\ ItemStatus(q) # "cannotStart"}}
GroupLinks ==
  {<<GroupLink(s), TaskStatus(s)>> :
     s \in {t \in Shown : TaskStatus(t) \notin {"cannotStart", "cannotContinue"}}}
Links == IF form.showQuestions THEN ItemLinks ELSE GroupLinks

\* getCompletionStats: the completed are as many as the applicable.
IsComplete == \A p \in Tasks : ~Incomplete(p)

TaskListPath == LET lists == {p \in Page : Def(p).kind = "list"}
                IN IF lists = {} THEN None ELSE Min(lists)

-----------------------------------------------------------------------------
(* The forms engine (external): it walks from the first page to the one      *)
(* wanted, passing by the pages whose condition does not hold of the answers *)
(* on the way, and leads back to the first page left unanswered.             *)

\* The pages on the way: each condition met by an answer before it on the way.
Path ==
  LET passed[p \in Page] ==
        p = 1 \/ LET when == Def(p).when
                 IN when = Always \/ (when.page < p /\ answers[when.page] = when.is /\ passed[when.page])
  IN {p \in Page : passed[p]}

\* A walk goes on to the end of the form where it does not meet the page wanted.
Walk(wanted) == IF wanted \in Path THEN {p \in Path : p <= wanted} ELSE Path

Unanswered(p) == Def(p).kind = "question" /\ answers[p] = Unset

\* The page a request for one is answered with.
Reach(wanted) ==
  LET open == {p \in Walk(wanted) : Unanswered(p)}
  IN IF open # {} THEN Min(open) ELSE Max(Walk(wanted))

-----------------------------------------------------------------------------
(* Navigation: TaskContextMixin.proceed and getTaskPageBackLink.             *)

\* LandingPageController.getNextPath leads by its links, or to the start.
LandingNext(p) ==
  LET links == SelectSeq(Def(p).links,
                 LAMBDA q : Def(q).when = Always \/ (Def(q).when.page \in Path /\ Holds(Def(q).when, answers)))
  IN IF links = <<>> THEN 1 ELSE Head(links)

NextPath(p) ==
  IF Def(p).kind = "landing" THEN LandingNext(p)
  ELSE LET after == {q \in Path : q > p} IN IF after = {} THEN None ELSE Min(after)

\* The section a page is shown under; an exit page takes that of the last
\* page before it with one.
SectionOf(p) ==
  IF Def(p).kind = "exit" /\ Def(p).section = None
  THEN LET before == {q \in 1..p - 1 : Def(q).section # None}
       IN IF before = {} THEN None ELSE Def(Max(before)).section
  ELSE Def(p).section

Proceed(p, next) ==
  IF /\ Def(p).kind \notin {"landing", "exit"}   \* controllers without the mixin
     /\ Def(p).section # None /\ form.returnAfterSection
     /\ TaskListPath # None
     /\ next = None \/ SectionOf(next) \notin {None, Def(p).section}
  THEN TaskListPath ELSE next

Init ==
  /\ form \in Forms
  /\ answers = [p \in Page |-> Unset]
  /\ at = [t \in Tabs |-> 1]

\* A link of the list, an address typed or kept, a list shown before a change.
Visit(t, p) ==
  /\ at' = [at EXCEPT ![t] = Reach(p)]
  /\ UNCHANGED <<form, answers>>

BackToList(t) ==
  LET p == at[t]
  IN /\ Def(p).section # None /\ form.returnAfterSection
     /\ Group(Def(p).section) # {} /\ p = Min(Group(Def(p).section))
     /\ TaskListPath # None
     /\ at' = [at EXCEPT ![t] = Reach(TaskListPath)]
     /\ UNCHANGED <<form, answers>>

\* A form posted from a page the path no longer holds is not saved.
Redirected(t) ==
  /\ Reach(at[t]) # at[t]
  /\ at' = [at EXCEPT ![t] = Reach(at[t])]
  /\ UNCHANGED <<form, answers>>

\* The path is walked again over what was saved; without a next page, and
\* without a list, the user stays.
GoOn(t, p, saved) ==
  /\ answers' = saved
  /\ form' = form
  /\ \E next \in Page :
       /\ next = (LET q == Proceed(p, NextPath(p)) IN IF q = None THEN p ELSE q)'
       /\ at' = [at EXCEPT ![t] = Reach(next)']

\* POST of a page; one without a required field may be left empty.
Post(t, p, value) ==
  /\ at[t] = p
  /\ Reach(p) = p
  /\ \/ Def(p).kind = "question" /\ value # Unset
     \/ Def(p).kind = "optional"
     \/ Def(p).kind \in {"unlisted", "landing"} /\ value = Unset
  /\ GoOn(t, p, [answers EXCEPT ![p] = value])

Next ==
  \E t \in Tabs :
    \/ \E p \in Page : Visit(t, p)
    \/ BackToList(t)
    \/ Redirected(t)
    \/ \E p \in Page, value \in Answered : Post(t, p, value)

Spec == Init /\ [][Next]_vars

-----------------------------------------------------------------------------
(* Properties.                                                               *)

\* No answer is left of a page the path no longer holds.
NothingStale ==
  \A p \in Page : answers[p] # Unset => p \in Path

\* Every listed page asks something, and no answer leads out of the journey.
Plain ==
  /\ \A p \in Tasks : Def(p).kind = "question"
  /\ \A p \in Tasks : ~TriggersExit(p)

\* A page is asked on the answer of a page before it, and the first always.
Ordered == \A p \in Page : Def(p).when = Always \/ Def(p).when.page < p

\* Unless the list is complete, one of its links leads on: an unfinished task
\* can be opened, and whatever is opened asks something not answered yet
\* (helper.js:393 relies on the engine to lead to the first such page).
Onward ==
  NothingStale /\ Plain /\ Ordered /\ ~IsComplete
    => LET unfinished == {link \in Links : link[2] # "completed"}
       IN unfinished # {} /\ \A link \in unfinished : Unanswered(Reach(link[1]))

\* The list is complete exactly when the engine's walk to the end of the form
\* passes no listed page that is unanswered, although the list asks each
\* condition of the whole state and the engine of the answers on the way.
CompleteWhenWalked ==
  NothingStale /\ Plain /\ Ordered
    => (IsComplete <=> \A p \in Tasks : p \in Path => ~Unanswered(p))

\* The pages of a section follow one another.
Contiguous ==
  \A p, q, r \in Tasks :
    p < q /\ q < r /\ Def(p).section = Def(r).section => Def(q).section = Def(p).section

\* The two ways to show the list (createTaskItem, getTaskStatus) agree: a
\* section shown as one task can be gone on with exactly when one of its pages
\* can, shown one by one.
ModesAgree ==
  Contiguous /\ Plain
    => \A s \in Shown :
         TaskStatus(s) \in {"notStarted", "inProgress"}
           <=> \E p \in Group(s) : Incomplete(p) /\ ItemStatus(p) = "notStarted"
=============================================================================
