---------------------------- MODULE AnswersProofs ----------------------------
(***************************************************************************)
(* What the task list makes of the answers given, for any form, and what   *)
(* overlapping tabs cannot do to answers that rest on others.              *)
(***************************************************************************)
EXTENDS TaskList, DependentAnswers, WellFoundedInduction, TLAPS

\* A set of numbers has a least one, which Min names.
LEMMA Least ==
  ASSUME NEW S, S \subseteq Nat, S # {}
  PROVE  Min(S) \in S /\ \A y \in S : Min(S) <= y
<1> DEFINE R == {ss \in Nat \X Nat : ss[1] < ss[2]}
<1>1. IsWellFoundedOn(R, Nat)
  BY NatLessThanWellFounded DEF OpToRel
<1>2. PICK x \in S : \A y \in S : ~ (<<y, x>> \in R)
  <2> HIDE DEF R
  <2> QED BY <1>1, WFMin
<1>3. \A y \in S : x <= y
  <2> SUFFICES ASSUME NEW y \in S PROVE x <= y
    OBVIOUS
  <2>1. x \in Nat /\ y \in Nat
    OBVIOUS
  <2>2. <<y, x>> \in Nat \X Nat /\ <<y, x>>[1] = y /\ <<y, x>>[2] = x
    BY <2>1
  <2>3. ~ (y < x)
    BY <1>2, <2>2
  <2> QED BY <2>1, <2>3
<1> QED BY <1>3 DEF Min

\* Every task is a page, of the one section it is grouped under.
LEMMA Grouping ==
  ASSUME form \in Forms
  PROVE  /\ Tasks \subseteq Nat
         /\ \A p \in Tasks : Def(p).section \in Sections /\ p \in Group(Def(p).section)
         /\ \A s \in Sections : Group(s) \subseteq Tasks
<1>1. Tasks \subseteq Nat
  BY SizeAssumption DEF Tasks, Page
<1>2. \A p \in Tasks : Def(p).section \in Sections
  BY FormAssumption DEF Tasks, Def
<1> QED BY <1>1, <1>2 DEF Group

\* A set of pages has a last one, which Max names.
LEMMA Greatest ==
  ASSUME NEW S, S \subseteq Page, S # {}
  PROVE  Max(S) \in S /\ \A y \in S : y <= Max(S)
<1> DEFINE T == {n \in Nat : \E x \in S : x = N - n}
<1>1. T \subseteq Nat /\ T # {}
  <2>1. PICK x \in S : TRUE
    OBVIOUS
  <2>2. N - x \in Nat /\ x = N - (N - x)
    BY <2>1, SizeAssumption DEF Page
  <2> QED BY <2>2
<1> HIDE DEF T
<1>2. Min(T) \in T /\ \A n \in T : Min(T) <= n
  BY <1>1, Least
<1> USE DEF T
<1>3. PICK x \in S : x = N - Min(T)
  BY <1>2
<1>4. \A y \in S : y <= x
  <2> SUFFICES ASSUME NEW y \in S PROVE y <= x
    OBVIOUS
  <2>1. N - y \in Nat /\ y = N - (N - y)
    BY SizeAssumption DEF Page
  <2>2. N - y \in T
    BY <2>1
  <2>3. Min(T) <= N - y /\ Min(T) \in Nat
    BY <1>2, <2>2
  <2> QED BY <1>3, <2>1, <2>3, SizeAssumption DEF Page
<1> HIDE DEF T
<1>5. \E x2 \in S : \A y \in S : x2 >= y
  BY <1>4 DEF Page
<1> QED BY <1>4, <1>5 DEF Max, Page

-----------------------------------------------------------------------------
(* The engine's walk, whose recursion is followed page by page.              *)

\* Whether the walk passes a page, given which of the pages before it passes.
Passes(p, before) ==
  p = 1 \/ LET when == Def(p).when
           IN when = Always \/ (when.page < p /\ answers[when.page] = when.is /\ before[when.page])

\* The pages up to n that the walk passes can be told one after another.
LEMMA Passed ==
  ASSUME form \in Forms
  PROVE  \E f \in [Page -> BOOLEAN] : \A p \in Page : f[p] <=> Passes(p, f)
<1> DEFINE Good(n) == \E f \in [1..n -> BOOLEAN] : \A p \in 1..n : f[p] <=> Passes(p, f)
           Bad == {n \in Nat : n <= N /\ ~Good(n)}
<1>1. \A p \in Page : Def(p).when # Always => Def(p).when.page \in Page
  BY FormAssumption DEF Def, Conditions
<1>2. Good(0)
  <2>1. [p \in 1..0 |-> TRUE] \in [1..0 -> BOOLEAN] /\ \A p \in 1..0 : FALSE
    OBVIOUS
  <2> QED BY <2>1
<1>3. ASSUME NEW n \in Nat, n < N, Good(n) PROVE Good(n + 1)
  <2>1. PICK f \in [1..n -> BOOLEAN] : \A p \in 1..n : f[p] <=> Passes(p, f)
    BY <1>3
  <2> DEFINE g == [p \in 1..n + 1 |-> IF p = n + 1 THEN Passes(n + 1, f) ELSE f[p]]
  <2>2. ASSUME NEW p \in 1..n + 1 PROVE Passes(p, g) <=> Passes(p, f)
    <3>1. p \in Page /\ 1..n + 1 \subseteq Page
      BY <1>3, SizeAssumption DEF Page
    <3>2. Def(p).when # Always /\ Def(p).when.page < p
            => g[Def(p).when.page] = f[Def(p).when.page]
      BY <1>1, <3>1, SizeAssumption DEF Page
    <3> HIDE DEF g
    <3> QED BY <3>2 DEF Passes
  <2>3. Passes(n + 1, f) \in BOOLEAN
    BY DEF Passes
  <2>4. g \in [1..n + 1 -> BOOLEAN]
    BY <2>3
  <2>5. \A p \in 1..n + 1 : g[p] <=> Passes(p, f)
    BY <2>1
  <2> HIDE DEF g
  <2> QED BY <2>2, <2>4, <2>5
<1> HIDE DEF Good
<1>4. Bad = {}
  <2> SUFFICES ASSUME Bad # {} PROVE FALSE
    OBVIOUS
  <2>1. Min(Bad) \in Bad /\ \A n \in Bad : Min(Bad) <= n
    BY Least
  <2> DEFINE b == Min(Bad)
  <2>2. b \in Nat /\ b <= N /\ ~Good(b)
    BY <2>1
  <2> HIDE DEF b
  <2>3. b # 0
    BY <1>2, <2>2
  <2>4. b - 1 \in Nat /\ b - 1 < N /\ b - 1 <= N /\ ~(b <= b - 1) /\ (b - 1) + 1 = b
    BY <2>2, <2>3, SizeAssumption
  <2>5. Good(b - 1)
    BY <2>1, <2>4 DEF b
  <2> QED BY <1>3, <2>2, <2>4, <2>5
<1>5. Good(N)
  BY <1>4, SizeAssumption
<1> QED BY <1>5 DEF Good, Page

\* A page is on the way as its condition says, of an answer on the way.
LEMMA PathIs ==
  ASSUME form \in Forms
  PROVE  /\ Path \subseteq Page /\ 1 \in Path
         /\ \A p \in Page : p \in Path <=>
              \/ p = 1 \/ Def(p).when = Always
              \/ LET when == Def(p).when
                 IN when.page < p /\ answers[when.page] = when.is /\ when.page \in Path
<1> DEFINE passed == CHOOSE f : f = [p \in Page |-> Passes(p, f)]
<1>1. PICK f \in [Page -> BOOLEAN] : \A p \in Page : f[p] <=> Passes(p, f)
  BY Passed
<1>2. \A p \in Page : Passes(p, f) \in BOOLEAN
  BY DEF Passes
<1>3. f = [p \in Page |-> Passes(p, f)]
  BY <1>1, <1>2
<1>4. passed = [p \in Page |-> Passes(p, passed)]
  BY <1>3
<1>5. Path = {p \in Page : passed[p]}
  BY DEF Path, Passes
<1> HIDE DEF passed
<1>6. \A p \in Page : p \in Path <=> Passes(p, passed)
  BY <1>4, <1>5
<1>7. 1 \in Page
  BY SizeAssumption DEF Page
<1>8. \A p \in Page : Def(p).when # Always => Def(p).when.page \in Page
  BY FormAssumption DEF Def, Conditions
<1>9. ASSUME NEW p \in Page
      PROVE  p \in Path <=> \/ p = 1 \/ Def(p).when = Always
                            \/ LET when == Def(p).when
                               IN when.page < p /\ answers[when.page] = when.is /\ when.page \in Path
  BY <1>4, <1>5, <1>6, <1>8 DEF Passes
<1> QED BY <1>5, <1>7, <1>9

LEMMA WalkIs ==
  ASSUME form \in Forms, NEW wanted \in Page
  PROVE  /\ Walk(wanted) \subseteq Page /\ Walk(wanted) \subseteq Path /\ Walk(wanted) # {}
         /\ \A p \in Path : wanted \notin Path \/ p <= wanted => p \in Walk(wanted)
<1>1. Path \subseteq Page /\ 1 \in Path
  BY PathIs
<1>2. CASE wanted \in Path
  <2>1. Walk(wanted) = {p \in Path : p <= wanted}
    BY <1>2 DEF Walk
  <2>2. wanted <= wanted
    BY DEF Page
  <2> QED BY <1>1, <1>2, <2>1, <2>2
<1>3. CASE wanted \notin Path
  <2>1. Walk(wanted) = Path
    BY <1>3 DEF Walk
  <2> QED BY <1>1, <1>3, <2>1
<1> QED BY <1>2, <1>3

\* A request is answered with a page, and with an unanswered one where the
\* walk passes one.
LEMMA ReachIs ==
  ASSUME form \in Forms, NEW wanted \in Page
  PROVE  /\ Reach(wanted) \in Page
         /\ (\E p \in Walk(wanted) : Unanswered(p)) => Unanswered(Reach(wanted))
<1> DEFINE open == {p \in Walk(wanted) : Unanswered(p)}
<1>1. Walk(wanted) \subseteq Page /\ Walk(wanted) # {} /\ Page \subseteq Nat
  BY WalkIs DEF Page
<1>2. open # {} => Min(open) \in open
  <2>1. open \subseteq Nat
    BY <1>1
  <2> HIDE DEF open
  <2> QED BY <2>1, Least
<1>3. Max(Walk(wanted)) \in Walk(wanted)
  BY <1>1, Greatest
<1>4. Reach(wanted) = IF open # {} THEN Min(open) ELSE Max(Walk(wanted))
  BY DEF Reach
<1>5. (\E p \in Walk(wanted) : Unanswered(p)) <=> open # {}
  OBVIOUS
<1> HIDE DEF open
<1>6. CASE open # {}
  <2>1. Min(open) \in Walk(wanted) /\ Unanswered(Min(open))
    BY <1>2, <1>6 DEF open
  <2> QED BY <1>1, <1>4, <1>6, <2>1
<1>7. CASE open = {}
  BY <1>1, <1>3, <1>4, <1>5, <1>7
<1> QED BY <1>6, <1>7

LEMMA ReachPage == form \in Forms => \A p \in Page : Reach(p) \in Page
BY ReachIs

\* The definition stays, the answers are of the pages, and each tab shows one.
THEOREM ListTypeCorrect == Spec => []TypeOK
<1>1. Init => TypeOK
  BY SizeAssumption DEF Init, TypeOK, Page, Answered
<1>2. TypeOK /\ [Next]_vars => TypeOK'
  <2> SUFFICES ASSUME TypeOK, [Next]_vars PROVE TypeOK'
    OBVIOUS
  <2>1. form \in Forms
    BY DEF TypeOK
  <2>2. \A p \in Page : Reach(p) \in Page
    BY <2>1, ReachIs
  <2>3. form' \in Forms => \A p \in Page : Reach(p)' \in Page
    <3>1. (form \in Forms => \A p \in Page : Reach(p) \in Page)'
      BY ReachPage, PTL
    <3> QED BY <3>1
  <2>4. ASSUME NEW t \in Tabs, NEW p \in Page, Visit(t, p) PROVE TypeOK'
    BY <2>2, <2>4 DEF Visit, TypeOK
  <2>5. ASSUME NEW t \in Tabs, BackToList(t) PROVE TypeOK'
    <3>1. TaskListPath \in Page
      <4> DEFINE lists == {p \in Page : Def(p).kind = "list"}
      <4>1. TaskListPath = IF lists = {} THEN None ELSE Min(lists)
        BY DEF TaskListPath
      <4>2. lists # {}
        BY <2>5, <4>1 DEF BackToList
      <4>3. lists \subseteq Page /\ lists \subseteq Nat
        BY DEF Page
      <4> HIDE DEF lists
      <4>4. Min(lists) \in lists
        BY <4>2, <4>3, Least
      <4> QED BY <4>1, <4>2, <4>3, <4>4
    <3> QED BY <2>2, <2>5, <3>1 DEF BackToList, TypeOK
  <2>6. ASSUME NEW t \in Tabs, Redirected(t) PROVE TypeOK'
    BY <2>2, <2>6 DEF Redirected, TypeOK
  <2>7. ASSUME NEW t \in Tabs, NEW p \in Page, NEW value \in Answered, Post(t, p, value)
        PROVE  TypeOK'
    <3>1. answers' = [answers EXCEPT ![p] = value] /\ form' = form
      BY <2>7 DEF Post, GoOn
    <3>2. PICK next \in Page : at' = [at EXCEPT ![t] = Reach(next)']
      BY <2>7 DEF Post, GoOn
    <3>3. Reach(next)' \in Page
      BY <2>1, <2>3, <3>1
    <3> QED BY <3>1, <3>2, <3>3 DEF TypeOK
  <2>8. CASE UNCHANGED vars
    BY <2>8 DEF vars, TypeOK
  <2> QED BY <2>4, <2>5, <2>6, <2>7, <2>8 DEF Next
<1> QED BY <1>1, <1>2, PTL DEF Spec

\* What is not answered yet applies exactly where the engine's walk passes it.
LEMMA AppliesOnPath ==
  ASSUME form \in Forms, NothingStale, Ordered, NEW p \in Page
  PROVE  /\ p \in Path => Holds(Def(p).when, answers)
         /\ Holds(Def(p).when, answers) => p \in Path
<1>1. p \in Path <=> \/ p = 1 \/ Def(p).when = Always
                     \/ LET when == Def(p).when
                        IN when.page < p /\ answers[when.page] = when.is /\ when.page \in Path
  BY PathIs
<1>2. Def(p).when # Always
        => Def(p).when.page \in Page /\ Def(p).when.is \in Values /\ Def(p).when.page < p
  BY FormAssumption DEF Def, Conditions, Ordered
<1>3. p = 1 => Def(p).when = Always
  BY <1>2 DEF Page
<1>4. Unset \notin Values
  BY DEF Unset, Values
<1> QED BY <1>1, <1>2, <1>3, <1>4 DEF Holds, NothingStale

\* A task the list counts as incomplete is one the walk stops at.
LEMMA IncompleteIs ==
  ASSUME form \in Forms, NothingStale, Plain, Ordered, NEW p \in Tasks
  PROVE  Incomplete(p) <=> p \in Path /\ Unanswered(p)
<1>1. p \in Page /\ Def(p).kind = "question"
  BY DEF Tasks, Plain
<1> QED BY <1>1, AppliesOnPath DEF Incomplete, Completion, Unanswered

-----------------------------------------------------------------------------
(* The list and the walk agree.                                              *)

\* The list is complete exactly when the walk passes no unanswered task.
THEOREM CompleteCorrect == Spec => []CompleteWhenWalked
<1>1. TypeOK => CompleteWhenWalked
  BY IncompleteIs DEF TypeOK, CompleteWhenWalked, IsComplete
<1> QED BY <1>1, ListTypeCorrect, PTL

\* A link to a page that the walk does not pass, or that is unanswered, or
\* that comes after an unanswered one on the way, leads to an unanswered page.
LEMMA LeadsOn ==
  ASSUME form \in Forms, NEW q \in Page, NEW p \in Path, Unanswered(p), q \notin Path \/ p <= q
  PROVE  Unanswered(Reach(q))
<1>1. p \in Walk(q)
  BY WalkIs
<1> QED BY <1>1, ReachIs

\* Shown page by page, the first incomplete task can be opened.
LEMMA ItemsLeadOn ==
  ASSUME form \in Forms, NothingStale, Plain, Ordered, ~IsComplete
  PROVE  LET unfinished == {link \in ItemLinks : link[2] # "completed"}
         IN unfinished # {} /\ \A link \in unfinished : Unanswered(Reach(link[1]))
<1> DEFINE left == {p \in Tasks : Incomplete(p)}
           p == Min(left)
<1>1. left \subseteq Nat /\ left # {}
  BY Grouping DEF IsComplete
<1>2. p \in left /\ \A q \in left : p <= q
  <2> HIDE DEF left
  <2> QED BY <1>1, Least
<1> HIDE DEF p
<1>3. p \in Tasks /\ Incomplete(p) /\ Applicable(p)
  BY <1>2 DEF Incomplete, Applicable
<1>4. AllPreviousCompleted(p)
  <2> SUFFICES ASSUME NEW q \in Tasks, q < p PROVE ~Incomplete(q)
    BY DEF AllPreviousCompleted, Plain
  <2>1. q \in Nat /\ p \in Nat /\ ~(p <= q)
    BY <1>3, Grouping
  <2> QED BY <1>2, <2>1
<1>5. ItemStatus(p) = "notStarted"
  BY <1>3, <1>4 DEF ItemStatus, Incomplete
<1>6. <<p, "notStarted">> \in ItemLinks /\ <<p, "notStarted">>[2] # "completed"
  <2>1. p \in {q \in Tasks : Applicable(q) /\ ItemStatus(q) # "cannotStart"}
    BY <1>3, <1>5
  <2> QED BY <1>5, <2>1 DEF ItemLinks
<1>7. ASSUME NEW link \in ItemLinks, link[2] # "completed" PROVE Unanswered(Reach(link[1]))
  <2>1. PICK q \in Tasks : Applicable(q) /\ link = <<q, ItemStatus(q)>>
    BY DEF ItemLinks
  <2>2. link[1] = q /\ link[2] = ItemStatus(q)
    BY <2>1
  <2>3. Incomplete(q)
    BY <1>7, <2>1, <2>2 DEF ItemStatus, Incomplete, Applicable, Completion
  <2>4. q \in Path /\ Unanswered(q) /\ q \in Page /\ q <= q
    BY <2>3, IncompleteIs DEF Tasks, Page
  <2> QED BY <2>2, <2>4, LeadsOn
<1> QED BY <1>6, <1>7

\* Shown section by section, the first unfinished section can be opened.
LEMMA GroupsLeadOn ==
  ASSUME form \in Forms, NothingStale, Plain, Ordered, ~IsComplete
  PROVE  LET unfinished == {link \in GroupLinks : link[2] # "completed"}
         IN unfinished # {} /\ \A link \in unfinished : Unanswered(Reach(link[1]))
<1>1. ASSUME NEW s \in Shown
      PROVE  /\ s \in Sections /\ Group(s) # {} /\ Group(s) \subseteq Tasks
             /\ Min(Group(s)) \in Group(s) /\ Max(Group(s)) \in Group(s)
             /\ \A p \in Group(s) : p <= Max(Group(s))
             /\ Group(s) \subseteq Page /\ Group(s) \subseteq Nat
  <2>1. /\ s \in Sections /\ Group(s) # {} /\ Group(s) \subseteq Tasks
        /\ Group(s) \subseteq Page /\ Group(s) \subseteq Nat
    BY Grouping DEF Shown, Tasks, Page
  <2>2. Min(Group(s)) \in Group(s)
    BY <2>1, Least
  <2>3. Max(Group(s)) \in Group(s) /\ \A p \in Group(s) : p <= Max(Group(s))
    BY <2>1, Greatest
  <2> QED BY <2>1, <2>2, <2>3
<1> DEFINE firsts == {n \in Nat : \E s \in Shown : ~Finished(s) /\ n = Min(Group(s))}
<1>2. firsts # {}
  <2>1. PICK p \in Tasks : Incomplete(p)
    BY DEF IsComplete
  <2>2. Def(p).section \in Sections /\ p \in Group(Def(p).section)
    BY Grouping
  <2>3. Def(p).section \in Shown /\ ~Finished(Def(p).section)
    BY <2>1, <2>2 DEF Shown, Finished
  <2>4. Min(Group(Def(p).section)) \in Nat
    BY <1>1, <2>3
  <2> QED BY <2>3, <2>4
<1>3. Min(firsts) \in firsts /\ \A n \in firsts : Min(firsts) <= n
  <2>1. firsts \subseteq Nat
    OBVIOUS
  <2> HIDE DEF firsts
  <2> QED BY <1>2, <2>1, Least
<1>4. PICK s \in Shown : ~Finished(s) /\ Min(firsts) = Min(Group(s))
  BY <1>3
<1>5. PreviousFinished(s)
  <2> SUFFICES ASSUME NEW t \in Shown, Min(Group(t)) < Min(Group(s)), ~Finished(t) PROVE FALSE
    BY DEF PreviousFinished
  <2>1. Min(Group(t)) \in Nat /\ Min(Group(s)) \in Nat
    BY <1>1
  <2>2. Min(Group(t)) \in firsts
    BY <2>1
  <2>3. Min(Group(s)) <= Min(Group(t))
    BY <1>3, <1>4, <2>2
  <2> QED BY <2>1, <2>3
<1> HIDE DEF firsts
<1>6. TaskStatus(s) \in {"notStarted", "inProgress"}
  BY <1>4, <1>5 DEF TaskStatus
<1>7. <<GroupLink(s), TaskStatus(s)>> \in GroupLinks /\ <<GroupLink(s), TaskStatus(s)>>[2] # "completed"
  BY <1>6 DEF GroupLinks
<1>8. ASSUME NEW link \in GroupLinks, link[2] # "completed" PROVE Unanswered(Reach(link[1]))
  <2>1. PICK t \in Shown : /\ TaskStatus(t) \notin {"cannotStart", "cannotContinue"}
                           /\ link = <<GroupLink(t), TaskStatus(t)>>
    BY DEF GroupLinks
  <2>2. link[1] = GroupLink(t) /\ link[2] = TaskStatus(t)
    BY <2>1
  <2>3. ~Finished(t) /\ TaskStatus(t) = IF Begun(t) THEN "inProgress" ELSE "notStarted"
    BY <1>8, <2>1, <2>2 DEF TaskStatus
  <2>4. PICK p \in Group(t) : Incomplete(p)
    BY <2>3 DEF Finished
  <2>5. p \in Tasks /\ p \in Path /\ Unanswered(p)
    BY <1>1, <2>4, IncompleteIs
  <2>6. CASE Begun(t)
    <3>1. link[1] = Max(Group(t)) /\ Max(Group(t)) \in Page /\ p <= Max(Group(t))
      BY <1>1, <2>2, <2>3, <2>6 DEF GroupLink
    <3> QED BY <2>5, <3>1, LeadsOn
  <2>7. CASE ~Begun(t)
    <3> DEFINE q == Min(Group(t))
    <3>1. link[1] = q /\ q \in Tasks /\ q \in Page /\ q \in Group(t) /\ q <= q
      BY <1>1, <2>2, <2>3, <2>7 DEF GroupLink
    <3> HIDE DEF q
    <3>2. CASE q \in Path
      <4>1. Incomplete(q)
        BY <2>7, <3>1, <3>2, AppliesOnPath DEF Begun, Incomplete, Completion, Plain
      <4>2. Unanswered(q)
        BY <3>1, <4>1, IncompleteIs
      <4> QED BY <3>1, <3>2, <4>2, LeadsOn
    <3>3. CASE q \notin Path
      BY <2>5, <3>1, <3>3, LeadsOn
    <3> QED BY <3>2, <3>3
  <2> QED BY <2>6, <2>7
<1> QED BY <1>7, <1>8

\* Unless the list is complete, it can be gone on with, however it is shown.
THEOREM OnwardCorrect == Spec => []Onward
<1>1. TypeOK => Onward
  BY ItemsLeadOn, GroupsLeadOn DEF TypeOK, Onward, Links
<1> QED BY <1>1, ListTypeCorrect, PTL

-----------------------------------------------------------------------------
(* The two ways to show the list agree.                                      *)

\* What is unfinished with all before it finished has a first page to answer,
\* which waits for none; what has such a page waits for no section before.
LEMMA Agreement ==
  ASSUME form \in Forms, Contiguous, Plain, NEW s \in Shown
  PROVE  ~Finished(s) /\ PreviousFinished(s)
           <=> \E p \in Group(s) : Incomplete(p) /\ ItemStatus(p) = "notStarted"
<1>0. /\ s \in Sections /\ Group(s) \subseteq Tasks /\ Group(s) # {} /\ Group(s) \subseteq Nat
      /\ \A p \in Group(s) : Def(p).section = s
  BY Grouping DEF Shown, Group
<1>1. Min(Group(s)) \in Group(s) /\ \A p \in Group(s) : Min(Group(s)) <= p
  BY <1>0, Least
<1>2. ASSUME ~Finished(s), PreviousFinished(s)
      PROVE  \E p \in Group(s) : Incomplete(p) /\ ItemStatus(p) = "notStarted"
  <2> DEFINE left == {p \in Group(s) : Incomplete(p)}
             p == Min(left)
  <2>1. left \subseteq Nat /\ left # {}
    BY <1>0, <1>2 DEF Finished
  <2>2. p \in left /\ \A q \in left : p <= q
    <3> HIDE DEF left
    <3> QED BY <2>1, Least
  <2>3. p \in Group(s) /\ Incomplete(p) /\ p \in Tasks /\ p \in Nat
    BY <2>2, <1>0
  <2>4. ASSUME NEW q \in Tasks, q < p, Incomplete(q) PROVE FALSE
    <3> DEFINE t == Def(q).section
    <3>1. t \in Sections /\ q \in Group(t) /\ q \in Nat /\ Group(t) \subseteq Nat
      BY Grouping
    <3>2. q \notin Group(s)
      BY <2>2, <2>3, <2>4, <3>1
    <3>3. t # s
      BY <3>1, <3>2
    <3>4. ~ (Min(Group(s)) < q)
      BY <1>0, <1>1, <2>3, <2>4, <3>1, <3>3 DEF Contiguous
    <3>5. q < Min(Group(s))
      BY <1>0, <1>1, <3>1, <3>2, <3>4
    <3>6. Min(Group(t)) <= q /\ Min(Group(t)) \in Nat
      BY <3>1, Least
    <3>7. Min(Group(t)) < Min(Group(s))
      BY <1>0, <1>1, <3>1, <3>5, <3>6
    <3>8. Finished(t)
      BY <1>2, <3>1, <3>7 DEF PreviousFinished, Shown
    <3> QED BY <2>4, <3>1, <3>8 DEF Finished
  <2>5. AllPreviousCompleted(p)
    BY <2>4 DEF AllPreviousCompleted, Plain
  <2>6. ItemStatus(p) = "notStarted"
    BY <2>3, <2>5 DEF ItemStatus, Incomplete
  <2> QED BY <2>3, <2>6
<1>3. ASSUME NEW p \in Group(s), Incomplete(p), ItemStatus(p) = "notStarted"
      PROVE  ~Finished(s) /\ PreviousFinished(s)
  <2>1. AllPreviousCompleted(p)
    BY <1>3 DEF ItemStatus, Incomplete
  <2>2. ~Finished(s)
    BY <1>3 DEF Finished
  <2>3. ASSUME NEW t \in Shown, Min(Group(t)) < Min(Group(s)), NEW q \in Group(t)
        PROVE  ~Incomplete(q)
    <3> DEFINE m == Min(Group(t))
    <3>1. /\ t \in Sections /\ Group(t) # {} /\ Group(t) \subseteq Nat /\ Group(t) \subseteq Tasks
          /\ \A r \in Group(t) : Def(r).section = t
      BY Grouping DEF Shown, Group
    <3>2. m \in Group(t)
      BY <3>1, Least
    <3>3. m \in Nat /\ q \in Nat /\ p \in Nat /\ m < p
      BY <1>0, <1>1, <2>3, <3>1, <3>2
    <3>4. s # t
      BY <2>3, <3>2, <3>3, <1>1, <1>0
    <3>5. ~ (p < q) /\ p # q
      BY <1>0, <3>1, <3>2, <3>3, <3>4 DEF Contiguous
    <3>6. q < p
      BY <3>3, <3>5
    <3> QED BY <2>1, <3>1, <3>6 DEF AllPreviousCompleted
  <2>4. PreviousFinished(s)
    BY <2>3 DEF PreviousFinished, Finished
  <2> QED BY <2>2, <2>4
<1> QED BY <1>2, <1>3

\* Whatever was answered, a section shown as one task can be gone on with
\* exactly when one of its pages can, shown one by one.
THEOREM ModesCorrect == Spec => []ModesAgree
<1>1. Init => form \in Forms
  BY DEF Init
<1>2. form \in Forms /\ [Next]_vars => (form \in Forms)'
  BY DEF Next, Visit, BackToList, Redirected, Post, GoOn, vars
<1>3. form \in Forms => ModesAgree
  <2> SUFFICES ASSUME form \in Forms, Contiguous, Plain, NEW s \in Shown
               PROVE  TaskStatus(s) \in {"notStarted", "inProgress"}
                        <=> \E p \in Group(s) : Incomplete(p) /\ ItemStatus(p) = "notStarted"
    BY DEF ModesAgree
  <2>1. TaskStatus(s) \in {"notStarted", "inProgress"} <=> ~Finished(s) /\ PreviousFinished(s)
    BY DEF TaskStatus
  <2> QED BY <2>1, Agreement
<1> QED BY <1>1, <1>2, <1>3, PTL DEF Spec

-----------------------------------------------------------------------------
(* Answers that rest on others: every page writes back a snapshot, so that   *)
(* what holds of the snapshots holds of the document.  Sound is shown of     *)
(* each state a page computes, and then carried by the steps.                *)

USE ConfigAssumption, AreaAssumption

LEMMA StartedSound == Sound(Started)
BY DEF Sound, Started, Documents, Dependents, Follows, AwaitsAnswer, Fits

LEMMA AwaitingUpdateSound ==
  ASSUME NEW state, Sound(state)
  PROVE  Sound(AwaitingUpdate(state))
BY DEF Sound, AwaitingUpdate, Documents, Follows, AwaitsAnswer, Fits

LEMMA WithAnswerSound ==
  ASSUME NEW state, Sound(state), NEW value \in BOOLEAN
  PROVE  Sound(WithAnswer(state, value))
BY DEF Sound, WithAnswer, Documents, Follows, AwaitsAnswer, Fits

LEMMA ApplicantSound ==
  ASSUME NEW state, Sound(state)
  PROVE  Sound([state EXCEPT !.applicant = TRUE])
BY DEF Sound, Documents, Follows, AwaitsAnswer, Fits

\* What the parcels invalidate is dropped where they change, and given for
\* the same parcels where they do not.
LEMMA WithParcelsSound ==
  ASSUME NEW state, Sound(state), NEW selected \in SUBSET Parcels, NEW measured \in SUBSET selected
  PROVE  Sound(WithParcels(state, selected, measured))
<1> DEFINE lost == Invalidated(state.landParcels, selected)
           new == WithParcels(state, selected, measured)
<1>1. /\ new.landParcels = selected /\ new.measured = measured
      /\ new.detailsConfirmed = state.detailsConfirmed
      /\ new.checkDetailsChangesPending = state.checkDetailsChangesPending
      /\ new.hectares = IF "hectares" \in lost THEN 0 ELSE state.hectares
      /\ \A k \in Dependents : new.given[k] = IF k \in lost THEN Nothing ELSE state.given[k]
  BY DEF Sound, Documents, WithParcels, Kept
<1>2. new \in Documents
  BY DEF Sound, Documents, WithParcels, Kept
<1>3. Follows(new)
  BY <1>1 DEF Sound, Follows, Invalidated
<1>4. AwaitsAnswer(new)
  BY <1>1 DEF Sound, AwaitsAnswer
<1> HIDE DEF lost, new
<1>5. Fits(new)
  BY <1>1 DEF Sound, Fits, Dependents
<1> QED BY <1>2, <1>3, <1>4, <1>5 DEF Sound, new

LEMMA PaymentSound ==
  ASSUME NEW state, Sound(state)
  PROVE  Sound(Give(state, "payment"))
<1> DEFINE new == Give(state, "payment")
<1>1. /\ new.landParcels = state.landParcels /\ new.measured = state.measured
      /\ new.detailsConfirmed = state.detailsConfirmed /\ new.hectares = state.hectares
      /\ new.checkDetailsChangesPending = state.checkDetailsChangesPending
      /\ new.given["hectares"] = state.given["hectares"]
      /\ \A k \in Dependents : new.given[k] \in {state.landParcels, state.given[k]}
  BY DEF Sound, Documents, Give, Dependents
<1>2. new \in Documents
  BY DEF Sound, Documents, Give
<1>3. Follows(new)
  BY <1>1 DEF Sound, Follows
<1>4. AwaitsAnswer(new) /\ Fits(new)
  BY <1>1 DEF Sound, AwaitsAnswer, Fits
<1> QED BY <1>2, <1>3, <1>4 DEF Sound

\* Hectares within what of the parcels was measured are within their area.
LEMMA HectaresSound ==
  ASSUME NEW state, Sound(state), NEW hectares \in Hectares, hectares <= Total[state.measured]
  PROVE  Sound([Give(state, "hectares") EXCEPT !.hectares = hectares])
<1> DEFINE new == [Give(state, "hectares") EXCEPT !.hectares = hectares]
<1>1. /\ new.landParcels = state.landParcels /\ new.measured = state.measured
      /\ new.detailsConfirmed = state.detailsConfirmed /\ new.hectares = hectares
      /\ new.checkDetailsChangesPending = state.checkDetailsChangesPending
      /\ new.given["hectares"] = state.landParcels
      /\ \A k \in Dependents : new.given[k] \in {state.landParcels, state.given[k]}
  BY DEF Sound, Documents, Give, Dependents
<1>2. new \in Documents
  BY DEF Sound, Documents, Give
<1>3. Follows(new)
  BY <1>1 DEF Sound, Follows
<1>4. AwaitsAnswer(new)
  BY <1>1 DEF Sound, AwaitsAnswer
<1>5. hectares <= Total[state.landParcels]
  <2>1. state.measured \subseteq state.landParcels /\ state.landParcels \in SUBSET Parcels
    BY DEF Sound, Fits, Documents
  <2>2. Total[state.measured] <= Total[state.landParcels]
    BY <2>1
  <2>3. hectares \in Nat /\ Total[state.measured] \in Nat /\ Total[state.landParcels] \in Nat
    BY <2>1
  <2> QED BY <2>2, <2>3
<1> HIDE DEF new
<1>6. Fits(new)
  BY <1>1, <1>5 DEF Sound, Fits
<1> QED BY <1>2, <1>3, <1>4, <1>6 DEF Sound, new

LEMMA Initial == DAInit => IInv
BY StartedSound DEF DAInit, IInv, DATypeOK, Idle, Sound

\* A save leaves a sound document, the new one or the one that was there.
LEMMA SaveSound ==
  ASSUME Sound(doc), NEW state, Sound(state), Save(state)
  PROVE  Sound(doc')
BY DEF Save, Written

LEMMA FinishSound ==
  ASSUME IInv, NEW r \in Requests, Finish(r)
  PROVE  /\ req' \in [Requests -> [pc : {"idle", "loaded", "confirming"}, ctx : Documents]]
         /\ \A q \in Requests : Sound(req'[q].ctx)
BY StartedSound DEF IInv, DATypeOK, Finish, Idle, Sound

\* The answers that end a request.
LEMMA AnswerStep ==
  ASSUME IInv, NEW r \in Requests, NEW state, Sound(state), Save(state), Finish(r)
  PROVE  IInv'
<1>1. Sound(doc')
  BY SaveSound DEF IInv
<1> QED BY <1>1, FinishSound DEF IInv, DATypeOK, Sound, Follows, AwaitsAnswer, Fits, Documents, Dependents

LEMMA Preserved == IInv /\ [DANext]_daVars => IInv'
<1> SUFFICES ASSUME IInv, [DANext]_daVars PROVE IInv'
  OBVIOUS
<1>1. CASE UNCHANGED daVars
  BY <1>1 DEF daVars, IInv, DATypeOK, Sound, Follows, AwaitsAnswer, Fits, Documents, Dependents
<1>2. CASE DANext
  <2> PICK r \in Requests : Load(r) \/ Serve(r)
    BY <1>2 DEF DANext
  <2> Sound(req[r].ctx)
    BY DEF IInv
  <2>1. CASE Load(r)
    BY <2>1 DEF Load, IInv, DATypeOK, Sound, Follows, AwaitsAnswer, Fits, Documents, Dependents
  <2>2. CASE Show(r) \/ DetailsUnavailable(r)
    BY <2>2, FinishSound DEF Show, DetailsUnavailable, IInv, DATypeOK, Sound, Follows, AwaitsAnswer, Fits, Documents, Dependents
  <2>3. CASE UpdateOnSfd(r)
    BY <2>3, AwaitingUpdateSound, AnswerStep DEF UpdateOnSfd, Answer
  <2>4. CASE RejectDetails(r)
    BY <2>4, AwaitingUpdateSound, WithAnswerSound, AnswerStep DEF RejectDetails, Answer
  <2>5. CASE ConfirmDetails(r)
    <3> DEFINE state == WithAnswer(req[r].ctx, TRUE)
    <3>1. Sound(state)
      BY WithAnswerSound
    <3>2. Save(state) /\ req' = [req EXCEPT ![r] = [pc |-> "confirming", ctx |-> state]]
      BY <2>5 DEF ConfirmDetails
    <3> HIDE DEF state
    <3>3. Sound(doc')
      BY <3>1, <3>2, SaveSound DEF IInv
    <3>4. /\ req' \in [Requests -> [pc : {"idle", "loaded", "confirming"}, ctx : Documents]]
          /\ \A q \in Requests : Sound(req'[q].ctx)
      BY <3>1, <3>2 DEF IInv, DATypeOK, Sound
    <3> QED BY <3>3, <3>4 DEF IInv, DATypeOK, Sound, Follows, AwaitsAnswer, Fits, Documents, Dependents
  <2>6. CASE RecordApplicant(r)
    BY <2>6, ApplicantSound, AnswerStep DEF RecordApplicant
  <2>7. CASE ConfirmFarmDetails(r)
    BY <2>7, ApplicantSound, AnswerStep DEF ConfirmFarmDetails, Answer
  <2>8. CASE SelectParcels(r)
    <3> PICK selected \in SUBSET Parcels, measured \in SUBSET Parcels :
               /\ measured \subseteq selected
               /\ Answer(r, WithParcels(req[r].ctx, selected, measured))
      BY <2>8 DEF SelectParcels
    <3> QED BY WithParcelsSound, AnswerStep DEF Answer
  <2>9. CASE EnterHectares(r)
    <3> PICK hectares \in Hectares :
               /\ hectares <= Total[req[r].ctx.measured]
               /\ Answer(r, [Give(req[r].ctx, "hectares") EXCEPT !.hectares = hectares])
      BY <2>9 DEF EnterHectares
    <3> QED BY HectaresSound, AnswerStep DEF Answer
  <2>10. CASE PaymentPage(r)
    BY <2>10, PaymentSound, AnswerStep DEF PaymentPage, Answer
  <2> QED BY <2>1, <2>2, <2>3, <2>4, <2>5, <2>6, <2>7, <2>8, <2>9, <2>10 DEF Serve
<1> QED BY <1>1, <1>2 DEF DANext

LEMMA Invariant == DASpec => []IInv
BY Initial, Preserved, PTL DEF DASpec

\* Every variable keeps its type, for any number of requests and parcels.
THEOREM AnswersTypeCorrect == DASpec => []DATypeOK
<1>1. IInv => DATypeOK
  BY DEF IInv
<1> QED BY <1>1, Invariant, PTL

\* An answer the parcel page invalidates was given for the parcels the
\* document holds, whichever tabs overlap and whatever saves are lost.
THEOREM FollowCorrect == DASpec => []DependentsFollow
<1>1. IInv => DependentsFollow
  BY DEF IInv, Sound, DependentsFollow
<1> QED BY <1>1, Invariant, PTL

\* Details waiting to be changed are never confirmed.
THEOREM PendingCorrect == DASpec => []PendingIsUnanswered
<1>1. IInv => PendingIsUnanswered
  BY DEF IInv, Sound, PendingIsUnanswered
<1> QED BY <1>1, Invariant, PTL

\* However tabs overlap and whatever areas were missing as parcels were
\* selected, the woodland entered is no larger than the parcels it stands
\* beside, where selecting other parcels invalidates it.
THEOREM FitCorrect == DASpec => []HectaresWithinArea
<1>1. IInv => HectaresWithinArea
  <2> SUFFICES ASSUME IInv, "hectares" \in Invalidates, doc.given["hectares"] # Nothing
               PROVE  doc.hectares <= Total[doc.landParcels]
    BY DEF HectaresWithinArea
  <2>1. doc.given["hectares"] = doc.landParcels
    BY DEF IInv, Sound, Follows
  <2> QED BY <2>1 DEF IInv, Sound, Fits
<1> QED BY <1>1, Invariant, PTL
=============================================================================
